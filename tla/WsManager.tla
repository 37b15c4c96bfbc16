----------------------------- MODULE WsManager ------------------------------
(***************************************************************************)
(* The WebSocket fan-out: ConnectionManager of server/ws_manager.py and    *)
(* the /ws/stream handler of server/main.py that registers its clients.    *)
(*                                                                         *)
(* Everything runs on one event loop.  Sending to a client is an await;    *)
(* the manager's lock is held across none, so a critical section is part   *)
(* of the action around it.  What a client sends (pings) and the payloads  *)
(* are left out; an event is its kind and its episode.                     *)
(***************************************************************************)
EXTENDS Naturals, Sequences, SequencesExt

CONSTANTS
    Clients,          \* WebSocket connections
    Tasks,            \* coroutines that broadcast: request handlers
    Episodes,
    Kinds,            \* event types
    ScopedKinds,      \* those whose emitter passes the episode on
    Filters,          \* the pairs of episode and kind that clients filter by
    MaxEvents         \* bound on the events ever broadcast

Everything == "everything"       \* no episode filter, no subscription, no scope

ASSUME WsAssumption ==
    /\ MaxEvents \in Nat
    /\ ScopedKinds \subseteq Kinds
    /\ Everything \notin Episodes \union Kinds
    /\ Filters \subseteq (Episodes \union {Everything}) \X (Kinds \union {Everything})

VARIABLES
    clients,      \* _clients, in the order of their registration
    socket,       \* client -> its handler, its filters and its peer
    task,         \* the broadcasting coroutines
    events,       \* the events broadcast so far
    got,          \* history: client -> the events sent to it
    before        \* history: event -> who was registered, and who had left, before it

vars == <<clients, socket, task, events, got, before>>

EventIds == 1 .. MaxEvents
Event == [kind : Kinds, scope : Episodes \union {Everything}]
Socket ==
    [handler : {"new", "greeting", "reading", "ended", "refused"},
     episode_filter : Episodes \union {Everything},
     subscription : Kinds \union {Everything},
     peer : {"alive", "stalled", "gone"}]
NewSocket == [handler |-> "new", episode_filter |-> Everything,
              subscription |-> Everything, peer |-> "alive"]
Task == [event : 0 .. MaxEvents, targets : Seq(Clients), dead : SUBSET Clients]
Idle == [event |-> 0, targets |-> <<>>, dead |-> {}]

Init ==
    /\ clients = <<>>
    /\ socket = [c \in Clients |-> NewSocket]
    /\ task = [t \in Tasks |-> Idle]
    /\ events = <<>>
    /\ got = [c \in Clients |-> {}]
    /\ before = <<>>

-----------------------------------------------------------------------------
(* /ws/stream                                                                *)

\* The token or key is good: the client is registered, and a broadcast may reach it
\* before it has been greeted.
Connect(c, filter) ==
    /\ socket[c].handler = "new" /\ socket[c].peer = "alive"
    /\ socket' = [socket EXCEPT ![c].handler = "greeting", ![c].episode_filter = filter[1],
                                ![c].subscription = filter[2]]
    /\ clients' = Append(clients, c)
    /\ UNCHANGED <<task, events, got, before>>

\* Neither is: the connection is closed with 4001.
Refuse(c) ==
    /\ socket[c].handler = "new"
    /\ socket' = [socket EXCEPT ![c].handler = "refused"]
    /\ UNCHANGED <<clients, task, events, got, before>>

\* Seeded fault: a client is registered again when it has been greeted.
Greet_Registers(c) ==
    /\ socket[c].handler = "greeting" /\ socket[c].peer # "stalled"
    /\ socket' = [socket EXCEPT ![c].handler = "reading"]
    /\ clients' = Append(clients, c)
    /\ UNCHANGED <<task, events, got, before>>

\* send_to swallows what goes wrong.
Greet(c) ==
    /\ socket[c].handler = "greeting" /\ socket[c].peer # "stalled"
    /\ socket' = [socket EXCEPT ![c].handler = "reading"]
    /\ UNCHANGED <<clients, task, events, got, before>>

\* receive_text raises.  The handler calls disconnect() without awaiting it, which does
\* nothing: the client stays registered.
HandlerEnds(c) ==
    /\ socket[c].handler = "reading" /\ socket[c].peer = "gone"
    /\ socket' = [socket EXCEPT ![c].handler = "ended"]
    /\ UNCHANGED <<clients, task, events, got, before>>

\* The peer goes away, or stops and resumes reading.
PeerChanges(c, peer) ==
    /\ socket[c].handler \in {"greeting", "reading"}
    /\ socket[c].peer \notin {"gone", peer}
    /\ socket' = [socket EXCEPT ![c].peer = peer]
    /\ UNCHANGED <<clients, task, events, got, before>>

-----------------------------------------------------------------------------
(* broadcast                                                                 *)

\* The emit_ helpers scope an event to its episode, but for emit_level_advanced and the
\* broadcasts of the routes.
Scope(kind, episode) == IF kind \in ScopedKinds THEN episode ELSE Everything

Wants(c, e) ==
    /\ \/ Everything \in {e.scope, socket[c].episode_filter}
       \/ socket[c].episode_filter = e.scope
    /\ socket[c].subscription \in {Everything, e.kind}

\* The clients of a list that are in a set, in their order.
Among(list, keep) ==
    LET kept[n \in 0 .. Len(list)] ==
            IF n = 0 THEN <<>>
            ELSE IF list[n] \in keep THEN Append(kept[n - 1], list[n]) ELSE kept[n - 1]
    IN  kept[Len(list)]

Wanting(e) == {c \in Clients : Wants(c, e)}

TailOrEmpty(s) == IF s = <<>> THEN <<>> ELSE Tail(s)

\* Seeded fault: the walk starts with the second client.
Targets_OffByOne(e) == Among(TailOrEmpty(clients), Wanting(e))

\* The copy of _clients that a broadcast walks, without those its filters skip.
Targets(e) == Among(clients, Wanting(e))

Broadcast(t, kind, episode) ==
    LET e == [kind |-> kind, scope |-> Scope(kind, episode)]
    IN  /\ task[t].event = 0 /\ Len(events) < MaxEvents
        /\ events' = Append(events, e)
        /\ task' = [task EXCEPT ![t] =
                        [event |-> Len(events'), targets |-> Targets(e), dead |-> {}]]
        /\ before' = Append(before,
                        [registered |-> {c \in Clients : Contains(clients, c)},
                         left |-> {c \in Clients : socket[c].handler = "ended"}])
        /\ UNCHANGED <<clients, socket, got>>

Advance(t, dead) ==
    task' = [task EXCEPT ![t].targets = Tail(@), ![t].dead = @ \union dead]

\* Seeded fault: only a send that raises makes a client dead.
SendNext_NoStateCheck(t) ==
    /\ task[t].targets # <<>>
    /\ LET c == Head(task[t].targets)
       IN  /\ socket[c].peer # "stalled"
           /\ Advance(t, {})
           /\ got' = IF socket[c].peer = "alive"
                     THEN [got EXCEPT ![c] = @ \union {task[t].event}] ELSE got
    /\ UNCHANGED <<clients, socket, events, before>>

\* The next target is sent the event.  A client whose handler has ended is dead; one
\* whose peer has gone unnoticed is if the send raises.  A stalled peer holds the send,
\* and with it the whole broadcast, up.
SendNext(t) ==
    /\ task[t].targets # <<>>
    /\ LET c == Head(task[t].targets)
       IN  \/ socket[c].handler = "ended" /\ Advance(t, {c}) /\ UNCHANGED got
           \/ /\ socket[c].handler # "ended" /\ socket[c].peer = "gone"
              /\ Advance(t, {c}) \/ Advance(t, {})
              /\ UNCHANGED got
           \/ /\ socket[c].peer = "alive"
              /\ Advance(t, {})
              /\ got' = [got EXCEPT ![c] = @ \union {task[t].event}]
    /\ UNCHANGED <<clients, socket, events, before>>

\* Seeded fault: the snapshot less the dead is written back.
Prune_WritesBack(t) ==
    /\ task[t].event # 0 /\ task[t].targets = <<>>
    /\ clients' = Among(Targets(events[task[t].event]), Clients \ task[t].dead)
    /\ task' = [task EXCEPT ![t] = Idle]
    /\ UNCHANGED <<socket, events, got, before>>

\* Seeded fault: the lock is not given back before it is asked for to prune.
Prune_Deadlocks(t) ==
    /\ task[t].event # 0 /\ task[t].targets = <<>> /\ task[t].dead = {}
    /\ task' = [task EXCEPT ![t] = Idle]
    /\ UNCHANGED <<clients, socket, events, got, before>>

\* The dead are removed from the list as it is now; some may have been already.
Prune(t) ==
    /\ task[t].event # 0 /\ task[t].targets = <<>>
    /\ clients' = Among(clients, Clients \ task[t].dead)
    /\ task' = [task EXCEPT ![t] = Idle]
    /\ UNCHANGED <<socket, events, got, before>>

Next ==
    \/ \E c \in Clients :
          \/ \E filter \in Filters : Connect(c, filter)
          \/ Refuse(c) \/ Greet(c) \/ HandlerEnds(c)
          \/ \E peer \in {"alive", "stalled", "gone"} : PeerChanges(c, peer)
    \/ \E t \in Tasks :
          \/ \E kind \in Kinds, episode \in Episodes : Broadcast(t, kind, episode)
          \/ SendNext(t) \/ Prune(t)

\* The event loop resumes a broadcast whose send has been taken.
Spec == Init /\ [][Next]_vars /\ \A t \in Tasks : WF_vars(SendNext(t)) /\ WF_vars(Prune(t))

-----------------------------------------------------------------------------
\* The variables keep their types, and a client is registered at most once.
TypeOK ==
    /\ clients \in Seq(Clients) /\ IsInjective(clients)
    /\ socket \in [Clients -> Socket]
    /\ task \in [Tasks -> Task]
    /\ events \in Seq(Event) /\ Len(events) <= MaxEvents
    /\ got \in [Clients -> SUBSET EventIds]
    /\ before \in Seq([registered : SUBSET Clients, left : SUBSET Clients])

Ended(m) == m \in DOMAIN events /\ \A t \in Tasks : task[t].event # m

\* A client with a live peer is registered, and stays so whatever broadcasts prune: only
\* those that have gone are ever taken out of the list.
OnlyTheGoneArePruned ==
    \A c \in Clients :
        socket[c].handler \in {"greeting", "reading"} /\ socket[c].peer # "gone"
            => Contains(clients, c)

\* A client that had left before an event was broadcast is out of the list when the
\* broadcast has returned, if it would have wanted the event.
PrunedByNextBroadcast ==
    \A m \in DOMAIN events : Ended(m) =>
        \A c \in before[m].left : Wants(c, events[m]) => ~Contains(clients, c)

\* A registered client that stays reachable gets every event it wants that is broadcast
\* after it registered, although clients come and go during the broadcast.
NoLiveClientMissesAnEvent ==
    \A m \in DOMAIN events : Ended(m) =>
        \A c \in before[m].registered :
            Wants(c, events[m]) /\ socket[c].peer # "gone" => m \in got[c]

\* A broadcast, and the request that waits for it, ends, unless a peer stalls.
BroadcastReturns ==
    \A t \in Tasks :
        task[t].event # 0 ~>
            task[t].event = 0 \/ \E c \in Clients : socket[c].peer = "stalled"
=============================================================================
