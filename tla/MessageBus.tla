----------------------------- MODULE MessageBus -----------------------------
(***************************************************************************)
(* The bus between agents, chaosmesh_arena/bus/message_bus.py: Redis lists *)
(* to poll and Redis pub/sub for callbacks, with an in-process fallback.   *)
(*                                                                         *)
(* Every call to Redis is an await and an action.  It may fail at any time *)
(* and, because a call that timed out may have been carried out, with or   *)
(* without its effect.  Callbacks are coroutines that do not use the bus;  *)
(* a handler's walk over them is one action.  Messages are numbers in the  *)
(* order their publication begins; their JSON always parses.               *)
(***************************************************************************)
EXTENDS Naturals, Sequences

CONSTANTS
    Agents,          \* the roles; each has one callback and one poller
    Publishers,      \* coroutines that publish
    MaxMessages,     \* bound on the messages ever published
    MaxFaults,       \* bound on failing calls and loops, expiring lists and close()
    Batch            \* how many messages one rpop takes

ASSUME BusAssumption ==
    /\ MaxMessages \in Nat /\ MaxFaults \in Nat /\ Batch \in Nat \ {0}
    /\ "broadcast" \notin Agents /\ Agents # {}

VARIABLES
    listening,       \* the agents that subscribe; the others poll
    redis_available, \* _redis_available
    list,            \* the Redis list of each channel, oldest message first
    subscribed,      \* the channels _pubsub is subscribed to
    inbox,           \* what Redis has sent on the pub/sub connection, still unread
    listeners,       \* the number of running _redis_listen_loop tasks
    callbacks,       \* _callbacks: channel -> the agents whose callback is registered
    handlers,        \* the number of _fallback_handlers of each channel
    subscriber,      \* how far each agent's subscribe_agent has come
    publisher,       \* the publishing coroutines
    poller,          \* the agents whose get_messages has popped broadcast only
    published,       \* the number of messages published so far
    sent,            \* history: channel -> the messages pushed or handed to the fallback
    polled,          \* history: agent -> channel -> the messages it popped, in order
    heard,           \* history: agent -> channel -> message -> times it was given
    fellBack,        \* history: <<channel, message>> published through the fallback
    faults,          \* the number of faults so far
    faulted          \* history: a subscription or listener failed, or close()

vars == <<listening, redis_available, list, subscribed, inbox, listeners, callbacks,
          handlers, subscriber, publisher, poller, published, sent, polled, heard,
          fellBack, faults, faulted>>

broadcast == "broadcast"
Channels == Agents \union {broadcast}
Messages == 1 .. MaxMessages
Reads(a) == {broadcast, a}

PublisherModel ==
    [pc : {"idle", "lpush", "publish", "fallback"}, msg : 0 .. MaxMessages,
     channel : Channels, more : BOOLEAN]
Idle == [pc |-> "idle", msg |-> 0, channel |-> broadcast, more |-> FALSE]

Init ==
    /\ listening \in SUBSET Agents
    /\ redis_available = FALSE
    /\ list = [c \in Channels |-> <<>>]
    /\ subscribed = {} /\ inbox = <<>> /\ listeners = 0
    /\ callbacks = [c \in Channels |-> {}]
    /\ handlers = [c \in Channels |-> 0]
    /\ subscriber = [a \in Agents |-> "new"]
    /\ publisher = [p \in Publishers |-> Idle]
    /\ poller = [a \in Agents |-> "idle"]
    /\ published = 0
    /\ sent = [c \in Channels |-> {}]
    /\ polled = [a \in Agents |-> [c \in Channels |-> <<>>]]
    /\ heard = [a \in Agents |-> [c \in Channels |-> [m \in Messages |-> 0]]]
    /\ fellBack = {} /\ faults = 0 /\ faulted = FALSE

modeVars == <<listening, redis_available>>
pubsubVars == <<subscribed, inbox, listeners>>
callbackVars == <<callbacks, handlers, subscriber>>
pollVars == <<poller, polled>>
faultVars == <<faults, faulted>>

\* One more thing fails.
Fault == faults < MaxFaults /\ faults' = faults + 1

\* connect() succeeds, possibly after subscriptions and publications; one that fails
\* leaves everything as it is.  Nothing is awaited between a publication's look at
\* _redis_available and its first callback: connect() does not get in there.
Connect ==
    /\ ~redis_available /\ \A p \in Publishers : publisher[p].pc # "fallback"
    /\ redis_available' = TRUE
    /\ UNCHANGED <<listening, list, pubsubVars, callbackVars, publisher, pollVars,
                   published, sent, heard, fellBack, faultVars>>

-----------------------------------------------------------------------------
(* broadcast, publish_to and _publish                                        *)

\* The start of _publish of message m on channel c; more says that publish_to sends
\* the message to everybody as well.
Publishing(m, c, more) ==
    [pc |-> IF redis_available THEN "lpush" ELSE "fallback", msg |-> m, channel |-> c,
     more |-> more]

Publish(p, c, more) ==
    /\ publisher[p].pc = "idle" /\ published < MaxMessages
    /\ more => c # broadcast
    /\ published' = published + 1
    /\ publisher' = [publisher EXCEPT ![p] = Publishing(published', c, more)]
    /\ UNCHANGED <<modeVars, list, pubsubVars, callbackVars, pollVars, sent, heard,
                   fellBack, faultVars>>

\* _publish returns: publish_to goes on to the broadcast channel, if it has to.
Returns(p) ==
    publisher' = [publisher EXCEPT ![p] =
        IF @.more THEN Publishing(@.msg, broadcast, FALSE) ELSE Idle]

Goto(p, pc) == publisher' = [publisher EXCEPT ![p].pc = pc]
Sends(c, m) == sent' = [sent EXCEPT ![c] = @ \union {m}]

\* lpush at the head, where rpop takes last, and expire: they succeed, or one of them
\* raises with the message pushed or not.
LPush(p) ==
    LET c == publisher[p].channel
    IN  /\ publisher[p].pc = "lpush"
        /\ \/ /\ list' = [list EXCEPT ![c] = Append(@, publisher[p].msg)]
              /\ \/ Goto(p, "publish") /\ UNCHANGED faults
                 \/ Goto(p, "fallback") /\ Fault
           \/ UNCHANGED list /\ Goto(p, "fallback") /\ Fault
        /\ Sends(c, publisher[p].msg)
        /\ UNCHANGED <<modeVars, pubsubVars, callbackVars, pollVars, published, heard,
                       fellBack, faulted>>

\* Redis sends a message once on a connection, however often the channel was
\* subscribed to.
RedisPublish(p) ==
    LET c == publisher[p].channel
    IN  /\ publisher[p].pc = "publish"
        /\ \/ /\ inbox' = IF c \in subscribed
                          THEN Append(inbox, <<c, publisher[p].msg>>) ELSE inbox
              /\ \/ Returns(p) /\ UNCHANGED faults
                 \/ Goto(p, "fallback") /\ Fault
           \/ UNCHANGED inbox /\ Goto(p, "fallback") /\ Fault
        /\ UNCHANGED <<modeVars, list, subscribed, listeners, callbackVars, pollVars,
                       published, sent, heard, fellBack, faulted>>

\* _dispatch gives the message to every callback of the channel.
Dispatched(c, m, times) ==
    heard' = [a \in Agents |->
                 IF a \in callbacks[c] THEN [heard[a] EXCEPT ![c][m] = @ + times]
                                       ELSE heard[a]]

\* InProcessQueue.publish calls every handler of the channel, and each of them
\* dispatches to every callback.  Nothing is put into a queue to be polled.
FallbackPublish(p) ==
    LET c == publisher[p].channel
    IN  /\ publisher[p].pc = "fallback"
        /\ Dispatched(c, publisher[p].msg, handlers[c])
        /\ fellBack' = fellBack \union {<<c, publisher[p].msg>>}
        /\ Sends(c, publisher[p].msg)
        /\ Returns(p)
        /\ UNCHANGED <<modeVars, list, pubsubVars, callbackVars, pollVars, published,
                       faultVars>>

-----------------------------------------------------------------------------
(* subscribe and the listen loops                                            *)

\* Seeded fault: the connection is sent a copy for every subscription of the channel.
PubSubSubscribed_Again(c) ==
    /\ subscribed' = subscribed \union {c}
    /\ listeners' = listeners + 1
    /\ inbox' = inbox \o SelectSeq(inbox, LAMBDA e : e[1] = c)

\* The subscription is made and a listen loop started for it.
PubSubSubscribed(c) ==
    /\ subscribed' = subscribed \union {c}
    /\ listeners' = listeners + 1
    /\ UNCHANGED inbox

\* subscribe_agent subscribes to broadcast and then to the agent's channel.  Without
\* Redis, or when it fails, a handler is registered with the in-process queue.
Subscribe(a, c) ==
    /\ a \in listening
    /\ subscriber[a] = IF c = broadcast THEN "new" ELSE broadcast
    /\ subscriber' = [subscriber EXCEPT ![a] = c]
    /\ callbacks' = [callbacks EXCEPT ![c] = @ \union {a}]
    /\ \/ redis_available /\ PubSubSubscribed(c) /\ UNCHANGED <<handlers, faultVars>>
       \/ /\ handlers' = [handlers EXCEPT ![c] = @ + 1]
          /\ \/ ~redis_available /\ UNCHANGED <<subscribed, faultVars>>
             \/ /\ redis_available /\ Fault /\ faulted' = TRUE
                /\ subscribed' \in {subscribed, subscribed \union {c}}
          /\ UNCHANGED <<inbox, listeners>>
    /\ UNCHANGED <<modeVars, list, publisher, pollVars, published, sent, heard, fellBack>>

\* Seeded fault: the loop ends with the first message it has dispatched.
Listen_Once ==
    /\ listeners > 0 /\ inbox # <<>>
    /\ listeners' = listeners - 1
    /\ inbox' = Tail(inbox)
    /\ Dispatched(Head(inbox)[1], Head(inbox)[2], 1)
    /\ UNCHANGED <<modeVars, list, subscribed, callbackVars, publisher, pollVars,
                   published, sent, fellBack, faultVars>>

\* A loop reads the next message; the handler registered with the pub/sub object, or
\* the loop itself, dispatches it once.
Listen ==
    /\ listeners > 0 /\ inbox # <<>>
    /\ inbox' = Tail(inbox)
    /\ Dispatched(Head(inbox)[1], Head(inbox)[2], 1)
    /\ UNCHANGED <<modeVars, list, subscribed, listeners, callbackVars, publisher,
                   pollVars, published, sent, fellBack, faultVars>>

\* Seeded fault: a loop that fails is counted out by itself and by whoever started it.
ListenerFails_CountedTwice ==
    /\ listeners > 0
    /\ listeners' = listeners - 2
    /\ inbox' \in {inbox, <<>>}
    /\ Fault /\ faulted' = TRUE
    /\ UNCHANGED <<modeVars, list, subscribed, callbackVars, publisher, pollVars,
                   published, sent, heard, fellBack>>

\* An exception ends a loop for good.  What the broken connection held may be lost.
ListenerFails ==
    /\ listeners > 0
    /\ listeners' = listeners - 1
    /\ inbox' \in {inbox, <<>>}
    /\ Fault /\ faulted' = TRUE
    /\ UNCHANGED <<modeVars, list, subscribed, callbackVars, publisher, pollVars,
                   published, sent, heard, fellBack>>

\* close() leaves _redis_available as it is: publications still go to Redis.
Close ==
    /\ redis_available
    /\ listeners' = 0 /\ subscribed' = {} /\ inbox' = <<>>
    /\ Fault /\ faulted' = TRUE
    /\ UNCHANGED <<modeVars, list, callbackVars, publisher, pollVars, published, sent,
                   heard, fellBack>>

-----------------------------------------------------------------------------
(* get_messages                                                              *)

\* The messages of a list an rpop takes.
Popped(c) == IF Len(list[c]) < Batch THEN Len(list[c]) ELSE Batch

\* The broadcast list is popped first.
MayPop(a, c) ==
    /\ redis_available /\ a \notin listening
    /\ poller[a] = IF c = broadcast THEN "idle" ELSE a

\* Seeded fault: lpop instead of rpop.
RPop_Newest(a, c) ==
    LET k == Len(list[c]) - Popped(c)
    IN  /\ MayPop(a, c)
        /\ list' = [list EXCEPT ![c] = SubSeq(@, 1, k)]
        /\ polled' = [polled EXCEPT ![a][c] = @ \o SubSeq(list[c], k + 1, Len(list[c]))]
        /\ poller' = [poller EXCEPT ![a] = IF c = broadcast THEN a ELSE "idle"]
        /\ UNCHANGED <<modeVars, pubsubVars, callbackVars, publisher, published, sent,
                       heard, fellBack, faultVars>>

\* The broadcast list and then the agent's own, up to Batch messages each.  What the
\* first rpop returned is kept when the second raises, but what was popped by a call
\* whose answer is lost is gone.  Without Redis the in-process queues are looked at,
\* and nothing is ever put into them.
RPop(a, c) ==
    /\ MayPop(a, c)
    /\ \/ /\ list' = [list EXCEPT ![c] = SubSeq(@, Popped(c) + 1, Len(@))]
          /\ polled' = [polled EXCEPT ![a][c] = @ \o SubSeq(list[c], 1, Popped(c))]
          /\ poller' = [poller EXCEPT ![a] = IF c = broadcast THEN a ELSE "idle"]
          /\ UNCHANGED faults
       \/ /\ Fault
          /\ list' \in {list, [list EXCEPT ![c] = SubSeq(@, Popped(c) + 1, Len(@))]}
          /\ poller' = [poller EXCEPT ![a] = "idle"]
          /\ UNCHANGED polled
    /\ UNCHANGED <<modeVars, pubsubVars, callbackVars, publisher, published, sent, heard,
                   fellBack, faulted>>

\* Nothing was pushed to the list for five minutes.
ListExpires(c) ==
    /\ list[c] # <<>>
    /\ Fault
    /\ list' = [list EXCEPT ![c] = <<>>]
    /\ UNCHANGED <<modeVars, pubsubVars, callbackVars, publisher, pollVars, published,
                   sent, heard, fellBack, faulted>>

Next ==
    \/ Connect
    \/ \E p \in Publishers :
          \/ \E c \in Channels, more \in BOOLEAN : Publish(p, c, more)
          \/ LPush(p) \/ RedisPublish(p) \/ FallbackPublish(p)
    \/ \E a \in Agents :
          \E c \in Reads(a) : Subscribe(a, c) \/ RPop(a, c)
    \/ Listen \/ ListenerFails \/ Close
    \/ \E c \in Channels : ListExpires(c)

\* The event loop gets round to a loop whose connection has something to read.
Spec == Init /\ [][Next]_vars /\ WF_vars(Listen)

-----------------------------------------------------------------------------
\* The variables keep their types, whatever fails.
TypeOK ==
    /\ listening \subseteq Agents
    /\ redis_available \in BOOLEAN
    /\ list \in [Channels -> Seq(Messages)]
    /\ subscribed \subseteq Channels
    /\ inbox \in Seq(Channels \X Messages)
    /\ listeners \in Nat
    /\ callbacks \in [Channels -> SUBSET Agents]
    /\ handlers \in [Channels -> Nat]
    /\ subscriber \in [Agents -> Channels \union {"new"}]
    /\ publisher \in [Publishers -> PublisherModel]
    /\ poller \in [Agents -> Agents \union {"idle"}]
    /\ published \in 0 .. MaxMessages
    /\ sent \in [Channels -> SUBSET Messages]
    /\ polled \in [Agents -> [Channels -> Seq(Messages)]]
    /\ heard \in [Agents -> [Channels -> [Messages -> Nat]]]
    /\ fellBack \subseteq Channels \X Messages
    /\ faults \in 0 .. MaxFaults /\ faulted \in BOOLEAN

\* As long as its publication does not fall back, a message is given at most once to a
\* callback, however many subscriptions and listen loops there are.
RedisDeliversOnce ==
    \A c \in Channels, m \in Messages :
        <<c, m>> \notin fellBack => \A a \in Agents : heard[a][c][m] <= 1

\* A callback has yet to hear what Redis has sent for it.
Backlog ==
    \E i \in DOMAIN inbox : \E a \in callbacks[inbox[i][1]] :
        heard[a][inbox[i][1]][inbox[i][2]] = 0

\* What Redis has sent on the pub/sub connection reaches the callbacks of its channel,
\* unless a subscription or a listen loop fails or the bus is closed.
PublishedIsHeard == Backlog ~> ~Backlog \/ faulted

\* To the messages that are addressed to one agent the bus keeps the promise of Mailboxes:
\* they wait in a list that only this agent pops, come in the order of the pushes, none
\* twice, and miss the list or get lost only before connect() or at a call that fails or
\* a list that expires; its callback hears of its channel nothing that was not sent there.
\* What "all agents receive" is no part of it: who polls first takes a broadcast away.
Mailbox == INSTANCE Mailboxes WITH
    open <- redis_available,
    failures <- faults,
    queue <- [a \in Agents |-> list[a]],
    sent <- [a \in Agents |-> sent[a]],
    taken <- [a \in Agents |-> polled[a][a]],
    heard <- [a \in Agents |-> {m \in Messages : heard[a][a][m] > 0}]

IsAMailbox == Mailbox!Spec
=============================================================================
