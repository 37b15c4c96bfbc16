-------------------------- MODULE MessageBusProofs --------------------------
(***************************************************************************)
(* Proofs about MessageBus, for any agents, any number of publishers and   *)
(* any bounds: the types, that Redis delivers a message once to a callback *)
(* and that the bus implements Mailboxes.                                  *)
(***************************************************************************)
EXTENDS MessageBus, SequenceTheorems, TLAPS

-----------------------------------------------------------------------------
(* The inductive invariant                                                   *)

\* A message being published is nobody else's, and was not sent yet on a channel it is
\* still to be sent on.
BusyInv ==
    /\ \A p \in Publishers :
          LET w == publisher[p]
          IN  w.pc # "idle" =>
                 /\ w.msg \in 1 .. published
                 /\ w.more => w.channel # broadcast /\ w.msg \notin sent[broadcast]
                 /\ w.pc = "lpush" => w.msg \notin sent[w.channel]
                 /\ w.pc = "publish" => w.msg \in sent[w.channel]
    /\ \A p, q \in Publishers :
          p # q /\ publisher[p].pc # "idle" /\ publisher[q].pc # "idle"
              => publisher[p].msg # publisher[q].msg
    /\ \A c \in Channels : sent[c] \subseteq 1 .. published

CallbackInv == \A c \in Channels : \A a \in callbacks[c] : c \in Reads(a)

\* The connection holds what was sent, each message once and not before it is published.
InboxInv ==
    /\ \A i \in 1 .. Len(inbox) : inbox[i][2] \in sent[inbox[i][1]]
    /\ \A i, j \in 1 .. Len(inbox) : i # j => inbox[i] # inbox[j]
    /\ \A p \in Publishers : publisher[p].pc = "publish" =>
          \A i \in 1 .. Len(inbox) : inbox[i] # <<publisher[p].channel, publisher[p].msg>>

\* Callbacks hear what was sent, and without the fallback not before Redis has given it.
HeardInv ==
    /\ \A a \in Agents, c \in Channels, m \in Messages : heard[a][c][m] > 0 => m \in sent[c]
    /\ \A p \in Publishers : publisher[p].pc = "publish" =>
          \A a \in Agents : heard[a][publisher[p].channel][publisher[p].msg] = 0
    /\ \A i \in 1 .. Len(inbox) : inbox[i] \notin fellBack =>
          \A a \in Agents : heard[a][inbox[i][1]][inbox[i][2]] = 0
    /\ RedisDeliversOnce

Inv == TypeOK /\ BusyInv /\ CallbackInv /\ InboxInv /\ HeardInv

LEMMA Numbers ==
    /\ MaxMessages \in Nat /\ MaxFaults \in Nat /\ Batch \in Nat \ {0}
    /\ broadcast \in Channels /\ Agents \subseteq Channels
    /\ \A a \in Agents : Reads(a) \subseteq Channels
BY BusAssumption DEF BusAssumption, Channels, Reads

LEMMA InitHolds == Init => Inv
<1> SUFFICES ASSUME Init PROVE Inv
  OBVIOUS
<1> USE Numbers
<1>1. TypeOK
  <2>1. /\ list \in [Channels -> Seq(Messages)] /\ inbox \in Seq(Channels \X Messages)
        /\ polled \in [Agents -> [Channels -> Seq(Messages)]]
    BY DEF Init
  <2>2. publisher \in [Publishers -> PublisherModel]
    BY DEF Init, Idle, PublisherModel
  <2>3. heard \in [Agents -> [Channels -> [Messages -> Nat]]]
    BY DEF Init
  <2>4. /\ redis_available \in BOOLEAN /\ listeners \in Nat /\ published \in 0 .. MaxMessages
        /\ faults \in 0 .. MaxFaults /\ faulted \in BOOLEAN
    <3>1. redis_available = FALSE /\ listeners = 0 /\ published = 0 /\ faults = 0
          /\ faulted = FALSE
      BY DEF Init
    <3>2. 0 \in 0 .. MaxMessages /\ 0 \in 0 .. MaxFaults
      OBVIOUS
    <3> QED
      BY <3>1, <3>2, Zenon
  <2>5. /\ callbacks \in [Channels -> SUBSET Agents] /\ handlers \in [Channels -> Nat]
        /\ subscriber \in [Agents -> Channels \union {"new"}]
        /\ poller \in [Agents -> Agents \union {"idle"}]
        /\ sent \in [Channels -> SUBSET Messages]
    BY DEF Init
  <2>6. /\ listening \subseteq Agents /\ subscribed \subseteq Channels
        /\ fellBack \subseteq Channels \X Messages
    BY DEF Init
  <2> QED
    BY <2>1, <2>2, <2>3, <2>4, <2>5, <2>6 DEF TypeOK
<1>2. BusyInv
  BY DEF Init, BusyInv, Idle
<1>3. CallbackInv
  BY DEF Init, CallbackInv
<1>4. InboxInv
  BY DEF Init, InboxInv, Idle
<1>5. HeardInv
  <2>1. \A a \in Agents, c \in Channels, m \in Messages : heard[a][c][m] = 0
    BY DEF Init
  <2> QED
    BY <2>1 DEF Init, HeardInv, RedisDeliversOnce, Idle
<1> QED
  BY <1>1, <1>2, <1>3, <1>4, <1>5 DEF Inv

-----------------------------------------------------------------------------
(* What the parts of an action do                                            *)

LEMMA GotoMoves ==
    ASSUME TypeOK, NEW p \in Publishers, NEW pc \in {"idle", "lpush", "publish", "fallback"},
           Goto(p, pc)
    PROVE  /\ publisher' \in [Publishers -> PublisherModel]
           /\ publisher'[p].pc = pc
           /\ publisher'[p].msg = publisher[p].msg
           /\ publisher'[p].channel = publisher[p].channel
           /\ publisher'[p].more = publisher[p].more
           /\ \A q \in Publishers \ {p} : publisher'[q] = publisher[q]
BY DEF TypeOK, Goto, PublisherModel

LEMMA ReturnsMoves ==
    ASSUME TypeOK, NEW p \in Publishers, Returns(p)
    PROVE  /\ publisher' \in [Publishers -> PublisherModel]
           /\ publisher'[p].more = FALSE
           /\ \/ publisher'[p].pc = "idle"
              \/ /\ publisher[p].more
                 /\ publisher'[p].pc \in {"lpush", "fallback"}
                 /\ publisher'[p].msg = publisher[p].msg
                 /\ publisher'[p].channel = broadcast
           /\ \A q \in Publishers \ {p} : publisher'[q] = publisher[q]
<1>1. publisher[p] \in PublisherModel /\ broadcast \in Channels
  BY Numbers DEF TypeOK
<1>2. CASE publisher[p].more
  <2>1. publisher' = [publisher EXCEPT ![p] = Publishing(publisher[p].msg, broadcast, FALSE)]
    BY <1>2 DEF Returns, TypeOK
  <2>2. /\ Publishing(publisher[p].msg, broadcast, FALSE) \in PublisherModel
        /\ Publishing(publisher[p].msg, broadcast, FALSE).pc \in {"lpush", "fallback"}
        /\ Publishing(publisher[p].msg, broadcast, FALSE).msg = publisher[p].msg
        /\ Publishing(publisher[p].msg, broadcast, FALSE).channel = broadcast
        /\ Publishing(publisher[p].msg, broadcast, FALSE).more = FALSE
    BY <1>1 DEF Publishing, PublisherModel
  <2> QED
    BY <1>2, <2>1, <2>2 DEF TypeOK
<1>3. CASE ~publisher[p].more
  <2>1. publisher' = [publisher EXCEPT ![p] = Idle]
    BY <1>3 DEF Returns, TypeOK
  <2>2. Idle \in PublisherModel /\ Idle.pc = "idle" /\ Idle.more = FALSE
    BY <1>1, Numbers DEF Idle, PublisherModel
  <2> QED
    BY <2>1, <2>2 DEF TypeOK
<1> QED
  BY <1>2, <1>3

LEMMA SendsOne ==
    ASSUME TypeOK, NEW c \in Channels, NEW m \in Messages, Sends(c, m)
    PROVE  /\ sent' \in [Channels -> SUBSET Messages]
           /\ sent'[c] = sent[c] \union {m}
           /\ \A d \in Channels \ {c} : sent'[d] = sent[d]
BY DEF TypeOK, Sends

LEMMA DispatchedCounts ==
    ASSUME TypeOK, NEW c \in Channels, NEW m \in Messages, NEW times \in Nat,
           Dispatched(c, m, times)
    PROVE  /\ heard' \in [Agents -> [Channels -> [Messages -> Nat]]]
           /\ \A a \in Agents, d \in Channels, k \in Messages :
                 heard'[a][d][k] =
                     IF a \in callbacks[c] /\ d = c /\ k = m THEN heard[a][d][k] + times
                                                             ELSE heard[a][d][k]
<1>1. ASSUME NEW a \in Agents
      PROVE  /\ heard'[a] \in [Channels -> [Messages -> Nat]]
             /\ \A d \in Channels, k \in Messages :
                   heard'[a][d][k] =
                       IF a \in callbacks[c] /\ d = c /\ k = m THEN heard[a][d][k] + times
                                                               ELSE heard[a][d][k]
  <2>1. heard[a] \in [Channels -> [Messages -> Nat]]
    BY DEF TypeOK
  <2>2. CASE a \in callbacks[c]
    <3>1. heard'[a] = [heard[a] EXCEPT ![c][m] = heard[a][c][m] + times]
      BY <2>2 DEF Dispatched
    <3>2. heard[a][c][m] + times \in Nat
      BY <2>1
    <3> QED
      BY <2>1, <2>2, <3>1, <3>2
  <2>3. CASE a \notin callbacks[c]
    BY <2>1, <2>3 DEF Dispatched
  <2> QED
    BY <2>2, <2>3
<1>2. heard' \in [Agents -> [Channels -> [Messages -> Nat]]]
  BY <1>1 DEF Dispatched
<1> QED
  BY <1>1, <1>2

LEMMA PoppedCount ==
    ASSUME TypeOK, NEW c \in Channels
    PROVE  /\ Popped(c) \in 0 .. Len(list[c])
           /\ SubSeq(list[c], 1, Popped(c)) \in Seq(Messages)
           /\ SubSeq(list[c], Popped(c) + 1, Len(list[c])) \in Seq(Messages)
<1>1. list[c] \in Seq(Messages) /\ Len(list[c]) \in Nat
  BY DEF TypeOK
<1>2. Popped(c) \in 0 .. Len(list[c])
  BY <1>1, Numbers DEF Popped
<1> QED
  BY <1>1, <1>2, SubSeqProperties

-----------------------------------------------------------------------------
(* Every action keeps the types                                              *)

\* What a publisher that is at work holds.
LEMMA BusyHolds ==
    ASSUME TypeOK, BusyInv, NEW p \in Publishers, publisher[p].pc # "idle"
    PROVE  publisher[p].channel \in Channels /\ publisher[p].msg \in Messages
BY Numbers DEF TypeOK, BusyInv, PublisherModel, Messages

LEMMA FaultCounts == ASSUME TypeOK, Fault PROVE faults' \in 0 .. MaxFaults
BY Numbers DEF TypeOK, Fault

LEMMA SameTypes ==
    ASSUME TypeOK, UNCHANGED vars PROVE TypeOK'
BY DEF TypeOK, vars

LEMMA ConnectTypes == ASSUME TypeOK, Connect PROVE TypeOK'
BY DEF TypeOK, Connect, pubsubVars, callbackVars, pollVars, faultVars

LEMMA PublishTypes ==
    ASSUME TypeOK, NEW p \in Publishers, NEW c \in Channels, NEW more \in BOOLEAN,
           Publish(p, c, more)
    PROVE  TypeOK'
<1>1. published' \in 0 .. MaxMessages /\ published' = published + 1
  BY Numbers DEF TypeOK, Publish
<1>2. Publishing(published', c, more) \in PublisherModel
  BY <1>1 DEF Publishing, PublisherModel
<1>3. publisher' \in [Publishers -> PublisherModel]
  BY <1>2 DEF TypeOK, Publish
<1> QED
  BY <1>1, <1>3
     DEF TypeOK, Publish, modeVars, pubsubVars, callbackVars, pollVars, faultVars

LEMMA LPushTypes ==
    ASSUME TypeOK, BusyInv, NEW p \in Publishers, LPush(p) PROVE TypeOK'
<1>1. publisher[p].channel \in Channels /\ publisher[p].msg \in Messages
  BY BusyHolds DEF LPush
<1>2. list' \in [Channels -> Seq(Messages)]
  <2>1. list[publisher[p].channel] \in Seq(Messages)
    BY <1>1 DEF TypeOK
  <2>2. Append(list[publisher[p].channel], publisher[p].msg) \in Seq(Messages)
    BY <1>1, <2>1, AppendProperties
  <2> QED
    BY <1>1, <2>2 DEF LPush, TypeOK
<1>3. publisher' \in [Publishers -> PublisherModel]
  BY GotoMoves DEF LPush
<1>4. sent' \in [Channels -> SUBSET Messages]
  BY <1>1, SendsOne DEF LPush
<1>5. faults' \in 0 .. MaxFaults
  BY FaultCounts DEF LPush, TypeOK
<1> QED
  BY <1>2, <1>3, <1>4, <1>5
     DEF TypeOK, LPush, modeVars, pubsubVars, callbackVars, pollVars

LEMMA RedisPublishTypes ==
    ASSUME TypeOK, BusyInv, NEW p \in Publishers, RedisPublish(p) PROVE TypeOK'
<1>1. publisher[p].channel \in Channels /\ publisher[p].msg \in Messages
  BY BusyHolds DEF RedisPublish
<1>2. inbox' \in Seq(Channels \X Messages)
  <2>1. Append(inbox, <<publisher[p].channel, publisher[p].msg>>) \in Seq(Channels \X Messages)
    BY <1>1, AppendProperties DEF TypeOK
  <2> QED
    BY <2>1 DEF RedisPublish, TypeOK
<1>3. publisher' \in [Publishers -> PublisherModel]
  BY GotoMoves, ReturnsMoves DEF RedisPublish
<1>4. faults' \in 0 .. MaxFaults
  BY FaultCounts DEF RedisPublish, TypeOK
<1> QED
  BY <1>2, <1>3, <1>4
     DEF TypeOK, RedisPublish, modeVars, callbackVars, pollVars

LEMMA FallbackPublishTypes ==
    ASSUME TypeOK, BusyInv, NEW p \in Publishers, FallbackPublish(p) PROVE TypeOK'
<1>1. publisher[p].channel \in Channels /\ publisher[p].msg \in Messages
  BY BusyHolds DEF FallbackPublish
<1>2. heard' \in [Agents -> [Channels -> [Messages -> Nat]]]
  BY <1>1, DispatchedCounts DEF FallbackPublish, TypeOK
<1>3. publisher' \in [Publishers -> PublisherModel]
  BY ReturnsMoves DEF FallbackPublish
<1>4. sent' \in [Channels -> SUBSET Messages]
  BY <1>1, SendsOne DEF FallbackPublish
<1>5. fellBack' \subseteq Channels \X Messages
  BY <1>1 DEF FallbackPublish, TypeOK
<1> QED
  BY <1>2, <1>3, <1>4, <1>5
     DEF TypeOK, FallbackPublish, modeVars, pubsubVars, callbackVars, pollVars, faultVars

LEMMA SubscribeTypes ==
    ASSUME TypeOK, NEW a \in Agents, NEW c \in Reads(a), Subscribe(a, c) PROVE TypeOK'
<1>1. c \in Channels
  BY Numbers
<1>2. /\ subscriber' \in [Agents -> Channels \union {"new"}]
      /\ callbacks' \in [Channels -> SUBSET Agents]
  BY <1>1 DEF TypeOK, Subscribe
<1>3. handlers' \in [Channels -> Nat]
  <2>1. handlers \in [Channels -> Nat]
    BY DEF TypeOK
  <2>2. handlers' = handlers \/ handlers' = [handlers EXCEPT ![c] = @ + 1]
    BY DEF Subscribe
  <2> QED
    BY <1>1, <2>1, <2>2
<1>4. /\ subscribed' \subseteq Channels /\ listeners' \in Nat /\ inbox' = inbox
      /\ faulted' \in BOOLEAN
  <2>1. /\ subscribed \subseteq Channels /\ listeners \in Nat /\ faulted \in BOOLEAN
    BY DEF TypeOK
  <2>2. /\ subscribed' = subscribed \/ subscribed' = subscribed \union {c}
        /\ listeners' = listeners \/ listeners' = listeners + 1
        /\ inbox' = inbox
        /\ faulted' = faulted \/ faulted' = TRUE
    BY DEF Subscribe, PubSubSubscribed, faultVars
  <2>3. subscribed' \subseteq Channels
    BY <1>1, <2>1, <2>2, Zenon
  <2>4. listeners' \in Nat
    BY <2>1, <2>2
  <2>5. faulted' \in BOOLEAN
    BY <2>1, <2>2
  <2> QED
    BY <2>2, <2>3, <2>4, <2>5
<1>5. faults' \in 0 .. MaxFaults
  BY FaultCounts DEF Subscribe, TypeOK, faultVars
<1> QED
  BY <1>2, <1>3, <1>4, <1>5 DEF TypeOK, Subscribe, modeVars, pollVars

LEMMA HeadHolds ==
    ASSUME TypeOK, inbox # <<>>
    PROVE  /\ Len(inbox) \in Nat \ {0}
           /\ Head(inbox) = inbox[1]
           /\ inbox[1][1] \in Channels /\ inbox[1][2] \in Messages
           /\ inbox[1] = <<inbox[1][1], inbox[1][2]>>
           /\ Tail(inbox) \in Seq(Channels \X Messages)
           /\ Len(Tail(inbox)) = Len(inbox) - 1
           /\ \A i \in 1 .. Len(Tail(inbox)) :
                 i + 1 \in 1 .. Len(inbox) /\ Tail(inbox)[i] = inbox[i + 1]
<1>1. inbox \in Seq(Channels \X Messages)
  BY DEF TypeOK
<1>2. Len(inbox) \in Nat \ {0}
  BY <1>1, EmptySeq
<1>3. inbox[1] \in Channels \X Messages
  BY <1>1, <1>2, ElementOfSeq
<1>4. Head(inbox) = inbox[1]
  BY <1>1
<1> QED
  BY <1>1, <1>2, <1>3, <1>4, HeadTailProperties

LEMMA ListenTypes == ASSUME TypeOK, Listen PROVE TypeOK'
<1>1. inbox' \in Seq(Channels \X Messages)
  BY HeadHolds DEF Listen
<1>2. heard' \in [Agents -> [Channels -> [Messages -> Nat]]]
  <2>1. /\ Head(inbox)[1] \in Channels /\ Head(inbox)[2] \in Messages
    BY HeadHolds DEF Listen
  <2> QED
    BY <2>1, DispatchedCounts DEF Listen
<1> QED
  BY <1>1, <1>2
     DEF TypeOK, Listen, modeVars, callbackVars, pollVars, faultVars

LEMMA ListenerFailsTypes == ASSUME TypeOK, ListenerFails PROVE TypeOK'
<1>1. inbox' \in Seq(Channels \X Messages)
  BY EmptySeq DEF ListenerFails, TypeOK
<1>2. listeners' \in Nat
  <2>1. listeners \in Nat
    BY DEF TypeOK
  <2>2. listeners > 0 /\ listeners' = listeners - 1
    BY DEF ListenerFails
  <2> QED
    BY <2>1, <2>2
<1>3. faults' \in 0 .. MaxFaults
  BY FaultCounts DEF ListenerFails
<1> QED
  BY <1>1, <1>2, <1>3 DEF TypeOK, ListenerFails, modeVars, callbackVars, pollVars

LEMMA CloseTypes == ASSUME TypeOK, Close PROVE TypeOK'
<1>1. inbox' \in Seq(Channels \X Messages)
  BY DEF Close, TypeOK
<1>2. faults' \in 0 .. MaxFaults
  BY FaultCounts DEF Close
<1> QED
  BY <1>1, <1>2 DEF TypeOK, Close, modeVars, callbackVars, pollVars

LEMMA RPopTypes ==
    ASSUME TypeOK, NEW a \in Agents, NEW c \in Reads(a), RPop(a, c) PROVE TypeOK'
<1>1. c \in Channels
  BY Numbers
<1>2. list' \in [Channels -> Seq(Messages)]
  BY <1>1, PoppedCount DEF RPop, TypeOK
<1>3. polled' \in [Agents -> [Channels -> Seq(Messages)]]
  <2>1. polled[a][c] \in Seq(Messages) /\ SubSeq(list[c], 1, Popped(c)) \in Seq(Messages)
    BY <1>1, PoppedCount DEF TypeOK
  <2>2. polled[a][c] \o SubSeq(list[c], 1, Popped(c)) \in Seq(Messages)
    BY <2>1, ConcatProperties
  <2>3. \/ polled' = polled
        \/ polled' = [polled EXCEPT ![a][c] = @ \o SubSeq(list[c], 1, Popped(c))]
    BY DEF RPop
  <2>4. polled \in [Agents -> [Channels -> Seq(Messages)]]
    BY DEF TypeOK
  <2>5. polled[a] \in [Channels -> Seq(Messages)]
    BY <2>4
  <2>6. [polled[a] EXCEPT ![c] = @ \o SubSeq(list[c], 1, Popped(c))] \in [Channels -> Seq(Messages)]
    BY <1>1, <2>2, <2>5
  <2>7. CASE polled' = polled
    BY <2>4, <2>7
  <2>8. CASE polled' = [polled EXCEPT ![a] =
                            [polled[a] EXCEPT ![c] = @ \o SubSeq(list[c], 1, Popped(c))]]
    BY <2>4, <2>6, <2>8
  <2> QED
    BY <2>3, <2>7, <2>8
<1>4. poller' \in [Agents -> Agents \union {"idle"}]
  <2>1. poller \in [Agents -> Agents \union {"idle"}]
    BY DEF TypeOK
  <2>2. poller' = [poller EXCEPT ![a] = a] \/ poller' = [poller EXCEPT ![a] = "idle"]
    BY DEF RPop
  <2> QED
    BY <2>1, <2>2
<1>5. faults' \in 0 .. MaxFaults
  BY FaultCounts DEF RPop, TypeOK
<1> QED
  BY <1>2, <1>3, <1>4, <1>5
     DEF TypeOK, RPop, modeVars, pubsubVars, callbackVars

LEMMA ListExpiresTypes ==
    ASSUME TypeOK, NEW c \in Channels, ListExpires(c) PROVE TypeOK'
<1>1. list' \in [Channels -> Seq(Messages)]
  BY DEF ListExpires, TypeOK
<1>2. faults' \in 0 .. MaxFaults
  BY FaultCounts DEF ListExpires
<1> QED
  BY <1>1, <1>2
     DEF TypeOK, ListExpires, modeVars, pubsubVars, callbackVars, pollVars

LEMMA NextTypes == ASSUME TypeOK, BusyInv, [Next]_vars PROVE TypeOK'
<1>1. ASSUME NEW p \in Publishers, NEW c \in Channels, NEW more \in BOOLEAN,
             Publish(p, c, more)
      PROVE  TypeOK'
  BY <1>1, PublishTypes
<1>2. ASSUME NEW p \in Publishers, LPush(p) \/ RedisPublish(p) \/ FallbackPublish(p)
      PROVE  TypeOK'
  BY <1>2, LPushTypes, RedisPublishTypes, FallbackPublishTypes
<1>3. ASSUME NEW a \in Agents, NEW c \in Reads(a), Subscribe(a, c) \/ RPop(a, c)
      PROVE  TypeOK'
  BY <1>3, SubscribeTypes, RPopTypes
<1>4. ASSUME NEW c \in Channels, ListExpires(c) PROVE TypeOK'
  BY <1>4, ListExpiresTypes
<1>5. CASE Connect \/ Listen \/ ListenerFails \/ Close \/ UNCHANGED vars
  BY <1>5, ConnectTypes, ListenTypes, ListenerFailsTypes, CloseTypes, SameTypes
<1> QED
  BY <1>1, <1>2, <1>3, <1>4, <1>5 DEF Next

-----------------------------------------------------------------------------
(* Every action keeps the rest of the invariant                              *)

Rest == BusyInv /\ CallbackInv /\ InboxInv /\ HeardInv

LEMMA SameKeeps ==
    ASSUME Inv, UNCHANGED <<publisher, published, sent, inbox, heard, fellBack, callbacks>>
    PROVE  Rest'
BY DEF Inv, Rest, BusyInv, CallbackInv, InboxInv, HeardInv, RedisDeliversOnce

LEMMA LossKeeps ==
    ASSUME Inv, inbox' = <<>>,
           UNCHANGED <<publisher, published, sent, heard, fellBack, callbacks>>
    PROVE  Rest'
<1>1. Len(inbox') = 0
  BY EmptySeq
<1>2. BusyInv' /\ CallbackInv'
  BY DEF Inv, BusyInv, CallbackInv
<1>3. InboxInv' /\ HeardInv'
  BY <1>1 DEF Inv, InboxInv, HeardInv, RedisDeliversOnce
<1> QED
  BY <1>2, <1>3 DEF Rest

\* A publisher at work goes on, its message perhaps sent on its channel.
LEMMA BusyGoesOn ==
    ASSUME TypeOK, BusyInv, NEW p \in Publishers, NEW c \in Channels, NEW m \in Messages,
           publisher[p].pc # "idle", publisher[p].msg = m,
           \A q \in Publishers \ {p} : publisher'[q] = publisher[q],
           published' = published,
           sent'[c] \subseteq sent[c] \union {m},
           sent[c] \subseteq sent'[c],
           \A d \in Channels \ {c} : sent'[d] = sent[d],
           LET w == publisher'[p]
           IN  w.pc # "idle" =>
                  /\ w.msg = m
                  /\ w.more => w.channel # broadcast /\ m \notin sent'[broadcast]
                  /\ w.pc = "lpush" => m \notin sent'[w.channel]
                  /\ w.pc = "publish" => m \in sent'[w.channel]
    PROVE  BusyInv'
<1>1. m \in 1 .. published
  BY DEF BusyInv
<1>2. ASSUME NEW q \in Publishers, q # p, publisher[q].pc # "idle"
      PROVE  /\ publisher[q].msg # m /\ publisher[q].channel \in Channels
             /\ \A d \in Channels : publisher[q].msg \in sent'[d] <=> publisher[q].msg \in sent[d]
  <2>1. publisher[q].msg # m
    BY <1>2 DEF BusyInv
  <2>2. publisher[q].channel \in Channels
    BY DEF TypeOK, PublisherModel
  <2>3. \A d \in Channels : publisher[q].msg \in sent'[d] <=> publisher[q].msg \in sent[d]
    BY <2>1
  <2> QED
    BY <2>1, <2>2, <2>3
<1>3. ASSUME NEW q \in Publishers, publisher'[q].pc # "idle"
      PROVE  LET w == publisher'[q]
             IN  /\ w.msg \in 1 .. published
                 /\ w.more => w.channel # broadcast /\ w.msg \notin sent'[broadcast]
                 /\ w.pc = "lpush" => w.msg \notin sent'[w.channel]
                 /\ w.pc = "publish" => w.msg \in sent'[w.channel]
  <2>1. CASE q = p
    BY <1>1, <1>3, <2>1
  <2>2. CASE q # p
    <3>1. publisher'[q] = publisher[q]
      BY <2>2
    <3> QED
      BY <1>2, <1>3, <2>2, <3>1, Numbers DEF BusyInv
  <2> QED
    BY <2>1, <2>2
<1>4. ASSUME NEW q \in Publishers, NEW t \in Publishers, q # t, publisher'[q].pc # "idle",
             publisher'[t].pc # "idle"
      PROVE  publisher'[q].msg # publisher'[t].msg
  BY <1>2, <1>4 DEF BusyInv
<1>5. \A d \in Channels : sent'[d] \subseteq 1 .. published
  BY <1>1 DEF BusyInv
<1> QED
  BY <1>3, <1>4, <1>5 DEF BusyInv

\* What the connection holds is a message of a channel.
LEMMA InboxHolds ==
    ASSUME TypeOK, NEW i \in 1 .. Len(inbox)
    PROVE  /\ inbox[i][1] \in Channels /\ inbox[i][2] \in Messages
           /\ inbox[i] = <<inbox[i][1], inbox[i][2]>>
<1>1. inbox[i] \in Channels \X Messages
  BY ElementOfSeq DEF TypeOK
<1> QED
  BY <1>1

LEMMA PublishKeeps ==
    ASSUME Inv, NEW p \in Publishers, NEW c \in Channels, NEW more \in BOOLEAN,
           Publish(p, c, more)
    PROVE  Rest'
<1> DEFINE m == published + 1
<1>1. /\ published' = m /\ published \in Nat /\ m \in 1 .. published'
      /\ \A d \in Channels : m \notin sent[d]
  BY DEF Publish, Inv, TypeOK, BusyInv
<1>2. /\ UNCHANGED <<sent, inbox, heard, fellBack, callbacks>>
      /\ more => c # broadcast
      /\ publisher' = [publisher EXCEPT ![p] = Publishing(published', c, more)]
  BY DEF Publish, pubsubVars, callbackVars
<1>3. /\ publisher'[p].msg = m /\ publisher'[p].channel = c /\ publisher'[p].more = more
      /\ publisher'[p].pc \in {"lpush", "fallback"}
      /\ \A q \in Publishers \ {p} : publisher'[q] = publisher[q]
  BY <1>1, <1>2 DEF Publishing, Inv, TypeOK
<1>4. BusyInv'
  <2>1. ASSUME NEW q \in Publishers, publisher'[q].pc # "idle"
        PROVE  LET w == publisher'[q]
               IN  /\ w.msg \in 1 .. published'
                   /\ w.more => w.channel # broadcast /\ w.msg \notin sent'[broadcast]
                   /\ w.pc = "lpush" => w.msg \notin sent'[w.channel]
                   /\ w.pc = "publish" => w.msg \in sent'[w.channel]
    <3>1. CASE q = p
      BY <1>1, <1>2, <1>3, <3>1, Numbers
    <3>2. CASE q # p
      BY <1>1, <1>2, <1>3, <2>1, <3>2 DEF Inv, BusyInv
    <3> QED
      BY <3>1, <3>2
  <2>2. ASSUME NEW q \in Publishers, NEW t \in Publishers, q # t,
               publisher'[q].pc # "idle", publisher'[t].pc # "idle"
        PROVE  publisher'[q].msg # publisher'[t].msg
    <3>1. \A u \in Publishers \ {p} : publisher[u].pc # "idle" => publisher[u].msg # m
      BY <1>1 DEF Inv, BusyInv
    <3> QED
      BY <1>3, <2>2, <3>1 DEF Inv, BusyInv
  <2>3. \A d \in Channels : sent'[d] \subseteq 1 .. published'
    BY <1>1, <1>2 DEF Inv, BusyInv
  <2> QED
    BY <2>1, <2>2, <2>3 DEF BusyInv
<1>5. \A q \in Publishers : publisher'[q].pc = "publish" => publisher'[q] = publisher[q]
  BY <1>3
<1>6. CallbackInv' /\ InboxInv' /\ HeardInv'
  BY <1>2, <1>5 DEF Inv, CallbackInv, InboxInv, HeardInv, RedisDeliversOnce
<1> QED
  BY <1>4, <1>6 DEF Rest

LEMMA LPushKeeps ==
    ASSUME Inv, NEW p \in Publishers, LPush(p) PROVE Rest'
<1> DEFINE c == publisher[p].channel
           m == publisher[p].msg
<1>1. c \in Channels /\ m \in Messages /\ m \notin sent[c]
  BY BusyHolds DEF LPush, Inv, BusyInv
<1>2. /\ sent'[c] = sent[c] \union {m}
      /\ \A d \in Channels \ {c} : sent'[d] = sent[d]
  BY <1>1, SendsOne DEF LPush, Inv
<1>3. /\ publisher'[p].pc \in {"publish", "fallback"}
      /\ publisher'[p].msg = m /\ publisher'[p].channel = c
      /\ publisher'[p].more = publisher[p].more
      /\ \A q \in Publishers \ {p} : publisher'[q] = publisher[q]
  BY GotoMoves DEF LPush, Inv
<1>4. UNCHANGED <<published, inbox, heard, fellBack, callbacks>>
  BY DEF LPush, pubsubVars, callbackVars
<1>5. BusyInv'
  <2>1. publisher[p].pc = "lpush" /\ publisher[p].pc # "idle"
    BY DEF LPush
  <2>2. publisher[p].more => c # broadcast /\ m \notin sent'[broadcast]
    BY <1>2, <2>1, Numbers DEF Inv, BusyInv
  <2> QED
    BY <1>1, <1>2, <1>3, <1>4, <2>1, <2>2, BusyGoesOn DEF Inv
<1>6. \A d \in Channels : sent[d] \subseteq sent'[d]
  BY <1>2
<1>7. \A i \in 1 .. Len(inbox) : inbox[i] # <<c, m>>
  BY <1>1, InboxHolds DEF Inv, InboxInv
<1>8. \A a \in Agents : heard[a][c][m] = 0
  <2>1. ASSUME NEW a \in Agents PROVE heard[a][c][m] \in Nat
    BY <1>1 DEF Inv, TypeOK
  <2>2. ASSUME NEW a \in Agents PROVE ~(heard[a][c][m] > 0)
    BY <1>1 DEF Inv, HeardInv
  <2>3. \A x \in Nat : ~(x > 0) => x = 0
    OBVIOUS
  <2> QED
    BY <2>1, <2>2, <2>3
<1>9. InboxInv'
  BY <1>3, <1>4, <1>6, <1>7, InboxHolds DEF Inv, InboxInv
<1>10. HeardInv'
  BY <1>3, <1>4, <1>6, <1>8 DEF Inv, HeardInv, RedisDeliversOnce
<1> QED
  BY <1>4, <1>5, <1>9, <1>10 DEF Inv, CallbackInv, Rest

LEMMA RedisPublishKeeps ==
    ASSUME Inv, NEW p \in Publishers, RedisPublish(p) PROVE Rest'
<1> DEFINE c == publisher[p].channel
           m == publisher[p].msg
<1>1. c \in Channels /\ m \in Messages /\ m \in sent[c]
  BY BusyHolds DEF RedisPublish, Inv, BusyInv
<1>2. UNCHANGED <<published, sent, heard, fellBack, callbacks>>
  BY DEF RedisPublish, callbackVars
<1>3. /\ publisher'[p].pc # "publish"
      /\ publisher'[p].pc # "idle" =>
            /\ publisher'[p].msg = m
            /\ publisher'[p].more => publisher[p].more /\ publisher'[p].channel = c
            /\ publisher'[p].pc = "lpush" => publisher[p].more /\ publisher'[p].channel = broadcast
      /\ \A q \in Publishers \ {p} : publisher'[q] = publisher[q]
  <2>1. CASE Goto(p, "fallback")
    BY <2>1, GotoMoves DEF Inv
  <2>2. CASE Returns(p)
    BY <2>2, ReturnsMoves DEF Inv
  <2> QED
    BY <2>1, <2>2 DEF RedisPublish
<1>4. BusyInv'
  <2>1. publisher[p].pc # "idle"
    BY DEF RedisPublish
  <2>2. publisher[p].more => c # broadcast /\ m \notin sent'[broadcast]
    BY <1>2, <2>1, Numbers DEF Inv, BusyInv
  <2> QED
    BY <1>1, <1>2, <1>3, <2>1, <2>2, BusyGoesOn DEF Inv
<1>5. /\ \A i \in 1 .. Len(inbox) : inbox[i] # <<c, m>>
      /\ \A a \in Agents : heard[a][c][m] = 0
  BY DEF Inv, InboxInv, HeardInv, RedisPublish
<1>6. \A q \in Publishers : publisher'[q].pc = "publish" =>
          publisher'[q] = publisher[q] /\ publisher[q].msg # m
  <2>1. publisher[p].pc # "idle"
    BY DEF RedisPublish
  <2> QED
    BY <1>3, <2>1 DEF Inv, BusyInv
<1>7. CASE inbox' = inbox
  BY <1>2, <1>4, <1>6, <1>7
     DEF Inv, Rest, CallbackInv, InboxInv, HeardInv, RedisDeliversOnce
<1>8. CASE inbox' = Append(inbox, <<c, m>>)
  <2>1. /\ Len(inbox) \in Nat /\ Len(inbox') = Len(inbox) + 1
        /\ \A i \in 1 .. Len(inbox) : inbox'[i] = inbox[i]
        /\ inbox'[Len(inbox) + 1] = <<c, m>>
    <3>1. inbox \in Seq(Channels \X Messages) /\ <<c, m>> \in Channels \X Messages
      BY <1>1 DEF Inv, TypeOK
    <3> QED
      BY <1>8, <3>1, AppendProperties, LenProperties
  <2>2. \A i \in 1 .. Len(inbox') : i \in 1 .. Len(inbox) \/ i = Len(inbox) + 1
    BY <2>1
  <2>3. \A i \in 1 .. Len(inbox') : inbox'[i][2] \in sent'[inbox'[i][1]]
    BY <1>1, <1>2, <2>1, <2>2 DEF Inv, InboxInv
  <2>4. \A i, j \in 1 .. Len(inbox') : i # j => inbox'[i] # inbox'[j]
    BY <1>5, <2>1, <2>2 DEF Inv, InboxInv
  <2>5. ASSUME NEW q \in Publishers, publisher'[q].pc = "publish",
               NEW i \in 1 .. Len(inbox')
        PROVE  inbox'[i] # <<publisher'[q].channel, publisher'[q].msg>>
    BY <1>6, <2>1, <2>2, <2>5 DEF Inv, InboxInv
  <2>6. ASSUME NEW i \in 1 .. Len(inbox'), inbox'[i] \notin fellBack', NEW a \in Agents
        PROVE  heard'[a][inbox'[i][1]][inbox'[i][2]] = 0
    BY <1>2, <1>5, <2>1, <2>2, <2>6 DEF Inv, HeardInv
  <2>7. HeardInv'
    BY <1>2, <1>6, <2>6 DEF Inv, HeardInv, RedisDeliversOnce
  <2> QED
    BY <1>2, <1>4, <2>3, <2>4, <2>5, <2>7 DEF Inv, Rest, CallbackInv, InboxInv
<1> QED
  BY <1>7, <1>8 DEF RedisPublish

LEMMA FallbackPublishKeeps ==
    ASSUME Inv, NEW p \in Publishers, FallbackPublish(p) PROVE Rest'
<1> DEFINE c == publisher[p].channel
           m == publisher[p].msg
<1>1. c \in Channels /\ m \in Messages /\ handlers[c] \in Nat
  BY BusyHolds DEF FallbackPublish, Inv, TypeOK
<1>2. /\ UNCHANGED <<published, inbox, callbacks>>
      /\ fellBack' = fellBack \union {<<c, m>>}
  BY DEF FallbackPublish, callbackVars, pubsubVars
<1>3. /\ publisher'[p].pc # "publish"
      /\ ~publisher'[p].more
      /\ publisher'[p].pc # "idle" =>
            /\ publisher'[p].msg = m
            /\ publisher[p].more /\ publisher'[p].channel = broadcast
      /\ \A q \in Publishers \ {p} : publisher'[q] = publisher[q]
  BY ReturnsMoves DEF Inv, FallbackPublish
<1>4. /\ sent'[c] = sent[c] \union {m}
      /\ \A d \in Channels \ {c} : sent'[d] = sent[d]
  BY <1>1, SendsOne DEF FallbackPublish, Inv
<1>5. BusyInv'
  <2>1. publisher[p].pc # "idle"
    BY DEF FallbackPublish
  <2>2. publisher[p].more => c # broadcast /\ m \notin sent'[broadcast]
    BY <1>4, <2>1, Numbers DEF Inv, BusyInv
  <2> QED
    BY <1>1, <1>2, <1>3, <1>4, <2>1, <2>2, BusyGoesOn DEF Inv
<1>6. \A q \in Publishers : publisher'[q].pc = "publish" =>
          /\ publisher'[q] = publisher[q] /\ publisher[q].msg # m
          /\ publisher[q].channel \in Channels /\ publisher[q].msg \in Messages
  <2>1. publisher[p].pc # "idle"
    BY DEF FallbackPublish
  <2> QED
    BY <1>3, <2>1, BusyHolds DEF Inv, BusyInv
<1>7. \A a \in Agents, d \in Channels, k \in Messages :
          ~(d = c /\ k = m) => heard'[a][d][k] = heard[a][d][k]
  BY <1>1, DispatchedCounts DEF FallbackPublish, Inv
<1>8. \A d \in Channels : sent[d] \subseteq sent'[d]
  BY <1>4
<1>9. InboxInv'
  BY <1>2, <1>6, <1>8, InboxHolds DEF Inv, InboxInv
<1>10. HeardInv'
  <2>1. ASSUME NEW a \in Agents, NEW d \in Channels, NEW k \in Messages, heard'[a][d][k] > 0
        PROVE  k \in sent'[d]
    <3>1. CASE d = c /\ k = m
      BY <1>4, <3>1
    <3>2. CASE ~(d = c /\ k = m)
      BY <1>7, <1>8, <2>1, <3>2 DEF Inv, HeardInv
    <3> QED
      BY <3>1, <3>2
  <2>2. ASSUME NEW q \in Publishers, publisher'[q].pc = "publish", NEW a \in Agents
        PROVE  heard'[a][publisher'[q].channel][publisher'[q].msg] = 0
    BY <1>6, <1>7, <2>2 DEF Inv, HeardInv
  <2>3. ASSUME NEW i \in 1 .. Len(inbox), inbox[i] \notin fellBack', NEW a \in Agents
        PROVE  heard'[a][inbox[i][1]][inbox[i][2]] = 0
    <3>1. /\ inbox[i][1] \in Channels /\ inbox[i][2] \in Messages
          /\ inbox[i] = <<inbox[i][1], inbox[i][2]>>
      BY InboxHolds DEF Inv
    <3>2. inbox[i] # <<c, m>> /\ inbox[i] \notin fellBack
      BY <1>2, <2>3
    <3>3. heard[a][inbox[i][1]][inbox[i][2]] = 0
      BY <3>2 DEF Inv, HeardInv
    <3> QED
      BY <1>7, <3>1, <3>2, <3>3
  <2>4. RedisDeliversOnce'
    BY <1>2, <1>7 DEF Inv, HeardInv, RedisDeliversOnce
  <2> QED
    BY <1>2, <2>1, <2>2, <2>3, <2>4 DEF HeardInv
<1> QED
  BY <1>2, <1>5, <1>9, <1>10 DEF Inv, CallbackInv, Rest

LEMMA SubscribeKeeps ==
    ASSUME Inv, NEW a \in Agents, NEW c \in Reads(a), Subscribe(a, c) PROVE Rest'
<1>1. UNCHANGED <<publisher, published, sent, inbox, heard, fellBack>>
  BY DEF Subscribe, PubSubSubscribed
<1>2. CallbackInv'
  <2>1. callbacks' = [callbacks EXCEPT ![c] = @ \union {a}] /\ c \in Channels
    BY Numbers DEF Subscribe
  <2> QED
    BY <2>1 DEF Inv, TypeOK, CallbackInv
<1> QED
  BY <1>1, <1>2 DEF Inv, Rest, BusyInv, InboxInv, HeardInv, RedisDeliversOnce

LEMMA ListenKeeps == ASSUME Inv, Listen PROVE Rest'
<1> DEFINE c == inbox[1][1]
           m == inbox[1][2]
           n == Len(inbox) - 1
<1>1. /\ c \in Channels /\ m \in Messages /\ inbox[1] = <<c, m>> /\ 1 \in 1 .. Len(inbox)
      /\ Len(inbox') = n
      /\ \A i \in 1 .. n : i + 1 \in 1 .. Len(inbox) /\ i + 1 # 1 /\ inbox'[i] = inbox[i + 1]
  BY HeadHolds DEF Inv, Listen
<1>2. UNCHANGED <<publisher, published, sent, fellBack, callbacks>>
  BY DEF Listen, callbackVars
<1>3. \A a \in Agents, d \in Channels, k \in Messages :
          /\ heard[a][d][k] \in Nat
          /\ ~(d = c /\ k = m) => heard'[a][d][k] = heard[a][d][k]
          /\ heard'[a][d][k] \in {heard[a][d][k], heard[a][d][k] + 1}
  <2>1. Dispatched(c, m, 1)
    BY HeadHolds DEF Inv, Listen
  <2>2. \A a \in Agents, d \in Channels, k \in Messages : heard[a][d][k] \in Nat
    BY DEF Inv, TypeOK
  <2> QED
    BY <1>1, <2>1, <2>2, DispatchedCounts DEF Inv
<1>4. BusyInv' /\ CallbackInv'
  BY <1>2 DEF Inv, BusyInv, CallbackInv
<1>5. InboxInv'
  <2>1. \A i \in 1 .. n : inbox'[i][2] \in sent'[inbox'[i][1]]
    BY <1>1, <1>2 DEF Inv, InboxInv
  <2>2. \A i, j \in 1 .. n : i # j => inbox'[i] # inbox'[j]
    <3>1. \A i, j \in 1 .. n : i # j => i + 1 # j + 1
      OBVIOUS
    <3> QED
      BY <1>1, <3>1 DEF Inv, InboxInv
  <2>3. \A q \in Publishers : publisher'[q].pc = "publish" =>
            \A i \in 1 .. n : inbox'[i] # <<publisher'[q].channel, publisher'[q].msg>>
    BY <1>1, <1>2 DEF Inv, InboxInv
  <2> QED
    BY <1>1, <2>1, <2>2, <2>3 DEF InboxInv
<1>6. HeardInv'
  <2>1. ASSUME NEW a \in Agents, NEW d \in Channels, NEW k \in Messages, heard'[a][d][k] > 0
        PROVE  k \in sent'[d]
    <3>1. CASE d = c /\ k = m
      BY <1>1, <1>2, <3>1 DEF Inv, InboxInv
    <3>2. CASE ~(d = c /\ k = m)
      BY <1>2, <1>3, <2>1, <3>2 DEF Inv, HeardInv
    <3> QED
      BY <3>1, <3>2
  <2>2. ASSUME NEW q \in Publishers, publisher'[q].pc = "publish", NEW a \in Agents
        PROVE  heard'[a][publisher'[q].channel][publisher'[q].msg] = 0
    <3>1. /\ publisher[q].pc = "publish" /\ publisher[q].pc # "idle"
          /\ publisher'[q] = publisher[q]
      BY <1>2, <2>2
    <3>2. publisher[q].channel \in Channels /\ publisher[q].msg \in Messages
      BY <3>1, BusyHolds DEF Inv
    <3>3. <<c, m>> # <<publisher[q].channel, publisher[q].msg>>
      BY <1>1, <3>1 DEF Inv, InboxInv
    <3> QED
      BY <1>3, <3>1, <3>2, <3>3 DEF Inv, HeardInv
  <2>3. ASSUME NEW i \in 1 .. n, inbox'[i] \notin fellBack', NEW a \in Agents
        PROVE  heard'[a][inbox'[i][1]][inbox'[i][2]] = 0
    <3>1. inbox[i + 1] # <<c, m>>
      BY <1>1 DEF Inv, InboxInv
    <3>2. /\ inbox[i + 1][1] \in Channels /\ inbox[i + 1][2] \in Messages
          /\ inbox[i + 1] = <<inbox[i + 1][1], inbox[i + 1][2]>>
      BY <1>1, InboxHolds DEF Inv
    <3>3. heard[a][inbox[i + 1][1]][inbox[i + 1][2]] = 0
      BY <1>1, <1>2, <2>3 DEF Inv, HeardInv
    <3> QED
      BY <1>1, <1>3, <3>1, <3>2, <3>3
  <2>4. RedisDeliversOnce'
    <3>1. ASSUME NEW d \in Channels, NEW k \in Messages, <<d, k>> \notin fellBack,
                 NEW a \in Agents
          PROVE  heard'[a][d][k] <= 1
      <4>1. CASE d = c /\ k = m
        <5>1. heard[a][d][k] = 0
          BY <1>1, <3>1, <4>1 DEF Inv, HeardInv
        <5> QED
          BY <1>3, <5>1
      <4>2. CASE ~(d = c /\ k = m)
        BY <1>3, <3>1, <4>2 DEF Inv, HeardInv, RedisDeliversOnce
      <4> QED
        BY <4>1, <4>2
    <3> QED
      BY <1>2, <3>1 DEF RedisDeliversOnce
  <2> QED
    BY <1>1, <2>1, <2>2, <2>3, <2>4 DEF HeardInv
<1> QED
  BY <1>4, <1>5, <1>6 DEF Rest

LEMMA NextKeeps == ASSUME Inv, [Next]_vars PROVE Inv'
<1> SUFFICES Rest'
  BY NextTypes DEF Inv, Rest
<1>1. ASSUME NEW p \in Publishers, NEW c \in Channels, NEW more \in BOOLEAN,
             Publish(p, c, more)
      PROVE  Rest'
  BY <1>1, PublishKeeps
<1>2. ASSUME NEW p \in Publishers, LPush(p) \/ RedisPublish(p) \/ FallbackPublish(p)
      PROVE  Rest'
  BY <1>2, LPushKeeps, RedisPublishKeeps, FallbackPublishKeeps
<1>3. ASSUME NEW a \in Agents, NEW c \in Reads(a), Subscribe(a, c) PROVE Rest'
  BY <1>3, SubscribeKeeps
<1>4. ASSUME NEW a \in Agents, NEW c \in Reads(a), RPop(a, c) PROVE Rest'
  BY <1>4, SameKeeps DEF RPop, pubsubVars, callbackVars
<1>5. ASSUME NEW c \in Channels, ListExpires(c) PROVE Rest'
  BY <1>5, SameKeeps DEF ListExpires, pubsubVars, callbackVars
<1>6. CASE Connect \/ UNCHANGED vars
  BY <1>6, SameKeeps DEF Connect, vars, pubsubVars, callbackVars
<1>7. CASE Listen
  BY <1>7, ListenKeeps
<1>8. CASE ListenerFails \/ Close
  BY <1>8, SameKeeps, LossKeeps DEF ListenerFails, Close, callbackVars
<1> QED
  BY <1>1, <1>2, <1>3, <1>4, <1>5, <1>6, <1>7, <1>8 DEF Next

LEMMA InvHolds == Spec => []Inv
BY InitHolds, NextKeeps, PTL DEF Spec

-----------------------------------------------------------------------------
(* The bus implements Mailboxes                                              *)

\* Only while there is no Redis does a publication take the fallback with a message that
\* was not sent on its channel.
OfflineInv ==
    \A p \in Publishers :
        publisher[p].pc = "fallback" /\ publisher[p].msg \notin sent[publisher[p].channel]
            => ~redis_available

LEMMA ReturnsOffline ==
    ASSUME TypeOK, NEW p \in Publishers, Returns(p), publisher'[p].pc = "fallback"
    PROVE  ~redis_available
<1>1. CASE publisher[p].more
  <2>1. publisher'[p] = Publishing(publisher[p].msg, broadcast, FALSE)
    BY <1>1 DEF Returns, TypeOK
  <2> QED
    BY <2>1 DEF Publishing
<1>2. CASE ~publisher[p].more
  BY <1>2 DEF Returns, TypeOK, Idle
<1> QED
  BY <1>1, <1>2

LEMMA NextOffline == ASSUME Inv, OfflineInv, [Next]_vars PROVE OfflineInv'
<1>1. ASSUME NEW p \in Publishers, NEW c \in Channels, NEW more \in BOOLEAN,
             Publish(p, c, more)
      PROVE  OfflineInv'
  <2>1. /\ sent' = sent /\ redis_available' = redis_available
        /\ publisher'[p] = Publishing(published', c, more)
        /\ \A q \in Publishers \ {p} : publisher'[q] = publisher[q]
    BY <1>1 DEF Publish, modeVars, Inv, TypeOK
  <2>2. publisher'[p].pc = "fallback" => ~redis_available
    BY <2>1 DEF Publishing
  <2> QED
    BY <2>1, <2>2 DEF OfflineInv
<1>2. ASSUME NEW p \in Publishers, LPush(p) \/ RedisPublish(p) \/ FallbackPublish(p)
      PROVE  OfflineInv'
  <2> DEFINE c == publisher[p].channel
             m == publisher[p].msg
  <2>1. c \in Channels /\ m \in Messages
    BY <1>2, BusyHolds DEF LPush, RedisPublish, FallbackPublish, Inv
  <2>2. redis_available' = redis_available
    BY <1>2 DEF LPush, RedisPublish, FallbackPublish, modeVars
  <2>3. \A d \in Channels : sent[d] \subseteq sent'[d]
    BY <1>2, <2>1, SendsOne DEF LPush, RedisPublish, FallbackPublish, Inv
  <2>4. \A q \in Publishers \ {p} : publisher'[q] = publisher[q]
    BY <1>2, GotoMoves, ReturnsMoves DEF LPush, RedisPublish, FallbackPublish, Inv
  <2>5. publisher'[p].pc = "fallback" =>
            ~redis_available \/ publisher'[p].msg \in sent'[publisher'[p].channel]
    <3>1. CASE Goto(p, "fallback")
      <4>1. publisher'[p].msg = m /\ publisher'[p].channel = c
        BY <3>1, GotoMoves DEF Inv
      <4>2. CASE LPush(p)
        BY <2>1, <4>1, <4>2, SendsOne DEF LPush, Inv
      <4>3. CASE RedisPublish(p)
        BY <2>1, <2>3, <4>1, <4>3 DEF RedisPublish, Inv, BusyInv
      <4>4. CASE FallbackPublish(p)
        BY <4>4, ReturnsOffline DEF FallbackPublish, Inv
      <4> QED
        BY <1>2, <4>2, <4>3, <4>4
    <3>2. CASE Returns(p)
      BY <3>2, ReturnsOffline DEF Inv
    <3>3. CASE Goto(p, "publish")
      BY <3>3, GotoMoves DEF Inv
    <3> QED
      BY <1>2, <3>1, <3>2, <3>3 DEF LPush, RedisPublish, FallbackPublish
  <2>6. ASSUME NEW q \in Publishers, q # p PROVE publisher[q].channel \in Channels
    BY DEF Inv, TypeOK, PublisherModel
  <2> QED
    BY <2>2, <2>3, <2>4, <2>5, <2>6 DEF OfflineInv
<1>3. CASE Connect
  BY <1>3 DEF Connect, OfflineInv
<1>4. ASSUME NEW a \in Agents, NEW c \in Reads(a), Subscribe(a, c) \/ RPop(a, c)
      PROVE  OfflineInv'
  BY <1>4 DEF Subscribe, RPop, modeVars, OfflineInv
<1>5. ASSUME NEW c \in Channels, ListExpires(c) PROVE OfflineInv'
  BY <1>5 DEF ListExpires, modeVars, OfflineInv
<1>6. CASE Listen \/ ListenerFails \/ Close \/ UNCHANGED vars
  BY <1>6 DEF Listen, ListenerFails, Close, vars, modeVars, OfflineInv
<1> QED
  BY <1>1, <1>2, <1>3, <1>4, <1>5, <1>6 DEF Next

LEMMA OfflineHolds == Spec => []OfflineInv
<1>1. Init => OfflineInv
  BY DEF Init, OfflineInv, Idle
<1> QED
  BY <1>1, NextOffline, InvHolds, PTL DEF Spec

\* The mailboxes as the bus keeps them.
Boxes == [a \in Agents |-> list[a]]
Addressed == [a \in Agents |-> sent[a]]
Taken == [a \in Agents |-> polled[a][a]]
Ears == [a \in Agents |-> {m \in Messages : heard[a][a][m] > 0}]

LEMMA MailboxIs ==
    /\ Mailbox!Next <=>
          \/ Mailbox!Open \/ Mailbox!Fail
          \/ \E a \in Agents :
                \/ \E m \in Messages :
                      Mailbox!Send(a, m) \/ Mailbox!PassBy(a, m) \/ Mailbox!Hear(a, m)
                \/ \E n \in 1 .. Len(Boxes[a]) : Mailbox!Take(a, n) \/ Mailbox!Lose(a, n)
    /\ UNCHANGED Mailbox!vars <=>
          UNCHANGED <<redis_available, faults, Boxes, Addressed, Taken, Ears>>
BY DEF Mailbox!Next, Mailbox!vars, Boxes, Addressed, Taken, Ears

\* What is done to a channel is done to the mailbox of its agent, if it has one.
LEMMA OwnChannel ==
    ASSUME NEW c \in Channels
    PROVE  c \in Agents \/ \A a \in Agents : a # c
OBVIOUS

LEMMA BoxesChange ==
    ASSUME TypeOK, NEW c \in Channels, NEW s, list' = [list EXCEPT ![c] = s]
    PROVE  Boxes' = IF c \in Agents THEN [Boxes EXCEPT ![c] = s] ELSE Boxes
BY Numbers DEF TypeOK, Boxes

LEMMA AddressedChange ==
    ASSUME TypeOK, NEW c \in Channels, NEW m \in Messages, Sends(c, m)
    PROVE  Addressed' = IF c \in Agents THEN [Addressed EXCEPT ![c] = @ \union {m}]
                                        ELSE Addressed
BY Numbers DEF TypeOK, Sends, Addressed

\* A dispatch on the channel of an agent may reach its callback; one on the broadcast
\* channel is none of a mailbox.
LEMMA EarsChange ==
    ASSUME TypeOK, NEW c \in Channels, NEW m \in Messages, NEW times \in Nat,
           Dispatched(c, m, times)
    PROVE  \/ Ears' = Ears
           \/ c \in Agents /\ Ears' = [Ears EXCEPT ![c] = @ \union {m}]
<1>1. \A a \in Agents, k \in Messages :
          /\ heard[a][a][k] \in Nat
          /\ heard'[a][a][k] =
                 IF a \in callbacks[c] /\ a = c /\ k = m THEN heard[a][a][k] + times
                                                         ELSE heard[a][a][k]
  <2>1. \A a \in Agents, k \in Messages : heard[a][a][k] \in Nat
    BY Numbers DEF TypeOK
  <2> QED
    BY <2>1, Numbers, DispatchedCounts
<1>2. CASE c \in Agents /\ c \in callbacks[c] /\ times # 0
  <2>1. \A a \in Agents, k \in Messages :
            heard'[a][a][k] > 0 <=> heard[a][a][k] > 0 \/ (a = c /\ k = m)
    BY <1>1, <1>2
  <2>2. Ears' = [a \in Agents |-> IF a = c THEN Ears[c] \union {m} ELSE Ears[a]]
    BY <2>1 DEF Ears
  <2>3. Ears' = [Ears EXCEPT ![c] = @ \union {m}]
    BY <1>2, <2>2 DEF Ears
  <2> QED
    BY <1>2, <2>3
<1>3. CASE ~(c \in Agents /\ c \in callbacks[c] /\ times # 0)
  <2>1. \A a \in Agents, k \in Messages : heard'[a][a][k] = heard[a][a][k]
    BY <1>1, <1>3
  <2>2. Ears' = Ears
    BY <2>1 DEF Ears
  <2> QED
    BY <2>2
<1> QED
  BY <1>2, <1>3

\* Nothing happens to the mailboxes, but something may have failed.
LEMMA QuietMaps ==
    ASSUME UNCHANGED <<redis_available, Boxes, Addressed, Taken, Ears>>,
           Fault \/ UNCHANGED faults
    PROVE  Mailbox!Next \/ UNCHANGED Mailbox!vars
<1>1. CASE UNCHANGED faults
  BY <1>1, MailboxIs
<1>2. CASE Fault
  <2>1. Mailbox!Fail
    BY <1>2 DEF Fault, Mailbox!Fail, Mailbox!Fails, Boxes, Addressed, Taken, Ears
  <2> QED
    BY <2>1, MailboxIs
<1> QED
  BY <1>1, <1>2

LEMMA UntouchedMaps ==
    ASSUME UNCHANGED <<redis_available, list, sent, polled, heard>>,
           Fault \/ UNCHANGED faults
    PROVE  Mailbox!Next \/ UNCHANGED Mailbox!vars
<1>1. UNCHANGED <<redis_available, Boxes, Addressed, Taken, Ears>>
  BY DEF Boxes, Addressed, Taken, Ears
<1> QED
  BY <1>1, QuietMaps

LEMMA ConnectMaps == ASSUME Connect PROVE Mailbox!Next
<1>1. Mailbox!Open
  BY DEF Connect, faultVars, pollVars, Mailbox!Open
<1> QED
  BY <1>1, MailboxIs

LEMMA LPushMaps ==
    ASSUME Inv, NEW p \in Publishers, LPush(p)
    PROVE  Mailbox!Next \/ UNCHANGED Mailbox!vars
<1>1. PICK c \in Channels, m \in Messages :
          /\ c = publisher[p].channel /\ m = publisher[p].msg
          /\ m \notin sent[c]
  BY BusyHolds DEF LPush, Inv, BusyInv
<1>2. /\ Sends(c, m)
      /\ UNCHANGED <<redis_available, polled, heard>>
      /\ \/ list' = [list EXCEPT ![c] = Append(list[c], m)] /\ (Fault \/ UNCHANGED faults)
         \/ UNCHANGED list /\ Fault
  BY <1>1 DEF LPush, pollVars, modeVars
<1>3. UNCHANGED <<Taken, Ears>>
  BY <1>2 DEF Taken, Ears
<1>4. Fault => faults' = faults + 1
  BY DEF Fault
<1>5. CASE c \in Agents
  <2>1. /\ Addressed[c] = sent[c] /\ Boxes[c] = list[c]
        /\ Addressed' = [Addressed EXCEPT ![c] = @ \union {m}]
    BY <1>2, <1>5, AddressedChange DEF Inv, Addressed, Boxes
  <2>2. CASE list' = [list EXCEPT ![c] = Append(list[c], m)] /\ (Fault \/ UNCHANGED faults)
    <3>1. Boxes' = [Boxes EXCEPT ![c] = Append(@, m)]
      BY <1>5, <2>1, <2>2, BoxesChange DEF Inv
    <3>2. Mailbox!Send(c, m)
      BY <1>1, <1>2, <1>3, <1>4, <2>1, <2>2, <3>1
         DEF Mailbox!Send, Mailbox!Fails, Boxes, Addressed, Taken, Ears
    <3> QED
      BY <1>5, <3>2, MailboxIs
  <2>3. CASE UNCHANGED list /\ Fault
    <3>1. UNCHANGED Boxes
      BY <2>3 DEF Boxes
    <3>2. Mailbox!PassBy(c, m)
      BY <1>1, <1>2, <1>3, <1>4, <2>1, <2>3, <3>1
         DEF Mailbox!PassBy, Mailbox!Heard, Mailbox!Fails, Boxes, Addressed, Taken, Ears
    <3> QED
      BY <1>5, <3>2, MailboxIs
  <2> QED
    BY <1>2, <2>2, <2>3
<1>6. CASE c \notin Agents
  <2>1. UNCHANGED <<Boxes, Addressed>>
    BY <1>2, <1>6, BoxesChange, AddressedChange DEF Inv, Boxes
  <2> QED
    BY <1>2, <1>3, <2>1, QuietMaps
<1> QED
  BY <1>5, <1>6

\* A message that was pushed before the call failed is heard; without Redis it passes by.
LEMMA FallbackPublishMaps ==
    ASSUME Inv, OfflineInv, NEW p \in Publishers, FallbackPublish(p)
    PROVE  Mailbox!Next \/ UNCHANGED Mailbox!vars
<1>1. PICK c \in Channels, m \in Messages, times \in Nat :
          c = publisher[p].channel /\ m = publisher[p].msg /\ times = handlers[c]
  BY BusyHolds DEF FallbackPublish, Inv, TypeOK
<1>2. /\ Sends(c, m) /\ Dispatched(c, m, times)
      /\ UNCHANGED <<redis_available, faults, list, polled>>
  BY <1>1 DEF FallbackPublish, pollVars, modeVars, faultVars
<1>3. UNCHANGED <<Boxes, Taken>>
  BY <1>2 DEF Boxes, Taken
<1>4. m \notin sent[c] => ~redis_available
  BY <1>1 DEF OfflineInv, FallbackPublish
<1>5. CASE c \in Agents
  <2>1. /\ Addressed[c] = sent[c]
        /\ Addressed' = [Addressed EXCEPT ![c] = @ \union {m}]
    BY <1>2, <1>5, AddressedChange DEF Inv, Addressed
  <2>2. Ears' = Ears \/ Ears' = [Ears EXCEPT ![c] = @ \union {m}]
    BY <1>2, EarsChange DEF Inv
  <2>3. CASE m \in sent[c]
    <3>1. UNCHANGED Addressed
      BY <2>1, <2>3 DEF Addressed
    <3>2. Mailbox!Hear(c, m)
      BY <1>2, <1>3, <2>1, <2>2, <2>3, <3>1
         DEF Mailbox!Hear, Mailbox!Heard, Boxes, Addressed, Taken, Ears
    <3> QED
      BY <1>5, <3>2, MailboxIs
  <2>4. CASE m \notin sent[c]
    <3>1. Mailbox!PassBy(c, m)
      BY <1>2, <1>3, <1>4, <2>1, <2>2, <2>4
         DEF Mailbox!PassBy, Mailbox!Heard, Boxes, Addressed, Taken, Ears
    <3> QED
      BY <1>5, <3>1, MailboxIs
  <2> QED
    BY <2>3, <2>4
<1>6. CASE c \notin Agents
  <2>1. UNCHANGED <<Addressed, Ears>>
    BY <1>2, <1>6, AddressedChange, EarsChange DEF Inv
  <2> QED
    BY <1>2, <1>3, <2>1, QuietMaps
<1> QED
  BY <1>5, <1>6

LEMMA ListenMaps == ASSUME Inv, Listen PROVE Mailbox!Next \/ UNCHANGED Mailbox!vars
<1>1. PICK c \in Channels, m \in Messages :
          /\ c = inbox[1][1] /\ m = inbox[1][2]
          /\ Head(inbox) = inbox[1] /\ 1 \in 1 .. Len(inbox)
  BY HeadHolds DEF Inv, Listen
<1>2. m \in sent[c]
  BY <1>1 DEF Inv, InboxInv
<1>3. Ears' = Ears \/ (c \in Agents /\ Ears' = [Ears EXCEPT ![c] = @ \union {m}])
  <2>1. Dispatched(c, m, 1)
    BY <1>1 DEF Listen, Dispatched
  <2> QED
    BY <2>1, EarsChange DEF Inv
<1>4. UNCHANGED <<redis_available, faults, Boxes, Addressed, Taken>>
  BY DEF Listen, pollVars, modeVars, faultVars, Boxes, Addressed, Taken
<1>5. CASE Ears' = Ears
  BY <1>4, <1>5, QuietMaps
<1>6. CASE c \in Agents /\ Ears' = [Ears EXCEPT ![c] = @ \union {m}]
  <2>1. Addressed[c] = sent[c]
    BY <1>6 DEF Addressed
  <2>2. Mailbox!Hear(c, m)
    BY <1>2, <1>4, <1>6, <2>1
       DEF Mailbox!Hear, Mailbox!Heard, Boxes, Addressed, Taken, Ears
  <2> QED
    BY <1>6, <2>2, MailboxIs
<1> QED
  BY <1>3, <1>5, <1>6

\* The oldest n messages of a channel are gone and nobody has them.
LEMMA LossMaps ==
    ASSUME TypeOK, NEW c \in Channels, NEW n \in 0 .. Len(list[c]), Fault,
           list' = [list EXCEPT ![c] = SubSeq(list[c], n + 1, Len(list[c]))],
           UNCHANGED <<redis_available, sent, polled, heard>>
    PROVE  Mailbox!Next \/ UNCHANGED Mailbox!vars
<1>1. list[c] \in Seq(Messages) /\ Len(list[c]) \in Nat
  BY DEF TypeOK
<1>2. UNCHANGED <<Addressed, Taken, Ears>>
  BY DEF Addressed, Taken, Ears
<1>3. CASE n = 0
  <2>1. SubSeq(list[c], n + 1, Len(list[c])) = list[c]
    BY <1>1, <1>3, SubSeqFull
  <2>2. list' = list
    BY <2>1 DEF TypeOK
  <2> QED
    BY <2>2, UntouchedMaps
<1>4. CASE n # 0 /\ c \in Agents
  <2>1. n \in 1 .. Len(Boxes[c]) /\ Boxes[c] = list[c]
    BY <1>1, <1>4 DEF Boxes
  <2>2. Boxes' = [Boxes EXCEPT ![c] = SubSeq(@, n + 1, Len(@))]
    BY <1>4, <2>1, BoxesChange
  <2>3. Mailbox!Lose(c, n)
    BY <1>2, <2>2 DEF Fault, Mailbox!Lose, Mailbox!Fails, Boxes, Addressed, Taken, Ears
  <2> QED
    BY <1>4, <2>1, <2>3, MailboxIs
<1>5. CASE c \notin Agents
  <2>1. UNCHANGED Boxes
    BY <1>5, BoxesChange
  <2> QED
    BY <1>2, <2>1, QuietMaps
<1> QED
  BY <1>3, <1>4, <1>5

\* An agent takes what it pops from its own list; what it pops of a broadcast was not
\* addressed to it alone.
LEMMA RPopMaps ==
    ASSUME TypeOK, NEW a \in Agents, NEW c \in Reads(a), RPop(a, c)
    PROVE  Mailbox!Next \/ UNCHANGED Mailbox!vars
<1> DEFINE n == Popped(c)
           rest == SubSeq(list[c], n + 1, Len(list[c]))
           popped == SubSeq(list[c], 1, n)
<1>1. /\ c \in Channels /\ n \in 0 .. Len(list[c])
      /\ list[c] \in Seq(Messages) /\ Len(list[c]) \in Nat
      /\ polled[a] \in [Channels -> Seq(Messages)]
  <2>1. c \in Channels
    BY Numbers
  <2> QED
    BY <2>1, PoppedCount DEF TypeOK
<1>2. UNCHANGED <<redis_available, sent, heard>>
  BY DEF RPop, modeVars
<1>3. UNCHANGED <<Addressed, Ears>>
  BY <1>2 DEF Addressed, Ears
<1>4. CASE /\ list' = [list EXCEPT ![c] = rest]
           /\ polled' = [polled EXCEPT ![a][c] = @ \o popped]
           /\ UNCHANGED faults
  <2>1. polled' = [polled EXCEPT ![a] = [polled[a] EXCEPT ![c] = polled[a][c] \o popped]]
    BY <1>4
  <2>2. \A b \in Agents, d \in Channels :
            polled'[b][d] = IF b = a /\ d = c THEN polled[a][c] \o popped ELSE polled[b][d]
    BY <1>1, <2>1 DEF TypeOK
  <2>3. CASE c = a
    <3>1. Boxes[a] = list[a] /\ Taken[a] = polled[a][a]
      BY DEF Boxes, Taken
    <3>2. Boxes' = [Boxes EXCEPT ![a] = rest]
      BY <1>1, <1>4, <2>3, BoxesChange
    <3>3. Taken' = [Taken EXCEPT ![a] = polled[a][a] \o popped]
      BY <2>2, <2>3, Numbers DEF Taken
    <3>4. CASE n = 0
      <4>1. rest = list[a] /\ popped = <<>>
        BY <1>1, <2>3, <3>4, SubSeqFull, SubSeqEmpty
      <4>2. polled[a][a] \o popped = polled[a][a]
        BY <1>1, <2>3, <4>1, ConcatEmptySeq
      <4>3. UNCHANGED <<Boxes, Taken>>
        BY <3>1, <3>2, <3>3, <4>1, <4>2 DEF Boxes, Taken
      <4> QED
        BY <1>2, <1>3, <1>4, <4>3, QuietMaps
    <3>5. CASE n # 0
      <4>1. PICK k \in 1 .. Len(Boxes[a]) : k = n
        BY <1>1, <2>3, <3>1, <3>5
      <4>2. Mailbox!Take(a, k)
        BY <1>2, <1>3, <1>4, <2>3, <3>1, <3>2, <3>3, <4>1
           DEF Mailbox!Take, Boxes, Addressed, Taken, Ears
      <4> QED
        BY <4>1, <4>2, MailboxIs
    <3> QED
      BY <3>4, <3>5
  <2>4. CASE c = broadcast
    <3>1. c \notin Agents
      BY <2>4, BusAssumption DEF broadcast
    <3>2. UNCHANGED Boxes
      BY <1>1, <1>4, <3>1, BoxesChange
    <3>3. UNCHANGED Taken
      BY <2>2, <3>1, Numbers DEF Taken
    <3> QED
      BY <1>2, <1>3, <1>4, <3>2, <3>3, QuietMaps
  <2> QED
    BY <2>3, <2>4 DEF Reads
<1>5. CASE Fault /\ list' \in {list, [list EXCEPT ![c] = rest]} /\ UNCHANGED polled
  <2>1. CASE list' = list
    BY <1>2, <1>5, <2>1, UntouchedMaps
  <2>2. CASE list' = [list EXCEPT ![c] = rest]
    BY <1>1, <1>2, <1>5, <2>2, LossMaps
  <2> QED
    BY <1>5, <2>1, <2>2
<1> QED
  BY <1>4, <1>5 DEF RPop

LEMMA ListExpiresMaps ==
    ASSUME TypeOK, NEW c \in Channels, ListExpires(c)
    PROVE  Mailbox!Next \/ UNCHANGED Mailbox!vars
<1>1. Len(list[c]) \in Nat /\ Len(list[c]) \in 0 .. Len(list[c])
  BY DEF TypeOK
<1>2. SubSeq(list[c], Len(list[c]) + 1, Len(list[c])) = <<>>
  BY <1>1, SubSeqEmpty
<1>3. /\ list' = [list EXCEPT ![c] = SubSeq(list[c], Len(list[c]) + 1, Len(list[c]))]
      /\ UNCHANGED <<redis_available, sent, polled, heard>> /\ Fault
  BY <1>2 DEF ListExpires, pollVars, modeVars
<1> QED
  BY <1>1, <1>3, LossMaps

LEMMA NextMaps ==
    ASSUME Inv, OfflineInv, [Next]_vars PROVE Mailbox!Next \/ UNCHANGED Mailbox!vars
<1>1. ASSUME NEW p \in Publishers, LPush(p) \/ FallbackPublish(p)
      PROVE  Mailbox!Next \/ UNCHANGED Mailbox!vars
  BY <1>1, LPushMaps, FallbackPublishMaps
<1>2. ASSUME NEW p \in Publishers, NEW c \in Channels, NEW more \in BOOLEAN,
             Publish(p, c, more)
      PROVE  Mailbox!Next \/ UNCHANGED Mailbox!vars
  BY <1>2, UntouchedMaps DEF Publish, pollVars, modeVars, faultVars
<1>3. ASSUME NEW p \in Publishers, RedisPublish(p)
      PROVE  Mailbox!Next \/ UNCHANGED Mailbox!vars
  BY <1>3, UntouchedMaps DEF RedisPublish, pollVars, modeVars
<1>4. ASSUME NEW a \in Agents, NEW c \in Reads(a), Subscribe(a, c)
      PROVE  Mailbox!Next \/ UNCHANGED Mailbox!vars
  BY <1>4, UntouchedMaps DEF Subscribe, pollVars, modeVars, faultVars
<1>5. ASSUME NEW a \in Agents, NEW c \in Reads(a), RPop(a, c)
      PROVE  Mailbox!Next \/ UNCHANGED Mailbox!vars
  BY <1>5, RPopMaps DEF Inv
<1>6. ASSUME NEW c \in Channels, ListExpires(c)
      PROVE  Mailbox!Next \/ UNCHANGED Mailbox!vars
  BY <1>6, ListExpiresMaps DEF Inv
<1>7. CASE Connect \/ Listen
  BY <1>7, ConnectMaps, ListenMaps
<1>8. CASE ListenerFails \/ Close
  BY <1>8, UntouchedMaps DEF ListenerFails, Close, pollVars, modeVars
<1>9. CASE UNCHANGED vars
  BY <1>9, UntouchedMaps DEF vars
<1> QED
  BY <1>1, <1>2, <1>3, <1>4, <1>5, <1>6, <1>7, <1>8, <1>9 DEF Next

LEMMA InitMaps == Init => Mailbox!Init
<1> SUFFICES ASSUME Init PROVE Mailbox!Init
  OBVIOUS
<1>1. /\ Boxes = [a \in Agents |-> <<>>] /\ Addressed = [a \in Agents |-> {}]
      /\ Taken = [a \in Agents |-> <<>>] /\ Ears = [a \in Agents |-> {}]
  BY Numbers DEF Init, Boxes, Addressed, Taken, Ears
<1> QED
  BY <1>1 DEF Init, Mailbox!Init, Boxes, Addressed, Taken, Ears

-----------------------------------------------------------------------------
(* The theorems                                                              *)

\* The bus keeps its types, whatever calls to Redis fail.
THEOREM TypeCorrect == Spec => []TypeOK
<1>1. Inv => TypeOK
  BY DEF Inv
<1> QED
  BY <1>1, InvHolds, PTL

\* A callback is given a message at most once unless its publication fell back to the
\* in-process queue, however many subscriptions and listen loops there are.
THEOREM DeliversOnce == Spec => []RedisDeliversOnce
<1>1. Inv => RedisDeliversOnce
  BY DEF Inv, HeardInv
<1> QED
  BY <1>1, InvHolds, PTL

\* Every behaviour of the bus, with its failing calls, lost answers, expiring lists and
\* dying listeners, is one of Mailboxes: what is addressed to an agent waits for it alone
\* and in turn, and is lost only where something fails or before there is Redis.
THEOREM Implements == Spec => IsAMailbox
<1>1. Inv /\ OfflineInv /\ [Next]_vars => [Mailbox!Next]_(Mailbox!vars)
  BY NextMaps
<1> QED
  BY <1>1, InitMaps, InvHolds, OfflineHolds, PTL DEF Spec, IsAMailbox, Mailbox!Spec
=============================================================================
