----------------------------- MODULE Mailboxes ------------------------------
(***************************************************************************)
(* What a message bus promises of the messages that are addressed to one   *)
(* agent, with nothing said of how it keeps the promise.  Each agent has a *)
(* mailbox of its own, which nobody else takes from, and may have a        *)
(* callback that hears what is sent to it.  Once the bus is open, a        *)
(* message waits in the mailbox until its agent takes it, and in turn; it  *)
(* misses the mailbox, or is lost out of it, only where something fails.   *)
(* Before, callbacks are all there is to hear it.  A callback may hear a   *)
(* message more than once, but none that was not sent.                     *)
(***************************************************************************)
EXTENDS Naturals, Sequences

CONSTANTS
    Agents,
    Messages

VARIABLES
    open,          \* does the bus keep mailboxes?
    failures,      \* how many things have failed
    queue,         \* agent -> the messages in its mailbox, oldest first
    sent,          \* agent -> the messages ever sent to it
    taken,         \* agent -> the messages it took, in order
    heard          \* agent -> the messages its callback heard

vars == <<open, failures, queue, sent, taken, heard>>

Init ==
    /\ open = FALSE /\ failures = 0
    /\ queue = [a \in Agents |-> <<>>]
    /\ sent = [a \in Agents |-> {}]
    /\ taken = [a \in Agents |-> <<>>]
    /\ heard = [a \in Agents |-> {}]

Open == ~open /\ open' = TRUE /\ UNCHANGED <<failures, queue, sent, taken, heard>>

Fails == failures' = failures + 1

\* Something fails that costs no message.
Fail == Fails /\ UNCHANGED <<open, queue, sent, taken, heard>>

\* A message is put into the mailbox; what comes after that may fail.
Send(a, m) ==
    /\ m \notin sent[a]
    /\ sent' = [sent EXCEPT ![a] = @ \union {m}]
    /\ queue' = [queue EXCEPT ![a] = Append(@, m)]
    /\ Fails \/ UNCHANGED failures
    /\ UNCHANGED <<open, taken, heard>>

\* The callback hears a message, if there is one.
Heard(a, m) == heard' \in {heard, [heard EXCEPT ![a] = @ \union {m}]}

\* A message passes the mailbox by, as there is none yet or because something failed.
PassBy(a, m) ==
    /\ m \notin sent[a]
    /\ sent' = [sent EXCEPT ![a] = @ \union {m}]
    /\ Fails \/ (~open /\ UNCHANGED failures)
    /\ Heard(a, m)
    /\ UNCHANGED <<open, queue, taken>>

Hear(a, m) == m \in sent[a] /\ Heard(a, m) /\ UNCHANGED <<open, failures, queue, sent, taken>>

Take(a, n) ==
    /\ taken' = [taken EXCEPT ![a] = @ \o SubSeq(queue[a], 1, n)]
    /\ queue' = [queue EXCEPT ![a] = SubSeq(@, n + 1, Len(@))]
    /\ UNCHANGED <<open, failures, sent, heard>>

\* The oldest messages are lost: taken, but by a call whose answer never came, or all of
\* them because nothing was sent for too long.
Lose(a, n) ==
    /\ Fails
    /\ queue' = [queue EXCEPT ![a] = SubSeq(@, n + 1, Len(@))]
    /\ UNCHANGED <<open, sent, taken, heard>>

Next ==
    \/ Open \/ Fail
    \/ \E a \in Agents :
          \/ \E m \in Messages : Send(a, m) \/ PassBy(a, m) \/ Hear(a, m)
          \/ \E n \in 1 .. Len(queue[a]) : Take(a, n) \/ Lose(a, n)

Spec == Init /\ [][Next]_vars
=============================================================================
