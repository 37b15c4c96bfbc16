--------------------------- MODULE WsManagerProofs ---------------------------
(***************************************************************************)
(* The safety properties of WsManager, for any clients and filters, any    *)
(* number of broadcasts at a time and any events.                          *)
(*                                                                         *)
(* Each event is followed from the snapshot its broadcast took: a client   *)
(* that was in it is still waited for, or has been dealt with.             *)
(***************************************************************************)
EXTENDS WsManager, SequenceTheorems, WellFoundedInduction, TLAPS

-----------------------------------------------------------------------------
(* Lists of clients                                                          *)

LEMMA ContainsAppend ==
    ASSUME NEW X, NEW s \in Seq(X), NEW x \in X, NEW y
    PROVE  Contains(Append(s, x), y) <=> Contains(s, y) \/ y = x
<1>1. Len(Append(s, x)) = Len(s) + 1 /\ Len(s) \in Nat
  OBVIOUS
<1>2. \A i \in 1 .. Len(s) : Append(s, x)[i] = s[i]
  OBVIOUS
<1>3. Append(s, x)[Len(s) + 1] = x
  OBVIOUS
<1> DEFINE n == Len(s)
           u == Append(s, x)
<1> HIDE DEF n, u
<1>4. (\E i \in 1 .. n + 1 : u[i] = y) <=> (\E i \in 1 .. n : s[i] = y) \/ y = x
  BY <1>1, <1>2, <1>3 DEF n, u
<1>5. QED
  BY <1>1, <1>4 DEF Contains, n, u

LEMMA ContainsTail ==
    ASSUME NEW X, NEW s \in Seq(X), s # <<>>, NEW y
    PROVE  /\ Contains(s, y) => y = Head(s) \/ Contains(Tail(s), y)
           /\ Contains(Tail(s), y) => Contains(s, y)
<1>1. /\ Len(Tail(s)) = Len(s) - 1 /\ Len(s) \in Nat /\ Len(s) >= 1
      /\ \A i \in 1 .. Len(s) - 1 : Tail(s)[i] = s[i + 1]
      /\ s[1] = Head(s)
  BY EmptySeq, HeadTailProperties
<1>2. ASSUME NEW i \in 1 .. Len(s), s[i] = y
      PROVE  y = Head(s) \/ Contains(Tail(s), y)
  <2>1. CASE i = 1
    BY <1>1, <1>2, <2>1
  <2>2. CASE i # 1
    <3>1. i - 1 \in 1 .. Len(s) - 1 /\ (i - 1) + 1 = i
      BY <1>1, <2>2
    <3>2. Tail(s)[i - 1] = y
      BY <1>1, <1>2, <3>1
    <3>3. QED
      BY <1>1, <3>1, <3>2 DEF Contains
  <2>3. QED
    BY <2>1, <2>2
<1>3. ASSUME NEW i \in 1 .. Len(s) - 1, Tail(s)[i] = y
      PROVE  Contains(s, y)
  <2>1. i + 1 \in 1 .. Len(s) /\ s[i + 1] = y
    BY <1>1, <1>3
  <2>2. QED
    BY <2>1 DEF Contains
<1>4. QED
  BY <1>1, <1>2, <1>3 DEF Contains

LEMMA EmptyContainsNothing == \A y : ~Contains(<<>>, y)
BY DEF Contains

LEMMA ContainsMember ==
    ASSUME NEW X, NEW s \in Seq(X), NEW y, Contains(s, y) PROVE y \in X
BY DEF Contains

\* A set of numbers has a least member.
LEMMA Least ==
    ASSUME NEW T, T \subseteq Nat, T # {}
    PROVE  \E x \in T : \A y \in T : ~(y < x)
<1>1. \E x \in T : \A y \in T : ~ (<<y, x>> \in OpToRel(<, Nat))
  BY NatLessThanWellFounded, WFMin
<1>2. QED
  BY <1>1 DEF OpToRel

\* A set that has 0 and with each number the next one has all of them.
LEMMA Induction ==
    ASSUME NEW S, 0 \in S, \A n \in Nat : n \in S => n + 1 \in S
    PROVE  Nat \subseteq S
<1> DEFINE T == Nat \ S
<1> SUFFICES ASSUME T # {} PROVE FALSE
  OBVIOUS
<1>1. PICK x \in T : \A y \in T : ~(y < x)
  BY Least
<1>2. x # 0 /\ x \in Nat
  BY <1>1
<1>3. x - 1 \in Nat /\ x - 1 < x /\ (x - 1) + 1 = x
  BY <1>2
<1>4. x - 1 \in S
  BY <1>1, <1>3
<1>5. QED
  BY <1>1, <1>3, <1>4

LEMMA AppendStaysInjective ==
    ASSUME NEW X, NEW s \in Seq(X), IsInjective(s), NEW x \in X, ~Contains(s, x)
    PROVE  IsInjective(Append(s, x))
<1> DEFINE n == Len(s)
           u == Append(s, x)
<1>1. n \in Nat /\ DOMAIN s = 1 .. n /\ DOMAIN u = 1 .. n + 1
  <2>1. u \in Seq(X) /\ Len(u) = n + 1
    OBVIOUS
  <2>2. n \in Nat /\ DOMAIN s = 1 .. n
    OBVIOUS
  <2> HIDE DEF n, u
  <2>3. DOMAIN u = 1 .. Len(u)
    BY <2>1
  <2>4. QED
    BY <2>1, <2>2, <2>3
<1>2. (\A i \in 1 .. n : u[i] = s[i]) /\ u[n + 1] = x
  OBVIOUS
<1>3. /\ \A i \in 1 .. n : s[i] # x
      /\ \A i, j \in 1 .. n : s[i] = s[j] => i = j
  BY <1>1 DEF Contains, IsInjective
<1> HIDE DEF n, u
<1>4. \A i \in 1 .. n + 1 : i \in 1 .. n \/ i = n + 1
  BY <1>1
<1>5. \A i, j \in 1 .. n + 1 : u[i] = u[j] => i = j
  BY <1>2, <1>3, <1>4
<1>6. QED
  BY <1>1, <1>5 DEF IsInjective, u

\* What Among has kept of the first n of a list.
Step(list, keep, kept, n) ==
    IF list[n] \in keep THEN Append(kept, list[n]) ELSE kept

IsKept(list, keep, kept, X, N) ==
    /\ kept \in [0 .. N -> Seq(X)]
    /\ kept[0] = <<>>
    /\ \A n \in 1 .. N : kept[n] = Step(list, keep, kept[n - 1], n)

LEMMA KeptExists ==
    ASSUME NEW X, NEW list \in Seq(X), NEW keep
    PROVE  \E kept : IsKept(list, keep, kept, X, Len(list))
<1> DEFINE S == {n \in Nat : n <= Len(list) => \E kept : IsKept(list, keep, kept, X, n)}
<1>1. 0 \in S
  <2>1. IsKept(list, keep, [n \in 0 .. 0 |-> <<>>], X, 0)
    BY DEF IsKept
  <2>2. QED
    BY <2>1
<1>2. ASSUME NEW n \in Nat, n \in S PROVE n + 1 \in S
  <2> SUFFICES ASSUME n + 1 <= Len(list)
               PROVE  \E kept : IsKept(list, keep, kept, X, n + 1)
    OBVIOUS
  <2>1. n <= Len(list)
    OBVIOUS
  <2>2. PICK f : IsKept(list, keep, f, X, n)
    BY <1>2, <2>1
  <2> DEFINE new == Step(list, keep, f[n], n + 1)
             g == [k \in 0 .. n + 1 |-> IF k = n + 1 THEN new ELSE f[k]]
  <2>3. f[n] \in Seq(X) /\ list[n + 1] \in X
    BY <2>2 DEF IsKept
  <2>4. new \in Seq(X)
    BY <2>3 DEF Step
  <2> HIDE DEF new
  <2>5. \A k \in 0 .. n : f[k] \in Seq(X) /\ k \in 0 .. n + 1 /\ k # n + 1
    BY <2>2 DEF IsKept
  <2>6. g \in [0 .. n + 1 -> Seq(X)]
    <3>1. \A k \in 0 .. n + 1 : k = n + 1 \/ k \in 0 .. n
      OBVIOUS
    <3>2. QED
      BY <2>4, <2>5, <3>1
  <2>7. (\A k \in 0 .. n : g[k] = f[k]) /\ g[n + 1] = new
    BY <2>5
  <2> HIDE DEF g
  <2>8. \A k \in 1 .. n + 1 : g[k] = Step(list, keep, g[k - 1], k)
    <3> SUFFICES ASSUME NEW k \in 1 .. n + 1
                 PROVE  g[k] = Step(list, keep, g[k - 1], k)
      OBVIOUS
    <3>1. k - 1 \in 0 .. n /\ g[k - 1] = f[k - 1]
      BY <2>7
    <3>2. CASE k = n + 1
      <4>1. k - 1 = n
        BY <3>2
      <4>2. QED
        BY <2>7, <3>1, <3>2, <4>1 DEF new
    <3>3. CASE k # n + 1
      <4>1. k \in 1 .. n /\ k \in 0 .. n
        BY <3>3
      <4>2. f[k] = Step(list, keep, f[k - 1], k)
        BY <2>2, <4>1 DEF IsKept
      <4>3. QED
        BY <2>7, <3>1, <4>1, <4>2
    <3>4. QED
      BY <3>2, <3>3
  <2>9. g[0] = <<>>
    BY <2>2, <2>7 DEF IsKept
  <2>10. IsKept(list, keep, g, X, n + 1)
    BY <2>6, <2>8, <2>9 DEF IsKept
  <2>11. QED
    BY <2>10
<1>3. Nat \subseteq S
  <2> HIDE DEF S
  <2>1. QED
    BY <1>1, <1>2, Induction
<1>4. Len(list) \in S
  BY <1>3
<1>5. QED
  BY <1>4

LEMMA AmongIsKept ==
    ASSUME NEW X, NEW list \in Seq(X), NEW keep
    PROVE  \E kept : IsKept(list, keep, kept, X, Len(list)) /\ Among(list, keep) = kept[Len(list)]
<1> DEFINE N == Len(list)
           f == CHOOSE f : f = [n \in 0 .. N |->
                    IF n = 0 THEN <<>>
                    ELSE IF list[n] \in keep THEN Append(f[n - 1], list[n]) ELSE f[n - 1]]
<1>1. Among(list, keep) = f[N]
  BY DEF Among
<1>2. PICK g : IsKept(list, keep, g, X, N)
  BY KeptExists
<1>3. N \in Nat
  OBVIOUS
<1> HIDE DEF N
<1>4. g = [n \in 0 .. N |->
              IF n = 0 THEN <<>>
              ELSE IF list[n] \in keep THEN Append(g[n - 1], list[n]) ELSE g[n - 1]]
  <2>1. g = [n \in 0 .. N |-> g[n]]
    BY <1>2 DEF IsKept
  <2>2. ASSUME NEW n \in 0 .. N
        PROVE  g[n] = IF n = 0 THEN <<>>
                      ELSE IF list[n] \in keep THEN Append(g[n - 1], list[n]) ELSE g[n - 1]
    <3>1. CASE n = 0
      BY <1>2, <3>1 DEF IsKept
    <3>2. CASE n # 0
      <4>1. n \in 1 .. N
        BY <1>3, <3>2
      <4>2. QED
        BY <1>2, <3>2, <4>1 DEF IsKept, Step
    <3>3. QED
      BY <3>1, <3>2
  <2>3. QED
    BY <2>1, <2>2
<1>5. f = [n \in 0 .. N |->
              IF n = 0 THEN <<>>
              ELSE IF list[n] \in keep THEN Append(f[n - 1], list[n]) ELSE f[n - 1]]
  BY <1>4
<1> HIDE DEF f
<1>6. f[0] = <<>> /\ \A n \in 1 .. N : f[n] = Step(list, keep, f[n - 1], n)
  <2> DEFINE body(n) == IF n = 0 THEN <<>>
                        ELSE IF list[n] \in keep THEN Append(f[n - 1], list[n]) ELSE f[n - 1]
  <2>1. \A n \in 0 .. N : f[n] = body(n)
    BY <1>5
  <2>2. body(0) = <<>> /\ \A n \in 1 .. N : n # 0 /\ body(n) = Step(list, keep, f[n - 1], n)
    BY <1>3 DEF Step
  <2> HIDE DEF body
  <2>3. 0 \in 0 .. N /\ \A n \in 1 .. N : n \in 0 .. N
    BY <1>3
  <2>4. QED
    BY <2>1, <2>2, <2>3
<1> DEFINE S == {n \in Nat : n <= N => f[n] = g[n]}
<1>7. 0 \in S
  BY <1>2, <1>6 DEF IsKept
<1>8. ASSUME NEW n \in Nat, n \in S PROVE n + 1 \in S
  <2> SUFFICES ASSUME n + 1 <= N PROVE f[n + 1] = g[n + 1]
    OBVIOUS
  <2>1. n + 1 \in 1 .. N /\ (n + 1) - 1 = n /\ n <= N
    BY <1>3
  <2>2. f[n] = g[n]
    BY <1>8, <2>1
  <2>3. f[n + 1] = Step(list, keep, f[n], n + 1) /\ g[n + 1] = Step(list, keep, g[n], n + 1)
    BY <1>2, <1>6, <2>1 DEF IsKept
  <2>4. QED
    BY <2>2, <2>3
<1>9. Nat \subseteq S
  <2> HIDE DEF S
  <2>1. QED
    BY <1>7, <1>8, Induction
<1>10. f[N] = g[N]
  BY <1>3, <1>9
<1>11. QED
  BY <1>1, <1>2, <1>10 DEF N

\* Among keeps what is in the set, all of it and nothing else, and once if it was there
\* once.
LEMMA AmongKeeps ==
    ASSUME NEW X, NEW list \in Seq(X), NEW keep
    PROVE  /\ Among(list, keep) \in Seq(X)
           /\ \A y : Contains(Among(list, keep), y) <=> Contains(list, y) /\ y \in keep
           /\ IsInjective(list) => IsInjective(Among(list, keep))
<1> DEFINE N == Len(list)
<1>1. PICK f : IsKept(list, keep, f, X, N) /\ Among(list, keep) = f[N]
  BY AmongIsKept
<1>2. N \in Nat /\ DOMAIN list = 1 .. N /\ \A n \in 1 .. N : list[n] \in X
  OBVIOUS
<1> HIDE DEF N
<1> DEFINE Upto(n) == {list[i] : i \in 1 .. n}
           S == {n \in Nat : n <= N =>
                    /\ \A y : Contains(f[n], y) <=> y \in Upto(n) /\ y \in keep
                    /\ IsInjective(list) => IsInjective(f[n])}
<1>3. 0 \in S
  <2>1. f[0] = <<>> /\ Upto(0) = {}
    BY <1>1 DEF IsKept
  <2>2. IsInjective(<<>>)
    BY DEF IsInjective
  <2>3. QED
    BY <2>1, <2>2, EmptyContainsNothing
<1>4. ASSUME NEW n \in Nat, n \in S PROVE n + 1 \in S
  <2> SUFFICES ASSUME n + 1 <= N
               PROVE  /\ \A y : Contains(f[n + 1], y) <=> y \in Upto(n + 1) /\ y \in keep
                      /\ IsInjective(list) => IsInjective(f[n + 1])
    OBVIOUS
  <2> DEFINE x == list[n + 1]
  <2>1. n + 1 \in 1 .. N /\ (n + 1) - 1 = n /\ n <= N /\ n \in 0 .. N
    BY <1>2
  <2>2. f[n] \in Seq(X) /\ x \in X /\ f[n + 1] = Step(list, keep, f[n], n + 1)
    BY <1>1, <1>2, <2>1 DEF IsKept
  <2>3. \A y : Contains(f[n], y) <=> y \in Upto(n) /\ y \in keep
    BY <1>4, <2>1
  <2>4. IsInjective(list) => IsInjective(f[n])
    BY <1>4, <2>1
  <2>5. Upto(n + 1) = Upto(n) \union {x}
    <3>1. \A i : i \in 1 .. n + 1 <=> i \in 1 .. n \/ i = n + 1
      BY <2>1
    <3>2. QED
      BY <3>1
  <2>6. IsInjective(list) => x \notin Upto(n)
    <3> SUFFICES ASSUME IsInjective(list), NEW i \in 1 .. n, list[i] = x PROVE FALSE
      OBVIOUS
    <3>1. i \in 1 .. N /\ i # n + 1
      <4> HIDE DEF x
      <4>1. QED
        BY <1>2, <2>1
    <3>2. QED
      BY <1>2, <2>1, <3>1 DEF IsInjective
  <2> DEFINE kept == f[n]
  <2>7. kept \in Seq(X) /\ x \in X
    BY <2>2
  <2> HIDE DEF Upto, x, kept
  <2>8. CASE x \notin keep
    <3>1. f[n + 1] = f[n]
      BY <2>2, <2>8 DEF Step, x
    <3>2. QED
      BY <2>3, <2>4, <2>5, <2>8, <3>1
  <2>9. CASE x \in keep
    <3>1. f[n + 1] = Append(kept, x)
      BY <2>2, <2>9 DEF Step, x, kept
    <3>2. \A y : Contains(Append(kept, x), y) <=> Contains(kept, y) \/ y = x
      BY <2>7, ContainsAppend
    <3>3. \A y : Contains(f[n + 1], y) <=> y \in Upto(n + 1) /\ y \in keep
      BY <2>3, <2>5, <2>9, <3>1, <3>2 DEF kept
    <3>4. ASSUME IsInjective(list) PROVE IsInjective(f[n + 1])
      <4>1. IsInjective(kept) /\ ~Contains(kept, x)
        BY <2>3, <2>4, <2>6, <3>4 DEF kept
      <4>2. QED
        BY <2>7, <3>1, <4>1, AppendStaysInjective
    <3>5. QED
      BY <3>3, <3>4
  <2>10. QED
    BY <2>8, <2>9
<1>5. Nat \subseteq S
  <2> HIDE DEF S
  <2>1. QED
    BY <1>3, <1>4, Induction
<1>6. N \in S
  BY <1>2, <1>5
<1>7. f[N] \in Seq(X)
  BY <1>1, <1>2 DEF IsKept
<1>8. \A y : Contains(list, y) <=> y \in Upto(N)
  BY DEF Contains, N
<1> HIDE DEF Upto
<1>9. QED
  BY <1>1, <1>6, <1>7, <1>8

-----------------------------------------------------------------------------
(* The invariant                                                             *)

Registered(c) == Contains(clients, c)
Handled(c) == socket[c].handler \in {"greeting", "reading", "ended"}
Welcome(c) == socket[c].handler \in {"greeting", "reading"} /\ socket[c].peer # "gone"

\* A handler ends only when its peer has gone, and only clients that have been
\* handled are ever registered.
SocketsInv ==
    \A c \in Clients :
        /\ socket[c].handler = "ended" => socket[c].peer = "gone"
        /\ Registered(c) => Handled(c)
        /\ Welcome(c) => Registered(c)

\* The dead have gone, and what a broadcast walks are clients.
TasksInv ==
    \A t \in Tasks :
        /\ task[t].event <= Len(events)
        /\ task[t].event = 0 => task[t].targets = <<>>
        /\ \A c \in task[t].dead : socket[c].peer = "gone"

HistoryInv ==
    /\ Len(before) = Len(events)
    /\ \A m \in DOMAIN events :
          /\ \A c \in before[m].registered : Handled(c)
          /\ \A c \in before[m].left : socket[c].handler = "ended"

Awaits(m, c) == \E t \in Tasks : task[t].event = m /\ Contains(task[t].targets, c)
Condemned(m, c) == \E t \in Tasks : task[t].event = m /\ c \in task[t].dead

\* Whoever was registered before an event got it, or is still to be sent it.
SentInv ==
    \A m \in DOMAIN events : \A c \in before[m].registered :
        Wants(c, events[m]) /\ socket[c].peer # "gone" => m \in got[c] \/ Awaits(m, c)

\* Whoever had left before an event is out of the list, or is to be taken out.
PruneInv ==
    \A m \in DOMAIN events : \A c \in before[m].left :
        Wants(c, events[m]) /\ Registered(c) => Awaits(m, c) \/ Condemned(m, c)

Inv == TypeOK /\ SocketsInv /\ TasksInv /\ HistoryInv /\ SentInv /\ PruneInv

\* What no step undoes.
Keeps(c) ==
    /\ Handled(c) => Handled(c)' /\ UNCHANGED <<socket[c].episode_filter, socket[c].subscription>>
    /\ socket[c].handler = "ended" => socket'[c].handler = "ended"
    /\ socket[c].peer = "gone" => socket'[c].peer = "gone"

LEMMA HistoryIsOfClients ==
    ASSUME TypeOK, Len(before) = Len(events), NEW m \in DOMAIN events
    PROVE  before[m].registered \subseteq Clients /\ before[m].left \subseteq Clients
<1>1. m \in DOMAIN before
  BY DEF TypeOK
<1> DEFINE R == [registered : SUBSET Clients, left : SUBSET Clients]
<1>2. before \in Seq(R)
  BY DEF TypeOK
<1>3. \A r \in R : r.registered \subseteq Clients /\ r.left \subseteq Clients
  OBVIOUS
<1> HIDE DEF R
<1>4. before[m] \in R
  BY <1>1, <1>2
<1>5. QED
  BY <1>3, <1>4

\* A step of a client alone.
LEMMA ClientSteps ==
    ASSUME Inv, UNCHANGED <<task, events, got, before>>,
           \A c \in Clients : Keeps(c),
           \A c \in Clients : Registered(c)' => Registered(c) \/ socket[c].handler = "new",
           TypeOK', SocketsInv'
    PROVE  Inv'
<1>1. \A c \in Clients : Keeps(c)
  OBVIOUS
<1>2. TypeOK /\ SocketsInv /\ TasksInv /\ HistoryInv /\ SentInv /\ PruneInv
  BY DEF Inv
<1>3. \A m \in DOMAIN events :
          before[m].registered \subseteq Clients /\ before[m].left \subseteq Clients
  BY <1>2, HistoryIsOfClients DEF HistoryInv
<1>4. TasksInv'
  <2>1. \A t \in Tasks : task[t].dead \subseteq Clients
    BY <1>2 DEF TypeOK, Task
  <2>2. QED
    BY <1>1, <1>2, <2>1 DEF TasksInv, Keeps
<1>5. HistoryInv'
  BY <1>1, <1>2, <1>3 DEF HistoryInv, Keeps
<1>6. SentInv'
  <2> SUFFICES ASSUME NEW m \in DOMAIN events, NEW c \in before[m].registered,
                      Wants(c, events[m])', socket'[c].peer # "gone"
               PROVE  m \in got[c] \/ Awaits(m, c)'
    BY DEF SentInv
  <2>1. c \in Clients /\ Handled(c) /\ Keeps(c)
    BY <1>1, <1>2, <1>3 DEF HistoryInv
  <2>2. UNCHANGED <<socket[c].episode_filter, socket[c].subscription>>
        /\ socket[c].peer # "gone"
    BY <2>1 DEF Keeps
  <2>3. Wants(c, events[m])
    BY <2>2 DEF Wants
  <2>4. m \in got[c] \/ Awaits(m, c)
    BY <1>2, <2>2, <2>3 DEF SentInv
  <2>5. QED
    BY <2>4 DEF Awaits
<1>7. PruneInv'
  <2> SUFFICES ASSUME NEW m \in DOMAIN events, NEW c \in before[m].left,
                      Wants(c, events[m])', Registered(c)'
               PROVE  Awaits(m, c)' \/ Condemned(m, c)'
    BY DEF PruneInv
  <2>1. c \in Clients /\ socket[c].handler = "ended" /\ Handled(c) /\ Keeps(c)
    BY <1>1, <1>2, <1>3 DEF HistoryInv, Handled
  <2>2. UNCHANGED <<socket[c].episode_filter, socket[c].subscription>> /\ Registered(c)
    BY <2>1 DEF Keeps
  <2>3. Wants(c, events[m])
    BY <2>2 DEF Wants
  <2>4. Awaits(m, c) \/ Condemned(m, c)
    BY <1>2, <2>2, <2>3 DEF PruneInv
  <2>5. QED
    BY <2>4 DEF Awaits, Condemned
<1>8. QED
  BY <1>4, <1>5, <1>6, <1>7 DEF Inv

LEMMA OneSocketTypes ==
    ASSUME TypeOK, NEW c \in Clients, NEW s \in Socket, socket' = [socket EXCEPT ![c] = s],
           UNCHANGED <<clients, task, events, got, before>>
    PROVE  TypeOK'
<1>1. socket' \in [Clients -> Socket]
  BY DEF TypeOK
<1>2. QED
  BY <1>1 DEF TypeOK, Event, Task, EventIds

LEMMA OneSocketSteps ==
    ASSUME Inv, NEW c \in Clients, NEW s \in Socket, socket' = [socket EXCEPT ![c] = s],
           UNCHANGED <<clients, task, events, got, before>>,
           /\ Handled(c) => /\ s.handler \in {"greeting", "reading", "ended"}
                            /\ s.episode_filter = socket[c].episode_filter
                            /\ s.subscription = socket[c].subscription
           /\ socket[c].handler = "ended" => s.handler = "ended"
           /\ socket[c].peer = "gone" => s.peer = "gone"
           /\ s.handler = "ended" => s.peer = "gone"
           /\ s.handler \in {"greeting", "reading"} =>
                  socket[c].handler \in {"greeting", "reading"}
    PROVE  Inv'
<1>1. TypeOK /\ SocketsInv
  BY DEF Inv
<1>2. TypeOK'
  BY <1>1, OneSocketTypes
<1>3. socket'[c] = s /\ \A b \in Clients \ {c} : socket'[b] = socket[b]
  BY <1>1 DEF TypeOK
<1>4. \A b \in Clients : Keeps(b)
  <2>1. Keeps(c)
    BY <1>3 DEF Keeps, Handled
  <2>2. \A b \in Clients \ {c} : Keeps(b)
    BY <1>3 DEF Keeps, Handled
  <2>3. QED
    BY <2>1, <2>2
<1>5. \A b : Registered(b)' <=> Registered(b)
  BY DEF Registered
<1>6. SocketsInv'
  <2>1. \A b \in Clients \ {c} : /\ Handled(b)' <=> Handled(b)
                                 /\ Welcome(b)' <=> Welcome(b)
    BY <1>3 DEF Handled, Welcome
  <2>2. Handled(c) => Handled(c)'
    BY <1>3 DEF Handled
  <2>3. Welcome(c)' => Welcome(c)
    BY <1>3 DEF Welcome
  <2>4. QED
    BY <1>1, <1>3, <1>5, <2>1, <2>2, <2>3 DEF SocketsInv
<1>7. QED
  BY <1>2, <1>4, <1>5, <1>6, ClientSteps

LEMMA ConnectSteps ==
    ASSUME Inv, NEW c \in Clients, NEW filter \in Filters, Connect(c, filter)
    PROVE  Inv'
<1> DEFINE s == [socket[c] EXCEPT !.handler = "greeting", !.episode_filter = filter[1],
                                  !.subscription = filter[2]]
<1>1. TypeOK /\ SocketsInv
  BY DEF Inv
<1>2. socket[c] \in Socket /\ socket[c].handler = "new" /\ socket[c].peer = "alive"
  BY <1>1 DEF Connect, TypeOK
<1>3. filter[1] \in Episodes \union {Everything} /\ filter[2] \in Kinds \union {Everything}
  BY WsAssumption
<1>4. s \in Socket /\ s.handler = "greeting" /\ s.peer = "alive"
  BY <1>2, <1>3 DEF Socket
<1>5. socket' = [socket EXCEPT ![c] = s] /\ clients' = Append(clients, c)
        /\ UNCHANGED <<task, events, got, before>>
  BY <1>1 DEF Connect, TypeOK
<1> HIDE DEF s
<1>6. socket'[c] = s /\ \A b \in Clients \ {c} : socket'[b] = socket[b]
  BY <1>1, <1>5 DEF TypeOK
<1>7. clients \in Seq(Clients) /\ IsInjective(clients)
  BY <1>1 DEF TypeOK
<1>8. \A b : Registered(b)' <=> Registered(b) \/ b = c
  BY <1>5, <1>7, ContainsAppend DEF Registered
<1>9. ~Handled(c) /\ ~Registered(c)
  BY <1>1, <1>2 DEF SocketsInv, Handled
<1>10. TypeOK'
  <2>1. clients' \in Seq(Clients)
    BY <1>5, <1>7
  <2>2. IsInjective(clients')
    BY <1>5, <1>7, <1>9, AppendStaysInjective DEF Registered
  <2>3. socket' \in [Clients -> Socket]
    BY <1>1, <1>4, <1>5 DEF TypeOK
  <2>4. QED
    BY <1>1, <1>5, <2>1, <2>2, <2>3 DEF TypeOK, Event, Task, EventIds
<1>11. \A b \in Clients : Keeps(b)
  <2>1. Keeps(c)
    BY <1>2, <1>9 DEF Keeps
  <2>2. \A b \in Clients \ {c} : Keeps(b)
    BY <1>6 DEF Keeps, Handled
  <2>3. QED
    BY <2>1, <2>2
<1>12. SocketsInv'
  <2>1. \A b \in Clients \ {c} : /\ Handled(b)' <=> Handled(b)
                                 /\ Welcome(b)' <=> Welcome(b)
    BY <1>6 DEF Handled, Welcome
  <2>2. Handled(c)' /\ socket'[c].handler # "ended" /\ Registered(c)'
    BY <1>4, <1>6, <1>8 DEF Handled
  <2>3. QED
    BY <1>1, <1>6, <1>8, <2>1, <2>2 DEF SocketsInv
<1>13. QED
  BY <1>2, <1>5, <1>8, <1>10, <1>11, <1>12, ClientSteps

\* The handlers and the peers.
LEMMA HandlerSteps ==
    ASSUME Inv, NEW c \in Clients,
           \/ Refuse(c) \/ Greet(c) \/ HandlerEnds(c)
           \/ \E peer \in {"alive", "stalled", "gone"} : PeerChanges(c, peer)
    PROVE  Inv'
<1>1. socket \in [Clients -> Socket] /\ socket[c] \in Socket
  BY DEF Inv, TypeOK
<1>2. ASSUME NEW h \in {"refused", "reading", "ended"},
             socket' = [socket EXCEPT ![c].handler = h],
             UNCHANGED <<clients, task, events, got, before>>,
             \/ h = "refused" /\ socket[c].handler = "new"
             \/ h = "reading" /\ socket[c].handler = "greeting"
             \/ h = "ended" /\ socket[c].handler = "reading" /\ socket[c].peer = "gone"
      PROVE  Inv'
  <2> DEFINE s == [socket[c] EXCEPT !.handler = h]
  <2>1. /\ s \in Socket /\ s.handler = h /\ s.episode_filter = socket[c].episode_filter
        /\ s.subscription = socket[c].subscription /\ s.peer = socket[c].peer
    BY <1>1 DEF Socket
  <2>2. socket' = [socket EXCEPT ![c] = s]
    BY <1>1, <1>2
  <2> HIDE DEF s
  <2>3. QED
    BY <1>2, <2>1, <2>2, OneSocketSteps DEF Handled
<1>3. ASSUME NEW peer \in {"alive", "stalled", "gone"}, PeerChanges(c, peer)
      PROVE  Inv'
  <2> DEFINE s == [socket[c] EXCEPT !.peer = peer]
  <2>1. /\ s \in Socket /\ s.handler = socket[c].handler /\ s.peer = peer
        /\ s.episode_filter = socket[c].episode_filter
        /\ s.subscription = socket[c].subscription
    BY <1>1 DEF Socket
  <2>2. socket' = [socket EXCEPT ![c] = s]
    BY <1>1, <1>3 DEF PeerChanges
  <2> HIDE DEF s
  <2>3. /\ socket[c].handler \in {"greeting", "reading"} /\ socket[c].peer # "gone"
        /\ UNCHANGED <<clients, task, events, got, before>>
    BY <1>3 DEF PeerChanges
  <2>4. QED
    BY <2>1, <2>2, <2>3, OneSocketSteps DEF Handled
<1>4. CASE Refuse(c)
  BY <1>2, <1>4 DEF Refuse
<1>5. CASE Greet(c)
  BY <1>2, <1>5 DEF Greet
<1>6. CASE HandlerEnds(c)
  BY <1>2, <1>6 DEF HandlerEnds
<1>7. QED
  BY <1>3, <1>4, <1>5, <1>6

-----------------------------------------------------------------------------
(* broadcast                                                                 *)

\* While the sockets stay as they are, so do the parts about them.
LEMMA SocketsStay ==
    ASSUME SocketsInv, UNCHANGED <<clients, socket>> PROVE SocketsInv'
BY DEF SocketsInv, Registered, Handled, Welcome

LEMMA BroadcastTypes ==
    ASSUME TypeOK, NEW t \in Tasks, NEW kind \in Kinds, NEW episode \in Episodes,
           Broadcast(t, kind, episode)
    PROVE  TypeOK'
<1> DEFINE e == [kind |-> kind, scope |-> Scope(kind, episode)]
           n == Len(events) + 1
           list == Targets(e)
           b == [registered |-> {c \in Clients : Contains(clients, c)},
                 left |-> {c \in Clients : socket[c].handler = "ended"}]
           R == [registered : SUBSET Clients, left : SUBSET Clients]
<1>1. e \in Event
  BY DEF Event, Scope
<1>2. b \in R
  OBVIOUS
<1>3. /\ task[t].event = 0 /\ Len(events) < MaxEvents
      /\ events' = Append(events, e)
      /\ task' = [task EXCEPT ![t] = [event |-> Len(events'), targets |-> list, dead |-> {}]]
      /\ before' = Append(before, b)
      /\ UNCHANGED <<clients, socket, got>>
  BY DEF Broadcast
<1>4. list \in Seq(Clients)
  BY AmongKeeps DEF TypeOK, Targets
<1>5. before \in Seq(R) /\ events \in Seq(Event) /\ Len(events) \in Nat
  BY DEF TypeOK
<1> HIDE DEF e, b, R, list
<1>6. events' \in Seq(Event) /\ Len(events') = n /\ n \in Nat /\ n <= MaxEvents
  BY <1>1, <1>3, <1>5, WsAssumption
<1>7. before' \in Seq(R)
  BY <1>2, <1>3, <1>5
<1>8. [event |-> n, targets |-> list, dead |-> {}] \in Task
  BY <1>4, <1>6, WsAssumption DEF Task
<1>9. task' \in [Tasks -> Task]
  BY <1>3, <1>6, <1>8 DEF TypeOK
<1>10. QED
  BY <1>3, <1>6, <1>7, <1>9 DEF TypeOK, R, EventIds

LEMMA BroadcastSteps ==
    ASSUME Inv, NEW t \in Tasks, NEW kind \in Kinds, NEW episode \in Episodes,
           Broadcast(t, kind, episode)
    PROVE  Inv'
<1> DEFINE e == [kind |-> kind, scope |-> Scope(kind, episode)]
           n == Len(events) + 1
           list == Targets(e)
           new == [registered |-> {c \in Clients : Contains(clients, c)},
                   left |-> {c \in Clients : socket[c].handler = "ended"}]
<1>1. TypeOK /\ SocketsInv /\ TasksInv /\ HistoryInv /\ SentInv /\ PruneInv
  BY DEF Inv
<1>2. TypeOK' /\ SocketsInv'
  BY <1>1, BroadcastTypes, SocketsStay DEF Broadcast
<1>3. /\ task[t].event = 0
      /\ events' = Append(events, e)
      /\ task' = [task EXCEPT ![t] = [event |-> Len(events'), targets |-> list, dead |-> {}]]
      /\ before' = Append(before, new)
      /\ UNCHANGED <<clients, socket, got>>
  BY DEF Broadcast
<1>4. \A c : Contains(list, c) <=> Registered(c) /\ c \in Clients /\ Wants(c, e)
  BY <1>1, AmongKeeps DEF TypeOK, Targets, Wanting, Registered
<1>5. /\ \A c \in new.registered : c \in Clients /\ Registered(c)
      /\ \A c \in new.left : c \in Clients /\ socket[c].handler = "ended"
  BY DEF Registered
<1> HIDE DEF e, new, list
<1>6. /\ Len(events) \in Nat /\ DOMAIN events = 1 .. Len(events)
      /\ Len(events') = n /\ DOMAIN events' = 1 .. n
      /\ \A m \in 1 .. Len(events) : events'[m] = events[m]
      /\ events'[n] = e
  <2>1. events \in Seq(Event) /\ events' \in Seq(Event)
    BY <1>1, <1>2 DEF TypeOK
  <2>2. Len(events) \in Nat /\ DOMAIN events = 1 .. Len(events) /\ Len(events') = n
    BY <1>3, <2>1
  <2>3. DOMAIN events' = 1 .. n
    BY <2>1, <2>2
  <2>4. /\ \A m \in 1 .. Len(events) : events'[m] = events[m]
        /\ events'[n] = e
    BY <1>3, <2>1, <2>2
  <2>5. QED
    BY <2>2, <2>3, <2>4
<1>7. /\ Len(before) = Len(events) /\ Len(before') = n
      /\ \A m \in 1 .. Len(events) : before'[m] = before[m]
      /\ before'[n] = new
  <2> DEFINE R == [registered : SUBSET Clients, left : SUBSET Clients]
  <2>1. before \in Seq(R) /\ Len(before) = Len(events)
    BY <1>1 DEF TypeOK, HistoryInv
  <2> HIDE DEF R
  <2>2. QED
    BY <1>3, <2>1
<1>8. /\ task'[t].event = n /\ task'[t].targets = list /\ task'[t].dead = {}
      /\ \A u \in Tasks \ {t} : task'[u] = task[u]
  BY <1>1, <1>3, <1>6 DEF TypeOK
<1> HIDE DEF n
<1>9. n = Len(events) + 1 /\ \A m \in 1 .. n : m = n \/ m \in 1 .. Len(events)
  BY <1>6 DEF n
<1>10. ASSUME NEW m \in 1 .. Len(events), NEW c
       PROVE  /\ Awaits(m, c) => Awaits(m, c)'
              /\ Condemned(m, c) => Condemned(m, c)'
  <2>1. \A u \in Tasks : task[u].event = m => u # t
    BY <1>3
  <2>2. QED
    BY <1>8, <2>1 DEF Awaits, Condemned
<1>11. TasksInv'
  <2>1. \A u \in Tasks : task[u].event \in Nat
    BY <1>1 DEF TypeOK, Task
  <2>2. ASSUME NEW u \in Tasks
        PROVE  /\ task'[u].event <= Len(events')
               /\ task'[u].event = 0 => task'[u].targets = <<>>
               /\ \A c \in task'[u].dead : socket'[c].peer = "gone"
    <3>1. CASE u = t
      BY <1>6, <1>8, <1>9, <3>1
    <3>2. CASE u # t
      <4>1. task'[u] = task[u] /\ task[u].event <= Len(events) /\ task[u].event \in Nat
        BY <1>1, <1>8, <2>1, <3>2 DEF TasksInv
      <4>2. task'[u].event <= Len(events')
        BY <1>6, <1>9, <4>1
      <4>3. QED
        BY <1>1, <1>3, <4>1, <4>2 DEF TasksInv
    <3>3. QED
      BY <3>1, <3>2
  <2>3. QED
    BY <2>2 DEF TasksInv
<1>12. HistoryInv'
  <2>1. ASSUME NEW m \in 1 .. n
        PROVE  /\ \A c \in before'[m].registered : Handled(c)'
               /\ \A c \in before'[m].left : socket'[c].handler = "ended"
    <3>1. CASE m = n
      BY <1>1, <1>3, <1>5, <1>7, <3>1 DEF SocketsInv, Handled
    <3>2. CASE m \in 1 .. Len(events)
      BY <1>1, <1>3, <1>6, <1>7, <3>2 DEF HistoryInv, Handled
    <3>3. QED
      BY <1>9, <3>1, <3>2
  <2>2. QED
    BY <1>6, <1>7, <2>1 DEF HistoryInv
<1>13. SentInv'
  <2> SUFFICES ASSUME NEW m \in 1 .. n, NEW c \in before'[m].registered,
                      Wants(c, events[m])', socket'[c].peer # "gone"
               PROVE  m \in got'[c] \/ Awaits(m, c)'
    BY <1>6 DEF SentInv
  <2>1. CASE m = n
    <3>1. Wants(c, e) /\ c \in Clients /\ Registered(c)
      BY <1>3, <1>5, <1>6, <1>7, <2>1 DEF Wants
    <3>2. QED
      BY <1>4, <1>8, <2>1, <3>1 DEF Awaits
  <2>2. CASE m \in 1 .. Len(events)
    <3>1. Wants(c, events[m]) /\ c \in before[m].registered
      BY <1>3, <1>6, <1>7, <2>2 DEF Wants
    <3>2. m \in got[c] \/ Awaits(m, c)
      BY <1>1, <1>3, <1>6, <2>2, <3>1 DEF SentInv
    <3>3. QED
      BY <1>3, <1>10, <2>2, <3>2
  <2>3. QED
    BY <1>9, <2>1, <2>2
<1>14. PruneInv'
  <2> SUFFICES ASSUME NEW m \in 1 .. n, NEW c \in before'[m].left,
                      Wants(c, events[m])', Registered(c)'
               PROVE  Awaits(m, c)' \/ Condemned(m, c)'
    BY <1>6 DEF PruneInv
  <2>1. Registered(c)
    BY <1>3 DEF Registered
  <2>2. CASE m = n
    <3>1. Wants(c, e) /\ c \in Clients
      BY <1>3, <1>5, <1>6, <1>7, <2>2 DEF Wants
    <3>2. QED
      BY <1>4, <1>8, <2>1, <2>2, <3>1 DEF Awaits
  <2>3. CASE m \in 1 .. Len(events)
    <3>1. Wants(c, events[m]) /\ c \in before[m].left
      BY <1>3, <1>6, <1>7, <2>3 DEF Wants
    <3>2. Awaits(m, c) \/ Condemned(m, c)
      BY <1>1, <1>6, <2>1, <2>3, <3>1 DEF PruneInv
    <3>3. QED
      BY <1>10, <2>3, <3>2
  <2>4. QED
    BY <1>9, <2>2, <2>3
<1>15. QED
  BY <1>2, <1>11, <1>12, <1>13, <1>14 DEF Inv

\* One client has been taken off the targets of t, which has found some dead.
Walked(t, dead) ==
    /\ task' \in [Tasks -> Task]
    /\ task'[t].event = task[t].event /\ task'[t].targets = Tail(task[t].targets)
    /\ task'[t].dead = task[t].dead \union dead
    /\ \A u \in Tasks \ {t} : task'[u] = task[u]

\* What the next send does: one client is off the list of targets, and is dead, or has
\* the event, or is gone.
LEMMA SendNextEffect ==
    ASSUME Inv, NEW t \in Tasks, SendNext(t)
    PROVE  \E c \in Clients, dead \in SUBSET Clients :
              /\ task[t].targets # <<>> /\ c = Head(task[t].targets)
              /\ \/ dead = {c} /\ socket[c].peer = "gone" /\ got' = got
                 \/ dead = {} /\ socket[c].peer = "gone" /\ socket[c].handler # "ended"
                      /\ got' = got
                 \/ dead = {} /\ socket[c].peer = "alive"
                      /\ got' = [got EXCEPT ![c] = @ \union {task[t].event}]
              /\ Walked(t, dead)
              /\ UNCHANGED <<clients, socket, events, before>>
<1> DEFINE c == Head(task[t].targets)
<1>1. TypeOK /\ SocketsInv
  BY DEF Inv
<1>2. task \in [Tasks -> Task] /\ task[t] \in Task
  BY <1>1 DEF TypeOK
<1>3. task[t].targets \in Seq(Clients) /\ task[t].targets # <<>> /\ task[t].dead \subseteq Clients
  BY <1>2 DEF Task, SendNext
<1>4. c \in Clients
  BY <1>3
<1>5. ASSUME NEW dead \in SUBSET Clients, Advance(t, dead) PROVE Walked(t, dead)
  <2> DEFINE r == task[t]
             v == [r EXCEPT !.targets = Tail(@), !.dead = @ \union dead]
  <2>1. task' = [task EXCEPT ![t] = v]
    BY <1>2, <1>5 DEF Advance
  <2>2. Tail(r.targets) \in Seq(Clients) /\ r.dead \union dead \subseteq Clients /\ r \in Task
    BY <1>2, <1>3
  <2> HIDE DEF r
  <2>3. /\ v \in Task /\ v.event = r.event /\ v.targets = Tail(r.targets)
        /\ v.dead = r.dead \union dead
    BY <2>2 DEF Task
  <2> HIDE DEF v
  <2>4. task'[t] = v /\ task' \in [Tasks -> Task] /\ \A u \in Tasks \ {t} : task'[u] = task[u]
    BY <1>2, <2>1, <2>3
  <2>5. QED
    BY <2>3, <2>4 DEF Walked, r
<1>6. UNCHANGED <<clients, socket, events, before>>
  BY DEF SendNext
<1>7. \/ socket[c].handler = "ended" /\ Advance(t, {c}) /\ UNCHANGED got
      \/ /\ socket[c].handler # "ended" /\ socket[c].peer = "gone"
         /\ Advance(t, {c}) \/ Advance(t, {})
         /\ UNCHANGED got
      \/ /\ socket[c].peer = "alive"
         /\ Advance(t, {})
         /\ got' = [got EXCEPT ![c] = @ \union {task[t].event}]
  BY DEF SendNext
<1>8. socket[c].handler = "ended" => socket[c].peer = "gone"
  BY <1>1, <1>4 DEF SocketsInv
<1> HIDE DEF c
<1>9. {c} \in SUBSET Clients /\ {} \in SUBSET Clients
  BY <1>4
<1>10. CASE Advance(t, {c}) /\ socket[c].peer = "gone" /\ got' = got
  BY <1>3, <1>4, <1>5, <1>6, <1>9, <1>10 DEF c
<1>11. CASE Advance(t, {}) /\ socket[c].peer = "gone" /\ socket[c].handler # "ended" /\ got' = got
  BY <1>3, <1>4, <1>5, <1>6, <1>9, <1>11 DEF c
<1>12. CASE /\ Advance(t, {}) /\ socket[c].peer = "alive"
            /\ got' = [got EXCEPT ![c] = @ \union {task[t].event}]
  BY <1>3, <1>4, <1>5, <1>6, <1>9, <1>12 DEF c
<1>13. QED
  BY <1>7, <1>8, <1>10, <1>11, <1>12

LEMMA SendNextSteps ==
    ASSUME Inv, NEW t \in Tasks, SendNext(t)
    PROVE  Inv'
<1>1. TypeOK /\ SocketsInv /\ TasksInv /\ HistoryInv /\ SentInv /\ PruneInv
  BY DEF Inv
<1> DEFINE targets == task[t].targets
           rest == Tail(targets)
<1>2. PICK c \in Clients, dead \in SUBSET Clients :
              /\ targets # <<>> /\ c = Head(targets)
              /\ \/ dead = {c} /\ socket[c].peer = "gone" /\ got' = got
                 \/ dead = {} /\ socket[c].peer = "gone" /\ socket[c].handler # "ended"
                      /\ got' = got
                 \/ dead = {} /\ socket[c].peer = "alive"
                      /\ got' = [got EXCEPT ![c] = @ \union {task[t].event}]
              /\ Walked(t, dead)
              /\ UNCHANGED <<clients, socket, events, before>>
  BY SendNextEffect
<1>3. /\ task \in [Tasks -> Task] /\ targets \in Seq(Clients) /\ task[t].dead \subseteq Clients
      /\ task[t].event \in 0 .. MaxEvents
  BY <1>1 DEF TypeOK, Task
<1>4. \A b : /\ Contains(targets, b) => b = c \/ Contains(rest, b)
             /\ Contains(rest, b) => Contains(targets, b)
  BY <1>2, <1>3, ContainsTail
<1>5. task[t].event # 0
  BY <1>1, <1>2 DEF TasksInv
<1> HIDE DEF rest
<1>6. /\ task'[t].event = task[t].event /\ task'[t].targets = rest
      /\ task'[t].dead = task[t].dead \union dead
      /\ \A u \in Tasks \ {t} : task'[u] = task[u]
      /\ task' \in [Tasks -> Task]
  BY <1>2 DEF Walked, rest
<1>7. \A b \in Clients : got[b] \subseteq got'[b]
  BY <1>1, <1>2 DEF TypeOK
<1>8. TypeOK'
  <2>3. task[t].event \in EventIds
    BY <1>3, <1>5, WsAssumption DEF EventIds
  <2>4. got' \in [Clients -> SUBSET EventIds]
    BY <1>1, <1>2, <2>3 DEF TypeOK
  <2>5. QED
    BY <1>1, <1>2, <1>6, <2>4 DEF TypeOK, Event, EventIds
<1>9. SocketsInv'
  BY <1>1, <1>2, SocketsStay
<1>10. TasksInv'
  <2>1. \A b \in dead : socket[b].peer = "gone"
    BY <1>2
  <2>2. ASSUME NEW u \in Tasks
        PROVE  /\ task'[u].event <= Len(events)
               /\ task'[u].event = 0 => task'[u].targets = <<>>
               /\ \A b \in task'[u].dead : socket[b].peer = "gone"
    <3>1. CASE u = t
      BY <1>1, <1>5, <1>6, <2>1, <3>1 DEF TasksInv
    <3>2. CASE u # t
      BY <1>1, <1>6, <3>2 DEF TasksInv
    <3>3. QED
      BY <3>1, <3>2
  <2>3. QED
    BY <1>2, <2>2 DEF TasksInv
<1>11. HistoryInv'
  BY <1>1, <1>2 DEF HistoryInv, Handled
<1>12. ASSUME NEW m, NEW b, Awaits(m, b)
       PROVE  Awaits(m, b)' \/ (b = c /\ task[t].event = m)
  <2>1. PICK u \in Tasks : task[u].event = m /\ Contains(task[u].targets, b)
    BY <1>12 DEF Awaits
  <2>2. CASE u = t
    BY <1>4, <1>6, <2>1, <2>2 DEF Awaits
  <2>3. CASE u # t
    <3>1. task'[u] = task[u]
      BY <1>6, <2>3
    <3>2. task'[u].event = m /\ Contains(task'[u].targets, b)
      BY <2>1, <3>1
    <3>3. QED
      BY <2>1, <3>2 DEF Awaits
  <2>4. QED
    BY <2>2, <2>3
<1>13. ASSUME NEW m, NEW b, Condemned(m, b) PROVE Condemned(m, b)'
  <2>1. PICK u \in Tasks : task[u].event = m /\ b \in task[u].dead
    BY <1>13 DEF Condemned
  <2>2. task'[u].event = m /\ b \in task'[u].dead
    BY <1>6, <2>1
  <2>3. QED
    BY <2>2 DEF Condemned
<1>14. \A m \in DOMAIN events :
          before[m].registered \subseteq Clients /\ before[m].left \subseteq Clients
  BY <1>1, HistoryIsOfClients DEF HistoryInv
<1>15. SentInv'
  <2> SUFFICES ASSUME NEW m \in DOMAIN events, NEW b \in before[m].registered,
                      Wants(b, events[m]), socket[b].peer # "gone"
               PROVE  m \in got'[b] \/ Awaits(m, b)'
    BY <1>2 DEF SentInv, Wants
  <2>1. m \in got[b] \/ Awaits(m, b)
    BY <1>1 DEF SentInv
  <2>2. b \in Clients
    BY <1>14
  <2>3. CASE b = c /\ task[t].event = m
    <3>1. got' = [got EXCEPT ![c] = @ \union {task[t].event}]
      BY <1>2, <2>3
    <3>2. QED
      BY <1>1, <2>3, <3>1 DEF TypeOK
  <2>4. QED
    BY <1>7, <1>12, <2>1, <2>2, <2>3
<1>16. PruneInv'
  <2> SUFFICES ASSUME NEW m \in DOMAIN events, NEW b \in before[m].left,
                      Wants(b, events[m]), Registered(b)
               PROVE  Awaits(m, b)' \/ Condemned(m, b)'
    BY <1>2 DEF PruneInv, Wants, Registered
  <2>1. Awaits(m, b) \/ Condemned(m, b)
    BY <1>1 DEF PruneInv
  <2>2. b \in Clients /\ socket[b].handler = "ended" /\ socket[b].peer = "gone"
    BY <1>1, <1>14 DEF HistoryInv, SocketsInv
  <2>3. CASE b = c /\ task[t].event = m
    <3>1. dead = {c}
      BY <1>2, <2>2, <2>3
    <3>2. task'[t].event = m /\ b \in task'[t].dead
      BY <1>6, <2>3, <3>1
    <3>3. QED
      BY <3>2 DEF Condemned
  <2>4. QED
    BY <1>12, <1>13, <2>1, <2>3
<1>17. QED
  BY <1>8, <1>9, <1>10, <1>11, <1>15, <1>16 DEF Inv

LEMMA PruneSteps ==
    ASSUME Inv, NEW t \in Tasks, Prune(t)
    PROVE  Inv'
<1>1. TypeOK /\ SocketsInv /\ TasksInv /\ HistoryInv /\ SentInv /\ PruneInv
  BY DEF Inv
<1> DEFINE dead == task[t].dead
<1>2. /\ task[t].event # 0 /\ task[t].targets = <<>>
      /\ clients' = Among(clients, Clients \ dead)
      /\ task' = [task EXCEPT ![t] = Idle]
      /\ UNCHANGED <<socket, events, got, before>>
  BY DEF Prune
<1>3. clients \in Seq(Clients) /\ IsInjective(clients) /\ task \in [Tasks -> Task]
  BY <1>1 DEF TypeOK
<1>4. /\ clients' \in Seq(Clients) /\ IsInjective(clients')
      /\ \A c : Registered(c)' <=> Registered(c) /\ c \in Clients \ dead
  BY <1>2, <1>3, AmongKeeps DEF Registered
<1>5. \A c \in dead : socket[c].peer = "gone"
  BY <1>1 DEF TasksInv
<1> HIDE DEF dead
<1>6. /\ task'[t].event = 0 /\ task'[t].targets = <<>> /\ task'[t].dead = {}
      /\ \A u \in Tasks \ {t} : task'[u] = task[u]
  BY <1>2, <1>3 DEF Idle
<1>7. TypeOK'
  <2>1. <<>> \in Seq(Clients) /\ 0 \in 0 .. MaxEvents
    BY WsAssumption
  <2>2. Idle \in Task
    BY <2>1 DEF Idle, Task
  <2>3. task' \in [Tasks -> Task]
    BY <1>2, <1>3, <2>2
  <2>4. QED
    BY <1>1, <1>2, <1>4, <2>3 DEF TypeOK, Event, EventIds
<1>8. SocketsInv'
  <2>1. \A c : (Handled(c)' <=> Handled(c)) /\ (Welcome(c)' <=> Welcome(c))
    BY <1>2 DEF Handled, Welcome
  <2>2. \A c \in Clients : Welcome(c) => c \notin dead
    BY <1>5 DEF Welcome
  <2>3. QED
    BY <1>1, <1>2, <1>4, <2>1, <2>2 DEF SocketsInv
<1>9. TasksInv'
  <2>1. Len(events) \in Nat
    BY <1>1 DEF TypeOK
  <2>2. ASSUME NEW u \in Tasks
        PROVE  /\ task'[u].event <= Len(events)
               /\ task'[u].event = 0 => task'[u].targets = <<>>
               /\ \A c \in task'[u].dead : socket[c].peer = "gone"
    <3>1. CASE u = t
      BY <1>6, <2>1, <3>1
    <3>2. CASE u # t
      BY <1>1, <1>6, <3>2 DEF TasksInv
    <3>3. QED
      BY <3>1, <3>2
  <2>3. QED
    BY <1>2, <2>2 DEF TasksInv
<1>10. HistoryInv'
  BY <1>1, <1>2 DEF HistoryInv, Handled
<1>11. ASSUME NEW m, NEW c, Awaits(m, c) PROVE Awaits(m, c)'
  <2>1. PICK u \in Tasks : task[u].event = m /\ Contains(task[u].targets, c)
    BY <1>11 DEF Awaits
  <2>2. u # t
    BY <1>2, <2>1, EmptyContainsNothing
  <2>3. QED
    BY <1>6, <2>1, <2>2 DEF Awaits
<1>12. ASSUME NEW m, NEW c, Condemned(m, c) PROVE Condemned(m, c)' \/ c \in dead
  <2>1. PICK u \in Tasks : task[u].event = m /\ c \in task[u].dead
    BY <1>12 DEF Condemned
  <2>2. CASE u = t
    BY <2>1, <2>2 DEF dead
  <2>3. CASE u # t
    BY <1>6, <2>1, <2>3 DEF Condemned
  <2>4. QED
    BY <2>2, <2>3
<1>13. SentInv'
  BY <1>1, <1>2, <1>11 DEF SentInv, Wants
<1>14. PruneInv'
  <2> SUFFICES ASSUME NEW m \in DOMAIN events, NEW c \in before[m].left,
                      Wants(c, events[m]), Registered(c)'
               PROVE  Awaits(m, c)' \/ Condemned(m, c)'
    BY <1>2 DEF PruneInv, Wants
  <2>1. Registered(c) /\ c \notin dead
    BY <1>4
  <2>2. Awaits(m, c) \/ Condemned(m, c)
    BY <1>1, <2>1 DEF PruneInv
  <2>3. QED
    BY <1>11, <1>12, <2>1, <2>2
<1>15. QED
  BY <1>7, <1>8, <1>9, <1>10, <1>13, <1>14 DEF Inv

-----------------------------------------------------------------------------
(* The theorems                                                              *)

LEMMA InitInv == Init => Inv
<1> SUFFICES ASSUME Init PROVE Inv
  OBVIOUS
<1>1. /\ clients = <<>> /\ socket = [c \in Clients |-> NewSocket]
      /\ task = [t \in Tasks |-> Idle] /\ events = <<>>
      /\ got = [c \in Clients |-> {}] /\ before = <<>>
  BY DEF Init
<1>2. TypeOK
  <2>1. <<>> \in Seq(Clients) /\ 0 \in 0 .. MaxEvents /\ IsInjective(<<>>)
    BY WsAssumption DEF IsInjective
  <2>2. Idle \in Task /\ NewSocket \in Socket
    BY <2>1 DEF Idle, Task, NewSocket, Socket
  <2>3. /\ events \in Seq(Event) /\ Len(events) <= MaxEvents
        /\ before \in Seq([registered : SUBSET Clients, left : SUBSET Clients])
    BY <1>1, WsAssumption
  <2>4. QED
    BY <1>1, <2>1, <2>2, <2>3 DEF TypeOK
<1>3. SocketsInv
  BY <1>1, EmptyContainsNothing DEF SocketsInv, Registered, Handled, Welcome, NewSocket
<1>4. TasksInv
  BY <1>1 DEF TasksInv, Idle
<1>5. HistoryInv /\ SentInv /\ PruneInv
  BY <1>1 DEF HistoryInv, SentInv, PruneInv
<1>6. QED
  BY <1>2, <1>3, <1>4, <1>5 DEF Inv

LEMMA NextInv == Inv /\ [Next]_vars => Inv'
<1> SUFFICES ASSUME Inv, [Next]_vars PROVE Inv'
  OBVIOUS
<1>1. CASE UNCHANGED vars
  BY <1>1 DEF vars, Inv, TypeOK, SocketsInv, TasksInv, HistoryInv, SentInv, PruneInv, Registered,
              Handled, Welcome, Awaits, Condemned, Wants, Event, EventIds, Task
<1>2. QED
  BY <1>1, ConnectSteps, HandlerSteps, BroadcastSteps, SendNextSteps, PruneSteps DEF Next

LEMMA Invariance == Spec => []Inv
BY InitInv, NextInv, PTL DEF Spec

\* Whatever clients come and go, a client is in the list once at most.
THEOREM TypeCorrect == Spec => []TypeOK
<1>1. Inv => TypeOK
  BY DEF Inv
<1>2. QED
  BY Invariance, <1>1, PTL

\* However many broadcasts prune at a time, none takes a client out of the list that has
\* not gone.
THEOREM TheReachableStay == Spec => []OnlyTheGoneArePruned
<1>1. Inv => OnlyTheGoneArePruned
  BY DEF Inv, SocketsInv, OnlyTheGoneArePruned, Welcome, Registered
<1>2. QED
  BY Invariance, <1>1, PTL

\* What disconnect() leaves behind, the next broadcast the client would have wanted
\* takes out.
THEOREM TheGoneArePruned == Spec => []PrunedByNextBroadcast
<1>1. Inv => PrunedByNextBroadcast
  <2> SUFFICES ASSUME Inv, NEW m \in DOMAIN events, Ended(m),
                      NEW c \in before[m].left, Wants(c, events[m]), Contains(clients, c)
               PROVE  FALSE
    BY DEF PrunedByNextBroadcast
  <2>1. Awaits(m, c) \/ Condemned(m, c)
    BY DEF Inv, PruneInv, Registered
  <2>2. QED
    BY <2>1 DEF Ended, Awaits, Condemned
<1>2. QED
  BY Invariance, <1>1, PTL

\* A client that is registered before an event and reachable after it has got it,
\* whoever else comes, goes or is pruned on the way.
THEOREM TheReachableAreServed == Spec => []NoLiveClientMissesAnEvent
<1>1. Inv => NoLiveClientMissesAnEvent
  <2> SUFFICES ASSUME Inv, NEW m \in DOMAIN events, Ended(m),
                      NEW c \in before[m].registered, Wants(c, events[m]),
                      socket[c].peer # "gone"
               PROVE  m \in got[c]
    BY DEF NoLiveClientMissesAnEvent
  <2>1. m \in got[c] \/ Awaits(m, c)
    BY DEF Inv, SentInv
  <2>2. QED
    BY <2>1 DEF Ended, Awaits
<1>2. QED
  BY Invariance, <1>1, PTL
=============================================================================
