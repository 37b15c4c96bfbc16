-------------------------- MODULE ApiClientsProofs --------------------------
(***************************************************************************)
(* Proofs about the accounts, their keys and the programs that play        *)
(* episodes, for any emails, any number of keys, programs, retries and     *)
(* late requests. The first part is about keys; the second follows a       *)
(* program, its requests and its episode from reset to reset.              *)
(***************************************************************************)
EXTENDS ApiClients, FiniteSetTheorems, SequenceTheorems, TLAPS

\* What the theorems about keys need of the tables: a key whose revocation was answered is
\* revoked, and stays so.
UsersInv == users \in Seq(Emails) /\ OneAccountPerEmail

KeysInv ==
    /\ keys \in Seq(APIKey)
    /\ dead \subseteq DOMAIN keys
    /\ \A k \in dead : keys[k].revoked

\* Of a request on its way: when it was stale, its key is dead; when its key was found,
\* it was not stale.
GoodMessage(m) ==
    /\ {"stage", "stale", "key"} \subseteq DOMAIN m
    /\ m.stale => m.key \in dead
    /\ m.stage = "found" => ~m.stale

WireInv == \A m \in wire : GoodMessage(m)

-----------------------------------------------------------------------------
(* Accounts                                                                  *)

LEMMA InitAccounts == AccountsInit => UsersInv /\ KeysInv
BY DEF AccountsInit, UsersInv, OneAccountPerEmail, KeysInv

LEMMA RegisterKeeps ==
    ASSUME UsersInv, KeysInv, NEW e, Register(e)
    PROVE  UsersInv' /\ KeysInv' /\ dead' = dead
BY DEF Register, UsersInv, OneAccountPerEmail, KeysInv

\* A new row keeps the keys that are there.
LEMMA AppendKey ==
    ASSUME KeysInv, NEW u \in Nat, keys' = Append(keys, NewKey(u)), dead' = dead
    PROVE  KeysInv'
<1>1. NewKey(u) \in APIKey
  BY DEF NewKey, APIKey
<1>2. keys \in Seq(APIKey)
  BY DEF KeysInv
<1>3. keys' \in Seq(APIKey) /\ DOMAIN keys' = 1 .. (Len(keys) + 1)
  BY <1>1, <1>2
<1>4. \A k \in DOMAIN keys : k \in DOMAIN keys' /\ keys'[k] = keys[k]
  BY <1>1, <1>2
<1>5. QED
  BY <1>3, <1>4 DEF KeysInv

LEMMA CreateUserKeeps ==
    ASSUME UsersInv, KeysInv, NEW e \in Emails, CreateUser(e)
    PROVE  UsersInv' /\ KeysInv' /\ dead' = dead
<1>1. CASE Taken(e)
  BY <1>1 DEF CreateUser, UsersInv, OneAccountPerEmail, KeysInv
<1>2. CASE ~Taken(e)
  <2>1. /\ users' = Append(users, e)
        /\ keys' = Append(keys, NewKey(Len(users')))
        /\ dead' = dead
    BY <1>2 DEF CreateUser
  <2>2. users \in Seq(Emails) /\ \A u \in DOMAIN users : users[u] # e
    BY <1>2 DEF Taken, UsersInv
  <2>3. users' \in Seq(Emails) /\ Len(users') = Len(users) + 1
    BY <2>1, <2>2
  <2>4. OneAccountPerEmail'
    BY <2>1, <2>2, <2>3 DEF UsersInv, OneAccountPerEmail
  <2>5. KeysInv'
    BY <2>1, <2>3, AppendKey
  <2>6. QED
    BY <2>1, <2>3, <2>4, <2>5 DEF UsersInv
<1>3. QED
  BY <1>1, <1>2

LEMMA CreateKeyKeeps ==
    ASSUME UsersInv, KeysInv, NEW u, CreateKey(u)
    PROVE  UsersInv' /\ KeysInv' /\ dead' = dead
<1>1. u \in Nat
  BY DEF CreateKey, UsersInv
<1>2. keys' = Append(keys, NewKey(u)) /\ dead' = dead /\ users' = users
  BY DEF CreateKey
<1>3. KeysInv'
  BY <1>1, <1>2, AppendKey
<1>4. QED
  BY <1>2, <1>3 DEF UsersInv, OneAccountPerEmail

LEMMA RevokedKey ==
    ASSUME NEW r \in APIKey
    PROVE  [r EXCEPT !.revoked = TRUE] \in APIKey /\ [r EXCEPT !.revoked = TRUE].revoked
BY DEF APIKey

LEMMA RevokeKeyKeeps ==
    ASSUME UsersInv, KeysInv, NEW k, RevokeKey(k)
    PROVE  UsersInv' /\ KeysInv' /\ dead \subseteq dead'
<1> DEFINE r == [keys[k] EXCEPT !.revoked = TRUE]
<1>1. /\ k \in DOMAIN keys /\ users' = users
      /\ keys' = [keys EXCEPT ![k] = r]
      /\ dead' = dead \union {k}
  BY DEF RevokeKey
<1>2. keys \in Seq(APIKey) /\ k \in 1 .. Len(keys) /\ keys[k] \in APIKey
  BY <1>1 DEF KeysInv
<1>3. r \in APIKey /\ r.revoked
  BY <1>2, RevokedKey
<1> HIDE DEF r
<1>4. /\ keys' \in Seq(APIKey) /\ Len(keys') = Len(keys)
      /\ \A j \in 1 .. Len(keys) : keys'[j] = IF j = k THEN r ELSE keys[j]
  BY <1>1, <1>2, <1>3, ExceptSeq
<1>5. DOMAIN keys' = DOMAIN keys /\ DOMAIN keys = 1 .. Len(keys)
  BY <1>2, <1>4
<1>6. \A j \in dead' : keys'[j].revoked
  BY <1>1, <1>2, <1>3, <1>4, <1>5 DEF KeysInv
<1>7. KeysInv'
  BY <1>1, <1>4, <1>5, <1>6 DEF KeysInv
<1>8. QED
  BY <1>1, <1>7 DEF UsersInv, OneAccountPerEmail

LEMMA AccountsKeep ==
    ASSUME UsersInv, KeysInv, AccountsNext
    PROVE  UsersInv' /\ KeysInv' /\ dead \subseteq dead'
BY RegisterKeeps, CreateUserKeeps, CreateKeyKeeps, RevokeKeyKeeps DEF AccountsNext

\* The steps of the programs and of their requests leave the tables alone: Touch writes
\* nothing that is modelled.
Tables == <<users, keys, dead>>

LEMMA TablesStay ==
    ASSUME UsersInv, KeysInv, UNCHANGED Tables PROVE UsersInv' /\ KeysInv'
BY DEF Tables, UsersInv, OneAccountPerEmail, KeysInv

-----------------------------------------------------------------------------
(* Requests                                                                  *)

LEMMA RequestIsGood == ASSUME NEW c, NEW s PROVE GoodMessage(Request(c, s))
BY DEF GoodMessage, Request

LEMMA SendsKeep == ASSUME WireInv, NEW c, NEW s, Sends(c, s), dead' = dead PROVE WireInv'
<1>1. PICK late \in SUBSET wire : wire' = late \union {Request(c, s)}
  BY DEF Sends
<1>2. \A m \in wire' : GoodMessage(m)
  BY <1>1, RequestIsGood DEF WireInv
<1>3. QED
  BY <1>2 DEF WireInv, GoodMessage

LEMMA CallsKeep ==
    ASSUME WireInv, NEW c, NEW kind, NEW s, Calls(c, kind, s), dead' = dead
    PROVE  WireInv'
BY SendsKeep DEF Calls

\* Fewer requests, or more dead keys, are no harm.
LEMMA FewerMessages ==
    ASSUME WireInv, dead \subseteq dead', wire' \subseteq wire PROVE WireInv'
BY DEF WireInv, GoodMessage

\* A step of a program: the tables stay, and the requests on their way are good.
ProgramStep(c) ==
    \/ \E k \in 0 .. MaxKeys : Start(c, k)
    \/ ResetAgain(c) \/ FallBackToPlain(c) \/ Step(c) \/ Leave(c)
    \/ Resend(c) \/ Receive(c) \/ NoReply(c)

LEMMA TablesOfAccounts == ASSUME UNCHANGED accountVars PROVE UNCHANGED Tables /\ dead' = dead
BY DEF accountVars, Tables

LEMMA FailsKeeps == ASSUME WireInv, NEW c, Fails(c), dead' = dead PROVE WireInv'
BY CallsKeep, FewerMessages DEF Fails, CloseSession

LEMMA RetriesKeep == ASSUME WireInv, NEW c, RetriesOrFails(c), dead' = dead PROVE WireInv'
BY FailsKeeps, FewerMessages DEF RetriesOrFails

LEMMA ProgramStepKeeps ==
    ASSUME WireInv, NEW c, ProgramStep(c) PROVE WireInv' /\ UNCHANGED Tables
<1>1. ASSUME NEW k \in 0 .. MaxKeys, Start(c, k) PROVE WireInv' /\ UNCHANGED Tables
  BY <1>1, TablesOfAccounts, CallsKeep DEF Start, ResetEpisode, FetchToken
<1>2. CASE ResetAgain(c)
  BY <1>2, TablesOfAccounts, CallsKeep DEF ResetAgain, ResetEpisode
<1>3. CASE FallBackToPlain(c)
  BY <1>3, TablesOfAccounts, CallsKeep DEF FallBackToPlain, ResetEpisode
<1>4. CASE Step(c)
  BY <1>4, TablesOfAccounts, CallsKeep DEF Step, SubmitStep
<1>5. CASE Leave(c)
  BY <1>5, TablesOfAccounts, CallsKeep, FewerMessages DEF Leave, CloseSession
<1>6. CASE Resend(c)
  BY <1>6, TablesOfAccounts, SendsKeep DEF Resend
<1>7. CASE Receive(c)
  BY <1>7, TablesOfAccounts, FailsKeeps, RetriesKeep, FewerMessages DEF Receive
<1>8. CASE NoReply(c)
  BY <1>8, TablesOfAccounts, FailsKeeps, RetriesKeep DEF NoReply
<1>9. QED
  BY <1>1, <1>2, <1>3, <1>4, <1>5, <1>6, <1>7, <1>8 DEF ProgramStep

LEMMA AnswersKeep ==
    ASSUME WireInv, NEW m, NEW answer, Answers(m, answer), dead' = dead PROVE WireInv'
BY FewerMessages DEF Answers

\* The look-up finds no dead key: what it lets in was sent before the revocation of its
\* key was answered.
LEMMA LookUpKeeps ==
    ASSUME KeysInv, WireInv, NEW m \in wire, LookUp(m) PROVE WireInv' /\ UNCHANGED Tables
<1>1. UNCHANGED Tables /\ dead' = dead
  BY TablesOfAccounts DEF LookUp
<1>2. CASE ~Finds(m.key)
  BY <1>1, <1>2, AnswersKeep DEF LookUp
<1>3. CASE Finds(m.key)
  <2> DEFINE found == [m EXCEPT !.stage = "found"]
  <2>1. wire' = (wire \ {m}) \union {found}
    BY <1>3 DEF LookUp
  <2>2. GoodMessage(m)
    BY DEF WireInv
  <2>3. m.key \notin dead
    BY <1>3 DEF Finds, KeysInv
  <2>4. ~m.stale
    BY <2>2, <2>3 DEF GoodMessage
  <2>5. GoodMessage(found)
    BY <2>2, <2>4 DEF GoodMessage
  <2> HIDE DEF found
  <2>6. \A n \in wire' : GoodMessage(n)
    BY <2>1, <2>5 DEF WireInv
  <2>7. QED
    BY <1>1, <2>6 DEF WireInv, GoodMessage
<1>4. QED
  BY <1>2, <1>3

LEMMA HandleKeeps ==
    ASSUME WireInv, NEW m \in wire, Handle(m) PROVE WireInv' /\ UNCHANGED Tables
<1>1. UNCHANGED Tables /\ dead' = dead
  BY DEF Handle, Authenticated, Touch, Tables
<1>2. CASE HandleReset(m)
  BY <1>1, <1>2, AnswersKeep DEF HandleReset
<1>3. CASE HandleStep(m)
  BY <1>1, <1>3, AnswersKeep DEF HandleStep
<1>4. CASE HandleClose(m)
  BY <1>1, <1>4, AnswersKeep DEF HandleClose
<1>5. CASE AnswersOnly(m)
  BY <1>1, <1>5, AnswersKeep DEF AnswersOnly
<1>6. QED
  BY <1>1, <1>2, <1>3, <1>4, <1>5 DEF Handle

-----------------------------------------------------------------------------
(* The programs and their episodes                                           *)

\* An answer of success waits for the call of a kind.
Answered(r, kind) == r.pc = "waiting" /\ r.kind = kind /\ r.answer.is = "ok"

\* The result of a step, or that it raised, may still arrive, or has and is not read.
Expects(r) ==
    r.pc = "waiting" /\ r.kind = "step" /\ r.answer.is \in {"none", "ok", "raised"}

\* What is true of a program by itself.
GoodClient(r) ==
    /\ r \in Client
    /\ r.tries <= r.call
    /\ r.pc = "waiting" => r.attempt \in 1 .. Programs[r.program].tries
    /\ r.pc = "backoff" => r.attempt \in 1 .. (Programs[r.program].tries - 1)
    /\ r.pc # "waiting" => r.answer = NoAnswer
    /\ r.episode_id = NoEpisode => r.history = <<>> /\ ~Answered(r, "step")
    /\ Answered(r, "reset") => r.answer.n \in Episodes
    /\ \A i, j \in DOMAIN r.history : i < j => r.history[i] < r.history[j]

\* What a program does but for reading an answer of success: its episode and its results
\* stay, and the call it is in is the one it was in or a new one.
Quiet(r, s) ==
    /\ GoodClient(s)
    /\ s.answer = NoAnswer
    /\ s.episode_id = r.episode_id /\ s.history = r.history
    /\ r.call <= s.call
    /\ s.call = r.call /\ s.pc \in {"waiting", "backoff"} =>
          r.pc \in {"waiting", "backoff"} /\ s.kind = r.kind

LEMMA TriesOfPrograms ==
    ASSUME NEW p \in DOMAIN Programs
    PROVE  Programs[p].tries \in 1 .. MAX_RETRIES /\ Programs[p].tries \in Nat
BY ClientsAssumption
   DEF Programs, Program, EpisodeBlock, GymEnv, PlainRun, TextualRun, Inference

LEMMA NoAnswerIsNone == NoAnswer.is = "none" /\ NoAnswer \notin Answer
BY DEF NoAnswer, Answer

\* Before a call: what a program sets before it calls.
Prepared(r, t) ==
    /\ t \in Client
    /\ t.answer = NoAnswer
    /\ t.call = r.call /\ t.tries <= t.call + 1
    /\ t.episode_id = r.episode_id /\ t.history = r.history

Called(t, kind) ==
    [t EXCEPT !.pc = "waiting", !.kind = kind, !.call = @ + 1, !.attempt = 1]

LEMMA CalledFields ==
    ASSUME NEW t \in Client, NEW kind \in Kinds, t.call < MaxCalls
    PROVE  /\ Called(t, kind) \in Client
           /\ Called(t, kind).pc = "waiting" /\ Called(t, kind).kind = kind
           /\ Called(t, kind).call = t.call + 1 /\ Called(t, kind).attempt = 1
           /\ Called(t, kind).tries = t.tries /\ Called(t, kind).answer = t.answer
           /\ Called(t, kind).program = t.program
           /\ Called(t, kind).episode_id = t.episode_id
           /\ Called(t, kind).history = t.history
<1>1. MaxCalls \in Nat /\ MAX_RETRIES \in Nat /\ 1 <= MAX_RETRIES
  BY ClientsAssumption
<1>2. t.call \in 0 .. MaxCalls
  BY DEF Client
<1>3. t.call + 1 \in 0 .. MaxCalls /\ 1 \in 0 .. MAX_RETRIES
  BY <1>1, <1>2
<1>4. QED
  BY <1>3 DEF Called, Client

LEMMA CalledIsQuiet ==
    ASSUME NEW r, GoodClient(r), NEW t, Prepared(r, t), NEW kind \in Kinds,
           t.call < MaxCalls
    PROVE  Quiet(r, Called(t, kind))
<1> DEFINE s == Called(t, kind)
<1>1. /\ s \in Client /\ s.pc = "waiting" /\ s.kind = kind
      /\ s.call = t.call + 1 /\ s.attempt = 1 /\ s.tries = t.tries /\ s.answer = NoAnswer
      /\ s.program = t.program /\ s.episode_id = r.episode_id /\ s.history = r.history
  BY CalledFields DEF Prepared
<1> HIDE DEF s
<1>2. r.call \in Nat /\ t.call = r.call /\ t.tries <= r.call + 1
  BY DEF Prepared, GoodClient, Client
<1>3. s.program \in DOMAIN Programs
  BY <1>1 DEF Client
<1>4. s.attempt \in 1 .. Programs[s.program].tries
  BY <1>1, <1>3, TriesOfPrograms
<1>5. ~Answered(s, "step") /\ ~Answered(s, "reset")
  BY <1>1, NoAnswerIsNone DEF Answered
<1>6. /\ s.episode_id = NoEpisode => s.history = <<>>
      /\ \A i, j \in DOMAIN s.history : i < j => s.history[i] < s.history[j]
  BY <1>1 DEF GoodClient
<1>7. GoodClient(s)
  BY <1>1, <1>2, <1>4, <1>5, <1>6 DEF GoodClient
<1>8. Quiet(r, s)
  BY <1>1, <1>2, <1>7 DEF Quiet
<1>9. QED
  BY <1>8 DEF s

\* The other things a program does by itself.
LEMMA PausesQuietly ==
    ASSUME NEW r, GoodClient(r), r.pc = "waiting", r.attempt < Programs[r.program].tries
    PROVE  Quiet(r, [r EXCEPT !.pc = "backoff", !.answer = NoAnswer])
<1> DEFINE s == [r EXCEPT !.pc = "backoff", !.answer = NoAnswer]
<1>1. r \in Client /\ r.call \in Nat /\ r.program \in DOMAIN Programs
  BY ClientsAssumption DEF GoodClient, Client
<1>2. /\ s \in Client /\ s.pc = "backoff" /\ s.answer = NoAnswer
      /\ s.kind = r.kind /\ s.call = r.call /\ s.attempt = r.attempt
      /\ s.tries = r.tries /\ s.program = r.program
      /\ s.episode_id = r.episode_id /\ s.history = r.history
  BY <1>1 DEF Client
<1> HIDE DEF s
<1>3. Programs[r.program].tries \in Nat /\ r.attempt \in 1 .. Programs[r.program].tries
  BY <1>1, TriesOfPrograms DEF GoodClient
<1>4. r.attempt \in 1 .. (Programs[r.program].tries - 1)
  BY <1>3
<1>5. ~Answered(s, "step") /\ ~Answered(s, "reset")
  BY <1>2 DEF Answered
<1>6. GoodClient(s)
  BY <1>2, <1>4, <1>5 DEF GoodClient
<1>7. Quiet(r, s)
  BY <1>1, <1>2, <1>6 DEF Quiet
<1>8. QED
  BY <1>7 DEF s

LEMMA StopsQuietly ==
    ASSUME NEW r, GoodClient(r), NEW pc \in {"ready", "over"}
    PROVE  Quiet(r, [r EXCEPT !.pc = pc, !.answer = NoAnswer])
<1> DEFINE s == [r EXCEPT !.pc = pc, !.answer = NoAnswer]
<1>1. r \in Client /\ r.call \in Nat
  BY ClientsAssumption DEF GoodClient, Client
<1>2. /\ s \in Client /\ s.pc = pc /\ s.answer = NoAnswer
      /\ s.kind = r.kind /\ s.call = r.call /\ s.attempt = r.attempt
      /\ s.tries = r.tries /\ s.program = r.program
      /\ s.episode_id = r.episode_id /\ s.history = r.history
  BY <1>1 DEF Client
<1> HIDE DEF s
<1>3. s.pc # "waiting" /\ s.pc # "backoff" /\ s.pc \notin {"waiting", "backoff"}
  BY <1>2
<1>4. ~Answered(s, "step") /\ ~Answered(s, "reset")
  BY <1>3 DEF Answered
<1>5. GoodClient(s)
  BY <1>2, <1>3, <1>4 DEF GoodClient
<1>6. Quiet(r, s)
  BY <1>1, <1>2, <1>3, <1>5 DEF Quiet
<1>7. QED
  BY <1>6 DEF s

LEMMA ResendsQuietly ==
    ASSUME NEW r, GoodClient(r), r.pc = "backoff"
    PROVE  Quiet(r, [r EXCEPT !.pc = "waiting", !.attempt = @ + 1])
<1> DEFINE s == [r EXCEPT !.pc = "waiting", !.attempt = @ + 1]
<1>1. /\ r \in Client /\ r.call \in Nat /\ r.program \in DOMAIN Programs
      /\ r.answer = NoAnswer
  BY ClientsAssumption DEF GoodClient, Client
<1>2. /\ Programs[r.program].tries \in 1 .. MAX_RETRIES
      /\ r.attempt \in 1 .. (Programs[r.program].tries - 1)
  BY <1>1, TriesOfPrograms DEF GoodClient
<1>3. r.attempt + 1 \in 1 .. Programs[r.program].tries /\ r.attempt + 1 \in 0 .. MAX_RETRIES
  BY <1>2, ClientsAssumption
<1>4. /\ s \in Client /\ s.pc = "waiting" /\ s.answer = NoAnswer
      /\ s.kind = r.kind /\ s.call = r.call /\ s.attempt = r.attempt + 1
      /\ s.tries = r.tries /\ s.program = r.program
      /\ s.episode_id = r.episode_id /\ s.history = r.history
  BY <1>1, <1>3 DEF Client
<1> HIDE DEF s
<1>5. ~Answered(s, "step") /\ ~Answered(s, "reset")
  BY <1>4, NoAnswerIsNone DEF Answered
<1>6. GoodClient(s)
  BY <1>3, <1>4, <1>5 DEF GoodClient
<1>7. Quiet(r, s)
  BY <1>1, <1>4, <1>6 DEF Quiet
<1>8. QED
  BY <1>7 DEF s

\* What a step of the server or of a program by itself may do to the attempts without a
\* result, when it sends k requests for a step.
Owed(r) == IF Expects(r) THEN 1 ELSE 0

Accounted(c, s, k) ==
    /\ untold' \in [Clients -> Nat]
    /\ \A d \in Clients \ {c} : untold'[d] = untold[d]
    /\ untold[c] + Owed(client[c]) + k <= untold'[c] + Owed(s)

Episodic == <<active, executed, started>>

QuietStep(c) ==
    \E s : /\ client' = [client EXCEPT ![c] = s]
           /\ Quiet(client[c], s)
           /\ UNCHANGED Episodic
           /\ \/ wire' = wire /\ Accounted(c, s, 0)
              \/ /\ s.pc = "waiting"
                 /\ \E late \in SUBSET wire : wire' = late \union {Request(c, s)}
                 /\ Accounted(c, s, IF s.kind = "step" THEN 1 ELSE 0)

LEMMA OwedIsNat == ASSUME NEW r PROVE Owed(r) \in 0 .. 1
BY DEF Owed

LEMMA CallsAreQuiet ==
    ASSUME NEW c \in Clients, GoodClient(client[c]), untold \in [Clients -> Nat],
           NEW t, Prepared(client[c], t), NEW kind \in Kinds, Calls(c, kind, t),
           UNCHANGED Episodic, untold' \in [Clients -> Nat],
           \A d \in Clients \ {c} : untold'[d] = untold[d],
           untold[c] + Owed(client[c]) <= untold'[c]
    PROVE  QuietStep(c)
<1> DEFINE s == Called(t, kind)
<1>1. t.call < MaxCalls /\ Sends(c, s)
  <2>1. t.call \in Nat /\ MaxCalls \in Nat
    BY ClientsAssumption DEF Prepared, Client
  <2>2. QED
    BY <2>1 DEF Calls, Called
<1>2. Quiet(client[c], s)
  BY <1>1, CalledIsQuiet
<1>3. s.pc = "waiting" /\ s.kind = kind /\ s.answer = NoAnswer
  BY <1>1, CalledFields DEF Prepared
<1> HIDE DEF s
<1>4. client' = [client EXCEPT ![c] = s] /\ \E late \in SUBSET wire : wire' = late \union {Request(c, s)}
  BY <1>1 DEF Sends
<1>5. Owed(s) = IF s.kind = "step" THEN 1 ELSE 0
  BY <1>3, NoAnswerIsNone DEF Owed, Expects
<1>6. Accounted(c, s, IF s.kind = "step" THEN 1 ELSE 0)
  <2>1. untold[c] \in Nat /\ untold'[c] \in Nat /\ Owed(client[c]) \in Nat
    BY OwedIsNat
  <2>2. QED
    BY <1>5, <2>1, OwedIsNat DEF Accounted
<1>7. QED
  BY <1>2, <1>3, <1>4, <1>6 DEF QuietStep

\* A call out of a state in which nothing is waited for.
LEMMA FirstCallsAreQuiet ==
    ASSUME NEW c \in Clients, GoodClient(client[c]), untold \in [Clients -> Nat],
           client[c].pc # "waiting",
           NEW t, Prepared(client[c], t), NEW kind \in Kinds, Calls(c, kind, t),
           UNCHANGED <<active, executed, started, untold>>
    PROVE  QuietStep(c)
<1>1. Owed(client[c]) = 0
  BY DEF Owed, Expects
<1>2. untold[c] + Owed(client[c]) <= untold'[c]
  BY <1>1
<1>3. QED
  BY <1>2, CallsAreQuiet DEF Episodic

LEMMA PreparedAsIs == ASSUME NEW r, GoodClient(r), r.pc # "waiting" PROVE Prepared(r, r)
<1>1. r.call \in Nat /\ r.tries \in Nat
  BY ClientsAssumption DEF GoodClient, Client
<1>2. QED
  BY <1>1 DEF Prepared, GoodClient

LEMMA StartIsQuiet ==
    ASSUME NEW c \in Clients, GoodClient(client[c]), untold \in [Clients -> Nat],
           NEW k \in 0 .. MaxKeys, Start(c, k)
    PROVE  QuietStep(c)
<1> DEFINE s == [client[c] EXCEPT !.key = k]
           u == [s EXCEPT !.jwt = TRUE]
<1>1. client[c] \in Client /\ client[c].pc = "out"
  BY DEF GoodClient, Start
<1>2. Prepared(client[c], client[c])
  BY <1>1, PreparedAsIs
<1>3. k \in Nat
  BY AccountsAssumption
<1>4. Prepared(client[c], s) /\ Prepared(client[c], u)
  BY <1>1, <1>2, <1>3 DEF Prepared, Client
<1>5. \/ Calls(c, "reset", s) \/ Calls(c, "token", s) \/ Calls(c, "reset", u)
  BY DEF Start, ResetEpisode, FetchToken
<1> HIDE DEF s, u
<1>6. QED
  BY <1>1, <1>4, <1>5, FirstCallsAreQuiet DEF Start, Kinds

LEMMA ResetAgainIsQuiet ==
    ASSUME NEW c \in Clients, GoodClient(client[c]), untold \in [Clients -> Nat],
           ResetAgain(c)
    PROVE  QuietStep(c)
<1>1. client[c].pc # "waiting" /\ Calls(c, "reset", client[c])
  BY DEF ResetAgain, ResetEpisode
<1>2. QED
  BY <1>1, PreparedAsIs, FirstCallsAreQuiet DEF ResetAgain, Kinds

LEMMA FallBackIsQuiet ==
    ASSUME NEW c \in Clients, GoodClient(client[c]), untold \in [Clients -> Nat],
           FallBackToPlain(c)
    PROVE  QuietStep(c)
<1> DEFINE s == [client[c] EXCEPT !.program = IF @ = "tui" THEN "plain" ELSE "plain_demo"]
<1>1. client[c].pc # "waiting" /\ Calls(c, "reset", s)
  BY DEF FallBackToPlain, ResetEpisode
<1>2. {"plain", "plain_demo"} \subseteq DOMAIN Programs
  BY DEF Programs
<1>3. Prepared(client[c], client[c]) /\ client[c] \in Client
  BY <1>1, PreparedAsIs DEF GoodClient
<1>4. Prepared(client[c], s)
  BY <1>2, <1>3 DEF Prepared, Client
<1> HIDE DEF s
<1>5. QED
  BY <1>1, <1>4, FirstCallsAreQuiet DEF FallBackToPlain, Kinds

LEMMA StepIsQuiet ==
    ASSUME NEW c \in Clients, GoodClient(client[c]), untold \in [Clients -> Nat],
           Step(c)
    PROVE  QuietStep(c)
<1> DEFINE s == [client[c] EXCEPT !.tries = IF Is(c).capped THEN @ + 1 ELSE @]
<1>1. client[c].pc # "waiting" /\ Calls(c, "step", s)
  BY DEF Step, SubmitStep
<1>2. /\ Prepared(client[c], client[c]) /\ client[c] \in Client
      /\ client[c].tries <= client[c].call
  BY <1>1, PreparedAsIs DEF GoodClient
<1>3. /\ client[c].tries \in Nat /\ client[c].call \in Nat /\ MaxCalls \in Nat
      /\ s.call = client[c].call
  BY <1>2, ClientsAssumption DEF Client
<1>4. client[c].call < MaxCalls - 1
  BY <1>1, <1>3 DEF Calls
<1>5. client[c].tries + 1 \in 0 .. MaxCalls
  BY <1>2, <1>3, <1>4
<1>6. s \in Client
  BY <1>2, <1>5 DEF Client
<1>7. Prepared(client[c], s)
  BY <1>2, <1>3, <1>6 DEF Prepared, Client
<1> HIDE DEF s
<1>8. QED
  BY <1>1, <1>7, FirstCallsAreQuiet DEF Step, Kinds

LEMMA StopsAreQuiet ==
    ASSUME NEW c \in Clients, GoodClient(client[c]), untold \in [Clients -> Nat],
           NEW pc \in {"ready", "over"},
           client' = [client EXCEPT ![c] = [client[c] EXCEPT !.pc = pc, !.answer = NoAnswer]],
           wire' = wire, UNCHANGED Episodic, untold' \in [Clients -> Nat],
           \A d \in Clients \ {c} : untold'[d] = untold[d],
           untold[c] + Owed(client[c]) <= untold'[c]
    PROVE  QuietStep(c)
<1> DEFINE s == [client[c] EXCEPT !.pc = pc, !.answer = NoAnswer]
<1>1. Quiet(client[c], s)
  BY StopsQuietly
<1>2. s.pc = pc
  BY DEF GoodClient, Client
<1> HIDE DEF s
<1>3. Owed(s) = 0
  BY <1>2 DEF Owed, Expects
<1>4. untold[c] + Owed(client[c]) + 0 <= untold'[c] + Owed(s)
  <2>1. untold[c] \in Nat /\ untold'[c] \in Nat /\ Owed(client[c]) \in Nat
    BY OwedIsNat
  <2>2. QED
    BY <1>3, <2>1
<1>5. Accounted(c, s, 0)
  BY <1>4 DEF Accounted
<1>6. client' = [client EXCEPT ![c] = s]
  BY DEF s
<1>7. QED
  BY <1>1, <1>5, <1>6 DEF QuietStep

LEMMA LeaveIsQuiet ==
    ASSUME NEW c \in Clients, GoodClient(client[c]), untold \in [Clients -> Nat],
           Leave(c)
    PROVE  QuietStep(c)
<1>1. client[c].pc = "ready" /\ client[c].answer = NoAnswer /\ client[c] \in Client
  BY DEF Leave, GoodClient
<1>2. Owed(client[c]) = 0
  BY <1>1 DEF Owed, Expects
<1>3. CASE Is(c).closes
  BY <1>1, <1>3, PreparedAsIs, FirstCallsAreQuiet DEF Leave, CloseSession, Kinds
<1>4. CASE ~Is(c).closes
  <2>1. client' = [client EXCEPT ![c].pc = "over"] /\ wire' = wire
    BY <1>4 DEF Leave
  <2>2. [client[c] EXCEPT !.pc = "over"] = [client[c] EXCEPT !.pc = "over", !.answer = NoAnswer]
    BY <1>1 DEF Client
  <2>3. client' = [client EXCEPT ![c] = [client[c] EXCEPT !.pc = "over", !.answer = NoAnswer]]
    BY <2>1, <2>2
  <2>4. UNCHANGED Episodic /\ untold' = untold
    BY DEF Leave, Episodic
  <2>5. untold[c] + Owed(client[c]) <= untold'[c]
    BY <1>2, <2>4
  <2>6. /\ untold' \in [Clients -> Nat]
        /\ \A d \in Clients \ {c} : untold'[d] = untold[d]
    BY <2>4
  <2>7. QED
    BY <2>1, <2>3, <2>4, <2>5, <2>6, StopsAreQuiet
<1>5. QED
  BY <1>3, <1>4

\* The end of a call that raises, when what it may still have done is accounted for.
LEMMA FailsQuietly ==
    ASSUME NEW c \in Clients, GoodClient(client[c]), untold \in [Clients -> Nat],
           client[c].pc = "waiting", Fails(c),
           UNCHANGED Episodic, untold' \in [Clients -> Nat],
           \A d \in Clients \ {c} : untold'[d] = untold[d],
           untold[c] + Owed(client[c]) <= untold'[c]
    PROVE  QuietStep(c)
<1> DEFINE s == [client[c] EXCEPT !.answer = NoAnswer]
           stops == [s EXCEPT !.pc =
                        IF Is(c).fatal \/ s.kind \in {"token", "close"} THEN "over"
                                                                     ELSE "ready"]
<1>1. client[c] \in Client /\ client[c].tries <= client[c].call
  BY DEF GoodClient
<1>2. CASE Is(c).fatal /\ Is(c).closes /\ s.kind = "step"
  <2>1. Calls(c, "close", s)
    BY <1>2 DEF Fails, CloseSession
  <2>2. client[c].tries \in Nat /\ client[c].call \in Nat
    BY <1>1, ClientsAssumption DEF Client
  <2>3. NoAnswer \in Answer \union {NoAnswer}
    OBVIOUS
  <2>4. /\ s \in Client /\ s.answer = NoAnswer /\ s.call = client[c].call
        /\ s.tries = client[c].tries /\ s.episode_id = client[c].episode_id
        /\ s.history = client[c].history
    BY <1>1, <2>3 DEF Client
  <2>5. Prepared(client[c], s)
    BY <1>1, <2>2, <2>4 DEF Prepared
  <2> HIDE DEF s
  <2>6. QED
    BY <2>1, <2>5, CallsAreQuiet DEF Kinds
<1>3. CASE ~(Is(c).fatal /\ Is(c).closes /\ s.kind = "step")
  <2>1. client' = [client EXCEPT ![c] = stops] /\ wire' = wire
    BY <1>3 DEF Fails
  <2>2. PICK pc \in {"ready", "over"} :
            stops = [client[c] EXCEPT !.pc = pc, !.answer = NoAnswer]
    BY <1>1 DEF Client
  <2> HIDE DEF stops, s
  <2>3. client' = [client EXCEPT ![c] = [client[c] EXCEPT !.pc = pc, !.answer = NoAnswer]]
    BY <2>1, <2>2
  <2>4. QED
    BY <2>1, <2>3, StopsAreQuiet
<1>4. QED
  BY <1>2, <1>3

LEMMA RetriesQuietly ==
    ASSUME NEW c \in Clients, GoodClient(client[c]), untold \in [Clients -> Nat],
           client[c].pc = "waiting", RetriesOrFails(c),
           UNCHANGED Episodic, untold' \in [Clients -> Nat],
           \A d \in Clients \ {c} : untold'[d] = untold[d],
           untold[c] + Owed(client[c]) <= untold'[c]
    PROVE  QuietStep(c)
<1>1. CASE client[c].attempt < Is(c).tries
  <2> DEFINE s == [client[c] EXCEPT !.pc = "backoff", !.answer = NoAnswer]
  <2>1. Quiet(client[c], s)
    BY <1>1, PausesQuietly DEF Is
  <2>2. s.pc = "backoff"
    BY DEF GoodClient, Client
  <2>3. wire' = wire /\ client' = [client EXCEPT ![c].pc = "backoff", ![c].answer = NoAnswer]
    BY <1>1 DEF RetriesOrFails
  <2>4. client' = [client EXCEPT ![c] = s]
    BY <2>3
  <2> HIDE DEF s
  <2>5. Owed(s) = 0
    BY <2>2 DEF Owed, Expects
  <2>6. untold[c] \in Nat /\ untold'[c] \in Nat /\ Owed(client[c]) \in Nat
    BY OwedIsNat
  <2>7. Accounted(c, s, 0)
    BY <2>5, <2>6 DEF Accounted
  <2>8. QED
    BY <2>1, <2>3, <2>4, <2>7 DEF QuietStep
<1>2. CASE ~(client[c].attempt < Is(c).tries)
  BY <1>2, FailsQuietly DEF RetriesOrFails
<1>3. QED
  BY <1>1, <1>2

LEMMA ResendIsQuiet ==
    ASSUME NEW c \in Clients, GoodClient(client[c]), untold \in [Clients -> Nat],
           Resend(c)
    PROVE  QuietStep(c)
<1> DEFINE s == [client[c] EXCEPT !.pc = "waiting", !.attempt = @ + 1]
<1>1. client[c].pc = "backoff" /\ client[c] \in Client /\ client[c].answer = NoAnswer
  BY DEF Resend, GoodClient
<1>2. Quiet(client[c], s)
  BY <1>1, ResendsQuietly
<1>3. s.pc = "waiting" /\ s.kind = client[c].kind /\ s.answer = NoAnswer
  BY <1>1 DEF Client
<1>4. Sends(c, s) /\ UNCHANGED Episodic /\ untold' = untold
  BY DEF Resend, Episodic
<1> HIDE DEF s
<1>5. /\ client' = [client EXCEPT ![c] = s]
      /\ \E late \in SUBSET wire : wire' = late \union {Request(c, s)}
  BY <1>4 DEF Sends
<1>6. /\ Owed(client[c]) = 0
      /\ Owed(s) = IF s.kind = "step" THEN 1 ELSE 0
  BY <1>1, <1>3, NoAnswerIsNone DEF Owed, Expects
<1>7. Accounted(c, s, IF s.kind = "step" THEN 1 ELSE 0)
  BY <1>4, <1>6 DEF Accounted
<1>8. QED
  BY <1>2, <1>3, <1>4, <1>5, <1>7 DEF QuietStep

\* An attempt at a step that got no answer is counted.
LEMMA NoReplyIsQuiet ==
    ASSUME NEW c \in Clients, GoodClient(client[c]), untold \in [Clients -> Nat],
           NoReply(c)
    PROVE  QuietStep(c)
<1> DEFINE k == IF client[c].kind = "step" THEN 1 ELSE 0
<1>1. /\ client[c].pc = "waiting" /\ UNCHANGED Episodic
      /\ untold' = [untold EXCEPT ![c] = @ + k]
      /\ RetriesOrFails(c) \/ Fails(c)
  BY DEF NoReply, Episodic
<1>2. k \in Nat /\ Owed(client[c]) <= k
  BY DEF Owed, Expects
<1> HIDE DEF k
<1>3. /\ untold' \in [Clients -> Nat]
      /\ \A d \in Clients \ {c} : untold'[d] = untold[d]
      /\ untold'[c] = untold[c] + k
  BY <1>1, <1>2
<1>4. untold[c] + Owed(client[c]) <= untold'[c]
  BY <1>2, <1>3, OwedIsNat
<1>5. QED
  BY <1>1, <1>3, <1>4, FailsQuietly, RetriesQuietly

\* An answer that is not one of success.  A 500 is counted, as the step may have been
\* carried out; after any other nothing is owed.
LEMMA RefusalIsQuiet ==
    ASSUME NEW c \in Clients, GoodClient(client[c]), untold \in [Clients -> Nat],
           Receive(c), client[c].answer.is # "ok"
    PROVE  QuietStep(c)
<1> DEFINE k == IF client[c].answer.is = "raised" THEN 1 ELSE 0
<1>1. /\ client[c].pc = "waiting" /\ UNCHANGED Episodic
      /\ RetriesOrFails(c) \/ Fails(c)
  BY DEF Receive, Episodic
<1>2. client[c].answer \in Answer
  BY DEF Receive, GoodClient, Client
<1>3. client[c].answer.is # "none"
  BY <1>2 DEF Answer
<1>4. untold' = [untold EXCEPT ![c] = @ + k]
  <2>1. CASE client[c].answer.is = "raised"
    BY <2>1 DEF Receive
  <2>2. CASE client[c].answer.is # "raised"
    <3>1. untold' = untold /\ k = 0
      BY <2>2 DEF Receive
    <3>2. QED
      BY <3>1
  <2>3. QED
    BY <2>1, <2>2
<1>5. k \in Nat /\ Owed(client[c]) <= k
  BY <1>3 DEF Owed, Expects
<1> HIDE DEF k
<1>6. /\ untold' \in [Clients -> Nat]
      /\ \A d \in Clients \ {c} : untold'[d] = untold[d]
      /\ untold'[c] = untold[c] + k
  BY <1>4, <1>5
<1>7. untold[c] + Owed(client[c]) <= untold'[c]
  BY <1>5, <1>6, OwedIsNat
<1>8. QED
  BY <1>1, <1>6, <1>7, FailsQuietly, RetriesQuietly

-----------------------------------------------------------------------------
(* What holds of programs, requests and episodes together                    *)

ClientsInv ==
    /\ client \in [Clients -> Client]
    /\ \A c \in Clients : GoodClient(client[c])

ServerInv ==
    /\ active \in [{"user", "demo"} -> Episodes \union {NoEpisode}]
    /\ executed \in [Episodes -> Nat]
    /\ started \in 0 .. MaxEpisodes
    /\ untold \in [Clients -> Nat]

\* A request is of an earlier call of its program, or of the one it is in.
OfCall(m, r) ==
    /\ m.call <= r.call
    /\ m.call = r.call /\ r.pc \in {"waiting", "backoff"} =>
          m.kind = r.kind /\ (m.kind = "step" => m.episode_id = r.episode_id)

RequestsInv ==
    /\ IsFiniteSet(wire)
    /\ \A m \in wire : m \in Message /\ m.episode_id <= started /\ OfCall(m, client[m.from])

\* An episode is known to one program: the one whose reset started it.
Knows(r, e) == r.episode_id = e \/ (Answered(r, "reset") /\ r.answer.n = e)

OwnersInv ==
    /\ \A c \in Clients : \A e \in Episodes : Knows(client[c], e) => e <= started
    /\ \A c, d \in Clients : \A e \in Episodes :
          Knows(client[c], e) /\ Knows(client[d], e) => c = d

\* Until its program has read of it, nothing is done in an episode.
Fresh(e) == executed[e] = 0 /\ \A m \in wire : m.episode_id # e

FreshInv ==
    /\ \A e \in Episodes : e > started => executed[e] = 0
    /\ \A c \in Clients : Answered(client[c], "reset") =>
          client[c].episode_id # client[c].answer.n /\ Fresh(client[c].answer.n)

\* The results that are read, and the one that is not, against the n steps carried out.
InOrder(r, n) ==
    /\ \A i \in DOMAIN r.history : r.history[i] <= n
    /\ Answered(r, "step") =>
          r.answer.n <= n /\ \A i \in DOMAIN r.history : r.history[i] < r.answer.n

OrderInv ==
    \A c \in Clients : client[c].episode_id # NoEpisode =>
        InOrder(client[c], executed[client[c].episode_id])

\* Each step carried out, and each request that may still be, is a result, an attempt
\* without an answer or the attempt that is waited for.
OnTheWay(W, e) == {m \in W : m.episode_id = e}
Drift(c) ==
    executed[client[c].episode_id] + Cardinality(OnTheWay(wire, client[c].episode_id))
        <= Len(client[c].history) + untold[c] + Owed(client[c])

DriftInv == \A c \in Clients : client[c].episode_id # NoEpisode => Drift(c)

Play == ClientsInv /\ ServerInv /\ RequestsInv /\ OwnersInv /\ FreshInv /\ OrderInv /\ DriftInv

LEMMA EpisodeOfClient ==
    ASSUME NEW r \in Client
    PROVE  /\ r.episode_id \in Nat
           /\ r.episode_id # NoEpisode => r.episode_id \in Episodes
           /\ r.history \in Seq(Nat) /\ Len(r.history) \in Nat
BY ClientsAssumption DEF Client, Episodes, NoEpisode

\* Numbers of requests.
LEMMA FewerOnTheWay ==
    ASSUME NEW W, IsFiniteSet(W), NEW V \in SUBSET W, NEW e
    PROVE  /\ IsFiniteSet(OnTheWay(V, e)) /\ IsFiniteSet(V)
           /\ Cardinality(OnTheWay(V, e)) \in Nat
           /\ Cardinality(OnTheWay(W, e)) \in Nat
           /\ Cardinality(OnTheWay(V, e)) <= Cardinality(OnTheWay(W, e))
<1>1. OnTheWay(V, e) \subseteq OnTheWay(W, e) /\ OnTheWay(W, e) \subseteq W
  BY DEF OnTheWay
<1>2. IsFiniteSet(OnTheWay(W, e)) /\ IsFiniteSet(V)
  BY <1>1, FS_Subset
<1>3. IsFiniteSet(OnTheWay(V, e))
  BY <1>1, <1>2, FS_Subset
<1>4. Cardinality(OnTheWay(V, e)) <= Cardinality(OnTheWay(W, e))
  BY <1>1, <1>2, FS_Subset
<1>5. QED
  BY <1>2, <1>3, <1>4, FS_CardinalityType

LEMMA OneMoreOnTheWay ==
    ASSUME NEW W, IsFiniteSet(W), NEW x, NEW e
    PROVE  /\ IsFiniteSet(W \union {x})
           /\ Cardinality(OnTheWay(W \union {x}, e))
                 <= Cardinality(OnTheWay(W, e)) + IF x.episode_id = e THEN 1 ELSE 0
<1>1. IsFiniteSet(W \union {x})
  BY FS_AddElement
<1>2. IsFiniteSet(OnTheWay(W, e)) /\ Cardinality(OnTheWay(W, e)) \in Nat
  BY FewerOnTheWay
<1>3. CASE x.episode_id = e
  <2> DEFINE O == OnTheWay(W, e)
  <2>1. OnTheWay(W \union {x}, e) = O \union {x}
    BY <1>3 DEF OnTheWay
  <2>2. IsFiniteSet(O) /\ Cardinality(O) \in Nat
    BY <1>2
  <2> HIDE DEF O
  <2>3. \/ Cardinality(O \union {x}) = Cardinality(O)
        \/ Cardinality(O \union {x}) = Cardinality(O) + 1
    BY <2>2, FS_AddElement
  <2>4. Cardinality(O \union {x}) <= Cardinality(O) + 1
    BY <2>2, <2>3
  <2>5. Cardinality(OnTheWay(W \union {x}, e)) <= Cardinality(OnTheWay(W, e)) + 1
    BY <2>1, <2>4 DEF O
  <2>6. QED
    BY <1>1, <1>3, <2>5
<1>4. CASE x.episode_id # e
  <2>1. OnTheWay(W \union {x}, e) = OnTheWay(W, e)
    BY <1>4 DEF OnTheWay
  <2>2. QED
    BY <1>1, <1>2, <1>4, <2>1
<1>5. QED
  BY <1>3, <1>4

LEMMA OneLessOnTheWay ==
    ASSUME NEW W, IsFiniteSet(W), NEW m \in W
    PROVE  Cardinality(OnTheWay(W \ {m}, m.episode_id)) + 1
              = Cardinality(OnTheWay(W, m.episode_id))
<1> DEFINE O == OnTheWay(W, m.episode_id)
<1>1. IsFiniteSet(O) /\ Cardinality(O) \in Nat
  BY FewerOnTheWay
<1>2. m \in O /\ OnTheWay(W \ {m}, m.episode_id) = O \ {m}
  BY DEF OnTheWay
<1> HIDE DEF O
<1>3. Cardinality(O \ {m}) = Cardinality(O) - 1
  BY <1>1, <1>2, FS_RemoveElement
<1>4. Cardinality(O \ {m}) + 1 = Cardinality(O)
  BY <1>1, <1>3
<1>5. QED
  BY <1>2, <1>4 DEF O

-----------------------------------------------------------------------------
(* The steps of a program                                                    *)

LEMMA RequestIsTyped ==
    ASSUME NEW c \in Clients, NEW s, GoodClient(s), s.pc = "waiting"
    PROVE  /\ Request(c, s) \in Message
           /\ Request(c, s).from = c
           /\ Request(c, s).kind = s.kind
           /\ OfCall(Request(c, s), s)
           /\ Request(c, s).episode_id = IF s.kind = "step" THEN s.episode_id ELSE NoEpisode
<1> DEFINE m == Request(c, s)
<1>1. s \in Client /\ s.attempt \in 1 .. Programs[s.program].tries
  BY DEF GoodClient
<1>2. s.program \in DOMAIN Programs /\ s.call \in Nat
  BY <1>1, ClientsAssumption DEF Client
<1>3. s.attempt \in 1 .. MAX_RETRIES
  BY <1>1, <1>2, TriesOfPrograms, ClientsAssumption
<1>4. /\ s.kind \in Kinds /\ s.call \in 0 .. MaxCalls /\ s.key \in Nat /\ s.jwt \in BOOLEAN
      /\ s.episode_id \in Episodes \union {NoEpisode}
  BY <1>1 DEF Client
<1>5. m \in Message
  BY <1>3, <1>4 DEF Request, Message
<1>6. /\ m.from = c /\ m.kind = s.kind /\ m.call = s.call
      /\ m.episode_id = IF s.kind = "step" THEN s.episode_id ELSE NoEpisode
  BY DEF Request
<1> HIDE DEF m
<1>7. OfCall(m, s)
  BY <1>2, <1>6 DEF OfCall
<1>8. QED
  BY <1>5, <1>6, <1>7 DEF m

\* What the quiet step of program c does, its new state and its request named.
Quietly(c, s) ==
    /\ client' = [client EXCEPT ![c] = s]
    /\ Quiet(client[c], s)
    /\ UNCHANGED Episodic
    /\ \/ wire' = wire /\ Accounted(c, s, 0)
       \/ /\ s.pc = "waiting"
          /\ \E late \in SUBSET wire : wire' = late \union {Request(c, s)}
          /\ Accounted(c, s, IF s.kind = "step" THEN 1 ELSE 0)

LEMMA QuietlyChanges ==
    ASSUME ClientsInv, ServerInv, NEW c \in Clients, NEW s, Quietly(c, s)
    PROVE  /\ ClientsInv' /\ ServerInv'
           /\ client'[c] = s /\ \A d \in Clients \ {c} : client'[d] = client[d]
           /\ executed' = executed /\ started' = started
           /\ \A d \in Clients : client'[d].episode_id = client[d].episode_id
                                  /\ client'[d].history = client[d].history
           /\ \A m \in wire' : m \in wire \/ (s.pc = "waiting" /\ m = Request(c, s))
<1>1. client' = [client EXCEPT ![c] = s] /\ GoodClient(s) /\ s \in Client
  BY DEF Quietly, Quiet, GoodClient
<1>2. client'[c] = s /\ \A d \in Clients \ {c} : client'[d] = client[d]
  BY <1>1 DEF ClientsInv
<1>3. ClientsInv'
  BY <1>1, <1>2 DEF ClientsInv
<1>4. UNCHANGED <<active, executed, started>> /\ untold' \in [Clients -> Nat]
  BY DEF Quietly, Episodic, Accounted
<1>5. ServerInv'
  BY <1>4 DEF ServerInv
<1>6. \A d \in Clients : client'[d].episode_id = client[d].episode_id
                          /\ client'[d].history = client[d].history
  BY <1>2 DEF Quietly, Quiet
<1>7. \A m \in wire' : m \in wire \/ (s.pc = "waiting" /\ m = Request(c, s))
  BY DEF Quietly
<1>8. QED
  BY <1>2, <1>3, <1>4, <1>5, <1>6, <1>7

LEMMA QuietlyRequests ==
    ASSUME ClientsInv, ServerInv, RequestsInv, OwnersInv, NEW c \in Clients, NEW s,
           Quietly(c, s)
    PROVE  RequestsInv'
<1>1. /\ client'[c] = s /\ \A d \in Clients \ {c} : client'[d] = client[d]
      /\ started' = started /\ GoodClient(s) /\ Quiet(client[c], s)
      /\ \A m \in wire' : m \in wire \/ (s.pc = "waiting" /\ m = Request(c, s))
  BY QuietlyChanges DEF Quietly, Quiet
<1>2. IsFiniteSet(wire')
  <2>1. CASE wire' = wire
    BY <2>1 DEF RequestsInv
  <2>2. ASSUME NEW late \in SUBSET wire, wire' = late \union {Request(c, s)}
        PROVE  IsFiniteSet(wire')
    BY <2>2, FewerOnTheWay, OneMoreOnTheWay DEF RequestsInv
  <2>3. QED
    BY <2>1, <2>2 DEF Quietly
<1>3. ASSUME NEW m \in wire
      PROVE  m \in Message /\ m.episode_id <= started' /\ OfCall(m, client'[m.from])
  <2>1. m \in Message /\ m.episode_id <= started' /\ OfCall(m, client[m.from])
    BY <1>1 DEF RequestsInv
  <2>2. m.from \in Clients /\ m.call \in Nat
    BY <2>1, ClientsAssumption DEF Message
  <2>3. CASE m.from # c
    BY <1>1, <2>1, <2>2, <2>3
  <2>4. CASE m.from = c
    <3>1. OfCall(m, client[c]) /\ client'[m.from] = s
      BY <1>1, <2>1, <2>4
    <3>2. client[c].call \in Nat /\ s.call \in Nat
      BY <1>1, ClientsAssumption DEF ClientsInv, GoodClient, Client
    <3>3. OfCall(m, s)
      BY <1>1, <2>2, <3>1, <3>2 DEF Quiet, OfCall
    <3>4. QED
      BY <2>1, <3>1, <3>3
  <2>5. QED
    BY <2>3, <2>4
<1>4. ASSUME s.pc = "waiting", NEW m, m = Request(c, s)
      PROVE  m \in Message /\ m.episode_id <= started' /\ OfCall(m, client'[m.from])
  <2>1. /\ m \in Message /\ m.from = c /\ OfCall(m, s)
        /\ m.episode_id = IF s.kind = "step" THEN s.episode_id ELSE NoEpisode
    BY <1>1, <1>4, RequestIsTyped
  <2>2. s.episode_id = client[c].episode_id /\ s \in Client
    BY <1>1 DEF Quiet, GoodClient
  <2>3. s.episode_id # NoEpisode => s.episode_id <= started
    BY <2>2, EpisodeOfClient DEF OwnersInv, Knows
  <2>4. NoEpisode <= started
    BY ClientsAssumption DEF NoEpisode, ServerInv
  <2>5. m.episode_id <= started'
    BY <1>1, <2>1, <2>3, <2>4
  <2>6. QED
    BY <1>1, <2>1, <2>5
<1>5. QED
  BY <1>1, <1>2, <1>3, <1>4 DEF RequestsInv

LEMMA QuietlyAnswered ==
    ASSUME NEW c, NEW s, Quietly(c, s), NEW kind PROVE ~Answered(s, kind)
BY NoAnswerIsNone DEF Quietly, Quiet, Answered

LEMMA QuietlyOwners ==
    ASSUME ClientsInv, ServerInv, OwnersInv, NEW c \in Clients, NEW s, Quietly(c, s)
    PROVE  OwnersInv'
<1>1. /\ client'[c] = s /\ \A d \in Clients \ {c} : client'[d] = client[d]
      /\ started' = started /\ s.episode_id = client[c].episode_id
  BY QuietlyChanges DEF Quietly, Quiet
<1>2. \A d \in Clients : \A e \in Episodes : Knows(client'[d], e) => Knows(client[d], e)
  BY <1>1, QuietlyAnswered DEF Knows
<1>3. QED
  BY <1>1, <1>2 DEF OwnersInv

LEMMA QuietlyFresh ==
    ASSUME ClientsInv, ServerInv, OwnersInv, FreshInv, NEW c \in Clients, NEW s,
           Quietly(c, s)
    PROVE  FreshInv'
<1>1. /\ client'[c] = s /\ \A d \in Clients \ {c} : client'[d] = client[d]
      /\ executed' = executed /\ started' = started /\ GoodClient(s)
      /\ s.episode_id = client[c].episode_id
      /\ \A m \in wire' : m \in wire \/ (s.pc = "waiting" /\ m = Request(c, s))
  BY QuietlyChanges DEF Quietly, Quiet
<1>2. ASSUME NEW d \in Clients, Answered(client'[d], "reset")
      PROVE  /\ client'[d].episode_id # client'[d].answer.n
             /\ executed'[client'[d].answer.n] = 0
             /\ \A m \in wire' : m.episode_id # client'[d].answer.n
  <2> DEFINE n == client[d].answer.n
  <2>1. d # c /\ client'[d] = client[d]
    BY <1>1, <1>2, QuietlyAnswered
  <2>2. Answered(client[d], "reset") /\ n \in Episodes /\ Knows(client[d], n)
    BY <1>2, <2>1 DEF ClientsInv, GoodClient, Knows
  <2>3. client[d].episode_id # n /\ executed[n] = 0 /\ \A m \in wire : m.episode_id # n
    BY <2>2 DEF FreshInv, Fresh
  <2> HIDE DEF n
  <2>4. s.episode_id # n
    BY <1>1, <2>1, <2>2 DEF OwnersInv, Knows
  <2>5. NoEpisode # n
    BY <2>2, ClientsAssumption DEF NoEpisode, Episodes
  <2>6. \A m \in wire' : m.episode_id # n
    <3>1. ASSUME s.pc = "waiting" PROVE Request(c, s).episode_id # n
      BY <1>1, <2>4, <2>5, <3>1, RequestIsTyped
    <3>2. QED
      BY <1>1, <2>3, <3>1
  <2>7. QED
    BY <1>1, <2>1, <2>3, <2>6 DEF n
<1>3. QED
  BY <1>1, <1>2 DEF FreshInv, Fresh

LEMMA QuietlyOrder ==
    ASSUME ClientsInv, ServerInv, OrderInv, NEW c \in Clients, NEW s, Quietly(c, s)
    PROVE  OrderInv'
<1>1. /\ client'[c] = s /\ \A d \in Clients \ {c} : client'[d] = client[d]
      /\ executed' = executed
      /\ s.episode_id = client[c].episode_id /\ s.history = client[c].history
  BY QuietlyChanges DEF Quietly, Quiet
<1>2. ASSUME NEW n, InOrder(client[c], n) PROVE InOrder(s, n)
  BY <1>1, <1>2, QuietlyAnswered DEF InOrder
<1>3. ASSUME NEW d \in Clients, client'[d].episode_id # NoEpisode
      PROVE  InOrder(client'[d], executed'[client'[d].episode_id])
  BY <1>1, <1>2, <1>3 DEF OrderInv
<1>4. QED
  BY <1>3 DEF OrderInv

\* A request for a step is sent only as an attempt that is accounted for.
LEMMA QuietlyDrift ==
    ASSUME ClientsInv, ServerInv, RequestsInv, OwnersInv, DriftInv, NEW c \in Clients,
           NEW s, Quietly(c, s)
    PROVE  DriftInv'
<1>1. /\ client'[c] = s /\ \A d \in Clients \ {c} : client'[d] = client[d]
      /\ executed' = executed /\ GoodClient(s) /\ ServerInv'
      /\ s.episode_id = client[c].episode_id /\ s.history = client[c].history
  BY QuietlyChanges DEF Quietly, Quiet
<1> SUFFICES ASSUME NEW d \in Clients, client'[d].episode_id # NoEpisode PROVE Drift(d)'
  BY DEF DriftInv
<1> DEFINE e == client[d].episode_id
           more == Cardinality(OnTheWay(wire', e))
           had == Cardinality(OnTheWay(wire, e))
<1>2. client'[d].episode_id = e /\ client'[d].history = client[d].history
  BY <1>1
<1>3. client[d] \in Client /\ e # NoEpisode /\ e \in Episodes
  BY <1>2, EpisodeOfClient DEF ClientsInv
<1>4. executed[e] + had <= Len(client[d].history) + untold[d] + Owed(client[d])
  BY <1>2 DEF DriftInv, Drift
<1>5. IsFiniteSet(wire)
  BY DEF RequestsInv
<1>6. /\ executed[e] \in Nat /\ Len(client[d].history) \in Nat
      /\ untold[d] \in Nat /\ untold'[d] \in Nat
      /\ Owed(client[d]) \in Nat
  <2>1. executed[e] \in Nat /\ untold[d] \in Nat /\ untold'[d] \in Nat
    BY <1>1, <1>3 DEF ServerInv
  <2>2. Len(client[d].history) \in Nat
    BY <1>3, EpisodeOfClient
  <2>3. Owed(client[d]) \in Nat
    BY OwedIsNat
  <2>4. QED
    BY <2>1, <2>2, <2>3
<1>7. had \in Nat
  BY <1>5, FewerOnTheWay
<1>8. /\ s.pc = "waiting" =>
            Request(c, s).episode_id = IF s.kind = "step" THEN s.episode_id ELSE NoEpisode
      /\ s.kind = "step" /\ s.episode_id = e => d = c
  <2>1. s.pc = "waiting" =>
            Request(c, s).episode_id = IF s.kind = "step" THEN s.episode_id ELSE NoEpisode
    BY <1>1, RequestIsTyped
  <2>2. s.episode_id = e => d = c
    BY <1>1, <1>3 DEF OwnersInv, Knows
  <2>3. QED
    BY <2>1, <2>2
<1>9. more \in Nat /\ more <= had + IF d = c /\ wire' # wire /\ s.kind = "step" THEN 1 ELSE 0
  <2>1. CASE wire' = wire
    BY <1>7, <2>1
  <2>2. ASSUME NEW late \in SUBSET wire, wire' = late \union {Request(c, s)},
               s.pc = "waiting", wire' # wire
        PROVE  /\ more \in Nat
               /\ more <= had + IF d = c /\ wire' # wire /\ s.kind = "step" THEN 1 ELSE 0
    <3> DEFINE k == IF Request(c, s).episode_id = e THEN 1 ELSE 0
               left == Cardinality(OnTheWay(late, e))
    <3>1. IsFiniteSet(late) /\ left \in Nat /\ left <= had
      BY <1>5, FewerOnTheWay
    <3>2. IsFiniteSet(wire') /\ more <= left + k
      BY <2>2, <3>1, OneMoreOnTheWay
    <3>3. more \in Nat
      BY <3>2, FewerOnTheWay
    <3>4. k = 1 => d = c /\ s.kind = "step"
      BY <1>3, <1>8, <2>2
    <3>5. k = 0 \/ k = 1
      OBVIOUS
    <3> HIDE DEF k, left, more, had
    <3>6. QED
      BY <1>7, <2>2, <3>1, <3>2, <3>3, <3>4, <3>5
  <2>3. QED
    BY <2>1, <2>2 DEF Quietly
<1>10. CASE d # c
  <2>1. untold'[d] = untold[d] /\ client'[d] = client[d]
    BY <1>1, <1>10 DEF Quietly, Accounted
  <2>2. more <= had
    BY <1>7, <1>9, <1>10
  <2> HIDE DEF more, had
  <2>3. executed[e] + more <= Len(client[d].history) + untold[d] + Owed(client[d])
    BY <1>4, <1>6, <1>7, <1>9, <2>2
  <2>4. QED
    BY <1>1, <1>2, <2>1, <2>3 DEF Drift, more
<1>11. CASE d = c
  <2> DEFINE k == IF wire' # wire /\ s.kind = "step" THEN 1 ELSE 0
  <2>1. k \in Nat /\ more <= had + k
    BY <1>9, <1>11
  <2>2. untold[d] + Owed(client[d]) + k <= untold'[d] + Owed(s)
    <3>1. CASE Accounted(c, s, 0) /\ wire' = wire
      BY <1>11, <3>1 DEF Accounted
    <3>2. CASE Accounted(c, s, IF s.kind = "step" THEN 1 ELSE 0)
      <4>1. untold[d] + Owed(client[d]) + (IF s.kind = "step" THEN 1 ELSE 0)
               <= untold'[d] + Owed(s)
        BY <1>11, <3>2 DEF Accounted
      <4>2. k <= IF s.kind = "step" THEN 1 ELSE 0
        OBVIOUS
      <4>3. Owed(s) \in Nat
        BY OwedIsNat
      <4> HIDE DEF k
      <4>4. QED
        BY <1>6, <2>1, <4>1, <4>2, <4>3
    <3>3. QED
      BY <3>1, <3>2 DEF Quietly
  <2>3. client'[d] = s /\ Owed(s) \in Nat
    BY <1>1, <1>11, OwedIsNat
  <2>4. more \in Nat
    BY <1>9
  <2>5. executed[e] + more <= Len(client[d].history) + untold'[d] + Owed(s)
    <3> DEFINE ex == executed[e]
               len == Len(client[d].history)
               u == untold[d] + Owed(client[d])
               v == untold'[d] + Owed(s)
    <3>1. {ex, len, u, v, had, more, k} \subseteq Nat
      BY <1>6, <1>7, <2>1, <2>3, <2>4
    <3>2. ex + had <= len + u /\ more <= had + k /\ u + k <= v
      BY <1>4, <1>6, <2>1, <2>2
    <3> HIDE DEF k, more, had, ex, len, u, v
    <3>3. ex + more <= len + v
      BY <3>1, <3>2
    <3> USE DEF ex, len, v
    <3>4. QED
      BY <1>6, <2>3, <3>3
  <2>6. QED
    BY <1>1, <1>2, <2>3, <2>5 DEF Drift, more
<1>12. QED
  BY <1>10, <1>11

LEMMA QuietStepKeeps ==
    ASSUME Play, NEW c \in Clients, QuietStep(c) PROVE Play'
<1>1. PICK s : Quietly(c, s)
  BY DEF QuietStep, Quietly
<1>2. QED
  BY <1>1, QuietlyChanges, QuietlyRequests, QuietlyOwners, QuietlyFresh, QuietlyOrder,
     QuietlyDrift DEF Play

-----------------------------------------------------------------------------
(* An answer of success is read                                              *)

\* What a program does with it, the new state s named.
Reads(c, s) ==
    /\ client[c].pc = "waiting" /\ client[c].answer.is = "ok"
    /\ client' = [client EXCEPT ![c] = s]
    /\ s = Applied(client[c])
    /\ wire' = wire /\ UNCHANGED Episodic
    /\ untold' = IF client[c].kind = "reset" THEN [untold EXCEPT ![c] = 0]
                                                  ELSE untold

LEMMA ReceiveReads ==
    ASSUME NEW c \in Clients, Receive(c), client[c].answer.is = "ok"
    PROVE  Reads(c, Applied(client[c]))
BY DEF Receive, Reads, Episodic

LEMMA OkIsAnAnswer ==
    ASSUME NEW r, GoodClient(r), r.answer.is = "ok"
    PROVE  r \in Client /\ r.answer \in Answer /\ r.answer.n \in Nat /\ r.answer.done \in BOOLEAN
           /\ r.call \in Nat /\ r.tries \in Nat
BY NoAnswerIsNone, ClientsAssumption DEF GoodClient, Client, Answer

\* A token, and the answer to a close, are read quietly.
LEMMA ReadsTokenQuietly ==
    ASSUME NEW c \in Clients, GoodClient(client[c]), untold \in [Clients -> Nat],
           NEW s, Reads(c, s), client[c].kind \in {"token", "close"}
    PROVE  QuietStep(c)
<1> DEFINE r == client[c]
<1>1. r \in Client /\ r.call \in Nat /\ untold' = untold
  BY OkIsAnAnswer DEF Reads
<1>2. PICK pc \in {"ready", "over"} :
        /\ s \in Client /\ s.pc = pc /\ s.answer = NoAnswer
        /\ s.kind = r.kind /\ s.call = r.call
        /\ s.tries = r.tries /\ s.program = r.program
        /\ s.episode_id = r.episode_id /\ s.history = r.history
  <2>1. CASE r.kind = "token"
    <3>1. s = [[r EXCEPT !.answer = NoAnswer, !.pc = "ready"] EXCEPT !.jwt = TRUE]
      BY <2>1 DEF Reads, Applied
    <3>2. QED
      BY <1>1, <3>1 DEF Client
  <2>2. CASE r.kind = "close"
    <3>1. s = [[r EXCEPT !.answer = NoAnswer, !.pc = "ready"] EXCEPT !.pc = "over"]
      BY <2>2 DEF Reads, Applied
    <3>2. QED
      BY <1>1, <3>1 DEF Client
  <2>3. QED
    BY <2>1, <2>2
<1>3. ~Answered(s, "step") /\ ~Answered(s, "reset") /\ s.pc \notin {"waiting", "backoff"}
  BY <1>2 DEF Answered
<1>4. GoodClient(s)
  BY <1>2, <1>3 DEF GoodClient
<1>5. Quiet(r, s)
  BY <1>1, <1>2, <1>3, <1>4 DEF Quiet
<1>6. Owed(r) = 0 /\ Owed(s) = 0
  BY <1>2, <1>3 DEF Owed, Expects
<1>7. Accounted(c, s, 0)
  BY <1>1, <1>6 DEF Accounted
<1>8. client' = [client EXCEPT ![c] = s] /\ wire' = wire /\ UNCHANGED Episodic
  BY DEF Reads
<1>9. QED
  BY <1>5, <1>7, <1>8 DEF QuietStep

LEMMA ReadsReset ==
    ASSUME NEW r, GoodClient(r), Answered(r, "reset"), NEW s, s = Applied(r)
    PROVE  /\ s \in Client /\ s.pc = "ready" /\ s.answer = NoAnswer /\ s.call = r.call
           /\ s.episode_id = r.answer.n /\ s.history = <<>>
           /\ GoodClient(s)
<1>1. /\ r \in Client /\ r.answer.n \in Episodes /\ r.call \in Nat
      /\ r.pc = "waiting" /\ r.kind = "reset"
  BY OkIsAnAnswer DEF GoodClient, Answered
<1>2. s = [[r EXCEPT !.answer = NoAnswer, !.pc = "ready"] EXCEPT
              !.episode_id = r.answer.n, !.tries = 0, !.history = <<>>, !.done = FALSE]
  BY <1>1 DEF Applied
<1>3. /\ s \in Client /\ s.pc = "ready" /\ s.answer = NoAnswer /\ s.call = r.call
      /\ s.episode_id = r.answer.n /\ s.history = <<>> /\ s.tries = 0
  <2>1. 0 \in 0 .. MaxCalls /\ <<>> \in Seq(Nat) /\ NoAnswer \in Answer \union {NoAnswer}
    BY ClientsAssumption
  <2>2. r.answer.n \in Episodes \union {NoEpisode}
    BY <1>1
  <2>3. QED
    BY <1>1, <1>2, <2>1, <2>2 DEF Client
<1>4. ~Answered(s, "step") /\ ~Answered(s, "reset")
  BY <1>3 DEF Answered
<1>5. GoodClient(s)
  BY <1>1, <1>3, <1>4 DEF GoodClient
<1>6. QED
  BY <1>3, <1>5

LEMMA ReadsStep ==
    ASSUME NEW r, GoodClient(r), Answered(r, "step"), NEW n, InOrder(r, n), n \in Nat,
           NEW s, s = Applied(r)
    PROVE  /\ s \in Client /\ s.pc = "ready" /\ s.answer = NoAnswer /\ s.call = r.call
           /\ s.episode_id = r.episode_id /\ Len(s.history) = Len(r.history) + 1
           /\ GoodClient(s) /\ InOrder(s, n)
<1> DEFINE x == r.answer.n
           h == Append(r.history, x)
<1>1. /\ r \in Client /\ x \in Nat /\ r.answer.done \in BOOLEAN /\ r.call \in Nat
      /\ r.pc = "waiting" /\ r.kind = "step" /\ r.tries <= r.call
      /\ r.episode_id # NoEpisode
  BY OkIsAnAnswer DEF GoodClient, Answered
<1>2. /\ r.history \in Seq(Nat) /\ h \in Seq(Nat) /\ Len(h) = Len(r.history) + 1
      /\ Len(r.history) \in Nat
      /\ DOMAIN h = 1 .. Len(r.history) + 1 /\ DOMAIN r.history = 1 .. Len(r.history)
      /\ h[Len(r.history) + 1] = x
      /\ \A i \in DOMAIN r.history : h[i] = r.history[i]
  BY <1>1, EpisodeOfClient
<1>3. s = [[r EXCEPT !.answer = NoAnswer, !.pc = "ready"] EXCEPT
              !.history = Append(@, r.answer.n), !.done = r.answer.done]
  BY <1>1 DEF Applied
<1>4. /\ s \in Client /\ s.pc = "ready" /\ s.answer = NoAnswer /\ s.call = r.call
      /\ s.episode_id = r.episode_id /\ s.history = h /\ s.tries = r.tries
  BY <1>1, <1>2, <1>3 DEF Client
<1>5. /\ \A i, j \in DOMAIN r.history : i < j => r.history[i] < r.history[j]
      /\ \A i \in DOMAIN r.history : r.history[i] < x /\ r.history[i] \in Nat
      /\ x <= n
  BY <1>1, <1>2 DEF GoodClient, InOrder
<1> DEFINE last == Len(r.history) + 1
<1> HIDE DEF h, x
<1>6. \A i \in DOMAIN h : i \in DOMAIN r.history \/ i = last
  BY <1>2
<1>7. \A i, j \in DOMAIN h : i < j => h[i] < h[j]
  <2> SUFFICES ASSUME NEW i \in DOMAIN h, NEW j \in DOMAIN h, i < j PROVE h[i] < h[j]
    OBVIOUS
  <2>1. i \in DOMAIN r.history
    BY <1>2
  <2>2. CASE j \in DOMAIN r.history
    BY <1>2, <1>5, <2>1, <2>2
  <2>3. CASE j = last
    BY <1>2, <1>5, <2>1, <2>3
  <2>4. QED
    BY <1>6, <2>2, <2>3
<1>8. \A i \in DOMAIN h : h[i] <= n
  <2> SUFFICES ASSUME NEW i \in DOMAIN h PROVE h[i] <= n
    OBVIOUS
  <2>1. CASE i \in DOMAIN r.history
    <3>1. h[i] = r.history[i] /\ r.history[i] < x /\ r.history[i] \in Nat
      BY <1>2, <1>5, <2>1
    <3>2. x \in Nat /\ x <= n
      BY <1>1, <1>5 DEF x
    <3>3. QED
      BY <3>1, <3>2
  <2>2. CASE i = last
    BY <1>2, <1>5, <2>2
  <2>3. QED
    BY <1>6, <2>1, <2>2
<1>9. ~Answered(s, "step") /\ ~Answered(s, "reset")
  BY <1>4 DEF Answered
<1>10. GoodClient(s)
  BY <1>1, <1>4, <1>7, <1>9 DEF GoodClient
<1>11. InOrder(s, n)
  BY <1>4, <1>8, <1>9 DEF InOrder
<1>12. QED
  BY <1>2, <1>4, <1>10, <1>11

\* Reading the answer to a reset or to a step.
LEMMA ReadsChanges ==
    ASSUME Play, NEW c \in Clients, NEW s, Reads(c, s),
           client[c].kind \in {"reset", "step"}
    PROVE  /\ ClientsInv' /\ ServerInv'
           /\ client'[c] = s /\ \A d \in Clients \ {c} : client'[d] = client[d]
           /\ UNCHANGED <<executed, started, wire>>
           /\ s.pc = "ready" /\ s.call = client[c].call
           /\ s.episode_id = IF client[c].kind = "reset" THEN client[c].answer.n
                                                        ELSE client[c].episode_id
<1>1. /\ GoodClient(client[c]) /\ client[c].pc = "waiting" /\ client[c].answer.is = "ok"
      /\ client' = [client EXCEPT ![c] = s] /\ s = Applied(client[c])
      /\ UNCHANGED <<active, executed, started, wire>>
  BY DEF Play, ClientsInv, Reads, Episodic
<1>2. /\ s \in Client /\ GoodClient(s) /\ s.pc = "ready" /\ s.call = client[c].call
      /\ s.episode_id = IF client[c].kind = "reset" THEN client[c].answer.n
                                                   ELSE client[c].episode_id
  <2>1. CASE client[c].kind = "reset"
    BY <1>1, <2>1, ReadsReset DEF Answered
  <2>2. CASE client[c].kind = "step"
    <3>1. Answered(client[c], "step") /\ client[c].episode_id # NoEpisode
      BY <1>1, <2>2 DEF GoodClient, Answered
    <3>2. client[c].episode_id \in Episodes
      BY <1>1, <3>1, EpisodeOfClient DEF GoodClient
    <3>3. /\ InOrder(client[c], executed[client[c].episode_id])
          /\ executed[client[c].episode_id] \in Nat
      BY <3>1, <3>2 DEF Play, OrderInv, ServerInv
    <3>4. QED
      BY <1>1, <2>2, <3>1, <3>3, ReadsStep
  <2>3. QED
    BY <2>1, <2>2
<1>3. client'[c] = s /\ \A d \in Clients \ {c} : client'[d] = client[d]
  BY <1>1 DEF Play, ClientsInv
<1>4. ClientsInv'
  BY <1>1, <1>2, <1>3 DEF Play, ClientsInv
<1>5. ServerInv'
  <2>1. untold' \in [Clients -> Nat]
    BY DEF Reads, Play, ServerInv
  <2>2. QED
    BY <1>1, <2>1 DEF Play, ServerInv
<1>6. QED
  BY <1>1, <1>2, <1>3, <1>4, <1>5

LEMMA ReadsKeeps ==
    ASSUME Play, NEW c \in Clients, NEW s, Reads(c, s),
           client[c].kind \in {"reset", "step"}
    PROVE  Play'
<1> DEFINE r == client[c]
           e == s.episode_id
<1>1. /\ ClientsInv' /\ ServerInv'
      /\ client'[c] = s /\ \A d \in Clients \ {c} : client'[d] = client[d]
      /\ UNCHANGED <<executed, started, wire>>
      /\ s.pc = "ready" /\ s.call = r.call
      /\ e = IF r.kind = "reset" THEN r.answer.n ELSE r.episode_id
  BY ReadsChanges
<1>2. /\ GoodClient(r) /\ r \in Client /\ r.pc = "waiting" /\ r.answer.is = "ok"
      /\ s = Applied(r)
  BY DEF Play, ClientsInv, GoodClient, Reads
<1>3. \A kind : ~Answered(s, kind)
  BY <1>1 DEF Answered
<1>4. /\ ClientsInv /\ ServerInv /\ RequestsInv /\ OwnersInv /\ FreshInv /\ OrderInv /\ DriftInv
  BY DEF Play
<1>5. RequestsInv'
  <2>1. ASSUME NEW m \in wire PROVE m \in Message /\ m.episode_id <= started /\ OfCall(m, client'[m.from])
    <3>1. m \in Message /\ m.episode_id <= started /\ OfCall(m, client[m.from])
      BY <1>4 DEF RequestsInv
    <3>2. m.from \in Clients
      BY <3>1 DEF Message
    <3>3. OfCall(m, r) => OfCall(m, s)
      BY <1>1 DEF OfCall
    <3>4. QED
      BY <1>1, <3>1, <3>2, <3>3
  <2>2. QED
    BY <1>1, <1>4, <2>1 DEF RequestsInv
<1>6. OwnersInv'
  <2>1. \A f \in Episodes : Knows(s, f) => Knows(r, f)
    <3>1. \A f : Knows(s, f) => f = e
      BY <1>3 DEF Knows
    <3>2. Knows(r, e)
      BY <1>1, <1>2 DEF Knows, Answered, Reads
    <3>3. QED
      BY <3>1, <3>2
  <2>2. \A d \in Clients : \A f \in Episodes : Knows(client'[d], f) => Knows(client[d], f)
    BY <1>1, <2>1
  <2>3. QED
    BY <1>1, <1>4, <2>2 DEF OwnersInv
<1>7. FreshInv'
  BY <1>1, <1>3, <1>4 DEF FreshInv, Fresh
<1>8. CASE r.kind = "reset"
  <2>1. Answered(r, "reset") /\ r.answer.n \in Episodes
    BY <1>2, <1>8 DEF Answered, GoodClient
  <2>2. s.history = <<>> /\ e \in Episodes
    BY <1>1, <1>2, <1>8, <2>1, ReadsReset
  <2>3. executed[e] = 0 /\ \A m \in wire : m.episode_id # e
    BY <1>1, <1>4, <1>8, <2>1 DEF FreshInv, Fresh
  <2>4. OrderInv'
    <3>1. InOrder(s, executed[e])
      BY <1>3, <2>2 DEF InOrder
    <3>2. QED
      BY <1>1, <1>4, <3>1 DEF OrderInv
  <2>5. DriftInv'
    <3>1. untold' = [untold EXCEPT ![c] = 0]
      BY <1>8 DEF Reads
    <3>2. untold'[c] = 0 /\ \A d \in Clients \ {c} : untold'[d] = untold[d]
      BY <1>4, <3>1 DEF ServerInv
    <3>3. OnTheWay(wire, e) = {}
      BY <2>3 DEF OnTheWay
    <3>4. Cardinality(OnTheWay(wire, e)) = 0
      BY <3>3, FS_EmptySet
    <3>5. Owed(s) = 0 /\ Len(s.history) = 0
      BY <1>1, <2>2 DEF Owed, Expects
    <3>6. Drift(c)'
      BY <1>1, <2>3, <3>2, <3>4, <3>5 DEF Drift
    <3>7. \A d \in Clients \ {c} : Drift(d) => Drift(d)'
      BY <1>1, <3>2 DEF Drift
    <3>8. QED
      BY <1>1, <1>4, <3>6, <3>7 DEF DriftInv
  <2>6. QED
    BY <1>1, <1>5, <1>6, <1>7, <2>4, <2>5 DEF Play
<1>9. CASE r.kind = "step"
  <2>1. Answered(r, "step") /\ r.episode_id # NoEpisode /\ e = r.episode_id
    BY <1>1, <1>2, <1>9 DEF Answered, GoodClient
  <2>2. e \in Episodes /\ executed[e] \in Nat
    BY <1>2, <1>4, <2>1, EpisodeOfClient DEF ServerInv
  <2>3. InOrder(r, executed[e])
    BY <1>4, <2>1 DEF OrderInv
  <2>4. InOrder(s, executed[e]) /\ Len(s.history) = Len(r.history) + 1
    BY <1>2, <2>1, <2>2, <2>3, ReadsStep
  <2>5. OrderInv'
    BY <1>1, <1>4, <2>4 DEF OrderInv
  <2>6. DriftInv'
    <3>1. untold' = untold /\ untold[c] \in Nat
      BY <1>4, <1>9 DEF Reads, ServerInv
    <3>2. Owed(s) = 0 /\ Owed(r) = 1
      BY <1>1, <1>2, <1>9 DEF Owed, Expects
    <3>3. Drift(c)
      BY <1>4, <2>1 DEF DriftInv
    <3>4. Len(r.history) \in Nat
      BY <1>2, EpisodeOfClient
    <3>5. Len(s.history) + untold[c] + 0 = Len(r.history) + untold[c] + 1
      BY <2>4, <3>1, <3>4
    <3>6. Drift(c)'
      BY <1>1, <2>1, <3>1, <3>2, <3>3, <3>5 DEF Drift
    <3>7. \A d \in Clients \ {c} : Drift(d) => Drift(d)'
      BY <1>1, <3>1 DEF Drift
    <3>8. QED
      BY <1>1, <1>4, <3>6, <3>7 DEF DriftInv
  <2>7. QED
    BY <1>1, <1>5, <1>6, <1>7, <2>5, <2>6 DEF Play
<1>10. QED
  BY <1>8, <1>9

LEMMA ReceiveKeeps ==
    ASSUME Play, NEW c \in Clients, Receive(c) PROVE Play'
<1>1. /\ GoodClient(client[c]) /\ untold \in [Clients -> Nat]
      /\ client[c].kind \in Kinds
  BY DEF Play, ClientsInv, ServerInv, GoodClient, Client
<1>2. CASE client[c].answer.is # "ok"
  BY <1>1, <1>2, RefusalIsQuiet, QuietStepKeeps
<1>3. CASE client[c].answer.is = "ok"
  <2>1. Reads(c, Applied(client[c]))
    BY <1>3, ReceiveReads
  <2>2. CASE client[c].kind \in {"token", "close"}
    BY <1>1, <2>1, <2>2, ReadsTokenQuietly, QuietStepKeeps
  <2>3. CASE client[c].kind \in {"reset", "step"}
    BY <2>1, <2>3, ReadsKeeps
  <2>4. QED
    BY <1>1, <2>2, <2>3 DEF Kinds
<1>4. QED
  BY <1>2, <1>3

LEMMA ProgramStepPlays ==
    ASSUME Play, NEW c \in Clients, ProgramStep(c) PROVE Play'
<1>1. GoodClient(client[c]) /\ untold \in [Clients -> Nat]
  BY DEF Play, ClientsInv, ServerInv
<1>2. ASSUME \/ \E k \in 0 .. MaxKeys : Start(c, k)
             \/ ResetAgain(c) \/ FallBackToPlain(c) \/ Step(c) \/ Leave(c)
             \/ Resend(c) \/ NoReply(c)
      PROVE  QuietStep(c)
  BY <1>1, <1>2, StartIsQuiet, ResetAgainIsQuiet, FallBackIsQuiet, StepIsQuiet, LeaveIsQuiet,
     ResendIsQuiet, NoReplyIsQuiet
<1>3. QED
  BY <1>2, QuietStepKeeps, ReceiveKeeps DEF ProgramStep

-----------------------------------------------------------------------------
(* The steps of the server                                                   *)

\* What the server does with request m, the answer a named.
Refuses(m, a) ==
    /\ a.is = "ok" => m.kind \in {"token", "close"}
    /\ UNCHANGED <<executed, started>>

Opens(m, a) ==
    /\ m.kind = "reset" /\ a.is = "ok" /\ started < MaxEpisodes
    /\ started' = started + 1 /\ a.n = started + 1
    /\ UNCHANGED executed

\* With the number of the step for an answer, or with a 500.
CarriesOut(m, a) ==
    /\ m.kind = "step" /\ a.is \in {"ok", "raised"} /\ m.episode_id \in Episodes
    /\ executed' = [executed EXCEPT ![m.episode_id] = @ + 1]
    /\ a.is = "ok" => a.n = executed[m.episode_id] + 1
    /\ UNCHANGED started

Handled(m, a) ==
    /\ a \in Answer /\ Answers(m, a)
    /\ active' \in [{"user", "demo"} -> Episodes \union {NoEpisode}]
    /\ untold' = untold
    /\ Refuses(m, a) \/ Opens(m, a) \/ CarriesOut(m, a)

\* The program of request m, when the answer a has reached it or got lost.
Told(m, a, s) ==
    /\ client' = [client EXCEPT ![m.from] = s]
    /\ \/ s = client[m.from]
       \/ /\ client[m.from].pc = "waiting" /\ client[m.from].call = m.call
          /\ s = [client[m.from] EXCEPT !.answer = a]

LEMMA AnswersTell ==
    ASSUME ClientsInv, NEW m, NEW a, Answers(m, a), m.from \in Clients
    PROVE  wire' = wire \ {m} /\ \E s : Told(m, a, s)
<1>1. CASE client' = client
  <2>1. client' = [client EXCEPT ![m.from] = client[m.from]]
    BY <1>1 DEF ClientsInv
  <2>2. Told(m, a, client[m.from])
    BY <2>1 DEF Told
  <2>3. QED
    BY <2>2 DEF Answers
<1>2. CASE client' = [client EXCEPT ![m.from].answer = a] /\ client[m.from].pc = "waiting"
             /\ client[m.from].call = m.call
  <2>1. Told(m, a, [client[m.from] EXCEPT !.answer = a])
    BY <1>2 DEF Told
  <2>2. QED
    BY <2>1 DEF Answers
<1>3. QED
  BY <1>1, <1>2 DEF Answers

LEMMA EpisodesAreNumbers == Episodes \subseteq Nat /\ NoEpisode \notin Episodes
BY ClientsAssumption DEF Episodes, NoEpisode

LEMMA RequestOnTheWay ==
    ASSUME Play, NEW m \in wire
    PROVE  /\ m \in Message /\ m.from \in Clients /\ m.episode_id \in Nat
           /\ m.episode_id <= started /\ OfCall(m, client[m.from])
           /\ client[m.from] \in Client /\ GoodClient(client[m.from])
           /\ started \in Nat
<1>1. m \in Message /\ m.episode_id <= started /\ OfCall(m, client[m.from])
  BY DEF Play, RequestsInv
<1>2. m.from \in Clients /\ m.episode_id \in Episodes \union {NoEpisode}
  BY <1>1 DEF Message
<1>3. m.episode_id \in Nat
  <2>1. NoEpisode \in Nat
    BY DEF NoEpisode
  <2>2. QED
    BY <1>2, <2>1, EpisodesAreNumbers
<1>4. client[m.from] \in Client /\ GoodClient(client[m.from])
  BY <1>2 DEF Play, ClientsInv
<1>5. started \in Nat
  BY ClientsAssumption DEF Play, ServerInv
<1>6. QED
  BY <1>1, <1>2, <1>3, <1>4, <1>5

\* Of the program, only the answer is new; it is one to the request it waits for.
LEMMA ToldFields ==
    ASSUME Play, NEW m \in wire, NEW a \in Answer, NEW s, Told(m, a, s)
    PROVE  LET r == client[m.from] IN
           /\ s \in Client /\ s.pc = r.pc /\ s.kind = r.kind /\ s.call = r.call
           /\ s.attempt = r.attempt /\ s.tries = r.tries /\ s.program = r.program
           /\ s.episode_id = r.episode_id /\ s.history = r.history
           /\ \/ s = r
              \/ /\ s.answer = a /\ s.pc = "waiting" /\ r.kind = m.kind
                 /\ m.kind = "step" => m.episode_id = r.episode_id
           /\ client'[m.from] = s
           /\ \A d \in Clients \ {m.from} : client'[d] = client[d]
<1> DEFINE r == client[m.from]
<1>1. r \in Client /\ m.from \in Clients /\ OfCall(m, r)
  BY RequestOnTheWay
<1>2. client'[m.from] = s /\ \A d \in Clients \ {m.from} : client'[d] = client[d]
  BY <1>1 DEF Told, Play, ClientsInv
<1>3. CASE s = r
  BY <1>1, <1>2, <1>3
<1>4. CASE r.pc = "waiting" /\ r.call = m.call /\ s = [r EXCEPT !.answer = a]
  <2>1. r.kind = m.kind /\ (m.kind = "step" => m.episode_id = r.episode_id)
    BY <1>1, <1>4 DEF OfCall
  <2>2. /\ s \in Client /\ s.pc = r.pc /\ s.kind = r.kind /\ s.call = r.call
        /\ s.attempt = r.attempt /\ s.tries = r.tries /\ s.program = r.program
        /\ s.episode_id = r.episode_id /\ s.history = r.history /\ s.answer = a
    BY <1>1, <1>4 DEF Client
  <2>3. QED
    BY <1>2, <1>4, <2>1, <2>2
<1>5. QED
  BY <1>3, <1>4 DEF Told

LEMMA HandledClients ==
    ASSUME Play, NEW m \in wire, NEW a, Handled(m, a), NEW s, Told(m, a, s)
    PROVE  ClientsInv' /\ GoodClient(s)
<1> DEFINE r == client[m.from]
<1>1. /\ s \in Client /\ s.pc = r.pc /\ s.kind = r.kind /\ s.call = r.call
      /\ s.attempt = r.attempt /\ s.tries = r.tries /\ s.program = r.program
      /\ s.episode_id = r.episode_id /\ s.history = r.history
      /\ \/ s = r
         \/ /\ s.answer = a /\ s.pc = "waiting" /\ r.kind = m.kind
            /\ m.kind = "step" => m.episode_id = r.episode_id
      /\ client'[m.from] = s
      /\ \A d \in Clients \ {m.from} : client'[d] = client[d]
  BY ToldFields DEF Handled
<1>2. GoodClient(r) /\ m.from \in Clients
  BY RequestOnTheWay
<1>3. GoodClient(s)
  <2>1. CASE s = r
    BY <1>2, <2>1
  <2>2. CASE /\ s.answer = a /\ s.pc = "waiting" /\ s.kind = m.kind
             /\ m.kind = "step" => m.episode_id = r.episode_id
    <3>1. Answered(s, "step") => s.episode_id # NoEpisode
      BY <1>1, <2>2, EpisodesAreNumbers
         DEF Answered, Handled, Refuses, Opens, CarriesOut
    <3>2. Answered(s, "reset") => s.answer.n \in Episodes
      <4>1. Answered(s, "reset") => Opens(m, a)
        BY <2>2 DEF Answered, Handled, Refuses, CarriesOut
      <4>2. Opens(m, a) => a.n \in Episodes
        BY ClientsAssumption DEF Opens, Episodes, Play, ServerInv
      <4>3. QED
        BY <2>2, <4>1, <4>2
    <3>3. QED
      BY <1>1, <1>2, <2>2, <3>1, <3>2 DEF GoodClient
  <2>3. QED
    BY <1>1, <2>1, <2>2
<1>4. client' \in [Clients -> Client]
  BY <1>1, <1>2 DEF Told, Play, ClientsInv
<1>5. QED
  BY <1>1, <1>3, <1>4 DEF Play, ClientsInv

LEMMA HandledServer ==
    ASSUME Play, NEW m \in wire, NEW a, Handled(m, a)
    PROVE  /\ ServerInv' /\ started <= started' /\ started' \in Nat
           /\ \A e \in Episodes : executed[e] <= executed'[e]
           /\ \A e \in Episodes : executed'[e] = executed[e] \/ (CarriesOut(m, a) /\ e = m.episode_id)
<1>1. ServerInv /\ started \in Nat /\ MaxEpisodes \in Nat
  BY ClientsAssumption DEF Play, ServerInv
<1>2. active' \in [{"user", "demo"} -> Episodes \union {NoEpisode}] /\ untold' = untold
  BY DEF Handled
<1>3. CASE Refuses(m, a)
  BY <1>1, <1>2, <1>3 DEF Refuses, ServerInv
<1>4. CASE Opens(m, a)
  <2>1. started' \in 0 .. MaxEpisodes /\ executed' = executed /\ started <= started'
    BY <1>1, <1>4 DEF Opens
  <2>2. QED
    BY <1>1, <1>2, <2>1 DEF ServerInv
<1>5. CASE CarriesOut(m, a)
  <2>1. /\ executed' = [executed EXCEPT ![m.episode_id] = @ + 1] /\ started' = started
        /\ m.episode_id \in Episodes
    BY <1>5 DEF CarriesOut
  <2>2. executed' \in [Episodes -> Nat]
    BY <1>1, <2>1 DEF ServerInv
  <2>3. \A e \in Episodes : executed'[e] = IF e = m.episode_id THEN executed[e] + 1 ELSE executed[e]
    BY <1>1, <2>1 DEF ServerInv
  <2>4. \A e \in Episodes : executed[e] \in Nat
    BY <1>1 DEF ServerInv
  <2>5. QED
    BY <1>1, <1>2, <1>5, <2>1, <2>2, <2>3, <2>4 DEF ServerInv
<1>6. QED
  BY <1>3, <1>4, <1>5 DEF Handled

LEMMA HandledRequests ==
    ASSUME Play, NEW m \in wire, NEW a, Handled(m, a), NEW s, Told(m, a, s)
    PROVE  RequestsInv'
<1>1. /\ s.pc = client[m.from].pc /\ s.kind = client[m.from].kind
      /\ s.call = client[m.from].call /\ s.episode_id = client[m.from].episode_id
      /\ client'[m.from] = s /\ \A d \in Clients \ {m.from} : client'[d] = client[d]
  BY ToldFields DEF Handled
<1>2. wire' \subseteq wire /\ IsFiniteSet(wire')
  BY FewerOnTheWay DEF Handled, Answers, Play, RequestsInv
<1>3. ASSUME NEW q \in wire
      PROVE  q \in Message /\ q.episode_id <= started' /\ OfCall(q, client'[q.from])
  <2>1. /\ q \in Message /\ q.from \in Clients /\ q.episode_id <= started
        /\ OfCall(q, client[q.from]) /\ q.episode_id \in Nat /\ started \in Nat
    BY RequestOnTheWay
  <2>2. q.episode_id <= started'
    BY <2>1, HandledServer
  <2>3. OfCall(q, client'[q.from])
    BY <1>1, <2>1 DEF OfCall
  <2>4. QED
    BY <2>1, <2>2, <2>3
<1>4. QED
  BY <1>2, <1>3 DEF RequestsInv

\* What has been answered for the program before, or is answered now.
LEMMA HandledAnswered ==
    ASSUME Play, NEW m \in wire, NEW a, Handled(m, a), NEW s, Told(m, a, s),
           NEW kind, Answered(s, kind)
    PROVE  \/ s = client[m.from]
           \/ s.answer = a /\ m.kind = kind /\ a.is = "ok"
<1>1. /\ s.kind = client[m.from].kind
      /\ \/ s = client[m.from]
         \/ s.answer = a /\ client[m.from].kind = m.kind
  BY ToldFields DEF Handled
<1>2. QED
  BY <1>1 DEF Answered

LEMMA HandledOwners ==
    ASSUME Play, NEW m \in wire, NEW a, Handled(m, a), NEW s, Told(m, a, s)
    PROVE  OwnersInv'
<1> DEFINE c == m.from
<1>1. /\ s.episode_id = client[c].episode_id /\ client'[c] = s
      /\ \A d \in Clients \ {c} : client'[d] = client[d]
  BY ToldFields DEF Handled
<1>2. c \in Clients /\ started \in Nat /\ started <= started' /\ started' \in Nat
  BY RequestOnTheWay, HandledServer
<1>3. OwnersInv
  BY DEF Play
<1>4. ASSUME NEW e \in Episodes, Knows(s, e), ~Knows(client[c], e)
      PROVE  Opens(m, a) /\ e = started + 1 /\ started' = e
  <2>1. Answered(s, "reset") /\ s.answer.n = e
    BY <1>1, <1>4 DEF Knows
  <2>2. s # client[c]
    BY <1>4
  <2>3. s.answer = a /\ m.kind = "reset" /\ a.is = "ok"
    BY <2>1, <2>2, HandledAnswered
  <2>4. Opens(m, a)
    BY <2>3 DEF Handled, Refuses, CarriesOut
  <2>5. QED
    BY <2>1, <2>3, <2>4 DEF Opens
<1> HIDE DEF c
<1>5. ASSUME NEW d \in Clients, NEW e \in Episodes, Knows(client'[d], e) PROVE e <= started'
  <2>1. e \in Nat
    BY EpisodesAreNumbers
  <2>2. CASE Knows(client[d], e)
    BY <1>2, <1>3, <2>1, <2>2 DEF OwnersInv
  <2>3. CASE ~Knows(client[d], e)
    <3>1. d = c
      BY <1>1, <1>5, <2>3
    <3>2. QED
      BY <1>1, <1>2, <1>4, <1>5, <2>1, <2>3, <3>1
  <2>4. QED
    BY <2>2, <2>3
<1>6. ASSUME NEW d \in Clients, NEW f \in Clients, NEW e \in Episodes,
             Knows(client'[d], e), Knows(client'[f], e)
      PROVE  d = f
  <2>1. CASE Knows(client[d], e) /\ Knows(client[f], e)
    BY <1>3, <2>1 DEF OwnersInv
  <2>2. ASSUME NEW x \in Clients, NEW y \in Clients, Knows(client'[x], e),
               Knows(client'[y], e), ~Knows(client[x], e)
        PROVE  x = y
    <3>1. x = c /\ Knows(s, e)
      BY <1>1, <2>2
    <3>2. e = started + 1
      BY <1>4, <2>2, <3>1
    <3>3. ~Knows(client[y], e)
      BY <1>2, <1>3, <3>2 DEF OwnersInv
    <3>4. y = c
      BY <1>1, <2>2, <3>3
    <3>5. QED
      BY <3>1, <3>4
  <2>3. QED
    BY <1>6, <2>1, <2>2
<1>7. QED
  BY <1>5, <1>6 DEF OwnersInv

LEMMA HandledFresh ==
    ASSUME Play, NEW m \in wire, NEW a, Handled(m, a), NEW s, Told(m, a, s)
    PROVE  FreshInv'
<1> DEFINE c == m.from
<1>1. /\ s.episode_id = client[c].episode_id /\ client'[c] = s
      /\ \A d \in Clients \ {c} : client'[d] = client[d]
      /\ wire' \subseteq wire
  BY ToldFields DEF Handled, Answers
<1>2. c \in Clients /\ started \in Nat /\ started <= started' /\ started' \in Nat
  BY RequestOnTheWay, HandledServer
<1>3. OwnersInv /\ FreshInv /\ ClientsInv /\ ServerInv
  BY DEF Play
\* Only a started episode has steps carried out.
<1>4. CarriesOut(m, a) => m.episode_id <= started
  BY RequestOnTheWay
<1>5. ASSUME NEW e \in Episodes, Fresh(e) PROVE executed'[e] = 0 /\ \A q \in wire' : q.episode_id # e
  <2>1. m.episode_id # e /\ executed[e] = 0 /\ \A q \in wire : q.episode_id # e
    BY <1>5 DEF Fresh
  <2>2. QED
    BY <1>1, <2>1, HandledServer
<1>6. ASSUME NEW e \in Episodes, e > started PROVE executed'[e] = 0 /\ Fresh(e)
  <2>1. e \in Nat /\ executed[e] = 0
    BY <1>3, <1>6, EpisodesAreNumbers DEF FreshInv
  <2>2. \A q \in wire : q.episode_id # e
    BY <1>2, <1>6, <2>1, RequestOnTheWay
  <2>3. Fresh(e)
    BY <2>1, <2>2 DEF Fresh
  <2>4. QED
    BY <1>5, <2>3
<1>7. \A e \in Episodes : e > started' => executed'[e] = 0
  BY <1>2, <1>6, EpisodesAreNumbers
<1> HIDE DEF c
<1>8. ASSUME NEW d \in Clients, Answered(client'[d], "reset")
      PROVE  /\ client'[d].episode_id # client'[d].answer.n
             /\ executed'[client'[d].answer.n] = 0
             /\ \A q \in wire' : q.episode_id # client'[d].answer.n
  <2>1. CASE client'[d] = client[d]
    <3> DEFINE n == client[d].answer.n
    <3>1. Answered(client[d], "reset") /\ n \in Episodes
      BY <1>3, <1>8, <2>1 DEF ClientsInv, GoodClient
    <3>2. client[d].episode_id # n /\ Fresh(n)
      BY <1>3, <3>1 DEF FreshInv
    <3>3. QED
      BY <1>5, <2>1, <3>1, <3>2
  <2>2. CASE client'[d] # client[d]
    <3>1. d = c /\ client'[d] = s /\ s # client[c]
      BY <1>1, <2>2
    <3>2. s.answer = a /\ m.kind = "reset" /\ a.is = "ok"
      BY <1>8, <3>1, HandledAnswered DEF c
    <3>3. Opens(m, a)
      BY <3>2 DEF Handled, Refuses, CarriesOut
    <3>4. a.n = started + 1 /\ a.n \in Episodes
      BY <1>2, <1>3, <3>3, ClientsAssumption DEF Opens, Episodes, ServerInv
    <3>5. executed'[a.n] = 0 /\ Fresh(a.n)
      BY <1>2, <1>6, <3>4
    <3>6. client[c].episode_id # a.n
      <4>1. ~Knows(client[c], a.n)
        BY <1>2, <1>3, <3>4 DEF OwnersInv
      <4>2. QED
        BY <4>1 DEF Knows
    <3>7. QED
      BY <1>1, <1>5, <3>1, <3>2, <3>4, <3>5, <3>6
  <2>3. QED
    BY <2>1, <2>2
<1>9. QED
  BY <1>7, <1>8 DEF FreshInv, Fresh

LEMMA HandledOrder ==
    ASSUME Play, NEW m \in wire, NEW a, Handled(m, a), NEW s, Told(m, a, s)
    PROVE  OrderInv'
<1> DEFINE c == m.from
           r == client[c]
<1>1. /\ s \in Client /\ s.episode_id = r.episode_id /\ s.history = r.history
      /\ \/ s = r
         \/ /\ s.answer = a /\ s.pc = "waiting" /\ r.kind = m.kind
            /\ m.kind = "step" => m.episode_id = r.episode_id
      /\ client'[c] = s /\ \A d \in Clients \ {c} : client'[d] = client[d]
  BY ToldFields DEF Handled
<1>2. c \in Clients /\ OrderInv /\ ServerInv /\ ClientsInv
  BY RequestOnTheWay DEF Play
<1>3. ASSUME NEW q \in Client, NEW n \in Nat, NEW k \in Nat, n <= k, InOrder(q, n)
      PROVE  InOrder(q, k)
  <2>1. \A i \in DOMAIN q.history : q.history[i] \in Nat
    BY EpisodeOfClient
  <2>2. Answered(q, "step") => q.answer.n \in Nat
    BY NoAnswerIsNone DEF Answered, Client, Answer
  <2>3. \A i \in DOMAIN q.history : q.history[i] <= k
    BY <1>3, <2>1 DEF InOrder
  <2>4. QED
    BY <1>3, <2>2, <2>3 DEF InOrder
<1>4. ASSUME NEW d \in Clients, client[d].episode_id # NoEpisode
      PROVE  InOrder(client[d], executed'[client[d].episode_id])
  <2> DEFINE e == client[d].episode_id
  <2>1. client[d] \in Client /\ e \in Episodes
    BY <1>2, <1>4, EpisodeOfClient DEF ClientsInv
  <2>2. executed[e] \in Nat /\ executed'[e] \in Nat /\ executed[e] <= executed'[e]
    BY <1>2, <2>1, HandledServer DEF ServerInv
  <2>3. QED
    BY <1>2, <1>3, <1>4, <2>1, <2>2 DEF OrderInv
\* A result that has just been answered is of a later step than those read before.
<1>5. ASSUME s # r, s.episode_id # NoEpisode
      PROVE  InOrder(s, executed'[s.episode_id])
  <2> DEFINE e == s.episode_id
             n == executed'[e]
  <2>1. InOrder(r, n) /\ InOrder(r, executed[e])
    BY <1>1, <1>2, <1>4, <1>5 DEF OrderInv
  <2>2. e \in Episodes /\ executed[e] \in Nat /\ n \in Nat
    BY <1>1, <1>2, <1>5, EpisodeOfClient, HandledServer DEF ServerInv
  <2>3. ASSUME Answered(s, "step")
        PROVE  s.answer.n <= n /\ \A i \in DOMAIN s.history : s.history[i] < s.answer.n
    <3>1. s.answer = a /\ m.kind = "step" /\ a.is = "ok" /\ m.episode_id = e
      BY <1>1, <1>5, <2>3, HandledAnswered
    <3>2. CarriesOut(m, a)
      BY <3>1 DEF Handled, Refuses, Opens
    <3>3. n = executed[e] + 1 /\ a.n = executed[e] + 1
      BY <1>2, <2>2, <3>1, <3>2 DEF CarriesOut, ServerInv
    <3>4. \A i \in DOMAIN s.history : s.history[i] <= executed[e] /\ s.history[i] \in Nat
      BY <1>1, <2>1, EpisodeOfClient DEF InOrder
    <3> HIDE DEF n, e
    <3>5. s.answer.n <= n
      BY <2>2, <3>1, <3>3
    <3>6. \A i \in DOMAIN s.history : s.history[i] < executed[e] + 1
      BY <2>2, <3>4
    <3>7. QED
      BY <3>1, <3>3, <3>5, <3>6
  <2>4. QED
    BY <1>1, <2>1, <2>3 DEF InOrder
<1>6. ASSUME NEW d \in Clients, client'[d].episode_id # NoEpisode
      PROVE  InOrder(client'[d], executed'[client'[d].episode_id])
  <2>1. CASE client'[d] = client[d]
    BY <1>4, <1>6, <2>1
  <2>2. CASE client'[d] # client[d]
    <3>1. d = c /\ client'[d] = s /\ s # r
      BY <1>1, <2>2
    <3>2. QED
      BY <1>5, <1>6, <3>1
  <2>3. QED
    BY <2>1, <2>2
<1>7. QED
  BY <1>6 DEF OrderInv

\* A request that is handled is carried out, or answered, or one nobody waits for.
LEMMA HandledDrift ==
    ASSUME Play, NEW m \in wire, NEW a, Handled(m, a), NEW s, Told(m, a, s)
    PROVE  DriftInv'
<1> DEFINE c == m.from
<1>1. /\ s \in Client /\ s.pc = client[c].pc /\ s.kind = client[c].kind
      /\ s.episode_id = client[c].episode_id /\ s.history = client[c].history
      /\ \/ s = client[c]
         \/ /\ s.answer = a /\ s.pc = "waiting" /\ client[c].kind = m.kind
            /\ m.kind = "step" => m.episode_id = client[c].episode_id
      /\ client'[c] = s /\ \A d \in Clients \ {c} : client'[d] = client[d]
  BY ToldFields DEF Handled
<1>2. /\ DriftInv /\ ServerInv /\ ClientsInv /\ IsFiniteSet(wire)
      /\ wire' = wire \ {m} /\ untold' = untold
  BY DEF Play, RequestsInv, Handled, Answers
<1> SUFFICES ASSUME NEW d \in Clients, client'[d].episode_id # NoEpisode PROVE Drift(d)'
  BY DEF DriftInv
<1> DEFINE e == client[d].episode_id
           more == Cardinality(OnTheWay(wire', e))
           had == Cardinality(OnTheWay(wire, e))
<1>3. client'[d].episode_id = e /\ client'[d].history = client[d].history
  BY <1>1
<1>4. client[d] \in Client /\ e # NoEpisode /\ e \in Episodes
  BY <1>2, <1>3, EpisodeOfClient DEF ClientsInv
<1>5. executed[e] + had <= Len(client[d].history) + untold[d] + Owed(client[d])
  BY <1>2, <1>3 DEF DriftInv, Drift
<1>6. executed[e] \in Nat /\ executed'[e] \in Nat /\ untold[d] \in Nat
  BY <1>2, <1>4, HandledServer DEF ServerInv
<1>7. Len(client[d].history) \in Nat
  BY <1>4, EpisodeOfClient
<1>8. more \in Nat /\ had \in Nat /\ more <= had
  BY <1>2, FewerOnTheWay
<1>9. m.episode_id = e => more + 1 = had
  BY <1>2, OneLessOnTheWay
<1>10. Owed(client[d]) \in 0 .. 1 /\ Owed(client'[d]) \in 0 .. 1
  BY OwedIsNat
\* What is no longer expected has been refused.
<1>11. ASSUME Owed(client[d]) = 1, Owed(client'[d]) = 0
       PROVE  m.episode_id = e /\ executed'[e] = executed[e]
  <2>1. Expects(client[d]) /\ ~Expects(client'[d])
    BY <1>11 DEF Owed
  <2>2. d = c /\ client'[d] = s /\ s # client[d]
    BY <1>1, <2>1
  <2>3. m.kind = "step" /\ m.episode_id = e /\ a.is \notin {"ok", "raised"}
    BY <1>1, <2>1, <2>2 DEF Expects
  <2>4. ~CarriesOut(m, a)
    BY <2>3 DEF CarriesOut
  <2>5. QED
    BY <1>4, <2>3, <2>4, HandledServer
<1>12. executed'[e] = executed[e] \/ (executed'[e] = executed[e] + 1 /\ m.episode_id = e)
  <2>1. CASE CarriesOut(m, a) /\ m.episode_id = e
    BY <1>2, <1>4, <2>1 DEF CarriesOut, ServerInv
  <2>2. CASE ~(CarriesOut(m, a) /\ m.episode_id = e)
    BY <1>4, <2>2, HandledServer
  <2>3. QED
    BY <2>1, <2>2
<1>13. executed'[e] + more <= Len(client[d].history) + untold[d] + Owed(client'[d])
  <2> DEFINE x == executed[e]
             y == executed'[e]
             o == Owed(client[d])
             p == Owed(client'[d])
             u == Len(client[d].history) + untold[d]
  <2>1. {x, y, u, more, had} \subseteq Nat /\ o \in 0 .. 1 /\ p \in 0 .. 1
    BY <1>6, <1>7, <1>8, <1>10
  <2>2. x + had <= u + o
    BY <1>5
  <2>3. \/ y = x /\ more <= had
        \/ y = x + 1 /\ more + 1 = had
    BY <1>8, <1>9, <1>12
  <2>4. o = 1 /\ p = 0 => y = x /\ more + 1 = had
    BY <1>9, <1>11
  <2> HIDE DEF x, y, o, p, u, more, had
  <2>5. y + more <= u + p
    <3>1. CASE o <= p
      BY <2>1, <2>2, <2>3, <3>1
    <3>2. CASE o = 1 /\ p = 0
      BY <2>1, <2>2, <2>4, <3>2
    <3>3. QED
      BY <2>1, <3>1, <3>2
  <2> USE DEF y, p, u
  <2>6. QED
    BY <2>5
<1>14. QED
  BY <1>2, <1>3, <1>13 DEF Drift

LEMMA HandledKeeps ==
    ASSUME Play, NEW m \in wire, NEW a, Handled(m, a) PROVE Play'
<1>1. PICK s : Told(m, a, s)
  BY AnswersTell, RequestOnTheWay DEF Handled, Play
<1>2. QED
  BY <1>1, HandledClients, HandledServer, HandledRequests, HandledOwners, HandledFresh,
     HandledOrder, HandledDrift DEF Play

\* Every step of a handler is one that is handled with some answer.
LEMMA PlainlyIsAnAnswer ==
    ASSUME NEW is \in {"ok", "conflict", "rate_limited", "failed", "raised"}
    PROVE  Plainly(is) \in Answer /\ Plainly(is).is = is
BY DEF Plainly, Answer

LEMMA AccountIsKnown == \A c : Account(c) \in {"user", "demo"}
BY DEF Account

LEMMA PlainAnswersKeep ==
    ASSUME Play, NEW m \in wire, NEW is \in {"ok", "conflict", "rate_limited", "failed"},
           is = "ok" => m.kind \in {"token", "close"},
           Answers(m, Plainly(is)), UNCHANGED <<executed, started, untold>>,
           active' \in [{"user", "demo"} -> Episodes \union {NoEpisode}]
    PROVE  Play'
<1> DEFINE a == Plainly(is)
<1>1. a \in Answer /\ a.is = is
  BY PlainlyIsAnAnswer
<1>2. Answers(m, a)
  OBVIOUS
<1> HIDE DEF a
<1>3. Handled(m, a)
  BY <1>1, <1>2 DEF Handled, Refuses
<1>4. QED
  BY <1>3, HandledKeeps

LEMMA HandleResetPlays ==
    ASSUME Play, NEW m \in wire, HandleReset(m), untold' = untold PROVE Play'
<1> DEFINE a == [is |-> "ok", n |-> started + 1, done |-> FALSE]
<1>1. /\ started \in Nat /\ MaxEpisodes \in Nat
      /\ active \in [{"user", "demo"} -> Episodes \union {NoEpisode}]
  BY ClientsAssumption DEF Play, ServerInv
<1>2. /\ m.kind = "reset" /\ started < MaxEpisodes /\ started' = started + 1
      /\ active' = [active EXCEPT ![Account(m.from)] = started']
      /\ Answers(m, a) /\ executed' = executed
  BY DEF HandleReset
<1>3. started + 1 \in Episodes
  BY <1>1, <1>2 DEF Episodes
<1>4. active' \in [{"user", "demo"} -> Episodes \union {NoEpisode}]
  BY <1>1, <1>2, <1>3, AccountIsKnown
<1>5. a \in Answer /\ a.is = "ok" /\ a.n = started + 1
  BY <1>1 DEF Answer
<1> HIDE DEF a
<1>6. Handled(m, a)
  BY <1>2, <1>4, <1>5 DEF Handled, Opens
<1>7. QED
  BY <1>6, HandledKeeps

LEMMA HandleStepPlays ==
    ASSUME Play, NEW m \in wire, HandleStep(m), untold' = untold PROVE Play'
<1> DEFINE e == active[Account(m.from)]
<1>1. /\ active \in [{"user", "demo"} -> Episodes \union {NoEpisode}]
      /\ executed \in [Episodes -> Nat]
  BY DEF Play, ServerInv
<1>2. /\ m.kind = "step" /\ active' = active /\ started' = started
  BY DEF HandleStep
<1>3. ASSUME e # NoEpisode, e = m.episode_id,
             executed' = [executed EXCEPT ![e] = @ + 1], NEW done \in BOOLEAN,
             Answers(m, [is |-> "ok", n |-> executed'[e], done |-> done])
      PROVE  Play'
  <2> DEFINE a == [is |-> "ok", n |-> executed[m.episode_id] + 1, done |-> done]
  <2>1. m.episode_id \in Episodes
    BY <1>1, <1>3, AccountIsKnown
  <2>2. executed'[e] = executed[m.episode_id] + 1 /\ executed[m.episode_id] \in Nat
    BY <1>1, <1>3, <2>1
  <2>3. Answers(m, a)
    BY <1>3, <2>2
  <2>4. a \in Answer /\ a.is = "ok" /\ a.n = executed[m.episode_id] + 1
    BY <2>2 DEF Answer
  <2> HIDE DEF a
  <2>5. CarriesOut(m, a)
    BY <1>2, <1>3, <2>1, <2>4 DEF CarriesOut
  <2>6. Handled(m, a)
    BY <1>1, <1>2, <2>3, <2>4, <2>5 DEF Handled
  <2>7. QED
    BY <2>6, HandledKeeps
<1>4. ASSUME NEW is \in {"conflict", "failed"}, Answers(m, Plainly(is)), executed' = executed
      PROVE  Play'
  BY <1>1, <1>2, <1>4, PlainAnswersKeep
<1>5. ASSUME e # NoEpisode, e = m.episode_id,
             executed' = [executed EXCEPT ![e] = @ + 1], Answers(m, Plainly("raised"))
      PROVE  Play'
  <2> DEFINE a == Plainly("raised")
  <2>1. m.episode_id \in Episodes
    BY <1>1, <1>5, AccountIsKnown
  <2>2. a \in Answer /\ a.is = "raised" /\ Answers(m, a)
    BY <1>5, PlainlyIsAnAnswer
  <2> HIDE DEF a
  <2>3. CarriesOut(m, a)
    BY <1>2, <1>5, <2>1, <2>2 DEF CarriesOut
  <2>4. Handled(m, a)
    BY <1>1, <1>2, <2>2, <2>3 DEF Handled
  <2>5. QED
    BY <2>4, HandledKeeps
<1>6. QED
  BY <1>3, <1>4, <1>5 DEF HandleStep

LEMMA HandleClosePlays ==
    ASSUME Play, NEW m \in wire, HandleClose(m), untold' = untold PROVE Play'
<1>1. active' \in [{"user", "demo"} -> Episodes \union {NoEpisode}]
  BY AccountIsKnown DEF HandleClose, Play, ServerInv
<1>2. QED
  BY <1>1, PlainAnswersKeep DEF HandleClose

LEMMA AnswersOnlyPlays ==
    ASSUME Play, NEW m \in wire, AnswersOnly(m), untold' = untold PROVE Play'
<1>1. active' \in [{"user", "demo"} -> Episodes \union {NoEpisode}]
  BY DEF AnswersOnly, Play, ServerInv
<1>2. CASE m.kind = "token" /\ Answers(m, Plainly("ok"))
  BY <1>1, <1>2, PlainAnswersKeep DEF AnswersOnly
<1>3. ASSUME NEW is \in {"failed", "rate_limited"}, Answers(m, Plainly(is)) PROVE Play'
  BY <1>1, <1>3, PlainAnswersKeep DEF AnswersOnly
<1>4. QED
  BY <1>2, <1>3 DEF AnswersOnly

LEMMA HandlePlays == ASSUME Play, NEW m \in wire, Handle(m) PROVE Play'
BY HandleResetPlays, HandleStepPlays, HandleClosePlays, AnswersOnlyPlays DEF Handle

\* A request whose key is found is the same request for all that concerns episodes.
LEMMA LookUpPlays == ASSUME Play, NEW m \in wire, LookUp(m) PROVE Play'
<1>1. /\ active' = active /\ executed' = executed /\ started' = started
      /\ untold' = untold
  BY DEF LookUp
<1>2. CASE ~Finds(m.key)
  <2>1. Answers(m, Plainly("failed"))
    BY <1>2 DEF LookUp
  <2>2. active' \in [{"user", "demo"} -> Episodes \union {NoEpisode}]
    BY <1>1 DEF Play, ServerInv
  <2>3. QED
    BY <1>1, <2>1, <2>2, PlainAnswersKeep
<1>3. CASE Finds(m.key)
  <2> DEFINE found == [m EXCEPT !.stage = "found"]
  <2>1. wire' = (wire \ {m}) \union {found} /\ client' = client
    BY <1>3 DEF LookUp
  <2>2. m \in Message /\ m.episode_id <= started /\ OfCall(m, client[m.from])
    BY RequestOnTheWay
  <2>3. /\ found \in Message /\ found.from = m.from /\ found.kind = m.kind
        /\ found.call = m.call /\ found.episode_id = m.episode_id
    BY <2>2 DEF Message
  <2> HIDE DEF found
  <2>4. OfCall(found, client[found.from])
    BY <2>2, <2>3 DEF OfCall
  <2>5. IsFiniteSet(wire) /\ IsFiniteSet(wire \ {m})
    BY FewerOnTheWay DEF Play, RequestsInv
  <2>6. IsFiniteSet(wire')
    BY <2>1, <2>5, OneMoreOnTheWay
  <2>7. RequestsInv'
    BY <1>1, <2>1, <2>2, <2>3, <2>4, <2>6 DEF Play, RequestsInv
  <2>8. FreshInv'
    BY <1>1, <2>1, <2>3 DEF Play, FreshInv, Fresh
  <2>9. ASSUME NEW e
        PROVE  Cardinality(OnTheWay(wire', e)) <= Cardinality(OnTheWay(wire, e))
               /\ Cardinality(OnTheWay(wire', e)) \in Nat
    <3> DEFINE more == Cardinality(OnTheWay(wire', e))
               had == Cardinality(OnTheWay(wire, e))
               less == Cardinality(OnTheWay(wire \ {m}, e))
    <3>1. more \in Nat /\ less \in Nat /\ had \in Nat /\ less <= had
      BY <2>5, <2>6, FewerOnTheWay
    <3>2. more <= less + IF m.episode_id = e THEN 1 ELSE 0
      BY <2>1, <2>3, <2>5, OneMoreOnTheWay
    <3>3. m.episode_id = e => less + 1 = had
      BY <2>5, OneLessOnTheWay
    <3>4. m.episode_id = e => more <= less + 1
      BY <3>2
    <3>5. m.episode_id # e => more <= less
      BY <3>1, <3>2
    <3> HIDE DEF more, had, less
    <3>6. more <= had
      BY <3>1, <3>3, <3>4, <3>5
    <3>7. QED
      BY <3>1, <3>6 DEF more, had
  <2>10. ASSUME NEW d \in Clients, client[d].episode_id # NoEpisode, Drift(d) PROVE Drift(d)'
    <3> DEFINE e == client[d].episode_id
               x == executed[e]
               v == Len(client[d].history) + untold[d] + Owed(client[d])
               more == Cardinality(OnTheWay(wire', e))
               had == Cardinality(OnTheWay(wire, e))
    <3>1. client[d] \in Client /\ e \in Episodes
      BY <2>10, EpisodeOfClient DEF Play, ClientsInv
    <3>2. x \in Nat /\ untold[d] \in Nat /\ Len(client[d].history) \in Nat
      BY <3>1, EpisodeOfClient DEF Play, ServerInv
    <3>3. v \in Nat
      BY <3>2, OwedIsNat
    <3>4. more \in Nat /\ had \in Nat /\ more <= had
      BY <2>5, <2>9, FewerOnTheWay
    <3>5. x + had <= v
      BY <2>10 DEF Drift
    <3> HIDE DEF x, v, more, had
    <3>6. x + more <= v
      BY <3>2, <3>3, <3>4, <3>5
    <3>7. QED
      BY <1>1, <2>1, <3>6 DEF Drift, x, v, more
  <2>11. DriftInv'
    BY <2>1, <2>10 DEF Play, DriftInv
  <2>12. ClientsInv' /\ ServerInv' /\ OwnersInv' /\ OrderInv'
    BY <1>1, <2>1 DEF Play, ClientsInv, ServerInv, OwnersInv, OrderInv
  <2>13. QED
    BY <2>7, <2>8, <2>11, <2>12 DEF Play
<1>4. QED
  BY <1>2, <1>3

LEMMA AccountsPlay == ASSUME Play, UNCHANGED clientVars PROVE Play'
<1>1. UNCHANGED <<client, wire, active, executed, started, untold>>
  BY DEF clientVars
<1>2. ClientsInv' /\ ServerInv' /\ RequestsInv' /\ OwnersInv'
  BY <1>1 DEF Play, ClientsInv, ServerInv, RequestsInv, OwnersInv
<1>3. FreshInv' /\ OrderInv' /\ DriftInv'
  BY <1>1 DEF Play, FreshInv, Fresh, OrderInv, DriftInv, Drift
<1>4. QED
  BY <1>2, <1>3 DEF Play

LEMMA InitPlays == Init => Play
<1> SUFFICES ASSUME Init PROVE Play
  OBVIOUS
<1>1. ASSUME NEW c \in Clients
      PROVE  /\ client[c] \in Client /\ client[c].pc = "out" /\ client[c].answer = NoAnswer
             /\ client[c].episode_id = NoEpisode /\ client[c].history = <<>>
             /\ client[c].tries = 0 /\ client[c].call = 0
  <2>1. PICK p \in Started : client[c] =
            [program |-> p, pc |-> "out", key |-> 0, jwt |-> FALSE, kind |-> "reset",
             call |-> 0, attempt |-> 0, answer |-> NoAnswer, episode_id |-> NoEpisode,
             tries |-> 0, history |-> <<>>, done |-> FALSE]
    BY <1>1 DEF Init
  <2>2. p \in DOMAIN Programs
    BY StartedAssumption
  <2>3. 0 \in 0 .. MaxCalls /\ 0 \in 0 .. MAX_RETRIES /\ <<>> \in Seq(Nat)
    BY ClientsAssumption
  <2>4. QED
    BY <2>1, <2>2, <2>3 DEF Client, Kinds
<1>2. ASSUME NEW c \in Clients PROVE GoodClient(client[c])
  BY <1>1 DEF GoodClient, Answered
<1>3. client \in [Clients -> Client]
  BY <1>1 DEF Init
<1>4. ServerInv
  BY ClientsAssumption DEF Init, ServerInv
<1>5. RequestsInv
  BY FS_EmptySet DEF Init, RequestsInv
<1>6. \A c \in Clients : \A e \in Episodes : ~Knows(client[c], e)
  BY <1>1, EpisodesAreNumbers DEF Knows, Answered
<1>7. OwnersInv
  BY <1>6 DEF OwnersInv
<1>8. FreshInv
  BY <1>1 DEF Init, FreshInv, Answered
<1>9. OrderInv /\ DriftInv
  BY <1>1 DEF OrderInv, DriftInv
<1>10. QED
  BY <1>2, <1>3, <1>4, <1>5, <1>7, <1>8, <1>9 DEF Play, ClientsInv

-----------------------------------------------------------------------------
(* The types of the tables                                                   *)

LEMMA NewKeyTypes ==
    ASSUME AccountsTypeOK, KeysInv, Len(keys) < MaxKeys, NEW u \in Nat,
           keys' = Append(keys, NewKey(u)), u \in DOMAIN users',
           DOMAIN users \subseteq DOMAIN users'
    PROVE  Len(keys') <= MaxKeys /\ \A k \in DOMAIN keys' : keys'[k].owner \in DOMAIN users'
<1>1. NewKey(u) \in APIKey /\ NewKey(u).owner = u
  BY DEF NewKey, APIKey
<1>2. keys \in Seq(APIKey) /\ MaxKeys \in Nat
  BY AccountsAssumption DEF KeysInv
<1>3. /\ Len(keys') = Len(keys) + 1 /\ Len(keys) \in Nat
      /\ DOMAIN keys' = 1 .. (Len(keys) + 1)
      /\ keys'[Len(keys) + 1] = NewKey(u)
      /\ \A k \in DOMAIN keys : keys'[k] = keys[k]
  BY <1>1, <1>2
<1>4. \A k \in DOMAIN keys' : k \in DOMAIN keys \/ k = Len(keys) + 1
  BY <1>2, <1>3
<1>5. \A k \in DOMAIN keys' : keys'[k].owner \in DOMAIN users'
  BY <1>1, <1>3, <1>4 DEF AccountsTypeOK
<1>6. QED
  BY <1>2, <1>3, <1>5

LEMMA AccountsKeepTypes ==
    ASSUME AccountsTypeOK, UsersInv, KeysInv, AccountsNext PROVE AccountsTypeOK'
<1>1. UsersInv' /\ KeysInv'
  BY AccountsKeep
<1>2. users' \in Seq(Emails) /\ keys' \in Seq(APIKey) /\ dead' \subseteq DOMAIN keys'
  BY <1>1 DEF UsersInv, KeysInv
<1>3. MaxRegistrations \in Nat /\ MaxKeys \in Nat
  BY AccountsAssumption
<1>4. ASSUME NEW e \in Emails, Register(e) PROVE AccountsTypeOK'
  <2>1. registering[e] + 1 \in 0 .. MaxRegistrations
    BY <1>3, <1>4 DEF Register, AccountsTypeOK
  <2>2. QED
    BY <1>2, <1>4, <2>1 DEF Register, AccountsTypeOK
<1>5. ASSUME NEW e \in Emails, CreateUser(e) PROVE AccountsTypeOK'
  <2>1. registering[e] \in 0 .. MaxRegistrations /\ registering[e] > 0
    BY <1>5 DEF CreateUser, AccountsTypeOK
  <2>2. registering[e] - 1 \in 0 .. MaxRegistrations
    BY <1>3, <2>1
  <2>3. registering' \in [Emails -> 0 .. MaxRegistrations]
    BY <1>5, <2>2 DEF CreateUser, AccountsTypeOK
  <2>4. CASE Taken(e)
    BY <1>2, <1>5, <2>3, <2>4 DEF CreateUser, AccountsTypeOK
  <2>5. CASE ~Taken(e)
    <3>1. /\ users' = Append(users, e) /\ keys' = Append(keys, NewKey(Len(users')))
          /\ Len(keys) < MaxKeys
      BY <1>5, <2>5 DEF CreateUser
    <3>2. Len(users') \in Nat /\ Len(users') \in DOMAIN users' /\ DOMAIN users \subseteq DOMAIN users'
      BY <3>1 DEF UsersInv
    <3>3. Len(keys') <= MaxKeys /\ \A k \in DOMAIN keys' : keys'[k].owner \in DOMAIN users'
      BY <3>1, <3>2, NewKeyTypes
    <3>4. QED
      BY <1>2, <2>3, <3>3 DEF AccountsTypeOK
  <2>6. QED
    BY <2>4, <2>5
<1>6. ASSUME NEW u \in DOMAIN users, CreateKey(u) PROVE AccountsTypeOK'
  <2>1. /\ keys' = Append(keys, NewKey(u)) /\ Len(keys) < MaxKeys
        /\ users' = users /\ registering' = registering
    BY <1>6 DEF CreateKey
  <2>2. u \in Nat
    BY DEF UsersInv
  <2>3. Len(keys') <= MaxKeys /\ \A k \in DOMAIN keys' : keys'[k].owner \in DOMAIN users'
    BY <2>1, <2>2, NewKeyTypes
  <2>4. QED
    BY <1>2, <2>1, <2>3 DEF AccountsTypeOK
<1>7. ASSUME NEW k \in DOMAIN keys, RevokeKey(k) PROVE AccountsTypeOK'
  <2> DEFINE r == [keys[k] EXCEPT !.revoked = TRUE]
  <2>1. /\ keys' = [keys EXCEPT ![k] = r]
        /\ users' = users /\ registering' = registering
    BY <1>7 DEF RevokeKey
  <2>2. keys \in Seq(APIKey) /\ keys[k] \in APIKey
    BY DEF KeysInv
  <2>3. r.owner = keys[k].owner
    BY <2>2 DEF APIKey
  <2> HIDE DEF r
  <2>4. Len(keys') = Len(keys) /\ DOMAIN keys' = DOMAIN keys
    BY <2>1, <2>2
  <2>5. \A j \in DOMAIN keys' : keys'[j].owner = keys[j].owner
    BY <2>1, <2>2, <2>3, <2>4
  <2>6. QED
    BY <1>2, <2>1, <2>4, <2>5 DEF AccountsTypeOK
<1>8. QED
  BY <1>4, <1>5, <1>6, <1>7 DEF AccountsNext

LEMMA ProgramStepAccounts == ASSUME NEW c, ProgramStep(c) PROVE UNCHANGED accountVars
BY DEF ProgramStep, Start, ResetAgain, FallBackToPlain, Step, Leave, Resend, Receive, NoReply

LEMMA RequestStepAccounts ==
    ASSUME NEW m, LookUp(m) \/ Handle(m) PROVE UNCHANGED accountVars
BY DEF LookUp, Handle, Authenticated, Touch, accountVars

LEMMA AccountTypesStay ==
    ASSUME AccountsTypeOK, UNCHANGED accountVars PROVE AccountsTypeOK'
BY DEF AccountsTypeOK, accountVars

LEMMA InitAccountTypes == AccountsInit => AccountsTypeOK
BY AccountsAssumption DEF AccountsInit, AccountsTypeOK

-----------------------------------------------------------------------------
(* The theorems                                                              *)

Inv == UsersInv /\ KeysInv /\ WireInv /\ AccountsTypeOK /\ Play

LEMMA InitInv == Init => Inv
BY InitAccounts, InitAccountTypes, InitPlays DEF Init, Inv, WireInv

LEMMA NextInv == Inv /\ [Next]_vars => Inv'
<1> SUFFICES ASSUME UsersInv, KeysInv, WireInv, AccountsTypeOK, Play, [Next]_vars
             PROVE  UsersInv' /\ KeysInv' /\ WireInv' /\ AccountsTypeOK' /\ Play'
  BY DEF Inv
<1>1. CASE AccountsNext /\ UNCHANGED clientVars
  <2>1. WireInv'
    BY <1>1, AccountsKeep, FewerMessages DEF clientVars
  <2>2. QED
    BY <1>1, <2>1, AccountsKeep, AccountsKeepTypes, AccountsPlay
<1>2. ASSUME NEW c \in Clients, ProgramStep(c)
      PROVE  UsersInv' /\ KeysInv' /\ WireInv' /\ AccountsTypeOK' /\ Play'
  BY <1>2, ProgramStepKeeps, ProgramStepAccounts, TablesStay, AccountTypesStay,
     ProgramStepPlays
<1>3. ASSUME NEW m \in wire, LookUp(m) \/ Handle(m)
      PROVE  UsersInv' /\ KeysInv' /\ WireInv' /\ AccountsTypeOK' /\ Play'
  BY <1>3, LookUpKeeps, HandleKeeps, RequestStepAccounts, TablesStay, AccountTypesStay,
     LookUpPlays, HandlePlays
<1>4. CASE UNCHANGED vars
  <2>1. UNCHANGED accountVars /\ UNCHANGED clientVars
    BY <1>4 DEF vars
  <2>2. WireInv'
    BY <2>1, FewerMessages DEF accountVars, clientVars
  <2>3. QED
    BY <2>1, <2>2, TablesOfAccounts, TablesStay, AccountTypesStay, AccountsPlay
<1>5. QED
  BY <1>1, <1>2, <1>3, <1>4 DEF Next, ProgramStep

\* However many registrations of one email overlap, there is one account for it.
THEOREM OneAccount == Spec => []OneAccountPerEmail
<1>1. Inv => OneAccountPerEmail
  BY DEF Inv, UsersInv
<1>2. QED
  BY InitInv, NextInv, <1>1, PTL DEF Spec

\* No request that was sent after the revocation of its key was answered is let in with
\* it, however requests are delayed, sent again and overlap with the revocation.
THEOREM RevokedKeysAreRefused == Spec => []RevokedKeyIsRefused
<1>1. Inv => RevokedKeyIsRefused
  BY DEF Inv, WireInv, GoodMessage, RevokedKeyIsRefused
<1>2. QED
  BY InitInv, NextInv, <1>1, PTL DEF Spec


\* The tables, the programs and the requests keep their types, whatever is sent again.
THEOREM TypeCorrect == Spec => []TypeOK
<1>1. Inv => TypeOK
  BY DEF Inv, Play, ClientsInv, ServerInv, RequestsInv, TypeOK
<1>2. QED
  BY InitInv, NextInv, <1>1, PTL DEF Spec

\* The results of a history are of its episode and in the order of the steps, however
\* attempts are repeated and however late the server gets to the old ones.
THEOREM ResultsStayInOrder == Spec => []ResultsInOrder
<1>1. ASSUME Inv PROVE ResultsInOrder
  <2> SUFFICES ASSUME NEW c \in Clients
               PROVE  LET h == client[c].history
                      IN  /\ \A i, j \in DOMAIN h : i < j => h[i] < h[j]
                          /\ \A i \in DOMAIN h : h[i] <= executed[client[c].episode_id]
    BY DEF ResultsInOrder
  <2>1. GoodClient(client[c])
    BY <1>1 DEF Inv, Play, ClientsInv
  <2>2. CASE client[c].episode_id = NoEpisode
    BY <2>1, <2>2 DEF GoodClient
  <2>3. CASE client[c].episode_id # NoEpisode
    BY <1>1, <2>1, <2>3 DEF GoodClient, Inv, Play, OrderInv, InOrder
  <2>4. QED
    BY <2>2, <2>3
<1>2. QED
  BY InitInv, NextInv, <1>1, PTL DEF Spec

\* A program's count of its steps lags the server's by no more than its attempts that got
\* no answer or a 500, for any number of programs, retries and late requests.
THEOREM DriftIsAccountedFor == Spec => []DriftIsUntold
<1>1. ASSUME Inv PROVE DriftIsUntold
  <2> SUFFICES ASSUME NEW c \in Clients, client[c].episode_id # NoEpisode
               PROVE  executed[client[c].episode_id]
                         <= Len(client[c].history) + untold[c]
                              + IF client[c].pc = "waiting" /\ client[c].kind = "step"
                                THEN 1 ELSE 0
    BY DEF DriftIsUntold
  <2> DEFINE e == client[c].episode_id
             n == Cardinality(OnTheWay(wire, e))
             u == Len(client[c].history) + untold[c]
             one == IF client[c].pc = "waiting" /\ client[c].kind = "step" THEN 1 ELSE 0
  <2>1. Drift(c) /\ client[c] \in Client /\ IsFiniteSet(wire)
    BY <1>1 DEF Inv, Play, DriftInv, ClientsInv, RequestsInv
  <2>2. e \in Episodes /\ Len(client[c].history) \in Nat
    BY <2>1, EpisodeOfClient
  <2>3. executed[e] \in Nat /\ untold[c] \in Nat
    BY <1>1, <2>2 DEF Inv, Play, ServerInv
  <2>4. n \in Nat
    BY <2>1, FewerOnTheWay
  <2>5. Owed(client[c]) <= one /\ Owed(client[c]) \in Nat /\ one \in Nat
    BY OwedIsNat DEF Owed, Expects
  <2>6. u \in Nat
    BY <2>2, <2>3
  <2>7. executed[e] + n <= u + Owed(client[c])
    BY <2>1 DEF Drift
  <2> HIDE DEF n, u, one
  <2>8. executed[e] <= u + one
    BY <2>3, <2>4, <2>5, <2>6, <2>7
  <2>9. QED
    BY <2>8 DEF u, one
<1>2. QED
  BY InitInv, NextInv, <1>1, PTL DEF Spec
=============================================================================
