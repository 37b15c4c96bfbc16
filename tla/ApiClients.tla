----------------------------- MODULE ApiClients -----------------------------
(***************************************************************************)
(* The programs that play episodes over HTTP: ChaosMeshClient of the SDK   *)
(* with its retries, and what is built on it (Episode, ChaosMeshGymEnv,    *)
(* the CLI's plain and Textual runs), and inference.py, which has no       *)
(* retries and no account.                                                 *)
(*                                                                         *)
(* A request is a message to the server.  The server may handle it at any  *)
(* time or never, also when the program no longer waits for it; an answer  *)
(* may be lost.  Of a handler there is what it does to the account's       *)
(* session: Sessions shows its steps, Accounts the keys it asks for.       *)
(* Observations, actions and rewards are left out, but for whether the     *)
(* server knows the types of the actions a program makes up.               *)
(***************************************************************************)
EXTENDS Accounts, FiniteSets

CONSTANTS
    Clients,
    Started,           \* the kinds of programs that are started
    MAX_RETRIES,
    MaxSteps,          \* the cap of the plain run and of inference.py
    MaxCalls,          \* bound on the calls of a client
    MaxLate,           \* bound on the requests that are late
    MaxEpisodes        \* bound on the episodes the server starts

ASSUME ClientsAssumption ==
    /\ MAX_RETRIES \in Nat \ {0}
    /\ {MaxSteps, MaxCalls, MaxLate, MaxEpisodes} \subseteq Nat

VARIABLES
    client,       \* the programs
    wire,         \* the requests the server has not answered
    active,       \* account -> the episode of its session
    executed,     \* episode -> the steps the server has carried out
    started,      \* the number of episodes the server has started
    untold        \* history: client -> attempts at a step that got no answer, or a 500

clientVars == <<client, wire, active, executed, started, untold>>
vars == <<accountVars, clientVars>>

NoEpisode == 0
Episodes == 1 .. MaxEpisodes

\* A program: is a call that fails its end, is the session closed at the end, is there a
\* cap, does the server know the actions, how often is a request sent.
Program(fatal, closes, capped, valid, tries) ==
    [fatal |-> fatal, closes |-> closes, capped |-> capped, valid |-> valid,
     tries |-> tries]

EpisodeBlock == Program(TRUE, TRUE, FALSE, TRUE, MAX_RETRIES)
GymEnv == Program(FALSE, TRUE, FALSE, TRUE, MAX_RETRIES)
\* The runs of the CLI, with an agent of the user's or with actions they make up.
PlainRun(agent) == Program(TRUE, FALSE, TRUE, agent, MAX_RETRIES)
TextualRun(agent) == Program(FALSE, FALSE, FALSE, agent, MAX_RETRIES)
Inference == Program(FALSE, FALSE, TRUE, FALSE, 1)

Programs ==
    [episode |-> EpisodeBlock, gym |-> GymEnv,
     plain |-> PlainRun(TRUE), plain_demo |-> PlainRun(FALSE),
     tui |-> TextualRun(TRUE), tui_demo |-> TextualRun(FALSE), inference |-> Inference]

ASSUME StartedAssumption == Started \subseteq DOMAIN Programs

Kinds == {"token", "reset", "step", "close"}
Answer == [is : {"ok", "conflict", "rate_limited", "failed", "raised"}, n : Nat,
           done : BOOLEAN]
NoAnswer == [is |-> "none", n |-> 0, done |-> FALSE]

Client ==
    [program : DOMAIN Programs,
     pc : {"out", "ready", "waiting", "backoff", "over"},
     key : Nat, jwt : BOOLEAN,                     \* _api_key, _jwt_token
     kind : Kinds, call : 0 .. MaxCalls, attempt : 0 .. MAX_RETRIES,
     answer : Answer \union {NoAnswer},
     episode_id : Episodes \union {NoEpisode}, tries : 0 .. MaxCalls,
     history : Seq(Nat), done : BOOLEAN]

\* stage: has the key of the request been found?  stale: was the key already dead when
\* the request was sent?
Message ==
    [from : Clients, kind : Kinds, call : 0 .. MaxCalls, attempt : 1 .. MAX_RETRIES,
     episode_id : Episodes \union {NoEpisode}, jwt : BOOLEAN, key : Nat,
     stage : {"sent", "found"}, stale : BOOLEAN]

Init ==
    /\ AccountsInit
    /\ client \in [Clients ->
           {[program |-> p, pc |-> "out", key |-> 0, jwt |-> FALSE, kind |-> "reset",
             call |-> 0, attempt |-> 0, answer |-> NoAnswer, episode_id |-> NoEpisode,
             tries |-> 0, history |-> <<>>, done |-> FALSE] : p \in Started}]
    /\ wire = {}
    /\ active = [a \in {"user", "demo"} |-> NoEpisode]
    /\ executed = [e \in Episodes |-> 0]
    /\ started = 0
    /\ untold = [c \in Clients |-> 0]

Is(c) == Programs[client[c].program]
Account(c) == IF client[c].program = "inference" THEN "demo" ELSE "user"

-----------------------------------------------------------------------------
(* Calls                                                                     *)

\* The request of client c in its state s, with the headers of its http client.
Request(c, s) ==
    [from |-> c, kind |-> s.kind, call |-> s.call, attempt |-> s.attempt,
     episode_id |-> IF s.kind = "step" THEN s.episode_id ELSE NoEpisode,
     jwt |-> s.jwt /\ s.kind # "token", key |-> s.key, stage |-> "sent",
     stale |-> s.key \in dead]

\* Of the requests nobody waits for any more, MaxLate are not lost.
Sends(c, s) ==
    /\ client' = [client EXCEPT ![c] = s]
    /\ \E late \in SUBSET wire :
          /\ Cardinality(late) = IF Cardinality(wire) < MaxLate THEN Cardinality(wire)
                                                               ELSE MaxLate
          /\ wire' = late \union {Request(c, s)}

Calls(c, kind, s) ==
    /\ s.call < IF kind = "close" THEN MaxCalls ELSE MaxCalls - 1
    /\ Sends(c, [s EXCEPT !.pc = "waiting", !.kind = kind, !.call = @ + 1, !.attempt = 1])

FetchToken(c, s) == Calls(c, "token", s)
ResetEpisode(c, s) == Calls(c, "reset", s)
SubmitStep(c, s) == Calls(c, "step", s)
CloseSession(c, s) == Calls(c, "close", s)

\* A program starts with an API key of the user, or needs none.  The CLI may have a token
\* stored, a program of one's own fetch it.
Start(c, k) ==
    LET s == [client[c] EXCEPT !.key = k]
    IN  /\ client[c].pc = "out" /\ \A e \in Emails : registering[e] = 0
        /\ IF Account(c) = "demo" THEN k = 0 ELSE k \in DOMAIN keys
        /\ \/ ResetEpisode(c, s)
           \/ client[c].program = "episode" /\ FetchToken(c, s)
           \/ /\ client[c].program \in {"plain", "plain_demo", "tui", "tui_demo"}
              /\ ResetEpisode(c, [s EXCEPT !.jwt = TRUE])
        /\ UNCHANGED <<accountVars, active, executed, started, untold>>

\* The first reset after a token, and others: a gym environment can be reset at any
\* time, an Episode entered again.
ResetAgain(c) ==
    /\ \/ client[c].pc = "ready" /\ (client[c].kind = "token" \/ client[c].program = "gym")
       \/ client[c].pc = "over" /\ client[c].program = "episode"
    /\ ResetEpisode(c, client[c])
    /\ UNCHANGED <<accountVars, active, executed, started, untold>>

\* What goes wrong in the Textual run starts the plain one, with its own reset.
FallBackToPlain(c) ==
    /\ client[c].program \in {"tui", "tui_demo"} /\ client[c].pc = "ready"
    /\ ResetEpisode(c, [client[c] EXCEPT
           !.program = IF @ = "tui" THEN "plain" ELSE "plain_demo"])
    /\ UNCHANGED <<accountVars, active, executed, started, untold>>

AtCap(c) == Is(c).capped /\ client[c].tries = MaxSteps
Finished(c) == client[c].done \/ AtCap(c)

\* An Episode and a gym environment can be stepped past the end.
Step(c) ==
    /\ client[c].pc = "ready" /\ (client[c].program \in {"episode", "gym"} \/ ~Finished(c))
    /\ client[c].episode_id # NoEpisode \/ client[c].program \in {"gym", "inference"}
    /\ SubmitStep(c, [client[c] EXCEPT !.tries = IF Is(c).capped THEN @ + 1 ELSE @])
    /\ UNCHANGED <<accountVars, active, executed, started, untold>>

\* The end of the run, also in the middle of an episode.
Leave(c) ==
    /\ client[c].pc = "ready"
    /\ IF Is(c).closes
       THEN CloseSession(c, client[c])
       ELSE client' = [client EXCEPT ![c].pc = "over"] /\ UNCHANGED wire
    /\ UNCHANGED <<accountVars, active, executed, started, untold>>

-----------------------------------------------------------------------------
(* The server                                                                *)

\* An answer reaches the client if it still waits for this attempt; it may be lost.
Answers(m, answer) ==
    LET waits == /\ client[m.from].pc = "waiting"
                 /\ client[m.from].call = m.call /\ client[m.from].attempt = m.attempt
    IN  /\ wire' = wire \ {m}
        /\ \/ waits /\ client' = [client EXCEPT ![m.from].answer = answer]
           \/ UNCHANGED client

Plainly(is) == [is |-> is, n |-> 0, done |-> FALSE]

\* require_auth, and get_token: the key is looked up, and touched when it is found.  The
\* aliases that inference.py calls ask for no key, and a token needs no look-up.
LookUp(m) ==
    /\ m.stage = "sent" /\ ~m.jwt /\ Account(m.from) = "user"
    /\ IF Finds(m.key)
       THEN /\ wire' = (wire \ {m}) \union {[m EXCEPT !.stage = "found"]}
            /\ UNCHANGED client
       ELSE Answers(m, Plainly("failed"))
    /\ UNCHANGED <<accountVars, active, executed, started, untold>>

Authenticated(m) ==
    \/ m.stage = "found" /\ Touch(m.key)
    \/ (m.jwt \/ Account(m.from) = "demo") /\ UNCHANGED keys

HandleReset(m) ==
    /\ m.kind = "reset" /\ started < MaxEpisodes
    /\ started' = started + 1
    /\ active' = [active EXCEPT ![Account(m.from)] = started']
    /\ Answers(m, [is |-> "ok", n |-> started', done |-> FALSE])
    /\ UNCHANGED executed

\* Seeded fault: the step is carried out before the session's episode is looked at.
HandleStep_LateCheck(m) ==
    LET e == active[Account(m.from)]
    IN  /\ m.kind = "step" /\ Is(m.from).valid /\ m.episode_id # NoEpisode
        /\ executed' = [executed EXCEPT ![m.episode_id] = @ + 1]
        /\ IF e = m.episode_id
           THEN Answers(m, [is |-> "ok", n |-> executed'[e], done |-> FALSE])
           ELSE Answers(m, Plainly("conflict"))
        /\ UNCHANGED <<active, started>>

\* 422 for an action of an unknown type or a body without an episode id, 400 without a
\* session, 409 for another episode than the session's.  A step that carries a message
\* acts, is counted and lets time pass before it raises: a 500 for what was carried out.
HandleStep(m) ==
    LET e == active[Account(m.from)]
    IN  /\ m.kind = "step"
        /\ \/ /\ Is(m.from).valid /\ e # NoEpisode /\ e = m.episode_id
              /\ executed' = [executed EXCEPT ![e] = @ + 1]
              /\ \E done \in BOOLEAN :
                    Answers(m, [is |-> "ok", n |-> executed'[e], done |-> done])
           \/ /\ Is(m.from).valid /\ e # NoEpisode /\ e = m.episode_id
              /\ executed' = [executed EXCEPT ![e] = @ + 1]
              /\ Answers(m, Plainly("raised"))
           \/ /\ Is(m.from).valid /\ e # NoEpisode /\ e # m.episode_id
              /\ Answers(m, Plainly("conflict")) /\ UNCHANGED executed
           \/ /\ ~Is(m.from).valid \/ e = NoEpisode
              /\ Answers(m, Plainly("failed")) /\ UNCHANGED executed
        /\ UNCHANGED <<active, started>>

HandleClose(m) ==
    /\ m.kind = "close"
    /\ active' = [active EXCEPT ![Account(m.from)] = NoEpisode]
    /\ Answers(m, Plainly("ok"))
    /\ UNCHANGED <<executed, started>>

\* A token, or a refusal: a 402 or 503, a token that has expired, a 429.
AnswersOnly(m) ==
    /\ \/ m.kind = "token" /\ Answers(m, Plainly("ok"))
       \/ \E is \in {"failed", "rate_limited"} : Answers(m, Plainly(is))
    /\ UNCHANGED <<active, executed, started>>

Handle(m) ==
    /\ Authenticated(m)
    /\ HandleReset(m) \/ HandleStep(m) \/ HandleClose(m) \/ AnswersOnly(m)
    /\ UNCHANGED <<users, registering, dead, untold>>

-----------------------------------------------------------------------------
(* The outcome of a call                                                     *)

\* A call raises.  A reset or a step that fails ends the programs it is fatal to, an
\* Episode by way of its close; a close that fails is the end like one that does not.
Fails(c) ==
    LET s == [client[c] EXCEPT !.answer = NoAnswer]
    IN  IF Is(c).fatal /\ Is(c).closes /\ s.kind = "step"
        THEN CloseSession(c, s)
        ELSE /\ client' = [client EXCEPT ![c] = [s EXCEPT !.pc =
                    IF Is(c).fatal \/ s.kind \in {"token", "close"} THEN "over"
                                                                 ELSE "ready"]]
             /\ UNCHANGED wire

\* Seeded fault: the attempts after a 429 are not counted.
RetriesOrFails_Forever(c) ==
    LET s == [client[c] EXCEPT !.answer = NoAnswer, !.pc = "backoff"]
    IN  /\ client' = [client EXCEPT ![c] =
                IF client[c].answer.is = "rate_limited" THEN [s EXCEPT !.attempt = @ - 1]
                                                        ELSE s]
        /\ UNCHANGED wire

\* Seeded fault: one attempt too many.
RetriesOrFails_OffByOne(c) ==
    IF client[c].attempt <= Is(c).tries
    THEN /\ client' = [client EXCEPT ![c].pc = "backoff", ![c].answer = NoAnswer]
         /\ UNCHANGED wire
    ELSE Fails(c)

\* After an attempt that is worth another: a pause, if there is one left.
RetriesOrFails(c) ==
    IF client[c].attempt < Is(c).tries
    THEN /\ client' = [client EXCEPT ![c].pc = "backoff", ![c].answer = NoAnswer]
         /\ UNCHANGED wire
    ELSE Fails(c)

\* The pause after an attempt is over: the same request is sent again.
Resend(c) ==
    /\ client[c].pc = "backoff"
    /\ Sends(c, [client[c] EXCEPT !.pc = "waiting", !.attempt = @ + 1])
    /\ UNCHANGED <<accountVars, active, executed, started, untold>>

\* Seeded fault: a new episode goes on with the old history.
Applied_HistoryKept(s) ==
    LET a == s.answer
        t == [s EXCEPT !.answer = NoAnswer, !.pc = "ready"]
    IN  CASE s.kind = "token" -> [t EXCEPT !.jwt = TRUE]
          [] s.kind = "reset" -> [t EXCEPT !.episode_id = a.n, !.done = FALSE]
          [] s.kind = "step"  -> [t EXCEPT !.history = Append(@, a.n), !.done = a.done]
          [] s.kind = "close" -> [t EXCEPT !.pc = "over"]

\* What a client makes of an answer: fetch_token, Episode._init and _apply.
Applied(s) ==
    LET a == s.answer
        t == [s EXCEPT !.answer = NoAnswer, !.pc = "ready"]
    IN  CASE s.kind = "token" -> [t EXCEPT !.jwt = TRUE]
          [] s.kind = "reset" -> [t EXCEPT !.episode_id = a.n, !.tries = 0,
                                           !.history = <<>>, !.done = FALSE]
          [] s.kind = "step"  -> [t EXCEPT !.history = Append(@, a.n), !.done = a.done]
          [] s.kind = "close" -> [t EXCEPT !.pc = "over"]

\* _check_response: a 429 is tried again, any other error raised, a 500 like the others.
Receive(c) ==
    /\ client[c].pc = "waiting" /\ client[c].answer # NoAnswer
    /\ CASE client[c].answer.is = "ok" ->
                client' = [client EXCEPT ![c] = Applied(client[c])] /\ UNCHANGED wire
         [] client[c].answer.is = "rate_limited" -> RetriesOrFails(c)
         [] OTHER -> Fails(c)
    /\ untold' = CASE client[c].kind = "reset" /\ client[c].answer.is = "ok" ->
                        [untold EXCEPT ![c] = 0]
                   [] client[c].answer.is = "raised" -> [untold EXCEPT ![c] = @ + 1]
                   [] OTHER -> untold
    /\ UNCHANGED <<accountVars, active, executed, started>>

\* A time-out or a refused connection is tried again; a connection that breaks raises.
NoReply(c) ==
    /\ client[c].pc = "waiting" /\ client[c].answer = NoAnswer
    /\ RetriesOrFails(c) \/ Fails(c)
    /\ untold' = [untold EXCEPT ![c] = @ + IF client[c].kind = "step" THEN 1 ELSE 0]
    /\ UNCHANGED <<accountVars, active, executed, started>>

Next ==
    \/ AccountsNext /\ UNCHANGED clientVars
    \/ \E c \in Clients :
          \/ \E k \in 0 .. MaxKeys : Start(c, k)
          \/ ResetAgain(c) \/ FallBackToPlain(c) \/ Step(c) \/ Leave(c)
          \/ Resend(c) \/ Receive(c) \/ NoReply(c)
    \/ \E m \in wire : LookUp(m) \/ Handle(m)

\* The timers of a client fire; the server need never answer.
Spec ==
    /\ Init /\ [][Next]_vars
    /\ \A c \in Clients : WF_vars(Resend(c)) /\ WF_vars(Receive(c) \/ NoReply(c))

-----------------------------------------------------------------------------
\* The tables, the clients and the requests on their way keep their types.
TypeOK ==
    /\ AccountsTypeOK
    /\ client \in [Clients -> Client]
    /\ wire \subseteq Message
    /\ active \in [{"user", "demo"} -> Episodes \union {NoEpisode}]
    /\ executed \in [Episodes -> Nat]
    /\ started \in 0 .. MaxEpisodes
    /\ untold \in [Clients -> Nat]

\* The results in the history of an episode are of steps of that episode, in the order
\* the server carried them out and none twice, although requests are sent again and old
\* ones handled late.
ResultsInOrder ==
    \A c \in Clients :
        LET h == client[c].history
        IN  /\ \A i, j \in DOMAIN h : i < j => h[i] < h[j]
            /\ \A i \in DOMAIN h : h[i] <= executed[client[c].episode_id]

\* An episode is ahead of the steps its program knows of by no more than the attempts
\* that got no answer, as a POST that is sent again may be carried out again, and those
\* answered with a 500, which a step with a message is after it was carried out.  No
\* other error hides a step: after a 409, 422 or 429 the program need not ask.
DriftIsUntold ==
    \A c \in Clients :
        client[c].episode_id # NoEpisode =>
            executed[client[c].episode_id]
                <= Len(client[c].history) + untold[c]
                     + IF client[c].pc = "waiting" /\ client[c].kind = "step" THEN 1 ELSE 0

\* "It will immediately stop working": a request that is sent after the revocation of its
\* key has been answered is not let in with it.
RevokedKeyIsRefused == \A m \in wire : m.stage = "found" => ~m.stale

\* Every call returns or raises, whatever the server and the network do.
CallsReturn ==
    \A c \in Clients : client[c].pc = "waiting" ~> client[c].pc \in {"ready", "over"}
=============================================================================
