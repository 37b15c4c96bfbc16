------------------------------ MODULE Sessions ------------------------------
(***************************************************************************)
(* The sessions of the server: chaosmesh_arena/env_pool.py and the         *)
(* handlers of server/routes/env.py that drive it, with the calls they     *)
(* make to the episode and user repositories.                              *)
(*                                                                         *)
(* The server is one asyncio event loop.  A request is a coroutine whose   *)
(* code between two awaits is one action here; gym calls run in threads    *)
(* and are actions of their own.  The pool's lock is held across an await  *)
(* only by stop(), so taking it never lets another coroutine in.           *)
(*                                                                         *)
(* Left out: answers that change nothing (402 for a level above the plan,  *)
(* 404, renderings and session info) and broadcasts, which WsManager       *)
(* isolates from the handlers.  What an episode does is reduced to the     *)
(* status its env reports; ArenaEnv says how it comes about.  Two threads  *)
(* in one env.step are one after the other here, and the database always   *)
(* answers.  A step may name any episode, or none: ids are not secret, as  *)
(* GET /env/session, GET /env/state and the answer 409 to a wrong id give  *)
(* the current one away before the reset that starts it has answered.      *)
(***************************************************************************)
EXTENDS Naturals, FiniteSets

CONSTANTS
    Users,
    FreeUsers,          \* users without a Pro plan
    DemoUsers,          \* the "demo" user: no quota and no rows
    Requests,           \* coroutines, each handles one request at a time
    MaxConcurrent,      \* max_concurrent_sessions
    EpisodesPerMonth,   \* free_plan_episodes_per_month
    MaxSessions         \* bound on the sessions ever created

ASSUME SessionsAssumption ==
    /\ FreeUsers \subseteq Users /\ DemoUsers \subseteq Users
    /\ IsFiniteSet(Requests)
    /\ {MaxConcurrent, EpisodesPerMonth, MaxSessions} \subseteq Nat

VARIABLES
    pool,          \* EnvPool._sessions: session -> SessionEntry
    env,           \* the env of each session: it outlives the entry while a thread has it
    created,       \* the number of sessions created so far
    episodes,      \* the number of episodes started so far
    userSession,   \* _user_sessions
    rows,          \* the episode_results table
    monthly,       \* users.episodes_this_month
    evicting,      \* the expired sessions _evict_expired has yet to close
    request,       \* the coroutines
    known,         \* history: the episodes a user has had in the answer to a reset
    filed          \* history: the episodes that steps have ended and filed, and whether
                   \* the step was sent after the answer to the reset

vars == <<pool, env, created, episodes, userSession, rows, monthly, evicting, request,
          known, filed>>

SessionIds == 1 .. MaxSessions
Episodes == 1 .. MaxSessions
NoSession == 0
NoEpisode == 0
NoUser == "nobody"
Statuses == {"running", "resolved", "timed_out"}

SessionEntry == [user : Users, episode_id : Episodes \union {NoEpisode},
                 expired : BOOLEAN]
EnvModel == [episode : Episodes \union {NoEpisode}, status : Statuses]
\* The statements an episode start awaits together: insert the row, read the
\* monthly count, write it back.
Statements == {"create", "read", "write"}
RequestModel ==
    [pc : {"idle", "quota", "checked", "closing", "resetting", "reset", "persisting",
           "stepping", "stepped", "finalizing"},
     user : Users \union {NoUser}, session : SessionIds \union {NoSession},
     episode : Episodes \union {NoEpisode},
     count : Nat, todo : SUBSET Statements, status : Statuses,
     told : BOOLEAN]     \* history: the user knew the episode when the step was sent

Live == DOMAIN pool
WithoutSession(s) == [x \in Live \ {s} |-> pool[x]]
WithSession(s, entry) == [x \in Live \union {s} |-> IF x = s THEN entry ELSE pool[x]]

\* Seeded fault: a touch puts an entry that has left the pool back.
Touched_Reinserts(s) ==
    WithSession(s, [user |-> NoUser, episode_id |-> NoEpisode, expired |-> FALSE])

\* touch() of an entry that has left the pool is seen by nobody.
Touched(s) == IF s \in Live THEN [pool EXCEPT ![s].expired = FALSE] ELSE pool

\* A request goes on at pc, its other fields changed by the caller.
Goto(r, pc) == request' = [request EXCEPT ![r].pc = pc]

NewRequest(u, pc) ==
    [pc |-> pc, user |-> u, session |-> NoSession, episode |-> NoEpisode,
     count |-> 0, todo |-> {}, status |-> "running", told |-> FALSE]

Idle == NewRequest(NoUser, "idle")
Done(r) == request' = [request EXCEPT ![r] = Idle]

Init ==
    /\ pool = <<>>
    /\ env = [s \in SessionIds |-> [episode |-> NoEpisode, status |-> "running"]]
    /\ created = 0 /\ episodes = 0
    /\ userSession = [u \in Users |-> NoSession]
    /\ rows = [e \in Episodes |-> "none"]
    /\ monthly = [u \in Users |-> 0]
    /\ evicting = {}
    /\ request = [r \in Requests |-> Idle]
    /\ known = [u \in Users |-> {}]
    /\ filed = {}

-----------------------------------------------------------------------------
(* POST /env/reset                                                           *)

\* Requests that will create a session count against the bound.
Resetting(r) == request[r].pc \in {"quota", "checked", "closing"}

HasQuota(u) == u \in FreeUsers /\ u \notin DemoUsers

ResetBegins(r, u) ==
    /\ request[r].pc = "idle"
    /\ created + Cardinality({q \in Requests : Resetting(q)}) < MaxSessions
    /\ request' = [request EXCEPT ![r] =
                       NewRequest(u, IF HasQuota(u) THEN "quota" ELSE "checked")]
    /\ UNCHANGED <<pool, env, created, episodes, userSession, rows, monthly, evicting,
                   known, filed>>

\* get_user_by_id.
ReadQuota(r) ==
    /\ request[r].pc = "quota"
    /\ request' = [request EXCEPT ![r].pc = "checked",
                                  ![r].count = monthly[request[r].user]]
    /\ UNCHANGED <<pool, env, created, episodes, userSession, rows, monthly, evicting,
                   known, filed>>

\* A session without an episode yet, mapped to its user.
NewSession(r) ==
    /\ created' = created + 1
    /\ pool' = WithSession(created', [user |-> request[r].user, episode_id |-> NoEpisode,
                                     expired |-> FALSE])
    /\ userSession' = [userSession EXCEPT ![request[r].user] = created']
    /\ request' = [request EXCEPT ![r].pc = "resetting", ![r].session = created']

\* Seeded fault: the limit is off by one.
CreateSession_OffByOne(r) ==
    IF Cardinality(Live) > MaxConcurrent
    THEN Done(r) /\ UNCHANGED <<pool, created, userSession>>
    ELSE NewSession(r)

\* create_session and the assignment that follows it, up to the await of pool.reset.
\* At capacity (503) the user keeps the mapping to the session just closed.
CreateSession(r) ==
    IF Cardinality(Live) >= MaxConcurrent
    THEN Done(r) /\ UNCHANGED <<pool, created, userSession>>
    ELSE NewSession(r)

OverQuota(r) == HasQuota(request[r].user) /\ request[r].count >= EpisodesPerMonth

QuotaExceeded(r) ==
    /\ request[r].pc = "checked" /\ OverQuota(r)
    /\ Done(r)
    /\ UNCHANGED <<pool, env, created, episodes, userSession, rows, monthly, evicting,
                   known, filed>>

\* Seeded fault: a live session of the user is reset in place.
CloseOldSession_Reuses(r) ==
    /\ request[r].pc = "checked" /\ ~OverQuota(r)
    /\ LET old == userSession[request[r].user]
       IN  IF old \in Live
           THEN /\ request' = [request EXCEPT ![r].pc = "resetting", ![r].session = old]
                /\ UNCHANGED <<pool, created, userSession>>
           ELSE CreateSession(r)
    /\ UNCHANGED <<env, episodes, rows, monthly, evicting, known, filed>>

\* The close of the old session awaits its env.close; with no session to close the
\* handler runs on.
CloseOldSession(r) ==
    /\ request[r].pc = "checked" /\ ~OverQuota(r)
    /\ LET old == userSession[request[r].user]
       IN  IF old \in Live
           THEN /\ pool' = WithoutSession(old)
                /\ Goto(r, "closing")
                /\ UNCHANGED <<created, userSession>>
           ELSE CreateSession(r)
    /\ UNCHANGED <<env, episodes, rows, monthly, evicting, known, filed>>

OldSessionClosed(r) ==
    /\ request[r].pc = "closing"
    /\ CreateSession(r)
    /\ UNCHANGED <<env, episodes, rows, monthly, evicting, known, filed>>

\* The thread of env.reset.
EnvReset(r) ==
    /\ request[r].pc = "resetting"
    /\ episodes' = episodes + 1
    /\ env' = [env EXCEPT ![request[r].session] =
                   [episode |-> episodes', status |-> "running"]]
    /\ request' = [request EXCEPT ![r].pc = "reset", ![r].episode = episodes']
    /\ UNCHANGED <<pool, created, userSession, rows, monthly, evicting, known, filed>>

Answer(r) == known' = [known EXCEPT ![request[r].user] = @ \union {request[r].episode}]

\* Seeded fault: the answer does not wait for the row and the count.
ResetReturns_FireAndForget(r) ==
    /\ request[r].pc = "reset"
    /\ LET s == request[r].session
       IN  pool' = IF s \in Live
                   THEN [Touched(s) EXCEPT ![s].episode_id = request[r].episode]
                   ELSE pool
    /\ IF request[r].user \in DemoUsers
       THEN Done(r)
       ELSE request' = [request EXCEPT ![r].pc = "persisting", ![r].todo = Statements]
    /\ Answer(r)
    /\ UNCHANGED <<env, created, episodes, userSession, rows, monthly, evicting, filed>>

\* The end of pool.reset.
ResetReturns(r) ==
    /\ request[r].pc = "reset"
    /\ LET s == request[r].session
       IN  pool' = IF s \in Live
                   THEN [Touched(s) EXCEPT ![s].episode_id = request[r].episode]
                   ELSE pool
    /\ IF request[r].user \in DemoUsers
       THEN Done(r) /\ Answer(r)
       ELSE /\ request' = [request EXCEPT ![r].pc = "persisting", ![r].todo = Statements]
            /\ UNCHANGED known
    /\ UNCHANGED <<env, created, episodes, userSession, rows, monthly, evicting, filed>>

InsertRow(r) ==
    /\ request[r].pc = "persisting" /\ "create" \in request[r].todo
    /\ rows' = [rows EXCEPT ![request[r].episode] = "running"]
    /\ request' = [request EXCEPT ![r].todo = @ \ {"create"}]
    /\ UNCHANGED <<pool, env, created, episodes, userSession, monthly, evicting, known,
                   filed>>

ReadCount(r) ==
    /\ request[r].pc = "persisting" /\ "read" \in request[r].todo
    /\ request' = [request EXCEPT ![r].todo = @ \ {"read"},
                                  ![r].count = monthly[request[r].user]]
    /\ UNCHANGED <<pool, env, created, episodes, userSession, rows, monthly, evicting,
                   known, filed>>

WriteCount(r) ==
    /\ request[r].pc = "persisting"
    /\ "read" \notin request[r].todo /\ "write" \in request[r].todo
    /\ monthly' = [monthly EXCEPT ![request[r].user] = request[r].count + 1]
    /\ request' = [request EXCEPT ![r].todo = @ \ {"write"}]
    /\ UNCHANGED <<pool, env, created, episodes, userSession, rows, evicting, known,
                   filed>>

ResetAnswered(r) ==
    /\ request[r].pc = "persisting" /\ request[r].todo = {}
    /\ Answer(r)
    /\ Done(r)
    /\ UNCHANGED <<pool, env, created, episodes, userSession, rows, monthly, evicting,
                   filed>>

-----------------------------------------------------------------------------
(* POST /env/step                                                            *)

\* The checks up to the await of the thread: 400 without a session, KeyError when it
\* has left the pool, 409 for another episode; only a match goes on.  Until the first
\* reset of a session has returned, the id of its entry is empty, and an empty id in
\* the request matches it.
StepBegins(r, u, e) ==
    /\ request[r].pc = "idle"
    /\ userSession[u] \in Live
    /\ pool[userSession[u]].episode_id = e
    /\ request' = [request EXCEPT ![r] = [NewRequest(u, "stepping") EXCEPT
                       !.session = userSession[u], !.episode = e,
                       !.told = e \in known[u]]]
    /\ UNCHANGED <<pool, env, created, episodes, userSession, rows, monthly, evicting,
                   known, filed>>

\* The thread of env.step, on whatever episode the env is in by now, or on an env that
\* was not reset yet, which counts as resolved.  A truncated episode stays so unless it
\* is resolved; a resolved one is unresolved again by an incident injected from the demo
\* routes.
EnvStep(r, status) ==
    /\ request[r].pc = "stepping"
    /\ env[request[r].session].status = "timed_out" => status # "running"
    /\ env' = [env EXCEPT ![request[r].session].status = status]
    /\ request' = [request EXCEPT ![r].pc = "stepped", ![r].status = status]
    /\ UNCHANGED <<pool, created, episodes, userSession, rows, monthly, evicting, known,
                   filed>>

\* env.step raises for an action that carries a message: a 500 without a touch.
EnvStepRaises(r) ==
    /\ request[r].pc = "stepping"
    /\ Done(r)
    /\ UNCHANGED <<pool, env, created, episodes, userSession, rows, monthly, evicting,
                   known, filed>>

\* The end of pool.step; an ended episode goes on to be finalised.
StepReturns(r) ==
    /\ request[r].pc = "stepped"
    /\ pool' = Touched(request[r].session)
    /\ IF request[r].status = "running" THEN Done(r) ELSE Goto(r, "finalizing")
    /\ UNCHANGED <<env, created, episodes, userSession, rows, monthly, evicting, known,
                   filed>>

\* _finalize_episode: complete() updates the row with this id, if there is one.  There
\* is none of the empty id, nor of an episode whose row is still to be inserted.
Finalize(r) ==
    /\ request[r].pc = "finalizing"
    /\ LET e == request[r].episode
       IN  /\ rows' = IF request[r].user \notin DemoUsers /\ e # NoEpisode /\ rows[e] # "none"
                      THEN [rows EXCEPT ![e] = request[r].status]
                      ELSE rows
           /\ filed' = filed \union {<<e, request[r].told>>}
    /\ Done(r)
    /\ UNCHANGED <<pool, env, created, episodes, userSession, monthly, evicting, known>>

-----------------------------------------------------------------------------
(* GET /env/state, DELETE /env/session, the clean-up loop and a restart      *)

GetState(u) ==
    /\ userSession[u] \in Live
    /\ pool' = Touched(userSession[u])
    /\ UNCHANGED <<env, created, episodes, userSession, rows, monthly, evicting, request,
                   known, filed>>

DeleteSession(u) ==
    /\ userSession[u] # NoSession
    /\ userSession' = [userSession EXCEPT ![u] = NoSession]
    /\ pool' = WithoutSession(userSession[u])
    /\ UNCHANGED <<env, created, episodes, rows, monthly, evicting, request, known, filed>>

\* session_ttl_seconds pass without a touch.
TtlPasses(s) ==
    /\ s \in Live /\ ~pool[s].expired
    /\ pool' = [pool EXCEPT ![s].expired = TRUE]
    /\ UNCHANGED <<env, created, episodes, userSession, rows, monthly, evicting, request,
                   known, filed>>

Expired == {s \in Live : pool[s].expired}

\* The sessions are closed in the order of the dict, the order of their creation.
First(S) == CHOOSE s \in S : \A t \in S : s <= t

\* Seeded fault: the clean-up looks only at the sessions users are mapped to.
EvictExpired_MappedOnly ==
    LET mapped == {s \in Expired : \E u \in Users : userSession[u] = s}
    IN  /\ evicting = {} /\ mapped # {}
        /\ pool' = WithoutSession(First(mapped))
        /\ evicting' = mapped \ {First(mapped)}
        /\ UNCHANGED <<env, created, episodes, userSession, rows, monthly, request, known,
                       filed>>

\* The list is made and its first session removed without an await in between; the
\* others wait for the env.close of those before them.
EvictExpired ==
    /\ evicting = {} /\ Expired # {}
    /\ pool' = WithoutSession(First(Expired))
    /\ evicting' = Expired \ {First(Expired)}
    /\ UNCHANGED <<env, created, episodes, userSession, rows, monthly, request, known,
                   filed>>

\* The expiry is not looked at again.
EvictNext ==
    /\ evicting # {}
    /\ pool' = WithoutSession(First(evicting))
    /\ evicting' = evicting \ {First(evicting)}
    /\ UNCHANGED <<env, created, episodes, userSession, rows, monthly, request, known,
                   filed>>

Next ==
    \/ \E r \in Requests, u \in Users : ResetBegins(r, u)
    \/ \E r \in Requests : ReadQuota(r)
    \/ \E r \in Requests : QuotaExceeded(r)
    \/ \E r \in Requests : CloseOldSession(r)
    \/ \E r \in Requests : OldSessionClosed(r)
    \/ \E r \in Requests : EnvReset(r)
    \/ \E r \in Requests : ResetReturns(r)
    \/ \E r \in Requests : InsertRow(r)
    \/ \E r \in Requests : ReadCount(r)
    \/ \E r \in Requests : WriteCount(r)
    \/ \E r \in Requests : ResetAnswered(r)
    \/ \E r \in Requests, u \in Users, e \in Episodes \union {NoEpisode} :
          StepBegins(r, u, e)
    \/ \E r \in Requests, status \in Statuses : EnvStep(r, status)
    \/ \E r \in Requests : EnvStepRaises(r)
    \/ \E r \in Requests : StepReturns(r)
    \/ \E r \in Requests : Finalize(r)
    \/ \E u \in Users : GetState(u)
    \/ \E u \in Users : DeleteSession(u)
    \/ \E s \in SessionIds : TtlPasses(s)
    \/ EvictExpired
    \/ EvictNext

Spec == Init /\ [][Next]_vars

\* Time passes for a session nobody touches, and the clean-up loop keeps running.
CleanUpRuns ==
    /\ Spec
    /\ \A s \in SessionIds : WF_vars(TtlPasses(s))
    /\ WF_vars(EvictExpired)
    /\ WF_vars(EvictNext)

-----------------------------------------------------------------------------
\* The pool, the mapping, the tables and the coroutines keep their types; a session once
\* out of the pool is not put back as something else.
TypeOK ==
    /\ Live \subseteq SessionIds /\ \A s \in Live : pool[s] \in SessionEntry
    /\ env \in [SessionIds -> EnvModel]
    /\ created \in 0 .. MaxSessions /\ episodes \in 0 .. MaxSessions
    /\ userSession \in [Users -> SessionIds \union {NoSession}]
    /\ rows \in [Episodes -> Statuses \union {"none"}]
    /\ monthly \in [Users -> Nat]
    /\ evicting \subseteq SessionIds
    /\ request \in [Requests -> RequestModel]
    /\ known \in [Users -> SUBSET Episodes]
    /\ filed \subseteq (Episodes \union {NoEpisode}) \X BOOLEAN

\* The pool never holds more than max_concurrent_sessions, however the creations,
\* closes and evictions of concurrent requests interleave.
CapacityRespected == Cardinality(Live) <= MaxConcurrent

\* A step that names an episode and passed the check runs on that episode, in a session
\* of its own user, although resets, closes and evictions go on while it waits for its
\* thread, and however early the id was learned.  A step with an empty id is promised
\* nothing: it may run on the episode that a reset has started meanwhile.
StepsHitTheirEpisode ==
    \A r \in Requests :
        /\ request[r].pc \in {"stepping", "stepped", "finalizing"}
        /\ request[r].episode # NoEpisode
        => LET s == request[r].session
           IN  /\ env[s].episode = request[r].episode
               /\ s \in Live => pool[s].user = request[r].user

Final(e) == rows[e] \in {"resolved", "timed_out"}
HasRow(e) == \E u \in Users \ DemoUsers : e \in known[u]

\* When the step that ends an episode has been answered, the episode's row says so, if
\* the client waited for the answer to its reset before it sent the step, also if other
\* requests of the user created or finalised rows meanwhile.  A client that did not wait
\* can end the episode before its row is there, and complete() then does nothing.
FinishedEpisodesAreFiled ==
    \A e \in Episodes : <<e, TRUE>> \in filed /\ HasRow(e) => Final(e)

InFlight(s) == \E r \in Requests : request[r].pc # "idle" /\ request[r].session = s
Orphan(s) == s \in Live /\ ~InFlight(s) /\ \A u \in Users : userSession[u] # s

\* A session no user is mapped to, left by two resets of a user that both find the same
\* old session, cannot be closed by any request: the clean-up loop frees its place.
OrphansAreReclaimed == \A s \in SessionIds : Orphan(s) ~> s \notin Live

\* routes/env.py:61, "Free plan: max 100 episodes/month".
QuotaRespected ==
    \A u \in Users : HasQuota(u) => Cardinality(known[u]) <= EpisodesPerMonth
=============================================================================
