--------------------------- MODULE SessionsProofs ---------------------------
(***************************************************************************)
(* Proofs about Sessions, for any users, any number of coroutines and any  *)
(* bounds: the types, the capacity of the pool, that a step runs on the    *)
(* episode it was checked for, and that ended episodes are filed.          *)
(***************************************************************************)
EXTENDS Sessions, FiniteSetTheorems, TLAPS

-----------------------------------------------------------------------------
(* What an action does to the pool and to the coroutines                     *)

\* Entries leave the pool or are touched; none is added or given another episode.
PoolShrinks ==
    /\ Live' \subseteq Live
    /\ \A s \in Live' :
          /\ pool'[s] \in SessionEntry
          /\ pool'[s].user = pool[s].user
          /\ pool'[s].episode_id = pool[s].episode_id

LEMMA WithoutShrinks ==
    ASSUME TypeOK, NEW s, pool' = WithoutSession(s) PROVE PoolShrinks
BY DEF TypeOK, PoolShrinks, WithoutSession, Live

LEMMA SameShrinks == ASSUME TypeOK, pool' = pool PROVE PoolShrinks
BY DEF TypeOK, PoolShrinks, Live

LEMMA TouchedShrinks == ASSUME TypeOK, NEW s, pool' = Touched(s) PROVE PoolShrinks
<1>1. CASE s \in Live
  <2>1. pool' = [pool EXCEPT ![s].expired = FALSE]
    BY <1>1 DEF Touched
  <2>2. Live' = Live
    BY <2>1 DEF Live
  <2>3. \A x \in Live : pool'[x] = IF x = s THEN [pool[s] EXCEPT !.expired = FALSE]
                                            ELSE pool[x]
    BY <2>1 DEF Live
  <2>4. \A x \in Live : pool[x] \in SessionEntry
    BY DEF TypeOK
  <2>5. \A x \in Live :
           /\ pool'[x] \in SessionEntry
           /\ pool'[x].user = pool[x].user /\ pool'[x].episode_id = pool[x].episode_id
    BY <2>3, <2>4 DEF SessionEntry
  <2> QED
    BY <2>2, <2>5 DEF PoolShrinks
<1>2. CASE s \notin Live
  BY <1>2, SameShrinks DEF Touched
<1> QED
  BY <1>1, <1>2

\* The end of pool.reset puts the episode into the entry, if there is one.
Enters(s, e) == pool' = IF s \in Live THEN [Touched(s) EXCEPT ![s].episode_id = e] ELSE pool

LEMMA EntersEpisode ==
    ASSUME TypeOK, NEW s, NEW e \in Episodes, Enters(s, e)
    PROVE  /\ Live' = Live
           /\ \A x \in Live :
                 /\ pool'[x] \in SessionEntry
                 /\ pool'[x].user = pool[x].user
                 /\ pool'[x].episode_id = IF x = s THEN e ELSE pool[x].episode_id
<1>1. CASE s \notin Live
  BY <1>1 DEF Enters, TypeOK, Live
<1>2. CASE s \in Live
  <2>1. pool' = [[pool EXCEPT ![s].expired = FALSE] EXCEPT ![s].episode_id = e]
    BY <1>2 DEF Enters, Touched
  <2>2. Live' = Live
    BY <2>1 DEF Live
  <2>3. \A x \in Live : pool'[x] =
           IF x = s THEN [pool[s] EXCEPT !.expired = FALSE, !.episode_id = e] ELSE pool[x]
    BY <2>1 DEF Live
  <2>4. \A x \in Live : pool[x] \in SessionEntry
    BY DEF TypeOK
  <2> QED
    BY <2>2, <2>3, <2>4 DEF SessionEntry
<1> QED
  BY <1>1, <1>2

LEMMA TtlShrinks == ASSUME TypeOK, NEW s, TtlPasses(s) PROVE PoolShrinks
<1>1. s \in Live /\ pool' = [pool EXCEPT ![s].expired = TRUE]
  BY DEF TtlPasses
<1>2. Live' = Live
  BY <1>1 DEF Live
<1>3. \A x \in Live : pool'[x] = IF x = s THEN [pool[s] EXCEPT !.expired = TRUE]
                                          ELSE pool[x]
  BY <1>1 DEF Live
<1> QED
  BY <1>2, <1>3 DEF TypeOK, PoolShrinks, SessionEntry

-----------------------------------------------------------------------------
(* The invariant                                                             *)

Creating == {r \in Requests : Resetting(r)}
Fresh == {r \in Requests : request[r].pc = "resetting"}

\* Every request that will create a session has one left, and every session has had or
\* will have one episode.
CountInv ==
    /\ created + Cardinality(Creating) <= MaxSessions
    /\ created = episodes + Cardinality(Fresh)

\* No session is used before it was created.
BornInv ==
    /\ \A s \in Live : s <= created
    /\ \A u \in Users : userSession[u] <= created
    /\ \A r \in Requests : request[r].session <= created

Stepping(r) == request[r].pc \in {"stepping", "stepped", "finalizing"}
Starting(r) == request[r].pc \in {"reset", "persisting"}
Working == {"resetting", "reset", "persisting", "stepping", "stepped", "finalizing"}

\* A step that named no episode.
Blind(r) == Stepping(r) /\ request[r].episode = NoEpisode

\* What a coroutine holds at each place of its code.
HoldsInv ==
    \A r \in Requests :
        /\ request[r].pc # "idle" => request[r].user \in Users
        /\ request[r].pc \in Working => request[r].session # NoSession
        /\ Starting(r) => request[r].episode # NoEpisode

\* An entry's episode is that of its env, and a user is mapped to entries of its own.
PoolInv ==
    /\ \A s \in Live :
          pool[s].episode_id # NoEpisode => env[s].episode = pool[s].episode_id
    /\ \A u \in Users : userSession[u] \in Live => pool[userSession[u]].user = u

\* Only steps that named no episode share a session whose env is being reset for the
\* first time.
ResetInv ==
    \A r \in Requests :
        LET s == request[r].session
        IN  /\ request[r].pc = "resetting" =>
                  /\ s \in Live => pool[s].episode_id = NoEpisode
                  /\ \A q \in Requests \ {r} : request[q].session = s => Blind(q)
            /\ request[r].pc = "reset" => env[s].episode = request[r].episode

HitInv == BornInv /\ HoldsInv /\ PoolInv /\ ResetInv /\ StepsHitTheirEpisode

\* An episode belongs to the one user who is told of it, when its row is there.
KnownInv ==
    /\ \A r \in Requests : Starting(r) =>
          /\ request[r].episode <= episodes
          /\ \A u \in Users : request[r].episode \notin known[u]
          /\ \A q \in Requests \ {r} : Starting(q) => request[q].episode # request[r].episode
    /\ \A u \in Users :
          /\ \A e \in known[u] : e <= episodes
          /\ \A w \in Users \ {u} : known[u] \intersect known[w] = {}

RowsInv ==
    /\ \A r \in Requests :
          request[r].pc = "persisting" /\ "create" \notin request[r].todo
              => rows[request[r].episode] # "none"
    /\ \A r \in Requests :
          request[r].pc = "persisting" => request[r].user \notin DemoUsers
    /\ \A u \in Users \ DemoUsers : \A e \in known[u] : rows[e] # "none"

\* A step sent after the answer to its reset is of an episode its user knows, and so are
\* the ends of such steps.
EndsInv ==
    /\ \A r \in Requests : Stepping(r) /\ request[r].told
          => request[r].episode \in known[request[r].user]
    /\ \A r \in Requests : request[r].pc = "finalizing" => request[r].status # "running"
    /\ \A e \in Episodes : <<e, TRUE>> \in filed => \E u \in Users : e \in known[u]

FileInv == KnownInv /\ RowsInv /\ EndsInv /\ FinishedEpisodesAreFiled

Inv == TypeOK /\ CountInv /\ HitInv /\ FileInv

LEMMA Numbers ==
    /\ MaxConcurrent \in Nat /\ EpisodesPerMonth \in Nat /\ MaxSessions \in Nat
    /\ IsFiniteSet(Requests)
BY SessionsAssumption DEF SessionsAssumption

LEMMA InitHolds == Init => Inv
<1> SUFFICES ASSUME Init PROVE Inv
  OBVIOUS
<1> USE Numbers
<1>1. Live = {}
  BY DEF Init, Live
<1>2. Creating = {} /\ Fresh = {}
  BY DEF Init, Creating, Fresh, Resetting, Idle, NewRequest
<1>3. TypeOK
  BY <1>1 DEF Init, TypeOK, SessionIds, EnvModel, Episodes, Statuses, RequestModel, Idle,
              NewRequest
<1>4. CountInv
  BY <1>2, FS_EmptySet DEF Init, CountInv
<1>5. HitInv
  BY <1>1 DEF Init, HitInv, BornInv, HoldsInv, PoolInv, ResetInv, StepsHitTheirEpisode,
              Working, Starting, Idle, NewRequest, NoSession
<1>6. FileInv
  BY <1>1 DEF Init, FileInv, KnownInv, RowsInv, EndsInv, FinishedEpisodesAreFiled,
              Starting, Stepping, Idle, NewRequest
<1> QED
  BY <1>3, <1>4, <1>5, <1>6 DEF Inv

-----------------------------------------------------------------------------
(* Counting the requests                                                     *)

LEMMA OneChanges ==
    ASSUME NEW S, NEW T, NEW r, IsFiniteSet(S), S \ {r} = T \ {r}
    PROVE  /\ Cardinality(S) \in Nat /\ Cardinality(T) \in Nat
           /\ r \in S /\ r \in T => Cardinality(T) = Cardinality(S)
           /\ r \notin S /\ r \notin T => Cardinality(T) = Cardinality(S)
           /\ r \in S /\ r \notin T => Cardinality(T) = Cardinality(S) - 1
           /\ r \notin S /\ r \in T => Cardinality(T) = Cardinality(S) + 1
<1>1. CASE r \in S
  <2>1. IsFiniteSet(S \ {r}) /\ Cardinality(S \ {r}) = Cardinality(S) - 1
    BY <1>1, FS_RemoveElement
  <2>2. r \in T => T = S
    BY <1>1
  <2>3. r \notin T => T = S \ {r}
    BY <1>1
  <2> QED
    BY <1>1, <2>1, <2>2, <2>3, FS_CardinalityType
<1>2. CASE r \notin S
  <2>1. IsFiniteSet(S \union {r}) /\ Cardinality(S \union {r}) = Cardinality(S) + 1
    BY <1>2, FS_AddElement
  <2>2. r \in T => T = S \union {r}
    BY <1>2
  <2>3. r \notin T => T = S
    BY <1>2
  <2> QED
    BY <1>2, <2>1, <2>2, <2>3, FS_CardinalityType
<1> QED
  BY <1>1, <1>2

\* A request that goes from one set to the other, or neither, changes the counts by one.
LEMMA CountsChange ==
    ASSUME NEW r \in Requests, \A q \in Requests \ {r} : request'[q] = request[q]
    PROVE  /\ Cardinality(Creating) \in Nat /\ Cardinality(Fresh) \in Nat
           /\ Cardinality(Creating') =
                 Cardinality(Creating) + (IF Resetting(r)' THEN 1 ELSE 0)
                                       - (IF Resetting(r) THEN 1 ELSE 0)
           /\ Cardinality(Fresh') =
                 Cardinality(Fresh) + (IF request'[r].pc = "resetting" THEN 1 ELSE 0)
                                    - (IF request[r].pc = "resetting" THEN 1 ELSE 0)
<1>1. IsFiniteSet(Creating) /\ IsFiniteSet(Fresh)
  BY Numbers, FS_Subset DEF Creating, Fresh
<1>2. Creating \ {r} = Creating' \ {r} /\ Fresh \ {r} = Fresh' \ {r}
  BY DEF Creating, Fresh, Resetting
<1>3. (r \in Creating <=> Resetting(r)) /\ (r \in Creating' <=> Resetting(r)')
  BY DEF Creating, Resetting
<1>4. /\ r \in Fresh <=> request[r].pc = "resetting"
      /\ r \in Fresh' <=> request'[r].pc = "resetting"
  BY DEF Fresh
<1> HIDE DEF Creating, Fresh
<1>5. /\ Cardinality(Creating) \in Nat
      /\ Cardinality(Creating') = Cardinality(Creating) + (IF r \in Creating' THEN 1 ELSE 0)
                                                        - (IF r \in Creating THEN 1 ELSE 0)
  BY <1>1, <1>2, OneChanges
<1>6. /\ Cardinality(Fresh) \in Nat
      /\ Cardinality(Fresh') = Cardinality(Fresh) + (IF r \in Fresh' THEN 1 ELSE 0)
                                                  - (IF r \in Fresh THEN 1 ELSE 0)
  BY <1>1, <1>2, OneChanges
<1> QED
  BY <1>3, <1>4, <1>5, <1>6

\* The count of sessions and of episodes after a move of a request from pc to pc.
LEMMA CountKept ==
    ASSUME TypeOK, CountInv, NEW r \in Requests,
           \A q \in Requests \ {r} : request'[q] = request[q],
           created' = created, episodes' = episodes,
           Resetting(r)' => Resetting(r),
           request'[r].pc = "resetting" <=> request[r].pc = "resetting"
    PROVE  CountInv'
BY CountsChange, Numbers DEF CountInv, TypeOK

LEMMA CountSame ==
    ASSUME CountInv, UNCHANGED <<request, created, episodes>> PROVE CountInv'
BY DEF CountInv, Creating, Fresh, Resetting

\* What a request becomes, action by action.
LEMMA PcsOf ==
    ASSUME TypeOK, NEW r \in Requests
    PROVE  /\ request[r] \in RequestModel
           /\ \A x : request' = [request EXCEPT ![r] = x] =>
                 request'[r] = x /\ \A q \in Requests \ {r} : request'[q] = request[q]
BY DEF TypeOK

LEMMA CreateCounts ==
    ASSUME TypeOK, CountInv, NEW r \in Requests, Resetting(r), CreateSession(r),
           episodes' = episodes
    PROVE  CountInv'
<1>1. CASE Cardinality(Live) >= MaxConcurrent
  <2>1. request' = [request EXCEPT ![r] = Idle] /\ created' = created
    BY <1>1 DEF CreateSession, Done
  <2> QED
    BY <2>1, CountKept DEF TypeOK, Resetting, Idle, NewRequest
<1>2. CASE ~(Cardinality(Live) >= MaxConcurrent)
  <2>1. /\ request' = [request EXCEPT ![r].pc = "resetting", ![r].session = created']
        /\ created' = created + 1
    BY <1>2 DEF CreateSession, NewSession
  <2>2. /\ request'[r].pc = "resetting" /\ ~Resetting(r)'
        /\ \A q \in Requests \ {r} : request'[q] = request[q]
    BY <2>1 DEF TypeOK, Resetting, RequestModel
  <2> QED
    BY <2>1, <2>2, CountsChange, Numbers DEF CountInv, TypeOK, Resetting
<1> QED
  BY <1>1, <1>2

LEMMA NextCount == ASSUME TypeOK, CountInv, [Next]_vars PROVE CountInv'
<1> USE DEF TypeOK, RequestModel, Resetting
<1>1. ASSUME NEW r \in Requests, NEW u \in Users, ResetBegins(r, u) PROVE CountInv'
  <2>1. /\ created + Cardinality(Creating) < MaxSessions
        /\ request[r].pc = "idle" /\ created' = created /\ episodes' = episodes
        /\ request' = [request EXCEPT ![r] =
                          NewRequest(u, IF HasQuota(u) THEN "quota" ELSE "checked")]
    BY <1>1 DEF ResetBegins, Creating
  <2>2. /\ Resetting(r)' /\ request'[r].pc # "resetting"
        /\ \A q \in Requests \ {r} : request'[q] = request[q]
    BY <2>1 DEF NewRequest
  <2> QED
    BY <2>1, <2>2, CountsChange, Numbers DEF CountInv
<1>2. ASSUME NEW r \in Requests, ReadQuota(r) PROVE CountInv'
  BY <1>2, CountKept DEF ReadQuota
<1>3. ASSUME NEW r \in Requests, QuotaExceeded(r) PROVE CountInv'
  BY <1>3, CountKept DEF QuotaExceeded, Done, Idle, NewRequest
<1>4. ASSUME NEW r \in Requests, CloseOldSession(r) PROVE CountInv'
  <2>1. request[r].pc = "checked" /\ episodes' = episodes
    BY <1>4 DEF CloseOldSession
  <2>2. CASE CreateSession(r)
    BY <2>1, <2>2, CreateCounts
  <2>3. CASE ~CreateSession(r)
    <3>1. Goto(r, "closing") /\ created' = created
      BY <1>4, <2>3 DEF CloseOldSession
    <3> QED
      BY <2>1, <3>1, CountKept DEF Goto
  <2> QED
    BY <2>2, <2>3
<1>5. ASSUME NEW r \in Requests, OldSessionClosed(r) PROVE CountInv'
  BY <1>5, CreateCounts DEF OldSessionClosed
<1>6. ASSUME NEW r \in Requests, EnvReset(r) PROVE CountInv'
  <2>1. /\ request[r].pc = "resetting" /\ created' = created /\ episodes' = episodes + 1
        /\ request' = [request EXCEPT ![r].pc = "reset", ![r].episode = episodes']
    BY <1>6 DEF EnvReset
  <2>2. /\ request'[r].pc = "reset" /\ \A q \in Requests \ {r} : request'[q] = request[q]
    BY <2>1
  <2> QED
    BY <2>1, <2>2, CountsChange, Numbers DEF CountInv
<1>7. ASSUME NEW r \in Requests, ResetReturns(r) PROVE CountInv'
  BY <1>7, CountKept DEF ResetReturns, Done, Idle, NewRequest
<1>8. ASSUME NEW r \in Requests, InsertRow(r) \/ ReadCount(r) \/ WriteCount(r) PROVE CountInv'
  BY <1>8, CountKept DEF InsertRow, ReadCount, WriteCount
<1>9. ASSUME NEW r \in Requests, ResetAnswered(r) PROVE CountInv'
  BY <1>9, CountKept DEF ResetAnswered, Done, Idle, NewRequest
<1>10. ASSUME NEW r \in Requests, NEW u \in Users, NEW e \in Episodes \union {NoEpisode},
              StepBegins(r, u, e)
       PROVE CountInv'
  BY <1>10, CountKept DEF StepBegins, NewRequest
<1>11. ASSUME NEW r \in Requests, NEW status \in Statuses, EnvStep(r, status)
       PROVE CountInv'
  BY <1>11, CountKept DEF EnvStep
<1>12. ASSUME NEW r \in Requests, EnvStepRaises(r) \/ Finalize(r) PROVE CountInv'
  BY <1>12, CountKept DEF EnvStepRaises, Finalize, Done, Idle, NewRequest
<1>13. ASSUME NEW r \in Requests, StepReturns(r) PROVE CountInv'
  BY <1>13, CountKept DEF StepReturns, Done, Goto, Idle, NewRequest
<1>14. CASE \/ \E u \in Users : GetState(u) \/ DeleteSession(u)
            \/ \E s \in SessionIds : TtlPasses(s)
            \/ EvictExpired \/ EvictNext \/ UNCHANGED vars
  BY <1>14, CountSame
     DEF GetState, DeleteSession, TtlPasses, EvictExpired, EvictNext, vars
<1> QED
  BY <1>1, <1>2, <1>3, <1>4, <1>5, <1>6, <1>7, <1>8, <1>9, <1>10, <1>11, <1>12, <1>13,
     <1>14 DEF Next

LEMMA SessionLeft ==
    ASSUME TypeOK, CountInv, NEW r \in Requests, Resetting(r)
    PROVE  created + 1 \in SessionIds
<1>1. IsFiniteSet(Creating) /\ Creating # {}
  BY Numbers, FS_Subset DEF Creating
<1>2. Cardinality(Creating) \in Nat /\ Cardinality(Creating) # 0
  BY <1>1, FS_EmptySet, FS_CardinalityType
<1> QED
  BY <1>2, Numbers DEF CountInv, TypeOK, SessionIds

LEMMA EpisodeLeft ==
    ASSUME TypeOK, CountInv, NEW r \in Requests, request[r].pc = "resetting"
    PROVE  episodes + 1 \in Episodes
<1>1. IsFiniteSet(Creating) /\ IsFiniteSet(Fresh) /\ Fresh # {}
  BY Numbers, FS_Subset DEF Creating, Fresh
<1>2. /\ Cardinality(Fresh) \in Nat /\ Cardinality(Fresh) # 0
      /\ Cardinality(Creating) \in Nat
  BY <1>1, FS_EmptySet, FS_CardinalityType
<1> QED
  BY <1>2, Numbers DEF CountInv, TypeOK, Episodes

-----------------------------------------------------------------------------
(* The types                                                                 *)

PoolTypeOK == Live \subseteq SessionIds /\ \A s \in Live : pool[s] \in SessionEntry

LEMMA ShrinksType == ASSUME TypeOK, PoolShrinks PROVE PoolTypeOK'
BY DEF TypeOK, PoolShrinks, PoolTypeOK, SessionEntry, SessionIds, Episodes

\* The new entry is the only one that changes.
LEMMA NewEntry ==
    ASSUME NEW r, NewSession(r)
    PROVE  LET s == created + 1
           IN  /\ created' = s /\ Live' = Live \union {s}
               /\ pool'[s] = [user |-> request[r].user, episode_id |-> NoEpisode,
                              expired |-> FALSE]
               /\ \A x \in Live \ {s} : pool'[x] = pool[x]
               /\ userSession' = [userSession EXCEPT ![request[r].user] = s]
               /\ request' = [request EXCEPT ![r].pc = "resetting", ![r].session = s]
BY DEF NewSession, WithSession, Live

LEMMA Becomes ==
    ASSUME TypeOK, NEW r \in Requests, NEW q \in RequestModel,
           request' = [request EXCEPT ![r] = q]
    PROVE  request' \in [Requests -> RequestModel]
BY DEF TypeOK

LEMMA IdleType ==
    ASSUME NEW u \in Users \union {NoUser}, NEW pc \in {"idle", "quota", "checked", "stepping"}
    PROVE  Idle \in RequestModel /\ NewRequest(u, pc) \in RequestModel
BY DEF Idle, NewRequest, RequestModel, Statuses

LEMMA CreateTypes ==
    ASSUME TypeOK, CountInv, HoldsInv, NEW r \in Requests, Resetting(r), CreateSession(r)
    PROVE  /\ PoolTypeOK' /\ created' \in 0 .. MaxSessions
           /\ userSession' \in [Users -> SessionIds \union {NoSession}]
           /\ request' \in [Requests -> RequestModel]
<1>1. CASE Cardinality(Live) >= MaxConcurrent
  <2>1. PoolTypeOK'
    BY <1>1, SameShrinks, ShrinksType DEF CreateSession
  <2> QED
    BY <1>1, <2>1, IdleType, Becomes DEF CreateSession, Done, TypeOK
<1>2. CASE ~(Cardinality(Live) >= MaxConcurrent)
  <2> DEFINE s == created + 1
  <2>1. NewSession(r)
    BY <1>2 DEF CreateSession
  <2>2. s \in SessionIds /\ request[r].user \in Users
    BY SessionLeft DEF HoldsInv, Resetting
  <2>3. PoolTypeOK'
    <3>1. Live' = Live \union {s} /\ \A x \in Live \ {s} : pool'[x] = pool[x]
      BY <2>1, NewEntry
    <3>2. pool'[s] \in SessionEntry
      <4>1. pool'[s] = [user |-> request[r].user, episode_id |-> NoEpisode,
                        expired |-> FALSE]
        BY <2>1, NewEntry
      <4> QED
        BY <2>2, <4>1 DEF SessionEntry
    <3> QED
      BY <2>2, <3>1, <3>2
         DEF TypeOK, PoolTypeOK, SessionEntry, SessionIds, Episodes
  <2>4. created' = s /\ userSession' = [userSession EXCEPT ![request[r].user] = s]
    BY <2>1, NewEntry
  <2>5. request' = [request EXCEPT ![r].pc = "resetting", ![r].session = s]
    BY <2>1, NewEntry
  <2>6. [request[r] EXCEPT !.pc = "resetting", !.session = s] \in RequestModel
    BY <2>2 DEF TypeOK, RequestModel
  <2>7. request' = [request EXCEPT ![r] = [request[r] EXCEPT !.pc = "resetting",
                                                            !.session = s]]
    BY <2>5 DEF TypeOK
  <2>8. request' \in [Requests -> RequestModel]
    BY <2>6, <2>7, Becomes
  <2> QED
    BY <2>2, <2>3, <2>4, <2>8 DEF TypeOK, SessionIds
<1> QED
  BY <1>1, <1>2

LEMMA NextType == ASSUME TypeOK, CountInv, HoldsInv, [Next]_vars PROVE TypeOK'
<1>a. ASSUME PoolTypeOK',
             UNCHANGED <<env, created, episodes, userSession, rows, monthly, evicting,
                         request, known, filed>>
      PROVE  TypeOK'
  BY <1>a DEF TypeOK, PoolTypeOK, SessionIds, EnvModel, Episodes, RequestModel
<1>b. UNCHANGED pool => PoolTypeOK'
  BY SameShrinks, ShrinksType
<1> USE <1>b DEF TypeOK, RequestModel
<1>1. ASSUME NEW r \in Requests, NEW u \in Users, ResetBegins(r, u) PROVE TypeOK'
  BY <1>1 DEF ResetBegins, NewRequest, PoolTypeOK, SessionIds, Episodes, Statuses
<1>2. ASSUME NEW r \in Requests, ReadQuota(r) PROVE TypeOK'
  <2> DEFINE q == [request[r] EXCEPT !.pc = "checked", !.count = monthly[request[r].user]]
  <2>1. q \in RequestModel
    BY <1>2 DEF ReadQuota, HoldsInv
  <2>2. request' = [request EXCEPT ![r] = q]
    BY <1>2 DEF ReadQuota
  <2>3. request' \in [Requests -> RequestModel]
    BY <2>1, <2>2, Becomes
  <2> QED
    BY <1>2, <2>3 DEF ReadQuota, PoolTypeOK
<1>3. ASSUME NEW r \in Requests, QuotaExceeded(r) PROVE TypeOK'
  BY <1>3 DEF QuotaExceeded, Done, Idle, NewRequest, PoolTypeOK, Statuses
<1>4. ASSUME NEW r \in Requests, CloseOldSession(r) PROVE TypeOK'
  <2>1. request[r].pc = "checked"
    BY <1>4 DEF CloseOldSession
  <2>2. CASE CreateSession(r)
    BY <1>4, <2>1, <2>2, CreateTypes DEF CloseOldSession, PoolTypeOK, Resetting
  <2>3. CASE ~CreateSession(r)
    <3>1. PoolTypeOK'
      BY <1>4, <2>3, WithoutShrinks, ShrinksType DEF CloseOldSession
    <3> QED
      BY <1>4, <2>3, <3>1 DEF CloseOldSession, Goto, PoolTypeOK
  <2> QED
    BY <2>2, <2>3
<1>5. ASSUME NEW r \in Requests, OldSessionClosed(r) PROVE TypeOK'
  BY <1>5, CreateTypes DEF OldSessionClosed, PoolTypeOK, Resetting
<1>6. ASSUME NEW r \in Requests, EnvReset(r) PROVE TypeOK'
  <2> DEFINE e == episodes + 1
             q == [request[r] EXCEPT !.pc = "reset", !.episode = e]
  <2>1. e \in Episodes
    BY <1>6, EpisodeLeft DEF EnvReset
  <2>2. q \in RequestModel
    BY <2>1
  <2>3. request' = [request EXCEPT ![r] = q]
    BY <1>6 DEF EnvReset
  <2>4. request' \in [Requests -> RequestModel]
    BY <2>2, <2>3, Becomes
  <2>5. env' \in [SessionIds -> EnvModel]
    BY <1>6, <2>1 DEF EnvReset, EnvModel, Statuses
  <2> QED
    BY <1>6, <2>1, <2>4, <2>5 DEF EnvReset, PoolTypeOK, Episodes
<1>7. ASSUME NEW r \in Requests, ResetReturns(r) PROVE TypeOK'
  <2>1. request[r].pc = "reset" /\ request[r].episode \in Episodes
        /\ request[r].user \in Users
    BY <1>7 DEF ResetReturns, HoldsInv, Starting, NoEpisode
  <2>2. PoolTypeOK'
    BY <1>7, <2>1, EntersEpisode DEF ResetReturns, Enters, PoolTypeOK, SessionEntry, SessionIds, Episodes
  <2>3. known' \in [Users -> SUBSET Episodes]
    BY <1>7, <2>1 DEF ResetReturns, Answer
  <2>4. request' \in [Requests -> RequestModel]
    <3> DEFINE q == [request[r] EXCEPT !.pc = "persisting", !.todo = Statements]
    <3>1. q \in RequestModel /\ Idle \in RequestModel
      BY DEF Idle, NewRequest, Statuses
    <3>2. request' = [request EXCEPT ![r] = q] \/ request' = [request EXCEPT ![r] = Idle]
      BY <1>7 DEF ResetReturns, Done
    <3> QED
      BY <3>1, <3>2, Becomes
  <2> QED
    BY <1>7, <2>2, <2>3, <2>4 DEF ResetReturns, PoolTypeOK
<1>8. ASSUME NEW r \in Requests, InsertRow(r) PROVE TypeOK'
  <2> DEFINE q == [request[r] EXCEPT !.todo = @ \ {"create"}]
  <2>1. q \in RequestModel /\ request' = [request EXCEPT ![r] = q]
    BY <1>8 DEF InsertRow
  <2>2. request' \in [Requests -> RequestModel]
    BY <2>1, Becomes
  <2> QED
    BY <1>8, <2>2 DEF InsertRow, PoolTypeOK, Statuses
<1>9. ASSUME NEW r \in Requests, ReadCount(r) PROVE TypeOK'
  <2> DEFINE q == [request[r] EXCEPT !.todo = @ \ {"read"},
                                     !.count = monthly[request[r].user]]
  <2>1. q \in RequestModel
    BY <1>9 DEF ReadCount, HoldsInv
  <2>2. request' = [request EXCEPT ![r] = q]
    BY <1>9 DEF ReadCount
  <2>3. request' \in [Requests -> RequestModel]
    BY <2>1, <2>2, Becomes
  <2> QED
    BY <1>9, <2>3 DEF ReadCount, PoolTypeOK
<1>10. ASSUME NEW r \in Requests, WriteCount(r) PROVE TypeOK'
  BY <1>10 DEF WriteCount, PoolTypeOK, HoldsInv
<1>11. ASSUME NEW r \in Requests, ResetAnswered(r) PROVE TypeOK'
  BY <1>11 DEF ResetAnswered, Answer, Done, Idle, NewRequest, PoolTypeOK, HoldsInv,
               Starting, Statuses, Episodes, NoEpisode
<1>12. ASSUME NEW r \in Requests, NEW u \in Users, NEW e \in Episodes \union {NoEpisode},
              StepBegins(r, u, e)
       PROVE TypeOK'
  <2> DEFINE q == [NewRequest(u, "stepping") EXCEPT !.session = userSession[u],
                                                     !.episode = e, !.told = e \in known[u]]
  <2>1. NewRequest(u, "stepping") \in RequestModel
    BY IdleType
  <2>2. userSession[u] \in SessionIds \union {NoSession} /\ (e \in known[u]) \in BOOLEAN
    OBVIOUS
  <2>3. q \in RequestModel
    BY <2>1, <2>2
  <2>4. request' = [request EXCEPT ![r] = q]
    BY <1>12 DEF StepBegins
  <2>5. request' \in [Requests -> RequestModel]
    BY <2>3, <2>4, Becomes
  <2> QED
    BY <1>12, <2>5 DEF StepBegins, PoolTypeOK
<1>13. ASSUME NEW r \in Requests, NEW status \in Statuses, EnvStep(r, status) PROVE TypeOK'
  <2> DEFINE q == [request[r] EXCEPT !.pc = "stepped", !.status = status]
  <2>1. q \in RequestModel
    OBVIOUS
  <2>2. request' = [request EXCEPT ![r] = q]
    BY <1>13 DEF EnvStep
  <2>3. request' \in [Requests -> RequestModel]
    BY <2>1, <2>2, Becomes
  <2>4. [env[request[r].session] EXCEPT !.status = status] \in EnvModel
    BY <1>13 DEF EnvStep, HoldsInv, Working, EnvModel, NoSession
  <2>5. env' \in [SessionIds -> EnvModel]
    BY <1>13, <2>4 DEF EnvStep
  <2> QED
    BY <1>13, <2>3, <2>5 DEF EnvStep, PoolTypeOK
<1>14. ASSUME NEW r \in Requests, EnvStepRaises(r) PROVE TypeOK'
  BY <1>14 DEF EnvStepRaises, Done, Idle, NewRequest, PoolTypeOK, Statuses
<1>15. ASSUME NEW r \in Requests, StepReturns(r) PROVE TypeOK'
  <2>1. PoolTypeOK'
    BY <1>15, TouchedShrinks, ShrinksType DEF StepReturns
  <2> DEFINE q == IF request[r].status = "running" THEN Idle
                  ELSE [request[r] EXCEPT !.pc = "finalizing"]
  <2>2. q \in RequestModel
    BY IdleType
  <2>3. request' = [request EXCEPT ![r] = q]
    BY <1>15 DEF StepReturns, Done, Goto
  <2>4. request' \in [Requests -> RequestModel]
    BY <2>2, <2>3, Becomes
  <2> QED
    BY <1>15, <2>1, <2>4 DEF StepReturns, PoolTypeOK
<1>16. ASSUME NEW r \in Requests, Finalize(r) PROVE TypeOK'
  <2>1. rows' \in [Episodes -> Statuses \union {"none"}]
    BY <1>16 DEF Finalize
  <2>2. filed' \subseteq (Episodes \union {NoEpisode}) \X BOOLEAN
    BY <1>16 DEF Finalize
  <2> QED
    BY <1>16, <2>1, <2>2 DEF Finalize, Done, Idle, NewRequest, PoolTypeOK, Statuses
<1>17. ASSUME NEW u \in Users, GetState(u) PROVE TypeOK'
  BY <1>17, <1>a, TouchedShrinks, ShrinksType DEF GetState
<1>18. ASSUME NEW u \in Users, DeleteSession(u) PROVE TypeOK'
  <2>1. PoolTypeOK'
    BY <1>18, WithoutShrinks, ShrinksType DEF DeleteSession
  <2> QED
    BY <1>18, <2>1 DEF DeleteSession, PoolTypeOK
<1>19. ASSUME NEW s \in SessionIds, TtlPasses(s) PROVE TypeOK'
  BY <1>19, <1>a, TtlShrinks, ShrinksType DEF TtlPasses
<1>20. CASE EvictExpired \/ EvictNext
  <2>1. PoolTypeOK'
    BY <1>20, WithoutShrinks, ShrinksType DEF EvictExpired, EvictNext
  <2>2. evicting' \subseteq SessionIds
    BY <1>20 DEF EvictExpired, EvictNext, Expired
  <2> QED
    BY <1>20, <2>1, <2>2 DEF EvictExpired, EvictNext, PoolTypeOK
<1>21. CASE UNCHANGED vars
  BY <1>21, <1>a, <1>b DEF vars
<1> QED
  BY <1>1, <1>2, <1>3, <1>4, <1>5, <1>6, <1>7, <1>8, <1>9, <1>10, <1>11, <1>12, <1>13,
     <1>14, <1>15, <1>16, <1>17, <1>18, <1>19, <1>20, <1>21 DEF Next

-----------------------------------------------------------------------------
(* Steps hit their episode                                                   *)

\* A request goes on, or ends, without a session that is new to it, or with one that has
\* an episode, or without having named one.
HitMove(r) ==
    LET q == request'[r]
    IN  /\ q.session <= created
        /\ q.pc # "idle" => q.user \in Users
        /\ q.pc \in Working => q.session # NoSession
        /\ q.pc = "persisting" => q.episode # NoEpisode
        /\ q.pc \notin {"resetting", "reset"}
        /\ \/ q.session = NoSession
           \/ q.session = request[r].session /\ ~Blind(r)
           \/ q.session \in Live /\ pool[q.session].episode_id # NoEpisode
           \/ Blind(r)'
        /\ Stepping(r)' /\ q.episode # NoEpisode =>
              /\ env[q.session].episode = q.episode
              /\ q.session \in Live => pool[q.session].user = q.user

\* The pool and the environments as the requests that move on see them.
Frame ==
    /\ PoolShrinks
    /\ created' = created
    /\ \A u \in Users : userSession'[u] \in {userSession[u], NoSession}
    /\ \A s \in SessionIds : env'[s].episode = env[s].episode

LEMMA FrameKeepsHits ==
    ASSUME TypeOK, TypeOK', HitInv, Frame,
           \A r \in Requests : request'[r] = request[r] \/ HitMove(r)
    PROVE  HitInv'
<1> USE DEF HitInv
<1>1. /\ Live' \subseteq Live /\ Live \subseteq SessionIds /\ created \in Nat
      /\ \A s \in Live' : pool'[s].user = pool[s].user
                          /\ pool'[s].episode_id = pool[s].episode_id
  BY Numbers DEF TypeOK, Frame, PoolShrinks
<1>2. NoSession \notin Live /\ NoSession \notin Live' /\ NoSession <= created
  BY <1>1 DEF SessionIds, NoSession
<1>3. \A r \in Requests :
         /\ request[r].session \in SessionIds \union {NoSession}
         /\ request'[r].session \in SessionIds \union {NoSession}
  BY DEF TypeOK, RequestModel
<1>4. BornInv'
  <2>1. \A r \in Requests : request'[r].session <= created
    BY DEF BornInv, HitMove
  <2>2. \A u \in Users : userSession'[u] <= created
    BY <1>2 DEF BornInv, Frame
  <2> QED
    BY <1>1, <2>1, <2>2 DEF BornInv, Frame
<1>5. HoldsInv'
  BY DEF HoldsInv, HitMove, Working, Starting
<1>6. PoolInv'
  <2>1. \A s \in Live' : pool'[s].episode_id # NoEpisode
                             => env'[s].episode = pool'[s].episode_id
    BY <1>1 DEF PoolInv, Frame
  <2>2. \A u \in Users : userSession'[u] \in Live' => pool'[userSession'[u]].user = u
    BY <1>1, <1>2 DEF PoolInv, Frame
  <2> QED
    BY <2>1, <2>2 DEF PoolInv
<1>7. ResetInv'
  <2> SUFFICES ASSUME NEW r \in Requests, request'[r].pc \in {"resetting", "reset"}
               PROVE  LET s == request'[r].session
                      IN  /\ request'[r].pc = "resetting" =>
                                /\ s \in Live' => pool'[s].episode_id = NoEpisode
                                /\ \A q \in Requests \ {r} :
                                      request'[q].session = s => Blind(q)'
                          /\ request'[r].pc = "reset" => env'[s].episode = request'[r].episode
    BY DEF ResetInv
  <2> DEFINE s == request[r].session
  <2>1. request'[r] = request[r]
    BY DEF HitMove
  <2>2. s # NoSession /\ s \in SessionIds
    BY <1>3, <2>1 DEF HoldsInv, Working
  <2>3. CASE request[r].pc = "resetting"
    <3>1. /\ s \in Live => pool[s].episode_id = NoEpisode
          /\ \A q \in Requests \ {r} : request[q].session = s => Blind(q)
      BY <2>3 DEF ResetInv
    <3>2. ASSUME NEW q \in Requests \ {r}, request'[q].session = s PROVE Blind(q)'
      <4>1. CASE request'[q] = request[q]
        BY <3>1, <3>2, <4>1 DEF Blind, Stepping
      <4>2. CASE HitMove(q)
        BY <2>2, <3>1, <3>2, <4>2 DEF HitMove
      <4> QED
        BY <4>1, <4>2
    <3> QED
      BY <1>1, <2>1, <2>3, <3>1, <3>2
  <2>4. CASE request[r].pc = "reset"
    BY <2>1, <2>2, <2>4 DEF ResetInv, Frame
  <2> QED
    BY <2>1, <2>3, <2>4
<1>8. StepsHitTheirEpisode'
  <2> SUFFICES ASSUME NEW r \in Requests,
                      Stepping(r)', request'[r].episode # NoEpisode
               PROVE  /\ env'[request'[r].session].episode = request'[r].episode
                      /\ request'[r].session \in Live' =>
                            pool'[request'[r].session].user = request'[r].user
    BY DEF StepsHitTheirEpisode, Stepping
  <2> DEFINE s == request'[r].session
  <2>1. s \in SessionIds
    BY <1>3, <1>5 DEF HoldsInv, Working, Stepping
  <2>2. /\ env[s].episode = request'[r].episode
        /\ s \in Live => pool[s].user = request'[r].user
    BY DEF StepsHitTheirEpisode, HitMove, Stepping
  <2> QED
    BY <1>1, <2>1, <2>2 DEF Frame
<1> QED
  BY <1>4, <1>5, <1>6, <1>7, <1>8

LEMMA SameEnv == env' = env => \A s \in SessionIds : env'[s].episode = env[s].episode
OBVIOUS

LEMMA EndsMove ==
    ASSUME TypeOK, NEW r \in Requests, request' = [request EXCEPT ![r] = Idle]
    PROVE  /\ HitMove(r)
           /\ \A q \in Requests \ {r} : request'[q] = request[q]
BY Numbers DEF TypeOK, HitMove, Stepping, Idle, NewRequest, Working, NoSession

LEMMA CreateHits ==
    ASSUME TypeOK, TypeOK', CountInv, HitInv, NEW r \in Requests, Resetting(r),
           CreateSession(r), env' = env
    PROVE  HitInv'
<1>1. CASE Cardinality(Live) >= MaxConcurrent
  <2>1. Done(r) /\ UNCHANGED <<pool, created, userSession>>
    BY <1>1 DEF CreateSession
  <2>2. Frame
    BY <2>1, SameShrinks DEF Frame
  <2> QED
    BY <2>1, <2>2, EndsMove, FrameKeepsHits DEF Done
<1>2. CASE ~(Cardinality(Live) >= MaxConcurrent)
  <2> DEFINE s == created + 1
  <2>1. NewSession(r)
    BY <1>2 DEF CreateSession
  <2>2. /\ s \in SessionIds /\ s \notin Live /\ request[r].user \in Users
        /\ \A q \in Requests : request[q].session # s
        /\ \A u \in Users : userSession[u] # s
    BY SessionLeft, Numbers DEF HitInv, BornInv, HoldsInv, Resetting, TypeOK, RequestModel,
       SessionIds, NoSession
  <2>3. /\ created' = s /\ Live' = Live \union {s}
        /\ pool'[s].user = request[r].user /\ pool'[s].episode_id = NoEpisode
        /\ \A x \in Live : pool'[x] = pool[x]
    <3>1. /\ created' = s /\ Live' = Live \union {s}
          /\ pool'[s] = [user |-> request[r].user, episode_id |-> NoEpisode,
                         expired |-> FALSE]
          /\ \A x \in Live \ {s} : pool'[x] = pool[x]
      BY <2>1, NewEntry
    <3> QED
      BY <2>2, <3>1
  <2>4. /\ userSession'[request[r].user] = s
        /\ \A u \in Users : u # request[r].user => userSession'[u] = userSession[u]
    <3>1. userSession' = [userSession EXCEPT ![request[r].user] = s]
      BY <2>1, NewEntry
    <3> QED
      BY <2>2, <3>1 DEF TypeOK
  <2>5. /\ request'[r].pc = "resetting" /\ request'[r].session = s
        /\ request'[r].user = request[r].user
        /\ \A q \in Requests \ {r} : request'[q] = request[q]
    <3>1. request' = [request EXCEPT ![r].pc = "resetting", ![r].session = s]
      BY <2>1, NewEntry
    <3> QED
      BY <3>1 DEF TypeOK, RequestModel
  <2>6. BornInv'
    <3>1. created \in Nat /\ \A x \in Live : x \in Nat
      BY Numbers DEF TypeOK, SessionIds
    <3>2. /\ \A u \in Users : userSession[u] \in Nat
          /\ \A q \in Requests : request[q].session \in Nat
      <4>1. \A x \in SessionIds \union {NoSession} : x \in Nat
        BY Numbers DEF SessionIds, NoSession
      <4>2. \A u \in Users : userSession[u] \in SessionIds \union {NoSession}
        BY DEF TypeOK
      <4>3. \A q \in Requests : request[q].session \in SessionIds \union {NoSession}
        BY DEF TypeOK, RequestModel
      <4> QED
        BY <4>1, <4>2, <4>3
    <3>3. \A x \in Live' : x <= s
      BY <2>3, <3>1 DEF HitInv, BornInv
    <3>4. \A u \in Users : userSession'[u] <= s
      BY <2>4, <3>1, <3>2 DEF HitInv, BornInv
    <3>5. \A q \in Requests : request'[q].session <= s
      BY <2>5, <3>1, <3>2 DEF HitInv, BornInv
    <3> QED
      BY <2>3, <3>3, <3>4, <3>5 DEF BornInv
  <2>7. HoldsInv'
    BY <2>2, <2>5 DEF HitInv, HoldsInv, Working, Starting, SessionIds, NoSession
  <2>8. PoolInv'
    <3>1. \A x \in Live' : pool'[x].episode_id # NoEpisode
                               => env'[x].episode = pool'[x].episode_id
      BY <2>3 DEF HitInv, PoolInv
    <3>2. \A u \in Users : userSession'[u] \in Live' => pool'[userSession'[u]].user = u
      BY <2>2, <2>3, <2>4 DEF HitInv, PoolInv
    <3> QED
      BY <3>1, <3>2 DEF PoolInv
  <2>9. ResetInv'
    <3> SUFFICES ASSUME NEW q \in Requests
                 PROVE  LET x == request'[q].session
                        IN  /\ request'[q].pc = "resetting" =>
                                  /\ x \in Live' => pool'[x].episode_id = NoEpisode
                                  /\ \A p \in Requests \ {q} :
                                        request'[p].session = x => Blind(p)'
                            /\ request'[q].pc = "reset" =>
                                  env'[x].episode = request'[q].episode
      BY DEF ResetInv
    <3>1. CASE q = r
      BY <2>2, <2>3, <2>5, <3>1
    <3>2. CASE q # r
      BY <2>2, <2>3, <2>5, <3>2 DEF HitInv, ResetInv, Blind, Stepping
    <3> QED
      BY <3>1, <3>2
  <2>10. StepsHitTheirEpisode'
    BY <2>2, <2>3, <2>5 DEF HitInv, StepsHitTheirEpisode
  <2> QED
    BY <2>6, <2>7, <2>8, <2>9, <2>10 DEF HitInv
<1> QED
  BY <1>1, <1>2

LEMMA EnvResetHits ==
    ASSUME TypeOK, TypeOK', CountInv, HitInv, NEW r \in Requests, EnvReset(r)
    PROVE  HitInv'
<1> DEFINE s == request[r].session
           e == episodes + 1
<1>1. /\ request[r].pc = "resetting" /\ s \in SessionIds /\ s # NoSession
      /\ UNCHANGED <<pool, created, userSession>> /\ Live' = Live
  BY DEF EnvReset, HitInv, HoldsInv, Working, TypeOK, RequestModel, Live
<1>2. /\ env'[s].episode = e /\ e # NoEpisode
      /\ \A x \in SessionIds \ {s} : env'[x] = env[x]
  BY <1>1, EpisodeLeft DEF EnvReset, TypeOK, Episodes, NoEpisode
<1>3. /\ request'[r].pc = "reset" /\ request'[r].session = s /\ request'[r].episode = e
      /\ request'[r].user = request[r].user
      /\ \A q \in Requests \ {r} : request'[q] = request[q]
  BY DEF EnvReset, TypeOK, RequestModel
<1>4. /\ s \in Live => pool[s].episode_id = NoEpisode
      /\ \A q \in Requests \ {r} : request[q].session = s => Blind(q)
  BY <1>1 DEF HitInv, ResetInv
<1>5. \A q \in Requests : request[q].pc \in Working => request[q].session \in SessionIds
  BY DEF HitInv, HoldsInv, TypeOK, RequestModel
<1>6. BornInv'
  BY <1>1, <1>3 DEF HitInv, BornInv
<1>7. HoldsInv'
  BY <1>1, <1>2, <1>3 DEF HitInv, HoldsInv, Working, Starting
<1>8. PoolInv'
  BY <1>1, <1>2, <1>4 DEF HitInv, PoolInv, TypeOK
<1>9. ResetInv'
  BY <1>1, <1>2, <1>3, <1>4, <1>5 DEF HitInv, ResetInv, Working, Blind, Stepping
<1>10. StepsHitTheirEpisode'
  BY <1>1, <1>2, <1>3, <1>4, <1>5 DEF HitInv, StepsHitTheirEpisode, Working, Blind, Stepping
<1> QED
  BY <1>6, <1>7, <1>8, <1>9, <1>10 DEF HitInv

LEMMA ResetReturnsHits ==
    ASSUME TypeOK, TypeOK', HitInv, NEW r \in Requests, ResetReturns(r)
    PROVE  HitInv'
<1> DEFINE s == request[r].session
           e == request[r].episode
<1>1. /\ request[r].pc = "reset" /\ s \in SessionIds /\ e \in Episodes /\ e # NoEpisode
      /\ request[r].user \in Users
      /\ UNCHANGED <<env, created, userSession>> /\ Enters(s, e)
  BY DEF ResetReturns, Enters, HitInv, HoldsInv, Working, Starting, TypeOK, RequestModel
<1>2. /\ Live' = Live
      /\ \A x \in Live : /\ pool'[x].user = pool[x].user
                         /\ pool'[x].episode_id = IF x = s THEN e ELSE pool[x].episode_id
  BY <1>1, EntersEpisode
<1>3. /\ request'[r].pc \in {"idle", "persisting"}
      /\ request'[r].session \in {s, NoSession}
      /\ request'[r].pc = "persisting" =>
            request'[r].session = s /\ request'[r].episode = e
            /\ request'[r].user = request[r].user
      /\ \A q \in Requests \ {r} : request'[q] = request[q]
  BY DEF ResetReturns, Done, Idle, NewRequest, TypeOK, RequestModel
<1>4. \A q \in Requests \ {r} : request[q].pc = "resetting" => request[q].session # s
  BY <1>1 DEF HitInv, ResetInv, Blind, Stepping
<1>5. env[s].episode = e
  BY <1>1 DEF HitInv, ResetInv
<1>6. BornInv'
  BY <1>1, <1>2, <1>3, Numbers DEF HitInv, BornInv, NoSession, TypeOK
<1>7. HoldsInv'
  BY <1>1, <1>3 DEF HitInv, HoldsInv, Working, Starting, SessionIds, NoSession
<1>8. PoolInv'
  BY <1>1, <1>2, <1>5 DEF HitInv, PoolInv
<1>9. ResetInv'
  <2> SUFFICES ASSUME NEW q \in Requests
               PROVE  LET x == request'[q].session
                      IN  /\ request'[q].pc = "resetting" =>
                                /\ x \in Live' => pool'[x].episode_id = NoEpisode
                                /\ \A p \in Requests \ {q} :
                                      request'[p].session = x => Blind(p)'
                          /\ request'[q].pc = "reset" => env'[x].episode = request'[q].episode
    BY DEF ResetInv
  <2>1. q # r => request'[q] = request[q]
    BY <1>3
  <2>2. CASE request'[q].pc = "resetting"
    <3>1. q # r /\ request[q].pc = "resetting" /\ request[q].session # NoSession
      BY <1>3, <2>1, <2>2 DEF HitInv, HoldsInv, Working
    <3>2. \A p \in Requests \ {q} : request[p].session = request[q].session => Blind(p)
      BY <3>1 DEF HitInv, ResetInv
    <3>3. request'[r].session # request[q].session
      BY <1>3, <1>4, <3>1
    <3>4. \A p \in Requests \ {q} : request'[p].session = request[q].session => Blind(p)'
      BY <1>3, <3>2, <3>3 DEF Blind, Stepping
    <3> QED
      BY <1>2, <1>4, <2>1, <2>2, <3>1, <3>4 DEF HitInv, ResetInv
  <2>3. CASE request'[q].pc = "reset"
    BY <1>1, <1>3, <2>1, <2>3 DEF HitInv, ResetInv
  <2> QED
    BY <2>2, <2>3
<1>10. StepsHitTheirEpisode'
  BY <1>1, <1>2, <1>3 DEF HitInv, StepsHitTheirEpisode
<1> QED
  BY <1>6, <1>7, <1>8, <1>9, <1>10 DEF HitInv

\* A request that keeps its session and its episode, at another place of its code.
LEMMA GoesOn ==
    ASSUME TypeOK, HitInv, NEW r \in Requests,
           request[r].pc # "idle",
           request'[r].user = request[r].user,
           request'[r].session = request[r].session,
           request'[r].episode = request[r].episode,
           \/ request[r].pc \in {"quota", "checked"} /\ request'[r].pc \in {"checked", "closing"}
           \/ request[r].pc = "persisting" /\ request'[r].pc = "persisting"
           \/ request[r].pc = "stepping" /\ request'[r].pc = "stepped"
           \/ request[r].pc = "stepped" /\ request'[r].pc = "finalizing"
    PROVE  HitMove(r)
BY DEF HitInv, HitMove, BornInv, HoldsInv, StepsHitTheirEpisode, Working, Starting, Blind,
       Stepping

LEMMA NextHits ==
    ASSUME TypeOK, TypeOK', CountInv, HitInv, [Next]_vars PROVE HitInv'
<1>a. \A r \in Requests : request[r] \in RequestModel
  BY DEF TypeOK
<1>b. UNCHANGED <<pool, env, created, userSession>> => Frame
  BY SameShrinks DEF Frame
<1>1. ASSUME NEW r \in Requests, NEW u \in Users, ResetBegins(r, u) PROVE HitInv'
  <2>1. HitMove(r) /\ \A q \in Requests \ {r} : request'[q] = request[q]
    BY <1>1, Numbers DEF ResetBegins, HitMove, Stepping, NewRequest, Working, NoSession, TypeOK
  <2> QED
    BY <1>1, <1>b, <2>1, FrameKeepsHits DEF ResetBegins
<1>2. ASSUME NEW r \in Requests, ReadQuota(r) PROVE HitInv'
  <2>1. /\ request[r].pc = "quota" /\ request'[r].pc = "checked"
        /\ request'[r].user = request[r].user
        /\ request'[r].session = request[r].session
        /\ request'[r].episode = request[r].episode
        /\ \A q \in Requests \ {r} : request'[q] = request[q]
    BY <1>2, <1>a DEF ReadQuota, TypeOK, RequestModel
  <2> QED
    BY <1>2, <1>b, <2>1, GoesOn, FrameKeepsHits DEF ReadQuota
<1>3. ASSUME NEW r \in Requests, QuotaExceeded(r) PROVE HitInv'
  BY <1>3, <1>b, EndsMove, FrameKeepsHits DEF QuotaExceeded, Done
<1>4. ASSUME NEW r \in Requests, CloseOldSession(r) PROVE HitInv'
  <2>1. request[r].pc = "checked" /\ env' = env
    BY <1>4 DEF CloseOldSession
  <2>2. CASE CreateSession(r)
    BY <2>1, <2>2, CreateHits DEF Resetting
  <2>3. CASE ~CreateSession(r)
    <3>1. Goto(r, "closing") /\ pool' = WithoutSession(userSession[request[r].user])
          /\ UNCHANGED <<created, userSession>>
      BY <1>4, <2>3 DEF CloseOldSession
    <3>2. Frame
      BY <2>1, <3>1, WithoutShrinks DEF Frame
    <3>3. /\ request'[r].pc = "closing" /\ request'[r].user = request[r].user
          /\ request'[r].session = request[r].session
          /\ request'[r].episode = request[r].episode
          /\ \A q \in Requests \ {r} : request'[q] = request[q]
      BY <3>1, <1>a DEF Goto, TypeOK, RequestModel
    <3> QED
      BY <2>1, <3>2, <3>3, GoesOn, FrameKeepsHits
  <2> QED
    BY <2>2, <2>3
<1>5. ASSUME NEW r \in Requests, OldSessionClosed(r) PROVE HitInv'
  BY <1>5, CreateHits DEF OldSessionClosed, Resetting
<1>6. ASSUME NEW r \in Requests, EnvReset(r) PROVE HitInv'
  BY <1>6, EnvResetHits
<1>7. ASSUME NEW r \in Requests, ResetReturns(r) PROVE HitInv'
  BY <1>7, ResetReturnsHits
<1>8. ASSUME NEW r \in Requests, InsertRow(r) \/ ReadCount(r) \/ WriteCount(r)
      PROVE  HitInv'
  <2>1. /\ request[r].pc = "persisting" /\ request'[r].pc = "persisting"
        /\ request'[r].user = request[r].user
        /\ request'[r].session = request[r].session
        /\ request'[r].episode = request[r].episode
        /\ \A q \in Requests \ {r} : request'[q] = request[q]
    BY <1>8, <1>a DEF InsertRow, ReadCount, WriteCount, TypeOK, RequestModel
  <2> QED
    BY <1>8, <1>b, <2>1, GoesOn, FrameKeepsHits DEF InsertRow, ReadCount, WriteCount
<1>9. ASSUME NEW r \in Requests, ResetAnswered(r) \/ EnvStepRaises(r) \/ Finalize(r)
      PROVE  HitInv'
  BY <1>9, <1>b, EndsMove, FrameKeepsHits DEF ResetAnswered, EnvStepRaises, Finalize, Done
<1>10. ASSUME NEW r \in Requests, NEW u \in Users, NEW e \in Episodes \union {NoEpisode},
              StepBegins(r, u, e)
       PROVE HitInv'
  <2> DEFINE s == userSession[u]
  <2>1. /\ s \in Live /\ pool[s].episode_id = e
        /\ s # NoSession /\ s <= created
        /\ pool[s].user = u
        /\ e # NoEpisode => env[s].episode = e
    BY <1>10 DEF StepBegins, HitInv, PoolInv, BornInv, TypeOK, SessionIds, NoSession
  <2>2. /\ request'[r] = [NewRequest(u, "stepping") EXCEPT
                             !.session = s, !.episode = e, !.told = e \in known[u]]
        /\ \A q \in Requests \ {r} : request'[q] = request[q]
    BY <1>10 DEF StepBegins, TypeOK
  <2>3. HitMove(r)
    BY <2>1, <2>2 DEF HitMove, NewRequest, Blind, Stepping
  <2> QED
    BY <1>10, <1>b, <2>2, <2>3, FrameKeepsHits DEF StepBegins
<1>11. ASSUME NEW r \in Requests, NEW status \in Statuses, EnvStep(r, status) PROVE HitInv'
  <2>1. /\ request[r].pc = "stepping" /\ request'[r].pc = "stepped"
        /\ request'[r].user = request[r].user
        /\ request'[r].session = request[r].session
        /\ request'[r].episode = request[r].episode
        /\ \A q \in Requests \ {r} : request'[q] = request[q]
    BY <1>11, <1>a DEF EnvStep, TypeOK, RequestModel
  <2>2. Frame
    <3>1. \A s \in SessionIds : env'[s].episode = env[s].episode
      BY <1>11 DEF EnvStep, TypeOK, EnvModel
    <3> QED
      BY <1>11, <3>1, SameShrinks DEF EnvStep, Frame
  <2> QED
    BY <2>1, <2>2, GoesOn, FrameKeepsHits
<1>12. ASSUME NEW r \in Requests, StepReturns(r) PROVE HitInv'
  <2>1. Frame /\ request[r].pc = "stepped"
    BY <1>12, TouchedShrinks DEF StepReturns, Frame
  <2>2. CASE Done(r)
    BY <2>1, <2>2, EndsMove, FrameKeepsHits DEF Done
  <2>3. CASE Goto(r, "finalizing")
    <3>1. /\ request'[r].pc = "finalizing" /\ request'[r].user = request[r].user
          /\ request'[r].session = request[r].session
          /\ request'[r].episode = request[r].episode
          /\ \A q \in Requests \ {r} : request'[q] = request[q]
      BY <2>3, <1>a DEF Goto, TypeOK, RequestModel
    <3> QED
      BY <2>1, <3>1, GoesOn, FrameKeepsHits
  <2> QED
    BY <1>12, <2>2, <2>3 DEF StepReturns
<1>13. ASSUME NEW u \in Users, GetState(u) \/ DeleteSession(u) PROVE HitInv'
  <2>1. Frame
    BY <1>13, TouchedShrinks, WithoutShrinks DEF GetState, DeleteSession, Frame, TypeOK
  <2> QED
    BY <1>13, <2>1, FrameKeepsHits DEF GetState, DeleteSession
<1>14. ASSUME NEW s \in SessionIds, TtlPasses(s) PROVE HitInv'
  <2>1. Frame
    BY <1>14, TtlShrinks DEF TtlPasses, Frame
  <2> QED
    BY <1>14, <2>1, FrameKeepsHits DEF TtlPasses
<1>15. CASE EvictExpired \/ EvictNext
  <2>1. Frame
    BY <1>15, WithoutShrinks DEF EvictExpired, EvictNext, Frame
  <2> QED
    BY <1>15, <2>1, FrameKeepsHits DEF EvictExpired, EvictNext
<1>16. CASE UNCHANGED vars
  BY <1>16, <1>b, FrameKeepsHits DEF vars
<1> QED
  BY <1>1, <1>2, <1>3, <1>4, <1>5, <1>6, <1>7, <1>8, <1>9, <1>10, <1>11, <1>12, <1>13,
     <1>14, <1>15, <1>16 DEF Next

-----------------------------------------------------------------------------
(* Ended episodes are filed                                                  *)

\* A request that goes on or ends without an episode that is new to it, but for one of
\* its user.
FileMove(r) ==
    LET q == request'[r]
    IN  /\ q.pc \in {"reset", "persisting"} => Starting(r) /\ q.episode = request[r].episode
        /\ q.pc = "persisting" =>
              /\ q.user \notin DemoUsers
              /\ "create" \notin q.todo => rows[q.episode] # "none"
        /\ Stepping(r)' /\ q.told => q.episode \in known[q.user]
        /\ q.pc = "finalizing" => q.status # "running"

LEMMA TablesKeepFiles ==
    ASSUME FileInv, UNCHANGED <<episodes, rows, known, filed>>,
           \A r \in Requests : request'[r] = request[r] \/ FileMove(r)
    PROVE  FileInv'
<1> USE DEF FileInv
<1>1. \A r \in Requests : Starting(r)' =>
         Starting(r) /\ request'[r].episode = request[r].episode
  BY DEF Starting, FileMove
<1>2. KnownInv'
  BY <1>1 DEF KnownInv
<1>3. RowsInv'
  BY DEF RowsInv, FileMove
<1>4. EndsInv'
  BY DEF EndsInv, FileMove, Stepping
<1>5. FinishedEpisodesAreFiled'
  BY DEF FinishedEpisodesAreFiled, HasRow, Final
<1> QED
  BY <1>2, <1>3, <1>4, <1>5

LEMMA EndsFiles ==
    ASSUME TypeOK, NEW r \in Requests, request' = [request EXCEPT ![r] = Idle]
    PROVE  /\ FileMove(r)
           /\ \A q \in Requests \ {r} : request'[q] = request[q]
BY DEF TypeOK, FileMove, Stepping, Idle, NewRequest

LEMMA NewSessionFiles ==
    ASSUME TypeOK, FileInv, NEW r \in Requests, CreateSession(r),
           UNCHANGED <<episodes, rows, known, filed>>
    PROVE  FileInv'
<1>1. CASE Done(r)
  BY <1>1, EndsFiles, TablesKeepFiles DEF Done
<1>2. CASE NewSession(r)
  <2>1. request'[r].pc = "resetting" /\ \A q \in Requests \ {r} : request'[q] = request[q]
    BY <1>2 DEF NewSession, TypeOK, RequestModel
  <2> QED
    BY <2>1, TablesKeepFiles DEF FileMove, Stepping
<1> QED
  BY <1>1, <1>2 DEF CreateSession

LEMMA EnvResetFiles ==
    ASSUME TypeOK, CountInv, FileInv, NEW r \in Requests, EnvReset(r) PROVE FileInv'
<1> USE DEF FileInv
<1> DEFINE e == episodes + 1
<1>1. /\ request[r].pc = "resetting" /\ episodes' = e
      /\ UNCHANGED <<rows, known, filed>>
  BY DEF EnvReset
<1>2. /\ request'[r].pc = "reset" /\ request'[r].episode = e
      /\ \A q \in Requests \ {r} : request'[q] = request[q]
  BY DEF EnvReset, TypeOK, RequestModel
<1>3. episodes \in Nat /\ e \in Episodes /\ \A x \in Episodes : x \in Nat
  BY <1>1, EpisodeLeft, Numbers DEF TypeOK, Episodes
<1>4. \A q \in Requests : Starting(q) => request[q].episode # e /\ request[q].episode <= e
  <2> SUFFICES ASSUME NEW q \in Requests, Starting(q)
               PROVE  request[q].episode # e /\ request[q].episode <= e
    OBVIOUS
  <2>1. request[q].episode \in Nat /\ request[q].episode <= episodes
    BY <1>3 DEF KnownInv, TypeOK, RequestModel, NoEpisode
  <2> QED
    BY <1>3, <2>1
<1>5. \A u \in Users : \A x \in known[u] : x # e /\ x <= e
  BY <1>3 DEF KnownInv, TypeOK
<1>6. \A q \in Requests \ {r} : Starting(q)' <=> Starting(q)
  BY <1>2 DEF Starting
<1>7. KnownInv'
  <2>1. ASSUME NEW q \in Requests, Starting(q)'
        PROVE  /\ request'[q].episode <= episodes'
               /\ \A u \in Users : request'[q].episode \notin known'[u]
               /\ \A p \in Requests \ {q} :
                     Starting(p)' => request'[p].episode # request'[q].episode
    <3>1. CASE q = r
      BY <1>1, <1>2, <1>3, <1>4, <1>5, <1>6, <3>1
    <3>2. CASE q # r
      BY <1>1, <1>2, <1>4, <1>6, <2>1, <3>2 DEF KnownInv
    <3> QED
      BY <3>1, <3>2
  <2>2. ASSUME NEW u \in Users
        PROVE  /\ \A x \in known'[u] : x <= episodes'
               /\ \A w \in Users \ {u} : known'[u] \intersect known'[w] = {}
    BY <1>1, <1>5 DEF KnownInv
  <2> QED
    BY <2>1, <2>2 DEF KnownInv
<1>8. RowsInv'
  BY <1>1, <1>2 DEF RowsInv
<1>9. EndsInv'
  BY <1>1, <1>2 DEF EndsInv, Stepping
<1>10. FinishedEpisodesAreFiled'
  BY <1>1 DEF FinishedEpisodesAreFiled, HasRow, Final
<1> QED
  BY <1>7, <1>8, <1>9, <1>10

\* An episode becomes known to its user, whose row for it is there if it has rows.
LEMMA AnswerFiles ==
    ASSUME TypeOK, HoldsInv, FileInv, NEW r \in Requests, Starting(r), Answer(r), Done(r),
           UNCHANGED <<episodes, rows, filed>>,
           request[r].user \notin DemoUsers => rows[request[r].episode] # "none"
    PROVE  FileInv'
<1> USE DEF FileInv
<1> DEFINE u == request[r].user
           e == request[r].episode
<1>1. u \in Users
  BY DEF HoldsInv, Starting
<1>2. /\ known'[u] = known[u] \union {e}
      /\ \A w \in Users \ {u} : known'[w] = known[w]
  BY <1>1 DEF Answer, TypeOK
<1>3. /\ request'[r].pc = "idle"
      /\ \A q \in Requests \ {r} : request'[q] = request[q]
  BY DEF Done, Idle, NewRequest, TypeOK
<1>4. /\ e <= episodes
      /\ \A w \in Users : e \notin known[w]
      /\ \A q \in Requests \ {r} : Starting(q) => request[q].episode # e
  BY DEF KnownInv
<1>5. \A q \in Requests : Starting(q)' => q # r /\ Starting(q)
  BY <1>3 DEF Starting
<1>6. KnownInv'
  <2>1. ASSUME NEW q \in Requests, Starting(q)'
        PROVE  /\ request'[q].episode <= episodes'
               /\ \A w \in Users : request'[q].episode \notin known'[w]
               /\ \A p \in Requests \ {q} :
                     Starting(p)' => request'[p].episode # request'[q].episode
    BY <1>2, <1>3, <1>4, <1>5, <2>1 DEF KnownInv
  <2>2. ASSUME NEW w \in Users
        PROVE  /\ \A x \in known'[w] : x <= episodes'
               /\ \A v \in Users \ {w} : known'[w] \intersect known'[v] = {}
    BY <1>2, <1>4 DEF KnownInv
  <2> QED
    BY <2>1, <2>2 DEF KnownInv
<1>7. RowsInv'
  BY <1>2, <1>3 DEF RowsInv
<1>8. EndsInv'
  <2>1. \A w \in Users : known[w] \subseteq known'[w]
    BY <1>2
  <2>2. \A q \in Requests : request[q].pc # "idle" => request[q].user \in Users
    BY DEF HoldsInv
  <2> QED
    BY <1>3, <2>1, <2>2 DEF EndsInv, Stepping
<1>9. FinishedEpisodesAreFiled'
  <2>1. e \in Episodes => <<e, TRUE>> \notin filed
    BY <1>4 DEF EndsInv
  <2> QED
    BY <1>2, <2>1 DEF FinishedEpisodesAreFiled, HasRow, Final
<1> QED
  BY <1>6, <1>7, <1>8, <1>9

LEMMA InsertFiles ==
    ASSUME TypeOK, HoldsInv, FileInv, NEW r \in Requests, InsertRow(r) PROVE FileInv'
<1> USE DEF FileInv
<1> DEFINE e == request[r].episode
<1>1. /\ request[r].pc = "persisting" /\ UNCHANGED <<episodes, known, filed>>
      /\ rows' = [rows EXCEPT ![e] = "running"]
  BY DEF InsertRow
<1>2. /\ request'[r].pc = "persisting" /\ request'[r].episode = e
      /\ request'[r].user = request[r].user
      /\ \A q \in Requests \ {r} : request'[q] = request[q]
  BY DEF InsertRow, TypeOK, RequestModel
<1>3. e \in Episodes
  BY <1>1 DEF HoldsInv, Starting, TypeOK, RequestModel
<1>4. /\ rows'[e] = "running" /\ \A x \in Episodes \ {e} : rows'[x] = rows[x]
  BY <1>1, <1>3 DEF TypeOK
<1>5. <<e, TRUE>> \notin filed
  BY <1>1, <1>3 DEF KnownInv, EndsInv, Starting
<1>6. \A q \in Requests : request[q].pc = "persisting" => request[q].episode \in Episodes
  BY DEF HoldsInv, Starting, TypeOK, RequestModel
<1>7. KnownInv'
  BY <1>1, <1>2 DEF KnownInv, Starting
<1>8. RowsInv'
  <2>1. \A x \in Episodes : rows[x] # "none" => rows'[x] # "none"
    BY <1>4
  <2>2. \A u \in Users : known[u] \subseteq Episodes
    BY DEF TypeOK
  <2>3. \A q \in Requests :
           request'[q].pc = "persisting" /\ "create" \notin request'[q].todo
               => rows'[request'[q].episode] # "none"
    BY <1>2, <1>4, <1>6, <2>1 DEF RowsInv
  <2>4. \A q \in Requests : request'[q].pc = "persisting" => request'[q].user \notin DemoUsers
    BY <1>1, <1>2 DEF RowsInv
  <2>5. \A u \in Users \ DemoUsers : \A x \in known'[u] : rows'[x] # "none"
    BY <1>1, <2>1, <2>2 DEF RowsInv
  <2> QED
    BY <2>3, <2>4, <2>5 DEF RowsInv
<1>9. EndsInv'
  BY <1>1, <1>2 DEF EndsInv, Stepping
<1>10. FinishedEpisodesAreFiled'
  BY <1>1, <1>4, <1>5 DEF FinishedEpisodesAreFiled, HasRow, Final, TypeOK
<1> QED
  BY <1>7, <1>8, <1>9, <1>10

LEMMA FinalizeFiles ==
    ASSUME TypeOK, HoldsInv, FileInv, NEW r \in Requests, Finalize(r) PROVE FileInv'
<1> USE DEF FileInv
<1> DEFINE u == request[r].user
           e == request[r].episode
<1>1. /\ request[r].pc = "finalizing" /\ UNCHANGED <<episodes, known>>
      /\ filed' = filed \union {<<e, request[r].told>>}
      /\ rows' = IF u \notin DemoUsers /\ e # NoEpisode /\ rows[e] # "none"
                 THEN [rows EXCEPT ![e] = request[r].status] ELSE rows
  BY DEF Finalize
<1>2. /\ request'[r].pc = "idle"
      /\ \A q \in Requests \ {r} : request'[q] = request[q]
  BY DEF Finalize, Done, Idle, NewRequest, TypeOK
<1>3. /\ u \in Users /\ e \in Episodes \union {NoEpisode}
      /\ request[r].told => e \in known[u] /\ e \in Episodes /\ e # NoEpisode
  BY <1>1 DEF HoldsInv, EndsInv, Stepping, TypeOK, RequestModel, Episodes, NoEpisode
<1>4. request[r].status \in {"resolved", "timed_out"}
  BY <1>1 DEF EndsInv, TypeOK, RequestModel, Statuses
<1>5. \A x \in Episodes :
         /\ rows[x] # "none" => rows'[x] # "none"
         /\ rows'[x] = rows[x] \/ rows'[x] \in {"resolved", "timed_out"}
  BY <1>1, <1>3, <1>4 DEF TypeOK
<1>6. request[r].told => \A w \in Users : e \in known[w] => w = u
  BY <1>3 DEF KnownInv
<1>7. KnownInv'
  BY <1>1, <1>2 DEF KnownInv, Starting
<1>8. RowsInv'
  <2>1. \A w \in Users : known[w] \subseteq Episodes
    BY DEF TypeOK
  <2>2. \A q \in Requests : request[q].pc = "persisting" => request[q].episode \in Episodes
    BY DEF HoldsInv, Starting, TypeOK, RequestModel
  <2> QED
    BY <1>1, <1>2, <1>5, <2>1, <2>2 DEF RowsInv
<1>9. EndsInv'
  <2>1. \A q \in Requests : Stepping(q)' => q # r /\ Stepping(q)
    BY <1>2 DEF Stepping
  <2>2. \A x \in Episodes : <<x, TRUE>> \in filed' =>
           <<x, TRUE>> \in filed \/ (x = e /\ request[r].told)
    BY <1>1
  <2>3. \A x \in Episodes : <<x, TRUE>> \in filed' => \E w \in Users : x \in known'[w]
    BY <1>1, <1>3, <2>2 DEF EndsInv
  <2>4. /\ \A q \in Requests : Stepping(q)' /\ request'[q].told
               => request'[q].episode \in known'[request'[q].user]
        /\ \A q \in Requests : request'[q].pc = "finalizing" => request'[q].status # "running"
    BY <1>1, <1>2, <2>1 DEF EndsInv
  <2> QED
    BY <2>3, <2>4 DEF EndsInv
<1>10. FinishedEpisodesAreFiled'
  <2>1. request[r].told /\ u \notin DemoUsers => rows'[e] \in {"resolved", "timed_out"}
    BY <1>1, <1>3, <1>4 DEF RowsInv, TypeOK
  <2> SUFFICES ASSUME NEW x \in Episodes, <<x, TRUE>> \in filed', HasRow(x)'
               PROVE  Final(x)'
    BY DEF FinishedEpisodesAreFiled
  <2>2. PICK w \in Users \ DemoUsers : x \in known[w]
    BY <1>1 DEF HasRow
  <2>3. CASE <<x, TRUE>> \in filed
    BY <1>5, <2>2, <2>3 DEF FinishedEpisodesAreFiled, HasRow, Final
  <2>4. CASE <<x, TRUE>> \notin filed
    <3>1. x = e /\ request[r].told
      BY <1>1, <2>4
    <3> QED
      BY <1>6, <2>1, <2>2, <3>1 DEF Final
  <2> QED
    BY <2>3, <2>4
<1> QED
  BY <1>7, <1>8, <1>9, <1>10

LEMMA NextFiles ==
    ASSUME TypeOK, CountInv, HoldsInv, FileInv, [Next]_vars PROVE FileInv'
<1>a. \A r \in Requests : request[r] \in RequestModel
  BY DEF TypeOK
<1> USE DEF FileInv
<1>1. ASSUME NEW r \in Requests, NEW u \in Users, ResetBegins(r, u) PROVE FileInv'
  <2>1. FileMove(r) /\ \A q \in Requests \ {r} : request'[q] = request[q]
    BY <1>1 DEF ResetBegins, FileMove, Stepping, NewRequest, TypeOK
  <2> QED
    BY <1>1, <2>1, TablesKeepFiles DEF ResetBegins
<1>2. ASSUME NEW r \in Requests, ReadQuota(r) PROVE FileInv'
  <2>1. request'[r].pc = "checked" /\ \A q \in Requests \ {r} : request'[q] = request[q]
    BY <1>2, <1>a DEF ReadQuota, TypeOK, RequestModel
  <2> QED
    BY <1>2, <2>1, TablesKeepFiles DEF ReadQuota, FileMove, Stepping
<1>3. ASSUME NEW r \in Requests, QuotaExceeded(r) \/ EnvStepRaises(r) PROVE FileInv'
  BY <1>3, EndsFiles, TablesKeepFiles DEF QuotaExceeded, EnvStepRaises, Done
<1>4. ASSUME NEW r \in Requests, CloseOldSession(r) PROVE FileInv'
  <2>1. UNCHANGED <<episodes, rows, known, filed>>
    BY <1>4 DEF CloseOldSession
  <2>2. CASE CreateSession(r)
    BY <2>1, <2>2, NewSessionFiles
  <2>3. CASE Goto(r, "closing")
    <3>1. request'[r].pc = "closing" /\ \A q \in Requests \ {r} : request'[q] = request[q]
      BY <2>3, <1>a DEF Goto, TypeOK, RequestModel
    <3> QED
      BY <2>1, <3>1, TablesKeepFiles DEF FileMove, Stepping
  <2> QED
    BY <1>4, <2>2, <2>3 DEF CloseOldSession
<1>5. ASSUME NEW r \in Requests, OldSessionClosed(r) PROVE FileInv'
  BY <1>5, NewSessionFiles DEF OldSessionClosed
<1>6. ASSUME NEW r \in Requests, EnvReset(r) PROVE FileInv'
  BY <1>6, EnvResetFiles
<1>7. ASSUME NEW r \in Requests, ResetReturns(r) PROVE FileInv'
  <2>1. request[r].pc = "reset" /\ UNCHANGED <<episodes, rows, filed>>
    BY <1>7 DEF ResetReturns
  <2>2. CASE request[r].user \in DemoUsers
    BY <1>7, <2>1, <2>2, AnswerFiles DEF ResetReturns, Starting
  <2>3. CASE request[r].user \notin DemoUsers
    <3>1. /\ request'[r].pc = "persisting" /\ request'[r].user = request[r].user
          /\ request'[r].episode = request[r].episode /\ request'[r].todo = Statements
          /\ \A q \in Requests \ {r} : request'[q] = request[q]
          /\ known' = known
      BY <1>7, <1>a, <2>3 DEF ResetReturns, TypeOK, RequestModel
    <3>2. FileMove(r)
      BY <2>1, <2>3, <3>1 DEF FileMove, Starting, Stepping, Statements
    <3> QED
      BY <2>1, <3>1, <3>2, TablesKeepFiles
  <2> QED
    BY <2>2, <2>3
<1>8. ASSUME NEW r \in Requests, InsertRow(r) PROVE FileInv'
  BY <1>8, InsertFiles
<1>9. ASSUME NEW r \in Requests, ReadCount(r) \/ WriteCount(r) PROVE FileInv'
  <2>1. /\ request[r].pc = "persisting" /\ request'[r].pc = "persisting"
        /\ request'[r].user = request[r].user
        /\ request'[r].episode = request[r].episode
        /\ "create" \in request[r].todo => "create" \in request'[r].todo
        /\ \A q \in Requests \ {r} : request'[q] = request[q]
    BY <1>9, <1>a DEF ReadCount, WriteCount, TypeOK, RequestModel
  <2>2. FileMove(r)
    BY <2>1 DEF FileMove, Starting, Stepping, RowsInv
  <2> QED
    BY <1>9, <2>1, <2>2, TablesKeepFiles DEF ReadCount, WriteCount
<1>10. ASSUME NEW r \in Requests, ResetAnswered(r) PROVE FileInv'
  <2>1. rows[request[r].episode] # "none"
    BY <1>10 DEF ResetAnswered, RowsInv
  <2> QED
    BY <1>10, <2>1, AnswerFiles DEF ResetAnswered, Starting
<1>11. ASSUME NEW r \in Requests, NEW u \in Users, NEW e \in Episodes \union {NoEpisode},
              StepBegins(r, u, e)
       PROVE FileInv'
  <2>1. FileMove(r) /\ \A q \in Requests \ {r} : request'[q] = request[q]
    BY <1>11 DEF StepBegins, NewRequest, FileMove, Stepping, TypeOK
  <2> QED
    BY <1>11, <2>1, TablesKeepFiles DEF StepBegins
<1>12. ASSUME NEW r \in Requests, NEW status \in Statuses, EnvStep(r, status) PROVE FileInv'
  <2>1. /\ request[r].pc = "stepping" /\ request'[r].pc = "stepped"
        /\ request'[r].user = request[r].user
        /\ request'[r].episode = request[r].episode /\ request'[r].told = request[r].told
        /\ \A q \in Requests \ {r} : request'[q] = request[q]
    BY <1>12, <1>a DEF EnvStep, TypeOK, RequestModel
  <2>2. FileMove(r)
    BY <2>1 DEF FileMove, EndsInv, Stepping
  <2> QED
    BY <1>12, <2>1, <2>2, TablesKeepFiles DEF EnvStep
<1>13. ASSUME NEW r \in Requests, StepReturns(r) PROVE FileInv'
  <2>1. UNCHANGED <<episodes, rows, known, filed>> /\ request[r].pc = "stepped"
    BY <1>13 DEF StepReturns
  <2>2. CASE Done(r)
    BY <2>1, <2>2, EndsFiles, TablesKeepFiles DEF Done
  <2>3. CASE Goto(r, "finalizing") /\ request[r].status # "running"
    <3>1. /\ request'[r].pc = "finalizing" /\ request'[r].user = request[r].user
          /\ request'[r].episode = request[r].episode /\ request'[r].told = request[r].told
          /\ request'[r].status = request[r].status
          /\ \A q \in Requests \ {r} : request'[q] = request[q]
      BY <2>3, <1>a DEF Goto, TypeOK, RequestModel
    <3>2. FileMove(r)
      BY <2>1, <2>3, <3>1 DEF FileMove, EndsInv, Stepping
    <3> QED
      BY <2>1, <3>1, <3>2, TablesKeepFiles
  <2> QED
    BY <1>13, <2>2, <2>3 DEF StepReturns
<1>14. ASSUME NEW r \in Requests, Finalize(r) PROVE FileInv'
  BY <1>14, FinalizeFiles
<1>15. CASE \/ \E u \in Users : GetState(u) \/ DeleteSession(u)
            \/ \E s \in SessionIds : TtlPasses(s)
            \/ EvictExpired \/ EvictNext \/ UNCHANGED vars
  BY <1>15, TablesKeepFiles
     DEF GetState, DeleteSession, TtlPasses, EvictExpired, EvictNext, vars
<1> QED
  BY <1>1, <1>2, <1>3, <1>4, <1>5, <1>6, <1>7, <1>8, <1>9, <1>10, <1>11, <1>12, <1>13,
     <1>14, <1>15 DEF Next

-----------------------------------------------------------------------------
(* Capacity                                                                  *)

CapacityInv == IsFiniteSet(Live) /\ Cardinality(Live) <= MaxConcurrent

LEMMA NoMoreLive == ASSUME CapacityInv, Live' \subseteq Live PROVE CapacityInv'
BY FS_Subset, FS_CardinalityType, Numbers DEF CapacityInv

LEMMA CreateFits ==
    ASSUME TypeOK, CountInv, HitInv, CapacityInv, NEW r \in Requests, Resetting(r),
           CreateSession(r)
    PROVE  CapacityInv'
<1>1. CASE Cardinality(Live) >= MaxConcurrent
  BY <1>1, NoMoreLive DEF CreateSession, Live
<1>2. CASE ~(Cardinality(Live) >= MaxConcurrent)
  <2>1. Live' = Live \union {created + 1}
    BY <1>2, NewEntry DEF CreateSession
  <2>2. created + 1 \notin Live
    BY Numbers DEF HitInv, BornInv, TypeOK, SessionIds
  <2>3. /\ IsFiniteSet(Live') /\ Cardinality(Live') = Cardinality(Live) + 1
        /\ Cardinality(Live) \in Nat
    BY <2>1, <2>2, FS_AddElement, FS_CardinalityType DEF CapacityInv
  <2> QED
    BY <1>2, <2>3, Numbers DEF CapacityInv
<1> QED
  BY <1>1, <1>2

LEMMA NextCapacity ==
    ASSUME TypeOK, CountInv, HitInv, CapacityInv, [Next]_vars PROVE CapacityInv'
<1>1. ASSUME NEW r \in Requests, CloseOldSession(r) \/ OldSessionClosed(r) PROVE CapacityInv'
  <2>1. Resetting(r)
    BY <1>1 DEF CloseOldSession, OldSessionClosed, Resetting
  <2> QED
    BY <1>1, <2>1, CreateFits, WithoutShrinks, NoMoreLive
       DEF CloseOldSession, OldSessionClosed, PoolShrinks
<1>2. ASSUME NEW r \in Requests, ResetReturns(r) PROVE CapacityInv'
  <2>1. /\ request[r].episode \in Episodes
        /\ Enters(request[r].session, request[r].episode)
    BY <1>2 DEF ResetReturns, Enters, HitInv, HoldsInv, Starting, TypeOK, RequestModel,
                Episodes, NoEpisode
  <2> QED
    BY <2>1, EntersEpisode, NoMoreLive
<1>3. ASSUME NEW r \in Requests, StepReturns(r) PROVE CapacityInv'
  BY <1>3, TouchedShrinks, NoMoreLive DEF StepReturns, PoolShrinks
<1>4. ASSUME NEW r \in Requests,
             \/ ReadQuota(r) \/ QuotaExceeded(r) \/ EnvReset(r) \/ InsertRow(r)
             \/ ReadCount(r) \/ WriteCount(r) \/ ResetAnswered(r) \/ EnvStepRaises(r)
             \/ Finalize(r)
      PROVE  CapacityInv'
  <2>1. pool' = pool
    BY <1>4 DEF ReadQuota, QuotaExceeded, EnvReset, InsertRow, ReadCount, WriteCount,
                ResetAnswered, EnvStepRaises, Finalize
  <2> QED
    BY <2>1, NoMoreLive DEF Live
<1>9. ASSUME NEW r \in Requests, NEW u \in Users, ResetBegins(r, u) PROVE CapacityInv'
  BY <1>9, NoMoreLive DEF ResetBegins, Live
<1>10. ASSUME NEW r \in Requests, NEW u \in Users, NEW e \in Episodes \union {NoEpisode},
              StepBegins(r, u, e)
       PROVE CapacityInv'
  BY <1>10, NoMoreLive DEF StepBegins, Live
<1>11. ASSUME NEW r \in Requests, NEW status \in Statuses, EnvStep(r, status)
       PROVE CapacityInv'
  BY <1>11, NoMoreLive DEF EnvStep, Live
<1>5. ASSUME NEW u \in Users, GetState(u) \/ DeleteSession(u) PROVE CapacityInv'
  BY <1>5, TouchedShrinks, WithoutShrinks, NoMoreLive DEF GetState, DeleteSession, PoolShrinks
<1>6. ASSUME NEW s \in SessionIds, TtlPasses(s) PROVE CapacityInv'
  BY <1>6, TtlShrinks, NoMoreLive DEF PoolShrinks
<1>7. CASE EvictExpired \/ EvictNext
  BY <1>7, WithoutShrinks, NoMoreLive DEF EvictExpired, EvictNext, PoolShrinks
<1>8. CASE UNCHANGED vars
  BY <1>8, NoMoreLive DEF vars, Live
<1> QED
  BY <1>1, <1>2, <1>3, <1>4, <1>5, <1>6, <1>7, <1>8, <1>9, <1>10, <1>11 DEF Next

-----------------------------------------------------------------------------
(* The theorems                                                              *)

LEMMA InvHolds == Spec => [](Inv /\ CapacityInv)
<1>1. Init => Inv /\ CapacityInv
  <2>1. Init => Live = {}
    BY DEF Init, Live
  <2> QED
    BY <2>1, InitHolds, FS_EmptySet, Numbers DEF CapacityInv
<1>2. Inv /\ CapacityInv /\ [Next]_vars => (Inv /\ CapacityInv)'
  <2> SUFFICES ASSUME Inv, CapacityInv, [Next]_vars PROVE (Inv /\ CapacityInv)'
    OBVIOUS
  <2>1. TypeOK'
    BY NextType DEF Inv, HitInv
  <2>2. CountInv'
    BY NextCount DEF Inv
  <2>3. HitInv'
    BY <2>1, NextHits DEF Inv
  <2>4. FileInv'
    BY NextFiles DEF Inv, HitInv
  <2>5. CapacityInv'
    BY NextCapacity DEF Inv
  <2> QED
    BY <2>1, <2>2, <2>3, <2>4, <2>5 DEF Inv
<1> QED
  BY <1>1, <1>2, PTL DEF Spec

\* The pool, the tables and the coroutines keep their types: the bound on sessions is
\* never passed although requests that will create one overlap.
THEOREM TypeCorrect == Spec => []TypeOK
<1>1. Inv /\ CapacityInv => TypeOK
  BY DEF Inv
<1> QED
  BY <1>1, InvHolds, PTL

\* EnvPool.create_session never lets the pool grow past max_concurrent_sessions.
THEOREM CapacityIsRespected == Spec => []CapacityRespected
<1>1. Inv /\ CapacityInv => CapacityRespected
  BY DEF CapacityInv, CapacityRespected
<1> QED
  BY <1>1, InvHolds, PTL

\* A step that named an episode and passed the check of /env/step runs on that episode,
\* whatever resets, closes and evictions of any users overlap with it, and however early
\* its id was learned.
THEOREM StepsNeverMiss == Spec => []StepsHitTheirEpisode
<1>1. Inv /\ CapacityInv => StepsHitTheirEpisode
  BY DEF Inv, HitInv
<1> QED
  BY <1>1, InvHolds, PTL

\* When the answer to the step that ends an episode is sent, its row is final, if the
\* step was sent after the answer to the reset.
THEOREM EndsAreFiled == Spec => []FinishedEpisodesAreFiled
<1>1. Inv /\ CapacityInv => FinishedEpisodesAreFiled
  BY DEF Inv, FileInv
<1> QED
  BY <1>1, InvHolds, PTL
=============================================================================
