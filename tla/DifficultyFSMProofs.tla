------------------------ MODULE DifficultyFSMProofs -------------------------
(***************************************************************************)
(* Proofs about DifficultyFSM for every number of levels, every table of   *)
(* thresholds and every set of results.                                    *)
(***************************************************************************)
EXTENDS DifficultyFSM, TLAPS

\* Each operator of Difficulty maps a state of the FSM to one in which no advance
\* is owed and the counters are ordered.
Sound(f) == f \in DifficultyState /\ BelowThreshold(f) /\ OrderedCounters(f)

\* Every threshold is positive.
LEMMA ThresholdPositive ==
    ASSUME NEW level \in Levels
    PROVE  AdvanceThreshold[level] \in Nat /\ 0 < AdvanceThreshold[level]
<1>1. AdvanceThreshold[level] \in Nat \ {0}
  BY ThresholdAssumption
<1>2. QED
  BY <1>1

LEMMA NewIsSound == ASSUME NEW level \in Levels PROVE Sound(NewDifficulty(level))
BY ThresholdPositive
DEF Sound, NewDifficulty, DifficultyState, BelowThreshold, OrderedCounters

LEMMA ForcedIsSound ==
    ASSUME NEW f, Sound(f), NEW level \in Levels PROVE Sound(ForcedTo(f, level))
<1> DEFINE g == ForcedTo(f, level)
<1>1. /\ g \in DifficultyState
      /\ g.current_level = level
      /\ g.consecutive_successes = 0
      /\ g.total_successes = f.total_successes
      /\ g.total_episodes = f.total_episodes
  BY DEF Sound, ForcedTo, DifficultyState
<1>2. OrderedCounters(f) /\ f \in DifficultyState
  BY DEF Sound
<1>3. OrderedCounters(g)
  BY <1>1, <1>2 DEF OrderedCounters, DifficultyState
<1>4. BelowThreshold(g)
  BY <1>1, ThresholdPositive DEF BelowThreshold
<1>5. QED
  BY <1>1, <1>3, <1>4 DEF Sound

LEMMA RegressedIsSound ==
    ASSUME NEW f, Sound(f) PROVE Sound(Regressed(f))
<1>1. CASE f.current_level > 1
  <2>1. f.current_level - 1 \in Levels
    BY <1>1, MaxLevelAssumption DEF Sound, DifficultyState, Levels
  <2>2. QED
    BY <1>1, <2>1, ForcedIsSound DEF Regressed
<1>2. CASE ~(f.current_level > 1)
  BY <1>2 DEF Regressed
<1>3. QED
  BY <1>1, <1>2

\* The fields of a state, and a state from its fields.
LEMMA Fields ==
    ASSUME NEW f \in DifficultyState
    PROVE  /\ f.current_level \in Levels
           /\ f.consecutive_successes \in Nat
           /\ f.total_episodes \in Nat
           /\ f.total_successes \in Nat
           /\ f = [current_level |-> f.current_level,
                   consecutive_successes |-> f.consecutive_successes,
                   total_episodes |-> f.total_episodes,
                   total_successes |-> f.total_successes]
BY DEF DifficultyState

LEMMA CountedType ==
    ASSUME NEW f, Sound(f), NEW result
    PROVE  /\ CountResult(f, result) \in DifficultyState
           /\ OrderedCounters(CountResult(f, result))
           /\ CountResult(f, result).current_level = f.current_level
<1>1. f \in DifficultyState /\ OrderedCounters(f)
  BY DEF Sound
<1>2. CASE IsSuccess(result)
  <2>1. CountResult(f, result) =
          [f EXCEPT !.total_episodes = @ + 1, !.consecutive_successes = @ + 1,
                    !.total_successes = @ + 1]
    BY <1>2 DEF CountResult
  <2> DEFINE g == CountResult(f, result)
  <2>0. g = [current_level |-> f.current_level,
             consecutive_successes |-> f.consecutive_successes + 1,
             total_episodes |-> f.total_episodes + 1,
             total_successes |-> f.total_successes + 1]
    BY <1>1, <2>1, Fields DEF DifficultyState
  <2> HIDE DEF g
  <2>2. /\ g \in DifficultyState
        /\ g.current_level = f.current_level
        /\ g.consecutive_successes = f.consecutive_successes + 1
        /\ g.total_successes = f.total_successes + 1
        /\ g.total_episodes = f.total_episodes + 1
    BY <1>1, <2>0, Fields DEF DifficultyState
  <2>3. OrderedCounters(g)
    BY <1>1, <2>2 DEF DifficultyState, OrderedCounters
  <2>4. QED
    BY <2>2, <2>3 DEF g
<1>3. CASE ~IsSuccess(result)
  <2>1. CountResult(f, result) =
          [f EXCEPT !.total_episodes = @ + 1, !.consecutive_successes = 0]
    BY <1>3 DEF CountResult
  <2> DEFINE g == CountResult(f, result)
  <2>0. g = [current_level |-> f.current_level,
             consecutive_successes |-> 0,
             total_episodes |-> f.total_episodes + 1,
             total_successes |-> f.total_successes]
    BY <1>1, <2>1, Fields DEF DifficultyState
  <2> HIDE DEF g
  <2>2. /\ g \in DifficultyState
        /\ g.current_level = f.current_level
        /\ g.consecutive_successes = 0
        /\ g.total_successes = f.total_successes
        /\ g.total_episodes = f.total_episodes + 1
    BY <1>1, <2>0, Fields DEF DifficultyState
  <2>3. OrderedCounters(g)
    BY <1>1, <2>2 DEF DifficultyState, OrderedCounters
  <2>4. QED
    BY <2>2, <2>3 DEF g
<1>4. QED
  BY <1>2, <1>3

\* Counting a result may reach the threshold, never pass it; _maybe_advance then
\* empties the streak.
LEMMA RecordedIsSound ==
    ASSUME NEW f, Sound(f), NEW result PROVE Sound(Recorded(f, result))
<1> DEFINE g == CountResult(f, result)
<1>1. /\ g \in DifficultyState
      /\ OrderedCounters(g)
  BY CountedType
<1> HIDE DEF g
<1>2. Sound(MaybeAdvance(g))
  <2>1. CASE /\ g.consecutive_successes >= AdvanceThreshold[g.current_level]
             /\ g.current_level < MaxLevel
    <3> DEFINE h == MaybeAdvance(g)
    <3>1. h = [g EXCEPT !.current_level = @ + 1, !.consecutive_successes = 0]
      BY <2>1 DEF MaybeAdvance
    <3>2. g.current_level + 1 \in Levels
      BY <1>1, <2>1, MaxLevelAssumption DEF DifficultyState, Levels
    <3>0. h = [current_level |-> g.current_level + 1,
               consecutive_successes |-> 0,
               total_episodes |-> g.total_episodes,
               total_successes |-> g.total_successes]
      BY <1>1, <3>1, Fields DEF DifficultyState
    <3> HIDE DEF h
    <3>3. /\ h \in DifficultyState
          /\ h.current_level \in Levels
          /\ h.consecutive_successes = 0
          /\ h.total_successes = g.total_successes
          /\ h.total_episodes = g.total_episodes
      BY <1>1, <3>2, <3>0, Fields DEF DifficultyState
    <3>4. OrderedCounters(h)
      BY <1>1, <3>3 DEF DifficultyState, OrderedCounters
    <3>5. BelowThreshold(h)
      BY <3>3, ThresholdPositive DEF BelowThreshold
    <3>6. QED
      BY <3>3, <3>4, <3>5 DEF Sound, h
  <2>2. CASE ~(/\ g.consecutive_successes >= AdvanceThreshold[g.current_level]
               /\ g.current_level < MaxLevel)
    <3>1. MaybeAdvance(g) = g
      BY <2>2 DEF MaybeAdvance
    <3>2. /\ g.consecutive_successes \in Nat
          /\ AdvanceThreshold[g.current_level] \in Nat
      BY <1>1, ThresholdPositive DEF DifficultyState
    <3>3. BelowThreshold(g)
      BY <2>2, <3>2 DEF BelowThreshold
    <3>4. QED
      BY <1>1, <3>1, <3>3 DEF Sound
  <2>3. QED
    BY <2>1, <2>2
<1>3. QED
  BY <1>2 DEF Recorded, g

-----------------------------------------------------------------------------
Inv == /\ TypeOK
       /\ Sound(fsm)
       /\ Sound(saved)

LEMMA InitInv == Init => Inv
<1> SUFFICES ASSUME Init PROVE Inv
  OBVIOUS
<1>1. 1 \in Levels
  BY MaxLevelAssumption DEF Levels
<1>2. Sound(fsm) /\ Sound(saved)
  BY <1>1, NewIsSound DEF Init
<1>3. outcomes \in Seq(BOOLEAN) /\ savedOutcomes \in Seq(BOOLEAN)
  BY DEF Init
<1>4. QED
  BY <1>2, <1>3 DEF Inv, TypeOK, Sound

LEMMA NextInv == Inv /\ [Next]_vars => Inv'
<1> SUFFICES ASSUME Inv, [Next]_vars PROVE Inv'
  OBVIOUS
<1> USE DEF Inv, TypeOK
<1>1. ASSUME NEW result \in Results, RecordResult(result) PROVE Inv'
  <2>1. Sound(fsm)' /\ Sound(saved)'
    BY <1>1, RecordedIsSound DEF RecordResult, Sound, BelowThreshold, OrderedCounters
  <2>2. IsSuccess(result) \in BOOLEAN
    BY DEF IsSuccess
  <2>3. outcomes' \in Seq(BOOLEAN)
    <3>1. Append(outcomes, IsSuccess(result)) \in Seq(BOOLEAN)
      BY <2>2
    <3>2. CASE Advanced(fsm, result)
      BY <1>1, <3>2 DEF RecordResult
    <3>3. CASE ~Advanced(fsm, result)
      BY <1>1, <3>1, <3>3 DEF RecordResult
    <3>4. QED
      BY <3>2, <3>3
  <2>4. savedOutcomes' \in Seq(BOOLEAN)
    BY <1>1 DEF RecordResult
  <2>5. QED
    BY <2>1, <2>3, <2>4 DEF Sound
<1>2. ASSUME NEW level \in Levels, ForceLevel(level) PROVE Inv'
  BY <1>2, ForcedIsSound DEF ForceLevel, Sound, BelowThreshold, OrderedCounters
<1>3. CASE Regress
  <2>1. Sound(fsm)' /\ Sound(saved)'
    BY <1>3, RegressedIsSound DEF Regress, Sound, BelowThreshold, OrderedCounters
  <2>2. outcomes' \in Seq(BOOLEAN) /\ savedOutcomes' \in Seq(BOOLEAN)
    <3>1. outcomes' = <<>> \/ outcomes' = outcomes
      BY <1>3 DEF Regress
    <3>2. savedOutcomes' = savedOutcomes
      BY <1>3 DEF Regress
    <3>3. <<>> \in Seq(BOOLEAN)
      OBVIOUS
    <3>4. outcomes' \in Seq(BOOLEAN)
      BY <3>1, <3>3
    <3>5. QED
      BY <3>2, <3>4
  <2>3. QED
    BY <2>1, <2>2 DEF Sound
<1>4. CASE StateDict
  BY <1>4 DEF StateDict, Sound, BelowThreshold, OrderedCounters
<1>5. CASE LoadState
  BY <1>5 DEF LoadState, Sound, BelowThreshold, OrderedCounters
<1>6. CASE UNCHANGED vars
  BY <1>6 DEF vars, Sound, BelowThreshold, OrderedCounters
<1>7. QED
  BY <1>1, <1>2, <1>3, <1>4, <1>5, <1>6 DEF Next

\* Every behaviour of the FSM keeps the types of its state.
THEOREM TypeCorrect == Spec => []TypeOK
<1>1. Inv => TypeOK
  BY DEF Inv
<1>2. QED
  BY InitInv, NextInv, <1>1, PTL DEF Spec

\* No mix of recorded results, forced levels, regressions and restored snapshots
\* leaves a streak at or past the threshold of its level.
THEOREM NeverOwesAnAdvance == Spec => []NoAdvanceOwed
<1>1. Inv => NoAdvanceOwed
  BY DEF Inv, NoAdvanceOwed, Sound
<1>2. QED
  BY InitInv, NextInv, <1>1, PTL DEF Spec

\* The streak is part of the successes and the successes part of the episodes.
THEOREM CountersStayOrdered == Spec => []CountersOrdered
<1>1. Inv => CountersOrdered
  BY DEF Inv, CountersOrdered, Sound
<1>2. QED
  BY InitInv, NextInv, <1>1, PTL DEF Spec
-----------------------------------------------------------------------------
(* The streak and the history of outcomes.                                 *)

\* Without an advance, record_result is only the counting.
LEMMA RecordedWithoutAdvance ==
    ASSUME NEW f, Sound(f), NEW result, ~Advanced(f, result)
    PROVE  Recorded(f, result) = CountResult(f, result)
<1> DEFINE g == CountResult(f, result)
<1>1. g \in DifficultyState /\ g.current_level = f.current_level
  BY CountedType
<1> HIDE DEF g
<1>2. MaybeAdvance(g) # g =>
        MaybeAdvance(g) = [g EXCEPT !.current_level = @ + 1,
                                    !.consecutive_successes = 0]
  BY DEF MaybeAdvance
<1>3. MaybeAdvance(g) # g => MaybeAdvance(g).current_level = g.current_level + 1
  BY <1>1, <1>2, Fields DEF DifficultyState
<1>4. MaybeAdvance(g).current_level = f.current_level
  BY DEF Advanced, Recorded, g
<1>5. g.current_level \in Nat
  BY <1>1, Fields, MaxLevelAssumption DEF Levels
<1>6. MaybeAdvance(g) = g
  BY <1>1, <1>3, <1>4, <1>5
<1>7. QED
  BY <1>6 DEF Recorded, g

\* An advance empties the streak and raises the level by one, and the streak it
\* ends, the new success included, is as long as the threshold.
LEMMA AdvanceFacts ==
    ASSUME NEW f, Sound(f), NEW result, Advanced(f, result)
    PROVE  /\ IsSuccess(result)
           /\ Recorded(f, result).consecutive_successes = 0
           /\ Recorded(f, result).current_level = f.current_level + 1
           /\ f.consecutive_successes + 1 >= AdvanceThreshold[f.current_level]
<1> DEFINE g == CountResult(f, result)
<1>1. g \in DifficultyState /\ g.current_level = f.current_level
  BY CountedType
<1>2. /\ g.consecutive_successes >= AdvanceThreshold[g.current_level]
      /\ Recorded(f, result) = [g EXCEPT !.current_level = @ + 1,
                                         !.consecutive_successes = 0]
  <2>1. Recorded(f, result) # g
    BY <1>1 DEF Advanced
  <2>2. QED
    BY <2>1 DEF Recorded, MaybeAdvance
<1>3. f.current_level \in Levels
  BY Fields DEF Sound
<1>4. 0 < AdvanceThreshold[g.current_level] /\ AdvanceThreshold[g.current_level] \in Nat
  BY <1>1, <1>3, ThresholdPositive
<1>5. IsSuccess(result)
  <2>1. SUFFICES ASSUME ~IsSuccess(result) PROVE FALSE
    OBVIOUS
  <2>2. g = [f EXCEPT !.total_episodes = @ + 1, !.consecutive_successes = 0]
    BY <2>1 DEF CountResult
  <2>3. g.consecutive_successes = 0
    BY <2>2, Fields DEF Sound, DifficultyState
  <2>4. QED
    BY <1>2, <1>4, <2>3
<1>6. g.consecutive_successes = f.consecutive_successes + 1
  <2>1. g = [f EXCEPT !.total_episodes = @ + 1, !.consecutive_successes = @ + 1,
                      !.total_successes = @ + 1]
    BY <1>5 DEF CountResult
  <2>2. QED
    BY <2>1, Fields DEF Sound, DifficultyState
<1> HIDE DEF g
<1>7. /\ Recorded(f, result).consecutive_successes = 0
      /\ Recorded(f, result).current_level = g.current_level + 1
  BY <1>1, <1>2, Fields DEF DifficultyState
<1>8. QED
  BY <1>1, <1>2, <1>5, <1>6, <1>7

\* Appending a success lengthens the trailing run by one; a failure ends it.
LEMMA AppendSuccess ==
    ASSUME NEW s \in Seq(BOOLEAN), NEW n \in Nat, TrailingSuccesses(s, n)
    PROVE  TrailingSuccesses(Append(s, TRUE), n + 1)
<1> DEFINE t == Append(s, TRUE)
<1>1. /\ Len(s) \in Nat
      /\ Len(t) = Len(s) + 1
      /\ \A i \in 1 .. Len(s) : t[i] = s[i]
      /\ t[Len(s) + 1] = TRUE
  OBVIOUS
<1>2. EndsInSuccesses(s, n)
  BY DEF TrailingSuccesses
<1> HIDE DEF t
<1>3. EndsInSuccesses(t, n + 1)
  <2>1. n + 1 <= Len(t)
    BY <1>1, <1>2 DEF EndsInSuccesses
  <2>2. ASSUME NEW i \in 1 .. Len(t), i > Len(t) - (n + 1)
        PROVE  t[i]
    <3>1. CASE i = Len(s) + 1
      BY <1>1, <3>1
    <3>2. CASE i # Len(s) + 1
      <4>1. i \in 1 .. Len(s) /\ i > Len(s) - n
        BY <1>1, <2>2, <3>2
      <4>2. QED
        BY <1>1, <1>2, <4>1 DEF EndsInSuccesses
    <3>3. QED
      BY <3>1, <3>2
  <2>3. QED
    BY <2>1, <2>2 DEF EndsInSuccesses
<1>4. ASSUME n + 1 < Len(t) PROVE ~t[Len(t) - (n + 1)]
  <2>1. n < Len(s) /\ Len(t) - (n + 1) = Len(s) - n /\ Len(s) - n \in 1 .. Len(s)
    BY <1>1, <1>4
  <2>2. QED
    BY <1>1, <2>1 DEF TrailingSuccesses
<1>5. QED
  BY <1>3, <1>4 DEF TrailingSuccesses, t

LEMMA AppendFailure ==
    ASSUME NEW s \in Seq(BOOLEAN) PROVE TrailingSuccesses(Append(s, FALSE), 0)
<1> DEFINE t == Append(s, FALSE)
<1>1. /\ Len(s) \in Nat
      /\ Len(t) = Len(s) + 1
      /\ t[Len(s) + 1] = FALSE
  OBVIOUS
<1> HIDE DEF t
<1>2. EndsInSuccesses(t, 0)
  BY <1>1 DEF EndsInSuccesses
<1>3. ~t[Len(t) - 0]
  BY <1>1
<1>4. QED
  BY <1>2, <1>3 DEF TrailingSuccesses, t

LEMMA EmptyRun == TrailingSuccesses(<<>>, 0)
BY DEF TrailingSuccesses, EndsInSuccesses

\* record_result without an advance: the streak follows the outcome.
LEMMA CountedStreak ==
    ASSUME NEW f, Sound(f), NEW result
    PROVE  CountResult(f, result).consecutive_successes =
              IF IsSuccess(result) THEN f.consecutive_successes + 1 ELSE 0
<1>1. CASE IsSuccess(result)
  <2>1. CountResult(f, result) =
          [f EXCEPT !.total_episodes = @ + 1, !.consecutive_successes = @ + 1,
                    !.total_successes = @ + 1]
    BY <1>1 DEF CountResult
  <2>2. QED
    BY <1>1, <2>1, Fields DEF Sound, DifficultyState
<1>2. CASE ~IsSuccess(result)
  <2>1. CountResult(f, result) =
          [f EXCEPT !.total_episodes = @ + 1, !.consecutive_successes = 0]
    BY <1>2 DEF CountResult
  <2>2. QED
    BY <1>2, <2>1, Fields DEF Sound, DifficultyState
<1>3. QED
  BY <1>1, <1>2

LEMMA RecordKeepsTheRun ==
    ASSUME Inv, NEW result, RecordResult(result),
           TrailingSuccesses(outcomes, fsm.consecutive_successes)
    PROVE  TrailingSuccesses(outcomes', fsm'.consecutive_successes)
<1>1. CASE Advanced(fsm, result)
  <2>1. outcomes' = <<>> /\ fsm'.consecutive_successes = 0
    BY <1>1, AdvanceFacts DEF RecordResult, Inv
  <2>2. QED
    BY <2>1, EmptyRun
<1>2. CASE ~Advanced(fsm, result)
  <2>1. fsm' = CountResult(fsm, result)
    BY <1>2, RecordedWithoutAdvance DEF RecordResult, Inv
  <2>2. outcomes' = Append(outcomes, IsSuccess(result))
    BY <1>2 DEF RecordResult
  <2>3. outcomes \in Seq(BOOLEAN) /\ fsm.consecutive_successes \in Nat
    BY Fields DEF Inv, TypeOK
  <2>4. CASE IsSuccess(result)
    <3>1. /\ fsm'.consecutive_successes = fsm.consecutive_successes + 1
          /\ IsSuccess(result) = TRUE
      BY <2>1, <2>4, CountedStreak DEF Inv, IsSuccess
    <3>2. QED
      BY <2>2, <2>3, <3>1, AppendSuccess
  <2>5. CASE ~IsSuccess(result)
    <3>1. /\ fsm'.consecutive_successes = 0
          /\ IsSuccess(result) = FALSE
      BY <2>1, <2>5, CountedStreak DEF Inv, IsSuccess
    <3>2. QED
      BY <2>2, <2>3, <3>1, AppendFailure
  <2>6. QED
    BY <2>4, <2>5
<1>3. QED
  BY <1>1, <1>2

LEMMA InitRun == Init => StreakIsTheTrailingRun
BY EmptyRun DEF Init, NewDifficulty, StreakIsTheTrailingRun

LEMMA NextRun == Inv /\ StreakIsTheTrailingRun /\ [Next]_vars => StreakIsTheTrailingRun'
<1> SUFFICES ASSUME Inv, StreakIsTheTrailingRun, [Next]_vars
             PROVE  StreakIsTheTrailingRun'
  OBVIOUS
<1> DEFINE Run(f, s) == TrailingSuccesses(s, f.consecutive_successes)
<1>0. Run(fsm, outcomes) /\ Run(saved, savedOutcomes)
  BY DEF StreakIsTheTrailingRun
<1>g. SUFFICES Run(fsm', outcomes') /\ Run(saved', savedOutcomes')
  BY DEF StreakIsTheTrailingRun, TrailingSuccesses, EndsInSuccesses
<1>1. ASSUME NEW result \in Results, RecordResult(result)
      PROVE  Run(fsm', outcomes') /\ Run(saved', savedOutcomes')
  <2>1. Run(fsm', outcomes')
    BY <1>0, <1>1, RecordKeepsTheRun
  <2>2. saved' = saved /\ savedOutcomes' = savedOutcomes
    BY <1>1 DEF RecordResult
  <2>3. QED
    BY <1>0, <2>1, <2>2
<1>2. ASSUME NEW level \in Levels, ForceLevel(level)
      PROVE  Run(fsm', outcomes') /\ Run(saved', savedOutcomes')
  <2>1. fsm'.consecutive_successes = 0
    BY <1>2 DEF ForceLevel, ForcedTo, Inv, Sound, DifficultyState
  <2>2. /\ outcomes' = <<>>
        /\ saved' = saved
        /\ savedOutcomes' = savedOutcomes
    BY <1>2 DEF ForceLevel
  <2>3. QED
    BY <1>0, <2>1, <2>2, EmptyRun
<1>3. CASE Regress
  <2>1. saved' = saved /\ savedOutcomes' = savedOutcomes
    BY <1>3 DEF Regress
  <2>2. CASE fsm.current_level > 1
    <3>1. outcomes' = <<>>
      BY <1>3, <2>2 DEF Regress
    <3>2. fsm'.consecutive_successes = 0
      BY <1>3, <2>2 DEF Regress, Regressed, ForcedTo, Inv, Sound, DifficultyState
    <3>3. QED
      BY <1>0, <2>1, <3>1, <3>2, EmptyRun
  <2>3. CASE ~(fsm.current_level > 1)
    <3>1. outcomes' = outcomes /\ fsm' = fsm
      BY <1>3, <2>3 DEF Regress, Regressed
    <3>2. QED
      BY <1>0, <2>1, <3>1
  <2>4. QED
    BY <2>2, <2>3
<1>4. CASE StateDict
  BY <1>0, <1>4 DEF StateDict
<1>5. CASE LoadState
  BY <1>0, <1>5 DEF LoadState
<1>6. CASE UNCHANGED vars
  BY <1>0, <1>6 DEF vars
<1>7. QED
  BY <1>1, <1>2, <1>3, <1>4, <1>5, <1>6 DEF Next

\* The streak always equals the run of successes that ends the history.
THEOREM StreakCorrect == Spec => []StreakIsTheTrailingRun
<1>1. Init => Inv /\ StreakIsTheTrailingRun
  BY InitInv, InitRun
<1>2. Inv /\ StreakIsTheTrailingRun /\ [Next]_vars
        => (Inv /\ StreakIsTheTrailingRun)'
  BY NextInv, NextRun
<1>3. QED
  BY <1>1, <1>2, PTL DEF Spec

\* A run of n successes and one more end in m successes, for every m up to n + 1.
LEMMA EnoughSuccesses ==
    ASSUME NEW s \in Seq(BOOLEAN), NEW n \in Nat, TrailingSuccesses(s, n),
           NEW m \in Nat, m <= n + 1
    PROVE  EndsInSuccesses(Append(s, TRUE), m)
<1>1. EndsInSuccesses(Append(s, TRUE), n + 1)
  BY AppendSuccess DEF TrailingSuccesses
<1>2. Len(Append(s, TRUE)) \in Nat
  OBVIOUS
<1>3. QED
  BY <1>1, <1>2 DEF EndsInSuccesses

\* The level rises only by one and only at the end of a run of successes, at that
\* level, as long as its threshold.
THEOREM AdvanceCorrect == Spec => AdvanceIsEarned
<1> DEFINE Earned ==
      \A result \in Results :
         RecordResult(result) /\ fsm'.current_level # fsm.current_level =>
            /\ fsm'.current_level = fsm.current_level + 1
            /\ EndsInSuccesses(Append(outcomes, IsSuccess(result)),
                               AdvanceThreshold[fsm.current_level])
<1>1. Inv /\ StreakIsTheTrailingRun => Earned
  <2> SUFFICES ASSUME Inv, StreakIsTheTrailingRun, NEW result \in Results,
                      RecordResult(result), fsm'.current_level # fsm.current_level
               PROVE  /\ fsm'.current_level = fsm.current_level + 1
                      /\ EndsInSuccesses(Append(outcomes, IsSuccess(result)),
                                         AdvanceThreshold[fsm.current_level])
    OBVIOUS
  <2>1. fsm' = Recorded(fsm, result) /\ Advanced(fsm, result)
    BY DEF RecordResult, Advanced
  <2>2. /\ IsSuccess(result) = TRUE
        /\ fsm'.current_level = fsm.current_level + 1
        /\ fsm.consecutive_successes + 1 >= AdvanceThreshold[fsm.current_level]
    BY <2>1, AdvanceFacts DEF Inv, IsSuccess
  <2>3. /\ outcomes \in Seq(BOOLEAN)
        /\ fsm.consecutive_successes \in Nat
        /\ AdvanceThreshold[fsm.current_level] \in Nat
    BY Fields, ThresholdPositive DEF Inv, TypeOK
  <2>4. TrailingSuccesses(outcomes, fsm.consecutive_successes)
    BY DEF StreakIsTheTrailingRun
  <2>5. AdvanceThreshold[fsm.current_level] <= fsm.consecutive_successes + 1
    BY <2>2, <2>3
  <2>6. EndsInSuccesses(Append(outcomes, TRUE), AdvanceThreshold[fsm.current_level])
    BY <2>3, <2>4, <2>5, EnoughSuccesses
  <2>7. QED
    BY <2>2, <2>6
<1>2. Init => Inv /\ StreakIsTheTrailingRun
  BY InitInv, InitRun
<1>3. Inv /\ StreakIsTheTrailingRun /\ [Next]_vars
        => (Inv /\ StreakIsTheTrailingRun)'
  BY NextInv, NextRun
<1>4. AdvanceIsEarned <=> [][Earned]_vars
  BY DEF AdvanceIsEarned
<1>5. QED
  BY <1>1, <1>2, <1>3, <1>4, PTL DEF Spec
=============================================================================
