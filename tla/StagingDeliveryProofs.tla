------------------------ MODULE StagingDeliveryProofs ------------------------
(***************************************************************************)
(* Proofs about StagingDelivery and the canary it drives, for any number   *)
(* of merges during a rollout and whatever the measurements find.          *)
(***************************************************************************)
EXTENDS StagingDelivery, Integers, TLAPS

LEMMA WeightsOf ==
  /\ Len(Weights) = 4
  /\ Weights[1] = 10 /\ Weights[2] = 25
  BY DEF Weights

CanaryInv == CanaryTypeOK /\ Measured

\* One metric's part of Measured, and the turn it is still at.
Current(m) == IF due[m] THEN 1 ELSE 0
KeepsUp(m) == turns[m] = Enough \/ turns[m] + Current(m) >= 1 + PauseTicksSoFar

LEMMA MeasuredByMetric ==
  Measured <=> (rollout = "progressing" =>
                  step < Len(Weights) /\ \A m \in Metrics : KeepsUp(m))
  BY DEF Measured, KeepsUp, Current

(* A turn that is over counts as much as the turn a metric is still at. *)
LEMMA OneTurnMore ==
  ASSUME NEW n \in 0 .. Enough, NEW p \in Int, n = Enough \/ n + 1 >= 1 + p
  PROVE  /\ TurnOver(n) \in 0 .. Enough
         /\ TurnOver(n) = Enough \/ TurnOver(n) >= 1 + p
  BY DEF TurnOver, Enough

LEMMA SoFarType ==
  ASSUME CanaryTypeOK
  PROVE  PauseTicksSoFar \in Int
  BY DEF CanaryTypeOK, PauseTicksSoFar, PauseTicks

LEMMA CanaryStays ==
  ASSUME CanaryInv, UNCHANGED canaryVars
  PROVE  CanaryInv'
  BY DEF CanaryInv, CanaryTypeOK, Measured, PauseTicksSoFar, canaryVars, analysisVars

LEMMA ZeroType == Zero \in [Metrics -> {0}]
  BY DEF Zero

LEMMA CanaryStarts ==
  ASSUME CanaryInit
  PROVE  CanaryInv
<1>1. CanaryTypeOK
  BY ZeroType, WeightsOf, MeasurementAssumption
     DEF CanaryInit, CanaryTypeOK, FailureLimit, PauseTicks, Enough
<1>2. QED BY <1>1 DEF CanaryInit, CanaryInv, Measured

(* A rollout that ended or begins anew has nothing behind it. *)
LEMMA ResetMeasures ==
  ASSUME NEW state \in {"settled", "progressing", "aborted"}, NEW measure \in BOOLEAN,
         measure \/ state # "progressing", Reset(state, measure),
         CanaryTypeOK, spec' \in Revisions, stable' \in Revisions
  PROVE  CanaryInv'
<1>1. /\ rollout' = state /\ step' = 0 /\ paused' = 0
      /\ turns' = Zero /\ failed' = Zero /\ errors' = Zero
      /\ due' = [m \in Metrics |-> measure]
  BY DEF Reset
<1>2. PauseTicksSoFar' = 0
  BY <1>1 DEF PauseTicksSoFar
<1>3. CanaryTypeOK'
  BY <1>1, ZeroType, WeightsOf, MeasurementAssumption
     DEF CanaryTypeOK, FailureLimit, PauseTicks, Enough
<1>4. CASE measure
  <2>1. \A m \in Metrics : Current(m)' = 1 /\ turns'[m] = 0
    BY <1>1, <1>4, ZeroType DEF Current
  <2>2. \A m \in Metrics : turns'[m] + Current(m)' >= 1 + PauseTicksSoFar'
    BY <1>2, <2>1
  <2>3. Measured'
    BY <1>1, <2>2, WeightsOf DEF Measured, Current
  <2>4. QED BY <1>3, <2>3 DEF CanaryInv
<1>5. CASE ~measure
  BY <1>1, <1>3, <1>5 DEF CanaryInv, Measured
<1>6. QED BY <1>4, <1>5

(* A new revision starts without the measurements of the one before. *)
LEMMA NewRevisionMeasures ==
  ASSUME CanaryInv, NEW r \in Revisions, NewRevision(r)
  PROVE  CanaryInv'
<1>1. CASE r = stable
  BY <1>1, ResetMeasures DEF NewRevision, CanaryInv, CanaryTypeOK
<1>2. CASE r # stable
  BY <1>2, ResetMeasures DEF NewRevision, CanaryInv, CanaryTypeOK
<1>3. QED BY <1>1, <1>2

(* A measurement, good, failed or in error, that does not end the rollout. *)
LEMMA MeasureCounts ==
  ASSUME CanaryInv, NEW m \in Metrics, rollout = "progressing", due[m],
         NEW fails \in 0 .. FailureLimit, NEW inARow \in 0 .. ErrorLimit,
         failed' = [failed EXCEPT ![m] = fails],
         errors' = [errors EXCEPT ![m] = inARow],
         turns' = [turns EXCEPT ![m] = TurnOver(@)],
         due' = [due EXCEPT ![m] = FALSE],
         UNCHANGED <<spec, stable, rollout, step, paused>>
  PROVE  CanaryInv'
<1>1. PauseTicksSoFar' = PauseTicksSoFar /\ PauseTicksSoFar \in Int
  BY SoFarType DEF CanaryInv, PauseTicksSoFar
<1>2. turns[m] \in 0 .. Enough /\ Current(m) = 1 /\ KeepsUp(m)
  BY MeasuredByMetric DEF CanaryInv, CanaryTypeOK, Current
<1>3. /\ TurnOver(turns[m]) \in 0 .. Enough
      /\ TurnOver(turns[m]) = Enough \/ TurnOver(turns[m]) >= 1 + PauseTicksSoFar
  BY <1>1, <1>2, OneTurnMore DEF KeepsUp
<1>4. turns'[m] = TurnOver(turns[m]) /\ Current(m)' = 0
  BY DEF CanaryInv, CanaryTypeOK, Current
<1>5. KeepsUp(m)'
  BY <1>1, <1>3, <1>4 DEF KeepsUp, Enough
<1>6. ASSUME NEW other \in Metrics, other # m PROVE KeepsUp(other)'
  <2>1. turns'[other] = turns[other] /\ Current(other)' = Current(other)
    BY <1>6 DEF CanaryInv, CanaryTypeOK, Current
  <2>2. KeepsUp(other)
    BY MeasuredByMetric DEF CanaryInv
  <2>3. QED BY <1>1, <2>1, <2>2 DEF KeepsUp
<1>7. CanaryTypeOK'
  BY <1>3 DEF CanaryInv, CanaryTypeOK
<1>8. Measured'
  <2>1. step' < Len(Weights) /\ \A other \in Metrics : KeepsUp(other)'
    BY <1>5, <1>6 DEF CanaryInv, Measured
  <2>2. QED BY <2>1 DEF Measured, KeepsUp, Current
<1>9. QED BY <1>7, <1>8 DEF CanaryInv

(* The turns keep up with the pauses, whichever comes first at a tick. *)
LEMMA RolloutMeasures ==
  ASSUME CanaryInv, RolloutStep
  PROVE  CanaryInv'
<1>1. CASE Tick
  <2>1. /\ rollout = "progressing" /\ (step = 0 \/ paused < PauseTicks)
        /\ paused' = IF step = 0 THEN 0 ELSE paused + 1
        /\ turns' = [m \in Metrics |-> IF due[m] THEN TurnOver(turns[m]) ELSE turns[m]]
        /\ due' = [m \in Metrics |-> TRUE]
        /\ UNCHANGED <<spec, stable, rollout, step, failed, errors>>
    BY <1>1 DEF Tick
  <2>2. paused' \in 0 .. PauseTicks
    BY <2>1 DEF CanaryInv, CanaryTypeOK, PauseTicks
  <2>3. PauseTicksSoFar' <= PauseTicksSoFar + 1
    BY <2>1 DEF CanaryInv, CanaryTypeOK, PauseTicksSoFar, PauseTicks
  <2>4. PauseTicksSoFar \in Int /\ PauseTicksSoFar' \in Int
    BY <2>1, <2>2 DEF CanaryInv, CanaryTypeOK, PauseTicksSoFar, PauseTicks
  <2>5. ASSUME NEW m \in Metrics
        PROVE  turns'[m] \in 0 .. Enough /\ KeepsUp(m)'
    <3>1. KeepsUp(m) /\ turns[m] \in 0 .. Enough
      BY <2>1, MeasuredByMetric DEF CanaryInv, CanaryTypeOK
    <3>2. Current(m)' = 1
      BY <2>1 DEF Current
    <3>3. CASE due[m]
      <4>1. turns'[m] = TurnOver(turns[m]) /\ Current(m) = 1
        BY <2>1, <3>3 DEF Current
      <4>2. /\ TurnOver(turns[m]) \in 0 .. Enough
            /\ TurnOver(turns[m]) = Enough \/ TurnOver(turns[m]) >= 1 + PauseTicksSoFar
        BY <2>4, <3>1, <4>1, OneTurnMore DEF KeepsUp
      <4>3. QED BY <2>3, <2>4, <3>2, <4>1, <4>2 DEF KeepsUp, Enough
    <3>4. CASE ~due[m]
      <4>1. turns'[m] = turns[m] /\ Current(m) = 0
        BY <2>1, <3>4 DEF Current
      <4>2. QED BY <2>3, <2>4, <3>1, <3>2, <4>1 DEF KeepsUp, Enough
    <3>5. QED BY <3>3, <3>4
  <2>6. CanaryTypeOK'
    BY <2>1, <2>2, <2>5 DEF CanaryInv, CanaryTypeOK
  <2>7. step' < Len(Weights)
    BY <2>1 DEF CanaryInv, Measured
  <2>8. Measured'
    BY <2>5, <2>7 DEF Measured, KeepsUp, Current
  <2>9. QED BY <2>6, <2>8 DEF CanaryInv
<1>2. CASE SetWeight
  <2>1. /\ rollout = "progressing" /\ step' = step + 1 /\ paused' = 0
        /\ step = 0 \/ paused = PauseTicks
        /\ step + 1 < Len(Weights)
        /\ UNCHANGED <<spec, stable, rollout, due, turns, failed, errors>>
    BY <1>2 DEF SetWeight, analysisVars
  <2>2. CanaryTypeOK'
    BY <2>1, WeightsOf DEF CanaryInv, CanaryTypeOK, PauseTicks
  <2>3. PauseTicksSoFar' = PauseTicksSoFar
    BY <2>1 DEF CanaryInv, CanaryTypeOK, PauseTicksSoFar, PauseTicks
  <2>4. Measured'
    BY <2>1, <2>3 DEF CanaryInv, Measured
  <2>5. QED BY <2>2, <2>4 DEF CanaryInv
<1>3. CASE Promote
  BY <1>3, ResetMeasures DEF Promote, CanaryInv, CanaryTypeOK
<1>4. ASSUME NEW m \in Metrics, Measure(m) PROVE CanaryInv'
  <2>1. PICK answer \in Answers(m) :
          LET error == answer = "unreachable"
              fails == failed[m] + IF error \/ Good(answer) THEN 0 ELSE 1
              inARow == IF error THEN errors[m] + 1 ELSE 0
          IN  IF fails > FailureLimit \/ inARow > ErrorLimit
                THEN Reset("aborted", FALSE)
                ELSE /\ failed' = [failed EXCEPT ![m] = fails]
                     /\ errors' = [errors EXCEPT ![m] = inARow]
                     /\ turns' = [turns EXCEPT ![m] = TurnOver(@)]
                     /\ due' = [due EXCEPT ![m] = FALSE]
                     /\ UNCHANGED <<rollout, step, paused>>
    BY <1>4 DEF Measure
  <2> DEFINE error == answer = "unreachable"
             fails == failed[m] + IF error \/ Good(answer) THEN 0 ELSE 1
             inARow == IF error THEN errors[m] + 1 ELSE 0
  <2>2. rollout = "progressing" /\ due[m] /\ UNCHANGED <<spec, stable>>
    BY <1>4 DEF Measure
  <2>3. CASE fails > FailureLimit \/ inARow > ErrorLimit
    <3>1. Reset("aborted", FALSE)
      BY <2>1, <2>3
    <3>2. QED BY <2>2, <3>1, ResetMeasures DEF CanaryInv, CanaryTypeOK
  <2>4. CASE ~(fails > FailureLimit \/ inARow > ErrorLimit)
    <3>1. /\ failed' = [failed EXCEPT ![m] = fails]
          /\ errors' = [errors EXCEPT ![m] = inARow]
          /\ turns' = [turns EXCEPT ![m] = TurnOver(@)]
          /\ due' = [due EXCEPT ![m] = FALSE]
          /\ UNCHANGED <<rollout, step, paused>>
      BY <2>1, <2>4
    <3>2. failed[m] \in Nat /\ errors[m] \in Nat /\ ErrorLimit \in Nat
      BY MeasurementAssumption DEF CanaryInv, CanaryTypeOK, FailureLimit
    <3>3. fails \in 0 .. FailureLimit /\ inARow \in 0 .. ErrorLimit
      BY <2>4, <3>2 DEF FailureLimit
    <3> HIDE DEF fails, inARow
    <3>4. QED BY <2>2, <3>1, <3>3, MeasureCounts
  <2>5. QED BY <2>3, <2>4
<1>5. QED BY <1>1, <1>2, <1>3, <1>4 DEF RolloutStep
-----------------------------------------------------------------------------
(* The inductive invariant of staging, through merges and syncs at any point of a
   rollout. *)
LEMMA SafetyInvariant == Spec => [](TypeOK /\ Measured)
<1> USE PushAssumption, RevisionAssumption
<1>1. Init => TypeOK /\ Measured
  <2> SUFFICES ASSUME Init PROVE TypeOK /\ Measured
    OBVIOUS
  <2>1. main \in Pairs /\ mixed \in BOOLEAN
    <3>1. main = PairOf(0) /\ mixed = FALSE
      BY DEF Init, StagingInit
    <3>2. PairOf(0) \in Pairs
      BY DEF PairOf, Pairs
    <3>3. QED BY <3>1, <3>2, Zenon
  <2>2. QED BY <2>1, CanaryStarts DEF Init, TypeOK, CanaryInv, Pairs, Services
<1>2. TypeOK /\ Measured /\ [Next]_vars => (TypeOK /\ Measured)'
  <2> SUFFICES ASSUME TypeOK, Measured, [Next]_vars PROVE TypeOK' /\ Measured'
    OBVIOUS
  <2>0. CanaryInv /\ main["shipment-api"] \in Revisions /\ main["tracking-worker"] \in Revisions
    BY DEF TypeOK, CanaryInv, Pairs, Services
  <2>1. CASE Merge
    <3>1. mixed' \in BOOLEAN
      BY <2>1 DEF Merge, StagingNext, Promoted, Mixed, PromotedAnything, TypeOK
    <3>2. \A c \in Commits : PairOf(c) \in Pairs
      BY DEF PairOf, Pairs, Commits
    <3>3. main' \in Pairs
      BY <2>1, <3>2 DEF Merge, StagingNext, Promoted, Mixed, PromotedAnything, TypeOK
    <3>4. QED BY <2>0, <2>1, <3>1, <3>3, CanaryStays DEF Merge, TypeOK, CanaryInv
  <2>2. CASE Rollout
    BY <2>0, <2>2, RolloutMeasures DEF Rollout, TypeOK, CanaryInv, stagingVars
  <2>3. CASE Sync
    <3>1. CanaryInv'
      BY <2>0, <2>3, NewRevisionMeasures, CanaryStays DEF Sync, ApplyToRollout
    <3>2. QED BY <2>0, <2>3, <3>1 DEF Sync, TypeOK, CanaryInv, stagingVars
  <2>4. CASE UNCHANGED vars
    BY <2>0, <2>4, CanaryStays DEF vars, TypeOK, CanaryInv, stagingVars
  <2>5. QED BY <2>1, <2>2, <2>3, <2>4 DEF Next
<1>3. QED BY <1>1, <1>2, PTL DEF Spec

(* Every variable keeps its type, whatever is merged and measured. *)
THEOREM TypeCorrect == Spec => []TypeOK
BY SafetyInvariant, PTL

(* A candidate that failed at every turn of one metric never gets more than a quarter
   of the traffic, whatever the other metric finds.
   (steps, interval and failureLimit of the chart together) *)
THEOREM FailingIsContained == Spec => []FailingCandidateIsContained
<1>1. TypeOK /\ Measured => FailingCandidateIsContained
  <2> SUFFICES ASSUME TypeOK, Measured, rollout = "progressing",
                      NEW m \in Metrics, failed[m] = turns[m]
               PROVE  CandidateShare <= 25
    BY DEF FailingCandidateIsContained
  <2>1. turns[m] \in 0 .. 3 /\ Current(m) \in 0 .. 1
    <3>1. failed[m] \in 0 .. 3
      BY DEF TypeOK, CanaryTypeOK, FailureLimit
    <3>2. QED BY <3>1 DEF Current
  <2>2. 3 >= PauseTicksSoFar
    BY <2>1, MeasuredByMetric, SoFarType DEF KeepsUp, Enough, TypeOK
  <2>3. step \in 0 .. 2
    BY <2>2, WeightsOf DEF TypeOK, CanaryTypeOK, PauseTicksSoFar, PauseTicks
  <2>4. QED BY <2>3, WeightsOf DEF CandidateShare
<1>2. QED BY <1>1, SafetyInvariant, PTL

(* What becomes stable had at least six turns of each metric without a failure, in its
   own rollout: good measurements, errors and turns missed.
   (steps, interval and failureLimit of the chart together) *)
THEOREM StableWasAnalysed == Spec => AnalysedBeforeStable
<1> DEFINE Analysed == stable' # stable => \A m \in Metrics : turns[m] - failed[m] >= 6
<1>1. TypeOK /\ Measured /\ [Next]_vars => [Analysed]_canaryVars
  <2> SUFFICES ASSUME TypeOK, Measured, [Next]_vars, stable' # stable, NEW m \in Metrics
               PROVE  turns[m] - failed[m] >= 6
    OBVIOUS
  <2>1. Promote
    BY DEF Next, vars, Merge, Rollout, RolloutStep, Sync, ApplyToRollout, NewRevision,
           Tick, SetWeight, Measure, canaryVars
  <2>2. rollout = "progressing" /\ paused = PauseTicks /\ step = 3
    BY <2>1, WeightsOf DEF Promote, TypeOK, CanaryTypeOK
  <2>3. PauseTicksSoFar = 9
    BY <2>2 DEF PauseTicksSoFar, PauseTicks
  <2>4. turns[m] \in 0 .. 9 /\ failed[m] \in 0 .. 3 /\ Current(m) \in 0 .. 1
    BY DEF TypeOK, CanaryTypeOK, FailureLimit, Enough, Current
  <2>5. turns[m] = 9 \/ turns[m] + Current(m) >= 10
    BY <2>2, <2>3, MeasuredByMetric DEF KeepsUp, Enough
  <2>6. QED BY <2>4, <2>5
<1>2. QED BY <1>1, SafetyInvariant, PTL DEF Spec, AnalysedBeforeStable
=============================================================================
