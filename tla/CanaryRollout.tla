---------------------------- MODULE CanaryRollout ----------------------------
(***************************************************************************)
(* The canary of shipment-api: the steps of its Rollout                    *)
(* (templates/shipment-api/rollout.yaml) and the background analysis that  *)
(* measures each of two metrics from the first step on, again ten seconds  *)
(* after the last measurement ended (analysis-template.yaml).              *)
(*                                                                         *)
(* Steps and measurements share a clock of ten-second ticks.  Each tick    *)
(* gives each metric a turn, which it may miss: a measurement takes time   *)
(* and delays those after it.  Nothing orders steps and measurements       *)
(* within a tick: the last pause and a measurement that is due may end in  *)
(* either order.  Argo Rollouts is modelled from how the chart configures  *)
(* it; what Prometheus answers is chosen from the cases the conditions     *)
(* tell apart, no answer included.                                         *)
(***************************************************************************)
EXTENDS Naturals, Sequences

CONSTANTS
  Revisions,      \* images of shipment-api
  ErrorRatios,    \* what the success-rate query may find
  Latencies,      \* what the latency-p99 query may find
  ErrorLimit      \* consecutiveErrorLimit, which the chart leaves at Argo's default

\* Results of the queries: no sample at all or 0/0; requests but no 5xx ever counted,
\* so no series to divide; a ratio of 0, of at most 1% and of more; no answer.
ASSUME MeasurementAssumption ==
  /\ ErrorRatios \subseteq {"nodata", "noseries", "zero", "few", "many", "unreachable"}
  /\ Latencies \subseteq {"nodata", "fast", "slow", "unreachable"}
  /\ ErrorRatios # {} /\ Latencies # {}
  /\ ErrorLimit \in Nat

Metrics == {"success-rate", "latency-p99"}
Weights == <<10, 25, 50, 100>>   \* setWeight
Enough == 9                      \* turns are counted up to here

\* Mutants: shorter pauses, one failure more.
PauseOneTick == 1
OneMoreFailure == 4

PauseTicks == 3     \* pause: duration 30s, at an interval of 10s
FailureLimit == 3

VARIABLES
  spec,      \* the revision the Rollout's template names
  stable,    \* the revision that serves the rest of the traffic
  rollout,   \* settled, progressing, aborted
  step,      \* weights set so far
  paused,    \* ticks of the current pause
  due,       \* of each metric, whether a measurement is due
  turns,     \* of each metric, its turns that are over: measured or missed
  failed,    \* of each metric, its failed measurements
  errors     \* of each metric, its last measurements that all ended in an error

analysisVars == <<due, turns, failed, errors>>
canaryVars == <<spec, stable, rollout, step, paused, analysisVars>>

CanaryTypeOK ==
  /\ spec \in Revisions /\ stable \in Revisions
  /\ rollout \in {"settled", "progressing", "aborted"}
  /\ step \in 0 .. Len(Weights) /\ paused \in 0 .. PauseTicks
  /\ due \in [Metrics -> BOOLEAN] /\ turns \in [Metrics -> 0 .. Enough]
  /\ failed \in [Metrics -> 0 .. FailureLimit] /\ errors \in [Metrics -> 0 .. ErrorLimit]

Zero == [m \in Metrics |-> 0]

\* The rollout is over, one way or the other, or begins again: nothing is left of it.
Reset(state, measure) ==
  /\ rollout' = state /\ step' = 0 /\ paused' = 0
  /\ due' = [m \in Metrics |-> measure] /\ turns' = Zero /\ failed' = Zero /\ errors' = Zero

CanaryInit ==
  /\ spec \in Revisions /\ stable = spec
  /\ rollout = "settled" /\ step = 0 /\ paused = 0
  /\ due = [m \in Metrics |-> FALSE] /\ turns = Zero /\ failed = Zero /\ errors = Zero

\* Share of the traffic the candidate gets.
CandidateShare == IF step = 0 THEN 0 ELSE Weights[step]
-----------------------------------------------------------------------------
\* The template changes: the steps begin anew, or, back at the stable revision, there
\* is nothing to roll out.
NewRevision(r) ==
  /\ r # spec /\ spec' = r /\ UNCHANGED stable
  /\ IF r = stable THEN Reset("settled", FALSE) ELSE Reset("progressing", TRUE)

TurnOver(n) == IF n < Enough THEN n + 1 ELSE n

\* Ten seconds pass.  A metric whose measurement is not done by now has missed a turn:
\* the interval to the next one counts from the end of this one.
Tick ==
  /\ rollout = "progressing"
  /\ step = 0 \/ paused < PauseTicks
  /\ paused' = IF step = 0 THEN 0 ELSE paused + 1
  /\ turns' = [m \in Metrics |-> IF due[m] THEN TurnOver(turns[m]) ELSE turns[m]]
  /\ due' = [m \in Metrics |-> TRUE]
  /\ UNCHANGED <<spec, stable, rollout, step, failed, errors>>

\* Mutant: the last weight is a step like the others.
SetAnyWeight ==
  /\ rollout = "progressing" /\ (step = 0 \/ paused = PauseTicks)
  /\ step' = step + 1 /\ paused' = 0
  /\ UNCHANGED <<spec, stable, rollout, analysisVars>>

\* The candidate's pods are available, or a pause is over: the next weight is set.
SetWeight ==
  /\ rollout = "progressing" /\ (step = 0 \/ paused = PauseTicks)
  /\ step + 1 < Len(Weights)
  /\ step' = step + 1 /\ paused' = 0
  /\ UNCHANGED <<spec, stable, rollout, analysisVars>>

\* The last weight completes the rollout.
Promote ==
  /\ rollout = "progressing" /\ paused = PauseTicks /\ step + 1 = Len(Weights)
  /\ stable' = spec /\ Reset("settled", FALSE)
  /\ UNCHANGED spec

Answers(m) == IF m = "success-rate" THEN ErrorRatios ELSE Latencies

\* successCondition: there is a result, it is a number and within the threshold.
Good(answer) == answer \in {"zero", "few", "fast"}

\* A metric is measured.  A query without an answer is an error, no failure.  One
\* failure above the limit, or one error in a row too many, aborts the rollout, and
\* all traffic goes back to the stable revision.
Measure(m) ==
  /\ rollout = "progressing" /\ due[m]
  /\ \E answer \in Answers(m) :
       LET error == answer = "unreachable"
           fails == failed[m] + IF error \/ Good(answer) THEN 0 ELSE 1
           inARow == IF error THEN errors[m] + 1 ELSE 0
       IN  IF fails > FailureLimit \/ inARow > ErrorLimit
             THEN Reset("aborted", FALSE)
             ELSE /\ failed' = [failed EXCEPT ![m] = fails]
                  /\ errors' = [errors EXCEPT ![m] = inARow]
                  /\ turns' = [turns EXCEPT ![m] = TurnOver(@)]
                  /\ due' = [due EXCEPT ![m] = FALSE]
                  /\ UNCHANGED <<rollout, step, paused>>
  /\ UNCHANGED <<spec, stable>>

RolloutStep == Tick \/ SetWeight \/ Promote \/ \E m \in Metrics : Measure(m)

CanarySpec ==
  CanaryInit /\ [][RolloutStep \/ \E r \in Revisions : NewRevision(r)]_canaryVars
-----------------------------------------------------------------------------
(* A candidate that failed at every turn of one metric - measured in time, and badly -
   never gets more than a quarter of the traffic.
   (steps, interval and failureLimit together) *)
FailingCandidateIsContained ==
  (rollout = "progressing" /\ \E m \in Metrics : turns[m] > 0 /\ failed[m] = turns[m])
    => CandidateShare <= 25

(* A revision becomes stable only after each metric had at least six turns at which it
   did not fail, in its own rollout, whatever was rolled out before or arrived in
   between: six good measurements, less one for each error and each turn missed.  That
   no metric need be good even once is what the chart leaves open.
   (steps, interval and failureLimit together) *)
AnalysedBeforeStable ==
  [][stable' # stable => \A m \in Metrics : turns[m] - failed[m] >= 6]_canaryVars

(* Where every measurement finds requests answered fast and at most 1% of them with
   5xx, the rollout is not aborted.  docs/GITOPS.md says of the analysis that "the
   HTTP 5xx ratio is at most 1%" is what the queries check.  (analysis-template.yaml) *)
HealthyCandidateIsNotAborted == rollout # "aborted"
-----------------------------------------------------------------------------
(* The inductive invariant behind the safety properties: the analysis keeps up with the
   steps, one turn of each metric for each tick of the pauses and one before the
   first, the one it is still at included. *)
PauseTicksSoFar == IF step = 0 THEN 0 ELSE PauseTicks * (step - 1) + paused

Measured ==
  rollout = "progressing" =>
    /\ step < Len(Weights)
    /\ \A m \in Metrics :
         turns[m] = Enough \/ turns[m] + (IF due[m] THEN 1 ELSE 0) >= 1 + PauseTicksSoFar
=============================================================================
