--------------------------- MODULE ApiStartupProofs ---------------------------
(***************************************************************************)
(* Proofs about ApiStartup, for every number of attempts, every delay,     *)
(* duration of a connect() and schedule of the startup probe.              *)
(***************************************************************************)
EXTENDS ApiStartup, TLAPS

LEMMA OneMore ==
  ASSUME NEW a \in Int, NEW b \in Int
  PROVE  (a + 1) * b = a * b + b /\ b * (a + 1) = b * a + b
  OBVIOUS

LEMMA ProductGrows ==
  ASSUME NEW a \in Nat, NEW b \in Nat, NEW c \in Nat, a <= b
  PROVE  a * c <= b * c
<1>1. PICK d \in Nat : b = a + d
  <2>1. b - a \in Nat /\ b = a + (b - a)
    OBVIOUS
  <2>2. QED BY <2>1
<1>2. b * c = a * c + d * c
  BY <1>1
<1>3. d * c >= 0
  OBVIOUS
<1>4. a * c \in Int /\ b * c \in Int /\ d * c \in Int
  OBVIOUS
<1>5. QED BY <1>2, <1>3, <1>4

(* The age only grows with the clock: a probe that fails leaves it alone. *)
LEMMA AgeIsTime ==
  ASSUME TypeOK, [Next]_vars
  PROVE  /\ Age \in Int
         /\ Tick => Age' = Age + 1
         /\ ~Tick => Age' = Age \/ phase' = "started"
<1> USE StartupAssumption DEF TypeOK
<1>1. ProbePeriod * probeFailures \in Int /\ Age \in Int
  BY DEF Age
<1>2. Tick => Age' = Age + 1
  BY <1>1 DEF Tick, Age
<1>3. ASSUME Probe PROVE Age' = Age \/ phase' = "started"
  <2>1. CASE phase = "serving"
    BY <1>3, <2>1 DEF Probe
  <2>2. CASE phase # "serving"
    <3>1. probeIn = 0 /\ probeFailures' = probeFailures + 1 /\ probeIn' = ProbePeriod
      BY <1>3, <2>2 DEF Probe
    <3>2. ProbePeriod * (probeFailures + 1) = ProbePeriod * probeFailures + ProbePeriod
      BY OneMore
    <3>3. QED BY <1>1, <3>1, <3>2 DEF Age
  <2>3. QED BY <2>1, <2>2
<1>4. ASSUME ConnectSucceeds \/ ConnectFails \/ SleepEnds PROVE Age' = Age
  BY <1>4 DEF ConnectSucceeds, ConnectFails, SleepEnds, Age
<1>5. ASSUME Over \/ UNCHANGED vars PROVE Age' = Age
  BY <1>5 DEF Over, vars, Age
<1>6. QED BY <1>1, <1>2, <1>3, <1>4, <1>5 DEF Next

(* The first invariant: the attempts and the probe stay within their counts. *)
LEMMA ShapeInvariant == Spec => [](TypeOK /\ AttemptShape)
<1> USE StartupAssumption
<1> USE DEF Retrying
<1>1. Init => TypeOK /\ AttemptShape
  <2> SUFFICES ASSUME Init PROVE TypeOK /\ AttemptShape
    OBVIOUS
  <2>1. ProbePeriod * probeFailures = 0
    BY DEF Init
  <2>2. TypeOK
    BY DEF Init, TypeOK
  <2>3. probeIn <= InitialDelay + ProbePeriod * probeFailures
    BY <2>1 DEF Init
  <2>4. phase = "connecting" /\ probeFailures < FailureThreshold
    BY DEF Init
  <2>5. QED BY <2>2, <2>3, <2>4 DEF AttemptShape
<1>2. TypeOK /\ AttemptShape /\ [Next]_vars => (TypeOK /\ AttemptShape)'
  <2> SUFFICES ASSUME TypeOK, AttemptShape, [Next]_vars PROVE TypeOK' /\ AttemptShape'
    OBVIOUS
  <2>0. ProbePeriod * probeFailures \in Nat
    BY DEF TypeOK
  <2>1. CASE ConnectSucceeds
    <3>1. Age \in Nat
      BY <2>0 DEF TypeOK, AttemptShape, Age
    <3>2. UNCHANGED <<probeIn, probeFailures>> /\ phase' \in {"connecting", "serving"}
          /\ phase = "connecting"
      BY <2>1 DEF ConnectSucceeds
    <3>3. TypeOK'
      <4>1. dependency' \in {1, 2} /\ attempt' \in 1 .. MaxAttempts
        BY <2>1 DEF ConnectSucceeds, TypeOK
      <4>2. busy' \in Nat
        BY <2>1 DEF ConnectSucceeds, TypeOK
      <4>3. began' \in Nat
        BY <2>1, <3>1 DEF ConnectSucceeds, TypeOK
      <4>4. QED BY <3>2, <4>1, <4>2, <4>3 DEF TypeOK
    <3>4. AttemptShape'
      BY <3>2 DEF AttemptShape
    <3>5. QED BY <3>3, <3>4
  <2>2. CASE ConnectFails
    BY <2>2 DEF ConnectFails, TypeOK, AttemptShape
  <2>3. CASE SleepEnds
    BY <2>3 DEF SleepEnds, TypeOK, AttemptShape
  <2>4. CASE Tick
    BY <2>0, <2>4 DEF Tick, TypeOK, AttemptShape
  <2>5. CASE Probe
    <3>1. CASE phase = "serving"
      BY <2>5, <3>1 DEF Probe, TypeOK, AttemptShape
    <3>2. CASE phase # "serving"
      <4>1. /\ probeFailures' = probeFailures + 1 /\ probeIn' = ProbePeriod
            /\ phase' = IF probeFailures' = FailureThreshold THEN "killed" ELSE phase
            /\ UNCHANGED <<dependency, attempt, busy, began>> /\ Retrying
        BY <2>5, <3>2 DEF Probe
      <4>2. ProbePeriod * (probeFailures + 1) = ProbePeriod * probeFailures + ProbePeriod
        BY OneMore DEF TypeOK
      <4>3. probeFailures + 1 <= FailureThreshold
        BY <4>1 DEF TypeOK, AttemptShape
      <4>4. TypeOK'
        BY <4>1, <4>3 DEF TypeOK
      <4>5. probeIn' <= InitialDelay + ProbePeriod * probeFailures'
        BY <2>0, <4>1, <4>2
      <4>6. QED BY <4>1, <4>3, <4>4, <4>5 DEF AttemptShape, TypeOK
    <3>3. QED BY <3>1, <3>2
  <2>6. CASE Over \/ UNCHANGED vars
    BY <2>6 DEF Over, vars, TypeOK, AttemptShape
  <2>7. QED BY <2>1, <2>2, <2>3, <2>4, <2>5, <2>6 DEF Next
<1>3. QED BY <1>1, <1>2, PTL DEF Spec

(* Attempts, probes and the clock stay in their types.  (retryConnect, values.yaml) *)
THEOREM TypeCorrect == Spec => []TypeOK
BY ShapeInvariant, PTL
-----------------------------------------------------------------------------
(* Every attempt after the first waits out its sleep. *)
LEMMA SleptInvariant == Spec => []IInv
<1> USE StartupAssumption
<1> USE DEF Retrying
<1>1. Init => SleptBefore
  <2> SUFFICES ASSUME Init PROVE SleptBefore
    OBVIOUS
  <2>1. ProbePeriod * 0 = 0 /\ 0 * RetryDelay = 0
    OBVIOUS
  <2>2. QED BY <2>1 DEF Init, SleptBefore, Age
<1>2. TypeOK /\ TypeOK' /\ AttemptShape /\ SleptBefore /\ [Next]_vars => SleptBefore'
  <2> SUFFICES ASSUME TypeOK, TypeOK', AttemptShape, SleptBefore, [Next]_vars
               PROVE  SleptBefore'
    OBVIOUS
  <2> DEFINE Before == (attempt - 1) * RetryDelay
  <2>0. Age \in Int /\ Before \in Int
    BY AgeIsTime DEF TypeOK
  <2>1. CASE ConnectSucceeds
    <3>1. CASE dependency = 1
      <4>1. attempt' = 1 /\ phase' = "connecting" /\ Age' - began' = 0
        BY <2>0, <2>1, <3>1 DEF ConnectSucceeds, Age
      <4>2. (attempt' - 1) * RetryDelay = 0
        BY <4>1
      <4>3. QED BY <4>1, <4>2 DEF SleptBefore
    <3>2. CASE dependency = 2
      BY <2>1, <3>2 DEF ConnectSucceeds, SleptBefore
    <3>3. QED BY <3>1, <3>2 DEF TypeOK
  <2>2. CASE ConnectFails
    <3>1. Age' = Age /\ attempt' = attempt /\ began' = began
      BY <2>2 DEF ConnectFails, Age
    <3>2. Age - began >= Before
      BY <2>2 DEF ConnectFails, SleptBefore
    <3>3. phase' = "sleeping" => busy' = RetryDelay
      BY <2>2 DEF ConnectFails
    <3>4. phase' \in {"sleeping", "exited"}
      BY <2>2 DEF ConnectFails
    <3>5. (attempt' - 1) * RetryDelay = Before /\ Age' - began' = Age - began
      BY <3>1
    <3>6. phase' = "sleeping" => Before + (RetryDelay - busy') = Before
      BY <2>0, <3>3
    <3> HIDE DEF Before
    <3>7. QED BY <3>2, <3>4, <3>5, <3>6 DEF SleptBefore
  <2>3. CASE SleepEnds
    <3>1. Age' = Age /\ attempt' = attempt + 1 /\ began' = began /\ phase' = "connecting"
      BY <2>3 DEF SleepEnds, Age
    <3>2. Age - began >= Before + RetryDelay
      BY <2>0, <2>3 DEF SleepEnds, SleptBefore, TypeOK
    <3>3. ((attempt - 1) + 1) * RetryDelay = Before + RetryDelay
      BY OneMore DEF TypeOK
    <3>4. attempt' - 1 = (attempt - 1) + 1
      BY <3>1 DEF TypeOK
    <3>5. QED BY <3>1, <3>2, <3>3, <3>4 DEF SleptBefore
  <2>4. CASE Tick
    <3>1. Age' = Age + 1 /\ UNCHANGED <<phase, attempt, began>>
      BY <2>4, AgeIsTime DEF Tick
    <3>2. phase = "sleeping" => busy' = busy - 1
      BY <2>4 DEF Tick
    <3>3. (attempt' - 1) * RetryDelay = Before /\ Age' - began' = Age - began + 1
      BY <2>0, <3>1 DEF TypeOK
    <3>4. Age - began \in Int /\ busy \in Int
      BY <2>0 DEF TypeOK
    <3>5. phase \in {"connecting", "exited"} => Age - began >= Before
      BY DEF SleptBefore
    <3>6. phase = "sleeping" => Age - began >= Before + (RetryDelay - busy)
      BY DEF SleptBefore
    <3> HIDE DEF Before
    <3>7. QED BY <2>0, <3>1, <3>2, <3>3, <3>4, <3>5, <3>6 DEF SleptBefore
  <2>5. CASE Probe
    <3>1. Age' = Age \/ phase' = "started"
      BY <2>5, AgeIsTime DEF Probe, Tick, TypeOK
    <3>2. UNCHANGED <<attempt, began, busy>> /\ phase' \in {phase, "killed", "started"}
      BY <2>5 DEF Probe
    <3>3. QED BY <3>1, <3>2 DEF SleptBefore
  <2>6. CASE Over \/ UNCHANGED vars
    BY <2>6 DEF Over, vars, SleptBefore, Age
  <2>7. QED BY <2>1, <2>2, <2>3, <2>4, <2>5, <2>6 DEF Next
<1>3. QED BY <1>1, <1>2, ShapeInvariant, PTL DEF Spec, IInv

(* The API gives a dependency up only after the whole budget meant for it, whatever
   the other one took.  (retryConnect, called twice) *)
THEOREM NoEarlyGivingUp == Spec => []GivesUpOnlyAfterBudget
<1>1. IInv => GivesUpOnlyAfterBudget
  BY DEF IInv, AttemptShape, SleptBefore, GivesUpOnlyAfterBudget
<1>2. QED BY <1>1, SleptInvariant, PTL
-----------------------------------------------------------------------------
(* The budget of an attempt is at most that of all of them. *)
LEMMA BudgetBounds ==
  ASSUME NEW slowest \in Nat, NEW k \in 1 .. MaxAttempts
  PROVE  /\ (k - 1) * (slowest + RetryDelay) \in Nat
         /\ (k - 1) * (slowest + RetryDelay) + slowest <= Budget(slowest)
         /\ Budget(slowest) \in Nat
<1> USE StartupAssumption
<1>1. /\ k - 1 \in Nat /\ MaxAttempts - 1 \in Nat /\ k - 1 <= MaxAttempts - 1
      /\ slowest + RetryDelay \in Nat
  OBVIOUS
<1>2. (k - 1) * (slowest + RetryDelay) <= (MaxAttempts - 1) * (slowest + RetryDelay)
  BY <1>1, ProductGrows
<1>3. /\ (k - 1) * (slowest + RetryDelay) \in Nat
      /\ (MaxAttempts - 1) * (slowest + RetryDelay) \in Nat
  BY <1>1
<1>4. QED BY <1>2, <1>3 DEF Budget

(* Where no connect() takes longer than slowest, both retries keep to their budgets. *)
LEMMA BudgetInvariant ==
  ASSUME NEW slowest \in Nat, \A t \in AttemptTimes : t <= slowest
  PROVE  Spec => []WithinBudget(slowest)
<1> USE StartupAssumption
<1> USE DEF Retrying
<1>1. Init => WithinBudget(slowest)
  <2> SUFFICES ASSUME Init PROVE WithinBudget(slowest)
    OBVIOUS
  <2>1. ProbePeriod * 0 = 0 /\ 0 * (slowest + RetryDelay) = 0
    OBVIOUS
  <2>2. Age = 0
    BY <2>1 DEF Init, Age
  <2>3. busy \in Nat /\ busy <= slowest
    BY DEF Init
  <2>4. (attempt - 1) * (slowest + RetryDelay) = 0
    BY <2>1 DEF Init
  <2>5. QED BY <2>2, <2>3, <2>4 DEF Init, WithinBudget
<1>2. /\ TypeOK /\ TypeOK' /\ AttemptShape /\ WithinBudget(slowest) /\ [Next]_vars
      => WithinBudget(slowest)'
  <2> SUFFICES ASSUME TypeOK, TypeOK', AttemptShape, WithinBudget(slowest), [Next]_vars
               PROVE  WithinBudget(slowest)'
    OBVIOUS
  <2> DEFINE Before == (attempt - 1) * (slowest + RetryDelay)
  <2>0. /\ Age \in Int /\ Before \in Int /\ Age - began \in Int
        /\ busy \in Nat /\ began \in Nat /\ Budget(slowest) \in Nat
    BY AgeIsTime, BudgetBounds DEF TypeOK
  <2>a. phase = "connecting" => busy <= slowest /\ Age - began <= Before + (slowest - busy)
    BY DEF WithinBudget
  <2>b. phase = "sleeping" =>
          busy <= RetryDelay /\ Age - began <= Before + slowest + (RetryDelay - busy)
    BY DEF WithinBudget
  <2>c. UNCHANGED <<dependency, began>> =>
          /\ dependency' = 1 => began' = 0
          /\ dependency' = 2 => began' <= Budget(slowest)
    BY DEF WithinBudget
  <2>d. attempt' = attempt => (attempt' - 1) * (slowest + RetryDelay) = Before
    OBVIOUS
  <2>1. CASE ConnectSucceeds
    <3>1. CASE dependency = 1
      <4>1. /\ attempt' = 1 /\ phase' = "connecting" /\ dependency' = 2 /\ began' = Age
            /\ busy' \in AttemptTimes /\ Age' = Age /\ phase = "connecting" /\ busy = 0
        BY <2>1, <3>1 DEF ConnectSucceeds, Age
      <4>2. (attempt' - 1) * (slowest + RetryDelay) = 0
        BY <4>1
      <4>3. Age <= Before + slowest
        BY <2>0, <2>a, <3>1, <4>1 DEF WithinBudget
      <4>4. Before + slowest <= Budget(slowest)
        BY BudgetBounds DEF TypeOK
      <4>5. began' <= Budget(slowest)
        BY <2>0, <4>1, <4>3, <4>4
      <4>6. busy' \in Nat /\ busy' <= slowest /\ Age' - began' = 0
        BY <2>0, <4>1
      <4>7. QED BY <4>1, <4>2, <4>5, <4>6 DEF WithinBudget
    <3>2. CASE dependency = 2
      <4>1. phase' = "serving" /\ UNCHANGED <<dependency, began>>
        BY <2>1, <3>2 DEF ConnectSucceeds
      <4>2. QED BY <2>c, <4>1 DEF WithinBudget
    <3>3. QED BY <3>1, <3>2 DEF TypeOK
  <2>2. CASE ConnectFails
    <3>1. /\ Age' = Age /\ UNCHANGED <<attempt, dependency, began>>
          /\ phase = "connecting" /\ busy = 0 /\ phase' \in {"sleeping", "exited"}
          /\ phase' = "sleeping" => busy' = RetryDelay
      BY <2>2 DEF ConnectFails, Age
    <3>2. Age' - began' <= Before + slowest
      BY <2>0, <2>a, <3>1
    <3>3. phase' = "sleeping" => Before + slowest + (RetryDelay - busy') = Before + slowest
      BY <2>0, <3>1
    <3> HIDE DEF Before
    <3>4. QED BY <2>0, <2>c, <2>d, <3>1, <3>2, <3>3 DEF WithinBudget
  <2>3. CASE SleepEnds
    <3>1. /\ Age' = Age /\ attempt' = attempt + 1 /\ UNCHANGED <<dependency, began>>
          /\ phase = "sleeping" /\ busy = 0 /\ phase' = "connecting"
          /\ busy' \in AttemptTimes
      BY <2>3 DEF SleepEnds, Age
    <3>2. ((attempt - 1) + 1) * (slowest + RetryDelay) = Before + (slowest + RetryDelay)
      BY OneMore DEF TypeOK
    <3>3. attempt' - 1 = (attempt - 1) + 1
      BY <3>1 DEF TypeOK
    <3>4. (attempt' - 1) * (slowest + RetryDelay) = Before + (slowest + RetryDelay)
      BY <3>2, <3>3
    <3>5. busy' \in Nat /\ busy' <= slowest
      BY <3>1
    <3> HIDE DEF Before
    <3>6. Age' - began' = Age - began
      BY <3>1
    <3>7. Age - began <= Before + slowest + (RetryDelay - 0)
      BY <2>b, <3>1
    <3>8. Age' - began' <= Before + (slowest + RetryDelay) + (slowest - busy')
      BY <2>0, <3>5, <3>6, <3>7
    <3>9. QED BY <2>c, <3>1, <3>4, <3>5, <3>8 DEF WithinBudget
  <2>4. CASE Tick
    <3>1. Age' = Age + 1 /\ UNCHANGED <<phase, dependency, attempt, began>>
      BY <2>4, AgeIsTime DEF Tick
    <3>2. phase \in {"connecting", "sleeping"} => busy' = busy - 1
      BY <2>4 DEF Tick
    <3> HIDE DEF Before
    <3>3. phase' = "connecting" =>
            busy' <= slowest /\ Age' - began' <= Before + (slowest - busy')
      BY <2>0, <2>a, <3>1, <3>2
    <3>4. phase' = "sleeping" =>
            busy' <= RetryDelay /\ Age' - began' <= Before + slowest + (RetryDelay - busy')
      BY <2>0, <2>b, <3>1, <3>2
    <3>5. QED BY <2>c, <2>d, <3>1, <3>3, <3>4 DEF WithinBudget
  <2>5. CASE Probe
    <3>1. Age' = Age \/ phase' = "started"
      BY <2>5, AgeIsTime DEF Probe, Tick, TypeOK
    <3>2. UNCHANGED <<dependency, attempt, began, busy>>
          /\ phase' \in {phase, "killed", "started"}
      BY <2>5 DEF Probe
    <3> HIDE DEF Before
    <3>3. QED BY <2>a, <2>b, <2>c, <2>d, <3>1, <3>2 DEF WithinBudget
  <2>6. CASE Over \/ UNCHANGED vars
    <3>1. Age' = Age /\ UNCHANGED <<phase, dependency, attempt, busy, began>>
      BY <2>6 DEF Over, vars, Age
    <3> HIDE DEF Before
    <3>2. QED BY <2>a, <2>b, <2>c, <2>d, <3>1 DEF WithinBudget
  <2>7. QED BY <2>1, <2>2, <2>3, <2>4, <2>5, <2>6 DEF Next
<1>3. QED BY <1>1, <1>2, ShapeInvariant, PTL DEF Spec

(* While it retries, the container is younger than two budgets. *)
LEMMA RetryingAge ==
  ASSUME NEW slowest \in Nat, TypeOK, AttemptShape, WithinBudget(slowest), Retrying
  PROVE  Age <= 2 * Budget(slowest)
<1> USE StartupAssumption
<1> DEFINE Before == (attempt - 1) * (slowest + RetryDelay)
           B == Budget(slowest)
<1>1. ProbePeriod * probeFailures \in Int
  BY DEF TypeOK
<1>2. Age \in Int /\ began \in Nat /\ busy \in Nat /\ Before \in Nat /\ B \in Nat
  BY <1>1, BudgetBounds DEF TypeOK, Age
<1>3. CASE phase = "connecting"
  <2>1. Age - began <= Before + (slowest - busy) /\ Before + slowest <= B
    BY <1>3, BudgetBounds DEF WithinBudget, TypeOK
  <2> HIDE DEF Before, B
  <2>2. Age - began <= B
    BY <1>2, <2>1
  <2>3. began <= B
    BY <1>2 DEF WithinBudget, TypeOK, B
  <2>4. QED BY <1>2, <2>2, <2>3 DEF B
<1>4. CASE phase = "sleeping"
  <2>1. Age - began <= Before + slowest + (RetryDelay - busy)
    BY <1>4 DEF WithinBudget
  <2>2. attempt + 1 \in 1 .. MaxAttempts
    BY <1>4 DEF AttemptShape, TypeOK
  <2>3. ((attempt + 1) - 1) * (slowest + RetryDelay) + slowest <= B
    BY <2>2, BudgetBounds
  <2>4. ((attempt - 1) + 1) * (slowest + RetryDelay) = Before + (slowest + RetryDelay)
    BY OneMore DEF TypeOK
  <2>5. (attempt - 1) + 1 = (attempt + 1) - 1
    BY DEF TypeOK
  <2>6. Before + (slowest + RetryDelay) + slowest <= B
    BY <2>3, <2>4, <2>5
  <2> HIDE DEF Before, B
  <2>7. Age - began <= B
    BY <1>2, <2>1, <2>6
  <2>8. began <= B
    BY <1>2 DEF WithinBudget, TypeOK, B
  <2>9. QED BY <1>2, <2>7, <2>8 DEF B
<1>5. QED BY <1>3, <1>4 DEF Retrying

(* The startup probe never kills the container over its bounded retries, if two whole
   budgets pass before the failure that would: 116 s against 119 s for the numbers of
   main.go and values.yaml and dependencies that answer or refuse at once.
   (retryConnect against startupProbe) *)
THEOREM WindowOutlastsRetries ==
  ASSUME NEW slowest \in Nat, \A t \in AttemptTimes : t <= slowest,
         2 * Budget(slowest) < ProbeWindow
  PROVE  Spec => []NotKilledWhileRetrying
<1> USE StartupAssumption
<1>1. Init => NotKilledWhileRetrying
  BY DEF Init, NotKilledWhileRetrying
<1>2. /\ TypeOK /\ AttemptShape /\ WithinBudget(slowest)
      /\ NotKilledWhileRetrying /\ [Next]_vars
      => NotKilledWhileRetrying'
  <2> SUFFICES ASSUME TypeOK, AttemptShape, WithinBudget(slowest), Next,
                      NotKilledWhileRetrying, phase' = "killed"
               PROVE  FALSE
    BY DEF vars, NotKilledWhileRetrying
  <2>1. /\ Retrying /\ probeIn = 0 /\ probeFailures + 1 = FailureThreshold
    BY DEF Next, ConnectSucceeds, ConnectFails, SleepEnds, Tick, Probe, Over, vars,
           Retrying, NotKilledWhileRetrying
  <2>2. probeFailures = FailureThreshold - 1
    BY <2>1 DEF TypeOK
  <2>3. Age = ProbeWindow /\ Age \in Int
    BY <2>1, <2>2 DEF Age, ProbeWindow
  <2>4. Age <= 2 * Budget(slowest) /\ Budget(slowest) \in Nat
    BY <2>1, RetryingAge, BudgetBounds DEF TypeOK
  <2>5. QED BY <2>3, <2>4
<1>3. QED BY <1>1, <1>2, ShapeInvariant, BudgetInvariant, PTL DEF Spec
=============================================================================
