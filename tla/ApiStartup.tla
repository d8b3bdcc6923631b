------------------------------ MODULE ApiStartup ------------------------------
(***************************************************************************)
(* The start of a shipment-api container against its startup probe.        *)
(*                                                                         *)
(* cmd/server/main.go connects to PostgreSQL and then to NATS, each with   *)
(* retryConnect (a bounded number of attempts with a fixed sleep between   *)
(* them), and only then opens the HTTP port.  Meanwhile the kubelet probes *)
(* that port and kills the container after failureThreshold failures       *)
(* (values.yaml).  Time is in seconds.                                     *)
(***************************************************************************)
EXTENDS Integers

CONSTANTS MaxAttempts,       \* retryConnect(name, 30, ...)
          RetryDelay,        \* its 2 * time.Second
          AttemptTimes,      \* the seconds one connect() may take
          InitialDelay,      \* startup probe: initialDelaySeconds
          ProbePeriod,       \* periodSeconds
          FailureThreshold   \* failureThreshold

ASSUME StartupAssumption ==
  /\ MaxAttempts \in Nat \ {0} /\ RetryDelay \in Nat
  /\ AttemptTimes \subseteq Nat /\ AttemptTimes # {}
  /\ InitialDelay \in Nat /\ ProbePeriod \in Nat \ {0}
  /\ FailureThreshold \in Nat \ {0}

VARIABLES
  phase,          \* connecting, sleeping, serving, started, exited or killed
  dependency,     \* 1 while connecting to PostgreSQL, 2 to NATS
  attempt,        \* attempt of retryConnect
  busy,           \* seconds left of the connect() or the sleep
  probeIn,        \* seconds to the next probe
  probeFailures,  \* failed probes so far
  began           \* history: Age when the current retryConnect began

vars == <<phase, dependency, attempt, busy, probeIn, probeFailures, began>>

Retrying == phase \in {"connecting", "sleeping"}

TypeOK ==
  /\ phase \in {"connecting", "sleeping", "serving", "started", "exited", "killed"}
  /\ dependency \in {1, 2}
  /\ attempt \in 1 .. MaxAttempts
  /\ busy \in Nat
  /\ probeIn \in 0 .. (InitialDelay + ProbePeriod)
  /\ probeFailures \in 0 .. FailureThreshold
  /\ began \in Nat

\* The seconds the container has lived, from the probe's schedule.
Age == InitialDelay + ProbePeriod * probeFailures - probeIn

Init ==
  /\ phase = "connecting" /\ dependency = 1 /\ attempt = 1
  /\ busy \in AttemptTimes
  /\ probeIn = InitialDelay /\ probeFailures = 0
  /\ began = 0

\* Mutant: both dependencies draw on one count of attempts.
ConnectSharesAttempts ==
  /\ phase = "connecting" /\ busy = 0
  /\ \/ /\ dependency = 1
        /\ dependency' = 2 /\ began' = Age
        /\ busy' \in AttemptTimes
        /\ UNCHANGED <<phase, attempt>>
     \/ /\ dependency = 2
        /\ phase' = "serving"
        /\ UNCHANGED <<dependency, attempt, busy, began>>
  /\ UNCHANGED <<probeIn, probeFailures>>

\* connect() returns a value: on to the next dependency, or to ListenAndServe.
ConnectSucceeds ==
  /\ phase = "connecting" /\ busy = 0
  /\ \/ /\ dependency = 1
        /\ dependency' = 2 /\ attempt' = 1 /\ began' = Age
        /\ busy' \in AttemptTimes
        /\ UNCHANGED phase
     \/ /\ dependency = 2
        /\ phase' = "serving"
        /\ UNCHANGED <<dependency, attempt, busy, began>>
  /\ UNCHANGED <<probeIn, probeFailures>>

\* Mutant: the attempts are not bounded.
ConnectFailsForever ==
  /\ phase = "connecting" /\ busy = 0
  /\ phase' = "sleeping" /\ busy' = RetryDelay
  /\ UNCHANGED <<attempt, dependency, probeIn, probeFailures, began>>

\* connect() returns an error: sleep, or log.Fatalf after the last attempt.
ConnectFails ==
  /\ phase = "connecting" /\ busy = 0
  /\ \/ /\ attempt < MaxAttempts
        /\ phase' = "sleeping" /\ busy' = RetryDelay
     \/ /\ attempt = MaxAttempts
        /\ phase' = "exited"
        /\ UNCHANGED busy
  /\ UNCHANGED <<attempt, dependency, probeIn, probeFailures, began>>

\* time.Sleep(delay) is over: the next attempt.
SleepEnds ==
  /\ phase = "sleeping" /\ busy = 0
  /\ phase' = "connecting"
  /\ attempt' = attempt + 1
  /\ busy' \in AttemptTimes
  /\ UNCHANGED <<dependency, probeIn, probeFailures, began>>

\* One second passes.
Tick ==
  /\ probeIn > 0
  /\ \/ Retrying /\ busy > 0 /\ busy' = busy - 1
     \/ phase = "serving" /\ UNCHANGED busy
  /\ probeIn' = probeIn - 1
  /\ UNCHANGED <<phase, dependency, attempt, probeFailures, began>>

\* The kubelet probes /healthz: the port answers once the server listens.
Probe ==
  /\ probeIn = 0 /\ (Retrying \/ phase = "serving")
  /\ IF phase = "serving"
       THEN phase' = "started" /\ UNCHANGED <<probeIn, probeFailures>>
       ELSE /\ probeFailures' = probeFailures + 1
            /\ phase' = IF probeFailures' = FailureThreshold THEN "killed" ELSE phase
            /\ probeIn' = ProbePeriod
  /\ UNCHANGED <<dependency, attempt, busy, began>>

\* The container is over: started for good, or left to the kubelet.
Over == phase \in {"started", "exited", "killed"} /\ UNCHANGED vars

Next == ConnectSucceeds \/ ConnectFails \/ SleepEnds \/ Tick \/ Probe \/ Over

Spec == Init /\ [][Next]_vars
-----------------------------------------------------------------------------
(* tests/contract/test_helm_rollout_contract.py: the kubelet must not restart the API
   while its bounded dependency retries are active.  (retryConnect against the startup
   probe of values.yaml) *)
NotKilledWhileRetrying == phase # "killed"

(* The process gives a dependency up only after the whole budget meant for it has
   passed since it first tried: a dependency that comes up within that time is
   never missed, however long the other one took.  (retryConnect, called twice) *)
GivesUpOnlyAfterBudget ==
  phase = "exited" => Age - began >= (MaxAttempts - 1) * RetryDelay
-----------------------------------------------------------------------------
(* The inductive invariants behind the safety properties: *)

\* A sleep is followed by an attempt, and the probe that would kill has not come.
AttemptShape ==
  /\ phase = "sleeping" => attempt < MaxAttempts
  /\ phase = "exited" => attempt = MaxAttempts
  /\ Retrying => probeFailures < FailureThreshold
  /\ probeIn <= InitialDelay + ProbePeriod * probeFailures

\* Every attempt but the first came after a whole sleep.
SleptBefore ==
  /\ phase \in {"connecting", "exited"} => Age - began >= (attempt - 1) * RetryDelay
  /\ phase = "sleeping" => Age - began >= (attempt - 1) * RetryDelay + (RetryDelay - busy)

IInv == TypeOK /\ AttemptShape /\ SleptBefore

\* The seconds one retryConnect takes at most where no connect() takes longer than
\* slowest, and those after which the startup probe kills.
Budget(slowest) == (MaxAttempts - 1) * (slowest + RetryDelay) + slowest
ProbeWindow == InitialDelay + ProbePeriod * (FailureThreshold - 1)

\* Neither retryConnect has used more than its budget.
WithinBudget(slowest) ==
  LET Before == (attempt - 1) * (slowest + RetryDelay)
  IN  /\ phase = "connecting" =>
           busy <= slowest /\ Age - began <= Before + (slowest - busy)
      /\ phase = "sleeping" =>
           busy <= RetryDelay /\ Age - began <= Before + slowest + (RetryDelay - busy)
      /\ dependency = 1 => began = 0
      /\ dependency = 2 => began <= Budget(slowest)
=============================================================================
