------------------------------ MODULE Platform ------------------------------
(***************************************************************************)
(* What the deployment surrounds the code with: a clock that only moves    *)
(* forward and a budget of faults (crashes, lost replies, timeouts) the    *)
(* environment may spend on the scheduler's side and on the worker's.      *)
(***************************************************************************)
EXTENDS Naturals

CONSTANTS MaxNow,              \* bound of the clock
          MaxSchedulerFaults,  \* bound of the faults of scheduler Lambdas
          MaxWorkerFaults      \* bound of the faults of worker Lambdas

ASSUME PlatformAssumption ==
  MaxNow \in Nat /\ MaxSchedulerFaults \in Nat /\ MaxWorkerFaults \in Nat

VARIABLES now,     \* the current time
          faults   \* the faults that have happened so far, by side

platformVars == <<now, faults>>

PlatformTypeOK ==
  now \in Nat /\ faults \in [scheduler : Nat, worker : Nat]

PlatformInit == now = 0 /\ faults = [scheduler |-> 0, worker |-> 0]

Tick == now < MaxNow /\ now' = now + 1 /\ UNCHANGED faults

SchedulerFault ==
  /\ faults.scheduler < MaxSchedulerFaults
  /\ faults' = [faults EXCEPT !.scheduler = @ + 1]
  /\ UNCHANGED now

WorkerFault ==
  /\ faults.worker < MaxWorkerFaults
  /\ faults' = [faults EXCEPT !.worker = @ + 1]
  /\ UNCHANGED now
=============================================================================
