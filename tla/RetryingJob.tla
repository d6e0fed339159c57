---------------------------- MODULE RetryingJob ----------------------------
(***************************************************************************)
(* What the pipeline promises about a run, whatever the status row says:   *)
(* once its message is in the queue the run is pending; it is attempted a  *)
(* bounded number of times; it is done only after an attempt has left a    *)
(* whole report; otherwise it ends dead-lettered, after the last permitted *)
(* attempt, or by the queue's retention period.  An end is final.          *)
(***************************************************************************)
EXTENDS Naturals

CONSTANTS
  Runs,          \* the submitted analyses
  MaxAttempts,   \* at most this many attempts, a positive number
  Overwriting    \* may an attempt overwrite what an earlier one has left?

VARIABLES
  phase,      \* where the job of each run is
  attempts,   \* how many attempts have begun
  reported    \* the runs of which an attempt has left a whole report

jobVars == <<phase, attempts, reported>>

JobTypeOK ==
  /\ phase \in [Runs -> {"absent", "pending", "done", "dead", "expired"}]
  /\ attempts \in [Runs -> 0 .. MaxAttempts]
  /\ reported \in SUBSET Runs

JobInit ==
  /\ phase = [r \in Runs |-> "absent"]
  /\ attempts = [r \in Runs |-> 0]
  /\ reported = {}

Become(r, p) ==
  /\ phase' = [phase EXCEPT ![r] = p]
  /\ UNCHANGED <<attempts, reported>>

-----------------------------------------------------------------------------
Submit(r) == phase[r] = "absent" /\ Become(r, "pending")

Attempt(r) ==
  /\ phase[r] = "pending"
  /\ attempts[r] < MaxAttempts
  /\ attempts' = [attempts EXCEPT ![r] = @ + 1]
  /\ UNCHANGED <<phase, reported>>

(* An attempt that outlives its delivery may leave its report late.        *)
Report(r) ==
  /\ attempts[r] > 0
  /\ reported' = reported \cup {r}
  /\ UNCHANGED <<phase, attempts>>

(* An attempt starts to write over the report of an earlier one; it may be *)
(* one that outlives its delivery, but not after another has finished.     *)
Overwrite(r) ==
  /\ Overwriting
  /\ phase[r] # "done" /\ attempts[r] > 0
  /\ reported' = reported \ {r}
  /\ UNCHANGED <<phase, attempts>>

Finish(r) == phase[r] = "pending" /\ r \in reported /\ Become(r, "done")

DeadLetter(r) ==
  phase[r] = "pending" /\ attempts[r] = MaxAttempts /\ Become(r, "dead")

Lapse(r) == phase[r] = "pending" /\ Become(r, "expired")

JobNext ==
  \E r \in Runs :
    \/ Submit(r) \/ Attempt(r) \/ Report(r) \/ Overwrite(r)
    \/ Finish(r) \/ DeadLetter(r) \/ Lapse(r)

JobSpec == JobInit /\ [][JobNext]_jobVars

(* Who is told that a run is done finds its report, then and for ever.     *)
DoneIsReported == \A r \in Runs : phase[r] = "done" => r \in reported

(* No end of a run is taken back.                                          *)
EndsAreFinal ==
  [][\A r \in Runs : phase[r] \in {"done", "dead", "expired"}
       => phase'[r] = phase[r]]_jobVars

=============================================================================
