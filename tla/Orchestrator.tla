---------------------------- MODULE Orchestrator ----------------------------
(***************************************************************************)
(* The engine-orchestrator Lambda.  The event source mapping (batch size 1)*)
(* starts invocation <<r, k>> when it receives the message of run r for    *)
(* the k-th time and deletes the message when the handler returns.  Every  *)
(* invocation runs in an execution environment that no other invocation    *)
(* uses at the time: a new one, or one that an earlier invocation, of this *)
(* or of another run, has left with its files.  An environment that Lambda *)
(* retires is one that is never chosen again.                              *)
(***************************************************************************)
EXTENDS RunStateTable, IngestionQueue

CONSTANTS
  Directories,       \* the REPORTS_DIR of all environments, of any function
  Environments,      \* those of the orchestrator's environments
  NoEnvironment,     \* stands for "not started"
  OverlapPossible    \* can a message reappear while an invocation runs?

ASSUME DirectoriesAssumption == Environments \subseteq Directories
ASSUME NoEnvironmentAssumption == NoEnvironment \notin Environments
ASSUME OverlapAssumption == OverlapPossible \in BOOLEAN

VARIABLES
  pc,      \* where each invocation is
  env,     \* the environment it runs in
  files    \* the state of <run_id>.json in each directory

orchestratorVars == <<pc, env, files>>

(* idle: not started; the others name what the invocation does next.       *)
Live == {"started", "running", "opening", "writing", "completing",
         "failing", "returned"}

Ended == {"raised", "finished", "killed"}

OrchestratorTypeOK ==
  /\ pc \in [Runs \X Attempts -> Live \cup Ended \cup {"idle"}]
  /\ env \in [Runs \X Attempts -> Environments \cup {NoEnvironment}]
  /\ files \in [Directories \X Runs -> {"absent", "partial", "whole"}]

OrchestratorInit ==
  /\ pc = [i \in Runs \X Attempts |-> "idle"]
  /\ env = [i \in Runs \X Attempts |-> NoEnvironment]
  /\ files = [f \in Directories \X Runs |-> "absent"]

(* An invocation stays in its environment.                                 *)
Goto(r, k, step) ==
  /\ pc' = [pc EXCEPT ![<<r, k>>] = step]
  /\ UNCHANGED env

WriteFile(r, k, content) ==
  files' = [files EXCEPT ![<<env[<<r, k>>], r>>] = content]

Busy(e) == \E i \in Runs \X Attempts : pc[i] \in Live /\ env[i] = e

-----------------------------------------------------------------------------
(* The event source mapping receives the message and invokes the handler,  *)
(* for which Lambda finds or makes an environment that is not in use.      *)
StartInvocation(r) ==
  /\ Receive(r)
  /\ LET k == receives[r] + 1 IN
       \E e \in Environments :
         /\ ~ Busy(e)
         /\ pc' = [pc EXCEPT ![<<r, k>>] = "started"]
         /\ env' = [env EXCEPT ![<<r, k>>] = e]
  /\ UNCHANGED <<status, files>>

MarkProcessing(r, k) ==
  /\ pc[<<r, k>>] = "started"
  /\ UpdateRunStatus(r, "PROCESSING", {})
  /\ Goto(r, k, "running")
  /\ UNCHANGED <<queueVars, files>>

(* run_intelligence_pipeline returns the graph's output or raises.         *)
RunGraph(r, k) ==
  /\ pc[<<r, k>>] = "running"
  /\ Goto(r, k, "opening") \/ Goto(r, k, "failing")
  /\ UNCHANGED <<status, queueVars, files>>

(* Mutant of OpenArtifact: a persistence error does not fail the run.      *)
OpenArtifactBestEffort(r, k) ==
  /\ pc[<<r, k>>] = "opening"
  /\ \/ WriteFile(r, k, "partial") /\ Goto(r, k, "writing")
     \/ UNCHANGED files /\ Goto(r, k, "completing")
  /\ UNCHANGED <<status, queueVars>>

(* write_text truncates the file when it opens it, also the whole report   *)
(* an earlier attempt has left in this environment, then writes the        *)
(* artifact; mkdir, json.dumps and open may raise before the file changes. *)
OpenArtifact(r, k) ==
  /\ pc[<<r, k>>] = "opening"
  /\ \/ WriteFile(r, k, "partial") /\ Goto(r, k, "writing")
     \/ UNCHANGED files /\ Goto(r, k, "failing")
  /\ UNCHANGED <<status, queueVars>>

WriteArtifact(r, k) ==
  /\ pc[<<r, k>>] = "writing"
  /\ \/ WriteFile(r, k, "whole") /\ Goto(r, k, "completing")
     \/ UNCHANGED files /\ Goto(r, k, "failing")
  /\ UNCHANGED <<status, queueVars>>

(* The final update carries the duration, a float.                         *)
MarkCompleted(r, k) ==
  /\ pc[<<r, k>>] = "completing"
  /\ UpdateRunStatus(r, "COMPLETED", {"report_url", "execution_time_seconds"})
  /\ Goto(r, k, "returned")
  /\ UNCHANGED <<queueVars, files>>

(* Mutant of MarkFailed: the exception is not raised again.                *)
MarkFailedSwallowed(r, k) ==
  /\ pc[<<r, k>>] = "failing"
  /\ UpdateRunStatus(r, "FAILED", {"error_message"})
  /\ Goto(r, k, "returned")
  /\ UNCHANGED <<queueVars, files>>

(* Mutant of MarkFailed: the update carries the duration as well.          *)
MarkFailedWithDuration(r, k) ==
  /\ pc[<<r, k>>] = "failing"
  /\ UpdateRunStatus(r, "FAILED", {"error_message", "execution_time_seconds"})
  /\ Goto(r, k, "raised")
  /\ UNCHANGED <<queueVars, files>>

(* The except block: the FAILED update, then the exception is raised again *)
(* so that the message stays in the queue.                                 *)
MarkFailed(r, k) ==
  /\ pc[<<r, k>>] = "failing"
  /\ UpdateRunStatus(r, "FAILED", {"error_message"})
  /\ Goto(r, k, "raised")
  /\ UNCHANGED <<queueVars, files>>

(* The handler has returned: the event source mapping deletes the message. *)
Acknowledge(r, k) ==
  /\ pc[<<r, k>>] = "returned"
  /\ DeleteMessage(r, k) \/ (AwsCallsMayFail /\ UNCHANGED queueVars)
  /\ Goto(r, k, "finished")
  /\ UNCHANGED <<status, files>>

(* The 900 s timeout, an out-of-memory kill or a crash, at any point.      *)
Kill(r, k) ==
  /\ pc[<<r, k>>] \in Live
  /\ Goto(r, k, "killed")
  /\ UNCHANGED <<status, queueVars, files>>

InvocationStep(r, k) ==
  \/ MarkProcessing(r, k) \/ RunGraph(r, k)
  \/ OpenArtifact(r, k) \/ WriteArtifact(r, k)
  \/ MarkCompleted(r, k) \/ MarkFailed(r, k)
  \/ Acknowledge(r, k)

(* Mutant of VisibilityTimeout: it can run out under an invocation.        *)
VisibilityTimeoutTooShort(r) ==
  /\ BecomeVisible(r)
  /\ UNCHANGED <<status, orchestratorVars>>

(* The visibility timeout (15 min) is counted from the receive, the        *)
(* function timeout (900 s) from the invocation: a message received some   *)
(* time before its invocation starts reappears while it still runs.        *)
VisibilityTimeout(r) ==
  /\ OverlapPossible \/ \A k \in Attempts : pc[<<r, k>>] \notin Live
  /\ BecomeVisible(r)
  /\ UNCHANGED <<status, orchestratorVars>>

=============================================================================
