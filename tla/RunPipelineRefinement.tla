----------------------- MODULE RunPipelineRefinement -----------------------
(***************************************************************************)
(* The deployed pipeline implements the retrying job: every step of it is  *)
(* a step of RetryingJob or leaves the job unchanged.                      *)
(***************************************************************************)
EXTENDS RunPipelineProofs

JobUnchanged == UNCHANGED <<jobPhase, receives, jobReported>>

(* Only places that mean different phases change the phase.                *)
LEMMA PhaseFrame ==
  ASSUME TypeOK, \A q \in Runs : PhaseOf(msg'[q]) = PhaseOf(msg[q])
  PROVE  jobPhase' = jobPhase
BY DEF jobPhase

LEMMA PhaseMove ==
  ASSUME TypeOK, NEW r \in Runs, NEW place \in Place,
         msg' = [msg EXCEPT ![r] = place]
  PROVE  jobPhase' = [jobPhase EXCEPT ![r] = PhaseOf(place)]
BY DEF jobPhase, TypeOK, QueueTypeOK

LEMMA ReportedFrame == UNCHANGED files => jobReported' = jobReported
BY DEF jobReported

LEMMA ReportMove ==
  ASSUME TypeOK, NEW r \in Runs, NEW k \in Attempts,
         env[<<r, k>>] \in Environments, WriteFile(r, k, "whole")
  PROVE  jobReported' = jobReported \cup {r}
<1> USE DirectoriesAssumption DEF TypeOK, OrchestratorTypeOK
<1>1. \A f \in Directories \X Runs :
        files'[f] = IF f = <<env[<<r, k>>], r>> THEN "whole" ELSE files[f]
  BY DEF WriteFile
<1>2. <<env[<<r, k>>], r>> \in Environments \X Runs
  OBVIOUS
<1> QED  BY <1>1, <1>2 DEF jobReported

(* A message that is deleted finishes the job; one that is no longer the   *)
(* invocation's own stays.                                                 *)
LEMMA FinishPhase ==
  ASSUME TypeOK, NEW r \in Runs, NEW k \in Attempts, DeleteMessage(r, k)
  PROVE  /\ receives' = receives
         /\ \/ /\ jobPhase[r] = "pending"
               /\ jobPhase' = [jobPhase EXCEPT ![r] = "done"]
            \/ jobPhase' = jobPhase
<1>1. CASE msg[r] = "inflight" /\ receives[r] = k
  BY <1>1, PhaseMove DEF DeleteMessage, Place, PhaseOf, jobPhase
<1>2. CASE ~ (msg[r] = "inflight" /\ receives[r] = k)
  BY <1>2, PhaseFrame DEF DeleteMessage
<1> QED  BY <1>1, <1>2

LEMMA RefinementInit == Init => Job!JobInit
<1> SUFFICES ASSUME Init PROVE Job!JobInit  OBVIOUS
<1> USE DirectoriesAssumption DEF Init, QueueInit, OrchestratorInit
<1>1. jobPhase = [r \in Runs |-> "absent"]
  BY DEF jobPhase, PhaseOf
<1>2. \A r \in Runs, e \in Environments : files[<<e, r>>] = "absent"
  OBVIOUS
<1>3. jobReported = {}
  BY <1>2 DEF jobReported
<1> QED  BY <1>1, <1>3 DEF Job!JobInit

LEMMA RefinementIngestion ==
  ASSUME DispatchInv, NEW r \in Runs, Ingestion(r) \/ IngestionCrash(r)
  PROVE  Job!Submit(r) \/ JobUnchanged
<1> USE DEF DispatchInv
<1>1. UNCHANGED files
  BY DEF Ingestion, IngestionCrash, orchestratorVars
<1>2. CASE UNCHANGED queueVars
  BY <1>1, <1>2, PhaseFrame, ReportedFrame DEF queueVars, JobUnchanged
<1>3. ASSUME NEW g \in Groups, Dispatch(r, g), SendMessage(r, g)
      PROVE  Job!Submit(r)
  <2>1. msg[r] = "none"
    BY <1>3 DEF Dispatch, SendFollowsPut
  <2>2. jobPhase[r] = "absent"
    BY <2>1 DEF jobPhase, PhaseOf
  <2>3. jobPhase' = [jobPhase EXCEPT ![r] = "pending"]
    BY <1>3, PhaseMove DEF SendMessage, Place, PhaseOf
  <2> QED
    BY <1>1, <1>3, <2>2, <2>3, ReportedFrame
       DEF SendMessage, Job!Submit, Job!Become
<1> QED
  BY <1>2, <1>3
     DEF Ingestion, IngestionCrash, ApiStep, Validate, PutRow, Dispatch, CrashApi

LEMMA RefinementDelivery ==
  ASSUME DispatchInv, NEW r \in Runs,
         Delivery(r) \/ Redelivery(r) \/ DeadLettering(r) \/ RetentionLapse(r)
  PROVE  \/ Job!Attempt(r) \/ Job!DeadLetter(r) \/ Job!Lapse(r)
         \/ JobUnchanged
<1> USE DEF DispatchInv
<1>1. jobReported' = jobReported
  BY ReportedFrame
     DEF Delivery, StartInvocation, Redelivery, VisibilityTimeout,
         DeadLettering, RetentionLapse, orchestratorVars
<1>2. CASE Delivery(r)
  <2>1. jobPhase' = [jobPhase EXCEPT ![r] = "pending"] /\ jobPhase[r] = "pending"
    BY <1>2, PhaseMove
       DEF Delivery, StartInvocation, Receive, Receivable, Place, PhaseOf, jobPhase
  <2>2. jobPhase' = jobPhase
    BY <2>1 DEF jobPhase
  <2> QED
    BY <1>1, <1>2, <2>1, <2>2
       DEF Delivery, StartInvocation, Receive, Job!Attempt
<1>3. CASE Redelivery(r)
  <2>1. jobPhase' = jobPhase
    BY <1>3, PhaseFrame
       DEF Redelivery, VisibilityTimeout, BecomeVisible, PhaseOf, TypeOK, QueueTypeOK
  <2> QED
    BY <1>1, <1>3, <2>1
       DEF Redelivery, VisibilityTimeout, BecomeVisible, JobUnchanged
<1>4. CASE DeadLettering(r)
  <2>1. jobPhase' = [jobPhase EXCEPT ![r] = "dead"] /\ jobPhase[r] = "pending"
    BY <1>4, PhaseMove
       DEF DeadLettering, Redrive, Receivable, Place, PhaseOf, jobPhase
  <2> QED
    BY <1>1, <1>4, <2>1
       DEF DeadLettering, Redrive, Job!DeadLetter, Job!Become
<1>5. CASE RetentionLapse(r)
  <2>1. jobPhase' = [jobPhase EXCEPT ![r] = "expired"] /\ jobPhase[r] = "pending"
    BY <1>5, PhaseMove DEF RetentionLapse, Expire, Place, PhaseOf, jobPhase
  <2> QED
    BY <1>1, <1>5, <2>1 DEF RetentionLapse, Expire, Job!Lapse, Job!Become
<1> QED  BY <1>2, <1>3, <1>4, <1>5

(* The report of a run that is acknowledged is in an environment that no   *)
(* live attempt of it uses, so what an attempt truncates is another's.     *)
LEMMA AcknowledgedIsKept ==
  ASSUME ArtifactInv, NEW r \in Runs, NEW k \in Attempts,
         pc[<<r, k>>] \in Live, WriteFile(r, k, "partial"),
         msg[r] = "deleted"
  PROVE  r \in jobReported'
<1>1. PICK j \in Attempts : LeftForGood(r, j)
  BY DEF ArtifactInv, AcknowledgedIsLeft
<1>2. files'[<<env[<<r, j>>], r>>] = files[<<env[<<r, j>>], r>>]
  BY <1>1, DirectoriesAssumption
     DEF LeftForGood, WriteFile, ArtifactInv, WarmInv, DispatchInv, TypeOK,
         OrchestratorTypeOK
<1> QED  BY <1>1, <1>2 DEF LeftForGood, LeftReport, jobReported

LEMMA TruncateMove ==
  ASSUME TypeOK, NEW r \in Runs, NEW k \in Attempts,
         WriteFile(r, k, "partial")
  PROVE  jobReported' = jobReported \/ jobReported' = jobReported \ {r}
<1> USE DirectoriesAssumption DEF TypeOK, OrchestratorTypeOK
<1>1. \A f \in Directories \X Runs :
        files'[f] = IF f = <<env[<<r, k>>], r>> THEN "partial" ELSE files[f]
  BY DEF WriteFile
<1>2. ASSUME NEW q \in Runs \ {r}, NEW d \in Environments
      PROVE  files'[<<d, q>>] = files[<<d, q>>]
  BY <1>1, <1>2
<1>3. \A q \in Runs \ {r} : q \in jobReported' <=> q \in jobReported
  BY <1>2 DEF jobReported
<1>4. \A d \in Environments :
        files'[<<d, r>>] = "whole" => files[<<d, r>>] = "whole"
  BY <1>1
<1>5. r \in jobReported' => r \in jobReported
  BY <1>4 DEF jobReported
<1>6. jobReported \subseteq Runs /\ jobReported' \subseteq Runs
  BY DEF jobReported
<1>7. CASE r \in jobReported <=> r \in jobReported'
  <2>1. \A q \in Runs : q \in jobReported' <=> q \in jobReported
    BY <1>3, <1>7
  <2> QED  BY <1>6, <2>1
<1>8. CASE r \notin jobReported'
  <2>1. \A q \in Runs : q \in jobReported' <=> q \in jobReported \ {r}
    BY <1>3, <1>8
  <2> QED  BY <1>6, <2>1
<1> QED  BY <1>5, <1>7, <1>8

LEMMA RefinementExecution ==
  ASSUME ArtifactInv, NEW r \in Runs, NEW k \in Attempts,
         Execution(r, k) \/ ExecutionKilled(r, k)
  PROVE  Job!Report(r) \/ Job!Overwrite(r) \/ Job!Finish(r) \/ JobUnchanged
<1> USE DirectoriesAssumption
    DEF ArtifactInv, WarmInv, DispatchInv, TypeOK, QueueTypeOK,
        OrchestratorTypeOK
<1>1. pc[<<r, k>>] \in Live /\ env[<<r, k>>] \in Environments
  BY ExecutionChanges DEF InvocationChange, EnvironmentsExclusive
<1>2. CASE UNCHANGED <<queueVars, files>>
  BY <1>2, PhaseFrame, ReportedFrame DEF queueVars, JobUnchanged
<1>3. receives[r] > 0
  <2>1. pc[<<r, k>>] # "idle"
    BY <1>1 DEF Live
  <2>2. k <= receives[r]
    BY <2>1 DEF AttemptsFollowReceives
  <2> QED  BY <2>2, MaxReceiveAssumption DEF Attempts
<1>4. CASE OpenArtifact(r, k) /\ WriteFile(r, k, "partial")
  <2>1. jobReported' = jobReported \/ jobReported' = jobReported \ {r}
    BY <1>4, TruncateMove
  <2>2. jobPhase' = jobPhase /\ receives' = receives
    BY <1>4, PhaseFrame DEF OpenArtifact, queueVars
  <2>3. CASE jobReported' = jobReported
    BY <2>2, <2>3 DEF JobUnchanged
  <2>4. CASE r \notin jobReported'
    <3>1. msg[r] # "deleted"
      BY <1>1, <1>4, <2>4, AcknowledgedIsKept
    <3>2. jobPhase[r] # "done"
      BY <3>1 DEF jobPhase, PhaseOf, Place
    <3> QED  BY <1>3, <2>1, <2>2, <2>3, <3>2 DEF Job!Overwrite
  <2> QED  BY <2>1, <2>3, <2>4
<1>5. CASE WriteArtifact(r, k) /\ WriteFile(r, k, "whole")
  <2>1. jobReported' = jobReported \cup {r}
    BY <1>1, <1>5, ReportMove
  <2> QED
    BY <1>3, <1>5, <2>1, PhaseFrame DEF WriteArtifact, queueVars, Job!Report
<1>6. CASE Acknowledge(r, k) /\ DeleteMessage(r, k)
  <2>1. r \in jobReported
    BY <1>1, <1>6 DEF Acknowledge, CurrentFile, jobReported
  <2>2. jobReported' = jobReported
    BY <1>6, ReportedFrame DEF Acknowledge
  <2> QED
    BY <1>6, <2>1, <2>2, FinishPhase DEF Job!Finish, Job!Become, JobUnchanged
<1> QED
  BY <1>2, <1>4, <1>5, <1>6
     DEF Execution, InvocationStep, MarkProcessing, RunGraph, OpenArtifact,
         WriteArtifact, MarkCompleted, MarkFailed, Acknowledge,
         ExecutionKilled, Kill

LEMMA RefinementStep ==
  ArtifactInv /\ [Next]_vars => [Job!JobNext]_(Job!jobVars)
<1> SUFFICES ASSUME ArtifactInv, [Next]_vars
             PROVE  Job!JobNext \/ JobUnchanged
  BY DEF JobUnchanged, Job!jobVars
<1> USE DEF ArtifactInv, WarmInv
<1>1. CASE Next
  BY <1>1, RefinementIngestion, RefinementDelivery, RefinementExecution
     DEF Next, RunNext, Job!JobNext
<1>2. CASE UNCHANGED vars
  BY <1>2, PhaseFrame, ReportedFrame
     DEF vars, queueVars, orchestratorVars, JobUnchanged, DispatchInv
<1> QED  BY <1>1, <1>2

(* What happens to a run is what RetryingJob allows, for any number of     *)
(* runs and environments, with failing calls, kills, overlapping attempts  *)
(* and warm environments: it is done only while the report of an attempt   *)
(* is whole, no attempt overwrites the report of a run that is done, and   *)
(* a run is given up only after the last permitted attempt or by retention.*)
THEOREM PipelineImplementsJob == Spec => ImplementsRetryingJob
BY RefinementInit, RefinementStep, ArtifactInit, ArtifactNext, PTL
   DEF Spec, ImplementsRetryingJob, Job!JobSpec

-----------------------------------------------------------------------------
(*                     What the abstract job guarantees                    *)

LEMMA JobInvariant ==
  Job!JobSpec => [](Job!JobTypeOK /\ Job!DoneIsReported)
<1> USE MaxReceiveAssumption DEF Job!JobTypeOK, Job!DoneIsReported
<1>1. Job!JobInit => Job!JobTypeOK /\ Job!DoneIsReported
  BY DEF Job!JobInit
<1>2. ASSUME Job!JobTypeOK, Job!DoneIsReported, [Job!JobNext]_(Job!jobVars)
      PROVE  (Job!JobTypeOK /\ Job!DoneIsReported)'
  BY <1>2
     DEF Job!JobNext, Job!Submit, Job!Attempt, Job!Report, Job!Overwrite,
         Job!Finish, Job!DeadLetter, Job!Lapse, Job!Become, Job!jobVars
<1> QED  BY <1>1, <1>2, PTL DEF Job!JobSpec

(* An acknowledged run has a whole report, and goes on having one: of every *)
(* implementation of the job, the pipeline for one.                        *)
THEOREM DoneIsReportedHolds == Spec => []Job!DoneIsReported
BY PipelineImplementsJob, JobInvariant, PTL DEF ImplementsRetryingJob

(* Done, dead-lettered and expired are ends: nothing takes a run back from *)
(* them, whatever its row says.                                            *)
THEOREM EndsAreFinalHolds == Spec => Job!EndsAreFinal
<1>1. Job!JobTypeOK /\ [Job!JobNext]_(Job!jobVars) =>
        [\A r \in Runs : jobPhase[r] \in {"done", "dead", "expired"}
           => jobPhase'[r] = jobPhase[r]]_(Job!jobVars)
  BY DEF Job!JobTypeOK, Job!JobNext, Job!Submit, Job!Attempt, Job!Report,
         Job!Overwrite, Job!Finish, Job!DeadLetter, Job!Lapse, Job!Become,
         Job!jobVars
<1> QED
  BY <1>1, PipelineImplementsJob, JobInvariant, PTL
     DEF ImplementsRetryingJob, Job!JobSpec, Job!EndsAreFinal

=============================================================================
