----------------------- MODULE HandlerVariantsProofs -----------------------
(***************************************************************************)
(* Proofs about the pipeline with the S3 or the minimal orchestrator in    *)
(* place of the deployed one.  Both change no more than InvocationChange   *)
(* allows, so the invariants of dispatch and serial execution hold here by *)
(* the lemmas of RunPipelineProofs and RunPipelineSerialProofs.            *)
(***************************************************************************)
EXTENDS HandlerVariants, RunPipelineRefinement, RunPipelineSerialProofs

LEMMA VariantChanges ==
  ASSUME TypeOK, NEW r \in Runs, NEW k \in Attempts,
         VariantExecution(r, k) \/ ExecutionKilled(r, k)
  PROVE  InvocationChange(r, k)
<1> USE DEF InvocationChange, queueVars, Live, Ended, RowStatus
<1>1. CASE ExecutionKilled(r, k)
  BY <1>1, ExecutionChanges
<1>2. CASE InvocationStep(r, k) /\ UNCHANGED apiVars
  BY <1>2, ExecutionChanges DEF Execution
<1>3. CASE PutArtifact(r, k) /\ UNCHANGED apiVars
  BY <1>3 DEF PutArtifact
<1>4. CASE MinimalMarkProcessing(r, k) /\ UNCHANGED apiVars
  BY <1>4 DEF MinimalMarkProcessing, UpdateOrRaise
<1>5. CASE MinimalMarkCompleted(r, k) /\ UNCHANGED apiVars
  BY <1>5 DEF MinimalMarkCompleted, UpdateOrRaise
<1>6. CASE MinimalMarkFailed(r, k) /\ UNCHANGED apiVars
  BY <1>6 DEF MinimalMarkFailed, UpdateOrRaise
<1> QED
  BY <1>1, <1>2, <1>3, <1>4, <1>5, <1>6
     DEF VariantExecution, S3Step, MinimalStep, InvocationStep

-----------------------------------------------------------------------------
(*                 What the variants share with the pipeline               *)

LEMMA VariantDispatchNext ==
  DispatchInv /\ [VariantNext]_variantVars => DispatchInv'
<1> SUFFICES ASSUME DispatchInv, [VariantNext]_variantVars
             PROVE  DispatchInv'
  OBVIOUS
<1>1. CASE VariantNext
  BY <1>1, TypeIngestion, TypeDelivery, TypeInvocation, DispatchIngestion,
     DispatchDelivery, DispatchInvocation, VariantChanges
     DEF VariantNext, SharedStep, HandlerStep, DispatchInv
<1>2. CASE UNCHANGED variantVars
  <2>1. [Next]_vars
    BY <1>2 DEF variantVars
  <2> QED  BY <2>1, DispatchNext
<1> QED  BY <1>1, <1>2

LEMMA VariantWarmNext == WarmInv /\ [VariantNext]_variantVars => WarmInv'
<1> SUFFICES ASSUME WarmInv, [VariantNext]_variantVars
             PROVE  WarmInv'
  OBVIOUS
<1>1. DispatchInv'
  BY VariantDispatchNext DEF WarmInv
<1>2. CASE VariantNext
  BY <1>1, <1>2, OutsideChanges, ExclusiveOutside, VariantChanges,
     ExclusiveInvocation
     DEF VariantNext, SharedStep, HandlerStep, WarmInv, DispatchInv
<1>3. CASE UNCHANGED variantVars
  <2>1. [Next]_vars
    BY <1>3 DEF variantVars
  <2> QED  BY <2>1, WarmNext
<1> QED  BY <1>2, <1>3

LEMMA VariantSerialNext ==
  ASSUME NoOverlap
  PROVE  SerialInv /\ [VariantNext]_variantVars => SerialInv'
<1> SUFFICES ASSUME SerialInv, [VariantNext]_variantVars
             PROVE  SerialInv'
  OBVIOUS
<1>1. DispatchInv'
  BY VariantDispatchNext DEF SerialInv
<1>2. CASE VariantNext
  BY <1>1, <1>2, SerialIngestion, SerialDelivery, SerialInvocation,
     VariantChanges
     DEF VariantNext, SharedStep, HandlerStep, SerialInv, DispatchInv
<1>3. CASE UNCHANGED variantVars
  <2>1. [Next]_vars
    BY <1>3 DEF variantVars
  <2> QED  BY <2>1, SerialNext
<1> QED  BY <1>2, <1>3

(* Every variable keeps its type, with each of the orchestrators.          *)
THEOREM VariantTypeCorrect == VariantSpec => []TypeOK
<1>1. DispatchInv => TypeOK
  BY DEF DispatchInv
<1> QED
  BY <1>1, DispatchInit, VariantDispatchNext, PTL DEF VariantSpec, VariantInit

(* Two runs of one company and country are never executed at the same      *)
(* time, by either of the other orchestrators.                             *)
THEOREM VariantsExecuteSerially ==
  ASSUME NoOverlap
  PROVE  VariantSpec => []OneExecutionPerGroup
<1>1. SerialInv => OneExecutionPerGroup
  BY DEF SerialInv, LiveHoldsMessage, OneInFlight, OneExecutionPerGroup
<1> QED
  BY <1>1, SerialInit, VariantSerialNext, PTL DEF VariantSpec, VariantInit

-----------------------------------------------------------------------------
(*                          Reports in the bucket                          *)

(* An attempt that is past put_object has its report in the bucket, and so *)
(* has every acknowledged run, however the invocations overlap.            *)
BucketKeepsReports ==
  \A r \in Runs :
    /\ msg[r] = "deleted" => r \in bucket
    /\ \A k \in Attempts :
         pc[<<r, k>>] \in {"completing", "returned"} => r \in bucket

BucketInv == DispatchInv /\ (handler = "s3" => BucketKeepsReports)

LEMMA BucketInit == VariantInit => BucketInv
BY DispatchInit
   DEF BucketInv, BucketKeepsReports, VariantInit, Init, QueueInit,
       OrchestratorInit

LEMMA BucketDelivery ==
  ASSUME BucketInv, handler = "s3", OutsideChange, UNCHANGED bucket
  PROVE  BucketKeepsReports'
<1> USE DEF BucketInv, BucketKeepsReports, OutsideChange
<1>1. ASSUME NEW r \in Runs, NEW k \in Attempts,
             pc'[<<r, k>>] \in {"completing", "returned"}
      PROVE  r \in bucket'
  <2>1. pc'[<<r, k>>] = pc[<<r, k>>]
    BY <1>1
  <2> QED  BY <1>1, <2>1
<1>2. \A r \in Runs : msg'[r] = "deleted" => r \in bucket'
  OBVIOUS
<1> QED  BY <1>1, <1>2

(* No object leaves the bucket: only the invocation that moves is in       *)
(* question.                                                               *)
LEMMA BucketStep ==
  ASSUME DispatchInv, BucketKeepsReports, NEW r \in Runs, NEW k \in Attempts,
         InvocationChange(r, k), NEW step, Goto(r, k, step),
         bucket \subseteq bucket',
         step \in {"completing", "returned"} => r \in bucket',
         UNCHANGED msg \/ r \in bucket'
  PROVE  BucketKeepsReports'
<1> USE DEF DispatchInv, TypeOK, QueueTypeOK, OrchestratorTypeOK
<1>1. pc'[<<r, k>>] = step
  BY DEF Goto
<1>2. \A q \in Runs : \A j \in Attempts :
        <<q, j>> # <<r, k>> => pc'[<<q, j>>] = pc[<<q, j>>]
  BY DEF Goto
<1>3. \A q \in Runs : q # r => msg'[q] = msg[q]
  BY DEF InvocationChange, DeleteMessage
<1>4. ASSUME NEW q \in Runs, msg'[q] = "deleted"
      PROVE  q \in bucket'
  BY <1>3, <1>4 DEF BucketKeepsReports
<1>5. ASSUME NEW q \in Runs, NEW j \in Attempts,
             pc'[<<q, j>>] \in {"completing", "returned"}
      PROVE  q \in bucket'
  <2>1. CASE <<q, j>> = <<r, k>>
    BY <1>1, <1>5, <2>1
  <2>2. CASE <<q, j>> # <<r, k>>
    BY <1>2, <1>5, <2>2 DEF BucketKeepsReports
  <2> QED  BY <2>1, <2>2
<1> QED  BY <1>4, <1>5 DEF BucketKeepsReports

LEMMA BucketExecution ==
  ASSUME BucketInv, handler = "s3", NEW r \in Runs, NEW k \in Attempts,
         \/ VariantExecution(r, k)
         \/ ExecutionKilled(r, k) /\ UNCHANGED bucket
  PROVE  BucketKeepsReports'
<1> USE DEF BucketInv, DispatchInv, TypeOK, queueVars
<1>1. InvocationChange(r, k)
  BY VariantChanges
<1>2. pc[<<r, k>>] \in {"completing", "returned"} => r \in bucket
  BY DEF BucketKeepsReports
<1>3. CASE MarkProcessing(r, k) /\ UNCHANGED bucket
  BY <1>1, <1>3, BucketStep DEF MarkProcessing
<1>4. CASE RunGraph(r, k) /\ UNCHANGED bucket
  BY <1>1, <1>4, BucketStep DEF RunGraph
<1>5. CASE PutArtifact(r, k)
  <2>1. CASE bucket' = bucket \cup {r}
    BY <1>1, <1>5, <2>1, BucketStep DEF PutArtifact
  <2>2. CASE UNCHANGED bucket /\ Goto(r, k, "failing")
    BY <1>1, <1>5, <2>2, BucketStep DEF PutArtifact
  <2> QED  BY <1>5, <2>1, <2>2 DEF PutArtifact
<1>6. CASE MarkCompleted(r, k) /\ UNCHANGED bucket
  BY <1>1, <1>2, <1>6, BucketStep DEF MarkCompleted
<1>7. CASE MarkFailed(r, k) /\ UNCHANGED bucket
  BY <1>1, <1>7, BucketStep DEF MarkFailed
<1>8. CASE Acknowledge(r, k) /\ UNCHANGED bucket
  BY <1>1, <1>2, <1>8, BucketStep DEF Acknowledge
<1>9. CASE ExecutionKilled(r, k) /\ UNCHANGED bucket
  BY <1>1, <1>9, BucketStep DEF ExecutionKilled, Kill
<1> QED
  BY <1>3, <1>4, <1>5, <1>6, <1>7, <1>8, <1>9 DEF VariantExecution, S3Step

LEMMA BucketNext == BucketInv /\ [VariantNext]_variantVars => BucketInv'
<1> SUFFICES ASSUME BucketInv, [VariantNext]_variantVars
             PROVE  BucketInv'
  OBVIOUS
<1>1. DispatchInv' /\ handler' = handler
  BY VariantDispatchNext
     DEF BucketInv, VariantNext, SharedStep, HandlerStep, Elsewhere, variantVars
<1>2. CASE VariantNext
  BY <1>1, <1>2, OutsideChanges, BucketDelivery, BucketExecution
     DEF VariantNext, SharedStep, HandlerStep, Elsewhere, BucketInv
<1>3. CASE UNCHANGED variantVars
  BY <1>1, <1>3
     DEF BucketInv, BucketKeepsReports, variantVars, vars, queueVars,
         orchestratorVars
<1> QED  BY <1>2, <1>3

(* An acknowledged run of the S3 variant has its report in the bucket, for *)
(* any number of runs, also if invocations of one run overlap, put_object  *)
(* and DeleteMessage fail and attempts are killed.                         *)
THEOREM BucketHoldsAcknowledgedHolds == VariantSpec => []BucketHoldsAcknowledged
<1>1. BucketInv => BucketHoldsAcknowledged
  BY DEF BucketInv, BucketKeepsReports, BucketHoldsAcknowledged
<1> QED  BY <1>1, BucketInit, BucketNext, PTL DEF VariantSpec

-----------------------------------------------------------------------------
(*                  The S3 variant implements the retrying job             *)

BucketUnchanged == UNCHANGED <<jobPhase, receives, bucket>>

LEMMA BucketJobExecution ==
  ASSUME BucketInv, handler = "s3", NEW r \in Runs, NEW k \in Attempts,
         \/ VariantExecution(r, k)
         \/ ExecutionKilled(r, k) /\ UNCHANGED bucket
  PROVE  BucketJob!Report(r) \/ BucketJob!Finish(r) \/ BucketUnchanged
<1> USE DEF BucketInv, DispatchInv
<1>1. CASE UNCHANGED <<queueVars, bucket>>
  BY <1>1, PhaseFrame DEF queueVars, BucketUnchanged
<1>2. CASE PutArtifact(r, k) /\ bucket' = bucket \cup {r}
  <2>1. k <= receives[r]
    <3>1. pc[<<r, k>>] # "idle"
      BY <1>2 DEF PutArtifact
    <3> QED  BY <3>1 DEF AttemptsFollowReceives
  <2>2. receives[r] > 0
    BY <2>1, MaxReceiveAssumption DEF Attempts, TypeOK, QueueTypeOK
  <2> QED
    BY <1>2, <2>2, PhaseFrame DEF PutArtifact, queueVars, BucketJob!Report
<1>3. CASE Acknowledge(r, k) /\ DeleteMessage(r, k) /\ UNCHANGED bucket
  <2>1. r \in bucket
    BY <1>3 DEF Acknowledge, BucketKeepsReports
  <2> QED
    BY <1>3, <2>1, FinishPhase
       DEF BucketJob!Finish, BucketJob!Become, BucketUnchanged
<1> QED
  BY <1>1, <1>2, <1>3
     DEF VariantExecution, S3Step, MarkProcessing, RunGraph, PutArtifact,
         MarkCompleted, MarkFailed, Acknowledge, ExecutionKilled, Kill

LEMMA BucketJobNext ==
  ASSUME BucketInv, handler = "s3", [VariantNext]_variantVars
  PROVE  [BucketJob!JobNext]_(BucketJob!jobVars)
<1> SUFFICES BucketJob!JobNext \/ BucketUnchanged
  BY DEF BucketUnchanged, BucketJob!jobVars
<1> USE DEF BucketInv, BucketJob!JobNext
<1>1. ASSUME NEW r \in Runs, Ingestion(r) \/ IngestionCrash(r),
             UNCHANGED bucket
      PROVE  BucketJob!JobNext \/ BucketUnchanged
  BY <1>1, RefinementIngestion
     DEF Job!Submit, Job!Become, BucketJob!Submit, BucketJob!Become,
         JobUnchanged, BucketUnchanged
<1>2. ASSUME NEW r \in Runs, UNCHANGED bucket,
             \/ Delivery(r) \/ Redelivery(r)
             \/ DeadLettering(r) \/ RetentionLapse(r)
      PROVE  BucketJob!JobNext \/ BucketUnchanged
  BY <1>2, RefinementDelivery
     DEF Job!Attempt, Job!DeadLetter, Job!Lapse, Job!Become,
         BucketJob!Attempt, BucketJob!DeadLetter, BucketJob!Lapse,
         BucketJob!Become, JobUnchanged, BucketUnchanged
<1>3. CASE VariantNext
  BY <1>1, <1>2, <1>3, BucketJobExecution
     DEF VariantNext, SharedStep, HandlerStep, Elsewhere
<1>4. CASE UNCHANGED variantVars
  BY <1>4, PhaseFrame
     DEF variantVars, vars, queueVars, BucketUnchanged, DispatchInv
<1> QED  BY <1>3, <1>4

(* With the S3 variant a report that is there is never taken back, and a   *)
(* run is done only while its report is in the bucket: for any number of   *)
(* runs, with overlapping attempts, failing calls and kills.               *)
THEOREM S3ImplementsJobHolds == VariantSpec => S3ImplementsJob
<1>1. VariantInit => BucketJob!JobInit
  BY RefinementInit DEF VariantInit, Job!JobInit, BucketJob!JobInit
<1>2. BucketInv /\ [VariantNext]_variantVars =>
        [handler = "s3" => [BucketJob!JobNext]_(BucketJob!jobVars)]_variantVars
  BY BucketJobNext
<1> QED
  BY <1>1, <1>2, BucketInit, BucketNext, PTL DEF VariantSpec, S3ImplementsJob

-----------------------------------------------------------------------------
(*               The minimal handler: a row for every ending               *)

(* Before the minimal handler returns its row says how the run ended.      *)
RowSettled ==
  handler = "minimal" =>
    \A r \in Runs :
      msg[r] = "deleted" \/ (\E k \in Attempts : pc[<<r, k>>] = "returned")
        => status[r] \in {"COMPLETED", "FAILED"}

SettledInv == SerialInv /\ RowSettled

LEMMA SettledInit == VariantInit => SettledInv
BY SerialInit
   DEF SettledInv, RowSettled, VariantInit, Init, QueueInit, OrchestratorInit

LEMMA SettledDelivery ==
  ASSUME SettledInv, OutsideChange, handler' = handler
  PROVE  RowSettled'
<1> SUFFICES ASSUME handler = "minimal", NEW r \in Runs,
                    \/ msg'[r] = "deleted"
                    \/ \E k \in Attempts : pc'[<<r, k>>] = "returned"
             PROVE  status'[r] \in {"COMPLETED", "FAILED"}
  BY DEF RowSettled
<1>1. msg[r] = "deleted" \/ \E k \in Attempts : pc[<<r, k>>] = "returned"
  BY DEF OutsideChange
<1> QED  BY <1>1 DEF SettledInv, RowSettled, OutsideChange, NoRow

(* Nothing but the invocation that moves changes the row of its run, and   *)
(* no other invocation of the run is about to return.                      *)
LEMMA SettledStep ==
  ASSUME SettledInv, handler' = handler, NEW r \in Runs, NEW k \in Attempts,
         InvocationChange(r, k), NEW step, Goto(r, k, step),
         step = "returned" \/ msg'[r] = "deleted" =>
           status'[r] \in {"COMPLETED", "FAILED"}
  PROVE  RowSettled'
<1> USE DEF SettledInv, SerialInv, DispatchInv, TypeOK, TableTypeOK,
            QueueTypeOK, OrchestratorTypeOK
<1> SUFFICES ASSUME handler = "minimal", NEW q \in Runs,
                    \/ msg'[q] = "deleted"
                    \/ \E j \in Attempts : pc'[<<q, j>>] = "returned"
             PROVE  status'[q] \in {"COMPLETED", "FAILED"}
  BY DEF RowSettled
<1>1. CASE q = r
  <2>1. \A j \in Attempts : j # k => pc'[<<r, j>>] # "returned"
    <3>1. \A j \in Attempts : j # k => pc[<<r, j>>] \notin Live
      BY DEF InvocationChange, LiveHoldsMessage
    <3> QED  BY <3>1 DEF Goto, Live
  <2>2. pc'[<<r, k>>] = step
    BY DEF Goto
  <2> QED  BY <1>1, <2>1, <2>2
<1>2. CASE q # r
  <2>1. msg'[q] = msg[q] /\ status'[q] = status[q]
    BY <1>2 DEF InvocationChange, DeleteMessage, UpdateItem
  <2>2. \A j \in Attempts : pc'[<<q, j>>] = pc[<<q, j>>]
    BY <1>2 DEF Goto
  <2> QED  BY <2>1, <2>2 DEF RowSettled
<1> QED  BY <1>1, <1>2

LEMMA SettledExecution ==
  ASSUME SettledInv, handler' = handler, NEW r \in Runs, NEW k \in Attempts,
         VariantExecution(r, k) \/ ExecutionKilled(r, k)
  PROVE  RowSettled'
<1> USE DEF SettledInv, SerialInv, DispatchInv, TypeOK, TableTypeOK, queueVars
<1>1. InvocationChange(r, k) /\ msg[r] = "inflight"
  BY VariantChanges DEF InvocationChange, LiveHoldsMessage
<1>2. CASE handler # "minimal"
  BY <1>2 DEF RowSettled
<1>3. CASE MinimalMarkProcessing(r, k)
  BY <1>1, <1>3, SettledStep DEF MinimalMarkProcessing, UpdateOrRaise
<1>4. CASE OpenArtifact(r, k)
  BY <1>1, <1>4, SettledStep DEF OpenArtifact
<1>5. CASE WriteArtifact(r, k)
  BY <1>1, <1>5, SettledStep DEF WriteArtifact
<1>6. CASE MinimalMarkCompleted(r, k)
  <2>1. CASE UpdateItem(r, "COMPLETED") /\ Goto(r, k, "returned")
    <3>1. status'[r] = "COMPLETED"
      BY <2>1 DEF UpdateItem
    <3> QED  BY <1>1, <2>1, <3>1, SettledStep
  <2>2. CASE Goto(r, k, "failing") /\ UNCHANGED queueVars
    BY <1>1, <2>2, SettledStep
  <2> QED  BY <1>6, <2>1, <2>2 DEF MinimalMarkCompleted, UpdateOrRaise
<1>7. CASE MinimalMarkFailed(r, k)
  <2>1. CASE UpdateItem(r, "FAILED") /\ Goto(r, k, "returned")
    <3>1. status'[r] = "FAILED"
      BY <2>1 DEF UpdateItem
    <3> QED  BY <1>1, <2>1, <3>1, SettledStep
  <2>2. CASE Goto(r, k, "raised") /\ UNCHANGED queueVars
    BY <1>1, <2>2, SettledStep
  <2> QED  BY <1>7, <2>1, <2>2 DEF MinimalMarkFailed, UpdateOrRaise
<1>8. ASSUME Acknowledge(r, k), handler = "minimal"
      PROVE  RowSettled'
  <2>1. status'[r] \in {"COMPLETED", "FAILED"}
    BY <1>8 DEF Acknowledge, RowSettled
  <2> QED  BY <1>1, <1>8, <2>1, SettledStep DEF Acknowledge
<1>9. CASE ExecutionKilled(r, k)
  BY <1>1, <1>9, SettledStep DEF ExecutionKilled, Kill
<1> QED
  BY <1>2, <1>3, <1>4, <1>5, <1>6, <1>7, <1>8, <1>9
     DEF VariantExecution, MinimalStep

LEMMA SettledNext ==
  ASSUME NoOverlap
  PROVE  SettledInv /\ [VariantNext]_variantVars => SettledInv'
<1> SUFFICES ASSUME SettledInv, [VariantNext]_variantVars
             PROVE  SettledInv'
  OBVIOUS
<1>1. SerialInv' /\ handler' = handler
  BY VariantSerialNext
     DEF SettledInv, VariantNext, SharedStep, HandlerStep, Elsewhere, variantVars
<1>2. CASE VariantNext
  BY <1>1, <1>2, OutsideChanges, SettledDelivery, SettledExecution
     DEF VariantNext, SharedStep, HandlerStep, SettledInv, SerialInv
<1>3. CASE UNCHANGED variantVars
  BY <1>1, <1>3
     DEF SettledInv, RowSettled, variantVars, vars, queueVars, orchestratorVars
<1> QED  BY <1>2, <1>3

(* The minimal handler acknowledges failed runs too, but no run whose row  *)
(* does not say how it ended, with failing calls and kills.                *)
THEOREM MinimalSettlesRowHolds ==
  ASSUME NoOverlap
  PROVE  VariantSpec => []MinimalSettlesRow
<1>1. SettledInv => MinimalSettlesRow
  BY DEF SettledInv, RowSettled, MinimalSettlesRow
<1> QED  BY <1>1, SettledInit, SettledNext, PTL DEF VariantSpec

-----------------------------------------------------------------------------
(*             The minimal handler: rows under overlapping attempts        *)

(* A row is settled when an attempt returns; another one has to open it    *)
(* again, and is in OpenRow until it settles it.                           *)
ReturnedOrCause ==
  handler = "minimal" =>
    \A r \in Runs :
      msg[r] = "deleted" \/ (\E k \in Attempts : pc[<<r, k>>] = "returned")
        => \/ status[r] \in {"COMPLETED", "FAILED"}
           \/ \E k \in Attempts : pc[<<r, k>>] \in OpenRow

CauseInv == DispatchInv /\ ReturnedOrCause

LEMMA CauseInit == VariantInit => CauseInv
BY DispatchInit
   DEF CauseInv, ReturnedOrCause, VariantInit, Init, QueueInit, OrchestratorInit

LEMMA CauseDelivery ==
  ASSUME CauseInv, OutsideChange, handler' = handler
  PROVE  ReturnedOrCause'
<1> SUFFICES ASSUME handler = "minimal", NEW r \in Runs,
                    \/ msg'[r] = "deleted"
                    \/ \E k \in Attempts : pc'[<<r, k>>] = "returned"
             PROVE  \/ status'[r] \in {"COMPLETED", "FAILED"}
                    \/ \E k \in Attempts : pc'[<<r, k>>] \in OpenRow
  BY DEF ReturnedOrCause
<1>1. msg[r] = "deleted" \/ \E k \in Attempts : pc[<<r, k>>] = "returned"
  BY DEF OutsideChange
<1>2. CASE status[r] \in {"COMPLETED", "FAILED"}
  BY <1>2 DEF OutsideChange, NoRow
<1>3. ASSUME NEW k \in Attempts, pc[<<r, k>>] \in OpenRow
      PROVE  pc'[<<r, k>>] \in OpenRow
  BY <1>3 DEF OutsideChange, OpenRow
<1> QED  BY <1>1, <1>2, <1>3 DEF CauseInv, ReturnedOrCause

(* A step of an invocation opens the row, settles it, or is the            *)
(* acknowledgement of a row that was settled or opened by another one.     *)
LEMMA CauseStep ==
  ASSUME CauseInv, handler' = handler, NEW r \in Runs, NEW k \in Attempts,
         InvocationChange(r, k), NEW step, Goto(r, k, step),
         \/ step \in OpenRow
         \/ status'[r] \in {"COMPLETED", "FAILED"}
         \/ pc[<<r, k>>] = "returned" /\ UNCHANGED status
  PROVE  ReturnedOrCause'
<1> USE DEF CauseInv, DispatchInv, TypeOK, TableTypeOK, QueueTypeOK,
            OrchestratorTypeOK
<1> SUFFICES ASSUME handler = "minimal", NEW q \in Runs,
                    \/ msg'[q] = "deleted"
                    \/ \E j \in Attempts : pc'[<<q, j>>] = "returned"
             PROVE  \/ status'[q] \in {"COMPLETED", "FAILED"}
                    \/ \E j \in Attempts : pc'[<<q, j>>] \in OpenRow
  BY DEF ReturnedOrCause
<1>1. CASE q = r
  <2>1. pc'[<<r, k>>] = step
    BY DEF Goto
  <2>2. CASE pc[<<r, k>>] = "returned" /\ UNCHANGED status
    <3>1. \/ status[r] \in {"COMPLETED", "FAILED"}
          \/ \E j \in Attempts : pc[<<r, j>>] \in OpenRow
      BY <2>2 DEF ReturnedOrCause
    <3>2. ASSUME NEW j \in Attempts, pc[<<r, j>>] \in OpenRow
          PROVE  pc'[<<r, j>>] \in OpenRow
      BY <2>2, <3>2 DEF Goto, OpenRow
    <3> QED  BY <1>1, <2>2, <3>1, <3>2
  <2> QED  BY <1>1, <2>1, <2>2
<1>2. CASE q # r
  <2>1. msg'[q] = msg[q] /\ status'[q] = status[q]
    BY <1>2 DEF InvocationChange, DeleteMessage, UpdateItem
  <2>2. \A j \in Attempts : pc'[<<q, j>>] = pc[<<q, j>>]
    BY <1>2 DEF Goto
  <2> QED  BY <2>1, <2>2 DEF ReturnedOrCause
<1> QED  BY <1>1, <1>2

LEMMA CauseExecution ==
  ASSUME CauseInv, handler' = handler, NEW r \in Runs, NEW k \in Attempts,
         VariantExecution(r, k) \/ ExecutionKilled(r, k)
  PROVE  ReturnedOrCause'
<1> USE DEF CauseInv, DispatchInv, TypeOK, TableTypeOK, OpenRow
<1>1. InvocationChange(r, k)
  BY VariantChanges
<1>2. CASE handler # "minimal"
  BY <1>2 DEF ReturnedOrCause
<1>3. CASE MinimalMarkProcessing(r, k)
  BY <1>1, <1>3, CauseStep DEF MinimalMarkProcessing, UpdateOrRaise
<1>4. CASE OpenArtifact(r, k)
  BY <1>1, <1>4, CauseStep DEF OpenArtifact
<1>5. CASE WriteArtifact(r, k)
  BY <1>1, <1>5, CauseStep DEF WriteArtifact
<1>6. CASE MinimalMarkCompleted(r, k)
  <2>1. CASE UpdateItem(r, "COMPLETED") /\ Goto(r, k, "returned")
    <3>1. status'[r] = "COMPLETED"
      BY <2>1 DEF UpdateItem
    <3> QED  BY <1>1, <2>1, <3>1, CauseStep
  <2>2. CASE Goto(r, k, "failing")
    BY <1>1, <2>2, CauseStep
  <2> QED  BY <1>6, <2>1, <2>2 DEF MinimalMarkCompleted, UpdateOrRaise
<1>7. CASE MinimalMarkFailed(r, k)
  <2>1. CASE UpdateItem(r, "FAILED") /\ Goto(r, k, "returned")
    <3>1. status'[r] = "FAILED"
      BY <2>1 DEF UpdateItem
    <3> QED  BY <1>1, <2>1, <3>1, CauseStep
  <2>2. CASE Goto(r, k, "raised")
    BY <1>1, <2>2, CauseStep
  <2> QED  BY <1>7, <2>1, <2>2 DEF MinimalMarkFailed, UpdateOrRaise
<1>8. CASE Acknowledge(r, k)
  BY <1>1, <1>8, CauseStep DEF Acknowledge
<1>9. CASE ExecutionKilled(r, k)
  BY <1>1, <1>9, CauseStep DEF ExecutionKilled, Kill
<1> QED
  BY <1>2, <1>3, <1>4, <1>5, <1>6, <1>7, <1>8, <1>9
     DEF VariantExecution, MinimalStep

LEMMA CauseNext == CauseInv /\ [VariantNext]_variantVars => CauseInv'
<1> SUFFICES ASSUME CauseInv, [VariantNext]_variantVars
             PROVE  CauseInv'
  OBVIOUS
<1>1. DispatchInv' /\ handler' = handler
  BY VariantDispatchNext
     DEF CauseInv, VariantNext, SharedStep, HandlerStep, Elsewhere, variantVars
<1>2. CASE VariantNext
  BY <1>1, <1>2, OutsideChanges, CauseDelivery, CauseExecution
     DEF VariantNext, SharedStep, HandlerStep, CauseInv
<1>3. CASE UNCHANGED variantVars
  BY <1>1, <1>3
     DEF CauseInv, ReturnedOrCause, variantVars, vars, queueVars,
         orchestratorVars
<1> QED  BY <1>2, <1>3

(* No acknowledged run of the minimal handler has an open row unless an    *)
(* attempt is at work on it or has crashed, however attempts overlap.      *)
THEOREM RowLeftOpenHasCauseHolds == VariantSpec => []RowLeftOpenHasCause
<1>1. CauseInv => RowLeftOpenHasCause
  BY DEF CauseInv, ReturnedOrCause, RowLeftOpenHasCause
<1> QED  BY <1>1, CauseInit, CauseNext, PTL DEF VariantSpec

-----------------------------------------------------------------------------
(*                       COMPLETED rows have a report                      *)

(* A whole report of run r is in environment e, and nobody is about to     *)
(* truncate it there.                                                      *)
KeepsReport(r, e) ==
  /\ files[<<e, r>>] = "whole"
  /\ \A k \in Attempts :
       env[<<r, k>>] = e => pc[<<r, k>>] \notin {"opening", "writing"}

(* Only the minimal handler writes COMPLETED (the others' update carries a *)
(* float), when the report in its own environment is whole.                *)
RowFollowsReport ==
  \A r \in Runs :
    /\ status[r] = "COMPLETED" =>
         handler = "minimal" /\ \E e \in Environments : KeepsReport(r, e)
    /\ handler = "minimal" => \A k \in Attempts :
         pc[<<r, k>>] = "completing" => files[<<env[<<r, k>>], r>>] = "whole"

ReportInv == WarmInv /\ RowFollowsReport

LEMMA ReportInit == VariantInit => ReportInv
BY WarmInit
   DEF ReportInv, RowFollowsReport, VariantInit, Init, TableInit,
       OrchestratorInit, NoRow

LEMMA ReportDelivery ==
  ASSUME ReportInv, OutsideChange, handler' = handler
  PROVE  RowFollowsReport'
<1>1. ASSUME NEW r \in Runs, NEW k \in Attempts,
             pc'[<<r, k>>] \in {"opening", "writing", "completing"}
      PROVE  pc'[<<r, k>>] = pc[<<r, k>>] /\ env'[<<r, k>>] = env[<<r, k>>]
  BY <1>1 DEF OutsideChange
<1>2. ASSUME NEW r \in Runs, NEW e \in Environments, KeepsReport(r, e)
      PROVE  KeepsReport(r, e)'
  BY <1>1, <1>2 DEF KeepsReport, OutsideChange
<1>3. \A r \in Runs : status'[r] = "COMPLETED" => status[r] = "COMPLETED"
  BY DEF OutsideChange
<1>4. ASSUME NEW r \in Runs, NEW k \in Attempts, handler = "minimal",
             pc'[<<r, k>>] = "completing"
      PROVE  files'[<<env'[<<r, k>>], r>>] = "whole"
  <2>1. pc[<<r, k>>] = "completing" /\ env'[<<r, k>>] = env[<<r, k>>]
    BY <1>1, <1>4
  <2> QED  BY <1>4, <2>1 DEF ReportInv, RowFollowsReport, OutsideChange
<1> QED  BY <1>2, <1>3, <1>4 DEF ReportInv, RowFollowsReport

(* A report that is kept stays while an invocation moves that truncates    *)
(* nothing, or that is at work on its own file, in another environment.    *)
LEMMA ReportKept ==
  ASSUME ReportInv, NEW r \in Runs, NEW k \in Attempts,
         InvocationChange(r, k), NEW step, Goto(r, k, step),
         \/ UNCHANGED files /\ step \notin {"opening", "writing"}
         \/ pc[<<r, k>>] \in {"opening", "writing"},
         NEW e \in Environments, KeepsReport(r, e)
  PROVE  KeepsReport(r, e)'
<1> USE DirectoriesAssumption
    DEF ReportInv, WarmInv, DispatchInv, TypeOK, OrchestratorTypeOK
<1>1. pc' = [pc EXCEPT ![<<r, k>>] = step] /\ env' = env
  BY DEF Goto
<1>2. CASE UNCHANGED files /\ step \notin {"opening", "writing"}
  BY <1>1, <1>2 DEF KeepsReport
<1>3. CASE pc[<<r, k>>] \in {"opening", "writing"}
  <2>1. env[<<r, k>>] # e
    BY <1>3 DEF KeepsReport
  <2>2. files'[<<e, r>>] = files[<<e, r>>]
    BY <2>1 DEF InvocationChange, WriteFile
  <2> QED  BY <1>1, <2>1, <2>2 DEF KeepsReport
<1> QED  BY <1>2, <1>3

(* The invocation that moves changes no other run's row and file, and no   *)
(* file in the environment of another invocation.                          *)
LEMMA ReportStep ==
  ASSUME ReportInv, handler' = handler, NEW r \in Runs, NEW k \in Attempts,
         InvocationChange(r, k), NEW step, Goto(r, k, step),
         status'[r] = "COMPLETED" =>
           handler = "minimal" /\ \E e \in Environments : KeepsReport(r, e)',
         handler = "minimal" /\ step = "completing" =>
           files'[<<env[<<r, k>>], r>>] = "whole"
  PROVE  RowFollowsReport'
<1> USE DirectoriesAssumption
    DEF ReportInv, WarmInv, DispatchInv, TypeOK, TableTypeOK,
        OrchestratorTypeOK
<1>1. /\ pc[<<r, k>>] \in Live /\ env' = env
      /\ pc' = [pc EXCEPT ![<<r, k>>] = step]
  BY DEF InvocationChange, Goto
<1>2. \A f \in Directories \X Runs : f # <<env[<<r, k>>], r>> => files'[f] = files[f]
  BY DEF InvocationChange, WriteFile
<1>3. ASSUME NEW q \in Runs, q # r, status'[q] = "COMPLETED"
      PROVE  handler = "minimal" /\ \E e \in Environments : KeepsReport(q, e)'
  <2>1. status[q] = "COMPLETED"
    BY <1>3 DEF InvocationChange, UpdateItem
  <2>2. PICK e \in Environments : handler = "minimal" /\ KeepsReport(q, e)
    BY <2>1 DEF RowFollowsReport
  <2>3. files'[<<e, q>>] = files[<<e, q>>]
    BY <1>2, <1>3
  <2>4. \A j \in Attempts : pc'[<<q, j>>] = pc[<<q, j>>]
    BY <1>1, <1>3
  <2>5. KeepsReport(q, e)'
    BY <1>1, <2>2, <2>3, <2>4 DEF KeepsReport
  <2> QED  BY <2>2, <2>5
<1>4. ASSUME NEW q \in Runs, NEW j \in Attempts, handler = "minimal",
             pc'[<<q, j>>] = "completing"
      PROVE  files'[<<env[<<q, j>>], q>>] = "whole"
  <2>1. CASE <<q, j>> = <<r, k>>
    BY <1>1, <1>4, <2>1
  <2>2. CASE <<q, j>> # <<r, k>>
    <3>1. pc[<<q, j>>] = "completing" /\ pc[<<q, j>>] \in Live
      BY <1>1, <1>4, <2>2 DEF Live
    <3>2. env[<<q, j>>] \in Environments /\ env[<<q, j>>] # env[<<r, k>>]
      BY <1>1, <2>2, <3>1 DEF EnvironmentsExclusive
    <3> QED  BY <1>2, <1>4, <3>1, <3>2 DEF RowFollowsReport
  <2> QED  BY <2>1, <2>2
<1> QED  BY <1>1, <1>3, <1>4 DEF RowFollowsReport

LEMMA ReportExecution ==
  ASSUME ReportInv, handler' = handler, NEW r \in Runs, NEW k \in Attempts,
         VariantExecution(r, k) \/ ExecutionKilled(r, k)
  PROVE  RowFollowsReport'
<1> USE DEF ReportInv, WarmInv, DispatchInv, TypeOK, TableTypeOK,
            OrchestratorTypeOK
<1>1. /\ InvocationChange(r, k)
      /\ env[<<r, k>>] \in Environments
  BY VariantChanges DEF InvocationChange, EnvironmentsExclusive
<1>2. ASSUME NEW step, Goto(r, k, step),
             \/ UNCHANGED files /\ step \notin {"opening", "writing"}
             \/ pc[<<r, k>>] \in {"opening", "writing"},
             status'[r] = "COMPLETED" => status[r] = "COMPLETED",
             handler = "minimal" /\ step = "completing" =>
               files'[<<env[<<r, k>>], r>>] = "whole"
      PROVE  RowFollowsReport'
  <2>1. ASSUME status'[r] = "COMPLETED"
        PROVE  /\ handler = "minimal"
               /\ \E e \in Environments : KeepsReport(r, e)'
    <3>1. PICK e \in Environments : handler = "minimal" /\ KeepsReport(r, e)
      BY <1>2, <2>1 DEF RowFollowsReport
    <3> QED  BY <1>1, <1>2, <3>1, ReportKept
  <2> QED  BY <1>1, <1>2, <2>1, ReportStep
<1>3. ASSUME handler # "minimal", S3Step(r, k)
      PROVE  RowFollowsReport'
  <2>1. status'[r] # "COMPLETED"
    BY <1>3
       DEF RowFollowsReport, S3Step, MarkProcessing, RunGraph, PutArtifact,
           MarkCompleted, MarkFailed, Acknowledge, UpdateRunStatus, UpdateItem,
           FloatAttributes
  <2>2. PICK step \in Live \cup Ended : Goto(r, k, step)
    BY <1>1 DEF InvocationChange
  <2> QED  BY <1>1, <1>3, <2>1, <2>2, ReportStep
<1>4. CASE MinimalMarkProcessing(r, k)
  <2>1. CASE UpdateItem(r, "PROCESSING") /\ Goto(r, k, "opening")
    <3>1. status'[r] = "PROCESSING"
      BY <2>1 DEF UpdateItem
    <3> QED  BY <1>1, <2>1, <3>1, ReportStep
  <2>2. CASE Goto(r, k, "failing")
    <3>1. status'[r] = "COMPLETED" => status[r] = "COMPLETED"
      BY <1>4 DEF MinimalMarkProcessing, UpdateOrRaise, UpdateItem
    <3> QED
      BY <1>2, <1>4, <2>2, <3>1 DEF MinimalMarkProcessing, UpdateOrRaise
  <2> QED  BY <1>4, <2>1, <2>2 DEF MinimalMarkProcessing, UpdateOrRaise
<1>5. CASE OpenArtifact(r, k)
  BY <1>2, <1>5 DEF OpenArtifact
<1>6. CASE WriteArtifact(r, k)
  <2>1. CASE WriteFile(r, k, "whole") /\ Goto(r, k, "completing")
    <3>1. files'[<<env[<<r, k>>], r>>] = "whole"
      BY <1>1, <2>1, DirectoriesAssumption DEF WriteFile
    <3> QED  BY <1>2, <1>6, <2>1, <3>1 DEF WriteArtifact
  <2>2. CASE Goto(r, k, "failing")
    BY <1>2, <1>6, <2>2 DEF WriteArtifact
  <2> QED  BY <1>6, <2>1, <2>2 DEF WriteArtifact
<1>7. CASE MinimalMarkCompleted(r, k) /\ handler = "minimal"
  <2>1. PICK step \in {"returned", "failing"} : Goto(r, k, step)
    BY <1>7 DEF MinimalMarkCompleted, UpdateOrRaise
  <2>2. /\ files[<<env[<<r, k>>], r>>] = "whole" /\ UNCHANGED files
        /\ pc[<<r, k>>] \in Live
    BY <1>7
       DEF MinimalMarkCompleted, UpdateOrRaise, RowFollowsReport, Live
  <2>3. \A j \in Attempts : env[<<r, j>>] = env[<<r, k>>] =>
          j = k \/ pc[<<r, j>>] \notin Live
    BY <2>2 DEF EnvironmentsExclusive
  <2>4. KeepsReport(r, env[<<r, k>>])'
    BY <2>1, <2>2, <2>3 DEF KeepsReport, Goto, Live
  <2>5. \E e \in Environments : KeepsReport(r, e)'
    BY <1>1, <2>1, <2>4 DEF Goto
  <2> QED  BY <1>1, <1>7, <2>1, <2>5, ReportStep
<1>8. CASE MinimalMarkFailed(r, k)
  <2>1. status'[r] = "COMPLETED" => status[r] = "COMPLETED"
    BY <1>8 DEF MinimalMarkFailed, UpdateOrRaise, UpdateItem
  <2>2. PICK step \in {"returned", "raised"} : Goto(r, k, step)
    BY <1>8 DEF MinimalMarkFailed, UpdateOrRaise
  <2> QED
    BY <1>2, <1>8, <2>1, <2>2 DEF MinimalMarkFailed, UpdateOrRaise
<1>9. CASE Acknowledge(r, k)
  BY <1>2, <1>9 DEF Acknowledge
<1>10. CASE ExecutionKilled(r, k)
  BY <1>2, <1>10 DEF ExecutionKilled, Kill
<1> QED
  BY <1>3, <1>4, <1>5, <1>6, <1>7, <1>8, <1>9, <1>10
     DEF VariantExecution, MinimalStep

LEMMA ReportNext == ReportInv /\ [VariantNext]_variantVars => ReportInv'
<1> SUFFICES ASSUME ReportInv, [VariantNext]_variantVars
             PROVE  ReportInv'
  OBVIOUS
<1>1. WarmInv' /\ handler' = handler
  BY VariantWarmNext
     DEF ReportInv, VariantNext, SharedStep, HandlerStep, Elsewhere, variantVars
<1>2. CASE VariantNext
  BY <1>1, <1>2, OutsideChanges, ReportDelivery, ReportExecution
     DEF VariantNext, SharedStep, HandlerStep, ReportInv, WarmInv
<1>3. CASE UNCHANGED variantVars
  <2>1. UNCHANGED <<pc, env, files, status, handler>>
    BY <1>3 DEF variantVars, vars, orchestratorVars
  <2>2. \A r \in Runs : \A e \in Environments :
          KeepsReport(r, e) => KeepsReport(r, e)'
    BY <2>1 DEF KeepsReport
  <2> QED  BY <1>1, <2>1, <2>2 DEF ReportInv, RowFollowsReport
<1> QED  BY <1>2, <1>3

(* While a row says COMPLETED a whole report of its run is in some         *)
(* environment: with each of the orchestrators, any number of runs and     *)
(* environments, failing calls, kills, overlapping attempts and warm       *)
(* environments.                                                           *)
THEOREM CompletedRowHasReportHolds == VariantSpec => []CompletedRowHasReport
<1>1. ReportInv => CompletedRowHasReport
  BY DEF ReportInv, RowFollowsReport, KeepsReport, CompletedRowHasReport,
         jobReported
<1> QED  BY <1>1, ReportInit, ReportNext, PTL DEF VariantSpec

=============================================================================
