---------------------- MODULE RunPipelineSerialProofs ----------------------
(***************************************************************************)
(* Proofs about the deployed pipeline with a visibility timeout that       *)
(* outlasts every invocation, for any number of runs and message groups    *)
(* and any redrive limit.                                                  *)
(***************************************************************************)
EXTENDS RunPipelineProofs

(* No message reappears while an invocation still works on its run.        *)
NoOverlap == OverlapPossible = FALSE

-----------------------------------------------------------------------------
(*                         Serial execution per group                      *)

(* An invocation that is alive is that of the message's last receive, and  *)
(* the message is in flight for it.                                        *)
LiveHoldsMessage ==
  \A r \in Runs : \A k \in Attempts :
    pc[<<r, k>>] \in Live => msg[r] = "inflight" /\ receives[r] = k

(* A group has at most one message in flight.                              *)
OneInFlight ==
  \A q, r \in Runs :
    msg[q] = "inflight" /\ msg[r] = "inflight" /\ group[q] = group[r] => q = r

SerialInv == DispatchInv /\ LiveHoldsMessage /\ OneInFlight

LEMMA SerialInit == Init => SerialInv
BY DispatchInit
   DEF SerialInv, LiveHoldsMessage, OneInFlight, Init, QueueInit,
       OrchestratorInit, Live

LEMMA SerialIngestion ==
  ASSUME SerialInv, NEW r \in Runs, Ingestion(r) \/ IngestionCrash(r)
  PROVE  LiveHoldsMessage' /\ OneInFlight'
<1> USE DEF SerialInv, DispatchInv, TypeOK, QueueTypeOK, OrchestratorTypeOK,
            LiveHoldsMessage, OneInFlight, orchestratorVars
<1>1. CASE UNCHANGED <<queueVars, orchestratorVars>>
  BY <1>1 DEF queueVars
<1>2. ASSUME NEW g \in Groups, SendMessage(r, g), api[r] = "send",
             UNCHANGED orchestratorVars
      PROVE  LiveHoldsMessage' /\ OneInFlight'
  <2>1. msg[r] = "none"
    BY <1>2 DEF SendFollowsPut
  <2>2. \A q \in Runs : msg'[q] = "inflight" =>
          msg[q] = "inflight" /\ group'[q] = group[q] /\ q # r
    BY <1>2, <2>1 DEF SendMessage
  <2>3. \A q \in Runs : msg[q] = "inflight" => msg'[q] = "inflight"
    BY <1>2, <2>1 DEF SendMessage
  <2>4. LiveHoldsMessage'
    BY <1>2, <2>3 DEF SendMessage
  <2>5. OneInFlight'
    BY <2>2
  <2> QED  BY <2>4, <2>5
<1> QED
  BY <1>1, <1>2
     DEF Ingestion, IngestionCrash, ApiStep, Validate, PutRow, Dispatch,
         CrashApi

(* Nobody receives a message of a group that has one in flight, and the    *)
(* timeout ends no receive whose invocation is alive.                      *)
LEMMA SerialDelivery ==
  ASSUME NoOverlap, SerialInv, NEW r \in Runs,
         Delivery(r) \/ Redelivery(r) \/ DeadLettering(r) \/ RetentionLapse(r)
  PROVE  LiveHoldsMessage' /\ OneInFlight'
<1> USE DEF SerialInv, DispatchInv, TypeOK, QueueTypeOK, OrchestratorTypeOK,
            LiveHoldsMessage, OneInFlight
<1>1. CASE Delivery(r)
  <2> DEFINE k == receives[r] + 1
  <2> USE <1>1 DEF Delivery, StartInvocation, Receive, Receivable
  <2>1. k \in Attempts /\ msg[r] = "queued"
    BY MaxReceiveAssumption DEF Attempts
  <2>2. pc' = [pc EXCEPT ![<<r, k>>] = "started"]
    OBVIOUS
  <2>3. msg' = [msg EXCEPT ![r] = "inflight"] /\ group' = group
    OBVIOUS
  <2>4. receives' = [receives EXCEPT ![r] = k]
    OBVIOUS
  <2>5. \A q \in Runs \ {r} : group[q] = group[r] => msg[q] # "inflight"
    OBVIOUS
  <2> HIDE DEF k, Delivery, StartInvocation, Receive, Receivable
  <2>6. LiveHoldsMessage'
    <3> SUFFICES ASSUME NEW q \in Runs, NEW j \in Attempts,
                        pc'[<<q, j>>] \in Live
                 PROVE  msg'[q] = "inflight" /\ receives'[q] = j
      OBVIOUS
    <3>1. CASE q = r
      <4>1. j = k
        BY <2>1, <2>2, <3>1
      <4> QED  BY <2>1, <2>3, <2>4, <3>1, <4>1
    <3>2. CASE q # r
      <4>1. pc[<<q, j>>] \in Live
        BY <2>1, <2>2, <3>2
      <4> QED  BY <2>3, <2>4, <3>2, <4>1
    <3> QED  BY <3>1, <3>2
  <2>7. OneInFlight'
    BY <2>3, <2>5
  <2> QED  BY <2>6, <2>7
<1>2. CASE Redelivery(r)
  BY <1>2 DEF Redelivery, VisibilityTimeout, BecomeVisible, NoOverlap,
              orchestratorVars
<1>3. CASE DeadLettering(r)
  BY <1>3 DEF DeadLettering, Redrive, Receivable, orchestratorVars
<1>4. CASE RetentionLapse(r)
  BY <1>4 DEF RetentionLapse, Expire, orchestratorVars
<1> QED  BY <1>1, <1>2, <1>3, <1>4

(* The invocation that moves is the live one of its run, and the message   *)
(* goes only when it has ended.                                            *)
LEMMA SerialInvocation ==
  ASSUME SerialInv, NEW r \in Runs, NEW k \in Attempts,
         InvocationChange(r, k)
  PROVE  LiveHoldsMessage' /\ OneInFlight'
<1> USE DEF SerialInv, DispatchInv, TypeOK, QueueTypeOK, OrchestratorTypeOK
<1>1. PICK step \in Live \cup Ended : Goto(r, k, step)
  BY DEF InvocationChange
<1>2. pc[<<r, k>>] \in Live /\ group' = group /\ receives' = receives
  BY DEF InvocationChange
<1>3. \/ msg' = msg
      \/ DeleteMessage(r, k) /\ pc'[<<r, k>>] = "finished"
  BY DEF InvocationChange
<1>4. \A q \in Runs : msg'[q] = "inflight" => msg[q] = "inflight"
  BY <1>3 DEF DeleteMessage
<1>5. \A q \in Runs : q # r => msg'[q] = msg[q]
  BY <1>3 DEF DeleteMessage
<1>6. LiveHoldsMessage'
  <2> SUFFICES ASSUME NEW q \in Runs, NEW j \in Attempts,
                      pc'[<<q, j>>] \in Live
               PROVE  msg'[q] = "inflight" /\ receives'[q] = j
    BY DEF LiveHoldsMessage
  <2>1. CASE <<q, j>> = <<r, k>>
    <3>1. msg' = msg
      BY <1>3, <2>1 DEF Live
    <3> QED  BY <1>2, <2>1, <3>1 DEF LiveHoldsMessage
  <2>2. CASE <<q, j>> # <<r, k>>
    <3>1. pc[<<q, j>>] \in Live
      BY <1>1, <2>2 DEF Goto
    <3>2. q # r
      BY <1>2, <2>2, <3>1 DEF LiveHoldsMessage
    <3> QED  BY <1>2, <1>5, <3>1, <3>2 DEF LiveHoldsMessage
  <2> QED  BY <2>1, <2>2
<1>7. OneInFlight'
  BY <1>2, <1>4 DEF OneInFlight
<1> QED  BY <1>6, <1>7

LEMMA SerialNext ==
  ASSUME NoOverlap
  PROVE  SerialInv /\ [Next]_vars => SerialInv'
<1> SUFFICES ASSUME SerialInv, [Next]_vars PROVE SerialInv'  OBVIOUS
<1>1. DispatchInv'
  BY DispatchNext DEF SerialInv
<1>2. CASE Next
  BY <1>1, <1>2, SerialIngestion, SerialDelivery, ExecutionChanges,
     SerialInvocation
     DEF Next, RunNext, SerialInv, DispatchInv
<1>3. CASE UNCHANGED vars
  BY <1>1, <1>3 DEF SerialInv, LiveHoldsMessage, OneInFlight, vars, queueVars,
                    orchestratorVars
<1> QED  BY <1>2, <1>3

(* Two runs of one company and country are never executed at the same      *)
(* time, nor is one run executed twice at once, with failing calls and     *)
(* kills, if the visibility timeout outlasts the invocation.               *)
THEOREM OneExecutionPerGroupHolds ==
  ASSUME NoOverlap
  PROVE  Spec => []OneExecutionPerGroup
<1>1. SerialInv => OneExecutionPerGroup
  BY DEF SerialInv, LiveHoldsMessage, OneInFlight, OneExecutionPerGroup
<1> QED  BY <1>1, SerialInit, SerialNext, PTL DEF Spec

-----------------------------------------------------------------------------
(*                            Truthful FAILED rows                         *)

(* Every update that has no float in it reaches the table.                 *)
UpdatesReachTable == AwsCallsMayFail = FALSE

(* Between its first and its last update an invocation's row does not say  *)
(* FAILED, and after it has raised the row does, until the next receive.   *)
RowFollowsAttempt ==
  \A r \in Runs : \A k \in Attempts :
    /\ pc[<<r, k>>] \in {"running", "opening", "writing", "completing",
                         "returned"} => status[r] # "FAILED"
    /\ pc[<<r, k>>] = "raised" /\ receives[r] = k => status[r] = "FAILED"

RowInv == SerialInv /\ RowFollowsAttempt /\ FailedIsNotAcknowledged

LEMMA RowInit == Init => RowInv
BY SerialInit
   DEF RowInv, RowFollowsAttempt, FailedIsNotAcknowledged, Init, QueueInit,
       TableInit, OrchestratorInit, NoRow

LEMMA RowDelivery ==
  ASSUME RowInv, OutsideChange
  PROVE  RowFollowsAttempt' /\ FailedIsNotAcknowledged'
<1> USE DEF RowInv, OutsideChange
<1>1. RowFollowsAttempt'
  <2> SUFFICES ASSUME NEW r \in Runs, NEW k \in Attempts
               PROVE  /\ pc'[<<r, k>>] \in {"running", "opening", "writing",
                                            "completing", "returned"}
                           => status'[r] # "FAILED"
                      /\ pc'[<<r, k>>] = "raised" /\ receives'[r] = k
                           => status'[r] = "FAILED"
    BY DEF RowFollowsAttempt
  <2>1. CASE pc'[<<r, k>>] = "started"
    BY <2>1
  <2>2. CASE pc'[<<r, k>>] = pc[<<r, k>>]
    <3>1. pc[<<r, k>>] = "raised" => k <= receives[r]
      BY DEF SerialInv, DispatchInv, AttemptsFollowReceives
    <3>2. pc[<<r, k>>] = "raised" /\ receives'[r] = k => receives[r] = k
      BY <3>1 DEF SerialInv, DispatchInv, TypeOK, QueueTypeOK, Attempts
    <3> QED  BY <2>2, <3>2 DEF RowFollowsAttempt, NoRow
  <2> QED  BY <2>1, <2>2
<1>2. FailedIsNotAcknowledged'
  BY DEF FailedIsNotAcknowledged
<1> QED  BY <1>1, <1>2

(* The invocation that moves is the only one of its run whose row matters, *)
(* so the conjuncts have to be shown for that one only.                    *)
LEMMA RowStep ==
  ASSUME RowInv, NEW r \in Runs, NEW k \in Attempts,
         Execution(r, k) \/ ExecutionKilled(r, k), NEW step, Goto(r, k, step),
         \A q \in Runs : q # r => status'[q] = status[q],
         step \in {"running", "opening", "writing", "completing", "returned"}
           => status'[r] # "FAILED",
         step = "raised" => status'[r] = "FAILED",
         msg'[r] = "deleted" => status'[r] # "FAILED"
  PROVE  RowFollowsAttempt' /\ FailedIsNotAcknowledged'
<1> USE DEF RowInv, SerialInv, DispatchInv, TypeOK, QueueTypeOK,
            OrchestratorTypeOK
<1>1. pc[<<r, k>>] \in Live /\ receives' = receives
  BY ExecutionChanges DEF InvocationChange
<1>2. \A q \in Runs : q # r => msg'[q] = msg[q]
  <2>1. msg' = msg \/ DeleteMessage(r, k)
    BY ExecutionChanges DEF InvocationChange
  <2> QED  BY <2>1 DEF DeleteMessage
<1>3. FailedIsNotAcknowledged'
  BY <1>2 DEF FailedIsNotAcknowledged
<1>4. RowFollowsAttempt'
  <2> SUFFICES ASSUME NEW q \in Runs, NEW j \in Attempts
               PROVE  /\ pc'[<<q, j>>] \in {"running", "opening", "writing",
                                            "completing", "returned"}
                           => status'[q] # "FAILED"
                      /\ pc'[<<q, j>>] = "raised" /\ receives'[q] = j
                           => status'[q] = "FAILED"
    BY DEF RowFollowsAttempt
  <2>1. CASE <<q, j>> = <<r, k>>
    <3>1. pc'[<<q, j>>] = step
      BY <2>1 DEF Goto
    <3> QED  BY <2>1, <3>1
  <2>2. CASE <<q, j>> # <<r, k>>
    <3>1. pc'[<<q, j>>] = pc[<<q, j>>]
      BY <2>2 DEF Goto
    <3>2. CASE q = r
      <4>1. receives[q] = k /\ j # k
        BY <1>1, <2>2, <3>2 DEF LiveHoldsMessage
      <4>2. pc[<<q, j>>] \notin Live
        BY <4>1 DEF LiveHoldsMessage
      <4> QED  BY <1>1, <3>1, <4>1, <4>2 DEF Live
    <3>3. CASE q # r
      BY <1>1, <3>1, <3>3 DEF RowFollowsAttempt
    <3> QED  BY <3>2, <3>3
  <2> QED  BY <2>1, <2>2
<1> QED  BY <1>3, <1>4

LEMMA RowExecution ==
  ASSUME UpdatesReachTable, RowInv, NEW r \in Runs, NEW k \in Attempts,
         Execution(r, k) \/ ExecutionKilled(r, k)
  PROVE  RowFollowsAttempt' /\ FailedIsNotAcknowledged'
<1> USE DEF RowInv, SerialInv, DispatchInv, TypeOK, TableTypeOK, QueueTypeOK,
            OrchestratorTypeOK, queueVars
<1>1. pc[<<r, k>>] \in Live /\ msg[r] # "deleted"
  <2>1. pc[<<r, k>>] \in Live
    BY ExecutionChanges DEF InvocationChange
  <2> QED  BY <2>1 DEF LiveHoldsMessage
<1>2. pc[<<r, k>>] \in {"running", "opening", "writing", "completing",
                        "returned"} => status[r] # "FAILED"
  BY DEF RowFollowsAttempt
<1>3. CASE MarkProcessing(r, k)
  <2>1. status' = [status EXCEPT ![r] = "PROCESSING"]
    BY <1>3 DEF MarkProcessing, UpdateRunStatus, UpdateItem,
                UpdatesReachTable
  <2> QED  BY <1>1, <1>3, <2>1, RowStep DEF MarkProcessing
<1>4. CASE RunGraph(r, k)
  BY <1>1, <1>2, <1>4, RowStep DEF RunGraph
<1>5. CASE OpenArtifact(r, k)
  BY <1>1, <1>2, <1>5, RowStep DEF OpenArtifact
<1>6. CASE WriteArtifact(r, k)
  BY <1>1, <1>2, <1>6, RowStep DEF WriteArtifact
<1>7. CASE MarkCompleted(r, k)
  <2>1. /\ status'[r] # "FAILED"
        /\ \A q \in Runs : q # r => status'[q] = status[q]
    BY <1>2, <1>7 DEF MarkCompleted, UpdateRunStatus, UpdateItem
  <2> QED  BY <1>1, <1>7, <2>1, RowStep DEF MarkCompleted
<1>8. CASE MarkFailed(r, k)
  <2>1. status' = [status EXCEPT ![r] = "FAILED"]
    BY <1>8 DEF MarkFailed, UpdateRunStatus, UpdateItem, UpdatesReachTable,
                FloatAttributes
  <2> QED  BY <1>1, <1>8, <2>1, RowStep DEF MarkFailed
<1>9. CASE Acknowledge(r, k)
  BY <1>2, <1>9, RowStep DEF Acknowledge
<1>10. CASE ExecutionKilled(r, k)
  BY <1>1, <1>10, RowStep DEF ExecutionKilled, Kill
<1> QED
  BY <1>3, <1>4, <1>5, <1>6, <1>7, <1>8, <1>9, <1>10
     DEF Execution, InvocationStep

LEMMA RowNext ==
  ASSUME NoOverlap, UpdatesReachTable
  PROVE  RowInv /\ [Next]_vars => RowInv'
<1> SUFFICES ASSUME RowInv, [Next]_vars PROVE RowInv'  OBVIOUS
<1>1. SerialInv'
  BY SerialNext DEF RowInv
<1>2. CASE Next
  BY <1>1, <1>2, OutsideChanges, RowDelivery, RowExecution
     DEF Next, RunNext, RowInv, SerialInv
<1>3. CASE UNCHANGED vars
  BY <1>1, <1>3 DEF RowInv, RowFollowsAttempt, FailedIsNotAcknowledged, vars,
                    queueVars, orchestratorVars
<1> QED  BY <1>2, <1>3

(* A row says FAILED only while the run's message is not acknowledged.     *)
THEOREM FailedIsNotAcknowledgedHolds ==
  ASSUME NoOverlap, UpdatesReachTable
  PROVE  Spec => []FailedIsNotAcknowledged
<1>1. RowInv => FailedIsNotAcknowledged
  BY DEF RowInv
<1> QED  BY <1>1, RowInit, RowNext, PTL DEF Spec

(* If the last permitted attempt of a dead-lettered run raised, its row    *)
(* says FAILED.                                                            *)
THEOREM DeadLetteredIsFailedHolds ==
  ASSUME NoOverlap, UpdatesReachTable
  PROVE  Spec => []DeadLetteredIsFailed
<1>1. RowInv => DeadLetteredIsFailed
  <2> SUFFICES ASSUME RowInv, NEW r \in Runs,
                      pc[<<r, MaxReceiveCount>>] = "raised"
               PROVE  status[r] = "FAILED"
    BY DEF DeadLetteredIsFailed
  <2>1. MaxReceiveCount \in Attempts
    BY MaxReceiveAssumption DEF Attempts
  <2>2. receives[r] = MaxReceiveCount
    BY <2>1, MaxReceiveAssumption
       DEF RowInv, SerialInv, DispatchInv, AttemptsFollowReceives, TypeOK,
           QueueTypeOK
  <2> QED  BY <2>1, <2>2 DEF RowInv, RowFollowsAttempt
<1> QED  BY <1>1, RowInit, RowNext, PTL DEF Spec

=============================================================================
