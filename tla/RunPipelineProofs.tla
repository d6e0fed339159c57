------------------------- MODULE RunPipelineProofs -------------------------
(***************************************************************************)
(* Proofs about the deployed pipeline, for any number of runs and message  *)
(* groups, any redrive limit, failing AWS calls and overlapping            *)
(* invocations.                                                            *)
(***************************************************************************)
EXTENDS RunPipeline, TLAPS

-----------------------------------------------------------------------------
(*                              Type correctness                           *)

LEMMA TypeInit == Init => TypeOK
BY MaxReceiveAssumption
   DEF Init, TypeOK, TableInit, QueueInit, ApiInit, OrchestratorInit,
       TableTypeOK, QueueTypeOK, ApiTypeOK, OrchestratorTypeOK, Place

LEMMA TypeIngestion ==
  ASSUME TypeOK, NEW r \in Runs, Ingestion(r) \/ IngestionCrash(r)
  PROVE  TypeOK'
<1> USE DEF TypeOK, TableTypeOK, QueueTypeOK, ApiTypeOK, OrchestratorTypeOK,
            queueVars, apiVars, orchestratorVars, RowStatus, Place,
            Proceed, Answer
<1>1. CASE Validate(r) /\ UNCHANGED orchestratorVars
  BY <1>1 DEF Validate
<1>2. CASE PutRow(r) /\ UNCHANGED orchestratorVars
  BY <1>2 DEF PutRow, PutItem
<1>3. ASSUME NEW g \in Groups, Dispatch(r, g), UNCHANGED orchestratorVars
      PROVE  TypeOK'
  <2>1. CASE SendMessage(r, g)
    <3>1. sent' \in Seq(Runs)
      BY <2>1 DEF SendMessage
    <3> QED  BY <1>3, <2>1, <3>1 DEF Dispatch, SendMessage
  <2>2. CASE UNCHANGED queueVars
    BY <1>3, <2>2 DEF Dispatch
  <2> QED  BY <1>3, <2>1, <2>2 DEF Dispatch
<1>4. CASE IngestionCrash(r)
  BY <1>4 DEF IngestionCrash, CrashApi
<1> QED  BY <1>1, <1>2, <1>3, <1>4 DEF Ingestion, ApiStep

LEMMA TypeDelivery ==
  ASSUME TypeOK, NEW r \in Runs,
         Delivery(r) \/ Redelivery(r) \/ DeadLettering(r) \/ RetentionLapse(r)
  PROVE  TypeOK'
<1> USE MaxReceiveAssumption
    DEF TypeOK, TableTypeOK, QueueTypeOK, ApiTypeOK, OrchestratorTypeOK,
        apiVars, orchestratorVars, RowStatus, Place, Attempts
<1>1. CASE Delivery(r)
  BY <1>1 DEF Delivery, StartInvocation, Receive, Receivable, Live
<1>2. CASE Redelivery(r)
  BY <1>2 DEF Redelivery, VisibilityTimeout, BecomeVisible
<1>3. CASE DeadLettering(r)
  BY <1>3 DEF DeadLettering, Redrive
<1>4. CASE RetentionLapse(r)
  BY <1>4 DEF RetentionLapse, Expire
<1> QED  BY <1>1, <1>2, <1>3, <1>4

(* What a step of an invocation may do: it was alive, it writes its own    *)
(* run's row and the file in its own environment at most, and the message  *)
(* goes only when it is done.                                              *)
InvocationChange(r, k) ==
  /\ pc[<<r, k>>] \in Live
  /\ \E step \in Live \cup Ended : Goto(r, k, step)
  /\ \/ UNCHANGED status
     \/ \E s \in RowStatus \ {"QUEUED"} : UpdateItem(r, s)
  /\ \/ UNCHANGED files
     \/ \E content \in {"partial", "whole"} : WriteFile(r, k, content)
  /\ \/ UNCHANGED msg
     \/ DeleteMessage(r, k) /\ pc'[<<r, k>>] = "finished"
  /\ UNCHANGED <<group, sent, receives, apiVars>>

LEMMA ExecutionChanges ==
  ASSUME TypeOK, NEW r \in Runs, NEW k \in Attempts,
         Execution(r, k) \/ ExecutionKilled(r, k)
  PROVE  InvocationChange(r, k)
<1> USE DEF InvocationChange, queueVars, Live, Ended, RowStatus
<1>1. CASE MarkProcessing(r, k) /\ UNCHANGED apiVars
  BY <1>1 DEF MarkProcessing, UpdateRunStatus
<1>2. CASE RunGraph(r, k) /\ UNCHANGED apiVars
  BY <1>2 DEF RunGraph
<1>3. CASE OpenArtifact(r, k) /\ UNCHANGED apiVars
  BY <1>3 DEF OpenArtifact
<1>4. CASE WriteArtifact(r, k) /\ UNCHANGED apiVars
  BY <1>4 DEF WriteArtifact
<1>5. CASE MarkCompleted(r, k) /\ UNCHANGED apiVars
  BY <1>5 DEF MarkCompleted, UpdateRunStatus
<1>6. CASE MarkFailed(r, k) /\ UNCHANGED apiVars
  BY <1>6 DEF MarkFailed, UpdateRunStatus
<1>7. CASE Acknowledge(r, k) /\ UNCHANGED apiVars
  <2>1. pc'[<<r, k>>] = "finished"
    BY <1>7 DEF Acknowledge, Goto, TypeOK, OrchestratorTypeOK
  <2> QED  BY <1>7, <2>1 DEF Acknowledge, DeleteMessage
<1>8. CASE ExecutionKilled(r, k)
  BY <1>8 DEF ExecutionKilled, Kill
<1> QED
  BY <1>1, <1>2, <1>3, <1>4, <1>5, <1>6, <1>7, <1>8
     DEF Execution, InvocationStep

LEMMA TypeInvocation ==
  ASSUME TypeOK, NEW r \in Runs, NEW k \in Attempts, InvocationChange(r, k)
  PROVE  TypeOK'
<1> USE DEF TypeOK, TableTypeOK, QueueTypeOK, ApiTypeOK, OrchestratorTypeOK,
            apiVars, InvocationChange
<1>1. TableTypeOK'
  BY DEF UpdateItem
<1>2. QueueTypeOK'
  BY DEF DeleteMessage, Place
<1>3. /\ pc' \in [Runs \X Attempts -> Live \cup Ended \cup {"idle"}]
      /\ env' \in [Runs \X Attempts -> Environments \cup {NoEnvironment}]
  BY DEF Goto
<1>4. files' \in [Directories \X Runs -> {"absent", "partial", "whole"}]
  BY DEF WriteFile
<1> QED  BY <1>1, <1>2, <1>3, <1>4

LEMMA TypeNext == TypeOK /\ [Next]_vars => TypeOK'
<1> SUFFICES ASSUME TypeOK, [Next]_vars PROVE TypeOK'  OBVIOUS
<1>1. CASE Next
  BY <1>1, TypeIngestion, TypeDelivery, ExecutionChanges, TypeInvocation
     DEF Next, RunNext
<1>2. CASE UNCHANGED vars
  BY <1>2 DEF vars, TypeOK, TableTypeOK, QueueTypeOK, ApiTypeOK,
              OrchestratorTypeOK, queueVars, apiVars, orchestratorVars
<1> QED  BY <1>1, <1>2

(* Every variable keeps its type, whatever the constants: in particular no *)
(* message is received more often than the redrive policy allows.          *)
THEOREM TypeCorrect == Spec => []TypeOK
BY TypeInit, TypeNext, PTL DEF Spec

-----------------------------------------------------------------------------
(*                         The inductive invariant                         *)

(* The row is put before the message is sent, and before any answer 202.   *)
SendFollowsPut ==
  \A r \in Runs :
    /\ api[r] \in {"new", "put"} => status[r] = NoRow
    /\ api[r] \in {"new", "put", "send"} =>
         msg[r] = "none" /\ response[r] = "none"
    /\ api[r] = "send" \/ msg[r] # "none" => status[r] # NoRow
    /\ response[r] = "202" => msg[r] # "none"

(* Only what has been received is executed, one invocation per receive.    *)
AttemptsFollowReceives ==
  \A r \in Runs :
    /\ msg[r] = "none" => receives[r] = 0
    /\ \A k \in Attempts : pc[<<r, k>>] # "idle" => k <= receives[r]

DispatchInv == TypeOK /\ SendFollowsPut /\ AttemptsFollowReceives

(* No two invocations that are alive run in one environment.               *)
EnvironmentsExclusive ==
  \A h, i \in Runs \X Attempts :
    /\ pc[h] \in Live => env[h] \in Environments
    /\ pc[h] \in Live /\ pc[i] \in Live /\ env[h] = env[i] => h = i

(* What a live invocation has written nobody has truncated since.          *)
CurrentFile ==
  \A r \in Runs : \A k \in Attempts :
    pc[<<r, k>>] \in {"completing", "returned"}
      => files[<<env[<<r, k>>], r>>] = "whole"

(* Attempt k of run r has left its report where no live attempt of the run *)
(* can truncate it.                                                        *)
LeftForGood(r, k) ==
  /\ LeftReport(r, k)
  /\ env[<<r, k>>] \in Environments
  /\ \A j \in Attempts : pc[<<r, j>>] \in Live => env[<<r, j>>] # env[<<r, k>>]

(* The attempt that had a message deleted has left its report for good.    *)
AcknowledgedIsLeft ==
  \A r \in Runs : msg[r] = "deleted" => \E k \in Attempts : LeftForGood(r, k)

WarmInv == DispatchInv /\ EnvironmentsExclusive

ArtifactInv == WarmInv /\ CurrentFile /\ AcknowledgedIsLeft

-----------------------------------------------------------------------------
(*                    The dispatch part holds for any setting              *)

LEMMA DispatchInit == Init => DispatchInv
BY TypeInit, MaxReceiveAssumption
   DEF DispatchInv, SendFollowsPut, AttemptsFollowReceives, Attempts,
       Init, TableInit, QueueInit, ApiInit, OrchestratorInit

LEMMA DispatchIngestion ==
  ASSUME DispatchInv, NEW r \in Runs, Ingestion(r) \/ IngestionCrash(r)
  PROVE  SendFollowsPut' /\ AttemptsFollowReceives'
<1> USE DEF DispatchInv, SendFollowsPut, AttemptsFollowReceives,
            TypeOK, TableTypeOK, QueueTypeOK, ApiTypeOK,
            queueVars, apiVars, orchestratorVars, NoRow, Proceed, Answer
<1>1. CASE Validate(r) /\ UNCHANGED orchestratorVars
  BY <1>1 DEF Validate
<1>2. CASE PutRow(r) /\ UNCHANGED orchestratorVars
  BY <1>2 DEF PutRow, PutItem
<1>3. ASSUME NEW g \in Groups, Dispatch(r, g), UNCHANGED orchestratorVars
      PROVE  SendFollowsPut' /\ AttemptsFollowReceives'
  <2>1. CASE SendMessage(r, g)
    <3>1. SendFollowsPut'
      BY <1>3, <2>1 DEF Dispatch, SendMessage
    <3>2. AttemptsFollowReceives'
      BY <1>3, <2>1 DEF SendMessage
    <3> QED  BY <3>1, <3>2
  <2>2. CASE UNCHANGED queueVars /\ Answer(r, "500")
    <3>1. SendFollowsPut'
      BY <1>3, <2>2 DEF Dispatch
    <3>2. AttemptsFollowReceives'
      BY <1>3, <2>2
    <3> QED  BY <3>1, <3>2
  <2> QED  BY <1>3, <2>1, <2>2 DEF Dispatch
<1>4. CASE IngestionCrash(r)
  BY <1>4 DEF IngestionCrash, CrashApi
<1> QED  BY <1>1, <1>2, <1>3, <1>4 DEF Ingestion, ApiStep

LEMMA DispatchDelivery ==
  ASSUME DispatchInv, NEW r \in Runs,
         Delivery(r) \/ Redelivery(r) \/ DeadLettering(r) \/ RetentionLapse(r)
  PROVE  SendFollowsPut' /\ AttemptsFollowReceives'
<1> USE MaxReceiveAssumption
    DEF DispatchInv, SendFollowsPut, AttemptsFollowReceives, Attempts,
        TypeOK, QueueTypeOK, OrchestratorTypeOK, apiVars, orchestratorVars
<1>1. CASE Delivery(r)
  BY <1>1 DEF Delivery, StartInvocation, Receive, Receivable
<1>2. CASE Redelivery(r)
  BY <1>2 DEF Redelivery, VisibilityTimeout, BecomeVisible
<1>3. CASE DeadLettering(r)
  BY <1>3 DEF DeadLettering, Redrive, Receivable
<1>4. CASE RetentionLapse(r)
  BY <1>4 DEF RetentionLapse, Expire
<1> QED  BY <1>1, <1>2, <1>3, <1>4

(* A step of an invocation concerns a run whose message has been sent, so  *)
(* whatever it does to the row and the message is in order.                *)
LEMMA DispatchInvocation ==
  ASSUME DispatchInv, NEW r \in Runs, NEW k \in Attempts,
         InvocationChange(r, k)
  PROVE  SendFollowsPut' /\ AttemptsFollowReceives'
<1> USE MaxReceiveAssumption
    DEF DispatchInv, SendFollowsPut, AttemptsFollowReceives, Attempts,
        TypeOK, TableTypeOK, QueueTypeOK, ApiTypeOK, OrchestratorTypeOK,
        apiVars, InvocationChange
<1>1. msg[r] # "none" /\ k <= receives[r]
  BY DEF Live
<1>2. \A q \in Runs : msg'[q] = "none" <=> msg[q] = "none"
  BY <1>1 DEF DeleteMessage
<1>3. \A q \in Runs : q # r => status'[q] = status[q]
  BY DEF UpdateItem
<1>4. status'[r] # NoRow
  BY <1>1 DEF UpdateItem, RowStatus, NoRow
<1>5. SendFollowsPut'
  BY <1>1, <1>2, <1>3, <1>4
<1>6. AttemptsFollowReceives'
  BY <1>1, <1>2 DEF Goto
<1> QED  BY <1>5, <1>6

LEMMA DispatchNext == DispatchInv /\ [Next]_vars => DispatchInv'
<1> SUFFICES ASSUME DispatchInv, [Next]_vars PROVE DispatchInv'  OBVIOUS
<1>1. TypeOK'
  BY TypeNext DEF DispatchInv
<1>2. CASE Next
  BY <1>1, <1>2, DispatchIngestion, DispatchDelivery, ExecutionChanges,
     DispatchInvocation
     DEF Next, RunNext, DispatchInv
<1>3. CASE UNCHANGED vars
  BY <1>1, <1>3 DEF DispatchInv, SendFollowsPut, AttemptsFollowReceives, vars,
                    queueVars, apiVars, orchestratorVars
<1> QED  BY <1>2, <1>3

(* What the other steps may do: no file changes, no message is deleted, a  *)
(* row is created at most, and one invocation is started at most, for a    *)
(* message that is there and in an environment that is not in use.         *)
OutsideChange ==
  /\ UNCHANGED files
  /\ \A q \in Runs :
       /\ msg'[q] = "deleted" => msg[q] = "deleted"
       /\ receives'[q] >= receives[q]
       /\ status'[q] = status[q] \/ (status[q] = NoRow /\ status'[q] = "QUEUED")
       /\ \A j \in Attempts :
            \/ /\ pc'[<<q, j>>] = pc[<<q, j>>]
               /\ env'[<<q, j>>] = env[<<q, j>>]
            \/ /\ pc[<<q, j>>] = "idle" /\ pc'[<<q, j>>] = "started"
               /\ env'[<<q, j>>] \in Environments
               /\ ~ Busy(env'[<<q, j>>])
               /\ msg[q] # "deleted"
               /\ \A i \in Runs \X Attempts : i # <<q, j>> => pc'[i] = pc[i]

LEMMA OutsideChanges ==
  ASSUME DispatchInv, NEW r \in Runs,
         \/ Ingestion(r) \/ IngestionCrash(r) \/ Delivery(r)
         \/ Redelivery(r) \/ DeadLettering(r) \/ RetentionLapse(r)
  PROVE  OutsideChange
<1> USE DEF DispatchInv, TypeOK, TableTypeOK, QueueTypeOK, OrchestratorTypeOK,
            OutsideChange
<1>1. CASE Ingestion(r) \/ IngestionCrash(r)
  BY <1>1
     DEF SendFollowsPut, Ingestion, IngestionCrash, ApiStep, Validate, PutRow,
         PutItem, Dispatch, SendMessage, CrashApi, queueVars, orchestratorVars
<1>2. CASE Delivery(r)
  <2> DEFINE k == receives[r] + 1
  <2>1. /\ k \in Attempts /\ pc[<<r, k>>] = "idle" /\ msg[r] = "queued"
        /\ pc' = [pc EXCEPT ![<<r, k>>] = "started"]
    BY <1>2, MaxReceiveAssumption
       DEF Delivery, StartInvocation, Receive, Receivable, Attempts,
           AttemptsFollowReceives
  <2>4. PICK e \in Environments :
          ~ Busy(e) /\ env' = [env EXCEPT ![<<r, k>>] = e]
    BY <1>2 DEF Delivery, StartInvocation
  <2>2. \A q \in Runs : receives'[q] >= receives[q]
    BY <1>2, MaxReceiveAssumption DEF Delivery, StartInvocation, Receive
  <2> HIDE DEF k
  <2>3. \A q \in Runs : msg'[q] = "deleted" => msg[q] = "deleted"
    BY <1>2 DEF Delivery, StartInvocation, Receive
  <2>5. UNCHANGED <<files, status>>
    BY <1>2 DEF Delivery, StartInvocation
  <2>6. ASSUME NEW q \in Runs, NEW j \in Attempts, <<q, j>> # <<r, k>>
        PROVE  pc'[<<q, j>>] = pc[<<q, j>>] /\ env'[<<q, j>>] = env[<<q, j>>]
    BY <2>1, <2>4, <2>6
  <2>7. pc'[<<r, k>>] = "started" /\ env'[<<r, k>>] = e
    BY <2>1, <2>4
  <2>8. \A i \in Runs \X Attempts : i # <<r, k>> => pc'[i] = pc[i]
    BY <2>1
  <2>9. ASSUME NEW q \in Runs, NEW j \in Attempts
        PROVE  \/ /\ pc'[<<q, j>>] = pc[<<q, j>>]
                  /\ env'[<<q, j>>] = env[<<q, j>>]
               \/ /\ pc[<<q, j>>] = "idle" /\ pc'[<<q, j>>] = "started"
                  /\ env'[<<q, j>>] \in Environments
                  /\ ~ Busy(env'[<<q, j>>])
                  /\ msg[q] # "deleted"
                  /\ \A i \in Runs \X Attempts : i # <<q, j>> => pc'[i] = pc[i]
    <3>1. CASE <<q, j>> = <<r, k>>
      BY <2>1, <2>4, <2>7, <2>8, <3>1
    <3> QED  BY <2>6, <3>1
  <2> QED  BY <2>2, <2>3, <2>5, <2>9
<1>3. CASE Redelivery(r) \/ DeadLettering(r) \/ RetentionLapse(r)
  BY <1>3
     DEF Redelivery, VisibilityTimeout, BecomeVisible, DeadLettering, Redrive,
         RetentionLapse, Expire, orchestratorVars
<1> QED  BY <1>1, <1>2, <1>3

(* Once an orchestrator has touched a row, no late put_item of the         *)
(* ingestion API resets it to QUEUED: for every run, group and timing.     *)
THEOREM NeverBackToQueuedHolds == Spec => NeverBackToQueued
<1>1. DispatchInv /\ [Next]_vars =>
        [\A r \in Runs : status[r] \notin {NoRow, "QUEUED"}
           => status'[r] # "QUEUED"]_vars
  <2> SUFFICES ASSUME DispatchInv, Next, NEW q \in Runs,
                      status[q] \notin {NoRow, "QUEUED"}
               PROVE  status'[q] # "QUEUED"
    OBVIOUS
  <2> USE DEF DispatchInv, TypeOK, TableTypeOK
  <2>1. PICK r \in Runs : RunNext(r)
    BY DEF Next
  <2>2. CASE OutsideChange
    BY <2>2 DEF OutsideChange
  <2>3. ASSUME NEW k \in Attempts, Execution(r, k) \/ ExecutionKilled(r, k)
        PROVE  status'[q] # "QUEUED"
    BY <2>3, ExecutionChanges DEF InvocationChange, UpdateItem
  <2> QED  BY <2>1, <2>2, <2>3, OutsideChanges DEF RunNext
<1> QED
  BY <1>1, DispatchInit, DispatchNext, PTL DEF Spec, NeverBackToQueued

-----------------------------------------------------------------------------
(*                      Environments are used one at a time                *)

LEMMA WarmInit == Init => WarmInv
BY DispatchInit
   DEF WarmInv, EnvironmentsExclusive, Init, OrchestratorInit, Live

(* Whoever starts does so where nobody is at work.                         *)
LEMMA ExclusiveOutside ==
  ASSUME WarmInv, OutsideChange
  PROVE  EnvironmentsExclusive'
<1> SUFFICES ASSUME NEW h \in Runs \X Attempts, NEW i \in Runs \X Attempts
    PROVE  /\ pc'[h] \in Live => env'[h] \in Environments
           /\ pc'[h] \in Live /\ pc'[i] \in Live /\ env'[h] = env'[i] => h = i
  BY DEF EnvironmentsExclusive
<1> DEFINE Same(x) == pc'[x] = pc[x] /\ env'[x] = env[x]
           Started(x) == /\ env'[x] \in Environments
                         /\ ~ Busy(env'[x])
                         /\ \A y \in Runs \X Attempts : y # x => pc'[y] = pc[y]
                         /\ pc[x] # pc'[x]
<1>1. \A x \in Runs \X Attempts : Same(x) \/ Started(x)
  <2> SUFFICES ASSUME NEW q \in Runs, NEW j \in Attempts
               PROVE  Same(<<q, j>>) \/ Started(<<q, j>>)
    OBVIOUS
  <2> QED  BY DEF OutsideChange
<1>2. CASE Same(h) /\ Same(i)
  BY <1>2 DEF WarmInv, EnvironmentsExclusive
<1>3. ASSUME NEW x \in Runs \X Attempts, NEW y \in Runs \X Attempts,
             Started(x), x # y, pc'[y] \in Live
      PROVE  env'[x] # env'[y]
  <2>1. Same(y) /\ pc[y] \in Live
    BY <1>1, <1>3
  <2> QED  BY <1>3, <2>1 DEF Busy
<1>4. CASE Started(h)
  BY <1>3, <1>4
<1>5. CASE Same(h) /\ Started(i)
  BY <1>3, <1>5 DEF WarmInv, EnvironmentsExclusive
<1> QED  BY <1>1, <1>2, <1>4, <1>5

LEMMA ExclusiveInvocation ==
  ASSUME WarmInv, NEW r \in Runs, NEW k \in Attempts, InvocationChange(r, k)
  PROVE  EnvironmentsExclusive'
<1>1. env' = env /\ \A i \in Runs \X Attempts : pc'[i] \in Live => pc[i] \in Live
  BY DEF InvocationChange, Goto, WarmInv, DispatchInv, TypeOK, OrchestratorTypeOK
<1> QED  BY <1>1 DEF WarmInv, EnvironmentsExclusive

LEMMA WarmNext == WarmInv /\ [Next]_vars => WarmInv'
<1> SUFFICES ASSUME WarmInv, [Next]_vars PROVE WarmInv'  OBVIOUS
<1>1. DispatchInv'
  BY DispatchNext DEF WarmInv
<1>2. CASE Next
  BY <1>1, <1>2, OutsideChanges, ExclusiveOutside, ExecutionChanges,
     ExclusiveInvocation
     DEF Next, RunNext, WarmInv, DispatchInv
<1>3. CASE UNCHANGED vars
  BY <1>1, <1>3 DEF WarmInv, EnvironmentsExclusive, vars, orchestratorVars
<1> QED  BY <1>2, <1>3

-----------------------------------------------------------------------------
(*                 Reports of acknowledged runs stay where they are        *)

LEMMA ArtifactInit == Init => ArtifactInv
BY WarmInit
   DEF ArtifactInv, CurrentFile, AcknowledgedIsLeft, Init, QueueInit,
       OrchestratorInit

(* A run that is acknowledged is not started again.                        *)
LEMMA ArtifactOutside ==
  ASSUME ArtifactInv, OutsideChange
  PROVE  CurrentFile' /\ AcknowledgedIsLeft'
<1> USE DEF OutsideChange
<1>1. CurrentFile'
  <2> SUFFICES ASSUME NEW q \in Runs, NEW j \in Attempts,
                      pc'[<<q, j>>] \in {"completing", "returned"}
               PROVE  files'[<<env'[<<q, j>>], q>>] = "whole"
    BY DEF CurrentFile
  <2>1. pc'[<<q, j>>] = pc[<<q, j>>] /\ env'[<<q, j>>] = env[<<q, j>>]
    OBVIOUS
  <2> QED  BY <2>1 DEF ArtifactInv, CurrentFile
<1>2. AcknowledgedIsLeft'
  <2> SUFFICES ASSUME NEW q \in Runs, msg'[q] = "deleted"
               PROVE  \E j \in Attempts : LeftForGood(q, j)'
    BY DEF AcknowledgedIsLeft
  <2>1. PICK j \in Attempts : msg[q] = "deleted" /\ LeftForGood(q, j)
    BY DEF ArtifactInv, AcknowledgedIsLeft
  <2>2. \A i \in Attempts :
          pc'[<<q, i>>] = pc[<<q, i>>] /\ env'[<<q, i>>] = env[<<q, i>>]
    BY <2>1
  <2>3. LeftForGood(q, j)'
    BY <2>1, <2>2 DEF LeftForGood, LeftReport
  <2> QED  BY <2>3
<1> QED  BY <1>1, <1>2

(* The invocation that moves writes at most the file of its own run in its *)
(* own environment, which no other live invocation uses.                   *)
LEMMA ArtifactStep ==
  ASSUME ArtifactInv, NEW r \in Runs, NEW k \in Attempts,
         InvocationChange(r, k), NEW step, Goto(r, k, step),
         step \in {"completing", "returned"} =>
           files'[<<env[<<r, k>>], r>>] = "whole",
         msg'[r] = "deleted" /\ msg[r] # "deleted" =>
           step = "finished" /\ files'[<<env[<<r, k>>], r>>] = "whole"
  PROVE  CurrentFile' /\ AcknowledgedIsLeft'
<1> USE DEF ArtifactInv, WarmInv, DispatchInv, TypeOK, QueueTypeOK,
            OrchestratorTypeOK
<1>1. /\ pc[<<r, k>>] \in Live /\ env[<<r, k>>] \in Environments
      /\ pc'[<<r, k>>] = step /\ env' = env
  BY DEF InvocationChange, EnvironmentsExclusive, Goto
<1>2. \A i \in Runs \X Attempts : i # <<r, k>> => pc'[i] = pc[i]
  BY DEF Goto
<1>3. \A q \in Runs : \A e : <<e, q>> # <<env[<<r, k>>], r>> /\ e \in Directories
        => files'[<<e, q>>] = files[<<e, q>>]
  BY DEF InvocationChange, WriteFile
<1>4. \A j \in Attempts : j # k /\ pc[<<r, j>>] \in Live
        => env[<<r, j>>] # env[<<r, k>>]
  BY <1>1 DEF EnvironmentsExclusive
<1>5. \A q \in Runs : q # r => msg'[q] = msg[q]
  BY DEF InvocationChange, DeleteMessage
<1>6. CurrentFile'
  <2> SUFFICES ASSUME NEW q \in Runs, NEW j \in Attempts,
                      pc'[<<q, j>>] \in {"completing", "returned"}
               PROVE  files'[<<env[<<q, j>>], q>>] = "whole"
    BY <1>1 DEF CurrentFile
  <2>1. CASE <<q, j>> = <<r, k>>
    BY <1>1, <2>1
  <2>2. CASE <<q, j>> # <<r, k>>
    <3>1. pc'[<<q, j>>] = pc[<<q, j>>] /\ pc[<<q, j>>] \in Live
      BY <1>2, <2>2 DEF Live
    <3>2. <<env[<<q, j>>], q>> # <<env[<<r, k>>], r>>
      BY <1>4, <2>2, <3>1
    <3>3. env[<<q, j>>] \in Directories
      BY <3>1, DirectoriesAssumption DEF EnvironmentsExclusive
    <3> QED  BY <1>3, <3>1, <3>2, <3>3 DEF CurrentFile
  <2> QED  BY <2>1, <2>2
<1>7. ASSUME NEW q \in Runs, NEW j \in Attempts, LeftForGood(q, j)
      PROVE  LeftForGood(q, j)'
  <2>1. pc'[<<q, j>>] = "finished" /\ <<q, j>> # <<r, k>>
    BY <1>1, <1>2, <1>7 DEF LeftForGood, LeftReport, Live
  <2>2. <<env[<<q, j>>], q>> # <<env[<<r, k>>], r>>
    BY <1>1, <1>7 DEF LeftForGood
  <2>3. files'[<<env[<<q, j>>], q>>] = "whole"
    BY <1>3, <1>7, <2>2, DirectoriesAssumption DEF LeftForGood, LeftReport
  <2>4. \A i \in Attempts : pc'[<<q, i>>] \in Live => pc[<<q, i>>] \in Live
    BY <1>1, <1>2
  <2> QED  BY <1>1, <1>7, <2>1, <2>3, <2>4 DEF LeftForGood, LeftReport
<1>8. AcknowledgedIsLeft'
  <2> SUFFICES ASSUME NEW q \in Runs, msg'[q] = "deleted"
               PROVE  \E j \in Attempts : LeftForGood(q, j)'
    BY DEF AcknowledgedIsLeft
  <2>1. CASE msg[q] = "deleted"
    BY <1>7, <2>1 DEF AcknowledgedIsLeft
  <2>2. CASE msg[q] # "deleted"
    <3>1. q = r /\ step = "finished" /\ files'[<<env[<<r, k>>], r>>] = "whole"
      BY <1>5, <2>2
    <3>2. \A j \in Attempts : pc'[<<r, j>>] \in Live
            => pc[<<r, j>>] \in Live /\ j # k
      BY <1>1, <1>2, <3>1 DEF Live
    <3>3. LeftForGood(r, k)'
      BY <1>1, <1>4, <3>1, <3>2 DEF LeftForGood, LeftReport
    <3> QED  BY <3>1, <3>3
  <2> QED  BY <2>1, <2>2
<1> QED  BY <1>6, <1>8

LEMMA ArtifactExecution ==
  ASSUME ArtifactInv, NEW r \in Runs, NEW k \in Attempts,
         Execution(r, k) \/ ExecutionKilled(r, k)
  PROVE  CurrentFile' /\ AcknowledgedIsLeft'
<1> USE DEF ArtifactInv, WarmInv, DispatchInv, TypeOK, QueueTypeOK,
            OrchestratorTypeOK, queueVars
<1>1. InvocationChange(r, k)
  BY ExecutionChanges
<1>2. pc[<<r, k>>] \in {"completing", "returned"} =>
        files[<<env[<<r, k>>], r>>] = "whole"
  BY DEF CurrentFile
<1>3. CASE MarkProcessing(r, k)
  BY <1>1, <1>3, ArtifactStep DEF MarkProcessing
<1>4. CASE RunGraph(r, k)
  BY <1>1, <1>4, ArtifactStep DEF RunGraph
<1>5. CASE OpenArtifact(r, k)
  BY <1>1, <1>5, ArtifactStep DEF OpenArtifact
<1>6. CASE WriteArtifact(r, k)
  <2>1. CASE WriteFile(r, k, "whole") /\ Goto(r, k, "completing")
    <3>1. <<env[<<r, k>>], r>> \in Directories \X Runs
      BY <1>1, DirectoriesAssumption DEF InvocationChange, EnvironmentsExclusive
    <3>2. files'[<<env[<<r, k>>], r>>] = "whole"
      BY <2>1, <3>1 DEF WriteFile
    <3> QED  BY <1>1, <1>6, <2>1, <3>2, ArtifactStep DEF WriteArtifact
  <2>2. CASE UNCHANGED files /\ Goto(r, k, "failing")
    BY <1>1, <1>6, <2>2, ArtifactStep DEF WriteArtifact
  <2> QED  BY <1>6, <2>1, <2>2 DEF WriteArtifact
<1>7. CASE MarkCompleted(r, k)
  BY <1>1, <1>2, <1>7, ArtifactStep DEF MarkCompleted
<1>8. CASE MarkFailed(r, k)
  BY <1>1, <1>8, ArtifactStep DEF MarkFailed
<1>9. CASE Acknowledge(r, k)
  BY <1>1, <1>2, <1>9, ArtifactStep DEF Acknowledge
<1>10. CASE ExecutionKilled(r, k)
  BY <1>1, <1>10, ArtifactStep DEF ExecutionKilled, Kill
<1> QED
  BY <1>3, <1>4, <1>5, <1>6, <1>7, <1>8, <1>9, <1>10
     DEF Execution, InvocationStep

LEMMA ArtifactNext == ArtifactInv /\ [Next]_vars => ArtifactInv'
<1> SUFFICES ASSUME ArtifactInv, [Next]_vars PROVE ArtifactInv'  OBVIOUS
<1>1. WarmInv'
  BY WarmNext DEF ArtifactInv
<1>2. CASE Next
  BY <1>1, <1>2, OutsideChanges, ArtifactOutside, ArtifactExecution
     DEF Next, RunNext, ArtifactInv, WarmInv
<1>3. CASE UNCHANGED vars
  <2>1. UNCHANGED <<pc, env, files, msg>>
    BY <1>3 DEF vars, queueVars, orchestratorVars
  <2>2. CurrentFile'
    BY <2>1 DEF ArtifactInv, CurrentFile
  <2>3. \A r \in Runs : \A k \in Attempts : LeftForGood(r, k) => LeftForGood(r, k)'
    BY <2>1 DEF LeftForGood, LeftReport
  <2>4. AcknowledgedIsLeft'
    BY <2>1, <2>3 DEF ArtifactInv, AcknowledgedIsLeft
  <2> QED  BY <1>1, <2>2, <2>4 DEF ArtifactInv
<1> QED  BY <1>2, <1>3

(* No run answered 202 is lost, in any interleaving of any number of runs, *)
(* with failing calls, kills, overlapping invocations and warm             *)
(* environments: an attempt that has the message deleted holds its         *)
(* environment, and thereby its report, against every other attempt.       *)
THEOREM AcceptedIsNeverLostHolds == Spec => []AcceptedIsNeverLost
<1>1. ArtifactInv => AcceptedIsNeverLost
  BY DEF ArtifactInv, WarmInv, DispatchInv, SendFollowsPut, AcknowledgedIsLeft,
         LeftForGood, AcceptedIsNeverLost, StatusCodes
<1> QED  BY <1>1, ArtifactInit, ArtifactNext, PTL DEF Spec

=============================================================================
