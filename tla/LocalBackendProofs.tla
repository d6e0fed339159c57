------------------------- MODULE LocalBackendProofs -------------------------
(***************************************************************************)
(* Proofs about the local backend, for any number of runs and requests.    *)
(***************************************************************************)
EXTENDS LocalBackend, TLAPS

LEMMA TypeInit == Init => TypeOK
<1> SUFFICES ASSUME Init PROVE TypeOK  OBVIOUS
<1>1. NoAnswer \in Answers
  BY DEF NoAnswer, Answers, Statuses, Results
<1>2. NoEntry \in Entries
  BY DEF NoEntry, Entries, Statuses, Results
<1> QED  BY <1>1, <1>2 DEF Init, TypeOK

LEMMA TypeRestart == TypeOK /\ Restart => TypeOK'
<1>1. NoAnswer \in Answers
  BY DEF NoAnswer, Answers, Statuses, Results
<1>2. NoEntry \in Entries
  BY DEF NoEntry, Entries, Statuses, Results
<1> QED  BY <1>1, <1>2 DEF Restart, TypeOK

(* The event loop assigns one field of one entry at a time.                *)
LEMMA TypeEntry ==
  ASSUME TypeOK, NEW r \in Runs,
         \/ UNCHANGED entry
         \/ \E s \in Statuses : entry' = [entry EXCEPT ![r].status = s]
         \/ \E x \in Results : entry' = [entry EXCEPT ![r].result = x]
         \/ entry' = [entry EXCEPT ![r].error = TRUE]
  PROVE  entry' \in [Runs -> Entries]
<1>1. entry[r] \in Entries
  BY DEF TypeOK
<1>2. \A s \in Statuses : [entry[r] EXCEPT !.status = s] \in Entries
  BY <1>1 DEF Entries
<1>3. \A x \in Results : [entry[r] EXCEPT !.result = x] \in Entries
  BY <1>1 DEF Entries
<1>4. [entry[r] EXCEPT !.error = TRUE] \in Entries
  BY <1>1 DEF Entries
<1> QED  BY <1>2, <1>3, <1>4 DEF TypeOK

LEMMA TypeTask ==
  ASSUME TypeOK, NEW r \in Runs,
         TaskStep(r) \/ \E route \in Kinds : Submit(r, route)
  PROVE  TypeOK'
<1> USE DEF Continue
<1>1. entry' \in [Runs -> Entries]
  BY TypeEntry
     DEF TaskStep, Submit, StartTask, GraphEnds, StoreResult, Publish,
         MarkFailed, StoreError, Statuses, Results
<1>2. ASSUME NEW route \in Kinds, Submit(r, route) PROVE TypeOK'
  BY <1>1, <1>2 DEF Submit, TypeOK
<1>3. CASE TaskStep(r)
  BY <1>1, <1>3
     DEF TypeOK, TaskStep, StartTask, GraphEnds, StoreResult, Publish,
         MarkFailed, StoreError
<1> QED  BY <1>2, <1>3

LEMMA TypeReader ==
  ASSUME TypeOK, NEW r \in Runs,
         \/ StatusLookup(r) \/ ReaderStep(r)
         \/ \E route \in ReportRoutes : ReportLookup(r, route)
  PROVE  TypeOK'
<1>1. entry[r] \in Entries
  BY DEF TypeOK
<1>2. answer[r] \in Answers /\ NoAnswer \in Answers
  BY DEF TypeOK, Answers, NoAnswer, Statuses, Results
<1>3. ASSUME NEW step \in {"idle", "status", "result", "error"} \cup ReportRoutes,
             NEW reading \in Answers, ReadNext(r, step, reading)
      PROVE  TypeOK'
  BY <1>3 DEF TypeOK, ReadNext
<1>4. CASE StatusLookup(r)
  BY <1>1, <1>3, <1>4 DEF StatusLookup, NoAnswer, Answers, Entries, Statuses, Results
<1>5. ASSUME NEW route \in ReportRoutes, ReportLookup(r, route)
      PROVE  TypeOK'
  <2> DEFINE reading == [NoAnswer EXCEPT !.route = route,
                                         !.status = entry[r].status]
  <2>1. \A code \in {"200", "404", "409"} :
          [reading EXCEPT !.code = code] \in Answers
    BY <1>1 DEF NoAnswer, Answers, Entries, Statuses, Results
  <2> HIDE DEF reading
  <2>2. \/ ReadNext(r, "idle", [reading EXCEPT !.code = "404"])
        \/ ReadNext(r, route, [reading EXCEPT !.code = "200"])
        \/ ReadNext(r, "idle", [reading EXCEPT !.code = "409"])
    BY <1>5, Zenon DEF ReportLookup, reading
  <2> QED  BY <1>3, <2>1, <2>2
<1>6. CASE ReaderStep(r)
  BY <1>1, <1>2, <1>3, <1>6
     DEF ReaderStep, StatusReadStatus, StatusReadResult, StatusReadError,
         ReportReadResult, ViewReadMarkdown, MarkdownOf, Answers, Entries,
         Results
<1> QED  BY <1>4, <1>5, <1>6

LEMMA TypeNext == TypeOK /\ [Next]_vars => TypeOK'
<1> SUFFICES ASSUME TypeOK, [Next]_vars PROVE TypeOK'  OBVIOUS
<1>1. CASE Next
  BY <1>1, TypeTask, TypeReader, TypeRestart DEF Next, RunNext
<1>2. CASE UNCHANGED vars
  BY <1>2 DEF vars, TypeOK
<1> QED  BY <1>1, <1>2

(* Every variable of the local backend keeps its type.                     *)
THEOREM TypeCorrect == Spec => []TypeOK
BY TypeInit, TypeNext, PTL DEF Spec

-----------------------------------------------------------------------------
(*                         The inductive invariant                         *)

(* The task stores a result before it publishes COMPLETED, an error only   *)
(* after FAILED, and does not touch the status after a final one.  The     *)
(* result is in the form of the run's route.  A run that was never         *)
(* submitted is not in the dict.                                           *)
PublishedInOrder ==
  \A r \in Runs :
    /\ kind[r] = "none" =>
         entry[r].status = "none" /\ entry[r].result = "none" /\ task[r] = "none"
    /\ task[r] = "publish" \/ entry[r].status = "COMPLETED" =>
         entry[r].result # "none"
    /\ kind[r] = "ingest" => entry[r].result \in {"none", "raw"}
    /\ entry[r].status \in {"COMPLETED", "FAILED"} =>
         task[r] \in {"explain", "done"}
    /\ task[r] = "explain" \/ entry[r].error => entry[r].status = "FAILED"

(* What a reader at the given step, having read so much of a run from the  *)
(* given route, will find in the entry or has found already.               *)
ReadSoFar(stored, origin, step, reading) ==
  /\ origin = "none" => reading.code # "200"
  /\ step \in ReportRoutes =>
       stored.result # "none" /\ reading.route = step
  /\ step \in {"status", "result", "error"} => reading.route = "status"
  /\ step = "status" => reading.status = "none"
  /\ step \in {"result", "error"} /\ reading.status = "COMPLETED" =>
       stored.status = "COMPLETED" /\ stored.result # "none"
  /\ step \in {"error", "idle"} /\ reading.route = "status"
       /\ reading.status = "COMPLETED" =>
         reading.result # "none" /\ (step = "idle" => ~ reading.error)
  /\ step = "idle" /\ reading.route = "reports" /\ reading.code = "200" =>
       reading.result # "none"
  /\ step = "idle" /\ reading.route = "view" /\ reading.code = "200"
       /\ origin = "ingest" => reading.result = "raw"

ReadInOrder ==
  \A r \in Runs : ReadSoFar(entry[r], kind[r], reader[r], answer[r])

BackendInv == TypeOK /\ PublishedInOrder /\ ReadInOrder

LEMMA BackendInit == Init => BackendInv
<1> SUFFICES ASSUME Init PROVE PublishedInOrder /\ ReadInOrder
  BY TypeInit DEF BackendInv
<1>1. \A stored, origin : ReadSoFar(stored, origin, "idle", NoAnswer)
  BY DEF ReadSoFar, NoAnswer, ReportRoutes
<1> QED  BY <1>1 DEF Init, PublishedInOrder, ReadInOrder, NoEntry

LEMMA RestartKeepsInv ==
  ASSUME BackendInv, Restart
  PROVE  PublishedInOrder' /\ ReadInOrder'
<1>1. \A stored, origin : ReadSoFar(stored, origin, "idle", NoAnswer)
  BY DEF ReadSoFar, NoAnswer, ReportRoutes
<1>2. \A r \in Runs : /\ entry'[r] = NoEntry /\ task'[r] = "none"
                      /\ reader'[r] = "idle" /\ answer'[r] = NoAnswer
  BY DEF Restart
<1>3. ReadInOrder'
  BY <1>1, <1>2 DEF ReadInOrder
<1>4. PublishedInOrder'
  BY <1>2 DEF PublishedInOrder, NoEntry
<1> QED  BY <1>3, <1>4

(* A step of the event loop changes no answer and takes no result away.    *)
LEMMA TaskKeepsInv ==
  ASSUME BackendInv, NEW r \in Runs,
         TaskStep(r) \/ \E route \in Kinds : Submit(r, route)
  PROVE  PublishedInOrder' /\ ReadInOrder'
<1> USE DEF BackendInv, TypeOK, Entries, Statuses, Results, Continue
<1>1. UNCHANGED <<reader, answer>>
  BY DEF TaskStep, Submit, StartTask, GraphEnds, StoreResult, Publish,
         MarkFailed, StoreError
<1>2. \A q \in Runs :
        /\ entry[q].result # "none" => entry'[q].result # "none"
        /\ entry[q].status = "COMPLETED" => entry'[q].status = "COMPLETED"
  <2>1. CASE \E route \in Kinds : Submit(r, route)
    BY <2>1 DEF PublishedInOrder, Submit
  <2>2. CASE StoreResult(r)
    BY <2>2 DEF StoreResult
  <2>3. CASE \/ StartTask(r) \/ GraphEnds(r) \/ Publish(r)
             \/ MarkFailed(r) \/ StoreError(r)
    BY <2>3
       DEF PublishedInOrder, StartTask, GraphEnds, Publish, MarkFailed,
           StoreError
  <2> QED  BY <2>1, <2>2, <2>3 DEF TaskStep
<1>3. \A q \in Runs : kind'[q] = kind[q] \/ kind[q] = "none"
  BY DEF TaskStep, Submit, StartTask, GraphEnds, StoreResult, Publish,
         MarkFailed, StoreError
<1>4. ReadInOrder'
  BY <1>1, <1>2, <1>3 DEF ReadInOrder, ReadSoFar
<1>5. PublishedInOrder'
  <2>1. ASSUME NEW route \in Kinds, Submit(r, route) PROVE PublishedInOrder'
    BY <2>1, KindsAssumption DEF PublishedInOrder, Submit
  <2>2. CASE StartTask(r) \/ GraphEnds(r)
    BY <2>2 DEF PublishedInOrder, StartTask, GraphEnds
  <2>3. CASE StoreResult(r)
    BY <2>3 DEF PublishedInOrder, StoreResult
  <2>4. CASE Publish(r)
    BY <2>4 DEF PublishedInOrder, Publish
  <2>5. CASE MarkFailed(r) \/ StoreError(r)
    BY <2>5 DEF PublishedInOrder, MarkFailed, StoreError
  <2> QED  BY <2>1, <2>2, <2>3, <2>4, <2>5 DEF TaskStep
<1> QED  BY <1>4, <1>5

LEMMA ReaderKeepsInv ==
  ASSUME BackendInv, NEW r \in Runs,
         \/ StatusLookup(r) \/ ReaderStep(r)
         \/ \E route \in ReportRoutes : ReportLookup(r, route)
  PROVE  PublishedInOrder' /\ ReadInOrder'
<1> USE DEF BackendInv, TypeOK, ReadNext
<1>1. UNCHANGED <<kind, entry, task>>
  BY Zenon DEF StatusLookup, ReportLookup, ReaderStep, StatusReadStatus,
         StatusReadResult, StatusReadError, ReportReadResult, ViewReadMarkdown
<1>2. PublishedInOrder'
  BY <1>1 DEF PublishedInOrder
<1>3. ReadInOrder'
  <2> DEFINE stored == entry[r]
             origin == kind[r]
  <2>1. ASSUME NEW step, NEW reading, ReadNext(r, step, reading),
               ReadSoFar(stored, origin, step, reading)
        PROVE  ReadInOrder'
    BY <2>1 DEF ReadInOrder
  <2>2. ReadSoFar(stored, origin, reader[r], answer[r]) /\ answer[r] \in Answers
    BY DEF ReadInOrder
  <2>3. /\ stored.status = "COMPLETED" => stored.result # "none"
        /\ stored.error => stored.status = "FAILED"
        /\ stored.status # "none" => origin # "none"
        /\ origin = "ingest" => stored.result \in {"none", "raw"}
        /\ stored \in Entries
    BY DEF PublishedInOrder
  <2> HIDE DEF ReadNext, stored, origin, BackendInv
  <2> USE DEF ReportRoutes
  <2>4. CASE StatusLookup(r)
    BY <2>1, <2>3, <2>4 DEF StatusLookup, NoAnswer, ReadSoFar, stored
  <2>5. ASSUME NEW route \in ReportRoutes, ReportLookup(r, route)
        PROVE  ReadInOrder'
    <3> DEFINE reading == [NoAnswer EXCEPT !.route = route,
                                           !.status = entry[r].status]
    <3>1. CASE ReadNext(r, route, [reading EXCEPT !.code = "200"]) /\
               entry[r].status = "COMPLETED"
      BY <2>1, <2>3, <3>1 DEF NoAnswer, ReadSoFar, stored
    <3>2. ASSUME NEW code \in {"404", "409"},
                 ReadNext(r, "idle", [reading EXCEPT !.code = code])
          PROVE  ReadInOrder'
      BY <2>1, <3>2 DEF NoAnswer, ReadSoFar
    <3> HIDE DEF reading
    <3>3. \/ ReadNext(r, "idle", [reading EXCEPT !.code = "404"])
          \/ /\ ReadNext(r, route, [reading EXCEPT !.code = "200"])
             /\ entry[r].status = "COMPLETED"
          \/ ReadNext(r, "idle", [reading EXCEPT !.code = "409"])
      BY <2>5, Zenon DEF ReportLookup, reading
    <3> QED  BY <3>1, <3>2, <3>3
  <2>6. CASE StatusReadStatus(r)
    <3>1. ReadSoFar(stored, origin, "result",
                    [answer[r] EXCEPT !.status = stored.status])
      BY <2>2, <2>3, <2>6 DEF StatusReadStatus, ReadSoFar, Answers
    <3> QED  BY <2>1, <2>6, <3>1 DEF StatusReadStatus, stored
  <2>7. CASE StatusReadResult(r)
    <3>1. ReadSoFar(stored, origin, "error",
                    [answer[r] EXCEPT !.result = stored.result])
      BY <2>2, <2>7 DEF StatusReadResult, ReadSoFar, Answers
    <3> QED  BY <2>1, <2>7, <3>1 DEF StatusReadResult, stored
  <2>8. CASE StatusReadError(r)
    <3>1. ReadSoFar(stored, origin, "idle",
                    [answer[r] EXCEPT !.error = stored.error])
      BY <2>2, <2>3, <2>8 DEF StatusReadError, ReadSoFar, Answers
    <3> QED  BY <2>1, <2>8, <3>1 DEF StatusReadError, stored
  <2>9. CASE ReportReadResult(r)
    <3>1. ReadSoFar(stored, origin, "idle",
                    [answer[r] EXCEPT !.result = stored.result])
      BY <2>2, <2>9 DEF ReportReadResult, ReadSoFar, Answers
    <3> QED  BY <2>1, <2>9, <3>1 DEF ReportReadResult, stored
  <2>10. CASE ViewReadMarkdown(r)
    <3>1. ReadSoFar(stored, origin, "idle",
                    [answer[r] EXCEPT !.result = MarkdownOf(stored.result)])
      BY <2>2, <2>3, <2>10 DEF ViewReadMarkdown, MarkdownOf, ReadSoFar, Answers
    <3> QED  BY <2>1, <2>10, <3>1 DEF ViewReadMarkdown, stored
  <2> QED  BY <2>4, <2>5, <2>6, <2>7, <2>8, <2>9, <2>10 DEF ReaderStep
<1> QED  BY <1>2, <1>3

LEMMA BackendNext == BackendInv /\ [Next]_vars => BackendInv'
<1> SUFFICES ASSUME BackendInv, [Next]_vars PROVE BackendInv'  OBVIOUS
<1>1. TypeOK'
  BY TypeNext DEF BackendInv
<1>2. CASE Next
  BY <1>1, <1>2, TaskKeepsInv, ReaderKeepsInv, RestartKeepsInv
     DEF Next, RunNext, BackendInv
<1>3. CASE UNCHANGED vars
  BY <1>1, <1>3 DEF BackendInv, PublishedInOrder, ReadInOrder, vars
<1> QED  BY <1>2, <1>3

(* No report is served too early: GET /reports answers with a result, and  *)
(* GET /report-view of a run from /ingest with its markdown, however the   *)
(* reads are interleaved with the task and whenever the backend restarts.  *)
THEOREM ReportHasBodyHolds == Spec => []ReportHasBody
<1>1. BackendInv => ReportHasBody
  BY DEF BackendInv, ReadInOrder, ReadSoFar, ReportHasBody, Answered
<1> QED  BY <1>1, BackendInit, BackendNext, PTL DEF Spec

(* A status answer COMPLETED carries the result, however its reads are     *)
(* interleaved with the task.                                              *)
THEOREM CompletedCarriesResultHolds == Spec => []CompletedCarriesResult
<1>1. BackendInv => CompletedCarriesResult
  BY DEF BackendInv, ReadInOrder, ReadSoFar, CompletedCarriesResult,
         Answered
<1> QED  BY <1>1, BackendInit, BackendNext, PTL DEF Spec

(* A run that is COMPLETED or FAILED never leaves that status.             *)
THEOREM FinishedStaysFinishedHolds == Spec => FinishedStaysFinished
<1>1. BackendInv /\ [Next]_vars =>
        [\A r \in Runs : entry[r].status \in {"COMPLETED", "FAILED"}
           => \/ entry'[r].status = entry[r].status
              \/ \A q \in Runs : entry'[q] = NoEntry]_vars
  <2> SUFFICES ASSUME BackendInv, NEW r \in Runs, RunNext(r), NEW q \in Runs,
                      entry[q].status \in {"COMPLETED", "FAILED"}
               PROVE  entry'[q].status = entry[q].status
    BY DEF Next, Restart
  <2> USE DEF BackendInv, TypeOK, Entries
  <2>1. \/ \E route \in Kinds : Submit(r, route)
        \/ TaskStep(r)
        \/ StatusLookup(r) \/ ReaderStep(r)
        \/ \E route \in ReportRoutes : ReportLookup(r, route)
    BY DEF RunNext
  <2>2. CASE TaskStep(r) \/ \E route \in Kinds : Submit(r, route)
    BY <2>2
       DEF PublishedInOrder, NoEntry, TaskStep, Submit, StartTask,
           GraphEnds, StoreResult, Publish, MarkFailed, StoreError
  <2>3. CASE \/ StatusLookup(r) \/ ReaderStep(r)
             \/ \E route \in ReportRoutes : ReportLookup(r, route)
    BY <2>3, Zenon
       DEF StatusLookup, ReportLookup, ReaderStep, StatusReadStatus,
           StatusReadResult, StatusReadError, ReportReadResult,
           ViewReadMarkdown, ReadNext
  <2> QED  BY <2>1, <2>2, <2>3
<1> QED
  BY <1>1, BackendInit, BackendNext, PTL DEF Spec, FinishedStaysFinished

=============================================================================
