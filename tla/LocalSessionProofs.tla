------------------------- MODULE LocalSessionProofs -------------------------
(***************************************************************************)
(* Proofs about the dashboard against the local backend, for any number of *)
(* runs, retries and reloads.                                              *)
(***************************************************************************)
EXTENDS LocalSession, LocalBackendProofs

(* A session does nothing to the backend that the backend cannot do.       *)
LEMMA SessionStepIsBackendStep ==
  ASSUME [SessionNext]_sessionVars
  PROVE  [Next]_vars
<1>1. ASSUME NEW r \in Runs, SessionRunNext(r) PROVE [Next]_vars
  <2>1. CASE \E route \in Kinds : Submission(r, route)
    BY <2>1 DEF Submission, Next, RunNext
  <2>2. CASE BackendStep(r) \/ OtherRequest(r) \/ Serve(r)
    BY <2>2 DEF BackendStep, OtherRequest, Serve, Next, RunNext
  <2>3. CASE OpenDashboard(r) \/ Tab(r) \/ Receive(r) \/ Lose(r)
    BY <2>3 DEF OpenDashboard, Tab, Receive, Lose
  <2> QED  BY <1>1, <2>1, <2>2, <2>3 DEF SessionRunNext
<1>2. CASE BackendRestart
  BY <1>2 DEF BackendRestart, Next
<1>3. CASE UNCHANGED sessionVars
  BY <1>3 DEF sessionVars, vars
<1> QED  BY <1>1, <1>2, <1>3 DEF SessionNext

(* One place of a function gets a value of its range.                      *)
LEMMA UpdateKeepsRange ==
  ASSUME NEW S, NEW T, NEW f \in [S -> T], NEW x \in S, NEW v \in T
  PROVE  [f EXCEPT ![x] = v] \in [S -> T]
OBVIOUS

(* What each kind of step does to the variables of the poller.             *)
PollerChange(r) ==
  /\ \/ UNCHANGED shown
     \/ \E s \in Shown : shown' = [shown EXCEPT ![r] = s]
  /\ \/ UNCHANGED error
     \/ \E e \in BOOLEAN : error' = [error EXCEPT ![r] = e]
  /\ \/ UNCHANGED fetch
     \/ \E f \in {"idle", "requested", "served", "backoff"} :
          fetch' = [fetch EXCEPT ![r] = f]
  /\ \/ UNCHANGED failures
     \/ \E n \in 0 .. MaxRetries : failures' = [failures EXCEPT ![r] = n]
  /\ \/ UNCHANGED visible
     \/ \E v \in BOOLEAN : visible' = [visible EXCEPT ![r] = v]
  /\ \/ UNCHANGED reloads
     \/ \E n \in 0 .. MaxReloads : reloads' = [reloads EXCEPT ![r] = n]

LEMMA PollerChangeKeepsType ==
  ASSUME PollerTypeOK, NEW r \in Runs, PollerChange(r)
  PROVE  PollerTypeOK'
<1>1. shown' \in [Runs -> Shown] /\ error' \in [Runs -> BOOLEAN]
  BY UpdateKeepsRange DEF PollerChange, PollerTypeOK
<1>2. fetch' \in [Runs -> {"off", "idle", "requested", "served", "backoff"}]
  BY UpdateKeepsRange DEF PollerChange, PollerTypeOK
<1>3. failures' \in [Runs -> 0 .. MaxRetries]
  BY UpdateKeepsRange DEF PollerChange, PollerTypeOK
<1>4. visible' \in [Runs -> BOOLEAN] /\ reloads' \in [Runs -> 0 .. MaxReloads]
  BY UpdateKeepsRange DEF PollerChange, PollerTypeOK
<1> QED  BY <1>1, <1>2, <1>3, <1>4 DEF PollerTypeOK

LEMMA PollerTypeNext ==
  ASSUME SessionTypeOK, [SessionNext]_sessionVars
  PROVE  PollerTypeOK'
<1> USE RetriesAssumption, ReloadsAssumption DEF SessionTypeOK, PollerTypeOK
<1>1. CASE UNCHANGED pollerVars
  BY <1>1 DEF pollerVars
<1>2. ASSUME NEW r \in Runs, FetchFails(r) PROVE PollerChange(r)
  <2>1. failures[r] < MaxRetries => failures[r] + 1 \in 0 .. MaxRetries
    OBVIOUS
  <2> QED  BY <1>2, <2>1 DEF FetchFails, PollerChange
<1>3. ASSUME NEW r \in Runs, StartFetch(r), UNCHANGED <<shown, reloads>>,
             \/ UNCHANGED visible
             \/ visible' = [visible EXCEPT ![r] = TRUE]
      PROVE  PollerChange(r)
  <2>1. (error[r] /\ shown[r] # "none") \in BOOLEAN /\ 0 \in 0 .. MaxRetries
    OBVIOUS
  <2> QED  BY <1>3, <2>1 DEF StartFetch, PollerChange
<1>4. ASSUME NEW r \in Runs, OpenDashboard(r) \/ Tab(r) PROVE PollerChange(r)
  <2>1. CASE Reload(r)
    <3>1. reloads[r] + 1 \in 0 .. MaxReloads /\ 0 \in 0 .. MaxRetries
      BY <2>1 DEF Reload
    <3>2. "none" \in Shown
      BY DEF Shown
    <3> QED  BY <2>1, <3>1, <3>2 DEF Reload, PollerChange
  <2>2. CASE Retry(r) \/ Hide(r)
    <3>1. FALSE \in BOOLEAN
      OBVIOUS
    <3> QED  BY <2>2, <3>1 DEF Retry, Hide, PollerChange
  <2>3. CASE Open(r) \/ IntervalFetch(r)
    BY <1>3, <2>3 DEF Open, IntervalFetch
  <2>4. CASE Focus(r)
    <3>1. CASE StartFetch(r)
      BY <1>3, <2>4, <3>1 DEF Focus
    <3>2. CASE UNCHANGED <<fetch, failures, error>>
      BY <2>4, <3>2 DEF Focus, PollerChange
    <3> QED  BY <2>4, <3>1, <3>2 DEF Focus
  <2> QED  BY <1>4, <2>1, <2>2, <2>3, <2>4 DEF OpenDashboard, Tab, TabStep
<1>5. ASSUME NEW r \in Runs, Serve(r) PROVE PollerChange(r)
  BY <1>5 DEF Serve, PollerChange
<1>6. ASSUME NEW r \in Runs, Receive(r) PROVE PollerChange(r)
  <2> DEFINE s == StatusOf(answer[r].status)
  <2>1. s \in Shown
    <3>1. answer[r] \in Answers
      BY DEF TypeOK
    <3> QED  BY <3>1 DEF StatusOf, Answers, Statuses, Shown
  <2>2. CASE FetchSucceeds(r, answer[r].status)
    <3>1. /\ shown' = [shown EXCEPT ![r] = s]
          /\ error' = [error EXCEPT ![r] = FALSE]
          /\ failures' = [failures EXCEPT ![r] = 0]
          /\ fetch' = [fetch EXCEPT ![r] = "idle"]
          /\ UNCHANGED <<visible, reloads>>
      BY <2>2 DEF FetchSucceeds, s
    <3>2. s \in Shown /\ FALSE \in BOOLEAN /\ 0 \in 0 .. MaxRetries
      BY <2>1
    <3> HIDE DEF s
    <3> QED  BY <3>1, <3>2 DEF PollerChange
  <2> QED  BY <1>2, <1>6, <2>2 DEF Receive
<1>7. ASSUME NEW r \in Runs, Lose(r) PROVE PollerChange(r)
  BY <1>2, <1>7 DEF Lose
<1> HIDE DEF PollerTypeOK
<1>8. \/ UNCHANGED pollerVars
      \/ \E r \in Runs : PollerChange(r)
  BY <1>4, <1>5, <1>6, <1>7
     DEF SessionNext, SessionRunNext, Submission, BackendStep, OtherRequest,
         BackendRestart, sessionVars
<1> QED  BY <1>1, <1>8, PollerChangeKeepsType

-----------------------------------------------------------------------------
(*                         The inductive invariant                         *)

(* Only submitted runs are opened, and a submitted run that is not in the  *)
(* dict was lost.                                                          *)
OpenedWasSubmitted ==
  \A r \in Runs : kind[r] = "none" => fetch[r] = "off" /\ shown[r] = "none"

(* What a tab shows is behind what the run has got to, unless it was lost. *)
ScreenBehindRun ==
  \A r \in Runs : Lost(r) \/ MayBecome(shown[r], entry[r].status)

(* What the request of the tab has read so far lies between what the tab   *)
(* shows and what the entry says; a lost run is not answered with 200.     *)
AnswerInBetween ==
  \A r \in Runs : fetch[r] = "served" /\ answer[r].code = "200" =>
    /\ ~ Lost(r)
    /\ answer[r].route = "status"
    /\ reader[r] \in {"status", "result", "error", "idle"}
    /\ reader[r] # "status" =>
         /\ answer[r].status # "none"
         /\ MayBecome(shown[r], answer[r].status)
         /\ MayBecome(answer[r].status, entry[r].status)

(* The step a task is at fixes the status of its run.                      *)
TaskAndStatus ==
  \A r \in Runs :
    /\ kind[r] = "none" => task[r] = "none"
    /\ task[r] = "none" => entry[r].status = "none"
    /\ task[r] = "start" => entry[r].status = "QUEUED"
    /\ task[r] \in {"graph", "store", "publish", "fail"} =>
         entry[r].status = "PROCESSING"
    /\ task[r] = "explain" => entry[r].status = "FAILED"
    /\ task[r] = "done" => entry[r].status \in Final

SessionInv ==
  /\ SessionTypeOK
  /\ BackendInv
  /\ TaskAndStatus
  /\ OpenedWasSubmitted
  /\ ScreenBehindRun
  /\ AnswerInBetween

LEMMA SessionInitially == SessionInit => SessionInv
<1> SUFFICES ASSUME SessionInit PROVE SessionInv  OBVIOUS
<1>1. TypeOK /\ BackendInv
  BY BackendInit DEF SessionInit, BackendInv
<1>2. PollerTypeOK
  BY RetriesAssumption, ReloadsAssumption
     DEF SessionInit, PollerInit, PollerTypeOK, Shown
<1>3. OpenedWasSubmitted /\ ScreenBehindRun /\ AnswerInBetween
  BY DEF SessionInit, Init, PollerInit, OpenedWasSubmitted,
         ScreenBehindRun, MayBecome, AnswerInBetween
<1>4. TaskAndStatus
  BY DEF SessionInit, Init, NoEntry, TaskAndStatus
<1> QED  BY <1>1, <1>2, <1>3, <1>4 DEF SessionInv, SessionTypeOK

(* A step of the task takes its run on, to a status that may follow.       *)
LEMMA EntryGetsOn ==
  ASSUME TypeOK, TaskAndStatus, NEW r \in Runs, TaskStep(r)
  PROVE  /\ TaskAndStatus'
         /\ \A q \in Runs :
              /\ MayBecome(entry[q].status, entry'[q].status)
              /\ entry'[q].status = "none" <=> entry[q].status = "none"
         /\ UNCHANGED <<kind, reader, answer>>
<1> USE DEF TypeOK, Entries, Statuses, Results, Continue, TaskAndStatus,
        MayBecome, Final
<1>1. CASE StartTask(r)
  BY <1>1 DEF StartTask
<1>2. CASE GraphEnds(r)
  BY <1>2 DEF GraphEnds
<1>3. CASE StoreResult(r)
  <2>1. \A q \in Runs : entry'[q].status = entry[q].status
    <3>1. ASSUME NEW x, entry' = [entry EXCEPT ![r].result = x], NEW q \in Runs
          PROVE  entry'[q].status = entry[q].status
      BY <3>1
    <3> QED  BY <1>3, <3>1 DEF StoreResult
  <2>2. \/ Continue(r, "publish") \/ Continue(r, "fail")
    BY <1>3 DEF StoreResult
  <2>3. task[r] = "store"
    BY <1>3 DEF StoreResult
  <2> HIDE DEF Entries, Results
  <2> QED  BY <2>1, <2>2, <2>3
<1>4. CASE Publish(r)
  BY <1>4 DEF Publish
<1>5. CASE MarkFailed(r)
  BY <1>5 DEF MarkFailed
<1>6. CASE StoreError(r)
  BY <1>6 DEF StoreError
<1> QED  BY <1>1, <1>2, <1>3, <1>4, <1>5, <1>6 DEF TaskStep

LEMMA MayBecomeTransitive ==
  ASSUME NEW s \in Statuses, NEW t \in Statuses, NEW u \in Statuses,
         MayBecome(s, t), MayBecome(t, u)
  PROVE  MayBecome(s, u)
BY DEF MayBecome, Statuses, Final

(* The steps of a session, by what they change.                            *)
LEMMA BackendStepKeepsInv ==
  ASSUME SessionInv, NEW r \in Runs, TaskStep(r), UNCHANGED pollerVars
  PROVE  /\ TaskAndStatus' /\ OpenedWasSubmitted'
         /\ ScreenBehindRun' /\ AnswerInBetween'
<1> USE DEF SessionInv, SessionTypeOK
<1>1. /\ TaskAndStatus'
      /\ \A q \in Runs :
           /\ MayBecome(entry[q].status, entry'[q].status)
           /\ entry'[q].status = "none" <=> entry[q].status = "none"
      /\ UNCHANGED <<kind, reader, answer>>
  BY EntryGetsOn
<1>2. UNCHANGED <<shown, fetch>>
  BY DEF pollerVars
<1>3. \A q \in Runs :
        /\ entry[q].status \in Statuses /\ entry'[q].status \in Statuses
        /\ shown[q] \in Statuses
        /\ answer[q].status \in Statuses
  <2>1. TypeOK'
    BY TypeTask
  <2>2. \A q \in Runs : entry[q] \in Entries /\ entry'[q] \in Entries
                       /\ answer[q] \in Answers
    BY <2>1 DEF TypeOK
  <2>3. \A q \in Runs : shown[q] \in Statuses
    BY DEF PollerTypeOK, Shown, Statuses
  <2> QED  BY <2>2, <2>3 DEF Entries, Answers
<1> HIDE DEF SessionInv
<1>4. OpenedWasSubmitted'
  BY <1>1, <1>2 DEF OpenedWasSubmitted, SessionInv
<1>5. ScreenBehindRun'
  BY <1>1, <1>2, <1>3, MayBecomeTransitive
     DEF ScreenBehindRun, Lost, SessionInv
<1>6. AnswerInBetween'
  BY <1>1, <1>2, <1>3, MayBecomeTransitive
     DEF AnswerInBetween, Lost, SessionInv
<1> QED  BY <1>1, <1>4, <1>5, <1>6

LEMMA SubmissionKeepsInv ==
  ASSUME SessionInv, NEW r \in Runs, NEW route \in Kinds,
         Submission(r, route)
  PROVE  /\ TaskAndStatus' /\ OpenedWasSubmitted'
         /\ ScreenBehindRun' /\ AnswerInBetween'
<1> USE DEF SessionInv, SessionTypeOK, TypeOK, Submission, Submit, pollerVars
<1>1. /\ \A q \in Runs \ {r} : /\ entry'[q] = entry[q] /\ kind'[q] = kind[q]
                              /\ task'[q] = task[q]
      /\ kind[r] = "none" /\ kind'[r] # "none"
      /\ task'[r] = "start" /\ entry'[r].status = "QUEUED"
      /\ UNCHANGED <<reader, answer, fetch, shown>>
  BY KindsAssumption DEF Entries
<1>2. fetch[r] = "off" /\ shown[r] = "none"
  BY <1>1 DEF OpenedWasSubmitted
<1> HIDE DEF Submission, Submit, TypeOK, pollerVars
<1> QED
  BY <1>1, <1>2
     DEF TaskAndStatus, OpenedWasSubmitted, ScreenBehindRun, MayBecome,
         Lost, AnswerInBetween

(* What is left of a request, if it belongs to a tab.                      *)
LEMMA ReaderStepKeepsInv ==
  ASSUME SessionInv, NEW r \in Runs, ReaderStep(r), UNCHANGED pollerVars
  PROVE  /\ TaskAndStatus' /\ OpenedWasSubmitted'
         /\ ScreenBehindRun' /\ AnswerInBetween'
<1> USE DEF SessionInv, SessionTypeOK
<1>1. UNCHANGED <<kind, entry, task, shown, fetch>>
  BY Zenon DEF ReaderStep, StatusReadStatus, StatusReadResult, StatusReadError,
         ReportReadResult, ViewReadMarkdown, ReadNext, pollerVars
<1>2. /\ \A q \in Runs \ {r} : answer'[q] = answer[q] /\ reader'[q] = reader[q]
      /\ answer'[r].code = answer[r].code /\ answer'[r].route = answer[r].route
      /\ \/ /\ reader[r] = "status" /\ reader'[r] = "result"
            /\ answer'[r].status = entry[r].status
         \/ /\ reader[r] # "status" /\ reader'[r] \in {"error", "idle"}
            /\ answer'[r].status = answer[r].status
  <2>1. answer[r] \in Answers
    BY DEF TypeOK
  <2> DEFINE Same(x) == x.code = answer[r].code /\ x.route = answer[r].route
  <2>2. \A v : /\ Same([answer[r] EXCEPT !.status = v])
                /\ [answer[r] EXCEPT !.status = v].status = v
                /\ Same([answer[r] EXCEPT !.result = v])
                /\ [answer[r] EXCEPT !.result = v].status = answer[r].status
                /\ Same([answer[r] EXCEPT !.error = v])
                /\ [answer[r] EXCEPT !.error = v].status = answer[r].status
    BY <2>1 DEF Answers
  <2>3. CASE StatusReadStatus(r)
    <3>1. /\ answer' = [answer EXCEPT ![r] =
                          [answer[r] EXCEPT !.status = entry[r].status]]
          /\ reader' = [reader EXCEPT ![r] = "result"]
          /\ reader[r] = "status"
      BY <2>3 DEF StatusReadStatus, ReadNext
    <3> QED  BY <2>2, <3>1 DEF TypeOK
  <2>4. CASE StatusReadResult(r)
    <3>1. /\ answer' = [answer EXCEPT ![r] =
                          [answer[r] EXCEPT !.result = entry[r].result]]
          /\ reader' = [reader EXCEPT ![r] = "error"]
          /\ reader[r] = "result"
      BY <2>4 DEF StatusReadResult, ReadNext
    <3> QED  BY <2>2, <3>1 DEF TypeOK
  <2>5. CASE StatusReadError(r)
    <3>1. /\ answer' = [answer EXCEPT ![r] =
                          [answer[r] EXCEPT !.error = entry[r].error]]
          /\ reader' = [reader EXCEPT ![r] = "idle"]
          /\ reader[r] = "error"
      BY <2>5 DEF StatusReadError, ReadNext
    <3> QED  BY <2>2, <3>1 DEF TypeOK
  <2>6. CASE ReportReadResult(r)
    <3>1. /\ answer' = [answer EXCEPT ![r] =
                          [answer[r] EXCEPT !.result = entry[r].result]]
          /\ reader' = [reader EXCEPT ![r] = "idle"]
          /\ reader[r] = "reports"
      BY <2>6 DEF ReportReadResult, ReadNext
    <3> QED  BY <2>2, <3>1 DEF TypeOK
  <2>7. CASE ViewReadMarkdown(r)
    <3> DEFINE body == MarkdownOf(entry[r].result)
    <3>1. /\ answer' = [answer EXCEPT ![r] =
                          [answer[r] EXCEPT !.result = body]]
          /\ reader' = [reader EXCEPT ![r] = "idle"]
          /\ reader[r] = "view"
      BY <2>7 DEF ViewReadMarkdown, ReadNext
    <3> HIDE DEF body
    <3> QED  BY <2>2, <3>1 DEF TypeOK
  <2> QED  BY <2>3, <2>4, <2>5, <2>6, <2>7 DEF ReaderStep
<1>3. \A q \in Runs : kind[q] = "none" => fetch[q] = "off"
  BY DEF OpenedWasSubmitted
<1>4. MayBecome(entry[r].status, entry[r].status)
  BY DEF MayBecome
<1>5. AnswerInBetween'
  BY <1>1, <1>2, <1>3, <1>4 DEF AnswerInBetween, Lost, ScreenBehindRun
<1> QED
  BY <1>1, <1>5
     DEF TaskAndStatus, OpenedWasSubmitted, ScreenBehindRun, Lost

(* A tab without a request in the backend may change anything but what it  *)
(* shows, or load the page again, which clears it.                         *)
LEMMA TabKeepsInv ==
  ASSUME SessionInv, NEW r \in Runs, UNCHANGED vars,
         \A q \in Runs : kind[q] = "none" => fetch'[q] = fetch[q],
         \A q \in Runs : fetch'[q] = "served" => fetch[q] = "served",
         \A q \in Runs : shown'[q] = shown[q] \/ shown'[q] = "none"
  PROVE  /\ TaskAndStatus' /\ OpenedWasSubmitted'
         /\ ScreenBehindRun' /\ AnswerInBetween'
<1>1. UNCHANGED <<kind, entry, task, reader, answer>>
  BY DEF vars
<1>2. TaskAndStatus' /\ OpenedWasSubmitted'
  BY <1>1 DEF SessionInv, TaskAndStatus, OpenedWasSubmitted
<1>3. ScreenBehindRun'
  BY <1>1 DEF SessionInv, ScreenBehindRun, Lost, MayBecome
<1>4. AnswerInBetween'
  BY <1>1 DEF SessionInv, AnswerInBetween, Lost, MayBecome
<1> QED  BY <1>2, <1>3, <1>4

LEMMA TabStepKeepsInv ==
  ASSUME SessionInv, NEW r \in Runs,
         OpenDashboard(r) \/ Tab(r) \/ Lose(r)
           \/ (Receive(r) /\ answer[r].code # "200")
  PROVE  /\ TaskAndStatus' /\ OpenedWasSubmitted'
         /\ ScreenBehindRun' /\ AnswerInBetween'
<1>1. /\ UNCHANGED vars
      /\ \A q \in Runs : shown'[q] = shown[q] \/ shown'[q] = "none"
      /\ \/ UNCHANGED fetch
         \/ /\ kind[r] # "none"
            /\ \E f \in {"requested", "backoff", "idle"} :
                 fetch' = [fetch EXCEPT ![r] = f]
  <2> USE DEF SessionInv, SessionTypeOK, PollerTypeOK
  <2>1. CASE OpenDashboard(r)
    BY <2>1 DEF OpenDashboard, Open, StartFetch
  <2>2. CASE Tab(r)
    BY <2>2 DEF Tab, TabStep, IntervalFetch, Retry, Hide, Focus, Reload,
                StartFetch, OpenedWasSubmitted
  <2>3. CASE Lose(r) \/ (Receive(r) /\ answer[r].code # "200")
    BY <2>3 DEF Lose, Receive, FetchFails, OpenedWasSubmitted
  <2> QED  BY <2>1, <2>2, <2>3
<1> QED  BY <1>1, TabKeepsInv DEF SessionInv, SessionTypeOK, PollerTypeOK

LEMMA OtherRequestKeepsInv ==
  ASSUME SessionInv, NEW r \in Runs, OtherRequest(r)
  PROVE  /\ TaskAndStatus' /\ OpenedWasSubmitted'
         /\ ScreenBehindRun' /\ AnswerInBetween'
<1>1. UNCHANGED <<kind, entry, task, shown, fetch>>
  BY Zenon DEF OtherRequest, StatusLookup, ReportLookup, ReadNext, pollerVars
<1>2. /\ fetch[r] # "served"
      /\ \A q \in Runs \ {r} : answer'[q] = answer[q] /\ reader'[q] = reader[q]
  <2>1. /\ fetch[r] # "served"
        /\ \E step, reading : /\ answer' = [answer EXCEPT ![r] = reading]
                             /\ reader' = [reader EXCEPT ![r] = step]
    BY Zenon DEF OtherRequest, StatusLookup, ReportLookup, ReadNext
  <2> QED  BY <2>1 DEF SessionInv, SessionTypeOK, TypeOK
<1> QED
  BY <1>1, <1>2
     DEF SessionInv, TaskAndStatus, OpenedWasSubmitted, ScreenBehindRun,
         AnswerInBetween, Lost

LEMMA ServeKeepsInv ==
  ASSUME SessionInv, NEW r \in Runs, Serve(r)
  PROVE  /\ TaskAndStatus' /\ OpenedWasSubmitted'
         /\ ScreenBehindRun' /\ AnswerInBetween'
<1> USE DEF SessionInv, SessionTypeOK, TypeOK, PollerTypeOK
<1>1. /\ UNCHANGED <<kind, entry, task, shown>>
      /\ fetch[r] = "requested"
      /\ fetch' = [fetch EXCEPT ![r] = "served"]
  BY DEF Serve, StatusLookup, ReadNext
<1>2. \/ /\ answer' = [answer EXCEPT ![r] =
              [NoAnswer EXCEPT !.route = "status", !.code = "404"]]
         /\ reader' = [reader EXCEPT ![r] = "idle"]
      \/ /\ answer' = [answer EXCEPT ![r] =
              [NoAnswer EXCEPT !.route = "status", !.code = "200",
                               !.first = entry[r].result]]
         /\ reader' = [reader EXCEPT ![r] = "status"]
         /\ entry[r].status # "none"
  BY DEF Serve, StatusLookup, ReadNext
<1>3. /\ \A q \in Runs \ {r} : answer'[q] = answer[q] /\ reader'[q] = reader[q]
      /\ answer'[r].route = "status"
      /\ answer'[r].code = "200" =>
           reader'[r] = "status" /\ entry[r].status # "none"
  <2> DEFINE refusal == [NoAnswer EXCEPT !.route = "status", !.code = "404"]
             promise == [NoAnswer EXCEPT !.route = "status", !.code = "200",
                                         !.first = entry[r].result]
  <2>1. /\ refusal.route = "status" /\ refusal.code = "404"
        /\ promise.route = "status"
    BY DEF NoAnswer
  <2> HIDE DEF refusal, promise
  <2>2. \/ /\ answer' = [answer EXCEPT ![r] = refusal]
           /\ reader' = [reader EXCEPT ![r] = "idle"]
        \/ /\ answer' = [answer EXCEPT ![r] = promise]
           /\ reader' = [reader EXCEPT ![r] = "status"]
           /\ entry[r].status # "none"
    BY <1>2 DEF refusal, promise
  <2> QED  BY <2>1, <2>2
<1>4. AnswerInBetween'
  BY <1>1, <1>3 DEF AnswerInBetween, Lost
<1> QED
  BY <1>1, <1>4
     DEF TaskAndStatus, OpenedWasSubmitted, ScreenBehindRun, Lost

(* What a tab is answered takes its screen on.                             *)
LEMMA AnswerTakesScreenOn ==
  ASSUME SessionInv, NEW r \in Runs, Receive(r), answer[r].code = "200"
  PROVE  /\ shown' = [shown EXCEPT ![r] = answer[r].status]
         /\ fetch' = [fetch EXCEPT ![r] = "idle"]
         /\ UNCHANGED vars
         /\ kind[r] # "none"
         /\ MayBecome(shown[r], answer[r].status)
         /\ MayBecome(answer[r].status, entry[r].status)
<1>1. /\ fetch[r] = "served" /\ reader[r] = "idle"
      /\ FetchSucceeds(r, answer[r].status) /\ UNCHANGED vars
  BY DEF Receive
<1>2. /\ answer[r].status # "none"
      /\ MayBecome(shown[r], answer[r].status)
      /\ MayBecome(answer[r].status, entry[r].status)
  BY <1>1 DEF SessionInv, AnswerInBetween
<1>3. kind[r] # "none"
  BY <1>1 DEF SessionInv, OpenedWasSubmitted
<1> QED  BY <1>1, <1>2, <1>3 DEF FetchSucceeds, StatusOf

LEMMA AnswerKeepsInv ==
  ASSUME SessionInv, NEW r \in Runs, Receive(r), answer[r].code = "200"
  PROVE  /\ TaskAndStatus' /\ OpenedWasSubmitted'
         /\ ScreenBehindRun' /\ AnswerInBetween'
<1>1. /\ \A q \in Runs \ {r} : shown'[q] = shown[q] /\ fetch'[q] = fetch[q]
      /\ shown'[r] = answer[r].status /\ fetch'[r] = "idle"
      /\ kind[r] # "none"
      /\ UNCHANGED <<kind, entry, task, reader, answer>>
      /\ MayBecome(answer[r].status, entry[r].status)
  BY AnswerTakesScreenOn DEF SessionInv, SessionTypeOK, PollerTypeOK, vars
<1> QED
  BY <1>1
     DEF SessionInv, TaskAndStatus, OpenedWasSubmitted, ScreenBehindRun,
         AnswerInBetween, Lost

LEMMA RestartKeepsSessionInv ==
  ASSUME SessionInv, BackendRestart
  PROVE  /\ TaskAndStatus' /\ OpenedWasSubmitted'
         /\ ScreenBehindRun' /\ AnswerInBetween'
<1>1. /\ UNCHANGED <<kind, shown, fetch>>
      /\ \A r \in Runs : /\ entry'[r].status = "none" /\ task'[r] = "none"
                        /\ answer'[r].code = ""
  BY DEF BackendRestart, Restart, NoEntry, NoAnswer, pollerVars
<1>2. \A r \in Runs : kind[r] = "none" => shown[r] = "none"
  BY DEF SessionInv, OpenedWasSubmitted
<1> QED
  BY <1>1, <1>2
     DEF SessionInv, TaskAndStatus, OpenedWasSubmitted, ScreenBehindRun,
         AnswerInBetween, Lost, MayBecome

LEMMA SessionInvNext == SessionInv /\ [SessionNext]_sessionVars => SessionInv'
<1> SUFFICES ASSUME SessionInv, [SessionNext]_sessionVars PROVE SessionInv'
  OBVIOUS
<1>1. BackendInv' /\ SessionTypeOK'
  BY SessionStepIsBackendStep, BackendNext, PollerTypeNext
     DEF SessionInv, SessionTypeOK, BackendInv
<1>2. ASSUME NEW r \in Runs, SessionRunNext(r)
      PROVE  /\ TaskAndStatus' /\ OpenedWasSubmitted'
             /\ ScreenBehindRun' /\ AnswerInBetween'
  BY <1>2, BackendStepKeepsInv, ReaderStepKeepsInv, SubmissionKeepsInv,
     TabStepKeepsInv, OtherRequestKeepsInv, ServeKeepsInv, AnswerKeepsInv
     DEF SessionRunNext, BackendStep
<1>3. CASE UNCHANGED sessionVars
  BY <1>1, <1>3
     DEF SessionInv, sessionVars, vars, pollerVars, TaskAndStatus,
         OpenedWasSubmitted, ScreenBehindRun, AnswerInBetween, Lost
<1> QED
  BY <1>1, <1>2, <1>3, RestartKeepsSessionInv DEF SessionNext, SessionInv

-----------------------------------------------------------------------------
(* Every variable of the session keeps its type.                           *)
THEOREM SessionTypeCorrect == SessionSpec => []SessionTypeOK
<1>1. SessionInv => SessionTypeOK
  BY DEF SessionInv
<1> QED  BY <1>1, SessionInitially, SessionInvNext, PTL DEF SessionSpec

(* What changes a screen is an answer with code 200 or a page loaded again. *)
LEMMA ScreenChange ==
  ASSUME SessionInv, SessionNext, NEW q \in Runs, shown'[q] # shown[q]
  PROVE  \/ shown'[q] = "none" /\ Reload(q)
         \/ Receive(q) /\ answer[q].code = "200"
<1>1. ASSUME NEW r \in Runs, SessionRunNext(r)
      PROVE  \/ UNCHANGED shown
             \/ Reload(r)
             \/ Receive(r) /\ answer[r].code = "200"
  BY <1>1
     DEF SessionRunNext, Submission, BackendStep, OtherRequest,
         OpenDashboard, Open, Tab, TabStep, IntervalFetch, Retry, Hide,
         Focus, Serve, Receive, Lose, FetchFails, pollerVars
<1>2. PICK r \in Runs : Reload(r) \/ (Receive(r) /\ answer[r].code = "200")
  BY <1>1 DEF SessionNext, BackendRestart, pollerVars
<1>3. shown \in [Runs -> Shown]
  BY DEF SessionInv, SessionTypeOK, PollerTypeOK
<1>4. CASE Reload(r)
  BY <1>3, <1>4 DEF Reload
<1>5. CASE Receive(r) /\ answer[r].code = "200"
  BY <1>3, <1>5, AnswerTakesScreenOn
<1> QED  BY <1>2, <1>4, <1>5

(* No tab comes to show a status the run has not got to, in particular no  *)
(* report of a run that did not complete or was lost.                      *)
THEOREM ScreenNeverRunsAheadHolds == SessionSpec => ScreenNeverRunsAhead
<1>1. SessionInv /\ [SessionNext]_sessionVars =>
        [\A r \in Runs : \/ shown'[r] \in {shown[r], "none"}
                         \/ MayBecome(shown'[r], entry[r].status)]_sessionVars
  <2> SUFFICES ASSUME SessionInv, SessionNext, NEW q \in Runs,
                      shown'[q] # shown[q], shown'[q] # "none"
               PROVE  MayBecome(shown'[q], entry[q].status)
    OBVIOUS
  <2>1. Receive(q) /\ answer[q].code = "200"
    BY ScreenChange
  <2> QED
    BY <2>1, AnswerTakesScreenOn DEF SessionInv, SessionTypeOK, PollerTypeOK
<1> QED
  BY <1>1, SessionInitially, SessionInvNext, PTL
     DEF SessionSpec, ScreenNeverRunsAhead

(* No answer takes a screen back, whatever requests were lost before it.   *)
THEOREM ScreenNeverFallsBackHolds == SessionSpec => ScreenNeverFallsBack
<1>1. SessionInv /\ [SessionNext]_sessionVars =>
        [\A r \in Runs : reloads'[r] = reloads[r] =>
           MayBecome(shown[r], shown'[r])]_sessionVars
  <2> SUFFICES ASSUME SessionInv, SessionNext, NEW q \in Runs,
                      reloads'[q] = reloads[q]
               PROVE  MayBecome(shown[q], shown'[q])
    OBVIOUS
  <2>1. CASE shown'[q] = shown[q]
    BY <2>1 DEF MayBecome
  <2>2. CASE Reload(q)
    BY <2>2 DEF Reload, SessionInv, SessionTypeOK, PollerTypeOK
  <2>3. CASE Receive(q) /\ answer[q].code = "200"
    BY <2>3, AnswerTakesScreenOn DEF SessionInv, SessionTypeOK, PollerTypeOK
  <2> QED
    BY <2>1, <2>2, <2>3, ScreenChange
<1> QED
  BY <1>1, SessionInitially, SessionInvNext, PTL
     DEF SessionSpec, ScreenNeverFallsBack

(* What holds of the backend by itself holds of it in a session: no report *)
(* is served before its result is stored, and a status answer COMPLETED    *)
(* carries the result and no error.                                        *)
THEOREM SessionKeepsBackendPromises ==
  SessionSpec => [](ReportHasBody /\ CompletedCarriesResult)
<1>1. SessionInv => ReportHasBody /\ CompletedCarriesResult
  BY DEF SessionInv, BackendInv, ReadInOrder, ReadSoFar, ReportHasBody,
         CompletedCarriesResult, Answered
<1> QED  BY <1>1, SessionInitially, SessionInvNext, PTL DEF SessionSpec

=============================================================================
