---------------------------- MODULE LocalSession ----------------------------
(***************************************************************************)
(* The dashboard against the local backend: runs are submitted, executed,  *)
(* polled and shown while requests get lost, tabs are hidden or loaded     *)
(* again, the backend restarts and other clients send requests too.        *)
(***************************************************************************)
EXTENDS LocalBackend, StatusPoller

sessionVars == <<vars, pollerVars>>

SessionTypeOK == TypeOK /\ PollerTypeOK

SessionInit == Init /\ PollerInit

-----------------------------------------------------------------------------
BackendStep(r) == (TaskStep(r) \/ ReaderStep(r)) /\ UNCHANGED pollerVars

Submission(r, route) == Submit(r, route) /\ UNCHANGED pollerVars

OtherRequest(r) ==
  /\ fetch[r] # "served"
  /\ \/ StatusLookup(r)
     \/ \E route \in ReportRoutes : ReportLookup(r, route)
  /\ UNCHANGED pollerVars

BackendRestart == Restart /\ UNCHANGED pollerVars

(* The answer to POST /ingest may get lost: nobody has to open the run.    *)
OpenDashboard(r) ==
  /\ kind[r] # "none"
  /\ Open(r)
  /\ UNCHANGED vars

Tab(r) == TabStep(r) /\ UNCHANGED vars

(* The tab's GET /status reaches the backend...                            *)
Serve(r) ==
  /\ fetch[r] = "requested"
  /\ StatusLookup(r)
  /\ fetch' = [fetch EXCEPT ![r] = "served"]
  /\ UNCHANGED <<shown, error, failures, visible, reloads>>

(* Mutant of Receive: the code of the response is not looked at.           *)
ReceiveUnchecked(r) ==
  /\ fetch[r] = "served" /\ reader[r] = "idle"
  /\ FetchSucceeds(r, answer[r].status)
  /\ UNCHANGED vars

(* ...and its answer comes back; there is none if the backend restarted.   *)
(* To the tab, one that arrives after a restart it got ahead of is no      *)
(* other than one that arrived just before it.                             *)
Receive(r) ==
  /\ fetch[r] = "served" /\ reader[r] = "idle"
  /\ IF answer[r].code = "200"
     THEN FetchSucceeds(r, answer[r].status)
     ELSE FetchFails(r)
  /\ UNCHANGED vars

(* The request or its answer is lost or takes more than 30 seconds, which  *)
(* the tab finds out when the reader has no more to do with it.            *)
Lose(r) ==
  /\ fetch[r] \in {"requested", "served"} /\ reader[r] = "idle"
  /\ FetchFails(r)
  /\ UNCHANGED vars

SessionRunNext(r) ==
  \/ \E route \in Kinds : Submission(r, route)
  \/ BackendStep(r)
  \/ OtherRequest(r)
  \/ OpenDashboard(r)
  \/ Tab(r)
  \/ Serve(r)
  \/ Receive(r)
  \/ Lose(r)

SessionNext == (\E r \in Runs : SessionRunNext(r)) \/ BackendRestart

(* Timers of a visible tab fire, and a request that is repeated for ever   *)
(* reaches the backend and is answered at some point.  Nobody has to       *)
(* submit, open, hide, focus or reload.                                    *)
SessionFairness ==
  \A r \in Runs :
    /\ WF_sessionVars(TaskStep(r) /\ UNCHANGED pollerVars)
    /\ WF_sessionVars(ReaderStep(r) /\ UNCHANGED pollerVars)
    /\ SF_sessionVars(IntervalFetch(r) /\ UNCHANGED vars)
    /\ SF_sessionVars(Retry(r) /\ UNCHANGED vars)
    /\ SF_sessionVars(Serve(r))
    /\ SF_sessionVars(Receive(r))

SessionSpec == SessionInit /\ [][SessionNext]_sessionVars /\ SessionFairness

-----------------------------------------------------------------------------
(* A run with status s is, or may come to be, one with status t.           *)
MayBecome(s, t) ==
  \/ s = t
  \/ s = "none"
  \/ s = "QUEUED" /\ t # "none"
  \/ s = "PROCESSING" /\ t \in Final

Opened(r) == fetch[r] # "off"

Lost(r) == kind[r] # "none" /\ entry[r].status = "none"

(* The screen never runs ahead of the backend: whatever an answer changes  *)
(* it to is a status the run has reached.  COMPLETED is not shown for an   *)
(* error answer, such as the 404 of a run lost in a restart, although      *)
(* getRunStatus takes a body without status for a finished report.         *)
ScreenNeverRunsAhead ==
  [][\A r \in Runs : \/ shown'[r] \in {shown[r], "none"}
                     \/ MayBecome(shown'[r], entry[r].status)]_sessionVars

(* What a tab shows never falls behind what it showed, whatever requests   *)
(* fail and even after the backend has forgotten the run; only loading the *)
(* page again clears it.                                                   *)
ScreenNeverFallsBack ==
  [][\A r \in Runs : reloads'[r] = reloads[r] =>
       MayBecome(shown[r], shown'[r])]_sessionVars

(* The poller does not give up on a run: however many requests fail, the   *)
(* end of a run gets on a screen that is looked at again and again, unless *)
(* the backend loses the run first.                                        *)
EveryEndIsShown ==
  \A r \in Runs : []<>visible[r] =>
    ( (Opened(r) /\ entry[r].status \in Final /\ shown[r] \notin Final)
        ~> \/ shown[r] = entry[r].status /\ ~ error[r]
           \/ Lost(r) )

(* A run lost in a restart does not stay on the screen as if it were still *)
(* processing: an error is shown once the retries are used up.             *)
LossIsReported ==
  \A r \in Runs : []<>visible[r] =>
    ( (Opened(r) /\ Lost(r) /\ shown[r] \notin Final)
        ~> error[r] \/ shown[r] \in Final )

=============================================================================
