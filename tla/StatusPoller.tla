---------------------------- MODULE StatusPoller ----------------------------
(***************************************************************************)
(* The dashboard's status query (useRunStatus.ts over utils/api.ts), one   *)
(* browser tab for each run.  TanStack Query, which is external, keeps the *)
(* last data and error of the query, has at most one fetch in progress,    *)
(* and repeats a failed request with growing delays, but in a tab that is  *)
(* hidden neither repeats a request nor fetches at the interval.           *)
(***************************************************************************)
EXTENDS RunIds, Naturals

CONSTANTS
  MaxRetries,   \* max_retries
  MaxReloads    \* bound on how often a tab is loaded again

ASSUME RetriesAssumption == MaxRetries \in Nat
ASSUME ReloadsAssumption == MaxReloads \in Nat

VARIABLES
  shown,      \* the status in query.data, "none" when there are no data
  error,      \* is query.error set?
  fetch,      \* "off" before the dashboard is opened
  failures,   \* failed requests of the fetch in progress
  visible,    \* is the tab in the foreground?
  reloads     \* how often it has been loaded again

pollerVars == <<shown, error, fetch, failures, visible, reloads>>

Shown == {"none", "QUEUED", "PROCESSING", "COMPLETED", "FAILED"}

Final == {"COMPLETED", "FAILED"}

PollerTypeOK ==
  /\ shown \in [Runs -> Shown]
  /\ error \in [Runs -> BOOLEAN]
  /\ fetch \in [Runs -> {"off", "idle", "requested", "served", "backoff"}]
  /\ failures \in [Runs -> 0 .. MaxRetries]
  /\ visible \in [Runs -> BOOLEAN]
  /\ reloads \in [Runs -> 0 .. MaxReloads]

PollerInit ==
  /\ shown = [r \in Runs |-> "none"]
  /\ error = [r \in Runs |-> FALSE]
  /\ fetch = [r \in Runs |-> "off"]
  /\ failures = [r \in Runs |-> 0]
  /\ visible = [r \in Runs |-> TRUE]
  /\ reloads = [r \in Runs |-> 0]

-----------------------------------------------------------------------------
(* A new fetch.  Without data the query is pending again.                  *)
StartFetch(r) ==
  /\ fetch' = [fetch EXCEPT ![r] = "requested"]
  /\ failures' = [failures EXCEPT ![r] = 0]
  /\ error' = [error EXCEPT ![r] = @ /\ shown[r] # "none"]

(* The form got a run_id from POST /ingest and went to the dashboard.      *)
Open(r) ==
  /\ fetch[r] = "off"
  /\ StartFetch(r)
  /\ UNCHANGED <<shown, visible, reloads>>

ShouldContinuePolling(s) == s \notin Final

(* Mutant of IntervalFetch: an error ends the polling.                     *)
IntervalFetchUnlessError(r) ==
  /\ fetch[r] = "idle" /\ visible[r] /\ ~ error[r]
  /\ ShouldContinuePolling(shown[r])
  /\ StartFetch(r)
  /\ UNCHANGED <<shown, visible, reloads>>

(* refetchInterval, which goes on after an error.                          *)
IntervalFetch(r) ==
  /\ fetch[r] = "idle" /\ visible[r]
  /\ ShouldContinuePolling(shown[r])
  /\ StartFetch(r)
  /\ UNCHANGED <<shown, visible, reloads>>

Hide(r) ==
  /\ visible[r]
  /\ visible' = [visible EXCEPT ![r] = FALSE]
  /\ UNCHANGED <<shown, error, fetch, failures, reloads>>

(* refetchOnWindowFocus: data older than staleTime are fetched again, even *)
(* of a finished run; no data are always stale.                            *)
Focus(r) ==
  /\ ~ visible[r]
  /\ visible' = [visible EXCEPT ![r] = TRUE]
  /\ \/ fetch[r] = "idle" /\ StartFetch(r)
     \/ /\ fetch[r] # "idle" \/ shown[r] # "none"
        /\ UNCHANGED <<fetch, failures, error>>
  /\ UNCHANGED <<shown, reloads>>

(* The "Try Again" button of the error view, or the browser's own: the run *)
(* is in the URL, the query cache is lost and so is a request in progress. *)
Reload(r) ==
  /\ fetch[r] # "off" /\ visible[r]
  /\ reloads[r] < MaxReloads
  /\ reloads' = [reloads EXCEPT ![r] = @ + 1]
  /\ shown' = [shown EXCEPT ![r] = "none"]
  /\ error' = [error EXCEPT ![r] = FALSE]
  /\ failures' = [failures EXCEPT ![r] = 0]
  /\ fetch' = [fetch EXCEPT ![r] = "requested"]
  /\ UNCHANGED visible

-----------------------------------------------------------------------------
(* getRunStatus: a body without status counts as a finished report.        *)
StatusOf(body) == IF body = "none" THEN "COMPLETED" ELSE body

FetchSucceeds(r, body) ==
  /\ shown' = [shown EXCEPT ![r] = StatusOf(body)]
  /\ error' = [error EXCEPT ![r] = FALSE]
  /\ failures' = [failures EXCEPT ![r] = 0]
  /\ fetch' = [fetch EXCEPT ![r] = "idle"]
  /\ UNCHANGED <<visible, reloads>>

(* Mutant of FetchFails: the last failure is retried like the others.      *)
FetchFailsNever(r) ==
  /\ failures' = [failures EXCEPT ![r] = IF @ < MaxRetries THEN @ + 1 ELSE @]
  /\ fetch' = [fetch EXCEPT ![r] = "backoff"]
  /\ UNCHANGED <<shown, error, visible, reloads>>

(* Mutant of FetchFails: the data are dropped with the error.              *)
FetchFailsDroppingData(r) ==
  /\ shown' = [shown EXCEPT ![r] = "none"]
  /\ error' = [error EXCEPT ![r] = TRUE]
  /\ fetch' = [fetch EXCEPT ![r] = "idle"]
  /\ UNCHANGED <<failures, visible, reloads>>

(* apiRequest throws: no answer, an abort after 30 s, or an error code.    *)
(* The request is retried; after the last retry the error is set and the   *)
(* data are kept.                                                          *)
FetchFails(r) ==
  /\ \/ /\ failures[r] < MaxRetries
        /\ failures' = [failures EXCEPT ![r] = @ + 1]
        /\ fetch' = [fetch EXCEPT ![r] = "backoff"]
        /\ UNCHANGED error
     \/ /\ failures[r] = MaxRetries
        /\ error' = [error EXCEPT ![r] = TRUE]
        /\ fetch' = [fetch EXCEPT ![r] = "idle"]
        /\ UNCHANGED failures
  /\ UNCHANGED <<shown, visible, reloads>>

(* The delay is over.                                                      *)
Retry(r) ==
  /\ fetch[r] = "backoff" /\ visible[r]
  /\ fetch' = [fetch EXCEPT ![r] = "requested"]
  /\ UNCHANGED <<shown, error, failures, visible, reloads>>

TabStep(r) ==
  IntervalFetch(r) \/ Retry(r) \/ Hide(r) \/ Focus(r) \/ Reload(r)

=============================================================================
