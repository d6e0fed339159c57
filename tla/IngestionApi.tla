---------------------------- MODULE IngestionApi ----------------------------
(***************************************************************************)
(* The Lambda behind POST /ingest: validate the request, put the QUEUED    *)
(* row, send the message, answer.  Each request is named by the run_id the *)
(* handler draws for it; a client that resubmits is a new request.         *)
(***************************************************************************)
EXTENDS RunStateTable, IngestionQueue

VARIABLES
  api,       \* how far the handler is with each request
  response   \* the HTTP status answered: "none" until there is one

apiVars == <<api, response>>

ApiTypeOK ==
  /\ api \in [Runs -> {"new", "put", "send", "done"}]
  /\ response \in [Runs -> {"none", "202", "400", "500"}]

ApiInit ==
  /\ api = [r \in Runs |-> "new"]
  /\ response = [r \in Runs |-> "none"]

Answer(r, code) ==
  /\ api' = [api EXCEPT ![r] = "done"]
  /\ response' = [response EXCEPT ![r] = code]

Proceed(r, step) ==
  /\ api' = [api EXCEPT ![r] = step]
  /\ UNCHANGED response

-----------------------------------------------------------------------------
(* Parsing and validation; company and country are then sanitized, which   *)
(* fixes the message group the request will use.                           *)
Validate(r) ==
  /\ api[r] = "new"
  /\ Proceed(r, "put") \/ Answer(r, "400")
  /\ UNCHANGED <<status, queueVars>>

(* put_item.  A call that raises may or may not have reached the table.    *)
PutRow(r) ==
  /\ api[r] = "put"
  /\ \/ PutItem(r) /\ Proceed(r, "send")
     \/ /\ AwsCallsMayFail
        /\ PutItem(r) \/ UNCHANGED status
        /\ Answer(r, "500")
  /\ UNCHANGED queueVars

(* send_message; again an exception does not tell whether it was sent.     *)
Dispatch(r, g) ==
  /\ api[r] = "send"
  /\ \/ SendMessage(r, g) /\ Answer(r, "202")
     \/ /\ AwsCallsMayFail
        /\ SendMessage(r, g) \/ UNCHANGED queueVars
        /\ Answer(r, "500")
  /\ UNCHANGED status

(* The function is killed (its timeout is the 3 s default) between two     *)
(* calls; the gateway answers the client with a server error.              *)
CrashApi(r) ==
  /\ api[r] \in {"put", "send"}
  /\ Answer(r, "500")
  /\ UNCHANGED <<status, queueVars>>

(* Mutant of ApiStep: the message is sent before the row is put.           *)
ApiStepSendFirst(r) ==
  \/ Validate(r)
  \/ /\ api[r] = "put"
     /\ \E g \in Groups : SendMessage(r, g)
     /\ Proceed(r, "send")
     /\ UNCHANGED status
  \/ /\ api[r] = "send"
     /\ PutItem(r)
     /\ Answer(r, "202")
     /\ UNCHANGED queueVars

ApiStep(r) ==
  \/ Validate(r)
  \/ PutRow(r)
  \/ \E g \in Groups : Dispatch(r, g)

=============================================================================
