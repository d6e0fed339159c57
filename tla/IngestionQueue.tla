--------------------------- MODULE IngestionQueue ---------------------------
(***************************************************************************)
(* The FIFO queue "cip-ingestion.fifo" with its dead-letter queue, as the  *)
(* platform stack configures it.  SQS itself is external: its behaviour is *)
(* taken from the settings and from how the handlers rely on it.  A        *)
(* message is named by its run: run_id is its deduplication id, so a run   *)
(* has at most one message.                                                *)
(***************************************************************************)
EXTENDS Platform, Naturals, Sequences

CONSTANTS
  Groups,           \* MessageGroupIds, "<company>:<country>"
  NoGroup,          \* stands for "not in the queue yet"
  MaxReceiveCount   \* deliveries before the message is dead-lettered

ASSUME GroupsAssumption == NoGroup \notin Groups
ASSUME MaxReceiveAssumption == MaxReceiveCount \in Nat \ {0}

VARIABLES
  msg,       \* where the message of each run is
  group,     \* its MessageGroupId
  sent,      \* the runs in the order their messages entered the queue
  receives   \* its ApproximateReceiveCount

queueVars == <<msg, group, sent, receives>>

Place == {"none", "queued", "inflight", "deleted", "dead", "expired"}

Attempts == 1 .. MaxReceiveCount

QueueTypeOK ==
  /\ msg \in [Runs -> Place]
  /\ group \in [Runs -> Groups \cup {NoGroup}]
  /\ sent \in Seq(Runs)
  /\ receives \in [Runs -> 0 .. MaxReceiveCount]

QueueInit ==
  /\ msg = [r \in Runs |-> "none"]
  /\ group = [r \in Runs |-> NoGroup]
  /\ sent = <<>>
  /\ receives = [r \in Runs |-> 0]

-----------------------------------------------------------------------------
SendMessage(r, g) ==
  /\ msg' = [msg EXCEPT ![r] = "queued"]
  /\ group' = [group EXCEPT ![r] = g]
  /\ sent' = Append(sent, r)
  /\ UNCHANGED receives

SentBefore(q, r) ==
  \E j \in DOMAIN sent : \E i \in 1 .. j - 1 : sent[i] = q /\ sent[j] = r

(* Mutant of Receivable: the queue is not FIFO.                            *)
ReceivableAnyTime(r) == msg[r] = "queued"

(* A FIFO queue hands out the oldest message of a group, and only while no *)
(* other message of that group is in flight.                               *)
Receivable(r) ==
  /\ msg[r] = "queued"
  /\ \A q \in Runs \ {r} : group[q] = group[r] =>
        /\ msg[q] # "inflight"
        /\ ~ (msg[q] = "queued" /\ SentBefore(q, r))

(* Mutant of Receive: the redrive policy allows one receive too many.      *)
ReceiveOnceMore(r) ==
  /\ Receivable(r)
  /\ receives[r] <= MaxReceiveCount
  /\ msg' = [msg EXCEPT ![r] = "inflight"]
  /\ receives' = [receives EXCEPT ![r] = @ + 1]
  /\ UNCHANGED <<group, sent>>

Receive(r) ==
  /\ Receivable(r)
  /\ receives[r] < MaxReceiveCount
  /\ msg' = [msg EXCEPT ![r] = "inflight"]
  /\ receives' = [receives EXCEPT ![r] = @ + 1]
  /\ UNCHANGED <<group, sent>>

(* Mutant of Redrive: the receive count never gets past the limit.         *)
RedriveTooLate(r) ==
  /\ Receivable(r)
  /\ receives[r] > MaxReceiveCount
  /\ msg' = [msg EXCEPT ![r] = "dead"]
  /\ UNCHANGED <<group, sent, receives>>

(* The redrive policy: one more receive would exceed maxReceiveCount.      *)
Redrive(r) ==
  /\ Receivable(r)
  /\ receives[r] = MaxReceiveCount
  /\ msg' = [msg EXCEPT ![r] = "dead"]
  /\ UNCHANGED <<group, sent, receives>>

(* The visibility timeout of the last receive runs out.                    *)
BecomeVisible(r) ==
  /\ msg[r] = "inflight"
  /\ msg' = [msg EXCEPT ![r] = "queued"]
  /\ UNCHANGED <<group, sent, receives>>

(* The retention period of four days runs out on an undelivered message.   *)
Expire(r) ==
  /\ msg[r] = "queued"
  /\ msg' = [msg EXCEPT ![r] = "expired"]
  /\ UNCHANGED <<group, sent, receives>>

(* DeleteMessage with the receipt handle of the k-th receive: a FIFO queue *)
(* honours it only while that receive still holds the message.             *)
DeleteMessage(r, k) ==
  /\ msg' = IF msg[r] = "inflight" /\ receives[r] = k
            THEN [msg EXCEPT ![r] = "deleted"] ELSE msg
  /\ UNCHANGED <<group, sent, receives>>

=============================================================================
