------------------------------ MODULE Platform ------------------------------
(***************************************************************************)
(* What the parts of the deployed platform share: the runs, and whether    *)
(* the AWS services they call may fail.                                    *)
(***************************************************************************)
EXTENDS RunIds

CONSTANT AwsCallsMayFail   \* may a call to DynamoDB or SQS raise?

ASSUME AwsCallsAssumption == AwsCallsMayFail \in BOOLEAN

=============================================================================
