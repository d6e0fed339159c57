------------------------------- MODULE RunIds -------------------------------
(* The runs, named by their run_id (a uuid4, hence never used twice).      *)
CONSTANT Runs

=============================================================================
