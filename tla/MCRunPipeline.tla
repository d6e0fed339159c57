--------------------------- MODULE MCRunPipeline ---------------------------
EXTENDS RunPipeline, TLC

(* The environments are used alike, and only compared.                     *)
MCSymmetry == Permutations(Environments)

=============================================================================
