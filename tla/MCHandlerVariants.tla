------------------------- MODULE MCHandlerVariants -------------------------
EXTENDS HandlerVariants, TLC

(* The environments are used alike, and only compared.                     *)
MCSymmetry == Permutations(Environments)

=============================================================================
