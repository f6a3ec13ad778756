------------------------------ MODULE MCHealth ------------------------------
(* The instance of Health for TLC.                                          *)
EXTENDS Health

CONSTANTS hdfc, sbi, icici

\* Nothing orders the issuers.
KeySymmetry == Permutations(Keys)

=============================================================================
