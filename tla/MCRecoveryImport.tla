-------------------------- MODULE MCRecoveryImport --------------------------
(* Small instances of RecoveryImport: every foreign package holds the same  *)
(* objects.                                                                 *)
EXTENDS RecoveryImport

CONSTANTS Packed  \* what a foreign package holds

MCContents == [p \in Foreign |-> Packed]
=============================================================================
