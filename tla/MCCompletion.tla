---------------------------- MODULE MCCompletion ---------------------------
(* Small instances of Completion.                                           *)
EXTENDS Completion

CONSTANTS t1, t2, t3

=============================================================================
