------------------------------ MODULE MCMutex ------------------------------
(* Small instances of Mutex.                                                *)
EXTENDS Mutex

CONSTANTS t1, t2, t3

=============================================================================
