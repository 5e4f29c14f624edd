---------------------------- MODULE MCSemaphore ----------------------------
(* Small instances of Semaphore.                                            *)
EXTENDS Semaphore

CONSTANTS t1, t2, t3

=============================================================================
