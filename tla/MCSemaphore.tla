---------------------------- MODULE MCSemaphore ----------------------------
(***************************************************************************)
(* The instance of SemaphoreSleepers: the mutex mailbox.lock.              *)
(***************************************************************************)
EXTENDS SemaphoreSleepers

=============================================================================
