----------------------------- MODULE MCMailbox -----------------------------
(***************************************************************************)
(* Instances of Mailbox for TLC.  Pids 1 and 3 share a bucket.             *)
(***************************************************************************)
EXTENDS Mailbox
=============================================================================
