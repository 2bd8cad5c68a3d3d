------------------------------ MODULE MCMyJoin ------------------------------
(***************************************************************************)
(* Instances of MyJoin for TLC.                                            *)
(***************************************************************************)
EXTENDS MyJoin
=============================================================================
