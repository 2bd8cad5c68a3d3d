---------------------------- MODULE MCTimeSlice ----------------------------
(***************************************************************************)
(* The instance of TimeSlice for TLC.                                      *)
(***************************************************************************)
EXTENDS TimeSlice

=============================================================================
