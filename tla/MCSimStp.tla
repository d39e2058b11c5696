------------------------------- MODULE MCSimStp -------------------------------
(* SimStp on two ports and two of the four states.                         *)
EXTENDS SimStp
=============================================================================
