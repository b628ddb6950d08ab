---------------------------- MODULE MCQosSession ----------------------------
(***************************************************************************)
(* QosSession for TLC.  Packet identifiers are alike.                      *)
(***************************************************************************)
EXTENDS QosSession, TLC

Alike == Permutations(Pid)
=============================================================================
