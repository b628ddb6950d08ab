----------------------------- MODULE MCQosLink -----------------------------
(***************************************************************************)
(* QosLink for TLC.                                                        *)
(***************************************************************************)
EXTENDS QosLink
=============================================================================
