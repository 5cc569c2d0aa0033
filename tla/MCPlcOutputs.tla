----------------------------- MODULE MCPlcOutputs -----------------------------
(***************************************************************************)
(* Model checking PlcOutputs: three outputs, so that a copy can be split   *)
(* in two places, and three scans, so that one can fail between two.       *)
(***************************************************************************)
EXTENDS PlcOutputs
=============================================================================
