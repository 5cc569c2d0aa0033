----------------------------- MODULE MCPlcInputs -----------------------------
(***************************************************************************)
(* Model checking PlcInputs with one input (inputs do not influence each   *)
(* other), the three debounce ticks of the code and three packets, enough  *)
(* for an image to be missed, for a reset between two ticks, and for       *)
(* images to age.                                                          *)
(***************************************************************************)
EXTENDS PlcInputs

MCInputs == {"I0"}

=============================================================================
