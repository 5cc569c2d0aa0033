--------------------------- MODULE MCScanScheduler ---------------------------
(***************************************************************************)
(* Model checking ScanScheduler: a trigger every second tick, at most two  *)
(* waiting triggers, and one policy of each kind.  The posted limit of 0   *)
(* becomes 1; a coalesced limit of 0 disables that limit.                  *)
(***************************************************************************)
EXTENDS ScanScheduler

MCDefaultPolicy == [kind |-> "faultAfterLimit", overruns |-> 2, coalesced |-> 2]

MCPolicyInputs ==
  {[kind |-> "stopImmediately", overruns |-> 2, coalesced |-> 0],
   [kind |-> "faultAfterLimit", overruns |-> 2, coalesced |-> 0],
   [kind |-> "faultAfterLimit", overruns |-> 0, coalesced |-> 2],
   [kind |-> "warnContinue",    overruns |-> 2, coalesced |-> 2]}

=============================================================================
