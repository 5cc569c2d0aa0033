-------------------------- MODULE ProgramLifecycle --------------------------
(***************************************************************************)
(* What online replacement of the control program promises, with no tasks, *)
(* queues or mutex: each program is published once, becomes active once,   *)
(* is retired by its successor and is destroyed once; programs become      *)
(* active, and are destroyed, in the order of their uploads; and the old   *)
(* program is given up undestroyed only when the cleanup lags behind.      *)
(*                                                                         *)
(* ScriptEngine implements this specification (ImplementsLifecycle).       *)
(***************************************************************************)
EXTENDS Naturals, FiniteSets

CONSTANTS
  MaxUploads,     \* bound: programs, numbered in the order of their uploads
  RetiredDepth    \* retired programs that can wait for the cleanup task

VARIABLE phase    \* the phase of every program

Programs == 1 .. MaxUploads

Phases == {"unused", "pending", "active", "retired", "destroyed", "leaked"}

In(ph) == {p \in Programs : phase[p] = ph}

Init == phase = [p \in Programs |-> "unused"]

\* A program compiled from an upload is published.  An upload that failed
\* leaves its number unused; a later number is never overtaken by it.
Publish(p) ==
  /\ In("pending") = {}
  /\ \A q \in Programs : phase[q] # "unused" => q < p
  /\ phase' = [phase EXCEPT ![p] = "pending"]

\* The pending program replaces the active one, which is retired unless
\* RetiredDepth programs wait for the cleanup task already.
Activate(p) ==
  /\ phase[p] = "pending"
  /\ \E fate \in {"retired", "leaked"} :
       /\ fate = "leaked" => Cardinality(In("retired")) >= RetiredDepth
       /\ phase' = [q \in Programs |->
                      IF q = p THEN "active"
                      ELSE IF phase[q] = "active" THEN fate ELSE phase[q]]

\* The cleanup task destroys the oldest retired program.
Destroy(p) ==
  /\ phase[p] = "retired"
  /\ \A q \in In("retired") : p <= q
  /\ phase' = [phase EXCEPT ![p] = "destroyed"]

Next == \E p \in Programs : Publish(p) \/ Activate(p) \/ Destroy(p)

Spec == Init /\ [][Next]_phase

=============================================================================
