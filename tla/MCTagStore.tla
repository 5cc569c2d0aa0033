----------------------------- MODULE MCTagStore ------------------------------
(***************************************************************************)
(* Model checking TagStore: two tags from start-up, one of them of the     *)
(* UDP bank, room for two more, and three names for them, so that a script *)
(* and an upload compete for names, types and room.                        *)
(***************************************************************************)
EXTENDS TagStore

MCNames == {"HMI", "UDP", "monitor", "p", "q"}
MCSystemNames == {"UDP", "monitor"}
MCUdpNames == {"UDP"}

\* 2^24 + 1 is the first integer that a float cannot hold.
MCValues == {0, 16777217}

Entry(type, value) == [type |-> type, value |-> value]

MCDefaults == [n \in {"HMI"} |-> Entry("int", 0)]
MCEnsured == [n \in {"UDP"} |-> "bool"]

MCUploads ==
  {[n \in {"HMI", "p"} |-> Entry(IF n = "HMI" THEN "int" ELSE "float", 16777217)],
   [n \in {"p", "q"} |-> Entry(IF n = "p" THEN "int" ELSE "bool", 0)]}

MCDeclarations ==
  {[name |-> "p", type |-> "int", value |-> 16777217],
   [name |-> "monitor", type |-> "float", value |-> 0]}

MCWritten == {"HMI"}

=============================================================================
