------------------------------ MODULE MCLadder ------------------------------
(***************************************************************************)
(* A rung of three slots with up to two branches and three symbols: the    *)
(* smallest in which branches cross, nest, run in parallel and follow each *)
(* other.  The toolbox holds a contact and its negation, so that a path    *)
(* that is lost or added shows, and a block whose output is stored.        *)
(***************************************************************************)
EXTENDS Ladder

MCSymbols ==
    {[type |-> "NO",  tag |-> "a", reset |-> ""],
     [type |-> "NC",  tag |-> "a", reset |-> ""],
     [type |-> "TOF", tag |-> "F", reset |-> ""]}

MCInputs == {"a"}
=============================================================================
