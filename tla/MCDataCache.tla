----------------------------- MODULE MCDataCache -----------------------------
(***************************************************************************)
(* Model checking DataCache: a hidden and a visible tag from flash and one *)
(* new name, so that lists of equal length can differ; one upload, one     *)
(* program and one restart beside each other.                              *)
(***************************************************************************)
EXTENDS DataCache

CONSTANTS a, b, c

MCTags == {a, b, c}
MCFlashTable == <<a, b>>
MCFlashVisible == {b}

\* Puts the new tag in the place of the visible one.
MCTagFiles == {[listed |-> {b, c}, shown |-> {c}]}

MCDeclared == {a}

=============================================================================
