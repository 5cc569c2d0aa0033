--------------------------- MODULE MCScriptEngine ---------------------------
(***************************************************************************)
(* Model checking ScriptEngine: three uploads, a retired queue of one, so  *)
(* that the queue can be full when the third program is activated, and two *)
(* update modes between which the operator changes at any time.            *)
(***************************************************************************)
EXTENDS ScriptEngine

\* Safety: the mode that pauses and the mode that stops.  The third one is the
\* second without its STOP, which the operator can undo by selecting RUN.
MCUpdateModes == {"pauseDuringCompile", "stopBeforeCompile"}

\* Liveness: the mode that pauses and the mode that does neither.
MCLiveModes == {"pauseDuringCompile", "onlineHotSwap"}

=============================================================================
