------------------------------ MODULE MCOomScore ------------------------------
(* Two units; both, one, none of them watched, and one listed twice. *)
EXTENDS OomScore

CONSTANTS a, b

MCWatchLists == {<<>>, <<a>>, <<a, b>>, <<a, a>>}
=============================================================================
