---------------------------- MODULE MCGraphStore ----------------------------
(* A text of the graph of the first session, exported before it was edited.  *)
EXTENDS GraphStore

MCTexts == {GraphOf(1, "current", FALSE, FALSE)}
=============================================================================
