----------------------------- MODULE MCGenQueue -----------------------------
(* The bounds of the model-checking runs of GenQueue.                      *)
EXTENDS GenQueue
=============================================================================
