----------------------------- MODULE MCJobStore -----------------------------
(* The bounds of the model-checking runs of JobStore.                      *)
EXTENDS JobStore
=============================================================================
