---------------------------- MODULE MCLogStream ----------------------------
(* The bounds of the model-checking run of LogStream.                      *)
EXTENDS LogStream
=============================================================================
