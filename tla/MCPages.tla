------------------------------ MODULE MCPages ------------------------------
(* The bounds of the run of Pages. *)
EXTENDS Pages

MCStored == {-1, 0, 1, 5, 50}

\* What the tests of the job form's scripts show of their form they show of the
\* page's, but for the value that a draft mode has before one of its inputs is
\* changed.
ASSUME TestFormAssumption == \A r \in Rows : TestForm(r) = AsTested(RenderedForm(r))
=============================================================================
