----------------------------- MODULE MCBenchJob -----------------------------
(* The bounds of the model-checking runs of BenchJob.                      *)
EXTENDS BenchJob

CONSTANTS b1, b2, s1

\* The current settings and an evaluation, one setting on two builds, and
\* the current settings followed by another on a build of the job's.
MCPlans ==
    {ExpandCells(<<b2>>, <<Own>>, 1, <<Own>>, 1), ExpandCells(<<b1, b2>>, <<s1>>, 1, <<>>, 0),
     ExpandCells(<<b2>>, <<Own, s1>>, 1, <<>>, 0)}

\* The form's "compare profiles" on two builds.
MCProfiles == {ExpandCells(<<b1, b2>>, <<Own, s1>>, 1, <<>>, 0)}
=============================================================================
