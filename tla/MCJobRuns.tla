----------------------------- MODULE MCJobRuns -----------------------------
(* Small instance of JobRuns: one scheduled, two manual and one resumed run of
   each job of the table, two restores. *)
EXTENDS JobRuns, TLC

CONSTANTS m1, m2, x1, x2

\* The job with the most kinds of runs.
MCContended == {overnight_quant_scan_job}
RequestSymmetry == Permutations({m1, m2}) \union Permutations({x1, x2})
=============================================================================
