------------------------- MODULE MCRegressionGate -------------------------
EXTENDS RegressionGate, TLC

CONSTANTS g1, g2, g3, q1, q2

Scope(rejected) == [out |-> TRUE, rejected |-> rejected, hits |-> "none"]
Law(hits) == [out |-> FALSE, rejected |-> FALSE, hits |-> hits]

Only(r) == q1 :> r
Both(r, s) == (q1 :> r) @@ (q2 :> s)

\* Two flips at once, one each way; a question that is skipped or missing on one side;
\* reports without a common question.  The reruns are left out, are none, or are one or three.
MCCall(b, c, rerun, runs, override) ==
  [baseline |-> b, current |-> c, rerun |-> rerun, runs |-> runs, override |-> override]
MCCalls ==
  {MCCall(Both(Law("some"), Scope(TRUE)), Both(Law("zero"), Scope(FALSE)), TRUE, 1, "none"),
   MCCall(Both(Law("some"), Scope(FALSE)), Both(Law("zero"), Scope(TRUE)), TRUE, 3, "full"),
   MCCall(Only(Law("some")), Both(Law("zero"), Law("none")), FALSE, 2, "full"),
   MCCall(Both(Law("none"), Scope(TRUE)), Both(Law("zero"), Scope(FALSE)), TRUE, 0, "none"),
   MCCall(Only(Law("some")), q2 :> Law("zero"), TRUE, 2, "none"),
   MCCall(Only(Law("some")), Only(Law("some")), TRUE, 2, "half")}

Symmetry == Permutations({g1, g2, g3})
=============================================================================
