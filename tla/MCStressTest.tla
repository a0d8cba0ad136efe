--------------------------- MODULE MCStressTest ---------------------------
(* Instances of StressTest for TLC. *)
EXTENDS StressTest

SmallTargets == {0, 3, 6, 7}
SmallLimits == {3, 6, 8, 12}

\* Room for the deposits and for the target, not for two calls that may each
\* use all of it.
OneTarget == {6}
TightLimit == {8}

\* The deployment's fee cap of 3 is above the one and below the other.
SomeTips == {1, 4}
SomeBaseFees == {1, 4}
LowTip == {1}
LowBaseFee == {1}
=============================================================================
