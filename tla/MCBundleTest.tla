---------------------------- MODULE MCBundleTest ----------------------------
(* Two bundles that share a command; the second test of the second fails.  *)
EXTENDS BundleTest

CONSTANTS b1, b2, c1, c2, t1, t2

MCProvides == [b \in {b1, b2} |-> IF b = b1 THEN {c1, c2} ELSE {c1}]
MCDefects == {<<b2, t2>>}
=============================================================================
