----------------------------- MODULE MCHarness -----------------------------
(* Harness for TLC: three recipes, so that one is neither first nor last.  *)
EXTENDS Harness

ThreeRecipes == <<"banner", "write-1byte", "two-writes">>
=============================================================================
