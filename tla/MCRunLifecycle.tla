---------------------------- MODULE MCRunLifecycle ----------------------------
EXTENDS RunLifecycle, TLC
RunSymmetry == Permutations(Runs)
==============================================================================
