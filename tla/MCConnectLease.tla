---------------------------- MODULE MCConnectLease ----------------------------
EXTENDS ConnectLease, TLC
RunSymmetry == Permutations(Runs)
==============================================================================
