------------------------------ MODULE MCSessions ------------------------------
EXTENDS BrowserSession, TLC
MCSymmetry == Permutations(Calls) \cup Permutations(Users)
=============================================================================
