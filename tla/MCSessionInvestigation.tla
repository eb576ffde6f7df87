----------------------- MODULE MCSessionInvestigation -----------------------
EXTENDS SessionInvestigation, TLC

\* No operation tells one signal from another.
KeySymmetry == Permutations(Keys)
=============================================================================
