--------------------------- MODULE MC_NodeStartup ---------------------------
EXTENDS NodeStartup, TLC

\* keys are only compared for equality
KeySymmetry == Permutations(Keys)
====
