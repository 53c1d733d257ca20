-------------------------------- MODULE MCTree234 --------------------------------
\* The calls of the 2-3-4 tree, one after the other, each loop going on.
EXTENDS Tree234

FairSpec == TreeSpec /\ WF_treeVars(TreeTurn)
==================================================================================
