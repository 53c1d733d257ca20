--------------------------------- MODULE MCBTree ---------------------------------
EXTENDS BTree

CONSTANTS MaxKey, r1, r2

MCKeys == 1 .. MaxKey
==================================================================================
