----------------------------- MODULE MCThreadBarrier -----------------------------
EXTENDS ThreadBarrier, TLC

CONSTANTS t1, t2, t3, t4

MCThreads == {t1, t2, t3, t4}
==================================================================================
