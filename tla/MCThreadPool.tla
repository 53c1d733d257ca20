------------------------------ MODULE MCThreadPool ------------------------------
EXTENDS ThreadPool, TLC

CONSTANTS w1, w2, p1, p2

MCWorkers == {w1, w2}
MCProducers == {p1, p2}
================================================================================
