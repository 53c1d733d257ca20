------------------------------- MODULE MCJobQueue -------------------------------
EXTENDS JobQueue, TLC

CONSTANTS g1, g2, a1, a2

MCGetters == {g1, g2}
MCAdders == {a1, a2}
================================================================================
