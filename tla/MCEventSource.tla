----------------------------- MODULE MCEventSource -----------------------------
EXTENDS EventSource, TLC

CONSTANTS c1, c2, r1, r2, w1, w2

MCCookies == {c1, c2}
MCRaisers == {r1, r2}
MCWaiters == {w1, w2}
================================================================================
