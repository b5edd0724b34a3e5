---------------------------- MODULE MCLeaderLock ----------------------------
EXTENDS LeaderLock

CONSTANTS x, y, k, l, m
=============================================================================
