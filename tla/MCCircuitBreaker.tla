--------------------------- MODULE MCCircuitBreaker ---------------------------
EXTENDS CircuitBreaker
CONSTANTS t1, t2
==============================================================================
