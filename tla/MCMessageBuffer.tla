-------------------------- MODULE MCMessageBuffer --------------------------
EXTENDS MessageBuffer

CONSTANTS w1, w2, ch1, ch2
=============================================================================
