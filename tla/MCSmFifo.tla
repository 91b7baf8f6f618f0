------------------------------ MODULE MCSmFifo -------------------------------
EXTENDS SmFifo
==============================================================================
