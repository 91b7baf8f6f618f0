----------------------------- MODULE MCCanRxRing ------------------------------
\* A small instance of CanRxRing.
EXTENDS CanRxRing
==============================================================================
