------------------------------- MODULE MCHybrids -------------------------------
EXTENDS Hybrids
CONSTANTS t1, t2
=============================================================================
