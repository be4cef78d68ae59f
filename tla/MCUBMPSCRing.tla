---------------------------- MODULE MCUBMPSCRing ----------------------------
EXTENDS UBMPSCRing, TLC
CONSTANTS p1, p2, m1, m2
=============================================================================
