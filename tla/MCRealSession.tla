--------------------------- MODULE MCRealSession ---------------------------
EXTENDS RealSession, TLC
MotorSymmetry == Permutations(Motors)
=============================================================================
