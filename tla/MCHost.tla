------------------------------- MODULE MCHost -------------------------------
\* Two runs of one ticket on one host, each with two parallel steps.
EXTENDS HostProperties, TLC

MCSymmetry == Permutations(Runs) \cup Permutations(Steps)
=============================================================================
