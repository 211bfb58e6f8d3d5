----------------------------- MODULE MCHrtfDeck -----------------------------
\* Small instances of HrtfDeck for TLC.
EXTENDS HrtfDeck, TLC

ClientSymmetry == Permutations(Clients)
=============================================================================
