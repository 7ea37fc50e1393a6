--------------------------- MODULE MCOrderTracking ---------------------------
(* Instances of OrderTracking for TLC.                                      *)
EXTENDS OrderTracking, TLC

\* Orders and symbols are interchangeable in the safety runs.
MCSymmetry == Permutations(OrderIds) \cup Permutations(Symbols)

=============================================================================
