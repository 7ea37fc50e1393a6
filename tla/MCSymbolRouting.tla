--------------------------- MODULE MCSymbolRouting ---------------------------
EXTENDS SymbolRouting, TLC

\* Symbols are alike to the specification, and so are consumers.
MCSymmetry == Permutations(Symbols) \cup Permutations(Consumers)

=============================================================================
