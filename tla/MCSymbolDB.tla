----------------------------- MODULE MCSymbolDB -----------------------------
(* SymbolDB for model checking: the configurations give the constants, and *)
(* identifiers are interchangeable.                                        *)
EXTENDS SymbolDB, TLC

Interchangeable == Permutations(Names)
=============================================================================
