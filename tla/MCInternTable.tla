---------------------------- MODULE MCInternTable ----------------------------
(* The intern table, and a table of string constants, on words that collide *)
(* in arrays of two and of four chains.                                     *)
EXTENDS InternTable, TLC

MCHash     == "" :> 0 @@ "a" :> 1 @@ "b" :> 5 @@ "c" :> 2 @@ "end" :> 3
MCLiterals == <<"a", "b", "a">>
=============================================================================
