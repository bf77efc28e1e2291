---------------------------- MODULE MCParseTable ----------------------------
(***************************************************************************)
(* The parse tables of all grammars of a small shape and of the language's *)
(* own, compared with the textbook's definitions: NULLABLE, FIRST and      *)
(* FOLLOW as the smallest sets closed under the rules, and LL(1) as        *)
(* disjointness of the entries of two rules of one nonterminal.            *)
(***************************************************************************)
EXTENDS ParseTable, LL1, ErplagGrammar

CONSTANTS RightHandSides   \* of the small grammars

\* lookaheads: the pairs of a rule and a terminal the textbook chooses it for.
VARIABLES grammar, table, lookaheads, built

SmallTerms == {"a", "b", EOF}

\* S and A with two rules each, the rules of a nonterminal next to each other.
Small(r) == [start |-> "S", terms |-> SmallTerms, nonterms |-> {"S", "A"},
             rules |-> [i \in 1..4 |-> [lhs |-> IF i <= 2 THEN "S" ELSE "A", rhs |-> r[i]]]]

\* The right-hand sides allowed: both orders of terminal and nonterminal, the
\* empty one, and recursion through either nonterminal.
NoLeftS == {<< >>, <<"a">>, <<"b">>, <<"A">>, <<"a", "S">>, <<"A", "b">>, <<"a", "A">>, <<"A", "A">>, <<"A", "S", "b">>}

Init == /\ grammar \in {Erplag, ExprGrammar} \cup {Small(r) : r \in [1..4 -> RightHandSides]}
        /\ table = [is_ll1 |-> FALSE, pt |-> << >>]
        /\ lookaheads = {}
        /\ built = FALSE

TableOf(st) == [is_ll1 |-> st.is_ll1, pt |-> st.pt]

Build == /\ ~built /\ built' = TRUE
         /\ table' = TableOf(make_parse_table(grammar))
         /\ lookaheads' = Lookaheads(grammar)
         /\ UNCHANGED grammar

Done == built /\ UNCHANGED <<grammar, table, lookaheads, built>>

Next == Build \/ Done

Spec == Init /\ [][Next]_<<grammar, table, lookaheads, built>>

-----------------------------------------------------------------------------
\* Unless the grammar is left recursive, every entry of the table is the
\* (last) rule to be chosen, none is missing, and a grammar is reported as
\* not LL(1) exactly if it is not: however the memo was filled.
TableExact ==
  built /\ ~LeftRecursive(grammar) =>
    /\ table.pt = LL1Table(grammar, lookaheads)
    /\ table.is_ll1 <=> LL1(grammar, lookaheads)

\* The language's own grammar is LL(1) and not left recursive: the parser that
\* build_parse_tree drives with this table never has to choose.
ErplagIsLL1 == built /\ grammar = Erplag => table.is_ll1 /\ LL1(Erplag, lookaheads) /\ ~LeftRecursive(Erplag)
=============================================================================
