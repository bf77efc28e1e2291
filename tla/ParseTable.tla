----------------------------- MODULE ParseTable -----------------------------
(***************************************************************************)
(* The construction of the LL(1) parse table (init_parser in parser.c):    *)
(* FIRST sets by depth-first search with memoisation, FOLLOW sets by       *)
(* passes over the rules until nothing changes, then the table.            *)
(*                                                                         *)
(* A grammar is a record: start, rules (a sequence of [lhs, rhs]), terms   *)
(* and nonterms.  EOF in a FIRST set means the empty string, as T_EOF does *)
(* in the code's bit sets.  Rules are numbered from 1, and NoRule stands   *)
(* for the -1 of an empty table entry.                                     *)
(***************************************************************************)
EXTENDS Integers, Sequences, SequencesExt

EOF == "EOF"
NoRule == 0

\* rule_begin and rule_end (read_grammar): the rules of a nonterminal are
\* taken to be those from its first to its last.
RulesOf(g, nt) == {i \in DOMAIN g.rules : g.rules[i].lhs = nt}
rule_begin(g, nt) == CHOOSE i \in RulesOf(g, nt) : \A j \in RulesOf(g, nt) : i <= j
rule_end(g, nt)   == (CHOOSE i \in RulesOf(g, nt) : \A j \in RulesOf(g, nt) : i >= j) + 1
RuleRange(g, nt)  == [k \in 1..(rule_end(g, nt) - rule_begin(g, nt)) |-> rule_begin(g, nt) + k - 1]

\* The memo: first[nt] and RuleNode.first, where they are not unset_bitset.
\* The node at position pos of the right-hand side of rule i is <<i, pos>>.
NoMemo == [symb |-> << >>, node |-> << >>]
KnowSymb(memo, nt, set)  == [memo EXCEPT !.symb = (nt :> set) @@ memo.symb]
KnowNode(memo, nd, set)  == [memo EXCEPT !.node = (nd :> set) @@ memo.node]

\* Results of a search are records [set, memo]: AddRule adds the set of one
\* rule to its nonterminal's, KnowResult remembers that of a node.
AddRule(sid, r)    == KnowSymb(r.memo, sid, r.memo.symb[sid] \cup r.set)
SymbResult(sid, m) == [set |-> m.symb[sid], memo |-> m]
PlusSet(set, r)    == [r EXCEPT !.set = r.set \cup set]
KnowResult(nd, r)  == [r EXCEPT !.memo = KnowNode(r.memo, nd, r.set)]

RECURSIVE get_first_symb(_, _, _), get_first_str(_, _, _, _), get_first_rest(_, _, _, _)

\* The FIRST set of a symbol, and the memo afterwards.  A nonterminal has the
\* empty set while the search for its own is going on.
get_first_symb(g, sid, memo) ==
  IF sid \in g.terms THEN [set |-> {sid}, memo |-> memo]
  ELSE IF sid \in DOMAIN memo.symb THEN [set |-> memo.symb[sid], memo |-> memo]
  ELSE SymbResult(sid, FoldLeft(LAMBDA m, i : AddRule(sid, get_first_str(g, i, 1, m)),
                                KnowSymb(memo, sid, {}), RuleRange(g, sid)))

\* The FIRST set of the right-hand side of rule i from position pos on.
get_first_str(g, i, pos, memo) ==
  IF pos > Len(g.rules[i].rhs) THEN [set |-> {EOF}, memo |-> memo]
  ELSE IF <<i, pos>> \in DOMAIN memo.node THEN [set |-> memo.node[<<i, pos>>], memo |-> memo]
  ELSE KnowResult(<<i, pos>>, get_first_rest(g, i, pos, get_first_symb(g, g.rules[i].rhs[pos], memo)))

\* What follows the symbol at pos counts only if that symbol, found to be a,
\* can vanish.
get_first_rest(g, i, pos, a) ==
  IF EOF \in a.set THEN PlusSet(a.set \ {EOF}, get_first_str(g, i, pos + 1, a.memo)) ELSE a

\* One right-hand side symbol of rule i, what comes after it having FIRST set s.
FollowAt(g, i, st, pos, s) ==
  [st EXCEPT !.memo = s.memo,
             !.follow[g.rules[i].rhs[pos]] =
               @ \cup (s.set \ {EOF}) \cup (IF EOF \in s.set THEN st.follow[g.rules[i].lhs] ELSE {})]

\* Rule st.rule, and the step to the next.
update_follow_helper(g, st) ==
  LET rhs == g.rules[st.rule].rhs
      at(acc, pos) == IF rhs[pos] \in g.nonterms
                      THEN FollowAt(g, st.rule, acc, pos, get_first_str(g, st.rule, pos + 1, acc.memo))
                      ELSE acc
  IN  FoldLeft(at, [st EXCEPT !.rule = @ + 1], [pos \in DOMAIN rhs |-> pos])

RECURSIVE FollowPass(_, _)
FollowPass(g, st) == IF st.rule > Len(g.rules) THEN st ELSE FollowPass(g, update_follow_helper(g, st))

\* The passes over all rules, from st to next, until one changes nothing.
RECURSIVE FollowPasses(_, _, _)
FollowPasses(g, st, next) ==
  IF next.follow = st.follow THEN next
  ELSE FollowPasses(g, next, FollowPass(g, [next EXCEPT !.rule = 1]))

StartFollow(g) ==
  [memo |-> NoMemo, rule |-> 1, follow |-> [nt \in g.nonterms |-> IF nt = g.start THEN {EOF} ELSE {}]]

update_follow(g) == FollowPasses(g, StartFollow(g), FollowPass(g, StartFollow(g)))

\* Mutants: a rule that can vanish is not entered for what may follow; or every
\* rule is.
TermsOfFirst(fa, follow) == fa \ {EOF}
TermsAlways(fa, follow)  == (fa \ {EOF}) \cup follow

\* The entries rule i is put in, and the table: the last rule wins, and two
\* rules for one entry make the grammar not LL(1).
Terms(fa, follow) == IF EOF \in fa THEN follow \cup (fa \ {EOF}) ELSE fa

Enter(g, acc, sel) ==
  LET i == acc.rule  row == acc.pt[g.rules[i].lhs] IN
  [acc EXCEPT !.rule = i + 1,
              !.is_ll1 = acc.is_ll1 /\ \A t \in sel : row[t] = NoRule,
              !.pt[g.rules[i].lhs] = [t \in g.terms |-> IF t \in sel THEN i ELSE row[t]]]

EnterRule(g, acc, fa) ==
  Enter(g, [acc EXCEPT !.memo = fa.memo], Terms(fa.set, acc.follow[g.rules[acc.rule].lhs]))

RECURSIVE EnterRules(_, _)
EnterRules(g, acc) ==
  IF acc.rule > Len(g.rules) THEN acc
  ELSE EnterRules(g, EnterRule(g, acc, get_first_str(g, acc.rule, 1, acc.memo)))

NoEntries(g, st) ==
  [memo |-> st.memo, rule |-> 1, follow |-> st.follow, is_ll1 |-> TRUE,
   pt |-> [nt \in g.nonterms |-> [t \in g.terms |-> NoRule]]]

make_parse_table(g) == EnterRules(g, NoEntries(g, update_follow(g)))
=============================================================================
