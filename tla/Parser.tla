------------------------------- MODULE Parser -------------------------------
(***************************************************************************)
(* The table-driven parser (build_parse_tree in parser.c): a stack of      *)
(* grammar symbols, a cursor into the parse tree that is kept in step with *)
(* the stack, and error recovery that drops the symbol on top.             *)
(*                                                                         *)
(* Tree nodes are numbered in the order they are made, the root first; 0   *)
(* is NULL.  Rules are numbered from 1, so that 0 stands for the -1 of an  *)
(* empty entry of the parse table.                                         *)
(***************************************************************************)
EXTENDS Integers, Sequences, SequencesExt

CONSTANTS Terms,       \* terminals, EOF and ERR (a lexical error) among them
          Nonterms,
          Rules,       \* sequence of [lhs, rhs]
          Start,
          pt,          \* the parse table: [Nonterms -> [Terms -> rule or NoRule]]
          Inputs,      \* token sequences get_token may deliver before EOF
          STACK_LIMIT  \* stack.gen.c:53: push exits above 100

EOF == "EOF"
NULL == 0
NoRule == 0

ASSUME GrammarAssumption ==
  /\ Terms \cap Nonterms = {} /\ EOF \in Terms /\ Start \in Nonterms
  /\ DOMAIN Rules \subseteq Nat \ {0}
  /\ \A r \in DOMAIN Rules : Rules[r].lhs \in Nonterms
                             /\ Rules[r].rhs \in Seq((Terms \ {EOF}) \cup Nonterms)

ASSUME TableAssumption ==
  /\ pt \in [Nonterms -> [Terms -> {NoRule} \cup DOMAIN Rules]]
  /\ \A A \in Nonterms, t \in Terms : pt[A][t] # NoRule => Rules[pt[A][t]].lhs = A

ASSUME InputsAssumption == Inputs \subseteq Seq(Terms \ {EOF}) /\ STACK_LIMIT \in Nat /\ STACK_LIMIT >= 1

VARIABLES
  input,        \* the tokens of the program
  pos,          \* cur_tkn is the pos-th of them, or EOF after the last
  stack,        \* st, top first
  tree,         \* the nodes of the parse tree; tok is the token a terminal is, or a
                \* nonterminal was expanded on
  current_tn,   \* the node for the symbol on top of the stack
  error_count,  \* parser_error_count
  pc            \* "loop", "done" or, after exit(1), "exit"

vars == <<input, pos, stack, tree, current_tn, error_count, pc>>

tid == IF pos <= Len(input) THEN input[pos] ELSE EOF
Top == stack[1]

\* tree_get_node with the symbol made by make_symbol.
Node(sid, parent) == [sid |-> sid, parent |-> parent, first_child |-> NULL, next_sibling |-> NULL,
                      rule_num |-> NoRule, tok |-> 0]

Init ==
  /\ input \in Inputs
  /\ pos = 1
  /\ stack = <<Start, EOF>>
  /\ tree = <<Node(Start, NULL)>>
  /\ current_tn = 1
  /\ error_count = 0
  /\ pc = "loop"

\* Mutant: the right neighbour only, without climbing.
Neighbour(t, n) == IF n = NULL THEN NULL ELSE t[n].next_sibling

\* get_successor: the next node in preorder that is not below n.
get_successor(t, n) ==
  LET up[m \in 0..Len(t)] ==
        IF m = NULL THEN NULL
        ELSE IF t[m].next_sibling # NULL THEN t[m].next_sibling
        ELSE up[t[m].parent]
  IN  up[n]

get_first_child_or_successor(t, n) ==
  IF t[n].first_child # NULL THEN t[n].first_child ELSE get_successor(t, n)

\* Mutant: goes on until the stack is empty.
UntilEmpty(st) == pc' = IF Len(st) > 0 THEN "loop" ELSE "done"

\* do ... while(st.size > 1)
Continue(st) == pc' = IF Len(st) > 1 THEN "loop" ELSE "done"

Loop == pc = "loop"

\* The terminal on top is the lookahead: the node gets the token.
Match ==
  /\ Loop /\ Top \in Terms /\ Top = tid
  /\ tree' = [tree EXCEPT ![current_tn].tok = pos]
  /\ stack' = Tail(stack)
  /\ current_tn' = get_successor(tree, current_tn)
  /\ pos' = pos + 1
  /\ Continue(stack')
  /\ UNCHANGED <<input, error_count>>

\* handle_parse_error_1: both the terminal and the token are dropped.
Mismatch ==
  /\ Loop /\ Top \in Terms /\ Top # tid
  /\ error_count' = error_count + 1
  /\ stack' = Tail(stack)
  /\ current_tn' = get_successor(tree, current_tn)
  /\ pos' = pos + 1
  /\ Continue(stack')
  /\ UNCHANGED <<input, tree>>

Rule == pt[Top][tid]

\* The tree with nodes for the symbols rhs inserted below node n, whose
\* symbol gets the rule, and the line and column of the lookahead.
AddChildren(n, r, rhs) ==
  LET old == Len(tree)
      kid(i) == [Node(rhs[i], n) EXCEPT !.next_sibling = IF i < Len(rhs) THEN old + i + 1 ELSE NULL]
  IN  [tree EXCEPT ![n].rule_num = r, ![n].tok = pos, ![n].first_child = IF rhs = << >> THEN NULL ELSE old + 1]
        \o [i \in DOMAIN rhs |-> kid(i)]

\* Mutant: pushes the first symbol first.
PushForward(rhs, st) == Reverse(rhs) \o st

\* push_ll pushes the last symbol first.
push_ll(rhs, st) == rhs \o st

\* Mutant: the nonterminal is still there when its right-hand side is pushed.
OverflowsUnpopped(rhs) == rhs # << >> /\ Len(stack) + Len(rhs) - 1 > STACK_LIMIT

\* A push finds at most STACK_LIMIT elements or the program exits.
Overflows(rhs) == rhs # << >> /\ Len(Tail(stack)) + Len(rhs) - 1 > STACK_LIMIT

\* The nonterminal on top is expanded by the rule the table gives.
Expand ==
  LET rhs == Rules[Rule].rhs IN
  /\ Loop /\ Top \in Nonterms /\ Rule # NoRule /\ ~Overflows(rhs)
  /\ stack' = push_ll(rhs, Tail(stack))
  /\ tree' = AddChildren(current_tn, Rule, rhs)
  /\ current_tn' = get_first_child_or_successor(tree', current_tn)
  /\ Continue(stack')
  /\ UNCHANGED <<input, pos, error_count>>

\* ... or the compiler gives up: exit(1) in stack_push.
Overflow ==
  /\ Loop /\ Top \in Nonterms /\ Rule # NoRule /\ Overflows(Rules[Rule].rhs)
  /\ pc' = "exit"
  /\ UNCHANGED <<input, pos, stack, tree, current_tn, error_count>>

\* Mutants: the error is not counted; or it is only printed.
UnexpectedUncounted ==
  /\ Loop /\ Top \in Nonterms /\ Rule = NoRule
  /\ stack' = Tail(stack)
  /\ current_tn' = get_first_child_or_successor(tree, current_tn)
  /\ Continue(stack')
  /\ UNCHANGED <<input, pos, tree, error_count>>

UnexpectedPrinted == Loop /\ Top \in Nonterms /\ Rule = NoRule /\ UNCHANGED vars

\* handle_parse_error_2: the nonterminal is dropped, the token is kept.
Unexpected ==
  /\ Loop /\ Top \in Nonterms /\ Rule = NoRule
  /\ error_count' = error_count + 1
  /\ stack' = Tail(stack)
  /\ current_tn' = get_first_child_or_successor(tree, current_tn)
  /\ Continue(stack')
  /\ UNCHANGED <<input, pos, tree>>

Done == ~Loop /\ UNCHANGED vars

Next == Match \/ Mismatch \/ Expand \/ Overflow \/ Unexpected \/ Done

\* One sequential program: it keeps running.
Spec == Init /\ [][Next]_vars /\ WF_vars(Next)

-----------------------------------------------------------------------------
(* Properties. *)

Tree == [sid : Terms \cup Nonterms, parent : Nat, first_child : Nat, next_sibling : Nat,
         rule_num : Nat, tok : Nat]

\* Every variable has the type the C declaration intends; EOF stays at the
\* bottom of the stack, and the links of the tree are nodes or NULL.
TypeOK ==
  /\ input \in Inputs /\ pos \in Nat \ {0}
  /\ stack \in Seq(Terms \cup Nonterms) /\ stack # << >> /\ stack[Len(stack)] = EOF
  /\ tree \in Seq(Tree)
  /\ \A n \in DOMAIN tree : {tree[n].parent, tree[n].first_child, tree[n].next_sibling} \subseteq 0..Len(tree)
  /\ current_tn \in 0..Len(tree)
  /\ error_count \in Nat
  /\ pc \in {"loop", "done", "exit"}

\* The nodes still to be filled: current_tn and those that follow it.
Pending ==
  LET from[n \in 0..Len(tree)] == IF n = NULL THEN << >> ELSE <<n>> \o from[get_successor(tree, n)]
  IN  from[current_tn]

\* The cursor and the stack are in step: the pending nodes carry exactly the
\* symbols on the stack, whatever errors were recovered from.  In particular
\* current_tn is never NULL when a token or a rule is stored in it.
Synchrony ==
  /\ Len(Pending) = Len(stack) - 1
  /\ \A i \in DOMAIN Pending : tree[Pending[i]].sid = stack[i]

\* What has been consumed and what is still on the stack is a sentential form
\* of the leftmost derivation the rules applied so far make up.
NoError == error_count = 0
Form == IF NoError THEN SubSeq(input, 1, pos - 1) \o SubSeq(stack, 1, Len(stack) - 1) ELSE << >>

Abstract == INSTANCE Derivation WITH form <- Form, ok <- NoError

\* The parser performs a leftmost derivation: it only ever stores a rule in
\* the tree that applies to the first nonterminal of the form.
ImplementsDerivation == Abstract!Spec

\* The parser stops on every input, however many errors it recovers from.
Terminates == <>(pc # "loop")

\* "No valid derivation of string exists!" (parser.c:561): a program parsed
\* without error has been read to its end.
ReadToTheEnd == pc = "done" /\ error_count = 0 => tid = EOF
=============================================================================
