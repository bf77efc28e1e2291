------------------------------- MODULE Scopes -------------------------------
(***************************************************************************)
(* What the symbol database promises to the semantic analyser: block-      *)
(* structured visibility.  A stack of scopes, each remembering which       *)
(* declaration every name denotes and which names the scope itself has     *)
(* declared.  Opening a scope inherits what is visible, a declaration      *)
(* hides the outer one, and closing a scope brings back exactly what was   *)
(* visible when it was opened.  There are no tables, parent pointers or    *)
(* offsets here: SymbolDB implements this specification with a tree of     *)
(* hash maps.                                                              *)
(***************************************************************************)
EXTENDS Naturals, Sequences

CONSTANTS Names,   \* the identifiers of the program
          Decls,   \* identities of declarations
          NoDecl   \* "not declared"

VARIABLE stack     \* innermost scope last; << >> once the database is cleared

Scope == [visible : [Names -> Decls \cup {NoDecl}], own : SUBSET Names]

Top == stack[Len(stack)]

\* A declaration no scope of the stack refers to.
Fresh(d) == \A i \in 1..Len(stack), n \in Names : stack[i].visible[n] # d

Init == stack = << [visible |-> [n \in Names |-> NoDecl], own |-> {}] >>

Open  == /\ stack # << >>
         /\ stack' = Append(stack, [Top EXCEPT !.own = {}])

Declare(n, d) ==
  /\ stack # << >>
  /\ n \notin Top.own
  /\ Fresh(d)
  /\ stack' = [stack EXCEPT ![Len(stack)] =
                 [visible |-> [@.visible EXCEPT ![n] = d], own |-> @.own \cup {n}]]

Close == /\ Len(stack) > 1
         /\ stack' = SubSeq(stack, 1, Len(stack) - 1)

Clear == /\ Len(stack) = 1
         /\ stack' = << >>

Next == Open \/ Close \/ Clear \/ \E n \in Names, d \in Decls : Declare(n, d)

Spec == Init /\ [][Next]_stack
=============================================================================
