----------------------------- MODULE MCCodegen ------------------------------
(***************************************************************************)
(* The code generator on all short programs of some families; what the     *)
(* code does compared with what the program means (Meaning).               *)
(***************************************************************************)
EXTENDS X86

CONSTANTS BlocksLen, DataLen, SignsLen   \* bounds: statements in a program

V(n)            == [node |-> "Var", name |-> n]
Num(i)          == [node |-> "Num", type |-> "integer", val |-> i]
Bool(i)         == [node |-> "Bool", type |-> "boolean", val |-> i]
Elem(n, i)      == [node |-> "Deref", name |-> n, index |-> i]
Minus(e)        == [node |-> "UOp", op |-> "MINUS", arg |-> e]
Plus(e)         == [node |-> "UOp", op |-> "PLUS", arg |-> e]
Bin(op, e1, e2) == [node |-> "BOp", op |-> op, arg1 |-> e1, arg2 |-> e2]

Assign(t, e)   == [node |-> "Assn", target |-> t, expr |-> e]
Get(n)      == [node |-> "Input", name |-> n]
Put(e)      == [node |-> "Output", var |-> e]
LoopWhile(e)     == [node |-> "While", cond |-> e]
Counting(n, i, j) == [node |-> "For", name |-> n, beg |-> i, end |-> j]
SwitchOn(n) == [node |-> "Switch", name |-> n]
CaseOf(e)   == [node |-> "Case", val |-> e]
DefaultCase == [node |-> "Default"]

MCVars == [x |-> [type |-> "integer", size |-> 0], i |-> [type |-> "integer", size |-> 0],
           b |-> [type |-> "boolean", size |-> 0], a |-> [type |-> "integer", size |-> 2]]

XPlus1 == Bin("PLUS", V("x"), Num(1))
XLess2 == Bin("LT", V("x"), Num(2))

\* Control: loops and switches in one another.
BlocksFamily ==
  [max |-> BlocksLen,
   stmts |-> {Counting("i", 0, 1), LoopWhile(XLess2), SwitchOn("i"), SwitchOn("b"), CaseOf(Num(0)), CaseOf(Num(1)),
              CaseOf(Bool(0)), CaseOf(Bool(1)), DefaultCase, Assign(V("x"), XPlus1), Get("b")}]

\* Data: operands and operators of every kind.
Element == Elem("a", V("x"))
Numbers == {Bin("PLUS", Bin("MUL", V("x"), V("i")), Bin("MINUS", V("x"), Element)), Minus(Bin("MINUS", V("i"), Num(3))),
            Bin("DIV", V("x"), V("i")), Minus(Element), Element, V("i")}
Truths  == {Bin("AND", V("b"), Bin("LE", V("x"), V("i"))), Bin("OR", Bin("EQ", V("x"), V("i")), Bin("NE", V("x"), Num(1))),
            Bin("AND", Bin("GT", Element, Num(0)), Bin("GE", V("i"), Element)), Bool(1), V("b"),
            Bin("LT", Element, Elem("a", V("i"))), Bin("NE", Num(2), V("x"))}

DataFamily ==
  [max |-> DataLen,
   stmts |-> {Assign(V("x"), e) : e \in Numbers} \cup {Assign(Element, e) : e \in {Minus(Element), V("i")}} \cup {Assign(V("b"), e) : e \in Truths}
               \cup {Get("x"), Get("i"), Get("a"), Get("b"), Put(V("a")), Put(V("b")), Put(Element), Put(Num(3)),
                     Counting("i", 1, 2), LoopWhile(V("b"))}]

\* The two unary operators.
SignsFamily == [max |-> SignsLen, stmts |-> {Get("x"), Assign(V("x"), Minus(V("x"))), Assign(V("x"), Plus(V("x"))), Put(V("x"))}]

\* Every subexpression.
PartsOf(e) == CASE e.node = "BOp" -> {e.arg1, e.arg2} [] e.node = "UOp" -> {e.arg} [] e.node = "Deref" -> {e.index} [] OTHER -> {}
All(S) == S \cup UNION {PartsOf(e) : e \in S}
MCExprs == All(All(All(Numbers \cup Truths \cup {XPlus1, XLess2, V("a"), Num(3), Minus(V("x")), Plus(V("x"))})))

MCDepth[e \in MCExprs] == IF PartsOf(e) = {} THEN 0 ELSE 1 + Max({MCDepth[d] : d \in PartsOf(e)})

MCInputs == {BlocksFamily, DataFamily, SignsFamily}
MCValues == {-3, 2}

-----------------------------------------------------------------------------
\* Where control is in the program: at the statement that the next instruction
\* which is no label and no jump to one is for.
Place[i \in Nat] ==
  IF i > Len(code) THEN <<Len(prog) + 1, "end">>
  ELSE CASE code[i].op = "LABEL" -> Place[i + 1]
         [] code[i].op = "JUMP"  -> Place[CHOOSE j \in LabelsOf(code) : code[j].label = code[i].label]
         [] OTHER                -> code[i].at

\* The machine's memory is the program's store; compiling, it has not started.
Program == INSTANCE Meaning WITH
  prog <- IF pc = "gen" THEN << >> ELSE prog,
  at <- CASE pc = "gen" -> <<0, "not started">> [] pc = "run" -> Place[ip] [] pc = "stuck" -> <<0, "undefined">>,
  store <- mem

\* The code of a program does what the program means, step by step: the store
\* changes and lines are printed when they should, whatever the nesting of loops
\* and switches, the reuse of temporaries and the merging of instructions.
ImplementsMeaning == Program!Spec

\* A program without while-loops ends: no jump leads back for ever.  Its
\* for-loops end before the largest word, and their variables are not read into.
Counters == {prog[i].name : i \in {j \in DOMAIN prog : prog[j].node = "For"}}
ForLoopsOnly == \A i \in DOMAIN prog : /\ prog[i].node # "While"
                                       /\ prog[i].node = "Input" => prog[i].name \notin Counters
                                       /\ prog[i].node = "For" => prog[i].end < MaxInt
ForLoopsEnd == pc = "run" /\ ForLoopsOnly ~> pc = "stuck" \/ ip > Len(code)

\* "unExpr pmOp basicExpr : 0.tree = new UOpNode(arg=2.tree, op=1.op)" and "pmOp
\* PLUS : 0.op = PLUS" (info/ast_rules.txt:103, 107): what is compiled as a
\* unary minus was written as one.
OperatorKept ==
  \A i \in DOMAIN code : code[i].op = "UMINUS" => prog[code[i].at[1]].expr \notin {Plus(V("x"))}
=============================================================================
