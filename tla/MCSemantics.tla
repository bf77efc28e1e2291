----------------------------- MODULE MCSemantics -----------------------------
(***************************************************************************)
(* The semantic analyser on all short programs of four families: about     *)
(* types, about scopes, loops and switches, about output parameters, and   *)
(* about modules that call each other.                                     *)
(***************************************************************************)
EXTENDS Semantics

CONSTANTS TypesLen, BlocksLen, OutputsLen, CallsLen   \* bounds: statements in a body

Rules == INSTANCE StaticRules

Integer(n) == [name |-> n, type |-> "integer", size |-> 0]
Boolean(n) == [name |-> n, type |-> "boolean", size |-> 0]
Array(n)   == [name |-> n, type |-> "integer", size |-> 2]

V(n)     == [node |-> "Var", name |-> n]
Num(i)   == [node |-> "Num", type |-> "integer", val |-> i]
RNum     == [node |-> "RNum", type |-> "real"]
TrueVal  == [node |-> "Bool", type |-> "boolean", bool |-> "true"]
FalseVal == [node |-> "Bool", type |-> "boolean", bool |-> "false"]
Elem(n, i)      == [node |-> "Deref", name |-> n, index |-> i]
Minus(e)        == [node |-> "UOp", arg |-> e]
Bin(op, e1, e2) == [node |-> "BOp", op |-> op, arg1 |-> e1, arg2 |-> e2]

MCNames  == {"x", "a", "o", "y"}
Leaves   == {V(n) : n \in MCNames} \cup {Num(0), Num(1), Num(2), Num(3), RNum, TrueVal, FalseVal}
Elements == {Elem("a", Num(i)) : i \in {0, 1, 2, 3}} \cup {Elem("a", V("x")), Elem("a", V("y")), Elem("x", Num(1))}
Compound == {Minus(V("x")), Minus(V("a")), Minus(V("y")), Bin("arith", V("x"), Elem("a", Num(2))),
             Bin("arith", V("a"), V("y")), Bin("arith", V("x"), RNum), Bin("rel", V("x"), Num(1)),
             Bin("rel", V("a"), V("a")), Bin("logic", V("y"), Bin("rel", V("x"), Num(1))),
             Bin("logic", V("x"), V("x")), Bin("rel", Minus(V("y")), V("y"))}
MCExprs  == Leaves \cup Elements \cup Compound

DeclOf(v)      == [node |-> "Decl", var |-> v]
Set(t, e)      == [node |-> "Assn", target |-> t, expr |-> e]
Read(n)        == [node |-> "Input", name |-> n]
Write(e)       == [node |-> "Output", var |-> e]
WhileOf(e)     == [node |-> "While", cond |-> e]
ForOf(n)       == [node |-> "For", name |-> n]
SwitchOn(n)    == [node |-> "Switch", name |-> n]
CaseOf(e)      == [node |-> "Case", val |-> e]
DefaultCase    == [node |-> "Default"]
Call(m, i, o)  == [node |-> "FCall", name |-> m, ins |-> i, outs |-> o]

\* Expressions: module m takes x and a, and returns o.
Driver == [name |-> DRIVER, ins |-> << >>, outs |-> << >>]
M1 == [name |-> "m", ins |-> <<Integer("x"), Array("a")>>, outs |-> <<Integer("o")>>]

TypesFamily ==
  [decls |-> << >>, modules |-> <<M1>>, max |-> <<TypesLen>>,
   stmts |-> {Set(V("o"), e) : e \in MCExprs} \cup {Set(t, V("x")) : t \in Elements \cup {V("a"), V("y")}}
               \cup {Set(V("y"), e) : e \in Compound} \cup {Write(e) : e \in {V("y"), Elem("a", V("y"))}}
               \cup {DeclOf(Boolean("y")), DeclOf(Boolean("o")), WhileOf(V("x")), WhileOf(V("y")), WhileOf(V("a"))}
               \cup {SwitchOn("a"), SwitchOn("y"), CaseOf(RNum), CaseOf(Num(1)), ForOf("a"), ForOf("y"), Read("y")}]

\* Scopes, loops and switches: module m takes x and y.
M2 == [name |-> "m", ins |-> <<Integer("x"), Boolean("y")>>, outs |-> << >>]

BlocksFamily ==
  [decls |-> << >>, modules |-> <<M2>>, max |-> <<BlocksLen>>,
   stmts |-> {DeclOf(Boolean("x")), DeclOf(Integer("y")), Set(V("x"), Num(1)), ForOf("x"), ForOf("y"), WhileOf(V("y")),
              SwitchOn("x"), SwitchOn("y"), CaseOf(Num(1)), CaseOf(TrueVal), CaseOf(FalseVal), DefaultCase}]

\* What sets an output parameter.
OutputsFamily ==
  [decls |-> << >>, modules |-> <<M1>>, max |-> <<OutputsLen>>,
   stmts |-> {DeclOf(Boolean("o")), DeclOf(Integer("o")), Set(V("o"), V("x")), Set(V("o"), TrueVal), Read("o"), ForOf("o"),
              ForOf("x"), Call("m", <<"x", "a">>, <<"o">>)}]

\* Calls: m and n each take a boolean and return an integer; the other n takes
\* two integers of one name.
M3 == [name |-> "m", ins |-> <<Boolean("x")>>, outs |-> <<Integer("o")>>]
N3 == [name |-> "n", ins |-> <<Boolean("y")>>, outs |-> <<Integer("o")>>]
N4 == [name |-> "n", ins |-> <<Integer("o"), Integer("o")>>, outs |-> << >>]

Calls(decls, modules) ==
  [decls |-> decls, modules |-> modules, max |-> [m \in DOMAIN modules |-> IF m = Len(modules) THEN CallsLen ELSE 1],
   stmts |-> {Call("m", <<"x">>, <<"o">>), Call("n", <<"x">>, <<"o">>), Call("m", <<"o">>, <<"x">>), Call("m", <<"x">>, << >>), Call("m", <<"y">>, <<"o">>),
              Call("n", <<"x", "o">>, << >>), DeclOf(Boolean("x")), ForOf("o"), Set(V("o"), Num(1))}]

CallsFamily ==
  {Calls(d, ms) : d \in {<< >>, <<"m">>, <<"n">>, <<"n", "n">>},
                  ms \in {<<M3, N3>>, <<M3, Driver, N3>>, <<M3, M3>>, <<N4, M3>>, <<Driver>>}}

MCModNames == {"m", "n"}
MCInputs == {TypesFamily, BlocksFamily, OutputsFamily} \cup CallsFamily

-----------------------------------------------------------------------------
Program == [decls |-> input.decls, modules |-> input.modules, body |-> body]

\* No error is printed for a program exactly if it keeps the rules: whatever
\* was reported before, suppressed or recovered from.
AcceptsExactly == pc = "done" => (errors = {} <=> Rules!WellFormed(Program))

\* The calls of a module.
CallsIn(m) == {body[m][i].name : i \in {j \in DOMAIN body[m] : body[m][j].node = "FCall"}}

\* A module is reported as not used exactly if no statement calls it, and its
\* declaration as needless exactly if no module before it does.
WarningsExact ==
  pc = "done" =>
    \A m \in DOMAIN input.modules :
      LET name == input.modules[m].name
          declared == \E i \in DOMAIN input.decls : input.decls[i] = name
          calledIn(ms) == \E i \in ms : name \in CallsIn(i)
      IN
      /\ <<"MODULE_NOTUSED", m>> \in warnings <=> name # DRIVER /\ ~calledIn(DOMAIN input.modules)
      /\ <<"NEEDLESS_DECLARE", m>> \in warnings <=> declared /\ ~calledIn(1..(m - 1))

\* "Recursive calls are not allowed." (compiler.c:511): in an accepted program
\* no module calls itself, be it through others.
CallGraph == UNION {{<<input.modules[i].name, name>> : name \in CallsIn(i)} : i \in DOMAIN input.modules}
NoRecursion ==
  pc = "done" /\ errors = {} =>
    \A p \in CallGraph : <<p[2], p[1]>> \notin CallGraph

\* "level=0: semantic check only" (compiler.c:691): the analysis of a program
\* comes to its end, whatever errors the program has.
AnalysisCompletes == pc # "crashed"
=============================================================================
