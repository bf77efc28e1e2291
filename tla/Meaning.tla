------------------------------ MODULE Meaning -------------------------------
(***************************************************************************)
(* What a program of the language does: the driver's statements executed   *)
(* one after the other on a store of words.  A program is the sequence of  *)
(* its statements, where an End closes a while-loop, for-loop or switch    *)
(* and a Case or Default begins a part of a switch.                        *)
(*                                                                         *)
(* An array index out of range and a quotient that does not exist end it:  *)
(* nothing is said of what such a program does.                            *)
(***************************************************************************)
EXTENDS Integers, Sequences, FiniteSets

CONSTANTS Vars,    \* variable -> [type, size]
          Exprs,   \* expressions, with every expression their subexpressions
          Values,  \* what may be read
          MaxInt   \* the largest word

VARIABLES prog,    \* the program
          at,      \* the statement to be executed: its position, and the part of it
          store,   \* variable -> its elements; a variable that is no array has one
          out      \* what was printed last, and whether at an odd time

vars == <<prog, at, store, out>>

MinInt == -(MaxInt + 1)
Wrap(v) == ((v - MinInt) % (2 * (MaxInt + 1))) + MinInt

Elems(n) == 1..(IF Vars[n].size = 0 THEN 1 ELSE Vars[n].size)

NOT_STARTED == <<0, "not started">>
UNDEFINED   == <<0, "undefined">>

-----------------------------------------------------------------------------
(* Expressions.  Both operands of AND and OR are evaluated.                *)

Bit(cond) == IF cond THEN 1 ELSE 0

Quotient(v, w) == LET q == (IF v < 0 THEN -v ELSE v) \div (IF w < 0 THEN -w ELSE w)
                  IN  IF (v < 0) = (w < 0) THEN q ELSE -q

Apply(op, v, w) ==
  CASE op = "PLUS"  -> Wrap(v + w)
    [] op = "MINUS" -> Wrap(v - w)
    [] op = "MUL"   -> Wrap(v * w)
    [] op = "DIV"   -> Quotient(v, w)
    [] op = "LT"    -> Bit(v < w)
    [] op = "LE"    -> Bit(v <= w)
    [] op = "GT"    -> Bit(v > w)
    [] op = "GE"    -> Bit(v >= w)
    [] op = "EQ"    -> Bit(v = w)
    [] op = "NE"    -> Bit(v # w)
    [] op = "AND"   -> v * w
    [] op = "OR"    -> Bit(v + w > 0)

Eval[e \in Exprs] ==
  CASE e.node = "Var"   -> store[e.name][1]
    [] e.node = "Deref" -> store[e.name][Eval[e.index]]
    [] e.node = "BOp"   -> Apply(e.op, Eval[e.arg1], Eval[e.arg2])
    [] e.node = "UOp"   -> Wrap(IF e.op = "MINUS" THEN -Eval[e.arg] ELSE Eval[e.arg])
    [] OTHER            -> e.val

Divides(v, w) == w # 0 /\ Quotient(v, w) <= MaxInt

Defined[e \in Exprs] ==
  CASE e.node = "Deref" -> Eval[e.index] \in Elems(e.name)
    [] e.node = "BOp"   -> /\ Defined[e.arg1] /\ Defined[e.arg2]
                           /\ e.op = "DIV" => Divides(Eval[e.arg1], Eval[e.arg2])
    [] e.node = "UOp"   -> Defined[e.arg]
    [] OTHER            -> TRUE

-----------------------------------------------------------------------------
(* The structure of the program.                                           *)

Opens(i)  == prog[i].node \in {"While", "For", "Switch"}
Ends(i)   == prog[i].node = "End"
InCase(i) == prog[i].node \in {"Case", "Default"}

\* The End of what is opened at i, or of the switch i is a case of.
Closes(i, j) == Cardinality({k \in (i + 1)..j : Ends(k)}) = Cardinality({k \in (i + 1)..j : Opens(k)}) + 1
EndOf(i) == CHOOSE j \in i..Len(prog) : Closes(i, j) /\ \A k \in i..(j - 1) : ~Closes(i, k)
Opener(j) == CHOOSE i \in 1..j : Opens(i) /\ EndOf(i) = j

\* The cases of the switch at i.
Cases(i) == {c \in (i + 1)..EndOf(i) : InCase(c) /\ EndOf(c) = EndOf(i)}

\* What is executed when control comes to the statement at i.
Arrive[i \in Nat] ==
  IF i > Len(prog) THEN <<i, "end">>
  ELSE IF prog[i].node = "For" THEN <<i, "init">>
  ELSE IF InCase(i) THEN Arrive[EndOf(i)]
  ELSE IF ~Ends(i) THEN <<i, "do">>
  ELSE LET o == Opener(i) IN
       CASE prog[o].node = "While"  -> <<o, "do">>
         [] prog[o].node = "For"    -> <<o, "inc">>
         [] prog[o].node = "Switch" -> Arrive[i + 1]

-----------------------------------------------------------------------------
Pos == at[1]
Statement == prog[Pos]
Executes(node, part) == /\ Pos \in DOMAIN prog /\ Statement.node = node /\ at[2] = part
                        /\ UNCHANGED prog

Init == /\ prog = << >>
        /\ at = NOT_STARTED
        /\ store = [n \in DOMAIN Vars |-> [k \in Elems(n) |-> 0]]
        /\ out = <<<< >>, FALSE>>

Start == /\ at = NOT_STARTED
         /\ at' = Arrive[1]'
         /\ UNCHANGED <<store, out>>

Assn ==
  /\ Executes("Assn", "do")
  /\ Defined[Statement.target] /\ Defined[Statement.expr]
  /\ LET n == Statement.target.name
         k == IF Statement.target.node = "Deref" THEN Eval[Statement.target.index] ELSE 1
     IN  store' = [store EXCEPT ![n][k] = Eval[Statement.expr]]
  /\ at' = Arrive[Pos + 1]
  /\ UNCHANGED out

\* A value other than 0 is read as true.
Input ==
  /\ Executes("Input", "do")
  /\ \E f \in [Elems(Statement.name) -> Values] :
       store' = [store EXCEPT ![Statement.name] =
                   IF Vars[Statement.name].type = "boolean" THEN [k \in DOMAIN f |-> Bit(f[k] # 0)] ELSE f]
  /\ at' = Arrive[Pos + 1]
  /\ UNCHANGED out

Output ==
  /\ Executes("Output", "do")
  /\ Defined[Statement.var]
  /\ out' = <<IF Statement.var.node = "Var" THEN store[Statement.var.name] ELSE <<Eval[Statement.var]>>, ~out[2]>>
  /\ at' = Arrive[Pos + 1]
  /\ UNCHANGED store

While ==
  /\ Executes("While", "do")
  /\ Defined[Statement.cond]
  /\ at' = Arrive[IF Eval[Statement.cond] = 1 THEN Pos + 1 ELSE EndOf(Pos) + 1]
  /\ UNCHANGED <<store, out>>

\* A for-loop counts up with a word.
ForInit ==
  /\ Executes("For", "init")
  /\ store' = [store EXCEPT ![Statement.name][1] = Statement.beg]
  /\ at' = <<Pos, "test">>
  /\ UNCHANGED out

ForTest ==
  /\ Executes("For", "test")
  /\ at' = Arrive[IF store[Statement.name][1] <= Statement.end THEN Pos + 1 ELSE EndOf(Pos) + 1]
  /\ UNCHANGED <<store, out>>

ForInc ==
  /\ Executes("For", "inc")
  /\ store' = [store EXCEPT ![Statement.name][1] = Wrap(@ + 1)]
  /\ at' = <<Pos, "test">>
  /\ UNCHANGED out

\* The first case that has the value of the variable, else the default.
Switch ==
  LET fit == {c \in Cases(Pos) : prog[c].node = "Case" /\ prog[c].val.val = store[Statement.name][1]}
      default == {c \in Cases(Pos) : prog[c].node = "Default"}
      First(S) == CHOOSE c \in S : \A d \in S : c <= d
  IN
  /\ Executes("Switch", "do")
  /\ at' = Arrive[1 + (IF fit # {} THEN First(fit) ELSE IF default # {} THEN First(default) ELSE EndOf(Pos))]
  /\ UNCHANGED <<store, out>>

Undefined ==
  /\ Pos \in DOMAIN prog
  /\ \E e \in CASE Statement.node = "Assn"   -> {Statement.target, Statement.expr}
                [] Statement.node = "Output" -> {Statement.var}
                [] Statement.node = "While"  -> {Statement.cond}
                [] OTHER                     -> {} : ~Defined[e]
  /\ at' = UNDEFINED
  /\ UNCHANGED <<prog, store, out>>

Next == Start \/ Assn \/ Input \/ Output \/ While \/ ForInit \/ ForTest \/ ForInc \/ Switch \/ Undefined

Spec == Init /\ [][Next]_vars
=============================================================================
