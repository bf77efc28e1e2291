----------------------------- MODULE StaticRules -----------------------------
(***************************************************************************)
(* The rules a program has to keep, as a language report would state them: *)
(* which declaration an identifier denotes is read off the nesting of the  *)
(* blocks, the types of an expression are derived by inference rules, and  *)
(* a statement is judged by where it stands.  There is no walk, no symbol  *)
(* table and no error recovery.                                            *)
(*                                                                         *)
(* A program P has declarations of modules, modules and their bodies, as   *)
(* Semantics records them; <<P, m>> stands for module m of P and p for a   *)
(* position in its body.                                                   *)
(***************************************************************************)
EXTENDS Integers, Sequences, FiniteSets, FiniteSetsExt

Int0  == <<"integer", 0>>
Real0 == <<"real", 0>>
Bool0 == <<"boolean", 0>>

Header(M) == M[1].modules[M[2]]
Body(M)   == M[1].body[M[2]]

-----------------------------------------------------------------------------
(* Blocks and declarations. *)

Opening(s) == s.node \in {"While", "For", "Switch"}
Count(b, from, to, op(_)) == Cardinality({i \in from..to : op(b[i])})
Ending(s)  == s.node = "End"

\* The statements in whose block p stands.
Blocks(M, p) ==
  LET b == Body(M)
  IN  {q \in 1..(p - 1) : Opening(b[q]) /\ \A r \in q..(p - 1) : Count(b, q, r, Ending) < Count(b, q, r, Opening)}

\* Declarations are known by their position; parameters stand before the body.
ParamsOf(M) == Header(M).ins \o Header(M).outs
ParamAt(M, i) == i - Len(ParamsOf(M))
DeclPositions(M) == {ParamAt(M, i) : i \in DOMAIN ParamsOf(M)} \cup {p \in DOMAIN Body(M) : Body(M)[p].node = "Decl"}
DeclAt(M, d) == IF d > 0 THEN Body(M)[d].var ELSE ParamsOf(M)[d + Len(ParamsOf(M))]
BlocksOfDecl(M, d) == IF d > 0 THEN Blocks(M, d) ELSE {}

\* Those of n that are visible at p, and the one n denotes there, as a set.
Visible(M, p, n) ==
  {d \in DeclPositions(M) : d < p /\ DeclAt(M, d).name = n /\ BlocksOfDecl(M, d) \subseteq Blocks(M, p)}
Denoted(M, p, n) == IF Visible(M, p, n) = {} THEN {} ELSE {Max(Visible(M, p, n))}

TypesOfName(M, p, n) == {<<DeclAt(M, d).type, DeclAt(M, d).size>> : d \in Denoted(M, p, n)}

\* The variables of the loops around p.
LoopVars(M, p) ==
  UNION {Denoted(M, q, Body(M)[q].name) : q \in {r \in Blocks(M, p) : Body(M)[r].node = "For"}}

-----------------------------------------------------------------------------
(* Types. *)

Results(op, t) == CASE op = "arith" -> {t} \cap {Int0, Real0}
                    [] op = "rel"   -> IF t \in {Int0, Real0} THEN {Bool0} ELSE {}
                    [] op = "logic" -> {t} \cap {Bool0}

IndexOK(M, p, i, size) == IF i.node = "Var" THEN Int0 \in TypesOfName(M, p, i.name) ELSE i.val \in 1..size

RECURSIVE TypesOf(_, _, _)
TypesOf(M, p, e) ==
  CASE e.node = "Var"   -> TypesOfName(M, p, e.name)
    [] e.node = "Deref" -> {<<t[1], 0>> : t \in {u \in TypesOfName(M, p, e.name) : u[2] > 0 /\ IndexOK(M, p, e.index, u[2])}}
    [] e.node = "UOp"   -> TypesOf(M, p, e.arg) \cap {Int0, Real0}
    [] e.node = "BOp"   -> UNION {Results(e.op, t) : t \in TypesOf(M, p, e.arg1) \cap TypesOf(M, p, e.arg2)}
    [] OTHER            -> {<<e.type, 0>>}

-----------------------------------------------------------------------------
(* Statements. *)

Callees(P, name) == {j \in DOMAIN P.modules : P.modules[j].name = name}

ArgsOK(M, p, actual, formal) ==
  /\ Len(actual) = Len(formal)
  /\ \A i \in DOMAIN actual : <<formal[i].type, formal[i].size>> \in TypesOfName(M, p, actual[i])

Assignable(M, p, n) == Denoted(M, p, n) \cap LoopVars(M, p) = {}

CallOK(M, p, s) ==
  /\ s.name # Header(M).name
  /\ \E j \in Callees(M[1], s.name) :
       /\ j < M[2] \/ \E i \in DOMAIN M[1].decls : M[1].decls[i] = s.name
       /\ ArgsOK(M, p, s.ins, M[1].modules[j].ins)
       /\ s.outs # << >> => ArgsOK(M, p, s.outs, M[1].modules[j].outs)
  /\ \A i \in DOMAIN s.outs : Assignable(M, p, s.outs[i])

\* The cases and defaults of the switch at q.
PartsOf(M, q, node) == {p \in DOMAIN Body(M) : Body(M)[p].node = node /\ q = Max(Blocks(M, p) \cup {0})}

SwitchOK(M, q, t) ==
  LET cases == PartsOf(M, q, "Case")
      when(v) == {c \in cases : Body(M)[c].val = v}
  IN
  /\ \A c \in cases : <<Body(M)[c].val.type, 0>> = t
  /\ t = Bool0 => /\ PartsOf(M, q, "Default") = {}
                  /\ Cardinality(cases) = 2 /\ \A c \in cases : when(Body(M)[c].val) = {c}
  /\ t = Int0  => PartsOf(M, q, "Default") # {}

StatementOK(M, p) ==
  LET s == Body(M)[p] IN
  CASE s.node = "Decl"   -> \A d \in Visible(M, p, s.var.name) : BlocksOfDecl(M, d) # Blocks(M, p)
    [] s.node = "Assn"   -> /\ TypesOf(M, p, s.target) \cap TypesOf(M, p, s.expr) # {}
                            /\ Assignable(M, p, s.target.name)
    [] s.node = "Input"  -> Denoted(M, p, s.name) # {}
    [] s.node = "Output" -> TypesOf(M, p, s.var) # {}
    [] s.node = "While"  -> Bool0 \in TypesOf(M, p, s.cond)
    [] s.node = "For"    -> Int0 \in TypesOfName(M, p, s.name) /\ Assignable(M, p, s.name)
    [] s.node = "FCall"  -> CallOK(M, p, s)
    [] s.node = "Switch" -> \E t \in TypesOfName(M, p, s.name) \cap {Int0, Bool0} : SwitchOK(M, p, t)
    [] OTHER             -> TRUE

-----------------------------------------------------------------------------
(* Modules and programs. *)

\* An assignment to the variable, or to an element of it, or an output of a
\* call: get_value and for do not count.
SetsAt(M, p, d) ==
  LET s == Body(M)[p] IN
  \/ s.node = "Assn" /\ d \in Denoted(M, p, s.target.name)
  \/ s.node = "FCall" /\ \E i \in DOMAIN s.outs : d \in Denoted(M, p, s.outs[i])

ModuleOK(M) ==
  /\ \A i, j \in DOMAIN ParamsOf(M) : ParamsOf(M)[i].name = ParamsOf(M)[j].name => i = j
  /\ \A p \in DOMAIN Body(M) : StatementOK(M, p)
  /\ \A i \in (Len(Header(M).ins) + 1)..Len(ParamsOf(M)) :
       \E p \in DOMAIN Body(M) : SetsAt(M, p, ParamAt(M, i))

WellFormed(P) ==
  /\ \A i, j \in DOMAIN P.decls : P.decls[i] = P.decls[j] => i = j
  /\ \A i, j \in DOMAIN P.modules : P.modules[i].name = P.modules[j].name => i = j
  /\ \A i \in DOMAIN P.decls : Callees(P, P.decls[i]) # {}
  /\ \A m \in DOMAIN P.modules : ModuleOK(<<P, m>>)
=============================================================================
