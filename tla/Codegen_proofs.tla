--------------------------- MODULE Codegen_proofs ---------------------------
(***************************************************************************)
(* Proofs about the code that codegen makes, for any variables,            *)
(* expressions and programs of any length and nesting: what                *)
(* optimize_ircode takes for granted holds of every piece of code, the     *)
(* operands of every instruction fit it, every jump has its label, and     *)
(* every cell has a value of its type while the code runs.                 *)
(***************************************************************************)
EXTENDS Codegen, SequenceTheorems, FiniteSetTheorems, WellFoundedInduction, TLAPS

Smallest(S) == \E x \in S : \A y \in S : x <= y

\* A set of numbers has a smallest one.
LEMMA SmallestExists ==
  ASSUME NEW S, S \subseteq Nat, S # {}
  PROVE  Smallest(S)
<1>1. PICK x \in S : \A y \in S : ~(<<y, x>> \in OpToRel(<, Nat))
  BY NatLessThanWellFounded, WFMin
<1>2. ASSUME NEW y \in S PROVE x <= y
  <2>1. y < x => <<y, x>> \in OpToRel(<, Nat)
    BY DEF OpToRel
  <2>2. ~(y < x)
    BY <1>1, <2>1
  <2> QED BY <2>2
<1> QED BY <1>2 DEF Smallest

-----------------------------------------------------------------------------
(* compile_expr is defined by recursion; that there is a function which    *)
(* satisfies it is shown level by level, an expression being above its     *)
(* parts.                                                                  *)

\* What compile_expr makes of p, if f is what it makes of the parts.
Compiled(f, p, t) ==
  CASE p.node = "BOp"   -> LET a == f[p.arg1][t] IN BOp(p.op, a, f[p.arg2][a.temps])
    [] p.node = "UOp"   -> UOp(f[p.arg][t])
    [] p.node = "Deref" -> Operand(ArrAddr(p.name, f[p.index][t].addr), t)
    [] p.node = "Var"   -> Operand(VarAddr(p.name), t)
    [] OTHER            -> Operand(ConstAddr(p.val, p.type), t)

Level(n) == {p \in Exprs : Depth[p] < n}

Solves(f, n) == \A p \in Level(n) : \A t \in Nat : f[p][t] = Compiled(f, p, t) /\ f[p][t].temps \in Nat

Agree(f, g, n) == \A p \in Level(n) : \A t \in Nat : f[p][t] = g[p][t]

\* The parts of an expression are below it.
LEMMA PartsBelow ==
  ASSUME NEW p \in Exprs
  PROVE  /\ Depth[p] \in Nat
         /\ p.node = "BOp" => p.arg1 \in Exprs /\ p.arg2 \in Exprs /\ Depth[p.arg1] < Depth[p] /\ Depth[p.arg2] < Depth[p]
         /\ p.node = "UOp" => p.arg \in Exprs /\ Depth[p.arg] < Depth[p]
         /\ p.node = "Deref" => p.index \in Exprs /\ Depth[p.index] < Depth[p]
  BY ExprsAssumption

\* What is made of an expression depends on what is made of its parts only.
LEMMA CompiledAgrees ==
  ASSUME NEW n \in Nat, NEW f, NEW g, Solves(f, n),
         Agree(f, g, n), NEW p \in Exprs, Depth[p] <= n, NEW t \in Nat
  PROVE  Compiled(f, p, t) = Compiled(g, p, t) /\ Compiled(f, p, t).temps \in Nat
<1>1. \A q \in Exprs : Depth[q] \in Nat /\ (Depth[q] < Depth[p] => q \in Level(n))
  BY PartsBelow DEF Level
<1>2. CASE p.node = "BOp"
  <2>1. p.arg1 \in Level(n) /\ p.arg2 \in Level(n)
    BY <1>1, <1>2, PartsBelow
  <2>2. PICK a : a = f[p.arg1][t]
    OBVIOUS
  <2>3. a = g[p.arg1][t] /\ a.temps \in Nat
    BY <2>1, <2>2 DEF Solves, Agree
  <2>4. PICK b : b = f[p.arg2][a.temps]
    OBVIOUS
  <2>5. b = g[p.arg2][a.temps] /\ b.temps \in Nat
    BY <2>1, <2>3, <2>4 DEF Solves, Agree
  <2>6. Compiled(f, p, t) = BOp(p.op, a, b) /\ Compiled(g, p, t) = BOp(p.op, a, b)
    BY <1>2, <2>2, <2>3, <2>4, <2>5, Zenon DEF Compiled
  <2>7. BOp(p.op, a, b).temps = b.temps + 1
    BY DEF BOp
  <2> QED BY <2>5, <2>6, <2>7
<1>3. CASE p.node = "UOp"
  <2>1. p.arg \in Level(n)
    BY <1>1, <1>3, PartsBelow
  <2>2. PICK a : a = f[p.arg][t]
    OBVIOUS
  <2>3. a = g[p.arg][t] /\ a.temps \in Nat
    BY <2>1, <2>2 DEF Solves, Agree
  <2>4. p.node # "BOp"
    BY <1>3
  <2>6. Compiled(f, p, t) = UOp(a) /\ Compiled(g, p, t) = UOp(a)
    BY <1>3, <2>2, <2>3 DEF Compiled
  <2>7. UOp(a).temps = a.temps + 1
    BY DEF UOp
  <2> QED BY <2>3, <2>6, <2>7
<1>4. CASE p.node = "Deref"
  <2>1. p.index \in Level(n)
    BY <1>1, <1>4, PartsBelow
  <2>2. f[p.index][t] = g[p.index][t]
    BY <2>1 DEF Agree
  <2> QED BY <1>4, <2>2 DEF Compiled, Operand
<1>5. CASE p.node \notin {"BOp", "UOp", "Deref"}
  BY <1>5 DEF Compiled, Operand
<1> QED BY <1>2, <1>3, <1>4, <1>5

\* Two solutions agree where both are.
LEMMA SolutionsAgree ==
  ASSUME NEW n \in Nat, NEW m \in Nat, NEW f, NEW g, Solves(f, n), Solves(g, m)
  PROVE  \A q \in Level(n) \cap Level(m) : \A t \in Nat : f[q][t] = g[q][t]
<1> DEFINE Odd == {k \in Nat : \E q \in Level(n) \cap Level(m) : Depth[q] = k /\ ~(\A t \in Nat : f[q][t] = g[q][t])}
<1> SUFFICES ASSUME Odd # {} PROVE FALSE
  BY PartsBelow DEF Level
<1>1. Smallest(Odd)
  BY SmallestExists
<1>2. PICK k \in Odd : \A j \in Odd : k <= j
  BY <1>1 DEF Smallest
<1>3. PICK q \in Level(n) \cap Level(m) : Depth[q] = k /\ ~(\A t \in Nat : f[q][t] = g[q][t])
  BY <1>2
<1>4. PICK t \in Nat : f[q][t] # g[q][t]
  BY <1>3
<1>5. k \in Nat /\ k < n /\ k < m /\ q \in Exprs
  BY <1>2, <1>3 DEF Level
<1>6. Agree(f, g, k)
  <2> SUFFICES ASSUME NEW r \in Level(k), NEW u \in Nat, f[r][u] # g[r][u] PROVE FALSE
    BY DEF Agree
  <2>1. r \in Exprs /\ Depth[r] \in Nat /\ Depth[r] < k
    BY PartsBelow DEF Level
  <2>2. r \in Level(n) \cap Level(m)
    BY <1>5, <2>1 DEF Level
  <2>3. Depth[r] \in Odd
    BY <2>1, <2>2
  <2> QED BY <1>2, <1>5, <2>1, <2>3
<1>7. Solves(f, k)
  BY <1>5, PartsBelow DEF Solves, Level
<1>8. q \in Exprs /\ t \in Nat /\ Depth[q] <= k /\ k \in Nat
  BY <1>3, <1>4, <1>5
<1>9. Compiled(f, q, t) = Compiled(g, q, t)
  <2> HIDE DEF Odd
  <2> QED BY <1>6, <1>7, <1>8, CompiledAgrees
<1>10. f[q][t] = Compiled(f, q, t) /\ g[q][t] = Compiled(g, q, t)
  BY <1>3, <1>4 DEF Solves
<1> QED BY <1>4, <1>9, <1>10

\* There is a solution for every level.
LEMMA SolutionExists ==
  ASSUME NEW n \in Nat
  PROVE  \E f : Solves(f, n)
<1> DEFINE None == {k \in Nat : ~\E f : Solves(f, k)}
<1> SUFFICES ASSUME None # {} PROVE FALSE
  OBVIOUS
<1>1. Smallest(None)
  BY SmallestExists
<1>2. PICK k \in None : \A j \in None : k <= j
  BY <1>1 DEF Smallest
<1>3. k # 0
  <2>1. Level(0) = {}
    BY PartsBelow DEF Level
  <2>2. Solves(0, 0)
    BY <2>1 DEF Solves
  <2> QED BY <1>2, <2>2
<1>4. PICK m \in Nat : k = m + 1
  BY <1>2, <1>3
<1>5. m \notin None
  BY <1>2, <1>4
<1>6. PICK f : Solves(f, m)
  BY <1>5
<1>7. PICK g : g = [p \in Exprs |-> [t \in Nat |-> Compiled(f, p, t)]]
  OBVIOUS
<1>8. \A p \in Exprs : \A t \in Nat : g[p][t] = Compiled(f, p, t)
  BY <1>7
<1>9. Agree(f, g, m)
  BY <1>6, <1>8 DEF Solves, Level, Agree
<1>10. ASSUME NEW p \in Level(k), NEW t \in Nat
       PROVE  g[p][t] = Compiled(g, p, t) /\ g[p][t].temps \in Nat
  <2>1. p \in Exprs /\ Depth[p] <= m
    BY <1>4, PartsBelow DEF Level
  <2>2. Compiled(f, p, t) = Compiled(g, p, t) /\ Compiled(f, p, t).temps \in Nat
    BY <1>6, <1>9, <2>1, CompiledAgrees
  <2>3. g[p][t] = Compiled(f, p, t)
    BY <1>8, <2>1
  <2> QED BY <2>2, <2>3
<1>11. Solves(g, k)
  BY <1>10 DEF Solves
<1> QED BY <1>2, <1>11

\* compile_expr satisfies its definition.
LEMMA CompileIs ==
  \A p \in Exprs : \A t \in Nat : compile_expr[p][t] = Compiled(compile_expr, p, t)
<1> DEFINE F == [p \in Exprs |-> [t \in Nat |-> (CHOOSE f : Solves(f, Depth[p] + 1))[p][t]]]
           Longer(f) == [p \in Exprs |-> [t \in Nat |-> Compiled(f, p, t)]]
<1>1. ASSUME NEW p \in Exprs, NEW t \in Nat, NEW n \in Nat, NEW f, Solves(f, n), Depth[p] < n
      PROVE  f[p][t] = F[p][t]
  <2>1. Depth[p] \in Nat /\ Depth[p] + 1 \in Nat
    BY PartsBelow
  <2>2. PICK g : g = CHOOSE h : Solves(h, Depth[p] + 1)
    OBVIOUS
  <2>3. \E h : Solves(h, Depth[p] + 1)
    BY <2>1, SolutionExists
  <2>4. Solves(g, Depth[p] + 1)
    BY <2>2, <2>3, Zenon
  <2>5. p \in Level(n) \cap Level(Depth[p] + 1)
    BY <1>1, <2>1 DEF Level
  <2>6. f[p][t] = g[p][t]
    BY <1>1, <2>1, <2>4, <2>5, SolutionsAgree
  <2>7. F[p][t] = g[p][t]
    BY <2>2
  <2> QED BY <2>6, <2>7
<1>2. ASSUME NEW p \in Exprs, NEW t \in Nat
      PROVE  F[p][t] = Compiled(F, p, t)
  <2>1. PICK n \in Nat : n = Depth[p] + 1
    BY PartsBelow
  <2>2. PICK f : Solves(f, n)
    BY SolutionExists
  <2>3. Agree(f, F, n)
    <3>1. ASSUME NEW q \in Level(n), NEW u \in Nat PROVE f[q][u] = F[q][u]
      BY <1>1, <2>2 DEF Level
    <3> HIDE DEF F
    <3> QED BY <3>1 DEF Agree
  <2>4. Depth[p] <= n /\ Depth[p] < n
    BY <2>1, PartsBelow
  <2>5. Compiled(f, p, t) = Compiled(F, p, t)
    BY <2>2, <2>3, <2>4, CompiledAgrees
  <2>6. p \in Level(n)
    BY <2>4 DEF Level
  <2>7. f[p][t] = Compiled(f, p, t)
    BY <2>2, <2>6 DEF Solves
  <2>8. f[p][t] = F[p][t]
    BY <1>1, <2>2, <2>4
  <2> QED BY <2>5, <2>7, <2>8
<1> HIDE DEF F
<1>3. F = Longer(F)
  <2>1. F = [p \in Exprs |-> [t \in Nat |-> F[p][t]]]
    BY DEF F
  <2> QED BY <1>2, <2>1
<1>4. compile_expr = CHOOSE f : f = Longer(f)
  BY Zenon DEF compile_expr, Compiled
<1>5. compile_expr = Longer(compile_expr)
  <2>1. \E f : f = Longer(f)
    BY <1>3
  <2> HIDE DEF Longer
  <2> QED BY <1>4, <2>1, Zenon
<1> QED BY <1>5

-----------------------------------------------------------------------------
(* Operands, instructions and code.                                        *)

VarAddrs   == [kind : {"var"}, name : DOMAIN Vars]
TempAddrs  == [kind : {"temp"}, no : Nat, type : Types]
ConstAddrs == {a \in [kind : {"const"}, val : Int, type : Types] : a.val \in ValuesOf(a.type)}
IndexAddrs == {a \in VarAddrs : Vars[a.name].type = "integer" /\ Vars[a.name].size = 0}
              \cup {a \in ConstAddrs : a.type = "integer"}
ArrAddrs   == [kind : {"arr"}, name : DOMAIN Vars, index : IndexAddrs]

\* What can be stored in, and what has a value.
Cells == VarAddrs \cup TempAddrs \cup ArrAddrs
Terms == Cells \cup ConstAddrs
Addrs == Terms \cup {NULL}

AddrType(a) == IF a.kind \in {"var", "arr"} THEN Vars[a.name].type ELSE a.type

Operations == Operators \cup {"UMINUS"}
Ops == Operations \cup {"MOV", "INPUT", "OUTPUT", "INC", "LABEL", "JUMP", "JUMP0", "JNE", "JG"}

\* The operands that go with an operation.
Fit(op, res, a, b) ==
  /\ op \in Operators => /\ res \in Cells /\ AddrType(res) = ResultType(op)
                          /\ a \in Terms /\ AddrType(a) = ArgType(op) /\ b \in Terms /\ AddrType(b) = ArgType(op)
  /\ op = "UMINUS" => res \in Cells /\ AddrType(res) = "integer" /\ a \in Terms /\ AddrType(a) = "integer"
  /\ op = "MOV" => res \in Cells /\ a \in Terms /\ AddrType(res) = AddrType(a)
  /\ op = "INC" => res \in Cells /\ AddrType(res) = "integer"
  /\ op = "INPUT" => res \in VarAddrs
  /\ op = "OUTPUT" => a \in Terms
  /\ op \in {"LABEL", "JUMP"} => a = NULL
  /\ op = "JUMP0" => a \in Terms /\ b = NULL
  /\ op \in {"JNE", "JG"} => a \in Cells /\ b \in ConstAddrs

Places == Nat \X {"", "do", "init", "test", "inc"}
Instrs == {i \in [op : Ops, res : Addrs, arg1 : Addrs, arg2 : Addrs, label : Nat, at : Places] :
             Fit(i.op, i.res, i.arg1, i.arg2)}
Codes  == Seq(Instrs)

\* The temporaries of an instruction and of a piece of code, by their numbers.
UsedBy(instr) == {n \in Nat : \E a \in {instr.res, instr.arg1, instr.arg2} : a.kind = "temp" /\ a.no = n}
Used(c)       == {n \in Nat : \E i \in 1..Len(c) : n \in UsedBy(c[i])}

\* And those themselves: one of each number.
Temps(c)   == {a \in TempAddrs : \E i \in 1..Len(c) : a \in {c[i].res, c[i].arg1, c[i].arg2}}
OneType(c) == \A a, b \in Temps(c) : a.no = b.no => a = b

\* What OptimizerSound says of one piece of code, when what comes after it
\* may begin with a MOV of its own.
MovesResult(c, i) ==
  /\ c[i + 1].arg1 = c[i].res
  /\ \A j \in 1..Len(c) : j # i + 1 => c[i].res # c[j].arg1 /\ c[i].res # c[j].arg2
Sound(c) ==
  /\ c \in Codes /\ OneType(c)
  /\ \A i \in 1..(Len(c) - 1) : c[i].res.kind = "temp" /\ c[i + 1].op = "MOV" => MovesResult(c, i)
  /\ Len(c) # 0 => c[Len(c)].res.kind # "temp"

\* The values of a type are words.
LEMMA ValuesAreInts ==
  \A y \in Types : \A v \in ValuesOf(y) : v \in Int /\ v \in Word
<1>1. MaxInt \in Nat \ {0}
  BY WordsAssumption
<1>2. \A v \in Word : v \in Int
  BY <1>1 DEF Word, MinInt
<1>3. {0, 1} \subseteq Word
  BY <1>1 DEF Word, MinInt
<1>4. \A y \in Types : ValuesOf(y) \subseteq Word
  BY <1>3 DEF ValuesOf
<1> QED BY <1>2, <1>4

\* An operand.
LEMMA AddrKinds ==
  /\ \A n \in DOMAIN Vars : VarAddr(n) \in VarAddrs /\ VarAddr(n) \in Addrs /\ VarAddr(n).kind = "var" /\ VarAddr(n).name = n
  /\ \A t \in Nat : \A y \in Types : TempAddr(t, y) \in TempAddrs /\ TempAddr(t, y) \in Addrs
                                     /\ TempAddr(t, y).kind = "temp" /\ TempAddr(t, y).no = t /\ TempAddr(t, y).type = y
  /\ \A y \in Types : \A v \in ValuesOf(y) : ConstAddr(v, y) \in ConstAddrs /\ ConstAddr(v, y) \in Addrs
                                             /\ ConstAddr(v, y).kind = "const" /\ ConstAddr(v, y).type = y
  /\ \A n \in DOMAIN Vars : \A a \in IndexAddrs : ArrAddr(n, a) \in ArrAddrs /\ ArrAddr(n, a) \in Addrs
                                                  /\ ArrAddr(n, a).kind = "arr" /\ ArrAddr(n, a).name = n
  /\ NULL \in Addrs /\ NULL.kind = "null"
<1>1. \A n \in DOMAIN Vars : VarAddr(n) \in VarAddrs /\ VarAddr(n).kind = "var" /\ VarAddr(n).name = n
  BY DEF VarAddrs, VarAddr
<1>2. \A t \in Nat : \A y \in Types : TempAddr(t, y) \in TempAddrs /\ TempAddr(t, y).kind = "temp" /\ TempAddr(t, y).no = t /\ TempAddr(t, y).type = y
  BY DEF TempAddrs, TempAddr
<1>3. \A y \in Types : \A v \in ValuesOf(y) : ConstAddr(v, y) \in ConstAddrs /\ ConstAddr(v, y).kind = "const" /\ ConstAddr(v, y).type = y
  <2>1. \A y \in Types : \A v \in ValuesOf(y) : v \in Int
    BY ValuesAreInts
  <2> QED BY <2>1 DEF ConstAddrs, ConstAddr
<1>4. \A n \in DOMAIN Vars : \A a \in IndexAddrs : ArrAddr(n, a) \in ArrAddrs /\ ArrAddr(n, a).kind = "arr" /\ ArrAddr(n, a).name = n
  BY DEF ArrAddrs, ArrAddr
<1>5. NULL \in Addrs /\ NULL.kind = "null"
  BY DEF Addrs, NULL
<1>6. VarAddrs \subseteq Addrs /\ TempAddrs \subseteq Addrs /\ ConstAddrs \subseteq Addrs /\ ArrAddrs \subseteq Addrs
  BY DEF Addrs, Terms, Cells
<1> QED BY <1>1, <1>2, <1>3, <1>4, <1>5, <1>6

\* Its kind tells what it is.
LEMMA KindOf ==
  ASSUME NEW a \in Addrs
  PROVE  /\ a.kind = "var" => a \in VarAddrs
         /\ a.kind = "temp" => a \in TempAddrs
         /\ a.kind = "const" => a \in ConstAddrs
         /\ a.kind = "arr" => a \in ArrAddrs
         /\ a.kind \in {"var", "temp", "const", "arr", "null"}
         /\ a.kind # "null" => a \in Terms
  BY DEF Addrs, Terms, Cells, VarAddrs, TempAddrs, ConstAddrs, ArrAddrs, NULL

\* The number of a temporary.
LEMMA TempNumber ==
  ASSUME NEW a \in Addrs, a.kind = "temp"
  PROVE  a.no \in Nat /\ a.type \in Types
<1>1. a \in TempAddrs
  BY KindOf
<1> QED BY <1>1 DEF TempAddrs

\* An instruction.
LEMMA InstrMade ==
  ASSUME NEW op \in Ops, NEW res \in Addrs, NEW a \in Addrs, NEW b \in Addrs, NEW l \in Nat, Fit(op, res, a, b),
         NEW instr, instr = irinstr_new4(op, res, a, b, l)
  PROVE  instr \in Instrs /\ instr.op = op /\ instr.res = res /\ instr.arg1 = a /\ instr.arg2 = b /\ instr.label = l
<1>1. <<0, "">> \in Places
  BY DEF Places
<1>2. /\ instr \in [op : Ops, res : Addrs, arg1 : Addrs, arg2 : Addrs, label : Nat, at : Places]
      /\ instr.op = op /\ instr.res = res /\ instr.arg1 = a /\ instr.arg2 = b /\ instr.label = l
  <2> HIDE DEF Ops, Addrs, Places
  <2> QED BY <1>1 DEF irinstr_new4
<1> QED BY <1>2, Zenon DEF Instrs

\* Its parts.
LEMMA InstrTyped ==
  ASSUME NEW instr \in Instrs
  PROVE  /\ instr.op \in Ops /\ instr.res \in Addrs /\ instr.arg1 \in Addrs /\ instr.arg2 \in Addrs
         /\ instr.label \in Nat /\ instr.at \in Places
         /\ Fit(instr.op, instr.res, instr.arg1, instr.arg2)
  BY DEF Instrs

\* A single instruction.
LEMMA Single ==
  ASSUME NEW instr \in Instrs
  PROVE  <<instr>> \in Codes /\ Len(<<instr>>) = 1 /\ <<instr>>[1] = instr
  BY DEF Codes

\* Two of them.
LEMMA Double ==
  ASSUME NEW c \in Instrs, NEW d \in Instrs
  PROVE  <<c, d>> \in Codes /\ Len(<<c, d>>) = 2 /\ <<c, d>>[1] = c /\ <<c, d>>[2] = d
  BY DEF Codes

\* One piece of code after another.
LEMMA Joined ==
  ASSUME NEW c \in Codes, NEW d \in Codes
  PROVE  /\ c \o d \in Codes /\ Len(c \o d) = Len(c) + Len(d)
         /\ Len(c) \in Nat /\ Len(d) \in Nat
         /\ \A i \in 1..Len(c) : (c \o d)[i] = c[i]
         /\ \A i \in 1..Len(d) : (c \o d)[Len(c) + i] = d[i]
<1>1. c \o d \in Codes
  BY ConcatProperties DEF Codes
<1>2. Len(c \o d) = Len(c) + Len(d) /\ Len(c) \in Nat /\ Len(d) \in Nat
  BY ConcatProperties, LenProperties DEF Codes
<1>3. \A i \in 1..(Len(c) + Len(d)) : (c \o d)[i] = IF i <= Len(c) THEN c[i] ELSE d[i - Len(c)]
  BY ConcatProperties DEF Codes
<1>4. \A i \in 1..Len(c) : (c \o d)[i] = c[i]
  BY <1>2, <1>3
<1>5. ASSUME NEW i \in 1..Len(d) PROVE (c \o d)[Len(c) + i] = d[i]
  <2>1. PICK k : k = Len(c) + i
    OBVIOUS
  <2>2. k \in 1..(Len(c) + Len(d)) /\ ~(k <= Len(c)) /\ k - Len(c) = i
    BY <1>2, <2>1
  <2>3. (c \o d)[k] = d[i]
    BY <1>3, <2>2
  <2> QED BY <2>1, <2>3
<1> QED BY <1>1, <1>2, <1>4, <1>5

\* The instructions of a piece of code.
LEMMA InCode ==
  ASSUME NEW c \in Codes
  PROVE  Len(c) \in Nat /\ \A i \in 1..Len(c) : c[i] \in Instrs
<1>1. Len(c) \in Nat
  BY LenProperties DEF Codes
<1>2. ASSUME NEW i \in 1..Len(c) PROVE c[i] \in Instrs
  BY ElementOfSeq DEF Codes
<1> QED BY <1>1, <1>2

\* Every place of two pieces of code is one of either.
LEMMA Halves ==
  ASSUME NEW n \in Nat, NEW m \in Nat, NEW i \in 1..(n + m)
  PROVE  i \in 1..n \/ \E k \in 1..m : i = n + k
<1>1. CASE i <= n
  BY <1>1
<1>2. CASE ~(i <= n)
  <2>1. PICK k : k = i - n
    OBVIOUS
  <2>2. k \in 1..m /\ i = n + k
    BY <1>2, <2>1
  <2> QED BY <2>2
<1> QED BY <1>1, <1>2

\* The temporaries of two pieces.
LEMMA UsedJoined ==
  ASSUME NEW c \in Codes, NEW d \in Codes
  PROVE  Used(c \o d) = Used(c) \cup Used(d)
<1>1. PICK e, n, m : e = c \o d /\ n = Len(c) /\ m = Len(d)
  OBVIOUS
<1>2. /\ n \in Nat /\ m \in Nat /\ Len(e) = n + m
      /\ \A i \in 1..n : e[i] = c[i]
      /\ \A i \in 1..m : e[n + i] = d[i]
  BY <1>1, Joined
<1>3. ASSUME NEW x \in Used(e) PROVE x \in Used(c) \cup Used(d)
  <2>1. PICK i \in 1..(n + m) : x \in Nat /\ x \in UsedBy(e[i])
    BY <1>2 DEF Used
  <2>2. i \in 1..n \/ \E k \in 1..m : i = n + k
    BY <1>2, Halves
  <2>3. CASE i \in 1..n
    BY <1>1, <1>2, <2>1, <2>3 DEF Used
  <2>4. ASSUME NEW k \in 1..m, i = n + k PROVE x \in Used(d)
    BY <1>1, <1>2, <2>1, <2>4 DEF Used
  <2> QED BY <2>2, <2>3, <2>4
<1>4. ASSUME NEW x \in Used(c) PROVE x \in Used(e)
  <2>1. PICK i \in 1..n : x \in Nat /\ x \in UsedBy(c[i])
    BY <1>1 DEF Used
  <2>2. i \in 1..(n + m) /\ e[i] = c[i]
    BY <1>2
  <2> QED BY <1>2, <2>1, <2>2 DEF Used
<1>5. ASSUME NEW x \in Used(d) PROVE x \in Used(e)
  <2>1. PICK i \in 1..m : x \in Nat /\ x \in UsedBy(d[i])
    BY <1>1 DEF Used
  <2>2. n + i \in 1..(n + m) /\ e[n + i] = d[i]
    BY <1>2
  <2> QED BY <1>2, <2>1, <2>2 DEF Used
<1> QED BY <1>1, <1>3, <1>4, <1>5

LEMMA TempsJoined ==
  ASSUME NEW c \in Codes, NEW d \in Codes
  PROVE  Temps(c \o d) = Temps(c) \cup Temps(d)
<1>1. PICK e, n, m : e = c \o d /\ n = Len(c) /\ m = Len(d)
  OBVIOUS
<1>2. /\ n \in Nat /\ m \in Nat /\ Len(e) = n + m
      /\ \A i \in 1..n : e[i] = c[i]
      /\ \A i \in 1..m : e[n + i] = d[i]
  BY <1>1, Joined
<1>3. ASSUME NEW x \in Temps(e) PROVE x \in Temps(c) \cup Temps(d)
  <2>1. PICK i \in 1..(n + m) : x \in TempAddrs /\ x \in {e[i].res, e[i].arg1, e[i].arg2}
    BY <1>2 DEF Temps
  <2>2. i \in 1..n \/ \E k \in 1..m : i = n + k
    BY <1>2, Halves
  <2>3. CASE i \in 1..n
    BY <1>1, <1>2, <2>1, <2>3 DEF Temps
  <2>4. ASSUME NEW k \in 1..m, i = n + k PROVE x \in Temps(d)
    <3>1. x \in {d[k].res, d[k].arg1, d[k].arg2}
      BY <1>2, <2>1, <2>4
    <3> QED BY <1>1, <2>1, <3>1 DEF Temps
  <2> QED BY <2>2, <2>3, <2>4
<1>4. ASSUME NEW x \in Temps(c) PROVE x \in Temps(e)
  <2>1. PICK i \in 1..n : x \in TempAddrs /\ x \in {c[i].res, c[i].arg1, c[i].arg2}
    BY <1>1 DEF Temps
  <2>2. i \in 1..(n + m) /\ e[i] = c[i]
    BY <1>2
  <2> QED BY <1>2, <2>1, <2>2 DEF Temps
<1>5. ASSUME NEW x \in Temps(d) PROVE x \in Temps(e)
  <2>1. PICK i \in 1..m : x \in TempAddrs /\ x \in {d[i].res, d[i].arg1, d[i].arg2}
    BY <1>1 DEF Temps
  <2>2. n + i \in 1..(n + m) /\ e[n + i] = d[i]
    BY <1>2
  <2> QED BY <1>2, <2>1, <2>2 DEF Temps
<1> QED BY <1>1, <1>3, <1>4, <1>5

\* Their numbers are those of the code.
LEMMA TempsUsed ==
  ASSUME NEW c, NEW a \in Temps(c)
  PROVE  a.kind = "temp" /\ a.no \in Nat /\ a.no \in Used(c)
<1>1. a.kind = "temp" /\ a.no \in Nat
  BY DEF Temps, TempAddrs
<1>2. PICK i \in 1..Len(c) : a \in {c[i].res, c[i].arg1, c[i].arg2}
  BY DEF Temps
<1>3. a.no \in UsedBy(c[i])
  BY <1>1, <1>2 DEF UsedBy
<1> QED BY <1>1, <1>3 DEF Used

LEMMA OneTypeJoined ==
  ASSUME NEW c \in Codes, NEW d \in Codes, OneType(c), OneType(d), Used(c) \cap Used(d) = {}
  PROVE  OneType(c \o d)
<1> SUFFICES ASSUME NEW a \in Temps(c) \cup Temps(d), NEW b \in Temps(c) \cup Temps(d), a.no = b.no PROVE a = b
  BY TempsJoined DEF OneType
<1>1. CASE a \in Temps(c) /\ b \in Temps(c)
  BY <1>1 DEF OneType
<1>2. CASE a \in Temps(d) /\ b \in Temps(d)
  BY <1>2 DEF OneType
<1>3. CASE a \in Temps(c) /\ b \in Temps(d)
  BY <1>3, TempsUsed
<1>4. CASE a \in Temps(d) /\ b \in Temps(c)
  BY <1>4, TempsUsed
<1> QED BY <1>1, <1>2, <1>3, <1>4

\* A temporary result is among the temporaries, and so is a temporary operand.
LEMMA UsedHas ==
  ASSUME NEW c \in Codes, NEW i \in 1..Len(c)
  PROVE  /\ c[i].res.kind = "temp" => c[i].res.no \in Used(c)
         /\ c[i].arg1.kind = "temp" => c[i].arg1.no \in Used(c)
         /\ c[i].arg2.kind = "temp" => c[i].arg2.no \in Used(c)
<1>1. c[i].res \in Addrs /\ c[i].arg1 \in Addrs /\ c[i].arg2 \in Addrs
  BY InCode, InstrTyped
<1>2. \A a \in {c[i].res, c[i].arg1, c[i].arg2} : a.kind = "temp" => a.no \in UsedBy(c[i])
  BY <1>1, TempNumber DEF UsedBy
<1>3. \A n \in UsedBy(c[i]) : n \in Nat
  BY DEF UsedBy
<1> QED BY <1>2, <1>3 DEF Used

\* Two sound pieces that share no temporary are a sound piece.
LEMMA SoundJoined ==
  ASSUME NEW c, NEW d, Sound(c), Sound(d), Used(c) \cap Used(d) = {}
  PROVE  Sound(c \o d)
<1>0. c \in Codes /\ d \in Codes
  BY DEF Sound
<1>1. PICK e, n, m : e = c \o d /\ n = Len(c) /\ m = Len(d)
  OBVIOUS
<1>2. /\ e \in Codes /\ n \in Nat /\ m \in Nat /\ Len(e) = n + m
      /\ \A i \in 1..n : e[i] = c[i]
      /\ \A i \in 1..m : e[n + i] = d[i]
  BY <1>0, <1>1, Joined
<1>3. ASSUME NEW i \in 1..(n + m - 1), e[i].res.kind = "temp", e[i + 1].op = "MOV"
      PROVE  MovesResult(e, i)
  <2>1. CASE i \in 1..n
    <3>1. e[i] = c[i] /\ c[i].res.kind = "temp"
      BY <1>2, <1>3, <2>1
    <3>2. i # n
      BY <1>0, <1>1, <2>1, <3>1 DEF Sound
    <3>3. i \in 1..(n - 1) /\ i + 1 \in 1..n
      BY <1>2, <2>1, <3>2
    <3>4. e[i + 1] = c[i + 1]
      BY <1>2, <3>3
    <3>5. MovesResult(c, i)
      BY <1>1, <1>3, <3>1, <3>3, <3>4 DEF Sound
    <3>6. c[i].res.no \in Used(c)
      BY <1>0, <1>1, <2>1, <3>1, UsedHas
    <3>7. ASSUME NEW j \in 1..(n + m), j # i + 1 PROVE c[i].res # e[j].arg1 /\ c[i].res # e[j].arg2
      <4>1. j \in 1..n \/ \E k \in 1..m : j = n + k
        BY <1>2, Halves
      <4>2. CASE j \in 1..n
        BY <1>1, <1>2, <3>5, <3>7, <4>2 DEF MovesResult
      <4>3. ASSUME NEW k \in 1..m, j = n + k PROVE c[i].res # e[j].arg1 /\ c[i].res # e[j].arg2
        <5>1. e[j] = d[k]
          BY <1>2, <4>3
        <5>2. c[i].res.no \notin Used(d)
          BY <3>6
        <5>3. (d[k].arg1.kind = "temp" => d[k].arg1.no \in Used(d)) /\ (d[k].arg2.kind = "temp" => d[k].arg2.no \in Used(d))
          BY <1>0, <1>1, UsedHas
        <5> QED BY <3>1, <5>1, <5>2, <5>3
      <4> QED BY <4>1, <4>2, <4>3
    <3>8. e[i + 1].arg1 = e[i].res
      BY <3>1, <3>4, <3>5 DEF MovesResult
    <3> QED BY <1>2, <3>1, <3>7, <3>8 DEF MovesResult
  <2>2. ASSUME NEW k \in 1..m, i = n + k PROVE MovesResult(e, i)
    <3>1. e[i] = d[k] /\ d[k].res.kind = "temp"
      BY <1>2, <1>3, <2>2
    <3>3. k \in 1..(m - 1) /\ k + 1 \in 1..m /\ i + 1 = n + (k + 1)
      BY <1>2, <1>3, <2>2
    <3>4. e[i + 1] = d[k + 1]
      BY <1>2, <3>3
    <3>5. MovesResult(d, k)
      BY <1>1, <1>3, <3>1, <3>3, <3>4 DEF Sound
    <3>6. d[k].res.no \in Used(d)
      BY <1>0, <1>1, <2>2, <3>1, UsedHas
    <3>7. ASSUME NEW j \in 1..(n + m), j # i + 1 PROVE d[k].res # e[j].arg1 /\ d[k].res # e[j].arg2
      <4>1. j \in 1..n \/ \E l \in 1..m : j = n + l
        BY <1>2, Halves
      <4>2. ASSUME NEW l \in 1..m, j = n + l PROVE d[k].res # e[j].arg1 /\ d[k].res # e[j].arg2
        <5>1. l # k + 1 /\ e[j] = d[l]
          BY <1>2, <3>3, <3>7, <4>2
        <5> QED BY <1>1, <3>5, <5>1 DEF MovesResult
      <4>3. CASE j \in 1..n
        <5>1. e[j] = c[j]
          BY <1>2, <4>3
        <5>2. d[k].res.no \notin Used(c)
          BY <3>6
        <5>3. (c[j].arg1.kind = "temp" => c[j].arg1.no \in Used(c)) /\ (c[j].arg2.kind = "temp" => c[j].arg2.no \in Used(c))
          BY <1>0, <1>1, <4>3, UsedHas
        <5> QED BY <3>1, <5>1, <5>2, <5>3
      <4> QED BY <4>1, <4>2, <4>3
    <3>8. e[i + 1].arg1 = e[i].res
      BY <3>1, <3>4, <3>5 DEF MovesResult
    <3> QED BY <1>2, <3>1, <3>7, <3>8 DEF MovesResult
  <2>3. i \in 1..(n + m)
    BY <1>2
  <2>4. i \in 1..n \/ \E k \in 1..m : i = n + k
    BY <1>2, <2>3, Halves
  <2> QED BY <2>1, <2>2, <2>4
<1>4. ASSUME Len(e) # 0 PROVE e[Len(e)].res.kind # "temp"
  <2>1. CASE m = 0
    <3>1. n \in 1..n /\ Len(e) = n
      BY <1>2, <1>4, <2>1
    <3> QED BY <1>1, <1>2, <3>1 DEF Sound
  <2>2. CASE m # 0
    <3>1. m \in 1..m /\ Len(e) = n + m
      BY <1>2, <2>2
    <3>2. e[n + m] = d[m]
      BY <1>2, <3>1
    <3> QED BY <1>1, <2>2, <3>1, <3>2 DEF Sound
  <2> QED BY <2>1, <2>2
<1>5. Sound(e)
  <2>1. \A i \in 1..(Len(e) - 1) : e[i].res.kind = "temp" /\ e[i + 1].op = "MOV" => MovesResult(e, i)
    BY <1>2, <1>3
  <2>2. OneType(e)
    BY <1>0, <1>1, OneTypeJoined DEF Sound
  <2> QED BY <1>2, <1>4, <2>1, <2>2, Zenon DEF Sound
<1> QED BY <1>1, <1>5

Good(c, N) == Sound(c) /\ Used(c) \subseteq N

LEMMA GoodJoined ==
  ASSUME NEW c, NEW d, NEW N, NEW M, Good(c, N), Good(d, M), N \cap M = {}
  PROVE  Good(c \o d, N \cup M)
<1>1. Sound(c) /\ Sound(d) /\ Used(c) \cap Used(d) = {}
  BY DEF Good
<1>2. Sound(c \o d)
  BY <1>1, SoundJoined
<1>3. c \in Codes /\ d \in Codes
  BY <1>1 DEF Sound
<1>4. Used(c \o d) = Used(c) \cup Used(d)
  BY <1>3, UsedJoined
<1> QED BY <1>2, <1>4 DEF Good

\* What says nothing of temporaries goes anywhere.
Quiet(instr) == instr \in Instrs /\ instr.res.kind # "temp" /\ instr.arg1.kind # "temp" /\ instr.arg2.kind # "temp"

LEMMA QuietGood ==
  ASSUME NEW c \in Codes, \A i \in 1..Len(c) : Quiet(c[i])
  PROVE  Good(c, {})
<1>1. Len(c) \in Nat
  BY InCode
<1>2. Used(c) = {}
  BY DEF Used, UsedBy, Quiet
<1>3. \A i \in 1..(Len(c) - 1) : c[i].res.kind # "temp"
  BY <1>1 DEF Quiet
<1>4. ASSUME Len(c) # 0 PROVE c[Len(c)].res.kind # "temp"
  <2>1. Len(c) \in 1..Len(c)
    BY <1>1, <1>4
  <2> QED BY <2>1 DEF Quiet
<1>5. OneType(c)
  <2>1. Temps(c) = {}
    BY <1>2, TempsUsed
  <2> QED BY <2>1 DEF OneType
<1> QED BY <1>2, <1>3, <1>4, <1>5 DEF Good, Sound

LEMMA QuietOne ==
  ASSUME NEW instr, Quiet(instr)
  PROVE  <<instr>> \in Codes /\ Good(<<instr>>, {})
<1>1. instr \in Instrs
  BY DEF Quiet
<1>2. PICK c : c = <<instr>>
  OBVIOUS
<1>3. c \in Codes /\ Len(c) = 1 /\ c[1] = instr
  BY <1>1, <1>2, Single
<1>4. \A i \in 1..Len(c) : Quiet(c[i])
  BY <1>3
<1>5. Good(c, {})
  BY <1>3, <1>4, QuietGood
<1> QED BY <1>2, <1>3, <1>5

LEMMA QuietTwo ==
  ASSUME NEW a, NEW b, Quiet(a), Quiet(b)
  PROVE  <<a, b>> \in Codes /\ Good(<<a, b>>, {})
<1>1. a \in Instrs /\ b \in Instrs
  BY DEF Quiet
<1>2. PICK c : c = <<a, b>>
  OBVIOUS
<1>3. c \in Codes /\ Len(c) = 2 /\ c[1] = a /\ c[2] = b
  BY <1>1, <1>2, Double
<1>4. \A i \in 1..Len(c) : Quiet(c[i])
  BY <1>3
<1>5. Good(c, {})
  BY <1>3, <1>4, QuietGood
<1> QED BY <1>2, <1>3, <1>5

\* Saying which statement code is for changes nothing else.
LEMMA Placed ==
  ASSUME NEW c \in Codes, NEW place \in Places
  PROVE  /\ AtPlace(place, c) \in Codes /\ Len(AtPlace(place, c)) = Len(c)
         /\ \A i \in 1..Len(c) : /\ AtPlace(place, c)[i].op = c[i].op /\ AtPlace(place, c)[i].res = c[i].res
                                 /\ AtPlace(place, c)[i].arg1 = c[i].arg1 /\ AtPlace(place, c)[i].arg2 = c[i].arg2
                                 /\ AtPlace(place, c)[i].label = c[i].label
<1>1. PICK n, d : n = Len(c) /\ d = AtPlace(place, c)
  OBVIOUS
<1>2. n \in Nat /\ DOMAIN c = 1..n /\ \A i \in 1..n : c[i] \in Instrs
  BY <1>1, InCode, LenProperties DEF Codes
<1>3. d = [i \in 1..n |-> [c[i] EXCEPT !.at = place]]
  BY <1>1, <1>2 DEF AtPlace
<1>4. ASSUME NEW i \in 1..n
      PROVE  /\ d[i] \in Instrs
             /\ d[i].op = c[i].op /\ d[i].res = c[i].res /\ d[i].arg1 = c[i].arg1 /\ d[i].arg2 = c[i].arg2
             /\ d[i].label = c[i].label
  <2>1. PICK x \in Instrs : x = c[i]
    BY <1>2
  <2>2. d[i] = [x EXCEPT !.at = place]
    BY <1>3, <2>1
  <2>3. /\ x \in [op : Ops, res : Addrs, arg1 : Addrs, arg2 : Addrs, label : Nat, at : Places]
        /\ Fit(x.op, x.res, x.arg1, x.arg2)
    BY DEF Instrs
  <2>4. /\ d[i] \in [op : Ops, res : Addrs, arg1 : Addrs, arg2 : Addrs, label : Nat, at : Places]
        /\ d[i].op = x.op /\ d[i].res = x.res /\ d[i].arg1 = x.arg1 /\ d[i].arg2 = x.arg2 /\ d[i].label = x.label
    <3> HIDE DEF Ops, Addrs, Places
    <3> QED BY <2>2, <2>3
  <2>5. d[i] \in Instrs
    BY <2>3, <2>4, Zenon DEF Instrs
  <2> QED BY <2>1, <2>4, <2>5
<1>5. d \in [1..n -> Instrs]
  BY <1>3, <1>4
<1>6. d \in Seq(Instrs) /\ Len(d) = n
  <2>1. d \in Seq(Instrs)
    BY <1>2, <1>5, SeqDef
  <2>2. DOMAIN d = 1..Len(d) /\ Len(d) \in Nat
    BY <2>1, LenProperties
  <2> QED BY <1>2, <1>5, <2>1, <2>2
<1> QED BY <1>1, <1>4, <1>6 DEF Codes

LEMMA PlacedGood ==
  ASSUME NEW c, NEW N, Good(c, N), NEW place \in Places
  PROVE  Good(AtPlace(place, c), N)
<1>0. c \in Codes
  BY DEF Good, Sound
<1>1. PICK n, d : n = Len(c) /\ d = AtPlace(place, c)
  OBVIOUS
<1>2. /\ n \in Nat /\ d \in Codes /\ Len(d) = n
      /\ \A i \in 1..n : d[i].op = c[i].op /\ d[i].res = c[i].res /\ d[i].arg1 = c[i].arg1 /\ d[i].arg2 = c[i].arg2
  BY <1>0, <1>1, Placed, InCode
<1>3. Used(d) = Used(c)
  BY <1>1, <1>2 DEF Used, UsedBy
<1>4. \A i \in 1..(n - 1) : d[i].res.kind = "temp" /\ d[i + 1].op = "MOV" => MovesResult(d, i)
  <2> SUFFICES ASSUME NEW i \in 1..(n - 1), d[i].res.kind = "temp", d[i + 1].op = "MOV" PROVE MovesResult(d, i)
    OBVIOUS
  <2>1. i \in 1..n /\ i + 1 \in 1..n
    BY <1>2
  <2>2. c[i].res = d[i].res /\ c[i + 1].op = d[i + 1].op /\ c[i + 1].arg1 = d[i + 1].arg1
    BY <1>2, <2>1
  <2>3. MovesResult(c, i)
    BY <1>1, <2>2 DEF Good, Sound
  <2>4. \A j \in 1..n : j # i + 1 => d[i].res # d[j].arg1 /\ d[i].res # d[j].arg2
    BY <1>1, <1>2, <2>2, <2>3 DEF MovesResult
  <2>5. d[i + 1].arg1 = d[i].res
    BY <2>2, <2>3 DEF MovesResult
  <2> QED BY <1>2, <2>4, <2>5, Zenon DEF MovesResult
<1>5. n # 0 => d[n].res.kind # "temp"
  BY <1>1, <1>2 DEF Good, Sound
<1>6. OneType(d)
  <2>1. Temps(d) = Temps(c)
    BY <1>1, <1>2 DEF Temps
  <2> QED BY <2>1 DEF Good, Sound, OneType
<1> QED BY <1>1, <1>2, <1>3, <1>4, <1>5, <1>6 DEF Good, Sound

-----------------------------------------------------------------------------
(* The code of an expression: new temporaries, each result used later      *)
(* only, the last one being the operand.                                   *)

Fresh(a, lo, hi) == a.kind = "temp" => lo < a.no /\ a.no <= hi

Made(r, t) ==
  /\ r.code \in Codes /\ r.addr \in Addrs /\ r.temps \in Nat /\ t <= r.temps
  /\ \A i \in 1..Len(r.code) :
       /\ r.code[i].op \in Operations
       /\ Fresh(r.code[i].res, t, r.temps)
       /\ Fresh(r.code[i].arg1, t, r.temps - 1)
       /\ Fresh(r.code[i].arg2, t, r.temps - 1)
  /\ Fresh(r.addr, t, r.temps)
  /\ Len(r.code) # 0 => /\ r.addr = r.code[Len(r.code)].res
                        /\ r.addr.kind = "temp" /\ r.addr.no = r.temps
  /\ Len(r.code) = 0 => r.addr.kind # "temp"
  /\ OneType(r.code)

\* One piece of an expression's code within more of it.
LEMMA Within ==
  ASSUME NEW t \in Nat, NEW lo \in Nat, NEW hi \in Nat, NEW r, Made(r, lo), t <= lo, r.temps <= hi, NEW i \in 1..Len(r.code)
  PROVE  /\ r.code[i] \in Instrs /\ r.code[i].op \in Operations
         /\ Fresh(r.code[i].res, t, hi) /\ Fresh(r.code[i].arg1, t, hi - 1) /\ Fresh(r.code[i].arg2, t, hi - 1)
<1>1. r.code \in Codes /\ r.temps \in Nat
  BY DEF Made
<1>2. r.code[i] \in Instrs
  BY <1>1, InCode
<1>3. r.code[i].res \in Addrs /\ r.code[i].arg1 \in Addrs /\ r.code[i].arg2 \in Addrs
  BY <1>2, InstrTyped
<1>4. Fresh(r.code[i].res, lo, r.temps) /\ Fresh(r.code[i].arg1, lo, r.temps - 1) /\ Fresh(r.code[i].arg2, lo, r.temps - 1)
      /\ r.code[i].op \in Operations
  BY DEF Made
<1>5. \A a \in Addrs : (Fresh(a, lo, r.temps) => Fresh(a, t, hi)) /\ (Fresh(a, lo, r.temps - 1) => Fresh(a, t, hi - 1))
  BY <1>1, TempNumber DEF Fresh
<1> QED BY <1>2, <1>3, <1>4, <1>5

\* The temporaries of such code are new.
LEMMA MadeUses ==
  ASSUME NEW t \in Nat, NEW r, Made(r, t)
  PROVE  Used(r.code) \subseteq (t + 1)..r.temps
<1>0. r.code \in Codes /\ r.temps \in Nat
  BY DEF Made
<1> SUFFICES ASSUME NEW x \in Used(r.code) PROVE x \in (t + 1)..r.temps
  OBVIOUS
<1>1. PICK i \in 1..Len(r.code) : x \in Nat /\ x \in UsedBy(r.code[i])
  BY DEF Used
<1>2. PICK a \in {r.code[i].res, r.code[i].arg1, r.code[i].arg2} : a.kind = "temp" /\ a.no = x
  BY <1>1 DEF UsedBy
<1>3. Fresh(r.code[i].res, t, r.temps) /\ Fresh(r.code[i].arg1, t, r.temps - 1) /\ Fresh(r.code[i].arg2, t, r.temps - 1)
  BY DEF Made
<1>4. Fresh(a, t, r.temps) \/ Fresh(a, t, r.temps - 1)
  BY <1>2, <1>3
<1> QED BY <1>0, <1>1, <1>2, <1>4 DEF Fresh

\* A temporary operand is among them.
LEMMA OperandKept ==
  ASSUME NEW t \in Nat, NEW r, Made(r, t), r.addr.kind = "temp"
  PROVE  r.addr \in Temps(r.code)
<1>1. r.code \in Codes /\ r.addr \in Addrs
  BY DEF Made
<1>2. Len(r.code) \in Nat /\ Len(r.code) # 0 /\ r.addr = r.code[Len(r.code)].res
  BY <1>1, InCode DEF Made
<1>3. r.addr \in TempAddrs
  BY <1>1, KindOf
<1>4. Len(r.code) \in 1..Len(r.code)
  BY <1>2
<1> QED BY <1>2, <1>3, <1>4 DEF Temps

\* An operation: its code is that of the operands and an instruction.
LEMMA OperationMade ==
  ASSUME NEW t \in Nat, NEW a, NEW b, Made(a, t), Made(b, a.temps), NEW op \in Operations, NEW type \in Types,
         NEW x \in Addrs, x = b.addr \/ x = NULL, Fit(op, TempAddr(b.temps + 1, type), a.addr, x),
         NEW r, r = [code |-> a.code \o b.code \o <<irinstr_new2(op, TempAddr(b.temps + 1, type), a.addr, x)>>,
                     addr |-> TempAddr(b.temps + 1, type), temps |-> b.temps + 1]
  PROVE  Made(r, t)
<1>1. PICK hi, res, I, c, d, e : /\ hi = b.temps + 1 /\ res = TempAddr(hi, type)
                                 /\ I = irinstr_new2(op, res, a.addr, x)
                                 /\ c = a.code \o b.code /\ d = <<I>> /\ e = c \o d
  OBVIOUS
<1>2. /\ a.code \in Codes /\ a.addr \in Addrs /\ a.temps \in Nat /\ t <= a.temps
      /\ b.code \in Codes /\ b.addr \in Addrs /\ b.temps \in Nat /\ a.temps <= b.temps
      /\ hi \in Nat
  BY <1>1 DEF Made
<1>3. r.code = e /\ r.addr = res /\ r.temps = hi
  BY <1>1
<1>4. res \in Addrs /\ res.kind = "temp" /\ res.no = hi
  BY <1>1, <1>2, AddrKinds
<1>5. I \in Instrs /\ I.op = op /\ I.res = res /\ I.arg1 = a.addr /\ I.arg2 = x
  <2>1. I = irinstr_new4(op, res, a.addr, x, 0)
    BY <1>1 DEF irinstr_new2
  <2>2. 0 \in Nat
    OBVIOUS
  <2>3. PICK y \in Addrs : y = a.addr
    BY <1>2
  <2>4. I = irinstr_new4(op, res, y, x, 0)
    BY <2>1, <2>3
  <2>5. res \in Addrs /\ op \in Ops /\ Fit(op, res, y, x)
    BY <1>1, <1>4, <2>3 DEF Ops
  <2>6. I \in Instrs /\ I.op = op /\ I.res = res /\ I.arg1 = y /\ I.arg2 = x
    BY <2>2, <2>4, <2>5, InstrMade
  <2> QED BY <2>3, <2>6
<1>6. d \in Codes /\ Len(d) = 1 /\ d[1] = I
  BY <1>1, <1>5, Single
<1>7. PICK n, m : n = Len(a.code) /\ m = Len(b.code)
  OBVIOUS
<1>8. /\ c \in Codes /\ n \in Nat /\ m \in Nat /\ Len(c) = n + m
      /\ \A i \in 1..n : c[i] = a.code[i]
      /\ \A i \in 1..m : c[n + i] = b.code[i]
  BY <1>1, <1>2, <1>7, Joined
<1>9. /\ e \in Codes /\ Len(e) = (n + m) + 1
      /\ \A i \in 1..(n + m) : e[i] = c[i]
      /\ \A i \in 1..1 : e[(n + m) + i] = d[i]
  <2>1. /\ e \in Codes /\ Len(e) = Len(c) + Len(d)
        /\ \A i \in 1..Len(c) : e[i] = c[i]
        /\ \A i \in 1..Len(d) : e[Len(c) + i] = d[i]
    <3>1. c \in Codes /\ d \in Codes /\ e = c \o d
      BY <1>1, <1>6, <1>8
    <3> HIDE <1>1
    <3> QED BY <3>1, Joined
  <2> QED BY <1>6, <1>8, <2>1, Zenon
<1>10. e[(n + m) + 1] = I
  <2>1. 1 \in 1..1
    OBVIOUS
  <2> QED BY <1>6, <1>9, <2>1
<1>11. Fresh(a.addr, t, hi - 1) /\ Fresh(x, t, hi - 1)
  <2>1. Fresh(a.addr, t, a.temps) /\ Fresh(b.addr, a.temps, b.temps)
    BY DEF Made
  <2>2. \A y \in Addrs : (Fresh(y, t, a.temps) => Fresh(y, t, hi - 1)) /\ (Fresh(y, a.temps, b.temps) => Fresh(y, t, hi - 1))
    BY <1>1, <1>2, TempNumber DEF Fresh
  <2>3. Fresh(NULL, t, hi - 1)
    BY AddrKinds DEF Fresh
  <2> QED BY <1>2, <2>1, <2>2, <2>3
<1>12. ASSUME NEW i \in 1..((n + m) + 1)
       PROVE  e[i].op \in Operations /\ Fresh(e[i].res, t, hi) /\ Fresh(e[i].arg1, t, hi - 1) /\ Fresh(e[i].arg2, t, hi - 1)
  <2>0. n + m \in Nat /\ 1 \in Nat
    BY <1>8
  <2>1. i \in 1..(n + m) \/ \E k \in 1..1 : i = (n + m) + k
    BY <2>0, Halves
  <2>2. CASE i \in 1..n
    <3>1. e[i] = a.code[i]
      <4>1. i \in 1..(n + m)
        BY <1>8, <2>2
      <4> QED BY <1>8, <1>9, <2>2, <4>1, Zenon
    <3>2. t <= t /\ a.temps <= hi
      BY <1>1, <1>2
    <3> QED BY <1>2, <1>7, <2>2, <3>1, <3>2, Within
  <2>3. ASSUME NEW k \in 1..m, i = n + k
        PROVE  e[i].op \in Operations /\ Fresh(e[i].res, t, hi) /\ Fresh(e[i].arg1, t, hi - 1) /\ Fresh(e[i].arg2, t, hi - 1)
    <3>1. e[i] = b.code[k]
      BY <1>8, <1>9, <2>3
    <3>2. b.temps <= hi /\ a.temps \in Nat /\ hi \in Nat /\ t <= a.temps /\ k \in 1..Len(b.code)
      BY <1>1, <1>2, <1>7
    <3>3. /\ b.code[k].op \in Operations /\ Fresh(b.code[k].res, t, hi)
          /\ Fresh(b.code[k].arg1, t, hi - 1) /\ Fresh(b.code[k].arg2, t, hi - 1)
      <4> HIDE <1>1
      <4> QED BY <3>2, Within
    <3> QED BY <3>1, <3>3
  <2>4. CASE i = (n + m) + 1
    <3>1. Fresh(res, t, hi)
      BY <1>1, <1>2, <1>4 DEF Fresh
    <3> QED BY <1>5, <1>10, <1>11, <2>4, <3>1
  <2>5. i \in 1..(n + m) => i \in 1..n \/ \E k \in 1..m : i = n + k
    BY <1>8, Halves
  <2> QED BY <2>1, <2>2, <2>3, <2>4, <2>5
<1>13. Fresh(res, t, hi) /\ t <= hi
  BY <1>1, <1>2, <1>4 DEF Fresh
<1>14. res = e[Len(e)].res
  BY <1>5, <1>9, <1>10
<1>15. OneType(e)
  <2>1. Temps(e) = (Temps(a.code) \cup Temps(b.code)) \cup Temps(d)
    <3>1. Temps(c) = Temps(a.code) \cup Temps(b.code)
      BY <1>1, <1>2, TempsJoined
    <3>2. Temps(e) = Temps(c) \cup Temps(d)
      <4>1. c \in Codes /\ d \in Codes /\ e = c \o d
        BY <1>1, <1>6, <1>8
      <4> HIDE <1>1
      <4> QED BY <4>1, TempsJoined
    <3> QED BY <3>1, <3>2
  <2>2. \A y \in Temps(d) : y = res \/ y \in Temps(a.code) \cup Temps(b.code)
    <3> SUFFICES ASSUME NEW y \in Temps(d), y # res PROVE y \in Temps(a.code) \cup Temps(b.code)
      OBVIOUS
    <3>1. y.kind = "temp"
      BY TempsUsed
    <3>2. y \in {res, a.addr, x}
      BY <1>5, <1>6 DEF Temps
    <3>3. y = a.addr \/ y = b.addr
      BY <3>1, <3>2, AddrKinds
    <3>4. a.temps \in Nat
      BY <1>2
    <3> QED BY <3>1, <3>3, <3>4, OperandKept
  <2>3. Used(a.code) \subseteq (t + 1)..a.temps /\ Used(b.code) \subseteq (a.temps + 1)..b.temps
    BY <1>2, MadeUses
  <2>4. OneType(a.code) /\ OneType(b.code)
    BY DEF Made
  <2>5. Used(a.code) \cap Used(b.code) = {}
    BY <1>2, <2>3
  <2>6. OneType(c)
    BY <1>1, <1>2, <2>4, <2>5, OneTypeJoined
  <2>7. Temps(c) = Temps(a.code) \cup Temps(b.code)
    BY <1>1, <1>2, TempsJoined
  <2>8. \A y \in Temps(c) : y.no # hi
    <3> SUFFICES ASSUME NEW y \in Temps(c) PROVE y.no # hi
      OBVIOUS
    <3>1. y.no \in Nat /\ (y.no \in Used(a.code) \/ y.no \in Used(b.code))
      BY <2>7, TempsUsed
    <3>2. y.no <= b.temps
      BY <1>2, <2>3, <3>1
    <3> QED BY <1>1, <1>2, <3>1, <3>2
  <2>9. \A y \in Temps(e) : y = res \/ y \in Temps(c)
    BY <2>1, <2>2, <2>7
  <2> QED BY <1>4, <2>6, <2>8, <2>9 DEF OneType
<1>16. Len(e) # 0
  BY <1>8, <1>9
<1> QED BY <1>2, <1>3, <1>4, <1>9, <1>12, <1>13, <1>14, <1>15, <1>16 DEF Made

\* What has no code.
LEMMA OperandMade ==
  ASSUME NEW t \in Nat, NEW addr \in Addrs, addr.kind # "temp"
  PROVE  Made(Operand(addr, t), t)
<1>1. PICK r : r = Operand(addr, t)
  OBVIOUS
<1>2. r.code = << >> /\ r.addr = addr /\ r.temps = t
  BY <1>1 DEF Operand
<1>3. << >> \in Codes /\ Len(<< >>) = 0
  BY DEF Codes
<1>4. OneType(r.code)
  BY <1>2, <1>3 DEF OneType, Temps
<1>5. Made(r, t)
  BY <1>2, <1>3, <1>4 DEF Made, Fresh
<1> QED BY <1>1, <1>5

\* The operand of an expression has its type.
LEMMA ExpressionAddr ==
  ASSUME NEW p \in Exprs, NEW t \in Nat, NEW a, a = compile_expr[p][t].addr
  PROVE  a.kind \in {"var", "temp", "const", "arr"} /\ AddrType(a) = TypeOfExpr(p)
<1>1. compile_expr[p][t] = Compiled(compile_expr, p, t)
  BY CompileIs
<1>2. CASE p.node = "BOp"
  <2>1. \E x, y : Compiled(compile_expr, p, t) = BOp(p.op, x, y)
    BY <1>2 DEF Compiled
  <2>2. PICK n : a = TempAddr(n, ResultType(p.op))
    BY <1>1, <2>1 DEF BOp
  <2> QED BY <1>2, <2>2 DEF TempAddr, AddrType, TypeOfExpr
<1>3. CASE p.node = "UOp"
  <2>1. \E x : Compiled(compile_expr, p, t) = UOp(x)
    BY <1>3 DEF Compiled
  <2>2. PICK n : a = TempAddr(n, "integer")
    BY <1>1, <2>1 DEF UOp
  <2> QED BY <1>3, <2>2 DEF TempAddr, AddrType, TypeOfExpr
<1>4. CASE p.node = "Deref"
  <2>1. PICK i : a = ArrAddr(p.name, i)
    BY <1>1, <1>4 DEF Compiled, Operand
  <2> QED BY <1>4, <2>1 DEF ArrAddr, AddrType, TypeOfExpr
<1>5. CASE p.node = "Var"
  <2>1. a = VarAddr(p.name)
    BY <1>1, <1>5 DEF Compiled, Operand
  <2> QED BY <1>5, <2>1 DEF VarAddr, AddrType, TypeOfExpr
<1>6. CASE p.node \notin {"BOp", "UOp", "Deref", "Var"}
  <2>2. Compiled(compile_expr, p, t) = Operand(ConstAddr(p.val, p.type), t)
    BY <1>6, Zenon DEF Compiled
  <2>1. a = ConstAddr(p.val, p.type)
    BY <1>1, <2>2 DEF Operand
  <2> QED BY <1>6, <2>1 DEF ConstAddr, AddrType, TypeOfExpr
<1> QED BY <1>2, <1>3, <1>4, <1>5, <1>6

\* The code of an expression is as said above.
LEMMA ExpressionMade ==
  ASSUME NEW p \in Exprs, NEW t \in Nat
  PROVE  Made(compile_expr[p][t], t)
<1> DEFINE Odd == {k \in Nat : \E q \in Exprs : Depth[q] = k /\ ~(\A u \in Nat : Made(compile_expr[q][u], u))}
<1> SUFFICES ASSUME Odd # {} PROVE FALSE
  BY PartsBelow
<1>1. Smallest(Odd)
  BY SmallestExists
<1>2. PICK k \in Odd : \A j \in Odd : k <= j
  BY <1>1 DEF Smallest
<1>3. PICK q \in Exprs : Depth[q] = k /\ ~(\A u \in Nat : Made(compile_expr[q][u], u))
  BY <1>2
<1>4. PICK u \in Nat : ~Made(compile_expr[q][u], u)
  BY <1>3
<1>5. k \in Nat
  BY <1>2
<1>6. ASSUME NEW r \in Exprs, Depth[r] < k, NEW v \in Nat PROVE Made(compile_expr[r][v], v)
  <2> SUFFICES ASSUME ~Made(compile_expr[r][v], v) PROVE FALSE
    OBVIOUS
  <2>1. Depth[r] \in Odd
    BY PartsBelow
  <2>2. Depth[r] \in Nat
    BY PartsBelow
  <2> QED BY <1>2, <1>5, <1>6, <2>1, <2>2
<1>7. compile_expr[q][u] = Compiled(compile_expr, q, u)
  BY CompileIs
<1>8. CASE q.node = "BOp"
  <2>1. /\ q.op \in Operators /\ q.arg1 \in Exprs /\ q.arg2 \in Exprs
        /\ Depth[q.arg1] < k /\ Depth[q.arg2] < k
    BY <1>3, <1>8, ExprsAssumption
  <2>2. PICK a : a = compile_expr[q.arg1][u]
    OBVIOUS
  <2>3. Made(a, u)
    BY <1>6, <2>1, <2>2
  <2>4. a.temps \in Nat
    BY <2>3 DEF Made
  <2>5. PICK b : b = compile_expr[q.arg2][a.temps]
    OBVIOUS
  <2>6. Made(b, a.temps)
    BY <1>6, <2>1, <2>4, <2>5
  <2>16. /\ a.addr.kind # "null" /\ AddrType(a.addr) = TypeOfExpr(q.arg1)
         /\ b.addr.kind # "null" /\ AddrType(b.addr) = TypeOfExpr(q.arg2)
    <3>1. a.addr.kind \in {"var", "temp", "const", "arr"} /\ AddrType(a.addr) = TypeOfExpr(q.arg1)
      BY <2>1, <2>2, ExpressionAddr
    <3>2. b.addr.kind \in {"var", "temp", "const", "arr"} /\ AddrType(b.addr) = TypeOfExpr(q.arg2)
      BY <2>1, <2>4, <2>5, ExpressionAddr
    <3> QED BY <3>1, <3>2
  <2>7. Compiled(compile_expr, q, u) = BOp(q.op, a, b)
    BY <1>8, <2>2, <2>5, Zenon DEF Compiled
  <2>8. q.op \in Operations
    BY <2>1 DEF Operations
  <2>9. PICK type : type = ResultType(q.op)
    OBVIOUS
  <2>10. type \in Types
    BY <2>9 DEF ResultType, Types
  <2>11. PICK r : r = [code |-> a.code \o b.code \o <<irinstr_new2(q.op, TempAddr(b.temps + 1, type), a.addr, b.addr)>>,
                       addr |-> TempAddr(b.temps + 1, type), temps |-> b.temps + 1]
    OBVIOUS
  <2>12. BOp(q.op, a, b) = r
    BY <2>9, <2>11, Zenon DEF BOp
  <2>13. a.addr \in Addrs /\ b.addr \in Addrs /\ b.temps \in Nat
    BY <2>3, <2>6 DEF Made
  <2>15. Fit(q.op, TempAddr(b.temps + 1, type), a.addr, b.addr)
    <3>1. AddrType(a.addr) = ArgType(q.op) /\ AddrType(b.addr) = ArgType(q.op)
      <4>1. TypeOfExpr(q.arg1) = ArgType(q.op) /\ TypeOfExpr(q.arg2) = ArgType(q.op)
        BY <1>8, TypesAssumption DEF Is
      <4> QED BY <2>16, <4>1
    <3>2. a.addr \in Terms /\ b.addr \in Terms
      BY <2>13, <2>16, KindOf
    <3>3. PICK res : res = TempAddr(b.temps + 1, type)
      OBVIOUS
    <3>4. b.temps + 1 \in Nat
      BY <2>13
    <3>5. res \in TempAddrs /\ res.kind = "temp" /\ res.type = type
      BY <2>10, <3>3, <3>4, AddrKinds
    <3>6. res \in Cells /\ AddrType(res) = ResultType(q.op)
      BY <2>9, <3>5 DEF Cells, AddrType
    <3>7. q.op \notin {"UMINUS", "MOV", "INC", "INPUT", "OUTPUT", "LABEL", "JUMP", "JUMP0", "JNE", "JG"}
      BY <2>1 DEF Operators
    <3> QED BY <3>1, <3>2, <3>3, <3>6, <3>7 DEF Fit
  <2>14. Made(r, u)
    BY <2>3, <2>6, <2>8, <2>10, <2>11, <2>13, <2>15, OperationMade
  <2> QED BY <1>4, <1>7, <2>7, <2>12, <2>14
<1>9. CASE q.node = "UOp"
  <2>1. q.arg \in Exprs /\ Depth[q.arg] < k
    BY <1>3, <1>9, PartsBelow
  <2>2. PICK a : a = compile_expr[q.arg][u]
    OBVIOUS
  <2>3. Made(a, u)
    BY <1>6, <2>1, <2>2
  <2>4. a.temps \in Nat /\ a.code \in Codes
    BY <2>3 DEF Made
  <2>5. PICK b : b = Operand(NULL, a.temps)
    OBVIOUS
  <2>6. Made(b, a.temps)
    BY <2>4, <2>5, OperandMade, AddrKinds
  <2>7. q.node # "BOp"
    BY <1>9
  <2>8. Compiled(compile_expr, q, u) = UOp(a)
    BY <1>9, <2>2, <2>7 DEF Compiled
  <2>9. PICK r : r = [code |-> a.code \o b.code \o <<irinstr_new2("UMINUS", TempAddr(b.temps + 1, "integer"), a.addr, NULL)>>,
                      addr |-> TempAddr(b.temps + 1, "integer"), temps |-> b.temps + 1]
    OBVIOUS
  <2>10. "UMINUS" \in Operations /\ "UMINUS" \in Ops /\ "integer" \in Types /\ NULL \in Addrs
    BY AddrKinds DEF Operations, Ops, Types
  <2>14. Fit("UMINUS", TempAddr(b.temps + 1, "integer"), a.addr, NULL)
    <3>1. TypeOfExpr(q.arg) = "integer"
      BY <1>9, TypesAssumption DEF Is
    <3>2. AddrType(a.addr) = "integer" /\ a.addr.kind # "null"
      BY <2>1, <2>2, <3>1, ExpressionAddr
    <3>3. a.addr \in Terms
      BY <2>3, <3>2, KindOf DEF Made
    <3>4. PICK res : res = TempAddr(b.temps + 1, "integer")
      OBVIOUS
    <3>5. b.temps + 1 \in Nat
      BY <2>6 DEF Made
    <3>6. res \in TempAddrs /\ res.kind = "temp" /\ res.type = "integer"
      BY <2>10, <3>4, <3>5, AddrKinds
    <3>7. res \in Cells /\ AddrType(res) = "integer"
      BY <3>6 DEF Cells, AddrType
    <3>8. "UMINUS" \notin Operators
      BY DEF Operators
    <3> QED BY <3>2, <3>3, <3>4, <3>7, <3>8 DEF Fit
  <2>11. Made(r, u)
    BY <2>3, <2>6, <2>9, <2>10, <2>14, OperationMade
  <2>12. b.temps = a.temps /\ a.code \o b.code = a.code
    <3>1. b.temps = a.temps /\ b.code = << >>
      BY <2>5 DEF Operand
    <3>2. a.code \o << >> = a.code
      BY <2>4, ConcatEmptySeq DEF Codes
    <3> QED BY <3>1, <3>2
  <2>13. UOp(a) = r
    <3>1. PICK res, I : res = TempAddr(a.temps + 1, "integer") /\ I = irinstr_new2("UMINUS", res, a.addr, NULL)
      OBVIOUS
    <3>2. I = irinstr_new4("UMINUS", res, a.addr, NULL, 0) /\ 0 \in Nat
      BY <3>1 DEF irinstr_new2
    <3>3. a.addr \in Addrs /\ res \in Addrs
      BY <2>3, <2>4, <2>10, <3>1, AddrKinds DEF Made
    <3>4. I \in Instrs
      <4>1. PICK x, y : x = a.addr /\ y = res
        OBVIOUS
      <4>2. x \in Addrs /\ y \in Addrs /\ I = irinstr_new4("UMINUS", y, x, NULL, 0) /\ 0 \in Nat
        BY <3>2, <3>3, <4>1
      <4>3. b.temps = a.temps
        BY <2>12
      <4>4. Fit("UMINUS", y, x, NULL)
        BY <2>14, <3>1, <4>1, <4>3
      <4> QED BY <2>10, <4>2, <4>4, InstrMade
    <3>5. Append(a.code, I) = a.code \o <<I>>
      BY <2>4, <3>4, AppendIsConcat DEF Codes
    <3>6. UOp(a) = [code |-> Append(a.code, I), addr |-> res, temps |-> a.temps + 1]
      BY <3>1, Zenon DEF UOp
    <3>7. r = [code |-> a.code \o <<I>>, addr |-> res, temps |-> a.temps + 1]
      BY <2>9, <2>12, <3>1, Zenon
    <3> QED BY <3>5, <3>6, <3>7, Zenon
  <2> QED BY <1>4, <1>7, <2>8, <2>11, <2>13
<1>10. CASE q.node = "Deref"
  <2>1. q.name \in DOMAIN Vars /\ q.index \in Exprs /\ q.index.node \in {"Var", "Num"}
    BY <1>10, ExprsAssumption
  <2>2. compile_expr[q.index][u].addr \in IndexAddrs
    <3>1. compile_expr[q.index][u] = Compiled(compile_expr, q.index, u)
      BY <2>1, CompileIs
    <3>2. Is(q.index, "integer")
      BY <1>10, TypesAssumption
    <3>3. CASE q.index.node = "Var"
      <4>1. q.index.name \in DOMAIN Vars
        BY <2>1, <3>3, ExprsAssumption
      <4>2. Compiled(compile_expr, q.index, u).addr = VarAddr(q.index.name)
        BY <3>3 DEF Compiled, Operand
      <4>3. Vars[q.index.name].type = "integer" /\ Vars[q.index.name].size = 0
        BY <3>2, <3>3 DEF Is, TypeOfExpr
      <4>4. VarAddr(q.index.name) \in VarAddrs /\ VarAddr(q.index.name).name = q.index.name
        BY <4>1, AddrKinds
      <4> QED BY <3>1, <4>2, <4>3, <4>4 DEF IndexAddrs
    <3>4. CASE q.index.node = "Num"
      <4>1. q.index.val \in ValuesOf(q.index.type) /\ q.index.type \in Types
        BY <2>1, <3>4, ExprsAssumption, LiteralsAssumption
      <4>2. Compiled(compile_expr, q.index, u).addr = ConstAddr(q.index.val, q.index.type)
        BY <3>4 DEF Compiled, Operand
      <4>3. q.index.type = "integer"
        BY <3>2, <3>4 DEF Is, TypeOfExpr
      <4>4. ConstAddr(q.index.val, q.index.type) \in ConstAddrs /\ ConstAddr(q.index.val, q.index.type).type = "integer"
        BY <4>1, <4>3, AddrKinds
      <4> QED BY <3>1, <4>2, <4>4 DEF IndexAddrs
    <3> QED BY <2>1, <3>3, <3>4
  <2>3. PICK a : a = ArrAddr(q.name, compile_expr[q.index][u].addr)
    OBVIOUS
  <2>4. a \in Addrs /\ a.kind # "temp"
    BY <2>1, <2>2, <2>3, AddrKinds
  <2>5. Compiled(compile_expr, q, u) = Operand(a, u)
    BY <1>10, <2>3 DEF Compiled
  <2> QED BY <1>4, <1>7, <2>4, <2>5, OperandMade
<1>11. CASE q.node = "Var"
  <2>1. q.name \in DOMAIN Vars
    BY <1>11, ExprsAssumption
  <2>2. PICK a : a = VarAddr(q.name)
    OBVIOUS
  <2>3. a \in Addrs /\ a.kind # "temp"
    BY <2>1, <2>2, AddrKinds
  <2>4. Compiled(compile_expr, q, u) = Operand(a, u)
    BY <1>11, <2>2 DEF Compiled
  <2> QED BY <1>4, <1>7, <2>3, <2>4, OperandMade
<1>12. CASE q.node \notin {"BOp", "UOp", "Deref", "Var"}
  <2>1. q.val \in ValuesOf(q.type) /\ q.type \in Types
    <3>1. q.node \in {"Num", "Bool"} /\ q.type \in Types
      BY <1>12, ExprsAssumption
    <3> QED BY <3>1, LiteralsAssumption
  <2>2. PICK a : a = ConstAddr(q.val, q.type)
    OBVIOUS
  <2>3. a \in Addrs /\ a.kind # "temp"
    BY <2>1, <2>2, AddrKinds
  <2>4. Compiled(compile_expr, q, u) = Operand(a, u)
    BY <1>12, <2>2 DEF Compiled
  <2> QED BY <1>4, <1>7, <2>3, <2>4, OperandMade
<1> QED BY <1>8, <1>9, <1>10, <1>11, <1>12

-----------------------------------------------------------------------------
(* The code of statements.                                                 *)

\* Operands that fit the instructions of statements.
LEMMA FitOthers ==
  ASSUME NEW a, NEW b
  PROVE  /\ Fit("LABEL", NULL, NULL, NULL) /\ Fit("JUMP", NULL, NULL, NULL)
         /\ a \in Terms => Fit("JUMP0", NULL, a, NULL) /\ Fit("OUTPUT", NULL, a, NULL)
         /\ a \in Cells /\ b \in ConstAddrs => Fit("JNE", NULL, a, b) /\ Fit("JG", NULL, a, b)
         /\ a \in VarAddrs => Fit("INPUT", a, NULL, NULL)
         /\ a \in Cells /\ b \in Terms /\ AddrType(a) = AddrType(b) => Fit("MOV", a, b, NULL)
         /\ a \in Cells /\ AddrType(a) = "integer" => Fit("INC", a, NULL, NULL)
<1>1. Operators \cap {"UMINUS", "MOV", "INPUT", "OUTPUT", "INC", "LABEL", "JUMP", "JUMP0", "JNE", "JG"} = {}
  BY DEF Operators
<1> QED BY <1>1 DEF Fit

\* Assn: only the MOV at the end has the result of the expression.
LEMMA AssnGood ==
  ASSUME NEW t \in Nat, NEW r, Made(r, t), NEW target, target.addr \in Addrs, target.addr.kind # "temp",
         Fit("MOV", target.addr, r.addr, NULL)
  PROVE  Good(AssnCode(target, r), (t + 1)..r.temps)
<1>1. PICK I, c, d, n : /\ I = irinstr_new2("MOV", target.addr, r.addr, NULL)
                        /\ c = r.code /\ d = AssnCode(target, r) /\ n = Len(c)
  OBVIOUS
<1>2. c \in Codes /\ n \in Nat /\ r.addr \in Addrs /\ r.temps \in Nat /\ t <= r.temps
  BY <1>1, InCode DEF Made
<1>3. I \in Instrs /\ I.op = "MOV" /\ I.res = target.addr /\ I.arg1 = r.addr /\ I.arg2 = NULL
  <2>1. I = irinstr_new4("MOV", target.addr, r.addr, NULL, 0)
    BY <1>1 DEF irinstr_new2
  <2>2. 0 \in Nat /\ "MOV" \in Ops /\ NULL \in Addrs
    BY AddrKinds DEF Ops
  <2>3. PICK x, y : x = target.addr /\ y = r.addr
    OBVIOUS
  <2>4. x \in Addrs /\ y \in Addrs /\ I = irinstr_new4("MOV", x, y, NULL, 0) /\ Fit("MOV", x, y, NULL)
    BY <1>2, <2>1, <2>3
  <2>5. I \in Instrs /\ I.op = "MOV" /\ I.res = x /\ I.arg1 = y /\ I.arg2 = NULL
    BY <2>2, <2>4, InstrMade
  <2> QED BY <2>3, <2>5
<1>4. d = Append(c, I)
  BY <1>1, Zenon DEF AssnCode
<1>5. d \in Codes /\ Len(d) = n + 1 /\ (\A i \in 1..n : d[i] = c[i]) /\ d[n + 1] = I
  BY <1>1, <1>2, <1>3, <1>4, AppendProperties DEF Codes
<1>6. \A i \in 1..n : c[i].op # "MOV" /\ Fresh(c[i].arg1, t, r.temps - 1) /\ Fresh(c[i].arg2, t, r.temps - 1)
  BY <1>1 DEF Made, Operations, Operators
<1>7. ASSUME NEW i \in 1..(Len(d) - 1), d[i].res.kind = "temp", d[i + 1].op = "MOV" PROVE MovesResult(d, i)
  <2>1. i \in 1..n
    BY <1>2, <1>5
  <2>2. i = n
    <3>1. CASE i # n
      <4>1. i + 1 \in 1..n
        BY <1>2, <2>1, <3>1
      <4>2. d[i + 1] = c[i + 1] /\ c[i + 1].op # "MOV"
        BY <1>5, <1>6, <4>1
      <4> QED BY <1>7, <4>2
    <3> QED BY <3>1
  <2>3. r.addr = c[n].res /\ r.addr.kind = "temp" /\ r.addr.no = r.temps
    BY <1>1, <2>1, <2>2 DEF Made
  <2>4. d[n] = c[n] /\ d[n + 1].arg1 = r.addr
    BY <1>3, <1>5, <2>1, <2>2
  <2>5. ASSUME NEW j \in 1..Len(d), j # n + 1 PROVE r.addr # d[j].arg1 /\ r.addr # d[j].arg2
    <3>1. j \in 1..n
      BY <1>2, <1>5, <2>5
    <3>2. d[j] = c[j]
      BY <1>5, <3>1
    <3>3. Fresh(c[j].arg1, t, r.temps - 1) /\ Fresh(c[j].arg2, t, r.temps - 1)
      BY <1>6, <3>1
    <3> QED BY SMTT(30), <1>2, <2>3, <3>2, <3>3 DEF Fresh
  <2> QED BY <2>2, <2>3, <2>4, <2>5 DEF MovesResult
<1>8. d[Len(d)].res.kind # "temp"
  BY <1>3, <1>5
<1>11. OneType(d)
  <2>1. Temps(d) \subseteq Temps(c)
    <3> SUFFICES ASSUME NEW y \in Temps(d) PROVE y \in Temps(c)
      OBVIOUS
    <3>1. PICK i \in 1..(n + 1) : y \in TempAddrs /\ y \in {d[i].res, d[i].arg1, d[i].arg2}
      BY <1>5 DEF Temps
    <3>2. CASE i \in 1..n
      BY <1>1, <1>5, <3>1, <3>2 DEF Temps
    <3>3. CASE i = n + 1
      <4>1. y.kind = "temp"
        BY TempsUsed
      <4>2. y = r.addr
        BY <1>3, <1>5, <3>1, <3>3, <4>1, AddrKinds
      <4> QED BY <1>1, <4>1, <4>2, OperandKept
    <3> QED BY <1>2, <3>2, <3>3
  <2>2. OneType(c)
    BY <1>1 DEF Made
  <2> QED BY <2>1, <2>2 DEF OneType
<1>9. Sound(d)
  BY <1>5, <1>7, <1>8, <1>11 DEF Sound
<1>10. ASSUME NEW x \in Used(d) PROVE x \in (t + 1)..r.temps
  <2>1. PICK i \in 1..(n + 1) : x \in Nat /\ x \in UsedBy(d[i])
    BY <1>5 DEF Used
  <2>2. CASE i \in 1..n
    <3>1. x \in Used(c)
      BY <1>1, <1>5, <2>1, <2>2 DEF Used
    <3> QED BY <1>1, <3>1, MadeUses
  <2>3. CASE i = n + 1
    <3>1. PICK a \in {I.res, I.arg1, I.arg2} : a.kind = "temp" /\ a.no = x
      BY <1>5, <2>1, <2>3 DEF UsedBy
    <3>2. a = r.addr
      BY <1>3, <3>1, AddrKinds
    <3>3. Fresh(r.addr, t, r.temps)
      BY DEF Made
    <3> QED BY <1>2, <2>1, <3>1, <3>2, <3>3 DEF Fresh
  <2> QED BY <1>2, <2>1, <2>2, <2>3
<1> QED BY <1>1, <1>9, <1>10 DEF Good

\* A test: a label, the code of the condition, and a jump on its operand.
LEMMA TestGood ==
  ASSUME NEW t \in Nat, NEW r, Made(r, t), r.addr \in Terms, NEW l \in Nat, NEW k \in Nat
  PROVE  Good(<<irinstr_new3("LABEL", l)>> \o r.code \o <<irinstr_new4("JUMP0", NULL, r.addr, NULL, k)>>, (t + 1)..r.temps)
<1>1. PICK A, B, c, n : /\ A = irinstr_new3("LABEL", l) /\ B = irinstr_new4("JUMP0", NULL, r.addr, NULL, k)
                        /\ c = r.code /\ n = Len(c)
  OBVIOUS
<1>2. c \in Codes /\ n \in Nat /\ r.addr \in Addrs /\ r.temps \in Nat /\ t <= r.temps
  BY <1>1, InCode DEF Made
<1>3. A \in Instrs /\ A.op = "LABEL" /\ A.res = NULL /\ A.arg1 = NULL /\ A.arg2 = NULL
  <2>1. A = irinstr_new4("LABEL", NULL, NULL, NULL, l)
    BY <1>1 DEF irinstr_new3
  <2>2. "LABEL" \in Ops /\ NULL \in Addrs
    BY AddrKinds DEF Ops
  <2>3. Fit("LABEL", NULL, NULL, NULL)
    BY FitOthers
  <2> QED BY <2>1, <2>2, <2>3, InstrMade
<1>4. B \in Instrs /\ B.op = "JUMP0" /\ B.res = NULL /\ B.arg1 = r.addr /\ B.arg2 = NULL
  <2>1. PICK y \in Addrs : y = r.addr
    BY <1>2
  <2>2. "JUMP0" \in Ops /\ NULL \in Addrs
    BY AddrKinds DEF Ops
  <2>3. B = irinstr_new4("JUMP0", NULL, y, NULL, k) /\ Fit("JUMP0", NULL, y, NULL)
    BY <1>1, <2>1, FitOthers
  <2>4. B \in Instrs /\ B.op = "JUMP0" /\ B.res = NULL /\ B.arg1 = y /\ B.arg2 = NULL
    BY <2>2, <2>3, InstrMade
  <2> QED BY <2>1, <2>4
<1>5. PICK a, b, d, e : a = <<A>> /\ b = <<B>> /\ d = a \o c /\ e = d \o b
  OBVIOUS
<1>6. a \in Codes /\ Len(a) = 1 /\ a[1] = A /\ b \in Codes /\ Len(b) = 1 /\ b[1] = B
  BY <1>3, <1>4, <1>5, Single
<1>7. d \in Codes /\ Len(d) = 1 + n /\ d[1] = A /\ \A i \in 1..n : d[1 + i] = c[i]
  <2>1. /\ d \in Codes /\ Len(d) = Len(a) + Len(c)
        /\ \A i \in 1..Len(a) : d[i] = a[i]
        /\ \A i \in 1..Len(c) : d[Len(a) + i] = c[i]
    BY <1>2, <1>5, <1>6, Joined
  <2>2. 1 \in 1..1
    OBVIOUS
  <2> QED BY <1>1, <1>6, <2>1, <2>2, Zenon
<1>8. e \in Codes /\ Len(e) = (1 + n) + 1 /\ (\A i \in 1..(1 + n) : e[i] = d[i]) /\ e[(1 + n) + 1] = B
  <2>1. /\ e \in Codes /\ Len(e) = Len(d) + Len(b)
        /\ \A i \in 1..Len(d) : e[i] = d[i]
        /\ \A i \in 1..Len(b) : e[Len(d) + i] = b[i]
    <3>1. d \in Codes /\ b \in Codes /\ e = d \o b
      BY <1>5, <1>6, <1>7
    <3> HIDE <1>5
    <3> QED BY <3>1, Joined
  <2>2. 1 \in 1..1
    OBVIOUS
  <2> QED BY <1>6, <1>7, <2>1, <2>2, Zenon
<1>9. ASSUME NEW i \in 1..Len(e) PROVE i = 1 \/ (\E j \in 1..n : i = 1 + j) \/ i = (1 + n) + 1
  <2>1. CASE i # 1 /\ i # (1 + n) + 1
    <3>1. PICK j : j = i - 1
      OBVIOUS
    <3>2. j \in 1..n /\ i = 1 + j
      BY <1>2, <1>8, <2>1, <3>1
    <3> QED BY <3>2
  <2> QED BY <2>1
<1>10. \A j \in 1..n : e[1 + j] = c[j]
  <2> SUFFICES ASSUME NEW j \in 1..n PROVE e[1 + j] = c[j]
    OBVIOUS
  <2>1. 1 + j \in 1..(1 + n)
    BY <1>2
  <2> QED BY <1>7, <1>8, <2>1
<1>11. e[1] = A
  <2>1. 1 \in 1..(1 + n)
    BY <1>2
  <2> QED BY <1>7, <1>8, <2>1
<1>12. \A j \in 1..n : c[j].op # "MOV"
  BY <1>1 DEF Made, Operations, Operators
<1>13. ASSUME NEW i \in 1..Len(e) PROVE e[i].op # "MOV"
  BY <1>3, <1>4, <1>8, <1>9, <1>10, <1>11, <1>12
<1>14. Sound(e)
  <2>1. e[Len(e)].res.kind # "temp"
    BY <1>4, <1>8, AddrKinds
  <2>2. \A i \in 1..(Len(e) - 1) : i + 1 \in 1..Len(e)
    BY <1>2, <1>8
  <2>3. Temps(e) \subseteq Temps(c)
    <3> SUFFICES ASSUME NEW y \in Temps(e) PROVE y \in Temps(c)
      OBVIOUS
    <3>1. PICK i \in 1..Len(e) : y \in TempAddrs /\ y \in {e[i].res, e[i].arg1, e[i].arg2}
      BY DEF Temps
    <3>2. y.kind = "temp"
      BY TempsUsed
    <3>3. CASE i = 1
      BY <1>3, <1>11, <3>1, <3>2, <3>3, AddrKinds
    <3>4. ASSUME NEW j \in 1..n, i = 1 + j PROVE y \in Temps(c)
      BY <1>1, <1>10, <3>1, <3>4 DEF Temps
    <3>5. CASE i = (1 + n) + 1
      <4>1. y = r.addr
        BY <1>4, <1>8, <3>1, <3>2, <3>5, AddrKinds
      <4> QED BY <1>1, <3>2, <4>1, OperandKept
    <3> QED BY <1>9, <3>3, <3>4, <3>5
  <2>4. OneType(e)
    <3>1. OneType(c)
      BY <1>1 DEF Made
    <3> QED BY <2>3, <3>1 DEF OneType
  <2> QED BY <1>8, <1>13, <2>1, <2>2, <2>4 DEF Sound
<1>15. ASSUME NEW x \in Used(e) PROVE x \in (t + 1)..r.temps
  <2>1. PICK i \in 1..Len(e) : x \in Nat /\ x \in UsedBy(e[i])
    BY DEF Used
  <2>2. i # 1
    BY <1>3, <1>11, <2>1, AddrKinds DEF UsedBy
  <2>3. ASSUME NEW j \in 1..n, i = 1 + j PROVE x \in (t + 1)..r.temps
    <3>1. x \in Used(c)
      BY <1>1, <1>10, <2>1, <2>3 DEF Used
    <3> QED BY <1>1, <3>1, MadeUses
  <2>4. CASE i = (1 + n) + 1
    <3>1. PICK y \in {B.res, B.arg1, B.arg2} : y.kind = "temp" /\ y.no = x
      BY <1>8, <2>1, <2>4 DEF UsedBy
    <3>2. y = r.addr
      BY <1>4, <3>1, AddrKinds
    <3>3. Fresh(r.addr, t, r.temps)
      BY DEF Made
    <3> QED BY <1>2, <2>1, <3>1, <3>2, <3>3 DEF Fresh
  <2> QED BY <1>9, <2>2, <2>3, <2>4
<1>16. Good(e, (t + 1)..r.temps)
  BY <1>14, <1>15 DEF Good
<1> QED BY <1>1, <1>5, <1>16, Zenon

\* A label and a jump to one, which need no operands.
LEMMA Jumping ==
  ASSUME NEW op \in {"LABEL", "JUMP"}, NEW l \in Nat
  PROVE  Quiet(irinstr_new3(op, l))
<1>1. PICK I : I = irinstr_new3(op, l)
  OBVIOUS
<1>2. I = irinstr_new4(op, NULL, NULL, NULL, l)
  BY <1>1 DEF irinstr_new3
<1>3. op \in Ops /\ NULL \in Addrs /\ NULL.kind # "temp"
  BY AddrKinds DEF Ops
<1>5. Fit(op, NULL, NULL, NULL)
  BY FitOthers
<1>4. I \in Instrs /\ I.res = NULL /\ I.arg1 = NULL /\ I.arg2 = NULL
  BY <1>2, <1>3, <1>5, InstrMade
<1> QED BY <1>1, <1>3, <1>4 DEF Quiet

\* Instructions whose operands are no temporaries.
LEMMA QuietMade ==
  ASSUME NEW op \in Ops, NEW res \in Addrs, NEW a \in Addrs, NEW b \in Addrs, NEW l \in Nat,
         res.kind # "temp", a.kind # "temp", b.kind # "temp", Fit(op, res, a, b)
  PROVE  Quiet(irinstr_new4(op, res, a, b, l))
<1>1. PICK I : I = irinstr_new4(op, res, a, b, l)
  OBVIOUS
<1>2. I \in Instrs /\ I.res = res /\ I.arg1 = a /\ I.arg2 = b
  BY <1>1, InstrMade
<1> QED BY <1>1, <1>2 DEF Quiet

\* A quiet piece after, and before, another.
LEMMA GoodThen ==
  ASSUME NEW c, NEW d, NEW N, Good(c, N), Good(d, {})
  PROVE  Good(c \o d, N) /\ Good(d \o c, N)
<1>1. N \cap {} = {} /\ {} \cap N = {} /\ N \cup {} = N /\ {} \cup N = N
  OBVIOUS
<1>2. Good(c \o d, N \cup {})
  BY <1>1, GoodJoined
<1>3. Good(d \o c, {} \cup N)
  BY <1>1, GoodJoined
<1> QED BY <1>1, <1>2, <1>3

\* The places in a program that its code is tagged with.
LEMMA PlaceOf ==
  ASSUME NEW i \in Nat, NEW part \in {"do", "init", "test", "inc"}
  PROVE  <<i, part>> \in Places
  BY DEF Places

LEMMA WhileGood ==
  ASSUME NEW f, f.at \in Nat, NEW l \in Nat, NEW t \in Nat, NEW N, NEW cond, cond = f.cond, Made(cond, t), cond.addr \in Terms, Good(f.code, N),
         ((t + 1)..cond.temps) \cap N = {}
  PROVE  Good(WhileCode(f, l), ((t + 1)..cond.temps) \cup N)
<1>1. PICK M, a, b, d : /\ M = (t + 1)..cond.temps
                        /\ a = <<irinstr_new3("LABEL", l)>> \o cond.code \o <<irinstr_new4("JUMP0", NULL, cond.addr, NULL, l + 1)>>
                        /\ b = AtPlace(<<f.at, "do">>, a)
                        /\ d = <<irinstr_new3("JUMP", l), irinstr_new3("LABEL", l + 1)>>
  OBVIOUS
<1>2. l + 1 \in Nat
  OBVIOUS
<1>3. Good(a, M)
  BY <1>1, <1>2, TestGood
<1>4. <<f.at, "do">> \in Places
  BY PlaceOf
<1>5. Good(b, M)
  BY <1>1, <1>3, <1>4, PlacedGood
<1>6. Quiet(irinstr_new3("JUMP", l)) /\ Quiet(irinstr_new3("LABEL", l + 1))
  BY <1>2, Jumping
<1>7. Good(d, {})
  BY <1>1, <1>6, QuietTwo
<1>8. Good(b \o f.code, M \cup N)
  BY <1>1, <1>5, GoodJoined
<1>9. Good((b \o f.code) \o d, M \cup N)
  BY <1>7, <1>8, GoodThen
<1>10. WhileCode(f, l) = (b \o f.code) \o d
  BY <1>1, Zenon DEF WhileCode
<1> QED BY <1>1, <1>9, <1>10

LEMMA ForGood ==
  ASSUME NEW f, f.at \in Nat, NEW l \in Nat, NEW N, Good(f.code, N), NEW a \in Addrs, a = f.cond.addr, a.kind # "temp",
         a \in Cells, AddrType(a) = "integer", NEW s, s.beg \in Word, s.end \in Word
  PROVE  Good(ForCode(f, s, l), N)
<1>1. PICK b, e : b = ConstAddr(s.beg, "integer") /\ e = ConstAddr(s.end, "integer")
  OBVIOUS
<1>2. "integer" \in Types
  BY DEF Types
<1>3. /\ b \in Addrs /\ b.kind # "temp" /\ e \in Addrs /\ e.kind # "temp" /\ NULL \in Addrs /\ NULL.kind # "temp"
      /\ b \in ConstAddrs /\ e \in ConstAddrs /\ AddrType(b) = "integer"
  <2>1. ValuesOf("integer") = Word
    BY DEF ValuesOf
  <2> QED BY <1>1, <1>2, <2>1, AddrKinds DEF AddrType
<1>20. Fit("MOV", a, b, NULL) /\ Fit("JG", NULL, a, e) /\ Fit("INC", a, NULL, NULL)
  <2>1. a \in Terms /\ b \in Terms
    BY <1>3 DEF Terms
  <2> QED BY <1>3, <2>1, FitOthers
<1>4. PICK I1, I2, I3, I4 : /\ I1 = irinstr_new2("MOV", a, b, NULL) /\ I2 = irinstr_new3("LABEL", l)
                            /\ I3 = irinstr_new4("JG", NULL, a, e, l + 1) /\ I4 = irinstr_new2("INC", a, NULL, NULL)
  OBVIOUS
<1>5. l + 1 \in Nat /\ 0 \in Nat /\ "MOV" \in Ops /\ "JG" \in Ops /\ "INC" \in Ops
  BY DEF Ops
<1>6. Quiet(I1)
  <2>1. I1 = irinstr_new4("MOV", a, b, NULL, 0)
    BY <1>4 DEF irinstr_new2
  <2> QED BY <1>3, <1>5, <1>20, <2>1, QuietMade
<1>7. Quiet(I2)
  BY <1>4, Jumping
<1>8. Quiet(I3)
  BY <1>3, <1>4, <1>5, <1>20, QuietMade
<1>9. Quiet(I4)
  <2>1. I4 = irinstr_new4("INC", a, NULL, NULL, 0)
    BY <1>4 DEF irinstr_new2
  <2> QED BY <1>3, <1>5, <1>20, <2>1, QuietMade
<1>10. PICK p, q, r, z : /\ p = AtPlace(<<f.at, "init">>, <<I1>>) /\ q = AtPlace(<<f.at, "test">>, <<I2, I3>>)
                         /\ r = AtPlace(<<f.at, "inc">>, <<I4>>)
                         /\ z = <<irinstr_new3("JUMP", l), irinstr_new3("LABEL", l + 1)>>
  OBVIOUS
<1>11. <<f.at, "init">> \in Places /\ <<f.at, "test">> \in Places /\ <<f.at, "inc">> \in Places
  BY PlaceOf
<1>12. Good(<<I1>>, {}) /\ Good(<<I2, I3>>, {}) /\ Good(<<I4>>, {})
  BY <1>6, <1>7, <1>8, <1>9, QuietOne, QuietTwo
<1>13. Good(p, {}) /\ Good(q, {}) /\ Good(r, {})
  BY <1>10, <1>11, <1>12, PlacedGood
<1>14. Good(z, {})
  <2>1. Quiet(irinstr_new3("JUMP", l)) /\ Quiet(irinstr_new3("LABEL", l + 1))
    BY <1>5, Jumping
  <2> QED BY <1>10, <2>1, QuietTwo
<1>15. Good(p \o q, {})
  BY <1>13, GoodThen
<1>16. Good((p \o q) \o f.code, N)
  BY <1>15, GoodThen
<1>17. Good(((p \o q) \o f.code) \o r, N)
  BY <1>13, <1>16, GoodThen
<1>18. Good((((p \o q) \o f.code) \o r) \o z, N)
  BY <1>14, <1>17, GoodThen
<1>19. ForCode(f, s, l) = (((p \o q) \o f.code) \o r) \o z
  BY <1>1, <1>4, <1>10, Zenon DEF ForCode
<1> QED BY <1>18, <1>19

\* The cases of a switch: no two share a temporary.
Cases == Seq([val : ConstAddrs \cup {DEFAULT}, code : Codes])
CasesSound(cases) ==
  /\ cases \in Cases
  /\ \A i \in 1..Len(cases) : Sound(cases[i].code)
  /\ \A i, j \in 1..Len(cases) : i # j => Used(cases[i].code) \cap Used(cases[j].code) = {}
CasesUsed(cases, n) == {x \in Nat : \E i \in 1..n : x \in Used(cases[i].code)}

LEMMA CaseTyped ==
  ASSUME NEW cases \in Cases
  PROVE  /\ Len(cases) \in Nat /\ DOMAIN cases = 1..Len(cases)
         /\ \A i \in 1..Len(cases) : /\ cases[i].code \in Codes /\ cases[i].val \in ConstAddrs \cup {DEFAULT}
                                     /\ cases[i] = [val |-> cases[i].val, code |-> cases[i].code]
<1>1. Len(cases) \in Nat /\ DOMAIN cases = 1..Len(cases)
  BY LenProperties DEF Cases
<1>2. ASSUME NEW i \in 1..Len(cases)
      PROVE  cases[i].code \in Codes /\ cases[i].val \in ConstAddrs \cup {DEFAULT}
             /\ cases[i] = [val |-> cases[i].val, code |-> cases[i].code]
  <2>1. cases[i] \in [val : ConstAddrs \cup {DEFAULT}, code : Codes]
    BY ElementOfSeq DEF Cases
  <2> QED BY <2>1
<1> QED BY <1>1, <1>2

LEMMA BooleanSwitchGood ==
  ASSUME NEW f, f.at \in Nat, NEW l \in Nat, NEW a \in Addrs, a = f.cond.addr, a.kind # "temp", a \in Terms,
         NEW cases, CasesSound(cases),
         NEW u \in 1..Len(cases), cases[u].val = ConstAddr(1, "boolean"),
         NEW v \in 1..Len(cases), cases[v].val = ConstAddr(0, "boolean")
  PROVE  Good(BooleanSwitchCode(f, cases, l), CasesUsed(cases, Len(cases)))
<1>1. PICK n, one, zero : n = Len(cases) /\ one = ConstAddr(1, "boolean") /\ zero = ConstAddr(0, "boolean")
  OBVIOUS
<1>2. one # zero
  BY <1>1 DEF ConstAddr
<1>3. n \in Nat /\ DOMAIN cases = 1..n
  BY <1>1, CaseTyped DEF CasesSound
<1>4. PICK i, j : i = (CHOOSE k \in DOMAIN cases : cases[k].val = one) /\ j = (CHOOSE k \in DOMAIN cases : cases[k].val = zero)
  OBVIOUS
<1>5. i \in 1..n /\ cases[i].val = one
  <2>1. \E k \in DOMAIN cases : cases[k].val = one
    BY <1>1, <1>3
  <2> QED BY <1>3, <1>4, <2>1, Zenon
<1>6. j \in 1..n /\ cases[j].val = zero
  <2>1. \E k \in DOMAIN cases : cases[k].val = zero
    BY <1>1, <1>3
  <2> QED BY <1>3, <1>4, <2>1, Zenon
<1>7. PICK c, d, N, M : c = cases[i].code /\ d = cases[j].code /\ N = Used(c) /\ M = Used(d)
  OBVIOUS
<1>8. N \cap M = {}
  BY <1>1, <1>2, <1>5, <1>6, <1>7 DEF CasesSound
<1>9. Good(c, N) /\ Good(d, M)
  BY <1>1, <1>5, <1>6, <1>7 DEF CasesSound, Good
<1>10. PICK I, p, q, z : /\ I = irinstr_new4("JUMP0", NULL, a, NULL, l)
                         /\ p = AtPlace(<<f.at, "do">>, <<I>>)
                         /\ q = <<irinstr_new3("JUMP", l + 1), irinstr_new3("LABEL", l)>>
                         /\ z = <<irinstr_new3("LABEL", l + 1)>>
  OBVIOUS
<1>11. Good(p, {})
  <2>1. "JUMP0" \in Ops /\ NULL \in Addrs /\ NULL.kind # "temp"
    BY AddrKinds DEF Ops
  <2>5. Fit("JUMP0", NULL, a, NULL)
    BY FitOthers
  <2>2. Quiet(I)
    BY <1>10, <2>1, <2>5, QuietMade
  <2>3. Good(<<I>>, {})
    BY <2>2, QuietOne
  <2>4. <<f.at, "do">> \in Places
    BY PlaceOf
  <2> QED BY <1>10, <2>3, <2>4, PlacedGood
<1>12. Good(q, {}) /\ Good(z, {})
  <2>1. l + 1 \in Nat
    OBVIOUS
  <2>2. Quiet(irinstr_new3("JUMP", l + 1)) /\ Quiet(irinstr_new3("LABEL", l)) /\ Quiet(irinstr_new3("LABEL", l + 1))
    BY <2>1, Jumping
  <2> QED BY <1>10, <2>2, QuietOne, QuietTwo
<1>13. Good(p \o c, N)
  BY <1>9, <1>11, GoodThen
<1>14. Good((p \o c) \o q, N)
  BY <1>12, <1>13, GoodThen
<1>15. Good(((p \o c) \o q) \o d, N \cup M)
  BY <1>8, <1>9, <1>14, GoodJoined
<1>16. Good((((p \o c) \o q) \o d) \o z, N \cup M)
  BY <1>12, <1>15, GoodThen
<1>17. N \cup M \subseteq CasesUsed(cases, n)
  <2>1. \A x \in N \cup M : x \in Nat
    BY <1>7 DEF Used
  <2> QED BY <1>5, <1>6, <1>7, <2>1 DEF CasesUsed
<1>18. CodeOfCase(cases, one) = c /\ CodeOfCase(cases, zero) = d
  BY <1>4, <1>7 DEF CodeOfCase
<1>19. BooleanSwitchCode(f, cases, l) = (((p \o c) \o q) \o d) \o z
  <2>1. BooleanSwitchCode(f, cases, l) = (((p \o CodeOfCase(cases, one)) \o q) \o CodeOfCase(cases, zero)) \o z
    BY <1>1, <1>10, Zenon DEF BooleanSwitchCode
  <2> QED BY <1>18, <2>1
<1> QED BY <1>1, <1>16, <1>17, <1>19 DEF Good

\* The code of an integer switch up to its i-th case, if u is that before it.
Upto(u, f, cases, l, i) ==
  IF i = 0 THEN << >>
  ELSE IF cases[i].val = DEFAULT THEN u[i - 1] \o cases[i].code
  ELSE u[i - 1] \o AtPlace(<<f.at, "do">>, <<irinstr_new4("JNE", NULL, f.cond.addr, cases[i].val, l + i)>>)
         \o cases[i].code \o <<irinstr_new3("JUMP", l), irinstr_new3("LABEL", l + i)>>

IsUpto(u, f, cases, l, n) == u = [i \in 0..n |-> Upto(u, f, cases, l, i)]

LEMMA UptoExists ==
  ASSUME NEW f, NEW cases, NEW l, NEW n \in Nat
  PROVE  \E u : IsUpto(u, f, cases, l, n)
<1> DEFINE Longer(u, i) == Upto(u, f, cases, l, i)
           Upset(u, m) == \A i \in 0..m : u[i] = Longer(u, i)
           None == {m \in Nat : ~\E u : Upset(u, m)}
<1>1. None = {}
  <2> SUFFICES ASSUME None # {} PROVE FALSE
    OBVIOUS
  <2>1. Smallest(None)
    BY SmallestExists
  <2>2. PICK m \in None : \A k \in None : m <= k
    BY <2>1 DEF Smallest
  <2>3. m # 0
    <3>1. PICK u : u = [i \in {0} |-> << >>]
      OBVIOUS
    <3>2. \A i \in 0..0 : i = 0
      OBVIOUS
    <3>3. u[0] = Longer(u, 0)
      BY <3>1 DEF Upto
    <3>4. Upset(u, 0)
      BY <3>2, <3>3
    <3> QED BY <2>2, <3>4
  <2>4. PICK k \in Nat : m = k + 1
    BY <2>2, <2>3
  <2>5. k \notin None
    BY <2>2, <2>4
  <2>6. PICK u : Upset(u, k)
    BY <2>5
  <2>7. PICK w : w = [i \in 0..m |-> IF i = m THEN Longer(u, m) ELSE u[i]]
    OBVIOUS
  <2>8. \A i \in 0..k : w[i] = u[i]
    BY <2>4, <2>7
  <2>9. ASSUME NEW i \in 0..m PROVE Longer(w, i) = Longer(u, i)
    <3>1. CASE i = 0
      BY <3>1 DEF Upto
    <3>2. CASE i # 0
      <4>1. i - 1 \in 0..k
        BY <2>4, <3>2
      <4>2. w[i - 1] = u[i - 1]
        BY <2>8, <4>1
      <4> QED BY <4>2 DEF Upto
    <3> QED BY <3>1, <3>2
  <2> HIDE DEF Longer
  <2>10. ASSUME NEW i \in 0..m PROVE w[i] = Longer(w, i)
    <3>1. CASE i = m
      BY <2>7, <2>9, <3>1
    <3>2. CASE i # m
      <4>1. i \in 0..k
        BY <2>4, <3>2
      <4>2. u[i] = Longer(u, i)
        BY <2>6, <4>1
      <4> QED BY <2>8, <2>9, <4>1, <4>2
    <3> QED BY <3>1, <3>2
  <2>11. Upset(w, m)
    BY <2>10
  <2> QED BY <2>2, <2>11
<1>2. PICK u : Upset(u, n)
  BY <1>1
<1>3. PICK w : w = [i \in 0..n |-> u[i]]
  OBVIOUS
<1>4. ASSUME NEW i \in 0..n PROVE Longer(w, i) = Longer(u, i)
  <2>1. CASE i = 0
    BY <2>1 DEF Upto
  <2>2. CASE i # 0
    <3>1. i - 1 \in 0..n
      BY <2>2
    <3>2. w[i - 1] = u[i - 1]
      BY <1>3, <3>1
    <3> QED BY <3>2 DEF Upto
  <2> QED BY <2>1, <2>2
<1> HIDE DEF Longer
<1>5. \A i \in 0..n : w[i] = Longer(w, i)
  BY <1>2, <1>3, <1>4
<1>6. w = [i \in 0..n |-> Longer(w, i)]
  BY <1>3, <1>5
<1> QED BY <1>6 DEF Longer, IsUpto

LEMMA IntegerSwitchGood ==
  ASSUME NEW f, f.at \in Nat, NEW l \in Nat, NEW a \in Addrs, a = f.cond.addr, a.kind # "temp", a \in Cells,
         NEW cases, CasesSound(cases)
  PROVE  Good(IntegerSwitchCode(f, cases, l), CasesUsed(cases, Len(cases)))
<1>1. PICK n : n = Len(cases)
  OBVIOUS
<1>2. n \in Nat /\ cases \in Cases
  BY <1>1, CaseTyped DEF CasesSound
<1>3. \E u : IsUpto(u, f, cases, l, n)
  BY <1>2, UptoExists
<1>4. PICK u : u = CHOOSE w : IsUpto(w, f, cases, l, n)
  OBVIOUS
<1>5. IsUpto(u, f, cases, l, n)
  BY <1>3, <1>4, Zenon
<1>6. \A i \in 0..n : u[i] = Upto(u, f, cases, l, i)
  BY <1>5 DEF IsUpto
<1> DEFINE Bad == {i \in Nat : i <= n /\ ~Good(u[i], CasesUsed(cases, i))}
<1>7. Bad = {}
  <2> SUFFICES ASSUME Bad # {} PROVE FALSE
    OBVIOUS
  <2>1. Smallest(Bad)
    BY SmallestExists
  <2>2. PICK i \in Bad : \A j \in Bad : i <= j
    BY <2>1 DEF Smallest
  <2>3. i \in 0..n /\ ~Good(u[i], CasesUsed(cases, i))
    BY <1>2, <2>2
  <2>4. u[i] = Upto(u, f, cases, l, i)
    BY <1>6, <2>3
  <2>5. CASE i = 0
    <3>1. PICK e : e = << >>
      OBVIOUS
    <3>2. e \in Codes /\ Len(e) = 0
      BY <3>1 DEF Codes
    <3>3. Good(e, {})
      BY <3>2, QuietGood
    <3>4. {} \subseteq CasesUsed(cases, i)
      OBVIOUS
    <3>5. u[i] = e
      BY <2>4, <2>5, <3>1 DEF Upto
    <3> QED BY <2>3, <3>3, <3>4, <3>5 DEF Good
  <2>6. CASE i # 0
    <3>1. PICK k : k = i - 1
      OBVIOUS
    <3>2. k \in Nat /\ k < i /\ k <= n /\ i \in 1..n /\ k + 1 = i
      BY <1>2, <2>3, <2>6, <3>1
    <3>3. k \notin Bad
      BY <2>2, <2>3, <3>2
    <3>4. PICK b, c, val, N, M : b = u[k] /\ c = cases[i].code /\ val = cases[i].val /\ N = CasesUsed(cases, k) /\ M = Used(c)
      OBVIOUS
    <3>5. Good(b, N)
      BY <3>2, <3>3, <3>4
    <3>6. c \in Codes /\ val \in ConstAddrs \cup {DEFAULT}
      BY <1>1, <1>2, <3>2, <3>4, CaseTyped
    <3>7. Good(c, M)
      BY <1>1, <3>2, <3>4 DEF CasesSound, Good
    <3>8. N \cap M = {}
      <4> SUFFICES ASSUME NEW x \in N, x \in M PROVE FALSE
        OBVIOUS
      <4>1. PICK j \in 1..k : x \in Used(cases[j].code)
        BY <3>4 DEF CasesUsed
      <4>2. j \in 1..n /\ j # i
        BY <1>2, <3>2
      <4>3. Used(cases[j].code) \cap Used(cases[i].code) = {}
        BY <1>1, <3>2, <4>2 DEF CasesSound
      <4> QED BY <3>4, <4>1, <4>3
    <3>9. N \cup M \subseteq CasesUsed(cases, i)
      <4>1. N \subseteq CasesUsed(cases, i)
        <5> SUFFICES ASSUME NEW x \in N PROVE x \in CasesUsed(cases, i)
          OBVIOUS
        <5>1. PICK j \in 1..k : x \in Nat /\ x \in Used(cases[j].code)
          BY <3>4 DEF CasesUsed
        <5>2. j \in 1..i
          BY <3>2
        <5> QED BY <5>1, <5>2 DEF CasesUsed
      <4>2. M \subseteq CasesUsed(cases, i)
        <5> SUFFICES ASSUME NEW x \in M PROVE x \in CasesUsed(cases, i)
          OBVIOUS
        <5>1. x \in Nat /\ i \in 1..i
          BY <3>2, <3>4 DEF Used
        <5> QED BY <3>4, <5>1 DEF CasesUsed
      <4> QED BY <4>1, <4>2
    <3>10. CASE val = DEFAULT
      <4>1. u[i] = b \o c
        BY <2>4, <2>6, <3>1, <3>4, <3>10, Zenon DEF Upto
      <4>2. Good(b \o c, N \cup M)
        BY <3>5, <3>7, <3>8, GoodJoined
      <4> QED BY <2>3, <3>9, <4>1, <4>2 DEF Good
    <3>11. CASE val # DEFAULT
      <4>1. val \in Addrs /\ val.kind # "temp" /\ val \in ConstAddrs
        BY <3>6, <3>11 DEF ConstAddrs, Addrs, Terms
      <4>2. PICK I, p, q : /\ I = irinstr_new4("JNE", NULL, a, val, l + i)
                           /\ p = AtPlace(<<f.at, "do">>, <<I>>)
                           /\ q = <<irinstr_new3("JUMP", l), irinstr_new3("LABEL", l + i)>>
        OBVIOUS
      <4>3. l + i \in Nat /\ "JNE" \in Ops /\ NULL \in Addrs /\ NULL.kind # "temp"
        BY <3>2, AddrKinds DEF Ops
      <4>4. Good(p, {})
        <5>4. Fit("JNE", NULL, a, val)
          BY <4>1, FitOthers
        <5>1. Quiet(I)
          BY <4>1, <4>2, <4>3, <5>4, QuietMade
        <5>2. Good(<<I>>, {})
          BY <5>1, QuietOne
        <5>3. <<f.at, "do">> \in Places
          BY PlaceOf
        <5> QED BY <4>2, <5>2, <5>3, PlacedGood
      <4>5. Good(q, {})
        <5>1. Quiet(irinstr_new3("JUMP", l)) /\ Quiet(irinstr_new3("LABEL", l + i))
          BY <4>3, Jumping
        <5> QED BY <4>2, <5>1, QuietTwo
      <4>6. Good(b \o p, N)
        BY <3>5, <4>4, GoodThen
      <4>7. Good((b \o p) \o c, N \cup M)
        BY <3>7, <3>8, <4>6, GoodJoined
      <4>8. Good(((b \o p) \o c) \o q, N \cup M)
        BY <4>5, <4>7, GoodThen
      <4>9. u[i] = ((b \o p) \o c) \o q
        BY <2>4, <2>6, <3>1, <3>4, <3>11, <4>2, Zenon DEF Upto
      <4> QED BY <2>3, <3>9, <4>8, <4>9 DEF Good
    <3> QED BY <3>10, <3>11
  <2> QED BY <2>5, <2>6
<1>8. Good(u[n], CasesUsed(cases, n))
  <2>1. n <= n
    BY <1>2
  <2> QED BY <1>2, <1>7, <2>1
<1>9. PICK z : z = <<irinstr_new3("LABEL", l)>>
  OBVIOUS
<1>10. Good(z, {})
  <2>1. Quiet(irinstr_new3("LABEL", l))
    BY Jumping
  <2> QED BY <1>9, <2>1, QuietOne
<1>11. Good(u[n] \o z, CasesUsed(cases, n))
  BY <1>8, <1>10, GoodThen
<1>12. IntegerSwitchCode(f, cases, l) = u[n] \o z
  BY <1>1, <1>4, <1>9, Zenon DEF IntegerSwitchCode, IsUpto, Upto
<1> QED BY <1>1, <1>11, <1>12

-----------------------------------------------------------------------------
(* The frames of the walk.  The temporaries of a frame are numbered from   *)
(* lo, its number of them when it was opened, to hi.                       *)

Frames == [at : Nat, cond : [code : Codes, addr : Addrs, temps : Nat], code : Codes,
           val : ConstAddrs \cup {DEFAULT, NONE}, cases : Cases]

FrameInv(f, lo, hi) ==
  /\ f \in Frames /\ lo \in Nat /\ hi \in Nat
  /\ Made(f.cond, lo) /\ f.cond.temps <= hi
  /\ Good(f.code, (f.cond.temps + 1)..hi)
  /\ CasesSound(f.cases)
  /\ CasesUsed(f.cases, Len(f.cases)) \subseteq (f.cond.temps + 1)..hi
  /\ CasesUsed(f.cases, Len(f.cases)) \cap Used(f.code) = {}

\* The frames follow one another; t is the number of temporaries now.
FramesInv(c, base, t) ==
  /\ c \in Seq(Frames) /\ c # << >> /\ t \in Nat
  /\ \A k \in 1..Len(c) : FrameInv(c[k], base[k], IF k = Len(c) THEN t ELSE base[k + 1])

\* The cases of a switch, the one that is open included.
ClosedOf(f) == IF f.val = NONE THEN f.cases ELSE Append(f.cases, [val |-> f.val, code |-> f.code])

LEMMA FrameTyped ==
  ASSUME NEW f \in Frames
  PROVE  /\ f.at \in Nat /\ f.cond.code \in Codes /\ f.cond.addr \in Addrs /\ f.cond.temps \in Nat /\ f.code \in Codes
         /\ f.val \in ConstAddrs \cup {DEFAULT, NONE} /\ f.cases \in Cases
         /\ f.cond = [code |-> f.cond.code, addr |-> f.cond.addr, temps |-> f.cond.temps]
  BY DEF Frames

\* More code for a frame, with temporaries of its own.
LEMMA FrameEmits ==
  ASSUME NEW f, NEW lo, NEW hi, FrameInv(f, lo, hi), NEW h \in Nat, NEW t \in Nat, hi <= h, h <= t, NEW d, Good(d, (h + 1)..t),
         NEW g, g = [f EXCEPT !.code = @ \o d]
  PROVE  FrameInv(g, lo, t)
<1>1. f \in Frames /\ lo \in Nat /\ hi \in Nat /\ f.cond.temps \in Nat /\ f.code \in Codes /\ f.cond.temps <= hi
  BY FrameTyped DEF FrameInv
<1>2. d \in Codes
  BY DEF Good, Sound
<1>3. f.code \o d \in Codes
  BY <1>1, <1>2, Joined
<1>4. /\ g \in Frames /\ g.cond = f.cond /\ g.cases = f.cases /\ g.code = f.code \o d
  BY <1>1, <1>3 DEF Frames
<1>5. PICK N, M, K, c : N = (f.cond.temps + 1)..hi /\ M = (h + 1)..t /\ K = (f.cond.temps + 1)..t /\ c = f.code
  OBVIOUS
<1>6. N \cap M = {} /\ N \cup M \subseteq K
  BY <1>1, <1>5
<1>7. Good(c, N)
  BY <1>5 DEF FrameInv
<1>8. Good(c \o d, N \cup M)
  BY <1>5, <1>6, <1>7, GoodJoined
<1>9. Good(c \o d, K)
  BY <1>6, <1>8 DEF Good
<1>10. PICK U : U = CasesUsed(f.cases, Len(f.cases))
  OBVIOUS
<1>11. U \subseteq N /\ U \cap Used(c) = {}
  BY <1>5, <1>10 DEF FrameInv
<1>12. Used(c \o d) = Used(c) \cup Used(d) /\ Used(d) \subseteq M
  BY <1>1, <1>2, <1>5, UsedJoined DEF Good
<1>13. U \subseteq K /\ U \cap Used(c \o d) = {}
  BY <1>6, <1>11, <1>12
<1>14. f.cond.temps <= t
  BY <1>1
<1>15. Made(g.cond, lo) /\ CasesSound(g.cases)
  BY <1>4 DEF FrameInv
<1>16. U = CasesUsed(g.cases, Len(g.cases)) /\ K = (g.cond.temps + 1)..t /\ g.code = c \o d
  BY <1>4, <1>5, <1>10
<1> QED BY <1>1, <1>4, <1>9, <1>13, <1>14, <1>15, <1>16 DEF FrameInv

\* A frame that is begun.
LEMMA FrameBegins ==
  ASSUME NEW at \in Nat, NEW t \in Nat, NEW cond, Made(cond, t), cond = [code |-> cond.code, addr |-> cond.addr, temps |-> cond.temps]
  PROVE  FrameInv(Frame(at, cond), t, cond.temps)
<1>1. PICK e, f : e = << >> /\ f = Frame(at, cond)
  OBVIOUS
<1>2. e \in Codes /\ Len(e) = 0 /\ e \in Cases
  BY <1>1 DEF Codes, Cases
<1>3. cond.code \in Codes /\ cond.addr \in Addrs /\ cond.temps \in Nat
  BY DEF Made
<1>4. f = [at |-> at, cond |-> cond, code |-> e, val |-> NONE, cases |-> e]
  BY <1>1, Zenon DEF Frame
<1>5. cond \in [code : Codes, addr : Addrs, temps : Nat]
  <2> HIDE DEF Codes, Addrs
  <2> QED BY <1>3
<1>6. f \in Frames
  BY <1>2, <1>4, <1>5 DEF Frames
<1>7. f.cond = cond /\ f.code = e /\ f.cases = e
  BY <1>4
<1>8. Good(e, {})
  BY <1>2, QuietGood
<1>9. Good(e, (cond.temps + 1)..cond.temps)
  BY <1>8 DEF Good
<1>10. CasesSound(e) /\ CasesUsed(e, Len(e)) = {}
  BY <1>2 DEF CasesSound, CasesUsed
<1>11. cond.temps <= cond.temps
  BY <1>3
<1>12. FrameInv(f, t, cond.temps)
  BY <1>3, <1>6, <1>7, <1>9, <1>10, <1>11 DEF FrameInv
<1> QED BY <1>1, <1>12

\* The cases of a switch, when the one that is open is added to them.
LEMMA ClosedSound ==
  ASSUME NEW f, NEW lo, NEW hi, FrameInv(f, lo, hi)
  PROVE  /\ CasesSound(ClosedOf(f))
         /\ CasesUsed(ClosedOf(f), Len(ClosedOf(f))) \subseteq (f.cond.temps + 1)..hi
<1>1. CASE f.val = NONE
  BY <1>1 DEF ClosedOf, FrameInv
<1>2. CASE f.val # NONE
  <2>1. PICK cases, part, new, n : /\ cases = f.cases /\ part = [val |-> f.val, code |-> f.code]
                                   /\ new = Append(cases, part) /\ n = Len(cases)
    OBVIOUS
  <2>2. f \in Frames
    BY DEF FrameInv
  <2>3. f.code \in Codes /\ f.val \in ConstAddrs \cup {DEFAULT} /\ cases \in Cases
    BY <1>2, <2>1, <2>2, FrameTyped
  <2>4. part \in [val : ConstAddrs \cup {DEFAULT}, code : Codes] /\ part.code = f.code
    BY <2>1, <2>3
  <2>5. /\ new \in Cases /\ Len(new) = n + 1 /\ n \in Nat
        /\ (\A i \in 1..n : new[i] = cases[i]) /\ new[n + 1] = part
    BY <2>1, <2>3, <2>4, AppendProperties, LenProperties DEF Cases
  <2>6. CasesSound(cases) /\ Sound(f.code)
    BY <2>1 DEF FrameInv, Good
  <2>7. PICK U, C : U = CasesUsed(cases, n) /\ C = Used(f.code)
    OBVIOUS
  <2>8. U \cap C = {} /\ U \cup C \subseteq (f.cond.temps + 1)..hi
    BY <2>1, <2>7 DEF FrameInv, Good
  <2>9. \A i \in 1..n : Used(cases[i].code) \subseteq U
    BY <2>7 DEF CasesUsed, Used
  <2>10. \A i \in 1..(n + 1) : i \in 1..n \/ i = n + 1
    BY <2>5
  <2>11. \A i \in 1..(n + 1) : Sound(new[i].code)
    <3> SUFFICES ASSUME NEW i \in 1..(n + 1) PROVE Sound(new[i].code)
      OBVIOUS
    <3>1. CASE i \in 1..n
      BY <2>1, <2>5, <2>6, <3>1 DEF CasesSound
    <3>2. CASE i = n + 1
      BY <2>4, <2>5, <2>6, <3>2
    <3> QED BY <2>10, <3>1, <3>2
  <2>12. ASSUME NEW i \in 1..(n + 1), NEW j \in 1..(n + 1), i # j PROVE Used(new[i].code) \cap Used(new[j].code) = {}
    <3>1. CASE i \in 1..n /\ j \in 1..n
      BY <2>1, <2>5, <2>6, <2>12, <3>1 DEF CasesSound
    <3>2. CASE i \in 1..n /\ j = n + 1
      <4>1. new[i].code = cases[i].code /\ new[j].code = f.code
        BY <2>4, <2>5, <3>2
      <4> QED BY <2>7, <2>8, <2>9, <3>2, <4>1
    <3>3. CASE i = n + 1 /\ j \in 1..n
      <4>1. new[j].code = cases[j].code /\ new[i].code = f.code
        BY <2>4, <2>5, <3>3
      <4> QED BY <2>7, <2>8, <2>9, <3>3, <4>1
    <3> QED BY <2>10, <2>12, <3>1, <3>2, <3>3
  <2>13. CasesSound(new)
    BY <2>5, <2>11, <2>12 DEF CasesSound
  <2>14. ASSUME NEW x \in CasesUsed(new, n + 1) PROVE x \in U \cup C
    <3>1. PICK i \in 1..(n + 1) : x \in Nat /\ x \in Used(new[i].code)
      BY DEF CasesUsed
    <3>2. CASE i \in 1..n
      <4>1. x \in Used(cases[i].code)
        BY <2>5, <3>1, <3>2
      <4> QED BY <2>9, <3>2, <4>1
    <3>3. CASE i = n + 1
      BY <2>4, <2>5, <2>7, <3>1, <3>3
    <3> QED BY <2>10, <3>2, <3>3
  <2>15. ClosedOf(f) = new
    BY <1>2, <2>1, Zenon DEF ClosedOf
  <2>16. CasesUsed(new, Len(new)) \subseteq (f.cond.temps + 1)..hi
    BY <2>5, <2>8, <2>14
  <2> QED BY <2>13, <2>15, <2>16
<1> QED BY <1>1, <1>2

\* The next case: the code of the one before it is put away.
LEMMA FrameGoesOn ==
  ASSUME NEW f, NEW lo, NEW hi, FrameInv(f, lo, hi), NEW val \in ConstAddrs \cup {DEFAULT},
         NEW g, g = [f EXCEPT !.cases = ClosedOf(f), !.val = val, !.code = << >>]
  PROVE  FrameInv(g, lo, hi)
<1>1. PICK e, C : e = << >> /\ C = ClosedOf(f)
  OBVIOUS
<1>2. CasesSound(C) /\ CasesUsed(C, Len(C)) \subseteq (f.cond.temps + 1)..hi
  BY <1>1, ClosedSound
<1>3. e \in Codes /\ Len(e) = 0
  BY <1>1 DEF Codes
<1>4. f \in Frames /\ lo \in Nat /\ hi \in Nat /\ Made(f.cond, lo) /\ f.cond.temps <= hi
  BY DEF FrameInv
<1>5. C \in Cases
  BY <1>2 DEF CasesSound
<1>6. g = [f EXCEPT !.cases = C, !.val = val, !.code = e]
  BY <1>1, Zenon
<1>7. g \in Frames /\ g.cond = f.cond /\ g.code = e /\ g.cases = C
  BY <1>3, <1>4, <1>5, <1>6 DEF Frames
<1>8. Good(e, {})
  BY <1>3, QuietGood
<1>9. Good(e, (f.cond.temps + 1)..hi) /\ Used(e) = {}
  BY <1>8 DEF Good
<1> QED BY <1>2, <1>4, <1>7, <1>9 DEF FrameInv

\* c with g for its last frame.
Replaced(c, n, g, e) ==
  /\ e \in Seq(Frames) /\ Len(e) = n /\ e[n] = g
  /\ \A k \in 1..n : k # n => e[k] = c[k]

LEMMA LastReplaced ==
  ASSUME NEW c \in Seq(Frames), Len(c) # 0, NEW g \in Frames
  PROVE  Replaced(c, Len(c), g, [c EXCEPT ![Len(c)] = g])
<1>1. PICK n, e : n = Len(c) /\ e = [c EXCEPT ![n] = g]
  OBVIOUS
<1>2. n \in Nat /\ DOMAIN c = 1..n /\ n \in 1..n
  BY <1>1, LenProperties
<1>3. e \in Seq(Frames) /\ Len(e) = Len(c) /\ e[n] = g /\ \A k \in 1..Len(c) : k # n => e[k] = c[k]
  BY <1>1, <1>2, ExceptSeq
<1>4. Replaced(c, n, g, e)
  BY <1>1, <1>2, <1>3 DEF Replaced
<1> QED BY <1>1, <1>4

LEMMA FramesEmit ==
  ASSUME NEW c, NEW base, NEW t, FramesInv(c, base, t), NEW u \in Nat, t <= u, NEW d, Good(d, (t + 1)..u),
         NEW e, e = [c EXCEPT ![Len(c)] = [c[Len(c)] EXCEPT !.code = @ \o d]]
  PROVE  FramesInv(e, base, u)
<1>1. PICK n, f, g : n = Len(c) /\ f = c[n] /\ g = [f EXCEPT !.code = @ \o d]
  OBVIOUS
<1>2. c \in Seq(Frames) /\ c # << >> /\ t \in Nat
  BY DEF FramesInv
<1>3. n \in Nat /\ n # 0
  BY <1>1, <1>2, LenProperties, EmptySeq
<1>4. n \in 1..n
  BY <1>3
<1>5. FrameInv(f, base[n], t)
  BY <1>1, <1>4 DEF FramesInv
<1>6. t <= t
  BY <1>2
<1>7. FrameInv(g, base[n], u)
  BY <1>1, <1>2, <1>5, <1>6, FrameEmits
<1>8. g \in Frames
  BY <1>7 DEF FrameInv
<1>9. /\ e \in Seq(Frames) /\ Len(e) = n /\ e[n] = g
      /\ \A k \in 1..n : k # n => e[k] = c[k]
  <2>1. e = [c EXCEPT ![n] = g] /\ c \in Seq(Frames) /\ n = Len(c) /\ n # 0
    BY <1>1, <1>2, <1>3
  <2>2. Replaced(c, n, g, e)
    BY <1>8, <2>1, LastReplaced
  <2> QED BY <2>2 DEF Replaced
<1>10. e # << >>
  BY <1>3, <1>9
<1>11. ASSUME NEW k \in 1..Len(e) PROVE FrameInv(e[k], base[k], IF k = Len(e) THEN u ELSE base[k + 1])
  <2>1. CASE k = n
    BY <1>7, <1>9, <2>1
  <2>2. CASE k # n
    <3>1. e[k] = c[k] /\ k # Len(e) /\ k # Len(c) /\ k \in 1..Len(c)
      BY <1>1, <1>9, <2>2
    <3>2. FrameInv(c[k], base[k], base[k + 1])
      BY <3>1 DEF FramesInv
    <3> QED BY <3>1, <3>2
  <2> QED BY <2>1, <2>2
<1> QED BY <1>9, <1>10, <1>11 DEF FramesInv

LEMMA FramesNextCase ==
  ASSUME NEW c, NEW base, NEW t, FramesInv(c, base, t), NEW val \in ConstAddrs \cup {DEFAULT},
         NEW g, g = [c[Len(c)] EXCEPT !.cases = ClosedOf(c[Len(c)]), !.val = val, !.code = << >>],
         NEW e, e = [c EXCEPT ![Len(c)] = g]
  PROVE  FramesInv(e, base, t)
<1>1. PICK n, f : n = Len(c) /\ f = c[n]
  OBVIOUS
<1>2. c \in Seq(Frames) /\ c # << >> /\ t \in Nat
  BY DEF FramesInv
<1>3. n \in Nat /\ n # 0
  BY <1>1, <1>2, LenProperties, EmptySeq
<1>4. n \in 1..n
  BY <1>3
<1>5. FrameInv(f, base[n], t)
  BY <1>1, <1>4 DEF FramesInv
<1>6. g = [f EXCEPT !.cases = ClosedOf(f), !.val = val, !.code = << >>]
  BY <1>1
<1>7. FrameInv(g, base[n], t)
  BY <1>5, <1>6, FrameGoesOn
<1>8. g \in Frames
  BY <1>7 DEF FrameInv
<1>9. /\ e \in Seq(Frames) /\ Len(e) = n /\ e[n] = g
      /\ \A k \in 1..n : k # n => e[k] = c[k]
  <2>1. e = [c EXCEPT ![n] = g] /\ c \in Seq(Frames) /\ n = Len(c) /\ n # 0
    BY <1>1, <1>2, <1>3
  <2>2. Replaced(c, n, g, e)
    BY <1>8, <2>1, LastReplaced
  <2> QED BY <2>2 DEF Replaced
<1>10. e # << >>
  BY <1>3, <1>9
<1>11. ASSUME NEW k \in 1..Len(e) PROVE FrameInv(e[k], base[k], IF k = Len(e) THEN t ELSE base[k + 1])
  <2>1. CASE k = n
    BY <1>7, <1>9, <2>1
  <2>2. CASE k # n
    <3>1. e[k] = c[k] /\ k # Len(e) /\ k # Len(c) /\ k \in 1..Len(c)
      BY <1>1, <1>9, <2>2
    <3>2. FrameInv(c[k], base[k], base[k + 1])
      BY <3>1 DEF FramesInv
    <3> QED BY <3>1, <3>2
  <2> QED BY <2>1, <2>2
<1> QED BY <1>2, <1>9, <1>10, <1>11 DEF FramesInv

LEMMA FramesOpen ==
  ASSUME NEW c, NEW base, NEW t, FramesInv(c, base, t), NEW f, NEW u \in Nat, FrameInv(f, t, u),
         NEW e, e = Append(c, f), NEW more, more = [k \in 1..(Len(c) + 1) |-> IF k = Len(c) + 1 THEN t ELSE base[k]]
  PROVE  FramesInv(e, more, u)
<1>1. PICK n : n = Len(c)
  OBVIOUS
<1>2. c \in Seq(Frames) /\ f \in Frames /\ t \in Nat
  BY DEF FramesInv, FrameInv
<1>3. /\ n \in Nat /\ e \in Seq(Frames) /\ Len(e) = n + 1 /\ e # << >>
      /\ (\A k \in 1..n : e[k] = c[k]) /\ e[n + 1] = f
  BY <1>1, <1>2, LenProperties, AppendProperties
<1>4. more[n + 1] = t /\ \A k \in 1..n : more[k] = base[k]
  <2>1. n + 1 \in 1..(n + 1) /\ \A k \in 1..n : k \in 1..(n + 1) /\ k # n + 1
    BY <1>3
  <2> QED BY <1>1, <2>1
<1>5. ASSUME NEW k \in 1..(n + 1) PROVE FrameInv(e[k], more[k], IF k = n + 1 THEN u ELSE more[k + 1])
  <2>1. CASE k = n + 1
    BY <1>3, <1>4, <2>1
  <2>2. CASE k = n /\ k # n + 1
    <3>1. k \in 1..n
      BY <1>3, <2>2
    <3>2. FrameInv(c[k], base[k], t)
      BY <1>1, <2>2, <3>1 DEF FramesInv
    <3>3. more[k + 1] = t
      BY <1>4, <2>2
    <3> QED BY <1>3, <1>4, <2>2, <3>1, <3>2, <3>3
  <2>3. CASE k # n /\ k # n + 1
    <3>1. k \in 1..n /\ k + 1 \in 1..n
      BY <1>3, <2>3
    <3>2. FrameInv(c[k], base[k], base[k + 1])
      BY <1>1, <2>3, <3>1 DEF FramesInv
    <3> QED BY <1>3, <1>4, <2>3, <3>1, <3>2
  <2> QED BY <2>1, <2>2, <2>3
<1> QED BY <1>3, <1>5 DEF FramesInv

LEMMA FramesClose ==
  ASSUME NEW c, NEW base, NEW t, FramesInv(c, base, t), NEW m \in Nat \ {0}, Len(c) = m + 1, NEW d, Good(d, (base[m + 1] + 1)..t),
         NEW e, e = [SubSeq(c, 1, m) EXCEPT ![m].code = @ \o d]
  PROVE  FramesInv(e, base, t)
<1>1. PICK b, f, g : b = SubSeq(c, 1, m) /\ f = c[m] /\ g = [f EXCEPT !.code = @ \o d]
  OBVIOUS
<1>2. c \in Seq(Frames) /\ t \in Nat /\ m \in 1..(m + 1) /\ m + 1 \in 1..(m + 1) /\ m # m + 1
  BY DEF FramesInv
<1>3. b \in Seq(Frames) /\ Len(b) = m /\ \A k \in 1..m : b[k] = c[k]
  <2>1. 1 \in 1..(Len(c) + 1) /\ m \in (1 - 1)..Len(c) /\ (m - 1) + 1 = m
    BY <1>2
  <2>2. \A i \in 1..m : c[i] \in Frames
    BY <1>2, ElementOfSeq
  <2> QED BY <1>1, <1>2, <2>1, SubSeqProperties
<1>4. PICK h : h = base[m + 1]
  OBVIOUS
<1>5. FrameInv(f, base[m], h)
  BY <1>1, <1>2, <1>4 DEF FramesInv
<1>6. FrameInv(c[m + 1], h, t)
  BY <1>2, <1>4 DEF FramesInv
<1>7. h \in Nat /\ h <= h /\ h <= t
  <2>1. h \in Nat /\ Made(c[m + 1].cond, h) /\ c[m + 1].cond.temps <= t
    BY <1>6 DEF FrameInv
  <2>2. c[m + 1].cond.temps \in Nat /\ h <= c[m + 1].cond.temps
    BY <2>1 DEF Made
  <2> QED BY <1>2, <2>1, <2>2
<1>8. Good(d, (h + 1)..t)
  BY <1>4
<1>9. FrameInv(g, base[m], t)
  BY <1>1, <1>2, <1>5, <1>7, <1>8, FrameEmits
<1>10. g \in Frames
  BY <1>9 DEF FrameInv
<1>11. m \in 1..m
  OBVIOUS
<1>12. b[m] = f
  BY <1>1, <1>3, <1>11
<1>13. e = [b EXCEPT ![m] = g]
  <2>1. e = [b EXCEPT ![m] = [b[m] EXCEPT !.code = @ \o d]]
    BY <1>1
  <2> QED BY <1>1, <1>12, <2>1
<1>14. /\ e \in Seq(Frames) /\ Len(e) = m /\ e[m] = g
       /\ \A k \in 1..m : k # m => e[k] = b[k]
  <2>1. b \in Seq(Frames) /\ m = Len(b) /\ m # 0
    BY <1>3
  <2>2. Replaced(b, m, g, e)
    <3>1. b \in Seq(Frames) /\ Len(b) # 0 /\ g \in Frames
      BY <1>10, <2>1
    <3>2. Replaced(b, Len(b), g, [b EXCEPT ![Len(b)] = g])
      BY <3>1, LastReplaced
    <3> QED BY <1>13, <2>1, <3>2
  <2> QED BY <2>2 DEF Replaced
<1>15. e # << >>
  BY <1>14
<1>16. ASSUME NEW k \in 1..Len(e) PROVE FrameInv(e[k], base[k], IF k = Len(e) THEN t ELSE base[k + 1])
  <2>1. CASE k = m
    BY <1>9, <1>14, <2>1
  <2>2. CASE k # m
    <3>1. e[k] = c[k] /\ k # Len(e) /\ k # Len(c) /\ k \in 1..Len(c)
      BY <1>3, <1>14, <2>2
    <3>2. FrameInv(c[k], base[k], base[k + 1])
      BY <3>1 DEF FramesInv
    <3> QED BY <3>1, <3>2
  <2> QED BY <2>1, <2>2
<1> QED BY <1>2, <1>14, <1>15, <1>16 DEF FramesInv

-----------------------------------------------------------------------------
(* The walk.                                                               *)

Stmts == {EndStmt} \cup UNION {inp.stmts : inp \in Inputs}

\* A frame after the first belongs to a statement that has an end.
Opens(s, cond)  == /\ s.node \in {"While", "For", "Switch"} /\ cond.addr \in Terms
                   /\ s.node # "While" => cond.addr \in Cells /\ cond.addr.kind # "temp"
                   /\ s.node = "For" => AddrType(cond.addr) = "integer"
OpenInv(c, p)   == \A k \in 2..Len(c) : c[k].at \in 1..Len(p) /\ Opens(p[c[k].at], c[k].cond)
GenInv(c, t, p) == (\E base : FramesInv(c, base, t)) /\ OpenInv(c, p)

\* The frames of e are those of c, as far as that goes.
SameFrames(e, c) ==
  /\ Len(e) \in Nat /\ Len(c) \in Nat /\ Len(e) <= Len(c)
  /\ \A k \in 1..Len(e) : e[k].at = c[k].at /\ e[k].cond = c[k].cond

LEMMA ProgGrows ==
  ASSUME NEW p \in Seq(Stmts), NEW s \in Stmts
  PROVE  /\ Len(p) \in Nat /\ Append(p, s) \in Seq(Stmts) /\ Len(Append(p, s)) = Len(p) + 1
         /\ Append(p, s)[Len(p) + 1] = s /\ \A i \in 1..Len(p) : Append(p, s)[i] = p[i]
  BY AppendProperties, LenProperties

LEMMA OpenStays ==
  ASSUME NEW c, NEW p \in Seq(Stmts), OpenInv(c, p), NEW s \in Stmts, NEW e, SameFrames(e, c)
  PROVE  OpenInv(e, Append(p, s))
<1>1. PICK q : q = Append(p, s)
  OBVIOUS
<1>2. /\ Len(p) \in Nat /\ Len(q) = Len(p) + 1 /\ \A i \in 1..Len(p) : q[i] = p[i]
  BY <1>1, ProgGrows
<1>3. ASSUME NEW k \in 2..Len(e) PROVE e[k].at \in 1..Len(q) /\ Opens(q[e[k].at], e[k].cond)
  <2>1. k \in 1..Len(e) /\ k \in 2..Len(c)
    BY DEF SameFrames
  <2>2. e[k].at = c[k].at /\ e[k].cond = c[k].cond
    BY <2>1 DEF SameFrames
  <2>3. c[k].at \in 1..Len(p) /\ Opens(p[c[k].at], c[k].cond)
    BY <2>1 DEF OpenInv
  <2>4. c[k].at \in 1..Len(q) /\ q[c[k].at] = p[c[k].at]
    BY <1>2, <2>3
  <2> QED BY <2>2, <2>3, <2>4
<1>4. OpenInv(e, q)
  BY <1>3 DEF OpenInv
<1> QED BY <1>1, <1>4

LEMMA ReplacedSame ==
  ASSUME NEW c \in Seq(Frames), Len(c) # 0, NEW g \in Frames, g.at = c[Len(c)].at, g.cond = c[Len(c)].cond
  PROVE  SameFrames([c EXCEPT ![Len(c)] = g], c)
<1>1. PICK n, e : n = Len(c) /\ e = [c EXCEPT ![n] = g]
  OBVIOUS
<1>2. Replaced(c, Len(c), g, [c EXCEPT ![Len(c)] = g])
  BY LastReplaced
<1>3. Replaced(c, n, g, e)
  BY <1>1, <1>2
<1>4. n \in Nat
  BY <1>1, LenProperties
<1>5. Len(e) = n /\ e[n] = g /\ \A k \in 1..n : k # n => e[k] = c[k]
  BY <1>3 DEF Replaced
<1>6. ASSUME NEW k \in 1..Len(e) PROVE e[k].at = c[k].at /\ e[k].cond = c[k].cond
  <2>1. CASE k = n
    BY <1>1, <1>5, <2>1
  <2>2. CASE k # n
    BY <1>5, <2>2
  <2> QED BY <2>1, <2>2
<1>7. SameFrames(e, c)
  BY <1>1, <1>4, <1>5, <1>6 DEF SameFrames
<1> QED BY <1>1, <1>7

\* What there is when a statement comes.
LEMMA LastFrame ==
  ASSUME NEW c, NEW base, NEW t, FramesInv(c, base, t)
  PROVE  /\ c \in Seq(Frames) /\ Len(c) \in Nat /\ Len(c) # 0 /\ t \in Nat
         /\ c[Len(c)] \in Frames /\ FrameInv(c[Len(c)], base[Len(c)], t)
<1>1. PICK n : n = Len(c)
  OBVIOUS
<1>2. c \in Seq(Frames) /\ c # << >> /\ t \in Nat
  BY DEF FramesInv
<1>3. n \in Nat /\ n # 0
  BY <1>1, <1>2, LenProperties, EmptySeq
<1>4. n \in 1..n
  BY <1>3
<1>5. FrameInv(c[n], base[n], t)
  BY <1>1, <1>4 DEF FramesInv
<1>6. c[n] \in Frames
  BY <1>5 DEF FrameInv
<1> QED BY <1>1, <1>2, <1>3, <1>5, <1>6

\* The code of a simple statement goes to the innermost frame.
LEMMA EmitKeeps ==
  ASSUME NEW c, NEW t, NEW p \in Seq(Stmts), GenInv(c, t, p), NEW s \in Stmts,
         NEW u \in Nat, t <= u, NEW d, Good(d, (t + 1)..u)
  PROVE  GenInv([c EXCEPT ![Len(c)] = [c[Len(c)] EXCEPT !.code = @ \o d]], u, Append(p, s))
<1>1. PICK base : FramesInv(c, base, t)
  BY DEF GenInv
<1>2. PICK f, g, e : f = c[Len(c)] /\ g = [f EXCEPT !.code = @ \o d] /\ e = [c EXCEPT ![Len(c)] = [c[Len(c)] EXCEPT !.code = @ \o d]]
  OBVIOUS
<1>3. /\ c \in Seq(Frames) /\ Len(c) \in Nat /\ Len(c) # 0 /\ t \in Nat
      /\ f \in Frames /\ FrameInv(f, base[Len(c)], t)
  BY <1>1, <1>2, LastFrame
<1>4. FramesInv(e, base, u)
  BY <1>1, <1>2, FramesEmit
<1>5. g \in Frames
  <2>1. t <= t
    BY <1>3
  <2>2. FrameInv(g, base[Len(c)], u)
    BY <1>2, <1>3, <2>1, FrameEmits
  <2> QED BY <2>2 DEF FrameInv
<1>6. g.at = f.at /\ g.cond = f.cond
  BY <1>2, <1>3 DEF Frames
<1>7. e = [c EXCEPT ![Len(c)] = g]
  BY <1>2
<1>8. SameFrames([c EXCEPT ![Len(c)] = g], c)
  <2>1. g.at = c[Len(c)].at /\ g.cond = c[Len(c)].cond
    BY <1>2, <1>6
  <2> QED BY <1>3, <1>5, <2>1, ReplacedSame
<1>9. SameFrames(e, c)
  BY <1>7, <1>8
<1>10. OpenInv(c, p)
  BY DEF GenInv
<1>11. OpenInv(e, Append(p, s))
  BY <1>9, <1>10, OpenStays
<1>12. GenInv(e, u, Append(p, s))
  BY <1>4, <1>11 DEF GenInv
<1> QED BY <1>2, <1>12

\* A case of a switch begins.
LEMMA CaseKeeps ==
  ASSUME NEW c, NEW t, NEW p \in Seq(Stmts), GenInv(c, t, p), NEW s \in Stmts, NEW val \in ConstAddrs \cup {DEFAULT}
  PROVE  GenInv([c EXCEPT ![Len(c)] = [c[Len(c)] EXCEPT !.cases = ClosedOf(c[Len(c)]), !.val = val, !.code = << >>]], t, Append(p, s))
<1>1. PICK base : FramesInv(c, base, t)
  BY DEF GenInv
<1>2. PICK f, g, e : /\ f = c[Len(c)] /\ g = [c[Len(c)] EXCEPT !.cases = ClosedOf(c[Len(c)]), !.val = val, !.code = << >>]
                     /\ e = [c EXCEPT ![Len(c)] = g]
  OBVIOUS
<1>3. /\ c \in Seq(Frames) /\ Len(c) \in Nat /\ Len(c) # 0 /\ t \in Nat
      /\ f \in Frames /\ FrameInv(f, base[Len(c)], t)
  BY <1>1, <1>2, LastFrame
<1>4. FramesInv(e, base, t)
  BY <1>1, <1>2, FramesNextCase
<1>5. g = [f EXCEPT !.cases = ClosedOf(f), !.val = val, !.code = << >>]
  BY <1>2
<1>6. g \in Frames
  <2>1. FrameInv(g, base[Len(c)], t)
    BY <1>3, <1>5, FrameGoesOn
  <2> QED BY <2>1 DEF FrameInv
<1>7. g.at = f.at /\ g.cond = f.cond
  BY <1>3, <1>5 DEF Frames
<1>8. SameFrames([c EXCEPT ![Len(c)] = g], c)
  <2>1. g.at = c[Len(c)].at /\ g.cond = c[Len(c)].cond
    BY <1>2, <1>7
  <2> QED BY <1>3, <1>6, <2>1, ReplacedSame
<1>9. SameFrames(e, c)
  BY <1>2, <1>8
<1>10. OpenInv(c, p)
  BY DEF GenInv
<1>11. OpenInv(e, Append(p, s))
  BY <1>9, <1>10, OpenStays
<1>12. GenInv(e, t, Append(p, s))
  BY <1>4, <1>11 DEF GenInv
<1> QED BY <1>2, <1>12

\* A loop or a switch begins.
LEMMA OpenKeeps ==
  ASSUME NEW c, NEW t, NEW p \in Seq(Stmts), GenInv(c, t, p), NEW s \in Stmts,
         NEW cond, Made(cond, t), cond = [code |-> cond.code, addr |-> cond.addr, temps |-> cond.temps], Opens(s, cond)
  PROVE  GenInv(Append(c, Frame(Len(p) + 1, cond)), cond.temps, Append(p, s))
<1>1. PICK base : FramesInv(c, base, t)
  BY DEF GenInv
<1>2. PICK f, e, q : f = Frame(Len(p) + 1, cond) /\ e = Append(c, f) /\ q = Append(p, s)
  OBVIOUS
<1>3. c \in Seq(Frames) /\ Len(c) \in Nat /\ Len(c) # 0 /\ t \in Nat
  BY <1>1, LastFrame
<1>4. PICK m, u : m = Len(p) + 1 /\ u = cond.temps
  OBVIOUS
<1>5. /\ Len(p) \in Nat /\ q \in Seq(Stmts) /\ Len(q) = Len(p) + 1
      /\ q[Len(p) + 1] = s /\ \A i \in 1..Len(p) : q[i] = p[i]
  BY <1>2, ProgGrows
<1>6. m \in Nat /\ u \in Nat
  BY <1>4, <1>5 DEF Made
<1>7. FrameInv(f, t, u)
  BY <1>2, <1>3, <1>4, <1>6, FrameBegins
<1>8. f \in Frames /\ f.at = m /\ f.cond = cond
  BY <1>2, <1>4, <1>7 DEF FrameInv, Frame
<1>9. \E more : FramesInv(e, more, u)
  <2>1. PICK more : more = [k \in 1..(Len(c) + 1) |-> IF k = Len(c) + 1 THEN t ELSE base[k]]
    OBVIOUS
  <2>2. FramesInv(e, more, u)
    BY <1>1, <1>2, <1>6, <1>7, <2>1, FramesOpen
  <2> QED BY <2>2
<1>10. Len(e) = Len(c) + 1 /\ e[Len(c) + 1] = f /\ \A k \in 1..Len(c) : e[k] = c[k]
  BY <1>2, <1>3, <1>8, AppendProperties
<1>11. OpenInv(c, p)
  BY DEF GenInv
<1>12. ASSUME NEW k \in 2..Len(e) PROVE e[k].at \in 1..Len(q) /\ Opens(q[e[k].at], e[k].cond)
  <2>1. CASE k = Len(c) + 1
    BY <1>4, <1>5, <1>8, <1>10, <2>1
  <2>2. CASE k # Len(c) + 1
    <3>1. k \in 2..Len(c) /\ k \in 1..Len(c)
      BY <1>3, <1>10, <2>2
    <3>2. c[k].at \in 1..Len(p) /\ Opens(p[c[k].at], c[k].cond)
      BY <1>11, <3>1 DEF OpenInv
    <3>3. c[k].at \in 1..Len(q) /\ q[c[k].at] = p[c[k].at]
      BY <1>5, <3>2
    <3> QED BY <1>10, <3>1, <3>2, <3>3
  <2> QED BY <2>1, <2>2
<1>13. OpenInv(e, q)
  BY <1>12 DEF OpenInv
<1>14. GenInv(e, u, q)
  BY <1>9, <1>13 DEF GenInv
<1> QED BY <1>2, <1>4, <1>14

\* And ends: d is its code.
LEMMA CloseKeeps ==
  ASSUME NEW c, NEW t, NEW p \in Seq(Stmts), GenInv(c, t, p), NEW s \in Stmts, NEW m \in Nat \ {0}, Len(c) = m + 1,
         NEW d, \A lo : FrameInv(c[m + 1], lo, t) => Good(d, (lo + 1)..t)
  PROVE  GenInv([SubSeq(c, 1, m) EXCEPT ![m].code = @ \o d], t, Append(p, s))
<1>1. PICK base : FramesInv(c, base, t)
  BY DEF GenInv
<1>2. PICK b, f, g, e : /\ b = SubSeq(c, 1, m) /\ f = b[m] /\ g = [f EXCEPT !.code = @ \o d]
                        /\ e = [SubSeq(c, 1, m) EXCEPT ![m].code = @ \o d]
  OBVIOUS
<1>3. c \in Seq(Frames) /\ t \in Nat
  BY <1>1, LastFrame
<1>4. b \in Seq(Frames) /\ Len(b) = m /\ \A k \in 1..m : b[k] = c[k]
  <2>1. 1 \in 1..(Len(c) + 1) /\ m \in (1 - 1)..Len(c) /\ (m - 1) + 1 = m
    OBVIOUS
  <2>2. \A i \in 1..m : c[i] \in Frames
    BY <1>3, ElementOfSeq
  <2> QED BY <1>2, <1>3, <2>1, <2>2, SubSeqProperties
<1>5. m \in 1..m /\ m + 1 \in 1..(m + 1)
  OBVIOUS
<1>6. FrameInv(c[m + 1], base[m + 1], t)
  BY <1>1, <1>5 DEF FramesInv
<1>7. Good(d, (base[m + 1] + 1)..t)
  BY <1>6
<1>8. FramesInv(e, base, t)
  BY <1>1, <1>2, <1>7, FramesClose
<1>9. f \in Frames
  BY <1>2, <1>4, <1>5, ElementOfSeq
<1>10. g.at = f.at /\ g.cond = f.cond
  BY <1>2, <1>9 DEF Frames
<1>11. e = [b EXCEPT ![m] = g]
  <2>1. e = [b EXCEPT ![m] = [b[m] EXCEPT !.code = @ \o d]]
    BY <1>2
  <2> QED BY <1>2, <2>1
<1>12. DOMAIN b = 1..m
  BY <1>4, LenProperties
<1>13. Len(e) = m /\ e[m] = g /\ \A k \in 1..m : k # m => e[k] = b[k]
  <2>1. e[m] = g /\ (\A k \in 1..m : k # m => e[k] = b[k]) /\ DOMAIN e = 1..m
    BY <1>5, <1>11, <1>12
  <2>2. e \in Seq(Frames)
    BY <1>8 DEF FramesInv
  <2>3. Len(e) \in Nat /\ DOMAIN e = 1..Len(e)
    BY <2>2, LenProperties
  <2>4. Len(e) = m
    BY <2>1, <2>3
  <2> QED BY <2>1, <2>4
<1>14. ASSUME NEW k \in 1..Len(e) PROVE e[k].at = c[k].at /\ e[k].cond = c[k].cond
  <2>1. CASE k = m
    BY <1>2, <1>4, <1>5, <1>10, <1>13, <2>1
  <2>2. CASE k # m
    BY <1>4, <1>13, <2>2
  <2> QED BY <2>1, <2>2
<1>15. SameFrames(e, c)
  BY <1>13, <1>14 DEF SameFrames
<1>16. OpenInv(c, p)
  BY DEF GenInv
<1>17. OpenInv(e, Append(p, s))
  BY <1>15, <1>16, OpenStays
<1>18. GenInv(e, t, Append(p, s))
  BY <1>8, <1>17 DEF GenInv
<1> QED BY <1>2, <1>18

\* More temporaries may be allowed.
LEMMA GoodWider ==
  ASSUME NEW c, NEW N, Good(c, N), NEW M, N \subseteq M
  PROVE  Good(c, M)
  BY DEF Good

\* What a statement of an input is made of.
LEMMA StatementTyped ==
  ASSUME NEW s \in Stmts
  PROVE  /\ s.node = "Assn" => s.target \in Exprs /\ s.target.node \in {"Var", "Deref"} /\ s.expr \in Exprs
         /\ s.node = "While" => s.cond \in Exprs
         /\ s.node = "Output" => s.var \in Exprs /\ s.var.node \in {"Var", "Deref", "Num"}
         /\ s.node \in {"For", "Input", "Switch"} => s.name \in DOMAIN Vars
         /\ s.node = "For" => s.beg \in Word /\ s.end \in Word
         /\ s.node = "Case" => s.val.val \in ValuesOf(s.val.type) /\ s.val.type \in Types
         /\ s.node = "Assn" => TypeOfExpr(s.target) = TypeOfExpr(s.expr)
         /\ s.node = "For" => Vars[s.name].type = "integer"
<1>1. CASE s = EndStmt
  BY <1>1 DEF EndStmt
<1>2. CASE s \in UNION {inp.stmts : inp \in Inputs}
  <2>1. PICK inp \in Inputs : s \in inp.stmts
    BY <1>2
  <2>10. /\ s.node = "Assn" => TypeOfExpr(s.target) = TypeOfExpr(s.expr)
         /\ s.node = "For" => Vars[s.name].type = "integer"
    BY <2>1, TypesAssumption
  <2>11. /\ s.node = "For" => s.beg \in Word /\ s.end \in Word
         /\ s.node = "Case" => s.val.val \in ValuesOf(s.val.type)
    BY <2>1, LiteralsAssumption
  <2>2. (CASE s.node = "Assn"  -> s.target \in Exprs /\ s.target.node \in {"Var", "Deref"} /\ s.expr \in Exprs
          [] s.node = "While"  -> s.cond \in Exprs
          [] s.node = "Output" -> s.var \in Exprs /\ s.var.node \in {"Var", "Deref", "Num"}
          [] s.node = "For"    -> s.name \in DOMAIN Vars /\ s.beg \in Int /\ s.end \in Int
          [] s.node = "Case"   -> s.val.val \in Int /\ s.val.type \in Types
          [] s.node \in {"Input", "Switch"} -> s.name \in DOMAIN Vars
          [] OTHER             -> s.node = "Default")
    BY <2>1, StatementsAssumption
  <2>3. CASE s.node = "Assn"
    BY <2>2, <2>3, <2>10, <2>11
  <2>4. CASE s.node = "While"
    BY <2>2, <2>4, <2>10, <2>11
  <2>5. CASE s.node = "Output"
    BY <2>2, <2>5, <2>10, <2>11
  <2>6. CASE s.node = "For"
    BY <2>2, <2>6, <2>10, <2>11
  <2>7. CASE s.node = "Case"
    BY <2>2, <2>7, <2>10, <2>11
  <2>8. CASE s.node \in {"Input", "Switch"}
    BY <2>2, <2>8
  <2>9. CASE s.node \notin {"Assn", "While", "Output", "For", "Case", "Input", "Switch"}
    BY <2>9
  <2> QED BY <2>3, <2>4, <2>5, <2>6, <2>7, <2>8, <2>9
<1> QED BY <1>1, <1>2 DEF Stmts

\* A variable, an element or a number is no temporary, and has a value.
LEMMA PlainOperand ==
  ASSUME NEW e \in Exprs, e.node \in {"Var", "Deref", "Num"}, NEW t \in Nat, NEW a, a = compile_expr[e][t].addr
  PROVE  a \in Terms /\ a \in Addrs /\ a.kind # "temp" /\ AddrType(a) = TypeOfExpr(e) /\ (e.node # "Num" => a \in Cells)
<1>1. a \in Addrs /\ a.kind # "null" /\ AddrType(a) = TypeOfExpr(e)
  <2>1. a \in Addrs
    BY ExpressionMade DEF Made
  <2>2. a.kind \in {"var", "temp", "const", "arr"} /\ AddrType(a) = TypeOfExpr(e)
    BY ExpressionAddr
  <2> QED BY <2>1, <2>2
<1>2. compile_expr[e][t] = Compiled(compile_expr, e, t)
  BY CompileIs
<1>3. CASE e.node = "Var"
  <2>1. a.kind = "var"
    BY <1>2, <1>3 DEF Compiled, Operand, VarAddr
  <2> QED BY <1>1, <2>1, KindOf DEF Cells
<1>4. CASE e.node = "Deref"
  <2>1. compile_expr[e][t] = Operand(ArrAddr(e.name, compile_expr[e.index][t].addr), t)
    BY <1>2, <1>4 DEF Compiled
  <2>2. a.kind = "arr"
    BY <2>1 DEF Operand, ArrAddr
  <2> QED BY <1>1, <2>2, KindOf DEF Cells
<1>5. CASE e.node = "Num"
  <2>1. compile_expr[e][t] = Operand(ConstAddr(e.val, e.type), t)
    BY <1>2, <1>5 DEF Compiled
  <2>2. a.kind = "const"
    BY <2>1 DEF Operand, ConstAddr
  <2> QED BY <1>1, <1>5, <2>2, KindOf
<1> QED BY <1>3, <1>4, <1>5

\* The code of a loop or a switch has the temporaries of its condition and of
\* its statements.
LEMMA EndGood ==
  ASSUME NEW f, NEW lo, NEW hi, FrameInv(f, lo, hi), NEW l \in Nat, NEW s \in Stmts, Opens(s, f.cond),
         NEW cases, cases = ClosedOf(f),
         s.node = "Switch" /\ Boolean => {ConstAddr(0, "boolean"), ConstAddr(1, "boolean")} \subseteq {cases[i].val : i \in DOMAIN cases}
  PROVE  Good(EndCode(s, f, cases, l), (lo + 1)..hi)
<1>1. PICK a, cond, h, N : a = f.cond.addr /\ cond = f.cond /\ h = f.cond.temps /\ N = (h + 1)..hi
  OBVIOUS
<1>2. f \in Frames /\ lo \in Nat /\ hi \in Nat /\ Made(cond, lo) /\ h <= hi /\ Good(f.code, N)
  BY <1>1 DEF FrameInv
<1>3. f.at \in Nat /\ a \in Addrs /\ h \in Nat /\ lo <= h /\ a \in Terms
  BY <1>1, <1>2, FrameTyped DEF Made, Opens
<1>4. N \subseteq (lo + 1)..hi
  BY <1>1, <1>2, <1>3
<1>5. CASE s.node = "While"
  <2>1. ((lo + 1)..cond.temps) \cap N = {}
    BY <1>1, <1>2, <1>3
  <2>2. Good(WhileCode(f, l), ((lo + 1)..cond.temps) \cup N)
    BY <1>1, <1>2, <1>3, <2>1, WhileGood
  <2>3. ((lo + 1)..cond.temps) \cup N \subseteq (lo + 1)..hi
    BY <1>1, <1>2, <1>3
  <2>4. Good(WhileCode(f, l), (lo + 1)..hi)
    BY <2>2, <2>3, GoodWider
  <2> QED BY <1>5, <2>4 DEF EndCode
<1>6. CASE s.node = "For"
  <2>1. s.beg \in Word /\ s.end \in Word /\ a.kind # "temp" /\ a \in Cells /\ AddrType(a) = "integer"
    BY <1>1, <1>6, StatementTyped DEF Opens
  <2>2. Good(ForCode(f, s, l), N)
    BY <1>1, <1>2, <1>3, <2>1, ForGood
  <2>3. Good(ForCode(f, s, l), (lo + 1)..hi)
    BY <1>4, <2>2, GoodWider
  <2> QED BY <1>6, <2>3 DEF EndCode
<1>7. CASE s.node = "Switch"
  <2>1. a.kind # "temp" /\ a \in Cells
    BY <1>1, <1>7 DEF Opens
  <2>2. CasesSound(cases) /\ CasesUsed(cases, Len(cases)) \subseteq N
    BY <1>1, ClosedSound
  <2>3. CasesUsed(cases, Len(cases)) \subseteq (lo + 1)..hi
    BY <1>4, <2>2
  <2>4. CASE Boolean
    <3>1. Len(cases) \in Nat /\ DOMAIN cases = 1..Len(cases)
      BY <2>2, CaseTyped DEF CasesSound
    <3>2. PICK u \in 1..Len(cases) : cases[u].val = ConstAddr(1, "boolean")
      BY <1>7, <2>4, <3>1
    <3>3. PICK v \in 1..Len(cases) : cases[v].val = ConstAddr(0, "boolean")
      BY <1>7, <2>4, <3>1
    <3>4. Good(BooleanSwitchCode(f, cases, l), CasesUsed(cases, Len(cases)))
      BY <1>1, <1>3, <2>1, <2>2, <3>2, <3>3, BooleanSwitchGood
    <3>5. Good(BooleanSwitchCode(f, cases, l), (lo + 1)..hi)
      BY <2>3, <3>4, GoodWider
    <3> QED BY <1>7, <2>4, <3>5 DEF EndCode
  <2>5. CASE ~Boolean
    <3>1. Good(IntegerSwitchCode(f, cases, l), CasesUsed(cases, Len(cases)))
      BY <1>1, <1>3, <2>1, <2>2, IntegerSwitchGood
    <3>2. Good(IntegerSwitchCode(f, cases, l), (lo + 1)..hi)
      BY <2>3, <3>1, GoodWider
    <3> QED BY <1>7, <2>5, <3>2 DEF EndCode
  <2> QED BY <2>4, <2>5
<1> QED BY <1>5, <1>6, <1>7 DEF Opens

-----------------------------------------------------------------------------
(* The invariant: while code is made, the frames have their temporaries in *)
(* intervals that follow one another, and what they hold is sound.         *)

CodeInv ==
  /\ input \in Inputs /\ prog \in Seq(Stmts) /\ label_counter \in Nat
  /\ pc \in {"gen", "run", "stuck"}
  /\ pc = "gen" => GenInv(control, temps, prog)
  /\ pc # "gen" => control = << >>

LEMMA InitCode ==
  ASSUME Init
  PROVE  CodeInv
<1>1. PICK base, cond, f, c : /\ base = [k \in 1..1 |-> 0] /\ cond = Operand(NULL, 0) /\ f = Frame(0, cond)
                              /\ c = <<f>>
  OBVIOUS
<1>2. Made(cond, 0)
  BY <1>1, AddrKinds, OperandMade
<1>3. cond = [code |-> cond.code, addr |-> cond.addr, temps |-> cond.temps] /\ cond.temps = 0
  BY <1>1 DEF Operand
<1>4. FrameInv(f, 0, 0)
  BY <1>1, <1>2, <1>3, FrameBegins
<1>5. f \in Frames
  BY <1>4 DEF FrameInv
<1>6. c \in Seq(Frames) /\ Len(c) = 1 /\ c[1] = f /\ c # << >>
  BY <1>1, <1>5
<1>7. base[1] = 0
  BY <1>1
<1>8. \A k \in 1..Len(c) : FrameInv(c[k], base[k], IF k = Len(c) THEN 0 ELSE base[k + 1])
  BY <1>4, <1>6, <1>7
<1>9. FramesInv(c, base, 0)
  BY <1>6, <1>8 DEF FramesInv
<1>10. OpenInv(c, << >>)
  BY <1>6 DEF OpenInv
<1>11. GenInv(c, 0, << >>)
  BY <1>9, <1>10 DEF GenInv
<1>12. control = c /\ temps = 0 /\ prog = << >> /\ label_counter = 1 /\ pc = "gen" /\ input \in Inputs
  BY <1>1 DEF Init
<1>13. prog \in Seq(Stmts)
  BY <1>12
<1> QED BY <1>11, <1>12, <1>13 DEF CodeInv

\* What every statement of the walk starts from.
LEMMA WalkTyped ==
  ASSUME CodeInv, NEW s \in input.stmts \cup {EndStmt}, Walk(s)
  PROVE  /\ s \in Stmts /\ GenInv(control, temps, prog) /\ temps \in Nat /\ prog \in Seq(Stmts) /\ Len(prog) \in Nat
         /\ Here \in Places
         /\ input' \in Inputs /\ prog' = Append(prog, s) /\ prog' \in Seq(Stmts) /\ pc' = "gen"
<1>1. pc = "gen" /\ prog' = Append(prog, s) /\ pc' = pc /\ input' = input
  BY DEF Walk
<1>2. s \in Stmts
  BY DEF CodeInv, Stmts
<1>3. GenInv(control, temps, prog) /\ prog \in Seq(Stmts) /\ input \in Inputs
  BY <1>1 DEF CodeInv
<1>4. temps \in Nat
  BY <1>3, LastFrame DEF GenInv
<1>5. Len(prog) \in Nat /\ prog' \in Seq(Stmts)
  BY <1>1, <1>2, <1>3, ProgGrows
<1>6. Here \in Places
  <2>1. PICK i \in Nat : i = Len(prog) + 1
    BY <1>5
  <2>2. <<i, "do">> \in Places
    BY PlaceOf
  <2> QED BY <2>1, <2>2 DEF Here
<1> QED BY <1>1, <1>2, <1>3, <1>4, <1>5, <1>6

\* So it is enough to know the frames after it.
LEMMA WalkKeeps ==
  ASSUME CodeInv, NEW s \in input.stmts \cup {EndStmt}, Walk(s), label_counter' \in Nat,
         GenInv(control', temps', Append(prog, s))
  PROVE  CodeInv'
  BY WalkTyped DEF CodeInv

LEMMA AssnStep ==
  ASSUME CodeInv, NEW s \in input.stmts \cup {EndStmt}, Assn(s)
  PROVE  CodeInv'
<1>1. s.node = "Assn" /\ Walk(s) /\ label_counter' = label_counter
  BY DEF Assn
<1>2. PICK t, expr, target, d : /\ t = temps /\ expr = compile_expr[s.expr][t] /\ target = compile_expr[s.target][t]
                                /\ d = AtPlace(Here, AssnCode(target, expr))
  OBVIOUS
<1>3. s \in Stmts /\ GenInv(control, t, prog) /\ t \in Nat /\ prog \in Seq(Stmts) /\ Here \in Places
  BY <1>1, <1>2, WalkTyped
<1>4. s.target \in Exprs /\ s.target.node \in {"Var", "Deref", "Num"} /\ s.expr \in Exprs
  BY <1>1, <1>3, StatementTyped
<1>5. Made(expr, t)
  BY <1>2, <1>3, <1>4, ExpressionMade
<1>6. target.addr \in Addrs /\ target.addr.kind # "temp" /\ target.addr \in Cells /\ AddrType(target.addr) = TypeOfExpr(s.target)
  <2>1. s.target.node # "Num"
    BY <1>1, <1>3, StatementTyped
  <2> QED BY <1>2, <1>3, <1>4, <2>1, PlainOperand
<1>14. Fit("MOV", target.addr, expr.addr, NULL)
  <2>1. PICK x : x = expr.addr
    OBVIOUS
  <2>2. x.kind # "null" /\ AddrType(x) = TypeOfExpr(s.expr)
    BY <1>2, <1>3, <1>4, <2>1, ExpressionAddr
  <2>3. x \in Terms
    BY <1>5, <2>1, <2>2, KindOf DEF Made
  <2>4. TypeOfExpr(s.target) = TypeOfExpr(s.expr)
    BY <1>1, <1>3, StatementTyped
  <2> QED BY <1>6, <2>1, <2>2, <2>3, <2>4, FitOthers
<1>7. Good(AssnCode(target, expr), (t + 1)..expr.temps)
  BY <1>3, <1>5, <1>6, <1>14, AssnGood
<1>8. Good(d, (t + 1)..expr.temps)
  BY <1>2, <1>3, <1>7, PlacedGood
<1>9. expr.temps \in Nat /\ t <= expr.temps
  BY <1>5 DEF Made
<1>10. temps' = expr.temps /\ control' = [control EXCEPT ![Len(control)] = [control[Len(control)] EXCEPT !.code = @ \o d]]
  BY <1>2 DEF Assn, Emit, Top
<1>11. GenInv([control EXCEPT ![Len(control)] = [control[Len(control)] EXCEPT !.code = @ \o d]], expr.temps, Append(prog, s))
  BY <1>3, <1>8, <1>9, EmitKeeps
<1>12. GenInv(control', temps', Append(prog, s))
  BY <1>10, <1>11
<1>13. label_counter' \in Nat
  BY <1>1 DEF CodeInv
<1> QED BY <1>1, <1>12, <1>13, WalkKeeps

\* An instruction without temporaries goes to the innermost frame.
LEMMA QuietEmitted ==
  ASSUME CodeInv, NEW s \in input.stmts \cup {EndStmt}, Walk(s), NEW instr, Quiet(instr),
         Emit(AtPlace(Here, <<instr>>)), temps' = temps, label_counter' = label_counter
  PROVE  CodeInv'
<1>1. PICK t, d : t = temps /\ d = AtPlace(Here, <<instr>>)
  OBVIOUS
<1>2. s \in Stmts /\ GenInv(control, t, prog) /\ t \in Nat /\ prog \in Seq(Stmts) /\ Here \in Places
  BY <1>1, WalkTyped
<1>3. Good(<<instr>>, {})
  BY QuietOne
<1>4. Good(d, {})
  BY <1>1, <1>2, <1>3, PlacedGood
<1>5. Good(d, (t + 1)..t) /\ t <= t
  BY <1>2, <1>4, GoodWider
<1>6. control' = [control EXCEPT ![Len(control)] = [control[Len(control)] EXCEPT !.code = @ \o d]]
  BY <1>1 DEF Emit, Top
<1>7. GenInv([control EXCEPT ![Len(control)] = [control[Len(control)] EXCEPT !.code = @ \o d]], t, Append(prog, s))
  BY <1>2, <1>5, EmitKeeps
<1>8. GenInv(control', temps', Append(prog, s))
  BY <1>1, <1>6, <1>7
<1>9. label_counter' \in Nat
  BY DEF CodeInv
<1> QED BY <1>8, <1>9, WalkKeeps

LEMMA InputStep ==
  ASSUME CodeInv, NEW s \in input.stmts \cup {EndStmt}, Input(s)
  PROVE  CodeInv'
<1>1. s.node = "Input" /\ Walk(s) /\ label_counter' = label_counter /\ temps' = temps
  BY DEF Input
<1>2. PICK instr : instr = irinstr_new2("INPUT", VarAddr(s.name), NULL, NULL)
  OBVIOUS
<1>3. VarAddr(s.name) \in Addrs /\ VarAddr(s.name).kind # "temp" /\ VarAddr(s.name) \in VarAddrs
  BY <1>1, WalkTyped, StatementTyped, AddrKinds
<1>7. Fit("INPUT", VarAddr(s.name), NULL, NULL)
  BY <1>3, FitOthers
<1>4. NULL \in Addrs /\ NULL.kind # "temp" /\ "INPUT" \in Ops
  BY AddrKinds DEF Ops
<1>5. Quiet(instr)
  BY <1>2, <1>3, <1>4, <1>7, QuietMade DEF irinstr_new2
<1>6. Emit(AtPlace(Here, <<instr>>))
  BY <1>2 DEF Input
<1> QED BY <1>1, <1>5, <1>6, QuietEmitted

LEMMA OutputStep ==
  ASSUME CodeInv, NEW s \in input.stmts \cup {EndStmt}, Output(s)
  PROVE  CodeInv'
<1>1. s.node = "Output" /\ Walk(s) /\ label_counter' = label_counter /\ temps' = temps
  BY DEF Output
<1>2. PICK a, instr : a = compile_expr[s.var][temps].addr /\ instr = irinstr_new2("OUTPUT", NULL, a, NULL)
  OBVIOUS
<1>3. s \in Stmts /\ temps \in Nat
  BY <1>1, WalkTyped
<1>4. s.var \in Exprs /\ s.var.node \in {"Var", "Deref", "Num"}
  BY <1>1, <1>3, StatementTyped
<1>5. a \in Addrs /\ a.kind # "temp" /\ a \in Terms
  BY <1>2, <1>3, <1>4, PlainOperand
<1>9. Fit("OUTPUT", NULL, a, NULL)
  BY <1>5, FitOthers
<1>6. NULL \in Addrs /\ NULL.kind # "temp" /\ "OUTPUT" \in Ops
  BY AddrKinds DEF Ops
<1>7. Quiet(instr)
  BY <1>2, <1>5, <1>6, <1>9, QuietMade DEF irinstr_new2
<1>8. Emit(AtPlace(Here, <<instr>>))
  BY <1>2 DEF Output
<1> QED BY <1>1, <1>7, <1>8, QuietEmitted

LEMMA OpenStep ==
  ASSUME CodeInv, NEW s \in input.stmts \cup {EndStmt}, Walk(s), NEW cond, Open(cond), Made(cond, temps),
         cond = [code |-> cond.code, addr |-> cond.addr, temps |-> cond.temps], Opens(s, cond)
  PROVE  CodeInv'
<1>1. PICK t : t = temps
  OBVIOUS
<1>2. s \in Stmts /\ GenInv(control, t, prog) /\ t \in Nat /\ prog \in Seq(Stmts)
  BY <1>1, WalkTyped
<1>3. GenInv(Append(control, Frame(Len(prog) + 1, cond)), cond.temps, Append(prog, s))
  BY <1>1, <1>2, OpenKeeps
<1>4. control' = Append(control, Frame(Len(prog) + 1, cond)) /\ temps' = cond.temps /\ label_counter' = label_counter
  BY DEF Open
<1>5. GenInv(control', temps', Append(prog, s))
  BY <1>3, <1>4
<1>6. label_counter' \in Nat
  BY <1>4 DEF CodeInv
<1> QED BY <1>5, <1>6, WalkKeeps

\* What compile_expr makes is a record of three parts.
LEMMA CompiledRecord ==
  ASSUME NEW p \in Exprs, NEW t \in Nat, NEW r, r = compile_expr[p][t]
  PROVE  r = [code |-> r.code, addr |-> r.addr, temps |-> r.temps]
<1>1. r = Compiled(compile_expr, p, t)
  BY CompileIs
<1>2. CASE p.node = "BOp"
  <2>1. \E a, b : r = BOp(p.op, a, b)
    BY <1>1, <1>2 DEF Compiled
  <2> QED BY <2>1 DEF BOp
<1>3. CASE p.node = "UOp"
  <2>1. \E a : r = UOp(a)
    BY <1>1, <1>3 DEF Compiled
  <2> QED BY <2>1 DEF UOp
<1>4. CASE p.node \notin {"BOp", "UOp"}
  <2>1. \E a : r = Operand(a, t)
    BY <1>1, <1>4, Zenon DEF Compiled
  <2> QED BY <2>1 DEF Operand
<1> QED BY <1>2, <1>3, <1>4

LEMMA WhileStep ==
  ASSUME CodeInv, NEW s \in input.stmts \cup {EndStmt}, While(s)
  PROVE  CodeInv'
<1>1. PICK cond : cond = compile_expr[s.cond][temps]
  OBVIOUS
<1>2. s.node = "While" /\ Walk(s) /\ Open(cond)
  BY <1>1 DEF While
<1>3. s.cond \in Exprs /\ temps \in Nat
  BY <1>2, WalkTyped, StatementTyped
<1>4. Made(cond, temps)
  BY <1>1, <1>3, ExpressionMade
<1>5. cond = [code |-> cond.code, addr |-> cond.addr, temps |-> cond.temps]
  BY <1>1, <1>3, CompiledRecord
<1>6. Opens(s, cond)
  <2>1. PICK a : a = cond.addr
    OBVIOUS
  <2>2. a.kind # "null"
    BY <1>1, <1>3, <2>1, ExpressionAddr
  <2>3. a \in Terms
    BY <1>4, <2>1, <2>2, KindOf DEF Made
  <2> QED BY <1>2, <2>1, <2>3 DEF Opens
<1> QED BY <1>2, <1>4, <1>5, <1>6, OpenStep

\* A for-loop or a switch: its variable.
LEMMA VariableStep ==
  ASSUME CodeInv, NEW s \in input.stmts \cup {EndStmt}, For(s) \/ Switch(s)
  PROVE  CodeInv'
<1>1. PICK a, cond : a = VarAddr(s.name) /\ cond = Operand(a, temps)
  OBVIOUS
<1>2. s.node \in {"For", "Switch"} /\ Walk(s) /\ Open(cond)
  BY <1>1 DEF For, Switch
<1>3. s \in Stmts /\ temps \in Nat
  BY <1>2, WalkTyped
<1>4. a \in Addrs /\ a.kind = "var" /\ a.kind # "temp" /\ a \in VarAddrs /\ a.name = s.name
  BY <1>1, <1>2, <1>3, StatementTyped, AddrKinds
<1>8. a \in Cells /\ a \in Terms
  BY <1>4 DEF Terms, Cells
<1>9. s.node = "For" => AddrType(a) = "integer"
  BY <1>3, <1>4, StatementTyped DEF AddrType
<1>5. Made(cond, temps)
  BY <1>1, <1>3, <1>4, OperandMade
<1>6. cond = [code |-> cond.code, addr |-> cond.addr, temps |-> cond.temps] /\ cond.addr = a
  BY <1>1 DEF Operand
<1>7. Opens(s, cond)
  BY <1>2, <1>4, <1>6, <1>8, <1>9 DEF Opens
<1> QED BY <1>2, <1>5, <1>6, <1>7, OpenStep

LEMMA CaseStep ==
  ASSUME CodeInv, NEW s \in input.stmts \cup {EndStmt}, Case(s) \/ Default(s)
  PROVE  CodeInv'
<1>1. PICK val : NextCase(s, val) /\ val \in {ConstAddr(s.val.val, s.val.type), DEFAULT} /\ (val # DEFAULT => s.node = "Case")
  BY DEF Case, Default
<1>2. Walk(s) /\ temps' = temps /\ label_counter' = label_counter
  BY <1>1 DEF NextCase
<1>3. PICK t : t = temps
  OBVIOUS
<1>4. s \in Stmts /\ GenInv(control, t, prog) /\ prog \in Seq(Stmts)
  BY <1>2, <1>3, WalkTyped
<1>5. val \in ConstAddrs \cup {DEFAULT}
  BY <1>1, <1>4, StatementTyped, AddrKinds
<1>6. GenInv([control EXCEPT ![Len(control)] = [control[Len(control)] EXCEPT !.cases = ClosedOf(control[Len(control)]), !.val = val, !.code = << >>]],
             t, Append(prog, s))
  BY <1>4, <1>5, CaseKeeps
<1>7. Closed = ClosedOf(control[Len(control)])
  BY DEF Closed, ClosedOf, Top
<1>8. control' = [control EXCEPT ![Len(control)] = [control[Len(control)] EXCEPT !.cases = ClosedOf(control[Len(control)]), !.val = val, !.code = << >>]]
  BY <1>1, <1>7 DEF NextCase, Top
<1>9. GenInv(control', temps', Append(prog, s))
  BY <1>2, <1>3, <1>6, <1>8
<1>10. label_counter' \in Nat
  BY <1>2 DEF CodeInv
<1> QED BY <1>2, <1>9, <1>10, WalkKeeps

LEMMA EndStep ==
  ASSUME CodeInv, NEW s \in input.stmts \cup {EndStmt}, End(s)
  PROVE  CodeInv'
<1>1. PICK t, m, q, f, cases, d : /\ t = temps /\ m = Len(control) - 1 /\ q = Opened /\ f = Top /\ cases = Closed
                                  /\ d = EndCode(q, f, cases, label_counter)
  OBVIOUS
<1>2. s.node = "End" /\ Walk(s) /\ temps' = temps
  BY DEF End
<1>3. s \in Stmts /\ GenInv(control, t, prog) /\ prog \in Seq(Stmts) /\ label_counter \in Nat
  BY <1>1, <1>2, WalkTyped DEF CodeInv
<1>4. Fits(s)
  BY <1>2 DEF Walk
<1>5. Len(control) > 1 /\ (InSwitch => IF Boolean THEN Handled = {ConstAddr(0, "boolean"), ConstAddr(1, "boolean")} ELSE Top.val = DEFAULT)
  BY <1>2, <1>4 DEF Fits
<1>6. control \in Seq(Frames) /\ Len(control) \in Nat
  BY <1>3, LastFrame DEF GenInv
<1>7. m \in Nat \ {0} /\ Len(control) = m + 1 /\ f = control[m + 1] /\ m + 1 \in 2..Len(control)
  BY <1>1, <1>5, <1>6 DEF Top
<1>8. f.at \in 1..Len(prog) /\ q = prog[f.at] /\ Opens(q, f.cond)
  BY <1>1, <1>3, <1>7 DEF GenInv, OpenInv, Opened
<1>9. q \in Stmts
  BY <1>3, <1>8, ElementOfSeq
<1>10. cases = ClosedOf(f)
  BY <1>1 DEF Closed, ClosedOf
<1>11. q.node = "Switch" /\ Boolean => {ConstAddr(0, "boolean"), ConstAddr(1, "boolean")} \subseteq {cases[i].val : i \in DOMAIN cases}
  BY <1>1, <1>5 DEF InSwitch, Handled
<1>12. ASSUME NEW lo, FrameInv(control[m + 1], lo, t) PROVE Good(d, (lo + 1)..t)
  <2>1. FrameInv(f, lo, t)
    BY <1>7, <1>12
  <2>2. PICK l : l = label_counter
    OBVIOUS
  <2>3. Good(EndCode(q, f, cases, l), (lo + 1)..t)
    BY <1>3, <1>8, <1>9, <1>10, <1>11, <2>1, <2>2, EndGood
  <2> QED BY <1>1, <2>2, <2>3
<1>13. GenInv([SubSeq(control, 1, m) EXCEPT ![m].code = @ \o d], t, Append(prog, s))
  BY <1>3, <1>7, <1>12, CloseKeeps
<1>14. control' = [SubSeq(control, 1, m) EXCEPT ![m].code = @ \o d]
  BY <1>1 DEF End
<1>15. GenInv(control', temps', Append(prog, s))
  BY <1>1, <1>2, <1>13, <1>14
<1>16. label_counter' \in Nat
  <2>1. Len(cases) \in Nat
    <3>1. \E lo : FrameInv(f, lo, t)
      BY <1>1, <1>3, LastFrame DEF GenInv, Top
    <3>2. cases \in Cases
      BY <1>10, <3>1, ClosedSound DEF CasesSound
    <3> QED BY <3>2, CaseTyped
  <2>2. Labels(q, cases) \in Nat
    BY <2>1 DEF Labels
  <2>3. label_counter' = label_counter + Labels(q, cases)
    BY <1>1 DEF End
  <2> QED BY <1>3, <2>2, <2>3
<1> QED BY <1>2, <1>15, <1>16, WalkKeeps

\* The code goes to the driver, and runs: no statement is being compiled any more.
LEMMA OtherSteps ==
  ASSUME CodeInv, Finish \/ Run \/ Done \/ UNCHANGED vars
  PROVE  CodeInv'
<1>1. CASE Finish
  BY <1>1 DEF Finish, CodeInv
<1>2. CASE Run
  <2>1. UNCHANGED gen_vars /\ pc # "gen" /\ pc' # "gen" /\ pc' \in {"gen", "run", "stuck"}
    BY <1>2 DEF Run, Mov, UMinus, Inc, Arith, Compare, WriteOut, ReadIn, Branch, Stuck, Fetch, CodeInv
  <2> QED BY <2>1 DEF CodeInv, gen_vars
<1>3. CASE Done \/ UNCHANGED vars
  BY <1>3 DEF Done, vars, gen_vars, CodeInv
<1> QED BY <1>1, <1>2, <1>3

\* The code being made is always cut into pieces with temporaries of their own:
\* every statement takes the code of the walk (codegen.c) from one such state to
\* another, whatever is compiled.
THEOREM CodeInvariant == Spec => []CodeInv
<1>1. Init => CodeInv
  BY InitCode
<1>2. CodeInv /\ [Next]_vars => CodeInv'
  <2> SUFFICES ASSUME CodeInv, [Next]_vars PROVE CodeInv'
    OBVIOUS
  <2>1. CASE \E s \in input.stmts \cup {EndStmt} : Statement(s)
    <3>1. PICK s \in input.stmts \cup {EndStmt} : Statement(s)
      BY <2>1
    <3>2. CASE Assn(s)
      BY <3>2, AssnStep
    <3>3. CASE Input(s)
      BY <3>3, InputStep
    <3>4. CASE Output(s)
      BY <3>4, OutputStep
    <3>5. CASE While(s)
      BY <3>5, WhileStep
    <3>6. CASE For(s) \/ Switch(s)
      BY <3>6, VariableStep
    <3>7. CASE Case(s) \/ Default(s)
      BY <3>7, CaseStep
    <3>8. CASE End(s)
      BY <3>8, EndStep
    <3> QED BY <3>1, <3>2, <3>3, <3>4, <3>5, <3>6, <3>7, <3>8 DEF Statement
  <2>2. CASE Finish \/ Run \/ Done \/ UNCHANGED vars
    BY <2>2, OtherSteps
  <2> QED BY <2>1, <2>2 DEF Next
<1> QED BY <1>1, <1>2, PTL DEF Spec

\* What optimize_ircode takes for granted holds of all the code it is given: a
\* MOV after an instruction whose result is a temporary moves that result, and
\* nothing else uses it.
THEOREM OptimizerIsSound == Spec => []OptimizerSound
<1>1. CodeInv => OptimizerSound
  <2> SUFFICES ASSUME CodeInv, NEW i \in DOMAIN control, NEW j \in 1..(Len(control[i].code) - 1),
                      control[i].code[j].res.kind = "temp", control[i].code[j + 1].op = "MOV"
               PROVE  /\ control[i].code[j + 1].arg1 = control[i].code[j].res
                      /\ \A k \in DOMAIN control[i].code \ {j + 1} : control[i].code[j].res \notin {control[i].code[k].arg1, control[i].code[k].arg2}
    BY DEF OptimizerSound
  <2>1. pc = "gen"
    BY DEF CodeInv
  <2>2. PICK base : FramesInv(control, base, temps)
    BY <2>1 DEF CodeInv, GenInv
  <2>3. control \in Seq(Frames) /\ i \in 1..Len(control)
    BY <2>2, LenProperties DEF FramesInv
  <2>4. PICK c : c = control[i].code
    OBVIOUS
  <2>5. Sound(c)
    <3>1. PICK lo, hi : FrameInv(control[i], lo, hi)
      BY <2>2, <2>3 DEF FramesInv
    <3> QED BY <2>4, <3>1 DEF FrameInv, Good
  <2>6. MovesResult(c, j)
    BY <2>4, <2>5 DEF Sound
  <2>7. DOMAIN c = 1..Len(c)
    BY <2>5, LenProperties DEF Sound, Codes
  <2> QED BY <2>4, <2>6, <2>7 DEF MovesResult
<1> QED BY <1>1, CodeInvariant, PTL

-----------------------------------------------------------------------------
(* Labels and jumps.                                                       *)

Branches == {"JUMP", "JUMP0", "JNE", "JG"}

LabelSet(c) == {l \in Nat : \E k \in 1..Len(c) : c[k].op = "LABEL" /\ c[k].label = l}

\* The labels of c are those of L, each of them once, and its jumps are to those of T.
Tidy(c, L, T) ==
  /\ c \in Codes /\ LabelSet(c) = L
  /\ \A j, k \in 1..Len(c) : c[j].op = "LABEL" /\ c[k].op = "LABEL" /\ c[j].label = c[k].label => j = k
  /\ \A k \in 1..Len(c) : c[k].op \in Branches => c[k].label \in T

\* Its jumps are to its own labels.
Neat(c) == Tidy(c, LabelSet(c), LabelSet(c))

\* A label is one of the code's.
LEMMA LabelIn ==
  ASSUME NEW c \in Codes, NEW k \in 1..Len(c), c[k].op = "LABEL"
  PROVE  c[k].label \in LabelSet(c)
<1>1. c[k].label \in Nat
  BY InCode, InstrTyped
<1> QED BY <1>1 DEF LabelSet

LEMMA LabelsJoined ==
  ASSUME NEW c \in Codes, NEW d \in Codes
  PROVE  LabelSet(c \o d) = LabelSet(c) \cup LabelSet(d)
<1>1. PICK e, n, m : e = c \o d /\ n = Len(c) /\ m = Len(d)
  OBVIOUS
<1>2. /\ n \in Nat /\ m \in Nat /\ Len(e) = n + m
      /\ \A i \in 1..n : e[i] = c[i]
      /\ \A i \in 1..m : e[n + i] = d[i]
  BY <1>1, Joined
<1>3. ASSUME NEW x \in LabelSet(e) PROVE x \in LabelSet(c) \cup LabelSet(d)
  <2>1. PICK i \in 1..(n + m) : x \in Nat /\ e[i].op = "LABEL" /\ e[i].label = x
    BY <1>2 DEF LabelSet
  <2>2. i \in 1..n \/ \E k \in 1..m : i = n + k
    BY <1>2, Halves
  <2>3. CASE i \in 1..n
    BY <1>1, <1>2, <2>1, <2>3 DEF LabelSet
  <2>4. ASSUME NEW k \in 1..m, i = n + k PROVE x \in LabelSet(d)
    <3>1. d[k].op = "LABEL" /\ d[k].label = x
      BY <1>2, <2>1, <2>4
    <3> QED BY <1>1, <2>1, <3>1 DEF LabelSet
  <2> QED BY <2>2, <2>3, <2>4
<1>4. ASSUME NEW x \in LabelSet(c) PROVE x \in LabelSet(e)
  <2>1. PICK i \in 1..n : x \in Nat /\ c[i].op = "LABEL" /\ c[i].label = x
    BY <1>1 DEF LabelSet
  <2>2. i \in 1..(n + m) /\ e[i] = c[i]
    BY <1>2
  <2> QED BY <1>2, <2>1, <2>2 DEF LabelSet
<1>5. ASSUME NEW x \in LabelSet(d) PROVE x \in LabelSet(e)
  <2>1. PICK i \in 1..m : x \in Nat /\ d[i].op = "LABEL" /\ d[i].label = x
    BY <1>1 DEF LabelSet
  <2>2. n + i \in 1..(n + m) /\ e[n + i] = d[i]
    BY <1>2
  <2> QED BY <1>2, <2>1, <2>2 DEF LabelSet
<1> QED BY <1>1, <1>3, <1>4, <1>5

\* Two pieces with different labels.
LEMMA TidyJoined ==
  ASSUME NEW c, NEW L, NEW T, Tidy(c, L, T), NEW d, NEW M, NEW U, Tidy(d, M, U), L \cap M = {}
  PROVE  Tidy(c \o d, L \cup M, T \cup U)
<1>0. c \in Codes /\ d \in Codes /\ LabelSet(c) = L /\ LabelSet(d) = M
  BY DEF Tidy
<1>1. PICK e, n, m : e = c \o d /\ n = Len(c) /\ m = Len(d)
  OBVIOUS
<1>2. /\ e \in Codes /\ n \in Nat /\ m \in Nat /\ Len(e) = n + m
      /\ \A i \in 1..n : e[i] = c[i]
      /\ \A i \in 1..m : e[n + i] = d[i]
  BY <1>0, <1>1, Joined
<1>3. LabelSet(e) = L \cup M
  BY <1>0, <1>1, LabelsJoined
<1>4. ASSUME NEW i \in 1..(n + m)
      PROVE  /\ i \in 1..n => /\ e[i] = c[i] /\ (e[i].op = "LABEL" => e[i].label \in L)
                              /\ (e[i].op \in Branches => e[i].label \in T)
             /\ i \in 1..n \/ \E k \in 1..m : /\ i = n + k /\ e[i] = d[k] /\ (e[i].op = "LABEL" => e[i].label \in M)
                                              /\ (e[i].op \in Branches => e[i].label \in U)
  <2>1. i \in 1..n \/ \E k \in 1..m : i = n + k
    BY <1>2, Halves
  <2>2. CASE i \in 1..n
    <3>1. e[i] = c[i]
      BY <1>2, <2>2
    <3>2. c[i].op = "LABEL" => c[i].label \in L
      BY <1>0, <1>1, <2>2, LabelIn
    <3> QED BY <1>1, <2>2, <3>1, <3>2 DEF Tidy
  <2>3. CASE i \notin 1..n
    <3>1. PICK k \in 1..m : i = n + k
      BY <2>1, <2>3
    <3>2. e[i] = d[k]
      BY <1>2, <3>1
    <3>3. d[k].op = "LABEL" => d[k].label \in M
      BY <1>0, <1>1, LabelIn
    <3>4. d[k].op \in Branches => d[k].label \in U
      BY <1>1 DEF Tidy
    <3> QED BY <2>3, <3>1, <3>2, <3>3, <3>4
  <2> QED BY <2>2, <2>3
<1>5. ASSUME NEW i \in 1..(n + m), NEW j \in 1..(n + m), e[i].op = "LABEL", e[j].op = "LABEL", e[i].label = e[j].label
      PROVE  i = j
  <2>1. CASE i \in 1..n /\ j \in 1..n
    BY <1>1, <1>4, <1>5, <2>1 DEF Tidy
  <2>2. CASE i \in 1..n /\ j \notin 1..n
    BY <1>4, <1>5, <2>2
  <2>3. CASE i \notin 1..n /\ j \in 1..n
    BY <1>4, <1>5, <2>3
  <2>4. CASE i \notin 1..n /\ j \notin 1..n
    <3>1. PICK k \in 1..m : i = n + k /\ e[i] = d[k]
      BY <1>4, <2>4
    <3>2. PICK l \in 1..m : j = n + l /\ e[j] = d[l]
      BY <1>4, <2>4
    <3>3. k = l
      BY <1>1, <1>5, <3>1, <3>2 DEF Tidy
    <3> QED BY <3>1, <3>2, <3>3
  <2> QED BY <2>1, <2>2, <2>3, <2>4
<1>6. \A i \in 1..(n + m) : e[i].op \in Branches => e[i].label \in T \cup U
  BY <1>4
<1>7. Tidy(e, L \cup M, T \cup U)
  BY <1>2, <1>3, <1>5, <1>6 DEF Tidy
<1> QED BY <1>1, <1>7

\* One instruction.
LEMMA TidyOne ==
  ASSUME NEW I \in Instrs
  PROVE  Tidy(<<I>>, IF I.op = "LABEL" THEN {I.label} ELSE {}, IF I.op \in Branches THEN {I.label} ELSE {})
<1>1. PICK c, L, T : c = <<I>> /\ L = (IF I.op = "LABEL" THEN {I.label} ELSE {}) /\ T = IF I.op \in Branches THEN {I.label} ELSE {}
  OBVIOUS
<1>2. c \in Codes /\ Len(c) = 1 /\ c[1] = I
  BY <1>1, Single
<1>3. I.label \in Nat
  BY InstrTyped
<1>4. LabelSet(c) = L
  BY <1>1, <1>2, <1>3 DEF LabelSet
<1>5. Tidy(c, L, T)
  BY <1>1, <1>2, <1>4 DEF Tidy
<1> QED BY <1>1, <1>5, Zenon

LEMMA TidyTwo ==
  ASSUME NEW I \in Instrs, NEW J \in Instrs, NEW L, NEW T, Tidy(<<I>>, L, T), NEW M, NEW U, Tidy(<<J>>, M, U), L \cap M = {}
  PROVE  Tidy(<<I, J>>, L \cup M, T \cup U)
<1>1. Tidy(<<I>> \o <<J>>, L \cup M, T \cup U)
  BY TidyJoined
<1>2. <<I>> \o <<J>> = <<I, J>>
  <2>1. PICK c, d, e, g : c = <<I>> /\ d = <<J>> /\ e = c \o d /\ g = <<I, J>>
    OBVIOUS
  <2>2. c \in Codes /\ Len(c) = 1 /\ c[1] = I /\ d \in Codes /\ Len(d) = 1 /\ d[1] = J
    BY <2>1, Single
  <2>3. g \in Codes /\ Len(g) = 2 /\ g[1] = I /\ g[2] = J
    BY <2>1, Double
  <2>4. /\ e \in Codes /\ Len(e) = Len(c) + Len(d)
        /\ \A i \in 1..Len(c) : e[i] = c[i]
        /\ \A i \in 1..Len(d) : e[Len(c) + i] = d[i]
    <3>1. c \in Codes /\ d \in Codes /\ e = c \o d
      BY <2>1, <2>2
    <3> HIDE <2>1
    <3> QED BY <3>1, Joined
  <2>5. 1 \in 1..1 /\ 1 + 1 = 2
    OBVIOUS
  <2>6. Len(e) = 2 /\ e[1] = I /\ e[2] = J
    BY <2>2, <2>4, <2>5
  <2>7. \A i \in 1..2 : e[i] = g[i]
    BY <2>3, <2>6
  <2>8. e = g
    BY <2>3, <2>4, <2>6, <2>7, SeqEqual DEF Codes
  <2> QED BY <2>1, <2>8
<1> QED BY <1>1, <1>2

\* Saying which statement code is for changes nothing of it.
LEMMA TidyPlaced ==
  ASSUME NEW c, NEW L, NEW T, Tidy(c, L, T), NEW place \in Places
  PROVE  Tidy(AtPlace(place, c), L, T)
<1>1. PICK n, d : n = Len(c) /\ d = AtPlace(place, c)
  OBVIOUS
<1>2. c \in Codes
  BY DEF Tidy
<1>3. d \in Codes /\ Len(d) = n /\ \A i \in 1..n : d[i].op = c[i].op /\ d[i].label = c[i].label
  BY <1>1, <1>2, Placed
<1>4. LabelSet(d) = LabelSet(c)
  BY <1>1, <1>3 DEF LabelSet
<1>5. Tidy(d, L, T)
  BY <1>1, <1>3, <1>4 DEF Tidy
<1> QED BY <1>1, <1>5

\* Code without labels and jumps.
LEMMA PlainTidy ==
  ASSUME NEW c \in Codes, \A i \in 1..Len(c) : c[i].op \notin Branches /\ c[i].op # "LABEL"
  PROVE  Tidy(c, {}, {})
<1>1. LabelSet(c) = {}
  BY DEF LabelSet
<1> QED BY <1>1 DEF Tidy

\* An expression has none.
LEMMA MadeTidy ==
  ASSUME NEW t, NEW r, Made(r, t)
  PROVE  Tidy(r.code, {}, {})
<1>1. \A o \in Operations : o \notin Branches /\ o # "LABEL"
  BY DEF Operations, Operators, Branches
<1>2. r.code \in Codes /\ \A i \in 1..Len(r.code) : r.code[i].op \in Operations
  BY DEF Made
<1> QED BY <1>1, <1>2, PlainTidy

\* More jumps may be allowed.
LEMMA TidyWider ==
  ASSUME NEW c, NEW L, NEW T, Tidy(c, L, T), NEW M, M = L, NEW U, T \subseteq U
  PROVE  Tidy(c, M, U)
  BY DEF Tidy

\* The labels and jumps of statements.
LEMMA LabelTidy ==
  ASSUME NEW l \in Nat
  PROVE  irinstr_new3("LABEL", l) \in Instrs /\ Tidy(<<irinstr_new3("LABEL", l)>>, {l}, {})
<1>1. PICK I : I = irinstr_new3("LABEL", l)
  OBVIOUS
<1>2. I \in Instrs
  BY <1>1, Jumping DEF Quiet
<1>3. I.op = "LABEL" /\ I.label = l /\ I.op \notin Branches
  BY <1>1 DEF irinstr_new3, irinstr_new4, Branches
<1>4. Tidy(<<I>>, {l}, {})
  BY <1>2, <1>3, TidyOne
<1> QED BY <1>1, <1>2, <1>4

LEMMA JumpTidy ==
  ASSUME NEW l \in Nat
  PROVE  irinstr_new3("JUMP", l) \in Instrs /\ Tidy(<<irinstr_new3("JUMP", l)>>, {}, {l})
<1>1. PICK I : I = irinstr_new3("JUMP", l)
  OBVIOUS
<1>2. I \in Instrs
  BY <1>1, Jumping DEF Quiet
<1>3. I.op # "LABEL" /\ I.label = l /\ I.op \in Branches
  BY <1>1 DEF irinstr_new3, irinstr_new4, Branches
<1>4. Tidy(<<I>>, {}, {l})
  BY <1>2, <1>3, TidyOne
<1> QED BY <1>1, <1>2, <1>4

LEMMA BranchTidy ==
  ASSUME NEW op \in {"JUMP0", "JNE", "JG"}, NEW a \in Addrs, NEW b \in Addrs, NEW l \in Nat, Fit(op, NULL, a, b)
  PROVE  irinstr_new4(op, NULL, a, b, l) \in Instrs /\ Tidy(<<irinstr_new4(op, NULL, a, b, l)>>, {}, {l})
<1>1. PICK I : I = irinstr_new4(op, NULL, a, b, l)
  OBVIOUS
<1>2. op \in Ops /\ NULL \in Addrs
  BY AddrKinds DEF Ops
<1>3. I \in Instrs /\ I.op = op /\ I.label = l
  BY <1>1, <1>2, InstrMade
<1>4. I.op # "LABEL" /\ I.op \in Branches
  BY <1>3 DEF Branches
<1>5. Tidy(<<I>>, {}, {l})
  BY <1>3, <1>4, TidyOne
<1> QED BY <1>1, <1>3, <1>5

LEMMA OtherTidy ==
  ASSUME NEW op \in {"MOV", "INPUT", "OUTPUT", "INC"}, NEW res \in Addrs, NEW a \in Addrs, NEW b \in Addrs, NEW l \in Nat, Fit(op, res, a, b)
  PROVE  Tidy(<<irinstr_new4(op, res, a, b, l)>>, {}, {})
<1>1. PICK I : I = irinstr_new4(op, res, a, b, l)
  OBVIOUS
<1>2. op \in Ops
  BY DEF Ops
<1>3. I \in Instrs /\ I.op = op
  BY <1>1, <1>2, InstrMade
<1>4. I.op # "LABEL" /\ I.op \notin Branches
  BY <1>3 DEF Branches
<1>5. Tidy(<<I>>, {}, {})
  BY <1>3, <1>4, TidyOne
<1> QED BY <1>1, <1>5

LEMMA NeatIs ==
  ASSUME NEW c, NEW L, NEW T, Tidy(c, L, T), T \subseteq L
  PROVE  Neat(c) /\ LabelSet(c) = L
<1>1. LabelSet(c) = L
  BY DEF Tidy
<1> QED BY <1>1, TidyWider DEF Neat

LEMMA WhileTidy ==
  ASSUME NEW f, f.at \in Nat, NEW l \in Nat, NEW t \in Nat, NEW cond, cond = f.cond, Made(cond, t), cond.addr \in Terms,
         NEW c, c = f.code, Neat(c), l \notin LabelSet(c), l + 1 \notin LabelSet(c)
  PROVE  Neat(WhileCode(f, l)) /\ LabelSet(WhileCode(f, l)) = LabelSet(c) \cup {l, l + 1}
<1>1. PICK k, L, I, J, a, b, d : /\ k = l + 1 /\ L = LabelSet(c)
                                 /\ I = irinstr_new3("LABEL", l) /\ J = irinstr_new4("JUMP0", NULL, cond.addr, NULL, k)
                                 /\ a = (<<I>> \o cond.code) \o <<J>>
                                 /\ b = AtPlace(<<f.at, "do">>, a)
                                 /\ d = <<irinstr_new3("JUMP", l), irinstr_new3("LABEL", k)>>
  OBVIOUS
<1>2. k \in Nat /\ k # l /\ l \notin L /\ k \notin L
  BY <1>1
<1>3. Tidy(<<I>>, {l}, {}) /\ Tidy(cond.code, {}, {})
  BY <1>1, LabelTidy, MadeTidy
<1>4. Tidy(<<J>>, {}, {k})
  <2>1. cond.addr \in Addrs /\ NULL \in Addrs
    BY AddrKinds DEF Made
  <2>2. Fit("JUMP0", NULL, cond.addr, NULL)
    BY FitOthers
  <2>3. PICK x \in Addrs : x = cond.addr
    BY <2>1
  <2>4. J = irinstr_new4("JUMP0", NULL, x, NULL, k) /\ Fit("JUMP0", NULL, x, NULL)
    BY <1>1, <2>2, <2>3
  <2> QED BY <1>2, <2>1, <2>4, BranchTidy
<1>5. Tidy(<<I>> \o cond.code, {l} \cup {}, {} \cup {})
  BY <1>3, TidyJoined
<1>6. Tidy(a, ({l} \cup {}) \cup {}, ({} \cup {}) \cup {k})
  BY <1>1, <1>4, <1>5, TidyJoined
<1>7. <<f.at, "do">> \in Places
  BY PlaceOf
<1>8. Tidy(b, {l}, {k})
  <2>1. Tidy(a, {l}, {k})
    BY <1>6
  <2> QED BY <1>1, <1>7, <2>1, TidyPlaced
<1>9. Tidy(b \o c, {l} \cup L, {k} \cup L)
  <2>1. {l} \cap L = {} /\ Tidy(c, L, L)
    BY <1>1, <1>2 DEF Neat
  <2> QED BY <1>8, <2>1, TidyJoined
<1>10. Tidy(d, {} \cup {k}, {l} \cup {})
  BY <1>1, <1>2, LabelTidy, JumpTidy, TidyTwo
<1>11. Tidy((b \o c) \o d, ({l} \cup L) \cup ({} \cup {k}), ({k} \cup L) \cup ({l} \cup {}))
  <2>1. ({l} \cup L) \cap ({} \cup {k}) = {}
    BY <1>2
  <2> QED BY <1>9, <1>10, <2>1, TidyJoined
<1>12. WhileCode(f, l) = (b \o c) \o d
  BY <1>1, Zenon DEF WhileCode
<1>13. Neat((b \o c) \o d) /\ LabelSet((b \o c) \o d) = L \cup {l, k}
  <2>1. Tidy((b \o c) \o d, L \cup {l, k}, L \cup {l, k})
    BY <1>11, TidyWider
  <2> QED BY <2>1, NeatIs
<1> QED BY <1>1, <1>12, <1>13

LEMMA ForTidy ==
  ASSUME NEW f, f.at \in Nat, NEW l \in Nat, NEW a \in Addrs, a = f.cond.addr, a \in Cells, AddrType(a) = "integer",
         NEW s, s.beg \in Word, s.end \in Word,
         NEW c, c = f.code, Neat(c), l \notin LabelSet(c), l + 1 \notin LabelSet(c)
  PROVE  Neat(ForCode(f, s, l)) /\ LabelSet(ForCode(f, s, l)) = LabelSet(c) \cup {l, l + 1}
<1>1. PICK k, L, b, e : k = l + 1 /\ L = LabelSet(c) /\ b = ConstAddr(s.beg, "integer") /\ e = ConstAddr(s.end, "integer")
  OBVIOUS
<1>2. k \in Nat /\ k # l /\ l \notin L /\ k \notin L
  BY <1>1
<1>3. /\ b \in Addrs /\ e \in Addrs /\ NULL \in Addrs /\ 0 \in Nat
      /\ b \in ConstAddrs /\ e \in ConstAddrs /\ AddrType(b) = "integer"
  <2>1. ValuesOf("integer") = Word /\ "integer" \in Types
    BY DEF ValuesOf, Types
  <2> QED BY <1>1, <2>1, AddrKinds DEF AddrType
<1>4. Fit("MOV", a, b, NULL) /\ Fit("JG", NULL, a, e) /\ Fit("INC", a, NULL, NULL)
  <2>1. a \in Terms /\ b \in Terms
    BY <1>3 DEF Terms
  <2> QED BY <1>3, <2>1, FitOthers
<1>5. PICK I1, I2, I3, I4 : /\ I1 = irinstr_new2("MOV", a, b, NULL) /\ I2 = irinstr_new3("LABEL", l)
                            /\ I3 = irinstr_new4("JG", NULL, a, e, k) /\ I4 = irinstr_new2("INC", a, NULL, NULL)
  OBVIOUS
<1>6. Tidy(<<I1>>, {}, {})
  <2>1. I1 = irinstr_new4("MOV", a, b, NULL, 0)
    BY <1>5 DEF irinstr_new2
  <2> QED BY <1>3, <1>4, <2>1, OtherTidy
<1>7. Tidy(<<I4>>, {}, {})
  <2>1. I4 = irinstr_new4("INC", a, NULL, NULL, 0)
    BY <1>5 DEF irinstr_new2
  <2> QED BY <1>3, <1>4, <2>1, OtherTidy
<1>8. Tidy(<<I2, I3>>, {l} \cup {}, {} \cup {k})
  <2>1. I2 \in Instrs /\ Tidy(<<I2>>, {l}, {})
    BY <1>5, LabelTidy
  <2>2. I3 \in Instrs /\ Tidy(<<I3>>, {}, {k})
    BY <1>2, <1>3, <1>4, <1>5, BranchTidy
  <2> QED BY <2>1, <2>2, TidyTwo
<1>9. PICK p, q, r, z : /\ p = AtPlace(<<f.at, "init">>, <<I1>>) /\ q = AtPlace(<<f.at, "test">>, <<I2, I3>>)
                        /\ r = AtPlace(<<f.at, "inc">>, <<I4>>)
                        /\ z = <<irinstr_new3("JUMP", l), irinstr_new3("LABEL", k)>>
  OBVIOUS
<1>10. <<f.at, "init">> \in Places /\ <<f.at, "test">> \in Places /\ <<f.at, "inc">> \in Places
  BY PlaceOf
<1>11. Tidy(p, {}, {}) /\ Tidy(q, {l}, {k}) /\ Tidy(r, {}, {})
  <2>1. Tidy(<<I2, I3>>, {l}, {k})
    BY <1>8
  <2> QED BY <1>6, <1>7, <1>9, <1>10, <2>1, TidyPlaced
<1>12. Tidy(p \o q, {} \cup {l}, {} \cup {k})
  BY <1>11, TidyJoined
<1>13. Tidy((p \o q) \o c, ({} \cup {l}) \cup L, ({} \cup {k}) \cup L)
  <2>1. ({} \cup {l}) \cap L = {} /\ Tidy(c, L, L)
    BY <1>1, <1>2 DEF Neat
  <2> QED BY <1>12, <2>1, TidyJoined
<1>14. Tidy(((p \o q) \o c) \o r, (({} \cup {l}) \cup L) \cup {}, (({} \cup {k}) \cup L) \cup {})
  BY <1>11, <1>13, TidyJoined
<1>15. Tidy(((p \o q) \o c) \o r, L \cup {l}, L \cup {k})
  BY <1>14, TidyWider
<1>16. Tidy(z, {} \cup {k}, {l} \cup {})
  BY <1>2, <1>9, LabelTidy, JumpTidy, TidyTwo
<1>17. Tidy((((p \o q) \o c) \o r) \o z, (L \cup {l}) \cup ({} \cup {k}), (L \cup {k}) \cup ({l} \cup {}))
  <2>1. (L \cup {l}) \cap ({} \cup {k}) = {}
    BY <1>2
  <2> QED BY <1>15, <1>16, <2>1, TidyJoined
<1>18. ForCode(f, s, l) = (((p \o q) \o c) \o r) \o z
  BY <1>1, <1>5, <1>9, Zenon DEF ForCode
<1>19. Neat((((p \o q) \o c) \o r) \o z) /\ LabelSet((((p \o q) \o c) \o r) \o z) = L \cup {l, k}
  <2>1. Tidy((((p \o q) \o c) \o r) \o z, L \cup {l, k}, L \cup {l, k})
    BY <1>17, TidyWider
  <2> QED BY <2>1, NeatIs
<1> QED BY <1>1, <1>18, <1>19

\* The cases of a switch: no two have a label in common.
CasesNeat(cases) ==
  /\ cases \in Cases
  /\ \A i \in 1..Len(cases) : Neat(cases[i].code)
  /\ \A i, j \in 1..Len(cases) : i # j => LabelSet(cases[i].code) \cap LabelSet(cases[j].code) = {}
CasesLabels(cases, n) == {x \in Nat : \E i \in 1..n : x \in LabelSet(cases[i].code)}

LEMMA BooleanSwitchTidy ==
  ASSUME NEW f, f.at \in Nat, NEW l \in Nat, NEW a \in Addrs, a = f.cond.addr, a \in Terms,
         NEW cases, CasesNeat(cases), l \notin CasesLabels(cases, Len(cases)), l + 1 \notin CasesLabels(cases, Len(cases)),
         NEW u \in 1..Len(cases), cases[u].val = ConstAddr(1, "boolean"),
         NEW v \in 1..Len(cases), cases[v].val = ConstAddr(0, "boolean")
  PROVE  /\ Neat(BooleanSwitchCode(f, cases, l))
         /\ LabelSet(BooleanSwitchCode(f, cases, l)) \subseteq CasesLabels(cases, Len(cases)) \cup {l, l + 1}
<1>1. PICK n, one, zero, k : n = Len(cases) /\ one = ConstAddr(1, "boolean") /\ zero = ConstAddr(0, "boolean") /\ k = l + 1
  OBVIOUS
<1>2. one # zero
  BY <1>1 DEF ConstAddr
<1>3. n \in Nat /\ DOMAIN cases = 1..n
  BY <1>1, CaseTyped DEF CasesNeat
<1>4. PICK i, j : i = (CHOOSE w \in DOMAIN cases : cases[w].val = one) /\ j = (CHOOSE w \in DOMAIN cases : cases[w].val = zero)
  OBVIOUS
<1>5. i \in 1..n /\ cases[i].val = one
  <2>1. \E w \in DOMAIN cases : cases[w].val = one
    BY <1>1, <1>3
  <2> QED BY <1>3, <1>4, <2>1, Zenon
<1>6. j \in 1..n /\ cases[j].val = zero
  <2>1. \E w \in DOMAIN cases : cases[w].val = zero
    BY <1>1, <1>3
  <2> QED BY <1>3, <1>4, <2>1, Zenon
<1>7. PICK c, d, L, M : c = cases[i].code /\ d = cases[j].code /\ L = LabelSet(c) /\ M = LabelSet(d)
  OBVIOUS
<1>8. L \cap M = {} /\ Neat(c) /\ Neat(d)
  BY <1>1, <1>2, <1>5, <1>6, <1>7 DEF CasesNeat
<1>9. Tidy(c, L, L) /\ Tidy(d, M, M)
  BY <1>7, <1>8 DEF Neat
<1>10. L \cup M \subseteq CasesLabels(cases, n)
  <2>1. \A x \in L \cup M : x \in Nat
    BY <1>7 DEF LabelSet
  <2> QED BY <1>5, <1>6, <1>7, <2>1 DEF CasesLabels
<1>11. k \in Nat /\ k # l /\ l \notin L \cup M /\ k \notin L \cup M
  BY <1>1, <1>10
<1>12. PICK I, p, q, z : /\ I = irinstr_new4("JUMP0", NULL, a, NULL, l)
                         /\ p = AtPlace(<<f.at, "do">>, <<I>>)
                         /\ q = <<irinstr_new3("JUMP", k), irinstr_new3("LABEL", l)>>
                         /\ z = <<irinstr_new3("LABEL", k)>>
  OBVIOUS
<1>13. Tidy(p, {}, {l})
  <2>1. NULL \in Addrs /\ Fit("JUMP0", NULL, a, NULL)
    BY AddrKinds, FitOthers
  <2>2. Tidy(<<I>>, {}, {l})
    BY <1>12, <2>1, BranchTidy
  <2>3. <<f.at, "do">> \in Places
    BY PlaceOf
  <2> QED BY <1>12, <2>2, <2>3, TidyPlaced
<1>14. Tidy(q, {} \cup {l}, {k} \cup {}) /\ Tidy(z, {k}, {})
  BY <1>11, <1>12, LabelTidy, JumpTidy, TidyTwo
<1>15. Tidy(p \o c, {} \cup L, {l} \cup L)
  BY <1>9, <1>13, TidyJoined
<1>16. Tidy((p \o c) \o q, ({} \cup L) \cup ({} \cup {l}), ({l} \cup L) \cup ({k} \cup {}))
  <2>1. ({} \cup L) \cap ({} \cup {l}) = {}
    BY <1>11
  <2> QED BY <1>14, <1>15, <2>1, TidyJoined
<1>17. Tidy((p \o c) \o q, L \cup {l}, L \cup {l, k})
  BY <1>16, TidyWider
<1>18. Tidy(((p \o c) \o q) \o d, (L \cup {l}) \cup M, (L \cup {l, k}) \cup M)
  <2>1. (L \cup {l}) \cap M = {}
    BY <1>8, <1>11
  <2> QED BY <1>9, <1>17, <2>1, TidyJoined
<1>19. Tidy((((p \o c) \o q) \o d) \o z, ((L \cup {l}) \cup M) \cup {k}, ((L \cup {l, k}) \cup M) \cup {})
  <2>1. ((L \cup {l}) \cup M) \cap {k} = {}
    BY <1>11
  <2> QED BY <1>14, <1>18, <2>1, TidyJoined
<1>20. CodeOfCase(cases, one) = c /\ CodeOfCase(cases, zero) = d
  BY <1>4, <1>7 DEF CodeOfCase
<1>21. BooleanSwitchCode(f, cases, l) = (((p \o c) \o q) \o d) \o z
  <2>1. BooleanSwitchCode(f, cases, l) = (((p \o CodeOfCase(cases, one)) \o q) \o CodeOfCase(cases, zero)) \o z
    BY <1>1, <1>12, Zenon DEF BooleanSwitchCode
  <2> QED BY <1>20, <2>1
<1>22. PICK w : w = (((p \o c) \o q) \o d) \o z
  OBVIOUS
<1>23. Neat(w) /\ LabelSet(w) = (L \cup M) \cup {l, k}
  <2>1. Tidy(w, (L \cup M) \cup {l, k}, (L \cup M) \cup {l, k})
    BY <1>19, <1>22, TidyWider
  <2> QED BY <2>1, NeatIs
<1> QED BY <1>1, <1>10, <1>21, <1>22, <1>23

\* The case that is open stands last, the default of a switch on an integer.
LEMMA IntegerSwitchTidy ==
  ASSUME NEW f, f.at \in Nat, NEW l \in Nat, NEW a \in Addrs, a = f.cond.addr, a \in Cells,
         NEW cases, CasesNeat(cases), NEW n \in Nat \ {0}, n = Len(cases), cases[n].val = DEFAULT,
         \A i \in 1..n : i # n => cases[i].val # DEFAULT, \A x \in CasesLabels(cases, n) : x < l
  PROVE  /\ Neat(IntegerSwitchCode(f, cases, l))
         /\ \A x \in LabelSet(IntegerSwitchCode(f, cases, l)) : x \in CasesLabels(cases, n) \/ (l <= x /\ x < l + n)
<1>1. cases \in Cases
  BY DEF CasesNeat
<1>2. PICK u : u = CHOOSE w : IsUpto(w, f, cases, l, n)
  OBVIOUS
<1>3. IsUpto(u, f, cases, l, n)
  <2>1. \E w : IsUpto(w, f, cases, l, n)
    BY UptoExists
  <2> QED BY <1>2, <2>1, Zenon
<1>4. \A i \in 0..n : u[i] = Upto(u, f, cases, l, i)
  BY <1>3 DEF IsUpto
<1> DEFINE Mine(L, i) == \A x \in L : x \in CasesLabels(cases, i) \/ (l < x /\ x <= l + i)
           Part(i) == \E L : Tidy(u[i], L, L \cup {l}) /\ Mine(L, i)
           Bad == {i \in Nat : i < n /\ ~Part(i)}
<1>5. \A i, j \in Nat : i <= j => CasesLabels(cases, i) \subseteq CasesLabels(cases, j)
  <2> SUFFICES ASSUME NEW i \in Nat, NEW j \in Nat, i <= j, NEW x \in CasesLabels(cases, i) PROVE x \in CasesLabels(cases, j)
    OBVIOUS
  <2>1. PICK k \in 1..i : x \in Nat /\ x \in LabelSet(cases[k].code)
    BY DEF CasesLabels
  <2>2. k \in 1..j
    OBVIOUS
  <2> QED BY <2>1, <2>2 DEF CasesLabels
<1> DEFINE Clear(i, k, c, M) ==
             Tidy(c, M, M) /\ M \cap CasesLabels(cases, k) = {} /\ M \subseteq CasesLabels(cases, i) /\ \A x \in M : x < l
<1>6. ASSUME NEW i \in 1..n, NEW k \in Nat, k + 1 = i, NEW c, c = cases[i].code, NEW M, M = LabelSet(c)
      PROVE  Clear(i, k, c, M)
  <2>1. Tidy(c, M, M)
    BY <1>6 DEF CasesNeat, Neat
  <2>2. M \cap CasesLabels(cases, k) = {}
    <3> SUFFICES ASSUME NEW x \in M, x \in CasesLabels(cases, k) PROVE FALSE
      OBVIOUS
    <3>1. PICK j \in 1..k : x \in LabelSet(cases[j].code)
      BY DEF CasesLabels
    <3>2. j \in 1..n /\ j # i
      BY <1>6
    <3>3. LabelSet(cases[j].code) \cap LabelSet(cases[i].code) = {}
      BY <3>2 DEF CasesNeat
    <3> QED BY <1>6, <3>1, <3>3
  <2>3. M \subseteq CasesLabels(cases, i)
    <3> SUFFICES ASSUME NEW x \in M PROVE x \in CasesLabels(cases, i)
      OBVIOUS
    <3>1. x \in Nat /\ i \in 1..i
      BY <1>6 DEF LabelSet
    <3> QED BY <1>6, <3>1 DEF CasesLabels
  <2>4. CasesLabels(cases, i) \subseteq CasesLabels(cases, n)
    BY <1>5
  <2> QED BY <2>1, <2>2, <2>3, <2>4
<1>7. Bad = {}
  <2> SUFFICES ASSUME Bad # {} PROVE FALSE
    OBVIOUS
  <2> HIDE DEF Part
  <2>1. Smallest(Bad)
    BY SmallestExists
  <2>2. PICK i \in Bad : \A j \in Bad : i <= j
    BY <2>1 DEF Smallest
  <2>3. i \in 0..n /\ i # n /\ ~Part(i)
    BY <2>2
  <2>4. u[i] = Upto(u, f, cases, l, i)
    BY <1>4, <2>3
  <2>5. CASE i = 0
    <3>1. PICK e : e = << >>
      OBVIOUS
    <3>2. e \in Codes /\ Len(e) = 0
      BY <3>1 DEF Codes
    <3>3. Tidy(e, {}, {})
      BY <3>2, PlainTidy
    <3>4. Tidy(e, {}, {} \cup {l})
      BY <3>3, TidyWider
    <3>5. u[i] = e
      BY <2>4, <2>5, <3>1 DEF Upto
    <3>6. PICK L : L = {}
      OBVIOUS
    <3>7. Tidy(u[i], L, L \cup {l}) /\ Mine(L, i)
      BY <3>4, <3>5, <3>6
    <3>8. Part(i)
      BY <3>7 DEF Part
    <3> QED BY <2>3, <3>8
  <2>6. CASE i # 0
    <3>1. PICK k : k = i - 1
      OBVIOUS
    <3>2. k \in Nat /\ k < i /\ k < n /\ i \in 1..n /\ k + 1 = i
      BY <2>3, <2>6, <3>1
    <3>3. Part(k)
      BY <2>2, <2>3, <3>2
    <3>4. PICK b, c, val, M : b = u[k] /\ c = cases[i].code /\ val = cases[i].val /\ M = LabelSet(c)
      OBVIOUS
    <3>5. PICK N : Tidy(b, N, N \cup {l}) /\ Mine(N, k)
      BY <3>3, <3>4 DEF Part
    <3>6. Tidy(c, M, M) /\ M \cap CasesLabels(cases, k) = {} /\ M \subseteq CasesLabels(cases, i) /\ \A x \in M : x < l
      <4> HIDE DEF Clear
      <4>1. Clear(i, k, c, M)
        BY <1>6, <3>2, <3>4
      <4> QED BY <4>1 DEF Clear
    <3>7. val \in ConstAddrs /\ val # DEFAULT
      <4>1. val \in ConstAddrs \cup {DEFAULT}
        BY <1>1, <3>2, <3>4, CaseTyped
      <4> QED BY <2>3, <3>2, <3>4, <4>1
    <3>8. PICK h : h = l + i
      OBVIOUS
    <3>9. h \in Nat /\ h # l /\ l < h /\ h <= l + i /\ \A x \in M : x # h /\ x # l
      <4>1. \A x \in M : x \in Nat
        BY <3>4 DEF LabelSet
      <4> QED BY <3>2, <3>6, <3>8, <4>1
    <3>10. h \notin N
      <4> SUFFICES ASSUME h \in N PROVE FALSE
        OBVIOUS
      <4>1. h \in CasesLabels(cases, k) \/ h <= l + k
        BY <3>5
      <4>2. h \notin CasesLabels(cases, k)
        <5>1. CasesLabels(cases, k) \subseteq CasesLabels(cases, n)
          BY <1>5, <3>2
        <5>2. ~(h < l)
          BY <3>9
        <5> QED BY <5>1, <5>2
      <4> QED BY <3>2, <3>8, <4>1, <4>2
    <3>11. N \cap M = {}
      <4> SUFFICES ASSUME NEW x \in N, x \in M PROVE FALSE
        OBVIOUS
      <4>1. x \in CasesLabels(cases, k) \/ l < x
        BY <3>5
      <4>2. x < l /\ x \in Nat
        BY <3>4, <3>6 DEF LabelSet
      <4> QED BY <3>6, <4>1, <4>2
    <3>12. PICK I, p, q : /\ I = irinstr_new4("JNE", NULL, a, val, h)
                          /\ p = AtPlace(<<f.at, "do">>, <<I>>)
                          /\ q = <<irinstr_new3("JUMP", l), irinstr_new3("LABEL", h)>>
      OBVIOUS
    <3>13. Tidy(p, {}, {h})
      <4>1. val \in Addrs /\ Fit("JNE", NULL, a, val)
        BY <3>7, FitOthers DEF Addrs, Terms
      <4>2. Tidy(<<I>>, {}, {h})
        BY <3>9, <3>12, <4>1, BranchTidy
      <4>3. <<f.at, "do">> \in Places
        BY PlaceOf
      <4> QED BY <3>12, <4>2, <4>3, TidyPlaced
    <3>14. Tidy(q, {} \cup {h}, {l} \cup {})
      BY <3>9, <3>12, LabelTidy, JumpTidy, TidyTwo
    <3>15. Tidy(b \o p, N \cup {}, (N \cup {l}) \cup {h})
      BY <3>5, <3>13, TidyJoined
    <3>16. Tidy(b \o p, N, N \cup {l, h})
      BY <3>15, TidyWider
    <3>17. Tidy((b \o p) \o c, N \cup M, (N \cup {l, h}) \cup M)
      BY <3>6, <3>11, <3>16, TidyJoined
    <3>18. Tidy(((b \o p) \o c) \o q, (N \cup M) \cup ({} \cup {h}), ((N \cup {l, h}) \cup M) \cup ({l} \cup {}))
      <4>1. (N \cup M) \cap ({} \cup {h}) = {}
        BY <3>9, <3>10
      <4> QED BY <3>14, <3>17, <4>1, TidyJoined
    <3>19. u[i] = ((b \o p) \o c) \o q
      BY <2>4, <2>6, <3>1, <3>4, <3>7, <3>8, <3>12, Zenon DEF Upto
    <3>20. PICK L : L = (N \cup M) \cup {h}
      OBVIOUS
    <3>21. Tidy(u[i], L, L \cup {l})
      <4>1. (N \cup M) \cup ({} \cup {h}) = L /\ ((N \cup {l, h}) \cup M) \cup ({l} \cup {}) \subseteq L \cup {l}
        BY <3>20
      <4> QED BY <3>18, <3>19, <4>1, TidyWider
    <3>22. Mine(L, i)
      <4> SUFFICES ASSUME NEW x \in L PROVE x \in CasesLabels(cases, i) \/ (l < x /\ x <= l + i)
        OBVIOUS
      <4>1. CASE x \in M
        BY <3>6, <4>1
      <4>2. CASE x = h
        BY <3>9, <4>2
      <4>3. CASE x \in N
        <5>1. x \in CasesLabels(cases, k) \/ (l < x /\ x <= l + k)
          BY <3>5, <4>3
        <5>2. CasesLabels(cases, k) \subseteq CasesLabels(cases, i)
          BY <1>5, <3>2
        <5>3. x \in Nat
          <6>1. N = LabelSet(b)
            BY <3>5 DEF Tidy
          <6> QED BY <4>3, <6>1 DEF LabelSet
        <5> QED BY <3>2, <5>1, <5>2, <5>3
      <4> QED BY <3>20, <4>1, <4>2, <4>3
    <3>23. Part(i)
      BY <3>21, <3>22 DEF Part
    <3> QED BY <2>3, <3>23
  <2> QED BY <2>5, <2>6
<1>8. PICK k, c, M : k = n - 1 /\ c = cases[n].code /\ M = LabelSet(c)
  OBVIOUS
<1>9. k \in Nat /\ k < n /\ k + 1 = n /\ n \in 1..n /\ n \in 0..n /\ k \in 0..n /\ n # 0
  BY <1>8
<1>10. PICK N : Tidy(u[k], N, N \cup {l}) /\ Mine(N, k)
  BY <1>7, <1>9
<1>11. Tidy(c, M, M) /\ M \cap CasesLabels(cases, k) = {} /\ M \subseteq CasesLabels(cases, n) /\ \A x \in M : x < l
  BY <1>6, <1>8, <1>9
<1>12. \A x \in N \cup M : x \in Nat
  <2>1. N = LabelSet(u[k])
    BY <1>10 DEF Tidy
  <2> QED BY <1>8, <2>1 DEF LabelSet
<1>13. CasesLabels(cases, k) \subseteq CasesLabels(cases, n)
  BY <1>5, <1>9
<1>14. l \notin N \cup M /\ N \cap M = {}
  <2>1. ASSUME NEW x \in N PROVE x # l /\ x \notin M
    <3>1. x \in CasesLabels(cases, k) \/ l < x
      BY <1>10
    <3>2. x \in Nat
      BY <1>12
    <3>3. CASE l < x
      BY <1>11, <3>2, <3>3
    <3>4. CASE x \in CasesLabels(cases, k)
      <4>1. x < l
        BY <1>13, <3>4
      <4> QED BY <1>11, <3>2, <3>4, <4>1
    <3> QED BY <3>1, <3>3, <3>4
  <2>2. l \notin M
    BY <1>11
  <2> QED BY <2>1, <2>2
<1>15. PICK b, z : b = u[k] /\ z = <<irinstr_new3("LABEL", l)>>
  OBVIOUS
<1>16. Tidy(b \o c, N \cup M, (N \cup {l}) \cup M)
  BY <1>10, <1>11, <1>14, <1>15, TidyJoined
<1>17. Tidy((b \o c) \o z, (N \cup M) \cup {l}, ((N \cup {l}) \cup M) \cup {})
  <2>1. Tidy(z, {l}, {}) /\ (N \cup M) \cap {l} = {}
    BY <1>14, <1>15, LabelTidy
  <2> QED BY <1>16, <2>1, TidyJoined
<1>18. PICK d, L : d = (b \o c) \o z /\ L = (N \cup M) \cup {l}
  OBVIOUS
<1>19. Neat(d) /\ LabelSet(d) = L
  <2>1. Tidy(d, L, L)
    BY <1>17, <1>18, TidyWider
  <2> QED BY <2>1, NeatIs
<1>20. IntegerSwitchCode(f, cases, l) = d
  <2>1. u[n] = b \o c
    BY <1>4, <1>8, <1>9, <1>15, Zenon DEF Upto
  <2>2. IntegerSwitchCode(f, cases, l) = u[n] \o z
    BY <1>2, <1>15, Zenon DEF IntegerSwitchCode, IsUpto, Upto
  <2> QED BY <1>18, <2>1, <2>2
<1>21. ASSUME NEW x \in L PROVE x \in CasesLabels(cases, n) \/ (l <= x /\ x < l + n)
  <2>1. CASE x \in M
    BY <1>11, <2>1
  <2>2. CASE x = l
    BY <1>9, <2>2
  <2>3. CASE x \in N
    <3>1. x \in CasesLabels(cases, k) \/ (l < x /\ x <= l + k)
      BY <1>10, <2>3
    <3>2. x \in Nat
      BY <1>12, <2>3
    <3> QED BY <1>9, <1>13, <3>1, <3>2
  <2> QED BY <1>18, <2>1, <2>2, <2>3
<1> QED BY <1>19, <1>20, <1>21

-----------------------------------------------------------------------------
(* The labels of a frame, and of all of them: none has one of another's,   *)
(* and all were given before l.                                            *)

FrameLabels(f) == LabelSet(f.code) \cup CasesLabels(f.cases, Len(f.cases))

FrameNeat(f, l) ==
  /\ Neat(f.code) /\ CasesNeat(f.cases)
  /\ CasesLabels(f.cases, Len(f.cases)) \cap LabelSet(f.code) = {}
  /\ \A i \in 1..Len(f.cases) : f.cases[i].val # DEFAULT
  /\ \A x \in FrameLabels(f) : x < l

LabelFrames(c, l) ==
  /\ l \in Nat
  /\ \A k \in 1..Len(c) : FrameNeat(c[k], l)
  /\ \A j, k \in 1..Len(c) : j # k => FrameLabels(c[j]) \cap FrameLabels(c[k]) = {}

LEMMA LabelsAreNumbers ==
  ASSUME NEW f
  PROVE  FrameLabels(f) \subseteq Nat
  BY DEF FrameLabels, LabelSet, CasesLabels

\* More code, with labels of its own.
LEMMA FrameLonger ==
  ASSUME NEW f \in Frames, NEW l \in Nat, FrameNeat(f, l), NEW h \in Nat, l <= h,
         NEW d, Neat(d), LabelSet(d) \cap FrameLabels(f) = {}, \A x \in LabelSet(d) : x < h,
         NEW g, g = [f EXCEPT !.code = @ \o d]
  PROVE  FrameNeat(g, h) /\ FrameLabels(g) = FrameLabels(f) \cup LabelSet(d)
<1>1. PICK c, e, N, L, M : c = f.code /\ e = c \o d /\ N = CasesLabels(f.cases, Len(f.cases)) /\ L = LabelSet(c) /\ M = LabelSet(d)
  OBVIOUS
<1>2. c \in Codes /\ d \in Codes /\ Tidy(c, L, L) /\ Tidy(d, M, M)
  BY <1>1 DEF FrameNeat, Neat, Tidy
<1>3. g.code = e /\ g.cases = f.cases
  BY <1>1 DEF Frames
<1>4. FrameLabels(f) = L \cup N /\ N \cap L = {}
  BY <1>1 DEF FrameLabels, FrameNeat
<1>5. L \cap M = {} /\ N \cap M = {}
  BY <1>1, <1>4
<1>6. Neat(e) /\ LabelSet(e) = L \cup M
  <2>1. Tidy(e, L \cup M, L \cup M)
    BY <1>1, <1>2, <1>5, TidyJoined
  <2> QED BY <2>1, NeatIs
<1>7. FrameLabels(g) = (L \cup N) \cup M
  BY <1>1, <1>3, <1>6 DEF FrameLabels
<1>8. \A x \in FrameLabels(g) : x < h
  <2>1. \A x \in L \cup N : x < l /\ x \in Nat
    BY <1>4, LabelsAreNumbers DEF FrameNeat
  <2>2. \A x \in L \cup N : x < h
    BY <2>1
  <2>3. \A x \in M : x < h
    BY <1>1
  <2> QED BY <1>7, <2>2, <2>3
<1>9. CasesNeat(g.cases) /\ N \cap (L \cup M) = {} /\ \A i \in 1..Len(g.cases) : g.cases[i].val # DEFAULT
  BY <1>3, <1>4, <1>5 DEF FrameNeat
<1>10. FrameNeat(g, h)
  BY <1>1, <1>3, <1>6, <1>8, <1>9 DEF FrameNeat
<1> QED BY <1>1, <1>4, <1>7, <1>10

\* The cases of a switch, when the one that is open is added to them.
LEMMA ClosedNeat ==
  ASSUME NEW f \in Frames, NEW l \in Nat, FrameNeat(f, l), NEW cases, cases = ClosedOf(f)
  PROVE  /\ CasesNeat(cases) /\ CasesLabels(cases, Len(cases)) \subseteq FrameLabels(f)
         /\ \A i \in 1..Len(cases) : cases[i].val # DEFAULT \/ (f.val = DEFAULT /\ i = Len(cases))
         /\ f.val = DEFAULT => Len(cases) \in Nat \ {0} /\ cases[Len(cases)].val = DEFAULT
<1>1. CASE f.val = NONE
  <2>1. cases = f.cases /\ f.val # DEFAULT
    BY <1>1 DEF ClosedOf, NONE, DEFAULT
  <2> QED BY <2>1 DEF FrameNeat, FrameLabels
<1>2. CASE f.val # NONE
  <2>1. PICK old, part, n, N, L, c : /\ old = f.cases /\ part = [val |-> f.val, code |-> f.code]
                                     /\ n = Len(old) /\ c = f.code /\ N = CasesLabels(old, n) /\ L = LabelSet(c)
    OBVIOUS
  <2>2. c \in Codes /\ f.val \in ConstAddrs \cup {DEFAULT} /\ old \in Cases
    BY <1>2, <2>1, FrameTyped
  <2>3. part \in [val : ConstAddrs \cup {DEFAULT}, code : Codes] /\ part.code = c /\ part.val = f.val
    BY <2>1, <2>2
  <2>4. cases = Append(old, part)
    BY <1>2, <2>1, Zenon DEF ClosedOf
  <2>5. /\ cases \in Cases /\ Len(cases) = n + 1 /\ n \in Nat
        /\ (\A i \in 1..n : cases[i] = old[i]) /\ cases[n + 1] = part
    BY <2>1, <2>2, <2>3, <2>4, AppendProperties, LenProperties DEF Cases
  <2>6. CasesNeat(old) /\ Neat(c) /\ N \cap L = {} /\ \A i \in 1..n : old[i].val # DEFAULT
    BY <2>1 DEF FrameNeat
  <2>7. \A i \in 1..(n + 1) : i \in 1..n \/ i = n + 1
    BY <2>5
  <2>8. \A i \in 1..n : cases[i].code = old[i].code /\ Neat(old[i].code) /\ LabelSet(old[i].code) \subseteq N
    <3> SUFFICES ASSUME NEW i \in 1..n PROVE cases[i].code = old[i].code /\ Neat(old[i].code) /\ LabelSet(old[i].code) \subseteq N
      OBVIOUS
    <3>1. cases[i].code = old[i].code /\ Neat(old[i].code)
      BY <2>1, <2>5, <2>6 DEF CasesNeat
    <3>2. \A x \in LabelSet(old[i].code) : x \in Nat
      BY DEF LabelSet
    <3> QED BY <2>1, <3>1, <3>2 DEF CasesLabels
  <2>9. cases[n + 1].code = c
    BY <2>3, <2>5
  <2>10. \A i \in 1..(n + 1) : Neat(cases[i].code)
    BY <2>6, <2>7, <2>8, <2>9
  <2>11. ASSUME NEW i \in 1..(n + 1), NEW j \in 1..(n + 1), i # j
         PROVE  LabelSet(cases[i].code) \cap LabelSet(cases[j].code) = {}
    <3>1. CASE i \in 1..n /\ j \in 1..n
      <4>1. LabelSet(old[i].code) \cap LabelSet(old[j].code) = {}
        BY <2>1, <2>6, <2>11, <3>1 DEF CasesNeat
      <4> QED BY <2>8, <3>1, <4>1
    <3>2. CASE i \in 1..n /\ j = n + 1
      <4>1. LabelSet(cases[i].code) \subseteq N /\ LabelSet(cases[j].code) = L
        BY <2>1, <2>8, <2>9, <3>2
      <4> QED BY <2>6, <4>1
    <3>3. CASE i = n + 1 /\ j \in 1..n
      <4>1. LabelSet(cases[j].code) \subseteq N /\ LabelSet(cases[i].code) = L
        BY <2>1, <2>8, <2>9, <3>3
      <4> QED BY <2>6, <4>1
    <3> QED BY <2>7, <2>11, <3>1, <3>2, <3>3
  <2>12. CasesNeat(cases)
    BY <2>5, <2>10, <2>11 DEF CasesNeat
  <2>13. CasesLabels(cases, n + 1) \subseteq FrameLabels(f)
    <3> SUFFICES ASSUME NEW x \in CasesLabels(cases, n + 1) PROVE x \in L \cup N
      BY <2>1 DEF FrameLabels
    <3>1. PICK i \in 1..(n + 1) : x \in LabelSet(cases[i].code)
      BY DEF CasesLabels
    <3>2. CASE i \in 1..n
      BY <2>8, <3>1, <3>2
    <3>3. CASE i = n + 1
      BY <2>1, <2>9, <3>1, <3>3
    <3> QED BY <2>7, <3>2, <3>3
  <2>14. \A i \in 1..(n + 1) : cases[i].val # DEFAULT \/ (f.val = DEFAULT /\ i = n + 1)
    <3> SUFFICES ASSUME NEW i \in 1..(n + 1) PROVE cases[i].val # DEFAULT \/ (f.val = DEFAULT /\ i = n + 1)
      OBVIOUS
    <3>1. CASE i \in 1..n
      BY <2>5, <2>6, <3>1
    <3>2. CASE i = n + 1
      BY <2>3, <2>5, <3>2
    <3> QED BY <2>7, <3>1, <3>2
  <2>15. cases[n + 1].val = f.val /\ n + 1 \in Nat \ {0}
    BY <2>3, <2>5
  <2> QED BY <2>5, <2>12, <2>13, <2>14, <2>15
<1> QED BY <1>1, <1>2

\* The next case begins; the default is the last.
LEMMA FrameNext ==
  ASSUME NEW f \in Frames, NEW l \in Nat, FrameNeat(f, l), f.val # DEFAULT, NEW val,
         NEW g, g = [f EXCEPT !.cases = ClosedOf(f), !.val = val, !.code = << >>]
  PROVE  FrameNeat(g, l) /\ FrameLabels(g) \subseteq FrameLabels(f)
<1>1. PICK e, C : e = << >> /\ C = ClosedOf(f)
  OBVIOUS
<1>2. e \in Codes /\ Len(e) = 0
  BY <1>1 DEF Codes
<1>3. Neat(e) /\ LabelSet(e) = {}
  <2>1. Tidy(e, {}, {})
    BY <1>2, PlainTidy
  <2> QED BY <2>1, NeatIs
<1>4. /\ CasesNeat(C) /\ CasesLabels(C, Len(C)) \subseteq FrameLabels(f)
      /\ \A i \in 1..Len(C) : C[i].val # DEFAULT
  BY <1>1, ClosedNeat
<1>5. g.code = e /\ g.cases = C
  BY <1>1 DEF Frames
<1>6. FrameLabels(g) \subseteq FrameLabels(f)
  BY <1>3, <1>4, <1>5 DEF FrameLabels
<1>7. \A x \in FrameLabels(f) : x < l
  BY DEF FrameNeat
<1> QED BY <1>3, <1>4, <1>5, <1>6, <1>7 DEF FrameNeat

\* The last frame changes, or is closed into the one before: what it has more is
\* from the closed ones or new.
LEMMA LabelsMove ==
  ASSUME NEW c, NEW l, LabelFrames(c, l), Len(c) \in Nat, NEW h \in Nat, l <= h,
         NEW n \in Nat \ {0}, n <= Len(c), NEW e, Len(e) = n, \A k \in 1..n : k # n => e[k] = c[k],
         NEW g, e[n] = g, FrameNeat(g, h),
         \A x \in FrameLabels(g) : l <= x \/ \E k \in n..Len(c) : x \in FrameLabels(c[k])
  PROVE  LabelFrames(e, h)
<1>1. l \in Nat
  BY DEF LabelFrames
<1>2. ASSUME NEW k \in 1..n, k # n PROVE FrameNeat(e[k], h) /\ FrameLabels(g) \cap FrameLabels(e[k]) = {}
  <2>1. e[k] = c[k] /\ k \in 1..Len(c)
    BY <1>2
  <2>2. FrameNeat(c[k], l)
    BY <2>1 DEF LabelFrames
  <2>3. \A x \in FrameLabels(c[k]) : x < l /\ x \in Nat
    BY <2>2, LabelsAreNumbers DEF FrameNeat
  <2>4. FrameNeat(e[k], h)
    <3>1. \A x \in FrameLabels(c[k]) : x < h
      BY <1>1, <2>3
    <3> QED BY <2>1, <2>2, <3>1 DEF FrameNeat
  <2>5. ASSUME NEW x \in FrameLabels(g), x \in FrameLabels(e[k]) PROVE FALSE
    <3>1. x < l /\ x \in Nat
      BY <2>1, <2>3, <2>5
    <3>2. PICK j \in n..Len(c) : x \in FrameLabels(c[j])
      BY <1>1, <3>1
    <3>3. j \in 1..Len(c) /\ j # k
      BY <1>2
    <3>4. FrameLabels(c[j]) \cap FrameLabels(c[k]) = {}
      BY <2>1, <3>3 DEF LabelFrames
    <3> QED BY <2>1, <2>5, <3>2, <3>4
  <2> QED BY <2>4, <2>5
<1>3. \A k \in 1..n : FrameNeat(e[k], h)
  BY <1>2
<1>4. ASSUME NEW j \in 1..n, NEW k \in 1..n, j # k PROVE FrameLabels(e[j]) \cap FrameLabels(e[k]) = {}
  <2>1. CASE j = n
    BY <1>2, <1>4, <2>1
  <2>2. CASE k = n
    BY <1>2, <1>4, <2>2
  <2>3. CASE j # n /\ k # n
    <3>1. j \in 1..Len(c) /\ k \in 1..Len(c) /\ e[j] = c[j] /\ e[k] = c[k]
      BY <2>3
    <3>2. FrameLabels(c[j]) \cap FrameLabels(c[k]) = {}
      BY <1>4, <3>1 DEF LabelFrames
    <3> QED BY <3>1, <3>2
  <2> QED BY <2>1, <2>2, <2>3
<1> QED BY <1>3, <1>4 DEF LabelFrames

\* A frame that is begun has none.
LEMMA LabelsOpen ==
  ASSUME NEW c \in Seq(Frames), NEW l, LabelFrames(c, l), NEW at, NEW cond, Frame(at, cond) \in Frames
  PROVE  LabelFrames(Append(c, Frame(at, cond)), l)
<1>1. PICK f, e, n, none : f = Frame(at, cond) /\ e = Append(c, f) /\ n = Len(c) /\ none = << >>
  OBVIOUS
<1>2. f \in Frames /\ n \in Nat /\ Len(e) = n + 1 /\ e[n + 1] = f /\ \A k \in 1..n : e[k] = c[k]
  BY <1>1, AppendProperties, LenProperties
<1>3. f.code = none /\ f.cases = none
  BY <1>1 DEF Frame
<1>4. none \in Codes /\ Len(none) = 0 /\ none \in Cases
  BY <1>1 DEF Codes, Cases
<1>5. Neat(none) /\ LabelSet(none) = {}
  <2>1. Tidy(none, {}, {})
    BY <1>4, PlainTidy
  <2> QED BY <2>1, NeatIs
<1>6. CasesNeat(none) /\ CasesLabels(none, Len(none)) = {}
  BY <1>4 DEF CasesNeat, CasesLabels
<1>7. FrameLabels(f) = {}
  BY <1>3, <1>5, <1>6 DEF FrameLabels
<1>8. FrameNeat(f, l)
  BY <1>3, <1>4, <1>5, <1>6, <1>7 DEF FrameNeat
<1>9. \A k \in 1..(n + 1) : k \in 1..n \/ k = n + 1
  BY <1>2
<1>10. \A k \in 1..(n + 1) : FrameNeat(e[k], l)
  BY <1>1, <1>2, <1>8, <1>9 DEF LabelFrames
<1>11. ASSUME NEW j \in 1..(n + 1), NEW k \in 1..(n + 1), j # k PROVE FrameLabels(e[j]) \cap FrameLabels(e[k]) = {}
  <2>1. CASE j = n + 1 \/ k = n + 1
    BY <1>2, <1>7, <2>1
  <2>2. CASE j \in 1..n /\ k \in 1..n
    BY <1>1, <1>2, <1>11, <2>2 DEF LabelFrames
  <2> QED BY <1>9, <2>1, <2>2
<1>12. LabelFrames(e, l)
  BY <1>2, <1>10, <1>11 DEF LabelFrames
<1> QED BY <1>1, <1>12

\* A loop or a switch ends: its jumps are to its own labels, and those are of
\* its parts or new.
LEMMA EndTidy ==
  ASSUME NEW f \in Frames, NEW lo \in Nat, Made(f.cond, lo), NEW l \in Nat, FrameNeat(f, l), NEW s \in Stmts, Opens(s, f.cond),
         NEW cases, cases = ClosedOf(f),
         s.node = "Switch" /\ Boolean => {ConstAddr(0, "boolean"), ConstAddr(1, "boolean")} \subseteq {cases[i].val : i \in DOMAIN cases},
         s.node = "Switch" /\ ~Boolean => f.val = DEFAULT,
         NEW d, d = EndCode(s, f, cases, l)
  PROVE  Neat(d) /\ \A x \in LabelSet(d) : x \in FrameLabels(f) \/ (l <= x /\ x < l + Labels(s, cases))
<1>1. PICK a, c, N : a = f.cond.addr /\ c = f.code /\ N = CasesLabels(cases, Len(cases))
  OBVIOUS
<1>2. f.at \in Nat /\ a \in Addrs /\ a \in Terms
  BY <1>1, FrameTyped DEF Opens
<1>3. Neat(c) /\ LabelSet(c) \subseteq FrameLabels(f) /\ \A x \in FrameLabels(f) : x < l
  BY <1>1 DEF FrameNeat, FrameLabels
<1>4. l \notin LabelSet(c) /\ l + 1 \notin LabelSet(c)
  BY <1>3
<1>5. /\ CasesNeat(cases) /\ N \subseteq FrameLabels(f) /\ Len(cases) \in Nat /\ DOMAIN cases = 1..Len(cases)
      /\ \A i \in 1..Len(cases) : cases[i].val # DEFAULT \/ (f.val = DEFAULT /\ i = Len(cases))
      /\ f.val = DEFAULT => Len(cases) \in Nat \ {0} /\ cases[Len(cases)].val = DEFAULT
  <2>1. /\ CasesNeat(cases) /\ CasesLabels(cases, Len(cases)) \subseteq FrameLabels(f)
        /\ \A i \in 1..Len(cases) : cases[i].val # DEFAULT \/ (f.val = DEFAULT /\ i = Len(cases))
        /\ f.val = DEFAULT => Len(cases) \in Nat \ {0} /\ cases[Len(cases)].val = DEFAULT
    BY ClosedNeat
  <2>2. Len(cases) \in Nat /\ DOMAIN cases = 1..Len(cases)
    BY <2>1, CaseTyped DEF CasesNeat
  <2> QED BY <1>1, <2>1, <2>2
<1>6. \A x \in N : x < l
  BY <1>3, <1>5
<1>7. l \notin N /\ l + 1 \notin N
  BY <1>6
<1>8. CASE s.node = "While"
  <2>1. Neat(WhileCode(f, l)) /\ LabelSet(WhileCode(f, l)) = LabelSet(c) \cup {l, l + 1}
    BY <1>1, <1>2, <1>3, <1>4, WhileTidy
  <2>2. d = WhileCode(f, l) /\ Labels(s, cases) = 2
    BY <1>8 DEF EndCode, Labels
  <2> QED BY <1>3, <2>1, <2>2
<1>9. CASE s.node = "For"
  <2>1. s.beg \in Word /\ s.end \in Word /\ a \in Cells /\ AddrType(a) = "integer"
    BY <1>1, <1>9, StatementTyped DEF Opens
  <2>2. Neat(ForCode(f, s, l)) /\ LabelSet(ForCode(f, s, l)) = LabelSet(c) \cup {l, l + 1}
    BY <1>1, <1>2, <1>3, <1>4, <2>1, ForTidy
  <2>3. d = ForCode(f, s, l) /\ Labels(s, cases) = 2
    BY <1>9 DEF EndCode, Labels
  <2> QED BY <1>3, <2>2, <2>3
<1>10. CASE s.node = "Switch" /\ Boolean
  <2>1. PICK u \in 1..Len(cases) : cases[u].val = ConstAddr(1, "boolean")
    BY <1>5, <1>10
  <2>2. PICK v \in 1..Len(cases) : cases[v].val = ConstAddr(0, "boolean")
    BY <1>5, <1>10
  <2>3. Neat(BooleanSwitchCode(f, cases, l)) /\ LabelSet(BooleanSwitchCode(f, cases, l)) \subseteq N \cup {l, l + 1}
    <3>1. l \notin CasesLabels(cases, Len(cases)) /\ l + 1 \notin CasesLabels(cases, Len(cases))
      BY <1>1, <1>7
    <3>2. /\ Neat(BooleanSwitchCode(f, cases, l))
          /\ LabelSet(BooleanSwitchCode(f, cases, l)) \subseteq CasesLabels(cases, Len(cases)) \cup {l, l + 1}
      BY <1>1, <1>2, <1>5, <2>1, <2>2, <3>1, BooleanSwitchTidy
    <3> QED BY <1>1, <3>2
  <2>4. d = BooleanSwitchCode(f, cases, l) /\ Labels(s, cases) = 2
    BY <1>10 DEF EndCode, Labels
  <2> QED BY <1>5, <2>3, <2>4
<1>11. CASE s.node = "Switch" /\ ~Boolean
  <2>1. PICK n \in Nat \ {0} : n = Len(cases)
    BY <1>5, <1>11
  <2>2. cases[n].val = DEFAULT /\ \A i \in 1..n : i # n => cases[i].val # DEFAULT
    BY <1>5, <1>11, <2>1
  <2>5. a \in Cells
    BY <1>1, <1>11 DEF Opens
  <2>3. /\ Neat(IntegerSwitchCode(f, cases, l))
        /\ \A x \in LabelSet(IntegerSwitchCode(f, cases, l)) : x \in N \/ (l <= x /\ x < l + n)
    BY <1>1, <1>2, <1>5, <1>6, <2>1, <2>2, <2>5, IntegerSwitchTidy
  <2>4. d = IntegerSwitchCode(f, cases, l) /\ Labels(s, cases) = n
    BY <1>11, <2>1 DEF EndCode, Labels
  <2> QED BY <1>5, <2>3, <2>4
<1> QED BY <1>8, <1>9, <1>10, <1>11 DEF Opens

-----------------------------------------------------------------------------
(* optimize_ircode keeps labels and jumps, and what operands have to be.   *)

Merged(u, c, i) == IF i = 0 THEN << >> ELSE MergeNext(u[i - 1], c[i])
IsMerged(u, c, n) == u = [i \in 0..n |-> Merged(u, c, i)]

LEMMA MergedExists ==
  ASSUME NEW c, NEW n \in Nat
  PROVE  \E u : IsMerged(u, c, n)
<1> DEFINE Longer(u, i) == Merged(u, c, i)
           Upset(u, m) == \A i \in 0..m : u[i] = Longer(u, i)
           None == {m \in Nat : ~\E u : Upset(u, m)}
<1>1. None = {}
  <2> SUFFICES ASSUME None # {} PROVE FALSE
    OBVIOUS
  <2>1. Smallest(None)
    BY SmallestExists
  <2>2. PICK m \in None : \A k \in None : m <= k
    BY <2>1 DEF Smallest
  <2>3. m # 0
    <3>1. PICK u : u = [i \in {0} |-> << >>]
      OBVIOUS
    <3>2. \A i \in 0..0 : i = 0
      OBVIOUS
    <3>3. u[0] = Longer(u, 0)
      BY <3>1 DEF Merged
    <3>4. Upset(u, 0)
      BY <3>2, <3>3
    <3> QED BY <2>2, <3>4
  <2>4. PICK k \in Nat : m = k + 1
    BY <2>2, <2>3
  <2>5. k \notin None
    BY <2>2, <2>4
  <2>6. PICK u : Upset(u, k)
    BY <2>5
  <2>7. PICK w : w = [i \in 0..m |-> IF i = m THEN Longer(u, m) ELSE u[i]]
    OBVIOUS
  <2>8. \A i \in 0..k : w[i] = u[i]
    BY <2>4, <2>7
  <2>9. ASSUME NEW i \in 0..m PROVE Longer(w, i) = Longer(u, i)
    <3>1. CASE i = 0
      BY <3>1 DEF Merged
    <3>2. CASE i # 0
      <4>1. i - 1 \in 0..k
        BY <2>4, <3>2
      <4>2. w[i - 1] = u[i - 1]
        BY <2>8, <4>1
      <4> QED BY <4>2 DEF Merged
    <3> QED BY <3>1, <3>2
  <2> HIDE DEF Longer
  <2>10. ASSUME NEW i \in 0..m PROVE w[i] = Longer(w, i)
    <3>1. CASE i = m
      BY <2>7, <2>9, <3>1
    <3>2. CASE i # m
      <4>1. i \in 0..k
        BY <2>4, <3>2
      <4>2. u[i] = Longer(u, i)
        BY <2>6, <4>1
      <4> QED BY <2>8, <2>9, <4>1, <4>2
    <3> QED BY <3>1, <3>2
  <2>11. Upset(w, m)
    BY <2>10
  <2> QED BY <2>2, <2>11
<1>2. PICK u : Upset(u, n)
  BY <1>1
<1>3. PICK w : w = [i \in 0..n |-> u[i]]
  OBVIOUS
<1>4. ASSUME NEW i \in 0..n PROVE Longer(w, i) = Longer(u, i)
  <2>1. CASE i = 0
    BY <2>1 DEF Merged
  <2>2. CASE i # 0
    <3>1. i - 1 \in 0..n
      BY <2>2
    <3>2. w[i - 1] = u[i - 1]
      BY <1>3, <3>1
    <3> QED BY <3>2 DEF Merged
  <2> QED BY <2>1, <2>2
<1> HIDE DEF Longer
<1>5. \A i \in 0..n : w[i] = Longer(w, i)
  BY <1>2, <1>3, <1>4
<1>6. w = [i \in 0..n |-> Longer(w, i)]
  BY <1>3, <1>5
<1> QED BY <1>6 DEF Longer, IsMerged

\* A temporary result may become a cell of its type.
LEMMA FitMoved ==
  ASSUME NEW I \in Instrs, I.res.kind = "temp", NEW r \in Cells, AddrType(r) = AddrType(I.res), NEW J, J = [I EXCEPT !.res = r]
  PROVE  J \in Instrs /\ J.op = I.op /\ J.res = r /\ J.arg1 = I.arg1 /\ J.arg2 = I.arg2 /\ J.label = I.label
<1>1. /\ I.op \in Ops /\ I.res \in Addrs /\ I.arg1 \in Addrs /\ I.arg2 \in Addrs /\ I.label \in Nat /\ I.at \in Places
      /\ Fit(I.op, I.res, I.arg1, I.arg2)
  BY InstrTyped
<1>2. I.op # "INPUT"
  BY <1>1 DEF Fit, VarAddrs
<1>3. Fit(I.op, r, I.arg1, I.arg2)
  BY <1>1, <1>2 DEF Fit
<1>4. r \in Addrs
  BY DEF Addrs, Terms
<1>5. /\ J \in [op : Ops, res : Addrs, arg1 : Addrs, arg2 : Addrs, label : Nat, at : Places]
      /\ J.op = I.op /\ J.res = r /\ J.arg1 = I.arg1 /\ J.arg2 = I.arg2 /\ J.label = I.label
  <2>1. I \in [op : Ops, res : Addrs, arg1 : Addrs, arg2 : Addrs, label : Nat, at : Places]
    BY DEF Instrs
  <2> HIDE DEF Ops, Addrs, Places
  <2> QED BY <1>1, <1>4, <2>1
<1> QED BY <1>3, <1>5, Zenon DEF Instrs

\* The last instruction of c with another result.
MovedLast(c, n, J, d) ==
  /\ d \in Codes /\ Len(d) = n /\ n \in 1..n /\ d[n] = J
  /\ \A L, T : Tidy(c, L, T) => Tidy(d, L, T)
  /\ \A a \in Temps(d) : a \in Temps(c) \/ a = J.res

LEMMA LastMoved ==
  ASSUME NEW c \in Codes, NEW n, n = Len(c), n # 0, NEW J \in Instrs, J.op = c[n].op, J.arg1 = c[n].arg1, J.arg2 = c[n].arg2,
         J.label = c[n].label, NEW d, d = [c EXCEPT ![n] = J]
  PROVE  MovedLast(c, n, J, d)
<1>1. n \in Nat /\ DOMAIN c = 1..n /\ n \in 1..n
  BY InCode, LenProperties DEF Codes
<1>2. d \in Codes /\ Len(d) = n /\ d[n] = J /\ \A k \in 1..n : k # n => d[k] = c[k]
  BY <1>1, ExceptSeq DEF Codes
<1>3. \A k \in 1..n : d[k].op = c[k].op /\ d[k].label = c[k].label /\ d[k].arg1 = c[k].arg1 /\ d[k].arg2 = c[k].arg2
  <2> SUFFICES ASSUME NEW k \in 1..n
               PROVE  d[k].op = c[k].op /\ d[k].label = c[k].label /\ d[k].arg1 = c[k].arg1 /\ d[k].arg2 = c[k].arg2
    OBVIOUS
  <2>1. CASE k = n
    BY <1>2, <2>1
  <2>2. CASE k # n
    BY <1>2, <2>2
  <2> QED BY <2>1, <2>2
<1>4. LabelSet(d) = LabelSet(c)
  BY <1>2, <1>3 DEF LabelSet
<1>5. ASSUME NEW L, NEW T, Tidy(c, L, T) PROVE Tidy(d, L, T)
  BY <1>2, <1>3, <1>4, <1>5 DEF Tidy
<1>6. ASSUME NEW a \in Temps(d) PROVE a \in Temps(c) \/ a = J.res
  <2>1. PICK k \in 1..n : a \in TempAddrs /\ a \in {d[k].res, d[k].arg1, d[k].arg2}
    BY <1>2 DEF Temps
  <2>2. CASE a \in {d[k].arg1, d[k].arg2}
    <3>1. a \in {c[k].arg1, c[k].arg2}
      BY <1>3, <2>2
    <3> QED BY <2>1, <3>1 DEF Temps
  <2>3. CASE a = d[k].res /\ k = n
    BY <1>2, <2>3
  <2>4. CASE a = d[k].res /\ k # n
    <3>1. a = c[k].res
      BY <1>2, <2>4
    <3> QED BY <2>1, <3>1 DEF Temps
  <2> QED BY <2>1, <2>2, <2>3, <2>4
<1> QED BY <1>1, <1>2, <1>5, <1>6 DEF MovedLast

\* What optimize_ircode leaves of sound code has its labels and jumps and, where
\* a result moved, operands that fit.
LEMMA OptimizeKeeps ==
  ASSUME NEW c, Sound(c), Neat(c)
  PROVE  Neat(optimize_ircode(c)) /\ Temps(optimize_ircode(c)) \subseteq Temps(c)
<1>1. PICK n, T : n = Len(c) /\ T = LabelSet(c)
  OBVIOUS
<1>2. c \in Codes /\ n \in Nat /\ (\A i \in 1..n : c[i] \in Instrs) /\ Tidy(c, T, T)
  BY <1>1, InCode DEF Sound, Neat
<1>3. PICK u : u = CHOOSE w : IsMerged(w, c, n)
  OBVIOUS
<1>4. IsMerged(u, c, n)
  <2>1. \E w : IsMerged(w, c, n)
    BY <1>2, MergedExists
  <2> QED BY <1>3, <2>1, Zenon
<1>5. \A i \in 0..n : u[i] = Merged(u, c, i)
  BY <1>4 DEF IsMerged
<1> DEFINE First(i) == {x \in Nat : \E k \in 1..i : c[k].op = "LABEL" /\ c[k].label = x}
           Label(I) == IF I.op = "LABEL" THEN {I.label} ELSE {}
           Jump(I)  == IF I.op \in Branches THEN {I.label} ELSE {}
           Ends(d, I) == Len(d) # 0 /\ (d[Len(d)].res.kind = "temp" => d[Len(d)].res = I.res)
           Part(i) == Tidy(u[i], First(i), T) /\ Temps(u[i]) \subseteq Temps(c) /\ (i # 0 => Ends(u[i], c[i]))
           Bad == {i \in Nat : i <= n /\ ~Part(i)}
<1>6. ASSUME NEW k \in Nat, NEW i \in 1..n, k + 1 = i
      PROVE  First(i) = First(k) \cup Label(c[i]) /\ First(k) \cap Label(c[i]) = {} /\ Jump(c[i]) \subseteq T
  <2>1. c[i].label \in Nat
    BY <1>2, InstrTyped
  <2>2. \A j \in 1..i : j \in 1..k \/ j = i
    BY <1>6
  <2>3. First(i) = First(k) \cup Label(c[i])
    <3>1. \A j \in 1..k : j \in 1..i
      BY <1>2, <1>6
    <3>2. ASSUME NEW x \in First(i) PROVE x \in First(k) \cup Label(c[i])
      BY <2>2
    <3>3. ASSUME NEW x \in First(k) PROVE x \in First(i)
      BY <3>1
    <3>4. ASSUME NEW x \in Label(c[i]) PROVE x \in First(i)
      <4>1. i \in 1..i
        OBVIOUS
      <4> QED BY <2>1, <4>1
    <3> HIDE DEF First, Label
    <3> QED BY <3>2, <3>3, <3>4
  <2>4. First(k) \cap Label(c[i]) = {}
    <3> SUFFICES ASSUME NEW x \in First(k), x \in Label(c[i]) PROVE FALSE
      OBVIOUS
    <3>1. PICK j \in 1..k : c[j].op = "LABEL" /\ c[j].label = x
      OBVIOUS
    <3>2. c[i].op = "LABEL" /\ c[i].label = x
      OBVIOUS
    <3>3. j \in 1..n /\ j # i
      BY <1>2, <1>6
    <3> QED BY <1>1, <1>2, <3>1, <3>2, <3>3 DEF Tidy
  <2>5. Jump(c[i]) \subseteq T
    BY <1>1, <1>2 DEF Tidy
  <2> QED BY <2>3, <2>4, <2>5
<1>7. Bad = {}
  <2> SUFFICES ASSUME Bad # {} PROVE FALSE
    OBVIOUS
  <2> HIDE DEF Part
  <2>1. Smallest(Bad)
    BY SmallestExists
  <2>2. PICK i \in Bad : \A j \in Bad : i <= j
    BY <2>1 DEF Smallest
  <2>3. i \in 0..n /\ ~Part(i)
    BY <1>2, <2>2
  <2>4. u[i] = Merged(u, c, i)
    BY <1>5, <2>3
  <2>5. CASE i = 0
    <3>1. PICK e : e = << >>
      OBVIOUS
    <3>2. e \in Codes /\ Len(e) = 0
      BY <3>1 DEF Codes
    <3>3. Tidy(e, {}, {})
      BY <3>2, PlainTidy
    <3>4. First(0) = {} /\ {} \subseteq T
      OBVIOUS
    <3>5. Tidy(e, First(0), T)
      <4> HIDE DEF First
      <4> QED BY <3>3, <3>4, TidyWider
    <3>6. Temps(e) = {}
      BY <3>2 DEF Temps
    <3>7. u[i] = e
      BY <2>4, <2>5, <3>1 DEF Merged
    <3> HIDE DEF First
    <3> QED BY <2>3, <2>5, <3>5, <3>6, <3>7 DEF Part
  <2>6. CASE i # 0
    <3>1. PICK k : k = i - 1
      OBVIOUS
    <3>2. k \in Nat /\ k < i /\ k <= n /\ i \in 1..n /\ k + 1 = i
      BY <1>2, <2>3, <2>6, <3>1
    <3>3. Part(k)
      BY <2>2, <2>3, <3>2
    <3>4. PICK b, I, d, m : b = u[k] /\ I = c[i] /\ d = u[i] /\ m = Len(b)
      OBVIOUS
    <3>5. d = MergeNext(b, I)
      BY <2>4, <2>6, <3>1, <3>4 DEF Merged
    <3>6. PICK F, G, L, J : F = First(k) /\ G = First(i) /\ L = Label(I) /\ J = Jump(I)
      OBVIOUS
    <3>7. Tidy(b, F, T) /\ Temps(b) \subseteq Temps(c) /\ (k # 0 => Ends(b, c[k])) /\ b \in Codes /\ m \in Nat
      <4> HIDE DEF First, Ends
      <4>1. Tidy(b, F, T) /\ Temps(b) \subseteq Temps(c) /\ (k # 0 => Ends(b, c[k]))
        BY <3>3, <3>4, <3>6 DEF Part
      <4>2. b \in Codes
        BY <4>1 DEF Tidy
      <4> QED BY <3>4, <4>1, <4>2, InCode
    <3>8. G = F \cup L /\ F \cap L = {} /\ J \subseteq T
      <4> HIDE DEF First, Label, Jump
      <4> QED BY <1>6, <3>2, <3>4, <3>6
    <3>9. I \in Instrs
      BY <1>2, <3>2, <3>4
    <3>10. \A a \in TempAddrs : a \in {I.res, I.arg1, I.arg2} => a \in Temps(c)
      BY <1>1, <3>2, <3>4 DEF Temps
    <3>11. ASSUME d = Append(b, I)
           PROVE  Tidy(d, G, T) /\ Temps(d) \subseteq Temps(c) /\ Ends(d, I)
      <4>1. PICK e : e = <<I>>
        OBVIOUS
      <4>2. e \in Codes /\ Len(e) = 1 /\ e[1] = I
        BY <3>9, <4>1, Single
      <4>3. d = b \o e
        BY <3>7, <3>9, <3>11, <4>1, AppendIsConcat DEF Codes
      <4>4. Tidy(e, L, J)
        BY <3>6, <3>9, <4>1, TidyOne
      <4> HIDE <4>1
      <4>5. Tidy(d, F \cup L, T \cup J)
        BY <3>7, <3>8, <4>3, <4>4, TidyJoined
      <4>6. Tidy(d, G, T)
        BY <3>8, <4>5, TidyWider
      <4>7. Temps(d) = Temps(b) \cup Temps(e)
        BY <3>7, <4>2, <4>3, TempsJoined
      <4>8. Temps(e) \subseteq Temps(c)
        <5> SUFFICES ASSUME NEW a \in Temps(e) PROVE a \in Temps(c)
          OBVIOUS
        <5>1. PICK j \in 1..1 : a \in TempAddrs /\ a \in {e[j].res, e[j].arg1, e[j].arg2}
          BY <4>2 DEF Temps
        <5>2. e[j] = I
          BY <4>2
        <5> QED BY <3>10, <5>1, <5>2
      <4>9. Len(d) = m + 1 /\ d[m + 1] = I
        BY <3>4, <3>7, <3>9, <3>11, AppendProperties DEF Codes
      <4>10. Ends(d, I)
        BY <3>7, <4>9
      <4> QED BY <3>7, <4>6, <4>7, <4>8, <4>10
    <3>12. ASSUME b # << >>, I.op = "MOV", b[m].res.kind = "temp", d = [b EXCEPT ![m] = [b[m] EXCEPT !.res = I.res]]
           PROVE  Tidy(d, G, T) /\ Temps(d) \subseteq Temps(c) /\ Ends(d, I)
      <4>1. m # 0
        BY <3>4, <3>7, <3>12, EmptySeq DEF Codes
      <4>2. k # 0
        <5>1. u[0] = << >>
          <6>1. 0 \in 0..n
            BY <1>2
          <6> QED BY <1>5, <6>1 DEF Merged
        <5> QED BY <3>4, <3>12, <5>1
      <4>3. b[m].res = c[k].res
        BY <3>4, <3>7, <3>12, <4>2
      <4>4. I.arg1 = c[k].res
        <5>1. k \in 1..(Len(c) - 1) /\ c[k + 1] = I
          BY <1>1, <1>2, <3>2, <3>4, <4>2
        <5>2. MovesResult(c, k)
          BY <3>12, <4>3, <5>1 DEF Sound
        <5> QED BY <5>1, <5>2 DEF MovesResult
      <4>5. PICK H, r : H = b[m] /\ r = I.res
        OBVIOUS
      <4>6. r \in Cells /\ AddrType(r) = AddrType(H.res)
        <5>1. Fit("MOV", I.res, I.arg1, I.arg2)
          BY <3>9, <3>12, InstrTyped
        <5>2. I.res \in Cells /\ AddrType(I.res) = AddrType(I.arg1)
          BY <5>1 DEF Fit
        <5> QED BY <4>3, <4>4, <4>5, <5>2
      <4>7. m \in 1..m
        BY <3>7, <4>1
      <4>8. H \in Instrs
        BY <3>4, <3>7, <4>5, <4>7, InCode
      <4>9. PICK K : K = [H EXCEPT !.res = r]
        OBVIOUS
      <4>10. K \in Instrs /\ K.op = H.op /\ K.res = r /\ K.arg1 = H.arg1 /\ K.arg2 = H.arg2 /\ K.label = H.label
        BY <3>12, <4>5, <4>6, <4>8, <4>9, FitMoved
      <4>11. d = [b EXCEPT ![m] = K]
        BY <3>12, <4>5, <4>9
      <4>12. /\ Len(d) = m /\ d[m] = K
             /\ \A M, U : Tidy(b, M, U) => Tidy(d, M, U)
             /\ \A a \in Temps(d) : a \in Temps(b) \/ a = K.res
        <5>1. b \in Codes /\ m = Len(b)
          BY <3>4, <3>7
        <5>2. K.op = b[m].op /\ K.arg1 = b[m].arg1 /\ K.arg2 = b[m].arg2 /\ K.label = b[m].label
          BY <4>5, <4>10
        <5>3. MovedLast(b, m, K, d)
          BY <4>1, <4>10, <4>11, <5>1, <5>2, LastMoved
        <5> QED BY <5>3 DEF MovedLast
      <4>13. L = {}
        BY <3>6, <3>12
      <4>14. Tidy(d, G, T)
        BY <3>7, <3>8, <4>12, <4>13, Zenon
      <4>15. Temps(d) \subseteq Temps(c)
        <5> SUFFICES ASSUME NEW a \in Temps(d) PROVE a \in Temps(c)
          OBVIOUS
        <5>1. a \in TempAddrs
          BY DEF Temps
        <5> QED BY <3>7, <3>10, <4>5, <4>10, <4>12, <5>1
      <4>16. Ends(d, I)
        BY <4>1, <4>5, <4>10, <4>12
      <4> QED BY <4>14, <4>15, <4>16
    <3>13. d = Append(b, I) \/ (b # << >> /\ I.op = "MOV" /\ b[m].res.kind = "temp" /\ d = [b EXCEPT ![m] = [b[m] EXCEPT !.res = I.res]])
      <4>1. CASE b = << >>
        <5>1. d = <<I>>
          BY <3>5, <4>1 DEF MergeNext
        <5>2. Append(<< >>, I) = <<I>>
          OBVIOUS
        <5> QED BY <4>1, <5>1, <5>2
      <4>2. CASE b # << >>
        <5>1. d = Merge(b, b[m], I)
          BY <3>4, <3>5, <4>2 DEF MergeNext
        <5> QED BY <3>4, <4>2, <5>1, Zenon DEF Merge
      <4> QED BY <4>1, <4>2
    <3>14. Tidy(d, G, T) /\ Temps(d) \subseteq Temps(c) /\ Ends(d, I)
      <4> HIDE DEF Ends
      <4> QED BY <3>11, <3>12, <3>13
    <3> HIDE DEF First, Ends
    <3> QED BY <2>3, <3>4, <3>6, <3>14 DEF Part
  <2> QED BY <2>5, <2>6
<1>8. Part(n)
  <2>1. n <= n
    BY <1>2
  <2> HIDE DEF Part
  <2> QED BY <1>2, <1>7, <2>1
<1>9. optimize_ircode(c) = u[n]
  BY <1>1, <1>3, Zenon DEF optimize_ircode, IsMerged, Merged
<1>10. First(n) = T
  BY <1>1 DEF LabelSet
<1>11. Tidy(u[n], T, T) /\ Temps(u[n]) \subseteq Temps(c)
  <2> HIDE DEF First
  <2> QED BY <1>8, <1>10
<1> QED BY <1>9, <1>11, NeatIs

LEMMA LabelsEmit ==
  ASSUME NEW c \in Seq(Frames), Len(c) # 0, NEW l, LabelFrames(c, l), NEW d, Tidy(d, {}, {})
  PROVE  LabelFrames([c EXCEPT ![Len(c)] = [c[Len(c)] EXCEPT !.code = @ \o d]], l)
<1>1. PICK n, f, g, e : n = Len(c) /\ f = c[n] /\ g = [f EXCEPT !.code = @ \o d] /\ e = [c EXCEPT ![n] = g]
  OBVIOUS
<1>2. n \in Nat \ {0} /\ n \in 1..n /\ n <= n /\ f \in Frames
  <2>1. n \in Nat
    BY <1>1, LenProperties
  <2>2. n \in 1..n
    BY <1>1, <2>1
  <2> QED BY <1>1, <2>1, <2>2, ElementOfSeq
<1>3. l \in Nat /\ l <= l /\ FrameNeat(f, l)
  BY <1>1, <1>2 DEF LabelFrames
<1>4. Neat(d) /\ LabelSet(d) = {}
  BY NeatIs
<1>5. FrameNeat(g, l) /\ FrameLabels(g) = FrameLabels(f)
  <2>1. FrameNeat(g, l) /\ FrameLabels(g) = FrameLabels(f) \cup LabelSet(d)
    BY <1>1, <1>2, <1>3, <1>4, FrameLonger
  <2> QED BY <1>4, <2>1
<1>6. Len(e) = n /\ e[n] = g /\ \A k \in 1..n : k # n => e[k] = c[k]
  <2>1. g \in Frames
    <3>1. f.code \o d \in Codes
      BY <1>2, Joined, FrameTyped DEF Tidy
    <3> QED BY <1>1, <1>2, <3>1 DEF Frames
  <2>2. Replaced(c, Len(c), g, [c EXCEPT ![Len(c)] = g])
    BY <1>1, <1>2, <2>1, LastReplaced
  <2> QED BY <1>1, <2>2 DEF Replaced
<1>7. \A x \in FrameLabels(g) : l <= x \/ \E k \in n..Len(c) : x \in FrameLabels(c[k])
  BY <1>1, <1>2, <1>5
<1>8. LabelFrames(e, l)
  <2>1. /\ Len(c) \in Nat /\ n <= Len(c) /\ l <= l
        /\ \A x \in FrameLabels(g) : l <= x \/ \E k \in n..Len(c) : x \in FrameLabels(c[k])
    BY <1>1, <1>2, <1>3, <1>7
  <2> QED BY <1>2, <1>3, <1>5, <1>6, <2>1, LabelsMove
<1> QED BY <1>1, <1>8

LEMMA LabelsCase ==
  ASSUME NEW c \in Seq(Frames), Len(c) # 0, NEW l, LabelFrames(c, l), c[Len(c)].val # DEFAULT,
         NEW val, NEW g \in Frames, g = [c[Len(c)] EXCEPT !.cases = ClosedOf(c[Len(c)]), !.val = val, !.code = << >>]
  PROVE  LabelFrames([c EXCEPT ![Len(c)] = g], l)
<1>1. PICK n, f, e : n = Len(c) /\ f = c[n] /\ e = [c EXCEPT ![n] = g]
  OBVIOUS
<1>2. n \in Nat \ {0} /\ n \in 1..n /\ n <= n /\ f \in Frames
  <2>1. n \in Nat
    BY <1>1, LenProperties
  <2>2. n \in 1..n
    BY <1>1, <2>1
  <2> QED BY <1>1, <2>1, <2>2, ElementOfSeq
<1>3. l \in Nat /\ l <= l /\ FrameNeat(f, l)
  BY <1>1, <1>2 DEF LabelFrames
<1>4. FrameNeat(g, l) /\ FrameLabels(g) \subseteq FrameLabels(f)
  <2>1. g = [f EXCEPT !.cases = ClosedOf(f), !.val = val, !.code = << >>] /\ f.val # DEFAULT
    BY <1>1
  <2> QED BY <1>2, <1>3, <2>1, FrameNext
<1>5. Len(e) = n /\ e[n] = g /\ \A k \in 1..n : k # n => e[k] = c[k]
  <2>1. Replaced(c, Len(c), g, [c EXCEPT ![Len(c)] = g])
    BY LastReplaced
  <2> QED BY <1>1, <2>1 DEF Replaced
<1>6. \A x \in FrameLabels(g) : l <= x \/ \E k \in n..Len(c) : x \in FrameLabels(c[k])
  BY <1>1, <1>2, <1>4
<1>7. LabelFrames(e, l)
  <2>1. /\ Len(c) \in Nat /\ n <= Len(c) /\ l <= l
        /\ \A x \in FrameLabels(g) : l <= x \/ \E k \in n..Len(c) : x \in FrameLabels(c[k])
    BY <1>1, <1>2, <1>3, <1>6
  <2> QED BY <1>2, <1>3, <1>4, <1>5, <2>1, LabelsMove
<1> QED BY <1>1, <1>7

LEMMA LabelsClose ==
  ASSUME NEW c \in Seq(Frames), NEW m \in Nat \ {0}, Len(c) = m + 1, NEW l, LabelFrames(c, l), NEW h \in Nat, l <= h,
         NEW d, Neat(d), \A x \in LabelSet(d) : x \in FrameLabels(c[m + 1]) \/ (l <= x /\ x < h)
  PROVE  LabelFrames([SubSeq(c, 1, m) EXCEPT ![m].code = @ \o d], h)
<1>1. PICK b, f, g, e : b = SubSeq(c, 1, m) /\ f = c[m] /\ g = [f EXCEPT !.code = @ \o d] /\ e = [b EXCEPT ![m] = g]
  OBVIOUS
<1>2. m \in 1..Len(c) /\ m + 1 \in 1..Len(c) /\ m # m + 1 /\ m <= Len(c) /\ Len(c) \in Nat /\ m \in 1..m
  OBVIOUS
<1>3. b \in Seq(Frames) /\ Len(b) = m /\ \A k \in 1..m : b[k] = c[k]
  <2>1. 1 \in 1..(Len(c) + 1) /\ m \in (1 - 1)..Len(c) /\ (m - 1) + 1 = m
    OBVIOUS
  <2>2. \A i \in 1..m : c[i] \in Frames
    BY <1>2, ElementOfSeq
  <2> QED BY <1>1, <1>2, <2>1, SubSeqProperties
<1>4. f \in Frames
  BY <1>1, <1>2, ElementOfSeq
<1>5. l \in Nat /\ FrameNeat(f, l) /\ FrameNeat(c[m + 1], l) /\ FrameLabels(f) \cap FrameLabels(c[m + 1]) = {}
  BY <1>1, <1>2 DEF LabelFrames
<1>6. \A x \in FrameLabels(f) \cup FrameLabels(c[m + 1]) : x < l /\ x \in Nat
  BY <1>5, LabelsAreNumbers DEF FrameNeat
<1>7. \A x \in LabelSet(d) : x \in Nat
  BY DEF LabelSet
<1>8. LabelSet(d) \cap FrameLabels(f) = {}
  <2> SUFFICES ASSUME NEW x \in LabelSet(d), x \in FrameLabels(f) PROVE FALSE
    OBVIOUS
  <2>1. x < l /\ x \in Nat
    BY <1>6
  <2>2. x \notin FrameLabels(c[m + 1])
    BY <1>5
  <2> QED BY <1>5, <2>1, <2>2
<1>9. \A x \in LabelSet(d) : x < h
  BY <1>5, <1>6, <1>7
<1>10. FrameNeat(g, h) /\ FrameLabels(g) = FrameLabels(f) \cup LabelSet(d)
  BY <1>1, <1>4, <1>5, <1>8, <1>9, FrameLonger
<1>11. g \in Frames
  <2>1. f.code \o d \in Codes
    BY <1>4, Joined, FrameTyped DEF Neat, Tidy
  <2> QED BY <1>1, <1>4, <2>1 DEF Frames
<1>12. Len(e) = m /\ e[m] = g /\ \A k \in 1..m : k # m => e[k] = c[k]
  <2>1. Len(b) # 0
    BY <1>3
  <2>2. Replaced(b, Len(b), g, [b EXCEPT ![Len(b)] = g])
    BY <1>3, <1>11, <2>1, LastReplaced
  <2>3. Replaced(b, m, g, e)
    BY <1>1, <1>3, <2>2
  <2> QED BY <1>3, <2>3 DEF Replaced
<1>13. \A x \in FrameLabels(g) : l <= x \/ \E k \in m..Len(c) : x \in FrameLabels(c[k])
  <2>1. m \in m..Len(c) /\ m + 1 \in m..Len(c)
    OBVIOUS
  <2> QED BY <1>1, <1>10, <2>1
<1>14. LabelFrames(e, h)
  BY <1>2, <1>10, <1>12, <1>13, LabelsMove
<1>15. e = [SubSeq(c, 1, m) EXCEPT ![m].code = @ \o d]
  <2>1. b[m] = f
    BY <1>1, <1>2, <1>3
  <2>2. [b EXCEPT ![m].code = @ \o d] = [b EXCEPT ![m] = [b[m] EXCEPT !.code = @ \o d]]
    OBVIOUS
  <2> QED BY <1>1, <2>1, <2>2
<1> QED BY <1>14, <1>15

-----------------------------------------------------------------------------
(* The jumps of the code made so far, and of the code that runs; what runs *)
(* has temporaries that exist.                                             *)

JumpInv ==
  /\ temps \in Nat
  /\ pc = "gen" => LabelFrames(control, label_counter) /\ code = << >>
  /\ pc # "gen" => Neat(code) /\ OneType(code) /\ \A a \in Temps(code) : a.no \in 1..temps

LEMMA InitJumps ==
  ASSUME Init
  PROVE  JumpInv
<1>1. PICK cond, e, f, c : cond = Operand(NULL, 0) /\ e = << >> /\ f = Frame(0, cond) /\ c = <<f>>
  OBVIOUS
<1>2. e \in Seq(Frames) /\ LabelFrames(e, 1)
  BY <1>1 DEF LabelFrames
<1>3. f \in Frames
  <2>1. Made(cond, 0)
    BY <1>1, AddrKinds, OperandMade
  <2>2. cond = [code |-> cond.code, addr |-> cond.addr, temps |-> cond.temps]
    BY <1>1 DEF Operand
  <2>3. FrameInv(f, 0, cond.temps)
    BY <1>1, <2>1, <2>2, FrameBegins
  <2> QED BY <2>3 DEF FrameInv
<1>4. LabelFrames(Append(e, f), 1)
  BY <1>1, <1>2, <1>3, LabelsOpen
<1>5. Append(e, f) = c
  BY <1>1
<1>6. control = c /\ label_counter = 1 /\ temps = 0 /\ code = << >> /\ pc = "gen"
  BY <1>1 DEF Init
<1> QED BY <1>4, <1>5, <1>6 DEF JumpInv

\* What every statement of the walk starts from.
LEMMA WalkLabels ==
  ASSUME CodeInv, CodeInv', JumpInv, NEW s \in input.stmts \cup {EndStmt}, Walk(s)
  PROVE  /\ control \in Seq(Frames) /\ Len(control) \in Nat /\ Len(control) # 0 /\ Top \in Frames
         /\ LabelFrames(control, label_counter) /\ Here \in Places
         /\ control' \in Seq(Frames)
         /\ LabelFrames(control', label_counter') => JumpInv'
<1>1. pc = "gen" /\ pc' = "gen" /\ code' = code
  BY DEF Walk
<1>2. PICK base : FramesInv(control, base, temps)
  BY <1>1 DEF CodeInv, GenInv
<1>3. PICK more : FramesInv(control', more, temps')
  BY <1>1 DEF CodeInv, GenInv
<1>4. /\ control \in Seq(Frames) /\ Len(control) \in Nat /\ Len(control) # 0 /\ control[Len(control)] \in Frames
  BY <1>2, LastFrame
<1>5. temps' \in Nat /\ control' \in Seq(Frames)
  BY <1>3, LastFrame
<1>6. LabelFrames(control, label_counter) /\ code = << >>
  BY <1>1 DEF JumpInv
<1>7. LabelFrames(control', label_counter') => JumpInv'
  BY <1>1, <1>5, <1>6 DEF JumpInv
<1>8. Here \in Places
  BY WalkTyped
<1> QED BY <1>4, <1>5, <1>6, <1>7, <1>8 DEF Top

\* A statement whose code has neither.
LEMMA PlainEmitted ==
  ASSUME CodeInv, CodeInv', JumpInv, NEW s \in input.stmts \cup {EndStmt}, Walk(s),
         NEW d, Tidy(d, {}, {}), Emit(AtPlace(Here, d)), label_counter' = label_counter
  PROVE  JumpInv'
<1>1. PICK l, e, c : l = label_counter /\ e = AtPlace(Here, d) /\ c = control
  OBVIOUS
<1>2. c \in Seq(Frames) /\ Len(c) # 0 /\ LabelFrames(c, l) /\ Here \in Places
  BY <1>1, WalkLabels
<1>3. Tidy(e, {}, {})
  BY <1>1, <1>2, TidyPlaced
<1>4. LabelFrames([c EXCEPT ![Len(c)] = [c[Len(c)] EXCEPT !.code = @ \o e]], l)
  BY <1>2, <1>3, LabelsEmit
<1>5. control' = [c EXCEPT ![Len(c)] = [c[Len(c)] EXCEPT !.code = @ \o e]]
  BY <1>1 DEF Emit, Top
<1>6. LabelFrames(control', label_counter')
  BY <1>1, <1>4, <1>5
<1> QED BY <1>6, WalkLabels

LEMMA PlainJumps ==
  ASSUME CodeInv, CodeInv', JumpInv, NEW s \in input.stmts \cup {EndStmt}, Assn(s) \/ Input(s) \/ Output(s)
  PROVE  JumpInv'
<1>1. Walk(s) /\ label_counter' = label_counter /\ NULL \in Addrs /\ 0 \in Nat
  BY AddrKinds DEF Assn, Input, Output
<1>2. s \in Stmts /\ temps \in Nat
  BY <1>1, WalkTyped
<1>3. CASE Assn(s)
  <2>1. PICK t, expr, target : t = temps /\ expr = compile_expr[s.expr][t] /\ target = compile_expr[s.target][t]
    OBVIOUS
  <2>2. s.node = "Assn" /\ Emit(AtPlace(Here, AssnCode(target, expr)))
    BY <1>3, <2>1 DEF Assn
  <2>3. s.target \in Exprs /\ s.target.node \in {"Var", "Deref"} /\ s.expr \in Exprs /\ TypeOfExpr(s.target) = TypeOfExpr(s.expr)
    BY <1>2, <2>2, StatementTyped
  <2>4. Made(expr, t)
    BY <1>2, <2>1, <2>3, ExpressionMade
  <2>5. PICK a, x : a = target.addr /\ x = expr.addr
    OBVIOUS
  <2>6. a \in Addrs /\ a \in Cells /\ AddrType(a) = TypeOfExpr(s.target)
    BY <1>2, <2>1, <2>3, <2>5, PlainOperand
  <2>7. x \in Addrs /\ x \in Terms /\ AddrType(x) = TypeOfExpr(s.expr)
    <3>1. x.kind # "null" /\ AddrType(x) = TypeOfExpr(s.expr)
      BY <1>2, <2>1, <2>3, <2>5, ExpressionAddr
    <3>2. x \in Addrs
      BY <2>4, <2>5 DEF Made
    <3> QED BY <3>1, <3>2, KindOf
  <2>8. Fit("MOV", a, x, NULL)
    BY <2>3, <2>6, <2>7, FitOthers
  <2>9. PICK I : I = irinstr_new4("MOV", a, x, NULL, 0)
    OBVIOUS
  <2>10. I \in Instrs
    <3>1. "MOV" \in Ops
      BY DEF Ops
    <3> QED BY <1>1, <2>6, <2>7, <2>8, <2>9, <3>1, InstrMade
  <2>11. Tidy(<<I>>, {}, {}) /\ Tidy(expr.code, {}, {}) /\ expr.code \in Codes
    BY <1>1, <2>4, <2>6, <2>7, <2>8, <2>9, OtherTidy, MadeTidy DEF Made
  <2>12. Tidy(expr.code \o <<I>>, {} \cup {}, {} \cup {})
    BY <2>11, TidyJoined
  <2>13. AssnCode(target, expr) = expr.code \o <<I>>
    <3>1. AssnCode(target, expr) = Append(expr.code, I)
      BY <2>5, <2>9 DEF AssnCode, irinstr_new2
    <3> QED BY <2>10, <2>11, <3>1, AppendIsConcat DEF Codes
  <2>14. Tidy(AssnCode(target, expr), {}, {})
    BY <2>12, <2>13
  <2> QED BY <1>1, <2>2, <2>14, PlainEmitted
<1>4. CASE Input(s)
  <2>1. PICK a : a = VarAddr(s.name)
    OBVIOUS
  <2>2. s.node = "Input" /\ Emit(AtPlace(Here, <<irinstr_new4("INPUT", a, NULL, NULL, 0)>>))
    BY <1>4, <2>1 DEF Input, irinstr_new2
  <2>3. a \in Addrs /\ a \in VarAddrs
    BY <1>2, <2>1, <2>2, StatementTyped, AddrKinds
  <2>4. Tidy(<<irinstr_new4("INPUT", a, NULL, NULL, 0)>>, {}, {})
    <3>1. Fit("INPUT", a, NULL, NULL)
      BY <2>3, FitOthers
    <3> QED BY <1>1, <2>3, <3>1, OtherTidy
  <2> QED BY <1>1, <2>2, <2>4, PlainEmitted
<1>5. CASE Output(s)
  <2>1. PICK a : a = compile_expr[s.var][temps].addr
    OBVIOUS
  <2>2. s.node = "Output" /\ Emit(AtPlace(Here, <<irinstr_new4("OUTPUT", NULL, a, NULL, 0)>>))
    BY <1>5, <2>1 DEF Output, irinstr_new2
  <2>3. s.var \in Exprs /\ s.var.node \in {"Var", "Deref", "Num"}
    BY <1>2, <2>2, StatementTyped
  <2>4. a \in Addrs /\ a \in Terms
    BY <1>2, <2>1, <2>3, PlainOperand
  <2>5. Tidy(<<irinstr_new4("OUTPUT", NULL, a, NULL, 0)>>, {}, {})
    <3>1. Fit("OUTPUT", NULL, a, NULL)
      BY <2>4, FitOthers
    <3> QED BY <1>1, <2>4, <3>1, OtherTidy
  <2> QED BY <1>1, <2>2, <2>5, PlainEmitted
<1> QED BY <1>3, <1>4, <1>5

LEMMA OpenJumps ==
  ASSUME CodeInv, CodeInv', JumpInv, NEW s \in input.stmts \cup {EndStmt}, While(s) \/ For(s) \/ Switch(s)
  PROVE  JumpInv'
<1>1. PICK cond : Walk(s) /\ Open(cond)
  BY DEF While, For, Switch
<1>2. PICK f, at : at = Len(prog) + 1 /\ f = Frame(at, cond)
  OBVIOUS
<1>3. control' = Append(control, f) /\ label_counter' = label_counter
  BY <1>1, <1>2 DEF Open
<1>4. control \in Seq(Frames) /\ Len(control) \in Nat /\ LabelFrames(control, label_counter) /\ control' \in Seq(Frames)
  BY <1>1, WalkLabels
<1>5. Len(control') = Len(control) + 1 /\ control'[Len(control) + 1] = f
  BY <1>3
<1>6. f \in Frames
  <2>1. Len(control) + 1 \in 1..Len(control')
    BY <1>4, <1>5
  <2> QED BY <1>4, <1>5, <2>1, ElementOfSeq
<1>7. LabelFrames(control', label_counter')
  BY <1>2, <1>3, <1>4, <1>6, LabelsOpen
<1> QED BY <1>1, <1>7, WalkLabels

LEMMA CaseJumps ==
  ASSUME CodeInv, CodeInv', JumpInv, NEW s \in input.stmts \cup {EndStmt}, Case(s) \/ Default(s)
  PROVE  JumpInv'
<1>1. PICK val : NextCase(s, val) /\ s.node \in {"Case", "Default"}
  BY DEF Case, Default
<1>2. Walk(s) /\ label_counter' = label_counter /\ Fits(s)
  BY <1>1 DEF NextCase, Walk
<1>3. Top.val # DEFAULT
  BY <1>1, <1>2 DEF Fits
<1>4. PICK c, l, n, g : c = control /\ l = label_counter /\ n = Len(c)
                        /\ g = [c[n] EXCEPT !.cases = ClosedOf(c[n]), !.val = val, !.code = << >>]
  OBVIOUS
<1>5. c \in Seq(Frames) /\ n \in Nat /\ n # 0 /\ LabelFrames(c, l) /\ control' \in Seq(Frames) /\ c[n].val # DEFAULT
  BY <1>2, <1>3, <1>4, WalkLabels DEF Top
<1>6. control' = [c EXCEPT ![n] = g]
  <2>1. Closed = ClosedOf(c[n])
    BY <1>4 DEF Closed, ClosedOf, Top
  <2> QED BY <1>1, <1>4, <2>1 DEF NextCase, Top
<1>7. n \in 1..n /\ DOMAIN c = 1..n
  BY <1>4, <1>5, LenProperties
<1>8. g \in Frames
  <2>1. control'[n] = g
    BY <1>6, <1>7
  <2>2. Len(control') = n
    <3>1. DOMAIN control' = 1..n
      BY <1>6, <1>7
    <3> QED BY <1>5, <3>1, LenProperties
  <2> QED BY <1>5, <1>7, <2>1, <2>2, ElementOfSeq
<1>9. LabelFrames([c EXCEPT ![n] = g], l)
  BY <1>4, <1>5, <1>8, LabelsCase
<1>10. LabelFrames(control', label_counter')
  BY <1>2, <1>4, <1>6, <1>9
<1> QED BY <1>2, <1>10, WalkLabels

LEMMA EndJumps ==
  ASSUME CodeInv, CodeInv', JumpInv, NEW s \in input.stmts \cup {EndStmt}, End(s)
  PROVE  JumpInv'
<1>1. PICK c, l, m, q, f, cases, d, h : /\ c = control /\ l = label_counter /\ m = Len(control) - 1 /\ q = Opened /\ f = Top
                                        /\ cases = Closed /\ d = EndCode(q, f, cases, l) /\ h = l + Labels(q, cases)
  OBVIOUS
<1>2. s.node = "End" /\ Walk(s) /\ Fits(s)
  BY DEF End, Walk
<1>3. /\ c \in Seq(Frames) /\ Len(c) \in Nat /\ LabelFrames(c, l) /\ l \in Nat /\ h \in Nat
  BY <1>1, <1>2, WalkLabels DEF CodeInv, End
<1>4. Len(control) > 1 /\ (InSwitch => IF Boolean THEN Handled = {ConstAddr(0, "boolean"), ConstAddr(1, "boolean")} ELSE Top.val = DEFAULT)
  BY <1>2 DEF Fits
<1>5. m \in Nat \ {0} /\ Len(c) = m + 1 /\ f = c[m + 1] /\ m + 1 \in 2..Len(c) /\ m + 1 \in 1..Len(c) /\ f \in Frames
  <2>1. m \in Nat \ {0} /\ Len(c) = m + 1 /\ f = c[m + 1] /\ m + 1 \in 2..Len(c) /\ m + 1 \in 1..Len(c)
    BY <1>1, <1>3, <1>4 DEF Top
  <2> QED BY <1>3, <2>1, ElementOfSeq
<1>6. GenInv(c, temps, prog) /\ prog \in Seq(Stmts)
  BY <1>1, <1>2, WalkTyped
<1>7. q \in Stmts /\ Opens(q, f.cond)
  <2>1. f.at \in 1..Len(prog) /\ q = prog[f.at] /\ Opens(q, f.cond)
    BY <1>1, <1>5, <1>6 DEF GenInv, OpenInv, Opened
  <2> QED BY <1>6, <2>1, ElementOfSeq
<1>8. PICK lo \in Nat : Made(f.cond, lo)
  <2>1. PICK base : FramesInv(c, base, temps)
    BY <1>6 DEF GenInv
  <2>2. FrameInv(c[m + 1], base[m + 1], temps)
    BY <1>5, <2>1 DEF FramesInv
  <2> QED BY <1>5, <2>2 DEF FrameInv
<1>9. cases = ClosedOf(f) /\ FrameNeat(f, l)
  BY <1>1, <1>3, <1>5 DEF Closed, ClosedOf, LabelFrames
<1>10. /\ q.node = "Switch" /\ Boolean => {ConstAddr(0, "boolean"), ConstAddr(1, "boolean")} \subseteq {cases[i].val : i \in DOMAIN cases}
       /\ q.node = "Switch" /\ ~Boolean => f.val = DEFAULT
  BY <1>1, <1>4 DEF InSwitch, Handled
<1>11. Neat(d) /\ \A x \in LabelSet(d) : x \in FrameLabels(f) \/ (l <= x /\ x < h)
  BY <1>1, <1>3, <1>5, <1>7, <1>8, <1>9, <1>10, EndTidy
<1>12. l <= h
  <2>1. Len(cases) \in Nat
    BY <1>3, <1>5, <1>9, ClosedNeat, CaseTyped DEF CasesNeat
  <2>2. Labels(q, cases) \in Nat
    BY <2>1 DEF Labels
  <2> QED BY <1>1, <1>3, <2>2
<1>13. LabelFrames([SubSeq(c, 1, m) EXCEPT ![m].code = @ \o d], h)
  <2>1. \A x \in LabelSet(d) : x \in FrameLabels(c[m + 1]) \/ (l <= x /\ x < h)
    BY <1>5, <1>11
  <2> QED BY <1>3, <1>5, <1>11, <1>12, <2>1, LabelsClose
<1>14. control' = [SubSeq(c, 1, m) EXCEPT ![m].code = @ \o d] /\ label_counter' = h
  BY <1>1 DEF End
<1>15. LabelFrames(control', label_counter')
  BY <1>13, <1>14
<1> QED BY <1>2, <1>15, WalkLabels

LEMMA FinishJumps ==
  ASSUME CodeInv, JumpInv, Finish
  PROVE  JumpInv'
<1>1. PICK f, c : f = Top /\ c = Top.code
  OBVIOUS
<1>2. pc = "gen" /\ pc' = "run" /\ Len(control) = 1 /\ code' = optimize_ircode(c) /\ temps' = temps
  BY <1>1 DEF Finish
<1>3. PICK base : FramesInv(control, base, temps)
  BY <1>2 DEF CodeInv, GenInv
<1>4. FrameInv(f, base[1], temps) /\ temps \in Nat
  BY <1>1, <1>2, <1>3, LastFrame DEF Top
<1>5. Sound(c) /\ Used(c) \subseteq (f.cond.temps + 1)..temps /\ f.cond.temps \in Nat
  BY <1>1, <1>4, FrameTyped DEF FrameInv, Good
<1>6. Neat(c)
  <2>1. LabelFrames(control, label_counter) /\ 1 \in 1..Len(control)
    BY <1>2 DEF JumpInv
  <2>2. FrameNeat(f, label_counter)
    BY <1>1, <1>2, <2>1 DEF LabelFrames, Top
  <2> QED BY <1>1, <2>2 DEF FrameNeat
<1>7. Neat(code') /\ Temps(code') \subseteq Temps(c)
  BY <1>2, <1>5, <1>6, OptimizeKeeps
<1>8. OneType(code')
  BY <1>5, <1>7 DEF OneType, Sound
<1>9. \A a \in Temps(code') : a.no \in 1..temps'
  <2> SUFFICES ASSUME NEW a \in Temps(code') PROVE a.no \in 1..temps'
    OBVIOUS
  <2>1. a.no \in Nat /\ a.no \in Used(c)
    BY <1>7, TempsUsed
  <2> QED BY <1>2, <1>4, <1>5, <2>1
<1> QED BY <1>2, <1>4, <1>7, <1>8, <1>9 DEF JumpInv

LEMMA RunJumps ==
  ASSUME JumpInv, Run \/ Done \/ UNCHANGED vars
  PROVE  JumpInv'
<1>1. CASE Run
  <2>1. UNCHANGED gen_vars /\ pc # "gen" /\ pc' # "gen"
    BY <1>1 DEF Run, Mov, UMinus, Inc, Arith, Compare, WriteOut, ReadIn, Branch, Stuck, Fetch
  <2> QED BY <2>1 DEF JumpInv, gen_vars
<1>2. CASE Done \/ UNCHANGED vars
  BY <1>2 DEF Done, vars, gen_vars, JumpInv
<1> QED BY <1>1, <1>2

\* Every statement of the walk keeps the labels of the frames apart, and
\* optimize_ircode those of the code it makes.
THEOREM JumpInvariant == Spec => [](CodeInv /\ JumpInv)
<1>1. Init => JumpInv
  BY InitJumps
<1>2. CodeInv /\ CodeInv' /\ JumpInv /\ [Next]_vars => JumpInv'
  <2> SUFFICES ASSUME CodeInv, CodeInv', JumpInv, [Next]_vars PROVE JumpInv'
    OBVIOUS
  <2>1. CASE \E s \in input.stmts \cup {EndStmt} : Statement(s)
    <3>1. PICK s \in input.stmts \cup {EndStmt} : Statement(s)
      BY <2>1
    <3>2. CASE Assn(s) \/ Input(s) \/ Output(s)
      BY <3>2, PlainJumps
    <3>3. CASE While(s) \/ For(s) \/ Switch(s)
      BY <3>3, OpenJumps
    <3>4. CASE Case(s) \/ Default(s)
      BY <3>4, CaseJumps
    <3>5. CASE End(s)
      BY <3>5, EndJumps
    <3> QED BY <3>1, <3>2, <3>3, <3>4, <3>5 DEF Statement
  <2>2. CASE Finish
    BY <2>2, FinishJumps
  <2>3. CASE Run \/ Done \/ UNCHANGED vars
    BY <2>3, RunJumps
  <2> QED BY <2>1, <2>2, <2>3 DEF Next
<1> QED BY <1>1, <1>2, CodeInvariant, PTL DEF Spec

\* Every jump leads to a label, and to one only, in the code that runs and in
\* that of every loop and case still being compiled (codegen.c gives a label no
\* other statement has, and optimize_ircode drops none).
THEOREM EveryJumpLands == Spec => []JumpsLand
<1>1. ASSUME NEW c, Neat(c), NEW j \in DOMAIN c, c[j].op \in {"JUMP", "JUMP0", "JNE", "JG"}
      PROVE  Cardinality({k \in LabelsOf(c) : c[k].label = c[j].label}) = 1
  <2>1. c \in Codes /\ DOMAIN c = 1..Len(c)
    BY <1>1, LenProperties DEF Neat, Tidy, Codes
  <2>2. c[j].label \in LabelSet(c)
    BY <1>1, <2>1 DEF Neat, Tidy, Branches
  <2>3. PICK i \in 1..Len(c) : c[i].op = "LABEL" /\ c[i].label = c[j].label
    BY <2>2 DEF LabelSet
  <2>4. \A k \in 1..Len(c) : c[k].op = "LABEL" /\ c[k].label = c[j].label => k = i
    BY <1>1, <2>3 DEF Neat, Tidy
  <2>5. {k \in LabelsOf(c) : c[k].label = c[j].label} = {i}
    BY <2>1, <2>3, <2>4 DEF LabelsOf
  <2> QED BY <2>5, FS_Singleton
<1>2. CodeInv /\ JumpInv => JumpsLand
  <2> SUFFICES ASSUME CodeInv, JumpInv, NEW c \in {code} \cup {control[i].code : i \in DOMAIN control},
                      NEW j \in DOMAIN c, c[j].op \in {"JUMP", "JUMP0", "JNE", "JG"}
               PROVE  Neat(c)
    BY <1>1 DEF JumpsLand
  <2>1. CASE pc = "gen"
    <3>1. code = << >> /\ LabelFrames(control, label_counter)
      BY <2>1 DEF JumpInv
    <3>2. c # code
      BY <3>1
    <3>3. PICK i \in DOMAIN control : c = control[i].code
      BY <3>2
    <3>4. DOMAIN control = 1..Len(control)
      <4>1. PICK base : FramesInv(control, base, temps)
        BY <2>1 DEF CodeInv, GenInv
      <4> QED BY <4>1, LastFrame, LenProperties
    <3> QED BY <3>1, <3>3, <3>4 DEF LabelFrames, FrameNeat
  <2>2. CASE pc # "gen"
    BY <2>2 DEF JumpInv, CodeInv
  <2> QED BY <2>1, <2>2
<1> QED BY <1>2, JumpInvariant, PTL

-----------------------------------------------------------------------------
(* The program runs: every cell has a value of its type.                   *)

CellsOf(n) == 1..(IF Vars[n].size = 0 THEN 1 ELSE Vars[n].size)

MemInv == /\ DOMAIN mem = DOMAIN Vars
          /\ \A n \in DOMAIN Vars : mem[n] \in [CellsOf(n) -> ValuesOf(Vars[n].type)]

\* A temporary has the type of the instructions that use it.
TempInv == /\ \A t \in DOMAIN temp : temp[t] \in Word
           /\ pc # "gen" => /\ DOMAIN temp = 1..temps
                            /\ \A a \in Temps(code) : temp[a.no] \in ValuesOf(a.type)

RunInv == MemInv /\ TempInv /\ ip \in 1..(Len(code) + 1) /\ (pc = "gen" => ip = 1)

\* Words.
LEMMA WrapIsWord ==
  ASSUME NEW v \in Int
  PROVE  Wrap(v) \in Word
<1>1. MaxInt \in Nat \ {0}
  BY WordsAssumption
<1>2. PICK w, x : w = Words /\ x = v - MinInt
  OBVIOUS
<1>3. w \in Nat \ {0} /\ x \in Int /\ w = MaxInt + MaxInt + 2 /\ MinInt = -MaxInt - 1 /\ MinInt \in Int
  BY <1>1, <1>2 DEF Words, MinInt
<1>4. x % w \in 0..(w - 1)
  BY <1>3
<1>5. PICK r : r = x % w
  OBVIOUS
<1>6. Wrap(v) = r + MinInt
  BY <1>2, <1>5 DEF Wrap
<1> QED BY <1>1, <1>3, <1>4, <1>5, <1>6 DEF Word

LEMMA QuotientIsWord ==
  ASSUME NEW v \in Word, NEW w \in Word, w # 0, ~(Quotient(v, w) > MaxInt)
  PROVE  Quotient(v, w) \in Word
<1>1. MaxInt \in Nat \ {0}
  BY WordsAssumption
<1>2. PICK a, b : a = Abs(v) /\ b = Abs(w)
  OBVIOUS
<1>3. v \in Int /\ w \in Int
  BY <1>1 DEF Word, MinInt
<1>4. a \in Nat /\ b \in Nat \ {0} /\ a <= MaxInt + 1
  BY <1>1, <1>2 DEF Word, MinInt, Abs
<1>5. PICK q : q = a \div b
  OBVIOUS
<1>6. q \in Nat /\ q <= a
  <2>1. q \in Int /\ b * q <= a /\ a < b * q + b
    BY <1>4, <1>5
  <2>2. q >= 0
    <3> SUFFICES ASSUME q <= -1 PROVE FALSE
      BY <2>1
    <3>1. b * q <= b * (-1)
      BY <1>4, <2>1
    <3> QED BY <1>4, <2>1, <3>1
  <2>3. q <= b * q
    BY <1>4, <2>1, <2>2
  <2> QED BY <1>4, <2>1, <2>2, <2>3
<1>7. Quotient(v, w) = q \/ Quotient(v, w) = -q
  <2>1. Quotient(v, w) = q * (IF (v < 0) = (w < 0) THEN 1 ELSE -1)
    BY <1>2, <1>5 DEF Quotient
  <2> QED BY <1>6, <2>1
<1> QED BY <1>1, <1>4, <1>6, <1>7 DEF Word, MinInt

\* What an operand is while the code runs.
Operands == {Instr.res, Instr.arg1, Instr.arg2}

LEMMA Fetched ==
  ASSUME JumpInv, RunInv, pc # "gen", ip \in DOMAIN code
  PROVE  /\ code \in Codes /\ DOMAIN code = 1..Len(code) /\ Len(code) \in Nat
         /\ Instr \in Instrs /\ ip + 1 \in 1..(Len(code) + 1)
         /\ \A a \in Operands : a \in Addrs /\ (a.kind = "temp" => a \in Temps(code))
<1>1. code \in Codes
  BY DEF JumpInv, Neat, Tidy
<1>2. DOMAIN code = 1..Len(code) /\ Len(code) \in Nat
  BY <1>1, InCode, LenProperties DEF Codes
<1>3. PICK I : I = code[ip]
  OBVIOUS
<1>4. ip \in 1..Len(code) /\ I \in Instrs
  BY <1>1, <1>2, <1>3, InCode
<1>5. I.res \in Addrs /\ I.arg1 \in Addrs /\ I.arg2 \in Addrs
  BY <1>4, InstrTyped
<1>6. ASSUME NEW a \in {I.res, I.arg1, I.arg2} PROVE a \in Addrs /\ (a.kind = "temp" => a \in Temps(code))
  <2>1. a \in Addrs
    BY <1>5
  <2>2. a.kind = "temp" => a \in TempAddrs
    BY <2>1, KindOf
  <2> QED BY <1>3, <1>4, <2>1, <2>2 DEF Temps
<1>7. Instr = I
  BY <1>3 DEF Instr
<1> QED BY <1>1, <1>2, <1>4, <1>6, <1>7 DEF Operands

\* Reading.
LEMMA ValueTyped ==
  ASSUME RunInv, pc # "gen", NEW a \in Terms, a.kind = "temp" => a \in Temps(code), Mapped(a)
  PROVE  Value(a) \in ValuesOf(AddrType(a)) /\ Value(a) \in Word /\ Value(a) \in Int
<1>1. AddrType(a) \in Types
  <2>1. \A n \in DOMAIN Vars : Vars[n].type \in Types
    BY VarsAssumption
  <2> QED BY <2>1 DEF Terms, Cells, VarAddrs, ArrAddrs, TempAddrs, ConstAddrs, AddrType
<1>2. a \in Addrs
  BY DEF Addrs
<1>3. CASE a.kind = "const"
  <2>1. a \in ConstAddrs
    BY <1>2, <1>3, KindOf
  <2> QED BY <1>1, <1>3, <2>1, ValuesAreInts DEF Value, AddrType, ConstAddrs
<1>4. CASE a.kind = "temp"
  BY <1>1, <1>4, ValuesAreInts DEF Value, AddrType, RunInv, TempInv
<1>5. CASE a.kind \in {"var", "arr"}
  <2>1. a.name \in DOMAIN Vars /\ AddrType(a) = Vars[a.name].type
    BY <1>2, <1>5, KindOf DEF VarAddrs, ArrAddrs, AddrType
  <2>2. Vars[a.name].size \in Nat
    BY <2>1, VarsAssumption
  <2>3. mem[a.name] \in [CellsOf(a.name) -> ValuesOf(Vars[a.name].type)]
    BY <2>1 DEF RunInv, MemInv
  <2>4. IndexOf(a) \in CellsOf(a.name)
    <3>1. CASE a.kind = "var"
      <4>1. IndexOf(a) = 1
        BY <3>1 DEF IndexOf
      <4> QED BY <2>2, <4>1 DEF CellsOf
    <3>2. CASE a.kind = "arr"
      BY <2>3, <3>2 DEF Mapped
    <3> QED BY <1>5, <3>1, <3>2
  <2>5. Value(a) = mem[a.name][IndexOf(a)]
    BY <1>5 DEF Value
  <2> QED BY <1>1, <2>1, <2>3, <2>4, <2>5, ValuesAreInts
<1> QED BY <1>2, <1>3, <1>4, <1>5, KindOf DEF NULL, Terms, Cells, VarAddrs, TempAddrs, ConstAddrs, ArrAddrs

\* Writing.
LEMMA StoreTyped ==
  ASSUME RunInv, JumpInv, pc # "gen", pc' # "gen", UNCHANGED <<code, temps>>, NEW a \in Cells, a.kind = "temp" => a \in Temps(code),
         Mapped(a), NEW v \in ValuesOf(AddrType(a)), Store(a, v)
  PROVE  MemInv' /\ TempInv'
<1>1. a \in Addrs
  BY DEF Addrs, Terms
<1>2. CASE a.kind = "temp"
  <2>1. temp' = [temp EXCEPT ![a.no] = v] /\ mem' = mem /\ DOMAIN temp = 1..temps
    BY <1>2 DEF Store, RunInv, TempInv
  <2>2. a.no \in 1..temps /\ a \in Temps(code)
    BY <1>2 DEF JumpInv
  <2>3. AddrType(a) = a.type /\ a.type \in Types
    BY <1>1, <1>2, TempNumber DEF AddrType
  <2>4. v \in Word
    BY <2>3, ValuesAreInts
  <2>5. \A t \in DOMAIN temp' : temp'[t] \in Word
    BY <2>1, <2>4 DEF RunInv, TempInv
  <2>6. ASSUME NEW b \in Temps(code) PROVE temp'[b.no] \in ValuesOf(b.type)
    <3>1. CASE b.no = a.no
      <4>1. b = a
        BY <2>2, <3>1 DEF JumpInv, OneType
      <4> QED BY <2>1, <2>2, <2>3, <4>1
    <3>2. CASE b.no # a.no
      <4>1. b.no \in 1..temps
        BY DEF JumpInv
      <4> QED BY <2>1, <3>2, <4>1 DEF RunInv, TempInv
    <3> QED BY <3>1, <3>2
  <2>7. DOMAIN temp' = 1..temps
    BY <2>1
  <2>8. MemInv'
    BY <2>1 DEF RunInv, MemInv
  <2> QED BY <2>5, <2>6, <2>7, <2>8 DEF TempInv
<1>3. CASE a.kind # "temp"
  <2>1. mem' = [mem EXCEPT ![a.name][IndexOf(a)] = v] /\ temp' = temp
    BY <1>3 DEF Store
  <2>2. a.kind \in {"var", "arr"} /\ a.name \in DOMAIN Vars /\ AddrType(a) = Vars[a.name].type
    BY <1>1, <1>3 DEF Cells, VarAddrs, ArrAddrs, TempAddrs, AddrType
  <2>3. PICK n, k : n = a.name /\ k = IndexOf(a)
    OBVIOUS
  <2>4. DOMAIN mem' = DOMAIN mem /\ \A m \in DOMAIN Vars : mem'[m] = IF m = n THEN [mem[n] EXCEPT ![k] = v] ELSE mem[m]
    BY <2>1, <2>3 DEF RunInv, MemInv
  <2>5. v \in ValuesOf(Vars[n].type)
    BY <2>2, <2>3
  <2>6. \A m \in DOMAIN Vars : mem'[m] \in [CellsOf(m) -> ValuesOf(Vars[m].type)]
    <3> SUFFICES ASSUME NEW m \in DOMAIN Vars PROVE mem'[m] \in [CellsOf(m) -> ValuesOf(Vars[m].type)]
      OBVIOUS
    <3>1. mem[m] \in [CellsOf(m) -> ValuesOf(Vars[m].type)]
      BY DEF RunInv, MemInv
    <3>2. CASE m = n
      BY <2>4, <2>5, <3>1, <3>2
    <3>3. CASE m # n
      BY <2>4, <3>1, <3>3
    <3> QED BY <3>2, <3>3
  <2>7. MemInv'
    BY <2>4, <2>6 DEF RunInv, MemInv
  <2>8. TempInv'
    BY <2>1 DEF RunInv, TempInv
  <2> QED BY <2>7, <2>8
<1> QED BY <1>2, <1>3

\* The operands of the instruction that is executed are mapped.
LEMMA ArgTyped ==
  ASSUME JumpInv, RunInv, pc # "gen", ip \in DOMAIN code, Executable, NEW a \in Operands, a \in Terms
  PROVE  Value(a) \in ValuesOf(AddrType(a)) /\ Value(a) \in Word /\ Value(a) \in Int
<1>1. a.kind = "temp" => a \in Temps(code)
  BY Fetched
<1>2. Mapped(a)
  BY DEF Executable, Operands
<1> QED BY <1>1, <1>2, ValueTyped

LEMMA ResultTyped ==
  ASSUME JumpInv, RunInv, NEW ops, Fetch(ops), Instr.res \in Cells, NEW v \in ValuesOf(AddrType(Instr.res)), Store(Instr.res, v), Step
  PROVE  RunInv'
<1>1. PICK r : r = Instr.res
  OBVIOUS
<1>2. pc = "run" /\ pc' = "run" /\ ip \in DOMAIN code /\ Executable /\ UNCHANGED <<code, temps>> /\ ip' = ip + 1
  BY DEF Fetch, Step, gen_vars
<1>3. r \in Operands
  BY <1>1 DEF Operands
<1>4. r.kind = "temp" => r \in Temps(code)
  BY <1>2, <1>3, Fetched
<1>5. Mapped(r)
  BY <1>1, <1>2 DEF Executable
<1>6. r \in Cells /\ v \in ValuesOf(AddrType(r)) /\ Store(r, v)
  BY <1>1
<1>7. MemInv' /\ TempInv'
  BY <1>2, <1>4, <1>5, <1>6, StoreTyped
<1>8. ip' \in 1..(Len(code') + 1)
  BY <1>2, Fetched
<1> QED BY <1>2, <1>7, <1>8 DEF RunInv

\* What is computed is of the type of the result.
LEMMA OpcodeTyped ==
  ASSUME NEW op \in {"PLUS", "MINUS", "MUL", "DIV", "AND", "OR"}, NEW v \in Word, NEW w \in Word,
         op = "DIV" => w # 0 /\ ~(Quotient(v, w) > MaxInt)
  PROVE  Opcode(op, v, w) \in ValuesOf(ResultType(op))
<1>1. v \in Int /\ w \in Int /\ v + w \in Int /\ v - w \in Int /\ v * w \in Int
  <2>1. MaxInt \in Nat \ {0}
    BY WordsAssumption
  <2> QED BY <2>1 DEF Word, MinInt
<1>2. ValuesOf("integer") = Word /\ ValuesOf("boolean") = {0, 1}
  BY DEF ValuesOf
<1>3. CASE op \in {"PLUS", "MINUS", "MUL"}
  <2>1. \E x \in Int : Opcode(op, v, w) = Wrap(x)
    BY <1>1, <1>3 DEF Opcode
  <2>2. Opcode(op, v, w) \in Word
    BY <2>1, WrapIsWord
  <2> QED BY <1>2, <1>3, <2>2 DEF ResultType
<1>4. CASE op = "DIV"
  <2>1. Opcode(op, v, w) = Quotient(v, w)
    BY <1>4 DEF Opcode
  <2>2. Quotient(v, w) \in Word
    BY <1>4, QuotientIsWord
  <2> QED BY <1>2, <1>4, <2>1, <2>2 DEF ResultType
<1>5. CASE op \in {"AND", "OR"}
  <2>1. Opcode(op, v, w) \in {0, 1}
    BY <1>5 DEF Opcode
  <2> QED BY <1>2, <1>5, <2>1 DEF ResultType
<1> QED BY <1>3, <1>4, <1>5

LEMMA ComputeStep ==
  ASSUME JumpInv, RunInv, Mov \/ UMinus \/ Inc \/ Arith \/ Compare
  PROVE  RunInv'
<1>1. PICK I, r, a, b : I = Instr /\ r = I.res /\ a = I.arg1 /\ b = I.arg2
  OBVIOUS
<1>2. pc = "run" /\ ip \in DOMAIN code /\ Executable /\ I \in Instrs
  <2>1. pc = "run" /\ ip \in DOMAIN code /\ Executable
    BY DEF Mov, UMinus, Inc, Arith, Compare, Fetch
  <2> QED BY <1>1, <2>1, Fetched
<1>3. Fit(I.op, r, a, b)
  BY <1>1, <1>2, InstrTyped
<1>4. \A x \in {r, a, b} : x \in Terms => Value(x) \in ValuesOf(AddrType(x)) /\ Value(x) \in Word /\ Value(x) \in Int
  <2>1. {r, a, b} = Operands
    BY <1>1 DEF Operands
  <2> QED BY <1>2, <2>1, ArgTyped
<1>5. ValuesOf("integer") = Word /\ ValuesOf("boolean") = {0, 1}
  BY DEF ValuesOf
<1>6. CASE Mov
  <2>1. I.op = "MOV" /\ Fetch({"MOV"}) /\ Store(r, Value(a)) /\ Step
    BY <1>1, <1>6 DEF Mov, Fetch
  <2>2. r \in Cells /\ a \in Terms /\ AddrType(r) = AddrType(a)
    BY <1>3, <2>1 DEF Fit
  <2>3. Value(a) \in ValuesOf(AddrType(r))
    BY <1>4, <2>2
  <2> QED BY <1>1, <2>1, <2>2, <2>3, ResultTyped
<1>7. CASE UMinus
  <2>1. I.op = "UMINUS" /\ Fetch({"UMINUS"}) /\ Store(r, Wrap(0 - Value(a))) /\ Step
    BY <1>1, <1>7 DEF UMinus, Fetch
  <2>2. r \in Cells /\ AddrType(r) = "integer" /\ a \in Terms
    BY <1>3, <2>1 DEF Fit
  <2>3. Wrap(0 - Value(a)) \in ValuesOf(AddrType(r))
    <3>1. 0 - Value(a) \in Int
      BY <1>4, <2>2
    <3> QED BY <1>5, <2>2, <3>1, WrapIsWord
  <2> QED BY <1>1, <2>1, <2>2, <2>3, ResultTyped
<1>8. CASE Inc
  <2>1. I.op = "INC" /\ Fetch({"INC"}) /\ Store(r, Wrap(Value(r) + 1)) /\ Step
    BY <1>1, <1>8 DEF Inc, Fetch
  <2>2. r \in Cells /\ AddrType(r) = "integer" /\ r \in Terms
    BY <1>3, <2>1 DEF Fit, Terms
  <2>3. Wrap(Value(r) + 1) \in ValuesOf(AddrType(r))
    <3>1. Value(r) + 1 \in Int
      BY <1>4, <2>2
    <3> QED BY <1>5, <2>2, <3>1, WrapIsWord
  <2> QED BY <1>1, <2>1, <2>2, <2>3, ResultTyped
<1>9. CASE Arith
  <2>1. /\ I.op \in {"PLUS", "MINUS", "MUL", "DIV", "AND", "OR"} /\ Fetch({"PLUS", "MINUS", "MUL", "DIV", "AND", "OR"})
        /\ Store(r, Opcode(I.op, Value(a), Value(b))) /\ Step
    BY <1>1, <1>9 DEF Arith, Fetch
  <2>2. r \in Cells /\ AddrType(r) = ResultType(I.op) /\ a \in Terms /\ b \in Terms
    BY <1>3, <2>1 DEF Fit, Operators
  <2>3. I.op = "DIV" => Value(b) # 0 /\ ~(Quotient(Value(a), Value(b)) > MaxInt)
    BY <1>1, <1>2 DEF Executable, Traps
  <2>4. PICK v, w : v = Value(a) /\ w = Value(b)
    OBVIOUS
  <2>5. v \in Word /\ w \in Word
    BY <1>4, <2>2, <2>4
  <2>6. Opcode(I.op, v, w) \in ValuesOf(AddrType(r))
    <3>1. Opcode(I.op, v, w) \in ValuesOf(ResultType(I.op))
      BY <2>1, <2>3, <2>4, <2>5, OpcodeTyped
    <3> QED BY <2>2, <3>1
  <2>7. Store(r, Opcode(I.op, v, w))
    BY <2>1, <2>4
  <2> QED BY <1>1, <2>1, <2>2, <2>6, <2>7, ResultTyped
<1>10. CASE Compare
  <2>1. PICK v \in {0, 1} : /\ I.op \in {"EQ", "NE", "LT", "LE", "GT", "GE"} /\ Fetch({"EQ", "NE", "LT", "LE", "GT", "GE"})
                            /\ Store(r, v) /\ Step
    <3>1. PICK v : v = IF SetCode(I.op, Value(a), Value(b)) THEN 1 ELSE 0
      OBVIOUS
    <3>2. v \in {0, 1}
      BY <3>1
    <3>3. I.op \in {"EQ", "NE", "LT", "LE", "GT", "GE"} /\ Fetch({"EQ", "NE", "LT", "LE", "GT", "GE"}) /\ Store(r, v) /\ Step
      BY <1>1, <1>10, <3>1 DEF Compare, Fetch
    <3> QED BY <3>2, <3>3
  <2>2. r \in Cells /\ AddrType(r) = "boolean"
    BY <1>3, <2>1 DEF Fit, Operators, ResultType
  <2>3. v \in ValuesOf(AddrType(r))
    BY <1>5, <2>1, <2>2
  <2> QED BY <1>1, <2>1, <2>2, <2>3, ResultTyped
<1> QED BY <1>6, <1>7, <1>8, <1>9, <1>10

\* Output changes no cell, and what is read is of the type of the variable.
LEMMA MoveTyped ==
  ASSUME JumpInv, RunInv, WriteOut \/ ReadIn
  PROVE  RunInv'
<1>1. PICK I : I = Instr
  OBVIOUS
<1>2. pc = "run" /\ pc' = "run" /\ ip \in DOMAIN code /\ UNCHANGED <<code, temps, temp>> /\ ip' = ip + 1
  BY DEF WriteOut, ReadIn, Fetch, gen_vars, Step
<1>3. ip' \in 1..(Len(code') + 1) /\ I \in Instrs
  BY <1>1, <1>2, Fetched
<1>4. TempInv'
  BY <1>2 DEF RunInv, TempInv
<1>5. CASE WriteOut
  <2>1. MemInv'
    BY <1>5 DEF WriteOut, RunInv, MemInv
  <2> QED BY <1>2, <1>3, <1>4, <2>1 DEF RunInv
<1>6. CASE ReadIn
  <2>1. I.op = "INPUT"
    BY <1>1, <1>6 DEF ReadIn, Fetch
  <2>2. PICK n : n = I.res.name
    OBVIOUS
  <2>3. n \in DOMAIN Vars
    <3>1. Fit(I.op, I.res, I.arg1, I.arg2)
      BY <1>3, InstrTyped
    <3>2. I.res \in VarAddrs
      BY <2>1, <3>1 DEF Fit
    <3> QED BY <2>2, <3>2 DEF VarAddrs
  <2>4. PICK f \in [DOMAIN mem[n] -> Values] :
          mem' = [mem EXCEPT ![n] = IF Vars[n].type = "boolean" THEN [k \in DOMAIN f |-> IF f[k] = 0 THEN 0 ELSE 1] ELSE f]
    BY <1>1, <1>6, <2>2, Zenon DEF ReadIn
  <2>5. PICK g : g = IF Vars[n].type = "boolean" THEN [k \in DOMAIN f |-> IF f[k] = 0 THEN 0 ELSE 1] ELSE f
    OBVIOUS
  <2>6. mem' = [mem EXCEPT ![n] = g]
    BY <2>4, <2>5, Zenon
  <2>7. DOMAIN mem[n] = CellsOf(n) /\ DOMAIN mem = DOMAIN Vars
    BY <2>3 DEF RunInv, MemInv
  <2>8. Values \subseteq Word
    BY WordsAssumption
  <2>9. g \in [CellsOf(n) -> ValuesOf(Vars[n].type)]
    <3>1. CASE Vars[n].type = "boolean"
      <4>1. g = [k \in DOMAIN f |-> IF f[k] = 0 THEN 0 ELSE 1]
        BY <2>5, <3>1
      <4> QED BY <2>4, <2>7, <3>1, <4>1 DEF ValuesOf
    <3>2. CASE Vars[n].type # "boolean"
      <4>1. g = f
        BY <2>5, <3>2
      <4> QED BY <2>4, <2>7, <2>8, <3>2, <4>1 DEF ValuesOf
    <3> QED BY <3>1, <3>2
  <2>10. DOMAIN mem' = DOMAIN Vars /\ \A m \in DOMAIN Vars : mem'[m] = IF m = n THEN g ELSE mem[m]
    BY <2>6, <2>7
  <2>11. MemInv'
    BY <2>9, <2>10 DEF RunInv, MemInv
  <2> QED BY <1>2, <1>3, <1>4, <2>11 DEF RunInv
<1> QED BY <1>5, <1>6

\* A jump is to an instruction there is.
LEMMA BranchTyped ==
  ASSUME JumpInv, RunInv, Branch
  PROVE  RunInv'
<1>1. PICK I : I = Instr
  OBVIOUS
<1>2. /\ pc = "run" /\ pc' = "run" /\ ip \in DOMAIN code /\ UNCHANGED <<code, temps, temp, mem>>
      /\ I.op \in {"LABEL", "JUMP", "JUMP0", "JNE", "JG"}
  BY <1>1 DEF Branch, Fetch, gen_vars
<1>3. code \in Codes /\ DOMAIN code = 1..Len(code) /\ Len(code) \in Nat /\ ip + 1 \in 1..(Len(code) + 1)
  BY <1>2, Fetched
<1>4. Jumps => Target \in 1..(Len(code) + 1)
  <2> SUFFICES ASSUME Jumps PROVE Target \in 1..(Len(code) + 1)
    OBVIOUS
  <2>1. I.op # "LABEL"
    BY <1>1 DEF Jumps
  <2>2. I.op \in Branches
    BY <1>2, <2>1 DEF Branches
  <2>3. Neat(code) /\ ip \in 1..Len(code)
    BY <1>2, <1>3 DEF JumpInv
  <2>4. I.label \in LabelSet(code)
    BY <1>1, <2>2, <2>3 DEF Neat, Tidy, Instr
  <2>5. \E j \in DOMAIN code : code[j].op = "LABEL" /\ code[j].label = Instr.label
    BY <1>1, <1>3, <2>4 DEF LabelSet
  <2>6. Target \in DOMAIN code
    BY <2>5 DEF Target
  <2> QED BY <1>3, <2>6
<1>5. ip' = IF Jumps THEN Target ELSE ip + 1
  BY DEF Branch
<1>6. ip' \in 1..(Len(code') + 1)
  BY <1>2, <1>3, <1>4, <1>5
<1>7. MemInv' /\ TempInv'
  BY <1>2 DEF RunInv, MemInv, TempInv
<1> QED BY <1>2, <1>6, <1>7 DEF RunInv

\* Memory begins with zeros, values of both types.
LEMMA InitTyped ==
  ASSUME Init
  PROVE  RunInv
<1>1. mem = [n \in DOMAIN Vars |-> [k \in CellsOf(n) |-> 0]] /\ temp = [t \in {} |-> 0] /\ ip = 1 /\ pc = "gen" /\ code = << >>
  BY DEF Init, CellsOf
<1>2. 0 \in ValuesOf("integer") /\ 0 \in ValuesOf("boolean")
  <2>1. MaxInt \in Nat \ {0}
    BY WordsAssumption
  <2> QED BY <2>1 DEF ValuesOf, Word, MinInt
<1>3. \A n \in DOMAIN Vars : 0 \in ValuesOf(Vars[n].type)
  BY <1>2 DEF ValuesOf
<1>4. MemInv
  BY <1>1, <1>3 DEF MemInv
<1>5. TempInv
  BY <1>1 DEF TempInv
<1>6. ip \in 1..(Len(code) + 1)
  <2>1. Len(code) = 0
    BY <1>1
  <2> QED BY <1>1, <2>1
<1> QED BY <1>1, <1>4, <1>5, <1>6 DEF RunInv

LEMMA FinishTyped ==
  ASSUME JumpInv, JumpInv', RunInv, Finish
  PROVE  RunInv'
<1>1. pc = "gen" /\ pc' = "run" /\ temps' = temps /\ temp' = [t \in 1..temps |-> 0] /\ ip' = ip /\ mem' = mem /\ temps \in Nat
  BY DEF Finish, JumpInv
<1>2. 0 \in Word /\ \A y \in Types : 0 \in ValuesOf(y)
  <2>1. MaxInt \in Nat \ {0}
    BY WordsAssumption
  <2> QED BY <2>1 DEF Types, ValuesOf, Word, MinInt
<1>3. Neat(code') /\ \A a \in Temps(code') : a.no \in 1..temps
  BY <1>1 DEF JumpInv
<1>4. \A a \in Temps(code') : a.type \in Types
  BY DEF Temps, TempAddrs
<1>5. \A a \in Temps(code') : temp'[a.no] \in ValuesOf(a.type)
  BY <1>1, <1>2, <1>3, <1>4
<1>6. TempInv'
  BY <1>1, <1>2, <1>5 DEF TempInv
<1>7. MemInv'
  BY <1>1 DEF RunInv, MemInv
<1>8. ip' \in 1..(Len(code') + 1)
  <2>1. code' \in Codes
    BY <1>3 DEF Neat, Tidy
  <2>2. Len(code') \in Nat
    BY <2>1, LenProperties DEF Codes
  <2> QED BY <1>1, <2>2 DEF RunInv
<1> QED BY <1>1, <1>6, <1>7, <1>8 DEF RunInv

\* While code is made no cell changes.
LEMMA WalkIdle ==
  ASSUME RunInv, NEW s, Statement(s)
  PROVE  RunInv'
<1>1. Walk(s)
  BY DEF Statement, Assn, Input, Output, While, For, Switch, Case, Default, NextCase, End
<1>2. UNCHANGED <<pc, code, ip, mem, temp>> /\ pc = "gen"
  BY <1>1 DEF Walk, run_vars
<1> QED BY <1>2 DEF RunInv, MemInv, TempInv

LEMMA RunKeeps ==
  ASSUME JumpInv, RunInv, Run
  PROVE  RunInv'
<1>1. CASE Mov \/ UMinus \/ Inc \/ Arith \/ Compare
  BY <1>1, ComputeStep
<1>2. CASE WriteOut \/ ReadIn
  BY <1>2, MoveTyped
<1>3. CASE Branch
  BY <1>3, BranchTyped
<1>4. CASE Stuck
  <2>1. pc = "run" /\ pc' = "stuck" /\ UNCHANGED <<code, temps, ip, mem, temp>>
    BY <1>4 DEF Stuck, gen_vars, run_vars
  <2> QED BY <2>1 DEF RunInv, MemInv, TempInv
<1> QED BY <1>1, <1>2, <1>3, <1>4 DEF Run

\* Whatever a program is made of and whatever it reads, every variable, every
\* element of an array and every temporary keeps a value of its type while it
\* runs, and the next instruction is one of the code.
THEOREM RunInvariant == Spec => [](CodeInv /\ JumpInv /\ RunInv)
<1>1. Init => RunInv
  BY InitTyped
<1>2. CodeInv /\ JumpInv /\ JumpInv' /\ RunInv /\ [Next]_vars => RunInv'
  <2> SUFFICES ASSUME CodeInv, JumpInv, JumpInv', RunInv, [Next]_vars PROVE RunInv'
    OBVIOUS
  <2>1. CASE \E s \in input.stmts \cup {EndStmt} : Statement(s)
    BY <2>1, WalkIdle
  <2>2. CASE Finish
    BY <2>2, FinishTyped
  <2>3. CASE Run
    BY <2>3, RunKeeps
  <2>4. CASE Done \/ UNCHANGED vars
    <3>1. UNCHANGED <<pc, code, temps, ip, mem, temp>>
      BY <2>4 DEF Done, vars, gen_vars, run_vars
    <3> QED BY <3>1 DEF RunInv, MemInv, TempInv
  <2> QED BY <2>1, <2>2, <2>3, <2>4 DEF Next
<1> QED BY <1>1, <1>2, JumpInvariant, PTL DEF Spec

\* The types of codegen's operands are those of what compile_x86.c puts there.
THEOREM TypeCorrect == Spec => []TypeOK
<1>1. CodeInv /\ JumpInv /\ RunInv => TypeOK
  <2> SUFFICES ASSUME CodeInv, JumpInv, RunInv PROVE TypeOK
    OBVIOUS
  <2>1. pc \in {"gen", "run", "stuck"} /\ label_counter \in Nat /\ temps \in Nat /\ ip \in 1..(Len(code) + 1)
    BY DEF CodeInv, JumpInv, RunInv
  <2>2. pc = "gen" => control # << >> /\ code = << >>
    BY DEF CodeInv, GenInv, FramesInv, JumpInv
  <2>3. \A n \in DOMAIN mem : \A k \in DOMAIN mem[n] : mem[n][k] \in ValuesOf(Vars[n].type)
    <3> SUFFICES ASSUME NEW n \in DOMAIN mem, NEW k \in DOMAIN mem[n] PROVE mem[n][k] \in ValuesOf(Vars[n].type)
      OBVIOUS
    <3>1. mem[n] \in [CellsOf(n) -> ValuesOf(Vars[n].type)]
      BY DEF RunInv, MemInv
    <3> QED BY <3>1
  <2>4. \A t \in DOMAIN temp : temp[t] \in Word
    BY DEF RunInv, TempInv
  <2> QED BY <2>1, <2>2, <2>3, <2>4 DEF TypeOK
<1> QED BY <1>1, RunInvariant, PTL
=============================================================================
