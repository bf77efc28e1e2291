------------------------------ MODULE Codegen -------------------------------
(***************************************************************************)
(* The code generator: codegen.c makes three-address code (IRCode) of the  *)
(* statements of the driver, in the order compile_node comes back from     *)
(* them; optimize_ircode shortens it; and the machine instructions that    *)
(* compile_x86.c makes of every instruction are what it does when run.     *)
(*                                                                         *)
(* An input gives the statements of a program that has no errors and their *)
(* number; the program is chosen statement by statement, a Case, Default   *)
(* or End at a time, and recorded.  Variables are those entries of the     *)
(* symbol tables that exist; SymbolDB has their places in memory.          *)
(***************************************************************************)
EXTENDS Integers, SequencesExt

CONSTANTS Vars,    \* variable -> [type, size]
          Exprs,   \* expressions, with every expression their subexpressions
          Depth,   \* expression -> how deep it is nested
          Inputs,  \* [stmts, max]: statements, and how many of them at most
          Values,  \* what may be read
          MaxInt   \* the largest word

Types     == {"integer", "boolean"}
Operators == {"PLUS", "MINUS", "MUL", "DIV", "AND", "OR", "EQ", "NE", "LT", "LE", "GT", "GE"}

MinInt == -(MaxInt + 1)
Words  == 2 * (MaxInt + 1)
Word   == MinInt..MaxInt

ASSUME WordsAssumption == MaxInt \in Nat \ {0} /\ Values \subseteq Word

ASSUME VarsAssumption == \A n \in DOMAIN Vars : Vars[n].type \in Types /\ Vars[n].size \in Nat

\* What the AST construction makes of an expression: the index of an element is a
\* variable or a number (data/grammar.txt:40).
ASSUME ExprsAssumption ==
  /\ Depth \in [Exprs -> Nat]
  /\ \A p \in Exprs :
       CASE p.node = "BOp"   -> p.op \in Operators /\ \A e \in {p.arg1, p.arg2} : e \in Exprs /\ Depth[e] < Depth[p]
         [] p.node = "UOp"   -> p.arg \in Exprs /\ Depth[p.arg] < Depth[p]
         [] p.node = "Deref" -> p.name \in DOMAIN Vars /\ p.index \in Exprs /\ Depth[p.index] < Depth[p]
                                /\ p.index.node \in {"Var", "Num"}
         [] p.node = "Var"   -> p.name \in DOMAIN Vars
         [] OTHER            -> p.node \in {"Num", "Bool"} /\ p.val \in Int /\ p.type \in Types

\* And of a statement: what is printed is a variable, an element or a number
\* (data/grammar.txt:52).
ASSUME StatementsAssumption ==
  \A inp \in Inputs : \A s \in inp.stmts :
    CASE s.node = "Assn"   -> s.target \in Exprs /\ s.target.node \in {"Var", "Deref"} /\ s.expr \in Exprs
      [] s.node = "While"  -> s.cond \in Exprs
      [] s.node = "Output" -> s.var \in Exprs /\ s.var.node \in {"Var", "Deref", "Num"}
      [] s.node = "For"    -> s.name \in DOMAIN Vars /\ s.beg \in Int /\ s.end \in Int
      [] s.node = "Case"   -> s.val.val \in Int /\ s.val.type \in Types
      [] s.node \in {"Input", "Switch"} -> s.name \in DOMAIN Vars
      [] OTHER             -> s.node = "Default"

\* The types compile_node gives to expressions, and those it wants of them
\* (get_composite_type, compiler.c:56); an array is no operand.
ResultType(op) == IF op \in {"PLUS", "MINUS", "MUL", "DIV"} THEN "integer" ELSE "boolean"
TypeOfExpr(p)  == CASE p.node \in {"Var", "Deref"} -> Vars[p.name].type
                    [] p.node = "BOp"              -> ResultType(p.op)
                    [] p.node = "UOp"              -> "integer"
                    [] OTHER                       -> p.type
Is(p, type)    == TypeOfExpr(p) = type /\ (p.node = "Var" => Vars[p.name].size = 0)
ArgType(op)    == IF op \in {"AND", "OR"} THEN "boolean" ELSE "integer"

ASSUME TypesAssumption ==
  /\ \A p \in Exprs :
       /\ p.node = "BOp"   => Is(p.arg1, ArgType(p.op)) /\ Is(p.arg2, ArgType(p.op))
       /\ p.node = "UOp"   => Is(p.arg, "integer")
       /\ p.node = "Deref" => Is(p.index, "integer")
  /\ \A inp \in Inputs : \A s \in inp.stmts :
       /\ s.node = "Assn"  => TypeOfExpr(s.target) = TypeOfExpr(s.expr)
       /\ s.node = "While" => Is(s.cond, "boolean")
       /\ s.node = "For"   => Vars[s.name].type = "integer" /\ Vars[s.name].size = 0
       /\ s.node = "Switch" => Vars[s.name].size = 0

\* Literals are words: what is left of larger ones is not modelled.
ValuesOf(type) == IF type = "boolean" THEN {0, 1} ELSE Word

ASSUME LiteralsAssumption ==
  /\ \A p \in Exprs : p.node \in {"Num", "Bool"} => p.val \in ValuesOf(p.type)
  /\ \A inp \in Inputs : \A s \in inp.stmts :
       /\ s.node = "For"  => s.beg \in Word /\ s.end \in Word
       /\ s.node = "Case" => s.val.val \in ValuesOf(s.val.type)

NULL == [kind |-> "null"]

VARIABLES
  input, prog,    \* the program
  pc,             \* "gen", "run" or "stuck"
  control,        \* the statements being compiled, innermost last
  label_counter,
  temps,          \* the number of ADDR_TEMPs
  code,           \* the code of the driver
  ip,             \* the next of its instructions
  mem, temp,      \* memory: variables and temporaries
  out             \* what was printed last, and whether at an odd time

gen_vars == <<input, prog, control, label_counter, temps, code>>
run_vars == <<ip, mem, temp, out>>
vars     == <<gen_vars, pc, run_vars>>

-----------------------------------------------------------------------------
(* Operands (AddrNode) and instructions (IRInstr).  at is the statement an *)
(* instruction is for, which the program does not keep.                    *)

VarAddr(n)         == [kind |-> "var", name |-> n]
TempAddr(t, type)  == [kind |-> "temp", no |-> t, type |-> type]
ConstAddr(v, type) == [kind |-> "const", val |-> v, type |-> type]
ArrAddr(n, i)      == [kind |-> "arr", name |-> n, index |-> i]

irinstr_new4(op, res, arg1, arg2, label) ==
  [op |-> op, res |-> res, arg1 |-> arg1, arg2 |-> arg2, label |-> label, at |-> <<0, "">>]
irinstr_new3(op, label)          == irinstr_new4(op, NULL, NULL, NULL, label)
irinstr_new2(op, res, arg1, arg2) == irinstr_new4(op, res, arg1, arg2, 0)

AtPlace(place, instrs) == [i \in DOMAIN instrs |-> [instrs[i] EXCEPT !.at = place]]

-----------------------------------------------------------------------------
(* Expressions: the code and the operand of p, when t temporaries exist.   *)

Operand(addr, t) == [code |-> << >>, addr |-> addr, temps |-> t]

BOp(op, a, b) ==
  LET res == TempAddr(b.temps + 1, ResultType(op))
  IN  [code |-> a.code \o b.code \o <<irinstr_new2(op, res, a.addr, b.addr)>>, addr |-> res, temps |-> b.temps + 1]

\* The operator is not looked at.
UOp(a) ==
  LET res == TempAddr(a.temps + 1, "integer")
  IN  [code |-> Append(a.code, irinstr_new2("UMINUS", res, a.addr, NULL)), addr |-> res, temps |-> a.temps + 1]

compile_expr[p \in Exprs] == [t \in Nat |->
  CASE p.node = "BOp"   -> LET a == compile_expr[p.arg1][t] IN BOp(p.op, a, compile_expr[p.arg2][a.temps])
    [] p.node = "UOp"   -> UOp(compile_expr[p.arg][t])
    [] p.node = "Deref" -> Operand(ArrAddr(p.name, compile_expr[p.index][t].addr), t)
    [] p.node = "Var"   -> Operand(VarAddr(p.name), t)
    [] OTHER            -> Operand(ConstAddr(p.val, p.type), t)]

-----------------------------------------------------------------------------
(* The walk.  A statement being compiled keeps the code of its parts: cond *)
(* of its condition, code of its statements (of the case with value val,   *)
(* in a switch) and cases of the cases before that.                        *)

NONE    == [kind |-> "none"]
DEFAULT == [kind |-> "default"]
Frame(at, cond) == [at |-> at, cond |-> cond, code |-> << >>, val |-> NONE, cases |-> << >>]

Init ==
  /\ input \in Inputs
  /\ prog = << >>
  /\ pc = "gen"
  /\ control = <<Frame(0, Operand(NULL, 0))>>
  /\ label_counter = 1 /\ temps = 0 /\ code = << >>
  /\ ip = 1
  /\ mem = [n \in DOMAIN Vars |-> [k \in 1..(IF Vars[n].size = 0 THEN 1 ELSE Vars[n].size) |-> 0]]
  /\ temp = [t \in {} |-> 0]
  /\ out = <<<< >>, FALSE>>

Top == control[Len(control)]
Opened == prog[Top.at]
InSwitch == Len(control) > 1 /\ Opened.node = "Switch"

\* The program has no error: a boolean switch has both cases and no default, an
\* integer one a default; the variable of an open for-loop is not set.
Boolean == Vars[Opened.name].type = "boolean"
Closed == IF Top.val = NONE THEN Top.cases ELSE Append(Top.cases, [val |-> Top.val, code |-> Top.code])
Handled == {Closed[i].val : i \in DOMAIN Closed}

Readonly == {prog[i].name : i \in {f.at : f \in Range(Tail(control))} \cap {j \in DOMAIN prog : prog[j].node = "For"}}

Fits(s) ==
  CASE s.node = "End"     -> /\ Len(control) > 1
                             /\ InSwitch => IF Boolean THEN Handled = {ConstAddr(0, "boolean"), ConstAddr(1, "boolean")} ELSE Top.val = DEFAULT
    [] s.node = "Case"    -> /\ InSwitch /\ Top.val # DEFAULT
                             /\ s.val.type = Vars[Opened.name].type
                             /\ Boolean => ConstAddr(s.val.val, s.val.type) \notin Handled
    [] s.node = "Default" -> InSwitch /\ ~Boolean /\ Top.val \notin {NONE, DEFAULT}
    [] OTHER              -> /\ InSwitch => Top.val # NONE
                             /\ s.node = "Assn" => s.target.name \notin Readonly
                             /\ s.node = "For" => s.name \notin Readonly

\* The bounds: statements, and cases to a switch on an integer, two if it is in
\* no other statement.
Parts == {"Case", "Default", "End"}
Room(s) == CASE s.node = "Case" -> Boolean \/ Len(Closed) < (IF Len(control) = 2 THEN 2 ELSE 1)
             [] s.node \in Parts -> TRUE
             [] OTHER            -> Cardinality({i \in DOMAIN prog : prog[i].node \notin Parts}) < input.max

Walk(s) ==
  /\ pc = "gen"
  /\ Fits(s) /\ Room(s)
  /\ prog' = Append(prog, s)
  /\ UNCHANGED <<input, pc, code, run_vars>>

Here == <<Len(prog) + 1, "do">>

\* codegen_chain: the code of a statement goes after that of those before.
Emit(instrs) == control' = [control EXCEPT ![Len(control)] = [Top EXCEPT !.code = @ \o instrs]]

\* Mutant: the code of the expression goes after the MOV.
MovFirst(target, expr) == <<irinstr_new2("MOV", target.addr, expr.addr, NULL)>> \o expr.code
AssnCode(target, expr) == Append(expr.code, irinstr_new2("MOV", target.addr, expr.addr, NULL))

Assn(s) ==
  LET expr == compile_expr[s.expr][temps] IN
  /\ s.node = "Assn" /\ Walk(s)
  /\ Emit(AtPlace(Here, AssnCode(compile_expr[s.target][temps], expr)))
  /\ temps' = expr.temps
  /\ UNCHANGED label_counter

Input(s) ==
  /\ s.node = "Input" /\ Walk(s)
  /\ Emit(AtPlace(Here, <<irinstr_new2("INPUT", VarAddr(s.name), NULL, NULL)>>))
  /\ UNCHANGED <<label_counter, temps>>

Output(s) ==
  /\ s.node = "Output" /\ Walk(s)
  /\ Emit(AtPlace(Here, <<irinstr_new2("OUTPUT", NULL, compile_expr[s.var][temps].addr, NULL)>>))
  /\ UNCHANGED <<label_counter, temps>>

Open(cond) == /\ control' = Append(control, Frame(Len(prog) + 1, cond))
              /\ temps' = cond.temps
              /\ UNCHANGED label_counter

While(s)  == s.node = "While" /\ Walk(s) /\ Open(compile_expr[s.cond][temps])
For(s)    == s.node = "For" /\ Walk(s) /\ Open(Operand(VarAddr(s.name), temps))
Switch(s) == s.node = "Switch" /\ Walk(s) /\ Open(Operand(VarAddr(s.name), temps))

NextCase(s, val) ==
  /\ Walk(s)
  /\ control' = [control EXCEPT ![Len(control)] = [Top EXCEPT !.cases = Closed, !.val = val, !.code = << >>]]
  /\ UNCHANGED <<label_counter, temps>>

Case(s)    == s.node = "Case" /\ NextCase(s, ConstAddr(s.val.val, s.val.type))
Default(s) == s.node = "Default" /\ NextCase(s, DEFAULT)

\* The code of the loop or switch that f is the frame of, with labels from l on.
WhileCode(f, l) ==
  AtPlace(<<f.at, "do">>, <<irinstr_new3("LABEL", l)>> \o f.cond.code
                            \o <<irinstr_new4("JUMP0", NULL, f.cond.addr, NULL, l + 1)>>)
  \o f.code \o <<irinstr_new3("JUMP", l), irinstr_new3("LABEL", l + 1)>>

\* Mutant: the label comes before the MOV.
RestartCode(f, s, l) ==
  <<irinstr_new3("LABEL", l)>>
  \o AtPlace(<<f.at, "init">>, <<irinstr_new2("MOV", f.cond.addr, ConstAddr(s.beg, "integer"), NULL)>>)
  \o AtPlace(<<f.at, "test">>, <<irinstr_new4("JG", NULL, f.cond.addr, ConstAddr(s.end, "integer"), l + 1)>>)
  \o f.code
  \o AtPlace(<<f.at, "inc">>, <<irinstr_new2("INC", f.cond.addr, NULL, NULL)>>)
  \o <<irinstr_new3("JUMP", l), irinstr_new3("LABEL", l + 1)>>

ForCode(f, s, l) ==
  AtPlace(<<f.at, "init">>, <<irinstr_new2("MOV", f.cond.addr, ConstAddr(s.beg, "integer"), NULL)>>)
  \o AtPlace(<<f.at, "test">>, <<irinstr_new3("LABEL", l), irinstr_new4("JG", NULL, f.cond.addr, ConstAddr(s.end, "integer"), l + 1)>>)
  \o f.code
  \o AtPlace(<<f.at, "inc">>, <<irinstr_new2("INC", f.cond.addr, NULL, NULL)>>)
  \o <<irinstr_new3("JUMP", l), irinstr_new3("LABEL", l + 1)>>

CodeOfCase(cases, val) == cases[CHOOSE i \in DOMAIN cases : cases[i].val = val].code

BooleanSwitchCode(f, cases, l) ==
  AtPlace(<<f.at, "do">>, <<irinstr_new4("JUMP0", NULL, f.cond.addr, NULL, l)>>)
  \o CodeOfCase(cases, ConstAddr(1, "boolean")) \o <<irinstr_new3("JUMP", l + 1), irinstr_new3("LABEL", l)>>
  \o CodeOfCase(cases, ConstAddr(0, "boolean")) \o <<irinstr_new3("LABEL", l + 1)>>

\* Label l is the exit, l + i comes after the i-th case.
IntegerSwitchCode(f, cases, l) ==
  LET Test(i) == AtPlace(<<f.at, "do">>, <<irinstr_new4("JNE", NULL, f.cond.addr, cases[i].val, l + i)>>)
      upto[i \in 0..Len(cases)] ==
        IF i = 0 THEN << >>
        ELSE IF cases[i].val = DEFAULT THEN upto[i - 1] \o cases[i].code
        ELSE upto[i - 1] \o Test(i) \o cases[i].code \o <<irinstr_new3("JUMP", l), irinstr_new3("LABEL", l + i)>>
  IN  upto[Len(cases)] \o <<irinstr_new3("LABEL", l)>>

\* Mutant: one label too few for a loop.
OneLabel(s, cases) == IF s.node = "Switch" /\ ~Boolean THEN Len(cases) ELSE 1
Labels(s, cases) == IF s.node = "Switch" /\ ~Boolean THEN Len(cases) ELSE 2

EndCode(s, f, cases, l) ==
  CASE s.node = "While" -> WhileCode(f, l)
    [] s.node = "For"   -> ForCode(f, s, l)
    [] OTHER            -> IF Boolean THEN BooleanSwitchCode(f, cases, l) ELSE IntegerSwitchCode(f, cases, l)

End(s) ==
  /\ s.node = "End" /\ Walk(s)
  /\ LET below == Len(control) - 1
     IN  control' = [SubSeq(control, 1, below) EXCEPT ![below].code = @ \o EndCode(Opened, Top, Closed, label_counter)]
  /\ label_counter' = label_counter + Labels(Opened, Closed)
  /\ UNCHANGED temps

\* optimize_ircode.  A MOV after an instruction whose result is a temporary is dropped, and the
\* result goes where the MOV would move it.
\* Mutant: whatever the result is.
MergeAny(done, last, instr) ==
  IF instr.op = "MOV" /\ last.res # NULL THEN [done EXCEPT ![Len(done)] = [last EXCEPT !.res = instr.res]]
  ELSE Append(done, instr)
Merge(done, last, instr) ==
  IF instr.op = "MOV" /\ last.res.kind = "temp" THEN [done EXCEPT ![Len(done)] = [last EXCEPT !.res = instr.res]]
  ELSE Append(done, instr)

MergeNext(done, instr) == IF done = << >> THEN <<instr>> ELSE Merge(done, done[Len(done)], instr)
optimize_ircode(instrs) ==
  LET upto[i \in 0..Len(instrs)] == IF i = 0 THEN << >> ELSE MergeNext(upto[i - 1], instrs[i])
  IN  upto[Len(instrs)]

Finish ==
  /\ pc = "gen" /\ Len(control) = 1
  /\ code' = optimize_ircode(Top.code)
  /\ control' = << >>
  /\ pc' = "run"
  /\ temp' = [t \in 1..temps |-> 0]
  /\ UNCHANGED <<input, prog, label_counter, temps, ip, mem, out>>

-----------------------------------------------------------------------------
(* The program runs.                                                       *)

\* Mutant: a word has no bounds.
Unbounded(v) == v
Wrap(v) == ((v - MinInt) % Words) + MinInt

\* addr_to_x86_arg: elements are counted from 1, and an array is its first.
IndexOf(a) == IF a.kind # "arr" THEN 1 ELSE IF a.index.kind = "const" THEN a.index.val ELSE mem[a.index.name][1]
Mapped(a)  == a.kind = "arr" => IndexOf(a) \in DOMAIN mem[a.name]

Value(a) == CASE a.kind = "const" -> a.val
              [] a.kind = "temp"  -> temp[a.no]
              [] OTHER            -> mem[a.name][IndexOf(a)]

Store(a, v) ==
  IF a.kind = "temp" THEN temp' = [temp EXCEPT ![a.no] = v] /\ UNCHANGED mem
  ELSE mem' = [mem EXCEPT ![a.name][IndexOf(a)] = v] /\ UNCHANGED temp

Instr == code[ip]

\* idiv: towards zero, if there is a quotient and it is a word.
Abs(v) == IF v < 0 THEN -v ELSE v
Quotient(v, w) == (Abs(v) \div Abs(w)) * (IF (v < 0) = (w < 0) THEN 1 ELSE -1)
Traps == Instr.op = "DIV" /\ (Value(Instr.arg2) = 0 \/ Quotient(Value(Instr.arg1), Value(Instr.arg2)) > MaxInt)
Executable == (\A a \in {Instr.res, Instr.arg1, Instr.arg2} : Mapped(a)) /\ ~Traps

Fetch(ops) == /\ pc = "run" /\ ip \in DOMAIN code /\ Instr.op \in ops
              /\ Executable
              /\ UNCHANGED <<gen_vars, pc>>
Step == ip' = ip + 1

Mov   == Fetch({"MOV"}) /\ Store(Instr.res, Value(Instr.arg1)) /\ Step /\ UNCHANGED out
UMinus == Fetch({"UMINUS"}) /\ Store(Instr.res, Wrap(0 - Value(Instr.arg1))) /\ Step /\ UNCHANGED out
Inc   == Fetch({"INC"}) /\ Store(Instr.res, Wrap(Value(Instr.res) + 1)) /\ Step /\ UNCHANGED out

Opcode(op, v, w) ==
  CASE op = "PLUS"  -> Wrap(v + w)
    [] op = "MINUS" -> Wrap(v - w)
    [] op = "MUL"   -> Wrap(v * w)
    [] op = "DIV"   -> Quotient(v, w)
    [] op = "AND"   -> IF v = 1 /\ w = 1 THEN 1 ELSE 0
    [] op = "OR"    -> IF v = 1 \/ w = 1 THEN 1 ELSE 0

Arith ==
  /\ Fetch({"PLUS", "MINUS", "MUL", "DIV", "AND", "OR"})
  /\ Store(Instr.res, Opcode(Instr.op, Value(Instr.arg1), Value(Instr.arg2)))
  /\ Step /\ UNCHANGED out

SetCode(op, v, w) ==
  CASE op = "EQ" -> v = w
    [] op = "NE" -> v # w
    [] op = "LT" -> v < w
    [] op = "LE" -> v <= w
    [] op = "GT" -> v > w
    [] op = "GE" -> v >= w

Compare ==
  /\ Fetch({"EQ", "NE", "LT", "LE", "GT", "GE"})
  /\ Store(Instr.res, IF SetCode(Instr.op, Value(Instr.arg1), Value(Instr.arg2)) THEN 1 ELSE 0)
  /\ Step /\ UNCHANGED out

\* print_integer and its like: a value, or all of an array.
WriteOut ==
  /\ Fetch({"OUTPUT"})
  /\ out' = <<IF Instr.arg1.kind = "var" THEN mem[Instr.arg1.name] ELSE <<Value(Instr.arg1)>>, ~out[2]>>
  /\ Step /\ UNCHANGED <<mem, temp>>

\* read_integer_array and its like; a boolean is 0 or 1.
ReadIn ==
  /\ Fetch({"INPUT"})
  /\ \E f \in [DOMAIN mem[Instr.res.name] -> Values] :
       mem' = [mem EXCEPT ![Instr.res.name] =
                 IF Vars[Instr.res.name].type = "boolean" THEN [k \in DOMAIN f |-> IF f[k] = 0 THEN 0 ELSE 1] ELSE f]
  /\ Step /\ UNCHANGED <<temp, out>>

Target == CHOOSE j \in DOMAIN code : code[j].op = "LABEL" /\ code[j].label = Instr.label

Jumps == CASE Instr.op = "JUMP"  -> TRUE
           [] Instr.op = "JUMP0" -> Value(Instr.arg1) = 0
           [] Instr.op = "JNE"   -> Value(Instr.arg1) # Value(Instr.arg2)
           [] Instr.op = "JG"    -> Value(Instr.arg1) > Value(Instr.arg2)
           [] Instr.op = "LABEL" -> FALSE

Branch ==
  /\ Fetch({"LABEL", "JUMP", "JUMP0", "JNE", "JG"})
  /\ ip' = IF Jumps THEN Target ELSE ip + 1
  /\ UNCHANGED <<mem, temp, out>>

\* An element that is not there is some other memory; a trap ends the program.
Stuck ==
  /\ pc = "run" /\ ip \in DOMAIN code
  /\ ~Executable
  /\ pc' = "stuck"
  /\ UNCHANGED <<gen_vars, run_vars>>

Done == pc # "gen" /\ (pc = "stuck" \/ ip > Len(code)) /\ UNCHANGED vars

Statement(s) ==
  \/ Assn(s) \/ Input(s) \/ Output(s) \/ While(s) \/ For(s) \/ Switch(s) \/ Case(s) \/ Default(s) \/ End(s)

Run == Mov \/ UMinus \/ Inc \/ Arith \/ Compare \/ WriteOut \/ ReadIn \/ Branch \/ Stuck

EndStmt == [node |-> "End"]

Next == (\E s \in input.stmts \cup {EndStmt} : Statement(s)) \/ Finish \/ Run \/ Done

\* A program that runs goes on.
Spec == Init /\ [][Next]_vars /\ WF_vars(Run)

-----------------------------------------------------------------------------
TypeOK ==
  /\ pc \in {"gen", "run", "stuck"}
  /\ pc = "gen" => control # << >> /\ code = << >>
  /\ label_counter \in Nat /\ temps \in Nat
  /\ ip \in 1..(Len(code) + 1)
  /\ \A n \in DOMAIN mem : \A k \in DOMAIN mem[n] :
       mem[n][k] \in ValuesOf(Vars[n].type)
  /\ \A t \in DOMAIN temp : temp[t] \in Word

LabelsOf(c) == {i \in DOMAIN c : c[i].op = "LABEL"}

\* Every jump leads to a label, and there is no other of its number, neither in
\* the code that runs nor in that of the loops and cases still being compiled,
\* whose labels are given when they end.
JumpsLand ==
  \A c \in {code} \cup {control[i].code : i \in DOMAIN control} :
    \A j \in DOMAIN c : c[j].op \in {"JUMP", "JUMP0", "JNE", "JG"} =>
      Cardinality({k \in LabelsOf(c) : c[k].label = c[j].label}) = 1

\* What optimize_ircode takes for granted: the MOV after an instruction with a
\* temporary result moves that result, and nothing else uses it.
OptimizerSound ==
  \A f \in {control[i] : i \in DOMAIN control} : LET c == f.code IN
    \A i \in 1..(Len(c) - 1) :
      c[i].res.kind = "temp" /\ c[i + 1].op = "MOV" =>
        /\ c[i + 1].arg1 = c[i].res
        /\ \A j \in DOMAIN c \ {i + 1} : c[i].res \notin {c[j].arg1, c[j].arg2}
=============================================================================
