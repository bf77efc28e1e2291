--------------------------------- MODULE X86 ---------------------------------
(***************************************************************************)
(* The machine code (compile_x86.c): what compile_instr_to_x86 makes of an *)
(* instruction of Codegen, and a machine for it, with registers of several *)
(* widths, memory reached directly or through an index register, and the   *)
(* result of the last comparison.  A word is an integer, a byte a boolean. *)
(*                                                                         *)
(* Variables have their places in memory from SymbolDB: an operand in      *)
(* memory is a variable, a temporary or an element.                        *)
(***************************************************************************)
EXTENDS Codegen

NoArg     == [kind |-> "none"]
Reg(r)    == [kind |-> "reg", reg |-> r]
Imm(v)    == [kind |-> "imm", val |-> v]
Sized     == TRUE
Unsized   == FALSE

Machine(op, arg1, arg2) == [op |-> op, arg1 |-> arg1, arg2 |-> arg2]

TypeOf(a) == IF a.kind \in {"var", "arr"} THEN Vars[a.name].type ELSE a.type

\* std_regs: 0 and 2 hold operands, 3 the address of one.
std_regs(regno, type) ==
  Reg(CASE regno = 0 -> IF type = "integer" THEN "ax" ELSE "al"
        [] regno = 2 -> IF type = "integer" THEN "cx" ELSE "cl"
        [] regno = 3 -> "rcx")

\* addr_to_x86_arg: an immediate, or memory with its size written or not, and the
\* register that is to hold the index of an element.
addr_to_x86_arg(a, sized, index_reg) ==
  IF a.kind = "const" THEN Imm(a.val)
  ELSE [kind |-> "mem", addr |-> a, index |-> index_reg, size |-> IF sized THEN TypeOf(a) ELSE "none"]

\* "si" and "di", the low halves of rsi and rdi.
load_index_if_needed(a, index_reg) ==
  IF a.kind = "arr" /\ a.index.kind = "var"
    THEN <<Machine("mov", Reg(index_reg), addr_to_x86_arg(a.index, Unsized, "none"))>>
    ELSE << >>

op_addr_to_reg(op, regno, a) ==
  load_index_if_needed(a, "si") \o <<Machine(op, std_regs(regno, TypeOf(a)), addr_to_x86_arg(a, Unsized, "si"))>>

op_reg_to_addr(op, a, regno) ==
  load_index_if_needed(a, "di") \o <<Machine(op, addr_to_x86_arg(a, Unsized, "di"), std_regs(regno, TypeOf(a)))>>

\* The operation at once, or through register 0.
Directly(op, a1, a2) ==
  load_index_if_needed(a1, "si") \o load_index_if_needed(a2, "di")
    \o <<Machine(op, addr_to_x86_arg(a1, Sized, "si"), addr_to_x86_arg(a2, Sized, "di"))>>

OneConstant(a1, a2) == (a1.kind = "const") # (a2.kind = "const")

\* Mutant: the operands in memory change places.
Swapped(op, a1, a2) ==
  IF OneConstant(a1, a2) THEN Directly(op, a1, a2) ELSE op_addr_to_reg("mov", 0, a1) \o op_reg_to_addr(op, a2, 0)

op_addr_to_addr(op, a1, a2) ==
  IF OneConstant(a1, a2) THEN Directly(op, a1, a2) ELSE op_addr_to_reg("mov", 0, a2) \o op_reg_to_addr(op, a1, 0)

op_apply(op, a) == load_index_if_needed(a, "si") \o <<Machine(op, addr_to_x86_arg(a, Sized, "si"), NoArg)>>

get_opcode(op) ==
  CASE op = "PLUS" -> "add" [] op = "MINUS" -> "sub" [] op = "AND" -> "and" [] op = "OR" -> "or"

\* An element has no size, whatever its array has.
SizeOf(a) == IF a.kind = "var" THEN Vars[a.name].size ELSE 0

\* print_x or print_x_array, read_x_array: what it does, and the x.
Routine(does, a) == [does |-> does, type |-> TypeOf(a)]
Call(routine) == Machine("call", routine, NoArg)
OutputCode(a) ==
  IF SizeOf(a) = 0 THEN op_addr_to_reg("mov", 2, a) \o <<Call(Routine("print", a))>>
  ELSE op_addr_to_reg("lea", 3, a) \o <<Machine("mov", Reg("rdx"), Imm(SizeOf(a))), Call(Routine("print_array", a))>>
InputCode(a) ==
  op_addr_to_reg("lea", 3, a)
    \o <<Machine("mov", Reg("rdx"), Imm(IF SizeOf(a) = 0 THEN 1 ELSE SizeOf(a))), Call(Routine("read_array", a))>>

\* A comparison with the second operand, or with 0, before the jump.
BranchCode(instr) ==
  (IF instr.arg1 = NULL THEN << >>
   ELSE load_index_if_needed(instr.arg1, "si")
          \o <<Machine("cmp", addr_to_x86_arg(instr.arg1, Sized, "si"),
                       Imm(IF instr.arg2 = NULL THEN 0 ELSE instr.arg2.val))>>)
  \o <<Machine(instr.op, NoArg, NoArg)>>

compile_instr_to_x86(instr) ==
  CASE instr.op = "MOV" -> op_addr_to_addr("mov", instr.res, instr.arg1)
    [] instr.op \in {"PLUS", "MINUS", "AND", "OR"} ->
         op_addr_to_reg("mov", 0, instr.arg1) \o op_addr_to_reg(get_opcode(instr.op), 0, instr.arg2)
           \o op_reg_to_addr("mov", instr.res, 0)
    [] instr.op = "UMINUS" ->
         <<Machine("xor", Reg("rax"), Reg("rax"))>> \o op_addr_to_reg("sub", 0, instr.arg1)
           \o op_reg_to_addr("mov", instr.res, 0)
    [] instr.op = "INC" -> op_apply("inc", instr.res)
    [] instr.op = "MUL" ->
         op_addr_to_reg("mov", 0, instr.arg1) \o op_addr_to_reg("mov", 2, instr.arg2)
           \o <<Machine("imul", std_regs(2, "integer"), NoArg)>> \o op_reg_to_addr("mov", instr.res, 0)
    [] instr.op = "DIV" ->
         op_addr_to_reg("mov", 0, instr.arg1) \o <<Machine("cwd", NoArg, NoArg)>>
           \o op_addr_to_reg("mov", 2, instr.arg2)
           \o <<Machine("idiv", std_regs(2, "integer"), NoArg)>> \o op_reg_to_addr("mov", instr.res, 0)
    [] instr.op \in {"EQ", "NE", "LT", "LE", "GT", "GE"} ->
         op_addr_to_addr("cmp", instr.arg1, instr.arg2) \o op_apply(instr.op, instr.res)
    [] instr.op = "OUTPUT" -> OutputCode(instr.arg1)
    [] instr.op = "INPUT"  -> InputCode(instr.res)
    [] instr.op \in {"LABEL", "JUMP", "JUMP0", "JNE", "JG"} -> BranchCode(instr)

-----------------------------------------------------------------------------
(* The machine.  What a register holds after a write to another part of it *)
(* is Junk, and so is what is read with the wrong size.                    *)

Junk == 16 * Words

\* rsi and rdi have no more than the index in them: their upper parts are 0 from
\* the beginning of a module on, and the routines of the library leave them so.
NewMachine(memory, temporaries) ==
  [reg |-> [r \in {"ax", "al", "cx", "cl", "dx", "rdx", "si", "di"} |-> Junk], rcx |-> NoArg,
   mem |-> memory, temp |-> temporaries, flags |-> <<Junk, Junk>>, called |-> <<>>, taken |-> FALSE]

WidthOf(r) == CASE r \in {"al", "cl"} -> "boolean" [] r \in {"ax", "cx", "si", "di"} -> "integer" [] OTHER -> "address"
Width(i) ==
  IF i.arg1.kind = "reg" THEN WidthOf(i.arg1.reg)
  ELSE IF i.arg2.kind = "reg" THEN WidthOf(i.arg2.reg)
  ELSE IF i.arg1.kind = "mem" THEN i.arg1.size
  ELSE IF i.arg2.kind = "mem" THEN i.arg2.size ELSE "none"

\* An instruction of one or two operands has at most one in memory, no
\* immediate first, and a width.
HasEncoding(i) ==
  i.op \in {"mov", "add", "sub", "and", "or", "cmp", "inc", "imul", "idiv", "lea", "EQ", "NE", "LT", "LE", "GT", "GE"} =>
    /\ i.arg1.kind # "imm"
    /\ ~(i.arg1.kind = "mem" /\ i.arg2.kind = "mem")
    /\ Width(i) # "none"

ElementOf(m, o) == IF o.addr.kind # "arr" THEN 1 ELSE IF o.addr.index.kind = "const" THEN o.addr.index.val ELSE m.reg[o.index]

Load(m, o, width) ==
  CASE o.kind = "reg" -> m.reg[o.reg]
    [] o.kind = "imm" -> o.val
    [] OTHER -> IF width # TypeOf(o.addr) THEN Junk
                ELSE IF o.addr.kind = "temp" THEN m.temp[o.addr.no]
                ELSE IF ElementOf(m, o) \in DOMAIN m.mem[o.addr.name] THEN m.mem[o.addr.name][ElementOf(m, o)] ELSE Junk

\* The other names of a register's bits.
Overlaps(r) == CASE r = "ax" -> {"al"} [] r = "al" -> {"ax"} [] r = "cx" -> {"cl"} [] r = "cl" -> {"cx"} [] r = "rdx" -> {"dx"}
                 [] OTHER -> {}

SetReg(m, r, v) ==
  [m EXCEPT !.reg = [q \in DOMAIN m.reg |-> IF q = r THEN v ELSE IF q \in Overlaps(r) THEN Junk ELSE m.reg[q]]]

StoreIn(m, o, width, v) ==
  LET stored == IF width = TypeOf(o.addr) THEN v ELSE Junk IN
  IF o.kind = "reg" THEN SetReg(m, o.reg, v)
  ELSE IF o.addr.kind = "temp" THEN [m EXCEPT !.temp[o.addr.no] = stored]
  ELSE [m EXCEPT !.mem[o.addr.name] = [k \in DOMAIN @ |-> IF k = ElementOf(m, o) THEN stored ELSE @[k]]]

\* and, or: of bytes that are 0 or 1.
Arithmetic(op, v, w) ==
  IF Junk \in {v, w} THEN Junk
  ELSE CASE op = "add" -> Wrap(v + w)
         [] op = "sub" -> Wrap(v - w)
         [] op = "and" -> v * w
         [] op = "or"  -> (v + w) - (v * w)

\* imul: the product in dx:ax, of which ax is used.  idiv: the quotient of dx:ax.
Multiplied(m, v) ==
  SetReg(SetReg(m, "ax", IF Junk \in {m.reg["ax"], v} THEN Junk ELSE Wrap(m.reg["ax"] * v)), "dx", Junk)
Divided(m, v) ==
  LET dividend == m.reg["dx"] * Words + (m.reg["ax"] % Words)
  IN  SetReg(SetReg(m, "ax", IF Junk \in {m.reg["ax"], m.reg["dx"], v} THEN Junk ELSE Quotient(dividend, v)), "dx", Junk)

\* The routines of the runtime library: print_boolean and print_integer take a
\* value, each in a register of its own, the others the address of an array in rcx
\* and the number of its elements in rdx.
ValueRegister(type) == IF type = "boolean" THEN "cl" ELSE "cx"
Called(m, routine) ==
  [NewMachine(m.mem, m.temp) EXCEPT !.called =
     IF routine.does = "print" THEN <<routine, m.reg[ValueRegister(routine.type)]>>
     ELSE <<routine, m.rcx, m.reg["rdx"]>>]

Condition(op, flags) ==
  CASE op = "LABEL" -> FALSE
    [] op = "JUMP"  -> TRUE
    [] op = "JUMP0" -> flags[1] = flags[2]
    [] op = "JNE"   -> flags[1] # flags[2]
    [] op = "JG"    -> flags[1] > flags[2]

Executed(m, i) ==
  LET width == Width(i)
      v == Load(m, i.arg1, width)
      w == Load(m, i.arg2, width)
  IN CASE i.op = "mov" -> StoreIn(m, i.arg1, width, w)
       [] i.op \in {"add", "sub", "and", "or"} -> StoreIn(m, i.arg1, width, Arithmetic(i.op, v, w))
       [] i.op = "inc"  -> StoreIn(m, i.arg1, width, Arithmetic("add", v, 1))
       [] i.op = "xor"  -> [m EXCEPT !.reg["ax"] = 0, !.reg["al"] = 0]
       [] i.op = "imul" -> Multiplied(m, v)
       [] i.op = "cwd"  -> SetReg(m, "dx", IF m.reg["ax"] = Junk THEN Junk ELSE IF m.reg["ax"] < 0 THEN -1 ELSE 0)
       [] i.op = "idiv" -> Divided(m, v)
       [] i.op = "cmp"  -> [m EXCEPT !.flags = <<v, w>>]
       [] i.op \in {"EQ", "NE", "LT", "LE", "GT", "GE"} ->
            StoreIn(m, i.arg1, "boolean", IF Junk \in Range(m.flags) THEN Junk
                                      ELSE IF SetCode(i.op, m.flags[1], m.flags[2]) THEN 1 ELSE 0)
       [] i.op = "lea"  -> [m EXCEPT !.rcx = <<i.arg2.addr, ElementOf(m, i.arg2)>>]
       [] i.op = "call" -> Called(m, i.arg1)
       [] OTHER         -> [m EXCEPT !.taken = Condition(i.op, m.flags)]

\* The machine after the instructions made of instr.
RunOn(m, made) == LET upto[i \in 0..Len(made)] == IF i = 0 THEN m ELSE Executed(upto[i - 1], made[i]) IN upto[Len(made)]
Run86(instr) == RunOn(NewMachine(mem, temp), compile_instr_to_x86(instr))

-----------------------------------------------------------------------------
\* The one kind of code that cannot be assembled: a comparison of a constant with
\* something, or a test of one.
ConstantFirst(instr) == instr.op \in {"EQ", "NE", "LT", "LE", "GT", "GE", "JUMP0"} /\ instr.arg1.kind = "const"

\* The machine instructions made of every IR instruction exist, with that one
\* exception, and do on the machine what the IR instruction does: operands have
\* the right size and place, no register is used that was not set in that width
\* and for that purpose, index registers included, the flags are those of the
\* comparison in the order it was written, and the routine of the library that is
\* called is one for the type of what it is given.
MachineCodeExact ==
  [][pc = "run" /\ pc' = "run" /\ ip \in DOMAIN code =>
       LET m == Run86(Instr)  made == compile_instr_to_x86(Instr) IN
       /\ ~ConstantFirst(Instr) => \A j \in DOMAIN made : HasEncoding(made[j])
       /\ Instr.op = "INPUT" => m.called = <<Routine("read_array", Instr.res), <<Instr.res, 1>>, Len(mem[Instr.res.name])>>
       /\ Instr.op # "INPUT" => m.mem = mem' /\ m.temp = temp'
       /\ Instr.op = "OUTPUT" =>
            m.called = IF SizeOf(Instr.arg1) = 0 THEN <<Routine("print", Instr.arg1), out'[1][1]>>
                       ELSE <<Routine("print_array", Instr.arg1), <<Instr.arg1, 1>>, Len(out'[1])>>
       /\ ip' = IF m.taken THEN Target ELSE ip + 1]_vars
=============================================================================
