----------------------------- MODULE X86_proofs ------------------------------
(***************************************************************************)
(* Proofs about the machine code: for any variables and any code that      *)
(* codegen makes, what compile_instr_to_x86 makes of an instruction can be *)
(* encoded and does on the machine what the instruction does.              *)
(***************************************************************************)
EXTENDS X86, Codegen_proofs

-----------------------------------------------------------------------------
(* Pieces of machine code one after the other.                             *)

Listed(s) == \E S : s \in Seq(S)

\* The machine after i instructions of s.
Goes(u, m, s, n) == u[0] = m /\ \A i \in 1..n : u[i] = Executed(u[i - 1], s[i])

RunFrom(u, m, s, i) == IF i = 0 THEN m ELSE Executed(u[i - 1], s[i])
IsRun(u, m, s, n) == u = [i \in 0..n |-> RunFrom(u, m, s, i)]

LEMMA GoesOnly ==
  ASSUME NEW u, NEW v, NEW m, NEW s, NEW n \in Nat, Goes(u, m, s, n), Goes(v, m, s, n)
  PROVE  \A i \in 0..n : u[i] = v[i]
<1> DEFINE Odd == {i \in 0..n : u[i] # v[i]}
<1> SUFFICES ASSUME Odd # {} PROVE FALSE
  OBVIOUS
<1>1. Smallest(Odd)
  BY SmallestExists
<1>2. PICK k \in Odd : \A j \in Odd : k <= j
  BY <1>1 DEF Smallest
<1>3. k \in 0..n /\ u[k] # v[k]
  BY <1>2
<1>4. k # 0
  BY <1>3 DEF Goes
<1>5. k \in 1..n /\ k - 1 \in 0..n
  BY <1>3, <1>4
<1>6. k - 1 \notin Odd
  BY <1>2, <1>5
<1>7. u[k - 1] = v[k - 1]
  BY <1>5, <1>6
<1>8. u[k] = Executed(u[k - 1], s[k]) /\ v[k] = Executed(v[k - 1], s[k])
  BY <1>5 DEF Goes
<1> QED BY <1>3, <1>7, <1>8

LEMMA RunExists ==
  ASSUME NEW m, NEW s, NEW n \in Nat
  PROVE  \E u : IsRun(u, m, s, n)
<1> DEFINE Upset(u, k) == \A i \in 0..k : u[i] = RunFrom(u, m, s, i)
           None == {k \in Nat : ~\E u : Upset(u, k)}
<1>1. None = {}
  <2> SUFFICES ASSUME None # {} PROVE FALSE
    OBVIOUS
  <2>1. Smallest(None)
    BY SmallestExists
  <2>2. PICK k \in None : \A j \in None : k <= j
    BY <2>1 DEF Smallest
  <2>3. k # 0
    <3>1. PICK u : u = [i \in {0} |-> m]
      OBVIOUS
    <3>2. \A i \in 0..0 : i = 0
      OBVIOUS
    <3>3. u[0] = RunFrom(u, m, s, 0)
      BY <3>1 DEF RunFrom
    <3>4. Upset(u, 0)
      BY <3>2, <3>3
    <3> QED BY <2>2, <3>4
  <2>4. PICK j \in Nat : k = j + 1
    BY <2>2, <2>3
  <2>5. j \notin None
    BY <2>2, <2>4
  <2>6. PICK u : Upset(u, j)
    BY <2>5
  <2>7. PICK w : w = [i \in 0..k |-> IF i = k THEN RunFrom(u, m, s, k) ELSE u[i]]
    OBVIOUS
  <2>8. \A i \in 0..j : w[i] = u[i]
    BY <2>4, <2>7
  <2>9. ASSUME NEW i \in 0..k PROVE RunFrom(w, m, s, i) = RunFrom(u, m, s, i)
    <3>1. CASE i = 0
      BY <3>1 DEF RunFrom
    <3>2. CASE i # 0
      <4>1. i - 1 \in 0..j
        BY <2>4, <3>2
      <4>2. w[i - 1] = u[i - 1]
        BY <2>8, <4>1
      <4> QED BY <4>2 DEF RunFrom
    <3> QED BY <3>1, <3>2
  <2>10. ASSUME NEW i \in 0..k PROVE w[i] = RunFrom(w, m, s, i)
    <3>1. CASE i = k
      BY <2>7, <2>9, <3>1
    <3>2. CASE i # k
      <4>1. i \in 0..j
        BY <2>4, <3>2
      <4>2. u[i] = RunFrom(u, m, s, i)
        BY <2>6, <4>1
      <4> QED BY <2>8, <2>9, <4>1, <4>2
    <3> QED BY <3>1, <3>2
  <2>11. Upset(w, k)
    BY <2>10
  <2> QED BY <2>2, <2>11
<1>2. PICK u : Upset(u, n)
  BY <1>1
<1>3. PICK w : w = [i \in 0..n |-> u[i]]
  OBVIOUS
<1>4. ASSUME NEW i \in 0..n PROVE w[i] = RunFrom(w, m, s, i)
  <2>1. u[i] = RunFrom(u, m, s, i)
    BY <1>2
  <2>2. RunFrom(w, m, s, i) = RunFrom(u, m, s, i)
    <3>1. CASE i = 0
      BY <3>1 DEF RunFrom
    <3>2. CASE i # 0
      <4>1. i - 1 \in 0..n
        BY <3>2
      <4>2. w[i - 1] = u[i - 1]
        BY <1>3, <4>1
      <4> QED BY <4>2 DEF RunFrom
    <3> QED BY <3>1, <3>2
  <2> QED BY <1>3, <2>1, <2>2
<1>5. w = [i \in 0..n |-> RunFrom(w, m, s, i)]
  BY <1>3, <1>4
<1> QED BY <1>5 DEF IsRun

LEMMA RunGoes ==
  ASSUME NEW m, NEW s, Len(s) \in Nat
  PROVE  \E u : Goes(u, m, s, Len(s)) /\ RunOn(m, s) = u[Len(s)]
<1>1. PICK n : n = Len(s)
  OBVIOUS
<1>2. \E u : IsRun(u, m, s, n)
  BY <1>1, RunExists
<1>3. PICK u : u = CHOOSE v : IsRun(v, m, s, n)
  OBVIOUS
<1>4. IsRun(u, m, s, n)
  BY <1>2, <1>3
<1>5. RunOn(m, s) = u[n]
  BY <1>1, <1>3, Zenon DEF RunOn, IsRun, RunFrom
<1>6. \A i \in 0..n : u[i] = RunFrom(u, m, s, i)
  BY <1>4, Zenon DEF IsRun
<1>7. Goes(u, m, s, n)
  BY <1>1, <1>6 DEF Goes, RunFrom
<1> QED BY <1>1, <1>5, <1>7

LEMMA RunIs ==
  ASSUME NEW u, NEW m, NEW s, NEW n \in Nat, n = Len(s), Goes(u, m, s, n)
  PROVE  RunOn(m, s) = u[n]
<1>1. PICK v : Goes(v, m, s, n) /\ RunOn(m, s) = v[n]
  BY RunGoes
<1>2. v[n] = u[n]
  BY <1>1, GoesOnly
<1> QED BY <1>1, <1>2

LEMMA RunNone ==
  ASSUME NEW m
  PROVE  Listed(<< >>) /\ RunOn(m, << >>) = m
<1>1. PICK s : s = << >>
  OBVIOUS
<1>2. Len(s) = 0 /\ Listed(s)
  BY <1>1 DEF Listed
<1>3. Len(s) \in Nat
  BY <1>2
<1>4. PICK u : Goes(u, m, s, Len(s)) /\ RunOn(m, s) = u[Len(s)]
  BY <1>3, RunGoes
<1> QED BY <1>1, <1>2, <1>4 DEF Goes

LEMMA RunOne ==
  ASSUME NEW m, NEW i
  PROVE  Listed(<<i>>) /\ RunOn(m, <<i>>) = Executed(m, i)
<1>1. PICK s : s = <<i>>
  OBVIOUS
<1>2. s \in Seq({i}) /\ Len(s) = 1 /\ s[1] = i
  BY <1>1
<1>3. Listed(s)
  BY <1>2 DEF Listed
<1>7. Len(s) \in Nat
  BY <1>2
<1>4. PICK u : Goes(u, m, s, Len(s)) /\ RunOn(m, s) = u[Len(s)]
  BY <1>7, RunGoes
<1>5. 1 \in 1..1 /\ 1 - 1 = 0
  OBVIOUS
<1>6. u[1] = Executed(u[0], s[1]) /\ u[0] = m
  BY <1>2, <1>4, <1>5 DEF Goes
<1> QED BY <1>1, <1>2, <1>3, <1>4, <1>6

\* What is listed, one piece after the other.
LEMMA JoinListed ==
  ASSUME NEW a, NEW b, Listed(a), Listed(b)
  PROVE  /\ Listed(a \o b) /\ Len(a) \in Nat /\ Len(b) \in Nat /\ Len(a \o b) = Len(a) + Len(b)
         /\ DOMAIN a = 1..Len(a) /\ DOMAIN (a \o b) = 1..Len(a \o b)
         /\ \A i \in 1..Len(a) : (a \o b)[i] = a[i]
         /\ \A i \in 1..Len(b) : (a \o b)[Len(a) + i] = b[i]
<1>1. PICK S, T : a \in Seq(S) /\ b \in Seq(T)
  BY DEF Listed
<1>2. PICK U : U = S \cup T
  OBVIOUS
<1>3. a \in Seq(U) /\ b \in Seq(U)
  <2>1. Len(a) \in Nat /\ DOMAIN a = 1..Len(a) /\ Len(b) \in Nat /\ DOMAIN b = 1..Len(b)
    BY <1>1, LenProperties
  <2>2. (\A i \in 1..Len(a) : a[i] \in U) /\ (\A i \in 1..Len(b) : b[i] \in U)
    BY <1>1, <1>2, <2>1, ElementOfSeq
  <2>3. a = [i \in 1..Len(a) |-> a[i]] /\ b = [i \in 1..Len(b) |-> b[i]]
    BY <1>1, <2>1, SeqDef
  <2> QED BY <2>1, <2>2, <2>3, SeqDef
<1>4. /\ a \o b \in Seq(U) /\ Len(a \o b) = Len(a) + Len(b)
      /\ \A i \in 1..Len(a) + Len(b) : (a \o b)[i] = IF i <= Len(a) THEN a[i] ELSE b[i - Len(a)]
  BY <1>3, ConcatProperties
<1>5. Len(a) \in Nat /\ Len(b) \in Nat /\ DOMAIN a = 1..Len(a) /\ DOMAIN (a \o b) = 1..Len(a \o b)
  BY <1>3, <1>4, LenProperties
<1>6. ASSUME NEW i \in 1..Len(a) PROVE (a \o b)[i] = a[i]
  BY <1>4, <1>5
<1>7. ASSUME NEW i \in 1..Len(b) PROVE (a \o b)[Len(a) + i] = b[i]
  <2>1. Len(a) + i \in 1..Len(a) + Len(b) /\ ~(Len(a) + i <= Len(a)) /\ (Len(a) + i) - Len(a) = i
    BY <1>5
  <2> QED BY <1>4, <2>1
<1>8. Listed(a \o b)
  BY <1>4 DEF Listed
<1> QED BY <1>4, <1>5, <1>6, <1>7, <1>8

LEMMA RunJoin ==
  ASSUME NEW a, NEW b, Listed(a), Listed(b), NEW m
  PROVE  RunOn(m, a \o b) = RunOn(RunOn(m, a), b)
<1>1. PICK c, p, q : c = a \o b /\ p = Len(a) /\ q = Len(b)
  OBVIOUS
<1>2. /\ p \in Nat /\ q \in Nat /\ Len(c) = p + q
      /\ (\A i \in 1..p : c[i] = a[i]) /\ (\A i \in 1..q : c[p + i] = b[i])
  BY <1>1, JoinListed
<1>3. PICK u : Goes(u, m, a, p) /\ RunOn(m, a) = u[p]
  BY <1>1, <1>2, RunGoes
<1>4. PICK v : Goes(v, u[p], b, q) /\ RunOn(u[p], b) = v[q]
  BY <1>1, <1>2, RunGoes
<1>5. PICK w : w = [i \in 0..(p + q) |-> IF i <= p THEN u[i] ELSE v[i - p]]
  OBVIOUS
<1>6. \A i \in 0..p : w[i] = u[i]
  BY <1>2, <1>5
<1>7. \A i \in 0..q : w[p + i] = v[i]
  <2> SUFFICES ASSUME NEW i \in 0..q PROVE w[p + i] = v[i]
    OBVIOUS
  <2>1. CASE i = 0
    BY <1>2, <1>4, <1>6, <2>1 DEF Goes
  <2>2. CASE i # 0
    <3>1. p + i \in 0..(p + q) /\ ~(p + i <= p) /\ (p + i) - p = i
      BY <1>2, <2>2
    <3> QED BY <1>5, <3>1
  <2> QED BY <2>1, <2>2
<1>8. ASSUME NEW i \in 1..(p + q) PROVE w[i] = Executed(w[i - 1], c[i])
  <2>1. CASE i <= p
    <3>1. i \in 1..p /\ i \in 0..p /\ i - 1 \in 0..p
      BY <1>2, <2>1
    <3>2. u[i] = Executed(u[i - 1], a[i])
      BY <1>3, <3>1 DEF Goes
    <3> QED BY <1>2, <1>6, <3>1, <3>2
  <2>2. CASE ~(i <= p)
    <3>1. PICK j \in 1..q : i = p + j
      <4>1. i - p \in 1..q /\ i = p + (i - p)
        BY <1>2, <2>2
      <4> QED BY <4>1
    <3>2. j \in 0..q /\ j - 1 \in 0..q /\ i - 1 = p + (j - 1)
      BY <1>2, <3>1
    <3>3. v[j] = Executed(v[j - 1], b[j])
      BY <1>4, <3>1 DEF Goes
    <3>4. w[i] = v[j] /\ w[i - 1] = v[j - 1] /\ c[i] = b[j]
      BY <1>2, <1>7, <3>1, <3>2
    <3> QED BY <3>3, <3>4
  <2> QED BY <2>1, <2>2
<1>9. Goes(w, m, c, p + q)
  <2>1. w[0] = m
    BY <1>2, <1>3, <1>6 DEF Goes
  <2> QED BY <1>8, <2>1 DEF Goes
<1>10. RunOn(m, c) = w[p + q]
  <2>1. p + q \in Nat
    BY <1>2
  <2> QED BY <1>2, <1>9, <2>1, RunIs
<1>11. w[p + q] = v[q]
  BY <1>2, <1>7
<1> QED BY <1>1, <1>3, <1>4, <1>10, <1>11

-----------------------------------------------------------------------------
(* The machine, its memory that of the program.                            *)

Registers == {"ax", "al", "cx", "cl", "dx", "rdx", "si", "di"}

InMachine(m) ==
  /\ m = [reg |-> m.reg, rcx |-> m.rcx, mem |-> m.mem, temp |-> m.temp, flags |-> m.flags, called |-> m.called, taken |-> m.taken]
  /\ DOMAIN m.reg = Registers

Holds(m) == InMachine(m) /\ m.mem = mem /\ m.temp = temp

\* Nothing changes but the registers in R.
Same(n, m, R) == /\ Holds(n) /\ n.flags = m.flags /\ n.rcx = m.rcx /\ n.taken = m.taken
                 /\ \A q \in Registers \ R : n.reg[q] = m.reg[q]

\* What Store makes of memory.
MemAfter(a, v)  == IF a.kind = "temp" THEN mem ELSE [mem EXCEPT ![a.name][IndexOf(a)] = v]
TempAfter(a, v) == IF a.kind = "temp" THEN [temp EXCEPT ![a.no] = v] ELSE temp

\* An operand of an instruction that is executed.
Usable(a) == a \in Terms /\ (a.kind = "temp" => a \in Temps(code)) /\ Mapped(a)

\* The index register of an element is set.
Indexed(m, a, r) == a.kind = "arr" /\ a.index.kind = "var" => m.reg[r] = mem[a.index.name][1]

LEMMA NoJunk ==
  Junk \in Int /\ 1 # Junk /\ 0 # Junk /\ \A v \in Word : v # Junk
<1>1. MaxInt \in Nat \ {0}
  BY WordsAssumption
<1>2. Words = MaxInt + MaxInt + 2 /\ MinInt = -MaxInt - 1
  BY <1>1 DEF Words, MinInt
<1>3. Junk \in Int /\ Junk > MaxInt + 1
  BY <1>1, <1>2 DEF Junk
<1> QED BY <1>1, <1>2, <1>3 DEF Word

LEMMA RegisterSet ==
  ASSUME NEW m, InMachine(m), NEW r \in Registers, NEW v, NEW n, n = SetReg(m, r, v)
  PROVE  /\ InMachine(n) /\ n.rcx = m.rcx /\ n.mem = m.mem /\ n.temp = m.temp /\ n.flags = m.flags
         /\ n.called = m.called /\ n.taken = m.taken
         /\ n.reg[r] = v /\ (\A q \in Registers \ ({r} \cup Overlaps(r)) : n.reg[q] = m.reg[q])
         /\ \A q \in Overlaps(r) : n.reg[q] = Junk
<1>1. PICK regs : regs = [q \in DOMAIN m.reg |-> IF q = r THEN v ELSE IF q \in Overlaps(r) THEN Junk ELSE m.reg[q]]
  OBVIOUS
<1>2. n = [m EXCEPT !.reg = regs]
  BY <1>1 DEF SetReg
<1>3. n = [reg |-> regs, rcx |-> m.rcx, mem |-> m.mem, temp |-> m.temp, flags |-> m.flags, called |-> m.called, taken |-> m.taken]
  BY <1>2 DEF InMachine
<1>6. Overlaps(r) \subseteq Registers /\ r \notin Overlaps(r)
  BY DEF Overlaps, Registers
<1>4. /\ DOMAIN regs = Registers /\ regs[r] = v /\ (\A q \in Registers \ ({r} \cup Overlaps(r)) : regs[q] = m.reg[q])
      /\ \A q \in Overlaps(r) : regs[q] = Junk
  BY <1>1, <1>6 DEF InMachine
<1>5. InMachine(n)
  BY <1>3, <1>4 DEF InMachine
<1> QED BY <1>3, <1>4, <1>5

\* The widths of the registers, and those that hold an operand.
LEMMA RegisterOf ==
  ASSUME NEW type \in Types
  PROVE  /\ std_regs(0, type) = Reg(IF type = "integer" THEN "ax" ELSE "al")
         /\ std_regs(2, type) = Reg(IF type = "integer" THEN "cx" ELSE "cl")
         /\ std_regs(3, type) = Reg("rcx")
         /\ \A k \in {0, 2} : /\ std_regs(k, type).kind = "reg" /\ std_regs(k, type).reg \in Registers
                              /\ std_regs(k, type).reg \notin {"si", "di"}
                              /\ WidthOf(std_regs(k, type).reg) = type
  BY DEF std_regs, Reg, WidthOf, Types, Registers

\* An index is loaded when there is one to load.
LEMMA IndexLoaded ==
  ASSUME RunInv, NEW m, Holds(m), NEW a, Usable(a), NEW r \in {"si", "di"}, NEW n, n = RunOn(m, load_index_if_needed(a, r))
  PROVE  Same(n, m, {r}) /\ Indexed(n, a, r)
<1>1. CASE a.kind = "arr" /\ a.index.kind = "var"
  <2>1. a.index \in VarAddrs /\ Vars[a.index.name].type = "integer" /\ Vars[a.index.name].size = 0
    <3>1. a \in ArrAddrs
      BY <1>1 DEF Usable, Terms, Cells, VarAddrs, TempAddrs, ConstAddrs
    <3> QED BY <1>1, <3>1 DEF ArrAddrs, IndexAddrs, ConstAddrs
  <2>2. PICK x, o, i : x = a.index /\ o = addr_to_x86_arg(x, Unsized, "none") /\ i = Machine("mov", Reg(r), o)
    OBVIOUS
  <2>3. n = Executed(m, i)
    BY <1>1, <2>2, RunOne DEF load_index_if_needed
  <2>4. x.kind = "var" /\ x.name \in DOMAIN Vars /\ TypeOf(x) = "integer"
    BY <2>1, <2>2 DEF VarAddrs, TypeOf
  <2>5. o.kind = "mem" /\ o.addr = x
    BY <2>2, <2>4 DEF addr_to_x86_arg
  <2>6. i.op = "mov" /\ i.arg1 = Reg(r) /\ i.arg2 = o /\ Reg(r).kind = "reg" /\ Reg(r).reg = r
    BY <2>2 DEF Machine, Reg
  <2>7. Width(i) = "integer"
    <3>1. WidthOf(r) = "integer"
      BY DEF WidthOf
    <3>2. i.arg1.kind = "reg" /\ i.arg1.reg = r
      BY <2>6
    <3>3. Width(i) = WidthOf(i.arg1.reg)
      BY <3>2, Zenon DEF Width
    <3> QED BY <3>1, <3>2, <3>3
  <2>8. Load(m, o, "integer") = mem[x.name][1]
    <3>1. mem[x.name] \in [CellsOf(x.name) -> ValuesOf(Vars[x.name].type)] /\ CellsOf(x.name) = 1..1
      BY <2>1, <2>2, <2>4 DEF RunInv, MemInv, CellsOf
    <3>2. 1 \in DOMAIN mem[x.name]
      BY <3>1
    <3>3. ElementOf(m, o) = 1
      BY <2>4, <2>5 DEF ElementOf
    <3> QED BY <2>4, <2>5, <3>2, <3>3 DEF Load, Holds
  <2>9. n = SetReg(m, r, mem[x.name][1])
    <3>1. n = StoreIn(m, Reg(r), "integer", Load(m, o, "integer"))
      BY <2>3, <2>6, <2>7 DEF Executed
    <3> QED BY <2>6, <2>8, <3>1 DEF StoreIn
  <2>10. Overlaps(r) = {} /\ r \in Registers
    BY DEF Overlaps, Registers
  <2>11. Same(n, m, {r}) /\ n.reg[r] = mem[x.name][1]
    BY <2>9, <2>10, RegisterSet DEF Holds, Same
  <2> QED BY <2>2, <2>11 DEF Indexed
<1>2. CASE ~(a.kind = "arr" /\ a.index.kind = "var")
  <2>1. n = m
    BY <1>2, RunNone DEF load_index_if_needed
  <2> QED BY <1>2, <2>1 DEF Same, Indexed
<1> QED BY <1>1, <1>2

\* An operand is read with the index register that was set for it.
LEMMA OperandRead ==
  ASSUME RunInv, NEW m, Holds(m), NEW a, Usable(a), NEW r, Indexed(m, a, r), NEW sized, NEW width,
         a.kind # "const" => width = AddrType(a)
  PROVE  Load(m, addr_to_x86_arg(a, sized, r), width) = Value(a)
<1>1. PICK o : o = addr_to_x86_arg(a, sized, r)
  OBVIOUS
<1>2. a \in Addrs /\ a.kind \in {"var", "temp", "const", "arr"}
  BY DEF Usable, Addrs, Terms, Cells, VarAddrs, TempAddrs, ConstAddrs, ArrAddrs
<1>3. CASE a.kind = "const"
  <2>1. o = Imm(a.val)
    BY <1>1, <1>3 DEF addr_to_x86_arg
  <2> QED BY <1>1, <1>3, <2>1 DEF Load, Imm, Value
<1>4. CASE a.kind # "const"
  <2>1. o.kind = "mem" /\ o.addr = a /\ o.index = r
    BY <1>1, <1>4 DEF addr_to_x86_arg
  <2>2. width = TypeOf(a)
    BY <1>4 DEF AddrType, TypeOf
  <2>3. CASE a.kind = "temp"
    BY <1>1, <2>1, <2>2, <2>3 DEF Load, Value, Holds
  <2>4. CASE a.kind \in {"var", "arr"}
    <3>1. ElementOf(m, o) = IndexOf(a)
      <4>1. CASE a.kind = "var"
        BY <2>1, <4>1 DEF ElementOf, IndexOf
      <4>2. CASE a.kind = "arr" /\ a.index.kind = "const"
        BY <2>1, <4>2 DEF ElementOf, IndexOf
      <4>3. CASE a.kind = "arr" /\ a.index.kind # "const"
        <5>1. a \in ArrAddrs
          BY <1>2, <4>3, KindOf
        <5>2. a.index.kind = "var"
          BY <4>3, <5>1 DEF ArrAddrs, IndexAddrs, VarAddrs, ConstAddrs
        <5> QED BY <2>1, <4>3, <5>2 DEF ElementOf, IndexOf, Indexed
      <4> QED BY <2>4, <4>1, <4>2, <4>3
    <3>2. IndexOf(a) \in DOMAIN mem[a.name]
      <4>1. CASE a.kind = "arr"
        BY <4>1 DEF Usable, Mapped
      <4>2. CASE a.kind = "var"
        <5>1. a.name \in DOMAIN Vars
          BY <1>2, <4>2, KindOf DEF VarAddrs
        <5>2. Vars[a.name].size \in Nat /\ DOMAIN mem[a.name] = CellsOf(a.name)
          BY <5>1, VarsAssumption DEF RunInv, MemInv
        <5>3. IndexOf(a) = 1
          BY <4>2 DEF IndexOf
        <5> QED BY <5>2, <5>3 DEF CellsOf
      <4> QED BY <2>4, <4>1, <4>2
    <3>3. Value(a) = mem[a.name][IndexOf(a)]
      BY <2>4 DEF Value
    <3> QED BY <1>1, <2>1, <2>2, <2>4, <3>1, <3>2, <3>3 DEF Load, Holds
  <2> QED BY <1>2, <1>4, <2>3, <2>4
<1> QED BY <1>3, <1>4

\* And written: what Store does.
LEMMA OperandWritten ==
  ASSUME RunInv, NEW m, Holds(m), NEW a \in Cells, Usable(a), NEW r, Indexed(m, a, r), NEW sized, NEW v,
         NEW n, n = StoreIn(m, addr_to_x86_arg(a, sized, r), AddrType(a), v)
  PROVE  n.mem = MemAfter(a, v) /\ n.temp = TempAfter(a, v) /\ n.taken = m.taken
<1>1. PICK o : o = addr_to_x86_arg(a, sized, r)
  OBVIOUS
<1>2. a \in Addrs /\ a.kind \in {"var", "temp", "arr"}
  BY DEF Usable, Addrs, Terms, Cells, VarAddrs, TempAddrs, ArrAddrs
<1>3. o.kind = "mem" /\ o.addr = a /\ o.index = r
  BY <1>1, <1>2 DEF addr_to_x86_arg
<1>4. AddrType(a) = TypeOf(a)
  BY DEF AddrType, TypeOf
<1>5. CASE a.kind = "temp"
  <2>1. n = [m EXCEPT !.temp[a.no] = v]
    BY <1>1, <1>3, <1>4, <1>5 DEF StoreIn
  <2> QED BY <1>5, <2>1 DEF Holds, InMachine, MemAfter, TempAfter
<1>6. CASE a.kind # "temp"
  <2>1. a.name \in DOMAIN Vars /\ mem[a.name] \in [CellsOf(a.name) -> ValuesOf(Vars[a.name].type)] /\ DOMAIN mem = DOMAIN Vars
    <3>1. a.name \in DOMAIN Vars
      BY <1>2, <1>6, KindOf DEF VarAddrs, ArrAddrs
    <3> QED BY <3>1 DEF RunInv, MemInv
  <2>2. ElementOf(m, o) = IndexOf(a)
    <3>1. CASE a.kind = "var"
      BY <1>3, <3>1 DEF ElementOf, IndexOf
    <3>2. CASE a.kind = "arr" /\ a.index.kind = "const"
      BY <1>3, <3>2 DEF ElementOf, IndexOf
    <3>3. CASE a.kind = "arr" /\ a.index.kind # "const"
      <4>1. a \in ArrAddrs
        BY <1>2, <3>3, KindOf
      <4>2. a.index.kind = "var"
        BY <3>3, <4>1 DEF ArrAddrs, IndexAddrs, VarAddrs, ConstAddrs
      <4> QED BY <1>3, <3>3, <4>2 DEF ElementOf, IndexOf, Indexed
    <3> QED BY <1>2, <1>6, <3>1, <3>2, <3>3
  <2>3. PICK name, e, cells : name = a.name /\ e = IndexOf(a) /\ cells = [k \in DOMAIN mem[name] |-> IF k = e THEN v ELSE mem[name][k]]
    OBVIOUS
  <2>4. n = [m EXCEPT !.mem[name] = [k \in DOMAIN @ |-> IF k = e THEN v ELSE @[k]]]
    BY <1>1, <1>3, <1>4, <1>6, <2>2, <2>3 DEF StoreIn
  <2>5. n = [m EXCEPT !.mem = [mem EXCEPT ![name] = cells]]
    BY <2>3, <2>4, Zenon DEF Holds
  <2>6. n.mem = [mem EXCEPT ![name] = cells] /\ n.temp = temp /\ n.taken = m.taken
    BY <2>5 DEF Holds, InMachine
  <2>7. cells = [mem[name] EXCEPT ![e] = v]
    BY <2>1, <2>3
  <2>8. MemAfter(a, v) = [mem EXCEPT ![name] = cells] /\ TempAfter(a, v) = temp
    BY <1>6, <2>3, <2>7 DEF MemAfter, TempAfter
  <2> QED BY <2>6, <2>8
<1> QED BY <1>5, <1>6

\* The register gets v: nothing else does, and its other names are lost.
Gets(n, m, reg, v) ==
  /\ reg \in Registers \ {"si", "di"} /\ Same(n, m, {"si", reg} \cup Overlaps(reg))
  /\ n.reg[reg] = v /\ \A q \in Overlaps(reg) : n.reg[q] = Junk

\* An operand goes to a register, or an operation is done with both.
LEMMA RegisterLoaded ==
  ASSUME RunInv, NEW m, Holds(m), NEW a, Usable(a), AddrType(a) \in Types, NEW k \in {0, 2},
         NEW op \in {"mov", "add", "sub", "and", "or"},
         NEW reg, reg = std_regs(k, AddrType(a)).reg, NEW n, n = RunOn(m, op_addr_to_reg(op, k, a))
  PROVE  /\ Listed(op_addr_to_reg(op, k, a))
         /\ Gets(n, m, reg, IF op = "mov" THEN Value(a) ELSE Arithmetic(op, m.reg[reg], Value(a)))
<1>1. PICK t, o, i, s : /\ t = AddrType(a) /\ o = addr_to_x86_arg(a, Unsized, "si")
                        /\ i = Machine(op, std_regs(k, t), o) /\ s = load_index_if_needed(a, "si")
  OBVIOUS
<1>2. t = TypeOf(a)
  BY <1>1 DEF AddrType, TypeOf
<1>3. op_addr_to_reg(op, k, a) = s \o <<i>>
  BY <1>1, <1>2 DEF op_addr_to_reg
<1>4. Listed(s) /\ Listed(<<i>>)
  BY <1>1, RunNone, RunOne DEF load_index_if_needed
<1>5. PICK x : x = RunOn(m, s)
  OBVIOUS
<1>6. Same(x, m, {"si"}) /\ Indexed(x, a, "si")
  BY <1>1, <1>5, IndexLoaded
<1>7. n = Executed(x, i)
  <2>1. n = RunOn(x, <<i>>)
    BY <1>3, <1>4, <1>5, RunJoin
  <2> QED BY <2>1, RunOne
<1>8. std_regs(k, t).kind = "reg" /\ reg \in Registers /\ reg \notin {"si", "di"} /\ WidthOf(reg) = t /\ reg = std_regs(k, t).reg
  BY <1>1, RegisterOf
<1>9. i.op = op /\ i.arg1 = std_regs(k, t) /\ i.arg2 = o
  BY <1>1 DEF Machine
<1>10. Width(i) = t
  BY <1>8, <1>9 DEF Width
<1>11. Load(x, o, t) = Value(a)
  BY <1>1, <1>6, OperandRead DEF Same
<1>12. Load(x, i.arg1, t) = x.reg[reg] /\ x.reg[reg] = m.reg[reg]
  <2>1. x.reg[reg] = m.reg[reg]
    BY <1>6, <1>8 DEF Same
  <2> QED BY <1>8, <1>9, <2>1 DEF Load
<1>13. PICK v : v = IF op = "mov" THEN Value(a) ELSE Arithmetic(op, m.reg[reg], Value(a))
  OBVIOUS
<1>14. n = SetReg(x, reg, v)
  <2>1. n = StoreIn(x, i.arg1, t, v)
    <3>1. CASE op = "mov"
      BY <1>7, <1>9, <1>10, <1>11, <1>13, <3>1 DEF Executed
    <3>2. CASE op \in {"add", "sub", "and", "or"}
      BY <1>7, <1>9, <1>10, <1>11, <1>12, <1>13, <3>2 DEF Executed
    <3> QED BY <3>1, <3>2
  <2> QED BY <1>8, <1>9, <2>1 DEF StoreIn
<1>15. Same(n, m, {"si", reg} \cup Overlaps(reg)) /\ n.reg[reg] = v /\ \A q \in Overlaps(reg) : n.reg[q] = Junk
  BY <1>6, <1>8, <1>14, RegisterSet DEF Same, Holds
<1>16. Listed(op_addr_to_reg(op, k, a))
  BY <1>3, <1>4, JoinListed
<1> QED BY <1>8, <1>13, <1>15, <1>16 DEF Gets

LEMMA MoveLoaded ==
  ASSUME RunInv, NEW m, Holds(m), NEW a, Usable(a), NEW t \in Types, AddrType(a) = t, NEW k \in {0, 2},
         NEW reg, reg = std_regs(k, t).reg, NEW n, n = RunOn(m, op_addr_to_reg("mov", k, a))
  PROVE  Listed(op_addr_to_reg("mov", k, a)) /\ Gets(n, m, reg, Value(a))
<1>1. PICK op : op = "mov"
  OBVIOUS
<1>2. op \in {"mov", "add", "sub", "and", "or"} /\ n = RunOn(m, op_addr_to_reg(op, k, a))
  BY <1>1
<1>3. AddrType(a) \in Types /\ reg = std_regs(k, AddrType(a)).reg
  OBVIOUS
<1>4. /\ Listed(op_addr_to_reg(op, k, a))
      /\ Gets(n, m, reg, IF op = "mov" THEN Value(a) ELSE Arithmetic(op, m.reg[reg], Value(a)))
  BY <1>2, <1>3, RegisterLoaded
<1> QED BY <1>1, <1>4

LEMMA OperationLoaded ==
  ASSUME RunInv, NEW m, Holds(m), NEW b, Usable(b), AddrType(b) \in Types, NEW op \in {"add", "sub", "and", "or"},
         NEW reg, reg = std_regs(0, AddrType(b)).reg, NEW n, n = RunOn(m, op_addr_to_reg(op, 0, b))
  PROVE  Listed(op_addr_to_reg(op, 0, b)) /\ Gets(n, m, reg, Arithmetic(op, m.reg[reg], Value(b)))
<1>1. op \in {"mov", "add", "sub", "and", "or"} /\ 0 \in {0, 2} /\ op # "mov"
  OBVIOUS
<1>2. /\ Listed(op_addr_to_reg(op, 0, b))
      /\ Gets(n, m, reg, IF op = "mov" THEN Value(b) ELSE Arithmetic(op, m.reg[reg], Value(b)))
  BY <1>1, RegisterLoaded
<1> QED BY <1>1, <1>2

\* Register 0 goes to an operand in memory.
LEMMA RegisterStored ==
  ASSUME RunInv, NEW m, Holds(m), NEW a \in Cells, Usable(a), AddrType(a) \in Types,
         NEW v, v = m.reg[std_regs(0, AddrType(a)).reg], NEW n, n = RunOn(m, op_reg_to_addr("mov", a, 0))
  PROVE  /\ Listed(op_reg_to_addr("mov", a, 0))
         /\ n.mem = MemAfter(a, v) /\ n.temp = TempAfter(a, v) /\ n.taken = m.taken
<1>1. PICK t, o, i, s, reg : /\ t = AddrType(a) /\ o = addr_to_x86_arg(a, Unsized, "di")
                             /\ i = Machine("mov", o, std_regs(0, t)) /\ s = load_index_if_needed(a, "di")
                             /\ reg = std_regs(0, t).reg
  OBVIOUS
<1>2. t = TypeOf(a)
  BY <1>1 DEF AddrType, TypeOf
<1>3. op_reg_to_addr("mov", a, 0) = s \o <<i>>
  BY <1>1, <1>2 DEF op_reg_to_addr
<1>4. Listed(s) /\ Listed(<<i>>)
  BY <1>1, RunNone, RunOne DEF load_index_if_needed
<1>5. PICK x : x = RunOn(m, s)
  OBVIOUS
<1>6. Same(x, m, {"di"}) /\ Indexed(x, a, "di")
  BY <1>1, <1>5, IndexLoaded
<1>7. n = Executed(x, i)
  <2>1. n = RunOn(x, <<i>>)
    <3>1. RunOn(m, s \o <<i>>) = RunOn(RunOn(m, s), <<i>>)
      BY <1>4, RunJoin
    <3> QED BY <1>3, <1>5, <3>1
  <2> QED BY <2>1, RunOne
<1>8. std_regs(0, t).kind = "reg" /\ reg \in Registers /\ reg \notin {"si", "di"} /\ WidthOf(reg) = t
  BY <1>1, RegisterOf
<1>9. i.op = "mov" /\ i.arg1 = o /\ i.arg2 = std_regs(0, t)
  BY <1>1 DEF Machine
<1>10. o.kind = "mem"
  <2>1. a.kind # "const"
    BY DEF Cells, VarAddrs, TempAddrs, ArrAddrs
  <2> QED BY <1>1, <2>1 DEF addr_to_x86_arg
<1>11. Width(i) = t
  BY <1>1, <1>8, <1>9, <1>10 DEF Width
<1>12. Load(x, i.arg2, t) = v
  <2>1. x.reg[reg] = m.reg[reg]
    BY <1>6, <1>8 DEF Same
  <2> QED BY <1>1, <1>8, <1>9, <2>1 DEF Load
<1>13. n = StoreIn(x, o, t, v)
  BY <1>7, <1>9, <1>11, <1>12 DEF Executed
<1>14. n.mem = MemAfter(a, v) /\ n.temp = TempAfter(a, v) /\ n.taken = x.taken
  BY <1>1, <1>6, <1>13, OperandWritten DEF Same
<1>15. Listed(op_reg_to_addr("mov", a, 0))
  BY <1>3, <1>4, JoinListed
<1> QED BY <1>6, <1>14, <1>15 DEF Same

\* Both operands in one instruction, when one of them is a constant.
LEMMA DirectlyDone ==
  ASSUME RunInv, NEW m, Holds(m), NEW a, Usable(a), NEW b, Usable(b), OneConstant(a, b), NEW t, AddrType(a) = t, AddrType(b) = t,
         NEW op, NEW n, n = RunOn(m, Directly(op, a, b)),
         NEW i, i = Machine(op, addr_to_x86_arg(a, Sized, "si"), addr_to_x86_arg(b, Sized, "di"))
  PROVE  /\ Listed(Directly(op, a, b)) /\ Width(i) = t
         /\ \E x : /\ n = Executed(x, i) /\ Holds(x) /\ x.taken = m.taken
                   /\ Indexed(x, a, "si") /\ Indexed(x, b, "di")
                   /\ Load(x, i.arg1, t) = Value(a) /\ Load(x, i.arg2, t) = Value(b)
<1>1. PICK s, d : s = load_index_if_needed(a, "si") /\ d = load_index_if_needed(b, "di")
  OBVIOUS
<1>2. Listed(s) /\ Listed(d) /\ Listed(<<i>>)
  BY <1>1, RunNone, RunOne DEF load_index_if_needed
<1>3. Directly(op, a, b) = (s \o d) \o <<i>>
  BY <1>1 DEF Directly
<1>4. Listed(s \o d)
  BY <1>2, JoinListed
<1>5. PICK y : y = RunOn(m, s)
  OBVIOUS
<1>6. PICK x : x = RunOn(y, d)
  OBVIOUS
<1>7. n = Executed(x, i)
  <2>1. RunOn(m, s \o d) = x
    BY <1>2, <1>5, <1>6, RunJoin
  <2>2. n = RunOn(x, <<i>>)
    BY <1>2, <1>3, <1>4, <2>1, RunJoin
  <2> QED BY <2>2, RunOne
<1>8. Same(y, m, {"si"}) /\ Indexed(y, a, "si")
  BY <1>1, <1>5, IndexLoaded
<1>9. Same(x, y, {"di"}) /\ Indexed(x, b, "di")
  <2>1. Holds(y)
    BY <1>8 DEF Same
  <2> QED BY <1>1, <1>6, <2>1, IndexLoaded
<1>10. Indexed(x, a, "si")
  BY <1>8, <1>9 DEF Indexed, Same, Registers
<1>11. Holds(x) /\ x.taken = m.taken
  BY <1>8, <1>9 DEF Same
<1>12. i.arg1 = addr_to_x86_arg(a, Sized, "si") /\ i.arg2 = addr_to_x86_arg(b, Sized, "di")
  BY DEF Machine
<1>13. Load(x, i.arg1, t) = Value(a) /\ Load(x, i.arg2, t) = Value(b)
  <2>1. Load(x, i.arg1, t) = Value(a)
    BY <1>10, <1>11, <1>12, OperandRead
  <2>2. Load(x, i.arg2, t) = Value(b)
    BY <1>9, <1>11, <1>12, OperandRead
  <2> QED BY <2>1, <2>2
<1>14. Width(i) = t
  <2>1. TypeOf(a) = t /\ TypeOf(b) = t
    BY DEF AddrType, TypeOf
  <2>2. CASE a.kind = "const" /\ b.kind # "const"
    <3>1. i.arg1.kind = "imm" /\ i.arg2.kind = "mem" /\ i.arg2.size = t
      BY <1>12, <2>1, <2>2 DEF addr_to_x86_arg, Imm, Sized
    <3> QED BY <3>1 DEF Width
  <2>3. CASE a.kind # "const" /\ b.kind = "const"
    <3>1. i.arg1.kind = "mem" /\ i.arg1.size = t /\ i.arg2.kind = "imm"
      BY <1>12, <2>1, <2>3 DEF addr_to_x86_arg, Imm, Sized
    <3> QED BY <3>1 DEF Width
  <2> QED BY <2>2, <2>3 DEF OneConstant
<1>15. Listed(Directly(op, a, b))
  BY <1>2, <1>3, <1>4, JoinListed
<1> QED BY <1>7, <1>9, <1>10, <1>11, <1>13, <1>14, <1>15

LEMMA MoveDone ==
  ASSUME RunInv, NEW m, Holds(m), NEW a \in Cells, Usable(a), NEW b, Usable(b), AddrType(a) \in Types, AddrType(a) = AddrType(b),
         NEW n, n = RunOn(m, op_addr_to_addr("mov", a, b))
  PROVE  n.mem = MemAfter(a, Value(b)) /\ n.temp = TempAfter(a, Value(b)) /\ n.taken = m.taken
<1>1. PICK t, reg : t = AddrType(a) /\ reg = std_regs(0, t).reg
  OBVIOUS
<1>2. CASE OneConstant(a, b)
  <2>1. PICK i : i = Machine("mov", addr_to_x86_arg(a, Sized, "si"), addr_to_x86_arg(b, Sized, "di"))
    OBVIOUS
  <2>2. n = RunOn(m, Directly("mov", a, b))
    BY <1>2 DEF op_addr_to_addr
  <2>3. Width(i) = t
    BY <1>1, <1>2, <2>1, <2>2, DirectlyDone
  <2>4. PICK x : /\ n = Executed(x, i) /\ Holds(x) /\ x.taken = m.taken /\ Indexed(x, a, "si")
                 /\ Load(x, i.arg2, t) = Value(b)
    BY <1>1, <1>2, <2>1, <2>2, DirectlyDone
  <2>5. i.op = "mov" /\ i.arg1 = addr_to_x86_arg(a, Sized, "si")
    BY <2>1 DEF Machine
  <2>6. n = StoreIn(x, addr_to_x86_arg(a, Sized, "si"), AddrType(a), Value(b))
    BY <1>1, <2>3, <2>4, <2>5 DEF Executed
  <2> QED BY <2>4, <2>6, OperandWritten
<1>3. CASE ~OneConstant(a, b)
  <2>1. PICK p, q, x : p = op_addr_to_reg("mov", 0, b) /\ q = op_reg_to_addr("mov", a, 0) /\ x = RunOn(m, p)
    OBVIOUS
  <2>2. Listed(p) /\ Gets(x, m, reg, Value(b))
    BY <1>1, <2>1, MoveLoaded
  <2>3. Holds(x) /\ x.taken = m.taken /\ x.reg[reg] = Value(b)
    BY <2>2 DEF Gets, Same
  <2>4. PICK z : z = RunOn(x, q)
    OBVIOUS
  <2>5. Listed(q) /\ z.mem = MemAfter(a, Value(b)) /\ z.temp = TempAfter(a, Value(b)) /\ z.taken = x.taken
    BY <1>1, <2>1, <2>3, <2>4, RegisterStored
  <2>6. n = z
    <3>1. n = RunOn(m, p \o q)
      BY <1>3, <2>1 DEF op_addr_to_addr
    <3> QED BY <2>1, <2>2, <2>4, <2>5, <3>1, RunJoin
  <2> QED BY <2>3, <2>5, <2>6
<1> QED BY <1>2, <1>3

LEMMA ComparedDone ==
  ASSUME RunInv, NEW m, Holds(m), NEW a, Usable(a), NEW b, Usable(b), AddrType(a) \in Types, AddrType(a) = AddrType(b),
         NEW n, n = RunOn(m, op_addr_to_addr("cmp", a, b))
  PROVE  Listed(op_addr_to_addr("cmp", a, b)) /\ Holds(n) /\ n.flags = <<Value(a), Value(b)>> /\ n.taken = m.taken
<1>1. PICK t, reg : t = AddrType(a) /\ reg = std_regs(0, t).reg
  OBVIOUS
<1>2. ASSUME NEW x, Holds(x), NEW v, NEW w, NEW y, y = [x EXCEPT !.flags = <<v, w>>]
      PROVE  Holds(y) /\ y.flags = <<v, w>> /\ y.taken = x.taken
  BY <1>2 DEF Holds, InMachine
<1>3. CASE OneConstant(a, b)
  <2>1. PICK i : i = Machine("cmp", addr_to_x86_arg(a, Sized, "si"), addr_to_x86_arg(b, Sized, "di"))
    OBVIOUS
  <2>2. n = RunOn(m, Directly("cmp", a, b)) /\ op_addr_to_addr("cmp", a, b) = Directly("cmp", a, b)
    BY <1>3 DEF op_addr_to_addr
  <2>3. Listed(Directly("cmp", a, b)) /\ Width(i) = t
    BY <1>1, <1>3, <2>1, <2>2, DirectlyDone
  <2>4. PICK x : n = Executed(x, i) /\ Holds(x) /\ x.taken = m.taken /\ Load(x, i.arg1, t) = Value(a) /\ Load(x, i.arg2, t) = Value(b)
    BY <1>1, <1>3, <2>1, <2>2, DirectlyDone
  <2>5. i.op = "cmp"
    BY <2>1 DEF Machine
  <2>6. n = [x EXCEPT !.flags = <<Value(a), Value(b)>>]
    BY <2>3, <2>4, <2>5 DEF Executed
  <2> QED BY <1>2, <2>2, <2>3, <2>4, <2>6
<1>4. CASE ~OneConstant(a, b)
  <2>1. PICK p, s, o, i, x : /\ p = op_addr_to_reg("mov", 0, b) /\ s = load_index_if_needed(a, "di") /\ x = RunOn(m, p)
                             /\ o = addr_to_x86_arg(a, Unsized, "di") /\ i = Machine("cmp", o, std_regs(0, t))
    OBVIOUS
  <2>2. op_addr_to_addr("cmp", a, b) = p \o (s \o <<i>>)
    <3>1. t = TypeOf(a)
      BY <1>1 DEF AddrType, TypeOf
    <3> QED BY <1>4, <2>1, <3>1 DEF op_addr_to_addr, op_reg_to_addr
  <2>3. Listed(p) /\ Gets(x, m, reg, Value(b))
    BY <1>1, <2>1, MoveLoaded
  <2>4. Holds(x) /\ x.taken = m.taken /\ x.reg[reg] = Value(b) /\ reg \in Registers \ {"si", "di"}
    BY <2>3 DEF Gets, Same
  <2>5. Listed(s) /\ Listed(<<i>>)
    BY <2>1, RunNone, RunOne DEF load_index_if_needed
  <2>6. PICK y : y = RunOn(x, s)
    OBVIOUS
  <2>7. Same(y, x, {"di"}) /\ Indexed(y, a, "di")
    BY <2>1, <2>4, <2>6, IndexLoaded
  <2>8. Holds(y) /\ y.taken = m.taken /\ y.reg[reg] = Value(b)
    BY <2>4, <2>7 DEF Same
  <2>9. n = Executed(y, i)
    <3>1. PICK q : q = s \o <<i>>
      OBVIOUS
    <3>2. Listed(q)
      BY <2>5, <3>1, JoinListed
    <3>3. n = RunOn(m, p \o q)
      BY <2>2, <3>1
    <3>4. n = RunOn(x, q)
      BY <2>1, <2>3, <3>2, <3>3, RunJoin
    <3>5. n = RunOn(y, <<i>>)
      BY <2>5, <2>6, <3>1, <3>4, RunJoin
    <3> QED BY <3>5, RunOne
  <2>10. i.op = "cmp" /\ i.arg1 = o /\ i.arg2 = std_regs(0, t)
    BY <2>1 DEF Machine
  <2>11. std_regs(0, t).kind = "reg" /\ WidthOf(reg) = t
    BY <1>1, RegisterOf
  <2>12. o.kind # "reg"
    BY <2>1 DEF addr_to_x86_arg, Imm
  <2>13. Width(i) = t
    BY <1>1, <2>10, <2>11, <2>12 DEF Width
  <2>14. Load(y, o, t) = Value(a)
    BY <1>1, <2>1, <2>7, <2>8, OperandRead
  <2>15. Load(y, i.arg2, t) = Value(b)
    BY <1>1, <2>8, <2>10, <2>11 DEF Load
  <2>16. n = [y EXCEPT !.flags = <<Value(a), Value(b)>>]
    BY <2>9, <2>10, <2>13, <2>14, <2>15 DEF Executed
  <2>17. Listed(op_addr_to_addr("cmp", a, b))
    BY <2>2, <2>3, <2>5, JoinListed
  <2> QED BY <1>2, <2>8, <2>16, <2>17
<1> QED BY <1>3, <1>4

\* An operation on one operand.
LEMMA Applied ==
  ASSUME RunInv, NEW m, Holds(m), NEW a \in Cells, Usable(a), NEW op, NEW n, n = RunOn(m, op_apply(op, a)),
         NEW i, i = Machine(op, addr_to_x86_arg(a, Sized, "si"), NoArg)
  PROVE  /\ Listed(op_apply(op, a)) /\ Width(i) = AddrType(a)
         /\ \E x : /\ n = Executed(x, i) /\ Same(x, m, {"si"}) /\ Indexed(x, a, "si") /\ Load(x, i.arg1, AddrType(a)) = Value(a)
<1>1. PICK s : s = load_index_if_needed(a, "si")
  OBVIOUS
<1>2. Listed(s) /\ Listed(<<i>>)
  BY <1>1, RunNone, RunOne DEF load_index_if_needed
<1>3. op_apply(op, a) = s \o <<i>>
  BY <1>1 DEF op_apply
<1>4. PICK x : x = RunOn(m, s)
  OBVIOUS
<1>5. Same(x, m, {"si"}) /\ Indexed(x, a, "si")
  BY <1>1, <1>4, IndexLoaded
<1>6. n = Executed(x, i)
  <2>1. n = RunOn(x, <<i>>)
    BY <1>2, <1>3, <1>4, RunJoin
  <2> QED BY <2>1, RunOne
<1>7. i.arg1 = addr_to_x86_arg(a, Sized, "si") /\ i.arg2 = NoArg
  BY DEF Machine
<1>8. Load(x, i.arg1, AddrType(a)) = Value(a)
  BY <1>5, <1>7, OperandRead DEF Same
<1>9. Width(i) = AddrType(a)
  <2>1. a.kind # "const"
    BY DEF Cells, VarAddrs, TempAddrs, ArrAddrs
  <2>2. i.arg1.kind = "mem" /\ i.arg1.size = AddrType(a) /\ i.arg2.kind = "none"
    BY <1>7, <2>1 DEF addr_to_x86_arg, Sized, TypeOf, AddrType, NoArg
  <2> QED BY <2>2 DEF Width
<1>10. Listed(op_apply(op, a))
  BY <1>2, <1>3, JoinListed
<1> QED BY <1>5, <1>6, <1>8, <1>9, <1>10

-----------------------------------------------------------------------------
(* Instruction by instruction.                                             *)

\* The machine before the instructions.
Before == NewMachine(mem, temp)

LEMMA BeforeHolds ==
  Holds(Before) /\ Before.taken = FALSE /\ \A r \in Registers : Before.reg[r] = Junk
BY DEF Before, NewMachine, Holds, InMachine, Registers

LEMMA OperandUsable ==
  ASSUME JumpInv, RunInv, pc = "run", ip \in DOMAIN code, Executable, NEW a \in Operands, a \in Terms
  PROVE  Usable(a) /\ AddrType(a) \in Types /\ Value(a) \in ValuesOf(AddrType(a)) /\ Value(a) \in Word /\ Value(a) \in Int
<1>1. a.kind = "temp" => a \in Temps(code)
  BY Fetched
<1>2. Mapped(a)
  BY DEF Executable, Operands
<1>3. AddrType(a) \in Types
  <2>1. \A n \in DOMAIN Vars : Vars[n].type \in Types
    BY VarsAssumption
  <2> QED BY <2>1 DEF Terms, Cells, VarAddrs, ArrAddrs, TempAddrs, ConstAddrs, AddrType
<1> QED BY <1>1, <1>2, <1>3, ValueTyped DEF Usable

LEMMA StoreIs ==
  ASSUME NEW a, NEW v, Store(a, v)
  PROVE  mem' = MemAfter(a, v) /\ temp' = TempAfter(a, v)
BY DEF Store, MemAfter, TempAfter

LEMMA RunThree ==
  ASSUME NEW a, NEW b, NEW c, Listed(a), Listed(b), Listed(c), NEW m
  PROVE  Listed((a \o b) \o c) /\ RunOn(m, (a \o b) \o c) = RunOn(RunOn(RunOn(m, a), b), c)
<1>1. PICK d : d = a \o b
  OBVIOUS
<1>2. Listed(d) /\ RunOn(m, d) = RunOn(RunOn(m, a), b)
  BY <1>1, JoinListed, RunJoin
<1>3. Listed(d \o c) /\ RunOn(m, d \o c) = RunOn(RunOn(m, d), c)
  <2>1. Listed(d \o c)
    BY <1>2, JoinListed
  <2> QED BY <1>2, <2>1, RunJoin
<1> QED BY <1>1, <1>2, <1>3

\* The two instructions at the end of an operation on register 0.
LEMMA OperationStored ==
  ASSUME RunInv, NEW m, Holds(m), NEW b, Usable(b), NEW a \in Cells, Usable(a), AddrType(a) \in Types, AddrType(b) = AddrType(a),
         NEW op \in {"add", "sub", "and", "or"}, NEW p, NEW q, p = op_addr_to_reg(op, 0, b), q = op_reg_to_addr("mov", a, 0),
         NEW v, v = Arithmetic(op, m.reg[std_regs(0, AddrType(a)).reg], Value(b)),
         NEW n, n = RunOn(RunOn(m, p), q)
  PROVE  Listed(p) /\ Listed(q) /\ n.mem = MemAfter(a, v) /\ n.temp = TempAfter(a, v) /\ n.taken = m.taken
<1>1. PICK reg, x : reg = std_regs(0, AddrType(a)).reg /\ x = RunOn(m, p)
  OBVIOUS
<1>2. Listed(p) /\ Gets(x, m, reg, v)
  <2>1. AddrType(b) \in Types /\ reg = std_regs(0, AddrType(b)).reg
    BY <1>1
  <2> QED BY <1>1, <2>1, OperationLoaded
<1>3. Holds(x) /\ x.taken = m.taken /\ x.reg[reg] = v
  BY <1>2 DEF Gets, Same
<1>4. Listed(q) /\ n.mem = MemAfter(a, v) /\ n.temp = TempAfter(a, v) /\ n.taken = x.taken
  BY <1>1, <1>3, RegisterStored
<1> QED BY <1>2, <1>3, <1>4

\* Arithmetic and logic of words and bytes.
LEMMA SameOperation ==
  ASSUME NEW op \in {"PLUS", "MINUS", "AND", "OR"}, NEW v \in ValuesOf(ArgType(op)), NEW w \in ValuesOf(ArgType(op))
  PROVE  get_opcode(op) \in {"add", "sub", "and", "or"} /\ Arithmetic(get_opcode(op), v, w) = Opcode(op, v, w)
<1>1. ArgType(op) \in Types
  BY DEF ArgType, Types
<1>2. v # Junk /\ w # Junk
  BY <1>1, ValuesAreInts, NoJunk
<1>3. CASE op = "PLUS"
  BY <1>2, <1>3 DEF get_opcode, Arithmetic, Opcode
<1>4. CASE op = "MINUS"
  BY <1>2, <1>4 DEF get_opcode, Arithmetic, Opcode
<1>5. CASE op \in {"AND", "OR"}
  <2>1. v \in {0, 1} /\ w \in {0, 1}
    BY <1>5 DEF ArgType, ValuesOf
  <2>2. CASE op = "AND"
    <3>1. Arithmetic("and", v, w) = v * w /\ Opcode(op, v, w) = IF v = 1 /\ w = 1 THEN 1 ELSE 0
      BY <1>2, <2>2 DEF Arithmetic, Opcode
    <3>2. v * w = IF v = 1 /\ w = 1 THEN 1 ELSE 0
      BY <2>1
    <3> QED BY <2>2, <3>1, <3>2 DEF get_opcode
  <2>3. CASE op = "OR"
    <3>1. Arithmetic("or", v, w) = (v + w) - (v * w) /\ Opcode(op, v, w) = IF v = 1 \/ w = 1 THEN 1 ELSE 0
      BY <1>2, <2>3 DEF Arithmetic, Opcode
    <3>2. (v + w) - (v * w) = IF v = 1 \/ w = 1 THEN 1 ELSE 0
      BY <2>1
    <3> QED BY <2>3, <3>1, <3>2 DEF get_opcode
  <2> QED BY <1>5, <2>2, <2>3
<1> QED BY <1>3, <1>4, <1>5

\* The instruction that is executed, and what its operands are.
LEMMA Executing ==
  ASSUME JumpInv, RunInv, NEW ops, Fetch(ops), NEW I, I = Instr
  PROVE  /\ pc = "run" /\ I.op \in ops /\ I \in Instrs /\ Fit(I.op, I.res, I.arg1, I.arg2) /\ ~Traps
         /\ \A a \in {I.res, I.arg1, I.arg2} : a \in Terms =>
              Usable(a) /\ AddrType(a) \in Types /\ Value(a) \in ValuesOf(AddrType(a)) /\ Value(a) \in Word /\ Value(a) \in Int
<1>1. pc = "run" /\ ip \in DOMAIN code /\ Executable /\ I.op \in ops /\ ~Traps
  BY DEF Fetch, Executable
<1>2. I \in Instrs
  BY <1>1, Fetched
<1>3. Fit(I.op, I.res, I.arg1, I.arg2)
  BY <1>2, InstrTyped
<1>4. {I.res, I.arg1, I.arg2} = Operands
  BY DEF Operands
<1> QED BY <1>1, <1>2, <1>3, <1>4, OperandUsable

\* The machine's memory is as the instruction leaves it.
Wrote(m) == m.mem = mem' /\ m.temp = temp' /\ m.taken = FALSE

LEMMA MovExact ==
  ASSUME JumpInv, RunInv, Mov, NEW m, m = Run86(Instr)
  PROVE  Wrote(m)
<1>1. PICK I, a, b : I = Instr /\ a = I.res /\ b = I.arg1
  OBVIOUS
<1>2. Fetch({"MOV"}) /\ Store(a, Value(b))
  BY <1>1 DEF Mov
<1>3. I.op = "MOV" /\ Fit(I.op, a, b, I.arg2)
  BY <1>1, <1>2, Executing
<1>4. a \in Cells /\ a \in Terms /\ b \in Terms /\ AddrType(a) = AddrType(b)
  BY <1>3 DEF Fit, Terms
<1>5. Usable(a) /\ Usable(b) /\ AddrType(a) \in Types
  BY <1>1, <1>2, <1>4, Executing
<1>6. m = RunOn(Before, op_addr_to_addr("mov", a, b))
  BY <1>1, <1>3 DEF Run86, Before, compile_instr_to_x86
<1>7. m.mem = MemAfter(a, Value(b)) /\ m.temp = TempAfter(a, Value(b)) /\ m.taken = FALSE
  BY <1>4, <1>5, <1>6, BeforeHolds, MoveDone
<1>8. mem' = MemAfter(a, Value(b)) /\ temp' = TempAfter(a, Value(b))
  BY <1>2, StoreIs
<1> QED BY <1>7, <1>8 DEF Wrote

LEMMA ArithExact ==
  ASSUME JumpInv, RunInv, Arith, Instr.op \in {"PLUS", "MINUS", "AND", "OR"}, NEW m, m = Run86(Instr)
  PROVE  Wrote(m)
<1>1. PICK I, r, a, b : I = Instr /\ r = I.res /\ a = I.arg1 /\ b = I.arg2
  OBVIOUS
<1>2. Fetch({"PLUS", "MINUS", "MUL", "DIV", "AND", "OR"}) /\ Store(r, Opcode(I.op, Value(a), Value(b)))
  BY <1>1 DEF Arith
<1>3. I.op \in {"PLUS", "MINUS", "AND", "OR"} /\ Fit(I.op, r, a, b)
  BY <1>1, <1>2, Executing
<1>4. PICK t, op : t = ArgType(I.op) /\ op = get_opcode(I.op)
  OBVIOUS
<1>5. r \in Cells /\ r \in Terms /\ a \in Terms /\ b \in Terms /\ AddrType(r) = t /\ AddrType(a) = t /\ AddrType(b) = t
  <2>1. I.op \in Operators /\ ResultType(I.op) = ArgType(I.op)
    BY <1>3 DEF Operators, ResultType, ArgType
  <2> QED BY <1>3, <1>4, <2>1 DEF Fit, Terms
<1>6. /\ Usable(r) /\ Usable(a) /\ Usable(b) /\ t \in Types
      /\ Value(a) \in ValuesOf(t) /\ Value(b) \in ValuesOf(t)
  BY <1>1, <1>2, <1>5, Executing
<1>7. op \in {"add", "sub", "and", "or"} /\ Arithmetic(op, Value(a), Value(b)) = Opcode(I.op, Value(a), Value(b))
  BY <1>3, <1>4, <1>6, SameOperation
<1>8. PICK p, q, s, reg : p = op_addr_to_reg("mov", 0, a) /\ q = op_addr_to_reg(op, 0, b) /\ s = op_reg_to_addr("mov", r, 0)
                          /\ reg = std_regs(0, t).reg
  OBVIOUS
<1>9. m = RunOn(Before, (p \o q) \o s)
  BY <1>1, <1>3, <1>4, <1>8 DEF Run86, Before, compile_instr_to_x86
<1>10. PICK x : x = RunOn(Before, p)
  OBVIOUS
<1>11. Listed(p) /\ Holds(x) /\ x.taken = FALSE /\ x.reg[reg] = Value(a)
  <2>1. Listed(p) /\ Gets(x, Before, reg, Value(a))
    BY <1>5, <1>6, <1>8, <1>10, BeforeHolds, MoveLoaded
  <2> QED BY <2>1, BeforeHolds DEF Gets, Same
<1>12. PICK v : v = Arithmetic(op, x.reg[reg], Value(b))
  OBVIOUS
<1>13. PICK n : n = RunOn(RunOn(x, q), s)
  OBVIOUS
<1>14. Listed(q) /\ Listed(s) /\ n.mem = MemAfter(r, v) /\ n.temp = TempAfter(r, v) /\ n.taken = FALSE
  <2>1. Listed(q) /\ Listed(s) /\ n.mem = MemAfter(r, v) /\ n.temp = TempAfter(r, v) /\ n.taken = x.taken
    BY <1>5, <1>6, <1>7, <1>8, <1>11, <1>12, <1>13, OperationStored
  <2> QED BY <1>11, <2>1
<1>15. m = n
  BY <1>9, <1>10, <1>11, <1>13, <1>14, RunThree
<1>16. mem' = MemAfter(r, v) /\ temp' = TempAfter(r, v)
  <2>1. Store(r, v)
    BY <1>2, <1>7, <1>11, <1>12
  <2> QED BY <2>1, StoreIs
<1> QED BY <1>14, <1>15, <1>16 DEF Wrote

LEMMA UMinusExact ==
  ASSUME JumpInv, RunInv, UMinus, NEW m, m = Run86(Instr)
  PROVE  Wrote(m)
<1>1. PICK I, r, b : I = Instr /\ r = I.res /\ b = I.arg1
  OBVIOUS
<1>2. Fetch({"UMINUS"}) /\ Store(r, Wrap(0 - Value(b)))
  BY <1>1 DEF UMinus
<1>3. I.op = "UMINUS" /\ Fit(I.op, r, b, I.arg2)
  BY <1>1, <1>2, Executing
<1>4. r \in Cells /\ r \in Terms /\ b \in Terms /\ AddrType(r) = "integer" /\ AddrType(b) = "integer"
  BY <1>3 DEF Fit, Terms
<1>5. Usable(r) /\ Usable(b) /\ "integer" \in Types /\ Value(b) \in Word
  BY <1>1, <1>2, <1>4, Executing
<1>6. PICK i, q, s : i = Machine("xor", Reg("rax"), Reg("rax")) /\ q = op_addr_to_reg("sub", 0, b) /\ s = op_reg_to_addr("mov", r, 0)
  OBVIOUS
<1>7. m = RunOn(Before, (<<i>> \o q) \o s)
  BY <1>1, <1>3, <1>6 DEF Run86, Before, compile_instr_to_x86
<1>8. PICK x : x = RunOn(Before, <<i>>)
  OBVIOUS
<1>9. Listed(<<i>>) /\ Holds(x) /\ x.taken = FALSE /\ x.reg["ax"] = 0
  <2>1. Listed(<<i>>) /\ x = Executed(Before, i)
    BY <1>8, RunOne
  <2>2. i.op = "xor"
    BY <1>6 DEF Machine
  <2>3. x = [Before EXCEPT !.reg["ax"] = 0, !.reg["al"] = 0]
    BY <2>1, <2>2 DEF Executed
  <2>4. PICK y : y = Before
    OBVIOUS
  <2>5. InMachine(y) /\ y.mem = mem /\ y.temp = temp /\ y.taken = FALSE
    BY <2>4, BeforeHolds DEF Holds
  <2>6. PICK regs : regs = [[y.reg EXCEPT !["ax"] = 0] EXCEPT !["al"] = 0]
    OBVIOUS
  <2>7. x = [y EXCEPT !.reg = regs]
    BY <2>3, <2>4, <2>5, <2>6 DEF InMachine
  <2>8. DOMAIN regs = Registers /\ regs["ax"] = 0
    BY <2>5, <2>6 DEF InMachine, Registers
  <2> QED BY <2>1, <2>5, <2>7, <2>8 DEF Holds, InMachine
<1>10. std_regs(0, "integer").reg = "ax"
  BY <1>5, RegisterOf DEF Reg
<1>11. PICK v, n : v = Arithmetic("sub", x.reg["ax"], Value(b)) /\ n = RunOn(RunOn(x, q), s)
  OBVIOUS
<1>12. v = Wrap(0 - Value(b))
  BY <1>5, <1>9, <1>11, NoJunk DEF Arithmetic
<1>13. Listed(q) /\ Listed(s) /\ n.mem = MemAfter(r, v) /\ n.temp = TempAfter(r, v) /\ n.taken = FALSE
  <2>1. "sub" \in {"add", "sub", "and", "or"} /\ v = Arithmetic("sub", x.reg[std_regs(0, AddrType(r)).reg], Value(b))
    BY <1>4, <1>10, <1>11
  <2>2. Listed(q) /\ Listed(s) /\ n.mem = MemAfter(r, v) /\ n.temp = TempAfter(r, v) /\ n.taken = x.taken
    BY <1>4, <1>5, <1>6, <1>9, <1>11, <2>1, OperationStored
  <2> QED BY <1>9, <2>2
<1>14. m = n
  BY <1>7, <1>8, <1>9, <1>11, <1>13, RunThree
<1>15. mem' = MemAfter(r, v) /\ temp' = TempAfter(r, v)
  BY <1>2, <1>12, StoreIs
<1> QED BY <1>13, <1>14, <1>15 DEF Wrote

LEMMA IncExact ==
  ASSUME JumpInv, RunInv, Inc, NEW m, m = Run86(Instr)
  PROVE  Wrote(m)
<1>1. PICK I, r : I = Instr /\ r = I.res
  OBVIOUS
<1>2. Fetch({"INC"}) /\ Store(r, Wrap(Value(r) + 1))
  BY <1>1 DEF Inc
<1>3. I.op = "INC" /\ Fit(I.op, r, I.arg1, I.arg2)
  BY <1>1, <1>2, Executing
<1>4. r \in Cells /\ r \in Terms /\ AddrType(r) = "integer"
  BY <1>3 DEF Fit, Terms
<1>5. Usable(r) /\ Value(r) \in Word
  BY <1>1, <1>2, <1>4, Executing
<1>6. PICK i, v : i = Machine("inc", addr_to_x86_arg(r, Sized, "si"), NoArg) /\ v = Wrap(Value(r) + 1)
  OBVIOUS
<1>7. m = RunOn(Before, op_apply("inc", r))
  BY <1>1, <1>3 DEF Run86, Before, compile_instr_to_x86
<1>8. Width(i) = "integer"
  BY <1>4, <1>5, <1>6, <1>7, BeforeHolds, Applied
<1>9. PICK x : m = Executed(x, i) /\ Same(x, Before, {"si"}) /\ Indexed(x, r, "si") /\ Load(x, i.arg1, "integer") = Value(r)
  BY <1>4, <1>5, <1>6, <1>7, BeforeHolds, Applied
<1>10. i.op = "inc" /\ i.arg1 = addr_to_x86_arg(r, Sized, "si")
  BY <1>6 DEF Machine
<1>11. m = StoreIn(x, i.arg1, "integer", Arithmetic("add", Value(r), 1))
  BY <1>8, <1>9, <1>10 DEF Executed
<1>12. Arithmetic("add", Value(r), 1) = v
  BY <1>5, <1>6, NoJunk DEF Arithmetic
<1>13. m = StoreIn(x, addr_to_x86_arg(r, Sized, "si"), AddrType(r), v)
  BY <1>4, <1>10, <1>11, <1>12
<1>14. m.mem = MemAfter(r, v) /\ m.temp = TempAfter(r, v) /\ m.taken = x.taken /\ x.taken = FALSE
  BY <1>4, <1>5, <1>9, <1>13, BeforeHolds, OperandWritten DEF Same
<1>15. mem' = MemAfter(r, v) /\ temp' = TempAfter(r, v)
  BY <1>2, <1>6, StoreIs
<1> QED BY <1>14, <1>15 DEF Wrote

LEMMA RunFour ==
  ASSUME NEW a, NEW b, NEW c, NEW d, Listed(a), Listed(b), Listed(c), Listed(d), NEW m
  PROVE  Listed(((a \o b) \o c) \o d) /\ RunOn(m, ((a \o b) \o c) \o d) = RunOn(RunOn(RunOn(RunOn(m, a), b), c), d)
<1>1. PICK e : e = (a \o b) \o c
  OBVIOUS
<1>2. Listed(e) /\ RunOn(m, e) = RunOn(RunOn(RunOn(m, a), b), c)
  BY <1>1, RunThree
<1>3. Listed(e \o d) /\ RunOn(m, e \o d) = RunOn(RunOn(m, e), d)
  <2>1. Listed(e \o d)
    BY <1>2, JoinListed
  <2> QED BY <1>2, <2>1, RunJoin
<1> QED BY <1>1, <1>2, <1>3

\* Multiplication and division: words in registers 0 and 2.
LEMMA Factors ==
  ASSUME JumpInv, RunInv, Arith, Instr.op \in {"MUL", "DIV"}, NEW I, I = Instr, NEW v, v = Value(I.arg1), NEW w, w = Value(I.arg2),
         NEW r, r = I.res
  PROVE  /\ Store(r, Opcode(I.op, v, w)) /\ r \in Cells /\ AddrType(r) = "integer" /\ Usable(r) /\ "integer" \in Types
         /\ AddrType(I.arg1) = "integer" /\ Usable(I.arg1) /\ v \in Word
         /\ AddrType(I.arg2) = "integer" /\ Usable(I.arg2) /\ w \in Word
         /\ I.op = "DIV" => w # 0 /\ ~(Quotient(v, w) > MaxInt)
<1>1. PICK a, b : a = I.arg1 /\ b = I.arg2
  OBVIOUS
<1>2. Fetch({"PLUS", "MINUS", "MUL", "DIV", "AND", "OR"}) /\ Store(r, Opcode(I.op, v, w))
  BY DEF Arith
<1>3. I.op \in {"MUL", "DIV"} /\ Fit(I.op, r, a, b) /\ ~Traps
  BY <1>1, <1>2, Executing
<1>4. r \in Cells /\ r \in Terms /\ a \in Terms /\ b \in Terms /\ AddrType(r) = "integer" /\ AddrType(a) = "integer" /\ AddrType(b) = "integer"
  <2>1. I.op \in Operators /\ ResultType(I.op) = "integer" /\ ArgType(I.op) = "integer"
    BY <1>3 DEF Operators, ResultType, ArgType
  <2> QED BY <1>3, <2>1 DEF Fit, Terms
<1>5. Usable(r) /\ Usable(a) /\ Usable(b) /\ "integer" \in Types /\ Value(a) \in Word /\ Value(b) \in Word
  BY <1>1, <1>2, <1>4, Executing
<1>6. I.op = "DIV" => w # 0 /\ ~(Quotient(v, w) > MaxInt)
  BY <1>3 DEF Traps
<1> QED BY <1>1, <1>2, <1>4, <1>5, <1>6

LEMMA MulExact ==
  ASSUME JumpInv, RunInv, Arith, Instr.op = "MUL", NEW m, m = Run86(Instr)
  PROVE  Wrote(m)
<1>1. PICK I, r, a, b, v, w : I = Instr /\ r = I.res /\ a = I.arg1 /\ b = I.arg2 /\ v = Value(a) /\ w = Value(b)
  OBVIOUS
<1>2. I.op = "MUL" /\ Store(r, Opcode("MUL", v, w)) /\ r \in Cells /\ AddrType(r) = "integer" /\ Usable(r) /\ "integer" \in Types
  BY <1>1, Factors
<1>3. AddrType(a) = "integer" /\ Usable(a) /\ v \in Word /\ AddrType(b) = "integer" /\ Usable(b) /\ w \in Word
  BY <1>1, Factors
<1>4. std_regs(0, "integer") = Reg("ax") /\ std_regs(2, "integer") = Reg("cx") /\ Reg("ax").reg = "ax" /\ Reg("cx").reg = "cx" /\ Reg("cx").kind = "reg"
  BY <1>2, RegisterOf DEF Reg
<1>5. PICK p, q, i, s : /\ p = op_addr_to_reg("mov", 0, a) /\ q = op_addr_to_reg("mov", 2, b)
                        /\ i = Machine("imul", Reg("cx"), NoArg) /\ s = op_reg_to_addr("mov", r, 0)
  OBVIOUS
<1>6. m = RunOn(Before, ((p \o q) \o <<i>>) \o s)
  BY <1>1, <1>2, <1>4, <1>5 DEF Run86, Before, compile_instr_to_x86
<1>7. PICK x, y, z, n : x = RunOn(Before, p) /\ y = RunOn(x, q) /\ z = RunOn(y, <<i>>) /\ n = RunOn(z, s)
  OBVIOUS
<1>8. Listed(p) /\ Gets(x, Before, "ax", v)
  BY <1>1, <1>2, <1>3, <1>4, <1>5, <1>7, BeforeHolds, MoveLoaded
<1>9. Holds(x) /\ x.reg["ax"] = v /\ x.taken = FALSE
  BY <1>8, BeforeHolds DEF Gets, Same
<1>10. Listed(q) /\ Gets(y, x, "cx", w)
  BY <1>1, <1>2, <1>3, <1>4, <1>5, <1>7, <1>9, MoveLoaded
<1>11. Holds(y) /\ y.reg["ax"] = v /\ y.reg["cx"] = w /\ y.taken = FALSE
  BY <1>9, <1>10 DEF Gets, Same, Overlaps, Registers
<1>12. Listed(<<i>>) /\ z = Executed(y, i)
  BY <1>7, RunOne
<1>13. z = SetReg(SetReg(y, "ax", Wrap(v * w)), "dx", Junk)
  <2>1. i.op = "imul" /\ i.arg1 = Reg("cx")
    BY <1>5 DEF Machine
  <2>2. \A width : Load(y, i.arg1, width) = w
    BY <1>4, <1>11, <2>1 DEF Load
  <2>3. z = Multiplied(y, w)
    BY <1>12, <2>1, <2>2 DEF Executed
  <2> QED BY <1>3, <1>11, <2>3, NoJunk DEF Multiplied
<1>14. Holds(z) /\ z.reg["ax"] = Wrap(v * w) /\ z.taken = FALSE
  <2>1. PICK u : u = SetReg(y, "ax", Wrap(v * w))
    OBVIOUS
  <2>2. "ax" \in Registers /\ "dx" \in Registers /\ "ax" \notin {"dx"} \cup Overlaps("dx")
    BY DEF Registers, Overlaps
  <2>3. Holds(u) /\ u.reg["ax"] = Wrap(v * w) /\ u.taken = FALSE
    BY <1>11, <2>1, <2>2, RegisterSet DEF Holds
  <2>4. z = SetReg(u, "dx", Junk)
    BY <1>13, <2>1
  <2> QED BY <2>2, <2>3, <2>4, RegisterSet DEF Holds
<1>15. PICK e : e = Opcode("MUL", v, w)
  OBVIOUS
<1>16. e = Wrap(v * w)
  BY <1>15 DEF Opcode
<1>17. Listed(s) /\ n.mem = MemAfter(r, e) /\ n.temp = TempAfter(r, e) /\ n.taken = z.taken
  <2>1. e = z.reg[std_regs(0, AddrType(r)).reg] /\ AddrType(r) \in Types
    BY <1>2, <1>4, <1>14, <1>16
  <2> QED BY <1>2, <1>5, <1>7, <1>14, <2>1, RegisterStored
<1>18. m = n
  <2>1. PICK j : j = <<i>>
    OBVIOUS
  <2>2. Listed(p) /\ Listed(q) /\ Listed(j) /\ Listed(s) /\ m = RunOn(Before, ((p \o q) \o j) \o s) /\ z = RunOn(y, j)
    BY <1>6, <1>7, <1>8, <1>10, <1>12, <1>17, <2>1
  <2>3. RunOn(Before, ((p \o q) \o j) \o s) = RunOn(RunOn(RunOn(RunOn(Before, p), q), j), s)
    BY <2>2, RunFour
  <2> QED BY <1>7, <2>2, <2>3
<1>19. mem' = MemAfter(r, e) /\ temp' = TempAfter(r, e)
  BY <1>2, <1>15, StoreIs
<1> QED BY <1>14, <1>17, <1>18, <1>19 DEF Wrote

\* cwd makes of a word the same number, in two.
LEMMA DividendIs ==
  ASSUME NEW v \in Word, NEW d, d = IF v < 0 THEN -1 ELSE 0
  PROVE  d * Words + (v % Words) = v /\ d # Junk
<1>1. MaxInt \in Nat \ {0}
  BY WordsAssumption
<1>2. PICK w : w = Words
  OBVIOUS
<1>3. w \in Nat \ {0} /\ w = MaxInt + MaxInt + 2 /\ v \in Int /\ -w <= v /\ v < w
  BY <1>1, <1>2 DEF Words, Word, MinInt
<1>4. CASE v < 0
  <2>1. v % w = v + w
    BY <1>3, <1>4
  <2> QED BY <1>2, <1>3, <1>4, <2>1 DEF Junk
<1>5. CASE ~(v < 0)
  <2>1. v % w = v
    BY <1>3, <1>5
  <2> QED BY <1>2, <1>3, <1>5, <2>1 DEF Junk
<1> QED BY <1>4, <1>5

LEMMA DivExact ==
  ASSUME JumpInv, RunInv, Arith, Instr.op = "DIV", NEW m, m = Run86(Instr)
  PROVE  Wrote(m)
<1>1. PICK I, r, a, b, v, w : I = Instr /\ r = I.res /\ a = I.arg1 /\ b = I.arg2 /\ v = Value(a) /\ w = Value(b)
  OBVIOUS
<1>2. I.op = "DIV" /\ Store(r, Opcode("DIV", v, w)) /\ r \in Cells /\ AddrType(r) = "integer" /\ Usable(r) /\ "integer" \in Types
  BY <1>1, Factors
<1>3. AddrType(a) = "integer" /\ Usable(a) /\ v \in Word /\ AddrType(b) = "integer" /\ Usable(b) /\ w \in Word
  BY <1>1, Factors
<1>4. std_regs(0, "integer") = Reg("ax") /\ std_regs(2, "integer") = Reg("cx") /\ Reg("ax").reg = "ax" /\ Reg("cx").reg = "cx" /\ Reg("cx").kind = "reg"
  BY <1>2, RegisterOf DEF Reg
<1>5. PICK p, c, q, i, s : /\ p = op_addr_to_reg("mov", 0, a) /\ c = Machine("cwd", NoArg, NoArg) /\ q = op_addr_to_reg("mov", 2, b)
                           /\ i = Machine("idiv", Reg("cx"), NoArg) /\ s = op_reg_to_addr("mov", r, 0)
  OBVIOUS
<1>6. m = RunOn(Before, (((p \o <<c>>) \o q) \o <<i>>) \o s)
  BY <1>1, <1>2, <1>4, <1>5 DEF Run86, Before, compile_instr_to_x86
<1>7. PICK x, k, y, z, n : /\ x = RunOn(Before, p) /\ k = RunOn(x, <<c>>) /\ y = RunOn(k, q) /\ z = RunOn(y, <<i>>)
                           /\ n = RunOn(z, s)
  OBVIOUS
<1>8. Listed(p) /\ Gets(x, Before, "ax", v)
  BY <1>1, <1>2, <1>3, <1>4, <1>5, <1>7, BeforeHolds, MoveLoaded
<1>9. Holds(x) /\ x.reg["ax"] = v /\ x.taken = FALSE
  BY <1>8, BeforeHolds DEF Gets, Same
<1>10. PICK d : d = IF v < 0 THEN -1 ELSE 0
  OBVIOUS
<1>11. Listed(<<c>>) /\ k = Executed(x, c)
  BY <1>7, RunOne
<1>12. k = SetReg(x, "dx", d)
  <2>1. c.op = "cwd"
    BY <1>5 DEF Machine
  <2> QED BY <1>3, <1>9, <1>10, <1>11, <2>1, NoJunk DEF Executed
<1>13. Holds(k) /\ k.reg["ax"] = v /\ k.reg["dx"] = d /\ k.taken = FALSE
  <2>1. "dx" \in Registers /\ "ax" \in Registers \ ({"dx"} \cup Overlaps("dx"))
    BY DEF Registers, Overlaps
  <2> QED BY <1>9, <1>12, <2>1, RegisterSet DEF Holds
<1>14. Listed(q) /\ Gets(y, k, "cx", w)
  BY <1>1, <1>2, <1>3, <1>4, <1>5, <1>7, <1>13, MoveLoaded
<1>15. Holds(y) /\ y.reg["ax"] = v /\ y.reg["dx"] = d /\ y.reg["cx"] = w /\ y.taken = FALSE
  BY <1>13, <1>14 DEF Gets, Same, Overlaps, Registers
<1>16. Listed(<<i>>) /\ z = Executed(y, i)
  BY <1>7, RunOne
<1>17. z = SetReg(SetReg(y, "ax", Quotient(v, w)), "dx", Junk)
  <2>1. i.op = "idiv" /\ i.arg1 = Reg("cx")
    BY <1>5 DEF Machine
  <2>2. \A width : Load(y, i.arg1, width) = w
    BY <1>4, <1>15, <2>1 DEF Load
  <2>3. z = Divided(y, w)
    BY <1>16, <2>1, <2>2 DEF Executed
  <2>4. d * Words + (v % Words) = v /\ d # Junk
    BY <1>3, <1>10, DividendIs
  <2>5. v # Junk /\ w # Junk
    BY <1>3, NoJunk
  <2> QED BY <1>15, <2>3, <2>4, <2>5 DEF Divided
<1>18. PICK e : e = Opcode("DIV", v, w)
  OBVIOUS
<1>19. e = Quotient(v, w)
  BY <1>18 DEF Opcode
<1>20. Holds(z) /\ z.reg["ax"] = e /\ z.taken = FALSE
  <2>1. PICK u : u = SetReg(y, "ax", e)
    OBVIOUS
  <2>2. "ax" \in Registers /\ "dx" \in Registers /\ "ax" \notin {"dx"} \cup Overlaps("dx")
    BY DEF Registers, Overlaps
  <2>3. Holds(u) /\ u.reg["ax"] = e /\ u.taken = FALSE
    BY <1>15, <2>1, <2>2, RegisterSet DEF Holds
  <2>4. z = SetReg(u, "dx", Junk)
    BY <1>17, <1>19, <2>1
  <2> QED BY <2>2, <2>3, <2>4, RegisterSet DEF Holds
<1>21. Listed(s) /\ n.mem = MemAfter(r, e) /\ n.temp = TempAfter(r, e) /\ n.taken = z.taken
  <2>1. e = z.reg[std_regs(0, AddrType(r)).reg] /\ AddrType(r) \in Types
    BY <1>2, <1>4, <1>20
  <2> QED BY <1>2, <1>5, <1>7, <1>20, <2>1, RegisterStored
<1>22. m = n
  <2>1. PICK h : h = ((p \o <<c>>) \o q) \o <<i>>
    OBVIOUS
  <2>2. Listed(h) /\ RunOn(Before, h) = z
    <3>1. PICK j, g : j = <<i>> /\ g = <<c>>
      OBVIOUS
    <3>2. Listed(p) /\ Listed(g) /\ Listed(q) /\ Listed(j) /\ h = ((p \o g) \o q) \o j /\ k = RunOn(x, g) /\ z = RunOn(y, j)
      BY <1>7, <1>8, <1>11, <1>14, <1>16, <2>1, <3>1
    <3>3. Listed(((p \o g) \o q) \o j) /\ RunOn(Before, ((p \o g) \o q) \o j) = RunOn(RunOn(RunOn(RunOn(Before, p), g), q), j)
      BY <3>2, RunFour
    <3> QED BY <1>7, <3>2, <3>3
  <2>3. m = RunOn(Before, h \o s)
    BY <1>6, <2>1
  <2> QED BY <1>7, <1>21, <2>2, <2>3, RunJoin
<1>23. mem' = MemAfter(r, e) /\ temp' = TempAfter(r, e)
  BY <1>2, <1>18, StoreIs
<1> QED BY <1>20, <1>21, <1>22, <1>23 DEF Wrote

\* A comparison leaves its operands in the flags, and the condition is of them.
LEMMA CompareExact ==
  ASSUME JumpInv, RunInv, Compare, NEW m, m = Run86(Instr)
  PROVE  Wrote(m)
<1>1. PICK I, r, a, b, op, v, w : I = Instr /\ r = I.res /\ a = I.arg1 /\ b = I.arg2 /\ op = I.op /\ v = Value(a) /\ w = Value(b)
  OBVIOUS
<1>2. PICK e : e = IF SetCode(op, v, w) THEN 1 ELSE 0
  OBVIOUS
<1>3. Fetch({"EQ", "NE", "LT", "LE", "GT", "GE"}) /\ Store(r, e)
  BY <1>1, <1>2 DEF Compare
<1>4. op \in {"EQ", "NE", "LT", "LE", "GT", "GE"} /\ Fit(op, r, a, b)
  BY <1>1, <1>3, Executing
<1>5. /\ r \in Cells /\ r \in Terms /\ a \in Terms /\ b \in Terms /\ AddrType(r) = "boolean"
      /\ AddrType(a) = "integer" /\ AddrType(b) = "integer"
  <2>1. op \in Operators /\ ResultType(op) = "boolean" /\ ArgType(op) = "integer"
    BY <1>4 DEF Operators, ResultType, ArgType
  <2> QED BY <1>4, <2>1 DEF Fit, Terms
<1>6. Usable(r) /\ Usable(a) /\ Usable(b) /\ AddrType(a) \in Types /\ v \in Word /\ w \in Word
  BY <1>1, <1>3, <1>5, Executing
<1>7. PICK p, q, x : p = op_addr_to_addr("cmp", a, b) /\ q = op_apply(op, r) /\ x = RunOn(Before, p)
  OBVIOUS
<1>8. m = RunOn(Before, p \o q)
  BY <1>1, <1>4, <1>7 DEF Run86, Before, compile_instr_to_x86
<1>9. Listed(p) /\ Holds(x) /\ x.flags = <<v, w>> /\ x.taken = FALSE
  BY <1>1, <1>5, <1>6, <1>7, BeforeHolds, ComparedDone
<1>10. PICK n, i : n = RunOn(x, q) /\ i = Machine(op, addr_to_x86_arg(r, Sized, "si"), NoArg)
  OBVIOUS
<1>11. Listed(q)
  BY <1>5, <1>6, <1>7, <1>9, <1>10, Applied
<1>12. PICK y : n = Executed(y, i) /\ Same(y, x, {"si"}) /\ Indexed(y, r, "si")
  BY <1>5, <1>6, <1>7, <1>9, <1>10, Applied
<1>13. m = n
  BY <1>7, <1>8, <1>9, <1>10, <1>11, RunJoin
<1>14. Holds(y) /\ y.flags = <<v, w>> /\ y.taken = FALSE
  BY <1>9, <1>12 DEF Same
<1>15. i.op = op /\ i.arg1 = addr_to_x86_arg(r, Sized, "si")
  BY <1>10 DEF Machine
<1>16. n = StoreIn(y, i.arg1, "boolean", e)
  <2>1. n = StoreIn(y, i.arg1, "boolean", IF Junk \in Range(y.flags) THEN Junk ELSE IF SetCode(op, y.flags[1], y.flags[2]) THEN 1 ELSE 0)
    BY <1>4, <1>12, <1>15 DEF Executed
  <2>2. y.flags[1] = v /\ y.flags[2] = w
    BY <1>14
  <2>3. Junk \notin Range(y.flags)
    <3>1. Range(<<v, w>>) = {v, w}
      BY DEF Range
    <3> QED BY <1>6, <1>14, <3>1, NoJunk
  <2> QED BY <1>2, <2>1, <2>2, <2>3
<1>17. n = StoreIn(y, addr_to_x86_arg(r, Sized, "si"), AddrType(r), e)
  BY <1>5, <1>15, <1>16
<1>18. n.mem = MemAfter(r, e) /\ n.temp = TempAfter(r, e) /\ n.taken = y.taken
  BY <1>5, <1>6, <1>12, <1>14, <1>17, OperandWritten
<1>19. mem' = MemAfter(r, e) /\ temp' = TempAfter(r, e)
  BY <1>3, StoreIs
<1> QED BY <1>13, <1>14, <1>18, <1>19 DEF Wrote

\* A jump, and the comparison before it.
LEMMA BranchExact ==
  ASSUME JumpInv, RunInv, Branch, NEW m, m = Run86(Instr)
  PROVE  m.mem = mem' /\ m.temp = temp' /\ ip' = IF m.taken THEN Target ELSE ip + 1
<1>1. PICK I, a, b, op : I = Instr /\ a = I.arg1 /\ b = I.arg2 /\ op = I.op
  OBVIOUS
<1>2. Fetch({"LABEL", "JUMP", "JUMP0", "JNE", "JG"}) /\ mem' = mem /\ temp' = temp /\ ip' = IF Jumps THEN Target ELSE ip + 1
  BY DEF Branch
<1>3. op \in {"LABEL", "JUMP", "JUMP0", "JNE", "JG"} /\ Fit(op, I.res, a, b)
  BY <1>1, <1>2, Executing
<1>4. PICK j : j = Machine(op, NoArg, NoArg)
  OBVIOUS
<1>5. j.op = op
  BY <1>4 DEF Machine
<1>6. \A x : Executed(x, j) = [x EXCEPT !.taken = Condition(op, x.flags)]
  BY <1>3, <1>5 DEF Executed
<1>7. ASSUME NEW x, Holds(x), m = Executed(x, j), Condition(op, x.flags) = Jumps
      PROVE  m.mem = mem /\ m.temp = temp /\ m.taken = Jumps
  <2>1. m = [x EXCEPT !.taken = Jumps]
    BY <1>6, <1>7
  <2> QED BY <1>7, <2>1 DEF Holds, InMachine
<1>8. CASE op \in {"LABEL", "JUMP"}
  <2>1. a = NULL
    BY <1>3, <1>8 DEF Fit
  <2>2. PICK x : x = RunOn(Before, << >>)
    OBVIOUS
  <2>3. x = Before /\ Holds(x)
    BY <2>2, RunNone, BeforeHolds
  <2>4. m = RunOn(Before, << >> \o <<j>>)
    BY <1>1, <1>3, <1>4, <2>1 DEF Run86, Before, compile_instr_to_x86, BranchCode
  <2>5. m = Executed(x, j)
    <3>1. Listed(<< >>) /\ Listed(<<j>>) /\ RunOn(x, <<j>>) = Executed(x, j)
      BY RunNone, RunOne
    <3> QED BY <2>2, <2>4, <3>1, RunJoin
  <2>6. Condition(op, x.flags) = Jumps
    BY <1>1, <1>8 DEF Condition, Jumps
  <2>7. m.mem = mem /\ m.temp = temp /\ m.taken = Jumps
    BY <1>7, <2>3, <2>5, <2>6
  <2> QED BY <1>2, <2>7
<1>9. CASE op \in {"JUMP0", "JNE", "JG"}
  <2>1. a \in Terms /\ (op = "JUMP0" => b = NULL) /\ (op # "JUMP0" => b \in ConstAddrs)
    BY <1>3, <1>9 DEF Fit, Terms
  <2>2. Usable(a) /\ a # NULL
    BY <1>1, <1>2, <2>1, Executing DEF NULL, Terms, Cells, VarAddrs, TempAddrs, ArrAddrs, ConstAddrs
  <2>3. PICK w, s, i : /\ w = (IF b = NULL THEN 0 ELSE b.val) /\ s = load_index_if_needed(a, "si")
                       /\ i = Machine("cmp", addr_to_x86_arg(a, Sized, "si"), Imm(w))
    OBVIOUS
  <2>4. m = RunOn(Before, (s \o <<i>>) \o <<j>>)
    BY <1>1, <1>3, <1>4, <2>2, <2>3 DEF Run86, Before, compile_instr_to_x86, BranchCode
  <2>5. Listed(s) /\ Listed(<<i>>) /\ Listed(<<j>>)
    BY <2>3, RunNone, RunOne DEF load_index_if_needed
  <2>6. PICK x, y : x = RunOn(Before, s) /\ y = Executed(x, i)
    OBVIOUS
  <2>7. m = Executed(y, j)
    <3>1. PICK k, l : k = <<i>> /\ l = <<j>>
      OBVIOUS
    <3>2. RunOn(Before, (s \o k) \o l) = RunOn(RunOn(RunOn(Before, s), k), l)
      BY <2>5, <3>1, RunThree
    <3>3. RunOn(x, k) = y /\ RunOn(y, l) = Executed(y, j)
      BY <2>6, <3>1, RunOne
    <3> QED BY <2>4, <2>6, <3>1, <3>2, <3>3
  <2>8. Same(x, Before, {"si"}) /\ Indexed(x, a, "si")
    BY <2>2, <2>3, <2>6, BeforeHolds, IndexLoaded
  <2>9. i.op = "cmp" /\ i.arg1 = addr_to_x86_arg(a, Sized, "si") /\ i.arg2 = Imm(w)
    BY <2>3 DEF Machine
  <2>10. a.kind # "const" => Width(i) = AddrType(a)
    <3> SUFFICES ASSUME a.kind # "const" PROVE Width(i) = AddrType(a)
      OBVIOUS
    <3>1. i.arg1.kind = "mem" /\ i.arg1.size = AddrType(a) /\ i.arg2.kind = "imm"
      BY <2>9 DEF addr_to_x86_arg, Sized, TypeOf, AddrType, Imm
    <3> QED BY <3>1 DEF Width
  <2>11. Load(x, i.arg1, Width(i)) = Value(a)
    BY <2>2, <2>8, <2>9, <2>10, OperandRead DEF Same
  <2>12. Load(x, i.arg2, Width(i)) = w
    BY <2>9 DEF Load, Imm
  <2>13. y = [x EXCEPT !.flags = <<Value(a), w>>]
    BY <2>6, <2>9, <2>11, <2>12 DEF Executed
  <2>14. Holds(y) /\ y.flags = <<Value(a), w>>
    BY <2>8, <2>13 DEF Same, Holds, InMachine
  <2>15. y.flags[1] = Value(a) /\ y.flags[2] = w
    BY <2>14
  <2>16. Condition(op, y.flags) = Jumps
    <3>1. CASE op = "JUMP0"
      BY <1>1, <2>1, <2>3, <2>15, <3>1 DEF Condition, Jumps
    <3>2. CASE op # "JUMP0"
      <4>1. w = Value(b)
        <5>1. b.kind = "const"
          BY <2>1, <3>2 DEF ConstAddrs
        <5> QED BY <2>3, <5>1 DEF NULL, Value
      <4> QED BY <1>1, <1>9, <2>15, <3>2, <4>1 DEF Condition, Jumps
    <3> QED BY <3>1, <3>2
  <2>17. m.mem = mem /\ m.temp = temp /\ m.taken = Jumps
    BY <1>7, <2>7, <2>14, <2>16
  <2> QED BY <1>2, <2>17
<1> QED BY <1>3, <1>8, <1>9

\* An array goes to the library as the address of its first element and its length.
LEMMA LengthOf ==
  ASSUME RunInv, NEW a \in VarAddrs
  PROVE  /\ Vars[a.name].size \in Nat /\ Vars[a.name].type \in Types /\ SizeOf(a) = Vars[a.name].size
         /\ Len(mem[a.name]) = (IF SizeOf(a) = 0 THEN 1 ELSE SizeOf(a)) /\ Value(a) = mem[a.name][1]
<1>1. a.kind = "var" /\ a.name \in DOMAIN Vars
  BY DEF VarAddrs
<1>2. Vars[a.name].size \in Nat /\ Vars[a.name].type \in Types /\ SizeOf(a) = Vars[a.name].size
  BY <1>1, VarsAssumption DEF SizeOf
<1>3. PICK c, N : c = mem[a.name] /\ N = IF SizeOf(a) = 0 THEN 1 ELSE SizeOf(a)
  OBVIOUS
<1>4. N \in Nat /\ DOMAIN c = 1..N
  BY <1>1, <1>2, <1>3 DEF RunInv, MemInv, CellsOf
<1>5. c \in [1..N -> ValuesOf(Vars[a.name].type)]
  BY <1>1, <1>2, <1>3 DEF RunInv, MemInv, CellsOf
<1>6. c \in Seq(ValuesOf(Vars[a.name].type)) /\ Len(c) = N
  <2>1. c \in Seq(ValuesOf(Vars[a.name].type))
    BY <1>4, <1>5, SeqDef
  <2>2. Len(c) \in Nat /\ DOMAIN c = 1..Len(c)
    BY <2>1, LenProperties
  <2> QED BY <1>4, <2>1, <2>2
<1>7. Value(a) = mem[a.name][1]
  BY <1>1 DEF Value, IndexOf
<1> QED BY <1>2, <1>3, <1>6, <1>7

ArrayCode(a, N, name) == op_addr_to_reg("lea", 3, a) \o <<Machine("mov", Reg("rdx"), Imm(N)), Call(name)>>

LEMMA ArrayCalled ==
  ASSUME RunInv, NEW a \in VarAddrs, NEW N, NEW name, name.does # "print", NEW n, n = RunOn(Before, ArrayCode(a, N, name))
  PROVE  n.mem = mem /\ n.temp = temp /\ n.taken = FALSE /\ n.called = <<name, <<a, 1>>, N>>
<1>1. a.kind = "var"
  BY DEF VarAddrs
<1>2. PICK o, i, u, c : /\ o = addr_to_x86_arg(a, Unsized, "si") /\ i = Machine("lea", std_regs(3, TypeOf(a)), o)
                        /\ u = Machine("mov", Reg("rdx"), Imm(N)) /\ c = Call(name)
  OBVIOUS
<1>3. PICK e, f, g, h : e = << >> /\ f = <<i>> /\ g = <<u>> /\ h = <<c>>
  OBVIOUS
<1>4. Listed(e) /\ Listed(f) /\ Listed(g) /\ Listed(h)
  BY <1>3, RunNone, RunOne
<1>13. PICK p : p = ArrayCode(a, N, name)
  OBVIOUS
<1>5. p = (e \o f) \o (g \o h)
  <2>1. op_addr_to_reg("lea", 3, a) = e \o f
    BY <1>1, <1>2, <1>3 DEF op_addr_to_reg, load_index_if_needed
  <2>2. <<u, c>> = g \o h
    <3>1. PICK S, d : S = {u, c} /\ d = <<u, c>>
      OBVIOUS
    <3>2. d \in Seq(S) /\ Len(d) = 2 /\ d[1] = u /\ d[2] = c
      BY <3>1
    <3>3. g \in Seq(S) /\ Len(g) = 1 /\ g[1] = u /\ h \in Seq(S) /\ Len(h) = 1 /\ h[1] = c
      BY <1>3, <3>1
    <3>4. /\ g \o h \in Seq(S) /\ Len(g \o h) = Len(g) + Len(h)
          /\ \A k \in 1..Len(g) + Len(h) : (g \o h)[k] = IF k <= Len(g) THEN g[k] ELSE h[k - Len(g)]
      BY <3>3, ConcatProperties
    <3>5. PICK b : b = g \o h
      OBVIOUS
    <3>6. b \in Seq(S) /\ Len(b) = 2 /\ \A k \in 1..2 : b[k] = d[k]
      <4>1. Len(g) + Len(h) = 2
        BY <3>3
      <4>2. \A k \in 1..2 : k = 1 \/ k = 2
        OBVIOUS
      <4>3. b[1] = g[1] /\ b[2] = h[1]
        BY <3>3, <3>4, <3>5, <4>1
      <4> QED BY <3>2, <3>3, <3>4, <3>5, <4>1, <4>2, <4>3
    <3>7. b = d
      BY <3>2, <3>6, SeqEqual
    <3> QED BY <3>1, <3>5, <3>7
  <2> QED BY <1>2, <1>13, <2>1, <2>2 DEF ArrayCode
<1>6. PICK x, y : x = Executed(Before, i) /\ y = Executed(x, u)
  OBVIOUS
<1>7. n = Executed(y, c)
  <2>1. PICK k, l : k = e \o f /\ l = g \o h
    OBVIOUS
  <2>2. Listed(k) /\ Listed(l)
    BY <1>4, <2>1, JoinListed
  <2>3. RunOn(Before, e) = Before /\ RunOn(Before, f) = x
    BY <1>3, <1>6, RunNone, RunOne
  <2>4. RunOn(Before, k) = x
    BY <1>4, <2>1, <2>3, RunJoin
  <2>5. RunOn(x, g) = y /\ RunOn(y, h) = Executed(y, c)
    BY <1>3, <1>6, RunOne
  <2>6. RunOn(x, l) = Executed(y, c)
    BY <1>4, <2>1, <2>5, RunJoin
  <2>7. RunOn(Before, k \o l) = RunOn(RunOn(Before, k), l)
    BY <2>2, RunJoin
  <2>8. p = k \o l
    BY <1>5, <2>1
  <2> QED BY <1>13, <2>4, <2>6, <2>7, <2>8
<1>8. x = [Before EXCEPT !.rcx = <<a, 1>>]
  <2>1. i.op = "lea" /\ i.arg2 = o
    BY <1>2 DEF Machine
  <2>2. o.addr = a
    BY <1>1, <1>2 DEF addr_to_x86_arg
  <2>3. ElementOf(Before, o) = 1
    BY <1>1, <2>2 DEF ElementOf
  <2> QED BY <1>6, <2>1, <2>2, <2>3 DEF Executed
<1>9. Holds(x) /\ x.rcx = <<a, 1>>
  BY <1>8, BeforeHolds DEF Holds, InMachine
<1>10. y = SetReg(x, "rdx", N)
  <2>1. u.op = "mov" /\ u.arg1 = Reg("rdx") /\ u.arg2 = Imm(N)
    BY <1>2 DEF Machine
  <2>2. y = StoreIn(x, u.arg1, Width(u), Load(x, u.arg2, Width(u)))
    BY <1>6, <2>1 DEF Executed
  <2>3. Load(x, u.arg2, Width(u)) = N
    BY <2>1 DEF Load, Imm
  <2> QED BY <2>1, <2>2, <2>3 DEF StoreIn, Reg
<1>11. Holds(y) /\ y.rcx = <<a, 1>> /\ y.reg["rdx"] = N
  <2>1. "rdx" \in Registers
    BY DEF Registers
  <2> QED BY <1>9, <1>10, <2>1, RegisterSet DEF Holds
<1>12. n = [NewMachine(y.mem, y.temp) EXCEPT !.called = <<name, y.rcx, y.reg["rdx"]>>]
  <2>1. c.op = "call" /\ c.arg1 = name
    BY <1>2 DEF Call, Machine
  <2>2. n = Called(y, name)
    BY <1>7, <2>1 DEF Executed
  <2> QED BY <2>2 DEF Called
<1> QED BY <1>11, <1>12 DEF Holds, NewMachine

LEMMA InputExact ==
  ASSUME JumpInv, RunInv, ReadIn, NEW m, m = Run86(Instr)
  PROVE  m.called = <<Routine("read_array", Instr.res), <<Instr.res, 1>>, Len(mem[Instr.res.name])>> /\ m.taken = FALSE
<1>1. PICK I, r : I = Instr /\ r = I.res
  OBVIOUS
<1>2. Fetch({"INPUT"})
  BY DEF ReadIn
<1>3. I.op = "INPUT" /\ Fit(I.op, r, I.arg1, I.arg2)
  BY <1>1, <1>2, Executing
<1>4. r \in VarAddrs
  BY <1>3 DEF Fit
<1>5. PICK N : N = IF SizeOf(r) = 0 THEN 1 ELSE SizeOf(r)
  OBVIOUS
<1>6. m = RunOn(Before, op_addr_to_reg("lea", 3, r) \o <<Machine("mov", Reg("rdx"), Imm(N)), Call(Routine("read_array", r))>>)
  BY <1>1, <1>3, <1>5 DEF Run86, Before, compile_instr_to_x86, InputCode
<1>7. m.taken = FALSE /\ m.called = <<Routine("read_array", r), <<r, 1>>, N>>
  <2>1. PICK routine : routine = Routine("read_array", r)
    OBVIOUS
  <2>2. m = RunOn(Before, ArrayCode(r, N, routine))
    BY <1>6, <2>1 DEF ArrayCode
  <2>3. routine.does # "print"
    BY <2>1 DEF Routine
  <2>4. m.mem = mem /\ m.temp = temp /\ m.taken = FALSE /\ m.called = <<routine, <<r, 1>>, N>>
    BY <1>4, <2>2, <2>3, ArrayCalled
  <2> QED BY <2>1, <2>4
<1>8. Len(mem[r.name]) = N
  BY <1>4, <1>5, LengthOf
<1> QED BY <1>1, <1>7, <1>8

LEMMA OutputExact ==
  ASSUME JumpInv, RunInv, WriteOut, NEW m, m = Run86(Instr)
  PROVE  /\ Wrote(m)
         /\ m.called = IF SizeOf(Instr.arg1) = 0 THEN <<Routine("print", Instr.arg1), out'[1][1]>>
                       ELSE <<Routine("print_array", Instr.arg1), <<Instr.arg1, 1>>, Len(out'[1])>>
<1>1. PICK I, a : I = Instr /\ a = I.arg1
  OBVIOUS
<1>2. /\ Fetch({"OUTPUT"}) /\ mem' = mem /\ temp' = temp
      /\ out'[1] = IF a.kind = "var" THEN mem[a.name] ELSE <<Value(a)>>
  BY <1>1 DEF WriteOut
<1>3. I.op = "OUTPUT" /\ Fit(I.op, I.res, a, I.arg2)
  BY <1>1, <1>2, Executing
<1>4. a \in Terms
  BY <1>3 DEF Fit
<1>5. Usable(a) /\ AddrType(a) \in Types /\ Value(a) \in Word
  BY <1>1, <1>2, <1>4, Executing
<1>6. a \in Addrs /\ (a.kind = "var" => a \in VarAddrs)
  BY <1>4, KindOf DEF Addrs
<1>7. CASE SizeOf(a) = 0
  <2>1. PICK p, q, c, x, n : /\ p = op_addr_to_reg("mov", 2, a) /\ c = Call(Routine("print", a)) /\ q = <<c>>
                             /\ x = RunOn(Before, p) /\ n = Executed(x, c)
    OBVIOUS
  <2>2. m = RunOn(Before, p \o q)
    BY <1>1, <1>3, <1>7, <2>1 DEF Run86, Before, compile_instr_to_x86, OutputCode
  <2>3. PICK reg : reg = std_regs(2, AddrType(a)).reg
    OBVIOUS
  <2>4. Listed(p) /\ Gets(x, Before, reg, Value(a))
    <3>1. 2 \in {0, 2}
      OBVIOUS
    <3> QED BY <1>5, <2>1, <2>3, <3>1, BeforeHolds, MoveLoaded
  <2>5. m = n
    <3>1. Listed(q) /\ RunOn(x, q) = n
      BY <2>1, RunOne
    <3> QED BY <2>1, <2>2, <2>4, <3>1, RunJoin
  <2>6. Holds(x) /\ x.reg[reg] = Value(a) /\ \A r \in Overlaps(reg) : x.reg[r] = Junk
    BY <2>4 DEF Gets, Same
  <2>7. reg = ValueRegister(AddrType(a))
    BY <1>5, <2>3, RegisterOf DEF Reg, ValueRegister, Types
  <2>8. n = [NewMachine(x.mem, x.temp) EXCEPT !.called = <<Routine("print", a), Value(a)>>]
    <3>1. PICK routine : routine = Routine("print", a)
      OBVIOUS
    <3>2. routine.does = "print" /\ routine.type = AddrType(a)
      BY <3>1 DEF Routine, AddrType, TypeOf
    <3>3. c.op = "call" /\ c.arg1 = routine
      BY <2>1, <3>1 DEF Call, Machine
    <3>4. n = Called(x, routine)
      BY <2>1, <3>3 DEF Executed
    <3> QED BY <2>6, <2>7, <3>1, <3>2, <3>4 DEF Called
  <2>9. n.mem = mem /\ n.temp = temp /\ n.taken = FALSE /\ n.called = <<Routine("print", a), Value(a)>>
    BY <2>6, <2>8 DEF Holds, NewMachine
  <2>10. out'[1][1] = Value(a)
    <3>1. CASE a.kind = "var"
      BY <1>2, <1>6, <3>1, LengthOf
    <3>2. CASE a.kind # "var"
      BY <1>2, <3>2
    <3> QED BY <3>1, <3>2
  <2> QED BY <1>1, <1>2, <1>7, <2>5, <2>9, <2>10 DEF Wrote
<1>8. CASE SizeOf(a) # 0
  <2>1. a.kind = "var" /\ a \in VarAddrs
    BY <1>6, <1>8 DEF SizeOf
  <2>2. PICK N : N = SizeOf(a)
    OBVIOUS
  <2>3. m = RunOn(Before, op_addr_to_reg("lea", 3, a) \o <<Machine("mov", Reg("rdx"), Imm(N)), Call(Routine("print_array", a))>>)
    BY <1>1, <1>3, <1>8, <2>2 DEF Run86, Before, compile_instr_to_x86, OutputCode
  <2>4. m.mem = mem /\ m.temp = temp /\ m.taken = FALSE /\ m.called = <<Routine("print_array", a), <<a, 1>>, N>>
    <3>1. PICK routine : routine = Routine("print_array", a)
      OBVIOUS
    <3>2. m = RunOn(Before, ArrayCode(a, N, routine))
      BY <2>3, <3>1 DEF ArrayCode
    <3>3. routine.does # "print"
      BY <3>1 DEF Routine
    <3>4. m.mem = mem /\ m.temp = temp /\ m.taken = FALSE /\ m.called = <<routine, <<a, 1>>, N>>
      BY <2>1, <3>2, <3>3, ArrayCalled
    <3> QED BY <3>1, <3>4
  <2>5. Len(out'[1]) = N
    BY <1>2, <1>8, <2>1, <2>2, LengthOf
  <2> QED BY <1>1, <1>2, <1>8, <2>4, <2>5 DEF Wrote
<1> QED BY <1>7, <1>8

-----------------------------------------------------------------------------
(* What is made of an instruction can be encoded.                          *)

Coded(s) == Listed(s) /\ \A j \in DOMAIN s : HasEncoding(s[j])

LEMMA CodedNone ==
  Coded(<< >>)
BY RunNone DEF Coded

LEMMA CodedOne ==
  ASSUME NEW i, HasEncoding(i)
  PROVE  Coded(<<i>>)
<1>1. Listed(<<i>>)
  BY RunOne
<1>2. PICK s : s = <<i>>
  OBVIOUS
<1>3. DOMAIN s = {1} /\ s[1] = i
  <2>1. DOMAIN s = 1..1 /\ s[1] = i
    BY <1>2
  <2> QED BY <2>1
<1> QED BY <1>1, <1>2, <1>3 DEF Coded

LEMMA CodedJoined ==
  ASSUME NEW a, NEW b, Coded(a), Coded(b)
  PROVE  Coded(a \o b)
<1>1. PICK c, p, q : c = a \o b /\ p = Len(a) /\ q = Len(b)
  OBVIOUS
<1>2. /\ Listed(c) /\ p \in Nat /\ q \in Nat /\ DOMAIN a = 1..p /\ DOMAIN c = 1..(p + q)
      /\ (\A i \in 1..p : c[i] = a[i]) /\ (\A i \in 1..q : c[p + i] = b[i])
  BY <1>1, JoinListed DEF Coded
<1>3. DOMAIN b = 1..q
  BY <1>1, RunNone, JoinListed DEF Coded
<1>4. ASSUME NEW j \in DOMAIN c PROVE HasEncoding(c[j])
  <2>1. CASE j \in 1..p
    BY <1>2, <2>1 DEF Coded
  <2>2. CASE j \notin 1..p
    <3>1. PICK i \in 1..q : j = p + i
      <4>1. j - p \in 1..q /\ j = p + (j - p)
        BY <1>2, <2>2
      <4> QED BY <4>1
    <3> QED BY <1>2, <1>3, <3>1 DEF Coded
  <2> QED BY <2>1, <2>2
<1> QED BY <1>1, <1>2, <1>4 DEF Coded

\* An instruction with a register has the width of it.
LEMMA ToRegisterEncoded ==
  ASSUME NEW op, NEW r, NEW o, NEW i, i = Machine(op, Reg(r), o)
  PROVE  HasEncoding(i)
<1>1. WidthOf(r) # "none"
  BY DEF WidthOf
<1>2. Reg(r).kind = "reg" /\ Reg(r).reg = r
  BY DEF Reg
<1>3. i.arg1 = Reg(r) /\ i.arg2 = o
  BY DEF Machine
<1>4. Width(i) = WidthOf(r)
  BY <1>2, <1>3 DEF Width
<1> QED BY <1>1, <1>2, <1>3, <1>4 DEF HasEncoding

LEMMA FromRegisterEncoded ==
  ASSUME NEW op, NEW r, NEW o, o.kind # "imm", NEW i, i = Machine(op, o, Reg(r))
  PROVE  HasEncoding(i)
<1>1. WidthOf(r) # "none"
  BY DEF WidthOf
<1>2. Reg(r).kind = "reg" /\ Reg(r).reg = r
  BY DEF Reg
<1>3. i.arg1 = o /\ i.arg2 = Reg(r)
  BY DEF Machine
<1>4. Width(i) # "none"
  <2>1. CASE o.kind = "reg"
    <3>1. Width(i) = WidthOf(o.reg)
      BY <1>3, <2>1 DEF Width
    <3> QED BY <3>1 DEF WidthOf
  <2>2. CASE o.kind # "reg"
    BY <1>1, <1>2, <1>3, <2>2 DEF Width
  <2> QED BY <2>1, <2>2
<1> QED BY <1>2, <1>3, <1>4 DEF HasEncoding

\* And one with an operand in memory and its size.
LEMMA SizedEncoded ==
  ASSUME NEW op, NEW a \in Cells, AddrType(a) \in Types, NEW r, NEW o, o.kind \in {"imm", "none"},
         NEW i, i = Machine(op, addr_to_x86_arg(a, Sized, r), o)
  PROVE  HasEncoding(i)
<1>1. a.kind # "const"
  BY DEF Cells, VarAddrs, TempAddrs, ArrAddrs
<1>2. TypeOf(a) = AddrType(a)
  BY DEF TypeOf, AddrType
<1>3. i.arg1.kind = "mem" /\ i.arg1.size = AddrType(a) /\ i.arg2 = o
  BY <1>1, <1>2 DEF Machine, addr_to_x86_arg, Sized
<1>4. Width(i) = AddrType(a)
  BY <1>3 DEF Width
<1> QED BY <1>3, <1>4 DEF HasEncoding, Types

LEMMA IndexCoded ==
  ASSUME NEW a, NEW r
  PROVE  Coded(load_index_if_needed(a, r))
<1>1. CASE a.kind = "arr" /\ a.index.kind = "var"
  <2>1. PICK i : i = Machine("mov", Reg(r), addr_to_x86_arg(a.index, Unsized, "none"))
    OBVIOUS
  <2>2. Coded(<<i>>)
    BY <2>1, ToRegisterEncoded, CodedOne
  <2> QED BY <1>1, <2>1, <2>2 DEF load_index_if_needed
<1>2. CASE ~(a.kind = "arr" /\ a.index.kind = "var")
  BY <1>2, CodedNone DEF load_index_if_needed
<1> QED BY <1>1, <1>2

LEMMA LoadCoded ==
  ASSUME NEW op, NEW k \in {0, 2, 3}, NEW a
  PROVE  Coded(op_addr_to_reg(op, k, a))
<1>1. PICK s, i : s = load_index_if_needed(a, "si") /\ i = Machine(op, std_regs(k, TypeOf(a)), addr_to_x86_arg(a, Unsized, "si"))
  OBVIOUS
<1>2. \E r : std_regs(k, TypeOf(a)) = Reg(r)
  BY DEF std_regs
<1>3. Coded(<<i>>)
  BY <1>1, <1>2, ToRegisterEncoded, CodedOne
<1>4. Coded(s)
  BY <1>1, IndexCoded
<1> QED BY <1>1, <1>3, <1>4, CodedJoined DEF op_addr_to_reg

LEMMA StoreCoded ==
  ASSUME NEW op, NEW a \in Cells
  PROVE  Coded(op_reg_to_addr(op, a, 0))
<1>1. PICK s, o, i : /\ s = load_index_if_needed(a, "di") /\ o = addr_to_x86_arg(a, Unsized, "di")
                     /\ i = Machine(op, o, std_regs(0, TypeOf(a)))
  OBVIOUS
<1>2. \E r : std_regs(0, TypeOf(a)) = Reg(r)
  BY DEF std_regs
<1>3. o.kind # "imm"
  <2>1. a.kind # "const"
    BY DEF Cells, VarAddrs, TempAddrs, ArrAddrs
  <2> QED BY <1>1, <2>1 DEF addr_to_x86_arg
<1>4. Coded(<<i>>)
  BY <1>1, <1>2, <1>3, FromRegisterEncoded, CodedOne
<1>5. Coded(s)
  BY <1>1, IndexCoded
<1> QED BY <1>1, <1>4, <1>5, CodedJoined DEF op_reg_to_addr

LEMMA BothCoded ==
  ASSUME NEW op, NEW a \in Cells, AddrType(a) \in Types, NEW b
  PROVE  Coded(op_addr_to_addr(op, a, b))
<1>1. CASE OneConstant(a, b)
  <2>1. PICK s, d, i : /\ s = load_index_if_needed(a, "si") /\ d = load_index_if_needed(b, "di")
                       /\ i = Machine(op, addr_to_x86_arg(a, Sized, "si"), addr_to_x86_arg(b, Sized, "di"))
    OBVIOUS
  <2>2. addr_to_x86_arg(b, Sized, "di").kind = "imm"
    <3>1. a.kind # "const"
      BY DEF Cells, VarAddrs, TempAddrs, ArrAddrs
    <3>2. b.kind = "const"
      BY <1>1, <3>1 DEF OneConstant
    <3> QED BY <3>2 DEF addr_to_x86_arg, Imm
  <2>3. Coded(<<i>>)
    BY <2>1, <2>2, SizedEncoded, CodedOne
  <2>4. Coded(s) /\ Coded(d)
    BY <2>1, IndexCoded
  <2>5. Coded(s \o d)
    BY <2>4, CodedJoined
  <2>6. Coded((s \o d) \o <<i>>)
    BY <2>3, <2>5, CodedJoined
  <2> QED BY <1>1, <2>1, <2>6 DEF op_addr_to_addr, Directly
<1>2. CASE ~OneConstant(a, b)
  <2>1. PICK p, q : p = op_addr_to_reg("mov", 0, b) /\ q = op_reg_to_addr(op, a, 0)
    OBVIOUS
  <2>2. Coded(p) /\ Coded(q)
    BY <2>1, LoadCoded, StoreCoded
  <2> QED BY <1>2, <2>1, <2>2, CodedJoined DEF op_addr_to_addr
<1> QED BY <1>1, <1>2

LEMMA ApplyCoded ==
  ASSUME NEW op, NEW a \in Cells, AddrType(a) \in Types
  PROVE  Coded(op_apply(op, a))
<1>1. PICK s, i : s = load_index_if_needed(a, "si") /\ i = Machine(op, addr_to_x86_arg(a, Sized, "si"), NoArg)
  OBVIOUS
<1>2. Coded(<<i>>)
  BY <1>1, SizedEncoded, CodedOne DEF NoArg
<1>3. Coded(s)
  BY <1>1, IndexCoded
<1> QED BY <1>1, <1>2, <1>3, CodedJoined DEF op_apply

LEMMA Joined3 ==
  ASSUME NEW a, NEW b, NEW c, Coded(a), Coded(b), Coded(c)
  PROVE  Coded((a \o b) \o c)
<1>1. PICK d : d = a \o b
  OBVIOUS
<1>2. Coded(d)
  BY <1>1, CodedJoined
<1> QED BY <1>1, <1>2, CodedJoined

LEMMA Joined4 ==
  ASSUME NEW a, NEW b, NEW c, NEW d, Coded(a), Coded(b), Coded(c), Coded(d)
  PROVE  Coded(((a \o b) \o c) \o d)
<1>1. PICK e : e = (a \o b) \o c
  OBVIOUS
<1>2. Coded(e)
  BY <1>1, Joined3
<1> QED BY <1>1, <1>2, CodedJoined

\* Calls, and jumps: what has no operands.
LEMMA PlainCoded ==
  ASSUME NEW op \in {"call", "cwd", "xor", "LABEL", "JUMP", "JUMP0", "JNE", "JG"}, NEW o, NEW p, NEW i, i = Machine(op, o, p)
  PROVE  Coded(<<i>>)
<1>1. HasEncoding(i)
  BY DEF HasEncoding, Machine
<1> QED BY <1>1, CodedOne

LEMMA CallCoded ==
  ASSUME NEW a, NEW N, NEW name
  PROVE  /\ Coded(op_addr_to_reg("mov", 2, a) \o <<Call(name)>>)
         /\ Coded(ArrayCode(a, N, name))
<1>1. PICK p, q, u, c : /\ p = op_addr_to_reg("mov", 2, a) /\ q = op_addr_to_reg("lea", 3, a)
                        /\ u = Machine("mov", Reg("rdx"), Imm(N)) /\ c = Call(name)
  OBVIOUS
<1>2. Coded(p) /\ Coded(q)
  BY <1>1, LoadCoded
<1>3. Coded(<<c>>) /\ HasEncoding(c)
  <2>1. c = Machine("call", name, NoArg)
    BY <1>1 DEF Call
  <2> QED BY <2>1, PlainCoded DEF HasEncoding, Machine
<1>4. HasEncoding(u)
  BY <1>1, ToRegisterEncoded
<1>5. Coded(<<u, c>>)
  <2>1. PICK d, S : d = <<u, c>> /\ S = {u, c}
    OBVIOUS
  <2>2. d \in Seq(S) /\ DOMAIN d = 1..2 /\ d[1] = u /\ d[2] = c
    BY <2>1
  <2>3. \A j \in 1..2 : j = 1 \/ j = 2
    OBVIOUS
  <2> QED BY <1>3, <1>4, <2>1, <2>2, <2>3 DEF Coded, Listed
<1>6. Coded(p \o <<c>>)
  BY <1>2, <1>3, CodedJoined
<1>7. Coded(q \o <<u, c>>)
  BY <1>2, <1>5, CodedJoined
<1> QED BY <1>1, <1>6, <1>7 DEF ArrayCode

LEMMA BranchCoded ==
  ASSUME NEW instr, instr.op \in {"LABEL", "JUMP", "JUMP0", "JNE", "JG"},
         instr.arg1 # NULL => instr.arg1 \in Cells /\ AddrType(instr.arg1) \in Types
  PROVE  Coded(BranchCode(instr))
<1>1. PICK a, w, j : /\ a = instr.arg1 /\ w = (IF instr.arg2 = NULL THEN 0 ELSE instr.arg2.val)
                     /\ j = Machine(instr.op, NoArg, NoArg)
  OBVIOUS
<1>2. Coded(<<j>>)
  BY <1>1, PlainCoded
<1>3. CASE a = NULL
  <2>1. BranchCode(instr) = << >> \o <<j>>
    BY <1>1, <1>3 DEF BranchCode
  <2> QED BY <1>2, <2>1, CodedNone, CodedJoined
<1>4. CASE a # NULL
  <2>1. PICK s, i : s = load_index_if_needed(a, "si") /\ i = Machine("cmp", addr_to_x86_arg(a, Sized, "si"), Imm(w))
    OBVIOUS
  <2>2. BranchCode(instr) = (s \o <<i>>) \o <<j>>
    BY <1>1, <1>4, <2>1 DEF BranchCode
  <2>3. Coded(s)
    BY <2>1, IndexCoded
  <2>4. Coded(<<i>>)
    <3>1. Imm(w).kind \in {"imm", "none"}
      BY DEF Imm
    <3> QED BY <1>1, <1>4, <2>1, <3>1, SizedEncoded, CodedOne
  <2> QED BY <1>2, <2>2, <2>3, <2>4, Joined3
<1> QED BY <1>3, <1>4

LEMMA TermTyped ==
  ASSUME NEW a \in Terms
  PROVE  AddrType(a) \in Types
<1>1. \A n \in DOMAIN Vars : Vars[n].type \in Types
  BY VarsAssumption
<1> QED BY <1>1 DEF Terms, Cells, VarAddrs, ArrAddrs, TempAddrs, ConstAddrs, AddrType

LEMMA InstrCoded ==
  ASSUME NEW I \in Instrs, ~ConstantFirst(I)
  PROVE  Coded(compile_instr_to_x86(I))
<1>1. PICK op, r, a, b : op = I.op /\ r = I.res /\ a = I.arg1 /\ b = I.arg2
  OBVIOUS
<1>2. op \in Ops /\ Fit(op, r, a, b)
  BY <1>1, InstrTyped
<1>3. \A x \in Cells : x \in Terms /\ AddrType(x) \in Types
  BY TermTyped DEF Terms
<1>4. \A x \in Terms : x \in Cells \/ x.kind = "const"
  BY DEF Terms, ConstAddrs
<1>5. PICK c : c = compile_instr_to_x86(I)
  OBVIOUS
<1>6. CASE op = "MOV"
  <2>1. r \in Cells /\ c = op_addr_to_addr("mov", r, a)
    BY <1>1, <1>2, <1>5, <1>6 DEF Fit, compile_instr_to_x86
  <2> QED BY <1>3, <1>5, <2>1, BothCoded
<1>7. CASE op \in {"PLUS", "MINUS", "AND", "OR"}
  <2>1. r \in Cells
    BY <1>2, <1>7 DEF Fit, Operators
  <2>2. c = (op_addr_to_reg("mov", 0, a) \o op_addr_to_reg(get_opcode(op), 0, b)) \o op_reg_to_addr("mov", r, 0)
    BY <1>1, <1>5, <1>7 DEF compile_instr_to_x86
  <2>3. Coded(op_addr_to_reg("mov", 0, a)) /\ Coded(op_addr_to_reg(get_opcode(op), 0, b)) /\ Coded(op_reg_to_addr("mov", r, 0))
    BY <2>1, LoadCoded, StoreCoded
  <2> QED BY <1>5, <2>2, <2>3, Joined3
<1>8. CASE op = "UMINUS"
  <2>1. PICK i : i = Machine("xor", Reg("rax"), Reg("rax"))
    OBVIOUS
  <2>2. r \in Cells
    BY <1>2, <1>8 DEF Fit
  <2>3. c = (<<i>> \o op_addr_to_reg("sub", 0, a)) \o op_reg_to_addr("mov", r, 0)
    BY <1>1, <1>5, <1>8, <2>1 DEF compile_instr_to_x86
  <2>4. Coded(<<i>>) /\ Coded(op_addr_to_reg("sub", 0, a)) /\ Coded(op_reg_to_addr("mov", r, 0))
    BY <2>1, <2>2, PlainCoded, LoadCoded, StoreCoded
  <2> QED BY <1>5, <2>3, <2>4, Joined3
<1>9. CASE op = "INC"
  <2>1. r \in Cells /\ c = op_apply("inc", r)
    BY <1>1, <1>2, <1>5, <1>9 DEF Fit, compile_instr_to_x86
  <2> QED BY <1>3, <1>5, <2>1, ApplyCoded
<1>10. CASE op \in {"MUL", "DIV"}
  <2>1. r \in Cells
    BY <1>2, <1>10 DEF Fit, Operators
  <2>2. PICK x, y, z : x = op_addr_to_reg("mov", 0, a) /\ y = op_addr_to_reg("mov", 2, b) /\ z = op_reg_to_addr("mov", r, 0)
    OBVIOUS
  <2>3. Coded(x) /\ Coded(y) /\ Coded(z)
    BY <2>1, <2>2, LoadCoded, StoreCoded
  <2>4. std_regs(2, "integer") = Reg("cx")
    BY DEF std_regs
  <2>5. CASE op = "MUL"
    <3>1. PICK i, j : i = Machine("imul", Reg("cx"), NoArg) /\ j = <<i>>
      OBVIOUS
    <3>2. c = ((x \o y) \o j) \o z
      BY <1>1, <1>5, <2>2, <2>4, <2>5, <3>1 DEF compile_instr_to_x86
    <3>3. Coded(j)
      BY <3>1, ToRegisterEncoded, CodedOne
    <3> QED BY <1>5, <2>3, <3>2, <3>3, Joined4
  <2>6. CASE op = "DIV"
    <3>1. PICK i, j, k, l, h : i = Machine("idiv", Reg("cx"), NoArg) /\ j = <<i>> /\ k = Machine("cwd", NoArg, NoArg) /\ l = <<k>>
                               /\ h = ((x \o l) \o y) \o j
      OBVIOUS
    <3>2. c = h \o z
      BY <1>1, <1>5, <2>2, <2>4, <2>6, <3>1 DEF compile_instr_to_x86
    <3>3. Coded(j) /\ Coded(l)
      BY <3>1, ToRegisterEncoded, CodedOne, PlainCoded
    <3>4. Coded(h)
      BY <2>3, <3>1, <3>3, Joined4
    <3> QED BY <1>5, <2>3, <3>2, <3>4, CodedJoined
  <2> QED BY <1>10, <2>5, <2>6
<1>11. CASE op \in {"EQ", "NE", "LT", "LE", "GT", "GE"}
  <2>1. r \in Cells /\ a \in Terms
    BY <1>2, <1>11 DEF Fit, Operators
  <2>2. a \in Cells
    BY <1>1, <1>4, <1>11, <2>1 DEF ConstantFirst
  <2>3. PICK p, q : p = op_addr_to_addr("cmp", a, b) /\ q = op_apply(op, r)
    OBVIOUS
  <2>4. Coded(p) /\ Coded(q)
    BY <1>3, <2>1, <2>2, <2>3, BothCoded, ApplyCoded
  <2>5. c = p \o q
    BY <1>1, <1>5, <1>11, <2>3 DEF compile_instr_to_x86
  <2> QED BY <1>5, <2>4, <2>5, CodedJoined
<1>12. CASE op = "OUTPUT"
  <2>1. c = OutputCode(a)
    BY <1>1, <1>5, <1>12 DEF compile_instr_to_x86
  <2>2. Coded(op_addr_to_reg("mov", 2, a) \o <<Call(Routine("print", a))>>) /\ Coded(ArrayCode(a, SizeOf(a), Routine("print_array", a)))
    BY CallCoded
  <2> QED BY <1>5, <2>1, <2>2 DEF OutputCode, ArrayCode
<1>13. CASE op = "INPUT"
  <2>1. c = InputCode(r)
    BY <1>1, <1>5, <1>13 DEF compile_instr_to_x86
  <2>2. Coded(ArrayCode(r, IF SizeOf(r) = 0 THEN 1 ELSE SizeOf(r), Routine("read_array", r)))
    BY CallCoded
  <2> QED BY <1>5, <2>1, <2>2 DEF InputCode, ArrayCode
<1>14. CASE op \in {"LABEL", "JUMP", "JUMP0", "JNE", "JG"}
  <2>1. c = BranchCode(I)
    BY <1>1, <1>5, <1>14 DEF compile_instr_to_x86
  <2>2. a # NULL => a \in Cells
    <3>1. CASE op \in {"LABEL", "JUMP"}
      BY <1>2, <3>1 DEF Fit
    <3>2. CASE op = "JUMP0"
      BY <1>1, <1>2, <1>4, <3>2 DEF Fit, ConstantFirst
    <3>3. CASE op \in {"JNE", "JG"}
      BY <1>2, <3>3 DEF Fit
    <3> QED BY <1>14, <3>1, <3>2, <3>3
  <2>3. I.op \in {"LABEL", "JUMP", "JUMP0", "JNE", "JG"} /\ (I.arg1 # NULL => I.arg1 \in Cells /\ AddrType(I.arg1) \in Types)
    BY <1>1, <1>3, <1>14, <2>2
  <2> QED BY <1>5, <2>1, <2>3, BranchCoded
<1> QED
  BY <1>2, <1>6, <1>7, <1>8, <1>9, <1>10, <1>11, <1>12, <1>13, <1>14 DEF Ops, Operations, Operators

-----------------------------------------------------------------------------
(* Whatever is executed.                                                   *)

ExactStep ==
  pc = "run" /\ pc' = "run" /\ ip \in DOMAIN code =>
    LET m == Run86(Instr)  made == compile_instr_to_x86(Instr) IN
    /\ ~ConstantFirst(Instr) => \A j \in DOMAIN made : HasEncoding(made[j])
    /\ Instr.op = "INPUT" => m.called = <<Routine("read_array", Instr.res), <<Instr.res, 1>>, Len(mem[Instr.res.name])>>
    /\ Instr.op # "INPUT" => m.mem = mem' /\ m.temp = temp'
    /\ Instr.op = "OUTPUT" =>
         m.called = IF SizeOf(Instr.arg1) = 0 THEN <<Routine("print", Instr.arg1), out'[1][1]>>
                    ELSE <<Routine("print_array", Instr.arg1), <<Instr.arg1, 1>>, Len(out'[1])>>
    /\ ip' = IF m.taken THEN Target ELSE ip + 1

LEMMA StepIsExact ==
  ASSUME JumpInv, RunInv, Next, pc = "run", pc' = "run", ip \in DOMAIN code
  PROVE  ExactStep
<1>1. Instr \in Instrs
  BY Fetched
<1>2. PICK m : m = Run86(Instr)
  OBVIOUS
<1>3. ~ConstantFirst(Instr) => \A j \in DOMAIN compile_instr_to_x86(Instr) : HasEncoding(compile_instr_to_x86(Instr)[j])
  BY <1>1, InstrCoded DEF Coded
<1>4. CASE Mov \/ UMinus \/ Inc \/ Arith \/ Compare
  <2>1. Wrote(m)
    <3>1. CASE Mov
      BY <1>2, <3>1, MovExact
    <3>2. CASE UMinus
      BY <1>2, <3>2, UMinusExact
    <3>3. CASE Inc
      BY <1>2, <3>3, IncExact
    <3>4. CASE Arith
      <4>1. Instr.op \in {"PLUS", "MINUS", "MUL", "DIV", "AND", "OR"}
        BY <3>4 DEF Arith, Fetch
      <4>2. CASE Instr.op \in {"PLUS", "MINUS", "AND", "OR"}
        BY <1>2, <3>4, <4>2, ArithExact
      <4>3. CASE Instr.op = "MUL"
        BY <1>2, <3>4, <4>3, MulExact
      <4>4. CASE Instr.op = "DIV"
        BY <1>2, <3>4, <4>4, DivExact
      <4> QED BY <4>1, <4>2, <4>3, <4>4
    <3>5. CASE Compare
      BY <1>2, <3>5, CompareExact
    <3> QED BY <1>4, <3>1, <3>2, <3>3, <3>4, <3>5
  <2>2. ip' = ip + 1 /\ Instr.op \notin {"INPUT", "OUTPUT"}
    BY <1>4 DEF Mov, UMinus, Inc, Arith, Compare, Fetch, Step
  <2> QED BY <1>2, <1>3, <2>1, <2>2 DEF ExactStep, Wrote
<1>5. CASE WriteOut
  <2>1. ip' = ip + 1 /\ Instr.op = "OUTPUT"
    BY <1>5 DEF WriteOut, Fetch, Step
  <2>2. /\ Wrote(m)
        /\ m.called = IF SizeOf(Instr.arg1) = 0 THEN <<Routine("print", Instr.arg1), out'[1][1]>>
                      ELSE <<Routine("print_array", Instr.arg1), <<Instr.arg1, 1>>, Len(out'[1])>>
    BY <1>2, <1>5, OutputExact
  <2> QED BY <1>2, <1>3, <2>1, <2>2 DEF ExactStep, Wrote
<1>6. CASE ReadIn
  <2>1. ip' = ip + 1 /\ Instr.op = "INPUT"
    BY <1>6 DEF ReadIn, Fetch, Step
  <2>2. m.called = <<Routine("read_array", Instr.res), <<Instr.res, 1>>, Len(mem[Instr.res.name])>> /\ m.taken = FALSE
    BY <1>2, <1>6, InputExact
  <2> QED BY <1>2, <1>3, <2>1, <2>2 DEF ExactStep
<1>7. CASE Branch
  <2>1. Instr.op \in {"LABEL", "JUMP", "JUMP0", "JNE", "JG"}
    BY <1>7 DEF Branch, Fetch
  <2>2. m.mem = mem' /\ m.temp = temp' /\ ip' = IF m.taken THEN Target ELSE ip + 1
    BY <1>2, <1>7, BranchExact
  <2> QED BY <1>2, <1>3, <2>1, <2>2 DEF ExactStep
<1>8. ~Stuck /\ ~Finish
  BY DEF Stuck, Finish
<1>9. \A s : ~Statement(s)
  <2> SUFFICES ASSUME NEW s, Statement(s) PROVE FALSE
    OBVIOUS
  <2>1. Walk(s)
    BY DEF Statement, Assn, Input, Output, While, For, Switch, Case, Default, NextCase, End
  <2> QED BY <2>1 DEF Walk
<1>10. ~Done
  <2>1. code \in Codes
    BY DEF JumpInv, Neat, Tidy
  <2>2. Len(code) \in Nat /\ ip \in 1..Len(code)
    BY Fetched
  <2> QED BY <2>2 DEF Done
<1> QED BY <1>4, <1>5, <1>6, <1>7, <1>8, <1>9, <1>10 DEF Next, Run

\* Whatever the variables, the statements and what is read: the machine code of
\* every IR instruction, but a comparison or test that begins with a constant, can be
\* encoded, leaves every variable and temporary as the instruction does, calls the
\* library with what is to be printed or where to read to, and jumps exactly
\* when the instruction does (compile_x86.c).
THEOREM MachineCodeIsExact == Spec => MachineCodeExact
<1>1. JumpInv /\ RunInv /\ [Next]_vars => [ExactStep]_vars
  BY StepIsExact DEF ExactStep
<1>2. Spec => [][ExactStep]_vars
  BY <1>1, RunInvariant, PTL DEF Spec
<1> QED BY <1>2 DEF MachineCodeExact, ExactStep
=============================================================================
