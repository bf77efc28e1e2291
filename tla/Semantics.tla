------------------------------ MODULE Semantics ------------------------------
(***************************************************************************)
(* The semantic analyser (compiler.c): compile_program walks over the      *)
(* modules of a program and compile_node over the statements of each, with *)
(* a symbol table for every scope, a status for every module and, for      *)
(* every enclosing statement, what its activation of compile_node keeps.   *)
(*                                                                         *)
(* An input gives the program up to the bodies of its modules; a body is   *)
(* chosen statement by statement as it is walked over, and recorded.  A    *)
(* while-loop, for-loop or switch is a statement of its own, ended by an   *)
(* End.  "declare x, y: t" counts as two declarations.  Symbol tables are  *)
(* reduced to what they map names to; storage is SymbolDB's subject.       *)
(***************************************************************************)
EXTENDS Integers, Sequences

CONSTANTS Names,     \* identifiers of variables
          ModNames,  \* ... and of modules
          DRIVER,    \* the driver module's name (NULL)
          Exprs,     \* expressions, with every expression their subexpressions
          Inputs     \* programs, with the statements and the length of bodies

NULL == 0
TYPE_ERROR == "error"
Types == {"integer", "real", "boolean"}

NameTypes == [name : Names, type : Types, size : Nat]
Modules   == [name : ModNames \cup {DRIVER}, ins : Seq(NameTypes), outs : Seq(NameTypes)]

\* What the proofs need to know of a statement.
StatementShape(s) ==
  /\ s.node = "Decl" => s.var \in NameTypes
  /\ s.node \in {"For", "Switch"} => s.name \in Names
  /\ s.node = "Case" /\ s.val.type = "boolean" => s.val.bool \in {"true", "false"}

ASSUME DriverAssumption == DRIVER \notin ModNames
ASSUME InputsAssumption ==
  \A inp \in Inputs :
    /\ inp.decls \in Seq(ModNames)
    /\ inp.modules \in Seq(Modules) /\ inp.modules # << >>
    /\ inp.max \in [DOMAIN inp.modules -> Nat]
    /\ \A s \in inp.stmts : StatementShape(s)

VARIABLES
  input,       \* the program
  body,        \* the statements walked over so far, by module
  pc,          \* "start", "module", "params", "body", "finish", "done" or "crashed"
  mod,         \* the module being compiled, a position in input.modules
  param,       \* its next parameter to be declared
  scopes,      \* the open symbol tables, innermost last: name -> entry
  entries,     \* all STEntries, in the order of their creation
  control,     \* the open statements, innermost last
  status,      \* module_status
  node_map,    \* module_node_map: the first module of each name
  errors,      \* the codes of the errors printed
  warnings     \* the warnings printed

vars == <<input, body, pc, mod, param, scopes, entries, control, status, node_map, errors, warnings>>

Only(cond, code) == IF cond THEN {code} ELSE {}

ModuleNode == input.modules[mod]

\* Mutant: without the second list.
InputParams(m) == m.ins
Params(m) == m.ins \o m.outs

-----------------------------------------------------------------------------
(* The symbol database. *)

NoNames == [n \in Names |-> NULL]

SD_get_entry(n) ==
  LET in == {i \in DOMAIN scopes : scopes[i][n] # NULL}
  IN  IF in = {} THEN NULL ELSE scopes[CHOOSE i \in in : \A j \in in : j <= i][n]

\* Mutant: everything stays in one scope.
SameScope       == UNCHANGED scopes
SD_add_scope    == scopes' = Append(scopes, NoNames)
SD_remove_scope == scopes' = SubSeq(scopes, 1, Len(scopes) - 1)

\* The entry a new declaration of n collides with; mutant: one of any scope.
DeclaredAnywhere(n) == SD_get_entry(n) # NULL
Declared(n) == scopes[Len(scopes)][n] # NULL

\* add_node_var_to_SD.  set stands for use_line # 0; line is 0 for the line the
\* name is declared in and k for that of the k-th of the open statements.
add_node_var_to_SD(v) ==
  LET top == Len(scopes) IN
  IF Declared(v.name)
  THEN errors' = errors \cup {"ALREADY_DECL"} /\ UNCHANGED <<scopes, entries>>
  ELSE /\ entries' = Append(entries, [type |-> v.type, size |-> v.size, readonly |-> FALSE, set |-> FALSE, line |-> 0])
       /\ scopes' = [scopes EXCEPT ![top][v.name] = Len(entries')]
       /\ UNCHANGED errors

\* log_var_set for the entries of E: the errors, and the entries after it.
log_var_set(E) == Only(\E e \in E : entries[e].readonly, "RDONLY_MOD")
Logged(E) == [e \in DOMAIN entries |-> [entries[e] EXCEPT !.set = @ \/ e \in E]]

-----------------------------------------------------------------------------
(* Expressions: the type and size compile_node gives a node, and the       *)
(* errors it prints.                                                       *)

Bad(errs) == [type |-> TYPE_ERROR, size |-> 0, errs |-> errs]

Numeric == {"integer", "real"}

get_composite_type(op, type1, type2) ==
  IF type1 # type2 THEN TYPE_ERROR
  ELSE IF op = "arith" /\ type1 \in Numeric THEN type1
  ELSE IF (op = "rel" /\ type1 \in Numeric) \/ (op = "logic" /\ type1 = "boolean") THEN "boolean"
  ELSE TYPE_ERROR

BOp(op, a, b) ==
  LET type == get_composite_type(op, a.type, b.type)
      bad  == type = TYPE_ERROR /\ TYPE_ERROR \notin {a.type, b.type}
  IN  IF a.size = 0 /\ b.size = 0
      THEN [type |-> type, size |-> 0, errs |-> a.errs \cup b.errs \cup Only(bad, "BAD_TYPE_FOR_OP")]
      ELSE Bad(a.errs \cup b.errs \cup Only(a.size > 0, "LOP_ARRAY") \cup Only(b.size > 0, "ROP_ARRAY"))

UOp(a) ==
  IF a.size # 0 THEN Bad(a.errs \cup {"UOP_ARRAY"})
  ELSE IF a.type \in Numeric THEN a
  ELSE Bad(a.errs \cup Only(a.type # TYPE_ERROR, "UOP_BAD_TYPE"))

Var(n) ==
  LET e == SD_get_entry(n)
  IN  IF e = NULL THEN Bad({"UNDECL_ID"})
      ELSE [type |-> entries[e].type, size |-> entries[e].size, errs |-> {}]

\* i is the node of the index, ie what it was found to be.
IndexErrors(i, ie, size) ==
  IF i.node = "Var" THEN Only(ie.type \notin {"integer", TYPE_ERROR} \/ ie.size # 0, "NONINT_INDEX")
  ELSE Only(i.val <= 0 \/ i.val > size, "OOB_INDEX")

Deref(n, i, ie) ==
  LET e == SD_get_entry(n)
  IN  IF e = NULL THEN Bad(ie.errs \cup {"UNDECL_ID"})
      ELSE IF entries[e].size = 0 THEN Bad(ie.errs \cup {"NONARR_DEREF"})
      ELSE [type |-> entries[e].type, size |-> 0, errs |-> ie.errs \cup IndexErrors(i, ie, entries[e].size)]

compile_expr[p \in Exprs] ==
  CASE p.node = "BOp"   -> BOp(p.op, compile_expr[p.arg1], compile_expr[p.arg2])
    [] p.node = "UOp"   -> UOp(compile_expr[p.arg])
    [] p.node = "Deref" -> Deref(p.name, p.index, compile_expr[p.index])
    [] p.node = "Var"   -> Var(p.name)
    [] OTHER            -> [type |-> p.type, size |-> 0, errs |-> {}]

-----------------------------------------------------------------------------
(* The walk. *)

Init == /\ input \in Inputs
        /\ body = [m \in DOMAIN input.modules |-> << >>]
        /\ pc = "start" /\ mod = 1 /\ param = 1
        /\ scopes = <<NoNames>> /\ entries = << >> /\ control = << >>
        /\ status = [m \in ModNames |-> {}]
        /\ node_map = [m \in ModNames |-> NULL]
        /\ errors = {} /\ warnings = {}

Repeated(s) == \E i, j \in DOMAIN s : i < j /\ s[i] = s[j]

ModulesOf(m) == {i \in DOMAIN input.modules : input.modules[i].name = m}

\* The first two loops of compile_program.
Prologue ==
  /\ pc = "start"
  /\ status' = [m \in ModNames |-> Only(\E i \in DOMAIN input.decls : input.decls[i] = m, "declared")]
  /\ node_map' = [m \in ModNames |->
       IF ModulesOf(m) = {} THEN NULL ELSE CHOOSE i \in ModulesOf(m) : \A j \in ModulesOf(m) : i <= j]
  /\ errors' = Only(Repeated(input.decls), "MODULE_REDECL")
                 \cup Only(\E m \in ModNames : \E i, j \in ModulesOf(m) : i # j, "MODULE_REDEF")
  /\ pc' = "module"
  /\ UNCHANGED <<input, body, mod, param, scopes, entries, control, warnings>>

\* A module: its scope, its status, then one parameter after the other.
EnterModule ==
  LET m == ModuleNode.name IN
  /\ pc = "module"
  /\ SD_add_scope
  /\ IF m = DRIVER THEN UNCHANGED <<status, warnings>>
     ELSE /\ status' = [status EXCEPT ![m] = @ \cup {"defined"}]
          /\ warnings' = warnings \cup Only("declared" \in status[m] /\ "used" \notin status[m],
                                            <<"NEEDLESS_DECLARE", mod>>)
  /\ pc' = "params" /\ param' = 1
  /\ UNCHANGED <<input, body, mod, entries, control, node_map, errors>>

Param ==
  /\ pc = "params" /\ param <= Len(Params(ModuleNode))
  /\ add_node_var_to_SD(Params(ModuleNode)[param])
  /\ param' = param + 1
  /\ UNCHANGED <<input, body, pc, mod, control, status, node_map, warnings>>

EnterBody ==
  /\ pc = "params" /\ param > Len(Params(ModuleNode))
  /\ pc' = "body"
  /\ UNCHANGED <<input, body, mod, param, scopes, entries, control, status, node_map, errors, warnings>>

\* The statement s is next in the body.  An End comes where there is something
\* to end; a switch has cases, then perhaps a default.
Innermost == control[Len(control)]
InSwitch  == control # << >> /\ Innermost.node = "Switch"

Fits(s) ==
  CASE s.node = "End"     -> control # << >> /\ (InSwitch => Innermost.cases > 0)
    [] s.node = "Case"    -> InSwitch /\ ~Innermost.default
    [] s.node = "Default" -> InSwitch /\ ~Innermost.default /\ Innermost.cases > 0
    [] OTHER              -> InSwitch => Innermost.cases > 0

\* The bound; a switch needs room for its case.
IsStatement(s) == s.node # "End"
Room(s) == Len(SelectSeq(body[mod], IsStatement)) + (IF s.node = "Switch" THEN 1 ELSE 0) < input.max[mod]

Walk(s) ==
  /\ pc = "body"
  /\ IsStatement(s) => Room(s)
  /\ Fits(s)
  /\ body' = [body EXCEPT ![mod] = Append(@, s)]
  /\ UNCHANGED <<input, mod, param, node_map, warnings>>

Report(errs) == errors' = errors \cup errs

Decl(s) ==
  /\ s.node = "Decl" /\ Walk(s)
  /\ add_node_var_to_SD(s.var)
  /\ UNCHANGED <<pc, control, status>>

Assn(s) ==
  LET target == compile_expr[s.target]
      expr   == compile_expr[s.expr]
      E      == {SD_get_entry(s.target.name)} \ {NULL}
  IN
  /\ s.node = "Assn" /\ Walk(s)
  /\ entries' = Logged(E)
  /\ Report(target.errs \cup expr.errs \cup log_var_set(E)
            \cup Only(TYPE_ERROR \notin {target.type, expr.type}
                      /\ <<target.type, target.size>> # <<expr.type, expr.size>>, "ASSN_TYPE_MISMATCH"))
  /\ UNCHANGED <<pc, scopes, control, status>>

Input(s) ==
  /\ s.node = "Input" /\ Walk(s)
  /\ Report(Var(s.name).errs)
  /\ UNCHANGED <<pc, scopes, entries, control, status>>

Output(s) ==
  /\ s.node = "Output" /\ Walk(s)
  /\ Report(compile_expr[s.var].errs)
  /\ UNCHANGED <<pc, scopes, entries, control, status>>

While(s) ==
  LET cond == compile_expr[s.cond] IN
  /\ s.node = "While" /\ Walk(s)
  /\ Report(cond.errs \cup Only(cond.type \notin {"boolean", TYPE_ERROR} \/ cond.size # 0, "NONBOOL_COND"))
  /\ SD_add_scope
  /\ control' = Append(control, [node |-> "While"])
  /\ UNCHANGED <<pc, entries, status>>

WasReadonly(e) == e # NULL /\ entries[e].readonly
LineOf(e) == IF e = NULL THEN 0 ELSE entries[e].line

\* The entry of a loop's variable while the loop at this depth is open.
Marked(entry, depth, prev_readonly) ==
  [entry EXCEPT !.readonly = TRUE, !.line = depth, !.set = @ \/ prev_readonly]

For(s) ==
  LET e == SD_get_entry(s.name)
      prev_readonly == WasReadonly(e)
      E == {e} \ {NULL}
  IN
  /\ s.node = "For" /\ Walk(s)
  /\ entries' = [i \in DOMAIN entries |->
                   IF i = e THEN Marked(entries[e], Len(control) + 1, prev_readonly) ELSE entries[i]]
  /\ Report(Var(s.name).errs \cup log_var_set(E)
            \cup Only(e # NULL /\ <<entries[e].type, entries[e].size>> # <<"integer", 0>>, "LOOPVAR_NOTINT"))
  /\ SD_add_scope
  /\ control' = Append(control, [node |-> "For", entry |-> e, prev_readonly |-> prev_readonly, prev_line |-> LineOf(e)])
  /\ UNCHANGED <<pc, status>>

\* An actual parameter a for a formal one f.
ArgErrors(a, f, is_output) ==
  LET e == SD_get_entry(a) IN
  IF e = NULL THEN {"UNDECL_ID"}
  ELSE Only(is_output /\ entries[e].readonly, "RDONLY_MOD")
         \cup Only(<<entries[e].type, entries[e].size>> # <<f.type, f.size>>, "FCALL_TYPE_MISMATCH")

compare_lists_type(is_output, actual, formal) ==
  IF Len(actual) < Len(formal) THEN {"FEW_ARGS"}
  ELSE IF Len(actual) > Len(formal) THEN {"MANY_ARGS"}
  ELSE UNION {ArgErrors(actual[i], formal[i], is_output) : i \in DOMAIN actual}

\* An argument list that is compared to its end is logged.
LoggedArgs(outs, formal) ==
  IF Len(outs) = Len(formal) THEN {SD_get_entry(outs[i]) : i \in DOMAIN outs} \ {NULL} ELSE {}

\* Mutant: a module that is only declared yet is not marked.
MarkDefined(name) == [status EXCEPT ![name] = @ \cup Only("defined" \in @, "used")]
Mark(name) == [status EXCEPT ![name] = @ \cup {"used"}]

FCall(s) ==
  LET callee  == node_map[s.name]
      formal  == input.modules[callee]
      recurse == Only(s.name = ModuleNode.name, "RECURSE_CALL")
  IN
  /\ s.node = "FCall" /\ Walk(s)
  /\ IF callee = NULL THEN Report(recurse \cup {"UNDECL_ID"}) /\ UNCHANGED <<status, entries>>
     ELSE /\ status' = Mark(s.name)
          /\ Report(recurse \cup Only(status[s.name] \cap {"defined", "declared"} = {}, "UNDEF_MODULE")
                    \cup compare_lists_type(FALSE, s.ins, formal.ins)
                    \cup (IF s.outs = << >> THEN {} ELSE compare_lists_type(TRUE, s.outs, formal.outs)))
          /\ entries' = Logged(LoggedArgs(s.outs, formal.outs))
  /\ UNCHANGED <<pc, scopes, control>>

\* type: that of the switch's variable; bools: the cases "true" and "false".
Switch(s) ==
  LET e  == SD_get_entry(s.name)
      ok == e # NULL /\ entries[e].size = 0 /\ entries[e].type \in {"integer", "boolean"}
  IN
  /\ s.node = "Switch" /\ Walk(s)
  /\ Report(Var(s.name).errs \cup Only(e # NULL /\ ~ok, "SWITCH_BAD_TYPE"))
  /\ SD_add_scope
  /\ control' = Append(control, [node |-> "Switch", type |-> IF ok THEN entries[e].type ELSE TYPE_ERROR,
                                 bools |-> {}, cases |-> 0, default |-> FALSE])
  /\ UNCHANGED <<pc, entries, status>>

Case(s) ==
  LET top == Innermost
      mismatch == top.type # TYPE_ERROR /\ s.val.type # top.type
      boolean  == ~mismatch /\ top.type = "boolean"
  IN
  /\ s.node = "Case" /\ Walk(s)
  /\ Report(Only(mismatch, "SWITCH_TYPE_MISMATCH") \cup Only(boolean /\ s.val.bool \in top.bools, "SWITCH_DUP"))
  /\ control' = [control EXCEPT ![Len(control)] =
                   [top EXCEPT !.cases = 1, !.bools = IF boolean THEN @ \cup {s.val.bool} ELSE @]]
  /\ UNCHANGED <<pc, scopes, entries, status>>

\* The cases are over.
Unhandled(top) ==
  IF top.type # "boolean" THEN {}
  ELSE Only("false" \notin top.bools, "SWITCH_NOFALSE") \cup Only("true" \notin top.bools, "SWITCH_NOTRUE")

Default(s) ==
  /\ s.node = "Default" /\ Walk(s)
  /\ Report(Unhandled(Innermost) \cup Only(Innermost.type = "boolean", "SWITCH_BOOLDEFAULT"))
  /\ control' = [control EXCEPT ![Len(control)] = [Innermost EXCEPT !.default = TRUE]]
  /\ UNCHANGED <<pc, scopes, entries, status>>

\* What compile_node does after the body of a while-loop, for-loop or switch.
\* At last it calls codegen, which frees the code of the parts once an error
\* was printed: of the first statement of a loop's body and of the value of the
\* default case.  There may be no such statement and is never such a value.
LastWalked == body[mod][Len(body[mod])].node
CleansNull == IF Innermost.node = "Switch" THEN Innermost.default ELSE LastWalked \in {"While", "For"}
codegen(errs) == pc' = IF errs # {} /\ CleansNull THEN "crashed" ELSE pc

EndWhile(s) ==
  /\ s.node = "End" /\ Walk(s)
  /\ Innermost.node = "While"
  /\ UNCHANGED <<entries, errors>>

\* Mutant: as if no enclosing loop could have the same variable.
Unmarked(entry, top) == [entry EXCEPT !.readonly = FALSE, !.line = 0]
Restored(entry, top) == [entry EXCEPT !.readonly = top.prev_readonly, !.line = top.prev_line]

EndFor(s) ==
  /\ s.node = "End" /\ Walk(s)
  /\ Innermost.node = "For"
  /\ entries' = [i \in DOMAIN entries |->
       IF i = Innermost.entry THEN Restored(entries[i], Innermost) ELSE entries[i]]
  /\ UNCHANGED errors

EndSwitch(s) ==
  /\ s.node = "End" /\ Walk(s)
  /\ Innermost.node = "Switch"
  /\ IF Innermost.default THEN UNCHANGED errors
     ELSE Report(Unhandled(Innermost) \cup Only(Innermost.type = "integer", "SWITCH_INT_DEFAULT"))
  /\ UNCHANGED entries

End(s) ==
  /\ EndWhile(s) \/ EndFor(s) \/ EndSwitch(s)
  /\ SD_remove_scope
  /\ control' = SubSeq(control, 1, Len(control) - 1)
  /\ codegen(errors')
  /\ UNCHANGED status

\* The body is over: its output parameters are looked at.
LeaveModule ==
  LET unset == {i \in DOMAIN ModuleNode.outs : ~entries[SD_get_entry(ModuleNode.outs[i].name)].set} IN
  /\ pc = "body" /\ control = << >>
  /\ Report(Only(unset # {}, "UNSET_OUTPUT_PARAM"))
  /\ SD_remove_scope
  /\ mod' = mod + 1
  /\ pc' = IF mod = Len(input.modules) THEN "finish" ELSE "module"
  /\ UNCHANGED <<input, body, param, entries, control, status, node_map, warnings>>

\* The last two loops of compile_program.
Epilogue ==
  /\ pc = "finish"
  /\ Report(Only(\E i \in DOMAIN input.decls : "defined" \notin status[input.decls[i]], "MODULE_NOTDECL"))
  /\ warnings' = warnings \cup
       {<<"MODULE_NOTUSED", i>> : i \in {j \in DOMAIN input.modules :
          input.modules[j].name # DRIVER /\ "used" \notin status[input.modules[j].name]}}
  /\ pc' = "done"
  /\ UNCHANGED <<input, body, mod, param, scopes, entries, control, status, node_map>>

Done == pc \in {"done", "crashed"} /\ UNCHANGED vars

Statement(s) ==
  \/ Decl(s) \/ Assn(s) \/ Input(s) \/ Output(s) \/ FCall(s)
  \/ While(s) \/ For(s) \/ Switch(s) \/ Case(s) \/ Default(s) \/ End(s)

EndStmt == [node |-> "End"]

Next == \/ Prologue \/ EnterModule \/ Param \/ EnterBody \/ LeaveModule \/ Epilogue \/ Done
        \/ \E s \in input.stmts \cup {EndStmt} : Statement(s)

Spec == Init /\ [][Next]_vars

-----------------------------------------------------------------------------
Entry == [type : Types, size : Nat, readonly : BOOLEAN, set : BOOLEAN, line : Nat]

Frames == [node : {"While"}]
     \cup [node : {"For"}, entry : Nat, prev_readonly : BOOLEAN, prev_line : Nat]
     \cup [node : {"Switch"}, type : Types \cup {TYPE_ERROR}, bools : SUBSET {"true", "false"},
           cases : {0, 1}, default : BOOLEAN]

\* Types; a scope is open for the program, for the module and for every open
\* statement, and every entry the analyser holds exists.
TypeOK ==
  /\ input \in Inputs
  /\ DOMAIN body = DOMAIN input.modules
  /\ pc \in {"start", "module", "params", "body", "finish", "done", "crashed"}
  /\ mod \in Nat
  /\ pc \in {"start", "module", "params", "body", "crashed"} => mod \in DOMAIN input.modules
  /\ param \in Nat \ {0}
  /\ entries \in Seq(Entry)
  /\ scopes \in Seq([Names -> 0..Len(entries)])
  /\ Len(scopes) = Len(control) + (IF pc \in {"params", "body", "crashed"} THEN 2 ELSE 1)
  /\ control \in Seq(Frames)
  /\ pc \notin {"body", "crashed"} => control = << >>
  /\ \A i \in DOMAIN control : control[i].node = "For" => control[i].entry \in 0..Len(entries)
  /\ status \in [ModNames -> SUBSET {"declared", "defined", "used"}]
  /\ node_map \in [ModNames -> Nat]

LoopEntries(frames) == {control[i].entry : i \in {j \in frames : control[j].node = "For"}} \ {NULL}

\* The variable of every loop that is open, and no other, is read-only: an
\* assignment to it is an error inside of the loop and none after it.
ReadonlyExact == \A e \in DOMAIN entries : entries[e].readonly <=> e \in LoopEntries(DOMAIN control)

\* ... because every loop remembers whether one around it has its variable.
PrevExact ==
  \A i \in DOMAIN control :
    control[i].node = "For" => (control[i].prev_readonly <=> control[i].entry \in LoopEntries(1..(i - 1)))

LoopOver(i, e) == control[i].node = "For" /\ control[i].entry = e

\* Of the first k open statements, line is the last one that is a loop over e.
IsLine(line, e, k) ==
  /\ line \in 0..k
  /\ line # 0 => LoopOver(line, e)
  /\ \A i \in (line + 1)..k : ~LoopOver(i, e)

\* The line of every entry, which is what RDONLY_MOD says a variable is declared
\* in, is that of the innermost open loop over it, or of its declaration.
LinesExact == \A e \in DOMAIN entries : IsLine(entries[e].line, e, Len(control))

\* ... because every loop remembers the line of the next one around it.
PrevLinesExact ==
  \A i \in DOMAIN control :
    control[i].node = "For" /\ control[i].entry # NULL => IsLine(control[i].prev_line, control[i].entry, i - 1)

\* compile_node marks the entry of a loop's variable for the length of the loop
\* and restores it from locals of its own activation: at every moment the marks
\* are those of the open loops, also when loops over one variable nest, with
\* scopes that hide it in between.
LoopMarksExact == ReadonlyExact /\ LinesExact

ReadonlyInv == TypeOK /\ ReadonlyExact /\ PrevExact /\ LinesExact /\ PrevLinesExact

\* Every output parameter has an entry as long as its module is compiled:
\* after the body, compile_node looks it up and uses it without a test.
OutputsBound ==
  pc = "body" => \A i \in DOMAIN ModuleNode.outs : SD_get_entry(ModuleNode.outs[i].name) # NULL
=============================================================================
