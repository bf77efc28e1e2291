----------------------------- MODULE SourceText -----------------------------
(***************************************************************************)
(* What program an abstract syntax tree stands for, by the grammar alone:  *)
(* the tokens of its text, each with its kind, or "" where any will do,    *)
(* and with its place in the text if a node of the tree refers to it, or   *)
(* 0.  Expressions get the parentheses they need and no others.            *)
(***************************************************************************)
EXTENDS Integers, Sequences, TLC

LOCAL NoNode == [kind |-> "NULL"]

Kinds(s)    == [i \in DOMAIN s |-> [kind |-> s[i], tok |-> 0]]
At(kind, i) == <<[kind |-> kind, tok |-> i]>>

\* Do the tokens of the input read like the text?
ReadsLike(tokens, text) ==
  /\ Len(tokens) = Len(text)
  /\ \A i \in DOMAIN text : text[i].kind \in {"", tokens[i]} /\ text[i].tok \in {0, i}

\* The chain of p, each with its text of(p), and between them the separators
\* sep(p), each belonging to the one that follows.
Chained(of(_), sep(_), first) ==
  LET RECURSIVE texts(_)
      texts(p) == IF p = NoNode THEN << >>
                  ELSE of(p) \o (IF p.next = NoNode THEN << >> ELSE sep(p.next) \o texts(p.next))
  IN  texts(first)

\* The members of a chain.
Chain(first) ==
  LET RECURSIVE from(_)
      from(p) == IF p = NoNode THEN {} ELSE {p} \cup from(p.next)
  IN  from(first)

Nothing(p)    == << >>
Comma(p)      == Kinds(<<"COMMA">>)
CommaAt(p)    == At("COMMA", p.at)
NameText(p)   == At("ID", p.varname)

Capitals == "integer" :> "INTEGER" @@ "real" :> "REAL" @@ "boolean" :> "BOOLEAN"

TypeText(p) ==
  (IF p.size = 0 THEN << >>
   ELSE Kinds(<<"ARRAY", "SQBO", "NUM", "RANGEOP">>) \o At("NUM", p.size) \o Kinds(<<"SQBC", "OF">>))
    \o Kinds(<<Capitals[p.type]>>)

ParamText(p) == At("ID", p.varname) \o Kinds(<<"COLON">>) \o TypeText(p)

\* Operators by how tightly they bind.
Level(p) ==
  IF p.kind = "UOp" THEN 6
  ELSE IF p.kind # "BOp" THEN 7
  ELSE CASE p.op = "OR" -> 1 [] p.op = "AND" -> 2 [] p.op \in {"PLUS", "MINUS"} -> 4
         [] p.op \in {"MUL", "DIV"} -> 5 [] OTHER -> 3

RECURSIVE ExprText(_, _)

\* The text of an operand in a place where operators from level on may stand.
ExprText(p, level) ==
  LET text ==
        CASE p.kind = "BOp" -> ExprText(p.arg1, Level(p)) \o At(p.op, p.at) \o ExprText(p.arg2, Level(p) + 1)
          [] p.kind = "UOp" -> At(p.op, p.at) \o ExprText(p.arg, 7)
          [] p.kind = "Deref" -> At("ID", p.varname) \o At("SQBO", p.at) \o ExprText(p.index, 7) \o Kinds(<<"SQBC">>)
          [] p.kind = "Var" -> At("ID", p.varname)
          [] p.kind = "Num" -> At("NUM", p.val)
          [] p.kind = "RNum" -> At("RNUM", p.val)
          [] p.kind = "Bool" -> At(IF p.val THEN "TRUE" ELSE "FALSE", p.at)
  IN  IF Level(p) < level THEN Kinds(<<"BO">>) \o text \o Kinds(<<"BC">>) ELSE text

RECURSIVE StmtText(_)

Block(p, stmts) == At("START", p.scope[1]) \o Chained(StmtText, Nothing, stmts) \o At("END", p.scope[2])

CaseText(p) ==
  (IF p.val = NoNode THEN At("DEFAULT", p.at) ELSE At("CASE", p.at) \o ExprText(p.val, 7))
    \o Kinds(<<"COLON">>) \o Chained(StmtText, Nothing, p.stmts) \o Kinds(<<"BREAK", "SEMICOL">>)

StmtText(p) ==
  CASE p.kind = "Input" -> At("GET_VALUE", p.at) \o Kinds(<<"BO">>) \o At("ID", p.varname) \o Kinds(<<"BC", "SEMICOL">>)
    [] p.kind = "Output" -> At("PRINT", p.at) \o Kinds(<<"BO">>) \o ExprText(p.var, 7) \o Kinds(<<"BC", "SEMICOL">>)
    [] p.kind = "Assn" -> ExprText(p.target, 7) \o Kinds(<<"ASSIGNOP">>) \o ExprText(p.expr, 1) \o Kinds(<<"SEMICOL">>)
    [] p.kind = "FCall" ->
         (IF p.oParamList = NoNode THEN At("USE", p.at)
          ELSE At("SQBO", p.at) \o Chained(NameText, CommaAt, p.oParamList) \o Kinds(<<"SQBC", "ASSIGNOP", "USE">>))
           \o Kinds(<<"MODULE">>) \o At("ID", p.name) \o Kinds(<<"WITH", "PARAMETERS">>)
           \o Chained(NameText, CommaAt, p.iParamList) \o Kinds(<<"SEMICOL">>)
    [] p.kind = "Decl" ->
         At("DECLARE", p.at) \o Chained(NameText, CommaAt, p.idList) \o Kinds(<<"COLON">>) \o TypeText(p)
           \o Kinds(<<"SEMICOL">>)
    [] p.kind = "Switch" ->
         At("SWITCH", p.at) \o Kinds(<<"BO">>) \o At("ID", p.varname) \o Kinds(<<"BC">>) \o At("START", p.scope[1])
           \o Chained(CaseText, Nothing, p.cases) \o (IF p.defaultcase = NoNode THEN << >> ELSE CaseText(p.defaultcase))
           \o At("END", p.scope[2])
    [] p.kind = "For" ->
         At("FOR", p.at) \o Kinds(<<"BO">>) \o At("ID", p.varname) \o Kinds(<<"IN">>) \o At("NUM", p.beg)
           \o Kinds(<<"RANGEOP">>) \o At("NUM", p.end) \o Kinds(<<"BC">>) \o Block(p, p.body)
    [] p.kind = "While" ->
         At("WHILE", p.at) \o Kinds(<<"BO">>) \o ExprText(p.cond, 1) \o Kinds(<<"BC">>) \o Block(p, p.body)

ModuleText(p) ==
  (IF p.name = 0 THEN At("DRIVERDEF", p.at) \o Kinds(<<"DRIVER", "PROGRAM", "DRIVERENDDEF">>)
   ELSE At("DEF", p.at) \o Kinds(<<"MODULE">>) \o At("ID", p.name)
          \o Kinds(<<"ENDDEF", "TAKES", "INPUT", "SQBO">>) \o Chained(ParamText, Comma, p.iParamList)
          \o Kinds(<<"SQBC", "SEMICOL">>)
          \o (IF p.oParamList = NoNode THEN << >>
              ELSE Kinds(<<"RETURNS", "SQBO">>) \o Chained(ParamText, Comma, p.oParamList) \o Kinds(<<"SQBC", "SEMICOL">>)))
    \o Block(p, p.body)

DeclarationText(p) == At("DECLARE", p.at) \o Kinds(<<"MODULE">>) \o At("ID", p.varname) \o Kinds(<<"SEMICOL">>)

ProgramText(p) ==
  Chained(DeclarationText, Nothing, p.decls) \o Chained(ModuleText, Nothing, p.modules)
=============================================================================
