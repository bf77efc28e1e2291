--------------------------------- MODULE Ast ---------------------------------
(***************************************************************************)
(* The abstract syntax tree (build_ast of ast_gen.c, get_ast_node of       *)
(* ast.c): one pass over the parse tree of Parser that evaluates the       *)
(* attributes of its symbols.  Inherited are the statement or module that  *)
(* comes next, the left operand collected so far (acc), the driver module  *)
(* and the name of a variable; synthesized are a tree or, for types,       *)
(* ranges and operators, a few values.  In the code all of them are fields *)
(* of the Symbol, and the order of the recursive calls sees to it that     *)
(* they are set when they are read: here the inherited ones are arguments  *)
(* of build_ast and the synthesized ones its result.  Some of the fields   *)
(* share their place in unions (next and acc; driver, varname, type, range *)
(* and operator), of which no symbol of the grammar has two.               *)
(*                                                                         *)
(* The text, value, line and column of a terminal are those of its token,  *)
(* given by the token's number; a nonterminal has the line and column of   *)
(* the lookahead it was expanded on.  Cases are numbered as in the code:   *)
(* rule r of Parser is case r - 1.                                         *)
(***************************************************************************)
EXTENDS Integers, Sequences, FiniteSets, TLC

NIL == [kind |-> "NULL"]

\* What a symbol is given before build_ast is called on its node ...
Given == [next |-> NIL, acc |-> NIL, driver |-> NIL, varname |-> 0]

\* ... and what it holds afterwards.
Result == [tree |-> NIL, type |-> "none", size |-> 0, beg |-> 0, end |-> 0, op |-> "none", scope |-> <<0, 0>>]

Tree(p) == [Result EXCEPT !.tree = p]

\* get_ast_node: at is the token whose line and column the node has, 0 none.
AstNode(kind, fields) == [kind |-> kind, at |-> 0] @@ fields

\* read_children: the nodes of the right-hand side.
read_children(t, p) ==
  LET from[m \in 0..Len(t)] == IF m = 0 THEN << >> ELSE <<m>> \o from[t[m].next_sibling]
  IN  from[t[p].first_child]

Case(t, p) == t[p].rule_num - 1

Child(t, p, k) == read_children(t, p)[k]

\* s[k]->lexeme, ->i, ->f or ->line of a terminal: its token.
Token(t, p, k) == t[Child(t, p, k)].tok

RECURSIVE build_ast(_, _, _)

\* build_ast(n[k]) with nothing inherited.
Built(t, p, k) == build_ast(t, Child(t, p, k), Given)
BuiltWith(t, p, k, field, value) == build_ast(t, Child(t, p, k), [Given EXCEPT ![field] = value])

-----------------------------------------------------------------------------
(* The program and its modules.  The chain of modules has the driver where *)
(* it stands in the text, between the modules before and after it.         *)

Program(t, p) ==
  LET after   == Built(t, p, 4).tree
      driver  == BuiltWith(t, p, 3, "next", after).tree
      modules == BuiltWith(t, p, 2, "driver", driver).tree
  IN  Tree(AstNode("Program", [decls |-> Built(t, p, 1).tree, driver |-> driver, modules |-> modules]))

OtherModules(t, p, inh) ==
  IF Case(t, p) = 5 THEN Tree(inh.driver)
  ELSE LET rest == BuiltWith(t, p, 2, "driver", inh.driver).tree IN
       Tree(BuiltWith(t, p, 1, "next", rest).tree)

Driver(t, p, inh) ==
  LET body == Built(t, p, 5) IN
  Tree(AstNode("Module", [name |-> 0, iParamList |-> NIL, oParamList |-> NIL, body |-> body.tree,
                          scope |-> body.scope, next |-> inh.next]))

Module(t, p, inh) ==
  LET body == Built(t, p, 12) IN
  Tree(AstNode("Module", [name |-> Token(t, p, 3), iParamList |-> Built(t, p, 8).tree,
                          oParamList |-> Built(t, p, 11).tree, body |-> body.tree,
                          scope |-> body.scope, next |-> inh.next]))

ModuleBody(t, p) ==
  [Tree(Built(t, p, 2).tree) EXCEPT !.scope = <<Token(t, p, 1), Token(t, p, 3)>>]

-----------------------------------------------------------------------------
(* Lists: the rest first, then the element with the rest as its next.      *)

\* Mutant: the element is built before it knows what comes next.
ListUnlinked(t, p, k) == Tree(Built(t, p, k).tree)

List(t, p, k) ==
  LET rest == Built(t, p, k + 1).tree IN Tree(BuiltWith(t, p, k, "next", rest).tree)

\* idList: a node per name, the rest in its next.
Name(t, p, k) ==
  Tree(AstNode("IDList", [varname |-> Token(t, p, k), next |-> Built(t, p, k + 1).tree]))

ModuleDeclaration(t, p, inh) ==
  Tree(AstNode("IDList", [varname |-> Token(t, p, 3), next |-> inh.next]))

OParam(t, p, inh) ==
  Tree(AstNode("IDTypeList", [varname |-> Token(t, p, 1), type |-> Built(t, p, 3).type, size |-> 0,
                              next |-> inh.next]))

IParam(t, p, inh) ==
  LET type == Built(t, p, 3) IN
  Tree(AstNode("IDTypeList", [varname |-> Token(t, p, 1), type |-> type.type, size |-> type.size,
                              next |-> inh.next]))

\* Types, and ranges of numbers.  The size of an array is the end of its range.
\* The code has a message here for a range that does not start at 1, and goes on;
\* a number is only its token in this module, so the message is left out.
BasicType(t, p) ==
  [Result EXCEPT !.type = CASE Case(t, p) = 21 -> "integer" [] Case(t, p) = 22 -> "real"
                            [] Case(t, p) = 23 -> "boolean"]
Type(t, p) ==
  IF Case(t, p) = 24 THEN [Result EXCEPT !.type = Built(t, p, 1).type]
  ELSE [Result EXCEPT !.type = Built(t, p, 6).type, !.size = Built(t, p, 3).end]

Range(t, p) == [Result EXCEPT !.beg = Token(t, p, 1), !.end = Token(t, p, 3)]

-----------------------------------------------------------------------------
(* Statements. *)

Input(t, p, inh)  == Tree(AstNode("Input", [varname |-> Token(t, p, 3), next |-> inh.next]))
Output(t, p, inh) == Tree(AstNode("Output", [var |-> Built(t, p, 3).tree, next |-> inh.next]))

Assn(t, p, inh) ==
  Tree(AstNode("Assn", [target |-> Built(t, p, 1).tree, expr |-> Built(t, p, 3).tree, next |-> inh.next]))

FCall(t, p, inh) ==
  Tree(AstNode("FCall", [name |-> Token(t, p, 4), iParamList |-> Built(t, p, 7).tree,
                         oParamList |-> Built(t, p, 1).tree, next |-> inh.next]))

Decl(t, p, inh) ==
  LET type == Built(t, p, 4) IN
  Tree(AstNode("Decl", [idList |-> Built(t, p, 2).tree, type |-> type.type, size |-> type.size,
                        next |-> inh.next]))

Switch(t, p, inh) ==
  LET cases == BuiltWith(t, p, 6, "next", Built(t, p, 7).tree).tree IN
  Tree(AstNode("Switch", [varname |-> Token(t, p, 3), cases |-> cases, defaultcase |-> Built(t, p, 8).tree,
                          scope |-> <<Token(t, p, 5), Token(t, p, 9)>>, next |-> inh.next]))

CaseStmt(t, p, inh) ==
  Tree(AstNode("Case", [val |-> Built(t, p, 2).tree, stmts |-> Built(t, p, 4).tree, next |-> inh.next]))

DefaultCase(t, p) ==
  Tree(AstNode("Case", [val |-> NIL, stmts |-> Built(t, p, 3).tree, next |-> NIL]))

For(t, p, inh) ==
  LET range == Built(t, p, 5) IN
  Tree(AstNode("For", [varname |-> Token(t, p, 3), beg |-> range.beg, end |-> range.end,
                       body |-> Built(t, p, 8).tree, scope |-> <<Token(t, p, 7), Token(t, p, 9)>>,
                       next |-> inh.next]))

While(t, p, inh) ==
  Tree(AstNode("While", [cond |-> Built(t, p, 3).tree, body |-> Built(t, p, 6).tree,
                         scope |-> <<Token(t, p, 5), Token(t, p, 7)>>, next |-> inh.next]))

-----------------------------------------------------------------------------
(* Expressions: an operand becomes the acc of the rest of its level, which *)
(* makes it the left operand of the first operator.                        *)

Var(token)  == AstNode("Var", [varname |-> token])
Num(token)  == AstNode("Num", [val |-> token])
RNum(token) == AstNode("RNum", [val |-> token])
Bool(val)   == AstNode("Bool", [val |-> val])

Variable(t, p) == Tree(BuiltWith(t, p, 2, "varname", Token(t, p, 1)).tree)

Deref(t, p, inh) ==
  Tree(AstNode("Deref", [varname |-> inh.varname, index |-> Built(t, p, 2).tree]))

Operand(t, p) == Tree(BuiltWith(t, p, 2, "acc", Built(t, p, 1).tree).tree)

BOp(t, p, op, inh) ==
  [AstNode("BOp", [op |-> op, arg1 |-> inh.acc, arg2 |-> Built(t, p, 2).tree]) EXCEPT !.at = Token(t, p, 1)]

OperatorOf(t, p) ==
  CASE Case(t, p) = 68 -> "OR" [] Case(t, p) = 71 -> "AND" [] OTHER -> Built(t, p, 1).op

\* Mutant: the rest becomes the right operand.
RestOnRight(t, p, inh) ==
  LET right == BuiltWith(t, p, 3, "acc", Built(t, p, 2).tree).tree IN
  Tree([BOp(t, p, OperatorOf(t, p), inh) EXCEPT !.arg2 = right])

Rest(t, p, inh) == Tree(BuiltWith(t, p, 3, "acc", BOp(t, p, OperatorOf(t, p), inh)).tree)

UOp(t, p) == Tree(AstNode("UOp", [op |-> Built(t, p, 1).op, arg |-> Built(t, p, 2).tree]))

Operator(t, p) == [Result EXCEPT !.op =
  (86 :> "PLUS" @@ 87 :> "MINUS" @@ 88 :> "LT" @@ 89 :> "LE" @@ 90 :> "GT" @@ 91 :> "GE"
     @@ 92 :> "EQ" @@ 93 :> "NE" @@ 94 :> "MUL" @@ 95 :> "DIV")[Case(t, p)]]

-----------------------------------------------------------------------------
(* The switch over the rules. *)

Attributes(t, p, inh) ==
  LET r == Case(t, p) IN
  CASE r = 0 -> Program(t, p)
    [] r \in {4, 5} -> OtherModules(t, p, inh)
    [] r = 6 -> Driver(t, p, inh)
    [] r = 7 -> Module(t, p, inh)
    [] r = 8 -> ModuleBody(t, p)
    [] r \in {1, 9, 13, 17, 60} -> List(t, p, 1)
    [] r \in {14, 18} -> List(t, p, 2)
    [] r = 55 -> Name(t, p, 1)
    [] r = 56 -> Name(t, p, 2)
    [] r = 3 -> ModuleDeclaration(t, p, inh)
    [] r = 16 -> OParam(t, p, inh)
    [] r = 20 -> IParam(t, p, inh)
    [] r \in {21, 22, 23} -> BasicType(t, p)
    [] r \in {24, 25} -> Type(t, p)
    [] r = 40 -> Range(t, p)
    [] r \in 41..48 -> Tree(BuiltWith(t, p, 1, "next", inh.next).tree)
    [] r = 49 -> Input(t, p, inh)
    [] r = 50 -> Output(t, p, inh)
    [] r = 51 -> Assn(t, p, inh)
    [] r = 52 -> FCall(t, p, inh)
    [] r = 58 -> Decl(t, p, inh)
    [] r = 59 -> Switch(t, p, inh)
    [] r = 62 -> CaseStmt(t, p, inh)
    [] r = 63 -> DefaultCase(t, p)
    [] r = 65 -> For(t, p, inh)
    [] r = 66 -> While(t, p, inh)
    [] r = 26 -> Variable(t, p)
    [] r = 27 -> Deref(t, p, inh)
    [] r = 28 -> Tree(Var(inh.varname))
    [] r = 39 -> Tree(Var(Token(t, p, 1)))
    [] r \in {30, 32, 38} -> Tree(Num(Token(t, p, 1)))
    [] r \in {31, 33} -> Tree(RNum(Token(t, p, 1)))
    [] r = 34 -> Tree(Bool(TRUE))
    [] r = 35 -> Tree(Bool(FALSE))
    [] r \in {29, 36, 37, 83, 84} -> Tree(Built(t, p, 1).tree)
    [] r \in {53, 85} -> Tree(Built(t, p, 2).tree)
    [] r = 11 -> Tree(Built(t, p, 3).tree)
    [] r \in {67, 70, 73, 76, 79} -> Operand(t, p)
    [] r \in {68, 71, 74, 77, 80} -> Rest(t, p, inh)
    [] r \in {69, 72, 75, 78, 81} -> Tree(inh.acc)
    [] r = 82 -> UOp(t, p)
    [] r \in 86..95 -> Operator(t, p)
    [] OTHER -> Result

\* "set line and col using first symbol of grammar rule", if not set yet.
Positioned(t, p, s) ==
  IF s.tree # NIL /\ read_children(t, p) # << >> /\ s.tree.at = 0
    THEN [s EXCEPT !.tree.at = t[Child(t, p, 1)].tok]
    ELSE s

build_ast(t, p, inh) == Positioned(t, p, Attributes(t, p, inh))

\* The calls of get_ast_node: build_ast is called once for every node of the
\* parse tree, and these are the rules it makes a node for.
NodeRules == {0, 3, 6, 7, 16, 20, 27, 28} \cup 30..35 \cup {38, 39} \cup 49..52
               \cup {55, 56, 58, 59, 62, 63, 65, 66, 68, 71, 74, 77, 80, 82}
ast_node_count(t) == Cardinality({p \in DOMAIN t : Case(t, p) \in NodeRules})

-----------------------------------------------------------------------------
(* destroy_ast: the nodes freed, in order.                                 *)

\* What destroy_ast goes on to from a node.
Owned(p) ==
  CASE p.kind = "BOp" -> <<p.arg1, p.arg2>>
    [] p.kind = "UOp" -> <<p.arg>>
    [] p.kind = "Deref" -> <<p.index>>
    [] p.kind \in {"IDList", "IDTypeList", "Input"} -> <<p.next>>
    [] p.kind = "Module" -> <<p.next, p.iParamList, p.oParamList, p.body>>
    [] p.kind = "Program" -> <<p.decls, p.modules>>
    [] p.kind = "Assn" -> <<p.next, p.target, p.expr>>
    [] p.kind = "While" -> <<p.next, p.cond, p.body>>
    [] p.kind = "For" -> <<p.next, p.body>>
    [] p.kind = "Decl" -> <<p.next, p.idList>>
    [] p.kind = "Output" -> <<p.next, p.var>>
    [] p.kind = "FCall" -> <<p.next, p.iParamList, p.oParamList>>
    [] p.kind = "Switch" -> <<p.next, p.cases, p.defaultcase>>
    [] p.kind = "Case" -> <<p.next, p.val, p.stmts>>
    [] OTHER -> << >>

\* Mutant: a program owns its driver module.
OwnsDriver(p) == IF p.kind = "Program" THEN Append(Owned(p), p.driver) ELSE Owned(p)
OwnedBy(p) == Owned(p)

RECURSIVE destroy_ast(_)
destroy_ast(p) ==
  IF p = NIL THEN << >>
  ELSE LET upto[k \in 0..Len(OwnedBy(p))] == IF k = 0 THEN << >> ELSE upto[k - 1] \o destroy_ast(OwnedBy(p)[k])
       IN  Append(upto[Len(OwnedBy(p))], p)
=============================================================================
