------------------------------ MODULE MCParser ------------------------------
(***************************************************************************)
(* The parser with the parse table of the language's own grammar, on all   *)
(* short token sequences over the symbols of expressions, and on programs  *)
(* with one token dropped, added or changed.                               *)
(***************************************************************************)
EXTENDS Parser, ErplagGrammar

CONSTANTS Alphabet,   \* tokens of the expressions, or those put into programs
          MaxLength   \* bound: the length of the expressions

Book == INSTANCE LL1

\* The tables init_parser builds, as TableExact of MCParseTable shows.
ErplagTable == Book!LL1Table(Erplag, Book!Lookaheads(Erplag))
ExprTable   == Book!LL1Table(ExprGrammar, Book!Lookaheads(ExprGrammar))

\* Values for the constants.  TLC evaluates a definition once, but what the
\* configuration puts for a constant each time: so these only name one.
MCTerms     == ErplagTerms
MCNonterms  == ErplagNonterms
MCRules     == ErplagRules
MCTable     == ErplagTable
MCExprTable == ExprTable

Expressions == UNION {[1..n -> Alphabet] : n \in 0..MaxLength}

\* Longer ones: two operators, and parentheses around either.
Operators   == Alphabet \cap {"PLUS", "MUL", "LT"}
Parentheses ==
  {<<"BO", "NUM", p[1], "NUM", "BC", p[2], "NUM">> : p \in Operators \X Operators}
    \cup {<<"NUM", p[1], "BO", "NUM", p[2], "NUM", "BC">> : p \in Operators \X Operators}

\* <<<driver program>>> start get_value(x); end
Driver == <<"DRIVERDEF", "DRIVER", "PROGRAM", "DRIVERENDDEF", "START",
            "GET_VALUE", "BO", "ID", "BC", "SEMICOL", "END">>

\* <<module m>> takes input [x: integer];
\* start switch(x) start case 1: print(x); break; end end
Module == <<"DEF", "MODULE", "ID", "ENDDEF", "TAKES", "INPUT", "SQBO", "ID", "COLON", "INTEGER", "SQBC", "SEMICOL",
            "START", "SWITCH", "BO", "ID", "BC", "START",
            "CASE", "NUM", "COLON", "PRINT", "BO", "ID", "BC", "SEMICOL", "BREAK", "SEMICOL", "END", "END">>

\* A program with every form of module, parameter, declaration and statement.
Everything ==
  <<"DECLARE", "MODULE", "ID", "SEMICOL", "DECLARE", "MODULE", "ID", "SEMICOL",
    "DEF", "MODULE", "ID", "ENDDEF", "TAKES", "INPUT", "SQBO", "ID", "COLON", "ARRAY", "SQBO", "NUM", "RANGEOP", "NUM",
    "SQBC", "OF", "REAL", "COMMA", "ID", "COLON", "BOOLEAN", "SQBC", "SEMICOL", "RETURNS", "SQBO", "ID", "COLON", "INTEGER",
    "COMMA", "ID", "COLON", "REAL", "SQBC", "SEMICOL", "START", "PRINT", "BO", "ID", "SQBO", "NUM", "SQBC", "BC", "SEMICOL",
    "ID", "SQBO", "ID", "SQBC", "ASSIGNOP", "MINUS", "ID", "SQBO", "NUM", "SQBC", "MINUS", "RNUM", "DIV", "PLUS", "NUM",
    "SEMICOL", "END">>
  \o Module \o Driver \o Module
  \o <<"DEF", "MODULE", "ID", "ENDDEF", "TAKES", "INPUT", "SQBO", "ID", "COLON", "INTEGER", "SQBC", "SEMICOL", "START",
       "DECLARE", "ID", "COMMA", "ID", "COMMA", "ID", "COLON", "ARRAY", "SQBO", "NUM", "RANGEOP", "NUM", "SQBC", "OF",
       "BOOLEAN", "SEMICOL", "DECLARE", "ID", "COLON", "REAL", "SEMICOL",
       "USE", "MODULE", "ID", "WITH", "PARAMETERS", "ID", "SEMICOL",
       "SQBO", "ID", "COMMA", "ID", "SQBC", "ASSIGNOP", "USE", "MODULE", "ID", "WITH", "PARAMETERS", "ID", "COMMA", "ID", "SEMICOL",
       "FOR", "BO", "ID", "IN", "NUM", "RANGEOP", "NUM", "BC", "START", "PRINT", "BO", "NUM", "BC", "SEMICOL",
         "WHILE", "BO", "ID", "LE", "NUM", "AND", "TRUE", "OR", "ID", "GT", "ID", "EQ", "FALSE", "BC", "START", "END",
         "PRINT", "BO", "RNUM", "BC", "SEMICOL", "END",
       "SWITCH", "BO", "ID", "BC", "START", "CASE", "TRUE", "COLON", "BREAK", "SEMICOL", "CASE", "FALSE", "COLON",
         "ID", "ASSIGNOP", "ID", "GE", "BO", "ID", "NE", "ID", "BC", "SEMICOL", "ID", "ASSIGNOP", "ID", "SEMICOL", "BREAK",
         "SEMICOL", "CASE", "RNUM", "COLON", "BREAK", "SEMICOL", "DEFAULT", "COLON", "PRINT", "BO", "ID", "BC", "SEMICOL",
         "BREAK", "SEMICOL", "END", "END">>

Without(w, i)   == SubSeq(w, 1, i - 1) \o SubSeq(w, i + 1, Len(w))
Inserted(w, i, t) == SubSeq(w, 1, i - 1) \o <<t>> \o SubSeq(w, i, Len(w))

\* w, and all that differ from it in one token.
Edits(w) ==
  LET P == DOMAIN w  T == Alphabet IN
  {w} \cup {Without(w, i) : i \in P}
    \cup {[w EXCEPT ![p[1]] = p[2]] : p \in P \X T}
    \cup {Inserted(w, p[1], p[2]) : p \in (1..(Len(w) + 1)) \X T}

EditedPrograms == Edits(Driver) \cup Edits(Module \o Driver) \cup {Everything}
Edited         == EditedPrograms

MCInputs   == Expressions \cup Parentheses
TwoDrivers == {Driver \o Driver}

-----------------------------------------------------------------------------
(* The sentences of the expression grammar over Alphabet, up to MaxLength. *)

Short(S) == {w \in S : Len(w) <= MaxLength}
Concat(S, T) == Short({p[1] \o p[2] : p \in S \X T})

\* Words of a symbol when those of the nonterminals are L.
WordsOf(L, X) == IF X \in Nonterms THEN L[X] ELSE IF X \in Alphabet THEN {<<X>>} ELSE {}

\* Words of the first k symbols of the right-hand side of rule r.
RuleWords(L, r, k) ==
  LET words[j \in 0..k] == IF j = 0 THEN {<< >>} ELSE Concat(words[j - 1], WordsOf(L, Rules[r].rhs[j]))
  IN  words[k]

RulesFor(X) == {r \in DOMAIN Rules : Rules[r].lhs = X}

RECURSIVE LanguageFrom(_), BeginningsFrom(_, _)
LanguageFrom(L) ==
  LET more == [X \in Nonterms |-> L[X] \cup UNION {RuleWords(L, r, Len(Rules[r].rhs)) : r \in RulesFor(X)}]
  IN  IF more = L THEN L ELSE LanguageFrom(more)

Language == LanguageFrom([X \in Nonterms |-> {}])

\* The beginnings of the words of every nonterminal.
BeginningsFrom(L, B) ==
  LET of(r) == UNION {Concat(RuleWords(L, r, k - 1), WordsOf(B, Rules[r].rhs[k]) \cup {<< >>}) :
                        k \in DOMAIN Rules[r].rhs}
      more  == [X \in Nonterms |-> B[X] \cup UNION {of(r) : r \in RulesFor(X)}]
  IN  IF more = B THEN B ELSE BeginningsFrom(L, more)

Sentences  == Language[Start] \cup Parentheses
Beginnings == BeginningsFrom(Language, [X \in Nonterms |-> {<< >>}])[Start]

\* Every expression is accepted, and whatever is accepted is an expression
\* followed by what was not read.
AcceptsLanguage ==
  pc = "done" =>
    /\ input \in Sentences => error_count = 0 /\ pos = Len(input) + 1
    /\ error_count = 0 => SubSeq(input, 1, pos - 1) \in Sentences

\* The first error is reported at the first token with which no expression
\* goes on: not later, whatever was expanded on it before, and not earlier.
FirstErrorExact ==
  [][error_count = 0 /\ error_count' = 1 =>
       /\ SubSeq(input, 1, pos - 1) \in Beginnings
       /\ IF pos <= Len(input) THEN SubSeq(input, 1, pos) \notin Beginnings
          ELSE input \notin Sentences]_vars

\* The parentheses that are open, in the part that was read.
Read(t) == Cardinality({i \in 1..(pos - 1) : i <= Len(input) /\ input[i] = t})
Open    == Read("BO") - Read("BC")

\* The stack grows with the nesting of an expression and never with its length:
\* a parenthesis that is open has left six symbols on it, and nine are all that
\* is needed besides, after whatever operators and errors.  So the compiler
\* gives up (stack.gen.c:53) on expressions that are nested too deep, and on no
\* others.
NestingLimit ==
  /\ Len(stack) <= 6 * Open + 9 /\ Len(stack) <= STACK_LIMIT + 1
  /\ pc = "exit" => 6 * Open + 9 > STACK_LIMIT + 1

-----------------------------------------------------------------------------
(* The syntax tree. *)

Syntax == INSTANCE Ast
Text   == INSTANCE SourceText

\* What build_ast makes of a program or an expression parsed without error.
Accepted  == pc = "done" /\ error_count = 0
SyntaxTree == Syntax!build_ast(tree, 1, Syntax!Given).tree

\* The syntax tree has every token of the program that means something, where
\* it belongs, and nothing else: printed by the grammar it is the program, the
\* modules and statements in the order of the text, the driver module among
\* them, and every line and column a node records is that of its own text.
AstIsProgram ==
  Accepted =>
    \E p \in {SyntaxTree} :
    /\ Text!ReadsLike(SubSeq(input, 1, pos - 1), Text!ProgramText(p))
    /\ p.driver.name = 0
    /\ p.driver \in Text!Chain(p.modules)

\* destroy_ast frees every node build_ast made, and none twice, although the
\* driver module is in the tree at two places and chains share their tails:
\* a node is known by its kind and the token it is placed at.
NodesFreedOnce ==
  Accepted =>
    \E freed \in {Syntax!destroy_ast(SyntaxTree)} :
    /\ Len(freed) = Syntax!ast_node_count(tree)
    /\ Cardinality({<<freed[k].kind, freed[k].at>> : k \in DOMAIN freed}) = Len(freed)

\* The tree the tokens i..j stand for: the operator at its root is the last of
\* those that bind least and stand outside parentheses and after an operand.
Weight(t) == CASE t = "LT" -> 3 [] t = "PLUS" -> 4 [] t = "MUL" -> 5 [] OTHER -> 0

RECURSIVE Reading(_, _)
Reading(i, j) ==
  LET count(t, k) == Cardinality({m \in i..k : input[m] = t})
      binary == {k \in (i + 1)..(j - 1) : /\ Weight(input[k]) # 0 /\ input[k - 1] \in {"NUM", "BC"}
                                         /\ count("BO", k) = count("BC", k)}
      root   == Max({k \in binary : \A m \in binary : Weight(input[k]) <= Weight(input[m])})
  IN  CASE i = j        -> [kind |-> "Num", val |-> i, at |-> i]
        [] binary # {}  -> [kind |-> "BOp", op |-> input[root], arg1 |-> Reading(i, root - 1),
                            arg2 |-> Reading(root + 1, j), at |-> root]
        [] binary = {} /\ input[i] = "BO" -> Reading(i + 1, j - 1)
        [] OTHER        -> [kind |-> "UOp", op |-> input[i], arg |-> Reading(i + 1, j), at |-> i]

\* The passing of acc along the right-recursive rules yields the tree of the
\* expression: operators bind as their levels say, equal ones to the left,
\* a sign only what follows it, and parentheses override all of it.
PrecedenceKept == Accepted => SyntaxTree = Reading(1, pos - 1)
=============================================================================
