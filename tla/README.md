# A verification of the cerplag compiler

cerplag compiles ERPLAG, a small block-structured teaching language with integers,
reals, booleans, static arrays, `while`, `for`, `switch` and modules with value
parameters and results, to x86-64 assembly for NASM.  It is a batch program of one
thread: lexer, LL(1) parser, AST construction, and one walk over the AST that checks
the program, lays out its storage, emits three-address code (IR) and lets that be
translated to machine instructions.

There is no concurrency here.  What is hard is hidden state that outlives a call
(buffers refilled between two characters, a memo filled while it is read, counters
carried through a recursive walk, entries marked for the length of a loop), recovery
after an error, and the question whether each phase computes what it is meant to.  The
specifications say for each phase both what it does, step by step as the code does it,
and what it should do, in a form that does not mention how.

- [The system](#the-system): components, state, operations, interaction
- [The modules](#the-modules) and how they correspond to the code
- [What is checked](#what-is-checked): runs, bounds, fairness
- [What is proved](#what-is-proved)
- [Findings](#findings) and [known behaviour](#known-behaviour-that-is-not-a-finding)
- [What is not modelled](#what-is-not-modelled) and [the plan](#the-plan)

`PROJECT.json` lists components, runs, mutants, the line each definition was translated
from, findings, hazards and theorems in a machine-readable form.

## The system

```
 text --get_token--> tokens --build_parse_tree--> parse tree --build_ast--> AST
                               ^ init_parser: FIRST, FOLLOW, table
 AST --compile_program/compile_node--> SymbolDB, errors, IR code
                                        --optimize_ircode--> compile_x86 --> NASM + data/*.asm
```

| component | state it keeps | operations | used by |
|---|---|---|---|
| lexer (`lexer.c`) | input buffer and position, two lexeme buffers, automaton state, line and column, `error_count` | `init_lexer`, `get_token`, `A_*` actions, `post_process` | parser, once per token |
| table construction (`parser.c:165-461`) | FIRST and FOLLOW bit sets, memo of right-hand sides, parse table, `is_ll1` | `init_parser`: `get_first_*`, `update_follow`, `make_parse_table` | driver, once |
| parser (`parser.c:483-570`) | stack of symbols, cursor in the parse tree, lookahead, `error_count` | `build_parse_tree` | driver |
| AST construction (`ast_gen.c`, `ast.c`) | the attributes of symbols, nodes made | `build_ast`: one case per grammar rule; `get_ast_node`, `destroy_ast` | driver |
| intern table (`parser.c:76-109`) | a hash map from names to strings, in the lexer's buffers until replaced | `copy_symbol` | parser, on every match |
| symbol database (`symbol_table.c`) | tree of scopes with a map of names each, `level`, `active_scope`, list of entries, offsets, data segment size | add and remove a scope, add and look up an entry, add an address | semantic analyser |
| semantic analyser (`compiler.c`, `error.c`) | status of modules, `use_line` and `readonly` of entries, `error_count` | `compile_program`, `compile_node`, `compile_expr` | driver |
| IR generator (`codegen.c`, `ircode.c`) | `label_counter`, code attached to AST nodes | `codegen`, `optimize_ircode` | semantic analyser, on leaving each node |
| x86 generator (`compile_x86.c`, `x86.c`) | registers, instruction list | `compile_instr` per IR instruction | driver at level 2 |
| run-time library (`data/*.asm`) | none | read and print a value or an array | compiled programs |
| hash map (`util/hmap.gen.c`) | array of chains, size, capacity | query, insert, update, rehash, clear | lexer, parser, symbol tables, module tables |
| drivers (`driver.c`, `driver_sub.c`) | options, exit status | one phase after the other while `error_count` is 0 | |

How they interact: every arrow of the picture is a call, and the data passed on is only
read afterwards, with five exceptions, each of which is where a model composes two
parts.  The parser shares one token variable with the lexer (`Parser` copies the
lookahead into the tree before fetching the next).  What is copied is a pointer into a
buffer the lexer writes to again, until `copy_symbol` has put a string of its own into the
hash map (`InternTable` composes lexer, map and parser at this point).  `build_ast` finds
tokens and subtrees by their place in the parser's tree (`MCParser` composes `Parser` with
`Ast`).  `compile_node` calls the symbol
database and `codegen` while it walks, so that storage, scopes, checks and code are made
in one pass (`Semantics` has the scopes inlined in the form its checks need and calls
`codegen` at the end of each node for its effect on control; `SymbolDB` has the storage).
`error_count` is global and decides in `codegen`, in the middle of the walk, whether code
is made or freed.

What each part has to get right:

- **lexer**: the tokens are the longest words, nothing is skipped or read twice wherever a
  buffer is refilled, no buffer is overrun, positions are right, errors are all counted.
- **table**: FIRST, FOLLOW and the verdict are the textbook's, for any grammar given.
- **parser**: it accepts the language, reports an error where it is, and keeps the tree in
  step with the stack also after an error.
- **AST**: it says what the text says, no token lost and none in another's place, operators
  as they bind; all of it is freed once.
- **hash map, intern table**: a map is a map, also while it is rehashed; two identifiers are one
  string exactly if they are one name, for from here on names are compared by pointer.
- **symbol database**: names are visible as blocks are nested; objects of a module that
  live at the same time do not overlap, are aligned, and fit the data segment.
- **semantic analyser**: it accepts exactly the programs that keep the rules.
- **code generators**: the code does what the program means; every machine instruction exists
  and uses registers that hold what it expects.

## The modules

| module | lines of the code | role |
|---|---|---|
| `SymbolDB` | `symbol_table.c`, `type.c`, storage part of `compiler.c` | scopes, entries, addresses, offsets |
| `Scopes` | | *abstract*: a stack of sets of names |
| `Lexer` | `lexer.c` | automaton, buffers, `get_token` |
| `LexicalGrammar` | | *abstract*: the words of the language and their beginnings |
| `ErplagGrammar` | `data/grammar.txt` | the rules, and those of expressions for themselves |
| `ParseTable` | `parser.c:165-461` | FIRST, FOLLOW, table, as computed |
| `LL1` | | *abstract*: nullable, FIRST, FOLLOW, LL(1), left recursion |
| `Parser` | `parser.c:60-130, 483-570`, `util/*.gen.c` | stack, tree, cursor, recovery |
| `Derivation` | | *abstract*: leftmost derivations |
| `Ast` | `ast_gen.c`, `get_ast_node` and `destroy_ast` of `ast.c` | attributes of every rule, nodes, their release |
| `SourceText` | | *abstract*: the text a syntax tree stands for, by the grammar |
| `HMap` | `util/hmap.gen.c`, `util/pch.c` | chains, addresses, rehash, clear |
| `InternTable` | `copy_symbol` of `parser.c`, `swap_buffers` of `lexer.c` | names that become strings, on `HMap` |
| `Dictionary` | | *abstract*: a finite map |
| `Semantics` | `compiler.c`, `error.c` | the walk with every check |
| `StaticRules` | | *abstract*: the rules, each about the program as a whole |
| `Codegen` | `codegen.c`, the walk of `compiler.c`, `compile_x86.c` | IR, its optimisation, and what the code does when run |
| `X86` | `compile_x86.c` | the machine instructions made of each IR instruction, and a machine for them |
| `Meaning` | | *abstract*: what a program does |
| `MC*` | | constants, inputs and comparisons for the model checker |
| `LexerProperties` | | what the lexer promises, in terms of `LexicalGrammar` |
| `*_proofs`, `*_scope_proofs` | | theorems about the module named |

**SymbolDB.** `tables` is the tree of symbol tables, numbered in the order they are made,
`active`, `level` and `offset` are those of `psd`, `entries` the list of declarations, and
`addrs` the `AddrNode`s of all tables; `frame` is a history: the module each table belongs to.
The actions are `SD_add_scope`, `SD_remove_scope`, `Declare` and `AddAddr` (each with the
allocation in `SD_add_addr`), a rejected `Redeclare`, and `SD_clear`.
The order in which a table's counters are set when a scope is closed follows
`symbol_table.c:188-201`: the offset goes on counting when an inner scope closes and is set back to 0 when a module
does, and maxima go up to the root.  `ImplementsScopes` maps the path
from the active table to the root to the stack of `Scopes`.

**Lexer.** A character is its class, since the automaton tells no more apart; the table is
built by the same sequence of assignments as `precompute_dfa`.  One action per automaton
action (`AddChar`, `Ignore`, `NewLine`, `ClearLexeme`, `TokenBefore`, `TokenWith`,
`NumberBeforeRange`), with consumption, refill and push-back as helpers, and `EndOfFile`.
Tokens remember `from` and `to`, the characters they were made of; this is a history the
code has not, used only in properties.

**ParseTable.** Pure functions.  The memo is threaded through in the order of calls, FOLLOW
sets are updated in place in the order of the rules and passed over until nothing
changes, the last rule entered for a pair wins.

**Parser.** `stack` and the parse tree are separate, and the cursor `current_tn` moves by
`get_first_child_or_successor` and `get_successor` as in the code.  Actions: `Match`,
`Mismatch`, `Expand`, `Unexpected` (the two recoveries), `Overflow` (`exit(1)` when the stack is
full).  `ImplementsDerivation` maps tokens read and symbols on the stack to a sentential
form, up to the first error.

**Ast.** `build_ast` is a recursive operator on the tree of `Parser`, with one operator per kind
of rule, numbered as the cases of the code.  What the code passes through fields of symbols
(`next`, `acc`, `driver`, `varname`) is an argument here, what it hands back a result; `List` has
the order that matters, the rest of a list before its elements.  A name, a value and a line
are the number of their token, so that a tree tells which token went where.
`destroy_ast` gives the nodes in the order they are freed.  Both are evaluated on the tree the
run of the parser ends with.

**HMap, InternTable.** A key is an address and `heap` has the text at every address, so a key
whose address is written to changes its meaning, as it does in the code.  `live` are the
blocks to be freed.  Operations go node by node: `CheckLoad` (the test before the key is
looked up), `MoveNode` and `DropChain` and `EndRehash` (the rehash), `Walk`, `Found`, `Miss`; and
`FreeNode`, `FreeChain`, `EndClear`.  `InternTable` adds the lexer, whose two buffers are
addresses 1 and 2 and are swapped at each token, and the two ends of `copy_symbol`: `CopyNew` replaces
the key of the node just made, `Share` takes the key of the one found.  The same map with
keys that are string constants is the other initial state (`destroy_key` FALSE): `TableOp` are the
operations of the parser's, the lexer's and the modules' tables.  `ImplementsDictionary` says
what is found under each text, in whichever of the two arrays it is.

**Semantics.** A program is given statement by statement: an action named after a
node is what `compile_node` does on entering it (all it does, for a statement without parts)
and an `End...` action what it does on leaving it; `control` is the recursion's stack,
`scopes` the open symbol tables and `entries` what the code keeps of a declared name.  The program is recorded in `body` so that `StaticRules` can be
asked about it afterwards.  Where a node is left the call of `codegen` is included for its one
effect on the analysis, `CleansNull`: with errors counted it frees code through pointers
that may be NULL.  Errors are codes, without position or text; of positions there is the line (which goes with the column)
an entry is said to be declared in, as loops overwrite and restore it: `line` is 0 for that of the
declaration and k for that of the k-th open statement.

**Codegen.** The same way of giving a program, now one without errors (`Fits`), and the
code that is made of it in the order the walk comes back from the nodes.  `Finish` runs
`optimize_ircode`; then the program runs: each action after that is what the machine
instructions chosen for one IR instruction do on words from `-MaxInt - 1` to `MaxInt`.  What C and the
processor leave open is a step to `stuck`: an element that does not exist, a quotient that
does not exist.  An instruction is tagged with the statement it was made for (`at`), which the
program does not keep; the refinement `ImplementsMeaning` reads from the tag where
`Meaning` is, going over labels and jumps to them.

**X86.** `compile_instr_to_x86` gives the sequence of machine instructions of one IR instruction, with
registers and operand forms as chosen by `op_addr_to_reg`, `op_reg_to_addr`,
`op_addr_to_addr` and `op_apply`, and loads of index registers where these put them.  The
machine (external: it is the processor) knows which registers overlap, gives `Junk` for what was
never set, was set in another width, or lies beside an array, and says which
instructions have an encoding.  `MachineCodeExact` runs the sequence from a machine
in which nothing but memory is known, beside each step of `Codegen`'s run.  Comparisons and
tests that begin with a constant (`ConstantFirst`) have no encoding; the property leaves out
nothing else.

### What is a model of what, and what is left out of it

Names, positions and texts of messages are left out everywhere.  Links of lists and trees
are sequences and functions, except in the parser where the cursor's movement is the
point.  Characters are classes, literals small integers.  Programs are chosen by the
environment instead of being read: everything the model of one phase is given is something
the phase before can deliver, and what it cannot deliver (a case outside of a switch, a
statement without its end) is excluded by the guards `Fits`, which stand for the
grammar.

## What is checked

Every run that passes is exhaustive within its bounds.  Every property has a mutant: a
changed definition, in the manner of a slip in the code, under which the same run finds the
property violated (`PROJECT.json`, "mutants"; the mutated definitions stand next to the
originals, marked as such).

| run | question | bounds |
|---|---|---|
| `symboldb_modules` | Do objects of one module ever overlap, are they aligned, is the data segment as large as needed? Is visibility that of nested blocks? Does the list of entries agree with the tables? | 3 tables besides the root, 3 addresses, reals and booleans and arrays of 3, two names |
| `lexer_texts` | Does every text give the words of the text, at their places? | texts of up to 5 characters over those of numbers, 6 over those of comments, 3 over those of operators; chunks of 3, lexemes of 4, identifiers of 2 |
| `parsetable_exact` | Are FIRST, FOLLOW and verdict the textbook's? | the language's grammar, expressions, and all 9^4 grammars of two nonterminals with two rules each |
| `parser_expr` | Is the language of expressions accepted, the first error where it is, the syntax tree as operators and parentheses bind? When is the stack too small? | token sequences of up to 5 over 7 tokens with one operator of each of three levels; 7 tokens for two operators and parentheses around either; a stack of 14 |
| `parser_program` | Does the tree stay in step through recovery? Is the parse a leftmost derivation? Does it end? Is the syntax tree the program's, and freed once? | two programs with one token dropped, changed or inserted; a program with every construct |
| `parser_tail` | Is all of the program read? (no) | a program followed by a second driver |
| `intern_names` | Is the map a map, through collisions and rehashes? Do names share strings exactly if they are equal, and is every key freed once? | an array of 2 chains, doubled twice, three names that collide before and after, 5 identifiers |
| `semantics_rules` | Are exactly the programs accepted that keep the rules? Are loop variables marked, and everything restored? | four families of up to 2, 4, 3 and 2 statements |
| `semantics_recursion` | Is recursion rejected? (not between two modules) | two modules, a call each |
| `semantics_crash` | Does the analysis always end? (no) | 3 statements |
| `codegen_meaning` | Has every jump one label? Does the code do what the program means? Do the machine instructions? Do for-loops end? | two families of up to 3 statements (without cases and ends), words of 3 bits, two values to read |
| `codegen_plus` | Is the operator written the one compiled? (no) | 2 statements |

### Why the bounds are enough

- *Layout.* Besides the root there may be three tables: a module with two scopes next to
  each other or in one another, or a second module after one with a scope.  Three addresses
  are enough for one before, one in and one after an inner scope.  Of two element sizes
  one pads the other (4 and 1), arrays make objects of several elements; names are interchangeable (symmetry).
  The theorems remove the bounds.
- *Lexer.* With chunks of 3 and texts of 5 or 6 the buffer is refilled in every state of
  the automaton that a text can reach, also when the next character will be put back; with
  lexemes of 4 every way of filling the buffer occurs (a number is full just when the dots
  of a range arrive).  The texts of one family do not mix with those of another; what goes on
  between families is a token that ends, which each family has.
- *Table.* Two nonterminals are the fewest for FIRST of one to need that of another and for
  FOLLOW to need more than one pass; all right-hand sides of a kind occur with all others.
  Left-recursive grammars, the only ones for which a set can be memoised before it is complete, are
  in the run but excluded from the property, see below.
- *Parser.* One wrong token reaches every recovery; the recoveries go on after it, so that
  further errors follow.  A stack of 14 (100 in the code) is what makes nested parentheses overflow
  it within the bound.  With five tokens two binary operators of equal or different levels follow one another,
  and an error stands in every place.  Parentheses that override how operators bind take seven tokens:
  `(1+1)*1` and `1*(1+1)`, with every two operators, are added for `PrecedenceKept`.  Of the programs, the
  accepted edits and `Everything` have every rule of the grammar between them (`Everything` alone has every form
  of module, parameter, declaration and statement, lists of two and more, all operators).
- *Map.* Three names, of which two collide in arrays of two and of four chains and part in one of
  eight, so that a chain of two is moved and split, and a keyword, which moves the lexer on to its
  other buffer.  Five identifiers are enough for all three names and for two to come again,
  one of them in an insertion that rehashes the map and adds nothing, from either buffer.
- *Semantics.* A rule relates at most three statements (a declaration, what encloses,
  a use); the families separate questions that do not interact, and share those that do (for
  loops and hiding, switches and types, outputs and hiding, calls and their order).
- *Code.* Three statements nest three deep and follow one another in every way; a switch
  has up to two integer cases and a default; three bits make sums, products and quotients
  leave the range of words, and the division trap.  The data family has every
  operator, with variables, elements, temporaries and constants as operands where the
  analyser admits them, and indices that are variables on both sides.

### Fairness

The compiler is one process which is never blocked: `Lexer` and `Parser` assume weak fairness
of `Next`, that is that the program goes on running.  In `Codegen` weak fairness is assumed of
`Run`, the steps of the compiled program, only.  `SymbolDB`, `InternTable` and `Semantics` are checked
for safety only and assume none.  `Terminates` of the lexer says that no entry of the table
puts a character back for ever, that of the parser that no recovery loops, and
`ForLoopsEnd` that the jumps of the code lead where they should: under the precondition that
no `while` is in the program, that no loop's bound is the largest word and that the loop
variable is not read into.

### What the refinements say

- `SymbolDB` implements `Scopes` (`ImplementsScopes`): lookups through parents see what a stack of
  blocks shows.
- `Parser` implements `Derivation` (`ImplementsDerivation`): each `Expand` rewrites the leftmost
  nonterminal, each `Match` is a stutter, until the first error.
- `InternTable`, with either kind of keys, implements `Dictionary` (`ImplementsDictionary`): operations take effect at
  `Found` or `Miss`; moving nodes, writing tokens and replacing keys are stutters.
- `Codegen` implements `Meaning` (`ImplementsMeaning`): from the first instruction on, memory is
  the store of the program, output is what it prints, in the order in which it does; compiling
  is a stutter.  The temporaries, labels and jumps are hidden.

## What is proved

For all values of the constants, by TLAPS:

| theorem | says |
|---|---|
| `SymbolDB_proofs`: `LayoutInvariant` | the inductive invariant `LayoutInv` of the storage layout |
| `TypeCorrect`, `LaidOut`, `SegmentExact` | `TypeOK`, `FramesLaidOut`, `DataSegmentExact` always hold |
| `NoOverlap`, `Alignment`, `SegmentCovers`, `SegmentTight`, `Levels` | the two halves of `FramesLaidOut` and of `DataSegmentExact`; the level of a table is its depth |
| `SymbolDB_scope_proofs`: `EntriesListed`, `ScopesImplemented` | `EntriesMatchTables`; every step is a step of `Scopes` or a stutter (`ImplementsScopes`) |
| `Lexer_proofs`: `Sizes`, `TypeCorrect`, `LexemeInBuffer` | the state of the automaton bounds the lexeme (inductive); types; `BufferSafe` |
| `InvariantHolds`, `TokensInvariant`, `MunchInvariant` | the inductive invariants of reading, of what is skipped, of the words delivered |
| `PositionsRight`, `TextTiled`, `TailBounded`, `LongestWords`, `EachErrorCounted` | `PositionsExact`, `TokensTile`, `OnlyTailLost`, `MaximalMunch`, `ErrorsCounted` |
| `InternTable_proofs`: `InvariantHolds` | the inductive invariant `IInv` of map, heap and buffers |
| `TypeCorrect`, `InterningCorrect`, `OwnershipCorrect` | `TypeOK`, `NamesInterned`, `KeysOwned` |
| `MapImplemented` | every step of the map is a step of `Dictionary` or a stutter (`ImplementsDictionary`) |
| `Parser_proofs`: `InvariantHolds`, `TypeCorrect`, `InStepAlways` | the inductive invariant `IInv` of stack and tree; types; `Synchrony` |
| `DerivationImplemented` | up to the first error every step is a step of `Derivation` or a stutter (`ImplementsDerivation`) |
| `Semantics_proofs`: `TypeCorrect`, `ReadonlyInvariant`, `MarksCorrect`, `OutputsFound` | types; the inductive invariant of open loops; `LoopMarksExact`; `OutputsBound` |
| `Codegen_proofs`: `CodeInvariant`, `OptimizerIsSound` | the inductive invariant `CodeInv` of the code under construction; `OptimizerSound` |
| `JumpInvariant`, `EveryJumpLands` | the inductive invariant `JumpInv` of labels, through the optimizer; `JumpsLand` |
| `RunInvariant`, `TypeCorrect` | the inductive invariant `RunInv` of the code as it runs; `TypeOK` |
| `X86_proofs`: `MachineCodeIsExact` | the machine code of every IR instruction does what it does: `MachineCodeExact` |

The inductive invariants are not checked by the runs again, as each is proved inductive and
is as strong as the properties it implies.

**Storage.** That objects of a module are disjoint is not inductive: why a new object does
not overlap those made before must be known of the counter that gives out offsets.
`LayoutInv` says that it is beyond the end of every object of the module being compiled
(`OffsetInv`), which needs that the tables form a tree whose frames are those of their
parents (`TreeInv`), for the module is told by the table an object is in.  An allocation moves
the counter up, with alignment rounding it to a multiple; it is set back only when the root
becomes active, and the next module is a frame of its own.  For the data segment,
`MaxOffsetInv` says that there is a set of open scopes, one of each level and closed
under parents, such that for every object some scope of the set has a maximum not less than its
end: closing a scope hands its maximum to the parent, and what was accounted for by the closed
scope is by the parent; with only the root left, the root accounts for all.  That the segment is
no larger than needed is the same with witnesses: every maximum is the end of some object.  Assumptions: `ArraySizesAssumption` (arrays have at least one element),
`UsedTypesAssumption`, `BoundsAssumption` (the model's bounds are numbers).  Cited lemmas about
alignment and about paths in the tree stand at the beginning of the module.

**Names and scopes.** An entry is found through the number its name has in a table's map,
and a table numbers its address nodes, temporaries and literals among them, as they come.  `NamesInv`
says that numbers in a map have been given (`IdsInv`), so that a new one is nobody's, and that entries and
names in maps are in bijection (`EntriesInv`).  For the refinement, the path from the active
table to the root is shown to be what the recursive definition of the walk gives, by exhibiting it as a function of the
tables level by level; a scope that is opened makes it longer by one and leaves the rest.

**Lexer.** Only `A_ADD` checks the size of the lexeme, while `A_TOKF` and its like write two
bytes more, and `A_TOKN` takes one away without looking.  `SizeInv` ties the length of the lexeme
to the automaton's state: nothing in the start state and within comments, one character in
the states `A_TOKF` leaves from, at least one in all others.
Assumptions: `TextsAssumption`, `SizesAssumption`
(chunks are not empty, and a lexeme buffer has at least three bytes).

**Texts and tokens.** The buffers come first: what is in the input buffer is the part of the text that ends
where the file was read to (`ReadInv`), so that the next character is that of a place `Pos` of the text,
whatever was refilled or put back.  From there on the proofs are about the text: line and
column are those of `Pos` (`PlaceInv`); the lexeme is the text since `from`, or its
beginning if truncated (`LexemeInv`); and the state of the automaton tells what the text since `from` looks like (`ShapeInv`:
digits, a mantissa and an `e`, ...).  With `PlacesInv` of the tokens delivered this is inductive
and gives `PositionsExact`.  `TileInv` adds that between the last token and the lexeme begun there are
blanks and closed comments only, `ChainInv` the same of tokens delivered, `TailInv` what is
left at the end.  For `MaximalMunch` each action that delivers a token is shown to do so at a character with
which no word goes on: every viable beginning of a word has exactly one state, whose shape it
has, and the table has an entry to go on with for each character that keeps it viable.
`CountInv` says that the errors counted are the sum of what each token delivered was counted for, which for
the longest words is what is wrong with their spelling (`ErrorsCounted`): no other token is spelled like an identifier.

**Map of names.** `IInv` has, for the array of chains (for both, while the map is rehashed), that every key is in the
chain its text hashes to and no text is in two nodes (`ArrayOK`); what is in which of the two arrays in the
middle of a rehash (`RehashInv`: everything before the node to be moved is in the new one, the rest in the
old one only); what the walk along a chain has passed (`WalkInv`); that every key is a live block of its own
except the one just inserted, which is a buffer of the lexer until `CopyNew` (`KeysInv`) - a
lexer that wrote to a buffer which is a key would change what is found; and that the strings handed out are live and one for each
text (`SymbolsInv`).  Each operation's effect on what is found under a text (`Look`) is a lemma; the
refinement to `Dictionary` reads it off.  Assumptions: any hash function into the numbers, any capacity but 0.

**Parser.** The stack and the tree are separate in the code.  The invariant exhibits the functions that
the walks of the code compute (`up`, where `get_successor` goes; `from`, what is met from there on) and says that the nodes
met from the cursor on are those of the symbols on the stack, each without children and none twice
(`CursorInv`).  Expanding the cursor's node puts its children before what follows it, on both
sides; matching or dropping a symbol moves both on by one.  Parents come before their children
in the tree (`ParentsFirst`), which is why the walks end.  Assumptions: `GrammarAssumption` and `TableAssumption` (the table holds
rules for the nonterminal it is asked for, EOF is in no rule), any table otherwise, be the grammar LL(1) or not.

**Semantics.** A `for` loop marks its variable as read-only, with the loop's line, and restores
both from locals of the recursive call.  `ReadonlyInv` relates the marks of every entry to the stack of open
loops: it is read-only exactly if some open loop has that entry (`ReadonlyExact`), and its line is
that of the innermost such loop (`LinesExact`); each loop's locals are what the loops
outside of it make them (`PrevExact`, `PrevLinesExact`).  That lines are kept by a step which has the same loops over an
entry as before is one lemma for all steps (`SameLine`).  The entry of an output parameter is looked up after
the body and used without a test.  `ParamsInv`, in the proofs' module, says why it exists: the
parameters declared so far are in the second scope of the stack, and the body only adds
names and closes scopes it has opened.  Assumptions: `DriverAssumption` (the driver's name
is no identifier), `InputsAssumption` (programs are what the grammar gives).

**Code.** `optimize_ircode` drops a `MOV` and lets the instruction before it write to the `MOV`'s target, if
its result is a temporary; nobody tests that the `MOV` moves that temporary or that it is not used again.
A piece of code is `Sound` if this is so within it and it does not end with a temporary as result.  Two sound pieces
without a common temporary make a sound one (`SoundJoined`), which is most of what is to be known; the rest is that the
pieces have no common temporary.  The code of an expression uses the numbers above those given
so far and ends with the highest (`ExpressionMade`, by induction on the nesting).  In
`CodeInv` the open loops and switches have consecutive intervals of numbers, one each, in which are first its condition's, then
those of its cases and of the statements since, all different; an end makes one piece of them in the
frame below.  Assumptions: `VarsAssumption`, `ExprsAssumption` and `StatementsAssumption`, that is that
expressions and statements are what the grammar gives; `Depth` is there to say that expressions are
finite trees.  `TypesAssumption` and `LiteralsAssumption` say that they are typed as `compile_node` demands of a
program it finds no error in and that literals are words, and `WordsAssumption` that a word has at least two bits.

**Jumps.** Labels are numbered when a statement ends, after those of its parts, so a piece of code is `Tidy` with the
numbers of its labels, each of them on one label, and with those its jumps name.  A piece that is done
names its own only (`Neat`).  Put together, pieces stay tidy if they have no number in common, and they
have none as each got those from the counter on when it ended (`LabelFrames`): the pieces of a
loop or a switch, tests of cases and `codegen`'s order of a boolean switch included, make a neat one
again.  `optimize_ircode` drops no label and no jump and merges none (`OptimizeKeeps`): the result of an
instruction it moves is a temporary, which labels and jumps have not, and
what it writes instead is of the same type.  With the labels in place every
instruction the code can jump to exists, and `RunInv` is inductive: cells and temporaries have values of
their types.  Why a temporary does is that its number is used with one type in all of the
code (`OneType`), which comes from the expressions and passes through every piece.

**Machine code.** `RunInv` gives the operands of an instruction their types and places.  Executing is cut where pieces of
machine code meet (`RunJoin`); each of `load_index_if_needed`, `op_addr_to_reg`, `op_reg_to_addr`, `op_addr_to_addr`
and `op_apply` has a lemma that says what it leaves in which register, and which registers
it leaves alone (`Same`, `Gets`): this is where an operand that is loaded second could
destroy the first, or its index.  The instructions are sequences of these: that
`cwd` makes of a word the same number in two, that `imul` and `idiv` find their operands
in full width, that the conditions are those of the comparison in the order it was written, and that the
routine of the library which is called takes its argument in the register that was loaded, with the type it has.  No bound on the size of words is
used, so this holds for the 16 bits of the target as well as the three of the run.

Definitions that are recursive over data cannot be unfolded by an induction theorem here.
Where a proof needs what one computes (`compile_expr`, the walks through tree and tables,
`SkipBlanks`, the code of a switch), a function that satisfies the recursion is shown to exist and to be the only one, from the
smallest number at which this would fail.

**Only model-checked.**

- Liveness, which needs fairness and ENABLED: `Terminates` of lexer and parser, `ForLoopsEnd`.
- What is stated by recursion over trees, grammars or programs of any size: `TableExact` and
  `ErplagIsLL1`, `AcceptsLanguage`, `PrecedenceKept`, `FirstErrorExact`, `NestingLimit`, `AstIsProgram` and `NodesFreedOnce` (with
  recursive operators on both sides), `AcceptsExactly` and `WarningsExact`, and the refinement
  `ImplementsMeaning`, whose mapping looks along chains of labels.

## Findings

Four runs find what a message, a comment or a document of the code says of the program violated:

1. `parser_tail`: parsing stops when the stack is empty, not at the end of the file.  A
   second driver, and anything after it, is ignored without an error (`parser.c:559`).
2. `semantics_recursion`: "Recursive calls are not allowed" is tested for a module that
   calls itself only; two modules may call each other (`compiler.c:508`).
3. `semantics_crash`: after any error, a loop with an empty body or a switch with a default
   dereferences NULL in `codegen` (`codegen.c:169, 172, 187`), also when only a semantic check
   was asked for.
4. `codegen_plus`: `+x` is compiled as `-x` (`codegen.c:61`).

One more disagreement of comment and code is plain from reading, and has no run of its own.  The
comments on the hash map's interface have the condition the wrong way round: `hmap.gen.h:35` says of `hmap_insert`
"insert (k, v) if k is present. Otherwise don't do anything.", and line 38 of `hmap_update` "insert
(k, v) if k is present. Otherwise update k's corresponding value to v."  The code inserts a key if it is
*absent* (`hmap.gen.c:94`) and leaves, or updates, one that is present, which is what its callers rely on (`parser.c:89` and
`compiler.c:358` among them).  `Dictionary` specifies the operations by their code, so
`ImplementsDictionary` agrees with the code and contradicts these two comments.

## Known behaviour that is not a finding

Noticed while modelling.  But for the comment named under *Semantics*, no document, comment or test says
otherwise; the models take it as it is.

- *Lexer.* The end of the file drops a lexeme or comment that was begun (`OnlyTailLost` says
  this is all it drops).  A number that fills the buffer is too long if `..` follows.  A
  comment is ended by a later star once a second star was seen.  The column of a truncated token is
  that of its truncated beginning.  `atoi` of a literal too large for an `int` is undefined.  A
  NUL byte is taken for the end of the buffer.
- *AST.* Choice 5 of the menu (`driver_sub.c:73`) switches the printing of errors off, and with it
  their counting, so that `build_ast` is given the tree of a program with errors.
- *Table.* A left-recursive grammar can be taken for LL(1); the language's is not left recursive
  (`ErplagIsLL1`).
- *Parser.* The stack has at most 101 symbols (`stack.gen.c:53`) and every open parenthesis keeps six of
  them: fifteen nested ones fit in an assignment, with the sixteenth the compiler exits.  That it exits for no other reason is `NestingLimit`.
  Lexical errors in the part that is never read are not counted.
- *Storage.* The address node of an array element gets storage nobody uses.
- *Semantics.* A name may be declared again in an inner block, and hides the outer one there.
  The comment in `tests/t8.erp:51` calls this an error ("ERROR_V: variables u1 and x are already
  declared", where x is of an enclosing block); no output is recorded for that file, while the automated tests `c16.erp`
  and `c18.erp` declare names of outer blocks again and have outputs recorded (`tests/correct_outputs/c16.1.out`,
  `c18.1.out`) in which this is accepted.  The code agrees with these, and so do `StaticRules` and `Scopes`.
  The message about a loop over the variable of an enclosing loop names the inner loop's own line as that of the
  declaration, as the line is overwritten before the message (`compiler.c:452, 464`).  `get_value` does not count as setting an output parameter, nor as
  modifying the variable of a loop.  An array of bounds `1..0` is a scalar.  Two cases of a switch may
  have one integer value; the first is taken.  All cases of a switch share one scope.  A call
  that drops the results of a module is not compared with its parameters.
- *Code.* A `for` loop up to 32767 never ends.  The assignment of an array moves its first
  element.  A comparison with a constant on the left, and `while(true)`, become instructions
  NASM does not accept: `MachineCodeExact` names them (`ConstantFirst`) and shows that there are no others.  Module calls have no code.  AND and OR evaluate both operands.  An
  index is not checked when the program runs.  Reals are rejected by the x86 stage only.

## Hazards

`PROJECT.json` lists what is hard to test, each at its line, with the properties that
would catch it.  By part:

- *lexer*: push-back across a refill, the limit of the lexeme buffer, the range after a number,
  columns computed backwards, the end of the file within a lexeme or a comment, an entry
  that loops, errors counted after delivery;
- *table*: passes that must reach a fixpoint, double entries;
- *parser*: cursor and stack out of step, recovery that runs off the tree or does not end, a
  token overwritten before it is stored, late detection, the end of input, a full stack;
- *AST*: lists linked in the wrong order, associativity by right-recursive rules, a module reachable twice;
- *map*: keys in a buffer that is written again, a rehash before the key is looked up;
- *storage*: a counter carried through scopes, alignment, maxima lost on the way to the
  root, a rejected declaration, hiding;
- *semantics*: marks restored from locals, outputs found by name, recursion, calls, freed code;
- *code*: merging across an instruction, labels across nested statements, the exit of loops, stale
  registers, operand forms.

Those without a property have a note: number conversion, loops up to the largest word, comparisons with a constant first,
printing switched off, the exit status.

## What is not modelled

- Of the AST: the message about ranges of arrays, printing, and what `build_ast` does on the tree
  of a program with errors (it reads fields the parser has not set).
- Drivers: option parsing, files, the order of phases, `print_error_req` and the exit status.  They
  keep no state but flags; the phases are modelled with errors counted.
- Of x86 code: reals, which `check_arg` rejects; the choice of library files; prologue and
  epilogue; text.  The assembly of the run-time library, but for the registers its routines
  take and what they do.
- Positions of errors in `Semantics`, but for the lines kept for loop variables, and texts of messages.
- Freeing of memory, but for keys of the intern table, the AST, and the crash above; the links
  of the generic lists (`util/llist.gen.c`), which are sequences in `Codegen`.
- Values of literals (`atoi`, `atof`).
- Printing of tokens, trees and tables; `print_source_without_comments`, a scanner of its own for
  a menu entry that only prints.
- `scripts/parser.py`, a prototype of the table construction, and `tester.sh`.

## The plan

Done: `SymbolDB` with `Scopes`, `Lexer` with `LexicalGrammar`, `ParseTable` with `LL1`, `Parser` with
`Derivation`, `Ast` with `SourceText`, `HMap` and `InternTable` with `Dictionary`, `Semantics` with
`StaticRules`, `Codegen` with `Meaning`, `X86`; the theorems listed above, with three of the four
refinements.

Left: the order of the phases by the number of errors (`driver.c`, `driver_sub.c`), and reals, which
the analyser accepts and `check_arg` rejects.
