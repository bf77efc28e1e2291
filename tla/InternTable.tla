---------------------------- MODULE InternTable ----------------------------
(***************************************************************************)
(* The intern table of the parser (copy_symbol of parser.c): a hash map    *)
(* through which all occurrences of an identifier in the parse tree share  *)
(* one string.  From then on identifiers are compared by pointer: by the   *)
(* maps of the symbol tables and of the modules, and by the analyser.      *)
(*                                                                         *)
(* The key of an insertion is the lexeme of the token, which lies in one   *)
(* of the lexer's two buffers.  If the node returned has that very key it  *)
(* is new: then the lexeme is copied and the key of the node, already in   *)
(* the map, becomes the copy.  The tokens come from the lexer, which       *)
(* swaps its buffers with every token.                                     *)
(***************************************************************************)
EXTENDS HMap

CONSTANTS Keywords,   \* texts of tokens that are not identifiers
          MaxSymbols  \* bound: identifiers read

ASSUME MaxSymbolsAssumption == MaxSymbols \in Nat

VARIABLES lexeme,          \* tok->lexeme: the buffer of the last token
          symbols,         \* of the identifiers read: symb->lexeme, and (history) the text
          intern_counter

vars == <<mapvars, lexeme, symbols, intern_counter>>

Init ==
  /\ \E destroy \in BOOLEAN : MapInit(destroy)
  /\ lexeme = 2 /\ symbols = << >> /\ intern_counter = 0

\* The next token: the lexer has written its text into the other buffer, gives
\* that to the token (swap of lexer.c) and goes on with an empty lexeme in the
\* one it gets back.
get_token(text) ==
  /\ pc = "ready"
  /\ text \in Keywords \/ Len(symbols) < MaxSymbols
  /\ lexeme' = 3 - lexeme
  /\ heap' = [heap EXCEPT ![3 - lexeme] = text, ![lexeme] = Empty]
  /\ pc' = IF destroy_key /\ text \notin Keywords THEN "token" ELSE "ready"
  /\ UNCHANGED <<live, plist, capacity, size, destroy_key, call, i, n, plist2, answer, crashed,
                 symbols, intern_counter>>

\* copy_symbol for T_ID.
copy_symbol ==
  /\ pc = "token"
  /\ hmap_insert(lexeme, intern_counter)
  /\ UNCHANGED <<lexeme, symbols, intern_counter>>

IsNew(node) == node.key = lexeme

\* pnode->key = symb->lexeme
Rekeyed(new) == [plist EXCEPT ![Bucket(lexeme, capacity)] =
                   [Chain EXCEPT ![n] = [key |-> new, value |-> Chain[n].value]]]

CopyNew ==
  LET new == Len(heap) + 1 IN
  /\ pc = "copy" /\ IsNew(Chain[n])
  /\ heap' = Append(heap, heap[lexeme])
  /\ live' = live \cup {new}
  /\ plist' = Rekeyed(new)
  /\ symbols' = Append(symbols, [lexeme |-> new, text |-> heap[lexeme]])
  /\ intern_counter' = intern_counter + 1
  /\ pc' = "ready"
  /\ UNCHANGED <<capacity, size, destroy_key, call, i, n, plist2, answer, crashed, lexeme>>

Share ==
  /\ pc = "copy" /\ ~IsNew(Chain[n])
  /\ symbols' = Append(symbols, [lexeme |-> Chain[n].key, text |-> heap[lexeme]])
  /\ pc' = "ready"
  /\ UNCHANGED <<heap, live, plist, capacity, size, destroy_key, call, i, n, plist2, answer, crashed,
                 lexeme, intern_counter>>

Done == pc = "done" /\ UNCHANGED vars

Next ==
  \/ \E text \in Texts \ {Empty} : get_token(text)
  \/ copy_symbol \/ CopyNew \/ Share
  \/ (Step \/ hmap_clear \/ (~destroy_key /\ TableOp)) /\ UNCHANGED <<lexeme, symbols, intern_counter>>
  \/ Done

Spec == Init /\ [][Next]_vars

-----------------------------------------------------------------------------
(* Properties. *)

TypeOK ==
  /\ MapTypeOK
  /\ lexeme \in Buffers /\ intern_counter \in Nat
  /\ symbols \in Seq([lexeme : DOMAIN heap, text : Texts])

\* Through rehashing, the writing of tokens into the lexer's buffers and the
\* replacement of keys, every operation has the effect and the answer it has
\* on a finite map.  What the operations are is told by their bodies in
\* hmap.gen.c: the comments in hmap.gen.h:35,38 say otherwise, see Dictionary.
Abstract == INSTANCE Dictionary WITH dict <- Contents, Values <- 0..(MaxSymbols + 1)
ImplementsDictionary == Abstract!Spec

\* Two identifiers of the program share a string exactly if they have the
\* same name, and the string is there, unchanged, until the table is cleared:
\* what compiler.c and symbol_table.c need to compare names by address.
NamesInterned ==
  \A a, b \in DOMAIN symbols :
    /\ (symbols[a].text = symbols[b].text) <=> (symbols[a].lexeme = symbols[b].lexeme)
    /\ pc \notin {"clear", "done"} =>
         symbols[a].lexeme \in live /\ heap[symbols[a].lexeme] = symbols[a].text

KeysOf(p) == UNION {{p[j][m].key : m \in DOMAIN p[j]} : j \in DOMAIN p}

\* Outside of copy_symbol no key of the intern table points into a buffer of
\* the lexer, each is a block that nothing else will free, and hmap_clear
\* frees every one of them once.
KeysOwned ==
  destroy_key =>
    /\ ~crashed
    /\ pc \notin {"copy", "clear", "done"} => KeysOf(plist) \cup KeysOf(plist2) = live
    /\ pc = "done" => live = {}
=============================================================================
