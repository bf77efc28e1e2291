---------------------------- MODULE Lexer_proofs ----------------------------
(***************************************************************************)
(* Proofs about the lexer, for every text, every size of the input buffer  *)
(* and every lexeme buffer of at least the size of an operator: it never   *)
(* writes outside its buffers, the places it reports are those of the      *)
(* tokens, it skips blanks and comments only, the end of the file swallows *)
(* no more than a lexeme begun or a comment left open, the tokens are the  *)
(* longest words of the language, and every lexical error is counted once. *)
(***************************************************************************)
EXTENDS LexerProperties, SequenceTheorems, FiniteSetTheorems, WellFoundedInduction, TLAPS

-----------------------------------------------------------------------------
(* The lexeme stays within its buffer.                                     *)

\* What the table of transitions (lexer.c:119) guarantees: from which states
\* each action leaves, and to which it leads.
LEMMA EdgeKinds ==
  ASSUME NEW st, NEW c, NEW next, NEW a, <<st, c, next, a>> \in precompute_dfa
  PROVE  /\ st \in States /\ next \in States
         /\ a = "A_ADD" => /\ next \notin EmptyStates
                           /\ next \in OneCharStates => st = "S_START"
         /\ a \in {"A_IGN", "A_NL"} => st \in EmptyStates /\ next \in EmptyStates
         /\ a = "A_CLR" => next \in EmptyStates
         /\ a \in {"A_TOKS", "A_ERR"} => next = "S_START"
         /\ a = "A_TOKF" => next = "S_START" /\ st \in {"S_START"} \cup OneCharStates
         /\ a = "A_TOKN" => st = "S_I2" /\ next = "S_DOT2"
<1> USE DEF Edge, States, Classes, EmptyStates, OneCharStates
<1>1. CASE <<st, c, next, a>> \in BlankEdges
  BY <1>1 DEF BlankEdges, StartAdds
<1>2. CASE <<st, c, next, a>> \in IdEdges
  BY <1>2 DEF IdEdges
<1>3. CASE <<st, c, next, a>> \in NumberEdges
  BY <1>3 DEF NumberEdges
<1>4. CASE <<st, c, next, a>> \in CommentEdges
  BY <1>4 DEF CommentEdges
<1>5. CASE <<st, c, next, a>> \in OperatorEdges
  BY <1>5 DEF OperatorEdges
<1>6. CASE <<st, c, next, a>> \notin Edges
  <2>1. PICK p \in States \X Classes : <<st, c, next, a>> = <<p[1], p[2], "S_START", DefaultAction(p[1])>>
    BY <1>6 DEF precompute_dfa
  <2>2. st = p[1] /\ next = "S_START" /\ a = DefaultAction(p[1])
    BY <2>1
  <2>3. a \in {"A_TOKS", "A_ERR"}
    BY <2>2 DEF DefaultAction
  <2> QED BY <2>1, <2>2, <2>3
<1> QED BY <1>1, <1>2, <1>3, <1>4, <1>5, <1>6 DEF Edges

\* get_character (lexer.c:248) returns a character of the text, and leaves the
\* pointer within the buffer, which is never longer than what fread returned.
LEMMA CharacterRead ==
  ASSUME TypeOK
  PROVE  /\ Buffer \in Seq(Classes) /\ Len(Buffer) <= INPUT_CHUNK
         /\ FilePos \in 0..Len(text) /\ Len(Buffer) <= FilePos
         /\ Current \in 1..(Len(Buffer) + 1)
         /\ TextPos \in Int
         /\ ~AtEnd => Current \in 1..Len(Buffer) /\ ch \in Classes
<1> DEFINE last == Smaller(fpos + INPUT_CHUNK, Len(text))
<1>1. text \in Seq(Classes) /\ fpos \in 0..Len(text) /\ INPUT_CHUNK \in Nat \ {0}
  BY TextsAssumption, SizesAssumption DEF TypeOK
<1>2. Len(text) \in Nat
  BY <1>1, LenProperties
<1>3. last \in fpos..Len(text) /\ last <= fpos + INPUT_CHUNK
  BY <1>1, <1>2 DEF Smaller
<1> HIDE DEF last
<1>4. \A i \in (fpos + 1)..last : text[i] \in Classes
  BY <1>1, <1>2, <1>3, ElementOfSeq
<1>5. Chunk \in Seq(Classes) /\ Len(Chunk) = last - fpos
  <2>1. Chunk = SubSeq(text, fpos + 1, last)
    BY DEF Chunk, last
  <2>2. fpos + 1 \in Int /\ last \in Int
    BY <1>1, <1>2, <1>3
  <2>3. SubSeq(text, fpos + 1, last) \in Seq(Classes)
        /\ Len(SubSeq(text, fpos + 1, last)) =
             IF fpos + 1 <= last THEN last - (fpos + 1) + 1 ELSE 0
    BY <1>4, <2>2, SubSeqProperties
  <2> QED BY <1>1, <1>2, <1>3, <2>1, <2>3
<1>6. buf \in Seq(Classes) /\ Len(buf) <= INPUT_CHUNK /\ Len(buf) <= fpos /\ Len(buf) \in Nat
      /\ input_ptr \in 0..(Len(buf) + 1)
  BY LenProperties DEF TypeOK
<1>7. /\ Buffer \in Seq(Classes) /\ Len(Buffer) <= INPUT_CHUNK /\ Len(Buffer) \in Nat
      /\ FilePos \in 0..Len(text) /\ Len(Buffer) <= FilePos
      /\ Current \in 1..(Len(Buffer) + 1)
      /\ Buffer # << >> => Current \in 1..Len(Buffer)
  <2>1. CASE Refill
    <3>1. Buffer = Chunk /\ FilePos = fpos + Len(Chunk) /\ Current = 1
      BY <2>1 DEF Buffer, FilePos, Current
    <3>2. Chunk # << >> => Len(Chunk) \in Nat \ {0}
      BY <1>5, EmptySeq
    <3> QED BY <1>1, <1>2, <1>3, <1>5, <3>1, <3>2
  <2>2. CASE ~Refill
    BY <1>1, <1>2, <1>6, <2>2 DEF Refill, Buffer, FilePos, Current
  <2> QED BY <2>1, <2>2
<1>8. ~AtEnd => ch \in Classes
  BY <1>7, ElementOfSeq DEF AtEnd, ch
<1>9. TextPos \in Int
  BY <1>2, <1>7 DEF TextPos
<1> QED BY <1>7, <1>8, <1>9 DEF AtEnd

\* Reading or putting back a character keeps the input buffer well-formed.
LEMMA InputStep ==
  ASSUME TypeOK, text' = text, (Consume /\ ~AtEnd) \/ PushBack
  PROVE  /\ text' \in Texts
         /\ fpos' \in 0..Len(text')
         /\ buf' \in Seq(Classes) /\ Len(buf') <= INPUT_CHUNK /\ Len(buf') <= fpos'
         /\ input_ptr' \in 0..(Len(buf') + 1)
<1>1. Len(Buffer) \in Nat
  BY CharacterRead, LenProperties
<1> QED BY <1>1, CharacterRead DEF TypeOK, Consume, PushBack

\* A token handed over is well-formed, and so is the count of errors.
LEMMA TokenDelivered ==
  ASSUME TypeOK, NEW action, NEW predicted \in Tids, NEW lex \in Seq(Classes),
         NEW first \in Int, NEW last \in Int,
         Deliver(action, predicted, lex, first, last)
  PROVE  out' \in Seq(Token) /\ error_count' \in Nat /\ trunc' \in BOOLEAN /\ line' \in Int
<1> DEFINE tid == IF trunc THEN "T_ERR" ELSE token_check(predicted, lex)
           t == [tid |-> tid, line |-> line, col |-> Column(action, lex), lexeme |-> lex,
                 from |-> first, to |-> last]
<1>1. tid \in Tids
  BY DEF Tids, token_check
<1>2. Column(action, lex) \in Int
  <2>1. Len(lex) \in Nat
    BY LenProperties
  <2> QED BY <2>1 DEF TypeOK, Column
<1>3. t \in Token
  BY <1>1, <1>2 DEF TypeOK, Token
<1>4. out' = Append(out, t)
  BY DEF Deliver
<1>5. out' \in Seq(Token)
  BY <1>3, <1>4 DEF TypeOK
<1>6. error_count' \in Nat
  <2>1. IdErrors(lex) \in Nat
    BY DEF IdErrors
  <2> QED BY SMTT(30), <2>1 DEF Deliver, TypeOK
<1> QED BY <1>5, <1>6 DEF Deliver, TypeOK

\* The types and the sizes hold initially.
LEMMA InitInv == Init => TypeOK /\ SizeInv
<1> SUFFICES ASSUME Init PROVE TypeOK /\ SizeInv
  OBVIOUS
<1>1. text \in Seq(Classes) /\ Len(text) \in Nat
  BY TextsAssumption, LenProperties DEF Init
<1>2. << >> \in Seq(Classes) /\ << >> \in Seq(Token) /\ Len(<< >>) = 0
  BY EmptySeq
<1>3. TypeOK
  <2>1. text \in Texts /\ fpos \in 0..Len(text)
        /\ line \in Int /\ col \in Int /\ error_count \in Nat /\ from \in Int
    BY <1>1 DEF Init
  <2>4. out \in Seq(Token)
    BY <1>2 DEF Init
  <2>5. trunc \in BOOLEAN
    BY DEF Init
  <2>2. buf \in Seq(Classes) /\ Len(buf) = 0 /\ lexeme \in Seq(Classes) /\ input_ptr \in 0..1
    BY <1>2 DEF Init
  <2>3. s \in States
    BY DEF Init, States
  <2> QED BY <2>1, <2>2, <2>3, <2>4, <2>5, SizesAssumption DEF Init, TypeOK
<1>4. SizeInv
  BY <1>2, SizesAssumption DEF Init, SizeInv, EmptyStates, OneCharStates
<1> QED BY <1>3, <1>4

\* What is known of a quiet step: the character goes with the edge.
LEMMA QuietStep ==
  ASSUME TypeOK, NEW action, NEW next \in States, Quiet(action, next)
  PROVE  /\ <<s, ch, next, action>> \in precompute_dfa
         /\ s' = next /\ ch \in Classes /\ TextPos \in Int
         /\ text' \in Texts
         /\ fpos' \in 0..Len(text')
         /\ buf' \in Seq(Classes) /\ Len(buf') <= INPUT_CHUNK /\ Len(buf') <= fpos'
         /\ input_ptr' \in 0..(Len(buf') + 1)
         /\ error_count' \in Nat /\ out' \in Seq(Token)
<1>1. text' = text /\ Consume /\ ~AtEnd
  BY DEF Quiet
<1> QED BY <1>1, InputStep, CharacterRead DEF Quiet, TypeOK

\* One step of the automaton per kind of action.
LEMMA StepInv == TypeOK /\ SizeInv /\ [Next]_vars => TypeOK' /\ SizeInv'
<1> SUFFICES ASSUME TypeOK, SizeInv, [Next]_vars PROVE TypeOK' /\ SizeInv'
  OBVIOUS
<1>0. lexeme \in Seq(Classes) /\ Len(lexeme) \in Nat /\ LEXEME_BUFSIZE \in Nat /\ LEXEME_BUFSIZE >= 3
  BY SizesAssumption, LenProperties DEF TypeOK
<1>e. Len(<< >>) = 0 /\ << >> \in Seq(Classes)
  BY EmptySeq
<1>1. ASSUME NEW next \in States, AddChar(next) PROVE TypeOK' /\ SizeInv'
  <2>1. Quiet("A_ADD", next)
    BY <1>1 DEF AddChar
  <2>2. /\ <<s, ch, next, "A_ADD">> \in precompute_dfa
        /\ s' = next /\ ch \in Classes /\ TextPos \in Int
        /\ text' \in Texts
        /\ fpos' \in 0..Len(text')
        /\ buf' \in Seq(Classes) /\ Len(buf') <= INPUT_CHUNK /\ Len(buf') <= fpos'
        /\ input_ptr' \in 0..(Len(buf') + 1)
        /\ error_count' \in Nat /\ out' \in Seq(Token)
    BY <2>1, QuietStep
  <2>3. next \notin EmptyStates /\ (next \in OneCharStates => s = "S_START")
    BY <2>2, EdgeKinds
  <2>4. /\ lexeme' \in Seq(Classes)
        /\ Len(lexeme') = IF Fits THEN Len(lexeme) + 1 ELSE Len(lexeme)
    BY <1>0, <1>1, <2>2 DEF AddChar
  <2>5. TypeOK'
    BY <1>1, <2>2, <2>4 DEF AddChar, TypeOK
  <2>6. SizeInv'
    BY SMTT(30), <1>0, <1>e, <2>2, <2>3, <2>4 DEF SizeInv, Fits, EmptyStates
  <2> QED BY <2>5, <2>6
<1>2. ASSUME NEW next \in States, Ignore(next) \/ NewLine(next) PROVE TypeOK' /\ SizeInv'
  <2>1. PICK action \in {"A_IGN", "A_NL"} : Quiet(action, next)
    BY <1>2 DEF Ignore, NewLine
  <2>2. /\ <<s, ch, next, action>> \in precompute_dfa
        /\ s' = next
        /\ text' \in Texts
        /\ fpos' \in 0..Len(text')
        /\ buf' \in Seq(Classes) /\ Len(buf') <= INPUT_CHUNK /\ Len(buf') <= fpos'
        /\ input_ptr' \in 0..(Len(buf') + 1)
        /\ error_count' \in Nat /\ out' \in Seq(Token)
    BY <2>1, QuietStep
  <2>3. s \in EmptyStates /\ next \in EmptyStates
    BY <2>2, EdgeKinds
  <2>4. lexeme' = lexeme /\ trunc' = trunc /\ from' = from /\ line' \in Int /\ col' \in Int
    BY <1>2 DEF Ignore, NewLine, TypeOK
  <2>5. TypeOK'
    BY <2>2, <2>4 DEF TypeOK
  <2>6. SizeInv'
    BY <1>0, <2>2, <2>3, <2>4 DEF SizeInv, EmptyStates, OneCharStates
  <2> QED BY <2>5, <2>6
<1>3. ASSUME NEW next \in States, ClearLexeme(next) PROVE TypeOK' /\ SizeInv'
  <2>1. Quiet("A_CLR", next)
    BY <1>3 DEF ClearLexeme
  <2>2. /\ <<s, ch, next, "A_CLR">> \in precompute_dfa
        /\ s' = next
        /\ text' \in Texts
        /\ fpos' \in 0..Len(text')
        /\ buf' \in Seq(Classes) /\ Len(buf') <= INPUT_CHUNK /\ Len(buf') <= fpos'
        /\ input_ptr' \in 0..(Len(buf') + 1)
        /\ error_count' \in Nat /\ out' \in Seq(Token)
    BY <2>1, QuietStep
  <2>3. next \in EmptyStates
    BY <2>2, EdgeKinds
  <2>4. TypeOK'
    BY <1>3, <1>e, <2>2 DEF ClearLexeme, TypeOK
  <2>5. SizeInv'
    BY SMTT(30), <1>0, <1>3, <1>e, <2>2, <2>3 DEF ClearLexeme, SizeInv, EmptyStates, OneCharStates
  <2> QED BY <2>4, <2>5
<1>4. ASSUME NEW next \in States, NEW action \in {"A_TOKS", "A_ERR"}, TokenBefore(action, next)
      PROVE  TypeOK' /\ SizeInv'
  <2> DEFINE predicted == IF action = "A_TOKS" THEN predict_token_from_state(s) ELSE "T_ERR"
  <2>1. predicted \in Tids
    BY DEF predict_token_from_state, FromState, final_states, Tids
  <2>2. Deliver(action, predicted, lexeme, from, TextPos - 1)
    BY <1>4 DEF TokenBefore
  <2> HIDE DEF predicted
  <2>3. TextPos - 1 \in Int /\ from \in Int
    BY CharacterRead DEF TypeOK
  <2>4. out' \in Seq(Token) /\ error_count' \in Nat /\ trunc' \in BOOLEAN /\ line' \in Int
    BY <1>0, <2>1, <2>2, <2>3, TokenDelivered
  <2>5. <<s, ch, next, action>> \in precompute_dfa /\ s' = next /\ text' = text /\ PushBack
        /\ lexeme' = << >> /\ col' = col /\ from' = from
    BY <1>4 DEF TokenBefore, Emitting, Deliver
  <2>6. s' = "S_START"
    BY <2>5, EdgeKinds
  <2>7. TypeOK'
    BY <1>e, <2>4, <2>5, InputStep DEF TypeOK
  <2>8. SizeInv'
    BY <1>0, <1>e, <2>5, <2>6 DEF SizeInv, EmptyStates, OneCharStates
  <2> QED BY <2>7, <2>8
<1>5. ASSUME NEW next \in States, TokenWith(next) PROVE TypeOK' /\ SizeInv'
  <2> DEFINE lex == Append(lexeme, ch)
             predicted == predict_token_from_char(lex[1])
             first == IF lexeme = << >> THEN TextPos ELSE from
  <2>1. <<s, ch, next, "A_TOKF">> \in precompute_dfa /\ s' = next /\ text' = text /\ Consume /\ ~AtEnd
        /\ lexeme' = << >> /\ col' = col + 1 /\ from' = from
    BY <1>5 DEF TokenWith, Emitting, Deliver
  <2>2. ch \in Classes /\ TextPos \in Int
    BY <2>1, CharacterRead
  <2>3. predicted \in Tids /\ lex \in Seq(Classes) /\ first \in Int
    BY <1>0, <2>2 DEF predict_token_from_char, FromChar, Tids, OperatorTids, TypeOK
  <2>4. Deliver("A_TOKF", predicted, lex, first, TextPos)
    BY <1>5 DEF TokenWith
  <2> HIDE DEF lex, predicted, first
  <2>5. out' \in Seq(Token) /\ error_count' \in Nat /\ trunc' \in BOOLEAN /\ line' \in Int
    BY <2>2, <2>3, <2>4, TokenDelivered
  <2>6. s' = "S_START"
    BY <2>1, EdgeKinds
  <2>7. TypeOK'
    BY <1>e, <2>1, <2>5, InputStep DEF TypeOK
  <2>8. SizeInv'
    BY <1>0, <1>e, <2>1, <2>6 DEF SizeInv, EmptyStates, OneCharStates
  <2> QED BY <2>7, <2>8
<1>6. ASSUME NEW next \in States, NumberBeforeRange(next) PROVE TypeOK' /\ SizeInv'
  <2> DEFINE lex == SubSeq(lexeme, 1, Len(lexeme) - 1)
  <2>1. <<s, ch, next, "A_TOKN">> \in precompute_dfa /\ s' = next /\ text' = text /\ Consume /\ ~AtEnd
        /\ lexeme' = <<"C_DOT", "C_DOT">> /\ col' = col + 1 /\ from' = TextPos - 1
    BY <1>6 DEF NumberBeforeRange, Emitting, Deliver
  <2>2. TextPos \in Int /\ from \in Int
    BY CharacterRead DEF TypeOK
  <2>3. lex \in Seq(Classes)
    BY <1>0, SubSeqProperties, ElementOfSeq
  <2>4. Deliver("A_TOKN", "T_NUM", lex, from, TextPos - 2)
    BY <1>6 DEF NumberBeforeRange
  <2> HIDE DEF lex
  <2>5. out' \in Seq(Token) /\ error_count' \in Nat /\ trunc' \in BOOLEAN /\ line' \in Int
    <3>1. "T_NUM" \in Tids /\ TextPos - 2 \in Int
      BY <2>2 DEF Tids
    <3> QED BY <2>2, <2>3, <2>4, <3>1, TokenDelivered
  <2>6. s' = "S_DOT2" /\ s' \in States
    BY <2>1, EdgeKinds
  <2>7. lexeme' \in Seq(Classes) /\ Len(lexeme') = 2
    BY <2>1 DEF Classes
  <2>8. TypeOK'
    BY <2>1, <2>2, <2>5, <2>6, <2>7, InputStep DEF TypeOK
  <2>9. SizeInv'
    BY <1>0, <2>6, <2>7 DEF SizeInv, EmptyStates, OneCharStates
  <2> QED BY <2>8, <2>9
<1>7. CASE EndOfFile
  <2> DEFINE t == [tid |-> "T_EOF", line |-> line, col |-> col, lexeme |-> << >>,
                   from |-> Len(text) + 1, to |-> Len(text)]
  <2>1. text' = text /\ PushBack /\ UNCHANGED dfa /\ from' = from /\ out' = Append(out, t)
    BY <1>7 DEF EndOfFile
  <2>2. Len(text) \in Nat
    BY TextsAssumption, LenProperties DEF TypeOK
  <2>3. t \in Token
    BY <1>e, <2>2 DEF Token, Tids, TypeOK
  <2>4. out' \in Seq(Token)
    BY <2>1, <2>3 DEF TypeOK
  <2>5. TypeOK'
    BY <2>1, <2>4, InputStep DEF TypeOK, dfa
  <2>6. SizeInv'
    BY <2>1 DEF SizeInv, dfa
  <2> QED BY <2>5, <2>6
<1>8. CASE UNCHANGED vars
  BY <1>8 DEF vars, input, dfa, TypeOK, SizeInv
<1> QED BY <1>1, <1>2, <1>3, <1>4, <1>5, <1>6, <1>7, <1>8 DEF Next, Done

\* The automaton keeps its variables in range and the lexeme as long as its
\* state says: the inductive invariant.
THEOREM Sizes == Spec => [](TypeOK /\ SizeInv)
<1> QED BY InitInv, StepInv, PTL DEF Spec

\* TypeOK for every text and every size of the buffers: the pointer into the
\* input buffer never leaves it (get_character, lexer.c:248).
THEOREM TypeCorrect == Spec => []TypeOK
<1> QED BY Sizes, PTL

\* No action of execute_action (lexer.c:348) writes past the lexeme buffer or
\* before it, for every text and every buffer size of at least three.
THEOREM LexemeInBuffer == Spec => []BufferSafe
<1>1. TypeOK /\ SizeInv => BufferSafe
  <2> SUFFICES ASSUME TypeOK, SizeInv PROVE BufferSafe
    OBVIOUS
  <2>1. \A n \in {0, 1} : n + 1 < LEXEME_BUFSIZE
    BY SizesAssumption
  <2>2. ASSUME NEW e \in precompute_dfa, e[1] = s
        PROVE  /\ e[4] = "A_TOKF" => Len(lexeme) + 1 < LEXEME_BUFSIZE
               /\ e[4] = "A_TOKN" => Len(lexeme) >= 1
    <3>1. e = <<e[1], e[2], e[3], e[4]>>
      BY <2>2 DEF precompute_dfa, Edges, BlankEdges, IdEdges, NumberEdges, CommentEdges,
                  OperatorEdges, Edge
    <3>2. /\ e[4] = "A_TOKF" => s \in {"S_START"} \cup OneCharStates
          /\ e[4] = "A_TOKN" => s = "S_I2"
      BY <2>2, <3>1, EdgeKinds
    <3>3. /\ s = "S_START" => Len(lexeme) = 0
          /\ s \in OneCharStates => Len(lexeme) = 1
          /\ s = "S_I2" => Len(lexeme) >= 1
      BY EmptySeq DEF SizeInv, EmptyStates
    <3>4. CASE s = "S_I2"
      BY <3>2, <3>3, <3>4 DEF OneCharStates
    <3>5. CASE s # "S_I2"
      <4>1. e[4] # "A_TOKN"
        BY <3>2, <3>5
      <4>2. e[4] = "A_TOKF" => Len(lexeme) \in {0, 1}
        BY <3>2, <3>3
      <4> QED BY <2>1, <4>1, <4>2
    <3> QED BY <3>4, <3>5
  <2> QED BY <2>2 DEF BufferSafe, SizeInv
<1> QED BY <1>1, Sizes, PTL

-----------------------------------------------------------------------------
Smallest(S) == \E x \in S : \A y \in S : x <= y

LEMMA SmallestExists ==
  ASSUME NEW S, S \subseteq Nat, S # {}
  PROVE  Smallest(S)
<1>1. PICK x \in S : \A y \in S : ~(<<y, x>> \in OpToRel(<, Nat))
  BY NatLessThanWellFounded, WFMin
<1>2. ASSUME NEW y \in S PROVE x <= y
  <2>1. y < x => <<y, x>> \in OpToRel(<, Nat)
    BY DEF OpToRel
  <2>2. ~(y < x)
    BY <1>1, <2>1
  <2> QED BY <2>2
<1> QED BY <1>2 DEF Smallest

-----------------------------------------------------------------------------
(* Reading: however the input buffer is refilled, the automaton sees the   *)
(* characters of the text one after the other.                             *)

\* The place in the text of the character to be processed next.
Pos == fpos - Len(buf) + (IF Refill THEN Len(buf) + 1 ELSE input_ptr)

\* The buffer holds the part of the text that ends at fpos.
ReadInv == \A i \in 1..Len(buf) : buf[i] = text[fpos - Len(buf) + i]

LEMMA TextTyped ==
  ASSUME TypeOK
  PROVE  text \in Seq(Classes) /\ Len(text) \in Nat /\ INPUT_CHUNK \in Nat \ {0}
<1>1. text \in Seq(Classes)
  BY TextsAssumption DEF TypeOK
<1> QED BY <1>1, LenProperties, SizesAssumption

\* get_character (lexer.c:248): what is in the buffer once it is refilled.
LEMMA ChunkIs ==
  ASSUME TypeOK, Refill
  PROVE  /\ Len(Chunk) \in Nat /\ Len(Chunk) <= Len(text) - fpos
         /\ (Chunk = << >>) <=> (fpos = Len(text))
         /\ (Len(Chunk) = 0) <=> (fpos = Len(text))
         /\ \A i \in 1..Len(Chunk) : Chunk[i] = text[fpos + i]
<1> DEFINE last == Smaller(fpos + INPUT_CHUNK, Len(text))
<1>1. text \in Seq(Classes) /\ Len(text) \in Nat /\ INPUT_CHUNK \in Nat \ {0} /\ fpos \in 0..Len(text)
  BY TextTyped DEF TypeOK
<1>2. last \in fpos..Len(text) /\ (last = fpos <=> fpos = Len(text))
  BY <1>1 DEF Smaller
<1>3. Chunk = SubSeq(text, fpos + 1, last)
  BY DEF Chunk, last
<1> HIDE DEF last
<1>4. \A i \in (fpos + 1)..last : text[i] \in Classes
  BY <1>1, <1>2, ElementOfSeq
<1> DEFINE k == last - fpos
<1>5. /\ Chunk \in Seq(Classes) /\ Len(Chunk) = k
      /\ \A i \in 1..k : Chunk[i] = text[fpos + i]
  <2>1. fpos + 1 \in Int /\ last \in Int /\ last - (fpos + 1) + 1 = k /\ (~(fpos + 1 <= last) => k = 0)
        /\ \A i \in 1..k : fpos + 1 + i - 1 = fpos + i
    BY <1>1, <1>2
  <2>2. /\ SubSeq(text, fpos + 1, last) \in Seq(Classes)
        /\ Len(SubSeq(text, fpos + 1, last)) = IF fpos + 1 <= last THEN last - (fpos + 1) + 1 ELSE 0
        /\ \A i \in 1..(last - (fpos + 1) + 1) : SubSeq(text, fpos + 1, last)[i] = text[fpos + 1 + i - 1]
    BY <1>4, <2>1, SubSeqProperties
  <2>3. Len(Chunk) = IF fpos + 1 <= last THEN last - (fpos + 1) + 1 ELSE 0
    BY <2>2, <1>3, Zenon
  <2>4. \A i \in 1..(last - (fpos + 1) + 1) : Chunk[i] = text[fpos + 1 + i - 1]
    BY <2>2, <1>3, Zenon
  <2>5. Chunk \in Seq(Classes)
    BY <2>2, <1>3, Zenon
  <2> HIDE DEF k
  <2>6. Len(Chunk) = k
    BY <2>1, <2>3
  <2>7. \A i \in 1..k : Chunk[i] = text[fpos + i]
    BY <2>1, <2>4
  <2> QED BY <2>5, <2>6, <2>7
<1>6. k \in Nat /\ k <= Len(text) - fpos /\ (k = 0 <=> fpos = Len(text))
  BY <1>1, <1>2
<1>7. Chunk = << >> <=> Len(Chunk) = 0
  BY <1>5, EmptySeq
<1> QED BY <1>5, <1>6, <1>7

LEMMA CharacterIs ==
  ASSUME TypeOK, ReadInv
  PROVE  /\ Pos \in 1..(Len(text) + 1) /\ TextPos = Pos
         /\ AtEnd <=> Pos = Len(text) + 1
         /\ ~AtEnd => ch = text[Pos] /\ ch \in Classes
<1>1. /\ text \in Seq(Classes) /\ Len(text) \in Nat /\ fpos \in 0..Len(text)
      /\ buf \in Seq(Classes) /\ Len(buf) \in Nat /\ Len(buf) <= fpos /\ input_ptr \in 0..(Len(buf) + 1)
  BY TextTyped, LenProperties DEF TypeOK
<1>2. CASE Refill
  <2>1. Buffer = Chunk /\ Current = 1 /\ FilePos = fpos + Len(Chunk)
    BY <1>2 DEF Buffer, Current, FilePos
  <2>2. Pos = fpos + 1
    BY <1>1, <1>2 DEF Pos
  <2>3. TextPos = fpos + 1
    BY <1>1, <1>2, <2>1, ChunkIs DEF TextPos
  <2>4. AtEnd <=> fpos = Len(text)
    BY <1>2, <2>1, ChunkIs DEF AtEnd
  <2>5. ~AtEnd => ch = text[Pos]
    <3>1. fpos # Len(text) => Chunk[1] = text[fpos + 1]
      BY <1>2, ChunkIs
    <3> QED BY <2>1, <2>2, <2>4, <3>1 DEF ch
  <2> QED BY <1>1, <2>2, <2>3, <2>4, <2>5, CharacterRead
<1>3. CASE ~Refill
  <2>1. Buffer = buf /\ Current = input_ptr /\ FilePos = fpos /\ input_ptr \in 1..Len(buf)
    BY <1>1, <1>3 DEF Buffer, Current, FilePos, Refill
  <2>2. Pos = fpos - Len(buf) + input_ptr /\ TextPos = Pos /\ Pos \in 1..Len(text)
    BY <1>1, <1>3, <2>1 DEF Pos, TextPos
  <2>3. ~AtEnd
    BY <1>1, <2>1 DEF AtEnd
  <2>4. ch = text[Pos]
    BY <2>1, <2>2 DEF ch, ReadInv
  <2> QED BY <1>1, <2>2, <2>3, <2>4, CharacterRead
<1> QED BY <1>2, <1>3

\* Whatever happens to the pointer: what the buffer holds is in the text.
LEMMA BufferIs ==
  ASSUME TypeOK, ReadInv
  PROVE  \A i \in 1..Len(Buffer) : Buffer[i] = text[FilePos - Len(Buffer) + i]
<1>1. fpos \in Nat
  BY TextTyped DEF TypeOK
<1>2. CASE Refill
  <2>1. Buffer = Chunk /\ FilePos = fpos + Len(Chunk) /\ Len(Chunk) \in Nat
    BY <1>2, ChunkIs DEF Buffer, FilePos
  <2>2. FilePos - Len(Buffer) = fpos
    BY <1>1, <2>1
  <2> QED BY <1>2, <2>1, <2>2, ChunkIs
<1>3. CASE ~Refill
  BY <1>3 DEF Buffer, FilePos, ReadInv
<1> QED BY <1>2, <1>3

LEMMA Consumed ==
  ASSUME TypeOK, ReadInv, text' = text, Consume, ~AtEnd
  PROVE  ReadInv' /\ Pos' = Pos + 1
<1>1. buf' = Buffer /\ fpos' = FilePos /\ input_ptr' = Current + 1
  BY DEF Consume
<1>2. ReadInv'
  BY <1>1, BufferIs DEF ReadInv
<1>3. /\ Len(Buffer) \in Nat /\ FilePos \in Nat /\ Current \in 1..Len(Buffer) /\ TextPos = Pos
  BY CharacterRead, CharacterIs, LenProperties, TextTyped
<1>4. Pos' = FilePos - Len(Buffer) + (IF Current + 1 = 0 \/ Current + 1 > Len(Buffer)
                                      THEN Len(Buffer) + 1 ELSE Current + 1)
  BY <1>1 DEF Pos, Refill
<1> DEFINE b == Len(Buffer)
<1>5. Pos = FilePos - b + Current
  BY <1>3 DEF TextPos
<1> QED BY <1>2, <1>3, <1>4, <1>5

LEMMA PutBack ==
  ASSUME TypeOK, ReadInv, text' = text, PushBack
  PROVE  ReadInv' /\ Pos' = Pos
<1>1. buf' = Buffer /\ fpos' = FilePos /\ input_ptr' = Current
  BY DEF PushBack
<1>2. ReadInv'
  BY <1>1, BufferIs DEF ReadInv
<1>3. /\ Len(Buffer) \in Nat /\ FilePos \in Nat /\ Current \in 1..(Len(Buffer) + 1) /\ TextPos = Pos
  BY CharacterRead, CharacterIs, LenProperties, TextTyped
<1>4. Pos' = FilePos - Len(Buffer) + (IF Current = 0 \/ Current > Len(Buffer) THEN Len(Buffer) + 1 ELSE Current)
  BY <1>1 DEF Pos, Refill
<1>5. Pos = FilePos - Len(Buffer) + Current
  BY <1>3 DEF TextPos
<1> QED BY <1>2, <1>3, <1>4, <1>5

-----------------------------------------------------------------------------
(* Lines and columns. *)

\* The newlines before position p of T, and the last of them.
Newlines(T, p) == {k \in 1..(p - 1) : T[k] = "C_NL"}
LineStart(T, p) == IF Newlines(T, p) = {} THEN 0 ELSE CHOOSE k \in Newlines(T, p) : \A m \in Newlines(T, p) : m <= k

OneLine(T, f, p) == \A k \in f..(p - 1) : T[k] # "C_NL"

\* A set of places has a last one.
LEMMA MaxExists ==
  ASSUME NEW n \in Nat, NEW S, S \subseteq 1..n, S # {}
  PROVE  \E k \in S : \A m \in S : m <= k
<1> DEFINE R == {n - k : k \in S}
<1>1. R \subseteq Nat /\ R # {}
  <2>1. \A k \in S : k \in 1..n
    OBVIOUS
  <2>2. \A k \in S : n - k \in Nat
    BY <2>1
  <2> QED BY <2>2
<1>2. PICK x \in R : \A y \in R : ~(<<y, x>> \in OpToRel(<, Nat))
  <2> HIDE DEF R
  <2> QED BY <1>1, NatLessThanWellFounded, WFMin
<1>3. ASSUME NEW y \in R PROVE x <= y
  <2>1. y < x => <<y, x>> \in OpToRel(<, Nat)
    BY <1>1 DEF OpToRel
  <2>2. ~(y < x)
    BY <1>2, <2>1
  <2> HIDE DEF R
  <2> QED BY <1>1, <2>2
<1>4. PICK k \in S : x = n - k
  BY <1>2
<1>5. \A m \in S : n - k <= n - m
  BY <1>3, <1>4
<1>6. \A m \in S : m <= k
  BY <1>5
<1> QED BY <1>6

LEMMA LineTyped ==
  ASSUME NEW T, NEW p \in Nat \ {0}
  PROVE  Cardinality(Newlines(T, p)) \in Nat /\ LineStart(T, p) \in 0..(p - 1)
<1>1. PICK S : S = Newlines(T, p)
  OBVIOUS
<1>2. S \subseteq 1..(p - 1) /\ p - 1 \in Nat
  BY <1>1 DEF Newlines
<1>3. Cardinality(S) \in Nat
  <2>1. IsFiniteSet(1..(p - 1))
    BY <1>2, FS_Interval
  <2> QED BY <2>1, <1>2, FS_Subset, FS_CardinalityType
<1>4. S # {} => (CHOOSE k \in S : \A m \in S : m <= k) \in S
  <2>1. S # {} => \E k \in S : \A m \in S : m <= k
    BY <1>2, MaxExists
  <2> QED BY <2>1
<1>5. CASE S = {}
  BY <1>1, <1>3, <1>5 DEF LineStart
<1>6. CASE S # {}
  <2>1. LineStart(T, p) \in S
    BY <1>1, <1>4, <1>6, Zenon DEF LineStart
  <2> QED BY <2>1, <1>1, <1>2, <1>3
<1> QED BY <1>5, <1>6

\* No newline from f to p: the same line.
LEMMA SameLine ==
  ASSUME NEW T, NEW f \in Nat \ {0}, NEW p \in Nat, f <= p, OneLine(T, f, p)
  PROVE  Newlines(T, p) = Newlines(T, f) /\ LineStart(T, p) = LineStart(T, f)
<1>1. Newlines(T, p) = Newlines(T, f)
  BY DEF Newlines, OneLine
<1> QED BY <1>1 DEF LineStart

LEMMA NextLine ==
  ASSUME NEW T, NEW p \in Nat \ {0}, T[p] = "C_NL"
  PROVE  Cardinality(Newlines(T, p + 1)) = Cardinality(Newlines(T, p)) + 1 /\ LineStart(T, p + 1) = p
<1>1. Newlines(T, p + 1) = Newlines(T, p) \cup {p} /\ p \notin Newlines(T, p)
  BY DEF Newlines
<1>2. IsFiniteSet(Newlines(T, p))
  <2>1. Newlines(T, p) \subseteq 1..(p - 1) /\ IsFiniteSet(1..(p - 1))
    BY FS_Interval DEF Newlines
  <2> QED BY <2>1, FS_Subset
<1>3. Cardinality(Newlines(T, p + 1)) = Cardinality(Newlines(T, p)) + 1
  BY <1>1, <1>2, FS_AddElement
<1>4. p \in Newlines(T, p + 1) /\ \A m \in Newlines(T, p + 1) : m \in Nat /\ m <= p
  BY DEF Newlines
<1>5. PICK S : S = Newlines(T, p + 1)
  OBVIOUS
<1>6. \A k \in S : (\A m \in S : m <= k) <=> k = p
  BY <1>4, <1>5
<1>7. p \in S /\ \A m \in S : m <= p
  BY <1>4, <1>5
<1>8. (CHOOSE k \in S : \A m \in S : m <= k) = p
  BY <1>6, <1>7
<1>9. S # {}
  BY <1>7
<1> QED BY <1>3, <1>5, <1>8, <1>9 DEF LineStart

\* Where the automaton stands, and what it has collected since from.
PlaceAt(T, p, ln, cl) == ln = 1 + Cardinality(Newlines(T, p)) /\ cl = p - LineStart(T, p)
PlaceInv == Running => PlaceAt(text, Pos, line, col)

\* At least a character short of the buffer, the lexeme is the text from
\* there on; truncated, the text is longer than the buffer.
LexemeAt(T, st, f, p, lex, tr) ==
  /\ st \notin EmptyStates => f \in 1..(p - 1) /\ OneLine(T, f, p)
  /\ tr => Len(lex) = LEXEME_BUFSIZE - 1 /\ p - f >= LEXEME_BUFSIZE
  /\ ~tr /\ st \notin EmptyStates =>
       Len(lex) = p - f /\ \A i \in 1..Len(lex) : lex[i] = T[f + i - 1]
LexemeInv == Running => LexemeAt(text, s, from, Pos, lexeme, trunc)

-----------------------------------------------------------------------------
(* What the automaton has seen of a lexeme, by its state. *)

DigitsAt(T, i, j) == i <= j /\ \A k \in i..j : T[k] = "C_DIG"
Mantissa(T, i, j) ==
  \/ DigitsAt(T, i, j)
  \/ \E d \in i..j : DigitsAt(T, i, d - 1) /\ T[d] = "C_DOT" /\ \A k \in (d + 1)..j : T[k] = "C_DIG"
ExponentAt(T, e, j) ==
  T[e] = "C_E" /\ (DigitsAt(T, e + 1, j) \/ (T[e + 1] = "C_PM" /\ DigitsAt(T, e + 2, j)))
AllAt(T, f, p, n, c) == p = f + n /\ \A k \in f..(p - 1) : T[k] = c

IdStart == {"C_ALPHA", "C_E", "C_UNSC"}
IdentAt(T, i, j) == i <= j /\ T[i] \in IdStart /\ \A k \in i..j : T[k] \in IdStart \cup {"C_DIG"}

\* T[f .. p - 1] is what is read of a lexeme in state st.
Shape(T, st, f, p) ==
  /\ st = "S_ID" => IdentAt(T, f, p - 1)
  /\ st = "S_I1" => DigitsAt(T, f, p - 1)
  /\ st = "S_I2" => DigitsAt(T, f, p - 2) /\ T[p - 1] = "C_DOT"
  /\ st = "S_R1" => \E d \in f..(p - 1) : DigitsAt(T, f, d - 1) /\ T[d] = "C_DOT" /\ DigitsAt(T, d + 1, p - 1)
  /\ st = "S_E"  => Mantissa(T, f, p - 2) /\ T[p - 1] = "C_E"
  /\ st = "S_E2" => Mantissa(T, f, p - 3) /\ T[p - 2] = "C_E" /\ T[p - 1] = "C_PM"
  /\ st = "S_R2" => \E e \in f..(p - 1) : Mantissa(T, f, e - 1) /\ ExponentAt(T, e, p - 1)
  /\ st = "S_STAR" => AllAt(T, f, p, 1, "C_STAR")
  /\ st = "S_EQ" => AllAt(T, f, p, 1, "C_EQ")
  /\ st = "S_EXCL" => AllAt(T, f, p, 1, "C_EXCL")
  /\ st = "S_DOT" => AllAt(T, f, p, 1, "C_DOT")
  /\ st = "S_COLON" => AllAt(T, f, p, 1, "C_COLON")
  /\ st = "S_LT" => AllAt(T, f, p, 1, "C_LT")
  /\ st = "S_GT" => AllAt(T, f, p, 1, "C_GT")
  /\ st = "S_DOT2" => AllAt(T, f, p, 2, "C_DOT")
  /\ st = "S_LT2" => AllAt(T, f, p, 2, "C_LT")
  /\ st = "S_GT2" => AllAt(T, f, p, 2, "C_GT")
  /\ st = "S_LT3" => AllAt(T, f, p, 3, "C_LT")
  /\ st = "S_GT3" => AllAt(T, f, p, 3, "C_GT")

ShapeInv == Running => Shape(text, s, from, Pos)

\* The entries of the table that add a character (lexer.c:128-200).
AddsFromStart(c, next) ==
  \/ c \in IdStart /\ next = "S_ID"
  \/ c = "C_DIG" /\ next = "S_I1"
  \/ c = "C_STAR" /\ next = "S_STAR"
  \/ c = "C_EQ" /\ next = "S_EQ"
  \/ c = "C_EXCL" /\ next = "S_EXCL"
  \/ c = "C_COLON" /\ next = "S_COLON"
  \/ c = "C_DOT" /\ next = "S_DOT"
  \/ c = "C_LT" /\ next = "S_LT"
  \/ c = "C_GT" /\ next = "S_GT"
Adds(st, c, next) ==
  \/ st = "S_ID" /\ c \in IdStart \cup {"C_DIG"} /\ next = "S_ID"
  \/ st = "S_I1" /\ c = "C_DIG" /\ next = "S_I1"
  \/ st = "S_I1" /\ c = "C_DOT" /\ next = "S_I2"
  \/ st = "S_I1" /\ c = "C_E" /\ next = "S_E"
  \/ st = "S_I2" /\ c = "C_DIG" /\ next = "S_R1"
  \/ st = "S_I2" /\ c = "C_E" /\ next = "S_E"
  \/ st = "S_R1" /\ c = "C_DIG" /\ next = "S_R1"
  \/ st = "S_R1" /\ c = "C_E" /\ next = "S_E"
  \/ st = "S_E" /\ c = "C_PM" /\ next = "S_E2"
  \/ st = "S_E" /\ c = "C_DIG" /\ next = "S_R2"
  \/ st = "S_E2" /\ c = "C_DIG" /\ next = "S_R2"
  \/ st = "S_R2" /\ c = "C_DIG" /\ next = "S_R2"
  \/ st = "S_DOT" /\ c = "C_DOT" /\ next = "S_DOT2"
  \/ st = "S_LT" /\ c = "C_LT" /\ next = "S_LT2"
  \/ st = "S_LT2" /\ c = "C_LT" /\ next = "S_LT3"
  \/ st = "S_GT" /\ c = "C_GT" /\ next = "S_GT2"
  \/ st = "S_GT2" /\ c = "C_GT" /\ next = "S_GT3"

LEMMA AddEdges ==
  ASSUME NEW st, NEW c, NEW next, <<st, c, next, "A_ADD">> \in precompute_dfa
  PROVE  IF st = "S_START" THEN AddsFromStart(c, next) ELSE Adds(st, c, next)
<1> USE DEF Edge, AddsFromStart, Adds, IdStart
<1>1. CASE <<st, c, next, "A_ADD">> \in BlankEdges
  BY <1>1 DEF BlankEdges, StartAdds
<1>2. CASE <<st, c, next, "A_ADD">> \in IdEdges
  BY <1>2 DEF IdEdges
<1>3. CASE <<st, c, next, "A_ADD">> \in NumberEdges
  BY <1>3 DEF NumberEdges
<1>4. CASE <<st, c, next, "A_ADD">> \in CommentEdges
  BY <1>4 DEF CommentEdges
<1>5. CASE <<st, c, next, "A_ADD">> \in OperatorEdges
  BY <1>5 DEF OperatorEdges
<1>6. CASE <<st, c, next, "A_ADD">> \notin Edges
  BY <1>6 DEF precompute_dfa, DefaultAction
<1> QED BY <1>1, <1>2, <1>3, <1>4, <1>5, <1>6 DEF Edges

\* The first character of a lexeme.
LEMMA ShapeBegun ==
  ASSUME NEW T, NEW p \in Nat, NEW next, AddsFromStart(T[p], next)
  PROVE  Shape(T, next, p, p + 1) /\ T[p] \notin {"C_WS", "C_NL"} /\ next \notin EmptyStates
BY DEF AddsFromStart, Shape, IdentAt, IdStart, DigitsAt, AllAt, EmptyStates

\* One more character of a lexeme.
LEMMA ShapeGrown ==
  ASSUME NEW T, NEW f \in Nat, NEW p \in Nat, f < p, NEW st, Shape(T, st, f, p),
         NEW next, Adds(st, T[p], next)
  PROVE  Shape(T, next, f, p + 1) /\ T[p] # "C_NL" /\ st \notin EmptyStates /\ next \notin EmptyStates
<1>1. T[p] # "C_NL" /\ st \notin EmptyStates /\ next \notin EmptyStates
  BY DEF Adds, EmptyStates, IdStart
<1>2. CASE st = "S_ID"
  <2>1. next = "S_ID" /\ T[p] \in IdStart \cup {"C_DIG"} /\ IdentAt(T, f, p - 1)
    BY <1>2 DEF Adds, Shape
  <2>2. IdentAt(T, f, p + 1 - 1)
    BY <2>1 DEF IdentAt
  <2> QED BY <1>1, <2>1, <2>2 DEF Shape
<1>3. CASE next = "S_I1"
  <2>1. T[p] = "C_DIG" /\ DigitsAt(T, f, p - 1)
    BY <1>3 DEF Adds, Shape
  <2>2. DigitsAt(T, f, p + 1 - 1)
    BY <2>1 DEF DigitsAt
  <2> QED BY <1>1, <1>3, <2>2 DEF Shape
<1>4. CASE next = "S_I2"
  <2>1. T[p] = "C_DOT" /\ DigitsAt(T, f, p - 1) /\ p + 1 - 2 = p - 1 /\ p + 1 - 1 = p
    BY <1>4 DEF Adds, Shape
  <2> QED BY <1>1, <1>4, <2>1 DEF Shape
<1>5. CASE next = "S_R1"
  <2>1. CASE st = "S_I2"
    <3>1. DigitsAt(T, f, p - 2) /\ T[p - 1] = "C_DOT" /\ T[p] = "C_DIG"
      BY <1>5, <2>1 DEF Adds, Shape
    <3>2. p - 1 \in f..(p + 1 - 1) /\ DigitsAt(T, f, p - 1 - 1) /\ DigitsAt(T, p - 1 + 1, p + 1 - 1)
      BY <3>1 DEF DigitsAt
    <3> QED BY <1>1, <1>5, <3>1, <3>2 DEF Shape
  <2>2. CASE st = "S_R1"
    <3>1. T[p] = "C_DIG"
      BY <1>5, <2>2 DEF Adds
    <3>2. PICK d \in f..(p - 1) : DigitsAt(T, f, d - 1) /\ T[d] = "C_DOT" /\ DigitsAt(T, d + 1, p - 1)
      BY <2>2 DEF Shape
    <3>3. d \in f..(p + 1 - 1) /\ DigitsAt(T, d + 1, p + 1 - 1)
      BY <3>1, <3>2 DEF DigitsAt
    <3> QED BY <1>1, <1>5, <3>2, <3>3 DEF Shape
  <2> QED BY <1>5, <2>1, <2>2 DEF Adds
<1>6. CASE next = "S_E"
  <2>1. T[p] = "C_E" /\ st \in {"S_I1", "S_I2", "S_R1"}
    BY <1>6 DEF Adds
  <2>2. Mantissa(T, f, p - 1)
    <3>1. CASE st = "S_I1"
      BY <3>1 DEF Shape, Mantissa
    <3>2. CASE st = "S_I2"
      <4>1. DigitsAt(T, f, p - 1 - 1) /\ T[p - 1] = "C_DOT" /\ p - 1 \in f..(p - 1)
        BY <3>2 DEF Shape, DigitsAt
      <4>2. \A k \in (p - 1 + 1)..(p - 1) : T[k] = "C_DIG"
        OBVIOUS
      <4> QED BY <4>1, <4>2 DEF Mantissa
    <3>3. CASE st = "S_R1"
      BY <3>3 DEF Shape, Mantissa, DigitsAt
    <3> QED BY <2>1, <3>1, <3>2, <3>3
  <2>3. p + 1 - 2 = p - 1 /\ p + 1 - 1 = p
    OBVIOUS
  <2> QED BY <1>1, <1>6, <2>1, <2>2, <2>3 DEF Shape
<1>7. CASE next = "S_E2"
  <2>1. T[p] = "C_PM" /\ st = "S_E"
    BY <1>7 DEF Adds
  <2>2. p + 1 - 3 = p - 2 /\ p + 1 - 2 = p - 1 /\ p + 1 - 1 = p
    OBVIOUS
  <2> QED BY <1>1, <1>7, <2>1, <2>2 DEF Shape
<1>8. CASE next = "S_R2"
  <2>1. T[p] = "C_DIG" /\ st \in {"S_E", "S_E2", "S_R2"} /\ p + 1 - 1 = p
    BY <1>8 DEF Adds
  <2>2. \E e \in f..p : Mantissa(T, f, e - 1) /\ ExponentAt(T, e, p)
    <3>1. CASE st = "S_E"
      <4>1. Mantissa(T, f, p - 2) /\ T[p - 1] = "C_E"
        BY <3>1 DEF Shape
      <4>2. p - 1 \in f..p /\ p - 1 - 1 = p - 2 /\ DigitsAt(T, p - 1 + 1, p)
        BY <2>1 DEF DigitsAt
      <4> QED BY <4>1, <4>2 DEF ExponentAt
    <3>2. CASE st = "S_E2"
      <4>1. Mantissa(T, f, p - 3) /\ T[p - 2] = "C_E" /\ T[p - 1] = "C_PM"
        BY <3>2 DEF Shape
      <4>2. f <= p - 2
        BY <4>1 DEF Mantissa, DigitsAt
      <4>3. p - 2 \in f..p /\ p - 2 - 1 = p - 3 /\ p - 2 + 1 = p - 1 /\ DigitsAt(T, p - 2 + 2, p)
        BY <2>1, <4>2 DEF DigitsAt
      <4> QED BY <4>1, <4>3 DEF ExponentAt
    <3>3. CASE st = "S_R2"
      <4>1. PICK e \in f..(p - 1) : Mantissa(T, f, e - 1) /\ ExponentAt(T, e, p - 1)
        BY <3>3 DEF Shape
      <4>2. \A i \in Int : DigitsAt(T, i, p - 1) => DigitsAt(T, i, p)
        BY <2>1 DEF DigitsAt
      <4>3. ExponentAt(T, e, p) /\ e \in f..p
        BY <4>1, <4>2 DEF ExponentAt
      <4> QED BY <4>1, <4>3
    <3> QED BY <2>1, <3>1, <3>2, <3>3
  <2> QED BY <1>1, <1>8, <2>1, <2>2 DEF Shape
<1>9. CASE st \in {"S_DOT", "S_LT", "S_LT2", "S_GT", "S_GT2"}
  BY <1>1, <1>9 DEF Adds, Shape, AllAt
<1> QED BY <1>1, <1>2, <1>3, <1>4, <1>5, <1>6, <1>7, <1>8, <1>9 DEF Adds

-----------------------------------------------------------------------------
(* The steps of the automaton, in terms of the text. *)

\* The other entries of the table.
Other(st, c, next, a) ==
  /\ a = "A_IGN" => /\ c # "C_NL" /\ st \in EmptyStates
                    /\ st = "S_START" => c = "C_WS" /\ next = "S_START"
                    /\ st = "S_STAR2" => next = IF c = "C_STAR" THEN "S_STAR3" ELSE "S_STAR2"
                    /\ st = "S_STAR3" => next = IF c = "C_STAR" THEN "S_START" ELSE "S_STAR3"
  /\ a = "A_NL" => c = "C_NL" /\ next = st /\ st \in EmptyStates
  /\ a = "A_CLR" => st = "S_STAR" /\ c = "C_STAR" /\ next = "S_STAR2"
  /\ a \in {"A_TOKS", "A_ERR"} =>
       next = "S_START" /\ <<st, c>> \notin Listed /\ st \in States /\ c \in Classes /\ a = DefaultAction(st)
  /\ a = "A_TOKF" => /\ c \notin {"C_WS", "C_NL"} /\ next = "S_START"
                     /\ \/ st = "S_START" /\ c \notin StartAdds
                        \/ st \in {"S_EQ", "S_EXCL", "S_COLON", "S_LT", "S_GT"} /\ c = "C_EQ"
  /\ a = "A_TOKN" => st = "S_I2" /\ c = "C_DOT" /\ next = "S_DOT2"

LEMMA OtherEdges ==
  ASSUME NEW st, NEW c, NEW next, NEW a, <<st, c, next, a>> \in precompute_dfa
  PROVE  Other(st, c, next, a)
<1> USE DEF Other, Edge, Classes, EmptyStates
<1>1. CASE <<st, c, next, a>> \in BlankEdges
  BY <1>1 DEF BlankEdges, StartAdds
<1>2. CASE <<st, c, next, a>> \in IdEdges
  BY <1>2 DEF IdEdges
<1>3. CASE <<st, c, next, a>> \in NumberEdges
  BY <1>3 DEF NumberEdges
<1>4. CASE <<st, c, next, a>> \in CommentEdges
  BY <1>4 DEF CommentEdges
<1>5. CASE <<st, c, next, a>> \in OperatorEdges
  BY <1>5 DEF OperatorEdges
<1>6. CASE <<st, c, next, a>> \notin Edges
  <2>1. PICK p \in (States \X Classes) \ Listed : <<st, c, next, a>> = <<p[1], p[2], "S_START", DefaultAction(p[1])>>
    BY <1>6 DEF precompute_dfa
  <2>2. st = p[1] /\ c = p[2] /\ next = "S_START" /\ a = DefaultAction(p[1]) /\ p = <<p[1], p[2]>>
        /\ p[1] \in States /\ p[2] \in Classes
    BY <2>1
  <2>3. <<st, c>> \notin Listed
    BY <2>1, <2>2
  <2>4. a \in {"A_TOKS", "A_ERR"}
    BY <2>2 DEF DefaultAction
  <2> QED BY <2>2, <2>3, <2>4
<1> QED BY <1>1, <1>2, <1>3, <1>4, <1>5, <1>6 DEF Edges

\* Every character has an entry in S_START and in a comment, and a star after
\* a star begins a comment.
LEMMA NoDefault ==
  ASSUME NEW st, NEW c \in Classes, <<st, c>> \notin Listed
  PROVE  st \notin EmptyStates /\ ~(st = "S_STAR" /\ c = "C_STAR")
<1> SUFFICES ASSUME st \in EmptyStates \/ (st = "S_STAR" /\ c = "C_STAR")
             PROVE  \E next, a : <<st, c, next, a>> \in Edges
  <2>1. \A next, a : <<st, c, next, a>> \in Edges => <<st, c>> \in Listed
    BY DEF Listed
  <2> QED BY <2>1
<1>1. CASE st = "S_START"
  <2>1. <<st, c, "S_ID", "A_ADD">> \in IdEdges \/ <<st, c, "S_I1", "A_ADD">> \in NumberEdges
        \/ <<st, c, "S_STAR", "A_ADD">> \in CommentEdges
        \/ (\E next \in States : <<st, c, next, "A_ADD">> \in OperatorEdges)
        \/ <<st, c, "S_START", "A_IGN">> \in BlankEdges \/ <<st, c, "S_START", "A_NL">> \in BlankEdges
        \/ <<st, c, "S_START", "A_TOKF">> \in BlankEdges
    BY <1>1 DEF IdEdges, NumberEdges, CommentEdges, OperatorEdges, BlankEdges, StartAdds, Edge, Classes, States
  <2> QED BY <2>1 DEF Edges
<1>2. CASE st \in {"S_STAR2", "S_STAR3", "S_STAR"}
  <2>1. \E next \in States, a \in {"A_IGN", "A_NL", "A_CLR"} : <<st, c, next, a>> \in CommentEdges
    BY <1>2 DEF CommentEdges, Edge, Classes, States, EmptyStates
  <2> QED BY <2>1 DEF Edges
<1> QED BY <1>1, <1>2 DEF EmptyStates

\* The automaton takes an entry of the table for the character at Pos.
Takes(action, next) ==
  /\ Running /\ Pos \in 1..Len(text) /\ text[Pos] \in Classes
  /\ text' = text /\ s' = next /\ <<s, text[Pos], next, action>> \in precompute_dfa

LEMMA TakesOther ==
  ASSUME NEW action, NEW next, Takes(action, next)
  PROVE  /\ Other(s, text[Pos], next, action) /\ Running /\ Pos \in 1..Len(text) /\ text[Pos] \in Classes
         /\ text' = text /\ s' = next
<1>1. <<s, text[Pos], next, action>> \in precompute_dfa
  BY DEF Takes
<1>2. ASSUME NEW st, NEW c, st = s, c = text[Pos] PROVE Other(st, c, next, action)
  BY <1>1, <1>2, OtherEdges
<1>3. Other(s, text[Pos], next, action)
  BY <1>2
<1> QED BY <1>3 DEF Takes

LEMMA QuietTakes ==
  ASSUME TypeOK, ReadInv, NEW action, NEW next, Quiet(action, next)
  PROVE  Takes(action, next) /\ Pos' = Pos + 1 /\ ReadInv' /\ out' = out /\ Running'
<1>1. /\ Running /\ ~AtEnd /\ <<s, ch, next, action>> \in precompute_dfa /\ s' = next /\ Consume
      /\ text' = text /\ out' = out
  BY DEF Quiet
<1>2. Pos \in 1..Len(text) /\ ch = text[Pos] /\ ch \in Classes
  BY <1>1, CharacterIs, TextTyped
<1>3. Running'
  BY <1>1 DEF Running
<1> QED BY <1>1, <1>2, <1>3, Consumed DEF Takes

LEMMA EmitTakes ==
  ASSUME TypeOK, ReadInv, NEW action, NEW next, Emitting(action, next), text' = text, Consume \/ PushBack
  PROVE  /\ Takes(action, next) /\ ReadInv' /\ TextPos = Pos /\ ch = text[Pos]
         /\ Consume => Pos' = Pos + 1
         /\ PushBack => Pos' = Pos
<1>1. Running /\ ~AtEnd /\ <<s, ch, next, action>> \in precompute_dfa /\ s' = next
  BY DEF Emitting
<1>2. Pos \in 1..Len(text) /\ ch = text[Pos] /\ ch \in Classes /\ TextPos = Pos
  BY <1>1, CharacterIs, TextTyped
<1> QED BY <1>1, <1>2, Consumed, PutBack DEF Takes

\* A token is delivered, and is not the last.
LEMMA Delivered ==
  ASSUME TypeOK, NEW action, NEW predicted \in Tids \ {"T_EOF"}, NEW lex, NEW first, NEW last,
         Deliver(action, predicted, lex, first, last), out' \in Seq(Token)
  PROVE  \E t : /\ Len(out) \in Nat /\ Len(out') = Len(out) + 1 /\ out'[Len(out) + 1] = t
                /\ \A i \in 1..Len(out) : out'[i] = out[i]
                /\ out' # << >> /\ Running'
                /\ t.line = line /\ t.col = Column(action, lex) /\ t.lexeme = lex /\ t.from = first /\ t.to = last
                /\ t.tid # "T_EOF" /\ t.tid = IF trunc THEN "T_ERR" ELSE token_check(predicted, lex)
<1> DEFINE tid == IF trunc THEN "T_ERR" ELSE token_check(predicted, lex)
<1>1. PICK t : t = [tid |-> tid, line |-> line, col |-> Column(action, lex), lexeme |-> lex,
                    from |-> first, to |-> last]
  OBVIOUS
<1>2. tid # "T_EOF"
  BY DEF token_check
<1>3. out' = Append(out, t)
  BY <1>1, Zenon DEF Deliver
<1>4. /\ t.line = line /\ t.col = Column(action, lex) /\ t.lexeme = lex /\ t.from = first /\ t.to = last
      /\ t.tid = tid
  BY <1>1
<1> HIDE DEF tid
<1>5. /\ Len(out) \in Nat /\ Len(out') = Len(out) + 1 /\ out'[Len(out) + 1] = t
      /\ out' # << >> /\ \A i \in 1..Len(out) : out'[i] = out[i]
  <2> DEFINE S == Token \cup {t}
  <2>1. out \in Seq(S) /\ t \in S
    BY DEF TypeOK
  <2> HIDE DEF S
  <2>2. Len(out) \in Nat
    BY <2>1, LenProperties
  <2>3. /\ Append(out, t) # << >> /\ Len(Append(out, t)) = Len(out) + 1
        /\ \A i \in 1..Len(out) : Append(out, t)[i] = out[i]
        /\ Append(out, t)[Len(out) + 1] = t
    BY <2>1, AppendProperties
  <2> QED BY <2>2, <2>3, <1>3, Zenon
<1>6. Running'
  BY <1>2, <1>4, <1>5 DEF Running
<1> QED BY <1>2, <1>4, <1>5, <1>6 DEF tid

-----------------------------------------------------------------------------
(* The lexeme begins where it is said to, and holds the text from there.   *)

WordInv == PlaceInv /\ LexemeInv /\ ShapeInv

LEMMA SizesOf ==
  ASSUME TypeOK, SizeInv
  PROVE  /\ LEXEME_BUFSIZE \in Nat /\ LEXEME_BUFSIZE >= 3
         /\ lexeme \in Seq(Classes) /\ Len(lexeme) \in Nat /\ Len(lexeme) < LEXEME_BUFSIZE
         /\ (lexeme = << >>) <=> (s \in EmptyStates)
         /\ (Len(lexeme) = 0) <=> (s \in EmptyStates)
         /\ s \in OneCharStates => Len(lexeme) = 1
         /\ line \in Int /\ col \in Int /\ from \in Int /\ trunc \in BOOLEAN
<1>1. lexeme \in Seq(Classes) /\ Len(lexeme) \in Nat /\ (lexeme = << >> <=> Len(lexeme) = 0)
  BY LenProperties, EmptySeq DEF TypeOK
<1> QED BY <1>1, SizesAssumption DEF TypeOK, SizeInv

\* A character that is no newline moves the column, a newline the line.
LEMMA PlaceMoves ==
  ASSUME TypeOK, PlaceInv, Running, Pos \in 1..Len(text), text' = text, Pos' = Pos + 1,
         IF text[Pos] = "C_NL" THEN line' = line + 1 /\ col' = 1 ELSE line' = line /\ col' = col + 1
  PROVE  PlaceInv'
<1>1. line = 1 + Cardinality(Newlines(text, Pos)) /\ col = Pos - LineStart(text, Pos)
  BY DEF PlaceInv, PlaceAt
<1>2. PICK p, N, L : p = Pos /\ N = Cardinality(Newlines(text, p)) /\ L = LineStart(text, p)
  OBVIOUS
<1>3. p \in Nat \ {0} /\ line = 1 + N /\ col = p - L /\ line \in Int /\ col \in Int
  BY <1>1, <1>2, TextTyped DEF TypeOK
<1>4. N \in Nat /\ L \in Int
  BY <1>2, <1>3, LineTyped
<1>5. CASE text[p] = "C_NL"
  <2>1. Cardinality(Newlines(text, p + 1)) = N + 1 /\ LineStart(text, p + 1) = p
    BY <1>2, <1>3, <1>5, NextLine
  <2>2. line' = 1 + (N + 1) /\ col' = (p + 1) - p
    BY <1>2, <1>3, <1>4, <1>5
  <2>3. line' = 1 + Cardinality(Newlines(text, p + 1)) /\ col' = (p + 1) - LineStart(text, p + 1)
    BY <1>3, <1>4, <2>1, <2>2
  <2>4. PlaceAt(text, p + 1, line', col')
    BY <2>3 DEF PlaceAt
  <2> QED BY <2>4, <1>2, Zenon DEF PlaceInv
<1>6. CASE text[p] # "C_NL"
  <2>1. OneLine(text, p, p + 1)
    BY <1>3, <1>6 DEF OneLine
  <2>2. Newlines(text, p + 1) = Newlines(text, p) /\ LineStart(text, p + 1) = LineStart(text, p)
    BY <1>3, <2>1, SameLine
  <2>3. col' = (p + 1) - L /\ line' = 1 + N
    BY <1>2, <1>3, <1>4, <1>6
  <2>4. Cardinality(Newlines(text, p + 1)) = N /\ LineStart(text, p + 1) = L
    BY <2>2, <1>2, Zenon
  <2>5. PlaceAt(text, p + 1, line', col')
    BY <2>3, <2>4 DEF PlaceAt
  <2> QED BY <2>5, <1>2, Zenon DEF PlaceInv
<1> QED BY <1>5, <1>6, <1>2

\* A character is added to the lexeme, or dropped when the buffer is full.
LEMMA AddWords ==
  ASSUME TypeOK, SizeInv, ReadInv, WordInv, NEW next \in States, AddChar(next)
  PROVE  WordInv'
<1>1. Takes("A_ADD", next) /\ Pos' = Pos + 1 /\ Running /\ Pos \in 1..Len(text) /\ text' = text /\ s' = next
  <2>1. Quiet("A_ADD", next)
    BY DEF AddChar
  <2> QED BY <2>1, QuietTakes DEF Takes
<1>2. IF s = "S_START" THEN AddsFromStart(text[Pos], next) ELSE Adds(s, text[Pos], next)
  BY <1>1, AddEdges DEF Takes
<1>3. /\ lexeme' = IF Fits THEN Append(lexeme, text[Pos]) ELSE lexeme
      /\ trunc' = (trunc \/ ~Fits)
      /\ from' = IF lexeme = << >> THEN Pos ELSE from
      /\ col' = col + 1 /\ line' = line
  <2>1. ch = text[Pos] /\ TextPos = Pos
    BY CharacterIs DEF AddChar, Quiet
  <2> QED BY <2>1 DEF AddChar
<1>4. PICK p, f, n : p = Pos /\ f = from' /\ n = Len(lexeme)
  OBVIOUS
<1>5. p \in Nat /\ p \in 1..Len(text) /\ n \in Nat /\ n < LEXEME_BUFSIZE /\ LEXEME_BUFSIZE \in Nat /\ LEXEME_BUFSIZE >= 3
  BY <1>1, <1>4, SizesOf, TextTyped
<1>6. /\ s \in EmptyStates <=> s = "S_START"
      /\ text[p] # "C_NL" /\ next \notin EmptyStates
      /\ Shape(text, next, f, p + 1)
      /\ f \in 1..p /\ OneLine(text, f, p + 1)
  <2>1. CASE s = "S_START"
    <3>1. f = p
      BY <1>3, <1>4, <2>1, SizesOf DEF EmptyStates
    <3>2. /\ text[p] # "C_NL" /\ next \notin EmptyStates /\ Shape(text, next, p, p + 1)
      BY <1>2, <1>4, <1>5, <2>1, ShapeBegun
    <3> QED BY <1>5, <2>1, <3>1, <3>2 DEF EmptyStates, OneLine
  <2>2. CASE s # "S_START"
    <3>1. s \notin EmptyStates
      BY <1>2, <2>2 DEF Adds, EmptyStates
    <3>2. f = from /\ from \in 1..(p - 1) /\ OneLine(text, from, p) /\ Shape(text, s, from, p)
      BY <1>1, <1>3, <1>4, <3>1, SizesOf DEF WordInv, LexemeInv, LexemeAt, ShapeInv
    <3>3. Adds(s, text[p], next) /\ f \in Nat /\ f < p
      BY <1>2, <1>4, <1>5, <2>2, <3>2
    <3>4. /\ text[p] # "C_NL" /\ next \notin EmptyStates /\ Shape(text, next, f, p + 1)
      BY <1>5, <3>2, <3>3, ShapeGrown
    <3>5. OneLine(text, f, p + 1)
      BY <1>5, <3>2, <3>4 DEF OneLine
    <3> QED BY <1>5, <2>2, <3>1, <3>2, <3>4, <3>5
  <2> QED BY <2>1, <2>2
<1>7. PlaceInv'
  BY <1>1, <1>3, <1>4, <1>6, PlaceMoves DEF WordInv
<1>8. ShapeInv'
  BY <1>1, <1>4, <1>6 DEF ShapeInv
<1>9. /\ trunc => n = LEXEME_BUFSIZE - 1 /\ p - from >= LEXEME_BUFSIZE /\ s # "S_START"
      /\ ~trunc /\ s # "S_START" => n = p - from /\ \A i \in 1..n : lexeme[i] = text[from + i - 1]
      /\ s # "S_START" => f = from
      /\ s = "S_START" => f = p /\ n = 0
  <2>1. trunc => n = LEXEME_BUFSIZE - 1 /\ p - from >= LEXEME_BUFSIZE
    BY <1>1, <1>4 DEF WordInv, LexemeInv, LexemeAt
  <2>2. s = "S_START" => n = 0 /\ f = p
    BY <1>3, <1>4, SizesOf DEF EmptyStates
  <2>3. s # "S_START" => f = from
    BY <1>3, <1>4, <1>6, SizesOf
  <2>4. ~trunc /\ s # "S_START" => n = p - from /\ \A i \in 1..n : lexeme[i] = text[from + i - 1]
    BY <1>1, <1>4, <1>6 DEF WordInv, LexemeInv, LexemeAt
  <2> QED BY <1>5, <2>1, <2>2, <2>3, <2>4
<1>10. Fits <=> n + 1 < LEXEME_BUFSIZE
  BY <1>4 DEF Fits
<1>11. from \in Int /\ trunc \in BOOLEAN
  BY SizesOf
<1>12. trunc' => Len(lexeme') = LEXEME_BUFSIZE - 1 /\ (p + 1) - f >= LEXEME_BUFSIZE
  <2> SUFFICES ASSUME trunc' PROVE Len(lexeme') = LEXEME_BUFSIZE - 1 /\ (p + 1) - f >= LEXEME_BUFSIZE
    OBVIOUS
  <2>1. ~Fits /\ n = LEXEME_BUFSIZE - 1
    <3>1. trunc \/ ~Fits
      BY <1>3, Zenon
    <3>2. ~Fits => n = LEXEME_BUFSIZE - 1
      BY <1>5, <1>10
    <3>3. n = LEXEME_BUFSIZE - 1 => ~Fits
      BY <1>5, <1>10
    <3> QED BY <1>9, <3>1, <3>2, <3>3, Zenon
  <2>2. lexeme' = lexeme
    BY <1>3, <2>1
  <2>3. s # "S_START" /\ f = from
    BY <1>5, <1>9, <2>1
  <2>4. (p + 1) - f >= LEXEME_BUFSIZE
    BY <1>5, <1>9, <1>11, <2>1, <2>3
  <2> QED BY <1>4, <2>1, <2>2, <2>4
<1>13. ~trunc' => Len(lexeme') = (p + 1) - f /\ \A i \in 1..Len(lexeme') : lexeme'[i] = text[f + i - 1]
  <2> SUFFICES ASSUME ~trunc' PROVE Len(lexeme') = (p + 1) - f /\ \A i \in 1..Len(lexeme') : lexeme'[i] = text[f + i - 1]
    OBVIOUS
  <2>1. ~trunc /\ Fits
    BY <1>3
  <2>2. n = p - f /\ \A i \in 1..n : lexeme[i] = text[f + i - 1]
    BY <1>5, <1>9, <2>1
  <2>3. Len(lexeme') = n + 1 /\ lexeme'[n + 1] = text[p] /\ \A i \in 1..n : lexeme'[i] = lexeme[i]
    <3>1. lexeme \in Seq(Classes) /\ text[p] \in Classes
      BY <1>1, <1>4, SizesOf DEF Takes
    <3>2. /\ Len(Append(lexeme, text[p])) = n + 1 /\ Append(lexeme, text[p])[n + 1] = text[p]
          /\ \A i \in 1..n : Append(lexeme, text[p])[i] = lexeme[i]
      BY <1>4, <3>1, AppendProperties
    <3> QED BY <1>3, <1>4, <2>1, <3>2, Zenon
  <2>4. ASSUME NEW i \in 1..(n + 1) PROVE lexeme'[i] = text[f + i - 1]
    <3>1. CASE i \in 1..n
      BY <2>2, <2>3, <3>1
    <3>2. CASE i = n + 1
      <4>1. f + i - 1 = p
        BY <1>5, <1>6, <2>2, <3>2
      <4> QED BY <2>3, <3>2, <4>1
    <3> QED BY <1>5, <3>1, <3>2
  <2>5. n + 1 = (p + 1) - f
    BY <1>5, <1>6, <2>2
  <2> QED BY <2>3, <2>4, <2>5
<1>14. LexemeInv'
  <2>1. Pos' = p + 1 /\ from' = f /\ text' = text /\ s' = next
    BY <1>1, <1>4
  <2>2. LexemeAt(text, next, f, p + 1, lexeme', trunc')
    BY <1>5, <1>6, <1>12, <1>13 DEF LexemeAt
  <2> QED BY <2>1, <2>2, Zenon DEF LexemeInv
<1> QED BY <1>7, <1>8, <1>14 DEF WordInv

\* Between lexemes there is nothing to say of the lexeme.
LEMMA EmptyWords ==
  ASSUME NEW T, NEW st \in EmptyStates, NEW f, NEW p, NEW lex, NEW tr, ~tr
  PROVE  LexemeAt(T, st, f, p, lex, tr) /\ Shape(T, st, f, p)
<1>1. LexemeAt(T, st, f, p, lex, tr)
  BY DEF LexemeAt
<1>2. Shape(T, st, f, p)
  BY DEF Shape, EmptyStates
<1> QED BY <1>1, <1>2

\* Only a full buffer is truncated.
LEMMA NotTruncated ==
  ASSUME TypeOK, SizeInv, WordInv, Running, s \in EmptyStates \cup OneCharStates
  PROVE  ~trunc
<1>1. PICK n : n = Len(lexeme)
  OBVIOUS
<1>2. n \in {0, 1} /\ LEXEME_BUFSIZE \in Nat /\ LEXEME_BUFSIZE >= 3
  BY <1>1, SizesOf
<1>3. trunc => n = LEXEME_BUFSIZE - 1
  BY <1>1 DEF WordInv, LexemeInv, LexemeAt
<1> QED BY <1>2, <1>3

\* The parts of WordInv after a step, from what is constant in the step.
LEMMA WordsAfter ==
  ASSUME NEW T, NEW st, NEW f, NEW p, NEW lex, NEW tr, PlaceInv',
         text' = T, s' = st, from' = f, Pos' = p, lexeme' = lex, trunc' = tr,
         LexemeAt(T, st, f, p, lex, tr), Shape(T, st, f, p)
  PROVE  WordInv'
<1>1. LexemeInv'
  BY Zenon DEF LexemeInv
<1>2. ShapeInv'
  BY Zenon DEF ShapeInv
<1> QED BY <1>1, <1>2 DEF WordInv

LEMMA BlankWords ==
  ASSUME TypeOK, SizeInv, ReadInv, WordInv, NEW next \in States,
         Ignore(next) \/ NewLine(next) \/ ClearLexeme(next)
  PROVE  WordInv'
<1>1. PICK action : Quiet(action, next) /\ \/ action = "A_IGN" /\ Ignore(next)
                                           \/ action = "A_NL" /\ NewLine(next)
                                           \/ action = "A_CLR" /\ ClearLexeme(next)
  BY DEF Ignore, NewLine, ClearLexeme
<1>2. Takes(action, next) /\ Pos' = Pos + 1 /\ Running /\ Pos \in 1..Len(text) /\ text' = text /\ s' = next
      /\ <<s, text[Pos], next, action>> \in precompute_dfa
  BY <1>1, QuietTakes DEF Takes
<1>3. /\ action = "A_NL" => text[Pos] = "C_NL"
      /\ action # "A_NL" => text[Pos] # "C_NL"
      /\ s \in EmptyStates \cup OneCharStates /\ next \in EmptyStates
  <2>1. CASE action = "A_IGN"
    BY <1>2, <2>1, TakesOther DEF Other, EmptyStates
  <2>2. CASE action = "A_NL"
    BY <1>2, <2>2, TakesOther DEF Other, EmptyStates
  <2>3. CASE action = "A_CLR"
    BY <1>2, <2>3, TakesOther DEF Other, EmptyStates, OneCharStates
  <2> QED BY <1>1, <2>1, <2>2, <2>3
<1>4. ~trunc
  BY <1>2, <1>3, NotTruncated
<1>5. PlaceInv'
  <2>1. IF text[Pos] = "C_NL" THEN line' = line + 1 /\ col' = 1 ELSE line' = line /\ col' = col + 1
    BY <1>1, <1>3 DEF Ignore, NewLine, ClearLexeme
  <2> QED BY <1>2, <2>1, PlaceMoves DEF WordInv
<1>6. trunc' = trunc
  BY <1>1 DEF Ignore, NewLine, ClearLexeme
<1>7. PICK f, p, lex : f = from' /\ p = Pos' /\ lex = lexeme'
  OBVIOUS
<1>8. LexemeAt(text, next, f, p, lex, trunc) /\ Shape(text, next, f, p)
  BY <1>3, <1>4, EmptyWords
<1> QED BY <1>2, <1>5, <1>6, <1>7, <1>8, WordsAfter

\* A token is delivered, and the next lexeme not begun.
LEMMA TokenWords ==
  ASSUME TypeOK, SizeInv, ReadInv, WordInv, Running', text' = text, s' = "S_START", trunc' = FALSE,
         line' = line, Running, Pos \in 1..Len(text),
         \/ Pos' = Pos /\ col' = col
         \/ Pos' = Pos + 1 /\ col' = col + 1 /\ text[Pos] # "C_NL"
  PROVE  WordInv'
<1>1. PlaceInv'
  <2>1. CASE Pos' = Pos /\ col' = col
    <3>1. PICK p, l, c : p = Pos /\ l = line /\ c = col
      OBVIOUS
    <3>2. PlaceAt(text, p, l, c)
      BY <3>1 DEF WordInv, PlaceInv
    <3> QED BY <2>1, <3>1, <3>2, Zenon DEF PlaceInv
  <2>2. CASE Pos' = Pos + 1 /\ col' = col + 1 /\ text[Pos] # "C_NL"
    BY <2>2, PlaceMoves DEF WordInv
  <2> QED BY <2>1, <2>2
<1>2. PICK f, p, lex : f = from' /\ p = Pos' /\ lex = lexeme'
  OBVIOUS
<1>3. LexemeAt(text, "S_START", f, p, lex, FALSE) /\ Shape(text, "S_START", f, p)
  BY EmptyWords DEF EmptyStates
<1> QED BY <1>1, <1>2, <1>3, WordsAfter

LEMMA TokenBeforeWords ==
  ASSUME TypeOK, SizeInv, ReadInv, WordInv, NEW next, NEW action, TokenBefore(action, next), Running'
  PROVE  WordInv'
<1>1. /\ action \in {"A_TOKS", "A_ERR"} /\ Emitting(action, next) /\ PushBack
      /\ text' = text /\ line' = line /\ col' = col /\ trunc' = FALSE
  BY DEF TokenBefore, Deliver
<1>2. Takes(action, next) /\ Pos' = Pos
  BY <1>1, EmitTakes
<1>3. Running /\ Pos \in 1..Len(text) /\ s' = next /\ next = "S_START"
  BY <1>1, <1>2, TakesOther DEF Other
<1> QED BY <1>1, <1>2, <1>3, TokenWords

LEMMA TokenWithWords ==
  ASSUME TypeOK, SizeInv, ReadInv, WordInv, NEW next, TokenWith(next), Running'
  PROVE  WordInv'
<1>1. /\ Emitting("A_TOKF", next) /\ Consume
      /\ text' = text /\ line' = line /\ col' = col + 1 /\ trunc' = FALSE
  BY DEF TokenWith, Deliver
<1>2. Takes("A_TOKF", next) /\ Pos' = Pos + 1
  BY <1>1, EmitTakes
<1>3. Running /\ Pos \in 1..Len(text) /\ s' = next /\ next = "S_START" /\ text[Pos] # "C_NL"
  BY <1>1, <1>2, TakesOther DEF Other
<1> QED BY <1>1, <1>2, <1>3, TokenWords

\* A number that two dots follow.
LEMMA BeforeRange ==
  ASSUME TypeOK, SizeInv, ReadInv, WordInv, NEW next, NumberBeforeRange(next)
  PROVE  /\ Running /\ Pos \in 1..Len(text) /\ s = "S_I2" /\ next = "S_DOT2" /\ Pos' = Pos + 1 /\ ReadInv'
         /\ text[Pos] = "C_DOT" /\ text[Pos - 1] = "C_DOT" /\ TextPos = Pos
         /\ from \in 1..(Pos - 2) /\ DigitsAt(text, from, Pos - 2)
         /\ text' = text /\ s' = next /\ line' = line /\ col' = col + 1 /\ trunc' = FALSE
         /\ from' = Pos - 1 /\ lexeme' = <<"C_DOT", "C_DOT">>
<1>1. /\ Emitting("A_TOKN", next) /\ Consume
      /\ text' = text /\ line' = line /\ col' = col + 1 /\ trunc' = FALSE
      /\ lexeme' = <<"C_DOT", "C_DOT">> /\ from' = TextPos - 1
  BY DEF NumberBeforeRange, Deliver
<1>2. Takes("A_TOKN", next) /\ Pos' = Pos + 1 /\ ReadInv' /\ TextPos = Pos
  BY <1>1, EmitTakes
<1>3. Running /\ Pos \in 1..Len(text) /\ s' = next /\ s = "S_I2" /\ text[Pos] = "C_DOT" /\ next = "S_DOT2"
  BY <1>2, TakesOther DEF Other
<1>4. PICK p, f : p = Pos /\ f = from
  OBVIOUS
<1>5. Shape(text, "S_I2", f, p) /\ f \in 1..(p - 1) /\ p \in Nat
  BY <1>3, <1>4, TextTyped DEF WordInv, ShapeInv, LexemeInv, LexemeAt, EmptyStates
<1>6. DigitsAt(text, f, p - 2) /\ text[p - 1] = "C_DOT"
  BY <1>5 DEF Shape
<1>7. f \in 1..(p - 2)
  BY <1>5, <1>6 DEF DigitsAt
<1> QED BY <1>1, <1>2, <1>3, <1>4, <1>6, <1>7

LEMMA BeforeRangeWords ==
  ASSUME TypeOK, SizeInv, ReadInv, WordInv, NEW next, NumberBeforeRange(next)
  PROVE  WordInv'
<1>1. /\ Running /\ Pos \in 1..Len(text) /\ s = "S_I2" /\ next = "S_DOT2" /\ Pos' = Pos + 1
      /\ text[Pos] = "C_DOT" /\ text[Pos - 1] = "C_DOT"
      /\ from \in 1..(Pos - 2)
      /\ text' = text /\ s' = next /\ line' = line /\ col' = col + 1 /\ trunc' = FALSE
      /\ from' = Pos - 1 /\ lexeme' = <<"C_DOT", "C_DOT">>
  BY BeforeRange
<1>2. PlaceInv'
  BY <1>1, PlaceMoves DEF WordInv
<1>3. PICK p : p = Pos
  OBVIOUS
<1>4. p \in Nat /\ p - 1 \in 1..p /\ from \in Int
  BY <1>1, <1>3, TextTyped, SizesOf
<1>5. LexemeAt(text, next, p - 1, p + 1, <<"C_DOT", "C_DOT">>, FALSE)
  <2>1. OneLine(text, p - 1, p + 1)
    BY <1>1, <1>3, <1>4 DEF OneLine
  <2>2. PICK w : w = <<"C_DOT", "C_DOT">>
    OBVIOUS
  <2>3. Len(w) = 2 /\ w[1] = "C_DOT" /\ w[2] = "C_DOT"
    BY <2>2
  <2>4. (p + 1) - (p - 1) = 2 /\ p - 1 + 1 - 1 = p - 1 /\ p - 1 + 2 - 1 = p
    BY <1>4
  <2>5. \A i \in 1..2 : w[i] = text[p - 1 + i - 1]
    BY <1>1, <1>3, <1>4, <2>3
  <2>6. LexemeAt(text, next, p - 1, p + 1, w, FALSE)
    BY <1>4, <2>1, <2>3, <2>4, <2>5 DEF LexemeAt
  <2> QED BY <2>2, <2>6, Zenon
<1>6. Shape(text, next, p - 1, p + 1)
  BY <1>1, <1>3, <1>4 DEF Shape, AllAt
<1>7. from' = p - 1 /\ Pos' = p + 1
  BY <1>1, <1>3
<1> QED BY <1>1, <1>2, <1>5, <1>6, <1>7, WordsAfter

LEMMA EndsRunning ==
  ASSUME TypeOK, EndOfFile
  PROVE  /\ ~Running' /\ text' = text /\ Len(out) \in Nat /\ Len(out') = Len(out) + 1 /\ out' # << >>
         /\ \A i \in 1..Len(out) : out'[i] = out[i]
         /\ out'[Len(out) + 1].tid = "T_EOF"
<1>1. PICK t : t = [tid |-> "T_EOF", line |-> line, col |-> col, lexeme |-> << >>,
                    from |-> Len(text) + 1, to |-> Len(text)]
  OBVIOUS
<1>2. out' = Append(out, t)
  BY <1>1, Zenon DEF EndOfFile
<1>3. t.tid = "T_EOF"
  BY <1>1
<1>4. /\ Len(out) \in Nat /\ Len(out') = Len(out) + 1 /\ out'[Len(out) + 1] = t
      /\ out' # << >> /\ \A i \in 1..Len(out) : out'[i] = out[i]
  <2> DEFINE S == Token \cup {t}
  <2>1. out \in Seq(S) /\ t \in S
    BY DEF TypeOK
  <2> HIDE DEF S
  <2>2. Len(out) \in Nat
    BY <2>1, LenProperties
  <2>3. /\ Append(out, t) # << >> /\ Len(Append(out, t)) = Len(out) + 1
        /\ \A i \in 1..Len(out) : Append(out, t)[i] = out[i]
        /\ Append(out, t)[Len(out) + 1] = t
    BY <2>1, AppendProperties
  <2> QED BY <2>2, <2>3, <1>2, Zenon
<1>5. ~Running'
  BY <1>3, <1>4 DEF Running
<1> QED BY <1>3, <1>4, <1>5 DEF EndOfFile

-----------------------------------------------------------------------------
(* The three ways in which a token is delivered. *)

LEMMA BeforeFacts ==
  ASSUME TypeOK, SizeInv, ReadInv, WordInv, NEW next, NEW action, TokenBefore(action, next)
  PROVE  /\ Deliver(action, IF action = "A_TOKS" THEN predict_token_from_state(s) ELSE "T_ERR", lexeme, from, Pos - 1)
         /\ Running /\ Pos \in 1..Len(text) /\ text[Pos] \in Classes /\ s \in States
         /\ s \notin EmptyStates /\ ~(s = "S_STAR" /\ text[Pos] = "C_STAR")
         /\ <<s, text[Pos]>> \notin Listed /\ action = DefaultAction(s)
         /\ from \in 1..(Pos - 1)
         /\ Pos' = Pos /\ s' = "S_START" /\ text' = text /\ ReadInv'
<1>1. /\ action \in {"A_TOKS", "A_ERR"} /\ Emitting(action, next) /\ PushBack /\ text' = text
      /\ Deliver(action, IF action = "A_TOKS" THEN predict_token_from_state(s) ELSE "T_ERR",
                 lexeme, from, TextPos - 1)
  BY DEF TokenBefore, Deliver
<1>2. Takes(action, next) /\ Pos' = Pos /\ ReadInv' /\ TextPos = Pos
  BY <1>1, EmitTakes
<1>3. /\ Running /\ Pos \in 1..Len(text) /\ text[Pos] \in Classes
      /\ s' = "S_START" /\ s \in States /\ <<s, text[Pos]>> \notin Listed /\ action = DefaultAction(s)
  BY <1>1, <1>2, TakesOther DEF Other
<1>4. PICK st, c : st = s /\ c = text[Pos] /\ c \in Classes
  BY <1>3
<1>5. st \notin EmptyStates /\ ~(st = "S_STAR" /\ c = "C_STAR")
  BY <1>3, <1>4, NoDefault
<1>6. from \in 1..(Pos - 1)
  BY <1>3, <1>4, <1>5 DEF WordInv, LexemeInv, LexemeAt
<1> QED BY <1>1, <1>2, <1>3, <1>4, <1>5, <1>6

\* The lexeme of a token that the character itself ends.
EndedBy(T, st, f, p, lex) ==
  \/ st = "S_START" /\ f = p /\ Len(lex) = 1 /\ lex[1] = T[p] /\ T[p] \notin StartAdds \cup {"C_WS", "C_NL"}
  \/ /\ st \in {"S_EQ", "S_EXCL", "S_COLON", "S_LT", "S_GT"} /\ f = p - 1
     /\ Len(lex) = 2 /\ lex[1] = T[f] /\ lex[2] = T[p] /\ T[p] = "C_EQ"

LEMMA WithFacts ==
  ASSUME TypeOK, SizeInv, ReadInv, WordInv, NEW next, TokenWith(next)
  PROVE  \E lex, first :
           /\ Deliver("A_TOKF", predict_token_from_char(lex[1]), lex, first, Pos)
           /\ EndedBy(text, s, first, Pos, lex) /\ first \in 1..Pos /\ lex \in Seq(Classes)
           /\ s # "S_START" => first = from
           /\ ~trunc /\ Running /\ Pos \in 1..Len(text) /\ text[Pos] # "C_NL"
           /\ Pos' = Pos + 1 /\ s' = "S_START" /\ text' = text /\ ReadInv'
<1>1. /\ Emitting("A_TOKF", next) /\ Consume /\ text' = text
      /\ Deliver("A_TOKF", predict_token_from_char(Append(lexeme, ch)[1]), Append(lexeme, ch),
                 IF lexeme = << >> THEN TextPos ELSE from, TextPos)
  BY DEF TokenWith, Deliver
<1>2. Takes("A_TOKF", next) /\ Pos' = Pos + 1 /\ ReadInv' /\ TextPos = Pos /\ ch = text[Pos]
  BY <1>1, EmitTakes
<1>3. PICK p, first, n : p = Pos /\ first = (IF lexeme = << >> THEN Pos ELSE from) /\ n = Len(lexeme)
  OBVIOUS
<1>4. /\ Running /\ p \in 1..Len(text) /\ text[p] \in Classes \ {"C_WS", "C_NL"} /\ s' = "S_START"
      /\ \/ s = "S_START" /\ text[p] \notin StartAdds
         \/ s \in {"S_EQ", "S_EXCL", "S_COLON", "S_LT", "S_GT"} /\ text[p] = "C_EQ"
  BY <1>2, <1>3, TakesOther DEF Other
<1>5. PICK lex : lex = Append(lexeme, text[p])
  OBVIOUS
<1>6. Deliver("A_TOKF", predict_token_from_char(lex[1]), lex, first, Pos)
  <2>1. Append(lexeme, ch) = lex
    BY <1>2, <1>3, <1>5
  <2> QED BY <1>1, <1>2, <1>3, <2>1, Zenon
<1>7. /\ lex \in Seq(Classes) /\ Len(lex) = n + 1 /\ lex[n + 1] = text[p]
      /\ \A i \in 1..n : lex[i] = lexeme[i]
  <2>1. lexeme \in Seq(Classes)
    BY SizesOf
  <2>2. Append(lexeme, text[p]) \in Seq(Classes) /\ Len(Append(lexeme, text[p])) = Len(lexeme) + 1
        /\ Append(lexeme, text[p])[Len(lexeme) + 1] = text[p]
        /\ \A i \in 1..Len(lexeme) : Append(lexeme, text[p])[i] = lexeme[i]
    BY <1>4, <2>1, AppendProperties
  <2> QED BY <1>3, <1>5, <2>2, Zenon
<1>8. p \in Nat /\ p >= 1 /\ from \in Int
  BY <1>4, TextTyped, SizesOf
<1>9. s \in EmptyStates \cup OneCharStates
  BY <1>4 DEF EmptyStates, OneCharStates
<1>10. ~trunc
  BY <1>4, <1>9, NotTruncated
<1>11. CASE s = "S_START"
  <2>1. n = 0 /\ first = p
    BY <1>3, <1>11, SizesOf DEF EmptyStates
  <2>2. EndedBy(text, s, first, p, lex) /\ first \in 1..p
    BY <1>4, <1>7, <1>8, <1>11, <2>1 DEF EndedBy
  <2> QED BY <1>1, <1>2, <1>3, <1>4, <1>6, <1>7, <1>10, <1>11, <2>2
<1>12. CASE s # "S_START"
  <2>0. s \in {"S_EQ", "S_EXCL", "S_COLON", "S_LT", "S_GT"} /\ text[p] = "C_EQ" /\ s \notin EmptyStates
    BY <1>4, <1>12 DEF EmptyStates
  <2>1. n = 1 /\ first = from
    BY <1>3, <2>0, SizesOf DEF OneCharStates
  <2>2. n = p - from /\ \A i \in 1..n : lexeme[i] = text[from + i - 1]
    BY <1>3, <1>4, <1>10, <2>0 DEF WordInv, LexemeInv, LexemeAt
  <2>3. first = p - 1 /\ lexeme[1] = text[first] /\ first \in 1..p
    <3>1. from = p - 1 /\ from + 1 - 1 = from
      BY <1>8, <2>1, <2>2
    <3>2. from \in 1..(p - 1)
      BY <1>3, <1>4, <2>0 DEF WordInv, LexemeInv, LexemeAt
    <3> QED BY <1>8, <2>1, <2>2, <3>1, <3>2
  <2>4. EndedBy(text, s, first, p, lex)
    BY <1>7, <2>0, <2>1, <2>3 DEF EndedBy
  <2> QED BY <1>1, <1>2, <1>3, <1>4, <1>6, <1>7, <1>10, <2>1, <2>3, <2>4
<1> QED BY <1>11, <1>12

LEMMA RangeFacts ==
  ASSUME TypeOK, SizeInv, ReadInv, WordInv, NEW next, NumberBeforeRange(next)
  PROVE  \E lex : /\ Deliver("A_TOKN", "T_NUM", lex, from, Pos - 2)
                  /\ lex = SubSeq(lexeme, 1, Len(lexeme) - 1) /\ lex \in Seq(Classes) /\ Len(lex) = Len(lexeme) - 1
                  /\ \A i \in 1..(Len(lexeme) - 1) : lex[i] = lexeme[i]
<1>1. TextPos = Pos /\ Deliver("A_TOKN", "T_NUM", SubSeq(lexeme, 1, Len(lexeme) - 1), from, TextPos - 2)
  BY BeforeRange DEF NumberBeforeRange
<1>2. PICK n, lex : n = Len(lexeme) /\ lex = SubSeq(lexeme, 1, n - 1)
  OBVIOUS
<1>3. lexeme \in Seq(Classes) /\ n \in Nat /\ n >= 1
  <2>1. s \notin EmptyStates
    BY BeforeRange DEF EmptyStates
  <2> QED BY <1>2, <2>1, SizesOf
<1>4. \A i \in 1..(n - 1) : lexeme[i] \in Classes
  BY <1>2, <1>3, ElementOfSeq
<1>5. lex \in Seq(Classes) /\ Len(lex) = n - 1 /\ \A i \in 1..(n - 1) : lex[i] = lexeme[i]
  <2>1. SubSeq(lexeme, 1, n - 1) \in Seq(Classes)
        /\ Len(SubSeq(lexeme, 1, n - 1)) = (IF 1 <= n - 1 THEN n - 1 - 1 + 1 ELSE 0)
        /\ \A i \in 1..(n - 1 - 1 + 1) : SubSeq(lexeme, 1, n - 1)[i] = lexeme[1 + i - 1]
    <3>1. 1 \in Int /\ n - 1 \in Int
      BY <1>3
    <3> QED BY <1>4, <3>1, SubSeqProperties
  <2>2. (IF 1 <= n - 1 THEN n - 1 - 1 + 1 ELSE 0) = n - 1 /\ n - 1 - 1 + 1 = n - 1
    BY <1>3
  <2>3. \A i \in 1..(n - 1) : 1 + i - 1 = i
    BY <1>3
  <2>4. Len(SubSeq(lexeme, 1, n - 1)) = n - 1
    BY <2>1, <2>2, Zenon
  <2>5. \A i \in 1..(n - 1) : SubSeq(lexeme, 1, n - 1)[i] = lexeme[i]
    BY <2>1, <2>2, <2>3, Zenon
  <2> QED BY <1>2, <2>1, <2>4, <2>5, Zenon
<1>6. Deliver("A_TOKN", "T_NUM", lex, from, Pos - 2)
  BY <1>1, <1>2, Zenon
<1> QED BY <1>2, <1>5, <1>6

-----------------------------------------------------------------------------
(* Positions: what is reported for a token is the place of its first       *)
(* character.                                                              *)

\* TooLong, for the place of a token in T.
Overlong(T, f, l) ==
  \/ l - f + 1 >= LEXEME_BUFSIZE
  \/ /\ l - f + 1 = LEXEME_BUFSIZE - 1
     /\ Digits(SubSeq(T, f, l))
     /\ Slice(T, l + 1, l + 2) = <<"C_DOT", "C_DOT">>

Placed(T, ln, cl, f, l) ==
  /\ f \in 1..l /\ l \in 1..Len(T)
  /\ ln = 1 + Cardinality(Newlines(T, f))
  /\ cl = f - LineStart(T, f) \/ Overlong(T, f, l)

PlacesInv == \A i \in 1..Len(out) :
  out[i].tid # "T_EOF" => Placed(text, out[i].line, out[i].col, out[i].from, out[i].to)

\* From the place of the automaton to that of the lexeme's beginning.
LEMMA PlaceOfFrom ==
  ASSUME NEW T, NEW f \in Nat \ {0}, NEW p \in Nat, f <= p, OneLine(T, f, p),
         NEW ln, NEW cl \in Int, PlaceAt(T, p, ln, cl)
  PROVE  ln = 1 + Cardinality(Newlines(T, f)) /\ cl - (p - f) = f - LineStart(T, f)
<1>1. Newlines(T, p) = Newlines(T, f) /\ LineStart(T, p) = LineStart(T, f)
  BY SameLine
<1>2. PICK L : L = LineStart(T, f)
  OBVIOUS
<1>3. L \in Int
  BY <1>2, LineTyped
<1>4. cl = p - L /\ ln = 1 + Cardinality(Newlines(T, f))
  BY <1>1, <1>2 DEF PlaceAt
<1>5. cl - (p - f) = f - L
  BY <1>3, <1>4
<1> QED BY <1>2, <1>4, <1>5

\* The parts of a text.
LEMMA SlicesOf ==
  ASSUME NEW T \in Seq(Classes), NEW f \in Nat \ {0}, NEW l \in Nat, f <= l + 1, l <= Len(T)
  PROVE  /\ SubSeq(T, f, l) \in Seq(Classes) /\ Len(SubSeq(T, f, l)) = (l + 1) - f
         /\ \A i \in 1..((l + 1) - f) : SubSeq(T, f, l)[i] = T[f + i - 1]
         /\ Slice(T, f, l) = SubSeq(T, f, l)
<1>1. Len(T) \in Nat
  BY LenProperties
<1>2. \A i \in f..l : T[i] \in Classes
  BY <1>1, ElementOfSeq
<1>3. f \in Int /\ l \in Int
  OBVIOUS
<1>4. /\ SubSeq(T, f, l) \in Seq(Classes)
      /\ Len(SubSeq(T, f, l)) = IF f <= l THEN l - f + 1 ELSE 0
      /\ \A i \in 1..(l - f + 1) : SubSeq(T, f, l)[i] = T[f + i - 1]
  BY <1>2, <1>3, SubSeqProperties
<1>5. l - f + 1 = (l + 1) - f /\ (IF f <= l THEN l - f + 1 ELSE 0) = (l + 1) - f
  OBVIOUS
<1>6. Slice(T, f, l) = SubSeq(T, f, l)
  <2>1. (IF l < Len(T) THEN l ELSE Len(T)) = l
    BY <1>1
  <2> QED BY <2>1, Zenon DEF Slice
<1>7. Len(SubSeq(T, f, l)) = (l + 1) - f
  BY <1>4, <1>5, Zenon
<1>8. \A i \in 1..((l + 1) - f) : SubSeq(T, f, l)[i] = T[f + i - 1]
  BY <1>4, <1>5, Zenon
<1> QED BY <1>4, <1>6, <1>7, <1>8

LEMMA TwoLong ==
  ASSUME NEW S, NEW w \in Seq(S), Len(w) = 2
  PROVE  w = <<w[1], w[2]>>
<1>1. <<w[1], w[2]>> \in Seq(S)
  <2>1. w[1] \in S /\ w[2] \in S
    BY ElementOfSeq
  <2> QED BY <2>1
<1>2. Len(<<w[1], w[2]>>) = 2
  OBVIOUS
<1>3. \A i \in 1..2 : w[i] = <<w[1], w[2]>>[i]
  OBVIOUS
<1> QED BY <1>1, <1>2, <1>3, SeqEqual

LEMMA BeforePlaced ==
  ASSUME TypeOK, SizeInv, ReadInv, WordInv, NEW next, NEW action, TokenBefore(action, next)
  PROVE  Placed(text, line, Column(action, lexeme), from, Pos - 1)
<1>1. PICK p, f, n, ln, cl, B :
        p = Pos /\ f = from /\ n = Len(lexeme) /\ ln = line /\ cl = col /\ B = LEXEME_BUFSIZE
  OBVIOUS
<1>2. /\ p \in Nat /\ p \in 1..Len(text) /\ f \in 1..(p - 1) /\ OneLine(text, f, p) /\ PlaceAt(text, p, ln, cl)
      /\ trunc => p - f >= B
      /\ ~trunc => n = p - f
      /\ action \in {"A_TOKS", "A_ERR"}
  BY <1>1, BeforeFacts, TextTyped DEF WordInv, PlaceInv, LexemeInv, LexemeAt, TokenBefore
<1>3. n \in Nat /\ cl \in Int /\ B \in Nat
  BY <1>1, SizesOf
<1>4. ln = 1 + Cardinality(Newlines(text, f)) /\ cl - (p - f) = f - LineStart(text, f)
  BY <1>2, <1>3, PlaceOfFrom
<1>5. Column(action, lexeme) = cl - n
  <2>1. Column(action, lexeme) = (cl - 1) - n + 1 - 0
    BY <1>1, <1>2 DEF Column
  <2> QED BY <1>3, <2>1
<1>6. ~trunc => Column(action, lexeme) = f - LineStart(text, f)
  BY <1>2, <1>4, <1>5
<1>7. trunc => Overlong(text, f, p - 1)
  BY <1>1, <1>2, <1>3 DEF Overlong
<1>8. f \in 1..(p - 1) /\ p - 1 \in 1..Len(text)
  <2>1. Len(text) \in Nat
    BY TextTyped
  <2> QED BY <1>2, <2>1
<1>9. ln = line /\ p - 1 = Pos - 1
  BY <1>1
<1> QED BY <1>1, <1>4, <1>6, <1>7, <1>8, Zenon DEF Placed

LEMMA WithPlaced ==
  ASSUME TypeOK, SizeInv, ReadInv, WordInv, Running, Pos \in 1..Len(text), text[Pos] # "C_NL",
         NEW lex, NEW first, EndedBy(text, s, first, Pos, lex), s # "S_START" => first = from, first \in 1..Pos
  PROVE  Placed(text, line, Column("A_TOKF", lex), first, Pos)
<1>1. PICK p, n, ln, cl : p = Pos /\ n = Len(lex) /\ ln = line /\ cl = col
  OBVIOUS
<1>2. p \in Nat /\ p \in 1..Len(text) /\ first \in 1..p /\ PlaceAt(text, p, ln, cl) /\ cl \in Int
  BY <1>1, TextTyped, SizesOf DEF WordInv, PlaceInv
<1>3. n = (p + 1) - first
  BY <1>1, <1>2 DEF EndedBy
<1>4. OneLine(text, first, p)
  <2>1. CASE s = "S_START"
    BY <1>1, <1>2, <2>1 DEF EndedBy, OneLine
  <2>2. CASE s # "S_START"
    <3>1. s \notin EmptyStates
      BY <2>2 DEF EndedBy, EmptyStates
    <3> QED BY <1>1, <2>2, <3>1 DEF WordInv, LexemeInv, LexemeAt
  <2> QED BY <2>1, <2>2
<1>5. ln = 1 + Cardinality(Newlines(text, first)) /\ cl - (p - first) = first - LineStart(text, first)
  BY <1>2, <1>4, PlaceOfFrom
<1>6. Column("A_TOKF", lex) = cl - n + 1
  <2>1. Column("A_TOKF", lex) = cl - n + 1 - 0
    BY <1>1 DEF Column
  <2> QED BY <1>2, <1>3, <2>1
<1>7. Column("A_TOKF", lex) = first - LineStart(text, first)
  BY <1>2, <1>3, <1>5, <1>6
<1> QED BY <1>1, <1>2, <1>5, <1>7, Zenon DEF Placed

LEMMA RangePlaced ==
  ASSUME TypeOK, SizeInv, ReadInv, WordInv, NEW next, NumberBeforeRange(next),
         NEW lex, Len(lex) = Len(lexeme) - 1
  PROVE  Placed(text, line, Column("A_TOKN", lex), from, Pos - 2)
<1>1. PICK p, f, n, ln, cl, B :
        p = Pos /\ f = from /\ n = Len(lexeme) /\ ln = line /\ cl = col /\ B = LEXEME_BUFSIZE
  OBVIOUS
<1>2. /\ Running /\ p \in Nat /\ p \in 1..Len(text) /\ f \in 1..(p - 2)
      /\ DigitsAt(text, f, p - 2) /\ text[p - 1] = "C_DOT" /\ text[p] = "C_DOT" /\ s \notin EmptyStates
  <2>1. /\ Running /\ Pos \in 1..Len(text) /\ s = "S_I2" /\ from \in 1..(Pos - 2)
        /\ DigitsAt(text, from, Pos - 2) /\ text[Pos - 1] = "C_DOT" /\ text[Pos] = "C_DOT"
    BY BeforeRange
  <2>2. Len(text) \in Nat
    BY TextTyped
  <2>3. s \notin EmptyStates
    BY <2>1 DEF EmptyStates
  <2> QED BY <1>1, <2>1, <2>2, <2>3
<1>3. /\ OneLine(text, f, p) /\ PlaceAt(text, p, ln, cl)
      /\ trunc => p - f >= B
      /\ ~trunc => n = p - f
  BY <1>1, <1>2 DEF WordInv, PlaceInv, LexemeInv, LexemeAt
<1>4. n \in Nat /\ cl \in Int /\ B \in Nat
  BY <1>1, SizesOf
<1>5. ln = 1 + Cardinality(Newlines(text, f)) /\ cl - (p - f) = f - LineStart(text, f)
  BY <1>2, <1>3, <1>4, PlaceOfFrom
<1>6. Column("A_TOKN", lex) = cl - n
  <2>1. Column("A_TOKN", lex) = cl - (n - 1) + 1 - 2
    BY <1>1 DEF Column
  <2> QED BY <1>4, <2>1
<1>7. ~trunc => Column("A_TOKN", lex) = f - LineStart(text, f)
  BY <1>3, <1>5, <1>6
<1>8. trunc => Overlong(text, f, p - 2)
  <2>1. text \in Seq(Classes)
    BY TextTyped
  <2>2. Digits(SubSeq(text, f, p - 2))
    <3>1. PICK w, k : w = SubSeq(text, f, p - 2) /\ k = (p - 2 + 1) - f
      OBVIOUS
    <3>2. w \in Seq(Classes) /\ Len(w) = k /\ \A i \in 1..k : w[i] = text[f + i - 1]
      BY <1>2, <2>1, <3>1, SlicesOf
    <3>3. k >= 1 /\ \A i \in 1..k : f + i - 1 \in f..(p - 2)
      BY <1>2, <3>1
    <3>4. w # << >> /\ DOMAIN w = 1..k
      BY <3>2, <3>3, EmptySeq, LenProperties
    <3>5. \A i \in 1..k : w[i] = "C_DIG"
      BY <1>2, <3>2, <3>3 DEF DigitsAt
    <3> QED BY <3>1, <3>4, <3>5 DEF Digits
  <2>3. Slice(text, p - 1, p) = <<"C_DOT", "C_DOT">>
    <3>1. PICK w : w = Slice(text, p - 1, p)
      OBVIOUS
    <3>2. w \in Seq(Classes) /\ Len(w) = 2 /\ w[1] = text[p - 1] /\ w[2] = text[p]
      <4>1. p - 1 \in Nat \ {0} /\ p - 1 <= p + 1 /\ p <= Len(text) /\ (p + 1) - (p - 1) = 2
            /\ p - 1 + 1 - 1 = p - 1 /\ p - 1 + 2 - 1 = p
        BY <1>2
      <4>2. /\ SubSeq(text, p - 1, p) \in Seq(Classes) /\ Len(SubSeq(text, p - 1, p)) = (p + 1) - (p - 1)
            /\ \A i \in 1..((p + 1) - (p - 1)) : SubSeq(text, p - 1, p)[i] = text[p - 1 + i - 1]
            /\ w = SubSeq(text, p - 1, p)
        BY <1>2, <2>1, <3>1, <4>1, SlicesOf
      <4>3. Len(w) = 2 /\ w \in Seq(Classes) /\ \A i \in 1..2 : w[i] = text[p - 1 + i - 1]
        BY <4>1, <4>2, Zenon
      <4> QED BY <4>1, <4>3
    <3> QED BY <1>2, <3>1, <3>2, TwoLong
  <2>4. p - 2 + 1 = p - 1 /\ p - 2 + 2 = p
    BY <1>2
  <2>5. trunc => p - 2 - f + 1 >= B \/ p - 2 - f + 1 = B - 1
    BY <1>2, <1>3, <1>4
  <2> QED BY <1>1, <2>2, <2>3, <2>4, <2>5 DEF Overlong
<1>9. f \in 1..(p - 2) /\ p - 2 \in 1..Len(text)
  <2>1. Len(text) \in Nat
    BY TextTyped
  <2> QED BY <1>2, <2>1
<1> QED BY <1>1, <1>5, <1>7, <1>8, <1>9, Zenon DEF Placed

\* Every token delivered is placed.
LEMMA PlacesKept ==
  ASSUME TypeOK, out' \in Seq(Token), text' = text, PlacesInv,
         NEW action, NEW predicted \in Tids \ {"T_EOF"}, NEW lex, NEW first, NEW last,
         Deliver(action, predicted, lex, first, last),
         Placed(text, line, Column(action, lex), first, last)
  PROVE  PlacesInv'
<1>1. PICK t : /\ Len(out) \in Nat /\ Len(out') = Len(out) + 1 /\ out'[Len(out) + 1] = t
               /\ \A i \in 1..Len(out) : out'[i] = out[i]
               /\ t.line = line /\ t.col = Column(action, lex) /\ t.from = first /\ t.to = last
  BY Delivered
<1>2. PICK n, o, T : n = Len(out) /\ o = out' /\ T = text
  OBVIOUS
<1>3. ASSUME NEW i \in 1..(n + 1), o[i].tid # "T_EOF"
      PROVE  Placed(T, o[i].line, o[i].col, o[i].from, o[i].to)
  <2>1. CASE i = n + 1
    <3>1. o[i] = t /\ Placed(T, t.line, t.col, t.from, t.to)
      BY <1>1, <1>2, <2>1
    <3> QED BY <3>1
  <2>2. CASE i \in 1..n
    BY <1>1, <1>2, <1>3, <2>2 DEF PlacesInv
  <2> QED BY <1>1, <1>2, <2>1, <2>2
<1>4. Len(o) = n + 1 /\ text' = T
  BY <1>1, <1>2
<1> QED BY <1>2, <1>3, <1>4 DEF PlacesInv

\* What is predicted is a token, and never the end of the file.
LEMMA Predicted ==
  /\ \A st \in States : predict_token_from_state(st) \in Tids \ {"T_EOF"}
  /\ \A c : predict_token_from_char(c) \in Tids \ {"T_EOF"}
  /\ "T_ERR" \in Tids \ {"T_EOF"} /\ "T_NUM" \in Tids \ {"T_EOF"}
BY DEF predict_token_from_state, predict_token_from_char, final_states, FromState, FromChar, Tids, OperatorTids

ScanInv == ReadInv /\ WordInv /\ PlacesInv

LEMMA ScanInit == Init => ScanInv
<1> SUFFICES ASSUME Init PROVE ScanInv
  OBVIOUS
<1>1. /\ text \in Texts /\ fpos = 0 /\ buf = << >> /\ input_ptr = 0 /\ s = "S_START" /\ line = 1 /\ col = 1
      /\ trunc = FALSE /\ out = << >>
  BY DEF Init
<1>2. Len(buf) = 0 /\ Len(out) = 0
  BY <1>1, EmptySeq
<1>3. Pos = 1
  BY <1>1, <1>2 DEF Pos, Refill
<1>4. ReadInv
  BY <1>2 DEF ReadInv
<1>5. PlacesInv
  BY <1>2 DEF PlacesInv
<1>6. LexemeInv /\ ShapeInv
  BY <1>1, EmptyWords DEF LexemeInv, ShapeInv, EmptyStates
<1>7. PlaceAt(text, 1, 1, 1)
  <2>1. Newlines(text, 1) = {}
    BY DEF Newlines
  <2>2. Cardinality(Newlines(text, 1)) = 0 /\ LineStart(text, 1) = 0
    BY <2>1, FS_EmptySet DEF LineStart
  <2> QED BY <2>2 DEF PlaceAt
<1>8. PlaceInv
  BY <1>1, <1>3, <1>7 DEF PlaceInv
<1> QED BY <1>4, <1>5, <1>6, <1>8 DEF ScanInv, WordInv

\* The steps that deliver a token, one by one.
LEMMA ScanBefore ==
  ASSUME TypeOK, SizeInv, ScanInv, out' \in Seq(Token), NEW next, NEW action, TokenBefore(action, next)
  PROVE  ScanInv'
<1> DEFINE predicted == IF action = "A_TOKS" THEN predict_token_from_state(s) ELSE "T_ERR"
<1>1. ReadInv /\ WordInv /\ PlacesInv
  BY DEF ScanInv
<1>2. Deliver(action, predicted, lexeme, from, Pos - 1) /\ s \in States /\ text' = text /\ ReadInv'
  BY <1>1, BeforeFacts
<1>3. predicted \in Tids \ {"T_EOF"}
  BY <1>2, Predicted
<1>4. Placed(text, line, Column(action, lexeme), from, Pos - 1)
  BY <1>1, BeforePlaced
<1> HIDE DEF predicted
<1>5. Running'
  BY <1>2, <1>3, Delivered
<1>6. PlacesInv'
  BY <1>1, <1>2, <1>3, <1>4, PlacesKept
<1>7. WordInv'
  BY <1>1, <1>5, TokenBeforeWords
<1> QED BY <1>2, <1>6, <1>7 DEF ScanInv

LEMMA ScanWith ==
  ASSUME TypeOK, SizeInv, ScanInv, out' \in Seq(Token), NEW next, TokenWith(next)
  PROVE  ScanInv'
<1>1. ReadInv /\ WordInv /\ PlacesInv
  BY DEF ScanInv
<1>2. PICK lex, first :
        /\ Deliver("A_TOKF", predict_token_from_char(lex[1]), lex, first, Pos)
        /\ EndedBy(text, s, first, Pos, lex) /\ first \in 1..Pos
        /\ s # "S_START" => first = from
        /\ Running /\ Pos \in 1..Len(text) /\ text[Pos] # "C_NL" /\ text' = text /\ ReadInv'
  BY <1>1, WithFacts
<1>3. PICK predicted : predicted = predict_token_from_char(lex[1])
  OBVIOUS
<1>4. predicted \in Tids \ {"T_EOF"} /\ Deliver("A_TOKF", predicted, lex, first, Pos)
  BY <1>2, <1>3, Predicted
<1>5. Placed(text, line, Column("A_TOKF", lex), first, Pos)
  BY <1>1, <1>2, WithPlaced
<1>6. Running'
  BY <1>4, Delivered
<1>7. PlacesInv'
  BY <1>1, <1>2, <1>4, <1>5, PlacesKept
<1>8. WordInv'
  BY <1>1, <1>6, TokenWithWords
<1> QED BY <1>2, <1>7, <1>8 DEF ScanInv

LEMMA ScanRange ==
  ASSUME TypeOK, SizeInv, ScanInv, out' \in Seq(Token), NEW next, NumberBeforeRange(next)
  PROVE  ScanInv'
<1>1. ReadInv /\ WordInv /\ PlacesInv
  BY DEF ScanInv
<1>2. ReadInv' /\ text' = text
  BY <1>1, BeforeRange
<1>3. PICK lex : Deliver("A_TOKN", "T_NUM", lex, from, Pos - 2) /\ Len(lex) = Len(lexeme) - 1
  BY <1>1, RangeFacts
<1>4. Placed(text, line, Column("A_TOKN", lex), from, Pos - 2)
  BY <1>1, <1>3, RangePlaced
<1>5. PlacesInv'
  BY <1>1, <1>2, <1>3, <1>4, PlacesKept, Predicted
<1>6. WordInv'
  BY <1>1, BeforeRangeWords
<1> QED BY <1>2, <1>5, <1>6 DEF ScanInv

LEMMA ScanStep == TypeOK /\ SizeInv /\ ScanInv /\ TypeOK' /\ [Next]_vars => ScanInv'
<1> SUFFICES ASSUME TypeOK, SizeInv, ScanInv, TypeOK', [Next]_vars PROVE ScanInv'
  OBVIOUS
<1>0. out' \in Seq(Token) /\ ReadInv /\ WordInv /\ PlacesInv
  BY DEF TypeOK, ScanInv
<1>1. ASSUME NEW next \in States, NEW action, Quiet(action, next), WordInv' PROVE ScanInv'
  <2>1. ReadInv' /\ out' = out /\ text' = text
    BY <1>0, <1>1, QuietTakes DEF Takes
  <2>2. PlacesInv'
    BY <1>0, <2>1 DEF PlacesInv
  <2> QED BY <1>1, <2>1, <2>2 DEF ScanInv
<1>2. ASSUME NEW next \in States, AddChar(next) PROVE ScanInv'
  <2>1. WordInv' /\ Quiet("A_ADD", next)
    BY <1>0, <1>2, AddWords DEF AddChar
  <2> QED BY <1>1, <2>1
<1>3. ASSUME NEW next \in States, Ignore(next) \/ NewLine(next) \/ ClearLexeme(next) PROVE ScanInv'
  <2>1. WordInv'
    BY <1>0, <1>3, BlankWords
  <2>2. \E action : Quiet(action, next)
    BY <1>3 DEF Ignore, NewLine, ClearLexeme
  <2> QED BY <1>1, <2>1, <2>2
<1>4. ASSUME EndOfFile PROVE ScanInv'
  <2>1. /\ ~Running' /\ text' = text /\ Len(out) \in Nat /\ Len(out') = Len(out) + 1
        /\ \A i \in 1..Len(out) : out'[i] = out[i]
        /\ out'[Len(out) + 1].tid = "T_EOF"
    BY <1>4, EndsRunning
  <2>2. ReadInv'
    BY <1>0, <1>4, <2>1, PutBack DEF EndOfFile
  <2>3. PlacesInv'
    <3>1. PICK n, o, T : n = Len(out) /\ o = out' /\ T = text
      OBVIOUS
    <3>2. \A i \in 1..(n + 1) : o[i].tid # "T_EOF" => Placed(T, o[i].line, o[i].col, o[i].from, o[i].to)
      BY <1>0, <2>1, <3>1 DEF PlacesInv
    <3>3. Len(o) = n + 1 /\ text' = T
      BY <2>1, <3>1
    <3> QED BY <3>1, <3>2, <3>3 DEF PlacesInv
  <2>4. WordInv'
    BY <2>1 DEF WordInv, PlaceInv, LexemeInv, ShapeInv
  <2> QED BY <2>2, <2>3, <2>4 DEF ScanInv
<1>5. ASSUME UNCHANGED vars PROVE ScanInv'
  <2>1. UNCHANGED <<text, fpos, buf, input_ptr, s, line, col, lexeme, trunc, from, out>>
    BY <1>5 DEF vars, input, dfa
  <2>2. Pos' = Pos /\ (Running' <=> Running)
    BY <2>1 DEF Pos, Refill, Running
  <2>3. ReadInv' /\ PlacesInv'
    BY <1>0, <2>1 DEF ReadInv, PlacesInv
  <2>4. PlaceInv' /\ LexemeInv' /\ ShapeInv'
    BY <1>0, <2>1, <2>2 DEF WordInv, PlaceInv, LexemeInv, ShapeInv
  <2> QED BY <2>3, <2>4 DEF ScanInv, WordInv
<1> QED BY <1>0, <1>2, <1>3, <1>4, <1>5, ScanBefore, ScanWith, ScanRange DEF Next, Done

\* The automaton sees the text, and collects the lexeme that starts at from.
THEOREM InvariantHolds == Spec => [](TypeOK /\ SizeInv /\ ScanInv)
<1>1. TypeOK /\ SizeInv /\ ScanInv /\ [Next]_vars => (TypeOK /\ SizeInv /\ ScanInv)'
  BY StepInv, ScanStep
<1> QED BY <1>1, InitInv, ScanInit, PTL DEF Spec

\* PositionsExact for every text and every size of the buffers: the line and
\* column computed at the end of a token (lexer.c:466-500) are those of its
\* first character, over refills of the buffer, characters put back, comments
\* and truncation.
THEOREM PositionsRight == Spec => []PositionsExact
<1>1. TypeOK /\ PlacesInv => PositionsExact
  <2> SUFFICES ASSUME TypeOK, PlacesInv, NEW i \in Tokens
               PROVE  LET t == out[i]
                          newlines == {k \in 1..(t.from - 1) : text[k] = "C_NL"}
                          start == IF newlines = {} THEN 0
                                   ELSE CHOOSE k \in newlines : \A m \in newlines : m <= k
                      IN  t.line = 1 + Cardinality(newlines) /\ (~TooLong(t) => t.col = t.from - start)
    BY DEF PositionsExact
  <2>1. i \in 1..Len(out) /\ out[i].tid # "T_EOF"
    BY LenProperties DEF Tokens, TypeOK
  <2>2. PICK t : t = out[i]
    OBVIOUS
  <2>3. Placed(text, t.line, t.col, t.from, t.to)
    BY <2>1, <2>2 DEF PlacesInv
  <2>4. TooLong(t) <=> Overlong(text, t.from, t.to)
    BY DEF TooLong, Overlong, Spelling
  <2>5. t.line = 1 + Cardinality(Newlines(text, t.from)) /\ (~TooLong(t) => t.col = t.from - LineStart(text, t.from))
    BY <2>3, <2>4 DEF Placed
  <2> QED BY <2>2, <2>5 DEF Newlines, LineStart
<1>2. TypeOK /\ SizeInv /\ ScanInv => PositionsExact
  BY <1>1 DEF ScanInv
<1> QED BY <1>2, InvariantHolds, PTL

-----------------------------------------------------------------------------
(* Blanks and comments: SkipBlanks goes from a place to one further on, so *)
(* its equation has a solution.                                            *)

Stars(T, i) == {k \in (i + 2)..Len(T) : T[k] = "C_STAR"}
SecondStar(S) == CHOOSE m \in S : Cardinality({k \in S : k < m}) = 1
Closed(T, i) == Slice(T, i, i + 1) = CommentMark /\ Cardinality(Stars(T, i)) >= 2

\* Where SkipBlanks goes from i, g saying where it goes from further on.
SkipAt(T, g, i) ==
  IF i > Len(T) THEN i
  ELSE IF T[i] \in {"C_WS", "C_NL"} THEN g[i + 1]
  ELSE IF Closed(T, i) THEN g[SecondStar(Stars(T, i)) + 1]
  ELSE i
IsSkip(T, g) == g = [i \in 1..(Len(T) + 1) |-> SkipAt(T, g, i)]
SkipOf(T) == CHOOSE g : IsSkip(T, g)

LEMMA StarsFinite ==
  ASSUME NEW T, NEW i \in Nat, Len(T) \in Nat
  PROVE  IsFiniteSet(Stars(T, i))
<1>1. PICK m, n : m = i + 2 /\ n = Len(T)
  OBVIOUS
<1>2. m \in Int /\ n \in Int
  BY <1>1
<1>3. IsFiniteSet(m..n)
  BY <1>2, FS_Interval
<1>4. PICK S : S = Stars(T, i)
  OBVIOUS
<1>5. S \subseteq m..n
  BY <1>1, <1>4 DEF Stars
<1>6. IsFiniteSet(S)
  BY <1>3, <1>5, FS_Subset
<1> QED BY <1>4, <1>6

\* The places of the first two stars.
FirstStars(T, i, a, b) ==
  a \in Stars(T, i) /\ b \in Stars(T, i) /\ a < b /\ \A k \in Stars(T, i) : k < b => k = a

LEMMA TwoStars ==
  ASSUME NEW T \in Seq(Classes), NEW i \in Nat, NEW a, NEW b, FirstStars(T, i, a, b)
  PROVE  SecondStar(Stars(T, i)) = b /\ Cardinality(Stars(T, i)) >= 2
<1>1. PICK S : S = Stars(T, i)
  OBVIOUS
<1>f. a \in S /\ b \in S /\ a < b /\ \A k \in S : k < b => k = a
  BY <1>1 DEF FirstStars
<1>2. Len(T) \in Nat
  BY LenProperties
<1>3. IsFiniteSet(S) /\ (\A k \in S : k \in Nat) /\ a \in S /\ b \in S
  <2>1. IsFiniteSet(S)
    BY <1>1, <1>2, StarsFinite
  <2>2. S \subseteq (i + 2)..Len(T)
    BY <1>1 DEF Stars
  <2> QED BY <1>f, <1>2, <2>1, <2>2
<1>4. Cardinality({a}) = 1 /\ Cardinality({a, b}) = 2 /\ Cardinality({}) = 0
      /\ IsFiniteSet({a}) /\ IsFiniteSet({a, b})
  <2>1. Cardinality({a}) = 1 /\ IsFiniteSet({a}) /\ Cardinality({}) = 0
    BY FS_Singleton, FS_EmptySet
  <2>2. {a, b} = {a} \cup {b} /\ b \notin {a}
    BY <1>f, <1>3
  <2>3. IsFiniteSet({a} \cup {b}) /\ Cardinality({a} \cup {b}) = Cardinality({a}) + 1
    BY <2>1, <2>2, FS_AddElement
  <2>4. Cardinality({a} \cup {b}) = 1 + 1
    BY <2>1, <2>3, Zenon
  <2>5. 1 + 1 = 2
    OBVIOUS
  <2> QED BY <2>1, <2>2, <2>3, <2>4, <2>5, Zenon
<1>5. {k \in S : k < b} = {a}
  BY <1>f, <1>3
<1>6. Cardinality(S) >= 2
  <2>1. {a, b} \subseteq S
    BY <1>3
  <2>2. Cardinality({a, b}) <= Cardinality(S)
    BY <1>3, <2>1, FS_Subset
  <2>3. Cardinality(S) \in Nat
    BY <1>3, FS_CardinalityType
  <2> QED BY <1>4, <2>2, <2>3
<1>7. ASSUME NEW m \in S, Cardinality({k \in S : k < m}) = 1 PROVE m = b
  <2>1. CASE m < b
    <3>1. m = a
      BY <1>f, <2>1
    <3>2. {k \in S : k < m} = {}
      <4>1. ASSUME NEW k \in S, k < m PROVE FALSE
        <5>1. k < b
          BY <1>3, <1>f, <2>1, <4>1
        <5>2. k = a
          BY <1>f, <5>1
        <5> QED BY <1>3, <3>1, <4>1, <5>2
      <4> QED BY <4>1
    <3>3. 0 = 1
      BY <1>4, <1>7, <3>2, Zenon
    <3> QED BY <3>3
  <2>2. CASE b < m
    <3>1. {a, b} \subseteq {k \in S : k < m}
      BY <1>3, <1>f, <2>2
    <3>2. {k \in S : k < m} \subseteq S
      OBVIOUS
    <3>3. IsFiniteSet({k \in S : k < m})
      BY <1>3, <3>2, FS_Subset
    <3>4. Cardinality({a, b}) <= Cardinality({k \in S : k < m})
      BY <3>1, <3>3, FS_Subset
    <3> QED BY <1>4, <1>7, <3>4
  <2> QED BY <1>3, <2>1, <2>2
<1>8. \E m \in S : Cardinality({k \in S : k < m}) = 1
  BY <1>3, <1>4, <1>5, Zenon
<1>9. SecondStar(S) \in S /\ Cardinality({k \in S : k < SecondStar(S)}) = 1
  BY <1>8, Zenon DEF SecondStar
<1>10. SecondStar(S) = b
  BY <1>7, <1>9
<1> QED BY <1>1, <1>6, <1>10

\* At least two stars have a first and a second one.
LEMMA FirstTwo ==
  ASSUME NEW T \in Seq(Classes), NEW i \in Nat, Cardinality(Stars(T, i)) >= 2
  PROVE  \E a, b : FirstStars(T, i, a, b)
<1>1. PICK S : S = Stars(T, i)
  OBVIOUS
<1>2. Len(T) \in Nat
  BY LenProperties
<1>3. IsFiniteSet(S) /\ S \subseteq Nat
  <2>1. IsFiniteSet(S)
    BY <1>1, <1>2, StarsFinite
  <2>2. S \subseteq (i + 2)..Len(T)
    BY <1>1 DEF Stars
  <2> QED BY <1>2, <2>1, <2>2
<1>c. Cardinality(S) >= 2
  BY <1>1
<1>4. S # {}
  <2>1. PICK m : m = Cardinality(S)
    OBVIOUS
  <2>2. m >= 2
    BY <1>c, <2>1
  <2>3. m # 0
    BY <2>2
  <2>4. Cardinality({}) = 0
    BY FS_EmptySet
  <2> QED BY <2>1, <2>3, <2>4, Zenon
<1>5. PICK a \in S : \A y \in S : a <= y
  BY <1>3, <1>4, SmallestExists DEF Smallest
<1>6. S \ {a} # {}
  <2> SUFFICES ASSUME S = {a} PROVE FALSE
    BY <1>4
  <2>1. Cardinality({a}) = 1
    BY FS_Singleton
  <2> QED BY <1>c, <2>1
<1>7. S \ {a} \subseteq Nat
  BY <1>3
<1>8. PICK b \in S \ {a} : \A y \in S \ {a} : b <= y
  BY <1>6, <1>7, SmallestExists DEF Smallest
<1>9. a < b
  BY <1>3, <1>5, <1>8
<1>10. \A k \in S : k < b => k = a
  BY <1>3, <1>8
<1> QED BY <1>1, <1>9, <1>10 DEF FirstStars

\* A comment that is closed is skipped.
LEMMA SecondFurther ==
  ASSUME NEW T \in Seq(Classes), NEW i \in 1..Len(T), Closed(T, i)
  PROVE  SecondStar(Stars(T, i)) + 1 \in (i + 1)..(Len(T) + 1)
<1>1. Len(T) \in Nat
  BY LenProperties
<1>2. PICK a, b : FirstStars(T, i, a, b)
  BY <1>1, FirstTwo DEF Closed
<1>3. SecondStar(Stars(T, i)) = b
  BY <1>1, <1>2, TwoStars
<1>4. b \in (i + 2)..Len(T)
  BY <1>2 DEF Stars, FirstStars
<1> QED BY <1>1, <1>3, <1>4

LEMMA SkipExists ==
  ASSUME NEW T \in Seq(Classes), NEW N, N = Len(T)
  PROVE  \E f : \A i \in 1..(N + 1) : f[i] = SkipAt(T, f, i)
<1> DEFINE Good(k) == \E f : \A i \in (N + 1 - k)..(N + 1) : f[i] = SkipAt(T, f, i)
           B == {k \in 0..N : ~Good(k)}
<1>1. N \in Nat
  BY LenProperties
<1>2. SUFFICES ASSUME B # {} PROVE FALSE
  <2>1. N \in 0..N
    BY <1>1
  <2> HIDE DEF Good
  <2>2. B = {} => Good(N)
    BY <2>1
  <2>3. N + 1 - N = 1
    BY <1>1
  <2> QED BY <2>2, <2>3 DEF Good
<1>3. PICK k \in B : \A j \in B : k <= j
  <2>1. B \subseteq Nat
    BY <1>1
  <2> HIDE DEF B
  <2> QED BY <2>1, <1>2, SmallestExists DEF Smallest
<1>4. k \in 0..N /\ ~Good(k)
  OBVIOUS
<1>5. k # 0
  <2>1. PICK f : f = [i \in {N + 1} |-> N + 1]
    OBVIOUS
  <2>2. \A i \in (N + 1 - 0)..(N + 1) : i = N + 1
    BY <1>1
  <2>3. f[N + 1] = N + 1
    BY <2>1
  <2>4. SkipAt(T, f, N + 1) = N + 1
    BY <1>1 DEF SkipAt
  <2>5. Good(0)
    BY <2>2, <2>3, <2>4
  <2> HIDE DEF Good
  <2> QED BY <1>4, <2>5
<1>6. Good(k - 1)
  <2>1. k - 1 \in 0..N /\ ~(k <= k - 1)
    BY <1>1, <1>4, <1>5
  <2> HIDE DEF Good
  <2> QED BY <2>1, <1>3
<1>7. PICK a : a = N + 1 - k
  OBVIOUS
<1>8. a \in 1..N /\ N + 1 - (k - 1) = a + 1
  BY <1>1, <1>4, <1>5, <1>7
<1>9. PICK f : \A i \in (a + 1)..(N + 1) : f[i] = SkipAt(T, f, i)
  BY <1>6, <1>8
<1> HIDE DEF B
<1> DEFINE x == SkipAt(T, f, a)
<1>10. PICK g : g = [i \in a..(N + 1) |-> IF i = a THEN x ELSE f[i]]
  OBVIOUS
<1> HIDE DEF x
<1>11. \A i \in (a + 1)..(N + 1) : g[i] = f[i]
  BY <1>1, <1>8, <1>10
<1>12. ASSUME NEW i \in a..(N + 1) PROVE g[i] = SkipAt(T, g, i)
  <2>1. i \in Nat \ {0}
    BY <1>1, <1>8
  <2>2. SkipAt(T, g, i) = SkipAt(T, f, i)
    <3>1. CASE i > N
      BY <3>1 DEF SkipAt
    <3>2. CASE i <= N
      <4>1. g[i + 1] = f[i + 1]
        BY <1>1, <1>8, <1>11, <2>1, <3>2
      <4>2. Closed(T, i) => g[SecondStar(Stars(T, i)) + 1] = f[SecondStar(Stars(T, i)) + 1]
        <5>1. Closed(T, i) => SecondStar(Stars(T, i)) + 1 \in (i + 1)..(N + 1)
          BY <1>1, <2>1, <3>2, SecondFurther
        <5>2. \A j \in (i + 1)..(N + 1) : j \in (a + 1)..(N + 1)
          BY <1>1, <1>8, <2>1
        <5> QED BY <5>1, <5>2, <1>11
      <4> QED BY <4>1, <4>2 DEF SkipAt
    <3> QED BY <1>1, <2>1, <3>1, <3>2
  <2>3. CASE i = a
    <3>1. g[a] = x
      BY <1>1, <1>8, <1>10
    <3> QED BY <2>2, <2>3, <3>1 DEF x
  <2>4. CASE i # a
    <3>1. i \in (a + 1)..(N + 1)
      BY <1>1, <1>8, <2>4
    <3> QED BY <2>2, <3>1, <1>9, <1>11
  <2> QED BY <2>3, <2>4
<1>13. Good(k)
  BY <1>7, <1>12
<1> HIDE DEF Good
<1> QED BY <1>4, <1>13

LEMMA SkipIs ==
  ASSUME NEW T \in Seq(Classes), NEW i \in 1..(Len(T) + 1)
  PROVE  /\ SkipBlanks(T, i) = SkipAt(T, SkipOf(T), i)
         /\ \A j : SkipBlanks(T, j) = SkipOf(T)[j]
<1>1. PICK N : N = Len(T)
  OBVIOUS
<1>2. N \in Nat
  BY <1>1, LenProperties
<1>3. PICK f : \A j \in 1..(N + 1) : f[j] = SkipAt(T, f, j)
  BY <1>1, SkipExists
<1>4. PICK g : g = [j \in 1..(N + 1) |-> f[j]]
  OBVIOUS
<1>5. \A j \in 1..(N + 1) : SkipAt(T, g, j) = SkipAt(T, f, j)
  <2> TAKE j \in 1..(N + 1)
  <2>1. CASE j > N
    BY <1>1, <2>1 DEF SkipAt
  <2>2. CASE j <= N
    <3>1. j \in 1..N
      BY <1>2, <2>2
    <3>2. g[j + 1] = f[j + 1]
      BY <1>2, <1>4, <3>1
    <3>3. Closed(T, j) => SecondStar(Stars(T, j)) + 1 \in (j + 1)..(N + 1)
      BY <1>1, <3>1, SecondFurther
    <3>4. \A m \in (j + 1)..(N + 1) : g[m] = f[m]
      BY <1>2, <1>4, <3>1
    <3> QED BY <3>2, <3>3, <3>4 DEF SkipAt
  <2> QED BY <1>2, <2>1, <2>2
<1>6. g = [j \in 1..(N + 1) |-> SkipAt(T, g, j)]
  <2>1. \A j \in 1..(N + 1) : f[j] = SkipAt(T, g, j)
    BY <1>3, <1>5
  <2> QED BY <1>4, <2>1
<1>7. IsSkip(T, g)
  BY <1>1, <1>6, Zenon DEF IsSkip
<1>8. IsSkip(T, SkipOf(T))
  BY <1>7, Zenon DEF SkipOf
<1>9. SkipOf(T)[i] = SkipAt(T, SkipOf(T), i)
  BY <1>8, Zenon DEF IsSkip
<1>10. ASSUME NEW j PROVE SkipBlanks(T, j) = SkipOf(T)[j]
  BY Zenon DEF SkipBlanks, SkipOf, IsSkip, SkipAt, Closed, Stars, SecondStar
<1> QED BY <1>9, <1>10

\* Where a comment can begin.
LEMMA PairIs ==
  ASSUME NEW T \in Seq(Classes), NEW i \in 1..Len(T), NEW a, NEW b
  PROVE  Slice(T, i, i + 1) = <<a, b>> <=> i < Len(T) /\ T[i] = a /\ T[i + 1] = b
<1>1. PICK N, w : N = Len(T) /\ w = Slice(T, i, i + 1)
  OBVIOUS
<1>2. N \in Nat /\ i \in Nat \ {0} /\ i <= N
  <2>1. Len(T) \in Nat
    BY LenProperties
  <2> QED BY <1>1, <2>1
<1>3. CASE i < N
  <2>0. PICK q : q = i + 1
    OBVIOUS
  <2>1. q \in Nat /\ i <= q + 1 /\ q <= Len(T) /\ (q + 1) - i = 2
    BY <1>1, <1>2, <1>3, <2>0
  <2>2. /\ SubSeq(T, i, q) \in Seq(Classes) /\ Len(SubSeq(T, i, q)) = (q + 1) - i
        /\ \A k \in 1..((q + 1) - i) : SubSeq(T, i, q)[k] = T[i + k - 1]
        /\ w = SubSeq(T, i, q)
    <3>1. Slice(T, i, q) = w
      BY <1>1, <2>0
    <3> QED BY <1>2, <2>1, <3>1, SlicesOf
  <2>3. Len(w) = 2 /\ w[1] = T[i] /\ w[2] = T[i + 1]
    <3>1. Len(w) = 2 /\ w \in Seq(Classes) /\ \A k \in 1..2 : w[k] = T[i + k - 1]
      BY <2>1, <2>2, Zenon
    <3>2. i + 1 - 1 = i /\ i + 2 - 1 = i + 1
      BY <1>2
    <3> QED BY <3>1, <3>2
  <2>4. w = <<w[1], w[2]>>
    <3>1. w \in Seq(Classes)
      BY <2>2, Zenon
    <3> QED BY <2>3, <3>1, TwoLong
  <2>5. w = <<a, b>> <=> T[i] = a /\ T[i + 1] = b
    BY <2>3, <2>4
  <2> QED BY <1>1, <1>3, <2>5
<1>4. CASE ~(i < N)
  <2>1. i = N
    BY <1>2, <1>4
  <2>2. w = SubSeq(T, i, i)
    <3>1. ~(i + 1 < N)
      BY <1>2, <2>1
    <3>2. (IF i + 1 < Len(T) THEN i + 1 ELSE Len(T)) = i
      BY <1>1, <2>1, <3>1
    <3> QED BY <1>1, <3>2, Zenon DEF Slice
  <2>3. i <= i + 1 /\ i <= Len(T) /\ (i + 1) - i = 1 /\ i \in Nat
    BY <1>1, <1>2
  <2>4. Len(SubSeq(T, i, i)) = (i + 1) - i
    BY <1>2, <2>3, SlicesOf
  <2>5. Len(w) = 1
    BY <2>2, <2>3, <2>4, Zenon
  <2>6. w # <<a, b>>
    BY <2>5
  <2> QED BY <1>1, <1>4, <2>6
<1> QED BY <1>3, <1>4

LEMMA MarkIs ==
  ASSUME NEW T \in Seq(Classes), NEW i \in 1..Len(T)
  PROVE  Slice(T, i, i + 1) = CommentMark <=> i < Len(T) /\ T[i] = "C_STAR" /\ T[i + 1] = "C_STAR"
BY PairIs DEF CommentMark

LEMMA SkipsBlank ==
  ASSUME NEW T \in Seq(Classes), NEW i \in 1..Len(T), T[i] \in {"C_WS", "C_NL"}
  PROVE  SkipBlanks(T, i) = SkipBlanks(T, i + 1)
<1>1. Len(T) \in Nat /\ i \in 1..(Len(T) + 1) /\ ~(i > Len(T))
  BY LenProperties
<1>2. SkipBlanks(T, i) = SkipAt(T, SkipOf(T), i) /\ SkipBlanks(T, i + 1) = SkipOf(T)[i + 1]
  BY <1>1, SkipIs
<1>3. SkipAt(T, SkipOf(T), i) = SkipOf(T)[i + 1]
  BY <1>1 DEF SkipAt
<1> QED BY <1>2, <1>3

\* What is neither blank nor the beginning of a comment closed is not skipped.
LEMMA SkipsNone ==
  ASSUME NEW T \in Seq(Classes), NEW i \in 1..(Len(T) + 1),
         i <= Len(T) => T[i] \notin {"C_WS", "C_NL"} /\ ~Closed(T, i)
  PROVE  SkipBlanks(T, i) = i
<1>1. Len(T) \in Nat
  BY LenProperties
<1>2. SkipAt(T, SkipOf(T), i) = i
  BY <1>1 DEF SkipAt
<1> QED BY <1>2, SkipIs

LEMMA SkipsComment ==
  ASSUME NEW T \in Seq(Classes), NEW i \in 1..Len(T), i < Len(T), T[i] = "C_STAR", T[i + 1] = "C_STAR",
         NEW a, NEW b, FirstStars(T, i, a, b)
  PROVE  SkipBlanks(T, i) = SkipBlanks(T, b + 1)
<1>1. Len(T) \in Nat /\ i \in 1..(Len(T) + 1) /\ ~(i > Len(T)) /\ i \in Nat
  BY LenProperties
<1>2. SecondStar(Stars(T, i)) = b /\ Closed(T, i)
  BY <1>1, TwoStars, MarkIs DEF Closed
<1>3. SkipBlanks(T, i) = SkipAt(T, SkipOf(T), i) /\ SkipBlanks(T, b + 1) = SkipOf(T)[b + 1]
  BY <1>1, SkipIs
<1>4. SkipAt(T, SkipOf(T), i) = SkipOf(T)[b + 1]
  BY <1>1, <1>2 DEF SkipAt
<1> QED BY <1>3, <1>4

-----------------------------------------------------------------------------
(* Nothing is skipped but blanks and comments. *)

\* In a comment begun at f: no star yet in it, or one.
InComment(T, f, p, starred) ==
  /\ f \in 1..(p - 2) /\ T[f] = "C_STAR" /\ T[f + 1] = "C_STAR"
  /\ IF starred THEN \E a \in (f + 2)..(p - 1) :
                       T[a] = "C_STAR" /\ \A k \in (f + 2)..(p - 1) : T[k] = "C_STAR" => k = a
     ELSE \A k \in (f + 2)..(p - 1) : T[k] # "C_STAR"

\* What is between the tokens delivered, the lexeme begun and the place p of
\* the automaton; last is the first place after the tokens.
TileAt(T, st, f, p, last) ==
  /\ last \in 1..p
  /\ st = "S_START" => SkipBlanks(T, last) = SkipBlanks(T, p)
  /\ st \in {"S_STAR", "S_STAR2", "S_STAR3"} => SkipBlanks(T, last) = SkipBlanks(T, f)
  /\ st = "S_STAR2" => InComment(T, f, p, FALSE)
  /\ st = "S_STAR3" => InComment(T, f, p, TRUE)
  /\ st \notin EmptyStates \cup {"S_STAR"} => SkipBlanks(T, last) = f

Last == IF Len(out) = 0 THEN 1 ELSE out[Len(out)].to + 1
TileInv == Running => TileAt(text, s, from, Pos, Last)

LEMMA NoComment ==
  ASSUME NEW T \in Seq(Classes), NEW i \in 1..Len(T), T[i] # "C_STAR" \/ (i < Len(T) /\ T[i + 1] # "C_STAR")
  PROVE  ~Closed(T, i)
BY MarkIs DEF Closed

LEMMA TileAdd ==
  ASSUME NEW T \in Seq(Classes), NEW p \in 1..Len(T), NEW st, NEW next, NEW f, NEW g, NEW last,
         IF st = "S_START" THEN AddsFromStart(T[p], next) /\ g = p ELSE Adds(st, T[p], next) /\ g = f,
         TileAt(T, st, f, p, last)
  PROVE  TileAt(T, next, g, p + 1, last)
<1>1. Len(T) \in Nat /\ p \in Nat
  BY LenProperties
<1>2. last \in 1..(p + 1)
  BY <1>1 DEF TileAt
<1>3. CASE st = "S_START"
  <2>1. SkipBlanks(T, last) = SkipBlanks(T, p) /\ g = p
    BY <1>3 DEF TileAt
  <2>2. next \notin EmptyStates /\ T[p] \notin {"C_WS", "C_NL"} /\ (next # "S_STAR" => T[p] # "C_STAR")
    BY <1>3 DEF AddsFromStart, EmptyStates, IdStart
  <2>3. next # "S_STAR" => SkipBlanks(T, p) = p
    <3>1. ASSUME next # "S_STAR" PROVE SkipBlanks(T, p) = p
      <4>1. p \in 1..(Len(T) + 1) /\ ~Closed(T, p)
        BY <1>1, <2>2, <3>1, NoComment
      <4> QED BY <2>2, <4>1, SkipsNone
    <3> QED BY <3>1
  <2> QED BY <1>2, <2>1, <2>2, <2>3 DEF TileAt, EmptyStates
<1>4. CASE st # "S_START"
  <2>1. st \notin EmptyStates \cup {"S_STAR"} /\ next \notin EmptyStates \cup {"S_STAR"} /\ g = f
    BY <1>4 DEF Adds, EmptyStates
  <2> QED BY <1>2, <2>1 DEF TileAt, EmptyStates
<1> QED BY <1>3, <1>4

LEMMA TileBlank ==
  ASSUME NEW T \in Seq(Classes), NEW p \in 1..Len(T), NEW st, NEW next, NEW f \in Int, NEW last,
         NEW a \in {"A_IGN", "A_NL", "A_CLR"}, Other(st, T[p], next, a), TileAt(T, st, f, p, last),
         st = "S_STAR" => f \in Nat \ {0} /\ AllAt(T, f, p, 1, "C_STAR")
  PROVE  TileAt(T, next, f, p + 1, last)
<1>1. Len(T) \in Nat /\ p \in Nat
  BY LenProperties
<1>2. last \in 1..(p + 1)
  BY <1>1 DEF TileAt
<1>3. CASE st = "S_START"
  <2>1. T[p] \in {"C_WS", "C_NL"} /\ next = "S_START"
    BY <1>3 DEF Other
  <2>2. SkipBlanks(T, p) = SkipBlanks(T, p + 1)
    BY <2>1, SkipsBlank
  <2> QED BY <1>2, <1>3, <2>1, <2>2 DEF TileAt, EmptyStates
<1>4. CASE st = "S_STAR"
  <2>1. next = "S_STAR2" /\ T[p] = "C_STAR"
    BY <1>4 DEF Other, EmptyStates
  <2>2. p = f + 1 /\ T[f] = "C_STAR" /\ f \in Nat \ {0}
    BY <1>4 DEF AllAt
  <2>3. InComment(T, f, p + 1, FALSE)
    BY <1>1, <2>1, <2>2 DEF InComment
  <2>4. SkipBlanks(T, last) = SkipBlanks(T, f)
    BY <1>4 DEF TileAt
  <2> QED BY <1>2, <2>1, <2>3, <2>4 DEF TileAt, EmptyStates
<1>5. CASE st = "S_STAR2"
  <2>1. InComment(T, f, p, FALSE) /\ SkipBlanks(T, last) = SkipBlanks(T, f)
    BY <1>5 DEF TileAt
  <2>2. next = (IF T[p] = "C_STAR" THEN "S_STAR3" ELSE "S_STAR2")
    BY <1>5 DEF Other
  <2>3. InComment(T, f, p + 1, T[p] = "C_STAR")
    <3>1. CASE T[p] = "C_STAR"
      BY SMTT(30), <1>1, <2>1, <3>1 DEF InComment
    <3>2. CASE T[p] # "C_STAR"
      BY <1>1, <2>1, <3>2 DEF InComment
    <3> QED BY <3>1, <3>2
  <2> QED BY <1>2, <2>1, <2>2, <2>3 DEF TileAt, EmptyStates
<1>6. CASE st = "S_STAR3"
  <2>1. InComment(T, f, p, TRUE) /\ SkipBlanks(T, last) = SkipBlanks(T, f)
    BY <1>6 DEF TileAt
  <2>2. next = (IF T[p] = "C_STAR" THEN "S_START" ELSE "S_STAR3")
    BY <1>6 DEF Other
  <2>3. CASE T[p] # "C_STAR"
    <3>1. InComment(T, f, p + 1, TRUE)
      BY <1>1, <2>1, <2>3 DEF InComment
    <3> QED BY <1>2, <2>1, <2>2, <2>3, <3>1 DEF TileAt, EmptyStates
  <2>4. CASE T[p] = "C_STAR"
    <3>1. PICK b \in (f + 2)..(p - 1) : T[b] = "C_STAR" /\ \A k \in (f + 2)..(p - 1) : T[k] = "C_STAR" => k = b
      BY <2>1 DEF InComment
    <3>2. f \in 1..Len(T) /\ f < Len(T) /\ T[f] = "C_STAR" /\ T[f + 1] = "C_STAR"
      BY <1>1, <2>1 DEF InComment
    <3>3. FirstStars(T, f, b, p)
      BY <1>1, <2>4, <3>1, <3>2 DEF Stars, FirstStars
    <3>4. SkipBlanks(T, f) = SkipBlanks(T, p + 1)
      BY <3>2, <3>3, SkipsComment
    <3> QED BY <1>2, <2>1, <2>2, <2>4, <3>4 DEF TileAt, EmptyStates
  <2> QED BY <2>3, <2>4
<1> QED BY <1>3, <1>4, <1>5, <1>6 DEF Other, EmptyStates

LEMMA QuietTiles ==
  ASSUME TypeOK, SizeInv, ScanInv, TileInv, NEW next \in States,
         AddChar(next) \/ Ignore(next) \/ NewLine(next) \/ ClearLexeme(next)
  PROVE  TileInv'
<1>1. PICK action : Quiet(action, next)
                    /\ \/ action = "A_ADD" /\ AddChar(next)
                       \/ action = "A_IGN" /\ Ignore(next)
                       \/ action = "A_NL" /\ NewLine(next)
                       \/ action = "A_CLR" /\ ClearLexeme(next)
  BY DEF AddChar, Ignore, NewLine, ClearLexeme
<1>2. ReadInv /\ WordInv
  BY DEF ScanInv
<1>3. Takes(action, next) /\ Pos' = Pos + 1 /\ out' = out
  BY <1>1, <1>2, QuietTakes
<1>4. /\ Running /\ Pos \in 1..Len(text) /\ text' = text /\ s' = next
      /\ <<s, text[Pos], next, action>> \in precompute_dfa /\ Other(s, text[Pos], next, action)
  BY <1>3, TakesOther DEF Takes
<1>5. PICK T, p, f, g, last : T = text /\ p = Pos /\ f = from /\ g = from' /\ last = Last
  OBVIOUS
<1>6. T \in Seq(Classes) /\ p \in 1..Len(T) /\ TileAt(T, s, f, p, last) /\ f \in Int
  BY <1>4, <1>5, TextTyped, SizesOf DEF TileInv
<1>7. TileAt(T, next, g, p + 1, last)
  <2>1. CASE action = "A_ADD"
    <3>1. AddChar(next) /\ TextPos = Pos
      BY <1>1, <1>2, <2>1, CharacterIs
    <3>2. IF s = "S_START" THEN AddsFromStart(T[p], next) ELSE Adds(s, T[p], next)
      BY <1>4, <1>5, <2>1, AddEdges
    <3>3. g = IF lexeme = << >> THEN p ELSE f
      BY <1>5, <3>1 DEF AddChar
    <3>4. s # "S_START" => s \notin EmptyStates
      BY <3>2 DEF Adds, EmptyStates
    <3>5. g = IF s = "S_START" THEN p ELSE f
      BY <3>3, <3>4, SizesOf DEF EmptyStates
    <3> QED BY <1>6, <3>2, <3>5, TileAdd
  <2>2. CASE action # "A_ADD"
    <3>1. action \in {"A_IGN", "A_NL", "A_CLR"} /\ g = f
      BY <1>1, <1>5, <2>2 DEF Ignore, NewLine, ClearLexeme
    <3>2. s = "S_STAR" => f \in Nat \ {0} /\ AllAt(T, f, p, 1, "C_STAR")
      BY <1>2, <1>4, <1>5, <1>6 DEF WordInv, ShapeInv, Shape, LexemeInv, LexemeAt, EmptyStates
    <3>3. Other(s, T[p], next, action)
      BY <1>4, <1>5
    <3> QED BY <1>6, <3>1, <3>2, <3>3, TileBlank
  <2> QED BY <2>1, <2>2
<1>8. Last' = last
  BY <1>3, <1>5 DEF Last
<1>9. text' = T /\ s' = next /\ from' = g /\ Pos' = p + 1
  BY <1>3, <1>4, <1>5
<1> QED BY <1>7, <1>8, <1>9, Zenon DEF TileInv

\* Every token begins where the one before it ends, blanks and comments apart,
\* and only the last can be the end of the file.
Chain(T, n, o) == \A i \in 1..n :
  o[i].tid # "T_EOF" => o[i].from = SkipBlanks(T, IF i = 1 THEN 1 ELSE o[i - 1].to + 1)
ChainInv == Chain(text, Len(out), out)
EofInv == \A i \in 1..Len(out) : i < Len(out) => out[i].tid # "T_EOF"

LEMMA Appended ==
  ASSUME NEW T, NEW n \in Nat, NEW o, NEW q, NEW t,
         \A i \in 1..n : q[i] = o[i], q[n + 1] = t,
         Chain(T, n, o), t.tid # "T_EOF" => t.from = SkipBlanks(T, IF n = 0 THEN 1 ELSE o[n].to + 1)
  PROVE  Chain(T, n + 1, q)
<1> SUFFICES ASSUME NEW i \in 1..(n + 1)
             PROVE  q[i].tid # "T_EOF" => q[i].from = SkipBlanks(T, IF i = 1 THEN 1 ELSE q[i - 1].to + 1)
  BY DEF Chain
<1>1. CASE i \in 1..n
  <2>1. q[i] = o[i] /\ (i # 1 => q[i - 1] = o[i - 1])
    BY <1>1
  <2>2. (IF i = 1 THEN 1 ELSE q[i - 1].to + 1) = (IF i = 1 THEN 1 ELSE o[i - 1].to + 1)
    BY <2>1
  <2>3. o[i].tid # "T_EOF" => o[i].from = SkipBlanks(T, IF i = 1 THEN 1 ELSE o[i - 1].to + 1)
    BY <1>1 DEF Chain
  <2> QED BY <2>1, <2>2, <2>3, Zenon
<1>2. CASE i = n + 1
  <2>1. q[i] = t /\ (n # 0 => q[i - 1] = o[n]) /\ (i = 1 <=> n = 0)
    <3>1. i - 1 = n /\ (i = 1 <=> n = 0) /\ (n # 0 => n \in 1..n)
      BY <1>2
    <3> QED BY <1>2, <3>1
  <2>2. (IF i = 1 THEN 1 ELSE q[i - 1].to + 1) = (IF n = 0 THEN 1 ELSE o[n].to + 1)
    BY <2>1
  <2> QED BY <2>1, <2>2, Zenon
<1> QED BY <1>1, <1>2

LEMMA Chained ==
  ASSUME TypeOK, Running, out' \in Seq(Token), text' = text, ChainInv, EofInv,
         NEW action, NEW predicted \in Tids \ {"T_EOF"}, NEW lex, NEW first, NEW last \in Int,
         Deliver(action, predicted, lex, first, last),
         first = SkipBlanks(text, Last)
  PROVE  ChainInv' /\ EofInv' /\ Last' = last + 1
<1>1. PICK t : /\ Len(out) \in Nat /\ Len(out') = Len(out) + 1 /\ out'[Len(out) + 1] = t
               /\ \A i \in 1..Len(out) : out'[i] = out[i]
               /\ t.from = first /\ t.to = last /\ t.tid # "T_EOF"
  BY Delivered
<1>2. PICK n, o, q, T : n = Len(out) /\ o = out /\ q = out' /\ T = text
  OBVIOUS
<1>3. /\ n \in Nat /\ Len(q) = n + 1 /\ q[n + 1] = t /\ \A i \in 1..n : q[i] = o[i]
  BY <1>1, <1>2
<1>4. Chain(T, n + 1, q)
  <2>1. Chain(T, n, o)
    BY <1>2, Zenon DEF ChainInv
  <2>2. Last = IF n = 0 THEN 1 ELSE o[n].to + 1
    BY <1>2 DEF Last
  <2>3. t.from = SkipBlanks(T, IF n = 0 THEN 1 ELSE o[n].to + 1)
    BY <1>1, <1>2, <2>2, Zenon
  <2> QED BY <1>3, <2>1, <2>3, Appended
<1>5. ChainInv'
  BY <1>2, <1>3, <1>4, Zenon DEF ChainInv
<1>6. \A i \in 1..(n + 1) : i < n + 1 => q[i].tid # "T_EOF"
  <2>1. ASSUME NEW i \in 1..n PROVE o[i].tid # "T_EOF"
    <3>1. CASE i < n
      BY <1>2, <3>1 DEF EofInv
    <3>2. CASE i = n
      <4>1. out # << >>
        BY <1>2, <3>2, EmptySeq
      <4> QED BY <1>2, <3>2, <4>1 DEF Running
    <3> QED BY <1>3, <3>1, <3>2
  <2> QED BY <1>3, <2>1
<1>7. EofInv'
  BY <1>2, <1>3, <1>6, Zenon DEF EofInv
<1>8. Last' = last + 1
  <2>1. n + 1 # 0
    BY <1>3
  <2>2. Last' = q[n + 1].to + 1
    BY <1>2, <1>3, <2>1, Zenon DEF Last
  <2> QED BY <1>1, <1>3, <2>2
<1> QED BY <1>5, <1>7, <1>8

LEMMA BeforeTiles ==
  ASSUME TypeOK, SizeInv, ScanInv, ChainInv, EofInv, TileInv, out' \in Seq(Token),
         NEW next, NEW action, TokenBefore(action, next)
  PROVE  ChainInv' /\ EofInv' /\ TileInv'
<1> DEFINE predicted == IF action = "A_TOKS" THEN predict_token_from_state(s) ELSE "T_ERR"
<1>1. ReadInv /\ WordInv
  BY DEF ScanInv
<1>2. /\ Deliver(action, predicted, lexeme, from, Pos - 1) /\ Running /\ Pos \in 1..Len(text) /\ s \in States
      /\ s \notin EmptyStates /\ ~(s = "S_STAR" /\ text[Pos] = "C_STAR") /\ from \in 1..(Pos - 1)
      /\ Pos' = Pos /\ s' = "S_START" /\ text' = text
  BY <1>1, BeforeFacts
<1>3. predicted \in Tids \ {"T_EOF"}
  BY <1>2, Predicted
<1> HIDE DEF predicted
<1>4. PICK T, p, f, last : T = text /\ p = Pos /\ f = from /\ last = Last
  OBVIOUS
<1>5. T \in Seq(Classes) /\ Len(T) \in Nat /\ p \in 1..Len(T) /\ TileAt(T, s, f, p, last) /\ f \in 1..(p - 1)
  BY <1>2, <1>4, TextTyped DEF TileInv
<1>6. SkipBlanks(T, last) = f
  <2>1. CASE s # "S_STAR"
    BY <1>2, <1>5, <2>1 DEF TileAt
  <2>2. CASE s = "S_STAR"
    <3>1. p = f + 1 /\ T[f] = "C_STAR" /\ T[p] # "C_STAR"
      BY <1>1, <1>2, <1>4, <1>5, <2>2 DEF WordInv, ShapeInv, Shape, AllAt
    <3>2. f \in 1..Len(T) /\ f < Len(T) /\ T[f + 1] # "C_STAR" /\ f \in 1..(Len(T) + 1)
      BY <1>5, <3>1
    <3>3. ~Closed(T, f)
      BY <1>5, <3>2, NoComment
    <3>4. SkipBlanks(T, f) = f
      BY <1>5, <3>1, <3>2, <3>3, SkipsNone
    <3> QED BY <1>5, <2>2, <3>4 DEF TileAt
  <2> QED BY <2>1, <2>2
<1>7. p - 1 \in Int
  BY <1>5
<1>8. ChainInv' /\ EofInv' /\ Last' = p - 1 + 1
  <2>1. from = SkipBlanks(text, Last) /\ Deliver(action, predicted, lexeme, from, p - 1)
    BY <1>2, <1>4, <1>6
  <2> QED BY <1>2, <1>3, <1>7, <2>1, Chained
<1>9. PICK g : g = from'
  OBVIOUS
<1>10. TileAt(T, "S_START", g, p, p)
  BY <1>5 DEF TileAt, EmptyStates
<1>11. p - 1 + 1 = p
  BY <1>5
<1>12. TileInv'
  BY <1>2, <1>4, <1>8, <1>9, <1>10, <1>11, Zenon DEF TileInv
<1> QED BY <1>8, <1>12

LEMMA WithTiles ==
  ASSUME TypeOK, SizeInv, ScanInv, ChainInv, EofInv, TileInv, out' \in Seq(Token),
         NEW next, TokenWith(next)
  PROVE  ChainInv' /\ EofInv' /\ TileInv'
<1>1. ReadInv /\ WordInv
  BY DEF ScanInv
<1>2. PICK lex, first :
        /\ Deliver("A_TOKF", predict_token_from_char(lex[1]), lex, first, Pos)
        /\ EndedBy(text, s, first, Pos, lex) /\ (s # "S_START" => first = from)
        /\ Running /\ Pos \in 1..Len(text) /\ Pos' = Pos + 1 /\ s' = "S_START" /\ text' = text
  BY <1>1, WithFacts
<1>3. PICK predicted : predicted = predict_token_from_char(lex[1])
  OBVIOUS
<1>4. PICK T, p, last : T = text /\ p = Pos /\ last = Last
  OBVIOUS
<1>5. T \in Seq(Classes) /\ Len(T) \in Nat /\ p \in 1..Len(T) /\ TileAt(T, s, from, p, last)
  BY <1>2, <1>4, TextTyped DEF TileInv
<1>6. SkipBlanks(T, last) = first
  <2>1. CASE s # "S_START"
    <3>1. s \notin EmptyStates \cup {"S_STAR"} /\ first = from
      BY <1>2, <2>1 DEF EndedBy, EmptyStates
    <3> QED BY <1>5, <3>1 DEF TileAt
  <2>2. CASE s = "S_START"
    <3>1. first = p /\ T[p] \notin {"C_WS", "C_NL", "C_STAR"}
      BY <1>2, <1>4, <2>2 DEF EndedBy, StartAdds
    <3>2. ~Closed(T, p) /\ p \in 1..(Len(T) + 1)
      BY <1>5, <3>1, NoComment
    <3>3. SkipBlanks(T, p) = p
      BY <1>5, <3>1, <3>2, SkipsNone
    <3> QED BY <1>5, <2>2, <3>1, <3>3 DEF TileAt
  <2> QED BY <2>1, <2>2
<1>7. predicted \in Tids \ {"T_EOF"} /\ p \in Int /\ Deliver("A_TOKF", predicted, lex, first, p)
  BY <1>2, <1>3, <1>4, <1>5, Predicted
<1>8. ChainInv' /\ EofInv' /\ Last' = p + 1
  <2>1. first = SkipBlanks(text, Last)
    BY <1>4, <1>6
  <2> QED BY <1>2, <1>7, <2>1, Chained
<1>9. PICK g : g = from'
  OBVIOUS
<1>10. TileAt(T, "S_START", g, p + 1, p + 1)
  BY <1>5 DEF TileAt, EmptyStates
<1>11. TileInv'
  BY <1>2, <1>4, <1>8, <1>9, <1>10, Zenon DEF TileInv
<1> QED BY <1>8, <1>11

LEMMA RangeTiles ==
  ASSUME TypeOK, SizeInv, ScanInv, ChainInv, EofInv, TileInv, out' \in Seq(Token),
         NEW next, NumberBeforeRange(next)
  PROVE  ChainInv' /\ EofInv' /\ TileInv'
<1>1. ReadInv /\ WordInv
  BY DEF ScanInv
<1>2. /\ Running /\ Pos \in 1..Len(text) /\ s = "S_I2" /\ next = "S_DOT2" /\ Pos' = Pos + 1
      /\ text[Pos - 1] = "C_DOT" /\ from \in 1..(Pos - 2)
      /\ text' = text /\ s' = next /\ from' = Pos - 1
  BY <1>1, BeforeRange
<1>3. PICK lex : Deliver("A_TOKN", "T_NUM", lex, from, Pos - 2)
  BY <1>1, RangeFacts
<1>4. PICK T, p, f, last : T = text /\ p = Pos /\ f = from /\ last = Last
  OBVIOUS
<1>5. T \in Seq(Classes) /\ Len(T) \in Nat /\ p \in 1..Len(T) /\ TileAt(T, s, f, p, last) /\ f \in 1..(p - 2)
  BY <1>2, <1>4, TextTyped DEF TileInv
<1>6. f = SkipBlanks(T, last)
  BY <1>2, <1>5 DEF TileAt, EmptyStates
<1>7. "T_NUM" \in Tids \ {"T_EOF"} /\ p - 2 \in Int
  BY <1>5, Predicted
<1>8. ChainInv' /\ EofInv' /\ Last' = p - 2 + 1
  <2>1. from = SkipBlanks(text, Last) /\ Deliver("A_TOKN", "T_NUM", lex, from, p - 2)
    BY <1>3, <1>4, <1>6
  <2> QED BY <1>2, <1>7, <2>1, Chained
<1>9. SkipBlanks(T, p - 1) = p - 1
  <2>1. p - 1 \in 1..Len(T) /\ p - 1 \in 1..(Len(T) + 1) /\ T[p - 1] = "C_DOT"
    BY <1>2, <1>4, <1>5
  <2>2. ~Closed(T, p - 1)
    BY <1>5, <2>1, NoComment
  <2> QED BY <1>5, <2>1, <2>2, SkipsNone
<1>10. TileAt(T, "S_DOT2", p - 1, p + 1, p - 1)
  BY <1>5, <1>9 DEF TileAt, EmptyStates
<1>11. p - 2 + 1 = p - 1
  BY <1>5
<1>12. TileInv'
  BY <1>2, <1>4, <1>8, <1>10, <1>11, Zenon DEF TileInv
<1> QED BY <1>8, <1>12

-----------------------------------------------------------------------------
(* Words: what the states of the automaton say of a word read, in terms of *)
(* the grammar of words.                                                   *)

LEMMA FromIs ==
  ASSUME NEW u \in Seq(Classes), NEW i \in Nat \ {0}, i <= Len(u) + 1
  PROVE  /\ From(u, i) \in Seq(Classes) /\ Len(From(u, i)) = (Len(u) + 1) - i
         /\ \A k \in 1..((Len(u) + 1) - i) : From(u, i)[k] = u[i + k - 1]
<1>1. Len(u) \in Nat /\ Len(u) <= Len(u)
  BY LenProperties
<1>2. /\ SubSeq(u, i, Len(u)) \in Seq(Classes) /\ Len(SubSeq(u, i, Len(u))) = (Len(u) + 1) - i
      /\ \A k \in 1..((Len(u) + 1) - i) : SubSeq(u, i, Len(u))[k] = u[i + k - 1]
  BY <1>1, SlicesOf
<1> QED BY <1>2 DEF From

LEMMA DigitsIs ==
  ASSUME NEW u \in Seq(Classes)
  PROVE  Digits(u) <=> DigitsAt(u, 1, Len(u))
<1>1. DOMAIN u = 1..Len(u) /\ Len(u) \in Nat /\ (u = << >> <=> Len(u) = 0)
  BY LenProperties, EmptySeq
<1>2. u # << >> <=> 1 <= Len(u)
  BY <1>1
<1> QED BY <1>1, <1>2 DEF Digits, DigitsAt

LEMMA DigitsFrom ==
  ASSUME NEW u \in Seq(Classes), NEW i \in Nat \ {0}, i <= Len(u) + 1
  PROVE  Digits(From(u, i)) <=> DigitsAt(u, i, Len(u))
<1>1. PICK v, n : v = From(u, i) /\ n = Len(u)
  OBVIOUS
<1>2. n \in Nat
  BY <1>1, LenProperties
<1>3. v \in Seq(Classes) /\ Len(v) = (n + 1) - i /\ \A k \in 1..((n + 1) - i) : v[k] = u[i + k - 1]
  BY <1>1, FromIs
<1>4. Digits(v) <=> DigitsAt(v, 1, (n + 1) - i)
  BY <1>3, DigitsIs
<1>5. DigitsAt(u, i, n) => DigitsAt(v, 1, (n + 1) - i)
  <2>1. \A k \in 1..((n + 1) - i) : i + k - 1 \in i..n
    BY <1>2
  <2>2. i <= n => 1 <= (n + 1) - i
    BY <1>2
  <2> QED BY <1>3, <2>1, <2>2 DEF DigitsAt
<1>6. DigitsAt(v, 1, (n + 1) - i) => DigitsAt(u, i, n)
  <2>1. \A j \in i..n : (j + 1) - i \in 1..((n + 1) - i) /\ i + ((j + 1) - i) - 1 = j
    BY <1>2
  <2>2. 1 <= (n + 1) - i => i <= n
    BY <1>2
  <2>3. \A j \in i..n : v[(j + 1) - i] = u[j]
    BY <1>3, <2>1
  <2> QED BY <2>1, <2>2, <2>3 DEF DigitsAt
<1> QED BY <1>1, <1>4, <1>5, <1>6

LEMMA DigitsTo ==
  ASSUME NEW u \in Seq(Classes), NEW j \in Nat, j <= Len(u)
  PROVE  Digits(SubSeq(u, 1, j)) <=> DigitsAt(u, 1, j)
<1>1. PICK v : v = SubSeq(u, 1, j)
  OBVIOUS
<1>2. 1 \in Nat \ {0} /\ 1 <= j + 1 /\ (j + 1) - 1 = j
  OBVIOUS
<1>3. v \in Seq(Classes) /\ Len(v) = j /\ \A k \in 1..j : v[k] = u[k]
  <2>1. SubSeq(u, 1, j) \in Seq(Classes) /\ Len(SubSeq(u, 1, j)) = (j + 1) - 1
        /\ \A k \in 1..((j + 1) - 1) : SubSeq(u, 1, j)[k] = u[1 + k - 1]
    BY <1>2, SlicesOf
  <2>2. v \in Seq(Classes) /\ Len(v) = j /\ \A k \in 1..j : v[k] = u[1 + k - 1]
    BY <1>1, <1>2, <2>1, Zenon
  <2>3. \A k \in 1..j : 1 + k - 1 = k
    OBVIOUS
  <2> QED BY <2>2, <2>3, Zenon
<1>4. Digits(v) <=> DigitsAt(v, 1, j)
  BY <1>3, DigitsIs
<1>5. DigitsAt(v, 1, j) <=> DigitsAt(u, 1, j)
  BY <1>3 DEF DigitsAt
<1> QED BY <1>1, <1>4, <1>5

LEMMA ExponentFrom ==
  ASSUME NEW u \in Seq(Classes), NEW e \in Nat \ {0}, e <= Len(u) + 1
  PROVE  Exponent(From(u, e)) <=> e <= Len(u) /\ ExponentAt(u, e, Len(u))
<1>1. PICK v, n : v = From(u, e) /\ n = Len(u)
  OBVIOUS
<1>2. n \in Nat
  BY <1>1, LenProperties
<1>3. v \in Seq(Classes) /\ Len(v) = (n + 1) - e /\ \A k \in 1..((n + 1) - e) : v[k] = u[e + k - 1]
  BY <1>1, FromIs
<1>4. v # << >> <=> e <= n
  BY <1>1, <1>2, <1>3, EmptySeq
<1>5. CASE e <= n
  <2>1. v[1] = u[e]
    BY <1>2, <1>3, <1>5
  <2>2. e + 1 <= n => v[2] = u[e + 1]
    <3>1. e + 1 <= n => 2 \in 1..((n + 1) - e) /\ e + 2 - 1 = e + 1
      BY <1>2
    <3> QED BY <1>3, <3>1
  <2>3. Digits(From(v, 2)) <=> DigitsAt(v, 2, Len(v))
    BY <1>2, <1>3, <1>5, DigitsFrom
  <2>4. Len(v) > 1 => (Digits(From(v, 3)) <=> DigitsAt(v, 3, Len(v)))
    BY <1>2, <1>3, <1>5, DigitsFrom
  <2>5. \A a \in {1, 2} : DigitsAt(v, a + 1, Len(v)) <=> DigitsAt(u, e + a, n)
    <3> TAKE a \in {1, 2}
    <3>1. PICK m : m = (n + 1) - e /\ m \in Nat /\ m = Len(v)
      BY <1>2, <1>3, <1>5
    <3>2. a + 1 <= m <=> e + a <= n
      BY <1>2, <3>1
    <3>3. \A k \in (a + 1)..m : k \in 1..m /\ e + k - 1 \in (e + a)..n
      BY <1>2, <3>1
    <3>4. \A j \in (e + a)..n : (j + 1) - e \in (a + 1)..m /\ e + ((j + 1) - e) - 1 = j
      BY <1>2, <3>1
    <3>5. \A k \in 1..m : v[k] = u[e + k - 1]
      BY <1>3, <3>1
    <3>6. DigitsAt(u, e + a, n) => DigitsAt(v, a + 1, m)
      BY <3>2, <3>3, <3>5 DEF DigitsAt
    <3>7. DigitsAt(v, a + 1, m) => DigitsAt(u, e + a, n)
      <4>1. \A j \in (e + a)..n : v[(j + 1) - e] = u[j]
        BY <3>3, <3>4, <3>5
      <4> QED BY <3>2, <3>4, <4>1 DEF DigitsAt
    <3> QED BY <3>1, <3>6, <3>7
  <2>6. DigitsAt(v, 2, Len(v)) <=> DigitsAt(u, e + 1, n)
    BY <2>5
  <2>7. DigitsAt(v, 3, Len(v)) <=> DigitsAt(u, e + 2, n)
    BY <2>5
  <2>8. Len(v) > 1 <=> e + 1 <= n
    BY <1>2, <1>3
  <2>9. DigitsAt(u, e + 2, n) => e + 1 <= n
    BY <1>2 DEF DigitsAt
  <2> QED BY <1>1, <1>4, <1>5, <2>1, <2>2, <2>3, <2>4, <2>6, <2>7, <2>8, <2>9 DEF Exponent, ExponentAt
<1> QED BY <1>1, <1>4, <1>5 DEF Exponent

LEMMA FromFrom ==
  ASSUME NEW u \in Seq(Classes), NEW a \in Nat \ {0}, NEW b \in Nat, a + b <= Len(u) + 1
  PROVE  From(From(u, a), b + 1) = From(u, a + b)
<1>1. PICK n, v, w, x : n = Len(u) /\ v = From(u, a) /\ w = From(v, b + 1) /\ x = From(u, a + b)
  OBVIOUS
<1>2. n \in Nat /\ a <= n + 1 /\ a + b \in Nat \ {0} /\ b + 1 \in Nat \ {0} /\ a + b <= n + 1
  BY <1>1, LenProperties
<1>3. v \in Seq(Classes) /\ Len(v) = (n + 1) - a /\ \A k \in 1..((n + 1) - a) : v[k] = u[a + k - 1]
  BY <1>1, <1>2, FromIs
<1>4. PICK m : m = Len(v)
  OBVIOUS
<1>5. m = (n + 1) - a /\ b + 1 <= m + 1
  BY <1>2, <1>3, <1>4
<1>6. w \in Seq(Classes) /\ Len(w) = (m + 1) - (b + 1) /\ \A k \in 1..((m + 1) - (b + 1)) : w[k] = v[b + 1 + k - 1]
  <2>1. PICK c : c = b + 1
    OBVIOUS
  <2>2. c \in Nat \ {0} /\ c <= Len(v) + 1
    BY <1>2, <1>4, <1>5, <2>1
  <2>3. /\ From(v, c) \in Seq(Classes) /\ Len(From(v, c)) = (Len(v) + 1) - c
        /\ \A k \in 1..((Len(v) + 1) - c) : From(v, c)[k] = v[c + k - 1]
    BY <1>3, <2>2, FromIs
  <2> QED BY <1>1, <1>4, <2>1, <2>3, Zenon
<1>7. x \in Seq(Classes) /\ Len(x) = (n + 1) - (a + b) /\ \A k \in 1..((n + 1) - (a + b)) : x[k] = u[a + b + k - 1]
  BY <1>1, <1>2, FromIs
<1>8. (m + 1) - (b + 1) = (n + 1) - (a + b)
  BY <1>2, <1>5
<1>9. ASSUME NEW k \in 1..((n + 1) - (a + b)) PROVE w[k] = x[k]
  <2>1. b + 1 + k - 1 = b + k /\ b + k \in 1..((n + 1) - a) /\ a + (b + k) - 1 = a + b + k - 1
    BY <1>2
  <2>2. w[k] = v[b + k]
    BY <1>6, <1>8, <2>1
  <2>3. v[b + k] = u[a + b + k - 1]
    BY <1>3, <2>1
  <2> QED BY <1>7, <2>2, <2>3
<1>10. w = x
  BY <1>6, <1>7, <1>8, <1>9, SeqEqual
<1> QED BY <1>1, <1>10

\* digits . digits at 1 .. j of u, and a mantissa with an exponent.
FractionAt(u, j) == \E d \in 1..j : DigitsAt(u, 1, d - 1) /\ u[d] = "C_DOT" /\ DigitsAt(u, d + 1, j)
ScientificAt(u, j) == \E e \in 1..j : Mantissa(u, 1, e - 1) /\ ExponentAt(u, e, j)

LEMMA RealIs ==
  ASSUME NEW u \in Seq(Classes)
  PROVE  RealNumber(u) <=> FractionAt(u, Len(u)) \/ ScientificAt(u, Len(u))
<1>1. PICK n : n = Len(u)
  OBVIOUS
<1>2. n \in Nat
  BY <1>1, LenProperties
\* the three forms of what follows the first i digits
<1> DEFINE Plain(i) == i + 1 <= n /\ ExponentAt(u, i + 1, n)
           Dotted(i) == i + 1 <= n /\ u[i + 1] = "C_DOT" /\ DigitsAt(u, i + 2, n)
           Both(i) == \E k \in 1..(n - i) : /\ u[i + 1] = "C_DOT" /\ i + k + 1 <= n /\ ExponentAt(u, i + k + 1, n)
                                             /\ \A j \in 2..k : u[i + j] = "C_DIG"
<1>3. ASSUME NEW i \in 1..n
      PROVE  LET rest == From(u, i + 1) IN
             /\ Exponent(rest) <=> Plain(i)
             /\ rest # << >> /\ rest[1] = "C_DOT" /\ Digits(From(rest, 2)) <=> Dotted(i)
             /\ (\E k \in 1..Len(rest) : /\ rest[1] = "C_DOT" /\ Exponent(From(rest, k + 1))
                                         /\ \A i2 \in 2..k : rest[i2] = "C_DIG") <=> Both(i)
  <2>1. PICK rest, m : rest = From(u, i + 1) /\ m = n - i
    OBVIOUS
  <2>2. i + 1 \in Nat \ {0} /\ i + 1 <= n + 1 /\ m \in Nat /\ (n + 1) - (i + 1) = m
    BY <1>2, <2>1
  <2>3. rest \in Seq(Classes) /\ Len(rest) = m /\ \A k \in 1..m : rest[k] = u[i + k]
    <3>1. /\ rest \in Seq(Classes) /\ Len(rest) = (n + 1) - (i + 1)
          /\ \A k \in 1..((n + 1) - (i + 1)) : rest[k] = u[i + 1 + k - 1]
      BY <1>1, <2>1, <2>2, FromIs
    <3>2. \A k \in 1..m : i + 1 + k - 1 = i + k
      BY <2>2
    <3> QED BY <2>2, <3>1, <3>2
  <2>4. Exponent(rest) <=> Plain(i)
    BY <1>1, <2>1, <2>2, ExponentFrom
  <2>5. rest # << >> <=> i + 1 <= n
    BY <1>2, <2>1, <2>3, EmptySeq
  <2>6. rest # << >> => (Digits(From(rest, 2)) <=> DigitsAt(u, i + 2, n))
    <3> SUFFICES ASSUME rest # << >> PROVE Digits(From(rest, 2)) <=> DigitsAt(u, i + 2, n)
      OBVIOUS
    <3>1. 1 \in Nat /\ i + 1 + 1 <= n + 1 /\ i + 1 + 1 = i + 2 /\ 1 + 1 = 2 /\ i + 2 \in Nat \ {0}
      BY <1>2, <2>5
    <3>2. From(From(u, i + 1), 1 + 1) = From(u, i + 1 + 1)
      BY <1>1, <2>2, <3>1, FromFrom
    <3>3. From(rest, 2) = From(u, i + 2)
      BY <2>1, <3>1, <3>2, Zenon
    <3>4. Digits(From(u, i + 2)) <=> DigitsAt(u, i + 2, n)
      BY <1>1, <3>1, DigitsFrom
    <3> QED BY <3>3, <3>4
  <2>7. rest # << >> => rest[1] = u[i + 1]
    BY <2>2, <2>1, <2>3, <2>5
  <2>8. ASSUME NEW k \in 1..m
        PROVE  /\ Exponent(From(rest, k + 1)) <=> i + k + 1 <= n /\ ExponentAt(u, i + k + 1, n)
               /\ (\A i2 \in 2..k : rest[i2] = "C_DIG") <=> (\A j \in 2..k : u[i + j] = "C_DIG")
               /\ rest[1] = u[i + 1]
    <3>1. k \in Nat /\ i + 1 + k <= n + 1 /\ i + 1 + k = i + k + 1 /\ i + k + 1 \in Nat \ {0}
      BY <1>2, <2>1, <2>2
    <3>2. From(From(u, i + 1), k + 1) = From(u, i + 1 + k)
      BY <1>1, <2>2, <3>1, FromFrom
    <3>3. From(rest, k + 1) = From(u, i + k + 1)
      BY <2>1, <3>1, <3>2, Zenon
    <3>4. Exponent(From(u, i + k + 1)) <=> i + k + 1 <= n /\ ExponentAt(u, i + k + 1, n)
      BY <1>1, <3>1, ExponentFrom
    <3>5. \A j \in 2..k : rest[j] = u[i + j]
      BY <2>2, <2>3
    <3>6. rest[1] = u[i + 1]
      BY <2>2, <2>3
    <3> QED BY <3>3, <3>4, <3>5, <3>6
  <2>9. (\E k \in 1..Len(rest) : /\ rest[1] = "C_DOT" /\ Exponent(From(rest, k + 1))
                                 /\ \A i2 \in 2..k : rest[i2] = "C_DIG") <=> Both(i)
    BY <2>1, <2>3, <2>8
  <2> QED BY <2>1, <2>4, <2>5, <2>6, <2>7, <2>9
<1>4. ASSUME NEW i \in 1..n PROVE Digits(SubSeq(u, 1, i)) <=> DigitsAt(u, 1, i)
  <2>1. i \in Nat /\ i <= Len(u)
    BY <1>1, <1>2
  <2> QED BY <2>1, DigitsTo
<1>5. RealNumber(u) <=> \E i \in 1..n : DigitsAt(u, 1, i) /\ (Plain(i) \/ Dotted(i) \/ Both(i))
  <2> HIDE DEF Plain, Dotted, Both
  <2> QED BY <1>1, <1>3, <1>4 DEF RealNumber
<1>6. ASSUME NEW i \in 1..n, DigitsAt(u, 1, i)
      PROVE  /\ Plain(i) => ScientificAt(u, n)
             /\ Dotted(i) => FractionAt(u, n)
             /\ Both(i) => ScientificAt(u, n)
  <2>1. ASSUME Plain(i) PROVE ScientificAt(u, n)
    <3>1. i + 1 \in 1..n /\ i + 1 - 1 = i
      BY <1>2, <2>1
    <3> QED BY <1>6, <2>1, <3>1 DEF ScientificAt, Mantissa
  <2>2. ASSUME Dotted(i) PROVE FractionAt(u, n)
    <3>1. i + 1 \in 1..n /\ i + 1 - 1 = i /\ i + 1 + 1 = i + 2
      BY <1>2, <2>2
    <3> QED BY <1>6, <2>2, <3>1 DEF FractionAt
  <2>3. ASSUME Both(i) PROVE ScientificAt(u, n)
    <3>1. PICK k \in 1..(n - i) : /\ u[i + 1] = "C_DOT" /\ i + k + 1 <= n /\ ExponentAt(u, i + k + 1, n)
                                   /\ \A j \in 2..k : u[i + j] = "C_DIG"
      BY <2>3
    <3>2. i + k + 1 \in 1..n /\ i + k + 1 - 1 = i + k /\ i + 1 \in 1..(i + k) /\ i + 1 - 1 = i
      BY <1>2, <3>1
    <3>3. \A j \in (i + 1 + 1)..(i + k) : u[j] = "C_DIG"
      <4> TAKE j \in (i + 1 + 1)..(i + k)
      <4>1. j - i \in 2..k /\ i + (j - i) = j
        BY <1>2, <3>1
      <4> QED BY <3>1, <4>1
    <3>4. Mantissa(u, 1, i + k)
      BY <1>6, <3>1, <3>2, <3>3 DEF Mantissa
    <3> QED BY <3>1, <3>2, <3>4 DEF ScientificAt
  <2> QED BY <2>1, <2>2, <2>3
<1>7. ASSUME FractionAt(u, n) PROVE \E i \in 1..n : DigitsAt(u, 1, i) /\ Dotted(i)
  <2>1. PICK d \in 1..n : DigitsAt(u, 1, d - 1) /\ u[d] = "C_DOT" /\ DigitsAt(u, d + 1, n)
    BY <1>7 DEF FractionAt
  <2>2. d - 1 \in 1..n /\ d - 1 + 1 = d /\ d - 1 + 2 = d + 1 /\ d <= n
    BY <1>2, <2>1 DEF DigitsAt
  <2> QED BY <2>1, <2>2
<1>8. ASSUME ScientificAt(u, n) PROVE \E i \in 1..n : DigitsAt(u, 1, i) /\ (Plain(i) \/ Both(i))
  <2>1. PICK e \in 1..n : Mantissa(u, 1, e - 1) /\ ExponentAt(u, e, n)
    BY <1>8 DEF ScientificAt
  <2>2. CASE DigitsAt(u, 1, e - 1)
    <3>1. e - 1 \in 1..n /\ e - 1 + 1 = e /\ e <= n
      BY <1>2, <2>2 DEF DigitsAt
    <3> QED BY <2>1, <2>2, <3>1
  <2>3. CASE \E d \in 1..(e - 1) : /\ DigitsAt(u, 1, d - 1) /\ u[d] = "C_DOT"
                                   /\ \A k \in (d + 1)..(e - 1) : u[k] = "C_DIG"
    <3>1. PICK d \in 1..(e - 1) : /\ DigitsAt(u, 1, d - 1) /\ u[d] = "C_DOT"
                                  /\ \A k \in (d + 1)..(e - 1) : u[k] = "C_DIG"
      BY <2>3
    <3>2. PICK i, k : i = d - 1 /\ k = e - d
      OBVIOUS
    <3>3. /\ i \in 1..n /\ k \in 1..(n - i) /\ i + 1 = d /\ i + k + 1 = e /\ e <= n
      BY <1>2, <3>1, <3>2 DEF DigitsAt
    <3>4. \A j \in 2..k : u[i + j] = "C_DIG"
      <4> TAKE j \in 2..k
      <4>1. i + j \in (d + 1)..(e - 1)
        BY <1>2, <3>2, <3>3
      <4> QED BY <3>1, <4>1
    <3>5. Both(i) /\ DigitsAt(u, 1, i)
      BY <2>1, <3>1, <3>2, <3>3, <3>4
    <3> QED BY <3>3, <3>5
  <2> QED BY <2>1, <2>2, <2>3 DEF Mantissa
<1> QED BY <1>1, <1>5, <1>6, <1>7, <1>8

LEMMA DigitsShift ==
  ASSUME NEW T, NEW g \in Nat, NEW n \in Nat, NEW w, \A i \in 1..n : w[i] = T[g + i],
         NEW a \in Nat \ {0}, NEW b \in Int, b <= n
  PROVE  DigitsAt(T, g + a, g + b) <=> DigitsAt(w, a, b)
<1>1. DigitsAt(T, g + a, g + b) => DigitsAt(w, a, b)
  <2>1. \A k \in a..b : k \in 1..n /\ g + k \in (g + a)..(g + b)
    OBVIOUS
  <2>2. g + a <= g + b => a <= b
    OBVIOUS
  <2> QED BY <2>1, <2>2 DEF DigitsAt
<1>2. DigitsAt(w, a, b) => DigitsAt(T, g + a, g + b)
  <2>1. \A j \in (g + a)..(g + b) : j - g \in a..b /\ g + (j - g) = j /\ j - g \in 1..n
    OBVIOUS
  <2>2. \A j \in (g + a)..(g + b) : w[j - g] = T[j]
    BY <2>1
  <2>3. a <= b => g + a <= g + b
    OBVIOUS
  <2> QED BY <2>1, <2>2, <2>3 DEF DigitsAt
<1> QED BY <1>1, <1>2

LEMMA MantissaShift ==
  ASSUME NEW T, NEW g \in Nat, NEW n \in Nat, NEW w, \A i \in 1..n : w[i] = T[g + i],
         NEW b \in Int, b <= n, Mantissa(T, g + 1, g + b)
  PROVE  Mantissa(w, 1, b)
<1>1. CASE DigitsAt(T, g + 1, g + b)
  <2>0. 1 \in Nat \ {0}
    OBVIOUS
  <2>1. DigitsAt(w, 1, b)
    BY <1>1, <2>0, DigitsShift
  <2> QED BY <2>1 DEF Mantissa
<1>2. CASE ~DigitsAt(T, g + 1, g + b)
  <2>1. PICK d \in (g + 1)..(g + b) :
          DigitsAt(T, g + 1, d - 1) /\ T[d] = "C_DOT" /\ \A k \in (d + 1)..(g + b) : T[k] = "C_DIG"
    BY <1>2 DEF Mantissa
  <2>2. PICK c : c = d - g
    OBVIOUS
  <2>3. c \in 1..b /\ g + c = d /\ c - 1 \in Int /\ c - 1 <= n /\ g + (c - 1) = d - 1 /\ c \in 1..n
    BY <2>1, <2>2
  <2>4. DigitsAt(w, 1, c - 1)
    <3>1. DigitsAt(T, g + 1, g + (c - 1))
      BY <2>1, <2>3
    <3>2. PICK j : j = c - 1
      OBVIOUS
    <3>3. 1 \in Nat \ {0} /\ j \in Int /\ j <= n
      BY <2>3, <3>2
    <3>4. DigitsAt(T, g + 1, g + j) <=> DigitsAt(w, 1, j)
      BY <3>3, DigitsShift
    <3> QED BY <3>1, <3>2, <3>4
  <2>5. w[c] = "C_DOT"
    BY <2>1, <2>3
  <2>6. \A k \in (c + 1)..b : w[k] = "C_DIG"
    <3> TAKE k \in (c + 1)..b
    <3>1. k \in 1..n /\ g + k \in (d + 1)..(g + b)
      BY <2>3
    <3> QED BY <2>1, <3>1
  <2> QED BY <2>3, <2>4, <2>5, <2>6 DEF Mantissa
<1> QED BY <1>1, <1>2

LEMMA ExponentShift ==
  ASSUME NEW T, NEW g \in Nat, NEW n \in Nat, NEW w, \A i \in 1..n : w[i] = T[g + i],
         NEW e \in 1..n, ExponentAt(T, g + e, g + n)
  PROVE  ExponentAt(w, e, n)
<1>1. w[e] = "C_E"
  BY DEF ExponentAt
<1>2. e + 1 \in Nat \ {0} /\ e + 2 \in Nat \ {0} /\ n \in Int /\ n <= n
      /\ g + e + 1 = g + (e + 1) /\ g + e + 2 = g + (e + 2)
  OBVIOUS
<1>3. DigitsAt(T, g + e + 1, g + n) => DigitsAt(w, e + 1, n)
  <2>1. PICK j : j = e + 1
    OBVIOUS
  <2>2. j \in Nat \ {0} /\ n \in Int /\ n <= n /\ g + e + 1 = g + j
    BY <1>2, <2>1
  <2>3. DigitsAt(T, g + j, g + n) <=> DigitsAt(w, j, n)
    BY <2>2, DigitsShift
  <2> QED BY <2>1, <2>2, <2>3
<1>4. DigitsAt(T, g + e + 2, g + n) => DigitsAt(w, e + 2, n)
  <2>1. PICK j : j = e + 2
    OBVIOUS
  <2>2. j \in Nat \ {0} /\ n \in Int /\ n <= n /\ g + e + 2 = g + j
    BY <1>2, <2>1
  <2>3. DigitsAt(T, g + j, g + n) <=> DigitsAt(w, j, n)
    BY <2>2, DigitsShift
  <2> QED BY <2>1, <2>2, <2>3
<1>5. DigitsAt(T, g + e + 2, g + n) => e + 1 \in 1..n
  BY DEF DigitsAt
<1>6. e + 1 \in 1..n => w[e + 1] = T[g + e + 1]
  BY <1>2
<1> QED BY <1>1, <1>3, <1>4, <1>5, <1>6 DEF ExponentAt

\* A shape is that of the word read.
LEMMA ShapeShift ==
  ASSUME NEW T, NEW g \in Nat, NEW n \in Nat \ {0}, NEW w, \A i \in 1..n : w[i] = T[g + i],
         NEW st, Shape(T, st, g + 1, g + n + 1)
  PROVE  Shape(w, st, 1, n + 1)
<1>0. /\ g + n + 1 - 1 = g + n /\ g + n + 1 - 2 = g + (n - 1) /\ g + n + 1 - 3 = g + (n - 2)
      /\ n + 1 - 1 = n /\ n + 1 - 2 = n - 1 /\ n + 1 - 3 = n - 2
      /\ n \in Int /\ n <= n /\ n - 1 \in Int /\ n - 1 <= n /\ n - 2 \in Int /\ n - 2 <= n /\ 1 \in Nat \ {0}
  OBVIOUS
<1>1. st = "S_ID" => IdentAt(w, 1, n)
  <2> SUFFICES ASSUME IdentAt(T, g + 1, g + n) PROVE IdentAt(w, 1, n)
    BY <1>0 DEF Shape
  <2>1. \A k \in 1..n : g + k \in (g + 1)..(g + n)
    OBVIOUS
  <2>2. 1 \in 1..n /\ 1 <= n
    OBVIOUS
  <2> QED BY <2>1, <2>2 DEF IdentAt
<1>2. st = "S_I1" => DigitsAt(w, 1, n)
  <2> SUFFICES ASSUME DigitsAt(T, g + 1, g + n) PROVE DigitsAt(w, 1, n)
    BY <1>0 DEF Shape
  <2> QED BY <1>0, DigitsShift
<1>3. st = "S_I2" => DigitsAt(w, 1, n - 1) /\ w[n] = "C_DOT"
  <2> SUFFICES ASSUME DigitsAt(T, g + 1, g + (n - 1)), T[g + n] = "C_DOT"
               PROVE  DigitsAt(w, 1, n - 1) /\ w[n] = "C_DOT"
    BY <1>0 DEF Shape
  <2>1. DigitsAt(w, 1, n - 1)
    BY <1>0, DigitsShift
  <2> QED BY <2>1
<1>4. st = "S_R1" => \E d \in 1..n : DigitsAt(w, 1, d - 1) /\ w[d] = "C_DOT" /\ DigitsAt(w, d + 1, n)
  <2> SUFFICES ASSUME NEW e \in (g + 1)..(g + n), DigitsAt(T, g + 1, e - 1), T[e] = "C_DOT",
                      DigitsAt(T, e + 1, g + n)
               PROVE  \E d \in 1..n : DigitsAt(w, 1, d - 1) /\ w[d] = "C_DOT" /\ DigitsAt(w, d + 1, n)
    BY <1>0 DEF Shape
  <2>1. PICK d : d = e - g
    OBVIOUS
  <2>2. d \in 1..n /\ g + d = e /\ e - 1 = g + (d - 1) /\ e + 1 = g + (d + 1)
        /\ d - 1 \in Int /\ d - 1 <= n /\ d + 1 \in Nat \ {0}
    BY <2>1
  <2>3. DigitsAt(w, 1, d - 1)
    BY <1>0, <2>2, DigitsShift
  <2>4. DigitsAt(w, d + 1, n)
    BY <1>0, <2>2, DigitsShift
  <2> QED BY <2>2, <2>3, <2>4
<1>5. st = "S_E" => Mantissa(w, 1, n - 1) /\ w[n] = "C_E"
  <2> SUFFICES ASSUME Mantissa(T, g + 1, g + (n - 1)), T[g + n] = "C_E"
               PROVE  Mantissa(w, 1, n - 1) /\ w[n] = "C_E"
    BY <1>0 DEF Shape
  <2>1. Mantissa(w, 1, n - 1)
    BY <1>0, MantissaShift
  <2> QED BY <2>1
<1>6. st = "S_E2" => Mantissa(w, 1, n - 2) /\ w[n - 1] = "C_E" /\ w[n] = "C_PM"
  <2> SUFFICES ASSUME Mantissa(T, g + 1, g + (n - 2)), T[g + (n - 1)] = "C_E", T[g + n] = "C_PM"
               PROVE  Mantissa(w, 1, n - 2) /\ w[n - 1] = "C_E" /\ w[n] = "C_PM"
    BY <1>0 DEF Shape
  <2>1. Mantissa(w, 1, n - 2)
    BY <1>0, MantissaShift
  <2>2. n - 1 \in 1..n
    BY <2>1 DEF Mantissa, DigitsAt
  <2> QED BY <2>1, <2>2
<1>7. st = "S_R2" => \E e \in 1..n : Mantissa(w, 1, e - 1) /\ ExponentAt(w, e, n)
  <2> SUFFICES ASSUME NEW d \in (g + 1)..(g + n), Mantissa(T, g + 1, d - 1), ExponentAt(T, d, g + n)
               PROVE  \E e \in 1..n : Mantissa(w, 1, e - 1) /\ ExponentAt(w, e, n)
    BY <1>0 DEF Shape
  <2>1. PICK e : e = d - g
    OBVIOUS
  <2>2. e \in 1..n /\ g + e = d /\ d - 1 = g + (e - 1) /\ e - 1 \in Int /\ e - 1 <= n
    BY <2>1
  <2>3. Mantissa(w, 1, e - 1)
    BY <2>2, MantissaShift
  <2>4. ExponentAt(w, e, n)
    BY <2>2, ExponentShift
  <2> QED BY <2>2, <2>3, <2>4
<1>8. \A m \in Nat : \A c : AllAt(T, g + 1, g + n + 1, m, c) => AllAt(w, 1, n + 1, m, c)
  <2> SUFFICES ASSUME NEW m \in Nat, NEW c, AllAt(T, g + 1, g + n + 1, m, c) PROVE AllAt(w, 1, n + 1, m, c)
    OBVIOUS
  <2>1. g + n + 1 = g + 1 + m /\ \A k \in (g + 1)..(g + n) : T[k] = c
    BY <1>0 DEF AllAt
  <2>2. n = m
    BY <2>1
  <2>3. \A k \in 1..n : g + k \in (g + 1)..(g + n)
    OBVIOUS
  <2> QED BY <1>0, <2>1, <2>2, <2>3 DEF AllAt
<1>9. /\ st = "S_STAR" => AllAt(w, 1, n + 1, 1, "C_STAR")
      /\ st = "S_EQ" => AllAt(w, 1, n + 1, 1, "C_EQ")
      /\ st = "S_EXCL" => AllAt(w, 1, n + 1, 1, "C_EXCL")
      /\ st = "S_DOT" => AllAt(w, 1, n + 1, 1, "C_DOT")
      /\ st = "S_COLON" => AllAt(w, 1, n + 1, 1, "C_COLON")
      /\ st = "S_LT" => AllAt(w, 1, n + 1, 1, "C_LT")
      /\ st = "S_GT" => AllAt(w, 1, n + 1, 1, "C_GT")
      /\ st = "S_DOT2" => AllAt(w, 1, n + 1, 2, "C_DOT")
      /\ st = "S_LT2" => AllAt(w, 1, n + 1, 2, "C_LT")
      /\ st = "S_GT2" => AllAt(w, 1, n + 1, 2, "C_GT")
      /\ st = "S_LT3" => AllAt(w, 1, n + 1, 3, "C_LT")
      /\ st = "S_GT3" => AllAt(w, 1, n + 1, 3, "C_GT")
  BY <1>8 DEF Shape
<1> QED BY <1>0, <1>1, <1>2, <1>3, <1>4, <1>5, <1>6, <1>7, <1>9 DEF Shape

LEMMA OneLong ==
  ASSUME NEW S, NEW w \in Seq(S), Len(w) = 1
  PROVE  w = <<w[1]>>
<1>1. <<w[1]>> \in Seq(S)
  <2>0. 1 \in 1..Len(w)
    OBVIOUS
  <2>1. w[1] \in S
    BY <2>0, ElementOfSeq
  <2> QED BY <2>1
<1>2. Len(<<w[1]>>) = 1
  OBVIOUS
<1>3. \A i \in 1..1 : w[i] = <<w[1]>>[i]
  OBVIOUS
<1> QED BY <1>1, <1>2, <1>3, SeqEqual

LEMMA ThreeLong ==
  ASSUME NEW S, NEW w \in Seq(S), Len(w) = 3
  PROVE  w = <<w[1], w[2], w[3]>>
<1>1. <<w[1], w[2], w[3]>> \in Seq(S)
  <2>0. 1 \in 1..Len(w) /\ 2 \in 1..Len(w) /\ 3 \in 1..Len(w)
    OBVIOUS
  <2>1. w[1] \in S /\ w[2] \in S /\ w[3] \in S
    BY <2>0, ElementOfSeq
  <2> QED BY <2>1
<1>2. Len(<<w[1], w[2], w[3]>>) = 3
  OBVIOUS
<1>3. \A i \in 1..3 : w[i] = <<w[1], w[2], w[3]>>[i]
  OBVIOUS
<1> QED BY <1>1, <1>2, <1>3, SeqEqual

LEMMA AllOf ==
  ASSUME NEW w \in Seq(Classes), NEW c, NEW m \in {1, 2, 3}, AllAt(w, 1, Len(w) + 1, m, c)
  PROVE  /\ Len(w) = m
         /\ m = 1 => w = <<c>>
         /\ m = 2 => w = <<c, c>>
         /\ m = 3 => w = <<c, c, c>>
<1>1. Len(w) \in Nat
  BY LenProperties
<1>2. Len(w) = m
  BY <1>1 DEF AllAt
<1>3. \A k \in 1..Len(w) : w[k] = c
  BY <1>1 DEF AllAt
<1>4. CASE m = 1
  <2>1. w = <<w[1]>> /\ w[1] = c
    BY <1>2, <1>3, <1>4, OneLong
  <2> QED BY <1>2, <1>4, <2>1
<1>5. CASE m = 2
  <2>1. w = <<w[1], w[2]>> /\ w[1] = c /\ w[2] = c
    BY <1>2, <1>3, <1>5, TwoLong
  <2> QED BY <1>2, <1>5, <2>1
<1>6. CASE m = 3
  <2>1. w = <<w[1], w[2], w[3]>> /\ w[1] = c /\ w[2] = c /\ w[3] = c
    BY <1>2, <1>3, <1>6, ThreeLong
  <2> QED BY <1>2, <1>6, <2>1
<1> QED BY <1>4, <1>5, <1>6

\* What is read in a final state is a word, and of the token predicted.
LEMMA FinalWord ==
  ASSUME NEW v \in Seq(Classes), NEW st \in final_states, Shape(v, st, 1, Len(v) + 1)
  PROVE  Word(v, FromState[st])
<1>1. PICK n : n = Len(v)
  OBVIOUS
<1>2. n \in Nat /\ n + 1 - 1 = n /\ (v # << >> <=> n # 0) /\ DOMAIN v = 1..n
  BY <1>1, LenProperties, EmptySeq
<1>3. CASE st = "S_ID"
  <2>1. IdentAt(v, 1, n)
    BY <1>1, <1>2, <1>3 DEF Shape
  <2>2. Ident(v)
    BY <1>2, <2>1 DEF Ident, IdentAt, IdStart
  <2> QED BY <1>3, <2>2 DEF Word, FromState
<1>4. CASE st = "S_I1"
  <2>1. DigitsAt(v, 1, n)
    BY <1>1, <1>2, <1>4 DEF Shape
  <2>2. Digits(v)
    BY <1>1, <2>1, DigitsIs
  <2> QED BY <1>4, <2>2 DEF Word, FromState
<1>5. CASE st \in {"S_R1", "S_R2"}
  <2>1. FractionAt(v, n) \/ ScientificAt(v, n)
    BY <1>1, <1>2, <1>5 DEF Shape, FractionAt, ScientificAt
  <2>2. RealNumber(v)
    BY <1>1, <2>1, RealIs
  <2> QED BY <1>5, <2>2 DEF Word, FromState
<1>6. CASE st \in {"S_STAR", "S_COLON", "S_LT", "S_GT"}
  <2>1. /\ st = "S_STAR" => AllAt(v, 1, Len(v) + 1, 1, "C_STAR")
        /\ st = "S_COLON" => AllAt(v, 1, Len(v) + 1, 1, "C_COLON")
        /\ st = "S_LT" => AllAt(v, 1, Len(v) + 1, 1, "C_LT")
        /\ st = "S_GT" => AllAt(v, 1, Len(v) + 1, 1, "C_GT")
    BY DEF Shape
  <2>2. /\ st = "S_STAR" => v = <<"C_STAR">>
        /\ st = "S_COLON" => v = <<"C_COLON">>
        /\ st = "S_LT" => v = <<"C_LT">>
        /\ st = "S_GT" => v = <<"C_GT">>
    BY <1>6, <2>1, AllOf
  <2> QED BY <1>6, <2>1, <2>2, AllOf DEF Word, FromState, Fixed
<1>7. CASE st \in {"S_DOT2", "S_LT2", "S_GT2"}
  <2>1. /\ st = "S_DOT2" => AllAt(v, 1, Len(v) + 1, 2, "C_DOT")
        /\ st = "S_LT2" => AllAt(v, 1, Len(v) + 1, 2, "C_LT")
        /\ st = "S_GT2" => AllAt(v, 1, Len(v) + 1, 2, "C_GT")
    BY DEF Shape
  <2> QED BY <1>7, <2>1, AllOf DEF Word, FromState, Fixed
<1>8. CASE st \in {"S_LT3", "S_GT3"}
  <2>1. /\ st = "S_LT3" => AllAt(v, 1, Len(v) + 1, 3, "C_LT")
        /\ st = "S_GT3" => AllAt(v, 1, Len(v) + 1, 3, "C_GT")
    BY DEF Shape
  <2> QED BY <1>8, <2>1, AllOf DEF Word, FromState, Fixed
<1> QED BY <1>3, <1>4, <1>5, <1>6, <1>7, <1>8 DEF final_states, FromState

\* One more character of a word.
LEMMA AppendShape ==
  ASSUME NEW w \in Seq(Classes), NEW c \in Classes, NEW st, Shape(w, st, 1, Len(w) + 1), Len(w) # 0
  PROVE  /\ Append(w, c) \in Seq(Classes) /\ Len(Append(w, c)) = Len(w) + 1
         /\ Append(w, c)[Len(w) + 1] = c
         /\ \A i \in 1..Len(w) : Append(w, c)[i] = w[i]
         /\ Shape(Append(w, c), st, 1, Len(w) + 1)
         /\ \A next : Adds(st, c, next) => Shape(Append(w, c), next, 1, Len(w) + 1 + 1)
<1>1. PICK n, v : n = Len(w) /\ v = Append(w, c)
  OBVIOUS
<1>2. v \in Seq(Classes) /\ Len(v) = n + 1 /\ v[n + 1] = c /\ \A i \in 1..n : v[i] = w[i]
  BY <1>1, AppendProperties
<1>3. n \in Nat \ {0}
  BY <1>1, LenProperties
<1>4. Shape(v, st, 1, n + 1)
  <2>1. 0 \in Nat /\ 0 + 1 = 1 /\ 0 + n + 1 = n + 1 /\ \A i \in 1..n : 0 + i = i
    BY <1>3
  <2>2. \A i \in 1..n : v[i] = w[0 + i]
    BY <1>2, <2>1
  <2>3. Shape(w, st, 0 + 1, 0 + n + 1)
    BY <1>1, <2>1, Zenon
  <2> QED BY <1>3, <2>1, <2>2, <2>3, ShapeShift
<1>5. ASSUME NEW next, Adds(st, c, next) PROVE Shape(v, next, 1, n + 1 + 1)
  <2>1. PICK p : p = n + 1
    OBVIOUS
  <2>2. 1 \in Nat /\ p \in Nat /\ 1 < p /\ Adds(st, v[p], next) /\ Shape(v, st, 1, p)
    BY <1>2, <1>3, <1>4, <1>5, <2>1
  <2>3. Shape(v, next, 1, p + 1)
    BY <2>2, ShapeGrown
  <2> QED BY <2>1, <2>3
<1> QED BY <1>1, <1>2, <1>4, <1>5

\* Every lexeme begun can be completed.
LEMMA ViableShape ==
  ASSUME NEW w \in Seq(Classes), Len(w) # 0, NEW st \in States \ EmptyStates, Shape(w, st, 1, Len(w) + 1)
  PROVE  Viable(w)
<1> DEFINE tids == DOMAIN Fixed \cup {"T_ID", "T_NUM", "T_RNUM"}
<1>0. \A f \in final_states : FromState[f] \in tids
  BY DEF final_states, FromState, Fixed
<1>1. CASE st \in final_states
  <2>1. Word(w, FromState[st])
    BY <1>1, FinalWord
  <2> QED BY <1>0, <1>1, <2>1 DEF Viable, IsWord
<1>2. ASSUME NEW c \in {"C_DIG", "C_EQ", "C_DOT"}, NEW next \in final_states, Adds(st, c, next) PROVE Viable(w)
  <2>1. c \in Classes
    BY DEF Classes
  <2>2. PICK v : v = Append(w, c)
    OBVIOUS
  <2>3. v \in Seq(Classes) /\ Shape(v, next, 1, Len(v) + 1)
    BY <1>2, <2>1, <2>2, AppendShape
  <2>4. Word(v, FromState[next])
    BY <2>3, FinalWord
  <2>5. IsWord(v)
    BY <1>0, <2>4 DEF IsWord
  <2> QED BY <2>2, <2>5 DEF Viable
<1>3. CASE st \in {"S_I2", "S_E", "S_E2", "S_DOT"}
  <2>1. /\ Adds("S_I2", "C_DIG", "S_R1") /\ Adds("S_E", "C_DIG", "S_R2") /\ Adds("S_E2", "C_DIG", "S_R2")
        /\ Adds("S_DOT", "C_DOT", "S_DOT2") /\ {"S_R1", "S_R2", "S_DOT2"} \subseteq final_states
    BY DEF Adds, final_states, FromState
  <2> QED BY <1>2, <1>3, <2>1
<1>4. CASE st \in {"S_EQ", "S_EXCL"}
  <2>1. /\ st = "S_EQ" => AllAt(w, 1, Len(w) + 1, 1, "C_EQ")
        /\ st = "S_EXCL" => AllAt(w, 1, Len(w) + 1, 1, "C_EXCL")
    BY DEF Shape
  <2>2. /\ st = "S_EQ" => w = <<"C_EQ">>
        /\ st = "S_EXCL" => w = <<"C_EXCL">>
    BY <2>1, AllOf
  <2>3. /\ st = "S_EQ" => Append(w, "C_EQ") = <<"C_EQ", "C_EQ">>
        /\ st = "S_EXCL" => Append(w, "C_EQ") = <<"C_EXCL", "C_EQ">>
    <3>1. PICK v, c : c = "C_EQ" /\ v = Append(w, c)
      OBVIOUS
    <3>2. /\ Len(w) = 1 /\ c \in Classes
          /\ (st = "S_EQ" => w[1] = "C_EQ") /\ (st = "S_EXCL" => w[1] = "C_EXCL")
      BY <1>4, <2>1, <2>2, <3>1, AllOf DEF Classes
    <3>9. /\ Append(w, c) \in Seq(Classes) /\ Len(Append(w, c)) = Len(w) + 1
          /\ Append(w, c)[Len(w) + 1] = c /\ \A i \in 1..Len(w) : Append(w, c)[i] = w[i]
      BY <3>2, AppendShape
    <3>3. v \in Seq(Classes) /\ Len(v) = Len(w) + 1 /\ v[Len(w) + 1] = "C_EQ" /\ \A i \in 1..Len(w) : v[i] = w[i]
      BY <3>1, <3>9, Zenon
    <3>4. Len(v) = 2 /\ v[2] = "C_EQ" /\ v[1] = w[1]
      BY <3>2, <3>3
    <3>5. v = <<v[1], v[2]>>
      BY <3>3, <3>4, TwoLong
    <3> QED BY <1>4, <3>1, <3>2, <3>4, <3>5
  <2>4. /\ st = "S_EQ" => Word(Append(w, "C_EQ"), "T_EQ")
        /\ st = "S_EXCL" => Word(Append(w, "C_EQ"), "T_NE")
    BY <2>3 DEF Word, Fixed
  <2>5. IsWord(Append(w, "C_EQ"))
    BY <1>4, <2>4 DEF IsWord, Fixed
  <2> QED BY <2>5 DEF Viable
<1> QED BY <1>1, <1>3, <1>4 DEF States, EmptyStates, final_states, FromState

-----------------------------------------------------------------------------
(* The end of the file. *)

\* The shape of what is read of a text is that of the part read.
LEMMA PartShape ==
  ASSUME NEW T \in Seq(Classes), NEW l \in 1..Len(T), NEW f \in 1..l
  PROVE  /\ SubSeq(T, f, l) \in Seq(Classes) /\ Len(SubSeq(T, f, l)) = (l + 1) - f
         /\ (l + 1) - f \in Nat \ {0}
         /\ \A i \in 1..((l + 1) - f) : SubSeq(T, f, l)[i] = T[(f - 1) + i]
         /\ \A st : Shape(T, st, f, l + 1) => Shape(SubSeq(T, f, l), st, 1, Len(SubSeq(T, f, l)) + 1)
<1>1. Len(T) \in Nat
  BY LenProperties
<1>2. PICK w, n, g : w = SubSeq(T, f, l) /\ n = (l + 1) - f /\ g = f - 1
  OBVIOUS
<1>3. /\ f \in Nat \ {0} /\ l \in Nat /\ f <= l + 1 /\ l <= Len(T) /\ n \in Nat \ {0} /\ g \in Nat
      /\ g + 1 = f /\ g + n + 1 = l + 1 /\ \A i \in 1..n : f + i - 1 = g + i
  BY <1>1, <1>2
<1>4. /\ SubSeq(T, f, l) \in Seq(Classes) /\ Len(SubSeq(T, f, l)) = (l + 1) - f
      /\ \A i \in 1..((l + 1) - f) : SubSeq(T, f, l)[i] = T[f + i - 1]
  BY <1>3, SlicesOf
<1>5. w \in Seq(Classes) /\ Len(w) = n /\ \A i \in 1..n : w[i] = T[f + i - 1]
  BY <1>2, <1>4, Zenon
<1>6. \A i \in 1..n : w[i] = T[g + i]
  BY <1>3, <1>5
<1>7. ASSUME NEW st, Shape(T, st, f, l + 1) PROVE Shape(w, st, 1, n + 1)
  <2>1. Shape(T, st, g + 1, g + n + 1)
    BY <1>3, <1>7, Zenon
  <2> QED BY <1>3, <1>6, <2>1, ShapeShift
<1> QED BY <1>2, <1>3, <1>5, <1>6, <1>7, Zenon

\* What is lost if the tokens end before l.
TailOf(T, l) ==
  LET rest == SkipBlanks(T, l)
      w    == SubSeq(T, rest, Len(T))
  IN  \/ w = << >> \/ Viable(w)
      \/ Slice(w, 1, 2) = CommentMark /\ Cardinality({k \in 3..Len(w) : w[k] = "C_STAR"}) < 2

\* One star at most is not enough to close a comment.
LEMMA FewStars ==
  ASSUME NEW T \in Seq(Classes), NEW i \in Nat, NEW a, Stars(T, i) \subseteq {a}
  PROVE  Cardinality(Stars(T, i)) < 2
<1>1. PICK S : S = Stars(T, i)
  OBVIOUS
<1>2. IsFiniteSet({a}) /\ Cardinality({a}) = 1
  BY FS_Singleton
<1>3. IsFiniteSet(S) /\ Cardinality(S) <= Cardinality({a})
  BY <1>1, <1>2, FS_Subset
<1>4. Cardinality(S) \in Nat
  BY <1>3, FS_CardinalityType
<1> QED BY <1>1, <1>2, <1>3, <1>4

LEMMA TailIs ==
  ASSUME NEW T \in Seq(Classes), NEW st \in States, NEW f, NEW p, p = Len(T) + 1, NEW last,
         TileAt(T, st, f, p, last), st \notin EmptyStates => f \in 1..(p - 1), Shape(T, st, f, p)
  PROVE  TailOf(T, last)
<1>1. PICK N, rest, w : N = Len(T) /\ rest = SkipBlanks(T, last) /\ w = SubSeq(T, rest, N)
  OBVIOUS
<1>2. N \in Nat /\ p = N + 1
  BY <1>1, LenProperties
<1>3. SUFFICES \/ w = << >> \/ Viable(w)
               \/ Slice(w, 1, 2) = CommentMark /\ Cardinality({k \in 3..Len(w) : w[k] = "C_STAR"}) < 2
  BY <1>1, Zenon DEF TailOf
<1>4. CASE st = "S_START"
  <2>1. SkipBlanks(T, p) = p
    <3>1. p \in 1..(Len(T) + 1) /\ ~(p <= Len(T))
      BY <1>1, <1>2
    <3> QED BY <3>1, SkipsNone
  <2>2. rest = N + 1
    BY <1>1, <1>2, <1>4, <2>1 DEF TileAt
  <2>3. w \in Seq(Classes) /\ Len(w) = 0
    <3>1. N + 1 \in Nat \ {0} /\ N + 1 <= N + 1 /\ N <= Len(T) /\ (N + 1) - (N + 1) = 0
      BY <1>1, <1>2
    <3>2. SubSeq(T, N + 1, N) \in Seq(Classes) /\ Len(SubSeq(T, N + 1, N)) = (N + 1) - (N + 1)
      BY <1>2, <3>1, SlicesOf
    <3> QED BY <1>1, <2>2, <3>1, <3>2, Zenon
  <2>4. w = << >>
    BY <2>3, EmptySeq
  <2> QED BY <2>4
<1>5. ASSUME f \in 1..N, rest = f
      PROVE  /\ w \in Seq(Classes) /\ Len(w) = (N + 1) - f /\ Len(w) \in Nat \ {0}
             /\ \A i \in 1..Len(w) : w[i] = T[(f - 1) + i]
             /\ Shape(T, st, f, p) => Shape(w, st, 1, Len(w) + 1)
  <2>1. N \in 1..Len(T)
    BY <1>1, <1>2, <1>5
  <2>2. /\ SubSeq(T, f, N) \in Seq(Classes) /\ Len(SubSeq(T, f, N)) = (N + 1) - f
        /\ (N + 1) - f \in Nat \ {0}
        /\ \A i \in 1..((N + 1) - f) : SubSeq(T, f, N)[i] = T[(f - 1) + i]
        /\ Shape(T, st, f, N + 1) => Shape(SubSeq(T, f, N), st, 1, Len(SubSeq(T, f, N)) + 1)
    BY <1>5, <2>1, PartShape
  <2> QED BY <1>1, <1>2, <1>5, <2>2, Zenon
<1>6. CASE st \notin EmptyStates
  <2>1. f \in 1..N
    BY <1>2, <1>6
  <2>2. rest = f
    <3>1. CASE st # "S_STAR"
      BY <1>1, <1>6, <3>1 DEF TileAt
    <3>2. CASE st = "S_STAR"
      <4>1. f = N /\ T[f] = "C_STAR" /\ f \in 1..Len(T) /\ f \in 1..(Len(T) + 1)
        BY <1>1, <1>2, <2>1, <3>2 DEF Shape, AllAt
      <4>2. ~Closed(T, f)
        BY <1>1, <1>2, <4>1, MarkIs DEF Closed
      <4>3. SkipBlanks(T, f) = f
        BY <4>1, <4>2, SkipsNone
      <4> QED BY <1>1, <3>2, <4>3 DEF TileAt
    <3> QED BY <3>1, <3>2
  <2>3. Viable(w)
    BY <1>5, <1>6, <2>1, <2>2, ViableShape
  <2> QED BY <2>3
<1>7. CASE st \in {"S_STAR2", "S_STAR3"}
  <2>1. \E starred \in BOOLEAN : InComment(T, f, p, starred)
    BY <1>7 DEF TileAt
  <2>2. /\ f \in 1..N /\ f < N /\ T[f] = "C_STAR" /\ T[f + 1] = "C_STAR"
        /\ f \in Nat /\ f \in 1..Len(T) /\ f \in 1..(Len(T) + 1)
    BY <1>1, <1>2, <2>1 DEF InComment
  <2>3. PICK a \in Nat : \A k \in (f + 2)..N : T[k] = "C_STAR" => k = a
    <3>1. PICK starred \in BOOLEAN : InComment(T, f, p, starred)
      BY <2>1
    <3>2. p - 1 = N
      BY <1>2
    <3>3. CASE starred = TRUE
      <4>1. PICK a \in (f + 2)..N : \A k \in (f + 2)..N : T[k] = "C_STAR" => k = a
        BY <3>1, <3>2, <3>3 DEF InComment
      <4>2. a \in Nat
        BY <2>2
      <4> QED BY <4>1, <4>2
    <3>4. CASE starred = FALSE
      <4>1. \A k \in (f + 2)..N : T[k] # "C_STAR"
        BY <3>1, <3>2, <3>4 DEF InComment
      <4> QED BY <4>1
    <3> QED BY <3>3, <3>4
  <2>4. Stars(T, f) \subseteq {a}
    BY <1>1, <2>3 DEF Stars
  <2>5. ~Closed(T, f)
    <3>1. PICK m : m = Cardinality(Stars(T, f))
      OBVIOUS
    <3>2. m < 2 /\ m \in Nat
      BY <1>1, <1>2, <2>2, <2>4, <3>1, FewStars, StarsFinite, FS_CardinalityType
    <3>3. ~(m >= 2)
      BY <3>2
    <3> QED BY <3>1, <3>3 DEF Closed
  <2>6. rest = f
    <3>1. SkipBlanks(T, f) = f
      BY <2>2, <2>5, SkipsNone
    <3> QED BY <1>1, <1>7, <3>1 DEF TileAt
  <2>7. /\ w \in Seq(Classes) /\ Len(w) = (N + 1) - f /\ Len(w) \in Nat \ {0}
        /\ \A i \in 1..Len(w) : w[i] = T[(f - 1) + i]
    BY <1>5, <2>2, <2>6
  <2>8. Slice(w, 1, 2) = CommentMark
    <3>1. 1 \in 1..Len(w) /\ 1 < Len(w) /\ 2 \in 1..Len(w) /\ (f - 1) + 1 = f /\ (f - 1) + 2 = f + 1 /\ 1 + 1 = 2
      BY <1>2, <2>2, <2>7
    <3>2. w[1] = "C_STAR" /\ w[1 + 1] = "C_STAR"
      BY <2>2, <2>7, <3>1
    <3>3. Slice(w, 1, 1 + 1) = CommentMark
      BY <2>7, <3>1, <3>2, MarkIs
    <3> QED BY <3>1, <3>3, Zenon
  <2>9. Cardinality(Stars(w, 1)) < 2
    <3>1. ASSUME NEW k \in Stars(w, 1) PROVE k = a + 1 - f
      <4>1. k \in 3..Len(w) /\ w[k] = "C_STAR"
        BY <3>1 DEF Stars
      <4>2. (f - 1) + k \in (f + 2)..N /\ k \in 1..Len(w)
        BY <1>2, <2>2, <2>7, <4>1
      <4>3. (f - 1) + k = a
        BY <2>3, <2>7, <4>1, <4>2
      <4> QED BY <2>2, <4>1, <4>3
    <3>2. Stars(w, 1) \subseteq {a + 1 - f}
      BY <3>1
    <3> QED BY <2>7, <3>2, FewStars
  <2>10. Stars(w, 1) = {k \in 3..Len(w) : w[k] = "C_STAR"}
    <3>1. 1 + 2 = 3
      OBVIOUS
    <3> QED BY <3>1, Zenon DEF Stars
  <2> QED BY <2>8, <2>9, <2>10
<1> QED BY <1>4, <1>6, <1>7 DEF EmptyStates

\* Nothing else is lost when the last token has been delivered.
TailInv == ~Running => TailOf(text, IF Len(out) - 1 = 0 THEN 1 ELSE out[Len(out) - 1].to + 1)
TokensInv == ChainInv /\ EofInv /\ TileInv /\ TailInv

LEMMA EndTiles ==
  ASSUME TypeOK, SizeInv, ScanInv, TokensInv, EndOfFile
  PROVE  TokensInv'
<1>1. /\ ~Running' /\ text' = text /\ Len(out) \in Nat /\ Len(out') = Len(out) + 1
      /\ \A i \in 1..Len(out) : out'[i] = out[i]
      /\ out'[Len(out) + 1].tid = "T_EOF"
  BY EndsRunning
<1>2. PICK n, o, q, T, t, last : n = Len(out) /\ o = out /\ q = out' /\ T = text /\ t = q[n + 1] /\ last = Last
  OBVIOUS
<1>3. /\ n \in Nat /\ Len(q) = n + 1 /\ q[n + 1] = t /\ t.tid = "T_EOF" /\ \A i \in 1..n : q[i] = o[i]
  BY <1>1, <1>2
<1>4. Running /\ ReadInv /\ WordInv /\ PlacesInv /\ ChainInv /\ EofInv /\ TileInv
  BY DEF EndOfFile, ScanInv, TokensInv
<1>5. ChainInv'
  <2>1. Chain(T, n, o)
    BY <1>2, <1>4, Zenon DEF ChainInv
  <2>2. Chain(T, n + 1, q)
    BY <1>3, <2>1, Appended
  <2> QED BY <1>1, <1>2, <1>3, <2>2, Zenon DEF ChainInv
<1>6. EofInv'
  <2>1. ASSUME NEW i \in 1..n PROVE o[i].tid # "T_EOF"
    <3>1. CASE i < n
      BY <1>2, <1>4, <3>1 DEF EofInv
    <3>2. CASE i = n
      <4>1. out # << >>
        BY <1>2, <3>2, EmptySeq
      <4> QED BY <1>2, <1>4, <3>2, <4>1 DEF Running
    <3> QED BY <1>3, <3>1, <3>2
  <2>2. \A i \in 1..(n + 1) : i < n + 1 => q[i].tid # "T_EOF"
    BY <1>3, <2>1
  <2> QED BY <1>2, <1>3, <2>2, Zenon DEF EofInv
<1>7. TileInv'
  BY <1>1 DEF TileInv
<1>8. TailOf(T, last)
  <2>1. T \in Seq(Classes) /\ AtEnd /\ Pos = Len(T) + 1
    BY <1>2, <1>4, TextTyped, CharacterIs DEF EndOfFile
  <2>2. PICK p, f, st : p = Pos /\ f = from /\ st = s
    OBVIOUS
  <2>3. st \in States /\ TileAt(T, st, f, p, last) /\ (st \notin EmptyStates => f \in 1..(p - 1)) /\ Shape(T, st, f, p)
    BY <1>2, <1>4, <2>2 DEF TypeOK, TileInv, WordInv, LexemeInv, LexemeAt, ShapeInv
  <2> QED BY <2>1, <2>2, <2>3, TailIs
<1>9. TailInv'
  <2>1. Len(q) - 1 = n /\ (n # 0 => q[n] = o[n])
    BY <1>3
  <2>2. last = IF n = 0 THEN 1 ELSE o[n].to + 1
    BY <1>2 DEF Last
  <2>3. last = IF Len(q) - 1 = 0 THEN 1 ELSE q[Len(q) - 1].to + 1
    BY <2>1, <2>2
  <2>4. TailOf(T, IF Len(q) - 1 = 0 THEN 1 ELSE q[Len(q) - 1].to + 1)
    BY <1>8, <2>3, Zenon
  <2> QED BY <1>1, <1>2, <2>4, Zenon DEF TailInv
<1> QED BY <1>5, <1>6, <1>7, <1>9 DEF TokensInv

LEMMA TokensInit == Init => TokensInv
<1> SUFFICES ASSUME Init PROVE TokensInv
  OBVIOUS
<1>1. /\ text \in Texts /\ fpos = 0 /\ buf = << >> /\ input_ptr = 0 /\ s = "S_START" /\ out = << >>
  BY DEF Init
<1>2. Len(buf) = 0 /\ Len(out) = 0 /\ Running
  BY <1>1, EmptySeq DEF Running
<1>3. Pos = 1 /\ Last = 1
  BY <1>1, <1>2 DEF Pos, Refill, Last
<1>4. ChainInv /\ EofInv
  BY <1>2 DEF ChainInv, Chain, EofInv
<1>5. \A T, f : TileAt(T, "S_START", f, 1, 1)
  BY DEF TileAt, EmptyStates
<1>6. TileInv
  BY <1>1, <1>3, <1>5, Zenon DEF TileInv
<1> QED BY <1>2, <1>4, <1>6 DEF TailInv, TokensInv

LEMMA TokensStep ==
  TypeOK /\ SizeInv /\ ScanInv /\ TokensInv /\ TypeOK' /\ [Next]_vars => TokensInv'
<1> SUFFICES ASSUME TypeOK, SizeInv, ScanInv, TokensInv, TypeOK', [Next]_vars PROVE TokensInv'
  OBVIOUS
<1>0. /\ out' \in Seq(Token) /\ ReadInv /\ WordInv /\ PlacesInv
      /\ ChainInv /\ EofInv /\ TileInv
  BY DEF TypeOK, ScanInv, TokensInv
<1>1. ASSUME NEW next \in States, AddChar(next) \/ Ignore(next) \/ NewLine(next) \/ ClearLexeme(next)
      PROVE TokensInv'
  <2>1. TileInv'
    BY <1>0, <1>1, QuietTiles
  <2>2. \E action : Quiet(action, next)
    BY <1>1 DEF AddChar, Ignore, NewLine, ClearLexeme
  <2>3. text' = text /\ out' = out /\ Running'
    BY <1>0, <2>2, QuietTakes DEF Takes
  <2>4. ChainInv' /\ EofInv'
    BY <1>0, <2>3 DEF ChainInv, EofInv
  <2> QED BY <2>1, <2>3, <2>4 DEF TokensInv, TailInv
<1>2. ASSUME NEW next \in States, NEW action, TokenBefore(action, next) PROVE TokensInv'
  <2>1. ChainInv' /\ EofInv' /\ TileInv'
    BY <1>0, <1>2, BeforeTiles
  <2>2. PICK predicted : /\ predicted = IF action = "A_TOKS" THEN predict_token_from_state(s) ELSE "T_ERR"
                         /\ Deliver(action, predicted, lexeme, from, Pos - 1) /\ s \in States
    BY <1>0, <1>2, BeforeFacts
  <2>3. predicted \in Tids \ {"T_EOF"}
    BY <2>2, Predicted
  <2>4. Running'
    BY <1>0, <2>2, <2>3, Delivered
  <2> QED BY <2>1, <2>4 DEF TokensInv, TailInv
<1>3. ASSUME NEW next \in States, TokenWith(next) PROVE TokensInv'
  <2>1. ChainInv' /\ EofInv' /\ TileInv'
    BY <1>0, <1>3, WithTiles
  <2>2. PICK lex, first : Deliver("A_TOKF", predict_token_from_char(lex[1]), lex, first, Pos)
    BY <1>0, <1>3, WithFacts
  <2>3. PICK predicted : predicted = predict_token_from_char(lex[1])
    OBVIOUS
  <2>4. predicted \in Tids \ {"T_EOF"} /\ Deliver("A_TOKF", predicted, lex, first, Pos)
    BY <2>2, <2>3, Predicted
  <2>5. Running'
    BY <1>0, <2>4, Delivered
  <2> QED BY <2>1, <2>5 DEF TokensInv, TailInv
<1>4. ASSUME NEW next \in States, NumberBeforeRange(next) PROVE TokensInv'
  <2>1. ChainInv' /\ EofInv' /\ TileInv'
    BY <1>0, <1>4, RangeTiles
  <2>2. PICK lex : Deliver("A_TOKN", "T_NUM", lex, from, Pos - 2)
    BY <1>0, <1>4, RangeFacts
  <2>3. "T_NUM" \in Tids \ {"T_EOF"}
    BY Predicted
  <2>4. Running'
    BY <1>0, <2>2, <2>3, Delivered
  <2> QED BY <2>1, <2>4 DEF TokensInv, TailInv
<1>5. ASSUME UNCHANGED vars PROVE TokensInv'
  <2>1. UNCHANGED <<text, fpos, buf, input_ptr, s, from, out>>
    BY <1>5 DEF vars, input, dfa
  <2>2. Pos' = Pos /\ (Running' <=> Running) /\ Last' = Last
    BY <2>1 DEF Pos, Refill, Running, Last
  <2>3. ChainInv' /\ EofInv' /\ TailInv'
    BY <2>1, <2>2 DEF TokensInv, ChainInv, EofInv, TailInv
  <2>4. TileInv'
    BY <1>0, <2>1, <2>2 DEF TileInv
  <2> QED BY <2>3, <2>4 DEF TokensInv
<1> QED BY <1>1, <1>2, <1>3, <1>4, <1>5, EndTiles DEF Next, Done

\* Only blanks and comments lie between the tokens, and at most one lexeme or
\* comment begun lies behind the last.
THEOREM TokensInvariant == Spec => [](TypeOK /\ SizeInv /\ ScanInv /\ TokensInv)
<1>1. TypeOK /\ SizeInv /\ ScanInv /\ TokensInv /\ [Next]_vars => (TypeOK /\ SizeInv /\ ScanInv /\ TokensInv)'
  BY StepInv, ScanStep, TokensStep
<1> QED BY <1>1, InitInv, ScanInit, TokensInit, PTL DEF Spec

\* TokensTile for every text and every size of the buffers: a character put
\* back (lexer.c:388) is read again once, and a refill of the input buffer
\* (lexer.c:248) neither repeats nor drops one.
THEOREM TextTiled == Spec => []TokensTile
<1>1. TypeOK /\ SizeInv /\ ScanInv /\ TokensInv => TokensTile
  <2> SUFFICES ASSUME TypeOK, ScanInv, TokensInv, NEW i \in Tokens
               PROVE  /\ out[i].from <= out[i].to
                      /\ out[i].from = SkipBlanks(text, IF i = 1 THEN 1 ELSE out[i - 1].to + 1)
    BY DEF TokensTile
  <2>1. i \in 1..Len(out) /\ out[i].tid # "T_EOF"
    BY LenProperties DEF Tokens, TypeOK
  <2>2. out[i].from = SkipBlanks(text, IF i = 1 THEN 1 ELSE out[i - 1].to + 1)
    BY <2>1, Zenon DEF TokensInv, ChainInv, Chain
  <2>3. PICK t : t = out[i]
    OBVIOUS
  <2>4. Placed(text, t.line, t.col, t.from, t.to)
    BY <2>1, <2>3 DEF ScanInv, PlacesInv
  <2>5. t.from <= t.to
    <3>1. Len(text) \in Nat
      BY TextTyped
    <3> QED BY <2>4, <3>1 DEF Placed
  <2> QED BY <2>2, <2>3, <2>5
<1> QED BY <1>1, TokensInvariant, PTL

\* OnlyTailLost for every text: T_EOF is delivered whatever the lexeme
\* collected so far (lexer.c:520), so this bounds what a program can lose.
THEOREM TailBounded == Spec => []OnlyTailLost
<1>1. TokensInv => OnlyTailLost
  BY Zenon DEF TokensInv, TailInv, TailOf, OnlyTailLost
<1>2. TypeOK /\ SizeInv /\ ScanInv /\ TokensInv => OnlyTailLost
  BY <1>1
<1> QED BY <1>2, TokensInvariant, PTL

-----------------------------------------------------------------------------
(* The automaton knows the words: what can become a word has a state, and  *)
(* no more than one.                                                       *)

LEMMA MantissaChars ==
  ASSUME NEW w, NEW j \in Int, Mantissa(w, 1, j)
  PROVE  1 <= j /\ w[1] = "C_DIG" /\ \A k \in 1..j : w[k] \in {"C_DIG", "C_DOT"}
<1>1. CASE DigitsAt(w, 1, j)
  BY <1>1 DEF DigitsAt
<1>2. CASE ~DigitsAt(w, 1, j)
  <2>1. PICK d \in 1..j : DigitsAt(w, 1, d - 1) /\ w[d] = "C_DOT" /\ \A k \in (d + 1)..j : w[k] = "C_DIG"
    BY <1>2 DEF Mantissa
  <2>2. 1 <= d - 1 /\ d \in Int /\ \A k \in 1..(d - 1) : w[k] = "C_DIG"
    BY <2>1 DEF DigitsAt
  <2>3. 1 <= j /\ w[1] = "C_DIG"
    BY <2>2
  <2>4. ASSUME NEW k \in 1..j PROVE w[k] \in {"C_DIG", "C_DOT"}
    <3>1. k \in 1..(d - 1) \/ k = d \/ k \in (d + 1)..j
      BY <2>2
    <3> QED BY <2>1, <2>2, <3>1
  <2> QED BY <2>3, <2>4
<1> QED BY <1>1, <1>2

LEMMA ExponentChars ==
  ASSUME NEW w, NEW e \in Int, NEW n \in Int, ExponentAt(w, e, n)
  PROVE  e + 1 <= n /\ w[e] = "C_E" /\ w[n] = "C_DIG" /\ \A k \in (e + 1)..n : w[k] \in {"C_DIG", "C_PM"}
<1>1. CASE DigitsAt(w, e + 1, n)
  BY <1>1 DEF DigitsAt, ExponentAt
<1>2. CASE w[e + 1] = "C_PM" /\ DigitsAt(w, e + 2, n)
  <2>1. e + 2 <= n /\ \A k \in (e + 2)..n : w[k] = "C_DIG"
    BY <1>2 DEF DigitsAt
  <2>2. \A k \in (e + 1)..n : k = e + 1 \/ k \in (e + 2)..n
    OBVIOUS
  <2> QED BY <1>2, <2>1, <2>2 DEF ExponentAt
<1> QED BY <1>1, <1>2 DEF ExponentAt

NumberStates == {"S_I1", "S_I2", "S_R1", "S_E", "S_E2", "S_R2"}

\* What tells the states of a number apart.
NumberRead(w, st, n) ==
  /\ w[1] = "C_DIG" /\ \A k \in 1..n : w[k] \in {"C_DIG", "C_DOT", "C_E", "C_PM"}
  /\ st = "S_I1" => \A k \in 1..n : w[k] = "C_DIG"
  /\ st = "S_I2" => w[n] = "C_DOT"
  /\ st = "S_R1" => w[n] = "C_DIG" /\ (\E k \in 1..n : w[k] = "C_DOT") /\ (\A k \in 1..n : w[k] # "C_E")
  /\ st = "S_E"  => w[n] = "C_E"
  /\ st = "S_E2" => w[n] = "C_PM"
  /\ st = "S_R2" => w[n] = "C_DIG" /\ \E k \in 1..n : w[k] = "C_E"

LEMMA NumberIs ==
  ASSUME NEW w, NEW n \in Nat \ {0}, NEW st \in NumberStates, Shape(w, st, 1, n + 1)
  PROVE  NumberRead(w, st, n)
<1>0. n + 1 - 1 = n /\ n + 1 - 2 = n - 1 /\ n + 1 - 3 = n - 2 /\ n \in Int /\ n - 1 \in Int /\ n - 2 \in Int
  OBVIOUS
<1>1. CASE st = "S_I1"
  <2>1. DigitsAt(w, 1, n)
    BY <1>0, <1>1 DEF Shape
  <2> QED BY <1>1, <2>1 DEF DigitsAt, NumberRead
<1>2. CASE st = "S_I2"
  <2>1. DigitsAt(w, 1, n - 1) /\ w[n] = "C_DOT"
    BY <1>0, <1>2 DEF Shape
  <2>2. \A k \in 1..n : k = n \/ k \in 1..(n - 1)
    OBVIOUS
  <2> QED BY <1>2, <2>1, <2>2 DEF DigitsAt, NumberRead
<1>3. CASE st = "S_R1"
  <2>1. PICK d \in 1..n : DigitsAt(w, 1, d - 1) /\ w[d] = "C_DOT" /\ DigitsAt(w, d + 1, n)
    BY <1>0, <1>3 DEF Shape
  <2>2. \A k \in 1..n : k = d \/ k \in 1..(d - 1) \/ k \in (d + 1)..n
    OBVIOUS
  <2>3. \A k \in 1..n : w[k] = "C_DIG" \/ w[k] = "C_DOT"
    BY <2>1, <2>2 DEF DigitsAt
  <2>4. w[1] = "C_DIG" /\ w[n] = "C_DIG"
    BY <2>1 DEF DigitsAt
  <2> QED BY <1>3, <2>1, <2>3, <2>4 DEF NumberRead
<1>4. CASE st = "S_E"
  <2>1. Mantissa(w, 1, n - 1) /\ w[n] = "C_E"
    BY <1>0, <1>4 DEF Shape
  <2>2. \A k \in 1..n : k = n \/ k \in 1..(n - 1)
    OBVIOUS
  <2>3. w[1] = "C_DIG" /\ \A k \in 1..(n - 1) : w[k] \in {"C_DIG", "C_DOT"}
    BY <1>0, <2>1, MantissaChars
  <2> QED BY <1>4, <2>1, <2>2, <2>3 DEF NumberRead
<1>5. CASE st = "S_E2"
  <2>1. Mantissa(w, 1, n - 2) /\ w[n - 1] = "C_E" /\ w[n] = "C_PM"
    BY <1>0, <1>5 DEF Shape
  <2>2. \A k \in 1..n : k = n \/ k = n - 1 \/ k \in 1..(n - 2)
    OBVIOUS
  <2>3. w[1] = "C_DIG" /\ \A k \in 1..(n - 2) : w[k] \in {"C_DIG", "C_DOT"}
    BY <1>0, <2>1, MantissaChars
  <2> QED BY <1>5, <2>1, <2>2, <2>3 DEF NumberRead
<1>6. CASE st = "S_R2"
  <2>1. PICK e \in 1..n : Mantissa(w, 1, e - 1) /\ ExponentAt(w, e, n)
    BY <1>0, <1>6 DEF Shape
  <2>2. \A k \in 1..n : k = e \/ k \in 1..(e - 1) \/ k \in (e + 1)..n
    OBVIOUS
  <2>3. w[1] = "C_DIG" /\ \A k \in 1..(e - 1) : w[k] \in {"C_DIG", "C_DOT"}
    <3>1. PICK j : j = e - 1
      OBVIOUS
    <3>2. j \in Int /\ Mantissa(w, 1, j)
      BY <2>1, <3>1
    <3>3. w[1] = "C_DIG" /\ \A k \in 1..j : w[k] \in {"C_DIG", "C_DOT"}
      BY <3>2, MantissaChars
    <3> QED BY <3>1, <3>3
  <2>4. w[e] = "C_E" /\ w[n] = "C_DIG" /\ \A k \in (e + 1)..n : w[k] \in {"C_DIG", "C_PM"}
    BY <1>0, <2>1, ExponentChars
  <2> QED BY <1>6, <2>2, <2>3, <2>4 DEF NumberRead
<1> QED BY <1>1, <1>2, <1>3, <1>4, <1>5, <1>6 DEF NumberStates

\* The characters of a lexeme that only repeats one.
Repeated == [S_STAR |-> <<"C_STAR", 1>>, S_EQ |-> <<"C_EQ", 1>>, S_EXCL |-> <<"C_EXCL", 1>>,
             S_DOT |-> <<"C_DOT", 1>>, S_COLON |-> <<"C_COLON", 1>>, S_LT |-> <<"C_LT", 1>>, S_GT |-> <<"C_GT", 1>>,
             S_DOT2 |-> <<"C_DOT", 2>>, S_LT2 |-> <<"C_LT", 2>>, S_GT2 |-> <<"C_GT", 2>>,
             S_LT3 |-> <<"C_LT", 3>>, S_GT3 |-> <<"C_GT", 3>>]

IsRepeated(w, n, st) == n = Repeated[st][2] /\ \A k \in 1..n : w[k] = Repeated[st][1]

LEMMA RepeatedIs ==
  ASSUME NEW w, NEW n \in Nat \ {0}, NEW st \in DOMAIN Repeated
  PROVE  Shape(w, st, 1, n + 1) <=> IsRepeated(w, n, st)
<1>1. n + 1 - 1 = n /\ \A m \in {1, 2, 3} : n + 1 = 1 + m <=> n = m
  OBVIOUS
<1>2. \A m \in {1, 2, 3} : \A c : AllAt(w, 1, n + 1, m, c) <=> n = m /\ \A k \in 1..n : w[k] = c
  BY <1>1 DEF AllAt
<1>3. PICK c, m : c = Repeated[st][1] /\ m = Repeated[st][2]
  OBVIOUS
<1>4. m \in {1, 2, 3} /\ (Shape(w, st, 1, n + 1) <=> AllAt(w, 1, n + 1, m, c))
  BY <1>3 DEF Shape, Repeated
<1> QED BY <1>2, <1>3, <1>4 DEF IsRepeated

LEMMA StatesAre ==
  /\ States \ EmptyStates = {"S_ID"} \cup NumberStates \cup DOMAIN Repeated
  /\ \A st \in DOMAIN Repeated :
       /\ Repeated[st][1] \in {"C_STAR", "C_EQ", "C_EXCL", "C_DOT", "C_COLON", "C_LT", "C_GT"}
       /\ Repeated[st][2] \in {1, 2, 3} /\ (Repeated[st][1] = "C_EQ" => Repeated[st][2] = 1)
       /\ \A st2 \in DOMAIN Repeated : Repeated[st2][1] = Repeated[st][1] /\ Repeated[st2][2] = Repeated[st][2] => st2 = st
<1>1. States \ EmptyStates = {"S_ID"} \cup NumberStates \cup DOMAIN Repeated
  BY DEF States, EmptyStates, NumberStates, Repeated
<1>2. ASSUME NEW st \in DOMAIN Repeated
      PROVE  /\ Repeated[st][1] \in {"C_STAR", "C_EQ", "C_EXCL", "C_DOT", "C_COLON", "C_LT", "C_GT"}
             /\ Repeated[st][2] \in {1, 2, 3} /\ (Repeated[st][1] = "C_EQ" => Repeated[st][2] = 1)
  BY DEF Repeated
<1>3. ASSUME NEW st \in DOMAIN Repeated, NEW st2 \in DOMAIN Repeated,
             Repeated[st2][1] = Repeated[st][1], Repeated[st2][2] = Repeated[st][2]
      PROVE  st2 = st
  BY <1>3 DEF Repeated
<1> QED BY <1>1, <1>2, <1>3

\* The first character of a lexeme, and the others.
LEMMA ShapeChars ==
  ASSUME NEW w, NEW n \in Nat \ {0}, NEW st \in States \ EmptyStates, Shape(w, st, 1, n + 1)
  PROVE  /\ w[1] \in StartAdds
         /\ st = "S_ID" <=> w[1] \in IdStart
         /\ st \in NumberStates <=> w[1] = "C_DIG"
         /\ st \in DOMAIN Repeated <=> w[1] \notin IdStart \cup {"C_DIG"}
         /\ \A k \in 2..n : w[k] # "C_EQ"
<1>1. CASE st = "S_ID"
  <2>1. n + 1 - 1 = n
    OBVIOUS
  <2>2. IdentAt(w, 1, n)
    BY <1>1, <2>1 DEF Shape
  <2> QED BY <1>1, <2>2 DEF IdentAt, IdStart, StartAdds, NumberStates, Repeated
<1>2. CASE st \in NumberStates
  <2>1. NumberRead(w, st, n)
    BY <1>2, NumberIs
  <2> QED BY <1>2, <2>1 DEF NumberRead, IdStart, StartAdds, NumberStates, Repeated
<1>3. CASE st \in DOMAIN Repeated
  <2>1. n = Repeated[st][2] /\ \A k \in 1..n : w[k] = Repeated[st][1]
    BY <1>3, RepeatedIs DEF IsRepeated
  <2>2. PICK c, m : c = Repeated[st][1] /\ m = Repeated[st][2]
    OBVIOUS
  <2>3. c \in {"C_STAR", "C_EQ", "C_EXCL", "C_DOT", "C_COLON", "C_LT", "C_GT"} /\ (c = "C_EQ" => m = 1)
    BY <1>3, <2>2, StatesAre
  <2>4. n = m /\ \A k \in 1..n : w[k] = c
    BY <2>1, <2>2
  <2>5. w[1] = c /\ \A k \in 2..n : w[k] # "C_EQ"
    BY <2>3, <2>4
  <2>6. st \notin NumberStates /\ st # "S_ID"
    BY <1>3 DEF NumberStates, Repeated
  <2> QED BY <1>3, <2>3, <2>5, <2>6 DEF IdStart, StartAdds
<1> QED BY <1>1, <1>2, <1>3, StatesAre

\* No lexeme is read in two states.
LEMMA ShapeUnique ==
  ASSUME NEW w, NEW n \in Nat \ {0}, NEW st \in States \ EmptyStates, NEW st2 \in States \ EmptyStates,
         Shape(w, st, 1, n + 1), Shape(w, st2, 1, n + 1)
  PROVE  st = st2
<1>1. /\ st = "S_ID" <=> st2 = "S_ID"
      /\ st \in NumberStates <=> st2 \in NumberStates
      /\ st \in DOMAIN Repeated <=> st2 \in DOMAIN Repeated
  BY ShapeChars
<1>2. CASE st \in NumberStates
  <2>1. NumberRead(w, st, n) /\ NumberRead(w, st2, n) /\ n \in 1..n
    BY <1>1, <1>2, NumberIs
  <2> QED BY <1>1, <1>2, <2>1 DEF NumberRead, NumberStates
<1>3. CASE st \in DOMAIN Repeated
  <2>0. ASSUME NEW a \in DOMAIN Repeated, Shape(w, a, 1, n + 1)
        PROVE  n = Repeated[a][2] /\ \A k \in 1..n : w[k] = Repeated[a][1]
    <3>1. IsRepeated(w, n, a)
      BY <2>0, RepeatedIs
    <3> QED BY <3>1 DEF IsRepeated
  <2>1. /\ n = Repeated[st][2] /\ \A k \in 1..n : w[k] = Repeated[st][1]
        /\ n = Repeated[st2][2] /\ \A k \in 1..n : w[k] = Repeated[st2][1]
    BY <1>1, <1>3, <2>0
  <2>2. Repeated[st][1] = Repeated[st2][1] /\ Repeated[st][2] = Repeated[st2][2]
    <3>1. 1 \in 1..n
      OBVIOUS
    <3> QED BY <2>1, <3>1
  <2> QED BY <1>1, <1>3, <2>2, StatesAre
<1> QED BY <1>1, <1>2, <1>3, StatesAre

\* Without its last character a lexeme is one too, of a state that adds it.
LEMMA MantissaEnds ==
  ASSUME NEW v, NEW n \in Nat \ {0}, Mantissa(v, 1, n)
  PROVE  \/ Shape(v, "S_I1", 1, n + 1)
         \/ Shape(v, "S_I2", 1, n + 1)
         \/ Shape(v, "S_R1", 1, n + 1)
<1>0. n + 1 - 1 = n /\ n + 1 - 2 = n - 1
  OBVIOUS
<1>1. CASE DigitsAt(v, 1, n)
  BY <1>0, <1>1 DEF Shape
<1>2. CASE ~DigitsAt(v, 1, n)
  <2>1. PICK d \in 1..n : DigitsAt(v, 1, d - 1) /\ v[d] = "C_DOT" /\ \A k \in (d + 1)..n : v[k] = "C_DIG"
    BY <1>2 DEF Mantissa
  <2>2. CASE d = n
    <3>1. DigitsAt(v, 1, n - 1) /\ v[n] = "C_DOT"
      BY <2>1, <2>2
    <3> QED BY <1>0, <3>1 DEF Shape
  <2>3. CASE d # n
    <3>1. DigitsAt(v, d + 1, n)
      BY <2>1, <2>3 DEF DigitsAt
    <3> QED BY <1>0, <2>1, <3>1 DEF Shape
  <2> QED BY <2>2, <2>3
<1> QED BY <1>1, <1>2

LEMMA NumberUngrown ==
  ASSUME NEW v, NEW n \in Nat \ {0}, NEW st \in NumberStates, Shape(v, st, 1, n + 1 + 1)
  PROVE  \E st1 \in States \ EmptyStates : Shape(v, st1, 1, n + 1) /\ Adds(st1, v[n + 1], st)
<1>0. /\ n + 1 + 1 - 1 = n + 1 /\ n + 1 + 1 - 2 = n /\ n + 1 + 1 - 3 = n - 1
      /\ n + 1 - 1 = n /\ n + 1 - 2 = n - 1 /\ n + 1 - 3 = n - 2
  OBVIOUS
<1>s. NumberStates \subseteq States \ EmptyStates
  BY DEF NumberStates, States, EmptyStates
<1>1. CASE st = "S_I1"
  <2>1. DigitsAt(v, 1, n + 1)
    BY <1>0, <1>1 DEF Shape
  <2>2. DigitsAt(v, 1, n) /\ v[n + 1] = "C_DIG"
    BY <2>1 DEF DigitsAt
  <2>3. Shape(v, "S_I1", 1, n + 1) /\ Adds("S_I1", v[n + 1], st)
    BY <1>0, <1>1, <2>2 DEF Shape, Adds
  <2> QED BY <1>s, <2>3 DEF NumberStates
<1>2. CASE st = "S_I2"
  <2>1. DigitsAt(v, 1, n) /\ v[n + 1] = "C_DOT"
    BY <1>0, <1>2 DEF Shape
  <2>3. Shape(v, "S_I1", 1, n + 1) /\ Adds("S_I1", v[n + 1], st)
    BY <1>0, <1>2, <2>1 DEF Shape, Adds
  <2> QED BY <1>s, <2>3 DEF NumberStates
<1>3. CASE st = "S_R1"
  <2>1. PICK d \in 1..(n + 1) : DigitsAt(v, 1, d - 1) /\ v[d] = "C_DOT" /\ DigitsAt(v, d + 1, n + 1)
    BY <1>0, <1>3 DEF Shape
  <2>2. d \in 1..n /\ v[n + 1] = "C_DIG" /\ \A k \in (d + 1)..n : v[k] = "C_DIG"
    BY <2>1 DEF DigitsAt
  <2>3. CASE d = n
    <3>1. DigitsAt(v, 1, n - 1) /\ v[n] = "C_DOT"
      BY <2>1, <2>3
    <3>2. Shape(v, "S_I2", 1, n + 1) /\ Adds("S_I2", v[n + 1], st)
      BY <1>0, <1>3, <2>2, <3>1 DEF Shape, Adds
    <3> QED BY <1>s, <3>2 DEF NumberStates
  <2>4. CASE d # n
    <3>1. DigitsAt(v, d + 1, n)
      BY <2>2, <2>4 DEF DigitsAt
    <3>2. Shape(v, "S_R1", 1, n + 1)
      BY <1>0, <2>1, <2>2, <3>1 DEF Shape
    <3>3. Adds("S_R1", v[n + 1], st)
      BY <1>3, <2>2 DEF Adds
    <3> QED BY <1>s, <3>2, <3>3 DEF NumberStates
  <2> QED BY <2>3, <2>4
<1>4. CASE st = "S_E"
  <2>1. Mantissa(v, 1, n) /\ v[n + 1] = "C_E"
    BY <1>0, <1>4 DEF Shape
  <2>2. \A a \in {"S_I1", "S_I2", "S_R1"} : Adds(a, v[n + 1], st)
    BY <1>4, <2>1 DEF Adds
  <2>3. \E a \in {"S_I1", "S_I2", "S_R1"} : Shape(v, a, 1, n + 1)
    BY <2>1, MantissaEnds
  <2> QED BY <1>s, <2>2, <2>3 DEF NumberStates
<1>5. CASE st = "S_E2"
  <2>1. Mantissa(v, 1, n - 1) /\ v[n] = "C_E" /\ v[n + 1] = "C_PM"
    BY <1>0, <1>5 DEF Shape
  <2>2. Shape(v, "S_E", 1, n + 1) /\ Adds("S_E", v[n + 1], st)
    BY <1>0, <1>5, <2>1 DEF Shape, Adds
  <2> QED BY <1>s, <2>2 DEF NumberStates
<1>6. CASE st = "S_R2"
  <2>1. PICK e \in 1..(n + 1) : Mantissa(v, 1, e - 1) /\ ExponentAt(v, e, n + 1)
    BY <1>0, <1>6 DEF Shape
  <2>2. v[e] = "C_E" /\ v[n + 1] = "C_DIG" /\ e \in 1..n
    <3>1. e \in Int /\ n + 1 \in Int
      OBVIOUS
    <3>2. e + 1 <= n + 1 /\ v[e] = "C_E" /\ v[n + 1] = "C_DIG"
      BY <2>1, <3>1, ExponentChars
    <3> QED BY <3>2
  <2>3. ASSUME e # n, ExponentAt(v, e, n) PROVE Shape(v, "S_R2", 1, n + 1)
    BY <1>0, <2>1, <2>2, <2>3 DEF Shape
  <2>4. CASE DigitsAt(v, e + 1, n + 1)
    <3>1. CASE e = n
      <4>1. Mantissa(v, 1, n - 1) /\ v[n] = "C_E"
        BY <2>1, <2>2, <3>1
      <4>2. Shape(v, "S_E", 1, n + 1) /\ Adds("S_E", v[n + 1], st)
        BY <1>0, <1>6, <2>2, <4>1 DEF Shape, Adds
      <4> QED BY <1>s, <4>2 DEF NumberStates
    <3>2. CASE e # n
      <4>1. DigitsAt(v, e + 1, n)
        BY <2>2, <2>4, <3>2 DEF DigitsAt
      <4>2. ExponentAt(v, e, n)
        BY <2>2, <4>1 DEF ExponentAt
      <4>3. Shape(v, "S_R2", 1, n + 1) /\ Adds("S_R2", v[n + 1], st)
        BY <1>6, <2>2, <2>3, <3>2, <4>2 DEF Adds
      <4> QED BY <1>s, <4>3 DEF NumberStates
    <3> QED BY <3>1, <3>2
  <2>5. CASE v[e + 1] = "C_PM" /\ DigitsAt(v, e + 2, n + 1)
    <3>1. CASE e = n - 1
      <4>0. n - 1 - 1 = n - 2 /\ n - 1 + 1 = n
        OBVIOUS
      <4>1. Mantissa(v, 1, n - 2) /\ v[n - 1] = "C_E" /\ v[n] = "C_PM"
        BY <2>1, <2>2, <2>5, <3>1, <4>0
      <4>2. Shape(v, "S_E2", 1, n + 1) /\ Adds("S_E2", v[n + 1], st)
        BY <1>0, <1>6, <2>2, <4>1 DEF Shape, Adds
      <4> QED BY <1>s, <4>2 DEF NumberStates
    <3>2. CASE e # n - 1
      <4>1. DigitsAt(v, e + 2, n) /\ e # n
        BY <2>2, <2>5, <3>2 DEF DigitsAt
      <4>2. ExponentAt(v, e, n)
        BY <2>2, <2>5, <4>1 DEF ExponentAt
      <4>3. Shape(v, "S_R2", 1, n + 1) /\ Adds("S_R2", v[n + 1], st)
        BY <1>6, <2>2, <2>3, <4>1, <4>2 DEF Adds
      <4> QED BY <1>s, <4>3 DEF NumberStates
    <3> QED BY <3>1, <3>2
  <2> QED BY <2>1, <2>4, <2>5 DEF ExponentAt
<1> QED BY <1>1, <1>2, <1>3, <1>4, <1>5, <1>6 DEF NumberStates

LEMMA ShapeUngrown ==
  ASSUME NEW v, NEW n \in Nat \ {0}, NEW st \in States \ EmptyStates, Shape(v, st, 1, n + 1 + 1)
  PROVE  \E st1 \in States \ EmptyStates : Shape(v, st1, 1, n + 1) /\ Adds(st1, v[n + 1], st)
<1>1. CASE st = "S_ID"
  <2>1. n + 1 + 1 - 1 = n + 1 /\ n + 1 - 1 = n
    OBVIOUS
  <2>2. IdentAt(v, 1, n + 1)
    BY <1>1, <2>1 DEF Shape
  <2>3. IdentAt(v, 1, n) /\ v[n + 1] \in IdStart \cup {"C_DIG"}
    BY <2>2 DEF IdentAt
  <2>4. Shape(v, st, 1, n + 1)
    BY <1>1, <2>1, <2>3 DEF Shape
  <2>5. Adds(st, v[n + 1], st)
    BY <1>1, <2>3 DEF Adds
  <2> QED BY <2>4, <2>5
<1>2. CASE st \in NumberStates
  BY <1>2, NumberUngrown
<1>3. CASE st \in DOMAIN Repeated
  <2>1. PICK m : m = n + 1
    OBVIOUS
  <2>9. m \in Nat \ {0} /\ Shape(v, st, 1, m + 1)
    BY <2>1
  <2>10. m = Repeated[st][2] /\ \A k \in 1..m : v[k] = Repeated[st][1]
    BY <1>3, <2>9, RepeatedIs DEF IsRepeated
  <2>2. n + 1 = Repeated[st][2] /\ \A k \in 1..(n + 1) : v[k] = Repeated[st][1]
    BY <2>1, <2>10
  <2>3. PICK st1 \in DOMAIN Repeated : Repeated[st1] = <<Repeated[st][1], n>> /\ Adds(st1, Repeated[st][1], st)
    <3>1. \/ st = "S_DOT2" /\ n = 1 /\ Repeated["S_DOT"] = <<Repeated[st][1], n>> /\ Adds("S_DOT", Repeated[st][1], st)
          \/ st = "S_LT2" /\ n = 1 /\ Repeated["S_LT"] = <<Repeated[st][1], n>> /\ Adds("S_LT", Repeated[st][1], st)
          \/ st = "S_LT3" /\ n = 2 /\ Repeated["S_LT2"] = <<Repeated[st][1], n>> /\ Adds("S_LT2", Repeated[st][1], st)
          \/ st = "S_GT2" /\ n = 1 /\ Repeated["S_GT"] = <<Repeated[st][1], n>> /\ Adds("S_GT", Repeated[st][1], st)
          \/ st = "S_GT3" /\ n = 2 /\ Repeated["S_GT2"] = <<Repeated[st][1], n>> /\ Adds("S_GT2", Repeated[st][1], st)
      BY <1>3, <2>2 DEF Repeated, Adds
    <3>2. {"S_DOT", "S_LT", "S_LT2", "S_GT", "S_GT2"} \subseteq DOMAIN Repeated
      BY DEF Repeated
    <3> QED BY <3>1, <3>2
  <2>4. Repeated[st1][1] = Repeated[st][1] /\ Repeated[st1][2] = n
    BY <2>3
  <2>5. \A k \in 1..n : v[k] = Repeated[st][1]
    BY <2>2
  <2>6. Shape(v, st1, 1, n + 1)
    BY <2>3, <2>4, <2>5, RepeatedIs DEF IsRepeated
  <2>7. v[n + 1] = Repeated[st][1]
    BY <2>2
  <2> QED BY <2>3, <2>6, <2>7, StatesAre
<1> QED BY <1>1, <1>2, <1>3, StatesAre

\* The table has an entry of its own for every character added.
LEMMA AddsListed ==
  ASSUME NEW st, NEW c, NEW next, Adds(st, c, next)
  PROVE  <<st, c>> \in Listed
<1>1. \A a, x : <<st, c, a, x>> \in Edges => <<st, c>> \in Listed
  BY DEF Listed
<1>2. \/ <<st, c, next, "A_ADD">> \in IdEdges
      \/ <<st, c, next, "A_ADD">> \in NumberEdges
      \/ <<st, c, next, "A_ADD">> \in OperatorEdges
  BY DEF Adds, IdEdges, NumberEdges, OperatorEdges, Edge, IdStart
<1> QED BY <1>1, <1>2 DEF Edges

\* The words of the characters that are tokens by themselves or end one.
Marks == {<<"C_SCO">>, <<"C_PM">>}
Pairs == {<<"C_EQ", "C_EQ">>, <<"C_EXCL", "C_EQ">>, <<"C_COLON", "C_EQ">>, <<"C_LT", "C_EQ">>, <<"C_GT", "C_EQ">>}

\* w is read in state st.
Read(w, st) == st \in States \ EmptyStates /\ Shape(w, st, 1, Len(w) + 1)

LEMMA WordShapes ==
  ASSUME NEW w \in Seq(Classes), NEW tid, Word(w, tid)
  PROVE  /\ Len(w) \in Nat \ {0}
         /\ \/ w \in Marks \cup Pairs /\ tid \in DOMAIN Fixed
            \/ \E st \in final_states : Read(w, st) /\ (tid = FromState[st] \/ (tid = "T_KEYWORD" /\ st = "S_ID"))
<1>1. PICK n : n = Len(w)
  OBVIOUS
<1>2. n \in Nat /\ n + 1 - 1 = n
  <2>1. Len(w) \in Nat
    BY LenProperties
  <2> QED BY <1>1, <2>1
<1>3. final_states \subseteq States \ EmptyStates
  BY DEF final_states, FromState, States, EmptyStates
<1>4. n # 0
  <2>1. w # << >>
    BY DEF Word, Ident, Digits, RealNumber, Fixed
  <2> QED BY <1>1, <2>1, EmptySeq
<1>5. ASSUME NEW st \in final_states, Shape(w, st, 1, n + 1), tid = FromState[st] \/ (tid = "T_KEYWORD" /\ st = "S_ID")
      PROVE  \E a \in final_states : Read(w, a) /\ (tid = FromState[a] \/ (tid = "T_KEYWORD" /\ a = "S_ID"))
  BY <1>1, <1>3, <1>5 DEF Read
<1>6. CASE tid \in {"T_ID", "T_KEYWORD"} /\ Ident(w)
  <2>1. DOMAIN w = 1..n
    BY <1>1, LenProperties
  <2>2. w[1] \in IdStart /\ \A k \in 1..n : w[k] \in IdStart \cup {"C_DIG"}
    BY <1>6, <2>1 DEF Ident, IdStart
  <2>3. Shape(w, "S_ID", 1, n + 1)
    BY <1>2, <1>4, <2>2 DEF Shape, IdentAt
  <2>4. "S_ID" \in final_states /\ FromState["S_ID"] = "T_ID"
    BY DEF final_states, FromState
  <2> QED BY <1>1, <1>2, <1>4, <1>5, <1>6, <2>3, <2>4
<1>7. CASE tid = "T_NUM" /\ Digits(w)
  <2>1. DigitsAt(w, 1, n)
    BY <1>1, <1>7, DigitsIs
  <2>3. Shape(w, "S_I1", 1, n + 1)
    BY <1>2, <2>1 DEF Shape
  <2>4. "S_I1" \in final_states /\ FromState["S_I1"] = "T_NUM"
    BY DEF final_states, FromState
  <2> QED BY <1>1, <1>2, <1>4, <1>5, <1>7, <2>3, <2>4
<1>8. CASE tid = "T_RNUM" /\ RealNumber(w)
  <2>1. FractionAt(w, n) \/ ScientificAt(w, n)
    BY <1>1, <1>8, RealIs
  <2>2. Shape(w, "S_R1", 1, n + 1) \/ Shape(w, "S_R2", 1, n + 1)
    BY <1>2, <2>1 DEF Shape, FractionAt, ScientificAt
  <2>4. /\ "S_R1" \in final_states /\ FromState["S_R1"] = "T_RNUM"
        /\ "S_R2" \in final_states /\ FromState["S_R2"] = "T_RNUM"
    BY DEF final_states, FromState
  <2> QED BY <1>1, <1>2, <1>4, <1>5, <1>8, <2>2, <2>4
<1>9. CASE tid \in DOMAIN Fixed /\ w \in Fixed[tid]
  <2>1. ASSUME NEW st \in DOMAIN Repeated, NEW c, NEW m \in {1, 2, 3}, Repeated[st] = <<c, m>>,
               w = IF m = 1 THEN <<c>> ELSE IF m = 2 THEN <<c, c>> ELSE <<c, c, c>>,
               st \in final_states, tid = FromState[st]
        PROVE  \E a \in final_states : Read(w, a) /\ (tid = FromState[a] \/ (tid = "T_KEYWORD" /\ a = "S_ID"))
    <3>1. Repeated[st][1] = c /\ Repeated[st][2] = m
      BY <2>1
    <3>2. Len(w) = m /\ \A k \in 1..m : w[k] = c
      <4>1. CASE m = 1
        BY <2>1, <4>1
      <4>2. CASE m = 2
        BY <2>1, <4>2
      <4>3. CASE m = 3
        BY <2>1, <4>3
      <4> QED BY <4>1, <4>2, <4>3
    <3>3. n \in Nat \ {0} /\ n = Repeated[st][2] /\ \A k \in 1..n : w[k] = Repeated[st][1]
      BY <1>1, <1>2, <1>4, <3>1, <3>2
    <3>4. Shape(w, st, 1, n + 1)
      BY <3>3, RepeatedIs DEF IsRepeated
    <3> QED BY <1>5, <2>1, <3>4
  <2>2. tid \in {"T_SCO", "T_PM", "T_EQ", "T_NE", "T_ASSIGNOP", "T_LE", "T_GE"} => w \in Marks \cup Pairs
    BY <1>9 DEF Fixed, Marks, Pairs
  <2>3. CASE tid = "T_MUL"
    <3>1. w = <<"C_STAR">>
      BY <1>9, <2>3 DEF Fixed
    <3>2. "S_STAR" \in DOMAIN Repeated /\ Repeated["S_STAR"] = <<"C_STAR", 1>> /\ "S_STAR" \in final_states /\ tid = FromState["S_STAR"]
      BY <2>3 DEF Repeated, final_states, FromState
    <3> QED BY <1>1, <1>2, <1>4, <2>1, <3>1, <3>2
  <2>4. CASE tid = "T_RANGEOP"
    <3>1. w = <<"C_DOT", "C_DOT">>
      BY <1>9, <2>4 DEF Fixed
    <3>2. "S_DOT2" \in DOMAIN Repeated /\ Repeated["S_DOT2"] = <<"C_DOT", 2>> /\ "S_DOT2" \in final_states /\ tid = FromState["S_DOT2"]
      BY <2>4 DEF Repeated, final_states, FromState
    <3> QED BY <1>1, <1>2, <1>4, <2>1, <3>1, <3>2
  <2>5. CASE tid = "T_COLON"
    <3>1. w = <<"C_COLON">>
      BY <1>9, <2>5 DEF Fixed
    <3>2. "S_COLON" \in DOMAIN Repeated /\ Repeated["S_COLON"] = <<"C_COLON", 1>> /\ "S_COLON" \in final_states /\ tid = FromState["S_COLON"]
      BY <2>5 DEF Repeated, final_states, FromState
    <3> QED BY <1>1, <1>2, <1>4, <2>1, <3>1, <3>2
  <2>6. CASE tid = "T_LT"
    <3>1. w = <<"C_LT">>
      BY <1>9, <2>6 DEF Fixed
    <3>2. "S_LT" \in DOMAIN Repeated /\ Repeated["S_LT"] = <<"C_LT", 1>> /\ "S_LT" \in final_states /\ tid = FromState["S_LT"]
      BY <2>6 DEF Repeated, final_states, FromState
    <3> QED BY <1>1, <1>2, <1>4, <2>1, <3>1, <3>2
  <2>7. CASE tid = "T_DEF"
    <3>1. w = <<"C_LT", "C_LT">>
      BY <1>9, <2>7 DEF Fixed
    <3>2. "S_LT2" \in DOMAIN Repeated /\ Repeated["S_LT2"] = <<"C_LT", 2>> /\ "S_LT2" \in final_states /\ tid = FromState["S_LT2"]
      BY <2>7 DEF Repeated, final_states, FromState
    <3> QED BY <1>1, <1>2, <1>4, <2>1, <3>1, <3>2
  <2>8. CASE tid = "T_DRIVERDEF"
    <3>1. w = <<"C_LT", "C_LT", "C_LT">>
      BY <1>9, <2>8 DEF Fixed
    <3>2. "S_LT3" \in DOMAIN Repeated /\ Repeated["S_LT3"] = <<"C_LT", 3>> /\ "S_LT3" \in final_states /\ tid = FromState["S_LT3"]
      BY <2>8 DEF Repeated, final_states, FromState
    <3> QED BY <1>1, <1>2, <1>4, <2>1, <3>1, <3>2
  <2>9. CASE tid = "T_GT"
    <3>1. w = <<"C_GT">>
      BY <1>9, <2>9 DEF Fixed
    <3>2. "S_GT" \in DOMAIN Repeated /\ Repeated["S_GT"] = <<"C_GT", 1>> /\ "S_GT" \in final_states /\ tid = FromState["S_GT"]
      BY <2>9 DEF Repeated, final_states, FromState
    <3> QED BY <1>1, <1>2, <1>4, <2>1, <3>1, <3>2
  <2>10. CASE tid = "T_ENDDEF"
    <3>1. w = <<"C_GT", "C_GT">>
      BY <1>9, <2>10 DEF Fixed
    <3>2. "S_GT2" \in DOMAIN Repeated /\ Repeated["S_GT2"] = <<"C_GT", 2>> /\ "S_GT2" \in final_states /\ tid = FromState["S_GT2"]
      BY <2>10 DEF Repeated, final_states, FromState
    <3> QED BY <1>1, <1>2, <1>4, <2>1, <3>1, <3>2
  <2>11. CASE tid = "T_DRIVERENDDEF"
    <3>1. w = <<"C_GT", "C_GT", "C_GT">>
      BY <1>9, <2>11 DEF Fixed
    <3>2. "S_GT3" \in DOMAIN Repeated /\ Repeated["S_GT3"] = <<"C_GT", 3>> /\ "S_GT3" \in final_states /\ tid = FromState["S_GT3"]
      BY <2>11 DEF Repeated, final_states, FromState
    <3> QED BY <1>1, <1>2, <1>4, <2>1, <3>1, <3>2
  <2>12. tid \in {"T_SCO", "T_PM", "T_EQ", "T_NE", "T_ASSIGNOP", "T_LE", "T_GE", "T_MUL", "T_RANGEOP", "T_COLON", "T_LT",
              "T_DEF", "T_DRIVERDEF", "T_GT", "T_ENDDEF", "T_DRIVERENDDEF"}
    BY <1>9 DEF Fixed
  <2> QED BY <1>1, <1>2, <1>4, <1>9, <2>2, <2>3, <2>4, <2>5, <2>6, <2>7, <2>8, <2>9, <2>10, <2>11, <2>12
<1> QED BY <1>6, <1>7, <1>8, <1>9 DEF Word

LEMMA OneRead ==
  ASSUME NEW w, Len(w) = 1, NEW st \in DOMAIN Repeated, Repeated[st] = <<w[1], 1>>
  PROVE  Read(w, st)
<1>1. Repeated[st][1] = w[1] /\ Repeated[st][2] = 1
  OBVIOUS
<1>2. PICK n : n = Len(w)
  OBVIOUS
<1>3. n \in Nat \ {0} /\ n = Repeated[st][2] /\ \A k \in 1..n : w[k] = Repeated[st][1]
  BY <1>1, <1>2
<1>4. Shape(w, st, 1, n + 1)
  BY <1>3, RepeatedIs DEF IsRepeated
<1> QED BY <1>2, <1>4, StatesAre DEF Read

\* The operators that an equals sign completes.
BeforeEquals == {"S_EQ", "S_EXCL", "S_COLON", "S_LT", "S_GT"}

LEMMA PairsRead ==
  ASSUME NEW w \in Seq(Classes), NEW d \in Classes, Append(w, d) \in Pairs
  PROVE  d = "C_EQ" /\ \E st \in BeforeEquals : Read(w, st)
<1>1. PICK u : u = Append(w, d)
  OBVIOUS
<1>2. Len(u) = Len(w) + 1 /\ u[Len(w) + 1] = d /\ \A i \in 1..Len(w) : u[i] = w[i]
  <2>1. /\ Len(Append(w, d)) = Len(w) + 1 /\ Append(w, d)[Len(w) + 1] = d
        /\ \A i \in 1..Len(w) : Append(w, d)[i] = w[i]
    BY AppendProperties
  <2> QED BY <1>1, <2>1, Zenon
<1>3. Len(w) \in Nat
  BY LenProperties
<1>4. Len(u) = 2 /\ u[2] = "C_EQ" /\ u[1] \in {"C_EQ", "C_EXCL", "C_COLON", "C_LT", "C_GT"}
  <2>1. PICK c \in {"C_EQ", "C_EXCL", "C_COLON", "C_LT", "C_GT"} : u = <<c, "C_EQ">>
    BY <1>1, Zenon DEF Pairs
  <2>2. u[1] = c /\ u[2] = "C_EQ" /\ Len(u) = 2
    BY <2>1
  <2> QED BY <2>2
<1>5. Len(w) = 1 /\ d = "C_EQ" /\ w[1] = u[1]
  <2>1. PICK n : n = Len(w)
    OBVIOUS
  <2>2. n \in Nat /\ n + 1 = 2 /\ u[n + 1] = d /\ \A i \in 1..n : u[i] = w[i]
    BY <1>2, <1>3, <1>4, <2>1, Zenon
  <2>3. n = 1
    BY <2>2
  <2>4. u[1 + 1] = d /\ u[1] = w[1]
    BY <2>2, <2>3
  <2>5. 1 + 1 = 2
    OBVIOUS
  <2> QED BY <1>4, <2>1, <2>3, <2>4, <2>5, Zenon
<1>6. PICK c : c = w[1] /\ c \in {"C_EQ", "C_EXCL", "C_COLON", "C_LT", "C_GT"}
  BY <1>4, <1>5
<1>7. PICK st \in BeforeEquals : st \in DOMAIN Repeated /\ Repeated[st] = <<c, 1>>
  <2>1. /\ BeforeEquals \subseteq DOMAIN Repeated
        /\ Repeated["S_EQ"] = <<"C_EQ", 1>> /\ Repeated["S_EXCL"] = <<"C_EXCL", 1>>
        /\ Repeated["S_COLON"] = <<"C_COLON", 1>> /\ Repeated["S_LT"] = <<"C_LT", 1>> /\ Repeated["S_GT"] = <<"C_GT", 1>>
    BY DEF Repeated, BeforeEquals
  <2> QED BY <1>6, <2>1 DEF BeforeEquals
<1>8. Read(w, st)
  BY <1>5, <1>6, <1>7, OneRead
<1> QED BY <1>5, <1>8

LEMMA ReadBefore ==
  ASSUME NEW w \in Seq(Classes), NEW d \in Classes, Len(w) # 0, NEW st, Read(Append(w, d), st)
  PROVE  \E st1 : Read(w, st1) /\ Adds(st1, d, st)
<1>1. PICK u, n : u = Append(w, d) /\ n = Len(w)
  OBVIOUS
<1>2. Len(u) = n + 1 /\ u[n + 1] = d /\ \A i \in 1..n : u[i] = w[i]
  <2>1. /\ Len(Append(w, d)) = Len(w) + 1 /\ Append(w, d)[Len(w) + 1] = d
        /\ \A i \in 1..Len(w) : Append(w, d)[i] = w[i]
    BY AppendProperties
  <2> QED BY <1>1, <2>1, Zenon
<1>3. n \in Nat \ {0}
  BY <1>1, LenProperties
<1>4. st \in States \ EmptyStates /\ Shape(u, st, 1, n + 1 + 1)
  BY <1>1, <1>2 DEF Read
<1>5. PICK st1 \in States \ EmptyStates : Shape(u, st1, 1, n + 1) /\ Adds(st1, u[n + 1], st)
  BY <1>3, <1>4, ShapeUngrown
<1>6. Shape(w, st1, 1, n + 1)
  <2>1. 0 \in Nat /\ 0 + 1 = 1 /\ 0 + n + 1 = n + 1 /\ \A i \in 1..n : 0 + i = i
    BY <1>3
  <2>2. \A i \in 1..n : w[i] = u[0 + i]
    BY <1>2, <2>1
  <2>3. Shape(u, st1, 0 + 1, 0 + n + 1)
    BY <1>5, <2>1, Zenon
  <2> QED BY <1>3, <2>1, <2>2, <2>3, ShapeShift
<1> QED BY <1>1, <1>2, <1>5, <1>6 DEF Read

\* Whatever can become a word is read in some state, the words apart that the
\* automaton takes at once.
LEMMA ViableShapes ==
  ASSUME NEW w \in Seq(Classes), Len(w) # 0, Viable(w)
  PROVE  w \in Marks \cup Pairs \cup {CommentMark} \/ \E st : Read(w, st)
<1>1. CASE IsWord(w)
  <2>1. PICK tid : Word(w, tid)
    BY <1>1 DEF IsWord
  <2> QED BY <2>1, WordShapes
<1>2. ASSUME NEW d \in {"C_DIG", "C_EQ", "C_DOT"}, IsWord(Append(w, d))
      PROVE  \E st : Read(w, st)
  <2>1. PICK u : u = Append(w, d)
    OBVIOUS
  <2>2. d \in Classes /\ u \in Seq(Classes) /\ Len(u) = Len(w) + 1
    <3>1. d \in Classes
      BY DEF Classes
    <3>2. Append(w, d) \in Seq(Classes) /\ Len(Append(w, d)) = Len(w) + 1
      BY <3>1, AppendProperties
    <3> QED BY <2>1, <3>1, <3>2, Zenon
  <2>3. PICK tid : Word(u, tid)
    BY <1>2, <2>1 DEF IsWord
  <2>4. u \in Marks \cup Pairs \/ \E st : Read(u, st)
    BY <2>2, <2>3, WordShapes
  <2>5. u \notin Marks
    <3>1. Len(w) \in Nat
      BY LenProperties
    <3>2. \A v \in Marks : Len(v) = 1
      BY DEF Marks
    <3> QED BY <2>2, <3>1, <3>2
  <2>6. CASE u \in Pairs
    BY <2>1, <2>2, <2>6, PairsRead
  <2>7. CASE \E st : Read(u, st)
    BY <2>1, <2>2, <2>7, ReadBefore
  <2> QED BY <2>4, <2>5, <2>6, <2>7
<1> QED BY <1>1, <1>2 DEF Viable

\* The table has an entry for every character that can continue a lexeme.
LEMMA ViableListed ==
  ASSUME NEW w \in Seq(Classes), Len(w) # 0, NEW st, Read(w, st), NEW c \in Classes, Viable(Append(w, c))
  PROVE  <<st, c>> \in Listed
<1>1. PICK u, n : u = Append(w, c) /\ n = Len(w)
  OBVIOUS
<1>2. u \in Seq(Classes) /\ Len(u) = n + 1 /\ u[n + 1] = c /\ \A i \in 1..n : u[i] = w[i]
  <2>1. /\ Append(w, c) \in Seq(Classes) /\ Len(Append(w, c)) = Len(w) + 1 /\ Append(w, c)[Len(w) + 1] = c
        /\ \A i \in 1..Len(w) : Append(w, c)[i] = w[i]
    BY AppendProperties
  <2> QED BY <1>1, <2>1, Zenon
<1>3. n \in Nat \ {0}
  BY <1>1, LenProperties
<1>4. ASSUME NEW st1, Read(w, st1) PROVE st1 = st
  <2>1. /\ st1 \in States \ EmptyStates /\ Shape(w, st1, 1, n + 1)
        /\ st \in States \ EmptyStates /\ Shape(w, st, 1, n + 1)
    BY <1>1, <1>4 DEF Read
  <2> QED BY <1>3, <2>1, ShapeUnique
<1>5. u \in Marks \cup Pairs \cup {CommentMark} \/ \E st2 : Read(u, st2)
  <2>1. Len(u) # 0 /\ Viable(u)
    BY <1>1, <1>2, <1>3
  <2> QED BY <1>2, <2>1, ViableShapes
<1>6. CASE \E st2 : Read(u, st2)
  <2>1. PICK st2 : Read(Append(w, c), st2)
    BY <1>1, <1>6
  <2>2. PICK st1 : Read(w, st1) /\ Adds(st1, c, st2)
    BY <2>1, ReadBefore
  <2> QED BY <1>4, <2>2, AddsListed
<1>7. \A a, x : <<st, c, a, x>> \in Edges => <<st, c>> \in Listed
  BY DEF Listed
<1>8. CASE u \in Pairs
  <2>1. c = "C_EQ" /\ \E st1 \in BeforeEquals : Read(w, st1)
    BY <1>1, <1>8, PairsRead
  <2>2. c = "C_EQ" /\ st \in BeforeEquals
    BY <1>4, <2>1
  <2>3. <<st, c, "S_START", "A_TOKF">> \in OperatorEdges
    BY <2>2 DEF OperatorEdges, Edge, BeforeEquals
  <2> QED BY <1>7, <2>3 DEF Edges
<1>9. CASE u = CommentMark
  <2>1. Len(u) = 2 /\ u[1] = "C_STAR" /\ u[2] = "C_STAR"
    BY <1>9 DEF CommentMark
  <2>2. n = 1 /\ c = "C_STAR" /\ w[1] = "C_STAR"
    <3>1. n + 1 = 2
      BY <1>2, <2>1, Zenon
    <3>2. n = 1 /\ 1 + 1 = 2 /\ 1 \in 1..1
      BY <1>3, <3>1
    <3>3. u[2] = c /\ u[1] = w[1]
      BY <1>2, <3>2, Zenon
    <3> QED BY <2>1, <3>2, <3>3
  <2>3. "S_STAR" \in DOMAIN Repeated /\ Repeated["S_STAR"] = <<"C_STAR", 1>>
    BY DEF Repeated
  <2>4. Repeated["S_STAR"] = <<w[1], 1>> /\ Len(w) = 1
    BY <1>1, <2>2, <2>3
  <2>5. Read(w, "S_STAR")
    BY <2>3, <2>4, OneRead
  <2>6. st = "S_STAR"
    BY <1>4, <2>5
  <2>7. <<st, c, "S_STAR2", "A_CLR">> \in CommentEdges
    BY <2>2, <2>6 DEF CommentEdges, Edge
  <2> QED BY <1>7, <2>7 DEF Edges
<1>10. u \notin Marks
  <2>1. \A v \in Marks : Len(v) = 1
    BY DEF Marks
  <2>2. n + 1 # 1
    BY <1>3
  <2> QED BY <1>2, <2>1, <2>2, Zenon
<1> QED BY <1>5, <1>6, <1>8, <1>9, <1>10

\* A word is read in a final state, and is of the token predicted from it.
LEMMA WordRead ==
  ASSUME NEW w \in Seq(Classes), NEW st, Read(w, st), NEW tid, Word(w, tid)
  PROVE  st \in final_states /\ (tid = FromState[st] \/ (tid = "T_KEYWORD" /\ st = "S_ID"))
<1>1. Len(w) \in Nat \ {0} /\ st \in States \ EmptyStates /\ Shape(w, st, 1, Len(w) + 1)
  BY WordShapes DEF Read
<1>2. ASSUME NEW st1, Read(w, st1) PROVE st1 = st
  <2>1. PICK n : n = Len(w)
    OBVIOUS
  <2>2. n \in Nat \ {0} /\ Shape(w, st, 1, n + 1) /\ Shape(w, st1, 1, n + 1) /\ st1 \in States \ EmptyStates
    BY <1>1, <1>2, <2>1 DEF Read
  <2> QED BY <1>1, <2>2, ShapeUnique
<1>3. w \notin Marks \cup Pairs
  <2>1. PICK n : n = Len(w)
    OBVIOUS
  <2>2. n \in Nat \ {0} /\ Shape(w, st, 1, n + 1)
    BY <1>1, <2>1
  <2>3. w[1] \in StartAdds /\ \A k \in 2..n : w[k] # "C_EQ"
    BY <1>1, <2>2, ShapeChars
  <2>4. \A v \in Marks : v[1] \notin StartAdds
    BY DEF Marks, StartAdds
  <2>5. \A v \in Pairs : Len(v) = 2 /\ v[2] = "C_EQ"
    BY DEF Pairs
  <2>6. 2 \in 2..2
    OBVIOUS
  <2> QED BY <2>1, <2>3, <2>4, <2>5, <2>6
<1> QED BY <1>2, <1>3, WordShapes

-----------------------------------------------------------------------------
(* Every token is the longest word from where it begins. *)

\* What cannot be read cannot become a word.
LEMMA DeadEnd ==
  ASSUME NEW v \in Seq(Classes), NEW n, n = Len(v), n # 0, v \notin Marks \cup Pairs,
         v[1] \in {"C_REST", "C_SCO", "C_PM"} \/ \E k \in 2..n : v[k] = "C_EQ"
  PROVE  ~Viable(v)
<1>1. n \in Nat \ {0}
  BY LenProperties
<1>2. v # CommentMark
  <2>1. v = CommentMark => v[1] = "C_STAR" /\ v[2] = "C_STAR" /\ Len(v) = 2
    BY DEF CommentMark
  <2>2. n = 2 => \A k \in 2..n : k = 2
    OBVIOUS
  <2> QED BY <2>1, <2>2
<1>3. ASSUME NEW st, Read(v, st) PROVE FALSE
  <2>1. st \in States \ EmptyStates /\ Shape(v, st, 1, n + 1)
    BY <1>3 DEF Read
  <2>2. v[1] \in StartAdds /\ \A k \in 2..n : v[k] # "C_EQ"
    BY <1>1, <2>1, ShapeChars
  <2> QED BY <2>2 DEF StartAdds
<1> QED BY <1>2, <1>3, ViableShapes

\* MaximalMunch for the token at f .. l of T, whose spelling is w.
MunchedAt(T, w, tid, lex, f, l) ==
  /\ l < Len(T) => \/ tid = "T_NUM" /\ Slice(T, l + 1, l + 2) = <<"C_DOT", "C_DOT">>
                   \/ ~Viable(Append(w, T[l + 1]))
                   \/ tid = "T_ERR" /\ (~Viable(w) \/ Overlong(T, f, l))
  /\ Overlong(T, f, l) => tid = "T_ERR"
  /\ ~Overlong(T, f, l) => /\ lex = w
                           /\ tid = "T_ERR" => ~IsWord(w) /\ (Viable(w) \/ Len(w) = 1)
                           /\ tid # "T_ERR" => Word(w, tid)
                           /\ tid = "T_KEYWORD" <=> Ident(w) /\ w \in Keywords

\* The lexeme that the automaton holds is the spelling, unless truncated.
LEMMA LexemeSpelled ==
  ASSUME NEW T \in Seq(Classes), NEW l \in 1..Len(T), NEW f \in 1..l, NEW lex \in Seq(Classes),
         Len(lex) = (l + 1) - f, \A i \in 1..Len(lex) : lex[i] = T[f + i - 1]
  PROVE  lex = SubSeq(T, f, l)
<1>1. PICK w, n : w = SubSeq(T, f, l) /\ n = (l + 1) - f
  OBVIOUS
<1>2. w \in Seq(Classes) /\ Len(w) = n /\ \A i \in 1..n : w[i] = T[(f - 1) + i]
  <2>1. /\ SubSeq(T, f, l) \in Seq(Classes) /\ Len(SubSeq(T, f, l)) = (l + 1) - f
        /\ \A i \in 1..((l + 1) - f) : SubSeq(T, f, l)[i] = T[(f - 1) + i]
    BY PartShape
  <2> QED BY <1>1, <2>1, Zenon
<1>3. \A i \in 1..n : f + i - 1 = (f - 1) + i
  BY <1>1
<1>4. Len(lex) = n /\ \A i \in 1..Len(lex) : lex[i] = w[i]
  BY <1>1, <1>2, <1>3
<1>5. lex = w
  BY <1>2, <1>4, SeqEqual
<1> QED BY <1>1, <1>5

\* What two characters that follow begin with.
LEMMA FirstOfPair ==
  ASSUME NEW T \in Seq(Classes), NEW i \in 1..Len(T), NEW a, NEW b, Slice(T, i, i + 1) = <<a, b>>
  PROVE  T[i] = a
  BY SMTT(30), PairIs

\* A word that ends before a character that no edge takes is the longest.
LEMMA MunchBefore ==
  ASSUME NEW T \in Seq(Classes), NEW st \in States \ EmptyStates, NEW p \in 1..Len(T), NEW f \in 1..(p - 1),
         Shape(T, st, f, p), <<st, T[p]>> \notin Listed, NEW lex \in Seq(Classes), NEW tr \in BOOLEAN,
         LexemeAt(T, st, f, p, lex, tr), Len(lex) < LEXEME_BUFSIZE,
         NEW tid, tid = IF tr THEN "T_ERR" ELSE token_check(predict_token_from_state(st), lex)
  PROVE  MunchedAt(T, SubSeq(T, f, p - 1), tid, lex, f, p - 1)
<1>1. PICK N, B, l, w, n : N = Len(T) /\ B = LEXEME_BUFSIZE /\ l = p - 1 /\ w = SubSeq(T, f, l) /\ n = (l + 1) - f
  OBVIOUS
<1>2. /\ N \in Nat /\ p \in Nat /\ B \in Nat /\ B >= 3 /\ l \in 1..Len(T) /\ f \in 1..l /\ l + 1 = p /\ n \in Nat \ {0}
      /\ l < N /\ l + 2 = p + 1
  <2>1. Len(T) \in Nat
    BY LenProperties
  <2> QED BY <1>1, <2>1, SizesAssumption
<1>3. /\ w \in Seq(Classes) /\ Len(w) = n /\ Shape(w, st, 1, n + 1)
  <2>1. /\ SubSeq(T, f, l) \in Seq(Classes) /\ Len(SubSeq(T, f, l)) = (l + 1) - f
        /\ (Shape(T, st, f, l + 1) => Shape(SubSeq(T, f, l), st, 1, Len(SubSeq(T, f, l)) + 1))
    BY <1>2, PartShape
  <2> QED BY <1>1, <1>2, <2>1, Zenon
<1>4. Read(w, st) /\ Len(w) # 0
  BY <1>2, <1>3 DEF Read
<1>5. T[p] \in Classes
  BY ElementOfSeq
<1>6. ~Viable(Append(w, T[l + 1]))
  BY <1>2, <1>3, <1>4, <1>5, ViableListed
<1>7. tr => tid = "T_ERR" /\ Overlong(T, f, l)
  BY <1>1, <1>2 DEF Overlong, LexemeAt
<1>8. ~tr => ~Overlong(T, f, l) /\ lex = w
  <2> SUFFICES ASSUME ~tr PROVE ~Overlong(T, f, l) /\ lex = w
    OBVIOUS
  <2>1. Len(lex) = n /\ n < B /\ \A i \in 1..Len(lex) : lex[i] = T[f + i - 1]
    BY <1>1, <1>2 DEF LexemeAt
  <2>2. lex = w
    BY <1>1, <1>2, <2>1, LexemeSpelled
  <2>3. ASSUME Digits(w), Slice(T, l + 1, l + 2) = <<"C_DOT", "C_DOT">> PROVE FALSE
    <3>0. Slice(T, p, p + 1) = <<"C_DOT", "C_DOT">>
      BY <1>2, <2>3, Zenon
    <3>1. T[p] = "C_DOT"
      BY <3>0, FirstOfPair, Zenon
    <3>2. Word(w, "T_NUM")
      BY <2>3 DEF Word
    <3>3. st \in final_states /\ "T_NUM" = FromState[st]
      BY <1>3, <1>4, <3>2, WordRead
    <3>4. st = "S_I1"
      BY <3>3 DEF final_states, FromState
    <3>5. Adds("S_I1", "C_DOT", "S_I2")
      BY DEF Adds
    <3> QED BY <3>1, <3>4, <3>5, AddsListed
  <2>4. ~(l - f + 1 >= LEXEME_BUFSIZE)
    BY <1>1, <1>2, <2>1
  <2> QED BY <1>1, <2>2, <2>3, <2>4 DEF Overlong
<1>9. ASSUME ~tr, st \in final_states
      PROVE  /\ tid # "T_ERR" /\ Word(w, tid)
             /\ tid = "T_KEYWORD" <=> Ident(w) /\ w \in Keywords
  <2>1. Word(w, FromState[st])
    BY <1>3, <1>9, FinalWord
  <2>2. tid = token_check(FromState[st], w) /\ FromState[st] \notin {"T_ERR", "T_KEYWORD"}
    BY <1>8, <1>9 DEF predict_token_from_state, final_states, FromState
  <2>3. FromState[st] = "T_ID" => Ident(w)
    BY <2>1 DEF Word, Fixed
  <2>4. Ident(w) => FromState[st] = "T_ID"
    <3>1. Ident(w) => Word(w, "T_ID")
      BY DEF Word
    <3>2. Word(w, "T_ID") => "T_ID" = FromState[st]
      BY <1>3, <1>4, WordRead
    <3> QED BY <3>1, <3>2
  <2>5. CASE FromState[st] = "T_ID"
    <3>1. Word(w, "T_KEYWORD")
      BY <2>3, <2>5 DEF Word
    <3> QED BY <2>1, <2>2, <2>3, <2>5, <3>1 DEF token_check
  <2>6. CASE FromState[st] # "T_ID"
    BY <2>1, <2>2, <2>4, <2>6 DEF token_check
  <2> QED BY <2>5, <2>6
<1>10. ASSUME ~tr, st \notin final_states
       PROVE  tid = "T_ERR" /\ ~IsWord(w) /\ Viable(w) /\ ~Ident(w)
  <2>1. tid = "T_ERR"
    BY <1>10 DEF predict_token_from_state, token_check
  <2>2. \A x : ~Word(w, x)
    BY <1>3, <1>4, <1>10, WordRead
  <2>3. ~IsWord(w) /\ ~Ident(w)
    BY <2>2 DEF IsWord, Word
  <2>4. Viable(w)
    BY <1>3, <1>4, ViableShape
  <2> QED BY <2>1, <2>3, <2>4
<1>11. MunchedAt(T, w, tid, lex, f, l)
  <2>1. CASE tr
    BY <1>6, <1>7, <2>1 DEF MunchedAt
  <2>2. CASE ~tr /\ st \in final_states
    BY <1>6, <1>8, <1>9, <2>2 DEF MunchedAt
  <2>3. CASE ~tr /\ st \notin final_states
    BY <1>6, <1>8, <1>10, <2>3 DEF MunchedAt
  <2> QED BY <2>1, <2>2, <2>3
<1> QED BY <1>1, <1>11

\* A token that the character read completes.
LEMMA MunchWith ==
  ASSUME NEW T \in Seq(Classes), NEW st, NEW p \in 1..Len(T), NEW f \in 1..p, NEW lex \in Seq(Classes),
         EndedBy(T, st, f, p, lex), st # "S_START" => Shape(T, st, f, p),
         NEW tid, tid = token_check(predict_token_from_char(lex[1]), lex)
  PROVE  MunchedAt(T, SubSeq(T, f, p), tid, lex, f, p)
<1>1. PICK N, B, w, n : N = Len(T) /\ B = LEXEME_BUFSIZE /\ w = SubSeq(T, f, p) /\ n = (p + 1) - f
  OBVIOUS
<1>2. N \in Nat /\ p \in Nat /\ f \in Nat /\ B \in Nat /\ B >= 3 /\ p \in 1..N
  <2>1. Len(T) \in Nat
    BY LenProperties
  <2> QED BY <1>1, <2>1, SizesAssumption
<1>3. n \in {1, 2} /\ Len(lex) = n /\ (st = "S_START" <=> n = 1) /\ (n = 2 => f = p - 1) /\ (n = 1 => f = p)
  BY <1>1, <1>2 DEF EndedBy
<1>4. \A i \in 1..Len(lex) : lex[i] = T[f + i - 1]
  <2>1. CASE n = 1
    <3>1. lex[1] = T[p] /\ f + 1 - 1 = p
      BY <1>2, <1>3, <2>1 DEF EndedBy
    <3>2. \A i \in 1..1 : i = 1
      OBVIOUS
    <3> QED BY <1>3, <2>1, <3>1, <3>2
  <2>2. CASE n = 2
    <3>1. lex[1] = T[f] /\ lex[2] = T[p] /\ f + 1 - 1 = f /\ f + 2 - 1 = p
      BY <1>2, <1>3, <2>2 DEF EndedBy
    <3>2. \A i \in 1..2 : i = 1 \/ i = 2
      OBVIOUS
    <3> QED BY <1>3, <2>2, <3>1, <3>2
  <2> QED BY <1>3, <2>1, <2>2
<1>5. lex = w
  BY <1>1, <1>3, <1>4, LexemeSpelled
<1>6. w \in Seq(Classes) /\ Len(w) = n
  BY <1>3, <1>5
<1>7. T[p] \in Classes
  BY ElementOfSeq
<1>8. p < N => T[p + 1] \in Classes
  <2>1. p < N => p + 1 \in 1..Len(T)
    BY <1>1, <1>2
  <2> QED BY <2>1, ElementOfSeq
<1>9. \/ n = 1 /\ w = <<T[p]>> /\ T[p] \in {"C_REST", "C_SCO", "C_PM"}
      \/ n = 2 /\ w \in Pairs
  <2>1. CASE n = 1
    <3>1. lex[1] = T[p] /\ T[p] \in {"C_REST", "C_SCO", "C_PM"}
      BY <1>3, <1>7, <2>1 DEF EndedBy, StartAdds, Classes
    <3>2. w = <<w[1]>>
      BY <1>6, <2>1, OneLong
    <3> QED BY <1>5, <2>1, <3>1, <3>2
  <2>2. CASE n = 2
    <3>1. st \in BeforeEquals /\ lex[1] = T[f] /\ lex[2] = "C_EQ" /\ p = f + 1 /\ Shape(T, st, f, p)
      BY <1>2, <1>3, <2>2 DEF EndedBy, BeforeEquals
    <3>2. T[f] \in {"C_EQ", "C_EXCL", "C_COLON", "C_LT", "C_GT"}
      <4>1. f \in f..(p - 1)
        BY <1>2, <3>1
      <4> QED BY <3>1, <4>1 DEF Shape, AllAt, BeforeEquals
    <3>3. w = <<w[1], w[2]>>
      BY <1>6, <2>2, TwoLong
    <3>4. w[1] = T[f] /\ w[2] = "C_EQ"
      BY <1>5, <3>1
    <3> QED BY <2>2, <3>2, <3>3, <3>4 DEF Pairs
  <2> QED BY <1>3, <2>1, <2>2
<1>10. ASSUME p < N PROVE ~Viable(Append(w, T[p + 1]))
  <2>1. PICK v, c : c = T[p + 1] /\ v = Append(w, c)
    OBVIOUS
  <2>2. v \in Seq(Classes) /\ Len(v) = n + 1 /\ \A i \in 1..n : v[i] = w[i]
    <3>1. c \in Classes
      BY <1>8, <1>10, <2>1
    <3>2. /\ Append(w, c) \in Seq(Classes) /\ Len(Append(w, c)) = Len(w) + 1
          /\ \A i \in 1..Len(w) : Append(w, c)[i] = w[i]
      BY <1>6, <3>1, AppendProperties
    <3> QED BY <1>6, <2>1, <3>2, Zenon
  <2>3. \A u \in Marks : Len(u) = 1
    BY DEF Marks
  <2>4. \A u \in Pairs : Len(u) = 2 /\ u[2] = "C_EQ" /\ u[1] \in {"C_EQ", "C_EXCL", "C_COLON", "C_LT", "C_GT"}
    BY DEF Pairs
  <2>5. ~Viable(v)
    <3>1. PICK m : m = n + 1
      OBVIOUS
    <3>2. CASE n = 1
      <4>1. w[1] \in {"C_REST", "C_SCO", "C_PM"}
        BY <1>9, <3>2
      <4>2. v[1] \in {"C_REST", "C_SCO", "C_PM"} /\ m = 2 /\ m # 0 /\ m # 1
        BY <2>2, <3>1, <3>2, <4>1
      <4>3. v \notin Marks \cup Pairs
        BY <2>2, <2>3, <2>4, <3>1, <4>2
      <4> QED BY <2>2, <3>1, <4>2, <4>3, DeadEnd
    <3>3. CASE n = 2
      <4>1. w[2] = "C_EQ"
        BY <1>9, <2>4, <3>3
      <4>2. v[2] = "C_EQ" /\ m = 3 /\ m # 0 /\ m # 1 /\ m # 2 /\ 2 \in 2..m
        BY <2>2, <3>1, <3>3, <4>1
      <4>3. v \notin Marks \cup Pairs
        BY <2>2, <2>3, <2>4, <3>1, <4>2
      <4> QED BY <2>2, <3>1, <4>2, <4>3, DeadEnd
    <3> QED BY <1>3, <3>2, <3>3
  <2> QED BY <2>1, <2>5
<1>11. ~Overlong(T, f, p)
  <2>1. p - f + 1 = n /\ ~(n >= B)
    BY <1>1, <1>2, <1>3
  <2>2. ~Digits(w)
    <3>1. DOMAIN w = 1..n /\ 1 \in 1..n /\ (n = 2 => 2 \in 1..n)
      BY <1>3, <1>6, LenProperties
    <3>2. w[1] # "C_DIG" \/ (n = 2 /\ w[2] # "C_DIG")
      <4>1. CASE n = 1
        BY <1>9, <4>1
      <4>2. CASE n = 2
        <5>1. \A u \in Pairs : u[2] = "C_EQ"
          BY DEF Pairs
        <5> QED BY <1>9, <4>2, <5>1
      <4> QED BY <1>3, <4>1, <4>2
    <3> QED BY <3>1, <3>2 DEF Digits
  <2> QED BY <1>1, <2>1, <2>2 DEF Overlong
<1>12. ~Ident(w)
  <2>1. w[1] \notin {"C_ALPHA", "C_E", "C_UNSC"}
    <3>1. \A u \in Pairs : u[1] \in {"C_EQ", "C_EXCL", "C_COLON", "C_LT", "C_GT"}
      BY DEF Pairs
    <3> QED BY <1>9, <3>1
  <2> QED BY <2>1 DEF Ident
<1>13. /\ tid # "T_KEYWORD"
       /\ tid = "T_ERR" => w = <<"C_REST">>
       /\ tid # "T_ERR" => Word(w, tid)
  <2>1. tid = predict_token_from_char(w[1])
    BY <1>5 DEF predict_token_from_char, token_check, FromChar
  <2>2. CASE n = 1
    <3>1. w[1] = T[p] /\ w = <<w[1]>> /\ w[1] \in {"C_REST", "C_SCO", "C_PM"}
      BY <1>9, <2>2
    <3> QED BY <2>1, <3>1 DEF predict_token_from_char, FromChar, Word, Fixed
  <2>3. CASE n = 2
    <3>1. PICK c \in {"C_EQ", "C_EXCL", "C_COLON", "C_LT", "C_GT"} : w = <<c, "C_EQ">>
      <4>1. w \in Pairs
        BY <1>9, <2>3
      <4> QED BY <4>1, Zenon DEF Pairs
    <3>2. w[1] = c
      BY <3>1
    <3>3. tid = predict_token_from_char(c)
      BY <2>1, <3>2
    <3>4. /\ tid \in {"T_EQ", "T_NE", "T_ASSIGNOP", "T_LE", "T_GE"}
          /\ <<c, "C_EQ">> \in Fixed[tid]
      BY <3>3 DEF predict_token_from_char, FromChar, Fixed
    <3>5. tid \in DOMAIN Fixed /\ tid # "T_ERR" /\ tid # "T_KEYWORD"
      BY <3>4 DEF Fixed
    <3> QED BY <3>1, <3>4, <3>5 DEF Word
  <2> QED BY <1>3, <2>2, <2>3
<1>14. w = <<"C_REST">> => ~IsWord(w) /\ Len(w) = 1
  <2> SUFFICES ASSUME w = <<"C_REST">> PROVE ~IsWord(w) /\ Len(w) = 1
    OBVIOUS
  <2>1. w[1] = "C_REST" /\ Len(w) = 1 /\ 1 # 0
    OBVIOUS
  <2>2. w \notin Marks \cup Pairs
    <3>1. \A u \in Marks \cup Pairs : u[1] # "C_REST"
      BY DEF Marks, Pairs
    <3> QED BY <2>1, <3>1
  <2>3. ~Viable(w)
    BY <1>6, <2>1, <2>2, DeadEnd
  <2> QED BY <2>1, <2>3 DEF Viable
<1>15. MunchedAt(T, w, tid, lex, f, p)
  BY <1>1, <1>5, <1>10, <1>11, <1>12, <1>13, <1>14 DEF MunchedAt
<1> QED BY <1>1, <1>15

\* A number before a range.
LEMMA MunchRange ==
  ASSUME NEW T \in Seq(Classes), NEW p \in 1..Len(T), NEW f \in 1..(p - 2),
         DigitsAt(T, f, p - 2), T[p - 1] = "C_DOT", T[p] = "C_DOT",
         NEW lexm \in Seq(Classes), Len(lexm) < LEXEME_BUFSIZE, NEW tr \in BOOLEAN,
         tr => p - f >= LEXEME_BUFSIZE,
         ~tr => Len(lexm) = p - f /\ \A i \in 1..Len(lexm) : lexm[i] = T[f + i - 1],
         NEW lex \in Seq(Classes), Len(lex) = Len(lexm) - 1, \A i \in 1..(Len(lexm) - 1) : lex[i] = lexm[i],
         NEW tid, tid = IF tr THEN "T_ERR" ELSE token_check("T_NUM", lex)
  PROVE  MunchedAt(T, SubSeq(T, f, p - 2), tid, lex, f, p - 2)
<1>1. PICK N, B, l, w, n, m :
        N = Len(T) /\ B = LEXEME_BUFSIZE /\ l = p - 2 /\ w = SubSeq(T, f, l) /\ n = (l + 1) - f /\ m = Len(lexm)
  OBVIOUS
<1>2. /\ N \in Nat /\ p \in Nat /\ B \in Nat /\ B >= 3 /\ l \in 1..Len(T) /\ f \in 1..l /\ n \in Nat \ {0}
      /\ l + 1 = p - 1 /\ l + 2 = p /\ p - 1 \in 1..Len(T) /\ p - 1 + 1 = p /\ p - 1 < N
      /\ m \in Nat /\ p - f = n + 1 /\ l - f + 1 = n
  <2>1. Len(T) \in Nat /\ Len(lexm) \in Nat
    BY LenProperties
  <2> QED BY <1>1, <2>1, SizesAssumption
<1>3. w \in Seq(Classes) /\ Len(w) = n /\ \A i \in 1..n : w[i] = T[(f - 1) + i]
  <2>1. /\ SubSeq(T, f, l) \in Seq(Classes) /\ Len(SubSeq(T, f, l)) = (l + 1) - f
        /\ \A i \in 1..((l + 1) - f) : SubSeq(T, f, l)[i] = T[(f - 1) + i]
    BY <1>2, PartShape
  <2> QED BY <1>1, <2>1, Zenon
<1>4. Digits(w) /\ w[1] = "C_DIG"
  <2>1. \A i \in 1..n : (f - 1) + i \in f..(p - 2)
    BY <1>1, <1>2
  <2>2. \A i \in 1..n : w[i] = "C_DIG"
    BY <1>3, <2>1 DEF DigitsAt
  <2>3. 1 <= n /\ 1 \in 1..n
    BY <1>2
  <2>4. DigitsAt(w, 1, Len(w))
    BY <1>3, <2>2, <2>3 DEF DigitsAt
  <2> QED BY <1>3, <2>2, <2>3, <2>4, DigitsIs
<1>5. Slice(T, l + 1, l + 2) = <<"C_DOT", "C_DOT">>
  <2>1. \A a, b : Slice(T, p - 1, p - 1 + 1) = <<a, b>> <=> p - 1 < Len(T) /\ T[p - 1] = a /\ T[p - 1 + 1] = b
    BY <1>2, PairIs
  <2>2. Slice(T, p - 1, p - 1 + 1) = <<"C_DOT", "C_DOT">>
    BY <1>1, <1>2, <2>1, Zenon
  <2> QED BY <1>2, <2>2, Zenon
<1>6. ~Ident(w)
  BY <1>4 DEF Ident
<1>7. CASE tr
  <2>1. n >= B \/ n = B - 1
    BY <1>1, <1>2, <1>7
  <2>2. Overlong(T, f, l)
    BY <1>1, <1>2, <1>4, <1>5, <2>1 DEF Overlong
  <2> QED BY <1>1, <1>7, <2>2 DEF MunchedAt
<1>8. CASE ~tr
  <2>1. m = n + 1 /\ n + 1 < B /\ \A i \in 1..m : lexm[i] = T[f + i - 1]
    BY <1>1, <1>2, <1>8
  <2>2. ~Overlong(T, f, l)
    <3>1. ~(n >= B) /\ n # B - 1
      BY <1>2, <2>1
    <3> QED BY <1>1, <1>2, <3>1 DEF Overlong
  <2>3. Len(lex) = n /\ \A i \in 1..n : lex[i] = T[f + i - 1]
    BY <1>1, <1>2, <2>1
  <2>4. lex = w
    BY <1>1, <1>2, <2>3, LexemeSpelled
  <2>5. tid = "T_NUM"
    BY <1>8 DEF token_check
  <2>6. Word(w, tid)
    BY <1>4, <2>5 DEF Word
  <2>7. MunchedAt(T, w, tid, lex, f, l)
    BY <1>5, <1>6, <2>2, <2>4, <2>5, <2>6 DEF MunchedAt
  <2> QED BY <1>1, <2>7
<1> QED BY <1>7, <1>8

MunchInv == \A i \in 1..Len(out) : out[i].tid # "T_EOF" =>
  MunchedAt(text, SubSeq(text, out[i].from, out[i].to), out[i].tid, out[i].lexeme, out[i].from, out[i].to)

LEMMA MunchKept ==
  ASSUME TypeOK, out' \in Seq(Token), text' = text, MunchInv,
         NEW action, NEW predicted \in Tids \ {"T_EOF"}, NEW lex, NEW first, NEW last,
         Deliver(action, predicted, lex, first, last),
         MunchedAt(text, SubSeq(text, first, last), IF trunc THEN "T_ERR" ELSE token_check(predicted, lex),
                   lex, first, last)
  PROVE  MunchInv'
<1>1. PICK t : /\ Len(out) \in Nat /\ Len(out') = Len(out) + 1 /\ out'[Len(out) + 1] = t
               /\ \A i \in 1..Len(out) : out'[i] = out[i]
               /\ t.tid = IF trunc THEN "T_ERR" ELSE token_check(predicted, lex)
               /\ t.lexeme = lex /\ t.from = first /\ t.to = last
  BY Delivered
<1>2. PICK n, o, q, T : n = Len(out) /\ o = out /\ q = out' /\ T = text
  OBVIOUS
<1>3. MunchedAt(T, SubSeq(T, t.from, t.to), t.tid, t.lexeme, t.from, t.to)
  BY <1>1, <1>2, Zenon
<1>4. \A i \in 1..n : o[i].tid # "T_EOF" =>
        MunchedAt(T, SubSeq(T, o[i].from, o[i].to), o[i].tid, o[i].lexeme, o[i].from, o[i].to)
  BY <1>2, Zenon DEF MunchInv
<1>5. n \in Nat /\ Len(q) = n + 1 /\ q[n + 1] = t /\ \A i \in 1..n : q[i] = o[i]
  BY <1>1, <1>2
<1>6. ASSUME NEW i \in 1..(n + 1), q[i].tid # "T_EOF"
      PROVE  MunchedAt(T, SubSeq(T, q[i].from, q[i].to), q[i].tid, q[i].lexeme, q[i].from, q[i].to)
  <2>1. CASE i = n + 1
    BY <1>3, <1>5, <2>1, Zenon
  <2>2. CASE i # n + 1
    <3>1. i \in 1..n
      BY <1>5, <2>2
    <3> QED BY <1>4, <1>5, <1>6, <3>1, Zenon
  <2> QED BY <2>1, <2>2
<1>7. \A i \in 1..(n + 1) : q[i].tid # "T_EOF" =>
        MunchedAt(T, SubSeq(T, q[i].from, q[i].to), q[i].tid, q[i].lexeme, q[i].from, q[i].to)
  BY <1>6
<1> QED BY <1>2, <1>5, <1>7, Zenon DEF MunchInv

LEMMA MunchInit == Init => MunchInv
BY EmptySeq DEF Init, MunchInv

LEMMA MunchStep ==
  TypeOK /\ SizeInv /\ ScanInv /\ MunchInv /\ TypeOK' /\ [Next]_vars => MunchInv'
<1> SUFFICES ASSUME TypeOK, SizeInv, ScanInv, MunchInv, TypeOK', [Next]_vars PROVE MunchInv'
  OBVIOUS
<1>0. /\ out' \in Seq(Token) /\ ReadInv /\ WordInv /\ text \in Seq(Classes)
  BY TextTyped DEF TypeOK, ScanInv
<1>1. ASSUME text' = text, out' = out PROVE MunchInv'
  BY <1>1 DEF MunchInv
<1>2. ASSUME NEW next \in States, AddChar(next) \/ Ignore(next) \/ NewLine(next) \/ ClearLexeme(next)
      PROVE MunchInv'
  <2>1. \E action : Quiet(action, next)
    BY <1>2 DEF AddChar, Ignore, NewLine, ClearLexeme
  <2>2. text' = text /\ out' = out
    BY <1>0, <2>1, QuietTakes DEF Takes
  <2> QED BY <1>1, <2>2
<1>3. ASSUME NEW next \in States, NEW action, TokenBefore(action, next) PROVE MunchInv'
  <2>1. PICK predicted : /\ predicted = IF action = "A_TOKS" THEN predict_token_from_state(s) ELSE "T_ERR"
                         /\ Deliver(action, predicted, lexeme, from, Pos - 1)
                         /\ Running /\ Pos \in 1..Len(text) /\ s \in States /\ s \notin EmptyStates
                         /\ <<s, text[Pos]>> \notin Listed /\ action = DefaultAction(s)
                         /\ from \in 1..(Pos - 1) /\ text' = text
    BY <1>0, <1>3, BeforeFacts
  <2>2. predicted \in Tids \ {"T_EOF"} /\ predicted = predict_token_from_state(s)
    BY <2>1, Predicted DEF DefaultAction, predict_token_from_state
  <2>3. PICK T, st, p, f, lex, tr, tid :
          /\ T = text /\ st = s /\ p = Pos /\ f = from /\ lex = lexeme /\ tr = trunc
          /\ tid = IF trunc THEN "T_ERR" ELSE token_check(predicted, lexeme)
    OBVIOUS
  <2>4. /\ T \in Seq(Classes) /\ st \in States \ EmptyStates /\ p \in 1..Len(T) /\ f \in 1..(p - 1)
        /\ <<st, T[p]>> \notin Listed
    BY <1>0, <2>1, <2>3
  <2>5. Shape(T, st, f, p) /\ LexemeAt(T, st, f, p, lex, tr)
    BY <1>0, <2>1, <2>3 DEF WordInv, ShapeInv, LexemeInv
  <2>6. lex \in Seq(Classes) /\ Len(lex) < LEXEME_BUFSIZE /\ tr \in BOOLEAN
    BY <2>3 DEF TypeOK, SizeInv
  <2>7. tid = IF tr THEN "T_ERR" ELSE token_check(predict_token_from_state(st), lex)
    BY <2>2, <2>3, Zenon
  <2>8. MunchedAt(T, SubSeq(T, f, p - 1), tid, lex, f, p - 1)
    BY <2>4, <2>5, <2>6, <2>7, MunchBefore
  <2>9. MunchedAt(text, SubSeq(text, from, Pos - 1), IF trunc THEN "T_ERR" ELSE token_check(predicted, lexeme),
                  lexeme, from, Pos - 1)
    BY <2>3, <2>8, Zenon
  <2> QED BY <1>0, <2>1, <2>2, <2>9, MunchKept
<1>4. ASSUME NEW next \in States, TokenWith(next) PROVE MunchInv'
  <2>1. PICK lex, first :
          /\ Deliver("A_TOKF", predict_token_from_char(lex[1]), lex, first, Pos)
          /\ EndedBy(text, s, first, Pos, lex) /\ first \in 1..Pos /\ lex \in Seq(Classes)
          /\ s # "S_START" => first = from
          /\ ~trunc /\ Running /\ Pos \in 1..Len(text) /\ text' = text
    BY <1>0, <1>4, WithFacts
  <2>2. PICK predicted, T, st, p, tid :
          /\ predicted = predict_token_from_char(lex[1])
          /\ T = text /\ st = s /\ p = Pos /\ tid = token_check(predict_token_from_char(lex[1]), lex)
    OBVIOUS
  <2>3. predicted \in Tids \ {"T_EOF"} /\ Deliver("A_TOKF", predicted, lex, first, p)
    BY <2>1, <2>2, Predicted
  <2>4. /\ T \in Seq(Classes) /\ p \in 1..Len(T) /\ first \in 1..p /\ EndedBy(T, st, first, p, lex)
    BY <1>0, <2>1, <2>2
  <2>5. st # "S_START" => Shape(T, st, first, p)
    BY <1>0, <2>1, <2>2 DEF WordInv, ShapeInv
  <2>6. MunchedAt(T, SubSeq(T, first, p), tid, lex, first, p)
    BY <2>1, <2>2, <2>4, <2>5, MunchWith
  <2>7. tid = IF trunc THEN "T_ERR" ELSE token_check(predicted, lex)
    BY <2>1, <2>2
  <2>8. MunchedAt(text, SubSeq(text, first, p), IF trunc THEN "T_ERR" ELSE token_check(predicted, lex), lex, first, p)
    BY <2>2, <2>6, <2>7, Zenon
  <2> QED BY <1>0, <2>1, <2>3, <2>8, MunchKept
<1>5. ASSUME NEW next \in States, NumberBeforeRange(next) PROVE MunchInv'
  <2>1. PICK lex : /\ Deliver("A_TOKN", "T_NUM", lex, from, Pos - 2)
                   /\ lex \in Seq(Classes) /\ Len(lex) = Len(lexeme) - 1
                   /\ \A i \in 1..(Len(lexeme) - 1) : lex[i] = lexeme[i]
    BY <1>0, <1>5, RangeFacts
  <2>2. /\ Running /\ Pos \in 1..Len(text) /\ s = "S_I2" /\ s \notin EmptyStates
        /\ text[Pos] = "C_DOT" /\ text[Pos - 1] = "C_DOT"
        /\ from \in 1..(Pos - 2) /\ DigitsAt(text, from, Pos - 2) /\ text' = text
    BY <1>0, <1>5, BeforeRange DEF EmptyStates
  <2>3. PICK T, p, f, lexm, tr, tid :
          /\ T = text /\ p = Pos /\ f = from /\ lexm = lexeme /\ tr = trunc
          /\ tid = IF trunc THEN "T_ERR" ELSE token_check("T_NUM", lex)
    OBVIOUS
  <2>4. /\ T \in Seq(Classes) /\ p \in 1..Len(T) /\ f \in 1..(p - 2) /\ DigitsAt(T, f, p - 2)
        /\ T[p - 1] = "C_DOT" /\ T[p] = "C_DOT"
    BY <1>0, <2>2, <2>3
  <2>5. lexm \in Seq(Classes) /\ Len(lexm) < LEXEME_BUFSIZE /\ tr \in BOOLEAN
    BY <2>3 DEF TypeOK, SizeInv
  <2>6. /\ tr => p - f >= LEXEME_BUFSIZE
        /\ ~tr => Len(lexm) = p - f /\ \A i \in 1..Len(lexm) : lexm[i] = T[f + i - 1]
    BY <1>0, <2>2, <2>3 DEF WordInv, LexemeInv, LexemeAt
  <2>7. Len(lex) = Len(lexm) - 1 /\ \A i \in 1..(Len(lexm) - 1) : lex[i] = lexm[i]
    BY <2>1, <2>3
  <2>8. tid = IF tr THEN "T_ERR" ELSE token_check("T_NUM", lex)
    BY <2>3
  <2>9. MunchedAt(T, SubSeq(T, f, p - 2), tid, lex, f, p - 2)
    BY <2>1, <2>4, <2>5, <2>6, <2>7, <2>8, MunchRange
  <2>10. MunchedAt(text, SubSeq(text, from, Pos - 2), IF trunc THEN "T_ERR" ELSE token_check("T_NUM", lex),
                   lex, from, Pos - 2)
    BY <2>3, <2>9, Zenon
  <2>11. "T_NUM" \in Tids \ {"T_EOF"}
    BY Predicted
  <2> QED BY <1>0, <2>1, <2>2, <2>10, <2>11, MunchKept
<1>6. ASSUME EndOfFile PROVE MunchInv'
  <2>1. /\ text' = text /\ Len(out) \in Nat /\ Len(out') = Len(out) + 1
        /\ \A i \in 1..Len(out) : out'[i] = out[i]
        /\ out'[Len(out) + 1].tid = "T_EOF"
    BY <1>6, EndsRunning
  <2>2. PICK n, o, q, T : n = Len(out) /\ o = out /\ q = out' /\ T = text
    OBVIOUS
  <2>3. \A i \in 1..n : o[i].tid # "T_EOF" =>
          MunchedAt(T, SubSeq(T, o[i].from, o[i].to), o[i].tid, o[i].lexeme, o[i].from, o[i].to)
    BY <2>2, Zenon DEF MunchInv
  <2>4. ASSUME NEW i \in 1..(n + 1), q[i].tid # "T_EOF"
        PROVE  MunchedAt(T, SubSeq(T, q[i].from, q[i].to), q[i].tid, q[i].lexeme, q[i].from, q[i].to)
    <3>1. i \in 1..n /\ q[i] = o[i]
      BY <2>1, <2>2, <2>4
    <3> QED BY <2>3, <2>4, <3>1, Zenon
  <2>5. \A i \in 1..(n + 1) : q[i].tid # "T_EOF" =>
          MunchedAt(T, SubSeq(T, q[i].from, q[i].to), q[i].tid, q[i].lexeme, q[i].from, q[i].to)
    BY <2>4
  <2> QED BY <2>1, <2>2, <2>5, Zenon DEF MunchInv
<1>7. ASSUME UNCHANGED vars PROVE MunchInv'
  BY <1>1, <1>7 DEF vars, input, dfa
<1> QED BY <1>2, <1>3, <1>4, <1>5, <1>6, <1>7 DEF Next, Done

\* The inductive invariant of the words delivered: each was the longest where it
\* starts when token_check named it, and what is delivered stays as it is.
THEOREM MunchInvariant == Spec => [](TypeOK /\ SizeInv /\ ScanInv /\ MunchInv)
<1>1. TypeOK /\ SizeInv /\ ScanInv /\ MunchInv /\ [Next]_vars => (TypeOK /\ SizeInv /\ ScanInv /\ MunchInv)'
  BY StepInv, ScanStep, MunchStep
<1> QED BY <1>1, InitInv, ScanInit, MunchInit, PTL DEF Spec

\* MaximalMunch for every text, every size of the buffers of at least three
\* and every set of keywords: the automaton of precompute_dfa (lexer.c:112)
\* takes the words of the language, the longest there is, and reports what is
\* none or too long.
THEOREM LongestWords == Spec => []MaximalMunch
<1>1. TypeOK /\ SizeInv /\ ScanInv /\ MunchInv => MaximalMunch
  <2> SUFFICES ASSUME TypeOK, MunchInv, NEW i \in Tokens
               PROVE  LET t == out[i]  w == Spelling(t) IN
                      /\ t.to < Len(text) /\ ~(t.tid = "T_NUM" /\ Slice(text, t.to + 1, t.to + 2) = <<"C_DOT", "C_DOT">>)
                           => ~Viable(Append(w, text[t.to + 1])) \/ (t.tid = "T_ERR" /\ ~Viable(w))
                              \/ (TooLong(t) /\ t.tid = "T_ERR")
                      /\ IF TooLong(t) THEN t.tid = "T_ERR"
                         ELSE /\ t.lexeme = w
                              /\ IF t.tid = "T_ERR" THEN ~IsWord(w) /\ (Viable(w) \/ Len(w) = 1)
                                 ELSE Word(w, t.tid)
                              /\ t.tid = "T_KEYWORD" <=> (Ident(w) /\ w \in Keywords)
    BY DEF MaximalMunch
  <2>1. i \in 1..Len(out) /\ out[i].tid # "T_EOF"
    BY LenProperties DEF Tokens, TypeOK
  <2>2. PICK t, w : t = out[i] /\ w = SubSeq(text, t.from, t.to)
    OBVIOUS
  <2>3. MunchedAt(text, w, t.tid, t.lexeme, t.from, t.to)
    BY <2>1, <2>2, Zenon DEF MunchInv
  <2>4. TooLong(t) <=> Overlong(text, t.from, t.to)
    BY DEF TooLong, Overlong, Spelling
  <2>5. Spelling(t) = w
    BY <2>2 DEF Spelling
  <2>6. t.to < Len(text) /\ ~(t.tid = "T_NUM" /\ Slice(text, t.to + 1, t.to + 2) = <<"C_DOT", "C_DOT">>)
          => ~Viable(Append(w, text[t.to + 1])) \/ (t.tid = "T_ERR" /\ ~Viable(w)) \/ (TooLong(t) /\ t.tid = "T_ERR")
    BY <2>3, <2>4, Zenon DEF MunchedAt
  <2>7. IF TooLong(t) THEN t.tid = "T_ERR"
        ELSE /\ t.lexeme = w
             /\ IF t.tid = "T_ERR" THEN ~IsWord(w) /\ (Viable(w) \/ Len(w) = 1)
                ELSE Word(w, t.tid)
             /\ t.tid = "T_KEYWORD" <=> (Ident(w) /\ w \in Keywords)
    BY <2>3, <2>4, Zenon DEF MunchedAt
  <2> QED BY <2>2, <2>5, <2>6, <2>7, Zenon
<1> QED BY <1>1, MunchInvariant, PTL
-----------------------------------------------------------------------------
(* The errors counted are those of the tokens delivered.                   *)

\* What a token was counted for when it was delivered.
TokenErrors(t) == IF t.tid = "T_ERR" THEN 1 ELSE IF t.tid = "T_ID" THEN IdErrors(t.lexeme) ELSE 0

\* c says how many errors there were after each of the first n tokens of o.
Counting(c, n, o) == c[0] = 0 /\ \A i \in 1..n : c[i] \in Nat /\ c[i] = c[i - 1] + TokenErrors(o[i])

CountInv == \E c : Counting(c, Len(out), out) /\ c[Len(out)] = error_count

LEMMA CountInit == Init => CountInv
<1> SUFFICES ASSUME Init PROVE CountInv
  OBVIOUS
<1>1. Len(out) = 0 /\ error_count = 0
  BY EmptySeq DEF Init
<1>2. PICK c : c = [i \in {0} |-> 0]
  OBVIOUS
<1>3. c[0] = 0 /\ 1..0 = {}
  BY <1>2
<1>4. Counting(c, 0, out)
  BY <1>3 DEF Counting
<1> QED BY <1>1, <1>3, <1>4 DEF CountInv

\* One more token, with what it was counted for.
LEMMA CountAppended ==
  ASSUME CountInv, error_count \in Nat, NEW n, n = Len(out), n \in Nat, Len(out') = n + 1,
         \A i \in 1..n : out'[i] = out[i], TokenErrors(out'[n + 1]) \in Nat,
         error_count' = error_count + TokenErrors(out'[n + 1])
  PROVE  CountInv'
<1>1. PICK o, q, e, x : o = out /\ q = out' /\ e = error_count /\ x = TokenErrors(out'[n + 1])
  OBVIOUS
<1>2. PICK c : Counting(c, n, o) /\ c[n] = e
  BY <1>1 DEF CountInv
<1>3. PICK d : d = [i \in 0..(n + 1) |-> IF i = n + 1 THEN e + x ELSE c[i]]
  OBVIOUS
<1>4. /\ \A i \in 0..n : d[i] = c[i]
      /\ d[n + 1] = e + x
  BY <1>3
<1>5. d[0] = 0
  BY <1>2, <1>4 DEF Counting
<1>6. ASSUME NEW i \in 1..(n + 1) PROVE d[i] \in Nat /\ d[i] = d[i - 1] + TokenErrors(q[i])
  <2>1. CASE i = n + 1
    <3>1. d[i - 1] = e
      BY <1>2, <1>4, <2>1
    <3>2. TokenErrors(q[i]) = x
      BY <1>1, <2>1
    <3> QED BY <1>1, <1>4, <2>1, <3>1, <3>2
  <2>2. CASE i # n + 1
    <3>1. i \in 1..n /\ i \in 0..n /\ i - 1 \in 0..n
      BY <2>2
    <3>2. c[i] \in Nat /\ c[i] = c[i - 1] + TokenErrors(o[i])
      BY <1>2, <3>1 DEF Counting
    <3>3. q[i] = o[i]
      BY <1>1, <3>1
    <3>4. d[i] = c[i] /\ d[i - 1] = c[i - 1]
      BY <1>4, <3>1
    <3> QED BY <3>2, <3>3, <3>4
  <2> QED BY <2>1, <2>2
<1>7. Counting(d, n + 1, q)
  BY <1>5, <1>6 DEF Counting
<1>8. d[n + 1] = error_count'
  BY <1>1, <1>4
<1> QED BY <1>1, <1>7, <1>8 DEF CountInv

\* Deliver counts the token it hands over.
LEMMA CountDelivered ==
  ASSUME TypeOK, CountInv, out' \in Seq(Token), NEW action, NEW predicted \in Tids \ {"T_EOF"},
         NEW lex, NEW first, NEW last, Deliver(action, predicted, lex, first, last)
  PROVE  CountInv'
<1>1. PICK t : /\ Len(out) \in Nat /\ Len(out') = Len(out) + 1 /\ out'[Len(out) + 1] = t
               /\ \A i \in 1..Len(out) : out'[i] = out[i]
               /\ t.lexeme = lex /\ t.tid = IF trunc THEN "T_ERR" ELSE token_check(predicted, lex)
  BY Delivered
<1>2. PICK tid : tid = IF trunc THEN "T_ERR" ELSE token_check(predicted, lex)
  OBVIOUS
<1>3. error_count' = error_count + (IF tid = "T_ERR" THEN 1 ELSE IF tid = "T_ID" THEN IdErrors(lex) ELSE 0)
  BY <1>2, Zenon DEF Deliver
<1>4. error_count' = error_count + TokenErrors(out'[Len(out) + 1])
  BY <1>1, <1>2, <1>3 DEF TokenErrors
<1>5. IdErrors(lex) \in Nat
  BY DEF IdErrors
<1>6. TokenErrors(out'[Len(out) + 1]) \in Nat
  BY <1>1, <1>5 DEF TokenErrors
<1>7. error_count \in Nat
  BY DEF TypeOK
<1> QED BY <1>1, <1>4, <1>6, <1>7, CountAppended

LEMMA CountStep ==
  TypeOK /\ SizeInv /\ ScanInv /\ CountInv /\ TypeOK' /\ [Next]_vars => CountInv'
<1> SUFFICES ASSUME TypeOK, SizeInv, ScanInv, CountInv, TypeOK', [Next]_vars PROVE CountInv'
  OBVIOUS
<1>0. out' \in Seq(Token) /\ ReadInv /\ WordInv
  BY DEF TypeOK, ScanInv
<1>1. ASSUME out' = out, error_count' = error_count PROVE CountInv'
  BY <1>1 DEF CountInv
<1>2. ASSUME NEW next \in States, AddChar(next) \/ Ignore(next) \/ NewLine(next) \/ ClearLexeme(next)
      PROVE CountInv'
  <2>1. \E action : Quiet(action, next)
    BY <1>2 DEF AddChar, Ignore, NewLine, ClearLexeme
  <2> QED BY <1>1, <2>1 DEF Quiet
<1>3. ASSUME NEW next \in States, NEW action, TokenBefore(action, next) PROVE CountInv'
  <2>1. PICK predicted : /\ predicted = IF action = "A_TOKS" THEN predict_token_from_state(s) ELSE "T_ERR"
                         /\ Deliver(action, predicted, lexeme, from, Pos - 1) /\ s \in States
    BY <1>0, <1>3, BeforeFacts
  <2>2. predicted \in Tids \ {"T_EOF"}
    BY <2>1, Predicted
  <2> QED BY <1>0, <2>1, <2>2, CountDelivered
<1>4. ASSUME NEW next \in States, TokenWith(next) PROVE CountInv'
  <2>1. PICK lex, first : Deliver("A_TOKF", predict_token_from_char(lex[1]), lex, first, Pos)
    BY <1>0, <1>4, WithFacts
  <2>2. predict_token_from_char(lex[1]) \in Tids \ {"T_EOF"}
    BY Predicted
  <2> QED BY <1>0, <2>1, <2>2, CountDelivered
<1>5. ASSUME NEW next \in States, NumberBeforeRange(next) PROVE CountInv'
  <2>1. PICK lex : Deliver("A_TOKN", "T_NUM", lex, from, Pos - 2)
    BY <1>0, <1>5, RangeFacts
  <2> QED BY <1>0, <2>1, Predicted, CountDelivered
<1>6. ASSUME EndOfFile PROVE CountInv'
  <2>1. /\ Len(out) \in Nat /\ Len(out') = Len(out) + 1 /\ \A i \in 1..Len(out) : out'[i] = out[i]
        /\ out'[Len(out) + 1].tid = "T_EOF"
    BY <1>6, EndsRunning
  <2>2. TokenErrors(out'[Len(out) + 1]) = 0
    BY <2>1 DEF TokenErrors
  <2>3. error_count' = error_count /\ error_count \in Nat
    BY <1>6 DEF EndOfFile, dfa, TypeOK
  <2>4. TokenErrors(out'[Len(out) + 1]) \in Nat /\ error_count' = error_count + TokenErrors(out'[Len(out) + 1])
    BY <2>2, <2>3
  <2> QED BY <2>1, <2>3, <2>4, CountAppended
<1>7. ASSUME UNCHANGED vars PROVE CountInv'
  BY <1>1, <1>7 DEF vars, dfa
<1> QED BY <1>2, <1>3, <1>4, <1>5, <1>6, <1>7 DEF Next, Done

\* No token but an identifier or a keyword is spelled like an identifier.
LEMMA IdentWords ==
  ASSUME NEW w \in Seq(Classes), NEW tid, tid \notin {"T_ID", "T_KEYWORD"}, Word(w, tid)
  PROVE  ~Ident(w)
<1>1. Len(w) \in Nat
  BY LenProperties
<1>2. CASE tid = "T_NUM"
  <2>1. w # << >> /\ \A i \in DOMAIN w : w[i] = "C_DIG"
    BY <1>2 DEF Word, Digits, Fixed
  <2>2. 1 \in DOMAIN w
    BY <2>1, EmptySeq, LenProperties
  <2> QED BY <2>1, <2>2 DEF Ident
<1>3. CASE tid = "T_RNUM"
  <2>1. PICK i \in 1..Len(w) : Digits(SubSeq(w, 1, i))
    BY <1>3 DEF Word, RealNumber, Fixed
  <2>2. PICK v : v = SubSeq(w, 1, i)
    OBVIOUS
  <2>3. v \in Seq(Classes) /\ Len(v) = i /\ v[1] = w[1]
    <3>1. \A k \in 1..i : w[k] \in Classes
      BY ElementOfSeq
    <3>2. i \in 0..Len(w) /\ 1 \in 1..i
      BY <1>1
    <3>3. v = [k \in 1..i |-> w[k]]
      BY <1>1, <2>2, <3>2
    <3>4. v \in Seq(Classes) /\ Len(v) = i
      BY <3>1, <3>2, <3>3
    <3> QED BY <3>2, <3>3, <3>4
  <2>4. 1 \in DOMAIN v
    BY <2>3, LenProperties
  <2>5. w[1] = "C_DIG"
    BY <2>1, <2>2, <2>3, <2>4 DEF Digits
  <2> QED BY <2>5 DEF Ident
<1>4. CASE tid \in DOMAIN Fixed
  <2>1. w \in Fixed[tid]
    BY <1>4 DEF Word, Fixed
  <2>2. w[1] \in {"C_STAR", "C_SCO", "C_PM", "C_EQ", "C_EXCL", "C_DOT", "C_COLON", "C_LT", "C_GT"}
    BY <1>4, <2>1 DEF Fixed
  <2> QED BY <2>2 DEF Ident
<1> QED BY <1>2, <1>3, <1>4 DEF Word

\* What a token was counted for is what is wrong with its spelling.
LEMMA FaultsCounted ==
  ASSUME TypeOK, PlacesInv, MunchInv, NEW i \in 1..Len(out), out[i].tid # "T_EOF"
  PROVE  Faults(out[i]) = TokenErrors(out[i])
<1>1. PICK t, w : t = out[i] /\ w = SubSeq(text, t.from, t.to)
  OBVIOUS
<1>2. MunchedAt(text, w, t.tid, t.lexeme, t.from, t.to)
  BY <1>1, Zenon DEF MunchInv
<1>3. (TooLong(t) <=> Overlong(text, t.from, t.to)) /\ Spelling(t) = w
  BY <1>1 DEF TooLong, Overlong, Spelling
<1>4. IF TooLong(t) THEN t.tid = "T_ERR"
      ELSE /\ t.lexeme = w
           /\ IF t.tid = "T_ERR" THEN ~IsWord(w) /\ (Viable(w) \/ Len(w) = 1)
              ELSE Word(w, t.tid)
           /\ t.tid = "T_KEYWORD" <=> (Ident(w) /\ w \in Keywords)
  BY <1>2, <1>3, Zenon DEF MunchedAt
<1>5. /\ ~IsWord(w) \/ TooLong(t) => Faults(t) = 1
      /\ IsWord(w) /\ ~TooLong(t) /\ (~Ident(w) \/ w \in Keywords) => Faults(t) = 0
      /\ IsWord(w) /\ ~TooLong(t) /\ Ident(w) /\ w \notin Keywords => Faults(t) = IdErrors(w)
  <2>1. Faults(t) = IF ~IsWord(w) \/ TooLong(t) THEN 1
                    ELSE IF ~Ident(w) \/ w \in Keywords THEN 0 ELSE IdErrors(w)
    BY <1>3, Zenon DEF Faults, IdErrors
  <2> QED BY <2>1, Zenon
<1> SUFFICES Faults(t) = TokenErrors(t)
  BY <1>1
<1>6. CASE t.tid = "T_ERR"
  <2>1. ~IsWord(w) \/ TooLong(t)
    BY <1>4, <1>6, Zenon
  <2> QED BY <1>5, <1>6, <2>1 DEF TokenErrors
<1>7. CASE t.tid # "T_ERR"
  <2>1. ~TooLong(t)
    BY <1>4, <1>7, Zenon
  <2>2. t.lexeme = w /\ Word(w, t.tid)
    BY <1>4, <1>7, <2>1, Zenon
  <2>3. t.tid = "T_KEYWORD" <=> Ident(w) /\ w \in Keywords
    BY <1>4, <2>1, Zenon
  <2>4. IsWord(w)
    BY <2>2 DEF IsWord, Word
  <2>5. CASE t.tid = "T_ID"
    <3>1. Ident(w)
      BY <2>2, <2>5 DEF Word, Fixed
    <3>2. w \notin Keywords
      BY <2>3, <2>5, <3>1
    <3>3. Faults(t) = IdErrors(w)
      BY <1>5, <2>1, <2>4, <3>1, <3>2, Zenon
    <3> QED BY <2>2, <2>5, <3>3 DEF TokenErrors
  <2>6. CASE t.tid = "T_KEYWORD"
    <3>1. Faults(t) = 0
      BY <1>5, <2>1, <2>3, <2>4, <2>6, Zenon
    <3> QED BY <2>6, <3>1 DEF TokenErrors
  <2>7. CASE t.tid \notin {"T_ID", "T_KEYWORD"}
    <3>1. w \in Seq(Classes)
      <4>1. t.from \in 1..t.to /\ t.to \in 1..Len(text)
        BY <1>1 DEF PlacesInv, Placed
      <4>2. t.from \in Nat \ {0} /\ t.to \in Nat /\ t.from <= t.to + 1 /\ t.to <= Len(text)
        BY <4>1, TextTyped
      <4> QED BY <1>1, <4>2, TextTyped, SlicesOf
    <3>2. ~Ident(w)
      BY <2>2, <2>7, <3>1, IdentWords
    <3>3. Faults(t) = 0
      BY <1>5, <2>1, <2>4, <3>2, Zenon
    <3> QED BY <1>7, <2>7, <3>3 DEF TokenErrors
  <2> QED BY <2>5, <2>6, <2>7
<1> QED BY <1>6, <1>7

\* ErrorsCounted for every text and all sizes: deliver, check and post_process
\* (lexer.c:348, 487) together count each lexical error of the text once, so
\* that a text with one never reaches the parser as correct.
THEOREM EachErrorCounted == Spec => []ErrorsCounted
<1>1. TypeOK /\ SizeInv /\ ScanInv /\ CountInv /\ [Next]_vars => (TypeOK /\ SizeInv /\ ScanInv /\ CountInv)'
  BY StepInv, ScanStep, CountStep
<1>2. Spec => [](TypeOK /\ SizeInv /\ ScanInv /\ CountInv)
  BY <1>1, InitInv, ScanInit, CountInit, PTL DEF Spec
<1>3. TypeOK /\ SizeInv /\ ScanInv /\ MunchInv /\ CountInv => ErrorsCounted
  <2> SUFFICES ASSUME TypeOK, ScanInv, MunchInv, CountInv PROVE ErrorsCounted
    OBVIOUS
  <2>1. PICK n, o, e : n = Len(out) /\ o = out /\ e = error_count
    OBVIOUS
  <2>2. n \in Nat /\ Tokens = {i \in 1..n : o[i].tid # "T_EOF"}
    BY <2>1, LenProperties DEF TypeOK, Tokens
  <2>3. PICK c : Counting(c, n, o) /\ c[n] = e
    BY <2>1 DEF CountInv
  <2>4. PICK f : f = [i \in 0..n |-> c[i]]
    OBVIOUS
  <2>5. ASSUME NEW i \in 1..n
        PROVE  c[i] = c[i - 1] + (IF i \in Tokens THEN Faults(out[i]) ELSE 0)
    <3>1. c[i] \in Nat /\ c[i] = c[i - 1] + TokenErrors(o[i])
      BY <2>3 DEF Counting
    <3>2. CASE i \in Tokens
      <4>1. Faults(out[i]) = TokenErrors(o[i])
        BY <2>1, <2>2, <3>2, FaultsCounted DEF ScanInv
      <4> QED BY <3>1, <3>2, <4>1
    <3>3. CASE i \notin Tokens
      <4>1. TokenErrors(o[i]) = 0
        BY <2>2, <3>3 DEF TokenErrors
      <4> QED BY <3>1, <3>3, <4>1
    <3> QED BY <3>2, <3>3
  <2>6. PICK x : x = [i \in 1..n |-> IF i \in Tokens THEN Faults(out[i]) ELSE 0]
    OBVIOUS
  <2>7. \A i \in 1..n : c[i] = c[i - 1] + x[i]
    BY <2>5, <2>6
  <2>8. f = [i \in 0..n |-> IF i = 0 THEN 0 ELSE f[i - 1] + x[i]]
    <3>1. ASSUME NEW i \in 0..n PROVE c[i] = IF i = 0 THEN 0 ELSE f[i - 1] + x[i]
      <4>1. CASE i = 0
        BY <2>3, <4>1 DEF Counting
      <4>2. CASE i # 0
        <5>1. i \in 1..n /\ i - 1 \in 0..n
          BY <2>2, <4>2
        <5> QED BY <2>4, <2>7, <4>2, <5>1
      <4> QED BY <4>1, <4>2
    <3> QED BY <2>4, <3>1
  <2>9. PICK F : F = CHOOSE g : g = [i \in 0..n |-> IF i = 0 THEN 0 ELSE g[i - 1] + x[i]]
    OBVIOUS
  <2>10. F = [i \in 0..n |-> IF i = 0 THEN 0 ELSE F[i - 1] + x[i]]
    BY <2>8, <2>9, Zenon
  <2>11. F[n] = f[n]
    <3> DEFINE B == {i \in 0..n : F[i] # f[i]}
    <3>1. SUFFICES ASSUME B # {} PROVE FALSE
      <4>1. n \in 0..n
        BY <2>2
      <4> QED BY <4>1
    <3>2. PICK k \in B : \A j \in B : k <= j
      <4>1. B \subseteq Nat
        OBVIOUS
      <4> HIDE DEF B
      <4> QED BY <3>1, <4>1, SmallestExists DEF Smallest
    <3>3. k \in 0..n /\ F[k] # f[k]
      OBVIOUS
    <3>4. k # 0
      <4>1. F[0] = 0
        BY <2>2, <2>10
      <4>2. f[0] = 0
        BY <2>2, <2>8
      <4> QED BY <3>3, <4>1, <4>2
    <3>5. k - 1 \in 0..n /\ k - 1 < k
      <4>1. k \in 0..n
        BY <3>3
      <4> HIDE DEF B
      <4> QED BY <2>2, <3>4, <4>1
    <3>6. F[k - 1] = f[k - 1]
      BY <3>2, <3>5
    <3>7. F[k] = F[k - 1] + x[k]
      BY <2>10, <3>3, <3>4
    <3>8. f[k] = f[k - 1] + x[k]
      BY <2>8, <3>3, <3>4
    <3> QED BY <3>3, <3>6, <3>7, <3>8
  <2>12. F[n] = e
    <3>1. n \in 0..n
      BY <2>2
    <3> QED BY <2>3, <2>4, <2>11, <3>1
  <2>13. ErrorsCounted <=> error_count = F[Len(out)]
    <3>1. \A g : [i \in 0..n |-> IF i = 0 THEN 0 ELSE g[i - 1] + x[i]]
                 = [i \in 0..Len(out) |-> IF i = 0 THEN 0 ELSE g[i - 1] + (IF i \in Tokens THEN Faults(out[i]) ELSE 0)]
      <4> TAKE g
      <4>1. \A i \in 0..n : (IF i = 0 THEN 0 ELSE g[i - 1] + x[i])
                            = (IF i = 0 THEN 0 ELSE g[i - 1] + (IF i \in Tokens THEN Faults(out[i]) ELSE 0))
        BY <2>2, <2>6
      <4> QED BY <2>1, <4>1
    <3>2. F = CHOOSE g : g = [i \in 0..Len(out) |->
                IF i = 0 THEN 0 ELSE g[i - 1] + (IF i \in Tokens THEN Faults(out[i]) ELSE 0)]
      BY <2>9, <3>1, Zenon
    <3> QED BY <3>2, Zenon DEF ErrorsCounted
  <2> QED BY <2>1, <2>12, <2>13
<1> QED BY <1>2, <1>3, MunchInvariant, PTL
=============================================================================
