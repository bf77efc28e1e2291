-------------------------------- MODULE Lexer --------------------------------
(***************************************************************************)
(* The lexer (lexer.c): a table-driven automaton that reads characters     *)
(* through a small input buffer, collects the current lexeme in one of two *)
(* fixed-size buffers, and delivers one token per call of get_token.       *)
(*                                                                         *)
(* A character is represented by its class (get_cclass): the automaton     *)
(* tells no more apart.  T_SCO and T_PM stand for the tokens of the        *)
(* single-character operators and of + and -, which the lexeme decides.    *)
(* The program text has no NUL byte, which get_character takes for the end *)
(* of its buffer.                                                          *)
(***************************************************************************)
EXTENDS Integers, Sequences

CONSTANTS Texts,           \* the program texts considered: sequences of classes
          INPUT_CHUNK,     \* characters read at once: INPUT_BUFSIZE - 1 = 99
          LEXEME_BUFSIZE,  \* token.h: 30
          MaxIdLen,        \* longest identifier accepted: 8
          Keywords         \* lexemes in token_hmap

Classes == {"C_REST", "C_ALPHA", "C_E", "C_UNSC", "C_DIG", "C_WS", "C_NL", "C_SCO", "C_PM",
            "C_EQ", "C_EXCL", "C_DOT", "C_STAR", "C_COLON", "C_LT", "C_GT"}

ASSUME TextsAssumption == Texts \subseteq Seq(Classes)
ASSUME SizesAssumption == INPUT_CHUNK \in Nat \ {0} /\ LEXEME_BUFSIZE \in Nat /\ LEXEME_BUFSIZE >= 3
                          /\ MaxIdLen \in Nat

States == {"S_START", "S_STAR", "S_STAR2", "S_STAR3", "S_EQ", "S_EXCL", "S_DOT", "S_DOT2", "S_COLON",
           "S_LT", "S_LT2", "S_LT3", "S_GT", "S_GT2", "S_GT3", "S_ID", "S_I1", "S_I2", "S_E", "S_E2",
           "S_R1", "S_R2"}

\* Token predicted from a final state (predict_token_from_state) ...
FromState == [S_ID |-> "T_ID", S_I1 |-> "T_NUM", S_R1 |-> "T_RNUM", S_R2 |-> "T_RNUM",
              S_STAR |-> "T_MUL", S_DOT2 |-> "T_RANGEOP", S_COLON |-> "T_COLON",
              S_LT |-> "T_LT", S_LT2 |-> "T_DEF", S_LT3 |-> "T_DRIVERDEF",
              S_GT |-> "T_GT", S_GT2 |-> "T_ENDDEF", S_GT3 |-> "T_DRIVERENDDEF"]

\* ... and from the first character of a lexeme (predict_token_from_char).
FromChar == [C_PM |-> "T_PM", C_SCO |-> "T_SCO", C_EQ |-> "T_EQ", C_EXCL |-> "T_NE",
             C_COLON |-> "T_ASSIGNOP", C_LT |-> "T_LE", C_GT |-> "T_GE"]

MissingFinals == DOMAIN FromState \ {"S_R1", "S_LT2"}  \* mutant: two states forgotten
final_states == DOMAIN FromState

predict_token_from_state(st) == IF st \in final_states THEN FromState[st] ELSE "T_ERR"
predict_token_from_char(ch)  == IF ch \in DOMAIN FromChar THEN FromChar[ch] ELSE "T_ERR"

-----------------------------------------------------------------------------
(* The automaton: <<state, class, next state, action>>. *)

Edge(st, classes, next, action) == {st} \X classes \X {next} \X {action}

StartAdds == {"C_ALPHA", "C_E", "C_UNSC", "C_DIG", "C_STAR", "C_EQ", "C_EXCL", "C_DOT",
              "C_COLON", "C_LT", "C_GT"}

BlankEdges ==
  \* whitespace, characters that are tokens by themselves, restricted ones
  Edge("S_START", Classes \ ({"C_WS", "C_NL"} \cup StartAdds), "S_START", "A_TOKF")
    \cup Edge("S_START", {"C_WS"}, "S_START", "A_IGN")
    \cup Edge("S_START", {"C_NL"}, "S_START", "A_NL")

IdEdges ==
  Edge("S_START", {"C_ALPHA", "C_E", "C_UNSC"}, "S_ID", "A_ADD")
    \cup Edge("S_ID", {"C_ALPHA", "C_E", "C_DIG", "C_UNSC"}, "S_ID", "A_ADD")

NumberEdges == UNION {
  Edge("S_START", {"C_DIG"}, "S_I1", "A_ADD"),
  Edge("S_I1", {"C_DIG"}, "S_I1", "A_ADD"),
  Edge("S_I1", {"C_DOT"}, "S_I2", "A_ADD"),
  Edge("S_I1", {"C_E"}, "S_E", "A_ADD"),
  Edge("S_I2", {"C_DOT"}, "S_DOT2", "A_TOKN"),
  Edge("S_I2", {"C_DIG"}, "S_R1", "A_ADD"),
  Edge("S_I2", {"C_E"}, "S_E", "A_ADD"),
  Edge("S_R1", {"C_DIG"}, "S_R1", "A_ADD"),
  Edge("S_R1", {"C_E"}, "S_E", "A_ADD"),
  Edge("S_E", {"C_PM"}, "S_E2", "A_ADD"),
  Edge("S_E", {"C_DIG"}, "S_R2", "A_ADD"),
  Edge("S_E2", {"C_DIG"}, "S_R2", "A_ADD"),
  Edge("S_R2", {"C_DIG"}, "S_R2", "A_ADD")}

\* A single star is a multiplication; a comment is ended by a second star
\* after the two that began it, wherever it stands.
CommentEdges == UNION {
  Edge("S_START", {"C_STAR"}, "S_STAR", "A_ADD"),
  Edge("S_STAR", {"C_STAR"}, "S_STAR2", "A_CLR"),
  Edge("S_STAR2", Classes \ {"C_NL", "C_STAR"}, "S_STAR2", "A_IGN"),
  Edge("S_STAR2", {"C_NL"}, "S_STAR2", "A_NL"),
  Edge("S_STAR2", {"C_STAR"}, "S_STAR3", "A_IGN"),
  Edge("S_STAR3", Classes \ {"C_NL", "C_STAR"}, "S_STAR3", "A_IGN"),
  Edge("S_STAR3", {"C_NL"}, "S_STAR3", "A_NL"),
  Edge("S_STAR3", {"C_STAR"}, "S_START", "A_IGN")}

OperatorEdges == UNION {
  Edge("S_START", {"C_EQ"}, "S_EQ", "A_ADD"),
  Edge("S_START", {"C_EXCL"}, "S_EXCL", "A_ADD"),
  Edge("S_START", {"C_COLON"}, "S_COLON", "A_ADD"),
  Edge("S_START", {"C_DOT"}, "S_DOT", "A_ADD"),
  Edge("S_START", {"C_LT"}, "S_LT", "A_ADD"),
  Edge("S_START", {"C_GT"}, "S_GT", "A_ADD"),
  Edge("S_DOT", {"C_DOT"}, "S_DOT2", "A_ADD"),
  Edge("S_LT", {"C_LT"}, "S_LT2", "A_ADD"),
  Edge("S_LT2", {"C_LT"}, "S_LT3", "A_ADD"),
  Edge("S_GT", {"C_GT"}, "S_GT2", "A_ADD"),
  Edge("S_GT2", {"C_GT"}, "S_GT3", "A_ADD"),
  {"S_EQ", "S_EXCL", "S_COLON", "S_LT", "S_GT"} \X {"C_EQ"} \X {"S_START"} \X {"A_TOKF"}}

Edges == BlankEdges \cup IdEdges \cup NumberEdges \cup CommentEdges \cup OperatorEdges

\* All other entries of the table end the lexeme before the character.
DefaultAction(st) == IF st \in final_states THEN "A_TOKS" ELSE "A_ERR"

Listed == {<<e[1], e[2]>> : e \in Edges}

precompute_dfa ==
  Edges \cup {<<p[1], p[2], "S_START", DefaultAction(p[1])>> : p \in (States \X Classes) \ Listed}

-----------------------------------------------------------------------------
VARIABLES
  text,         \* the file
  fpos,         \* how much of it fread has returned
  buf,          \* input_buffer, up to its terminating NUL
  input_ptr,    \* position in buf; Len(buf) + 1 is the NUL, 0 is NULL
  s,            \* pdfa->s
  line, col,    \* of the character to be processed next
  lexeme,       \* pdfa->lexeme; its length is pdfa->size
  trunc,        \* pdfa->trunc
  error_count,  \* pdfa->error_count
  from,         \* history: position in text of the first character of lexeme
  out           \* the tokens delivered; from, to: their place in text

input == <<text, fpos, buf, input_ptr>>
dfa   == <<s, line, col, lexeme, trunc, error_count>>
vars  == <<input, dfa, from, out>>

Init ==
  /\ text \in Texts
  /\ fpos = 0 /\ buf = << >> /\ input_ptr = 0
  /\ s = "S_START" /\ line = 1 /\ col = 1 /\ lexeme = << >> /\ trunc = FALSE /\ error_count = 0
  /\ from = 0
  /\ out = << >>

\* get_character: what the buffer holds once it has been refilled if need be,
\* and the position of the character to be returned.
Refill == input_ptr = 0 \/ input_ptr > Len(buf)

Smaller(m, n) == IF m < n THEN m ELSE n
\* mutant: no room kept for the terminating NUL
FullChunk == SubSeq(text, fpos + 1, Smaller(fpos + INPUT_CHUNK + 1, Len(text)))
Chunk == SubSeq(text, fpos + 1, Smaller(fpos + INPUT_CHUNK, Len(text)))

Buffer  == IF Refill THEN Chunk ELSE buf
Current == IF Refill THEN 1 ELSE input_ptr
FilePos == IF Refill THEN fpos + Len(Chunk) ELSE fpos

ShortRead == Refill /\ Len(Chunk) < INPUT_CHUNK  \* mutant: a short read taken for the end
AtEnd == Buffer = << >>
ch    == Buffer[Current]

\* The place in text of the character at Current.
TextPos == FilePos - Len(Buffer) + Current

\* Read the character, or put it back (input_ptr-- in execute_action).
Consume  == buf' = Buffer /\ fpos' = FilePos /\ input_ptr' = Current + 1
Forget   == buf' = Buffer /\ fpos' = FilePos /\ input_ptr' = Current + 1  \* mutant: not put back
PushBack == buf' = Buffer /\ fpos' = FilePos /\ input_ptr' = Current

Running == out # << >> => out[Len(out)].tid # "T_EOF"

\* One iteration of the loop of get_token whose action is not a token.
Quiet(action, next) ==
  /\ Running /\ ~AtEnd
  /\ <<s, ch, next, action>> \in precompute_dfa
  /\ s' = next
  /\ Consume
  /\ UNCHANGED <<text, error_count, out>>

FitsWithoutNUL == Len(lexeme) < LEXEME_BUFSIZE  \* mutant: no room kept for the NUL
Fits == Len(lexeme) + 1 < LEXEME_BUFSIZE

\* A_ADD: the character that no longer fits is dropped and trunc set.
AddChar(next) ==
  /\ Quiet("A_ADD", next)
  /\ lexeme' = IF Fits THEN Append(lexeme, ch) ELSE lexeme
  /\ trunc' = (trunc \/ ~Fits)
  /\ from' = IF lexeme = << >> THEN TextPos ELSE from
  /\ col' = col + 1
  /\ UNCHANGED line

Ignore(next) ==
  /\ Quiet("A_IGN", next)
  /\ col' = col + 1
  /\ UNCHANGED <<line, lexeme, trunc, from>>

NewLine(next) ==
  /\ Quiet("A_NL", next)
  /\ line' = line + 1
  /\ col' = 1
  /\ UNCHANGED <<lexeme, trunc, from>>

ClearLexeme(next) ==
  /\ Quiet("A_CLR", next)
  /\ lexeme' = << >>
  /\ col' = col + 1
  /\ UNCHANGED <<line, trunc, from>>

\* print_lex_error calls of post_process for an identifier.
IdErrorsFrom(lex) ==  \* mutant: >= for >
  (IF Len(lex) >= MaxIdLen THEN 1 ELSE 0) + (IF lex[1] = "C_UNSC" THEN 1 ELSE 0)
IdErrors(lex) == (IF Len(lex) > MaxIdLen THEN 1 ELSE 0) + (IF lex[1] = "C_UNSC" THEN 1 ELSE 0)

\* post_process: keywords, and the errors in identifiers.
token_check(tid, lex) == IF tid = "T_ID" /\ lex \in Keywords THEN "T_KEYWORD" ELSE tid

\* The column of lex: col is that of the character at which the token was
\* recognised, put back (A_TOKS, A_ERR) or the lexeme's last; after A_TOKN the
\* two dots are no longer in the lexeme.
ColumnWithDots(action, lex) ==  \* mutant: the dots forgotten
  (IF action \in {"A_TOKS", "A_ERR"} THEN col - 1 ELSE col) - Len(lex) + 1
Column(action, lex) ==
  (IF action \in {"A_TOKS", "A_ERR"} THEN col - 1 ELSE col)
    - Len(lex) + 1 - (IF action = "A_TOKN" THEN 2 ELSE 0)

\* Hand over a token of lexeme lex, with the errors reported for it.
Deliver(action, predicted, lex, first, last) ==
  LET tid == IF trunc THEN "T_ERR" ELSE token_check(predicted, lex) IN
  /\ out' = Append(out, [tid |-> tid, line |-> line, col |-> Column(action, lex), lexeme |-> lex,
                         from |-> first, to |-> last])
  /\ error_count' = error_count + (IF tid = "T_ERR" THEN 1 ELSE IF tid = "T_ID" THEN IdErrors(lex) ELSE 0)
  /\ trunc' = FALSE
  /\ UNCHANGED <<text, line>>

Emitting(action, next) ==
  /\ Running /\ ~AtEnd
  /\ <<s, ch, next, action>> \in precompute_dfa
  /\ s' = next

\* A_TOKS and A_ERR: the lexeme ends before the character, which is put back.
TokenBefore(action, next) ==
  /\ action \in {"A_TOKS", "A_ERR"}
  /\ Emitting(action, next)
  /\ PushBack
  /\ Deliver(action, IF action = "A_TOKS" THEN predict_token_from_state(s) ELSE "T_ERR",
             lexeme, from, TextPos - 1)
  /\ lexeme' = << >>
  /\ UNCHANGED <<col, from>>

\* A_TOKF: the lexeme ends with the character.
TokenWith(next) ==
  LET lex == Append(lexeme, ch) IN
  /\ Emitting("A_TOKF", next)
  /\ Consume
  /\ Deliver("A_TOKF", predict_token_from_char(lex[1]), lex,
             IF lexeme = << >> THEN TextPos ELSE from, TextPos)
  /\ lexeme' = << >>
  /\ col' = col + 1
  /\ UNCHANGED from

\* A_TOKN: a number was followed by two dots, which become the next lexeme.
NumberBeforeRange(next) ==
  LET lex == SubSeq(lexeme, 1, Len(lexeme) - 1) IN
  /\ Emitting("A_TOKN", next)
  /\ Consume
  /\ Deliver("A_TOKN", "T_NUM", lex, from, TextPos - 2)
  /\ lexeme' = <<"C_DOT", "C_DOT">>
  /\ from' = TextPos - 1
  /\ col' = col + 1

\* The end of the file: T_EOF, whatever the lexeme collected so far.
EndIgnored ==  \* mutant: the NUL is skipped like a blank
  /\ Running /\ AtEnd /\ PushBack
  /\ UNCHANGED <<text, dfa, from, out>>
EndOfFile ==
  /\ Running /\ AtEnd
  /\ out' = Append(out, [tid |-> "T_EOF", line |-> line, col |-> col, lexeme |-> << >>,
                         from |-> Len(text) + 1, to |-> Len(text)])
  /\ PushBack
  /\ UNCHANGED <<text, dfa, from>>

Done == ~Running /\ UNCHANGED vars

Next ==
  \/ \E next \in States :
       \/ AddChar(next) \/ Ignore(next) \/ NewLine(next) \/ ClearLexeme(next)
       \/ \E action \in {"A_TOKS", "A_ERR"} : TokenBefore(action, next)
       \/ TokenWith(next)
       \/ NumberBeforeRange(next)
  \/ EndOfFile
  \/ Done

\* The compiler is one sequential process: get_token is called until T_EOF.
Spec == Init /\ [][Next]_vars /\ WF_vars(Next)

-----------------------------------------------------------------------------
(* Properties of the buffers. *)

OperatorTids == {"T_PM", "T_SCO", "T_EQ", "T_NE", "T_ASSIGNOP", "T_LE", "T_GE"}
Tids == OperatorTids \cup
  {"T_ID", "T_NUM", "T_RNUM", "T_MUL", "T_RANGEOP", "T_COLON", "T_LT", "T_DEF", "T_DRIVERDEF",
   "T_GT", "T_ENDDEF", "T_DRIVERENDDEF", "T_KEYWORD", "T_ERR", "T_EOF"}

Token == [tid : Tids, line : Int, col : Int, lexeme : Seq(Classes), from : Int, to : Int]

\* Every variable has the type its C declaration intends; a chunk is never
\* longer than the buffer, and the pointer stays inside it.
TypeOK ==
  /\ text \in Texts
  /\ fpos \in 0..Len(text)
  /\ buf \in Seq(Classes) /\ Len(buf) <= INPUT_CHUNK /\ Len(buf) <= fpos
  /\ input_ptr \in 0..(Len(buf) + 1)
  /\ s \in States
  /\ line \in Int /\ col \in Int
  /\ lexeme \in Seq(Classes)
  /\ trunc \in BOOLEAN
  /\ error_count \in Nat
  /\ from \in Int
  /\ out \in Seq(Token)

\* Nothing is ever written past the end of the lexeme buffer, nor is a
\* character removed from an empty one: only A_ADD checks the size, so this
\* rests on which states A_TOKF and A_TOKN leave from (lexer.c:384-390).
BufferSafe ==
  /\ Len(lexeme) < LEXEME_BUFSIZE
  /\ \A e \in precompute_dfa : e[1] = s =>
       /\ e[4] = "A_TOKF" => Len(lexeme) + 1 < LEXEME_BUFSIZE
       /\ e[4] = "A_TOKN" => Len(lexeme) >= 1

OneCharStates == {"S_STAR", "S_EQ", "S_EXCL", "S_DOT", "S_COLON", "S_LT", "S_GT"}
EmptyStates   == {"S_START", "S_STAR2", "S_STAR3"}

\* The state tells how much is in the lexeme buffer: nothing in S_START and
\* inside comments, so that no leftover begins the next lexeme and is reported
\* in a token; one character where A_TOKF may follow.
SizeInv ==
  /\ Len(lexeme) < LEXEME_BUFSIZE
  /\ s \in EmptyStates => lexeme = << >>
  /\ s \in OneCharStates => Len(lexeme) = 1
  /\ s \notin EmptyStates => Len(lexeme) >= 1
=============================================================================
