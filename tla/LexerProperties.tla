--------------------------- MODULE LexerProperties ---------------------------
(***************************************************************************)
(* What the lexer promises, in terms of the words of the language and not  *)
(* of its automaton: which words it delivers, what it skips and what it    *)
(* loses, and the places it reports.                                       *)
(***************************************************************************)
EXTENDS Lexer, LexicalGrammar

Tokens == {i \in DOMAIN out : out[i].tid # "T_EOF"}

Spelling(t) == SubSeq(text, t.from, t.to)

\* Too long for the lexeme buffer.  A number is already too long if it fills
\* the buffer and a range follows, whose first dot is collected with it.
TooLong(t) ==
  \/ t.to - t.from + 1 >= LEXEME_BUFSIZE
  \/ /\ t.to - t.from + 1 = LEXEME_BUFSIZE - 1
     /\ Digits(Spelling(t))
     /\ Slice(text, t.to + 1, t.to + 2) = <<"C_DOT", "C_DOT">>

\* Every token delivered is the longest word that starts where it starts, or,
\* as an error, the longest beginning of a word that is none; the one look
\* further ahead is a number followed by a range.  Too long a word is an error
\* and is truncated; any other lexeme is the text itself.
MaximalMunch ==
  \A i \in Tokens :
    LET t == out[i]  w == Spelling(t) IN
    /\ t.to < Len(text) /\ ~(t.tid = "T_NUM" /\ Slice(text, t.to + 1, t.to + 2) = <<"C_DOT", "C_DOT">>)
         => ~Viable(Append(w, text[t.to + 1])) \/ (t.tid = "T_ERR" /\ ~Viable(w))
            \/ (TooLong(t) /\ t.tid = "T_ERR")
    /\ IF TooLong(t) THEN t.tid = "T_ERR"
       ELSE /\ t.lexeme = w
            /\ IF t.tid = "T_ERR" THEN ~IsWord(w) /\ (Viable(w) \/ Len(w) = 1)
               ELSE Word(w, t.tid)
            /\ t.tid = "T_KEYWORD" <=> (Ident(w) /\ w \in Keywords)

\* Between two tokens there are only blanks and comments: the lexer neither
\* skips a character nor reads one twice, wherever the input buffer is
\* refilled, and however often a character is put back.
TokensTile ==
  \A i \in Tokens :
    /\ out[i].from <= out[i].to
    /\ out[i].from = SkipBlanks(text, IF i = 1 THEN 1 ELSE out[i - 1].to + 1)

\* What the end of the file swallows is at most one lexeme begun or one
\* comment not closed; get_token reports neither (lexer.c:520).
OnlyTailLost ==
  ~Running =>
    LET n    == Len(out) - 1
        rest == SkipBlanks(text, IF n = 0 THEN 1 ELSE out[n].to + 1)
        w    == SubSeq(text, rest, Len(text))
    IN  \/ w = << >> \/ Viable(w)
        \/ Slice(w, 1, 2) = CommentMark /\ Cardinality({k \in 3..Len(w) : w[k] = "C_STAR"}) < 2

\* The line and column reported for a token are those of its first character,
\* though both are computed after its last; only truncation moves the column.
PositionsExact ==
  \A i \in Tokens :
    LET t == out[i]
        newlines == {k \in 1..(t.from - 1) : text[k] = "C_NL"}
        start == IF newlines = {} THEN 0 ELSE CHOOSE k \in newlines : \A m \in newlines : m <= k
    IN  /\ t.line = 1 + Cardinality(newlines)
        /\ ~TooLong(t) => t.col = t.from - start

\* The lexical errors of the spelling of a token.
Faults(t) ==
  LET w == Spelling(t) IN
  IF ~IsWord(w) \/ TooLong(t) THEN 1
  ELSE IF ~Ident(w) \/ w \in Keywords THEN 0
  ELSE (IF Len(w) > MaxIdLen THEN 1 ELSE 0) + (IF w[1] = "C_UNSC" THEN 1 ELSE 0)

\* The lexical errors counted are those the text has: what is no word or too
\* long a word, and identifiers too long or beginning with an underscore,
\* keywords excepted.  Compilation goes no further if there are any.
ErrorsCounted ==
  LET faults[n \in 0..Len(out)] ==
        IF n = 0 THEN 0 ELSE faults[n - 1] + (IF n \in Tokens THEN Faults(out[n]) ELSE 0)
  IN  error_count = faults[Len(out)]

\* get_token always returns, and the end of the file is always reached: no
\* table entry puts back a character for ever.
Terminates == <>(~Running)
=============================================================================
