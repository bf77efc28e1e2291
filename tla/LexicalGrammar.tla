---------------------------- MODULE LexicalGrammar ----------------------------
(***************************************************************************)
(* The words of the language, written down as what they are rather than as *)
(* an automaton, to compare the lexer with.  A word is a sequence of       *)
(* character classes; word w, at positions i .. j of a text, is one token. *)
(***************************************************************************)
EXTENDS Integers, Sequences, FiniteSets

\* text[i..j], as far as the text goes
Slice(text, i, j) == SubSeq(text, i, IF j < Len(text) THEN j ELSE Len(text))

Digits(w) == w # << >> /\ \A i \in DOMAIN w : w[i] = "C_DIG"

Ident(w) == /\ w # << >>
            /\ w[1] \in {"C_ALPHA", "C_E", "C_UNSC"}
            /\ \A i \in DOMAIN w : w[i] \in {"C_ALPHA", "C_E", "C_UNSC", "C_DIG"}

From(w, i) == SubSeq(w, i, Len(w))

Exponent(w) == /\ w # << >> /\ w[1] = "C_E"
               /\ \/ Digits(From(w, 2))
                  \/ Len(w) > 1 /\ w[2] = "C_PM" /\ Digits(From(w, 3))

\* digits . digits, or digits with an optional fraction and an exponent
RealNumber(w) ==
  \E i \in 1..Len(w) :
    /\ Digits(SubSeq(w, 1, i))
    /\ LET rest == From(w, i + 1) IN
       \/ Exponent(rest)
       \/ rest # << >> /\ rest[1] = "C_DOT" /\ Digits(From(rest, 2))
       \/ \E k \in 1..Len(rest) :
            /\ rest[1] = "C_DOT" /\ Exponent(From(rest, k + 1))
            /\ \A i2 \in 2..k : rest[i2] = "C_DIG"

\* The tokens with a fixed spelling.
Fixed == [T_MUL |-> {<<"C_STAR">>}, T_SCO |-> {<<"C_SCO">>}, T_PM |-> {<<"C_PM">>},
          T_EQ |-> {<<"C_EQ", "C_EQ">>}, T_NE |-> {<<"C_EXCL", "C_EQ">>},
          T_RANGEOP |-> {<<"C_DOT", "C_DOT">>},
          T_COLON |-> {<<"C_COLON">>}, T_ASSIGNOP |-> {<<"C_COLON", "C_EQ">>},
          T_LT |-> {<<"C_LT">>}, T_LE |-> {<<"C_LT", "C_EQ">>},
          T_DEF |-> {<<"C_LT", "C_LT">>}, T_DRIVERDEF |-> {<<"C_LT", "C_LT", "C_LT">>},
          T_GT |-> {<<"C_GT">>}, T_GE |-> {<<"C_GT", "C_EQ">>},
          T_ENDDEF |-> {<<"C_GT", "C_GT">>}, T_DRIVERENDDEF |-> {<<"C_GT", "C_GT", "C_GT">>}]

Word(w, tid) ==
  \/ tid \in {"T_ID", "T_KEYWORD"} /\ Ident(w)
  \/ tid = "T_NUM" /\ Digits(w)
  \/ tid = "T_RNUM" /\ RealNumber(w)
  \/ tid \in DOMAIN Fixed /\ w \in Fixed[tid]

IsWord(w) == \E tid \in DOMAIN Fixed \cup {"T_ID", "T_NUM", "T_RNUM"} : Word(w, tid)

CommentMark == <<"C_STAR", "C_STAR">>

\* w can still become a word or start a comment; one more character is enough
\* to complete any word begun.
Viable(w) == \/ IsWord(w) \/ w = CommentMark
             \/ \E c \in {"C_DIG", "C_EQ", "C_DOT"} : IsWord(Append(w, c))

\* The first position at or after i that is neither blank nor in a comment:
\* two stars, any characters of which one is a star, a star.
SkipBlanks(text, from) ==
  LET stars(i) == {k \in (i + 2)..Len(text) : text[k] = "C_STAR"}
      second(S) == CHOOSE m \in S : Cardinality({k \in S : k < m}) = 1
      skip[i \in 1..(Len(text) + 1)] ==
        IF i > Len(text) THEN i
        ELSE IF text[i] \in {"C_WS", "C_NL"} THEN skip[i + 1]
        ELSE IF Slice(text, i, i + 1) = CommentMark /\ Cardinality(stars(i)) >= 2
             THEN skip[second(stars(i)) + 1]
        ELSE i
  IN  skip[from]
=============================================================================
