------------------------------- MODULE MCLexer -------------------------------
(***************************************************************************)
(* The lexer compared with the words of the language, on every text up to  *)
(* a length over the characters that matter to one part of the automaton:  *)
(* numbers, comments, and operators with identifiers.                      *)
(***************************************************************************)
EXTENDS LexerProperties

CONSTANTS NumberLength, CommentLength, OperatorLength   \* bounds: the length of the texts

TextsOver(alphabet, n) == UNION {[1..k -> alphabet] : k \in 0..n}

AllTexts ==
  TextsOver({"C_DIG", "C_DOT", "C_E", "C_PM", "C_WS"}, NumberLength)
    \cup TextsOver({"C_STAR", "C_NL", "C_DIG", "C_DOT"}, CommentLength)
    \cup TextsOver({"C_LT", "C_GT", "C_EQ", "C_EXCL", "C_COLON", "C_REST", "C_UNSC", "C_E", "C_SCO"},
                   OperatorLength)

EndKeyword == {<<"C_E">>}
=============================================================================
