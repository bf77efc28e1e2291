----------------------------- MODULE Derivation -----------------------------
(***************************************************************************)
(* What the parser promises: a leftmost derivation.  Starting with the     *)
(* start symbol, the first nonterminal of the sentential form is replaced  *)
(* by the right-hand side of one of its rules, until an error is found;    *)
(* after that nothing is promised.                                         *)
(***************************************************************************)
EXTENDS Naturals, Sequences

CONSTANTS Terms, Rules, Start

VARIABLES form,   \* the sentential form
          ok      \* no error found so far

Init == form = <<Start>> /\ ok = TRUE

\* Rule r is applied to the i-th symbol, the first that is not a terminal.
Derive(i, r) ==
  /\ ok /\ ok' = TRUE
  /\ form[i] = Rules[r].lhs
  /\ \A j \in 1..(i - 1) : form[j] \in Terms
  /\ form' = SubSeq(form, 1, i - 1) \o Rules[r].rhs \o SubSeq(form, i + 1, Len(form))

\* An error leaves no promise about the form.
Fail == ok' = FALSE

Next == Fail \/ \E i \in DOMAIN form, r \in DOMAIN Rules : Derive(i, r)

Spec == Init /\ [][Next]_<<form, ok>>
=============================================================================
