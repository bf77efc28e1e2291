-------------------------------- MODULE LL1 --------------------------------
(***************************************************************************)
(* The textbook's definitions of an LL(1) grammar and its parse table, to  *)
(* compare the code with: NULLABLE, FIRST and FOLLOW as the smallest sets  *)
(* closed under the rules.  A grammar is a record as in ParseTable.        *)
(*                                                                         *)
(* N stands for the set of the symbols that can vanish, F and W for FIRST  *)
(* and FOLLOW, sets of pairs of a symbol and a terminal, and L for the set *)
(* of pairs of a rule and a lookahead for which it is to be chosen.        *)
(***************************************************************************)
EXTENDS Integers, Sequences, TLC

LOCAL EOF == "EOF"

LHS(g, i) == g.rules[i].lhs
RHS(g, i) == g.rules[i].rhs

RECURSIVE NullableFrom(_, _, _)
NullableFrom(g, N, more) ==
  IF more = N THEN N
  ELSE NullableFrom(g, more, {LHS(g, i) : i \in {j \in DOMAIN g.rules : \A k \in DOMAIN RHS(g, j) : RHS(g, j)[k] \in more}})

Nullable(g) == NullableFrom(g, {}, {LHS(g, i) : i \in {j \in DOMAIN g.rules : RHS(g, j) = << >>}})

\* What relation leads to from a member of S, in any number of steps.
RECURSIVE Reach(_, _)
Reach(relation, S) ==
  IF \A p \in relation : p[1] \in S => p[2] \in S THEN S
  ELSE Reach(relation, S \cup {p[2] : p \in {q \in relation : q[1] \in S}})

\* Positions i.k of the rules, those of the symbols before which, or after
\* which, all can vanish.
Positions(g) == UNION {{<<i, k>> : k \in DOMAIN RHS(g, i)} : i \in DOMAIN g.rules}
Vanish(g, N, i, from, to) == \A j \in from..to : RHS(g, i)[j] \in N

Starts(g, N) == {<<LHS(g, p[1]), RHS(g, p[1])[p[2]]>> :
                   p \in {q \in Positions(g) : Vanish(g, N, q[1], 1, q[2] - 1)}}
Ends(g, N)   == {<<RHS(g, p[1])[p[2]], LHS(g, p[1])>> :
                   p \in {q \in Positions(g) : Vanish(g, N, q[1], q[2] + 1, Len(RHS(g, q[1])))}}
Next2(g, N)  == UNION {{<<RHS(g, p[1])[p[2]], RHS(g, p[1])[m]>> :
                          m \in {n \in (p[2] + 1)..Len(RHS(g, p[1])) : Vanish(g, N, p[1], p[2] + 1, n - 1)}} :
                       p \in Positions(g)}

First(g, starts) == UNION {{X} \X (Reach(starts, {X}) \cap g.terms) : X \in g.terms \cup g.nonterms}

\* What may follow one of the symbols X, which end one another.
FollowOf(g, after, X) == {p[2] : p \in {q \in after : q[1] \in X}} \cup (IF g.start \in X THEN {EOF} ELSE {})

Follow(g, ends, after) == UNION {{X} \X FollowOf(g, after, Reach(ends, {X})) : X \in g.nonterms}

After(F, next) == UNION {{<<p[1], f[2]>> : f \in {h \in F : h[1] = p[2]}} : p \in next}

BeginsWith(g, N, F, i) == {f[2] : f \in {h \in F : \E k \in DOMAIN RHS(g, i) :
                                           h[1] = RHS(g, i)[k] /\ Vanish(g, N, i, 1, k - 1)}}
Then(g, N, W, i) == IF Vanish(g, N, i, 1, Len(RHS(g, i))) THEN {w[2] : w \in {h \in W : h[1] = LHS(g, i)}} ELSE {}

LookaheadsFrom(g, N, F, W) ==
  UNION {{i} \X (BeginsWith(g, N, F, i) \cup Then(g, N, W, i)) : i \in DOMAIN g.rules}

LookaheadsBy(g, N, F) == LookaheadsFrom(g, N, F, Follow(g, Ends(g, N), After(F, Next2(g, N))))
LookaheadsOver(g, N)  == LookaheadsBy(g, N, First(g, Starts(g, N)))
Lookaheads(g)         == LookaheadsOver(g, Nullable(g))

-----------------------------------------------------------------------------
LL1(g, L) == \A p, q \in L : p[2] = q[2] /\ LHS(g, p[1]) = LHS(g, q[1]) => p = q

LeftRecursiveBy(g, starts) == \E X \in g.nonterms : X \in Reach(starts, {p[2] : p \in {q \in starts : q[1] = X}})
LeftRecursive(g) == LeftRecursiveBy(g, Starts(g, Nullable(g)))

\* The parse table: for each nonterminal and lookahead the rule to be chosen,
\* the last one if there are several, 0 if there is none.
LastOf(S) == IF S = {} THEN 0 ELSE CHOOSE i \in S : \A j \in S : j <= i

LL1Table(g, L) ==
  [X \in g.nonterms |-> [t \in g.terms |-> LastOf({p[1] : p \in {q \in L : q[2] = t /\ LHS(g, q[1]) = X}})]]
=============================================================================
