---------------------------- MODULE Parser_proofs ----------------------------
(***************************************************************************)
(* Proofs that the parser's cursor keeps in step with its stack and that   *)
(* it performs a leftmost derivation, for any grammar, parse table, token  *)
(* sequences and size of the stack.                                        *)
(*                                                                         *)
(* The two recursive functions of the model, the climbing of get_successor *)
(* and the walk over the pending nodes, are handled by exhibiting in the   *)
(* invariant a function that satisfies the recursion: it exists for the    *)
(* first tree and is extended by every rule that is applied.               *)
(***************************************************************************)
EXTENDS Parser, SequenceTheorems, WellFoundedInduction, TLAPS

\* A nonempty set of natural numbers has a least element.
LEMMA Least ==
  ASSUME NEW T, T \subseteq Nat, T # {}
  PROVE  \E x \in T : \A y \in T : x <= y
<1>1. PICK x \in T : \A y \in T : ~(<<y, x>> \in OpToRel(<, Nat))
  BY NatLessThanWellFounded, WFMin
<1>2. ASSUME NEW y \in T PROVE x <= y
  <2>1. y < x => <<y, x>> \in OpToRel(<, Nat)
    BY DEF OpToRel
  <2>2. ~(y < x)
    BY <1>1, <2>1
  <2> QED BY <2>2
<1> QED BY <1>2

-----------------------------------------------------------------------------
(* get_successor. *)

\* Every parent was made before its children.
ParentsFirst(t) == Len(t) \in Nat /\ \A n \in 1..Len(t) : t[n].parent \in 0..(n - 1)

\* up is what the climbing computes for every node of the tree t.
UpAt(t, up, n) ==
  IF n = NULL THEN NULL
  ELSE IF t[n].next_sibling # NULL THEN t[n].next_sibling
  ELSE up[t[n].parent]
IsUp(t, up) ==
  up = [n \in 0..Len(t) |-> up[n]] /\ \A n \in 0..Len(t) : up[n] = UpAt(t, up, n)

Climb(t) ==
  LET up[m \in 0..Len(t)] ==
        IF m = NULL THEN NULL
        ELSE IF t[m].next_sibling # NULL THEN t[m].next_sibling
        ELSE up[t[m].parent]
  IN  up

LEMMA ClimbIsUp ==
  ASSUME NEW t, NEW f, IsUp(t, f)
  PROVE  IsUp(t, Climb(t))
<1> DEFINE Eq(g) == g = [m \in 0..Len(t) |->
                           IF m = NULL THEN NULL
                           ELSE IF t[m].next_sibling # NULL THEN t[m].next_sibling
                           ELSE g[t[m].parent]]
<1>1. Eq(f)
  BY Zenon DEF IsUp, UpAt
<1>2. Eq(Climb(t))
  BY <1>1, Zenon DEF Climb
<1>3. Climb(t) = [n \in 0..Len(t) |-> Climb(t)[n]]
  BY <1>2, Zenon
<1>4. \A n \in 0..Len(t) : Climb(t)[n] = UpAt(t, Climb(t), n)
  BY <1>2, Zenon DEF UpAt
<1> QED BY <1>3, <1>4 DEF IsUp

LEMMA UpUnique ==
  ASSUME NEW t, ParentsFirst(t), NEW f, IsUp(t, f), NEW g, IsUp(t, g), NEW n \in 0..Len(t)
  PROVE  f[n] = g[n]
<1> DEFINE T == {m \in 0..Len(t) : f[m] # g[m]}
<1>1. SUFFICES ASSUME T # {} PROVE FALSE
  OBVIOUS
<1>2. T \subseteq Nat
  BY DEF ParentsFirst
<1>3. PICK m \in T : \A k \in T : m <= k
  BY <1>1, <1>2, Least
<1>4. m \in 0..Len(t) /\ f[m] # g[m] /\ f[m] = UpAt(t, f, m) /\ g[m] = UpAt(t, g, m)
  BY DEF IsUp
<1>5. m # NULL /\ t[m].next_sibling = NULL
  BY <1>4 DEF UpAt
<1>6. t[m].parent \in 0..(m - 1) /\ m \in 1..Len(t)
  BY <1>4, <1>5 DEF ParentsFirst, NULL
<1>7. t[m].parent \in 0..Len(t) /\ ~(m <= t[m].parent)
  BY <1>6 DEF ParentsFirst
<1>8. f[t[m].parent] = g[t[m].parent]
  BY <1>3, <1>7
<1> QED BY <1>4, <1>5, <1>8 DEF UpAt

\* get_successor climbs as up says.
LEMMA SuccessorIsUp ==
  ASSUME NEW t, ParentsFirst(t), NEW up, IsUp(t, up), NEW n \in 0..Len(t)
  PROVE  get_successor(t, n) = up[n]
<1>1. get_successor(t, n) = Climb(t)[n]
  BY Zenon DEF get_successor, Climb
<1>2. IsUp(t, Climb(t))
  BY ClimbIsUp
<1> QED BY <1>1, <1>2, UpUnique

-----------------------------------------------------------------------------
(* The pending nodes. *)

\* from gives, for every node, the nodes from there on.
FromAt(up, from, n) == IF n = NULL THEN << >> ELSE <<n>> \o from[up[n]]
IsFrom(t, up, from) ==
  from = [n \in 0..Len(t) |-> from[n]] /\ \A n \in 0..Len(t) : from[n] = FromAt(up, from, n)

\* The nodes s follow one another, and nothing follows the last.
Follower(s, i) == IF i <= Len(s) THEN s[i] ELSE NULL
Chained(t, up, s) ==
  /\ s \in Seq(1..Len(t))
  /\ \A i \in 1..Len(s) : up[s[i]] = Follower(s, i + 1)

\* The walk from the first of them meets exactly them.
LEMMA WalkIsChain ==
  ASSUME NEW t, Len(t) \in Nat, NEW up, NEW from, IsFrom(t, up, from), NEW s, Chained(t, up, s)
  PROVE  from[Follower(s, 1)] = s
<1>1. s \in Seq(1..Len(t)) /\ Len(s) \in Nat /\ DOMAIN s = 1..Len(s)
      /\ \A i \in 1..Len(s) : s[i] \in 1..Len(t)
  BY LenProperties, ElementOfSeq DEF Chained
<1> DEFINE Suffix(i) == SubSeq(s, i, Len(s))
           D == {d \in 0..Len(s) : from[Follower(s, Len(s) + 1 - d)] # Suffix(Len(s) + 1 - d)}
<1>2. SUFFICES ASSUME D # {} PROVE FALSE
  <2>1. ASSUME D = {} PROVE from[Follower(s, 1)] = s
    <3>1. Len(s) \in 0..Len(s) /\ Len(s) + 1 - Len(s) = 1
      BY <1>1
    <3>2. from[Follower(s, Len(s) + 1 - Len(s))] = Suffix(Len(s) + 1 - Len(s))
      BY <2>1, <3>1
    <3>3. from[Follower(s, 1)] = SubSeq(s, 1, Len(s))
      BY <3>1, <3>2
    <3> QED BY <3>3, <1>1, SubSeqFull
  <2> QED BY <2>1
<1>3. D \subseteq Nat
  BY <1>1
<1>4. PICK d \in D : \A e \in D : d <= e
  BY <1>2, <1>3, Least
<1> DEFINE k == Len(s) + 1 - d
<1>5. d \in 0..Len(s) /\ k \in 1..(Len(s) + 1) /\ from[Follower(s, k)] # Suffix(k)
  BY <1>1, <1>4
<1>6. d # 0
  <2> SUFFICES ASSUME d = 0 PROVE FALSE
    OBVIOUS
  <2>1. k = Len(s) + 1
    BY <1>1
  <2>2. Follower(s, k) = NULL
    BY <2>1, <1>1 DEF Follower
  <2>3. Suffix(k) = << >>
    BY <2>1, <1>1, SubSeqEmpty
  <2>4. from[NULL] = << >>
    <3>1. NULL \in 0..Len(t)
      BY DEF NULL
    <3> QED BY <3>1 DEF IsFrom, FromAt
  <2> QED BY <1>5, <2>2, <2>3, <2>4
<1>7. k \in 1..Len(s) /\ d - 1 \in 0..Len(s) /\ Len(s) + 1 - (d - 1) = k + 1 /\ ~(d <= d - 1)
  BY <1>1, <1>5, <1>6
<1>8. from[Follower(s, k + 1)] = Suffix(k + 1)
  <2>1. d - 1 \notin D
    BY <1>4, <1>7
  <2>2. from[Follower(s, Len(s) + 1 - (d - 1))] = Suffix(Len(s) + 1 - (d - 1))
    BY <2>1, <1>7
  <2> QED BY <2>2, <1>7
<1> HIDE DEF k
<1>9. Follower(s, k) = s[k] /\ s[k] \in 1..Len(t) /\ up[s[k]] = Follower(s, k + 1)
  BY <1>1, <1>7 DEF Follower, Chained
<1>10. from[s[k]] = <<s[k]>> \o Suffix(k + 1)
  <2>1. s[k] \in 0..Len(t) /\ s[k] # NULL
    BY <1>9 DEF NULL
  <2>2. from[s[k]] = FromAt(up, from, s[k])
    BY <2>1 DEF IsFrom
  <2> QED BY <2>1, <2>2, <1>8, <1>9, Zenon DEF FromAt
<1>11. Suffix(k) = <<s[k]>> \o Suffix(k + 1)
  <2>1. s \in Seq(1..Len(t)) /\ k \in 1..Len(s) /\ Len(s) \in k..Len(s)
    BY <1>1, <1>7
  <2> QED BY <2>1, SubSeqRecursiveFirst, Zenon
<1> QED BY <1>5, <1>9, <1>10, <1>11

\* Pending is what the walk meets.
WalkOf == LET from[n \in 0..Len(tree)] == IF n = NULL THEN << >> ELSE <<n>> \o from[get_successor(tree, n)]
          IN  from

LEMMA PendingIs ==
  ASSUME ParentsFirst(tree), NEW up, IsUp(tree, up), NEW from, IsFrom(tree, up, from),
         NEW s, Chained(tree, up, s), current_tn = Follower(s, 1)
  PROVE  Pending = s
<1> DEFINE Eq(g) == g = [n \in 0..Len(tree) |->
                           IF n = NULL THEN << >> ELSE <<n>> \o g[get_successor(tree, n)]]
<1>1. \A n \in 0..Len(tree) : get_successor(tree, n) = up[n]
  BY SuccessorIsUp
<1>2. Eq(from)
  <2>1. \A n \in 0..Len(tree) : from[n] = IF n = NULL THEN << >> ELSE <<n>> \o from[get_successor(tree, n)]
    BY <1>1, Zenon DEF IsFrom, FromAt
  <2>2. from = [n \in 0..Len(tree) |-> from[n]]
    BY DEF IsFrom
  <2> QED BY <2>1, <2>2, Zenon
<1>3. Eq(WalkOf)
  BY <1>2, Zenon DEF WalkOf
<1>4. IsFrom(tree, up, WalkOf)
  <2>1. WalkOf = [n \in 0..Len(tree) |-> WalkOf[n]]
    BY <1>3, Zenon
  <2>2. \A n \in 0..Len(tree) : WalkOf[n] = IF n = NULL THEN << >> ELSE <<n>> \o WalkOf[get_successor(tree, n)]
    BY <1>3, Zenon
  <2>3. \A n \in 0..Len(tree) : WalkOf[n] = FromAt(up, WalkOf, n)
    BY <1>1, <2>2, Zenon DEF FromAt
  <2> QED BY <2>1, <2>3 DEF IsFrom
<1>5. WalkOf[current_tn] = s
  BY <1>4, WalkIsChain DEF ParentsFirst
<1> QED BY <1>5, Zenon DEF Pending, WalkOf

-----------------------------------------------------------------------------
(* The inductive invariant. *)

Symbols == Terms \cup Nonterms

\* EOF is at the bottom of the stack and nowhere else; while the parser goes on
\* there is another symbol above it.
StackInv ==
  /\ stack \in Seq(Symbols) /\ stack # << >> /\ stack[Len(stack)] = EOF
  /\ \A i \in 1..(Len(stack) - 1) : stack[i] # EOF
  /\ pc = "loop" => Len(stack) >= 2

\* As long as there is no error the tokens before the cursor are those of the
\* program.
InputInv ==
  /\ input \in Inputs /\ pos \in Nat \ {0} /\ error_count \in Nat
  /\ error_count = 0 => pos <= Len(input) + 1
  /\ pc \in {"loop", "done", "exit"}

TreeInv ==
  /\ tree \in Seq(Tree) /\ ParentsFirst(tree)
  /\ \A n \in 1..Len(tree) : tree[n].first_child \in 0..Len(tree) /\ tree[n].next_sibling \in 0..Len(tree)

\* The nodes of s, for the symbols on the stack, follow one another from the
\* cursor on; none is there twice and none has children yet.
InStep(t, up, s) ==
  /\ Chained(t, up, s)
  /\ Len(s) = Len(stack) - 1
  /\ \A i \in 1..Len(s) : t[s[i]].sid = stack[i] /\ t[s[i]].first_child = NULL
  /\ \A i, j \in 1..Len(s) : s[i] = s[j] => i = j

CursorInv ==
  \E up : \E from : \E s :
    /\ IsUp(tree, up) /\ IsFrom(tree, up, from) /\ InStep(tree, up, s)
    /\ current_tn = Follower(s, 1)

IInv == StackInv /\ InputInv /\ TreeInv /\ CursorInv

-----------------------------------------------------------------------------
(* A symbol is dropped from the stack, with or without its token.           *)

LEMMA TailFacts ==
  ASSUME NEW S, NEW s \in Seq(S), Len(s) >= 1
  PROVE  /\ Tail(s) \in Seq(S) /\ Len(Tail(s)) = Len(s) - 1 /\ Len(s) \in Nat
         /\ \A i \in 1..(Len(s) - 1) : Tail(s)[i] = s[i + 1] /\ i + 1 \in 1..Len(s)
<1>1. Len(s) \in Nat
  BY LenProperties
<1>2. s # << >>
  BY <1>1, EmptySeq
<1>3. /\ Tail(s) \in Seq(S) /\ Len(Tail(s)) = Len(s) - 1
      /\ \A i \in 1..Len(Tail(s)) : Tail(s)[i] = s[i + 1]
  BY <1>2, HeadTailProperties
<1> QED BY <1>1, <1>3

\* What is left of a chain is a chain, for a tree with the same links.
LEMMA TailChained ==
  ASSUME NEW t, NEW up, NEW s, Chained(t, up, s), Len(s) >= 1
  PROVE  /\ Chained(t, up, Tail(s)) /\ Follower(Tail(s), 1) = Follower(s, 2)
         /\ Follower(s, 1) = s[1] /\ up[s[1]] = Follower(s, 2) /\ s[1] \in 1..Len(t)
<1>1. s \in Seq(1..Len(t))
  BY DEF Chained
<1>2. /\ Tail(s) \in Seq(1..Len(t)) /\ Len(Tail(s)) = Len(s) - 1 /\ Len(s) \in Nat
      /\ \A i \in 1..(Len(s) - 1) : Tail(s)[i] = s[i + 1] /\ i + 1 \in 1..Len(s)
  BY <1>1, TailFacts
<1>3. \A i \in Nat \ {0} : Follower(Tail(s), i) = Follower(s, i + 1)
  BY <1>2 DEF Follower
<1>4. ASSUME NEW i \in 1..Len(Tail(s)) PROVE up[Tail(s)[i]] = Follower(Tail(s), i + 1)
  <2>1. i \in 1..(Len(s) - 1) /\ i + 1 \in 1..Len(s) /\ i + 1 \in Nat \ {0}
    BY <1>2
  <2>2. up[s[i + 1]] = Follower(s, (i + 1) + 1)
    BY <2>1 DEF Chained
  <2> QED BY <2>1, <2>2, <1>2, <1>3
<1>5. 1 \in 1..Len(s) /\ 1 \in Nat \ {0} /\ 1 + 1 = 2
  BY <1>2
<1>6. up[s[1]] = Follower(s, 1 + 1) /\ Follower(Tail(s), 1) = Follower(s, 1 + 1)
  BY <1>3, <1>5 DEF Chained
<1>7. s[1] \in 1..Len(t)
  BY <1>1, <1>5, ElementOfSeq
<1> QED BY <1>2, <1>4, <1>5, <1>6, <1>7 DEF Chained, Follower

\* The nodes of u have the symbols and the links of those of t.
SameLinks(t, u) ==
  /\ Len(u) = Len(t)
  /\ \A n \in 1..Len(t) : /\ u[n].sid = t[n].sid /\ u[n].parent = t[n].parent
                          /\ u[n].first_child = t[n].first_child
                          /\ u[n].next_sibling = t[n].next_sibling

LEMMA UpStays ==
  ASSUME NEW t, NEW u, Len(t) \in Nat, SameLinks(t, u), NEW up, IsUp(t, up), NEW from, IsFrom(t, up, from)
  PROVE  IsUp(u, up) /\ IsFrom(u, up, from)
<1>1. Len(u) = Len(t)
  BY DEF SameLinks
<1>2. ASSUME NEW n \in 0..Len(u) PROVE up[n] = UpAt(u, up, n)
  <2>1. up[n] = UpAt(t, up, n)
    BY <1>1 DEF IsUp
  <2>2. n # NULL => n \in 1..Len(t)
    BY <1>1 DEF NULL
  <2>3. UpAt(u, up, n) = UpAt(t, up, n)
    BY <2>2 DEF UpAt, SameLinks
  <2> QED BY <2>1, <2>3
<1> QED BY <1>1, <1>2 DEF IsUp, IsFrom

\* The cursor's node, while the parser goes on.
LEMMA AtTop ==
  ASSUME IInv, pc = "loop", NEW up, NEW s, InStep(tree, up, s), current_tn = Follower(s, 1)
  PROVE  /\ Len(s) >= 1 /\ current_tn = s[1] /\ current_tn \in 1..Len(tree)
         /\ tree[current_tn].sid = Top /\ tree[current_tn].first_child = NULL
         /\ up[current_tn] = Follower(s, 2)
<1>1. Len(stack) \in Nat /\ Len(stack) >= 2
  BY LenProperties DEF IInv, StackInv
<1>2. Len(s) >= 1 /\ Chained(tree, up, s) /\ 1 \in 1..Len(s)
  BY <1>1 DEF InStep
<1>3. tree[s[1]].sid = stack[1] /\ tree[s[1]].first_child = NULL
  BY <1>2 DEF InStep
<1> QED BY <1>2, <1>3, TailChained DEF Top

LEMMA DropTop ==
  ASSUME IInv, pc = "loop", SameLinks(tree, tree'), stack' = Tail(stack),
         current_tn' = get_successor(tree, current_tn)
  PROVE  CursorInv' /\ ParentsFirst(tree)'
<1>1. PICK up : \E from : \E s : /\ IsUp(tree, up) /\ IsFrom(tree, up, from) /\ InStep(tree, up, s)
                                 /\ current_tn = Follower(s, 1)
  BY DEF IInv, CursorInv
<1>2. PICK from : \E s : /\ IsUp(tree, up) /\ IsFrom(tree, up, from) /\ InStep(tree, up, s)
                         /\ current_tn = Follower(s, 1)
  BY <1>1
<1>3. PICK s : /\ IsUp(tree, up) /\ IsFrom(tree, up, from) /\ InStep(tree, up, s)
               /\ current_tn = Follower(s, 1)
  BY <1>2
<1>4. /\ Len(s) >= 1 /\ current_tn = s[1] /\ current_tn \in 1..Len(tree)
      /\ up[current_tn] = Follower(s, 2)
  BY <1>3, AtTop
<1>5. ParentsFirst(tree) /\ Len(tree) \in Nat /\ Len(tree') = Len(tree)
  BY DEF IInv, TreeInv, ParentsFirst, SameLinks
<1>6. ParentsFirst(tree)'
  BY <1>5 DEF ParentsFirst, SameLinks
<1>7. IsUp(tree', up) /\ IsFrom(tree', up, from)
  BY <1>3, <1>5, UpStays
<1>8. /\ Chained(tree, up, Tail(s)) /\ Follower(Tail(s), 1) = Follower(s, 2) /\ s \in Seq(1..Len(tree))
  <2>1. Chained(tree, up, s)
    BY <1>3 DEF InStep
  <2>2. s \in Seq(1..Len(tree))
    BY <2>1 DEF Chained
  <2> QED BY <2>1, <2>2, <1>4, TailChained
<1>9. current_tn' = Follower(Tail(s), 1)
  <2>1. current_tn \in 0..Len(tree)
    BY <1>4, <1>5
  <2>2. get_successor(tree, current_tn) = up[current_tn]
    BY <2>1, <1>3, <1>5, SuccessorIsUp
  <2> QED BY <2>2, <1>4, <1>8
<1>10. /\ Len(Tail(s)) = Len(s) - 1 /\ Len(s) \in Nat
       /\ \A i \in 1..(Len(s) - 1) : Tail(s)[i] = s[i + 1] /\ i + 1 \in 1..Len(s)
  BY <1>4, <1>8, TailFacts
<1>11. /\ Len(stack') = Len(stack) - 1 /\ Len(stack) \in Nat /\ Len(s) = Len(stack) - 1
       /\ \A i \in 1..(Len(stack) - 1) : stack'[i] = stack[i + 1]
  <2>1. stack \in Seq(Symbols) /\ Len(stack) >= 1
    BY LenProperties DEF IInv, StackInv
  <2> QED BY <2>1, <1>3, TailFacts DEF InStep
<1>12. ASSUME NEW i \in 1..Len(Tail(s))
       PROVE  tree'[Tail(s)[i]].sid = stack'[i] /\ tree'[Tail(s)[i]].first_child = NULL
  <2>1. i \in 1..(Len(s) - 1) /\ i + 1 \in 1..Len(s) /\ Tail(s)[i] = s[i + 1] /\ i \in 1..(Len(stack) - 1)
    BY <1>10, <1>11
  <2>2. tree[s[i + 1]].sid = stack[i + 1] /\ tree[s[i + 1]].first_child = NULL
    BY <1>3, <2>1 DEF InStep
  <2>3. s[i + 1] \in 1..Len(tree)
    BY <1>8, <2>1, ElementOfSeq
  <2> QED BY <2>1, <2>2, <2>3, <1>11 DEF SameLinks
<1>13. ASSUME NEW i \in 1..Len(Tail(s)), NEW j \in 1..Len(Tail(s)), Tail(s)[i] = Tail(s)[j]
       PROVE  i = j
  <2>1. /\ i \in 1..(Len(s) - 1) /\ i + 1 \in 1..Len(s) /\ Tail(s)[i] = s[i + 1]
        /\ j \in 1..(Len(s) - 1) /\ j + 1 \in 1..Len(s) /\ Tail(s)[j] = s[j + 1]
    BY <1>10
  <2>2. i + 1 = j + 1
    BY <1>3, <1>13, <2>1 DEF InStep
  <2> QED BY <2>1, <2>2
<1>14. Chained(tree', up, Tail(s))
  BY <1>5, <1>8 DEF Chained
<1>15. Len(Tail(s)) = Len(stack') - 1
  BY <1>10, <1>11
<1>16. InStep(tree, up, Tail(s))'
  BY <1>12, <1>13, <1>14, <1>15 DEF InStep
<1> QED BY <1>6, <1>7, <1>9, <1>16 DEF CursorInv

LEMMA StackDropped ==
  ASSUME IInv, pc = "loop", stack' = Tail(stack), Continue(stack')
  PROVE  StackInv' /\ pc' \in {"loop", "done", "exit"}
<1>1. stack \in Seq(Symbols) /\ Len(stack) \in Nat /\ Len(stack) >= 2 /\ stack[Len(stack)] = EOF
      /\ \A i \in 1..(Len(stack) - 1) : stack[i] # EOF
  BY LenProperties DEF IInv, StackInv
<1>2. /\ stack' \in Seq(Symbols) /\ Len(stack') = Len(stack) - 1
      /\ \A i \in 1..(Len(stack) - 1) : stack'[i] = stack[i + 1] /\ i + 1 \in 1..Len(stack)
  BY <1>1, TailFacts
<1>3. stack'[Len(stack')] = EOF
  <2>1. Len(stack') \in 1..(Len(stack) - 1) /\ Len(stack') + 1 = Len(stack)
    BY <1>1, <1>2
  <2> QED BY <2>1, <1>1, <1>2
<1>4. ASSUME NEW i \in 1..(Len(stack') - 1) PROVE stack'[i] # EOF
  <2>1. i \in 1..(Len(stack) - 1) /\ i + 1 \in 1..(Len(stack) - 1)
    BY <1>1, <1>2
  <2> QED BY <2>1, <1>1, <1>2
<1>5. stack' # << >>
  <2>1. Len(stack') # 0
    BY <1>1, <1>2
  <2> QED BY <2>1, EmptySeq
<1>6. pc' = "loop" => Len(stack') >= 2
  BY <1>1, <1>2 DEF Continue
<1> QED BY <1>2, <1>3, <1>4, <1>5, <1>6 DEF StackInv, Continue

\* A token that is the symbol on top is one of the input.
LEMMA TokenThere ==
  ASSUME IInv, pc = "loop"
  PROVE  /\ Top # EOF /\ Top \in Symbols /\ tid \in Terms /\ input \in Seq(Terms \ {EOF}) /\ Len(input) \in Nat
         /\ Top = tid => pos <= Len(input) /\ tid = input[pos]
<1>1. Len(stack) \in Nat /\ Len(stack) >= 2 /\ 1 \in 1..(Len(stack) - 1) /\ 1 \in 1..Len(stack)
      /\ stack \in Seq(Symbols)
  BY LenProperties DEF IInv, StackInv
<1>2. stack[1] # EOF /\ stack[1] \in Symbols
  BY <1>1, ElementOfSeq DEF IInv, StackInv
<1>3. input \in Seq(Terms \ {EOF}) /\ pos \in Nat \ {0} /\ Len(input) \in Nat
  BY InputsAssumption, LenProperties DEF IInv, InputInv
<1>4. pos <= Len(input) => input[pos] \in Terms \ {EOF}
  BY <1>3, ElementOfSeq
<1> QED BY <1>2, <1>3, <1>4, GrammarAssumption DEF Top, tid

LEMMA MatchStep ==
  ASSUME IInv, Match
  PROVE  IInv'
<1>1. /\ pc = "loop" /\ Top = tid /\ tree' = [tree EXCEPT ![current_tn].tok = pos]
      /\ stack' = Tail(stack) /\ current_tn' = get_successor(tree, current_tn)
      /\ pos' = pos + 1 /\ Continue(stack') /\ UNCHANGED <<input, error_count>>
  BY DEF Match, Loop
<1>2. tree \in Seq(Tree) /\ pos \in Nat \ {0} /\ Len(tree) \in Nat
  BY LenProperties DEF IInv, TreeInv, InputInv
<1>3. \A m \in 1..Len(tree) : tree[m] \in Tree
  BY <1>2, ElementOfSeq
<1>4. /\ Len(tree') = Len(tree) /\ DOMAIN tree' = 1..Len(tree)
      /\ \A m \in 1..Len(tree) : tree'[m] = IF m = current_tn THEN [tree[m] EXCEPT !.tok = pos] ELSE tree[m]
  BY <1>1, <1>2
<1>5. ASSUME NEW m \in 1..Len(tree)
      PROVE  /\ tree'[m] \in Tree /\ tree'[m].sid = tree[m].sid /\ tree'[m].parent = tree[m].parent
             /\ tree'[m].first_child = tree[m].first_child /\ tree'[m].next_sibling = tree[m].next_sibling
  <2>1. tree[m] \in Tree
    BY <1>3
  <2> QED BY <2>1, <1>2, <1>4 DEF Tree
<1>6. tree' \in Seq(Tree)
  <2>1. ASSUME NEW t, t = [tree EXCEPT ![current_tn].tok = pos] PROVE t = [m \in 1..Len(tree) |-> t[m]]
    <3>1. DOMAIN tree = 1..Len(tree)
      BY <1>2
    <3> QED BY <2>1, <3>1
  <2>2. tree' = [m \in 1..Len(tree) |-> tree'[m]]
    BY <2>1, <1>1
  <2> QED BY <2>2, <1>2, <1>5
<1>7. SameLinks(tree, tree')
  BY <1>4, <1>5 DEF SameLinks
<1>8. CursorInv' /\ ParentsFirst(tree)'
  BY <1>1, <1>7, DropTop
<1>9. TreeInv'
  BY <1>4, <1>5, <1>6, <1>8 DEF IInv, TreeInv
<1>10. StackInv' /\ pc' \in {"loop", "done", "exit"}
  BY <1>1, StackDropped
<1>11. InputInv'
  BY <1>1, <1>10, TokenThere DEF IInv, InputInv
<1> QED BY <1>8, <1>9, <1>10, <1>11 DEF IInv

\* A symbol is dropped in an error.
LEMMA DropStep ==
  ASSUME IInv, Mismatch \/ Unexpected
  PROVE  IInv'
<1>1. /\ pc = "loop" /\ UNCHANGED <<input, tree>> /\ error_count' = error_count + 1
      /\ stack' = Tail(stack) /\ Continue(stack') /\ pos' \in {pos, pos + 1}
      /\ current_tn' \in {get_successor(tree, current_tn), get_first_child_or_successor(tree, current_tn)}
  BY DEF Mismatch, Unexpected, Loop
<1>2. tree[current_tn].first_child = NULL
  <2>1. PICK up : \E from : \E s : InStep(tree, up, s) /\ current_tn = Follower(s, 1)
    BY DEF IInv, CursorInv
  <2>2. PICK s : InStep(tree, up, s) /\ current_tn = Follower(s, 1)
    BY <2>1
  <2> QED BY <2>2, <1>1, AtTop
<1>3. current_tn' = get_successor(tree, current_tn)
  BY <1>1, <1>2 DEF get_first_child_or_successor
<1>4. SameLinks(tree, tree')
  BY <1>1 DEF SameLinks
<1>5. CursorInv'
  BY <1>1, <1>3, <1>4, DropTop
<1>6. TreeInv'
  BY <1>1 DEF IInv, TreeInv
<1>7. StackInv' /\ pc' \in {"loop", "done", "exit"}
  BY <1>1, StackDropped
<1>8. InputInv'
  BY <1>1, <1>7 DEF IInv, InputInv
<1> QED BY <1>5, <1>6, <1>7, <1>8 DEF IInv

-----------------------------------------------------------------------------
(* A rule is applied. *)

\* The nodes of u are those of t, in which n has children for the symbols rhs;
\* of the children each is followed by the next.
Grown(t, u, n, rhs) ==
  /\ Len(t) \in Nat /\ Len(rhs) \in Nat /\ Len(u) = Len(t) + Len(rhs)
  /\ \A m \in 1..Len(t) : /\ u[m].sid = t[m].sid /\ u[m].parent = t[m].parent
                          /\ u[m].next_sibling = t[m].next_sibling
                          /\ u[m].first_child = IF m = n THEN IF rhs = << >> THEN NULL ELSE Len(t) + 1
                                                ELSE t[m].first_child
  /\ \A i \in 1..Len(rhs) :
       /\ u[Len(t) + i].sid = rhs[i] /\ u[Len(t) + i].parent = n
       /\ u[Len(t) + i].first_child = NULL
       /\ u[Len(t) + i].next_sibling = IF i < Len(rhs) THEN Len(t) + i + 1 ELSE NULL

LEMMA ChildrenAdded ==
  ASSUME tree \in Seq(Tree), pos \in Nat, NEW n \in 1..Len(tree), NEW r \in Nat,
         NEW rhs \in Seq(Symbols), NEW t, t = AddChildren(n, r, rhs)
  PROVE  t \in Seq(Tree) /\ Grown(tree, t, n, rhs)
<1> DEFINE c == IF rhs = << >> THEN NULL ELSE Len(tree) + 1
           A == [tree EXCEPT ![n].rule_num = r, ![n].tok = pos, ![n].first_child = c]
           K(i) == [Node(rhs[i], n) EXCEPT !.next_sibling = IF i < Len(rhs) THEN Len(tree) + i + 1 ELSE NULL]
           B == [i \in DOMAIN rhs |-> K(i)]
<1>1. t = A \o B
  BY DEF AddChildren
<1>2. /\ Len(tree) \in Nat /\ DOMAIN tree = 1..Len(tree) /\ \A m \in 1..Len(tree) : tree[m] \in Tree
      /\ Len(rhs) \in Nat /\ DOMAIN rhs = 1..Len(rhs) /\ \A i \in 1..Len(rhs) : rhs[i] \in Symbols
  BY LenProperties, ElementOfSeq
<1>3. c \in Nat
  BY <1>2 DEF NULL
<1> HIDE DEF c
<1>4. ASSUME NEW m \in 1..Len(tree)
      PROVE  /\ A[m] \in Tree
             /\ A[m].sid = tree[m].sid /\ A[m].parent = tree[m].parent
             /\ A[m].next_sibling = tree[m].next_sibling
             /\ A[m].first_child = IF m = n THEN c ELSE tree[m].first_child
  <2>1. tree[m] \in Tree
    BY <1>2
  <2>2. CASE m = n
    <3>1. A[m] = [tree[m] EXCEPT !.rule_num = r, !.tok = pos, !.first_child = c]
      BY <1>2, <2>2
    <3> DEFINE x == tree[m]
    <3>2. x \in Tree /\ A[m] = [x EXCEPT !.rule_num = r, !.tok = pos, !.first_child = c]
      BY <3>1, <2>1
    <3> HIDE DEF x, A
    <3>3. A[m] \in Tree
      BY <3>2, <1>3 DEF Tree
    <3>4. A[m].sid = x.sid /\ A[m].parent = x.parent /\ A[m].next_sibling = x.next_sibling /\ A[m].first_child = c
      BY <3>2 DEF Tree
    <3> QED BY <3>3, <3>4, <2>2 DEF x
  <2>3. CASE m # n
    BY <2>1, <2>3, <1>2
  <2> QED BY <2>2, <2>3
<1>5. A = [m \in 1..Len(tree) |-> A[m]]
  BY <1>2
<1>6. ASSUME NEW i \in 1..Len(rhs)
      PROVE  /\ B[i] \in Tree /\ B[i].sid = rhs[i] /\ B[i].parent = n /\ B[i].first_child = NULL
             /\ B[i].next_sibling = IF i < Len(rhs) THEN Len(tree) + i + 1 ELSE NULL
  <2>1. B[i] = K(i) /\ rhs[i] \in Symbols
    BY <1>2
  <2> DEFINE v == IF i < Len(rhs) THEN Len(tree) + i + 1 ELSE NULL
  <2>2. B[i] = [sid |-> rhs[i], parent |-> n, first_child |-> 0, next_sibling |-> v, rule_num |-> 0, tok |-> 0]
    BY <2>1 DEF Node, NULL, NoRule
  <2>3. v \in Nat /\ n \in Nat
    BY <1>2 DEF NULL
  <2> HIDE DEF B, v
  <2>4. B[i] \in Tree
    <3>1. rhs[i] \in Terms \cup Nonterms /\ 0 \in Nat
      BY <2>1 DEF Symbols
    <3> DEFINE y == rhs[i]
    <3> HIDE DEF y
    <3>2. y \in Terms \cup Nonterms
      BY <3>1 DEF y
    <3>3. [sid |-> y, parent |-> n, first_child |-> 0, next_sibling |-> v, rule_num |-> 0, tok |-> 0] \in Tree
      BY <2>3, <3>1, <3>2 DEF Tree
    <3> QED BY <2>2, <3>3 DEF y
  <2>5. B[i].sid = rhs[i] /\ B[i].parent = n /\ B[i].first_child = NULL /\ B[i].next_sibling = v
    BY <2>2 DEF NULL
  <2> QED BY <2>4, <2>5 DEF v
<1>7. B = [i \in 1..Len(rhs) |-> B[i]]
  BY <1>2
<1> HIDE DEF A, B
<1>8. A \in Seq(Tree) /\ Len(A) = Len(tree)
  <2>1. A \in Seq(Tree)
    BY <1>2, <1>4, <1>5
  <2>2. Len(A) = Len(tree)
    BY <1>2, <1>5
  <2> QED BY <2>1, <2>2
<1>9. B \in Seq(Tree) /\ Len(B) = Len(rhs)
  <2>1. B \in Seq(Tree)
    BY <1>2, <1>6, <1>7
  <2>2. Len(B) = Len(rhs)
    BY <1>2, <1>7
  <2> QED BY <2>1, <2>2
<1>10. /\ t \in Seq(Tree) /\ Len(t) = Len(tree) + Len(rhs)
       /\ \A m \in 1..(Len(tree) + Len(rhs)) : t[m] = IF m <= Len(tree) THEN A[m] ELSE B[m - Len(tree)]
  <2>1. /\ A \o B \in Seq(Tree) /\ Len(A \o B) = Len(A) + Len(B)
        /\ \A m \in 1..(Len(A) + Len(B)) : (A \o B)[m] = IF m <= Len(A) THEN A[m] ELSE B[m - Len(A)]
    BY <1>8, <1>9, ConcatProperties
  <2> QED BY <2>1, <1>1, <1>8, <1>9
<1>11. ASSUME NEW m \in 1..Len(tree) PROVE t[m] = A[m]
  BY <1>2, <1>10
<1>12. ASSUME NEW i \in 1..Len(rhs) PROVE t[Len(tree) + i] = B[i]
  <2>1. Len(tree) + i \in 1..(Len(tree) + Len(rhs)) /\ ~(Len(tree) + i <= Len(tree)) /\ Len(tree) + i - Len(tree) = i
    BY <1>2
  <2> QED BY <2>1, <1>10
<1>13. \A m \in 1..Len(tree) : /\ t[m].sid = tree[m].sid /\ t[m].parent = tree[m].parent
                               /\ t[m].next_sibling = tree[m].next_sibling
                               /\ t[m].first_child = IF m = n THEN c ELSE tree[m].first_child
  BY <1>4, <1>11
<1>14. \A i \in 1..Len(rhs) :
         /\ t[Len(tree) + i].sid = rhs[i] /\ t[Len(tree) + i].parent = n
         /\ t[Len(tree) + i].first_child = NULL
         /\ t[Len(tree) + i].next_sibling = IF i < Len(rhs) THEN Len(tree) + i + 1 ELSE NULL
  BY <1>6, <1>12
<1> QED BY <1>2, <1>10, <1>13, <1>14 DEF c, Grown

\* The children, in order, come before what followed their parent n.
Kids(L, k) == [i \in 1..k |-> L + i]
NewUp(L, k, up, n) == [m \in 0..(L + k) |-> IF m <= L THEN up[m] ELSE IF m < L + k THEN m + 1 ELSE up[n]]
NewFrom(L, k, from, s) ==
  [m \in 0..(L + k) |-> IF m <= L THEN from[m] ELSE Kids(m - 1, L + k + 1 - m) \o Tail(s)]

\* A child is not its own parent: the parents still come first.
LEMMA GrownUp ==
  ASSUME NEW t, NEW u, NEW n \in 1..Len(t), NEW rhs, Grown(t, u, n, rhs), ParentsFirst(t),
         NEW up, IsUp(t, up)
  PROVE  ParentsFirst(u) /\ IsUp(u, NewUp(Len(t), Len(rhs), up, n))
<1> DEFINE L == Len(t)
           k == Len(rhs)
           new == NewUp(L, k, up, n)
<1>1. L \in Nat /\ k \in Nat /\ Len(u) = L + k
  BY DEF Grown
<1>2. ASSUME NEW m \in 1..(L + k) PROVE m \in 1..L \/ (m - L \in 1..k /\ L + (m - L) = m)
  BY <1>1
<1>3. ASSUME NEW m \in 1..(L + k) PROVE u[m].parent \in 0..(m - 1)
  <2>1. CASE m \in 1..L
    <3>1. u[m].parent = t[m].parent
      BY <2>1 DEF Grown
    <3> QED BY <2>1, <3>1 DEF ParentsFirst
  <2>2. CASE m - L \in 1..k /\ L + (m - L) = m
    <3>1. u[L + (m - L)].parent = n
      BY <2>2 DEF Grown
    <3> QED BY <2>2, <3>1, <1>1
  <2> QED BY <2>1, <2>2, <1>2
<1>4. ParentsFirst(u)
  BY <1>1, <1>3 DEF ParentsFirst
<1>5. \A m \in 0..(L + k) : new[m] = IF m <= L THEN up[m] ELSE IF m < L + k THEN m + 1 ELSE up[n]
  BY DEF NewUp
<1>6. new = [m \in 0..(L + k) |-> new[m]]
  BY <1>5 DEF NewUp
<1> HIDE DEF new
<1>7. ASSUME NEW m \in 0..(L + k) PROVE new[m] = UpAt(u, new, m)
  <2>1. CASE m = NULL
    <3>1. 0 \in 0..L /\ 0 <= L
      BY <1>1
    <3>2. up[0] = NULL
      BY <3>1 DEF IsUp, UpAt, NULL
    <3> QED BY <2>1, <3>1, <3>2, <1>5 DEF UpAt, NULL
  <2>2. CASE m \in 1..L
    <3>1. m # NULL /\ m \in 0..L /\ m <= L
      BY <2>2, <1>1 DEF NULL
    <3>2. up[m] = IF t[m].next_sibling # NULL THEN t[m].next_sibling ELSE up[t[m].parent]
      BY <3>1 DEF IsUp, UpAt
    <3>3. u[m].next_sibling = t[m].next_sibling /\ u[m].parent = t[m].parent
      BY <2>2 DEF Grown
    <3>4. t[m].parent \in 0..(m - 1)
      BY <2>2 DEF ParentsFirst
    <3>5. t[m].parent \in 0..(L + k) /\ t[m].parent <= L
      BY <3>4, <2>2, <1>1
    <3>6. new[t[m].parent] = up[t[m].parent] /\ new[m] = up[m]
      BY <3>5, <3>1, <1>5
    <3> QED BY <3>1, <3>2, <3>3, <3>6 DEF UpAt
  <2>3. CASE m - L \in 1..k /\ L + (m - L) = m
    <3>1. u[m].next_sibling = (IF m - L < k THEN m + 1 ELSE NULL) /\ u[m].parent = n
      BY <2>3 DEF Grown
    <3>2. m # NULL /\ ~(m <= L) /\ n <= L /\ n \in 0..(L + k) /\ (m - L < k <=> m < L + k) /\ m + 1 # NULL
      BY <2>3, <1>1 DEF NULL
    <3>3. new[m] = (IF m < L + k THEN m + 1 ELSE up[n]) /\ new[n] = up[n]
      BY <3>2, <1>5
    <3> QED BY <3>1, <3>2, <3>3 DEF UpAt
  <2>4. m = NULL \/ m \in 1..(L + k)
    BY <1>1 DEF NULL
  <2> QED BY <2>1, <2>2, <2>3, <2>4, <1>2
<1>8. IsUp(u, new)
  BY <1>1, <1>6, <1>7 DEF IsUp
<1> QED BY <1>4, <1>8 DEF new

LEMMA KidsFacts ==
  ASSUME NEW L \in Nat, NEW k \in Nat
  PROVE  /\ Kids(L, k) \in Seq(1..(L + k)) /\ Len(Kids(L, k)) = k
         /\ \A i \in 1..k : Kids(L, k)[i] = L + i
<1> DEFINE K == Kids(L, k)
<1>1. K = [i \in 1..k |-> K[i]] /\ \A i \in 1..k : K[i] = L + i /\ K[i] \in 1..(L + k)
  BY DEF Kids
<1> HIDE DEF K
<1>2. K \in Seq(1..(L + k))
  BY <1>1
<1>3. Len(K) = k
  BY <1>1
<1> QED BY <1>1, <1>2, <1>3 DEF K

LEMMA NodesAssociative ==
  ASSUME NEW a \in Seq(Nat), NEW b \in Seq(Nat), NEW c \in Seq(Nat)
  PROVE  (a \o b) \o c = a \o (b \o c)
BY SMTT(30), ConcatAssociative

\* The first child, and then the others.
LEMMA KidsRecursive ==
  ASSUME NEW L \in Nat, NEW k \in Nat \ {0}
  PROVE  Kids(L, k) = <<L + 1>> \o Kids(L + 1, k - 1)
<1> DEFINE A == Kids(L, k)
           B == Kids(L + 1, k - 1)
           C == <<L + 1>>
<1>1. A \in Seq(Nat) /\ Len(A) = k /\ \A i \in 1..k : A[i] = L + i
  <2>1. A \in Seq(1..(L + k)) /\ Len(A) = k /\ \A i \in 1..k : A[i] = L + i
    BY KidsFacts
  <2> QED BY <2>1
<1>2. B \in Seq(Nat) /\ Len(B) = k - 1 /\ \A i \in 1..(k - 1) : B[i] = L + 1 + i
  <2>1. k - 1 \in Nat /\ L + 1 \in Nat
    OBVIOUS
  <2>2. B \in Seq(1..(L + 1 + (k - 1))) /\ Len(B) = k - 1 /\ \A i \in 1..(k - 1) : B[i] = L + 1 + i
    BY <2>1, KidsFacts
  <2> QED BY <2>2
<1> HIDE DEF A, B
<1>3. C \in Seq(Nat) /\ Len(C) = 1 /\ C[1] = L + 1
  OBVIOUS
<1> HIDE DEF C
<1>4. /\ C \o B \in Seq(Nat) /\ Len(C \o B) = Len(C) + Len(B)
      /\ \A i \in 1..(Len(C) + Len(B)) : (C \o B)[i] = IF i <= Len(C) THEN C[i] ELSE B[i - Len(C)]
  BY <1>2, <1>3, ConcatProperties
<1>5. Len(C \o B) = Len(A)
  BY <1>1, <1>2, <1>3, <1>4
<1>6. ASSUME NEW i \in 1..Len(A) PROVE A[i] = (C \o B)[i]
  <2>1. CASE i = 1
    BY <1>1, <1>2, <1>3, <1>4, <2>1
  <2>2. CASE i # 1
    <3>1. i - 1 \in 1..(k - 1) /\ ~(i <= 1) /\ i \in 1..(1 + (k - 1))
      BY <1>1, <2>2
    <3>2. (C \o B)[i] = B[i - 1]
      BY <3>1, <1>2, <1>3, <1>4
    <3>3. B[i - 1] = L + 1 + (i - 1)
      BY <3>1, <1>2
    <3>4. A[i] = L + i /\ i \in Nat
      BY <1>1
    <3> QED BY <3>2, <3>3, <3>4
  <2> QED BY <2>1, <2>2
<1> QED BY <1>1, <1>4, <1>5, <1>6, SeqEqual DEF A, B, C

\* From a child on there are the later children and what followed the parent.
LEMMA GrownFrom ==
  ASSUME NEW t, NEW u, NEW k \in Nat, Len(t) \in Nat, Len(u) = Len(t) + k, NEW up, NEW from, IsFrom(t, up, from),
         NEW s, Chained(t, up, s), Len(s) >= 1, \A m \in 0..Len(t) : up[m] \in 0..Len(t)
  PROVE  IsFrom(u, NewUp(Len(t), k, up, s[1]), NewFrom(Len(t), k, from, s))
<1> DEFINE L == Len(t)
           T == Tail(s)
           n == s[1]
           nu == NewUp(L, k, up, n)
           nf == NewFrom(L, k, from, s)
<1>1. L \in Nat /\ n \in 1..L /\ up[n] \in 0..L /\ up[n] = Follower(s, 2)
      /\ Chained(t, up, T) /\ Follower(T, 1) = Follower(s, 2)
  <2>1. n \in 1..L /\ Chained(t, up, T) /\ Follower(T, 1) = Follower(s, 2) /\ up[n] = Follower(s, 2)
    BY TailChained
  <2>2. n \in 0..L
    BY <2>1
  <2> QED BY <2>1, <2>2
<1>2. from[up[n]] = T /\ T \in Seq(1..L)
  <2>1. from[Follower(T, 1)] = T
    BY <1>1, WalkIsChain
  <2> QED BY <2>1, <1>1 DEF Chained
<1>3. \A m \in 0..(L + k) : nu[m] = IF m <= L THEN up[m] ELSE IF m < L + k THEN m + 1 ELSE up[n]
  BY DEF NewUp
<1>4. \A m \in 0..(L + k) : nf[m] = IF m <= L THEN from[m] ELSE Kids(m - 1, L + k + 1 - m) \o T
  BY DEF NewFrom
<1>5. nf = [m \in 0..(L + k) |-> nf[m]]
  BY <1>4 DEF NewFrom
<1> HIDE DEF nu, nf, T, n
<1>6. ASSUME NEW m \in 0..(L + k) PROVE nf[m] = FromAt(nu, nf, m)
  <2>1. CASE m <= L
    <3>1. m \in 0..L /\ up[m] \in 0..L
      BY <1>1, <2>1
    <3>2. from[m] = FromAt(up, from, m)
      BY <3>1 DEF IsFrom
    <3>3. nf[m] = from[m] /\ nu[m] = up[m]
      BY <2>1, <1>3, <1>4
    <3>4. up[m] \in 0..(L + k) /\ up[m] <= L
      BY <3>1, <1>1
    <3>5. nf[up[m]] = from[up[m]]
      BY <3>4, <1>4
    <3> QED BY <3>2, <3>3, <3>5, Zenon DEF FromAt
  <2>2. CASE ~(m <= L)
    <3>1. /\ m - 1 \in Nat /\ L + k + 1 - m \in Nat \ {0} /\ m - 1 + 1 = m /\ m # NULL
          /\ L + k + 1 - m - 1 = L + k - m /\ L + k - m \in Nat /\ m \in Nat
      BY <1>1, <2>2 DEF NULL
    <3>2. Kids(m - 1, L + k + 1 - m) = <<m>> \o Kids(m, L + k - m)
      BY <3>1, KidsRecursive
    <3>3. nf[m] = <<m>> \o (Kids(m, L + k - m) \o T)
      <4>1. nf[m] = (<<m>> \o Kids(m, L + k - m)) \o T
        BY <2>2, <3>2, <1>4
      <4>2. Kids(m, L + k - m) \in Seq(1..(m + (L + k - m)))
        BY <3>1, KidsFacts
      <4> DEFINE K == Kids(m, L + k - m)
                 M == <<m>>
      <4> HIDE DEF K
      <4>3. K \in Seq(Nat) /\ T \in Seq(Nat)
        <5>1. K \in Seq(1..(m + (L + k - m)))
          BY <4>2 DEF K
        <5>2. K \in Seq(Nat)
          BY <5>1
        <5>3. T \in Seq(Nat)
          BY <1>2
        <5> QED BY <5>2, <5>3
      <4>4. M \in Seq(Nat)
        BY <3>1
      <4> HIDE DEF M
      <4>5. (M \o K) \o T = M \o (K \o T)
        BY <4>3, <4>4, NodesAssociative
      <4> QED BY <4>1, <4>5 DEF K, M
    <3>4. nf[nu[m]] = Kids(m, L + k - m) \o T
      <4>1. CASE m < L + k
        <5>1. nu[m] = m + 1 /\ m + 1 \in 0..(L + k) /\ ~(m + 1 <= L) /\ m + 1 - 1 = m
              /\ L + k + 1 - (m + 1) = L + k - m
          BY <2>2, <4>1, <1>1, <1>3
        <5>2. PICK j \in 0..(L + k) : j = m + 1
          BY <5>1
        <5>3. nf[j] = Kids(j - 1, L + k + 1 - j) \o T
          BY <5>1, <5>2, <1>4
        <5>4. j - 1 = m /\ L + k + 1 - j = L + k - m
          BY <5>1, <5>2
        <5> QED BY <5>1, <5>2, <5>3, <5>4
      <4>2. CASE ~(m < L + k)
        <5>1. nu[m] = up[n] /\ up[n] \in 0..(L + k) /\ up[n] <= L /\ L + k - m = 0
          <6>1. nu[m] = up[n]
            BY <2>2, <4>2, <1>3
          <6>2. L + k - m = 0
            BY <2>2, <4>2, <1>1
          <6>3. up[n] \in 0..(L + k) /\ up[n] <= L
            BY <1>1
          <6> QED BY <6>1, <6>2, <6>3
        <5>2. nf[nu[m]] = T
          BY <5>1, <1>2, <1>4
        <5>3. Kids(m, 0) \in Seq(1..(m + 0)) /\ Len(Kids(m, 0)) = 0
          BY <3>1, KidsFacts
        <5>4. Kids(m, 0) = << >>
          BY <5>3, EmptySeq
        <5>5. << >> \o T = T
          BY <1>2, ConcatEmptySeq
        <5> QED BY <5>1, <5>2, <5>4, <5>5
      <4> QED BY <4>1, <4>2
    <3> QED BY <3>1, <3>3, <3>4, Zenon DEF FromAt
  <2> QED BY <2>1, <2>2
<1> QED BY <1>5, <1>6 DEF IsFrom, nu, nf, n

\* Climbing never leaves the tree.
LEMMA UpInTree ==
  ASSUME NEW t, ParentsFirst(t), \A n \in 1..Len(t) : t[n].next_sibling \in 0..Len(t),
         NEW up, IsUp(t, up), NEW n \in 0..Len(t)
  PROVE  up[n] \in 0..Len(t)
<1> DEFINE T == {m \in 0..Len(t) : up[m] \notin 0..Len(t)}
<1>1. SUFFICES ASSUME T # {} PROVE FALSE
  OBVIOUS
<1>2. T \subseteq Nat /\ Len(t) \in Nat
  BY DEF ParentsFirst
<1>3. PICK m \in T : \A k \in T : m <= k
  BY <1>1, <1>2, Least
<1>4. m \in 0..Len(t) /\ up[m] \notin 0..Len(t) /\ up[m] = UpAt(t, up, m)
  BY DEF IsUp
<1>5. m # NULL
  BY <1>2, <1>4 DEF UpAt, NULL
<1>6. m \in 1..Len(t)
  BY <1>4, <1>5 DEF NULL
<1>7. up[m] = up[t[m].parent] /\ t[m].parent \in 0..(m - 1)
  BY <1>4, <1>5, <1>6 DEF UpAt, ParentsFirst
<1>8. t[m].parent \in 0..Len(t) /\ ~(m <= t[m].parent)
  BY <1>2, <1>6, <1>7
<1> QED BY <1>3, <1>4, <1>7, <1>8

\* What the parts of a concatenation are.
PartsOf(c, a, b) ==
  /\ Len(c) = Len(a) + Len(b) /\ Len(a) \in Nat /\ Len(b) \in Nat /\ Len(c) \in Nat
  /\ \A i \in 1..Len(a) : i \in 1..Len(c) /\ c[i] = a[i]
  /\ \A i \in 1..Len(b) : Len(a) + i \in 1..Len(c) /\ c[Len(a) + i] = b[i]
  /\ \A i \in 1..Len(c) : i \in 1..Len(a) \/ (i - Len(a) \in 1..Len(b) /\ Len(a) + (i - Len(a)) = i)

LEMMA Parts ==
  ASSUME NEW S, NEW a \in Seq(S), NEW b \in Seq(S), NEW c, c = a \o b
  PROVE  c \in Seq(S) /\ PartsOf(c, a, b)
<1>1. Len(a) \in Nat /\ Len(b) \in Nat
  BY LenProperties
<1>2. /\ c \in Seq(S) /\ Len(c) = Len(a) + Len(b)
      /\ \A i \in 1..(Len(a) + Len(b)) : c[i] = IF i <= Len(a) THEN a[i] ELSE b[i - Len(a)]
  <2>1. /\ a \o b \in Seq(S) /\ Len(a \o b) = Len(a) + Len(b)
        /\ \A i \in 1..(Len(a) + Len(b)) : (a \o b)[i] = IF i <= Len(a) THEN a[i] ELSE b[i - Len(a)]
    BY ConcatProperties
  <2> QED BY <2>1
<1>3. \A i \in 1..Len(a) : i \in 1..(Len(a) + Len(b)) /\ i <= Len(a)
  BY <1>1
<1>4. ASSUME NEW i \in 1..Len(b) PROVE Len(a) + i \in 1..Len(c) /\ c[Len(a) + i] = b[i]
  <2>1. /\ Len(a) + i \in 1..(Len(a) + Len(b)) /\ ~(Len(a) + i <= Len(a)) /\ Len(a) + i - Len(a) = i
    BY <1>1
  <2> QED BY <2>1, <1>2
<1>5. \A i \in 1..Len(c) : i \in 1..Len(a) \/ (i - Len(a) \in 1..Len(b) /\ Len(a) + (i - Len(a)) = i)
  BY <1>1, <1>2
<1> QED BY <1>1, <1>2, <1>3, <1>4, <1>5 DEF PartsOf

\* The children of the first pending node and the others pending follow one another.
LEMMA GrownChain ==
  ASSUME NEW t, NEW u, NEW k \in Nat, Len(t) \in Nat, Len(u) = Len(t) + k, NEW up,
         NEW s, Chained(t, up, s), Len(s) >= 1,
         NEW z, z = Kids(Len(t), k) \o Tail(s)
  PROVE  Chained(u, NewUp(Len(t), k, up, s[1]), z)
<1> DEFINE L == Len(t)
           T == Tail(s)
           K == Kids(L, k)
           nu == NewUp(L, k, up, s[1])
<1>1. /\ Chained(t, up, T) /\ Follower(T, 1) = Follower(s, 2) /\ up[s[1]] = Follower(s, 2)
      /\ s[1] \in 1..L
  BY TailChained
<1>2. L \in Nat /\ T \in Seq(1..L) /\ \A i \in 1..Len(T) : up[T[i]] = Follower(T, i + 1) /\ T[i] \in 1..L
  <2>1. T \in Seq(1..L)
    BY <1>1 DEF Chained
  <2> QED BY <2>1, <1>1, ElementOfSeq DEF Chained
<1>3. K \in Seq(1..(L + k)) /\ Len(K) = k /\ \A i \in 1..k : K[i] = L + i
  BY KidsFacts
<1>4. \A m \in 0..(L + k) : nu[m] = IF m <= L THEN up[m] ELSE IF m < L + k THEN m + 1 ELSE up[s[1]]
  BY DEF NewUp
<1> HIDE DEF T, K, nu
<1>5. T \in Seq(1..(L + k))
  <2>1. 1..L \subseteq 1..(L + k)
    BY <1>2
  <2> QED BY <2>1, <1>2, SeqMonotonic
<1>6. z = K \o T
  BY DEF K, T
<1>7. /\ z \in Seq(1..(L + k)) /\ Len(z) = k + Len(T) /\ Len(T) \in Nat
      /\ \A i \in 1..k : i \in 1..Len(z) /\ z[i] = K[i]
      /\ \A i \in 1..Len(T) : k + i \in 1..Len(z) /\ z[k + i] = T[i]
      /\ \A i \in 1..Len(z) : i \in 1..k \/ (i - k \in 1..Len(T) /\ k + (i - k) = i)
  <2>1. /\ z \in Seq(1..(L + k)) /\ Len(z) = Len(K) + Len(T) /\ Len(T) \in Nat
        /\ \A i \in 1..Len(K) : i \in 1..Len(z) /\ z[i] = K[i]
        /\ \A i \in 1..Len(T) : Len(K) + i \in 1..Len(z) /\ z[Len(K) + i] = T[i]
        /\ \A i \in 1..Len(z) : i \in 1..Len(K) \/ (i - Len(K) \in 1..Len(T) /\ Len(K) + (i - Len(K)) = i)
    <3> DEFINE N == 1..(L + k)
    <3>1. K \in Seq(N) /\ T \in Seq(N)
      BY <1>3, <1>5
    <3> HIDE DEF N
    <3>2. z \in Seq(N) /\ PartsOf(z, K, T)
      BY <3>1, <1>6, Parts
    <3> QED BY <3>2 DEF N, PartsOf
  <2> QED BY <2>1, <1>3
<1>8. \A i \in Nat \ {0} : Follower(z, k + i) = Follower(T, i)
  <2> TAKE i \in Nat \ {0}
  <2>1. i <= Len(T) <=> k + i <= Len(z)
    <3>1. PICK l \in Nat : l = Len(T)
      BY <1>7
    <3>2. Len(z) = k + l
      BY <3>1, <1>7
    <3>3. i <= l <=> k + i <= k + l
      OBVIOUS
    <3> QED BY <3>1, <3>2, <3>3
  <2>2. ASSUME i <= Len(T) PROVE z[k + i] = T[i]
    <3>1. i \in 1..Len(T)
      BY <1>7, <2>2
    <3> QED BY <3>1, <1>7
  <2> QED BY <2>1, <2>2 DEF Follower
<1>9. ASSUME NEW i \in 1..Len(z) PROVE nu[z[i]] = Follower(z, i + 1)
  <2>1. CASE i \in 1..k
    <3>1. z[i] = L + i /\ L + i \in 0..(L + k) /\ ~(L + i <= L) /\ (L + i < L + k <=> i < k)
      <4>1. z[i] = K[i] /\ K[i] = L + i
        BY <2>1, <1>3, <1>7
      <4>2. L + i \in 0..(L + k) /\ ~(L + i <= L) /\ (L + i < L + k <=> i < k)
        BY <2>1, <1>2
      <4> QED BY <4>1, <4>2
    <3>2. nu[L + i] = IF L + i < L + k THEN L + i + 1 ELSE up[s[1]]
      BY <3>1, <1>4
    <3>3. CASE i < k
      <4>1. i + 1 \in 1..k /\ i + 1 <= Len(z)
        BY <2>1, <3>3, <1>7
      <4>2. z[i + 1] = L + (i + 1)
        BY <4>1, <1>3, <1>7
      <4>3. L + (i + 1) = L + i + 1
        BY <1>2, <2>1
      <4> QED BY <3>1, <3>2, <3>3, <4>1, <4>2, <4>3 DEF Follower
    <3>4. CASE ~(i < k)
      <4>1. i = k /\ 1 \in Nat \ {0}
        BY <2>1, <3>4
      <4>2. Follower(z, k + 1) = Follower(T, 1)
        BY <4>1, <1>8
      <4>3. Follower(T, 1) = up[s[1]]
        BY <1>1 DEF T
      <4> QED BY <3>1, <3>2, <3>4, <4>1, <4>2, <4>3
    <3> QED BY <3>3, <3>4
  <2>2. CASE i - k \in 1..Len(T) /\ k + (i - k) = i
    <3>1. z[i] = T[i - k]
      BY <2>2, <1>7
    <3>2. up[T[i - k]] = Follower(T, i - k + 1) /\ T[i - k] \in 1..L
      BY <2>2, <1>2
    <3>3. i - k + 1 \in Nat \ {0} /\ k + (i - k + 1) = i + 1
      BY <2>2
    <3>4. Follower(z, i + 1) = Follower(T, i - k + 1)
      <4>1. Follower(z, k + (i - k + 1)) = Follower(T, i - k + 1)
        BY <3>3, <1>8
      <4> QED BY <4>1, <3>3
    <3>5. T[i - k] \in 0..(L + k) /\ T[i - k] <= L
      BY SMTT(30), <3>2, <1>2
    <3>6. nu[T[i - k]] = up[T[i - k]]
      BY <3>5, <1>4
    <3> QED BY <3>1, <3>2, <3>4, <3>6
  <2> QED BY <2>1, <2>2, <1>7
<1> QED BY <1>7, <1>9 DEF Chained, nu

\* The rule that is applied is one of the nonterminal on top.
LEMMA RuleFits ==
  ASSUME IInv, pc = "loop", Top \in Nonterms, Rule # NoRule
  PROVE  /\ Rule \in DOMAIN Rules /\ Rule \in Nat /\ Rules[Rule].lhs = Top
         /\ Rules[Rule].rhs \in Seq(Symbols) /\ Rules[Rule].rhs \in Seq((Terms \ {EOF}) \cup Nonterms)
<1>1. tid \in Terms
  BY TokenThere
<1>2. pt[Top] \in [Terms -> {NoRule} \cup DOMAIN Rules]
  BY TableAssumption
<1>3. Rule \in DOMAIN Rules /\ Rules[Rule].lhs = Top
  BY <1>1, <1>2, TableAssumption DEF Rule
<1>4. Rules[Rule].rhs \in Seq((Terms \ {EOF}) \cup Nonterms)
  BY <1>3, GrammarAssumption
<1>5. (Terms \ {EOF}) \cup Nonterms \subseteq Symbols
  BY DEF Symbols
<1>6. Rules[Rule].rhs \in Seq(Symbols)
  BY <1>4, <1>5, SeqMonotonic
<1> QED BY <1>3, <1>4, <1>6, GrammarAssumption

LEMMA StackPushed ==
  ASSUME IInv, pc = "loop", NEW rhs \in Seq((Terms \ {EOF}) \cup Nonterms),
         stack' = rhs \o Tail(stack), Continue(stack')
  PROVE  StackInv' /\ pc' \in {"loop", "done"} /\ PartsOf(stack', rhs, Tail(stack))
<1>1. stack \in Seq(Symbols) /\ Len(stack) \in Nat /\ Len(stack) >= 2 /\ stack[Len(stack)] = EOF
      /\ \A i \in 1..(Len(stack) - 1) : stack[i] # EOF
  BY LenProperties DEF IInv, StackInv
<1> DEFINE T == Tail(stack)
<1>2. /\ T \in Seq(Symbols) /\ Len(T) = Len(stack) - 1
      /\ \A i \in 1..(Len(stack) - 1) : T[i] = stack[i + 1] /\ i + 1 \in 1..Len(stack)
  BY <1>1, TailFacts
<1> HIDE DEF T
<1>3. rhs \in Seq(Symbols) /\ \A i \in 1..Len(rhs) : rhs[i] # EOF
  <2>1. (Terms \ {EOF}) \cup Nonterms \subseteq Symbols
    BY DEF Symbols
  <2>2. rhs \in Seq(Symbols)
    BY <2>1, SeqMonotonic
  <2>3. \A i \in 1..Len(rhs) : rhs[i] \in (Terms \ {EOF}) \cup Nonterms
    BY ElementOfSeq
  <2> QED BY <2>2, <2>3, GrammarAssumption
<1>4. stack' \in Seq(Symbols) /\ PartsOf(stack', rhs, T)
  <2>1. stack' = rhs \o T
    BY DEF T
  <2> QED BY <2>1, <1>2, <1>3, Parts
<1>5. Len(stack') = Len(rhs) + Len(T) /\ Len(rhs) \in Nat /\ Len(T) >= 1
  BY <1>1, <1>2, <1>4 DEF PartsOf
<1>6. stack'[Len(stack')] = EOF
  <2>1. Len(T) \in 1..Len(T) /\ Len(T) \in 1..(Len(stack) - 1) /\ Len(T) + 1 = Len(stack)
    BY <1>1, <1>2
  <2>2. T[Len(T)] = EOF
    BY <2>1, <1>1, <1>2
  <2>3. stack'[Len(rhs) + Len(T)] = T[Len(T)]
    BY <2>1, <1>4 DEF PartsOf
  <2> QED BY <2>2, <2>3, <1>5
<1>7. ASSUME NEW i \in 1..(Len(stack') - 1) PROVE stack'[i] # EOF
  <2>1. i \in 1..Len(stack')
    BY <1>5, <1>2, <1>1
  <2>2. CASE i \in 1..Len(rhs)
    BY <2>2, <1>3, <1>4 DEF PartsOf
  <2>3. CASE i - Len(rhs) \in 1..Len(T) /\ Len(rhs) + (i - Len(rhs)) = i
    <3>1. stack'[i] = T[i - Len(rhs)]
      BY <2>3, <1>4 DEF PartsOf
    <3>2. i - Len(rhs) \in 1..(Len(stack) - 1) /\ i - Len(rhs) + 1 \in 1..(Len(stack) - 1)
      BY <2>3, <1>1, <1>2, <1>5
    <3>3. T[i - Len(rhs)] = stack[i - Len(rhs) + 1]
      BY <3>2, <1>2
    <3> QED BY <3>1, <3>2, <3>3, <1>1
  <2> QED BY <2>1, <2>2, <2>3, <1>4 DEF PartsOf
<1>8. stack' # << >>
  <2>1. Len(stack') # 0
    BY <1>1, <1>2, <1>5
  <2> QED BY <2>1, EmptySeq
<1>9. pc' = "loop" => Len(stack') >= 2
  BY <1>1, <1>2, <1>5 DEF Continue
<1> QED BY <1>4, <1>6, <1>7, <1>8, <1>9 DEF StackInv, Continue, T

\* The children of the node under the cursor are pending now, in order.
LEMMA GrownInStep ==
  ASSUME IInv, pc = "loop", NEW rhs \in Seq((Terms \ {EOF}) \cup Nonterms),
         stack' = rhs \o Tail(stack), PartsOf(stack', rhs, Tail(stack)),
         Grown(tree, tree', current_tn, rhs),
         current_tn' = get_first_child_or_successor(tree', current_tn)
  PROVE  CursorInv' /\ ParentsFirst(tree)'
<1>1. PICK up : \E from : \E s : /\ IsUp(tree, up) /\ IsFrom(tree, up, from) /\ InStep(tree, up, s)
                                 /\ current_tn = Follower(s, 1)
  BY DEF IInv, CursorInv
<1>2. PICK from : \E s : /\ IsUp(tree, up) /\ IsFrom(tree, up, from) /\ InStep(tree, up, s)
                         /\ current_tn = Follower(s, 1)
  BY <1>1
<1>3. PICK s : /\ IsUp(tree, up) /\ IsFrom(tree, up, from) /\ InStep(tree, up, s)
               /\ current_tn = Follower(s, 1)
  BY <1>2
<1> DEFINE L == Len(tree)
           k == Len(rhs)
           n == current_tn
           nu == NewUp(L, k, up, s[1])
           nf == NewFrom(L, k, from, s)
           T == Tail(s)
           z == Kids(L, k) \o T
<1>4. /\ Len(s) >= 1 /\ n = s[1] /\ n \in 1..L /\ up[n] = Follower(s, 2)
      /\ tree[n].first_child = NULL
  BY <1>3, AtTop
<1>5. ParentsFirst(tree) /\ L \in Nat /\ k \in Nat /\ Len(tree') = L + k
  BY DEF IInv, TreeInv, ParentsFirst, Grown
<1>6. \A m \in 0..L : up[m] \in 0..L
  <2>1. \A m \in 1..Len(tree) : tree[m].next_sibling \in 0..Len(tree)
    BY DEF IInv, TreeInv
  <2> QED BY <2>1, <1>3, <1>5, UpInTree
<1>7. Chained(tree, up, s)
  BY <1>3 DEF InStep
<1>8. ParentsFirst(tree') /\ IsUp(tree', nu)
  <2>1. ParentsFirst(tree') /\ IsUp(tree', NewUp(Len(tree), Len(rhs), up, n))
    BY <1>3, <1>4, <1>5, GrownUp
  <2> QED BY <2>1, <1>4
<1>9. IsFrom(tree', nu, nf)
  BY <1>3, <1>4, <1>5, <1>6, <1>7, GrownFrom
<1>10. Chained(tree', nu, z)
  BY <1>4, <1>5, <1>7, GrownChain
<1>11. /\ T \in Seq(1..L) /\ Len(T) = Len(s) - 1 /\ Len(s) \in Nat
       /\ \A i \in 1..(Len(s) - 1) : T[i] = s[i + 1] /\ i + 1 \in 1..Len(s)
       /\ Follower(T, 1) = Follower(s, 2)
  <2>1. s \in Seq(1..L)
    BY <1>7 DEF Chained
  <2> QED BY <2>1, <1>4, <1>7, TailFacts, TailChained
<1>12. \A i \in 1..Len(T) : T[i] \in 1..L
  BY <1>11, ElementOfSeq
<1>13. Kids(L, k) \in Seq(1..(L + k)) /\ Len(Kids(L, k)) = k /\ \A i \in 1..k : Kids(L, k)[i] = L + i
  BY <1>5, KidsFacts
<1> HIDE DEF T
<1>14. PartsOf(z, Kids(L, k), T)
  <2> DEFINE N == 1..(L + k)
  <2>1. 1..L \subseteq N
    BY <1>5
  <2>2. T \in Seq(N) /\ Kids(L, k) \in Seq(N)
    BY <2>1, <1>11, <1>13, SeqMonotonic
  <2> HIDE DEF N
  <2> QED BY <2>2, Parts
<1> HIDE DEF nu, nf, z
<1>15. /\ Len(z) = k + Len(T)
       /\ \A i \in 1..k : z[i] = L + i
       /\ \A i \in 1..Len(T) : z[k + i] = T[i]
       /\ \A i \in 1..Len(z) : i \in 1..k \/ (i - k \in 1..Len(T) /\ k + (i - k) = i)
  BY <1>13, <1>14 DEF PartsOf
<1>16. current_tn' = Follower(z, 1)
  <2>1. tree'[n].first_child = IF rhs = << >> THEN NULL ELSE L + 1
    BY <1>4 DEF Grown
  <2>2. CASE rhs = << >>
    <3>1. k = 0
      BY <2>2
    <3>2. current_tn' = get_successor(tree', n)
      BY <2>1, <2>2 DEF get_first_child_or_successor
    <3>3. n \in 0..Len(tree') /\ n \in 0..(L + k) /\ n <= L
      BY <1>4, <1>5
    <3>4. get_successor(tree', n) = nu[n]
      BY <3>3, <1>8, SuccessorIsUp
    <3>5. nu[n] = up[n]
      BY <3>3 DEF nu, NewUp
    <3>6. Follower(z, 1) = Follower(T, 1)
      <4>1. 1 <= Len(z) <=> 1 <= Len(T)
        BY <3>1, <1>15
      <4>2. 1 <= Len(T) => z[1] = T[1]
        <5>1. ASSUME 1 <= Len(T) PROVE z[k + 1] = T[1]
          <6>1. 1 \in 1..Len(T)
            BY <5>1, <1>11
          <6> QED BY <6>1, <1>15
        <5> QED BY <5>1, <3>1
      <4> QED BY <4>1, <4>2 DEF Follower
    <3> QED BY <3>2, <3>4, <3>5, <3>6, <1>4, <1>11
  <2>3. CASE rhs # << >>
    <3>1. k # 0
      BY <2>3, EmptySeq
    <3>2. 1 \in 1..k /\ 1 <= Len(z) /\ L + 1 # NULL
      BY <3>1, <1>5, <1>11, <1>15, <1>4 DEF NULL
    <3>3. z[1] = L + 1
      BY <3>2, <1>15
    <3>4. tree'[n].first_child = L + 1
      BY <2>1, <2>3
    <3>5. current_tn' = L + 1
      BY <3>2, <3>4 DEF get_first_child_or_successor
    <3> QED BY <3>2, <3>3, <3>5 DEF Follower
  <2> QED BY <2>2, <2>3
<1>17. /\ Len(stack) \in Nat /\ Len(stack) >= 2 /\ Len(s) = Len(stack) - 1
       /\ Len(Tail(stack)) = Len(stack) - 1 /\ Len(stack') = k + Len(Tail(stack))
       /\ \A i \in 1..(Len(stack) - 1) : Tail(stack)[i] = stack[i + 1]
  <2>1. stack \in Seq(Symbols) /\ Len(stack) >= 2
    BY LenProperties DEF IInv, StackInv
  <2>2. /\ Len(Tail(stack)) = Len(stack) - 1 /\ Len(stack) \in Nat
        /\ \A i \in 1..(Len(stack) - 1) : Tail(stack)[i] = stack[i + 1]
    BY <2>1, TailFacts
  <2>3. Len(stack') = k + Len(Tail(stack)) /\ Len(s) = Len(stack) - 1
    BY <1>3 DEF PartsOf, InStep
  <2> QED BY <2>1, <2>2, <2>3
<1>18. ASSUME NEW i \in 1..Len(z)
       PROVE  tree'[z[i]].sid = stack'[i] /\ tree'[z[i]].first_child = NULL
  <2>1. CASE i \in 1..k
    <3>1. z[i] = L + i /\ stack'[i] = rhs[i]
      BY <2>1, <1>15 DEF PartsOf
    <3>2. tree'[L + i].sid = rhs[i] /\ tree'[L + i].first_child = NULL
      BY <2>1 DEF Grown
    <3> QED BY <3>1, <3>2
  <2>2. CASE i - k \in 1..Len(T) /\ k + (i - k) = i
    <3>1. PICK j \in 1..Len(T) : j = i - k /\ k + j = i
      BY <2>2
    <3>2. z[i] = T[j] /\ T[j] = s[j + 1] /\ j + 1 \in 1..Len(s) /\ j \in 1..(Len(stack) - 1) /\ T[j] \in 1..L
      BY <3>1, <1>11, <1>12, <1>15, <1>17
    <3>3. stack'[i] = Tail(stack)[j] /\ Tail(stack)[j] = stack[j + 1]
      BY <3>1, <3>2, <1>17 DEF PartsOf
    <3>4. tree[s[j + 1]].sid = stack[j + 1] /\ tree[s[j + 1]].first_child = NULL
      BY <3>2, <1>3 DEF InStep
    <3>5. s[j + 1] # n
      <4>1. 1 \in 1..Len(s) /\ j + 1 # 1
        BY <1>4, <1>11, <3>1
      <4>2. s[j + 1] = s[1] => j + 1 = 1
        BY <4>1, <3>2, <1>3 DEF InStep
      <4> QED BY <4>1, <4>2, <1>4
    <3>6. tree'[s[j + 1]].sid = tree[s[j + 1]].sid /\ tree'[s[j + 1]].first_child = tree[s[j + 1]].first_child
      BY <3>2, <3>5 DEF Grown
    <3> QED BY <3>2, <3>3, <3>4, <3>6
  <2> QED BY <2>1, <2>2, <1>15
<1>19. ASSUME NEW i \in 1..Len(z), NEW j \in 1..Len(z), z[i] = z[j]
       PROVE  i = j
  <2>1. ASSUME NEW a \in 1..Len(z), NEW b \in 1..Len(z), a \in 1..k, b - k \in 1..Len(T) /\ k + (b - k) = b
        PROVE  z[a] # z[b]
    <3>1. z[a] = L + a /\ ~(L + a <= L)
      BY <2>1, <1>5, <1>15
    <3>2. z[b] = T[b - k] /\ T[b - k] \in 1..L
      BY <2>1, <1>12, <1>15
    <3> QED BY <3>1, <3>2, <1>5
  <2>2. CASE i \in 1..k /\ j \in 1..k
    <3>1. L + i = L + j
      BY <2>2, <1>15, <1>19
    <3> QED BY <3>1, <2>2, <1>5
  <2>3. CASE (i - k \in 1..Len(T) /\ k + (i - k) = i) /\ (j - k \in 1..Len(T) /\ k + (j - k) = j)
    <3>1. PICK a \in 1..Len(T) : a = i - k /\ k + a = i
      BY <2>3
    <3>2. PICK b \in 1..Len(T) : b = j - k /\ k + b = j
      BY <2>3
    <3>3. T[a] = T[b]
      BY <3>1, <3>2, <1>15, <1>19
    <3>4. T[a] = s[a + 1] /\ a + 1 \in 1..Len(s) /\ T[b] = s[b + 1] /\ b + 1 \in 1..Len(s)
      BY <1>11
    <3>5. a + 1 = b + 1
      BY <3>3, <3>4, <1>3 DEF InStep
    <3> QED BY <3>1, <3>2, <3>5
  <2> QED BY <2>1, <2>2, <2>3, <1>15, <1>19
<1>20. Len(z) = Len(stack') - 1
  BY <1>5, <1>11, <1>15, <1>17
<1>21. PICK a : a = nu
  OBVIOUS
<1>22. PICK b : b = nf
  OBVIOUS
<1>23. PICK c : c = z
  OBVIOUS
<1>24. /\ \A i \in 1..Len(c) : tree'[c[i]].sid = stack'[i] /\ tree'[c[i]].first_child = NULL
       /\ \A i, j \in 1..Len(c) : c[i] = c[j] => i = j
       /\ Chained(tree', a, c) /\ Len(c) = Len(stack') - 1
  BY <1>10, <1>18, <1>19, <1>20, <1>21, <1>23
<1>25. InStep(tree, a, c)'
  BY <1>24 DEF InStep
<1>26. IsUp(tree', a) /\ IsFrom(tree', a, b) /\ current_tn' = Follower(c, 1)
  BY <1>8, <1>9, <1>16, <1>21, <1>22, <1>23
<1> QED BY <1>8, <1>25, <1>26 DEF CursorInv

LEMMA ExpandStep ==
  ASSUME IInv, Expand
  PROVE  IInv'
<1> DEFINE rhs == Rules[Rule].rhs
<1>1. /\ pc = "loop" /\ Top \in Nonterms /\ Rule # NoRule
      /\ stack' = rhs \o Tail(stack) /\ tree' = AddChildren(current_tn, Rule, rhs)
      /\ current_tn' = get_first_child_or_successor(tree', current_tn)
      /\ Continue(stack') /\ UNCHANGED <<input, pos, error_count>>
  BY DEF Expand, Loop, push_ll
<1>2. Rule \in Nat /\ rhs \in Seq(Symbols) /\ rhs \in Seq((Terms \ {EOF}) \cup Nonterms)
  BY <1>1, RuleFits
<1> HIDE DEF rhs
<1>3. current_tn \in 1..Len(tree)
  <2>1. PICK up : \E from : \E s : InStep(tree, up, s) /\ current_tn = Follower(s, 1)
    BY DEF IInv, CursorInv
  <2>2. PICK s : InStep(tree, up, s) /\ current_tn = Follower(s, 1)
    BY <2>1
  <2> QED BY <2>2, <1>1, AtTop
<1>4. tree' \in Seq(Tree) /\ Grown(tree, tree', current_tn, rhs)
  <2>1. tree \in Seq(Tree) /\ pos \in Nat
    BY DEF IInv, TreeInv, InputInv
  <2> QED BY <2>1, <1>1, <1>2, <1>3, ChildrenAdded
<1>5. StackInv' /\ pc' \in {"loop", "done"} /\ PartsOf(stack', rhs, Tail(stack))
  BY <1>1, <1>2, StackPushed
<1>6. CursorInv' /\ ParentsFirst(tree)'
  BY <1>1, <1>2, <1>4, <1>5, GrownInStep
<1>7. ASSUME NEW m \in 1..Len(tree')
      PROVE  tree'[m].first_child \in 0..Len(tree') /\ tree'[m].next_sibling \in 0..Len(tree')
  <2> DEFINE L == Len(tree)
             k == Len(rhs)
  <2>1. L \in Nat /\ k \in Nat /\ Len(tree') = L + k /\ (rhs # << >> => k >= 1)
    <3>1. rhs # << >> => k # 0
      BY <1>2, EmptySeq
    <3> QED BY <3>1, <1>4 DEF Grown
  <2>2. CASE m \in 1..L
    <3>1. tree[m].first_child \in 0..L /\ tree[m].next_sibling \in 0..L
      BY <2>2 DEF IInv, TreeInv
    <3>2. /\ tree'[m].next_sibling = tree[m].next_sibling
          /\ tree'[m].first_child \in {NULL, tree[m].first_child} \/ (rhs # << >> /\ tree'[m].first_child = L + 1)
      BY <2>2, <1>4 DEF Grown
    <3> QED BY <3>1, <3>2, <2>1 DEF NULL
  <2>3. CASE m - L \in 1..k /\ L + (m - L) = m
    <3>1. PICK i \in 1..k : L + i = m
      BY <2>3
    <3>2. /\ tree'[L + i].first_child = NULL
          /\ tree'[L + i].next_sibling = IF i < k THEN L + i + 1 ELSE NULL
      BY <1>4 DEF Grown
    <3> QED BY <3>1, <3>2, <2>1 DEF NULL
  <2> QED BY <2>1, <2>2, <2>3
<1>8. TreeInv'
  BY <1>4, <1>6, <1>7 DEF TreeInv
<1>9. InputInv'
  BY <1>1, <1>5 DEF IInv, InputInv
<1> QED BY <1>5, <1>6, <1>8, <1>9 DEF IInv

-----------------------------------------------------------------------------
(* Every step preserves the invariant. *)

LEMMA InitInv == Init => IInv
<1> SUFFICES ASSUME Init PROVE IInv
  OBVIOUS
<1>1. /\ input \in Inputs /\ pos = 1 /\ stack = <<Start, EOF>> /\ tree = <<Node(Start, NULL)>>
      /\ current_tn = 1 /\ error_count = 0 /\ pc = "loop"
  BY DEF Init
<1>2. input \in Seq(Terms \ {EOF}) /\ Len(input) \in Nat
  BY <1>1, InputsAssumption, LenProperties
<1>3. InputInv
  BY <1>1, <1>2 DEF InputInv
<1>4. StackInv
  <2>1. Start \in Symbols /\ EOF \in Symbols /\ Start # EOF
    BY GrammarAssumption DEF Symbols
  <2>2. stack \in Seq(Symbols) /\ Len(stack) = 2 /\ stack[1] = Start /\ stack[2] = EOF
    BY <1>1, <2>1
  <2>3. stack # << >>
    BY <2>2
  <2> QED BY <2>1, <2>2, <2>3 DEF StackInv
<1> DEFINE root == Node(Start, NULL)
<1>5. root \in Tree /\ root.sid = Start /\ root.parent = 0 /\ root.first_child = 0 /\ root.next_sibling = 0
  BY GrammarAssumption DEF Node, Tree, NULL, NoRule
<1> HIDE DEF root
<1>6. tree \in Seq(Tree) /\ Len(tree) = 1 /\ tree[1] = root
  <2>1. tree = <<root>>
    BY <1>1 DEF root
  <2> QED BY <2>1, <1>5
<1>7. TreeInv
  BY <1>5, <1>6 DEF TreeInv, ParentsFirst
<1>8. CursorInv
  <2>1. PICK up : up = [m \in 0..1 |-> 0]
    OBVIOUS
  <2>2. PICK from : from = [m \in 0..1 |-> IF m = 0 THEN << >> ELSE <<1>>]
    OBVIOUS
  <2>3. PICK s : s = <<1>>
    OBVIOUS
  <2>4. up[0] = 0 /\ up[1] = 0 /\ up = [m \in 0..1 |-> up[m]] /\ \A m \in 0..1 : m = 0 \/ m = 1
    BY <2>1
  <2>5. IsUp(tree, up)
    BY <2>4, <1>5, <1>6 DEF IsUp, UpAt, NULL
  <2>6. IsFrom(tree, up, from)
    <3>1. from[0] = << >> /\ from[1] = <<1>> /\ from = [m \in 0..1 |-> from[m]]
      BY <2>2
    <3>2. <<1>> \o << >> = <<1>>
      OBVIOUS
    <3>3. \A m \in 0..1 : from[m] = FromAt(up, from, m)
      BY <3>1, <3>2, <2>4 DEF FromAt, NULL
    <3> QED BY <3>1, <3>3, <1>6 DEF IsFrom
  <2>7. Chained(tree, up, s) /\ current_tn = Follower(s, 1) /\ Len(s) = 1 /\ s[1] = 1
    <3>1. s \in Seq(1..1) /\ Len(s) = 1 /\ s[1] = 1
      BY <2>3
    <3> QED BY <3>1, <2>4, <1>1, <1>6 DEF Chained, Follower, NULL
  <2>8. InStep(tree, up, s)
    <3>1. Len(stack) = 2 /\ stack[1] = Start
      BY <1>1
    <3> QED BY <3>1, <2>7, <1>5, <1>6 DEF InStep, NULL
  <2> QED BY <2>5, <2>6, <2>7, <2>8 DEF CursorInv
<1> QED BY <1>3, <1>4, <1>7, <1>8 DEF IInv

LEMMA NextInv == IInv /\ [Next]_vars => IInv'
<1> SUFFICES ASSUME IInv, [Next]_vars PROVE IInv'
  OBVIOUS
<1>1. CASE Match
  BY <1>1, MatchStep
<1>2. CASE Mismatch
  BY <1>2, DropStep
<1>3. CASE Expand
  BY <1>3, ExpandStep
<1>4. CASE Unexpected
  BY <1>4, DropStep
<1>5. CASE UNCHANGED vars
  BY <1>5 DEF vars, IInv, StackInv, InputInv, TreeInv, CursorInv, InStep
<1>6. CASE Overflow
  <2>1. pc' = "exit" /\ UNCHANGED <<input, pos, stack, tree, current_tn, error_count>>
    BY <1>6 DEF Overflow
  <2> QED BY <2>1 DEF IInv, StackInv, InputInv, TreeInv, CursorInv, InStep
<1> QED BY <1>1, <1>2, <1>3, <1>4, <1>5, <1>6 DEF Next, Done

\* The invariant holds whatever the parser is given to read.
THEOREM InvariantHolds == Spec => []IInv
<1>1. Init => IInv
  BY InitInv
<1>2. IInv /\ [Next]_vars => IInv'
  BY NextInv
<1> QED BY <1>1, <1>2, PTL DEF Spec

\* Every variable of the parser keeps its type: EOF stays below the other
\* symbols of the stack, no link leaves the tree, and neither does the cursor.
THEOREM TypeCorrect == Spec => []TypeOK
<1>1. IInv => TypeOK
  <2> SUFFICES ASSUME IInv PROVE TypeOK
    OBVIOUS
  <2>1. tree \in Seq(Tree) /\ Len(tree) \in Nat /\ DOMAIN tree = 1..Len(tree)
    BY LenProperties DEF IInv, TreeInv
  <2>2. ASSUME NEW n \in DOMAIN tree
        PROVE  {tree[n].parent, tree[n].first_child, tree[n].next_sibling} \subseteq 0..Len(tree)
    <3>1. tree[n].parent \in 0..(n - 1) /\ n \in 1..Len(tree)
      BY <2>1 DEF IInv, TreeInv, ParentsFirst
    <3>2. tree[n].first_child \in 0..Len(tree) /\ tree[n].next_sibling \in 0..Len(tree)
      BY <3>1 DEF IInv, TreeInv
    <3> QED BY <3>1, <3>2, <2>1
  <2>3. current_tn \in 0..Len(tree)
    <3>1. PICK up : \E from : \E s : InStep(tree, up, s) /\ current_tn = Follower(s, 1)
      BY DEF IInv, CursorInv
    <3>2. PICK s : InStep(tree, up, s) /\ current_tn = Follower(s, 1)
      BY <3>1
    <3>3. s \in Seq(1..Len(tree)) /\ Len(s) \in Nat
      BY <3>2, LenProperties DEF InStep, Chained
    <3>4. \A i \in 1..Len(s) : s[i] \in 1..Len(tree)
      BY <3>3, ElementOfSeq
    <3> QED BY <3>2, <3>3, <3>4, <2>1 DEF Follower, NULL
  <2> QED BY <2>1, <2>2, <2>3 DEF TypeOK, IInv, StackInv, InputInv, Symbols
<1> QED BY <1>1, InvariantHolds, PTL

\* The nodes from the cursor on carry the symbols of the stack, one by one and
\* down to EOF, on every input and after any number of errors.
THEOREM InStepAlways == Spec => []Synchrony
<1>1. IInv => Synchrony
  <2> SUFFICES ASSUME IInv PROVE Synchrony
    OBVIOUS
  <2>1. PICK up : \E from : \E s : /\ IsUp(tree, up) /\ IsFrom(tree, up, from) /\ InStep(tree, up, s)
                                   /\ current_tn = Follower(s, 1)
    BY DEF IInv, CursorInv
  <2>2. PICK from : \E s : /\ IsUp(tree, up) /\ IsFrom(tree, up, from) /\ InStep(tree, up, s)
                           /\ current_tn = Follower(s, 1)
    BY <2>1
  <2>3. PICK s : /\ IsUp(tree, up) /\ IsFrom(tree, up, from) /\ InStep(tree, up, s)
                 /\ current_tn = Follower(s, 1)
    BY <2>2
  <2>4. ParentsFirst(tree) /\ Chained(tree, up, s)
    BY <2>3 DEF IInv, TreeInv, InStep
  <2>5. Pending = s
    BY <2>3, <2>4, PendingIs
  <2>6. DOMAIN s = 1..Len(s)
    BY <2>4, LenProperties DEF Chained
  <2>7. Len(s) = Len(stack) - 1 /\ \A i \in DOMAIN s : tree[s[i]].sid = stack[i]
    BY <2>3, <2>6 DEF InStep
  <2> QED BY <2>5, <2>7 DEF Synchrony
<1> QED BY <1>1, InvariantHolds, PTL

-----------------------------------------------------------------------------
(* The refinement.  What is read and what is on the stack, as functions of *)
(* the tokens, the cursor and the stack.                                   *)

FormOf(inp, p, st) == SubSeq(inp, 1, p - 1) \o SubSeq(st, 1, Len(st) - 1)

\* What is read comes first, and then the stack without EOF.
Shape(f, inp, p, st) ==
  /\ f \in Seq(Symbols) /\ Len(f) = p - 1 + (Len(st) - 1)
  /\ \A i \in 1..(p - 1) : f[i] = inp[i]
  /\ \A i \in 1..(Len(st) - 1) : f[p - 1 + i] = st[i]

LEMMA FormShape ==
  ASSUME NEW inp \in Seq(Symbols), NEW p \in Nat \ {0}, p <= Len(inp) + 1,
         NEW st \in Seq(Symbols), Len(st) >= 1
  PROVE  Shape(FormOf(inp, p, st), inp, p, st) /\ SubSeq(inp, 1, p - 1) \in Seq(Symbols)
<1> DEFINE a == SubSeq(inp, 1, p - 1)
           b == SubSeq(st, 1, Len(st) - 1)
           f == FormOf(inp, p, st)
<1>1. Len(inp) \in Nat /\ Len(st) \in Nat
  BY LenProperties
<1>2. a \in Seq(Symbols) /\ Len(a) = p - 1 /\ \A i \in 1..(p - 1) : a[i] = inp[i]
  <2>1. \A i \in 1..(p - 1) : i \in 1..Len(inp)
    BY <1>1
  <2>2. \A i \in 1..(p - 1) : inp[i] \in Symbols
    BY <2>1, ElementOfSeq
  <2>3. /\ a \in Seq(Symbols) /\ Len(a) = IF 1 <= p - 1 THEN p - 1 - 1 + 1 ELSE 0
        /\ \A i \in 1..(p - 1 - 1 + 1) : a[i] = inp[1 + i - 1]
    BY <2>2, SubSeqProperties
  <2> HIDE DEF a
  <2>4. ASSUME NEW i \in 1..(p - 1) PROVE a[i] = inp[i]
    <3>1. i \in 1..(p - 1 - 1 + 1) /\ 1 + i - 1 = i
      OBVIOUS
    <3> QED BY <3>1, <2>3
  <2> QED BY <2>3, <2>4
<1>3. b \in Seq(Symbols) /\ Len(b) = Len(st) - 1 /\ \A i \in 1..(Len(st) - 1) : b[i] = st[i]
  <2> DEFINE q == Len(st) - 1
  <2>1. q \in Nat /\ \A i \in 1..q : i \in 1..Len(st)
    BY <1>1
  <2>2. \A i \in 1..q : st[i] \in Symbols
    BY <2>1, ElementOfSeq
  <2> HIDE DEF q
  <2>3. /\ SubSeq(st, 1, q) \in Seq(Symbols) /\ Len(SubSeq(st, 1, q)) = IF 1 <= q THEN q - 1 + 1 ELSE 0
        /\ \A i \in 1..(q - 1 + 1) : SubSeq(st, 1, q)[i] = st[1 + i - 1]
    BY <2>1, <2>2, SubSeqProperties
  <2>4. b = SubSeq(st, 1, q)
    BY DEF q
  <2> HIDE DEF b
  <2>5. ASSUME NEW i \in 1..q PROVE b[i] = st[i]
    <3>1. i \in 1..(q - 1 + 1) /\ 1 + i - 1 = i
      BY <2>1
    <3> QED BY <3>1, <2>3, <2>4
  <2>6. b \in Seq(Symbols) /\ Len(b) = q
    BY <2>1, <2>3, <2>4
  <2> QED BY <2>5, <2>6 DEF q
<1>4. f = a \o b
  BY DEF FormOf
<1> HIDE DEF a, b, f
<1>5. f \in Seq(Symbols) /\ PartsOf(f, a, b)
  BY <1>2, <1>3, <1>4, Parts
<1>6. ASSUME NEW i \in 1..(Len(st) - 1) PROVE f[p - 1 + i] = st[i]
  <2>1. i \in 1..Len(b)
    BY <1>3
  <2>2. f[Len(a) + i] = b[i]
    BY <2>1, <1>5 DEF PartsOf
  <2> QED BY <2>2, <1>2, <1>3
<1>7. ASSUME NEW i \in 1..(p - 1) PROVE f[i] = inp[i]
  BY <1>2, <1>5 DEF PartsOf
<1>8. Len(f) = p - 1 + (Len(st) - 1)
  BY <1>2, <1>3, <1>5 DEF PartsOf
<1> QED BY <1>2, <1>5, <1>6, <1>7, <1>8 DEF Shape, f, a

\* The shape leaves no choice.
LEMMA ShapeUnique ==
  ASSUME NEW f, NEW g, NEW inp, NEW p \in Nat \ {0}, NEW st, Len(st) \in Nat, Len(st) >= 1,
         Shape(f, inp, p, st), Shape(g, inp, p, st)
  PROVE  f = g
<1>1. f \in Seq(Symbols) /\ g \in Seq(Symbols) /\ Len(f) = Len(g) /\ Len(f) = p - 1 + (Len(st) - 1)
  BY DEF Shape
<1>2. ASSUME NEW i \in 1..Len(f) PROVE f[i] = g[i]
  <2>1. CASE i \in 1..(p - 1)
    BY <2>1 DEF Shape
  <2>2. CASE i \notin 1..(p - 1)
    <3>1. PICK j \in 1..(Len(st) - 1) : p - 1 + j = i
      <4>1. i - (p - 1) \in 1..(Len(st) - 1) /\ p - 1 + (i - (p - 1)) = i
        BY <1>1, <2>2
      <4> QED BY <4>1
    <3>2. f[p - 1 + j] = st[j] /\ g[p - 1 + j] = st[j]
      BY DEF Shape
    <3> QED BY <3>1, <3>2
  <2> QED BY <2>1, <2>2
<1> QED BY <1>1, <1>2, SeqEqual

\* The token goes from the stack to what is read.
LEMMA MatchForm ==
  ASSUME NEW inp \in Seq(Symbols), NEW p \in Nat \ {0}, p <= Len(inp),
         NEW st \in Seq(Symbols), Len(st) >= 2, st[1] = inp[p]
  PROVE  FormOf(inp, p + 1, Tail(st)) = FormOf(inp, p, st)
<1> DEFINE T == Tail(st)
           g == FormOf(inp, p + 1, T)
<1>1. Len(inp) \in Nat /\ Len(st) \in Nat
  BY LenProperties
<1>2. T \in Seq(Symbols) /\ Len(T) = Len(st) - 1 /\ \A i \in 1..(Len(st) - 1) : T[i] = st[i + 1]
  BY <1>1, TailFacts
<1> HIDE DEF T
<1>3. p + 1 \in Nat \ {0} /\ p + 1 <= Len(inp) + 1 /\ Len(T) >= 1 /\ p <= Len(inp) + 1 /\ Len(st) >= 1
  BY <1>1, <1>2
<1>4. Shape(g, inp, p + 1, T)
  BY <1>2, <1>3, FormShape
<1> HIDE DEF g
<1>5. /\ g \in Seq(Symbols) /\ Len(g) = p + (Len(T) - 1)
      /\ \A i \in 1..p : g[i] = inp[i]
      /\ \A i \in 1..(Len(T) - 1) : g[p + i] = T[i]
  <2>1. p + 1 - 1 = p
    OBVIOUS
  <2> QED BY <2>1, <1>4 DEF Shape
<1>6. ASSUME NEW i \in 1..(Len(st) - 1) PROVE g[p - 1 + i] = st[i]
  <2>1. CASE i = 1
    <3>1. p \in 1..p /\ p - 1 + i = p
      BY <2>1
    <3> QED BY <2>1, <3>1, <1>5
  <2>2. CASE i # 1
    <3>1. PICK j \in 1..(Len(T) - 1) : j + 1 = i
      <4>1. i - 1 \in 1..(Len(T) - 1) /\ i - 1 + 1 = i
        BY <1>1, <1>2, <2>2
      <4> QED BY <4>1
    <3>2. j \in 1..(Len(st) - 1) /\ p - 1 + i = p + j
      BY <1>1, <1>2, <3>1
    <3>3. g[p + j] = T[j] /\ T[j] = st[j + 1]
      BY <3>2, <1>2, <1>5
    <3> QED BY <3>1, <3>2, <3>3
  <2> QED BY <2>1, <2>2
<1>7. Shape(g, inp, p, st)
  <2>1. Len(g) = p - 1 + (Len(st) - 1)
    BY <1>1, <1>2, <1>5
  <2>2. \A i \in 1..(p - 1) : i \in 1..p
    OBVIOUS
  <2>3. \A i \in 1..(p - 1) : g[i] = inp[i]
    BY <2>2, <1>5
  <2> QED BY <2>1, <2>3, <1>5, <1>6 DEF Shape
<1>8. Shape(FormOf(inp, p, st), inp, p, st)
  BY <1>3, FormShape
<1>9. g = FormOf(inp, p, st)
  BY <1>1, <1>3, <1>7, <1>8, ShapeUnique
<1> QED BY <1>9 DEF g, T

\* The right-hand side comes in the place of the symbol on top of the stack.
Replaced(f, p, rhs) == SubSeq(f, 1, p - 1) \o rhs \o SubSeq(f, p + 1, Len(f))

LEMMA DeriveForm ==
  ASSUME NEW inp \in Seq(Symbols), NEW p \in Nat \ {0}, p <= Len(inp) + 1,
         NEW st \in Seq(Symbols), Len(st) >= 2, NEW rhs \in Seq(Symbols),
         NEW f, f = FormOf(inp, p, st), NEW st2, st2 = push_ll(rhs, Tail(st))
  PROVE  FormOf(inp, p, st2) = Replaced(f, p, rhs)
<1> DEFINE T == Tail(st)
           X == SubSeq(f, 1, p - 1)
           Y == SubSeq(f, p + 1, Len(f))
           Z == X \o rhs
           h == Z \o Y
<1>1. Len(inp) \in Nat /\ Len(st) \in Nat /\ Len(rhs) \in Nat /\ Len(st) >= 1
  BY LenProperties
<1>2. T \in Seq(Symbols) /\ Len(T) = Len(st) - 1 /\ \A i \in 1..(Len(st) - 1) : T[i] = st[i + 1]
  BY <1>1, TailFacts
<1> HIDE DEF T
<1>3. st2 \in Seq(Symbols) /\ PartsOf(st2, rhs, T)
  <2>1. st2 = rhs \o T
    BY DEF T, push_ll
  <2> QED BY <2>1, <1>2, Parts
<1>4. Len(st2) = Len(rhs) + (Len(st) - 1) /\ Len(st2) \in Nat /\ Len(st2) >= 1
  BY <1>1, <1>2, <1>3 DEF PartsOf
<1>5. Shape(f, inp, p, st)
  BY <1>1, FormShape
<1>6. /\ f \in Seq(Symbols) /\ Len(f) = p - 1 + (Len(st) - 1) /\ Len(f) \in Nat
      /\ \A i \in 1..Len(f) : f[i] \in Symbols
  <2>1. f \in Seq(Symbols) /\ Len(f) = p - 1 + (Len(st) - 1)
    BY <1>5 DEF Shape
  <2> QED BY <2>1, LenProperties, ElementOfSeq
<1>7. X \in Seq(Symbols) /\ Len(X) = p - 1 /\ \A i \in 1..(p - 1) : X[i] = inp[i]
  <2>1. \A i \in 1..(p - 1) : i \in 1..Len(f)
    BY <1>1, <1>6
  <2>2. \A i \in 1..(p - 1) : f[i] \in Symbols /\ f[i] = inp[i]
    BY <2>1, <1>5, <1>6 DEF Shape
  <2>3. /\ X \in Seq(Symbols) /\ Len(X) = IF 1 <= p - 1 THEN p - 1 - 1 + 1 ELSE 0
        /\ \A i \in 1..(p - 1 - 1 + 1) : X[i] = f[1 + i - 1]
    BY <2>2, SubSeqProperties
  <2> HIDE DEF X
  <2>4. ASSUME NEW i \in 1..(p - 1) PROVE X[i] = inp[i]
    <3>1. i \in 1..(p - 1 - 1 + 1) /\ 1 + i - 1 = i
      OBVIOUS
    <3> QED BY <3>1, <2>2, <2>3
  <2> QED BY <2>3, <2>4
<1>8. Y \in Seq(Symbols) /\ Len(Y) = Len(T) - 1 /\ \A i \in 1..(Len(T) - 1) : Y[i] = T[i]
  <2> DEFINE l == Len(f)
  <2>1. l \in Nat /\ l - (p + 1) + 1 = Len(T) - 1 /\ Len(T) - 1 \in Nat
    BY <1>1, <1>2, <1>6
  <2>2. \A i \in (p + 1)..l : f[i] \in Symbols
    BY <1>6
  <2> HIDE DEF l
  <2>3. /\ SubSeq(f, p + 1, l) \in Seq(Symbols)
        /\ Len(SubSeq(f, p + 1, l)) = IF p + 1 <= l THEN l - (p + 1) + 1 ELSE 0
        /\ \A i \in 1..(l - (p + 1) + 1) : SubSeq(f, p + 1, l)[i] = f[p + 1 + i - 1]
    BY <2>1, <2>2, SubSeqProperties
  <2>4. Y = SubSeq(f, p + 1, l)
    BY DEF l
  <2> HIDE DEF Y
  <2>5. Y \in Seq(Symbols) /\ Len(Y) = Len(T) - 1
    <3>1. Y \in Seq(Symbols) /\ Len(Y) = IF p + 1 <= l THEN l - (p + 1) + 1 ELSE 0
      BY <2>3, <2>4
    <3>2. PICK w \in Nat : w = Len(T) - 1
      BY <2>1
    <3>3. l - (p + 1) + 1 = w /\ l \in Nat
      BY <2>1, <3>2
    <3>4. (IF p + 1 <= l THEN l - (p + 1) + 1 ELSE 0) = w
      BY <3>3
    <3> QED BY <3>1, <3>2, <3>4
  <2>6. ASSUME NEW i \in 1..(Len(T) - 1) PROVE Y[i] = T[i]
    <3>1. Y[i] = f[p + 1 + i - 1]
      BY <2>1, <2>3, <2>4
    <3>2. PICK j \in 1..(Len(st) - 1) : j = i + 1
      BY <1>1, <1>2
    <3>3. p + 1 + i - 1 = p - 1 + j
      BY <3>2
    <3>4. f[p - 1 + j] = st[j]
      BY <1>5 DEF Shape
    <3>5. T[i] = st[i + 1]
      <4>1. i \in 1..(Len(st) - 1)
        BY <1>1, <1>2
      <4> QED BY <4>1, <1>2
    <3> QED BY <3>1, <3>2, <3>3, <3>4, <3>5
  <2> QED BY <2>5, <2>6
<1> HIDE DEF X, Y
<1>9. Z \in Seq(Symbols) /\ PartsOf(Z, X, rhs)
  BY <1>7, Parts
<1> HIDE DEF Z
<1>10. h \in Seq(Symbols) /\ PartsOf(h, Z, Y)
  BY <1>8, <1>9, Parts
<1> HIDE DEF h
<1>11. Len(Z) = p - 1 + Len(rhs) /\ Len(h) = p - 1 + Len(rhs) + (Len(T) - 1)
  BY <1>7, <1>8, <1>9, <1>10 DEF PartsOf
<1>12. ASSUME NEW i \in 1..(p - 1) PROVE h[i] = inp[i]
  <2>1. i \in 1..Len(X) /\ i \in 1..Len(Z)
    BY <1>7, <1>9 DEF PartsOf
  <2>2. h[i] = Z[i] /\ Z[i] = X[i]
    BY <2>1, <1>9, <1>10 DEF PartsOf
  <2> QED BY <2>2, <1>7
<1>13. ASSUME NEW i \in 1..(Len(st2) - 1) PROVE h[p - 1 + i] = st2[i]
  <2>1. CASE i \in 1..Len(rhs)
    <3>1. Len(X) + i \in 1..Len(Z) /\ Z[Len(X) + i] = rhs[i]
      BY <2>1, <1>9 DEF PartsOf
    <3>2. h[Len(X) + i] = Z[Len(X) + i]
      BY <3>1, <1>10 DEF PartsOf
    <3>3. st2[i] = rhs[i]
      BY <2>1, <1>3 DEF PartsOf
    <3> QED BY <3>1, <3>2, <3>3, <1>7
  <2>2. CASE i \notin 1..Len(rhs)
    <3>1. PICK j \in 1..(Len(T) - 1) : Len(rhs) + j = i
      <4>1. i - Len(rhs) \in 1..(Len(T) - 1) /\ Len(rhs) + (i - Len(rhs)) = i
        BY <1>1, <1>2, <1>4, <2>2
      <4> QED BY <4>1
    <3>2. j \in 1..Len(T) /\ j \in 1..Len(Y)
      BY <1>1, <1>2, <1>8
    <3>3. st2[Len(rhs) + j] = T[j]
      BY <3>2, <1>3 DEF PartsOf
    <3>4. h[Len(Z) + j] = Y[j]
      BY <3>2, <1>10 DEF PartsOf
    <3>5. Len(Z) + j = p - 1 + i
      <4> DEFINE k == Len(rhs)
                 l == Len(Z)
      <4>1. l = p - 1 + k /\ k + j = i /\ k \in Nat /\ j \in Nat
        BY <3>1, <1>1, <1>2, <1>11
      <4> HIDE DEF k, l
      <4>2. l + j = p - 1 + i
        BY <4>1
      <4> QED BY <4>2 DEF l
    <3> QED BY <3>1, <3>3, <3>4, <3>5, <1>8
  <2> QED BY <2>1, <2>2
<1>14. Len(h) = p - 1 + (Len(st2) - 1)
  <2> DEFINE a == Len(rhs)
             b == Len(st)
             c == Len(T)
             d == Len(st2)
             e == Len(h)
  <2>1. a \in Nat /\ b \in Nat /\ c = b - 1 /\ d = a + (b - 1) /\ e = p - 1 + a + (c - 1)
    BY <1>1, <1>2, <1>4, <1>11
  <2> HIDE DEF a, b, c, d, e
  <2>2. e = p - 1 + (d - 1)
    BY <2>1
  <2> QED BY <2>2 DEF d, e
<1>15. Shape(h, inp, p, st2)
  BY <1>10, <1>12, <1>13, <1>14 DEF Shape
<1>16. Shape(FormOf(inp, p, st2), inp, p, st2)
  BY <1>3, <1>4, FormShape
<1>17. FormOf(inp, p, st2) = h
  BY <1>4, <1>15, <1>16, ShapeUnique
<1> QED BY <1>17 DEF h, Z, X, Y, Replaced

\* What the refinement needs to know of the state as long as there is no error.
LEMMA FormNow ==
  ASSUME IInv
  PROVE  /\ input \in Seq(Symbols) /\ Len(input) \in Nat /\ pos \in Nat \ {0} /\ stack \in Seq(Symbols) /\ Len(stack) \in Nat
         /\ \A i \in 1..Len(input) : input[i] \in Terms
         /\ error_count = 0 => Form = FormOf(input, pos, stack) /\ pos <= Len(input) + 1
         /\ error_count # 0 => Form = << >>
         /\ NoError \in BOOLEAN /\ (NoError <=> error_count = 0)
<1>1. input \in Seq(Terms \ {EOF})
  BY InputsAssumption DEF IInv, InputInv
<1>2. Terms \ {EOF} \subseteq Symbols
  BY DEF Symbols
<1>3. input \in Seq(Symbols)
  BY <1>1, <1>2, SeqMonotonic
<1>4. \A i \in 1..Len(input) : input[i] \in Terms
  BY <1>1, ElementOfSeq
<1> QED BY <1>3, <1>4, LenProperties DEF IInv, InputInv, StackInv, Form, FormOf, NoError

LEMMA MatchRefines ==
  ASSUME IInv, Match
  PROVE  UNCHANGED <<Form, NoError>>
<1>1. /\ pc = "loop" /\ Top = tid /\ stack' = Tail(stack) /\ pos' = pos + 1
      /\ UNCHANGED <<input, error_count>>
  BY DEF Match, Loop
<1>2. NoError' = NoError
  BY <1>1 DEF NoError
<1>3. CASE error_count = 0
  <2>1. pos <= Len(input) /\ stack[1] = input[pos] /\ Len(stack) >= 2
    BY <1>1, TokenThere DEF Top, IInv, StackInv
  <2>2. FormOf(input, pos + 1, Tail(stack)) = FormOf(input, pos, stack)
    BY <2>1, FormNow, MatchForm
  <2>3. Form' = FormOf(input', pos', stack')
    BY <1>1, <1>3 DEF Form, NoError, FormOf
  <2> QED BY <1>1, <1>2, <1>3, <2>2, <2>3, FormNow
<1>4. CASE error_count # 0
  BY <1>1, <1>2, <1>4 DEF Form, NoError
<1> QED BY <1>3, <1>4

LEMMA ExpandRefines ==
  ASSUME IInv, Expand
  PROVE  [Abstract!Next]_<<Form, NoError>>
<1> DEFINE rhs == Rules[Rule].rhs
<1>1. /\ pc = "loop" /\ Top \in Nonterms /\ Rule # NoRule
      /\ stack' = rhs \o Tail(stack) /\ UNCHANGED <<input, pos, error_count>>
  BY DEF Expand, Loop, push_ll
<1>2. Rule \in DOMAIN Rules /\ Rules[Rule].lhs = Top /\ rhs \in Seq(Symbols)
  BY <1>1, RuleFits
<1>3. NoError' = NoError
  BY <1>1 DEF NoError
<1>4. CASE error_count # 0
  BY <1>1, <1>3, <1>4 DEF Form, NoError
<1>5. CASE error_count = 0
  <2>1. Form = FormOf(input, pos, stack) /\ pos <= Len(input) + 1 /\ Len(stack) >= 2
    BY <1>1, <1>5, FormNow DEF IInv, StackInv
  <2>2. PICK f : f = Form
    OBVIOUS
  <2>3. Form' = FormOf(input, pos, stack')
    BY <1>1, <1>5 DEF Form, NoError, FormOf
  <2>4. Form' = Replaced(f, pos, rhs)
    <3>1. /\ input \in Seq(Symbols) /\ pos \in Nat \ {0} /\ stack \in Seq(Symbols)
          /\ f = FormOf(input, pos, stack)
      BY <2>1, <2>2, FormNow
    <3>2. rhs \in Seq(Symbols) /\ pos <= Len(input) + 1 /\ Len(stack) >= 2
      BY <1>2, <2>1
    <3> HIDE DEF rhs
    <3>3. PICK q : q = stack'
      OBVIOUS
    <3>4. q = push_ll(rhs, Tail(stack))
      BY <1>1, <3>3 DEF push_ll
    <3>5. FormOf(input, pos, q) = Replaced(f, pos, rhs)
      BY <3>1, <3>2, <3>4, DeriveForm
    <3> QED BY <2>3, <3>3, <3>5
  <2>5. Shape(f, input, pos, stack)
    BY <2>1, <2>2, FormNow, FormShape
  <2>6. /\ pos \in 1..Len(f) /\ f[pos] = stack[1] /\ DOMAIN f = 1..Len(f)
    <3>1. Len(f) = pos - 1 + (Len(stack) - 1) /\ f \in Seq(Symbols)
      BY <2>5 DEF Shape
    <3>2. 1 \in 1..(Len(stack) - 1) /\ pos - 1 + 1 = pos /\ pos \in 1..Len(f)
      BY <2>1, <3>1, FormNow
    <3>3. f[pos - 1 + 1] = stack[1]
      BY <2>5, <3>2 DEF Shape
    <3> QED BY <3>1, <3>2, <3>3, LenProperties
  <2>7. \A j \in 1..(pos - 1) : f[j] \in Terms
    <3>1. \A j \in 1..(pos - 1) : j \in 1..Len(input) /\ f[j] = input[j]
      BY <2>1, <2>5, FormNow DEF Shape
    <3> QED BY <3>1, FormNow
  <2>8. Abstract!Derive(pos, Rule)
    <3>1. NoError /\ NoError' = TRUE
      BY <1>3, <1>5 DEF NoError
    <3>2. Form[pos] = Rules[Rule].lhs
      BY <2>2, <2>6, <1>2 DEF Top
    <3>3. \A j \in 1..(pos - 1) : Form[j] \in Terms
      BY <2>2, <2>7
    <3>4. Form' = SubSeq(Form, 1, pos - 1) \o Rules[Rule].rhs \o SubSeq(Form, pos + 1, Len(Form))
      BY <2>2, <2>4, Zenon DEF Replaced
    <3> QED BY <3>1, <3>2, <3>3, <3>4, Zenon DEF Abstract!Derive
  <2>9. pos \in DOMAIN Form
    BY <2>2, <2>6
  <2> QED BY <2>8, <2>9, <1>2 DEF Abstract!Next
<1> QED BY <1>4, <1>5

LEMMA StepRefines == IInv /\ [Next]_vars => [Abstract!Next]_<<Form, NoError>>
<1> SUFFICES ASSUME IInv, [Next]_vars PROVE [Abstract!Next]_<<Form, NoError>>
  OBVIOUS
<1>1. CASE Match
  BY <1>1, MatchRefines
<1>2. CASE Mismatch \/ Unexpected
  <2>1. error_count' = error_count + 1 /\ error_count \in Nat
    BY <1>2 DEF Mismatch, Unexpected, IInv, InputInv
  <2>2. NoError' = FALSE
    BY <2>1 DEF NoError
  <2> QED BY <2>2 DEF Abstract!Next, Abstract!Fail
<1>3. CASE Expand
  BY <1>3, ExpandRefines
<1>4. CASE Overflow \/ UNCHANGED vars
  <2>1. UNCHANGED <<input, pos, stack, error_count>>
    BY <1>4 DEF Overflow, vars
  <2> QED BY <2>1 DEF Form, NoError
<1> QED BY <1>1, <1>2, <1>3, <1>4 DEF Next, Done

\* As long as there is no error the parser performs a leftmost derivation: what
\* is read and what is still on the stack is the start symbol, or comes from it
\* by rules applied to the first nonterminal each time.
THEOREM DerivationImplemented == Spec => ImplementsDerivation
<1>1. Init => Abstract!Init
  <2> SUFFICES ASSUME Init PROVE Abstract!Init
    OBVIOUS
  <2>1. pos = 1 /\ stack = <<Start, EOF>> /\ error_count = 0
    BY DEF Init
  <2>2. IInv
    BY InitInv
  <2>3. Form = FormOf(input, 1, stack) /\ 1 <= Len(input) + 1 /\ input \in Seq(Symbols) /\ 1 \in Nat \ {0}
        /\ stack \in Seq(Symbols)
    BY <2>1, <2>2, FormNow
  <2>4. Len(stack) = 2 /\ stack[1] = Start
    BY <2>1
  <2>5. Shape(Form, input, 1, stack)
    <3>1. Len(stack) >= 1
      BY <2>4
    <3>2. Shape(FormOf(input, 1, stack), input, 1, stack)
      BY <2>3, <3>1, FormShape
    <3> QED BY <2>3, <3>2
  <2>6. Form \in Seq(Symbols) /\ Len(Form) = 1 /\ Form[1] = Start
    <3>1. Form \in Seq(Symbols) /\ Len(Form) = 1 - 1 + (2 - 1)
      BY <2>4, <2>5 DEF Shape
    <3>2. 1 \in 1..(2 - 1)
      OBVIOUS
    <3>3. Form[1 - 1 + 1] = Start
      BY <2>4, <2>5, <3>2 DEF Shape
    <3> QED BY <3>1, <3>3
  <2>7. Form = <<Start>>
    <3>1. Start \in Symbols
      BY GrammarAssumption DEF Symbols
    <3>2. <<Start>> \in Seq(Symbols) /\ Len(<<Start>>) = 1 /\ <<Start>>[1] = Start
      BY <3>1
    <3>3. \A i \in 1..Len(Form) : Form[i] = <<Start>>[i]
      BY <2>6, <3>2
    <3> QED BY <2>6, <3>2, <3>3, SeqEqual
  <2> QED BY <2>1, <2>7 DEF Abstract!Init, NoError
<1>2. IInv /\ [Next]_vars => [Abstract!Next]_<<Form, NoError>>
  BY StepRefines
<1> QED BY <1>1, <1>2, InvariantHolds, PTL DEF Spec, ImplementsDerivation, Abstract!Spec
=============================================================================
