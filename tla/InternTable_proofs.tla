-------------------------- MODULE InternTable_proofs --------------------------
(***************************************************************************)
(* Proofs that the hash map is a finite map and that the intern table      *)
(* keeps one string per name, for any texts, hash function, initial        *)
(* capacity and number of identifiers.                                     *)
(*                                                                         *)
(* The lemmas about arrays of chains are about constants: h is a heap, p   *)
(* an array of c chains.                                                   *)
(***************************************************************************)
EXTENDS InternTable, SequenceTheorems, TLAPS

NodeIn(h)     == [key : DOMAIN h, value : Values]
Slot(h, c, k) == Hash[h[k]] % c

\* Every key is in the chain it hashes to, and no text is in the array twice.
ArrayOK(h, p, c) ==
  /\ p \in [0..(c - 1) -> Seq(NodeIn(h))]
  /\ \A j \in 0..(c - 1) : \A m \in DOMAIN p[j] :
       /\ Slot(h, c, p[j][m].key) = j
       /\ \A l \in DOMAIN p[j] : h[p[j][l].key] = h[p[j][m].key] => l = m

\* Position m of the chain of t holds t.
Holds(h, p, c, t, m) ==
  m \in DOMAIN p[Hash[t] % c] /\ h[p[Hash[t] % c][m].key] = t

\* What an array gives for t; the array with a node at the head of chain b.
Look(h, p, c, t) ==
  IF \E m \in DOMAIN p[Hash[t] % c] : Holds(h, p, c, t, m)
    THEN p[Hash[t] % c][CHOOSE m \in DOMAIN p[Hash[t] % c] : Holds(h, p, c, t, m)].value
    ELSE NoValue
Push(p, b, node) == [p EXCEPT ![b] = <<node>> \o @]

\* The array with position m of chain b replaced, and without chain b.
Put(p, b, m, node) == [p EXCEPT ![b] = [p[b] EXCEPT ![m] = node]]
Drop(p, b)         == [p EXCEPT ![b] = << >>]

-----------------------------------------------------------------------------
(* Lemmas about chains and arrays. *)

LEMMA HashRange ==
  ASSUME NEW t \in Texts, NEW c \in Nat \ {0}
  PROVE  Hash[t] % c \in 0..(c - 1)
<1>1. Hash[t] \in Nat
  BY TextsAssumption
<1> QED BY <1>1

LEMMA Cons ==
  ASSUME NEW S, NEW x \in S, NEW s \in Seq(S)
  PROVE  /\ <<x>> \o s \in Seq(S)
         /\ 1 \in DOMAIN (<<x>> \o s) /\ (<<x>> \o s)[1] = x
         /\ \A m \in DOMAIN s : m + 1 \in DOMAIN (<<x>> \o s) /\ (<<x>> \o s)[m + 1] = s[m]
         /\ \A m \in DOMAIN (<<x>> \o s) :
              m \in Nat /\ (m # 1 => m - 1 \in DOMAIN s /\ (<<x>> \o s)[m] = s[m - 1])
<1>1. <<x>> \in Seq(S) /\ Len(<<x>>) = 1 /\ <<x>>[1] = x
  OBVIOUS
<1>2. Len(s) \in Nat /\ DOMAIN s = 1..Len(s)
  BY LenProperties
<1>3. /\ <<x>> \o s \in Seq(S)
      /\ Len(<<x>> \o s) = 1 + Len(s)
      /\ \A m \in 1..(1 + Len(s)) :
           (<<x>> \o s)[m] = IF m <= Len(<<x>>) THEN <<x>>[m] ELSE s[m - Len(<<x>>)]
  BY <1>1, <1>2, ConcatProperties
<1>4. DOMAIN (<<x>> \o s) = 1..(Len(s) + 1)
  BY <1>2, <1>3, LenProperties
<1> QED BY <1>1, <1>2, <1>3, <1>4

\* At most one node of an array holds a text, and it is the one found.
LEMMA LookFinds ==
  ASSUME NEW h \in Seq(Texts), NEW c \in Nat \ {0}, NEW p, ArrayOK(h, p, c),
         NEW t \in Texts, NEW m, Holds(h, p, c, t, m)
  PROVE  /\ Look(h, p, c, t) = p[Hash[t] % c][m].value
         /\ Look(h, p, c, t) \in Values
         /\ Look(h, p, c, t) # NoValue
         /\ \A l : Holds(h, p, c, t, l) => l = m
<1> DEFINE b == Hash[t] % c
<1>1. b \in 0..(c - 1)
  BY HashRange
<1>2. p[b] \in Seq(NodeIn(h))
  BY <1>1 DEF ArrayOK
<1>3. m \in DOMAIN p[b] /\ h[p[b][m].key] = t
  BY DEF Holds
<1>4. \A l : Holds(h, p, c, t, l) => l = m
  BY <1>1, <1>3 DEF ArrayOK, Holds
<1>5. (CHOOSE l \in DOMAIN p[b] : Holds(h, p, c, t, l)) = m
  BY <1>3, <1>4
<1>6. p[b][m] \in NodeIn(h)
  BY <1>2, <1>3
<1>7. Look(h, p, c, t) = p[b][m].value
  BY <1>3, <1>5 DEF Look
<1>8. p[b][m].value \in Nat
  BY <1>6 DEF NodeIn, Values
<1> QED BY <1>4, <1>7, <1>8 DEF NoValue, Values

LEMMA LookMisses ==
  ASSUME NEW h, NEW c, NEW p, NEW t, \A m : ~Holds(h, p, c, t, m)
  PROVE  Look(h, p, c, t) = NoValue
BY DEF Look

\* The converse: what is found is in a node.
\* What an array gives depends only on which node holds a text.
LEMMA LookSame ==
  ASSUME NEW h \in Seq(Texts), NEW c \in Nat \ {0}, NEW p, ArrayOK(h, p, c),
         NEW g \in Seq(Texts), NEW q, ArrayOK(g, q, c),
         NEW t \in Texts,
         \A m : Holds(h, p, c, t, m) <=> Holds(g, q, c, t, m),
         \A m \in DOMAIN p[Hash[t] % c] : q[Hash[t] % c][m].value = p[Hash[t] % c][m].value
  PROVE  Look(g, q, c, t) = Look(h, p, c, t)
<1>1. CASE \E m : Holds(h, p, c, t, m)
  <2>1. PICK m : Holds(h, p, c, t, m)
    BY <1>1
  <2>2. Look(h, p, c, t) = p[Hash[t] % c][m].value
    BY <2>1, LookFinds
  <2>3. Look(g, q, c, t) = q[Hash[t] % c][m].value
    BY <2>1, LookFinds
  <2> QED BY <2>1, <2>2, <2>3 DEF Holds
<1>2. CASE \A m : ~Holds(h, p, c, t, m)
  BY <1>2, LookMisses
<1> QED BY <1>1, <1>2

\* A new node at the head of its chain.
LEMMA PushNode ==
  ASSUME NEW h \in Seq(Texts), NEW c \in Nat \ {0}, NEW p, ArrayOK(h, p, c),
         NEW node \in NodeIn(h), \A m : ~Holds(h, p, c, h[node.key], m)
  PROVE  LET b == Slot(h, c, node.key)
             q == Push(p, b, node)
         IN  /\ ArrayOK(h, q, c)
             /\ KeysOf(q) = KeysOf(p) \cup {node.key}
             /\ q[b][1] = node /\ 1 \in DOMAIN q[b]
             /\ \A t \in Texts : Look(h, q, c, t) = IF t = h[node.key] THEN node.value
                                                    ELSE Look(h, p, c, t)
             /\ \A j \in 0..(c - 1) : \A m \in DOMAIN q[j] :
                  q[j][m] = node \/ \E l \in DOMAIN p[j] : q[j][m] = p[j][l]
             /\ \A j \in 0..(c - 1) : \A l \in DOMAIN p[j] : \E m \in DOMAIN q[j] : q[j][m] = p[j][l]
<1> DEFINE b == Slot(h, c, node.key)
           q == Push(p, b, node)
<1>1. node.key \in DOMAIN h /\ h[node.key] \in Texts /\ node.value \in Nat
  <2>1. node.key \in DOMAIN h /\ node.value \in Nat
    BY DEF NodeIn, Values
  <2> QED BY <2>1
<1>2. b \in 0..(c - 1)
  BY <1>1, HashRange DEF Slot
<1>14. Slot(h, c, node.key) = b
  OBVIOUS
<1>3. p \in [0..(c - 1) -> Seq(NodeIn(h))]
  BY DEF ArrayOK
<1>4. DOMAIN q = 0..(c - 1) /\ q[b] = <<node>> \o p[b] /\ \A j \in 0..(c - 1) : j # b => q[j] = p[j]
  BY <1>2, <1>3 DEF Push
<1>5. /\ q[b] \in Seq(NodeIn(h))
      /\ 1 \in DOMAIN q[b] /\ q[b][1] = node
      /\ \A m \in DOMAIN p[b] : m + 1 \in DOMAIN q[b] /\ q[b][m + 1] = p[b][m]
      /\ \A m \in DOMAIN q[b] : m \in Nat /\ (m # 1 => m - 1 \in DOMAIN p[b] /\ q[b][m] = p[b][m - 1])
  BY SMTT(30), <1>2, <1>3, <1>4, Cons
<1>6. q \in [0..(c - 1) -> Seq(NodeIn(h))]
  BY <1>2, <1>3, <1>5 DEF Push
<1>7. b = Hash[h[node.key]] % c /\ \A m \in DOMAIN p[b] : h[p[b][m].key] # h[node.key]
  BY <1>1 DEF Holds, Slot
<1> HIDE DEF q, b
<1>8. ArrayOK(h, q, c)
  <2> SUFFICES ASSUME NEW j \in 0..(c - 1), NEW m \in DOMAIN q[j]
               PROVE  /\ Slot(h, c, q[j][m].key) = j
                      /\ \A l \in DOMAIN q[j] : h[q[j][l].key] = h[q[j][m].key] => l = m
    BY <1>6 DEF ArrayOK
  <2>1. CASE j # b
    BY <2>1, <1>4 DEF ArrayOK
  <2>2. CASE j = b
    <3>1. \A l \in DOMAIN p[b] : Slot(h, c, p[b][l].key) = b
      BY <1>2 DEF ArrayOK
    <3>2. Slot(h, c, q[b][m].key) = b
      BY <2>2, <3>1, <1>5, <1>14
    <3>3. ASSUME NEW l \in DOMAIN q[b], h[q[b][l].key] = h[q[b][m].key] PROVE l = m
      <4>1. CASE l = 1 /\ m # 1
        <5>1. m - 1 \in DOMAIN p[b] /\ q[b][m] = p[b][m - 1]
          BY <4>1, <2>2, <1>5
        <5> QED BY <3>3, <4>1, <5>1, <1>5, <1>7
      <4>2. CASE l # 1 /\ m = 1
        <5>1. l - 1 \in DOMAIN p[b] /\ q[b][l] = p[b][l - 1]
          BY <4>2, <2>2, <1>5
        <5> QED BY <3>3, <4>2, <5>1, <1>5, <1>7
      <4>3. CASE l # 1 /\ m # 1
        <5>1. /\ l - 1 \in DOMAIN p[b] /\ q[b][l] = p[b][l - 1]
              /\ m - 1 \in DOMAIN p[b] /\ q[b][m] = p[b][m - 1]
          BY <4>3, <2>2, <1>5
        <5>2. l - 1 = m - 1
          BY <5>1, <3>3, <1>2 DEF ArrayOK
        <5> QED BY <5>2, <1>5, <2>2
      <4> QED BY <4>1, <4>2, <4>3
    <3> QED BY <2>2, <3>2, <3>3
  <2> QED BY <2>1, <2>2
<1>9. \A j \in 0..(c - 1) : \A m \in DOMAIN q[j] :
         q[j][m] = node \/ \E l \in DOMAIN p[j] : q[j][m] = p[j][l]
  <2> SUFFICES ASSUME NEW j \in 0..(c - 1), NEW m \in DOMAIN q[j], q[j][m] # node
               PROVE  \E l \in DOMAIN p[j] : q[j][m] = p[j][l]
    OBVIOUS
  <2>1. CASE j # b
    BY <2>1, <1>4
  <2>2. CASE j = b
    <3>1. m - 1 \in DOMAIN p[b] /\ q[b][m] = p[b][m - 1]
      BY <2>2, <1>5
    <3> QED BY <2>2, <3>1
  <2> QED BY <2>1, <2>2
<1>10. \A j \in 0..(c - 1) : \A l \in DOMAIN p[j] : \E m \in DOMAIN q[j] : q[j][m] = p[j][l]
  <2> SUFFICES ASSUME NEW j \in 0..(c - 1), NEW l \in DOMAIN p[j]
               PROVE  \E m \in DOMAIN q[j] : q[j][m] = p[j][l]
    OBVIOUS
  <2>1. CASE j # b
    BY <2>1, <1>4
  <2>2. CASE j = b
    <3>1. l + 1 \in DOMAIN q[b] /\ q[b][l + 1] = p[b][l]
      BY <2>2, <1>5
    <3> QED BY <2>2, <3>1
  <2> QED BY <2>1, <2>2
<1>11. KeysOf(q) = KeysOf(p) \cup {node.key}
  <2>1. DOMAIN p = 0..(c - 1)
    BY <1>3
  <2>2. ASSUME NEW k \in KeysOf(q) PROVE k \in KeysOf(p) \cup {node.key}
    <3>1. PICK j \in 0..(c - 1) : \E m \in DOMAIN q[j] : k = q[j][m].key
      BY <1>4 DEF KeysOf
    <3> QED BY <3>1, <1>9, <2>1 DEF KeysOf
  <2>3. ASSUME NEW k \in KeysOf(p) PROVE k \in KeysOf(q)
    <3>1. PICK j \in 0..(c - 1) : \E l \in DOMAIN p[j] : k = p[j][l].key
      BY <2>1 DEF KeysOf
    <3>2. PICK l \in DOMAIN p[j] : k = p[j][l].key
      BY <3>1
    <3>3. PICK m \in DOMAIN q[j] : q[j][m] = p[j][l]
      BY <1>10
    <3> QED BY <3>2, <3>3, <1>4 DEF KeysOf
  <2>4. node.key \in KeysOf(q)
    <3>1. 1 \in DOMAIN q[b] /\ q[b][1].key = node.key /\ b \in DOMAIN q
      BY <1>2, <1>4, <1>5
    <3> QED BY <3>1 DEF KeysOf
  <2> QED BY <2>2, <2>3, <2>4
<1>12. ASSUME NEW t \in Texts
       PROVE  Look(h, q, c, t) = IF t = h[node.key] THEN node.value ELSE Look(h, p, c, t)
  <2>1. CASE t = h[node.key]
    <3>1. Holds(h, q, c, t, 1)
      BY <2>1, <1>5, <1>7 DEF Holds
    <3>2. Look(h, q, c, t) = q[b][1].value
      BY <3>1, <2>1, <1>7, <1>8, LookFinds
    <3> QED BY <3>2, <2>1, <1>5
  <2>2. CASE t # h[node.key] /\ Hash[t] % c # b
    <3>1. Hash[t] % c \in 0..(c - 1)
      BY HashRange
    <3>2. q[Hash[t] % c] = p[Hash[t] % c]
      BY <3>1, <2>2, <1>4
    <3> QED BY <3>2, <2>2 DEF Look, Holds
  <2>3. CASE t # h[node.key] /\ Hash[t] % c = b /\ \E l : Holds(h, p, c, t, l)
    <3>1. PICK l : Holds(h, p, c, t, l)
      BY <2>3
    <3>2. l + 1 \in DOMAIN q[b] /\ q[b][l + 1] = p[b][l]
      BY <3>1, <2>3, <1>5 DEF Holds
    <3>3. Holds(h, q, c, t, l + 1)
      BY <3>1, <3>2, <2>3 DEF Holds
    <3>4. Look(h, q, c, t) = q[b][l + 1].value /\ Look(h, p, c, t) = p[b][l].value
      BY <3>1, <3>3, <2>3, <1>8, LookFinds
    <3> QED BY <3>2, <3>4, <2>3
  <2>4. CASE t # h[node.key] /\ Hash[t] % c = b /\ \A l : ~Holds(h, p, c, t, l)
    <3>1. ASSUME NEW m, Holds(h, q, c, t, m) PROVE FALSE
      <4>1. m \in DOMAIN q[b] /\ h[q[b][m].key] = t
        BY <3>1, <2>4 DEF Holds
        <4>3. m # 1
          BY <4>1, <2>4, <1>5
      <4>2. m - 1 \in DOMAIN p[b] /\ q[b][m] = p[b][m - 1]
        BY <4>1, <4>3, <1>5
      <4> QED BY <4>1, <4>2, <2>4 DEF Holds
    <3>2. Look(h, q, c, t) = NoValue /\ Look(h, p, c, t) = NoValue
      BY <3>1, <2>4, LookMisses
    <3> QED BY <3>2, <2>4
  <2> QED BY <2>1, <2>2, <2>3, <2>4
<1> QED BY <1>5, <1>8, <1>9, <1>10, <1>11, <1>12 DEF q, b

\* Keys with the same text are in the same node.
LEMMA KeyUnique ==
  ASSUME NEW h \in Seq(Texts), NEW c \in Nat \ {0}, NEW p, ArrayOK(h, p, c),
         NEW j \in 0..(c - 1), NEW m \in DOMAIN p[j],
         NEW k \in 0..(c - 1), NEW l \in DOMAIN p[k],
         h[p[k][l].key] = h[p[j][m].key]
  PROVE  k = j /\ l = m
<1>1. Slot(h, c, p[j][m].key) = j /\ Slot(h, c, p[k][l].key) = k
  BY DEF ArrayOK
<1>2. k = j
  BY <1>1 DEF Slot
<1> QED BY <1>2 DEF ArrayOK

\* Every node has its key in the heap, and every key its node.
LEMMA NodeFacts ==
  ASSUME NEW h \in Seq(Texts), NEW c \in Nat \ {0}, NEW p, ArrayOK(h, p, c)
  PROVE  /\ DOMAIN p = 0..(c - 1)
         /\ \A j \in 0..(c - 1) : \A m \in DOMAIN p[j] :
              /\ p[j][m] \in NodeIn(h) /\ m \in Nat \ {0}
              /\ p[j][m].key \in DOMAIN h /\ p[j][m].value \in Nat
              /\ h[p[j][m].key] \in Texts
              /\ p[j][m].key \in KeysOf(p)
              /\ Holds(h, p, c, h[p[j][m].key], m)
              /\ j = Hash[h[p[j][m].key]] % c
         /\ \A k \in KeysOf(p) : \E j \in 0..(c - 1) : \E m \in DOMAIN p[j] : p[j][m].key = k
<1>1. p \in [0..(c - 1) -> Seq(NodeIn(h))] /\ DOMAIN p = 0..(c - 1)
  BY DEF ArrayOK
<1>2. ASSUME NEW j \in 0..(c - 1), NEW m \in DOMAIN p[j]
      PROVE  /\ p[j][m] \in NodeIn(h) /\ m \in Nat \ {0}
             /\ p[j][m].key \in DOMAIN h /\ p[j][m].value \in Nat
             /\ h[p[j][m].key] \in Texts
             /\ p[j][m].key \in KeysOf(p)
             /\ Holds(h, p, c, h[p[j][m].key], m)
             /\ j = Hash[h[p[j][m].key]] % c
  <2>1. p[j] \in Seq(NodeIn(h))
    BY <1>1
  <2>2. p[j][m] \in NodeIn(h) /\ m \in Nat \ {0}
    BY <2>1
  <2>3. p[j][m].key \in DOMAIN h /\ p[j][m].value \in Nat
    BY <2>2 DEF NodeIn, Values
  <2>4. p[j][m].key \in KeysOf(p)
    BY <1>1 DEF KeysOf
  <2>5. j = Hash[h[p[j][m].key]] % c
    BY DEF ArrayOK, Slot
  <2>6. Holds(h, p, c, h[p[j][m].key], m)
    BY <2>5 DEF Holds
  <2> QED BY <2>2, <2>3, <2>4, <2>5, <2>6
<1>3. ASSUME NEW k \in KeysOf(p)
      PROVE  \E j \in 0..(c - 1) : \E m \in DOMAIN p[j] : p[j][m].key = k
  BY <1>1 DEF KeysOf
<1> QED BY <1>1, <1>2, <1>3

LEMMA OneNode ==
  ASSUME NEW h \in Seq(Texts), NEW c \in Nat \ {0}, NEW p, ArrayOK(h, p, c),
         NEW j \in 0..(c - 1), NEW m \in DOMAIN p[j]
  PROVE  /\ p[j][m] \in NodeIn(h) /\ m \in Nat \ {0}
         /\ p[j][m].key \in DOMAIN h /\ h[p[j][m].key] \in Texts
         /\ Slot(h, c, p[j][m].key) = j
<1>1. Slot(h, c, p[j][m].key) = j
  BY DEF ArrayOK
<1>2. p[j] \in Seq(NodeIn(h))
  BY DEF ArrayOK
<1>3. p[j][m] \in NodeIn(h) /\ m \in Nat \ {0}
  BY <1>2
<1>4. p[j][m].key \in DOMAIN h
  BY <1>3 DEF NodeIn
<1> QED BY <1>1, <1>3, <1>4

LEMMA KeyHasNode ==
  ASSUME NEW h \in Seq(Texts), NEW c \in Nat \ {0}, NEW p, ArrayOK(h, p, c), NEW k \in KeysOf(p)
  PROVE  \E j \in 0..(c - 1) : \E m \in DOMAIN p[j] : p[j][m].key = k
<1>1. DOMAIN p = 0..(c - 1)
  BY DEF ArrayOK
<1> QED BY <1>1 DEF KeysOf

LEMMA KeysInHeap ==
  ASSUME NEW h \in Seq(Texts), NEW c \in Nat \ {0}, NEW p, ArrayOK(h, p, c)
  PROVE  KeysOf(p) \subseteq DOMAIN h
<1> SUFFICES ASSUME NEW k \in KeysOf(p) PROVE k \in DOMAIN h
  OBVIOUS
<1>1. PICK j \in 0..(c - 1) : \E m \in DOMAIN p[j] : p[j][m].key = k
  BY KeyHasNode
<1>2. PICK m \in DOMAIN p[j] : p[j][m].key = k
  BY <1>1
<1>3. p[j][m].key \in DOMAIN h
  BY OneNode
<1> QED BY <1>2, <1>3

\* An array without nodes.
LEMMA NoNodes ==
  ASSUME NEW h \in Seq(Texts), NEW c \in Nat \ {0}
  PROVE  /\ ArrayOK(h, NoChains(c), c)
         /\ KeysOf(NoChains(c)) = {}
         /\ \A t \in Texts : Look(h, NoChains(c), c, t) = NoValue
         /\ \A j \in 0..(c - 1) : NoChains(c)[j] = << >>
<1>1. DOMAIN NoChains(c) = 0..(c - 1) /\ \A j \in 0..(c - 1) : NoChains(c)[j] = << >>
  BY DEF NoChains
<1>2. << >> \in Seq(NodeIn(h))
  BY EmptySeq
<1>3. NoChains(c) \in [0..(c - 1) -> Seq(NodeIn(h))]
  BY <1>2 DEF NoChains
<1>4. ArrayOK(h, NoChains(c), c)
  BY <1>1, <1>3 DEF ArrayOK
<1>5. KeysOf(NoChains(c)) = {}
  BY <1>1 DEF KeysOf
<1>6. ASSUME NEW t \in Texts PROVE Look(h, NoChains(c), c, t) = NoValue
  <2>1. NoChains(c)[Hash[t] % c] = << >>
    BY <1>1, HashRange
  <2>2. \A m : ~Holds(h, NoChains(c), c, t, m)
    BY <2>1 DEF Holds
  <2> QED BY <2>2, LookMisses
<1> QED BY <1>1, <1>4, <1>5, <1>6

\* A heap that has the same texts under the keys of an array.
LEMMA OtherHeap ==
  ASSUME NEW h \in Seq(Texts), NEW c \in Nat \ {0}, NEW p, ArrayOK(h, p, c),
         NEW g \in Seq(Texts), DOMAIN h \subseteq DOMAIN g, \A k \in KeysOf(p) : g[k] = h[k]
  PROVE  /\ ArrayOK(g, p, c)
         /\ \A t \in Texts : Look(g, p, c, t) = Look(h, p, c, t)
<1>1. \A j \in 0..(c - 1) : \A m \in DOMAIN p[j] : g[p[j][m].key] = h[p[j][m].key]
  BY NodeFacts
<1>2. p \in [0..(c - 1) -> Seq(NodeIn(g))]
  <2>1. NodeIn(h) \subseteq NodeIn(g)
    BY DEF NodeIn
  <2>2. Seq(NodeIn(h)) \subseteq Seq(NodeIn(g))
    BY <2>1, SeqMonotonic
  <2> QED BY <2>2 DEF ArrayOK
<1>3. ArrayOK(g, p, c)
  BY <1>1, <1>2 DEF ArrayOK, Slot
<1>4. ASSUME NEW t \in Texts PROVE Look(g, p, c, t) = Look(h, p, c, t)
  <2>1. \A m : Holds(h, p, c, t, m) <=> Holds(g, p, c, t, m)
    BY <1>1, HashRange DEF Holds
  <2> QED BY <2>1, <1>3, LookSame
<1> QED BY <1>3, <1>4

\* A node replaced by one whose key has the same text, perhaps in a longer heap.
LEMMA SetNode ==
  ASSUME NEW h \in Seq(Texts), NEW c \in Nat \ {0}, NEW p, ArrayOK(h, p, c),
         NEW g \in Seq(Texts), DOMAIN h \subseteq DOMAIN g, \A a \in DOMAIN h : g[a] = h[a],
         NEW b \in 0..(c - 1), NEW m \in DOMAIN p[b],
         NEW node \in NodeIn(g), g[node.key] = h[p[b][m].key]
  PROVE  LET q == Put(p, b, m, node)
         IN  /\ ArrayOK(g, q, c)
             /\ q[b][m] = node /\ DOMAIN q[b] = DOMAIN p[b]
             /\ KeysOf(q) = (KeysOf(p) \ {p[b][m].key}) \cup {node.key}
             /\ \A t \in Texts : Look(g, q, c, t) = IF t = g[node.key] THEN node.value
                                                    ELSE Look(h, p, c, t)
<1> DEFINE q == Put(p, b, m, node)
<1>1. p \in [0..(c - 1) -> Seq(NodeIn(h))]
  BY DEF ArrayOK
<1>2. p[b] \in Seq(NodeIn(g))
  <2>1. NodeIn(h) \subseteq NodeIn(g)
    BY DEF NodeIn
  <2> QED BY <1>1, <2>1, SeqMonotonic
<1>3. Len(p[b]) \in Nat /\ DOMAIN p[b] = 1..Len(p[b])
  BY <1>2, LenProperties
<1>4. /\ q[b] \in Seq(NodeIn(g)) /\ q[b][m] = node /\ DOMAIN q[b] = DOMAIN p[b]
      /\ \A l \in DOMAIN p[b] : l # m => q[b][l] = p[b][l]
  BY <1>1, <1>2, <1>3, ExceptSeq DEF Put
<1>5. DOMAIN q = 0..(c - 1) /\ \A j \in 0..(c - 1) : j # b => q[j] = p[j]
  BY <1>1 DEF Put
<1> HIDE DEF q
<1>6. ASSUME NEW j \in 0..(c - 1) PROVE q[j] \in Seq(NodeIn(g)) /\ DOMAIN q[j] = DOMAIN p[j]
  <2>1. NodeIn(h) \subseteq NodeIn(g)
    BY DEF NodeIn
  <2>2. p[j] \in Seq(NodeIn(g))
    BY <1>1, <2>1, SeqMonotonic
  <2> QED BY <2>2, <1>4, <1>5
<1>7. q \in [0..(c - 1) -> Seq(NodeIn(g))]
  <2>1. q = [j \in 0..(c - 1) |-> q[j]]
    BY <1>1 DEF q, Put
  <2> QED BY <2>1, <1>6
<1>8. \A j \in 0..(c - 1) : \A l \in DOMAIN p[j] : g[q[j][l].key] = h[p[j][l].key]
  <2> SUFFICES ASSUME NEW j \in 0..(c - 1), NEW l \in DOMAIN p[j]
               PROVE  g[q[j][l].key] = h[p[j][l].key]
    OBVIOUS
  <2>1. CASE j = b /\ l = m
    BY <2>1, <1>4
  <2>2. CASE ~(j = b /\ l = m)
    <3>1. q[j][l] = p[j][l]
      BY <2>2, <1>4, <1>5
    <3> QED BY <3>1, NodeFacts
  <2> QED BY <2>1, <2>2
<1>9. ArrayOK(g, q, c)
  <2> SUFFICES ASSUME NEW j \in 0..(c - 1), NEW l \in DOMAIN q[j]
               PROVE  /\ Slot(g, c, q[j][l].key) = j
                      /\ \A k \in DOMAIN q[j] : g[q[j][k].key] = g[q[j][l].key] => k = l
    BY <1>7 DEF ArrayOK
  <2>1. Slot(g, c, q[j][l].key) = j
    <3>1. l \in DOMAIN p[j] /\ g[q[j][l].key] = h[p[j][l].key]
      BY <1>6, <1>8
    <3>2. Slot(h, c, p[j][l].key) = j
      BY <3>1, OneNode
    <3> QED BY <3>1, <3>2 DEF Slot
  <2>2. ASSUME NEW k \in DOMAIN q[j], g[q[j][k].key] = g[q[j][l].key] PROVE k = l
    <3>1. k \in DOMAIN p[j] /\ l \in DOMAIN p[j]
      BY <1>6
    <3>2. h[p[j][k].key] = h[p[j][l].key]
      BY <2>2, <3>1, <1>8
    <3> QED BY <3>1, <3>2 DEF ArrayOK
  <2> QED BY <2>1, <2>2
<1>10. KeysOf(q) = (KeysOf(p) \ {p[b][m].key}) \cup {node.key}
  <2>1. ASSUME NEW k \in KeysOf(q) PROVE k \in (KeysOf(p) \ {p[b][m].key}) \cup {node.key}
    <3>1. PICK j \in 0..(c - 1) : \E l \in DOMAIN q[j] : q[j][l].key = k
      BY <1>9, KeyHasNode
    <3>2. PICK l \in DOMAIN q[j] : q[j][l].key = k
      BY <3>1
    <3>3. CASE j = b /\ l = m
      BY <3>2, <3>3, <1>4
    <3>4. CASE ~(j = b /\ l = m)
      <4>1. l \in DOMAIN p[j] /\ q[j][l] = p[j][l]
        BY <3>4, <1>4, <1>5, <1>6
      <4>2. k \in KeysOf(p)
        BY <3>2, <4>1, NodeFacts
      <4>3. ASSUME k = p[b][m].key PROVE FALSE
        <5>1. h[p[j][l].key] = h[p[b][m].key]
          BY <3>2, <4>1, <4>3
        <5> QED BY <3>4, <4>1, <5>1, KeyUnique
      <4> QED BY <4>2, <4>3
    <3> QED BY <3>3, <3>4
  <2>2. ASSUME NEW k \in KeysOf(p), k # p[b][m].key PROVE k \in KeysOf(q)
    <3>1. PICK j \in 0..(c - 1) : \E l \in DOMAIN p[j] : p[j][l].key = k
      BY NodeFacts
    <3>2. PICK l \in DOMAIN p[j] : p[j][l].key = k
      BY <3>1
    <3>3. l \in DOMAIN q[j] /\ q[j][l] = p[j][l]
      BY <2>2, <3>2, <1>4, <1>5, <1>6
    <3> QED BY <3>2, <3>3, <1>9, NodeFacts
  <2>3. node.key \in KeysOf(q)
    BY <1>4, <1>9, NodeFacts
  <2> QED BY <2>1, <2>2, <2>3
<1>11. ASSUME NEW t \in Texts
       PROVE  Look(g, q, c, t) = IF t = g[node.key] THEN node.value ELSE Look(h, p, c, t)
  <2>1. CASE t = g[node.key]
    <3>1. m \in DOMAIN q[b] /\ g[q[b][m].key] = t
      BY <2>1, <1>4
    <3>2. b = Hash[g[q[b][m].key]] % c /\ Holds(g, q, c, g[q[b][m].key], m)
      BY <3>1, <1>9, NodeFacts
    <3>3. Holds(g, q, c, t, m) /\ b = Hash[t] % c
      BY <3>1, <3>2
    <3>4. Look(g, q, c, t) = q[Hash[t] % c][m].value
      BY <3>3, <1>9, LookFinds
    <3> QED BY <3>3, <3>4, <2>1, <1>4
  <2>2. CASE t # g[node.key]
    <3> DEFINE d == Hash[t] % c
    <3>1. d \in 0..(c - 1)
      BY HashRange
    <3>2. \A l : Holds(h, p, c, t, l) <=> Holds(g, q, c, t, l)
      BY <3>1, <1>6, <1>8 DEF Holds
    <3>3. CASE \E l : Holds(h, p, c, t, l)
      <4>1. PICK l : Holds(h, p, c, t, l)
        BY <3>3
      <4>2. ~(d = b /\ l = m)
        BY <4>1, <2>2 DEF Holds
      <4>3. q[d][l] = p[d][l]
        BY <4>1, <4>2, <3>1, <1>4, <1>5 DEF Holds
      <4>4. Look(g, q, c, t) = q[d][l].value /\ Look(h, p, c, t) = p[d][l].value
        BY <4>1, <3>2, <1>9, LookFinds
      <4> QED BY <4>3, <4>4, <2>2
    <3>4. CASE \A l : ~Holds(h, p, c, t, l)
      BY <3>4, <3>2, <2>2, LookMisses
    <3> QED BY <3>3, <3>4
  <2> QED BY <2>1, <2>2
<1> QED BY <1>4, <1>9, <1>10, <1>11 DEF q

\* A chain dropped.
LEMMA DropNodes ==
  ASSUME NEW h \in Seq(Texts), NEW c \in Nat \ {0}, NEW p, ArrayOK(h, p, c), NEW b \in 0..(c - 1)
  PROVE  LET q == Drop(p, b)
         IN  /\ ArrayOK(h, q, c)
             /\ q[b] = << >> /\ \A j \in 0..(c - 1) : j # b => q[j] = p[j]
             /\ KeysOf(p) = KeysOf(q) \cup {p[b][m].key : m \in DOMAIN p[b]}
             /\ \A t \in Texts : Look(h, q, c, t) = IF Hash[t] % c = b THEN NoValue ELSE Look(h, p, c, t)
<1> DEFINE q == Drop(p, b)
<1>1. p \in [0..(c - 1) -> Seq(NodeIn(h))]
  BY DEF ArrayOK
<1>2. << >> \in Seq(NodeIn(h))
  BY EmptySeq
<1>3. q \in [0..(c - 1) -> Seq(NodeIn(h))]
  BY <1>1, <1>2 DEF Drop
<1>4. DOMAIN q = 0..(c - 1) /\ q[b] = << >> /\ \A j \in 0..(c - 1) : j # b => q[j] = p[j]
  BY <1>1 DEF Drop
<1> HIDE DEF q
<1>5. ArrayOK(h, q, c)
  <2> SUFFICES ASSUME NEW j \in 0..(c - 1), NEW m \in DOMAIN q[j]
               PROVE  /\ Slot(h, c, q[j][m].key) = j
                      /\ \A l \in DOMAIN q[j] : h[q[j][l].key] = h[q[j][m].key] => l = m
    BY <1>3 DEF ArrayOK
  <2>1. j # b
    BY <1>4
  <2> QED BY <2>1, <1>4 DEF ArrayOK
<1>6. KeysOf(p) = KeysOf(q) \cup {p[b][m].key : m \in DOMAIN p[b]}
  <2>1. ASSUME NEW k \in KeysOf(p) PROVE k \in KeysOf(q) \cup {p[b][m].key : m \in DOMAIN p[b]}
    <3>1. PICK j \in 0..(c - 1) : \E l \in DOMAIN p[j] : p[j][l].key = k
      BY NodeFacts
    <3>2. CASE j = b
      BY <3>1, <3>2
    <3>3. CASE j # b
      BY <3>1, <3>3, <1>4, <1>5, NodeFacts
    <3> QED BY <3>2, <3>3
  <2>2. ASSUME NEW k \in KeysOf(q) PROVE k \in KeysOf(p)
    <3>1. PICK j \in 0..(c - 1) : \E l \in DOMAIN q[j] : q[j][l].key = k
      BY <1>5, NodeFacts
    <3>2. PICK l \in DOMAIN q[j] : q[j][l].key = k
      BY <3>1
    <3>3. j # b
      BY <1>4
    <3>4. l \in DOMAIN p[j] /\ p[j][l].key = k
      BY <3>2, <3>3, <1>4
    <3> QED BY <3>4, NodeFacts
  <2>3. \A m \in DOMAIN p[b] : p[b][m].key \in KeysOf(p)
    BY NodeFacts
  <2> QED BY <2>1, <2>2, <2>3
<1>7. ASSUME NEW t \in Texts
      PROVE  Look(h, q, c, t) = IF Hash[t] % c = b THEN NoValue ELSE Look(h, p, c, t)
  <2>1. CASE Hash[t] % c = b
    <3>1. \A m : ~Holds(h, q, c, t, m)
      BY <2>1, <1>4 DEF Holds
    <3> QED BY <2>1, <3>1, LookMisses
  <2>2. CASE Hash[t] % c # b
    <3>1. q[Hash[t] % c] = p[Hash[t] % c]
      BY <2>2, <1>4, HashRange
    <3> QED BY <2>2, <3>1 DEF Look, Holds
  <2> QED BY <2>1, <2>2
<1> QED BY <1>4, <1>5, <1>6, <1>7 DEF q

\* Different keys have different texts.
LEMMA OneKey ==
  ASSUME NEW h \in Seq(Texts), NEW c \in Nat \ {0}, NEW p, ArrayOK(h, p, c),
         NEW k \in KeysOf(p), NEW l \in KeysOf(p), h[k] = h[l]
  PROVE  k = l
<1>1. PICK j \in 0..(c - 1) : \E m \in DOMAIN p[j] : p[j][m].key = k
  BY NodeFacts
<1>2. PICK m \in DOMAIN p[j] : p[j][m].key = k
  BY <1>1
<1>3. PICK a \in 0..(c - 1) : \E b \in DOMAIN p[a] : p[a][b].key = l
  BY SMTT(30), NodeFacts
<1>4. PICK b \in DOMAIN p[a] : p[a][b].key = l
  BY <1>3
<1> QED BY <1>2, <1>4, KeyUnique

-----------------------------------------------------------------------------
(* The inductive invariant. *)

\* The variables other than the arrays; the lexer's buffers and the string
\* constants are in the heap.
Scalars ==
  /\ heap \in Seq(Texts) /\ Buffers \cup Constants \subseteq DOMAIN heap
  /\ live \subseteq DOMAIN heap
  /\ capacity \in Nat \ {0} /\ size \in Nat
  /\ destroy_key \in BOOLEAN /\ crashed \in BOOLEAN
  /\ pc \in {"ready", "token", "load", "rehash", "walk", "copy", "clear", "done"}
  /\ i \in 0..capacity /\ n \in Nat \ {0}
  /\ answer \in Values \cup {NoValue}
  /\ lexeme \in Buffers /\ intern_counter \in Nat

Arrays ==
  /\ IF pc = "done" THEN plist = NoChains(0) ELSE ArrayOK(heap, plist, capacity)
  /\ IF pc = "rehash" THEN ArrayOK(heap, plist2, 2 * capacity) ELSE plist2 = NoChains(0)

\* A call in progress: of the intern table, always the insertion of the token
\* just read; of another table, never one that would make a buffer a key.
CallInv ==
  /\ call \in [op : {"none", "query", "insert", "update"}, key : Buffers \cup Constants,
               value : 0..(MaxSymbols + 1)]
  /\ pc \in {"token", "copy"} => destroy_key
  /\ pc \in {"load", "rehash", "walk", "copy"} =>
       /\ call.op # "none"
       /\ destroy_key => call = [op |-> "insert", key |-> lexeme, value |-> intern_counter]
       /\ ~destroy_key /\ call.op # "query" => call.key \in Constants
  /\ pc \in {"load", "rehash"} => call.op # "query"
  /\ pc = "load" => n = 1

\* While the map is rehashed: the chains before i are empty; of chain i the
\* nodes before n are in the new array too; no other text is in both.
RehashInv ==
  pc = "rehash" =>
    /\ \A j \in 0..(i - 1) : plist[j] = << >>
    /\ \A j \in 0..(capacity - 1) : \A m \in DOMAIN plist[j] :
         IF j = i /\ m < n
           THEN /\ Look(heap, plist2, 2 * capacity, heap[plist[j][m].key]) = plist[j][m].value
                /\ plist[j][m].key \in KeysOf(plist2)
           ELSE Look(heap, plist2, 2 * capacity, heap[plist[j][m].key]) = NoValue

\* A key is not in the part of its chain that was searched; copy_symbol goes
\* on with the node that holds its token.
WalkInv ==
  /\ pc = "walk" => \A m \in 1..(n - 1) : ~Holds(heap, plist, capacity, heap[call.key], m)
  /\ pc = "copy" => Holds(heap, plist, capacity, heap[call.key], n)

\* The keys of the nodes hmap_clear has still to free.
Unfreed == {k \in KeysOf(plist) :
              \E j \in 0..(capacity - 1) : \E m \in DOMAIN plist[j] :
                plist[j][m].key = k /\ (j = i => m >= n)}

KeysInv ==
  IF destroy_key
    THEN /\ ~crashed
         /\ live \cap Buffers = {}
         /\ pc \notin {"copy", "clear", "done"} => live = KeysOf(plist) \cup KeysOf(plist2)
         /\ pc = "copy" => KeysOf(plist) = live \cup {Chain[n].key} /\ Chain[n].key \in live \cup {lexeme}
         /\ pc = "clear" => (\A j \in 0..(i - 1) : plist[j] = << >>) /\ live = Unfreed
         /\ pc = "done" => live = {}
    ELSE KeysOf(plist) \cup KeysOf(plist2) \subseteq Constants

Reading == destroy_key /\ pc \in {"token", "load", "rehash", "walk", "copy"}

SymbolsInv ==
  /\ symbols \in Seq([lexeme : DOMAIN heap \ Buffers, text : Texts])
  /\ Len(symbols) + (IF Reading THEN 1 ELSE 0) <= MaxSymbols
  /\ intern_counter <= Len(symbols)
  /\ ~destroy_key => symbols = << >>
  /\ \A a \in DOMAIN symbols :
       /\ heap[symbols[a].lexeme] = symbols[a].text
       /\ pc \notin {"clear", "done"} => symbols[a].lexeme \in live
       /\ \A b \in DOMAIN symbols :
            symbols[a].text = symbols[b].text => symbols[a].lexeme = symbols[b].lexeme

IInv == Scalars /\ Arrays /\ CallInv /\ RehashInv /\ WalkInv /\ KeysInv /\ SymbolsInv

-----------------------------------------------------------------------------
(* What the map holds, in terms of Look. *)

Held(h, p, q, c, stage, t) ==
  IF stage \in {"clear", "done"} THEN NoValue
  ELSE IF stage = "rehash" /\ Look(h, q, 2 * c, t) # NoValue THEN Look(h, q, 2 * c, t)
  ELSE Look(h, p, c, t)

LEMMA ContentsIs ==
  /\ Contents  = [t \in Texts |-> Held(heap, plist, plist2, capacity, pc, t)]
  /\ Contents' = [t \in Texts |-> Held(heap', plist', plist2', capacity', pc', t)]
<1>1. Contents = [t \in Texts |-> Held(heap, plist, plist2, capacity, pc, t)]
  BY DEF Contents, Held, Lookup, Look, HasText, Holds
<1>2. Contents' = [t \in Texts |-> Held(heap', plist', plist2', capacity', pc', t)]
  BY DEF Contents, Held, Lookup, Look, HasText, Holds
<1> QED BY <1>1, <1>2

\* Two states hold the same if every text is found alike.
LEMMA SameContents ==
  ASSUME \A t \in Texts : Held(heap', plist', plist2', capacity', pc', t)
                            = Held(heap, plist, plist2, capacity, pc, t)
  PROVE  Contents' = Contents
BY ContentsIs

LEMMA Addresses == Buffers \cap Constants = {} /\ Buffers = {1, 2} /\ Constants \subseteq Nat
<1>1. Len(Literals) \in Nat
  BY TextsAssumption, LenProperties
<1> QED BY <1>1 DEF Buffers, Constants

\* Between two operations no key lies in a buffer of the lexer.
LEMMA KeysStay ==
  ASSUME IInv, pc = "ready"
  PROVE  KeysOf(plist) \cap Buffers = {}
<1>1. CASE destroy_key
  BY <1>1 DEF IInv, KeysInv
<1>2. CASE ~destroy_key
  BY <1>2, Addresses DEF IInv, KeysInv
<1> QED BY <1>1, <1>2

LEMMA SymbolFacts ==
  ASSUME IInv
  PROVE  /\ Len(symbols) \in Nat /\ DOMAIN symbols = 1..Len(symbols)
         /\ \A a \in DOMAIN symbols : symbols[a].lexeme \in DOMAIN heap \ Buffers
                                      /\ symbols[a].text \in Texts
<1> DEFINE S == [lexeme : DOMAIN heap \ Buffers, text : Texts]
<1>1. symbols \in Seq(S)
  BY DEF IInv, SymbolsInv
<1>2. Len(symbols) \in Nat /\ DOMAIN symbols = 1..Len(symbols)
  BY <1>1, LenProperties
<1> HIDE DEF S
<1>3. \A a \in DOMAIN symbols : symbols[a] \in S
  BY <1>1, <1>2, ElementOfSeq
<1> QED BY <1>2, <1>3 DEF S

-----------------------------------------------------------------------------
(* One lemma per action: the invariant is kept, and what is held changes as *)
(* it should.                                                               *)

LEMMA TokenStep ==
  ASSUME IInv, NEW text \in Texts \ {Empty}, get_token(text)
  PROVE  IInv' /\ Contents' = Contents /\ answer' = answer
<1>1. /\ heap' \in Seq(Texts) /\ DOMAIN heap' = DOMAIN heap
      /\ \A a \in DOMAIN heap : a \notin Buffers => heap'[a] = heap[a]
  <2>1. lexeme \in Buffers /\ 3 - lexeme \in Buffers /\ Buffers \subseteq DOMAIN heap
    BY Addresses DEF IInv, Scalars
  <2>2. heap \in Seq(Texts) /\ Empty \in Texts
    BY TextsAssumption DEF IInv, Scalars
  <2>3. heap' = [heap EXCEPT ![3 - lexeme] = text, ![lexeme] = Empty]
    BY DEF get_token
  <2> QED BY <2>1, <2>2, <2>3
<1>2. Scalars'
  <2>1. lexeme' \in Buffers
    BY Addresses DEF IInv, Scalars, get_token
  <2> QED BY <1>1, <2>1 DEF IInv, Scalars, get_token
<1>3. pc = "ready" /\ plist' = plist /\ plist2' = plist2 /\ capacity' = capacity
      /\ pc' \in {"ready", "token"} /\ answer' = answer
  BY DEF get_token
<1>12. /\ ArrayOK(heap, plist, capacity) /\ plist2 = NoChains(0)
      /\ heap \in Seq(Texts) /\ capacity \in Nat \ {0}
  BY <1>3 DEF IInv, Arrays, Scalars
<1>4. \A k \in KeysOf(plist) : heap'[k] = heap[k]
  BY <1>1, <1>3, <1>12, KeysStay, KeysInHeap
<1>5. ArrayOK(heap', plist, capacity)
      /\ \A t \in Texts : Look(heap', plist, capacity, t) = Look(heap, plist, capacity, t)
  BY <1>1, <1>4, <1>12, OtherHeap
<1>6. Arrays'
  BY <1>3, <1>5, <1>12 DEF Arrays
<1>7. CallInv'
  BY DEF IInv, CallInv, get_token
<1>8. RehashInv' /\ WalkInv'
  BY <1>3 DEF RehashInv, WalkInv
<1>9. KeysInv'
  <2>1. CASE destroy_key
    BY <2>1 DEF IInv, KeysInv, get_token
  <2>2. CASE ~destroy_key
    BY <2>2 DEF IInv, KeysInv, get_token
  <2> QED BY <2>1, <2>2
<1>10. SymbolsInv'
  <2>1. \A a \in DOMAIN symbols : heap'[symbols[a].lexeme] = heap[symbols[a].lexeme]
    BY <1>1, SymbolFacts
  <2>2. Len(symbols) + (IF Reading' THEN 1 ELSE 0) <= MaxSymbols
    <3>1. text \in Keywords => ~Reading'
      BY DEF get_token, Reading
    <3> QED BY <3>1, SymbolFacts, MaxSymbolsAssumption DEF IInv, SymbolsInv, Reading, get_token
  <2>3. symbols' = symbols /\ intern_counter' = intern_counter /\ live' = live
        /\ destroy_key' = destroy_key
    BY DEF get_token
  <2>4. /\ symbols' \in Seq([lexeme : DOMAIN heap' \ Buffers, text : Texts])
        /\ intern_counter' <= Len(symbols') /\ (~destroy_key' => symbols' = << >>)
    BY <1>1, <2>3 DEF IInv, SymbolsInv
  <2>5. ASSUME NEW a \in DOMAIN symbols
        PROVE  /\ heap'[symbols[a].lexeme] = symbols[a].text
               /\ symbols[a].lexeme \in live
               /\ \A b \in DOMAIN symbols :
                    symbols[a].text = symbols[b].text => symbols[a].lexeme = symbols[b].lexeme
    BY <1>3, <2>1 DEF IInv, SymbolsInv
  <2> QED BY <2>2, <2>3, <2>4, <2>5 DEF SymbolsInv
<1>11. Contents' = Contents
  BY <1>3, <1>5, SameContents DEF Held
<1> QED BY <1>2, <1>3, <1>6, <1>7, <1>8, <1>9, <1>10, <1>11 DEF IInv

\* A step that does not touch the symbols, nor, until the table is cleared, the
\* blocks they are in.
LEMMA SymbolsStay ==
  ASSUME IInv, UNCHANGED <<heap, destroy_key, symbols, intern_counter>>,
         pc' \notin {"clear", "done"} => pc \notin {"clear", "done"} /\ live' = live,
         Reading' => Reading
  PROVE  SymbolsInv'
<1>1. Len(symbols) + (IF Reading' THEN 1 ELSE 0) <= MaxSymbols
  BY SymbolFacts, MaxSymbolsAssumption DEF IInv, SymbolsInv
<1>2. /\ symbols' \in Seq([lexeme : DOMAIN heap' \ Buffers, text : Texts])
      /\ intern_counter' <= Len(symbols') /\ (~destroy_key' => symbols' = << >>)
  BY DEF IInv, SymbolsInv
<1>3. ASSUME NEW a \in DOMAIN symbols
      PROVE  /\ heap[symbols[a].lexeme] = symbols[a].text
             /\ pc' \notin {"clear", "done"} => symbols[a].lexeme \in live'
             /\ \A b \in DOMAIN symbols :
                  symbols[a].text = symbols[b].text => symbols[a].lexeme = symbols[b].lexeme
  BY DEF IInv, SymbolsInv
<1> QED BY <1>1, <1>2, <1>3 DEF SymbolsInv

\* A step within an operation that neither adds nor loses a key.
LEMMA BooksStay ==
  ASSUME IInv, UNCHANGED <<heap, live, destroy_key, crashed, lexeme, symbols, intern_counter>>,
         pc \notin {"copy", "clear", "done"}, pc' \notin {"copy", "clear", "done"},
         Reading' => Reading,
         KeysOf(plist') \cup KeysOf(plist2') = KeysOf(plist) \cup KeysOf(plist2)
  PROVE  KeysInv' /\ SymbolsInv'
<1>1. KeysInv'
  <2>1. CASE destroy_key
    BY <2>1 DEF IInv, KeysInv
  <2>2. CASE ~destroy_key
    BY <2>2 DEF IInv, KeysInv
  <2> QED BY <2>1, <2>2
<1>2. SymbolsInv'
  BY SymbolsStay
<1> QED BY <1>1, <1>2

\* An operation begins: copy_symbol, or one of TableOp.
LEMMA BeginStep ==
  ASSUME IInv, NEW stage \in {"load", "walk"}, NEW op \in {"query", "insert", "update"},
         NEW k \in Buffers \cup Constants, NEW v \in 0..(MaxSymbols + 1),
         Begin(stage, op, k, v), UNCHANGED <<lexeme, symbols, intern_counter>>,
         \/ /\ pc = "token" /\ stage = "load"
            /\ op = "insert" /\ k = lexeme /\ v = intern_counter
         \/ /\ pc = "ready" /\ ~destroy_key
            /\ (stage = "load" => op # "query") /\ (op # "query" => k \in Constants)
  PROVE  IInv' /\ Contents' = Contents /\ answer' = answer
<1>1. /\ UNCHANGED <<heap, live, plist, capacity, size, destroy_key, i, plist2, answer, crashed,
                     lexeme, symbols, intern_counter>>
      /\ pc' = stage /\ n' = 1 /\ call' = [op |-> op, key |-> k, value |-> v]
  BY DEF Begin
<1>2. pc \in {"token", "ready"} /\ (pc = "token" => destroy_key)
  BY DEF IInv, CallInv
<1>3. Scalars'
  BY <1>1 DEF IInv, Scalars
<1>4. plist2 = NoChains(0) /\ ArrayOK(heap, plist, capacity)
  BY <1>2 DEF IInv, Arrays
<1>5. Arrays'
  BY <1>1, <1>4 DEF IInv, Arrays
<1>6. CallInv'
  BY <1>1 DEF IInv, CallInv
<1>7. RehashInv' /\ WalkInv'
  BY <1>1 DEF RehashInv, WalkInv
<1>8. KeysInv' /\ SymbolsInv'
  <2>1. Reading' => Reading
    BY <1>1, <1>2 DEF Reading
  <2> QED BY <1>1, <1>2, <2>1, BooksStay
<1>9. Contents' = Contents
  BY <1>1, <1>2, SameContents DEF Held
<1> QED BY <1>1, <1>3, <1>5, <1>6, <1>7, <1>8, <1>9 DEF IInv

LEMMA CheckLoadStep ==
  ASSUME IInv, CheckLoad, UNCHANGED <<lexeme, symbols, intern_counter>>
  PROVE  IInv' /\ Contents' = Contents /\ answer' = answer
<1>1. /\ pc = "load" /\ n' = n
      /\ UNCHANGED <<heap, live, plist, capacity, size, destroy_key, call, answer, crashed,
                     lexeme, symbols, intern_counter>>
      /\ \/ pc' = "rehash" /\ plist2' = NoChains(2 * capacity) /\ i' = 0
         \/ pc' = "walk" /\ plist2' = plist2 /\ i' = i
  BY DEF CheckLoad
<1>12. n = 1
  BY <1>1 DEF IInv, CallInv
<1>2. heap \in Seq(Texts) /\ capacity \in Nat \ {0} /\ 2 * capacity \in Nat \ {0}
  BY DEF IInv, Scalars
<1>3. plist2 = NoChains(0) /\ KeysOf(plist2) = {} /\ ArrayOK(heap, plist, capacity)
  <2>1. plist2 = NoChains(0) /\ ArrayOK(heap, plist, capacity)
    BY <1>1 DEF IInv, Arrays
  <2> QED BY <2>1 DEF KeysOf, NoChains
<1>4. pc' = "rehash" => /\ ArrayOK(heap, plist2', 2 * capacity)
                        /\ KeysOf(plist2') = {}
                        /\ \A t \in Texts : Look(heap, plist2', 2 * capacity, t) = NoValue
  BY <1>1, <1>2, NoNodes
<1>5. Scalars'
  BY <1>1, <1>2 DEF IInv, Scalars
<1>6. Arrays'
  BY <1>1, <1>3, <1>4 DEF Arrays
<1>7. CallInv'
  BY <1>1 DEF IInv, CallInv
<1>8. RehashInv'
  <2> SUFFICES ASSUME pc' = "rehash" PROVE RehashInv'
    BY DEF RehashInv
  <2>1. \A j \in 0..(capacity - 1) : \A m \in DOMAIN plist[j] :
          heap[plist[j][m].key] \in Texts /\ m \in Nat \ {0}
    BY <1>2, <1>3, NodeFacts
  <2> QED BY <2>1, <1>1, <1>4, <1>12 DEF RehashInv
<1>9. WalkInv'
  BY <1>1, <1>12 DEF WalkInv
<1>10. KeysInv' /\ SymbolsInv'
  <2>1. Reading' => Reading
    BY <1>1 DEF Reading
  <2>2. KeysOf(plist2') = {}
    BY <1>1, <1>3, <1>4
  <2> QED BY <1>1, <1>3, <2>1, <2>2, BooksStay
<1>11. Contents' = Contents
  BY <1>1, <1>4, SameContents DEF Held
<1> QED BY <1>1, <1>5, <1>6, <1>7, <1>8, <1>9, <1>10, <1>11 DEF IInv

LEMMA WalkStep ==
  ASSUME IInv, Walk, UNCHANGED <<lexeme, symbols, intern_counter>>
  PROVE  IInv' /\ Contents' = Contents /\ answer' = answer
<1>1. /\ pc = "walk" /\ pc' = "walk" /\ n' = n + 1
      /\ UNCHANGED <<heap, live, plist, capacity, size, destroy_key, call, i, plist2, answer, crashed,
                     lexeme, symbols, intern_counter>>
      /\ heap[Chain[n].key] # heap[call.key]
  BY DEF Walk, Same, pch_equals
<1>2. Scalars'
  BY <1>1 DEF IInv, Scalars
<1>3. Arrays' /\ CallInv' /\ RehashInv'
  BY <1>1 DEF IInv, Arrays, CallInv, RehashInv
<1>4. WalkInv'
  <2>1. ~Holds(heap, plist, capacity, heap[call.key], n)
    BY <1>1 DEF Holds, Chain, Bucket
  <2>2. n \in Nat \ {0}
    BY DEF IInv, Scalars
  <2>3. \A m \in 1..n : ~Holds(heap, plist, capacity, heap[call.key], m)
    BY <1>1, <2>1, <2>2 DEF IInv, WalkInv
  <2> QED BY <1>1, <2>2, <2>3 DEF WalkInv
<1>5. KeysInv' /\ SymbolsInv'
  <2>1. Reading' => Reading
    BY <1>1 DEF Reading
  <2> QED BY <1>1, <2>1, BooksStay
<1>6. Contents' = Contents
  BY <1>1, SameContents DEF Held
<1> QED BY <1>1, <1>2, <1>3, <1>4, <1>5, <1>6 DEF IInv

LEMMA MoveNodeStep ==
  ASSUME IInv, MoveNode, UNCHANGED <<lexeme, symbols, intern_counter>>
  PROVE  IInv' /\ Contents' = Contents /\ answer' = answer
<1> DEFINE node == plist[i][n]
           c    == 2 * capacity
           text == heap[node.key]
<1>1. /\ pc = "rehash" /\ pc' = "rehash" /\ i < capacity /\ n <= Len(plist[i])
      /\ plist2' = Push(plist2, Slot(heap, c, node.key), node)
      /\ n' = n + 1
      /\ UNCHANGED <<heap, live, plist, capacity, size, destroy_key, call, i, answer, crashed,
                     lexeme, symbols, intern_counter>>
  BY DEF MoveNode, Push, NewBucket, Bucket, Slot
<1>2. /\ heap \in Seq(Texts) /\ capacity \in Nat \ {0} /\ c \in Nat \ {0}
      /\ i \in 0..(capacity - 1) /\ n \in Nat \ {0}
  BY <1>1 DEF IInv, Scalars
<1>3. ArrayOK(heap, plist, capacity) /\ ArrayOK(heap, plist2, c)
  BY <1>1 DEF IInv, Arrays
<1>4. n \in DOMAIN plist[i]
  <2>1. plist[i] \in Seq(NodeIn(heap))
    BY <1>2, <1>3 DEF ArrayOK
  <2> QED BY <2>1, <1>1, <1>2, LenProperties
<1>5. /\ node \in NodeIn(heap) /\ text \in Texts /\ node.key \in KeysOf(plist)
      /\ Holds(heap, plist, capacity, text, n) /\ i = Hash[text] % capacity
      /\ node.value \in Nat
  BY <1>2, <1>3, <1>4, NodeFacts
<1>6. Look(heap, plist2, c, text) = NoValue
  <2>1. IF i = i /\ n < n
          THEN /\ Look(heap, plist2, c, text) = node.value
               /\ node.key \in KeysOf(plist2)
          ELSE Look(heap, plist2, c, text) = NoValue
    BY <1>1, <1>2, <1>4 DEF IInv, RehashInv
  <2> QED BY <2>1, <1>2
<1>7. \A m : ~Holds(heap, plist2, c, text, m)
  BY <1>2, <1>3, <1>5, <1>6, LookFinds
<1> HIDE DEF node, c, text
<1>8. /\ ArrayOK(heap, plist2', c)
      /\ KeysOf(plist2') = KeysOf(plist2) \cup {node.key}
      /\ \A t \in Texts : Look(heap, plist2', c, t) = IF t = text THEN node.value
                                                      ELSE Look(heap, plist2, c, t)
  <2>1. \A m : ~Holds(heap, plist2, c, heap[node.key], m)
    BY <1>7 DEF text
  <2> DEFINE q == Push(plist2, Slot(heap, c, node.key), node)
  <2>2. /\ ArrayOK(heap, q, c)
        /\ KeysOf(q) = KeysOf(plist2) \cup {node.key}
        /\ \A t \in Texts : Look(heap, q, c, t) = IF t = heap[node.key] THEN node.value
                                                   ELSE Look(heap, plist2, c, t)
    BY <2>1, <1>2, <1>3, <1>5, PushNode
  <2> QED BY <2>2, <1>1 DEF text
<1>9. Scalars'
  BY <1>1, <1>2 DEF IInv, Scalars
<1>10. Arrays'
  BY <1>1, <1>3, <1>8 DEF Arrays, c
<1>11. CallInv' /\ WalkInv'
  BY <1>1 DEF IInv, CallInv, WalkInv
<1>12. RehashInv'
  <2>1. ASSUME NEW j \in 0..(capacity - 1), NEW m \in DOMAIN plist[j]
        PROVE  IF j = i /\ m < n + 1
                 THEN /\ Look(heap, plist2', c, heap[plist[j][m].key]) = plist[j][m].value
                      /\ plist[j][m].key \in KeysOf(plist2')
                 ELSE Look(heap, plist2', c, heap[plist[j][m].key]) = NoValue
    <3>1. heap[plist[j][m].key] \in Texts /\ m \in Nat \ {0}
      BY <1>2, <1>3, NodeFacts
    <3>2. CASE j = i /\ m = n
      <4>1. plist[j][m] = node /\ heap[plist[j][m].key] = text /\ m < n + 1
        BY <3>2, <1>2 DEF node, text
      <4> QED BY <4>1, <3>2, <1>5, <1>8
    <3>3. CASE ~(j = i /\ m = n)
      <4>1. heap[plist[j][m].key] # text
        <5>1. ASSUME heap[plist[j][m].key] = heap[plist[i][n].key] PROVE j = i /\ m = n
          <6>1. i \in 0..(capacity - 1) /\ n \in DOMAIN plist[i] /\ ArrayOK(heap, plist, capacity)
                /\ heap \in Seq(Texts) /\ capacity \in Nat \ {0}
            BY <1>2, <1>3, <1>4
          <6>2. Slot(heap, capacity, plist[j][m].key) = j /\ Slot(heap, capacity, plist[i][n].key) = i
            BY <6>1, OneNode
          <6>3. i = j
            BY <5>1, <6>2 DEF Slot
          <6> QED BY <5>1, <6>1, <6>3 DEF ArrayOK
        <5> QED BY <3>3, <5>1 DEF text, node
      <4>2. Look(heap, plist2', c, heap[plist[j][m].key]) = Look(heap, plist2, c, heap[plist[j][m].key])
        BY <4>1, <3>1, <1>8
      <4>3. (j = i /\ m < n + 1) <=> (j = i /\ m < n)
        BY <3>1, <3>3, <1>2
      <4>4. IF j = i /\ m < n
              THEN /\ Look(heap, plist2, c, heap[plist[j][m].key]) = plist[j][m].value
                   /\ plist[j][m].key \in KeysOf(plist2)
              ELSE Look(heap, plist2, c, heap[plist[j][m].key]) = NoValue
        BY <1>1 DEF IInv, RehashInv, c
      <4> QED BY <4>2, <4>3, <4>4, <1>8
    <3> QED BY <3>2, <3>3
  <2>2. \A j \in 0..(i - 1) : plist[j] = << >>
    BY <1>1 DEF IInv, RehashInv
  <2> QED BY <2>1, <2>2, <1>1 DEF RehashInv, c
<1>13. KeysInv' /\ SymbolsInv'
  <2>1. Reading' => Reading
    BY <1>1 DEF Reading
  <2>2. KeysOf(plist') \cup KeysOf(plist2') = KeysOf(plist) \cup KeysOf(plist2)
    BY <1>1, <1>5, <1>8
  <2> QED BY <1>1, <2>1, <2>2, BooksStay
<1>14. Contents' = Contents
  <2>1. Look(heap, plist, capacity, text) = node.value
    BY <1>2, <1>3, <1>5, LookFinds DEF node
  <2>2. node.value # NoValue
    BY <1>5 DEF NoValue
  <2>3. ASSUME NEW t \in Texts
        PROVE  Held(heap', plist', plist2', capacity', pc', t)
                 = Held(heap, plist, plist2, capacity, pc, t)
    <3>1. CASE t = text
      BY <3>1, <2>1, <2>2, <1>1, <1>6, <1>8 DEF Held, c
    <3>2. CASE t # text
      BY <3>2, <1>1, <1>8 DEF Held, c
    <3> QED BY <3>1, <3>2
  <2> QED BY <2>3, SameContents
<1> QED BY <1>1, <1>9, <1>10, <1>11, <1>12, <1>13, <1>14 DEF IInv

LEMMA DropChainStep ==
  ASSUME IInv, DropChain, UNCHANGED <<lexeme, symbols, intern_counter>>
  PROVE  IInv' /\ Contents' = Contents /\ answer' = answer
<1> DEFINE c == 2 * capacity
<1>1. /\ pc = "rehash" /\ pc' = "rehash" /\ i < capacity /\ n > Len(plist[i])
      /\ plist' = Drop(plist, i) /\ i' = i + 1 /\ n' = 1
      /\ UNCHANGED <<heap, live, capacity, size, destroy_key, call, plist2, answer, crashed,
                     lexeme, symbols, intern_counter>>
  BY DEF DropChain, LiveAfterMove, Drop
<1>2. /\ heap \in Seq(Texts) /\ capacity \in Nat \ {0} /\ c \in Nat \ {0}
      /\ i \in 0..(capacity - 1) /\ n \in Nat \ {0}
  BY <1>1 DEF IInv, Scalars
<1>3. ArrayOK(heap, plist, capacity) /\ ArrayOK(heap, plist2, c)
  BY <1>1 DEF IInv, Arrays
<1>4. \A m \in DOMAIN plist[i] : m < n
  <2>1. plist[i] \in Seq(NodeIn(heap))
    BY <1>2, <1>3 DEF ArrayOK
  <2> QED BY <2>1, <1>1, <1>2, LenProperties
<1> HIDE DEF c
<1>5. /\ ArrayOK(heap, plist', capacity)
      /\ plist'[i] = << >> /\ \A j \in 0..(capacity - 1) : j # i => plist'[j] = plist[j]
      /\ KeysOf(plist) = KeysOf(plist') \cup {plist[i][m].key : m \in DOMAIN plist[i]}
      /\ \A t \in Texts : Look(heap, plist', capacity, t)
                            = IF Hash[t] % capacity = i THEN NoValue ELSE Look(heap, plist, capacity, t)
  BY <1>1, <1>2, <1>3, DropNodes
<1>6. \A m \in DOMAIN plist[i] :
        /\ Look(heap, plist2, c, heap[plist[i][m].key]) = plist[i][m].value
        /\ plist[i][m].key \in KeysOf(plist2)
  BY <1>1, <1>2, <1>4 DEF IInv, RehashInv, c
<1>7. Scalars'
  BY <1>1, <1>2 DEF IInv, Scalars
<1>8. Arrays'
  BY <1>1, <1>3, <1>5 DEF Arrays, c
<1>9. CallInv' /\ WalkInv'
  BY <1>1 DEF IInv, CallInv, WalkInv
<1>10. RehashInv'
  <2>1. \A j \in 0..i : plist'[j] = << >>
    <3>1. \A j \in 0..(i - 1) : plist[j] = << >>
      BY <1>1 DEF IInv, RehashInv
    <3> QED BY <3>1, <1>2, <1>5
  <2>2. ASSUME NEW j \in 0..(capacity - 1), NEW m \in DOMAIN plist'[j]
        PROVE  m \in Nat \ {0} /\ Look(heap, plist2, c, heap[plist'[j][m].key]) = NoValue
    <3>1. j # i
      BY <1>5
    <3>2. plist'[j] = plist[j]
      BY <3>1, <1>5
    <3>3. m \in Nat \ {0}
      BY <3>2, <1>2, <1>3, OneNode
    <3>4. Look(heap, plist2, c, heap[plist[j][m].key]) = NoValue
      BY <3>1, <3>2, <1>1 DEF IInv, RehashInv, c
    <3> QED BY <3>2, <3>3, <3>4
  <2>3. i' - 1 = i
    BY <1>1, <1>2
  <2> QED BY <2>1, <2>2, <2>3, <1>1 DEF RehashInv, c
<1>11. KeysInv' /\ SymbolsInv'
  <2>1. Reading' => Reading
    BY <1>1 DEF Reading
  <2>2. KeysOf(plist') \cup KeysOf(plist2') = KeysOf(plist) \cup KeysOf(plist2)
    BY <1>1, <1>5, <1>6
  <2> QED BY <1>1, <2>1, <2>2, BooksStay
<1>12. Contents' = Contents
  <2>1. ASSUME NEW t \in Texts
        PROVE  Held(heap', plist', plist2', capacity', pc', t)
                 = Held(heap, plist, plist2, capacity, pc, t)
    <3>1. CASE Look(heap, plist2, c, t) # NoValue \/ Hash[t] % capacity # i
      BY <3>1, <1>1, <1>5 DEF Held, c
    <3>2. CASE Look(heap, plist2, c, t) = NoValue /\ Hash[t] % capacity = i
      <4>1. ASSUME NEW m, Holds(heap, plist, capacity, t, m) PROVE FALSE
        <5>1. m \in DOMAIN plist[i] /\ heap[plist[i][m].key] = t
          BY <4>1, <3>2 DEF Holds
        <5>2. plist[i][m].value \in Nat
          BY <5>1, <1>2, <1>3, NodeFacts
        <5> QED BY <5>1, <5>2, <3>2, <1>6 DEF NoValue
      <4>2. Look(heap, plist, capacity, t) = NoValue
        BY <4>1, LookMisses
      <4> QED BY <3>2, <4>2, <1>1, <1>5 DEF Held, c
    <3> QED BY <3>1, <3>2
  <2> QED BY <2>1, SameContents
<1> QED BY <1>1, <1>7, <1>8, <1>9, <1>10, <1>11, <1>12 DEF IInv

LEMMA EndRehashStep ==
  ASSUME IInv, EndRehash, UNCHANGED <<lexeme, symbols, intern_counter>>
  PROVE  IInv' /\ Contents' = Contents /\ answer' = answer
<1> DEFINE c == 2 * capacity
<1>1. /\ pc = "rehash" /\ pc' = "walk" /\ i = capacity
      /\ plist' = plist2 /\ capacity' = c /\ plist2' = NoChains(0) /\ i' = 0 /\ n' = 1
      /\ UNCHANGED <<heap, live, size, destroy_key, call, answer, crashed,
                     lexeme, symbols, intern_counter>>
  BY DEF EndRehash, NewCapacity
<1>2. /\ heap \in Seq(Texts) /\ capacity \in Nat \ {0} /\ c \in Nat \ {0}
  BY <1>1 DEF IInv, Scalars
<1>3. ArrayOK(heap, plist, capacity) /\ ArrayOK(heap, plist2, c)
  BY <1>1 DEF IInv, Arrays
<1>4. \A j \in 0..(capacity - 1) : plist[j] = << >>
  BY <1>1 DEF IInv, RehashInv
<1> HIDE DEF c
<1>5. \A t \in Texts : Look(heap, plist, capacity, t) = NoValue
  <2> SUFFICES ASSUME NEW t \in Texts PROVE \A m : ~Holds(heap, plist, capacity, t, m)
    BY LookMisses
  <2>1. plist[Hash[t] % capacity] = << >>
    BY <1>2, <1>4, HashRange
  <2> QED BY <2>1 DEF Holds
<1>6. KeysOf(plist) = {} /\ KeysOf(plist2') = {}
  <2>1. DOMAIN plist = 0..(capacity - 1)
    BY <1>2, <1>3, NodeFacts
  <2> QED BY <2>1, <1>1, <1>4 DEF KeysOf, NoChains
<1>7. Scalars'
  BY <1>1, <1>2 DEF IInv, Scalars
<1>8. Arrays'
  BY <1>1, <1>3 DEF Arrays
<1>9. CallInv' /\ RehashInv' /\ WalkInv'
  BY <1>1 DEF IInv, CallInv, RehashInv, WalkInv
<1>10. KeysInv' /\ SymbolsInv'
  <2>1. Reading' => Reading
    BY <1>1 DEF Reading
  <2>2. KeysOf(plist') \cup KeysOf(plist2') = KeysOf(plist) \cup KeysOf(plist2)
    BY <1>1, <1>6
  <2> QED BY <1>1, <2>1, <2>2, BooksStay
<1>11. Contents' = Contents
  BY <1>1, <1>5, SameContents DEF Held, c
<1> QED BY <1>1, <1>7, <1>8, <1>9, <1>10, <1>11 DEF IInv

LEMMA ContentsPut ==
  ASSUME NEW t \in Texts, NEW v,
         \A u \in Texts : Held(heap', plist', plist2', capacity', pc', u)
                            = IF u = t THEN v ELSE Held(heap, plist, plist2, capacity, pc, u)
  PROVE  Contents' = [Contents EXCEPT ![t] = v]
BY ContentsIs

\* Where the walk along a chain looks.
LEMMA WalkFacts ==
  ASSUME IInv, pc \in {"walk", "copy"}
  PROVE  /\ heap \in Seq(Texts) /\ capacity \in Nat \ {0} /\ n \in Nat \ {0}
         /\ ArrayOK(heap, plist, capacity) /\ plist2 = NoChains(0) /\ KeysOf(plist2) = {}
         /\ call.key \in Buffers \cup Constants /\ call.value \in 0..(MaxSymbols + 1)
         /\ call.op \in {"query", "insert", "update"}
         /\ call.key \in DOMAIN heap /\ heap[call.key] \in Texts
         /\ Bucket(call.key, capacity) = Hash[heap[call.key]] % capacity
         /\ Hash[heap[call.key]] % capacity \in 0..(capacity - 1)
         /\ Chain = plist[Hash[heap[call.key]] % capacity]
<1>1. heap \in Seq(Texts) /\ capacity \in Nat \ {0} /\ n \in Nat \ {0}
  BY DEF IInv, Scalars
<1>2. ArrayOK(heap, plist, capacity) /\ plist2 = NoChains(0)
  BY DEF IInv, Arrays
<1>3. KeysOf(plist2) = {}
  BY <1>2 DEF KeysOf, NoChains
<1>4. /\ call.key \in Buffers \cup Constants /\ call.value \in 0..(MaxSymbols + 1)
      /\ call.op \in {"query", "insert", "update"}
  BY DEF IInv, CallInv
<1>5. call.key \in DOMAIN heap
  BY <1>4 DEF IInv, Scalars
<1>6. heap[call.key] \in Texts
  BY <1>1, <1>5
<1>7. Hash[heap[call.key]] % capacity \in 0..(capacity - 1)
  BY <1>1, <1>6, HashRange
<1> QED BY <1>1, <1>2, <1>3, <1>4, <1>5, <1>6, <1>7 DEF Chain, Bucket

LEMMA FoundStep ==
  ASSUME IInv, Found, UNCHANGED <<lexeme, symbols, intern_counter>>
  PROVE  IInv' /\ Abstract!Next
<1> DEFINE t == heap[call.key]
           b == Hash[t] % capacity
           node == [key |-> Chain[n].key, value |-> call.value]
<1>1. /\ pc = "walk" /\ n <= Len(Chain) /\ heap[Chain[n].key] = t
      /\ plist' = IF call.op = "update" THEN Put(plist, b, n, node) ELSE plist
      /\ answer' = plist'[b][n].value
      /\ pc' = IF destroy_key /\ call.op = "insert" THEN "copy" ELSE "ready"
      /\ UNCHANGED <<heap, live, capacity, size, destroy_key, call, i, n, plist2, crashed,
                     lexeme, symbols, intern_counter>>
  <2>1. pc = "walk" /\ Bucket(call.key, capacity) = b /\ Chain = plist[b]
    BY WalkFacts DEF Found
  <2> QED BY <2>1 DEF Found, Same, pch_equals, After, Put
<1>2. /\ heap \in Seq(Texts) /\ capacity \in Nat \ {0} /\ n \in Nat \ {0}
      /\ ArrayOK(heap, plist, capacity) /\ plist2 = NoChains(0) /\ KeysOf(plist2) = {}
      /\ call.value \in 0..(MaxSymbols + 1) /\ call.value \in Values
      /\ call.op \in {"query", "insert", "update"}
      /\ t \in Texts /\ b \in 0..(capacity - 1) /\ Chain = plist[b]
  BY <1>1, WalkFacts, MaxSymbolsAssumption DEF Values
<1>3. n \in DOMAIN plist[b]
  <2>1. plist[b] \in Seq(NodeIn(heap))
    BY <1>2 DEF ArrayOK
  <2>2. Len(plist[b]) \in Nat /\ DOMAIN plist[b] = 1..Len(plist[b])
    BY <2>1, LenProperties
  <2>3. n \in Nat \ {0} /\ n <= Len(plist[b])
    BY <1>1, <1>2
  <2> HIDE DEF b
  <2> QED BY <2>2, <2>3
<1>4. Holds(heap, plist, capacity, t, n)
  BY <1>1, <1>2, <1>3 DEF Holds
<1>5. /\ Look(heap, plist, capacity, t) = plist[b][n].value
      /\ Look(heap, plist, capacity, t) \in Values /\ Look(heap, plist, capacity, t) # NoValue
  BY <1>2, <1>4, LookFinds
<1>6. plist[b][n] \in NodeIn(heap) /\ plist[b][n].key \in KeysOf(plist)
  BY <1>2, <1>3, NodeFacts
<1>7. node \in NodeIn(heap) /\ heap[node.key] = t
  BY <1>1, <1>2, <1>6 DEF NodeIn
<1> HIDE DEF t, b, node
<1>8. call.op = "update" =>
        /\ ArrayOK(heap, plist', capacity)
        /\ plist'[b][n] = node
        /\ KeysOf(plist') = KeysOf(plist)
        /\ \A u \in Texts : Look(heap, plist', capacity, u)
                              = IF u = t THEN node.value ELSE Look(heap, plist, capacity, u)
  <2>1. heap[node.key] = heap[plist[b][n].key] /\ node.key = plist[b][n].key
    BY <1>1, <1>2, <1>7 DEF node
  <2>2. /\ ArrayOK(heap, Put(plist, b, n, node), capacity)
        /\ Put(plist, b, n, node)[b][n] = node
        /\ KeysOf(Put(plist, b, n, node)) = (KeysOf(plist) \ {plist[b][n].key}) \cup {node.key}
        /\ \A u \in Texts : Look(heap, Put(plist, b, n, node), capacity, u)
                              = IF u = heap[node.key] THEN node.value ELSE Look(heap, plist, capacity, u)
    BY <2>1, <1>2, <1>3, <1>7, SetNode
  <2> QED BY <2>1, <2>2, <1>1, <1>6, <1>7
<1>9. call.op = "update" => ~destroy_key
  BY <1>1 DEF IInv, CallInv
<1>10. answer' \in Values /\ (call.op # "update" => answer' = plist[b][n].value)
       /\ (call.op = "update" => answer' = call.value)
  BY <1>1, <1>2, <1>5, <1>8 DEF node
<1>11. Scalars'
  BY <1>1, <1>10 DEF IInv, Scalars
<1>12. Arrays'
  BY <1>1, <1>2, <1>8 DEF Arrays
<1>13. CallInv' /\ RehashInv'
  BY <1>1, <1>9 DEF IInv, CallInv, RehashInv
<1>14. WalkInv'
  BY <1>1, <1>4, <1>9 DEF WalkInv, t
<1>15. KeysInv'
  <2>1. KeysOf(plist') = KeysOf(plist)
    BY <1>1, <1>8
  <2>2. pc' = "copy" => Chain' = Chain
    BY <1>1 DEF Chain, Bucket
  <2>3. CASE destroy_key
    BY <2>1, <2>2, <2>3, <1>1, <1>2, <1>6 DEF IInv, KeysInv
  <2>4. CASE ~destroy_key
    BY <2>1, <2>4, <1>1, <1>2 DEF IInv, KeysInv
  <2> QED BY <2>3, <2>4
<1>16. SymbolsInv'
  <2>1. Reading' => Reading
    BY <1>1 DEF Reading
  <2> QED BY <2>1, <1>1, SymbolsStay
<1>17. Abstract!Next
  <2>1. \A u \in Texts : Held(heap, plist, plist2, capacity, pc, u) = Look(heap, plist, capacity, u)
    BY <1>1 DEF Held
  <2>2. \A u \in Texts : Held(heap', plist', plist2', capacity', pc', u) = Look(heap, plist', capacity, u)
    BY <1>1 DEF Held
  <2>3. Contents[t] = plist[b][n].value /\ Contents[t] # NoValue
    BY <2>1, <1>2, <1>5, ContentsIs
  <2>4. CASE call.op = "update"
    <3>1. ASSUME NEW u \in Texts
          PROVE  Held(heap', plist', plist2', capacity', pc', u)
                   = IF u = t THEN call.value ELSE Held(heap, plist, plist2, capacity, pc, u)
      <4>1. node.value = call.value
        BY DEF node
      <4> QED BY <4>1, <2>1, <2>2, <2>4, <1>8
    <3>2. Contents' = [Contents EXCEPT ![t] = call.value]
      BY <3>1, <1>2, ContentsPut
    <3> QED BY <3>2, <2>4, <1>2, <1>10 DEF Abstract!Next, Abstract!Update
  <2>5. CASE call.op # "update"
    <3>1. Contents' = Contents
      BY <2>1, <2>2, <2>5, <1>1, SameContents
    <3>2. Abstract!Query(t)
      BY <3>1, <2>3, <2>5, <1>10 DEF Abstract!Query
    <3> QED BY <3>2, <1>2 DEF Abstract!Next
  <2> QED BY <2>4, <2>5
<1> QED BY <1>11, <1>12, <1>13, <1>14, <1>15, <1>16, <1>17 DEF IInv

LEMMA MissStep ==
  ASSUME IInv, Miss, UNCHANGED <<lexeme, symbols, intern_counter>>
  PROVE  IInv' /\ Abstract!Next
<1> DEFINE t == heap[call.key]
           b == Hash[t] % capacity
           node == [key |-> call.key, value |-> call.value]
<1>1. /\ pc = "walk" /\ n > Len(Chain)
      /\ IF call.op = "query"
           THEN answer' = NoValue /\ plist' = plist /\ size' = size /\ n' = n
           ELSE /\ size' = size + 1 /\ plist' = Push(plist, b, node)
                /\ n' = 1 /\ answer' = call.value
      /\ pc' = IF destroy_key /\ call.op = "insert" THEN "copy" ELSE "ready"
      /\ UNCHANGED <<heap, live, capacity, destroy_key, call, i, plist2, crashed,
                     lexeme, symbols, intern_counter>>
  <2>1. pc = "walk" /\ Bucket(call.key, capacity) = b /\ Chain = plist[b]
    BY WalkFacts DEF Miss
  <2> QED BY <2>1 DEF Miss, After, Push
<1>2. /\ heap \in Seq(Texts) /\ capacity \in Nat \ {0} /\ n \in Nat \ {0}
      /\ ArrayOK(heap, plist, capacity) /\ plist2 = NoChains(0) /\ KeysOf(plist2) = {}
      /\ call.value \in 0..(MaxSymbols + 1) /\ call.value \in Values
      /\ call.key \in DOMAIN heap
      /\ call.op \in {"query", "insert", "update"}
      /\ t \in Texts /\ b \in 0..(capacity - 1) /\ Chain = plist[b]
  BY <1>1, WalkFacts, MaxSymbolsAssumption DEF Values
<1>3. \A m : ~Holds(heap, plist, capacity, t, m)
  <2> SUFFICES ASSUME NEW m, Holds(heap, plist, capacity, t, m) PROVE FALSE
    OBVIOUS
  <2>1. plist[b] \in Seq(NodeIn(heap)) /\ m \in DOMAIN plist[b]
    BY <1>2 DEF ArrayOK, Holds
  <2>2. m \in 1..(n - 1)
    BY <2>1, <1>1, <1>2, LenProperties
  <2> QED BY <2>2, <1>1 DEF IInv, WalkInv
<1>4. Look(heap, plist, capacity, t) = NoValue
  BY <1>3, LookMisses
<1>5. node \in NodeIn(heap) /\ heap[node.key] = t /\ b = Slot(heap, capacity, node.key)
  BY <1>2 DEF NodeIn, Slot
<1> HIDE DEF t, b, node
<1>6. call.op # "query" =>
        /\ ArrayOK(heap, plist', capacity)
        /\ plist'[b][1] = node /\ 1 \in DOMAIN plist'[b]
        /\ KeysOf(plist') = KeysOf(plist) \cup {call.key}
        /\ \A u \in Texts : Look(heap, plist', capacity, u)
                              = IF u = t THEN node.value ELSE Look(heap, plist, capacity, u)
  <2>1. \A m : ~Holds(heap, plist, capacity, heap[node.key], m)
    BY <1>3, <1>5
  <2>2. /\ ArrayOK(heap, Push(plist, b, node), capacity)
        /\ Push(plist, b, node)[b][1] = node /\ 1 \in DOMAIN Push(plist, b, node)[b]
        /\ KeysOf(Push(plist, b, node)) = KeysOf(plist) \cup {node.key}
        /\ \A u \in Texts : Look(heap, Push(plist, b, node), capacity, u)
                              = IF u = heap[node.key] THEN node.value ELSE Look(heap, plist, capacity, u)
    BY <2>1, <1>2, <1>5, PushNode
  <2>3. node.key = call.key
    BY DEF node
  <2> QED BY <2>2, <2>3, <1>1, <1>5
<1>7. call.op = "query" => ~destroy_key
  BY <1>1 DEF IInv, CallInv
<1>8. pc' = "copy" => destroy_key /\ call.op = "insert" /\ call.key = lexeme
  BY <1>1 DEF IInv, CallInv
<1>9. Scalars'
  BY <1>1, <1>2 DEF IInv, Scalars
<1>10. Arrays'
  BY <1>1, <1>2, <1>6 DEF Arrays
<1>11. CallInv' /\ RehashInv'
  BY <1>1 DEF IInv, CallInv, RehashInv
<1>12. WalkInv'
  <2>1. pc' = "copy" => Holds(heap, plist', capacity, t, 1)
    BY <1>5, <1>6, <1>8 DEF Holds, b
  <2> QED BY <2>1, <1>1, <1>8 DEF WalkInv, t
<1>13. KeysInv'
  <2>1. pc' = "copy" => Chain'[n'] = node
    BY <1>1, <1>6, <1>8 DEF Chain, Bucket, b, t
  <2>2. node.key = call.key
    BY DEF node
  <2>3. CASE destroy_key
    BY <2>1, <2>2, <2>3, <1>1, <1>2, <1>6, <1>7, <1>8 DEF IInv, KeysInv, CallInv
  <2>4. CASE ~destroy_key
    BY <2>4, <1>1, <1>2, <1>6 DEF IInv, KeysInv, CallInv
  <2> QED BY <2>3, <2>4
<1>14. SymbolsInv'
  <2>1. Reading' => Reading
    BY <1>1 DEF Reading
  <2> QED BY <2>1, <1>1, SymbolsStay
<1>15. Abstract!Next
  <2>1. \A u \in Texts : Held(heap, plist, plist2, capacity, pc, u) = Look(heap, plist, capacity, u)
    BY <1>1 DEF Held
  <2>2. \A u \in Texts : Held(heap', plist', plist2', capacity', pc', u) = Look(heap, plist', capacity, u)
    BY <1>1 DEF Held
  <2>3. Contents[t] = NoValue
    BY <2>1, <1>2, <1>4, ContentsIs
  <2>4. CASE call.op = "query"
    <3>1. Contents' = Contents
      BY <2>1, <2>2, <2>4, <1>1, SameContents
    <3>2. Abstract!Query(t)
      BY <3>1, <2>3, <2>4, <1>1 DEF Abstract!Query
    <3> QED BY <3>2, <1>2 DEF Abstract!Next
  <2>5. CASE call.op # "query"
    <3>1. ASSUME NEW u \in Texts
          PROVE  Held(heap', plist', plist2', capacity', pc', u)
                   = IF u = t THEN call.value ELSE Held(heap, plist, plist2, capacity, pc, u)
      <4>1. node.value = call.value
        BY DEF node
      <4> QED BY <4>1, <2>1, <2>2, <2>5, <1>6
    <3>2. Contents' = [Contents EXCEPT ![t] = call.value]
      BY <3>1, <1>2, ContentsPut
    <3>3. Abstract!Update(t, call.value)
      BY <3>2, <2>5, <1>1 DEF Abstract!Update
    <3> QED BY <3>3, <1>2 DEF Abstract!Next
  <2> QED BY <2>4, <2>5
<1> QED BY <1>9, <1>10, <1>11, <1>12, <1>13, <1>14, <1>15 DEF IInv

\* What copy_symbol finds when hmap_insert has returned a node.
LEMMA CopyFacts ==
  ASSUME IInv, pc = "copy"
  PROVE  LET b == Hash[heap[lexeme]] % capacity
         IN  /\ destroy_key /\ call.key = lexeme /\ lexeme \in DOMAIN heap /\ heap[lexeme] \in Texts
             /\ b \in 0..(capacity - 1) /\ n \in DOMAIN plist[b]
             /\ Bucket(lexeme, capacity) = b /\ Chain = plist[b]
             /\ heap[Chain[n].key] = heap[lexeme]
             /\ Chain[n] \in NodeIn(heap)
             /\ Look(heap, plist, capacity, heap[lexeme]) = Chain[n].value
             /\ KeysOf(plist) = live \cup {Chain[n].key} /\ Chain[n].key \in live \cup {lexeme}
             /\ lexeme \notin live
<1> DEFINE b == Hash[heap[lexeme]] % capacity
<1>1. destroy_key /\ call.key = lexeme
  BY DEF IInv, CallInv
<1>2. /\ heap \in Seq(Texts) /\ capacity \in Nat \ {0} /\ ArrayOK(heap, plist, capacity)
      /\ lexeme \in DOMAIN heap /\ heap[lexeme] \in Texts
      /\ Bucket(lexeme, capacity) = b /\ b \in 0..(capacity - 1) /\ Chain = plist[b]
  BY <1>1, WalkFacts
<1>3. Holds(heap, plist, capacity, heap[lexeme], n)
  BY <1>1 DEF IInv, WalkInv
<1>4. n \in DOMAIN plist[b] /\ heap[plist[b][n].key] = heap[lexeme]
  BY <1>3 DEF Holds
<1>5. plist[b][n] \in NodeIn(heap)
  BY <1>2, <1>4, NodeFacts
<1>6. Look(heap, plist, capacity, heap[lexeme]) = plist[b][n].value
  BY <1>2, <1>3, LookFinds
<1>7. /\ KeysOf(plist) = live \cup {Chain[n].key} /\ Chain[n].key \in live \cup {lexeme}
      /\ lexeme \notin live
  BY <1>1 DEF IInv, KeysInv, Scalars
<1> QED BY <1>1, <1>2, <1>4, <1>5, <1>6, <1>7

\* One more identifier, whose string is at address k.
LEMMA OneMoreSymbol ==
  ASSUME IInv, pc = "copy", pc' = "ready", destroy_key' = destroy_key,
         DOMAIN heap \subseteq DOMAIN heap', \A a \in DOMAIN heap : heap'[a] = heap[a],
         live \subseteq live', NEW k \in DOMAIN heap', k \notin Buffers, k \in live',
         heap'[k] = heap[lexeme],
         symbols' = Append(symbols, [lexeme |-> k, text |-> heap[lexeme]]),
         intern_counter' \in {intern_counter, intern_counter + 1},
         \A a \in DOMAIN symbols : symbols[a].text = heap[lexeme] => symbols[a].lexeme = k
  PROVE  SymbolsInv'
<1> DEFINE new == [lexeme |-> k, text |-> heap[lexeme]]
           S   == [lexeme : DOMAIN heap' \ Buffers, text : Texts]
<1>1. heap[lexeme] \in Texts /\ destroy_key
  BY CopyFacts
<1>2. symbols \in Seq(S)
  <2>1. [lexeme : DOMAIN heap \ Buffers, text : Texts] \subseteq S
    OBVIOUS
  <2> HIDE DEF S
  <2>2. symbols \in Seq([lexeme : DOMAIN heap \ Buffers, text : Texts])
    BY DEF IInv, SymbolsInv
  <2> QED BY <2>1, <2>2, SeqMonotonic
<1>3. new \in S
  BY <1>1
<1> HIDE DEF S
<1>4. /\ symbols' \in Seq(S) /\ Len(symbols) \in Nat /\ Len(symbols') = Len(symbols) + 1
      /\ DOMAIN symbols = 1..Len(symbols) /\ DOMAIN symbols' = 1..(Len(symbols) + 1)
      /\ symbols'[Len(symbols) + 1] = new
      /\ \A a \in 1..Len(symbols) : symbols'[a] = symbols[a]
  <2>1. symbols' = Append(symbols, new)
    OBVIOUS
  <2> HIDE DEF new
  <2> QED BY <2>1, <1>2, <1>3, AppendProperties, LenProperties
<1>5. Len(symbols) + 1 <= MaxSymbols /\ intern_counter <= Len(symbols)
  BY <1>1 DEF IInv, SymbolsInv, Reading
<1>6. Len(symbols') + (IF Reading' THEN 1 ELSE 0) <= MaxSymbols /\ intern_counter' <= Len(symbols')
  <2>1. ~Reading' /\ intern_counter \in Nat /\ MaxSymbols \in Nat
    BY MaxSymbolsAssumption DEF Reading, IInv, Scalars
  <2> QED BY <2>1, <1>4, <1>5
<1>7. ASSUME NEW a \in DOMAIN symbols
      PROVE  /\ heap'[symbols[a].lexeme] = symbols[a].text
             /\ symbols[a].lexeme \in live'
             /\ symbols[a].text = heap[lexeme] => symbols[a].lexeme = k
             /\ \A b \in DOMAIN symbols :
                  symbols[a].text = symbols[b].text => symbols[a].lexeme = symbols[b].lexeme
  <2>1. /\ heap[symbols[a].lexeme] = symbols[a].text /\ symbols[a].lexeme \in live
        /\ \A b \in DOMAIN symbols :
             symbols[a].text = symbols[b].text => symbols[a].lexeme = symbols[b].lexeme
    BY DEF IInv, SymbolsInv
  <2>2. heap'[symbols[a].lexeme] = heap[symbols[a].lexeme]
    BY SymbolFacts
  <2> QED BY <2>1, <2>2
<1> HIDE DEF new
<1>8. \A a \in DOMAIN symbols' : \/ a \in DOMAIN symbols /\ symbols'[a] = symbols[a]
                                 \/ symbols'[a] = new
  <2> SUFFICES ASSUME NEW a \in DOMAIN symbols', a # Len(symbols) + 1
               PROVE  a \in DOMAIN symbols /\ symbols'[a] = symbols[a]
    BY <1>4
  <2>1. a \in 1..(Len(symbols) + 1) /\ Len(symbols) \in Nat
    BY <1>4
  <2>2. a \in 1..Len(symbols)
    BY <2>1
  <2> QED BY <2>2, <1>4
<1>9. ASSUME NEW a \in DOMAIN symbols'
      PROVE  /\ heap'[symbols'[a].lexeme] = symbols'[a].text
             /\ symbols'[a].lexeme \in live'
             /\ \A b \in DOMAIN symbols' :
                  symbols'[a].text = symbols'[b].text => symbols'[a].lexeme = symbols'[b].lexeme
  <2>1. new.lexeme = k /\ new.text = heap[lexeme]
    BY DEF new
  <2>2. heap'[symbols'[a].lexeme] = symbols'[a].text /\ symbols'[a].lexeme \in live'
    BY <2>1, <1>7, <1>8
  <2>3. ASSUME NEW b \in DOMAIN symbols', symbols'[a].text = symbols'[b].text
        PROVE  symbols'[a].lexeme = symbols'[b].lexeme
    BY <2>1, <2>3, <1>7, <1>8
  <2> QED BY <2>2, <2>3
<1> QED BY <1>1, <1>4, <1>6, <1>9 DEF SymbolsInv, S

LEMMA ShareStep ==
  ASSUME IInv, Share
  PROVE  IInv' /\ Contents' = Contents /\ answer' = answer
<1> DEFINE key == Chain[n].key
<1>1. /\ pc = "copy" /\ pc' = "ready" /\ key # lexeme
      /\ symbols' = Append(symbols, [lexeme |-> key, text |-> heap[lexeme]])
      /\ UNCHANGED <<heap, live, plist, capacity, size, destroy_key, call, i, n, plist2, answer,
                     crashed, lexeme, intern_counter>>
  BY DEF Share, IsNew
<1>2. /\ heap \in Seq(Texts) /\ capacity \in Nat \ {0} /\ ArrayOK(heap, plist, capacity)
      /\ plist2 = NoChains(0) /\ KeysOf(plist2) = {}
  BY <1>1, WalkFacts
<1>3. /\ destroy_key /\ key \in live /\ heap[key] = heap[lexeme]
      /\ KeysOf(plist) = live /\ key \in DOMAIN heap
  <2>1. key \in DOMAIN heap
    BY <1>1, CopyFacts DEF NodeIn
  <2> QED BY <2>1, <1>1, CopyFacts
<1> HIDE DEF key
<1>4. Scalars'
  BY <1>1 DEF IInv, Scalars
<1>5. Arrays' /\ CallInv' /\ RehashInv' /\ WalkInv'
  BY <1>1, <1>2 DEF IInv, Arrays, CallInv, RehashInv, WalkInv
<1>6. KeysInv'
  BY <1>1, <1>2, <1>3 DEF IInv, KeysInv
<1>7. SymbolsInv'
  <2>1. key \notin Buffers
    BY <1>3 DEF IInv, KeysInv
  <2>2. ASSUME NEW a \in DOMAIN symbols, symbols[a].text = heap[lexeme]
        PROVE  symbols[a].lexeme = key
    <3>1. symbols[a].lexeme \in live /\ heap[symbols[a].lexeme] = heap[key]
      BY <2>2, <1>1, <1>3 DEF IInv, SymbolsInv
    <3> QED BY <3>1, <1>2, <1>3, OneKey
  <2> QED BY <2>1, <2>2, <1>1, <1>3, OneMoreSymbol
<1>8. Contents' = Contents
  BY <1>1, SameContents DEF Held
<1> QED BY <1>1, <1>4, <1>5, <1>6, <1>7, <1>8 DEF IInv

LEMMA CopyNewStep ==
  ASSUME IInv, CopyNew
  PROVE  IInv' /\ Contents' = Contents /\ answer' = answer
<1> DEFINE new  == Len(heap) + 1
           t    == heap[lexeme]
           b    == Hash[t] % capacity
           node == [key |-> new, value |-> Chain[n].value]
<1>1. /\ pc = "copy" /\ pc' = "ready" /\ Chain[n].key = lexeme
      /\ heap' = Append(heap, t) /\ live' = live \cup {new}
      /\ plist' = Put(plist, b, n, node)
      /\ symbols' = Append(symbols, [lexeme |-> new, text |-> t])
      /\ intern_counter' = intern_counter + 1
      /\ UNCHANGED <<capacity, size, destroy_key, call, i, n, plist2, answer, crashed, lexeme>>
  BY CopyFacts DEF CopyNew, IsNew, Rekeyed, Put
<1>2. /\ heap \in Seq(Texts) /\ capacity \in Nat \ {0} /\ ArrayOK(heap, plist, capacity)
      /\ plist2 = NoChains(0) /\ KeysOf(plist2) = {}
      /\ b \in 0..(capacity - 1) /\ n \in DOMAIN plist[b] /\ Chain = plist[b]
  BY <1>1, WalkFacts, CopyFacts
<1>3. /\ destroy_key /\ t \in Texts /\ lexeme \in DOMAIN heap
      /\ KeysOf(plist) = live \cup {lexeme} /\ lexeme \notin live
      /\ plist[b][n] \in NodeIn(heap) /\ plist[b][n].key = lexeme
      /\ Look(heap, plist, capacity, t) = plist[b][n].value
  BY <1>1, <1>2, CopyFacts
<1>4. /\ heap' \in Seq(Texts) /\ DOMAIN heap' = DOMAIN heap \cup {new} /\ new \notin DOMAIN heap
      /\ heap'[new] = t /\ \A a \in DOMAIN heap : heap'[a] = heap[a]
  <2>1. Len(heap) \in Nat /\ DOMAIN heap = 1..Len(heap)
    BY <1>2, LenProperties
  <2> HIDE DEF t
  <2>2. /\ Append(heap, t) \in Seq(Texts) /\ Len(Append(heap, t)) = Len(heap) + 1
        /\ Append(heap, t)[Len(heap) + 1] = t
        /\ \A a \in 1..Len(heap) : Append(heap, t)[a] = heap[a]
    BY <1>2, <1>3, AppendProperties
  <2>3. DOMAIN heap' = 1..(Len(heap) + 1)
    BY <2>1, <2>2, <1>1, LenProperties
  <2> QED BY <2>1, <2>2, <2>3, <1>1
<1>5. node \in NodeIn(heap') /\ node.key = new /\ node.value = plist[b][n].value
  BY <1>2, <1>3, <1>4 DEF NodeIn
<1> HIDE DEF new, t, b, node
<1>6. /\ ArrayOK(heap', plist', capacity)
      /\ KeysOf(plist') = (KeysOf(plist) \ {lexeme}) \cup {new}
      /\ \A u \in Texts : Look(heap', plist', capacity, u)
                            = IF u = t THEN node.value ELSE Look(heap, plist, capacity, u)
  <2>1. heap'[node.key] = heap[plist[b][n].key] /\ heap'[node.key] = t
    BY <1>3, <1>4, <1>5 DEF t
  <2>2. heap' \in Seq(Texts) /\ DOMAIN heap \subseteq DOMAIN heap' /\ \A a \in DOMAIN heap : heap'[a] = heap[a]
    BY <1>4
  <2>3. /\ ArrayOK(heap', Put(plist, b, n, node), capacity)
        /\ KeysOf(Put(plist, b, n, node)) = (KeysOf(plist) \ {plist[b][n].key}) \cup {node.key}
        /\ \A u \in Texts : Look(heap', Put(plist, b, n, node), capacity, u)
                              = IF u = heap'[node.key] THEN node.value ELSE Look(heap, plist, capacity, u)
    <3> SUFFICES ASSUME NEW g, g = heap'
                 PROVE  /\ ArrayOK(g, Put(plist, b, n, node), capacity)
                        /\ KeysOf(Put(plist, b, n, node)) = (KeysOf(plist) \ {plist[b][n].key}) \cup {node.key}
                        /\ \A u \in Texts : Look(g, Put(plist, b, n, node), capacity, u)
                             = IF u = g[node.key] THEN node.value ELSE Look(heap, plist, capacity, u)
      OBVIOUS
    <3>1. /\ g \in Seq(Texts) /\ DOMAIN heap \subseteq DOMAIN g /\ \A a \in DOMAIN heap : g[a] = heap[a]
          /\ node \in NodeIn(g) /\ g[node.key] = heap[plist[b][n].key]
      BY <2>1, <2>2, <1>5
    <3> QED BY <3>1, <1>2, SetNode
  <2> QED BY <2>1, <2>3, <1>1, <1>3, <1>5
<1>7. Scalars'
  BY <1>1, <1>4 DEF IInv, Scalars
<1>8. Arrays'
  BY <1>1, <1>2, <1>6 DEF Arrays
<1>9. CallInv' /\ RehashInv' /\ WalkInv'
  BY <1>1 DEF IInv, CallInv, RehashInv, WalkInv
<1>10. new \notin Buffers
  BY <1>4 DEF IInv, Scalars
<1>11. KeysInv'
  BY <1>1, <1>2, <1>3, <1>6, <1>10 DEF IInv, KeysInv
<1>12. SymbolsInv'
  <2>1. ASSUME NEW a \in DOMAIN symbols, symbols[a].text = heap[lexeme]
        PROVE  symbols[a].lexeme = new
    <3>1. symbols[a].lexeme \in live /\ heap[symbols[a].lexeme] = heap[lexeme]
      BY <2>1, <1>1 DEF IInv, SymbolsInv
    <3>2. symbols[a].lexeme \in KeysOf(plist) /\ lexeme \in KeysOf(plist)
      BY <3>1, <1>3
    <3>3. symbols[a].lexeme = lexeme
      BY <3>1, <3>2, <1>2, OneKey
    <3> QED BY <3>1, <3>3, <1>3
  <2>2. symbols' = Append(symbols, [lexeme |-> new, text |-> heap[lexeme]]) /\ heap'[new] = heap[lexeme]
    BY <1>1, <1>4 DEF t
  <2> QED BY <2>1, <2>2, <1>1, <1>4, <1>10, OneMoreSymbol
<1>13. Contents' = Contents
  <2>1. \A u \in Texts : Look(heap', plist', capacity, u) = Look(heap, plist, capacity, u)
    BY <1>3, <1>5, <1>6
  <2> QED BY <2>1, <1>1, SameContents DEF Held
<1> QED BY <1>1, <1>7, <1>8, <1>9, <1>11, <1>12, <1>13 DEF IInv

\* From here on nobody asks the map anything.
LEMMA ClearStep ==
  ASSUME IInv, hmap_clear, UNCHANGED <<lexeme, symbols, intern_counter>>
  PROVE  IInv' /\ Abstract!Next
<1>1. /\ pc = "ready" /\ pc' = "clear" /\ i' = 0 /\ n' = 1
      /\ UNCHANGED <<heap, live, plist, capacity, size, destroy_key, call, plist2, answer, crashed,
                     lexeme, symbols, intern_counter>>
  BY DEF hmap_clear
<1>2. /\ heap \in Seq(Texts) /\ capacity \in Nat \ {0}
      /\ ArrayOK(heap, plist, capacity) /\ plist2 = NoChains(0) /\ KeysOf(plist2) = {}
  BY <1>1 DEF IInv, Scalars, Arrays, KeysOf, NoChains
<1>3. Scalars'
  BY <1>1, <1>2 DEF IInv, Scalars
<1>4. Arrays' /\ CallInv' /\ RehashInv' /\ WalkInv'
  BY <1>1, <1>2 DEF IInv, Arrays, CallInv, RehashInv, WalkInv
<1>5. KeysInv'
  <2>1. Unfreed' = KeysOf(plist)
    <3>1. ASSUME NEW k \in KeysOf(plist) PROVE k \in Unfreed'
      <4>1. PICK j \in 0..(capacity - 1) : \E m \in DOMAIN plist[j] : plist[j][m].key = k
        BY <1>2, KeyHasNode
      <4>2. PICK m \in DOMAIN plist[j] : plist[j][m].key = k
        BY <4>1
      <4>3. m \in Nat \ {0}
        BY <1>2, OneNode
      <4>4. m >= 1
        BY <4>3
      <4> QED BY <4>2, <4>4, <1>1 DEF Unfreed
    <3>2. Unfreed' \subseteq KeysOf(plist')
      BY DEF Unfreed
    <3> QED BY <3>1, <3>2, <1>1
  <2>2. CASE destroy_key
    <3>1. live' = Unfreed' /\ live' \cap Buffers = {} /\ ~crashed'
      BY <2>1, <2>2, <1>1, <1>2 DEF IInv, KeysInv
    <3>2. \A j \in 0..(i' - 1) : FALSE
      BY <1>1
    <3> QED BY <3>1, <3>2, <2>2, <1>1 DEF KeysInv
  <2>3. CASE ~destroy_key
    BY <2>3, <1>1, <1>2 DEF IInv, KeysInv
  <2> QED BY <2>2, <2>3
<1>6. SymbolsInv'
  <2>1. Reading' => Reading
    BY <1>1 DEF Reading
  <2> QED BY <2>1, <1>1, SymbolsStay
<1>7. Abstract!Next
  <2>1. Contents' = [t \in Texts |-> NoValue]
    BY <1>1, ContentsIs DEF Held
  <2> QED BY <2>1, <1>1 DEF Abstract!Next, Abstract!Clear, Abstract!Nothing
<1> QED BY <1>3, <1>4, <1>5, <1>6, <1>7 DEF IInv

\* Within hmap_clear nothing is held any more.
LEMMA NothingHeld ==
  ASSUME pc \in {"clear", "done"}, pc' \in {"clear", "done"}
  PROVE  Contents' = Contents
BY SameContents DEF Held

LEMMA FreeNodeStep ==
  ASSUME IInv, FreeNode, UNCHANGED <<lexeme, symbols, intern_counter>>
  PROVE  IInv' /\ Contents' = Contents /\ answer' = answer
<1> DEFINE key == plist[i][n].key
<1>1. /\ pc = "clear" /\ pc' = "clear" /\ i < capacity /\ n <= Len(plist[i]) /\ n' = n + 1
      /\ live' = (IF destroy_key THEN live \ {key} ELSE live)
      /\ crashed' = (crashed \/ (destroy_key /\ key \notin live))
      /\ UNCHANGED <<heap, plist, capacity, size, destroy_key, call, i, plist2, answer,
                     lexeme, symbols, intern_counter>>
  BY DEF FreeNode
<1>2. /\ heap \in Seq(Texts) /\ capacity \in Nat \ {0} /\ i \in 0..(capacity - 1) /\ n \in Nat \ {0}
      /\ ArrayOK(heap, plist, capacity) /\ plist2 = NoChains(0)
  BY <1>1 DEF IInv, Scalars, Arrays
<1>3. n \in DOMAIN plist[i]
  <2>1. plist[i] \in Seq(NodeIn(heap))
    BY <1>2 DEF ArrayOK
  <2> QED BY <2>1, <1>1, <1>2, LenProperties
<1>4. key \in Unfreed
  BY <1>2, <1>3, NodeFacts DEF Unfreed
<1>5. Unfreed' = Unfreed \ {key}
  <2>1. ASSUME NEW k \in Unfreed, k # key PROVE k \in Unfreed'
    <3>1. PICK j \in 0..(capacity - 1) :
            \E m \in DOMAIN plist[j] : plist[j][m].key = k /\ (j = i => m >= n)
      BY <2>1 DEF Unfreed
    <3>2. PICK m \in DOMAIN plist[j] : plist[j][m].key = k /\ (j = i => m >= n)
      BY <3>1
    <3>3. j = i => m # n
      BY <2>1, <3>2
    <3>4. m \in Nat \ {0}
      BY <1>2, NodeFacts
    <3>5. j = i => m >= n + 1
      BY <3>2, <3>3, <3>4, <1>2
    <3> QED BY <2>1, <3>2, <3>5, <1>1 DEF Unfreed
  <2>2. ASSUME NEW k \in Unfreed' PROVE k \in Unfreed /\ k # key
    <3>1. PICK j \in 0..(capacity - 1) :
            \E m \in DOMAIN plist[j] : plist[j][m].key = k /\ (j = i => m >= n + 1)
      BY <2>2, <1>1 DEF Unfreed
    <3>2. PICK m \in DOMAIN plist[j] : plist[j][m].key = k /\ (j = i => m >= n + 1)
      BY <3>1
    <3>3. k \in KeysOf(plist) /\ m \in Nat \ {0}
      BY <3>2, <1>2, NodeFacts
    <3>4. j = i => m >= n /\ m # n
      BY <3>2, <3>3, <1>2
    <3>5. k \in Unfreed
      BY <3>2, <3>3, <3>4 DEF Unfreed
    <3>6. ASSUME k = key PROVE FALSE
      <4>1. heap[plist[j][m].key] = heap[plist[i][n].key]
        BY <3>2, <3>6
      <4>2. j = i /\ m = n
        BY <4>1, <1>2, <1>3, KeyUnique
      <4> QED BY <4>2, <3>4
    <3> QED BY <3>5, <3>6
  <2> QED BY <2>1, <2>2
<1> HIDE DEF key
<1>6. Scalars'
  BY <1>1, <1>2 DEF IInv, Scalars
<1>7. Arrays' /\ CallInv' /\ RehashInv' /\ WalkInv'
  BY <1>1, <1>2 DEF IInv, Arrays, CallInv, RehashInv, WalkInv
<1>8. KeysInv'
  <2>1. CASE destroy_key
    BY <2>1, <1>1, <1>4, <1>5 DEF IInv, KeysInv
  <2>2. CASE ~destroy_key
    BY <2>2, <1>1 DEF IInv, KeysInv
  <2> QED BY <2>1, <2>2
<1>9. SymbolsInv'
  <2>1. Reading' => Reading
    BY <1>1 DEF Reading
  <2> QED BY <2>1, <1>1, SymbolsStay
<1>10. Contents' = Contents
  BY <1>1, NothingHeld
<1> QED BY <1>1, <1>6, <1>7, <1>8, <1>9, <1>10 DEF IInv

LEMMA FreeChainStep ==
  ASSUME IInv, FreeChain, UNCHANGED <<lexeme, symbols, intern_counter>>
  PROVE  IInv' /\ Contents' = Contents /\ answer' = answer
<1>1. /\ pc = "clear" /\ pc' = "clear" /\ i < capacity /\ n > Len(plist[i])
      /\ plist' = Drop(plist, i) /\ i' = i + 1 /\ n' = 1
      /\ UNCHANGED <<heap, live, capacity, size, destroy_key, call, plist2, answer, crashed,
                     lexeme, symbols, intern_counter>>
  BY DEF FreeChain, Drop
<1>2. /\ heap \in Seq(Texts) /\ capacity \in Nat \ {0} /\ i \in 0..(capacity - 1) /\ n \in Nat \ {0}
      /\ ArrayOK(heap, plist, capacity) /\ plist2 = NoChains(0)
  BY <1>1 DEF IInv, Scalars, Arrays
<1>3. \A m \in DOMAIN plist[i] : ~(m >= n)
  <2>1. plist[i] \in Seq(NodeIn(heap))
    BY <1>2 DEF ArrayOK
  <2> QED BY <2>1, <1>1, <1>2, LenProperties
<1>4. /\ ArrayOK(heap, plist', capacity)
      /\ plist'[i] = << >> /\ \A j \in 0..(capacity - 1) : j # i => plist'[j] = plist[j]
      /\ KeysOf(plist') \subseteq KeysOf(plist)
  <2>1. /\ ArrayOK(heap, Drop(plist, i), capacity)
        /\ Drop(plist, i)[i] = << >>
        /\ \A j \in 0..(capacity - 1) : j # i => Drop(plist, i)[j] = plist[j]
        /\ KeysOf(plist) = KeysOf(Drop(plist, i)) \cup {plist[i][m].key : m \in DOMAIN plist[i]}
    BY <1>2, DropNodes
  <2> QED BY <2>1, <1>1
<1>5. (\A j \in 0..(i - 1) : plist[j] = << >>) =>
         /\ \A j \in 0..(i' - 1) : plist'[j] = << >>
         /\ Unfreed' = Unfreed
  <2> HAVE \A j \in 0..(i - 1) : plist[j] = << >>
  <2>1. \A j \in 0..(i' - 1) : plist'[j] = << >>
    BY <1>1, <1>2, <1>4
  <2>2. ASSUME NEW k \in Unfreed PROVE k \in Unfreed'
    <3>1. PICK j \in 0..(capacity - 1) :
            \E m \in DOMAIN plist[j] : plist[j][m].key = k /\ (j = i => m >= n)
      BY DEF Unfreed
    <3>2. PICK m \in DOMAIN plist[j] : plist[j][m].key = k /\ (j = i => m >= n)
      BY <3>1
    <3>3. j # i /\ plist'[j] = plist[j]
      BY <3>2, <1>3, <1>4
    <3>4. k \in KeysOf(plist') /\ m \in Nat \ {0}
      BY <3>2, <3>3, <1>2, <1>4, NodeFacts
    <3>5. m >= 1
      BY <3>4
    <3> QED BY <3>2, <3>3, <3>4, <3>5, <1>1 DEF Unfreed
  <2>3. ASSUME NEW k \in Unfreed' PROVE k \in Unfreed
    <3>1. PICK j \in 0..(capacity - 1) : \E m \in DOMAIN plist'[j] : plist'[j][m].key = k
      BY <1>1 DEF Unfreed
    <3>2. PICK m \in DOMAIN plist'[j] : plist'[j][m].key = k
      BY <3>1
    <3>3. j # i
      BY <1>4
    <3>4. plist'[j] = plist[j]
      BY <3>3, <1>4
    <3>5. k \in KeysOf(plist)
      BY <3>2, <3>4, <1>2, NodeFacts
    <3> QED BY <3>2, <3>3, <3>4, <3>5 DEF Unfreed
  <2> QED BY <2>1, <2>2, <2>3
<1>6. Scalars'
  BY <1>1, <1>2 DEF IInv, Scalars
<1>7. Arrays' /\ CallInv' /\ RehashInv' /\ WalkInv'
  BY <1>1, <1>2, <1>4 DEF IInv, Arrays, CallInv, RehashInv, WalkInv
<1>8. KeysInv'
  <2>1. CASE destroy_key
    BY <2>1, <1>1, <1>5 DEF IInv, KeysInv
  <2>2. CASE ~destroy_key
    BY <2>2, <1>1, <1>4 DEF IInv, KeysInv
  <2> QED BY <2>1, <2>2
<1>9. SymbolsInv'
  <2>1. Reading' => Reading
    BY <1>1 DEF Reading
  <2> QED BY <2>1, <1>1, SymbolsStay
<1>10. Contents' = Contents
  BY <1>1, NothingHeld
<1> QED BY <1>1, <1>6, <1>7, <1>8, <1>9, <1>10 DEF IInv

LEMMA EndClearStep ==
  ASSUME IInv, EndClear, UNCHANGED <<lexeme, symbols, intern_counter>>
  PROVE  IInv' /\ Contents' = Contents /\ answer' = answer
<1>1. /\ pc = "clear" /\ pc' = "done" /\ i = capacity /\ plist' = NoChains(0) /\ size' = 0
      /\ UNCHANGED <<heap, live, capacity, destroy_key, call, i, n, plist2, answer, crashed,
                     lexeme, symbols, intern_counter>>
  BY DEF EndClear
<1>2. plist2 = NoChains(0) /\ KeysOf(NoChains(0)) = {} /\ capacity \in Nat \ {0}
  BY <1>1 DEF IInv, Arrays, Scalars, KeysOf, NoChains
<1>3. Scalars'
  BY <1>1 DEF IInv, Scalars
<1>4. Arrays' /\ CallInv' /\ RehashInv' /\ WalkInv'
  BY <1>1, <1>2 DEF IInv, Arrays, CallInv, RehashInv, WalkInv
<1>5. KeysInv'
  <2>1. CASE destroy_key
    <3>1. (\A j \in 0..(capacity - 1) : plist[j] = << >>) /\ live = Unfreed
      BY <2>1, <1>1 DEF IInv, KeysInv
    <3>2. Unfreed = {}
      BY <3>1 DEF Unfreed
    <3> QED BY <2>1, <3>1, <3>2, <1>1 DEF IInv, KeysInv
  <2>2. CASE ~destroy_key
    BY <2>2, <1>1, <1>2 DEF IInv, KeysInv
  <2> QED BY <2>1, <2>2
<1>6. SymbolsInv'
  <2>1. Reading' => Reading
    BY <1>1 DEF Reading
  <2> QED BY <2>1, <1>1, SymbolsStay
<1>7. Contents' = Contents
  BY <1>1, NothingHeld
<1> QED BY <1>1, <1>3, <1>4, <1>5, <1>6, <1>7 DEF IInv

LEMMA StutterStep ==
  ASSUME IInv, UNCHANGED vars
  PROVE  IInv' /\ Contents' = Contents /\ answer' = answer
<1>1. UNCHANGED <<heap, live, plist, capacity, size, destroy_key, pc, call, i, n, plist2, answer,
                  crashed, lexeme, symbols, intern_counter>>
  BY DEF vars, mapvars
<1>2. Scalars' /\ Arrays' /\ CallInv' /\ RehashInv' /\ WalkInv'
  BY <1>1 DEF IInv, Scalars, Arrays, CallInv, RehashInv, WalkInv
<1>3. KeysInv'
  BY SMTT(30), <1>1 DEF IInv, KeysInv, Chain, Bucket, Unfreed
<1>4. SymbolsInv'
  BY <1>1 DEF IInv, SymbolsInv, Reading
<1>5. Contents' = Contents
  BY <1>1, SameContents
<1> QED BY <1>1, <1>2, <1>3, <1>4, <1>5 DEF IInv

-----------------------------------------------------------------------------
(* The initial states, all steps, and the theorems. *)

LEMMA InitInv == Init => IInv /\ Contents = [t \in Texts |-> NoValue] /\ answer = NoValue
<1> SUFFICES ASSUME Init PROVE IInv /\ Contents = [t \in Texts |-> NoValue] /\ answer = NoValue
  OBVIOUS
<1>1. /\ heap = <<Empty, Empty>> \o Literals /\ live = {}
      /\ plist = NoChains(Capacity) /\ capacity = Capacity /\ size = 0 /\ destroy_key \in BOOLEAN
      /\ pc = "ready" /\ call = NoCall /\ i = 0 /\ n = 1 /\ plist2 = NoChains(0)
      /\ answer = NoValue /\ crashed = FALSE
      /\ lexeme = 2 /\ symbols = << >> /\ intern_counter = 0
  BY DEF Init, MapInit
<1>2. heap \in Seq(Texts) /\ Buffers \cup Constants \subseteq DOMAIN heap
  <2>1. <<Empty, Empty>> \in Seq(Texts) /\ Len(<<Empty, Empty>>) = 2
    BY TextsAssumption
  <2>2. Literals \in Seq(Texts) /\ Len(Literals) \in Nat
    BY TextsAssumption, LenProperties
  <2>3. heap \in Seq(Texts) /\ Len(heap) = 2 + Len(Literals)
    BY <2>1, <2>2, <1>1, ConcatProperties
  <2>4. DOMAIN heap = 1..(2 + Len(Literals))
    BY <2>3, LenProperties
  <2> QED BY <2>2, <2>3, <2>4 DEF Buffers, Constants
<1>3. /\ ArrayOK(heap, plist, capacity) /\ KeysOf(plist) = {}
      /\ \A t \in Texts : Look(heap, plist, capacity, t) = NoValue
  BY <1>1, <1>2, CapacityAssumption, NoNodes
<1>4. KeysOf(plist2) = {}
  BY <1>1 DEF KeysOf, NoChains
<1>5. Scalars
  <2>1. /\ capacity \in Nat \ {0} /\ size \in Nat /\ i \in 0..capacity /\ n \in Nat \ {0}
        /\ lexeme \in Buffers /\ intern_counter \in Nat
    BY <1>1, CapacityAssumption DEF Buffers
  <2>2. /\ live \subseteq DOMAIN heap /\ answer \in Values \cup {NoValue}
        /\ destroy_key \in BOOLEAN /\ crashed \in BOOLEAN
        /\ pc \in {"ready", "token", "load", "rehash", "walk", "copy", "clear", "done"}
    BY <1>1
  <2> QED BY <2>1, <2>2, <1>2 DEF Scalars
<1>6. Arrays /\ RehashInv /\ WalkInv
  BY <1>1, <1>3 DEF Arrays, RehashInv, WalkInv
<1>7. CallInv
  <2>1. NoCall \in [op : {"none", "query", "insert", "update"}, key : Buffers \cup Constants,
                    value : 0..(MaxSymbols + 1)]
    BY MaxSymbolsAssumption DEF NoCall, Buffers
  <2> QED BY <2>1, <1>1 DEF CallInv
<1>8. KeysInv
  BY <1>1, <1>3, <1>4 DEF KeysInv
<1>9. SymbolsInv
  <2>1. symbols \in Seq([lexeme : DOMAIN heap \ Buffers, text : Texts])
        /\ Len(symbols) = 0 /\ DOMAIN symbols = {}
    BY <1>1, EmptySeq
  <2> QED BY <2>1, <1>1, MaxSymbolsAssumption DEF SymbolsInv, Reading
<1>10. Contents = [t \in Texts |-> NoValue]
  BY <1>1, <1>3, ContentsIs DEF Held
<1> QED BY <1>1, <1>5, <1>6, <1>7, <1>8, <1>9, <1>10 DEF IInv

LEMMA NextStep ==
  ASSUME IInv, [Next]_vars
  PROVE  IInv' /\ [Abstract!Next]_<<Contents, answer>>
<1> DEFINE Kept    == IInv' /\ Contents' = Contents /\ answer' = answer
           Goal    == IInv' /\ [Abstract!Next]_<<Contents, answer>>
           Others  == UNCHANGED <<lexeme, symbols, intern_counter>>
<1>1. Kept => Goal
  OBVIOUS
<1>2. ASSUME NEW text \in Texts \ {Empty}, get_token(text) PROVE Kept
  BY <1>2, TokenStep
<1>3. CASE copy_symbol
  <2>1. /\ pc = "token" /\ Begin("load", "insert", lexeme, intern_counter)
        /\ UNCHANGED <<lexeme, symbols, intern_counter>>
    BY <1>3 DEF copy_symbol, hmap_insert
  <2>2. lexeme \in Buffers \cup Constants /\ intern_counter \in Nat
    BY DEF IInv, Scalars
  <2>3. intern_counter \in 0..(MaxSymbols + 1)
    <3>1. Len(symbols) + (IF Reading THEN 1 ELSE 0) <= MaxSymbols /\ intern_counter <= Len(symbols)
      BY DEF IInv, SymbolsInv
    <3> QED BY <3>1, <2>2, SymbolFacts, MaxSymbolsAssumption
  <2> QED BY <2>1, <2>2, <2>3, <1>1, BeginStep
<1>4. CASE CopyNew
  BY <1>1, <1>4, CopyNewStep
<1>5. CASE Share
  BY <1>1, <1>5, ShareStep
<1>6. CASE Step /\ Others
  BY <1>1, <1>6, CheckLoadStep, MoveNodeStep, DropChainStep, EndRehashStep, WalkStep, FoundStep,
     MissStep, FreeNodeStep, FreeChainStep, EndClearStep DEF Step
<1>7. CASE hmap_clear /\ Others
  BY <1>7, ClearStep
<1>8. CASE ~destroy_key /\ TableOp /\ Others
  <2>1. 0 \in 0..(MaxSymbols + 1) /\ {0, 1} \subseteq 0..(MaxSymbols + 1)
    BY MaxSymbolsAssumption
  <2>2. ASSUME NEW k \in Constants, NEW v \in {0, 1}, hmap_insert(k, v) PROVE Kept
    <3>1. Begin("load", "insert", k, v) /\ pc = "ready"
      BY <2>2, <1>8 DEF hmap_insert, TableOp
    <3> QED BY <3>1, <2>1, <1>8, BeginStep
  <2>3. ASSUME NEW k \in Constants, NEW v \in {0, 1}, hmap_update(k, v) PROVE Kept
    <3>1. Begin("load", "update", k, v) /\ pc = "ready"
      BY <2>3, <1>8 DEF hmap_update, TableOp
    <3> QED BY <3>1, <2>1, <1>8, BeginStep
  <2>4. ASSUME NEW k \in Buffers \cup Constants, hmap_query(k) PROVE Kept
    <3>1. Begin("walk", "query", k, 0) /\ pc = "ready"
      BY <2>4, <1>8 DEF hmap_query, TableOp
    <3> QED BY <3>1, <2>1, <1>8, BeginStep
  <2> QED BY <2>2, <2>3, <2>4, <1>1, <1>8 DEF TableOp
<1>9. CASE UNCHANGED vars
  BY <1>1, <1>9, StutterStep
<1> QED BY <1>1, <1>2, <1>3, <1>4, <1>5, <1>6, <1>7, <1>8, <1>9 DEF Next, Done

\* The invariant holds through every operation, rehashing and replacement of keys.
THEOREM InvariantHolds == Spec => []IInv
<1>1. Init => IInv
  BY InitInv
<1>2. IInv /\ [Next]_vars => IInv'
  BY NextStep
<1> QED BY <1>1, <1>2, PTL DEF Spec

\* Every variable of the intern table, of any table, has its type.
THEOREM TypeCorrect == Spec => []TypeOK
<1>1. IInv => TypeOK
  <2> SUFFICES ASSUME IInv PROVE TypeOK
    OBVIOUS
  <2>1. Node = NodeIn(heap)
    BY DEF Node, NodeIn
  <2>0. NoChains(0) \in [0..-1 -> Seq(Node)]
    <3>1. NoChains(0) = [j \in 0..-1 |-> << >>]
      BY DEF NoChains
    <3> QED BY <3>1, EmptySeq
  <2>2. plist \in [0..(IF pc = "done" THEN -1 ELSE capacity - 1) -> Seq(Node)]
    <3>1. CASE pc = "done"
      BY <3>1, <2>0 DEF IInv, Arrays
    <3>2. CASE pc # "done"
      BY <3>2, <2>1 DEF IInv, Arrays, ArrayOK
    <3> QED BY <3>1, <3>2
  <2>3. plist2 \in [0..(IF pc = "rehash" THEN 2 * capacity - 1 ELSE -1) -> Seq(Node)]
    <3>1. CASE pc = "rehash"
      BY <3>1, <2>1 DEF IInv, Arrays, ArrayOK
    <3>2. CASE pc # "rehash"
      BY <3>2, <2>0 DEF IInv, Arrays
    <3> QED BY <3>1, <3>2
  <2>4. call \in [op : {"none", "query", "insert", "update"}, key : DOMAIN heap, value : Values]
    <3>1. 0..(MaxSymbols + 1) \subseteq Values /\ Buffers \cup Constants \subseteq DOMAIN heap
      BY MaxSymbolsAssumption DEF IInv, Scalars, Values
    <3> QED BY <3>1 DEF IInv, CallInv
  <2>5. symbols \in Seq([lexeme : DOMAIN heap, text : Texts])
    <3> DEFINE S == [lexeme : DOMAIN heap \ Buffers, text : Texts]
               T == [lexeme : DOMAIN heap, text : Texts]
    <3>1. symbols \in Seq(S)
      BY DEF IInv, SymbolsInv
    <3>2. S \subseteq T
      OBVIOUS
    <3> HIDE DEF S, T
    <3>3. \A a \in 1..Len(symbols) : symbols[a] \in T
      BY <3>1, <3>2, ElementOfSeq
    <3>4. symbols \in Seq(T)
      BY <3>1, <3>2, SeqMonotonic
    <3> QED BY <3>4 DEF T
  <2> QED BY <2>2, <2>3, <2>4, <2>5 DEF TypeOK, MapTypeOK, IInv, Scalars
<1> QED BY <1>1, InvariantHolds, PTL

\* Two identifiers are at the same address exactly if they have the same name,
\* and what is there is their name.
THEOREM InterningCorrect == Spec => []NamesInterned
<1>1. IInv => NamesInterned
  BY DEF IInv, SymbolsInv, NamesInterned
<1> QED BY <1>1, InvariantHolds, PTL

\* No key of the intern table is left in a buffer of the lexer, and each is
\* freed exactly once.
THEOREM OwnershipCorrect == Spec => []KeysOwned
<1>1. IInv => KeysOwned
  BY DEF IInv, KeysInv, KeysOwned
<1> QED BY <1>1, InvariantHolds, PTL

\* The chains, the rehashing and the replacing of keys implement a finite map.
THEOREM MapImplemented == Spec => ImplementsDictionary
<1>1. Init => Abstract!Init
  BY InitInv DEF Abstract!Init, Abstract!Nothing
<1>2. IInv /\ [Next]_vars => [Abstract!Next]_<<Contents, answer>>
  BY NextStep
<1> QED BY <1>1, <1>2, InvariantHolds, PTL DEF Spec, ImplementsDictionary, Abstract!Spec
=============================================================================
