-------------------------------- MODULE HMap --------------------------------
(***************************************************************************)
(* The hash map every table of the compiler is made of (util/hmap.gen.c):  *)
(* chains of nodes, a new node at the head of its chain, and an array of   *)
(* chains that is doubled when an insertion might fill it beyond three     *)
(* quarters -- before it is known whether the key is there already.        *)
(*                                                                         *)
(* Keys are addresses of texts.  heap[a] is the text at address a, so that *)
(* a key keeps its meaning only as long as nobody writes to its address or *)
(* frees it.  A chain is the sequence of its nodes.  The loops over chains *)
(* and nodes take one step per node.                                       *)
(*                                                                         *)
(* TableOp is an operation of a table of keywords, of symbols of the       *)
(* grammar or of modules, whose keys are string constants or interned      *)
(* names and stay where they are.  InternTable is the client whose keys do *)
(* not.                                                                    *)
(***************************************************************************)
EXTENDS Integers, Sequences

CONSTANTS Texts,     \* what is at an address: a word
          Empty,     \* the empty text
          Hash,      \* pch_hash, the polynomial hash of a text
          Literals,  \* the texts of the string constants used as keys
          Capacity   \* the capacity given to hmap_init

Values  == Nat
NoValue == -1

ASSUME TextsAssumption == Empty \in Texts /\ Hash \in [Texts -> Nat] /\ Literals \in Seq(Texts)
ASSUME CapacityAssumption == Capacity \in Nat \ {0}

VARIABLES
  heap,         \* the text at every address
  live,         \* the addresses malloc has given out and nobody has freed
  plist,        \* the array of chains, indexed from 0
  capacity, size, destroy_key,
  pc,           \* what is being done: "ready" between two operations
  call,         \* the operation, its key and its value
  i, n,         \* the chain and the position in it a loop has reached
  plist2,       \* the new array, while the map is rehashed
  answer,       \* the value in the node that the last operation returned
  crashed       \* free was given something else than a live block

mapvars == <<heap, live, plist, capacity, size, destroy_key, pc, call, i, n, plist2, answer, crashed>>

\* The lexer's two buffers, then the string constants; malloc appends.
Buffers == {1, 2}
Constants == 3..(Len(Literals) + 2)

NoChains(c) == [j \in 0..(c - 1) |-> << >>]
NoCall      == [op |-> "none", key |-> 1, value |-> 0]

\* The chain that the key k belongs to in an array of c chains.
Bucket(k, c) == Hash[heap[k]] % c

pch_equals(k1, k2) == heap[k1] = heap[k2]

\* hmap_init
MapInit(destroy) ==
  /\ heap = <<Empty, Empty>> \o Literals
  /\ live = {}
  /\ plist = NoChains(Capacity) /\ capacity = Capacity /\ size = 0 /\ destroy_key = destroy
  /\ pc = "ready" /\ call = NoCall /\ i = 0 /\ n = 1 /\ plist2 = NoChains(0)
  /\ answer = NoValue /\ crashed = FALSE

-----------------------------------------------------------------------------
(* Operations: an operation begins with a call and ends at Found or Miss.  *)

Begin(stage, op, k, v) ==
  /\ pc' = stage
  /\ call' = [op |-> op, key |-> k, value |-> v]
  /\ n' = 1
  /\ UNCHANGED <<heap, live, plist, capacity, size, destroy_key, i, plist2, answer, crashed>>

hmap_query(k)     == Begin("walk", "query", k, 0)
hmap_insert(k, v) == Begin("load", "insert", k, v)
hmap_update(k, v) == Begin("load", "update", k, v)

\* Would one more node load the map beyond three quarters?
Full(c) == 4 * (size + 1) > 3 * c

\* The first lines of hmap_insert.
CheckLoad ==
  /\ pc = "load"
  /\ IF Full(capacity)
       THEN pc' = "rehash" /\ plist2' = NoChains(2 * capacity) /\ i' = 0
       ELSE pc' = "walk" /\ UNCHANGED <<plist2, i>>
  /\ UNCHANGED <<heap, live, plist, capacity, size, destroy_key, call, n, answer, crashed>>

OldBucket(k) == Bucket(k, capacity)  \* mutant
NewBucket(k) == Bucket(k, 2 * capacity)

\* hmap_rehash copies one node to the head of its new chain ...
MoveNode ==
  /\ pc = "rehash" /\ i < capacity /\ n <= Len(plist[i])
  /\ LET node == plist[i][n] IN
     plist2' = [plist2 EXCEPT ![NewBucket(node.key)] = <<node>> \o @]
  /\ n' = n + 1
  /\ UNCHANGED <<heap, live, plist, capacity, size, destroy_key, pc, call, i, answer, crashed>>

KeysToo(chain) == live \ {chain[j].key : j \in DOMAIN chain}  \* mutant
\* hmap_destroy_chain(chain, false, false) frees the nodes but not their keys.
LiveAfterMove(chain) == live

\* ... and destroys the old chain when all its nodes are copied.
DropChain ==
  /\ pc = "rehash" /\ i < capacity /\ n > Len(plist[i])
  /\ live' = LiveAfterMove(plist[i])
  /\ plist' = [plist EXCEPT ![i] = << >>]
  /\ i' = i + 1 /\ n' = 1
  /\ UNCHANGED <<heap, capacity, size, destroy_key, pc, call, plist2, answer, crashed>>

OldCapacity == capacity  \* mutant
NewCapacity == 2 * capacity

EndRehash ==
  /\ pc = "rehash" /\ i = capacity
  /\ plist' = plist2 /\ capacity' = NewCapacity
  /\ plist2' = NoChains(0)
  /\ pc' = "walk" /\ i' = 0 /\ n' = 1
  /\ UNCHANGED <<heap, live, size, destroy_key, call, answer, crashed>>

\* The chain in which the key of the call is looked for.
Chain == plist[Bucket(call.key, capacity)]

SameAddress(k1, k2) == k1 = k2  \* mutant
Same(k1, k2) == pch_equals(k1, k2)

Walk ==
  /\ pc = "walk" /\ n <= Len(Chain)
  /\ ~Same(Chain[n].key, call.key)
  /\ n' = n + 1
  /\ UNCHANGED <<heap, live, plist, capacity, size, destroy_key, pc, call, i, plist2, answer, crashed>>

\* The stage after an operation: the intern table goes on with the node.
After(op) == IF destroy_key /\ op = "insert" THEN "copy" ELSE "ready"

\* The node is there; hmap_update stores its value.
Found ==
  /\ pc = "walk" /\ n <= Len(Chain)
  /\ Same(Chain[n].key, call.key)
  /\ plist' = IF call.op = "update"
                THEN [plist EXCEPT ![Bucket(call.key, capacity)] =
                        [Chain EXCEPT ![n] = [key |-> Chain[n].key, value |-> call.value]]]
                ELSE plist
  /\ answer' = plist'[Bucket(call.key, capacity)][n].value
  /\ pc' = After(call.op)
  /\ UNCHANGED <<heap, live, capacity, size, destroy_key, call, i, n, plist2, crashed>>

\* It is not: hmap_query returns NULL, hmap_insert a new node.
Miss ==
  /\ pc = "walk" /\ n > Len(Chain)
  /\ IF call.op = "query"
       THEN answer' = NoValue /\ UNCHANGED <<plist, size, n>>
       ELSE /\ size' = size + 1
            /\ plist' = [plist EXCEPT ![Bucket(call.key, capacity)] =
                           <<[key |-> call.key, value |-> call.value]>> \o @]
            /\ n' = 1
            /\ answer' = call.value
  /\ pc' = After(call.op)
  /\ UNCHANGED <<heap, live, capacity, destroy_key, call, i, plist2, crashed>>

-----------------------------------------------------------------------------
(* hmap_clear. *)

hmap_clear ==
  /\ pc = "ready"
  /\ pc' = "clear" /\ i' = 0 /\ n' = 1
  /\ UNCHANGED <<heap, live, plist, capacity, size, destroy_key, call, plist2, answer, crashed>>

\* One round of the loop of hmap_destroy_chain: pch_destroy frees the key.
FreeNode ==
  /\ pc = "clear" /\ i < capacity /\ n <= Len(plist[i])
  /\ LET key == plist[i][n].key IN
     /\ live' = IF destroy_key THEN live \ {key} ELSE live
     /\ crashed' = (crashed \/ (destroy_key /\ key \notin live))
  /\ n' = n + 1
  /\ UNCHANGED <<heap, plist, capacity, size, destroy_key, pc, call, i, plist2, answer>>

FreeChain ==
  /\ pc = "clear" /\ i < capacity /\ n > Len(plist[i])
  /\ plist' = [plist EXCEPT ![i] = << >>]
  /\ i' = i + 1 /\ n' = 1
  /\ UNCHANGED <<heap, live, capacity, size, destroy_key, pc, call, plist2, answer, crashed>>

EndClear ==
  /\ pc = "clear" /\ i = capacity
  /\ plist' = NoChains(0) /\ size' = 0
  /\ pc' = "done"
  /\ UNCHANGED <<heap, live, capacity, destroy_key, call, i, n, plist2, answer, crashed>>

Step == CheckLoad \/ MoveNode \/ DropChain \/ EndRehash \/ Walk \/ Found \/ Miss
          \/ FreeNode \/ FreeChain \/ EndClear

\* A table whose keys are string constants.
TableOp ==
  /\ pc = "ready"
  /\ \/ \E k \in Constants, v \in {0, 1} : hmap_insert(k, v) \/ hmap_update(k, v)
     \/ \E k \in Buffers \cup Constants : hmap_query(k)

-----------------------------------------------------------------------------
(* What the map holds. *)

Node == [key : DOMAIN heap, value : Values]

\* Position m of the chain has the text t.
HasText(chain, m, t) == m \in DOMAIN chain /\ heap[chain[m].key] = t

\* What is found under t in an array p of c chains.
Lookup(p, c, t) ==
  LET chain == p[Hash[t] % c] IN
  IF \E m \in DOMAIN chain : HasText(chain, m, t)
    THEN chain[CHOOSE m \in DOMAIN chain : HasText(chain, m, t)].value
    ELSE NoValue

\* While the map is rehashed it is spread over two arrays; once it is being
\* cleared nobody asks it anything.
Contents ==
  [t \in Texts |->
     IF pc \in {"clear", "done"} THEN NoValue
     ELSE IF pc = "rehash" /\ Lookup(plist2, 2 * capacity, t) # NoValue
       THEN Lookup(plist2, 2 * capacity, t)
     ELSE Lookup(plist, capacity, t)]

\* The type of every variable; the addresses in use are those of the heap.
MapTypeOK ==
  /\ heap \in Seq(Texts) /\ live \subseteq DOMAIN heap
  /\ capacity \in Nat \ {0} /\ size \in Nat
  /\ destroy_key \in BOOLEAN /\ crashed \in BOOLEAN
  /\ pc \in {"ready", "token", "load", "rehash", "walk", "copy", "clear", "done"}
  /\ call \in [op : {"none", "query", "insert", "update"}, key : DOMAIN heap, value : Values]
  /\ i \in 0..capacity /\ n \in Nat \ {0}
  /\ plist \in [0..(IF pc = "done" THEN -1 ELSE capacity - 1) -> Seq(Node)]
  /\ plist2 \in [0..(IF pc = "rehash" THEN 2 * capacity - 1 ELSE -1) -> Seq(Node)]
  /\ answer \in Values \cup {NoValue}
=============================================================================
