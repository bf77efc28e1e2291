----------------------------- MODULE Dictionary -----------------------------
(***************************************************************************)
(* What a hash map promises its clients: a finite map from texts to        *)
(* values, each operation one step, and in answer what the node returned   *)
(* by the last operation holds.  No buckets, chains or addresses.          *)
(***************************************************************************)
CONSTANTS Texts, Values, NoValue

VARIABLES dict, answer

Nothing == [t \in Texts |-> NoValue]

Init == dict = Nothing /\ answer = NoValue

Query(t) == answer' = dict[t] /\ UNCHANGED dict

\* Adds t if it is absent and keeps the value that is there, as hmap_insert does.
\* Its comment, and that of hmap_update, say "if k is present" for "absent" (hmap.gen.h:35, 38).
Insert(t, v) ==
  /\ dict' = [dict EXCEPT ![t] = IF @ = NoValue THEN v ELSE @]
  /\ answer' = dict'[t]

Update(t, v) ==
  /\ dict' = [dict EXCEPT ![t] = v]
  /\ answer' = v

Clear == dict' = Nothing /\ UNCHANGED answer

Next ==
  \/ \E t \in Texts : Query(t) \/ \E v \in Values : Insert(t, v) \/ Update(t, v)
  \/ Clear

Spec == Init /\ [][Next]_<<dict, answer>>
=============================================================================
