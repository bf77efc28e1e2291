--------------------------- MODULE Semantics_proofs ---------------------------
(***************************************************************************)
(* Proofs that the semantic analyser keeps its books right around loops,   *)
(* for any programs, names and bounds.                                     *)
(***************************************************************************)
EXTENDS Semantics, SequenceTheorems, WellFoundedInduction, TLAPS

\* A function on 1..n with values in S is a sequence.
LEMMA SeqOf ==
  ASSUME NEW S, NEW n \in Nat, NEW f, f = [i \in 1..n |-> f[i]], \A i \in 1..n : f[i] \in S
  PROVE  f \in Seq(S) /\ Len(f) = n
<1>1. f \in Seq(S)
  OBVIOUS
<1>2. Len(f) = n
  OBVIOUS
<1> QED BY <1>1, <1>2

\* A nonempty set of natural numbers has a least element, and, if it has a
\* bound, a greatest.
LEMMA Least ==
  ASSUME NEW T, T \subseteq Nat, T # {}
  PROVE  \E x \in T : \A y \in T : x <= y
<1>1. PICK x \in T : \A y \in T : ~(<<y, x>> \in OpToRel(<, Nat))
  BY NatLessThanWellFounded, WFMin
<1>2. ASSUME NEW y \in T PROVE x <= y
  <2>1. y < x => <<y, x>> \in OpToRel(<, Nat)
    BY DEF OpToRel
  <2>2. ~(y < x)
    BY <1>1, <2>1
  <2> QED BY <2>2
<1> QED BY <1>2

LEMMA Greatest ==
  ASSUME NEW b \in Nat, NEW T, T \subseteq 0..b, T # {}
  PROVE  \E x \in T : \A y \in T : y <= x
<1> DEFINE D == {d \in 0..b : b - d \in T}
<1>1. D \subseteq Nat
  OBVIOUS
<1>2. PICK t : t \in T
  OBVIOUS
<1>3. b - t \in D
  BY <1>2
<1>4. PICK d \in D : \A e \in D : d <= e
  BY <1>1, <1>3, Least
<1>5. b - d \in T /\ d \in 0..b
  BY <1>4
<1>6. ASSUME NEW y \in T PROVE y <= b - d
  <2>1. b - y \in D
    OBVIOUS
  <2> QED BY <1>4, <1>5, <2>1
<1> QED BY <1>5, <1>6

\* A stack without its top.
LEMMA Front ==
  ASSUME NEW S, NEW c \in Seq(S), c # << >>
  PROVE  /\ Len(c) \in Nat \ {0}
         /\ SubSeq(c, 1, Len(c) - 1) \in Seq(S)
         /\ Len(SubSeq(c, 1, Len(c) - 1)) = Len(c) - 1
         /\ \A i \in 1..(Len(c) - 1) : SubSeq(c, 1, Len(c) - 1)[i] = c[i]
<1>1. Len(c) \in Nat /\ Len(c) # 0
  BY EmptySeq
<1>2. SubSeq(c, 1, Len(c) - 1) \in Seq(S)
  BY <1>1
<1>3. Len(SubSeq(c, 1, Len(c) - 1)) = Len(c) - 1
  <2>1. SubSeq(c, 1, Len(c) - 1) = [i \in 1..(Len(c) - 1) |-> c[i]]
    BY <1>1
  <2>2. DOMAIN SubSeq(c, 1, Len(c) - 1) = 1..(Len(c) - 1)
    BY <2>1
  <2>3. /\ DOMAIN SubSeq(c, 1, Len(c) - 1) = 1..Len(SubSeq(c, 1, Len(c) - 1))
        /\ Len(SubSeq(c, 1, Len(c) - 1)) \in Nat
    BY <1>2, LenProperties
  <2>4. ASSUME NEW a \in Nat, NEW b \in Nat, 1..a = 1..b
        PROVE  a = b
    <3>1. a <= b
      <4>1. a \in 1..a \/ a = 0
        OBVIOUS
      <4>2. a \in 1..b \/ a = 0
        BY <2>4, <4>1
      <4> QED BY <4>2
    <3>2. b <= a
      <4>1. b \in 1..b \/ b = 0
        OBVIOUS
      <4>2. b \in 1..a \/ b = 0
        BY <2>4, <4>1
      <4> QED BY <4>2
    <3> QED BY <3>1, <3>2
  <2>5. Len(c) - 1 \in Nat
    BY <1>1
  <2> QED BY <2>2, <2>3, <2>4, <2>5, Zenon
<1>4. \A i \in 1..(Len(c) - 1) : SubSeq(c, 1, Len(c) - 1)[i] = c[i]
  BY <1>1
<1> QED BY <1>1, <1>2, <1>3, <1>4

-----------------------------------------------------------------------------
(* The pieces of a step. *)

\* Every entry looked up exists.
LEMMA EntryFound ==
  ASSUME TypeOK, NEW n \in Names
  PROVE  SD_get_entry(n) \in 0..Len(entries)
<1> DEFINE in == {i \in DOMAIN scopes : scopes[i][n] # NULL}
<1>1. CASE in = {}
  BY <1>1 DEF SD_get_entry, NULL, TypeOK
<1>2. CASE in # {}
  <2>1. Len(scopes) \in Nat /\ in \subseteq 0..Len(scopes)
    BY DEF TypeOK
  <2>2. \E i \in in : \A j \in in : j <= i
    BY <1>2, <2>1, Greatest
  <2>3. SD_get_entry(n) = scopes[CHOOSE i \in in : \A j \in in : j <= i][n]
    BY <1>2 DEF SD_get_entry
  <2>4. (CHOOSE i \in in : \A j \in in : j <= i) \in DOMAIN scopes
    BY <2>2
  <2> QED BY <2>3, <2>4 DEF TypeOK
<1> QED BY <1>1, <1>2

\* A declaration adds at most one entry, which is not read-only and has its own line.
LEMMA AddVar ==
  ASSUME TypeOK, scopes # << >>, NEW v \in NameTypes, add_node_var_to_SD(v)
  PROVE  /\ entries' \in Seq(Entry) /\ Len(entries') >= Len(entries)
         /\ scopes' \in Seq([Names -> 0..Len(entries')]) /\ Len(scopes') = Len(scopes)
         /\ \A e \in DOMAIN entries' :
              /\ entries'[e].readonly <=> e \in DOMAIN entries /\ entries[e].readonly
              /\ entries'[e].line = IF e \in DOMAIN entries THEN entries[e].line ELSE 0
<1>1. CASE Declared(v.name)
  BY <1>1 DEF add_node_var_to_SD, TypeOK
<1>2. CASE ~Declared(v.name)
  <2> DEFINE new == [type |-> v.type, size |-> v.size, readonly |-> FALSE, set |-> FALSE, line |-> 0]
             top == Len(scopes)
  <2>1. new \in Entry
    BY DEF Entry, NameTypes
  <2>2. entries' = Append(entries, new)
    BY <1>2 DEF add_node_var_to_SD
  <2>3. scopes' = [scopes EXCEPT ![top][v.name] = Len(entries')]
    BY <1>2 DEF add_node_var_to_SD
  <2>4. entries' \in Seq(Entry) /\ Len(entries') = Len(entries) + 1
    BY <2>1, <2>2 DEF TypeOK
  <2>5. top \in DOMAIN scopes /\ Len(entries) \in Nat
    BY DEF TypeOK
  <2>6. scopes' = [scopes EXCEPT ![top] = [scopes[top] EXCEPT ![v.name] = Len(entries')]]
    BY <2>3
  <2>7. scopes \in Seq([Names -> 0..Len(entries')])
    BY <2>4, <2>5 DEF TypeOK
  <2>8. [scopes[top] EXCEPT ![v.name] = Len(entries')] \in [Names -> 0..Len(entries')]
    <3>1. Len(entries') \in 0..Len(entries')
      BY <2>4, <2>5
    <3>2. scopes[top] \in [Names -> 0..Len(entries')]
      BY <2>5, <2>7, ElementOfSeq
    <3> QED BY <3>1, <3>2
  <2>9. scopes' \in Seq([Names -> 0..Len(entries')]) /\ Len(scopes') = Len(scopes)
    BY <2>5, <2>6, <2>7, <2>8
  <2>10. ASSUME NEW e \in DOMAIN entries'
         PROVE  /\ entries'[e].readonly <=> e \in DOMAIN entries /\ entries[e].readonly
                /\ entries'[e].line = IF e \in DOMAIN entries THEN entries[e].line ELSE 0
    <3>1. DOMAIN entries = 1..Len(entries) /\ DOMAIN entries' = 1..(Len(entries) + 1) /\ Len(entries) \in Nat
      BY <2>2, <2>4 DEF TypeOK
    <3>2. CASE e \in DOMAIN entries
      <4>1. entries'[e] = entries[e]
        BY <2>2, <3>1, <3>2 DEF TypeOK
      <4> QED BY <3>2, <4>1
    <3>3. CASE e \notin DOMAIN entries
      <4>1. e = Len(entries) + 1
        BY <3>1, <3>3
      <4>2. entries'[e] = new
        BY <2>2, <4>1 DEF TypeOK
      <4> QED BY <3>3, <4>2
    <3> QED BY <3>2, <3>3
  <2> QED BY <2>4, <2>9, <2>10, <2>5
<1> QED BY <1>1, <1>2

\* Noting that variables are set changes nothing else.
LEMMA LoggedOK ==
  ASSUME TypeOK, NEW E, entries' = Logged(E)
  PROVE  /\ entries' \in Seq(Entry) /\ Len(entries') = Len(entries)
         /\ \A e \in DOMAIN entries :
              entries'[e].readonly = entries[e].readonly /\ entries'[e].line = entries[e].line
<1>1. \A e \in DOMAIN entries : entries[e] \in Entry
  BY DEF TypeOK
<1>2. \A e \in DOMAIN entries : entries'[e] = [entries[e] EXCEPT !.set = @ \/ e \in E]
  BY DEF Logged
<1>3. \A e \in DOMAIN entries : /\ entries'[e] \in Entry
                                /\ entries'[e].readonly = entries[e].readonly /\ entries'[e].line = entries[e].line
  BY <1>1, <1>2 DEF Entry
<1>4. DOMAIN entries' = 1..Len(entries) /\ Len(entries) \in Nat
  BY DEF Logged, TypeOK
<1>5. entries' = [e \in 1..Len(entries) |-> entries'[e]]
  BY <1>4 DEF Logged, TypeOK
<1>6. entries' \in Seq(Entry) /\ Len(entries') = Len(entries)
  <2>1. \A e \in 1..Len(entries) : entries'[e] \in Entry
    BY <1>3 DEF TypeOK
  <2>2. entries' = [i \in 1..Len(entries) |-> entries'[i]] /\ Len(entries) \in Nat
    BY <1>4, <1>5
  <2> DEFINE g == entries'
  <2>3. g = [i \in 1..Len(entries) |-> g[i]] /\ \A i \in 1..Len(entries) : g[i] \in Entry
    BY <2>1, <2>2
  <2> HIDE DEF g
  <2>4. g \in Seq(Entry) /\ Len(g) = Len(entries)
    BY <2>2, <2>3, SeqOf
  <2> QED BY <2>4 DEF g
<1> QED BY <1>3, <1>6

\* What a statement has to keep.
LEMMA StatementType ==
  ASSUME TypeOK, NEW s, Walk(s), pc' \in {"body", "crashed"},
         entries' \in Seq(Entry),
         scopes' \in Seq([Names -> 0..Len(entries')]),
         control' \in Seq(Frames),
         Len(scopes') = Len(control') + 2,
         \A i \in DOMAIN control' : control'[i].node = "For" => control'[i].entry \in 0..Len(entries'),
         status' \in [ModNames -> SUBSET {"declared", "defined", "used"}]
  PROVE  TypeOK'
<1>1. pc = "body" /\ UNCHANGED <<input, mod, param, node_map>>
  BY DEF Walk
<1>2. DOMAIN body' = DOMAIN input.modules
  BY DEF Walk, TypeOK
<1> QED BY <1>1, <1>2 DEF TypeOK

-----------------------------------------------------------------------------
(* Type correctness. *)

LEMMA StatementKeepsTypes ==
  ASSUME TypeOK, NEW s \in input.stmts \cup {EndStmt}, Statement(s)
  PROVE  TypeOK'
<1>1. StatementShape(s) \/ s = EndStmt
  BY InputsAssumption DEF TypeOK
<1>2. Walk(s)
  BY DEF Statement, Decl, Assn, Input, Output, FCall, While, For, Switch, Case, Default, End,
         EndWhile, EndFor, EndSwitch
<1>3. pc = "body" /\ Len(scopes) = Len(control) + 2 /\ mod \in DOMAIN input.modules /\ pc' \in {"body", "crashed"}
  <2>1. pc = "body"
    BY <1>2 DEF Walk
  <2>2. UNCHANGED pc \/ pc' = "crashed"
    BY DEF Statement, Decl, Assn, Input, Output, FCall, While, For, Switch, Case, Default, End, codegen
  <2> QED BY <2>1, <2>2 DEF TypeOK
<1>4. Len(control) \in Nat /\ Len(scopes) \in Nat /\ Len(entries) \in Nat /\ scopes # << >>
  BY <1>3 DEF TypeOK
<1>5. NoNames \in [Names -> 0..Len(entries)] /\ Append(scopes, NoNames) \in Seq([Names -> 0..Len(entries)])
  BY <1>4 DEF NoNames, NULL, TypeOK
<1>6. CASE Decl(s)
  <2>1. s.var \in NameTypes
    BY <1>1, <1>6 DEF Decl, StatementShape, EndStmt
  <2>2. add_node_var_to_SD(s.var) /\ UNCHANGED <<control, status>>
    BY <1>6 DEF Decl
  <2>3. /\ entries' \in Seq(Entry) /\ Len(entries') >= Len(entries)
        /\ scopes' \in Seq([Names -> 0..Len(entries')]) /\ Len(scopes') = Len(scopes)
    BY <1>4, <2>1, <2>2, AddVar
  <2>4. Len(entries') \in Nat
    BY <2>3
  <2>5. \A i \in DOMAIN control' : control'[i].node = "For" => control'[i].entry \in 0..Len(entries')
    BY <1>4, <2>2, <2>3, <2>4 DEF TypeOK
  <2> QED BY <1>2, <1>3, <2>2, <2>3, <2>5, StatementType DEF TypeOK
<1>7. CASE Assn(s)
  <2>1. PICK E : entries' = Logged(E)
    BY <1>7 DEF Assn
  <2>2. UNCHANGED <<scopes, control, status>>
    BY <1>7 DEF Assn
  <2> QED BY <1>2, <1>3, <2>1, <2>2, LoggedOK, StatementType DEF TypeOK
<1>8. CASE Input(s) \/ Output(s)
  <2>1. UNCHANGED <<scopes, entries, control, status>>
    BY <1>8 DEF Input, Output
  <2> QED BY <1>2, <1>3, <2>1, StatementType DEF TypeOK
<1>9. CASE FCall(s)
  <2>1. entries' \in Seq(Entry) /\ Len(entries') = Len(entries)
    <3>1. CASE UNCHANGED entries
      BY <3>1 DEF TypeOK
    <3>2. CASE ~UNCHANGED entries
      <4>1. PICK E : entries' = Logged(E)
        BY <1>9, <3>2 DEF FCall
      <4> QED BY <4>1, LoggedOK
    <3> QED BY <3>1, <3>2
  <2>2. UNCHANGED <<scopes, control>>
    BY <1>9 DEF FCall
  <2>3. status' = status \/ status' = [status EXCEPT ![s.name] = @ \cup {"used"}]
    BY <1>9 DEF FCall, Mark
  <2>4. status' \in [ModNames -> SUBSET {"declared", "defined", "used"}]
    <3> DEFINE U == {"declared", "defined", "used"}
    <3>1. status \in [ModNames -> SUBSET U]
      BY DEF TypeOK
    <3>2. CASE s.name \in ModNames
      <4>1. status[s.name] \cup {"used"} \in SUBSET U
        BY <3>1, <3>2
      <4> QED BY <2>3, <3>1, <4>1
    <3>3. CASE s.name \notin ModNames
      BY <2>3, <3>1, <3>3
    <3> QED BY <3>2, <3>3
  <2> QED BY <1>2, <1>3, <2>1, <2>2, <2>4, StatementType DEF TypeOK
<1> DEFINE Pushed(f) == /\ control' = Append(control, f) /\ SD_add_scope /\ UNCHANGED status
                        /\ entries' \in Seq(Entry) /\ Len(entries') = Len(entries)
<1>10. ASSUME NEW f \in Frames, Pushed(f), f.node = "For" => f.entry \in 0..Len(entries)
       PROVE  TypeOK'
  <2>1. control' \in Seq(Frames) /\ Len(control') = Len(control) + 1
    BY <1>10 DEF TypeOK
  <2>2. scopes' \in Seq([Names -> 0..Len(entries')]) /\ Len(scopes') = Len(scopes) + 1
    BY <1>5, <1>10 DEF SD_add_scope, TypeOK
  <2>3. ASSUME NEW i \in DOMAIN control', control'[i].node = "For"
        PROVE  control'[i].entry \in 0..Len(entries')
    <3>1. CASE i \in DOMAIN control
      BY <1>10, <2>3, <3>1 DEF TypeOK
    <3>2. CASE i \notin DOMAIN control
      BY <1>4, <1>10, <2>1, <2>3, <3>2 DEF TypeOK
    <3> QED BY <3>1, <3>2
  <2>4. Len(scopes') = Len(control') + 2
    BY <1>3, <1>4, <2>1, <2>2
  <2> QED BY <1>2, <1>3, <1>10, <2>1, <2>2, <2>3, <2>4, StatementType DEF TypeOK
<1> HIDE DEF Pushed
<1>11. CASE While(s)
  <2>1. [node |-> "While"] \in Frames
    BY DEF Frames
  <2>2. Pushed([node |-> "While"])
    BY <1>11 DEF While, Pushed, TypeOK
  <2> QED BY <1>10, <2>1, <2>2
<1>12. CASE For(s)
  <2> DEFINE e == SD_get_entry(s.name)
             f == [node |-> "For", entry |-> e, prev_readonly |-> WasReadonly(e), prev_line |-> LineOf(e)]
  <2>1. s.name \in Names
    BY <1>1, <1>12 DEF For, StatementShape, EndStmt
  <2>2. e \in 0..Len(entries)
    BY <2>1, EntryFound
  <2>3. WasReadonly(e) \in BOOLEAN /\ LineOf(e) \in Nat
    <3>1. e # NULL => entries[e] \in Entry
      BY <1>4, <2>2 DEF NULL, TypeOK
    <3> HIDE DEF e
    <3>2. e # NULL => entries[e].readonly \in BOOLEAN /\ entries[e].line \in Nat
      BY <3>1 DEF Entry
    <3>3. LineOf(e) \in Nat
      BY <3>2 DEF LineOf
    <3>4. WasReadonly(e) \in BOOLEAN
      BY <3>2 DEF WasReadonly
    <3> QED BY <3>3, <3>4
  <2>4. f \in Frames
    BY <1>4, <2>2, <2>3 DEF Frames
  <2>5. entries' = [i \in DOMAIN entries |->
                      IF i = e THEN Marked(entries[e], Len(control) + 1, WasReadonly(e)) ELSE entries[i]]
    BY <1>12 DEF For
  <2>6. \A i \in DOMAIN entries : entries[i] \in Entry
    BY DEF TypeOK
  <2>7. ASSUME NEW i \in DOMAIN entries PROVE entries'[i] \in Entry
    <3>1. Len(control) + 1 \in Nat
      BY <1>4
    <3>2. entries[i] \in Entry
      BY <2>6
    <3>3. Marked(entries[i], Len(control) + 1, WasReadonly(e)) \in Entry
      BY <2>3, <3>1, <3>2 DEF Entry, Marked
    <3>4. entries'[i] = IF i = e THEN Marked(entries[i], Len(control) + 1, WasReadonly(e)) ELSE entries[i]
      BY <2>5
    <3> QED BY <3>2, <3>3, <3>4
  <2>8. entries' \in Seq(Entry) /\ Len(entries') = Len(entries)
    <3>1. entries' = [i \in 1..Len(entries) |-> entries'[i]]
      BY <2>5 DEF TypeOK
    <3>2. \A i \in 1..Len(entries) : entries'[i] \in Entry
      BY <2>7 DEF TypeOK
    <3> QED BY <1>4, <3>1, <3>2, SeqOf
  <2>9. Pushed(f)
    BY <1>12, <2>8 DEF For, Pushed
  <2>10. f.node = "For" => f.entry \in 0..Len(entries)
    BY <2>2
  <2> QED BY <1>10, <2>4, <2>9, <2>10
<1>13. CASE Switch(s)
  <2> DEFINE type(t) == [node |-> "Switch", type |-> t, bools |-> {}, cases |-> 0, default |-> FALSE]
  <2>1. PICK t \in {"integer", "boolean", TYPE_ERROR} : control' = Append(control, type(t))
    <3> DEFINE e == SD_get_entry(s.name)
               ok == e # NULL /\ entries[e].size = 0 /\ entries[e].type \in {"integer", "boolean"}
               t == IF ok THEN entries[e].type ELSE TYPE_ERROR
    <3>1. control' = Append(control, type(t))
      BY <1>13 DEF Switch
    <3>2. t \in {"integer", "boolean", TYPE_ERROR}
      OBVIOUS
    <3> QED BY <3>1, <3>2
  <2>2. type(t) \in Frames
    BY DEF Frames, Types
  <2>3. Pushed(type(t))
    BY <1>13, <2>1 DEF Switch, Pushed, TypeOK
  <2> QED BY <1>10, <2>2, <2>3
<1>14. CASE Case(s) \/ Default(s)
  <2>1. s # EndStmt /\ Fits(s)
    BY <1>2, <1>14 DEF Case, Default, EndStmt, Walk
  <2>2. control # << >> /\ Innermost.node = "Switch"
    BY <1>14, <2>1 DEF Fits, InSwitch, Case, Default
  <2>3. Innermost \in Frames /\ Len(control) \in DOMAIN control
    BY <1>4, <2>2 DEF Innermost, TypeOK
  <2>4. Innermost \in [node : {"Switch"}, type : Types \cup {TYPE_ERROR}, bools : SUBSET {"true", "false"},
                       cases : {0, 1}, default : BOOLEAN]
    BY <2>2, <2>3 DEF Frames
  <2>5. PICK f \in Frames : f.node = "Switch" /\ control' = [control EXCEPT ![Len(control)] = f]
    <3>1. CASE Case(s)
      <4> DEFINE top == Innermost
                 mismatch == top.type # TYPE_ERROR /\ s.val.type # top.type
                 boolean  == ~mismatch /\ top.type = "boolean"
                 f == [top EXCEPT !.cases = 1, !.bools = IF boolean THEN @ \cup {s.val.bool} ELSE @]
      <4>1. control' = [control EXCEPT ![Len(control)] = f]
        BY <3>1 DEF Case
      <4>2. boolean => s.val.bool \in {"true", "false"}
        <5>1. s.node = "Case" /\ StatementShape(s)
          BY <1>1, <2>1, <3>1 DEF Case
        <5>2. boolean => s.val.type = "boolean"
          BY DEF TYPE_ERROR
        <5> QED BY <5>1, <5>2 DEF StatementShape
      <4>3. f \in Frames /\ f.node = "Switch"
        BY <2>4, <4>2 DEF Frames
      <4> QED BY <4>1, <4>3
    <3>2. CASE Default(s)
      <4> DEFINE f == [Innermost EXCEPT !.default = TRUE]
      <4>1. f \in Frames /\ f.node = "Switch"
        BY <2>4 DEF Frames
      <4> QED BY <3>2, <4>1 DEF Default
    <3> QED BY <1>14, <3>1, <3>2
  <2>6. control' \in Seq(Frames) /\ Len(control') = Len(control)
    BY <2>3, <2>5 DEF TypeOK
  <2>7. UNCHANGED <<scopes, entries, status>>
    BY <1>14 DEF Case, Default
  <2>8. \A i \in DOMAIN control' : control'[i].node = "For" => control'[i].entry \in 0..Len(entries')
    BY <2>3, <2>5, <2>7 DEF TypeOK
  <2> QED BY <1>2, <1>3, <2>6, <2>7, <2>8, StatementType DEF TypeOK
<1>15. CASE End(s)
  <2>1. control # << >>
    BY <1>2, <1>15 DEF End, EndWhile, EndFor, EndSwitch, Walk, Fits
  <2>2. entries' \in Seq(Entry) /\ Len(entries') = Len(entries)
    <3>1. CASE UNCHANGED entries
      BY <3>1 DEF TypeOK
    <3>2. CASE ~UNCHANGED entries
      <4>1. entries' = [i \in DOMAIN entries |->
              IF i = Innermost.entry THEN Restored(entries[i], Innermost) ELSE entries[i]]
        BY <1>15, <3>2 DEF End, EndWhile, EndFor, EndSwitch
      <4>2. Innermost.node = "For"
        BY <1>15, <3>2 DEF End, EndWhile, EndFor, EndSwitch
      <4>3. Innermost \in Frames
        BY <1>4, <2>1 DEF Innermost, TypeOK
      <4>4. Innermost.prev_readonly \in BOOLEAN /\ Innermost.prev_line \in Nat
        BY <4>2, <4>3 DEF Frames
      <4>5. \A i \in 1..Len(entries) : entries[i] \in Entry
        BY DEF TypeOK
      <4>6. \A i \in 1..Len(entries) : entries'[i] \in Entry
        <5>1. DOMAIN entries = 1..Len(entries)
          BY DEF TypeOK
        <5>2. \A i \in 1..Len(entries) : entries'[i] = entries[i] \/ entries'[i] = Restored(entries[i], Innermost)
          BY <4>1, <5>1
        <5>3. ASSUME NEW x \in Entry PROVE Restored(x, Innermost) \in Entry
          BY <4>4 DEF Entry, Restored
        <5> QED BY <4>5, <5>2, <5>3
      <4>7. entries' = [i \in 1..Len(entries) |-> entries'[i]]
        BY <4>1 DEF TypeOK
      <4> QED BY <1>4, <4>6, <4>7, SeqOf
    <3> QED BY <3>1, <3>2
  <2>3. /\ control' = SubSeq(control, 1, Len(control) - 1) /\ UNCHANGED status
        /\ scopes' = SubSeq(scopes, 1, Len(scopes) - 1)
    BY <1>15 DEF End, SD_remove_scope
  <2>4. /\ control' \in Seq(Frames) /\ Len(control') = Len(control) - 1
        /\ \A i \in 1..(Len(control) - 1) : control'[i] = control[i]
    <3>1. control \in Seq(Frames)
      BY DEF TypeOK
    <3> QED BY <2>1, <2>3, <3>1, Front
  <2>5. scopes' \in Seq([Names -> 0..Len(entries')]) /\ Len(scopes') = Len(scopes) - 1
    BY <1>4, <2>2, <2>3 DEF TypeOK
  <2>6. \A i \in DOMAIN control' : control'[i].node = "For" => control'[i].entry \in 0..Len(entries')
    <3>1. DOMAIN control' = 1..(Len(control) - 1) /\ DOMAIN control = 1..Len(control)
      BY <1>4, <2>4 DEF TypeOK
    <3>2. \A i \in DOMAIN control : control[i].node = "For" => control[i].entry \in 0..Len(entries)
      BY DEF TypeOK
    <3>3. \A i \in DOMAIN control' : i \in DOMAIN control /\ control'[i] = control[i]
      BY <1>4, <2>4, <3>1
    <3> QED BY <2>2, <3>2, <3>3
  <2>7. Len(scopes') = Len(control') + 2
    BY <1>3, <1>4, <2>4, <2>5
  <2>8. status' \in [ModNames -> SUBSET {"declared", "defined", "used"}]
    BY <2>3 DEF TypeOK
  <2> QED BY <1>2, <1>3, <2>2, <2>4, <2>5, <2>6, <2>7, <2>8, StatementType
<1> QED BY <1>6, <1>7, <1>8, <1>9, <1>11, <1>12, <1>13, <1>14, <1>15 DEF Statement

LEMMA InitTypes ==
  ASSUME Init
  PROVE  TypeOK
<1>1. input \in Inputs /\ input.modules \in Seq(Modules) /\ input.modules # << >>
  BY InputsAssumption DEF Init
<1>2. 1 \in DOMAIN input.modules
  BY <1>1, EmptySeq
<1>3. NoNames \in [Names -> 0..0]
  BY DEF NoNames, NULL
<1>4. scopes \in Seq([Names -> 0..Len(entries)]) /\ Len(scopes) = 1
  BY <1>3 DEF Init
<1>5. status \in [ModNames -> SUBSET {"declared", "defined", "used"}] /\ node_map \in [ModNames -> Nat]
  BY DEF Init, NULL
<1> QED BY <1>1, <1>2, <1>4, <1>5 DEF Init, TypeOK

LEMMA TypeStep ==
  ASSUME TypeOK, [Next]_vars
  PROVE  TypeOK'
<1>1. /\ input.modules \in Seq(Modules) /\ input.modules # << >>
      /\ input.decls \in Seq(ModNames)
  BY InputsAssumption DEF TypeOK
<1>2. Len(scopes) \in Nat /\ Len(entries) \in Nat /\ NoNames \in [Names -> 0..Len(entries)]
  BY DEF NoNames, NULL, TypeOK
<1>0. pc \in {"params", "body"} => Len(scopes) = Len(control) + 2 /\ scopes # << >> /\ Len(control) \in Nat
  <2>1. Len(control) \in Nat
    BY DEF TypeOK
  <2>2. pc \in {"params", "body"} => Len(scopes) = Len(control) + 2
    BY DEF TypeOK
  <2>3. scopes = << >> => Len(scopes) = 0
    BY EmptySeq
  <2> QED BY <2>1, <2>2, <2>3
<1> DEFINE Statuses == [ModNames -> SUBSET {"declared", "defined", "used"}]
<1>3. CASE Prologue
  <2>1. status' \in Statuses
    BY <1>3 DEF Prologue, Only
  <2>2. node_map' \in [ModNames -> Nat]
    <3>1. ASSUME NEW m \in ModNames, ModulesOf(m) # {}
          PROVE  (CHOOSE i \in ModulesOf(m) : \A j \in ModulesOf(m) : i <= j) \in Nat
      <4>1. ModulesOf(m) \subseteq Nat
        BY <1>1 DEF ModulesOf
      <4>2. \E i \in ModulesOf(m) : \A j \in ModulesOf(m) : i <= j
        BY <3>1, <4>1, Least
      <4> QED BY <4>1, <4>2
    <3> QED BY <1>3, <3>1 DEF Prologue, NULL
  <2> QED BY <1>3, <2>1, <2>2 DEF Prologue, TypeOK
<1>4. CASE EnterModule
  <2>1. scopes' \in Seq([Names -> 0..Len(entries)]) /\ Len(scopes') = Len(scopes) + 1
    <3>1. scopes \in Seq([Names -> 0..Len(entries)])
      BY DEF TypeOK
    <3>2. scopes' = Append(scopes, NoNames)
      BY <1>4 DEF EnterModule, SD_add_scope
    <3> QED BY <1>2, <3>1, <3>2, AppendProperties
  <2>2. status' \in Statuses
    <3> DEFINE m == ModuleNode.name
    <3>1. status \in Statuses
      BY DEF TypeOK
    <3>2. CASE m = DRIVER
      BY <1>4, <3>1, <3>2 DEF EnterModule
    <3>3. CASE m # DRIVER
      <4>1. mod \in DOMAIN input.modules
        BY <1>4 DEF EnterModule, TypeOK
      <4>2. ModuleNode \in Modules
        BY <1>1, <4>1, ElementOfSeq DEF ModuleNode
      <4>3. m \in ModNames
        BY <3>3, <4>2 DEF Modules
      <4>4. status' = [status EXCEPT ![m] = @ \cup {"defined"}]
        BY <1>4, <3>3 DEF EnterModule
      <4>5. status[m] \cup {"defined"} \in SUBSET {"declared", "defined", "used"}
        BY <3>1, <4>3
      <4> QED BY <3>1, <4>4, <4>5
    <3> QED BY <3>2, <3>3
  <2>3. pc = "module" /\ pc' = "params" /\ param' = 1 /\ UNCHANGED <<input, body, mod, entries, control, node_map>>
    BY <1>4 DEF EnterModule
  <2>4. Len(scopes') = Len(control') + 2
    BY <1>2, <2>1, <2>3 DEF TypeOK
  <2> QED BY <2>1, <2>2, <2>3, <2>4 DEF TypeOK
<1>5. CASE Param
  <2> DEFINE v == Params(ModuleNode)[param]
  <2>1. /\ pc = "params" /\ mod \in DOMAIN input.modules /\ param \in Nat \ {0}
        /\ param <= Len(Params(ModuleNode))
    BY <1>5 DEF Param, TypeOK
  <2>2. ModuleNode \in Modules
    BY <1>1, <2>1, ElementOfSeq DEF ModuleNode
  <2>3. ModuleNode.ins \in Seq(NameTypes) /\ ModuleNode.outs \in Seq(NameTypes)
    BY <2>2 DEF Modules
  <2>4. Params(ModuleNode) \in Seq(NameTypes)
    BY <2>3, ConcatProperties DEF Params
  <2>5. v \in NameTypes
    BY <2>1, <2>4
  <2>6. scopes # << >>
    BY <1>0, <2>1
  <2>7. add_node_var_to_SD(v) /\ param' = param + 1 /\ UNCHANGED <<input, body, pc, mod, control, status, node_map>>
    BY <1>5 DEF Param
  <2>8. /\ entries' \in Seq(Entry) /\ scopes' \in Seq([Names -> 0..Len(entries')])
        /\ Len(scopes') = Len(scopes)
    BY <2>5, <2>6, <2>7, AddVar
  <2>9. control = << >>
    BY <2>1 DEF TypeOK
  <2> QED BY <2>1, <2>7, <2>8, <2>9 DEF TypeOK
<1>6. CASE EnterBody
  BY <1>6 DEF EnterBody, TypeOK
<1>7. CASE LeaveModule
  <2>1. pc = "body" /\ control = << >> /\ UNCHANGED <<input, body, param, entries, control, status, node_map>>
    BY <1>7 DEF LeaveModule
  <2>2. Len(scopes) = 2 /\ scopes # << >>
    BY <1>0, <2>1
  <2>3. scopes' = SubSeq(scopes, 1, Len(scopes) - 1)
    BY <1>7 DEF LeaveModule, SD_remove_scope
  <2>4. scopes' \in Seq([Names -> 0..Len(entries)]) /\ Len(scopes') = 1
    BY <2>2, <2>3, Front DEF TypeOK
  <2>5. /\ pc' \in {"finish", "module"} /\ mod' \in Nat
        /\ pc' = "module" => mod' \in DOMAIN input.modules
    <3>1. mod \in DOMAIN input.modules
      BY <2>1 DEF TypeOK
    <3>2. mod' = mod + 1 /\ pc' = IF mod = Len(input.modules) THEN "finish" ELSE "module"
      BY <1>7 DEF LeaveModule
    <3> QED BY <1>1, <3>1, <3>2
  <2> QED BY <2>1, <2>4, <2>5 DEF TypeOK
<1>8. CASE Epilogue
  BY <1>8 DEF Epilogue, TypeOK
<1>9. CASE Done \/ UNCHANGED vars
  BY <1>9 DEF Done, vars, TypeOK
<1>10. CASE \E s \in input.stmts \cup {EndStmt} : Statement(s)
  BY <1>10, StatementKeepsTypes
<1> QED BY <1>3, <1>4, <1>5, <1>6, <1>7, <1>8, <1>9, <1>10 DEF Next

\* The type invariant of the analyser (compiler.c) holds for any programs.
THEOREM TypeCorrect == Spec => []TypeOK
<1>1. TypeOK /\ [Next]_vars => TypeOK'
  BY TypeStep
<1> QED BY InitTypes, <1>1, PTL DEF Spec

-----------------------------------------------------------------------------
(* Read-only loop variables. *)

\* A step that opens and closes no for-loop and sets no readonly keeps the books.
LEMMA NoLoopStep ==
  ASSUME ReadonlyInv, TypeOK',
         \A i : i \in DOMAIN control' /\ control'[i].node = "For" <=> i \in DOMAIN control /\ control[i].node = "For",
         \A i \in DOMAIN control : control[i].node = "For" => control'[i] = control[i],
         \A e \in DOMAIN entries' : entries'[e].readonly <=> e \in DOMAIN entries /\ entries[e].readonly
  PROVE  ReadonlyExact' /\ PrevExact'
<1> DEFINE Loops(c, I) == {c[i].entry : i \in {j \in I : c[j].node = "For"}} \ {NULL}
<1>1. \A I : LoopEntries(I) = Loops(control, I) /\ LoopEntries(I)' = Loops(control', I)
  BY DEF LoopEntries
<1>2. LoopEntries(DOMAIN control)' = LoopEntries(DOMAIN control)
  BY DEF LoopEntries
<1>3. ReadonlyExact'
  <2> SUFFICES ASSUME NEW e \in DOMAIN entries'
               PROVE  entries'[e].readonly <=> e \in LoopEntries(DOMAIN control)
    BY <1>2 DEF ReadonlyExact
  <2>1. CASE e \in DOMAIN entries
    BY <2>1 DEF ReadonlyInv, ReadonlyExact
  <2>2. CASE e \notin DOMAIN entries
    <3>1. e \in Nat /\ e # NULL
      BY DEF TypeOK, NULL
    <3>2. DOMAIN entries = 1..Len(entries) /\ Len(entries) \in Nat
      BY DEF ReadonlyInv, TypeOK
    <3>3. \A i \in DOMAIN control : control[i].node = "For" => control[i].entry \in 0..Len(entries)
      BY DEF ReadonlyInv, TypeOK
    <3>4. LoopEntries(DOMAIN control) \subseteq DOMAIN entries
      BY <3>2, <3>3 DEF LoopEntries, NULL
    <3> QED BY <2>2, <3>4
  <2> QED BY <2>1, <2>2
<1>4. PrevExact'
  <2> SUFFICES ASSUME NEW i \in DOMAIN control', control'[i].node = "For"
               PROVE  control'[i].prev_readonly <=> control'[i].entry \in LoopEntries(1..(i - 1))'
    BY DEF PrevExact
  <2>1. i \in DOMAIN control /\ control[i].node = "For" /\ control'[i] = control[i]
    OBVIOUS
  <2>2. DOMAIN control = 1..Len(control) /\ Len(control) \in Nat /\ DOMAIN control' = 1..Len(control') /\ Len(control') \in Nat
    BY DEF ReadonlyInv, TypeOK
  <2>3. 1..(i - 1) \subseteq DOMAIN control /\ 1..(i - 1) \subseteq DOMAIN control'
    BY <2>1, <2>2
  <2>4. Loops(control', 1..(i - 1)) = Loops(control, 1..(i - 1))
    BY <2>3
  <2>5. control[i].prev_readonly <=> control[i].entry \in LoopEntries(1..(i - 1))
    BY <2>1 DEF ReadonlyInv, PrevExact
  <2> QED BY <1>1, <2>1, <2>4, <2>5
<1> QED BY <1>3, <1>4

\* For: its variable is read-only, and it knows whether it was.
LEMMA ForStep ==
  ASSUME ReadonlyInv, TypeOK', NEW s, s.name \in Names, For(s)
  PROVE  ReadonlyExact' /\ PrevExact'
<1> DEFINE e == SD_get_entry(s.name)
           n == Len(control)
           f == [node |-> "For", entry |-> e, prev_readonly |-> WasReadonly(e), prev_line |-> LineOf(e)]
<1>1. e \in 0..Len(entries) /\ Len(entries) \in Nat /\ n \in Nat
  <2>1. TypeOK
    BY DEF ReadonlyInv
  <2>2. e \in 0..Len(entries)
    BY <2>1, EntryFound
  <2> QED BY SMTT(30), <2>1, <2>2 DEF TypeOK
<1>2. control' = Append(control, f)
  BY DEF For
<1>3. /\ DOMAIN control = 1..n /\ DOMAIN control' = 1..(n + 1)
      /\ control'[n + 1] = f /\ \A i \in 1..n : control'[i] = control[i]
  BY <1>1, <1>2 DEF ReadonlyInv, TypeOK
<1>4. \A I \in SUBSET (1..n) : LoopEntries(I)' = LoopEntries(I)
  BY <1>3 DEF LoopEntries
<1>5. ASSUME NEW I, I = 1..(n + 1)
      PROVE  LoopEntries(I)' = LoopEntries(1..n) \cup ({e} \ {NULL})
  <2> DEFINE A == {j \in 1..n : control[j].node = "For"}
  <2>1. 1..(n + 1) = 1..n \cup {n + 1} /\ n + 1 \notin 1..n
    BY <1>1
  <2>2. {j \in I : control'[j].node = "For"} = A \cup {n + 1}
    BY <1>3, <1>5, <2>1
  <2>3. {control'[i].entry : i \in A \cup {n + 1}} = {control[i].entry : i \in A} \cup {e}
    BY <1>3
  <2> QED BY <2>2, <2>3 DEF LoopEntries
<1>6. /\ DOMAIN entries' = DOMAIN entries
      /\ \A i \in DOMAIN entries : i # e => entries'[i] = entries[i]
      /\ e \in DOMAIN entries => entries'[e].readonly
  <2>1. entries' = [i \in DOMAIN entries |->
                      IF i = e THEN Marked(entries[e], n + 1, WasReadonly(e)) ELSE entries[i]]
    BY DEF For
  <2>2. \A i \in DOMAIN entries : entries[i] \in Entry
    BY DEF ReadonlyInv, TypeOK
  <2> QED BY <2>1, <2>2 DEF Entry, Marked
<1>7. ReadonlyExact'
  <2> SUFFICES ASSUME NEW i \in DOMAIN entries
               PROVE  entries'[i].readonly <=> i \in LoopEntries(1..n) \cup ({e} \ {NULL})
    <3>1. LoopEntries(DOMAIN control)' = LoopEntries(1..n) \cup ({e} \ {NULL})
      BY <1>3, <1>5 DEF LoopEntries
    <3> QED BY <1>6, <3>1 DEF ReadonlyExact
  <2>1. entries[i].readonly <=> i \in LoopEntries(1..n)
    BY <1>3 DEF ReadonlyInv, ReadonlyExact
  <2>2. i # NULL
    BY DEF ReadonlyInv, TypeOK, NULL
  <2> QED BY <1>6, <2>1, <2>2
<1>8. PrevExact'
  <2> SUFFICES ASSUME NEW i \in 1..(n + 1), control'[i].node = "For"
               PROVE  control'[i].prev_readonly <=> control'[i].entry \in LoopEntries(1..(i - 1))'
    BY <1>3 DEF PrevExact
  <2>1. LoopEntries(1..(i - 1))' = LoopEntries(1..(i - 1))
    <3>1. 1..(i - 1) \in SUBSET (1..n)
      BY <1>1
    <3> QED BY <1>4, <3>1
  <2>2. CASE i = n + 1
    <3>1. WasReadonly(e) <=> e \in LoopEntries(1..n)
      <4>1. CASE e = NULL
        BY <4>1 DEF WasReadonly, LoopEntries
      <4>2. CASE e # NULL
        <5>1. e \in DOMAIN entries
          BY <1>1, <4>2 DEF ReadonlyInv, TypeOK, NULL
        <5> QED BY <1>3, <4>2, <5>1 DEF WasReadonly, ReadonlyInv, ReadonlyExact
      <4> QED BY <4>1, <4>2
    <3>2. i - 1 = n
      <4>1. n \in Nat
        BY <1>1
      <4> HIDE DEF n, e, f
      <4> QED BY <4>1, <2>2
    <3>3. control'[i].prev_readonly = WasReadonly(e) /\ control'[i].entry = e
      BY <1>3, <2>2
    <3>4. LoopEntries(1..(i - 1))' = LoopEntries(1..n)
      BY <2>1, <3>2
    <3> QED BY <3>1, <3>3, <3>4
  <2>3. CASE i # n + 1
    <3>1. i \in 1..n
      BY <1>1, <2>3
    <3> QED BY <1>3, <2>1, <3>1 DEF ReadonlyInv, PrevExact
  <2> QED BY <2>2, <2>3
<1> QED BY <1>7, <1>8

\* The end of a for-loop: its variable is what it was before.
LEMMA EndForStep ==
  ASSUME ReadonlyInv, TypeOK', NEW s, EndFor(s),
         control' = SubSeq(control, 1, Len(control) - 1)
  PROVE  ReadonlyExact' /\ PrevExact'
<1> DEFINE n == Len(control)
           f == control[n]
<1>1. Fits(s) /\ s.node = "End" /\ f.node = "For"
  BY DEF EndFor, Walk, Innermost
<1>2. control # << >>
  BY <1>1 DEF Fits
<1>3. control \in Seq(Frames)
  BY DEF ReadonlyInv, TypeOK
<1>4. n \in Nat \ {0} /\ DOMAIN control = 1..n /\ control' \in Seq(Frames) /\ Len(control') = n - 1
  BY <1>2, <1>3, Front
<1>5. DOMAIN control' = 1..(n - 1) /\ \A i \in 1..(n - 1) : control'[i] = control[i]
  BY <1>2, <1>3, <1>4, Front
<1>6. \A I \in SUBSET (1..(n - 1)) : LoopEntries(I)' = LoopEntries(I)
  BY <1>5 DEF LoopEntries
<1>7. LoopEntries(1..n) = LoopEntries(1..(n - 1)) \cup ({f.entry} \ {NULL})
  <2>1. 1..n = 1..(n - 1) \cup {n}
    BY <1>4
  <2>2. {j \in 1..n : control[j].node = "For"} = {j \in 1..(n - 1) : control[j].node = "For"} \cup {n}
    BY <1>1, <2>1
  <2> QED BY <2>2 DEF LoopEntries
<1>8. f.prev_readonly <=> f.entry \in LoopEntries(1..(n - 1))
  BY <1>1, <1>4 DEF ReadonlyInv, PrevExact
<1>9. /\ DOMAIN entries' = DOMAIN entries
      /\ \A i \in DOMAIN entries : i # f.entry => entries'[i] = entries[i]
      /\ f.entry \in DOMAIN entries => entries'[f.entry].readonly = f.prev_readonly
  <2>1. entries' = [i \in DOMAIN entries |->
          IF i = f.entry THEN [entries[i] EXCEPT !.readonly = f.prev_readonly, !.line = f.prev_line] ELSE entries[i]]
    BY DEF EndFor, Innermost, Restored
  <2>2. \A i \in DOMAIN entries : entries[i] \in Entry
    BY DEF ReadonlyInv, TypeOK
  <2> QED BY <2>1, <2>2 DEF Entry
<1>10. ReadonlyExact'
  <2> SUFFICES ASSUME NEW i \in DOMAIN entries
               PROVE  entries'[i].readonly <=> i \in LoopEntries(1..(n - 1))
    BY <1>5, <1>6, <1>9 DEF ReadonlyExact
  <2>1. entries[i].readonly <=> i \in LoopEntries(1..n)
    BY <1>4 DEF ReadonlyInv, ReadonlyExact
  <2>2. CASE i = f.entry
    BY <1>8, <1>9, <2>2
  <2>3. CASE i # f.entry
    BY <1>7, <1>9, <2>1, <2>3
  <2> QED BY <2>2, <2>3
<1>11. PrevExact'
  <2> SUFFICES ASSUME NEW i \in 1..(n - 1), control'[i].node = "For"
               PROVE  control'[i].prev_readonly <=> control'[i].entry \in LoopEntries(1..(i - 1))'
    BY <1>5 DEF PrevExact
  <2>1. 1..(i - 1) \in SUBSET (1..(n - 1)) /\ i \in 1..n
    BY <1>4
  <2> QED BY <1>4, <1>5, <1>6, <2>1 DEF ReadonlyInv, PrevExact
<1> QED BY <1>10, <1>11

-----------------------------------------------------------------------------
(* Lines of loop variables: IsLine of any stack of open statements c.      *)

Over(c, i, x) == c[i].node = "For" /\ c[i].entry = x

LineIs(c, line, x, k) ==
  /\ line \in 0..k
  /\ line # 0 => Over(c, line, x)
  /\ \A i \in (line + 1)..k : ~Over(c, i, x)

PrevLines(c) ==
  \A i \in DOMAIN c : c[i].node = "For" /\ c[i].entry # NULL => LineIs(c, c[i].prev_line, c[i].entry, i - 1)

\* The two conjuncts, before a step and after it.
LEMMA LinesForm ==
  /\ LinesExact <=> \A x \in DOMAIN entries : LineIs(control, entries[x].line, x, Len(control))
  /\ PrevLinesExact <=> PrevLines(control)
  /\ LinesExact' <=> \A x \in DOMAIN entries' : LineIs(control', entries'[x].line, x, Len(control'))
  /\ PrevLinesExact' <=> PrevLines(control')
BY DEF LinesExact, PrevLinesExact, IsLine, LoopOver, LineIs, PrevLines, Over

\* Between stacks with the same loops over x the line of x does not change.
LEMMA SameLine ==
  ASSUME NEW c, NEW d, NEW n \in Nat, NEW m \in Nat, NEW x, NEW l, LineIs(c, l, x, n),
         \A i : i \in 1..m /\ Over(d, i, x) <=> i \in 1..n /\ Over(c, i, x)
  PROVE  LineIs(d, l, x, m)
<1>1. l \in 0..n /\ (l # 0 => Over(c, l, x)) /\ \A i \in (l + 1)..n : ~Over(c, i, x)
  BY DEF LineIs
<1>2. l # 0 => l \in 1..m /\ Over(d, l, x)
  <2>1. l # 0 => l \in 1..n
    BY <1>1
  <2> QED BY <1>1, <2>1
<1>3. ASSUME NEW i \in (l + 1)..m PROVE ~Over(d, i, x)
  <2>1. i \in 1..m /\ (i \in 1..n => i \in (l + 1)..n)
    BY <1>1
  <2> QED BY <1>1, <2>1
<1>4. l \in 0..m
  BY <1>1, <1>2
<1> QED BY <1>2, <1>3, <1>4 DEF LineIs

\* What a loop remembers, if nothing changes below it.
LEMMA SamePrevLine ==
  ASSUME NEW c, NEW d, NEW k \in Nat \ {0},
         c[k].node = "For", c[k].entry # NULL, k \in DOMAIN c, d[k] = c[k], PrevLines(c),
         \A i \in 1..(k - 1) : \A x : Over(d, i, x) <=> Over(c, i, x)
  PROVE  LineIs(d, d[k].prev_line, d[k].entry, k - 1)
<1>1. LineIs(c, c[k].prev_line, c[k].entry, k - 1)
  BY DEF PrevLines
<1>2. k - 1 \in Nat
  OBVIOUS
<1> QED BY <1>1, <1>2, SameLine

\* What the proofs use of the type invariant.
LEMMA LineFacts ==
  ASSUME TypeOK
  PROVE  /\ DOMAIN control = 1..Len(control) /\ Len(control) \in Nat
         /\ DOMAIN entries = 1..Len(entries) /\ Len(entries) \in Nat
         /\ \A i \in DOMAIN control : control[i].node = "For" => control[i].entry \in 0..Len(entries)
BY DEF TypeOK

\* A step that opens and closes no for-loop and changes no line.
LEMMA NoLoopLines ==
  ASSUME ReadonlyInv, TypeOK',
         \A i : i \in DOMAIN control' /\ control'[i].node = "For" <=> i \in DOMAIN control /\ control[i].node = "For",
         \A i \in DOMAIN control : control[i].node = "For" => control'[i] = control[i],
         \A e \in DOMAIN entries' : entries'[e].line = IF e \in DOMAIN entries THEN entries[e].line ELSE 0
  PROVE  LinesExact' /\ PrevLinesExact'
<1>1. /\ DOMAIN control = 1..Len(control) /\ Len(control) \in Nat
      /\ DOMAIN entries = 1..Len(entries) /\ Len(entries) \in Nat
      /\ \A i \in DOMAIN control : control[i].node = "For" => control[i].entry \in 0..Len(entries)
  BY LineFacts DEF ReadonlyInv
<1>2. /\ DOMAIN control' = 1..Len(control') /\ Len(control') \in Nat
      /\ DOMAIN entries' = 1..Len(entries') /\ Len(entries') \in Nat
  BY DEF TypeOK
<1>3. \A i, x : i \in DOMAIN control' /\ Over(control', i, x) <=> i \in DOMAIN control /\ Over(control, i, x)
  BY DEF Over
<1>4. /\ \A x \in DOMAIN entries : LineIs(control, entries[x].line, x, Len(control))
      /\ PrevLines(control)
  BY LinesForm DEF ReadonlyInv
<1>5. ASSUME NEW x \in DOMAIN entries' PROVE LineIs(control', entries'[x].line, x, Len(control'))
  <2>1. CASE x \in DOMAIN entries
    <3>1. entries'[x].line = entries[x].line /\ LineIs(control, entries[x].line, x, Len(control))
      BY <1>4, <2>1
    <3> QED BY <1>1, <1>2, <1>3, <3>1, SameLine
  <2>2. CASE x \notin DOMAIN entries
    <3>1. entries'[x].line = 0 /\ x \notin 0..Len(entries)
      BY <1>1, <1>2, <2>2
    <3>2. \A i \in DOMAIN control' : ~Over(control', i, x)
      BY <1>1, <1>3, <3>1 DEF Over
    <3> QED BY <1>2, <3>1, <3>2 DEF LineIs
  <2> QED BY <2>1, <2>2
<1>6. ASSUME NEW k \in DOMAIN control', control'[k].node = "For", control'[k].entry # NULL
      PROVE  LineIs(control', control'[k].prev_line, control'[k].entry, k - 1)
  <2>1. k \in DOMAIN control /\ control[k].node = "For" /\ control'[k] = control[k]
    BY <1>6
  <2>2. k \in Nat \ {0} /\ \A i \in 1..(k - 1) : i \in DOMAIN control /\ i \in DOMAIN control'
    BY <1>1, <1>2, <2>1
  <2>3. \A i \in 1..(k - 1) : \A x : Over(control', i, x) <=> Over(control, i, x)
    BY <1>3, <2>2
  <2> QED BY <1>4, <1>6, <2>1, <2>2, <2>3, SamePrevLine
<1> QED BY <1>5, <1>6, LinesForm DEF PrevLines

\* For: the line is that of the loop, which remembers the one before.
LEMMA ForLines ==
  ASSUME ReadonlyInv, TypeOK', NEW s, s.name \in Names, For(s)
  PROVE  LinesExact' /\ PrevLinesExact'
<1> DEFINE e == SD_get_entry(s.name)
           n == Len(control)
           f == [node |-> "For", entry |-> e, prev_readonly |-> WasReadonly(e), prev_line |-> LineOf(e)]
<1>1. /\ DOMAIN control = 1..n /\ n \in Nat /\ DOMAIN entries = 1..Len(entries) /\ Len(entries) \in Nat
  BY LineFacts DEF ReadonlyInv
<1>2. e \in 0..Len(entries) /\ (e # NULL => e \in DOMAIN entries /\ LineOf(e) = entries[e].line)
  <2>1. e \in 0..Len(entries)
    BY EntryFound DEF ReadonlyInv
  <2> HIDE DEF e
  <2> QED BY <1>1, <2>1 DEF LineOf, NULL
<1>3. /\ DOMAIN control' = 1..(n + 1) /\ Len(control') = n + 1
      /\ control'[n + 1] = f /\ \A i \in 1..n : control'[i] = control[i]
  <2>1. control' = Append(control, f) /\ control \in Seq(Frames)
    BY DEF For, ReadonlyInv, TypeOK
  <2> QED BY <1>1, <2>1
<1>4. /\ DOMAIN entries' = DOMAIN entries
      /\ \A i \in DOMAIN entries : entries'[i].line = IF i = e THEN n + 1 ELSE entries[i].line
  <2>1. entries' = [i \in DOMAIN entries |->
                      IF i = e THEN Marked(entries[e], n + 1, WasReadonly(e)) ELSE entries[i]]
    BY DEF For
  <2>2. \A i \in DOMAIN entries : entries[i] \in Entry
    BY DEF ReadonlyInv, TypeOK
  <2> QED BY <2>1, <2>2 DEF Entry, Marked
<1>5. f.node = "For" /\ f.entry = e /\ f.prev_line = LineOf(e)
  OBVIOUS
<1> HIDE DEF e, n, f
<1>6. \A x : (\A i \in 1..n : Over(control', i, x) <=> Over(control, i, x)) /\ (Over(control', n + 1, x) <=> x = e)
  BY <1>3, <1>5 DEF Over
<1>7. /\ \A x \in DOMAIN entries : LineIs(control, entries[x].line, x, n)
      /\ PrevLines(control)
  BY LinesForm DEF ReadonlyInv, n
<1>8. ASSUME NEW x \in DOMAIN entries PROVE LineIs(control', entries'[x].line, x, n + 1)
  <2>1. CASE x = e
    BY <1>1, <1>4, <1>6, <2>1 DEF LineIs
  <2>2. CASE x # e
    <3>1. entries'[x].line = entries[x].line /\ LineIs(control, entries[x].line, x, n)
      BY <1>4, <1>7, <2>2
    <3>2. n + 1 \in Nat /\ \A i : i \in 1..(n + 1) <=> i \in 1..n \/ i = n + 1
      BY <1>1
    <3>3. \A i : i \in 1..(n + 1) /\ Over(control', i, x) <=> i \in 1..n /\ Over(control, i, x)
      BY <1>6, <2>2, <3>2
    <3> QED BY <1>1, <3>1, <3>2, <3>3, SameLine
  <2> QED BY <2>1, <2>2
<1>9. ASSUME NEW k \in 1..(n + 1), control'[k].node = "For", control'[k].entry # NULL
      PROVE  LineIs(control', control'[k].prev_line, control'[k].entry, k - 1)
  <2>1. CASE k = n + 1
    <3>1. LineIs(control, LineOf(e), e, n) /\ control'[k].prev_line = LineOf(e) /\ control'[k].entry = e /\ k - 1 = n
      BY <1>1, <1>2, <1>3, <1>5, <1>7, <1>9, <2>1
    <3>2. \A i : i \in 1..n /\ Over(control', i, e) <=> i \in 1..n /\ Over(control, i, e)
      BY <1>6
    <3>3. LineIs(control', LineOf(e), e, n)
      BY <1>1, <3>1, <3>2, SameLine
    <3> QED BY <3>1, <3>3
  <2>2. CASE k # n + 1
    <3>1. k \in 1..n /\ k \in Nat \ {0} /\ control'[k] = control[k]
      BY <1>1, <1>3, <2>2
    <3>2. \A i \in 1..(k - 1) : i \in 1..n
      BY <1>1, <3>1
    <3>3. \A i \in 1..(k - 1) : \A x : Over(control', i, x) <=> Over(control, i, x)
      BY <1>6, <3>2
    <3> QED BY <1>1, <1>7, <1>9, <3>1, <3>3, SamePrevLine
  <2> QED BY <2>1, <2>2
<1> QED BY <1>3, <1>4, <1>8, <1>9, LinesForm DEF PrevLines

\* The end of a for-loop: the line is again the one before.
LEMMA EndForLines ==
  ASSUME ReadonlyInv, TypeOK', NEW s, EndFor(s),
         control' = SubSeq(control, 1, Len(control) - 1)
  PROVE  LinesExact' /\ PrevLinesExact'
<1> DEFINE n == Len(control)
           f == control[n]
<1>1. Fits(s) /\ s.node = "End" /\ f.node = "For"
  BY DEF EndFor, Walk, Innermost
<1>2. control # << >>
  BY <1>1 DEF Fits
<1>3. control \in Seq(Frames)
  BY DEF ReadonlyInv, TypeOK
<1>4. n \in Nat \ {0} /\ DOMAIN control = 1..n /\ control' \in Seq(Frames) /\ Len(control') = n - 1
  BY <1>2, <1>3, Front
<1>5. DOMAIN control' = 1..(n - 1) /\ \A i \in 1..(n - 1) : control'[i] = control[i]
  BY <1>2, <1>3, <1>4, Front
<1>6. /\ DOMAIN entries' = DOMAIN entries
      /\ \A i \in DOMAIN entries : entries'[i].line = IF i = f.entry THEN f.prev_line ELSE entries[i].line
  <2>1. entries' = [i \in DOMAIN entries |->
          IF i = f.entry THEN [entries[i] EXCEPT !.readonly = f.prev_readonly, !.line = f.prev_line] ELSE entries[i]]
    BY DEF EndFor, Innermost, Restored
  <2>2. \A i \in DOMAIN entries : entries[i] \in Entry
    BY DEF ReadonlyInv, TypeOK
  <2> QED BY <2>1, <2>2 DEF Entry
<1>7. \A x \in DOMAIN entries : x # NULL
  BY LineFacts DEF ReadonlyInv, NULL
<1>8. /\ \A x \in DOMAIN entries : LineIs(control, entries[x].line, x, n)
      /\ PrevLines(control)
  BY LinesForm DEF ReadonlyInv
<1>9. n - 1 \in Nat /\ n \in DOMAIN control
  BY <1>4
<1>10. f = control[n]
  OBVIOUS
<1> HIDE DEF n, f
<1>11. \A x : \A i \in 1..(n - 1) : Over(control', i, x) <=> Over(control, i, x)
  BY <1>5 DEF Over
<1>12. ASSUME NEW x \in DOMAIN entries PROVE LineIs(control', entries'[x].line, x, n - 1)
  <2>1. CASE x = f.entry
    <3>1. LineIs(control, f.prev_line, x, n - 1)
      BY <1>1, <1>7, <1>8, <1>9, <1>10, <2>1 DEF PrevLines
    <3>2. entries'[x].line = f.prev_line
      BY <1>6, <2>1
    <3> QED BY <1>9, <1>11, <3>1, <3>2, SameLine
  <2>2. CASE x # f.entry
    <3>1. entries'[x].line = entries[x].line /\ LineIs(control, entries[x].line, x, n) /\ ~Over(control, n, x)
      BY <1>6, <1>8, <1>10, <2>2 DEF Over
    <3>2. \A i : i \in 1..n <=> i \in 1..(n - 1) \/ i = n
      BY <1>4
    <3>3. \A i : i \in 1..(n - 1) /\ Over(control', i, x) <=> i \in 1..n /\ Over(control, i, x)
      BY <1>11, <3>1, <3>2
    <3> QED BY <1>4, <1>9, <3>1, <3>3, SameLine
  <2> QED BY <2>1, <2>2
<1>13. ASSUME NEW k \in 1..(n - 1), control'[k].node = "For", control'[k].entry # NULL
       PROVE  LineIs(control', control'[k].prev_line, control'[k].entry, k - 1)
  <2>1. k \in DOMAIN control /\ k \in Nat \ {0} /\ control'[k] = control[k]
    BY <1>4, <1>5
  <2>2. \A i \in 1..(k - 1) : i \in 1..(n - 1)
    BY <1>4, <2>1
  <2> QED BY <1>8, <1>11, <1>13, <2>1, <2>2, SamePrevLine
<1> QED BY <1>4, <1>5, <1>6, <1>12, <1>13, LinesForm DEF PrevLines, n

LEMMA BooksStep ==
  ASSUME ReadonlyInv, [Next]_vars, TypeOK'
  PROVE  ReadonlyExact' /\ PrevExact' /\ LinesExact' /\ PrevLinesExact'
<1>1. TypeOK /\ Len(control) \in Nat /\ control \in Seq(Frames) /\ entries \in Seq(Entry)
  BY DEF ReadonlyInv, TypeOK
<1> DEFINE Books == ReadonlyExact' /\ PrevExact' /\ LinesExact' /\ PrevLinesExact'
           SameEntries == \A e \in DOMAIN entries' :
             /\ entries'[e].readonly <=> e \in DOMAIN entries /\ entries[e].readonly
             /\ entries'[e].line = IF e \in DOMAIN entries THEN entries[e].line ELSE 0
           SameLoops == \A i : i \in DOMAIN control' /\ control'[i].node = "For" <=> i \in DOMAIN control /\ control[i].node = "For"
           SameFrames == \A i \in DOMAIN control : control[i].node = "For" => control'[i] = control[i]
<1>2. UNCHANGED entries => SameEntries
  OBVIOUS
<1>3. UNCHANGED control => SameLoops /\ SameFrames
  OBVIOUS
<1>4. SameEntries /\ SameLoops /\ SameFrames => Books
  BY NoLoopStep, NoLoopLines
<1> HIDE DEF SameEntries, SameLoops, SameFrames
<1>5. ASSUME NEW v \in NameTypes, scopes # << >>, add_node_var_to_SD(v) PROVE SameEntries
  BY <1>1, <1>5, AddVar DEF SameEntries
<1>6. ASSUME NEW E, entries' = Logged(E) PROVE SameEntries
  <2>1. \A e \in DOMAIN entries :
          entries'[e].readonly = entries[e].readonly /\ entries'[e].line = entries[e].line
    BY <1>1, <1>6, LoggedOK
  <2>2. DOMAIN entries' = DOMAIN entries
    BY <1>6 DEF Logged
  <2> QED BY <2>1, <2>2 DEF SameEntries
<1>7. ASSUME NEW f, control' = Append(control, f), f.node # "For" PROVE SameLoops /\ SameFrames
  <2>1. /\ DOMAIN control = 1..Len(control) /\ DOMAIN control' = 1..(Len(control) + 1)
        /\ control'[Len(control) + 1] = f /\ \A i \in 1..Len(control) : control'[i] = control[i]
    BY <1>1, <1>7
  <2> QED BY <1>1, <1>7, <2>1 DEF SameLoops, SameFrames
<1>8. CASE UNCHANGED <<entries, control>>
  BY <1>2, <1>3, <1>4, <1>8
<1>9. CASE Param
  <2>1. /\ pc = "params" /\ mod \in DOMAIN input.modules /\ param \in Nat \ {0}
        /\ param <= Len(Params(ModuleNode)) /\ UNCHANGED control
        /\ add_node_var_to_SD(Params(ModuleNode)[param])
    BY <1>9 DEF Param, ReadonlyInv, TypeOK
  <2>2. input.modules \in Seq(Modules)
    BY <1>1, InputsAssumption DEF TypeOK
  <2>3. ModuleNode \in Modules
    BY <2>1, <2>2, ElementOfSeq DEF ModuleNode
  <2>4. Params(ModuleNode) \in Seq(NameTypes)
    BY <2>3, ConcatProperties DEF Params, Modules
  <2>5. Params(ModuleNode)[param] \in NameTypes
    BY <2>1, <2>4
  <2>6. Len(scopes) = Len(control) + 2
    BY <1>1, <2>1 DEF TypeOK
  <2>7. scopes # << >>
    BY <1>1, <2>6, EmptySeq
  <2> QED BY <1>3, <1>4, <1>5, <2>1, <2>5, <2>7
<1>10. ASSUME NEW s \in input.stmts \cup {EndStmt}, Statement(s)
       PROVE  Books
  <2>1. StatementShape(s) \/ s = EndStmt
    BY <1>1, InputsAssumption DEF TypeOK
  <2>2. Walk(s)
    BY <1>10 DEF Statement, Decl, Assn, Input, Output, FCall, While, For, Switch, Case, Default, End,
           EndWhile, EndFor, EndSwitch
  <2>3. CASE Decl(s)
    <3>1. s.var \in NameTypes
      BY <2>1, <2>3 DEF Decl, StatementShape, EndStmt
    <3>2. add_node_var_to_SD(s.var) /\ UNCHANGED control
      BY <2>3 DEF Decl
    <3>3. Len(scopes) = Len(control) + 2
      BY <1>1, <2>2 DEF TypeOK, Walk
    <3>4. scopes # << >>
      BY <1>1, <3>3, EmptySeq
    <3> QED BY <1>3, <1>4, <1>5, <3>1, <3>2, <3>4
  <2>4. CASE Assn(s) \/ FCall(s)
    <3>1. UNCHANGED control /\ (UNCHANGED entries \/ \E E : entries' = Logged(E))
      BY <2>4 DEF Assn, FCall
    <3> QED BY <1>2, <1>3, <1>4, <1>6, <3>1
  <2>5. CASE Input(s) \/ Output(s)
    BY <1>8, <2>5 DEF Input, Output
  <2>6. CASE While(s)
    BY <1>2, <1>4, <1>7, <2>6 DEF While
  <2>7. CASE For(s)
    <3>1. s.name \in Names
      BY <2>1, <2>7 DEF For, StatementShape, EndStmt
    <3> QED BY <2>7, <3>1, ForStep, ForLines
  <2>8. CASE Switch(s)
    <3>1. UNCHANGED entries /\ \E f : control' = Append(control, f) /\ f.node # "For"
      BY <2>8 DEF Switch
    <3> QED BY <1>2, <1>4, <1>7, <3>1
  <2>9. CASE Case(s) \/ Default(s)
    <3>1. control # << >> /\ Innermost.node = "Switch" /\ UNCHANGED entries
      BY <2>2, <2>9 DEF Walk, Fits, InSwitch, Case, Default
    <3>2. Len(control) \in DOMAIN control /\ Innermost = control[Len(control)]
      BY <1>1, <3>1, Front DEF Innermost
    <3>3. Innermost \in [node : {"Switch"}, type : Types \cup {TYPE_ERROR}, bools : SUBSET {"true", "false"},
                         cases : {0, 1}, default : BOOLEAN]
      BY <1>1, <3>1, <3>2 DEF Frames
    <3>4. \E f : f.node = "Switch" /\ control' = [control EXCEPT ![Len(control)] = f]
      <4>1. CASE Case(s)
        BY <2>9, <3>3, <4>1 DEF Case
      <4>2. CASE Default(s)
        BY <2>9, <3>3, <4>2 DEF Default
      <4> QED BY <2>9, <4>1, <4>2
    <3>5. SameLoops /\ SameFrames
      BY <1>1, <3>1, <3>2, <3>4 DEF SameLoops, SameFrames
    <3> QED BY <1>2, <1>4, <3>1, <3>5
  <2>10. CASE End(s)
    <3>1. control' = SubSeq(control, 1, Len(control) - 1) /\ control # << >>
      BY <2>2, <2>10 DEF End, Walk, Fits, EndWhile, EndFor, EndSwitch
    <3>2. CASE EndFor(s)
      BY <3>1, <3>2, EndForStep, EndForLines
    <3>3. CASE ~EndFor(s)
      <4>1. UNCHANGED entries /\ control[Len(control)].node # "For"
        BY <2>10, <3>3 DEF End, EndWhile, EndSwitch, Innermost
      <4>2. /\ Len(control) \in Nat \ {0} /\ DOMAIN control' = 1..(Len(control) - 1)
            /\ \A i \in 1..(Len(control) - 1) : control'[i] = control[i]
        BY <1>1, <3>1, Front
      <4>3. DOMAIN control = 1..Len(control)
        BY <1>1
      <4>4. SameLoops /\ SameFrames
        BY <4>1, <4>2, <4>3 DEF SameLoops, SameFrames
      <4> QED BY <1>2, <1>4, <4>1, <4>4
    <3> QED BY <3>2, <3>3
  <2> QED BY <1>10, <2>3, <2>4, <2>5, <2>6, <2>7, <2>8, <2>9, <2>10 DEF Statement
<1>11. CASE Prologue \/ EnterModule \/ EnterBody \/ LeaveModule \/ Epilogue \/ Done \/ UNCHANGED vars
  BY <1>8, <1>11 DEF Prologue, EnterModule, EnterBody, LeaveModule, Epilogue, Done, vars
<1> QED BY <1>9, <1>10, <1>11 DEF Next

\* The inductive invariant of the books kept around loops (compiler.c:432-476).
THEOREM ReadonlyInvariant == Spec => []ReadonlyInv
<1>1. Init => ReadonlyInv
  <2>1. Init => TypeOK
    BY InitTypes
  <2> QED BY <2>1 DEF Init, ReadonlyInv, ReadonlyExact, PrevExact, LinesExact, PrevLinesExact
<1>2. ReadonlyInv /\ [Next]_vars => ReadonlyInv'
  <2>1. ReadonlyInv /\ [Next]_vars => TypeOK'
    BY TypeStep DEF ReadonlyInv
  <2> QED BY <2>1, BooksStep DEF ReadonlyInv
<1> QED BY <1>1, <1>2, PTL DEF Spec

\* The marks of the variables are those of the open for-loops: an assignment to
\* one is an error, with the line of the innermost loop over it, and after the
\* loop everything is as it was.
THEOREM MarksCorrect == Spec => []LoopMarksExact
<1>1. ReadonlyInv => LoopMarksExact
  BY DEF ReadonlyInv, LoopMarksExact
<1> QED BY ReadonlyInvariant, <1>1, PTL

-----------------------------------------------------------------------------
(* Output parameters. *)

\* The parameters declared so far are in the module's scope, the second one.
ParamsInv ==
  /\ pc \in {"params", "body"} =>
       \A i \in DOMAIN Params(ModuleNode) : i < param => scopes[2][Params(ModuleNode)[i].name] # NULL
  /\ pc = "body" => param > Len(Params(ModuleNode))

\* A declaration takes no name away.
LEMMA AddVarKeeps ==
  ASSUME TypeOK, scopes # << >>, NEW v \in NameTypes, add_node_var_to_SD(v),
         NEW k \in DOMAIN scopes, NEW x \in Names
  PROVE  /\ scopes[k][x] # NULL => scopes'[k][x] # NULL
         /\ scopes'[Len(scopes)][v.name] # NULL
<1>1. scopes \in Seq([Names -> 0..Len(entries)]) /\ Len(entries) \in Nat /\ Len(scopes) \in DOMAIN scopes
  BY Front DEF TypeOK
<1>2. CASE Declared(v.name)
  BY <1>2 DEF Declared, add_node_var_to_SD
<1>3. CASE ~Declared(v.name)
  <2> DEFINE top == Len(scopes)
  <2>1. scopes' = [scopes EXCEPT ![top] = [scopes[top] EXCEPT ![v.name] = Len(entries')]]
    BY <1>3 DEF add_node_var_to_SD
  <2>2. Len(entries') # NULL
    BY <1>1, <1>3 DEF add_node_var_to_SD, NULL, TypeOK
  <2>3. scopes[top] \in [Names -> 0..Len(entries)] /\ v.name \in Names
    BY <1>1, ElementOfSeq DEF NameTypes
  <2>4. scopes'[top] = [scopes[top] EXCEPT ![v.name] = Len(entries')]
    BY <1>1, <2>1
  <2>5. scopes'[top][v.name] = Len(entries')
    BY <2>3, <2>4
  <2>6. k # top => scopes'[k] = scopes[k]
    BY <2>1
  <2>7. ASSUME scopes[k][x] # NULL PROVE scopes'[k][x] # NULL
    <3>1. CASE k = top
      BY <2>2, <2>3, <2>4, <2>7, <3>1
    <3>2. CASE k # top
      BY <2>6, <2>7, <3>2
    <3> QED BY <3>1, <3>2
  <2> QED BY <2>2, <2>5, <2>7
<1> QED BY <1>2, <1>3

\* A statement leaves the names of the module's scope bound.
LEMMA StatementKeepsNames ==
  ASSUME TypeOK, NEW s \in input.stmts \cup {EndStmt}, Statement(s), NEW x \in Names, scopes[2][x] # NULL
  PROVE  scopes'[2][x] # NULL
<1>1. StatementShape(s) \/ s = EndStmt
  BY InputsAssumption DEF TypeOK
<1>2. Walk(s)
  BY DEF Statement, Decl, Assn, Input, Output, FCall, While, For, Switch, Case, Default, End,
         EndWhile, EndFor, EndSwitch
<1>3. Len(scopes) = Len(control) + 2 /\ Len(control) \in Nat /\ scopes \in Seq([Names -> 0..Len(entries)])
  BY <1>2 DEF Walk, TypeOK
<1>4. 2 \in DOMAIN scopes /\ scopes # << >>
  BY <1>3, EmptySeq
<1>5. CASE Decl(s)
  <2>1. s.var \in NameTypes /\ add_node_var_to_SD(s.var)
    BY <1>1, <1>5 DEF Decl, StatementShape, EndStmt
  <2> QED BY <1>4, <2>1, AddVarKeeps
<1>6. CASE While(s) \/ For(s) \/ Switch(s)
  <2>1. scopes' = Append(scopes, NoNames)
    BY <1>6 DEF While, For, Switch, SD_add_scope
  <2>2. scopes'[2] = scopes[2]
    BY <1>3, <1>4, <2>1
  <2> QED BY <2>2
<1>7. CASE End(s)
  <2>1. control # << >> /\ scopes' = SubSeq(scopes, 1, Len(scopes) - 1)
    BY <1>2, <1>7 DEF End, Walk, Fits, EndWhile, EndFor, EndSwitch, SD_remove_scope
  <2>2. Len(control) >= 1
    <3>1. control \in Seq(Frames)
      BY DEF TypeOK
    <3>2. Len(control) \in Nat \ {0}
      BY <2>1, <3>1, Front
    <3> QED BY <3>2
  <2>3. 2 \in 1..(Len(scopes) - 1)
    BY <1>3, <2>2
  <2>4. scopes'[2] = scopes[2]
    BY <1>3, <1>4, <2>1, <2>3, Front
  <2> QED BY <2>4
<1>8. CASE Assn(s) \/ Input(s) \/ Output(s) \/ FCall(s) \/ Case(s) \/ Default(s)
  BY <1>8 DEF Assn, Input, Output, FCall, Case, Default
<1> QED BY <1>5, <1>6, <1>7, <1>8 DEF Statement

LEMMA ParamsStep ==
  ASSUME TypeOK, ParamsInv, [Next]_vars
  PROVE  ParamsInv'
<1> DEFINE P == Params(ModuleNode)
<1>1. ASSUME mod \in DOMAIN input.modules
      PROVE  P \in Seq(NameTypes) /\ \A i \in DOMAIN P : P[i].name \in Names
  <2>1. input.modules \in Seq(Modules)
    BY InputsAssumption DEF TypeOK
  <2>2. ModuleNode \in Modules
    BY <1>1, <2>1, ElementOfSeq DEF ModuleNode
  <2>3. P \in Seq(NameTypes)
    BY <2>2, ConcatProperties DEF Params, Modules
  <2>4. \A i \in DOMAIN P : P[i] \in NameTypes
    BY <2>3
  <2> QED BY <2>3, <2>4 DEF NameTypes
<1>2. param \in Nat \ {0}
  BY DEF TypeOK
<1>3. CASE pc' \notin {"params", "body"}
  BY <1>3 DEF ParamsInv
<1>4. CASE EnterModule
  <2>1. param' = 1 /\ pc' = "params"
    BY <1>4 DEF EnterModule
  <2>2. UNCHANGED <<input, mod>> /\ mod \in DOMAIN input.modules
    BY <1>4 DEF EnterModule, TypeOK
  <2>3. Params(ModuleNode)' = P
    BY <2>2 DEF ModuleNode, Params
  <2>4. \A i \in DOMAIN P : ~(i < 1)
    BY <1>1, <2>2
  <2> QED BY <2>1, <2>3, <2>4 DEF ParamsInv
<1>5. CASE Param
  <2>1. /\ pc = "params" /\ mod \in DOMAIN input.modules /\ param <= Len(P) /\ add_node_var_to_SD(P[param])
        /\ param' = param + 1 /\ UNCHANGED <<input, pc, mod>>
    BY <1>5 DEF Param, TypeOK
  <2>2. control = << >> /\ Len(scopes) = Len(control) + 2
    BY <2>1 DEF TypeOK
  <2>3. Len(scopes) = 2 /\ scopes # << >> /\ 2 \in DOMAIN scopes
    <3>1. Len(scopes) = 2
      BY <2>2
    <3>2. scopes \in Seq([Names -> 0..Len(entries)])
      BY DEF TypeOK
    <3> QED BY <3>1, <3>2, EmptySeq
  <2>4. param \in DOMAIN P /\ P[param] \in NameTypes
    BY <1>1, <1>2, <2>1
  <2>5. Params(ModuleNode)' = P
    BY <2>1 DEF ModuleNode, Params
  <2>6. ASSUME NEW i \in DOMAIN P, i < param + 1
        PROVE  scopes'[2][P[i].name] # NULL
    <3>1. CASE i = param
      BY <1>1, <2>1, <2>3, <2>4, <3>1, AddVarKeeps
    <3>2. CASE i # param
      <4>1. i < param
        BY <1>1, <1>2, <2>1, <2>6, <3>2
      <4>2. scopes[2][P[i].name] # NULL
        BY <2>1, <4>1 DEF ParamsInv
      <4> QED BY <1>1, <2>1, <2>3, <2>4, <4>2, AddVarKeeps
    <3> QED BY <3>1, <3>2
  <2> QED BY <2>1, <2>5, <2>6 DEF ParamsInv
<1>6. CASE EnterBody
  <2>1. pc = "params" /\ param > Len(P) /\ UNCHANGED <<input, mod, param, scopes>>
    BY <1>6 DEF EnterBody
  <2>2. Params(ModuleNode)' = P
    BY <2>1 DEF ModuleNode, Params
  <2> QED BY <2>1, <2>2 DEF ParamsInv
<1>7. ASSUME NEW s \in input.stmts \cup {EndStmt}, Statement(s)
      PROVE  ParamsInv'
  <2>1. Walk(s)
    BY <1>7 DEF Statement, Decl, Assn, Input, Output, FCall, While, For, Switch, Case, Default, End,
           EndWhile, EndFor, EndSwitch
  <2>2. pc = "body" /\ UNCHANGED <<input, mod, param>> /\ mod \in DOMAIN input.modules
    BY <2>1 DEF Walk, TypeOK
  <2>3. Params(ModuleNode)' = P
    BY <2>2 DEF ModuleNode, Params
  <2>4. ASSUME NEW i \in DOMAIN P, i < param
        PROVE  scopes'[2][P[i].name] # NULL
    <3>1. scopes[2][P[i].name] # NULL
      BY <2>2, <2>4 DEF ParamsInv
    <3> QED BY <1>1, <1>7, <2>2, <3>1, StatementKeepsNames
  <2> QED BY <2>2, <2>3, <2>4 DEF ParamsInv
<1>8. CASE Prologue \/ LeaveModule \/ Epilogue
  BY <1>3, <1>8 DEF Prologue, LeaveModule, Epilogue
<1>9. CASE Done \/ UNCHANGED vars
  BY <1>9 DEF Done, vars, ParamsInv, Params, ModuleNode
<1> QED BY <1>4, <1>5, <1>6, <1>7, <1>8, <1>9 DEF Next

\* After its body, every output parameter of a module is found again
\* (compiler.c:380): the entry is used there without a test.
THEOREM OutputsFound == Spec => []OutputsBound
<1>1. Init => TypeOK /\ ParamsInv
  BY InitTypes DEF Init, ParamsInv
<1>2. TypeOK /\ ParamsInv /\ [Next]_vars => (TypeOK /\ ParamsInv)'
  BY TypeStep, ParamsStep
<1>3. TypeOK /\ ParamsInv => OutputsBound
  <2> SUFFICES ASSUME TypeOK, ParamsInv, pc = "body", NEW i \in DOMAIN ModuleNode.outs
               PROVE  SD_get_entry(ModuleNode.outs[i].name) # NULL
    BY DEF OutputsBound
  <2> DEFINE x == ModuleNode.outs[i].name
             P == Params(ModuleNode)
             in == {k \in DOMAIN scopes : scopes[k][x] # NULL}
  <2>1. input.modules \in Seq(Modules) /\ mod \in DOMAIN input.modules
    BY InputsAssumption DEF TypeOK
  <2>2. ModuleNode.ins \in Seq(NameTypes) /\ ModuleNode.outs \in Seq(NameTypes)
    <3>1. ModuleNode \in Modules
      BY <2>1, ElementOfSeq DEF ModuleNode
    <3> QED BY <3>1 DEF Modules
  <2>3. PICK j \in DOMAIN P : P[j].name = x /\ j <= Len(P)
    <3>1. \A a, b \in Seq(NameTypes) : \A k \in DOMAIN b :
            /\ (a \o b)[Len(a) + k] = b[k] /\ Len(a) + k <= Len(a \o b)
            /\ Len(a) + k \in DOMAIN (a \o b)
      OBVIOUS
    <3> QED BY <2>2, <3>1 DEF Params
  <2>4. param > Len(P) /\ param \in Nat /\ Len(P) \in Nat /\ j \in Nat
    <3>1. P \in Seq(NameTypes)
      BY <2>2, ConcatProperties DEF Params
    <3> QED BY <2>3, <3>1 DEF ParamsInv, TypeOK
  <2>5. scopes[2][x] # NULL
    BY <2>3, <2>4 DEF ParamsInv
  <2>6. 2 \in DOMAIN scopes /\ Len(scopes) \in Nat /\ in \subseteq 0..Len(scopes)
    BY DEF TypeOK
  <2>7. \E k \in in : \A l \in in : l <= k
    BY <2>5, <2>6, Greatest
  <2>8. (CHOOSE k \in in : \A l \in in : l <= k) \in in
    BY <2>7
  <2>9. SD_get_entry(x) = scopes[CHOOSE k \in in : \A l \in in : l <= k][x]
    BY <2>8 DEF SD_get_entry
  <2> QED BY <2>8, <2>9
<1> QED BY <1>1, <1>2, <1>3, PTL DEF Spec
=============================================================================
