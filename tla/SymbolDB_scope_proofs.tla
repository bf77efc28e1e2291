------------------------ MODULE SymbolDB_scope_proofs ------------------------
(***************************************************************************)
(* Proofs about the names in the symbol database, for any set of names and *)
(* any number of tables and addresses: the list of entries and the maps of *)
(* the tables describe the same declarations, and the tree of tables       *)
(* implements block-structured visibility (module Scopes).                 *)
(***************************************************************************)
EXTENDS SymbolDB_proofs, SequenceTheorems, WellFoundedInduction

-----------------------------------------------------------------------------
(* What the operations do to the maps. *)

Vars == {a \in addrs : a.addr_type = "var"}

\* The table t keeps its place, its names and the number of its addresses.
Kept(t) == /\ tables'[t].parent = tables[t].parent /\ tables'[t].vmap = tables[t].vmap
           /\ tables'[t].naddrs = tables[t].naddrs

LEMMA ScopeAdded ==
  ASSUME TypeOK, TreeInv, SD_add_scope
  PROVE  /\ NewTable \notin Tables /\ NewTable \in Nat /\ (\A t \in Tables : t < NewTable)
         /\ active \in Tables /\ Tables' = Tables \cup {NewTable} /\ active' = NewTable
         /\ \A t \in Tables : Kept(t)
         /\ tables'[NewTable].parent = active /\ tables'[NewTable].naddrs = 0
         /\ \A n \in Names : tables'[NewTable].vmap[n] = NULL
         /\ UNCHANGED <<entries, addrs>>
<1>1. /\ NewTable \notin Tables /\ NewTable \in Nat /\ (\A t \in Tables : t < NewTable)
      /\ active \in Tables /\ Tables' = Tables \cup {NewTable} /\ active' = NewTable
      /\ tables'[NewTable] = ST_init(active, level + 1)
      /\ tables'[active] = [tables[active] EXCEPT !.last_child = NewTable]
      /\ \A t \in Tables \ {active} : tables'[t] = tables[t]
      /\ UNCHANGED <<entries, addrs>>
  BY AddScopeFacts
<1>2. tables[active] \in Table
  BY <1>1 DEF TypeOK
<1>3. Kept(active)
  BY <1>1, <1>2 DEF Kept, Table
<1>4. \A t \in Tables : Kept(t)
  BY <1>1, <1>3 DEF Kept
<1>5. /\ tables'[NewTable].parent = active /\ tables'[NewTable].naddrs = 0
      /\ \A n \in Names : tables'[NewTable].vmap[n] = NULL
  BY <1>1 DEF ST_init
<1> QED BY <1>1, <1>4, <1>5

LEMMA ScopeRemoved ==
  ASSUME TypeOK, TreeInv, SD_remove_scope
  PROVE  /\ active \in Tables \ {ROOT} /\ tables[active].parent \in Tables
         /\ Tables' = Tables /\ active' = tables[active].parent
         /\ \A t \in Tables : Kept(t)
         /\ UNCHANGED <<entries, addrs>>
<1> DEFINE parent == tables[active].parent
<1>1. /\ active \in Tables \ {ROOT} /\ parent \in Tables
      /\ Tables' = Tables /\ active' = parent
      /\ tables'[parent] =
           [tables[parent] EXCEPT !.max_offset = Max2(tables[parent].max_offset, tables[active].max_offset)]
      /\ \A t \in Tables \ {parent} : tables'[t] = tables[t]
      /\ UNCHANGED <<entries, addrs>>
  BY RemoveScopeFacts
<1> HIDE DEF parent
<1>2. tables[parent] \in Table
  BY <1>1 DEF TypeOK
<1>3. Kept(parent)
  BY <1>1, <1>2 DEF Kept, Table
<1>4. \A t \in Tables : Kept(t)
  BY <1>1, <1>3 DEF Kept
<1> QED BY <1>1, <1>4 DEF parent

\* An AddrNode is added to the active table, whose map becomes vmap.
Added(an, vmap) ==
  /\ active \in Tables \ {ROOT} /\ Tables' = Tables /\ active' = active
  /\ \A t \in Tables \ {active} : Kept(t)
  /\ tables'[active].parent = tables[active].parent /\ tables'[active].vmap = vmap
  /\ tables'[active].naddrs = tables[active].naddrs + 1
  /\ addrs' = addrs \cup {an} /\ an.st = active /\ an.id = tables[active].naddrs
  /\ Cardinality(addrs) < MaxAddrs

LEMMA AddrAdded ==
  ASSUME TypeOK,
         NEW addr_type \in AddrTypes, NEW type \in UsedTypes, NEW size \in {0} \cup ArraySizes,
         NEW vmap \in [Names -> Nat \cup {NULL}], AddStep(addr_type, type, size, vmap)
  PROVE  /\ Added(NewAddr(addr_type, type, size), vmap)
         /\ NewAddr(addr_type, type, size).addr_type = addr_type
<1> DEFINE an == NewAddr(addr_type, type, size)
<1>1. an.st = active /\ an.id = tables[active].naddrs /\ an.addr_type = addr_type
  BY DEF NewAddr
<1>2. active \in Tables \ {ROOT} /\ active' = active /\ SD_add_addr(an, vmap)
  BY DEF AddStep, CanAdd, TypeOK
<1> HIDE DEF an
<1>3. PICK m : tables' = [tables EXCEPT ![active] =
                 [tables[active] EXCEPT !.naddrs = tables[active].naddrs + 1, !.vmap = vmap, !.max_offset = m]]
  BY <1>2 DEF SD_add_addr
<1>4. addrs' = addrs \cup {an}
  BY <1>2 DEF SD_add_addr
<1>5. /\ Tables' = Tables /\ \A t \in Tables \ {active} : Kept(t)
      /\ tables'[active].parent = tables[active].parent /\ tables'[active].vmap = vmap
      /\ tables'[active].naddrs = tables[active].naddrs + 1
  <2>1. tables[active] \in Table /\ active \in DOMAIN tables
    BY <1>2 DEF TypeOK, Tables
  <2>2. /\ DOMAIN tables' = DOMAIN tables /\ \A t \in DOMAIN tables \ {active} : tables'[t] = tables[t]
        /\ tables'[active] = [tables[active] EXCEPT !.naddrs = tables[active].naddrs + 1, !.vmap = vmap,
                                                    !.max_offset = m]
    BY <1>3, <2>1
  <2> QED BY <2>1, <2>2 DEF Kept, Table, Tables
<1>6. Cardinality(addrs) < MaxAddrs
  BY DEF AddStep, CanAdd
<1>7. Added(an, vmap)
  BY <1>1, <1>2, <1>4, <1>5, <1>6 DEF Added
<1> QED BY <1>1, <1>7 DEF an

\* A declaration, a literal, a temporary or an array element.
DeclareStep(n, an) ==
  /\ Added(an, [tables[active].vmap EXCEPT ![n] = an.id]) /\ an.addr_type = "var"
  /\ tables[active].vmap[n] = NULL
  /\ entries' = Append(entries, [lexeme |-> n, addr |-> <<active, an.id>>])
AddrStep(an) ==
  /\ Added(an, tables[active].vmap) /\ an.addr_type # "var" /\ entries' = entries
NamesUnchanged == LayoutUnchanged /\ entries' = entries

\* The kinds of steps the names can tell apart.
LEMMA NameCases ==
  ASSUME TypeOK, [Next]_vars
  PROVE  \/ SD_add_scope \/ SD_remove_scope \/ SD_clear \/ NamesUnchanged
         \/ \E an : AddrStep(an)
         \/ \E n \in Names : \E an : DeclareStep(n, an)
<1>1. ASSUME NEW addr_type \in AddrTypes \ {"var"}, NEW type \in UsedTypes, AddAddr(addr_type, type)
      PROVE  \E an : AddrStep(an)
  <2>1. tables[active].vmap \in [Names -> Nat \cup {NULL}]
    BY <1>1 DEF AddAddr, CanAdd, TypeOK, Table
  <2>2. AddStep(addr_type, type, 0, tables[active].vmap) /\ entries' = entries
    BY <1>1 DEF AddAddr, AddStep
  <2>3. 0 \in {0} \cup ArraySizes
    OBVIOUS
  <2>4. PICK an : an = NewAddr(addr_type, type, 0)
    OBVIOUS
  <2>5. Added(an, tables[active].vmap) /\ an.addr_type = addr_type
    BY <2>1, <2>2, <2>3, <2>4, AddrAdded
  <2> QED BY <2>2, <2>5 DEF AddrStep
<1>2. ASSUME NEW n \in Names, NEW type \in UsedTypes, NEW size \in {0} \cup ArraySizes,
             Declare(n, type, size)
      PROVE  \E an : DeclareStep(n, an)
  <2>1. PICK an : an = NewAddr("var", type, size)
    OBVIOUS
  <2>2. an.id = tables[active].naddrs
    BY <2>1 DEF NewAddr
  <2> DEFINE vmap == [tables[active].vmap EXCEPT ![n] = an.id]
  <2>3. vmap \in [Names -> Nat \cup {NULL}]
    BY <1>2, <2>2 DEF Declare, CanAdd, TypeOK, Table
  <2>4. /\ AddStep("var", type, size, vmap) /\ tables[active].vmap[n] = NULL
        /\ entries' = Append(entries, [lexeme |-> n, addr |-> <<active, an.id>>])
    BY <1>2, <2>1 DEF Declare, AddStep
  <2>5. "var" \in AddrTypes
    BY DEF AddrTypes
  <2> HIDE DEF vmap
  <2>6. Added(an, vmap) /\ an.addr_type = "var"
    BY <2>1, <2>3, <2>4, <2>5, AddrAdded
  <2> QED BY <2>4, <2>6 DEF DeclareStep, vmap
<1>3. ASSUME NEW n \in Names, Redeclare(n) PROVE NamesUnchanged
  BY <1>3 DEF Redeclare, LayoutUnchanged, NamesUnchanged
<1>4. CASE UNCHANGED vars \/ Done
  BY <1>4 DEF Done, vars, LayoutUnchanged, NamesUnchanged
<1> QED BY <1>1, <1>2, <1>3, <1>4 DEF Next

-----------------------------------------------------------------------------
(* The list of entries. *)

\* AddrNodes are numbered in the order they are added to their table, and a
\* name in a map has one of the numbers given so far.
IdsInv ==
  /\ IsFiniteSet(addrs)
  /\ \A a \in addrs : a.st \in Tables /\ a.id < tables[a.st].naddrs
  /\ \A t \in Tables : tables[t].naddrs <= Cardinality(addrs)
  /\ \A t \in Tables, n \in Names : tables[t].vmap[n] < tables[t].naddrs

\* Entry e is the declaration of name n in table t of T.
Declares(T, e, n, t) == e.lexeme = n /\ e.addr = <<t, T[t].vmap[n]>> /\ T[t].vmap[n] # NULL
HasVar(e) == \E a \in Vars : <<a.st, a.id>> = e.addr

EntriesInv ==
  /\ \A i \in 1..Len(entries) : \E n \in Names, t \in Tables : Declares(tables, entries[i], n, t)
  /\ \A n \in Names, t \in Tables :
       tables[t].vmap[n] # NULL => \E i \in 1..Len(entries) : Declares(tables, entries[i], n, t)
  /\ \A i, j \in 1..Len(entries) : entries[i].addr = entries[j].addr => i = j
  /\ \A i \in 1..Len(entries) : HasVar(entries[i])
  /\ Len(entries) = Cardinality(Vars)

NamesInv == IdsInv /\ EntriesInv

LEMMA EntriesMatch ==
  ASSUME TypeOK, EntriesInv
  PROVE  EntriesMatchTables
<1>1. entries \in Seq([lexeme : Names, addr : TableIds \X Nat]) /\ DOMAIN entries = 1..Len(entries)
  BY LenProperties DEF TypeOK
<1> DEFINE Ds == {q \in Names \X Tables : tables[q[2]].vmap[q[1]] # NULL}
           Es == {entries[i] : i \in DOMAIN entries}
           L == {<<e.lexeme, e.addr>> : e \in Es}
           R == {<<p[1], <<p[2], tables[p[2]].vmap[p[1]]>>>> : p \in Ds}
<1>2. ASSUME NEW x \in L PROVE x \in R
  <2>1. PICK i \in 1..Len(entries) : x = <<entries[i].lexeme, entries[i].addr>>
    BY <1>1
  <2>2. PICK n \in Names, t \in Tables : Declares(tables, entries[i], n, t)
    BY DEF EntriesInv
  <2>3. x = <<n, <<t, tables[t].vmap[n]>>>> /\ tables[t].vmap[n] # NULL
    BY <2>1, <2>2 DEF Declares
  <2>4. <<n, t>> \in Ds
    BY <2>3
  <2> QED BY <2>3, <2>4
<1>3. ASSUME NEW x \in R PROVE x \in L
  <2>1. PICK p \in Ds : x = <<p[1], <<p[2], tables[p[2]].vmap[p[1]]>>>>
    OBVIOUS
  <2>2. p[1] \in Names /\ p[2] \in Tables /\ tables[p[2]].vmap[p[1]] # NULL
    BY <2>1
  <2>3. PICK i \in 1..Len(entries) : Declares(tables, entries[i], p[1], p[2])
    BY <2>2 DEF EntriesInv
  <2>4. x = <<entries[i].lexeme, entries[i].addr>>
    BY <2>1, <2>3 DEF Declares
  <2>5. entries[i] \in Es
    BY <1>1
  <2> QED BY <2>4, <2>5
<1>4. L = R
  BY <1>2, <1>3
<1>5. \A i \in DOMAIN entries : \E a \in addrs : <<a.st, a.id>> = entries[i].addr /\ a.addr_type = "var"
  BY <1>1 DEF EntriesInv, HasVar, Vars
<1>6. \A i, j \in DOMAIN entries : i # j => entries[i].addr # entries[j].addr
  BY <1>1 DEF EntriesInv
<1>7. Len(entries) = Cardinality({a \in addrs : a.addr_type = "var"})
  BY DEF EntriesInv, Vars
<1> QED BY <1>4, <1>5, <1>6, <1>7 DEF EntriesMatchTables

LEMMA NamesInit == SD_init => NamesInv
<1> SUFFICES ASSUME SD_init PROVE NamesInv
  OBVIOUS
<1>1. /\ Tables = {ROOT} /\ tables[ROOT] = ST_init(NULL, 0) /\ entries = << >> /\ addrs = {} /\ Vars = {}
  BY DEF SD_init, Tables, Vars
<1>2. IsFiniteSet(addrs) /\ Cardinality(addrs) = 0
  BY <1>1, FS_EmptySet
<1>3. IdsInv
  BY <1>1, <1>2 DEF IdsInv, ST_init, NULL
<1>4. Len(entries) = 0
  BY <1>1
<1>5. Cardinality(Vars) = 0
  BY <1>1, FS_EmptySet
<1>6. \A i \in 1..Len(entries) : FALSE
  BY <1>4
<1>7. \A n \in Names, t \in Tables : tables[t].vmap[n] = NULL
  BY <1>1 DEF ST_init
<1>8. EntriesInv
  BY <1>4, <1>5, <1>6, <1>7 DEF EntriesInv
<1> QED BY <1>3, <1>8 DEF NamesInv

\* Nothing the list is about changes, but for tables without names.
LEMMA NamesKept ==
  ASSUME TypeOK, NamesInv, UNCHANGED <<addrs, entries>>, Tables \subseteq Tables', \A t \in Tables : Kept(t),
         \A t \in Tables' \ Tables : tables'[t].naddrs = 0 /\ \A n \in Names : tables'[t].vmap[n] = NULL
  PROVE  NamesInv'
<1>1. IsFiniteSet(addrs) /\ Cardinality(addrs) \in Nat
  BY FS_CardinalityType DEF NamesInv, IdsInv
<1>2. IdsInv'
  <2>1. ASSUME NEW a \in addrs PROVE a.st \in Tables' /\ a.id < tables'[a.st].naddrs
    BY DEF NamesInv, IdsInv, Kept
  <2>2. ASSUME NEW t \in Tables' PROVE tables'[t].naddrs <= Cardinality(addrs)
    <3>1. t \in Tables => tables'[t].naddrs = tables[t].naddrs /\ tables[t].naddrs <= Cardinality(addrs)
      BY DEF NamesInv, IdsInv, Kept
    <3>2. t \notin Tables => tables'[t].naddrs = 0
      OBVIOUS
    <3> QED BY <1>1, <3>1, <3>2
  <2>3. ASSUME NEW t \in Tables', NEW n \in Names PROVE tables'[t].vmap[n] < tables'[t].naddrs
    <3>1. CASE t \in Tables
      BY <3>1 DEF NamesInv, IdsInv, Kept
    <3>2. CASE t \notin Tables
      <4>1. tables'[t].naddrs = 0 /\ tables'[t].vmap[n] = -1
        BY <3>2 DEF NULL
      <4> QED BY <4>1
    <3> QED BY <3>1, <3>2
  <2> QED BY <1>1, <2>1, <2>2, <2>3 DEF IdsInv
<1>3. Vars' = Vars
  BY DEF Vars
<1>4. \A e, n : \A t \in Tables : Declares(tables, e, n, t) <=> Declares(tables', e, n, t)
  BY DEF Kept, Declares
<1>5. ASSUME NEW i \in 1..Len(entries) PROVE \E n \in Names, t \in Tables' : Declares(tables', entries[i], n, t)
  <2>1. PICK n \in Names, t \in Tables : Declares(tables, entries[i], n, t)
    BY DEF NamesInv, EntriesInv
  <2>2. t \in Tables' /\ Declares(tables', entries[i], n, t)
    BY <2>1, <1>4
  <2> QED BY <2>2
<1>6. ASSUME NEW n \in Names, NEW t \in Tables', tables'[t].vmap[n] # NULL
      PROVE  \E i \in 1..Len(entries) : Declares(tables', entries[i], n, t)
  <2>1. t \in Tables /\ tables[t].vmap[n] # NULL
    BY <1>6 DEF Kept
  <2> QED BY <2>1, <1>4 DEF NamesInv, EntriesInv
<1>7. /\ \A i \in 1..Len(entries) : HasVar(entries[i])'
      /\ \A i, j \in 1..Len(entries) : entries[i].addr = entries[j].addr => i = j
      /\ Len(entries) = Cardinality(Vars')
  BY <1>3 DEF NamesInv, EntriesInv, HasVar
<1>8. EntriesInv'
  BY <1>5, <1>6, <1>7 DEF EntriesInv
<1> QED BY <1>2, <1>8 DEF NamesInv

\* A new AddrNode has a number no other has.
LEMMA AddedFresh ==
  ASSUME TypeOK, TypeOK', IdsInv, NEW an, NEW vmap, Added(an, vmap),
         \A n \in Names : vmap[n] < tables[active].naddrs + 1
  PROVE  /\ IdsInv' /\ IsFiniteSet(addrs)
         /\ \A a \in addrs : <<a.st, a.id>> # <<an.st, an.id>>
<1>1. /\ active \in Tables /\ Tables' = Tables /\ (\A t \in Tables \ {active} : Kept(t))
      /\ tables'[active].vmap = vmap /\ tables'[active].naddrs = tables[active].naddrs + 1
      /\ addrs' = addrs \cup {an} /\ an.st = active /\ an.id = tables[active].naddrs
  BY DEF Added
<1>2. \A t \in Tables : tables[t].naddrs \in Nat
  BY DEF TypeOK, Table
<1>3. \A a \in addrs : a.st \in Tables /\ a.id < tables[a.st].naddrs /\ a.id \in Nat
  BY DEF IdsInv, TypeOK, Addr
<1>4. ASSUME NEW a \in addrs PROVE <<a.st, a.id>> # <<an.st, an.id>>
  <2>1. a.st = active => a.id # tables[active].naddrs
    BY <1>1, <1>2, <1>3
  <2> QED BY <2>1, <1>1
<1>5. an \notin addrs
  BY <1>4
<1>6. /\ IsFiniteSet(addrs) /\ IsFiniteSet(addrs') /\ Cardinality(addrs) \in Nat
      /\ Cardinality(addrs') = Cardinality(addrs) + 1
  <2>1. IsFiniteSet(addrs) /\ Cardinality(addrs) \in Nat
    BY FS_CardinalityType DEF IdsInv
  <2> QED BY <2>1, <1>1, <1>5, FS_AddElement
<1>7. ASSUME NEW a \in addrs' PROVE a.st \in Tables' /\ a.id < tables'[a.st].naddrs
  <2>1. CASE a = an
    BY <2>1, <1>1, <1>2
  <2>2. CASE a \in addrs /\ a.st = active
    BY <2>2, <1>1, <1>2, <1>3
  <2>3. CASE a \in addrs /\ a.st # active
    BY <2>3, <1>1, <1>3 DEF Kept
  <2> QED BY <2>1, <2>2, <2>3, <1>1
<1>8. ASSUME NEW t \in Tables PROVE tables'[t].naddrs <= Cardinality(addrs')
  <2>1. tables[t].naddrs <= Cardinality(addrs)
    BY DEF IdsInv
  <2>2. tables'[t].naddrs \in {tables[t].naddrs, tables[t].naddrs + 1}
    BY <1>1 DEF Kept
  <2> QED BY <2>1, <2>2, <1>2, <1>6
<1>9. ASSUME NEW t \in Tables, NEW n \in Names PROVE tables'[t].vmap[n] < tables'[t].naddrs
  <2>1. CASE t = active
    BY <2>1, <1>1
  <2>2. CASE t # active
    BY <2>2, <1>1 DEF IdsInv, Kept
  <2> QED BY <2>1, <2>2
<1>10. IdsInv'
  BY <1>1, <1>6, <1>7, <1>8, <1>9 DEF IdsInv
<1> QED BY <1>4, <1>6, <1>10

LEMMA AddrNamesStep ==
  ASSUME TypeOK, TypeOK', NamesInv, NEW an, AddrStep(an)
  PROVE  NamesInv'
<1>1. Added(an, tables[active].vmap) /\ an.addr_type # "var" /\ entries' = entries
  BY DEF AddrStep
<1>2. /\ active \in Tables /\ Tables' = Tables /\ addrs' = addrs \cup {an}
      /\ \A t \in Tables : tables'[t].vmap = tables[t].vmap
  BY <1>1 DEF Added, Kept
<1>3. IdsInv'
  <2>1. tables[active].naddrs \in Nat /\ \A n \in Names : tables[active].vmap[n] \in Nat \cup {-1}
    BY <1>2 DEF TypeOK, Table, NULL
  <2>2. \A n \in Names : tables[active].vmap[n] < tables[active].naddrs
    BY <1>2 DEF NamesInv, IdsInv
  <2>3. \A n \in Names : tables[active].vmap[n] < tables[active].naddrs + 1
    BY <2>1, <2>2
  <2> QED BY <2>3, <1>1, AddedFresh DEF NamesInv
<1>4. Vars' = Vars
  BY <1>1, <1>2 DEF Vars
<1>5. \A e, n : \A t \in Tables : Declares(tables, e, n, t) <=> Declares(tables', e, n, t)
  BY <1>2 DEF Declares
<1>6. ASSUME NEW i \in 1..Len(entries) PROVE \E n \in Names, t \in Tables : Declares(tables', entries[i], n, t)
  <2>1. PICK n \in Names, t \in Tables : Declares(tables, entries[i], n, t)
    BY DEF NamesInv, EntriesInv
  <2> QED BY <2>1, <1>5
<1>7. ASSUME NEW n \in Names, NEW t \in Tables, tables'[t].vmap[n] # NULL
      PROVE  \E i \in 1..Len(entries) : Declares(tables', entries[i], n, t)
  <2>1. tables[t].vmap[n] # NULL
    BY <1>2, <1>7
  <2> QED BY <2>1, <1>5 DEF NamesInv, EntriesInv
<1>8. /\ \A i \in 1..Len(entries) : HasVar(entries[i])'
      /\ \A i, j \in 1..Len(entries) : entries[i].addr = entries[j].addr => i = j
      /\ Len(entries) = Cardinality(Vars')
  BY <1>1, <1>4 DEF NamesInv, EntriesInv, HasVar
<1>9. EntriesInv'
  BY <1>1, <1>2, <1>6, <1>7, <1>8 DEF EntriesInv
<1> QED BY <1>3, <1>9 DEF NamesInv

\* A declaration adds one entry, one name and one AddrNode.
LEMMA DeclareNamesStep ==
  ASSUME TypeOK, TypeOK', NamesInv, NEW n \in Names, NEW an, DeclareStep(n, an)
  PROVE  NamesInv'
<1> DEFINE vmap == [tables[active].vmap EXCEPT ![n] = an.id]
           e == [lexeme |-> n, addr |-> <<active, an.id>>]
<1>1. Added(an, vmap) /\ an.addr_type = "var" /\ tables[active].vmap[n] = NULL /\ entries' = Append(entries, e)
  BY DEF DeclareStep
<1>2. /\ active \in Tables /\ Tables' = Tables /\ addrs' = addrs \cup {an} /\ an.id = tables[active].naddrs
      /\ tables'[active].vmap = vmap /\ an.st = active
      /\ \A t \in Tables \ {active} : tables'[t].vmap = tables[t].vmap
  BY <1>1 DEF Added, Kept
<1>3. /\ tables[active].naddrs \in Nat /\ tables[active].vmap \in [Names -> Nat \cup {-1}]
      /\ an.id # NULL
  BY SMTT(30), <1>2 DEF TypeOK, Table, NULL
<1>4. /\ vmap[n] = an.id /\ \A m \in Names \ {n} : vmap[m] = tables[active].vmap[m]
  BY <1>3
<1>5. e.lexeme = n /\ e.addr = <<active, an.id>>
  OBVIOUS
<1> HIDE DEF vmap, e
<1>6. IdsInv' /\ IsFiniteSet(addrs) /\ \A a \in addrs : <<a.st, a.id>> # <<an.st, an.id>>
  <2>1. \A m \in Names : tables[active].vmap[m] < tables[active].naddrs
    BY <1>2 DEF NamesInv, IdsInv
  <2>2. \A m \in Names : vmap[m] < tables[active].naddrs + 1
    BY <2>1, <1>2, <1>3, <1>4
  <2> QED BY <2>2, <1>1, AddedFresh DEF NamesInv
<1> DEFINE N == Len(entries)
<1>7. N \in Nat /\ Len(entries') = N + 1 /\ entries'[N + 1] = e /\ \A i \in 1..N : entries'[i] = entries[i]
  <2> DEFINE E == [lexeme : Names, addr : TableIds \X Nat]
  <2>1. entries \in Seq(E) /\ e \in E
    <3>1. entries \in Seq(E) /\ active \in TableIds
      BY <1>2 DEF TypeOK
    <3> QED BY <3>1, <1>2, <1>3 DEF e
  <2> HIDE DEF E
  <2>2. /\ Len(Append(entries, e)) = Len(entries) + 1
        /\ \A i \in 1..Len(entries) : Append(entries, e)[i] = entries[i]
        /\ Append(entries, e)[Len(entries) + 1] = e
    BY <2>1, AppendProperties
  <2> QED BY <2>1, <2>2, <1>1, LenProperties
<1> HIDE DEF N
<1>8. \A i \in 1..(N + 1) : i \in 1..N \/ i = N + 1
  BY <1>7
<1>9. Vars' = Vars \cup {an} /\ an \notin Vars /\ \A a \in Vars : <<a.st, a.id>> # e.addr
  BY <1>1, <1>2, <1>5, <1>6 DEF Vars
<1>10. N + 1 = Cardinality(Vars')
  <2>1. Vars \subseteq addrs
    BY DEF Vars
  <2>2. IsFiniteSet(Vars)
    BY <2>1, <1>6, FS_Subset
  <2>3. Cardinality(Vars') = Cardinality(Vars) + 1
    BY <2>2, <1>9, FS_AddElement
  <2> QED BY <2>3 DEF N, NamesInv, EntriesInv
<1>11. \A i \in 1..N : \E a \in Vars : <<a.st, a.id>> = entries[i].addr
  BY DEF N, NamesInv, EntriesInv, HasVar
<1>12. ASSUME NEW i \in 1..(N + 1) PROVE \E a \in Vars' : <<a.st, a.id>> = entries'[i].addr
  <2>1. CASE i \in 1..N
    BY <2>1, <1>7, <1>9, <1>11
  <2>2. CASE i = N + 1
    <3>1. an \in Vars' /\ <<an.st, an.id>> = e.addr
      BY <1>2, <1>5, <1>9
    <3> QED BY <2>2, <3>1, <1>7
  <2> QED BY <2>1, <2>2, <1>8
<1>13. ASSUME NEW i \in 1..(N + 1), NEW j \in 1..(N + 1), entries'[i].addr = entries'[j].addr PROVE i = j
  <2>1. \A k \in 1..N : entries[k].addr # e.addr
    BY <1>9, <1>11
  <2>2. CASE i \in 1..N /\ j \in 1..N
    BY <2>2, <1>7, <1>13 DEF N, NamesInv, EntriesInv
  <2>3. CASE i = N + 1 \/ j = N + 1
    BY <2>1, <2>3, <1>7, <1>8, <1>13
  <2> QED BY <2>2, <2>3, <1>8
<1>14. Declares(tables', e, n, active)
  BY <1>2, <1>3, <1>4, <1>5 DEF Declares
<1>15. ASSUME NEW m \in Names, NEW t \in Tables, <<m, t>> # <<n, active>>
       PROVE  tables'[t].vmap[m] = tables[t].vmap[m]
  BY <1>2, <1>4, <1>15
<1>16. ASSUME NEW i \in 1..(N + 1) PROVE \E m \in Names, t \in Tables : Declares(tables', entries'[i], m, t)
  <2>1. CASE i \in 1..N
    <3>1. PICK m \in Names, t \in Tables : Declares(tables, entries[i], m, t)
      BY <2>1 DEF N, NamesInv, EntriesInv
    <3>2. <<m, t>> # <<n, active>>
      BY <3>1, <1>1 DEF Declares
    <3>3. Declares(tables', entries[i], m, t)
      BY <3>1, <3>2, <1>15 DEF Declares
    <3> QED BY <2>1, <3>3, <1>7
  <2>2. CASE i = N + 1
    BY <2>2, <1>2, <1>7, <1>14
  <2> QED BY <2>1, <2>2, <1>8
<1>17. ASSUME NEW m \in Names, NEW t \in Tables, tables'[t].vmap[m] # NULL
       PROVE  \E i \in 1..(N + 1) : Declares(tables', entries'[i], m, t)
  <2>1. CASE <<m, t>> = <<n, active>>
    <3>1. N + 1 \in 1..(N + 1)
      BY <1>7
    <3> QED BY <2>1, <3>1, <1>7, <1>14
  <2>2. CASE <<m, t>> # <<n, active>>
    <3>1. tables'[t].vmap[m] = tables[t].vmap[m]
      BY <2>2, <1>15
    <3>2. PICK i \in 1..N : Declares(tables, entries[i], m, t)
      BY <3>1, <1>17 DEF N, NamesInv, EntriesInv
    <3>3. Declares(tables', entries[i], m, t)
      BY <3>1, <3>2 DEF Declares
    <3>4. i \in 1..(N + 1)
      BY <1>7
    <3> QED BY <3>3, <3>4, <1>7
  <2> QED BY <2>1, <2>2
<1>18. EntriesInv'
  BY <1>2, <1>7, <1>10, <1>12, <1>13, <1>16, <1>17 DEF EntriesInv, HasVar
<1> QED BY <1>6, <1>18 DEF NamesInv

LEMMA NamesStep ==
  ASSUME TypeOK, TreeInv, NamesInv, [Next]_vars, TypeOK'
  PROVE  NamesInv'
<1>1. CASE SD_add_scope
  BY <1>1, ScopeAdded, NamesKept
<1>2. CASE SD_remove_scope
  BY <1>2, ScopeRemoved, NamesKept
<1>3. CASE SD_clear
  <2>1. Tables' = {} /\ entries' = << >> /\ addrs' = {} /\ Vars' = {}
    BY <1>3 DEF SD_clear, Tables, Vars
  <2>2. IsFiniteSet({}) /\ Cardinality({}) = 0
    BY FS_EmptySet
  <2>3. IdsInv'
    BY <2>1, <2>2 DEF IdsInv
  <2>4. Len(entries') = 0 /\ \A i \in 1..Len(entries') : FALSE
    BY <2>1
  <2>5. EntriesInv'
    BY <2>1, <2>2, <2>4 DEF EntriesInv
  <2> QED BY <2>3, <2>5 DEF NamesInv
<1>4. CASE NamesUnchanged
  <2>1. UNCHANGED <<tables, addrs, entries>>
    BY <1>4 DEF NamesUnchanged, LayoutUnchanged
  <2> QED BY <2>1, NamesKept DEF Kept, Tables
<1>5. ASSUME NEW an, AddrStep(an) PROVE NamesInv'
  BY <1>5, AddrNamesStep
<1>6. ASSUME NEW n \in Names, NEW an, DeclareStep(n, an) PROVE NamesInv'
  BY <1>6, DeclareNamesStep
<1> QED BY <1>1, <1>2, <1>3, <1>4, <1>5, <1>6, NameCases

\* In every state the list of entries and the maps of the tables describe the
\* same declarations, and each has an AddrNode of its own.
THEOREM EntriesListed == Spec => []EntriesMatchTables
<1>1. SD_init => NamesInv
  BY NamesInit
<1>2. LayoutInv /\ LayoutInv' /\ NamesInv /\ [Next]_vars => NamesInv'
  BY NamesStep DEF LayoutInv
<1>3. LayoutInv /\ NamesInv => EntriesMatchTables
  BY EntriesMatch DEF LayoutInv, NamesInv
<1> QED BY <1>1, <1>2, <1>3, LayoutInvariant, PTL DEF Spec

-----------------------------------------------------------------------------
(* The walks up the tree, as functions of the tables. *)

\* The N tables of T form trees whose links go to older tables.
IsTree(T, N) ==
  N \in Nat /\ DOMAIN T = 0..(N - 1) /\ \A t \in 0..(N - 1) : T[t].parent # NULL => T[t].parent \in 0..(t - 1)

Least(S) == \E x \in S : \A y \in S : x <= y

LEMMA LeastExists ==
  ASSUME NEW S, S \subseteq Nat, S # {}
  PROVE  Least(S)
<1>1. PICK x \in S : \A y \in S : ~(<<y, x>> \in OpToRel(<, Nat))
  BY NatLessThanWellFounded, WFMin
<1>2. ASSUME NEW y \in S PROVE x <= y
  <2>1. y < x => <<y, x>> \in OpToRel(<, Nat)
    BY DEF OpToRel
  <2>2. ~(y < x)
    BY <1>1, <2>1
  <2> QED BY <2>2
<1> QED BY <1>2 DEF Least

\* The entry found from table u on, f giving it for the older tables.
VisibleAt(T, n, f, u) ==
  IF T[u].vmap[n] # NULL THEN <<u, T[u].vmap[n]>>
  ELSE IF T[u].parent = NULL THEN NoEntry
  ELSE f[T[u].parent]
Visible(T, n) ==
  LET walk[u \in DOMAIN T] ==
        IF T[u].vmap[n] # NULL THEN <<u, T[u].vmap[n]>>
        ELSE IF T[u].parent = NULL THEN NoEntry
        ELSE walk[T[u].parent]
  IN  walk

\* The path to u, f giving it for the older tables.
PathAt(T, f, u) == IF T[u].parent = NULL THEN <<u>> ELSE Append(f[T[u].parent], u)
Path(T) ==
  LET path[u \in DOMAIN T] ==
        IF T[u].parent = NULL THEN <<u>> ELSE Append(path[T[u].parent], u)
  IN  path

LEMMA VisibleExists ==
  ASSUME NEW T, NEW N, IsTree(T, N), NEW n
  PROVE  \E f : \A u \in 0..(N - 1) : f[u] = VisibleAt(T, n, f, u)
<1> DEFINE Good(k) == \E f : \A u \in 0..(k - 1) : f[u] = VisibleAt(T, n, f, u)
           B == {k \in 0..N : ~Good(k)}
<1>1. N \in Nat
  BY DEF IsTree
<1>2. SUFFICES ASSUME B # {} PROVE FALSE
  <2>1. N \in 0..N
    BY <1>1
  <2> HIDE DEF Good
  <2>2. B = {} => Good(N)
    BY <2>1
  <2> QED BY <2>2 DEF Good
<1>3. PICK k \in B : \A j \in B : k <= j
  <2>1. B \subseteq Nat
    BY <1>1
  <2> HIDE DEF B
  <2> QED BY <2>1, <1>2, LeastExists DEF Least
<1>4. k \in 0..N /\ ~Good(k)
  OBVIOUS
<1>5. k # 0
  <2>1. \A u \in 0..(0 - 1) : FALSE
    OBVIOUS
  <2>2. Good(0)
    BY <2>1
  <2> HIDE DEF Good
  <2> QED BY <1>4, <2>2
<1>6. Good(k - 1)
  <2>1. k - 1 \in 0..N /\ ~(k <= k - 1)
    BY <1>1, <1>4, <1>5
  <2> HIDE DEF Good
  <2> QED BY <2>1, <1>3
<1>7. PICK f : \A u \in 0..(k - 1 - 1) : f[u] = VisibleAt(T, n, f, u)
  BY <1>6
<1> HIDE DEF B
<1> DEFINE x == VisibleAt(T, n, f, k - 1)
<1>8. PICK g : g = [u \in 0..(k - 1) |-> IF u = k - 1 THEN x ELSE f[u]]
  OBVIOUS
<1> HIDE DEF x
<1>9. ASSUME NEW u \in 0..(k - 1) PROVE g[u] = VisibleAt(T, n, g, u)
  <2>1. u \in 0..(N - 1) /\ u \in Nat
    BY <1>1, <1>4
  <2>2. T[u].parent # NULL => g[T[u].parent] = f[T[u].parent]
    <3>1. ASSUME T[u].parent # NULL PROVE g[T[u].parent] = f[T[u].parent]
      <4>1. T[u].parent \in 0..(u - 1)
        BY <2>1, <3>1 DEF IsTree
      <4>2. T[u].parent \in 0..(k - 1) /\ T[u].parent # k - 1
        BY <4>1, <2>1, <1>4
      <4> QED BY <4>2, <1>8
    <3> QED BY <3>1
  <2>3. VisibleAt(T, n, g, u) = VisibleAt(T, n, f, u)
    BY <2>2 DEF VisibleAt
  <2>4. CASE u = k - 1
    BY <2>3, <2>4, <1>8 DEF x
  <2>5. CASE u # k - 1
    <3>1. u \in 0..(k - 1 - 1)
      BY <2>5, <1>4
    <3> QED BY <2>3, <2>5, <3>1, <1>7, <1>8
  <2> QED BY <2>4, <2>5
<1>10. Good(k)
  BY <1>9
<1> HIDE DEF Good
<1> QED BY <1>4, <1>10

\* SD_get_entry looks in the table itself and then from its parent on.
LEMMA VisibleIs ==
  ASSUME NEW T, NEW N, IsTree(T, N), NEW n, NEW u \in 0..(N - 1)
  PROVE  Visible(T, n)[u] = VisibleAt(T, n, Visible(T, n), u)
<1> DEFINE Eq(g) == g = [v \in DOMAIN T |->
                           IF T[v].vmap[n] # NULL THEN <<v, T[v].vmap[n]>>
                           ELSE IF T[v].parent = NULL THEN NoEntry
                           ELSE g[T[v].parent]]
<1>1. PICK f : \A v \in 0..(N - 1) : f[v] = VisibleAt(T, n, f, v)
  BY VisibleExists
<1>2. DOMAIN T = 0..(N - 1) /\ \A v \in DOMAIN T : T[v].parent # NULL => T[v].parent \in DOMAIN T
  BY DEF IsTree
<1>3. PICK g : g = [v \in DOMAIN T |-> f[v]]
  OBVIOUS
<1>4. Eq(g)
  <2>1. \A v \in DOMAIN T : g[v] = IF T[v].vmap[n] # NULL THEN <<v, T[v].vmap[n]>>
                                   ELSE IF T[v].parent = NULL THEN NoEntry
                                   ELSE g[T[v].parent]
    BY <1>1, <1>2, <1>3 DEF VisibleAt
  <2>2. g = [v \in DOMAIN T |-> g[v]]
    BY <1>3
  <2> QED BY <2>1, <2>2, Zenon
<1>5. Eq(Visible(T, n))
  BY <1>4, Zenon DEF Visible
<1>6. \A v \in DOMAIN T : Visible(T, n)[v] = VisibleAt(T, n, Visible(T, n), v)
  BY <1>5, Zenon DEF VisibleAt
<1> QED BY <1>2, <1>6

LEMMA PathExists ==
  ASSUME NEW T, NEW N, IsTree(T, N)
  PROVE  \E f : \A u \in 0..(N - 1) : f[u] = PathAt(T, f, u)
<1> DEFINE Good(k) == \E f : \A u \in 0..(k - 1) : f[u] = PathAt(T, f, u)
           B == {k \in 0..N : ~Good(k)}
<1>1. N \in Nat
  BY DEF IsTree
<1>2. SUFFICES ASSUME B # {} PROVE FALSE
  <2>1. N \in 0..N
    BY <1>1
  <2> HIDE DEF Good
  <2>2. B = {} => Good(N)
    BY <2>1
  <2> QED BY <2>2 DEF Good
<1>3. PICK k \in B : \A j \in B : k <= j
  <2>1. B \subseteq Nat
    BY <1>1
  <2> HIDE DEF B
  <2> QED BY <2>1, <1>2, LeastExists DEF Least
<1>4. k \in 0..N /\ ~Good(k)
  OBVIOUS
<1>5. k # 0
  <2>1. \A u \in 0..(0 - 1) : FALSE
    OBVIOUS
  <2>2. Good(0)
    BY <2>1
  <2> HIDE DEF Good
  <2> QED BY <1>4, <2>2
<1>6. Good(k - 1)
  <2>1. k - 1 \in 0..N /\ ~(k <= k - 1)
    BY <1>1, <1>4, <1>5
  <2> HIDE DEF Good
  <2> QED BY <2>1, <1>3
<1>7. PICK f : \A u \in 0..(k - 1 - 1) : f[u] = PathAt(T, f, u)
  BY <1>6
<1> HIDE DEF B
<1> DEFINE x == PathAt(T, f, k - 1)
<1>8. PICK g : g = [u \in 0..(k - 1) |-> IF u = k - 1 THEN x ELSE f[u]]
  OBVIOUS
<1> HIDE DEF x
<1>9. ASSUME NEW u \in 0..(k - 1) PROVE g[u] = PathAt(T, g, u)
  <2>1. u \in 0..(N - 1) /\ u \in Nat
    BY <1>1, <1>4
  <2>2. T[u].parent # NULL => g[T[u].parent] = f[T[u].parent]
    <3>1. ASSUME T[u].parent # NULL PROVE g[T[u].parent] = f[T[u].parent]
      <4>1. T[u].parent \in 0..(u - 1)
        BY <2>1, <3>1 DEF IsTree
      <4>2. T[u].parent \in 0..(k - 1) /\ T[u].parent # k - 1
        BY <4>1, <2>1, <1>4
      <4> QED BY <4>2, <1>8
    <3> QED BY <3>1
  <2>3. PathAt(T, g, u) = PathAt(T, f, u)
    BY <2>2, Zenon DEF PathAt
  <2>4. CASE u = k - 1
    BY <2>3, <2>4, <1>8 DEF x
  <2>5. CASE u # k - 1
    <3>1. u \in 0..(k - 1 - 1)
      BY <2>5, <1>4
    <3> QED BY <2>3, <2>5, <3>1, <1>7, <1>8
  <2> QED BY <2>4, <2>5
<1>10. Good(k)
  BY <1>9
<1> HIDE DEF Good
<1> QED BY <1>4, <1>10

LEMMA PathIs ==
  ASSUME NEW T, NEW N, IsTree(T, N), NEW u \in 0..(N - 1)
  PROVE  Path(T)[u] = PathAt(T, Path(T), u)
<1> DEFINE Eq(g) == g = [v \in DOMAIN T |->
                           IF T[v].parent = NULL THEN <<v>> ELSE Append(g[T[v].parent], v)]
<1>1. PICK f : \A v \in 0..(N - 1) : f[v] = PathAt(T, f, v)
  BY PathExists
<1>2. DOMAIN T = 0..(N - 1) /\ \A v \in DOMAIN T : T[v].parent # NULL => T[v].parent \in DOMAIN T
  BY DEF IsTree
<1>3. PICK g : g = [v \in DOMAIN T |-> f[v]]
  OBVIOUS
<1>4. Eq(g)
  <2>1. \A v \in DOMAIN T : g[v] = f[v]
    BY <1>3
  <2>2. \A v \in DOMAIN T : f[v] = IF T[v].parent = NULL THEN <<v>> ELSE Append(f[T[v].parent], v)
    BY <1>1, <1>2, Zenon DEF PathAt
  <2>3. \A v \in DOMAIN T : g[v] = IF T[v].parent = NULL THEN <<v>> ELSE Append(g[T[v].parent], v)
    BY <2>1, <2>2, <1>2, Zenon
  <2>4. g = [v \in DOMAIN T |-> g[v]]
    BY <1>3
  <2> QED BY <2>3, <2>4, Zenon
<1>5. Eq(Path(T))
  BY <1>4, Zenon DEF Path
<1>6. \A v \in DOMAIN T : Path(T)[v] = PathAt(T, Path(T), v)
  BY <1>5, Zenon DEF PathAt
<1> QED BY <1>2, <1>6

\* The tables below k have the same place, and the same name n, in T and U.
SamePlace(T, U, k) == \A u \in 0..(k - 1) : U[u].parent = T[u].parent
SameName(T, U, n, k) == \A u \in 0..(k - 1) : U[u].vmap[n] = T[u].vmap[n]

LEMMA VisibleAgrees ==
  ASSUME NEW T, NEW N, IsTree(T, N), NEW U, NEW M, IsTree(U, M), NEW n,
         NEW k \in Nat, k <= N, k <= M, SamePlace(T, U, k), SameName(T, U, n, k), NEW u \in 0..(k - 1)
  PROVE  Visible(U, n)[u] = Visible(T, n)[u]
<1> DEFINE B == {v \in 0..(k - 1) : Visible(U, n)[v] # Visible(T, n)[v]}
<1>1. SUFFICES ASSUME B # {} PROVE FALSE
  OBVIOUS
<1>2. PICK v \in B : \A w \in B : v <= w
  <2>1. B \subseteq Nat
    OBVIOUS
  <2> HIDE DEF B
  <2> QED BY <2>1, <1>1, LeastExists DEF Least
<1>3. v \in 0..(k - 1) /\ Visible(U, n)[v] # Visible(T, n)[v]
  OBVIOUS
<1>4. N \in Nat /\ M \in Nat /\ v \in 0..(N - 1) /\ v \in 0..(M - 1)
  BY <1>3 DEF IsTree
<1>5. /\ Visible(T, n)[v] = VisibleAt(T, n, Visible(T, n), v)
      /\ Visible(U, n)[v] = VisibleAt(U, n, Visible(U, n), v)
  BY <1>4, VisibleIs
<1>6. U[v].parent = T[v].parent /\ U[v].vmap[n] = T[v].vmap[n]
  BY <1>3 DEF SamePlace, SameName
<1>7. T[v].parent # NULL /\ Visible(U, n)[T[v].parent] # Visible(T, n)[T[v].parent]
  BY <1>3, <1>5, <1>6 DEF VisibleAt
<1>8. T[v].parent \in 0..(v - 1)
  BY <1>4, <1>7 DEF IsTree
<1>9. T[v].parent \in 0..(k - 1) /\ ~(v <= T[v].parent)
  BY <1>3, <1>8
<1> QED BY <1>2, <1>7, <1>9

LEMMA PathAgrees ==
  ASSUME NEW T, NEW N, IsTree(T, N), NEW U, NEW M, IsTree(U, M),
         NEW k \in Nat, k <= N, k <= M, SamePlace(T, U, k), NEW u \in 0..(k - 1)
  PROVE  Path(U)[u] = Path(T)[u]
<1> DEFINE B == {v \in 0..(k - 1) : Path(U)[v] # Path(T)[v]}
<1>1. SUFFICES ASSUME B # {} PROVE FALSE
  OBVIOUS
<1>2. PICK v \in B : \A w \in B : v <= w
  <2>1. B \subseteq Nat
    OBVIOUS
  <2> HIDE DEF B
  <2> QED BY <2>1, <1>1, LeastExists DEF Least
<1>3. v \in 0..(k - 1) /\ Path(U)[v] # Path(T)[v]
  OBVIOUS
<1>4. N \in Nat /\ M \in Nat /\ v \in 0..(N - 1) /\ v \in 0..(M - 1)
  BY <1>3 DEF IsTree
<1>5. Path(T)[v] = PathAt(T, Path(T), v) /\ Path(U)[v] = PathAt(U, Path(U), v)
  BY <1>4, PathIs
<1>6. U[v].parent = T[v].parent
  BY <1>3 DEF SamePlace
<1>7. T[v].parent # NULL /\ Path(U)[T[v].parent] # Path(T)[T[v].parent]
  BY <1>3, <1>5, <1>6, Zenon DEF PathAt
<1>8. T[v].parent \in 0..(v - 1)
  BY <1>4, <1>7 DEF IsTree
<1>9. T[v].parent \in 0..(k - 1) /\ ~(v <= T[v].parent)
  BY <1>3, <1>8
<1> QED BY <1>2, <1>7, <1>9

\* A path ends at its table, and the tables before are older.
PathOK(p, u) ==
  /\ p \in Seq(0..u) /\ Len(p) \in Nat \ {0} /\ p[Len(p)] = u
  /\ \A i \in 1..(Len(p) - 1) : p[i] \in 0..(u - 1)

LEMMA PathShape ==
  ASSUME NEW T, NEW N, IsTree(T, N), NEW u \in 0..(N - 1)
  PROVE  PathOK(Path(T)[u], u)
<1> DEFINE B == {v \in 0..(N - 1) : ~PathOK(Path(T)[v], v)}
<1>1. SUFFICES ASSUME B # {} PROVE FALSE
  OBVIOUS
<1>2. PICK v \in B : \A w \in B : v <= w
  <2>1. B \subseteq Nat
    OBVIOUS
  <2> HIDE DEF B
  <2> QED BY <2>1, <1>1, LeastExists DEF Least
<1>3. v \in 0..(N - 1) /\ ~PathOK(Path(T)[v], v) /\ N \in Nat /\ v \in Nat
  BY DEF IsTree
<1>4. Path(T)[v] = PathAt(T, Path(T), v)
  BY <1>3, PathIs
<1>5. CASE T[v].parent = NULL
  <2>1. Path(T)[v] = <<v>>
    BY <1>4, <1>5 DEF PathAt
  <2>2. <<v>> \in Seq(0..v) /\ Len(<<v>>) = 1 /\ <<v>>[1] = v
    BY <1>3
  <2> DEFINE p == <<v>>
  <2>3. p \in Seq(0..v) /\ Len(p) = 1 /\ p[1] = v
    BY <2>2
  <2> HIDE DEF p
  <2>4. PathOK(p, v)
    BY <2>3 DEF PathOK
  <2> QED BY <1>3, <2>1, <2>4 DEF p
<1>6. CASE T[v].parent # NULL
  <2> DEFINE q == Path(T)[T[v].parent]
             p == Append(q, v)
             w == T[v].parent
  <2>1. w \in 0..(v - 1) /\ w \in 0..(N - 1) /\ ~(v <= w)
    BY <1>3, <1>6 DEF IsTree
  <2>2. PathOK(q, w)
    BY <1>2, <2>1
  <2>3. Path(T)[v] = p
    BY <1>4, <1>6, Zenon DEF PathAt
  <2> HIDE DEF q
  <2>4. q \in Seq(0..v) /\ Len(q) \in Nat \ {0} /\ \A i \in 1..Len(q) : q[i] \in 0..(v - 1)
    <3>1. 0..w \subseteq 0..v /\ 0..w \subseteq 0..(v - 1)
      BY <1>3, <2>1
    <3>2. q \in Seq(0..w) /\ Len(q) \in Nat \ {0}
      BY <2>2 DEF PathOK
    <3>3. \A i \in 1..Len(q) : q[i] \in 0..w
      BY <3>2, ElementOfSeq
    <3>4. q \in Seq(0..v)
      BY <3>1, <3>2, SeqMonotonic
    <3> QED BY <3>1, <3>2, <3>3, <3>4
  <2>5. /\ p \in Seq(0..v) /\ Len(p) = Len(q) + 1
        /\ \A i \in 1..Len(q) : p[i] = q[i]
        /\ p[Len(q) + 1] = v
    <3>1. v \in 0..v
      BY <1>3
    <3>2. /\ Append(q, v) \in Seq(0..v) /\ Len(Append(q, v)) = Len(q) + 1
          /\ \A i \in 1..Len(q) : Append(q, v)[i] = q[i]
          /\ Append(q, v)[Len(q) + 1] = v
      BY <2>4, <3>1, AppendProperties
    <3> QED BY <3>2
  <2> HIDE DEF p
  <2>6. PathOK(p, v)
    <3>1. \A i \in 1..(Len(p) - 1) : i \in 1..Len(q)
      BY <2>4, <2>5
    <3> QED BY <2>4, <2>5, <3>1 DEF PathOK
  <2> QED BY <1>3, <2>3, <2>6
<1> QED BY <1>5, <1>6

\* An entry that is found is one in a table.
LEMMA VisibleSound ==
  ASSUME NEW T, NEW N, IsTree(T, N), NEW n, NEW u \in 0..(N - 1)
  PROVE  \/ Visible(T, n)[u] = NoEntry
         \/ \E t \in 0..(N - 1) : T[t].vmap[n] # NULL /\ Visible(T, n)[u] = <<t, T[t].vmap[n]>>
<1> DEFINE Sound(v) == \/ Visible(T, n)[v] = NoEntry
                       \/ \E t \in 0..(N - 1) : T[t].vmap[n] # NULL /\ Visible(T, n)[v] = <<t, T[t].vmap[n]>>
           B == {v \in 0..(N - 1) : ~Sound(v)}
<1>1. SUFFICES ASSUME B # {} PROVE FALSE
  OBVIOUS
<1>2. PICK v \in B : \A w \in B : v <= w
  <2>1. B \subseteq Nat
    OBVIOUS
  <2> HIDE DEF B
  <2> QED BY <2>1, <1>1, LeastExists DEF Least
<1>3. v \in 0..(N - 1) /\ ~Sound(v) /\ N \in Nat
  BY DEF IsTree
<1>4. Visible(T, n)[v] = VisibleAt(T, n, Visible(T, n), v)
  BY <1>3, VisibleIs
<1>5. T[v].vmap[n] = NULL /\ T[v].parent # NULL /\ Visible(T, n)[v] = Visible(T, n)[T[v].parent]
  BY <1>3, <1>4 DEF VisibleAt
<1>6. T[v].parent \in 0..(v - 1)
  BY <1>3, <1>5 DEF IsTree
<1>7. T[v].parent \in 0..(N - 1) /\ ~(v <= T[v].parent)
  BY <1>3, <1>6
<1>8. Sound(T[v].parent)
  BY <1>2, <1>7
<1> QED BY <1>3, <1>5, <1>8

-----------------------------------------------------------------------------
(* The stack of scopes, as a function of the tables and the active one. *)

ScopeOf(T, u) == [visible |-> [n \in Names |-> Visible(T, n)[u]], own |-> {n \in Names : T[u].vmap[n] # NULL}]
StackOf(T, a) == [i \in 1..Len(Path(T)[a]) |-> ScopeOf(T, Path(T)[a][i])]

LEMMA StackIs ==
  /\ active # NULL => ScopeStack = StackOf(tables, active)
  /\ active' # NULL => ScopeStack' = StackOf(tables', active')
<1>1. \A t : PathTo(t) = Path(tables)[t] /\ PathTo(t)' = Path(tables')[t]
  BY Zenon DEF PathTo, Path, Tables
<1>2. \A t, n : EntryFrom(t, n) = Visible(tables, n)[t]
  BY Zenon DEF EntryFrom, Visible
<1>3. \A t, n : EntryFrom(t, n)' = Visible(tables', n)[t]
  BY Zenon DEF EntryFrom, Visible
<1>4. active # NULL => ScopeStack = StackOf(tables, active)
  BY <1>1, <1>2, Zenon DEF ScopeStack, StackOf, ScopeOf
<1>5. active' # NULL => ScopeStack' = StackOf(tables', active')
  BY <1>1, <1>3, Zenon DEF ScopeStack, StackOf, ScopeOf
<1> QED BY <1>4, <1>5

LEMMA TablesTree ==
  ASSUME TypeOK, TreeInv, active # NULL
  PROVE  IsTree(tables, NewTable) /\ active \in 0..(NewTable - 1) /\ Tables = 0..(NewTable - 1)
<1>1. NewTable \in Nat \ {0} /\ Tables = 0..(NewTable - 1)
  BY DEF TreeInv
<1>2. \A t \in Tables : tables[t].parent # NULL => tables[t].parent \in 0..(t - 1)
  <2>1. ASSUME NEW t \in Tables, tables[t].parent # NULL PROVE tables[t].parent \in 0..(t - 1)
    <3>1. tables[t].parent \in Tables /\ tables[t].parent < t
      BY <2>1 DEF TreeInv
    <3> QED BY <3>1, <1>1
  <2> QED BY <2>1
<1>3. active \in Tables
  BY DEF TypeOK
<1> QED BY <1>1, <1>2, <1>3 DEF IsTree, Tables

\* The scopes of a stack, innermost last.
LEMMA StackShape ==
  ASSUME NEW T, NEW N, IsTree(T, N), NEW a \in 0..(N - 1), NEW s, s = StackOf(T, a)
  PROVE  /\ Len(s) = Len(Path(T)[a]) /\ Len(s) \in Nat \ {0}
         /\ DOMAIN s = 1..Len(s)
         /\ s[Len(s)] = ScopeOf(T, a)
         /\ \A i \in 1..Len(s) : s[i] = ScopeOf(T, Path(T)[a][i]) /\ Path(T)[a][i] \in 0..(N - 1)
         /\ \A i \in 1..(Len(s) - 1) : Path(T)[a][i] \in 0..(a - 1)
<1>1. PathOK(Path(T)[a], a)
  BY PathShape
<1>2. PICK p : p = Path(T)[a]
  OBVIOUS
<1>3. p \in Seq(0..a) /\ Len(p) \in Nat \ {0} /\ p[Len(p)] = a /\ \A i \in 1..(Len(p) - 1) : p[i] \in 0..(a - 1)
  BY <1>1, <1>2 DEF PathOK
<1>4. s = [i \in 1..Len(p) |-> ScopeOf(T, p[i])]
  BY <1>2, Zenon DEF StackOf
<1>5. DOMAIN s = 1..Len(p) /\ \A i \in 1..Len(p) : s[i] = ScopeOf(T, p[i])
  BY <1>4
<1>6. Len(s) = Len(p)
  <2> DEFINE S == {ScopeOf(T, p[i]) : i \in 1..Len(p)}
  <2>1. s \in Seq(S)
    <3> DEFINE k == Len(p)
    <3>1. k \in Nat /\ s = [i \in 1..k |-> s[i]] /\ \A i \in 1..k : s[i] \in S
      BY <1>3, <1>4, <1>5
    <3> HIDE DEF k, S
    <3>2. s \in [1..k -> S]
      BY <3>1
    <3> QED BY <3>1, <3>2
  <2> HIDE DEF S
  <2>2. DOMAIN s = 1..Len(s) /\ Len(s) \in Nat
    BY <2>1, LenProperties
  <2> QED BY <2>2, <1>3, <1>5
<1>7. \A i \in 1..Len(p) : p[i] \in 0..(N - 1)
  <2>1. \A i \in 1..Len(p) : p[i] \in 0..a
    BY <1>3, ElementOfSeq
  <2>2. 0..a \subseteq 0..(N - 1)
    BY DEF IsTree
  <2> QED BY <2>1, <2>2
<1> QED BY SMTT(30), <1>2, <1>3, <1>5, <1>6, <1>7

\* A table whose lookups and names do not change is the same scope.
LEMMA ScopeSame ==
  ASSUME NEW T, NEW U, NEW u,
         \A n \in Names : Visible(U, n)[u] = Visible(T, n)[u] /\ U[u].vmap[n] = T[u].vmap[n]
  PROVE  ScopeOf(U, u) = ScopeOf(T, u)
<1>1. [n \in Names |-> Visible(U, n)[u]] = [n \in Names |-> Visible(T, n)[u]]
  OBVIOUS
<1>2. {n \in Names : U[u].vmap[n] # NULL} = {n \in Names : T[u].vmap[n] # NULL}
  OBVIOUS
<1> QED BY <1>1, <1>2 DEF ScopeOf

LEMMA ScopeAgrees ==
  ASSUME NEW T, NEW N, IsTree(T, N), NEW U, NEW M, IsTree(U, M), NEW k \in Nat, k <= N, k <= M,
         SamePlace(T, U, k), \A n \in Names : SameName(T, U, n, k), NEW u \in 0..(k - 1)
  PROVE  ScopeOf(U, u) = ScopeOf(T, u)
<1>1. \A n \in Names : Visible(U, n)[u] = Visible(T, n)[u]
  BY VisibleAgrees
<1>2. \A n \in Names : U[u].vmap[n] = T[u].vmap[n]
  BY DEF SameName
<1> QED BY <1>1, <1>2, ScopeSame

\* Two sequences with the same elements, whatever they are.
LEMMA SameElements ==
  ASSUME NEW N \in Nat, NEW s, NEW t, NEW S, s \in Seq(S), t \in Seq(S), Len(s) = N, Len(t) = N,
         \A i \in 1..N : s[i] = t[i]
  PROVE  s = t
BY SeqEqual

LEMMA StackInSeq ==
  ASSUME NEW T, NEW N, IsTree(T, N), NEW a \in 0..(N - 1), NEW s, s = StackOf(T, a),
         NEW S, \A i \in 1..Len(s) : s[i] \in S
  PROVE  s \in Seq(S)
<1>1. Len(s) \in Nat /\ DOMAIN s = 1..Len(s) /\ Len(s) = Len(Path(T)[a])
  BY StackShape
<1>2. s = [i \in 1..Len(s) |-> s[i]]
  BY <1>1 DEF StackOf
<1> DEFINE k == Len(s)
<1>3. k \in Nat /\ s = [i \in 1..k |-> s[i]] /\ \A i \in 1..k : s[i] \in S
  BY <1>1, <1>2
<1> HIDE DEF k
<1>4. s \in [1..k -> S]
  BY <1>3
<1> QED BY <1>3, <1>4

\* A new table under a puts one scope on the stack of a, with what a sees.
LEMMA StackOpened ==
  ASSUME NEW T, NEW N, IsTree(T, N), NEW U, IsTree(U, N + 1), NEW a \in 0..(N - 1),
         SamePlace(T, U, N), \A n \in Names : SameName(T, U, n, N),
         U[N].parent = a, \A n \in Names : U[N].vmap[n] = NULL
  PROVE  StackOf(U, N) = Append(StackOf(T, a), [ScopeOf(T, a) EXCEPT !.own = {}])
<1>1. N \in Nat /\ N <= N /\ N <= N + 1 /\ N \in 0..(N + 1 - 1) /\ a # NULL /\ a \in 0..(N + 1 - 1)
  BY DEF IsTree, NULL
<1>2. \A u \in 0..(N - 1) : ScopeOf(U, u) = ScopeOf(T, u)
  BY <1>1, ScopeAgrees
<1>3. PICK p : p = Path(T)[a]
  OBVIOUS
<1>4. Path(U)[a] = p
  BY <1>1, <1>3, PathAgrees
<1>5. Path(U)[N] = Append(p, N)
  <2>1. Path(U)[N] = PathAt(U, Path(U), N)
    BY <1>1, PathIs
  <2> QED BY <2>1, <1>1, <1>4, Zenon DEF PathAt
<1>6. PICK s : s = StackOf(T, a)
  OBVIOUS
<1>7. PICK t : t = StackOf(U, N)
  OBVIOUS
<1>8. PICK x : x = [ScopeOf(T, a) EXCEPT !.own = {}]
  OBVIOUS
<1>9. /\ Len(s) = Len(p) /\ Len(s) \in Nat \ {0}
      /\ \A i \in 1..Len(s) : s[i] = ScopeOf(T, p[i]) /\ p[i] \in 0..(N - 1)
  BY <1>3, <1>6, StackShape
<1> DEFINE k == Len(s)
<1>10. Len(Path(U)[N]) = k + 1 /\ Path(U)[N][k + 1] = N /\ \A i \in 1..k : Path(U)[N][i] = p[i]
  <2>1. p \in Seq(0..N) /\ N \in 0..N
    <3>1. p \in Seq(0..a)
      BY <1>3, PathShape DEF PathOK
    <3>2. 0..a \subseteq 0..N
      BY <1>1
    <3> QED BY <1>1, <3>1, <3>2, SeqMonotonic
  <2>2. /\ Len(Append(p, N)) = Len(p) + 1 /\ (\A i \in 1..Len(p) : Append(p, N)[i] = p[i])
        /\ Append(p, N)[Len(p) + 1] = N
    BY <2>1, AppendProperties
  <2> QED BY <2>2, <1>5, <1>9, Zenon
<1>11. /\ Len(t) = k + 1
       /\ \A i \in 1..(k + 1) : t[i] = ScopeOf(U, Path(U)[N][i])
  BY <1>1, <1>7, <1>10, StackShape
<1>12. ScopeOf(U, N) = x
  <2>1. \A n \in Names : Visible(U, n)[N] = Visible(T, n)[a]
    <3>1. ASSUME NEW n \in Names PROVE Visible(U, n)[N] = Visible(T, n)[a]
      <4>1. Visible(U, n)[N] = VisibleAt(U, n, Visible(U, n), N)
        BY <1>1, VisibleIs
      <4>2. Visible(U, n)[N] = Visible(U, n)[a]
        BY <1>1, <4>1 DEF VisibleAt
      <4>3. Visible(U, n)[a] = Visible(T, n)[a]
        BY <1>1, VisibleAgrees
      <4> QED BY <4>2, <4>3
    <3> QED BY <3>1
  <2>2. [n \in Names |-> Visible(U, n)[N]] = [n \in Names |-> Visible(T, n)[a]]
    BY <2>1
  <2>3. {n \in Names : U[N].vmap[n] # NULL} = {}
    OBVIOUS
  <2>4. ScopeOf(U, N) = [visible |-> [n \in Names |-> Visible(T, n)[a]], own |-> {}]
    BY <2>2, <2>3 DEF ScopeOf
  <2>5. x = [visible |-> [n \in Names |-> Visible(T, n)[a]], own |-> {}]
    BY <1>8 DEF ScopeOf
  <2> QED BY <2>4, <2>5
<1> DEFINE S == {s[i] : i \in 1..k} \cup {t[i] : i \in 1..(k + 1)} \cup {x}
<1>13. s \in Seq(S) /\ t \in Seq(S) /\ x \in S
  <2>1. \A i \in 1..Len(s) : s[i] \in S
    OBVIOUS
  <2>2. \A i \in 1..Len(t) : t[i] \in S
    BY <1>11
  <2>3. x \in S
    OBVIOUS
  <2> HIDE DEF S
  <2>4. s \in Seq(S)
    BY <2>1, <1>6, StackInSeq
  <2>5. t \in Seq(S)
    BY <2>2, <1>1, <1>7, StackInSeq
  <2> QED BY <2>3, <2>4, <2>5
<1> HIDE DEF S, k
<1>14. PICK q : q = Append(s, x)
  OBVIOUS
<1>15. q \in Seq(S) /\ Len(q) = k + 1 /\ q[k + 1] = x /\ \A i \in 1..k : q[i] = s[i]
  <2>1. /\ Append(s, x) \in Seq(S) /\ Len(Append(s, x)) = Len(s) + 1
        /\ (\A i \in 1..Len(s) : Append(s, x)[i] = s[i]) /\ Append(s, x)[Len(s) + 1] = x
    BY <1>13, AppendProperties
  <2> QED BY <2>1, <1>14, Zenon DEF k
<1>16. k + 1 \in Nat /\ \A i \in 1..(k + 1) : i \in 1..k \/ i = k + 1
  BY <1>9 DEF k
<1>17. ASSUME NEW i \in 1..(k + 1) PROVE t[i] = q[i]
  <2>1. CASE i \in 1..k
    <3>1. t[i] = ScopeOf(U, p[i]) /\ s[i] = ScopeOf(T, p[i]) /\ p[i] \in 0..(N - 1)
      BY <2>1, <1>9, <1>10, <1>11 DEF k
    <3> QED BY <2>1, <3>1, <1>2, <1>15
  <2>2. CASE i = k + 1
    BY <2>2, <1>10, <1>11, <1>12, <1>15
  <2> QED BY <2>1, <2>2, <1>16
<1>18. t = q
  BY <1>11, <1>13, <1>15, <1>16, <1>17, SameElements
<1> QED BY <1>6, <1>7, <1>8, <1>14, <1>18, Zenon

\* Closing the table a brings back the stack of its parent.
LEMMA StackClosed ==
  ASSUME NEW T, NEW N, IsTree(T, N), NEW U, IsTree(U, N), NEW a \in 0..(N - 1),
         SamePlace(T, U, N), \A n \in Names : SameName(T, U, n, N), T[a].parent # NULL
  PROVE  /\ Len(StackOf(T, a)) > 1
         /\ StackOf(U, T[a].parent) = SubSeq(StackOf(T, a), 1, Len(StackOf(T, a)) - 1)
<1>1. PICK b : b = T[a].parent
  OBVIOUS
<1>2. N \in Nat /\ N <= N /\ b \in 0..(N - 1) /\ b \in 0..(a - 1)
  BY <1>1 DEF IsTree
<1>3. \A u \in 0..(N - 1) : ScopeOf(U, u) = ScopeOf(T, u)
  BY <1>2, ScopeAgrees
<1>4. PICK p : p = Path(T)[b]
  OBVIOUS
<1>5. Path(U)[b] = p
  BY <1>2, <1>4, PathAgrees
<1>6. Path(T)[a] = Append(p, a)
  <2>1. Path(T)[a] = PathAt(T, Path(T), a)
    BY PathIs
  <2> QED BY <2>1, <1>1, <1>4, Zenon DEF PathAt
<1>7. PICK s : s = StackOf(T, a)
  OBVIOUS
<1>8. PICK t : t = StackOf(U, b)
  OBVIOUS
<1>9. PICK k : k = Len(t)
  OBVIOUS
<1>10. /\ k = Len(p) /\ k \in Nat \ {0}
       /\ \A i \in 1..k : t[i] = ScopeOf(U, p[i]) /\ p[i] \in 0..(N - 1)
  BY <1>2, <1>5, <1>8, <1>9, StackShape
<1>11. Len(Path(T)[a]) = k + 1 /\ \A i \in 1..k : Path(T)[a][i] = p[i]
  <2>1. p \in Seq(0..a) /\ a \in 0..a
    <3>1. p \in Seq(0..b)
      BY <1>2, <1>4, PathShape DEF PathOK
    <3>2. 0..b \subseteq 0..a /\ a \in 0..a
      BY <1>2
    <3> QED BY <3>1, <3>2, SeqMonotonic
  <2>2. Len(Append(p, a)) = Len(p) + 1 /\ \A i \in 1..Len(p) : Append(p, a)[i] = p[i]
    BY <2>1, AppendProperties
  <2> QED BY <2>2, <1>6, <1>10, Zenon
<1>12. Len(s) = k + 1 /\ \A i \in 1..(k + 1) : s[i] = ScopeOf(T, Path(T)[a][i])
  BY <1>7, <1>11, StackShape
<1>13. \A i \in 1..k : s[i] = t[i]
  <2>1. \A i \in 1..k : i \in 1..(k + 1)
    BY <1>10
  <2> QED BY <2>1, <1>3, <1>10, <1>11, <1>12
<1> DEFINE S == {t[i] : i \in 1..k}
<1>14. t \in Seq(S)
  <2>1. \A i \in 1..Len(t) : t[i] \in S
    BY <1>9
  <2> HIDE DEF S
  <2> QED BY <2>1, <1>2, <1>8, StackInSeq
<1>15. \A i \in 1..k : s[i] \in S
  BY <1>13
<1> HIDE DEF S
<1>16. PICK q : q = SubSeq(s, 1, k)
  OBVIOUS
<1>17. q \in Seq(S) /\ Len(q) = k /\ \A i \in 1..k : q[i] = t[i]
  <2>1. k \in Int /\ 1 \in Int /\ 1 <= k /\ k - 1 + 1 = k /\ \A i \in 1..k : 1 + i - 1 = i
    BY <1>10
  <2>2. /\ SubSeq(s, 1, k) \in Seq(S)
        /\ Len(SubSeq(s, 1, k)) = IF 1 <= k THEN k - 1 + 1 ELSE 0
        /\ \A i \in 1..(k - 1 + 1) : SubSeq(s, 1, k)[i] = s[1 + i - 1]
    BY <2>1, <1>15, SubSeqProperties
  <2>3. q \in Seq(S)
    BY <2>2, <1>16, Zenon
  <2>4. Len(q) = k
    <3>1. Len(q) = IF 1 <= k THEN k - 1 + 1 ELSE 0
      BY <2>2, <1>16, Zenon
    <3> QED BY <3>1, <2>1
  <2>5. \A i \in 1..k : q[i] = s[i]
    <3>1. \A i \in 1..(k - 1 + 1) : q[i] = s[1 + i - 1]
      BY <2>2, <1>16, Zenon
    <3> QED BY <3>1, <2>1
  <2> QED BY <2>3, <2>4, <2>5, <1>13
<1>18. t = q
  BY <1>9, <1>10, <1>14, <1>17, SameElements
<1>19. Len(s) > 1 /\ Len(s) - 1 = k
  BY <1>10, <1>12
<1> QED BY <1>1, <1>7, <1>8, <1>16, <1>18, <1>19, Zenon

\* A stack on which no lookup changes is the same stack.
LEMMA StackSame ==
  ASSUME NEW T, NEW N, IsTree(T, N), NEW U, IsTree(U, N), NEW a \in 0..(N - 1),
         SamePlace(T, U, N), \A n \in Names : SameName(T, U, n, N)
  PROVE  StackOf(U, a) = StackOf(T, a)
<1>1. N \in Nat /\ N <= N
  BY DEF IsTree
<1>2. \A u \in 0..(N - 1) : ScopeOf(U, u) = ScopeOf(T, u)
  BY <1>1, ScopeAgrees
<1>3. PICK p : p = Path(T)[a]
  OBVIOUS
<1>4. Path(U)[a] = p
  BY <1>1, <1>3, PathAgrees
<1>5. \A i \in 1..Len(p) : p[i] \in 0..(N - 1)
  <2>1. PICK s : s = StackOf(T, a)
    OBVIOUS
  <2> QED BY <2>1, <1>3, StackShape
<1>6. [i \in 1..Len(p) |-> ScopeOf(U, p[i])] = [i \in 1..Len(p) |-> ScopeOf(T, p[i])]
  BY <1>2, <1>5
<1> QED BY <1>3, <1>4, <1>6, Zenon DEF StackOf

\* The declaration d of n in the innermost scope of stack.
DeclaredOn(stack, n, d) ==
  [stack EXCEPT ![Len(stack)] = [visible |-> [@.visible EXCEPT ![n] = d], own |-> @.own \cup {n}]]

\* A declaration changes the innermost scope alone.
LEMMA StackDeclared ==
  ASSUME NEW T, NEW N, IsTree(T, N), NEW U, IsTree(U, N), NEW a \in 0..(N - 1),
         SamePlace(T, U, N), \A u \in 0..(N - 1) \ {a} : U[u].vmap = T[u].vmap,
         NEW id, id # NULL, NEW m \in Names, T[a].vmap \in [Names -> Nat \cup {NULL}],
         U[a].vmap = [T[a].vmap EXCEPT ![m] = id]
  PROVE  StackOf(U, a) = DeclaredOn(StackOf(T, a), m, <<a, id>>)
<1>1. N \in Nat /\ a \in Nat /\ a <= N /\ a \in 0..(N - 1)
  BY DEF IsTree
<1>2. /\ SamePlace(T, U, a) /\ (\A n \in Names : SameName(T, U, n, a))
      /\ (\A n \in Names \ {m} : SameName(T, U, n, N)) /\ U[a].vmap[m] = id
      /\ (\A n \in Names \ {m} : U[a].vmap[n] = T[a].vmap[n])
  <2>1. SamePlace(T, U, a)
    BY <1>1 DEF SamePlace
  <2>2. \A n \in Names : SameName(T, U, n, a)
    BY <1>1 DEF SameName
  <2>3. U[a].vmap[m] = id /\ \A n \in Names \ {m} : U[a].vmap[n] = T[a].vmap[n]
    OBVIOUS
  <2>4. \A n \in Names \ {m} : SameName(T, U, n, N)
    BY <2>3 DEF SameName
  <2> QED BY <2>1, <2>2, <2>3, <2>4
<1>3. \A u \in 0..(a - 1) : ScopeOf(U, u) = ScopeOf(T, u)
  BY <1>1, <1>2, ScopeAgrees
<1>4. PICK p : p = Path(T)[a]
  OBVIOUS
<1>5. Path(U)[a] = p
  <2>1. N <= N
    BY <1>1
  <2> QED BY <2>1, <1>1, <1>4, PathAgrees
<1>6. PICK s : s = StackOf(T, a)
  OBVIOUS
<1>7. PICK t : t = StackOf(U, a)
  OBVIOUS
<1>8. PICK x : x = ScopeOf(T, a)
  OBVIOUS
<1>9. PICK y : y = [visible |-> [x.visible EXCEPT ![m] = <<a, id>>], own |-> x.own \cup {m}]
  OBVIOUS
<1>10. ScopeOf(U, a) = y
  <2>1. /\ x.visible = [n \in Names |-> Visible(T, n)[a]]
        /\ x.own = {n \in Names : T[a].vmap[n] # NULL}
    BY <1>8 DEF ScopeOf
  <2>2. Visible(U, m)[a] = <<a, id>>
    <3>1. Visible(U, m)[a] = VisibleAt(U, m, Visible(U, m), a)
      BY VisibleIs
    <3> QED BY <3>1, <1>2 DEF VisibleAt
  <2>3. \A n \in Names \ {m} : Visible(U, n)[a] = Visible(T, n)[a]
    <3>1. N <= N
      BY <1>1
    <3> QED BY <3>1, <1>1, <1>2, VisibleAgrees
  <2>4. [n \in Names |-> Visible(U, n)[a]] = [x.visible EXCEPT ![m] = <<a, id>>]
    <3>1. \A n \in Names : Visible(U, n)[a] = [x.visible EXCEPT ![m] = <<a, id>>][n]
      BY <2>1, <2>2, <2>3
    <3> QED BY <3>1, <2>1
  <2>5. {n \in Names : U[a].vmap[n] # NULL} = x.own \cup {m}
    BY <2>1, <1>2
  <2> QED BY <2>4, <2>5, <1>9, Zenon DEF ScopeOf
<1> DEFINE k == Len(s)
<1>11. /\ k = Len(p) /\ k \in Nat \ {0} /\ DOMAIN s = 1..k /\ s[k] = x /\ s = [i \in 1..k |-> ScopeOf(T, p[i])]
       /\ \A i \in 1..k : s[i] = ScopeOf(T, p[i])
       /\ \A i \in 1..(k - 1) : p[i] \in 0..(a - 1)
  <2>1. s = [i \in 1..Len(p) |-> ScopeOf(T, p[i])]
    BY <1>4, <1>6, Zenon DEF StackOf
  <2> QED BY <2>1, <1>4, <1>6, <1>8, StackShape
<1>12. Len(t) = k /\ DOMAIN t = 1..k /\ t[k] = y /\ t = [i \in 1..k |-> ScopeOf(U, p[i])]
       /\ \A i \in 1..k : t[i] = ScopeOf(U, p[i])
  <2>1. t = [i \in 1..Len(p) |-> ScopeOf(U, p[i])]
    BY <1>5, <1>7, Zenon DEF StackOf
  <2>2. Len(t) = Len(p) /\ DOMAIN t = 1..Len(t) /\ t[Len(t)] = ScopeOf(U, a)
        /\ \A i \in 1..Len(t) : t[i] = ScopeOf(U, p[i])
    BY <1>5, <1>7, StackShape
  <2> QED BY <2>1, <2>2, <1>10, <1>11
<1> HIDE DEF k
<1>13. \A i \in 1..k : i \in 1..(k - 1) \/ i = k
  BY <1>11
<1>14. ASSUME NEW i \in 1..k PROVE t[i] = [s EXCEPT ![k] = y][i]
  <2>1. CASE i \in 1..(k - 1)
    <3>1. t[i] = s[i] /\ i # k
      BY <2>1, <1>3, <1>11, <1>12
    <3> QED BY <3>1, <1>11
  <2>2. CASE i = k
    BY <2>2, <1>11, <1>12
  <2> QED BY <2>1, <2>2, <1>13
<1>15. t = [s EXCEPT ![k] = y]
  BY <1>11, <1>12, <1>14
<1>16. s[k].visible = x.visible /\ s[k].own = x.own
  BY <1>11
<1>17. t = [s EXCEPT ![k] = [visible |-> [@.visible EXCEPT ![m] = <<a, id>>], own |-> @.own \cup {m}]]
  BY <1>9, <1>11, <1>15, Zenon
<1> QED BY <1>6, <1>7, <1>17, Zenon DEF k, DeclaredOn

-----------------------------------------------------------------------------
(* Every step of the database is one of Scopes or changes no scope. *)

LEMMA ScopesInit == SD_init => Abstract!Init
<1> SUFFICES ASSUME SD_init PROVE Abstract!Init
  OBVIOUS
<1>1. active = ROOT /\ active # NULL /\ DOMAIN tables = {ROOT} /\ tables[ROOT] = ST_init(NULL, 0)
  BY DEF SD_init, ROOT, NULL
<1>2. tables[ROOT].parent = NULL /\ \A n \in Names : tables[ROOT].vmap[n] = NULL
  BY <1>1 DEF ST_init
<1>3. IsTree(tables, 1) /\ ROOT \in 0..(1 - 1)
  BY <1>1, <1>2 DEF IsTree, ROOT
<1>4. Path(tables)[ROOT] = <<ROOT>>
  <2>1. Path(tables)[ROOT] = PathAt(tables, Path(tables), ROOT)
    BY <1>3, PathIs
  <2> QED BY <2>1, <1>2 DEF PathAt
<1>5. ScopeOf(tables, ROOT) = [visible |-> [n \in Names |-> NoEntry], own |-> {}]
  <2>1. \A n \in Names : Visible(tables, n)[ROOT] = NoEntry
    <3>1. \A n \in Names : Visible(tables, n)[ROOT] = VisibleAt(tables, n, Visible(tables, n), ROOT)
      BY <1>3, VisibleIs
    <3> QED BY <3>1, <1>2 DEF VisibleAt
  <2>2. [n \in Names |-> Visible(tables, n)[ROOT]] = [n \in Names |-> NoEntry]
    BY <2>1
  <2>3. {n \in Names : tables[ROOT].vmap[n] # NULL} = {}
    BY <1>2
  <2> QED BY <2>2, <2>3 DEF ScopeOf
<1>6. PICK x : x = ScopeOf(tables, ROOT)
  OBVIOUS
<1>7. StackOf(tables, ROOT) = <<x>>
  <2>1. PICK p : p = Path(tables)[ROOT]
    OBVIOUS
  <2>2. Len(p) = 1 /\ p[1] = ROOT
    BY <2>1, <1>4
  <2>3. StackOf(tables, ROOT) = [i \in 1..1 |-> ScopeOf(tables, p[i])]
    BY <2>1, <2>2, Zenon DEF StackOf
  <2>4. [i \in 1..1 |-> ScopeOf(tables, p[i])] = [i \in 1..1 |-> x]
    BY <2>2, <1>6
  <2>5. [i \in 1..1 |-> x] = <<x>>
    OBVIOUS
  <2> QED BY <2>3, <2>4, <2>5, Zenon
<1>8. ScopeStack = <<x>>
  BY <1>1, <1>7, StackIs
<1> QED BY <1>5, <1>6, <1>8, Zenon DEF Abstract!Init

\* The stack of an open database, and the scope on its top.
LEMMA StackTop ==
  ASSUME TypeOK, TreeInv, active # NULL
  PROVE  /\ ScopeStack # << >> /\ Len(ScopeStack) \in Nat \ {0}
         /\ Abstract!Top = ScopeOf(tables, active)
<1>1. IsTree(tables, NewTable) /\ active \in 0..(NewTable - 1)
  BY TablesTree
<1>2. PICK s : s = StackOf(tables, active)
  OBVIOUS
<1>3. Len(s) \in Nat \ {0} /\ s[Len(s)] = ScopeOf(tables, active)
  BY <1>1, <1>2, StackShape
<1>4. ScopeStack = s
  BY <1>2, StackIs
<1>5. s # << >>
  BY <1>3
<1> QED BY <1>3, <1>4, <1>5 DEF Abstract!Top

LEMMA OpenImplemented ==
  ASSUME TypeOK, TreeInv, TypeOK', TreeInv', SD_add_scope
  PROVE  Abstract!Open
<1>1. /\ NewTable \notin Tables /\ active \in Tables /\ active' = NewTable /\ Tables' = Tables \cup {NewTable}
      /\ (\A t \in Tables : Kept(t))
      /\ tables'[NewTable].parent = active
      /\ (\A n \in Names : tables'[NewTable].vmap[n] = NULL)
  BY ScopeAdded
<1>2. PICK N, T, a : N = NewTable /\ T = tables /\ a = active
  OBVIOUS
<1>3. PICK U : U = tables'
  OBVIOUS
<1>4. a # NULL /\ active' # NULL
  <2>1. Tables \subseteq TableIds /\ NewTable \in Nat
    BY NewTableFresh DEF TypeOK, SD_add_scope
  <2> QED BY <2>1, <1>1, <1>2 DEF NULL, TableIds
<1>5. IsTree(T, N) /\ a \in 0..(N - 1) /\ Tables = 0..(N - 1) /\ N \in Nat
  BY <1>2, <1>4, TablesTree DEF IsTree
<1>6. IsTree(U, N + 1)
  <2>1. DOMAIN U = 0..(N + 1 - 1)
    <3>1. DOMAIN U = 0..(N - 1) \cup {N}
      BY <1>1, <1>2, <1>3, <1>5 DEF Tables
    <3> QED BY <3>1, <1>5
  <2>2. ASSUME NEW t \in 0..(N + 1 - 1), U[t].parent # NULL PROVE U[t].parent \in 0..(t - 1)
    <3>1. CASE t = N
      BY <3>1, <1>1, <1>2, <1>3, <1>5
    <3>2. CASE t # N
      <4>1. t \in 0..(N - 1)
        BY <3>2, <1>5
      <4>2. U[t].parent = T[t].parent
        BY <4>1, <1>1, <1>2, <1>3, <1>5 DEF Kept
      <4> QED BY <4>1, <4>2, <2>2, <1>5 DEF IsTree
    <3> QED BY <3>1, <3>2
  <2> QED BY <2>1, <2>2, <1>5 DEF IsTree
<1>7. SamePlace(T, U, N) /\ \A n \in Names : SameName(T, U, n, N)
  BY <1>1, <1>2, <1>3, <1>5 DEF Kept, SamePlace, SameName
<1>8. U[N].parent = a /\ \A n \in Names : U[N].vmap[n] = NULL
  BY <1>1, <1>2, <1>3
<1>9. StackOf(U, N) = Append(StackOf(T, a), [ScopeOf(T, a) EXCEPT !.own = {}])
  BY <1>5, <1>6, <1>7, <1>8, StackOpened
<1>10. ScopeStack = StackOf(T, a) /\ ScopeStack' = StackOf(U, N)
  BY <1>1, <1>2, <1>3, <1>4, StackIs, Zenon
<1>11. ScopeStack # << >> /\ Abstract!Top = ScopeOf(T, a)
  BY <1>2, <1>4, StackTop
<1> QED BY <1>9, <1>10, <1>11, Zenon DEF Abstract!Open

\* The tables stay where they are.
LEMMA TreeKept ==
  ASSUME TypeOK, TreeInv, active # NULL, Tables' = Tables, \A t \in Tables : tables'[t].parent = tables[t].parent
  PROVE  IsTree(tables', NewTable) /\ SamePlace(tables, tables', NewTable)
<1>1. IsTree(tables, NewTable) /\ Tables = 0..(NewTable - 1)
  BY TablesTree
<1>2. PICK N, T : N = NewTable /\ T = tables
  OBVIOUS
<1>3. PICK U : U = tables'
  OBVIOUS
<1>4. DOMAIN U = 0..(N - 1) /\ \A t \in 0..(N - 1) : U[t].parent = T[t].parent
  BY <1>1, <1>2, <1>3 DEF Tables
<1>5. IsTree(U, N) /\ SamePlace(T, U, N)
  BY <1>1, <1>2, <1>4 DEF IsTree, SamePlace
<1> QED BY <1>2, <1>3, <1>5

LEMMA CloseImplemented ==
  ASSUME TypeOK, TreeInv, SD_remove_scope
  PROVE  Abstract!Close
<1>1. /\ active \in Tables \ {ROOT} /\ tables[active].parent \in Tables
      /\ Tables' = Tables /\ active' = tables[active].parent
      /\ \A t \in Tables : Kept(t)
  BY ScopeRemoved
<1>2. active # NULL /\ active' # NULL
  BY <1>1 DEF TypeOK, TableIds, NULL
<1>3. PICK N, T, a : N = NewTable /\ T = tables /\ a = active
  OBVIOUS
<1>4. PICK U : U = tables'
  OBVIOUS
<1>5. IsTree(T, N) /\ a \in 0..(N - 1) /\ Tables = 0..(N - 1)
  BY <1>2, <1>3, TablesTree
<1>6. IsTree(U, N) /\ SamePlace(T, U, N)
  BY <1>1, <1>2, <1>3, <1>4, TreeKept DEF Kept
<1>7. \A n \in Names : SameName(T, U, n, N)
  BY <1>1, <1>3, <1>4, <1>5 DEF Kept, SameName
<1>8. T[a].parent # NULL /\ active' = T[a].parent
  BY <1>1, <1>2, <1>3
<1>9. /\ Len(StackOf(T, a)) > 1
      /\ StackOf(U, T[a].parent) = SubSeq(StackOf(T, a), 1, Len(StackOf(T, a)) - 1)
  BY <1>5, <1>6, <1>7, <1>8, StackClosed
<1>10. ScopeStack = StackOf(T, a) /\ ScopeStack' = StackOf(U, T[a].parent)
  BY <1>2, <1>3, <1>4, <1>8, StackIs, Zenon
<1> QED BY <1>9, <1>10, Zenon DEF Abstract!Close

LEMMA ClearImplemented ==
  ASSUME TypeOK, TreeInv, SD_clear
  PROVE  Abstract!Clear
<1>1. active = ROOT /\ active # NULL /\ active' = NULL
  BY DEF SD_clear, ROOT, NULL
<1>2. IsTree(tables, NewTable) /\ ROOT \in 0..(NewTable - 1) /\ tables[ROOT].parent = NULL
  <2>1. IsTree(tables, NewTable) /\ ROOT \in 0..(NewTable - 1) /\ Tables = 0..(NewTable - 1)
    BY <1>1, TablesTree
  <2> QED BY <2>1 DEF TreeInv
<1>3. Path(tables)[ROOT] = <<ROOT>>
  <2>1. Path(tables)[ROOT] = PathAt(tables, Path(tables), ROOT)
    BY <1>2, PathIs
  <2> QED BY <2>1, <1>2 DEF PathAt
<1>4. PICK s : s = StackOf(tables, ROOT)
  OBVIOUS
<1>5. Len(s) = Len(Path(tables)[ROOT])
  BY <1>2, <1>4, StackShape
<1>6. Len(s) = 1
  BY <1>3, <1>5
<1>7. ScopeStack = s /\ ScopeStack' = << >>
  <2>1. ScopeStack = s
    BY <1>1, <1>4, StackIs
  <2>2. ScopeStack' = << >>
    BY <1>1 DEF ScopeStack
  <2> QED BY <2>1, <2>2
<1> QED BY <1>6, <1>7 DEF Abstract!Clear

\* Nothing a lookup sees changes: literals, temporaries and rejected
\* declarations.
LEMMA StackKept ==
  ASSUME TypeOK, TreeInv, active \in Tables, Tables' = Tables, active' = active,
         \A t \in Tables : tables'[t].parent = tables[t].parent /\ tables'[t].vmap = tables[t].vmap
  PROVE  ScopeStack' = ScopeStack
<1>1. active # NULL /\ active' # NULL
  BY DEF TypeOK, TableIds, NULL
<1>2. PICK N, T, a : N = NewTable /\ T = tables /\ a = active
  OBVIOUS
<1>3. PICK U : U = tables'
  OBVIOUS
<1>4. IsTree(T, N) /\ a \in 0..(N - 1) /\ Tables = 0..(N - 1)
  BY <1>1, <1>2, TablesTree
<1>5. IsTree(U, N) /\ SamePlace(T, U, N)
  BY <1>1, <1>2, <1>3, TreeKept
<1>6. \A n \in Names : SameName(T, U, n, N)
  BY <1>2, <1>3, <1>4 DEF SameName
<1>7. StackOf(U, a) = StackOf(T, a)
  BY <1>4, <1>5, <1>6, StackSame
<1>8. ScopeStack = StackOf(T, a) /\ ScopeStack' = StackOf(U, a)
  BY <1>1, <1>2, <1>3, StackIs, Zenon
<1> QED BY <1>7, <1>8

LEMMA UnchangedImplemented ==
  ASSUME TypeOK, TreeInv, NamesUnchanged
  PROVE  ScopeStack' = ScopeStack
<1>1. tables' = tables /\ active' = active
  BY DEF NamesUnchanged, LayoutUnchanged
<1>2. CASE active = NULL
  BY <1>1, <1>2 DEF ScopeStack
<1>3. CASE active # NULL
  <2>1. active \in Tables /\ Tables' = Tables
    BY <1>1, <1>3 DEF TypeOK, Tables
  <2> QED BY <2>1, <1>1, StackKept
<1> QED BY <1>2, <1>3

LEMMA AddrImplemented ==
  ASSUME TypeOK, TreeInv, NEW an, AddrStep(an)
  PROVE  ScopeStack' = ScopeStack
<1>1. /\ active \in Tables /\ Tables' = Tables /\ active' = active
      /\ \A t \in Tables : tables'[t].parent = tables[t].parent /\ tables'[t].vmap = tables[t].vmap
  BY DEF AddrStep, Added, Kept
<1> QED BY <1>1, StackKept

LEMMA DeclareImplemented ==
  ASSUME TypeOK, TreeInv, NamesInv, NEW n \in Names, NEW an, DeclareStep(n, an)
  PROVE  \E d \in TableIds \X AddrIds : Abstract!Declare(n, d)
<1>1. /\ active \in Tables /\ Tables' = Tables /\ active' = active /\ an.id = tables[active].naddrs
      /\ tables[active].vmap[n] = NULL
      /\ (\A t \in Tables : tables'[t].parent = tables[t].parent)
      /\ (\A t \in Tables \ {active} : tables'[t].vmap = tables[t].vmap)
      /\ tables'[active].vmap = [tables[active].vmap EXCEPT ![n] = an.id]
      /\ Cardinality(addrs) < MaxAddrs
  BY DEF DeclareStep, Added, Kept
<1>2. active # NULL /\ active' # NULL /\ active \in TableIds
  <2>1. Tables \subseteq TableIds
    BY DEF TypeOK
  <2> QED BY <2>1, <1>1 DEF TableIds, NULL
<1>3. /\ an.id \in AddrIds /\ an.id # NULL
      /\ tables[active].vmap \in [Names -> Nat \cup {NULL}]
  <2>1. tables[active].naddrs \in Nat /\ tables[active].vmap \in [Names -> Nat \cup {NULL}]
    BY <1>1 DEF TypeOK, Table
  <2>2. tables[active].naddrs <= Cardinality(addrs) /\ Cardinality(addrs) \in Nat
    BY <1>1, FS_CardinalityType DEF NamesInv, IdsInv
  <2> QED BY <2>1, <2>2, <1>1, BoundsAssumption DEF AddrIds, NULL
<1>4. PICK N, T, a, id, d : N = NewTable /\ T = tables /\ a = active /\ id = an.id /\ d = <<a, id>>
  OBVIOUS
<1>5. PICK U : U = tables'
  OBVIOUS
<1>6. IsTree(T, N) /\ a \in 0..(N - 1) /\ Tables = 0..(N - 1)
  BY <1>2, <1>4, TablesTree
<1>7. IsTree(U, N) /\ SamePlace(T, U, N)
  BY <1>1, <1>2, <1>4, <1>5, TreeKept
<1>8. /\ (\A u \in 0..(N - 1) \ {a} : U[u].vmap = T[u].vmap) /\ U[a].vmap = [T[a].vmap EXCEPT ![n] = id]
      /\ T[a].vmap \in [Names -> Nat \cup {NULL}] /\ id # NULL
  BY <1>1, <1>3, <1>4, <1>5, <1>6
<1>9. StackOf(U, a) = DeclaredOn(StackOf(T, a), n, <<a, id>>)
  BY <1>6, <1>7, <1>8, StackDeclared
<1>10. ScopeStack = StackOf(T, a) /\ ScopeStack' = StackOf(U, a)
  BY <1>1, <1>2, <1>4, <1>5, StackIs, Zenon
<1>11. ScopeStack # << >> /\ n \notin Abstract!Top.own
  <2>1. ScopeStack # << >> /\ Abstract!Top = ScopeOf(tables, active)
    BY <1>2, StackTop
  <2>2. n \notin ScopeOf(tables, active).own
    BY <1>1 DEF ScopeOf
  <2> QED BY <2>1, <2>2
<1>12. Abstract!Fresh(d)
  <2>1. PICK s : s = StackOf(T, a)
    OBVIOUS
  <2>2. ASSUME NEW i \in 1..Len(s), NEW m \in Names PROVE s[i].visible[m] # d
    <3>1. PICK u : u = Path(T)[a][i]
      OBVIOUS
    <3>2. s[i] = ScopeOf(T, u) /\ u \in 0..(N - 1)
      BY <2>1, <3>1, <1>6, StackShape
    <3>3. s[i].visible[m] = Visible(T, m)[u]
      BY <3>2 DEF ScopeOf
    <3>4. \/ Visible(T, m)[u] = NoEntry
          \/ \E t \in 0..(N - 1) : T[t].vmap[m] # NULL /\ Visible(T, m)[u] = <<t, T[t].vmap[m]>>
      BY <3>2, <1>6, VisibleSound
    <3>5. CASE Visible(T, m)[u] = NoEntry
      BY <3>3, <3>5, <1>4, <1>8 DEF NoEntry
    <3>6. ASSUME NEW t \in 0..(N - 1), Visible(T, m)[u] = <<t, T[t].vmap[m]>> PROVE s[i].visible[m] # d
      <4>1. T[a].vmap[m] # id
        <5>1. tables[active].vmap[m] < tables[active].naddrs
          BY <1>1 DEF NamesInv, IdsInv
        <5>2. tables[active].naddrs \in Nat
          BY <1>1 DEF TypeOK, Table
        <5> QED BY <5>1, <5>2, <1>1, <1>4
      <4> QED BY <4>1, <3>3, <3>6, <1>4
    <3> QED BY <3>4, <3>5, <3>6
  <2> QED BY <2>1, <2>2, <1>10 DEF Abstract!Fresh
<1>13. d \in TableIds \X AddrIds
  BY <1>2, <1>3, <1>4
<1>14. ScopeStack' = [ScopeStack EXCEPT ![Len(ScopeStack)] =
         [visible |-> [@.visible EXCEPT ![n] = d], own |-> @.own \cup {n}]]
  BY <1>4, <1>9, <1>10, Zenon DEF DeclaredOn
<1>15. Abstract!Declare(n, d)
  BY <1>11, <1>12, <1>14, Zenon DEF Abstract!Declare
<1> QED BY <1>13, <1>15

LEMMA ScopesStep ==
  ASSUME TypeOK, TreeInv, TypeOK', TreeInv', NamesInv, [Next]_vars
  PROVE  [Abstract!Next]_ScopeStack
<1>1. CASE SD_add_scope
  BY <1>1, OpenImplemented DEF Abstract!Next
<1>2. CASE SD_remove_scope
  BY <1>2, CloseImplemented DEF Abstract!Next
<1>3. CASE SD_clear
  BY <1>3, ClearImplemented DEF Abstract!Next
<1>4. CASE NamesUnchanged
  BY <1>4, UnchangedImplemented
<1>5. ASSUME NEW an, AddrStep(an) PROVE ScopeStack' = ScopeStack
  BY <1>5, AddrImplemented
<1>6. ASSUME NEW n \in Names, NEW an, DeclareStep(n, an) PROVE Abstract!Next
  BY <1>6, DeclareImplemented DEF Abstract!Next
<1> QED BY <1>1, <1>2, <1>3, <1>4, <1>5, <1>6, NameCases

\* The database implements block-structured visibility: a scope that is opened
\* sees what its parent sees, a declaration hides outer ones in its own scope
\* only, and closing a scope brings back exactly what was visible before it.
THEOREM ScopesImplemented == Spec => ImplementsScopes
<1>1. SD_init => Abstract!Init
  BY ScopesInit
<1>2. SD_init => NamesInv
  BY NamesInit
<1>3. LayoutInv /\ LayoutInv' /\ NamesInv /\ [Next]_vars => NamesInv'
  BY NamesStep DEF LayoutInv
<1>4. LayoutInv /\ LayoutInv' /\ NamesInv /\ [Next]_vars => [Abstract!Next]_ScopeStack
  BY ScopesStep DEF LayoutInv
<1> QED BY <1>1, <1>2, <1>3, <1>4, LayoutInvariant, PTL DEF Spec, ImplementsScopes, Abstract!Spec
=============================================================================
