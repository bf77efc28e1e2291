--------------------------- MODULE SymbolDB_proofs ---------------------------
(***************************************************************************)
(* Proofs that the storage layout of the symbol database is right for any  *)
(* set of names, any array sizes and any number of tables and addresses.   *)
(***************************************************************************)
EXTENDS SymbolDB, FiniteSetTheorems, TLAPS

\* The width of an object is positive: get_type_width (type.c:8).
LEMMA WidthPositive ==
  ASSUME NEW type \in UsedTypes, NEW size \in {0} \cup ArraySizes
  PROVE  get_type_width(type, size) \in Nat \ {0}
<1>1. type \in Types /\ size \in Nat
  BY ArraySizesAssumption, UsedTypesAssumption
<1>2. TYPE_SIZES[type] \in {1, 2, 4}
  BY <1>1 DEF TYPE_SIZES, Types
<1>3. CASE size = 0
  BY <1>2, <1>3 DEF get_type_width
<1>4. CASE size # 0
  <2>1. get_type_width(type, size) = TYPE_SIZES[type] * size
    BY <1>4 DEF get_type_width
  <2>2. 1 * size \in Nat \ {0} /\ 2 * size \in Nat \ {0} /\ 4 * size \in Nat \ {0}
    BY <1>1, <1>4
  <2> QED BY <1>2, <2>1, <2>2
<1> QED BY <1>3, <1>4

\* get_aligned_offset (type.c:17) rounds up to a multiple of the alignment.
LEMMA AlignedOffset ==
  ASSUME NEW off \in Nat, NEW type \in UsedTypes
  PROVE  /\ get_aligned_offset(off, type) \in Nat
         /\ get_aligned_offset(off, type) >= off
         /\ get_aligned_offset(off, type) % TYPE_ALIGNS[type] = 0
<1>1. TYPE_ALIGNS[type] \in {1, 2, 4}
  BY UsedTypesAssumption DEF TYPE_ALIGNS, TYPE_SIZES, Types
<1> DEFINE al == TYPE_ALIGNS[type]
<1>2. get_aligned_offset(off, type) =
        IF off % al # 0 THEN off + (al - (off % al)) ELSE off
  BY DEF get_aligned_offset
<1> HIDE DEF al
<1>3. CASE al = 1 BY <1>2, <1>3 DEF al
<1>4. CASE al = 2 BY <1>2, <1>4 DEF al
<1>5. CASE al = 4 BY <1>2, <1>5 DEF al
<1> QED BY <1>1, <1>3, <1>4, <1>5 DEF al

\* An AddrNode about to be added is well-formed, aligned and at or after
\* the first free byte.
LEMMA NewAddrOK ==
  ASSUME TypeOK, active \in Tables,
         NEW addr_type \in AddrTypes, NEW type \in UsedTypes, NEW size \in {0} \cup ArraySizes
  PROVE  LET an == NewAddr(addr_type, type, size) IN
         /\ an \in Addr
         /\ an.st = active
         /\ an.addr_type = addr_type
         /\ EndOf(an) \in Nat
         /\ addr_type # "const" => /\ offset <= an.offset
                                   /\ an.offset < EndOf(an)
                                   /\ an.offset % TYPE_ALIGNS[an.type] = 0
<1> DEFINE an == NewAddr(addr_type, type, size)
<1>1. offset \in Nat /\ active \in TableIds /\ tables[active].naddrs \in Nat
  BY DEF TypeOK, Table
<1>2. an.offset = IF addr_type = "const" THEN 0 ELSE get_aligned_offset(offset, type)
  BY DEF NewAddr
<1>3. an.offset \in Nat
  BY <1>1, <1>2, AlignedOffset
<1>4. an \in Addr
  BY <1>1, <1>3 DEF NewAddr, Addr
<1>5. EndOf(an) = an.offset + get_type_width(type, size)
  BY DEF EndOf, NewAddr
<1>6. get_type_width(type, size) \in Nat \ {0}
  BY WidthPositive
<1>7. an.st = active /\ an.addr_type = addr_type /\ an.type = type
  BY DEF NewAddr
<1>8. addr_type # "const" => an.offset >= offset /\ an.offset % TYPE_ALIGNS[an.type] = 0
  BY <1>1, <1>2, <1>7, AlignedOffset
<1> HIDE DEF an
<1> QED BY <1>1, <1>3, <1>4, <1>5, <1>6, <1>7, <1>8 DEF an

\* What every AddrNode of a well-typed database satisfies.
LEMMA AddrFacts ==
  ASSUME TypeOK, NEW a \in addrs
  PROVE  a.offset \in Nat /\ EndOf(a) \in Nat /\ a.offset < EndOf(a)
<1>1. a.offset \in Nat /\ a.type \in UsedTypes /\ a.size \in {0} \cup ArraySizes
  BY DEF TypeOK, Addr
<1>2. get_type_width(a.type, a.size) \in Nat \ {0}
  BY <1>1, WidthPositive
<1> QED BY <1>1, <1>2 DEF EndOf

-----------------------------------------------------------------------------
(* Type correctness and the shape of the tree. *)

LEMMA NewTableFresh ==
  ASSUME TreeInv, active # NULL
  PROVE  /\ NewTable \in Nat \ {0}
         /\ NewTable \notin Tables
         /\ \A t \in Tables : t \in Nat /\ t < NewTable
         /\ Tables \cup {NewTable} = 0..NewTable
         /\ ROOT \in Tables
         /\ Cardinality(Tables \cup {NewTable}) = NewTable + 1
<1>1. NewTable \in Nat \ {0} /\ Tables = 0..(NewTable - 1)
  BY DEF TreeInv
<1>2. Tables \cup {NewTable} = 0..NewTable
  BY <1>1
<1>3. IsFiniteSet(Tables) /\ Cardinality(Tables) = NewTable
  BY <1>1, FS_Interval DEF NewTable, Tables
<1>4. Cardinality(Tables \cup {NewTable}) = NewTable + 1
  BY <1>1, <1>3, FS_AddElement
<1> HIDE DEF NewTable
<1> QED BY <1>1, <1>2, <1>4 DEF ROOT

LEMMA InitShape == SD_init => TypeOK /\ TreeInv
<1> SUFFICES ASSUME SD_init PROVE TypeOK /\ TreeInv
  OBVIOUS
<1>1. Tables = {0} /\ tables[ROOT] = ST_init(NULL, 0) /\ frame[ROOT] = ROOT
  BY DEF SD_init, Tables, ROOT
<1>2. ST_init(NULL, 0) \in Table
  BY BoundsAssumption DEF ST_init, Table, NULL, TableIds
<1>3. Cardinality({0}) = 1
  BY FS_Singleton
<1>4. NewTable = 1
  BY <1>1, <1>3 DEF NewTable, Tables
<1>5. TypeOK
  <2>1. /\ tables = [t \in {0} |-> ST_init(NULL, 0)] /\ frame = [t \in {0} |-> 0] /\ active = 0
        /\ level = 0 /\ offset = 0 /\ entries = << >> /\ addrs = {} /\ failed = FALSE
    BY DEF SD_init, ROOT
  <2>2. tables \in [Tables -> Table] /\ frame \in [Tables -> Tables] /\ active \in Tables \cup {NULL}
    BY <1>1, <1>2, <2>1
  <2>3. Tables \subseteq TableIds
    BY <1>1, BoundsAssumption DEF TableIds
  <2>4. entries \in Seq([lexeme : Names, addr : TableIds \X Nat])
    BY <2>1
  <2>5. level \in Nat /\ offset \in Nat /\ addrs \subseteq Addr /\ failed \in BOOLEAN
    BY <2>1
  <2> QED BY <2>2, <2>3, <2>4, <2>5 DEF TypeOK
<1>6. TreeInv
  BY <1>1, <1>4 DEF SD_init, TreeInv, Tables, ROOT, NULL, ST_init
<1> QED BY <1>5, <1>6

\* AddAddr and Declare, as far as the layout is concerned.
AddStep(addr_type, type, size, vmap) ==
  /\ CanAdd
  /\ SD_add_addr(NewAddr(addr_type, type, size), vmap)
  /\ UNCHANGED <<active, level, frame>>

AnyAddStep ==
  \E addr_type \in AddrTypes, type \in UsedTypes, size \in {0} \cup ArraySizes,
     vmap \in [Names -> Nat \cup {NULL}] : AddStep(addr_type, type, size, vmap)

LayoutUnchanged == UNCHANGED <<tables, active, level, offset, addrs, frame>>

\* The kinds of steps the layout can tell apart.
LEMMA NextCases ==
  ASSUME TypeOK, [Next]_vars
  PROVE  SD_add_scope \/ SD_remove_scope \/ AnyAddStep \/ SD_clear \/ LayoutUnchanged
<1>1. ASSUME NEW addr_type \in AddrTypes \ {"var"}, NEW type \in UsedTypes, AddAddr(addr_type, type)
      PROVE  AnyAddStep
  <2>1. tables[active].vmap \in [Names -> Nat \cup {NULL}]
    BY <1>1 DEF AddAddr, CanAdd, TypeOK, Table
  <2>2. AddStep(addr_type, type, 0, tables[active].vmap)
    BY <1>1 DEF AddAddr, AddStep
  <2> QED BY <2>1, <2>2 DEF AnyAddStep
<1>2. ASSUME NEW n \in Names, NEW type \in UsedTypes, NEW size \in {0} \cup ArraySizes,
             Declare(n, type, size)
      PROVE  AnyAddStep
  <2> DEFINE vmap == [tables[active].vmap EXCEPT ![n] = tables[active].naddrs]
  <2>1. vmap \in [Names -> Nat \cup {NULL}]
    BY <1>2 DEF Declare, CanAdd, TypeOK, Table
  <2>2. AddStep("var", type, size, vmap)
    BY <1>2 DEF Declare, AddStep, NewAddr
  <2> QED BY <2>1, <2>2 DEF AnyAddStep, AddrTypes
<1>3. ASSUME NEW n \in Names, Redeclare(n) PROVE LayoutUnchanged
  BY <1>3 DEF Redeclare, LayoutUnchanged
<1>4. CASE UNCHANGED vars \/ Done
  BY <1>4 DEF Done, vars, LayoutUnchanged
<1> QED BY <1>1, <1>2, <1>3, <1>4 DEF Next

\* SD_add_scope spelled out: the new table is a child of the active one.
LEMMA AddScopeFacts ==
  ASSUME TypeOK, TreeInv, SD_add_scope
  PROVE  /\ NewTable \notin Tables /\ NewTable # ROOT /\ NewTable \in TableIds /\ NewTable \in Nat
         /\ \A t \in Tables : t < NewTable
         /\ active \in Tables
         /\ Tables' = Tables \cup {NewTable}
         /\ tables'[NewTable] = ST_init(active, level + 1)
         /\ tables'[active] = [tables[active] EXCEPT !.last_child = NewTable]
         /\ \A t \in Tables \ {active} : tables'[t] = tables[t]
         /\ frame'[NewTable] = IF active = ROOT THEN NewTable ELSE frame[active]
         /\ \A t \in Tables : frame'[t] = frame[t]
         /\ DOMAIN frame' = Tables'
         /\ active' = NewTable /\ level' = level + 1
         /\ UNCHANGED <<offset, entries, addrs, failed>>
<1>1. active # NULL /\ NewTable <= MaxTables
  BY DEF SD_add_scope
<1>2. active \in Tables /\ DOMAIN frame = Tables /\ Tables = DOMAIN tables
  BY <1>1 DEF TypeOK, Tables
<1> DEFINE new == NewTable
<1>3. new \in Nat \ {0} /\ new \notin Tables /\ (\A t \in Tables : t < new) /\ new \in TableIds
  BY <1>1, NewTableFresh, BoundsAssumption DEF TableIds
<1>4. /\ level' = level + 1
      /\ tables' = [t \in Tables \cup {new} |->
                      IF t = new THEN ST_init(active, level + 1)
                      ELSE IF t = active THEN [tables[t] EXCEPT !.last_child = new]
                      ELSE tables[t]]
      /\ active' = new
      /\ frame' = [t \in Tables \cup {new} |->
                     IF t # new THEN frame[t] ELSE IF active = ROOT THEN new ELSE frame[active]]
      /\ UNCHANGED <<offset, entries, addrs, failed>>
  BY <1>2 DEF SD_add_scope, Tables
<1> HIDE DEF new
<1>5. Tables' = Tables \cup {new} /\ DOMAIN frame' = Tables'
  BY <1>4 DEF Tables
<1> QED BY <1>2, <1>3, <1>4, <1>5 DEF ROOT, new

\* SD_remove_scope spelled out: the maximum moves up, the parent is active.
LEMMA RemoveScopeFacts ==
  ASSUME TypeOK, TreeInv, SD_remove_scope
  PROVE  LET parent == tables[active].parent IN
         /\ active \in Tables \ {ROOT} /\ parent \in Tables /\ parent # active
         /\ Tables' = Tables /\ DOMAIN frame' = Tables'
         /\ tables'[parent] =
              [tables[parent] EXCEPT !.max_offset = Max2(tables[parent].max_offset, tables[active].max_offset)]
         /\ \A t \in Tables \ {parent} : tables'[t] = tables[t]
         /\ active' = parent /\ level' = level - 1
         /\ offset' = OffsetAfterClose(parent)
         /\ UNCHANGED <<entries, addrs, failed, frame>>
<1> DEFINE parent == tables[active].parent
<1>1. active \in Tables \ {ROOT}
  BY DEF SD_remove_scope, TypeOK
<1>2. parent \in Tables /\ parent < active
  BY <1>1 DEF TreeInv
<1>3. parent # active
  BY <1>1, <1>2 DEF TypeOK, TableIds
<1>4. DOMAIN frame = Tables
  BY DEF TypeOK
<1>5. /\ tables' = [tables EXCEPT ![parent] =
                     [tables[parent] EXCEPT !.max_offset = Max2(tables[parent].max_offset, tables[active].max_offset)]]
      /\ active' = parent /\ level' = level - 1
      /\ offset' = OffsetAfterClose(parent)
      /\ UNCHANGED <<entries, addrs, failed, frame>>
  BY DEF SD_remove_scope, MaxAfterClose
<1>6. Tables' = Tables
  BY <1>5 DEF Tables
<1> QED BY <1>1, <1>2, <1>3, <1>4, <1>5, <1>6 DEF Tables

\* Adding an AddrNode changes the active table only, and neither its place in
\* the tree nor its level.
LEMMA AddStepFacts ==
  ASSUME TypeOK,
         NEW addr_type \in AddrTypes, NEW type \in UsedTypes, NEW size \in {0} \cup ArraySizes,
         NEW vmap \in [Names -> Nat \cup {NULL}], AddStep(addr_type, type, size, vmap)
  PROVE  LET an == NewAddr(addr_type, type, size) IN
         /\ active \in Tables \ {ROOT}
         /\ Tables' = Tables
         /\ tables' = [tables EXCEPT ![active] = tables'[active]]
         /\ tables'[active] = [tables[active] EXCEPT !.naddrs = @ + 1, !.vmap = vmap,
              !.max_offset = IF addr_type # "const" THEN Max2(tables[active].max_offset, EndOf(an))
                             ELSE tables[active].max_offset]
         /\ tables'[active] \in Table
         /\ tables'[active].parent = tables[active].parent
         /\ tables'[active].level = tables[active].level
         /\ tables'[active].max_offset =
              IF addr_type # "const" THEN Max2(tables[active].max_offset, EndOf(an))
              ELSE tables[active].max_offset
         /\ \A t \in Tables \ {active} : tables'[t] = tables[t]
         /\ offset' = IF addr_type # "const" THEN EndOf(an) ELSE offset
         /\ offset' \in Nat
         /\ addrs' = addrs \cup {an}
         /\ UNCHANGED <<active, level, frame>>
<1> DEFINE an == NewAddr(addr_type, type, size)
           max == IF addr_type # "const" THEN Max2(tables[active].max_offset, EndOf(an))
                  ELSE tables[active].max_offset
           new == [tables[active] EXCEPT !.naddrs = @ + 1, !.vmap = vmap, !.max_offset = max]
<1>1. active \in Tables \ {ROOT}
  BY DEF AddStep, CanAdd, TypeOK
<1>2. an.addr_type = addr_type /\ EndOf(an) \in Nat
  BY <1>1, NewAddrOK
<1>3. SD_add_addr(an, vmap) /\ UNCHANGED <<active, level, frame>>
  BY DEF AddStep
<1> HIDE DEF an
<1>4. /\ addrs' = addrs \cup {an}
      /\ offset' = IF addr_type # "const" THEN EndOf(an) ELSE offset
      /\ tables' = [tables EXCEPT ![active] = new]
  BY <1>2, <1>3 DEF SD_add_addr
<1>5. tables[active] \in Table
  BY <1>1 DEF TypeOK
<1>6. max \in Nat /\ tables[active].naddrs + 1 \in Nat
  BY <1>2, <1>5 DEF Table, Max2
<1> HIDE DEF max
<1>7. new \in Table
  BY <1>5, <1>6 DEF Table
<1>11. new.parent = tables[active].parent /\ new.level = tables[active].level /\ new.max_offset = max
  BY <1>5 DEF Table
<1> HIDE DEF new
<1>8. tables'[active] = new /\ Tables' = Tables
  BY <1>1, <1>4 DEF Tables
<1>9. offset' \in Nat
  BY <1>2, <1>4 DEF TypeOK
<1>10. \A t \in Tables \ {active} : tables'[t] = tables[t]
  BY <1>1, <1>4 DEF Tables
<1> QED BY <1>1, <1>3, <1>4, <1>7, <1>8, <1>9, <1>10, <1>11 DEF an, max, new

LEMMA StutterFacts ==
  ASSUME LayoutUnchanged
  PROVE  UNCHANGED <<tables, active, level, offset, addrs, frame, Tables, Storage, NewTable>>
BY DEF LayoutUnchanged, Tables, Storage, NewTable

-----------------------------------------------------------------------------

LEMMA EntriesTyped ==
  ASSUME TypeOK, [Next]_vars
  PROVE  /\ entries' \in Seq([lexeme : Names, addr : TableIds \X Nat])
         /\ failed' \in BOOLEAN
<1> DEFINE Entry == [lexeme : Names, addr : TableIds \X Nat]
<1>1. ASSUME NEW n \in Names, NEW type \in UsedTypes, NEW size \in {0} \cup ArraySizes,
             Declare(n, type, size)
      PROVE  entries' \in Seq(Entry) /\ failed' \in BOOLEAN
  <2>1. active \in TableIds /\ tables[active].naddrs \in Nat
    BY <1>1 DEF Declare, CanAdd, TypeOK, Table
  <2>2. [lexeme |-> n, addr |-> <<active, tables[active].naddrs>>] \in Entry
    BY <2>1
  <2>3. entries' = Append(entries, [lexeme |-> n, addr |-> <<active, tables[active].naddrs>>])
    BY <1>1 DEF Declare, NewAddr
  <2> HIDE DEF Entry
  <2>4. entries \in Seq(Entry) /\ failed' = failed /\ failed \in BOOLEAN
    BY <1>1 DEF TypeOK, Declare, Entry
  <2> QED BY <2>2, <2>3, <2>4
<1>2. ASSUME NEW addr_type \in AddrTypes \ {"var"}, NEW type \in UsedTypes, AddAddr(addr_type, type)
      PROVE  UNCHANGED <<entries, failed>>
  BY <1>2 DEF AddAddr
<1>3. ASSUME NEW n \in Names, Redeclare(n)
      PROVE  entries' = entries /\ failed' = TRUE
  BY <1>3 DEF Redeclare
<1>4. CASE SD_add_scope \/ SD_remove_scope \/ Done \/ UNCHANGED vars
  BY <1>4 DEF SD_add_scope, SD_remove_scope, Done, vars, TypeOK
<1>5. CASE SD_clear
  BY <1>5 DEF SD_clear, TypeOK
<1> HIDE DEF Entry
<1>6. entries \in Seq(Entry) /\ failed \in BOOLEAN
  BY DEF TypeOK, Entry
<1>7. CASE \E n \in Names, type \in UsedTypes, size \in {0} \cup ArraySizes : Declare(n, type, size)
  BY <1>1, <1>7 DEF Entry
<1>8. CASE \E addr_type \in AddrTypes \ {"var"}, type \in UsedTypes : AddAddr(addr_type, type)
  BY <1>2, <1>6, <1>8 DEF Entry
<1>9. CASE \E n \in Names : Redeclare(n)
  BY <1>3, <1>6, <1>9 DEF Entry
<1> QED BY <1>4, <1>5, <1>7, <1>8, <1>9 DEF Next

\* The tree of tables is preserved: type correctness and TreeInv together,
\* because a table's links are typed by the tables that exist.
LEMMA ShapeStep ==
  ASSUME TypeOK, TreeInv, LevelIsDepth, [Next]_vars
  PROVE  TypeOK' /\ TreeInv'
<1>1. entries' \in Seq([lexeme : Names, addr : TableIds \X Nat]) /\ failed' \in BOOLEAN
  BY EntriesTyped
<1>2. CASE SD_add_scope
  <2>1. ST_init(active, level + 1) \in Table
    <3>1. active \in TableIds /\ level + 1 \in Nat
      BY <1>2, AddScopeFacts DEF TypeOK
    <3> QED BY <3>1 DEF ST_init, Table, NULL
  <2>2. [tables[active] EXCEPT !.last_child = NewTable] \in Table
    BY ZenonT(60), <1>2, AddScopeFacts DEF TypeOK, Table
  <2>3. \A t \in Tables' : tables'[t] \in Table
    BY <1>2, <2>1, <2>2, AddScopeFacts DEF TypeOK
  <2>4. tables' \in [Tables' -> Table]
    <3>1. tables' = [t \in Tables' |-> tables'[t]]
      BY <1>2 DEF SD_add_scope, Tables
    <3> QED BY <2>3, <3>1
  <2>5. frame' \in [Tables' -> Tables']
    <3>1. frame' = [t \in Tables' |-> frame'[t]]
      BY <1>2, AddScopeFacts DEF SD_add_scope
    <3>2. \A t \in Tables' : frame'[t] \in Tables'
      BY <1>2, AddScopeFacts DEF TypeOK
    <3> QED BY <3>1, <3>2
  <2>6. Tables' \subseteq TableIds /\ active' \in Tables' /\ level' \in Nat /\ offset' \in Nat
    BY <1>2, AddScopeFacts DEF TypeOK
  <2>7. addrs' \subseteq Addr
    BY <1>2, AddScopeFacts DEF TypeOK
  <2>8. TypeOK'
    BY <1>1, <2>4, <2>5, <2>6, <2>7 DEF TypeOK
  <2>9. NewTable' = NewTable + 1 /\ Tables' = 0..NewTable
    <3>1. Tables' = Tables \cup {NewTable} /\ active # NULL
      BY <1>2, AddScopeFacts DEF SD_add_scope
    <3>2. NewTable' = Cardinality(Tables')
      BY DEF NewTable, Tables
    <3> QED BY <3>1, <3>2, NewTableFresh
  <2>10. active # NULL /\ active' # NULL /\ NewTable \in Nat
    BY <1>2, AddScopeFacts DEF SD_add_scope, NULL
  <2>11. ASSUME NEW t \in Tables'
         PROVE  IF t = ROOT THEN tables'[t].parent = NULL /\ frame'[t] = ROOT
                ELSE /\ tables'[t].parent \in Tables' /\ tables'[t].parent < t
                     /\ frame'[t] = IF tables'[t].parent = ROOT THEN t ELSE frame'[tables'[t].parent]
                     /\ frame'[t] # ROOT
    <3>1. CASE t = NewTable
      <4>1. tables'[t].parent = active /\ active \in Tables /\ active < t /\ t # ROOT
        BY <1>2, <3>1, AddScopeFacts DEF ST_init
      <4>2. frame'[t] = (IF active = ROOT THEN t ELSE frame[active]) /\ frame'[active] = frame[active]
        BY <1>2, <3>1, <4>1, AddScopeFacts
      <4>3. active # ROOT => frame[active] # ROOT
        BY <4>1 DEF TreeInv
      <4> QED BY <1>2, <4>1, <4>2, <4>3, AddScopeFacts
    <3>2. CASE t # NewTable
      <4>1. t \in Tables /\ Tables \subseteq Tables' /\ frame'[t] = frame[t]
        BY <1>2, <3>2, AddScopeFacts
      <4>2. tables'[t].parent = tables[t].parent
        <5>1. CASE t = active
          <6>1. tables'[t] = [tables[t] EXCEPT !.last_child = NewTable] /\ tables[t] \in Table
            BY <1>2, <4>1, <5>1, AddScopeFacts DEF TypeOK
          <6> QED BY <6>1 DEF Table
        <5>2. CASE t # active
          BY <1>2, <4>1, <5>2, AddScopeFacts
        <5> QED BY <5>1, <5>2
      <4>3. t # ROOT => frame'[tables[t].parent] = frame[tables[t].parent]
        BY <1>2, <4>1, AddScopeFacts DEF TreeInv
      <4> QED BY <4>1, <4>2, <4>3 DEF TreeInv
    <3> QED BY <3>1, <3>2
  <2>12. TreeInv'
    BY <2>9, <2>10, <2>11 DEF TreeInv
  <2> QED BY <2>8, <2>12
<1>3. CASE SD_remove_scope
  <2> DEFINE parent == tables[active].parent
  <2>1. tables[active] \in Table /\ tables[parent] \in Table
    BY <1>3, RemoveScopeFacts DEF TypeOK
  <2>2. Max2(tables[parent].max_offset, tables[active].max_offset) \in Nat
    BY <2>1 DEF Table, Max2
  <2>3. tables'[parent] \in Table /\ tables'[parent].parent = tables[parent].parent
    BY <1>3, <2>1, <2>2, RemoveScopeFacts DEF Table
  <2>4. \A t \in Tables : tables'[t] \in Table /\ tables'[t].parent = tables[t].parent
    BY <1>3, <2>3, RemoveScopeFacts DEF TypeOK
  <2>5. tables' \in [Tables' -> Table]
    <3>1. tables' = [t \in Tables' |-> tables'[t]]
      BY <1>3, RemoveScopeFacts DEF SD_remove_scope, Tables, TypeOK
    <3> QED BY <1>3, <2>4, <3>1, RemoveScopeFacts
  <2>6. level' \in Nat
    <3>1. tables[active].parent # NULL /\ level = tables[active].level
      BY <1>3, RemoveScopeFacts DEF LevelIsDepth, TypeOK, TableIds, NULL
    <3>2. tables[active].level = tables[parent].level + 1
      BY <1>3, <3>1, RemoveScopeFacts DEF LevelIsDepth
    <3> QED BY <1>3, <2>1, <3>1, <3>2, RemoveScopeFacts DEF Table
  <2>7. offset' \in Nat
    BY <1>3, RemoveScopeFacts DEF OffsetAfterClose, TypeOK
  <2>8. active' \in Tables' /\ frame' \in [Tables' -> Tables'] /\ addrs' \subseteq Addr
        /\ Tables' \subseteq TableIds
    BY <1>3, RemoveScopeFacts DEF TypeOK
  <2>9. TypeOK'
    BY <1>1, <2>5, <2>6, <2>7, <2>8 DEF TypeOK
  <2>10. NewTable' = NewTable /\ active' # NULL /\ active # NULL
    BY <1>3, RemoveScopeFacts DEF NewTable, Tables, SD_remove_scope, TypeOK, TableIds, NULL
  <2>11. \A t \in Tables :
           IF t = ROOT THEN tables'[t].parent = NULL /\ frame'[t] = ROOT
           ELSE /\ tables'[t].parent \in Tables /\ tables'[t].parent < t
                /\ frame'[t] = IF tables'[t].parent = ROOT THEN t ELSE frame'[tables'[t].parent]
                /\ frame'[t] # ROOT
    BY <1>3, <2>4, RemoveScopeFacts DEF TreeInv
  <2>12. TreeInv'
    BY <1>3, <2>10, <2>11, RemoveScopeFacts DEF TreeInv
  <2> QED BY <2>9, <2>12
<1>4. CASE AnyAddStep
  <2>1. PICK addr_type \in AddrTypes, type \in UsedTypes, size \in {0} \cup ArraySizes,
             vmap \in [Names -> Nat \cup {NULL}] : AddStep(addr_type, type, size, vmap)
    BY <1>4 DEF AnyAddStep
  <2> DEFINE an == NewAddr(addr_type, type, size)
  <2>2. an \in Addr
    BY <2>1, AddStepFacts, NewAddrOK
  <2>3. tables' \in [Tables' -> Table]
    BY <2>1, AddStepFacts DEF TypeOK
  <2>4. addrs' \subseteq Addr /\ level' \in Nat /\ offset' \in Nat /\ active' \in Tables'
        /\ frame' \in [Tables' -> Tables'] /\ Tables' \subseteq TableIds
    <3>1. addrs' = addrs \cup {an} /\ Tables' = Tables /\ active \in Tables /\ offset' \in Nat
          /\ UNCHANGED <<active, level, frame>>
      BY <2>1, AddStepFacts, ZenonT(60)
    <3> HIDE DEF an
    <3> QED BY <2>2, <3>1 DEF TypeOK
  <2>5. TypeOK'
    BY <1>1, <2>3, <2>4 DEF TypeOK
  <2>6. tables'[active].parent = tables[active].parent
    <3>1. tables[active] \in Table
      BY <2>1, AddStepFacts DEF TypeOK
    <3> QED BY <2>1, <3>1, AddStepFacts DEF Table
  <2>7. \A t \in Tables : tables'[t].parent = tables[t].parent
    BY <2>1, <2>6, AddStepFacts
  <2>8. NewTable' = NewTable
    BY <2>1, AddStepFacts DEF NewTable, Tables
  <2>9. active # NULL /\ active' = active /\ Tables' = Tables /\ frame' = frame
    BY <2>1, AddStepFacts DEF AddStep, CanAdd
  <2>10. TreeInv'
    BY <2>7, <2>8, <2>9 DEF TreeInv
  <2> QED BY <2>5, <2>10
<1>5. CASE SD_clear
  <2>1. Tables' = {} /\ tables' \in [{} -> Table] /\ frame' \in [{} -> {}]
    BY <1>5 DEF SD_clear, Tables
  <2>2. active' = NULL /\ level' = 0 /\ offset' = 0 /\ addrs' = {}
    BY <1>5 DEF SD_clear
  <2>3. TypeOK'
    BY <1>1, <2>1, <2>2 DEF TypeOK
  <2>4. TreeInv'
    BY <2>1, <2>2 DEF TreeInv
  <2> QED BY <2>3, <2>4
<1>6. CASE LayoutUnchanged
  <2>1. TypeOK'
    BY <1>1, <1>6, StutterFacts DEF TypeOK
  <2>2. TreeInv'
    BY <1>6, StutterFacts DEF TreeInv
  <2> QED BY <2>1, <2>2
<1> QED BY <1>2, <1>3, <1>4, <1>5, <1>6, NextCases

\* The level of a table is its depth: ++psd->level at symbol_table.c:183 and
\* psd->level-- at :196 stay in step with the tree.
LEMMA LevelStep ==
  ASSUME TypeOK, TreeInv, LevelIsDepth, [Next]_vars
  PROVE  LevelIsDepth'
<1>1. CASE SD_add_scope
  <2>1. tables'[NewTable].level = level + 1 /\ tables'[NewTable].parent = active
    BY <1>1, AddScopeFacts DEF ST_init
  <2>2. \A t \in Tables : /\ tables'[t].level = tables[t].level
                          /\ tables'[t].parent = tables[t].parent
    <3>1. tables[active] \in Table
      BY <1>1, AddScopeFacts DEF TypeOK
    <3>2. /\ tables'[active].level = tables[active].level
          /\ tables'[active].parent = tables[active].parent
      BY <1>1, <3>1, AddScopeFacts DEF Table
    <3> QED BY <1>1, <3>2, AddScopeFacts
  <2>3. active # NULL /\ level = tables[active].level
    BY <1>1 DEF SD_add_scope, LevelIsDepth
  <2>4. \A t \in Tables : tables[t].parent = NULL \/ tables[t].parent \in Tables
    BY DEF TreeInv
  <2> QED BY <1>1, <2>1, <2>2, <2>3, <2>4, AddScopeFacts DEF LevelIsDepth
<1>2. CASE SD_remove_scope
  <2> DEFINE parent == tables[active].parent
  <2>1. tables[parent] \in Table /\ tables[active] \in Table
    BY <1>2, RemoveScopeFacts DEF TypeOK
  <2>2. /\ tables'[parent].level = tables[parent].level
        /\ tables'[parent].parent = tables[parent].parent
    BY <1>2, <2>1, RemoveScopeFacts DEF Table
  <2>3. \A t \in Tables : /\ tables'[t].level = tables[t].level
                          /\ tables'[t].parent = tables[t].parent
    BY <1>2, <2>2, RemoveScopeFacts
  <2>4. level = tables[active].level /\ active # NULL /\ parent # NULL
    BY <1>2, RemoveScopeFacts DEF LevelIsDepth, SD_remove_scope, TypeOK, TableIds, NULL
  <2>5. tables[active].level = tables[parent].level + 1
    BY <1>2, <2>4, RemoveScopeFacts DEF LevelIsDepth
  <2>6. level' = tables[parent].level
    BY <1>2, <2>1, <2>4, <2>5, RemoveScopeFacts DEF Table
  <2>7. \A t \in Tables : tables[t].parent = NULL \/ tables[t].parent \in Tables
    BY DEF TreeInv
  <2> QED BY <1>2, <2>2, <2>3, <2>6, <2>7, RemoveScopeFacts DEF LevelIsDepth
<1>3. CASE AnyAddStep
  <2>1. PICK addr_type \in AddrTypes, type \in UsedTypes, size \in {0} \cup ArraySizes,
             vmap \in [Names -> Nat \cup {NULL}] : AddStep(addr_type, type, size, vmap)
    BY <1>3 DEF AnyAddStep
  <2>2. tables[active] \in Table
    BY <2>1, AddStepFacts DEF TypeOK
  <2>3. /\ tables'[active].level = tables[active].level
        /\ tables'[active].parent = tables[active].parent
    BY <2>1, <2>2, AddStepFacts DEF Table
  <2>4. \A t \in Tables : /\ tables'[t].level = tables[t].level
                          /\ tables'[t].parent = tables[t].parent
    BY <2>1, <2>3, AddStepFacts
  <2>5. \A t \in Tables : tables[t].parent = NULL \/ tables[t].parent \in Tables
    BY DEF TreeInv
  <2>6. UNCHANGED <<active, level, Tables>> /\ active \in Tables
    BY <2>1, AddStepFacts, ZenonT(60)
  <2> QED BY <2>4, <2>5, <2>6 DEF LevelIsDepth
<1>4. CASE SD_clear
  BY <1>4 DEF SD_clear, LevelIsDepth, Tables
<1>5. CASE LayoutUnchanged
  BY <1>5, StutterFacts DEF LevelIsDepth
<1> QED BY <1>1, <1>2, <1>3, <1>4, <1>5, NextCases

\* The root's last child is the table of the module being compiled.
LEMMA SubrootStep ==
  ASSUME TypeOK, TreeInv, SubrootIsFrame, [Next]_vars
  PROVE  SubrootIsFrame'
<1>1. CASE SD_add_scope
  <2>1. CASE active = ROOT
    <3>1. tables[ROOT] \in Table
      BY <1>1, <2>1, AddScopeFacts DEF TypeOK
    <3>2. tables'[ROOT].last_child = NewTable /\ frame'[NewTable] = NewTable
      BY <1>1, <2>1, <3>1, AddScopeFacts DEF Table
    <3> QED BY <1>1, <3>2, AddScopeFacts DEF SubrootIsFrame, SD_get_subroot
  <2>2. CASE active # ROOT
    <3>1. ROOT \in Tables /\ active # NULL
      BY <1>1, NewTableFresh DEF SD_add_scope
    <3>2. tables'[ROOT] = tables[ROOT] /\ frame'[NewTable] = frame[active]
      BY <1>1, <2>2, <3>1, AddScopeFacts
    <3> QED BY <1>1, <2>2, <3>1, <3>2, AddScopeFacts DEF SubrootIsFrame, SD_get_subroot
  <2> QED BY <2>1, <2>2
<1>2. CASE SD_remove_scope
  <2> DEFINE parent == tables[active].parent
  <2>1. CASE parent = ROOT
    BY <1>2, <2>1, RemoveScopeFacts DEF SubrootIsFrame
  <2>2. CASE parent # ROOT
    <3>1. frame[active] = frame[parent] /\ active \notin {NULL, ROOT}
      BY <1>2, <2>2, RemoveScopeFacts DEF TreeInv, SD_remove_scope
    <3>2. ROOT \in Tables
      BY <3>1, NewTableFresh
    <3>3. tables'[ROOT] = tables[ROOT]
      BY <1>2, <2>2, <3>2, RemoveScopeFacts
    <3> QED BY <1>2, <3>1, <3>3, RemoveScopeFacts DEF SubrootIsFrame, SD_get_subroot
  <2> QED BY <2>1, <2>2
<1>3. CASE AnyAddStep
  <2>1. PICK addr_type \in AddrTypes, type \in UsedTypes, size \in {0} \cup ArraySizes,
             vmap \in [Names -> Nat \cup {NULL}] : AddStep(addr_type, type, size, vmap)
    BY <1>3 DEF AnyAddStep
  <2>2. active \in Tables \ {ROOT} /\ active # NULL
    BY <2>1, AddStepFacts DEF AddStep, CanAdd
  <2>3. ROOT \in Tables
    BY <2>2, NewTableFresh
  <2>4. tables'[ROOT] = tables[ROOT]
    BY <2>1, <2>2, <2>3, AddStepFacts
  <2> QED BY <2>1, <2>2, <2>4, AddStepFacts DEF SubrootIsFrame, SD_get_subroot
<1>4. CASE SD_clear
  BY <1>4 DEF SD_clear, SubrootIsFrame
<1>5. CASE LayoutUnchanged
  BY <1>5, StutterFacts DEF SubrootIsFrame, SD_get_subroot
<1> QED BY <1>1, <1>2, <1>3, <1>4, <1>5, NextCases

-----------------------------------------------------------------------------
(* The layout. *)

\* psd->offset stays at or above everything the current module has allocated:
\* it is reset only when the module is closed (symbol_table.c:197).
LEMMA OffsetStep ==
  ASSUME TypeOK, TreeInv, OffsetInv, [Next]_vars
  PROVE  OffsetInv'
<1>1. CASE SD_add_scope
  <2>1. \A a \in addrs : /\ a.st \in Tables \ {ROOT} /\ frame'[a.st] = frame[a.st]
                         /\ frame[a.st] \in Tables
    BY <1>1, AddScopeFacts DEF OffsetInv, TypeOK
  <2>2. addrs' = addrs /\ Storage' = Storage /\ offset' = offset
        /\ active' = NewTable /\ Tables \subseteq Tables' /\ NewTable # ROOT
    BY <1>1, AddScopeFacts DEF Storage
  <2>3. ASSUME NEW a \in Storage, frame[a.st] = frame'[NewTable]
        PROVE  EndOf(a) <= offset
    <3>1. a \in addrs
      BY DEF Storage
    <3>2. active # ROOT /\ frame'[NewTable] = frame[active]
      BY <1>1, <2>1, <2>3, <3>1, AddScopeFacts
    <3>3. active # NULL
      BY <1>1 DEF SD_add_scope
    <3> QED BY <2>3, <3>2, <3>3 DEF OffsetInv
  <2> QED BY <2>1, <2>2, <2>3 DEF OffsetInv, Storage
<1>2. CASE SD_remove_scope
  <2> DEFINE parent == tables[active].parent
  <2>1. addrs' = addrs /\ Storage' = Storage /\ frame' = frame /\ Tables' = Tables
        /\ active' = parent /\ offset' = OffsetAfterClose(parent)
    BY <1>2, RemoveScopeFacts DEF Storage
  <2>2. CASE parent = ROOT
    <3>1. tables[parent].parent = NULL
      BY <1>2, <2>2, RemoveScopeFacts DEF TreeInv
    <3>2. offset' = 0
      BY <2>1, <3>1 DEF OffsetAfterClose
    <3> QED BY <2>1, <2>2, <3>2 DEF OffsetInv
  <2>3. CASE parent # ROOT
    <3>1. tables[parent].parent \in Tables /\ frame[active] = frame[parent]
          /\ active \notin {NULL, ROOT}
      BY <1>2, <2>3, RemoveScopeFacts DEF TreeInv, SD_remove_scope
    <3>2. tables[parent].parent # NULL
      BY <3>1 DEF TypeOK, TableIds, NULL
    <3>3. offset' = offset
      BY <2>1, <3>2 DEF OffsetAfterClose
    <3> QED BY <2>1, <2>3, <3>1, <3>3 DEF OffsetInv
  <2> QED BY <2>2, <2>3
<1>3. CASE AnyAddStep
  <2>1. PICK addr_type \in AddrTypes, type \in UsedTypes, size \in {0} \cup ArraySizes,
             vmap \in [Names -> Nat \cup {NULL}] : AddStep(addr_type, type, size, vmap)
    BY <1>3 DEF AnyAddStep
  <2> DEFINE an == NewAddr(addr_type, type, size)
  <2>2. /\ active \in Tables \ {ROOT} /\ active # NULL
        /\ UNCHANGED <<active, frame, Tables>>
        /\ addrs' = addrs \cup {an}
        /\ offset' = IF addr_type # "const" THEN EndOf(an) ELSE offset
    BY <2>1, AddStepFacts DEF AddStep, CanAdd
  <2>3. /\ an.st = active /\ an.addr_type = addr_type /\ EndOf(an) \in Nat
        /\ addr_type # "const" => offset <= an.offset /\ an.offset < EndOf(an)
        /\ an.offset \in Nat
    BY <2>2, NewAddrOK DEF Addr
  <2> HIDE DEF an
  <2>4. offset \in Nat /\ offset' \in Nat /\ offset <= offset'
    BY <2>2, <2>3 DEF TypeOK
  <2>5. ASSUME NEW a \in Storage', frame[a.st] = frame[active] PROVE EndOf(a) <= offset'
    <3>1. CASE a = an
      BY <2>2, <2>3, <2>5, <3>1 DEF Storage
    <3>2. CASE a # an
      <4>1. a \in Storage
        BY <2>2, <2>5, <3>2 DEF Storage
      <4>2. EndOf(a) <= offset /\ EndOf(a) \in Nat
        BY <2>2, <2>5, <4>1, AddrFacts DEF OffsetInv, Storage
      <4> QED BY <2>4, <4>2
    <3> QED BY <3>1, <3>2
  <2>6. \A a \in addrs' : a.st \in Tables' \ {ROOT}
    BY <2>2, <2>3 DEF OffsetInv
  <2> QED BY <2>2, <2>5, <2>6 DEF OffsetInv
<1>4. CASE SD_clear
  <2>1. addrs' = {} /\ active' = NULL /\ Storage' = {}
    BY <1>4 DEF SD_clear, Storage
  <2> QED BY <2>1 DEF OffsetInv, NULL, ROOT
<1>5. CASE LayoutUnchanged
  BY <1>5, StutterFacts DEF OffsetInv
<1> QED BY <1>1, <1>2, <1>3, <1>4, <1>5, NextCases

\* No step makes two objects of a module overlap.
LEMMA DisjointStep ==
  ASSUME TypeOK, TreeInv, OffsetInv, FramesDisjoint, [Next]_vars
  PROVE  FramesDisjoint'
<1>1. CASE SD_add_scope
  <2>1. Storage' = Storage /\ \A a \in Storage : frame'[a.st] = frame[a.st]
    BY <1>1, AddScopeFacts DEF OffsetInv, Storage
  <2> QED BY <2>1 DEF FramesDisjoint, Disjoint
<1>2. CASE SD_remove_scope
  <2>1. Storage' = Storage /\ frame' = frame
    BY <1>2, RemoveScopeFacts DEF Storage
  <2> QED BY <2>1 DEF FramesDisjoint, Disjoint
<1>3. CASE AnyAddStep
  <2>1. PICK addr_type \in AddrTypes, type \in UsedTypes, size \in {0} \cup ArraySizes,
             vmap \in [Names -> Nat \cup {NULL}] : AddStep(addr_type, type, size, vmap)
    BY <1>3 DEF AnyAddStep
  <2> DEFINE an == NewAddr(addr_type, type, size)
  <2>2. active \in Tables \ {ROOT} /\ active # NULL /\ frame' = frame /\ addrs' = addrs \cup {an}
    BY <2>1, AddStepFacts DEF AddStep, CanAdd
  <2>3. /\ an.st = active /\ an.addr_type = addr_type /\ an.offset \in Nat
        /\ addr_type # "const" => offset <= an.offset
    BY <2>2, NewAddrOK DEF Addr
  <2> HIDE DEF an
  <2>4. ASSUME NEW a \in Storage, frame[a.st] = frame[active], addr_type # "const"
        PROVE  EndOf(a) <= an.offset
    <3>1. EndOf(a) <= offset /\ EndOf(a) \in Nat /\ offset \in Nat
      BY <2>2, <2>4, AddrFacts DEF OffsetInv, Storage, TypeOK
    <3> QED BY <2>3, <2>4, <3>1
  <2>5. ASSUME NEW a \in Storage', NEW b \in Storage', a # b, frame[a.st] = frame[b.st]
        PROVE  Disjoint(a, b)
    <3>1. CASE a = an
      <4>1. b \in Storage /\ addr_type # "const"
        BY <2>2, <2>3, <2>5, <3>1 DEF Storage
      <4> QED BY <2>3, <2>4, <2>5, <3>1, <4>1 DEF Disjoint
    <3>2. CASE b = an
      <4>1. a \in Storage /\ addr_type # "const"
        BY <2>2, <2>3, <2>5, <3>2 DEF Storage
      <4> QED BY <2>3, <2>4, <2>5, <3>2, <4>1 DEF Disjoint
    <3>3. CASE a # an /\ b # an
      <4>1. a \in Storage /\ b \in Storage
        BY <2>2, <2>5, <3>3 DEF Storage
      <4> QED BY <2>5, <4>1 DEF FramesDisjoint
    <3> QED BY <3>1, <3>2, <3>3
  <2> QED BY <2>2, <2>5 DEF FramesDisjoint, Disjoint
<1>4. CASE SD_clear
  <2>1. Storage' = {}
    BY <1>4 DEF SD_clear, Storage
  <2> QED BY <2>1 DEF FramesDisjoint
<1>5. CASE LayoutUnchanged
  BY <1>5, StutterFacts DEF FramesDisjoint, Disjoint
<1> QED BY <1>1, <1>2, <1>3, <1>4, <1>5, NextCases

LEMMA AlignedStep ==
  ASSUME TypeOK, TreeInv, Aligned, [Next]_vars
  PROVE  Aligned'
<1>1. CASE SD_add_scope
  BY <1>1, AddScopeFacts DEF Aligned, Storage
<1>2. CASE SD_remove_scope
  BY <1>2, RemoveScopeFacts DEF Aligned, Storage
<1>3. CASE AnyAddStep
  <2>1. PICK addr_type \in AddrTypes, type \in UsedTypes, size \in {0} \cup ArraySizes,
             vmap \in [Names -> Nat \cup {NULL}] : AddStep(addr_type, type, size, vmap)
    BY <1>3 DEF AnyAddStep
  <2> DEFINE an == NewAddr(addr_type, type, size)
  <2>2. active \in Tables /\ addrs' = addrs \cup {an}
    BY <2>1, AddStepFacts, ZenonT(60)
  <2>3. an.addr_type # "const" => an.offset % TYPE_ALIGNS[an.type] = 0
    BY <2>2, NewAddrOK
  <2> HIDE DEF an
  <2> QED BY <2>2, <2>3 DEF Aligned, Storage
<1>4. CASE SD_clear
  BY <1>4 DEF SD_clear, Aligned, Storage
<1>5. CASE LayoutUnchanged
  BY <1>5, StutterFacts DEF Aligned
<1> QED BY <1>1, <1>2, <1>3, <1>4, <1>5, NextCases

\* Some open scope's max_offset accounts for every object, and every
\* max_offset is the end of some object.
LEMMA MaxOffsetStep ==
  ASSUME TypeOK, TreeInv, LevelIsDepth, MaxOffsetInv, [Next]_vars, TypeOK'
  PROVE  MaxOffsetInv'
<1>1. CASE SD_add_scope
  <2>1. active # NULL /\ level = tables[active].level /\ tables[active] \in Table
        /\ active \in Tables
    BY <1>1, AddScopeFacts DEF SD_add_scope, LevelIsDepth, TypeOK
  <2>2. /\ tables'[NewTable].level = tables[active].level + 1
        /\ tables'[NewTable].parent = active
        /\ tables'[NewTable].max_offset = 0
    BY <1>1, <2>1, AddScopeFacts DEF ST_init
  <2>3. \A t \in Tables : /\ tables'[t].level = tables[t].level
                          /\ tables'[t].parent = tables[t].parent
                          /\ tables'[t].max_offset = tables[t].max_offset
    <3>1. /\ tables'[active].level = tables[active].level
          /\ tables'[active].parent = tables[active].parent
          /\ tables'[active].max_offset = tables[active].max_offset
      BY <1>1, <2>1, AddScopeFacts DEF Table
    <3> QED BY <1>1, <3>1, AddScopeFacts
  <2>4. /\ Storage' = Storage /\ active' = NewTable
        /\ Tables' = Tables \cup {NewTable} /\ NewTable \notin Tables
    BY <1>1, AddScopeFacts DEF Storage
  <2>5. PICK S \in SUBSET Tables : OpenScopes(S)
    BY <2>1 DEF MaxOffsetInv
  <2>20. PICK T : T = S \cup {NewTable}
    OBVIOUS
  <2>6. \A t \in S : t \in Tables /\ t # NewTable /\ tables[t].level \in Nat
                   /\ tables[t].level <= tables[active].level
    BY <2>4, <2>5 DEF OpenScopes, TypeOK, Table
  <2>7. /\ active' \in T /\ T \in SUBSET Tables'
        /\ \A t \in T : tables'[t].level <= tables'[active'].level
        /\ \A t, u \in T : tables'[t].level = tables'[u].level => t = u
    <3>1. tables[active].level \in Nat
      BY <2>1 DEF Table
    <3>2. \A t, u \in S : tables[t].level = tables[u].level => t = u
      BY <2>5 DEF OpenScopes
    <3> QED BY <2>20, <2>2, <2>3, <2>4, <2>6, <3>1, <3>2
  <2>8. \A t \in T \ {ROOT} : tables'[t].parent \in T
    BY <2>20, <2>2, <2>3, <2>5, <2>6 DEF OpenScopes
  <2>9. \A a \in Storage' : \E t \in T : EndOf(a) <= tables'[t].max_offset
    BY <2>20, <2>3, <2>4, <2>5, <2>6 DEF OpenScopes
  <2>10. \E U \in SUBSET Tables' : OpenScopes(U)'
    <3>1. OpenScopes(T)'
      BY <2>7, <2>8, <2>9 DEF OpenScopes
    <3> QED BY <2>7, <3>1
  <2>11. \A t \in Tables' : tables'[t].max_offset > 0 =>
           \E a \in Storage' : EndOf(a) = tables'[t].max_offset
    BY <2>2, <2>3, <2>4 DEF MaxOffsetInv
  <2> QED BY <2>10, <2>11 DEF MaxOffsetInv
<1>2. CASE SD_remove_scope
  <2> DEFINE parent == tables[active].parent
  <2>1. /\ active \in Tables \ {ROOT} /\ active # NULL /\ parent \in Tables /\ parent # active
        /\ parent # NULL /\ Storage' = Storage /\ active' = parent /\ Tables' = Tables
    BY <1>2, RemoveScopeFacts DEF Storage, SD_remove_scope, TypeOK, TableIds, NULL
  <2>2. /\ tables[active].level = tables[parent].level + 1
        /\ tables[active] \in Table /\ tables[parent] \in Table
    BY <2>1 DEF LevelIsDepth, TypeOK
  <2>3. \A t \in Tables : tables[t].level \in Nat /\ tables[t].max_offset \in Nat
    BY DEF TypeOK, Table
  <2>4. /\ tables'[parent].level = tables[parent].level
        /\ tables'[parent].parent = tables[parent].parent
        /\ tables'[parent].max_offset = Max2(tables[parent].max_offset, tables[active].max_offset)
    BY <1>2, <2>2, RemoveScopeFacts DEF Table
  <2>5. \A t \in Tables : /\ tables'[t].level = tables[t].level
                          /\ tables'[t].parent = tables[t].parent
                          /\ t # parent => tables'[t].max_offset = tables[t].max_offset
    BY <1>2, <2>4, RemoveScopeFacts
  <2>6. /\ tables[parent].max_offset <= tables'[parent].max_offset
        /\ tables[active].max_offset <= tables'[parent].max_offset
        /\ \/ tables'[parent].max_offset = tables[parent].max_offset
           \/ tables'[parent].max_offset = tables[active].max_offset
    BY <2>1, <2>3, <2>4 DEF Max2
  <2> HIDE DEF parent
  <2>7. PICK S \in SUBSET Tables : OpenScopes(S)
    BY <2>1 DEF MaxOffsetInv
  <2>15. PICK T : T = S \ {active}
    OBVIOUS
  <2>8. parent \in T /\ T \in SUBSET Tables
    BY <2>15, <2>1, <2>7 DEF OpenScopes, parent
  <2>9. \A t \in T : tables[t].level <= tables[parent].level
    <3>1. ASSUME NEW t \in T PROVE tables[t].level <= tables[parent].level
      <4>1. tables[t].level <= tables[active].level /\ tables[t].level # tables[active].level
        BY <2>15, <2>7 DEF OpenScopes
      <4> QED BY <2>1, <2>2, <2>3, <2>8, <4>1
    <3> QED BY <3>1
  <2>10. \A t, u \in T : tables'[t].level = tables'[u].level => t = u
    BY <2>15, <2>5, <2>7, <2>8 DEF OpenScopes
  <2>11. ASSUME NEW t \in T \ {ROOT} PROVE tables'[t].parent \in T
    <3>1. t \in Tables /\ tables[t].parent \in S /\ tables[t].parent \in Tables
      BY <2>15, <2>7, <2>8 DEF OpenScopes, TreeInv
    <3>2. tables[t].level = tables[tables[t].parent].level + 1
      <4>1. tables[t].parent # NULL
        BY <3>1 DEF TypeOK, TableIds, NULL
      <4> QED BY <3>1, <4>1 DEF LevelIsDepth
    <3>3. tables[t].level <= tables[active].level
      BY <2>15, <2>7 DEF OpenScopes
    <3>4. tables[t].parent # active
      BY <2>1, <2>3, <3>1, <3>2, <3>3
    <3> QED BY <2>15, <2>5, <3>1, <3>4
  <2>12. ASSUME NEW a \in Storage PROVE \E t \in T : EndOf(a) <= tables'[t].max_offset
    <3>1. PICK t \in S : EndOf(a) <= tables[t].max_offset
      BY <2>7 DEF OpenScopes
    <3>2. EndOf(a) \in Nat /\ tables[t].max_offset \in Nat /\ tables'[parent].max_offset \in Nat
      BY <2>1, <2>3, <2>4, <2>6, <2>7, AddrFacts DEF Storage
    <3>3. CASE t \in {active, parent}
      <4>1. EndOf(a) <= tables'[parent].max_offset
        BY <2>1, <2>3, <2>6, <3>1, <3>2, <3>3
      <4> QED BY <2>8, <4>1
    <3>4. CASE t \notin {active, parent}
      BY <2>15, <2>5, <2>7, <3>1, <3>4
    <3> QED BY <3>3, <3>4
  <2>13. \E U \in SUBSET Tables' : OpenScopes(U)'
    <3>1. OpenScopes(T)'
      BY <2>1, <2>5, <2>8, <2>9, <2>10, <2>11, <2>12 DEF OpenScopes
    <3> QED BY <2>1, <2>8, <3>1
  <2>14. ASSUME NEW t \in Tables, tables'[t].max_offset > 0
         PROVE  \E a \in Storage : EndOf(a) = tables'[t].max_offset
    BY <2>1, <2>5, <2>6, <2>14 DEF MaxOffsetInv
  <2> QED BY <2>1, <2>13, <2>14 DEF MaxOffsetInv
<1>3. CASE AnyAddStep
  <2>1. PICK addr_type \in AddrTypes, type \in UsedTypes, size \in {0} \cup ArraySizes,
             vmap \in [Names -> Nat \cup {NULL}] : AddStep(addr_type, type, size, vmap)
    BY <1>3 DEF AnyAddStep
  <2> DEFINE an == NewAddr(addr_type, type, size)
             max == IF addr_type # "const" THEN Max2(tables[active].max_offset, EndOf(an))
                    ELSE tables[active].max_offset
  <2>2. /\ active \in Tables \ {ROOT} /\ active # NULL /\ tables[active] \in Table
        /\ UNCHANGED <<active, Tables>> /\ addrs' = addrs \cup {an}
    BY <2>1, AddStepFacts DEF AddStep, CanAdd, TypeOK
  <2>3. an.addr_type = addr_type /\ EndOf(an) \in Nat
    BY <2>2, NewAddrOK
  <2>4. \A t \in Tables : tables[t].max_offset \in Nat
    BY DEF TypeOK, Table
  <2>5. /\ tables'[active].level = tables[active].level
        /\ tables'[active].parent = tables[active].parent
        /\ tables'[active].max_offset = max
    <3>1. tables'[active].level = tables[active].level /\ tables'[active].parent = tables[active].parent
      BY <2>1, AddStepFacts, ZenonT(60)
    <3>2. tables'[active].max_offset = max
      BY <2>1, AddStepFacts, ZenonT(60)
    <3> QED BY <3>1, <3>2
  <2>6. \A t \in Tables \ {active} : tables'[t] = tables[t]
    BY <2>1, AddStepFacts, ZenonT(60)
  <2> HIDE DEF an
  <2>7. /\ tables[active].max_offset <= max /\ max \in Nat
        /\ addr_type # "const" => EndOf(an) <= max
        /\ max = tables[active].max_offset \/ (addr_type # "const" /\ max = EndOf(an))
    BY <2>2, <2>3, <2>4 DEF Max2
  <2> HIDE DEF max
  <2>8. /\ addr_type # "const" => Storage' = Storage \cup {an}
        /\ addr_type = "const" => Storage' = Storage
    BY <2>2, <2>3 DEF Storage
  <2>9. PICK S \in SUBSET Tables : OpenScopes(S)
    BY <2>2 DEF MaxOffsetInv
  <2>10. \A t \in Tables : /\ tables'[t].level = tables[t].level
                           /\ tables'[t].parent = tables[t].parent
    BY <2>5, <2>6
  <2>11. ASSUME NEW a \in Storage' PROVE \E t \in S : EndOf(a) <= tables'[t].max_offset
    <3>1. active \in S
      BY <2>9 DEF OpenScopes
    <3>2. CASE a \in Storage
      <4>1. PICK t \in S : EndOf(a) <= tables[t].max_offset
        BY <2>9, <3>2 DEF OpenScopes
      <4>2. EndOf(a) \in Nat /\ tables[t].max_offset \in Nat
        BY <2>4, <2>9, <3>2, AddrFacts DEF Storage
      <4> QED BY <2>5, <2>6, <2>7, <2>9, <4>1, <4>2
    <3>3. CASE a = an /\ addr_type # "const"
      BY <2>5, <2>7, <3>1, <3>3
    <3> QED BY <2>8, <3>2, <3>3
  <2>12. \E U \in SUBSET Tables' : OpenScopes(U)'
    <3>1. OpenScopes(S)'
      BY <2>2, <2>9, <2>10, <2>11 DEF OpenScopes
    <3> QED BY <2>2, <2>9, <3>1
  <2>13. ASSUME NEW t \in Tables, tables'[t].max_offset > 0
         PROVE  \E a \in Storage' : EndOf(a) = tables'[t].max_offset
    <3>1. Storage \subseteq Storage'
      BY <2>8
    <3>2. CASE t = active
      BY <2>2, <2>5, <2>7, <2>8, <2>13, <3>1, <3>2 DEF MaxOffsetInv
    <3>3. CASE t # active
      BY <2>6, <2>13, <3>1, <3>3 DEF MaxOffsetInv
    <3> QED BY <3>2, <3>3
  <2> QED BY <2>2, <2>12, <2>13 DEF MaxOffsetInv
<1>4. CASE SD_clear
  BY <1>4 DEF SD_clear, MaxOffsetInv, Tables
<1>5. CASE LayoutUnchanged
  BY <1>5, StutterFacts DEF MaxOffsetInv, OpenScopes
<1> QED BY <1>1, <1>2, <1>3, <1>4, <1>5, NextCases

-----------------------------------------------------------------------------
(* The theorems. *)

LEMMA LayoutInit == SD_init => LayoutInv
<1> SUFFICES ASSUME SD_init PROVE LayoutInv
  OBVIOUS
<1>1. TypeOK /\ TreeInv
  BY InitShape
<1>2. Tables = {ROOT} /\ tables[ROOT] = ST_init(NULL, 0) /\ active = ROOT /\ addrs = {}
      /\ Storage = {} /\ offset = 0 /\ level = 0
  BY DEF SD_init, Tables, ROOT, Storage
<1>3. LevelIsDepth /\ SubrootIsFrame
  BY <1>2 DEF LevelIsDepth, SubrootIsFrame, ST_init
<1>4. OffsetInv /\ FramesDisjoint /\ Aligned
  BY <1>2 DEF OffsetInv, FramesDisjoint, Aligned
<1>5. MaxOffsetInv
  <2>1. OpenScopes({ROOT}) /\ {ROOT} \in SUBSET Tables
    BY <1>2 DEF OpenScopes, ST_init
  <2> QED BY <1>2, <2>1 DEF MaxOffsetInv, ST_init
<1> QED BY <1>1, <1>3, <1>4, <1>5 DEF LayoutInv

\* The layout invariant holds of every state of the symbol database.
THEOREM LayoutInvariant == Spec => []LayoutInv
<1>1. SD_init => LayoutInv
  BY LayoutInit
<1>2. LayoutInv /\ [Next]_vars => LayoutInv'
  <2> SUFFICES ASSUME LayoutInv, [Next]_vars PROVE LayoutInv'
    OBVIOUS
  <2>1. TypeOK' /\ TreeInv'
    BY ShapeStep DEF LayoutInv
  <2>2. LevelIsDepth' /\ SubrootIsFrame'
    BY LevelStep, SubrootStep DEF LayoutInv
  <2>3. OffsetInv' /\ FramesDisjoint' /\ Aligned'
    BY OffsetStep, DisjointStep, AlignedStep DEF LayoutInv
  <2>4. MaxOffsetInv'
    BY <2>1, MaxOffsetStep DEF LayoutInv
  <2> QED BY <2>1, <2>2, <2>3, <2>4 DEF LayoutInv
<1> QED BY <1>1, <1>2, PTL DEF Spec

\* Type correctness.
THEOREM TypeCorrect == Spec => []TypeOK
<1>1. LayoutInv => TypeOK
  BY DEF LayoutInv
<1> QED BY <1>1, LayoutInvariant, PTL

\* Objects of one module never share a byte of the activation record.
THEOREM NoOverlap == Spec => []FramesDisjoint
<1>1. LayoutInv => FramesDisjoint
  BY DEF LayoutInv
<1> QED BY <1>1, LayoutInvariant, PTL

\* Every object is aligned on its element size.
THEOREM Alignment == Spec => []Aligned
<1>1. LayoutInv => Aligned
  BY DEF LayoutInv
<1> QED BY <1>1, LayoutInvariant, PTL

\* What get_aligned_offset (symbol_table.c:19) and the offset kept over
\* scopes (symbol_table.c:198) are for: both at once.
THEOREM LaidOut == Spec => []FramesLaidOut
<1>1. FramesDisjoint /\ Aligned => FramesLaidOut
  BY DEF FramesLaidOut
<1> QED BY <1>1, NoOverlap, Alignment, PTL

\* The data segment compile_program_to_x86 reserves covers every object.
THEOREM SegmentCovers == Spec => []DataSegmentCovers
<1>1. LayoutInv => DataSegmentCovers
  <2> SUFFICES ASSUME LayoutInv, active = ROOT, NEW a \in Storage
               PROVE  EndOf(a) <= tables[ROOT].max_offset
    BY DEF DataSegmentCovers
  <2>1. ROOT \in Tables /\ active # NULL
    BY NewTableFresh DEF LayoutInv, ROOT, NULL
  <2>2. PICK S \in SUBSET Tables : OpenScopes(S)
    BY <2>1 DEF LayoutInv, MaxOffsetInv
  <2>3. PICK t \in S : EndOf(a) <= tables[t].max_offset
    BY <2>2 DEF OpenScopes
  <2>4. tables[ROOT].parent = NULL
    BY <2>1 DEF LayoutInv, TreeInv
  <2>5. tables[ROOT].level = 0 /\ tables[t].level \in Nat
    BY <2>1, <2>2, <2>4 DEF LayoutInv, LevelIsDepth, TypeOK, Table
  <2>6. tables[t].level <= tables[ROOT].level /\ ROOT \in S
    BY <2>2 DEF OpenScopes
  <2>7. t = ROOT
    BY <2>2, <2>5, <2>6 DEF OpenScopes
  <2> QED BY <2>3, <2>7
<1> QED BY <1>1, LayoutInvariant, PTL

\* ... and is no larger than some module needs.
THEOREM SegmentTight == Spec => []DataSegmentTight
<1>1. LayoutInv => DataSegmentTight
  <2> SUFFICES ASSUME LayoutInv, active = ROOT, tables[ROOT].max_offset > 0
               PROVE  \E a \in Storage : EndOf(a) = tables[ROOT].max_offset
    BY DEF DataSegmentTight
  <2>1. ROOT \in Tables
    BY NewTableFresh DEF LayoutInv, ROOT, NULL
  <2> QED BY <2>1 DEF LayoutInv, MaxOffsetInv
<1> QED BY <1>1, LayoutInvariant, PTL

\* The data segment has exactly the size of the largest module.
THEOREM SegmentExact == Spec => []DataSegmentExact
<1>1. DataSegmentCovers /\ DataSegmentTight => DataSegmentExact
  BY DEF DataSegmentExact
<1> QED BY <1>1, SegmentCovers, SegmentTight, PTL

\* psd->level and the levels of the tables are depths in the tree.
THEOREM Levels == Spec => []LevelIsDepth
<1>1. LayoutInv => LevelIsDepth
  BY DEF LayoutInv
<1> QED BY <1>1, LayoutInvariant, PTL

\* The last child of the root is the level-1 table above the active one.
THEOREM Subroot == Spec => []SubrootIsFrame
<1>1. LayoutInv => SubrootIsFrame
  BY DEF LayoutInv
<1> QED BY <1>1, LayoutInvariant, PTL
=============================================================================
