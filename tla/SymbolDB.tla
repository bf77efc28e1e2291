------------------------------ MODULE SymbolDB ------------------------------
(***************************************************************************)
(* The symbol database of the compiler (symbol_table.c, type.c, addr.c):   *)
(* a tree of symbol tables, one per scope, that maps names to entries and  *)
(* gives every variable and temporary its place in the activation record.  *)
(* The whole program shares one data segment: the record of every module   *)
(* starts at offset 0 and the segment is as large as the root table's      *)
(* max_offset (compile_x86.c).                                             *)
(*                                                                         *)
(* The callers are those of compiler.c: compile_program opens one level-1  *)
(* table per module, and everything else happens while a module is open.   *)
(*                                                                         *)
(* Tables are numbered in the order they are created, ROOT first, and an   *)
(* AddrNode is known by its table and its id.                              *)
(***************************************************************************)
EXTENDS Integers, Sequences, FiniteSets

CONSTANTS Names,       \* identifiers (interned: compared by pointer)
          UsedTypes,   \* types the program's objects have
          ArraySizes,  \* sizes an array declaration may have
          MaxTables,   \* bound: tables created besides the root
          MaxAddrs     \* bound: AddrNodes created

ASSUME ArraySizesAssumption == ArraySizes \subseteq Nat \ {0}
ASSUME BoundsAssumption == MaxTables \in Nat /\ MaxAddrs \in Nat

NULL == -1
ROOT == 0

Types     == {"integer", "real", "boolean"}
AddrTypes == {"var", "temp", "const", "arr"}

TYPE_SIZES  == [t \in Types |-> IF t = "integer" THEN 2 ELSE IF t = "real" THEN 4 ELSE 1]
TYPE_ALIGNS == TYPE_SIZES

ASSUME UsedTypesAssumption == UsedTypes \subseteq Types

VARIABLES
  tables,   \* the tree of SymbolTables, by number
  active,   \* psd->active
  level,    \* psd->level
  offset,   \* psd->offset: first free byte of the current activation record
  entries,  \* the list psd->first_entry .. psd->last_entry
  addrs,    \* the AddrNodes of all AddrLists
  failed,   \* error_count > 0
  frame     \* history: the level-1 table under which each table was created

vars == <<tables, active, level, offset, entries, addrs, failed, frame>>

get_type_width(type, size) ==
  IF size = 0 THEN TYPE_SIZES[type] ELSE TYPE_SIZES[type] * size

get_aligned_offset(off, type) ==
  LET align == TYPE_ALIGNS[type]
      t     == off % align
  IN  IF t # 0 THEN off + (align - t) ELSE off

\* A SymbolTable: vmap[n] is the id of the AddrNode of n's entry; naddrs is
\* the length of the AddrList, whose last element has id naddrs - 1.
ST_initUnset(parent, lev) ==  \* mutant: max_offset is not initialised
  [parent |-> parent, last_child |-> NULL, level |-> lev, max_offset |-> NULL,
   vmap |-> [n \in Names |-> NULL], naddrs |-> 0]
ST_init(parent, lev) ==
  [parent |-> parent, last_child |-> NULL, level |-> lev, max_offset |-> 0,
   vmap |-> [n \in Names |-> NULL], naddrs |-> 0]

-----------------------------------------------------------------------------
(* Queries. *)

NoEntry == <<NULL, NULL>>

\* mutant: the enclosing scopes are not searched
EntryInTable(t, n) == IF tables[t].vmap[n] # NULL THEN <<t, tables[t].vmap[n]>> ELSE NoEntry

\* The entry SD_get_entry finds when the active table is t, walking up from it.
EntryFrom(t, n) ==
  LET walk[u \in DOMAIN tables] ==
        IF tables[u].vmap[n] # NULL THEN <<u, tables[u].vmap[n]>>
        ELSE IF tables[u].parent = NULL THEN NoEntry
        ELSE walk[tables[u].parent]
  IN  walk[t]

SD_get_entry(n) == EntryFrom(active, n)

SD_get_subroot == tables[ROOT].last_child

NewTable == Cardinality(DOMAIN tables)

EndOf(a) == a.offset + get_type_width(a.type, a.size)

-----------------------------------------------------------------------------
(* Operations. *)

SD_init ==
  /\ tables  = [t \in {ROOT} |-> ST_init(NULL, 0)]
  /\ active  = ROOT
  /\ level   = 0
  /\ offset  = 0
  /\ entries = << >>
  /\ addrs   = {}
  /\ failed  = FALSE
  /\ frame   = [t \in {ROOT} |-> ROOT]

\* A module, while-loop, for-loop or switch is entered.
SD_add_scope ==
  LET new == NewTable IN
  /\ active # NULL
  /\ new <= MaxTables
  /\ level' = level + 1
  /\ tables' = [t \in DOMAIN tables \cup {new} |->
                  IF t = new THEN ST_init(active, level')
                  ELSE IF t = active THEN [tables[t] EXCEPT !.last_child = new]
                  ELSE tables[t]]
  /\ active' = new
  /\ frame' = [t \in DOMAIN frame \cup {new} |->
                 IF t # new THEN frame[t] ELSE IF active = ROOT THEN new ELSE frame[active]]
  /\ UNCHANGED <<offset, entries, addrs, failed>>

Max2(x, y) == IF x > y THEN x ELSE y

\* psd->offset, and the parent's max_offset, after the active scope is closed.
AlwaysReset(parent) == 0       \* mutant: the storage of an open module is given out again
OffsetAfterClose(parent) == IF tables[parent].parent = NULL THEN 0 ELSE offset
NoMax(parent)  == tables[parent].max_offset  \* mutant: the child's maximum is lost
MaxAfterClose(parent) == Max2(tables[parent].max_offset, tables[active].max_offset)

SD_remove_scope ==
  LET parent == tables[active].parent IN
  /\ active \notin {NULL, ROOT}
  /\ tables' = [tables EXCEPT ![parent].max_offset = MaxAfterClose(parent)]
  /\ active' = parent
  /\ level'  = level - 1
  /\ offset' = OffsetAfterClose(parent)
  /\ UNCHANGED <<entries, addrs, failed, frame>>

NewAddr(addr_type, type, size) ==
  [st |-> active, id |-> tables[active].naddrs, addr_type |-> addr_type, type |-> type, size |-> size,
   offset |-> IF addr_type = "const" THEN 0 ELSE get_aligned_offset(offset, type)]

\* SD_add_addr(an), vmap being the active table's map after SD_add_entry.
SD_add_addr(an, vmap) ==
  LET pst     == tables[active]
      storage == an.addr_type # "const"
      max     == IF storage THEN Max2(pst.max_offset, EndOf(an)) ELSE pst.max_offset
  IN
  /\ addrs' = addrs \cup {an}
  /\ offset' = IF storage THEN EndOf(an) ELSE offset
  /\ tables' = [tables EXCEPT ![active] =
       [pst EXCEPT !.naddrs = pst.naddrs + 1, !.vmap = vmap, !.max_offset = max]]

CanAdd == active \notin {NULL, ROOT} /\ Cardinality(addrs) < MaxAddrs

\* add_node_addr_to_SD for a literal, a loop bound, the result of an operator
\* or an array element; only variables have a size.
AddAddr(addr_type, type) ==
  /\ CanAdd
  /\ SD_add_addr(NewAddr(addr_type, type, 0), tables[active].vmap)
  /\ UNCHANGED <<active, level, entries, failed, frame>>

\* add_node_var_to_SD when SD_add_entry finds the name free in the active table.
Declare(n, type, size) ==
  LET an == NewAddr("var", type, size) IN
  /\ CanAdd
  /\ tables[active].vmap[n] = NULL
  /\ entries' = Append(entries, [lexeme |-> n, addr |-> <<active, an.id>>])
  /\ SD_add_addr(an, [tables[active].vmap EXCEPT ![n] = an.id])
  /\ UNCHANGED <<active, level, failed, frame>>

\* ... and when it reports ALREADY_DECL: the new entry is freed.
RedeclareListed(n) ==  \* mutant: the rejected entry is put in the list
  /\ active \notin {NULL, ROOT}
  /\ Len(entries) < MaxAddrs
  /\ tables[active].vmap[n] # NULL
  /\ entries' = Append(entries, [lexeme |-> n, addr |-> <<active, tables[active].vmap[n]>>])
  /\ failed' = TRUE
  /\ UNCHANGED <<tables, active, level, offset, addrs, frame>>
Redeclare(n) ==
  /\ active \notin {NULL, ROOT}
  /\ tables[active].vmap[n] # NULL
  /\ failed' = TRUE
  /\ UNCHANGED <<tables, active, level, offset, entries, addrs, frame>>

\* At the end of compiler_main, all modules compiled.
SD_clear ==
  /\ active = ROOT
  /\ tables' = [t \in {} |-> ST_init(NULL, 0)]
  /\ frame'  = [t \in {} |-> ROOT]
  /\ active' = NULL
  /\ level'  = 0
  /\ offset' = 0
  /\ entries' = << >>
  /\ addrs'  = {}
  /\ UNCHANGED failed

\* The compiler has exited.
Done == active = NULL /\ UNCHANGED vars

Next ==
  \/ SD_add_scope
  \/ SD_remove_scope
  \/ \E addr_type \in AddrTypes \ {"var"}, type \in UsedTypes : AddAddr(addr_type, type)
  \/ \E n \in Names, type \in UsedTypes, size \in {0} \cup ArraySizes : Declare(n, type, size)
  \/ \E n \in Names : Redeclare(n)
  \/ SD_clear
  \/ Done

Spec == SD_init /\ [][Next]_vars

-----------------------------------------------------------------------------
(* Properties. *)

Tables    == DOMAIN tables
TableIds  == 0..MaxTables
AddrIds   == 0..(MaxAddrs - 1)

Table == [parent : TableIds \cup {NULL}, last_child : TableIds \cup {NULL}, level : Nat,
          max_offset : Nat, vmap : [Names -> Nat \cup {NULL}], naddrs : Nat]

Addr == [st : TableIds, id : Nat, addr_type : AddrTypes, type : UsedTypes,
         size : {0} \cup ArraySizes, offset : Nat]

\* Every variable has the type the C declaration intends; the active table,
\* unless the database was cleared, is one of the tables.
TypeOK ==
  /\ tables \in [Tables -> Table] /\ Tables \subseteq TableIds
  /\ frame \in [Tables -> Tables]
  /\ active \in Tables \cup {NULL}
  /\ level \in Nat /\ offset \in Nat
  /\ entries \in Seq([lexeme : Names, addr : TableIds \X Nat])
  /\ addrs \subseteq Addr
  /\ failed \in BOOLEAN

\* The AddrNodes that occupy bytes of the activation record.
Storage == {a \in addrs : a.addr_type # "const"}

Disjoint(a, b) == EndOf(a) <= b.offset \/ EndOf(b) <= a.offset

\* Two objects of one module never share a byte, whatever scopes were opened
\* and closed between their declarations: the code generator addresses them by
\* offset alone (addr_to_x86_arg), so an overlap would silently corrupt data.
FramesDisjoint ==
  \A a, b \in Storage : a # b /\ frame[a.st] = frame[b.st] => Disjoint(a, b)

\* Every object is aligned on its element size.
Aligned == \A a \in Storage : a.offset % TYPE_ALIGNS[a.type] = 0

\* The places given out in a frame can be used together: the offset of an
\* object is a multiple of its element size, and padding one for that never
\* puts it on another.
FramesLaidOut == FramesDisjoint /\ Aligned

\* Once all scopes are closed the root's max_offset, which
\* compile_program_to_x86 reserves as data segment, covers every object.
DataSegmentCovers ==
  active = ROOT => \A a \in Storage : EndOf(a) <= tables[ROOT].max_offset

\* ... and no byte more than some module needs.
DataSegmentTight ==
  active = ROOT /\ tables[ROOT].max_offset > 0 =>
    \E a \in Storage : EndOf(a) = tables[ROOT].max_offset

\* The data segment has the size of the largest module: a maximum lost on the
\* way up from a scope, or added up, makes it too small or too large.
DataSegmentExact == DataSegmentCovers /\ DataSegmentTight

\* psd->level is the depth of the active table, the level of every table that
\* of its parent plus one: pSTEntry_print_sub reports it as the nesting level.
LevelIsDepth ==
  /\ active # NULL => level = tables[active].level
  /\ \A t \in Tables : tables[t].level =
       IF tables[t].parent = NULL THEN 0 ELSE tables[tables[t].parent].level + 1

\* SD_get_subroot finds the level-1 table under which the active one lies
\* by taking the root's last child (the comment at symbol_table.c:173).  Nobody
\* calls it.
SubrootIsFrame == active \notin {NULL, ROOT} => SD_get_subroot = frame[active]

\* The entry list printed by SD_print_sub and the maps of the tables describe
\* the same declarations: every declared name once, with an AddrNode of its
\* own, of kind var, in the list of its table.
EntriesMatchTables ==
  /\ {<<e.lexeme, e.addr>> : e \in {entries[i] : i \in DOMAIN entries}} =
       {<<p[1], <<p[2], tables[p[2]].vmap[p[1]]>>>> :
          p \in {q \in Names \X Tables : tables[q[2]].vmap[q[1]] # NULL}}
  /\ Len(entries) = Cardinality({a \in addrs : a.addr_type = "var"})
  /\ \A i, j \in DOMAIN entries : i # j => entries[i].addr # entries[j].addr
  /\ \A i \in DOMAIN entries :
       \E a \in addrs : <<a.st, a.id>> = entries[i].addr /\ a.addr_type = "var"

\* The tables from the root to t.
PathTo(t) ==
  LET path[u \in Tables] ==
        IF tables[u].parent = NULL THEN <<u>> ELSE Append(path[tables[u].parent], u)
  IN  path[t]

\* The stack of scopes that the tree of tables represents: along the path to
\* the active table, what SD_get_entry would answer and what is in the map.
ScopeStack ==
  IF active = NULL THEN << >>
  ELSE LET path == PathTo(active) IN
       [i \in 1..Len(path) |->
          [visible |-> [n \in Names |-> EntryFrom(path[i], n)],
           own |-> {n \in Names : tables[path[i]].vmap[n] # NULL}]]

Abstract == INSTANCE Scopes WITH
  stack <- ScopeStack, Decls <- TableIds \X AddrIds, NoDecl <- NoEntry

\* The database implements block-structured visibility: every operation of it
\* opens or closes a scope, declares a name, or changes nothing a lookup sees.
ImplementsScopes == Abstract!Spec


-----------------------------------------------------------------------------
(* The inductive invariant behind the layout properties.                   *)

\* The tables form a tree whose links go to older tables, and each lies in
\* the frame of its parent unless it starts one.
TreeInv ==
  /\ active # NULL => NewTable \in Nat \ {0} /\ Tables = 0..(NewTable - 1)
  /\ active = NULL => Tables = {} /\ addrs = {}
  /\ \A t \in Tables :
       IF t = ROOT THEN tables[t].parent = NULL /\ frame[t] = ROOT
       ELSE /\ tables[t].parent \in Tables /\ tables[t].parent < t
            /\ frame[t] = IF tables[t].parent = ROOT THEN t ELSE frame[tables[t].parent]
            /\ frame[t] # ROOT

\* Storage belongs to tables of modules, and what the module being compiled
\* has allocated so far ends at or before psd->offset.
OffsetInv ==
  /\ \A a \in addrs : a.st \in Tables \ {ROOT}
  /\ active = ROOT => offset = 0
  /\ active \notin {NULL, ROOT} =>
       \A a \in Storage : frame[a.st] = frame[active] => EndOf(a) <= offset

\* S is the set of open scopes: the active table and those above it, one per
\* level; some open table accounts for every object allocated so far.
OpenScopes(S) ==
  /\ active \in S
  /\ \A t \in S : tables[t].level <= tables[active].level
  /\ \A t, u \in S : tables[t].level = tables[u].level => t = u
  /\ \A t \in S \ {ROOT} : tables[t].parent \in S
  /\ \A a \in Storage : \E t \in S : EndOf(a) <= tables[t].max_offset

MaxOffsetInv ==
  /\ active # NULL => \E S \in SUBSET Tables : OpenScopes(S)
  /\ \A t \in Tables : tables[t].max_offset > 0 =>
       \E a \in Storage : EndOf(a) = tables[t].max_offset

LayoutInv ==
  /\ TypeOK /\ TreeInv /\ LevelIsDepth /\ SubrootIsFrame
  /\ OffsetInv /\ MaxOffsetInv /\ FramesDisjoint /\ Aligned
=============================================================================
