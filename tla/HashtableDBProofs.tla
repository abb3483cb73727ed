------------------------- MODULE HashtableDBProofs --------------------------
(***************************************************************************)
(* Proofs about HashtableDB: whatever reads, scans, inserts and updates of *)
(* shared keys meet, no string or field table is freed twice, no field     *)
(* table is used after it was freed, and no string is read after it was    *)
(* freed unless another client may update its record; and if no two        *)
(* clients write one key nothing is lost.                                  *)
(***************************************************************************)
EXTENDS HashtableDB, FiniteSetTheorems, SequenceTheorems, TLAPS

-----------------------------------------------------------------------------
(* The inductive invariant *)

\* A client's record, and that it keeps to its workload.
Typed(c) ==
  /\ DOMAIN cl[c] = {"pc", "call", "vals", "tabs", "todo", "ptrs", "row", "rows", "was"}
  /\ cl[c].pc \in {"idle", "called", "rows", "copy", "link", "fill", "over", "insert", "free",
                   "drop"}
  /\ cl[c].call.op \in {"none", "Read", "Scan", "Insert", "Update", "Delete"}
  /\ cl[c].call.len \in Nat
  /\ cl[c].call.fields \subseteq Fields /\ cl[c].todo \subseteq cl[c].call.fields
  /\ cl[c].vals \in Seq(Fields \X Values)
  /\ cl[c].tabs \in Seq(Address)
  /\ DOMAIN cl[c].ptrs \subseteq Fields
  /\ \A f \in DOMAIN cl[c].ptrs : cl[c].ptrs[f] \in Address
  /\ cl[c].pc # "idle" =>
       cl[c].call.key \in Keys /\ <<c, cl[c].call.op, cl[c].call.key>> \in workload

ClientsInv == DOMAIN cl = Clients /\ \A c \in Clients : Typed(c)

AnswersInv ==
  /\ DOMAIN ans = Clients /\ DOMAIN seen = Clients
  /\ \A c \in Clients :
       {ans[c].code, seen[c].code} \subseteq {kOK, kErrorNoData, kErrorConflict}

\* Where a client is, and with which operation; no field twice in what it has
\* still to write.
Placed(c) ==
  /\ cl[c].pc \in {"idle", "called", "link"} => cl[c].tabs = << >>
  /\ cl[c].pc \notin {"copy", "free"} => DOMAIN cl[c].ptrs = {}
  /\ cl[c].pc \in {"rows", "copy"} => cl[c].call.op \in {"Read", "Scan"}
  /\ cl[c].pc \in {"link", "fill"} => cl[c].call.op \in {"Insert", "Update"}
  /\ cl[c].pc \in {"over", "insert", "free"} => cl[c].call.op = "Update"
  /\ cl[c].pc = "drop" => cl[c].call.op = "Delete"
  /\ cl[c].pc \in {"fill", "over", "insert", "free", "drop"} => Len(cl[c].tabs) = 1
  /\ cl[c].pc = "copy" => cl[c].tabs # << >>
  /\ cl[c].pc = "insert" => cl[c].vals # << >>
  /\ \A i, j \in DOMAIN cl[c].vals : cl[c].vals[i][1] = cl[c].vals[j][1] => i = j

PlacesInv == \A c \in Clients : Placed(c)

\* A field table is under one key, or about to be deleted by one client.
Drops(c, t) == cl[c].pc = "drop" /\ cl[c].tabs[1] = t

\* The tables a client goes through are the one under its key, or, in a scan,
\* tables under some keys...
Points(c) ==
  \A i \in DOMAIN cl[c].tabs :
    \E k \in DOMAIN key_table :
      cl[c].tabs[i] = key_table[k] /\ (cl[c].call.op # "Scan" => k = cl[c].call.key)

\* ...the one it fills may also be under no key, but nobody deletes it...
Filling(c) ==
  /\ cl[c].tabs[1] \in DOMAIN tables
  /\ \A d \in Clients : ~Drops(d, cl[c].tabs[1])
  /\ \A k \in DOMAIN key_table : key_table[k] = cl[c].tabs[1] => k = cl[c].call.key

\* ...and what it is about to copy is in the first of them.
Copies(c) ==
  \A f \in DOMAIN cl[c].ptrs :
    f \in DOMAIN tables[cl[c].tabs[1]] /\ cl[c].ptrs[f] = tables[cl[c].tabs[1]][f]

\* What a client found missing under a key it alone writes is still missing.
Missing(c) ==
  /\ cl[c].pc = "link" => cl[c].call.key \notin DOMAIN key_table
  /\ cl[c].pc = "fill" => Points(c)
  /\ cl[c].pc = "insert" => cl[c].vals[1][1] \notin DOMAIN tables[cl[c].tabs[1]]
  /\ cl[c].pc = "fill" /\ cl[c].call.op = "Update" =>
       \A i \in DOMAIN cl[c].vals : cl[c].vals[i][1] \notin DOMAIN tables[cl[c].tabs[1]]

Pointing(c) ==
  /\ cl[c].pc \in {"rows", "copy", "over", "insert", "free"} => Points(c)
  /\ cl[c].pc = "fill" => Filling(c)
  /\ cl[c].pc = "copy" /\ ~Overwritten(c) => Copies(c)
  /\ OneWriter => Missing(c)

PointersInv == \A c \in Clients : Pointing(c)

TablesInv ==
  /\ IsFiniteSet(DOMAIN key_table) /\ DOMAIN key_table \subseteq Keys
  /\ IsFiniteSet(DOMAIN tables) /\ DOMAIN tables \subseteq Address
  /\ \A k \in DOMAIN key_table : key_table[k] \in DOMAIN tables
  /\ \A j, k \in DOMAIN key_table : key_table[j] = key_table[k] => j = k
  /\ \A c \in Clients : cl[c].pc = "drop" => cl[c].tabs[1] \in DOMAIN tables
  /\ \A c \in Clients, t \in DOMAIN tables :
       Drops(c, t) => \A k \in DOMAIN key_table : key_table[k] # t
  /\ \A c, d \in Clients, t \in DOMAIN tables : Drops(c, t) /\ Drops(d, t) => c = d
  /\ OneWriter => \A t \in DOMAIN tables :
       (\E k \in DOMAIN key_table : key_table[k] = t) \/ (\E c \in Clients : Drops(c, t))

\* A string is in one field of one table, or about to be freed by one client.
Frees(c, s) == cl[c].pc = "free" /\ \E f \in DOMAIN cl[c].ptrs : cl[c].ptrs[f] = s

Has(t, s) == \E f \in DOMAIN tables[t] : tables[t][f] = s

StringsInv ==
  /\ IsFiniteSet(DOMAIN strings) /\ DOMAIN strings \subseteq Address
  /\ \A s \in DOMAIN strings : strings[s] \in Values
  /\ \A t \in DOMAIN tables : DOMAIN tables[t] \subseteq Fields
  /\ \A t \in DOMAIN tables : \A f \in DOMAIN tables[t] : tables[t][f] \in DOMAIN strings
  /\ \A t, u \in DOMAIN tables :
       \A f \in DOMAIN tables[t], g \in DOMAIN tables[u] :
         tables[t][f] = tables[u][g] => t = u /\ f = g
  /\ \A c \in Clients : cl[c].pc = "free" =>
       \A f \in DOMAIN cl[c].ptrs : cl[c].ptrs[f] \in DOMAIN strings
  /\ \A c \in Clients, s \in DOMAIN strings :
       Frees(c, s) => \A t \in DOMAIN tables : ~Has(t, s)
  /\ \A c, d \in Clients, s \in DOMAIN strings : Frees(c, s) /\ Frees(d, s) => c = d
  /\ OneWriter => \A s \in DOMAIN strings :
       (\E t \in DOMAIN tables : Has(t, s)) \/ (\E c \in Clients : Frees(c, s))

CallsInv == workload \in Workloads /\ calls \in 0..MaxCalls

HashtableInv ==
  CallsInv /\ ClientsInv /\ AnswersInv /\ PlacesInv /\ PointersInv /\ TablesInv /\ StringsInv

-----------------------------------------------------------------------------
(* What it implies *)

LEMMA ImpliesTypes == HashtableInv => HashtableTypeOK
  <1> SUFFICES ASSUME HashtableInv PROVE HashtableTypeOK
    OBVIOUS
  <1>1. workload \in Workloads /\ calls \in 0..MaxCalls
    BY DEF HashtableInv, CallsInv
  <1>2. IsPartial(key_table, Keys, Address)
    BY DEF HashtableInv, TablesInv, IsPartial, Range
  <1>3. ASSUME NEW t \in DOMAIN tables
        PROVE  t \in Address /\ IsPartial(tables[t], Fields, Address)
    BY DEF HashtableInv, TablesInv, StringsInv, IsPartial, Range
  <1>4. IsPartial(strings, Address, Values)
    BY DEF HashtableInv, StringsInv, IsPartial, Range
  <1>5. \A c \in Clients : IsPartial(cl[c].ptrs, Fields, Address)
    BY DEF HashtableInv, ClientsInv, Typed, IsPartial, Range
  <1> QED BY <1>1, <1>2, <1>3, <1>4, <1>5 DEF HashtableTypeOK, HashtableInv, ClientsInv, Typed, AnswersInv

LEMMA ImpliesLive == HashtableInv => PointersAreLive
  <1> SUFFICES ASSUME HashtableInv PROVE PointersAreLive
    OBVIOUS
  <1>1. Range(key_table) \subseteq DOMAIN tables
    BY DEF HashtableInv, TablesInv, Range
  <1>2. \A t \in DOMAIN tables : Range(tables[t]) \subseteq DOMAIN strings
    BY DEF HashtableInv, StringsInv, Range
  <1>3. ASSUME NEW c \in Clients PROVE Range(cl[c].tabs) \subseteq DOMAIN tables
    <2>0. cl[c].tabs \in Seq(Address)
      BY DEF HashtableInv, ClientsInv, Typed
    <2>1. CASE cl[c].pc \in {"idle", "called", "link"}
      BY <2>1 DEF HashtableInv, PlacesInv, Placed, Range
    <2>2. CASE cl[c].pc \in {"rows", "copy", "over", "insert", "free"}
      BY <2>2 DEF HashtableInv, PointersInv, Pointing, Points, TablesInv, Range
    <2>3. CASE cl[c].pc \in {"fill", "drop"}
      <3>1. Len(cl[c].tabs) = 1 /\ cl[c].tabs[1] \in DOMAIN tables
        BY <2>3 DEF HashtableInv, PlacesInv, Placed, TablesInv, PointersInv, Pointing, Filling
      <3>2. DOMAIN cl[c].tabs = {1}
        BY <2>0, <3>1
      <3> QED BY <3>1, <3>2 DEF Range
    <2> QED BY <2>1, <2>2, <2>3 DEF HashtableInv, ClientsInv, Typed
  <1>4. ASSUME NEW c \in Clients, ~(cl[c].pc = "copy" /\ Overwritten(c))
        PROVE  Range(cl[c].ptrs) \subseteq DOMAIN strings
    <2>1. CASE cl[c].pc = "copy"
      <3>1. Copies(c) /\ Points(c) /\ cl[c].tabs # << >> /\ cl[c].tabs \in Seq(Address)
        BY <1>4, <2>1 DEF HashtableInv, PointersInv, Pointing, PlacesInv, Placed, ClientsInv, Typed
      <3>2. 1 \in DOMAIN cl[c].tabs
        BY <3>1
      <3>3. cl[c].tabs[1] \in DOMAIN tables
        BY <3>1, <3>2 DEF Points, HashtableInv, TablesInv
      <3> QED BY <3>1, <3>3 DEF Copies, HashtableInv, StringsInv, Range
    <2>2. CASE cl[c].pc = "free"
      BY <2>2 DEF HashtableInv, StringsInv, Range
    <2>3. CASE cl[c].pc \notin {"copy", "free"}
      BY <2>3 DEF HashtableInv, PlacesInv, Placed, Range
    <2> QED BY <2>1, <2>2, <2>3
  <1> QED BY <1>1, <1>2, <1>3, <1>4 DEF PointersAreLive

LEMMA ImpliesOneOwner == HashtableInv => OneOwner
  <1> SUFFICES ASSUME HashtableInv PROVE OneOwner
    OBVIOUS
  <1>1. ASSUME NEW s \in DOMAIN strings
        PROVE  StringOwners(s) <= 1 /\ (OneWriter => StringOwners(s) = 1)
    <2> DEFINE A == {x \in (DOMAIN tables) \X Fields :
                       x[2] \in DOMAIN tables[x[1]] /\ tables[x[1]][x[2]] = s}
               B == {c \in Clients : cl[c].pc = "free" /\ s \in Range(cl[c].ptrs)}
    <2>0. \A c \in Clients : c \in B <=> Frees(c, s)
      BY DEF Frees, Range
    <2>1. CASE \E t \in DOMAIN tables : Has(t, s)
      <3>1. PICK t \in DOMAIN tables : \E f \in DOMAIN tables[t] : tables[t][f] = s
        BY <2>1 DEF Has
      <3>2. PICK f \in DOMAIN tables[t] : tables[t][f] = s
        BY <3>1
      <3>3. f \in Fields
        BY DEF HashtableInv, StringsInv
      <3>4. A = {<<t, f>>}
        BY <3>2, <3>3 DEF HashtableInv, StringsInv
      <3>5. B = {}
        BY <2>0, <3>1 DEF HashtableInv, StringsInv, Has
      <3> HIDE DEF A, B
      <3>6. Cardinality(A) = 1 /\ Cardinality(B) = 0
        BY <3>4, <3>5, FS_Singleton, FS_EmptySet
      <3> QED BY <3>6 DEF A, B, StringOwners
    <2>2. ASSUME ~\E t \in DOMAIN tables : Has(t, s), NEW c \in Clients, Frees(c, s)
          PROVE  StringOwners(s) = 1
      <3>1. B = {c}
        BY <2>0, <2>2 DEF HashtableInv, StringsInv
      <3>2. A = {}
        BY <2>2 DEF Has
      <3> HIDE DEF A, B
      <3>3. Cardinality(A) = 0 /\ Cardinality(B) = 1
        BY <3>1, <3>2, FS_Singleton, FS_EmptySet
      <3> QED BY <3>3 DEF A, B, StringOwners
    <2>3. CASE /\ ~\E t \in DOMAIN tables : Has(t, s)
               /\ ~\E c \in Clients : Frees(c, s)
      <3>1. ~OneWriter
        BY <2>3 DEF HashtableInv, StringsInv
      <3>2. A = {} /\ B = {}
        BY <2>0, <2>3 DEF Has
      <3> HIDE DEF A, B
      <3>3. Cardinality(A) = 0 /\ Cardinality(B) = 0
        BY <3>2, FS_EmptySet
      <3> QED BY <3>1, <3>3 DEF A, B, StringOwners
    <2> QED BY <2>1, <2>2, <2>3
  <1>2. ASSUME NEW t \in DOMAIN tables
        PROVE  TableOwners(t) <= 1 /\ (OneWriter => TableOwners(t) = 1)
    <2> DEFINE A == {k \in DOMAIN key_table : key_table[k] = t}
               B == {c \in Clients : cl[c].pc = "drop" /\ cl[c].tabs[1] = t}
    <2>0. \A c \in Clients : c \in B <=> Drops(c, t)
      BY DEF Drops
    <2>1. CASE \E k \in DOMAIN key_table : key_table[k] = t
      <3>1. PICK k \in DOMAIN key_table : key_table[k] = t
        BY <2>1
      <3>2. A = {k}
        BY <3>1 DEF HashtableInv, TablesInv
      <3>3. B = {}
        BY <2>0, <3>1 DEF HashtableInv, TablesInv
      <3> HIDE DEF A, B
      <3>4. Cardinality(A) = 1 /\ Cardinality(B) = 0
        BY <3>2, <3>3, FS_Singleton, FS_EmptySet
      <3> QED BY <3>4 DEF A, B, TableOwners
    <2>2. ASSUME ~\E k \in DOMAIN key_table : key_table[k] = t, NEW c \in Clients, Drops(c, t)
          PROVE  TableOwners(t) = 1
      <3>1. B = {c}
        BY <2>0, <2>2 DEF HashtableInv, TablesInv
      <3>2. A = {}
        BY <2>2
      <3> HIDE DEF A, B
      <3>3. Cardinality(A) = 0 /\ Cardinality(B) = 1
        BY <3>1, <3>2, FS_Singleton, FS_EmptySet
      <3> QED BY <3>3 DEF A, B, TableOwners
    <2>3. CASE /\ ~\E k \in DOMAIN key_table : key_table[k] = t
               /\ ~\E c \in Clients : Drops(c, t)
      <3>1. ~OneWriter
        BY <2>3 DEF HashtableInv, TablesInv
      <3>2. A = {} /\ B = {}
        BY <2>0, <2>3
      <3> HIDE DEF A, B
      <3>3. Cardinality(A) = 0 /\ Cardinality(B) = 0
        BY <3>2, FS_EmptySet
      <3> QED BY <3>1, <3>3 DEF A, B, TableOwners
    <2> QED BY <2>1, <2>2, <2>3
  <1> QED BY <1>1, <1>2 DEF OneOwner

-----------------------------------------------------------------------------
(* Allocation, and what two clients may do at once *)

\* The allocator finds an address that is not live.
LEMMA Fresh ==
  ASSUME NEW live, IsFiniteSet(live)
  PROVE  NewAddress(live) \in Address /\ NewAddress(live) \notin live
  <1> DEFINE n == Cardinality(live)
  <1>1. n \in Nat
    BY FS_CardinalityType
  <1> HIDE DEF n
  <1>2. IsFiniteSet(1..(n + 1)) /\ Cardinality(1..(n + 1)) = n + 1
    <2>1. 1 \in Int /\ n + 1 \in Int /\ 1 <= n + 1 /\ (n + 1) - 1 + 1 = n + 1
      BY <1>1
    <2> QED BY <2>1, FS_Interval
  <1>3. ~(1..(n + 1) \subseteq live)
    <2>1. 1..(n + 1) \subseteq live => n + 1 <= n
      BY <1>2, FS_Subset DEF n
    <2> QED BY <1>1, <2>1
  <1>4. \E a \in 1..(n + 1) : a \notin live
    BY <1>3
  <1>5. NewAddress(live) \in 1..(n + 1) /\ NewAddress(live) \notin live
    BY <1>4, Zenon DEF NewAddress, n
  <1> QED BY <1>1, <1>5 DEF Address

Writing(c) == cl[c].call.op \in {"Insert", "Update", "Delete"}

\* While a client deletes, no other one scans or has a call on the same key; if
\* no two clients write one key, no other one writes the same key; and where a
\* client updates, what another one reads may be overwritten.
LEMMA Apart ==
  ASSUME CallsInv, ClientsInv, NEW c \in Clients, NEW d \in Clients, c # d,
         cl[c].pc # "idle", cl[d].pc # "idle"
  PROVE  /\ cl[c].call.op = "Delete" =>
              cl[d].call.op # "Scan" /\ cl[c].call.key # cl[d].call.key
         /\ OneWriter /\ Writing(c) /\ Writing(d) => cl[c].call.key # cl[d].call.key
         /\ cl[c].call.op = "Update" /\ cl[c].call.key \in Visited(d) => Overwritten(d)
  <1> DEFINE k == cl[c].call.key
             j == cl[d].call.key
  <1>1. <<c, cl[c].call.op, k>> \in workload /\ k \in Keys
    BY DEF ClientsInv, Typed
  <1>2. <<d, cl[d].call.op, j>> \in workload /\ j \in Keys
    BY DEF ClientsInv, Typed
  <1>3. ASSUME cl[c].call.op = "Delete" PROVE cl[d].call.op # "Scan" /\ k # j
    <2>1. ~Touches(workload, d, k) /\ \A x \in Keys : <<d, "Scan", x>> \notin workload
      BY <1>1, <1>3, HashtableAssumption DEF CallsInv
    <2>2. workload \subseteq Clients \X {"Read", "Scan", "Insert", "Update", "Delete"} \X Keys
      BY HashtableAssumption DEF CallsInv
    <2>3. cl[d].call.op \in {"Read", "Insert", "Update", "Delete"}
      BY <1>2, <2>1, <2>2
    <2> QED BY <1>2, <2>1, <2>3 DEF Touches
  <1>4. ASSUME OneWriter, Writing(c), Writing(d) PROVE k # j
    <2>1. Writes(c, k) /\ Writes(d, j)
      BY <1>1, <1>2, <1>4 DEF Writes, Writing
    <2> QED BY <1>1, <1>4, <2>1 DEF OneWriter
  <1>5. ASSUME cl[c].call.op = "Update", k \in Visited(d) PROVE Overwritten(d)
    BY <1>1, <1>5 DEF Overwritten
  <1> QED BY <1>3, <1>4, <1>5

-----------------------------------------------------------------------------
(* What a step of one client leaves to the others *)

\* Client c changes its own record only.
Moves(c, r) ==
  /\ DOMAIN cl' = Clients /\ cl'[c] = r
  /\ \A d \in Clients : d # c => cl'[d] = cl[d]

\* What a step of client c does to the tables: only a Delete takes one from a
\* key or frees it, a new one is put under the client's own key, and fields are
\* added to, or overwritten in, the client's own table.
Kept(c) ==
  /\ \A k \in DOMAIN key_table : ~(cl[c].call.op = "Delete" /\ k = cl[c].call.key) =>
       k \in DOMAIN key_table' /\ key_table'[k] = key_table[k]
  /\ \A k \in DOMAIN key_table' :
       \/ k \in DOMAIN key_table /\ key_table'[k] = key_table[k]
       \/ k = cl[c].call.key /\ key_table'[k] \notin DOMAIN tables
  /\ \A t \in DOMAIN tables : t \in DOMAIN tables' \/ Drops(c, t)
  /\ \A t \in DOMAIN tables : t \in DOMAIN tables' =>
       \/ tables'[t] = tables[t]
       \/ /\ cl[c].pc \in {"fill", "over", "insert"} /\ t = cl[c].tabs[1]
          /\ \A f \in DOMAIN tables[t] :
               f \in DOMAIN tables'[t] /\ (cl[c].pc # "over" => tables'[t][f] = tables[t][f])
  /\ \A t : Drops(c, t)' =>
       /\ cl[c].call.op = "Delete" /\ cl[c].call.key \in DOMAIN key_table
       /\ key_table[cl[c].call.key] = t

\* The table a write is about.
LEMMA OwnTable ==
  ASSUME HashtableInv, NEW c \in Clients, cl[c].pc \in {"fill", "over", "insert", "free"}
  PROVE  /\ cl[c].tabs[1] \in DOMAIN tables
         /\ \A d \in Clients : ~Drops(d, cl[c].tabs[1])
         /\ cl[c].pc # "fill" \/ OneWriter =>
              cl[c].call.key \in DOMAIN key_table /\ cl[c].tabs[1] = key_table[cl[c].call.key]
         /\ cl[c].call.op \in {"Insert", "Update"}
         /\ Writing(c) /\ cl[c].pc # "idle"
  <1>1. Pointing(c) /\ Len(cl[c].tabs) = 1 /\ cl[c].call.op \in {"Insert", "Update"}
    BY DEF HashtableInv, PointersInv, PlacesInv, Placed
  <1>2. cl[c].tabs \in Seq(Address)
    BY DEF HashtableInv, ClientsInv, Typed
  <1>3. 1 \in DOMAIN cl[c].tabs
    BY <1>1, <1>2
  <1>4. Points(c) => /\ cl[c].call.key \in DOMAIN key_table
                     /\ cl[c].tabs[1] = key_table[cl[c].call.key]
    BY <1>1, <1>3 DEF Points
  <1>5. cl[c].pc # "fill" \/ OneWriter => Points(c)
    BY <1>1 DEF Pointing, Missing
  <1>6. cl[c].tabs[1] \in DOMAIN tables /\ \A d \in Clients : ~Drops(d, cl[c].tabs[1])
    <2>1. CASE cl[c].pc = "fill"
      BY <1>1, <2>1 DEF Pointing, Filling
    <2>2. CASE cl[c].pc # "fill"
      BY <1>4, <1>5, <2>2 DEF HashtableInv, TablesInv
    <2> QED BY <2>1, <2>2
  <1> QED BY <1>1, <1>4, <1>5, <1>6 DEF Writing

LEMMA Others ==
  ASSUME HashtableInv, NEW c \in Clients, NEW r, Moves(c, r), UNCHANGED workload,
         \/ UNCHANGED <<key_table, tables>> /\ r.pc # "drop"
         \/ cl[c].pc # "idle" /\ Writing(c) /\ Kept(c),
         NEW d \in Clients, d # c
  PROVE  Typed(d)' /\ Placed(d)' /\ Pointing(d)'
  <1>1. cl'[d] = cl[d]
    BY DEF Moves
  <1>2. Typed(d) /\ Placed(d) /\ Pointing(d)
    BY DEF HashtableInv, ClientsInv, PlacesInv, PointersInv
  <1>3. Typed(d)' /\ Placed(d)'
    BY <1>1, <1>2 DEF Typed, Placed
  <1>4. (Overwritten(d)' <=> Overwritten(d)) /\ (OneWriter' <=> OneWriter)
    BY <1>1 DEF Overwritten, Visited, OneWriter, Writes
  <1>5. \A e \in Clients : \A t : Drops(e, t)' => Drops(e, t) \/ e = c
    BY DEF Moves, Drops
  <1>6. CASE UNCHANGED <<key_table, tables>> /\ r.pc # "drop"
    <2>1. \A t : ~Drops(c, t)'
      BY <1>6 DEF Drops, Moves
    <2>2. Filling(d) => Filling(d)'
      BY <1>1, <1>5, <1>6, <2>1 DEF Filling
    <2>3. (Points(d) => Points(d)') /\ (Copies(d) => Copies(d)')
      BY <1>1, <1>6 DEF Points, Copies
    <2>4. Missing(d) => Missing(d)'
      BY <1>1, <1>6, <2>3 DEF Missing
    <2> QED BY <1>1, <1>2, <1>3, <1>4, <2>2, <2>3, <2>4 DEF Pointing
  <1>7. CASE cl[c].pc # "idle" /\ Writing(c) /\ Kept(c)
    <2>1. CASE cl[d].pc = "idle"
      BY <1>1, <1>3, <2>1 DEF Pointing, Missing
    <2>2. CASE cl[d].pc # "idle"
      <3>1. /\ cl[c].call.op = "Delete" =>
                 cl[d].call.op # "Scan" /\ cl[c].call.key # cl[d].call.key
            /\ OneWriter /\ Writing(d) => cl[c].call.key # cl[d].call.key
            /\ cl[c].call.op = "Update" /\ cl[c].call.key \in Visited(d) => Overwritten(d)
        BY <1>7, <2>2, Apart DEF HashtableInv
      <3>2. Points(d) => Points(d)'
        <4> SUFFICES ASSUME Points(d), NEW i \in DOMAIN cl[d].tabs
                     PROVE  \E k \in DOMAIN key_table' :
                              /\ cl[d].tabs[i] = key_table'[k]
                              /\ cl[d].call.op # "Scan" => k = cl[d].call.key
          BY <1>1 DEF Points
        <4>1. PICK k \in DOMAIN key_table :
                cl[d].tabs[i] = key_table[k] /\ (cl[d].call.op # "Scan" => k = cl[d].call.key)
          BY DEF Points
        <4>2. ~(cl[c].call.op = "Delete" /\ k = cl[c].call.key)
          BY <3>1, <4>1
        <4>3. k \in DOMAIN key_table' /\ key_table'[k] = key_table[k]
          BY <1>7, <4>2 DEF Kept
        <4> QED BY <4>1, <4>3
      <3>3. Filling(d) => Filling(d)'
        <4> SUFFICES ASSUME Filling(d) PROVE Filling(d)'
          OBVIOUS
        <4>1. cl[d].tabs[1] \in DOMAIN tables'
          BY <1>7 DEF Filling, Kept
        <4>2. ~Drops(c, cl[d].tabs[1])'
          BY <1>1, <1>7, <3>1 DEF Filling, Kept, Drops
        <4>3. \A k \in DOMAIN key_table' : key_table'[k] = cl[d].tabs[1] => k = cl[d].call.key
          BY <1>7 DEF Filling, Kept
        <4> QED BY <1>1, <1>5, <4>1, <4>2, <4>3 DEF Filling
      <3>4. cl[d].pc = "copy" /\ ~Overwritten(d) => Copies(d)'
        <4> SUFFICES ASSUME cl[d].pc = "copy", ~Overwritten(d) PROVE Copies(d)'
          OBVIOUS
        <4> PICK t : t = cl[d].tabs[1]
          OBVIOUS
        <4>1. Points(d) /\ Copies(d) /\ cl[d].tabs # << >> /\ cl[d].tabs \in Seq(Address)
          BY <1>2 DEF Pointing, Placed, Typed
        <4>2. 1 \in DOMAIN cl[d].tabs
          BY <4>1
        <4>3. PICK k \in DOMAIN key_table :
                t = key_table[k] /\ (cl[d].call.op # "Scan" => k = cl[d].call.key)
          BY <4>1, <4>2 DEF Points
        <4>4. t \in DOMAIN tables /\ t \in DOMAIN tables' /\ k \in Visited(d)
          BY <1>7, <4>3 DEF HashtableInv, TablesInv, Kept, Visited
        <4>5. cl[c].pc = "over" => t # cl[c].tabs[1]
          <5> SUFFICES ASSUME cl[c].pc = "over", t = cl[c].tabs[1] PROVE FALSE
            OBVIOUS
          <5>1. cl[c].call.key \in DOMAIN key_table /\ t = key_table[cl[c].call.key]
            BY OwnTable
          <5>2. k = cl[c].call.key
            BY <4>3, <5>1 DEF HashtableInv, TablesInv
          <5>3. cl[c].call.op = "Update"
            BY DEF HashtableInv, PlacesInv, Placed
          <5> QED BY <3>1, <4>4, <5>2, <5>3
        <4>6. \A f \in DOMAIN tables[t] : f \in DOMAIN tables'[t] /\ tables'[t][f] = tables[t][f]
          BY <1>7, <4>4, <4>5 DEF Kept
        <4> QED BY <1>1, <4>1, <4>6 DEF Copies
      <3>5. OneWriter => Missing(d)'
        <4> SUFFICES ASSUME OneWriter PROVE Missing(d)'
          OBVIOUS
        <4>1. Missing(d)
          BY <1>2 DEF Pointing
        <4>2. cl[d].pc = "link" => cl[d].call.key \notin DOMAIN key_table'
          <5>1. cl[d].pc = "link" => Writing(d)
            BY <1>2 DEF Placed, Writing
          <5> QED BY <1>7, <3>1, <4>1, <5>1 DEF Missing, Kept
        <4>3. cl[d].pc = "fill" => Points(d)'
          BY <3>2, <4>1 DEF Missing
        <4>4. cl[d].pc \in {"fill", "insert"} => tables'[cl[d].tabs[1]] = tables[cl[d].tabs[1]]
          <5> SUFFICES ASSUME cl[d].pc \in {"fill", "insert"}
                       PROVE  tables'[cl[d].tabs[1]] = tables[cl[d].tabs[1]]
            OBVIOUS
          <5> PICK t : t = cl[d].tabs[1]
            OBVIOUS
          <5>1. /\ t \in DOMAIN tables /\ ~Drops(c, t) /\ Writing(d)
                /\ cl[d].call.key \in DOMAIN key_table /\ t = key_table[cl[d].call.key]
            BY OwnTable
          <5>2. t \in DOMAIN tables'
            BY <1>7, <5>1 DEF Kept
          <5>3. ASSUME cl[c].pc \in {"fill", "over", "insert"}, t = cl[c].tabs[1] PROVE FALSE
            <6>1. cl[c].call.key \in DOMAIN key_table /\ t = key_table[cl[c].call.key]
              BY <5>3, OwnTable
            <6>2. cl[c].call.key = cl[d].call.key
              BY <5>1, <6>1 DEF HashtableInv, TablesInv
            <6> QED BY <3>1, <5>1, <6>2
          <5> QED BY <1>7, <5>1, <5>2, <5>3 DEF Kept
        <4> QED BY <1>1, <4>1, <4>2, <4>3, <4>4 DEF Missing
      <3> QED BY <1>1, <1>2, <1>3, <1>4, <3>2, <3>3, <3>4, <3>5 DEF Pointing
    <2> QED BY <2>1, <2>2
  <1> QED BY <1>6, <1>7

\* Who frees what, when client c has nothing to free.
LEMMA SameFreers ==
  ASSUME NEW c \in Clients, NEW r, Moves(c, r),
         cl[c].pc \notin {"free", "drop"}, r.pc \notin {"free", "drop"}
  PROVE  /\ \A d \in Clients : \A t : Drops(d, t)' <=> Drops(d, t)
         /\ \A d \in Clients : \A s : Frees(d, s)' <=> Frees(d, s)
         /\ \A d \in Clients : cl'[d].pc = "drop" => cl[d].pc = "drop" /\ cl'[d] = cl[d]
         /\ \A d \in Clients : cl'[d].pc = "free" => cl[d].pc = "free" /\ cl'[d] = cl[d]
  <1>1. \A d \in Clients : \A t : Drops(d, t)' <=> Drops(d, t)
    BY DEF Moves, Drops
  <1>2. \A d \in Clients : \A s : Frees(d, s)' <=> Frees(d, s)
    BY DEF Moves, Frees
  <1> QED BY <1>1, <1>2 DEF Moves

\* A step that leaves the heap alone, of a client that has nothing to free.
LEMMA SameHeap ==
  ASSUME HashtableInv, NEW c \in Clients, NEW r, Moves(c, r),
         UNCHANGED <<workload, key_table, tables, strings>>,
         cl[c].pc \notin {"free", "drop"}, r.pc \notin {"free", "drop"}
  PROVE  TablesInv' /\ StringsInv'
  <1>0. OneWriter' <=> OneWriter
    BY DEF OneWriter, Writes
  <1>1. \A d \in Clients : \A t : Drops(d, t)' <=> Drops(d, t)
    BY DEF Moves, Drops
  <1>2. \A d \in Clients : \A s : Frees(d, s)' <=> Frees(d, s)
    BY DEF Moves, Frees
  <1>3. \A d \in Clients : cl'[d].pc = "drop" => cl[d].pc = "drop" /\ cl'[d] = cl[d]
    BY DEF Moves
  <1>4. \A d \in Clients : cl'[d].pc = "free" => cl[d].pc = "free" /\ cl'[d] = cl[d]
    BY DEF Moves
  <1>5. TablesInv'
    BY <1>0, <1>1, <1>3 DEF HashtableInv, TablesInv
  <1>6. StringsInv'
    <2>1. \A t, s : Has(t, s)' <=> Has(t, s)
      BY DEF Has
    <2> QED BY <1>0, <1>2, <1>4, <2>1 DEF HashtableInv, StringsInv
  <1> QED BY <1>5, <1>6

\* The parts of a step put together.
LEMMA Together ==
  ASSUME HashtableInv, NEW c \in Clients, NEW r, Moves(c, r), UNCHANGED workload,
         \/ UNCHANGED <<key_table, tables>> /\ r.pc # "drop"
         \/ cl[c].pc # "idle" /\ Writing(c) /\ Kept(c),
         calls' \in 0..MaxCalls, AnswersInv',
         Typed(c)', Placed(c)', Pointing(c)', TablesInv', StringsInv'
  PROVE  HashtableInv'
  <1>1. ASSUME NEW d \in Clients PROVE Typed(d)' /\ Placed(d)' /\ Pointing(d)'
    BY Others
  <1>2. ClientsInv' /\ PlacesInv' /\ PointersInv'
    BY <1>1 DEF ClientsInv, PlacesInv, PointersInv, Moves
  <1>3. CallsInv'
    BY DEF HashtableInv, CallsInv
  <1> QED BY <1>2, <1>3 DEF HashtableInv

\* A client goes on, or is answered.
LEMMA GoesStep ==
  ASSUME HashtableInv, NEW c \in Clients, NEW r, Goes(c, r)
  PROVE  Moves(c, r) /\ AnswersInv' /\ UNCHANGED workload
  BY DEF HashtableInv, ClientsInv, AnswersInv, Goes, Moves

LEMMA AnswerStep ==
  ASSUME HashtableInv, NEW c \in Clients, NEW rows,
         NEW code \in {kOK, kErrorNoData, kErrorConflict}, Answer(c, code, rows)
  PROVE  /\ Moves(c, Idle) /\ AnswersInv' /\ UNCHANGED workload
         /\ Typed(c)' /\ Placed(c)' /\ Pointing(c)'
  <1>1. Moves(c, Idle) /\ UNCHANGED workload
    BY DEF HashtableInv, ClientsInv, Answer, Moves
  <1>2. AnswersInv'
    <2>1. CASE Undisturbed(c)
      BY <2>1 DEF HashtableInv, AnswersInv, Answer
    <2>2. CASE ~Undisturbed(c)
      BY <2>2 DEF HashtableInv, AnswersInv, Answer
    <2> QED BY <2>1, <2>2
  <1>3. cl'[c] = Idle
    BY <1>1 DEF Moves
  <1>4. Typed(c)'
    BY <1>3 DEF Typed, Idle, NoCall
  <1>5. Placed(c)' /\ Pointing(c)'
    BY <1>3 DEF Placed, Pointing, Missing, Idle, NoCall
  <1> QED BY <1>1, <1>2, <1>4, <1>5

\* A client goes on with field tables.
LEMMA VisitStep ==
  ASSUME HashtableInv, NEW c \in Clients, cl[c].pc # "idle",
         NEW pc \in {"rows", "fill", "over", "link", "drop"}, NEW ts \in Seq(Address),
         Visit(c, pc, ts)
  PROVE  \E r : /\ Moves(c, r) /\ AnswersInv' /\ UNCHANGED workload
                /\ Typed(c)' /\ r.pc = pc /\ r.tabs = ts
                /\ r.call = cl[c].call /\ r.ptrs = cl[c].ptrs /\ r.vals = cl[c].vals
  <1> DEFINE r == [cl[c] EXCEPT !.pc = pc, !.tabs = ts, !.todo = cl[c].call.fields]
  <1>1. Moves(c, r) /\ AnswersInv' /\ UNCHANGED workload
    BY GoesStep DEF Visit
  <1>2. Typed(c)
    BY DEF HashtableInv, ClientsInv
  <1>3. /\ r.pc = pc /\ r.tabs = ts /\ r.todo = cl[c].call.fields
        /\ r.call = cl[c].call /\ r.ptrs = cl[c].ptrs /\ r.vals = cl[c].vals
        /\ DOMAIN r = DOMAIN cl[c]
    BY <1>2 DEF Typed
  <1> HIDE DEF r
  <1>4. Typed(c)'
    BY <1>1, <1>2, <1>3 DEF Typed, Moves
  <1> QED BY <1>1, <1>3, <1>4

\* The table under a key.
LEMMA UnderKey ==
  ASSUME HashtableInv, NEW k \in DOMAIN key_table
  PROVE  /\ key_table[k] \in DOMAIN tables
         /\ <<key_table[k]>> \in Seq(Address)
         /\ Len(<<key_table[k]>>) = 1 /\ DOMAIN <<key_table[k]>> = {1}
         /\ <<key_table[k]>>[1] = key_table[k]
  <1>1. key_table[k] \in DOMAIN tables /\ DOMAIN tables \subseteq Address
    BY DEF HashtableInv, TablesInv
  <1> QED BY <1>1

\* Read, Insert and Update find the table under their key.
LEMMA FindStep ==
  ASSUME HashtableInv, NEW c \in Clients, cl[c].pc = "called", cl[c].call.key \in DOMAIN key_table,
         NEW pc \in {"rows", "fill", "over"}, Visit(c, pc, <<key_table[cl[c].call.key]>>),
         pc = "rows" => cl[c].call.op = "Read",
         pc = "fill" => cl[c].call.op = "Insert",
         pc = "over" => cl[c].call.op = "Update",
         UNCHANGED <<key_table, tables, strings, calls>>
  PROVE  HashtableInv'
  <1> DEFINE k == cl[c].call.key
  <1>1. /\ <<key_table[k]>> \in Seq(Address) /\ Len(<<key_table[k]>>) = 1
        /\ DOMAIN <<key_table[k]>> = {1} /\ <<key_table[k]>>[1] = key_table[k]
    BY UnderKey
  <1>2. PICK r : /\ Moves(c, r) /\ AnswersInv' /\ UNCHANGED workload
                 /\ Typed(c)' /\ r.pc = pc /\ r.tabs = <<key_table[k]>>
                 /\ r.call = cl[c].call /\ r.ptrs = cl[c].ptrs /\ r.vals = cl[c].vals
    <2> DEFINE ts == <<key_table[k]>>
    <2>1. /\ pc \in {"rows", "fill", "over", "link", "drop"} /\ cl[c].pc # "idle"
          /\ ts \in Seq(Address) /\ Visit(c, pc, ts)
      BY <1>1
    <2> HIDE DEF ts
    <2>2. \E r : /\ Moves(c, r) /\ AnswersInv' /\ UNCHANGED workload
                 /\ Typed(c)' /\ r.pc = pc /\ r.tabs = ts
                 /\ r.call = cl[c].call /\ r.ptrs = cl[c].ptrs /\ r.vals = cl[c].vals
      BY <2>1, VisitStep
    <2> QED BY <2>2 DEF ts
  <1>3. cl'[c] = r
    BY <1>2 DEF Moves
  <1>4. Placed(c)'
    <2>1. DOMAIN r.ptrs = {}
      BY <1>2 DEF HashtableInv, PlacesInv, Placed
    <2>2. r.pc \in {"rows", "fill", "over"} /\ Len(r.tabs) = 1
      BY <1>1, <1>2
    <2>3. \A i, j \in DOMAIN r.vals : r.vals[i][1] = r.vals[j][1] => i = j
      BY <1>2 DEF HashtableInv, PlacesInv, Placed
    <2> QED BY <1>2, <1>3, <2>1, <2>2, <2>3 DEF Placed
  <1>5. Pointing(c)'
    <2>1. Points(c)'
      BY <1>1, <1>2, <1>3 DEF Points
    <2>2. \A d \in Clients : \A t : Drops(d, t)' <=> Drops(d, t)
      BY <1>2, SameFreers
    <2>3. Filling(c)'
      BY <1>1, <1>2, <1>3, <2>2 DEF Filling, HashtableInv, TablesInv
    <2> QED BY <1>2, <1>3, <2>1, <2>3 DEF Pointing, Missing
  <1>6. TablesInv' /\ StringsInv'
    BY <1>2, SameHeap
  <1>7. calls' \in 0..MaxCalls
    BY DEF HashtableInv, CallsInv
  <1> QED BY <1>2, <1>4, <1>5, <1>6, <1>7, Together

\* The steps that answer and leave the heap alone.
LEMMA PlainAnswer ==
  ASSUME HashtableInv, NEW c \in Clients, NEW rows,
         NEW code \in {kOK, kErrorNoData, kErrorConflict}, Answer(c, code, rows),
         cl[c].pc \notin {"free", "drop"},
         UNCHANGED <<key_table, tables, strings, calls>>
  PROVE  HashtableInv'
  <1>1. /\ Moves(c, Idle) /\ AnswersInv' /\ UNCHANGED workload
        /\ Typed(c)' /\ Placed(c)' /\ Pointing(c)'
    BY AnswerStep
  <1>2. Idle.pc \notin {"free", "drop"}
    BY DEF Idle
  <1>3. TablesInv' /\ StringsInv'
    BY <1>1, <1>2, SameHeap
  <1>4. calls' \in 0..MaxCalls
    BY DEF HashtableInv, CallsInv
  <1> QED BY <1>1, <1>2, <1>3, <1>4, Together

LEMMA ReadGetStep ==
  ASSUME HashtableInv, NEW c \in Clients, ReadGet(c), UNCHANGED calls
  PROVE  HashtableInv'
  <1>1. CASE cl[c].call.key \in DOMAIN key_table
    <2>1. Visit(c, "rows", <<key_table[cl[c].call.key]>>)
      BY <1>1 DEF ReadGet
    <2> QED BY <1>1, <2>1, FindStep DEF ReadGet, At
  <1>2. CASE cl[c].call.key \notin DOMAIN key_table
    <2>1. Answer(c, kErrorNoData, << >>)
      BY <1>2 DEF ReadGet
    <2> QED BY <2>1, PlainAnswer DEF ReadGet, At
  <1> QED BY <1>1, <1>2

LEMMA WriteGetStep ==
  ASSUME HashtableInv, NEW c \in Clients, WriteGet(c), UNCHANGED calls
  PROVE  HashtableInv'
  <1>0. /\ cl[c].pc = "called" /\ cl[c].call.op \in {"Insert", "Update"}
        /\ UNCHANGED <<key_table, tables, strings>>
    BY DEF WriteGet
  <1>1. CASE cl[c].call.key \in DOMAIN key_table
    <2> DEFINE pc == IF cl[c].call.op = "Insert" THEN "fill" ELSE "over"
    <2>1. Visit(c, pc, <<key_table[cl[c].call.key]>>)
      BY <1>1 DEF WriteGet
    <2>2. /\ pc \in {"rows", "fill", "over"} /\ pc # "rows"
          /\ pc = "fill" => cl[c].call.op = "Insert"
          /\ pc = "over" => cl[c].call.op = "Update"
      BY <1>0
    <2> HIDE DEF pc
    <2> QED BY <1>0, <1>1, <2>1, <2>2, FindStep
  <1>2. CASE cl[c].call.key \notin DOMAIN key_table
    <2>1. Visit(c, "link", << >>) /\ << >> \in Seq(Address)
      BY <1>2 DEF WriteGet
    <2>2. PICK r : /\ Moves(c, r) /\ AnswersInv' /\ UNCHANGED workload
                   /\ Typed(c)' /\ r.pc = "link" /\ r.tabs = << >>
                   /\ r.call = cl[c].call /\ r.ptrs = cl[c].ptrs /\ r.vals = cl[c].vals
      BY <1>0, <2>1, VisitStep
    <2>3. cl'[c] = r
      BY <2>2 DEF Moves
    <2>4. Placed(c)' /\ Pointing(c)'
      BY <1>0, <1>2, <2>2, <2>3 DEF HashtableInv, PlacesInv, Placed, Pointing, Missing
    <2>5. TablesInv' /\ StringsInv'
      BY <1>0, <2>2, SameHeap
    <2>6. calls' \in 0..MaxCalls
      BY DEF HashtableInv, CallsInv
    <2> QED BY <1>0, <2>2, <2>4, <2>5, <2>6, Together
  <1> QED BY <1>1, <1>2

\* A client that goes through tables, before and after it copies.
LEMMA ReaderStep ==
  ASSUME HashtableInv, NEW c \in Clients, NEW r, Goes(c, r),
         cl[c].pc \in {"rows", "copy"}, r.pc \in {"rows", "copy"},
         UNCHANGED <<key_table, tables, strings, calls>>,
         DOMAIN r = DOMAIN cl[c], r.call = cl[c].call, r.todo \subseteq cl[c].call.fields,
         r.vals = cl[c].vals, r.tabs \in Seq(Address),
         \A i \in DOMAIN r.tabs : \E j \in DOMAIN cl[c].tabs : r.tabs[i] = cl[c].tabs[j],
         r.pc = "rows" => DOMAIN r.ptrs = {},
         r.pc = "copy" =>
           /\ r.tabs # << >>
           /\ \A f \in DOMAIN r.ptrs :
                f \in DOMAIN tables[r.tabs[1]] /\ r.ptrs[f] = tables[r.tabs[1]][f]
  PROVE  HashtableInv'
  <1>1. Moves(c, r) /\ AnswersInv' /\ UNCHANGED workload /\ cl'[c] = r
    BY GoesStep DEF Moves
  <1>2. Typed(c) /\ Placed(c) /\ Points(c)
    BY DEF HashtableInv, ClientsInv, PlacesInv, PointersInv, Pointing
  <1>3. Typed(c)'
    <2>1. CASE r.pc = "copy"
      <3>1. 1 \in DOMAIN r.tabs
        BY <2>1
      <3>2. r.tabs[1] \in DOMAIN tables
        BY <1>2, <3>1 DEF Points, HashtableInv, TablesInv
      <3>3. \A f \in DOMAIN r.ptrs : f \in Fields /\ r.ptrs[f] \in Address
        BY <2>1, <3>2 DEF HashtableInv, StringsInv
      <3> QED BY <1>1, <1>2, <3>3 DEF Typed
    <2>2. CASE r.pc = "rows"
      BY <1>1, <1>2, <2>2 DEF Typed
    <2> QED BY <2>1, <2>2
  <1>4. Placed(c)'
    BY <1>1, <1>2 DEF Placed
  <1>5. Pointing(c)'
    <2>1. Points(c)'
      BY <1>1, <1>2 DEF Points
    <2> QED BY <1>1, <2>1 DEF Pointing, Copies, Missing
  <1>6. TablesInv' /\ StringsInv'
    BY <1>1, SameHeap
  <1>7. calls' \in 0..MaxCalls
    BY DEF HashtableInv, CallsInv
  <1>8. UNCHANGED <<key_table, tables>> /\ r.pc # "drop"
    BY SMTT(30)
  <1> QED BY <1>1, <1>3, <1>4, <1>5, <1>6, <1>7, <1>8, Together, Zenon

LEMMA RowPointersStep ==
  ASSUME HashtableInv, NEW c \in Clients, RowPointers(c), UNCHANGED calls
  PROVE  HashtableInv'
  <1> DEFINE t == tables[cl[c].tabs[1]]
  <1>0. /\ cl[c].pc = "rows" /\ cl[c].tabs # << >>
        /\ UNCHANGED <<key_table, tables, strings>>
    BY DEF RowPointers
  <1>1. Typed(c)
    BY DEF HashtableInv, ClientsInv
  <1>2. Head(cl[c].tabs) = cl[c].tabs[1]
    BY <1>0, <1>1 DEF Typed
  <1>3. CASE Goes(c, [cl[c] EXCEPT !.pc = "copy", !.ptrs = t])
    <2> DEFINE r == [cl[c] EXCEPT !.pc = "copy", !.ptrs = t]
    <2>1. /\ DOMAIN r = DOMAIN cl[c] /\ r.pc = "copy" /\ r.ptrs = t /\ r.call = cl[c].call
          /\ r.todo = cl[c].todo /\ r.vals = cl[c].vals /\ r.tabs = cl[c].tabs
      BY <1>1 DEF Typed
    <2>2. Goes(c, r)
      BY <1>3
    <2> HIDE DEF r
    <2>3. cl[c].todo \subseteq cl[c].call.fields /\ cl[c].tabs \in Seq(Address)
      BY <1>1 DEF Typed
    <2>4. \A f \in DOMAIN r.ptrs :
            f \in DOMAIN tables[r.tabs[1]] /\ r.ptrs[f] = tables[r.tabs[1]][f]
      BY <2>1
    <2> QED BY <1>0, <2>1, <2>2, <2>3, <2>4, ReaderStep
  <1>4. ASSUME NEW f \in cl[c].todo,
               Goes(c, [cl[c] EXCEPT !.pc = "copy", !.todo = @ \ {f},
                                     !.ptrs = Restrict(t, DOMAIN t \cap {f})])
        PROVE  HashtableInv'
    <2> DEFINE p == Restrict(t, DOMAIN t \cap {f})
               r == [cl[c] EXCEPT !.pc = "copy", !.todo = @ \ {f}, !.ptrs = p]
    <2>0. \A g \in DOMAIN p : g \in DOMAIN t /\ p[g] = t[g]
      BY DEF Restrict
    <2> HIDE DEF p
    <2>1. /\ DOMAIN r = DOMAIN cl[c] /\ r.pc = "copy" /\ r.ptrs = p /\ r.call = cl[c].call
          /\ r.todo = cl[c].todo \ {f} /\ r.vals = cl[c].vals /\ r.tabs = cl[c].tabs
      BY <1>1 DEF Typed
    <2>2. Goes(c, r)
      BY <1>4 DEF p
    <2> HIDE DEF r
    <2>3. r.todo \subseteq cl[c].call.fields /\ cl[c].tabs \in Seq(Address)
      BY <1>1, <2>1 DEF Typed
    <2>4. \A g \in DOMAIN r.ptrs :
            g \in DOMAIN tables[r.tabs[1]] /\ r.ptrs[g] = tables[r.tabs[1]][g]
      BY <2>0, <2>1
    <2> QED BY <1>0, <2>1, <2>2, <2>3, <2>4, ReaderStep
  <1> QED BY <1>2, <1>3, <1>4 DEF RowPointers

LEMMA RowCopyStep ==
  ASSUME HashtableInv, NEW c \in Clients, RowCopy(c), UNCHANGED calls
  PROVE  HashtableInv'
  <1> DEFINE O(row) == [cl[c] EXCEPT !.pc = "rows", !.ptrs = << >>, !.row = row]
             Q(row) == [O(row) EXCEPT !.row = << >>, !.rows = Append(@, row), !.tabs = Tail(@),
                                      !.todo = O(row).call.fields]
  <1>r. PICK row : Goes(c, IF O(row).todo # {} THEN O(row) ELSE Q(row))
    BY DEF RowCopy
  <1> DEFINE o == O(row)
             q == Q(row)
             r == IF o.todo # {} THEN o ELSE q
  <1>0. /\ cl[c].pc = "copy" /\ Goes(c, r)
        /\ UNCHANGED <<key_table, tables, strings>>
    BY <1>r DEF RowCopy
  <1>1. Typed(c) /\ cl[c].tabs # << >>
    BY <1>0 DEF HashtableInv, ClientsInv, PlacesInv, Placed
  <1>2. /\ DOMAIN o = DOMAIN cl[c] /\ o.pc = "rows" /\ o.ptrs = << >> /\ o.call = cl[c].call
        /\ o.todo = cl[c].todo /\ o.vals = cl[c].vals /\ o.tabs = cl[c].tabs
    BY <1>1 DEF Typed
  <1> HIDE DEF o
  <1>3. /\ DOMAIN q = DOMAIN cl[c] /\ q.pc = "rows" /\ q.ptrs = << >> /\ q.call = cl[c].call
        /\ q.todo = cl[c].call.fields /\ q.vals = cl[c].vals /\ q.tabs = Tail(cl[c].tabs)
    BY <1>1, <1>2 DEF Typed
  <1> HIDE DEF q
  <1>4. /\ Tail(cl[c].tabs) \in Seq(Address)
        /\ \A i \in DOMAIN Tail(cl[c].tabs) :
             i + 1 \in DOMAIN cl[c].tabs /\ Tail(cl[c].tabs)[i] = cl[c].tabs[i + 1]
    <2>1. cl[c].tabs \in Seq(Address)
      BY <1>1 DEF Typed
    <2> QED BY <1>1, <2>1
  <1>5. /\ DOMAIN r = DOMAIN cl[c] /\ r.pc = "rows" /\ r.ptrs = << >> /\ r.call = cl[c].call
        /\ r.todo \subseteq cl[c].call.fields /\ r.vals = cl[c].vals
        /\ r.tabs \in Seq(Address)
        /\ \A i \in DOMAIN r.tabs : \E j \in DOMAIN cl[c].tabs : r.tabs[i] = cl[c].tabs[j]
    <2>1. CASE o.todo # {}
      BY <1>1, <1>2, <2>1 DEF Typed
    <2>2. CASE o.todo = {}
      BY <1>3, <1>4, <2>2
    <2> QED BY <2>1, <2>2
  <1> HIDE DEF r
  <1>6. DOMAIN r.ptrs = {}
    BY <1>5
  <1> QED BY <1>0, <1>5, <1>6, ReaderStep, SMTT(30)

LEMMA ScanEntriesStep ==
  ASSUME HashtableInv, NEW c \in Clients, ScanEntries(c), UNCHANGED calls
  PROVE  HashtableInv'
  <1> DEFINE m == Cardinality(DOMAIN key_table)
             l == cl[c].call.len
             max == Min({l, m})
  <1>0. /\ cl[c].pc = "called" /\ cl[c].call.op = "Scan"
        /\ UNCHANGED <<key_table, tables, strings>>
    BY DEF ScanEntries, At
  <1>1. max \in Nat
    <2>1. m \in Nat
      BY FS_CardinalityType DEF HashtableInv, TablesInv
    <2>2. l \in Nat
      BY DEF HashtableInv, ClientsInv, Typed
    <2> HIDE DEF m, l
    <2>3. \E x \in {l, m} : \A y \in {l, m} : x <= y
      BY <2>1, <2>2
    <2>4. max \in {l, m}
      BY <2>3, Zenon DEF Min
    <2> QED BY <2>1, <2>2, <2>4
  <1> PICK n \in 0..max : \E ks \in Injection(1..n, DOMAIN key_table) :
                            Visit(c, "rows", [i \in 1..n |-> key_table[ks[i]]])
    BY DEF ScanEntries
  <1>2. PICK ks \in Injection(1..n, DOMAIN key_table) :
          Visit(c, "rows", [i \in 1..n |-> key_table[ks[i]]])
    OBVIOUS
  <1>3. ks \in [1..n -> DOMAIN key_table] /\ n \in Nat
    BY <1>1, <1>2 DEF Injection
  <1> HIDE DEF max
  <1> DEFINE ts == [i \in 1..n |-> key_table[ks[i]]]
  <1>4. ts \in Seq(Address) /\ DOMAIN ts = 1..n /\ \A i \in 1..n : ts[i] = key_table[ks[i]]
    <2>1. \A i \in 1..n : key_table[ks[i]] \in Address
      BY <1>3 DEF HashtableInv, TablesInv
    <2>2. ts \in [1..n -> Address]
      BY <2>1
    <2> QED BY <1>3, <2>2
  <1> HIDE DEF ts
  <1>5. PICK r : /\ Moves(c, r) /\ AnswersInv' /\ UNCHANGED workload
                 /\ Typed(c)' /\ r.pc = "rows" /\ r.tabs = ts
                 /\ r.call = cl[c].call /\ r.ptrs = cl[c].ptrs /\ r.vals = cl[c].vals
    <2>1. Visit(c, "rows", ts)
      BY <1>2 DEF ts
    <2> QED BY <1>0, <1>4, <2>1, VisitStep
  <1>6. cl'[c] = r
    BY <1>5 DEF Moves
  <1>7. Placed(c)'
    BY <1>0, <1>5, <1>6 DEF HashtableInv, PlacesInv, Placed
  <1>8. Pointing(c)'
    <2>1. Points(c)'
      BY <1>0, <1>3, <1>4, <1>5, <1>6 DEF Points
    <2> QED BY <1>5, <1>6, <2>1 DEF Pointing, Missing
  <1>9. TablesInv' /\ StringsInv'
    BY <1>0, <1>5, SameHeap
  <1>10. calls' \in 0..MaxCalls
    BY DEF HashtableInv, CallsInv
  <1> QED BY <1>0, <1>5, <1>7, <1>8, <1>9, <1>10, Together

LEMMA ReturnStep ==
  ASSUME HashtableInv, NEW c \in Clients, UNCHANGED calls,
         ReadReturn(c) \/ FillConflict(c) \/ WriteReturn(c)
  PROVE  HashtableInv'
  <1>1. cl[c].pc \notin {"free", "drop"} /\ UNCHANGED <<key_table, tables, strings>>
    BY DEF ReadReturn, FillConflict, WriteReturn, At
  <1>2. PICK code \in {kOK, kErrorNoData, kErrorConflict}, rows \in {cl[c].rows, << >>} :
          Answer(c, code, rows)
    BY DEF ReadReturn, FillConflict, WriteReturn
  <1> QED BY <1>1, <1>2, PlainAnswer

LEMMA CallStep ==
  ASSUME HashtableInv, NEW c \in Clients, Call(c)
  PROVE  HashtableInv'
  <1>0. /\ cl[c].pc = "idle" /\ calls < MaxCalls /\ calls' = calls + 1
        /\ UNCHANGED <<workload, key_table, tables, strings>>
    BY DEF Call
  <1>1. PICK op \in {"Read", "Scan", "Insert", "Update", "Delete"}, k \in Keys :
          /\ <<c, op, k>> \in workload
          /\ \E fs \in IF op \in {"Read", "Scan"} THEN FieldLists ELSE {NULL},
                vs \in IF op \in {"Insert", "Update"} THEN ValueLists ELSE {<< >>},
                n \in IF op = "Scan" THEN 0..Cardinality(Keys) ELSE {0} :
               cl' = [cl EXCEPT ![c] =
                        [Idle EXCEPT
                           !.pc = "called", !.vals = vs, !.was = Under(k),
                           !.call = [op |-> op, key |-> k, fields |-> fs,
                                     values |-> AsRecord(vs), len |-> n]]]
    BY DEF Call
  <1>2. PICK fs \in IF op \in {"Read", "Scan"} THEN FieldLists ELSE {NULL},
             vs \in IF op \in {"Insert", "Update"} THEN ValueLists ELSE {<< >>},
             n \in IF op = "Scan" THEN 0..Cardinality(Keys) ELSE {0} :
          cl' = [cl EXCEPT ![c] =
                   [Idle EXCEPT
                      !.pc = "called", !.vals = vs, !.was = Under(k),
                      !.call = [op |-> op, key |-> k, fields |-> fs,
                                values |-> AsRecord(vs), len |-> n]]]
    BY <1>1
  <1>3. fs \subseteq Fields
    BY <1>2, HashtableAssumption DEF NULL
  <1>4. vs \in Seq(Fields \X Values) /\ \A i, j \in DOMAIN vs : vs[i][1] = vs[j][1] => i = j
    <2>1. vs \in ValueLists \/ vs = << >>
      BY <1>2
    <2>2. \A x \in ValueLists :
            x \in Seq(Fields \X Values) /\ \A i, j \in DOMAIN x : x[i][1] = x[j][1] => i = j
      BY HashtableAssumption
    <2>3. << >> \in Seq(Fields \X Values) /\ DOMAIN << >> = {}
      OBVIOUS
    <2> QED BY <2>1, <2>2, <2>3
  <1>5. n \in Nat
    <2>1. Cardinality(Keys) \in Nat
      BY HashtableAssumption, FS_CardinalityType
    <2> QED BY <1>2, <2>1
  <1> DEFINE call == [op |-> op, key |-> k, fields |-> fs, values |-> AsRecord(vs), len |-> n]
             was == Under(k)
             r == [Idle EXCEPT !.pc = "called", !.vals = vs, !.was = was, !.call = call]
  <1>6. call.op = op /\ call.key = k /\ call.fields = fs /\ call.len = n
    OBVIOUS
  <1>7. cl' = [cl EXCEPT ![c] = r]
    BY <1>2
  <1> HIDE DEF call, was
  <1>8. /\ DOMAIN r = {"pc", "call", "vals", "tabs", "todo", "ptrs", "row", "rows", "was"}
        /\ r.pc = "called" /\ r.vals = vs /\ r.call = call /\ r.tabs = << >> /\ r.todo = {}
        /\ r.ptrs = << >>
    BY DEF Idle
  <1> HIDE DEF r
  <1>9. Moves(c, r) /\ cl'[c] = r
    BY <1>7 DEF HashtableInv, ClientsInv, Moves
  <1>10. Typed(c)'
    <2>1. << >> \in Seq(Address) /\ DOMAIN r.ptrs = {}
      BY <1>8
    <2> QED BY <1>0, <1>1, <1>3, <1>4, <1>5, <1>6, <1>8, <1>9, <2>1 DEF Typed
  <1>11. Placed(c)' /\ Pointing(c)'
    BY <1>4, <1>8, <1>9 DEF Placed, Pointing, Missing
  <1>12. AnswersInv'
    BY DEF HashtableInv, AnswersInv, Call, NoAnswer
  <1>13. TablesInv' /\ StringsInv'
    BY <1>0, <1>8, <1>9, SameHeap
  <1>14. calls' \in 0..MaxCalls
    BY <1>0, HashtableAssumption DEF HashtableInv, CallsInv
  <1> QED BY <1>0, <1>8, <1>9, <1>10, <1>11, <1>12, <1>13, <1>14, Together

-----------------------------------------------------------------------------
(* Steps that change the heap *)

LEMMA SameWorkload ==
  ASSUME UNCHANGED workload
  PROVE  OneWriter' <=> OneWriter
  BY DEF OneWriter, Writes

LEMMA LinkStep ==
  ASSUME HashtableInv, NEW c \in Clients, Link(c), UNCHANGED calls
  PROVE  HashtableInv'
  <1> DEFINE k == cl[c].call.key
  <1> PICK t : t = NewAddress(DOMAIN tables)
    OBVIOUS
  <1>0. /\ cl[c].pc = "link" /\ UNCHANGED strings /\ tables' = With(tables, t, << >>)
        /\ Visit(c, "fill", <<t>>)
    BY DEF Link
  <1>1. /\ OneWriter => k \notin DOMAIN key_table
        /\ k \in Keys /\ Placed(c)
        /\ cl[c].call.op \in {"Insert", "Update"} /\ DOMAIN cl[c].ptrs = {}
    BY <1>0 DEF HashtableInv, PointersInv, Pointing, Missing, PlacesInv, Placed, ClientsInv, Typed
  <1>2. key_table' = IF k \in DOMAIN key_table THEN key_table ELSE With(key_table, k, t)
    BY <1>0 DEF Link
  <1>3. t \in Address /\ t \notin DOMAIN tables
    BY Fresh DEF HashtableInv, TablesInv
  <1>4. /\ DOMAIN key_table' = DOMAIN key_table \cup {k}
        /\ k \notin DOMAIN key_table => key_table'[k] = t
        /\ \A j \in DOMAIN key_table : key_table'[j] = key_table[j]
    BY <1>2 DEF With
  <1>5. /\ DOMAIN tables' = DOMAIN tables \cup {t} /\ tables'[t] = << >>
        /\ \A u \in DOMAIN tables : tables'[u] = tables[u]
    BY <1>0, <1>3 DEF With
  <1>6. /\ <<t>> \in Seq(Address) /\ Len(<<t>>) = 1 /\ DOMAIN <<t>> = {1} /\ <<t>>[1] = t
    BY <1>3
  <1>7. PICK r : /\ Moves(c, r) /\ AnswersInv' /\ UNCHANGED workload
                 /\ Typed(c)' /\ r.pc = "fill" /\ r.tabs = <<t>>
                 /\ r.call = cl[c].call /\ r.ptrs = cl[c].ptrs /\ r.vals = cl[c].vals
    BY <1>0, <1>6, VisitStep
  <1>8. cl'[c] = r
    BY <1>7 DEF Moves
  <1>9. Placed(c)'
    BY <1>1, <1>6, <1>7, <1>8 DEF Placed
  <1>10. OneWriter' <=> OneWriter
    BY <1>7, SameWorkload
  <1>11. /\ \A d \in Clients : \A u : Drops(d, u)' <=> Drops(d, u)
         /\ \A d \in Clients : \A s : Frees(d, s)' <=> Frees(d, s)
         /\ \A d \in Clients : cl'[d].pc = "drop" => cl[d].pc = "drop" /\ cl'[d] = cl[d]
         /\ \A d \in Clients : cl'[d].pc = "free" => cl[d].pc = "free" /\ cl'[d] = cl[d]
    BY <1>0, <1>7, SameFreers
  <1>12. TablesInv'
    <2>1. TablesInv
      BY DEF HashtableInv
    <2>2. IsFiniteSet(DOMAIN key_table') /\ IsFiniteSet(DOMAIN tables')
      <3>1. IsFiniteSet(DOMAIN key_table) /\ IsFiniteSet(DOMAIN tables)
        BY <2>1 DEF TablesInv
      <3>2. IsFiniteSet(DOMAIN key_table \cup {k}) /\ IsFiniteSet(DOMAIN tables \cup {t})
        BY <3>1, FS_AddElement
      <3> QED BY <1>4, <1>5, <3>2
    <2>3. \A d \in Clients : ~Drops(d, t)
      BY <1>3, <2>1 DEF TablesInv, Drops
    <2>4. /\ DOMAIN key_table' \subseteq Keys /\ DOMAIN tables' \subseteq Address
          /\ \A j \in DOMAIN key_table' : key_table'[j] \in DOMAIN tables'
          /\ \A i, j \in DOMAIN key_table' : key_table'[i] = key_table'[j] => i = j
      BY <1>1, <1>3, <1>4, <1>5, <2>1 DEF TablesInv
    <2>5. \A d \in Clients : cl'[d].pc = "drop" => cl'[d].tabs[1] \in DOMAIN tables'
      BY <1>5, <1>11, <2>1 DEF TablesInv
    <2>6. \A d \in Clients, u \in DOMAIN tables' :
            Drops(d, u)' => \A j \in DOMAIN key_table' : key_table'[j] # u
      BY <1>4, <1>5, <1>11, <2>1, <2>3 DEF TablesInv
    <2>7. \A d, e \in Clients, u \in DOMAIN tables' : Drops(d, u)' /\ Drops(e, u)' => d = e
      BY <1>5, <1>11, <2>1, <2>3 DEF TablesInv
    <2>8. ASSUME OneWriter, NEW u \in DOMAIN tables'
          PROVE  (\E j \in DOMAIN key_table' : key_table'[j] = u) \/ (\E d \in Clients : Drops(d, u)')
      BY <1>1, <1>4, <1>5, <1>11, <2>1, <2>8 DEF TablesInv
    <2> QED BY <1>10, <2>2, <2>4, <2>5, <2>6, <2>7, <2>8 DEF TablesInv
  <1>13. StringsInv'
    <2>1. StringsInv
      BY DEF HashtableInv
    <2>2. DOMAIN tables'[t] = {}
      BY <1>5
    <2>3. \A u \in DOMAIN tables : \A s : Has(u, s)' <=> Has(u, s)
      BY <1>5 DEF Has
    <2>4. \A u \in DOMAIN tables' : \A f \in DOMAIN tables'[u] : u \in DOMAIN tables /\ tables'[u] = tables[u]
      BY <1>5, <2>2
    <2>5. \A u \in DOMAIN tables' : DOMAIN tables'[u] \subseteq Fields
      BY <1>5, <2>1, <2>2 DEF StringsInv
    <2>6. \A u, v \in DOMAIN tables' :
            \A f \in DOMAIN tables'[u], g \in DOMAIN tables'[v] :
              tables'[u][f] = tables'[v][g] => u = v /\ f = g
      BY <2>1, <2>4 DEF StringsInv
    <2>7. ASSUME OneWriter, NEW s \in DOMAIN strings
          PROVE  (\E u \in DOMAIN tables' : Has(u, s)') \/ (\E d \in Clients : Frees(d, s)')
      BY <1>5, <1>11, <2>1, <2>3, <2>7 DEF StringsInv
    <2>8. \A u \in DOMAIN tables' : \A f \in DOMAIN tables'[u] : tables'[u][f] \in DOMAIN strings
      BY <2>1, <2>4 DEF StringsInv
    <2>9. \A d \in Clients, s \in DOMAIN strings :
            Frees(d, s)' => \A u \in DOMAIN tables' : ~Has(u, s)'
      <3>1. \A s : ~Has(t, s)'
        BY <2>2 DEF Has
      <3> QED BY <1>5, <1>11, <2>1, <2>3, <3>1 DEF StringsInv
    <2> QED BY <1>0, <1>10, <1>11, <2>1, <2>5, <2>6, <2>7, <2>8, <2>9 DEF StringsInv
  <1>14. Writing(c) /\ Kept(c)
    <2>1. \A u : ~Drops(c, u)
      BY <1>0 DEF Drops
    <2> QED BY <1>1, <1>3, <1>4, <1>5, <1>11, <2>1 DEF Writing, Kept
  <1>15. calls' \in 0..MaxCalls
    BY DEF HashtableInv, CallsInv
  <1>16. Pointing(c)'
    <2>1. OneWriter => Points(c)'
      BY <1>1, <1>4, <1>6, <1>7, <1>8 DEF Points
    <2>2. \A d \in Clients : ~Drops(d, t)
      BY <1>3 DEF Drops, HashtableInv, TablesInv
    <2>3. \A j \in DOMAIN key_table' : key_table'[j] = t => j = k
      BY <1>3, <1>4 DEF HashtableInv, TablesInv
    <2>4. Filling(c)'
      BY <1>5, <1>6, <1>7, <1>8, <1>11, <2>2, <2>3 DEF Filling
    <2>5. \A i \in DOMAIN r.vals : r.vals[i][1] \notin DOMAIN tables'[r.tabs[1]]
      BY <1>5, <1>6, <1>7
    <2> QED BY <1>7, <1>8, <1>10, <2>1, <2>4, <2>5 DEF Pointing, Missing
  <1> QED BY <1>0, <1>7, <1>9, <1>12, <1>13, <1>14, <1>15, <1>16, Together

\* A table that is changed in place stays under its key.
LEMMA SameTables ==
  ASSUME HashtableInv, UNCHANGED <<workload, key_table>>, DOMAIN tables' = DOMAIN tables,
         \A d \in Clients : \A u : Drops(d, u)' <=> Drops(d, u),
         \A d \in Clients : cl'[d].pc = "drop" => cl[d].pc = "drop" /\ cl'[d] = cl[d]
  PROVE  TablesInv'
  BY SameWorkload DEF HashtableInv, TablesInv

\* The pairs that are left to write, less the first.
LEMMA TailOf ==
  ASSUME NEW vs \in Seq(Fields \X Values), vs # << >>,
         \A i, j \in DOMAIN vs : vs[i][1] = vs[j][1] => i = j
  PROVE  /\ Head(vs) = vs[1] /\ vs[1] \in Fields \X Values
         /\ vs[1][1] \in Fields /\ vs[1][2] \in Values
         /\ Tail(vs) \in Seq(Fields \X Values)
         /\ \A i \in DOMAIN Tail(vs) : i + 1 \in DOMAIN vs /\ Tail(vs)[i] = vs[i + 1]
         /\ \A i \in DOMAIN Tail(vs) : Tail(vs)[i][1] # vs[1][1]
         /\ \A i, j \in DOMAIN Tail(vs) : Tail(vs)[i][1] = Tail(vs)[j][1] => i = j
  <1>1. /\ Head(vs) = vs[1] /\ vs[1] \in Fields \X Values /\ 1 \in DOMAIN vs
        /\ Tail(vs) \in Seq(Fields \X Values)
    OBVIOUS
  <1>2. \A i \in DOMAIN Tail(vs) : i \in Nat \ {0} /\ i + 1 \in DOMAIN vs /\ Tail(vs)[i] = vs[i + 1]
    OBVIOUS
  <1>3. \A i \in DOMAIN Tail(vs) : i + 1 # 1
    BY <1>2
  <1>4. \A i, j \in DOMAIN Tail(vs) : i + 1 = j + 1 => i = j
    BY <1>2
  <1> QED BY <1>1, <1>2, <1>3, <1>4

LEMMA InsertStringStep ==
  ASSUME HashtableInv, NEW c \in Clients, NEW next,
         (cl[c].pc = "fill" /\ next = "fill") \/ (cl[c].pc = "insert" /\ next = "over"),
         cl[c].vals # << >>, InsertString(c, next), UNCHANGED calls
  PROVE  HashtableInv'
  <1> DEFINE r == [cl[c] EXCEPT !.pc = next, !.vals = Tail(@)]
  <1>t. PICK t : t = cl[c].tabs[1]
    OBVIOUS
  <1>v. PICK v : v = Head(cl[c].vals)
    OBVIOUS
  <1>s. PICK s : s = NewAddress(DOMAIN strings)
    OBVIOUS
  <1>0. /\ v[1] \notin DOMAIN tables[t] /\ strings' = With(strings, s, v[2])
        /\ tables' = [tables EXCEPT ![t] = With(@, v[1], s)]
        /\ Goes(c, r) /\ UNCHANGED key_table
    BY <1>t, <1>v, <1>s DEF InsertString
  <1>1. /\ t \in DOMAIN tables /\ (\A d \in Clients : ~Drops(d, t))
        /\ Writing(c) /\ cl[c].pc # "idle"
    BY <1>t, OwnTable
  <1>2. s \in Address /\ s \notin DOMAIN strings
    BY <1>s, Fresh DEF HashtableInv, StringsInv
  <1>3. Typed(c) /\ Placed(c) /\ Pointing(c)
    BY DEF HashtableInv, ClientsInv, PlacesInv, PointersInv
  <1>4. /\ v = cl[c].vals[1] /\ Tail(cl[c].vals) \in Seq(Fields \X Values)
        /\ \A i \in DOMAIN Tail(cl[c].vals) :
             /\ i + 1 \in DOMAIN cl[c].vals /\ Tail(cl[c].vals)[i] = cl[c].vals[i + 1]
             /\ Tail(cl[c].vals)[i][1] # v[1]
        /\ \A i, j \in DOMAIN Tail(cl[c].vals) :
             Tail(cl[c].vals)[i][1] = Tail(cl[c].vals)[j][1] => i = j
    <2> PICK vs : vs = cl[c].vals
      OBVIOUS
    <2>1. /\ vs \in Seq(Fields \X Values) /\ vs # << >>
          /\ \A i, j \in DOMAIN vs : vs[i][1] = vs[j][1] => i = j
      BY <1>3 DEF Typed, Placed
    <2>2. /\ Head(vs) = vs[1] /\ Tail(vs) \in Seq(Fields \X Values)
          /\ \A i \in DOMAIN Tail(vs) : i + 1 \in DOMAIN vs /\ Tail(vs)[i] = vs[i + 1]
          /\ \A i \in DOMAIN Tail(vs) : Tail(vs)[i][1] # vs[1][1]
          /\ \A i, j \in DOMAIN Tail(vs) : Tail(vs)[i][1] = Tail(vs)[j][1] => i = j
      BY <2>1, TailOf
    <2>3. v = vs[1]
      BY <1>v, <2>2
    <2> QED BY <2>2, <2>3
  <1>5. v[1] \in Fields /\ v[2] \in Values
    BY <1>3, <1>v, TailOf DEF Typed, Placed
  <1>6. /\ DOMAIN r = DOMAIN cl[c] /\ r.pc = next /\ r.vals = Tail(cl[c].vals)
        /\ r.call = cl[c].call /\ r.tabs = cl[c].tabs /\ r.todo = cl[c].todo
        /\ r.ptrs = cl[c].ptrs
    BY <1>3 DEF Typed
  <1> HIDE DEF r
  <1>7. Moves(c, r) /\ AnswersInv' /\ UNCHANGED workload /\ cl'[c] = r
    BY <1>0, GoesStep DEF Moves
  <1>8. Typed(c)' /\ Placed(c)'
    <2>1. Typed(c)'
      BY <1>3, <1>4, <1>6, <1>7 DEF Typed
    <2>2. Placed(c)'
      BY <1>3, <1>4, <1>6, <1>7, ZenonT(40) DEF Placed
    <2> QED BY <2>1, <2>2
  <1>9. OneWriter' <=> OneWriter
    BY <1>7, SameWorkload
  <1>10. /\ \A d \in Clients : \A u : Drops(d, u)' <=> Drops(d, u)
         /\ \A d \in Clients : \A x : Frees(d, x)' <=> Frees(d, x)
         /\ \A d \in Clients : cl'[d].pc = "drop" => cl[d].pc = "drop" /\ cl'[d] = cl[d]
         /\ \A d \in Clients : cl'[d].pc = "free" => cl[d].pc = "free" /\ cl'[d] = cl[d]
    BY <1>6, <1>7, SameFreers
  <1>11. /\ DOMAIN tables' = DOMAIN tables
         /\ \A u \in DOMAIN tables : u # t => tables'[u] = tables[u]
         /\ DOMAIN tables'[t] = DOMAIN tables[t] \cup {v[1]} /\ tables'[t][v[1]] = s
         /\ \A f \in DOMAIN tables[t] : tables'[t][f] = tables[t][f]
    BY <1>0, <1>1 DEF With
  <1>12. /\ DOMAIN strings' = DOMAIN strings \cup {s} /\ strings'[s] = v[2]
         /\ \A x \in DOMAIN strings : strings'[x] = strings[x]
    BY <1>0, <1>2 DEF With
  <1>13. TablesInv'
    BY <1>0, <1>7, <1>10, <1>11, SameTables
  <1>14. StringsInv'
    <2>1. StringsInv
      BY DEF HashtableInv
    <2>2. IsFiniteSet(DOMAIN strings')
      <3>1. IsFiniteSet(DOMAIN strings)
        BY <2>1 DEF StringsInv
      <3>2. IsFiniteSet(DOMAIN strings \cup {s})
        BY <3>1, FS_AddElement
      <3> QED BY <1>12, <3>2
    <2>3. DOMAIN strings' \subseteq Address /\ \A x \in DOMAIN strings' : strings'[x] \in Values
      BY <1>2, <1>5, <1>12, <2>1 DEF StringsInv
    <2>4. \A u \in DOMAIN tables' : DOMAIN tables'[u] \subseteq Fields
      BY <1>5, <1>11, <2>1 DEF StringsInv
    <2>5. \A u \in DOMAIN tables' : \A f \in DOMAIN tables'[u] :
            \/ u = t /\ f = v[1] /\ tables'[u][f] = s
            \/ f \in DOMAIN tables[u] /\ tables'[u][f] = tables[u][f]
               /\ tables[u][f] \in DOMAIN strings
      BY <1>11, <2>1 DEF StringsInv
    <2>6. \A u \in DOMAIN tables' : \A f \in DOMAIN tables'[u] : tables'[u][f] \in DOMAIN strings'
      BY <1>12, <2>5
    <2>7. \A u, w \in DOMAIN tables' :
            \A f \in DOMAIN tables'[u], g \in DOMAIN tables'[w] :
              tables'[u][f] = tables'[w][g] => u = w /\ f = g
      BY <1>2, <1>11, <2>1, <2>5 DEF StringsInv
    <2>8. \A d \in Clients : \A x : Frees(d, x) => x \in DOMAIN strings
      BY <2>1 DEF StringsInv, Frees
    <2>9. \A u \in DOMAIN tables, x \in DOMAIN strings : Has(u, x)' <=> Has(u, x)
      BY <1>2, <1>11, <2>5 DEF Has
    <2>10. \A d \in Clients, x \in DOMAIN strings' :
             Frees(d, x)' => \A u \in DOMAIN tables' : ~Has(u, x)'
      BY <1>10, <1>11, <2>1, <2>8, <2>9 DEF StringsInv
    <2>11. \A d, e \in Clients, x \in DOMAIN strings' : Frees(d, x)' /\ Frees(e, x)' => d = e
      BY <1>10, <2>1, <2>8 DEF StringsInv
    <2>12. ASSUME OneWriter, NEW x \in DOMAIN strings'
           PROVE  (\E u \in DOMAIN tables' : Has(u, x)') \/ (\E d \in Clients : Frees(d, x)')
      <3>1. CASE x = s
        BY <1>1, <1>11, <3>1 DEF Has
      <3>2. CASE x \in DOMAIN strings
        BY <1>10, <1>11, <2>1, <2>9, <2>12, <3>2 DEF StringsInv
      <3> QED BY <1>12, <3>1, <3>2
    <2>13. \A d \in Clients : cl'[d].pc = "free" =>
             \A f \in DOMAIN cl'[d].ptrs : cl'[d].ptrs[f] \in DOMAIN strings'
      BY <1>10, <1>12, <2>1 DEF StringsInv
    <2> QED BY <1>9, <2>2, <2>3, <2>4, <2>6, <2>7, <2>10, <2>11, <2>12, <2>13 DEF StringsInv
  <1>15. Kept(c)
    <2>1. \A u : ~Drops(c, u)'
      BY <1>6, <1>7 DEF Drops
    <2> QED BY <1>0, <1>11, <1>t, <2>1 DEF Kept
  <1>16. Pointing(c)'
    <2>1. Points(c) => Points(c)'
      BY <1>0, <1>6, <1>7 DEF Points
    <2>2. CASE cl[c].pc = "insert"
      BY <1>3, <1>6, <1>7, <2>1, <2>2 DEF Pointing, Missing
    <2>3. CASE cl[c].pc = "fill"
      <3>1. Filling(c)'
        BY <1>0, <1>3, <1>6, <1>7, <1>10, <1>11, <1>t, <2>3 DEF Pointing, Filling
      <3>2. OneWriter => Points(c)'
        BY <1>3, <2>1, <2>3 DEF Pointing, Missing
      <3>3. OneWriter /\ cl[c].call.op = "Update" =>
              \A i \in DOMAIN r.vals : r.vals[i][1] \notin DOMAIN tables'[r.tabs[1]]
        <4> SUFFICES ASSUME OneWriter, cl[c].call.op = "Update", NEW i \in DOMAIN Tail(cl[c].vals)
                     PROVE  Tail(cl[c].vals)[i][1] \notin DOMAIN tables'[t]
          BY <1>6, <1>t
        <4>1. \A j \in DOMAIN cl[c].vals : cl[c].vals[j][1] \notin DOMAIN tables[t]
          BY <1>3, <1>t, <2>3 DEF Pointing, Missing
        <4>2. Tail(cl[c].vals)[i][1] \notin DOMAIN tables[t] /\ Tail(cl[c].vals)[i][1] # v[1]
          BY <1>4, <4>1
        <4> QED BY <1>11, <4>2
      <3> QED BY <1>6, <1>7, <1>9, <2>3, <3>1, <3>2, <3>3 DEF Pointing, Missing
    <2> QED BY <2>2, <2>3
  <1>17. calls' \in 0..MaxCalls
    BY DEF HashtableInv, CallsInv
  <1> QED BY <1>1, <1>7, <1>8, <1>13, <1>14, <1>15, <1>16, <1>17, Together

\* A string that is put nowhere: only where two clients write one key.
LEMMA LeakStringStep ==
  ASSUME HashtableInv, NEW c \in Clients, NEW next,
         \/ cl[c].pc = "fill" /\ cl[c].call.op = "Update" /\ next = "fill"
         \/ cl[c].pc = "insert" /\ next = "over",
         cl[c].vals # << >>, LeakString(c, next), UNCHANGED calls
  PROVE  HashtableInv'
  <1> DEFINE r == [cl[c] EXCEPT !.pc = next, !.vals = Tail(@)]
  <1>v. PICK v : v = Head(cl[c].vals)
    OBVIOUS
  <1>s. PICK s : s = NewAddress(DOMAIN strings)
    OBVIOUS
  <1>0. /\ v[1] \in DOMAIN tables[cl[c].tabs[1]] /\ strings' = With(strings, s, v[2])
        /\ Goes(c, r) /\ UNCHANGED <<key_table, tables>>
    BY <1>v, <1>s DEF LeakString
  <1>1. s \in Address /\ s \notin DOMAIN strings
    BY <1>s, Fresh DEF HashtableInv, StringsInv
  <1>2. Typed(c) /\ Placed(c) /\ Pointing(c)
    BY DEF HashtableInv, ClientsInv, PlacesInv, PointersInv
  <1>3. /\ v = cl[c].vals[1] /\ 1 \in DOMAIN cl[c].vals /\ v[2] \in Values
        /\ Tail(cl[c].vals) \in Seq(Fields \X Values)
        /\ \A i, j \in DOMAIN Tail(cl[c].vals) :
             Tail(cl[c].vals)[i][1] = Tail(cl[c].vals)[j][1] => i = j
    <2>1. cl[c].vals \in Seq(Fields \X Values)
      BY <1>2 DEF Typed
    <2>2. 1 \in DOMAIN cl[c].vals
      BY <2>1
    <2> QED BY <1>2, <1>v, <2>1, <2>2, TailOf DEF Placed
  <1>4. ~OneWriter
    BY <1>0, <1>2, <1>3 DEF Pointing, Missing
  <1>5. /\ DOMAIN r = DOMAIN cl[c] /\ r.pc = next /\ r.vals = Tail(cl[c].vals)
        /\ r.call = cl[c].call /\ r.tabs = cl[c].tabs /\ r.todo = cl[c].todo
        /\ r.ptrs = cl[c].ptrs
    BY <1>2 DEF Typed
  <1> HIDE DEF r
  <1>6. Moves(c, r) /\ AnswersInv' /\ UNCHANGED workload /\ cl'[c] = r
    BY <1>0, GoesStep DEF Moves
  <1>7. ~OneWriter'
    BY <1>4, <1>6, SameWorkload
  <1>8. Typed(c)' /\ Placed(c)'
    <2>1. Typed(c)'
      BY <1>2, <1>3, <1>5, <1>6 DEF Typed
    <2>2. Placed(c)'
      BY <1>2, <1>3, <1>5, <1>6 DEF Placed
    <2> QED BY <2>1, <2>2
  <1>9. /\ \A d \in Clients : \A u : Drops(d, u)' <=> Drops(d, u)
        /\ \A d \in Clients : \A x : Frees(d, x)' <=> Frees(d, x)
        /\ \A d \in Clients : cl'[d].pc = "drop" => cl[d].pc = "drop" /\ cl'[d] = cl[d]
        /\ \A d \in Clients : cl'[d].pc = "free" => cl[d].pc = "free" /\ cl'[d] = cl[d]
    BY <1>5, <1>6, SameFreers
  <1>10. Pointing(c)'
    <2>1. (Points(c) => Points(c)') /\ (Filling(c) => Filling(c)')
      BY <1>0, <1>5, <1>6, <1>9 DEF Points, Filling
    <2> QED BY <1>2, <1>5, <1>6, <1>7, <2>1 DEF Pointing
  <1>11. /\ DOMAIN strings' = DOMAIN strings \cup {s} /\ strings'[s] = v[2]
         /\ \A x \in DOMAIN strings : strings'[x] = strings[x]
    BY <1>0, <1>1 DEF With
  <1>12. TablesInv'
    BY <1>0, <1>6, <1>9, SameTables
  <1>13. StringsInv'
    <2>1. StringsInv
      BY DEF HashtableInv
    <2>2. IsFiniteSet(DOMAIN strings')
      <3>1. IsFiniteSet(DOMAIN strings)
        BY <2>1 DEF StringsInv
      <3>2. IsFiniteSet(DOMAIN strings \cup {s})
        BY <3>1, FS_AddElement
      <3> QED BY <1>11, <3>2
    <2>3. DOMAIN strings' \subseteq Address /\ \A x \in DOMAIN strings' : strings'[x] \in Values
      BY <1>1, <1>3, <1>11, <2>1 DEF StringsInv
    <2>4. \A d \in Clients : \A x : Frees(d, x) => x \in DOMAIN strings
      BY <2>1 DEF StringsInv, Frees
    <2>5. \A u, x : Has(u, x)' <=> Has(u, x)
      BY <1>0 DEF Has
    <2>6. \A d \in Clients, x \in DOMAIN strings' :
            Frees(d, x)' => \A u \in DOMAIN tables' : ~Has(u, x)'
      BY <1>0, <1>9, <2>1, <2>4, <2>5 DEF StringsInv
    <2>7. \A d, e \in Clients, x \in DOMAIN strings' : Frees(d, x)' /\ Frees(e, x)' => d = e
      BY <1>9, <2>1, <2>4 DEF StringsInv
    <2>8. \A d \in Clients : cl'[d].pc = "free" =>
            \A f \in DOMAIN cl'[d].ptrs : cl'[d].ptrs[f] \in DOMAIN strings'
      BY <1>9, <1>11, <2>1 DEF StringsInv
    <2> QED BY <1>0, <1>7, <1>11, <2>1, <2>2, <2>3, <2>6, <2>7, <2>8 DEF StringsInv
  <1>14. calls' \in 0..MaxCalls
    BY DEF HashtableInv, CallsInv
  <1>15. r.pc # "drop"
    BY <1>5
  <1> QED BY <1>0, <1>6, <1>8, <1>10, <1>12, <1>13, <1>14, <1>15, Together

\* field_table->Update returned NULL.
LEMMA UpdateMissesStep ==
  ASSUME HashtableInv, NEW c \in Clients, UpdateMisses(c), UNCHANGED calls
  PROVE  HashtableInv'
  <1> DEFINE r == [cl[c] EXCEPT !.pc = "insert"]
  <1>0. /\ cl[c].pc = "over" /\ cl[c].call.op = "Update" /\ cl[c].vals # << >>
        /\ cl[c].vals[1][1] \notin DOMAIN tables[cl[c].tabs[1]]
        /\ Goes(c, r) /\ UNCHANGED <<key_table, tables, strings>>
    <2>1. Typed(c)
      BY DEF HashtableInv, ClientsInv
    <2> QED BY <2>1 DEF UpdateMisses, At, Typed
  <1>1. Typed(c) /\ Placed(c) /\ Pointing(c)
    BY DEF HashtableInv, ClientsInv, PlacesInv, PointersInv
  <1>2. /\ DOMAIN r = DOMAIN cl[c] /\ r.pc = "insert" /\ r.vals = cl[c].vals
        /\ r.call = cl[c].call /\ r.tabs = cl[c].tabs /\ r.todo = cl[c].todo
        /\ r.ptrs = cl[c].ptrs
    BY <1>1 DEF Typed
  <1> HIDE DEF r
  <1>3. Moves(c, r) /\ AnswersInv' /\ UNCHANGED workload /\ cl'[c] = r
    BY <1>0, GoesStep DEF Moves
  <1>4. Typed(c)' /\ Placed(c)'
    BY <1>0, <1>1, <1>2, <1>3 DEF Typed, Placed
  <1>5. Pointing(c)'
    <2>1. Points(c)'
      BY <1>0, <1>1, <1>2, <1>3 DEF Pointing, Points
    <2> QED BY <1>0, <1>2, <1>3, <2>1 DEF Pointing, Missing
  <1>6. TablesInv' /\ StringsInv'
    BY <1>0, <1>2, <1>3, SameHeap
  <1>7. calls' \in 0..MaxCalls
    BY DEF HashtableInv, CallsInv
  <1> QED BY <1>0, <1>2, <1>3, <1>4, <1>5, <1>6, <1>7, Together

\* field_table->Update: the old string is the client's to free.
LEMMA OverwriteStep ==
  ASSUME HashtableInv, NEW c \in Clients, Overwrite(c), UNCHANGED calls
  PROVE  HashtableInv'
  <1>t. PICK t : t = cl[c].tabs[1]
    OBVIOUS
  <1>v. PICK v : v = Head(cl[c].vals)
    OBVIOUS
  <1>s. PICK s : s = NewAddress(DOMAIN strings)
    OBVIOUS
  <1>o. PICK old : old = tables[t][v[1]]
    BY Zenon
  <1> DEFINE p == [f \in {v[1]} |-> tables[t][f]]
             r == [cl[c] EXCEPT !.pc = "free", !.vals = Tail(@), !.ptrs = p]
  <1>0. /\ cl[c].pc = "over" /\ cl[c].call.op = "Update" /\ cl[c].vals # << >>
        /\ v[1] \in DOMAIN tables[t] /\ strings' = With(strings, s, v[2])
        /\ tables' = [tables EXCEPT ![t][v[1]] = s]
        /\ Goes(c, r) /\ UNCHANGED key_table
    BY <1>t, <1>v, <1>s DEF Overwrite, At
  <1>1. t \in DOMAIN tables /\ Writing(c) /\ cl[c].pc # "idle"
    BY <1>0, <1>t, OwnTable
  <1>2. s \in Address /\ s \notin DOMAIN strings
    BY <1>s, Fresh DEF HashtableInv, StringsInv
  <1>3. Typed(c) /\ Placed(c) /\ Pointing(c)
    BY DEF HashtableInv, ClientsInv, PlacesInv, PointersInv
  <1>4. /\ Tail(cl[c].vals) \in Seq(Fields \X Values)
        /\ \A i, j \in DOMAIN Tail(cl[c].vals) :
             Tail(cl[c].vals)[i][1] = Tail(cl[c].vals)[j][1] => i = j
    BY <1>0, <1>3, TailOf DEF Typed, Placed
  <1>5. v[1] \in Fields /\ v[2] \in Values
    BY <1>0, <1>3, <1>v, TailOf DEF Typed, Placed
  <1>6. DOMAIN p = {v[1]} /\ p[v[1]] = old
    BY <1>o
  <1> HIDE DEF p
  <1>7. /\ DOMAIN r = DOMAIN cl[c] /\ r.pc = "free" /\ r.vals = Tail(cl[c].vals)
        /\ r.call = cl[c].call /\ r.tabs = cl[c].tabs /\ r.todo = cl[c].todo
        /\ r.ptrs = p
    BY <1>3 DEF Typed
  <1> HIDE DEF r
  <1>8. Moves(c, r) /\ AnswersInv' /\ UNCHANGED workload /\ cl'[c] = r
    BY <1>0, GoesStep DEF Moves
  <1>9. Typed(c)' /\ Placed(c)'
    <2>1. old \in Address
      BY <1>0, <1>1, <1>o DEF HashtableInv, StringsInv
    <2>2. DOMAIN p \subseteq Fields /\ \A f \in DOMAIN p : p[f] \in Address
      BY <1>5, <1>6, <2>1
    <2>3. Typed(c)'
      BY <1>0, <1>3, <1>4, <1>7, <1>8, <2>2 DEF Typed
    <2>4. Placed(c)'
      BY <1>0, <1>3, <1>4, <1>7, <1>8 DEF Placed
    <2> QED BY <2>3, <2>4
  <1>10. Pointing(c)'
    <2>1. Points(c)'
      BY <1>0, <1>3, <1>7, <1>8 DEF Pointing, Points
    <2> QED BY <1>7, <1>8, <2>1 DEF Pointing, Missing
  <1>11. /\ \A d \in Clients : \A u : Drops(d, u)' <=> Drops(d, u)
         /\ \A d \in Clients : cl'[d].pc = "drop" => cl[d].pc = "drop" /\ cl'[d] = cl[d]
    BY <1>0, <1>7, <1>8 DEF Moves, Drops
  <1>12. /\ \A x : Frees(c, x)' <=> x = old
         /\ \A d \in Clients : \A x : d # c => (Frees(d, x)' <=> Frees(d, x))
    BY <1>6, <1>7, <1>8 DEF Moves, Frees
  <1>13. /\ DOMAIN tables' = DOMAIN tables
         /\ \A u \in DOMAIN tables : u # t => tables'[u] = tables[u]
         /\ DOMAIN tables'[t] = DOMAIN tables[t] /\ tables'[t][v[1]] = s
         /\ \A f \in DOMAIN tables[t] : f # v[1] => tables'[t][f] = tables[t][f]
    BY <1>0, <1>1
  <1>14. /\ DOMAIN strings' = DOMAIN strings \cup {s} /\ strings'[s] = v[2]
         /\ \A x \in DOMAIN strings : strings'[x] = strings[x]
    BY <1>0, <1>2 DEF With
  <1>15. TablesInv'
    BY <1>0, <1>8, <1>11, <1>13, SameTables
  <1>16. StringsInv'
    <2>1. StringsInv
      BY DEF HashtableInv
    <2>2. IsFiniteSet(DOMAIN strings')
      <3>1. IsFiniteSet(DOMAIN strings)
        BY <2>1 DEF StringsInv
      <3>2. IsFiniteSet(DOMAIN strings \cup {s})
        BY <3>1, FS_AddElement
      <3> QED BY <1>14, <3>2
    <2>3. DOMAIN strings' \subseteq Address /\ \A x \in DOMAIN strings' : strings'[x] \in Values
      BY <1>2, <1>5, <1>14, <2>1 DEF StringsInv
    <2>4. \A u \in DOMAIN tables' : DOMAIN tables'[u] \subseteq Fields
      BY <1>13, <2>1 DEF StringsInv
    <2>5. \A u \in DOMAIN tables' : \A f \in DOMAIN tables'[u] :
            \/ u = t /\ f = v[1] /\ tables'[u][f] = s
            \/ /\ f \in DOMAIN tables[u] /\ tables'[u][f] = tables[u][f]
               /\ tables[u][f] \in DOMAIN strings /\ ~(u = t /\ f = v[1])
      BY <1>13, <2>1 DEF StringsInv
    <2>6. \A u \in DOMAIN tables' : \A f \in DOMAIN tables'[u] : tables'[u][f] \in DOMAIN strings'
      BY <1>14, <2>5
    <2>7. \A u, w \in DOMAIN tables' :
            \A f \in DOMAIN tables'[u], g \in DOMAIN tables'[w] :
              tables'[u][f] = tables'[w][g] => u = w /\ f = g
      BY <1>2, <1>13, <2>1, <2>5 DEF StringsInv
    <2>8. \A d \in Clients : \A x : Frees(d, x) => x \in DOMAIN strings
      BY <2>1 DEF StringsInv, Frees
    <2>9. old \in DOMAIN strings /\ Has(t, old)
      BY <1>0, <1>1, <1>o, <2>1 DEF StringsInv, Has
    <2>10. \A u \in DOMAIN tables, x \in DOMAIN strings :
             x # old => (Has(u, x)' <=> Has(u, x))
      <3> SUFFICES ASSUME NEW u \in DOMAIN tables, NEW x \in DOMAIN strings, x # old
                   PROVE  Has(u, x)' <=> Has(u, x)
        OBVIOUS
      <3>1. DOMAIN tables'[u] = DOMAIN tables[u]
        BY <1>13
      <3>2. \A f \in DOMAIN tables[u] : tables'[u][f] = x <=> tables[u][f] = x
        BY <1>2, <1>13, <1>o
      <3> QED BY <3>1, <3>2 DEF Has
    <2>11. \A u \in DOMAIN tables : ~Has(u, old)'
      <3> SUFFICES ASSUME NEW u \in DOMAIN tables, NEW f \in DOMAIN tables'[u],
                          tables'[u][f] = old
                   PROVE  FALSE
        BY DEF Has
      <3>1. s # old
        BY <1>2, <2>9
      <3>2. ~(u = t /\ f = v[1]) /\ f \in DOMAIN tables[u] /\ tables[u][f] = tables[t][v[1]]
        BY <1>13, <1>o, <2>5, <3>1
      <3> QED BY <1>0, <1>1, <2>1, <3>2 DEF StringsInv
    <2>12. \A d \in Clients : ~Frees(d, old)
      <3>1. \A d \in Clients, x \in DOMAIN strings :
              Frees(d, x) => \A u \in DOMAIN tables : ~Has(u, x)
        BY <2>1, Zenon DEF StringsInv
      <3>2. t \in DOMAIN tables
        BY <1>1
      <3> QED BY <2>9, <3>1, <3>2, Zenon
    <2>13. \A d \in Clients, x \in DOMAIN strings' :
             Frees(d, x)' => \A u \in DOMAIN tables' : ~Has(u, x)'
      <3> SUFFICES ASSUME NEW d \in Clients, NEW x \in DOMAIN strings', Frees(d, x)',
                          NEW u \in DOMAIN tables
                   PROVE  ~Has(u, x)'
        BY <1>13
      <3>1. CASE d = c
        BY <1>12, <2>11, <3>1
      <3>2. CASE d # c
        <4>1. Frees(d, x) /\ x \in DOMAIN strings /\ x # old
          BY <1>12, <2>8, <2>12, <3>2
        <4>2. ~Has(u, x)
          BY <2>1, <4>1 DEF StringsInv
        <4> QED BY <2>10, <4>1, <4>2
      <3> QED BY <3>1, <3>2
    <2>14. \A d, e \in Clients, x \in DOMAIN strings' : Frees(d, x)' /\ Frees(e, x)' => d = e
      BY <1>12, <2>1, <2>8, <2>12 DEF StringsInv
    <2>15. ASSUME OneWriter, NEW x \in DOMAIN strings'
           PROVE  (\E u \in DOMAIN tables' : Has(u, x)') \/ (\E d \in Clients : Frees(d, x)')
      <3>1. CASE x = s
        BY <1>0, <1>1, <1>13, <3>1 DEF Has
      <3>2. CASE x = old
        BY <1>12, <3>2
      <3>3. CASE x \in DOMAIN strings /\ x # old
        <4>1. CASE \E u \in DOMAIN tables : Has(u, x)
          BY <1>13, <2>10, <3>3, <4>1
        <4>2. CASE \E d \in Clients : Frees(d, x)
          <5>1. ~Frees(c, x)
            BY <1>0 DEF Frees
          <5> QED BY <1>12, <4>2, <5>1
        <4> QED BY <2>1, <2>15, <3>3, <4>1, <4>2 DEF StringsInv
      <3> QED BY <1>14, <3>1, <3>2, <3>3
    <2>16. ASSUME NEW d \in Clients, cl'[d].pc = "free"
           PROVE  \A f \in DOMAIN cl'[d].ptrs : cl'[d].ptrs[f] \in DOMAIN strings'
      <3>1. CASE d = c
        <4>1. cl'[d].ptrs = p
          BY <1>7, <1>8, <3>1
        <4>2. old \in DOMAIN strings'
          BY <1>14, <2>9
        <4> QED BY <1>5, <1>6, <4>1, <4>2
      <3>2. CASE d # c
        BY <1>8, <1>14, <2>1, <2>16, <3>2 DEF Moves, StringsInv
      <3> QED BY <3>1, <3>2
    <2>17. OneWriter' <=> OneWriter
      BY <1>8, SameWorkload
    <2> QED BY <2>2, <2>3, <2>4, <2>6, <2>7, <2>13, <2>14, <2>15, <2>16, <2>17 DEF StringsInv
  <1>17. Kept(c)
    <2>1. \A u : ~Drops(c, u)'
      BY <1>7, <1>8 DEF Drops
    <2> QED BY <1>0, <1>13, <1>t, <2>1 DEF Kept
  <1>18. calls' \in 0..MaxCalls
    BY DEF HashtableInv, CallsInv
  <1> QED BY <1>1, <1>8, <1>9, <1>10, <1>15, <1>16, <1>17, <1>18, Together

\* DeleteString of the string that was overwritten.
LEMMA FreeOldStep ==
  ASSUME HashtableInv, NEW c \in Clients, FreeOld(c), UNCHANGED calls
  PROVE  HashtableInv'
  <1> DEFINE r == [cl[c] EXCEPT !.pc = "over", !.ptrs = << >>]
  <1>0. /\ cl[c].pc = "free" /\ cl[c].call.op = "Update"
        /\ strings' = Without(strings, Range(cl[c].ptrs))
        /\ Goes(c, r) /\ UNCHANGED <<key_table, tables>>
    BY DEF FreeOld, At
  <1>1. Typed(c) /\ Placed(c) /\ Pointing(c)
    BY DEF HashtableInv, ClientsInv, PlacesInv, PointersInv
  <1>2. /\ DOMAIN r = DOMAIN cl[c] /\ r.pc = "over" /\ r.vals = cl[c].vals
        /\ r.call = cl[c].call /\ r.tabs = cl[c].tabs /\ r.todo = cl[c].todo
        /\ r.ptrs = << >>
    BY <1>1 DEF Typed
  <1> HIDE DEF r
  <1>3. Moves(c, r) /\ AnswersInv' /\ UNCHANGED workload /\ cl'[c] = r
    BY <1>0, GoesStep DEF Moves
  <1>4. Typed(c)' /\ Placed(c)'
    <2>1. DOMAIN r.ptrs = {}
      BY <1>2
    <2>2. Typed(c)'
      BY <1>0, <1>1, <1>2, <1>3, <2>1 DEF Typed
    <2>3. Placed(c)'
      BY <1>0, <1>1, <1>2, <1>3, <2>1 DEF Placed
    <2> QED BY <2>2, <2>3
  <1>5. Pointing(c)'
    <2>1. Points(c)'
      BY <1>0, <1>1, <1>2, <1>3 DEF Pointing, Points
    <2> QED BY <1>2, <1>3, <2>1 DEF Pointing, Missing
  <1>6. /\ \A d \in Clients : \A u : Drops(d, u)' <=> Drops(d, u)
        /\ \A d \in Clients : cl'[d].pc = "drop" => cl[d].pc = "drop" /\ cl'[d] = cl[d]
    BY <1>0, <1>2, <1>3 DEF Moves, Drops
  <1>7. /\ \A x : ~Frees(c, x)'
        /\ \A d \in Clients : \A x : d # c => (Frees(d, x)' <=> Frees(d, x))
    BY <1>2, <1>3 DEF Moves, Frees
  <1>8. /\ \A x : x \in DOMAIN strings' <=> x \in DOMAIN strings /\ ~Frees(c, x)
        /\ \A x \in DOMAIN strings' : strings'[x] = strings[x]
    BY <1>0 DEF Without, Restrict, Range, Frees
  <1>9. TablesInv'
    BY <1>0, <1>3, <1>6, SameTables
  <1>10. StringsInv'
    <2>1. StringsInv
      BY DEF HashtableInv
    <2>2. IsFiniteSet(DOMAIN strings')
      <3>1. IsFiniteSet(DOMAIN strings) /\ DOMAIN strings' \subseteq DOMAIN strings
        BY <1>8, <2>1 DEF StringsInv
      <3> QED BY <3>1, FS_Subset
    <2>3. DOMAIN strings' \subseteq Address /\ \A x \in DOMAIN strings' : strings'[x] \in Values
      BY <1>8, <2>1 DEF StringsInv
    <2>4. \A u \in DOMAIN tables : \A f \in DOMAIN tables[u] : tables[u][f] \in DOMAIN strings'
      BY <1>8, <2>1 DEF StringsInv, Has
    <2>5. \A u, x : Has(u, x)' <=> Has(u, x)
      BY <1>0 DEF Has
    <2>6. \A d \in Clients, x \in DOMAIN strings' :
            Frees(d, x)' => \A u \in DOMAIN tables' : ~Has(u, x)'
      BY <1>0, <1>7, <1>8, <2>1, <2>5 DEF StringsInv
    <2>7. \A d, e \in Clients, x \in DOMAIN strings' : Frees(d, x)' /\ Frees(e, x)' => d = e
      BY <1>7, <1>8, <2>1 DEF StringsInv
    <2>8. ASSUME OneWriter, NEW x \in DOMAIN strings'
          PROVE  (\E u \in DOMAIN tables' : Has(u, x)') \/ (\E d \in Clients : Frees(d, x)')
      BY <1>0, <1>7, <1>8, <2>1, <2>5, <2>8 DEF StringsInv
    <2>9. ASSUME NEW d \in Clients, cl'[d].pc = "free"
          PROVE  \A f \in DOMAIN cl'[d].ptrs : cl'[d].ptrs[f] \in DOMAIN strings'
      <3>1. d # c /\ cl'[d] = cl[d]
        BY <1>2, <1>3, <2>9 DEF Moves
      <3>2. \A f \in DOMAIN cl[d].ptrs : Frees(d, cl[d].ptrs[f]) /\ cl[d].ptrs[f] \in DOMAIN strings
        BY <2>1, <2>9, <3>1 DEF Frees, StringsInv
      <3>3. \A f \in DOMAIN cl[d].ptrs : ~Frees(c, cl[d].ptrs[f])
        BY <2>1, <3>1, <3>2 DEF StringsInv
      <3> QED BY <1>8, <2>1, <2>9, <3>1, <3>2, <3>3 DEF StringsInv
    <2>10. OneWriter' <=> OneWriter
      BY <1>3, SameWorkload
    <2> QED BY <1>0, <2>1, <2>2, <2>3, <2>4, <2>6, <2>7, <2>8, <2>9, <2>10 DEF StringsInv
  <1>11. calls' \in 0..MaxCalls
    BY DEF HashtableInv, CallsInv
  <1> QED BY <1>0, <1>2, <1>3, <1>4, <1>5, <1>9, <1>10, <1>11, Together

\* key_table_->Remove: the table is the client's to delete.
LEMMA DeleteRemoveStep ==
  ASSUME HashtableInv, NEW c \in Clients, DeleteRemove(c), UNCHANGED calls
  PROVE  HashtableInv'
  <1>0. cl[c].pc = "called" /\ cl[c].call.op = "Delete" /\ UNCHANGED <<tables, strings>>
    BY DEF DeleteRemove, At
  <1>1. CASE cl[c].call.key \notin DOMAIN key_table
    <2>1. Answer(c, kErrorNoData, << >>) /\ UNCHANGED key_table
      BY <1>1 DEF DeleteRemove
    <2> QED BY <1>0, <2>1, PlainAnswer
  <1>2. CASE cl[c].call.key \in DOMAIN key_table
    <2> PICK k : k = cl[c].call.key
      OBVIOUS
    <2> PICK t : t = key_table[k]
      OBVIOUS
    <2>1. key_table' = Without(key_table, {k}) /\ Visit(c, "drop", <<t>>)
      BY <1>2 DEF DeleteRemove
    <2>2. /\ t \in DOMAIN tables /\ <<t>> \in Seq(Address) /\ Len(<<t>>) = 1 /\ <<t>>[1] = t
      BY <1>2, UnderKey
    <2>3. PICK r : /\ Moves(c, r) /\ AnswersInv' /\ UNCHANGED workload
                   /\ Typed(c)' /\ r.pc = "drop" /\ r.tabs = <<t>>
                   /\ r.call = cl[c].call /\ r.ptrs = cl[c].ptrs /\ r.vals = cl[c].vals
      <3> DEFINE ts == <<t>>
      <3>1. cl[c].pc # "idle" /\ ts \in Seq(Address) /\ Visit(c, "drop", ts)
        BY <1>0, <2>1, <2>2
      <3> HIDE DEF ts
      <3>2. \E r : /\ Moves(c, r) /\ AnswersInv' /\ UNCHANGED workload
                   /\ Typed(c)' /\ r.pc = "drop" /\ r.tabs = ts
                   /\ r.call = cl[c].call /\ r.ptrs = cl[c].ptrs /\ r.vals = cl[c].vals
        BY <3>1, VisitStep
      <3> QED BY <3>2 DEF ts
    <2>4. cl'[c] = r
      BY <2>3 DEF Moves
    <2>5. Placed(c)'
      <3>1. DOMAIN r.ptrs = {}
        BY <1>0, <2>3 DEF HashtableInv, PlacesInv, Placed
      <3>2. Len(r.tabs) = 1 /\ r.call.op = "Delete"
        BY <1>0, <2>2, <2>3
      <3>3. \A i, j \in DOMAIN r.vals : r.vals[i][1] = r.vals[j][1] => i = j
        BY <2>3 DEF HashtableInv, PlacesInv, Placed
      <3> QED BY <2>3, <2>4, <3>1, <3>2, <3>3 DEF Placed
    <2>6. Pointing(c)'
      BY <2>3, <2>4 DEF Pointing, Missing
    <2>7. /\ DOMAIN key_table' = DOMAIN key_table \ {k}
          /\ \A j \in DOMAIN key_table' : key_table'[j] = key_table[j]
      BY <2>1 DEF Without, Restrict
    <2>8. /\ \A u : Drops(c, u)' <=> u = t
          /\ \A d \in Clients : \A u : d # c => (Drops(d, u)' <=> Drops(d, u))
          /\ \A u : ~Drops(c, u)
      BY <1>0, <2>2, <2>3 DEF Moves, Drops
    <2>9. TablesInv'
      <3>1. TablesInv
        BY DEF HashtableInv
      <3>2. IsFiniteSet(DOMAIN key_table')
        <4>1. IsFiniteSet(DOMAIN key_table) /\ DOMAIN key_table' \subseteq DOMAIN key_table
          BY <2>7, <3>1 DEF TablesInv
        <4> QED BY <4>1, FS_Subset
      <3>3. DOMAIN key_table' \subseteq Keys
        BY <2>7, <3>1 DEF TablesInv
      <3>4. /\ \A j \in DOMAIN key_table' : key_table'[j] \in DOMAIN tables'
            /\ \A i, j \in DOMAIN key_table' : key_table'[i] = key_table'[j] => i = j
        BY <1>0, <2>7, <3>1 DEF TablesInv
      <3>5. ASSUME NEW d \in Clients, cl'[d].pc = "drop" PROVE cl'[d].tabs[1] \in DOMAIN tables'
        <4>1. CASE d = c
          BY <1>0, <2>2, <2>3, <2>4, <4>1
        <4>2. CASE d # c
          BY <1>0, <2>3, <3>1, <3>5, <4>2 DEF TablesInv, Moves
        <4> QED BY <4>1, <4>2
      <3>6. ASSUME NEW d \in Clients, NEW u \in DOMAIN tables', Drops(d, u)'
            PROVE  \A j \in DOMAIN key_table' : key_table'[j] # u
        <4>1. CASE d = c
          BY <1>2, <2>7, <2>8, <3>1, <3>6, <4>1 DEF TablesInv
        <4>2. CASE d # c
          BY <1>0, <2>7, <2>8, <3>1, <3>6, <4>2 DEF TablesInv
        <4> QED BY <4>1, <4>2
      <3>7. \A d \in Clients : ~Drops(d, t)
        BY <1>2, <2>2, <3>1 DEF TablesInv
      <3>8. \A d, e \in Clients, u \in DOMAIN tables' : Drops(d, u)' /\ Drops(e, u)' => d = e
        BY <1>0, <2>8, <3>1, <3>7 DEF TablesInv
      <3>9. ASSUME OneWriter, NEW u \in DOMAIN tables'
            PROVE  (\E j \in DOMAIN key_table' : key_table'[j] = u) \/ (\E d \in Clients : Drops(d, u)')
        <4>1. CASE u = t
          BY <2>8, <4>1
        <4>2. CASE u # t
          <5>1. CASE \E j \in DOMAIN key_table : key_table[j] = u
            BY <2>7, <4>2, <5>1
          <5>2. CASE \E d \in Clients : Drops(d, u)
            BY <2>8, <5>2
          <5> QED BY <1>0, <3>1, <3>9, <5>1, <5>2 DEF TablesInv
        <4> QED BY <4>1, <4>2
      <3>10. IsFiniteSet(DOMAIN tables') /\ DOMAIN tables' \subseteq Address
        BY <1>0, <3>1 DEF TablesInv
      <3>11. OneWriter' <=> OneWriter
        BY <2>3, SameWorkload
      <3> QED BY <3>2, <3>3, <3>4, <3>5, <3>6, <3>8, <3>9, <3>10, <3>11 DEF TablesInv
    <2>10. StringsInv'
      <3>1. /\ \A d \in Clients : \A x : Frees(d, x)' <=> Frees(d, x)
            /\ \A d \in Clients : cl'[d].pc = "free" => cl[d].pc = "free" /\ cl'[d] = cl[d]
        BY <1>0, <2>3 DEF Moves, Frees
      <3>2. \A u, x : Has(u, x)' <=> Has(u, x)
        BY <1>0 DEF Has
      <3>3. OneWriter' <=> OneWriter
        BY <2>3, SameWorkload
      <3> QED BY <1>0, <3>1, <3>2, <3>3 DEF HashtableInv, StringsInv
    <2>11. Writing(c) /\ Kept(c)
      BY <1>0, <1>2, <2>7, <2>8 DEF Writing, Kept
    <2>12. calls' \in 0..MaxCalls
      BY DEF HashtableInv, CallsInv
    <2> QED BY <1>0, <2>3, <2>5, <2>6, <2>9, <2>10, <2>11, <2>12, Together
  <1> QED BY <1>1, <1>2

\* DeleteFieldHashtable: the table and its strings.
LEMMA DeleteTableStep ==
  ASSUME HashtableInv, NEW c \in Clients, DeleteTable(c), UNCHANGED calls
  PROVE  HashtableInv'
  <1> PICK t : t = cl[c].tabs[1]
    OBVIOUS
  <1>0. /\ cl[c].pc = "drop" /\ cl[c].call.op = "Delete"
        /\ strings' = Without(strings, Range(tables[t]))
        /\ tables' = Without(tables, {t})
        /\ Answer(c, kOK, << >>) /\ UNCHANGED key_table
    BY DEF DeleteTable, At
  <1>1. TablesInv /\ StringsInv
    BY DEF HashtableInv
  <1>2. Drops(c, t) /\ t \in DOMAIN tables
    BY <1>0, <1>1 DEF Drops, TablesInv
  <1>3. \A j \in DOMAIN key_table : key_table[j] # t
    BY <1>1, <1>2 DEF TablesInv
  <1>4. /\ Moves(c, Idle) /\ AnswersInv' /\ UNCHANGED workload
        /\ Typed(c)' /\ Placed(c)' /\ Pointing(c)'
    BY <1>0, AnswerStep
  <1>5. Idle.pc = "idle"
    BY DEF Idle
  <1>6. /\ DOMAIN tables' = DOMAIN tables \ {t}
        /\ \A u \in DOMAIN tables' : tables'[u] = tables[u]
    BY <1>0 DEF Without, Restrict
  <1>7. /\ \A x : x \in DOMAIN strings' <=> x \in DOMAIN strings /\ ~Has(t, x)
        /\ \A x \in DOMAIN strings' : strings'[x] = strings[x]
    BY <1>0 DEF Without, Restrict, Range, Has
  <1>8. /\ \A u : ~Drops(c, u)'
        /\ \A d \in Clients : \A u : d # c => (Drops(d, u)' <=> Drops(d, u))
        /\ \A d \in Clients : \A x : Frees(d, x)' <=> Frees(d, x)
        /\ \A d \in Clients : cl'[d].pc \in {"free", "drop"} => d # c /\ cl'[d] = cl[d]
    BY <1>0, <1>4, <1>5 DEF Moves, Drops, Frees
  <1>9. TablesInv'
    <2>1. IsFiniteSet(DOMAIN tables')
      <3>1. IsFiniteSet(DOMAIN tables) /\ DOMAIN tables' \subseteq DOMAIN tables
        BY <1>1, <1>6 DEF TablesInv
      <3> QED BY <3>1, FS_Subset
    <2>2. \A k \in DOMAIN key_table' : key_table'[k] \in DOMAIN tables'
      BY <1>0, <1>1, <1>3, <1>6 DEF TablesInv
    <2>3. ASSUME NEW d \in Clients, cl'[d].pc = "drop" PROVE cl'[d].tabs[1] \in DOMAIN tables'
      <3>1. d # c /\ cl'[d] = cl[d] /\ cl[d].tabs[1] \in DOMAIN tables
        BY <1>1, <1>8, <2>3 DEF TablesInv
      <3>2. Drops(d, cl[d].tabs[1])
        BY <2>3, <3>1 DEF Drops
      <3>3. cl[d].tabs[1] # t
        BY <1>1, <1>2, <3>1, <3>2 DEF TablesInv
      <3> QED BY <1>6, <3>1, <3>3
    <2>4. \A d \in Clients, u \in DOMAIN tables' :
            Drops(d, u)' => \A k \in DOMAIN key_table' : key_table'[k] # u
      BY <1>0, <1>1, <1>6, <1>8 DEF TablesInv
    <2>5. \A d, e \in Clients, u \in DOMAIN tables' : Drops(d, u)' /\ Drops(e, u)' => d = e
      BY <1>1, <1>6, <1>8 DEF TablesInv
    <2>6. ASSUME OneWriter, NEW u \in DOMAIN tables'
          PROVE  (\E k \in DOMAIN key_table' : key_table'[k] = u) \/ (\E d \in Clients : Drops(d, u)')
      <3>1. ~Drops(c, u) /\ u \in DOMAIN tables
        BY <1>2, <1>6 DEF Drops
      <3> QED BY <1>0, <1>1, <1>8, <2>6, <3>1 DEF TablesInv
    <2>7. OneWriter' <=> OneWriter
      BY <1>4, SameWorkload
    <2> QED BY <1>0, <1>1, <1>6, <2>1, <2>2, <2>3, <2>4, <2>5, <2>6, <2>7 DEF TablesInv
  <1>10. StringsInv'
    <2>1. IsFiniteSet(DOMAIN strings')
      <3>1. IsFiniteSet(DOMAIN strings) /\ DOMAIN strings' \subseteq DOMAIN strings
        BY <1>1, <1>7 DEF StringsInv
      <3> QED BY <3>1, FS_Subset
    <2>2. DOMAIN strings' \subseteq Address /\ \A x \in DOMAIN strings' : strings'[x] \in Values
      BY <1>1, <1>7 DEF StringsInv
    <2>3. \A u \in DOMAIN tables' : DOMAIN tables'[u] \subseteq Fields
      BY <1>1, <1>6 DEF StringsInv
    <2>4. ASSUME NEW u \in DOMAIN tables', NEW f \in DOMAIN tables'[u]
          PROVE  tables'[u][f] \in DOMAIN strings'
      <3>1. u \in DOMAIN tables /\ u # t /\ tables'[u] = tables[u]
        BY <1>6
      <3>2. tables[u][f] \in DOMAIN strings
        BY <1>1, <3>1 DEF StringsInv
      <3>3. ~Has(t, tables[u][f])
        BY <1>1, <1>2, <3>1 DEF StringsInv, Has
      <3> QED BY <1>7, <3>1, <3>2, <3>3
    <2>5. \A u, w \in DOMAIN tables' :
            \A f \in DOMAIN tables'[u], g \in DOMAIN tables'[w] :
              tables'[u][f] = tables'[w][g] => u = w /\ f = g
      BY <1>1, <1>6 DEF StringsInv
    <2>6. \A u \in DOMAIN tables' : \A x : Has(u, x)' <=> Has(u, x)
      BY <1>6 DEF Has
    <2>7. \A d \in Clients, x \in DOMAIN strings' :
            Frees(d, x)' => \A u \in DOMAIN tables' : ~Has(u, x)'
      BY <1>1, <1>6, <1>7, <1>8, <2>6 DEF StringsInv
    <2>8. \A d, e \in Clients, x \in DOMAIN strings' : Frees(d, x)' /\ Frees(e, x)' => d = e
      BY <1>1, <1>7, <1>8 DEF StringsInv
    <2>9. ASSUME OneWriter, NEW x \in DOMAIN strings'
          PROVE  (\E u \in DOMAIN tables' : Has(u, x)') \/ (\E d \in Clients : Frees(d, x)')
      <3>1. x \in DOMAIN strings /\ ~Has(t, x)
        BY <1>7
      <3>2. CASE \E u \in DOMAIN tables : Has(u, x)
        BY <1>6, <2>6, <3>1, <3>2
      <3>3. CASE \E d \in Clients : Frees(d, x)
        BY <1>8, <3>3
      <3> QED BY <1>1, <2>9, <3>1, <3>2, <3>3 DEF StringsInv
    <2>10. ASSUME NEW d \in Clients, cl'[d].pc = "free"
           PROVE  \A f \in DOMAIN cl'[d].ptrs : cl'[d].ptrs[f] \in DOMAIN strings'
      <3>1. cl'[d] = cl[d] /\ cl[d].pc = "free"
        BY <1>8, <2>10
      <3>2. \A f \in DOMAIN cl[d].ptrs : Frees(d, cl[d].ptrs[f]) /\ cl[d].ptrs[f] \in DOMAIN strings
        BY <1>1, <3>1 DEF Frees, StringsInv
      <3>3. \A f \in DOMAIN cl[d].ptrs : ~Has(t, cl[d].ptrs[f])
        BY <1>1, <1>2, <3>2 DEF StringsInv
      <3> QED BY <1>1, <1>7, <3>1, <3>2, <3>3 DEF StringsInv
    <2>11. OneWriter' <=> OneWriter
      BY <1>4, SameWorkload
    <2> QED BY <2>1, <2>2, <2>3, <2>4, <2>5, <2>7, <2>8, <2>9, <2>10, <2>11 DEF StringsInv
  <1>11. Writing(c) /\ Kept(c)
    BY <1>0, <1>2, <1>6, <1>8 DEF Writing, Kept
  <1>12. calls' \in 0..MaxCalls
    BY DEF HashtableInv, CallsInv
  <1> QED BY <1>0, <1>4, <1>9, <1>10, <1>11, <1>12, Together

-----------------------------------------------------------------------------
(* The theorems *)

LEMMA HashtableInit == Init => HashtableInv
  <1> SUFFICES ASSUME Init PROVE HashtableInv
    OBVIOUS
  <1>1. CallsInv
    BY HashtableAssumption DEF Init, CallsInv
  <1>2. ClientsInv /\ PlacesInv /\ PointersInv
    <2>1. DOMAIN cl = Clients /\ \A c \in Clients : cl[c] = Idle
      BY DEF Init
    <2>2. ASSUME NEW c \in Clients PROVE Typed(c)
      <3>1. cl[c] = Idle
        BY <2>1
      <3> QED BY <3>1 DEF Typed, Idle, NoCall
    <2>3. \A c \in Clients : Placed(c) /\ Pointing(c)
      BY <2>1 DEF Placed, Pointing, Missing, Idle, NoCall
    <2> QED BY <2>1, <2>2, <2>3 DEF ClientsInv, PlacesInv, PointersInv
  <1>3. AnswersInv
    BY DEF Init, AnswersInv, NoAnswer
  <1>4. DOMAIN key_table = {} /\ DOMAIN tables = {} /\ DOMAIN strings = {} /\ IsFiniteSet({})
    BY FS_EmptySet DEF Init
  <1>5. \A c \in Clients : cl[c].pc = "idle"
    BY DEF Init, Idle
  <1>6. TablesInv /\ StringsInv
    BY <1>4, <1>5 DEF TablesInv, StringsInv
  <1> QED BY <1>1, <1>2, <1>3, <1>6 DEF HashtableInv

LEMMA HashtableStep == HashtableInv /\ [Next]_vars => HashtableInv'
  <1> SUFFICES ASSUME HashtableInv, [Next]_vars PROVE HashtableInv'
    OBVIOUS
  <1>1. ASSUME NEW c \in Clients, Call(c) PROVE HashtableInv'
    BY <1>1, CallStep
  <1>2. ASSUME NEW c \in Clients, Step(c), UNCHANGED calls PROVE HashtableInv'
    <2>1. CASE ReadGet(c)
      BY <1>2, <2>1, ReadGetStep
    <2>2. CASE ScanEntries(c)
      BY <1>2, <2>2, ScanEntriesStep
    <2>3. CASE RowPointers(c)
      BY <1>2, <2>3, RowPointersStep
    <2>4. CASE RowCopy(c)
      BY <1>2, <2>4, RowCopyStep
    <2>5. CASE ReadReturn(c) \/ FillConflict(c) \/ WriteReturn(c)
      BY <1>2, <2>5, ReturnStep
    <2>6. CASE WriteGet(c)
      BY <1>2, <2>6, WriteGetStep
    <2>7. CASE Link(c)
      BY <1>2, <2>7, LinkStep
    <2>8. CASE Fill(c)
      <3>1. cl[c].pc = "fill" /\ cl[c].vals # << >> /\ InsertString(c, "fill")
        BY <2>8 DEF Fill
      <3> QED BY <1>2, <3>1, InsertStringStep
    <2>9. CASE Overwrite(c)
      BY <1>2, <2>9, OverwriteStep
    <2>10. CASE FreeOld(c)
      BY <1>2, <2>10, FreeOldStep
    <2>11. CASE UpdateMisses(c)
      BY <1>2, <2>11, UpdateMissesStep
    <2>12. CASE DeleteRemove(c)
      BY <1>2, <2>12, DeleteRemoveStep
    <2>13. CASE DeleteTable(c)
      BY <1>2, <2>13, DeleteTableStep
    <2>14. CASE FillLeak(c)
      BY <1>2, <2>14, LeakStringStep DEF FillLeak, At
    <2>15. CASE InsertMissed(c)
      <3>1. cl[c].pc = "insert" /\ cl[c].vals # << >>
        BY <2>15 DEF InsertMissed, At, HashtableInv, PlacesInv, Placed
      <3> QED BY <1>2, <2>15, <3>1, InsertStringStep, LeakStringStep DEF InsertMissed
    <2> QED BY <1>2, <2>1, <2>2, <2>3, <2>4, <2>5, <2>6, <2>7, <2>8, <2>9, <2>10, <2>11, <2>12,
               <2>13, <2>14, <2>15 DEF Step
  <1>3. CASE UNCHANGED vars
    <2>0. UNCHANGED <<workload, key_table, tables, strings, cl, ans, seen, calls>>
      BY <1>3 DEF vars
    <2>1. CallsInv' /\ ClientsInv' /\ AnswersInv' /\ PlacesInv'
      BY <2>0 DEF HashtableInv, CallsInv, ClientsInv, Typed, AnswersInv, PlacesInv, Placed
    <2>2. PointersInv'
      <3> SUFFICES ASSUME NEW c \in Clients PROVE Pointing(c)'
        BY DEF PointersInv
      <3>1. Pointing(c)
        BY DEF HashtableInv, PointersInv
      <3>2. (Points(c)' <=> Points(c)) /\ (Copies(c)' <=> Copies(c))
        BY <2>0 DEF Points, Copies
      <3>3. (Filling(c)' <=> Filling(c)) /\ (Overwritten(c)' <=> Overwritten(c))
        BY <2>0 DEF Filling, Drops, Overwritten, Visited
      <3>4. (Missing(c)' <=> Missing(c)) /\ (OneWriter' <=> OneWriter)
        BY <2>0, <3>2 DEF Missing, OneWriter, Writes
      <3> QED BY <2>0, <3>1, <3>2, <3>3, <3>4 DEF Pointing
    <2>3. TablesInv' /\ StringsInv'
      BY <2>0 DEF HashtableInv, TablesInv, StringsInv, OneWriter, Writes, Drops, Frees, Has
    <2> QED BY <2>1, <2>2, <2>3 DEF HashtableInv
  <1> QED BY <1>1, <1>2, <1>3 DEF Next, Over

LEMMA HashtableInvariant == Spec => []HashtableInv
  BY HashtableInit, HashtableStep, PTL DEF Spec

\* Every variable keeps its type: what the hashtables hold is addresses and
\* values, and a client's step is one of those of its operation.
THEOREM HashtableTypeCorrect == Spec => []HashtableTypeOK
  BY HashtableInvariant, ImpliesTypes, PTL

\* For any clients that read, scan, insert and update shared keys at once:
\* Insert, Update and Scan go on with field tables that are still there, Update
\* frees a string that was not freed, and Read and Scan copy from strings that
\* are still there, unless another client may update the record, which is when
\* DeleteString (db/hashtable_db.cc:91) can come between.
THEOREM PointersStayLive == Spec => []PointersAreLive
  BY HashtableInvariant, ImpliesLive, PTL

\* Whoever shares a key, no string and no field table is freed twice; and if no
\* two clients write one key, none is lost, for any number of clients, keys and
\* fields.
THEOREM EverythingHasOneOwner == Spec => []OneOwner
  BY HashtableInvariant, ImpliesOneOwner, PTL
=============================================================================
