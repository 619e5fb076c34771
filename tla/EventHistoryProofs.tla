--------------------------- MODULE EventHistoryProofs ---------------------------
(* Theorems about EventHistory, for any projects, events, pages and limits.  *)
EXTENDS EventHistory, FiniteSetTheorems, TLAPS

USE MaxEventsAssumption, PagesAssumption

-----------------------------------------------------------------------------
(* Places on a list of rows: s is a finite set of rows with ids of their     *)
(* own, and the place of a row is the number of newer ones.                  *)

IsList(s) == /\ IsFiniteSet(s)
             /\ \A e \in s : e.id \in Nat
             /\ \A e, f \in s : e.id = f.id => e = f
Above(s, e) == {f \in s : f.id > e.id}
Rank(s, e) == Cardinality(Above(s, e))

LEMMA RankIsNatural ==
  ASSUME NEW s, IsFiniteSet(s), NEW e
  PROVE  IsFiniteSet(Above(s, e)) /\ Rank(s, e) \in Nat /\ Rank(s, e) <= Cardinality(s)
  BY FS_Subset, FS_CardinalityType DEF Above, Rank

LEMMA RankIsBelowSize ==
  ASSUME NEW s, IsList(s), NEW e \in s
  PROVE  Rank(s, e) < Cardinality(s)
  <1>1. Above(s, e) \union {e} \subseteq s /\ e \notin Above(s, e)
    BY DEF IsList, Above
  <1>2. Cardinality(Above(s, e) \union {e}) = Rank(s, e) + 1
    BY <1>1, RankIsNatural, FS_AddElement DEF IsList, Rank
  <1>3. Cardinality(Above(s, e) \union {e}) <= Cardinality(s)
    BY <1>1, FS_Subset DEF IsList
  <1> QED BY <1>2, <1>3, RankIsNatural, FS_CardinalityType DEF IsList

(* A newer row has a place before that of an older one.                      *)
LEMMA RankOrders ==
  ASSUME NEW s, IsList(s), NEW e \in s, NEW f \in s, e.id > f.id
  PROVE  Rank(s, e) < Rank(s, f)
  <1>1. Above(s, e) \union {e} \subseteq Above(s, f) /\ e \notin Above(s, e)
    BY DEF IsList, Above
  <1>2. Cardinality(Above(s, e) \union {e}) = Rank(s, e) + 1
    BY <1>1, RankIsNatural, FS_AddElement DEF IsList, Rank
  <1>3. Cardinality(Above(s, e) \union {e}) <= Rank(s, f)
    BY <1>1, RankIsNatural, FS_Subset DEF IsList, Rank
  <1> QED BY <1>2, <1>3, RankIsNatural DEF IsList

LEMMA RankDistinguishes ==
  ASSUME NEW s, IsList(s), NEW e \in s, NEW f \in s, Rank(s, e) = Rank(s, f)
  PROVE  e = f
  <1>1. e.id \in Nat /\ f.id \in Nat /\ (e.id = f.id => e = f)
    BY DEF IsList
  <1>2. ~(e.id > f.id) /\ ~(f.id > e.id)
    BY RankOrders, RankIsNatural DEF IsList
  <1> QED BY <1>1, <1>2

(* Every place before that of a row is the place of another.                 *)
LEMMA RanksAreDense ==
  ASSUME NEW s, IsList(s), NEW e \in s, NEW n \in Nat, n < Rank(s, e)
  PROVE  \E f \in s : Rank(s, f) = n
  <1> DEFINE g == [f \in Above(s, e) |-> Rank(s, f)]
             T == 0..(Rank(s, e) - 1)
  <1>1. \A f \in Above(s, e) : f \in s /\ Rank(s, f) \in T
    <2> SUFFICES ASSUME NEW f \in Above(s, e) PROVE f \in s /\ Rank(s, f) \in T
      OBVIOUS
    <2>1. f \in s /\ f.id > e.id
      BY DEF Above
    <2> QED BY <2>1, RankOrders, RankIsNatural DEF IsList
  <1>2. \A f, h \in Above(s, e) : Rank(s, f) = Rank(s, h) => f = h
    BY <1>1, RankDistinguishes
  <1>3. g \in Injection(Above(s, e), T)
    BY <1>1, <1>2 DEF Injection, IsInjective
  <1>4. IsFiniteSet(T) /\ Cardinality(T) = Rank(s, e)
    <2>1. PICK last \in Int : last = Rank(s, e) - 1
      BY RankIsNatural DEF IsList
    <2>2. IsFiniteSet(0..last) /\ Cardinality(0..last) = IF 0 > last THEN 0 ELSE last - 0 + 1
      BY FS_Interval
    <2> QED BY <2>1, <2>2, RankIsNatural DEF IsList
  <1>5. g \in Surjection(Above(s, e), T)
    BY <1>3, <1>4, FS_Injection DEF Rank
  <1>6. n \in T
    BY RankIsNatural DEF IsList
  <1>7. \E f \in Above(s, e) : g[f] = n
    BY <1>5, <1>6 DEF Surjection
  <1> QED BY <1>1, <1>7

(* Places from..to-1 are all taken if some row comes at to or later.         *)
LEMMA WindowIsFull ==
  ASSUME NEW s, IsList(s), NEW from \in Nat, NEW to \in Nat, from <= to,
         NEW e \in s, Rank(s, e) >= to
  PROVE  Cardinality({f \in s : from <= Rank(s, f) /\ Rank(s, f) < to}) = to - from
  <1> DEFINE W == {f \in s : from <= Rank(s, f) /\ Rank(s, f) < to}
             T == from..(to - 1)
             g == [f \in W |-> Rank(s, f)]
  <1>1. \A f \in W : f \in s /\ Rank(s, f) \in T
    BY RankIsNatural DEF IsList
  <1>2. \A f, h \in W : Rank(s, f) = Rank(s, h) => f = h
    BY RankDistinguishes
  <1>3. g \in Injection(W, T)
    BY <1>1, <1>2 DEF Injection, IsInjective
  <1>4. ASSUME NEW n \in T PROVE \E f \in W : g[f] = n
    <2>1. n \in Nat /\ n < Rank(s, e)
      BY RankIsNatural DEF IsList
    <2>2. PICK f \in s : Rank(s, f) = n
      BY <2>1, RanksAreDense
    <2> QED BY <2>2
  <1>5. g \in Surjection(W, T)
    BY <1>3, <1>4 DEF Injection, Surjection
  <1>6. IsFiniteSet(T) /\ Cardinality(T) = to - from
    <2>1. PICK last \in Int : last = to - 1
      OBVIOUS
    <2>2. IsFiniteSet(from..last) /\ Cardinality(from..last) = IF from > last THEN 0 ELSE last - from + 1
      BY FS_Interval
    <2> QED BY <2>1, <2>2
  <1> QED BY <1>3, <1>5, <1>6, FS_Injection

-----------------------------------------------------------------------------
(* Type correctness.                                                         *)

TypeInv ==
  /\ TypeOK
  /\ reader.pc = None => reader.of = None /\ reader.page = 0
  /\ reader.pc = "done" => reader.page >= 1

RowsTo(n) == [id : 1..n, project : Projects]
Readers(n, k) ==
  [of : Lists \union {None}, pc : {None, "find", "count", "done"}, page : Int, limit : Limits \union {0},
   owed : SUBSET RowsTo(n), seen : SUBSET RowsTo(n), repeats : Nat, since : 0..k]

LEMMA ReaderIsTyped ==
  ASSUME TypeInv
  PROVE  /\ begun \in Nat /\ begun <= MaxEvents /\ added \in Nat /\ deleted \subseteq Projects
         /\ events \subseteq RowsTo(begun) /\ pending \subseteq RowsTo(begun)
         /\ \A e \in pending \union events : e.project \notin deleted
         /\ pending \intersect (events \union reader.owed \union reader.seen) = {}
         /\ \A e, f \in pending \union events : e.id = f.id => e = f
         /\ reader \in Readers(begun, added)
         /\ reader.limit \in Int /\ reader.page \in Int
  <1>1. reader \in Readers(begun, added)
    BY DEF TypeInv, TypeOK, Readers, Rows, RowsTo
  <1>2. Limits \union {0} \subseteq Int
    OBVIOUS
  <1>3. reader.limit \in Limits \union {0} /\ reader.page \in Int
    BY <1>1 DEF Readers
  <1>4. begun \in 0..MaxEvents
    BY DEF TypeInv, TypeOK
  <1>5. begun \in Nat /\ begun <= MaxEvents
    BY <1>4
  <1>7. added \in Nat
    BY DEF TypeInv, TypeOK
  <1>8. /\ deleted \subseteq Projects
        /\ events \subseteq RowsTo(begun) /\ pending \subseteq RowsTo(begun)
        /\ \A e \in pending \union events : e.project \notin deleted
        /\ pending \intersect (events \union reader.owed \union reader.seen) = {}
        /\ \A e, f \in pending \union events : e.id = f.id => e = f
    BY DEF TypeInv, TypeOK, Rows, RowsTo
  <1>9. reader.limit \in Int
    BY <1>2, <1>3
  <1> QED BY <1>1, <1>3, <1>5, <1>7, <1>8, <1>9

(* The rows are finitely many, because their ids are; a list of them is one. *)
LEMMA RowsAreFinite == TypeOK => IsFiniteSet(events)
  <1> SUFFICES ASSUME TypeOK PROVE IsFiniteSet(events)
    OBVIOUS
  <1> DEFINE g == [e \in events |-> e.id]
  <1>1. \A e \in events : e.id \in 1..begun
    BY DEF TypeOK, Rows
  <1>2. g \in Injection(events, 1..begun)
    BY <1>1 DEF TypeOK, Injection, IsInjective
  <1>3. begun \in Int
    BY DEF TypeOK
  <1>4. IsFiniteSet(1..begun)
    BY <1>3, FS_Interval
  <1> QED BY <1>2, <1>4, FS_Injection

LEMMA FoundIsList ==
  ASSUME TypeOK, NEW list
  PROVE  IsList(Found(list))
  <1>1. Found(list) \in SUBSET events
    BY DEF Found
  <1>2. IsFiniteSet(Found(list))
    BY <1>1, RowsAreFinite, FS_Subset
  <1>3. begun \in Nat /\ \A e \in Found(list) : e.id \in 1..begun
    BY <1>1 DEF TypeOK, Rows
  <1> QED BY <1>1, <1>2, <1>3 DEF IsList, TypeOK

LEMMA PlaceIsRank ==
  ASSUME NEW list, NEW e
  PROVE  Newer(list, e) = Above(Found(list), e) /\ Place(list, e) = Rank(Found(list), e)
  BY DEF Newer, Above, Place, Rank

LEMMA LimitIsPositive ==
  ASSUME NEW limit \in Int
  PROVE  validLimit(limit) \in Nat /\ validLimit(limit) >= 1
  BY DEF validLimit

LEMMA TakenIsFound ==
  ASSUME TypeOK, NEW page, NEW limit
  PROVE  /\ Take(page, limit) \subseteq Found(reader.of)
         /\ Take(page, limit) \subseteq RowsTo(begun)
         /\ IsFiniteSet(Take(page, limit))
  <1>1. Take(page, limit) \subseteq Found(reader.of) /\ Take(page, limit) \subseteq events
    BY DEF Take, Window, Found
  <1>2. Take(page, limit) \subseteq RowsTo(begun)
    BY <1>1 DEF TypeOK, Rows, RowsTo
  <1> QED BY <1>1, <1>2, FoundIsList, FS_Subset DEF IsList

(* A page read, field by field.                                              *)
LEMMA FindEffect ==
  ASSUME TypeInv, Find
  PROVE  LET got == Take(reader.page, reader.limit)
         IN /\ reader.pc = "find" /\ reader'.pc \in {"count", "done"}
            /\ Cardinality(got) >= validLimit(reader.limit) => reader'.pc = "count"
            /\ reader'.page = validPage(reader.page) /\ reader'.seen = reader.seen \union got
            /\ reader'.repeats = reader.repeats + Cardinality(got \intersect reader.seen)
            /\ reader'.of = reader.of /\ reader'.limit = reader.limit /\ reader'.owed = reader.owed
            /\ reader'.since = reader.since
            /\ reader' \in Readers(begun, added)
            /\ UNCHANGED <<begun, pending, added, events, deleted>>
  <1> DEFINE got == Take(reader.page, reader.limit)
             seen == reader.seen \union got
             again == reader.repeats + Cardinality(got \intersect reader.seen)
             page == validPage(reader.page)
  <1>1. PICK pc \in {"count", "done"} :
          /\ reader' = [reader EXCEPT !.pc = pc, !.page = page, !.seen = seen, !.repeats = again]
          /\ got # {} /\ Cardinality(got) >= validLimit(reader.limit) => pc = "count"
    BY DEF Find
  <1>0. Cardinality(got) >= validLimit(reader.limit) => got # {}
    <2>1. PICK n \in Nat : n = validLimit(reader.limit) /\ n >= 1
      BY ReaderIsTyped, LimitIsPositive
    <2>2. Cardinality({}) = 0
      BY FS_EmptySet
    <2> HIDE DEF got
    <2> QED BY <2>1, <2>2
  <1>2. reader \in Readers(begun, added) /\ added \in Nat
    BY ReaderIsTyped
  <1>3. reader.pc = "find" /\ UNCHANGED <<begun, pending, added, events, deleted>>
    BY DEF Find
  <1> HIDE DEF got, seen, again, page
  <1>4. /\ reader'.pc = pc /\ reader'.page = page /\ reader'.seen = seen /\ reader'.repeats = again
        /\ reader'.of = reader.of /\ reader'.limit = reader.limit /\ reader'.owed = reader.owed
        /\ reader'.since = reader.since
    BY <1>1, <1>2 DEF Readers
  <1>5. page \in Int /\ seen \in SUBSET RowsTo(begun) /\ again \in Nat
    <2>1. got \subseteq RowsTo(begun) /\ IsFiniteSet(got \intersect reader.seen)
      BY TakenIsFound, FS_Intersection DEF TypeInv, got
    <2>2. Cardinality(got \intersect reader.seen) \in Nat
      BY <2>1, FS_CardinalityType
    <2>3. reader.seen \subseteq RowsTo(begun) /\ reader.repeats \in Nat /\ reader.page \in Int
      BY <1>2 DEF Readers
    <2> QED BY <2>1, <2>2, <2>3 DEF page, seen, again, validPage
  <1>6. [reader EXCEPT !.pc = pc] \in Readers(begun, added)
    BY <1>2 DEF Readers
  <1>7. PICK r \in Readers(begun, added) : r = [reader EXCEPT !.pc = pc]
    BY <1>6
  <1>8. PICK q \in Readers(begun, added) : q = [r EXCEPT !.page = page]
    BY <1>5, <1>7 DEF Readers
  <1>9. PICK t \in Readers(begun, added) : t = [q EXCEPT !.seen = seen]
    BY <1>5, <1>8 DEF Readers
  <1>10. [t EXCEPT !.repeats = again] \in Readers(begun, added)
    BY <1>5, <1>9 DEF Readers
  <1>11. reader' = [t EXCEPT !.repeats = again]
    BY <1>1, <1>7, <1>8, <1>9
  <1> QED BY <1>0, <1>1, <1>3, <1>4, <1>10, <1>11 DEF got, seen, again, page

LEMMA CountEffect ==
  ASSUME TypeInv, Count
  PROVE  /\ reader.pc = "count"
         /\ \/ reader'.pc = "find" /\ reader'.page = reader.page + 1
            \/ /\ ~(reader.page < totalPages(Cardinality(Found(reader.of)), reader.limit))
               /\ reader'.pc = "done" /\ reader'.page = reader.page
         /\ reader'.seen = reader.seen /\ reader'.repeats = reader.repeats
         /\ reader'.of = reader.of /\ reader'.limit = reader.limit /\ reader'.owed = reader.owed
         /\ reader'.since = reader.since
         /\ reader' \in Readers(begun, added)
         /\ UNCHANGED <<begun, pending, added, events, deleted>>
  <1>1. reader \in Readers(begun, added) /\ reader.page \in Int
    BY ReaderIsTyped
  <1>2. PICK n : n = totalPages(Cardinality(Found(reader.of)), reader.limit)
    OBVIOUS
  <1>3. reader.pc = "count" /\ UNCHANGED <<begun, pending, added, events, deleted>>
    BY DEF Count
  <1>4. CASE reader.of \in Projects \/ reader.page < n
    <2> DEFINE page == reader.page + 1
    <2>0. page \in Int
      BY <1>1
    <2> HIDE DEF page
    <2>1. reader' = [reader EXCEPT !.pc = "find", !.page = page]
      BY <1>2, <1>4 DEF Count, page
    <2>2. PICK r \in Readers(begun, added) : r = [reader EXCEPT !.pc = "find"]
      BY <1>1 DEF Readers
    <2>3. [r EXCEPT !.page = page] \in Readers(begun, added)
      BY <2>0, <2>2 DEF Readers
    <2>4. reader' = [r EXCEPT !.page = page]
      BY <2>1, <2>2
    <2>5. /\ reader'.pc = "find" /\ reader'.page = page
          /\ reader'.seen = reader.seen /\ reader'.repeats = reader.repeats
          /\ reader'.of = reader.of /\ reader'.limit = reader.limit /\ reader'.owed = reader.owed
          /\ reader'.since = reader.since
      BY <1>1, <2>1 DEF Readers
    <2> QED BY <1>2, <1>3, <1>4, <2>3, <2>4, <2>5 DEF page
  <1>5. CASE ~(reader.of \in Projects \/ reader.page < n)
    <2>1. reader' = [reader EXCEPT !.pc = "done"]
      BY <1>2, <1>5 DEF Count
    <2>2. /\ reader'.pc = "done" /\ reader'.page = reader.page
          /\ reader'.seen = reader.seen /\ reader'.repeats = reader.repeats
          /\ reader'.of = reader.of /\ reader'.limit = reader.limit /\ reader'.owed = reader.owed
          /\ reader'.since = reader.since /\ reader' \in Readers(begun, added)
      BY <1>1, <2>1 DEF Readers
    <2> QED BY <1>2, <1>3, <1>5, <2>2
  <1> QED BY <1>4, <1>5

LEMMA TypeInit == Init => TypeInv
  <1> SUFFICES ASSUME Init PROVE TypeInv
    OBVIOUS
  <1>1. reader \in Readers(0, 0) /\ begun = 0 /\ added = 0
    BY DEF Init, Readers
  <1>2. reader.pc = None /\ reader.of = None /\ reader.page = 0 /\ pending = {} /\ events = {} /\ deleted = {}
    BY DEF Init
  <1> QED BY <1>1, <1>2 DEF TypeInv, TypeOK, Readers, RowsTo, Rows, None

LEMMA TypeStep == TypeInv /\ [Next]_vars => TypeInv'
  <1> SUFFICES ASSUME TypeInv, [Next]_vars PROVE TypeInv'
    OBVIOUS
  <1>0. /\ begun \in Nat /\ begun <= MaxEvents /\ added \in Nat /\ deleted \subseteq Projects
        /\ events \subseteq RowsTo(begun) /\ pending \subseteq RowsTo(begun)
        /\ \A e \in pending \union events : e.project \notin deleted
        /\ pending \intersect (events \union reader.owed \union reader.seen) = {}
        /\ \A e, f \in pending \union events : e.id = f.id => e = f
        /\ reader \in Readers(begun, added)
    BY ReaderIsTyped
  <1>1. ASSUME NEW p \in Projects, addEvent(p) PROVE TypeInv'
    <2> DEFINE new == [id |-> begun + 1, project |-> p]
    <2>1. /\ begun' = begun + 1 /\ begun' \in 0..MaxEvents /\ UNCHANGED <<added, events, deleted, reader>>
          /\ pending' = pending \union {new} /\ p \notin deleted
      BY <1>0, <1>1 DEF addEvent
    <2>2. RowsTo(begun) \subseteq RowsTo(begun') /\ new \in RowsTo(begun') /\ new \notin RowsTo(begun)
      BY <1>0, <2>1 DEF RowsTo
    <2>3. pending' \union events' \subseteq {e \in Rows' : e.project \notin deleted'}
      BY <1>0, <2>1, <2>2 DEF Rows, RowsTo
    <2>4. reader.owed \subseteq RowsTo(begun) /\ reader.seen \subseteq RowsTo(begun)
      BY <1>0 DEF Readers
    <2>5. pending' \intersect (events' \union reader'.owed \union reader'.seen) = {}
      BY <1>0, <2>1, <2>2, <2>4
    <2>6. \A e \in pending \union events : e.id # new.id
      BY <1>0 DEF RowsTo
    <2>7. \A e, f \in pending' \union events' : e.id = f.id => e = f
      BY <1>0, <2>1, <2>6
    <2>8. reader' \in Readers(begun', added')
      BY <1>0, <2>1, <2>2 DEF Readers
    <2> QED BY <1>0, <2>1, <2>3, <2>5, <2>7, <2>8 DEF TypeInv, TypeOK, Readers, Rows, RowsTo
  <1>2. ASSUME NEW e \in pending, Commit(e) PROVE TypeInv'
    <2>1. /\ pending' = pending \ {e} /\ added' = added + 1 /\ events' = events \union {e}
          /\ UNCHANGED <<begun, deleted, reader>>
      BY <1>2 DEF Commit
    <2>2. added' \in Nat
      BY <1>0, <2>1
    <2>3. reader' \in Readers(begun', added')
      BY <1>0, <2>1 DEF Readers
    <2>4. pending' \union events' \subseteq {f \in Rows' : f.project \notin deleted'}
      BY <1>0, <2>1 DEF Rows, RowsTo
    <2> QED BY <1>0, <2>1, <2>2, <2>3, <2>4 DEF TypeInv, TypeOK, Readers, Rows, RowsTo
  <1>3. ASSUME NEW p \in Projects, DeleteProject(p) PROVE TypeInv'
    BY <1>3 DEF TypeInv, TypeOK, DeleteProject, Rows
  <1>4. ASSUME NEW list \in Lists, NEW page \in Pages, NEW limit \in Limits, StartReading(list, page, limit)
        PROVE  TypeInv'
    <2>1. Found(list) \subseteq RowsTo(begun) /\ page \in Int /\ added \in 0..added
      BY <1>0 DEF Found
    <2>2. reader' \in Readers(begun, added) /\ reader'.pc = "find" /\ reader'.owed = Found(list) /\ reader'.seen = {}
      BY <1>4, <2>1 DEF StartReading, Readers
    <2>3. pending \intersect (events \union reader'.owed \union reader'.seen) = {}
      BY <1>0, <2>2 DEF Found
    <2> QED BY <1>0, <1>4, <2>2, <2>3 DEF StartReading, TypeInv, TypeOK, Readers, Rows, RowsTo, None
  <1>5. ASSUME Find PROVE TypeInv'
    <2>1. validPage(reader.page) \in Int /\ validPage(reader.page) >= 1
      BY <1>0, ReaderIsTyped DEF validPage
    <2>2. PICK got \in SUBSET events : reader'.seen = reader.seen \union got /\ reader'.owed = reader.owed
      BY <1>5, FindEffect DEF Take, Window, Found
    <2>3. pending \intersect (events \union reader'.owed \union reader'.seen) = {}
      BY <1>0, <2>2
    <2> QED BY <1>0, <1>5, <2>1, <2>3, FindEffect DEF TypeInv, TypeOK, Readers, Rows, RowsTo, None
  <1>6. ASSUME Count PROVE TypeInv'
    <2>1. reader.page >= 1 /\ reader.page \in Int
      BY <1>6, ReaderIsTyped DEF Count, TypeInv, TypeOK
    <2> QED BY <1>0, <1>6, <2>1, CountEffect DEF TypeInv, TypeOK, Readers, Rows, RowsTo, None
  <1>7. CASE UNCHANGED vars
    BY <1>7 DEF vars, TypeInv, TypeOK, Rows
  <1> QED BY <1>1, <1>2, <1>3, <1>4, <1>5, <1>6, <1>7 DEF Next

LEMMA TypeInvariance == Spec => []TypeInv
  BY TypeInit, TypeStep, PTL DEF Spec

(* The rows keep ids of their own and go with their project, and a client    *)
(* that reads has a page to ask for, whatever it asked for first.            *)
THEOREM TypeCorrectness == Spec => []TypeOK
  <1>1. TypeInv => TypeOK
    BY DEF TypeInv
  <1> QED BY <1>1, TypeInvariance, PTL

-----------------------------------------------------------------------------
(* Pages.  Offset is the first place not read yet.                           *)

PerPage == validLimit(reader.limit)
Offset == IF reader.pc = "find" THEN skip(reader.page, reader.limit) ELSE reader.page * PerPage

LEMMA OffsetIsNatural == TypeInv => Offset \in Nat /\ PerPage \in Nat /\ PerPage >= 1
  <1> SUFFICES ASSUME TypeInv PROVE Offset \in Nat /\ PerPage \in Nat /\ PerPage >= 1
    OBVIOUS
  <1>1. PICK n \in Nat : n = PerPage /\ n >= 1
    BY ReaderIsTyped, LimitIsPositive DEF PerPage
  <1>2. PICK p \in Int : p = reader.page
    BY ReaderIsTyped
  <1>3. reader.pc # "find" => p \in Nat
    BY <1>2, ReaderIsTyped DEF TypeInv, TypeOK
  <1>4. PICK q \in Nat : q = validPage(reader.page) - 1
    BY <1>2 DEF validPage
  <1>5. p * n = reader.page * PerPage /\ q * n = skip(reader.page, reader.limit)
    BY <1>1, <1>2, <1>4 DEF skip, PerPage
  <1>6. q * n \in Nat /\ (p \in Nat => p * n \in Nat)
    OBVIOUS
  <1> QED BY <1>1, <1>3, <1>5, <1>6 DEF Offset

-----------------------------------------------------------------------------
(* No event is skipped.  An event owed to the reader that is still there was *)
(* seen, or its place on the list is one the reader has yet to read; once    *)
(* all pages are read there is none.                                         *)

Steady == reader.of \in Projects \/ deleted = {}
Owed(e) ==
  /\ e \in Found(reader.of)
  /\ e \in reader.seen \/ (reader.pc \in {"find", "count"} /\ Place(reader.of, e) >= Offset)
OwedInv == Steady => \A e \in reader.owed \intersect events : Owed(e)

(* Repeats are few.  An event seen before can be read again only when newer  *)
(* ones have moved it behind what was read, each of them one.                *)

Again == {e \in Found(reader.of) \intersect reader.seen : Place(reader.of, e) >= Offset}
RepeatInv == reader.repeats + Cardinality(Again) <= added - reader.since

LEMMA DivisionBounds ==
  ASSUME NEW a \in Nat, NEW b \in Nat, b >= 1
  PROVE  a \div b \in Int /\ a < b * ((a \div b) + 1)
  OBVIOUS

(* The page read next begins where the last one ended.                       *)
LEMMA FindOffset ==
  ASSUME TypeInv, Find
  PROVE  Offset = skip(reader.page, reader.limit) /\ Offset' = Offset + PerPage
  <1>1. PICK n \in Nat : n = PerPage
    BY OffsetIsNatural
  <1>2. PICK p \in Int : p = validPage(reader.page)
    BY ReaderIsTyped DEF validPage
  <1>3. reader.pc = "find" /\ reader'.pc # "find" /\ reader'.page = p /\ PerPage' = PerPage
    BY <1>2, FindEffect DEF PerPage
  <1>4. Offset = (p - 1) * n /\ Offset' = p * n
    BY <1>1, <1>2, <1>3 DEF Offset, skip, PerPage
  <1>5. p * n = (p - 1) * n + n
    OBVIOUS
  <1> QED BY <1>1, <1>3, <1>4, <1>5 DEF Offset

LEMMA CountOffset ==
  ASSUME TypeInv, Count
  PROVE  Offset' = Offset
  <1>1. reader.pc = "count" /\ PerPage' = PerPage /\ reader'.limit = reader.limit
    BY CountEffect DEF PerPage
  <1>2. PICK p \in Int : p = reader.page /\ p >= 1
    BY <1>1, ReaderIsTyped DEF TypeInv, TypeOK
  <1>3. (reader'.pc = "done" /\ reader'.page = p) \/ (reader'.pc = "find" /\ reader'.page = p + 1)
    BY <1>2, CountEffect
  <1>4. validPage(p + 1) - 1 = p
    BY <1>2 DEF validPage
  <1>5. CASE reader'.pc = "done" /\ reader'.page = p
    BY <1>1, <1>2, <1>5 DEF Offset
  <1>6. CASE reader'.pc = "find" /\ reader'.page = p + 1
    BY <1>1, <1>2, <1>4, <1>6 DEF Offset, skip, PerPage
  <1> QED BY <1>3, <1>5, <1>6

(* A client that asks for no further page has read every place.              *)
LEMMA LastPage ==
  ASSUME TypeInv, Count, reader'.pc = "done"
  PROVE  Cardinality(Found(reader.of)) <= Offset
  <1>1. PICK n \in Nat : n = PerPage /\ n >= 1
    BY OffsetIsNatural
  <1>2. PICK t \in Nat : t = Cardinality(Found(reader.of))
    BY FoundIsList, FS_CardinalityType DEF TypeInv, IsList
  <1>3. PICK p \in Int : p = reader.page
    BY ReaderIsTyped
  <1>4. PICK q \in Int : q = (t + n - 1) \div n /\ t + n - 1 < n * (q + 1)
    <2>1. PICK a \in Nat : a = t + n - 1
      BY <1>1
    <2> QED BY <1>1, <2>1, DivisionBounds
  <1>5. q = totalPages(Cardinality(Found(reader.of)), reader.limit)
    BY <1>1, <1>2, <1>4 DEF totalPages, PerPage
  <1>6. reader.pc = "count" /\ ~(p < q)
    BY <1>3, <1>5, CountEffect
  <1>7. q + 1 <= p + 1
    BY <1>6
  <1>8. n * (q + 1) <= n * (p + 1)
    BY <1>7
  <1>9. n * (p + 1) = p * n + n
    OBVIOUS
  <1>10. Offset = p * n
    BY <1>1, <1>3, <1>6 DEF Offset
  <1> QED BY <1>2, <1>4, <1>8, <1>9, <1>10

(* An event committed takes a place of its own, and moves the older ones on  *)
(* its lists by one.                                                         *)
LEMMA CommittedEffect ==
  ASSUME TypeInv, NEW c \in pending, Commit(c), NEW list
  PROVE  \A e \in Found(list)' :
           e = c \/ (e \in Found(list) /\ (Place(list, e)' = Place(list, e) \/ Place(list, e)' = Place(list, e) + 1))
  <1>1. events' = events \union {c}
    BY DEF Commit
  <1>2. \A e \in Found(list)' : e = c \/ e \in Found(list)
    BY <1>1 DEF Found
  <1>3. ASSUME NEW e \in Found(list) PROVE Place(list, e)' = Place(list, e) \/ Place(list, e)' = Place(list, e) + 1
    <2>1. IsFiniteSet(Newer(list, e)) /\ Cardinality(Newer(list, e)) \in Nat
      BY FoundIsList, PlaceIsRank, RankIsNatural, FS_CardinalityType DEF TypeInv, IsList
    <2>2. Newer(list, e)' = Newer(list, e) \/ Newer(list, e)' = Newer(list, e) \union {c}
      BY <1>1 DEF Newer, Found
    <2>3. Cardinality(Newer(list, e)') = Cardinality(Newer(list, e)) \/ Cardinality(Newer(list, e)') = Cardinality(Newer(list, e)) + 1
      BY <2>1, <2>2, FS_AddElement
    <2> QED BY <2>3 DEF Place
  <1> QED BY <1>2, <1>3

(* Where a project is deleted, the other events only move towards the front. *)
LEMMA DeletedEffect ==
  ASSUME TypeInv, NEW p \in Projects, DeleteProject(p), NEW list
  PROVE  /\ Found(list)' = {e \in Found(list) : e.project # p}
         /\ \A e : Place(list, e)' <= Place(list, e) /\ Place(list, e) \in Nat /\ Place(list, e)' \in Nat
  <1>1. Found(list)' = {e \in Found(list) : e.project # p}
    BY DEF DeleteProject, Found
  <1>2. ASSUME NEW e PROVE Place(list, e)' <= Place(list, e) /\ Place(list, e) \in Nat /\ Place(list, e)' \in Nat
    <2>1. IsFiniteSet(Newer(list, e)) /\ Place(list, e) \in Nat
      BY FoundIsList, PlaceIsRank, RankIsNatural DEF TypeInv, IsList
    <2>2. Newer(list, e)' \in SUBSET Newer(list, e)
      BY <1>1 DEF Newer
    <2> QED BY <2>1, <2>2, FS_Subset, FS_CardinalityType DEF Place
  <1> QED BY <1>1, <1>2

LEMMA PlaceIsNatural ==
  ASSUME TypeInv, NEW list, NEW e
  PROVE  Place(list, e) \in Nat
  BY FoundIsList, PlaceIsRank, RankIsNatural DEF TypeInv, IsList

(* What is on no page read so far: with a page that is not full, nothing.    *)
LEMMA ShortPageIsLast ==
  ASSUME TypeInv, Find, reader'.pc = "done", NEW e \in Found(reader.of)
  PROVE  Place(reader.of, e) < Offset + PerPage
  <1>1. Offset \in Nat /\ PerPage \in Nat /\ PerPage >= 1
    BY OffsetIsNatural
  <1>2. SUFFICES ASSUME ~(Place(reader.of, e) < Offset + PerPage) PROVE FALSE
    OBVIOUS
  <1>3. Place(reader.of, e) >= Offset + PerPage
    BY <1>1, <1>2, PlaceIsNatural
  <1>4. PICK to \in Nat : to = Offset + PerPage /\ Offset <= to /\ to - Offset = PerPage
    BY <1>1
  <1>5. Cardinality({f \in Found(reader.of) : Offset <= Rank(Found(reader.of), f) /\ Rank(Found(reader.of), f) < to})
          = to - Offset
    BY <1>1, <1>3, <1>4, FoundIsList, PlaceIsRank, WindowIsFull DEF TypeInv
  <1>6. Take(reader.page, reader.limit) =
          {f \in Found(reader.of) : Offset <= Rank(Found(reader.of), f) /\ Rank(Found(reader.of), f) < to}
    BY <1>4, FindOffset, PlaceIsRank DEF Take, Window, PerPage
  <1>7. Cardinality(Take(reader.page, reader.limit)) = PerPage
    BY <1>4, <1>5, <1>6
  <1>8. Cardinality(Take(reader.page, reader.limit)) >= validLimit(reader.limit)
    BY <1>1, <1>7 DEF PerPage
  <1> QED BY <1>8, FindEffect

LEMMA OwedStep == TypeInv /\ OwedInv /\ [Next]_vars => OwedInv'
  <1> SUFFICES ASSUME TypeInv, OwedInv, [Next]_vars, Steady', NEW e \in (reader.owed \intersect events)'
               PROVE  Owed(e)'
    BY DEF OwedInv
  <1>0. ASSUME NEW p \in Projects, addEvent(p) PROVE Owed(e)'
    <2>1. reader' = reader /\ events' = events /\ deleted' = deleted
      BY <1>0 DEF addEvent
    <2>2. Owed(e)
      BY <2>1 DEF OwedInv, Steady
    <2> QED BY <2>1, <2>2 DEF Owed, Found, Place, Newer, Offset, PerPage
  <1>1. ASSUME NEW c \in pending, Commit(c) PROVE Owed(e)'
    <2>1. reader' = reader /\ deleted' = deleted /\ e \in reader.owed /\ c \notin reader.owed
      BY <1>1, ReaderIsTyped DEF Commit
    <2>2. e \in events /\ e # c
      BY <1>1, <2>1 DEF Commit
    <2>3. Owed(e)
      BY <2>1, <2>2 DEF OwedInv, Steady
    <2>4. e \in Found(reader.of)' /\ (Place(reader.of, e)' = Place(reader.of, e) \/ Place(reader.of, e)' = Place(reader.of, e) + 1)
      <3>1. PICK list : list = reader.of
        OBVIOUS
      <3>2. e \in Found(list)'
        BY <1>1, <2>3, <3>1 DEF Owed, Found, Commit
      <3>3. Place(list, e)' = Place(list, e) \/ Place(list, e)' = Place(list, e) + 1
        BY <1>1, <2>2, <3>2, CommittedEffect
      <3> QED BY <2>1, <3>1, <3>2, <3>3 DEF Found, Place, Newer
    <2>5. Offset' = Offset /\ Offset \in Nat /\ Place(reader.of, e) \in Nat
      BY <2>1, OffsetIsNatural, PlaceIsNatural DEF Offset, PerPage
    <2> QED BY <2>1, <2>3, <2>4, <2>5 DEF Owed
  <1>2. ASSUME NEW p \in Projects, DeleteProject(p) PROVE Owed(e)'
    <2>1. reader' = reader /\ e \in reader.owed /\ e \in events /\ e.project # p /\ deleted' # {}
      BY <1>2 DEF DeleteProject
    <2>2. reader.of \in Projects
      BY <2>1 DEF Steady
    <2>3. Owed(e)
      BY <2>1, <2>2 DEF OwedInv, Steady
    <2>4. reader.of = e.project /\ reader.of # p
      BY <2>1, <2>2, <2>3, ListsAssumption DEF Owed, Found
    <2>5. Found(reader.of)' = Found(reader.of) /\ Place(reader.of, e)' = Place(reader.of, e)
      BY <1>2, <2>1, <2>2, <2>4, ListsAssumption DEF DeleteProject, Found, Place, Newer
    <2> QED BY <2>1, <2>3, <2>5 DEF Owed, Offset, PerPage
  <1>3. ASSUME NEW list \in Lists, NEW page \in Pages, NEW limit \in Limits, StartReading(list, page, limit)
        PROVE  Owed(e)'
    <2>1. /\ reader'.of = list /\ reader'.pc = "find" /\ reader'.page = page /\ reader'.limit = limit
          /\ reader'.owed = Found(list) /\ events' = events
      BY <1>3 DEF StartReading
    <2>2. Offset' = 0
      <3>1. validPage(page) = 1 /\ validLimit(limit) \in Nat
        BY LimitIsPositive DEF validPage
      <3> QED BY <2>1, <3>1 DEF Offset, skip
    <2>3. Found(list)' = Found(list) /\ Place(list, e)' = Place(list, e) /\ Place(list, e) \in Nat
      <3>1. Found(list)' = Found(list)
        BY <2>1 DEF Found
      <3>2. Newer(list, e)' = Newer(list, e)
        BY <3>1 DEF Newer
      <3>3. Place(list, e) \in Nat
        BY PlaceIsNatural
      <3> QED BY <3>1, <3>2, <3>3 DEF Place
    <2>4. e \in Found(reader.of)' /\ Place(reader.of, e)' = Place(list, e)
      BY <2>1, <2>3 DEF Found, Place, Newer
    <2> QED BY <2>1, <2>2, <2>3, <2>4 DEF Owed
  <1>4. ASSUME Find PROVE Owed(e)'
    <2>1. /\ reader'.of = reader.of /\ reader'.owed = reader.owed /\ reader'.pc \in {"count", "done"}
          /\ reader'.seen = reader.seen \union Take(reader.page, reader.limit)
          /\ UNCHANGED <<begun, pending, added, events, deleted>>
      BY <1>4, FindEffect
    <2>2. Owed(e)
      BY <2>1 DEF OwedInv, Steady
    <2>3. e \in Found(reader.of)' /\ Place(reader.of, e)' = Place(reader.of, e) /\ Found(reader.of)' = Found(reader.of)
      BY <2>1, <2>2 DEF Owed, Found, Place, Newer
    <2>4. Offset' = Offset + PerPage /\ Offset = skip(reader.page, reader.limit) /\ Offset \in Nat
          /\ PerPage \in Nat /\ Place(reader.of, e) \in Nat
      BY <1>4, FindOffset, OffsetIsNatural, PlaceIsNatural
    <2>5. CASE e \in reader.seen \/ e \in Take(reader.page, reader.limit)
      BY <2>1, <2>3, <2>5 DEF Owed
    <2>6. CASE e \notin reader.seen /\ e \notin Take(reader.page, reader.limit)
      <3>1. Place(reader.of, e) >= Offset /\ e \in Found(reader.of)
        BY <2>2, <2>6 DEF Owed
      <3>2. ~(Place(reader.of, e) < Offset + PerPage)
        BY <2>4, <2>6, <3>1 DEF Take, Window, PerPage
      <3>3. reader'.pc = "count"
        BY <1>4, <2>1, <3>1, <3>2, ShortPageIsLast
      <3> QED BY <2>3, <2>4, <3>2, <3>3 DEF Owed
    <2> QED BY <2>5, <2>6
  <1>5. ASSUME Count PROVE Owed(e)'
    <2>1. /\ reader'.of = reader.of /\ reader'.owed = reader.owed /\ reader'.pc \in {"find", "done"}
          /\ reader'.seen = reader.seen /\ UNCHANGED <<begun, pending, added, events, deleted>>
      BY <1>5, CountEffect
    <2>2. Owed(e)
      BY <2>1 DEF OwedInv, Steady
    <2>3. e \in Found(reader.of)' /\ Place(reader.of, e)' = Place(reader.of, e)
      BY <2>1, <2>2 DEF Owed, Found, Place, Newer
    <2>4. Offset' = Offset /\ Offset \in Nat
      BY <1>5, CountOffset, OffsetIsNatural
    <2>5. CASE reader'.pc = "find" \/ e \in reader.seen
      BY <2>1, <2>2, <2>3, <2>4, <2>5 DEF Owed
    <2>6. CASE reader'.pc = "done"
      <3>1. Place(reader.of, e) < Cardinality(Found(reader.of))
        <4>1. IsList(Found(reader.of)) /\ e \in Found(reader.of)
          BY <2>2, FoundIsList DEF TypeInv, Owed
        <4> QED BY <4>1, PlaceIsRank, RankIsBelowSize
      <3>2. Cardinality(Found(reader.of)) <= Offset
        BY <1>5, <2>6, LastPage
      <3>3. Cardinality(Found(reader.of)) \in Nat /\ Place(reader.of, e) \in Nat
        BY FoundIsList, FS_CardinalityType, PlaceIsNatural DEF TypeInv, IsList
      <3>4. ~(Place(reader.of, e) >= Offset)
        BY <2>4, <3>1, <3>2, <3>3
      <3>5. e \in reader.seen
        BY <2>2, <3>4 DEF Owed
      <3> QED BY <2>5, <3>5
    <2> QED BY <2>1, <2>5, <2>6
  <1>6. CASE UNCHANGED vars
    <2>1. reader' = reader /\ events' = events /\ deleted' = deleted
      BY <1>6 DEF vars
    <2>2. Owed(e)
      BY <2>1 DEF OwedInv, Steady
    <2> QED BY <2>1, <2>2 DEF Owed, Found, Place, Newer, Offset, PerPage
  <1> QED BY <1>0, <1>1, <1>2, <1>3, <1>4, <1>5, <1>6 DEF Next

(* NoEventIsSkipped: whatever is added, at any place, and for a project's history whatever *)
(* is deleted, between the queries and the pages, whoever reads to the last  *)
(* page has seen what was there from the start, for any size of page.        *)
THEOREM EveryOwedEventIsSeen == Spec => []NoEventIsSkipped
  <1>1. Init => OwedInv
    BY DEF Init, OwedInv
  <1>2. OwedInv => NoEventIsSkipped
    BY DEF OwedInv, NoEventIsSkipped, Steady, Owed
  <1> QED BY <1>1, <1>2, OwedStep, TypeInvariance, PTL DEF Spec

-----------------------------------------------------------------------------
LEMMA AgainIsFinite ==
  ASSUME TypeInv
  PROVE  IsFiniteSet(Again) /\ Cardinality(Again) \in Nat
  <1>1. Again \in SUBSET Found(reader.of)
    BY DEF Again
  <1>2. IsFiniteSet(Again)
    BY <1>1, FoundIsList, FS_Subset DEF TypeInv, IsList
  <1> QED BY <1>2, FS_CardinalityType

(* An event committed moves at most one that was read over the edge.         *)
LEMMA CommittedMovesOne ==
  ASSUME TypeInv, NEW c \in pending, Commit(c)
  PROVE  Cardinality(Again)' <= Cardinality(Again) + 1
  <1>0. PICK list : list = reader.of
    OBVIOUS
  <1> DEFINE edge == {e \in Found(list) : Place(list, e) + 1 = Offset}
  <1>1. /\ reader' = reader /\ Offset' = Offset /\ Offset \in Nat /\ c \notin reader.seen
    BY OffsetIsNatural, ReaderIsTyped DEF Commit, Offset, PerPage
  <1>2. Again' = {e \in Found(list)' \intersect reader.seen : Place(list, e)' >= Offset}
    BY <1>0, <1>1 DEF Again, Found, Place, Newer
  <1>3. Again' \subseteq Again \union edge
    <2> SUFFICES ASSUME NEW e \in Again' PROVE e \in Again \union edge
      OBVIOUS
    <2>1. e \in Found(list)' /\ e \in reader.seen /\ Place(list, e)' >= Offset
      BY <1>2
    <2>2. e \in Found(list) /\ (Place(list, e)' = Place(list, e) \/ Place(list, e)' = Place(list, e) + 1)
      BY <1>1, <2>1, CommittedEffect
    <2>3. Place(list, e) \in Nat
      BY PlaceIsNatural
    <2>4. Place(list, e) >= Offset \/ Place(list, e) + 1 = Offset
      BY <1>1, <2>1, <2>2, <2>3
    <2> QED BY <1>0, <2>1, <2>2, <2>4 DEF Again
  <1>4. \A e, f \in edge : e = f
    <2> SUFFICES ASSUME NEW e \in edge, NEW f \in edge PROVE e = f
      OBVIOUS
    <2>1. Place(list, e) \in Nat /\ Place(list, f) \in Nat
      BY PlaceIsNatural
    <2>2. Rank(Found(list), e) = Rank(Found(list), f)
      BY <1>1, <2>1, PlaceIsRank
    <2> QED BY <2>2, FoundIsList, RankDistinguishes DEF TypeInv
  <1>5. \E e : edge \subseteq {e}
    BY <1>4
  <1>6. PICK e : Again' \subseteq Again \union {e}
    BY <1>3, <1>5
  <1>7. IsFiniteSet(Again \union {e}) /\ Cardinality(Again \union {e}) <= Cardinality(Again) + 1
    <2>1. PICK n \in Nat : n = Cardinality(Again)
      BY AgainIsFinite
    <2>2. /\ IsFiniteSet(Again \union {e})
          /\ \/ Cardinality(Again \union {e}) = n
             \/ Cardinality(Again \union {e}) = n + 1
      BY <2>1, AgainIsFinite, FS_AddElement
    <2> QED BY <2>1, <2>2
  <1>8. Cardinality(Again') <= Cardinality(Again \union {e}) /\ Cardinality(Again') \in Nat
        /\ Cardinality(Again \union {e}) \in Nat
    BY <1>6, <1>7, FS_Subset, FS_CardinalityType
  <1> QED BY <1>7, <1>8, AgainIsFinite

(* What a page repeats is no longer behind it.                               *)
LEMMA FindRepeats ==
  ASSUME TypeInv, Find
  PROVE  Cardinality(Again)' + Cardinality(Take(reader.page, reader.limit) \intersect reader.seen) = Cardinality(Again)
  <1> DEFINE got == Take(reader.page, reader.limit)
  <1>1. /\ reader'.of = reader.of /\ reader'.seen = reader.seen \union got
        /\ UNCHANGED <<begun, pending, added, events, deleted>>
        /\ Offset' = Offset + PerPage /\ Offset = skip(reader.page, reader.limit)
        /\ Offset \in Nat /\ PerPage \in Nat
    BY FindEffect, FindOffset, OffsetIsNatural
  <1>2. PICK F : F = Found(reader.of)
    OBVIOUS
  <1>3. \A e : Place(reader.of, e)' = Place(reader.of, e) /\ Place(reader.of, e) \in Nat
    BY <1>1, PlaceIsNatural DEF Place, Newer, Found
  <1>4. got = {e \in F : Offset <= Place(reader.of, e) /\ Place(reader.of, e) < Offset + PerPage}
    BY <1>1, <1>2 DEF Take, Window, PerPage
  <1>5. Found(reader.of)' = F
    BY <1>1, <1>2 DEF Found
  <1>6. Again' = {e \in F \intersect (reader.seen \union got) : Place(reader.of, e) >= Offset + PerPage}
    BY <1>1, <1>3, <1>5 DEF Again
  <1>7. Again = {e \in F \intersect reader.seen : Place(reader.of, e) >= Offset}
    BY <1>2 DEF Again
  <1> HIDE DEF got
  <1>8. Again' = Again \ got
    BY <1>1, <1>3, <1>4, <1>6, <1>7
  <1>9. got \intersect reader.seen = Again \intersect got
    BY <1>1, <1>3, <1>4, <1>7
  <1>10. Cardinality(Again \ got) = Cardinality(Again) - Cardinality(Again \intersect got)
    BY AgainIsFinite, FS_Difference
  <1>11. Cardinality(Again \intersect got) \in Nat
    BY AgainIsFinite, FS_Intersection, FS_CardinalityType
  <1>12. Cardinality(Again)' = Cardinality(Again \ got)
    BY <1>8
  <1>13. Cardinality(Take(reader.page, reader.limit) \intersect reader.seen) = Cardinality(Again \intersect got)
    BY <1>9 DEF got
  <1> QED BY <1>10, <1>11, <1>12, <1>13, AgainIsFinite

AgainCounted == Cardinality(Again) \in Nat
LEMMA AgainIsCounted == TypeInv' => AgainCounted'
  <1>1. TypeInv => AgainCounted
    BY AgainIsFinite DEF AgainCounted
  <1> QED BY <1>1, PTL

LEMMA RepeatStep == TypeInv /\ RepeatInv /\ [Next]_vars => RepeatInv'
  <1> SUFFICES ASSUME TypeInv, RepeatInv, [Next]_vars PROVE RepeatInv'
    OBVIOUS
  <1>0. /\ Cardinality(Again) \in Nat /\ Cardinality(Again)' \in Nat
        /\ reader.repeats \in Nat /\ reader.since \in Nat /\ added \in Nat
        /\ reader.repeats + Cardinality(Again) <= added - reader.since
    <2>1. TypeInv'
      BY TypeStep
    <2> QED BY <2>1, AgainIsCounted, AgainIsFinite, ReaderIsTyped DEF AgainCounted, RepeatInv, Readers
  <1>1. ASSUME NEW c \in pending, Commit(c) PROVE RepeatInv'
    BY <1>0, <1>1, CommittedMovesOne DEF Commit, RepeatInv
  <1>7. ASSUME NEW p \in Projects, addEvent(p) PROVE RepeatInv'
    BY <1>7 DEF addEvent, RepeatInv, Again, Found, Place, Newer, Offset, PerPage
  <1>2. ASSUME NEW p \in Projects, DeleteProject(p) PROVE RepeatInv'
    <2>1. reader' = reader /\ added' = added /\ Offset' = Offset /\ Offset \in Nat
      BY <1>2, OffsetIsNatural DEF DeleteProject, Offset, PerPage
    <2>2. PICK list : list = reader.of
      OBVIOUS
    <2>3. Again' = {e \in Found(list)' \intersect reader.seen : Place(list, e)' >= Offset}
      BY <2>1, <2>2 DEF Again, Found, Place, Newer
    <2>4. Again = {e \in Found(list) \intersect reader.seen : Place(list, e) >= Offset}
      BY <2>2 DEF Again
    <2>5. Again' \subseteq Again
      BY <1>2, <2>1, <2>3, <2>4, DeletedEffect
    <2>6. Cardinality(Again') <= Cardinality(Again)
      BY <2>5, AgainIsFinite, FS_Subset
    <2> QED BY <1>0, <2>1, <2>6 DEF RepeatInv
  <1>3. ASSUME NEW list \in Lists, NEW page \in Pages, NEW limit \in Limits, StartReading(list, page, limit)
        PROVE  RepeatInv'
    <2>1. reader'.seen = {} /\ reader'.repeats = 0 /\ reader'.since = added /\ added' = added
      BY <1>3 DEF StartReading
    <2>2. Again' = {}
      BY <2>1 DEF Again
    <2> QED BY <1>0, <2>1, <2>2, FS_EmptySet DEF RepeatInv
  <1>4. ASSUME Find PROVE RepeatInv'
    <2>1. PICK n : n = Cardinality(Take(reader.page, reader.limit) \intersect reader.seen)
      OBVIOUS
    <2>2. Cardinality(Again)' + n = Cardinality(Again) /\ n \in Nat
      BY <1>4, <2>1, FindRepeats, TakenIsFound, FS_Intersection, FS_CardinalityType DEF TypeInv
    <2>3. reader'.repeats = reader.repeats + n /\ reader'.since = reader.since /\ added' = added
      BY <1>4, <2>1, FindEffect
    <2> QED BY <1>0, <2>2, <2>3 DEF RepeatInv
  <1>5. ASSUME Count PROVE RepeatInv'
    <2>1. /\ reader'.of = reader.of /\ reader'.seen = reader.seen /\ reader'.repeats = reader.repeats
          /\ reader'.since = reader.since /\ UNCHANGED <<begun, pending, added, events, deleted>> /\ Offset' = Offset
      BY <1>5, CountEffect, CountOffset
    <2>2. Again' = Again
      BY <2>1 DEF Again, Found, Place, Newer
    <2> QED BY <1>0, <2>1, <2>2 DEF RepeatInv
  <1>6. CASE UNCHANGED vars
    BY <1>6 DEF vars, RepeatInv, Again, Found, Place, Newer, Offset, PerPage
  <1> QED BY <1>1, <1>2, <1>3, <1>4, <1>5, <1>6, <1>7 DEF Next

(* RepeatsAreFew: a reader gets an event twice only for an event added since *)
(* it began, whatever the deletions, for any size of page.                   *)
THEOREM RepeatsArePaidFor == Spec => []RepeatsAreFew
  <1>1. Init => RepeatInv
    <2> SUFFICES ASSUME Init PROVE RepeatInv
      OBVIOUS
    <2>1. Again = {} /\ reader.repeats = 0 /\ reader.since = 0 /\ added = 0
      BY DEF Init, Again
    <2> QED BY <2>1, FS_EmptySet DEF RepeatInv
  <1>2. TypeInv /\ RepeatInv => RepeatsAreFew
    <2> SUFFICES ASSUME TypeInv, RepeatInv PROVE RepeatsAreFew
      OBVIOUS
    <2>1. Cardinality(Again) \in Nat /\ reader.repeats \in Nat /\ reader.since \in Nat /\ added \in Nat
      BY AgainIsFinite, ReaderIsTyped DEF Readers
    <2> QED BY <2>1 DEF RepeatInv, RepeatsAreFew
  <1> QED BY <1>1, <1>2, RepeatStep, TypeInvariance, PTL DEF Spec
=============================================================================
