----------------------------- MODULE EventHistory -----------------------------
(* Reading the collaboration events page by page: CollaborationEventService  *)
(* .getProjectHistory (the events of a project) and getUserActivity (those   *)
(* of a user, here the only one, in all projects), newest first.  Each page  *)
(* is a query of its own, followed by another that counts: events are added, *)
(* and projects deleted with theirs, between any two.  An event has the time *)
(* of the start of its transaction, and is seen from the commit on: the row  *)
(* of a slow transaction turns up behind newer ones.                         *)
EXTENDS Integers, FiniteSets

CONSTANTS Projects,
          MaxEvents,    \* bounds how many events are created
          MaxLimit,     \* the most events on a page (100)
          Pages, Limits \* how clients ask for the first page

ASSUME MaxEventsAssumption == MaxEvents \in Nat
ASSUME PagesAssumption == MaxLimit \in Nat \ {0} /\ (\A page \in Pages : page \in Int /\ page < 2) /\ Limits \subseteq Int

VARIABLES begun,   \* the number of transactions begun to add an event
          pending, \* the rows of those not committed, numbered by createdAt
          added,   \* the number of events ever committed
          events,  \* the rows of collaboration_events to be seen
          deleted, \* projects deleted
          reader   \* a client that reads all pages of one list

vars == <<begun, pending, added, events, deleted, reader>>

None == "none"
Activity == "activity"
Lists == Projects \union {Activity}

\* Ids of projects are uuids.
ASSUME ListsAssumption == {None, Activity} \intersect Projects = {}

Init ==
  /\ begun = 0 /\ pending = {} /\ added = 0 /\ events = {} /\ deleted = {}
  /\ reader = [of |-> None, pc |-> None, page |-> 0, limit |-> 0, owed |-> {}, seen |-> {},
               repeats |-> 0, since |-> 0]

(* where.                                                                    *)
Found(list) == {e \in events : list \in {Activity, e.project}}

(* order: { createdAt: 'DESC' }.  The place of an event on a list, from 0.   *)
Newer(list, e) == {f \in Found(list) : f.id > e.id}
Place(list, e) == Cardinality(Newer(list, e))

validPage(page) == IF page < 1 THEN 1 ELSE page
validLimit(limit) == IF limit < 1 THEN 1 ELSE IF limit > MaxLimit THEN MaxLimit ELSE limit

(* Mutant: pages are counted from 0.                                         *)
skipFromZero(page, limit) == validPage(page) * validLimit(limit)
skip(page, limit) == (validPage(page) - 1) * validLimit(limit)

(* OFFSET and LIMIT.                                                         *)
Window(list, from, to) == {e \in Found(list) : from <= Place(list, e) /\ Place(list, e) < to}

(* Mutant: one event more, to see whether there is another page.             *)
TakeOneMore(page, limit) ==
  Window(reader.of, skip(page, limit), skip(page, limit) + validLimit(limit) + 1)
Take(page, limit) ==
  Window(reader.of, skip(page, limit), skip(page, limit) + validLimit(limit))
totalPages(total, limit) == (total + validLimit(limit) - 1) \div validLimit(limit)

-----------------------------------------------------------------------------
(* save: the transaction starts, and with it the row's createdAt (now())     *)
(* stands.                                                                   *)
addEvent(p) ==
  /\ p \notin deleted /\ begun < MaxEvents
  /\ begun' = begun + 1
  /\ pending' = pending \union {[id |-> begun + 1, project |-> p]}
  /\ UNCHANGED <<added, events, deleted, reader>>

(* The row is inserted and committed.  One that is not was never added.      *)
Commit(e) ==
  /\ pending' = pending \ {e}
  /\ added' = added + 1
  /\ events' = events \union {e}
  /\ UNCHANGED <<begun, deleted, reader>>

(* Mutant: the foreign key of collaboration_events does not cascade.         *)
DeleteProjectOnly(p) ==
  /\ p \notin deleted
  /\ deleted' = deleted \union {p}
  /\ pending' = {e \in pending : e.project # p}
  /\ UNCHANGED <<begun, added, events, reader>>

(* The events of a project go with it by ON DELETE CASCADE, and its project  *)
(* is one an insert still to come does not find.                             *)
DeleteProject(p) ==
  /\ p \notin deleted
  /\ deleted' = deleted \union {p}
  /\ pending' = {e \in pending : e.project # p}
  /\ events' = {e \in events : e.project # p}
  /\ UNCHANGED <<begun, added, reader>>

StartReading(list, page, limit) ==
  /\ reader.pc = None
  /\ reader' = [of |-> list, pc |-> "find", page |-> page, limit |-> limit, owed |-> Found(list),
                seen |-> {}, repeats |-> 0, since |-> added]
  /\ UNCHANGED <<begun, pending, added, events, deleted>>

(* The first query of findAndCount.  The route of the history returns the    *)
(* events alone, and its reader asks on until a page is empty.  Of a user's  *)
(* activity, which no route returns, the service's caller gets totalPages; a *)
(* page that is not full may tell the total without the second query.        *)
Find ==
  LET got == Take(reader.page, reader.limit)
      full == Cardinality(got) >= validLimit(reader.limit)
  IN
  /\ reader.pc = "find"
  /\ \E pc \in CASE reader.of \in Projects -> IF got = {} THEN {"done"} ELSE {"count"}
               [] OTHER -> IF full THEN {"count"} ELSE {"count", "done"} :
       reader' = [reader EXCEPT !.pc = pc, !.page = validPage(@), !.seen = @ \union got,
                                !.repeats = @ + Cardinality(got \intersect reader.seen)]
  /\ UNCHANGED <<begun, pending, added, events, deleted>>

(* The second, and the next page is asked for, if the reader is not told     *)
(* that there is none.                                                       *)
Count ==
  /\ reader.pc = "count"
  /\ reader' = IF \/ reader.of \in Projects
                  \/ reader.page < totalPages(Cardinality(Found(reader.of)), reader.limit)
               THEN [reader EXCEPT !.pc = "find", !.page = @ + 1]
               ELSE [reader EXCEPT !.pc = "done"]
  /\ UNCHANGED <<begun, pending, added, events, deleted>>

Next ==
  \/ \E p \in Projects : addEvent(p) \/ DeleteProject(p)
  \/ \E e \in pending : Commit(e)
  \/ \E list \in Lists, page \in Pages, limit \in Limits : StartReading(list, page, limit)
  \/ Find \/ Count

Spec == Init /\ [][Next]_vars

-----------------------------------------------------------------------------
(* Rows with the ids given so far.                                           *)
Rows == [id : 1..begun, project : Projects]

TypeOK ==
  /\ begun \in 0..MaxEvents /\ added \in Nat /\ deleted \subseteq Projects
  /\ pending \union events \subseteq {e \in Rows : e.project \notin deleted}
  /\ pending \intersect (events \union reader.owed \union reader.seen) = {}
  /\ \A e, f \in pending \union events : e.id = f.id => e = f
  /\ reader \in [of : Lists \union {None}, pc : {None, "find", "count", "done"}, page : Int,
                 limit : Limits \union {0}, owed : SUBSET Rows, seen : SUBSET Rows,
                 repeats : Nat, since : 0..added]
  /\ reader.pc = "count" => reader.page >= 1

(* Whoever reads a project's history to the first empty page, or a user's    *)
(* activity to the last by totalPages, has seen every event that was to be   *)
(* seen at the start, and unless it is deleted still is: events added        *)
(* meanwhile, at any place, only move older ones to later pages.  Of an      *)
(* activity this is so if no project was deleted meanwhile.                  *)
NoEventIsSkipped ==
  reader.pc = "done" /\ (reader.of \in Projects \/ deleted = {}) =>
    reader.owed \intersect events \subseteq reader.seen

(* A reader sees an event again only for an event added since the start.     *)
RepeatsAreFew == reader.repeats <= added - reader.since
=============================================================================
