------------------------------ MODULE Listing -------------------------------
(***************************************************************************)
(* Keyset pagination of agents, connections and the audit log, read while  *)
(* rows are inserted and deleted.  created_at has microseconds, the cursor *)
(* has the milliseconds of a JavaScript Date.  now() is the start of the   *)
(* inserting statement: a row becomes visible later, maybe after a younger *)
(* one.                                                                    *)
(***************************************************************************)
EXTENDS Naturals, Sequences, FiniteSets, FiniteSetsExt, SequencesExt

CONSTANTS
  Ids,         \* row ids, numbered the way uuid orders them
  Micros,      \* microseconds in a millisecond (1000)
  Limits,      \* page sizes that clients ask for
  MaxPageSize, \* clampLimit's upper end (200)
  MaxMicro     \* bound on the clock

VARIABLES
  clock,    \* microseconds
  created,  \* created_at of every row ever inserted
  rows,     \* the rows that are visible: committed and not deleted
  scan,     \* the client: idle, between two pages or done
  gone,     \* the rows that were deleted
  stable    \* the rows there since the scan began

listingVars == <<clock, created, rows, scan, gone, stable>>

ASSUME ListingAssumption ==
  /\ Ids \subseteq Nat \ {0}
  /\ {Micros, MaxPageSize} \subseteq Nat \ {0}
  /\ Limits \subseteq Nat /\ MaxMicro \in Nat

NoCursor == [ts |-> 0, id |-> 0]

\* pages: the items of each page so far.
NoScan == [step |-> "idle", cursor |-> NoCursor, pages |-> << >>]

ListingInit ==
  /\ clock = 1
  /\ created = << >> /\ rows = {}
  /\ scan = NoScan
  /\ gone = {} /\ stable = {}

-----------------------------------------------------------------------------
(* Other clients.                                                          *)

InsertBegins(id) ==
  /\ id \notin DOMAIN created
  /\ created' = [i \in DOMAIN created \cup {id} |-> IF i = id THEN clock ELSE created[i]]
  /\ UNCHANGED <<clock, rows, gone, scan, stable>>

InsertCommits(id) ==
  /\ id \in DOMAIN created \ gone
  /\ id \notin rows
  /\ rows' = rows \cup {id}
  /\ UNCHANGED <<clock, created, gone, scan, stable>>

\* Only connections are ever deleted.
Delete(id) ==
  /\ id \in rows
  /\ rows' = rows \ {id}
  /\ gone' = gone \cup {id}
  /\ stable' = stable \ {id}
  /\ UNCHANGED <<clock, created, scan>>

Passes ==
  /\ clock < MaxMicro
  /\ clock' = clock + 1
  /\ UNCHANGED <<created, rows, gone, scan, stable>>

-----------------------------------------------------------------------------
(* list: one page.                                                         *)

clampLimit(n) == Max({1, Min({n, MaxPageSize})})

\* (created_at, id) < (ts, id)
Before(t, id, cursor) == t < cursor.ts \/ (t = cursor.ts /\ id < cursor.id)

\* toISOString: the milliseconds of the row's timestamp.
encodeCursorSeconds(t, id) == [ts |-> t - (t % (2 * Micros)), id |-> id]

encodeCursorUp(t, id) == [ts |-> t - (t % Micros) + Micros, id |-> id]

encodeCursor(t, id) == [ts |-> t - (t % Micros), id |-> id]

\* ORDER BY created_at DESC, id DESC
Newer(i, j) == created[i] > created[j] \/ (created[i] = created[j] /\ i > j)

Rank(ids, i) == Cardinality({j \in ids : j = i \/ Newer(j, i)})

Newest(ids, n) == [k \in 1..n |-> CHOOSE i \in ids : Rank(ids, i) = k]

list(cursor, limit) ==
  LET found == {i \in rows : cursor = NoCursor \/ Before(created[i], i, cursor)}
      total == Cardinality(found)
      n == clampLimit(limit)
      items == Newest(found, IF total < n THEN total ELSE n)
      more == total > n
  IN [items |-> items,
      next |-> IF more THEN encodeCursor(created[Last(items)], Last(items)) ELSE NoCursor]

\* The client follows next_cursor until there is none.
Page(limit) ==
  LET page == list(scan.cursor, limit) IN
  /\ scan.step # "done"
  /\ stable' = IF scan.step = "idle" THEN rows ELSE stable
  /\ scan' = [step |-> IF page.next = NoCursor THEN "done" ELSE "paging",
              cursor |-> page.next,
              pages |-> Append(scan.pages, page.items)]
  /\ UNCHANGED <<clock, created, rows, gone>>

ListingNext ==
  \/ \E id \in Ids : InsertBegins(id) \/ InsertCommits(id) \/ Delete(id)
  \/ Passes
  \/ \E limit \in Limits : Page(limit)

ListingSpec == ListingInit /\ [][ListingNext]_listingVars

-----------------------------------------------------------------------------
Returned == UNION {ToSet(scan.pages[p]) : p \in DOMAIN scan.pages}

\* The rows that ended a page another page followed.
PageEnds == {Last(scan.pages[p]) : p \in 1..Len(scan.pages) - 1}

SameMilli(i, j) == created[i] \div Micros = created[j] \div Micros

(***************************************************************************)
(* A scan never returns a row twice, whatever is inserted and deleted      *)
(* between its pages: the truncated cursor errs towards older rows.        *)
(***************************************************************************)
NoRowTwice ==
  \A p, q \in DOMAIN scan.pages :
    \A i \in DOMAIN scan.pages[p], j \in DOMAIN scan.pages[q] :
      scan.pages[p][i] = scan.pages[q][j] => p = q /\ i = j

(***************************************************************************)
(* A finished scan has returned every row that was there all the time,     *)
(* except for rows of the very millisecond in which a page ended.          *)
(***************************************************************************)
SkipsShareAMillisecond ==
  scan.step = "done" =>
    \A id \in stable :
      id \in Returned \/ \E e \in PageEnds : SameMilli(e, id)
=============================================================================
