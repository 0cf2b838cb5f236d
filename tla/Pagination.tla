----------------------------- MODULE Pagination -----------------------------
(***************************************************************************)
(* pagination.go: a caller walks a list with Page.All (or Next by hand)    *)
(* while the list changes at the server.  Two kinds of list: those with an *)
(* opaque cursor (listJSON, listPostJSON, searchContacts) and the form     *)
(* submissions, whose cursor is the instant of the page's last row.        *)
(*                                                                         *)
(* The server is external: it keeps rows newest first and answers the rows *)
(* before a cursor.  A row is its instant, a second and a fraction of it;  *)
(* no two rows share one.  An opaque cursor names the last row exactly.    *)
(***************************************************************************)
EXTENDS Integers, Sequences, FiniteSets

CONSTANTS Newest,     \* rows have the instants 0 .. Newest, oldest first
          Fraction,   \* instants in a second
          PageSizes,  \* limits the caller may ask for; 0 is the server's own
          ServerSize, \* the server's default
          MaxRows     \* rows there are at the start, at most

ASSUME PaginationAssumption ==
  /\ Newest \in Nat
  /\ Fraction \in Nat \ {0} /\ ServerSize \in Nat \ {0} /\ PageSizes \subseteq Nat

VARIABLES
  walk,    \* the iterator: before its first page, on a page, fetching, ended
  list,    \* "cursor" or "before", and the limit of the query
  page,    \* the page held: its rows, has_more, its cursor
  next,    \* the row of the page to yield next
  seen,    \* rows yielded so far, in order
  rows,    \* the server's rows
  lasting, \* rows there from the first request on
  added    \* rows were added since

pageVars == <<walk, list, page, next, seen, rows, lasting, added>>

Instants == 0 .. Newest
NoCursor == -1
NoPage == [data |-> <<>>, hasMore |-> FALSE, cursor |-> NoCursor]

PageInit ==
  /\ walk = "idle" /\ page = NoPage /\ next = 1 /\ added = 0
  /\ seen = <<>>
  /\ list \in [cursor : {"cursor", "before"}, limit : PageSizes]
  /\ rows = {} /\ lasting = {}

\* The flag and a cursor to go on from.
HasMore(p) == p.hasMore /\ p.cursor # NoCursor

\* Mutant: the instant is sent to the second.
FormCursorSeconds(at) == (at \div Fraction) * Fraction

\* RFC 3339 with nanoseconds: the instant itself.
FormCursor(at) == at

\* ListOptions.apply, setPositive: a zero limit is left to the server.
Limit(n) == IF n > 0 THEN n ELSE ServerSize

\* The rows before a cursor, newest first, as many as the limit lets.
RowsBefore(cursor) == {r \in rows : cursor = NoCursor \/ r < cursor}

\* The first n of a set of rows, or all there are, newest first: one sequence,
\* said without computing it.
First(S, n) ==
  {q \in UNION {[1 .. k -> S] : k \in 0 .. n} :
     /\ \A i, j \in DOMAIN q : i < j => q[j] < q[i]
     /\ \A r \in S : \/ \E i \in DOMAIN q : q[i] = r
                     \/ Len(q) = n /\ \A i \in DOMAIN q : r < q[i]}

\* The server's answer.  Its own cursor names the last row, or is missing.
Answered(cursor) ==
  LET found == RowsBefore(cursor)
      More(data) == \E r \in found : \A i \in DOMAIN data : data[i] # r
      Cursors(data) ==
        IF ~ More(data) THEN {NoCursor}
        ELSE IF list.cursor = "cursor" THEN {NoCursor, data[Len(data)]}
        ELSE {FormCursor(data[Len(data)])}
  IN  UNION {{[data |-> data, hasMore |-> More(data), cursor |-> c] : c \in Cursors(data)} :
               data \in First(found, Limit(list.limit))}

\* listJSON, listPostJSON, submissionsPage: the page a cursor asks for.
Fetched(cursor) ==
  /\ page' \in Answered(cursor)
  /\ walk' = "page" /\ next' = 1

List ==
  /\ walk = "idle"
  /\ rows' \in {S \in SUBSET Instants : Cardinality(S) <= MaxRows}
  /\ lasting' = rows'
  /\ walk' = "fetch" /\ page' = NoPage
  /\ UNCHANGED <<list, next, seen, added>>

FetchPage ==
  /\ walk = "fetch"
  /\ Fetched(page.cursor)
  /\ UNCHANGED <<list, seen, rows, lasting, added>>

\* An error is yielded with the zero value, and the walk is over.
FetchFails ==
  /\ walk = "fetch"
  /\ walk' = "failed"
  /\ UNCHANGED <<list, page, next, seen, rows, lasting, added>>

Yield ==
  /\ walk = "page" /\ next <= Len(page.data)
  /\ seen' = Append(seen, page.data[next]) /\ next' = next + 1
  /\ \/ UNCHANGED walk
     \/ walk' = "stopped"
  /\ UNCHANGED <<list, page, rows, lasting, added>>

TurnPage ==
  /\ walk = "page" /\ next > Len(page.data)
  /\ walk' = IF HasMore(page) THEN "fetch" ELSE "ended"
  /\ UNCHANGED <<list, page, next, seen, rows, lasting, added>>

Walking == walk \in {"fetch", "page"}

\* Others write to the list meanwhile; a new row is newer than all there are.
RowAdded ==
  /\ Walking /\ added < 1
  /\ \E r \in Instants : (\A q \in rows : r > q) /\ rows' = rows \cup {r}
  /\ added' = added + 1
  /\ UNCHANGED <<walk, list, page, next, seen, lasting>>

RowRemoved ==
  /\ Walking
  /\ \E r \in lasting : rows' = rows \ {r} /\ lasting' = lasting \ {r}
  /\ UNCHANGED <<walk, list, page, next, seen, added>>

PageNext == List \/ FetchPage \/ FetchFails \/ Yield \/ TurnPage \/ RowAdded \/ RowRemoved

PageFairness == WF_pageVars(FetchPage \/ FetchFails) /\ WF_pageVars(Yield) /\ WF_pageVars(TurnPage)

-----------------------------------------------------------------------------
\* Rows come newest first, each once, whatever is added or removed meanwhile,
\* inside a second too; and a walk that was let finish has seen every row that
\* was there throughout.  (A server that says there is more without saying
\* where has cut the walk short.)
EveryRowOnce ==
  /\ \A i \in 1 .. Len(seen) - 1 : seen[i + 1] < seen[i]
  /\ walk = "ended" /\ ~ page.hasMore => \A r \in lasting : \E i \in DOMAIN seen : seen[i] = r

\* The walk ends, though a server may say there is more without saying where.
WalkEnds == walk = "fetch" ~> walk \notin {"fetch", "page"}

=============================================================================
