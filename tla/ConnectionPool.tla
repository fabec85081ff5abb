--------------------------- MODULE ConnectionPool ---------------------------
(***************************************************************************)
(* The connections to PostgreSQL.  cmd/jobscout/main.go allows ten of them; *)
(* a query that finds none free waits in database/sql until its context is *)
(* cancelled.  Most requests need one connection at a time.  Two need a    *)
(* second one while they hold the first: an import, whose transaction has  *)
(* one and whose search for a primary vacancy (detectDedup) asks the pool, *)
(* and a listing of vacancies, which queries the company and the match of  *)
(* every row before it closes its rows.  An import also keeps the row of   *)
(* its company locked, and an import that waits for that row waits with a  *)
(* connection of its own.                                                  *)
(***************************************************************************)
EXTENDS Naturals, FiniteSets

CONSTANTS
  Requests,     \* goroutines that serve a request or the poller
  Connections,  \* what SetMaxOpenConns allows
  Companies,    \* companies whose rows imports lock
  MaxRows,      \* bound: rows of a listing
  None          \* no connection, no company, nobody

ASSUME RequestsAssumption == IsFiniteSet(Requests)
ASSUME ConnectionsAssumption == IsFiniteSet(Connections) /\ Connections # {}
ASSUME MaxRowsAssumption == MaxRows \in Nat
ASSUME PoolNoneAssumption == None \notin Requests \cup Connections \cup Companies

VARIABLES
  owner,  \* who was given each connection
  req     \* what each request is doing, with the connections it works on

vars == <<owner, req>>

(***************************************************************************)
(* Stages, named after what comes next:                                    *)
(*   begin, open, single   waiting for the first connection, to start an   *)
(*                         import, to list or to run one query             *)
(*   company, find         an import, before its company's lock and after  *)
(*   dedup, search         an import that needs a second connection, and   *)
(*                         one that has it                                 *)
(*   write                 an import after the search                      *)
(*   rows, lookup          a listing between two queries about a row, and  *)
(*                         in one                                          *)
(*   query                 a request with one query, or a transaction that *)
(*                         stays on its connection                         *)
(***************************************************************************)
First == {"begin", "open", "single"}
Second == {"search", "lookup"}
Holding == {"company", "find", "dedup", "write", "rows", "query"} \cup Second

Request ==
  [stage: {"idle"} \cup First \cup Holding,
   company: Companies \cup {None},
   conn: Connections \cup {None},
   second: Connections \cup {None},
   lookups: 0 .. 2 * MaxRows]         \* queries about rows still to come

Idle == [stage |-> "idle", company |-> None, conn |-> None, second |-> None, lookups |-> 0]

Init ==
  /\ owner = [k \in Connections |-> None]
  /\ req = [r \in Requests |-> Idle]

-----------------------------------------------------------------------------

Free(k) == owner[k] = None

LocksCompany(r) == req[r].stage \in {"find", "dedup", "search", "write"}

CompanyWaits(r) ==
  \E q \in Requests \ {r} : LocksCompany(q) /\ req[q].company = req[r].company

BeginImport(r, company) ==
  /\ req[r].stage = "idle"
  /\ req' = [req EXCEPT ![r].stage = "begin", ![r].company = company]
  /\ UNCHANGED owner

BeginListing(r) ==
  /\ req[r].stage = "idle"
  /\ req' = [req EXCEPT ![r].stage = "open"]
  /\ UNCHANGED owner

BeginSingle(r) ==
  /\ req[r].stage = "idle"
  /\ req' = [req EXCEPT ![r].stage = "single"]
  /\ UNCHANGED owner

\* db.conn: a free connection goes to one of those who wait.
TakeFirst(r, k, from, to) ==
  /\ req[r].stage = from
  /\ Free(k)
  /\ owner' = [owner EXCEPT ![k] = r]
  /\ req' = [req EXCEPT ![r].stage = to, ![r].conn = k]

TakeSecond(r, k, to) ==
  /\ Free(k)
  /\ owner' = [owner EXCEPT ![k] = r]
  /\ req' = [req EXCEPT ![r].stage = to, ![r].second = k]

\* Fault: an error return that leaves the rows open.
FinishForgetsSecond(r) ==
  /\ owner' = [k \in Connections |-> IF k = req[r].conn THEN None ELSE owner[k]]
  /\ req' = [req EXCEPT ![r] = Idle]

\* COMMIT, ROLLBACK, rows.Close: everything goes back to the pool.
Finish(r) ==
  /\ owner' = [k \in Connections |->
                 IF k \in {req[r].conn, req[r].second} THEN None ELSE owner[k]]
  /\ req' = [req EXCEPT ![r] = Idle]

BeginTx(r, k) == TakeFirst(r, k, "begin", "company")

GetOrCreateCompany(r) ==
  /\ req[r].stage = "company"
  /\ ~CompanyWaits(r)
  /\ req' = [req EXCEPT ![r].stage = "find"]
  /\ UNCHANGED owner

\* A posting that is known already is not searched for by content.
FindVacancy(r, known) ==
  /\ req[r].stage = "find"
  /\ req' = [req EXCEPT ![r].stage = IF known THEN "write" ELSE "dedup"]
  /\ UNCHANGED owner

DetectDedup(r, k) == req[r].stage = "dedup" /\ TakeSecond(r, k, "search")

DedupDone(r) ==
  /\ req[r].stage = "search"
  /\ owner' = [owner EXCEPT ![req[r].second] = None]
  /\ req' = [req EXCEPT ![r].stage = "write", ![r].second = None]

Commit(r) == req[r].stage = "write" /\ Finish(r)

\* Fault: LIMIT lets one row more through than a page has.
QueryRowsOverLimit(r, k, rows) ==
  /\ req[r].stage = "open"
  /\ Free(k)
  /\ owner' = [owner EXCEPT ![k] = r]
  /\ req' = [req EXCEPT ![r].stage = "rows", ![r].conn = k, ![r].lookups = 2 * (rows + 1)]

\* The rows stay open, and with them the connection, until the last is read.
QueryRows(r, k, rows) ==
  /\ req[r].stage = "open"
  /\ Free(k)
  /\ owner' = [owner EXCEPT ![k] = r]
  /\ req' = [req EXCEPT ![r].stage = "rows", ![r].conn = k, ![r].lookups = 2 * rows]

\* GetCompanyByID and GetVacancyMatch of the row, each on a connection.
Lookup(r, k) ==
  /\ req[r].stage = "rows"
  /\ req[r].lookups > 0
  /\ TakeSecond(r, k, "lookup")

\* Fault: the loop reads the same row again.
LookupDoneAgain(r) ==
  /\ req[r].stage = "lookup"
  /\ owner' = [owner EXCEPT ![req[r].second] = None]
  /\ req' = [req EXCEPT ![r].stage = "rows", ![r].second = None]

LookupDone(r) ==
  /\ req[r].stage = "lookup"
  /\ owner' = [owner EXCEPT ![req[r].second] = None]
  /\ req' = [req EXCEPT ![r].stage = "rows", ![r].second = None, ![r].lookups = @ - 1]

\* Fault: the rows are never closed.
RowsLeftOpen(r) ==
  /\ req[r].stage = "rows"
  /\ req[r].lookups = 0
  /\ req' = [req EXCEPT ![r] = Idle]
  /\ UNCHANGED owner

CloseRows(r) ==
  /\ req[r].stage = "rows"
  /\ req[r].lookups = 0
  /\ Finish(r)

QueryOne(r, k) == TakeFirst(r, k, "single", "query")

QueryDone(r) == req[r].stage = "query" /\ Finish(r)

\* A statement fails, or the client goes away and the context is cancelled,
\* which also ends a wait for a connection or for a lock.
Abandon(r) == req[r].stage # "idle" /\ Finish(r)

Arrive(r) ==
  \/ \E c \in Companies : BeginImport(r, c)
  \/ BeginListing(r)
  \/ BeginSingle(r)

Proceed(r) ==
  \/ \E k \in Connections :
       \/ BeginTx(r, k)
       \/ DetectDedup(r, k)
       \/ \E n \in 0 .. MaxRows : QueryRows(r, k, n)
       \/ Lookup(r, k)
       \/ QueryOne(r, k)
  \/ GetOrCreateCompany(r)
  \/ \E known \in BOOLEAN : FindVacancy(r, known)
  \/ DedupDone(r)
  \/ Commit(r)
  \/ LookupDone(r)
  \/ CloseRows(r)
  \/ QueryDone(r)

Next == \E r \in Requests : Arrive(r) \/ Proceed(r) \/ Abandon(r)

Spec == Init /\ [][Next]_vars

\* Connections go to a waiter drawn at random and locks to the first in line:
\* whoever could go on again and again goes on.  Nobody has to give up.
FairSpec == Spec /\ \A r \in Requests : SF_vars(Proceed(r))

-----------------------------------------------------------------------------
(* What must hold.                                                         *)

\* Rows, connections and requests have their types.
TypeOK ==
  /\ owner \in [Connections -> Requests \cup {None}]
  /\ req \in [Requests -> Request]

\* Every path out of an import or a listing, the failing ones too, returns
\* what it took: a connection is with a request exactly when the request works
\* on it, and the request works on as many as its stage needs.
ConnectionsAccounted ==
  /\ \A k \in Connections, r \in Requests :
       owner[k] = r <=> k \in {req[r].conn, req[r].second}
  /\ \A r \in Requests :
       /\ req[r].conn # None <=> req[r].stage \in Holding
       /\ req[r].second # None <=> req[r].stage \in Second
       /\ req[r].stage \in Second => req[r].conn # req[r].second

WantsSecond(r) ==
  req[r].stage = "dedup" \/ (req[r].stage = "rows" /\ req[r].lookups > 0)

Active(r) == req[r].stage # "idle"

\* Nobody can go on: each request wants a connection and there is none, or
\* wants a lock that another one holds.
Stalled ==
  /\ \E r \in Requests : Active(r)
  /\ \A r \in Requests : Active(r) =>
       \/ (req[r].stage \in First \/ WantsSecond(r)) /\ \A k \in Connections : ~Free(k)
       \/ req[r].stage = "company" /\ CompanyWaits(r)

\* Imports that found their lock taken, and requests that want a second
\* connection.
Nested == {r \in Requests : req[r].stage = "company" \/ WantsSecond(r)}

\* Requests with one query, however many, and transactions that stay on their
\* connection never stop the program.  It stops only when imports and listings
\* alone hold all the connections, each exactly one, and one of them wants a
\* second: with fewer of them at a time than connections it never does.
StallsNeedNestedRequests ==
  Stalled =>
    /\ \E r \in Requests : WantsSecond(r)
    /\ Cardinality(Nested) >= Cardinality(Connections)

\* Unless the program has stopped like that, every request is answered.
FinishesUnlessStalled ==
  \A r \in Requests : Active(r) ~> ~Active(r) \/ Stalled
=============================================================================
