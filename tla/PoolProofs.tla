----------------------------- MODULE PoolProofs -----------------------------
(***************************************************************************)
(* Proofs about ConnectionPool, for every finite set of connections and of *)
(* requests.  The accounting of connections is inductive together with the *)
(* types; the bound on nested requests follows from it by counting: when   *)
(* the program has stopped, connection -> owner is an injection into the   *)
(* nested requests.                                                        *)
(***************************************************************************)
EXTENDS ConnectionPool, FiniteSetTheorems, TLAPS

LookupsLeft == \A r \in Requests : req[r].stage = "lookup" => req[r].lookups > 0

IInv == TypeOK /\ ConnectionsAccounted /\ LookupsLeft

\* A record whose connections and rows fit its stage.
Fits(rec) ==
  /\ rec.conn # None <=> rec.stage \in Holding
  /\ rec.second # None <=> rec.stage \in Second
  /\ rec.stage \in Second => rec.conn # rec.second
  /\ rec.stage = "lookup" => rec.lookups > 0

-----------------------------------------------------------------------------
(* One request changes what it does and which connections it has.          *)

\* A request takes free connections, or gives some back, and its new record
\* names those it has now.
LEMMA Exchange ==
  ASSUME IInv, NEW r \in Requests, NEW rec \in Request, Fits(rec),
         req' = [req EXCEPT ![r] = rec],
         owner' \in [Connections -> Requests \cup {None}],
         \A k \in Connections :
           /\ k \in {rec.conn, rec.second} => owner[k] \in {None, r} /\ owner'[k] = r
           /\ k \notin {rec.conn, rec.second} =>
                owner'[k] = IF owner[k] = r THEN None ELSE owner[k]
  PROVE  IInv'
<1> USE PoolNoneAssumption DEF IInv
<1>1. req'[r] = rec /\ \A q \in Requests \ {r} : req'[q] = req[q]
  BY DEF TypeOK
<1>2. TypeOK'
  BY DEF TypeOK
<1>3. ASSUME NEW k \in Connections, NEW q \in Requests
      PROVE  owner'[k] = q <=> k \in {req'[q].conn, req'[q].second}
  <2>1. CASE q = r
    BY <1>1, <2>1
  <2>2. CASE q # r
    <3>1. owner[k] = q <=> k \in {req[q].conn, req[q].second}
      BY DEF ConnectionsAccounted
    <3>2. owner'[k] = q <=> owner[k] = q
      BY <2>2
    <3> QED
      BY <1>1, <2>2, <3>1, <3>2
  <2> QED
    BY <2>1, <2>2
<1>4. ASSUME NEW q \in Requests
      PROVE  Fits(req'[q])
  BY <1>1 DEF ConnectionsAccounted, LookupsLeft, Fits
<1>5. ConnectionsAccounted' /\ LookupsLeft'
  BY <1>3, <1>4 DEF ConnectionsAccounted, LookupsLeft, Fits
<1> QED
  BY <1>2, <1>5

\* A step that moves a request to another stage and exchanges nothing.
LEMMA Move ==
  ASSUME IInv, NEW r \in Requests, NEW rec \in Request, Fits(rec),
         rec.conn = req[r].conn, rec.second = req[r].second,
         req' = [req EXCEPT ![r] = rec], UNCHANGED owner
  PROVE  IInv'
<1>1. \A k \in Connections : owner[k] = r <=> k \in {rec.conn, rec.second}
  BY DEF IInv, ConnectionsAccounted
<1>2. owner' \in [Connections -> Requests \cup {None}]
  BY DEF IInv, TypeOK
<1> QED
  BY <1>1, <1>2, Exchange

\* A free connection becomes the first or the second of a request.
LEMMA Take ==
  ASSUME IInv, NEW r \in Requests, NEW k \in Connections, Free(k),
         NEW rec \in Request, Fits(rec),
         \/ rec.conn = k /\ req[r].conn = None /\ rec.second = req[r].second
         \/ rec.second = k /\ req[r].second = None /\ rec.conn = req[r].conn,
         req' = [req EXCEPT ![r] = rec], owner' = [owner EXCEPT ![k] = r]
  PROVE  IInv'
<1> USE PoolNoneAssumption
<1>1. owner \in [Connections -> Requests \cup {None}]
  BY DEF IInv, TypeOK
<1>2. owner' \in [Connections -> Requests \cup {None}]
  BY <1>1
<1>3. \A j \in Connections : owner[j] = r <=> j \in {req[r].conn, req[r].second}
  BY DEF IInv, ConnectionsAccounted
<1>4. \A j \in Connections :
        /\ j \in {rec.conn, rec.second} => owner[j] \in {None, r} /\ owner'[j] = r
        /\ j \notin {rec.conn, rec.second} =>
             owner'[j] = IF owner[j] = r THEN None ELSE owner[j]
  BY <1>1, <1>3 DEF Free
<1> QED
  BY <1>2, <1>4, Exchange

\* The second connection is given back.
LEMMA GiveBack ==
  ASSUME IInv, NEW r \in Requests, req[r].stage \in Second,
         NEW rec \in Request, Fits(rec), rec.conn = req[r].conn, rec.second = None,
         req' = [req EXCEPT ![r] = rec], owner' = [owner EXCEPT ![req[r].second] = None]
  PROVE  IInv'
<1> USE PoolNoneAssumption
<1>1. owner \in [Connections -> Requests \cup {None}] /\ req[r] \in Request
  BY DEF IInv, TypeOK
<1>2. req[r].second \in Connections /\ req[r].conn # req[r].second
  BY <1>1 DEF IInv, ConnectionsAccounted, Request
<1>3. owner' \in [Connections -> Requests \cup {None}]
  BY <1>1
<1>4. \A j \in Connections : owner[j] = r <=> j \in {req[r].conn, req[r].second}
  BY DEF IInv, ConnectionsAccounted
<1>5. \A j \in Connections :
        /\ j \in {rec.conn, rec.second} => owner[j] \in {None, r} /\ owner'[j] = r
        /\ j \notin {rec.conn, rec.second} =>
             owner'[j] = IF owner[j] = r THEN None ELSE owner[j]
  BY <1>1, <1>2, <1>4
<1> QED
  BY <1>3, <1>5, Exchange

\* A request ends, with or without success.
LEMMA FinishKeeps ==
  ASSUME IInv, NEW r \in Requests, Finish(r)
  PROVE  IInv'
<1> USE PoolNoneAssumption
<1>1. Idle \in Request /\ Fits(Idle) /\ Idle.conn = None /\ Idle.second = None
  BY MaxRowsAssumption DEF Idle, Request, Fits, Holding, First, Second
<1>2. owner \in [Connections -> Requests \cup {None}]
  BY DEF IInv, TypeOK
<1>3. owner' \in [Connections -> Requests \cup {None}]
  BY <1>2 DEF Finish
<1>4. \A k \in Connections : owner[k] = r <=> k \in {req[r].conn, req[r].second}
  BY DEF IInv, ConnectionsAccounted
<1>5. \A k \in Connections : owner'[k] = IF owner[k] = r THEN None ELSE owner[k]
  BY <1>4 DEF Finish
<1>6. req' = [req EXCEPT ![r] = Idle]
  BY DEF Finish
<1>7. \A k \in Connections : k \notin {Idle.conn, Idle.second}
  BY <1>1
<1> HIDE DEF Idle
<1> QED
  BY <1>1, <1>3, <1>5, <1>6, <1>7, Exchange

-----------------------------------------------------------------------------

\* What the invariant says about one request.
LEMMA OneRequest ==
  ASSUME IInv, NEW r \in Requests
  PROVE  req[r] \in Request /\ Fits(req[r])
BY DEF IInv, TypeOK, ConnectionsAccounted, LookupsLeft, Fits

\* Every step keeps the types and the accounts.
LEMMA InvariantStep ==
  ASSUME IInv, [Next]_vars
  PROVE  IInv'
<1> USE PoolNoneAssumption, MaxRowsAssumption
<1>1. CASE UNCHANGED vars
  BY <1>1 DEF vars, IInv, TypeOK, ConnectionsAccounted, LookupsLeft
<1>2. ASSUME NEW r \in Requests, Arrive(r)
      PROVE  IInv'
  <2>0. req[r] \in Request /\ Fits(req[r]) /\ req[r].stage = "idle"
    BY <1>2, OneRequest DEF Arrive, BeginImport, BeginListing, BeginSingle
  <2>1. ASSUME NEW c \in Companies, BeginImport(r, c)
        PROVE  IInv'
    <3> DEFINE rec == [req[r] EXCEPT !.stage = "begin", !.company = c]
    <3>1. /\ rec \in Request /\ Fits(rec)
          /\ rec.conn = req[r].conn /\ rec.second = req[r].second
      BY <2>0 DEF Request, Fits, First, Holding, Second
    <3>2. req' = [req EXCEPT ![r] = rec] /\ UNCHANGED owner
      BY <2>1 DEF BeginImport, IInv, TypeOK
    <3> QED
      BY <3>1, <3>2, Move
  <2>2. ASSUME NEW s \in {"open", "single"},
               req' = [req EXCEPT ![r].stage = s], UNCHANGED owner
        PROVE  IInv'
    <3> DEFINE rec == [req[r] EXCEPT !.stage = s]
    <3>1. /\ rec \in Request /\ Fits(rec)
          /\ rec.conn = req[r].conn /\ rec.second = req[r].second
      BY <2>0 DEF Request, Fits, First, Holding, Second
    <3>2. req' = [req EXCEPT ![r] = rec]
      BY <2>2 DEF IInv, TypeOK
    <3> QED
      BY <2>2, <3>1, <3>2, Move
  <2> QED
    BY <1>2, <2>1, <2>2 DEF Arrive, BeginListing, BeginSingle
<1>3. ASSUME NEW r \in Requests, NEW k \in Connections,
             \/ BeginTx(r, k)
             \/ QueryOne(r, k)
             \/ \E n \in 0 .. MaxRows : QueryRows(r, k, n)
      PROVE  IInv'
  <2>0. req[r] \in Request /\ Fits(req[r])
    BY OneRequest
  <2>1. ASSUME NEW from \in First, NEW to \in {"company", "query"}, TakeFirst(r, k, from, to)
        PROVE  IInv'
    <3> DEFINE rec == [req[r] EXCEPT !.stage = to, !.conn = k]
    <3>1. req[r].conn = None /\ req[r].second = None
      BY <2>0, <2>1 DEF TakeFirst, Fits, First, Holding, Second
    <3>2. rec \in Request /\ Fits(rec) /\ rec.conn = k /\ rec.second = req[r].second
      BY <2>0, <3>1 DEF Request, Fits, First, Holding, Second
    <3>3. /\ Free(k) /\ owner' = [owner EXCEPT ![k] = r]
          /\ req' = [req EXCEPT ![r] = rec]
      BY <2>1 DEF TakeFirst, IInv, TypeOK
    <3> QED
      BY <3>1, <3>2, <3>3, Take
  <2>2. ASSUME NEW n \in 0 .. MaxRows, QueryRows(r, k, n)
        PROVE  IInv'
    <3> DEFINE rec == [req[r] EXCEPT !.stage = "rows", !.conn = k, !.lookups = 2 * n]
    <3>1. req[r].conn = None /\ req[r].second = None
      BY <2>0, <2>2 DEF QueryRows, Fits, First, Holding, Second
    <3>2. 2 * n \in 0 .. 2 * MaxRows
      OBVIOUS
    <3>3. rec \in Request /\ Fits(rec) /\ rec.conn = k /\ rec.second = req[r].second
      BY <2>0, <3>1, <3>2 DEF Request, Fits, First, Holding, Second
    <3>4. /\ Free(k) /\ owner' = [owner EXCEPT ![k] = r]
          /\ req' = [req EXCEPT ![r] = rec]
      BY <2>2 DEF QueryRows, IInv, TypeOK
    <3> QED
      BY <3>1, <3>3, <3>4, Take
  <2> QED
    BY <1>3, <2>1, <2>2 DEF BeginTx, QueryOne, First
<1>4. ASSUME NEW r \in Requests, NEW k \in Connections, DetectDedup(r, k) \/ Lookup(r, k)
      PROVE  IInv'
  <2>0. req[r] \in Request /\ Fits(req[r])
    BY OneRequest
  <2>1. PICK to \in Second :
          TakeSecond(r, k, to) /\ (to = "lookup" => req[r].lookups > 0)
    BY <1>4 DEF DetectDedup, Lookup, Second
  <2>2. req[r].stage \in {"dedup", "rows"}
    BY <1>4 DEF DetectDedup, Lookup
  <2> DEFINE rec == [req[r] EXCEPT !.stage = to, !.second = k]
  <2>3. req[r].conn # None /\ req[r].second = None /\ req[r].conn # k
    <3>1. req[r].conn # None /\ req[r].second = None
      BY <2>0, <2>2 DEF Fits, Holding, Second
    <3>2. owner[k] # r
      BY <2>1 DEF TakeSecond, Free
    <3>3. owner[k] = r <=> k \in {req[r].conn, req[r].second}
      BY DEF IInv, ConnectionsAccounted
    <3> QED
      BY <3>1, <3>2, <3>3
  <2>4. rec \in Request /\ Fits(rec) /\ rec.second = k /\ rec.conn = req[r].conn
    BY <2>0, <2>1, <2>3 DEF Request, Fits, First, Holding, Second
  <2>5. /\ Free(k) /\ owner' = [owner EXCEPT ![k] = r]
        /\ req' = [req EXCEPT ![r] = rec]
    BY <2>1 DEF TakeSecond, IInv, TypeOK
  <2> QED
    BY <2>3, <2>4, <2>5, Take
<1>5. ASSUME NEW r \in Requests, DedupDone(r) \/ LookupDone(r)
      PROVE  IInv'
  <2>0. req[r] \in Request /\ Fits(req[r])
    BY OneRequest
  <2>1. CASE DedupDone(r)
    <3> DEFINE rec == [req[r] EXCEPT !.stage = "write", !.second = None]
    <3>1. rec \in Request /\ Fits(rec) /\ rec.conn = req[r].conn /\ rec.second = None
      BY <2>0, <2>1 DEF DedupDone, Request, Fits, First, Holding, Second
    <3>2. /\ req[r].stage \in Second
          /\ req' = [req EXCEPT ![r] = rec] /\ owner' = [owner EXCEPT ![req[r].second] = None]
      BY <2>1 DEF DedupDone, IInv, TypeOK, Second
    <3> QED
      BY <3>1, <3>2, GiveBack
  <2>2. CASE LookupDone(r)
    <3> DEFINE rec == [req[r] EXCEPT !.stage = "rows", !.second = None, !.lookups = @ - 1]
    <3>1. req[r].lookups - 1 \in 0 .. 2 * MaxRows
      BY <2>0, <2>2 DEF LookupDone, Request, Fits
    <3>2. rec \in Request /\ Fits(rec) /\ rec.conn = req[r].conn /\ rec.second = None
      BY <2>0, <2>2, <3>1 DEF LookupDone, Request, Fits, First, Holding, Second
    <3>3. /\ req[r].stage \in Second
          /\ req' = [req EXCEPT ![r] = rec] /\ owner' = [owner EXCEPT ![req[r].second] = None]
      BY <2>2 DEF LookupDone, IInv, TypeOK, Second
    <3> QED
      BY <3>2, <3>3, GiveBack
  <2> QED
    BY <1>5, <2>1, <2>2
<1>6. ASSUME NEW r \in Requests, GetOrCreateCompany(r) \/ \E b \in BOOLEAN : FindVacancy(r, b)
      PROVE  IInv'
  <2>0. req[r] \in Request /\ Fits(req[r])
    BY OneRequest
  <2>1. PICK s \in {"find", "write", "dedup"} :
          req' = [req EXCEPT ![r].stage = s] /\ UNCHANGED owner
    BY <1>6 DEF GetOrCreateCompany, FindVacancy
  <2>2. req[r].stage \in {"company", "find"}
    BY <1>6 DEF GetOrCreateCompany, FindVacancy
  <2> DEFINE rec == [req[r] EXCEPT !.stage = s]
  <2>3. /\ rec \in Request /\ Fits(rec)
        /\ rec.conn = req[r].conn /\ rec.second = req[r].second
    BY <2>0, <2>2 DEF Request, Fits, First, Holding, Second
  <2>4. req' = [req EXCEPT ![r] = rec]
    BY <2>1 DEF IInv, TypeOK
  <2> QED
    BY <2>1, <2>3, <2>4, Move
<1>7. ASSUME NEW r \in Requests, Commit(r) \/ CloseRows(r) \/ QueryDone(r) \/ Abandon(r)
      PROVE  IInv'
  BY <1>7, FinishKeeps DEF Commit, CloseRows, QueryDone, Abandon
<1> QED
  BY <1>1, <1>2, <1>3, <1>4, <1>5, <1>6, <1>7 DEF Next, Proceed

\* Rows, connections and requests keep their types, and every connection is
\* accounted for, after every step, failures included.
THEOREM InvariantHolds == Spec => []IInv
<1>1. Init => IInv
  BY MaxRowsAssumption, PoolNoneAssumption
     DEF Init, IInv, TypeOK, ConnectionsAccounted, LookupsLeft, Idle, Request,
         First, Holding, Second
<1>2. IInv /\ [Next]_vars => IInv'
  BY InvariantStep
<1> QED
  BY <1>1, <1>2, PTL DEF Spec

\* Owners are requests, and requests keep the type of their stages.
THEOREM TypeCorrect == Spec => []TypeOK
<1>1. IInv => TypeOK
  BY DEF IInv
<1> QED
  BY <1>1, InvariantHolds, PTL

\* No path out of an import or a listing loses a connection of the pool.
THEOREM NoConnectionIsLost == Spec => []ConnectionsAccounted
<1>1. IInv => ConnectionsAccounted
  BY DEF IInv
<1> QED
  BY <1>1, InvariantHolds, PTL

-----------------------------------------------------------------------------
(* The program that has stopped.                                           *)

\* Nobody can go on, so no connection is free: the owner of a lock would go
\* on unless it, too, wants a connection.
LEMMA StalledHasNoFree ==
  ASSUME IInv, Stalled
  PROVE  \A k \in Connections : ~Free(k)
<1>1. PICK r \in Requests : Active(r)
  BY DEF Stalled
<1>2. CASE \A k \in Connections : ~Free(k)
  BY <1>2
<1>3. CASE req[r].stage = "company" /\ CompanyWaits(r)
  <2>1. PICK q \in Requests : LocksCompany(q)
    BY <1>3 DEF CompanyWaits
  <2> QED
    BY <2>1 DEF Stalled, Active, LocksCompany, WantsSecond, First
<1> QED
  BY <1>1, <1>2, <1>3 DEF Stalled

\* Then the owner of each connection is a nested request.
LEMMA OwnersAreNested ==
  ASSUME IInv, Stalled, NEW k \in Connections
  PROVE  /\ owner[k] \in Nested
         /\ req[owner[k]].conn = k
<1> DEFINE r == owner[k]
<1>1. r \in Requests
  BY StalledHasNoFree DEF IInv, TypeOK, Free
<1>2. k \in {req[r].conn, req[r].second} /\ Fits(req[r])
  BY <1>1, OneRequest DEF IInv, ConnectionsAccounted
<1>3. req[r].stage \in Holding
  BY <1>2, PoolNoneAssumption DEF Fits, Holding, Second
<1>4. req[r].stage = "company" \/ WantsSecond(r)
  BY <1>1, <1>3 DEF Stalled, Active, WantsSecond, First, Holding, Second
<1>5. req[r].second = None
  BY <1>2, <1>4 DEF Fits, WantsSecond, Second
<1> QED
  BY <1>1, <1>2, <1>4, <1>5, PoolNoneAssumption DEF Nested

\* However many connections and requests there are, the program stops only
\* when there are at least as many nested requests as connections.
THEOREM StallsAreNested == Spec => []StallsNeedNestedRequests
<1>1. ASSUME IInv PROVE StallsNeedNestedRequests
  <2> SUFFICES ASSUME Stalled
               PROVE  /\ \E r \in Requests : WantsSecond(r)
                      /\ Cardinality(Nested) >= Cardinality(Connections)
    BY DEF StallsNeedNestedRequests
  <2> USE <1>1
  <2>1. \E r \in Requests : WantsSecond(r)
    <3>1. PICK k \in Connections : TRUE
      BY ConnectionsAssumption
    <3>2. owner[k] \in Requests
      BY OwnersAreNested DEF Nested
    <3>3. CASE WantsSecond(owner[k])
      BY <3>2, <3>3
    <3>4. CASE req[owner[k]].stage = "company" /\ CompanyWaits(owner[k])
      <4>1. PICK q \in Requests : LocksCompany(q)
        BY <3>4 DEF CompanyWaits
      <4>2. WantsSecond(q)
        BY <4>1 DEF Stalled, Active, LocksCompany, WantsSecond, First
      <4> QED
        BY <4>2
    <3> QED
      BY <3>2, <3>3, <3>4, OwnersAreNested DEF Nested, Stalled, Active, First, WantsSecond
  <2>2. owner \in Injection(Connections, Nested)
    <3>1. owner \in [Connections -> Nested]
      BY OwnersAreNested DEF IInv, TypeOK
    <3>2. ASSUME NEW j \in Connections, NEW k \in Connections, owner[j] = owner[k]
          PROVE  j = k
      BY <3>2, OwnersAreNested
    <3> QED
      BY <3>1, <3>2 DEF Injection, IsInjective
  <2>3. IsFiniteSet(Nested)
    BY RequestsAssumption, FS_Subset DEF Nested
  <2>4. Cardinality(Connections) <= Cardinality(Nested)
    BY <2>2, <2>3, FS_Injection
  <2>5. Cardinality(Connections) \in Nat /\ Cardinality(Nested) \in Nat
    BY <2>3, ConnectionsAssumption, FS_CardinalityType
  <2> QED
    BY <2>1, <2>4, <2>5
<1> QED
  BY <1>1, InvariantHolds, PTL
=============================================================================
