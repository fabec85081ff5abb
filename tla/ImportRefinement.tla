-------------------------- MODULE ImportRefinement --------------------------
(***************************************************************************)
(* When the import implements its contract: as long as no row a request    *)
(* has read changes before the request is done.  The company's lock sees   *)
(* to that between imports, as long as employers stay who they are, and    *)
(* nothing sees to it between an import and a PATCH of the same posting.   *)
(***************************************************************************)
EXTENDS VacancyImport

Contract == INSTANCE ImportContract WITH Kept <- KeptStatuses

ContractSpec == Contract!Spec

\* The request read the posting's row and has not written it.  (Once it is
\* written the row's lock protects it.)
HasRead(w) == tx[w].stage \in {"dedup", "upsert", "patch"}

\* The import found a primary, and has not committed the link to it.
HasLinked(w) == tx[w].stage \in {"upsert", "commit"} /\ tx[w].duplicateOf # None

\* No step changes what a request in flight has read, unless it is that
\* request's own: not the posting's row, nor that the primary found is one.
\* No import takes the company's lock past another import of its content.
\* That no primary appears after none was found is not asked for.
Undisturbed ==
  /\ UNCHANGED unordered
  /\ \A w \in Workers :
       tx'[w] = tx[w] =>
         /\ HasRead(w) => vacancies'[tx[w].posting] = vacancies[tx[w].posting]
         /\ HasLinked(w) => (tx[w].duplicateOf \in Primaries(tx[w].content))'

UndisturbedSpec == Init /\ [][Next /\ Undisturbed]_vars

\* Every version of a posting names the same employer.
FixedEmployers ==
  \A p \in Postings : \A c, d \in Says[p] :
    Employer[c] # None /\ Employer[c] = Employer[d]

\* No two requests of which one is a PATCH are about the same posting.
PatchesApart ==
  \A u, w \in Workers :
    u # w /\ tx[w].stage = "patch" => tx[u].posting # tx[w].posting

PatchesApartSpec == Init /\ [][Next /\ PatchesApart']_vars

\* While no read is disturbed a link leads to a primary in one step: nothing
\* that has duplicates ever becomes a duplicate itself.
LinksAreDirect ==
  \A p \in Postings : Linked(p) =>
    LET q == vacancies[p].duplicateOf IN Exists(q) /\ ~Linked(q)
=============================================================================
