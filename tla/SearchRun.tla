----------------------------- MODULE SearchRun ------------------------------
(***************************************************************************)
(* App.RunSearch of internal/app/app.go, started over HTTP or from         *)
(* Telegram, by several callers at once, beside imports of HeadHunter URLs *)
(* that use the same client.  A search reads the row of its source, walks  *)
(* the pages, fetches and imports every item, counts what fails, and in    *)
(* the end writes the whole row of the source back with a new date.  What  *)
(* an import does to the vacancies is VacancyImport; here it has an        *)
(* outcome.  There is one source of the type, as SeedCoreSources leaves it.*)
(***************************************************************************)
EXTENDS HeadhunterClient

CONSTANTS
  MaxPages,  \* HH_MAX_PAGES
  MaxItems,  \* bound: items on a page (HH_PAGE_SIZE)
  MaxRuns    \* bound: searches started

ASSUME MaxPagesAssumption == MaxPages \in Nat \ {0}
ASSUME MaxItemsAssumption == MaxItems \in Nat
ASSUME MaxRunsAssumption == MaxRuns \in Nat

VARIABLES
  success, \* last_successful_sync_at of the source, as committed
  clock,   \* the date of the search started last; dates are all different
  run      \* what each caller is doing

vars == <<sinceStart, call, own, success, clock, run>>

Never == 0

Dates == 0 .. MaxRuns

(***************************************************************************)
(* Stages of a run:                                                        *)
(*   page      SearchVacancies is in progress                              *)
(*   items     between two items of a page                                 *)
(*   details   GetVacancy of an item is in progress                        *)
(*   url       GetVacancy for the import of one URL is in progress         *)
(* An import follows its GetVacancy in the same step.                      *)
(***************************************************************************)
RunStages == {"idle", "page", "items", "details", "url"}

RunType ==
  [stage: RunStages,
   date: Dates,
   read: Dates,                  \* the source's success as the run read it
   page: 0 .. MaxPages - 1,
   more: BOOLEAN,                \* the last answer promised another page
   items: 0 .. MaxItems,         \* items of the page still to do
   listed: Nat,                  \* history: items of all pages so far
   \* The summary's counters.  Left out are Found, the number HeadHunter gives
   \* with the first page, and three that count some of the items imported, not
   \* all of them and some twice (Duplicates, Filtered, Recommended).
   imported: Nat, errors: Nat]

NoRun == [stage |-> "idle", date |-> Never, read |-> Never,
          page |-> 0, more |-> FALSE, items |-> 0, listed |-> 0,
          imported |-> 0, errors |-> 0]

Init ==
  /\ ClientInit
  /\ success = Never
  /\ clock = Never
  /\ run = [c \in Callers |-> NoRun]

-----------------------------------------------------------------------------

BeginSearch(c) ==
  /\ run[c].stage = "idle"
  /\ clock < MaxRuns
  /\ clock' = clock + 1
  /\ run' = [run EXCEPT ![c] = [NoRun EXCEPT !.stage = "page", !.date = clock + 1,
                                             !.read = success]]
  /\ StartCall(c)
  /\ UNCHANGED success

\* A call has returned, and the run goes on as rec says.
GoOn(c, rec) ==
  /\ run' = [run EXCEPT ![c] = rec]
  /\ Take(c)

PageFetched(c, n, more) ==
  /\ run[c].stage = "page"
  /\ call[c].stage = "ok"
  /\ GoOn(c, [run[c] EXCEPT !.stage = "items", !.items = n, !.more = more /\ n > 0,
                            !.listed = @ + n])
  /\ UNCHANGED <<success, clock>>

\* Fault: a search that failed clears the date of the last success.
PageFailedAnew(c, written) ==
  /\ run[c].stage = "page"
  /\ call[c].stage = "failed"
  /\ GoOn(c, NoRun)
  /\ success' = IF written THEN Never ELSE success
  /\ UNCHANGED clock

\* The search ends at a page that fails; what it imported stays.  The row of
\* the source is written as it was read, with the date of the error, which is
\* left out here.  An error of the write itself is ignored.
PageFailed(c, written) ==
  /\ run[c].stage = "page"
  /\ call[c].stage = "failed"
  /\ GoOn(c, NoRun)
  /\ success' = IF written THEN run[c].read ELSE success
  /\ UNCHANGED clock

\* Fault: the details are fetched past the client and its throttle.
FetchDetailsDirectly(c) ==
  /\ run[c].stage = "items"
  /\ run[c].items > 0
  /\ run' = [run EXCEPT ![c].stage = "details"]
  /\ call' = [call EXCEPT ![c].stage = "request"]
  /\ UNCHANGED <<sinceStart, own, success, clock>>

FetchDetails(c) ==
  /\ run[c].stage = "items"
  /\ run[c].items > 0
  /\ run' = [run EXCEPT ![c].stage = "details"]
  /\ StartCall(c)
  /\ UNCHANGED <<success, clock>>

\* The item is done, and counted as the rest of rec says.
ItemDone(c, rec) ==
  /\ run[c].stage = "details"
  /\ GoOn(c, [rec EXCEPT !.stage = "items", !.items = @ - 1])
  /\ UNCHANGED <<success, clock>>

ItemImported(c) ==
  /\ call[c].stage = "ok"
  /\ ItemDone(c, [run[c] EXCEPT !.imported = @ + 1])

\* Fault: an item that cannot be fetched is passed over in silence.
ItemFailedUncounted(c) ==
  \/ call[c].stage = "ok" /\ ItemDone(c, [run[c] EXCEPT !.errors = @ + 1])
  \/ call[c].stage = "failed" /\ ItemDone(c, run[c])

\* GetVacancy fails, or it succeeds and the import is rolled back: the item is
\* counted and the search goes on.
ItemFailed(c) ==
  /\ call[c].stage \in {"ok", "failed"}
  /\ ItemDone(c, [run[c] EXCEPT !.errors = @ + 1])

NextPage(c) ==
  /\ run[c].stage = "items"
  /\ run[c].items = 0
  /\ run[c].more /\ run[c].page + 1 < MaxPages
  /\ run' = [run EXCEPT ![c].stage = "page", ![c].page = @ + 1]
  /\ StartCall(c)
  /\ UNCHANGED <<success, clock>>

LastPage(c, written) ==
  /\ run[c].stage = "items"
  /\ run[c].items = 0
  /\ ~run[c].more \/ run[c].page + 1 >= MaxPages
  /\ run' = [run EXCEPT ![c] = NoRun]
  /\ success' = IF written THEN run[c].date ELSE success
  /\ UNCHANGED <<sinceStart, call, own, clock>>

\* ImportManualVacancy of a HeadHunter URL.
BeginUrl(c) ==
  /\ run[c].stage = "idle"
  /\ run' = [run EXCEPT ![c].stage = "url"]
  /\ StartCall(c)
  /\ UNCHANGED <<success, clock>>

UrlDone(c) ==
  /\ run[c].stage = "url"
  /\ call[c].stage \in {"ok", "failed"}
  /\ GoOn(c, NoRun)
  /\ UNCHANGED <<success, clock>>

RunStep(c) ==
  \/ \E n \in 0 .. MaxItems, more \in BOOLEAN : PageFetched(c, n, more)
  \/ \E written \in BOOLEAN : PageFailed(c, written) \/ LastPage(c, written)
  \/ FetchDetails(c)
  \/ ItemImported(c)
  \/ ItemFailed(c)
  \/ NextPage(c)
  \/ UrlDone(c)

ClientStep(c) == CallStep(c) /\ UNCHANGED <<success, clock, run>>

Cancelled(c) == Cancel(c) /\ UNCHANGED <<success, clock, run>>

TimePasses == Tick /\ UNCHANGED <<success, clock, run>>

Next ==
  \/ TimePasses
  \/ \E c \in Callers :
       BeginSearch(c) \/ BeginUrl(c) \/ RunStep(c) \/ ClientStep(c) \/ Cancelled(c)

Spec == Init /\ [][Next]_vars

\* Time passes, timers fire, the HTTP client's timeout ends every request and
\* a goroutine goes on with what it has.
FairSpec ==
  /\ Spec
  /\ WF_vars(TimePasses)
  /\ \A c \in Callers : WF_vars(RunStep(c)) /\ WF_vars(ClientStep(c))

-----------------------------------------------------------------------------
(* What must hold.                                                         *)

TypeOK ==
  /\ ClientTypeOK
  /\ success \in Dates
  /\ clock \in Dates
  /\ run \in [Callers -> RunType]

\* Searches and imports use the client as it is meant to be used: every
\* request of the composed system is one of a call, through the throttle.
UsesClient == ClientSpec

\* Whatever fails on the way, a search has imported, counted as an error or
\* still before it every item that HeadHunter listed.
SummaryAddsUp ==
  \A c \in Callers :
    LET r == run[c] IN
    /\ r.imported + r.errors + r.items = r.listed
    /\ r.listed <= (r.page + 1) * MaxItems

\* A search that fails keeps the date of the last success.  That date is set
\* back only by a search that had read the source before it was set: one that
\* overlaps another and ends later.
SuccessIsForgottenByOverlapOnly ==
  [][success' < success =>
       \E c \in Callers :
         /\ run[c].stage \in {"page", "items"} /\ run'[c].stage = "idle"
         /\ run[c].read # success]_vars

\* Every search and every import of a URL comes to its end, however HeadHunter
\* answers, and although a call never looks at the throttle twice.
RunsEnd == \A c \in Callers : run[c].stage # "idle" ~> run[c].stage = "idle"
=============================================================================
