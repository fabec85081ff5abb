# JobScout AI in TLA+

Specifications of the program in `src/` (Go, PostgreSQL, HeadHunter, Telegram),
the TLC runs that check them on small instances and the TLAPS proofs that
extend some of the results to every instance. Paths below are relative to
`src/`; `PROJECT.json` maps each definition to the lines it models.

## 1. The system

One owner looks for a job. A search reads vacancies from HeadHunter, imports
them into PostgreSQL, removes duplicates, filters and scores them. The owner
looks at the recommended ones, over HTTP or in Telegram, prepares an
application, approves it, sends it by hand and says so, and records what the
employer answers. Every HTTP request is a goroutine, the Telegram poller is
another; they share nothing but the database (a pool of ten connections) and
the HeadHunter client.

| Component | State | Operations | Talks to |
|---|---|---|---|
| Status machines (`internal/core/types.go`, `application.go`, `audit.go`) | none | two tables of transitions, `IsActive`, outcome conversions | everybody |
| Application workflow (`internal/app/applications.go`) | `applications`, `vacancies.status`, `audit_events` | prepare, approve, cancel, mark submitted, outcome | store, in one transaction each |
| Vacancy status (`App.UpdateVacancyStatus`) | `vacancies` | PATCH, archive button | store, no transaction |
| Import (`importVacancyFromRaw`) | `companies`, `vacancies`, `vacancy_matches` | search import, URL import | store transaction **and** the pool |
| Connection pool (`main.go`, `database/sql`) | connections in use | acquire, release | every query |
| HeadHunter client (`integrations/hh`) | `lastStart` under a mutex | throttle, get with retries | HeadHunter |
| Search run (`App.RunSearch`) | counters, dates of a source | pages, items | client, import |
| Job sources (`SeedCoreSources`, `ensureSourceByType`) | `job_sources` | find or insert by type | store |
| Telegram poller (`internal/app/bot.go`, `integrations/telegram`) | `offset` | poll, handle, reply | Telegram, all use cases |
| Profile, resumes (`app.go`, `resumes.go`) | `candidate_profiles`, `resumes` | save, create, patch | store |
| Filters, scoring, resume choice, letter (`internal/core`) | none | pure functions | import, prepare |
| Migrations (`internal/migrate`) | `schema_migrations` | apply the pending ones | database |
| Process (`cmd/jobscout/main.go`) | goroutines, signals | start, shut down | all |
| HTTP handlers, in-memory store, configuration | - | - | - |

### What is hard about it

* **Stale rows.** Every use case reads a row without a lock, decides, and
  writes the whole row (or the whole status) back. READ COMMITTED does not
  object when the row has changed in between.
* **Two connections in one import.** The search for a primary vacancy goes
  through the pool and not through the import's own transaction, so it sees
  committed rows only.
* **Implicit locks.** What orders concurrent imports is the row lock taken by
  the upsert of the company, and what forbids two open applications is a
  partial unique index. No code mentions either.
* **Failure in the middle.** A statement can fail, a client can go away and
  cancel the context, the process can be killed; a transaction is then rolled
  back. Outside a transaction (PATCH, sources, profile, poller) it is not.
* **Repetition.** Buttons are tapped twice, updates are delivered twice,
  searches find the same posting again and again.

### What makes each component correct

* *Workflow*: at most one open application per vacancy; nothing counts as sent
  that was not approved and marked; the vacancy moves in the same step; each
  step is in the trail once, a repetition adds nothing unless it overlapped;
  statuses follow the tables; every request ends.
* *Import*: links of duplicates lead to a primary; concurrent imports of one
  content leave one primary; a duplicate is not offered; decisions of the owner
  are not undone; an import that is repeated changes nothing; imports end.
* *Pool*: whoever holds a connection gets the next one it needs, unless as many
  hold one and want another as there are connections; none is lost.
* *Client*: requests of one caller start at least the delay apart; only what is temporary is
  tried again; a cancelled context ends the wait.
* *Search, sources*: the counters add up; the date of a success is lost to an
  overlapping run only.
* *Poller*: each update is handled, and what it does survives being done twice,
  with requests over HTTP beside it.
* *Profile, resumes*: the resumes of the profile in force stay with it unless
  saves overlap or a read fails; a patch changes the fields it names; the
  resume chosen for a vacancy changes only when something relevant does.
* *Start*: each migration is committed once and in order whoever races; between
  them the processes complete the schema; sources double by overlap only.
* *Filters and scores*: they agree with each other and with the listing, and a
  better fit never loses.

`PROJECT.json` lists under "hazards" the lines where these can go wrong and the
properties that watch over them.

## 2. Modules

    Statuses ─┬─ ApplicationWorkflow ─ ApplicationRefinement ─┬─ MCApplicationWorkflow
              │                                               └─ ApplicationProofs
              ├─ ApplicationLifecycle    (INSTANCE in ApplicationRefinement, TelegramPoller)
              ├─ VacancyImport ─┬─ MCVacancyImport
              │                 └─ ImportRefinement ─ ImportProofs
              ├─ ImportContract          (INSTANCE in ImportRefinement)
              └─ TelegramPoller ─ PollerProofs
    ConnectionPool ─ PoolProofs
    HeadhunterClient ─ SearchRun ─┬─ MCSearchRun
                                  └─ SearchProofs
    Matching ─┬─ MCMatching
              └─ MatchingProofs
    Profile ─┬─ MCProfile
             └─ ProfileProofs
    Startup ─┬─ MCStartup
             └─ StartupProofs

A definition whose comment begins with `Fault:` is not part of the model. It
is a plausible bug in the definition that follows it; replacing the definition
by it must break one of the properties (`PROJECT.json`, "mutants"), which shows
that the property says something about the code.

### ApplicationWorkflow

State: the committed `vacancies.status`, the committed row of each application,
the number of audit events per application and action, and for every worker
(an HTTP request or a Telegram callback in flight) the transaction it is in:
the stage, the row it is going to write and the vacancy status it is going to
write. Rows are published by `Commit`; a row that is written and not committed
is visible to nobody else but locks.

| Code | Model |
|---|---|
| first `SELECT`, the switch on the status, the new row | `BeginPrepare`, `BeginApprove`, `BeginCancel`, `BeginSubmit`, `BeginOutcome` |
| `FindActiveApplicationByVacancyProfile` | `ReturnExisting`, `SelectResume` |
| `UpsertApplication` (waits for locks, fails on the index) | `UpsertApplication`, `RefuseConflict` |
| `GetVacancy` and the check of the table | `ReadVacancy`, `RefuseVacancy` |
| `UpdateVacancyStatus` in the transaction | `UpdateVacancy` |
| `CreateAuditEvent`, the view, `COMMIT` | `Commit` |
| an error, a cancelled context, a crash | `Rollback` |
| `App.UpdateVacancyStatus` (PATCH) | `BeginPatch`, `WritePatch` |

Statements that read the same thing and cannot be told apart by anybody are one
step: the two upserts of an approval (the first is never visible), the insert
of an audit event and the commit. A use case that changes nothing (approving
what is approved, a refusal by status) is a step that does not happen.

Abstracted: resumes, letters, notes, rejection reasons, the view returned,
times (kept as "is set"), and the single profile (there is one owner, so the
index on vacancy and profile is an index on the vacancy; when there can only be
one is the theorem `OwnerHasOneProfile` about Profile). Re-imports of a
vacancy during its applications belong to VacancyImport.

### ApplicationLifecycle, ApplicationRefinement

The lifecycle is what the use cases promise, read off their guards and the two
tables: five kinds of steps over three functions. The refinement maps an
application to its vacancy and its status.

The workflow implements it (`LifecycleSpec`) as long as no request writes a row
that another has read and not yet written: `Undisturbed`, which is what
`SELECT ... FOR UPDATE` would see to and no statement of this program has. It
says no more than that. Requests still overlap: several prepare applications
for one vacancy, one waits for another's row, a vacancy moves between the
request's first statement and the read of the vacancy; for these the lock of a
written row and the unique index must do, and the theorem shows that they do.
Without `Undisturbed` the workflow does not implement the lifecycle, which is
the subject of the finding `CancelledIsFinal`.

What that takes of the requests, and not of the steps, is `ApartSpec` in
ApplicationProofs: no two in flight are about one application, and none moves a
vacancy (a submission, an outcome, a PATCH) whose status another has read or
will. Any number of preparations may meet on one vacancy, and approvals and
cancellations of other applications beside them. An owner who waits for an
answer before he asks again about the same thing gets the lifecycle
(`PatientOwnerIsServed`); a double tap is what breaks the condition, and
`ApprovalsOverlapped` bounds what comes of it.

### VacancyImport

State: the committed row of each posting (source and external id): its content,
its status, the posting it is linked to; two history variables that only
properties read (which postings were imported again, and which were imported
where no lock ordered the imports); and for each worker the import or PATCH it
is in.

| Code | Model |
|---|---|
| `ImportManualVacancy`, an item of `runHeadhunterSource` | `BeginImport` |
| `GetOrCreateCompany` (locks the company) | `GetOrCreateCompany` |
| `FindVacancyBySourceExternalID` | `FindVacancy` |
| `detectDedup` through the pool, filters, score, `shouldPreserveStatus` | `DetectDuplicate`, `Classify` |
| `UpsertVacancy` (locks the vacancy) | `UpsertVacancy` |
| `UpsertVacancyMatch`, `COMMIT` | `Commit` |
| error, crash | `Rollback` |
| `App.UpdateVacancyStatus` | `BeginPatch`, `WritePatch` |

Contents are model values: two postings have the same content when
`HashVacancy` gives the same hash. The hash covers the employer's name, so a
content that names an employer determines its company (`Employer`), and the
lock on that company orders the imports of the content. A content that names
none belongs to the company named after the host of the URL (`CompaniesOf`):
two hosts are two companies and two locks, for one content. `GetOrCreateCompany`
then notes the postings in `unordered`. Filters and score are any member of
`Verdicts`, drawn anew by each import. Where `FindVacancyByContentHash` takes
the oldest of several primaries, the model takes any. Statuses an application
gives a vacancy reach the model as PATCHes.

### ImportContract, ImportRefinement

The contract is the import as its caller sees it, one step for each import and
each decision over the rows alone, no companies, locks or transactions. A new
posting is classified, unless a primary of the same content is there: then it
becomes that one's duplicate. A known one is brought up to date, keeps what was
decided about it and otherwise is classified anew; its link is cleared (the
finding `ReimportIsIdempotent` is part of the contract). A decision follows the
table and leaves the link alone.

The import implements it (`ContractSpec`) under its own `Undisturbed`: the row a
request has read is not written by another before it writes, the primary an
import has found stays one until it commits, and no import holds a lock that
does not order it (`UNCHANGED unordered`). That no primary *appears* after an
import has looked for one in vain is not asked for. The company's lock gives
that, and the theorem proves it.

How much of that the program sees to by itself is a second step
(`PatchesApartSpec`): if every version of a posting names the same employer
(`FixedEmployers`) and no PATCH is in flight for a posting an import or another
PATCH is working on, then no read is ever disturbed, for any number of imports
at once. What is left are PATCHes, which have no transaction, and employers
that change or are left out, for which the lock is taken on the wrong row.

### ConnectionPool

State: the owner of each connection, and for each request its stage, the
connections it works on and the company it locks. Requests come in three kinds:
imports, whose transaction holds a connection while `detectDedup` asks the pool
for another; listings, which query the company and the match of each row while
their rows are open; and everything else, which needs one connection at a time.

| Code | Model |
|---|---|
| `BeginTx`, `QueryContext` (wait in `DB.conn`) | `BeginImport`/`BeginTx`, `BeginListing`/`QueryRows`, `BeginSingle`/`QueryOne` |
| `GetOrCreateCompany`, `FindVacancyBySourceExternalID` | `GetOrCreateCompany`, `FindVacancy` |
| `detectDedup` | `DetectDedup`, `DedupDone` |
| `GetCompanyByID`, `GetVacancyMatch` for a row | `Lookup`, `LookupDone` |
| `rows.Close`, `COMMIT`, the end of a query | `CloseRows`, `Commit`, `QueryDone` |
| an error or a cancelled context, at any stage | `Abandon` |

It stands beside VacancyImport: that module assumes a connection for
`detectDedup`, this one says when there is one.

### HeadhunterClient, SearchRun

`HeadhunterClient` is the client that all searches and URL imports share: the
time since the last start of a request, and for each caller its call: asleep in
the throttle, waiting for an answer, asleep before the next attempt, or done.
Time is a duration counted in half seconds and cut at the delay, so that there
are finitely many states. Timers may be late: `Tick` does not wait for anybody.

`SearchRun` extends it with `App.RunSearch` and `App.ImportManualVacancy`: the
pages, the items, the counters, and the row of the source that is read at the
start and written back with a new date. Their calls are steps of the client,
and `UsesClient` checks that: the client's specification is a property of the
searches.

| Code | Model |
|---|---|
| `getJSON`, `throttle`, `waitFor` | `StartCall`, `Throttle`, `WakeUp` |
| classes of answers, `Retry-After` | `Succeed`, `GiveUp`, `BackOff`, `Pause`, `TryAgain` |
| a context that is done | `Cancel` |
| `RunSearch` to the first page | `BeginSearch` |
| `runHeadhunterSource` | `PageFetched`, `FetchDetails`, `ItemImported`, `ItemFailed`, `NextPage` |
| the end of `RunSearch` | `LastPage`, `PageFailed` |
| `ImportManualVacancy` of a HeadHunter URL | `BeginUrl`, `UrlDone` |

### Matching

Pure functions with a little state around them: the profile, the posting as
imported last, its match, and (history) the profile that import read. `Import`
computes everything anew, `SaveProfile` computes nothing. `ApplyHardFilters`
and the `score...` operators have the names of the functions they translate.

Texts are the sets of words they contain; "contains" is membership, and a role
or skill has an alias (`Canonical`). What one word contains of another is not
modelled here. Languages and work permits are required by no importer, so these
branches have one outcome.

### TelegramPoller

State: the database of ApplicationLifecycle, the updates Telegram has kept, the
goroutine (mode, offset, position in the batch), the buttons the owner can see.
`done` and `took` are history: an update was handled; it changed something. A
tap acts through an action of `Lifecycle`, an instance of ApplicationLifecycle,
so a tap does what the workflow implements while no read is disturbed. The same
requests arrive over HTTP between two steps of the goroutine. An update that
changes nothing (a command, a stranger's message, unknown data) passes like a
tap that fails.

| Code | Model |
|---|---|
| `GetUpdates` with an answer | `Receive` (drops what lies before the offset) |
| an error of it, `sleepFor` | `PollFailed`, `WakeUp` |
| `offset = update.UpdateID + 1`, `handleTelegramUpdate` | `Handle`, `HandleFails`, `AfterUpdate`, `Continue` |
| the handlers of callbacks | `Effect`, `Repeated` (a use case that finds its work done) |
| keyboards of the answers | `Answer`, `applicationPreviewMarkup`, `applicationStatusMarkup` |
| a request over HTTP (`http_resumes_applications.go`, PATCH of a vacancy) | `RequestOverHttp` |
| the process dies and starts again | `Crash`, `Restart` |

The offset counts from the first update that Telegram keeps, identifiers being
consecutive. An answer that does not arrive is
`Handle(FALSE)`. That Telegram forgets updates nobody fetched for a day is left
out.

### Profile

State: when each row of `candidate_profiles` was updated, the row of each
resume, the clock, and for each worker the request it is in. None of the three
requests has a transaction: each reads, computes and writes. The profile in
force is the row updated last (`GetCandidateProfile` orders by `updated_at`),
and resumes belong to a row, so a second row hides the resumes of the first.

| Code | Model |
|---|---|
| `SaveProfile` finds the profile in force | `BeginSave` |
| it finds none, or its query fails | `BeginFirstSave` |
| `time.Now()`, then `UpsertCandidateProfile` | `StampSave`, `UpsertCandidateProfile` |
| `CreateResume`, `UpdateResume` to the write | `CreateResume`, `UpdateResume` with `Patched` |
| `UpsertResume` | `UpsertResume` |
| an error, a cancelled context, a crash | `Abandon` |
| `Select`, `inferResumeTargetRole`, `filterResumesByRole`, the sort | the same names, `Candidates`, `Better` |

Abstracted: what a profile says (Matching draws it from a set), the name,
language and text of a resume (patched like its role), the resume an owner
names by hand (looked up in the same list). Two calls of the clock give two
times. A vacancy is the set of key words found in its texts, so that a key word
inside a longer word ("go" in "mongo") is part of the input.

### Startup

State: `schema_migrations` and its rows, `job_sources`, what each process is
doing. Processes start as `migrate` or as `serve`; nothing keeps two from
running together. A migration is one transaction whose statements wait for
another process that is creating the same tables, and whose `INSERT` into
`schema_migrations` fails when that one committed first.

| Code | Model |
|---|---|
| `ensureTable`, and the error when two create the table at once | `ensureTable`, `TableTaken` |
| `appliedVersions`, read once | `appliedVersions` |
| a pending migration: statements, then the row and `COMMIT` | `ApplyBody`, `Record`, `Overtaken` |
| no pending migration is left | `Migrated` |
| `runServe`: `ListJobSources`, an insert per missing type | `StartServe`, `ListJobSources`, `NoSourcesTable`, `UpsertJobSource` |
| the `select` of `runServe`, a signal | `Serve`, `Stop` |
| a statement fails, the process is killed | `Fault` |

History: how often the statements of a migration were committed (`ran`), whether
a migrating process met a fault (`faulted`), and which starts were seeding at
the same time (`together`). What the migrations create is the state of the
other modules; `Stop` does not wait for requests in flight, which for them is
`Rollback`, `Abandon` or `Crash`.

## 3. Runs

| Run | Question | Instance | Result |
|---|---|---|---|
| `workflow` | What do transactions, index and checks guarantee when requests overlap or are repeated, and is every request answered? | 2 workers, 1 vacancy, 2 applications, one outcome, fairness | 7 properties hold, 280,800 states |
| `undisturbed` | Does the workflow follow the tables while no request writes what another has read? | 2 workers, 1 vacancy, 3 applications, every outcome, every status in a PATCH | 3 properties hold, 186,400 states |
| `cancelled` | Is CANCELLED final? | 2 workers, 1 application | violated: see findings |
| `import` | What does the company's lock guarantee, do decisions outlast imports that saw them, do imports end? | 2 workers, 2 postings of which one may omit its employer, 2 contents, 2 hosts, fairness | 6 properties hold, 189,400 states |
| `import_archived` | Is ARCHIVED final? | 2 workers, 1 posting | violated |
| `import_duplicate` | Does importing again change anything? | 1 worker, 2 postings | violated |
| `pool` | What stops the program for good, and does a failure lose a connection? | 3 requests, 2 connections, 2 companies, 1 row per listing | 4 properties hold, 6,300 states |
| `search` | Distance of requests, accounts and dates, and do searches end? | 2 callers, 2 pages, 1 item, 2 searches, a delay of a half second | 5 properties hold, 213,000 states |
| `matching` | Do filters, scores and listing agree, and can a better fit lose? | 15 profiles, 219 postings, default weights | 4 properties hold, 49,000 states |
| `poller` | What do offset, crashes and redelivery do to taps, beside HTTP? | 1 vacancy, 2 applications, 2 updates at a time, 1 crash | 3 properties hold, 1,088,000 states |
| `profile` | What hides resumes, what can a patch undo, when does the choice change? | 2 workers, 2 profiles, 2 resumes, 3 times, 3 vacancies | 4 properties hold, 218,700 states |
| `startup` | What do racing migrations and starts guarantee, and do they complete? | 2 processes, 4 starts, 2 migrations, 1 fault, fairness | 4 properties hold, 25,500 states |

**Bounds.** All interference in this code is between two transactions and goes
through one row or one index entry: two workers meet every pair of stages, a
third only lengthens a queue. Two applications per vacancy are enough for an
open one to meet a new one, and a cancelled one to be revived beside it; the
undisturbed run has three to go around twice. The outcomes differ only in the
statuses they lead to, which the undisturbed run goes through; `workflow`
has one of them. `MaxAudit` stops a use case from
starting when the trail already has that many events of its kind: 1 in
`cancelled`; 2 in the undisturbed run, where a second event would break
`EachStepAuditedOnce` and must therefore be possible; and 2 in `workflow`, where
it takes a third approval to break `ApprovalsOverlapped` (two that overlap both
write; the bound only guards the start, so two requests more can exceed it). In
the undisturbed run the constraint on
the steps removes the writes that disturb a read and nothing else; what is left
of the overlaps is most of them. Two postings allow a
duplicate, a duplicate of itself and a cycle of two; longer chains are left to
the theorem. Two contents, one with an employer and one without, allow a posting
to leave the content another is a duplicate of. One posting may omit its
employer: that is enough for a vacancy to become a duplicate of itself, the case
`LinksLeadToPrimaries` excepts. The exception of `OnePrimaryPerContent` takes
two such postings, whose instance is too large to run with liveness; the theorem
covers it.

The pool has two connections and three requests, so that two can hold them and a
third can hold or want a lock; the theorem behind the run covers ten. The delay
of the throttle is one step, enough for two sleepers to leave together, and
`Retry-After` a date in the past, which the code replaces; its other values
only lengthen a sleep. Two pages are a first and a last one. In `matching` each
profile and posting differs from a base in one or two respects, and the run
takes every step from one posting and profile to another; the base sits on the
boundaries (a salary that is the minimum, totals near the thresholds). Two
pending updates are enough for a batch that is interrupted in the middle, and
for a tap and the tap that undoes it to be delivered twice; two applications
for the one a redelivered preparation opens. `MaxCrashes` is one: a second
crash repeats the first, and the theorem has no bound. In `profile` two rows and
three times are a first save, a second row and a late write of either; two
resumes of different roles are a choice, a fallback and their change. In
`startup` two migrations have an order, two types of sources a seeding that is
interrupted between them, and four starts let each process start again after the
other's. `MaxClock`, `MaxStarts` and `MaxFaults` guard the start of what they
count. Symmetry (of workers and of profiles) is used in `profile` only, which
has no liveness property.

The type invariants of `search` and `poller` are theorems and not in their runs.

**Fairness.** `SF_vars(Proceed(w))`: a worker whose next statement is possible
again and again takes it. PostgreSQL gives a row lock to its waiters in order
of arrival and the Go scheduler runs every runnable goroutine; what can disable
`Proceed` for a while is only somebody else's lock. No request has to arrive
and none has to fail: `Request` and `Rollback` are not fair. The import assumes
that the pool has a connection left for `detectDedup`; without it imports can
wait for each other for ever, which is the subject of ConnectionPool. There,
`database/sql` hands a connection that is returned to one of its waiters, drawn
at random, so whoever wants one again and again gets one: strong fairness of
`Proceed(r)`. Nobody has to give up (`Abandon` is not fair). For searches time
passes, timers fire and the HTTP client's timeout ends every request: weak
fairness, for each caller by itself. The poller's `Receive` is strongly fair,
since polls that are repeated are answered in the end and a failure disables
it for a while only; its timer, its handlers and the restart are weakly fair.
That a handler comes to an end presumes that it gets a connection, for which it
waits without a timeout: a pool that has stalled stops the poller too. A
migration and a seeding go on (`WF_vars(Migrate(p))`, `WF_vars(Seed(p))`): PostgreSQL answers,
and wakes who waited for a table; no process has to start, none is spared a
fault.

**Deadlock** is checked in every run but `startup`: an idle worker can always
accept a request, or roll back what it does. In `startup` all processes may have
ended with `MaxStarts` used up, which is where the program really stops; that
nobody waits for ever before is `MigrationCompletes`.

### Findings

1. `CancelledIsFinal`: an approval that read an application before it was
   cancelled writes it back as approved (`applications.go:95-111`).
2. `ArchivedStaysArchived`: an import that read a vacancy before it was
   archived offers it again (`app.go:360`, `426`).
3. `ReimportIsIdempotent`: importing an unchanged duplicate a second time
   removes its link and offers it (`app.go:453`). No concurrency is needed.

Stale reads are the only cause of the first two: while no read is disturbed
CANCELLED and ARCHIVED are final (theorems `CancelledStays` and `ArchivedStays`).

The properties that hold are worded around them: `ApprovalKept` and
`DecisionsOutlastImports` say precisely which writer is to blame. In the same
way `LinksLeadToPrimaries` and `OnePrimaryPerContent` name the imports that no
lock orders, `ResumesStayListed` and `PatchedFieldsStay` the overlap (or failed
read) without which they would hold outright, and `SourcesDoubleByOverlapOnly`
the overlap of two starts.

## 4. Proofs

The proof modules prove, for every number of workers, applications, vacancies,
postings, contents, hosts, requests, connections, callers, updates, crashes,
profiles, resumes, processes, migrations and starts, and for every profile,
posting, delay and weight:

* type correctness of every module;
* of the workflow: `OneActiveApplication`, `ExplicitApproval`,
  `ApprovalsOverlapped`, and the action
  properties `SubmissionMovesVacancy`, `ApprovalKept`;
* of the workflow while no read is disturbed: that it implements the lifecycle
  (`ImplementsLifecycle`), `VacancyKnowsSubmission`, `EachStepAuditedOnce`,
  `CancelledIsFinal`; and that all four hold for an owner who asks for one thing
  about an application, or about a vacancy that moves, at a time
  (`PatientOwnerIsServed`);
* of the import: `LinksLeadToPrimaries`, `OnePrimaryPerContent`,
  `LinkedIsNotOffered`, and the action property `DecisionsOutlastImports`;
* of the import while no read is disturbed: that it implements its contract
  (`ImplementsContract`), that a duplicate is one step from its primary
  (`LinksAreDirect`), `ArchivedStaysArchived`; and that imports by themselves,
  of postings whose employers stay, disturb no read (`ImportsKeepApart`);
* of the pool: `ConnectionsAccounted`, `StallsNeedNestedRequests`;
* of the client and the searches: `CallerKeepsDistance`, for the client alone
  and for the searches, which implement it (`UsesClient`); `SummaryAddsUp`;
  `SuccessIsForgottenByOverlapOnly`;
* of the matching: `FiltersAgreeWithScores`, `OfferedIsListed`, and
  `BetterFitIsKept`;
* of the poller with HTTP beside it: `DroppedWereHandled`,
  `RedeliveryIsHarmless`, that together they take the steps of the lifecycle and
  no other (`TapsFollowLifecycle`), and what the lifecycle keeps: at most one
  open application, and a vacancy that shows its application was sent
  (`LifecycleIsKept`);
* of the profile: `ResumesStayListed`, `PatchedFieldsStay`,
  `ChoiceFollowsChange`; and of the profile of one owner, whose first save was
  right to find none and alone in it (`OneOwnerSpec`): that there is never a
  second profile (`OwnerHasOneProfile`) and that a listed resume stays listed
  (`ListedStays`);
* of the start: `MigratedOnce`, `SourcesDoubleByOverlapOnly`, that a migrate
  which ends without an error leaves no migration undone
  (`SuccessMeansComplete`), and that a process which serves has its table of
  sources and a source of each type (`ServersFindTheirSources`), on which
  SearchRun relies.

They assume what the modules assume of their constants (`ASSUME`, evaluated by
TLC in every run): the sets of statuses are sets of statuses, `None` is none of
the other values, `Employer` gives a content a company or none, requests,
connections and skills are finite sets, versions and the identifiers of resumes
are ordered like numbers, weights are integers that sum to 100, the
thresholds are in order. Assumptions of single theorems and of no module:
`ImportsKeepApart` assumes that employers stay (`FixedEmployers`), the last two
about the poller that the owner may PATCH a vacancy to ARCHIVED (which the
handler allows, and which is what a skip does). `NonNegativeWeights` is the premise of those parts of the matching's
properties that need it: that a total lies between 0 and 100, and that a better
fit has a better total. The configuration accepts weights below zero, so it is
no assumption.

None of the properties is inductive by itself. The workflow's invariant is

    IInv == TypeOK /\ TxShape /\ Fresh /\ Locks /\ Trail /\ OneActiveApplication

`TxShape` says what a request in flight is about to write, `Fresh` that an
identifier drawn by one preparation is nobody else's, `Locks` that two
transactions that wrote do not hold the same row or the same index entry, and
`Trail` that a row, committed or about to be, has the dates and events of its
past. `OneActiveApplication` needs `Locks` at the commit: the other open
application that would break it was either there when the index was checked or
would have been waited for. `ExplicitApproval` is the part of `Trail` about
committed rows, and it survives stale writes because every stale row was itself
a committed row once. `ApprovalsOverlapped` is inductive together with
`Unapproved`: an application that can still be approved has no approval in its
trail, because no row written back ever says WAITING_APPROVAL again (`Fresh`).
So an approval that begins finds none, and from then on those in the trail and
those in flight only change places. It takes the set of requests to be finite.

*No read is disturbed.* `CurrentInv` adds to `IInv` that what a request in
flight has read is still there, and what follows from it: the status it is about
to write is one the table leads to from the committed one, the vacancy of a sent
application is past its submission, and trail and dates tell the same story. The
refinement follows: `COMMIT` (and the write of a PATCH) is the step of the
lifecycle, with the guard of the table it was checked against; every other step
is a stutter. That a preparation's commit finds no open application is not
among what `Undisturbed` gives; it comes from `Locks` and the index, as above.

The import's invariant is

    IInv == TypeOK /\ TxShape /\ Links /\ Decided /\ Dedup /\ OnePrimaryPerContent

`Links` says that a link is committed, or about to be written, only together
with DUPLICATE or ARCHIVED; `Decided` that what is about to be written follows
from what was read; `Dedup` that two imports that hold companies and have the
same content are both `unordered`, so that for the others the absence of a
primary an import has seen is still true when it commits, and that a PATCH in
flight does not change the link of a posting that was not imported again. Each
action has a lemma; under it, each part of the invariant has a step.

`LinksLeadToPrimaries` needs no induction over the length of a chain. The graph
has an edge for each link a row has, for each a request is about to write, and
for each row an import of a new posting may yet take for its primary. `Grounded`
says that no set of ordered postings has an edge within it from each of its
members, and that edges end at rows that exist. New edges start at a posting
that has no row, where no edge ends, so they close no cycle; that the posting
still has none when its import looks for a primary is what the lock on the
company gives.

*The import's contract.* The same two ideas: `CurrentInv` says that a request
that has read a row and not written it has read the committed one, that what it
is about to write follows from that, and that no link leads to a linked row. The
step of the contract is the commit; that the primary an import did not find is
still not there comes from `Dedup`, with `unordered` empty. That links stay
direct is the one point where a new posting, which nothing points to, matters:
a known posting may be a primary with duplicates, and its next import keeps it
one. `ImportsKeepApart` has an invariant of its own (`ApartInv`): who has read a
posting's row holds its employer's lock, or is a PATCH and alone with it; so
another import of that posting, or of another with the same content, waits
before it reads.

*Pool.* Accounts of connections are inductive together with the types. The
bound follows by counting: when nobody can go on, every connection is with
exactly one nested request, and no request has two, so that the map from
connections to their owners is an injection into the nested requests.

*Client and searches.* `CInv` adds to the types that nobody's own last start is
later than `lastStart` and that whoever sleeps in the throttle sleeps until the
delay since his own last start is over. The second is what survives although
the throttle does not look again. The searches map to the client by leaving its
three variables as they are; each of their steps is one of the client or leaves
the client alone, so the theorem about the client carries over. The summary
needs its own invariant over the items listed.

*Matching.* The match is always what filters and scores give for the posting
and profile the import read (`Computed`), so each property is a fact about the
operators. `BetterFitIsKept` is the longest: each score is monotone by itself,
the share of skills because rounding is, and weights that are not negative keep
the order of the sum. That filters and scores agree and that the listing
selects what the import offered needs no sign of a weight.

*Poller.* The invariant says that what lies before the offset has been handled
and that a tap which changed something is past: the application or vacancy is
in a set of statuses that the tables never leave (`Closed`) and from which they
do not lead to the tap's effect again. Every effect, of any tap, keeps all
pasts; that is one lemma per use case.

*Poller beside HTTP.* A request over HTTP is a step of the lifecycle and every
step of the lifecycle leads onward in the tables, so that a past stays a past
(`LifecycleMoves`). A tap is a step of the lifecycle too, or finds its work done;
so the goroutine, its crashes and what is delivered again add no behaviour to
the lifecycle's (`TapsFollowLifecycle`).

*Profile.* `IInv == TypeOK /\ TxShape /\ Owned`: a patch in flight writes what it
read, changed by `Patched`, and a resume stays with the profile it was created
for. What takes a resume off the list is then a new profile in force, and the
save that makes one was not told of the old. `ChoiceIsKept` rests on `Better`
being a total and transitive order, so that the choice is unique and depends on
nothing but the best candidate; a change of the set of candidates is a change
of the chosen one, or of the one that is chosen next. With one owner the
invariant adds `OneInv`: what a save found is there, and the only save that
found none is the one before which there is none. Later saves may overlap and
their times may cross, for they all write the same row.

*Start.* `IInv == TypeOK /\ Progress /\ MigratedOnce /\ Witnessed /\
SourcesDoubleByOverlapOnly`. `Progress` says that what a process still has to
apply contains everything above the version it is at, so that a version is
recorded after those below it, whoever recorded them; `Witnessed` that a source
another process inserted after this one listed the sources has its pair of
starts in `together`. `Seeded`, for what a server finds, says that a type a
process does not miss has a source; it is kept because nobody removes one.

`ApartSpec`, the contract of the import, `LinksAreDirect` and
`ArchivedStaysArchived` under `UndisturbedSpec`, and the theorems about the
lifecycle beside the poller, the one owner's profile, the servers' sources and
the success of a migrate were checked by TLC on small instances before they were proved, and have no run of
their own.

Only model-checked: the liveness properties, since fairness is outside the
prover's reach: `RequestsFinish`, `ImportsFinish`, `FinishesUnlessStalled`,
`RunsEnd`, `EveryTapIsHandled`, `MigrationCompletes`. Every safety and action
property the passing runs check is also a theorem.

## 5. Not modelled

* *HTTP handlers*: one use case each, modelled where the use case is. What they
  add, decoding and status codes, has no state.
* *In-memory store*: used by tests only. Its transaction rolls nothing back, so
  it is not a refinement of what the program runs on.
* *Configuration, identifiers, parsing*: read once or random; no state.
* *Cover letter and warnings*: text put together from its input.
* *Test support*.
* *Pages of listings*: cut by LIMIT and OFFSET of an order that imports change
  between two pages. A page promises nothing about the next one.
* *Negative weights* in the runs: the configuration allows them and the theorems
  cover them, with `NonNegativeWeights` where a property needs it, because with
  a negative one a better fit can lose by construction.
* *Words inside words* in the texts Matching looks at: its texts are sets of
  words, and a text that contains a word is one that has it.
* *Taps that overlap with HTTP statement by statement*: the poller is composed
  with whole requests, and ApplicationWorkflow covers requests that overlap,
  taps among them.
* *What waits for what outside the program*: `docker-compose.yml` starts the
  program beside the migration (`NoSourcesTable` is what happens when it comes
  too early); the shutdown of the HTTP server is not awaited (`Stop`).

Two divergences from the documentation are noted and have no run: the throttle
keeps a distance between the requests of one caller and not between all requests
(`.env.example`, `HH_MIN_DELAY_MS`), and the lists of matched and missing
skills come in the order of a Go map, so that the reasons of a score, unlike
the score, are not deterministic (`README.md:8`, "deterministic scoring").
