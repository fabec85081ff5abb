------------------------------ MODULE Startup ------------------------------
(***************************************************************************)
(* What processes of the program do to an empty database before they serve *)
(* anything: `jobscout migrate` applies the pending migrations             *)
(* (internal/migrate), `jobscout serve` inserts the sources of vacancies   *)
(* that are missing (SeedCoreSources) and then serves until it is told to  *)
(* stop (cmd/jobscout/main.go).  Nothing keeps two of them from running at *)
(* the same time, and each may be killed or fail anywhere.                 *)
(*                                                                         *)
(* A migration is one transaction: its statements, all CREATE ... IF NOT   *)
(* EXISTS, and the row of schema_migrations, whose primary key is the      *)
(* version.  A statement that creates what another transaction is creating *)
(* waits for it, and fails when that one commits.                          *)
(***************************************************************************)
EXTENDS Naturals, FiniteSets, Sequences

CONSTANTS
  Processes,
  Versions,    \* of the migration files
  SeedOrder,   \* the types of sources SeedCoreSources looks for, in order
  MaxStarts,   \* bound: starts of a process
  MaxFaults    \* bound: statements that fail, processes that are killed

ASSUME VersionsAssumption == Versions \subseteq Nat /\ Versions # {}
ASSUME SeedOrderAssumption == SeedOrder \in Seq(STRING)
ASSUME StartBounds == MaxStarts \in Nat /\ MaxFaults \in Nat

Types == {SeedOrder[i] : i \in 1..Len(SeedOrder)}

VARIABLES
  table,     \* schema_migrations exists
  applied,   \* its rows
  ran,       \* history: how often a migration's statements were committed
  sources,   \* the rows of job_sources: their type, and the start that inserted them
  proc,      \* what each process is doing
  starts,    \* the number of starts so far
  faults,    \* the number of faults so far
  faulted,   \* history: a migrating process met a fault since one began alone
  together   \* history: pairs of starts that were seeding at the same time

vars == <<table, applied, ran, sources, proc, starts, faults, faulted, together>>

MigrateStages == {"ensure", "read", "apply", "record"}

Stages == {"off", "list", "seed", "serve"} \cup MigrateStages

(***************************************************************************)
(* Stages, named after the statement that comes next:                      *)
(*   ensure   CREATE TABLE IF NOT EXISTS schema_migrations                 *)
(*   read     appliedVersions                                              *)
(*   apply    the statements of the first pending migration                *)
(*   record   INSERT INTO schema_migrations, COMMIT                        *)
(*   list     ListJobSources                                               *)
(*   seed     UpsertJobSource for the first missing type                   *)
(*   serve    the select at the end of runServe                            *)
(***************************************************************************)
Proc == [stage: Stages,
         start: Nat,
         early: BOOLEAN,              \* began before the table was there
         pending: SUBSET Versions,    \* not in the rows it read, not applied by it
         missing: SUBSET Types]       \* not among the sources it listed, not inserted by it

Off == [stage |-> "off", start |-> 0, early |-> FALSE, pending |-> {}, missing |-> {}]

Source == [type: Types, start: Nat]

TypeOK ==
  /\ table \in BOOLEAN
  /\ applied \subseteq Versions
  /\ ran \in [Versions -> Nat]
  /\ sources \subseteq Source
  /\ proc \in [Processes -> Proc]
  /\ starts \in Nat /\ faults \in Nat
  /\ faulted \in BOOLEAN
  /\ together \subseteq SUBSET Nat

Init ==
  /\ table = FALSE
  /\ applied = {}
  /\ ran = [v \in Versions |-> 0]
  /\ sources = {}
  /\ proc = [p \in Processes |-> Off]
  /\ starts = 0 /\ faults = 0
  /\ faulted = FALSE
  /\ together = {}

-----------------------------------------------------------------------------

Migrating(p) == proc[p].stage \in MigrateStages

Seeding(p) == proc[p].stage = "seed"

database == <<table, applied, ran, sources>>
history == <<faults, faulted, together>>

Exit(p) == proc' = [proc EXCEPT ![p] = Off]

(***************************************************************************)
(* jobscout migrate.                                                       *)
(***************************************************************************)

StartMigrate(p) ==
  /\ proc[p].stage = "off"
  /\ starts < MaxStarts
  /\ starts' = starts + 1
  /\ proc' = [proc EXCEPT ![p] = [Off EXCEPT !.stage = "ensure", !.start = starts',
                                             !.early = ~table]]
  /\ faulted' = (faulted /\ \E q \in Processes : Migrating(q))
  /\ UNCHANGED <<database, faults, together>>

ensureTable(p) ==
  /\ proc[p].stage = "ensure"
  /\ table' = TRUE
  /\ proc' = [proc EXCEPT ![p].stage = "read"]
  /\ UNCHANGED <<applied, ran, sources, starts, history>>

\* Fault: CREATE TABLE without IF NOT EXISTS.
TableTakenAlways(p) ==
  /\ proc[p].stage = "ensure" /\ table
  /\ Exit(p)
  /\ UNCHANGED <<database, starts, history>>

\* Two processes create the table at the same time, and one is told that it
\* exists by an error.
TableTaken(p) ==
  /\ proc[p].stage = "ensure" /\ proc[p].early /\ table
  /\ Exit(p)
  /\ UNCHANGED <<database, starts, history>>

appliedVersions(p) ==
  /\ proc[p].stage = "read"
  /\ proc' = [proc EXCEPT ![p].stage = "apply", ![p].pending = Versions \ applied]
  /\ UNCHANGED <<database, starts, history>>

\* The pending migrations are applied in the order of their versions.
IsNext(p, v) == v \in proc[p].pending /\ \A u \in proc[p].pending : v <= u

\* Another transaction is creating the tables of the same version.
BodyWaits(p, v) ==
  v \notin applied /\ \E q \in Processes \ {p} : proc[q].stage = "record" /\ IsNext(q, v)

ApplyBody(p, v) ==
  /\ proc[p].stage = "apply" /\ IsNext(p, v)
  /\ ~BodyWaits(p, v)
  /\ proc' = [proc EXCEPT ![p].stage = "record"]
  /\ UNCHANGED <<database, starts, history>>

\* Fault: ON CONFLICT DO NOTHING.
RecordAgain(p, v) ==
  /\ proc[p].stage = "record" /\ IsNext(p, v)
  /\ applied' = applied \cup {v}
  /\ ran' = [ran EXCEPT ![v] = @ + 1]
  /\ proc' = [proc EXCEPT ![p].stage = "apply", ![p].pending = @ \ {v}]
  /\ UNCHANGED <<table, sources, starts, history>>

\* Fault: the position of the file, counted from zero, is recorded.
RecordPosition(p, v) ==
  /\ proc[p].stage = "record" /\ IsNext(p, v)
  /\ v - 1 \notin applied
  /\ applied' = applied \cup {v - 1}
  /\ ran' = [ran EXCEPT ![v] = @ + 1]
  /\ proc' = [proc EXCEPT ![p].stage = "apply", ![p].pending = @ \ {v}]
  /\ UNCHANGED <<table, sources, starts, history>>

Record(p, v) ==
  /\ proc[p].stage = "record" /\ IsNext(p, v)
  /\ v \notin applied
  /\ applied' = applied \cup {v}
  /\ ran' = [ran EXCEPT ![v] = @ + 1]
  /\ proc' = [proc EXCEPT ![p].stage = "apply", ![p].pending = @ \ {v}]
  /\ UNCHANGED <<table, sources, starts, history>>

\* The version is there: the primary key refuses a second row, the transaction
\* is rolled back and the process ends with the error.
Overtaken(p, v) ==
  /\ proc[p].stage = "record" /\ IsNext(p, v)
  /\ v \in applied
  /\ Exit(p)
  /\ UNCHANGED <<database, starts, history>>

Migrated(p) ==
  /\ proc[p].stage = "apply" /\ proc[p].pending = {}
  /\ Exit(p)
  /\ UNCHANGED <<database, starts, history>>

(***************************************************************************)
(* jobscout serve.                                                         *)
(***************************************************************************)

StartServe(p) ==
  /\ proc[p].stage = "off"
  /\ starts < MaxStarts
  /\ starts' = starts + 1
  /\ proc' = [proc EXCEPT ![p] = [Off EXCEPT !.stage = "list", !.start = starts']]
  /\ UNCHANGED <<database, history>>

\* job_sources is created by the first migration.
SourcesTable == \E v \in applied : \A u \in Versions : v <= u

hasSourceType(t) == \E s \in sources : s.type = t

\* Fault: a type that is missing has all of them inserted.
ListJobSourcesForAll(p) ==
  /\ proc[p].stage = "list"
  /\ SourcesTable
  /\ proc' = [proc EXCEPT ![p].stage = "seed",
       ![p].missing = IF \A t \in Types : hasSourceType(t) THEN {} ELSE Types]
  /\ together' = together \cup
       {{proc[p].start, proc[q].start} : q \in {r \in Processes \ {p} : Seeding(r)}}
  /\ UNCHANGED <<database, starts, faults, faulted>>

\* Sources are listed once, for all the types.  (The processes seeding now are
\* noted for the properties.)
ListJobSources(p) ==
  /\ proc[p].stage = "list"
  /\ SourcesTable
  /\ proc' = [proc EXCEPT ![p].stage = "seed",
                          ![p].missing = {t \in Types : ~hasSourceType(t)}]
  /\ together' = together \cup
       {{proc[p].start, proc[q].start} : q \in {r \in Processes \ {p} : Seeding(r)}}
  /\ UNCHANGED <<database, starts, faults, faulted>>

\* There is no such table yet: the process ends with the error.
NoSourcesTable(p) ==
  /\ proc[p].stage = "list"
  /\ ~SourcesTable
  /\ Exit(p)
  /\ UNCHANGED <<database, starts, history>>

IsNextType(p, t) ==
  \E i \in 1..Len(SeedOrder) :
    /\ t = SeedOrder[i] /\ t \in proc[p].missing
    /\ \A j \in 1..(i - 1) : SeedOrder[j] \notin proc[p].missing

UpsertJobSource(p, t) ==
  /\ Seeding(p) /\ IsNextType(p, t)
  /\ sources' = sources \cup {[type |-> t, start |-> proc[p].start]}
  /\ proc' = [proc EXCEPT ![p].missing = @ \ {t}]
  /\ UNCHANGED <<table, applied, ran, starts, history>>

Serve(p) ==
  /\ Seeding(p) /\ proc[p].missing = {}
  /\ proc' = [proc EXCEPT ![p].stage = "serve"]
  /\ UNCHANGED <<database, starts, history>>

\* A signal, or a port that is taken.  The process does not wait for the
\* requests it has accepted: main returns while server.Shutdown runs.
Stop(p) ==
  /\ proc[p].stage = "serve"
  /\ Exit(p)
  /\ UNCHANGED <<database, starts, history>>

\* A statement fails, or the process is killed; what is not committed is gone.
Fault(p) ==
  /\ proc[p].stage # "off"
  /\ faults < MaxFaults
  /\ faults' = faults + 1
  /\ faulted' = (faulted \/ Migrating(p))
  /\ Exit(p)
  /\ UNCHANGED <<database, starts, together>>

-----------------------------------------------------------------------------

Migrate(p) ==
  \/ ensureTable(p) \/ TableTaken(p) \/ appliedVersions(p) \/ Migrated(p)
  \/ \E v \in Versions : ApplyBody(p, v) \/ Record(p, v) \/ Overtaken(p, v)

Seed(p) ==
  \/ ListJobSources(p) \/ NoSourcesTable(p) \/ Serve(p)
  \/ \E t \in Types : UpsertJobSource(p, t)

Next ==
  \E p \in Processes :
    \/ StartMigrate(p) \/ Migrate(p)
    \/ StartServe(p) \/ Seed(p) \/ Stop(p)
    \/ Fault(p)

Spec == Init /\ [][Next]_vars

\* PostgreSQL answers and wakes up who waits; nothing has to be started.
FairSpec == Spec /\ \A p \in Processes : WF_vars(Migrate(p)) /\ WF_vars(Seed(p))

-----------------------------------------------------------------------------
(* What must hold.                                                         *)

\* However many processes migrate at the same time, and wherever they die, the
\* statements of each migration are committed at most once, exactly when the
\* version is recorded, and no version before the ones below it.
MigratedOnce ==
  \A v \in Versions :
    /\ ran[v] = IF v \in applied THEN 1 ELSE 0
    /\ v \in applied => \A u \in Versions : u < v => u \in applied

\* A process that loses a race ends with an error, and yet between them the
\* processes complete the schema, unless one of them meets a fault.
MigrationCompletes ==
  (\E p \in Processes : Migrating(p)) ~> (applied = Versions \/ faulted)

\* No unique key forbids two sources of one type.  It takes two starts that
\* were seeding at the same time: a start that was interrupted between two
\* types, or that follows another, adds what is missing.
SourcesDoubleByOverlapOnly ==
  \A s, r \in sources :
    s.type = r.type /\ s # r => {s.start, r.start} \in together
=============================================================================
