--------------------------- MODULE StartupProofs ---------------------------
(***************************************************************************)
(* Proofs about Startup, for every finite or infinite set of processes,    *)
(* any versions and any types of sources.                                  *)
(***************************************************************************)
EXTENDS Startup, TLAPS

\* What a migrating process no longer has to apply is recorded: by itself or by
\* whoever came before it.
Progress ==
  \A p \in Processes :
    proc[p].stage \in {"apply", "record"} => Versions \ proc[p].pending \subseteq applied

\* Processes that are seeding have seen each other, and a process still about to
\* insert a type has seen whoever inserted it.
Witnessed ==
  \A p \in Processes : Seeding(p) =>
    /\ \A q \in Processes \ {p} :
         Seeding(q) => {proc[p].start, proc[q].start} \in together
    /\ \A s \in sources :
         s.type \in proc[p].missing => {s.start, proc[p].start} \in together

IInv == TypeOK /\ Progress /\ MigratedOnce /\ Witnessed /\ SourcesDoubleByOverlapOnly

-----------------------------------------------------------------------------
(* Types.                                                                  *)


LEMMA OffTyped == Off \in Proc
BY DEF Off, Proc, Stages, MigrateStages

\* What the statements of a process do to its record, and to nobody else's.
Steps(p, stage, pending, missing) ==
  /\ proc' \in [Processes -> Proc]
  /\ \A q \in Processes \ {p} : proc'[q] = proc[q]
  /\ proc'[p].stage = stage /\ proc'[p].start = proc[p].start
  /\ proc'[p].pending = pending /\ proc'[p].missing = missing

LEMMA StageChanges ==
  ASSUME TypeOK, NEW p \in Processes, NEW stage \in Stages,
         proc' = [proc EXCEPT ![p].stage = stage]
  PROVE  Steps(p, stage, proc[p].pending, proc[p].missing)
<1>1. proc[p] \in Proc
  BY DEF TypeOK
<1> QED
  BY <1>1 DEF TypeOK, Proc, Steps

LEMMA PendingChanges ==
  ASSUME TypeOK, NEW p \in Processes, NEW stage \in Stages, NEW pending \in SUBSET Versions,
         proc' = [proc EXCEPT ![p].stage = stage, ![p].pending = pending]
  PROVE  Steps(p, stage, pending, proc[p].missing)
<1>1. proc[p] \in Proc
  BY DEF TypeOK
<1> QED
  BY <1>1 DEF TypeOK, Proc, Steps

LEMMA MissingChanges ==
  ASSUME TypeOK, NEW p \in Processes, NEW stage \in Stages, NEW missing \in SUBSET Types,
         proc' = [proc EXCEPT ![p].stage = stage, ![p].missing = missing]
  PROVE  Steps(p, stage, proc[p].pending, missing)
<1>1. proc[p] \in Proc
  BY DEF TypeOK
<1> QED
  BY <1>1 DEF TypeOK, Proc, Steps

LEMMA Inserted ==
  ASSUME TypeOK, NEW p \in Processes, NEW missing \in SUBSET Types,
         proc' = [proc EXCEPT ![p].missing = missing]
  PROVE  Steps(p, proc[p].stage, proc[p].pending, missing)
<1>1. proc[p] \in Proc
  BY DEF TypeOK
<1> QED
  BY <1>1 DEF TypeOK, Proc, Steps

-----------------------------------------------------------------------------
(* Steps that commit nothing.                                              *)

\* A process that only moves on keeps the invariant, if what it is about to
\* apply is what is pending, and if it is not about to insert anything new.
LEMMA MovesOn ==
  ASSUME IInv, NEW p \in Processes, NEW rec \in Proc,
         proc' \in [Processes -> Proc], proc'[p] = rec,
         \A q \in Processes \ {p} : proc'[q] = proc[q],
         rec.stage \in {"apply", "record"} => Versions \ rec.pending \subseteq applied,
         rec.stage # "seed",
         table' \in BOOLEAN, starts' \in Nat, faults' \in Nat, faulted' \in BOOLEAN,
         UNCHANGED <<applied, ran, sources, together>>
  PROVE  IInv'
<1>1. TypeOK'
  BY DEF IInv, TypeOK
<1>2. Progress'
  BY DEF IInv, Progress
<1>3. MigratedOnce' /\ SourcesDoubleByOverlapOnly'
  BY DEF IInv, MigratedOnce, SourcesDoubleByOverlapOnly
<1>4. Witnessed'
  BY DEF IInv, Witnessed, Seeding
<1> QED
  BY <1>1, <1>2, <1>3, <1>4 DEF IInv

LEMMA ExitSafe ==
  ASSUME IInv, NEW p \in Processes, Exit(p), UNCHANGED <<database, starts>>,
         faults' \in Nat, faulted' \in BOOLEAN, UNCHANGED together
  PROVE  IInv'
<1>1. Off.stage = "off"
  BY DEF Off
<1>2. /\ proc' \in [Processes -> Proc] /\ proc'[p] = Off
      /\ \A q \in Processes \ {p} : proc'[q] = proc[q]
  BY OffTyped DEF Exit, IInv, TypeOK
<1>3. table' \in BOOLEAN /\ starts' \in Nat
  BY DEF IInv, TypeOK, database
<1> QED
  BY <1>1, <1>2, <1>3, OffTyped, MovesOn DEF database

\* A process starts with the stage of its command.
LEMMA StartSafe ==
  ASSUME IInv, NEW p \in Processes, NEW rec \in Proc,
         rec.stage \in {"ensure", "list"}, proc' = [proc EXCEPT ![p] = rec],
         starts' = starts + 1, faulted' \in BOOLEAN, UNCHANGED <<database, faults, together>>
  PROVE  IInv'
<1>1. /\ proc' \in [Processes -> Proc] /\ proc'[p] = rec
      /\ \A q \in Processes \ {p} : proc'[q] = proc[q]
  BY DEF IInv, TypeOK
<1>2. table' \in BOOLEAN /\ starts' \in Nat /\ faults' \in Nat
  BY DEF IInv, TypeOK, database
<1> QED
  BY <1>1, <1>2, MovesOn DEF database

\* A process goes on to another stage than seeding.
LEMMA StageSafe ==
  ASSUME IInv, NEW p \in Processes, NEW stage \in Stages \ {"seed"},
         NEW pending \in SUBSET Versions, Steps(p, stage, pending, proc[p].missing),
         stage \in {"apply", "record"} => Versions \ pending \subseteq applied,
         table' \in BOOLEAN, UNCHANGED <<applied, ran, sources, starts, history>>
  PROVE  IInv'
<1>1. proc'[p] \in Proc /\ proc'[p].stage = stage /\ proc'[p].pending = pending
  BY DEF Steps
<1>2. starts' \in Nat /\ faults' \in Nat /\ faulted' \in BOOLEAN /\ UNCHANGED together
  BY DEF IInv, TypeOK, history
<1> QED
  BY <1>1, <1>2, MovesOn DEF Steps

-----------------------------------------------------------------------------
(* Steps that commit.                                                      *)

\* The version recorded is the least of the pending ones, so that everything
\* below it is recorded; and it was not recorded before.
LEMMA RecordSafe ==
  ASSUME IInv, NEW p \in Processes, NEW v \in Versions, Record(p, v)
  PROVE  IInv'
<1>1. proc[p] \in Proc
  BY DEF IInv, TypeOK
<1>2. /\ v \in proc[p].pending /\ \A u \in proc[p].pending : v <= u
      /\ v \notin applied /\ Versions \ proc[p].pending \subseteq applied
      /\ proc[p].pending \subseteq Versions
  BY <1>1 DEF Record, IsNext, IInv, Progress, Proc
<1>3. Steps(p, "apply", proc[p].pending \ {v}, proc[p].missing)
  BY <1>2, PendingChanges DEF Record, IInv, Stages, MigrateStages
<1>4. /\ applied' = applied \cup {v} /\ ran' = [ran EXCEPT ![v] = @ + 1]
      /\ UNCHANGED <<table, sources, starts, faults, faulted, together>>
  BY DEF Record, history
<1>5. TypeOK'
  BY <1>3, <1>4 DEF IInv, TypeOK, Steps
<1>6. Progress'
  BY <1>2, <1>3, <1>4 DEF IInv, Progress, Steps
<1>7. MigratedOnce'
  <2>1. ran[v] = 0 /\ ran \in [Versions -> Nat]
    BY <1>2 DEF IInv, TypeOK, MigratedOnce
  <2>2. \A u \in Versions : ran'[u] = IF u \in applied' THEN 1 ELSE 0
    BY <1>4, <2>1 DEF IInv, MigratedOnce
  <2>3. \A u \in Versions : u < v => u \in applied
    BY <1>2, VersionsAssumption
  <2> QED
    BY <1>4, <2>2, <2>3 DEF IInv, MigratedOnce
<1>8. Witnessed' /\ SourcesDoubleByOverlapOnly'
  <2>1. \A q \in Processes : Seeding(q)' => q # p /\ proc'[q] = proc[q]
    BY <1>3 DEF Seeding, Steps
  <2> QED
    BY <1>4, <2>1 DEF IInv, Witnessed, Seeding, SourcesDoubleByOverlapOnly
<1> QED
  BY <1>5, <1>6, <1>7, <1>8 DEF IInv

\* The types that are missing have no source yet, and the processes that are
\* seeding are noted.
LEMMA ListSafe ==
  ASSUME IInv, NEW p \in Processes, ListJobSources(p)
  PROVE  IInv'
<1> DEFINE missing == {t \in Types : ~hasSourceType(t)}
<1>1. Steps(p, "seed", proc[p].pending, missing)
  BY MissingChanges DEF ListJobSources, IInv, Stages
<1>2. /\ UNCHANGED <<table, applied, ran, sources, starts, faults, faulted>>
      /\ together' = together \cup
           {{proc[p].start, proc[q].start} : q \in {r \in Processes \ {p} : Seeding(r)}}
  BY DEF ListJobSources, database
<1>3. \A q \in Processes : proc[q].start \in Nat
  BY DEF IInv, TypeOK, Proc
<1>4. TypeOK'
  <2>1. together' \subseteq SUBSET Nat
    <3>1. \A q \in Processes : {proc[p].start, proc[q].start} \in SUBSET Nat
      BY <1>3
    <3>2. together \subseteq SUBSET Nat
      BY DEF IInv, TypeOK
    <3>3. ASSUME NEW pair \in together' PROVE pair \in SUBSET Nat
      <4>1. pair \in together \/ \E q \in Processes : pair = {proc[p].start, proc[q].start}
        BY <1>2
      <4>2. CASE pair \in together
        BY <3>2, <4>2
      <4>3. ASSUME NEW q \in Processes, pair = {proc[p].start, proc[q].start}
            PROVE  pair \in SUBSET Nat
        BY <3>1, <4>3
      <4> QED
        BY <4>1, <4>2, <4>3
    <3> QED
      BY <3>3
  <2> QED
    BY <1>1, <1>2, <2>1 DEF IInv, TypeOK, Steps
<1>5. Progress' /\ MigratedOnce' /\ SourcesDoubleByOverlapOnly'
  BY <1>1, <1>2 DEF IInv, Progress, MigratedOnce, SourcesDoubleByOverlapOnly, Steps
<1>6. Witnessed'
  <2>1. ASSUME NEW q \in Processes, NEW r \in Processes \ {q}, Seeding(q)', Seeding(r)'
        PROVE  {proc'[q].start, proc'[r].start} \in together'
    <3>1. CASE q = p
      BY <1>1, <1>2, <2>1, <3>1 DEF Steps, Seeding
    <3>2. CASE r = p
      <4>1. q # p /\ Seeding(q) /\ proc'[q] = proc[q] /\ proc'[r].start = proc[p].start
        BY <1>1, <2>1, <3>2 DEF Steps, Seeding
      <4>2. {proc[p].start, proc[q].start} \in together'
        BY <1>2, <4>1
      <4>3. {proc[p].start, proc[q].start} = {proc[q].start, proc[p].start}
        OBVIOUS
      <4> QED
        BY <4>1, <4>2, <4>3
    <3>3. CASE q # p /\ r # p
      BY <1>1, <1>2, <2>1, <3>3 DEF Steps, Seeding, IInv, Witnessed
    <3> QED
      BY <3>1, <3>2, <3>3
  <2>2. ASSUME NEW q \in Processes, Seeding(q)', NEW s \in sources',
               s.type \in proc'[q].missing
        PROVE  {s.start, proc'[q].start} \in together'
    <3>1. CASE q = p
      BY <1>1, <1>2, <2>2, <3>1 DEF Steps, hasSourceType
    <3>2. CASE q # p
      BY <1>1, <1>2, <2>2, <3>2 DEF Steps, Seeding, IInv, Witnessed
    <3> QED
      BY <3>1, <3>2
  <2> QED
    BY <2>1, <2>2 DEF Witnessed
<1> QED
  BY <1>4, <1>5, <1>6 DEF IInv

\* A source that is inserted twice was still missing where the second one comes
\* from, and that process has seen the other.
LEMMA UpsertSafe ==
  ASSUME IInv, NEW p \in Processes, NEW t \in Types, UpsertJobSource(p, t)
  PROVE  IInv'
<1> DEFINE source == [type |-> t, start |-> proc[p].start]
<1>1. proc[p] \in Proc
  BY DEF IInv, TypeOK
<1>2. Seeding(p) /\ t \in proc[p].missing
  BY DEF UpsertJobSource, IsNextType
<1>3. Steps(p, proc[p].stage, proc[p].pending, proc[p].missing \ {t})
  BY <1>1, Inserted DEF UpsertJobSource, IInv, Proc
<1>4. /\ sources' = sources \cup {source}
      /\ UNCHANGED <<table, applied, ran, starts, faults, faulted, together>>
  BY DEF UpsertJobSource, history
<1>5. source \in Source /\ source.type = t /\ source.start = proc[p].start
  BY <1>1 DEF Source, Proc
<1> HIDE DEF source
<1>6. TypeOK'
  BY <1>3, <1>4, <1>5 DEF IInv, TypeOK, Steps
<1>7. Progress' /\ MigratedOnce'
  BY <1>3, <1>4 DEF IInv, Progress, MigratedOnce, Steps
<1>8. Witnessed'
  <2>1. \A q \in Processes : /\ Seeding(q)' => Seeding(q)
                             /\ proc'[q].start = proc[q].start
                             /\ proc'[q].missing \subseteq proc[q].missing
    BY <1>3 DEF Steps, Seeding
  <2>2. ASSUME NEW q \in Processes, Seeding(q)', NEW s \in sources',
               s.type \in proc'[q].missing
        PROVE  {s.start, proc'[q].start} \in together'
    <3>1. CASE s = source
      <4>1. q # p
        BY <1>3, <1>5, <2>2, <3>1 DEF Steps
      <4> QED
        BY <1>2, <1>4, <1>5, <2>1, <2>2, <3>1, <4>1 DEF IInv, Witnessed
    <3>2. CASE s \in sources
      BY <1>4, <2>1, <2>2, <3>2 DEF IInv, Witnessed
    <3> QED
      BY <1>4, <3>1, <3>2
  <2>3. ASSUME NEW q \in Processes, NEW r \in Processes \ {q}, Seeding(q)', Seeding(r)'
        PROVE  {proc'[q].start, proc'[r].start} \in together'
    BY <1>4, <2>1, <2>3 DEF IInv, Witnessed
  <2> QED
    BY <2>2, <2>3 DEF Witnessed
<1>9. SourcesDoubleByOverlapOnly'
  <2>1. \A s \in sources : s.type = t => {s.start, source.start} \in together
    BY <1>2, <1>5 DEF IInv, Witnessed
  <2>2. \A s \in sources : {s.start, source.start} = {source.start, s.start}
    OBVIOUS
  <2> QED
    BY <1>4, <1>5, <2>1, <2>2 DEF IInv, SourcesDoubleByOverlapOnly
<1> QED
  BY <1>6, <1>7, <1>8, <1>9 DEF IInv

-----------------------------------------------------------------------------
(* Every step.                                                             *)

LEMMA InitInv == Init => IInv
<1> SUFFICES ASSUME Init PROVE IInv
  OBVIOUS
<1>1. \A p \in Processes : proc[p].stage = "off"
  BY DEF Init, Off
<1>2. TypeOK
  BY OffTyped DEF Init, TypeOK
<1>3. Progress /\ Witnessed
  BY <1>1 DEF Progress, Witnessed, Seeding
<1>4. MigratedOnce /\ SourcesDoubleByOverlapOnly
  BY DEF Init, MigratedOnce, SourcesDoubleByOverlapOnly
<1> QED
  BY <1>2, <1>3, <1>4 DEF IInv

LEMMA MigrateSafe ==
  ASSUME IInv, NEW p \in Processes, Migrate(p)
  PROVE  IInv'
<1>1. /\ proc[p] \in Proc /\ proc[p].pending \subseteq Versions
      /\ table \in BOOLEAN /\ starts \in Nat /\ faults \in Nat /\ faulted \in BOOLEAN
  BY DEF IInv, TypeOK, Proc
<1>2. {"read", "apply", "record"} \subseteq Stages \ {"seed"}
  BY DEF Stages, MigrateStages
<1>3. CASE ensureTable(p)
  <2>1. Steps(p, "read", proc[p].pending, proc[p].missing)
    BY <1>2, <1>3, StageChanges DEF ensureTable, IInv
  <2> QED
    BY <1>1, <1>2, <1>3, <2>1, StageSafe DEF ensureTable
<1>4. CASE appliedVersions(p)
  <2>1. Steps(p, "apply", Versions \ applied, proc[p].missing)
    BY <1>2, <1>4, PendingChanges DEF appliedVersions, IInv
  <2>2. Versions \ (Versions \ applied) \subseteq applied
    OBVIOUS
  <2> QED
    BY <1>1, <1>2, <1>4, <2>1, <2>2, StageSafe DEF appliedVersions, database
<1>5. ASSUME NEW v \in Versions, ApplyBody(p, v) PROVE IInv'
  <2>1. Steps(p, "record", proc[p].pending, proc[p].missing)
    BY <1>2, <1>5, StageChanges DEF ApplyBody, IInv
  <2>2. Versions \ proc[p].pending \subseteq applied
    BY <1>5 DEF ApplyBody, IInv, Progress
  <2> QED
    BY <1>1, <1>2, <1>5, <2>1, <2>2, StageSafe DEF ApplyBody, database
<1>6. CASE TableTaken(p) \/ Migrated(p) \/ \E v \in Versions : Overtaken(p, v)
  BY <1>1, <1>6, ExitSafe DEF TableTaken, Migrated, Overtaken, history
<1> QED
  BY <1>3, <1>4, <1>5, <1>6, RecordSafe DEF Migrate

LEMMA SeedSafe ==
  ASSUME IInv, NEW p \in Processes, Seed(p)
  PROVE  IInv'
<1>1. /\ proc[p] \in Proc /\ proc[p].pending \subseteq Versions
      /\ table \in BOOLEAN /\ starts \in Nat /\ faults \in Nat /\ faulted \in BOOLEAN
  BY DEF IInv, TypeOK, Proc
<1>2. CASE Serve(p)
  <2>1. "serve" \in Stages \ {"seed"}
    BY DEF Stages
  <2>2. Steps(p, "serve", proc[p].pending, proc[p].missing)
    BY <1>2, <2>1, StageChanges DEF Serve, IInv
  <2> QED
    BY <1>1, <1>2, <2>1, <2>2, StageSafe DEF Serve, database
<1>3. CASE NoSourcesTable(p)
  BY <1>1, <1>3, ExitSafe DEF NoSourcesTable, history
<1> QED
  BY <1>2, <1>3, ListSafe, UpsertSafe DEF Seed

LEMMA NextInv == IInv /\ [Next]_vars => IInv'
<1> SUFFICES ASSUME IInv, [Next]_vars PROVE IInv'
  OBVIOUS
<1>1. /\ table \in BOOLEAN /\ starts \in Nat /\ faults \in Nat /\ faulted \in BOOLEAN
  BY DEF IInv, TypeOK
<1>2. ASSUME NEW p \in Processes, StartMigrate(p) PROVE IInv'
  <2> DEFINE rec == [Off EXCEPT !.stage = "ensure", !.start = starts', !.early = ~table]
  <2>1. starts' = starts + 1 /\ faulted' \in BOOLEAN
    BY <1>1, <1>2 DEF StartMigrate
  <2>2. rec \in Proc /\ rec.stage = "ensure"
    <3>1. starts' \in Nat /\ "ensure" \in Stages
      BY <1>1, <2>1 DEF Stages, MigrateStages
    <3>2. Off \in Proc
      BY OffTyped
    <3> QED
      BY <3>1, <3>2 DEF Proc
  <2>3. proc' = [proc EXCEPT ![p] = rec]
    BY <1>2 DEF StartMigrate
  <2> HIDE DEF rec
  <2> QED
    BY <1>2, <2>1, <2>2, <2>3, StartSafe DEF StartMigrate
<1>3. ASSUME NEW p \in Processes, StartServe(p) PROVE IInv'
  <2> DEFINE rec == [Off EXCEPT !.stage = "list", !.start = starts']
  <2>1. starts' = starts + 1 /\ faulted' \in BOOLEAN
    BY <1>1, <1>3 DEF StartServe, history
  <2>2. rec \in Proc /\ rec.stage = "list"
    <3>1. starts' \in Nat /\ "list" \in Stages
      BY <1>1, <2>1 DEF Stages
    <3>2. Off \in Proc
      BY OffTyped
    <3> QED
      BY <3>1, <3>2 DEF Proc
  <2>3. proc' = [proc EXCEPT ![p] = rec]
    BY <1>3 DEF StartServe
  <2> HIDE DEF rec
  <2> QED
    BY <1>3, <2>1, <2>2, <2>3, StartSafe DEF StartServe, history
<1>4. ASSUME NEW p \in Processes, Stop(p) PROVE IInv'
  BY <1>1, <1>4, ExitSafe DEF Stop, history
<1>5. ASSUME NEW p \in Processes, Fault(p) PROVE IInv'
  <2>1. faults' \in Nat /\ faulted' \in BOOLEAN
    BY <1>1, <1>5 DEF Fault, Migrating
  <2> QED
    BY <1>5, <2>1, ExitSafe DEF Fault
<1>6. CASE UNCHANGED vars
  BY <1>6 DEF vars, IInv, TypeOK, Progress, MigratedOnce, Witnessed, Seeding,
              SourcesDoubleByOverlapOnly
<1> QED
  BY <1>2, <1>3, <1>4, <1>5, <1>6, MigrateSafe, SeedSafe DEF Next

LEMMA InvariantHolds == Spec => []IInv
BY InitInv, NextInv, PTL DEF Spec

-----------------------------------------------------------------------------

\* Rows and processes keep their types through starts, faults and stops.
THEOREM TypeCorrect == Spec => []TypeOK
<1>1. IInv => TypeOK
  BY DEF IInv
<1> QED
  BY <1>1, InvariantHolds, PTL

\* However many processes migrate together, each migration is committed once,
\* with its version, and in the order of the versions.
THEOREM EachMigrationOnce == Spec => []MigratedOnce
<1>1. IInv => MigratedOnce
  BY DEF IInv
<1> QED
  BY <1>1, InvariantHolds, PTL

\* Two sources of one type come from two processes that were seeding together.
THEOREM DoublesNeedOverlap == Spec => []SourcesDoubleByOverlapOnly
<1>1. IInv => SourcesDoubleByOverlapOnly
  BY DEF IInv
<1> QED
  BY <1>1, InvariantHolds, PTL

-----------------------------------------------------------------------------
(* What the rest of the program may rely on.                               *)

\* A process that serves has its table of sources and a source of each type.
ServesWhatIsThere ==
  \A p \in Processes : proc[p].stage = "serve" =>
    SourcesTable /\ \A t \in Types : hasSourceType(t)

SeededAt(p) ==
  /\ Seeding(p) => SourcesTable /\ \A t \in Types \ proc[p].missing : hasSourceType(t)
  /\ proc[p].stage = "serve" => SourcesTable /\ \A t \in Types : hasSourceType(t)

Seeded == \A p \in Processes : SeededAt(p)

\* Nobody removes a version or a source.
LEMMA RowsStay ==
  ASSUME [Next]_vars
  PROVE  applied \subseteq applied' /\ sources \subseteq sources'
<1>1. ASSUME NEW p \in Processes, Migrate(p)
      PROVE  applied \subseteq applied' /\ sources \subseteq sources'
  BY <1>1 DEF Migrate, ensureTable, TableTaken, appliedVersions, Migrated, ApplyBody, Record,
              Overtaken, database
<1>2. ASSUME NEW p \in Processes, Seed(p)
      PROVE  applied \subseteq applied' /\ sources \subseteq sources'
  BY <1>2 DEF Seed, ListJobSources, NoSourcesTable, Serve, UpsertJobSource, database
<1>3. ASSUME NEW p \in Processes, StartMigrate(p) \/ StartServe(p) \/ Stop(p) \/ Fault(p)
      PROVE  applied \subseteq applied' /\ sources \subseteq sources'
  BY <1>3 DEF StartMigrate, StartServe, Stop, Fault, database
<1>4. CASE UNCHANGED vars
  BY <1>4 DEF vars
<1> QED
  BY <1>1, <1>2, <1>3, <1>4 DEF Next

\* What one process does is nothing to the others.
LEMMA OthersStay ==
  ASSUME IInv, Next
  PROVE  \E p \in Processes :
           /\ \A q \in Processes \ {p} : proc'[q] = proc[q]
           /\ \/ proc'[p].stage \notin {"seed", "serve"}
              \/ ListJobSources(p)
              \/ \E t \in Types : UpsertJobSource(p, t)
              \/ Serve(p)
<1>0. proc \in [Processes -> Proc]
  BY DEF IInv, TypeOK
<1>1. PICK p \in Processes :
        \/ StartMigrate(p) \/ Migrate(p) \/ StartServe(p) \/ Seed(p) \/ Stop(p) \/ Fault(p)
  BY DEF Next
<1>2. CASE StartMigrate(p) \/ StartServe(p)
  BY <1>0, <1>1, <1>2 DEF StartMigrate, StartServe, Off
<1>3. CASE Stop(p) \/ Fault(p)
  BY <1>0, <1>1, <1>3 DEF Stop, Fault, Exit, Off
<1>4. CASE Migrate(p)
  <2>1. {"read", "apply", "record"} \subseteq Stages \ {"seed", "serve"}
    BY DEF Stages, MigrateStages
  <2>2. CASE ensureTable(p)
    <3>1. Steps(p, "read", proc[p].pending, proc[p].missing)
      BY <2>1, <2>2, StageChanges DEF ensureTable, IInv
    <3> QED
      BY <2>1, <3>1 DEF Steps
  <2>3. CASE appliedVersions(p)
    <3>1. Steps(p, "apply", Versions \ applied, proc[p].missing)
      BY <2>1, <2>3, PendingChanges DEF appliedVersions, IInv
    <3> QED
      BY <2>1, <3>1 DEF Steps
  <2>4. ASSUME NEW v \in Versions, ApplyBody(p, v)
        PROVE  /\ \A q \in Processes \ {p} : proc'[q] = proc[q]
               /\ proc'[p].stage \notin {"seed", "serve"}
    <3>1. Steps(p, "record", proc[p].pending, proc[p].missing)
      BY <2>1, <2>4, StageChanges DEF ApplyBody, IInv
    <3> QED
      BY <2>1, <3>1 DEF Steps
  <2>5. ASSUME NEW v \in Versions, Record(p, v)
        PROVE  /\ \A q \in Processes \ {p} : proc'[q] = proc[q]
               /\ proc'[p].stage \notin {"seed", "serve"}
    <3>1. proc[p].pending \ {v} \in SUBSET Versions
      BY DEF IInv, TypeOK, Proc
    <3>2. Steps(p, "apply", proc[p].pending \ {v}, proc[p].missing)
      BY <2>1, <2>5, <3>1, PendingChanges DEF Record, IInv
    <3> QED
      BY <2>1, <3>2 DEF Steps
  <2>6. CASE TableTaken(p) \/ Migrated(p) \/ \E v \in Versions : Overtaken(p, v)
    BY <1>0, <1>1, <2>6 DEF TableTaken, Migrated, Overtaken, Exit, Off
  <2> QED
    BY <1>1, <1>4, <2>2, <2>3, <2>4, <2>5, <2>6 DEF Migrate
<1>5. CASE Seed(p)
  <2>1. \A q \in Processes \ {p} : proc'[q] = proc[q]
    <3>1. ASSUME ListJobSources(p)
          PROVE  \A q \in Processes \ {p} : proc'[q] = proc[q]
      <4>1. Steps(p, "seed", proc[p].pending, {t \in Types : ~hasSourceType(t)})
        BY <3>1, MissingChanges DEF ListJobSources, IInv, Stages
      <4> QED
        BY <4>1 DEF Steps
    <3>2. ASSUME NoSourcesTable(p) \/ Serve(p) \/ \E t \in Types : UpsertJobSource(p, t)
          PROVE  \A q \in Processes \ {p} : proc'[q] = proc[q]
      BY <1>0, <3>2 DEF NoSourcesTable, Serve, UpsertJobSource, Exit
    <3> QED
      BY <1>5, <3>1, <3>2 DEF Seed
  <2>2. NoSourcesTable(p) => proc'[p].stage = "off"
    BY <1>0 DEF NoSourcesTable, Exit, Off
  <2> QED
    BY <1>0, <1>1, <1>5, <2>1, <2>2 DEF Seed
<1> QED
  BY <1>1, <1>2, <1>3, <1>4, <1>5

LEMMA NextSeeded == IInv /\ Seeded /\ [Next]_vars => Seeded'
<1> SUFFICES ASSUME IInv, Seeded, [Next]_vars PROVE Seeded'
  OBVIOUS
<1>1. /\ SourcesTable => SourcesTable'
      /\ \A t \in Types : hasSourceType(t) => hasSourceType(t)'
  BY RowsStay DEF SourcesTable, hasSourceType
<1>2. ASSUME NEW q \in Processes, proc'[q] = proc[q] PROVE SeededAt(q)'
  BY <1>1, <1>2 DEF Seeded, SeededAt, Seeding
<1>3. CASE UNCHANGED vars
  BY <1>2, <1>3 DEF vars, Seeded
<1>4. CASE Next
  <2>1. PICK p \in Processes :
          /\ \A q \in Processes \ {p} : proc'[q] = proc[q]
          /\ \/ proc'[p].stage \notin {"seed", "serve"}
             \/ ListJobSources(p)
             \/ \E t \in Types : UpsertJobSource(p, t)
             \/ Serve(p)
    BY <1>4, OthersStay
  <2>2. ASSUME proc'[p].stage \notin {"seed", "serve"}
        PROVE  SeededAt(p)'
    BY <2>2 DEF SeededAt, Seeding
  <2>3. ASSUME ListJobSources(p)
        PROVE  SeededAt(p)'
    <3>1. SourcesTable' /\ sources' = sources
      BY <1>1, <2>3 DEF ListJobSources, database
    <3>2. /\ proc'[p].stage = "seed"
          /\ proc'[p].missing = {t \in Types : ~hasSourceType(t)}
      <4>1. Steps(p, "seed", proc[p].pending, {t \in Types : ~hasSourceType(t)})
        BY <2>3, MissingChanges DEF ListJobSources, IInv, Stages
      <4> QED
        BY <4>1 DEF Steps
    <3> QED
      BY <3>1, <3>2 DEF SeededAt, Seeding, hasSourceType
  <2>4. ASSUME NEW t \in Types, UpsertJobSource(p, t)
        PROVE  SeededAt(p)'
    <3>1. /\ proc'[p].stage = "seed" /\ proc'[p].missing = proc[p].missing \ {t}
          /\ Seeding(p)
      BY <2>4 DEF UpsertJobSource, Seeding, IInv, TypeOK
    <3>2. hasSourceType(t)'
      <4>1. PICK source \in sources' : source = [type |-> t, start |-> proc[p].start]
        BY <2>4 DEF UpsertJobSource
      <4>2. source.type = t
        BY <4>1
      <4> QED
        BY <4>2 DEF hasSourceType
    <3> QED
      BY <1>1, <3>1, <3>2 DEF Seeded, SeededAt, Seeding
  <2>5. ASSUME Serve(p)
        PROVE  SeededAt(p)'
    <3>1. Seeding(p) /\ proc[p].missing = {} /\ proc'[p].stage = "serve"
      BY <2>5 DEF Serve, IInv, TypeOK
    <3> QED
      BY <1>1, <3>1 DEF Seeded, SeededAt, Seeding
  <2>6. SeededAt(p)'
    BY <2>1, <2>2, <2>3, <2>4, <2>5
  <2> QED
    BY <1>2, <2>1, <2>6 DEF Seeded
<1> QED
  BY <1>3, <1>4

\* Whatever races with it or was killed before it, a process that reaches the
\* select of runServe finds every type of source: RunSearch and the import of a
\* URL rely on it.
THEOREM ServersFindTheirSources == Spec => []ServesWhatIsThere
<1>1. Init => Seeded
  BY DEF Init, Off, Seeded, SeededAt, Seeding
<1>2. Seeded => ServesWhatIsThere
  BY DEF Seeded, SeededAt, ServesWhatIsThere
<1> QED
  BY <1>1, <1>2, NextSeeded, InvariantHolds, PTL DEF Spec

\* A migrate that ends without an error leaves no migration undone, whoever did
\* them.
SuccessIsComplete == [][\A p \in Processes : Migrated(p) => applied = Versions]_vars

THEOREM SuccessMeansComplete == Spec => SuccessIsComplete
<1>1. IInv => \A p \in Processes : Migrated(p) => applied = Versions
  BY DEF IInv, TypeOK, Progress, Migrated
<1>2. IInv /\ [Next]_vars => [\A p \in Processes : Migrated(p) => applied = Versions]_vars
  BY <1>1
<1> QED
  BY <1>2, InvariantHolds, PTL DEF Spec, SuccessIsComplete
=============================================================================
