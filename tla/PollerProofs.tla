---------------------------- MODULE PollerProofs ----------------------------
(***************************************************************************)
(* Proofs about TelegramPoller, for any number of updates, vacancies,      *)
(* applications and crashes.  What lies before the offset has been         *)
(* handled, and what a tap has changed stays in its past: no later request *)
(* leads back to where the tap took effect.  The goroutine, its crashes    *)
(* and what is delivered again add nothing to what the lifecycle allows.   *)
(***************************************************************************)
EXTENDS TelegramPoller, SequenceTheorems, TLAPS

\* Where an application is once the outcome s has been recorded.
Reached ==
  [hr |-> OutcomeStatuses, interview |-> {"INTERVIEW", "OFFER", "REJECTED"},
   offer |-> {"OFFER"}, reject |-> {"REJECTED"}]

\* The tap has had its effect and cannot have it again, save that a
\* preparation may open another application.
Past(press) ==
  /\ press.do = "prep" => \E a \in Applications : about[a] = press.on
  /\ press.do = "skip" => vacancy[press.on] = "ARCHIVED"
  /\ press.do = "approve" => status[press.on] \notin {None, "WAITING_APPROVAL"}
  /\ press.do = "cancel" => status[press.on] = "CANCELLED"
  /\ press.do = "submitted" => status[press.on] \in {"SUBMITTED"} \cup OutcomeStatuses
  /\ press.do \in Outcomes => status[press.on] \in Reached[press.do]

\* An application has a vacancy as soon as it has a status.
Exists == \A a \in Applications : about[a] = None <=> status[a] = None

TookIsPast ==
  \A i \in 1 .. Len(queue), press \in Buttons :
    queue[i].took /\ queue[i].press = press => Past(press)

OffsetIsHandled ==
  /\ \A i \in 1 .. bot.offset : queue[i].done
  /\ bot.mode = "handling" => bot.next = bot.offset + 1

IInv == TypeOK /\ Exists /\ TookIsPast /\ OffsetIsHandled

\* What an application never leaves once it is in it.
Closed ==
  {ApplicationStatuses \ {"WAITING_APPROVAL"}, {"CANCELLED"}, {"SUBMITTED"} \cup OutcomeStatuses}
    \cup {Reached[o] : o \in Outcomes}

Follows(s, t) == t \in ApplicationStatuses /\ \A S \in Closed : s \in S => t \in S

-----------------------------------------------------------------------------
(* The two tables, as far as a tap can use them.                           *)

LEMMA ArchivedIsFinal ==
  ASSUME NEW s, Lifecycle!CanTransitionVacancyStatus("ARCHIVED", s)
  PROVE  s = "ARCHIVED"
BY DEF Lifecycle!CanTransitionVacancyStatus, Lifecycle!vacancyTransitions, Lifecycle!VacancyStatuses

LEMMA Table ==
  ASSUME NEW from \in ApplicationStatuses, NEW to, to # "WAITING_APPROVAL",
         to \in Lifecycle!applicationTransitions[from]
  PROVE  Follows(from, to)
<1>1. to \in ApplicationStatuses
  BY DEF Lifecycle!applicationTransitions, Lifecycle!ApplicationStatuses, ApplicationStatuses
<1>2. /\ from # "CANCELLED"
      /\ from = "SUBMITTED" => to \in OutcomeStatuses
      /\ from = "HR_CONTACT" => to \in {"INTERVIEW", "REJECTED"}
      /\ from = "INTERVIEW" => to \in {"OFFER", "REJECTED"}
      /\ from \notin {"OFFER", "REJECTED"}
  BY DEF Lifecycle!applicationTransitions, Lifecycle!ApplicationStatuses, ApplicationStatuses,
         OutcomeStatuses
<1>3. ASSUME NEW S \in Closed, from \in S
      PROVE  to \in S
  BY <1>1, <1>2, <1>3 DEF Closed, Reached, OutcomeStatuses, ApplicationStatuses, Outcomes, OutcomeOf
<1> QED
  BY <1>1, <1>3 DEF Follows

LEMMA CancelledIsLast == "CANCELLED" \notin Lifecycle!applicationTransitions["CANCELLED"]
BY DEF Lifecycle!applicationTransitions, Lifecycle!ApplicationStatuses

\* No move of the table leads to a report that is past.
LEMMA NoWayBack ==
  /\ \A s \in {"SUBMITTED"} \cup OutcomeStatuses :
       "SUBMITTED" \notin Lifecycle!applicationTransitions[s]
  /\ \A o \in Outcomes : \A s \in Reached[o] :
       OutcomeOf[o] \notin Lifecycle!applicationTransitions[s]
<1>1. /\ \A s \in {"SUBMITTED"} \cup OutcomeStatuses :
            "SUBMITTED" \notin Lifecycle!applicationTransitions[s]
      /\ \A s \in OutcomeStatuses : "HR_CONTACT" \notin Lifecycle!applicationTransitions[s]
      /\ \A s \in {"INTERVIEW", "OFFER", "REJECTED"} :
            "INTERVIEW" \notin Lifecycle!applicationTransitions[s]
      /\ "OFFER" \notin Lifecycle!applicationTransitions["OFFER"]
      /\ "REJECTED" \notin Lifecycle!applicationTransitions["REJECTED"]
  BY DEF Lifecycle!applicationTransitions, Lifecycle!ApplicationStatuses, OutcomeStatuses
<1> QED
  BY <1>1 DEF Outcomes, OutcomeOf, Reached

-----------------------------------------------------------------------------
(* What a tap does to the database.                                        *)

DatabaseOK ==
  /\ vacancy \in [Vacancies -> VacancyStatuses]
  /\ about \in [Applications -> Vacancies \cup {None}]
  /\ status \in [Applications -> ApplicationStatuses \cup {None}]
  /\ Exists

\* What no request takes back.
Onward ==
  /\ \A v \in Vacancies : vacancy[v] = "ARCHIVED" => vacancy'[v] = "ARCHIVED"
  /\ \A a \in Applications : about[a] # None => about'[a] = about[a]
  /\ \A a \in Applications : status[a] # None => Follows(status[a], status'[a])

LEMMA FollowsItself == \A s \in ApplicationStatuses : Follows(s, s)
BY DEF Follows

\* An application moves along the table, its vacancy with it or not at all.
LEMMA ApplicationMoves ==
  ASSUME DatabaseOK, NEW a \in Applications, NEW s,
         status[a] \in ApplicationStatuses, Follows(status[a], s),
         status' = [status EXCEPT ![a] = s], about' = about,
         vacancy' \in [Vacancies -> VacancyStatuses],
         \A v \in Vacancies : vacancy[v] = "ARCHIVED" => vacancy'[v] = "ARCHIVED"
  PROVE  DatabaseOK' /\ Onward
<1>1. s \in ApplicationStatuses /\ s # None /\ status[a] # None
  BY PollerNoneAssumption DEF Follows
<1>2. DatabaseOK'
  BY <1>1 DEF DatabaseOK, Exists
<1>3. ASSUME NEW b \in Applications, status[b] # None
      PROVE  Follows(status[b], status'[b])
  BY <1>3, FollowsItself DEF DatabaseOK
<1> QED
  BY <1>2, <1>3 DEF Onward

LEMMA NothingMoves ==
  ASSUME DatabaseOK, UNCHANGED database
  PROVE  DatabaseOK' /\ Onward
BY FollowsItself DEF DatabaseOK, Exists, Onward, database

LEMMA VacancyKept ==
  ASSUME DatabaseOK, UNCHANGED vacancy
  PROVE  /\ vacancy' \in [Vacancies -> VacancyStatuses]
         /\ \A v \in Vacancies : vacancy[v] = "ARCHIVED" => vacancy'[v] = "ARCHIVED"
BY DEF DatabaseOK

LEMMA PrepareMoves ==
  ASSUME DatabaseOK, NEW a \in Applications, NEW v \in Vacancies, Lifecycle!Prepare(a, v)
  PROVE  DatabaseOK' /\ Onward /\ about'[a] = v
<1> USE PollerNoneAssumption DEF Lifecycle!Prepare
<1>1. "WAITING_APPROVAL" \in ApplicationStatuses /\ status[a] = None
  BY DEF ApplicationStatuses, DatabaseOK, Exists
<1>2. DatabaseOK' /\ about'[a] = v
  BY <1>1 DEF DatabaseOK, Exists
<1>3. ASSUME NEW b \in Applications, status[b] # None
      PROVE  Follows(status[b], status'[b])
  BY <1>1, <1>3, FollowsItself DEF DatabaseOK
<1> QED
  BY <1>1, <1>2, <1>3 DEF Onward, DatabaseOK

LEMMA ApproveMoves ==
  ASSUME DatabaseOK, NEW a \in Applications, Lifecycle!Approve(a)
  PROVE  DatabaseOK' /\ Onward /\ status'[a] = "MANUAL_ACTION_REQUIRED"
<1> USE DEF Lifecycle!Approve
<1>1. "WAITING_APPROVAL" \in ApplicationStatuses
      /\ Follows("WAITING_APPROVAL", "MANUAL_ACTION_REQUIRED")
  BY DEF ApplicationStatuses, Follows, Closed, Reached, OutcomeStatuses, Outcomes, OutcomeOf
<1>2. DatabaseOK' /\ Onward
  BY <1>1, ApplicationMoves, VacancyKept
<1> QED
  BY <1>2 DEF DatabaseOK

LEMMA CancelMoves ==
  ASSUME DatabaseOK, NEW a \in Applications, Lifecycle!Cancel(a)
  PROVE  DatabaseOK' /\ Onward /\ status'[a] = "CANCELLED"
<1> USE DEF Lifecycle!Cancel
<1>1. status[a] \in ApplicationStatuses
  BY DEF Lifecycle!ApplicationStatuses, ApplicationStatuses
<1>2. Follows(status[a], "CANCELLED")
  BY <1>1, Table
<1>3. DatabaseOK' /\ Onward
  BY <1>1, <1>2, ApplicationMoves, VacancyKept
<1> QED
  BY <1>3 DEF DatabaseOK

\* A vacancy leaves ARCHIVED for no status.
LEMMA VacancyMoves ==
  ASSUME DatabaseOK, NEW v \in Vacancies, NEW s \in VacancyStatuses,
         Lifecycle!CanTransitionVacancyStatus(vacancy[v], s),
         vacancy' = [vacancy EXCEPT ![v] = s]
  PROVE  /\ vacancy' \in [Vacancies -> VacancyStatuses]
         /\ \A u \in Vacancies : vacancy[u] = "ARCHIVED" => vacancy'[u] = "ARCHIVED"
         /\ vacancy'[v] = s
<1>1. vacancy[v] = "ARCHIVED" => s = "ARCHIVED"
  BY ArchivedIsFinal
<1> QED
  BY <1>1 DEF DatabaseOK

LEMMA ReportMoves ==
  ASSUME DatabaseOK, NEW a \in Applications, NEW s \in {"SUBMITTED"} \cup OutcomeStatuses,
         Lifecycle!Report(a, s)
  PROVE  DatabaseOK' /\ Onward /\ status'[a] = s
<1> USE DEF Lifecycle!Report
<1>1. status[a] \in ApplicationStatuses
  BY DEF Lifecycle!ApplicationStatuses, ApplicationStatuses
<1>2. Follows(status[a], s)
  BY <1>1, Table DEF OutcomeStatuses
<1>3. about[a] \in Vacancies
  BY <1>1, PollerNoneAssumption DEF DatabaseOK, Exists
<1>4. s \in VacancyStatuses
  BY DEF OutcomeStatuses, VacancyStatuses
<1>5. /\ vacancy' \in [Vacancies -> VacancyStatuses]
      /\ \A v \in Vacancies : vacancy[v] = "ARCHIVED" => vacancy'[v] = "ARCHIVED"
  BY <1>3, <1>4, VacancyMoves
<1>6. DatabaseOK' /\ Onward
  BY <1>1, <1>2, <1>5, ApplicationMoves
<1> QED
  BY <1>6 DEF DatabaseOK

LEMMA ChangeMoves ==
  ASSUME DatabaseOK, NEW v \in Vacancies, NEW s \in VacancyStatuses,
         Lifecycle!ChangeVacancy(v, s)
  PROVE  DatabaseOK' /\ Onward /\ vacancy'[v] = s
<1> USE DEF Lifecycle!ChangeVacancy
<1>2. /\ vacancy' \in [Vacancies -> VacancyStatuses]
      /\ \A u \in Vacancies : vacancy[u] = "ARCHIVED" => vacancy'[u] = "ARCHIVED"
      /\ vacancy'[v] = s
  BY VacancyMoves DEF DatabaseOK
<1>3. \A a \in Applications : status[a] # None => Follows(status[a], status'[a])
  BY FollowsItself DEF DatabaseOK
<1> QED
  BY <1>2, <1>3 DEF DatabaseOK, Exists, Onward

LEMMA LifecycleMoves ==
  ASSUME DatabaseOK, Lifecycle!Next
  PROVE  DatabaseOK' /\ Onward
<1>1. CASE \E a \in Applications, v \in Vacancies : Lifecycle!Prepare(a, v)
  BY <1>1, PrepareMoves
<1>2. CASE \E a \in Applications : Lifecycle!Approve(a) \/ Lifecycle!Cancel(a)
  BY <1>2, ApproveMoves, CancelMoves
<1>3. CASE \E a \in Applications, s \in {"SUBMITTED"} \cup OutcomeStatuses :
             Lifecycle!Report(a, s)
  BY <1>3, ReportMoves
<1>4. CASE \E v \in Vacancies, s \in PatchTargets : Lifecycle!ChangeVacancy(v, s)
  BY <1>4, ChangeMoves, PollerStatusesAssumption
<1> QED
  BY <1>1, <1>2, <1>3, <1>4 DEF Lifecycle!Next

-----------------------------------------------------------------------------
(* The past of a tap.                                                      *)

LEMMA PressCases ==
  ASSUME NEW press \in Buttons
  PROVE  \/ press.do \in {"prep", "skip"} /\ press.on \in Vacancies
         \/ press.do \in {"approve", "cancel", "submitted"} \cup Outcomes /\ press.on \in Applications
BY DEF Buttons

LEMMA OutcomeFacts ==
  ASSUME NEW o \in Outcomes
  PROVE  /\ OutcomeOf[o] \in OutcomeStatuses /\ OutcomeOf[o] \in Reached[o]
         /\ None \notin Reached[o]
         /\ o \notin {"prep", "skip", "approve", "cancel", "submitted"}
<1>1. Reached[o] \subseteq ApplicationStatuses
  BY DEF Outcomes, OutcomeOf, OutcomeStatuses, Reached, ApplicationStatuses
<1>2. None \notin Reached[o]
  BY <1>1, PollerNoneAssumption
<1> QED
  BY <1>2 DEF Outcomes, OutcomeOf, OutcomeStatuses, Reached

\* What is past stays past.
LEMMA PastStays ==
  ASSUME DatabaseOK, Onward, NEW press \in Buttons, Past(press)
  PROVE  Past(press)'
<1> DEFINE a == press.on
<1>1. CASE press.do \in {"prep", "skip"}
  <2>1. press.on \in Vacancies /\ press.do \notin {"approve", "cancel", "submitted"} \cup Outcomes
    BY <1>1, PressCases, OutcomeFacts DEF Buttons
  <2> QED
    BY <1>1, <2>1, PollerNoneAssumption DEF Past, Onward
<1>2. CASE press.do \in {"approve", "cancel", "submitted"} \cup Outcomes
  <2>1. a \in Applications /\ press.do \notin {"prep", "skip"}
    BY <1>2, PressCases, OutcomeFacts DEF Buttons
  <2>2. status[a] \in ApplicationStatuses \cup {None}
    BY <2>1 DEF DatabaseOK
  <2>3. status[a] # None
    BY <1>2, OutcomeFacts, PollerNoneAssumption
    DEF Past, ApplicationStatuses, OutcomeStatuses
  <2>4. Follows(status[a], status'[a])
    BY <2>1, <2>3 DEF Onward
  <2>5. status'[a] # None
    BY <2>4, PollerNoneAssumption DEF Follows
  <2>6. \A S \in Closed : status[a] \in S => status'[a] \in S
    BY <2>4 DEF Follows
  <2>7. press.do = "approve" => status'[a] \notin {None, "WAITING_APPROVAL"}
    BY <2>2, <2>5, <2>6 DEF Past, Closed
  <2>8. press.do = "cancel" => status'[a] = "CANCELLED"
    BY <2>6 DEF Past, Closed
  <2>9. press.do = "submitted" => status'[a] \in {"SUBMITTED"} \cup OutcomeStatuses
    BY <2>6 DEF Past, Closed
  <2>10. press.do \in Outcomes => status'[a] \in Reached[press.do]
    BY <2>6 DEF Past, Closed
  <2> QED
    BY <2>1, <2>7, <2>8, <2>9, <2>10 DEF Past
<1> QED
  BY <1>1, <1>2, PressCases

\* A tap that takes effect is past afterwards.
LEMMA EffectIsPast ==
  ASSUME DatabaseOK, NEW press \in Buttons, Effect(press)
  PROVE  DatabaseOK' /\ Onward /\ Past(press)'
<1> USE PressCases
<1>1. CASE press.do = "prep" /\ \E a \in Applications : Lifecycle!Prepare(a, press.on)
  BY <1>1, PrepareMoves, OutcomeFacts DEF Past
<1>2. CASE press.do = "skip" /\ Lifecycle!ChangeVacancy(press.on, "ARCHIVED")
  <2>1. "ARCHIVED" \in VacancyStatuses
    BY DEF VacancyStatuses
  <2> QED
    BY <1>2, <2>1, ChangeMoves, OutcomeFacts DEF Past
<1>3. CASE press.do = "approve" /\ ApproveTap(press.on)
  BY <1>3, ApproveMoves, OutcomeFacts, PollerNoneAssumption DEF Past, ApproveTap, ApplicationStatuses
<1>4. CASE press.do = "cancel" /\ Lifecycle!Cancel(press.on)
  BY <1>4, CancelMoves, OutcomeFacts DEF Past
<1>5. CASE press.do = "submitted" /\ Lifecycle!Report(press.on, "SUBMITTED")
  BY <1>5, ReportMoves, OutcomeFacts DEF Past
<1>6. CASE press.do \in Outcomes /\ Lifecycle!Report(press.on, OutcomeOf[press.do])
  BY <1>6, ReportMoves, OutcomeFacts DEF Past
<1> QED
  BY <1>1, <1>2, <1>3, <1>4, <1>5, <1>6 DEF Effect

\* A tap whose effect is past changes nothing, unless it is a preparation
\* and the application it led to is closed.
LEMMA PastIsHarmless ==
  ASSUME DatabaseOK, NEW press \in Buttons, Past(press), Effect(press) \/ Repeated(press),
         database' # database
  PROVE  /\ press.do = "prep"
         /\ \E a \in Applications : about[a] = press.on /\ ~IsActiveStatus(status[a])
         /\ vacancy' = vacancy
         /\ \A a \in Applications : about[a] # None => status'[a] = status[a]
<1> USE PressCases
<1>1. CASE Repeated(press)
  BY <1>1 DEF Repeated
<1>2. CASE press.do = "prep" /\ \E a \in Applications : Lifecycle!Prepare(a, press.on)
  <2>1. PICK a \in Applications : Lifecycle!Prepare(a, press.on)
    BY <1>2
  <2>2. \E b \in Applications : about[b] = press.on
    BY <1>2 DEF Past
  <2>3. \A b \in Applications : about[b] = press.on => ~IsActiveStatus(status[b])
    BY <2>1 DEF Lifecycle!Prepare, Lifecycle!Open, Lifecycle!IsActiveStatus, IsActiveStatus
  <2>4. vacancy' = vacancy /\ \A b \in Applications : about[b] # None => status'[b] = status[b]
    BY <2>1 DEF Lifecycle!Prepare, DatabaseOK
  <2> QED
    BY <1>2, <2>2, <2>3, <2>4
<1>3. CASE press.do = "skip" /\ Lifecycle!ChangeVacancy(press.on, "ARCHIVED")
  <2>1. vacancy[press.on] = "ARCHIVED"
    BY <1>3 DEF Past
  <2> QED
    BY <1>3, <2>1 DEF Lifecycle!ChangeVacancy, DatabaseOK, database
<1>4. CASE press.do = "approve" /\ ApproveTap(press.on)
  BY <1>4 DEF Past, ApproveTap, Lifecycle!Approve
<1>5. CASE press.do = "cancel" /\ Lifecycle!Cancel(press.on)
  <2>1. status[press.on] = "CANCELLED"
    BY <1>5 DEF Past
  <2> QED
    BY <1>5, <2>1, CancelledIsLast DEF Lifecycle!Cancel
<1>6. CASE press.do = "submitted" /\ Lifecycle!Report(press.on, "SUBMITTED")
  <2>1. status[press.on] \in {"SUBMITTED"} \cup OutcomeStatuses
    BY <1>6 DEF Past
  <2> QED
    BY <1>6, <2>1, NoWayBack DEF Lifecycle!Report
<1>7. CASE press.do \in Outcomes /\ Lifecycle!Report(press.on, OutcomeOf[press.do])
  <2>1. status[press.on] \in Reached[press.do]
    BY <1>7 DEF Past
  <2> QED
    BY <1>7, <2>1, NoWayBack DEF Lifecycle!Report
<1> QED
  BY <1>1, <1>2, <1>3, <1>4, <1>5, <1>6, <1>7 DEF Effect

-----------------------------------------------------------------------------
(* The queue and the goroutine.                                            *)

LEMMA Marking ==
  ASSUME queue \in Seq(Update), NEW i \in 1 .. Len(queue), NEW took \in BOOLEAN
  PROVE  /\ Handled(i, took) \in Seq(Update)
         /\ Len(Handled(i, took)) = Len(queue)
         /\ Handled(i, took)[i] = [press |-> queue[i].press, done |-> TRUE, took |-> queue[i].took \/ took]
         /\ \A j \in 1 .. Len(queue) : j # i => Handled(i, took)[j] = queue[j]
<1> DEFINE rec == [press |-> queue[i].press, done |-> TRUE, took |-> queue[i].took \/ took]
<1>1. queue[i] \in Update
  BY ElementOfSeq
<1>2. rec \in Update
  BY <1>1 DEF Update
<1>3. Handled(i, took) = [queue EXCEPT ![i] = rec]
  BY <1>1 DEF Handled, Update
<1> HIDE DEF rec
<1>4. Handled(i, took) \in Seq(Update) /\ Len(Handled(i, took)) = Len(queue)
      /\ Handled(i, took)[i] = rec
      /\ \A j \in 1 .. Len(queue) : j # i => Handled(i, took)[j] = queue[j]
  BY <1>2, <1>3, ExceptSeq
<1> QED
  BY <1>4 DEF rec

LEMMA Dropping ==
  ASSUME TypeOK
  PROVE  /\ Kept \in Seq(Update)
         /\ Len(Kept) = Len(queue) - bot.offset
         /\ \A j \in 1 .. Len(Kept) : Kept[j] = queue[bot.offset + j]
<1>1. bot.offset \in Nat /\ bot.offset <= Len(queue) /\ Len(queue) \in Nat
  BY DEF TypeOK
<1>2. \A j \in bot.offset + 1 .. Len(queue) : queue[j] \in Update
  BY <1>1, ElementOfSeq DEF TypeOK
<1> QED
  BY <1>1, <1>2, SubSeqProperties DEF Kept, TypeOK

\* What the goroutine handles next lies in the queue.
LEMMA NextInQueue ==
  ASSUME TypeOK, bot.mode = "handling"
  PROVE  bot.next \in 1 .. Len(queue) /\ queue[bot.next].press \in Buttons
<1>1. bot.next \in 1 .. Len(queue)
  BY DEF TypeOK
<1>2. queue[bot.next] \in Update
  BY <1>1, ElementOfSeq DEF TypeOK
<1> QED
  BY <1>1, <1>2 DEF Update

\* The goroutine goes on past an update that has been handled.
LEMMA GoingOn ==
  ASSUME IInv, bot.mode = "handling", NEW took \in BOOLEAN, NEW failed \in BOOLEAN,
         NEW press \in Buttons, press = queue[bot.next].press, took => Past(press)',
         queue' = Handled(bot.next, took), bot' = Continue(failed),
         DatabaseOK', Onward, shown' \subseteq Buttons
  PROVE  IInv' /\ Len(queue') = Len(queue)
<1> DEFINE i == bot.next
<1>1. i \in 1 .. Len(queue)
  BY NextInQueue DEF IInv
<1>2. /\ queue' \in Seq(Update) /\ Len(queue') = Len(queue)
      /\ queue'[i] = [press |-> queue[i].press, done |-> TRUE, took |-> queue[i].took \/ took]
      /\ \A j \in 1 .. Len(queue) : j # i => queue'[j] = queue[j]
  BY <1>1, Marking DEF IInv, TypeOK
<1>3. bot' \in [mode: {"polling", "handling"}, offset: {i}, next: Nat, last: Nat]
      /\ \/ bot'.mode = "polling" /\ bot'.next = 1 /\ bot'.last = 0
         \/ bot'.mode = "handling" /\ bot'.next = i + 1 /\ bot'.last = bot.last /\ i < bot.last
  <2>1. bot.last \in Nat /\ i \in Nat /\ i <= bot.last
    BY <1>1 DEF IInv, TypeOK
  <2>2. AfterUpdate \in [mode: {"handling"}, offset: {i}, next: {i + 1}, last: {bot.last}]
    <3>1. bot \in [mode: {"handling"}, offset: Nat, next: Nat, last: Nat]
      BY DEF IInv, TypeOK
    <3> QED
      BY <3>1 DEF AfterUpdate
  <2>3. CASE i = bot.last
    <3>1. bot' = [mode |-> "polling", offset |-> i, next |-> 1, last |-> 0]
      BY <2>2, <2>3 DEF Continue, Polling
    <3> QED
      BY <2>1, <3>1
  <2>4. CASE i # bot.last
    <3>1. bot' = AfterUpdate
      BY <2>2, <2>4 DEF Continue
    <3> QED
      BY <2>1, <2>2, <2>4, <3>1
  <2> QED
    BY <2>3, <2>4
<1>4. TypeOK'
  <2>1. bot'.offset <= Len(queue')
    BY <1>1, <1>2, <1>3
  <2>2. IF bot'.mode = "handling" THEN bot'.next \in 1 .. bot'.last /\ bot'.last <= Len(queue')
                                  ELSE bot'.next = 1 /\ bot'.last = 0
    BY <1>1, <1>2, <1>3 DEF IInv, TypeOK
  <2>3. bot' \in [mode: {"polling", "handling", "sleeping", "down"}, offset: Nat, next: Nat, last: Nat]
    BY <1>1, <1>3
  <2> QED
    BY <1>2, <2>1, <2>2, <2>3 DEF TypeOK, DatabaseOK
<1>5. OffsetIsHandled'
  <2>1. ASSUME NEW j \in 1 .. i - 1
        PROVE  queue'[j].done
    <3>1. i = bot.offset + 1 /\ bot.offset \in Nat
      BY DEF IInv, OffsetIsHandled, TypeOK
    <3>2. queue[j].done /\ j \in 1 .. Len(queue) /\ j # i
      BY <1>1, <3>1 DEF IInv, OffsetIsHandled
    <3> QED
      BY <1>2, <3>2
  <2>2. queue'[i].done
    BY <1>2
  <2> QED
    BY <1>1, <1>3, <2>1, <2>2 DEF OffsetIsHandled
<1>6. TookIsPast'
  <2> SUFFICES ASSUME NEW j \in 1 .. Len(queue), NEW p \in Buttons,
                      queue'[j].took, queue'[j].press = p
               PROVE  Past(p)'
    BY <1>2 DEF TookIsPast
  <2>1. queue[j].press = p /\ (queue[j].took \/ (j = i /\ took))
    BY <1>1, <1>2
  <2>2. CASE queue[j].took
    <3>1. Past(p)
      BY <2>1, <2>2 DEF IInv, TookIsPast
    <3> QED
      BY <3>1, PastStays DEF IInv, DatabaseOK, TypeOK
  <2>3. CASE j = i /\ took
    BY <2>1, <2>3
  <2> QED
    BY <2>1, <2>2, <2>3
<1> QED
  BY <1>2, <1>4, <1>5, <1>6 DEF IInv, DatabaseOK

LEMMA ButtonFacts ==
  /\ \A v \in Vacancies : Button("prep", v) \in Buttons
  /\ \A a \in Applications : applicationPreviewMarkup(a) \subseteq Buttons
  /\ \A a \in Applications : Button("submitted", a) \in Buttons
  /\ \A a \in Applications, o \in Outcomes : Button(o, a) \in Buttons
BY DEF Buttons, Button, applicationPreviewMarkup

LEMMA MarkupIsButtons ==
  ASSUME NEW a \in Applications, NEW v, NEW s, s = "CANCELLED" => v \in Vacancies
  PROVE  applicationStatusMarkup(a, v, s) \subseteq Buttons
<1>1. /\ {Button("submitted", a)} \subseteq Buttons
      /\ {Button(o, a) : o \in Outcomes} \subseteq Buttons
      /\ applicationPreviewMarkup(a) \subseteq Buttons
      /\ s = "CANCELLED" => {Button("prep", v)} \subseteq Buttons
  BY ButtonFacts
<1> QED
  BY <1>1, Zenon DEF applicationStatusMarkup

\* The answer to a tap that was handled shows buttons of things that exist.
LEMMA AnswerIsButtons ==
  ASSUME NEW ab \in [Applications -> Vacancies \cup {None}],
         NEW st \in [Applications -> ApplicationStatuses \cup {None}],
         \A a \in Applications : ab[a] = None <=> st[a] = None,
         NEW press \in Buttons
  PROVE  Answer(press, ab, st) \subseteq Buttons
<1>1. UNION {applicationPreviewMarkup(a) :
               a \in {b \in Applications : ab[b] = press.on /\ IsActiveStatus(st[b])}}
        \subseteq Buttons
  BY ButtonFacts
<1>2. ASSUME press.do \notin {"prep", "skip"}
      PROVE  applicationStatusMarkup(press.on, ab[press.on], st[press.on]) \subseteq Buttons
  <2>1. press.on \in Applications
    BY <1>2, PressCases
  <2>2. st[press.on] = "CANCELLED" => ab[press.on] \in Vacancies
    BY <2>1, PollerNoneAssumption DEF ApplicationStatuses
  <2> QED
    BY <2>1, <2>2, MarkupIsButtons
<1>3. press.do \in {"prep", "skip"} \/ press.do \notin {"prep", "skip"}
  OBVIOUS
<1> QED
  BY <1>1, <1>2, Zenon DEF Answer

-----------------------------------------------------------------------------
(* The invariant.                                                          *)

LEMMA InitialState == Init => IInv
<1> SUFFICES ASSUME Init
             PROVE  IInv
  OBVIOUS
<1> USE DEF Init, Lifecycle!Init
<1>1. vacancy \in [Vacancies -> VacancyStatuses] /\ shown \subseteq Buttons
  BY PollerStatusesAssumption DEF Buttons
<1>2. bot = [mode |-> "polling", offset |-> 0, next |-> 1, last |-> 0]
  BY DEF Polling
<1>3. queue = <<>> /\ queue \in Seq(Update) /\ Len(queue) = 0
  OBVIOUS
<1>4. TypeOK
  BY <1>1, <1>2, <1>3 DEF TypeOK
<1> QED
  BY <1>2, <1>3, <1>4 DEF IInv, Exists, TookIsPast, OffsetIsHandled

\* The goroutine and the queue move on, the database does not.
LEMMA TapStep ==
  ASSUME IInv, NEW press \in shown, Tap(press)
  PROVE  IInv' /\ Len(queue') >= Len(queue)
<1> DEFINE e == [press |-> press, done |-> FALSE, took |-> FALSE]
<1> USE DEF Tap, database
<1>1. e \in Update
  BY DEF IInv, TypeOK, Update
<1> HIDE DEF e
<1>2. queue \in Seq(Update) /\ queue' = Append(queue, e)
  BY DEF IInv, TypeOK, e
<1>3. /\ queue' \in Seq(Update) /\ Len(queue') = Len(queue) + 1 /\ Len(queue) \in Nat
      /\ queue'[Len(queue) + 1] = e /\ \A i \in 1 .. Len(queue) : queue'[i] = queue[i]
  BY <1>1, <1>2
<1>4. TypeOK' /\ Exists'
  BY <1>3 DEF IInv, TypeOK, Exists
<1>5. OffsetIsHandled'
  BY <1>3 DEF IInv, TypeOK, OffsetIsHandled
<1>6. TookIsPast'
  <2> SUFFICES ASSUME NEW i \in 1 .. Len(queue'), NEW p \in Buttons,
                      queue'[i].took, queue'[i].press = p
               PROVE  Past(p)'
    BY DEF TookIsPast
  <2>1. ~e.took
    BY DEF e
  <2>2. i \in 1 .. Len(queue) /\ queue'[i] = queue[i]
    BY <1>3, <2>1
  <2>3. Past(p)
    BY <2>2 DEF IInv, TookIsPast
  <2> QED
    BY <2>3 DEF Past
<1> QED
  BY <1>3, <1>4, <1>5, <1>6 DEF IInv

\* Telegram drops what lies before the offset, which has been handled.
LEMMA DropStep ==
  ASSUME IInv, queue' = Kept, UNCHANGED <<vacancy, about, status, shown>>,
         bot' \in [mode: {"polling", "handling", "sleeping"}, offset: {0}, next: {1}, last: Nat],
         IF bot'.mode = "handling" THEN bot'.last \in 1 .. Len(Kept) ELSE bot'.last = 0
  PROVE  IInv' /\ \A i \in 1 .. Len(queue) - Len(queue') : queue[i].done
<1>1. /\ queue' \in Seq(Update) /\ Len(queue') = Len(queue) - bot.offset
      /\ \A j \in 1 .. Len(queue') : queue'[j] = queue[bot.offset + j]
      /\ Len(queue) \in Nat /\ bot.offset \in Nat /\ Len(queue') \in Nat
  BY Dropping DEF IInv, TypeOK
<1>2. TypeOK' /\ Exists'
  BY <1>1 DEF IInv, TypeOK, Exists
<1>3. OffsetIsHandled'
  BY DEF OffsetIsHandled
<1>4. TookIsPast'
  <2> SUFFICES ASSUME NEW i \in 1 .. Len(queue'), NEW p \in Buttons,
                      queue'[i].took, queue'[i].press = p
               PROVE  Past(p)'
    BY DEF TookIsPast
  <2>1. bot.offset + i \in 1 .. Len(queue) /\ queue'[i] = queue[bot.offset + i]
    BY <1>1
  <2>2. Past(p)
    BY <2>1 DEF IInv, TookIsPast
  <2> QED
    BY <2>2 DEF Past
<1>5. \A i \in 1 .. bot.offset : queue[i].done
  BY DEF IInv, OffsetIsHandled
<1> QED
  BY <1>1, <1>2, <1>3, <1>4, <1>5 DEF IInv

\* Only the goroutine changes, and what its offset covers does not grow.
LEMMA BotStep ==
  ASSUME IInv, UNCHANGED <<vacancy, about, status, shown, queue>>,
         bot' \in [mode: {"polling", "sleeping", "down"}, offset: {0, bot.offset},
                   next: {1}, last: {0}]
  PROVE  IInv'
<1>1. TypeOK' /\ Exists'
  BY DEF IInv, TypeOK, Exists
<1>2. OffsetIsHandled'
  BY DEF IInv, TypeOK, OffsetIsHandled
<1>3. TookIsPast'
  BY DEF IInv, TookIsPast, Past
<1> QED
  BY <1>1, <1>2, <1>3 DEF IInv

LEMMA ReceiveStep ==
  ASSUME IInv, NEW n, Receive(n)
  PROVE  IInv' /\ \A i \in 1 .. Len(queue) - Len(queue') : queue[i].done
<1> USE DEF Receive
<1>1. Len(Kept) \in Nat
  BY Dropping DEF IInv, TypeOK
<1>2. /\ bot' \in [mode: {"polling", "handling", "sleeping"}, offset: {0}, next: {1}, last: Nat]
      /\ IF bot'.mode = "handling" THEN bot'.last \in 1 .. Len(Kept) ELSE bot'.last = 0
  BY <1>1 DEF Polling
<1> QED
  BY <1>2, DropStep DEF database

LEMMA PollFailedStep ==
  ASSUME IInv, NEW reached \in BOOLEAN, PollFailed(reached)
  PROVE  IInv' /\ \A i \in 1 .. Len(queue) - Len(queue') : queue[i].done
<1> USE DEF PollFailed
<1>1. bot \in [mode: {"polling"}, offset: Nat, next: {1}, last: {0}]
  BY DEF IInv, TypeOK
<1>2. CASE reached
  <2>1. bot' \in [mode: {"sleeping"}, offset: {0}, next: {1}, last: {0}]
    BY <1>1, <1>2
  <2>2. bot'.mode = "sleeping" /\ bot'.last = 0
    BY <2>1
  <2>3. queue' = Kept /\ UNCHANGED <<vacancy, about, status, shown>>
    BY <1>2 DEF database
  <2>4. bot' \in [mode: {"polling", "handling", "sleeping"}, offset: {0}, next: {1}, last: Nat]
    BY <2>1
  <2>5. IF bot'.mode = "handling" THEN bot'.last \in 1 .. Len(Kept) ELSE bot'.last = 0
    BY <2>2, Zenon
  <2> QED
    BY <2>3, <2>4, <2>5, DropStep
<1>3. CASE ~reached
  <2>1. bot' \in [mode: {"sleeping"}, offset: {bot.offset}, next: {1}, last: {0}]
    BY <1>1, <1>3
  <2>2. IInv' /\ queue' = queue /\ Len(queue) \in Nat
    BY <1>3, <2>1, BotStep DEF database, IInv, TypeOK
  <2> QED
    BY <2>2
<1> QED
  BY <1>2, <1>3

LEMMA WakeUpStep ==
  ASSUME IInv, WakeUp
  PROVE  IInv'
<1>1. bot \in [mode: {"sleeping"}, offset: Nat, next: {1}, last: {0}]
  BY DEF IInv, TypeOK, WakeUp
<1>2. bot' \in [mode: {"polling"}, offset: {bot.offset}, next: {1}, last: {0}]
  BY <1>1 DEF WakeUp
<1> QED
  BY <1>2, BotStep DEF WakeUp, database

LEMMA CrashStep ==
  ASSUME IInv, Crash \/ Restart
  PROVE  IInv'
<1>1. bot' \in [mode: {"polling", "down"}, offset: {0}, next: {1}, last: {0}]
  BY DEF Crash, Restart, Polling
<1> QED
  BY <1>1, BotStep DEF Crash, Restart, database

LEMMA HandleStep ==
  ASSUME IInv, NEW answered \in BOOLEAN, Handle(answered)
  PROVE  IInv' /\ Len(queue') = Len(queue)
<1>1. PICK press \in Buttons : press = queue[bot.next].press
  BY NextInQueue DEF IInv, Handle
<1>2. PICK took \in BOOLEAN : took <=> database' # database
  OBVIOUS
<1>3. DatabaseOK
  BY DEF IInv, TypeOK, DatabaseOK
<1>4. DatabaseOK' /\ Onward /\ (took => Past(press)')
  <2>1. CASE Effect(press)
    BY <1>3, <2>1, EffectIsPast
  <2>2. CASE Repeated(press)
    BY <1>2, <1>3, <2>2, NothingMoves DEF Repeated
  <2> QED
    BY <1>1, <2>1, <2>2 DEF Handle
<1>5. shown' \subseteq Buttons
  <2>1. Answer(press, about', status') \subseteq Buttons
    BY <1>4, AnswerIsButtons DEF DatabaseOK, Exists
  <2> QED
    BY <1>1, <2>1 DEF Handle, IInv, TypeOK
<1>6. queue' = Handled(bot.next, took)
  BY <1>2 DEF Handle
<1> QED
  BY <1>1, <1>4, <1>5, <1>6, GoingOn DEF Handle

LEMMA HandleFailsStep ==
  ASSUME IInv, HandleFails
  PROVE  IInv' /\ Len(queue') = Len(queue)
<1>1. PICK press \in Buttons : press = queue[bot.next].press
  BY NextInQueue DEF IInv, HandleFails
<1>2. DatabaseOK' /\ Onward
  BY NothingMoves DEF IInv, TypeOK, DatabaseOK, HandleFails
<1>3. shown' \subseteq Buttons
  BY DEF HandleFails, IInv, TypeOK
<1> QED
  BY <1>1, <1>2, <1>3, GoingOn DEF HandleFails

\* A request over HTTP moves the database onward, so past taps stay past.
LEMMA HttpStep ==
  ASSUME IInv, RequestOverHttp
  PROVE  IInv' /\ queue' = queue
<1>1. DatabaseOK /\ UNCHANGED <<queue, bot, shown>>
  BY DEF IInv, TypeOK, DatabaseOK, RequestOverHttp
<1>2. DatabaseOK' /\ Onward
  BY <1>1, LifecycleMoves DEF RequestOverHttp
<1>3. TypeOK' /\ Exists'
  BY <1>1, <1>2 DEF IInv, TypeOK, DatabaseOK
<1>4. TookIsPast'
  BY <1>1, <1>2, PastStays DEF IInv, TookIsPast
<1>5. OffsetIsHandled'
  BY <1>1 DEF IInv, OffsetIsHandled
<1> QED
  BY <1>1, <1>3, <1>4, <1>5 DEF IInv

\* A step keeps the invariant, and what it drops has been handled.
LEMMA EveryStep ==
  ASSUME IInv, [Next]_vars
  PROVE  IInv' /\ \A i \in 1 .. Len(queue) - Len(queue') : queue[i].done
<1> USE DEF IInv
<1>0. Len(queue) \in Nat
  BY DEF TypeOK
<1>1. ASSUME NEW press \in shown, Tap(press)
      PROVE  IInv' /\ Len(queue') >= Len(queue) /\ Len(queue') \in Nat
  BY <1>1, TapStep DEF TypeOK
<1>2. CASE \E press \in shown : Tap(press)
  BY <1>0, <1>1, <1>2
<1>3. CASE \E n \in 0 .. MaxPending : Receive(n)
  BY <1>3, ReceiveStep
<1>4. CASE \E reached \in BOOLEAN : PollFailed(reached)
  BY <1>4, PollFailedStep
<1>5. CASE WakeUp \/ Crash \/ Restart
  <2>1. IInv'
    BY <1>5, WakeUpStep, CrashStep
  <2>2. queue' = queue
    BY <1>5 DEF WakeUp, Crash, Restart
  <2> QED
    BY <1>0, <2>1, <2>2
<1>6. CASE HandleFails \/ \E answered \in BOOLEAN : Handle(answered)
  <2>1. IInv' /\ Len(queue') = Len(queue)
    BY <1>6, HandleStep, HandleFailsStep
  <2> QED
    BY <1>0, <2>1
<1>7. CASE RequestOverHttp
  <2>1. IInv' /\ queue' = queue
    BY <1>7, HttpStep
  <2> QED
    BY <1>0, <2>1
<1>8. CASE UNCHANGED vars
  <2>1. UNCHANGED <<vacancy, about, status, queue, bot, shown>>
    BY <1>8 DEF vars
  <2>2. IInv'
    BY <2>1 DEF TypeOK, Exists, TookIsPast, OffsetIsHandled, Past
  <2> QED
    BY <1>0, <2>1, <2>2
<1> QED
  BY <1>2, <1>3, <1>4, <1>5, <1>6, <1>7, <1>8 DEF Next

\* The inductive invariant of the poller.
THEOREM InvariantHolds == Spec => []IInv
<1>1. IInv /\ [Next]_vars => IInv'
  BY EveryStep
<1> QED
  BY InitialState, <1>1, PTL DEF Spec

\* The queue, the goroutine and the database keep their types.
THEOREM TypeCorrect == Spec => []TypeOK
BY InvariantHolds, PTL DEF IInv

\* For any number of updates, failures and crashes, Telegram drops no update
\* that no handler has seen.
THEOREM NothingDroppedUnseen == Spec => DroppedWereHandled
<1>1. IInv /\ [Next]_vars =>
        [\A i \in 1 .. Len(queue) - Len(queue') : queue[i].done]_vars
  BY EveryStep
<1> QED
  BY InvariantHolds, <1>1, PTL DEF Spec, DroppedWereHandled

\* Redelivery does nothing but open an application in the place of a closed
\* one, with any number of taps before and after it.
THEOREM RedeliveryDoesNothing == Spec => RedeliveryIsHarmless
<1> DEFINE Harmless ==
      (bot.mode = "handling" /\ bot' # bot /\ queue[bot.next].took /\ database' # database) =>
         LET press == queue[bot.next].press IN
         /\ press.do = "prep"
         /\ \E a \in Applications : about[a] = press.on /\ ~IsActiveStatus(status[a])
         /\ vacancy' = vacancy
         /\ \A a \in Applications : about[a] # None => status'[a] = status[a]
<1>1. ASSUME IInv, Next
      PROVE  Harmless
  <2> SUFFICES ASSUME bot.mode = "handling", bot' # bot, queue[bot.next].took, database' # database
               PROVE  Harmless
    OBVIOUS
  <2> DEFINE press == queue[bot.next].press
  <2>1. press \in Buttons /\ bot.next \in 1 .. Len(queue)
    BY <1>1, NextInQueue DEF IInv
  <2>2. Past(press)
    BY <1>1, <2>1 DEF IInv, TookIsPast
  <2>3. Effect(press) \/ Repeated(press)
    BY <1>1 DEF Next, Tap, Receive, PollFailed, WakeUp, Handle, HandleFails,
                RequestOverHttp, Crash, Restart, database
  <2>4. DatabaseOK
    BY <1>1 DEF IInv, TypeOK, DatabaseOK
  <2> HIDE DEF press
  <2>5. /\ press.do = "prep"
        /\ \E a \in Applications : about[a] = press.on /\ ~IsActiveStatus(status[a])
        /\ vacancy' = vacancy
        /\ \A a \in Applications : about[a] # None => status'[a] = status[a]
    BY <2>1, <2>2, <2>3, <2>4, PastIsHarmless
  <2> QED
    BY <2>5 DEF press
<1>2. IInv /\ [Next]_vars => [Harmless]_vars
  BY <1>1
<1> QED
  BY InvariantHolds, <1>2, PTL DEF Spec, RedeliveryIsHarmless

-----------------------------------------------------------------------------
(* Taps, redelivered ones as well, and requests over HTTP together do what *)
(* the lifecycle promises, and what it keeps, they keep.                   *)

\* Where the vacancy of an application that was sent can be.
Known == {"SUBMITTED", "VIEWED", "ARCHIVED"} \cup OutcomeStatuses

\* A vacancy has one open application.
OneOpen ==
  \A a, b \in Applications :
    /\ about[a] = about[b] /\ about[a] # None
    /\ IsActiveStatus(status[a]) /\ IsActiveStatus(status[b])
    => a = b

\* The vacancy shows that an application was sent.
SentIsKnown ==
  \A a \in Applications :
    status[a] \in {"SUBMITTED"} \cup OutcomeStatuses => vacancy[about[a]] \in Known

LEMMA KnownStays ==
  ASSUME NEW from \in Known, NEW to, Lifecycle!CanTransitionVacancyStatus(from, to)
  PROVE  to \in Known
BY DEF Known, OutcomeStatuses, Lifecycle!CanTransitionVacancyStatus, Lifecycle!vacancyTransitions,
       Lifecycle!VacancyStatuses

\* No move of the table leads out of a closed application.
LEMMA ClosedStays ==
  ASSUME NEW s \in ApplicationStatuses, NEW to, to \in Lifecycle!applicationTransitions[s]
  PROVE  IsActiveStatus(s)
BY DEF Lifecycle!applicationTransitions, Lifecycle!ApplicationStatuses, ApplicationStatuses,
       IsActiveStatus

LEMMA PrepareKeeps ==
  ASSUME DatabaseOK, OneOpen, SentIsKnown, NEW a \in Applications, NEW v \in Vacancies,
         Lifecycle!Prepare(a, v)
  PROVE  (OneOpen /\ SentIsKnown)'
<1> USE PollerNoneAssumption DEF Lifecycle!Prepare, DatabaseOK
<1>1. /\ about'[a] = v /\ status'[a] = "WAITING_APPROVAL"
      /\ \A b \in Applications \ {a} : about'[b] = about[b] /\ status'[b] = status[b]
      /\ vacancy' = vacancy
  OBVIOUS
<1>2. \A b \in Applications : about[b] = v => ~IsActiveStatus(status[b])
  BY DEF Lifecycle!Open, Lifecycle!IsActiveStatus, IsActiveStatus
<1>3. OneOpen'
  BY <1>1, <1>2 DEF OneOpen, IsActiveStatus
<1>4. SentIsKnown'
  BY <1>1 DEF SentIsKnown, OutcomeStatuses
<1> QED
  BY <1>3, <1>4

\* An application that moves was open; if it is sent then, its vacancy is known
\* to be, and no other vacancy has moved.
LEMMA MoveKeeps ==
  ASSUME DatabaseOK, OneOpen, SentIsKnown, NEW a \in Applications, NEW s,
         status[a] \in ApplicationStatuses, IsActiveStatus(status[a]),
         status' = [status EXCEPT ![a] = s], UNCHANGED about,
         \A v \in Vacancies : vacancy[v] \in Known => vacancy'[v] \in Known,
         s \in {"SUBMITTED"} \cup OutcomeStatuses => vacancy'[about[a]] \in Known
  PROVE  (OneOpen /\ SentIsKnown)'
<1> USE DEF DatabaseOK
<1>1. /\ status'[a] = s
      /\ \A b \in Applications \ {a} : status'[b] = status[b]
      /\ about' = about
  OBVIOUS
<1>2. OneOpen'
  BY <1>1 DEF OneOpen
<1>3. ASSUME NEW b \in Applications, b # a, status'[b] \in {"SUBMITTED"} \cup OutcomeStatuses
      PROVE  vacancy'[about[b]] \in Known
  <2>1. status[b] \in {"SUBMITTED"} \cup OutcomeStatuses /\ status[b] # None
    BY <1>1, <1>3, PollerNoneAssumption DEF OutcomeStatuses, ApplicationStatuses
  <2>2. about[b] \in Vacancies /\ vacancy[about[b]] \in Known
    BY <2>1 DEF SentIsKnown, Exists
  <2> QED
    BY <2>2
<1>4. SentIsKnown'
  BY <1>1, <1>3 DEF SentIsKnown
<1> QED
  BY <1>2, <1>4

LEMMA ReportKeeps ==
  ASSUME DatabaseOK, OneOpen, SentIsKnown, NEW a \in Applications,
         NEW s \in {"SUBMITTED"} \cup OutcomeStatuses, Lifecycle!Report(a, s)
  PROVE  (OneOpen /\ SentIsKnown)'
<1> USE DEF Lifecycle!Report
<1>1. status[a] \in ApplicationStatuses
  BY DEF Lifecycle!ApplicationStatuses, ApplicationStatuses
<1>2. about[a] \in Vacancies
  BY <1>1, PollerNoneAssumption DEF DatabaseOK, Exists
<1>3. s \in Known
  BY DEF Known
<1>4. vacancy'[about[a]] = s /\ \A v \in Vacancies \ {about[a]} : vacancy'[v] = vacancy[v]
  BY <1>2 DEF DatabaseOK
<1>5. IsActiveStatus(status[a])
  BY <1>1, ClosedStays
<1> QED
  BY <1>1, <1>3, <1>4, <1>5, MoveKeeps

LEMMA ChangeKeeps ==
  ASSUME DatabaseOK, OneOpen, SentIsKnown, NEW v \in Vacancies, NEW s,
         Lifecycle!ChangeVacancy(v, s)
  PROVE  (OneOpen /\ SentIsKnown)'
<1> USE DEF Lifecycle!ChangeVacancy, DatabaseOK
<1>1. \A u \in Vacancies : vacancy[u] \in Known => vacancy'[u] \in Known
  BY KnownStays
<1>2. ASSUME NEW a \in Applications, status[a] \in {"SUBMITTED"} \cup OutcomeStatuses
      PROVE  vacancy'[about[a]] \in Known
  <2>1. status[a] # None
    BY <1>2, PollerNoneAssumption DEF OutcomeStatuses, ApplicationStatuses
  <2> QED
    BY <1>1, <1>2, <2>1 DEF SentIsKnown, Exists
<1> QED
  BY <1>2 DEF OneOpen, SentIsKnown

\* Whatever step the lifecycle takes, one application stays open and what was
\* sent stays known.
LEMMA LifecycleKeeps ==
  ASSUME DatabaseOK, OneOpen, SentIsKnown, Lifecycle!Next
  PROVE  (OneOpen /\ SentIsKnown)'
<1>1. CASE \E a \in Applications, v \in Vacancies : Lifecycle!Prepare(a, v)
  BY <1>1, PrepareKeeps
<1>2. ASSUME NEW a \in Applications, Lifecycle!Approve(a) \/ Lifecycle!Cancel(a)
      PROVE  (OneOpen /\ SentIsKnown)'
  <2> USE DEF Lifecycle!Approve, Lifecycle!Cancel
  <2>1. status[a] \in ApplicationStatuses /\ IsActiveStatus(status[a])
    BY <1>2, ClosedStays DEF Lifecycle!ApplicationStatuses, ApplicationStatuses, IsActiveStatus
  <2>2. PICK s \in {"MANUAL_ACTION_REQUIRED", "CANCELLED"} : status' = [status EXCEPT ![a] = s]
    BY <1>2
  <2>3. s \notin {"SUBMITTED"} \cup OutcomeStatuses
    BY DEF OutcomeStatuses
  <2> QED
    BY <1>2, <2>1, <2>2, <2>3, MoveKeeps
<1>3. CASE \E a \in Applications, s \in {"SUBMITTED"} \cup OutcomeStatuses :
             Lifecycle!Report(a, s)
  BY <1>3, ReportKeeps
<1>4. CASE \E v \in Vacancies, s \in PatchTargets : Lifecycle!ChangeVacancy(v, s)
  BY <1>4, ChangeKeeps
<1> QED
  BY <1>1, <1>2, <1>3, <1>4 DEF Lifecycle!Next

\* A tap takes a step of the lifecycle, or finds it taken.
LEMMA TapIsLifecycleStep ==
  ASSUME "ARCHIVED" \in PatchTargets, NEW press \in Buttons, Effect(press) \/ Repeated(press)
  PROVE  [Lifecycle!Next]_database
<1>1. CASE Repeated(press)
  BY <1>1 DEF Repeated
<1>2. CASE Effect(press)
  BY <1>2, PressCases, OutcomeFacts DEF Effect, ApproveTap, Lifecycle!Next
<1> QED
  BY <1>1, <1>2

LEMMA StepIsLifecycleStep ==
  ASSUME "ARCHIVED" \in PatchTargets, IInv, [Next]_vars
  PROVE  [Lifecycle!Next]_database
<1>1. ASSUME NEW answered \in BOOLEAN, Handle(answered)
      PROVE  [Lifecycle!Next]_database
  <2>1. PICK press \in Buttons : press = queue[bot.next].press
    BY <1>1, NextInQueue DEF IInv, Handle
  <2> QED
    BY <1>1, <2>1, TapIsLifecycleStep DEF Handle
<1>2. CASE RequestOverHttp
  BY <1>2 DEF RequestOverHttp
<1>3. ASSUME \/ \E press \in shown : Tap(press)
             \/ \E n \in 0 .. MaxPending : Receive(n)
             \/ WakeUp \/ HandleFails \/ Crash \/ Restart \/ UNCHANGED vars
      PROVE  UNCHANGED database
  BY <1>3 DEF Tap, Receive, WakeUp, HandleFails, Crash, Restart, database, vars
<1>4. ASSUME NEW reached \in BOOLEAN, PollFailed(reached)
      PROVE  UNCHANGED database
  <2>1. UNCHANGED <<database, shown, crashes>>
    BY <1>4 DEF PollFailed
  <2> QED
    BY <2>1 DEF database
<1>5. UNCHANGED database => [Lifecycle!Next]_database
  OBVIOUS
<1> QED
  BY <1>1, <1>2, <1>3, <1>4, <1>5 DEF Next

\* For any number of vacancies, applications, updates and crashes: taps in any
\* order, of old messages, delivered again after a crash or not answered, and
\* requests over HTTP between them, take the steps of the lifecycle and no
\* other.  A skip is the PATCH that archives, so the owner must be able to ask
\* for that one.
THEOREM TapsFollowLifecycle ==
  ASSUME "ARCHIVED" \in PatchTargets
  PROVE  Spec => Lifecycle!Spec
<1>1. Init => Lifecycle!Init
  BY DEF Init
<1>2. IInv /\ [Next]_vars => [Lifecycle!Next]_(Lifecycle!vars)
  BY StepIsLifecycleStep DEF database, Lifecycle!vars
<1> QED
  BY InvariantHolds, <1>1, <1>2, PTL DEF Spec, Lifecycle!Spec

\* Through taps, redelivery, crashes and requests over HTTP a vacancy has at
\* most one open application, and one whose application was sent shows it.
THEOREM LifecycleIsKept ==
  ASSUME "ARCHIVED" \in PatchTargets
  PROVE  Spec => [](OneOpen /\ SentIsKnown)
<1>1. Init => OneOpen /\ SentIsKnown
  BY PollerNoneAssumption
  DEF Init, Lifecycle!Init, OneOpen, SentIsKnown, OutcomeStatuses, ApplicationStatuses
<1>2. ASSUME IInv, OneOpen, SentIsKnown, [Next]_vars
      PROVE  (OneOpen /\ SentIsKnown)'
  <2>1. DatabaseOK
    BY <1>2 DEF IInv, TypeOK, DatabaseOK
  <2>2. CASE Lifecycle!Next
    BY <1>2, <2>1, <2>2, LifecycleKeeps
  <2>3. CASE UNCHANGED database
    BY <1>2, <2>3 DEF OneOpen, SentIsKnown, database
  <2> QED
    BY <1>2, <2>2, <2>3, StepIsLifecycleStep
<1>3. IInv /\ (OneOpen /\ SentIsKnown) /\ [Next]_vars => (OneOpen /\ SentIsKnown)'
  BY <1>2
<1> QED
  BY InvariantHolds, <1>1, <1>3, PTL DEF Spec
=============================================================================
