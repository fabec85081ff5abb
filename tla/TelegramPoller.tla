--------------------------- MODULE TelegramPoller ---------------------------
(***************************************************************************)
(* internal/app/bot.go over internal/integrations/telegram/bot.go: the     *)
(* goroutine that polls Telegram for the owner's taps and handles them one *)
(* by one, and Telegram, which keeps an update until a poll asks for later *)
(* ones.  The offset is in memory only: after a crash everything since the *)
(* last poll comes again.                                                  *)
(*                                                                         *)
(* What a tap does to applications and vacancies is ApplicationLifecycle,  *)
(* which the use cases implement while no read is disturbed; the           *)
(* same requests arrive over HTTP.  An update that changes nothing (a      *)
(* command, a stranger's, unknown data) passes like a tap that fails; what *)
(* /search imports is SearchRun; messages are the buttons they show.       *)
(***************************************************************************)
EXTENDS Integers, Sequences, Statuses

CONSTANTS
  Vacancies, Applications, InitialStatuses, None,
  PatchTargets,  \* statuses the owner asks for with PATCH /vacancies/{id}
  MaxPending,  \* bound: updates Telegram keeps
  MaxCrashes   \* bound: crashes and stops of the process

ASSUME PollerStatusesAssumption ==
  InitialStatuses \subseteq VacancyStatuses /\ PatchTargets \subseteq VacancyStatuses
ASSUME PollerNoneAssumption == None \notin Vacancies \cup ApplicationStatuses

VARIABLES
  vacancy, about, status,  \* the database, as in ApplicationLifecycle
  queue,    \* updates Telegram has kept, oldest first
  bot,      \* the polling goroutine
  shown,    \* buttons of all messages sent so far: an answer replaces those of
            \* one message, and there may be more with the same ones
  crashes

database == <<vacancy, about, status>>
vars == <<vacancy, about, status, queue, bot, shown, crashes>>

Lifecycle ==
  INSTANCE ApplicationLifecycle WITH
    Outcomes <- OutcomeStatuses

OutcomeOf ==
  [hr |-> "HR_CONTACT", interview |-> "INTERVIEW", offer |-> "OFFER", reject |-> "REJECTED"]

Outcomes == DOMAIN OutcomeOf

Buttons ==
  [do: {"prep", "skip"}, on: Vacancies]
    \cup [do: {"approve", "cancel", "submitted"} \cup Outcomes, on: Applications]

Button(do, on) == [do |-> do, on |-> on]

\* done and took are history: the update has been handled; it changed something.
Update == [press: Buttons, done: BOOLEAN, took: BOOLEAN]

(***************************************************************************)
(* The goroutine.  offset is the number of updates in the queue that the   *)
(* next poll tells Telegram to drop; next .. last are those of the answer  *)
(* that are still to be handled.                                           *)
(***************************************************************************)
Polling == [mode |-> "polling", offset |-> 0, next |-> 1, last |-> 0]

Init ==
  /\ Lifecycle!Init
  /\ queue = <<>>
  /\ bot = Polling
  /\ shown = [do: {"prep", "skip"}, on: Vacancies]
  /\ crashes = 0

-----------------------------------------------------------------------------

\* The owner taps a button, of an old message as well, again as well.
Tap(press) ==
  /\ Len(queue) < MaxPending
  /\ queue' = Append(queue, [press |-> press, done |-> FALSE, took |-> FALSE])
  /\ UNCHANGED <<database, bot, shown, crashes>>

\* Telegram drops what lies before the offset.
Kept == SubSeq(queue, bot.offset + 1, Len(queue))

\* An answer with n updates; with none only when there are none.
Receive(n) ==
  /\ bot.mode = "polling"
  /\ n \in 0 .. Len(Kept)
  /\ n = 0 => Kept = <<>>
  /\ queue' = Kept
  /\ bot' = IF n = 0 THEN Polling ELSE [mode |-> "handling", offset |-> 0, next |-> 1, last |-> n]
  /\ UNCHANGED <<database, shown, crashes>>

\* Fault: the loop returns the error, and nobody polls from then on.
PollFailedForGood(reached) ==
  /\ bot.mode = "polling"
  /\ queue' = IF reached THEN Kept ELSE queue
  /\ bot' = [bot EXCEPT !.mode = "returned", !.offset = IF reached THEN 0 ELSE @]
  /\ UNCHANGED <<database, shown, crashes>>

\* A poll fails before it reaches Telegram or after: also when the client's
\* timeout, which is as long as the poll, ends it first.
PollFailed(reached) ==
  /\ bot.mode = "polling"
  /\ queue' = IF reached THEN Kept ELSE queue
  /\ bot' = [bot EXCEPT !.mode = "sleeping", !.offset = IF reached THEN 0 ELSE @]
  /\ UNCHANGED <<database, shown, crashes>>

WakeUp ==
  /\ bot.mode = "sleeping"
  /\ bot' = [bot EXCEPT !.mode = "polling"]
  /\ UNCHANGED <<database, queue, shown, crashes>>

-----------------------------------------------------------------------------
(* What a tap does.                                                        *)

\* Fault: a cancelled application may be approved, too.
ApproveTapAnew(a) ==
  /\ status[a] \in {"WAITING_APPROVAL", "CANCELLED"}
  /\ status' = [status EXCEPT ![a] = "MANUAL_ACTION_REQUIRED"]
  /\ UNCHANGED <<vacancy, about>>

ApproveTap(a) == Lifecycle!Approve(a)

Effect(press) ==
  \/ press.do = "prep" /\ \E a \in Applications : Lifecycle!Prepare(a, press.on)
  \/ press.do = "skip" /\ Lifecycle!ChangeVacancy(press.on, "ARCHIVED")
  \/ press.do = "approve" /\ ApproveTap(press.on)
  \/ press.do = "cancel" /\ Lifecycle!Cancel(press.on)
  \/ press.do = "submitted" /\ Lifecycle!Report(press.on, "SUBMITTED")
  \/ press.do \in Outcomes /\ Lifecycle!Report(press.on, OutcomeOf[press.do])

\* The use case finds its work done and answers as if it had just done it.
Repeated(press) ==
  /\ \/ press.do = "prep" /\ vacancy[press.on] # "ARCHIVED" /\ Lifecycle!Open(press.on)
     \/ press.do = "approve" /\ status[press.on] = "MANUAL_ACTION_REQUIRED"
     \/ press.do = "cancel" /\ status[press.on] = "CANCELLED"
     \/ press.do = "submitted" /\ status[press.on] = "SUBMITTED"
     \/ press.do \in Outcomes /\ status[press.on] = OutcomeOf[press.do]
  /\ UNCHANGED database

applicationPreviewMarkup(a) == {Button("approve", a), Button("cancel", a)}

\* The buttons under an application v is about, in status s.
applicationStatusMarkup(a, v, s) ==
  CASE s = "MANUAL_ACTION_REQUIRED" -> {Button("submitted", a)}
    [] s \in {"SUBMITTED"} \cup OutcomeStatuses -> {Button(o, a) : o \in Outcomes}
    [] s = "CANCELLED" -> {Button("prep", v)}
    [] OTHER -> applicationPreviewMarkup(a)

\* The buttons of the answer, from the database ab, st the use case leaves.
Answer(press, ab, st) ==
  CASE press.do = "prep" ->
         UNION {applicationPreviewMarkup(a) :
                  a \in {b \in Applications : ab[b] = press.on /\ IsActiveStatus(st[b])}}
    [] press.do = "skip" -> {}
    [] OTHER -> applicationStatusMarkup(press.on, ab[press.on], st[press.on])

\* The offset moves first, whatever becomes of the update.
AfterUpdate == [bot EXCEPT !.offset = bot.next, !.next = @ + 1]

\* Fault: an error ends the batch.
ContinueUnlessFailed(failed) ==
  IF failed \/ bot.next = bot.last
  THEN [Polling EXCEPT !.offset = IF failed THEN bot.last ELSE AfterUpdate.offset]
  ELSE AfterUpdate

\* The loop goes on with the batch, after an error as well.
Continue(failed) ==
  IF bot.next = bot.last THEN [Polling EXCEPT !.offset = AfterUpdate.offset] ELSE AfterUpdate

Handled(i, took) ==
  [queue EXCEPT ![i] = [press |-> @.press, done |-> TRUE, took |-> @.took \/ took]]

\* The use case is done, or was before; the answer may not arrive.
Handle(answered) ==
  /\ bot.mode = "handling"
  /\ LET press == queue[bot.next].press IN
     /\ Effect(press) \/ Repeated(press)
     /\ shown' = IF answered THEN shown \cup Answer(press, about', status') ELSE shown
  /\ queue' = Handled(bot.next, database' # database)
  /\ bot' = Continue(FALSE)
  /\ UNCHANGED crashes

\* The use case refuses or fails; the update is not tried again.
HandleFails ==
  /\ bot.mode = "handling"
  /\ queue' = Handled(bot.next, FALSE)
  /\ bot' = Continue(TRUE)
  /\ UNCHANGED <<database, shown, crashes>>

-----------------------------------------------------------------------------

\* The owner uses the HTTP interface as well, which answers without a message.
RequestOverHttp ==
  /\ bot.mode # "down"
  /\ Lifecycle!Next
  /\ UNCHANGED <<queue, bot, shown, crashes>>

Crash ==
  /\ bot.mode # "down"
  /\ crashes < MaxCrashes
  /\ crashes' = crashes + 1
  /\ bot' = [Polling EXCEPT !.mode = "down"]
  /\ UNCHANGED <<database, queue, shown>>

Restart ==
  /\ bot.mode = "down"
  /\ bot' = Polling
  /\ UNCHANGED <<database, queue, shown, crashes>>

Next ==
  \/ \E press \in shown : Tap(press)
  \/ \E n \in 0 .. MaxPending : Receive(n)
  \/ \E reached \in BOOLEAN : PollFailed(reached)
  \/ WakeUp
  \/ \E answered \in BOOLEAN : Handle(answered)
  \/ HandleFails
  \/ RequestOverHttp
  \/ Crash
  \/ Restart

Spec == Init /\ [][Next]_vars

\* A poll that is tried again and again is answered in the end; the timer fires,
\* and somebody starts the process again.  A handler returns: its calls over
\* HTTP have a timeout, its queries end.  That presumes that it gets a
\* connection from the pool, for which it waits without a timeout: when there
\* is one is the subject of ConnectionPool.
FairSpec ==
  /\ Spec
  /\ SF_vars(\E n \in 0 .. MaxPending : Receive(n))
  /\ WF_vars(WakeUp) /\ WF_vars(Restart)
  /\ WF_vars(HandleFails \/ \E answered \in BOOLEAN : Handle(answered))

-----------------------------------------------------------------------------
(* What must hold.                                                         *)

TypeOK ==
  /\ vacancy \in [Vacancies -> VacancyStatuses]
  /\ about \in [Applications -> Vacancies \cup {None}]
  /\ status \in [Applications -> ApplicationStatuses \cup {None}]
  /\ queue \in Seq(Update)
  /\ bot \in [mode: {"polling", "handling", "sleeping", "down"}, offset: Nat, next: Nat, last: Nat]
  /\ bot.offset <= Len(queue)
  /\ IF bot.mode = "handling" THEN bot.next \in 1 .. bot.last /\ bot.last <= Len(queue)
                              ELSE bot.next = 1 /\ bot.last = 0
  /\ shown \subseteq Buttons

\* Telegram is never told to drop an update that no handler has seen, across
\* lost answers, errors of handlers and crashes.
DroppedWereHandled == [][\A i \in 1 .. Len(queue) - Len(queue') : queue[i].done]_vars

\* A tap that took effect and is delivered again after a crash does nothing,
\* whatever happened meanwhile, but for one: a preparation whose application
\* was closed in the meantime prepares another.
RedeliveryIsHarmless ==
  [][(bot.mode = "handling" /\ bot' # bot /\ queue[bot.next].took /\ database' # database) =>
       LET press == queue[bot.next].press IN
       /\ press.do = "prep"
       /\ \E a \in Applications : about[a] = press.on /\ ~IsActiveStatus(status[a])
       /\ vacancy' = vacancy
       /\ \A a \in Applications : about[a] # None => status'[a] = status[a]]_vars

\* Every tap is handled in the end (the first of the queue is, so all are),
\* though polls fail and the process crashes.
EveryTapIsHandled == (queue # <<>> /\ ~queue[1].done) ~> (queue = <<>> \/ queue[1].done)
=============================================================================
