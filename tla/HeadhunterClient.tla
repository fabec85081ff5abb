-------------------------- MODULE HeadhunterClient --------------------------
(***************************************************************************)
(* internal/integrations/hh/client.go: one client shared by every search   *)
(* and every import of a HeadHunter URL.  A call (getJSON) makes up to     *)
(* three requests.  Before each it passes the throttle, which remembers    *)
(* when the last request started; it sleeps without the mutex, and when it *)
(* wakes up it starts without looking again.                               *)
(*                                                                         *)
(* Time is counted in steps of half a second and kept as durations: how    *)
(* long ago something happened, up to the delay that matters, and how long *)
(* a sleeper has left.  A timer may be late.                               *)
(***************************************************************************)
EXTENDS Integers

CONSTANTS
  Callers,     \* goroutines that use the client
  MinDelay,    \* HH_MIN_DELAY_MS, in half seconds
  RetryAfters  \* what Retry-After can ask for, in half seconds; absent is 0

ASSUME MinDelayAssumption == MinDelay \in Nat
ASSUME RetryAftersAssumption == RetryAfters \subseteq Int

VARIABLES
  sinceStart,  \* time since lastStart, at most MinDelay
  call,        \* the call each caller has in progress
  own          \* history: time since the caller's own last start, at most MinDelay

clientVars == <<sinceStart, call, own>>

Attempts == 3

\* Answers after which the same request may succeed, by the pause they cause.
\* A client timeout is a temporary transport error.
Transient == {"temporary", "unreadable", "429", "5xx"}

\* 403 is a captcha; "refused" is a transport error that is not temporary.
Final == {"refused", "403", "4xx", "bad json"}

(***************************************************************************)
(* Stages of a call:                                                       *)
(*   waiting    asleep in the throttle                                     *)
(*   request    the request is out                                         *)
(*   backoff    asleep after an answer that may be tried again             *)
(*   ok, failed the call has returned                                      *)
(***************************************************************************)
CallStages == {"idle", "waiting", "request", "backoff", "ok", "failed"}

CallType == [stage: CallStages, attempt: 0 .. Attempts - 1, left: Nat]

NoCall == [stage |-> "idle", attempt |-> 0, left |-> 0]

ClientInit ==
  /\ sinceStart = MinDelay
  /\ call = [c \in Callers |-> NoCall]
  /\ own = [c \in Callers |-> MinDelay]

-----------------------------------------------------------------------------

StartRequest(c, attempt) ==
  /\ sinceStart' = 0
  /\ own' = [own EXCEPT ![c] = 0]
  /\ call' = [call EXCEPT ![c] = [stage |-> "request", attempt |-> attempt, left |-> 0]]

Sleep(c, stage, attempt, time) ==
  /\ call' = [call EXCEPT ![c] = [stage |-> stage, attempt |-> attempt, left |-> time]]
  /\ UNCHANGED <<sinceStart, own>>

\* Fault: the wait is rounded down to whole seconds.
ThrottleShort(c, attempt) ==
  IF sinceStart >= MinDelay
  THEN StartRequest(c, attempt)
  ELSE Sleep(c, "waiting", attempt, 2 * ((MinDelay - sinceStart) \div 2))

\* The mutex is held for the look at lastStart and released for the sleep.
Throttle(c, attempt) ==
  IF sinceStart >= MinDelay
  THEN StartRequest(c, attempt)
  ELSE Sleep(c, "waiting", attempt, MinDelay - sinceStart)

StartCall(c) == call[c].stage = "idle" /\ Throttle(c, 0)

\* lastStart is set to the present whatever happened during the sleep.
WakeUp(c) ==
  /\ call[c].stage = "waiting"
  /\ call[c].left = 0
  /\ StartRequest(c, call[c].attempt)

Return(c, stage) ==
  /\ call' = [call EXCEPT ![c] = [NoCall EXCEPT !.stage = stage]]
  /\ UNCHANGED <<sinceStart, own>>

Succeed(c) == call[c].stage = "request" /\ Return(c, "ok")

\* An answer that ends the call, or the third that does not.
GiveUp(c, answer) ==
  /\ call[c].stage = "request"
  /\ answer \in Final \/ call[c].attempt = Attempts - 1
  /\ Return(c, "failed")

\* How long to wait after an answer.  A Retry-After in the past, of zero or
\* absent is a second; the other pauses grow by half a second.
Pause(c, answer, retryAfter) ==
  IF answer # "429" THEN call[c].attempt + 1
  ELSE IF retryAfter <= 0 THEN 2 ELSE retryAfter

BackOff(c, answer, retryAfter) ==
  /\ call[c].stage = "request"
  /\ call[c].attempt < Attempts - 1
  /\ Sleep(c, "backoff", call[c].attempt, Pause(c, answer, retryAfter))

\* Fault: an attempt that was told to wait is not counted.
TryAgainUncounted(c) ==
  /\ call[c].stage = "backoff"
  /\ call[c].left = 0
  /\ Throttle(c, call[c].attempt)

TryAgain(c) ==
  /\ call[c].stage = "backoff"
  /\ call[c].left = 0
  /\ Throttle(c, call[c].attempt + 1)

\* The caller's context is done: in a sleep, or while the request is out.
Cancel(c) == call[c].stage \in {"waiting", "request", "backoff"} /\ Return(c, "failed")

\* The caller takes the result.
Take(c) ==
  /\ call[c].stage \in {"ok", "failed"}
  /\ call' = [call EXCEPT ![c] = NoCall]
  /\ UNCHANGED <<sinceStart, own>>

UpTo(n, limit) == IF n < limit THEN n ELSE limit

Tick ==
  /\ sinceStart' = UpTo(sinceStart + 1, MinDelay)
  /\ own' = [c \in Callers |-> UpTo(own[c] + 1, MinDelay)]
  /\ call' = [c \in Callers |->
                [call[c] EXCEPT !.left = IF call[c].left > 0 THEN call[c].left - 1 ELSE 0]]

\* What a call does by itself, with what HeadHunter answers.
CallStep(c) ==
  \/ WakeUp(c)
  \/ Succeed(c)
  \/ \E answer \in Transient \cup Final : GiveUp(c, answer)
  \/ \E answer \in Transient, retryAfter \in RetryAfters : BackOff(c, answer, retryAfter)
  \/ TryAgain(c)

ClientNext ==
  \/ Tick
  \/ \E c \in Callers : StartCall(c) \/ CallStep(c) \/ Cancel(c) \/ Take(c)

ClientSpec == ClientInit /\ [][ClientNext]_clientVars

-----------------------------------------------------------------------------
(* What must hold.                                                         *)

ClientTypeOK ==
  /\ sinceStart \in 0 .. MinDelay
  /\ call \in [Callers -> CallType]
  /\ own \in [Callers -> 0 .. MinDelay]

Starts(c) == call[c].stage # "request" /\ call'[c].stage = "request"

\* HH_MIN_DELAY_MS: one caller's requests, those of its retries and of its
\* next calls included, start at least the delay apart, although the throttle
\* trusts a time it read before it slept and others have started meanwhile.
\* (Two callers that slept for the same start do leave together.)
CallerKeepsDistance == [][\A c \in Callers : Starts(c) => own[c] >= MinDelay]_clientVars
=============================================================================
