---------------------------- MODULE SearchProofs ----------------------------
(***************************************************************************)
(* Proofs about HeadhunterClient and SearchRun, for every number of        *)
(* callers, every delay, every Retry-After and every number of pages and   *)
(* items.  The client is proved by itself; that searches implement its     *)
(* specification carries the result over to them.                          *)
(***************************************************************************)
EXTENDS SearchRun, TLAPS

\* Nobody's last start is later than lastStart, and whoever sleeps in the
\* throttle sleeps until the delay since his own last start is over.
Distance ==
  \A c \in Callers :
    /\ own[c] >= sinceStart
    /\ call[c].stage = "waiting" => own[c] + call[c].left >= MinDelay

AttemptsLeft == \A c \in Callers : call[c].stage = "backoff" => call[c].attempt < Attempts - 1

CInv == ClientTypeOK /\ Distance /\ AttemptsLeft

-----------------------------------------------------------------------------

\* A request starts.
LEMMA StartKeeps ==
  ASSUME CInv, NEW c \in Callers, NEW attempt \in 0 .. Attempts - 1, StartRequest(c, attempt)
  PROVE  CInv'
<1> USE MinDelayAssumption DEF CInv
<1>1. [stage |-> "request", attempt |-> attempt, left |-> 0] \in CallType
  BY DEF CallType, CallStages
<1>2. ClientTypeOK'
  BY <1>1 DEF ClientTypeOK, StartRequest
<1>3. /\ sinceStart' = 0 /\ call'[c].stage = "request"
      /\ \A d \in Callers : own'[d] \in Nat
      /\ \A d \in Callers \ {c} : own'[d] = own[d] /\ call'[d] = call[d]
  BY <1>2 DEF ClientTypeOK, StartRequest
<1>4. Distance'
  BY <1>3 DEF Distance
<1>5. AttemptsLeft'
  BY <1>3 DEF AttemptsLeft
<1> QED
  BY <1>2, <1>4, <1>5

\* A call changes its record and starts no request.
LEMMA RecordKeeps ==
  ASSUME CInv, NEW c \in Callers, NEW rec \in CallType,
         call' = [call EXCEPT ![c] = rec], UNCHANGED <<sinceStart, own>>,
         rec.stage = "waiting" => own[c] + rec.left >= MinDelay,
         rec.stage = "backoff" => rec.attempt < Attempts - 1
  PROVE  CInv'
<1> USE DEF CInv
<1>1. ClientTypeOK'
  BY DEF ClientTypeOK
<1>2. call'[c] = rec /\ \A d \in Callers \ {c} : call'[d] = call[d]
  BY DEF ClientTypeOK
<1>3. Distance'
  BY <1>2 DEF Distance
<1>4. AttemptsLeft'
  BY <1>2 DEF AttemptsLeft
<1> QED
  BY <1>1, <1>3, <1>4

\* The throttle lets a caller start or makes it sleep long enough.
LEMMA ThrottleKeeps ==
  ASSUME CInv, NEW c \in Callers, NEW attempt \in 0 .. Attempts - 1, Throttle(c, attempt)
  PROVE  CInv'
<1>1. CASE sinceStart >= MinDelay
  BY <1>1, StartKeeps DEF Throttle
<1>2. CASE ~(sinceStart >= MinDelay)
  <2> DEFINE rec == [stage |-> "waiting", attempt |-> attempt, left |-> MinDelay - sinceStart]
  <2>1. rec \in CallType
    BY <1>2, MinDelayAssumption DEF CInv, ClientTypeOK, CallType, CallStages
  <2>2. own[c] + rec.left >= MinDelay
    BY MinDelayAssumption DEF CInv, Distance, ClientTypeOK
  <2>3. call' = [call EXCEPT ![c] = rec] /\ UNCHANGED <<sinceStart, own>>
    BY <1>2 DEF Throttle, Sleep
  <2> QED
    BY <2>1, <2>2, <2>3, RecordKeeps
<1> QED
  BY <1>1, <1>2

\* Every step of the client keeps its invariant.
LEMMA ClientStepKeeps ==
  ASSUME CInv, [ClientNext]_clientVars
  PROVE  CInv'
<1> USE MinDelayAssumption, RetryAftersAssumption
<1>1. CASE UNCHANGED clientVars
  BY <1>1 DEF clientVars, CInv, ClientTypeOK, Distance, AttemptsLeft
<1>2. CASE Tick
  <2>1. ASSUME NEW n \in 0 .. MinDelay
        PROVE  UpTo(n + 1, MinDelay) \in 0 .. MinDelay
    BY DEF UpTo
  <2>2. ASSUME NEW c \in Callers
        PROVE  /\ call'[c] \in CallType /\ own'[c] \in 0 .. MinDelay
               /\ call'[c].stage = call[c].stage /\ call'[c].attempt = call[c].attempt
               /\ call'[c].left = IF call[c].left > 0 THEN call[c].left - 1 ELSE 0
               /\ own'[c] = UpTo(own[c] + 1, MinDelay)
    BY <1>2, <2>1 DEF Tick, CInv, ClientTypeOK, CallType
  <2>3. ClientTypeOK'
    BY <1>2, <2>1, <2>2 DEF Tick, CInv, ClientTypeOK
  <2>4. ASSUME NEW c \in Callers
        PROVE  /\ own'[c] >= sinceStart'
               /\ call'[c].stage = "waiting" => own'[c] + call'[c].left >= MinDelay
    <3>1. own[c] \in 0 .. MinDelay /\ sinceStart \in 0 .. MinDelay /\ call[c].left \in Nat
      BY DEF CInv, ClientTypeOK, CallType
    <3>2. own[c] >= sinceStart
          /\ (call[c].stage = "waiting" => own[c] + call[c].left >= MinDelay)
      BY DEF CInv, Distance
    <3>3. sinceStart' = UpTo(sinceStart + 1, MinDelay)
      BY <1>2 DEF Tick
    <3> QED
      BY <2>2, <3>1, <3>2, <3>3 DEF UpTo
  <2>5. AttemptsLeft'
    BY <2>2 DEF CInv, AttemptsLeft
  <2> QED
    BY <2>3, <2>4, <2>5 DEF CInv, Distance
<1>3. ASSUME NEW c \in Callers, StartCall(c) \/ WakeUp(c) \/ TryAgain(c)
      PROVE  CInv'
  <2>1. call[c] \in CallType
    BY DEF CInv, ClientTypeOK
  <2>2. CASE StartCall(c)
    BY <2>2, ThrottleKeeps DEF StartCall, Attempts
  <2>3. CASE WakeUp(c)
    BY <2>1, <2>3, StartKeeps DEF WakeUp, CallType
  <2>4. CASE TryAgain(c)
    <3>1. call[c].attempt + 1 \in 0 .. Attempts - 1
      BY <2>1, <2>4 DEF TryAgain, CInv, AttemptsLeft, CallType, Attempts
    <3> QED
      BY <2>4, <3>1, ThrottleKeeps DEF TryAgain
  <2> QED
    BY <1>3, <2>2, <2>3, <2>4
<1>4. ASSUME NEW c \in Callers, NEW stage \in {"idle", "ok", "failed"},
             call' = [call EXCEPT ![c] = [NoCall EXCEPT !.stage = stage]],
             UNCHANGED <<sinceStart, own>>
      PROVE  CInv'
  <2> DEFINE rec == [NoCall EXCEPT !.stage = stage]
  <2>1. rec \in CallType /\ rec.stage = stage
    BY DEF NoCall, CallType, CallStages, Attempts
  <2> QED
    BY <1>4, <2>1, RecordKeeps
<1>5. ASSUME NEW c \in Callers, NEW answer \in Transient, NEW retryAfter \in RetryAfters,
             BackOff(c, answer, retryAfter)
      PROVE  CInv'
  <2> DEFINE rec == [stage |-> "backoff", attempt |-> call[c].attempt,
                     left |-> Pause(c, answer, retryAfter)]
  <2>1. call[c] \in CallType
    BY DEF CInv, ClientTypeOK
  <2>2. Pause(c, answer, retryAfter) \in Nat
    BY <2>1 DEF Pause, CallType, Attempts
  <2>3. rec \in CallType
    BY <2>1, <2>2 DEF CallType, CallStages
  <2>4. call' = [call EXCEPT ![c] = rec] /\ UNCHANGED <<sinceStart, own>>
    BY <1>5 DEF BackOff, Sleep
  <2> QED
    BY <1>5, <2>3, <2>4, RecordKeeps DEF BackOff
<1>6. ASSUME NEW c \in Callers, Take(c)
      PROVE  CInv'
  <2>1. [NoCall EXCEPT !.stage = "idle"] = NoCall
    BY DEF NoCall
  <2> QED
    BY <1>4, <1>6, <2>1 DEF Take
<1>7. ASSUME NEW c \in Callers, CallStep(c) \/ Cancel(c)
      PROVE  CInv'
  BY <1>3, <1>4, <1>5, <1>7 DEF CallStep, Cancel, Succeed, GiveUp, Return
<1> QED
  BY <1>1, <1>2, <1>3, <1>6, <1>7 DEF ClientNext

\* A caller's request starts when its own last start is the delay ago.
LEMMA StartsAreSpaced ==
  ASSUME CInv, ClientNext, NEW c \in Callers, Starts(c)
  PROVE  own[c] >= MinDelay
<1> USE MinDelayAssumption DEF CInv
<1>1. call[c] \in CallType /\ own[c] \in Nat /\ sinceStart \in Nat
  BY DEF ClientTypeOK
<1>2. own[c] >= sinceStart /\ (call[c].stage = "waiting" => own[c] + call[c].left >= MinDelay)
  BY DEF Distance
<1>3. ASSUME NEW d \in Callers, NEW rec, call' = [call EXCEPT ![d] = rec], rec.stage # "request"
      PROVE  FALSE
  BY <1>3 DEF Starts, ClientTypeOK
<1>4. ASSUME NEW d \in Callers, NEW attempt, StartRequest(d, attempt)
      PROVE  d = c
  BY <1>4 DEF StartRequest, Starts, ClientTypeOK
<1>5. ASSUME NEW d \in Callers, NEW attempt, Throttle(d, attempt)
      PROVE  own[c] >= MinDelay
  <2>1. CASE sinceStart >= MinDelay
    BY <1>1, <1>2, <2>1
  <2>2. CASE ~(sinceStart >= MinDelay)
    <3> DEFINE rec == [stage |-> "waiting", attempt |-> attempt, left |-> MinDelay - sinceStart]
    <3>1. rec.stage # "request"
      OBVIOUS
    <3>2. call' = [call EXCEPT ![d] = rec]
      BY <1>5, <2>2 DEF Throttle, Sleep
    <3> HIDE DEF rec
    <3> QED
      BY <1>3, <3>1, <3>2
  <2> QED
    BY <2>1, <2>2
<1>6. ASSUME Tick
      PROVE  FALSE
  BY <1>1, <1>6 DEF Tick, Starts, CallType
<1>7. ASSUME NEW d \in Callers, NEW stage \in {"idle", "ok", "failed"},
             call' = [call EXCEPT ![d] = [NoCall EXCEPT !.stage = stage]]
      PROVE  FALSE
  <2>1. [NoCall EXCEPT !.stage = stage].stage # "request"
    BY DEF NoCall
  <2> QED
    BY <1>3, <1>7, <2>1
<1>8. ASSUME NEW d \in Callers, Take(d)
      PROVE  FALSE
  <2>1. NoCall.stage # "request"
    BY DEF NoCall
  <2> QED
    BY <1>3, <1>8, <2>1 DEF Take
<1>9. ASSUME NEW d \in Callers, NEW answer, NEW retryAfter, BackOff(d, answer, retryAfter)
      PROVE  FALSE
  <2> DEFINE rec == [stage |-> "backoff", attempt |-> call[d].attempt,
                     left |-> Pause(d, answer, retryAfter)]
  <2>1. rec.stage # "request"
    OBVIOUS
  <2>2. call' = [call EXCEPT ![d] = rec]
    BY <1>9 DEF BackOff, Sleep
  <2> HIDE DEF rec
  <2> QED
    BY <1>3, <2>1, <2>2
<1>10. ASSUME NEW d \in Callers, WakeUp(d)
       PROVE  own[c] >= MinDelay
  BY <1>1, <1>2, <1>4, <1>10 DEF WakeUp
<1>11. PICK d \in Callers : StartCall(d) \/ CallStep(d) \/ Cancel(d) \/ Take(d)
  BY <1>6 DEF ClientNext
<1> QED
  BY <1>5, <1>7, <1>8, <1>9, <1>10, <1>11
  DEF StartCall, CallStep, TryAgain, Cancel, Succeed, GiveUp, Return

\* The client by itself: a caller's requests keep HH_MIN_DELAY_MS (client.go,
\* throttle), because whoever sleeps has at least the rest of its own delay
\* to sleep, and lastStart never lies before anybody's own last start.
THEOREM ClientKeepsDistance == ClientSpec => []CInv /\ CallerKeepsDistance
<1>1. ClientInit => CInv
  BY MinDelayAssumption DEF ClientInit, CInv, ClientTypeOK, Distance, AttemptsLeft,
     NoCall, CallType, CallStages, Attempts
<1>2. CInv /\ [ClientNext]_clientVars => CInv'
  BY ClientStepKeeps
<1>3. CInv /\ [ClientNext]_clientVars
        => [\A c \in Callers : Starts(c) => own[c] >= MinDelay]_clientVars
  BY StartsAreSpaced
<1> QED
  BY <1>1, <1>2, <1>3, PTL DEF ClientSpec, CallerKeepsDistance

-----------------------------------------------------------------------------

\* Every step of a search or an import is one of the client or leaves it alone.
LEMMA StepsAreClientSteps ==
  ASSUME [Next]_vars
  PROVE  [ClientNext]_clientVars
<1>1. CASE UNCHANGED vars
  BY <1>1 DEF vars, clientVars
<1>2. CASE TimePasses
  BY <1>2 DEF TimePasses, ClientNext
<1>3. ASSUME NEW c \in Callers, BeginSearch(c) \/ BeginUrl(c) \/ FetchDetails(c) \/ NextPage(c)
      PROVE  StartCall(c)
  BY <1>3 DEF BeginSearch, BeginUrl, FetchDetails, NextPage
<1>4. ASSUME NEW c \in Callers, NEW rec, GoOn(c, rec)
      PROVE  Take(c)
  BY <1>4 DEF GoOn
<1>5. ASSUME NEW c \in Callers, ItemImported(c) \/ ItemFailed(c) \/ UrlDone(c)
      PROVE  Take(c)
  BY <1>4, <1>5 DEF ItemImported, ItemFailed, ItemDone, UrlDone
<1>6. ASSUME NEW c \in Callers, NEW n, NEW more, PageFetched(c, n, more)
      PROVE  Take(c)
  BY <1>4, <1>6 DEF PageFetched
<1>7. ASSUME NEW c \in Callers, NEW written, PageFailed(c, written)
      PROVE  Take(c)
  BY <1>4, <1>7 DEF PageFailed
<1>8. ASSUME NEW c \in Callers, NEW written, LastPage(c, written)
      PROVE  UNCHANGED clientVars
  BY <1>8 DEF LastPage, clientVars
<1>9. ASSUME NEW c \in Callers, ClientStep(c) \/ Cancelled(c)
      PROVE  CallStep(c) \/ Cancel(c)
  BY <1>9 DEF ClientStep, Cancelled
<1> QED
  BY <1>1, <1>2, <1>3, <1>5, <1>6, <1>7, <1>8, <1>9 DEF Next, RunStep, ClientNext

\* App.RunSearch and ImportManualVacancy implement the client's specification:
\* each of their steps is one of the client or leaves it as it is.
THEOREM SearchUsesClient == Spec => UsesClient
<1>1. Init => ClientInit
  BY DEF Init
<1>2. [Next]_vars => [ClientNext]_clientVars
  BY StepsAreClientSteps
<1> QED
  BY <1>1, <1>2, PTL DEF Spec, UsesClient, ClientSpec

\* So searches and imports beside each other keep each caller's distance.
THEOREM SearchKeepsDistance == Spec => CallerKeepsDistance
  BY SearchUsesClient, ClientKeepsDistance, PTL DEF UsesClient

-----------------------------------------------------------------------------

\* What a run may be: its items are all accounted for, a page that is being
\* fetched has none yet, and a search is later than what it read.
RunGood(r) ==
  /\ r.imported + r.errors + r.items = r.listed
  /\ r.listed <= (r.page + 1) * MaxItems
  /\ r.stage = "page" => r.items = 0 /\ r.listed <= r.page * MaxItems
  /\ r.stage = "details" => r.items > 0
  /\ r.stage \in {"page", "items", "details"} => r.read < r.date

Runs ==
  /\ success \in Dates
  /\ clock \in Dates
  /\ success <= clock
  /\ run \in [Callers -> RunType]
  /\ \A c \in Callers : run[c].date <= clock /\ RunGood(run[c])

LEMMA OnePageMore ==
  ASSUME NEW p \in Nat
  PROVE  /\ p * MaxItems \in Nat
         /\ (p + 1) * MaxItems = p * MaxItems + MaxItems
         /\ (p + 1) * MaxItems \in Nat
BY MaxItemsAssumption

\* One caller's run becomes rec.
LEMMA RunKeeps ==
  ASSUME Runs, NEW c \in Callers, NEW rec \in RunType, RunGood(rec),
         run' = [run EXCEPT ![c] = rec],
         success' \in Dates, clock' \in Dates, success' <= clock',
         clock <= clock', rec.date <= clock'
  PROVE  Runs'
<1>1. run' \in [Callers -> RunType]
  BY DEF Runs
<1>2. run'[c] = rec /\ \A d \in Callers \ {c} : run'[d] = run[d]
  BY DEF Runs
<1>3. ASSUME NEW d \in Callers
      PROVE  run'[d].date <= clock' /\ RunGood(run'[d])
  <2>1. CASE d = c
    BY <1>2, <2>1
  <2>2. CASE d # c
    <3>1. run[d].date <= clock /\ RunGood(run[d]) /\ run[d].date \in Int /\ clock \in Int
      BY DEF Runs, RunType, Dates
    <3>2. run'[d] = run[d]
      BY <1>2, <2>2
    <3>3. run[d].date <= clock'
      BY <3>1 DEF Dates
    <3> QED
      BY <3>1, <3>2, <3>3
  <2> QED
    BY <2>1, <2>2
<1>4. \A d \in Callers : RunGood(run[d])' <=> RunGood(run'[d])
  BY DEF RunGood
<1> QED
  BY <1>1, <1>3, <1>4 DEF Runs

LEMMA NoRunIsGood == NoRun \in RunType /\ RunGood(NoRun) /\ NoRun.date = 0
<1>1. NoRun \in RunType
  BY MaxPagesAssumption, MaxRunsAssumption, MaxItemsAssumption
  DEF NoRun, RunType, RunStages, Dates, Never
<1>2. RunGood(NoRun)
  BY OnePageMore, MaxItemsAssumption DEF RunGood, NoRun, Never
<1> QED
  BY <1>1, <1>2 DEF NoRun, Never

\* Every step keeps the runs good.
LEMMA RunsKeep ==
  ASSUME Runs, [Next]_vars
  PROVE  Runs'
<1> USE MaxPagesAssumption, MaxItemsAssumption, MaxRunsAssumption
<1>1. CASE UNCHANGED <<success, clock, run>>
  BY <1>1 DEF Runs, RunGood
<1>2. ASSUME NEW c \in Callers
      PROVE  run[c] \in RunType /\ RunGood(run[c])
  BY DEF Runs
<1>size. ASSUME NEW c \in Callers
       PROVE  /\ run[c].page * MaxItems \in Nat
              /\ (run[c].page + 1) * MaxItems = run[c].page * MaxItems + MaxItems
  BY <1>2, OnePageMore DEF RunType
<1>record. ASSUME NEW c \in Callers, NEW rec \in RunType, RunGood(rec), rec.date = run[c].date,
              run' = [run EXCEPT ![c] = rec], UNCHANGED <<success, clock>>
       PROVE  Runs'
  <2>1. success \in Dates /\ clock \in Dates /\ success <= clock /\ rec.date <= clock
    BY <1>record DEF Runs
  <2>2. clock <= clock
    BY <2>1 DEF Dates
  <2> QED
    BY <1>record, <2>1, <2>2, RunKeeps
<1>3. ASSUME NEW c \in Callers, BeginSearch(c)
      PROVE  Runs'
  <2> DEFINE rec == [NoRun EXCEPT !.stage = "page", !.date = clock + 1, !.read = success]
  <2>0. success \in Dates /\ clock \in Dates /\ success <= clock /\ clock + 1 \in Dates
    BY <1>3 DEF Runs, BeginSearch, Dates
  <2>1. rec \in RunType
    BY <2>0, NoRunIsGood DEF RunType, RunStages
  <2>2. RunGood(rec)
    BY <2>0, NoRunIsGood, OnePageMore DEF RunGood, NoRun, Dates
  <2>3. run' = [run EXCEPT ![c] = rec] /\ success' = success /\ clock' = clock + 1
    BY <1>3 DEF BeginSearch
  <2>4. /\ success' \in Dates /\ clock' \in Dates /\ success' <= clock' /\ clock <= clock'
        /\ rec.date <= clock'
    BY <2>0, <2>3 DEF Dates, NoRun
  <2> HIDE DEF rec
  <2> QED
    BY <2>1, <2>2, <2>3, <2>4, RunKeeps
<1>4. ASSUME NEW c \in Callers, NEW stage \in RunStages, run[c].stage \in {"idle", "items"},
             stage \in {"url", "details"}, stage = "details" => run[c].items > 0,
             stage = "details" => run[c].stage = "items",
             run' = [run EXCEPT ![c].stage = stage], UNCHANGED <<success, clock>>
      PROVE  Runs'
  <2> DEFINE rec == [run[c] EXCEPT !.stage = stage]
  <2>1. rec \in RunType
    BY <1>2 DEF RunType
  <2>2. RunGood(rec) /\ rec.date = run[c].date
    BY <1>2, <1>4 DEF RunGood, RunType
  <2>3. run' = [run EXCEPT ![c] = rec]
    BY <1>4
  <2> HIDE DEF rec
  <2> QED
    BY <1>4, <2>1, <2>2, <2>3, <1>record
<1>5. ASSUME NEW c \in Callers, NEW n \in 0 .. MaxItems, NEW more \in BOOLEAN,
             PageFetched(c, n, more)
      PROVE  Runs'
  <2> DEFINE rec == [run[c] EXCEPT !.stage = "items", !.items = n, !.more = more /\ n > 0,
                                   !.listed = @ + n]
  <2>0. (more /\ n > 0) \in BOOLEAN
    OBVIOUS
  <2>1. rec \in RunType
    <3>1. run[c] \in RunType /\ run[c].listed + n \in Nat
      BY <1>2 DEF RunType
    <3> QED
      BY <2>0, <3>1 DEF RunType, RunStages
  <2>2. RunGood(rec) /\ rec.date = run[c].date
    <3>1. /\ rec.stage = "items" /\ rec.items = n /\ rec.listed = run[c].listed + n
          /\ rec.imported = run[c].imported /\ rec.errors = run[c].errors
          /\ rec.page = run[c].page /\ rec.read = run[c].read /\ rec.date = run[c].date
      BY <1>2 DEF RunType
    <3>2. /\ run[c].listed \in Nat /\ run[c].imported \in Nat /\ run[c].errors \in Nat
          /\ run[c].stage = "page"
      BY <1>2, <1>5 DEF RunType, PageFetched
    <3> HIDE DEF rec
    <3> QED
      BY <1>2, <1>size, <3>1, <3>2 DEF RunGood
  <2>3. run' = [run EXCEPT ![c] = rec] /\ UNCHANGED <<success, clock>>
    BY <1>5 DEF PageFetched, GoOn
  <2> HIDE DEF rec
  <2> QED
    BY <2>1, <2>2, <2>3, <1>record
<1>6. ASSUME NEW c \in Callers, run' = [run EXCEPT ![c] = NoRun], clock' = clock,
             success' \in {success, run[c].read, run[c].date},
             run[c].stage \in {"page", "items"} \/ success' = success
      PROVE  Runs'
  <2>1. success' \in Dates /\ success' <= clock
    BY <1>2, <1>6 DEF Runs, RunType, RunGood, Dates
  <2>2. clock \in Dates /\ clock <= clock /\ NoRun.date <= clock
    BY NoRunIsGood DEF Runs, Dates
  <2> QED
    BY <1>6, <2>1, <2>2, NoRunIsGood, RunKeeps
<1>7. ASSUME NEW c \in Callers, ItemImported(c) \/ ItemFailed(c)
      PROVE  Runs'
  <2>1. PICK rec0 \in {[run[c] EXCEPT !.imported = @ + 1], [run[c] EXCEPT !.errors = @ + 1]} :
          ItemDone(c, rec0)
    BY <1>7 DEF ItemImported, ItemFailed
  <2> DEFINE rec == [rec0 EXCEPT !.stage = "items", !.items = @ - 1]
  <2>2. /\ run[c].stage = "details" /\ run[c].items \in 0 .. MaxItems /\ run[c].items > 0
        /\ run[c].listed \in Nat /\ run[c].imported \in Nat /\ run[c].errors \in Nat
    BY <1>2, <2>1 DEF ItemDone, RunGood, RunType
  <2>3. rec \in RunType
    <3>1. rec0 \in RunType /\ rec0.items = run[c].items
      BY <1>2, <2>1, <2>2 DEF RunType
    <3>2. run[c].items - 1 \in 0 .. MaxItems
      BY <2>2
    <3> QED
      BY <3>1, <3>2 DEF RunType, RunStages
  <2>4. /\ rec.stage = "items" /\ rec.items = run[c].items - 1 /\ rec.listed = run[c].listed
        /\ rec.imported + rec.errors = run[c].imported + run[c].errors + 1
        /\ rec.imported \in Nat /\ rec.errors \in Nat
        /\ rec.page = run[c].page /\ rec.read = run[c].read /\ rec.date = run[c].date
    BY <1>2, <2>1, <2>2 DEF RunType
  <2>5. run' = [run EXCEPT ![c] = rec] /\ UNCHANGED <<success, clock>>
    BY <2>1 DEF ItemDone, GoOn
  <2> HIDE DEF rec
  <2>6. RunGood(rec)
    BY <1>2, <1>size, <2>2, <2>4 DEF RunGood
  <2> QED
    BY <2>3, <2>4, <2>5, <2>6, <1>record
<1>8. ASSUME NEW c \in Callers, NextPage(c)
      PROVE  Runs'
  <2> DEFINE rec == [run[c] EXCEPT !.stage = "page", !.page = @ + 1]
  <2>1. rec \in RunType
    <3>1. run[c].page + 1 \in 0 .. MaxPages - 1
      BY <1>2, <1>8 DEF NextPage, RunType
    <3> QED
      BY <1>2, <3>1 DEF RunType, RunStages
  <2>2. /\ rec.stage = "page" /\ rec.items = 0 /\ rec.listed = run[c].listed
        /\ rec.imported = run[c].imported /\ rec.errors = run[c].errors
        /\ rec.page = run[c].page + 1 /\ rec.read = run[c].read /\ rec.date = run[c].date
        /\ run[c].stage = "items" /\ run[c].items = 0 /\ run[c].listed \in Nat
    BY <1>2, <1>8 DEF NextPage, RunType
  <2>3. run' = [run EXCEPT ![c] = rec] /\ UNCHANGED <<success, clock>>
    BY <1>8 DEF NextPage
  <2>4. (rec.page + 1) * MaxItems = rec.page * MaxItems + MaxItems /\ rec.page * MaxItems \in Nat
    BY <1>2, <2>1, OnePageMore DEF RunType
  <2> HIDE DEF rec
  <2>5. RunGood(rec)
    BY <1>2, <1>size, <2>2, <2>4 DEF RunGood
  <2> QED
    BY <2>1, <2>2, <2>3, <2>5, <1>record
<1>9. ASSUME NEW c \in Callers, BeginUrl(c) \/ FetchDetails(c)
      PROVE  Runs'
  BY <1>4, <1>9 DEF BeginUrl, FetchDetails, RunStages
<1>10. ASSUME NEW c \in Callers, NEW written \in BOOLEAN,
              UrlDone(c) \/ PageFailed(c, written) \/ LastPage(c, written)
       PROVE  Runs'
  BY <1>6, <1>10 DEF UrlDone, PageFailed, LastPage, GoOn
<1>11. ASSUME NEW c \in Callers, ClientStep(c) \/ Cancelled(c) \/ TimePasses
       PROVE  UNCHANGED <<success, clock, run>>
  BY <1>11 DEF ClientStep, Cancelled, TimePasses
<1>12. CASE TimePasses
  BY <1>1, <1>12 DEF TimePasses
<1>13. CASE UNCHANGED vars
  BY <1>1, <1>13 DEF vars
<1> QED
  BY <1>1, <1>3, <1>5, <1>7, <1>8, <1>9, <1>10, <1>11, <1>12, <1>13 DEF Next, RunStep

LEMMA RunsInit == Init => Runs
<1> SUFFICES ASSUME Init PROVE Runs
  OBVIOUS
<1>1. run \in [Callers -> RunType] /\ \A c \in Callers : run[c] = NoRun
  BY NoRunIsGood DEF Init
<1> QED
  BY <1>1, NoRunIsGood, MaxRunsAssumption DEF Init, Runs, Dates, Never

\* The types of the client and of the searches.
THEOREM SearchTypeOK == Spec => []TypeOK
<1>1. Init => CInv
  BY MinDelayAssumption DEF Init, ClientInit, CInv, ClientTypeOK, Distance, AttemptsLeft,
     NoCall, CallType, CallStages, Attempts
<1>2. CInv /\ [Next]_vars => CInv'
  BY StepsAreClientSteps, ClientStepKeeps
<1>3. CInv /\ Runs => TypeOK
  BY DEF CInv, Runs, TypeOK
<1> QED
  BY <1>1, <1>2, <1>3, RunsInit, RunsKeep, PTL DEF Spec

\* app.go, runHeadhunterSource: no failure of a page, of a call or of an import
\* makes a search lose count of what HeadHunter listed.
THEOREM SummaryAlwaysAddsUp == Spec => []SummaryAddsUp
<1>1. Runs => SummaryAddsUp
  BY DEF Runs, RunGood, SummaryAddsUp
<1> QED
  BY <1>1, RunsInit, RunsKeep, PTL DEF Spec

\* app.go, RunSearch: the date of the last success goes back only when a search
\* ends that had read the source before that date was written.
THEOREM SuccessForgottenByOverlapOnly == Spec => SuccessIsForgottenByOverlapOnly
<1>1. ASSUME Runs, Next, success' < success
      PROVE  \E c \in Callers :
               /\ run[c].stage \in {"page", "items"} /\ run'[c].stage = "idle"
               /\ run[c].read # success
  <2>1. success' # success
    BY <1>1 DEF Runs, Dates
  <2>2. PICK c \in Callers, written \in BOOLEAN : PageFailed(c, written) \/ LastPage(c, written)
    BY <1>1, <2>1 DEF Next, RunStep, TimePasses, BeginSearch, BeginUrl, ClientStep, Cancelled,
       PageFetched, FetchDetails, ItemImported, ItemFailed, ItemDone, NextPage, UrlDone
  <2>3. /\ run[c].stage \in {"page", "items"} /\ run' = [run EXCEPT ![c] = NoRun]
        /\ success' \in {run[c].read, run[c].date}
    BY <2>1, <2>2 DEF PageFailed, LastPage, GoOn
  <2>4. run[c] \in RunType /\ RunGood(run[c]) /\ success \in Dates
    BY <1>1 DEF Runs
  <2>5. run'[c].stage = "idle"
    BY <1>1, <2>3 DEF Runs, NoRun
  <2>6. run[c].read # success
    BY <1>1, <2>1, <2>3, <2>4 DEF RunGood, RunType, Dates
  <2> QED
    BY <2>3, <2>5, <2>6
<1>2. Runs /\ [Next]_vars
        => [success' < success =>
              \E c \in Callers :
                /\ run[c].stage \in {"page", "items"} /\ run'[c].stage = "idle"
                /\ run[c].read # success]_vars
  BY <1>1
<1> QED
  BY <1>2, RunsInit, RunsKeep, PTL DEF Spec, SuccessIsForgottenByOverlapOnly
=============================================================================
