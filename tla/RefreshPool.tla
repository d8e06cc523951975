----------------------------- MODULE RefreshPool -----------------------------
(***************************************************************************)
(* The pool of threads that fetches market data for the pages of a process *)
(* (src/backend/app.py: _BACKGROUND_FETCH_EXECUTOR, _spawn_refresh,        *)
(* _run_with_hard_deadline, get_market_data, get_macro_ticker_tape and the *)
(* payloads by ticker) and the screen of the whole market that all         *)
(* processes share (src/backend/market_scanner.py: _scan_nasdaq).  A job   *)
(* that its caller no longer waits for keeps its thread; a refresh that    *)
(* waits for a job of the same pool keeps two.                             *)
(***************************************************************************)
EXTENDS Naturals, Sequences, FiniteSets

CONSTANTS
    Slots,        \* the threads of the pool
    Tickers,      \* the tickers the pages ask for
    Nobody, Scan, \* who waits for an inner job, if no refresh does
    MaxQueue,     \* bound: a request comes only while fewer jobs wait for a thread
    MaxFaults     \* bound on the fetches that fail or never return

VARIABLES
    slot,     \* the job of each thread
    queue,    \* the jobs that wait for one
    inflight, \* _refresh_inflight
    age,      \* of what is cached for a key
    memory,   \* whether MARKET_CACHE, a copy of the screen, counts as fresh
    lock,     \* who has nasdaq scan's lock file
    scan,     \* the autonomous scan waits for a screen
    faults

vars == <<slot, queue, inflight, age, memory, lock, scan, faults>>

\* Two keys are refreshed by a job that submits a job: they are never fetched
\* by the page itself.  The screen is kept on disk, the rest in the process.
Nested == {"screen", "tape"}
Keys == Tickers \union Nested

Job(kind, key, waits) == [kind |-> kind, key |-> key, for |-> waits]
Page(t) == Job("page", t, Nobody)
Refresh(k) == Job("refresh", k, Nobody)
Inner(k, waits) == Job("inner", k, waits)
Free == [job |-> Job("none", "none", Nobody), step |-> "free"]

OtherProcess == "other"

Init ==
    /\ slot = [s \in Slots |-> Free] /\ queue = <<>> /\ inflight = {}
    /\ age = [k \in Keys |-> "old"] /\ memory = FALSE
    /\ lock = Nobody /\ scan = FALSE
    /\ faults = 0

Fresh(k) == age[k] = "fresh"
Write(k) == age' = [age EXCEPT ![k] = "fresh"]
Room == Len(queue) < MaxQueue
Go(s, step) == slot' = [slot EXCEPT ![s].step = step]

-----------------------------------------------------------------------------
(* The requests.                                                           *)

\* Mutant of Spawned: the keys are not looked at.
SpawnedAgain(k) == <<Refresh(k)>>

\* _spawn_refresh: once per key.
Spawned(k) == IF k \in inflight THEN <<>> ELSE <<Refresh(k)>>

Spawn(k) ==
    /\ queue' = queue \o Spawned(k)
    /\ inflight' = inflight \union {k}

\* A page submits a job for each of its tickers and shows those that are done
\* when its deadline comes.
AskTicker(t) ==
    /\ Room /\ queue' = Append(queue, Page(t))
    /\ UNCHANGED <<slot, inflight, age, memory, lock, scan, faults>>

\* get_macro_ticker_tape(block=False)
ShowTape ==
    /\ Room /\ ~Fresh("tape") /\ Spawn("tape")
    /\ UNCHANGED <<slot, age, memory, lock, scan, faults>>

\* get_market_data(block=False): the copy in memory, then the file.
ShowScreen ==
    /\ Room /\ ~memory
    /\ IF Fresh("screen")
       THEN memory' = TRUE /\ UNCHANGED <<queue, inflight>>
       ELSE Spawn("screen") /\ UNCHANGED memory
    /\ UNCHANGED <<slot, age, lock, scan, faults>>

\* get_market_data of the autonomous scan, which waits for a screen.
ScanAsks ==
    /\ Room /\ ~scan /\ ~memory
    /\ IF Fresh("screen")
       THEN memory' = TRUE /\ UNCHANGED <<queue, scan>>
       ELSE /\ queue' = Append(queue, Inner("screen", Scan)) /\ scan' = TRUE
            /\ UNCHANGED memory
    /\ UNCHANGED <<slot, inflight, age, lock, faults>>

-----------------------------------------------------------------------------
(* The threads.                                                            *)

\* Mutant of StaleServed: what was fetched once may be shown for ever.
StaleServedEver(k) == age[k] # "fresh"

\* _within_stale_window: for a while after it expired.
StaleServed(k) == age[k] = "stale"

\* A thread takes the next job: of a page, which reads the cache and may leave
\* the fetch to a refresh; a refresh, which for a nested key submits the fetch
\* and waits for it; or such a fetch, which for the screen needs the lock.
Start(s) ==
    /\ slot[s] = Free /\ queue # <<>>
    /\ LET job == Head(queue)
           Begin(step) == slot' = [slot EXCEPT ![s] = [job |-> job, step |-> step]]
           Queued(more) == queue' = Tail(queue) \o more
       IN  \/ /\ job.kind = "page" /\ Fresh(job.key)
              /\ Queued(<<>>) /\ UNCHANGED <<slot, inflight>>
           \/ /\ job.kind = "page" /\ ~Fresh(job.key) /\ StaleServed(job.key)
              /\ Queued(Spawned(job.key)) /\ inflight' = inflight \union {job.key}
              /\ UNCHANGED slot
           \/ /\ job.kind = "page" /\ ~Fresh(job.key) /\ ~StaleServed(job.key)
              /\ Begin("fetch") /\ Queued(<<>>) /\ UNCHANGED inflight
           \/ /\ job.kind = "refresh" /\ job.key \in Nested
              /\ Begin("wait") /\ Queued(<<Inner(job.key, s)>>) /\ UNCHANGED inflight
           \/ /\ job.kind = "refresh" /\ job.key \notin Nested
              /\ Begin("fetch") /\ Queued(<<>>) /\ UNCHANGED inflight
           \/ /\ job.kind = "inner"
              /\ Begin(IF job.key = "screen" THEN "lock" ELSE "fetch")
              /\ Queued(<<>>) /\ UNCHANGED inflight
    /\ UNCHANGED <<age, memory, lock, scan, faults>>

\* The job ends: its thread is free and its key, if it was a refresh, and the
\* refresh or the scan that waits for it ends or goes on with it.
End(s) ==
    LET job == slot[s].job
        over == {x \in Slots : x = s \/ x = job.for}
    IN  /\ slot' = [x \in Slots |-> IF x \in over THEN Free ELSE slot[x]]
        /\ inflight' = {k \in inflight : \A x \in over : slot[x].job # Refresh(k)}
        /\ lock' = IF lock = s THEN Nobody ELSE lock
        /\ scan' = (scan /\ job.for # Scan)
        /\ memory' = (memory \/ job.for = Scan)

\* One screen for all processes: under the lock the file is looked at again.
TakeLock(s) ==
    /\ slot[s].step = "lock" /\ lock = Nobody
    /\ IF Fresh("screen")
       THEN End(s)
       ELSE Go(s, "fetch") /\ lock' = s /\ UNCHANGED <<inflight, scan, memory>>
    /\ UNCHANGED <<queue, age, faults>>

\* The screen is written by the job itself, and so is what a ticker has; the
\* tape is kept by the refresh that waits for it, if one still does.
Kept(job) == job.key # "tape" \/ job.for \in Slots

Fetched(s) ==
    /\ slot[s].step = "fetch" /\ End(s)
    /\ IF Kept(slot[s].job) THEN Write(slot[s].job.key) ELSE UNCHANGED age
    /\ UNCHANGED <<queue, faults>>

FetchFails(s) ==
    /\ slot[s].step = "fetch" /\ End(s)
    /\ faults < MaxFaults /\ faults' = faults + 1
    /\ UNCHANGED <<queue, age>>

\* The fetch of a ticker may never return; a screen has timeouts.
Hang(s) ==
    /\ slot[s].step = "fetch" /\ slot[s].job.key \in Tickers
    /\ faults < MaxFaults /\ faults' = faults + 1
    /\ Go(s, "hung")
    /\ UNCHANGED <<queue, inflight, age, memory, lock, scan>>

\* The inner job that x waits for goes on alone.
Alone(job, x) == IF job.for = x THEN [job EXCEPT !.for = Nobody] ELSE job
QueueAlone(x) == [i \in 1 .. Len(queue) |-> Alone(queue[i], x)]
SlotsAlone(x) == [s \in Slots |-> [slot[s] EXCEPT !.job = Alone(@, x)]]

\* Mutant of GiveUp: a job that has not begun is cancelled.
GiveUpCancelling(s) ==
    /\ slot[s].step = "wait"
    /\ queue' = SelectSeq(queue, LAMBDA job : job.for # s)
    /\ slot' = [SlotsAlone(s) EXCEPT ![s] = Free]
    /\ inflight' = inflight \ {slot[s].job.key}
    /\ UNCHANGED <<age, memory, lock, scan, faults>>

\* The deadline of _run_with_hard_deadline.
GiveUp(s) ==
    /\ slot[s].step = "wait"
    /\ queue' = QueueAlone(s)
    /\ slot' = [SlotsAlone(s) EXCEPT ![s] = Free]
    /\ inflight' = inflight \ {slot[s].job.key}
    /\ UNCHANGED <<age, memory, lock, scan, faults>>

\* A scan that gives up takes the rows in memory for fresh a little longer.
ScanGivesUp ==
    /\ scan /\ scan' = FALSE
    /\ queue' = QueueAlone(Scan) /\ slot' = SlotsAlone(Scan)
    /\ memory' \in {TRUE, memory}
    /\ UNCHANGED <<inflight, age, lock, faults>>

-----------------------------------------------------------------------------
(* Time, and the other processes.  What is fresh turns stale, then old; a   *)
(* nested key is never too old to be shown.                                *)

Older(k) ==
    /\ age[k] # "old"
    /\ age' = [age EXCEPT ![k] = IF @ = "fresh" /\ k \notin Nested THEN "stale" ELSE "old"]
    /\ UNCHANGED <<slot, queue, inflight, memory, lock, scan, faults>>

Forget ==
    /\ memory /\ memory' = FALSE
    /\ UNCHANGED <<slot, queue, inflight, age, lock, scan, faults>>

OtherTakesLock ==
    /\ lock = Nobody /\ ~Fresh("screen") /\ lock' = OtherProcess
    /\ UNCHANGED <<slot, queue, inflight, age, memory, scan, faults>>

OtherScreens ==
    /\ lock = OtherProcess /\ lock' = Nobody
    /\ Write("screen") \/ UNCHANGED age
    /\ UNCHANGED <<slot, queue, inflight, memory, scan, faults>>

Work(s) == Start(s) \/ Fetched(s) \/ GiveUp(s)

Next ==
    \/ \E t \in Tickers : AskTicker(t)
    \/ ShowTape \/ ShowScreen \/ ScanAsks \/ ScanGivesUp
    \/ \E s \in Slots : Work(s) \/ TakeLock(s) \/ FetchFails(s) \/ Hang(s)
    \/ \E k \in Keys : Older(k)
    \/ Forget \/ OtherTakesLock \/ OtherScreens

Spec == Init /\ [][Next]_vars

\* Threads work on, deadlines pass, locks are handed on in turn; pages are
\* opened again and again.
Fairness ==
    /\ \A s \in Slots : WF_vars(Work(s)) /\ SF_vars(TakeLock(s))
    /\ WF_vars(ScanGivesUp) /\ WF_vars(Forget) /\ WF_vars(OtherScreens)
    /\ \A k \in Keys : WF_vars(Older(k))
    /\ SF_vars(ShowScreen) /\ \A t \in Tickers : SF_vars(AskTicker(t))

FairSpec == Spec /\ Fairness

-----------------------------------------------------------------------------
(* Properties *)

Refreshes(k) ==
    Cardinality({s \in Slots : slot[s].job = Refresh(k)})
        + Cardinality({i \in 1 .. Len(queue) : queue[i] = Refresh(k)})

\* A key is marked exactly while one refresh of it waits or runs, whoever gave
\* up on what, so no key is lost and none is fetched twice at a time.
OneRefreshPerKey ==
    \A k \in Keys : Refreshes(k) = IF k \in inflight THEN 1 ELSE 0

\* What pages show is renewed again and again: the screen, although pages
\* never wait for it, its refresh takes up a thread only to wait for another,
\* and every one of those who waited may have given up; and what there is of a
\* ticker, although a refresh of it may never end and then keeps its key for
\* ever (_spawn_refresh, _run_with_hard_deadline, _within_stale_window).
PagesAreRenewed == \A k \in Tickers \union {"screen"} : []<>Fresh(k)
=============================================================================
