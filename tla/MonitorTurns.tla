---------------------------- MODULE MonitorTurns ----------------------------
(***************************************************************************)
(* Who calls the monitors, and whose turn it is. A timer job posts the     *)
(* full scan and then the fast monitor; a worker posts continuous ticks,   *)
(* one after the other; a request of any of them goes through the accounts *)
(* in order and takes the scan lock of each for its pass. A caller that    *)
(* has waited long enough gives up while its request goes on, so requests  *)
(* overlap; passes hang, processes are killed, callers are stopped.        *)
(***************************************************************************)
EXTENDS Naturals

CONSTANTS
    AccountCount, \* the registered accounts with a broker
    Scanned,      \* those in AUTONOMOUS or APPROVAL mode
    Requests,     \* what the web service works on at a time
    NoRequest,
    LockRetries,  \* CRON_SCAN_LOCK_RETRIES
    Posts,        \* the attempts of the timer job at an endpoint
    MaxFaults     \* passes that hang, processes killed, callers stopped

TurnConstants ==
    /\ AccountCount \in Nat /\ Scanned \subseteq 1 .. AccountCount
    /\ NoRequest \notin Requests
    /\ LockRetries \in Nat /\ Posts \in Nat \ {0} /\ MaxFaults \in Nat

VARIABLES
    run,     \* the requests
    holder,  \* the scan lock of each account: the request that has it
    tick,    \* the lock of a continuous tick
    job,     \* the timer job: the endpoint it is at, the request it waits for
    worker,  \* the request the worker waits for
    up,      \* the callers that have not been stopped
    faults   \* the faults so far

vars == <<run, holder, tick, job, worker, up, faults>>

Accounts == 1 .. AccountCount
Kinds == {"full", "fast", "continuous"}
Callers == {"job", "worker"}

\* A request: its kind, what it does, for which account, how often it found
\* the lock of that account taken, and the accounts it has recorded.
Idle == [kind |-> "none", stage |-> "idle", at |-> 1, tried |-> 0, logged |-> {}]
Posted(k) == [kind |-> k, stage |-> IF k = "continuous" THEN "lock" ELSE "turn",
              at |-> 1, tried |-> 0, logged |-> {}]

InPass(r) == run[r].stage \in {"pass", "hung"}
Waits(r) == run[r].kind = "full" /\ run[r].at \in Scanned

-----------------------------------------------------------------------------
(* The callers *)

Rest == [step |-> "rest", waits |-> NoRequest, attempt |-> 1]

\* After the full scan the fast monitor, after that rest, whatever came of it.
Onwards == IF job.step = "full" THEN [Rest EXCEPT !.step = "fast"] ELSE Rest

Again == IF job.attempt < Posts
         THEN [step |-> job.step, waits |-> NoRequest, attempt |-> job.attempt + 1]
         ELSE Onwards

JobStarts ==
    /\ "job" \in up /\ job = Rest
    /\ job' = [Rest EXCEPT !.step = "full"]
    /\ UNCHANGED <<run, holder, tick, worker, up, faults>>

JobPosts(r) ==
    /\ job.step # "rest" /\ job.waits = NoRequest
    /\ run[r] = Idle
    /\ run' = [run EXCEPT ![r] = Posted(job.step)]
    /\ job' = [job EXCEPT !.waits = r]
    /\ UNCHANGED <<holder, tick, worker, up, faults>>

\* A request that takes too long fails the attempt like one that is refused.
JobTimesOut ==
    /\ job.waits # NoRequest
    /\ job' = Again
    /\ UNCHANGED <<run, holder, tick, worker, up, faults>>

WorkerPosts(r) ==
    /\ "worker" \in up /\ worker = NoRequest
    /\ run[r] = Idle
    /\ run' = [run EXCEPT ![r] = Posted("continuous")]
    /\ worker' = r
    /\ UNCHANGED <<holder, tick, job, up, faults>>

WorkerTimesOut ==
    /\ worker # NoRequest
    /\ worker' = NoRequest
    /\ UNCHANGED <<run, holder, tick, job, up, faults>>

-----------------------------------------------------------------------------
(* The requests *)

FreeTick(r) == IF tick = r THEN NoRequest ELSE tick
AnswerWorker(r) == IF worker = r THEN NoRequest ELSE worker

\* The request ends with an answer, and its caller goes on.
Answer(r) ==
    /\ run' = [run EXCEPT ![r] = Idle]
    /\ tick' = FreeTick(r)
    /\ job' = IF job.waits = r THEN Onwards ELSE job
    /\ worker' = AnswerWorker(r)

TakeTick(r) ==
    /\ run[r].stage = "lock" /\ tick = NoRequest
    /\ tick' = r
    /\ run' = [run EXCEPT ![r].stage = "turn"]
    /\ UNCHANGED <<holder, job, worker, up, faults>>

TickAlreadyRunning(r) ==
    /\ run[r].stage = "lock" /\ tick # NoRequest
    /\ Answer(r)
    /\ UNCHANGED <<holder, up, faults>>

MyTurn(r) == run[r].stage = "turn" /\ run[r].at \in Accounts

BeginPass(r) ==
    /\ MyTurn(r)
    /\ holder[run[r].at] = NoRequest
    /\ holder' = [holder EXCEPT ![run[r].at] = r]
    /\ run' = [run EXCEPT ![r].stage = "pass"]
    /\ UNCHANGED <<tick, job, worker, up, faults>>

\* The next account's turn; the full scan leaves a record of this one.
NextTurn(r) ==
    LET served == IF run[r].kind = "full" THEN {run[r].at} ELSE {}
    IN  run' = [run EXCEPT ![r] = [kind |-> @.kind, stage |-> "turn", at |-> @.at + 1,
                                   tried |-> 0, logged |-> @.logged \union served]]

\* The scan of an account waits a little for its lock.
Retry(r) ==
    /\ MyTurn(r) /\ holder[run[r].at] # NoRequest
    /\ Waits(r) /\ run[r].tried < LockRetries
    /\ run' = [run EXCEPT ![r].tried = @ + 1]
    /\ UNCHANGED <<holder, tick, job, worker, up, faults>>

\* Mutant of ScanAlreadyRunning: only a scan gives up, a monitor waits its turn.
WaitItsTurn(r) ==
    /\ MyTurn(r) /\ holder[run[r].at] # NoRequest
    /\ Waits(r) /\ run[r].tried = LockRetries
    /\ NextTurn(r)
    /\ UNCHANGED <<holder, tick, job, worker, up, faults>>

\* The account is being served: it is passed over.
ScanAlreadyRunning(r) ==
    /\ MyTurn(r) /\ holder[run[r].at] # NoRequest
    /\ Waits(r) => run[r].tried = LockRetries
    /\ NextTurn(r)
    /\ UNCHANGED <<holder, tick, job, worker, up, faults>>

\* The pass ends, or raises: either way the lock is free, the account recorded,
\* and the next account is served.
EndPass(r) ==
    /\ run[r].stage = "pass"
    /\ holder' = [holder EXCEPT ![run[r].at] = NoRequest]
    /\ NextTurn(r)
    /\ UNCHANGED <<tick, job, worker, up, faults>>

EndRun(r) ==
    /\ run[r].stage = "turn" /\ run[r].at \notin Accounts
    /\ Answer(r)
    /\ UNCHANGED <<holder, up, faults>>

-----------------------------------------------------------------------------
(* Faults *)

Fault == faults < MaxFaults /\ faults' = faults + 1

\* A call of the pass never returns.
Hang(r) ==
    /\ run[r].stage = "pass"
    /\ Fault
    /\ run' = [run EXCEPT ![r].stage = "hung"]
    /\ UNCHANGED <<holder, tick, job, worker, up>>

\* The process of a request is killed: the system frees its locks, its caller
\* sees the connection fail.
Die(r) ==
    /\ run[r] # Idle
    /\ Fault
    /\ run' = [run EXCEPT ![r] = Idle]
    /\ holder' = [a \in Accounts |-> IF holder[a] = r THEN NoRequest ELSE holder[a]]
    /\ tick' = FreeTick(r)
    /\ job' = IF job.waits = r THEN Again ELSE job
    /\ worker' = AnswerWorker(r)
    /\ UNCHANGED up

\* A caller is deleted, misconfigured or out of credits.
CallerStops(c) ==
    /\ c \in up
    /\ Fault
    /\ up' = up \ {c}
    /\ UNCHANGED <<run, holder, tick, job, worker>>

-----------------------------------------------------------------------------
Init ==
    /\ run = [r \in Requests |-> Idle]
    /\ holder = [a \in Accounts |-> NoRequest]
    /\ tick = NoRequest
    /\ job = Rest
    /\ worker = NoRequest
    /\ up = Callers
    /\ faults = 0

Step(r) ==
    \/ TakeTick(r) \/ TickAlreadyRunning(r)
    \/ BeginPass(r) \/ Retry(r) \/ ScanAlreadyRunning(r) \/ EndPass(r)
    \/ EndRun(r)

Next ==
    \/ JobStarts \/ JobTimesOut \/ WorkerTimesOut
    \/ \E r \in Requests : JobPosts(r) \/ WorkerPosts(r) \/ Step(r) \/ Hang(r) \/ Die(r)
    \/ \E c \in Callers : CallerStops(c)

Spec == Init /\ [][Next]_vars

\* A request that does not hang makes progress, and so do the callers: each
\* starts again after a while, gives up after a while, and gets its request
\* through when the service has room for one.
Fairness ==
    /\ \A r \in Requests : WF_vars(Step(r))
    /\ WF_vars(JobStarts) /\ WF_vars(JobTimesOut) /\ WF_vars(WorkerTimesOut)
    /\ SF_vars(\E r \in Requests : JobPosts(r))
    /\ SF_vars(\E r \in Requests : WorkerPosts(r))

FairSpec == Spec /\ Fairness

-----------------------------------------------------------------------------
(* Properties *)

TypeOK ==
    /\ run \in [Requests -> [kind : Kinds \union {"none"},
                             stage : {"idle", "lock", "turn", "pass", "hung"},
                             at : 1 .. AccountCount + 1, tried : 0 .. LockRetries,
                             logged : SUBSET Accounts]]
    /\ holder \in [Accounts -> Requests \union {NoRequest}]
    /\ tick \in Requests \union {NoRequest}
    /\ job \in [step : {"rest", "full", "fast"}, waits : Requests \union {NoRequest},
                attempt : 1 .. Posts]
    /\ worker \in Requests \union {NoRequest}
    /\ up \subseteq Callers
    /\ faults \in 0 .. MaxFaults

\* A lock is held exactly while its holder is at work under it, so no account
\* is ever in two passes, no two ticks run, and no lock outlives its request.
LocksFollowPasses ==
    /\ \A r \in Requests, a \in Accounts :
          holder[a] = r <=> InPass(r) /\ run[r].at = a
    /\ \A r \in Requests :
          tick = r <=> run[r].kind = "continuous" /\ run[r].stage \in {"turn", "pass", "hung"}

\* A full scan that ends has left a record of every account, scanned or not.
EveryAccountIsRecorded ==
    [][\A r \in Requests :
          run[r].kind = "full" /\ run[r].stage = "turn" /\ run'[r] = Idle /\ faults' = faults
             => run[r].logged = Accounts]_vars

\* Every account is in a pass again and again, although one pass hangs, one
\* process is killed or one caller stops; the account whose own pass hangs
\* stays in that one.
StaysWatched ==
    \A a \in Accounts : []<>(\E r \in Requests : InPass(r) /\ run[r].at = a)

=============================================================================
