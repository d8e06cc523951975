----------------------------- MODULE Heartbeats -----------------------------
(***************************************************************************)
(* The heartbeat file of a monitor and the health that is read off it.     *)
(* The full scan, the fast monitor and the continuous monitor each keep a  *)
(* file of their own; the files never meet, so a behaviour follows one of  *)
(* them: its runs, which may overlap, the stamps they leave, the check a   *)
(* sibling endpoint makes on each of its calls, and the alert to the       *)
(* administrators.                                                         *)
(*                                                                         *)
(* Ages count steps of TimePasses and stop at MaxGap. An age is Never when *)
(* there is no such stamp. Reading a file and writing it back are steps of *)
(* their own, since nothing locks it, but take no time.                    *)
(***************************************************************************)
EXTENDS Naturals

CONSTANTS
    Runs,         \* the requests that may be under way at a time
    NoRun,        \* no request
    WorkerStale,  \* CONTINUOUS_MONITOR_HEARTBEAT_STALE_SECONDS
    StaleAfter,   \* FAST_MONITOR_ and FULL_SCAN_HEARTBEAT_STALE_SECONDS
    MaxGap,       \* FAST_MONITOR_ and FULL_SCAN_HEARTBEAT_MAX_GAP_SECONDS
    MaxFaults     \* requests that hang or die

BeatConstants ==
    /\ WorkerStale \in Nat \ {0} /\ StaleAfter \in Nat \ {0} /\ MaxGap \in Nat
    /\ WorkerStale <= StaleAfter /\ StaleAfter <= MaxGap
    /\ MaxFaults \in Nat
    /\ NoRun \notin Runs

VARIABLES
    kind,     \* whose file it is
    file,     \* the heartbeat file
    run,      \* the requests
    calling,  \* the timer or the worker still calls
    watched,  \* the sibling endpoint, which checks on it, is still called
    open,     \* the hours in which the timers are scheduled
    alert,    \* the alert of this kind: none, filed or dismissed
    begun,    \* how long ago a request last stamped its start
    done,     \* how long ago a request last finished its work
    faults    \* the faults so far

vars == <<kind, file, run, calling, watched, open, alert, begun, done, faults>>

Kinds == {"full", "fast", "continuous"}
Never == MaxGap + 1
Ages == 0 .. Never

Older(age) == IF age < MaxGap THEN age + 1 ELSE age

\* The file names the latest run that started, how long ago that was, how
\* long ago a run completed, and whether that was the latest one.
File == [started : Runs \union {NoRun}, startedAge : Ages, completedAge : Ages,
         matched : BOOLEAN]

NoFile == [started |-> NoRun, startedAge |-> Never, completedAge |-> Never,
           matched |-> FALSE]

\* A request: what it does, and the file as it read it.
Idle == [pc |-> "idle", copy |-> NoFile]
Stages == {"idle", "stamp", "enter", "work", "record", "hung"}

-----------------------------------------------------------------------------
(* Health *)

\* An absent or unusable stamp is taken for the present moment.
Trusted(age) == IF age = Never THEN 0 ELSE age

\* Outside the scheduled hours a timer is expected to be silent.
EffectiveThreshold == IF open THEN StaleAfter ELSE MaxGap

\* Mutants of TimerHealthy: the completion alone is looked at, whichever run it
\* was of; a latest run that did not complete is let pass.
TimerHealthyOnce ==
    /\ file.started # NoRun
    /\ Trusted(file.completedAge) < EffectiveThreshold

TimerHealthyBegun ==
    /\ file.started # NoRun
    /\ file.matched => Trusted(file.completedAge) < EffectiveThreshold

\* A latest run that completed is judged by its completion, any other by its
\* start and by the tight threshold.
TimerHealthy ==
    /\ file.started # NoRun
    /\ IF file.matched THEN Trusted(file.completedAge) < EffectiveThreshold
                       ELSE Trusted(file.startedAge) < StaleAfter

\* The worker must have called, and a tick completed, not long ago.
WorkerHealthy ==
    /\ file.startedAge # Never
    /\ file.startedAge < WorkerStale
    /\ Trusted(file.completedAge) < WorkerStale

Healthy == IF kind = "continuous" THEN WorkerHealthy ELSE TimerHealthy

-----------------------------------------------------------------------------
(* The runs of the monitor *)

Enter(r, stage, copy) == run' = [run EXCEPT ![r] = [pc |-> stage, copy |-> copy]]
Finish(r) == run' = [run EXCEPT ![r] = Idle]

\* The endpoint is called and reads the file.
ReadStart(r) ==
    /\ calling /\ run[r].pc = "idle"
    /\ Enter(r, "stamp", file)
    /\ UNCHANGED <<kind, file, calling, watched, open, alert, begun, done, faults>>

\* The run is the latest; what is on file of completed runs stays.
RecordStarted(r) ==
    /\ run[r].pc = "stamp"
    /\ file' = [run[r].copy EXCEPT !.started = r, !.startedAge = 0, !.matched = FALSE]
    /\ begun' = 0
    /\ Enter(r, IF kind = "continuous" THEN "enter" ELSE "work", NoFile)
    /\ UNCHANGED <<kind, calling, watched, open, alert, done, faults>>

TickLocked == \E r \in Runs : run[r].pc \in {"work", "record", "hung"}

\* One tick of the continuous monitor runs at a time.
EnterTick(r) ==
    /\ run[r].pc = "enter" /\ ~TickLocked
    /\ Enter(r, "work", NoFile)
    /\ UNCHANGED <<kind, file, calling, watched, open, alert, begun, done, faults>>

TickAlreadyRunning(r) ==
    /\ run[r].pc = "enter" /\ TickLocked
    /\ Finish(r)
    /\ UNCHANGED <<kind, file, calling, watched, open, alert, begun, done, faults>>

\* The last user is served: the run reads the file, and leaves it alone when
\* it is no longer the latest.
ReadCompletion(r) ==
    /\ run[r].pc = "work"
    /\ done' = 0
    /\ IF file.started = r THEN Enter(r, "record", file) ELSE Finish(r)
    /\ UNCHANGED <<kind, file, calling, watched, open, alert, begun, faults>>

RecordCompleted(r) ==
    /\ run[r].pc = "record"
    /\ file' = [run[r].copy EXCEPT !.completedAge = 0, !.matched = TRUE]
    /\ Finish(r)
    /\ UNCHANGED <<kind, calling, watched, open, alert, begun, done, faults>>

\* A call of the run never returns.
Hang(r) ==
    /\ run[r].pc = "work"
    /\ faults < MaxFaults /\ faults' = faults + 1
    /\ Enter(r, "hung", NoFile)
    /\ UNCHANGED <<kind, file, calling, watched, open, alert, begun, done>>

\* The process of the run is killed.
Die(r) ==
    /\ run[r].pc # "idle"
    /\ faults < MaxFaults /\ faults' = faults + 1
    /\ Finish(r)
    /\ UNCHANGED <<kind, file, calling, watched, open, alert, begun, done>>

-----------------------------------------------------------------------------
(* Those who watch it, and time *)

\* Each call of the full scan looks after the fast and the continuous monitor,
\* each call of the fast monitor after the full scan. The alert has a fixed
\* text and so a fixed id: it is filed, and sent, once.
CheckHealth ==
    /\ watched
    /\ alert' = IF ~Healthy /\ alert = "none" THEN "filed" ELSE alert
    /\ UNCHANGED <<kind, file, run, calling, watched, open, begun, done, faults>>

DismissAlert ==
    /\ alert = "filed" /\ alert' = "dismissed"
    /\ UNCHANGED <<kind, file, run, calling, watched, open, begun, done, faults>>

\* The timer or the worker is deleted, misconfigured or out of credits. One
\* timer job calls both timed endpoints, so the sibling may fall silent too.
CallerStops ==
    /\ calling /\ calling' = FALSE
    /\ watched' \in {watched, FALSE}
    /\ UNCHANGED <<kind, file, run, open, alert, begun, done, faults>>

HoursChange ==
    /\ open' = ~open
    /\ UNCHANGED <<kind, file, run, calling, watched, alert, begun, done, faults>>

TimePasses ==
    /\ \A r \in Runs : run[r].pc \notin {"stamp", "record"}
    /\ file' = [file EXCEPT !.startedAge = Older(@), !.completedAge = Older(@)]
    /\ begun' = Older(begun) /\ done' = Older(done)
    /\ UNCHANGED <<kind, run, calling, watched, open, alert, faults>>

-----------------------------------------------------------------------------
Init ==
    /\ kind \in Kinds
    /\ file = NoFile
    /\ run = [r \in Runs |-> Idle]
    /\ calling = TRUE /\ watched = TRUE /\ open \in BOOLEAN /\ alert = "none"
    /\ begun = Never /\ done = Never
    /\ faults = 0

FileStep(r) == RecordStarted(r) \/ RecordCompleted(r)

Next ==
    \/ \E r \in Runs :
          \/ ReadStart(r) \/ FileStep(r)
          \/ EnterTick(r) \/ TickAlreadyRunning(r) \/ ReadCompletion(r)
          \/ Hang(r) \/ Die(r)
    \/ CheckHealth \/ DismissAlert \/ CallerStops \/ HoursChange \/ TimePasses

Spec == Init /\ [][Next]_vars

\* Time goes on, a write of a file ends, and a sibling endpoint that is called
\* at all is called again and again. Nothing is assumed of the monitor that is watched.
Fairness ==
    /\ WF_vars(TimePasses) /\ WF_vars(CheckHealth)
    /\ \A r \in Runs : WF_vars(FileStep(r))

FairSpec == Spec /\ Fairness

-----------------------------------------------------------------------------
(* Properties *)

TypeOK ==
    /\ kind \in Kinds /\ file \in File
    /\ run \in [Runs -> [pc : Stages, copy : File]]
    /\ calling \in BOOLEAN /\ watched \in BOOLEAN /\ open \in BOOLEAN
    /\ alert \in {"none", "filed", "dismissed"}
    /\ begun \in Ages /\ done \in Ages
    /\ faults \in 0 .. MaxFaults

\* A monitor that is said to be healthy really did something not long ago,
\* whatever runs overlapped and whichever wrote the file last.
Recently(age, limit) == age # Never /\ age < limit

HealthIsEarned ==
    Healthy =>
        IF kind = "continuous"
        THEN Recently(begun, WorkerStale)
        ELSE \/ Recently(done, EffectiveThreshold)
             \/ Recently(begun, StaleAfter)

\* A caller that stops for good is noticed, unless its sibling stops with it.
SilenceIsNoticed == ~calling ~> alert # "none" \/ ~watched

=============================================================================
