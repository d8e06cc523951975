----------------------------- MODULE MCMonitors -----------------------------
(***************************************************************************)
(* The monitors, checked in one run: a behaviour is of the file of one of  *)
(* them (Heartbeats) or of the requests and their callers (MonitorTurns).  *)
(* Neither reads what the other writes.                                    *)
(***************************************************************************)
CONSTANTS
    Runs, NoRun, WorkerStale, StaleAfter, MaxGap, BeatFaults,
    AccountCount, Scanned, TurnRequests, NoTurn, LockRetries, Posts, TurnFaults

VARIABLES
    monitor, \* which of them this behaviour is of
    h_kind, h_file, h_run, h_calling, h_watched, h_open, h_alert, h_begun,
    h_done, h_faults, t_run, t_holder, t_tick, t_job, t_worker, t_up, t_faults

Beats == INSTANCE Heartbeats WITH
    MaxFaults <- BeatFaults, kind <- h_kind, file <- h_file, run <- h_run,
    calling <- h_calling, watched <- h_watched, open <- h_open,
    alert <- h_alert, begun <- h_begun, done <- h_done, faults <- h_faults

Turns == INSTANCE MonitorTurns WITH
    Requests <- TurnRequests, NoRequest <- NoTurn, MaxFaults <- TurnFaults,
    run <- t_run, holder <- t_holder, tick <- t_tick, job <- t_job,
    worker <- t_worker, up <- t_up, faults <- t_faults

ASSUME MonitorsAssumption == Beats!BeatConstants /\ Turns!TurnConstants

beatVars == <<h_kind, h_file, h_run, h_calling, h_watched, h_open, h_alert,
              h_begun, h_done, h_faults>>
turnVars == <<t_run, t_holder, t_tick, t_job, t_worker, t_up, t_faults>>
monitorVars == <<monitor, beatVars, turnVars>>

\* Whose file it is, and at what hour, matters to the files alone.
OtherFile == h_kind = "full" /\ h_open

MonitorsInit ==
    /\ monitor \in {"files", "turns"}
    /\ Beats!Init /\ (monitor # "files" => OtherFile)
    /\ Turns!Init

InFiles(A) == monitor = "files" /\ A /\ UNCHANGED <<monitor, turnVars>>
InTurns(A) == monitor = "turns" /\ A /\ UNCHANGED <<monitor, beatVars>>

FilesNext ==
    \/ InFiles(Beats!CheckHealth) \/ InFiles(Beats!DismissAlert)
    \/ InFiles(Beats!CallerStops) \/ InFiles(Beats!HoursChange)
    \/ InFiles(Beats!TimePasses)
    \/ \E r \in Runs :
          \/ InFiles(Beats!ReadStart(r)) \/ InFiles(Beats!RecordStarted(r))
          \/ InFiles(Beats!EnterTick(r)) \/ InFiles(Beats!TickAlreadyRunning(r))
          \/ InFiles(Beats!ReadCompletion(r)) \/ InFiles(Beats!RecordCompleted(r))
          \/ InFiles(Beats!Hang(r)) \/ InFiles(Beats!Die(r))

TurnsNext ==
    \/ InTurns(Turns!JobStarts) \/ InTurns(Turns!JobTimesOut)
    \/ InTurns(Turns!WorkerTimesOut)
    \/ \E r \in TurnRequests :
          \/ InTurns(Turns!JobPosts(r)) \/ InTurns(Turns!WorkerPosts(r))
          \/ InTurns(Turns!TakeTick(r)) \/ InTurns(Turns!TickAlreadyRunning(r))
          \/ InTurns(Turns!BeginPass(r)) \/ InTurns(Turns!Retry(r))
          \/ InTurns(Turns!ScanAlreadyRunning(r)) \/ InTurns(Turns!EndPass(r))
          \/ InTurns(Turns!EndRun(r))
          \/ InTurns(Turns!Hang(r)) \/ InTurns(Turns!Die(r))
    \/ \E c \in Turns!Callers : InTurns(Turns!CallerStops(c))

MonitorsNext == FilesNext \/ TurnsNext

MonitorsSpec == MonitorsInit /\ [][MonitorsNext]_monitorVars

-----------------------------------------------------------------------------
(* The properties of the parts, each under the fairness of its part.       *)

HealthIsEarned == Beats!HealthIsEarned
SilenceIsNoticed == monitor = "files" /\ Beats!Fairness => Beats!SilenceIsNoticed
StaysWatched == monitor = "turns" /\ Turns!Fairness => Turns!StaysWatched
=============================================================================
