-------------------------- MODULE ManualResolution --------------------------
(***************************************************************************)
(* What happens to a submission nobody knows the outcome of. The records   *)
(* of one user are one file, rewritten as a whole by everyone who changes  *)
(* one record. Two kinds of process do so:                                 *)
(*                                                                         *)
(*   - the scan, under the per-user lock, hence one process: it rediscovers *)
(*     broker orders without a record, looks up the ambiguous submissions, *)
(*     takes up the resolutions that were cut short, monitors the ordinary *)
(*     records and, unless anything is in doubt, enters new orders;        *)
(*   - the calls of _resolve_ambiguous_submission, an administrator's      *)
(*     decision to release a record (there is no order) or to link it (the *)
(*     order exists), which hold no lock: each reads the list once and     *)
(*     writes that list back, however much has changed meanwhile.          *)
(*                                                                         *)
(* The audit log is append-only and locked. A resolution is started there  *)
(* before its record changes, and has an outcome (completed or failed)     *)
(* last. Every process may die between any two of its steps.               *)
(***************************************************************************)
EXTENDS OrderLifecycle, Integers, FiniteSets

CONSTANTS
    Orders,            \* the entries of the day, by client order id
    Calls,             \* the resolution calls, by resolution id
    OrphanBatchLimit,  \* ORPHAN_BATCH_ANOMALY_THRESHOLD
    MaxFaults,         \* bounds the crashes, failed writes and failed lookups
    NoRecord, NoOrder, NoCall

ASSUME BoundsAssumption == OrphanBatchLimit \in Nat /\ MaxFaults \in Nat
ASSUME NamesAssumption == NoOrder \notin Orders /\ NoCall \notin Calls

VARIABLES
    disk,    \* overnight_orders.json: the record of each order, or none
    audit,   \* the phases the log holds of each resolution
    order,   \* the order as the broker has it
    repeated, \* the ids sent again before the broker showed their order
    call,    \* the resolution calls, each with the list it read
    scan,    \* the scan, with the list the pass it is in has read
    faults   \* how many faults have happened

vars == <<disk, audit, order, repeated, call, scan, faults>>

---------------------------------------------------------------------------
(* The broker. An order that was accepted is not visible at once; a        *)
(* visible one rests, has bought shares, or is dead without having. One    *)
(* whose cancellation was accepted may still buy: too late.                *)

BrokerOrders == {"none", "inflight", "open", "dead", "filled", "cancelling", "late"}
Visible(o) == order[o] \notin {"none", "inflight"}

Appears(o) ==
    /\ order[o] = "inflight"
    /\ order' = [order EXCEPT ![o] = "open"]
    /\ UNCHANGED <<disk, audit, repeated, call, scan, faults>>

Settles(o) ==
    /\ order[o] \in {"open", "cancelling"}
    /\ \E end \in {"dead", IF order[o] = "open" THEN "filled" ELSE "late"} :
          order' = [order EXCEPT ![o] = end]
    /\ UNCHANGED <<disk, audit, repeated, call, scan, faults>>

---------------------------------------------------------------------------
(* Records and lists. An orphan is a record made from a broker order: its  *)
(* stop and target were never known.                                       *)

Records == [state : AllStates, orphan : BOOLEAN]
ASSUME RecordAssumption == NoRecord \notin Records
Lists == [Orders -> Records \union {NoRecord}]
EmptyList == [o \in Orders |-> NoRecord]

Has(list, o, states) == list[o] # NoRecord /\ list[o].state \in states
Ids(list, states) == {o \in Orders : Has(list, o, states)}

\* One record of the stored list, added or replaced: record_overnight_order
\* reads the list afresh and keys on the record.
Upsert(o, record) == disk' = [disk EXCEPT ![o] = record]

\* What a fill-and-protect pass may make of a record. A resting order leaves
\* it where it was, whatever state that is; without a stop price no order
\* protects the shares. The states in between are EntryProtection's.
FillAndProtect(o, record) ==
    CASE order[o] = "dead"   -> {[record EXCEPT !.state = Failed]}
      [] order[o] \in {"filled", "late"} ->
            {[record EXCEPT !.state = s] :
                s \in IF record.orphan THEN {Unprotected}
                      ELSE {Unprotected, Confirmed}}
      [] OTHER -> {record}

Fault == faults < MaxFaults /\ faults' = faults + 1

---------------------------------------------------------------------------
(* The audit log.                                                          *)

Outcomes == {"completed", "failed"}
Started(c) == "started" \in audit[c]
Incomplete == {c \in Calls : Started(c) /\ audit[c] \intersect Outcomes = {}}
Append(c, phase) == audit' = [audit EXCEPT ![c] = @ \union {phase}]

---------------------------------------------------------------------------
(* A resolution call. A refused one has written nothing and its id was     *)
(* never made, so it may be made again. Two assumptions on the             *)
(* administrator, who is not told to keep them: one call is under way at a *)
(* time, and none releases a record whose order is only not visible yet.   *)

IdleCall == [pc |-> "new", action |-> "none", order |-> NoOrder, list |-> EmptyList]
OneAtATime == \A c \in Calls : call[c].pc \in {"new", "done"}
MayRelease(o) == order[o] # "inflight"

Go(c, pc) == call' = [call EXCEPT ![c].pc = pc]
\* The call is over; which order it was for is in the audit log.
Return(c) == call' = [call EXCEPT ![c].pc = "done", ![c].list = EmptyList]

ReadList(c) ==
    /\ OneAtATime /\ call[c].pc = "new"
    /\ \E o \in Ids(disk, {Unknown}), action \in {"release", "link"} :
          call' = [call EXCEPT ![c] = [pc |-> "evidence", action |-> action,
                                       order |-> o, list |-> disk]]
    /\ UNCHANGED <<disk, audit, order, repeated, scan, faults>>

\* Mutant of Granted: the administrator's word is enough for a release.
GrantedOnTrust(c) ==
    IF call[c].action = "link" THEN Visible(call[c].order) ELSE MayRelease(call[c].order)

\* The four fresh checks. A release needs all of them clean, a link an order
\* found under the record's own id.
Granted(c) ==
    LET o == call[c].order
    IN IF call[c].action = "link" THEN Visible(o)
       ELSE ~Visible(o) /\ MayRelease(o)

GatherEvidence(c) ==
    /\ call[c].pc = "evidence" /\ Granted(c)
    /\ Go(c, "start")
    /\ UNCHANGED <<disk, audit, order, repeated, scan, faults>>

\* A check failed or the evidence says otherwise; or the started record
\* could not be written, which raises with the record untouched.
Refuse(c) ==
    /\ call[c].pc = "evidence" \/ (call[c].pc = "start" /\ faults < MaxFaults)
    /\ faults' = IF call[c].pc = "start" THEN faults + 1 ELSE faults
    /\ call' = [call EXCEPT ![c] = IdleCall]
    /\ UNCHANGED <<disk, audit, order, repeated, scan>>

WriteStarted(c) ==
    /\ call[c].pc = "start"
    /\ Append(c, "started")
    /\ Go(c, "change")
    /\ UNCHANGED <<disk, order, repeated, scan, faults>>

Decided(c) == IF call[c].action = "link" THEN Linking ELSE Released

\* transition() and the whole list, as it was read, written back.
ChangeRecord(c) ==
    /\ call[c].pc = "change"
    /\ LET list == [call[c].list EXCEPT ![call[c].order] = Move(@, Decided(c))]
       IN /\ disk' = list
          /\ call' = [call EXCEPT
                ![c].list = list,
                ![c].pc = IF call[c].action = "link" THEN "poll" ELSE "complete"]
    /\ UNCHANGED <<audit, order, repeated, scan, faults>>

PollLinked(c) ==
    /\ call[c].pc = "poll"
    /\ LET o == call[c].order
       IN \E record \in FillAndProtect(o, call[c].list[o]) :
             call' = [call EXCEPT ![c].list[o] = record, ![c].pc = "rewrite"]
    /\ UNCHANGED <<disk, audit, order, repeated, scan, faults>>

RewriteList(c) ==
    /\ call[c].pc = "rewrite"
    /\ disk' = call[c].list
    /\ Go(c, "complete")
    /\ UNCHANGED <<audit, order, repeated, scan, faults>>

\* A stage that raises ends in a failed record, written as best it can be.
StageFails(c) ==
    /\ call[c].pc \in {"change", "poll", "rewrite"}
    /\ Fault
    /\ Append(c, "failed") \/ UNCHANGED audit
    /\ Return(c)
    /\ UNCHANGED <<disk, order, repeated, scan>>

WriteCompleted(c) ==
    /\ call[c].pc = "complete"
    /\ Append(c, "completed")
    /\ Return(c)
    /\ UNCHANGED <<disk, order, repeated, scan, faults>>

\* The process dies, or the completed record cannot be written, which is
\* swallowed: the call is gone and the log keeps what it has.
CallEnds(c) ==
    /\ call[c].pc \notin {"new", "done"}
    /\ Fault
    /\ IF Started(c) THEN Return(c) ELSE call' = [call EXCEPT ![c] = IdleCall]
    /\ UNCHANGED <<disk, audit, order, repeated, scan>>

Resolve(c) ==
    \/ ReadList(c) \/ GatherEvidence(c) \/ Refuse(c) \/ WriteStarted(c)
    \/ ChangeRecord(c) \/ PollLinked(c) \/ RewriteList(c)
    \/ StageFails(c) \/ WriteCompleted(c) \/ CallEnds(c)

---------------------------------------------------------------------------
(* The scan. Each pass reads the list, works on its records one by one in  *)
(* memory while the broker and the calls go on, and writes the list back.  *)

ScanPcs == {"idle", "unknown", "look_up", "recover", "take_up", "close",
            "monitor", "check", "gate", "send", "record"}

IdleScan == [pc |-> "idle", list |-> EmptyList, todo |-> {}, at |-> NoOrder,
             closing |-> NoCall, reply |-> "none", doubt |-> FALSE]

\* A broker order of this user, under an id only this code makes, without a
\* record. Too many at once look like a lost file and are left alone.
\* Mutant of Orphans: only resting orders are looked for.
OrphansResting == {o \in Orders : disk[o] = NoRecord /\ order[o] = "open"}
Orphans == {o \in Orders : disk[o] = NoRecord /\ Visible(o)}

DiscoverOrphans ==
    /\ scan.pc = "idle"
    /\ disk' = IF Cardinality(Orphans) > OrphanBatchLimit THEN disk
               ELSE [o \in Orders |-> IF o \in Orphans
                                      THEN [state |-> Unknown, orphan |-> TRUE]
                                      ELSE disk[o]]
    /\ scan' = [IdleScan EXCEPT !.pc = "unknown"]
    /\ UNCHANGED <<audit, order, repeated, call, faults>>

\* The history could not be read.
HistoryFails ==
    /\ scan.pc = "idle"
    /\ Fault
    /\ scan' = [IdleScan EXCEPT !.pc = "unknown"]
    /\ UNCHANGED <<disk, audit, order, repeated, call>>

\* The next pass: it starts from nothing but whether the scan has found an
\* unresolved submission or an incomplete resolution.
NextPass(pc, doubt) ==
    scan' = [IdleScan EXCEPT !.pc = pc, !.doubt = scan.doubt \/ doubt]

ReadUnknown ==
    /\ scan.pc = "unknown"
    /\ IF Ids(disk, {Unknown}) = {}
       THEN NextPass("recover", FALSE)
       ELSE scan' = [scan EXCEPT !.pc = "look_up", !.list = disk,
                                 !.todo = Ids(disk, {Unknown})]
    /\ UNCHANGED <<disk, audit, order, repeated, call, faults>>

\* The records of a pass are taken in the order of the list.
Turn(o) == o \in scan.todo /\ o = (CHOOSE x \in scan.todo : TRUE)

Worked(o, record) ==
    scan' = [scan EXCEPT !.list[o] = record, !.todo = @ \ {o}]

\* The broker's answer to a cancellation it accepts says no more than that.
CancelAccepted(o) == order' = [order EXCEPT ![o] = IF @ = "open" THEN "cancelling" ELSE @]

\* The lookup is inconclusive, or the broker has no such order: not believed
\* before it was said often enough for long enough that an order on its way
\* would have appeared. Or the cancellation of an orphan is not answered,
\* accepted or not.
StillUnknown(o) ==
    /\ scan.pc = "look_up" /\ Turn(o)
    /\ \/ order[o] = "inflight" /\ UNCHANGED <<order, faults>>
       \/ Fault /\ UNCHANGED order
       \/ Fault /\ scan.list[o].orphan /\ CancelAccepted(o)
    /\ Worked(o, Move(scan.list[o], Unknown))
    /\ UNCHANGED <<disk, audit, repeated, call>>

ConfirmedAbsent(o) ==
    /\ scan.pc = "look_up" /\ Turn(o)
    /\ order[o] = "none"
    /\ Worked(o, Move(scan.list[o], Failed))
    /\ UNCHANGED <<disk, audit, order, repeated, call, faults>>

\* An order the broker has: the record is taken up where a submission that
\* returned would be.
ResumeFound(o) ==
    /\ scan.pc = "look_up" /\ Turn(o)
    /\ Visible(o) /\ ~scan.list[o].orphan
    /\ \E record \in FillAndProtect(o, Move(scan.list[o], Submitted)) :
          Worked(o, record)
    /\ UNCHANGED <<disk, audit, order, repeated, call, faults>>

\* An orphan has no risk plan: its shares are reported, never protected at an
\* invented price, and a cancellation of its resting order that the broker
\* accepts is the end of its record.
SettleOrphan(o) ==
    /\ scan.pc = "look_up" /\ Turn(o)
    /\ Visible(o) /\ scan.list[o].orphan
    /\ Worked(o, [scan.list[o] EXCEPT
                    !.state = IF order[o] \in {"filled", "late"} THEN Unprotected
                              ELSE Failed])
    /\ CancelAccepted(o)
    /\ UNCHANGED <<disk, audit, repeated, call, faults>>

WriteUnknown ==
    /\ scan.pc = "look_up" /\ scan.todo = {}
    /\ disk' = scan.list
    /\ NextPass("recover", Ids(scan.list, {Unknown}) # {})
    /\ UNCHANGED <<audit, order, repeated, call, faults>>

\* Recovery of the resolutions that have no outcome.
ReadIncomplete ==
    /\ scan.pc = "recover"
    /\ IF Incomplete = {}
       THEN NextPass("monitor", FALSE)
       ELSE scan' = [scan EXCEPT !.pc = "take_up", !.list = disk,
                                 !.todo = Incomplete]
    /\ UNCHANGED <<disk, audit, order, repeated, call, faults>>

Leave(c) == scan' = [scan EXCEPT !.todo = @ \ {c}]

\* Mutant of CloseUnchanged: only a record that is as a release left it.
CloseReleased(c) ==
    /\ scan.pc = "take_up" /\ c \in scan.todo
    /\ ~Has(scan.list, call[c].order, {Linking})
    /\ IF Has(scan.list, call[c].order, {Released})
       THEN Append(c, "completed") ELSE UNCHANGED audit
    /\ Leave(c)
    /\ UNCHANGED <<disk, order, repeated, call, faults>>

\* The state on disk decides: no change was written, so there is nothing to
\* take up and the resolution failed; or the change is there, and only the
\* closing record is missing.
CloseUnchanged(c) ==
    /\ scan.pc = "take_up" /\ c \in scan.todo
    /\ ~Has(scan.list, call[c].order, {Linking})
    /\ Append(c, IF Has(scan.list, call[c].order, AllStates \ {Unknown})
                 THEN "completed" ELSE "failed")
    /\ Leave(c)
    /\ UNCHANGED <<disk, order, repeated, call, faults>>

ResumeLink(c) ==
    /\ scan.pc = "take_up" /\ c \in scan.todo
    /\ LET o == call[c].order
       IN /\ Has(scan.list, o, {Linking})
          /\ \E record \in FillAndProtect(o, scan.list[o]) :
                LET list == [scan.list EXCEPT ![o] = record]
                IN /\ disk' = list
                   /\ scan' = [scan EXCEPT !.pc = "close", !.list = list,
                                           !.todo = @ \ {c}, !.closing = c]
    /\ UNCHANGED <<audit, order, repeated, call, faults>>

CloseLink ==
    /\ scan.pc = "close"
    /\ Append(scan.closing, "completed")
    /\ scan' = [scan EXCEPT !.pc = "take_up", !.closing = NoCall]
    /\ UNCHANGED <<disk, order, repeated, call, faults>>

\* One recovery raises: it stays incomplete, the others are still tried.
RecoveryFails ==
    /\ Fault
    /\ \/ \E c \in scan.todo : scan.pc = "take_up" /\ Leave(c)
       \/ /\ scan.pc = "close"
          /\ scan' = [scan EXCEPT !.pc = "take_up", !.closing = NoCall]
    /\ UNCHANGED <<disk, audit, order, repeated, call>>

RecoveryDone ==
    /\ scan.pc = "take_up" /\ scan.todo = {}
    /\ NextPass("monitor", Incomplete # {})
    /\ UNCHANGED <<disk, audit, order, repeated, call, faults>>

\* The monitor of the ordinary records; a check that raises changes nothing.
ReadMonitored ==
    /\ scan.pc = "monitor"
    /\ IF Ids(disk, FillMonitoringStates) = {}
       THEN NextPass("gate", FALSE)
       ELSE scan' = [scan EXCEPT !.pc = "check", !.list = disk,
                                 !.todo = Ids(disk, FillMonitoringStates)]
    /\ UNCHANGED <<disk, audit, order, repeated, call, faults>>

\* What is known about the shares of an orphan is settled: nothing to redo.
CheckRecord(o) ==
    /\ scan.pc = "check" /\ Turn(o)
    /\ \E record \in IF Has(scan.list, o, {Unprotected}) /\ scan.list[o].orphan
                     THEN {scan.list[o]} ELSE FillAndProtect(o, scan.list[o]) :
          Worked(o, record)
    /\ UNCHANGED <<disk, audit, order, repeated, call, faults>>

WriteMonitored ==
    /\ scan.pc = "check" /\ scan.todo = {}
    /\ disk' = scan.list
    /\ NextPass("gate", FALSE)
    /\ UNCHANGED <<audit, order, repeated, call, faults>>

\* Nothing is entered while a submission or a resolution is in doubt. A fast
\* pass ends here, and so does a scan any other check stops.
EndScan ==
    /\ scan.pc = "gate"
    /\ scan' = IdleScan
    /\ UNCHANGED <<disk, audit, order, repeated, call, faults>>

\* The record is on disk before its order is sent.
PersistEntry(o) ==
    /\ scan.pc = "gate" /\ ~scan.doubt /\ disk[o] = NoRecord
    /\ Upsert(o, [state |-> Submitted, orphan |-> FALSE])
    /\ scan' = [scan EXCEPT !.pc = "send", !.at = o]
    /\ UNCHANGED <<audit, order, repeated, call, faults>>

\* The broker accepts the order, or answers with the one that already has
\* this id; refuses it; or is not heard, whatever it did. An order under this
\* id that it does not show yet is refused as a repetition and not found when
\* it is then looked up, which is taken for a refusal.
Accepts(o) ==
    IF order[o] = "none" THEN \E s \in {"inflight", "open"} :
                                 order' = [order EXCEPT ![o] = s]
    ELSE UNCHANGED order

SendEntry ==
    /\ scan.pc = "send"
    /\ \E reply \in {"accepted", "rejected", "ambiguous"} :
          /\ scan' = [scan EXCEPT !.pc = "record", !.reply = reply]
          /\ repeated' = IF reply = "rejected" /\ order[scan.at] = "inflight"
                         THEN repeated \union {scan.at} ELSE repeated
          /\ \/ reply = "accepted" /\ order[scan.at] # "inflight" /\ Accepts(scan.at)
             \/ reply = "rejected" /\ ~Visible(scan.at) /\ UNCHANGED order
             \/ reply = "ambiguous" /\ (Accepts(scan.at) \/ UNCHANGED order)
    /\ UNCHANGED <<disk, audit, call, faults>>

\* Mutant of RecordEntry: the scan goes on after an ambiguous answer.
RecordEntryAndGoOn ==
    /\ scan.pc = "record"
    /\ LET entered == [state |-> Submitted, orphan |-> FALSE]
       IN CASE scan.reply = "accepted"  ->
                  \E record \in FillAndProtect(scan.at, entered) : Upsert(scan.at, record)
            [] scan.reply = "rejected"  -> Upsert(scan.at, Move(entered, Failed))
            [] scan.reply = "ambiguous" -> Upsert(scan.at, Move(entered, Unknown))
    /\ scan' = [IdleScan EXCEPT !.pc = "gate"]
    /\ UNCHANGED <<audit, order, repeated, call, faults>>

\* An ambiguous answer ends the scan's entries.
RecordEntry ==
    /\ scan.pc = "record"
    /\ LET entered == [state |-> Submitted, orphan |-> FALSE]
       IN CASE scan.reply = "accepted"  ->
                  \E record \in FillAndProtect(scan.at, entered) : Upsert(scan.at, record)
            [] scan.reply = "rejected"  -> Upsert(scan.at, Move(entered, Failed))
            [] scan.reply = "ambiguous" -> Upsert(scan.at, Move(entered, Unknown))
    /\ scan' = IF scan.reply = "ambiguous" THEN IdleScan
               ELSE [IdleScan EXCEPT !.pc = "gate"]
    /\ UNCHANGED <<audit, order, repeated, call, faults>>

ScanDies ==
    /\ scan.pc # "idle"
    /\ Fault
    /\ scan' = IdleScan
    /\ UNCHANGED <<disk, audit, order, repeated, call>>

ScanStep ==
    \/ DiscoverOrphans \/ HistoryFails
    \/ ReadUnknown \/ WriteUnknown
    \/ \E o \in Orders : \/ StillUnknown(o) \/ ConfirmedAbsent(o)
                         \/ ResumeFound(o) \/ SettleOrphan(o)
                         \/ CheckRecord(o) \/ PersistEntry(o)
    \/ ReadIncomplete \/ CloseLink \/ RecoveryFails \/ RecoveryDone
    \/ \E c \in Calls : CloseUnchanged(c) \/ ResumeLink(c)
    \/ ReadMonitored \/ WriteMonitored
    \/ EndScan \/ SendEntry \/ RecordEntry

---------------------------------------------------------------------------
Init ==
    /\ disk = EmptyList
    /\ audit = [c \in Calls |-> {}]
    /\ order = [o \in Orders |-> "none"]
    /\ repeated = {}
    /\ call = [c \in Calls |-> IdleCall]
    /\ scan = IdleScan
    /\ faults = 0

Next ==
    \/ \E o \in Orders : Appears(o) \/ Settles(o)
    \/ \E c \in Calls : Resolve(c)
    \/ ScanStep \/ ScanDies

\* The schedulers run the passes again and again, and the broker shows an
\* order it accepted. Nobody makes an administrator's call go on.
Fairness ==
    /\ WF_vars(ScanStep)
    /\ \A o \in Orders : WF_vars(Appears(o))

Spec == Init /\ [][Next]_vars /\ Fairness

---------------------------------------------------------------------------
(* Correctness.                                                            *)

TypeOK ==
    /\ disk \in Lists
    /\ audit \in [Calls -> SUBSET ({"started"} \union Outcomes)]
    /\ order \in [Orders -> BrokerOrders]
    /\ repeated \in SUBSET Orders
    /\ call \in [Calls -> [pc : {"new", "evidence", "start", "change", "poll",
                                 "rewrite", "complete", "done"},
                           action : {"none", "release", "link"},
                           order : Orders \union {NoOrder}, list : Lists]]
    /\ scan \in [pc : ScanPcs, list : Lists, todo : SUBSET (Orders \union Calls),
                 at : Orders \union {NoOrder}, closing : Calls \union {NoCall},
                 reply : {"none", "accepted", "rejected", "ambiguous"},
                 doubt : BOOLEAN]
    /\ faults \in 0..MaxFaults

\* A record that was given up has no order that is or may become a position,
\* however late and from however old a list it is written: without exception
\* when an administrator released it. When the code gave it up by itself there
\* are two: the record of an orphan ends with the cancellation the broker
\* accepted, which may come too late for its order; and an id that was sent
\* again before the broker showed its order is taken to be refused. A record
\* that was linked has an order.
EvidenceHolds ==
    \A o \in Orders :
        /\ Has(disk, o, {Failed}) =>
              IF disk[o].orphan THEN order[o] \in {"dead", "cancelling", "late"}
              ELSE order[o] \in {"none", "dead"} \/ o \in repeated
        /\ Has(disk, o, {Released}) => order[o] \in {"none", "dead"}
        /\ Has(disk, o, {Linking}) => Visible(o)

\* No record shows a human decision the log has not heard of: the started
\* phase is there before the change, and survives every crash after it.
AuditPrecedesChange ==
    \A o \in Orders : Has(disk, o, {Released, Linking}) =>
        \E c \in Calls : call[c].order = o /\ Started(c)

\* As long as no administrator has stepped in, no order is sent while any
\* submission of the account is of unknown outcome: not by the scan it became
\* so in, not by a later one, not after a crash, and not while an order that
\* lost its record is being found.
NoEntryInDoubt ==
    (scan.pc = "send" /\ \A c \in Calls : audit[c] = {}) => Ids(disk, {Unknown}) = {}

\* A resolution that was started is closed, by the call or by a later scan,
\* however the call ended: it cannot block new entries for good.
ResolutionCloses ==
    \A c \in Calls : (c \in Incomplete) ~> (c \notin Incomplete)

\* An order the broker holds and no record knows, because a crash or another
\* writer's old list lost it, is found again.
LostOrderIsFound ==
    \A o \in Orders : (Visible(o) /\ disk[o] = NoRecord) ~> (disk[o] # NoRecord)

============================================================================
