-------------------------- MODULE EntryProtection --------------------------
(***************************************************************************)
(* One long equity entry of one account, from its write-ahead record to    *)
(* its close: submission, the fill-and-protect pass, the exit pass, the    *)
(* rearming of a dead stop, the resolution of an unknown submission, and   *)
(* the broker and the crashes they race with (src/backend/app.py).         *)
(*                                                                         *)
(* The process holds the user's scan lock for a whole pass, so a pass is a *)
(* sequence of steps, one per broker call; the broker moves between them.  *)
(* A pass works on mem, a copy of the record it read from disk, and its    *)
(* last step writes the copy back.                                         *)
(***************************************************************************)
EXTENDS Naturals, FiniteSets, OrderLifecycle

CONSTANTS
    Quantity,          \* shares the entry order asks for
    HasTarget,         \* the plan has a take-profit price
    PartialEntry,      \* the entry order may fill in several parts
    PartialExits,      \* an exit order may fill in several parts
    RefusesSecondExit, \* the broker rejects an exit order while one rests
    BlankReads,        \* a lookup may answer with an empty order list
    PollAttempts,      \* ENTRY_FILL_POLL_ATTEMPTS
    MinRejections,     \* MIN_DEFINITE_REJECTION_CONFIRMATIONS
    ConfirmPasses,     \* passes that make POSITION_ABSENT_CONFIRM_SECONDS
    MaxAttempts,       \* bound: client order ids tried per leg
    MaxFaults,         \* bound: broker calls whose request or answer is lost
    MaxCrashes,        \* bound: restarts of the process
    MaxCloses,         \* bound: ends of the CORE session
    MaxOutside         \* bound: actions on the account outside this program

ASSUME CountsAssumption ==
    /\ {Quantity, PollAttempts, MinRejections, ConfirmPasses, MaxAttempts}
         \subseteq Nat \ {0}
    /\ {MaxFaults, MaxCrashes, MaxCloses, MaxOutside} \subseteq Nat
ASSUME FlagsAssumption ==
    {HasTarget, PartialEntry, PartialExits, RefusesSecondExit, BlankReads}
      \subseteq BOOLEAN

VARIABLES
    pc,        \* the broker call, or the write, the process does next
    ctx,       \* "submit": the bounded poll loop; "monitor": a single pass
    tries,     \* passes of the poll loop already made
    seen,      \* positions snapshot of the pass: {} unread, {n} read
    raised,    \* the stop resize of this pass did not complete
    mem,       \* the record the pass works on
    disk,      \* the record in overnight_orders.json
    traded,    \* the trade is in the closed-trades journal
    order,     \* broker: the entry order
    exits,     \* broker: the exit orders, by client order id
    position,  \* broker: shares held
    core,      \* the CORE trading session is open
    budget     \* what is left of the bounds on the environment

process == <<pc, ctx, tries, seen, raised, mem>>
durable == <<disk, traded>>
broker == <<order, exits, position, core>>
vars == <<process, durable, broker, budget>>

Shares == 0..Quantity
Legs == {"stop", "stop_rearm", "target_exit"}
ExitIds == Legs \X (1..MaxAttempts)
NoId == <<"none", 0>>

Records == [state: AllStates \union {"none", Illegal}, filled: Shares,
            terminal: BOOLEAN, stopId: ExitIds \union {NoId}, stopQty: Shares,
            attempt: 0..MaxAttempts, rearm: 0..(MaxAttempts + 1),
            sell: 0..(MaxAttempts + 1), gap: BOOLEAN, absent: 0..ConfirmPasses,
            failing: BOOLEAN, rejections: 0..MinRejections]

\* A record before initialize(); stopQty 0 stands for the absent field.
NoRecord == [state |-> "none", filled |-> 0, terminal |-> FALSE,
             stopId |-> NoId, stopQty |-> 0, attempt |-> 0, rearm |-> 0,
             sell |-> 0, gap |-> FALSE, absent |-> 0, failing |-> FALSE,
             rejections |-> 0]

EntryOrders == [status: OrderStatuses, filled: Shares]
ExitOrders == [status: OrderStatuses, qty: Shares, filled: Shares,
               cancelling: BOOLEAN]
NoExit == [status |-> "none", qty |-> 0, filled |-> 0, cancelling |-> FALSE]

Budgets == [faults: 0..MaxFaults, crashes: 0..MaxCrashes,
            closes: 0..MaxCloses, outside: 0..MaxOutside]

Steps == {"idle", "place", "poll", "resize", "cancel", "recheck", "replace",
          "replace_again", "confirm", "stuck", "target", "target_cancel",
          "target_recheck", "sell", "restore", "sell_poll", "exit", "absent",
          "absent_stop", "rearm", "rearm_held", "rearm_place", "save"}

\* Every variable stays in its type.
TypeOK ==
    /\ pc \in Steps
    /\ ctx \in {"submit", "monitor"}
    /\ tries \in 0..PollAttempts
    /\ seen \in SUBSET Shares
    /\ raised \in BOOLEAN
    /\ mem \in Records /\ disk \in Records
    /\ traded \in BOOLEAN
    /\ order \in EntryOrders
    /\ exits \in [ExitIds -> ExitOrders]
    /\ position \in Shares
    /\ core \in BOOLEAN
    /\ budget \in Budgets

Init ==
    /\ pc = "idle" /\ ctx = "submit" /\ tries = 0 /\ seen = {}
    /\ raised = FALSE /\ mem = NoRecord
    /\ disk = NoRecord /\ traded = FALSE
    /\ order = [status |-> "none", filled |-> 0]
    /\ exits = [id \in ExitIds |-> NoExit]
    /\ position = 0
    /\ core = TRUE
    /\ budget = [faults |-> MaxFaults, crashes |-> MaxCrashes,
                 closes |-> MaxCloses, outside |-> MaxOutside]

---------------------------------------------------------------------------
(* The broker interface: what a call may do and answer.                    *)

Spend(what) ==
    /\ budget[what] > 0
    /\ budget' = [budget EXCEPT ![what] = @ - 1]

\* summarize_fill of an answer, of an empty one, and a lookup that raises.
NoAnswer == [status |-> "raised", filled |-> 0]
Blank == [status |-> "UNKNOWN", filled |-> 0]
AnswerOf(o) == IF o.status \in AbsentStatuses THEN NoAnswer
               ELSE [status |-> o.status, filled |-> o.filled]

\* Every answer a lookup of o may get.
Answers(o) == {AnswerOf(o), NoAnswer} \union (IF BlankReads THEN {Blank} ELSE {})

\* get_order_detail of o gets the answer: the true one, or a lost one.
Lookup(o, answer) ==
    IF answer = AnswerOf(o) THEN UNCHANGED budget ELSE Spend("faults")

ActiveExits == {id \in ExitIds : ProtectiveLegIsActive(exits[id].status)}

Accepts(id, qty) ==
    /\ id \in ExitIds /\ exits[id] = NoExit
    /\ id[1] = "target_exit" \/ core
    /\ qty \in 1..position
    /\ RefusesSecondExit => ActiveExits = {}

Resting(id, qty) ==
    exits' = [exits EXCEPT ![id] = [NoExit EXCEPT !.status = "SUBMITTED",
                                                  !.qty = qty]]

\* place_stop_loss_order / place_stock_order of an exit, ok or raising. An
\* id the broker knows is answered with the order it already has.
Placed(id, qty, ok) ==
    \/ /\ Accepts(id, qty) /\ ok
       /\ Resting(id, qty) /\ UNCHANGED budget
    \/ /\ ~Accepts(id, qty)
       /\ ok = (id \in ExitIds /\ exits[id] # NoExit)
       /\ UNCHANGED <<exits, budget>>
    \/ /\ ~ok /\ Spend("faults")
       /\ \/ UNCHANGED exits
          \/ Accepts(id, qty) /\ Resting(id, qty)

\* cancel_order: an accepted cancellation takes effect in CancelLands.
Cancelled(id, ok) ==
    LET Ask == exits' = [exits EXCEPT ![id].cancelling = TRUE] IN
    \/ /\ ok /\ id \in ActiveExits
       /\ Ask /\ UNCHANGED budget
    \/ /\ ~ok /\ id \notin ActiveExits
       /\ UNCHANGED <<exits, budget>>
    \/ /\ ~ok /\ Spend("faults")
       /\ \/ UNCHANGED exits
          \/ id \in ActiveExits /\ Ask

\* _positions_for_pass: the snapshot of this pass, read at its first use. A
\* positions list that lags a fill answers zero; {} is a call that raised.
Positions(live) ==
    \/ /\ seen # {} /\ live = seen
       /\ UNCHANGED <<seen, budget>>
    \/ /\ seen = {} /\ live = {position}
       /\ seen' = live /\ UNCHANGED budget
    \/ /\ seen = {} /\ live \in {{}, {0}}
       /\ seen' = live /\ Spend("faults")

Readings == {seen, {position}, {}, {0}}

---------------------------------------------------------------------------
(* The control flow of a pass.                                             *)

Goto(step, record) ==
    /\ pc' = step /\ mem' = record
    /\ UNCHANGED <<ctx, tries, raised>>

\* The poll loop retries after an exception or while nothing is settled; a
\* monitor pass stamps its outcome on the record. Both end in a write.
PollsAgain(record, failed) ==
    /\ ctx = "submit"
    /\ tries + 1 < PollAttempts
    /\ \/ failed
       \/ record.state \notin TerminalStates \union {Confirmed, Unprotected}

EndPass(record, failed) ==
    /\ ctx' = ctx
    /\ raised' = FALSE
    /\ IF PollsAgain(record, failed)
       THEN pc' = "poll" /\ tries' = tries + 1 /\ mem' = record
       ELSE /\ pc' = "save" /\ tries' = 0
            /\ mem' = IF ctx = "monitor"
                      THEN [record EXCEPT !.failing = failed] ELSE record

\* The write that ends a pass: record_overnight_order after a submission,
\* replace_overnight_orders after a monitor or reconciliation pass.
Save ==
    /\ pc = "save"
    /\ disk' = mem
    /\ pc' = "idle" /\ mem' = NoRecord /\ seen' = {}
    /\ UNCHANGED <<ctx, tries, raised, traded, broker, budget>>

Crash ==
    /\ pc # "idle"
    /\ Spend("crashes")
    /\ pc' = "idle" /\ mem' = NoRecord /\ seen' = {}
    /\ tries' = 0 /\ raised' = FALSE
    /\ UNCHANGED <<ctx, durable, broker>>

---------------------------------------------------------------------------
(* Submission.                                                             *)

\* initialize() and the write-ahead record; a write that fails refuses the
\* submission.
Submit ==
    /\ pc = "idle" /\ disk = NoRecord /\ core
    /\ \/ /\ disk' = [NoRecord EXCEPT !.state = Submitted]
          /\ mem' = disk' /\ pc' = "place"
       \/ /\ disk' = disk
          /\ mem' = Move([NoRecord EXCEPT !.state = Submitted], Failed)
          /\ pc' = "save"
    /\ ctx' = "submit"
    /\ UNCHANGED <<tries, seen, raised, traded, broker, budget>>

\* place_stock_order accepts; is refused by this program's own gates
\* (DefiniteOrderRejection); or raises AmbiguousOrderSubmission for an order
\* the broker refused, accepted, or will only show later.
PlaceEntry ==
    /\ pc = "place"
    /\ \/ /\ order' = [order EXCEPT !.status = "SUBMITTED"]
          /\ Goto("poll", mem) /\ UNCHANGED budget
       \/ /\ Goto("save", Move(mem, Failed)) \/ Goto("save", Move(mem, Unknown))
          /\ UNCHANGED <<order, budget>>
       \/ /\ \E status \in {"SUBMITTED", "inflight"} :
                order' = [order EXCEPT !.status = status]
          /\ Goto("save", Move(mem, Unknown)) /\ Spend("faults")
    /\ UNCHANGED <<seen, durable, exits, position, core>>

---------------------------------------------------------------------------
(* _reconcile_entry_fill_and_protection: one pass of fill and protection.  *)

\* The cumulative fill of the entry order, and whether it is final.
Polled(record, answer) ==
    [record EXCEPT !.filled = answer.filled,
                   !.terminal = @ \/ EntryFillIsFinal(answer.status)]

\* The record after the entry order answered.
Refresh(record, answer) ==
    LET polled == Polled(record, answer) IN
    IF record.state \notin FreshStates THEN polled
    ELSE IF answer.status = "PARTIAL FILLED" THEN Move(polled, Partially)
    ELSE IF answer.filled > 0 THEN Move(polled, Filled)
    ELSE IF polled.terminal THEN Move(polled, Failed)
    ELSE polled

ToPending(record) ==
    LET held == IF record.state \in FreshStates THEN Move(record, Filled)
                ELSE record
    IN IF held.state = Pending THEN held ELSE Move(held, Pending)

\* A target is never sized (target_leg_quantity is never set), so an entry
\* with one goes through the pass each time.
Steady(record) ==
    record.state = Confirmed /\ record.stopQty = record.filled /\ ~HasTarget

Protect(record) ==
    IF record.filled = 0
    THEN EndPass(IF record.terminal /\ record.state \notin TerminalStates
                 THEN Move(record, Failed) ELSE record, FALSE)
    ELSE IF Steady(record) THEN EndPass(record, FALSE)
    ELSE Goto("resize", ToPending(record))

PollEntry ==
    /\ pc = "poll"
    /\ \/ /\ mem.terminal
          /\ Protect(mem) /\ UNCHANGED budget
       \/ /\ ~mem.terminal
          /\ \E answer \in Answers(order) :
               /\ Lookup(order, answer)
               /\ IF answer = NoAnswer THEN EndPass(mem, TRUE)
                  ELSE Protect(Refresh(mem, answer))
    /\ UNCHANGED <<seen, durable, broker>>

\* Mutant of MayReplace: a cancellation that was accepted has landed.
MayReplaceAccepted(answer) == answer # NoAnswer /\ answer.status # "FILLED"

\* The old stop is known to be gone, and not because it sold.
MayReplace(answer) ==
    /\ answer # NoAnswer /\ answer.status # "FILLED"
    /\ ~ProtectiveLegIsActive(answer.status)

\* _reconcile_protective_leg_quantity raised: the pass goes on to confirm.
ResizeFails(record) ==
    /\ pc' = "confirm" /\ raised' = TRUE /\ mem' = record
    /\ UNCHANGED <<ctx, tries>>

NextStop == <<"stop", mem.attempt + 1>>

Resize ==
    /\ pc = "resize"
    /\ \/ /\ mem.stopQty = mem.filled
          /\ Goto("confirm", mem) /\ UNCHANGED budget
       \/ /\ mem.stopQty # mem.filled /\ mem.stopId = NoId
          /\ Goto("replace", mem) /\ UNCHANGED budget
       \/ /\ mem.stopQty # mem.filled /\ mem.stopId # NoId
          /\ \E answer \in Answers(exits[mem.stopId]) :
               /\ Lookup(exits[mem.stopId], answer)
               /\ IF ProtectiveLegIsActive(answer.status)
                  THEN Goto("cancel", mem)
                  ELSE IF MayReplace(answer) THEN Goto("replace", mem)
                  ELSE ResizeFails(mem)
    /\ UNCHANGED <<seen, durable, broker>>

CancelForResize ==
    /\ pc = "cancel"
    /\ \E ok \in BOOLEAN :
         /\ Cancelled(mem.stopId, ok)
         /\ IF ok THEN Goto("recheck", mem) ELSE ResizeFails(mem)
    /\ UNCHANGED <<seen, durable, order, position, core>>

RecheckForResize ==
    /\ pc = "recheck"
    /\ \E answer \in Answers(exits[mem.stopId]) :
         /\ Lookup(exits[mem.stopId], answer)
         /\ IF MayReplace(answer) THEN Goto("replace", mem)
            ELSE ResizeFails(mem)
    /\ UNCHANGED <<seen, durable, broker>>

\* The record that tracks a newly placed stop leg.
Tracking(record, id, qty) ==
    [record EXCEPT !.stopId = id, !.attempt = id[2], !.stopQty = qty]

\* The replacement under the next id, and its one immediate retry; the id
\* counts as used only once a placement returned.
ReplaceStop ==
    /\ pc \in {"replace", "replace_again"}
    /\ \E ok \in BOOLEAN :
         /\ Placed(NextStop, mem.filled, ok)
         /\ IF ok THEN Goto("confirm", Tracking(mem, NextStop, mem.filled))
            ELSE IF pc = "replace" THEN Goto("replace_again", mem)
            ELSE ResizeFails([mem EXCEPT !.gap = @ \/ mem.stopId # NoId])
    /\ UNCHANGED <<seen, durable, order, position, core>>

\* Mutant of Sized: any tracked stop will do.
SizedAnyhow(record) == record.stopId # NoId

\* The tracked stop was last sized to the whole fill.
Sized(record) == record.stopId # NoId /\ record.stopQty = record.filled

\* _confirm_and_finalize_protection, by the last answer its polls get.
Confirm ==
    /\ pc = "confirm"
    /\ \/ /\ ~Sized(mem)
          /\ EndPass(Move(mem, Unprotected), raised)
          /\ UNCHANGED budget
       \/ /\ Sized(mem)
          /\ \E answer \in Answers(exits[mem.stopId]) :
               /\ Lookup(exits[mem.stopId], answer)
               /\ IF ProtectiveLegIsActive(answer.status)
                  THEN EndPass(Move([mem EXCEPT !.gap = FALSE], Confirmed),
                               raised)
                  ELSE EndPass(Move([mem EXCEPT !.stopQty =
                                       IF ProtectiveLegIsDead(answer.status)
                                       THEN 0 ELSE @], Unprotected), raised)
    /\ UNCHANGED <<seen, durable, broker>>

---------------------------------------------------------------------------
(* _monitor_transitional_orders: one record of one pass.                   *)

\* The snapshot of the pass may have been read by an earlier stage of it.
MonitorBegin ==
    /\ pc = "idle"
    /\ disk.state \in FillMonitoringStates
    /\ pc' = CASE disk.state = Confirmed   -> "target"
               [] disk.state = Unprotected -> "stuck"
               [] OTHER                    -> "poll"
    /\ ctx' = "monitor" /\ mem' = disk
    /\ seen' \in {{}, {position}}
    /\ UNCHANGED <<tries, raised, durable, broker, budget>>

Flagged(record) == record.absent = ConfirmPasses

\* Where both position-absent checks hand over: a flagged stuck record is
\* left alone, any other goes on to the check that follows.
AfterAbsence(record) ==
    IF record.state = Unprotected
    THEN IF Flagged(record) THEN EndPass(record, FALSE)
         ELSE Goto("poll", record)
    ELSE Goto(IF record.terminal THEN "rearm" ELSE "poll", record)

\* _check_position_absent_while_stuck and _while_active: held shares clear
\* the flag, a reading that raised concludes nothing, a first or repeated
\* zero asks the stop whether it explains the absence.
CheckAbsence ==
    /\ pc \in {"stuck", "absent"}
    /\ \E live \in Readings :
         /\ Positions(live)
         /\ IF live = {0} /\ ~Flagged(mem) THEN Goto("absent_stop", mem)
            ELSE IF live \in {{}, {0}} THEN AfterAbsence(mem)
            ELSE AfterAbsence([mem EXCEPT !.absent = 0])
    /\ UNCHANGED <<durable, broker>>

\* Mutant of Explains: a stop that is over explains the absence.
ExplainsWhenOver(answer) == answer.status \in FinalStatuses

\* Only a stop that sold explains why nothing is held.
Explains(answer) == answer.status = "FILLED"

CheckAbsentStop ==
    /\ pc = "absent_stop"
    /\ \/ /\ mem.stopId = NoId
          /\ AfterAbsence([mem EXCEPT !.absent = @ + 1])
          /\ UNCHANGED budget
       \/ /\ mem.stopId # NoId
          /\ \E answer \in Answers(exits[mem.stopId]) :
               /\ Lookup(exits[mem.stopId], answer)
               /\ AfterAbsence([mem EXCEPT !.absent =
                      IF Explains(answer) THEN 0 ELSE @ + 1])
    /\ UNCHANGED <<seen, durable, broker>>

---------------------------------------------------------------------------
(* _check_and_execute_target_exit. The price is the environment's.         *)

StopSize(record) == IF record.stopQty # 0 THEN record.stopQty
                    ELSE record.filled

CheckTarget ==
    /\ pc = "target"
    /\ \/ /\ ~HasTarget \/ mem.stopId = NoId
          /\ Goto("exit", mem) /\ UNCHANGED budget
       \/ /\ HasTarget /\ mem.stopId # NoId
          /\ \E answer \in Answers(exits[mem.stopId]) :
               /\ Lookup(exits[mem.stopId], answer)
               /\ \/ /\ answer = NoAnswer
                     /\ EndPass(mem, TRUE)
                  \/ /\ answer # NoAnswer
                     /\ Goto("exit", mem)
                  \/ /\ ProtectiveLegIsActive(answer.status)
                     /\ answer.filled = 0 /\ StopSize(mem) > 0
                     /\ Goto("target_cancel", mem)
    /\ UNCHANGED <<seen, durable, broker>>

CancelForTarget ==
    /\ pc = "target_cancel"
    /\ \E ok \in BOOLEAN :
         /\ Cancelled(mem.stopId, ok)
         /\ IF ok THEN Goto("target_recheck", mem) ELSE EndPass(mem, TRUE)
    /\ UNCHANGED <<seen, durable, order, position, core>>

\* Bound: the broker accepts no order under an attempt past MaxAttempts.
NextAttempt(n) == IF n <= MaxAttempts THEN n + 1 ELSE n

RecheckForTarget ==
    /\ pc = "target_recheck"
    /\ \E answer \in Answers(exits[mem.stopId]) :
         /\ Lookup(exits[mem.stopId], answer)
         /\ IF answer = NoAnswer THEN EndPass(mem, TRUE)
            ELSE IF answer.filled > 0 THEN Goto("exit", mem)
            ELSE IF ProtectiveLegIsActive(answer.status)
            THEN EndPass(mem, TRUE)
            ELSE Goto("sell", [mem EXCEPT !.sell = NextAttempt(@)])
    /\ UNCHANGED <<seen, durable, broker>>

SellId(record) == <<"target_exit", record.sell>>

SellAtTarget ==
    /\ pc = "sell"
    /\ \E ok \in BOOLEAN :
         /\ Placed(SellId(mem), StopSize(mem), ok)
         /\ Goto(IF ok THEN "sell_poll" ELSE "restore", mem)
    /\ UNCHANGED <<seen, durable, order, position, core>>

\* _restore_fallback_stop_after_failed_target_exit; the pass fails anyway.
RestoreStop ==
    /\ pc = "restore"
    /\ \E ok \in BOOLEAN :
         /\ Placed(NextStop, StopSize(mem), ok)
         /\ EndPass(IF ok THEN Tracking(mem, NextStop, StopSize(mem))
                    ELSE mem, TRUE)
    /\ UNCHANGED <<seen, durable, order, position, core>>

\* Mutant of PollSell: an order that is over is taken as sold.
PollSellOver ==
    /\ pc = "sell_poll"
    /\ \E answer \in Answers(exits[SellId(mem)]) :
         /\ Lookup(exits[SellId(mem)], answer)
         /\ IF answer.filled = 0 /\ answer.status \notin FinalStatuses
            THEN EndPass(mem, TRUE) /\ UNCHANGED traded
            ELSE EndPass(Move(mem, Closed), FALSE) /\ traded' = TRUE
    /\ UNCHANGED <<seen, disk, broker>>

\* The bounded poll of the sell, by the last answer it gets. Any fill at all
\* closes the trade.
PollSell ==
    /\ pc = "sell_poll"
    /\ \E answer \in Answers(exits[SellId(mem)]) :
         /\ Lookup(exits[SellId(mem)], answer)
         /\ IF answer.filled = 0
            THEN EndPass(mem, TRUE) /\ UNCHANGED traded
            ELSE EndPass(Move(mem, Closed), FALSE) /\ traded' = TRUE
    /\ UNCHANGED <<seen, disk, broker>>

---------------------------------------------------------------------------
(* _reconcile_position_exit by the stop leg: the target rests nowhere, so  *)
(* there is never a sibling to cancel.                                     *)

\* max(0.0, protected_quantity - exited_quantity)
Remaining(record, exited) ==
    IF exited < StopSize(record) THEN StopSize(record) - exited ELSE 0

CheckExit ==
    /\ pc = "exit"
    /\ \/ /\ mem.stopId = NoId
          /\ Goto("absent", mem) /\ UNCHANGED <<traded, budget>>
       \/ /\ mem.stopId # NoId
          /\ \E answer \in Answers(exits[mem.stopId]) :
               /\ Lookup(exits[mem.stopId], answer)
               /\ LET left == Remaining(mem, answer.filled) IN
                  IF answer = NoAnswer THEN EndPass(mem, TRUE) /\ UNCHANGED traded
                  ELSE IF answer.filled = 0
                  THEN Goto("absent", mem) /\ UNCHANGED traded
                  ELSE IF left = 0
                  THEN EndPass(Move(mem, Closed), FALSE) /\ traded' = TRUE
                  ELSE /\ Goto("confirm",
                               Move([mem EXCEPT !.stopQty = left, !.filled = left],
                                    Pending))
                       /\ UNCHANGED traded
    /\ UNCHANGED <<seen, disk, broker>>

---------------------------------------------------------------------------
(* _check_and_rearm_dead_stop. Everything short of a failed placement is a *)
(* quiet return.                                                           *)

\* Mutant of MayRearm: a stop that expired is not rearmed.
MayRearmRefused(answer) == answer.status = "FAILED"

\* The tracked stop is over, and sold nothing.
MayRearm(answer) ==
    /\ answer # NoAnswer /\ answer.filled = 0
    /\ ~ProtectiveLegIsActive(answer.status)

Rearm ==
    /\ pc = "rearm"
    /\ \/ /\ mem.stopId = NoId
          /\ Goto("rearm_held", mem) /\ UNCHANGED budget
       \/ /\ mem.stopId # NoId
          /\ \E answer \in Answers(exits[mem.stopId]) :
               /\ Lookup(exits[mem.stopId], answer)
               /\ IF MayRearm(answer) THEN Goto("rearm_held", mem)
                  ELSE EndPass(mem, FALSE)
    /\ UNCHANGED <<seen, durable, broker>>

RearmIfHeld ==
    /\ pc = "rearm_held"
    /\ \E live \in Readings :
         /\ Positions(live)
         /\ IF live \in {{}, {0}} \/ ~core THEN EndPass(mem, FALSE)
            ELSE Goto("rearm_place", [mem EXCEPT !.rearm = NextAttempt(@)])
    /\ UNCHANGED <<durable, broker>>

\* The attempt is counted before the placement, whatever comes of it.
PlaceRearmed ==
    /\ pc = "rearm_place"
    /\ \E ok \in BOOLEAN, qty \in seen :
         LET id == <<"stop_rearm", mem.rearm>> IN
         /\ Placed(id, qty, ok)
         /\ EndPass(IF ok THEN [mem EXCEPT !.stopId = id, !.stopQty = qty]
                    ELSE mem, ~ok)
    /\ UNCHANGED <<seen, durable, order, position, core>>

---------------------------------------------------------------------------
(* The resolution of a submission nobody knows the outcome of, and of a    *)
(* position that is gone.                                                  *)

\* Mutants of Rejected: the first absence is final; none is ever counted.
RejectedAtOnce(record) == Move(record, Failed)
RejectedUncounted(record) == Move(record, Unknown)

\* The broker reported the order absent. Bound: the grace period outlasts
\* the time the broker takes to show an accepted order, so the last
\* confirmation of an absence is never of an order still in flight.
Rejected(record) ==
    IF record.rejections + 1 >= MinRejections /\ order.status = "none"
    THEN Move(record, Failed)
    ELSE Move([record EXCEPT !.rejections =
                 IF @ < MinRejections THEN @ + 1 ELSE @], Unknown)

\* _reconcile_unknown_submission.
ReconcileUnknown ==
    /\ pc = "idle" /\ disk.state = Unknown
    /\ ctx' = "submit"
    /\ \/ /\ order.status \in AbsentStatuses
          /\ mem' = Rejected(disk) /\ pc' = "save" /\ UNCHANGED budget
       \/ /\ mem' = Move(disk, Unknown)
          /\ pc' = "save" /\ Spend("faults")
       \/ /\ order.status \notin AbsentStatuses \/ BlankReads
          /\ mem' = Move(disk, Submitted) /\ pc' = "poll"
          /\ IF order.status \in AbsentStatuses THEN Spend("faults")
             ELSE UNCHANGED budget
    /\ UNCHANGED <<tries, seen, raised, durable, broker>>

\* _resolve_position_absent_reconciliation, by an admin under the scan lock,
\* from a fresh read of the position and of the stop.
ResolveAbsent ==
    /\ pc = "idle"
    /\ disk.state \in {Unprotected, Confirmed} /\ Flagged(disk)
    /\ position = 0
    /\ disk.stopId # NoId => exits[disk.stopId].status \notin
                               AbsentStatuses \union {"FILLED"}
    /\ traded' = TRUE /\ disk' = Move(disk, Closed)
    /\ UNCHANGED <<process, broker, budget>>

---------------------------------------------------------------------------
(* The broker and the market.                                              *)

Shown == /\ order.status = "inflight"
         /\ order' = [order EXCEPT !.status = "SUBMITTED"]
         /\ UNCHANGED <<process, durable, exits, position, core, budget>>

EntryFills ==
    /\ order.status \in OpenStatuses
    /\ \E more \in 1..(Quantity - order.filled) :
         LET filled == order.filled + more IN
         /\ PartialEntry \/ filled = Quantity
         /\ order' = [filled |-> filled,
                      status |-> IF filled = Quantity THEN "FILLED"
                                 ELSE "PARTIAL FILLED"]
         /\ position' = position + more
    /\ UNCHANGED <<process, durable, exits, core, budget>>

\* A DAY order that expires, or a risk control of the broker.
EntryEnds ==
    /\ order.status \in OpenStatuses
    /\ order' = [order EXCEPT !.status = "CANCELLED"]
    /\ UNCHANGED <<process, durable, exits, position, core, budget>>

ExitFills ==
    /\ \E id \in ActiveExits :
         LET exit == exits[id] IN
         \E more \in 1..(exit.qty - exit.filled) :
           /\ id[1] = "target_exit" \/ core
           /\ more <= position
           /\ PartialExits \/ exit.filled + more = exit.qty
           /\ exits' = [exits EXCEPT ![id].filled = @ + more,
                  ![id].status = IF exit.filled + more = exit.qty
                                 THEN "FILLED" ELSE "PARTIAL FILLED"]
           /\ position' = position - more
    /\ UNCHANGED <<process, durable, order, core, budget>>

Ended(id) == exits' = [exits EXCEPT ![id].status = "CANCELLED"]

CancelLands ==
    /\ \E id \in ActiveExits : exits[id].cancelling /\ Ended(id)
    /\ UNCHANGED <<process, durable, order, position, core, budget>>

\* Exit orders are DAY orders: they expire some time after the close.
ExitExpires ==
    /\ ~core
    /\ \E id \in ActiveExits : Ended(id)
    /\ UNCHANGED <<process, durable, order, position, core, budget>>

MarketCloses ==
    /\ core /\ Spend("closes") /\ core' = FALSE
    /\ UNCHANGED <<process, durable, order, exits, position>>

MarketOpens ==
    /\ ~core /\ core' = TRUE
    /\ UNCHANGED <<process, durable, order, exits, position, budget>>

\* The position is closed, or an exit order cancelled, at the broker itself.
Outside ==
    /\ Spend("outside")
    /\ \/ /\ position > 0 /\ position' = 0
          /\ UNCHANGED exits
       \/ /\ \E id \in ActiveExits : Ended(id)
          /\ UNCHANGED position
    /\ UNCHANGED <<process, durable, order, core>>

---------------------------------------------------------------------------
Fill == PollEntry \/ Resize \/ CancelForResize \/ RecheckForResize
        \/ ReplaceStop \/ Confirm
Target == CheckTarget \/ CancelForTarget \/ RecheckForTarget \/ SellAtTarget
          \/ RestoreStop \/ PollSell
Exit == CheckExit \/ CheckAbsence \/ CheckAbsentStop \/ Rearm \/ RearmIfHeld
        \/ PlaceRearmed

\* A pass, once begun, runs to its write; the monitor is called on a timer.
Pass == PlaceEntry \/ Fill \/ Target \/ Exit \/ Save
Monitor == MonitorBegin \/ ReconcileUnknown

Environment == Shown \/ EntryFills \/ EntryEnds \/ ExitFills \/ CancelLands
               \/ ExitExpires \/ MarketCloses \/ MarketOpens \/ Outside

Next == Submit \/ Pass \/ Monitor \/ ResolveAbsent \/ Crash \/ Environment

Spec == Init /\ [][Next]_vars

\* The broker calls have deadlines and the monitor runs every minute; the
\* broker shows an accepted order, ends it within its day, lands a
\* cancellation and opens again.
Fairness == /\ WF_vars(Pass) /\ WF_vars(Monitor)
            /\ WF_vars(EntryFills \/ EntryEnds)
            /\ WF_vars(Shown) /\ WF_vars(CancelLands) /\ WF_vars(MarketOpens)

FairSpec == Spec /\ Fairness

---------------------------------------------------------------------------
(* What the component owes its callers.                                    *)

\* _persist_entry_before_submission: no order reaches the broker without a
\* record on disk, whatever is lost and whenever the process dies.
NothingUntraced == order.status # "none" => disk # NoRecord

\* No share was bought by the entry order, and none will be.
NeverBuys ==
    order.filled = 0 /\ order.status \notin OpenStatuses \union {"inflight"}

\* ENTRY_FAILED, written by four different paths, is the claim that no share
\* was bought and none will be.
AbandonedMeansNoPosition == disk.state = Failed => NeverBuys

\* entry_order_terminal, once set, is true, and no later answer takes back
\* the fill it was set with.
Truthful(record) ==
    /\ record.terminal =>
           /\ EntryFillIsFinal(order.status)
           /\ record.filled = 0 => order.filled = 0
    /\ record.state = Failed => NeverBuys

\* The inductive invariant behind the two: what the record of a pass, and
\* the one on disk, may say of the entry order at every step between.
RecordsAreTruthful ==
    /\ Truthful(mem) /\ Truthful(disk)
    /\ order.status # "none" => disk.state # "none"
    /\ order.status \in AbsentStatuses => order.filled = 0
    /\ position <= order.filled
    /\ pc # "idle" => mem.state # "none"
    /\ pc = "place" => /\ {mem.state, disk.state} = {Submitted}
                       /\ order.status = "none"
    /\ pc = "absent_stop" => ~Flagged(mem)

\* Shares that were bought have gone: an exit order filled, or somebody acted on
\* the account at the broker itself.
Parted == (\E id \in ExitIds : exits[id].filled > 0) \/ budget.outside < MaxOutside

\* A record is CLOSED only with its trade in the journal, and only once one
\* of its exit orders filled, unless somebody acted at the broker itself.
ClosedOnEvidence == disk.state = Closed => traded /\ Parted

\* Two exit orders never rest at once: together they could sell more shares
\* than are held.
OneExitOrder == Cardinality(ActiveExits) <= 1

\* PROTECTION_CONFIRMED_ACTIVE is only claimed of a stop that covers every
\* share held, unless the entry filled further since it was last polled; so it
\* is until a call is lost or a crash comes between a stop and its record.
ConfirmationCovers ==
    [][pc = "confirm" /\ mem'.state = Confirmed /\ mem.filled = order.filled
         /\ budget.faults = MaxFaults /\ budget.crashes = MaxCrashes
       => exits[mem.stopId].qty - exits[mem.stopId].filled >= position]_vars

Watched == disk.state \notin TerminalStates

\* A position no exit order covers is protected again, gone, or brought to
\* attention: the passes on it fail (monitoring_failing), or the failed
\* replacement of its stop is on the record (protection_gap).
NakedIsNoticed ==
    (position > 0 /\ ActiveExits = {} /\ Watched)
        ~> (\/ position = 0 \/ ActiveExits # {} \/ ~Watched
            \/ disk.failing \/ disk.gap)

\* A position that ended under a protected record is closed in the books or
\* flagged for an admin.
GoneIsSettled ==
    (disk.state = Confirmed /\ disk.terminal /\ position = 0)
        ~> (disk.state = Closed \/ Flagged(disk))

\* An ambiguous submission does not freeze the account for ever.
UnknownIsResolved == (disk.state = Unknown) ~> (disk.state # Unknown)

---------------------------------------------------------------------------
(* The contract this component implements.                                 *)

Claim == CASE disk.state = "none"         -> "none"
           [] disk.state = Failed         -> "failed"
           [] disk.state = Closed         -> "closed"
           [] OTHER                       -> "open"

Bought == IF order.filled > 0 THEN "yes"
          ELSE IF order.status = "none" THEN "no"
          ELSE IF EntryFillIsFinal(order.status) THEN "never" ELSE "maybe"

Contract == INSTANCE EntryContract
              WITH claim <- Claim, bought <- Bought, booked <- traded

\* Every step on the entry is a step of the contract, or invisible to it.
ImplementsContract == Contract!Spec

=============================================================================
