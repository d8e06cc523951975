----------------------- MODULE EntryProtection_proofs -----------------------
(***************************************************************************)
(* Theorems of EntryProtection for every value of its constants. First     *)
(* Types and RecordsAreTruthful, one invariant: no order without a record, *)
(* no bought share under a failed record. Then, from that invariant, the   *)
(* books: what BooksAreTrue says of orders, record and journal, hence that *)
(* a closed record rests on evidence. From both, the refinement of         *)
(* EntryContract: each step is a step of the contract or a stutter. Last,  *)
(* the exit orders: that a confirmed stop covers the position, and that no *)
(* two of them rest at a time.                                             *)
(***************************************************************************)
EXTENDS EntryProtection, FiniteSetTheorems, TLAPS

---------------------------------------------------------------------------
(* Types of the operators the actions are built from.                      *)

\* The constants are numbers and flags, as the arithmetic below needs them.
LEMMA Constants ==
    /\ {Quantity, PollAttempts, MinRejections, ConfirmPasses, MaxAttempts,
        MaxFaults, MaxCrashes, MaxCloses, MaxOutside} \subseteq Nat
    /\ {Quantity, PollAttempts, MinRejections, ConfirmPasses, MaxAttempts}
         \subseteq Nat \ {0}
BY CountsAssumption

\* transition() only changes the state, to the one asked for or to none.
LEMMA MoveTyped ==
    ASSUME NEW record \in Records, NEW to \in AllStates
    PROVE  Move(record, to) \in Records
BY DEF Move, Records, AllStates, Illegal

\* The record before initialize() is a record.
LEMMA NoRecordTyped == NoRecord \in Records
BY Constants DEF NoRecord, Records, Shares, NoId

\* An answer reports a number of filled shares.
LEMMA AnswerTyped ==
    ASSUME NEW o, o.filled \in Shares, NEW answer \in Answers(o)
    PROVE  answer.filled \in Shares
BY Constants DEF Answers, AnswerOf, NoAnswer, Blank, Shares

\* A poll of the entry order leaves a record.
LEMMA PolledTyped ==
    ASSUME NEW record \in Records, NEW answer, answer.filled \in Shares
    PROVE  Refresh(record, answer) \in Records
<1>1. Polled(record, answer) \in Records
  BY DEF Polled, Records
<1>2. QED
  BY <1>1, MoveTyped DEF Refresh, AllStates

\* So does the move to PROTECTION_PENDING.
LEMMA ToPendingTyped ==
    ASSUME NEW record \in Records PROVE ToPending(record) \in Records
BY MoveTyped DEF ToPending, AllStates

\* What the end of a step leaves of the process.
ControlTyped ==
    /\ pc \in Steps /\ ctx \in {"submit", "monitor"}
    /\ tries \in 0..PollAttempts /\ raised \in BOOLEAN /\ mem \in Records

\* Going on to the next broker call.
LEMMA GotoTyped ==
    ASSUME TypeOK, NEW step \in Steps, NEW record \in Records,
           Goto(step, record)
    PROVE  ControlTyped'
BY DEF Goto, ControlTyped, TypeOK

\* The end of a pass: the retry of the poll loop, whose counter stays
\* below PollAttempts, or the write.
LEMMA EndPassTyped ==
    ASSUME TypeOK, NEW record \in Records, NEW failed \in BOOLEAN,
           EndPass(record, failed)
    PROVE  ControlTyped'
<1>1. [record EXCEPT !.failing = failed] \in Records
  BY DEF Records
<1>2. ctx' \in {"submit", "monitor"} /\ raised' \in BOOLEAN
  BY DEF EndPass, TypeOK
<1>3. CASE PollsAgain(record, failed)
  <2>1. pc' = "poll" /\ tries' = tries + 1 /\ mem' = record
    BY <1>3 DEF EndPass
  <2>2. tries + 1 < PollAttempts
    BY <1>3 DEF PollsAgain
  <2>3. tries' \in 0..PollAttempts
    BY <2>1, <2>2, Constants DEF TypeOK
  <2>4. QED
    BY <1>2, <2>1, <2>3 DEF ControlTyped, Steps
<1>4. CASE ~PollsAgain(record, failed)
  <2>1. pc' = "save" /\ tries' = 0 /\ mem' \in Records
    BY <1>1, <1>4 DEF EndPass
  <2>2. 0 \in 0..PollAttempts
    BY Constants
  <2>3. QED
    BY <1>2, <2>1, <2>2 DEF ControlTyped, Steps
<1>5. QED
  BY <1>3, <1>4

\* The bounds on the environment are only ever used up.
LEMMA SpendTyped ==
    ASSUME budget \in Budgets,
           NEW what \in {"faults", "crashes", "closes", "outside"}, Spend(what)
    PROVE  budget' \in Budgets
BY Constants DEF Spend, Budgets

\* A lookup costs at most one fault.
LEMMA LookupTyped ==
    ASSUME budget \in Budgets, NEW o, NEW answer, Lookup(o, answer)
    PROVE  budget' \in Budgets
BY SpendTyped DEF Lookup

\* Placing an exit order, whatever comes of it.
LEMMA PlacedTyped ==
    ASSUME TypeOK, NEW id, NEW qty, NEW ok \in BOOLEAN, Placed(id, qty, ok)
    PROVE  /\ exits' \in [ExitIds -> ExitOrders]
           /\ budget' \in Budgets
           /\ ok => id \in ExitIds
<1>1. ASSUME Accepts(id, qty), Resting(id, qty)
      PROVE  exits' \in [ExitIds -> ExitOrders]
  <2>1. qty \in Shares /\ id \in ExitIds
    BY <1>1, Constants DEF Accepts, TypeOK, Shares
  <2>2. [NoExit EXCEPT !.status = "SUBMITTED", !.qty = qty] \in ExitOrders
    <3>1. 0 \in Shares /\ "SUBMITTED" \in OrderStatuses
      BY Constants DEF Shares, OrderStatuses, OpenStatuses
    <3>2. QED
      BY <2>1, <3>1 DEF NoExit, ExitOrders
  <2>3. QED
    BY <1>1, <2>2 DEF Resting, TypeOK
<1>2. budget' \in Budgets
  BY SpendTyped DEF Placed, TypeOK
<1>3. exits' \in [ExitIds -> ExitOrders]
  BY <1>1 DEF Placed, TypeOK
<1>4. ok => id \in ExitIds
  BY DEF Placed, Accepts
<1>5. QED
  BY <1>2, <1>3, <1>4

\* Asking for a cancellation marks an order, and changes nothing else of it.
LEMMA CancelledTyped ==
    ASSUME TypeOK, NEW id, NEW ok \in BOOLEAN, Cancelled(id, ok)
    PROVE  exits' \in [ExitIds -> ExitOrders] /\ budget' \in Budgets
<1>1. ASSUME id \in ActiveExits,
             exits' = [exits EXCEPT ![id].cancelling = TRUE]
      PROVE  exits' \in [ExitIds -> ExitOrders]
  <2>1. [exits[id] EXCEPT !.cancelling = TRUE] \in ExitOrders
    BY <1>1 DEF ActiveExits, TypeOK, ExitOrders
  <2>2. QED
    BY <1>1, <2>1 DEF TypeOK
<1>2. budget' \in Budgets
  BY SpendTyped DEF Cancelled, TypeOK
<1>3. exits' \in [ExitIds -> ExitOrders]
  BY <1>1 DEF Cancelled, TypeOK
<1>4. QED
  BY <1>2, <1>3

\* A reading of the positions is a number of shares, or nothing.
LEMMA PositionsTyped ==
    ASSUME TypeOK, NEW live, Positions(live)
    PROVE  seen' \in SUBSET Shares /\ budget' \in Budgets
<1>1. 0 \in Shares
  BY Constants DEF Shares
<1>2. QED
  BY <1>1, SpendTyped DEF Positions, TypeOK

---------------------------------------------------------------------------
(* Types of the variables, step by step.                                   *)

\* A step of the process that only reads the broker.
LEMMA ReadStep ==
    ASSUME TypeOK, ControlTyped', budget' \in Budgets,
           UNCHANGED <<seen, durable, broker>>
    PROVE  TypeOK'
BY DEF TypeOK, ControlTyped, durable, broker

\* A step of the process that calls the broker for an exit order.
LEMMA CallStep ==
    ASSUME TypeOK, ControlTyped', budget' \in Budgets,
           exits' \in [ExitIds -> ExitOrders],
           UNCHANGED <<seen, durable, order, position, core>>
    PROVE  TypeOK'
BY DEF TypeOK, ControlTyped, durable

\* A step of the process that reads the positions.
LEMMA PositionsStep ==
    ASSUME TypeOK, ControlTyped', budget' \in Budgets,
           seen' \in SUBSET Shares, UNCHANGED <<durable, broker>>
    PROVE  TypeOK'
BY DEF TypeOK, ControlTyped, durable, broker

\* What Protect leaves of the process.
LEMMA ProtectTyped ==
    ASSUME TypeOK, NEW record \in Records, Protect(record)
    PROVE  ControlTyped'
<1>1. Move(record, Failed) \in Records
  BY MoveTyped DEF AllStates
<1>2. CASE record.filled = 0
  BY <1>1, <1>2, EndPassTyped DEF Protect
<1>3. CASE record.filled # 0 /\ Steady(record)
  BY <1>3, EndPassTyped DEF Protect
<1>4. CASE record.filled # 0 /\ ~Steady(record)
  <2>1. Goto("resize", ToPending(record))
    BY <1>4 DEF Protect
  <2>2. "resize" \in Steps
    BY DEF Steps
  <2>3. QED
    BY <2>1, <2>2, ToPendingTyped, GotoTyped
<1>5. QED
  BY <1>2, <1>3, <1>4

\* A resize that raised goes on to the confirmation.
LEMMA ResizeFailsTyped ==
    ASSUME TypeOK, NEW record \in Records, ResizeFails(record)
    PROVE  ControlTyped'
BY DEF ResizeFails, ControlTyped, TypeOK, Steps

\* Where the position-absent checks hand over.
LEMMA AfterAbsenceTyped ==
    ASSUME TypeOK, NEW record \in Records, AfterAbsence(record)
    PROVE  ControlTyped'
BY GotoTyped, EndPassTyped DEF AfterAbsence, Steps

\* The tracked stop, where there is one, is an order id.
LEMMA StopIsId ==
    ASSUME TypeOK, mem.stopId # NoId
    PROVE  mem.stopId \in ExitIds /\ exits[mem.stopId] \in ExitOrders
BY DEF TypeOK, Records

\* The attempts of a leg stop at the bound.
LEMMA NextAttemptTyped ==
    ASSUME NEW n \in 0..(MaxAttempts + 1)
    PROVE  NextAttempt(n) \in 0..(MaxAttempts + 1)
BY Constants DEF NextAttempt

\* The size a stop is taken to have is a number of shares.
LEMMA StopSizeTyped ==
    ASSUME NEW record \in Records PROVE StopSize(record) \in Shares
BY DEF StopSize, Records

\* A record that tracks a new stop.
LEMMA TrackingTyped ==
    ASSUME NEW record \in Records, NEW id \in ExitIds, NEW qty \in Shares
    PROVE  Tracking(record, id, qty) \in Records
<1>1. id[2] \in 0..MaxAttempts
  BY Constants DEF ExitIds
<1>2. QED
  BY <1>1 DEF Tracking, Records

\* The steps of the fill-and-protect pass keep the types.
LEMMA FillTyped == ASSUME TypeOK, Fill PROVE TypeOK'
<1>1. CASE PollEntry
  <2>1. CASE mem.terminal /\ Protect(mem) /\ UNCHANGED budget
    <3>1. ControlTyped' /\ budget' \in Budgets
      BY <2>1, ProtectTyped DEF TypeOK
    <3>2. QED
      BY <1>1, <3>1, ReadStep DEF PollEntry
  <2>2. ASSUME NEW answer \in Answers(order), Lookup(order, answer),
               IF answer = NoAnswer THEN EndPass(mem, TRUE)
               ELSE Protect(Refresh(mem, answer))
        PROVE  TypeOK'
    <3>1. budget' \in Budgets
      BY <2>2, LookupTyped DEF TypeOK
    <3>2. answer.filled \in Shares
      BY <2>2, AnswerTyped DEF TypeOK, EntryOrders
    <3>3. Refresh(mem, answer) \in Records
      BY <3>2, PolledTyped DEF TypeOK
    <3>4. ControlTyped'
      BY <2>2, <3>3, ProtectTyped, EndPassTyped DEF TypeOK
    <3>5. QED
      BY <1>1, <3>1, <3>4, ReadStep DEF PollEntry
  <2>3. QED
    BY <1>1, <2>1, <2>2 DEF PollEntry
<1>2. CASE Resize
  <2>1. budget' \in Budgets
    BY <1>2, LookupTyped DEF Resize, TypeOK
  <2>2. ControlTyped'
    BY <1>2, GotoTyped, ResizeFailsTyped DEF Resize, TypeOK, Steps
  <2>3. QED
    BY <1>2, <2>1, <2>2, ReadStep DEF Resize
<1>3. CASE CancelForResize
  <2>1. ControlTyped'
    BY <1>3, GotoTyped, ResizeFailsTyped DEF CancelForResize, TypeOK, Steps
  <2>2. QED
    BY <1>3, <2>1, CancelledTyped, CallStep DEF CancelForResize
<1>4. CASE RecheckForResize
  <2>1. budget' \in Budgets
    BY <1>4, LookupTyped DEF RecheckForResize, TypeOK
  <2>2. ControlTyped'
    BY <1>4, GotoTyped, ResizeFailsTyped DEF RecheckForResize, TypeOK, Steps
  <2>3. QED
    BY <1>4, <2>1, <2>2, ReadStep DEF RecheckForResize
<1>5. CASE ReplaceStop
  <2>1. PICK ok \in BOOLEAN :
           /\ Placed(NextStop, mem.filled, ok)
           /\ IF ok THEN Goto("confirm", Tracking(mem, NextStop, mem.filled))
              ELSE IF pc = "replace" THEN Goto("replace_again", mem)
              ELSE ResizeFails([mem EXCEPT !.gap = @ \/ mem.stopId # NoId])
    BY <1>5 DEF ReplaceStop
  <2>2. ok => Tracking(mem, NextStop, mem.filled) \in Records
    <3>1. ok => NextStop \in ExitIds
      BY <2>1, PlacedTyped
    <3>2. mem \in Records /\ mem.filled \in Shares
      BY DEF TypeOK, Records
    <3>3. QED
      BY <3>1, <3>2, TrackingTyped
  <2>3. [mem EXCEPT !.gap = @ \/ mem.stopId # NoId] \in Records
    <3>1. ASSUME NEW gap \in BOOLEAN
          PROVE  [mem EXCEPT !.gap = gap] \in Records
      BY DEF TypeOK, Records
    <3>2. (mem.gap \/ mem.stopId # NoId) \in BOOLEAN
      OBVIOUS
    <3>3. QED
      BY <3>1, <3>2, Zenon
  <2>4. ControlTyped'
    BY <2>1, <2>2, <2>3, GotoTyped, ResizeFailsTyped DEF TypeOK, Steps
  <2>5. QED
    BY <1>5, <2>1, <2>4, PlacedTyped, CallStep DEF ReplaceStop
<1>6. CASE Confirm
  <2>1. budget' \in Budgets
    BY <1>6, LookupTyped DEF Confirm, TypeOK
  <2>3. ControlTyped'
    <3>1. CASE EndPass(Move(mem, Unprotected), raised)
      BY <3>1, MoveTyped, EndPassTyped DEF TypeOK, AllStates
    <3>2. CASE EndPass(Move([mem EXCEPT !.gap = FALSE], Confirmed), raised)
      <4>1. [mem EXCEPT !.gap = FALSE] \in Records
        BY DEF TypeOK, Records
      <4>2. QED
        BY <3>2, <4>1, MoveTyped, EndPassTyped DEF TypeOK, AllStates
    <3>3. ASSUME NEW answer,
                 EndPass(Move([mem EXCEPT !.stopQty =
                                 IF ProtectiveLegIsDead(answer.status)
                                 THEN 0 ELSE @], Unprotected), raised)
          PROVE  ControlTyped'
      <4>1. [mem EXCEPT !.stopQty = IF ProtectiveLegIsDead(answer.status)
                                    THEN 0 ELSE @] \in Records
        BY Constants DEF TypeOK, Records, Shares
      <4>2. QED
        BY <3>3, <4>1, MoveTyped, EndPassTyped DEF TypeOK, AllStates
    <3>4. QED
      BY <1>6, <3>1, <3>2, <3>3 DEF Confirm
  <2>4. QED
    BY <1>6, <2>1, <2>3, ReadStep DEF Confirm
<1>7. QED
  BY <1>1, <1>2, <1>3, <1>4, <1>5, <1>6 DEF Fill

\* The steps of the target exit keep the types.
LEMMA TargetTyped == ASSUME TypeOK, Target PROVE TypeOK'
<1>0. mem \in Records /\ TRUE \in BOOLEAN /\ FALSE \in BOOLEAN
  BY DEF TypeOK
<1>1. CASE CheckTarget
  <2>1. budget' \in Budgets
    BY <1>1, LookupTyped DEF CheckTarget, TypeOK
  <2>2. ControlTyped'
    BY <1>0, <1>1, GotoTyped, EndPassTyped DEF CheckTarget, Steps
  <2>3. QED
    BY <1>1, <2>1, <2>2, ReadStep DEF CheckTarget
<1>2. CASE CancelForTarget
  <2>1. ControlTyped'
    BY <1>0, <1>2, GotoTyped, EndPassTyped DEF CancelForTarget, Steps
  <2>2. QED
    BY <1>2, <2>1, CancelledTyped, CallStep DEF CancelForTarget
<1>3. CASE RecheckForTarget
  <2>1. budget' \in Budgets
    BY <1>3, LookupTyped DEF RecheckForTarget, TypeOK
  <2>2. [mem EXCEPT !.sell = NextAttempt(@)] \in Records
    BY NextAttemptTyped DEF TypeOK, Records
  <2>3. ControlTyped'
    BY <1>0, <1>3, <2>2, GotoTyped, EndPassTyped DEF RecheckForTarget, Steps
  <2>4. QED
    BY <1>3, <2>1, <2>3, ReadStep DEF RecheckForTarget
<1>4. CASE SellAtTarget
  <2>1. ControlTyped'
    BY <1>0, <1>4, GotoTyped DEF SellAtTarget, Steps
  <2>2. QED
    BY <1>4, <2>1, PlacedTyped, CallStep DEF SellAtTarget
<1>5. CASE RestoreStop
  <2>1. PICK ok \in BOOLEAN :
           /\ Placed(NextStop, StopSize(mem), ok)
           /\ EndPass(IF ok THEN Tracking(mem, NextStop, StopSize(mem))
                      ELSE mem, TRUE)
    BY <1>5 DEF RestoreStop
  <2>2. ok => Tracking(mem, NextStop, StopSize(mem)) \in Records
    <3>1. ok => NextStop \in ExitIds
      BY <2>1, PlacedTyped
    <3>2. QED
      BY <1>0, <3>1, StopSizeTyped, TrackingTyped
  <2>3. ControlTyped'
    BY <1>0, <2>1, <2>2, EndPassTyped
  <2>4. QED
    BY <1>5, <2>1, <2>3, PlacedTyped, CallStep DEF RestoreStop
<1>6. CASE PollSell
  <2>1. budget' \in Budgets
    BY <1>6, LookupTyped DEF PollSell, TypeOK
  <2>2. Move(mem, Closed) \in Records
    BY <1>0, MoveTyped DEF AllStates
  <2>3. ControlTyped' /\ traded' \in BOOLEAN
    BY <1>0, <1>6, <2>2, EndPassTyped DEF PollSell, TypeOK
  <2>4. QED
    BY <1>6, <2>1, <2>3 DEF PollSell, TypeOK, ControlTyped, broker
<1>7. QED
  BY <1>1, <1>2, <1>3, <1>4, <1>5, <1>6 DEF Target

\* The steps of the exit pass and of the rearming keep the types.
LEMMA ExitTyped ==
    ASSUME TypeOK, RecordsAreTruthful, Exit PROVE TypeOK'
<1>0. mem \in Records /\ TRUE \in BOOLEAN /\ FALSE \in BOOLEAN
  BY DEF TypeOK
<1>1. CASE CheckExit
  <2>1. budget' \in Budgets
    BY <1>1, LookupTyped DEF CheckExit, TypeOK
  <2>2. CASE Goto("absent", mem) /\ UNCHANGED traded
    <3>1. ControlTyped' /\ traded' \in BOOLEAN
      BY <1>0, <2>2, GotoTyped DEF Steps, TypeOK
    <3>2. QED
      BY <1>1, <2>1, <3>1 DEF CheckExit, TypeOK, ControlTyped, broker
  <2>3. CASE EndPass(mem, TRUE) /\ UNCHANGED traded
    <3>1. ControlTyped' /\ traded' \in BOOLEAN
      BY <1>0, <2>3, EndPassTyped DEF TypeOK
    <3>2. QED
      BY <1>1, <2>1, <3>1 DEF CheckExit, TypeOK, ControlTyped, broker
  <2>4. CASE EndPass(Move(mem, Closed), FALSE) /\ traded' = TRUE
    <3>1. Move(mem, Closed) \in Records
      BY <1>0, MoveTyped DEF AllStates
    <3>2. ControlTyped' /\ traded' \in BOOLEAN
      BY <1>0, <2>4, <3>1, EndPassTyped
    <3>3. QED
      BY <1>1, <2>1, <3>2 DEF CheckExit, TypeOK, ControlTyped, broker
  <2>5. ASSUME NEW answer, mem.stopId # NoId,
               answer \in Answers(exits[mem.stopId]),
               Goto("confirm", Move([mem EXCEPT
                        !.stopQty = Remaining(mem, answer.filled),
                        !.filled = Remaining(mem, answer.filled)], Pending)),
               UNCHANGED traded
        PROVE  TypeOK'
    <3>1. answer.filled \in Shares
      BY <2>5, StopIsId, AnswerTyped DEF ExitOrders
    <3>2. Remaining(mem, answer.filled) \in Shares
      BY <1>0, <3>1, StopSizeTyped, Constants DEF Remaining, Shares
    <3>3. [mem EXCEPT !.stopQty = Remaining(mem, answer.filled),
                      !.filled = Remaining(mem, answer.filled)] \in Records
      BY <1>0, <3>2 DEF Records
    <3>4. ControlTyped' /\ traded' \in BOOLEAN
      BY <2>5, <3>3, MoveTyped, GotoTyped DEF AllStates, Steps, TypeOK
    <3>5. QED
      BY <1>1, <2>1, <3>4 DEF CheckExit, TypeOK, ControlTyped, broker
  <2>6. QED
    BY <1>1, <2>2, <2>3, <2>4, <2>5 DEF CheckExit
<1>2. CASE CheckAbsence
  <2>1. PICK live \in Readings :
           /\ Positions(live)
           /\ IF live = {0} /\ ~Flagged(mem) THEN Goto("absent_stop", mem)
              ELSE IF live \in {{}, {0}} THEN AfterAbsence(mem)
              ELSE AfterAbsence([mem EXCEPT !.absent = 0])
    BY <1>2 DEF CheckAbsence
  <2>2. [mem EXCEPT !.absent = 0] \in Records
    BY <1>0, Constants DEF Records
  <2>3. ControlTyped'
    BY <1>0, <2>1, <2>2, GotoTyped, AfterAbsenceTyped DEF Steps
  <2>4. QED
    BY <1>2, <2>1, <2>3, PositionsTyped, PositionsStep DEF CheckAbsence
<1>3. CASE CheckAbsentStop
  <2>1. budget' \in Budgets
    BY <1>3, LookupTyped DEF CheckAbsentStop, TypeOK
  <2>2. mem.absent + 1 \in 0..ConfirmPasses /\ 0 \in 0..ConfirmPasses
    BY <1>0, <1>3, Constants
    DEF RecordsAreTruthful, CheckAbsentStop, Flagged, Records
  <2>3. ASSUME NEW n \in 0..ConfirmPasses
        PROVE  [mem EXCEPT !.absent = n] \in Records
    BY <1>0 DEF Records
  <2>4. ControlTyped'
    <3>1. CASE AfterAbsence([mem EXCEPT !.absent = @ + 1])
      BY <2>2, <2>3, <3>1, AfterAbsenceTyped
    <3>2. CASE AfterAbsence([mem EXCEPT !.absent = 0])
      BY <2>2, <2>3, <3>2, AfterAbsenceTyped
    <3>3. QED
      BY <1>3, <3>1, <3>2 DEF CheckAbsentStop
  <2>5. QED
    BY <1>3, <2>1, <2>4, ReadStep DEF CheckAbsentStop
<1>4. CASE Rearm
  <2>1. budget' \in Budgets
    BY <1>4, LookupTyped DEF Rearm, TypeOK
  <2>2. ControlTyped'
    BY <1>0, <1>4, GotoTyped, EndPassTyped DEF Rearm, Steps
  <2>3. QED
    BY <1>4, <2>1, <2>2, ReadStep DEF Rearm
<1>5. CASE RearmIfHeld
  <2>1. [mem EXCEPT !.rearm = NextAttempt(@)] \in Records
    BY <1>0, NextAttemptTyped DEF Records
  <2>2. ControlTyped'
    BY <1>0, <1>5, <2>1, GotoTyped, EndPassTyped DEF RearmIfHeld, Steps
  <2>3. QED
    BY <1>5, <2>2, PositionsTyped, PositionsStep DEF RearmIfHeld
<1>6. CASE PlaceRearmed
  <2>1. PICK ok \in BOOLEAN, qty \in seen :
           /\ Placed(<<"stop_rearm", mem.rearm>>, qty, ok)
           /\ EndPass(IF ok THEN [mem EXCEPT
                                    !.stopId = <<"stop_rearm", mem.rearm>>,
                                    !.stopQty = qty]
                      ELSE mem, ~ok)
    BY <1>6 DEF PlaceRearmed
  <2>2. qty \in Shares
    BY DEF TypeOK
  <2>3. (~ok) \in BOOLEAN
    OBVIOUS
  <2>4. ok => <<"stop_rearm", mem.rearm>> \in ExitIds
    BY <2>1, PlacedTyped
  <2>5. ok => [mem EXCEPT !.stopId = <<"stop_rearm", mem.rearm>>,
                          !.stopQty = qty] \in Records
    BY <1>0, <2>2, <2>4 DEF Records
  <2>6. ControlTyped'
    BY <1>0, <2>1, <2>3, <2>5, EndPassTyped
  <2>7. QED
    BY <1>6, <2>1, <2>6, PlacedTyped, CallStep DEF PlaceRearmed
<1>7. QED
  BY <1>1, <1>2, <1>3, <1>4, <1>5, <1>6 DEF Exit

\* The steps that begin and end a pass keep the types.
LEMMA PassTyped ==
    ASSUME TypeOK, PlaceEntry \/ Save \/ Monitor \/ Submit \/ ResolveAbsent
                   \/ Crash
    PROVE  TypeOK'
<1>0. /\ mem \in Records /\ disk \in Records /\ NoRecord \in Records
      /\ 0 \in 0..PollAttempts
  BY NoRecordTyped, Constants DEF TypeOK
<1>1. ASSUME NEW record \in Records, NEW to \in {Failed, Unknown, Submitted, Closed}
      PROVE  Move(record, to) \in Records
  BY <1>1, MoveTyped DEF AllStates
<1>2. CASE PlaceEntry
  <2>1. /\ order.filled \in Shares
        /\ \A status \in {"SUBMITTED", "inflight"} :
              [order EXCEPT !.status = status] \in EntryOrders
    BY DEF TypeOK, EntryOrders, OrderStatuses, OpenStatuses, AbsentStatuses
  <2>2. budget' \in Budgets
    BY <1>2, SpendTyped DEF PlaceEntry, TypeOK
  <2>3. order' \in EntryOrders
    BY <1>2, <2>1 DEF PlaceEntry, TypeOK
  <2>4. ControlTyped'
    BY <1>0, <1>2, <1>1, GotoTyped DEF PlaceEntry, Steps
  <2>5. QED
    BY <1>2, <2>2, <2>3, <2>4 DEF PlaceEntry, TypeOK, ControlTyped, durable
<1>3. CASE Save
  BY <1>0, <1>3 DEF Save, TypeOK, Steps, broker
<1>4. CASE MonitorBegin
  <2>1. pc' \in Steps
    BY <1>4 DEF MonitorBegin, Steps
  <2>2. seen' \in SUBSET Shares
    BY <1>4 DEF MonitorBegin, TypeOK
  <2>3. QED
    BY <1>0, <1>4, <2>1, <2>2
    DEF MonitorBegin, TypeOK, durable, broker
<1>5. CASE ReconcileUnknown
  <2>1. budget' \in Budgets
    BY <1>5, SpendTyped DEF ReconcileUnknown, TypeOK
  <2>2. Rejected(disk) \in Records
    <3>1. [disk EXCEPT !.rejections =
             IF @ < MinRejections THEN @ + 1 ELSE @] \in Records
      BY <1>0, Constants DEF Records
    <3>2. QED
      BY <1>0, <1>1, <3>1 DEF Rejected
  <2>3. mem' \in Records /\ pc' \in Steps
    BY <1>0, <1>5, <1>1, <2>2 DEF ReconcileUnknown, Steps
  <2>4. QED
    BY <1>5, <2>1, <2>3 DEF ReconcileUnknown, TypeOK, durable, broker
<1>6. CASE Submit
  <2>1. [NoRecord EXCEPT !.state = Submitted] \in Records
    BY <1>0 DEF Records, AllStates
  <2>2. /\ mem' \in Records /\ disk' \in Records
        /\ pc' \in Steps
    BY <1>0, <1>6, <1>1, <2>1 DEF Submit, Steps
  <2>3. QED
    BY <1>6, <2>2 DEF Submit, TypeOK, broker
<1>7. CASE ResolveAbsent
  BY <1>0, <1>7, <1>1 DEF ResolveAbsent, TypeOK, process, broker
<1>8. CASE Crash
  BY <1>0, <1>8, SpendTyped DEF Crash, TypeOK, Steps, durable, broker
<1>9. QED
  BY <1>2, <1>3, <1>4, <1>5, <1>6, <1>7, <1>8 DEF Monitor

\* What the broker, the market and the account's owner do keeps the types.
\* That no more shares are held than the entry bought bounds the position.
LEMMA EnvironmentTyped ==
    ASSUME TypeOK, RecordsAreTruthful, Environment PROVE TypeOK'
<1>0. order.filled \in 0..Quantity /\ position \in 0..order.filled
  BY Constants DEF TypeOK, EntryOrders, Shares, RecordsAreTruthful
<1>1. CASE Shown
  BY <1>1 DEF Shown, TypeOK, EntryOrders, OrderStatuses, OpenStatuses,
              process, durable
<1>2. CASE EntryFills
  <2>1. PICK more \in 1..(Quantity - order.filled) :
          /\ order' = [filled |-> order.filled + more,
                       status |-> IF order.filled + more = Quantity
                                  THEN "FILLED" ELSE "PARTIAL FILLED"]
          /\ position' = position + more
    BY <1>2 DEF EntryFills
  <2>2. order' \in EntryOrders /\ position' \in Shares
    <3>1. /\ order.filled + more \in Shares
          /\ position + more \in Shares
      BY <1>0, Constants DEF Shares
    <3>2. \A status \in {"FILLED", "PARTIAL FILLED"} :
             [filled |-> order.filled + more, status |-> status] \in EntryOrders
      BY <3>1 DEF EntryOrders, OrderStatuses, OpenStatuses, FinalStatuses
    <3>3. QED
      BY <2>1, <3>1, <3>2
  <2>3. QED
    BY <1>2, <2>2 DEF EntryFills, TypeOK, process, durable
<1>3. CASE EntryEnds
  BY <1>3 DEF EntryEnds, TypeOK, EntryOrders, OrderStatuses, FinalStatuses,
              process, durable
<1>4. CASE ExitFills
  <2>1. PICK id \in ActiveExits :
         \E more \in 1..(exits[id].qty - exits[id].filled) :
            /\ more <= position
            /\ exits' = [exits EXCEPT ![id].filled = @ + more,
                   ![id].status = IF exits[id].filled + more = exits[id].qty
                                  THEN "FILLED" ELSE "PARTIAL FILLED"]
            /\ position' = position - more
    BY <1>4 DEF ExitFills
  <2>2. PICK more \in 1..(exits[id].qty - exits[id].filled) :
            /\ more <= position
            /\ exits' = [exits EXCEPT ![id].filled = @ + more,
                   ![id].status = IF exits[id].filled + more = exits[id].qty
                                  THEN "FILLED" ELSE "PARTIAL FILLED"]
            /\ position' = position - more
    BY <2>1
  <2>3. id \in ExitIds /\ exits[id] \in ExitOrders
    BY DEF ActiveExits, TypeOK
  <2>4. ASSUME NEW status \in OrderStatuses
        PROVE  [exits EXCEPT ![id].filled = @ + more,
                             ![id].status = status]
                 \in [ExitIds -> ExitOrders]
    <3>1. exits[id].filled + more \in Shares
      BY <2>3, Constants DEF ExitOrders, Shares
    <3>2. QED
      BY <2>3, <3>1 DEF TypeOK, ExitOrders
  <2>5. exits' \in [ExitIds -> ExitOrders]
    <3>1. {"FILLED", "PARTIAL FILLED"} \subseteq OrderStatuses
      BY DEF OrderStatuses, OpenStatuses, FinalStatuses
    <3>2. CASE exits[id].filled + more = exits[id].qty
      BY <2>2, <2>4, <3>1, <3>2
    <3>3. CASE exits[id].filled + more # exits[id].qty
      BY <2>2, <2>4, <3>1, <3>3
    <3>4. QED
      BY <3>2, <3>3
  <2>6. position' \in Shares
    <3>1. exits[id].qty \in Nat /\ exits[id].filled \in Nat
      BY <2>3, Constants DEF ExitOrders, Shares
    <3>2. more \in Nat /\ position \in 0..Quantity
      BY <3>1, Constants DEF TypeOK, Shares
    <3>3. more <= position /\ position' = position - more
      BY <2>2, Zenon
    <3>4. QED
      BY <3>2, <3>3, Constants DEF Shares
  <2>7. QED
    BY <1>4, <2>5, <2>6 DEF ExitFills, TypeOK, process, durable
<1>5. ASSUME NEW id \in ActiveExits, Ended(id)
      PROVE  exits' \in [ExitIds -> ExitOrders]
  BY <1>5 DEF Ended, ActiveExits, TypeOK, ExitOrders, OrderStatuses,
              FinalStatuses
<1>6. CASE CancelLands
  BY <1>6, <1>5 DEF CancelLands, TypeOK, process, durable
<1>7. CASE ExitExpires
  BY <1>7, <1>5 DEF ExitExpires, TypeOK, process, durable
<1>8. CASE MarketCloses
  BY <1>8, SpendTyped DEF MarketCloses, TypeOK, process, durable
<1>9. CASE MarketOpens
  BY <1>9 DEF MarketOpens, TypeOK, process, durable
<1>10. CASE Outside
  <2>1. budget' \in Budgets
    BY <1>10, SpendTyped DEF Outside, TypeOK
  <2>2. exits' \in [ExitIds -> ExitOrders] /\ position' \in Shares
    BY <1>10, <1>5, Constants DEF Outside, TypeOK, Shares
  <2>3. QED
    BY <1>10, <2>1, <2>2 DEF Outside, TypeOK, process, durable
<1>11. QED
  BY <1>1, <1>2, <1>3, <1>4, <1>6, <1>7, <1>8, <1>9, <1>10 DEF Environment

\* Types hold at first, and every step keeps them.
LEMMA InitTyped == Init => TypeOK
<1>1. "none" \in OrderStatuses /\ 0 \in Shares /\ 0 \in 0..PollAttempts
  BY Constants DEF OrderStatuses, AbsentStatuses, Shares
<1>2. NoExit \in ExitOrders /\ [status |-> "none", filled |-> 0] \in EntryOrders
  BY <1>1 DEF NoExit, ExitOrders, EntryOrders
<1>3. [faults |-> MaxFaults, crashes |-> MaxCrashes,
       closes |-> MaxCloses, outside |-> MaxOutside] \in Budgets
  BY Constants DEF Budgets
<1>4. QED
  BY <1>1, <1>2, <1>3, NoRecordTyped DEF Init, TypeOK, Steps

\* Every step keeps the types, given true records.
LEMMA StepTyped ==
    ASSUME TypeOK, RecordsAreTruthful, [Next]_vars PROVE TypeOK'
<1>1. CASE UNCHANGED vars
  BY <1>1 DEF vars, process, durable, broker, TypeOK
<1>2. CASE Next
  BY <1>2, FillTyped, TargetTyped, ExitTyped, PassTyped, EnvironmentTyped
  DEF Next, Pass
<1>3. QED
  BY <1>1, <1>2

---------------------------------------------------------------------------
(* What the records may say, step by step.                                 *)

\* A record that may be written: one that exists, and is true.
Sayable(record) == /\ record \in Records
                   /\ Truthful(record) /\ record.state # "none"

\* Truth is about the state and the fill alone.
LEMMA SameTruth ==
    ASSUME NEW record, Sayable(record), NEW other \in Records,
           other.state = record.state, other.filled = record.filled,
           other.terminal = record.terminal
    PROVE  Sayable(other)
BY DEF Sayable, Truthful

\* A move is true unless it is to ENTRY_FAILED and shares may be bought.
LEMMA MoveTrue ==
    ASSUME NEW record, Sayable(record), NEW to \in AllStates,
           to = Failed => NeverBuys
    PROVE  Sayable(Move(record, to))
<1>1. Move(record, to) \in Records
  BY MoveTyped DEF Sayable
<1>2. /\ Move(record, to).state \in {to, Illegal}
      /\ Move(record, to).filled = record.filled
      /\ Move(record, to).terminal = record.terminal
  BY DEF Move, Sayable, Records
<1>3. Illegal # Failed /\ Illegal # "none" /\ to # "none"
  BY DEF Illegal, Failed, AllStates, Submitted, Partially, Filled, Pending,
         Confirmed, Unprotected, Closed, Unknown, Released, Linking
<1>4. QED
  BY <1>1, <1>2, <1>3 DEF Sayable, Truthful

\* What a step inside a pass leaves, when it says nothing false.
Continued == /\ pc \notin {"idle", "place", "absent_stop"}
             /\ Truthful(mem) /\ mem.state # "none"

\* A step of a pass changes neither the entry order nor the record on disk,
\* so what it leaves true of its own record is all there is to show.
LEMMA ContinuedStep ==
    ASSUME TypeOK, RecordsAreTruthful, Continued',
           UNCHANGED <<order, position, disk>>
    PROVE  RecordsAreTruthful'
BY DEF RecordsAreTruthful, Continued, Truthful, NeverBuys

\* Going on with a true record.
LEMMA GotoTrue ==
    ASSUME NEW step, step \notin {"idle", "place", "absent_stop"},
           NEW record, Sayable(record), Goto(step, record), UNCHANGED order
    PROVE  Continued'
BY DEF Goto, Continued, Sayable, Truthful, NeverBuys

\* Ending a pass with a true record; the stamp says nothing of the order.
LEMMA EndPassTrue ==
    ASSUME NEW record, Sayable(record), NEW failed \in BOOLEAN,
           EndPass(record, failed), UNCHANGED order
    PROVE  Continued'
<1>1. pc' \in {"poll", "save"}
  BY DEF EndPass
<1>2. [record EXCEPT !.failing = failed] \in Records
  BY DEF Records, Sayable
<1>3. Sayable([record EXCEPT !.failing = failed])
  BY <1>2, SameTruth DEF Sayable, Records
<1>4. mem' = record \/ mem' = [record EXCEPT !.failing = failed]
  BY DEF EndPass
<1>5. QED
  BY <1>1, <1>3, <1>4 DEF Continued, Sayable, Truthful, NeverBuys

\* A resize that raised goes on with a true record.
LEMMA ResizeFailsTrue ==
    ASSUME NEW record, Sayable(record), ResizeFails(record), UNCHANGED order
    PROVE  Continued'
BY DEF ResizeFails, Continued, Sayable, Truthful, NeverBuys

\* The position-absent checks hand over a true record.
LEMMA AfterAbsenceTrue ==
    ASSUME NEW record, Sayable(record), AfterAbsence(record), UNCHANGED order
    PROVE  Continued'
BY GotoTrue, EndPassTrue DEF AfterAbsence

\* The record a pass works on is true, and stays so under a change of the
\* fields that say nothing of the entry order.
LEMMA PassRecord ==
    ASSUME TypeOK, RecordsAreTruthful, pc # "idle" PROVE Sayable(mem)
BY DEF TypeOK, RecordsAreTruthful, Sayable

\* A stop placed under an id of its own is tracked without a false word.
LEMMA TrackingTrue ==
    ASSUME NEW record, Sayable(record), NEW id \in ExitIds, NEW qty \in Shares
    PROVE  Sayable(Tracking(record, id, qty))
<1>1. Tracking(record, id, qty) \in Records
  BY TrackingTyped DEF Sayable
<1>2. QED
  BY <1>1, SameTruth DEF Tracking, Sayable, Records

\* The answer to a poll makes a true record: final means final, and an order
\* that ended without a fill is ENTRY_FAILED.
LEMMA RefreshTrue ==
    ASSUME TypeOK, RecordsAreTruthful, pc = "poll", ~mem.terminal,
           NEW answer \in Answers(order), answer # NoAnswer
    PROVE  Sayable(Refresh(mem, answer))
<1>1. Sayable(mem) /\ answer.filled \in Shares
  BY PassRecord, AnswerTyped DEF TypeOK, EntryOrders
<1>2. ASSUME EntryFillIsFinal(answer.status)
      PROVE  /\ EntryFillIsFinal(order.status)
             /\ order.filled = answer.filled
  BY <1>2 DEF Answers, AnswerOf, NoAnswer, Blank, EntryFillIsFinal,
              FinalStatuses
<1>3. /\ Polled(mem, answer) \in Records
      /\ Polled(mem, answer).state = mem.state
      /\ Polled(mem, answer).filled = answer.filled
      /\ Polled(mem, answer).terminal => EntryFillIsFinal(answer.status)
  <2>1. ASSUME NEW terminal \in BOOLEAN
        PROVE  LET polled == [mem EXCEPT !.filled = answer.filled,
                                         !.terminal = terminal]
               IN /\ polled \in Records /\ polled.state = mem.state
                  /\ polled.filled = answer.filled
                  /\ polled.terminal = terminal
    BY <1>1, <2>1 DEF Sayable, Records
  <2>2. (mem.terminal \/ EntryFillIsFinal(answer.status)) \in BOOLEAN
    OBVIOUS
  <2>3. QED
    BY <2>1, <2>2, Zenon DEF Polled
<1>4. Sayable(Polled(mem, answer))
  BY <1>1, <1>2, <1>3 DEF Sayable, Truthful
<1>5. ASSUME Polled(mem, answer).terminal, ~(answer.filled > 0)
      PROVE  NeverBuys
  <2>1. answer.filled = 0
    BY <1>1, <1>5, Constants DEF Shares
  <2>2. QED
    BY <1>2, <1>3, <1>5, <2>1
    DEF NeverBuys, EntryFillIsFinal, FinalStatuses, OpenStatuses
<1>6. /\ {Partially, Filled, Failed} \subseteq AllStates
      /\ Partially # Failed /\ Filled # Failed
  BY DEF AllStates, Partially, Filled, Failed
<1>7. QED
  BY <1>4, <1>5, <1>6, MoveTrue DEF Refresh

\* Protecting a true record leaves a true one: it is failed only when the
\* entry order is final and bought nothing.
LEMMA ProtectTrue ==
    ASSUME NEW record, Sayable(record), Protect(record), UNCHANGED order
    PROVE  Continued'
<1>1. CASE record.filled = 0
  <2>1. record.terminal => NeverBuys
    BY <1>1 DEF Sayable, Truthful, NeverBuys, EntryFillIsFinal, FinalStatuses,
                OpenStatuses
  <2>2. Failed \in AllStates /\ FALSE \in BOOLEAN
    BY DEF AllStates
  <2>3. CASE record.terminal /\ record.state \notin TerminalStates
    BY <1>1, <2>1, <2>2, <2>3, MoveTrue, EndPassTrue DEF Protect
  <2>4. CASE ~(record.terminal /\ record.state \notin TerminalStates)
    <3>1. EndPass(record, FALSE)
      BY <1>1, <2>4 DEF Protect
    <3>2. QED
      BY <2>2, <3>1, EndPassTrue
  <2>5. QED
    BY <2>3, <2>4
<1>2. CASE record.filled # 0 /\ Steady(record)
  BY <1>2, EndPassTrue DEF Protect
<1>3. CASE record.filled # 0 /\ ~Steady(record)
  <2>1. {Filled, Pending} \subseteq AllStates /\ Filled # Failed
        /\ Pending # Failed
    BY DEF AllStates, Filled, Pending, Failed
  <2>2. Sayable(ToPending(record))
    BY <2>1, MoveTrue DEF ToPending
  <2>3. Goto("resize", ToPending(record))
    BY <1>3 DEF Protect
  <2>4. QED
    BY <2>2, <2>3, GotoTrue
<1>4. QED
  BY <1>1, <1>2, <1>3

\* The steps of the fill-and-protect pass keep the records true.
LEMMA FillTrue ==
    ASSUME TypeOK, RecordsAreTruthful, Fill PROVE RecordsAreTruthful'
<1>0. /\ Sayable(mem) /\ TRUE \in BOOLEAN
      /\ {Confirmed, Unprotected} \subseteq AllStates
      /\ Confirmed # Failed /\ Unprotected # Failed
  BY PassRecord DEF Fill, PollEntry, Resize, CancelForResize, RecheckForResize,
     ReplaceStop, Confirm, AllStates, Confirmed, Unprotected, Failed
<1>1. CASE PollEntry
  <2>1. CASE mem.terminal /\ Protect(mem)
    BY <1>0, <1>1, <2>1, ProtectTrue, ContinuedStep DEF PollEntry, broker, durable
  <2>2. ASSUME ~mem.terminal, NEW answer \in Answers(order),
               IF answer = NoAnswer THEN EndPass(mem, TRUE)
               ELSE Protect(Refresh(mem, answer))
        PROVE  RecordsAreTruthful'
    <3>1. UNCHANGED <<order, position, disk>> /\ pc = "poll"
      BY <1>1 DEF PollEntry, broker, durable
    <3>2. CASE answer = NoAnswer
      BY <1>0, <2>2, <3>1, <3>2, EndPassTrue, ContinuedStep
    <3>3. CASE answer # NoAnswer
      BY <2>2, <3>1, <3>3, RefreshTrue, ProtectTrue, ContinuedStep
    <3>4. QED
      BY <3>2, <3>3
  <2>3. QED
    BY <1>1, <2>1, <2>2 DEF PollEntry
<1>2. CASE Resize \/ CancelForResize \/ RecheckForResize
  <2>1. UNCHANGED <<order, position, disk>>
    BY <1>2 DEF Resize, CancelForResize, RecheckForResize, broker, durable
  <2>2. ResizeFails(mem) \/ \E step \in {"confirm", "replace", "cancel", "recheck"} :
                               Goto(step, mem)
    BY <1>2 DEF Resize, CancelForResize, RecheckForResize
  <2>3. QED
    BY <1>0, <2>1, <2>2, GotoTrue, ResizeFailsTrue, ContinuedStep
<1>3. CASE ReplaceStop
  <2>1. PICK ok \in BOOLEAN :
           /\ Placed(NextStop, mem.filled, ok)
           /\ IF ok THEN Goto("confirm", Tracking(mem, NextStop, mem.filled))
              ELSE IF pc = "replace" THEN Goto("replace_again", mem)
              ELSE ResizeFails([mem EXCEPT !.gap = @ \/ mem.stopId # NoId])
    BY <1>3 DEF ReplaceStop
  <2>2. UNCHANGED <<order, position, disk>>
    BY <1>3 DEF ReplaceStop, durable
  <2>3. ok => Sayable(Tracking(mem, NextStop, mem.filled))
    <3>1. ok => NextStop \in ExitIds
      BY <2>1, PlacedTyped
    <3>2. mem \in Records /\ mem.filled \in Shares
      BY DEF TypeOK, Records
    <3>3. QED
      BY <1>0, <3>1, <3>2, TrackingTrue
  <2>4. Sayable([mem EXCEPT !.gap = @ \/ mem.stopId # NoId])
    <3>1. ASSUME NEW gap \in BOOLEAN
          PROVE  Sayable([mem EXCEPT !.gap = gap])
      <4>1. [mem EXCEPT !.gap = gap] \in Records
        BY <1>0, <3>1 DEF Sayable, Records
      <4>2. QED
        BY <1>0, <4>1, SameTruth DEF Sayable, Records
    <3>2. (mem.gap \/ mem.stopId # NoId) \in BOOLEAN
      OBVIOUS
    <3>3. QED
      BY <3>1, <3>2, Zenon
  <2>5. QED
    BY <1>0, <2>1, <2>2, <2>3, <2>4, GotoTrue, ResizeFailsTrue, ContinuedStep
<1>4. CASE Confirm
  <2>1. UNCHANGED <<order, position, disk>> /\ raised \in BOOLEAN
    BY <1>4 DEF Confirm, TypeOK, broker, durable
  <2>2. CASE EndPass(Move(mem, Unprotected), raised)
    BY <1>0, <2>1, <2>2, MoveTrue, EndPassTrue, ContinuedStep
  <2>3. CASE EndPass(Move([mem EXCEPT !.gap = FALSE], Confirmed), raised)
    <3>1. [mem EXCEPT !.gap = FALSE] \in Records
      BY DEF TypeOK, Records
    <3>2. Sayable([mem EXCEPT !.gap = FALSE])
      BY <1>0, <3>1, SameTruth DEF Sayable, Records
    <3>3. QED
      BY <1>0, <2>1, <2>3, <3>2, MoveTrue, EndPassTrue, ContinuedStep
  <2>4. ASSUME NEW answer,
               EndPass(Move([mem EXCEPT !.stopQty =
                               IF ProtectiveLegIsDead(answer.status)
                               THEN 0 ELSE @], Unprotected), raised)
        PROVE  RecordsAreTruthful'
    <3>1. [mem EXCEPT !.stopQty = IF ProtectiveLegIsDead(answer.status)
                                  THEN 0 ELSE @] \in Records
      BY Constants DEF TypeOK, Records, Shares
    <3>2. Sayable([mem EXCEPT !.stopQty = IF ProtectiveLegIsDead(answer.status)
                                          THEN 0 ELSE @])
      BY <1>0, <3>1, SameTruth DEF Sayable, Records
    <3>3. QED
      BY <1>0, <2>1, <2>4, <3>2, MoveTrue, EndPassTrue, ContinuedStep
  <2>5. QED
    BY <1>4, <2>2, <2>3, <2>4 DEF Confirm
<1>5. QED
  BY <1>1, <1>2, <1>3, <1>4 DEF Fill

\* The steps of the target exit keep the records true.
LEMMA TargetTrue ==
    ASSUME TypeOK, RecordsAreTruthful, Target PROVE RecordsAreTruthful'
<1>0. Sayable(mem) /\ TRUE \in BOOLEAN /\ FALSE \in BOOLEAN
  BY PassRecord DEF Target, CheckTarget, CancelForTarget, RecheckForTarget,
     SellAtTarget, RestoreStop, PollSell
<1>1. UNCHANGED <<order, position, disk>>
  BY DEF Target, CheckTarget, CancelForTarget, RecheckForTarget, SellAtTarget,
         RestoreStop, PollSell, broker, durable
<1>2. SUFFICES Continued'
  BY <1>1, ContinuedStep
<1>3. CASE CheckTarget \/ CancelForTarget
  BY <1>0, <1>1, <1>3, GotoTrue, EndPassTrue DEF CheckTarget, CancelForTarget
<1>4. CASE RecheckForTarget
  <2>1. [mem EXCEPT !.sell = NextAttempt(@)] \in Records
    BY NextAttemptTyped DEF TypeOK, Records
  <2>2. Sayable([mem EXCEPT !.sell = NextAttempt(@)])
    BY <1>0, <2>1, SameTruth DEF Sayable, Records
  <2>3. QED
    BY <1>0, <1>1, <1>4, <2>2, GotoTrue, EndPassTrue DEF RecheckForTarget
<1>5. CASE SellAtTarget
  BY <1>0, <1>1, <1>5, GotoTrue DEF SellAtTarget
<1>6. CASE RestoreStop
  <2>1. PICK ok \in BOOLEAN :
           /\ Placed(NextStop, StopSize(mem), ok)
           /\ EndPass(IF ok THEN Tracking(mem, NextStop, StopSize(mem))
                      ELSE mem, TRUE)
    BY <1>6 DEF RestoreStop
  <2>2. ok => NextStop \in ExitIds
    BY <2>1, PlacedTyped
  <2>3. StopSize(mem) \in Shares
    BY StopSizeTyped DEF TypeOK
  <2>4. ok => Sayable(Tracking(mem, NextStop, StopSize(mem)))
    BY <1>0, <2>2, <2>3, TrackingTrue
  <2>5. QED
    BY <1>0, <1>1, <2>1, <2>4, EndPassTrue
<1>7. CASE PollSell
  <2>1. Closed \in AllStates /\ Closed # Failed
    BY DEF AllStates, Closed, Failed
  <2>2. QED
    BY <1>0, <1>1, <1>7, <2>1, MoveTrue, EndPassTrue DEF PollSell
<1>8. QED
  BY <1>3, <1>4, <1>5, <1>6, <1>7 DEF Target

\* The steps of the exit pass and of the rearming keep the records true. A
\* partial exit shrinks the fill on the record, but never to nothing.
LEMMA ExitTrue ==
    ASSUME TypeOK, RecordsAreTruthful, Exit PROVE RecordsAreTruthful'
<1>0. Sayable(mem) /\ TRUE \in BOOLEAN /\ FALSE \in BOOLEAN
  BY PassRecord DEF Exit, CheckExit, CheckAbsence, CheckAbsentStop, Rearm,
     RearmIfHeld, PlaceRearmed
<1>1. UNCHANGED <<order, position, disk>>
  BY DEF Exit, CheckExit, CheckAbsence, CheckAbsentStop, Rearm, RearmIfHeld,
         PlaceRearmed, broker, durable
<1>2. ASSUME NEW n \in 0..ConfirmPasses
      PROVE  Sayable([mem EXCEPT !.absent = n])
  <2>1. [mem EXCEPT !.absent = n] \in Records
    BY DEF TypeOK, Records
  <2>2. QED
    BY <1>0, <2>1, SameTruth DEF Sayable, Records
<1>3. CASE CheckExit
  <2>1. Closed \in AllStates /\ Closed # Failed
        /\ Pending \in AllStates /\ Pending # Failed
    BY DEF AllStates, Closed, Pending, Failed
  <2>2. CASE Goto("absent", mem)
    BY <1>0, <1>1, <2>2, GotoTrue, ContinuedStep
  <2>3. CASE EndPass(mem, TRUE)
    BY <1>0, <1>1, <2>3, EndPassTrue, ContinuedStep
  <2>4. CASE EndPass(Move(mem, Closed), FALSE)
    BY <1>0, <1>1, <2>1, <2>4, MoveTrue, EndPassTrue, ContinuedStep
  <2>5. ASSUME NEW answer, mem.stopId # NoId,
               answer \in Answers(exits[mem.stopId]),
               Remaining(mem, answer.filled) # 0,
               Goto("confirm", Move([mem EXCEPT
                        !.stopQty = Remaining(mem, answer.filled),
                        !.filled = Remaining(mem, answer.filled)], Pending))
        PROVE  RecordsAreTruthful'
    <3>1. answer.filled \in Shares
      BY <2>5, StopIsId, AnswerTyped DEF ExitOrders
    <3>2. Remaining(mem, answer.filled) \in Shares \ {0}
      BY <1>0, <2>5, <3>1, StopSizeTyped, Constants
      DEF Remaining, Shares, Sayable
    <3>3. ASSUME NEW left \in Shares \ {0}
          PROVE  Sayable([mem EXCEPT !.stopQty = left, !.filled = left])
      <4>1. [mem EXCEPT !.stopQty = left, !.filled = left] \in Records
        BY DEF TypeOK, Records
      <4>2. QED
        BY <1>0, <4>1 DEF Sayable, Truthful, Records
    <3>4. QED
      BY <1>1, <2>1, <2>5, <3>2, <3>3, MoveTrue, GotoTrue, ContinuedStep
  <2>6. QED
    BY <1>3, <2>2, <2>3, <2>4, <2>5 DEF CheckExit
<1>4. CASE CheckAbsence
  <2>1. 0 \in 0..ConfirmPasses
    BY Constants
  <2>2. CASE \E record \in {mem, [mem EXCEPT !.absent = 0]} : AfterAbsence(record)
    BY <1>0, <1>1, <1>2, <2>1, <2>2, AfterAbsenceTrue, ContinuedStep
  <2>3. CASE Goto("absent_stop", mem) /\ ~Flagged(mem)
    BY <1>0, <1>1, <2>3
    DEF RecordsAreTruthful, Goto, Sayable, Truthful, NeverBuys, Flagged
  <2>4. QED
    BY <1>4, <2>2, <2>3 DEF CheckAbsence
<1>5. CASE CheckAbsentStop
  <2>1. mem.absent + 1 \in 0..ConfirmPasses /\ 0 \in 0..ConfirmPasses
    BY <1>5, Constants
    DEF RecordsAreTruthful, CheckAbsentStop, Flagged, Records, TypeOK
  <2>2. CASE AfterAbsence([mem EXCEPT !.absent = @ + 1])
    BY <1>1, <1>2, <2>1, <2>2, AfterAbsenceTrue, ContinuedStep
  <2>3. CASE AfterAbsence([mem EXCEPT !.absent = 0])
    BY <1>1, <1>2, <2>1, <2>3, AfterAbsenceTrue, ContinuedStep
  <2>4. QED
    BY <1>5, <2>2, <2>3 DEF CheckAbsentStop
<1>6. CASE Rearm
  BY <1>0, <1>1, <1>6, GotoTrue, EndPassTrue, ContinuedStep DEF Rearm
<1>7. CASE RearmIfHeld
  <2>1. [mem EXCEPT !.rearm = NextAttempt(@)] \in Records
    BY NextAttemptTyped DEF TypeOK, Records
  <2>2. Sayable([mem EXCEPT !.rearm = NextAttempt(@)])
    BY <1>0, <2>1, SameTruth DEF Sayable, Records
  <2>3. QED
    BY <1>0, <1>1, <1>7, <2>2, GotoTrue, EndPassTrue, ContinuedStep
    DEF RearmIfHeld
<1>8. CASE PlaceRearmed
  <2>1. PICK ok \in BOOLEAN, qty \in seen :
           /\ Placed(<<"stop_rearm", mem.rearm>>, qty, ok)
           /\ EndPass(IF ok THEN [mem EXCEPT
                                    !.stopId = <<"stop_rearm", mem.rearm>>,
                                    !.stopQty = qty]
                      ELSE mem, ~ok)
    BY <1>8 DEF PlaceRearmed
  <2>2. qty \in Shares
    BY DEF TypeOK
  <2>3. (~ok) \in BOOLEAN
    OBVIOUS
  <2>4. ok => <<"stop_rearm", mem.rearm>> \in ExitIds
    BY <2>1, PlacedTyped
  <2>5. ASSUME NEW id \in ExitIds
        PROVE  Sayable([mem EXCEPT !.stopId = id, !.stopQty = qty])
    <3>1. [mem EXCEPT !.stopId = id, !.stopQty = qty] \in Records
      BY <2>2, <2>5 DEF TypeOK, Records
    <3>2. QED
      BY <1>0, <3>1, SameTruth DEF Sayable, Records
  <2>6. QED
    BY <1>0, <1>1, <2>1, <2>3, <2>4, <2>5, EndPassTrue, ContinuedStep
<1>9. QED
  BY <1>3, <1>4, <1>5, <1>6, <1>7, <1>8 DEF Exit

\* The steps that begin and end a pass keep the records true.
LEMMA PassTrue ==
    ASSUME TypeOK, RecordsAreTruthful,
           PlaceEntry \/ Save \/ Monitor \/ Submit \/ ResolveAbsent \/ Crash
    PROVE  RecordsAreTruthful'
<1>0. /\ mem \in Records /\ disk \in Records /\ order \in EntryOrders
      /\ Truthful(NoRecord) /\ NoRecord.state = "none"
      /\ {Failed, Unknown, Submitted, Closed} \subseteq AllStates
      /\ Failed \notin {Unknown, Submitted, Closed}
      /\ "none" \notin {Failed, Unknown, Submitted, Closed}
  BY DEF TypeOK, Truthful, NoRecord, AllStates, Failed, Unknown, Submitted,
         Closed
<1>1. ASSUME NEW status \in {"SUBMITTED", "inflight"}
      PROVE  /\ [order EXCEPT !.status = status].status = status
             /\ [order EXCEPT !.status = status].filled = order.filled
  BY <1>0 DEF EntryOrders
<1>2. disk.state # "none" => Sayable(disk)
  BY <1>0 DEF RecordsAreTruthful, Sayable
<1>3. order.status = "none" => NeverBuys
  BY DEF RecordsAreTruthful, NeverBuys, AbsentStatuses, OpenStatuses
<1>4. CASE PlaceEntry
  <2>1. /\ Sayable(mem) /\ mem.state = Submitted /\ disk.state = Submitted
        /\ order.status = "none" /\ order.filled = 0 /\ position <= 0
    BY <1>0, <1>4
    DEF PlaceEntry, RecordsAreTruthful, Sayable, AbsentStatuses
  <2>2. ASSUME NEW record \in {mem, disk} PROVE ~record.terminal
    BY <2>1, <2>2 DEF RecordsAreTruthful, Truthful, EntryFillIsFinal,
                      FinalStatuses
  <2>3. /\ disk' = disk /\ position' = position /\ order'.filled = 0
        /\ order'.status \in {"none", "SUBMITTED", "inflight"}
    BY <1>4, <1>1, <2>1 DEF PlaceEntry, durable
  <2>4. /\ Sayable(Move(mem, Unknown))
        /\ Move(mem, Unknown).state # Failed
        /\ ~Move(mem, Unknown).terminal
    <3>1. Sayable(Move(mem, Unknown))
      BY <1>0, <2>1, MoveTrue
    <3>2. /\ Move(mem, Unknown).state \in {Unknown, Illegal}
          /\ Move(mem, Unknown).terminal = mem.terminal
      BY <1>0 DEF Move, Records
    <3>3. Illegal # Failed
      BY DEF Illegal, Failed
    <3>4. QED
      BY <1>0, <2>2, <3>1, <3>2, <3>3
  <2>5. CASE Goto("poll", mem) \/ Goto("save", Move(mem, Unknown))
    BY <1>0, <2>1, <2>2, <2>3, <2>4, <2>5
    DEF Goto, RecordsAreTruthful, Truthful, Sayable
  <2>6. CASE Goto("save", Move(mem, Failed)) /\ UNCHANGED order
    <3>1. Sayable(Move(mem, Failed))
      BY <1>0, <1>3, <2>1, MoveTrue
    <3>2. Continued'
      BY <2>6, <3>1, GotoTrue
    <3>3. QED
      BY <2>3, <2>6, <3>2, ContinuedStep
  <2>7. QED
    BY <1>4, <2>5, <2>6 DEF PlaceEntry
<1>5. CASE Save
  BY <1>0, <1>5 DEF Save, RecordsAreTruthful, Truthful, NeverBuys, broker
<1>6. CASE MonitorBegin
  <2>1. Sayable(disk)
    BY <1>6, <1>2 DEF MonitorBegin, FillMonitoringStates, MonitorResumableStates,
       Submitted, Partially, Filled, Pending, Unprotected, Confirmed
  <2>2. pc' \in {"target", "stuck", "poll"}
    BY <1>6 DEF MonitorBegin
  <2>3. mem' = disk /\ UNCHANGED <<order, position, disk>>
    BY <1>6 DEF MonitorBegin, durable, broker
  <2>4. Continued'
    BY <2>1, <2>2, <2>3 DEF Continued, Sayable, Truthful, NeverBuys
  <2>5. QED
    BY <2>3, <2>4, ContinuedStep
<1>7. CASE ReconcileUnknown
  <2>1. Sayable(disk)
    BY <1>7, <1>2 DEF ReconcileUnknown, Unknown
  <2>2. UNCHANGED <<order, position, disk>> /\ pc' \in {"save", "poll"}
    BY <1>7 DEF ReconcileUnknown, durable, broker
  <2>3. Sayable(Rejected(disk))
    <3>1. [disk EXCEPT !.rejections =
             IF @ < MinRejections THEN @ + 1 ELSE @] \in Records
      BY <1>0, Constants DEF Records
    <3>2. Sayable([disk EXCEPT !.rejections =
             IF @ < MinRejections THEN @ + 1 ELSE @])
      BY <1>0, <2>1, <3>1, SameTruth DEF Records
    <3>3. QED
      BY <1>0, <1>3, <2>1, <3>2, MoveTrue DEF Rejected
  <2>4. Sayable(Move(disk, Unknown)) /\ Sayable(Move(disk, Submitted))
    BY <1>0, <2>1, MoveTrue
  <2>5. mem' \in {Rejected(disk), Move(disk, Unknown), Move(disk, Submitted)}
    BY <1>7 DEF ReconcileUnknown
  <2>6. Continued'
    BY <2>2, <2>3, <2>4, <2>5 DEF Continued, Sayable, Truthful, NeverBuys
  <2>7. QED
    BY <2>2, <2>6, ContinuedStep
<1>8. CASE Submit
  <2>1. order.status = "none" /\ UNCHANGED <<order, position>>
    BY <1>0, <1>8 DEF Submit, RecordsAreTruthful, broker
  <2>2. Sayable([NoRecord EXCEPT !.state = Submitted])
    <3>1. [NoRecord EXCEPT !.state = Submitted] \in Records
      BY <1>0, NoRecordTyped DEF Records
    <3>2. QED
      BY <1>0, <3>1 DEF Sayable, Truthful, NoRecord
  <2>3. CASE /\ disk' = [NoRecord EXCEPT !.state = Submitted]
             /\ mem' = disk' /\ pc' = "place"
    <3>1. disk'.state = Submitted
      BY <2>3 DEF NoRecord
    <3>2. QED
      BY <1>0, <2>1, <2>2, <2>3, <3>1
      DEF RecordsAreTruthful, Sayable, Truthful, NeverBuys
  <2>4. CASE /\ disk' = disk /\ pc' = "save"
             /\ mem' = Move([NoRecord EXCEPT !.state = Submitted], Failed)
    <3>1. Sayable(Move([NoRecord EXCEPT !.state = Submitted], Failed))
      BY <1>0, <1>3, <2>1, <2>2, MoveTrue
    <3>2. Continued'
      BY <2>1, <2>4, <3>1 DEF Continued, Sayable, Truthful, NeverBuys
    <3>3. QED
      BY <2>1, <2>4, <3>2, ContinuedStep
  <2>5. QED
    BY <1>8, <2>3, <2>4 DEF Submit
<1>9. CASE ResolveAbsent
  <2>1. Sayable(disk)
    BY <1>9, <1>2 DEF ResolveAbsent, Unprotected, Confirmed
  <2>2. Sayable(Move(disk, Closed))
    BY <1>0, <2>1, MoveTrue
  <2>3. /\ disk' = Move(disk, Closed) /\ pc' = "idle" /\ mem' = mem
        /\ UNCHANGED <<order, position>>
    BY <1>9 DEF ResolveAbsent, process, broker
  <2>4. QED
    BY <2>2, <2>3 DEF RecordsAreTruthful, Sayable, Truthful, NeverBuys
<1>10. CASE Crash
  BY <1>0, <1>10 DEF Crash, RecordsAreTruthful, Truthful, NeverBuys, durable,
                    broker
<1>11. QED
  BY <1>4, <1>5, <1>6, <1>7, <1>8, <1>9, <1>10 DEF Monitor

\* The broker shows, fills and ends the entry order only while it is open, so
\* nothing a record has said of its end becomes false; a fill adds to the
\* position no more than it adds to the order.
LEMMA EnvironmentTrue ==
    ASSUME TypeOK, RecordsAreTruthful, Environment PROVE RecordsAreTruthful'
<1>0. order \in EntryOrders /\ order.filled \in Nat /\ position \in Nat
  BY Constants DEF TypeOK, EntryOrders, Shares
<1>1. ASSUME order.status \in OpenStatuses \union {"inflight"},
             order'.status \notin AbsentStatuses,
             position' <= order'.filled, UNCHANGED <<process, durable>>
      PROVE  RecordsAreTruthful'
  <2>1. /\ ~EntryFillIsFinal(order.status) /\ ~NeverBuys
        /\ order.status # "none"
    BY <1>1 DEF EntryFillIsFinal, FinalStatuses, OpenStatuses, NeverBuys
  <2>2. ASSUME NEW record \in {mem, disk}
        PROVE  ~record.terminal /\ record.state # Failed
    BY <2>1, <2>2 DEF RecordsAreTruthful, Truthful
  <2>3. QED
    BY <1>1, <2>1, <2>2
    DEF RecordsAreTruthful, Truthful, process, durable, Flagged
<1>2. ASSUME position' <= position, position' \in Nat,
             UNCHANGED <<process, durable, order>>
      PROVE  RecordsAreTruthful'
  BY <1>0, <1>2
  DEF RecordsAreTruthful, Truthful, NeverBuys, process, durable, Flagged
<1>3. CASE Shown
  BY <1>0, <1>1, <1>3
  DEF Shown, EntryOrders, AbsentStatuses, RecordsAreTruthful
<1>4. CASE EntryFills
  <2>1. PICK more \in 1..(Quantity - order.filled) :
          /\ order' = [filled |-> order.filled + more,
                       status |-> IF order.filled + more = Quantity
                                  THEN "FILLED" ELSE "PARTIAL FILLED"]
          /\ position' = position + more
    BY <1>4 DEF EntryFills
  <2>2. position' <= order'.filled /\ order'.status \notin AbsentStatuses
    <3>1. position + more <= order.filled + more
      BY <1>0, Constants DEF RecordsAreTruthful
    <3>2. /\ order'.filled = order.filled + more
          /\ order'.status \in {"FILLED", "PARTIAL FILLED"}
          /\ position' = position + more
      BY <2>1, Zenon
    <3>3. QED
      BY <3>1, <3>2 DEF AbsentStatuses
  <2>3. QED
    BY <1>1, <1>4, <2>2 DEF EntryFills
<1>5. CASE EntryEnds
  BY <1>0, <1>1, <1>5
  DEF EntryEnds, EntryOrders, AbsentStatuses, RecordsAreTruthful
<1>6. CASE ExitFills
  <2>1. PICK id \in ActiveExits :
         \E more \in 1..(exits[id].qty - exits[id].filled) :
            more <= position /\ position' = position - more
    BY <1>6 DEF ExitFills
  <2>2. exits[id].qty \in Nat /\ exits[id].filled \in Nat
    BY Constants DEF ActiveExits, TypeOK, ExitOrders, Shares
  <2>3. position' <= position /\ position' \in Nat
    BY <1>0, <2>1, <2>2
  <2>4. QED
    BY <1>2, <1>6, <2>3 DEF ExitFills
<1>7. CASE CancelLands \/ ExitExpires \/ MarketCloses \/ MarketOpens
  BY <1>0, <1>2, <1>7 DEF CancelLands, ExitExpires, MarketCloses, MarketOpens
<1>8. CASE Outside
  BY <1>0, <1>2, <1>8 DEF Outside
<1>9. QED
  BY <1>3, <1>4, <1>5, <1>6, <1>7, <1>8 DEF Environment

\* Records are true at first, and every step keeps them so.
LEMMA InitTrue == Init => RecordsAreTruthful
BY Constants
DEF Init, RecordsAreTruthful, Truthful, NoRecord, Failed, Flagged

\* Every step keeps the records true.
LEMMA StepTrue ==
    ASSUME TypeOK, RecordsAreTruthful, [Next]_vars PROVE RecordsAreTruthful'
<1>1. CASE UNCHANGED vars
  BY <1>1 DEF vars, process, durable, broker, RecordsAreTruthful, Truthful,
              NeverBuys, Flagged
<1>2. CASE Next
  BY <1>2, FillTrue, TargetTrue, ExitTrue, PassTrue, EnvironmentTrue
  DEF Next, Pass
<1>3. QED
  BY <1>1, <1>2

---------------------------------------------------------------------------
(* The books: what a record claims to have bought was bought, and what is  *)
(* closed is in the journal and has gone.                                  *)

\* States that a record reaches with its first fill.
Owned == {Partially, Filled, Pending, Confirmed, Unprotected, Closed}

Booked(record) ==
    /\ record.state \in Owned \/ record.filled > 0 => order.filled > 0
    /\ record.state = Closed => traded /\ Parted

\* The inductive invariant. Until shares went, the position is what the entry
\* order bought; and no pass is under way on a record that has ended.
BooksAreTrue ==
    /\ Booked(mem) /\ Booked(disk)
    /\ order.status = "PARTIAL FILLED" => order.filled > 0
    /\ \A id \in ExitIds : exits[id].filled > 0 => order.filled > 0
    /\ ~Parted => position = order.filled
    /\ pc = "sell_poll" => SellId(mem) \in ExitIds
    /\ pc # "idle" => disk.state \notin {Failed, Closed}
    /\ disk.state = "none" => pc = "idle" \/ (pc = "save" /\ mem.state = Failed)

\* The states are different.
LEMMA Distinct ==
    /\ Owned \subseteq AllStates /\ Closed \in Owned /\ "none" \notin AllStates
    /\ Illegal \notin AllStates
    /\ {Failed, Submitted, Unknown, Linking, Released} \cap Owned = {}
    /\ {Failed, Submitted, Unknown, Linking, Released} \subseteq AllStates
    /\ Closed \notin {Failed, Partially, Filled, Pending, Confirmed, Unprotected}
BY DEF Owned, AllStates, Illegal, Submitted, Partially, Filled, Pending, Confirmed,
       Unprotected, Closed, Unknown, Released, Linking, Failed

\* Only a record that has seen a fill moves on to a state after the first.
LEMMA FromOwned ==
    ASSUME NEW from \in AllStates, NEW to \in Owned \ {Partially, Filled},
           to \in ValidTransitions[from]
    PROVE  from \in Owned
BY DEF ValidTransitions, Owned, AllStates, Submitted, Partially, Filled, Pending, Confirmed,
       Unprotected, Closed, Unknown, Released, Linking, Failed, TerminalStates

\* A move keeps the books true, unless it claims a first fill that was not, or
\* closes what has not gone.
LEMMA MoveBooked ==
    ASSUME NEW record \in Records, Booked(record), NEW to \in AllStates,
           to \in {Partially, Filled} => order.filled > 0,
           to = Closed => traded /\ Parted
    PROVE  Booked(Move(record, to)) /\ Move(record, to) \in Records
<1> DEFINE moved == Move(record, to)
<1>1. /\ moved.filled = record.filled
      /\ \/ moved.state = Illegal
         \/ /\ moved.state = to /\ record.state \in AllStates
            /\ to \in ValidTransitions[record.state]
  BY DEF Move, Records
<1>2. moved \in Records
  BY MoveTyped
<1> SUFFICES Booked(moved)
  BY <1>2
<1> HIDE DEF moved
<1>3. CASE moved.state = Illegal
  BY <1>1, <1>3, Distinct DEF Booked
<1>4. CASE /\ moved.state = to /\ record.state \in AllStates
           /\ to \in ValidTransitions[record.state]
  <2>1. to \in Owned => order.filled > 0
    BY <1>4, FromOwned DEF Booked
  <2> QED BY <1>1, <1>4, <2>1 DEF Booked
<1> QED BY <1>1, <1>3, <1>4

\* The books are about the state and the fill.
LEMMA SameBooks ==
    ASSUME NEW record, Booked(record), NEW other,
           other.state = record.state, other.filled = record.filled
    PROVE  Booked(other)
BY DEF Booked

\* A step of a pass that neither writes a record nor changes what was traded.
Quiet ==
    /\ UNCHANGED <<disk, order, position, traded>>
    /\ \A id \in ExitIds : exits'[id].filled = exits[id].filled
    /\ budget'.outside = budget.outside

\* How a step inside a pass leaves the process.
Onwards == pc' \notin {"idle", "sell_poll"} /\ Booked(mem')

LEMMA QuietStep ==
    ASSUME BooksAreTrue, Quiet, pc \notin {"idle", "save"}, Onwards
    PROVE  BooksAreTrue'
<1>1. Parted' <=> Parted
  BY DEF Parted, Quiet
<1> QED BY <1>1 DEF BooksAreTrue, Quiet, Onwards, Booked

LEMMA GotoBooked ==
    ASSUME NEW record, Booked(record), NEW step, step \notin {"idle", "sell_poll"},
           Goto(step, record)
    PROVE  Onwards
BY DEF Goto, Onwards

LEMMA EndPassBooked ==
    ASSUME NEW record \in Records, Booked(record), NEW failed \in BOOLEAN,
           EndPass(record, failed)
    PROVE  Onwards
<1>1. Booked([record EXCEPT !.failing = failed])
  BY SameBooks DEF Records
<1> QED BY <1>1 DEF EndPass, Onwards

LEMMA ResizeFailsBooked ==
    ASSUME NEW record, Booked(record), ResizeFails(record)
    PROVE  Onwards
BY DEF ResizeFails, Onwards

LEMMA AfterAbsenceBooked ==
    ASSUME NEW record \in Records, Booked(record), AfterAbsence(record)
    PROVE  Onwards
BY GotoBooked, EndPassBooked DEF AfterAbsence

\* A true answer of the entry order, or a lost one, tells of no fill that was not.
LEMMA RefreshBooked ==
    ASSUME TypeOK, BooksAreTrue, NEW answer \in Answers(order)
    PROVE  Booked(Refresh(mem, answer)) /\ Refresh(mem, answer) \in Records
<1> DEFINE polled == Polled(mem, answer)
<1>1. /\ answer.filled \in Nat /\ (answer.filled > 0 => order.filled > 0)
      /\ answer.status = "PARTIAL FILLED" => order.filled > 0
  <2>1. CASE answer = AnswerOf(order) /\ order.status \notin AbsentStatuses
    <3>1. order.filled \in Nat
      BY Constants DEF TypeOK, EntryOrders, Shares
    <3>2. answer.filled = order.filled /\ answer.status = order.status
      BY <2>1 DEF AnswerOf
    <3> QED BY <3>1, <3>2 DEF BooksAreTrue
  <2>2. CASE answer \in {NoAnswer, Blank}
    <3>1. answer.filled = 0 /\ answer.status \in {"raised", "UNKNOWN"}
      BY <2>2 DEF NoAnswer, Blank
    <3>2. answer.filled \in Nat /\ ~ (answer.filled > 0)
      BY <3>1
    <3>3. answer.status # "PARTIAL FILLED"
      BY <3>1
    <3> QED BY <3>2, <3>3
  <2> QED BY <2>1, <2>2 DEF Answers, AnswerOf
<1>2. answer.filled \in Shares
  BY AnswerTyped DEF TypeOK, EntryOrders
<1>3. polled \in Records /\ polled.state = mem.state /\ polled.filled = answer.filled
  BY <1>2 DEF Polled, TypeOK, Records
<1>4. Booked(polled)
  BY <1>1, <1>3 DEF BooksAreTrue, Booked
<1> HIDE DEF polled
<1>5. /\ Partially \in AllStates /\ Filled \in AllStates /\ Failed \in AllStates
      /\ Failed \notin {Partially, Filled, Closed} /\ Closed \notin {Partially, Filled}
  BY Distinct DEF Owned
<1>6. Refresh(mem, answer) \in {polled, Move(polled, Failed)} \/
      (order.filled > 0 /\ Refresh(mem, answer) \in {Move(polled, Partially), Move(polled, Filled)})
  BY <1>1 DEF Refresh, polled
<1> QED BY <1>3, <1>4, <1>5, <1>6, MoveBooked

LEMMA ProtectBooked ==
    ASSUME NEW record \in Records, Booked(record), Protect(record)
    PROVE  Onwards
<1>1. /\ {Filled, Pending, Failed} \subseteq AllStates
      /\ Failed \notin {Partially, Filled, Closed} /\ Pending \notin {Partially, Filled, Closed}
      /\ Filled # Closed
  BY Distinct DEF Owned, AllStates, Submitted, Partially, Filled, Pending, Confirmed, Unprotected, Closed
<1>2. CASE record.filled = 0
  BY <1>1, <1>2, MoveBooked, EndPassBooked DEF Protect
<1>3. CASE record.filled # 0 /\ Steady(record)
  BY <1>3, EndPassBooked DEF Protect
<1>4. CASE record.filled # 0 /\ ~Steady(record)
  <2>1. order.filled > 0
    BY <1>4, Constants DEF Booked, Records, Shares
  <2>2. Booked(ToPending(record))
    BY <1>1, <2>1, MoveBooked DEF ToPending
  <2> QED BY <1>4, <2>2, GotoBooked DEF Protect
<1> QED BY <1>2, <1>3, <1>4

\* What a call of the broker leaves of the fills.
LEMMA CallIsQuiet ==
    ASSUME TypeOK, NEW id, NEW qty, NEW ok \in BOOLEAN, Placed(id, qty, ok) \/ Cancelled(id, ok)
    PROVE  /\ \A x \in ExitIds : exits'[x].filled = exits[x].filled
           /\ budget'.outside = budget.outside
<1>1. budget'.outside = budget.outside
  BY DEF Placed, Cancelled, Spend, TypeOK, Budgets
<1>2. ASSUME Accepts(id, qty), Resting(id, qty)
      PROVE  \A x \in ExitIds : exits'[x].filled = exits[x].filled
  <2>1. exits[id].filled = 0 /\ [NoExit EXCEPT !.status = "SUBMITTED", !.qty = qty].filled = 0
    BY <1>2 DEF Accepts, NoExit
  <2> QED BY <1>2, <2>1 DEF Resting, TypeOK
<1>3. ASSUME id \in ExitIds, exits' = [exits EXCEPT ![id].cancelling = TRUE]
      PROVE  \A x \in ExitIds : exits'[x].filled = exits[x].filled
  BY <1>3 DEF TypeOK, ExitOrders
<1> QED BY <1>1, <1>2, <1>3 DEF Placed, Cancelled, ActiveExits

LEMMA LookupIsQuiet ==
    ASSUME TypeOK, NEW o, NEW answer, Lookup(o, answer) \/ Positions(answer)
    PROVE  budget'.outside = budget.outside
BY DEF Lookup, Positions, Spend, TypeOK, Budgets

\* The steps of the fill-and-protect pass keep the books true.
LEMMA FillBooked ==
    ASSUME TypeOK, BooksAreTrue, Fill PROVE BooksAreTrue'
<1>0. /\ mem \in Records /\ Booked(mem) /\ TRUE \in BOOLEAN /\ raised \in BOOLEAN
      /\ {Confirmed, Unprotected} \subseteq AllStates
      /\ Confirmed \notin {Partially, Filled, Closed} /\ Unprotected \notin {Partially, Filled, Closed}
  BY DEF TypeOK, BooksAreTrue, AllStates, Submitted, Partially, Filled, Pending, Confirmed,
         Unprotected, Closed
<1>1. /\ pc \notin {"idle", "save"} /\ UNCHANGED <<disk, order, position, traded>>
  BY DEF Fill, PollEntry, Resize, CancelForResize, RecheckForResize, ReplaceStop, Confirm, broker,
         durable
<1>2. /\ \A id \in ExitIds : exits'[id].filled = exits[id].filled
      /\ budget'.outside = budget.outside
  <2>1. CASE PollEntry \/ Resize \/ RecheckForResize \/ Confirm
    BY <2>1, LookupIsQuiet DEF PollEntry, Resize, RecheckForResize, Confirm, broker
  <2>2. CASE CancelForResize \/ ReplaceStop
    BY <2>2, CallIsQuiet DEF CancelForResize, ReplaceStop
  <2> QED BY <2>1, <2>2 DEF Fill
<1> SUFFICES Onwards
  BY <1>1, <1>2, QuietStep DEF Quiet
<1>3. CASE PollEntry
  BY <1>0, <1>3, RefreshBooked, ProtectBooked, EndPassBooked DEF PollEntry
<1>4. CASE Resize \/ CancelForResize \/ RecheckForResize
  BY <1>0, <1>4, GotoBooked, ResizeFailsBooked DEF Resize, CancelForResize, RecheckForResize
<1>5. CASE ReplaceStop
  <2>1. Booked(Tracking(mem, NextStop, mem.filled))
    BY <1>0, SameBooks DEF Tracking, Records
  <2>2. Booked([mem EXCEPT !.gap = @ \/ mem.stopId # NoId])
    BY <1>0, SameBooks DEF Records
  <2> QED BY <1>0, <1>5, <2>1, <2>2, GotoBooked, ResizeFailsBooked DEF ReplaceStop
<1>6. CASE Confirm
  <2>1. CASE EndPass(Move(mem, Unprotected), raised)
    BY <1>0, <2>1, MoveBooked, EndPassBooked
  <2>2. CASE EndPass(Move([mem EXCEPT !.gap = FALSE], Confirmed), raised)
    <3>1. [mem EXCEPT !.gap = FALSE] \in Records /\ Booked([mem EXCEPT !.gap = FALSE])
      BY <1>0, SameBooks DEF Records
    <3> QED BY <1>0, <2>2, <3>1, MoveBooked, EndPassBooked
  <2>3. ASSUME NEW answer,
               EndPass(Move([mem EXCEPT !.stopQty =
                               IF ProtectiveLegIsDead(answer.status)
                               THEN 0 ELSE @], Unprotected), raised)
        PROVE  Onwards
    <3>1. PICK n \in Shares : n = IF ProtectiveLegIsDead(answer.status) THEN 0 ELSE mem.stopQty
      BY <1>0, Constants DEF Records, Shares
    <3>2. [mem EXCEPT !.stopQty = n] \in Records /\ Booked([mem EXCEPT !.stopQty = n])
      BY <1>0, SameBooks DEF Records
    <3> QED BY <1>0, <2>3, <3>1, <3>2, MoveBooked, EndPassBooked
  <2> QED BY <1>6, <2>1, <2>2, <2>3 DEF Confirm
<1> QED BY <1>3, <1>4, <1>5, <1>6 DEF Fill

\* A pass that closes its record writes the journal first, and of shares that
\* an exit order sold.
LEMMA CloseBooked ==
    ASSUME TypeOK, BooksAreTrue, pc \notin {"idle", "save"},
           UNCHANGED <<disk, order, position, exits>>, budget'.outside = budget.outside,
           NEW id \in ExitIds, exits[id].filled > 0,
           EndPass(Move(mem, Closed), FALSE), traded' = TRUE
    PROVE  BooksAreTrue'
<1>1. Parted /\ Parted' /\ order.filled > 0
  BY DEF Parted, BooksAreTrue
<1>2. Move(mem, Closed).state \in {Closed, Illegal} /\ Move(mem, Closed) \in Records
  <2>1. mem \in Records /\ Closed \in AllStates
    BY DEF TypeOK, AllStates
  <2>2. Move(mem, Closed).state \in {Closed, Illegal}
    BY <2>1 DEF Move, Records
  <2> QED BY <2>1, <2>2, MoveTyped
<1>3. mem'.state = Move(mem, Closed).state /\ pc' \in {"poll", "save"}
  <2>1. [Move(mem, Closed) EXCEPT !.failing = FALSE].state = Move(mem, Closed).state
    BY <1>2 DEF Records
  <2> QED BY <2>1 DEF EndPass
<1>4. disk.state # "none"
  BY DEF BooksAreTrue
<1> QED BY <1>1, <1>2, <1>3, <1>4, Distinct DEF BooksAreTrue, Booked

\* The steps of the target exit keep the books true.
LEMMA TargetBooked ==
    ASSUME TypeOK, BooksAreTrue, Target PROVE BooksAreTrue'
<1>0. mem \in Records /\ Booked(mem) /\ TRUE \in BOOLEAN /\ FALSE \in BOOLEAN
  BY DEF TypeOK, BooksAreTrue
<1>1. /\ pc \notin {"idle", "save"} /\ UNCHANGED <<disk, order, position>>
  BY DEF Target, CheckTarget, CancelForTarget, RecheckForTarget, SellAtTarget, RestoreStop,
         PollSell, broker, durable
<1>2. /\ \A id \in ExitIds : exits'[id].filled = exits[id].filled
      /\ budget'.outside = budget.outside
  <2>1. CASE CheckTarget \/ RecheckForTarget \/ PollSell
    BY <2>1, LookupIsQuiet DEF CheckTarget, RecheckForTarget, PollSell, broker
  <2>2. CASE CancelForTarget \/ SellAtTarget \/ RestoreStop
    BY <2>2, CallIsQuiet DEF CancelForTarget, SellAtTarget, RestoreStop
  <2> QED BY <2>1, <2>2 DEF Target
<1>3. Onwards /\ UNCHANGED traded => BooksAreTrue'
  BY <1>1, <1>2, QuietStep DEF Quiet
<1>4. CASE CheckTarget \/ CancelForTarget
  BY <1>0, <1>3, <1>4, GotoBooked, EndPassBooked DEF CheckTarget, CancelForTarget, durable
<1>5. CASE RecheckForTarget
  <2> DEFINE r == [mem EXCEPT !.sell = NextAttempt(@)]
  <2>1. Booked(r)
    BY <1>0, SameBooks DEF Records
  <2>2. /\ UNCHANGED traded
        /\ \/ EndPass(mem, TRUE) \/ EndPass(mem, FALSE)
           \/ \E step \in {"exit", "sell", "rearm_place"}, record \in {mem, r} : Goto(step, record)
    BY <1>5 DEF RecheckForTarget, durable
  <2> HIDE DEF r
  <2> QED BY <1>0, <1>3, <2>1, <2>2, GotoBooked, EndPassBooked
<1>6. CASE SellAtTarget
  <2>1. PICK ok \in BOOLEAN : /\ Placed(SellId(mem), StopSize(mem), ok)
                              /\ Goto(IF ok THEN "sell_poll" ELSE "restore", mem)
    BY <1>6 DEF SellAtTarget
  <2>2. ok => SellId(mem) \in ExitIds
    BY <2>1, PlacedTyped
  <2>3. CASE ~ok
    BY <1>0, <1>3, <1>6, <2>1, <2>3, GotoBooked DEF SellAtTarget, durable
  <2>4. CASE ok
    <3>1. mem' = mem /\ pc' = "sell_poll" /\ UNCHANGED traded /\ (Parted' <=> Parted)
      BY <1>2, <1>6, <2>1, <2>4 DEF SellAtTarget, Goto, durable, Parted
    <3> QED BY <1>1, <1>2, <2>2, <2>4, <3>1 DEF BooksAreTrue, Booked, SellId
  <2> QED BY <2>3, <2>4
<1>7. CASE RestoreStop
  <2>1. Booked(Tracking(mem, NextStop, StopSize(mem)))
    BY <1>0, SameBooks DEF Tracking, Records
  <2>2. PICK ok \in BOOLEAN :
           /\ Placed(NextStop, StopSize(mem), ok)
           /\ EndPass(IF ok THEN Tracking(mem, NextStop, StopSize(mem)) ELSE mem, TRUE)
    BY <1>7 DEF RestoreStop
  <2>3. ok => Tracking(mem, NextStop, StopSize(mem)) \in Records
    BY <1>0, <2>2, PlacedTyped, StopSizeTyped, TrackingTyped
  <2> QED BY <1>0, <1>3, <1>7, <2>1, <2>2, <2>3, EndPassBooked DEF RestoreStop, durable
<1>8. CASE PollSell
  <2>1. PICK answer \in Answers(exits[SellId(mem)]) :
           IF answer.filled = 0
           THEN EndPass(mem, TRUE) /\ UNCHANGED traded
           ELSE EndPass(Move(mem, Closed), FALSE) /\ traded' = TRUE
    BY <1>8 DEF PollSell
  <2>2. CASE answer.filled = 0
    BY <1>0, <1>3, <2>1, <2>2, EndPassBooked
  <2>3. CASE answer.filled # 0
    <3>1. SellId(mem) \in ExitIds
      BY <1>8 DEF PollSell, BooksAreTrue
    <3>2. exits[SellId(mem)].filled > 0
      <4>1. exits[SellId(mem)].filled \in Nat
        BY <3>1, Constants DEF TypeOK, ExitOrders, Shares
      <4>2. answer.filled \in {0, exits[SellId(mem)].filled}
        BY DEF Answers, AnswerOf, NoAnswer, Blank
      <4> QED BY <2>3, <4>1, <4>2
    <3> QED BY <1>1, <1>2, <1>8, <2>1, <2>3, <3>1, <3>2, CloseBooked DEF PollSell, broker
  <2> QED BY <2>2, <2>3
<1> QED BY <1>4, <1>5, <1>6, <1>7, <1>8 DEF Target

\* The steps of the exit pass and of the rearming keep the books true.
LEMMA ExitBooked ==
    ASSUME TypeOK, RecordsAreTruthful, BooksAreTrue, Exit PROVE BooksAreTrue'
<1>0. mem \in Records /\ Booked(mem) /\ TRUE \in BOOLEAN /\ FALSE \in BOOLEAN
  BY DEF TypeOK, BooksAreTrue
<1>1. /\ pc \notin {"idle", "save"} /\ UNCHANGED <<disk, order, position>>
  BY DEF Exit, CheckExit, CheckAbsence, CheckAbsentStop, Rearm, RearmIfHeld, PlaceRearmed, broker,
         durable
<1>2. /\ \A id \in ExitIds : exits'[id].filled = exits[id].filled
      /\ budget'.outside = budget.outside
  <2>1. CASE CheckExit \/ CheckAbsence \/ CheckAbsentStop \/ Rearm \/ RearmIfHeld
    BY <2>1, LookupIsQuiet DEF CheckExit, CheckAbsence, CheckAbsentStop, Rearm, RearmIfHeld, broker
  <2>2. CASE PlaceRearmed
    BY <2>2, CallIsQuiet DEF PlaceRearmed
  <2> QED BY <2>1, <2>2 DEF Exit
<1>3. Onwards /\ UNCHANGED traded => BooksAreTrue'
  BY <1>1, <1>2, QuietStep DEF Quiet
<1>4. ASSUME NEW n \in 0 .. ConfirmPasses
      PROVE  [mem EXCEPT !.absent = n] \in Records /\ Booked([mem EXCEPT !.absent = n])
  BY <1>0, SameBooks DEF Records
<1>5. CASE CheckExit
  <2>1. CASE mem.stopId = NoId
    BY <1>0, <1>3, <1>5, <2>1, GotoBooked DEF CheckExit
  <2>2. CASE mem.stopId # NoId
    <3>1. PICK answer \in Answers(exits[mem.stopId]) :
             LET left == Remaining(mem, answer.filled) IN
             IF answer = NoAnswer THEN EndPass(mem, TRUE) /\ UNCHANGED traded
             ELSE IF answer.filled = 0 THEN Goto("absent", mem) /\ UNCHANGED traded
             ELSE IF left = 0
             THEN EndPass(Move(mem, Closed), FALSE) /\ traded' = TRUE
             ELSE /\ Goto("confirm", Move([mem EXCEPT !.stopQty = left, !.filled = left], Pending))
                  /\ UNCHANGED traded
      BY <1>5, <2>2 DEF CheckExit
    <3>2. CASE answer = NoAnswer \/ answer.filled = 0
      BY <1>0, <1>3, <3>1, <3>2, GotoBooked, EndPassBooked
    <3>3. CASE answer # NoAnswer /\ answer.filled # 0
      <4>1. exits[mem.stopId].filled > 0 /\ mem.stopId \in ExitIds /\ answer.filled \in Shares
        <5>1. mem.stopId \in ExitIds /\ exits[mem.stopId].filled \in Shares
          BY <2>2, StopIsId DEF ExitOrders
        <5>2. answer.filled \in {0, exits[mem.stopId].filled}
          BY DEF Answers, AnswerOf, NoAnswer, Blank
        <5> QED BY <3>3, <5>1, <5>2, Constants DEF Shares
      <4>2. order.filled > 0
        BY <4>1 DEF BooksAreTrue
      <4> DEFINE left == Remaining(mem, answer.filled)
      <4>3. left \in Shares
        BY <1>0, <4>1, StopSizeTyped, Constants DEF Remaining, Shares
      <4>4. CASE left = 0
        BY <1>1, <1>2, <1>5, <3>1, <3>3, <4>1, <4>4, CloseBooked DEF CheckExit, broker
      <4>5. CASE left # 0
        <5>1. Goto("confirm", Move([mem EXCEPT !.stopQty = left, !.filled = left], Pending))
              /\ UNCHANGED traded
          BY <3>1, <3>3, <4>5
        <5> HIDE DEF left
        <5> DEFINE r == [mem EXCEPT !.stopQty = left, !.filled = left]
        <5>2. r \in Records /\ r.state = mem.state
          BY <1>0, <4>3 DEF Records
        <5>3. Booked(r)
          BY <1>0, <4>2, <5>2 DEF Booked
        <5> HIDE DEF r
        <5>4. Pending \in AllStates /\ Pending \notin {Partially, Filled, Closed}
          BY DEF AllStates, Partially, Filled, Pending, Closed
        <5>5. Booked(Move(r, Pending))
          BY <5>2, <5>3, <5>4, MoveBooked
        <5> QED BY <1>3, <5>1, <5>5, GotoBooked DEF r
      <4> QED BY <4>4, <4>5
    <3> QED BY <3>2, <3>3
  <2> QED BY <2>1, <2>2
<1>6. CASE CheckAbsence
  <2>1. 0 \in 0 .. ConfirmPasses
    BY Constants
  <2> QED BY <1>0, <1>3, <1>4, <1>6, <2>1, GotoBooked, AfterAbsenceBooked DEF CheckAbsence, durable
<1>7. CASE CheckAbsentStop
  <2>1. mem.absent + 1 \in 0 .. ConfirmPasses /\ 0 \in 0 .. ConfirmPasses
    BY <1>7, Constants DEF RecordsAreTruthful, CheckAbsentStop, Flagged, Records, TypeOK
  <2>2. AfterAbsence([mem EXCEPT !.absent = @ + 1]) \/ AfterAbsence([mem EXCEPT !.absent = 0])
    BY <1>7 DEF CheckAbsentStop
  <2> QED BY <1>3, <1>4, <1>7, <2>1, <2>2, AfterAbsenceBooked DEF CheckAbsentStop, durable
<1>8. CASE Rearm
  BY <1>0, <1>3, <1>8, GotoBooked, EndPassBooked DEF Rearm, durable
<1>9. CASE RearmIfHeld
  <2> DEFINE r == [mem EXCEPT !.rearm = NextAttempt(@)]
  <2>1. Booked(r)
    BY <1>0, SameBooks DEF Records
  <2>2. /\ UNCHANGED traded
        /\ \/ EndPass(mem, TRUE) \/ EndPass(mem, FALSE)
           \/ \E step \in {"exit", "sell", "rearm_place"}, record \in {mem, r} : Goto(step, record)
    BY <1>9 DEF RearmIfHeld, durable
  <2> HIDE DEF r
  <2> QED BY <1>0, <1>3, <2>1, <2>2, GotoBooked, EndPassBooked
<1>10. CASE PlaceRearmed
  <2>1. PICK ok \in BOOLEAN, qty \in seen :
           /\ Placed(<<"stop_rearm", mem.rearm>>, qty, ok)
           /\ EndPass(IF ok THEN [mem EXCEPT !.stopId = <<"stop_rearm", mem.rearm>>,
                                             !.stopQty = qty]
                      ELSE mem, ~ok)
    BY <1>10 DEF PlaceRearmed
  <2>2. qty \in Shares /\ (~ok) \in BOOLEAN /\ (ok => <<"stop_rearm", mem.rearm>> \in ExitIds)
    BY <2>1, PlacedTyped DEF TypeOK
  <2>3. ASSUME NEW id \in ExitIds
        PROVE  /\ [mem EXCEPT !.stopId = id, !.stopQty = qty] \in Records
               /\ Booked([mem EXCEPT !.stopId = id, !.stopQty = qty])
    BY <1>0, <2>2, SameBooks DEF Records
  <2> QED BY <1>0, <1>3, <1>10, <2>1, <2>2, <2>3, EndPassBooked DEF PlaceRearmed, durable
<1> QED BY <1>5, <1>6, <1>7, <1>8, <1>9, <1>10 DEF Exit

\* The steps that begin and end a pass keep the books true.
LEMMA PassBooked ==
    ASSUME TypeOK, RecordsAreTruthful, BooksAreTrue,
           PlaceEntry \/ Save \/ Monitor \/ Submit \/ ResolveAbsent \/ Crash
    PROVE  BooksAreTrue'
<1>0. /\ mem \in Records /\ disk \in Records /\ Booked(mem) /\ Booked(disk)
      /\ {Failed, Unknown, Submitted, Closed} \subseteq AllStates
      /\ {Failed, Unknown, Submitted} \cap {Partially, Filled, Closed} = {}
  BY Distinct DEF TypeOK, BooksAreTrue, Owned
<1>1. NoRecord.state = "none" /\ NoRecord.filled = 0 /\ NoRecord \in Records
  BY NoRecordTyped DEF NoRecord
<1>2. Booked(NoRecord)
  BY <1>1, Distinct DEF Booked
<1>3. CASE PlaceEntry
  <2>1. order.status = "none" /\ order.filled = 0 /\ mem.state = Submitted /\ disk.state = Submitted
    BY <1>3 DEF PlaceEntry, RecordsAreTruthful, AbsentStatuses
  <2>2. /\ UNCHANGED <<disk, position, traded, exits>> /\ budget'.outside = budget.outside
        /\ order'.filled = order.filled
        /\ order'.status \in {order.status, "SUBMITTED", "inflight"}
    BY <1>3 DEF PlaceEntry, durable, Spend, TypeOK, Budgets, EntryOrders
  <2>3. Onwards
    BY <1>0, <1>3, MoveBooked, GotoBooked DEF PlaceEntry
  <2>4. Parted' <=> Parted
    BY <2>2 DEF Parted
  <2> QED BY <1>3, <2>1, <2>2, <2>3, <2>4, Distinct DEF BooksAreTrue, Booked, Onwards, PlaceEntry
<1>4. CASE Save
  <2>1. Parted' <=> Parted
    BY <1>4 DEF Save, Parted, broker
  <2>2. mem.state # "none"
    BY <1>4 DEF Save, RecordsAreTruthful
  <2>3. Booked(mem)' /\ Booked(disk)'
    BY <1>0, <1>2, <1>4, <2>1 DEF Save, Booked, broker
  <2> QED BY <1>4, <2>1, <2>2, <2>3 DEF Save, BooksAreTrue, broker
<1>5. CASE MonitorBegin
  <2>1. disk.state \notin {"none", Failed, Closed}
    BY <1>5 DEF MonitorBegin, FillMonitoringStates, MonitorResumableStates, Submitted, Partially,
                Filled, Pending, Unprotected, Confirmed, Failed, Closed
  <2>2. pc' \in {"target", "stuck", "poll"} /\ mem' = disk
    BY <1>5 DEF MonitorBegin
  <2>3. Parted' <=> Parted
    BY <1>5 DEF MonitorBegin, Parted, broker
  <2> QED BY <1>0, <1>5, <2>1, <2>2, <2>3 DEF MonitorBegin, BooksAreTrue, Booked, broker, durable
<1>6. CASE ReconcileUnknown
  <2>1. disk.state \notin {"none", Failed, Closed} /\ pc' \in {"poll", "save"}
    BY <1>6 DEF ReconcileUnknown, Unknown, Failed, Closed
  <2>2. Booked(Rejected(disk))
    <3> DEFINE r == [disk EXCEPT !.rejections = IF @ < MinRejections THEN @ + 1 ELSE @]
    <3>1. r \in Records
      BY <1>0, Constants DEF Records
    <3>2. Booked(r)
      BY <1>0, SameBooks DEF Records
    <3> HIDE DEF r
    <3> QED BY <1>0, <3>1, <3>2, MoveBooked DEF Rejected, r
  <2>3. Booked(mem')
    BY <1>0, <1>6, <2>2, MoveBooked DEF ReconcileUnknown
  <2>4. /\ UNCHANGED <<disk, order, exits, position, traded>> /\ budget'.outside = budget.outside
    BY <1>6 DEF ReconcileUnknown, durable, broker, Spend, TypeOK, Budgets
  <2>5. Parted' <=> Parted
    BY <2>4 DEF Parted
  <2> QED BY <2>1, <2>3, <2>4, <2>5 DEF BooksAreTrue, Booked
<1>7. CASE Submit
  <2>1. order.status = "none" /\ order.filled = 0
    BY <1>1, <1>7 DEF Submit, RecordsAreTruthful, AbsentStatuses
  <2> DEFINE r == [NoRecord EXCEPT !.state = Submitted]
  <2>2. r \in Records /\ r.state = Submitted /\ r.filled = 0
    BY <1>0, <1>1 DEF Records
  <2>3. Booked(r)
    BY <2>2, Distinct DEF Booked
  <2>4. /\ UNCHANGED <<order, exits, position, traded, budget>>
        /\ \/ disk' = r /\ mem' = r /\ pc' = "place"
           \/ disk' = disk /\ mem' = Move(r, Failed) /\ pc' = "save"
    BY <1>7 DEF Submit, broker
  <2>5. Parted' <=> Parted
    BY <2>4 DEF Parted
  <2> HIDE DEF r
  <2>6. CASE disk' = r /\ mem' = r /\ pc' = "place"
    <3>1. /\ disk'.state \notin {"none", Failed, Closed} \union Owned /\ disk'.filled = 0
          /\ mem'.state \notin {"none", Failed, Closed} \union Owned /\ mem'.filled = 0
      BY <2>2, <2>6, Distinct DEF Submitted, Failed
    <3>2. Booked(mem)' /\ Booked(disk)'
      BY <3>1, Distinct DEF Booked
    <3> QED BY <2>4, <2>5, <2>6, <3>1, <3>2 DEF BooksAreTrue
  <2>7. CASE disk' = disk /\ mem' = Move(r, Failed) /\ pc' = "save"
    <3>1. Booked(Move(r, Failed))
      BY <1>0, <2>2, <2>3, MoveBooked
    <3>2. Move(r, Failed).state = Failed
      <4>1. Submitted \in AllStates
        BY DEF AllStates
      <4>2. ValidTransitions[Submitted] = {Partially, Filled, Failed, Unknown}
        BY <4>1 DEF ValidTransitions, TerminalStates, Submitted, Partially, Filled, Pending,
           Confirmed, Unprotected, Closed, Unknown, Released, Linking, Failed
      <4> QED BY <2>2, <4>1, <4>2 DEF Move, Records
    <3>3. disk.state = "none"
      BY <1>1, <1>7 DEF Submit
    <3> QED BY <1>0, <2>4, <2>5, <2>7, <3>1, <3>2, <3>3, Distinct DEF BooksAreTrue, Booked
  <2> QED BY <2>4, <2>6, <2>7
<1>8. CASE ResolveAbsent
  <2>1. /\ disk.state \in Owned /\ position = 0 /\ traded' = TRUE /\ disk' = Move(disk, Closed)
        /\ pc = "idle" /\ UNCHANGED <<pc, mem, order, exits, position, budget>>
    BY <1>8 DEF ResolveAbsent, Owned, process, broker
  <2>2. order.filled > 0 /\ order.filled \in Nat
    BY <1>0, <2>1, Constants DEF Booked, TypeOK, EntryOrders, Shares
  <2>3. Parted /\ Parted'
    <3>1. Parted \/ position = order.filled
      BY DEF BooksAreTrue
    <3>2. position # order.filled
      BY <2>1, <2>2
    <3> QED BY <2>1, <3>1, <3>2 DEF Parted
  <2>4. Move(disk, Closed).state \in {Closed, Illegal}
    BY <1>0 DEF Move, Records
  <2> QED BY <1>0, <2>1, <2>2, <2>3, <2>4, Distinct DEF BooksAreTrue, Booked
<1>9. CASE Crash
  <2>1. /\ pc' = "idle" /\ mem' = NoRecord /\ UNCHANGED <<disk, order, exits, position, traded>>
        /\ budget'.outside = budget.outside
    BY <1>9 DEF Crash, durable, broker, Spend, TypeOK, Budgets
  <2>2. Parted' <=> Parted
    BY <2>1 DEF Parted
  <2>3. Booked(mem)' /\ Booked(disk)'
    BY <1>0, <1>2, <2>1, <2>2 DEF Booked
  <2> QED BY <2>1, <2>2, <2>3 DEF BooksAreTrue
<1> QED BY <1>3, <1>4, <1>5, <1>6, <1>7, <1>8, <1>9 DEF Monitor

\* The broker fills what was ordered and sells what is held, so the books stay
\* true whatever it does.
LEMMA EnvironmentBooked ==
    ASSUME TypeOK, RecordsAreTruthful, BooksAreTrue, Environment PROVE BooksAreTrue'
<1>0. /\ order.filled \in Nat /\ position \in Nat /\ Quantity \in Nat /\ order \in EntryOrders
      /\ position <= order.filled
      /\ UNCHANGED <<pc, mem, disk, traded>>
  <2>1. order \in EntryOrders /\ order.filled \in Nat /\ position \in Nat /\ Quantity \in Nat
    BY Constants DEF TypeOK, EntryOrders, Shares
  <2>2. UNCHANGED <<pc, mem, disk, traded>>
    BY DEF Environment, Shown, EntryFills, EntryEnds, ExitFills, CancelLands, ExitExpires,
           MarketCloses, MarketOpens, Outside, process, durable
  <2> QED BY <2>1, <2>2 DEF RecordsAreTruthful
<1>1. ASSUME NEW more \in Nat,
             position' = position + more, order'.filled = order.filled + more,
             order'.status = "PARTIAL FILLED" => order'.filled > 0,
             \A id \in ExitIds : exits'[id].filled = exits[id].filled,
             budget'.outside = budget.outside
      PROVE  BooksAreTrue'
  <2>1. Parted' <=> Parted
    BY <1>1 DEF Parted
  <2>0. /\ order.filled \in Nat /\ more \in Nat
        /\ position' = position + more /\ order'.filled = order.filled + more
    BY <1>0, <1>1
  <2>2. order.filled > 0 => order'.filled > 0
    BY <2>0
  <2>3. position = order.filled => position' = order'.filled
    BY <2>0
  <2> QED BY <1>0, <1>1, <2>1, <2>2, <2>3 DEF BooksAreTrue, Booked, SellId
<1>2. ASSUME NEW id \in ActiveExits, Ended(id)
      PROVE  \A x \in ExitIds : exits'[x].filled = exits[x].filled
  BY <1>2 DEF Ended, ActiveExits, TypeOK, ExitOrders
<1>3. CASE Shown \/ EntryEnds
  <2>1. /\ UNCHANGED <<position, exits, budget>> /\ order'.filled = order.filled
        /\ order'.status # "PARTIAL FILLED"
    BY <1>0, <1>3 DEF Shown, EntryEnds, EntryOrders
  <2>2. /\ position' = position /\ order'.filled = order.filled
        /\ position \in Nat /\ order.filled \in Nat
    BY <1>0, <2>1
  <2>3. position' = position + 0 /\ order'.filled = order.filled + 0
    BY <2>2
  <2> QED BY <1>1, <2>1, <2>3
<1>4. CASE EntryFills
  <2>1. PICK more \in 1 .. (Quantity - order.filled) :
          /\ order' = [filled |-> order.filled + more,
                       status |-> IF order.filled + more = Quantity
                                  THEN "FILLED" ELSE "PARTIAL FILLED"]
          /\ position' = position + more
    BY <1>4 DEF EntryFills
  <2>2. order'.filled = order.filled + more
    BY <2>1
  <2>3. UNCHANGED <<exits, budget>>
    BY <1>4 DEF EntryFills
  <2>4. more \in Nat /\ order'.filled > 0
    <3>1. more \in Nat /\ more > 0
      BY <1>0
    <3> QED BY <1>0, <2>2, <3>1
  <2>5. position' = position + more
    BY <2>1
  <2> QED BY <1>1, <2>2, <2>3, <2>4, <2>5
<1>5. CASE ExitFills
  <2>0. PICK id \in ActiveExits :
          \E more \in 1 .. (exits[id].qty - exits[id].filled) :
            /\ more <= position
            /\ exits' = [exits EXCEPT ![id].filled = @ + more,
                  ![id].status = IF exits[id].filled + more = exits[id].qty
                                 THEN "FILLED" ELSE "PARTIAL FILLED"]
    BY <1>5 DEF ExitFills
  <2>1. PICK more \in 1 .. (exits[id].qty - exits[id].filled) :
          /\ more <= position
          /\ exits' = [exits EXCEPT ![id].filled = @ + more,
                  ![id].status = IF exits[id].filled + more = exits[id].qty
                                 THEN "FILLED" ELSE "PARTIAL FILLED"]
    BY <2>0
  <2>2. /\ exits[id].filled \in Nat /\ id \in ExitIds /\ more \in Nat /\ more > 0
        /\ exits[id] \in ExitOrders /\ exits[id].qty \in Nat
    <3>1. id \in ExitIds /\ exits[id] \in ExitOrders
      BY DEF ActiveExits, TypeOK
    <3>2. exits[id].filled \in Nat /\ exits[id].qty \in Nat
      BY <3>1, Constants DEF ExitOrders, Shares
    <3> QED BY <3>1, <3>2
  <2>3. /\ exits'[id].filled = exits[id].filled + more
        /\ \A x \in ExitIds : x # id => exits'[x] = exits[x]
    <3> DEFINE r == [exits[id] EXCEPT !.filled = @ + more,
                       !.status = IF exits[id].filled + more = exits[id].qty
                                  THEN "FILLED" ELSE "PARTIAL FILLED"]
    <3>1. exits' = [exits EXCEPT ![id] = r]
      BY <2>1, <2>2 DEF TypeOK, ExitOrders
    <3>2. r.filled = exits[id].filled + more
      BY <2>2 DEF ExitOrders
    <3> HIDE DEF r
    <3> QED BY <2>2, <3>1, <3>2 DEF TypeOK
  <2>4. order.filled > 0 /\ UNCHANGED <<order, budget>>
    <3>1. UNCHANGED <<order, budget>>
      BY <1>5 DEF ExitFills
    <3>2. more <= position
      BY <2>1
    <3> QED BY <1>0, <2>2, <3>1, <3>2
  <2>5. Parted' /\ (Parted => Parted')
    BY <2>2, <2>3 DEF Parted
  <2> QED BY <1>0, <2>2, <2>3, <2>4, <2>5 DEF BooksAreTrue, Booked, SellId
<1>6. CASE CancelLands \/ ExitExpires
  <2>1. PICK id \in ActiveExits : Ended(id)
    BY <1>6 DEF CancelLands, ExitExpires
  <2>2. UNCHANGED <<position, order, budget>>
    BY <1>6 DEF CancelLands, ExitExpires
  <2>3. position' = position + 0 /\ order'.filled = order.filled + 0
    BY <1>0, <2>2
  <2> QED BY <1>1, <1>2, <2>1, <2>2, <2>3 DEF BooksAreTrue
<1>7. CASE MarketCloses \/ MarketOpens
  <2>1. UNCHANGED <<position, order, exits>> /\ budget'.outside = budget.outside
    BY <1>7 DEF MarketCloses, MarketOpens, Spend, TypeOK, Budgets
  <2>2. position' = position + 0 /\ order'.filled = order.filled + 0
    BY <1>0, <2>1
  <2> QED BY <1>1, <2>1, <2>2 DEF BooksAreTrue
<1>8. CASE Outside
  <2>1. UNCHANGED order /\ budget'.outside < MaxOutside
    <3>1. budget.outside \in 0 .. MaxOutside /\ budget.outside > 0
          /\ budget'.outside = budget.outside - 1
      BY <1>8 DEF Outside, Spend, TypeOK, Budgets
    <3> QED BY <1>8, <3>1, Constants DEF Outside
  <2>2. \A x \in ExitIds : exits'[x].filled = exits[x].filled
    BY <1>2, <1>8 DEF Outside
  <2>3. Parted'
    BY <2>1 DEF Parted
  <2> QED BY <1>0, <2>1, <2>2, <2>3 DEF BooksAreTrue, Booked, SellId
<1> QED BY <1>3, <1>4, <1>5, <1>6, <1>7, <1>8 DEF Environment

LEMMA InitBooked == Init => BooksAreTrue
BY Constants, Distinct DEF Init, BooksAreTrue, Booked, NoRecord, NoExit, Parted

\* Every step keeps the books true.
LEMMA StepBooked ==
    ASSUME TypeOK, RecordsAreTruthful, BooksAreTrue, [Next]_vars PROVE BooksAreTrue'
<1>1. CASE UNCHANGED vars
  BY <1>1 DEF vars, process, durable, broker, BooksAreTrue, Booked, Parted, SellId
<1> QED BY <1>1, FillBooked, TargetBooked, ExitBooked, PassBooked, EnvironmentBooked DEF Next, Pass


---------------------------------------------------------------------------
(* The refinement of EntryContract.                                        *)

\* What the claim and the purchase are, by the record and the order.
LEMMA ClaimIs ==
    /\ disk.state = "none" => Claim = "none"
    /\ disk.state = Failed => Claim = "failed"
    /\ disk.state = Closed => Claim = "closed"
    /\ disk.state \notin {"none", Failed, Closed} => Claim = "open"
BY DEF Claim, Failed, Closed

LEMMA ClaimWillBe ==
    /\ disk'.state = "none" => Claim' = "none"
    /\ disk'.state = Failed => Claim' = "failed"
    /\ disk'.state = Closed => Claim' = "closed"
    /\ disk'.state \notin {"none", Failed, Closed} => Claim' = "open"
BY DEF Claim, Failed, Closed

LEMMA BoughtIs ==
    ASSUME TypeOK
    PROVE  /\ order.filled \in Nat
           /\ order.filled > 0 => Bought = "yes"
           /\ order.filled = 0 =>
                /\ order.status = "none" => Bought = "no"
                /\ order.status \in FinalStatuses => Bought = "never"
                /\ order.status \in OpenStatuses \union {"inflight"} => Bought = "maybe"
<1>1. order.filled \in Nat
  BY Constants DEF TypeOK, EntryOrders, Shares
<1>2. order.filled = 0 => ~(order.filled > 0)
  BY <1>1
<1> QED
  BY <1>1, <1>2 DEF Bought, EntryFillIsFinal, FinalStatuses, OpenStatuses

\* Calls, retries, crashes and the exits' own story are invisible to the contract.
LEMMA Invisible ==
    ASSUME UNCHANGED <<disk, order, traded>>
    PROVE  UNCHANGED Contract!vars
BY DEF Contract!vars, Claim, Bought

\* A pass that writes the journal books a trade of shares that were bought.
LEMMA JournalImplements ==
    ASSUME TypeOK, BooksAreTrue, pc \notin {"idle", "save"}, UNCHANGED <<disk, order>>,
           NEW id \in ExitIds, exits[id].filled > 0, traded' = TRUE
    PROVE  Contract!Book
<1>1. Claim = "open" /\ Bought = "yes"
  BY ClaimIs, BoughtIs DEF BooksAreTrue
<1>2. Claim' = Claim /\ Bought' = Bought
  BY DEF Claim, Bought
<1> QED BY <1>1, <1>2 DEF Contract!Book

\* The write that ends a pass says what the contract allows.
LEMMA SaveImplements ==
    ASSUME TypeOK, RecordsAreTruthful, BooksAreTrue, Save
    PROVE  [Contract!Next]_(Contract!vars)
<1>1. /\ disk' = mem /\ traded' = traded /\ Bought' = Bought /\ mem.state # "none"
  BY DEF Save, broker, Bought, RecordsAreTruthful
<1>2. CASE disk.state = "none"
  <2>1. mem.state = Failed
    BY <1>2 DEF BooksAreTrue, Save
  <2>2. Claim = "none" /\ Claim' = "failed"
    BY <1>1, <1>2, <2>1, ClaimIs, ClaimWillBe
  <2> QED BY <1>1, <2>2 DEF Contract!Record, Contract!Next
<1>3. CASE disk.state # "none"
  <2>0. Claim = "open"
    BY <1>3, ClaimIs DEF BooksAreTrue, Save
  <2>1. CASE mem.state = Failed
    <3>1. order.filled = 0 /\ order.status \in FinalStatuses \union {"none"}
      BY <2>1 DEF RecordsAreTruthful, Truthful, NeverBuys, TypeOK, EntryOrders, OrderStatuses,
                  AbsentStatuses
    <3>2. Bought \in {"no", "never"}
      BY <3>1, BoughtIs
    <3>3. Claim' = "failed"
      BY <1>1, <2>1, ClaimWillBe
    <3> QED BY <1>1, <2>0, <3>2, <3>3 DEF Contract!Fail, Contract!Next
  <2>2. CASE mem.state = Closed
    <3>1. order.filled > 0 /\ traded
      BY <2>2, Distinct DEF BooksAreTrue, Booked
    <3>2. Bought = "yes" /\ traded' = TRUE
      BY <1>1, <3>1, BoughtIs DEF TypeOK
    <3>3. Claim' = "closed"
      BY <1>1, <2>2, ClaimWillBe
    <3> QED BY <1>1, <2>0, <3>2, <3>3 DEF Contract!Book, Contract!Next
  <2>3. CASE mem.state \notin {Failed, Closed}
    <3>1. Claim' = "open"
      BY <1>1, <2>3, ClaimWillBe
    <3> QED BY <1>1, <2>0, <3>1 DEF Contract!vars
  <2> QED BY <2>1, <2>2, <2>3
<1> QED BY <1>2, <1>3

\* A fill of the entry order is of one share at least.
LEMMA FillBuys ==
    ASSUME TypeOK, EntryFills PROVE order'.filled > 0
<1>1. PICK more \in 1 .. (Quantity - order.filled) :
        order' = [filled |-> order.filled + more,
                  status |-> IF order.filled + more = Quantity THEN "FILLED"
                             ELSE "PARTIAL FILLED"]
  BY DEF EntryFills
<1>2. order'.filled = order.filled + more
  BY <1>1
<1>3. order.filled \in Nat /\ more \in Nat /\ more > 0
  BY BoughtIs, Constants
<1> QED BY <1>2, <1>3

\* An entry order moves on only while its record stands open.
LEMMA OrderImplements ==
    ASSUME TypeOK, RecordsAreTruthful, BooksAreTrue, Shown \/ EntryFills \/ EntryEnds
    PROVE  [Contract!Next]_(Contract!vars)
<1>1. UNCHANGED <<disk, traded>> /\ Claim' = Claim
  BY DEF Shown, EntryFills, EntryEnds, durable, Claim
<1>2. order.status \in OpenStatuses \union {"inflight"} /\ order \in EntryOrders
  BY DEF Shown, EntryFills, EntryEnds, TypeOK
<1>3. order.status \notin {"none"} \union FinalStatuses
  BY <1>2 DEF OpenStatuses, FinalStatuses
<1>4. order.filled \in Nat
  BY BoughtIs
<1>5. CASE order.filled > 0
  <2>1. Bought = "yes"
    BY <1>5, BoughtIs
  <2>2. order'.filled > 0
    <3>1. CASE Shown \/ EntryEnds
      BY <1>2, <1>5, <3>1 DEF Shown, EntryEnds, EntryOrders
    <3>2. CASE EntryFills
      BY <3>2, FillBuys
    <3> QED BY <3>1, <3>2
  <2>3. Bought' = "yes"
    BY <2>2 DEF Bought
  <2> QED BY <1>1, <2>1, <2>3 DEF Contract!vars
<1>6. CASE order.filled = 0
  <2>1. Bought = "maybe"
    BY <1>2, <1>6, BoughtIs
  <2>2. Claim = "open"
    <3>1. disk.state # "none"
      BY <1>3 DEF RecordsAreTruthful
    <3>2. disk.state # Failed
      BY <1>2 DEF RecordsAreTruthful, Truthful, NeverBuys
    <3>3. disk.state # Closed
      <4>1. ~(order.filled > 0)
        BY <1>6
      <4> QED BY <4>1, Distinct DEF BooksAreTrue, Booked
    <3> QED BY <3>1, <3>2, <3>3, ClaimIs
  <2>3. CASE Shown
    <3>1. order'.filled = 0 /\ order'.status = "SUBMITTED" /\ ~(order'.filled > 0)
      BY <1>2, <1>6, <2>3 DEF Shown, EntryOrders
    <3>2. Bought' = "maybe"
      BY <3>1 DEF Bought, EntryFillIsFinal, FinalStatuses
    <3> QED BY <1>1, <2>1, <3>2 DEF Contract!vars
  <2>4. CASE EntryFills
    <3>2. order'.filled > 0
      BY <2>4, FillBuys
    <3>3. Bought' = "yes"
      BY <3>2 DEF Bought
    <3> QED BY <1>1, <2>1, <2>2, <3>3 DEF Contract!Trade, Contract!Next
  <2>5. CASE EntryEnds
    <3>1. order'.filled = 0 /\ order'.status = "CANCELLED" /\ ~(order'.filled > 0)
      BY <1>2, <1>6, <2>5 DEF EntryEnds, EntryOrders
    <3>2. Bought' = "never"
      BY <3>1 DEF Bought, EntryFillIsFinal, FinalStatuses
    <3> QED BY <1>1, <2>1, <2>2, <3>2 DEF Contract!Trade, Contract!Next
  <2> QED BY <2>3, <2>4, <2>5
<1> QED BY <1>4, <1>5, <1>6

\* The record comes before the order, and an admin closes what was bought.
LEMMA BeginImplements ==
    ASSUME TypeOK, RecordsAreTruthful, BooksAreTrue, Submit \/ PlaceEntry \/ ResolveAbsent
    PROVE  [Contract!Next]_(Contract!vars)
<1>1. CASE Submit
  <2>1. disk.state = "none" /\ UNCHANGED <<order, traded>> /\ Bought' = Bought
    BY <1>1 DEF Submit, broker, NoRecord, Bought
  <2>2. CASE disk' = disk
    BY <2>1, <2>2, Invisible
  <2>3. CASE disk' = [NoRecord EXCEPT !.state = Submitted]
    <3>1. disk'.state = Submitted
      BY <2>3 DEF NoRecord
    <3>2. Claim = "none" /\ Claim' = "open"
      BY <2>1, <3>1, ClaimIs, ClaimWillBe DEF Submitted, Failed, Closed
    <3> QED BY <2>1, <3>2 DEF Contract!Record, Contract!Next
  <2> QED BY <1>1, <2>2, <2>3 DEF Submit
<1>2. CASE PlaceEntry
  <2>1. /\ disk.state = Submitted /\ order.status = "none" /\ order.filled = 0
        /\ order \in EntryOrders /\ UNCHANGED <<disk, traded>>
    BY <1>2 DEF PlaceEntry, RecordsAreTruthful, AbsentStatuses, durable, TypeOK
  <2>2. Claim = "open" /\ Claim' = Claim /\ Bought = "no"
    BY <2>1, ClaimIs, BoughtIs DEF Claim, Submitted, Failed, Closed
  <2>3. CASE order' = order
    BY <2>1, <2>3, Invisible
  <2>4. CASE order' # order
    <3>1. /\ order'.filled = 0 /\ order'.status \in {"SUBMITTED", "inflight"}
          /\ ~(order'.filled > 0)
      BY <1>2, <2>1, <2>4 DEF PlaceEntry, EntryOrders
    <3>2. Bought' = "maybe"
      BY <3>1 DEF Bought, EntryFillIsFinal, FinalStatuses
    <3> QED BY <2>1, <2>2, <3>2 DEF Contract!Trade, Contract!Next
  <2> QED BY <2>3, <2>4
<1>3. CASE ResolveAbsent
  <2>1. /\ disk.state \in {Unprotected, Confirmed} /\ disk' = Move(disk, Closed)
        /\ traded' = TRUE /\ Bought' = Bought /\ disk \in Records
    BY <1>3 DEF ResolveAbsent, broker, Bought, TypeOK
  <2>2. disk'.state = Closed
    <3>1. disk.state \in AllStates /\ Closed \in ValidTransitions[disk.state]
      BY <2>1 DEF ValidTransitions, AllStates, Submitted, Partially, Filled, Pending, Confirmed,
                  Unprotected, Closed, Unknown, Released, Linking, Failed, TerminalStates
    <3> QED BY <2>1, <3>1 DEF Move, Records
  <2>3. Claim = "open" /\ Claim' = "closed"
    BY <2>1, <2>2, ClaimIs, ClaimWillBe DEF Unprotected, Confirmed, Failed, Closed
  <2>4. Bought = "yes"
    BY <2>1, BoughtIs DEF BooksAreTrue, Booked, Owned
  <2> QED BY <2>1, <2>3, <2>4 DEF Contract!Book, Contract!Next
<1> QED BY <1>1, <1>2, <1>3

\* A step of the fill, target or exit pass books a trade, or is invisible.
LEMMA PassImplements ==
    ASSUME TypeOK, RecordsAreTruthful, BooksAreTrue, Fill \/ Target \/ Exit
    PROVE  [Contract!Next]_(Contract!vars)
<1>1. CASE ~(PollSell \/ CheckExit)
  <2>1. UNCHANGED <<disk, order, traded>>
    BY <1>1 DEF Fill, Target, Exit, PollEntry, Resize, CancelForResize, RecheckForResize,
       ReplaceStop, Confirm, CheckTarget, CancelForTarget, RecheckForTarget, SellAtTarget,
       RestoreStop, CheckAbsence, CheckAbsentStop, Rearm, RearmIfHeld, PlaceRearmed,
       durable, broker
  <2> QED BY <2>1, Invisible
<1>2. CASE PollSell
  <2>1. PICK answer \in Answers(exits[SellId(mem)]) :
          IF answer.filled = 0 THEN UNCHANGED traded ELSE traded' = TRUE
    BY <1>2 DEF PollSell
  <2>2. UNCHANGED <<disk, order>> /\ SellId(mem) \in ExitIds /\ pc \notin {"idle", "save"}
    BY <1>2 DEF PollSell, broker, BooksAreTrue
  <2>3. CASE answer.filled = 0
    BY <2>1, <2>2, <2>3, Invisible
  <2>4. CASE answer.filled # 0
    <3>1. exits[SellId(mem)].filled > 0
      BY <2>1, <2>2, <2>4, Constants DEF Answers, AnswerOf, NoAnswer, Blank, TypeOK, ExitOrders, Shares
    <3>2. traded' = TRUE
      BY <2>1, <2>4
    <3> QED BY <2>2, <3>1, <3>2, JournalImplements DEF Contract!Next
  <2> QED BY <2>3, <2>4
<1>3. CASE CheckExit
  <2>0. UNCHANGED <<disk, order>> /\ pc \notin {"idle", "save"} /\ mem \in Records
    BY <1>3 DEF CheckExit, broker, TypeOK
  <2>1. CASE UNCHANGED traded
    BY <2>0, <2>1, Invisible
  <2>2. CASE ~UNCHANGED traded
    <3>1. mem.stopId \in ExitIds
      BY <1>3, <2>0, <2>2 DEF CheckExit, Records
    <3>2. PICK answer \in Answers(exits[mem.stopId]) : answer.filled # 0 /\ traded' = TRUE
      BY <1>3, <2>2 DEF CheckExit, NoAnswer
    <3>3. exits[mem.stopId].filled > 0
      BY <3>1, <3>2, Constants DEF Answers, AnswerOf, NoAnswer, Blank, TypeOK, ExitOrders, Shares
    <3> QED BY <2>0, <3>1, <3>2, <3>3, JournalImplements DEF Contract!Next
  <2> QED BY <2>1, <2>2
<1> QED BY <1>1, <1>2, <1>3

\* Every step is a step of the contract, or invisible to it.
LEMMA StepImplements ==
    ASSUME TypeOK, RecordsAreTruthful, BooksAreTrue, [Next]_vars
    PROVE  [Contract!Next]_(Contract!vars)
<1>1. CASE UNCHANGED vars \/ Monitor \/ Crash \/ ExitFills \/ CancelLands \/ ExitExpires
           \/ MarketCloses \/ MarketOpens \/ Outside
  <2>1. UNCHANGED <<disk, order, traded>>
    BY <1>1 DEF vars, durable, broker, Monitor, MonitorBegin, ReconcileUnknown, Crash, ExitFills,
       CancelLands, ExitExpires, MarketCloses, MarketOpens, Outside
  <2> QED BY <2>1, Invisible
<1>2. CASE Submit \/ PlaceEntry \/ ResolveAbsent
  BY <1>2, BeginImplements
<1>3. CASE Fill \/ Target \/ Exit
  BY <1>3, PassImplements
<1>4. CASE Save
  BY <1>4, SaveImplements
<1>5. CASE Shown \/ EntryFills \/ EntryEnds
  BY <1>5, OrderImplements
<1> QED BY <1>1, <1>2, <1>3, <1>4, <1>5 DEF Next, Pass, Environment

LEMMA InitImplements == Init => Contract!Init
<1> SUFFICES ASSUME Init PROVE Contract!Init
  OBVIOUS
<1>1. disk.state = "none" /\ order.status = "none" /\ order.filled = 0
  BY DEF Init, NoRecord
<1>2. ~(order.filled > 0)
  BY <1>1
<1>3. Claim = "none" /\ Bought = "no" /\ traded = FALSE
  BY <1>1, <1>2, ClaimIs DEF Bought, Init
<1> QED BY <1>3 DEF Contract!Init

---------------------------------------------------------------------------
(* The stop's size. ConfirmationCovers speaks of one step; what it needs   *)
(* is that the size a record gives its stop is that of the order at the    *)
(* broker, from the placement on, over every resize, restore and rearming, *)
(* and that no order was placed under an id a record has yet to come to.   *)

\* No call was lost and no pass was cut short so far.
Untouched == budget.faults = MaxFaults /\ budget.crashes = MaxCrashes

\* The record that counts: the one on disk between passes, the pass's own in one.
Current == IF pc = "idle" THEN disk ELSE mem

\* What was sold, and what is left, was bought.
SalesAreCovered == \A id \in ExitIds : position + exits[id].filled <= order.filled

\* The recorded size of the stop is that of the stop, or less than was bought.
SizedTo(record) ==
    /\ record.filled <= order.filled /\ record.stopQty <= order.filled
    /\ record.stopId # NoId =>
          record.stopQty <= exits[record.stopId].qty \/ record.stopQty < order.filled

\* The ids a record will use next are new to the broker.
Unused(record) ==
    \A id \in ExitIds : exits[id] # NoExit =>
        /\ id[1] = "stop" => id[2] <= record.attempt
        /\ id[1] = "stop_rearm" => id[2] <= record.rearm

\* A rearming has counted its id and not yet used it.
RearmIsNew ==
    \A id \in ExitIds : exits[id] # NoExit /\ id[1] = "stop_rearm" => id[2] < mem.rearm

\* Both.
Exact(record) == SizedTo(record) /\ Unused(record)

\* The invariant. A lost call or a cut pass may leave a stop that the record
\* does not know, and then only the sales are covered.
StopsAreSized ==
    /\ SalesAreCovered
    /\ Untouched => Exact(Current) /\ (pc = "rearm_place" => RearmIsNew)

\* What was said of a stop holds of every record of the same stop.
LEMMA SameStop ==
    ASSUME NEW r, NEW s, Exact(r), s.stopId = r.stopId, s.stopQty = r.stopQty,
           s.filled <= order.filled, s.attempt = r.attempt, s.rearm = r.rearm
    PROVE  Exact(s)
BY DEF Exact, SizedTo, Unused

\* transition() leaves the stop alone.
LEMMA MoveExact ==
    ASSUME NEW r \in Records, Exact(r), NEW to PROVE Exact(Move(r, to))
<1>1. Move(r, to).stopId = r.stopId /\ Move(r, to).stopQty = r.stopQty
      /\ Move(r, to).filled = r.filled /\ Move(r, to).attempt = r.attempt
      /\ Move(r, to).rearm = r.rearm
  BY DEF Move, Records
<1> QED BY <1>1, SameStop DEF Exact, SizedTo

\* Where a step inside a pass leaves the process.
Advanced == pc' \notin {"idle", "rearm_place"} /\ Exact(mem')

\* A pass that goes on takes the record along.
LEMMA GotoExact ==
    ASSUME NEW r, Exact(r), NEW step, step \notin {"idle", "rearm_place"}, Goto(step, r)
    PROVE  Advanced
BY DEF Goto, Advanced

\* So does one that goes on to save.
LEMMA EndPassExact ==
    ASSUME NEW r \in Records, Exact(r), NEW failed \in BOOLEAN, EndPass(r, failed)
    PROVE  Advanced
<1> DEFINE s == [r EXCEPT !.failing = failed]
<1>1. s.stopId = r.stopId /\ s.stopQty = r.stopQty /\ s.filled = r.filled
      /\ s.attempt = r.attempt /\ s.rearm = r.rearm
  BY DEF Records
<1> HIDE DEF s
<1>2. Exact(s)
  BY <1>1, SameStop DEF Exact, SizedTo
<1> QED BY <1>2 DEF EndPass, Advanced, s

\* So does one whose resize failed.
LEMMA ResizeFailsExact ==
    ASSUME NEW r, Exact(r), ResizeFails(r) PROVE Advanced
BY DEF ResizeFails, Advanced

\* So does one that found no position.
LEMMA AfterAbsenceExact ==
    ASSUME NEW r \in Records, Exact(r), AfterAbsence(r) PROVE Advanced
BY GotoExact, EndPassExact DEF AfterAbsence

\* place_exits() chooses what to do next and changes only the state.
LEMMA ProtectExact ==
    ASSUME NEW r \in Records, Exact(r), Protect(r) PROVE Advanced
<1>1. {Filled, Pending, Failed} \subseteq AllStates
  BY DEF AllStates
<1>2. Exact(ToPending(r))
  BY <1>1, MoveExact, MoveTyped DEF ToPending
<1>3. Exact(Move(r, Failed)) /\ Move(r, Failed) \in Records
  BY <1>1, MoveExact, MoveTyped
<1> QED BY <1>2, <1>3, GotoExact, EndPassExact DEF Protect

\* Orders stay as large as they were, and none is new.
Familiar ==
    \A id \in ExitIds : exits'[id].qty = exits[id].qty /\ (exits'[id] # NoExit => exits[id] # NoExit)

\* A record of known orders stays exact as the entry fills.
LEMMA StaysExact ==
    ASSUME TypeOK, TypeOK', Familiar, order.filled <= order'.filled, NEW r \in Records, Exact(r)
    PROVE  Exact(r)'
<1>1. /\ order.filled \in Nat /\ order'.filled \in Nat /\ r.filled \in Nat /\ r.stopQty \in Nat
      /\ r.stopId \in ExitIds \union {NoId}
  BY Constants DEF TypeOK, EntryOrders, Shares, Records
<1>2. SizedTo(r)'
  BY <1>1 DEF Exact, SizedTo, Familiar
<1>3. Unused(r)'
  BY DEF Exact, Unused, Familiar
<1> QED BY <1>2, <1>3 DEF Exact

\* A pass changes nothing of the entry order and sells nothing.
LEMMA PassSellsNothing ==
    ASSUME TypeOK, Fill \/ Target \/ Exit
    PROVE  /\ pc # "idle" /\ UNCHANGED <<disk, order, position>>
           /\ \A id \in ExitIds : exits'[id].filled = exits[id].filled
<1>1. CASE PollEntry \/ Resize \/ RecheckForResize \/ Confirm \/ CheckTarget \/ RecheckForTarget
           \/ PollSell \/ CheckExit \/ CheckAbsence \/ CheckAbsentStop \/ Rearm \/ RearmIfHeld
  BY <1>1 DEF PollEntry, Resize, RecheckForResize, Confirm, CheckTarget, RecheckForTarget, PollSell,
     CheckExit, CheckAbsence, CheckAbsentStop, Rearm, RearmIfHeld, broker, durable
<1>2. CASE CancelForResize \/ ReplaceStop \/ CancelForTarget \/ SellAtTarget \/ RestoreStop
           \/ PlaceRearmed
  BY <1>2, CallIsQuiet DEF CancelForResize, ReplaceStop, CancelForTarget, SellAtTarget, RestoreStop,
     PlaceRearmed, durable
<1> QED BY <1>1, <1>2 DEF Fill, Target, Exit

\* As long as no call is lost and nothing crashes, the budget is as it was.
LEMMA SpendTouches ==
    ASSUME TypeOK, Untouched'
    PROVE  /\ ~Spend("faults") /\ ~Spend("crashes")
           /\ UNCHANGED budget \/ Spend("closes") \/ Spend("outside") => Untouched
BY Constants DEF Spend, TypeOK, Budgets, Untouched

\* An answer that is not a lost call is the order as it is.
LEMMA LookupIsTrue ==
    ASSUME TypeOK, Untouched', NEW o, NEW answer, Lookup(o, answer)
    PROVE  answer = AnswerOf(o) /\ Untouched
BY SpendTouches DEF Lookup

\* A list of positions that is not a lost call.
LEMMA PositionsAreTrue ==
    ASSUME TypeOK, Untouched', NEW live, Positions(live) PROVE Untouched
BY SpendTouches DEF Positions

\* A placement that is not lost did what it answers.
LEMMA PlacedIsTrue ==
    ASSUME TypeOK, Untouched', NEW id, NEW qty, NEW ok \in BOOLEAN, Placed(id, qty, ok)
    PROVE  /\ Untouched
           /\ \/ ok /\ Accepts(id, qty) /\ Resting(id, qty)
              \/ /\ ok = (id \in ExitIds /\ exits[id] # NoExit)
                 /\ exits' = exits
BY SpendTouches DEF Placed

\* A cancellation places nothing.
LEMMA CancelledIsTrue ==
    ASSUME TypeOK, Untouched', NEW id, NEW ok \in BOOLEAN, Cancelled(id, ok)
    PROVE  Untouched /\ Familiar
<1>1. Untouched
  BY SpendTouches DEF Cancelled
<1>2. CASE exits' = exits
  BY <1>1, <1>2 DEF Familiar
<1>3. CASE id \in ActiveExits /\ exits' = [exits EXCEPT ![id].cancelling = TRUE]
  <2>1. exits[id] # NoExit /\ id \in ExitIds
    <3>1. id \in ExitIds /\ exits[id].status # "none"
      BY <1>3 DEF ActiveExits, ProtectiveLegIsActive, OpenStatuses
    <3> QED BY <3>1 DEF NoExit
  <2> QED BY <1>1, <1>3, <2>1 DEF Familiar, TypeOK, ExitOrders
<1> QED BY <1>1, <1>2, <1>3, SpendTouches DEF Cancelled

\* A step that places nothing.
LEMMA FamiliarStep ==
    ASSUME TypeOK, TypeOK', SalesAreCovered', Familiar, order.filled <= order'.filled,
           Advanced
    PROVE  StopsAreSized'
<1>1. mem' \in Records /\ Exact(mem')
  BY DEF TypeOK, Advanced
<1>2. \A r \in Records : Exact(r) => Exact(r)'
  BY StaysExact
<1> QED BY <1>1, StaysExact DEF StopsAreSized, Advanced, Current, Exact

\* Sales stay covered within a pass; and if anything was lost that is all there is to show.
LEMMA PassCovers ==
    ASSUME TypeOK, StopsAreSized, Fill \/ Target \/ Exit
    PROVE  SalesAreCovered' /\ (~Untouched' => StopsAreSized')
<1>1. SalesAreCovered'
  BY PassSellsNothing DEF StopsAreSized, SalesAreCovered
<1> QED BY <1>1 DEF StopsAreSized

\* A stop that was placed is tracked with the size it was placed with, under
\* the id it was placed with.
LEMMA PlacedExact ==
    ASSUME TypeOK, TypeOK', SalesAreCovered', Exact(mem), UNCHANGED order,
           NEW id \in ExitIds, NEW qty, Accepts(id, qty), Resting(id, qty),
           mem'.filled = mem.filled, qty <= order.filled,
           mem'.stopId = id, mem'.stopQty = qty,
           mem'.attempt = IF id[1] = "stop" THEN id[2] ELSE mem.attempt,
           mem'.rearm = mem.rearm, id[1] = "stop" => id[2] > mem.attempt,
           id[1] = "stop_rearm" => id[2] = mem.rearm,
           pc' \notin {"idle", "rearm_place"}
    PROVE  StopsAreSized'
<1>1. exits' \in [ExitIds -> ExitOrders] /\ exits'[id].qty = qty
      /\ \A x \in ExitIds : x # id => exits'[x] = exits[x]
  BY DEF Resting, NoExit, TypeOK
<1>2. /\ mem.attempt \in Nat /\ mem.rearm \in Nat
      /\ \A x \in ExitIds : x[2] \in Nat
  BY Constants DEF TypeOK, Records, ExitIds
<1>3. SizedTo(mem)'
  <2>1. qty \in Nat /\ order' = order
    BY Constants DEF Accepts, TypeOK, Shares
  <2>2. mem'.filled <= order'.filled /\ mem'.stopQty <= order'.filled
    BY <2>1 DEF Exact, SizedTo
  <2>3. mem'.stopQty <= exits'[mem'.stopId].qty
    BY <1>1, <2>1
  <2> QED BY <2>2, <2>3 DEF SizedTo
<1>4. Unused(mem)'
  BY <1>1, <1>2 DEF Exact, Unused
<1> QED BY <1>3, <1>4 DEF StopsAreSized, Exact, Current

\* The fill pass: polling, growing and confirming the stop.
LEMMA FillSized ==
    ASSUME TypeOK, TypeOK', StopsAreSized, Fill PROVE StopsAreSized'
<1>1. SalesAreCovered' /\ (~Untouched' => StopsAreSized') /\ pc # "idle"
      /\ UNCHANGED order /\ order.filled \in Nat
  BY PassCovers, PassSellsNothing, Constants DEF TypeOK, EntryOrders, Shares
<1> SUFFICES ASSUME Untouched' PROVE StopsAreSized'
  BY <1>1
<1>2. /\ mem \in Records /\ TRUE \in BOOLEAN /\ FALSE \in BOOLEAN /\ raised \in BOOLEAN
      /\ {Confirmed, Unprotected} \subseteq AllStates
      /\ Untouched => Exact(mem)
  BY <1>1 DEF TypeOK, AllStates, StopsAreSized, Current
<1>3. UNCHANGED exits => Familiar
  BY DEF Familiar
<1>4. Familiar /\ Advanced => StopsAreSized'
  BY <1>1, FamiliarStep
<1>5. CASE PollEntry
  <2>1. Untouched /\ UNCHANGED exits
    BY <1>5, SpendTouches, LookupIsTrue DEF PollEntry, broker
  <2>2. CASE Protect(mem)
    BY <1>2, <1>3, <1>4, <2>1, <2>2, ProtectExact
  <2>3. CASE EndPass(mem, TRUE)
    BY <1>2, <1>3, <1>4, <2>1, <2>3, EndPassExact
  <2>4. ASSUME NEW answer \in Answers(order), Protect(Refresh(mem, answer)) PROVE StopsAreSized'
    <3>1. answer.filled \in Shares /\ answer.filled <= order.filled
      <4>1. answer.filled \in {0, order.filled}
        BY DEF Answers, AnswerOf, NoAnswer, Blank
      <4> QED BY <1>1, <4>1, AnswerTyped DEF TypeOK, EntryOrders
    <3> DEFINE r == Polled(mem, answer)
    <3>2. r \in Records /\ r.filled = answer.filled /\ r.stopId = mem.stopId
          /\ r.stopQty = mem.stopQty /\ r.attempt = mem.attempt /\ r.rearm = mem.rearm
      BY <1>2, <3>1 DEF Polled, Records
    <3> HIDE DEF r
    <3>3. Exact(r)
      BY <1>2, <2>1, <3>1, <3>2, SameStop
    <3>4. Exact(Refresh(mem, answer))
      BY <3>2, <3>3, MoveExact DEF Refresh, r
    <3>5. Refresh(mem, answer) \in Records
      BY <1>2, <3>1, PolledTyped
    <3> QED BY <1>3, <1>4, <2>1, <2>4, <3>4, <3>5, ProtectExact
  <2> QED BY <1>5, <2>2, <2>3, <2>4 DEF PollEntry
<1>6. CASE Resize \/ RecheckForResize
  <2>1. Untouched /\ UNCHANGED exits
    BY <1>6, SpendTouches, LookupIsTrue DEF Resize, RecheckForResize, broker
  <2>2. Advanced
    BY <1>2, <1>6, <2>1, GotoExact, ResizeFailsExact DEF Resize, RecheckForResize
  <2> QED BY <1>3, <1>4, <2>1, <2>2
<1>7. CASE CancelForResize
  <2>1. Untouched /\ Familiar
    BY <1>7, CancelledIsTrue DEF CancelForResize
  <2>2. Advanced
    BY <1>2, <1>7, <2>1, GotoExact, ResizeFailsExact DEF CancelForResize
  <2> QED BY <1>4, <2>1, <2>2
<1>8. CASE ReplaceStop
  <2>1. PICK ok \in BOOLEAN :
           /\ Placed(NextStop, mem.filled, ok)
           /\ IF ok THEN Goto("confirm", Tracking(mem, NextStop, mem.filled))
              ELSE IF pc = "replace" THEN Goto("replace_again", mem)
              ELSE ResizeFails([mem EXCEPT !.gap = @ \/ mem.stopId # NoId])
    BY <1>8 DEF ReplaceStop
  <2>2. /\ Untouched
        /\ \/ ok /\ Accepts(NextStop, mem.filled) /\ Resting(NextStop, mem.filled)
           \/ ok = (NextStop \in ExitIds /\ exits[NextStop] # NoExit) /\ exits' = exits
    BY <2>1, PlacedIsTrue
  <2>3. NextStop \in ExitIds => exits[NextStop] = NoExit
    BY <1>2, <2>2 DEF NextStop, Exact, Unused, Records
  <2>4. CASE ok
    <3>1. Accepts(NextStop, mem.filled) /\ Resting(NextStop, mem.filled) /\ NextStop \in ExitIds
      BY <2>2, <2>3, <2>4 DEF Accepts
    <3>2. pc' = "confirm" /\ mem' = Tracking(mem, NextStop, mem.filled)
      BY <2>1, <2>4 DEF Goto
    <3>3. /\ mem'.filled = mem.filled /\ mem'.stopId = NextStop /\ mem'.stopQty = mem.filled
          /\ mem'.attempt = NextStop[2] /\ mem'.rearm = mem.rearm
      BY <1>2, <3>2 DEF Tracking, Records
    <3>4. NextStop[1] = "stop" /\ NextStop[2] > mem.attempt /\ mem.filled <= order.filled
      BY <1>2, <2>2, Constants DEF NextStop, Records, Exact, SizedTo
    <3> QED BY <1>1, <1>2, <2>2, <3>1, <3>2, <3>3, <3>4, PlacedExact
  <2>5. CASE ~ok
    <3> DEFINE r == [mem EXCEPT !.gap = @ \/ mem.stopId # NoId]
    <3>1. r.filled = mem.filled /\ r.stopId = mem.stopId /\ r.stopQty = mem.stopQty
          /\ r.attempt = mem.attempt /\ r.rearm = mem.rearm
      BY <1>2 DEF Records
    <3>2. Exact(r)
      BY <1>2, <2>2, <3>1, SameStop DEF Exact, SizedTo
    <3>3. Goto("replace_again", mem) \/ ResizeFails(r)
      BY <2>1, <2>5
    <3> HIDE DEF r
    <3> QED BY <1>2, <1>3, <1>4, <2>2, <2>5, <3>2, <3>3, GotoExact, ResizeFailsExact
  <2> QED BY <2>4, <2>5
<1>9. CASE Confirm
  <2>1. Untouched /\ UNCHANGED exits
    BY <1>9, SpendTouches, LookupIsTrue DEF Confirm, broker
  <2>2. CASE EndPass(Move(mem, Unprotected), raised)
    BY <1>2, <1>3, <1>4, <2>1, <2>2, MoveExact, MoveTyped, EndPassExact
  <2>3. CASE EndPass(Move([mem EXCEPT !.gap = FALSE], Confirmed), raised)
    <3> DEFINE r == [mem EXCEPT !.gap = FALSE]
    <3>1. r \in Records /\ r.filled = mem.filled /\ r.stopId = mem.stopId
          /\ r.stopQty = mem.stopQty /\ r.attempt = mem.attempt /\ r.rearm = mem.rearm
      BY <1>2 DEF Records
    <3> HIDE DEF r
    <3>2. Exact(r)
      BY <1>2, <2>1, <3>1, SameStop DEF Exact, SizedTo
    <3>3. EndPass(Move(r, Confirmed), raised)
      BY <2>3 DEF r
    <3> QED BY <1>2, <1>3, <1>4, <2>1, <3>1, <3>2, <3>3, MoveExact, MoveTyped, EndPassExact
  <2>4. ASSUME NEW n \in {0, mem.stopQty},
               EndPass(Move([mem EXCEPT !.stopQty = n], Unprotected), raised)
        PROVE  StopsAreSized'
    <3> DEFINE r == [mem EXCEPT !.stopQty = n]
    <3>1. n \in Shares
      BY <1>2, Constants DEF Records, Shares
    <3>2. r \in Records /\ r.filled = mem.filled /\ r.stopId = mem.stopId
          /\ r.stopQty = n /\ r.attempt = mem.attempt /\ r.rearm = mem.rearm
      BY <1>2, <3>1 DEF Records
    <3>3. r.stopId # NoId => exits[r.stopId].qty \in Nat
      BY <1>2, <3>2, StopIsId, Constants DEF ExitOrders, Shares
    <3> HIDE DEF r
    <3>4. Exact(r)
      BY <1>1, <1>2, <2>1, <3>2, <3>3 DEF Exact, SizedTo, Unused
    <3>5. EndPass(Move(r, Unprotected), raised)
      BY <2>4 DEF r
    <3> QED BY <1>2, <1>3, <1>4, <2>1, <3>2, <3>4, <3>5, MoveExact, MoveTyped, EndPassExact
  <2> QED
    <3>1. ASSUME NEW answer,
                 EndPass(Move([mem EXCEPT !.stopQty =
                                 IF ProtectiveLegIsDead(answer.status) THEN 0 ELSE @],
                              Unprotected), raised)
          PROVE  StopsAreSized'
      BY <2>4, <3>1
    <3> QED BY <1>9, <2>2, <2>3, <3>1 DEF Confirm
<1> QED BY <1>5, <1>6, <1>7, <1>8, <1>9 DEF Fill

\* The target pass: cancelling the stop, selling, restoring it.
LEMMA TargetSized ==
    ASSUME TypeOK, TypeOK', StopsAreSized, Target PROVE StopsAreSized'
<1>1. SalesAreCovered' /\ (~Untouched' => StopsAreSized') /\ pc # "idle"
      /\ UNCHANGED order /\ order.filled \in Nat
  BY PassCovers, PassSellsNothing, Constants DEF TypeOK, EntryOrders, Shares
<1> SUFFICES ASSUME Untouched' PROVE StopsAreSized'
  BY <1>1
<1>2. /\ mem \in Records /\ TRUE \in BOOLEAN /\ FALSE \in BOOLEAN /\ Closed \in AllStates
      /\ Untouched => Exact(mem)
  BY <1>1 DEF TypeOK, AllStates, StopsAreSized, Current
<1>3. UNCHANGED exits => Familiar
  BY DEF Familiar
<1>4. Familiar /\ Advanced => StopsAreSized'
  BY <1>1, FamiliarStep
<1>5. CASE CheckTarget \/ PollSell
  <2>1. Untouched /\ UNCHANGED exits
    BY <1>5, SpendTouches, LookupIsTrue DEF CheckTarget, PollSell, broker
  <2>2. Exact(Move(mem, Closed)) /\ Move(mem, Closed) \in Records
    BY <1>2, <2>1, MoveExact, MoveTyped
  <2>3. Advanced
    BY <1>2, <1>5, <2>1, <2>2, GotoExact, EndPassExact DEF CheckTarget, PollSell
  <2> QED BY <1>3, <1>4, <2>1, <2>3
<1>6. CASE CancelForTarget
  <2>1. Untouched /\ Familiar
    BY <1>6, CancelledIsTrue DEF CancelForTarget
  <2>2. Advanced
    BY <1>2, <1>6, <2>1, GotoExact, EndPassExact DEF CancelForTarget
  <2> QED BY <1>4, <2>1, <2>2
<1>7. CASE RecheckForTarget
  <2> DEFINE r == [mem EXCEPT !.sell = NextAttempt(@)]
  <2>1. Untouched /\ UNCHANGED exits
    BY <1>7, SpendTouches, LookupIsTrue DEF RecheckForTarget, broker
  <2>2. r.filled = mem.filled /\ r.stopId = mem.stopId /\ r.stopQty = mem.stopQty
        /\ r.attempt = mem.attempt /\ r.rearm = mem.rearm
    BY <1>2 DEF Records
  <2>3. EndPass(mem, TRUE) \/ Goto("exit", mem) \/ Goto("sell", r)
    BY <1>7 DEF RecheckForTarget
  <2> HIDE DEF r
  <2>4. Exact(r)
    BY <1>2, <2>1, <2>2, SameStop DEF Exact, SizedTo
  <2>5. Advanced
    BY <1>2, <2>1, <2>3, <2>4, GotoExact, EndPassExact
  <2> QED BY <1>3, <1>4, <2>1, <2>5
<1>8. CASE SellAtTarget
  <2>1. PICK ok \in BOOLEAN : /\ Placed(SellId(mem), StopSize(mem), ok)
                              /\ Goto(IF ok THEN "sell_poll" ELSE "restore", mem)
    BY <1>8 DEF SellAtTarget
  <2>2. /\ Untouched
        /\ \/ Accepts(SellId(mem), StopSize(mem)) /\ Resting(SellId(mem), StopSize(mem))
           \/ exits' = exits
    BY <2>1, PlacedIsTrue
  <2>3. Advanced
    BY <1>2, <2>1, <2>2, GotoExact
  <2>4. CASE exits' = exits
    BY <1>3, <1>4, <2>3, <2>4
  <2>5. CASE Accepts(SellId(mem), StopSize(mem)) /\ Resting(SellId(mem), StopSize(mem))
    <3>1. /\ SellId(mem) \in ExitIds /\ SellId(mem)[1] = "target_exit"
          /\ exits[SellId(mem)] = NoExit
          /\ \A x \in ExitIds : x # SellId(mem) => exits'[x] = exits[x]
          /\ exits' \in [ExitIds -> ExitOrders]
          /\ exits'[SellId(mem)].qty = StopSize(mem)
      BY <2>5 DEF Accepts, Resting, SellId, TypeOK, NoExit
    <3>2. mem' = mem /\ pc' \notin {"idle", "rearm_place"}
      BY <2>1 DEF Goto
    <3>3. Unused(mem)'
      BY <1>2, <2>2, <3>1, <3>2 DEF Exact, Unused
    <3>4. \A x \in ExitIds : exits[x].qty <= exits'[x].qty /\ exits[x].qty \in Nat
                             /\ exits'[x].qty \in Nat
      <4>1. NoExit.qty = 0 /\ \A x \in ExitIds : exits[x].qty \in Nat /\ exits'[x].qty \in Nat
        BY <3>1, Constants DEF NoExit, TypeOK, ExitOrders, Shares
      <4> QED BY <3>1, <4>1
    <3>5. mem.stopQty \in Nat /\ mem.stopId \in ExitIds \union {NoId}
      BY <1>2, Constants DEF Records, Shares
    <3>6. SizedTo(mem)'
      BY <1>1, <1>2, <2>2, <3>2, <3>4, <3>5 DEF Exact, SizedTo
    <3> QED BY <1>1, <3>2, <3>3, <3>6 DEF StopsAreSized, Exact, Current
  <2> QED BY <2>2, <2>4, <2>5
<1>9. CASE RestoreStop
  <2>1. PICK ok \in BOOLEAN :
           /\ Placed(NextStop, StopSize(mem), ok)
           /\ EndPass(IF ok THEN Tracking(mem, NextStop, StopSize(mem)) ELSE mem, TRUE)
    BY <1>9 DEF RestoreStop
  <2>2. /\ Untouched
        /\ \/ ok /\ Accepts(NextStop, StopSize(mem)) /\ Resting(NextStop, StopSize(mem))
           \/ ok = (NextStop \in ExitIds /\ exits[NextStop] # NoExit) /\ exits' = exits
    BY <2>1, PlacedIsTrue
  <2>3. NextStop \in ExitIds => exits[NextStop] = NoExit
    BY <1>2, <2>2 DEF NextStop, Exact, Unused, Records
  <2>4. CASE ok
    <3>1. /\ Accepts(NextStop, StopSize(mem)) /\ Resting(NextStop, StopSize(mem))
          /\ NextStop \in ExitIds
      BY <2>2, <2>3, <2>4 DEF Accepts
    <3> DEFINE r == Tracking(mem, NextStop, StopSize(mem))
    <3>2. /\ r \in Records /\ r.filled = mem.filled /\ r.stopId = NextStop
          /\ r.stopQty = StopSize(mem) /\ r.attempt = NextStop[2] /\ r.rearm = mem.rearm
      BY <1>2, <3>1, StopSizeTyped, TrackingTyped DEF Tracking, Records
    <3>3. EndPass(r, TRUE)
      BY <2>1, <2>4
    <3> HIDE DEF r
    <3>4. /\ mem'.filled = mem.filled /\ mem'.stopId = NextStop /\ mem'.stopQty = StopSize(mem)
          /\ mem'.attempt = NextStop[2] /\ mem'.rearm = mem.rearm
          /\ pc' \notin {"idle", "rearm_place"}
      BY <3>2, <3>3 DEF EndPass, Records
    <3>5. NextStop[1] = "stop" /\ NextStop[2] > mem.attempt /\ StopSize(mem) <= order.filled
      BY <1>2, <2>2, Constants DEF NextStop, Records, Exact, SizedTo, StopSize
    <3> QED BY <1>1, <1>2, <2>2, <3>1, <3>4, <3>5, PlacedExact
  <2>5. CASE ~ok
    BY <1>2, <1>3, <1>4, <2>1, <2>2, <2>5, EndPassExact
  <2> QED BY <2>4, <2>5
<1> QED BY <1>5, <1>6, <1>7, <1>8, <1>9 DEF Target

\* The exit pass: a stop that filled, vanished or is rearmed.
LEMMA ExitSized ==
    ASSUME TypeOK, TypeOK', RecordsAreTruthful, StopsAreSized, Exit PROVE StopsAreSized'
<1>1. SalesAreCovered' /\ (~Untouched' => StopsAreSized') /\ pc # "idle"
      /\ UNCHANGED order /\ order.filled \in Nat
  BY PassCovers, PassSellsNothing, Constants DEF TypeOK, EntryOrders, Shares
<1> SUFFICES ASSUME Untouched' PROVE StopsAreSized'
  BY <1>1
<1>2. /\ mem \in Records /\ TRUE \in BOOLEAN /\ FALSE \in BOOLEAN
      /\ {Closed, Pending} \subseteq AllStates
      /\ Untouched => Exact(mem) /\ (pc = "rearm_place" => RearmIsNew)
  BY <1>1 DEF TypeOK, AllStates, StopsAreSized, Current
<1>3. UNCHANGED exits => Familiar
  BY DEF Familiar
<1>4. Familiar /\ Advanced => StopsAreSized'
  BY <1>1, FamiliarStep
<1>5. CASE CheckExit
  <2>1. Untouched /\ UNCHANGED exits
    BY <1>5, SpendTouches, LookupIsTrue DEF CheckExit, broker
  <2>2. CASE mem.stopId = NoId
    BY <1>2, <1>3, <1>4, <1>5, <2>1, <2>2, GotoExact DEF CheckExit
  <2>3. CASE mem.stopId # NoId
    <3>1. PICK answer \in Answers(exits[mem.stopId]) :
             LET left == Remaining(mem, answer.filled) IN
             IF answer = NoAnswer THEN EndPass(mem, TRUE) /\ UNCHANGED traded
             ELSE IF answer.filled = 0 THEN Goto("absent", mem) /\ UNCHANGED traded
             ELSE IF left = 0
             THEN EndPass(Move(mem, Closed), FALSE) /\ traded' = TRUE
             ELSE /\ Goto("confirm", Move([mem EXCEPT !.stopQty = left, !.filled = left], Pending))
                  /\ UNCHANGED traded
      BY <1>5, <2>3 DEF CheckExit
    <3>2. CASE EndPass(mem, TRUE) \/ Goto("absent", mem) \/ EndPass(Move(mem, Closed), FALSE)
      BY <1>2, <1>3, <1>4, <2>1, <3>2, GotoExact, EndPassExact, MoveExact, MoveTyped
    <3>3. ASSUME answer.filled # 0,
                 NEW n, n = Remaining(mem, answer.filled), n # 0,
                 Goto("confirm", Move([mem EXCEPT !.stopQty = n, !.filled = n], Pending))
          PROVE  StopsAreSized'
      <4>1. answer.filled \in Nat /\ answer.filled > 0
        <5>1. exits[mem.stopId].filled \in Shares
          BY <2>3, StopIsId DEF ExitOrders
        <5> QED BY <3>3, <5>1, AnswerTyped, Constants DEF Shares
      <4>2. StopSize(mem) \in Nat /\ StopSize(mem) <= order.filled
        BY <1>2, <2>1, StopSizeTyped, Constants DEF Exact, SizedTo, StopSize, Shares
      <4>3. n \in Nat /\ n < order.filled
        BY <1>1, <3>3, <4>1, <4>2 DEF Remaining
      <4>4. n \in Shares
        BY <1>1, <4>3, Constants DEF TypeOK, EntryOrders, Shares
      <4> DEFINE r == [mem EXCEPT !.stopQty = n, !.filled = n]
      <4>5. r \in Records /\ r.filled = n /\ r.stopId = mem.stopId
            /\ r.stopQty = n /\ r.attempt = mem.attempt /\ r.rearm = mem.rearm
        BY <1>2, <4>4 DEF Records
      <4> HIDE DEF r
      <4>6. Exact(r)
        BY <1>1, <1>2, <2>1, <4>3, <4>5 DEF Exact, SizedTo, Unused
      <4>7. Goto("confirm", Move(r, Pending))
        BY <3>3 DEF r
      <4> QED BY <1>3, <1>4, <2>1, <4>5, <4>6, <4>7, MoveExact, GotoExact
    <3> QED BY <3>1, <3>2, <3>3
  <2> QED BY <2>2, <2>3
<1>6. ASSUME Untouched, NEW n \in 0 .. ConfirmPasses
      PROVE  [mem EXCEPT !.absent = n] \in Records /\ Exact([mem EXCEPT !.absent = n])
  <2> DEFINE r == [mem EXCEPT !.absent = n]
  <2>1. r \in Records /\ r.filled = mem.filled /\ r.stopId = mem.stopId
        /\ r.stopQty = mem.stopQty /\ r.attempt = mem.attempt /\ r.rearm = mem.rearm
    BY <1>2 DEF Records
  <2> HIDE DEF r
  <2>2. Exact(r)
    BY <1>2, <1>6, <2>1, SameStop DEF Exact, SizedTo
  <2> QED BY <2>1, <2>2 DEF r
<1>7. CASE CheckAbsence
  <2>1. Untouched /\ UNCHANGED exits /\ 0 \in 0 .. ConfirmPasses
    BY <1>7, PositionsAreTrue, Constants DEF CheckAbsence, broker
  <2>2. Advanced
    BY <1>2, <1>6, <1>7, <2>1, GotoExact, AfterAbsenceExact DEF CheckAbsence
  <2> QED BY <1>3, <1>4, <2>1, <2>2
<1>8. CASE CheckAbsentStop
  <2>1. Untouched /\ UNCHANGED exits
    BY <1>8, SpendTouches, LookupIsTrue DEF CheckAbsentStop, broker
  <2>2. mem.absent + 1 \in 0 .. ConfirmPasses /\ 0 \in 0 .. ConfirmPasses
    BY <1>2, <1>8, Constants DEF RecordsAreTruthful, CheckAbsentStop, Flagged, Records
  <2>3. AfterAbsence([mem EXCEPT !.absent = @ + 1]) \/ AfterAbsence([mem EXCEPT !.absent = 0])
    BY <1>8 DEF CheckAbsentStop
  <2>4. Advanced
    BY <1>2, <1>6, <2>1, <2>2, <2>3, AfterAbsenceExact
  <2> QED BY <1>3, <1>4, <2>1, <2>4
<1>9. CASE Rearm
  <2>1. Untouched /\ UNCHANGED exits
    BY <1>9, SpendTouches, LookupIsTrue DEF Rearm, broker
  <2>2. Advanced
    BY <1>2, <1>9, <2>1, GotoExact, EndPassExact DEF Rearm
  <2> QED BY <1>3, <1>4, <2>1, <2>2
<1>10. CASE RearmIfHeld
  <2>1. Untouched /\ UNCHANGED exits
    BY <1>10, PositionsAreTrue DEF RearmIfHeld, broker
  <2> DEFINE r == [mem EXCEPT !.rearm = NextAttempt(@)]
  <2>2. r.filled = mem.filled /\ r.stopId = mem.stopId /\ r.stopQty = mem.stopQty
        /\ r.attempt = mem.attempt /\ r.rearm = NextAttempt(mem.rearm)
    BY <1>2 DEF Records
  <2>3. EndPass(mem, FALSE) \/ Goto("rearm_place", r)
    BY <1>10 DEF RearmIfHeld
  <2> HIDE DEF r
  <2>4. CASE EndPass(mem, FALSE)
    BY <1>2, <1>3, <1>4, <2>1, <2>4, EndPassExact
  <2>5. CASE Goto("rearm_place", r)
    <3>1. mem' = r /\ pc' = "rearm_place"
      BY <2>5 DEF Goto
    <3>2. \A id \in ExitIds : exits[id] # NoExit /\ id[1] = "stop_rearm" => id[2] < r.rearm
      <4>1. mem.rearm \in 0 .. (MaxAttempts + 1) /\ \A id \in ExitIds : id[2] \in 1 .. MaxAttempts
        BY <1>2 DEF Records, ExitIds
      <4> QED BY <1>2, <2>1, <2>2, <4>1, Constants DEF Exact, Unused, NextAttempt
    <3>3. SizedTo(mem)'
      BY <1>1, <1>2, <2>1, <2>2, <3>1 DEF Exact, SizedTo
    <3>4. Unused(mem)' /\ RearmIsNew'
      <4>1. \A id \in ExitIds : id[2] \in Nat
        BY Constants DEF ExitIds
      <4>2. r.rearm \in Nat
        BY <1>2, <2>2, NextAttemptTyped, Constants DEF Records
      <4> QED BY <1>2, <2>1, <2>2, <3>1, <3>2, <4>1, <4>2 DEF Exact, Unused, RearmIsNew
    <3> QED BY <1>1, <3>1, <3>3, <3>4 DEF StopsAreSized, Exact, Current
  <2> QED BY <2>3, <2>4, <2>5
<1>11. CASE PlaceRearmed
  <2> DEFINE id == <<"stop_rearm", mem.rearm>>
  <2>1. PICK ok \in BOOLEAN, qty \in seen :
           /\ Placed(id, qty, ok)
           /\ EndPass(IF ok THEN [mem EXCEPT !.stopId = id, !.stopQty = qty] ELSE mem, ~ok)
    BY <1>11 DEF PlaceRearmed
  <2>2. /\ Untouched /\ (~ok) \in BOOLEAN
        /\ \/ ok /\ Accepts(id, qty) /\ Resting(id, qty)
           \/ ok = (id \in ExitIds /\ exits[id] # NoExit) /\ exits' = exits
    BY <2>1, PlacedIsTrue
  <2>3. id \in ExitIds => exits[id] = NoExit
    BY <1>2, <1>11, <2>2, Constants DEF RearmIsNew, PlaceRearmed, Records
  <2>4. CASE ok
    <3>1. Accepts(id, qty) /\ Resting(id, qty) /\ id \in ExitIds /\ qty \in Shares
      BY <2>1, <2>2, <2>3, <2>4 DEF Accepts, TypeOK
    <3> DEFINE r == [mem EXCEPT !.stopId = id, !.stopQty = qty]
    <3>2. /\ r \in Records /\ r.filled = mem.filled /\ r.stopId = id
          /\ r.stopQty = qty /\ r.attempt = mem.attempt /\ r.rearm = mem.rearm
      BY <1>2, <3>1 DEF Records
    <3>3. EndPass(r, ~ok)
      BY <2>1, <2>4
    <3> HIDE DEF r
    <3>4. /\ mem'.filled = mem.filled /\ mem'.stopId = id /\ mem'.stopQty = qty
          /\ mem'.attempt = mem.attempt /\ mem'.rearm = mem.rearm
          /\ pc' \notin {"idle", "rearm_place"}
      BY <3>2, <3>3 DEF EndPass, Records
    <3>5. qty <= order.filled
      BY <1>1, <3>1, Constants DEF Accepts, RecordsAreTruthful, TypeOK, Shares
    <3>6. id[1] = "stop_rearm" /\ id[2] = mem.rearm
      OBVIOUS
    <3> HIDE DEF id
    <3> QED BY <1>1, <1>2, <2>2, <3>1, <3>4, <3>5, <3>6, PlacedExact
  <2>5. CASE ~ok
    BY <1>2, <1>3, <1>4, <2>1, <2>2, <2>5, EndPassExact
  <2> QED BY <2>4, <2>5
<1> QED BY <1>5, <1>7, <1>8, <1>9, <1>10, <1>11 DEF Exit

\* The steps that begin and end a pass, and the restart.
LEMMA EndsSized ==
    ASSUME TypeOK, TypeOK', StopsAreSized,
           PlaceEntry \/ Save \/ Monitor \/ Submit \/ ResolveAbsent \/ Crash
    PROVE  StopsAreSized'
<1>1. /\ UNCHANGED <<exits, position>> /\ order'.filled = order.filled
      /\ order.filled \in Nat /\ order.filled <= order'.filled
  BY Constants DEF PlaceEntry, Save, Monitor, MonitorBegin, ReconcileUnknown, Submit, ResolveAbsent,
     Crash, broker, TypeOK, EntryOrders, Shares
<1>2. SalesAreCovered'
  BY <1>1 DEF StopsAreSized, SalesAreCovered
<1> SUFFICES ASSUME Untouched' PROVE StopsAreSized'
  BY <1>2 DEF StopsAreSized
<1>3. Familiar /\ disk \in Records /\ mem \in Records
      /\ {Failed, Unknown, Submitted, Closed} \subseteq AllStates
  BY <1>1 DEF Familiar, TypeOK, AllStates
<1>4. Advanced => StopsAreSized'
  BY <1>1, <1>2, <1>3, FamiliarStep
<1>5. CASE PlaceEntry
  <2>1. Untouched /\ pc = "place"
    BY <1>5, SpendTouches DEF PlaceEntry
  <2>2. Exact(mem)
    BY <2>1 DEF StopsAreSized, Current
  <2>3. Goto("poll", mem) \/ Goto("save", Move(mem, Failed)) \/ Goto("save", Move(mem, Unknown))
    BY <1>5 DEF PlaceEntry
  <2> QED BY <1>3, <1>4, <2>2, <2>3, MoveExact, GotoExact
<1>6. CASE Save
  <2>1. Untouched /\ pc = "save" /\ disk' = mem /\ pc' = "idle"
    BY <1>6, SpendTouches DEF Save
  <2>2. Exact(disk)'
    <3>1. Exact(mem)
      BY <2>1 DEF StopsAreSized, Current
    <3> QED BY <1>1, <2>1, <3>1 DEF Exact, SizedTo, Unused
  <2> QED BY <1>2, <2>1, <2>2 DEF StopsAreSized, Current
<1>7. CASE MonitorBegin
  <2>1. Untouched /\ pc = "idle" /\ mem' = disk /\ pc' \in {"target", "stuck", "poll"}
    BY <1>7, SpendTouches DEF MonitorBegin
  <2> QED BY <1>4, <2>1 DEF StopsAreSized, Current, Advanced
<1>8. CASE ReconcileUnknown
  <2>1. Untouched /\ pc = "idle" /\ pc' \in {"save", "poll"}
    BY <1>8, SpendTouches DEF ReconcileUnknown
  <2>2. Exact(disk)
    BY <2>1 DEF StopsAreSized, Current
  <2>3. Exact(Rejected(disk))
    <3> DEFINE r == [disk EXCEPT !.rejections = IF @ < MinRejections THEN @ + 1 ELSE @]
    <3>1. r \in Records /\ r.filled = disk.filled /\ r.stopId = disk.stopId
          /\ r.stopQty = disk.stopQty /\ r.attempt = disk.attempt /\ r.rearm = disk.rearm
      BY <1>3, Constants DEF Records
    <3> HIDE DEF r
    <3>2. Exact(r)
      BY <2>2, <3>1, SameStop DEF Exact, SizedTo
    <3> QED BY <1>3, <2>2, <3>1, <3>2, MoveExact DEF Rejected, r
  <2>4. Exact(mem')
    BY <1>3, <1>8, <2>2, <2>3, MoveExact DEF ReconcileUnknown
  <2> QED BY <1>4, <2>1, <2>4 DEF Advanced
<1>9. CASE Submit
  <2>1. Untouched /\ pc = "idle" /\ disk = NoRecord /\ pc' \in {"place", "save"}
    BY <1>9, SpendTouches DEF Submit
  <2> DEFINE r == [NoRecord EXCEPT !.state = Submitted]
  <2>2. /\ r \in Records /\ r.filled = NoRecord.filled /\ r.stopId = NoRecord.stopId
        /\ r.stopQty = NoRecord.stopQty /\ r.attempt = NoRecord.attempt
        /\ r.rearm = NoRecord.rearm
    BY <1>3, NoRecordTyped DEF Records, NoRecord
  <2>3. mem' = r \/ mem' = Move(r, Failed)
    BY <1>9 DEF Submit
  <2> HIDE DEF r
  <2>4. Exact(r)
    BY <2>1, <2>2, SameStop DEF StopsAreSized, Current, Exact, SizedTo
  <2>5. Exact(mem')
    BY <2>2, <2>3, <2>4, MoveExact
  <2> QED BY <1>4, <2>1, <2>5 DEF Advanced
<1>10. CASE ResolveAbsent
  <2>1. Untouched /\ pc = "idle" /\ pc' = "idle" /\ disk' = Move(disk, Closed)
    BY <1>10, SpendTouches DEF ResolveAbsent, process
  <2>2. Exact(Move(disk, Closed))
    BY <1>3, <2>1, MoveExact DEF StopsAreSized, Current
  <2>3. Exact(disk)'
    BY <1>1, <2>1, <2>2 DEF Exact, SizedTo, Unused
  <2> QED BY <1>2, <2>1, <2>3 DEF StopsAreSized, Current
<1>11. ~Crash
  BY SpendTouches DEF Crash
<1> QED BY <1>5, <1>6, <1>7, <1>8, <1>9, <1>10, <1>11 DEF Monitor

\* An order that rests was placed.
LEMMA ActiveIsPlaced ==
    ASSUME NEW id \in ActiveExits PROVE id \in ExitIds /\ exits[id] # NoExit
<1>1. id \in ExitIds /\ exits[id].status \in OpenStatuses
  BY DEF ActiveExits, ProtectiveLegIsActive
<1>2. NoExit.status \notin OpenStatuses
  BY DEF NoExit, OpenStatuses
<1> QED BY <1>1, <1>2

\* What the broker, the market and the account's owner do.
LEMMA EnvironmentSized ==
    ASSUME TypeOK, TypeOK', RecordsAreTruthful, StopsAreSized, Environment
    PROVE  StopsAreSized'
<1>1. /\ order.filled \in Nat /\ position \in Nat /\ UNCHANGED <<pc, mem, disk>>
      /\ mem \in Records /\ disk \in Records
      /\ \A id \in ExitIds : exits[id].filled \in Nat /\ exits[id].qty \in Nat
  <2>1. UNCHANGED <<pc, mem, disk>>
    BY Zenon DEF Environment, Shown, EntryFills, EntryEnds, ExitFills, CancelLands, ExitExpires,
       MarketCloses, MarketOpens, Outside, process, durable
  <2> QED BY <2>1, Constants DEF TypeOK, EntryOrders, ExitOrders, Shares
<1>2. ASSUME NEW id \in ActiveExits, Ended(id)
      PROVE  /\ Familiar
             /\ \A x \in ExitIds : exits'[x].filled = exits[x].filled
  <2>1. id \in ExitIds /\ exits[id] # NoExit
    BY ActiveIsPlaced
  <2> QED BY <1>2, <2>1 DEF Ended, Familiar, TypeOK, ExitOrders
<1>3. UNCHANGED exits => Familiar
  BY DEF Familiar
<1>4. SalesAreCovered' /\ Familiar /\ order.filled <= order'.filled
  <2>1. CASE Shown \/ EntryEnds \/ MarketCloses \/ MarketOpens
    BY <1>1, <1>3, <2>1 DEF Shown, EntryEnds, MarketCloses, MarketOpens, StopsAreSized, SalesAreCovered,
       TypeOK, EntryOrders
  <2>2. CASE EntryFills
    <3>1. PICK more \in 1 .. (Quantity - order.filled) :
             /\ order' = [filled |-> order.filled + more,
                          status |-> IF order.filled + more = Quantity THEN "FILLED"
                                     ELSE "PARTIAL FILLED"]
             /\ position' = position + more
      BY <2>2 DEF EntryFills
    <3>2. UNCHANGED exits /\ more \in Nat
      <4>1. more \in Nat
        BY <1>1, Constants
      <4> QED BY <2>2, <4>1 DEF EntryFills
    <3>3. order'.filled = order.filled + more /\ position' = position + more
      BY <3>1
    <3>4. Familiar /\ order.filled <= order'.filled
      BY <1>1, <1>3, <3>2, <3>3
    <3>5. SalesAreCovered'
      BY <1>1, <3>2, <3>3 DEF StopsAreSized, SalesAreCovered
    <3> QED BY <3>4, <3>5
  <2>3. CASE ExitFills
    <3>1. PICK id \in ActiveExits : \E more \in 1 .. (exits[id].qty - exits[id].filled) :
             /\ more <= position
             /\ exits' = [exits EXCEPT ![id].filled = @ + more,
                   ![id].status = IF exits[id].filled + more = exits[id].qty
                                  THEN "FILLED" ELSE "PARTIAL FILLED"]
             /\ position' = position - more
      BY <2>3 DEF ExitFills
    <3>2. PICK more \in 1 .. (exits[id].qty - exits[id].filled) :
             /\ more <= position
             /\ exits' = [exits EXCEPT ![id].filled = @ + more,
                   ![id].status = IF exits[id].filled + more = exits[id].qty
                                  THEN "FILLED" ELSE "PARTIAL FILLED"]
             /\ position' = position - more
      BY <3>1
    <3>3. id \in ExitIds /\ exits[id] # NoExit /\ UNCHANGED order
      BY <2>3, ActiveIsPlaced DEF ExitFills
    <3>4. more \in Nat /\ \A x \in ExitIds : exits'[x].qty = exits[x].qty
          /\ exits'[x].filled \in {exits[x].filled, exits[x].filled + more}
          /\ (x # id => exits'[x] = exits[x])
      <4>1. more \in Nat
        <5>1. exits[id].qty \in Nat /\ exits[id].filled \in Nat
          BY <1>1, <3>3
        <5> QED BY <5>1
      <4> DEFINE status == IF exits[id].filled + more = exits[id].qty THEN "FILLED"
                           ELSE "PARTIAL FILLED"
      <4>2. exits' = [exits EXCEPT ![id].filled = @ + more, ![id].status = status]
        BY <3>2
      <4> HIDE DEF status
      <4>3. exits'[id].qty = exits[id].qty /\ exits'[id].filled = exits[id].filled + more
        BY <3>3, <4>2 DEF TypeOK, ExitOrders
      <4>4. \A x \in ExitIds : x # id => exits'[x] = exits[x]
        BY <3>3, <4>2 DEF TypeOK
      <4> QED BY <4>1, <4>3, <4>4
    <3>5. Familiar
      BY <3>3, <3>4 DEF Familiar
    <3>6. position' = position - more /\ more <= position
      BY <3>2, Zenon
    <3>7. SalesAreCovered'
      BY <1>1, <3>3, <3>4, <3>6 DEF StopsAreSized, SalesAreCovered
    <3> QED BY <1>1, <3>3, <3>5, <3>7
  <2>4. CASE CancelLands \/ ExitExpires \/ Outside
    <3>1. Familiar /\ UNCHANGED order /\ position' <= position /\ position' \in Nat
          /\ \A x \in ExitIds : exits'[x].filled = exits[x].filled
      BY <1>1, <1>2, <1>3, <2>4 DEF CancelLands, ExitExpires, Outside
    <3> QED BY <1>1, <3>1 DEF StopsAreSized, SalesAreCovered
  <2> QED BY <2>1, <2>2, <2>3, <2>4 DEF Environment
<1> SUFFICES ASSUME Untouched' PROVE StopsAreSized'
  BY <1>4 DEF StopsAreSized
<1>5. Untouched
  BY SpendTouches DEF Environment, Shown, EntryFills, EntryEnds, ExitFills, CancelLands, ExitExpires,
     MarketCloses, MarketOpens, Outside
<1>6. Exact(Current) /\ Current \in Records /\ Current' = Current
  BY <1>1, <1>5 DEF StopsAreSized, Current
<1>7. \A r \in Records : Exact(r) => Exact(r)'
  BY <1>4, StaysExact
<1>8. Exact(Current)'
  <2>1. CASE pc = "idle"
    BY <1>1, <1>6, <1>7, <2>1 DEF Current, Exact, SizedTo, Unused
  <2>2. CASE pc # "idle"
    BY <1>1, <1>6, <1>7, <2>2 DEF Current, Exact, SizedTo, Unused
  <2> QED BY <2>1, <2>2
<1>9. pc = "rearm_place" => RearmIsNew'
  BY <1>1, <1>4, <1>5 DEF StopsAreSized, RearmIsNew, Familiar
<1> QED BY <1>1, <1>4, <1>8, <1>9 DEF StopsAreSized

\* At the start there is nothing to size.
LEMMA InitSized == Init => StopsAreSized
<1> SUFFICES ASSUME Init PROVE StopsAreSized
  OBVIOUS
<1>1. /\ pc = "idle" /\ disk = NoRecord /\ position = 0 /\ order.filled = 0
      /\ \A id \in ExitIds : exits[id] = NoExit
  BY DEF Init
<1>2. SalesAreCovered /\ Exact(disk)
  BY <1>1 DEF SalesAreCovered, Exact, SizedTo, Unused, NoExit, NoRecord
<1> QED BY <1>1, <1>2 DEF StopsAreSized, Current

\* Every step keeps the stops sized.
LEMMA StepSized ==
    ASSUME TypeOK, TypeOK', RecordsAreTruthful, StopsAreSized, [Next]_vars
    PROVE  StopsAreSized'
<1>1. CASE UNCHANGED vars
  BY <1>1 DEF vars, process, durable, broker, StopsAreSized, SalesAreCovered, Untouched, Current,
     Exact, SizedTo, Unused, RearmIsNew
<1>2. CASE Next
  BY <1>2, FillSized, TargetSized, ExitSized, EndsSized, EnvironmentSized DEF Next, Pass
<1> QED BY <1>1, <1>2

\* A record whose stop is being worked on is in PROTECTION_PENDING,
\* unless a transition raised.
Working == {"resize", "cancel", "recheck", "replace", "replace_again", "confirm"}
Pended == pc \in Working => mem.state \in {Pending, Illegal}

\* transition() goes where it is asked to, or raises.
LEMMA MovesThere ==
    ASSUME NEW r \in Records, NEW to PROVE Move(r, to).state \in {to, Illegal}
BY DEF Move, Records

\* The end of a pass keeps the state it is given.
LEMMA EndPassKeeps ==
    ASSUME NEW r \in Records, NEW failed, EndPass(r, failed)
    PROVE  mem'.state = r.state /\ pc' \notin Working
BY DEF EndPass, Working, Records

\* Each step towards a confirmation starts from PROTECTION_PENDING, or keeps the state.
LEMMA StepPended ==
    ASSUME TypeOK, Pended, [Next]_vars PROVE Pended'
<1> SUFFICES ASSUME pc' \in Working PROVE mem'.state \in {Pending, Illegal}
  BY DEF Pended
<1>1. mem \in Records /\ pc' \notin {"idle", "poll", "save", "place", "target", "stuck"}
  BY DEF TypeOK, Working
<1>2. Filled \in AllStates
  BY DEF AllStates
<1>3. \A r, failed : ~EndPass(r, failed)
  BY DEF EndPass, Working
<1>4. CASE PollEntry
  <2>1. ASSUME NEW r \in Records, Protect(r) PROVE mem'.state \in {Pending, Illegal}
    <3>1. mem' = ToPending(r)
      BY <1>3, <2>1 DEF Protect, Goto
    <3> QED BY <1>2, <3>1, MovesThere, MoveTyped DEF ToPending
  <2>2. ASSUME NEW answer \in Answers(order), Protect(Refresh(mem, answer))
        PROVE  mem'.state \in {Pending, Illegal}
    <3>1. answer.filled \in Shares
      BY AnswerTyped DEF TypeOK, EntryOrders
    <3> QED BY <1>1, <2>1, <2>2, <3>1, PolledTyped
  <2> QED BY <1>1, <1>3, <1>4, <2>1, <2>2 DEF PollEntry
<1>5. CASE Resize \/ CancelForResize \/ RecheckForResize
  <2>1. mem' = mem /\ pc \in Working
    BY <1>5 DEF Resize, CancelForResize, RecheckForResize, Goto, ResizeFails, Working
  <2> QED BY <2>1 DEF Pended
<1>6. CASE ReplaceStop
  <2>1. mem'.state = mem.state /\ pc \in Working
    BY <1>1, <1>6 DEF ReplaceStop, Goto, ResizeFails, Working, Tracking, Records
  <2> QED BY <2>1 DEF Pended
<1>7. CASE CheckExit
  <2>1. ASSUME NEW n PROVE Move([mem EXCEPT !.stopQty = n, !.filled = n], Pending).state
                           \in {Pending, Illegal}
    BY <1>1 DEF Records, Move
  <2>2. PICK answer : mem' = Move([mem EXCEPT !.stopQty = Remaining(mem, answer.filled),
                                              !.filled = Remaining(mem, answer.filled)], Pending)
    BY <1>3, <1>7 DEF CheckExit, Goto, Working
  <2> QED BY <2>1, <2>2
<1>8. CASE UNCHANGED vars \/ Environment
  <2>1. UNCHANGED <<pc, mem>>
    BY <1>8, Zenon DEF vars, Environment, Shown, EntryFills, EntryEnds, ExitFills, CancelLands,
       ExitExpires, MarketCloses, MarketOpens, Outside, process
  <2> QED BY <2>1 DEF Pended
<1> QED
  <2>1. ~(Submit \/ PlaceEntry \/ Save \/ Monitor \/ Crash)
    BY <1>1 DEF Submit, PlaceEntry, Goto, Save, Monitor, MonitorBegin, ReconcileUnknown, Crash
  <2>2. ~(Confirm \/ Target)
    BY <1>3 DEF Confirm, Target, CheckTarget, CancelForTarget, RecheckForTarget, SellAtTarget,
       RestoreStop, PollSell, Goto, Working
  <2>3. ~(CheckAbsence \/ CheckAbsentStop \/ Rearm \/ RearmIfHeld \/ PlaceRearmed)
    BY <1>3 DEF CheckAbsence, CheckAbsentStop, Rearm, RearmIfHeld, PlaceRearmed, AfterAbsence, Goto,
       Working
  <2>4. CASE ResolveAbsent
    BY <2>4 DEF ResolveAbsent, process, Pended
  <2> QED BY <1>4, <1>5, <1>6, <1>7, <1>8, <2>1, <2>2, <2>3, <2>4 DEF Next, Pass, Fill, Exit

\* What a confirmation claims of its stop.
Claims == pc = "confirm" /\ mem'.state = Confirmed /\ mem.filled = order.filled
             /\ budget.faults = MaxFaults /\ budget.crashes = MaxCrashes
          => exits[mem.stopId].qty - exits[mem.stopId].filled >= position

\* A confirmation is of a record that is sized to the fill, hence of a stop that is.
LEMMA ConfirmClaims ==
    ASSUME TypeOK, StopsAreSized, Pended, [Next]_vars PROVE Claims
<1> SUFFICES ASSUME pc = "confirm", mem'.state = Confirmed, mem.filled = order.filled, Untouched
             PROVE  exits[mem.stopId].qty - exits[mem.stopId].filled >= position
  BY DEF Claims, Untouched
<1>1. mem \in Records /\ Confirmed \notin {Unprotected, Illegal}
  BY DEF TypeOK, Unprotected, Confirmed, Illegal
<1>2. Confirm
  <2>1. ~(mem' = mem \/ mem' = NoRecord)
    BY DEF Pended, Working, NoRecord, Confirmed, Pending, Illegal
  <2>2. ~(UNCHANGED vars \/ Environment \/ Crash)
    BY <2>1 DEF vars, Environment, Shown, EntryFills, EntryEnds, ExitFills, CancelLands,
       ExitExpires, MarketCloses, MarketOpens, Outside, process, Crash
  <2>3. ~(Submit \/ PlaceEntry \/ Save \/ Monitor \/ ResolveAbsent \/ Target \/ Exit)
    BY DEF Submit, PlaceEntry, Save, Monitor, MonitorBegin, ReconcileUnknown, ResolveAbsent, Target,
       CheckTarget, CancelForTarget, RecheckForTarget, SellAtTarget, RestoreStop, PollSell, Exit,
       CheckExit, CheckAbsence, CheckAbsentStop, Rearm, RearmIfHeld, PlaceRearmed
  <2>4. ~(PollEntry \/ Resize \/ CancelForResize \/ RecheckForResize \/ ReplaceStop)
    BY DEF PollEntry, Resize, CancelForResize, RecheckForResize, ReplaceStop
  <2> QED BY <2>2, <2>3, <2>4 DEF Next, Pass, Fill
<1>3. Sized(mem)
  <2> SUFFICES ASSUME ~Sized(mem) PROVE FALSE
    OBVIOUS
  <2>1. EndPass(Move(mem, Unprotected), raised)
    BY <1>2 DEF Confirm
  <2>2. Move(mem, Unprotected) \in Records
    BY <1>1, MoveTyped DEF AllStates
  <2> QED BY <1>1, <2>1, <2>2, MovesThere, EndPassKeeps
<1>4. mem.stopQty = order.filled /\ exits[mem.stopId].qty >= mem.stopQty
  BY <1>1, <1>3, StopIsId, Constants
  DEF StopsAreSized, Current, Exact, SizedTo, Sized, TypeOK, EntryOrders, ExitOrders, Shares
<1>5. /\ order.filled \in Nat /\ position \in Nat
      /\ exits[mem.stopId].qty \in Nat /\ exits[mem.stopId].filled \in Nat
      /\ position + exits[mem.stopId].filled <= order.filled
  <2>1. mem.stopId \in ExitIds /\ exits[mem.stopId] \in ExitOrders
    BY <1>1, <1>3, StopIsId DEF Sized
  <2> QED BY <2>1, Constants DEF StopsAreSized, SalesAreCovered, TypeOK, EntryOrders, ExitOrders, Shares
<1> QED BY <1>4, <1>5

---------------------------------------------------------------------------
(* One exit order at a time. A pass that dies after a placement leaves an  *)
(* order the record does not know. It is not placed twice: the next pass   *)
(* comes to the same id and meets it. So whatever rests at the broker is   *)
(* the record's stop, or has an id its next passes come to before any new  *)
(* one, and nothing else rests beside it.                                  *)

\* The two ways the code avoids a second exit order: the broker refuses it, or
\* no call is lost and there is no target to sell at.
Careful == MaxFaults = 0 /\ ~HasTarget

\* What a record says of sizes is no more than was bought.
Modest(record) == record.stopQty <= order.filled /\ record.filled <= order.filled

\* The broker knows every stop id after the n-th, up to the m-th.
KnownFrom(n, m) == \A j \in (n + 1) .. m : exits[<<"stop", j>>] # NoExit

\* An order of a pass that was cut short: its id is the next but so many in line.
InLine(record, id) ==
    id[1] = "stop" /\ id[2] > record.attempt /\ KnownFrom(record.attempt, id[2])

\* A confirmed record will come to that id, as its stop is too small.
Waiting(record, id) ==
    /\ InLine(record, id)
    /\ record.state = Confirmed => ~record.terminal /\ record.stopQty < order.filled

\* The tracked stop is over and sold nothing.
Spent(record) ==
    record.stopId # NoId => /\ exits[record.stopId].status \in FinalStatuses
                            /\ exits[record.stopId].filled = 0

\* A rearming that was cut short: the next one uses its id.
Rearmed(record, n, id) ==
    id = <<"stop_rearm", n>> /\ record.state = Confirmed /\ record.terminal /\ Spent(record)

\* Every resting exit order is the record's stop, or one its next passes come to.
Accounted(record, n) ==
    \A id \in ActiveExits : id = record.stopId \/ Waiting(record, id) \/ Rearmed(record, n, id)

\* A record that counts on every order that rests.
Counts(record, n) == Modest(record) /\ Accounted(record, n)

\* The id the next rearming uses: the one at hand, or the one after the last.
NextRearm == IF pc = "rearm_place" THEN mem.rearm ELSE mem.rearm + 1

\* The pass has come past attempts of the record on disk that the broker knows.
Onward(record) == disk.attempt <= record.attempt /\ KnownFrom(disk.attempt, record.attempt)

\* At most one exit order rests.
Alone == \A x, y \in ActiveExits : x = y

\* The record on disk counts on it, as long as it is not closed.
DiskCounts == Modest(disk) /\ (disk.state # Closed => Accounted(disk, disk.rearm + 1))

\* And so does the one of the pass.
PassCounts ==
    /\ \A n \in seen : n <= order.filled
    /\ pc # "idle" => /\ Counts(mem, NextRearm) /\ Onward(mem)
                      /\ disk.state = Confirmed => ctx = "monitor"

\* The places of an exit pass: of a rearming, of any check, of an unprotected record.
Rearming == {"rearm", "rearm_held", "rearm_place"}
Exiting == {"target", "exit", "absent"} \union Rearming
Stuck == {"stuck", "absent_stop"}

\* Two records say the same of the stop.
SameStopAs(r, s) ==
    /\ s.stopId = r.stopId /\ s.stopQty = r.stopQty /\ s.attempt = r.attempt
    /\ s.state = r.state /\ s.terminal = r.terminal

\* The exit pass works on what is on disk.
FromDisk ==
    pc \in Exiting \union Stuck =>
        /\ SameStopAs(disk, mem)
        /\ mem.rearm = IF pc = "rearm_place" THEN NextAttempt(disk.rearm) ELSE disk.rearm
        /\ mem.state \in {Confirmed, Unprotected}
        /\ pc \in Exiting => mem.state = Confirmed
        /\ pc = "stuck" => mem.state = Unprotected
        /\ pc \in Rearming => mem.terminal
        /\ pc \in {"rearm_held", "rearm_place"} => Spent(mem)

\* A confirmed record goes through the fill pass again only to grow its stop.
Grows ==
    pc \in (Working \ {"confirm"}) \union {"poll"} /\ disk.state = Confirmed =>
        /\ ~disk.terminal /\ mem.stopQty = disk.stopQty
        /\ pc = "poll" => ~mem.terminal
        /\ pc # "poll" => mem.stopQty <= mem.filled /\ (pc = "resize" \/ mem.stopQty < mem.filled)

\* The old stop rests no longer when its replacement is placed.
Freed == pc \in {"replace", "replace_again"} => mem.stopId \notin ActiveExits

\* A confirmed record whose entry is over is polled with at most its own stop resting.
Settled ==
    pc = "poll" /\ mem.state = Confirmed /\ mem.terminal => ActiveExits \subseteq {mem.stopId}

\* Without a target nothing is at a place of the target pass.
Unsold == pc \notin {"target_cancel", "target_recheck", "sell", "restore", "sell_poll"}

\* The invariant.
OneAtATime == /\ Alone /\ DiskCounts /\ PassCounts /\ FromDisk
              /\ Grows /\ Freed /\ Settled /\ Unsold

\* With no faults to spend no call is lost.
LEMMA NothingLost ==
    ASSUME Careful, TypeOK PROVE ~Spend("faults")
BY Constants DEF Careful, Spend, TypeOK, Budgets

\* Then an answer is the order as it is,
LEMMA LookupSays ==
    ASSUME Careful, TypeOK, NEW o, NEW answer, Lookup(o, answer) PROVE answer = AnswerOf(o)
BY NothingLost DEF Lookup

\* a placement did what it answers,
LEMMA PlacedSays ==
    ASSUME Careful, TypeOK, NEW id, NEW qty, NEW ok \in BOOLEAN, Placed(id, qty, ok)
    PROVE  \/ ok /\ Accepts(id, qty) /\ Resting(id, qty)
           \/ /\ ok = (id \in ExitIds /\ exits[id] # NoExit)
              /\ ~Accepts(id, qty) /\ exits' = exits
BY NothingLost DEF Placed

\* and a position is what was bought, or less.
LEMMA PositionsSay ==
    ASSUME Careful, TypeOK, RecordsAreTruthful, \A n \in seen : n <= order.filled,
           NEW live, Positions(live)
    PROVE  \A n \in seen' : n <= order.filled
BY NothingLost DEF Positions, RecordsAreTruthful

\* Exit orders only end or sell, and the entry only buys.
Shrinks ==
    /\ \A id \in ExitIds :
          /\ exits[id] # NoExit => exits'[id] # NoExit
          /\ exits[id].status \in FinalStatuses => exits'[id] = exits[id]
          /\ exits'[id].status \in OpenStatuses => exits[id].status \in OpenStatuses
    /\ order.filled <= order'.filled

\* A step that leaves the orders alone.
LEMMA QuietShrinks ==
    ASSUME TypeOK, UNCHANGED exits, order'.filled = order.filled PROVE Shrinks
<1>1. order.filled \in Nat
  BY Constants DEF TypeOK, EntryOrders, Shares
<1> QED BY <1>1 DEF Shrinks

\* A cancellation ends an order or asks for its end.
LEMMA CancelledShrinks ==
    ASSUME Careful, TypeOK, UNCHANGED order, NEW id, NEW ok \in BOOLEAN, Cancelled(id, ok)
    PROVE  Shrinks
<1>1. CASE exits' = exits
  BY <1>1, QuietShrinks
<1>2. CASE id \in ActiveExits /\ exits' = [exits EXCEPT ![id].cancelling = TRUE]
  <2>1. id \in ExitIds /\ exits[id].status \in OpenStatuses /\ order.filled \in Nat
    BY <1>2, Constants DEF ActiveExits, ProtectiveLegIsActive, TypeOK, EntryOrders, Shares
  <2>2. /\ exits'[id].status = exits[id].status
        /\ \A x \in ExitIds : x # id => exits'[x] = exits[x]
    BY <1>2, <2>1 DEF TypeOK, ExitOrders
  <2>3. NoExit.status \notin OpenStatuses /\ OpenStatuses \cap FinalStatuses = {}
    BY DEF NoExit, OpenStatuses, FinalStatuses
  <2> QED BY <2>1, <2>2, <2>3 DEF Shrinks
<1> QED BY <1>1, <1>2, NothingLost DEF Cancelled

\* The ids in line are ids of stops.
LEMMA LineIds ==
    ASSUME NEW id \in ExitIds, NEW n \in Nat
    PROVE  id[2] \in 1 .. MaxAttempts /\ \A j \in (n + 1) .. id[2] : <<"stop", j>> \in ExitIds
BY Constants DEF ExitIds, Legs

\* What was accounted for stays so.
LEMMA StillCounts ==
    ASSUME TypeOK, TypeOK', Shrinks, NEW r \in Records, NEW n, Counts(r, n)
    PROVE  Counts(r, n)'
<1>1. /\ order.filled \in Nat /\ order'.filled \in Nat
      /\ r.filled \in Nat /\ r.stopQty \in Nat /\ r.attempt \in Nat
      /\ r.stopId \in ExitIds \union {NoId}
  BY Constants DEF TypeOK, EntryOrders, Shares, Records
<1>2. Modest(r)'
  BY <1>1 DEF Counts, Modest, Shrinks
<1>3. ASSUME NEW id \in ActiveExits' PROVE id \in ActiveExits /\ id \in ExitIds
  BY DEF ActiveExits, ProtectiveLegIsActive, Shrinks
<1>4. ASSUME NEW id \in ExitIds, Waiting(r, id) PROVE Waiting(r, id)'
  <2>1. \A j \in (r.attempt + 1) .. id[2] : <<"stop", j>> \in ExitIds
    BY <1>1, LineIds
  <2>2. KnownFrom(r.attempt, id[2])'
    BY <1>4, <2>1 DEF Waiting, InLine, KnownFrom, Shrinks
  <2>3. r.stopQty < order.filled => r.stopQty < order'.filled
    BY <1>1 DEF Shrinks
  <2> QED BY <1>4, <2>2, <2>3 DEF Waiting, InLine
<1>5. Spent(r) => Spent(r)'
  BY <1>1 DEF Spent, Shrinks
<1>6. Accounted(r, n)'
  BY <1>3, <1>4, <1>5 DEF Counts, Accounted, Rearmed
<1> QED BY <1>2, <1>6 DEF Counts

\* The broker forgets no id.
LEMMA StillKnown ==
    ASSUME Shrinks, NEW n \in Nat, NEW m \in 0 .. MaxAttempts, KnownFrom(n, m)
    PROVE  KnownFrom(n, m)'
<1>1. \A j \in (n + 1) .. m : <<"stop", j>> \in ExitIds
  BY Constants DEF ExitIds, Legs
<1> QED BY <1>1 DEF KnownFrom, Shrinks

\* Nothing new rests when orders only end.
LEMMA StillAlone == ASSUME Shrinks, Alone PROVE Alone'
BY DEF Alone, ActiveExits, ProtectiveLegIsActive, Shrinks

\* The same stop in the same state, whatever else the record says.
LEMMA SameCounts ==
    ASSUME NEW r, NEW s, NEW n, Counts(r, n), SameStopAs(r, s), s.filled <= order.filled
    PROVE  Counts(s, n)
BY DEF Counts, Modest, Accounted, Waiting, InLine, Rearmed, Spent, SameStopAs

\* A record that is not confirmed may count on every id in line.
LEMMA LineCounts ==
    ASSUME NEW s, NEW n, Modest(s), s.state # Confirmed,
           \A id \in ActiveExits : id = s.stopId \/ InLine(s, id)
    PROVE  Counts(s, n)
BY DEF Counts, Accounted, Waiting

\* Nothing rests, or only the stop the record tracks.
LEMMA StopCounts ==
    ASSUME NEW s, NEW n, Modest(s), ActiveExits \subseteq {s.stopId} PROVE Counts(s, n)
BY DEF Counts, Accounted

\* Unless its rearming was cut short, a record may leave its state.
LEMMA LeavesCounted ==
    ASSUME NEW r, NEW s, NEW n, NEW m, Counts(r, n), Modest(s), s.stopId = r.stopId,
           s.attempt = r.attempt, s.state # Confirmed,
           r.state # Confirmed \/ ~Spent(r) \/ ActiveExits \subseteq {r.stopId}
    PROVE  Counts(s, m)
<1>1. \A id \in ActiveExits : id = s.stopId \/ InLine(s, id)
  BY DEF Counts, Accounted, Waiting, InLine, Rearmed
<1> QED BY <1>1, LineCounts

\* What the record on disk counts on stays so.
LEMMA DiskStill ==
    ASSUME TypeOK, TypeOK', Shrinks, DiskCounts, UNCHANGED disk PROVE DiskCounts'
<1>0. disk \in Records
  BY DEF TypeOK
<1>1. \A n : Counts(disk, n) => Counts(disk, n)'
  <2>1. PICK r \in Records : r = disk
    BY <1>0
  <2> SUFFICES ASSUME NEW n, Counts(disk, n) PROVE Counts(disk, n)'
    OBVIOUS
  <2>2. Counts(r, n)'
    BY <2>1, StillCounts
  <2> QED BY <2>1, <2>2 DEF Counts, Modest, Accounted, Waiting, InLine, KnownFrom, Rearmed, Spent
<1>2. Modest(disk)'
  BY Constants, <1>0 DEF DiskCounts, Modest, Shrinks, TypeOK, EntryOrders, Shares, Records
<1> QED BY <1>1, <1>2 DEF DiskCounts, Counts

\* A step that leaves the process in a pass.
LEMMA IntoPass ==
    ASSUME TypeOK, TypeOK', OneAtATime, pc' # "idle", UNCHANGED disk,
           disk.state = Confirmed => ctx' = "monitor", Shrinks, \A n \in seen' : n <= order.filled,
           Counts(mem', NextRearm'), Onward(mem'),
           FromDisk', Grows', Freed', Settled', Unsold'
    PROVE  OneAtATime'
<1>1. mem' \in Records /\ disk \in Records
  BY DEF TypeOK
<1>2. Counts(mem, NextRearm)'
  <2>1. \A r \in Records : \A n : Counts(r, n) => Counts(r, n)'
    BY StillCounts
  <2>2. PICK r, n : r = mem' /\ n = NextRearm' /\ r \in Records
    BY <1>1
  <2>3. Counts(r, n)'
    BY <2>1, <2>2
  <2> QED BY <2>2, <2>3 DEF Counts, Modest, Accounted, Waiting, InLine, KnownFrom, Rearmed, Spent
<1>3. DiskCounts'
  BY DiskStill DEF OneAtATime
<1>4. Onward(mem)'
  <2>1. disk.attempt \in Nat /\ mem'.attempt \in 0 .. MaxAttempts
    BY <1>1, Constants DEF Records
  <2>2. PICK n \in Nat, m \in 0 .. MaxAttempts : n = disk.attempt /\ m = mem'.attempt
    BY <2>1
  <2>3. KnownFrom(n, m)'
    BY <2>2, StillKnown DEF Onward
  <2> QED BY <2>2, <2>3 DEF Onward, KnownFrom
<1>5. \A n \in seen' : n <= order'.filled
  <2>1. /\ order.filled \in Nat /\ order'.filled \in Nat /\ order.filled <= order'.filled
        /\ \A n \in seen' : n \in Nat
    BY Constants DEF Shrinks, TypeOK, EntryOrders, Shares
  <2> QED BY <2>1
<1> QED BY <1>2, <1>3, <1>4, <1>5, StillAlone DEF OneAtATime, PassCounts

\* A step within a pass.
LEMMA PassOn ==
    ASSUME TypeOK, TypeOK', OneAtATime, pc # "idle", pc' # "idle", UNCHANGED <<disk, ctx>>,
           Shrinks, \A n \in seen' : n <= order.filled,
           Counts(mem', NextRearm'), Onward(mem'),
           FromDisk', Grows', Freed', Settled', Unsold'
    PROVE  OneAtATime'
BY IntoPass DEF OneAtATime, PassCounts

\* The end of a pass, or the next turn of its poll loop.
LEMMA EndsPass ==
    ASSUME TypeOK, TypeOK', OneAtATime, pc # "idle", UNCHANGED disk, Shrinks,
           \A n \in seen' : n <= order.filled,
           NEW r \in Records, NEW failed \in BOOLEAN, EndPass(r, failed),
           Counts(r, r.rearm + 1), Onward(r),
           failed /\ r.state = Confirmed /\ r.terminal /\ disk.state # Confirmed
             => ActiveExits \subseteq {r.stopId}
    PROVE  OneAtATime'
<1>1. /\ SameStopAs(r, mem') /\ mem'.filled = r.filled /\ mem'.rearm = r.rearm
      /\ ctx' = ctx /\ pc' \in {"poll", "save"} /\ (pc' = "poll" <=> PollsAgain(r, failed))
  BY DEF EndPass, Records, SameStopAs
<1>2. Counts(mem', NextRearm') /\ Onward(mem')
  <2>1. mem'.filled <= order.filled /\ NextRearm' = r.rearm + 1
    BY <1>1 DEF Counts, Modest, NextRearm
  <2> QED BY <1>1, <2>1, SameCounts DEF Onward, SameStopAs
<1>3. CASE pc' = "save"
  BY <1>1, <1>2, <1>3, PassOn DEF FromDisk, Grows, Freed, Settled, Unsold, Exiting, Rearming, Stuck,
     Working
<1>4. CASE pc' = "poll"
  <2>1. disk.state # Confirmed /\ (r.state = Confirmed => failed)
    BY <1>1, <1>4 DEF PollsAgain, OneAtATime, PassCounts
  <2>2. Settled'
    BY <1>1, <2>1 DEF Settled, SameStopAs, ActiveExits, Shrinks, ProtectiveLegIsActive
  <2> QED BY <1>1, <1>2, <1>4, <2>1, <2>2, PassOn DEF FromDisk, Grows, Freed, Unsold, Exiting,
     Rearming, Stuck, Working
<1> QED BY <1>1, <1>3, <1>4

\* A step on the stop of a record in PROTECTION_PENDING.
LEMMA WorkOn ==
    ASSUME TypeOK, TypeOK', OneAtATime, Pended, pc \in Working, pc' \in Working,
           UNCHANGED <<disk, ctx, seen>>, Shrinks, SameStopAs(mem, mem'),
           mem'.filled = mem.filled, mem'.rearm = mem.rearm,
           pc' \notin {"resize", "confirm"}
             => pc # "confirm" /\ (pc = "resize" => mem.stopQty # mem.filled),
           pc' = "resize" => pc = "resize",
           pc' \in {"replace", "replace_again"} => mem.stopId \notin ActiveExits
    PROVE  OneAtATime'
<1>1. pc # "idle" /\ pc' # "idle" /\ mem \in Records
      /\ mem.stopQty \in Nat /\ mem.filled \in Nat
  BY Constants DEF Working, TypeOK, Records, Shares
<1>2. Counts(mem', NextRearm') /\ Onward(mem')
  <2>1. mem'.filled <= order.filled /\ NextRearm' = mem.rearm + 1 /\ NextRearm = mem.rearm + 1
    BY <1>1 DEF NextRearm, Working, OneAtATime, PassCounts, Counts, Modest
  <2>2. Counts(mem, mem.rearm + 1)
    BY <1>1, <2>1 DEF OneAtATime, PassCounts
  <2> QED BY <1>1, <2>1, <2>2, SameCounts DEF Onward, OneAtATime, PassCounts, SameStopAs
<1>3. Grows'
  BY <1>1 DEF Grows, OneAtATime, Working, SameStopAs
<1>4. Freed'
  BY DEF Freed, SameStopAs, Shrinks, ActiveExits, ProtectiveLegIsActive
<1>5. FromDisk' /\ Settled' /\ Unsold'
  BY DEF FromDisk, Settled, Unsold, Working, Exiting, Rearming, Stuck
<1> QED BY <1>1, <1>2, <1>3, <1>4, <1>5, PassOn DEF OneAtATime, PassCounts

\* What a step of a pass finds.
LEMMA InPass ==
    ASSUME TypeOK, OneAtATime, pc # "idle", pc # "rearm_place"
    PROVE  /\ mem \in Records /\ Counts(mem, mem.rearm + 1) /\ Onward(mem) /\ Modest(mem)
           /\ \A n \in seen : n <= order.filled
           /\ order.filled \in Nat /\ mem.filled \in Nat /\ mem.stopQty \in Nat
BY Constants DEF TypeOK, OneAtATime, PassCounts, NextRearm, Counts, EntryOrders, Shares, Records

\* The state on the way to a confirmation.
LEMMA ToPendingIs ==
    ASSUME NEW r \in Records
    PROVE  LET s == ToPending(r) IN
           /\ s.stopId = r.stopId /\ s.stopQty = r.stopQty /\ s.filled = r.filled
           /\ s.attempt = r.attempt /\ s.rearm = r.rearm /\ s.terminal = r.terminal
           /\ s.state # Confirmed
BY DEF ToPending, Move, Records, Pending, Confirmed, Illegal, FreshStates, Submitted, Partially, Linking

\* transition() changes the state and nothing of the stop.
LEMMA MoveIs ==
    ASSUME NEW r \in Records, NEW to
    PROVE  LET s == Move(r, to) IN
           /\ s.stopId = r.stopId /\ s.stopQty = r.stopQty /\ s.filled = r.filled
           /\ s.attempt = r.attempt /\ s.rearm = r.rearm /\ s.terminal = r.terminal
           /\ s.state \in {to, Illegal}
BY DEF Move, Records

\* place_exits() on a record that was polled.
LEMMA ProtectOne ==
    ASSUME TypeOK, TypeOK', OneAtATime, pc = "poll", UNCHANGED <<disk, exits, order, seen>>,
           NEW r \in Records, Protect(r), Modest(r), Onward(r),
           \A id \in ActiveExits : id = r.stopId \/ InLine(r, id),
           r.state = Confirmed /\ (r.filled = 0 \/ Steady(r)) => Counts(r, r.rearm + 1),
           disk.state = Confirmed => /\ ~disk.terminal /\ r.stopQty = disk.stopQty
                                     /\ r.stopQty <= r.filled
    PROVE  OneAtATime'
<1>1. pc # "idle" /\ Shrinks /\ FALSE \in BOOLEAN /\ \A n \in seen' : n <= order.filled
  BY InPass, QuietShrinks
<1>2. Counts(r, r.rearm + 1) => (EndPass(r, FALSE) => OneAtATime')
  BY <1>1, EndsPass
<1>3. r.state # Confirmed => Counts(r, r.rearm + 1)
  BY LineCounts
<1>4. CASE EndPass(Move(r, Failed), FALSE)
  <2> DEFINE s == Move(r, Failed)
  <2>1. s \in Records
    BY MoveTyped DEF AllStates
  <2>2. s.stopId = r.stopId /\ s.attempt = r.attempt /\ s.stopQty = r.stopQty /\ s.filled = r.filled
        /\ s.state \in {Failed, Illegal}
    BY MoveIs
  <2> HIDE DEF s
  <2>3. s.state # Confirmed
    BY <2>2 DEF Confirmed, Failed, Illegal
  <2>4. Counts(s, s.rearm + 1) /\ Onward(s)
    BY <2>2, <2>3, LineCounts DEF Modest, InLine, Onward
  <2>5. EndPass(s, FALSE)
    BY <1>4 DEF s
  <2> QED BY <1>1, <2>1, <2>3, <2>4, <2>5, EndsPass
<1>5. CASE Goto("resize", ToPending(r))
  <2> DEFINE s == ToPending(r)
  <2>1. /\ s.stopId = r.stopId /\ s.stopQty = r.stopQty /\ s.filled = r.filled
        /\ s.attempt = r.attempt /\ s.rearm = r.rearm /\ s.state # Confirmed
    BY ToPendingIs
  <2>2. mem' = s /\ pc' = "resize" /\ UNCHANGED ctx
    BY <1>5 DEF Goto
  <2> HIDE DEF s
  <2>3. Counts(mem', NextRearm') /\ Onward(mem')
    BY <2>1, <2>2, LineCounts DEF Modest, InLine, Onward
  <2>4. Grows'
    BY <2>1, <2>2 DEF Grows
  <2> QED BY <1>1, <2>2, <2>3, <2>4, PassOn DEF FromDisk, Freed, Settled, Unsold, Exiting, Rearming,
     Stuck
<1>6. CASE (r.filled = 0 \/ Steady(r)) /\ EndPass(r, FALSE)
  BY <1>2, <1>3, <1>6
<1> QED BY <1>4, <1>5, <1>6 DEF Protect

\* A poll of the entry order changes the fill and, of the state, nothing into
\* PROTECTION_CONFIRMED_ACTIVE.
LEMMA RefreshIs ==
    ASSUME NEW r \in Records, NEW answer, answer.filled \in Shares
    PROVE  LET s == Refresh(r, answer) IN
           /\ s.stopId = r.stopId /\ s.stopQty = r.stopQty /\ s.filled = answer.filled
           /\ s.attempt = r.attempt /\ s.rearm = r.rearm
           /\ s.state = Confirmed => r.state = Confirmed
<1> DEFINE p == Polled(r, answer)
<1>1. /\ p \in Records /\ p.stopId = r.stopId /\ p.stopQty = r.stopQty
      /\ p.filled = answer.filled /\ p.attempt = r.attempt /\ p.rearm = r.rearm
      /\ p.state = r.state
  BY DEF Polled, Records
<1> HIDE DEF p
<1>2. Confirmed \notin {Partially, Filled, Failed, Illegal}
  BY DEF Confirmed, Partially, Filled, Failed, Illegal
<1>3. Refresh(r, answer) \in {p, Move(p, Partially), Move(p, Filled), Move(p, Failed)}
      /\ (Refresh(r, answer) = p \/ r.state \in FreshStates)
  BY <1>1 DEF Refresh, p
<1> QED BY <1>1, <1>2, <1>3, MoveIs

\* A poll of the entry order.
LEMMA PollOne ==
    ASSUME Careful, TypeOK, TypeOK', OneAtATime, PollEntry PROVE OneAtATime'
<1>1. /\ pc = "poll" /\ UNCHANGED <<disk, exits, order, seen>>
      /\ Shrinks /\ TRUE \in BOOLEAN /\ \A n \in seen' : n <= order.filled
  BY InPass, QuietShrinks DEF PollEntry, durable, broker
<1>2. /\ mem \in Records /\ Counts(mem, mem.rearm + 1) /\ Onward(mem) /\ Modest(mem)
      /\ order.filled \in Nat /\ mem.filled \in Nat /\ mem.stopQty \in Nat
  BY <1>1, InPass
<1>3. disk.state = Confirmed => ~disk.terminal /\ mem.stopQty = disk.stopQty /\ ~mem.terminal
  BY <1>1 DEF OneAtATime, Grows
<1>4. ~(mem.state = Confirmed /\ mem.terminal)
        => \A id \in ActiveExits : id = mem.stopId \/ Waiting(mem, id)
  BY <1>2 DEF Counts, Accounted, Rearmed
<1>5. CASE mem.terminal /\ Protect(mem)
  <2>1. \A id \in ActiveExits : id = mem.stopId \/ InLine(mem, id)
    BY <1>1, <1>4 DEF OneAtATime, Settled, Waiting
  <2> QED BY <1>1, <1>2, <1>3, <1>5, <2>1, ProtectOne
<1>6. CASE ~mem.terminal /\ EndPass(mem, TRUE)
  BY <1>1, <1>2, <1>6, EndsPass
<1>7. CASE ~mem.terminal /\ \E answer \in Answers(order) :
             Lookup(order, answer) /\ answer # NoAnswer /\ Protect(Refresh(mem, answer))
  <2>1. PICK answer \in Answers(order) :
           Lookup(order, answer) /\ answer # NoAnswer /\ Protect(Refresh(mem, answer))
    BY <1>7
  <2>2. answer.filled = order.filled /\ answer.filled \in Shares
    BY <2>1, LookupSays DEF AnswerOf, TypeOK, EntryOrders
  <2> DEFINE r == Refresh(mem, answer)
  <2>3. /\ r \in Records /\ r.stopId = mem.stopId /\ r.stopQty = mem.stopQty
        /\ r.filled = order.filled /\ r.attempt = mem.attempt /\ r.rearm = mem.rearm
        /\ r.state = Confirmed => mem.state = Confirmed
    BY <1>2, <2>2, RefreshIs, PolledTyped
  <2>4. Protect(r)
    BY <2>1
  <2> HIDE DEF r
  <2>5. Modest(r) /\ Onward(r) /\ r.stopQty <= r.filled
    BY <1>2, <2>3 DEF Modest, Onward
  <2>6. \A id \in ActiveExits : id = r.stopId \/ InLine(r, id)
    BY <1>4, <1>7, <2>3 DEF Waiting, InLine
  <2>7. ASSUME r.state = Confirmed, r.filled = 0 \/ Steady(r) PROVE Counts(r, r.rearm + 1)
    <3>1. ~(mem.stopQty < order.filled)
      BY <1>2, <2>3, <2>7 DEF Steady
    <3>2. ActiveExits \subseteq {r.stopId}
      BY <1>4, <1>7, <2>3, <2>7, <3>1 DEF Waiting
    <3> QED BY <2>5, <3>2, StopCounts
  <2> QED BY <1>1, <1>3, <2>3, <2>4, <2>5, <2>6, <2>7, ProtectOne
<1> QED BY <1>5, <1>6, <1>7 DEF PollEntry

\* An order the broker answers for was placed.
LEMMA ActiveAnswer ==
    ASSUME Careful, TypeOK, NEW id \in ExitIds, NEW answer, Lookup(exits[id], answer),
           answer # NoAnswer
    PROVE  /\ exits[id] # NoExit /\ answer.filled = exits[id].filled
           /\ answer.status = exits[id].status /\ answer.status \notin AbsentStatuses
           /\ ProtectiveLegIsActive(answer.status) <=> id \in ActiveExits
           /\ ~ProtectiveLegIsActive(answer.status) => exits[id].status \in FinalStatuses
<1>1. answer = AnswerOf(exits[id]) /\ exits[id].status \in OrderStatuses
  BY LookupSays DEF TypeOK, ExitOrders
<1>2. answer = [status |-> exits[id].status, filled |-> exits[id].filled]
      /\ exits[id].status \notin AbsentStatuses
  BY <1>1 DEF AnswerOf
<1>3. NoExit.status \in AbsentStatuses
  BY DEF NoExit, AbsentStatuses
<1> QED BY <1>1, <1>2, <1>3 DEF ActiveExits, ProtectiveLegIsActive, OrderStatuses

\* The checks before the old stop is cancelled, and its cancellation.
LEMMA ResizeOne ==
    ASSUME Careful, TypeOK, TypeOK', OneAtATime, Pended,
           Resize \/ CancelForResize \/ RecheckForResize
    PROVE  OneAtATime'
<1>1. /\ pc \in {"resize", "cancel", "recheck"} /\ pc \in Working /\ pc # "confirm"
      /\ UNCHANGED <<disk, order, seen>> /\ mem \in Records
      /\ NoId \notin ActiveExits
  BY DEF Resize, CancelForResize, RecheckForResize, Working, durable, broker, TypeOK, NoId,
     ActiveExits, ExitIds, Legs
<1>2. mem.stopId # NoId => mem.stopId \in ExitIds
  BY <1>1 DEF Records
<1>3. Shrinks
  <2>1. CASE Resize \/ RecheckForResize
    BY <2>1, QuietShrinks DEF Resize, RecheckForResize, broker
  <2>2. CASE CancelForResize
    BY <2>2, CancelledShrinks DEF CancelForResize
  <2> QED BY <2>1, <2>2
<1>4. /\ mem' = mem /\ UNCHANGED ctx /\ pc' \in {"confirm", "replace", "cancel", "recheck"}
      /\ pc = "resize" /\ pc' # "confirm" => mem.stopQty # mem.filled
  BY <1>1 DEF Resize, CancelForResize, RecheckForResize, Goto, ResizeFails
<1>5. ASSUME pc' = "replace", mem.stopId # NoId PROVE mem.stopId \notin ActiveExits
  <2>1. PICK answer \in Answers(exits[mem.stopId]) :
           /\ Lookup(exits[mem.stopId], answer)
           /\ MayReplace(answer)
    BY <1>1, <1>5 DEF Resize, CancelForResize, RecheckForResize, Goto, ResizeFails
  <2> QED BY <1>2, <1>5, <2>1, ActiveAnswer DEF MayReplace
<1>6. SameStopAs(mem, mem') /\ pc' \in Working
  BY <1>4 DEF SameStopAs, Working
<1> QED BY <1>1, <1>3, <1>4, <1>5, <1>6, WorkOn

\* A new order is alone, if none rested.
LEMMA FirstActive ==
    ASSUME TypeOK, NEW id \in ExitIds, NEW qty, Resting(id, qty), ActiveExits = {}
    PROVE  /\ ActiveExits' \subseteq {id} /\ exits'[id] # NoExit
           /\ \A x \in ExitIds : x # id => exits'[x] = exits[x]
<1>1. /\ exits'[id].status = "SUBMITTED" /\ NoExit.status = "none"
      /\ \A x \in ExitIds : x # id => exits'[x] = exits[x]
  BY DEF Resting, TypeOK, NoExit
<1> QED BY <1>1 DEF ActiveExits

\* The replacement of a stop, when nothing rests.
LEMMA PlacesNext ==
    ASSUME TypeOK, TypeOK', OneAtATime, pc \in {"replace", "replace_again"}, pc' = "confirm",
           NEW id \in ExitIds, id = <<"stop", mem.attempt + 1>>, exits[id] = NoExit,
           NEW qty, Resting(id, qty), ActiveExits = {},
           UNCHANGED <<disk, order, seen, ctx>>,
           mem'.stopId = id, mem'.attempt = mem.attempt + 1, mem'.stopQty <= order.filled,
           mem'.filled <= order.filled,
           FromDisk' /\ Grows' /\ Freed' /\ Settled' /\ Unsold'
    PROVE  OneAtATime'
<1>1. /\ mem \in Records /\ Onward(mem) /\ Modest(mem) /\ mem.attempt \in Nat
      /\ disk.attempt \in Nat /\ order.filled \in Nat /\ mem.filled \in Nat /\ mem.stopQty \in Nat
      /\ \A n \in seen : n <= order.filled
  BY InPass, Constants DEF TypeOK, Records
<1>2. /\ ActiveExits' \subseteq {id} /\ exits'[id] # NoExit
      /\ \A x \in ExitIds : x # id => exits'[x] = exits[x]
  BY FirstActive
<1>3. ASSUME NEW j \in (disk.attempt + 1) .. (mem.attempt + 1)
      PROVE  exits'[<<"stop", j>>] # NoExit
  <2>1. CASE j = mem.attempt + 1
    BY <1>2, <2>1
  <2>2. CASE j # mem.attempt + 1
    <3>1. j \in (disk.attempt + 1) .. mem.attempt /\ j \in 1 .. MaxAttempts
      <4>1. mem.attempt \in 0 .. MaxAttempts
        BY <1>1 DEF Records
      <4> QED BY <1>1, <2>2, <4>1, Constants
    <3>2. exits[<<"stop", j>>] # NoExit /\ <<"stop", j>> \in ExitIds
      BY <1>1, <3>1 DEF Onward, KnownFrom, ExitIds, Legs
    <3> QED BY <1>2, <3>2
  <2> QED BY <2>1, <2>2
<1>4. disk.state = Confirmed => ~disk.terminal /\ disk.stopQty < order.filled
  BY <1>1 DEF OneAtATime, Grows, Working, Modest
<1>5. DiskCounts'
  <2>1. Modest(disk)'
    BY DEF OneAtATime, DiskCounts, Modest
  <2>2. InLine(disk, id)'
    BY <1>1, <1>3 DEF InLine, KnownFrom, Onward
  <2>3. Waiting(disk, id)'
    BY <1>4, <2>2 DEF Waiting
  <2>4. Accounted(disk, disk.rearm + 1)'
    BY <1>2, <2>3 DEF Accounted
  <2> QED BY <2>1, <2>4 DEF DiskCounts
<1>6. Counts(mem, NextRearm)'
  BY <1>2 DEF Counts, Modest, Accounted
<1>7. Onward(mem)'
  BY <1>1, <1>3 DEF Onward, KnownFrom
<1>8. Alone'
  BY <1>2 DEF Alone
<1> QED BY <1>1, <1>5, <1>6, <1>7, <1>8 DEF OneAtATime, PassCounts

\* The replacement of the stop that was cancelled, retried under the next id.
LEMMA ReplaceOne ==
    ASSUME Careful, TypeOK, TypeOK', RecordsAreTruthful, OneAtATime, Pended, ReplaceStop
    PROVE  OneAtATime'
<1>1. /\ pc \in {"replace", "replace_again"} /\ pc \in Working
      /\ UNCHANGED <<disk, order, seen>>
      /\ \A n \in seen' : n <= order.filled
      /\ mem.stopId \notin ActiveExits /\ mem.state # Confirmed
  BY InPass DEF ReplaceStop, Working, durable, OneAtATime, Freed, Pended, Pending, Illegal, Confirmed
<1>2. /\ mem \in Records /\ Counts(mem, mem.rearm + 1) /\ Onward(mem) /\ Modest(mem)
      /\ mem.attempt \in Nat /\ order.filled \in Nat /\ disk.attempt \in Nat
      /\ mem.filled \in Nat /\ mem.stopQty \in Nat
  BY <1>1, InPass, Constants DEF TypeOK, Records
<1>3. PICK ok \in BOOLEAN :
         /\ Placed(NextStop, mem.filled, ok)
         /\ IF ok THEN Goto("confirm", Tracking(mem, NextStop, mem.filled))
            ELSE IF pc = "replace" THEN Goto("replace_again", mem)
            ELSE ResizeFails([mem EXCEPT !.gap = @ \/ mem.stopId # NoId])
  BY DEF ReplaceStop
\* Whatever rests already has an id further in line.
<1>4. ASSUME NEW id \in ActiveExits PROVE InLine(mem, id)
  BY <1>1, <1>2 DEF Counts, Accounted, Waiting, Rearmed
<1>5. CASE ~ok
  <2>1. exits' = exits
    BY <1>3, <1>5, PlacedSays
  <2>2. Goto("replace_again", mem) \/ ResizeFails([mem EXCEPT !.gap = @ \/ mem.stopId # NoId])
    BY <1>3, <1>5
  <2>3. /\ SameStopAs(mem, mem') /\ mem'.filled = mem.filled /\ mem'.rearm = mem.rearm
        /\ UNCHANGED ctx /\ pc' \in {"replace_again", "confirm"}
    BY <1>2, <2>2 DEF Goto, ResizeFails, SameStopAs, Records
  <2>4. pc' \in Working
    BY <2>3 DEF Working
  <2> QED BY <1>1, <2>1, <2>3, <2>4, QuietShrinks, WorkOn
<1>6. CASE ok
  <2>1. /\ mem' = Tracking(mem, NextStop, mem.filled) /\ pc' = "confirm" /\ UNCHANGED ctx
    BY <1>3, <1>6 DEF Goto
  <2>2. /\ mem'.stopId = NextStop /\ mem'.stopQty = mem.filled /\ mem'.filled = mem.filled
        /\ mem'.attempt = mem.attempt + 1 /\ mem'.rearm = mem.rearm /\ mem'.state = mem.state
    BY <1>2, <2>1 DEF Tracking, NextStop, Records
  <2>3. mem'.attempt \in 0 .. MaxAttempts /\ mem'.stopQty <= order.filled
        /\ mem'.filled <= order.filled
    BY <1>2, <2>2 DEF TypeOK, Records, Modest
  <2>4. FromDisk' /\ Grows' /\ Freed' /\ Settled' /\ Unsold'
    BY <2>1 DEF FromDisk, Grows, Freed, Settled, Unsold, Working, Exiting, Rearming, Stuck
  <2>5. CASE exits' = exits /\ NextStop \in ExitIds /\ exits[NextStop] # NoExit
    <3>1. ASSUME NEW id \in ActiveExits PROVE id = mem'.stopId \/ InLine(mem', id)
      <4>1. InLine(mem, id) /\ id \in ExitIds
        BY <1>4 DEF ActiveExits
      <4>2. id[2] = mem.attempt + 1 => id = NextStop
        BY <4>1 DEF InLine, NextStop, ExitIds
      <4>3. id[2] \in Nat
        BY <4>1, LineIds, Constants
      <4>4. id[2] # mem.attempt + 1 => id[2] > mem.attempt + 1
            /\ \A j \in (mem.attempt + 1 + 1) .. id[2] : j \in (mem.attempt + 1) .. id[2]
        BY <1>2, <4>1, <4>3 DEF InLine
      <4> QED BY <2>2, <4>1, <4>2, <4>4 DEF InLine, KnownFrom
    <3>2. Counts(mem', NextRearm')
      BY <1>1, <2>2, <2>3, <3>1, LineCounts DEF Modest
    <3>3. Onward(mem')
      BY <1>2, <2>2, <2>5 DEF Onward, KnownFrom, NextStop
    <3> QED BY <1>1, <2>1, <2>4, <2>5, <3>2, <3>3, QuietShrinks, PassOn DEF Working
  <2>6. CASE Accepts(NextStop, mem.filled) /\ Resting(NextStop, mem.filled)
    <3>1. NextStop \in ExitIds /\ exits[NextStop] = NoExit
      BY <2>6 DEF Accepts
    <3>2. ActiveExits = {}
      <4> SUFFICES ASSUME NEW id \in ActiveExits PROVE FALSE
        OBVIOUS
      <4>1. InLine(mem, id) /\ id[2] \in Nat
        BY <1>4, LineIds, Constants DEF ActiveExits
      <4>2. mem.attempt + 1 \in (mem.attempt + 1) .. id[2]
        BY <1>2, <4>1 DEF InLine
      <4> QED BY <3>1, <4>1, <4>2 DEF InLine, KnownFrom, NextStop
    <3>3. PICK id \in ExitIds : id = NextStop
      BY <3>1
    <3>4. id = <<"stop", mem.attempt + 1>> /\ exits[id] = NoExit /\ Resting(id, mem.filled)
          /\ mem'.stopId = id
      BY <2>2, <2>6, <3>1, <3>3 DEF NextStop
    <3> QED BY <1>1, <2>1, <2>2, <2>3, <2>4, <3>2, <3>4, PlacesNext
  <2> QED BY <1>3, <1>6, <2>5, <2>6, PlacedSays
<1> QED BY <1>5, <1>6

\* The confirmation, or its failure.
LEMMA ConfirmOne ==
    ASSUME Careful, TypeOK, TypeOK', OneAtATime, Pended, Confirm PROVE OneAtATime'
<1>1. /\ pc = "confirm" /\ pc # "idle" /\ UNCHANGED <<disk, exits, order, seen>> /\ Shrinks
      /\ mem.state # Confirmed /\ raised \in BOOLEAN
      /\ \A n \in seen' : n <= order.filled
  BY InPass, QuietShrinks DEF Confirm, durable, broker, Pended, Working, Pending, Illegal, Confirmed,
     TypeOK
<1>2. /\ mem \in Records /\ Counts(mem, mem.rearm + 1) /\ Onward(mem) /\ Modest(mem)
      /\ order.filled \in Nat /\ mem.filled \in Nat /\ mem.stopQty \in Nat
  BY <1>1, InPass
<1>3. {Unprotected, Confirmed} \subseteq AllStates /\ Confirmed \notin {Unprotected, Illegal}
  BY DEF AllStates, Confirmed, Unprotected, Illegal
<1>4. ASSUME NEW r \in Records, EndPass(Move(r, Unprotected), raised), Modest(r),
             r.stopId = mem.stopId, r.attempt = mem.attempt
      PROVE  OneAtATime'
  <2> DEFINE s == Move(r, Unprotected)
  <2>1. s \in Records /\ s.stopId = mem.stopId /\ s.attempt = mem.attempt
        /\ s.stopQty = r.stopQty /\ s.filled = r.filled /\ s.state # Confirmed
    BY <1>3, <1>4, MoveIs, MoveTyped
  <2>2. EndPass(s, raised)
    BY <1>4
  <2> HIDE DEF s
  <2>3. Counts(s, s.rearm + 1) /\ Onward(s)
    BY <1>1, <1>2, <1>4, <2>1, LeavesCounted DEF Modest, Onward
  <2> QED BY <1>1, <2>1, <2>2, <2>3, EndsPass
<1>5. CASE ~Sized(mem)
  BY <1>2, <1>4, <1>5 DEF Confirm
<1>6. CASE Sized(mem)
  <2>1. PICK answer \in Answers(exits[mem.stopId]) :
           /\ Lookup(exits[mem.stopId], answer)
           /\ IF ProtectiveLegIsActive(answer.status)
              THEN EndPass(Move([mem EXCEPT !.gap = FALSE], Confirmed), raised)
              ELSE EndPass(Move([mem EXCEPT !.stopQty =
                                   IF ProtectiveLegIsDead(answer.status) THEN 0 ELSE @],
                                Unprotected), raised)
    BY <1>6 DEF Confirm
  <2>2. CASE ProtectiveLegIsActive(answer.status)
    <3>1. mem.stopId \in ActiveExits
      <4>1. mem.stopId \in ExitIds
        BY <1>2, <1>6 DEF Sized, Records
      <4>2. answer # NoAnswer
        <5>1. NoAnswer.status \notin OpenStatuses
          BY DEF NoAnswer, OpenStatuses
        <5> QED BY <2>2, <5>1 DEF ProtectiveLegIsActive
      <4> QED BY <2>1, <2>2, <4>1, <4>2, ActiveAnswer
    <3>2. ActiveExits \subseteq {mem.stopId}
      BY <3>1 DEF OneAtATime, Alone
    <3> DEFINE r == [mem EXCEPT !.gap = FALSE]
    <3>3. /\ r \in Records /\ r.stopId = mem.stopId /\ r.stopQty = mem.stopQty
          /\ r.filled = mem.filled /\ r.attempt = mem.attempt
      BY <1>2 DEF Records
    <3> HIDE DEF r
    <3> DEFINE s == Move(r, Confirmed)
    <3>4. /\ s \in Records /\ s.stopId = mem.stopId /\ s.stopQty = mem.stopQty
          /\ s.filled = mem.filled /\ s.attempt = mem.attempt
      BY <1>3, <3>3, MoveIs, MoveTyped
    <3>5. EndPass(s, raised)
      BY <2>1, <2>2 DEF r
    <3> HIDE DEF s
    <3>6. Counts(s, s.rearm + 1) /\ Onward(s)
      BY <1>2, <3>2, <3>4, StopCounts DEF Modest, Onward
    <3> QED BY <1>1, <3>2, <3>4, <3>5, <3>6, EndsPass
  <2>3. CASE ~ProtectiveLegIsActive(answer.status)
    <3>1. PICK n \in {0, mem.stopQty} : EndPass(Move([mem EXCEPT !.stopQty = n], Unprotected), raised)
      BY <2>1, <2>3
    <3> DEFINE r == [mem EXCEPT !.stopQty = n]
    <3>2. n \in Shares /\ n <= order.filled
      BY <1>2, Constants DEF Records, Shares, Modest
    <3>3. /\ r \in Records /\ r.stopId = mem.stopId /\ r.attempt = mem.attempt /\ Modest(r)
      BY <1>2, <3>2 DEF Records, Modest
    <3> QED BY <1>4, <3>1, <3>3
  <2> QED BY <2>2, <2>3
<1> QED BY <1>5, <1>6

\* A step of the exit pass that only goes on to the next of its checks.
LEMMA ExitOn ==
    ASSUME TypeOK, TypeOK', OneAtATime, pc \in Exiting \union Stuck, pc # "rearm_place",
           UNCHANGED <<disk, exits, order, ctx>>, \A n \in seen' : n <= order.filled,
           SameStopAs(mem, mem'), mem'.filled = mem.filled, mem'.rearm = mem.rearm,
           pc' \in {"exit", "absent", "absent_stop", "rearm", "rearm_held"},
           pc' # "absent_stop" => mem.state = Confirmed,
           pc' = "rearm" => mem.terminal,
           pc' = "rearm_held" => mem.terminal /\ Spent(mem)
    PROVE  OneAtATime'
<1>1. pc # "idle" /\ pc' # "idle" /\ Shrinks
  BY QuietShrinks DEF Exiting, Stuck, Rearming
<1>2. Counts(mem', NextRearm') /\ Onward(mem')
  <2>1. NextRearm' = mem.rearm + 1
    BY DEF NextRearm
  <2> QED BY <1>1, <2>1, InPass, SameCounts DEF Onward, SameStopAs, Counts, Modest
<1>3. FromDisk'
  BY DEF OneAtATime, FromDisk, SameStopAs, Spent, Exiting, Stuck, Rearming
<1> QED BY <1>1, <1>2, <1>3, PassOn DEF Grows, Freed, Settled, Unsold, Working

\* What a step of the exit pass finds.
LEMMA InExit ==
    ASSUME TypeOK, OneAtATime, pc \in Exiting \union Stuck
    PROVE  /\ pc # "idle" /\ SameStopAs(disk, mem) /\ mem.state \in {Confirmed, Unprotected}
           /\ pc \in Exiting => mem.state = Confirmed /\ ctx = "monitor"
           /\ Confirmed # Unprotected
BY DEF OneAtATime, FromDisk, PassCounts, SameStopAs, Exiting, Stuck, Rearming, Confirmed, Unprotected

\* A position that is not there.
LEMMA AbsenceOne ==
    ASSUME TypeOK, TypeOK', OneAtATime, pc \in {"stuck", "absent", "absent_stop"},
           UNCHANGED <<disk, exits, order>>, \A n \in seen' : n <= order.filled,
           NEW r \in Records, AfterAbsence(r), SameStopAs(mem, r), r.filled = mem.filled,
           r.rearm = mem.rearm
    PROVE  OneAtATime'
<1>1. /\ pc # "idle" /\ pc # "rearm_place" /\ Shrinks /\ FALSE \in BOOLEAN
      /\ pc \in Exiting \union Stuck
  BY QuietShrinks DEF Exiting, Stuck
<1>2. /\ SameStopAs(disk, mem) /\ mem.state \in {Confirmed, Unprotected}
      /\ Confirmed # Unprotected
  BY <1>1, InExit
<1>3. Counts(r, r.rearm + 1) /\ Onward(r)
  BY <1>1, InPass, SameCounts DEF Onward, SameStopAs, Counts, Modest
<1>4. CASE EndPass(r, FALSE)
  BY <1>1, <1>3, <1>4, EndsPass
<1>5. CASE Goto("rearm", r) /\ r.state # Unprotected /\ r.terminal
  <2>1. mem' = r /\ pc' = "rearm" /\ UNCHANGED ctx
    BY <1>5 DEF Goto
  <2> QED BY <1>1, <1>2, <1>5, <2>1, ExitOn DEF SameStopAs
<1>6. CASE Goto("poll", r) /\ (r.state = Unprotected \/ ~r.terminal)
  <2>1. mem' = r /\ pc' = "poll" /\ UNCHANGED ctx
    BY <1>6 DEF Goto
  <2>2. Counts(mem', NextRearm') /\ Onward(mem')
    BY <1>3, <2>1 DEF NextRearm
  <2>3. Grows' /\ Settled'
    BY <1>2, <1>6, <2>1 DEF Grows, Settled, SameStopAs
  <2> QED BY <1>1, <2>1, <2>2, <2>3, PassOn DEF FromDisk, Freed, Unsold, Exiting, Stuck, Rearming
<1> QED BY <1>4, <1>5, <1>6 DEF AfterAbsence

\* The check of the stop by an exit pass.
LEMMA CheckExitOne ==
    ASSUME Careful, TypeOK, TypeOK', OneAtATime, CheckExit PROVE OneAtATime'
<1>1. /\ pc = "exit" /\ pc # "idle" /\ pc \in Exiting /\ UNCHANGED <<disk, exits, order, seen>>
      /\ Shrinks /\ \A n \in seen' : n <= order.filled /\ {TRUE, FALSE} \subseteq BOOLEAN
  BY InPass, QuietShrinks DEF CheckExit, broker, Exiting
<1>2. /\ mem \in Records /\ Counts(mem, mem.rearm + 1) /\ Onward(mem) /\ Modest(mem)
      /\ order.filled \in Nat /\ mem.filled \in Nat /\ mem.stopQty \in Nat
  BY <1>1, InPass
<1>3. /\ SameStopAs(disk, mem) /\ mem.state = Confirmed /\ ctx = "monitor" /\ disk.state = Confirmed
  BY <1>1, InExit DEF SameStopAs
<1>4. CASE Goto("absent", mem)
  <2>1. mem' = mem /\ pc' = "absent" /\ UNCHANGED ctx
    BY <1>4 DEF Goto
  <2> QED BY <1>1, <1>3, <2>1, ExitOn DEF SameStopAs
<1>5. CASE EndPass(mem, TRUE)
  BY <1>1, <1>2, <1>3, <1>5, EndsPass
<1>6. ASSUME mem.stopId # NoId,
             NEW answer \in Answers(exits[mem.stopId]), Lookup(exits[mem.stopId], answer),
             answer # NoAnswer, answer.filled # 0
      PROVE  ~Spent(mem) /\ answer.filled \in Nat
  <2>1. mem.stopId \in ExitIds
    BY <1>2, <1>6 DEF Records
  <2> QED BY <1>6, <2>1, ActiveAnswer, Constants DEF Spent, TypeOK, ExitOrders, Shares
<1>7. CASE ~Spent(mem) /\ EndPass(Move(mem, Closed), FALSE)
  <2> DEFINE s == Move(mem, Closed)
  <2>1. /\ s \in Records /\ s.stopId = mem.stopId /\ s.stopQty = mem.stopQty
        /\ s.filled = mem.filled /\ s.attempt = mem.attempt /\ s.state \in {Closed, Illegal}
    BY <1>2, MoveIs, MoveTyped DEF AllStates
  <2>2. EndPass(s, FALSE)
    BY <1>7
  <2> HIDE DEF s
  <2>3. s.state # Confirmed
    BY <2>1 DEF Closed, Illegal, Confirmed
  <2>4. Counts(s, s.rearm + 1) /\ Onward(s)
    BY <1>2, <1>7, <2>1, <2>3, LeavesCounted DEF Modest, Onward
  <2> QED BY <1>1, <2>1, <2>2, <2>3, <2>4, EndsPass
<1>8. ASSUME ~Spent(mem), NEW n \in Nat, n <= order.filled,
             Goto("confirm", Move([mem EXCEPT !.stopQty = n, !.filled = n], Pending))
      PROVE  OneAtATime'
  <2> DEFINE r == [mem EXCEPT !.stopQty = n, !.filled = n]
  <2>1. n \in Shares
    BY <1>2, <1>8, Constants DEF TypeOK, EntryOrders, Shares
  <2>2. /\ r \in Records /\ r.stopId = mem.stopId /\ r.stopQty = n /\ r.filled = n
        /\ r.attempt = mem.attempt
    BY <1>2, <2>1 DEF Records
  <2> HIDE DEF r
  <2> DEFINE s == Move(r, Pending)
  <2>3. /\ s.stopId = mem.stopId /\ s.stopQty = n /\ s.filled = n
        /\ s.attempt = mem.attempt /\ s.state \in {Pending, Illegal}
    BY <2>2, MoveIs
  <2>4. mem' = s /\ pc' = "confirm" /\ UNCHANGED ctx
    BY <1>8 DEF Goto, r
  <2> HIDE DEF s
  <2>5. s.state # Confirmed
    BY <2>3 DEF Pending, Illegal, Confirmed
  <2>6. Counts(mem', NextRearm') /\ Onward(mem')
    BY <1>2, <1>8, <2>3, <2>4, <2>5, LeavesCounted DEF Modest, Onward
  <2> QED BY <1>1, <2>4, <2>6, PassOn DEF FromDisk, Grows, Freed, Settled, Unsold, Exiting, Stuck,
     Rearming, Working
<1>9. CASE mem.stopId # NoId
  <2>1. PICK answer \in Answers(exits[mem.stopId]) :
           /\ Lookup(exits[mem.stopId], answer)
           /\ LET left == Remaining(mem, answer.filled) IN
              IF answer = NoAnswer THEN EndPass(mem, TRUE)
              ELSE IF answer.filled = 0 THEN Goto("absent", mem)
              ELSE IF left = 0 THEN EndPass(Move(mem, Closed), FALSE)
              ELSE Goto("confirm", Move([mem EXCEPT !.stopQty = left, !.filled = left], Pending))
    BY <1>1, <1>9 DEF CheckExit
  <2>2. CASE answer # NoAnswer /\ answer.filled # 0
    <3>1. ~Spent(mem) /\ answer.filled \in Nat
      BY <1>6, <1>9, <2>1, <2>2
    <3>2. Remaining(mem, answer.filled) \in Nat /\ Remaining(mem, answer.filled) <= order.filled
      BY <1>2, <3>1 DEF Remaining, StopSize, Modest
    <3> QED BY <1>7, <1>8, <2>1, <2>2, <3>1, <3>2
  <2> QED BY <1>4, <1>5, <2>1, <2>2
<1> QED BY <1>4, <1>9 DEF CheckExit

\* The checks before a rearming.
LEMMA RearmOne ==
    ASSUME Careful, TypeOK, TypeOK', RecordsAreTruthful, OneAtATime, Rearm \/ RearmIfHeld
    PROVE  OneAtATime'
<1>1. /\ pc \in {"rearm", "rearm_held"} /\ pc # "idle" /\ pc \in Exiting /\ pc \in Rearming
      /\ UNCHANGED <<disk, exits, order>> /\ Shrinks /\ FALSE \in BOOLEAN
  BY QuietShrinks DEF Rearm, RearmIfHeld, durable, broker, Exiting, Rearming
<1>2. /\ mem \in Records /\ Counts(mem, mem.rearm + 1) /\ Onward(mem) /\ Modest(mem)
      /\ \A n \in seen : n <= order.filled
  BY <1>1, InPass
<1>3. /\ SameStopAs(disk, mem) /\ mem.state = Confirmed /\ disk.state = Confirmed /\ mem.terminal
      /\ mem.rearm = disk.rearm /\ (pc = "rearm_held" => Spent(mem))
  BY <1>1, InExit DEF SameStopAs, OneAtATime, FromDisk
<1>4. \A n \in seen' : n <= order.filled
  BY <1>2, PositionsSay DEF Rearm, RearmIfHeld
<1>5. CASE EndPass(mem, FALSE)
  BY <1>1, <1>2, <1>4, <1>5, EndsPass
<1>6. CASE Rearm /\ Goto("rearm_held", mem)
  <2>1. mem' = mem /\ pc' = "rearm_held" /\ UNCHANGED ctx
    BY <1>6 DEF Goto
  <2>2. Spent(mem)
    <3> SUFFICES ASSUME mem.stopId # NoId
                 PROVE  exits[mem.stopId].status \in FinalStatuses /\ exits[mem.stopId].filled = 0
      BY DEF Spent
    <3>1. PICK answer \in Answers(exits[mem.stopId]) :
             Lookup(exits[mem.stopId], answer) /\ MayRearm(answer)
      BY <1>6, <2>1 DEF Rearm, EndPass
    <3>2. mem.stopId \in ExitIds
      BY <1>2 DEF Records
    <3> QED BY <3>1, <3>2, ActiveAnswer DEF MayRearm
  <2> QED BY <1>1, <1>3, <1>4, <2>1, <2>2, ExitOn DEF SameStopAs
<1>7. CASE RearmIfHeld /\ Goto("rearm_place", [mem EXCEPT !.rearm = NextAttempt(@)])
  <2>1. /\ pc = "rearm_held" /\ pc' = "rearm_place" /\ UNCHANGED ctx
        /\ SameStopAs(mem, mem') /\ mem'.filled = mem.filled /\ mem'.rearm = NextAttempt(mem.rearm)
    BY <1>2, <1>7 DEF Goto, RearmIfHeld, SameStopAs, Records
  <2>2. Counts(mem, NextAttempt(mem.rearm))
    <3>1. CASE mem.rearm <= MaxAttempts
      BY <1>2, <3>1 DEF NextAttempt
    <3>2. CASE ~(mem.rearm <= MaxAttempts)
      <4>1. \A id \in ExitIds : id # <<"stop_rearm", mem.rearm + 1>>
        <5>1. mem.rearm \in Nat
          BY <1>2, Constants DEF Records
        <5> QED BY <3>2, <5>1, Constants DEF ExitIds
      <4> QED BY <1>2, <4>1 DEF Counts, Accounted, Rearmed, ActiveExits
    <3> QED BY <3>1, <3>2
  <2>3. Counts(mem', NextRearm') /\ Onward(mem')
    BY <1>2, <2>1, <2>2, SameCounts DEF NextRearm, Onward, SameStopAs, Modest
  <2>4. FromDisk'
    BY <1>1, <1>3, <2>1 DEF FromDisk, SameStopAs, Spent
  <2> QED BY <1>1, <1>4, <2>1, <2>3, <2>4, PassOn DEF Grows, Freed, Settled, Unsold, Working
<1> QED BY <1>5, <1>6, <1>7 DEF Rearm, RearmIfHeld

\* The rearming, whose id was counted and saved by nobody yet.
LEMMA PlaceRearmedOne ==
    ASSUME Careful, TypeOK, TypeOK', OneAtATime, PlaceRearmed PROVE OneAtATime'
<1>1. /\ pc = "rearm_place" /\ pc # "idle" /\ pc \in Exiting /\ UNCHANGED <<disk, order, seen>>
      /\ {TRUE, FALSE} \subseteq BOOLEAN
  BY DEF PlaceRearmed, durable, Exiting, Rearming
<1>2. /\ mem \in Records /\ Counts(mem, mem.rearm) /\ Onward(mem) /\ Modest(mem)
      /\ \A n \in seen : n <= order.filled
      /\ disk.state = Confirmed => ctx = "monitor"
  BY <1>1 DEF TypeOK, OneAtATime, PassCounts, NextRearm, Counts
<1>3. /\ SameStopAs(disk, mem) /\ mem.state = Confirmed /\ disk.state = Confirmed /\ mem.terminal
      /\ mem.rearm = NextAttempt(disk.rearm) /\ Spent(mem)
  BY <1>1, InExit DEF SameStopAs, OneAtATime, FromDisk, Rearming
<1>4. PICK id : id = <<"stop_rearm", mem.rearm>>
  OBVIOUS
<1>5. PICK ok \in BOOLEAN, qty \in seen :
         /\ Placed(id, qty, ok)
         /\ EndPass(IF ok THEN [mem EXCEPT !.stopId = id, !.stopQty = qty] ELSE mem, ~ok)
  BY <1>4 DEF PlaceRearmed
\* Whatever rests has the id that comes next.
<1>6. ActiveExits \subseteq {id}
  <2>1. ASSUME NEW x \in ActiveExits PROVE x # mem.stopId
    <3>1. x \in ExitIds /\ exits[x].status \in OpenStatuses
      BY DEF ActiveExits, ProtectiveLegIsActive
    <3>2. OpenStatuses \cap FinalStatuses = {} /\ NoId \notin ExitIds
      BY DEF OpenStatuses, FinalStatuses, NoId, ExitIds, Legs
    <3> QED BY <1>3, <3>1, <3>2 DEF Spent
  <2> QED BY <1>2, <1>3, <1>4, <2>1 DEF Counts, Accounted, Waiting, Rearmed
<1>7. CASE ~ok
  <2>1. exits' = exits /\ ActiveExits = {}
    <3>1. exits' = exits /\ ~(id \in ExitIds /\ exits[id] # NoExit)
      BY <1>5, <1>7, PlacedSays
    <3>2. NoExit.status \notin OpenStatuses
      BY DEF NoExit, OpenStatuses
    <3> QED BY <1>6, <3>1, <3>2 DEF ActiveExits, ProtectiveLegIsActive
  <2>2. EndPass(mem, TRUE)
    BY <1>5, <1>7
  <2>3. Counts(mem, mem.rearm + 1)
    BY <1>2, <2>1, StopCounts
  <2> QED BY <1>1, <1>2, <2>1, <2>2, <2>3, QuietShrinks, EndsPass
<1>8. CASE ok
  <2> DEFINE r == [mem EXCEPT !.stopId = id, !.stopQty = qty]
  <2>1. id \in ExitIds
    BY <1>5, <1>8, PlacedSays DEF Accepts
  <2>2. /\ r \in Records /\ r.stopId = id /\ r.stopQty = qty /\ r.filled = mem.filled
        /\ r.attempt = mem.attempt /\ r.rearm = mem.rearm
    BY <1>2, <2>1 DEF Records, TypeOK
  <2>3. EndPass(r, FALSE)
    BY <1>5, <1>8
  <2> HIDE DEF r
  <2>4. Modest(r) /\ Onward(r)
    BY <1>2, <2>2 DEF Modest, Onward
  <2>5. CASE exits' = exits
    <3>1. Counts(r, r.rearm + 1)
      BY <1>6, <2>2, <2>4, StopCounts
    <3> QED BY <1>1, <1>2, <2>2, <2>3, <2>4, <2>5, <3>1, QuietShrinks, EndsPass
  <2>6. CASE exits[id] = NoExit /\ Resting(id, qty)
    <3>1. ActiveExits = {}
      <4>1. NoExit.status \notin OpenStatuses
        BY DEF NoExit, OpenStatuses
      <4> QED BY <1>6, <2>6, <4>1 DEF ActiveExits, ProtectiveLegIsActive
    <3>2. /\ ActiveExits' \subseteq {id} /\ exits'[id] # NoExit
          /\ \A x \in ExitIds : x # id => exits'[x] = exits[x]
      BY <2>1, <2>6, <3>1, FirstActive
    <3>3. /\ mem'.stopId = id /\ mem'.stopQty = qty /\ mem'.filled = mem.filled
          /\ mem'.attempt = mem.attempt /\ ctx' = ctx /\ pc' = "save"
      <4>1. ~PollsAgain(r, FALSE)
        BY <1>2, <1>3 DEF PollsAgain
      <4> QED BY <2>2, <2>3, <4>1 DEF EndPass, Records
    <3>4. mem.rearm = disk.rearm + 1
      <4>1. mem.rearm <= MaxAttempts /\ disk.rearm \in 0 .. (MaxAttempts + 1)
        BY <1>4, <2>1 DEF ExitIds, TypeOK, Records
      <4> QED BY <1>3, <4>1, Constants DEF NextAttempt
    <3>5. Spent(disk)'
      <4>1. \A x \in ExitIds : exits[x].status \in FinalStatuses => x # id
        <5>1. NoExit.status \notin FinalStatuses
          BY DEF NoExit, FinalStatuses
        <5> QED BY <2>6, <5>1
      <4>2. disk.stopId \in ExitIds \union {NoId}
        BY DEF TypeOK, Records
      <4> QED BY <1>1, <1>3, <3>2, <4>1, <4>2 DEF Spent, SameStopAs
    <3>6. DiskCounts'
      <4>1. Modest(disk)'
        BY <1>1 DEF OneAtATime, DiskCounts, Modest
      <4>2. Rearmed(disk, disk.rearm + 1, id)'
        BY <1>1, <1>3, <1>4, <3>4, <3>5 DEF Rearmed, SameStopAs
      <4> QED BY <3>2, <4>1, <4>2 DEF DiskCounts, Accounted
    <3>7. Counts(mem, NextRearm)'
      BY <1>1, <2>2, <2>4, <3>2, <3>3 DEF Counts, Modest, Accounted
    <3>8. Onward(mem)'
      <4>1. \A j \in (disk.attempt + 1) .. mem.attempt :
               exits[<<"stop", j>>] # NoExit => exits'[<<"stop", j>>] # NoExit
        <5>1. mem.attempt \in 0 .. MaxAttempts /\ disk.attempt \in Nat
          BY <1>2, Constants DEF TypeOK, Records
        <5>2. \A j \in (disk.attempt + 1) .. mem.attempt : <<"stop", j>> \in ExitIds
          BY <5>1, Constants DEF ExitIds, Legs
        <5> QED BY <1>4, <3>2, <5>2
      <4> QED BY <1>1, <1>2, <3>3, <4>1 DEF Onward, KnownFrom
    <3>9. Alone'
      BY <3>2 DEF Alone
    <3> QED BY <1>1, <1>2, <3>3, <3>6, <3>7, <3>8, <3>9
        DEF OneAtATime, PassCounts, FromDisk, Grows, Freed, Settled, Unsold, Exiting, Stuck, Rearming,
            Working
  <2> QED BY <1>5, <1>8, <2>5, <2>6, PlacedSays DEF Accepts
<1> QED BY <1>7, <1>8

\* The steps of the passes.
LEMMA PassOne ==
    ASSUME Careful, TypeOK, TypeOK', RecordsAreTruthful, OneAtATime, Pended, Fill \/ Target \/ Exit
    PROVE  OneAtATime'
<1>1. CASE Fill
  BY <1>1, PollOne, ResizeOne, ReplaceOne, ConfirmOne DEF Fill
<1>2. CASE CheckTarget
  <2>1. /\ pc = "target" /\ pc' = "exit" /\ mem' = mem /\ UNCHANGED <<disk, exits, order, seen, ctx>>
    BY <1>2 DEF CheckTarget, Careful, Goto, durable, broker
  <2>2. pc \in Exiting /\ \A n \in seen' : n <= order.filled
    BY <2>1, InPass DEF Exiting
  <2> QED BY <2>1, <2>2, ExitOn, InExit DEF SameStopAs
<1>3. ~(CancelForTarget \/ RecheckForTarget \/ SellAtTarget \/ RestoreStop \/ PollSell)
  BY DEF OneAtATime, Unsold, CancelForTarget, RecheckForTarget, SellAtTarget, RestoreStop, PollSell
<1>4. CASE CheckAbsence
  <2>1. /\ pc \in {"stuck", "absent"} /\ pc \in Exiting \union Stuck
        /\ UNCHANGED <<disk, exits, order>> /\ 0 \in 0 .. ConfirmPasses
    BY <1>4, Constants DEF CheckAbsence, durable, broker, Exiting, Stuck
  <2>2. \A n \in seen' : n <= order.filled
    BY <1>4, <2>1, InPass, PositionsSay DEF CheckAbsence
  <2>3. mem \in Records
    BY DEF TypeOK
  <2>4. CASE Goto("absent_stop", mem)
    <3>1. mem' = mem /\ pc' = "absent_stop" /\ UNCHANGED ctx
      BY <2>4 DEF Goto
    <3> QED BY <2>1, <2>2, <3>1, ExitOn DEF SameStopAs
  <2>5. CASE AfterAbsence(mem)
    BY <2>1, <2>2, <2>3, <2>5, AbsenceOne DEF SameStopAs
  <2>6. CASE AfterAbsence([mem EXCEPT !.absent = 0])
    <3> DEFINE r == [mem EXCEPT !.absent = 0]
    <3>1. r \in Records /\ SameStopAs(mem, r) /\ r.filled = mem.filled /\ r.rearm = mem.rearm
      BY <2>1, <2>3 DEF Records, SameStopAs
    <3> HIDE DEF r
    <3>2. AfterAbsence(r)
      BY <2>6 DEF r
    <3> QED BY <2>1, <2>2, <3>1, <3>2, AbsenceOne
  <2> QED BY <1>4, <2>4, <2>5, <2>6 DEF CheckAbsence
<1>5. CASE CheckAbsentStop
  <2>1. /\ pc = "absent_stop" /\ UNCHANGED <<disk, exits, order, seen>> /\ mem \in Records
        /\ \A n \in seen' : n <= order.filled
    BY <1>5, InPass DEF CheckAbsentStop, durable, broker, TypeOK
  <2>2. PICK n \in {0, mem.absent + 1} : AfterAbsence([mem EXCEPT !.absent = n])
    BY <1>5 DEF CheckAbsentStop
  <2>3. n \in 0 .. ConfirmPasses
    BY <2>1, <2>2, Constants DEF RecordsAreTruthful, Flagged, Records
  <2> DEFINE r == [mem EXCEPT !.absent = n]
  <2>4. r \in Records /\ SameStopAs(mem, r) /\ r.filled = mem.filled /\ r.rearm = mem.rearm
    BY <2>1, <2>3 DEF Records, SameStopAs
  <2> HIDE DEF r
  <2>5. AfterAbsence(r)
    BY <2>2 DEF r
  <2> QED BY <2>1, <2>4, <2>5, AbsenceOne
<1> QED BY <1>1, <1>2, <1>3, <1>4, <1>5, CheckExitOne, RearmOne, PlaceRearmedOne DEF Target, Exit

\* A pass that begins from the record on disk, in no state of protection.
LEMMA BeginsFresh ==
    ASSUME TypeOK, TypeOK', OneAtATime, pc = "idle", pc' \in {"poll", "save", "place"},
           UNCHANGED <<disk, exits, order, seen>>, disk.state \notin {Confirmed, Closed},
           NEW r \in Records, mem' = r, r.state # Confirmed, r.stopId = disk.stopId,
           r.stopQty = disk.stopQty, r.filled = disk.filled, r.attempt = disk.attempt
    PROVE  OneAtATime'
<1>1. Shrinks /\ \A n \in seen' : n <= order.filled
  BY QuietShrinks DEF OneAtATime, PassCounts
<1>2. Counts(disk, disk.rearm + 1)
  BY DEF OneAtATime, DiskCounts, Counts
<1>3. Counts(mem', NextRearm')
  BY <1>2, LeavesCounted DEF Counts, Modest
<1>4. Onward(mem')
  <2>1. disk.attempt \in Nat
    BY Constants DEF TypeOK, Records
  <2> QED BY <2>1 DEF Onward, KnownFrom
<1> QED BY <1>1, <1>3, <1>4, IntoPass DEF FromDisk, Grows, Freed, Settled, Unsold, Exiting, Stuck,
     Rearming, Working

\* The steps that begin a pass.
LEMMA BeginOne ==
    ASSUME Careful, TypeOK, TypeOK', RecordsAreTruthful, OneAtATime, Submit \/ PlaceEntry \/ Monitor
    PROVE  OneAtATime'
<1>1. disk \in Records /\ mem \in Records
      /\ {Failed, Unknown, Submitted} \subseteq AllStates
      /\ Confirmed \notin {Failed, Unknown, Submitted, Illegal}
      /\ Closed \notin {Failed, Unknown, Submitted, Illegal}
      /\ "none" \notin {Confirmed, Closed}
  BY DEF TypeOK, AllStates, Failed, Unknown, Submitted, Illegal, Confirmed, Closed
<1>2. CASE Submit
  <2> DEFINE r == [NoRecord EXCEPT !.state = Submitted]
  <2>1. /\ r \in Records /\ r.state = Submitted /\ NoRecord.state = "none"
        /\ r.stopId = NoRecord.stopId /\ r.stopQty = NoRecord.stopQty
        /\ r.filled = NoRecord.filled /\ r.attempt = NoRecord.attempt /\ r.rearm = NoRecord.rearm
    BY <1>1, NoRecordTyped DEF Records, NoRecord
  <2>2. /\ pc = "idle" /\ disk = NoRecord /\ UNCHANGED <<exits, order, seen>>
        /\ \/ disk' = r /\ mem' = r /\ pc' = "place"
           \/ disk' = disk /\ mem' = Move(r, Failed) /\ pc' = "save"
    BY <1>2 DEF Submit, broker
  <2> HIDE DEF r
  <2>3. CASE disk' = disk /\ mem' = Move(r, Failed) /\ pc' = "save"
    <3> DEFINE s == Move(r, Failed)
    <3>1. /\ s \in Records /\ s.stopId = r.stopId /\ s.stopQty = r.stopQty
          /\ s.filled = r.filled /\ s.attempt = r.attempt /\ s.state \in {Failed, Illegal}
      BY <1>1, <2>1, MoveTyped, MoveIs
    <3>2. mem' = s
      BY <2>3
    <3> HIDE DEF s
    <3> QED BY <1>1, <2>1, <2>2, <2>3, <3>1, <3>2, BeginsFresh
  <2>4. CASE disk' = r /\ mem' = r /\ pc' = "place"
    <3>1. Counts(disk, disk.rearm + 1)
      BY <1>1, <2>1, <2>2 DEF OneAtATime, DiskCounts, Counts
    <3>2. r.state # Confirmed
      BY <1>1, <2>1
    <3>3. Counts(r, r.rearm + 1) /\ Modest(r)
      <4>1. Modest(r)
        BY <2>1, <2>2, <3>1 DEF Counts, Modest
      <4> QED BY <1>1, <2>1, <2>2, <3>1, <3>2, <4>1, LeavesCounted
    <3>4. Counts(mem, NextRearm)' /\ DiskCounts'
      BY <2>2, <2>4, <3>3 DEF DiskCounts, Counts, NextRearm, Modest, Accounted, Waiting, InLine,
         KnownFrom, Rearmed, Spent, ActiveExits
    <3>5. Onward(mem)'
      <4>1. r.attempt \in Nat
        BY <2>1, Constants DEF Records
      <4> QED BY <2>4, <4>1 DEF Onward, KnownFrom
    <3>6. Alone' /\ \A n \in seen' : n <= order'.filled
      BY <2>2 DEF OneAtATime, Alone, PassCounts, ActiveExits
    <3> QED BY <2>4, <3>2, <3>4, <3>5, <3>6 DEF OneAtATime, PassCounts, FromDisk, Grows, Freed,
       Settled, Unsold, Exiting, Stuck, Rearming, Working
  <2> QED BY <2>2, <2>3, <2>4
<1>3. CASE PlaceEntry
  <2>1. /\ pc = "place" /\ pc # "idle" /\ mem.state = Submitted /\ disk.state = Submitted
        /\ UNCHANGED <<disk, exits, seen>> /\ order'.filled = order.filled
    BY <1>3 DEF PlaceEntry, durable, RecordsAreTruthful, TypeOK, EntryOrders
  <2>2. Shrinks /\ \A n \in seen' : n <= order.filled
    BY <2>1, QuietShrinks DEF OneAtATime, PassCounts
  <2>3. Counts(mem, mem.rearm + 1) /\ Onward(mem) /\ Modest(mem)
    BY <2>1, InPass
  <2>4. ASSUME NEW to \in {Failed, Unknown}, Goto("save", Move(mem, to)) PROVE OneAtATime'
    <3> DEFINE s == Move(mem, to)
    <3>1. /\ s.stopId = mem.stopId /\ s.stopQty = mem.stopQty /\ s.filled = mem.filled
          /\ s.attempt = mem.attempt /\ s.state \in {to, Illegal}
      BY <1>1, MoveIs
    <3>2. mem' = s /\ pc' = "save" /\ UNCHANGED ctx
      BY <2>4 DEF Goto
    <3> HIDE DEF s
    <3>3. s.state # Confirmed /\ mem.state # Confirmed
      BY <1>1, <2>1, <3>1
    <3>4. Counts(mem', NextRearm') /\ Onward(mem')
      BY <2>3, <3>1, <3>2, <3>3, LeavesCounted DEF Modest, Onward
    <3> QED BY <2>1, <2>2, <3>2, <3>4, PassOn DEF FromDisk, Grows, Freed, Settled, Unsold, Exiting,
       Stuck, Rearming, Working
  <2>5. CASE Goto("poll", mem)
    <3>1. mem' = mem /\ pc' = "poll" /\ UNCHANGED ctx
      BY <2>5 DEF Goto
    <3>2. Counts(mem', NextRearm') /\ Onward(mem')
      BY <2>3, <3>1 DEF NextRearm
    <3> QED BY <1>1, <2>1, <2>2, <3>1, <3>2, PassOn DEF FromDisk, Grows, Freed, Settled, Unsold,
       Exiting, Stuck, Rearming, Working
  <2> QED BY <1>3, <2>4, <2>5 DEF PlaceEntry
<1>4. CASE MonitorBegin
  <2>1. /\ pc = "idle" /\ mem' = disk /\ ctx' = "monitor" /\ UNCHANGED <<disk, exits, order>>
        /\ seen' \subseteq {position} /\ disk.state # Closed
        /\ pc' = CASE disk.state = Confirmed   -> "target"
                   [] disk.state = Unprotected -> "stuck"
                   [] OTHER                    -> "poll"
    BY <1>4 DEF MonitorBegin, durable, broker, FillMonitoringStates, MonitorResumableStates, Submitted,
       Partially, Filled, Pending, Unprotected, Confirmed, Closed
  <2>2. Shrinks /\ \A n \in seen' : n <= order.filled
    BY <2>1, QuietShrinks DEF RecordsAreTruthful
  <2>3. pc' \in {"target", "stuck", "poll"}
    BY <2>1
  <2>4. Counts(mem', NextRearm') /\ Onward(mem')
    <3>1. disk.attempt \in Nat
      BY <1>1, Constants DEF Records
    <3> QED BY <2>1, <2>3, <3>1 DEF OneAtATime, DiskCounts, Counts, NextRearm, Onward, KnownFrom
  <2>5. Confirmed # Unprotected
    BY DEF Confirmed, Unprotected
  <2>6. FromDisk' /\ Grows' /\ Settled' /\ Freed' /\ Unsold'
    BY <2>1, <2>3, <2>5 DEF FromDisk, Grows, Settled, Freed, Unsold, SameStopAs, Exiting, Stuck,
       Rearming, Working
  <2> QED BY <2>1, <2>2, <2>3, <2>4, <2>6, IntoPass
<1>5. CASE ReconcileUnknown
  <2>1. /\ pc = "idle" /\ disk.state = Unknown /\ pc' \in {"save", "poll"}
        /\ UNCHANGED <<disk, exits, order, seen>>
        /\ mem' \in {Rejected(disk), Move(disk, Unknown), Move(disk, Submitted)}
    BY <1>5 DEF ReconcileUnknown, durable, broker
  <2> DEFINE d == [disk EXCEPT !.rejections = IF @ < MinRejections THEN @ + 1 ELSE @]
  <2>2. /\ d \in Records /\ d.stopId = disk.stopId /\ d.stopQty = disk.stopQty
        /\ d.filled = disk.filled /\ d.attempt = disk.attempt
    BY <1>1, Constants DEF Records
  <2>3. mem' \in {Move(disk, Failed), Move(d, Unknown), Move(disk, Unknown), Move(disk, Submitted)}
    BY <2>1 DEF Rejected
  <2> HIDE DEF d
  <2>4. PICK r \in {disk, d}, to \in {Failed, Unknown, Submitted} : mem' = Move(r, to)
    BY <2>3
  <2>5. r \in Records /\ Move(r, to) \in Records
    BY <1>1, <2>2, <2>4, MoveTyped
  <2>6. /\ mem'.state # Confirmed /\ mem'.stopId = disk.stopId /\ mem'.stopQty = disk.stopQty
        /\ mem'.filled = disk.filled /\ mem'.attempt = disk.attempt
    BY <1>1, <2>2, <2>4, <2>5, MoveIs
  <2> QED BY <1>1, <2>1, <2>4, <2>5, <2>6, BeginsFresh
<1> QED BY <1>2, <1>3, <1>4, <1>5 DEF Monitor

\* The steps that end one: a save, a crash, an administrator.
LEMMA EndOne ==
    ASSUME Careful, TypeOK, TypeOK', OneAtATime, Save \/ Crash \/ ResolveAbsent PROVE OneAtATime'
<1>1. /\ UNCHANGED <<exits, order>> /\ pc' = "idle" /\ seen' \subseteq seen
  BY DEF Save, Crash, ResolveAbsent, broker, process
<1>2. Alone' /\ \A n \in seen' : n <= order'.filled
  BY <1>1 DEF OneAtATime, Alone, PassCounts, ActiveExits
<1>3. DiskCounts'
  <2>1. CASE Save
    <3>1. pc = "save" /\ disk' = mem
      BY <2>1 DEF Save
    <3>2. Counts(mem, mem.rearm + 1)
      BY <3>1, InPass
    <3> QED BY <1>1, <3>1, <3>2 DEF DiskCounts, Counts, Modest, Accounted, Waiting, InLine, KnownFrom,
       Rearmed, Spent, ActiveExits
  <2>2. CASE Crash
    <3>1. disk' = disk
      BY <2>2 DEF Crash, durable
    <3> QED BY <1>1, <3>1, DiskStill, QuietShrinks DEF OneAtATime
  <2>3. CASE ResolveAbsent
    <3>1. disk.state \in {Unprotected, Confirmed} /\ disk' = Move(disk, Closed) /\ disk \in Records
      BY <2>3 DEF ResolveAbsent, TypeOK
    <3>2. disk'.state = Closed
      <4>1. disk.state \in AllStates /\ Closed \in ValidTransitions[disk.state]
        BY <3>1 DEF ValidTransitions, AllStates, Submitted, Partially, Filled, Pending, Confirmed,
                    Unprotected, Closed, Unknown, Released, Linking, Failed, TerminalStates
      <4> QED BY <3>1, <4>1 DEF Move, Records
    <3>3. disk'.stopQty = disk.stopQty /\ disk'.filled = disk.filled
      BY <3>1, MoveIs
    <3> QED BY <1>1, <3>2, <3>3 DEF OneAtATime, DiskCounts, Modest
  <2> QED BY <2>1, <2>2, <2>3
<1> QED BY <1>1, <1>2, <1>3 DEF OneAtATime, PassCounts, FromDisk, Grows, Freed, Settled, Unsold,
     Exiting, Stuck, Rearming, Working

\* What the broker, the market and the account's owner do to the exit orders.
LEMMA EnvironmentShrinks ==
    ASSUME TypeOK, Environment PROVE Shrinks /\ UNCHANGED <<process, durable>>
<1>1. /\ order.filled \in Nat
      /\ OpenStatuses \cap FinalStatuses = {} /\ NoExit.status \notin OpenStatuses
      /\ NoExit.status \notin FinalStatuses /\ {"CANCELLED", "FILLED"} \subseteq FinalStatuses
      /\ "CANCELLED" \notin OpenStatuses
  BY Constants DEF TypeOK, EntryOrders, Shares, OpenStatuses, FinalStatuses, NoExit
<1>2. UNCHANGED <<process, durable>>
  BY Zenon DEF Environment, Shown, EntryFills, EntryEnds, ExitFills, CancelLands, ExitExpires,
     MarketCloses, MarketOpens, Outside
<1>3. ASSUME NEW id \in ActiveExits, NEW e, e.status \in OpenStatuses \union FinalStatuses,
             exits' = [exits EXCEPT ![id] = e], order.filled <= order'.filled
      PROVE  Shrinks
  <2>1. id \in ExitIds /\ exits[id].status \in OpenStatuses
    BY DEF ActiveExits, ProtectiveLegIsActive
  <2>2. exits'[id] = e /\ \A x \in ExitIds : x # id => exits'[x] = exits[x]
    BY <1>3, <2>1 DEF TypeOK
  <2>3. e # NoExit
    BY <1>1, <1>3
  <2> QED BY <1>1, <1>3, <2>1, <2>2, <2>3 DEF Shrinks
<1>4. ASSUME NEW id \in ActiveExits, Ended(id), UNCHANGED order PROVE Shrinks
  <2> DEFINE e == [exits[id] EXCEPT !.status = "CANCELLED"]
  <2>1. exits' = [exits EXCEPT ![id] = e]
    BY <1>4 DEF Ended
  <2>2. e.status \in FinalStatuses
    BY <1>1 DEF ActiveExits, TypeOK, ExitOrders
  <2>3. order.filled <= order'.filled
    BY <1>1, <1>4
  <2> HIDE DEF e
  <2> QED BY <1>3, <2>1, <2>2, <2>3
<1>5. CASE Shown \/ EntryEnds \/ MarketCloses \/ MarketOpens
  <2>1. UNCHANGED exits /\ order'.filled = order.filled
    BY <1>5 DEF Shown, EntryEnds, MarketCloses, MarketOpens, TypeOK, EntryOrders
  <2> QED BY <1>2, <2>1, QuietShrinks
<1>6. CASE EntryFills
  <2>1. PICK more \in 1 .. (Quantity - order.filled) :
           /\ order' = [filled |-> order.filled + more,
                        status |-> IF order.filled + more = Quantity THEN "FILLED"
                                   ELSE "PARTIAL FILLED"]
           /\ UNCHANGED exits
    BY <1>6 DEF EntryFills
  <2>2. more \in Nat
    BY <1>1, Constants
  <2>3. order'.filled = order.filled + more
    BY <2>1
  <2>4. order.filled <= order'.filled
    BY <1>1, <2>2, <2>3
  <2> QED BY <1>2, <2>1, <2>4 DEF Shrinks
<1>7. CASE ExitFills
  <2>1. PICK id \in ActiveExits : \E more \in 1 .. (exits[id].qty - exits[id].filled) :
           exits' = [exits EXCEPT ![id].filled = @ + more,
                        ![id].status = IF exits[id].filled + more = exits[id].qty
                                       THEN "FILLED" ELSE "PARTIAL FILLED"]
    BY <1>7 DEF ExitFills
  <2>2. PICK more \in 1 .. (exits[id].qty - exits[id].filled) :
           exits' = [exits EXCEPT ![id].filled = @ + more,
                        ![id].status = IF exits[id].filled + more = exits[id].qty
                                       THEN "FILLED" ELSE "PARTIAL FILLED"]
    BY <2>1
  <2> DEFINE status == IF exits[id].filled + more = exits[id].qty THEN "FILLED" ELSE "PARTIAL FILLED"
  <2>3. status \in OpenStatuses \union FinalStatuses
    BY DEF OpenStatuses, FinalStatuses
  <2>4. exits' = [exits EXCEPT ![id].filled = @ + more, ![id].status = status]
    BY <2>2
  <2> HIDE DEF status
  <2> DEFINE e == [exits[id] EXCEPT !.filled = @ + more, !.status = status]
  <2>5. id \in ExitIds /\ exits[id] \in ExitOrders
    BY DEF ActiveExits, TypeOK
  <2>6. exits' = [exits EXCEPT ![id] = e]
    BY <2>4, <2>5 DEF TypeOK
  <2>7. e.status \in OpenStatuses \union FinalStatuses
    BY <2>3, <2>5 DEF ExitOrders
  <2>8. order.filled <= order'.filled
    <3>1. order' = order
      BY <1>7 DEF ExitFills
    <3> QED BY <1>1, <3>1
  <2> HIDE DEF e
  <2> QED BY <1>2, <1>3, <2>6, <2>7, <2>8
<1>8. CASE CancelLands \/ ExitExpires \/ Outside
  <2>1. UNCHANGED order /\ (UNCHANGED exits \/ \E id \in ActiveExits : Ended(id))
    BY <1>8 DEF CancelLands, ExitExpires, Outside
  <2> QED BY <1>2, <1>4, <2>1, QuietShrinks
<1> QED BY <1>5, <1>6, <1>7, <1>8 DEF Environment

\* They leave the counts as they are.
LEMMA EnvironmentOne ==
    ASSUME TypeOK, TypeOK', OneAtATime, Shrinks, UNCHANGED <<process, durable>> PROVE OneAtATime'
<1>1. UNCHANGED <<pc, mem, disk, ctx, seen>>
  BY DEF process, durable
<1>2. \A n \in seen' : n <= order.filled
  BY <1>1 DEF OneAtATime, PassCounts
<1>3. ActiveExits' \subseteq ActiveExits
  BY DEF Shrinks, ActiveExits, ProtectiveLegIsActive
<1>4. FromDisk' /\ Grows' /\ Freed' /\ Settled' /\ Unsold'
  <2>1. Spent(mem) => Spent(mem)'
    <3>1. mem.stopId \in ExitIds \union {NoId}
      BY DEF TypeOK, Records
    <3> QED BY <1>1, <3>1 DEF Spent, Shrinks
  <2> QED BY <1>1, <1>3, <2>1 DEF OneAtATime, FromDisk, Grows, Freed, Settled, Unsold, SameStopAs
<1>5. CASE pc # "idle"
  BY <1>1, <1>2, <1>4, <1>5, IntoPass DEF OneAtATime, PassCounts, NextRearm, Onward
<1>6. CASE pc = "idle"
  <2>1. DiskCounts' /\ Alone'
    BY <1>1, DiskStill, StillAlone DEF OneAtATime
  <2>2. \A n \in seen' : n <= order'.filled
    <3>1. /\ order.filled \in Nat /\ order'.filled \in Nat /\ order.filled <= order'.filled
          /\ \A n \in seen' : n \in Nat
      BY Constants DEF Shrinks, TypeOK, EntryOrders, Shares
    <3> QED BY <1>2, <3>1
  <2> QED BY <1>1, <1>4, <1>6, <2>1, <2>2 DEF OneAtATime, PassCounts
<1> QED BY <1>5, <1>6

\* At the start there is no exit order.
LEMMA InitOne == Init => OneAtATime
<1> SUFFICES ASSUME Init PROVE OneAtATime
  OBVIOUS
<1>1. /\ pc = "idle" /\ seen = {} /\ disk = NoRecord /\ order.filled = 0
      /\ \A id \in ExitIds : exits[id] = NoExit
  BY DEF Init
<1>2. ActiveExits = {}
  <2>1. NoExit.status \notin OpenStatuses
    BY DEF NoExit, OpenStatuses
  <2> QED BY <1>1, <2>1 DEF ActiveExits, ProtectiveLegIsActive
<1>3. Modest(disk)
  BY <1>1 DEF Modest, NoRecord
<1> QED BY <1>1, <1>2, <1>3 DEF OneAtATime, Alone, DiskCounts, Accounted, PassCounts, FromDisk, Grows,
     Freed, Settled, Unsold, Exiting, Stuck, Rearming, Working

\* Every step keeps it to one.
LEMMA StepOne ==
    ASSUME Careful, TypeOK, TypeOK', RecordsAreTruthful, OneAtATime, Pended, [Next]_vars
    PROVE  OneAtATime'
<1>1. CASE UNCHANGED vars
  BY <1>1, QuietShrinks, EnvironmentOne DEF vars, broker
<1>2. CASE Environment
  BY <1>2, EnvironmentShrinks, EnvironmentOne
<1> QED BY <1>1, <1>2, PassOne, BeginOne, EndOne DEF Next, Pass

\* A broker that refuses a second exit order needs none of this.
LEMMA StepRefused ==
    ASSUME RefusesSecondExit, TypeOK, Alone, [Next]_vars PROVE Alone'
<1>1. UNCHANGED exits => Alone'
  BY DEF Alone, ActiveExits
<1>2. ASSUME NEW id, NEW qty, NEW ok, Placed(id, qty, ok) PROVE Alone'
  <2>1. CASE Accepts(id, qty) /\ Resting(id, qty)
    <3>1. id \in ExitIds /\ ActiveExits = {}
      BY <2>1 DEF Accepts
    <3>2. ActiveExits' \subseteq {id}
      BY <2>1, <3>1, FirstActive
    <3> QED BY <3>2 DEF Alone
  <2> QED BY <1>1, <1>2, <2>1 DEF Placed
<1>3. ASSUME NEW id, NEW ok, Cancelled(id, ok) PROVE Alone'
  <2>1. CASE id \in ActiveExits /\ exits' = [exits EXCEPT ![id].cancelling = TRUE]
    <3>1. \A x \in ExitIds : exits'[x].status = exits[x].status
      BY <2>1 DEF TypeOK, ExitOrders
    <3>2. ActiveExits' = ActiveExits
      BY <3>1 DEF ActiveExits
    <3> QED BY <3>2 DEF Alone
  <2> QED BY <1>1, <1>3, <2>1 DEF Cancelled
<1>4. CASE Environment
  BY <1>4, EnvironmentShrinks, StillAlone
<1>5. CASE CancelForResize \/ CancelForTarget
  BY <1>3, <1>5 DEF CancelForResize, CancelForTarget
<1>6. CASE ReplaceStop \/ SellAtTarget \/ RestoreStop \/ PlaceRearmed
  BY <1>2, <1>6 DEF ReplaceStop, SellAtTarget, RestoreStop, PlaceRearmed
<1>7. CASE ~(Environment \/ CancelForResize \/ CancelForTarget \/ ReplaceStop \/ SellAtTarget
             \/ RestoreStop \/ PlaceRearmed)
  <2>1. UNCHANGED exits
    BY <1>7, Zenon DEF Next, Pass, Fill, Target, Exit, Monitor, Submit, PlaceEntry, PollEntry, Resize,
       RecheckForResize, Confirm, CheckTarget, RecheckForTarget, PollSell, CheckExit, CheckAbsence,
       CheckAbsentStop, Rearm, RearmIfHeld, Save, MonitorBegin, ReconcileUnknown, ResolveAbsent, Crash,
       vars, broker
  <2> QED BY <1>1, <2>1
<1> QED BY <1>4, <1>5, <1>6, <1>7

\* At most one element is a cardinality of at most one.
LEMMA AloneIsOne == ASSUME Alone PROVE OneExitOrder
<1>1. CASE ActiveExits = {}
  BY <1>1, FS_EmptySet DEF OneExitOrder
<1>2. CASE ActiveExits # {}
  <2>1. PICK id : ActiveExits = {id}
    BY <1>2 DEF Alone
  <2>2. Cardinality(ActiveExits) = 1
    BY <2>1, FS_Singleton
  <2> QED BY <2>2 DEF OneExitOrder
<1> QED BY <1>1, <1>2

---------------------------------------------------------------------------
(* The theorems.                                                           *)

\* At every step of every run, whatever is lost and whenever the process
\* dies, each variable has its type and both records say what is true.
THEOREM Truth == Spec => [](TypeOK /\ RecordsAreTruthful)
<1>1. Init => TypeOK /\ RecordsAreTruthful
  BY InitTyped, InitTrue
<1>2. TypeOK /\ RecordsAreTruthful /\ [Next]_vars
        => (TypeOK /\ RecordsAreTruthful)'
  BY StepTyped, StepTrue
<1>3. QED
  BY <1>1, <1>2, PTL DEF Spec

\* Every variable stays in its type.
THEOREM TypeCorrect == Spec => []TypeOK
BY Truth, PTL

\* A record in ENTRY_FAILED, whichever of its four writers wrote it, is of an
\* entry that bought nothing and will buy nothing.
THEOREM Abandoned == Spec => []AbandonedMeansNoPosition
<1>1. RecordsAreTruthful => AbandonedMeansNoPosition
  BY DEF RecordsAreTruthful, Truthful, AbandonedMeansNoPosition
<1>2. QED
  BY <1>1, Truth, PTL

\* At every step of every run the books are true as well.
THEOREM BooksAlwaysTrue == Spec => []BooksAreTrue
<1>1. Init => BooksAreTrue
  BY InitBooked
<1>2. TypeOK /\ RecordsAreTruthful /\ BooksAreTrue /\ [Next]_vars => BooksAreTrue'
  BY StepBooked
<1>3. QED
  BY <1>1, <1>2, Truth, PTL DEF Spec

\* A closed record has its trade in the journal, and one of its exit orders
\* filled unless somebody acted at the broker itself.
THEOREM ClosedAlwaysOnEvidence == Spec => []ClosedOnEvidence
<1>1. BooksAreTrue => ClosedOnEvidence
  BY DEF BooksAreTrue, Booked, ClosedOnEvidence
<1>2. QED
  BY <1>1, BooksAlwaysTrue, PTL

\* What the rest of the program may rely on about an entry, EntryContract,
\* holds of every run: its submission, passes, restarts and lost calls only
\* ever record, trade, fail and book as the contract allows.
THEOREM ContractIsImplemented == Spec => ImplementsContract
<1>1. Init => Contract!Init
  BY InitImplements
<1>2. TypeOK /\ RecordsAreTruthful /\ BooksAreTrue /\ [Next]_vars
        => [Contract!Next]_(Contract!vars)
  BY StepImplements
<1>3. QED
  BY <1>1, <1>2, Truth, BooksAlwaysTrue, PTL DEF Spec, ImplementsContract, Contract!Spec

\* No entry order reaches the broker without a record on disk.
THEOREM Traced == Spec => []NothingUntraced
<1>1. RecordsAreTruthful => NothingUntraced
  BY DEF RecordsAreTruthful, NothingUntraced, NoRecord
<1>2. QED
  BY <1>1, Truth, PTL

\* Every stop is as large as its record says, as long as no call was lost
\* and no pass cut short; nothing is sold that was not bought; and a stop is
\* worked on only in PROTECTION_PENDING.
THEOREM StopsAlwaysSized == Spec => [](StopsAreSized /\ Pended)
<1>1. Init => StopsAreSized /\ Pended
  BY InitSized DEF Init, Pended, Working
<1>2. TypeOK /\ TypeOK' /\ RecordsAreTruthful /\ StopsAreSized /\ Pended /\ [Next]_vars
        => (StopsAreSized /\ Pended)'
  BY StepSized, StepPended
<1>3. QED
  BY <1>1, <1>2, Truth, PTL DEF Spec

\* A step to PROTECTION_CONFIRMED_ACTIVE has a stop at the broker with enough
\* left to sell all that is held, if the record knows the whole fill and no
\* call was lost and no pass cut short on the way there.
THEOREM ConfirmationAlwaysCovers == Spec => ConfirmationCovers
<1>1. TypeOK /\ StopsAreSized /\ Pended /\ [Next]_vars
        => [pc = "confirm" /\ mem'.state = Confirmed /\ mem.filled = order.filled
              /\ budget.faults = MaxFaults /\ budget.crashes = MaxCrashes
            => exits[mem.stopId].qty - exits[mem.stopId].filled >= position]_vars
  BY ConfirmClaims DEF Claims
<1>2. QED
  BY <1>1, Truth, StopsAlwaysSized, PTL DEF Spec, ConfirmationCovers

\* Never do two exit orders rest that could both sell the position: at a broker
\* that refuses the second, and also at one that does not, when no call is lost
\* and no target is sold at, whatever crashes and restarts interrupt a resize,
\* a retry or a rearming.
THEOREM OneExitAlways ==
    ASSUME RefusesSecondExit \/ (MaxFaults = 0 /\ ~HasTarget) PROVE Spec => []OneExitOrder
<1>1. Spec => []Alone
  <2>1. CASE RefusesSecondExit
    <3>1. Init => Alone
      BY InitOne DEF OneAtATime
    <3>2. TypeOK /\ Alone /\ [Next]_vars => Alone'
      BY <2>1, StepRefused
    <3> QED BY <3>1, <3>2, Truth, PTL DEF Spec
  <2>2. CASE Careful
    <3>1. Init => OneAtATime
      BY InitOne
    <3>2. TypeOK /\ TypeOK' /\ RecordsAreTruthful /\ OneAtATime /\ Pended /\ [Next]_vars => OneAtATime'
      BY <2>2, StepOne
    <3>3. OneAtATime => Alone
      BY DEF OneAtATime
    <3> QED BY <3>1, <3>2, <3>3, Truth, StopsAlwaysSized, PTL DEF Spec
  <2> QED BY <2>1, <2>2 DEF Careful
<1>2. Alone => OneExitOrder
  BY AloneIsOne
<1> QED BY <1>1, <1>2, PTL

=============================================================================
