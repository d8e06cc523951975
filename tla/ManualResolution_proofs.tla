---------------------- MODULE ManualResolution_proofs ----------------------
(***************************************************************************)
(* Theorems of ManualResolution for every value of its constants: type     *)
(* correctness, that decisions rest on evidence and on the audit log, and  *)
(* that nothing is entered in doubt.                                       *)
(*                                                                         *)
(* A list that was read is written back whole, so what holds of the stored *)
(* list has to hold of every list in memory, at the moment it is written.  *)
(* The invariant therefore speaks of the records any list holds of an      *)
(* order, and of which list knows more orders than which.                  *)
(***************************************************************************)
EXTENDS ManualResolution, TLAPS

---------------------------------------------------------------------------
(* Records and what is made of them.                                       *)

\* The states of the lifecycle are different strings.
LEMMA StatesDiffer ==
    /\ Unknown \notin {Submitted, Failed, Released, Linking, Unprotected, Confirmed}
    /\ Submitted \notin {Failed, Released, Linking}
    /\ {Unprotected, Confirmed} \intersect {Failed, Released, Linking} = {}
    /\ Linking \notin {Failed, Released} /\ Failed # Released
    /\ Unknown \notin FillMonitoringStates
    /\ {Submitted, Failed, Released, Linking, Unprotected, Confirmed, Unknown} \subseteq AllStates
BY DEF Submitted, Partially, Filled, Pending, Confirmed, Failed, Unprotected, Closed,
       Unknown, Released, Linking, AllStates, FillMonitoringStates, MonitorResumableStates

\* A legal move changes the state and nothing else.
LEMMA Moved ==
    ASSUME NEW record \in Records, NEW to,
           \/ record.state = Unknown /\ to \in {Submitted, Failed, Unknown, Released, Linking}
           \/ record.state = Submitted /\ to \in {Failed, Unknown}
    PROVE  /\ Move(record, to) \in Records
           /\ Move(record, to).state = to
           /\ Move(record, to).orphan = record.orphan
<1>1. record.state \in AllStates /\ to \in ValidTransitions[record.state]
  BY DEF ValidTransitions, AllStates, Records, Submitted, Partially, Filled, Pending,
         Confirmed, Failed, Unprotected, Closed, Unknown, Released, Linking, TerminalStates
<1>2. Move(record, to) = [record EXCEPT !.state = to]
  BY <1>1 DEF Move, Records
<1>3. QED
  BY <1>2, StatesDiffer DEF Records

\* What a fill-and-protect pass leaves: the state it found, a failed entry of
\* an order that died without shares, or shares with or without protection.
LEMMA FollowsBroker ==
    ASSUME NEW o \in Orders, NEW record \in Records, NEW r \in FillAndProtect(o, record)
    PROVE  /\ r \in Records /\ r.orphan = record.orphan
           /\ \/ r = record
              \/ r.state = Failed /\ order[o] = "dead"
              \/ r.state \in {Unprotected, Confirmed}
<1>1. CASE order[o] = "dead"
  BY <1>1, StatesDiffer DEF FillAndProtect, Records
<1>2. CASE order[o] \in {"filled", "late"}
  BY <1>2, StatesDiffer DEF FillAndProtect, Records
<1>3. CASE order[o] \notin {"dead", "filled", "late"}
  BY <1>3 DEF FillAndProtect
<1>4. QED
  BY <1>1, <1>2, <1>3

---------------------------------------------------------------------------
(* The invariant.                                                          *)

\* The passes that hold a list, from its read to its write.
Passes == {"look_up", "take_up", "close", "check"}

\* The record of an entry that is being submitted.
Entered == [state |-> Submitted, orphan |-> FALSE]

\* Where a call is, what its list says of its order, and what it found out.
CallPart(c) ==
    /\ call[c].pc # "new" => call[c].order \in Orders
    /\ call[c].pc \in {"new", "done"} => call[c].list = EmptyList
    /\ call[c].pc \in {"evidence", "start", "change"} =>
          call[c].order \in Orders /\ Has(call[c].list, call[c].order, {Unknown})
    /\ call[c].pc \in {"start", "change"} =>
          IF call[c].action = "link" THEN Visible(call[c].order)
          ELSE order[call[c].order] = "none"
    /\ call[c].pc = "poll" =>
          call[c].order \in Orders /\ Has(call[c].list, call[c].order, {Linking})
    /\ IF call[c].pc \in {"new", "evidence", "start"} THEN audit[c] = {} ELSE Started(c)

Calling == \A c \in Calls : CallPart(c)

Alone == \A c, d \in Calls :
    call[c].pc \notin {"new", "done"} /\ call[d].pc \notin {"new", "done"} => c = d

\* What a pass has to do, and what is known of the entry that is being sent:
\* no list holds a decision about it.
Entering ==
    /\ scan.pc \in {"send", "record"} =>
          /\ scan.at \in Orders /\ ~scan.doubt
          /\ disk[scan.at] \in {NoRecord, Entered}
          /\ \A c \in Calls : call[c].list[scan.at] \in {NoRecord, Entered}
    /\ scan.pc = "record" =>
          /\ scan.reply \in {"accepted", "rejected", "ambiguous"}
          /\ scan.reply = "rejected" => order[scan.at] = "none" \/ scan.at \in repeated

Working ==
    /\ scan.pc \notin Passes => scan.list = EmptyList
    /\ scan.pc = "look_up" =>
          scan.todo \subseteq Orders /\ \A o \in scan.todo : Has(scan.list, o, {Unknown})
    /\ scan.pc = "check" =>
          scan.todo \subseteq Orders /\ \A o \in scan.todo : Has(scan.list, o, FillMonitoringStates)
    /\ scan.pc \in {"take_up", "close"} =>
          /\ scan.todo \subseteq Calls /\ \A c \in scan.todo : Started(c)
          /\ \E c \in Calls : Started(c)
    /\ scan.pc = "close" => scan.closing \in Calls /\ Started(scan.closing)

\* No list in memory has a record that the stored list has lost, and that of a
\* pass has every record the others have.
Below(list, other) == \A o \in Orders : list[o] # NoRecord => other[o] # NoRecord
Covering ==
    /\ \A c \in Calls : Below(call[c].list, disk)
    /\ scan.pc \in Passes => /\ Below(disk, scan.list)
                             /\ \A c \in Calls : Below(call[c].list, scan.list)

\* The records any list has of an order, and what vouches for one.
Held(o) == {disk[o], scan.list[o]} \union {call[c].list[o] : c \in Calls}
Vouched(o, r) ==
    r # NoRecord =>
        /\ r.orphan => Visible(o)
        /\ r.state = Failed =>
              IF r.orphan THEN order[o] \in {"dead", "cancelling", "late"}
              ELSE order[o] \in {"none", "dead"} \/ o \in repeated
        /\ r.state = Released => order[o] \in {"none", "dead"}
        /\ r.state = Linking => Visible(o)
        /\ r.state \in {Released, Linking} =>
              \E c \in Calls : call[c].order = o /\ Started(c)
Vouching == \A o \in Orders : \A r \in Held(o) : Vouched(o, r)

\* Without an administrator, what the scan does not doubt is not in doubt.
Undoubted ==
    ((\A c \in Calls : audit[c] = {}) /\ ~scan.doubt) =>
        /\ scan.pc \in {"recover", "monitor", "check", "gate", "send", "record"} =>
              Ids(disk, {Unknown}) = {}
        /\ scan.pc = "check" => Ids(scan.list, {Unknown}) = {}

IInv ==
    /\ TypeOK /\ Calling /\ Alone /\ Entering /\ Working
    /\ Covering /\ Vouching /\ Undoubted

\* It implies the safety properties.
LEMMA Implied == IInv => EvidenceHolds /\ AuditPrecedesChange /\ NoEntryInDoubt
<1> SUFFICES ASSUME IInv PROVE EvidenceHolds /\ AuditPrecedesChange /\ NoEntryInDoubt
  OBVIOUS
<1>1. \A o \in Orders : Vouched(o, disk[o])
  BY DEF IInv, Vouching, Held
<1>2. EvidenceHolds
  BY <1>1 DEF EvidenceHolds, Has, Vouched
<1>3. AuditPrecedesChange
  BY <1>1 DEF AuditPrecedesChange, Has, Vouched
<1>4. NoEntryInDoubt
  BY DEF IInv, Undoubted, Entering, NoEntryInDoubt
<1>5. QED
  BY <1>2, <1>3, <1>4

LEMMA InitIInv == Init => IInv
<1> SUFFICES ASSUME Init PROVE IInv
  OBVIOUS
<1>1. EmptyList \in Lists /\ \A o \in Orders : EmptyList[o] = NoRecord
  BY DEF EmptyList, Lists
<1>2. /\ scan.pc = "idle" /\ scan.list = EmptyList
      /\ \A c \in Calls : call[c] = IdleCall
  BY DEF Init, IdleScan
<1>3. IdleCall.pc = "new" /\ IdleCall.list = EmptyList
  BY DEF IdleCall
<1>4. TypeOK
  BY <1>1, BoundsAssumption DEF Init, TypeOK, IdleCall, IdleScan, ScanPcs, BrokerOrders
<1>5. Calling /\ Alone
  BY <1>2, <1>3 DEF Init, Calling, Alone, CallPart
<1>6. Entering /\ Working /\ Undoubted
  BY <1>2 DEF Entering, Working, Undoubted, Passes
<1>7. Covering
  BY <1>1, <1>2, <1>3 DEF Covering, Below, Passes
<1>8. Vouching
  BY <1>1, <1>2, <1>3 DEF Init, Vouching, Held, Vouched
<1>9. QED
  BY <1>4, <1>5, <1>6, <1>7, <1>8 DEF IInv

---------------------------------------------------------------------------
(* What no step undoes, and what it therefore leaves true.                 *)

\* A resolution that was started stays so, with its order.
Remembered ==
    \A c \in Calls : Started(c) =>
        audit'[c] # {} /\ "started" \in audit'[c] /\ call'[c].order = call[c].order

\* An order that is visible, dead or being cancelled stays so, and one that is
\* not there is made by the scan that sends it only.
OrdersMove ==
    \A o \in Orders :
        /\ Visible(o) => order'[o] \notin {"none", "inflight"}
        /\ order[o] = "dead" => order'[o] = "dead"
        /\ order[o] \in {"cancelling", "late"} => order'[o] \in {"dead", "cancelling", "late"}
        /\ o \in repeated => o \in repeated'
        /\ order[o] = "none" => order'[o] = "none" \/ (scan.pc = "send" /\ o = scan.at)

LEMMA OrdersStay ==
    ASSUME UNCHANGED <<order, repeated>>
    PROVE  OrdersMove
BY DEF OrdersMove, Visible

LEMMA CallsStay ==
    ASSUME IInv, UNCHANGED call, \A c \in Calls : audit[c] \subseteq audit'[c]
    PROVE  Remembered
BY DEF Remembered, Started

\* What vouches for a record goes on doing so.
LEMMA VouchedStays ==
    ASSUME IInv, Remembered, OrdersMove,
           NEW o \in Orders, NEW r \in Held(o)
    PROVE  Vouched(o, r)'
<1>1. Vouched(o, r)
  BY DEF IInv, Vouching
<1>2. CASE scan.pc = "send" /\ o = scan.at
  <2>1. scan.list = EmptyList
    BY <1>2 DEF IInv, Working, Passes
  <2>2. r \in {NoRecord, Entered}
    BY <1>2, <2>1 DEF IInv, Entering, Held, EmptyList
  <2>3. Entered.state = Submitted
    BY DEF Entered
  <2>4. Entered.orphan = FALSE
    BY DEF Entered
  <2>5. QED
    BY <2>2, <2>3, <2>4, StatesDiffer DEF Vouched
<1>3. CASE ~(scan.pc = "send" /\ o = scan.at)
  BY <1>1, <1>3 DEF Vouched, OrdersMove, Remembered, Visible, Started
<1>4. QED
  BY <1>2, <1>3

\* A broker order that was found without a record is still there.
LEMMA OrphansStay ==
    ASSUME IInv, OrdersMove, NEW o \in Orders, NEW r \in Held(o), r # NoRecord, r.orphan
    PROVE  Visible(o) /\ Visible(o)'
<1>1. Vouched(o, r)
  BY DEF IInv, Vouching
<1>2. QED
  BY <1>1 DEF Vouched, OrdersMove, Visible

\* So it is enough to look at the records that a step adds to a list.
LEMMA VouchingKept ==
    ASSUME IInv, Remembered, OrdersMove,
           \A o \in Orders : \A r \in Held(o)' :
              r \in Held(o) \union {NoRecord} \/ Vouched(o, r)'
    PROVE  Vouching'
<1>1. \A o \in Orders : Vouched(o, NoRecord)'
  BY DEF Vouched
<1>2. QED
  BY <1>1, VouchedStays DEF Vouching

LEMMA CallKept ==
    ASSUME IInv, OrdersMove, NEW c \in Calls, call'[c] = call[c],
           audit'[c] = audit[c] \/ (Started(c) /\ audit[c] \subseteq audit'[c])
    PROVE  CallPart(c)'
<1>1. CallPart(c)
  BY DEF IInv, Calling
<1>2. CASE call[c].pc \in {"start", "change"}
  <2>1. call[c].order \in Orders /\ Has(call[c].list, call[c].order, {Unknown})
    BY <1>1, <1>2 DEF CallPart
  <2>2. ~(scan.pc = "send" /\ call[c].order = scan.at)
    BY <2>1, StatesDiffer DEF IInv, Entering, Has, Entered
  <2>3. IF call[c].action = "link" THEN Visible(call[c].order)' ELSE order'[call[c].order] = "none"
    BY <1>1, <1>2, <2>1, <2>2 DEF CallPart, OrdersMove, Visible
  <2>4. QED
    BY <1>1, <1>2, <2>3 DEF CallPart, Started, Has, Visible
<1>3. CASE call[c].pc \notin {"start", "change"}
  BY <1>1, <1>3 DEF CallPart, Started, Has
<1>4. QED
  BY <1>2, <1>3

\* A step of the broker or the scan.
LEMMA ScanSide ==
    ASSUME IInv, TypeOK', UNCHANGED call, OrdersMove,
           \A c \in Calls : audit'[c] = audit[c] \/ (Started(c) /\ audit[c] \subseteq audit'[c]),
           Entering', Working', Undoubted',
           Below(disk, disk'),
           scan'.pc \in Passes => Below(disk', scan'.list),
           \A o \in Orders : \A r \in {disk'[o], scan'.list[o]} :
              r \in Held(o) \union {NoRecord} \/ Vouched(o, r)'
    PROVE  IInv'
<1>1. Calling' /\ Alone'
  BY CallKept DEF IInv, Calling, Alone
<1>2. Covering'
  BY DEF IInv, Covering, Below
<1>3. Remembered
  BY CallsStay
<1>4. Vouching'
  <2>1. \A o \in Orders : \A r \in Held(o)' :
           r \in Held(o) \union {NoRecord} \/ r \in {disk'[o], scan'.list[o]}
    BY DEF Held
  <2>2. QED
    BY <1>3, <2>1, VouchingKept
<1>5. QED
  BY <1>1, <1>2, <1>4 DEF IInv

\* A step of a resolution call.
LEMMA CallSide ==
    ASSUME IInv, TypeOK', NEW c \in Calls, UNCHANGED <<order, repeated, scan>>,
           call[c].pc \notin {"new", "done"} \/ OneAtATime,
           \A d \in Calls \ {c} : call'[d] = call[d] /\ audit'[d] = audit[d],
           CallPart(c)', Remembered,
           disk' = disk \/ (Started(c) /\ disk' = call'[c].list),
           Below(call'[c].list, disk),
           \A o \in Orders : \A r \in {call'[c].list[o]} :
              \/ r \in Held(o) \union {NoRecord}
              \/ /\ Vouched(o, r)'
                 /\ ~(scan.pc \in {"send", "record"} /\ o = scan.at)
    PROVE  IInv'
<1>1. OrdersMove
  BY OrdersStay
<1>2. \A d \in Calls \ {c} : call[d].pc \in {"new", "done"} /\ call[d].list = EmptyList
  BY DEF IInv, Alone, Calling, CallPart, OneAtATime
<1>3. Calling' /\ Alone'
  BY <1>1, <1>2, CallKept DEF Calling, Alone
<1>4. \A o \in Orders : EmptyList[o] = NoRecord
  BY DEF EmptyList
<1>5. Covering'
  BY <1>2, <1>4 DEF IInv, Covering, Below
<1>6. \A o \in Orders : \A r \in Held(o)' :
         r \in Held(o) \union {NoRecord} \/ r = call'[c].list[o]
  BY DEF Held
<1>7. Vouching'
  BY <1>1, <1>6, VouchingKept
<1>8. Entering'
  <2>1. CASE scan.pc \in {"send", "record"}
    <3>1. scan.at \in Orders /\ scan.list = EmptyList
      BY <2>1 DEF IInv, Entering, Working, Passes
    <3>2. \A r \in Held(scan.at) : r \in {NoRecord, Entered}
      BY <1>4, <2>1, <3>1 DEF IInv, Entering, Held
    <3>3. call'[c].list[scan.at] \in {NoRecord, Entered}
      BY <2>1, <3>1, <3>2
    <3>4. QED
      BY <2>1, <3>1, <3>3 DEF IInv, Entering
  <2>2. CASE scan.pc \notin {"send", "record"}
    BY <2>2 DEF Entering
  <2>3. QED
    BY <2>1, <2>2
<1>9. Working'
  BY DEF IInv, Working, Remembered, Started
<1>10. Undoubted'
  <2> SUFFICES ASSUME \A d \in Calls : audit'[d] = {}
               PROVE  Undoubted'
    BY DEF Undoubted
  <2>1. \A d \in Calls : ~Started(d)
    BY DEF Remembered
  <2>2. \A d \in Calls : audit[d] = {}
    <3> SUFFICES audit[c] = {}
      OBVIOUS
    <3>1. call[c].pc \in {"new", "evidence", "start"} => audit[c] = {}
      BY DEF IInv, Calling, CallPart
    <3>2. call[c].pc \in {"new", "evidence", "start"}
      BY <2>1 DEF IInv, Calling, CallPart
    <3>3. QED
      BY <3>1, <3>2
  <2>3. disk' = disk
    BY <2>1
  <2>4. QED
    BY <2>2, <2>3 DEF IInv, Undoubted, Ids, Has
<1>11. QED
  BY <1>3, <1>5, <1>7, <1>8, <1>9, <1>10 DEF IInv

---------------------------------------------------------------------------
(* Every step keeps the invariant.                                         *)

\* The broker.
LEMMA KeptByBroker ==
    ASSUME IInv, NEW o \in Orders, Appears(o) \/ Settles(o)
    PROVE  IInv'
<1>1. UNCHANGED <<disk, audit, call, scan, faults>>
  BY DEF Appears, Settles
<1>2. order' \in [Orders -> BrokerOrders] /\ OrdersMove /\ UNCHANGED repeated
      /\ \A x \in Orders : order[x] = "none" => order'[x] = "none"
  BY DEF Appears, Settles, IInv, TypeOK, BrokerOrders, OrdersMove, Visible
<1>3. TypeOK'
  BY <1>1, <1>2 DEF IInv, TypeOK
<1>4. Entering' /\ Working' /\ Undoubted'
  BY <1>1, <1>2 DEF IInv, Entering, Working, Undoubted, Started, Ids, Has
<1>5. Below(disk, disk') /\ (scan'.pc \in Passes => Below(disk', scan'.list))
  BY <1>1 DEF IInv, Covering, Below
<1>6. \A x \in Orders : \A r \in {disk'[x], scan'.list[x]} : r \in Held(x)
  BY <1>1 DEF Held
<1>7. QED
  BY <1>1, <1>2, <1>3, <1>4, <1>5, <1>6, ScanSide

\* A call: types first.
CallRecords == [pc : {"new", "evidence", "start", "change", "poll",
                      "rewrite", "complete", "done"},
                action : {"none", "release", "link"},
                order : Orders \union {NoOrder}, list : Lists]

LEMMA CallTyped ==
    ASSUME TypeOK, NEW c \in Calls, NEW x \in CallRecords, NEW phases \in SUBSET {"started", "completed", "failed"},
           call' = [call EXCEPT ![c] = x],
           audit' = [audit EXCEPT ![c] = @ \union phases],
           disk' \in Lists, faults' \in 0..MaxFaults, UNCHANGED <<order, repeated, scan>>
    PROVE  /\ TypeOK' /\ call'[c] = x /\ audit'[c] = audit[c] \union phases
           /\ \A d \in Calls \ {c} : call'[d] = call[d] /\ audit'[d] = audit[d]
<1>1. call \in [Calls -> CallRecords] /\ audit \in [Calls -> SUBSET ({"started"} \union Outcomes)]
  BY DEF TypeOK, CallRecords
<1>2. call' \in [Calls -> CallRecords] /\ audit' \in [Calls -> SUBSET ({"started"} \union Outcomes)]
  BY <1>1 DEF Outcomes
<1>3. /\ call'[c] = x /\ audit'[c] = audit[c] \union phases
      /\ \A d \in Calls \ {c} : call'[d] = call[d] /\ audit'[d] = audit[d]
  BY <1>1
<1>4. TypeOK'
  BY <1>2 DEF TypeOK, CallRecords
<1>5. QED
  BY <1>3, <1>4

LEMMA NothingAdded ==
    ASSUME TypeOK, NEW c \in Calls, UNCHANGED audit
    PROVE  audit' = [audit EXCEPT ![c] = @ \union {}]
BY DEF TypeOK

LEMMA FaultCounted ==
    ASSUME TypeOK, Fault \/ UNCHANGED faults
    PROVE  faults' \in 0..MaxFaults
BY BoundsAssumption DEF TypeOK, Fault

LEMMA ListsTyped ==
    /\ EmptyList \in Lists
    /\ \A o \in Orders : EmptyList[o] = NoRecord
    /\ IdleCall \in CallRecords
BY DEF EmptyList, Lists, IdleCall, CallRecords

\* Reading the list, and being refused before anything is written.
LEMMA KeptByAsking ==
    ASSUME IInv, NEW c \in Calls, ReadList(c) \/ GatherEvidence(c) \/ Refuse(c)
    PROVE  IInv'
<1>1. audit' = [audit EXCEPT ![c] = @ \union {}] /\ UNCHANGED <<disk, order, repeated, scan>>
  BY NothingAdded DEF ReadList, GatherEvidence, Refuse, IInv
<1>2. faults' \in 0..MaxFaults
  BY BoundsAssumption DEF ReadList, GatherEvidence, Refuse, IInv, TypeOK
<1>3. call[c].pc \in {"new", "evidence", "start"} /\ call[c] \in CallRecords /\ disk \in Lists
  BY DEF ReadList, GatherEvidence, Refuse, IInv, TypeOK, CallRecords
<1>4. audit[c] = {} /\ ~Started(c)
  BY <1>3 DEF IInv, Calling, CallPart, Started
<1>5. CASE ReadList(c)
  <2>1. PICK o \in Ids(disk, {Unknown}), action \in {"release", "link"} :
          call' = [call EXCEPT ![c] = [pc |-> "evidence", action |-> action,
                                       order |-> o, list |-> disk]]
    BY <1>5 DEF ReadList
  <2> DEFINE x == [pc |-> "evidence", action |-> action, order |-> o, list |-> disk]
  <2>2. o \in Orders /\ Has(disk, o, {Unknown}) /\ x \in CallRecords
    BY <1>3 DEF Ids, CallRecords
  <2>3. /\ TypeOK' /\ call'[c] = x /\ audit'[c] = audit[c] \union {}
        /\ \A d \in Calls \ {c} : call'[d] = call[d] /\ audit'[d] = audit[d]
    BY <1>1, <1>2, <1>3, <2>1, <2>2, CallTyped DEF IInv
  <2>4. CallPart(c)'
    BY <1>4, <2>2, <2>3 DEF CallPart, Has
  <2>5. \A i \in Orders : \A r \in {call'[c].list[i]} : r \in Held(i)
    BY <2>3 DEF Held
  <2>6. OneAtATime
    BY <1>5 DEF ReadList
  <2>7. Remembered
    BY <1>4, <2>3 DEF Remembered, Started
  <2>8. QED
    BY <1>1, <2>3, <2>4, <2>5, <2>6, <2>7, CallSide DEF Below
<1>6. CASE GatherEvidence(c)
  <2> DEFINE x == [call[c] EXCEPT !.pc = "start"]
  <2>1. call' = [call EXCEPT ![c] = x] /\ x \in CallRecords /\ call[c].pc = "evidence"
    BY <1>3, <1>6 DEF GatherEvidence, Go, CallRecords
  <2>2. /\ TypeOK' /\ call'[c] = x /\ audit'[c] = audit[c] \union {}
        /\ \A d \in Calls \ {c} : call'[d] = call[d] /\ audit'[d] = audit[d]
    BY <1>1, <1>2, <1>3, <2>1, CallTyped DEF IInv
  <2>3. x.pc = "start" /\ x.order = call[c].order /\ x.list = call[c].list /\ x.action = call[c].action
    BY <1>3 DEF CallRecords
  <2>4. call[c].order \in Orders /\ Has(call[c].list, call[c].order, {Unknown})
    BY <2>1 DEF IInv, Calling, CallPart
  <2>5. IF call[c].action = "link" THEN Visible(call[c].order) ELSE order[call[c].order] = "none"
    BY <1>6, <2>4 DEF GatherEvidence, Granted, Visible, MayRelease, IInv, TypeOK, BrokerOrders
  <2>6. CallPart(c)'
    BY <1>1, <1>4, <2>2, <2>3, <2>4, <2>5 DEF CallPart, Has, Visible
  <2>7. \A i \in Orders : \A r \in {call'[c].list[i]} : r \in Held(i)
    BY <2>2, <2>3 DEF Held
  <2>8. Remembered
    BY <1>4, <2>2 DEF Remembered, Started
  <2>9. Below(call'[c].list, disk)
    BY <2>2, <2>3 DEF IInv, Covering
  <2>10. QED
    BY <1>1, <2>1, <2>2, <2>6, <2>7, <2>8, <2>9, CallSide
<1>7. CASE Refuse(c)
  <2>1. call' = [call EXCEPT ![c] = IdleCall]
    BY <1>7 DEF Refuse
  <2>2. /\ TypeOK' /\ call'[c] = IdleCall /\ audit'[c] = audit[c] \union {}
        /\ \A d \in Calls \ {c} : call'[d] = call[d] /\ audit'[d] = audit[d]
    BY <1>1, <1>2, <1>3, <2>1, ListsTyped, CallTyped DEF IInv
  <2>3. CallPart(c)'
    BY <1>4, <2>2 DEF CallPart, IdleCall
  <2>4. IdleCall.list = EmptyList
    BY DEF IdleCall
  <2>5. \A i \in Orders : \A r \in {call'[c].list[i]} : r = NoRecord
    BY <2>2, <2>4, ListsTyped
  <2>6. Remembered
    BY <1>4, <2>2 DEF Remembered, Started
  <2>7. Below(call'[c].list, disk)
    BY <2>2, <2>4, ListsTyped DEF Below
  <2>8. call[c].pc \notin {"new", "done"}
    BY <1>7 DEF Refuse
  <2>9. QED
    BY <1>1, <2>2, <2>3, <2>5, <2>6, <2>7, <2>8, CallSide
<1>8. QED
  BY <1>5, <1>6, <1>7

\* The started phase is in the log before anything else changes.
LEMMA KeptByStarting ==
    ASSUME IInv, NEW c \in Calls, WriteStarted(c)
    PROVE  IInv'
<1> DEFINE x == [call[c] EXCEPT !.pc = "change"]
<1>1. /\ audit' = [audit EXCEPT ![c] = @ \union {"started"}] /\ call' = [call EXCEPT ![c] = x]
      /\ UNCHANGED <<disk, order, repeated, scan, faults>> /\ call[c].pc = "start"
  BY DEF WriteStarted, Append, Go
<1>2. call[c] \in CallRecords /\ x \in CallRecords
  BY DEF IInv, TypeOK, CallRecords
<1>3. x.pc = "change" /\ x.order = call[c].order /\ x.list = call[c].list /\ x.action = call[c].action
  BY <1>2 DEF CallRecords
<1>4. /\ TypeOK' /\ call'[c] = x /\ audit'[c] = audit[c] \union {"started"}
      /\ \A d \in Calls \ {c} : call'[d] = call[d] /\ audit'[d] = audit[d]
  BY <1>1, <1>2, CallTyped DEF IInv, TypeOK
<1>5. CallPart(c)'
  <2>1. /\ call[c].order \in Orders /\ Has(call[c].list, call[c].order, {Unknown})
        /\ IF call[c].action = "link" THEN Visible(call[c].order) ELSE order[call[c].order] = "none"
    BY <1>1 DEF IInv, Calling, CallPart
  <2>2. Started(c)'
    BY <1>4 DEF Started
  <2> HIDE DEF x
  <2>3. QED
    BY <1>1, <1>3, <1>4, <2>1, <2>2 DEF CallPart, Has, Visible
<1>6. Remembered
  BY <1>3, <1>4 DEF Remembered, Started
<1>7. Below(call'[c].list, disk)
  BY <1>3, <1>4 DEF IInv, Covering
<1>8. \A i \in Orders : \A r \in {call'[c].list[i]} : r \in Held(i)
  BY <1>3, <1>4 DEF Held
<1>9. QED
  BY <1>1, <1>4, <1>5, <1>6, <1>7, <1>8, CallSide

\* The decision, on the list that was read.
LEMMA KeptByChanging ==
    ASSUME IInv, NEW c \in Calls, ChangeRecord(c)
    PROVE  IInv'
<1> DEFINE o == call[c].order
           record == Move(call[c].list[o], Decided(c))
           list == [call[c].list EXCEPT ![o] = record]
           x == [call[c] EXCEPT !.list = list,
                                !.pc = IF call[c].action = "link" THEN "poll" ELSE "complete"]
<1>1. /\ disk' = list /\ call' = [call EXCEPT ![c] = x]
      /\ UNCHANGED <<audit, order, repeated, scan, faults>> /\ call[c].pc = "change"
  BY DEF ChangeRecord
<1>2. /\ o \in Orders /\ Has(call[c].list, o, {Unknown}) /\ Started(c)
      /\ IF call[c].action = "link" THEN Visible(o) ELSE order[o] = "none"
  BY <1>1 DEF IInv, Calling, CallPart
<1>3. call[c] \in CallRecords /\ call[c].list \in Lists
  BY DEF IInv, TypeOK, CallRecords
<1>4. /\ record \in Records /\ record.state = Decided(c)
      /\ record.orphan = call[c].list[o].orphan
  BY <1>2, <1>3, Moved, RecordAssumption DEF Has, Lists, Decided
<1> HIDE DEF record
<1>5. list \in Lists /\ list[o] = record /\ \A i \in Orders \ {o} : list[i] = call[c].list[i]
  BY <1>2, <1>3, <1>4 DEF Lists
<1> HIDE DEF list
<1>6. /\ x \in CallRecords /\ x.list = list /\ x.order = o
      /\ x.pc = IF call[c].action = "link" THEN "poll" ELSE "complete"
  BY <1>3, <1>5 DEF CallRecords
<1> HIDE DEF x
<1>7. /\ TypeOK' /\ call'[c] = x /\ audit'[c] = audit[c] \union {}
      /\ \A d \in Calls \ {c} : call'[d] = call[d] /\ audit'[d] = audit[d]
  <2>1. audit' = [audit EXCEPT ![c] = @ \union {}]
    BY <1>1, NothingAdded DEF IInv
  <2>2. disk' \in Lists /\ faults' \in 0..MaxFaults /\ UNCHANGED <<order, repeated, scan>>
    BY <1>1, <1>5 DEF IInv, TypeOK
  <2>3. QED
    BY <1>1, <1>6, <2>1, <2>2, CallTyped DEF IInv
<1>8. Started(c)' /\ CallPart(c)'
  <2>1. Started(c)'
    BY <1>2, <1>7 DEF Started
  <2>2. call[c].action = "link" => Has(list, o, {Linking})
    BY <1>4, <1>5, RecordAssumption DEF Has, Decided
  <2>3. QED
    BY <1>2, <1>6, <1>7, <2>1, <2>2 DEF CallPart, Has
<1>9. Remembered
  BY <1>6, <1>7 DEF Remembered, Started
<1>10. Below(call'[c].list, disk)
  <2>1. Below(call[c].list, disk)
    BY DEF IInv, Covering
  <2>2. call[c].list[o] # NoRecord
    BY <1>2 DEF Has
  <2>3. QED
    BY <1>2, <1>5, <1>6, <1>7, <2>1, <2>2 DEF Below
<1>11. \A i \in Orders : \A r \in {call'[c].list[i]} :
          \/ r \in Held(i) \union {NoRecord}
          \/ Vouched(i, r)' /\ ~(scan.pc \in {"send", "record"} /\ i = scan.at)
  <2> SUFFICES ASSUME NEW i \in Orders, NEW r \in {call'[c].list[i]}
               PROVE  \/ r \in Held(i) \union {NoRecord}
                      \/ Vouched(i, r)' /\ ~(scan.pc \in {"send", "record"} /\ i = scan.at)
    OBVIOUS
  <2>1. CASE i # o
    BY <1>5, <1>6, <1>7, <2>1 DEF Held
  <2>2. CASE i = o
    <3>1. r = record
      BY <1>5, <1>6, <1>7, <2>2
    <3>2. Vouched(i, r)'
      <4>0. r.orphan => Visible(i)'
        <5>1. call[c].list[o] \in Held(o) /\ call[c].list[o] # NoRecord /\ OrdersMove
          BY <1>1, <1>2, OrdersStay DEF Held, Has
        <5>2. QED
          BY <1>2, <1>4, <2>2, <3>1, <5>1, OrphansStay
      <4>1. order'[i] = order[i] /\ call'[c].order = i /\ Started(c)'
        BY <1>1, <1>6, <1>7, <1>8, <2>2
      <4>2. CASE call[c].action = "link"
        <5>1. r.state = Linking /\ Visible(i)
          BY <1>2, <1>4, <2>2, <3>1, <4>2 DEF Decided
        <5>2. QED
          BY <4>0, <4>1, <5>1, StatesDiffer DEF Vouched, Visible
      <4>3. CASE call[c].action # "link"
        <5>1. r.state = Released /\ order[i] = "none"
          BY <1>2, <1>4, <2>2, <3>1, <4>3 DEF Decided
        <5>2. QED
          BY <4>0, <4>1, <5>1, StatesDiffer DEF Vouched
      <4>4. QED
        BY <4>2, <4>3
    <3>3. ~(scan.pc \in {"send", "record"} /\ i = scan.at)
      BY <1>2, <2>2, StatesDiffer DEF IInv, Entering, Has, Entered
    <3>4. QED
      BY <3>2, <3>3
  <2>3. QED
    BY <2>1, <2>2
<1>12. QED
  BY <1>1, <1>2, <1>6, <1>7, <1>8, <1>9, <1>10, <1>11, CallSide

\* The linked order is asked for once, and the list written again.
LEMMA KeptByPolling ==
    ASSUME IInv, NEW c \in Calls, PollLinked(c) \/ RewriteList(c)
    PROVE  IInv'
<1>1. Started(c) /\ call[c] \in CallRecords /\ call[c].list \in Lists
      /\ UNCHANGED <<audit, order, repeated, scan, faults>>
  BY DEF PollLinked, RewriteList, IInv, Calling, CallPart, TypeOK, CallRecords
<1>2. audit' = [audit EXCEPT ![c] = @ \union {}]
  BY <1>1, NothingAdded DEF IInv
<1>3. Below(call[c].list, disk)
  BY DEF IInv, Covering
<1>4. CASE PollLinked(c)
  <2> DEFINE o == call[c].order
  <2>1. PICK record \in FillAndProtect(o, call[c].list[o]) :
          call' = [call EXCEPT ![c].list[o] = record, ![c].pc = "rewrite"]
    BY <1>4 DEF PollLinked
  <2> DEFINE x == [call[c] EXCEPT !.list[o] = record, !.pc = "rewrite"]
  <2>2. o \in Orders /\ Has(call[c].list, o, {Linking}) /\ UNCHANGED disk
    BY <1>4 DEF PollLinked, IInv, Calling, CallPart
  <2>3. call[c].list[o] \in Records
    BY <1>1, <2>2 DEF Lists, Has
  <2>4. /\ record \in Records /\ record.orphan = call[c].list[o].orphan
        /\ \/ record = call[c].list[o]
           \/ record.state = Failed /\ order[o] = "dead"
           \/ record.state \in {Unprotected, Confirmed}
    BY <2>2, <2>3, FollowsBroker
  <2>5. /\ x \in CallRecords /\ x.order = o /\ x.pc = "rewrite" /\ x.list \in Lists
        /\ x.list[o] = record /\ \A i \in Orders \ {o} : x.list[i] = call[c].list[i]
    BY <1>1, <2>2, <2>4 DEF CallRecords, Lists
  <2>6. call' = [call EXCEPT ![c] = x]
    BY <2>1
  <2> HIDE DEF x
  <2>7. /\ TypeOK' /\ call'[c] = x /\ audit'[c] = audit[c] \union {}
        /\ \A d \in Calls \ {c} : call'[d] = call[d] /\ audit'[d] = audit[d]
    <3>1. disk' \in Lists /\ faults' \in 0..MaxFaults /\ UNCHANGED <<order, repeated, scan>>
      BY <1>1, <2>2 DEF IInv, TypeOK
    <3>2. QED
      BY <1>2, <2>5, <2>6, <3>1, CallTyped DEF IInv
  <2>8. CallPart(c)' /\ Remembered
    BY <1>1, <2>2, <2>5, <2>7 DEF CallPart, Remembered, Started
  <2>9. Below(call'[c].list, disk)
    BY <1>3, <2>2, <2>5, <2>7 DEF Below, Has
  <2>10. \A i \in Orders : \A r \in {call'[c].list[i]} :
          \/ r \in Held(i) \union {NoRecord}
          \/ Vouched(i, r)' /\ ~(scan.pc \in {"send", "record"} /\ i = scan.at)
    <3> SUFFICES ASSUME NEW i \in Orders, NEW r \in {call'[c].list[i]}
                 PROVE  \/ r \in Held(i) \union {NoRecord}
                        \/ Vouched(i, r)' /\ ~(scan.pc \in {"send", "record"} /\ i = scan.at)
      OBVIOUS
    <3>1. CASE i # o \/ record = call[c].list[o]
      BY <2>5, <2>7, <3>1 DEF Held
    <3>2. CASE i = o /\ record # call[c].list[o]
      <4>1. r = record /\ order'[i] = order[i]
        BY <1>1, <2>5, <2>7, <3>2
      <4>2. Vouched(i, r)'
        <5>1. call[c].list[o] \in Held(o) /\ call[c].list[o] # NoRecord /\ OrdersMove
          BY <1>1, <2>2, OrdersStay DEF Held, Has
        <5>2. r.orphan => Visible(i)'
          BY <2>2, <2>4, <3>2, <4>1, <5>1, OrphansStay
        <5>3. QED
          BY <2>4, <3>2, <4>1, <5>2, StatesDiffer DEF Vouched
      <4>3. ~(scan.pc \in {"send", "record"} /\ i = scan.at)
        BY <2>2, <3>2, StatesDiffer DEF IInv, Entering, Has, Entered
      <4>4. QED
        BY <4>2, <4>3
    <3>3. QED
      BY <3>1, <3>2
  <2>11. call[c].pc \notin {"new", "done"}
    BY <1>4 DEF PollLinked
  <2>12. QED
    BY <1>1, <2>2, <2>7, <2>8, <2>9, <2>10, <2>11, CallSide
<1>5. CASE RewriteList(c)
  <2> DEFINE x == [call[c] EXCEPT !.pc = "complete"]
  <2>1. call' = [call EXCEPT ![c] = x] /\ disk' = call[c].list /\ call[c].pc = "rewrite"
    BY <1>5 DEF RewriteList, Go
  <2>2. x \in CallRecords /\ x.order = call[c].order /\ x.pc = "complete" /\ x.list = call[c].list
    BY <1>1 DEF CallRecords
  <2> HIDE DEF x
  <2>3. /\ TypeOK' /\ call'[c] = x /\ audit'[c] = audit[c] \union {}
        /\ \A d \in Calls \ {c} : call'[d] = call[d] /\ audit'[d] = audit[d]
    <3>1. disk' \in Lists /\ faults' \in 0..MaxFaults /\ UNCHANGED <<order, repeated, scan>>
      BY <1>1, <2>1 DEF IInv, TypeOK
    <3>2. QED
      BY <1>2, <2>1, <2>2, <3>1, CallTyped DEF IInv
  <2>4. CallPart(c)' /\ Remembered
    <3>1. call[c].order \in Orders
      BY <2>1 DEF IInv, Calling, CallPart
    <3>2. QED
      BY <1>1, <2>2, <2>3, <3>1 DEF CallPart, Remembered, Started
  <2>5. Below(call'[c].list, disk)
    BY <1>3, <2>2, <2>3
  <2>6. \A i \in Orders : \A r \in {call'[c].list[i]} : r \in Held(i)
    BY <2>2, <2>3 DEF Held
  <2>7. QED
    BY <1>1, <2>1, <2>2, <2>3, <2>4, <2>5, <2>6, CallSide
<1>6. QED
  BY <1>4, <1>5

\* The call returns, or dies.
LEMMA KeptByEnding ==
    ASSUME IInv, NEW c \in Calls, StageFails(c) \/ WriteCompleted(c) \/ CallEnds(c)
    PROVE  IInv'
<1>1. call[c] \in CallRecords /\ call[c].pc \notin {"new", "done"}
      /\ UNCHANGED <<disk, order, repeated, scan>> /\ faults' \in 0..MaxFaults
  BY FaultCounted DEF StageFails, WriteCompleted, CallEnds, IInv, TypeOK, CallRecords
<1>2. PICK phases \in SUBSET {"started", "completed", "failed"} :
        /\ audit' = [audit EXCEPT ![c] = @ \union phases]
        /\ phases # {} => Started(c)
  <2>1. CASE UNCHANGED audit
    <3>1. audit' = [audit EXCEPT ![c] = @ \union {}]
      BY <2>1, NothingAdded DEF IInv
    <3>2. QED
      BY <3>1
  <2>2. CASE \E phase \in {"completed", "failed"} : Append(c, phase) /\ ~CallEnds(c)
    <3>1. Started(c)
      BY <2>2 DEF StageFails, WriteCompleted, IInv, Calling, CallPart
    <3>2. PICK phase \in {"completed", "failed"} : audit' = [audit EXCEPT ![c] = @ \union {phase}]
      BY <2>2 DEF Append
    <3>3. {phase} \in SUBSET {"started", "completed", "failed"}
      OBVIOUS
    <3>4. QED
      BY <3>1, <3>2, <3>3
  <2>3. QED
    BY <2>1, <2>2 DEF StageFails, WriteCompleted, CallEnds
<1> DEFINE y == [call[c] EXCEPT !.pc = "done", !.list = EmptyList]
<1>0. /\ y \in CallRecords /\ y.pc = "done" /\ y.list = EmptyList /\ y.order = call[c].order
      /\ IdleCall.pc = "new" /\ IdleCall.list = EmptyList
  BY <1>1, ListsTyped DEF CallRecords, IdleCall
<1>3. PICK x \in {y, IdleCall} :
        /\ call' = [call EXCEPT ![c] = x]
        /\ Started(c) <=> x # IdleCall
  <2>1. StageFails(c) \/ WriteCompleted(c) => Started(c)
    BY DEF StageFails, WriteCompleted, IInv, Calling, CallPart
  <2>2. CASE Return(c) /\ Started(c)
    <3>1. call' = [call EXCEPT ![c] = y]
      BY <2>2 DEF Return
    <3>2. y # IdleCall
      BY <1>0
    <3>3. QED
      BY <2>2, <3>1, <3>2
  <2>3. CASE ~Started(c) /\ call' = [call EXCEPT ![c] = IdleCall]
    BY <2>3
  <2>4. QED
    BY <2>1, <2>2, <2>3 DEF StageFails, WriteCompleted, CallEnds
<1> HIDE DEF y
<1>4. x \in CallRecords /\ x.list = EmptyList
  BY <1>0, <1>3, ListsTyped
<1>5. /\ TypeOK' /\ call'[c] = x /\ audit'[c] = audit[c] \union phases
      /\ \A d \in Calls \ {c} : call'[d] = call[d] /\ audit'[d] = audit[d]
  <2>1. disk' \in Lists
    BY <1>1 DEF IInv, TypeOK
  <2>2. QED
    BY <1>1, <1>2, <1>3, <1>4, <2>1, CallTyped DEF IInv
<1>6. /\ x # IdleCall => x.pc = "done" /\ x.order = call[c].order
      /\ x = IdleCall => x.pc = "new"
  BY <1>0, <1>3
<1>7. Remembered
  BY <1>3, <1>5, <1>6 DEF Remembered, Started
<1>8. CallPart(c)'
  <2>1. CASE x = IdleCall
    <3>1. audit'[c] = {}
      <4>1. ~Started(c) /\ phases = {}
        BY <1>2, <1>3, <2>1
      <4>2. audit[c] = {}
        BY <4>1 DEF IInv, Calling, CallPart
      <4>3. QED
        BY <1>5, <4>1, <4>2
    <3>2. QED
      BY <1>4, <1>5, <1>6, <2>1, <3>1 DEF CallPart
  <2>2. CASE x # IdleCall
    <3>1. Started(c) /\ call[c].order \in Orders
      BY <1>1, <1>3, <2>2 DEF IInv, Calling, CallPart
    <3>2. QED
      BY <1>4, <1>5, <1>6, <2>2, <3>1 DEF CallPart, Started
  <2>3. QED
    BY <2>1, <2>2
<1>9. Below(call'[c].list, disk)
  BY <1>4, <1>5, ListsTyped DEF Below
<1>10. \A i \in Orders : \A r \in {call'[c].list[i]} : r \in Held(i) \union {NoRecord}
  BY <1>4, <1>5, ListsTyped
<1>11. QED
  BY <1>1, <1>5, <1>7, <1>8, <1>9, <1>10, CallSide

\* Any step of a call.
LEMMA KeptByCalls ==
    ASSUME IInv, NEW c \in Calls, Resolve(c)
    PROVE  IInv'
BY KeptByAsking, KeptByStarting, KeptByChanging, KeptByPolling, KeptByEnding DEF Resolve

\* The scan: types first.
ScanRecords == [pc : ScanPcs, list : Lists, todo : SUBSET (Orders \union Calls),
                at : Orders \union {NoOrder}, closing : Calls \union {NoCall},
                reply : {"none", "accepted", "rejected", "ambiguous"},
                doubt : BOOLEAN]

LEMMA ScanTyped ==
    ASSUME TypeOK, scan' \in ScanRecords, disk' \in Lists, UNCHANGED call,
           order' \in [Orders -> BrokerOrders], repeated' \in SUBSET Orders,
           Fault \/ UNCHANGED faults,
           UNCHANGED audit \/ \E c \in Calls, phase \in {"completed", "failed"} : Append(c, phase)
    PROVE  TypeOK'
<1>1. audit' \in [Calls -> SUBSET ({"started"} \union Outcomes)]
  <2>1. CASE UNCHANGED audit
    BY <2>1 DEF TypeOK
  <2>2. CASE \E c \in Calls, phase \in {"completed", "failed"} : Append(c, phase)
    <3>1. PICK c \in Calls, phase \in {"completed", "failed"} :
              audit' = [audit EXCEPT ![c] = @ \union {phase}]
      BY <2>2 DEF Append
    <3>2. QED
      BY <3>1 DEF TypeOK, Outcomes
  <2>3. QED
    BY <2>1, <2>2
<1>2. faults' \in 0..MaxFaults
  BY FaultCounted
<1>3. QED
  BY <1>1, <1>2 DEF TypeOK, ScanRecords

\* The log of a resolution that was started is added to.
LEMMA Logged ==
    ASSUME IInv, NEW c \in Calls, Started(c), NEW phase, Append(c, phase)
    PROVE  \A d \in Calls : audit'[d] = audit[d] \/ (Started(d) /\ audit[d] \subseteq audit'[d])
BY DEF Append, IInv, TypeOK

LEMMA NextPassGoes ==
    ASSUME TypeOK, NEW pc \in ScanPcs, NEW doubt \in BOOLEAN, NextPass(pc, doubt)
    PROVE  /\ scan' \in ScanRecords /\ scan'.pc = pc /\ scan'.list = EmptyList
           /\ scan'.doubt = (scan.doubt \/ doubt)
<1>1. scan.doubt \in BOOLEAN
  BY DEF TypeOK
<1>2. IdleScan \in ScanRecords /\ IdleScan.list = EmptyList
  BY ListsTyped DEF IdleScan, ScanRecords, ScanPcs
<1>3. scan' = [IdleScan EXCEPT !.pc = pc, !.doubt = scan.doubt \/ doubt]
  BY DEF NextPass
<1>4. (scan.doubt \/ doubt) \in BOOLEAN
  BY <1>1
<1> DEFINE d == scan.doubt \/ doubt
<1> HIDE DEF d
<1>5. scan' = [IdleScan EXCEPT !.pc = pc, !.doubt = d] /\ d \in BOOLEAN
  BY <1>3, <1>4 DEF d
<1>6. scan' \in ScanRecords /\ scan'.pc = pc /\ scan'.list = EmptyList /\ scan'.doubt = d
  BY <1>2, <1>5 DEF ScanRecords
<1>7. QED
  BY <1>6 DEF d

\* The scan is between two passes, or at its end.
LEMMA KeptBetween ==
    ASSUME IInv, TypeOK', UNCHANGED <<call, order, repeated>>,
           \A c \in Calls : audit'[c] = audit[c] \/ (Started(c) /\ audit[c] \subseteq audit'[c]),
           scan'.pc \notin Passes \union {"send", "record"}, scan'.list = EmptyList,
           Below(disk, disk'),
           \A o \in Orders : \A r \in {disk'[o]} : r \in Held(o) \union {NoRecord} \/ Vouched(o, r)',
           Undoubted'
    PROVE  IInv'
<1>1. Entering' /\ Working'
  BY DEF Entering, Working, Passes
<1>2. \A o \in Orders : \A r \in {disk'[o], scan'.list[o]} :
         r \in Held(o) \union {NoRecord} \/ Vouched(o, r)'
  BY ListsTyped
<1>3. OrdersMove
  BY OrdersStay
<1>4. QED
  BY <1>1, <1>2, <1>3, ScanSide

\* The scan is in a pass.
LEMMA KeptWithin ==
    ASSUME IInv, TypeOK', UNCHANGED call, OrdersMove,
           \A c \in Calls : audit'[c] = audit[c] \/ (Started(c) /\ audit[c] \subseteq audit'[c]),
           scan'.pc \in Passes, Working', Undoubted',
           Below(disk, disk'), Below(disk', scan'.list),
           \A o \in Orders : \A r \in {disk'[o], scan'.list[o]} :
              r \in Held(o) \union {NoRecord} \/ Vouched(o, r)'
    PROVE  IInv'
<1>1. Entering'
  BY DEF Entering, Passes
<1>2. QED
  BY <1>1, ScanSide

\* Discovery, and the reads that find nothing to do.
LEMMA KeptByTurns ==
    ASSUME IInv
    PROVE  /\ DiscoverOrphans \/ HistoryFails => IInv'
           /\ EndScan \/ ScanDies => IInv'
<1>1. IdleScan \in ScanRecords /\ IdleScan.pc = "idle" /\ IdleScan.list = EmptyList
  BY ListsTyped DEF IdleScan, ScanRecords, ScanPcs
<1>2. ASSUME scan' = [IdleScan EXCEPT !.pc = "unknown"]
      PROVE  scan' \in ScanRecords /\ scan'.pc = "unknown" /\ scan'.list = EmptyList
  BY <1>1, <1>2 DEF ScanRecords, ScanPcs
<1>3. ASSUME DiscoverOrphans
      PROVE  IInv'
  <2> DEFINE orphan == [state |-> Unknown, orphan |-> TRUE]
  <2>1. UNCHANGED <<audit, order, repeated, call, faults>> /\ scan' = [IdleScan EXCEPT !.pc = "unknown"]
        /\ disk' \in {disk, [o \in Orders |-> IF o \in Orphans THEN orphan ELSE disk[o]]}
    BY <1>3 DEF DiscoverOrphans
  <2>2. scan' \in ScanRecords /\ scan'.pc = "unknown" /\ scan'.list = EmptyList
    BY <1>2, <2>1
  <2>3. orphan \in Records /\ orphan.state = Unknown
    BY StatesDiffer DEF Records
  <2>0. \A o \in Orders : disk'[o] = disk[o] \/ (disk'[o] = orphan /\ Visible(o)')
    BY <2>1 DEF IInv, TypeOK, Lists, Orphans, Visible
  <2> HIDE DEF orphan
  <2>4. disk' \in Lists /\ \A o \in Orders : disk'[o] \in {disk[o], orphan}
    BY <2>1, <2>3 DEF IInv, TypeOK, Lists
  <2>5. TypeOK'
    BY <2>1, <2>2, <2>4, ScanTyped DEF IInv, TypeOK
  <2>6. Below(disk, disk')
    BY <2>3, <2>4, RecordAssumption DEF Below
  <2>7. \A o \in Orders : \A r \in {disk'[o]} : r \in Held(o) \union {NoRecord} \/ Vouched(o, r)'
    BY <2>0, <2>3, StatesDiffer DEF Held, Vouched
  <2>8. Undoubted'
    BY <2>2 DEF Undoubted
  <2>9. QED
    BY <2>1, <2>2, <2>5, <2>6, <2>7, <2>8, KeptBetween DEF Passes
<1>4. ASSUME HistoryFails
      PROVE  IInv'
  <2>1. UNCHANGED <<disk, audit, order, repeated, call>> /\ scan' = [IdleScan EXCEPT !.pc = "unknown"] /\ Fault
    BY <1>4 DEF HistoryFails
  <2>2. scan' \in ScanRecords /\ scan'.pc = "unknown" /\ scan'.list = EmptyList
    BY <1>2, <2>1
  <2>3. TypeOK'
    BY <2>1, <2>2, ScanTyped DEF IInv, TypeOK
  <2>4. Undoubted' /\ Below(disk, disk')
    BY <2>1, <2>2 DEF Undoubted, Below
  <2>5. QED
    BY <2>1, <2>2, <2>3, <2>4, KeptBetween DEF Passes, Held
<1>5. ASSUME EndScan \/ ScanDies
      PROVE  IInv'
  <2>1. UNCHANGED <<disk, audit, order, repeated, call>> /\ scan' = IdleScan /\ (Fault \/ UNCHANGED faults)
    BY <1>5 DEF EndScan, ScanDies
  <2>2. TypeOK'
    BY <1>1, <2>1, ScanTyped DEF IInv, TypeOK
  <2>3. Undoubted' /\ Below(disk, disk')
    BY <1>1, <2>1 DEF Undoubted, Below
  <2>4. QED
    BY <1>1, <2>1, <2>2, <2>3, KeptBetween DEF Passes, Held
<1>6. QED
  BY <1>3, <1>4, <1>5

\* A pass begins: the list it reads is the stored one.
LEMMA KeptByReading ==
    ASSUME IInv, ReadUnknown \/ ReadIncomplete \/ ReadMonitored
    PROVE  IInv'
<1>1. UNCHANGED <<disk, audit, order, repeated, call, faults>> /\ scan \in ScanRecords
      /\ scan.pc \in {"unknown", "recover", "monitor"} /\ disk \in Lists
  BY DEF ReadUnknown, ReadIncomplete, ReadMonitored, IInv, TypeOK, ScanRecords
<1>2. CASE \/ ReadUnknown /\ Ids(disk, {Unknown}) = {} /\ NextPass("recover", FALSE)
           \/ ReadIncomplete /\ Incomplete = {} /\ NextPass("monitor", FALSE)
           \/ ReadMonitored /\ NextPass("gate", FALSE)
  <2>1. PICK pc \in {"recover", "monitor", "gate"} :
           /\ NextPass(pc, FALSE)
           /\ \/ Ids(disk, {Unknown}) = {}
              \/ scan.pc \in {"recover", "monitor"}
    BY <1>2 DEF ReadIncomplete, ReadMonitored
  <2>2. scan' \in ScanRecords /\ scan'.pc = pc /\ scan'.list = EmptyList
        /\ scan'.doubt = scan.doubt
    BY <2>1, NextPassGoes DEF ScanPcs, IInv, TypeOK
  <2>3. TypeOK'
    BY <1>1, <2>2, ScanTyped DEF IInv, TypeOK
  <2>4. Undoubted'
    BY <1>1, <2>1, <2>2 DEF IInv, Undoubted, Ids, Has
  <2>5. QED
    BY <1>1, <2>2, <2>3, <2>4, KeptBetween DEF Passes, Held, Below
<1>3. CASE \E pc \in {"look_up", "take_up", "check"}, todo \in SUBSET (Orders \union Calls) :
              scan' = [scan EXCEPT !.pc = pc, !.list = disk, !.todo = todo]
              /\ \/ pc = "look_up" /\ todo = Ids(disk, {Unknown})
                 \/ pc = "take_up" /\ todo = Incomplete /\ Incomplete # {}
                 \/ pc = "check" /\ todo = Ids(disk, FillMonitoringStates) /\ scan.pc = "monitor"
  <2>1. PICK pc \in {"look_up", "take_up", "check"}, todo \in SUBSET (Orders \union Calls) :
              scan' = [scan EXCEPT !.pc = pc, !.list = disk, !.todo = todo]
              /\ \/ pc = "look_up" /\ todo = Ids(disk, {Unknown})
                 \/ pc = "take_up" /\ todo = Incomplete /\ Incomplete # {}
                 \/ pc = "check" /\ todo = Ids(disk, FillMonitoringStates) /\ scan.pc = "monitor"
    BY <1>3
  <2>2. scan' \in ScanRecords /\ scan'.pc = pc /\ scan'.list = disk /\ scan'.todo = todo
        /\ scan'.doubt = scan.doubt
    BY <1>1, <2>1 DEF ScanRecords, ScanPcs
  <2>3. TypeOK'
    BY <1>1, <2>2, ScanTyped DEF IInv, TypeOK
  <2>4. Working'
    BY <1>1, <2>1, <2>2 DEF Working, Passes, Ids, Has, Incomplete, Started
  <2>5. Undoubted'
    BY <1>1, <2>1, <2>2 DEF IInv, Undoubted, Ids, Has
  <2>6. Below(disk, disk') /\ Below(disk', scan'.list)
    BY <1>1, <2>2 DEF Below
  <2>7. OrdersMove
    BY <1>1, OrdersStay
  <2>8. \A o \in Orders : \A r \in {disk'[o], scan'.list[o]} : r \in Held(o)
    BY <1>1, <2>2 DEF Held
  <2>9. scan'.pc \in Passes
    BY <2>2 DEF Passes
  <2>10. QED
    BY <1>1, <2>3, <2>4, <2>5, <2>6, <2>7, <2>8, <2>9, KeptWithin
<1>4. QED
  BY <1>2, <1>3 DEF ReadUnknown, ReadIncomplete, ReadMonitored, Ids, Incomplete
\* A pass works on one record of its list.
LEMMA KeptByWork ==
    ASSUME IInv, NEW o \in Orders, NEW record \in Records,
           scan.pc \in {"look_up", "check"}, o \in scan.todo, Worked(o, record),
           UNCHANGED <<disk, audit, repeated, call>>, Fault \/ UNCHANGED faults,
           order' \in [Orders -> BrokerOrders], OrdersMove,
           record = scan.list[o] \/ Vouched(o, record)',
           scan.pc = "check" => record.state # Unknown
    PROVE  IInv'
<1>1. scan \in ScanRecords /\ scan.list \in Lists /\ disk \in Lists
  BY DEF IInv, TypeOK, ScanRecords
<1> DEFINE list == [scan.list EXCEPT ![o] = record]
           todo == scan.todo \ {o}
<1>2. scan' = [scan EXCEPT !.list = list, !.todo = todo]
  BY <1>1 DEF Worked, ScanRecords
<1>3. list \in Lists /\ list[o] = record /\ \A i \in Orders \ {o} : list[i] = scan.list[i]
  BY <1>1, ListsTyped DEF Lists
<1>4. todo \in SUBSET (Orders \union Calls) /\ todo \subseteq scan.todo /\ o \notin todo
  BY <1>1 DEF ScanRecords
<1> HIDE DEF list, todo
<1>5. /\ scan' \in ScanRecords /\ scan'.pc = scan.pc /\ scan'.list = list /\ scan'.todo = todo
      /\ scan'.doubt = scan.doubt
  BY <1>1, <1>2, <1>3, <1>4 DEF ScanRecords
<1>6. TypeOK'
  BY <1>1, <1>5, ScanTyped DEF IInv, TypeOK
<1>7. Working'
  <2>1. todo \subseteq Orders
    BY <1>4 DEF IInv, Working
  <2>2. \A i \in todo : list[i] = scan.list[i]
    BY <1>3, <1>4, <2>1
  <2>3. QED
    BY <1>4, <1>5, <2>1, <2>2 DEF IInv, Working, Has, Passes
<1>8. Undoubted'
  BY <1>3, <1>5 DEF IInv, Undoubted, Ids, Has
<1>9. Below(disk, disk') /\ Below(disk', scan'.list)
  BY <1>3, <1>5, RecordAssumption DEF IInv, Covering, Below, Passes
<1>10. \A i \in Orders : \A r \in {disk'[i], scan'.list[i]} :
          r \in Held(i) \union {NoRecord} \/ Vouched(i, r)'
  <2> SUFFICES ASSUME NEW i \in Orders, NEW r \in {disk'[i], scan'.list[i]}
               PROVE  r \in Held(i) \/ Vouched(i, r)'
    OBVIOUS
  <2>1. r \in Held(i) \/ (i = o /\ r = record)
    BY <1>3, <1>5 DEF Held
  <2>2. QED
    BY <2>1 DEF Held
<1>11. scan'.pc \in Passes
  BY <1>5 DEF Passes
<1>12. QED
  BY <1>6, <1>7, <1>8, <1>9, <1>10, <1>11, KeptWithin

\* What the passes make of a record.
LEMMA KeptByLookUp ==
    ASSUME IInv, NEW o \in Orders,
           StillUnknown(o) \/ ConfirmedAbsent(o) \/ ResumeFound(o) \/ SettleOrphan(o)
    PROVE  IInv'
<1>1. scan.pc = "look_up" /\ o \in scan.todo /\ UNCHANGED <<disk, audit, repeated, call>>
  BY DEF StillUnknown, ConfirmedAbsent, ResumeFound, SettleOrphan, Turn
<1>2. scan.list[o] \in Records /\ scan.list[o].state = Unknown
  BY <1>1 DEF IInv, Working, Has, TypeOK, Lists
<1>3. order \in [Orders -> BrokerOrders] /\ (UNCHANGED order => OrdersMove)
  BY <1>1, OrdersStay DEF IInv, TypeOK
<1>0. OrdersMove /\ scan.list[o].orphan => Visible(o)'
  <2>1. scan.list[o] \in Held(o) /\ scan.list[o] # NoRecord
    BY <1>1 DEF Held, IInv, Working, Has
  <2>2. QED
    BY <2>1, OrphansStay
<1>9. CancelAccepted(o) => order' \in [Orders -> BrokerOrders] /\ OrdersMove
  BY <1>1, <1>3 DEF CancelAccepted, BrokerOrders, OrdersMove, Visible
<1>4. CASE StillUnknown(o)
  <2>1. PICK record : record = Move(scan.list[o], Unknown)
    OBVIOUS
  <2>2. /\ record \in Records /\ record.state = Unknown /\ Worked(o, record)
        /\ record.orphan = scan.list[o].orphan
    BY <1>2, <1>4, <2>1, Moved DEF StillUnknown
  <2>3. order' \in [Orders -> BrokerOrders] /\ OrdersMove /\ (Fault \/ UNCHANGED faults)
    BY <1>3, <1>4, <1>9 DEF StillUnknown
  <2>4. Vouched(o, record)'
    BY <1>0, <2>2, <2>3, StatesDiffer DEF Vouched
  <2>5. QED
    BY <1>1, <2>2, <2>3, <2>4, KeptByWork
<1>5. CASE ConfirmedAbsent(o)
  <2>1. PICK record : record = Move(scan.list[o], Failed)
    OBVIOUS
  <2>2. /\ record \in Records /\ record.state = Failed /\ Worked(o, record)
        /\ record.orphan = scan.list[o].orphan
    BY <1>2, <1>5, <2>1, Moved DEF ConfirmedAbsent
  <2>3. UNCHANGED <<order, repeated, faults>> /\ order[o] = "none"
    BY <1>5 DEF ConfirmedAbsent
  <2>4. Vouched(o, record)'
    BY <1>0, <1>3, <2>2, <2>3, StatesDiffer DEF Vouched, Visible
  <2>5. QED
    BY <1>1, <1>3, <2>2, <2>3, <2>4, KeptByWork
<1>6. CASE ResumeFound(o)
  <2>1. PICK moved : moved = Move(scan.list[o], Submitted)
    OBVIOUS
  <2>2. moved \in Records /\ moved.state = Submitted /\ ~moved.orphan
    BY <1>2, <1>6, <2>1, Moved DEF ResumeFound
  <2>3. PICK record \in FillAndProtect(o, moved) : Worked(o, record)
    BY <1>6, <2>1 DEF ResumeFound
  <2>4. /\ record \in Records /\ ~record.orphan
        /\ \/ record = moved
           \/ record.state = Failed /\ order[o] = "dead"
           \/ record.state \in {Unprotected, Confirmed}
    BY <2>2, FollowsBroker
  <2>5. UNCHANGED <<order, repeated, faults>>
    BY <1>6 DEF ResumeFound
  <2>6. Vouched(o, record)'
    BY <2>2, <2>4, <2>5, StatesDiffer DEF Vouched
  <2>7. QED
    BY <1>1, <1>3, <2>3, <2>4, <2>5, <2>6, KeptByWork
<1>7. CASE SettleOrphan(o)
  <2> DEFINE to == IF order[o] \in {"filled", "late"} THEN Unprotected ELSE Failed
  <2>1. PICK record : record = [scan.list[o] EXCEPT !.state = to]
    OBVIOUS
  <2>2. /\ record \in Records /\ Worked(o, record)
        /\ record.state = to /\ record.orphan
    BY <1>2, <1>7, <2>1, StatesDiffer DEF SettleOrphan, Records
  <2>3. CancelAccepted(o) /\ UNCHANGED faults /\ Visible(o)
    BY <1>7 DEF SettleOrphan
  <2>4. order' \in [Orders -> BrokerOrders] /\ OrdersMove
    BY <1>9, <2>3
  <2>5. to = Failed => order'[o] \in {"dead", "cancelling", "late"}
    BY <1>3, <2>3, StatesDiffer DEF CancelAccepted, Visible, BrokerOrders
  <2>6. Visible(o)'
    BY <2>3, <2>4 DEF OrdersMove, Visible
  <2>7. Vouched(o, record)'
    BY <2>2, <2>5, <2>6, StatesDiffer DEF Vouched
  <2>8. QED
    BY <1>1, <2>2, <2>3, <2>4, <2>7, KeptByWork
<1>8. QED
  BY <1>4, <1>5, <1>6, <1>7

LEMMA KeptByCheck ==
    ASSUME IInv, NEW o \in Orders, CheckRecord(o)
    PROVE  IInv'
<1>1. scan.pc = "check" /\ o \in scan.todo /\ UNCHANGED <<disk, audit, call, order, repeated, faults>>
  BY DEF CheckRecord, Turn
<1>2. PICK found : found = scan.list[o]
  OBVIOUS
<1>3. found \in Records /\ found.state # Unknown
  BY <1>1, <1>2, StatesDiffer DEF IInv, Working, Has, TypeOK, Lists
<1>4. PICK record \in {found} \union FillAndProtect(o, found) : Worked(o, record)
  BY <1>2 DEF CheckRecord
<1>5. /\ record \in Records /\ record.orphan = found.orphan
      /\ \/ record = found
         \/ record.state = Failed /\ order[o] = "dead"
         \/ record.state \in {Unprotected, Confirmed}
  BY <1>3, <1>4, FollowsBroker
<1>6. record = scan.list[o] \/ Vouched(o, record)'
  <2>1. found \in Held(o) /\ found # NoRecord /\ OrdersMove
    BY <1>1, <1>2, OrdersStay DEF Held, IInv, Working, Has
  <2>2. record.orphan => Visible(o)'
    BY <1>5, <2>1, OrphansStay
  <2>3. QED
    BY <1>1, <1>2, <1>5, <2>2, StatesDiffer DEF Vouched
<1>7. record.state # Unknown
  BY <1>3, <1>5, StatesDiffer
<1>8. order' \in [Orders -> BrokerOrders] /\ OrdersMove
  BY <1>1, OrdersStay DEF IInv, TypeOK
<1>9. QED
  BY <1>1, <1>4, <1>5, <1>6, <1>7, <1>8, KeptByWork

\* A pass writes its list back.
LEMMA KeptByWriting ==
    ASSUME IInv, WriteUnknown \/ WriteMonitored
    PROVE  IInv'
<1>1. disk' = scan.list /\ UNCHANGED <<audit, order, repeated, call, faults>>
      /\ scan.pc \in {"look_up", "check"}
  BY DEF WriteUnknown, WriteMonitored
<1>2. PICK pc \in {"recover", "gate"}, doubt \in BOOLEAN :
        /\ NextPass(pc, doubt)
        /\ \/ scan.pc = "look_up" /\ doubt = (Ids(scan.list, {Unknown}) # {})
           \/ scan.pc = "check"
  BY DEF WriteUnknown, WriteMonitored
<1>3. scan' \in ScanRecords /\ scan'.pc = pc /\ scan'.list = EmptyList
      /\ scan'.doubt = (scan.doubt \/ doubt)
  BY <1>2, NextPassGoes DEF IInv, ScanPcs
<1>4. disk' \in Lists /\ order' \in [Orders -> BrokerOrders]
  BY <1>1 DEF IInv, TypeOK
<1>5. TypeOK'
  BY <1>1, <1>3, <1>4, ScanTyped DEF IInv, TypeOK
<1>6. Undoubted'
  <2> SUFFICES ASSUME \A c \in Calls : audit[c] = {}, ~scan.doubt, ~doubt
               PROVE  Ids(scan.list, {Unknown}) = {}
    BY <1>1, <1>3 DEF Undoubted, Ids, Has
  <2>1. CASE scan.pc = "look_up"
    BY <1>2, <2>1
  <2>2. CASE scan.pc = "check"
    BY <2>2 DEF IInv, Undoubted
  <2>3. QED
    BY <1>1, <2>1, <2>2
<1>7. Below(disk, disk')
  BY <1>1 DEF IInv, Covering, Passes
<1>8. \A o \in Orders : \A r \in {disk'[o]} : r \in Held(o)
  BY <1>1 DEF Held
<1>9. QED
  BY <1>1, <1>3, <1>5, <1>6, <1>7, <1>8, KeptBetween DEF Passes
\* A resolution that was started is for an order.
LEMMA StartedPlaced ==
    ASSUME IInv, NEW c \in Calls, Started(c)
    PROVE  call[c].order \in Orders
<1>1. CallPart(c)
  BY DEF IInv, Calling
<1>2. QED
  BY <1>1 DEF CallPart, Started

\* The resolutions that were cut short are closed.
LEMMA KeptByClosing ==
    ASSUME IInv, NEW c \in Calls, CloseUnchanged(c)
    PROVE  IInv'
<1>1. scan.pc = "take_up" /\ c \in scan.todo /\ UNCHANGED <<disk, order, repeated, call, faults>>
  BY DEF CloseUnchanged
<1>2. PICK phase \in {"completed", "failed"} : Append(c, phase)
  BY DEF CloseUnchanged
<1>3. Started(c) /\ scan \in ScanRecords /\ scan.todo \subseteq Calls
  BY <1>1 DEF IInv, Working, TypeOK, ScanRecords
<1>4. \A d \in Calls : audit'[d] = audit[d] \/ (Started(d) /\ audit[d] \subseteq audit'[d])
  BY <1>2, <1>3, Logged
<1> DEFINE todo == scan.todo \ {c}
<1>5. scan' = [scan EXCEPT !.todo = todo]
  BY <1>3 DEF CloseUnchanged, Leave, ScanRecords
<1>6. todo \in SUBSET (Orders \union Calls) /\ todo \subseteq scan.todo
  BY <1>3
<1> HIDE DEF todo
<1>7. /\ scan' \in ScanRecords /\ scan'.pc = "take_up" /\ scan'.list = scan.list
      /\ scan'.todo = todo
  BY <1>1, <1>3, <1>5, <1>6 DEF ScanRecords
<1>8. disk' \in Lists /\ order' \in [Orders -> BrokerOrders]
  BY <1>1 DEF IInv, TypeOK
<1>9. TypeOK'
  BY <1>1, <1>2, <1>7, <1>8, ScanTyped DEF IInv, TypeOK
<1>10. Working'
  BY <1>1, <1>3, <1>4, <1>6, <1>7 DEF IInv, Working, Started, Passes
<1>11. Undoubted'
  BY <1>7 DEF Undoubted
<1>12. OrdersMove /\ Below(disk, disk') /\ Below(disk', scan'.list)
  BY <1>1, <1>7, OrdersStay DEF IInv, Covering, Below, Passes
<1>13. \A o \in Orders : \A r \in {disk'[o], scan'.list[o]} : r \in Held(o)
  BY <1>1, <1>7 DEF Held
<1>14. scan'.pc \in Passes
  BY <1>7 DEF Passes
<1>15. QED
  BY <1>1, <1>4, <1>9, <1>10, <1>11, <1>12, <1>13, <1>14, KeptWithin

\* A link is taken up where its record says it stopped.
LEMMA KeptByResuming ==
    ASSUME IInv, NEW c \in Calls, ResumeLink(c)
    PROVE  IInv'
<1>1. UNCHANGED <<audit, order, repeated, call, faults>> /\ scan.pc = "take_up" /\ c \in scan.todo
  BY DEF ResumeLink
<1>2. PICK o : o = call[c].order
  OBVIOUS
<1>3. PICK found : found = scan.list[o]
  OBVIOUS
<1>4. /\ Has(scan.list, o, {Linking})
      /\ \E record \in FillAndProtect(o, found) :
            LET list == [scan.list EXCEPT ![o] = record]
            IN /\ disk' = list
               /\ scan' = [scan EXCEPT !.pc = "close", !.list = list,
                                       !.todo = @ \ {c}, !.closing = c]
  BY <1>2, <1>3 DEF ResumeLink
<1>5. PICK record \in FillAndProtect(o, found) :
         /\ disk' = [scan.list EXCEPT ![o] = record]
         /\ scan' = [scan EXCEPT !.pc = "close", !.list = [scan.list EXCEPT ![o] = record],
                                 !.todo = @ \ {c}, !.closing = c]
  BY <1>4
<1>6. /\ Started(c) /\ scan \in ScanRecords /\ scan.list \in Lists
      /\ scan.todo \subseteq Calls
     BY <1>1, <1>2 DEF IInv, Working, TypeOK, ScanRecords
<1>7. o \in Orders
  BY <1>2, <1>6, StartedPlaced DEF IInv
<1>8. found \in Records /\ found.state = Linking
  BY <1>3, <1>4, <1>6, <1>7 DEF Has, Lists
<1>9. /\ record \in Records /\ record.orphan = found.orphan
      /\ \/ record = found
         \/ record.state = Failed /\ order[o] = "dead"
         \/ record.state \in {Unprotected, Confirmed}
  BY <1>7, <1>8, FollowsBroker
<1> DEFINE list == [scan.list EXCEPT ![o] = record]
           todo == scan.todo \ {c}
<1>10. disk' = list /\ scan' = [scan EXCEPT !.pc = "close", !.list = list, !.todo = todo, !.closing = c]
  BY <1>5
<1>11. list \in Lists /\ list[o] = record /\ \A i \in Orders \ {o} : list[i] = scan.list[i]
  BY <1>6, <1>7, <1>9 DEF Lists
<1>12. todo \in SUBSET (Orders \union Calls) /\ todo \subseteq scan.todo
  BY <1>6
<1> HIDE DEF list, todo
<1>13. /\ scan' \in ScanRecords /\ scan'.pc = "close" /\ scan'.list = list
       /\ scan'.todo = todo /\ scan'.closing = c
  BY <1>6, <1>10, <1>11, <1>12 DEF ScanRecords, ScanPcs
<1>14. order' \in [Orders -> BrokerOrders]
  BY <1>1 DEF IInv, TypeOK
<1>15. TypeOK'
  BY <1>1, <1>10, <1>11, <1>13, <1>14, ScanTyped DEF IInv, TypeOK
<1>16. Working'
  BY <1>1, <1>6, <1>12, <1>13 DEF IInv, Working, Started, Passes
<1>17. Undoubted'
  BY <1>13 DEF Undoubted
<1>18. OrdersMove
  BY <1>1, OrdersStay
<1>19. Below(disk, disk') /\ Below(disk', scan'.list)
  BY <1>1, <1>9, <1>10, <1>11, <1>13, RecordAssumption DEF IInv, Covering, Below, Passes
<1>20. \A i \in Orders : \A r \in {disk'[i], scan'.list[i]} : r \in Held(i) \/ Vouched(i, r)'
  <2>1. record = scan.list[o] \/ Vouched(o, record)'
    <3>1. found \in Held(o) /\ found # NoRecord
      BY <1>3, <1>4 DEF Held, Has
    <3>2. record.orphan => Visible(o)'
      BY <1>7, <1>9, <1>18, <3>1, OrphansStay
    <3>3. QED
      BY <1>1, <1>3, <1>9, <3>2, StatesDiffer DEF Vouched
  <2>2. QED
    BY <1>10, <1>11, <1>13, <2>1 DEF Held
<1>21. scan'.pc \in Passes
  BY <1>13 DEF Passes
<1>22. QED
  BY <1>1, <1>15, <1>16, <1>17, <1>18, <1>19, <1>20, <1>21, KeptWithin

LEMMA KeptByRecovery ==
    ASSUME IInv, CloseLink \/ RecoveryFails
    PROVE  IInv'
<1>1. UNCHANGED <<disk, order, repeated, call>> /\ scan.pc \in {"take_up", "close"} /\ scan \in ScanRecords
  BY DEF CloseLink, RecoveryFails, IInv, TypeOK, ScanRecords
<1>2. PICK closing \in Calls \union {NoCall}, todo \in SUBSET scan.todo :
         scan' = [scan EXCEPT !.pc = "take_up", !.closing = closing, !.todo = todo]
  <2>1. CASE scan' = [scan EXCEPT !.pc = "take_up", !.closing = NoCall]
    <3>1. scan' = [scan EXCEPT !.pc = "take_up", !.closing = NoCall, !.todo = scan.todo]
      BY <1>1, <2>1 DEF ScanRecords
    <3>2. QED
      BY <3>1
  <2>2. CASE \E c \in scan.todo : scan.pc = "take_up" /\ Leave(c)
    <3>1. PICK c \in scan.todo : scan.pc = "take_up" /\ Leave(c)
      BY <2>2
    <3> DEFINE rest == scan.todo \ {c}
    <3>2. scan' = [scan EXCEPT !.todo = rest] /\ rest \in SUBSET scan.todo
      BY <3>1 DEF Leave
    <3> HIDE DEF rest
    <3>3. scan' = [scan EXCEPT !.pc = "take_up", !.closing = scan.closing, !.todo = rest]
      BY <1>1, <3>1, <3>2 DEF ScanRecords
    <3>4. QED
      BY <1>1, <3>2, <3>3 DEF ScanRecords
  <2>3. QED
    BY <2>1, <2>2 DEF CloseLink, RecoveryFails
<1>3. /\ scan' \in ScanRecords /\ scan'.pc = "take_up" /\ scan'.list = scan.list
      /\ scan'.todo = todo
  BY <1>1, <1>2 DEF ScanRecords, ScanPcs
<1>4. /\ Fault \/ UNCHANGED faults
      /\ \/ UNCHANGED audit
         \/ \E c \in Calls : Append(c, "completed") /\ Started(c)
  BY DEF CloseLink, RecoveryFails, IInv, Working
<1>5. \A d \in Calls : audit'[d] = audit[d] \/ (Started(d) /\ audit[d] \subseteq audit'[d])
  BY <1>4, Logged
<1>6. disk' \in Lists /\ order' \in [Orders -> BrokerOrders]
  BY <1>1 DEF IInv, TypeOK
<1>7. TypeOK'
  <2>1. UNCHANGED audit \/ \E c \in Calls, phase \in {"completed", "failed"} : Append(c, phase)
    BY <1>4
  <2>2. QED
    BY <1>1, <1>3, <1>4, <1>6, <2>1, ScanTyped DEF IInv, TypeOK
<1>8. Working'
  BY <1>1, <1>3, <1>5 DEF IInv, Working, Started, Passes
<1>9. Undoubted'
  BY <1>3 DEF Undoubted
<1>10. OrdersMove /\ Below(disk, disk') /\ Below(disk', scan'.list)
  BY <1>1, <1>3, OrdersStay DEF IInv, Covering, Below, Passes
<1>11. \A o \in Orders : \A r \in {disk'[o], scan'.list[o]} : r \in Held(o)
  BY <1>1, <1>3 DEF Held
<1>12. scan'.pc \in Passes
  BY <1>3 DEF Passes
<1>13. QED
  BY <1>1, <1>5, <1>7, <1>8, <1>9, <1>10, <1>11, <1>12, KeptWithin

\* There was something to take up, so an administrator has stepped in.
LEMMA KeptByRecovered ==
    ASSUME IInv, RecoveryDone
    PROVE  IInv'
<1>1. UNCHANGED <<disk, audit, order, repeated, call, faults>> /\ scan.pc = "take_up"
  BY DEF RecoveryDone
<1>2. PICK doubt \in BOOLEAN : NextPass("monitor", doubt)
  BY DEF RecoveryDone
<1>3. scan' \in ScanRecords /\ scan'.pc = "monitor" /\ scan'.list = EmptyList
  BY <1>2, NextPassGoes DEF IInv, ScanPcs
<1>4. disk' \in Lists /\ order' \in [Orders -> BrokerOrders]
  BY <1>1 DEF IInv, TypeOK
<1>5. TypeOK'
  BY <1>1, <1>3, <1>4, ScanTyped DEF IInv, TypeOK
<1>6. \E c \in Calls : audit[c] # {}
  BY <1>1 DEF IInv, Working, Started
<1>7. Undoubted' /\ Below(disk, disk')
  BY <1>1, <1>6 DEF Undoubted, Below
<1>8. QED
  BY <1>1, <1>3, <1>5, <1>7, KeptBetween DEF Passes, Held
\* An entry is persisted, sent and recorded.
LEMMA EnteredTyped == Entered \in Records /\ Entered.state = Submitted /\ ~Entered.orphan
BY StatesDiffer DEF Entered, Records

LEMMA KeptByPersisting ==
    ASSUME IInv, NEW o \in Orders, PersistEntry(o)
    PROVE  IInv'
<1>1. /\ scan.pc = "gate" /\ ~scan.doubt /\ disk[o] = NoRecord
      /\ disk' = [disk EXCEPT ![o] = Entered]
      /\ scan' = [scan EXCEPT !.pc = "send", !.at = o]
      /\ UNCHANGED <<audit, order, repeated, call, faults>>
  BY DEF PersistEntry, Upsert, Entered
<1>2. disk \in Lists /\ scan \in ScanRecords /\ scan.list = EmptyList
  BY <1>1 DEF IInv, TypeOK, ScanRecords, Working, Passes
<1>3. disk' \in Lists /\ disk'[o] = Entered /\ \A i \in Orders \ {o} : disk'[i] = disk[i]
  BY <1>1, <1>2, EnteredTyped DEF Lists
<1>4. /\ scan' \in ScanRecords /\ scan'.pc = "send" /\ scan'.at = o /\ scan'.list = EmptyList
      /\ scan'.doubt = scan.doubt
  BY <1>1, <1>2 DEF ScanRecords, ScanPcs
<1>5. order' \in [Orders -> BrokerOrders]
  BY <1>1 DEF IInv, TypeOK
<1>6. TypeOK'
  BY <1>1, <1>3, <1>4, <1>5, ScanTyped DEF IInv, TypeOK
<1>7. \A c \in Calls : call[c].list[o] = NoRecord
  BY <1>1 DEF IInv, Covering, Below
<1>8. Entering' /\ Working'
  BY <1>1, <1>3, <1>4, <1>7 DEF Entering, Working, Passes
<1>9. Undoubted'
  BY <1>1, <1>3, <1>4, EnteredTyped, StatesDiffer DEF IInv, Undoubted, Ids, Has
<1>10. OrdersMove
  BY <1>1, OrdersStay
<1>11. Below(disk, disk') /\ scan'.pc \notin Passes
  BY <1>1, <1>3, <1>4 DEF Below, Passes
<1>12. \A i \in Orders : \A r \in {disk'[i], scan'.list[i]} : r \in Held(i) \/ Vouched(i, r)'
  <2>1. Vouched(o, Entered)'
    BY EnteredTyped, StatesDiffer DEF Vouched
  <2>2. QED
    BY <1>2, <1>3, <1>4, <2>1 DEF Held
<1>13. QED
  BY <1>1, <1>6, <1>8, <1>9, <1>10, <1>11, <1>12, ScanSide

LEMMA KeptBySending ==
    ASSUME IInv, SendEntry
    PROVE  IInv'
<1>1. UNCHANGED <<disk, audit, call, faults>> /\ scan.pc = "send" /\ scan \in ScanRecords
      /\ scan.at \in Orders /\ scan.list = EmptyList /\ disk \in Lists
  BY DEF SendEntry, IInv, TypeOK, ScanRecords, Entering, Working, Passes
<1>2. PICK reply \in {"accepted", "rejected", "ambiguous"} :
         /\ scan' = [scan EXCEPT !.pc = "record", !.reply = reply]
         /\ Accepts(scan.at) \/ UNCHANGED order
         /\ repeated' = IF reply = "rejected" /\ order[scan.at] = "inflight"
                        THEN repeated \union {scan.at} ELSE repeated
         /\ reply = "rejected" => UNCHANGED order /\ ~Visible(scan.at)
  BY DEF SendEntry
<1>3. /\ scan' \in ScanRecords /\ scan'.pc = "record" /\ scan'.list = scan.list
      /\ scan'.at = scan.at /\ scan'.doubt = scan.doubt /\ scan'.reply = reply
  BY <1>1, <1>2 DEF ScanRecords, ScanPcs
<1>4. order' \in [Orders -> BrokerOrders] /\ repeated' \in SUBSET Orders /\ OrdersMove
  <2>0. repeated' \in SUBSET Orders /\ repeated \subseteq repeated'
    BY <1>1, <1>2 DEF IInv, TypeOK
  <2>1. CASE UNCHANGED order
    BY <2>0, <2>1 DEF IInv, TypeOK, OrdersMove, Visible
  <2>2. CASE order[scan.at] = "none"
             /\ \E s \in {"inflight", "open"} : order' = [order EXCEPT ![scan.at] = s]
    BY <1>1, <2>0, <2>2 DEF IInv, TypeOK, BrokerOrders, OrdersMove, Visible
  <2>3. QED
    BY <1>2, <2>1, <2>2 DEF Accepts
<1>5. TypeOK'
  BY <1>1, <1>3, <1>4, ScanTyped DEF IInv, TypeOK
<1>6. Entering' /\ Working' /\ Undoubted'
  <2>1. reply = "rejected" => order'[scan.at] = "none" \/ scan.at \in repeated'
    BY <1>1, <1>2 DEF IInv, TypeOK, BrokerOrders, Visible
  <2>2. QED
    BY <1>1, <1>3, <2>1 DEF IInv, Entering, Working, Undoubted, Passes, Ids, Has
<1>7. Below(disk, disk') /\ scan'.pc \notin Passes
  BY <1>1, <1>3 DEF Below, Passes
<1>8. \A i \in Orders : \A r \in {disk'[i], scan'.list[i]} : r \in Held(i)
  BY <1>1, <1>3 DEF Held
<1>9. QED
  BY <1>1, <1>4, <1>5, <1>6, <1>7, <1>8, ScanSide

LEMMA KeptByRecording ==
    ASSUME IInv, RecordEntry
    PROVE  IInv'
<1>1. UNCHANGED <<audit, order, repeated, call, faults>> /\ scan.pc = "record" /\ scan \in ScanRecords
      /\ ~scan.doubt /\ disk \in Lists
  BY DEF RecordEntry, IInv, TypeOK, ScanRecords, Entering
<1>2. PICK o \in Orders : o = scan.at
  BY <1>1 DEF IInv, Entering
<1>3. PICK record \in Records :
         /\ disk' = [disk EXCEPT ![o] = record]
         /\ ~record.orphan
         /\ record.state = Failed => order[o] \in {"none", "dead"} \/ o \in repeated
         /\ record.state \notin {Linking, Released}
         /\ scan.reply # "ambiguous" => record.state # Unknown
  <2>1. CASE scan.reply = "accepted"
    <3>1. PICK record \in FillAndProtect(o, Entered) : Upsert(o, record)
      BY <1>2, <2>1 DEF RecordEntry, Entered
    <3>2. /\ record \in Records /\ ~record.orphan
          /\ \/ record = Entered
             \/ record.state = Failed /\ order[o] = "dead"
             \/ record.state \in {Unprotected, Confirmed}
      BY EnteredTyped, FollowsBroker
    <3>3. QED
      BY <3>1, <3>2, EnteredTyped, StatesDiffer DEF Upsert
  <2>2. CASE scan.reply = "rejected"
    <3>1. PICK record : record = Move(Entered, Failed)
      OBVIOUS
    <3>2. Upsert(o, record) /\ (order[o] = "none" \/ o \in repeated)
      BY <1>1, <1>2, <2>2, <3>1 DEF RecordEntry, Entered, IInv, Entering
    <3>3. record \in Records /\ record.state = Failed /\ ~record.orphan
      BY <3>1, EnteredTyped, Moved
    <3>4. QED
      BY <3>2, <3>3, StatesDiffer DEF Upsert
  <2>3. CASE scan.reply = "ambiguous"
    <3>1. PICK record : record = Move(Entered, Unknown)
      OBVIOUS
    <3>2. Upsert(o, record)
      BY <1>2, <2>3, <3>1 DEF RecordEntry, Entered
    <3>3. record \in Records /\ record.state = Unknown /\ ~record.orphan
      BY <3>1, EnteredTyped, Moved
    <3>4. QED
      BY <2>3, <3>2, <3>3, StatesDiffer DEF Upsert
  <2>4. QED
    BY <1>1, <2>1, <2>2, <2>3 DEF IInv, Entering
<1>4. disk' \in Lists /\ disk'[o] = record /\ \A i \in Orders \ {o} : disk'[i] = disk[i]
  BY <1>1, <1>3 DEF Lists
<1>5. IdleScan \in ScanRecords /\ IdleScan.pc = "idle" /\ IdleScan.list = EmptyList
  BY ListsTyped DEF IdleScan, ScanRecords, ScanPcs
<1>6. /\ scan' \in ScanRecords /\ scan'.list = EmptyList
      /\ \/ scan'.pc = "idle"
         \/ scan'.pc = "gate" /\ scan.reply # "ambiguous"
  <2>1. CASE scan' = IdleScan
    BY <1>5, <2>1
  <2>2. CASE scan' = [IdleScan EXCEPT !.pc = "gate"] /\ scan.reply # "ambiguous"
    BY <1>5, <2>2 DEF ScanRecords, ScanPcs
  <2>3. QED
    BY <2>1, <2>2 DEF RecordEntry
<1>7. order' \in [Orders -> BrokerOrders]
  BY <1>1 DEF IInv, TypeOK
<1>8. TypeOK'
  BY <1>1, <1>4, <1>6, <1>7, ScanTyped DEF IInv, TypeOK
<1>9. Undoubted'
  BY <1>1, <1>3, <1>4, <1>6 DEF IInv, Undoubted, Ids, Has
<1>10. Below(disk, disk')
  BY <1>3, <1>4, RecordAssumption DEF Below
<1>11. \A i \in Orders : \A r \in {disk'[i]} : r \in Held(i) \/ Vouched(i, r)'
  <2>1. Vouched(o, record)'
    BY <1>1, <1>3 DEF Vouched
  <2>2. QED
    BY <1>4, <2>1 DEF Held
<1>12. scan'.pc \notin Passes \union {"send", "record"}
  BY <1>6 DEF Passes
<1>13. QED
  BY <1>1, <1>6, <1>8, <1>9, <1>10, <1>11, <1>12, KeptBetween

\* Any step.
LEMMA KeptByNext ==
    ASSUME IInv, [Next]_vars
    PROVE  IInv'
<1>1. CASE UNCHANGED vars
  <2>1. UNCHANGED <<disk, audit, call, scan, faults>> /\ UNCHANGED <<order, repeated>>
    BY <1>1 DEF vars
  <2>2. TypeOK' /\ Entering' /\ Working' /\ Undoubted'
    BY <2>1 DEF IInv, TypeOK, Entering, Working, Undoubted, Started, Ids, Has
  <2>3. Below(disk, disk') /\ (scan'.pc \in Passes => Below(disk', scan'.list))
    BY <2>1 DEF IInv, Covering, Below
  <2>4. \A o \in Orders : \A r \in {disk'[o], scan'.list[o]} : r \in Held(o)
    BY <2>1 DEF Held
  <2>5. QED
    BY <2>1, <2>2, <2>3, <2>4, OrdersStay, ScanSide
<1>2. CASE Next
  <2>1. CASE \E o \in Orders : Appears(o) \/ Settles(o)
    BY <2>1, KeptByBroker
  <2>2. CASE \E c \in Calls : Resolve(c)
    BY <2>2, KeptByCalls
  <2>3. CASE ScanStep
    BY <2>3, KeptByTurns, KeptByReading, KeptByLookUp, KeptByCheck, KeptByWriting,
       KeptByClosing, KeptByResuming, KeptByRecovery, KeptByRecovered,
       KeptByPersisting, KeptBySending, KeptByRecording DEF ScanStep
  <2>4. CASE ScanDies
    BY <2>4, KeptByTurns
  <2>5. QED
    BY <1>2, <2>1, <2>2, <2>3, <2>4 DEF Next
<1>3. QED
  BY <1>1, <1>2

LEMMA Inductive == Spec => []IInv
BY InitIInv, KeptByNext, PTL DEF Spec

---------------------------------------------------------------------------
(* The theorems.                                                           *)

\* Records, lists, calls and the scan keep their types, whatever each of the
\* two processes finds in the file the other has written.
THEOREM TypeCorrect == Spec => []TypeOK
BY Inductive, PTL DEF IInv

\* A released record has no order that is or may become a position, and a
\* linked one has an order, from whatever list it was written; so with a record
\* the code failed by itself, except for an orphan's cancellation the broker
\* accepted too late and an id sent again before its order was shown.
THEOREM DecisionsRestOnEvidence == Spec => []EvidenceHolds
BY Inductive, Implied, PTL

\* No record shows an administrator's decision without a started phase in the
\* audit log, across every death of a call or a scan.
THEOREM AuditComesFirst == Spec => []AuditPrecedesChange
BY Inductive, Implied, PTL

\* While no administrator has stepped in, the scan sends no entry with a
\* submission of unknown outcome in the stored list.
THEOREM NothingEnteredInDoubt == Spec => []NoEntryInDoubt
BY Inductive, Implied, PTL

=============================================================================
