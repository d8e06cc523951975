-------------------------- MODULE EntryGate_proofs --------------------------
(***************************************************************************)
(* What the three ways into a position keep, for any tickers, tickets,     *)
(* links, requests, costs, caps and number of faults. The inductive        *)
(* invariant has five parts, each proved from those before it: the shapes  *)
(* of the stores and the processes; decisions, which have one request and  *)
(* one record at most; the lock, whose holder is alone with what it found  *)
(* out; the count of the day's dollars; and the cover of every live order  *)
(* by that count.                                                          *)
(***************************************************************************)
EXTENDS EntryGate, SumTheorems, SequenceTheorems

Submitting == {"persist", "reserve", "send", "record"}
Replies == {"none", "accepted", "rejected", "ambiguous"}
Modes == {"none", "submit", "ticket", "link"}
ProcType == [pc : Pcs, origin : Origins \union {Nobody}, ticker : Tickers \union {NoTicker},
             entry : 0..MaxRecords, cost : Nat, reply : Replies, todo : SUBSET Tickers, mode : Modes]

Active(p) == proc[p].pc \notin {"idle", "dead"}

\* What the scan is doing, and what a request.
ScanPart(s) ==
    /\ s.pc \in {"idle", "shortlist", "choose"} \union Submitting
    /\ s.origin \in {Nobody, Scan}
    /\ s.pc \in Submitting => s.origin = Scan /\ s.ticker \in Tickers /\ s.ticker \notin s.todo
    /\ s.todo # {} => s.pc \in {"choose"} \union Submitting
    /\ s.pc = "record" => s.reply # "none"
    /\ s.mode = "link" => account = "confirm"
HandPart(s) ==
    /\ s.pc \in {"idle", "dead", "lock", "recheck", "settle"} \union Submitting
    /\ s.todo = {}
    /\ s.pc \in {"lock", "recheck", "settle"} => s.origin \in TicketIds
    /\ s.pc \in Submitting => s.origin \in TicketIds \union LinkIds
    /\ s.pc \notin {"idle", "dead"} => s.ticker \in Tickers
    /\ s.pc = "record" => s.reply # "none"
    /\ account = "live" => s.origin \notin LinkIds
ProcsShaped ==
    /\ proc \in [Procs -> ProcType]
    /\ ScanPart(proc[Scan])
    /\ \A h \in Hands : HandPart(proc[h])

StoresShaped ==
    /\ account \in Accounts
    /\ lock \in Procs \union {Nobody}
    /\ tickets \in [TicketIds -> Tickets \union {NoTicket}]
    /\ links \in [LinkIds -> Links \union {NoLink}]
    /\ account = "live" => \A l \in LinkIds : links[l] = NoLink
    /\ records \in Seq(EntryRecords) /\ Len(records) <= MaxRecords
    /\ order \in [Tickers -> BrokerOrders] /\ dollars \in [Tickers -> Nat]
    /\ faults \in 0..MaxFaults

\* A submission knows its record.
Written == {"reserve", "send", "record"}
Writing ==
    \A p \in Procs : proc[p].pc \in Written =>
        /\ proc[p].entry \in DOMAIN records
        /\ records[proc[p].entry].origin = proc[p].origin
        /\ records[proc[p].entry].ticker = proc[p].ticker

Shaped == StoresShaped /\ ProcsShaped /\ Writing

\* A process at rest is typed.
LEMMA IdleIsTyped ==
    /\ IdleProc \in ProcType /\ ScanPart(IdleProc) /\ HandPart(IdleProc)
    /\ IdleProc.pc = "idle" /\ IdleProc.todo = {} /\ IdleProc.origin = Nobody
BY CostAssumption, OriginAssumption
DEF IdleProc, ProcType, Pcs, Replies, Modes, ScanPart, HandPart, Submitting, Origins

\* A process may take a step to any typed place that suits it.
LEMMA ProcsStay ==
    ASSUME Shaped, UNCHANGED account, NEW p \in Procs, NEW r \in ProcType,
           proc' = [proc EXCEPT ![p] = r],
           p = Scan => ScanPart(r), p \in Hands => HandPart(r)
    PROVE  ProcsShaped'
<1>1. proc' \in [Procs -> ProcType] /\ \A q \in Procs : proc'[q] = IF q = p THEN r ELSE proc[q]
  BY DEF Shaped, ProcsShaped
<1>2. ScanPart(proc'[Scan]) /\ \A h \in Hands : HandPart(proc'[h])
  BY <1>1 DEF Shaped, ProcsShaped, Procs
<1>3. (ScanPart(proc[Scan]))' /\ \A h \in Hands : HandPart(proc[h])'
  BY <1>2 DEF ScanPart, HandPart
<1>4. QED
  BY <1>1, <1>3 DEF ProcsShaped

\* Where a process is after it goes on to another step.
LEMMA GoesOn ==
    ASSUME NEW s \in ProcType, NEW pc \in Pcs
    PROVE  /\ [s EXCEPT !.pc = pc] \in ProcType
           /\ [s EXCEPT !.pc = pc].pc = pc
           /\ [s EXCEPT !.pc = pc].origin = s.origin
           /\ [s EXCEPT !.pc = pc].ticker = s.ticker
           /\ [s EXCEPT !.pc = pc].todo = s.todo
           /\ [s EXCEPT !.pc = pc].entry = s.entry
           /\ [s EXCEPT !.pc = pc].mode = s.mode
BY DEF ProcType

\* Where a submission leaves its process.
LEMMA Returns ==
    ASSUME Shaped, NEW p \in Procs, proc[p].pc \in Submitting, NEW reply
    PROVE  LET r == Returned(p, reply) IN
           /\ r \in ProcType
           /\ p = Scan => /\ ScanPart(r) /\ r.pc = "choose" /\ r.origin = Nobody
                          /\ r.todo \subseteq proc[Scan].todo
                          /\ reply = "ambiguous" => r.todo = {}
           /\ p \in Hands => /\ HandPart(r)
                             /\ proc[p].origin \in TicketIds =>
                                  r.pc = "settle" /\ r.origin = proc[p].origin
                             /\ proc[p].origin \notin TicketIds => r = IdleProc
<1> DEFINE r == Returned(p, reply)
<1>1. CASE p = Scan
  <2> DEFINE todo == IF reply = "ambiguous" THEN {} ELSE proc[Scan].todo
  <2>1. r = [pc |-> "choose", origin |-> Nobody, ticker |-> NoTicker, entry |-> 0,
             cost |-> 0, reply |-> "none", todo |-> todo, mode |-> proc[Scan].mode]
    <3>1. proc[p].origin \notin TicketIds
      BY <1>1, OriginAssumption DEF Shaped, ProcsShaped, ScanPart, Origins
    <3>2. r = [IdleProc EXCEPT !.pc = "choose", !.mode = proc[Scan].mode, !.todo = todo]
      BY <1>1, <3>1 DEF Returned
    <3> HIDE DEF r, todo
    <3>3. QED
      BY <3>2 DEF IdleProc
  <2>2. todo \in SUBSET Tickers /\ proc[Scan].mode \in Modes
    BY <1>1 DEF Shaped, ProcsShaped, ProcType, Procs
  <2>3. r \in ProcType
    BY <2>1, <2>2, CostAssumption DEF ProcType, Pcs, Replies
  <2>4. ScanPart(r)
    BY <2>1, <2>2 DEF Shaped, ProcsShaped, ScanPart, Submitting
  <2>5. p \notin Hands
    BY <1>1, OriginAssumption
  <2>6. QED
    BY <1>1, <2>1, <2>3, <2>4, <2>5
<1>2. CASE p \in Hands
  <2>1. p # Scan
    BY <1>2, OriginAssumption
  <2>2. CASE proc[p].origin \in TicketIds
    <3>1. r = [proc[p] EXCEPT !.pc = "settle"]
      BY <2>1, <2>2 DEF Returned
    <3>2. proc[p] \in ProcType /\ "settle" \in Pcs /\ HandPart(proc[p])
      BY <1>2 DEF Shaped, ProcsShaped, Pcs, Procs
    <3>3. /\ r \in ProcType /\ r.pc = "settle" /\ r.origin = proc[p].origin
          /\ r.ticker = proc[p].ticker /\ r.todo = proc[p].todo
      BY <3>1, <3>2, GoesOn
    <3>4. HandPart(r)
      BY <3>2, <3>3, <2>2 DEF HandPart, Submitting
    <3>5. QED
      BY <1>2, <2>1, <2>2, <3>3, <3>4
  <2>3. CASE proc[p].origin \notin TicketIds
    <3>1. r = IdleProc
      BY <2>1, <2>3 DEF Returned
    <3>2. QED
      BY <1>2, <2>1, <2>3, <3>1, IdleIsTyped
  <2>4. QED
    BY <2>2, <2>3
<1>3. QED
  BY <1>1, <1>2 DEF Procs

---------------------------------------------------------------------------
(* Records.                                                                *)

\* The states that occur here, and which of them are final.
LEMMA StatesDiffer ==
    /\ {Submitted, Unknown, Confirmed, Failed, Closed} \subseteq AllStates
    /\ {Failed, Closed} \subseteq TerminalStates
    /\ {Submitted, Unknown, Confirmed} \intersect TerminalStates = {}
    /\ Unknown \notin {Submitted, Confirmed, Failed, Closed}
    /\ Submitted \notin {Confirmed, Failed, Closed} /\ Confirmed \notin {Failed, Closed}
BY DEF Submitted, Partially, Filled, Pending, Confirmed, Failed, Unprotected, Closed,
       Unknown, Released, Linking, AllStates, TerminalStates

\* A record is added at the end, for the process p.
Appended(p) ==
    /\ records' \in Seq(EntryRecords) /\ Len(records') = Len(records) + 1
    /\ \A j \in DOMAIN records : records'[j] = records[j]
    /\ LET new == records'[Len(records) + 1] IN
       /\ new.ticker = proc[p].ticker /\ new.origin = proc[p].origin
       /\ new.state = Submitted

\* The record i is given another state.
Rewritten(i, state) ==
    /\ records' \in Seq(EntryRecords) /\ Len(records') = Len(records)
    /\ \A j \in DOMAIN records :
          /\ records'[j].ticker = records[j].ticker /\ records'[j].origin = records[j].origin
          /\ records'[j].state = IF j = i THEN state ELSE records[j].state

\* Records stay, with their origins and tickers.
RecordsKept ==
    \A j \in DOMAIN records :
        /\ j \in DOMAIN records'
        /\ records'[j].ticker = records[j].ticker /\ records'[j].origin = records[j].origin

\* Whatever is done to the records keeps them.
LEMMA Keeping ==
    /\ UNCHANGED records => RecordsKept
    /\ \A p : Shaped /\ Appended(p) => RecordsKept
    /\ \A i, state : Shaped /\ Rewritten(i, state) => RecordsKept
<1>1. UNCHANGED records => RecordsKept
  BY DEF RecordsKept
<1>2. ASSUME NEW p, Shaped, Appended(p) PROVE RecordsKept
  <2>1. DOMAIN records = 1 .. Len(records) /\ DOMAIN records' = 1 .. Len(records')
        /\ Len(records) \in Nat
    BY <1>2, LenProperties DEF Appended, Shaped, StoresShaped
  <2>2. QED
    BY <1>2, <2>1 DEF Appended, RecordsKept
<1>3. ASSUME NEW i, NEW state, Shaped, Rewritten(i, state) PROVE RecordsKept
  <2>1. DOMAIN records = 1 .. Len(records) /\ DOMAIN records' = 1 .. Len(records')
    BY <1>3, LenProperties DEF Rewritten, Shaped, StoresShaped
  <2>2. QED
    BY <1>3, <2>1 DEF Rewritten, RecordsKept
<1>4. QED
  BY <1>1, <1>2, <1>3

\* What goes on with a submission keeps its record.
LEMMA WritingStays ==
    ASSUME Shaped, RecordsKept, NEW p \in Procs, \A q \in Procs \ {p} : proc'[q] = proc[q],
           proc'[p].pc \in Written =>
              /\ proc[p].pc \in Written
              /\ proc'[p].entry = proc[p].entry /\ proc'[p].origin = proc[p].origin
              /\ proc'[p].ticker = proc[p].ticker
    PROVE  Writing'
BY DEF Shaped, Writing, RecordsKept

\* A submission's first step adds its record.
LEMMA Appending ==
    ASSUME Shaped, NEW p \in Procs, PersistEntry(p)
    PROVE  Appended(p) /\ Len(records') <= MaxRecords
<1> DEFINE r == [ticker |-> proc[p].ticker, origin |-> proc[p].origin,
                 state |-> Submitted, placed |-> FALSE]
<1>1. records' = Append(records, r) /\ Len(records) < MaxRecords
  BY DEF PersistEntry
<1>2. r \in EntryRecords
  <2>1. proc[p].ticker \in Tickers /\ proc[p].origin \in Origins
    BY DEF PersistEntry, Shaped, ProcsShaped, ScanPart, HandPart, Submitting, Procs, Origins
  <2>2. QED
    BY <2>1, StatesDiffer DEF EntryRecords
<1>3. records \in Seq(EntryRecords) /\ Len(records) \in Nat
  BY DEF Shaped, StoresShaped
<1>4. r.ticker = proc[p].ticker /\ r.origin = proc[p].origin /\ r.state = Submitted
  OBVIOUS
<1> HIDE DEF r
<1>5. /\ records' \in Seq(EntryRecords) /\ Len(records') = Len(records) + 1
      /\ \A j \in 1 .. Len(records) : records'[j] = records[j]
      /\ records'[Len(records) + 1] = r
  BY <1>1, <1>2, <1>3, AppendProperties
<1>6. QED
  BY <1>1, <1>3, <1>4, <1>5, CostAssumption DEF Appended

\* A live entry costs something.
LEMMA Priced ==
    ASSUME Shaped, NEW p \in Procs, PersistEntry(p)
    PROVE  \E pc \in {"reserve", "send"}, cost \in Nat :
              /\ proc' = [proc EXCEPT ![p].pc = pc, ![p].entry = Len(records) + 1,
                                      ![p].cost = cost]
              /\ account = "live" => pc = "reserve" /\ cost > 0
<1>1. proc[p].ticker \in Tickers
  BY DEF PersistEntry, Shaped, ProcsShaped, ScanPart, HandPart, Submitting, Procs
<1>2. PICK cost \in CostsOf(proc[p].ticker) :
        proc' = [proc EXCEPT ![p].pc = IF account = "live" THEN "reserve" ELSE "send",
                             ![p].entry = Len(records) + 1, ![p].cost = cost]
  BY DEF PersistEntry
<1>3. CASE account = "live"
  <2>1. cost \in Nat /\ cost > 0
    BY <1>1, <1>3, CostAssumption DEF CostsOf
  <2>2. proc' = [proc EXCEPT ![p].pc = "reserve", ![p].entry = Len(records) + 1,
                             ![p].cost = cost]
    BY <1>2, <1>3
  <2>3. QED
    BY <2>1, <2>2
<1>4. CASE account # "live"
  <2>1. cost \in Nat
    BY <1>4 DEF CostsOf
  <2>2. proc' = [proc EXCEPT ![p].pc = "send", ![p].entry = Len(records) + 1, ![p].cost = cost]
    BY <1>2, <1>4
  <2>3. QED
    BY <1>4, <2>1, <2>2
<1>5. QED
  BY <1>3, <1>4

\* Giving a record a state leaves the others alone.
LEMMA Rewriting ==
    ASSUME records \in Seq(EntryRecords), NEW i \in DOMAIN records, NEW state \in AllStates,
           NEW placed \in BOOLEAN,
           records' = [records EXCEPT ![i] = [records[i] EXCEPT !.state = state, !.placed = placed]]
    PROVE  Rewritten(i, state)
<1> DEFINE r == [records[i] EXCEPT !.state = state, !.placed = placed]
<1>1. records[i] \in EntryRecords
  BY ElementOfSeq
<1>2. /\ r \in EntryRecords /\ r.state = state
      /\ r.ticker = records[i].ticker /\ r.origin = records[i].origin
  BY <1>1 DEF EntryRecords
<1> HIDE DEF r
<1>3. records' = [records EXCEPT ![i] = r]
  BY DEF r
<1>4. /\ records' \in Seq(EntryRecords) /\ Len(records') = Len(records)
      /\ \A j \in 1 .. Len(records) : records'[j] = IF j = i THEN r ELSE records[j]
  BY <1>2, <1>3, ExceptSeq
<1>5. QED
  BY <1>2, <1>4 DEF Rewritten

\* What each answer of the broker makes of a record.
LEMMA Answers ==
    ASSUME NEW p \in Procs, proc[p].reply \in {"accepted", "rejected", "ambiguous"}
    PROVE  /\ Answered(p) \in {Submitted, Confirmed, Failed, Unknown}
           /\ proc[p].reply = "accepted" =>
                /\ Answered(p) # Unknown
                /\ order[proc[p].ticker] = "inflight" => Answered(p) = Submitted
           /\ proc[p].reply = "rejected" => Answered(p) = Failed
           /\ proc[p].reply = "ambiguous" => Answered(p) = Unknown
<1>1. Failed \in ValidTransitions[Submitted] /\ Unknown \in ValidTransitions[Submitted]
      /\ Submitted \in AllStates
  BY StatesDiffer DEF ValidTransitions, AllStates, Partially, Filled, Pending, Unprotected,
         Released, Linking, TerminalStates, Submitted, Failed, Unknown, Closed, Confirmed
<1>2. /\ Move([state |-> Submitted], Failed).state = Failed
      /\ Move([state |-> Submitted], Unknown).state = Unknown
  BY <1>1 DEF Move
<1>3. /\ FollowsOrder(proc[p].ticker, Submitted) \in {Submitted, Confirmed, Failed}
      /\ order[proc[p].ticker] = "inflight" => FollowsOrder(proc[p].ticker, Submitted) = Submitted
  BY DEF FollowsOrder
<1>4. QED
  BY <1>2, <1>3, StatesDiffer DEF Answered

\* The last step of a submission rewrites its own record.
LEMMA Recording ==
    ASSUME Shaped, NEW p \in Procs, RecordEntry(p)
    PROVE  /\ proc[p].entry \in DOMAIN records
           /\ proc[p].reply \in {"accepted", "rejected", "ambiguous"}
           /\ Rewritten(proc[p].entry, Answered(p))
<1> DEFINE e == proc[p].entry
           placed == Answered(p) \notin {Failed, Unknown}
<1>1. e \in DOMAIN records /\ records \in Seq(EntryRecords)
  BY DEF RecordEntry, Shaped, StoresShaped, Writing, Written
<1>2. proc[p].reply \in {"accepted", "rejected", "ambiguous"}
  <2>1. proc[p].reply # "none" /\ proc[p].reply \in Replies
    BY DEF RecordEntry, Shaped, ProcsShaped, ScanPart, HandPart, Procs, ProcType
  <2>2. QED
    BY <2>1 DEF Replies
<1>3. Answered(p) \in AllStates /\ placed \in BOOLEAN
  BY <1>2, Answers, StatesDiffer
<1>4. records' = [records EXCEPT ![e].state = Answered(p), ![e].placed = placed]
  BY DEF RecordEntry
<1> HIDE DEF placed, e
<1>5. records' = [records EXCEPT ![e] = [records[e] EXCEPT !.state = Answered(p), !.placed = placed]]
  BY <1>1, <1>4
<1>6. Rewritten(e, Answered(p))
  BY <1>1, <1>3, <1>5, Rewriting
<1>7. QED
  BY <1>1, <1>2, <1>6 DEF e

---------------------------------------------------------------------------
(* Every step keeps the shapes.                                            *)

\* The first state is shaped.
LEMMA InitShaped == Init => Shaped
<1> SUFFICES ASSUME Init PROVE Shaped
  OBVIOUS
<1>1. proc \in [Procs -> ProcType] /\ \A p \in Procs : proc[p] = IdleProc
  BY IdleIsTyped DEF Init
<1>2. ProcsShaped
  <2>1. ScanPart(proc[Scan]) /\ \A h \in Hands : HandPart(proc[h])
    BY <1>1, IdleIsTyped DEF Procs
  <2>2. QED
    BY <1>1, <2>1 DEF ProcsShaped
<1>3. records = <<>> /\ <<>> \in Seq(EntryRecords) /\ Len(<<>>) = 0
  BY EmptySeq DEF Init
<1>4. faults \in 0..MaxFaults /\ 0 <= MaxRecords
  BY CostAssumption DEF Init
<1>5. account \in Accounts /\ lock \in Procs \union {Nobody}
  BY DEF Init
<1>6. tickets \in [TicketIds -> Tickets \union {NoTicket}]
  BY DEF Init
<1>7. links \in [LinkIds -> Links \union {NoLink}] /\ \A l \in LinkIds : links[l] = NoLink
  BY DEF Init
<1>8. order \in [Tickers -> BrokerOrders] /\ dollars \in [Tickers -> Nat]
  BY DEF Init, BrokerOrders
<1>9. Writing
  BY <1>1, IdleIsTyped DEF Writing, Written
<1>10. QED
  BY <1>2, <1>3, <1>4, <1>5, <1>6, <1>7, <1>8, <1>9 DEF Shaped, StoresShaped

\* Every step of a submission keeps the shapes.
LEMMA SubmissionShaped ==
    ASSUME Shaped, NEW p \in Procs, Submission(p)
    PROVE  Shaped'
<1>1. CASE PersistEntry(p)
  <2>1. Appended(p) /\ Len(records') <= MaxRecords
    BY <1>1, Appending
  <2>2. StoresShaped'
    BY <1>1, <2>1 DEF Shaped, PersistEntry, StoresShaped, Appended
  <2>3. PICK pc \in {"reserve", "send"}, cost \in Nat :
          proc' = [proc EXCEPT ![p].pc = pc, ![p].entry = Len(records) + 1, ![p].cost = cost]
    BY <1>1, Priced
  <2>4. proc' \in [Procs -> ProcType]
    <3>1. Len(records) + 1 \in 0..MaxRecords
      BY <1>1, CostAssumption DEF PersistEntry, Shaped, StoresShaped
    <3> DEFINE r == [proc[p] EXCEPT !.pc = pc, !.entry = Len(records) + 1, !.cost = cost]
    <3>2. proc[p] \in ProcType /\ pc \in Pcs /\ proc \in [Procs -> ProcType]
      BY DEF Shaped, ProcsShaped, Pcs
    <3>3. r \in ProcType
      BY <3>1, <3>2 DEF ProcType
    <3>4. proc' = [proc EXCEPT ![p] = r]
      BY <2>3, <3>2
    <3> HIDE DEF r
    <3>5. QED
      BY <3>2, <3>3, <3>4
  <2>5. /\ proc'[p].pc = pc /\ proc'[p].origin = proc[p].origin
        /\ proc'[p].ticker = proc[p].ticker /\ proc'[p].todo = proc[p].todo
        /\ proc'[p].mode = proc[p].mode
        /\ \A q \in Procs \ {p} : proc'[q] = proc[q]
    BY <2>3 DEF Shaped, ProcsShaped, ProcType
  <2>6. ScanPart(proc'[Scan]) /\ \A h \in Hands : HandPart(proc'[h])
    BY <1>1, <2>5, OriginAssumption DEF Shaped, ProcsShaped, ScanPart, HandPart, Submitting,
         Procs, PersistEntry
  <2>7. ProcsShaped'
    BY <1>1, <2>4, <2>6 DEF ProcsShaped, ScanPart, HandPart, PersistEntry
  <2>8. Writing'
    <3>1. DOMAIN records' = 1 .. Len(records) + 1 /\ Len(records) \in Nat /\ RecordsKept
      BY <2>1, LenProperties, Keeping DEF Appended, Shaped, StoresShaped
    <3>2. proc'[p].entry = Len(records) + 1
      BY <2>3 DEF Shaped, ProcsShaped, ProcType
    <3>3. QED
      BY <2>1, <2>5, <3>1, <3>2 DEF Writing, Shaped, Appended, RecordsKept
  <2>9. QED
    BY <2>2, <2>7, <2>8 DEF Shaped
<1>2. CASE PersistFails(p)
  <2>1. StoresShaped'
    BY <1>2, CostAssumption DEF Shaped, PersistFails, StoresShaped, Fault
  <2>2. ProcsShaped'
    BY <1>2, Returns, ProcsStay DEF PersistFails, Submitting
  <2>3. Writing'
    <3>1. PICK r : proc' = [proc EXCEPT ![p] = r] /\ r.pc \notin Written
      <4>1. Returned(p, "rejected").pc \notin Written
        BY <1>2, Returns, IdleIsTyped DEF PersistFails, Submitting, Procs, Written
      <4>2. QED
        BY <1>2, <4>1 DEF PersistFails
    <3>2. QED
      BY <1>2, <3>1, WritingStays, Keeping DEF PersistFails, Shaped, ProcsShaped
  <2>4. QED
    BY <2>1, <2>2, <2>3 DEF Shaped
<1>3. CASE Reserve(p) \/ Send(p)
  <2>1. StoresShaped'
    <3>1. CASE Reserve(p)
      BY <3>1 DEF Shaped, Reserve, StoresShaped
    <3>2. CASE Send(p)
      <4>1. order' \in [Tickers -> BrokerOrders]
        BY <3>2 DEF Shaped, Send, StoresShaped, BrokerOrders, Shown
      <4>2. proc[p].ticker \in Tickers /\ proc[p].cost \in Nat
        BY <3>2 DEF Send, Shaped, ProcsShaped, ScanPart, HandPart, Submitting, Procs, ProcType
      <4>3. dollars' \in [Tickers -> Nat]
        BY <3>2, <4>2 DEF Shaped, Send, StoresShaped
      <4>4. QED
        BY <3>2, <4>1, <4>3 DEF Shaped, Send, StoresShaped
    <3>3. QED
      BY <1>3, <3>1, <3>2
  <2>2. proc[p].pc \in {"reserve", "send"} /\ UNCHANGED account
    BY <1>3 DEF Reserve, Send
  <2>3. PICK pc \in {"send", "record"}, reply \in Replies :
          /\ pc = "record" => reply # "none"
          /\ proc' = [proc EXCEPT ![p].pc = pc, ![p].reply = reply]
    <3>1. CASE Reserve(p)
      <4>1. CASE proc' = [proc EXCEPT ![p].pc = "send", ![p].reply = "none"]
        BY <4>1 DEF Replies
      <4>2. CASE proc' = [proc EXCEPT ![p].pc = "record", ![p].reply = "rejected"]
        BY <4>2 DEF Replies
      <4>3. QED
        BY <3>1, <4>1, <4>2 DEF Reserve
    <3>2. CASE Send(p)
      <4>1. PICK reply \in {"accepted", "rejected", "ambiguous"} :
              proc' = [proc EXCEPT ![p].reply = reply, ![p].pc = "record"]
        BY <3>2 DEF Send
      <4>2. proc' = [proc EXCEPT ![p].pc = "record", ![p].reply = reply]
        BY <4>1 DEF Shaped, ProcsShaped, ProcType
      <4>3. QED
        BY <4>2 DEF Replies
    <3>3. QED
      BY <1>3, <3>1, <3>2
  <2>4. proc' \in [Procs -> ProcType]
    <3> DEFINE r == [proc[p] EXCEPT !.pc = pc, !.reply = reply]
    <3>1. proc[p] \in ProcType /\ pc \in Pcs /\ proc \in [Procs -> ProcType]
      BY DEF Shaped, ProcsShaped, Pcs
    <3>2. r \in ProcType
      BY <3>1 DEF ProcType
    <3>3. proc' = [proc EXCEPT ![p] = r]
      BY <2>3, <3>1
    <3> HIDE DEF r
    <3>4. QED
      BY <3>1, <3>2, <3>3
  <2>5. /\ proc'[p].pc = pc /\ proc'[p].reply = reply
        /\ proc'[p].origin = proc[p].origin
        /\ proc'[p].ticker = proc[p].ticker /\ proc'[p].todo = proc[p].todo
        /\ proc'[p].mode = proc[p].mode
        /\ \A q \in Procs \ {p} : proc'[q] = proc[q]
    BY <2>3 DEF Shaped, ProcsShaped, ProcType
  <2>6. ScanPart(proc'[Scan]) /\ \A h \in Hands : HandPart(proc'[h])
    BY <2>2, <2>3, <2>5, OriginAssumption
    DEF Shaped, ProcsShaped, ScanPart, HandPart, Submitting, Procs
  <2>7. ProcsShaped'
    BY <2>2, <2>4, <2>6 DEF ProcsShaped, ScanPart, HandPart
  <2>8. Writing'
    <3>1. UNCHANGED records /\ proc'[p].entry = proc[p].entry
      BY <1>3, <2>3 DEF Reserve, Send, Shaped, ProcsShaped, ProcType
    <3>2. QED
      BY <2>2, <2>5, <3>1, WritingStays, Keeping DEF Written
  <2>9. QED
    BY <2>1, <2>7, <2>8 DEF Shaped
<1>4. CASE RecordEntry(p)
  <2>1. proc[p].pc = "record"
    BY <1>4 DEF RecordEntry
  <2>2. proc[p].entry \in DOMAIN records /\ Rewritten(proc[p].entry, Answered(p))
    BY <1>4, Recording
  <2>3. StoresShaped'
    BY <1>4, <2>2 DEF RecordEntry, Shaped, StoresShaped, Rewritten
  <2>4. ProcsShaped'
    BY <1>4, <2>1, Returns, ProcsStay DEF RecordEntry, Submitting
  <2>5. Writing'
    <3>1. Returned(p, proc[p].reply).pc \notin Written
      BY <2>1, Returns, IdleIsTyped DEF Submitting, Procs, Written
    <3>2. \A q \in Procs \ {p} : proc'[q] = proc[q]
      BY <1>4 DEF RecordEntry, Shaped, ProcsShaped
    <3>3. proc'[p].pc \notin Written
      BY <1>4, <3>1 DEF RecordEntry, Shaped, ProcsShaped
    <3>4. QED
      BY <2>2, <3>2, <3>3, WritingStays, Keeping
  <2>6. QED
    BY <2>3, <2>4, <2>5 DEF Shaped
<1>5. QED
  BY <1>1, <1>2, <1>3, <1>4 DEF Submission

\* A step of a process outside of its submission, and one of no process.
LEMMA OutsideShaped ==
    ASSUME Shaped, StoresShaped', UNCHANGED <<account, records>>, NEW p \in Procs, NEW r \in ProcType,
           proc' = [proc EXCEPT ![p] = r], r.pc \notin Written,
           p = Scan => ScanPart(r), p \in Hands => HandPart(r)
    PROVE  Shaped'
<1>1. ProcsShaped'
  BY ProcsStay
<1>2. \A q \in Procs \ {p} : proc'[q] = proc[q]
  BY DEF Shaped, ProcsShaped
<1>3. proc'[p].pc \notin Written
  BY DEF Shaped, ProcsShaped
<1>4. Writing'
  BY <1>2, <1>3, WritingStays, Keeping
<1>5. QED
  BY <1>1, <1>4 DEF Shaped

\* So does a step of no process that keeps them in the stores.
LEMMA ElsewhereShaped ==
    ASSUME Shaped, StoresShaped', RecordsKept, UNCHANGED <<account, proc>>
    PROVE  Shaped'
<1>1. ProcsShaped'
  BY DEF Shaped, ProcsShaped, ScanPart, HandPart
<1>2. Writing'
  BY DEF Shaped, Writing, RecordsKept
<1>3. QED
  BY <1>1, <1>2 DEF Shaped

\* Setting the status of a ticket changes that of no other.
LEMMA TicketSet ==
    ASSUME tickets \in [TicketIds -> Tickets \union {NoTicket}], NEW id \in TicketIds,
           tickets[id] # NoTicket, NEW status \in TicketStatuses
    PROVE  /\ SetStatus(id, status) \in [TicketIds -> Tickets \union {NoTicket}]
           /\ SetStatus(id, status)[id] # NoTicket
           /\ SetStatus(id, status)[id].status = status
           /\ SetStatus(id, status)[id].ticker = tickets[id].ticker
           /\ \A other \in TicketIds \ {id} : SetStatus(id, status)[other] = tickets[other]
<1>1. tickets[id] \in Tickets
  OBVIOUS
<1> DEFINE k == [tickets[id] EXCEPT !.status = status]
<1>2. k \in Tickets /\ k.status = status /\ k.ticker = tickets[id].ticker
  BY <1>1 DEF Tickets
<1>3. SetStatus(id, status) = [tickets EXCEPT ![id] = k]
  BY DEF SetStatus
<1>4. k # NoTicket
  BY <1>2, NothingAssumption
<1> HIDE DEF k
<1>5. QED
  BY <1>2, <1>3, <1>4

\* What a proposal does to the tickets: at most one ticket is new, and those
\* it supersedes were not approved.
LEMMA Proposing ==
    ASSUME Shaped, NEW t \in Tickers, ProposeTicket(t)
    PROVE  /\ tickets' \in [TicketIds -> Tickets \union {NoTicket}]
           /\ \A id \in TicketIds :
                \/ tickets'[id] = tickets[id]
                \/ tickets[id] = NoTicket /\ tickets'[id].status = "awaiting"
                \/ tickets[id] # NoTicket /\ tickets'[id] # NoTicket /\ tickets'[id].status = "lapsed"
<1>1. CASE UNCHANGED tickets
  BY <1>1 DEF Shaped, StoresShaped
<1>2. CASE /\ Fresh(tickets, NoTicket) # {}
           /\ LET new == CHOOSE id \in Fresh(tickets, NoTicket) : TRUE
              IN tickets' = [Superseding(t) EXCEPT ![new] = [ticker |-> t, status |-> "awaiting"]]
  <2> DEFINE new == CHOOSE id \in Fresh(tickets, NoTicket) : TRUE
             made == [ticker |-> t, status |-> "awaiting"]
             lapsed(id) == [tickets[id] EXCEPT !.status = "lapsed"]
  <2>1. tickets \in [TicketIds -> Tickets \union {NoTicket}]
    BY DEF Shaped, StoresShaped
  <2>2. new \in TicketIds /\ tickets[new] = NoTicket
    BY <1>2, <2>1 DEF Fresh
  <2>3. made \in Tickets /\ made.status = "awaiting"
    BY DEF Tickets, TicketStatuses
  <2>4. \A id \in OpenTickets(t) :
          /\ id \in TicketIds /\ tickets[id] # NoTicket
          /\ lapsed(id) \in Tickets /\ lapsed(id).status = "lapsed" /\ lapsed(id) # NoTicket
    <3> SUFFICES ASSUME NEW id \in OpenTickets(t)
                 PROVE  /\ id \in TicketIds /\ tickets[id] # NoTicket
                        /\ lapsed(id) \in Tickets /\ lapsed(id).status = "lapsed"
                        /\ lapsed(id) # NoTicket
      OBVIOUS
    <3>1. id \in TicketIds /\ tickets[id] # NoTicket
      BY DEF OpenTickets, Is
    <3>2. tickets[id] \in Tickets
      BY <2>1, <3>1
    <3>3. lapsed(id) \in Tickets /\ lapsed(id).status = "lapsed"
      BY <3>2 DEF Tickets, TicketStatuses
    <3>4. QED
      BY <3>1, <3>3, NothingAssumption
  <2>5. tickets' = [id \in TicketIds |-> IF id = new THEN made
                       ELSE IF id \in OpenTickets(t) THEN lapsed(id) ELSE tickets[id]]
    BY <1>2, <2>2 DEF Superseding
  <2> HIDE DEF new, made, lapsed
  <2>6. QED
    BY <2>1, <2>2, <2>3, <2>4, <2>5
<1>3. QED
  BY <1>1, <1>2 DEF ProposeTicket

\* A link sent is new and not used.
LEMMA LinkSending ==
    ASSUME Shaped, NEW t \in Tickers, SendLink(t)
    PROVE  /\ links' \in [LinkIds -> Links \union {NoLink}]
           /\ \A l \in LinkIds :
                \/ links'[l] = links[l]
                \/ links[l] = NoLink /\ ~links'[l].used
<1>1. CASE UNCHANGED links
  BY <1>1 DEF Shaped, StoresShaped
<1>2. CASE /\ Fresh(links, NoLink) # {}
           /\ links' = [links EXCEPT ![CHOOSE id \in Fresh(links, NoLink) : TRUE] =
                                        [ticker |-> t, used |-> FALSE]]
  <2> DEFINE new == CHOOSE id \in Fresh(links, NoLink) : TRUE
             made == [ticker |-> t, used |-> FALSE]
  <2>1. links \in [LinkIds -> Links \union {NoLink}]
    BY DEF Shaped, StoresShaped
  <2>2. new \in LinkIds /\ links[new] = NoLink
    BY <1>2, <2>1 DEF Fresh
  <2>3. made \in Links /\ ~made.used
    BY DEF Links
  <2>4. links' = [links EXCEPT ![new] = made]
    BY <1>2
  <2> HIDE DEF new, made
  <2>5. QED
    BY <2>1, <2>2, <2>3, <2>4
<1>3. QED
  BY <1>1, <1>2 DEF SendLink

\* The scan's own steps keep the shapes.
LEMMA ScanShaped ==
    ASSUME Shaped, \/ StartScan \/ Shortlist \/ EndScan \/ ScanDies
                   \/ \E t \in Tickers : SubmitCandidate(t) \/ ProposeTicket(t) \/ SendLink(t)
    PROVE  Shaped'
<1>1. Scan \in Procs /\ Scan \notin Hands
  BY OriginAssumption DEF Procs
<1>2. proc[Scan] \in ProcType /\ ScanPart(proc[Scan]) /\ proc \in [Procs -> ProcType]
  BY <1>1 DEF Shaped, ProcsShaped
<1>3. CASE StartScan
  <2>1. PICK mode \in {"ticket", "link", "submit"} :
          /\ mode = "link" => account = "confirm"
          /\ proc' = [proc EXCEPT ![Scan] = [IdleProc EXCEPT !.pc = "shortlist", !.mode = mode]]
    <3>1. PICK approval \in Approval[account] :
            proc' = [proc EXCEPT ![Scan] =
              [IdleProc EXCEPT !.pc = "shortlist",
                               !.mode = IF approval THEN "ticket"
                                        ELSE IF account = "confirm" THEN "link" ELSE "submit"]]
      BY <1>3 DEF StartScan
    <3>2. QED
      BY <3>1
  <2> DEFINE r == [IdleProc EXCEPT !.pc = "shortlist", !.mode = mode]
  <2>2. r \in ProcType /\ ScanPart(r) /\ r.pc \notin Written
    <3>1. /\ r \in ProcType /\ r.pc = "shortlist" /\ r.mode = mode
          /\ r.origin = Nobody /\ r.todo = {}
      BY <2>1, IdleIsTyped DEF ProcType, Pcs, Modes
    <3>2. QED
      BY <2>1, <3>1 DEF ScanPart, Submitting, Written
  <2>3. StoresShaped'
    BY <1>3, <1>1 DEF StartScan, Shaped, StoresShaped
  <2> HIDE DEF r
  <2>4. QED
    BY <1>1, <1>3, <2>1, <2>2, <2>3, OutsideShaped DEF StartScan, r
<1>4. CASE Shortlist
  <2>1. PICK found \in SUBSET Tickers :
          proc' = [proc EXCEPT ![Scan].pc = "choose", ![Scan].todo = found]
    BY <1>4 DEF Shortlist
  <2> DEFINE r == [proc[Scan] EXCEPT !.pc = "choose", !.todo = found]
  <2>2. /\ r \in ProcType /\ r.pc = "choose" /\ r.origin = proc[Scan].origin
        /\ r.todo = found /\ r.mode = proc[Scan].mode
    BY <1>2, <2>1 DEF ProcType, Pcs
  <2>3. proc' = [proc EXCEPT ![Scan] = r]
    BY <1>1, <1>2, <2>1
  <2>4. ScanPart(r)
    BY <1>2, <2>2 DEF ScanPart, Submitting
  <2>5. StoresShaped'
    BY <1>4 DEF Shortlist, Shaped, StoresShaped
  <2> HIDE DEF r
  <2>6. QED
    BY <1>1, <1>4, <2>2, <2>3, <2>4, <2>5, OutsideShaped DEF Shortlist, Written
<1>5. CASE EndScan \/ ScanDies
  <2>1. proc' = [proc EXCEPT ![Scan] = IdleProc] /\ UNCHANGED <<account, records>>
    BY <1>5 DEF EndScan, ScanDies
  <2>2. StoresShaped'
    BY <1>5, CostAssumption DEF EndScan, ScanDies, Fault, Unlocked, Shaped, StoresShaped
  <2>3. QED
    BY <1>1, <2>1, <2>2, IdleIsTyped, OutsideShaped DEF Written
<1>6. ASSUME NEW t \in Tickers, SubmitCandidate(t) \/ ProposeTicket(t) \/ SendLink(t)
      PROVE  Shaped'
  <2>1. PICK r : /\ proc' = [proc EXCEPT ![Scan] = r]
                 /\ r \in ProcType /\ r.pc \in {"choose", "persist"} /\ ScanPart(r)
    <3>1. CASE SubmitCandidate(t)
      <4> DEFINE r == [proc[Scan] EXCEPT !.pc = "persist", !.ticker = t, !.origin = Scan,
                                         !.todo = proc[Scan].todo \ {t}]
      <4>1. /\ r \in ProcType /\ r.pc = "persist" /\ r.origin = Scan /\ r.ticker = t
            /\ r.todo = proc[Scan].todo \ {t} /\ r.mode = proc[Scan].mode
        BY <1>2 DEF ProcType, Pcs, Origins
      <4>2. proc' = [proc EXCEPT ![Scan] = r]
        BY <1>1, <1>2, <3>1 DEF SubmitCandidate
      <4>3. ScanPart(r)
        BY <1>2, <4>1 DEF ScanPart, Submitting
      <4> HIDE DEF r
      <4>4. QED
        BY <4>1, <4>2, <4>3
    <3>2. CASE ProposeTicket(t) \/ SendLink(t)
      <4> DEFINE r == [proc[Scan] EXCEPT !.todo = proc[Scan].todo \ {t}]
      <4>1. proc[Scan].pc = "choose" /\ Done(t)
        BY <3>2 DEF ProposeTicket, SendLink, Chosen
      <4>2. /\ r \in ProcType /\ r.pc = "choose" /\ r.origin = proc[Scan].origin
            /\ r.todo = proc[Scan].todo \ {t} /\ r.mode = proc[Scan].mode
        BY <1>2, <4>1 DEF ProcType
      <4>3. proc' = [proc EXCEPT ![Scan] = r]
        BY <1>1, <1>2, <4>1 DEF Done
      <4>4. ScanPart(r)
        BY <1>2, <4>2 DEF ScanPart, Submitting
      <4> HIDE DEF r
      <4>5. QED
        BY <4>2, <4>3, <4>4
    <3>3. QED
      BY <1>6, <3>1, <3>2
  <2>2. StoresShaped'
    <3>1. CASE SubmitCandidate(t)
      BY <3>1 DEF SubmitCandidate, Shaped, StoresShaped
    <3>2. CASE ProposeTicket(t)
      <4>1. tickets' \in [TicketIds -> Tickets \union {NoTicket}]
        BY <3>2, Proposing
      <4>2. QED
        BY <3>2, <4>1 DEF ProposeTicket, Shaped, StoresShaped
    <3>3. CASE SendLink(t)
      <4>1. links' \in [LinkIds -> Links \union {NoLink}]
        BY <3>3, LinkSending
      <4>2. account # "live"
        BY <3>3, <1>2 DEF SendLink, ScanPart
      <4>3. QED
        BY <3>3, <4>1, <4>2 DEF SendLink, Shaped, StoresShaped
    <3>4. QED
      BY <1>6, <3>1, <3>2, <3>3
  <2>3. UNCHANGED <<account, records>>
    BY <1>6 DEF SubmitCandidate, ProposeTicket, SendLink
  <2>4. QED
    BY <1>1, <2>1, <2>2, <2>3, OutsideShaped DEF Written
<1>7. QED
  BY <1>3, <1>4, <1>5, <1>6

\* So does a ticket that lapses or is declined.
LEMMA TicketShaped ==
    ASSUME Shaped, NEW id \in TicketIds, Expire(id) \/ Decline(id)
    PROVE  Shaped'
<1>1. tickets' \in [TicketIds -> Tickets \union {NoTicket}]
  BY TicketSet DEF Expire, Decline, Is, TicketStatuses, Shaped, StoresShaped
<1>2. StoresShaped' /\ UNCHANGED <<account, proc, records>>
  BY <1>1 DEF Expire, Decline, Shaped, StoresShaped
<1>3. QED
  BY <1>2, ElsewhereShaped, Keeping

\* A request goes on to a step outside of its submission, or ends.
LEMMA HandGoes ==
    ASSUME Shaped, StoresShaped', UNCHANGED <<account, records>>, NEW h \in Hands, NEW pc \in Pcs,
           Go(h, pc), pc \notin Written,
           \/ pc = "dead"
           \/ proc[h].origin \in TicketIds /\ pc \in {"recheck", "persist"} /\ proc[h].ticker \in Tickers
    PROVE  Shaped'
<1> DEFINE r == [proc[h] EXCEPT !.pc = pc]
<1>1. proc[h] \in ProcType /\ HandPart(proc[h]) /\ h \in Procs /\ h # Scan
  BY OriginAssumption DEF Shaped, ProcsShaped, Procs
<1>2. /\ r \in ProcType /\ r.pc = pc /\ r.origin = proc[h].origin
      /\ r.ticker = proc[h].ticker /\ r.todo = proc[h].todo
  BY <1>1, GoesOn
<1>3. proc' = [proc EXCEPT ![h] = r]
  BY DEF Go, Shaped, ProcsShaped
<1> HIDE DEF r
<1>4. HandPart(r)
  BY <1>1, <1>2 DEF HandPart, Submitting, Written
<1>5. QED
  BY <1>1, <1>2, <1>3, <1>4, OutsideShaped

\* The ticket a request works on is a ticket.
Ticketed ==
    \A h \in Hands : Active(h) /\ proc[h].origin \in TicketIds => tickets[proc[h].origin] # NoTicket

\* The requests' own steps keep the shapes.
LEMMA HandShaped ==
    ASSUME Shaped, Ticketed, NEW h \in Hands,
           \/ TakeLock(h) \/ GiveBack(h) \/ RecheckPasses(h) \/ RecheckFails(h)
           \/ Settle(h) \/ ApprovalRaises(h) \/ HandDies(h)
           \/ (\E id \in TicketIds : Claim(h, id))
           \/ (\E l \in LinkIds : Press(h, l))
    PROVE  Shaped'
<1>1. h \in Procs /\ h # Scan
  BY OriginAssumption DEF Procs
<1>2. proc[h] \in ProcType /\ HandPart(proc[h]) /\ proc \in [Procs -> ProcType]
  BY <1>1 DEF Shaped, ProcsShaped
<1>3. CASE TakeLock(h) \/ RecheckPasses(h) \/ HandDies(h)
  <2>1. StoresShaped' /\ UNCHANGED <<account, records>>
    BY <1>1, <1>3, CostAssumption
    DEF TakeLock, RecheckPasses, HandDies, Fault, Unlocked, Shaped, StoresShaped
  <2>2. CASE TakeLock(h)
    BY <1>2, <2>1, <2>2, HandGoes DEF TakeLock, HandPart, Pcs, Written
  <2>3. CASE RecheckPasses(h)
    BY <1>2, <2>1, <2>3, HandGoes DEF RecheckPasses, HandPart, Pcs, Written
  <2>4. CASE HandDies(h)
    BY <1>2, <2>1, <2>4, HandGoes DEF HandDies, Pcs, Written
  <2>5. QED
    BY <1>3, <2>2, <2>3, <2>4
<1>4. CASE GiveBack(h) \/ RecheckFails(h) \/ Settle(h) \/ ApprovalRaises(h)
  <2>1. PICK status \in TicketStatuses : tickets' = SetStatus(proc[h].origin, status)
    BY <1>4 DEF GiveBack, RecheckFails, Settle, ApprovalRaises, TicketStatuses
  <2>2. proc[h].origin \in TicketIds /\ Active(h)
    BY <1>2, <1>4 DEF GiveBack, RecheckFails, Settle, ApprovalRaises, HandPart, Active
  <2>3. tickets' \in [TicketIds -> Tickets \union {NoTicket}]
    BY <2>1, <2>2, TicketSet DEF Shaped, StoresShaped, Ticketed
  <2>4. StoresShaped' /\ UNCHANGED <<account, records>>
    BY <1>4, <2>3, CostAssumption
    DEF GiveBack, RecheckFails, Settle, ApprovalRaises, Fault, Unlocked, Shaped, StoresShaped
  <2>5. proc' = [proc EXCEPT ![h] = IdleProc]
    BY <1>4 DEF GiveBack, RecheckFails, Settle, ApprovalRaises
  <2>6. QED
    BY <1>1, <2>4, <2>5, IdleIsTyped, OutsideShaped DEF Written
<1>5. ASSUME NEW id \in TicketIds, Claim(h, id)
      PROVE  Shaped'
  <2>1. tickets[id] # NoTicket /\ tickets[id] \in Tickets
    BY <1>5 DEF Claim, MayClaim, Is, Shaped, StoresShaped
  <2>2. tickets' \in [TicketIds -> Tickets \union {NoTicket}]
    BY <1>5, <2>1, TicketSet DEF Claim, TicketStatuses, Shaped, StoresShaped
  <2>3. StoresShaped' /\ UNCHANGED <<account, records>>
    BY <1>5, <2>2 DEF Claim, Shaped, StoresShaped
  <2> DEFINE r == [IdleProc EXCEPT !.pc = "lock", !.origin = id, !.ticker = tickets[id].ticker]
  <2>4. r \in ProcType /\ r.pc = "lock" /\ r.origin = id /\ r.ticker \in Tickers /\ r.todo = {}
    BY <2>1, IdleIsTyped DEF ProcType, Pcs, Origins, Tickets
  <2>5. HandPart(r)
    BY <2>4, OriginAssumption DEF HandPart, Submitting
  <2>6. proc' = [proc EXCEPT ![h] = r]
    BY <1>5 DEF Claim
  <2> HIDE DEF r
  <2>7. QED
    BY <1>1, <2>3, <2>4, <2>5, <2>6, OutsideShaped DEF Written
<1>6. ASSUME NEW l \in LinkIds, Press(h, l)
      PROVE  Shaped'
  <2>1. links[l] # NoLink /\ links[l] \in Links
    BY <1>6 DEF Press, Shaped, StoresShaped
  <2>2. account # "live"
    BY <2>1 DEF Shaped, StoresShaped
  <2>3. links' \in [LinkIds -> Links \union {NoLink}]
    <3> DEFINE k == [links[l] EXCEPT !.used = TRUE]
    <3>1. k \in Links
      BY <2>1 DEF Links
    <3>2. links' = [links EXCEPT ![l] = k]
      BY <1>6 DEF Press
    <3> HIDE DEF k
    <3>3. QED
      BY <3>1, <3>2 DEF Shaped, StoresShaped
  <2>4. StoresShaped' /\ UNCHANGED <<account, records>>
    BY <1>6, <2>2, <2>3 DEF Press, Shaped, StoresShaped
  <2>5. CASE UNCHANGED proc
    BY <2>4, <2>5, ElsewhereShaped, Keeping
  <2> DEFINE r == [IdleProc EXCEPT !.pc = "persist", !.origin = l, !.ticker = links[l].ticker]
  <2>6. CASE proc' = [proc EXCEPT ![h] = r]
    <3>1. r \in ProcType /\ r.pc = "persist" /\ r.origin = l /\ r.ticker \in Tickers /\ r.todo = {}
      BY <2>1, IdleIsTyped DEF ProcType, Pcs, Origins, Links
    <3>2. HandPart(r)
      BY <2>2, <3>1 DEF HandPart, Submitting
    <3> HIDE DEF r
    <3>3. QED
      BY <1>1, <2>4, <2>6, <3>1, <3>2, OutsideShaped DEF Written
  <2>7. QED
    BY <1>6, <2>5, <2>6 DEF Press
<1>7. QED
  BY <1>3, <1>4, <1>5, <1>6

\* A monitor pass moves a record on, never to the unknown state, and never one
\* whose order the broker does not show, unless it was confirmed before.
LEMMA Monitoring ==
    ASSUME Shaped, NEW i \in DOMAIN records, Monitor(i)
    PROVE  \E state \in AllStates :
             /\ Rewritten(i, state)
             /\ records[i].state \in {Submitted, Unknown, Confirmed}
             /\ state \in {Submitted, Confirmed, Failed, Closed}
             /\ order[records[i].ticker] = "inflight" => records[i].state = Confirmed
<1>1. PICK state :
        /\ records' = [records EXCEPT ![i].state = state]
        /\ state # records[i].state
        /\ state \in CASE records[i].state = Submitted -> {FollowsOrder(records[i].ticker, Submitted)}
                      [] records[i].state = Unknown ->
                            IF order[records[i].ticker] = "none" THEN {Failed}
                            ELSE {FollowsOrder(records[i].ticker, Unknown)}
                      [] records[i].state = Confirmed -> {Closed}
                      [] OTHER -> {}
  BY DEF Monitor
<1>2. records[i] \in EntryRecords /\ records \in Seq(EntryRecords)
  BY ElementOfSeq DEF Shaped, StoresShaped
<1>3. /\ records[i].state \in {Submitted, Unknown, Confirmed}
      /\ state \in {Submitted, Confirmed, Failed, Closed}
      /\ order[records[i].ticker] = "inflight" => records[i].state = Confirmed
  BY <1>1, StatesDiffer DEF FollowsOrder
<1>4. state \in AllStates
  BY <1>3, StatesDiffer
<1>5. records' = [records EXCEPT ![i] = [records[i] EXCEPT !.state = state, !.placed = records[i].placed]]
  BY <1>1, <1>2 DEF EntryRecords
<1>6. Rewritten(i, state)
  BY <1>2, <1>4, <1>5, Rewriting DEF EntryRecords
<1>7. QED
  BY <1>3, <1>4, <1>6

---------------------------------------------------------------------------
(* One decision, one submission.                                           *)

Decisions == TicketIds \union LinkIds
Early == {"lock", "recheck", "persist"}
Unrecorded(id) == \A i \in DOMAIN records : records[i].origin # id

\* No request has been made of a ticket that awaits its approval, nor of a
\* link that was not pressed.
Undecided(id) ==
    IF id \in TicketIds THEN tickets[id] = NoTicket \/ tickets[id].status = "awaiting"
    ELSE links[id] = NoLink \/ ~links[id].used

Deciding ==
    /\ Ticketed
    /\ \A id \in Decisions : Undecided(id) =>
          Unrecorded(id) /\ \A h \in Hands : Active(h) => proc[h].origin # id
    /\ \A g, h \in Hands : Active(g) /\ Active(h) /\ proc[g].origin = proc[h].origin => g = h
    /\ \A h \in Hands : proc[h].pc \in Early => Unrecorded(proc[h].origin)
    /\ \A i, j \in DOMAIN records :
          records[i].origin \in Decisions /\ records[i].origin = records[j].origin => i = j

\* No record is new, and nothing is undecided again.
SameOrigins ==
    /\ DOMAIN records' = DOMAIN records
    /\ \A i \in DOMAIN records : records'[i].origin = records[i].origin
TicketsRemain == \A id \in TicketIds : tickets[id] # NoTicket => tickets'[id] # NoTicket
NoneUndone == TicketsRemain /\ \A id \in Decisions : Undecided(id)' => Undecided(id)

\* No record is new when none is written or one is rewritten.
LEMMA SameOriginsWhen ==
    /\ UNCHANGED records => SameOrigins
    /\ \A i, state : Shaped /\ Rewritten(i, state) => SameOrigins
<1>1. UNCHANGED records => SameOrigins
  BY DEF SameOrigins
<1>2. ASSUME NEW i, NEW state, Shaped, Rewritten(i, state) PROVE SameOrigins
  <2>1. DOMAIN records = 1 .. Len(records) /\ DOMAIN records' = 1 .. Len(records')
    BY <1>2, LenProperties DEF Rewritten, Shaped, StoresShaped
  <2>2. QED
    BY <1>2, <2>1 DEF Rewritten, SameOrigins
<1>3. QED
  BY <1>1, <1>2

\* Nothing is undecided again while tickets and links stay.
LEMMA NoneUndoneWhen == UNCHANGED <<tickets, links>> => NoneUndone
BY DEF NoneUndone, TicketsRemain, Undecided

\* A step that decides nothing and submits nothing.
LEMMA DecidingStays ==
    ASSUME Deciding, SameOrigins, NoneUndone, NEW p \in Procs,
           \A q \in Procs \ {p} : proc'[q] = proc[q],
           p \in Hands /\ Active(p)' =>
              /\ Active(p) /\ proc'[p].origin = proc[p].origin
              /\ proc'[p].pc \in Early => proc[p].pc \in Early
    PROVE  Deciding'
<1>1. \A h \in Hands : Active(h)' =>
        /\ Active(h) /\ proc'[h].origin = proc[h].origin
        /\ proc'[h].pc \in Early => proc[h].pc \in Early
  BY DEF Procs, Active
<1>2. \A id : Unrecorded(id) => Unrecorded(id)'
  BY DEF Unrecorded, SameOrigins
<1>3. Ticketed'
  BY <1>1 DEF Deciding, Ticketed, NoneUndone, TicketsRemain
<1>4. \A id \in Decisions : Undecided(id)' =>
        Unrecorded(id)' /\ \A h \in Hands : Active(h)' => proc'[h].origin # id
  BY <1>1, <1>2 DEF Deciding, NoneUndone
<1>5. \A g, h \in Hands : Active(g)' /\ Active(h)' /\ proc'[g].origin = proc'[h].origin => g = h
  BY <1>1 DEF Deciding
<1>6. \A h \in Hands : proc'[h].pc \in Early => Unrecorded(proc[h].origin)'
  <2>1. \A h \in Hands : proc'[h].pc \in Early => Active(h)'
    BY DEF Early, Active
  <2>2. QED
    BY <1>1, <1>2, <2>1 DEF Deciding
<1>7. \A i, j \in DOMAIN records' :
        records'[i].origin \in Decisions /\ records'[i].origin = records'[j].origin => i = j
  BY DEF Deciding, SameOrigins
<1>8. QED
  BY <1>3, <1>4, <1>5, <1>6, <1>7 DEF Deciding

\* A request takes up a decision that no request was made of.
LEMMA DecisionTaken ==
    ASSUME Deciding, SameOrigins, NEW h \in Hands, NEW id \in Decisions,
           Undecided(id), ~Undecided(id)', id \in TicketIds => tickets'[id] # NoTicket, NoneUndone,
           \A q \in Procs \ {h} : proc'[q] = proc[q], proc'[h].origin = id
    PROVE  Deciding'
<1>1. \A g \in Hands \ {h} : proc'[g] = proc[g] /\ (Active(g)' <=> Active(g))
  BY DEF Procs, Active
<1>2. \A d : Unrecorded(d) => Unrecorded(d)'
  BY DEF Unrecorded, SameOrigins
<1>3. Unrecorded(id) /\ \A g \in Hands : Active(g) => proc[g].origin # id
  BY DEF Deciding
<1>4. Ticketed'
  BY <1>1 DEF Deciding, Ticketed, NoneUndone, TicketsRemain
<1>5. \A d \in Decisions : Undecided(d)' =>
        Unrecorded(d)' /\ \A g \in Hands : Active(g)' => proc'[g].origin # d
  BY <1>1, <1>2 DEF Deciding, NoneUndone
<1>6. \A f, g \in Hands : Active(f)' /\ Active(g)' /\ proc'[f].origin = proc'[g].origin => f = g
  BY <1>1, <1>3 DEF Deciding
<1>7. \A g \in Hands : proc'[g].pc \in Early => Unrecorded(proc[g].origin)'
  <2>1. \A g \in Hands \ {h} : proc'[g].pc \in Early => Unrecorded(proc[g].origin)'
    BY <1>1, <1>2 DEF Deciding
  <2>2. Unrecorded(proc[h].origin)'
    BY <1>2, <1>3
  <2>3. QED
    BY <2>1, <2>2
<1>8. \A i, j \in DOMAIN records' :
        records'[i].origin \in Decisions /\ records'[i].origin = records'[j].origin => i = j
  BY DEF Deciding, SameOrigins
<1>9. QED
  BY <1>4, <1>5, <1>6, <1>7, <1>8 DEF Deciding

\* A submission is recorded for a decision that had no record.
LEMMA SubmissionDecides ==
    ASSUME Shaped, Deciding, NEW p \in Procs, Submission(p)
    PROVE  Deciding'
<1>1. proc \in [Procs -> ProcType] /\ proc[p] \in ProcType
  BY DEF Shaped, ProcsShaped
<1>2. CASE PersistEntry(p)
  <2>1. Appended(p)
    BY <1>2, Appending
  <2>2. /\ DOMAIN records = 1 .. Len(records) /\ DOMAIN records' = 1 .. Len(records) + 1
        /\ Len(records) \in Nat
    BY <2>1, LenProperties DEF Appended, Shaped, StoresShaped
  <2> DEFINE n == Len(records) + 1
  <2>3. /\ \A i \in DOMAIN records : records'[i].origin = records[i].origin
        /\ records'[n].origin = proc[p].origin
        /\ DOMAIN records' = DOMAIN records \union {n}
    BY <2>1, <2>2 DEF Appended
  <2>4. /\ \A q \in Procs \ {p} : proc'[q] = proc[q]
        /\ proc'[p].pc \in {"reserve", "send"} /\ proc'[p].origin = proc[p].origin
        /\ proc[p].pc = "persist" /\ UNCHANGED <<tickets, links>>
    BY <1>1, <1>2 DEF PersistEntry, ProcType
  <2>5. p \in Hands => Active(p) /\ Unrecorded(proc[p].origin)
    BY <2>4 DEF Deciding, Early, Active
  <2>6. p = Scan => proc[p].origin \notin Decisions
    BY <2>4, OriginAssumption DEF Shaped, ProcsShaped, ScanPart, Submitting, Decisions
  <2>7. \A h \in Hands : proc'[h].origin = proc[h].origin /\ (Active(h)' <=> Active(h))
    BY <2>4 DEF Active, Procs
  <2>8. \A id : Unrecorded(id)' <=> Unrecorded(id) /\ id # proc[p].origin
    BY <2>3 DEF Unrecorded
  <2>9. Ticketed'
    BY <2>4, <2>7 DEF Deciding, Ticketed
  <2>10. \A id \in Decisions : Undecided(id)' =>
           Unrecorded(id)' /\ \A h \in Hands : Active(h)' => proc'[h].origin # id
    <3>1. \A id : Undecided(id)' <=> Undecided(id)
      BY <2>4 DEF Undecided
    <3>2. QED
      BY <2>5, <2>6, <2>7, <2>8, <3>1 DEF Deciding, Procs
  <2>11. \A g, h \in Hands : Active(g)' /\ Active(h)' /\ proc'[g].origin = proc'[h].origin => g = h
    BY <2>7 DEF Deciding
  <2>12. \A h \in Hands : proc'[h].pc \in Early => Unrecorded(proc[h].origin)'
    <3>1. ASSUME NEW h \in Hands, proc'[h].pc \in Early PROVE Unrecorded(proc[h].origin)'
      <4>1. h # p
        BY <2>4, <3>1 DEF Early
      <4>2. proc'[h] = proc[h] /\ proc[h].pc \in Early /\ Active(h)
        BY <2>4, <3>1, <4>1 DEF Procs, Early, Active
      <4>3. Unrecorded(proc[h].origin)
        BY <4>2 DEF Deciding
      <4>4. proc[h].origin # proc[p].origin
        <5>1. CASE p \in Hands
          BY <2>5, <4>1, <4>2, <5>1 DEF Deciding
        <5>2. CASE p = Scan
          <6>1. proc[h].origin \in Decisions
            BY <4>2 DEF Shaped, ProcsShaped, HandPart, Early, Submitting, Decisions
          <6>2. QED
            BY <2>6, <5>2, <6>1
        <5>3. QED
          BY <5>1, <5>2 DEF Procs
      <4>5. \A i \in DOMAIN records' : records'[i].origin # proc[h].origin
        BY <2>3, <4>3, <4>4 DEF Unrecorded
      <4>6. QED
        BY <4>2, <4>5 DEF Unrecorded
    <3>2. QED
      BY <3>1
  <2>13. \A i, j \in DOMAIN records' :
           records'[i].origin \in Decisions /\ records'[i].origin = records'[j].origin => i = j
    <3>1. proc[p].origin \in Decisions => Unrecorded(proc[p].origin)
      BY <2>5, <2>6 DEF Procs
    <3> HIDE DEF n
    <3>2. QED
      BY <2>3, <3>1 DEF Deciding, Unrecorded
  <2>14. QED
    BY <2>9, <2>10, <2>11, <2>12, <2>13 DEF Deciding
<1>3. CASE PersistFails(p) \/ Reserve(p) \/ Send(p) \/ RecordEntry(p)
  <2>1. SameOrigins
    <3>1. CASE RecordEntry(p)
      BY <3>1, Recording, SameOriginsWhen
    <3>2. CASE UNCHANGED records
      BY <3>2, SameOriginsWhen
    <3>3. QED
      BY <1>3, <3>1, <3>2 DEF PersistFails, Reserve, Send
  <2>2. NoneUndone
    BY <1>3, NoneUndoneWhen DEF PersistFails, Reserve, Send, RecordEntry
  <2>3. proc[p].pc \in Submitting /\ Active(p)
    BY <1>3 DEF PersistFails, Reserve, Send, RecordEntry, Submitting, Active
  <2>4. /\ \A q \in Procs \ {p} : proc'[q] = proc[q]
        /\ p \in Hands /\ Active(p)' =>
              proc'[p].origin = proc[p].origin /\ proc'[p].pc \notin Early
    <3>1. CASE PersistFails(p) \/ RecordEntry(p)
      <4>1. PICK reply : proc' = [proc EXCEPT ![p] = Returned(p, reply)]
        BY <3>1 DEF PersistFails, RecordEntry
      <4>2. proc'[p] = Returned(p, reply) /\ \A q \in Procs \ {p} : proc'[q] = proc[q]
        BY <1>1, <4>1
      <4>3. p \in Hands => \/ proc'[p].pc = "settle" /\ proc'[p].origin = proc[p].origin
                           \/ proc'[p].pc = "idle"
        BY <2>3, <4>2, Returns, IdleIsTyped
      <4>4. QED
        BY <4>2, <4>3 DEF Active, Early
    <3>2. CASE Reserve(p) \/ Send(p)
      <4>1. /\ \A q \in Procs \ {p} : proc'[q] = proc[q]
            /\ proc'[p].pc \in {"send", "record"} /\ proc'[p].origin = proc[p].origin
        <5>1. CASE Reserve(p)
          BY <1>1, <5>1 DEF Reserve, ProcType
        <5>2. CASE Send(p)
          BY <1>1, <5>2 DEF Send, ProcType
        <5>3. QED
          BY <3>2, <5>1, <5>2
      <4>2. QED
        BY <4>1 DEF Early
    <3>3. QED
      BY <1>3, <3>1, <3>2
  <2>5. QED
    BY <2>1, <2>2, <2>3, <2>4, DecidingStays
<1>4. QED
  BY <1>2, <1>3 DEF Submission

\* What the scan proposes or sends was never decided before.
LEMMA ScanDecides ==
    ASSUME Shaped, Deciding,
           \/ StartScan \/ Shortlist \/ EndScan \/ ScanDies
           \/ \E t \in Tickers : SubmitCandidate(t) \/ ProposeTicket(t) \/ SendLink(t)
    PROVE  Deciding'
<1>1. Scan \in Procs /\ Scan \notin Hands
  BY OriginAssumption DEF Procs
<1>2. UNCHANGED records /\ \A q \in Procs \ {Scan} : proc'[q] = proc[q]
  BY DEF StartScan, Shortlist, EndScan, ScanDies, SubmitCandidate, ProposeTicket, SendLink, Done,
         Shaped, ProcsShaped
<1>3. NoneUndone
  <2>1. CASE UNCHANGED <<tickets, links>>
    BY <2>1, NoneUndoneWhen
  <2>2. ASSUME NEW t \in Tickers, ProposeTicket(t) PROVE NoneUndone
    <3>1. UNCHANGED links
      BY <2>2 DEF ProposeTicket
    <3>2. \A id \in TicketIds :
            \/ tickets'[id] = tickets[id]
            \/ tickets[id] = NoTicket /\ tickets'[id].status = "awaiting"
            \/ tickets[id] # NoTicket /\ tickets'[id] # NoTicket /\ tickets'[id].status = "lapsed"
      BY <2>2, Proposing
    <3>3. TicketsRemain
      BY <3>2 DEF TicketsRemain
    <3>4. \A id \in Decisions : Undecided(id)' => Undecided(id)
      BY <3>1, <3>2 DEF Undecided
    <3>5. QED
      BY <3>3, <3>4 DEF NoneUndone
  <2>3. ASSUME NEW t \in Tickers, SendLink(t) PROVE NoneUndone
    <3>1. UNCHANGED tickets
      BY <2>3 DEF SendLink
    <3>2. \A l \in LinkIds : links'[l] = links[l] \/ links[l] = NoLink
      BY <2>3, LinkSending
    <3>3. QED
      BY <3>1, <3>2 DEF NoneUndone, TicketsRemain, Undecided, Decisions
  <2>4. QED
    BY <2>1, <2>2, <2>3 DEF StartScan, Shortlist, EndScan, ScanDies, SubmitCandidate
<1>4. QED
  BY <1>1, <1>2, <1>3, SameOriginsWhen, DecidingStays

\* A ticket that lapses or is declined is no longer open to approval.
LEMMA TicketDecides ==
    ASSUME Shaped, Deciding, NEW id \in TicketIds, Expire(id) \/ Decline(id)
    PROVE  Deciding'
<1>1. /\ UNCHANGED <<records, proc, links>> /\ tickets[id] # NoTicket
      /\ tickets'[id] # NoTicket /\ tickets'[id].status # "awaiting"
      /\ \A other \in TicketIds \ {id} : tickets'[other] = tickets[other]
  BY TicketSet DEF Expire, Decline, Is, TicketStatuses, Shaped, StoresShaped
<1>2. NoneUndone
  BY <1>1 DEF NoneUndone, TicketsRemain, Undecided
<1>3. QED
  BY <1>1, <1>2, SameOriginsWhen, DecidingStays, OriginAssumption DEF Procs

\* A monitor pass decides nothing.
LEMMA MonitorDecides ==
    ASSUME Shaped, Deciding, NEW i \in DOMAIN records, Monitor(i)
    PROVE  Deciding'
<1>1. UNCHANGED <<proc, tickets, links>> /\ SameOrigins
  BY Monitoring, SameOriginsWhen DEF Monitor
<1>2. QED
  BY <1>1, NoneUndoneWhen, DecidingStays, OriginAssumption DEF Procs

\* A ticket is claimed once until it is given back, which only a request does that
\* has not submitted; a link is pressed once.
LEMMA HandDecides ==
    ASSUME Shaped, Deciding, NEW h \in Hands,
           \/ TakeLock(h) \/ GiveBack(h) \/ RecheckPasses(h) \/ RecheckFails(h)
           \/ Settle(h) \/ ApprovalRaises(h) \/ HandDies(h)
           \/ (\E id \in TicketIds : Claim(h, id))
           \/ (\E l \in LinkIds : Press(h, l))
    PROVE  Deciding'
<1>1. h \in Procs /\ h # Scan /\ proc[h] \in ProcType /\ HandPart(proc[h]) /\ proc \in [Procs -> ProcType]
  BY OriginAssumption DEF Shaped, ProcsShaped, Procs
<1>2. UNCHANGED records /\ SameOrigins /\ \A q \in Procs \ {h} : proc'[q] = proc[q]
  BY <1>1, SameOriginsWhen
  DEF TakeLock, GiveBack, RecheckPasses, RecheckFails, Settle, ApprovalRaises, HandDies, Claim,
      Press, Go
<1>3. CASE TakeLock(h) \/ RecheckPasses(h) \/ HandDies(h)
  <2>1. NoneUndone
    BY <1>3, NoneUndoneWhen DEF TakeLock, RecheckPasses, HandDies
  <2>2. Active(h)' => /\ Active(h) /\ proc'[h].origin = proc[h].origin
                      /\ proc'[h].pc \in Early => proc[h].pc \in Early
    BY <1>1, <1>3, GoesOn DEF TakeLock, RecheckPasses, HandDies, Go, Active, Early, ProcType
  <2>3. QED
    BY <1>1, <1>2, <2>1, <2>2, DecidingStays
<1>4. CASE GiveBack(h) \/ RecheckFails(h) \/ Settle(h) \/ ApprovalRaises(h)
  <2> DEFINE id == proc[h].origin
  <2>1. PICK status \in TicketStatuses :
          /\ tickets' = SetStatus(id, status)
          /\ status = "awaiting" => proc[h].pc \in Early
    BY <1>4 DEF GiveBack, RecheckFails, Settle, ApprovalRaises, TicketStatuses, Early
  <2>2. id \in TicketIds /\ Active(h) /\ tickets[id] # NoTicket
    BY <1>1, <1>4
    DEF GiveBack, RecheckFails, Settle, ApprovalRaises, HandPart, Active, Deciding, Ticketed
  <2>3. /\ tickets'[id] # NoTicket /\ tickets'[id].status = status
        /\ \A other \in TicketIds \ {id} : tickets'[other] = tickets[other]
    BY <2>1, <2>2, TicketSet DEF Shaped, StoresShaped
  <2>4. UNCHANGED links /\ proc'[h] = IdleProc
    BY <1>1, <1>4 DEF GiveBack, RecheckFails, Settle, ApprovalRaises
  <2>5. ~Active(h)' /\ proc'[h].pc \notin Early
    BY <2>4, IdleIsTyped DEF Active, Early
  <2>6. TicketsRemain
    BY <2>3 DEF TicketsRemain
  <2>7. \A d \in Decisions : Undecided(d)' => Undecided(d) \/ (d = id /\ status = "awaiting")
    BY <2>3, <2>4 DEF Undecided
  <2>8. CASE status # "awaiting"
    BY <1>1, <1>2, <2>5, <2>6, <2>7, <2>8, DecidingStays DEF NoneUndone
  <2>9. CASE status = "awaiting"
    <3>1. Unrecorded(id) /\ \A g \in Hands \ {h} : Active(g) => proc[g].origin # id
      BY <2>1, <2>2, <2>9 DEF Deciding
    <3>2. \A g \in Hands : Active(g)' => g # h /\ Active(g) /\ proc'[g] = proc[g]
      BY <1>2, <2>5 DEF Active, Procs
    <3>3. \A d : Unrecorded(d) => Unrecorded(d)'
      BY <1>2 DEF Unrecorded
    <3>4. Ticketed'
      BY <2>6, <3>2 DEF Deciding, Ticketed, TicketsRemain
    <3>5. \A d \in Decisions : Undecided(d)' =>
            Unrecorded(d)' /\ \A g \in Hands : Active(g)' => proc'[g].origin # d
      <4>1. ASSUME NEW d \in Decisions, Undecided(d)'
            PROVE  Unrecorded(d) /\ \A g \in Hands : Active(g)' => proc'[g].origin # d
        <5>1. CASE d = id
          BY <3>1, <3>2, <5>1
        <5>2. CASE d # id
          BY <2>7, <3>2, <4>1, <5>2 DEF Deciding
        <5>3. QED
          BY <5>1, <5>2
      <4>2. QED
        BY <3>3, <4>1
    <3>6. \A f, g \in Hands : Active(f)' /\ Active(g)' /\ proc'[f].origin = proc'[g].origin => f = g
      BY <3>2 DEF Deciding
    <3>7. \A g \in Hands : proc'[g].pc \in Early => Unrecorded(proc[g].origin)'
      <4>1. \A g \in Hands : proc'[g].pc \in Early => Active(g)'
        BY DEF Early, Active
      <4>2. QED
        BY <3>2, <3>3, <4>1 DEF Deciding
    <3>8. \A i, j \in DOMAIN records' :
            records'[i].origin \in Decisions /\ records'[i].origin = records'[j].origin => i = j
      BY <1>2 DEF Deciding
    <3>9. QED
      BY <3>4, <3>5, <3>6, <3>7, <3>8 DEF Deciding
  <2>10. QED
    BY <2>8, <2>9
<1>5. ASSUME NEW id \in TicketIds, Claim(h, id)
      PROVE  Deciding'
  <2>1. /\ tickets[id] # NoTicket /\ tickets[id].status = "awaiting" /\ UNCHANGED links
        /\ tickets' = SetStatus(id, "approved")
    BY <1>5 DEF Claim, MayClaim, Is
  <2>2. /\ tickets'[id] # NoTicket /\ tickets'[id].status = "approved"
        /\ \A other \in TicketIds \ {id} : tickets'[other] = tickets[other]
    BY <2>1, TicketSet DEF Shaped, StoresShaped, TicketStatuses
  <2>3. proc'[h].origin = id
    BY <1>1, <1>5 DEF Claim, IdleProc
  <2>4. Undecided(id) /\ ~Undecided(id)' /\ NoneUndone /\ id \in Decisions
    BY <2>1, <2>2 DEF Undecided, NoneUndone, TicketsRemain, Decisions
  <2>5. QED
    BY <1>2, <2>2, <2>3, <2>4, DecisionTaken
<1>6. ASSUME NEW l \in LinkIds, Press(h, l)
      PROVE  Deciding'
  <2>1. links[l] # NoLink /\ ~links[l].used /\ UNCHANGED tickets /\ l \notin TicketIds
    BY <1>6, OriginAssumption DEF Press
  <2>2. /\ links'[l].used /\ links'[l] # NoLink
        /\ \A other \in LinkIds \ {l} : links'[other] = links[other]
    <3> DEFINE k == [links[l] EXCEPT !.used = TRUE]
    <3>1. k \in Links /\ k.used
      BY <2>1 DEF Links, Shaped, StoresShaped
    <3>2. links' = [links EXCEPT ![l] = k] /\ links \in [LinkIds -> Links \union {NoLink}]
      BY <1>6 DEF Press, Shaped, StoresShaped
    <3> HIDE DEF k
    <3>3. QED
      BY <3>1, <3>2, NothingAssumption
  <2>3. Undecided(l) /\ ~Undecided(l)' /\ NoneUndone /\ l \in Decisions
    BY <2>1, <2>2 DEF Undecided, NoneUndone, TicketsRemain, Decisions
  <2>4. CASE UNCHANGED proc
    BY <1>1, <1>2, <2>3, <2>4, DecidingStays DEF Active
  <2>5. CASE ~UNCHANGED proc
    <3>1. proc'[h].origin = l
      <4> DEFINE r == [IdleProc EXCEPT !.pc = "persist", !.origin = l, !.ticker = links[l].ticker]
      <4>1. r.origin = l
        BY DEF IdleProc
      <4>2. proc' = [proc EXCEPT ![h] = r]
        BY <1>6, <2>5 DEF Press
      <4> HIDE DEF r
      <4>3. QED
        BY <1>1, <4>1, <4>2
    <3>2. QED
      BY <1>2, <2>1, <2>3, <3>1, DecisionTaken
  <2>6. QED
    BY <2>4, <2>5
<1>7. QED
  BY <1>3, <1>4, <1>5, <1>6

\* The first state is shaped, with nothing decided.
LEMMA GateInit == Init => Shaped /\ Deciding
<1> SUFFICES ASSUME Init PROVE Shaped /\ Deciding
  OBVIOUS
<1>1. \A h \in Hands : proc[h].pc = "idle"
  BY IdleIsTyped DEF Init, Procs
<1>2. DOMAIN records = {}
  BY DEF Init
<1>3. QED
  BY <1>1, <1>2, InitShaped DEF Deciding, Ticketed, Active, Unrecorded, Early

\* Every step keeps the shapes, and decisions apart.
LEMMA GateStep ==
    ASSUME Shaped, Deciding, [Next]_vars
    PROVE  Shaped' /\ Deciding'
<1>1. Ticketed /\ Scan \in Procs /\ Hands \subseteq Procs
  BY DEF Deciding, Procs
<1>2. CASE ScanStep
  BY <1>1, <1>2, SubmissionShaped, SubmissionDecides, ScanShaped, ScanDecides DEF ScanStep
<1>3. CASE ScanDies
  BY <1>3, ScanShaped, ScanDecides
<1>4. ASSUME NEW h \in Hands,
             \/ HandStep(h) \/ ApprovalRaises(h) \/ HandDies(h)
             \/ \E id \in TicketIds : Claim(h, id)
             \/ \E l \in LinkIds : Press(h, l)
      PROVE  Shaped' /\ Deciding'
  <2>1. CASE Submission(h)
    BY <1>1, <2>1, SubmissionShaped, SubmissionDecides
  <2>2. CASE ~Submission(h)
    BY <1>1, <1>4, <2>2, HandShaped, HandDecides DEF HandStep
  <2>3. QED
    BY <2>1, <2>2
<1>5. ASSUME NEW id \in TicketIds, Expire(id) \/ Decline(id)
      PROVE  Shaped' /\ Deciding'
  BY <1>5, TicketShaped, TicketDecides
<1>6. ASSUME NEW t \in Tickers, OrderMoves(t)
      PROVE  Shaped' /\ Deciding'
  <2>1. UNCHANGED <<account, lock, tickets, links, records, dollars, spent, proc, faults>>
    BY <1>6 DEF OrderMoves
  <2>2. order' \in [Tickers -> BrokerOrders]
    BY <1>6 DEF OrderMoves, Shaped, StoresShaped, BrokerOrders, Shown
  <2>3. Shaped'
    BY <2>1, <2>2, ElsewhereShaped, Keeping DEF Shaped, StoresShaped
  <2>4. Deciding'
    BY <1>1, <2>1, SameOriginsWhen, NoneUndoneWhen, DecidingStays DEF Active
  <2>5. QED
    BY <2>3, <2>4
<1>7. ASSUME NEW i \in DOMAIN records, Monitor(i)
      PROVE  Shaped' /\ Deciding'
  <2>1. UNCHANGED <<account, lock, tickets, links, order, dollars, spent, proc, faults>>
    BY <1>7 DEF Monitor
  <2>2. records' \in Seq(EntryRecords) /\ Len(records') = Len(records) /\ RecordsKept
    <3>1. PICK state \in AllStates : Rewritten(i, state)
      BY <1>7, Monitoring
    <3>2. RecordsKept
      BY <3>1, Keeping
    <3>3. QED
      BY <3>1, <3>2 DEF Rewritten
  <2>3. Shaped'
    BY <2>1, <2>2, ElsewhereShaped DEF Shaped, StoresShaped
  <2>4. QED
    BY <1>7, <2>3, MonitorDecides
<1>8. CASE UNCHANGED vars
  <2>1. Shaped'
    BY <1>8, ElsewhereShaped, Keeping DEF vars, Shaped, StoresShaped
  <2>2. Deciding'
    BY <1>1, <1>8, SameOriginsWhen, NoneUndoneWhen, DecidingStays DEF vars, Active
  <2>3. QED
    BY <2>1, <2>2
<1>9. QED
  BY <1>2, <1>3, <1>4, <1>5, <1>6, <1>7, <1>8 DEF Next

\* A subset of a sequence's places whose members are all the same has one at most.
LEMMA AtMostOne ==
    ASSUME NEW S, \A x, y \in S : x = y
    PROVE  IsFiniteSet(S) /\ Cardinality(S) <= 1
<1>1. CASE S = {}
  BY <1>1, FS_EmptySet
<1>2. CASE S # {}
  <2>1. PICK x : S = {x}
    BY <1>2
  <2>2. IsFiniteSet({x}) /\ Cardinality({x}) = 1
    BY FS_Singleton
  <2>3. QED
    BY <2>1, <2>2
<1>3. QED
  BY <1>1, <1>2

\* One decision of the user is one submission, for any tickets, links and
\* requests, after any deaths: a ticket is approved and a link burnt before the
\* request does anything (trade_tickets.py, confirm links), and only a request
\* that has written no record gives its ticket back.
THEOREM DecisionsAreSubmittedOnce == Spec => []OneSubmissionPerDecision
<1>1. Shaped /\ Deciding => OneSubmissionPerDecision
  <2>1. ASSUME Deciding, NEW id \in Decisions
        PROVE  Cardinality({i \in DOMAIN records : records[i].origin = id}) <= 1
    <3> DEFINE S == {i \in DOMAIN records : records[i].origin = id}
    <3>1. \A x, y \in S : x = y
      BY <2>1 DEF Deciding
    <3> HIDE DEF S
    <3>2. Cardinality(S) <= 1
      BY <3>1, AtMostOne
    <3>3. QED
      BY <3>2 DEF S
  <2>2. QED
    BY <2>1 DEF OneSubmissionPerDecision, Decisions
<1>2. QED
  BY <1>1, GateInit, GateStep, PTL DEF Spec

---------------------------------------------------------------------------
(* The lock: one open entry of a ticker, and none begun in doubt.          *)

\* Links take no lock, so what they enter is not counted.
Open(i) == records[i].state \notin TerminalStates /\ records[i].origin \notin LinkIds
Vacant(t) == \A i \in DOMAIN records : records[i].ticker = t => ~Open(i)
Doubtless ==
    \A i \in DOMAIN records : records[i].origin \notin LinkIds => records[i].state # Unknown
Sole ==
    \A i, j \in DOMAIN records :
        Open(i) /\ Open(j) /\ records[i].ticker = records[j].ticker => i = j

\* Whoever decides or submits under the lock has it; what it found out there
\* still holds when it uses it.
Guarded(p) == Active(p) /\ proc[p].pc # "lock" /\ proc[p].origin \notin LinkIds
Alone(p) == Guarded(p) =>
    /\ lock = p
    /\ proc[p].pc = "persist" => Vacant(proc[p].ticker)
    /\ \A t \in proc[p].todo : Vacant(t)
    /\ proc[p].pc \in Submitting \/ proc[p].todo # {} => Doubtless
    /\ proc[p].pc \in Written => records[proc[p].entry].state = Submitted
Locking == Sole /\ \A p \in Procs : Alone(p)

\* No record opens, and none becomes unknown.
Quiet ==
    \A j \in DOMAIN records' : Open(j)' =>
        j \in DOMAIN records /\ Open(j) /\ records'[j].ticker = records[j].ticker
NoNewDoubt ==
    \A j \in DOMAIN records' : records'[j].origin \notin LinkIds /\ records'[j].state = Unknown =>
        j \in DOMAIN records /\ records[j].origin \notin LinkIds /\ records[j].state = Unknown

\* What was vacant, alone or without doubt stays so when no record opens.
LEMMA QuietStep ==
    /\ Sole /\ Quiet => Sole'
    /\ Quiet => \A t : Vacant(t) => Vacant(t)'
    /\ NoNewDoubt /\ Doubtless => Doubtless'
<1>1. Sole /\ Quiet => Sole'
  BY DEF Sole, Quiet
<1>2. Quiet => \A t : Vacant(t) => Vacant(t)'
  BY DEF Vacant, Quiet
<1>3. NoNewDoubt /\ Doubtless => Doubtless'
  BY DEF NoNewDoubt, Doubtless
<1>4. QED
  BY <1>1, <1>2, <1>3

\* No record opens when none is written.
LEMMA QuietWhen == UNCHANGED records => Quiet /\ NoNewDoubt
BY DEF Quiet, NoNewDoubt, Open

\* What a process found out stays true while no record opens and it has the lock.
LEMMA AloneStays ==
    ASSUME NEW p \in Procs, Alone(p), Quiet, NoNewDoubt, proc'[p] = proc[p],
           Guarded(p) => lock' = p,
           Guarded(p) /\ proc[p].pc \in Written =>
              records'[proc[p].entry].state = records[proc[p].entry].state
    PROVE  Alone(p)'
<1>1. Guarded(p)' <=> Guarded(p)
  BY DEF Guarded, Active
<1>2. /\ \A t : Vacant(t) => Vacant(t)'
      /\ Doubtless => Doubtless'
  BY QuietStep
<1>3. SUFFICES ASSUME Guarded(p)
      PROVE  /\ lock' = p
             /\ proc'[p].pc = "persist" => Vacant(proc[p].ticker)'
             /\ \A t \in proc'[p].todo : Vacant(t)'
             /\ proc'[p].pc \in Submitting \/ proc'[p].todo # {} => Doubtless'
             /\ proc'[p].pc \in Written => records'[proc'[p].entry].state = Submitted
  BY <1>1 DEF Alone
<1>4. /\ proc[p].pc = "persist" => Vacant(proc[p].ticker)
      /\ \A t \in proc[p].todo : Vacant(t)
      /\ proc[p].pc \in Submitting \/ proc[p].todo # {} => Doubtless
      /\ proc[p].pc \in Written => records[proc[p].entry].state = Submitted
  BY <1>3 DEF Alone
<1>5. proc[p].pc = "persist" => Vacant(proc[p].ticker)'
  <2>1. Vacant(proc[p].ticker) => \A i \in DOMAIN records' : records'[i].ticker = proc[p].ticker => ~Open(i)'
    BY DEF Vacant, Quiet
  <2>2. QED
    BY <1>4, <2>1 DEF Vacant
<1>6. QED
  BY <1>2, <1>3, <1>4, <1>5

\* A step of one process that leaves the records alone.
LEMMA LockingStays ==
    ASSUME Locking, UNCHANGED records, NEW p \in Procs, \A q \in Procs \ {p} : proc'[q] = proc[q],
           lock' = lock \/ lock = Nobody \/ lock = p, Alone(p)'
    PROVE  Locking'
<1>1. Quiet /\ NoNewDoubt
  BY QuietWhen
<1>2. ASSUME NEW q \in Procs, q # p PROVE Alone(q)'
  <2>1. Alone(q) /\ proc'[q] = proc[q]
    BY <1>2 DEF Locking
  <2>2. Guarded(q) => lock' = q
    <3>1. Nobody \notin Procs
      BY OriginAssumption
    <3>2. QED
      BY <1>2, <2>1, <3>1 DEF Alone
  <2>3. QED
    BY <1>1, <2>1, <2>2, AloneStays
<1>3. QED
  BY <1>1, <1>2, QuietStep DEF Locking

\* A scan under way is always under the lock.
LEMMA ScanGuarded ==
    ASSUME Shaped PROVE Guarded(Scan) <=> proc[Scan].pc # "idle"
BY OriginAssumption DEF Shaped, ProcsShaped, ScanPart, Guarded, Active, Submitting, Origins

\* What the shortlist and the recheck look up is what the submission needs.
LEMMA Found ==
    ASSUME Shaped
    PROVE  /\ \A t : OpenRecords(t) = {} => Vacant(t)
           /\ ~InDoubt => Doubtless
BY DEF OpenRecords, Vacant, Open, InDoubt, Doubtless

\* The scan's own steps respect the lock.
LEMMA ScanLocks ==
    ASSUME Shaped, Locking,
           \/ StartScan \/ Shortlist \/ EndScan \/ ScanDies
           \/ \E t \in Tickers : SubmitCandidate(t) \/ ProposeTicket(t) \/ SendLink(t)
    PROVE  Locking'
<1>1. Scan \in Procs /\ proc[Scan] \in ProcType /\ proc \in [Procs -> ProcType]
  BY DEF Shaped, ProcsShaped, Procs
<1>2. UNCHANGED records /\ \A q \in Procs \ {Scan} : proc'[q] = proc[q]
  BY <1>1 DEF StartScan, Shortlist, EndScan, ScanDies, SubmitCandidate, ProposeTicket, SendLink, Done
<1>3. proc[Scan].pc # "idle" =>
        /\ lock = Scan
        /\ \A t \in proc[Scan].todo : Vacant(t)
        /\ proc[Scan].todo # {} => Doubtless
  BY <1>1, ScanGuarded DEF Locking, Alone
<1>4. /\ \A t : Vacant(t) => Vacant(t)'
      /\ Doubtless => Doubtless'
  BY <1>2, QuietWhen, QuietStep
<1>5. CASE StartScan
  <2>1. PICK r : proc' = [proc EXCEPT ![Scan] = r] /\ r.pc = "shortlist" /\ r.todo = {}
    <3>1. PICK approval \in Approval[account] :
            proc' = [proc EXCEPT ![Scan] =
              [IdleProc EXCEPT !.pc = "shortlist",
                               !.mode = IF approval THEN "ticket"
                                        ELSE IF account = "confirm" THEN "link" ELSE "submit"]]
      BY <1>5 DEF StartScan
    <3> DEFINE r == [IdleProc EXCEPT !.pc = "shortlist",
                               !.mode = IF approval THEN "ticket"
                                        ELSE IF account = "confirm" THEN "link" ELSE "submit"]
    <3>2. r.pc = "shortlist" /\ r.todo = {}
      BY DEF IdleProc
    <3>3. proc' = [proc EXCEPT ![Scan] = r]
      BY <3>1
    <3> HIDE DEF r
    <3>4. QED
      BY <3>2, <3>3
  <2>2. lock = Nobody /\ lock' = Scan
    BY <1>5 DEF StartScan
  <2>3. proc'[Scan].pc = "shortlist" /\ proc'[Scan].todo = {}
    BY <1>1, <2>1
  <2>4. Alone(Scan)'
    BY <2>2, <2>3 DEF Alone, Submitting, Written
  <2>5. QED
    BY <1>1, <1>2, <2>2, <2>4, LockingStays
<1>6. CASE Shortlist
  <2>1. PICK found \in SUBSET {t \in Tickers : Qualifies(t) /\ ~InDoubt} :
          proc' = [proc EXCEPT ![Scan].pc = "choose", ![Scan].todo = found]
    BY <1>6 DEF Shortlist
  <2>2. proc'[Scan].pc = "choose" /\ proc'[Scan].todo = found
    BY <1>1, <2>1 DEF ProcType
  <2>3. lock = Scan /\ lock' = lock
    BY <1>3, <1>6 DEF Shortlist
  <2>4. \A t \in found : Vacant(t)
    BY Found DEF Qualifies
  <2>5. found # {} => Doubtless
    BY Found
  <2>6. Alone(Scan)'
    BY <1>4, <2>2, <2>3, <2>4, <2>5 DEF Alone, Submitting, Written
  <2>7. QED
    BY <1>1, <1>2, <2>3, <2>6, LockingStays
<1>7. CASE EndScan \/ ScanDies
  <2>1. proc'[Scan] = IdleProc
    BY <1>1, <1>7 DEF EndScan, ScanDies
  <2>2. lock = Scan
    BY <1>3, <1>7 DEF EndScan, ScanDies
  <2>3. Alone(Scan)'
    BY <2>1, IdleIsTyped DEF Alone, Guarded, Active
  <2>4. QED
    BY <1>1, <1>2, <2>2, <2>3, LockingStays
<1>8. ASSUME NEW t \in Tickers, SubmitCandidate(t) \/ ProposeTicket(t) \/ SendLink(t)
      PROVE  Locking'
  <2>1. proc[Scan].pc = "choose" /\ t \in proc[Scan].todo /\ lock' = lock
    BY <1>8 DEF SubmitCandidate, ProposeTicket, SendLink, Chosen
  <2>2. /\ proc'[Scan].todo = proc[Scan].todo \ {t}
        /\ \/ proc'[Scan].pc = "choose"
           \/ proc'[Scan].pc = "persist" /\ proc'[Scan].ticker = t
    <3>1. CASE SubmitCandidate(t)
      <4> DEFINE r == [proc[Scan] EXCEPT !.pc = "persist", !.ticker = t, !.origin = Scan,
                                         !.todo = proc[Scan].todo \ {t}]
      <4>1. proc' = [proc EXCEPT ![Scan] = r]
        BY <1>1, <3>1 DEF SubmitCandidate
      <4>2. r.pc = "persist" /\ r.ticker = t /\ r.todo = proc[Scan].todo \ {t}
        BY <1>1 DEF ProcType
      <4> HIDE DEF r
      <4>3. QED
        BY <1>1, <4>1, <4>2
    <3>2. CASE Done(t)
      <4> DEFINE r == [proc[Scan] EXCEPT !.todo = proc[Scan].todo \ {t}]
      <4>1. proc' = [proc EXCEPT ![Scan] = r]
        BY <1>1, <3>2 DEF Done
      <4>2. r.pc = proc[Scan].pc /\ r.todo = proc[Scan].todo \ {t}
        BY <1>1 DEF ProcType
      <4> HIDE DEF r
      <4>3. QED
        BY <1>1, <2>1, <4>1, <4>2
    <3>3. QED
      BY <1>8, <3>1, <3>2 DEF ProposeTicket, SendLink
  <2>3. lock' = Scan /\ Doubtless' /\ \A u \in proc[Scan].todo : Vacant(u)'
    BY <1>3, <1>4, <2>1
  <2>4. proc'[Scan].pc = "persist" => Vacant(proc[Scan].ticker)'
    BY <2>1, <2>2, <2>3 DEF Vacant, Open
  <2>5. Alone(Scan)'
    BY <2>2, <2>3, <2>4 DEF Alone, Written
  <2>6. QED
    BY <1>1, <1>2, <2>1, <2>5, LockingStays
<1>9. QED
  BY <1>5, <1>6, <1>7, <1>8

\* The requests' own steps respect the lock.
LEMMA HandLocks ==
    ASSUME Shaped, Locking, NEW h \in Hands,
           \/ TakeLock(h) \/ GiveBack(h) \/ RecheckPasses(h) \/ RecheckFails(h)
           \/ Settle(h) \/ ApprovalRaises(h) \/ HandDies(h)
           \/ (\E id \in TicketIds : Claim(h, id))
           \/ (\E l \in LinkIds : Press(h, l))
    PROVE  Locking'
<1>1. /\ h \in Procs /\ proc[h] \in ProcType /\ HandPart(proc[h]) /\ proc \in [Procs -> ProcType]
      /\ Alone(h)
  BY DEF Shaped, ProcsShaped, Procs, Locking
<1>2. UNCHANGED records /\ \A q \in Procs \ {h} : proc'[q] = proc[q]
  BY <1>1
  DEF TakeLock, GiveBack, RecheckPasses, RecheckFails, Settle, ApprovalRaises, HandDies, Claim,
      Press, Go
<1>3. CASE TakeLock(h)
  <2>1. lock = Nobody /\ lock' = h
    BY <1>3 DEF TakeLock
  <2>2. proc'[h].pc = "recheck" /\ proc'[h].todo = {}
    BY <1>1, <1>3 DEF TakeLock, Go, HandPart, ProcType
  <2>3. Alone(h)'
    BY <2>1, <2>2 DEF Alone, Submitting, Written
  <2>4. QED
    BY <1>1, <1>2, <2>1, <2>3, LockingStays
<1>4. CASE RecheckPasses(h)
  <2>1. Guarded(h) /\ lock = h /\ lock' = lock
    BY <1>1, <1>4, OriginAssumption DEF RecheckPasses, Guarded, Active, HandPart, Alone
  <2>2. /\ proc'[h].pc = "persist" /\ proc'[h].todo = {} /\ proc'[h].ticker = proc[h].ticker
    BY <1>1, <1>4 DEF RecheckPasses, Go, HandPart, ProcType
  <2>3. Vacant(proc[h].ticker) /\ Doubtless
    BY <1>4, Found DEF RecheckPasses, Rechecks
  <2>4. Vacant(proc[h].ticker)' /\ Doubtless'
    BY <1>2, <2>2, <2>3 DEF Vacant, Doubtless, Open
  <2>5. Alone(h)'
    BY <2>1, <2>2, <2>4 DEF Alone, Written
  <2>6. QED
    BY <1>1, <1>2, <2>1, <2>5, LockingStays
<1>5. CASE GiveBack(h) \/ RecheckFails(h) \/ Settle(h) \/ ApprovalRaises(h) \/ HandDies(h)
  <2>1. proc'[h].pc \in {"idle", "dead"}
    BY <1>1, <1>5, IdleIsTyped, GoesOn
    DEF GiveBack, RecheckFails, Settle, ApprovalRaises, HandDies, Go, ProcType
  <2>2. Alone(h)'
    BY <2>1 DEF Alone, Guarded, Active
  <2>3. lock' = lock \/ lock = h
    <3>1. CASE RecheckFails(h)
      BY <1>1, <3>1, OriginAssumption DEF RecheckFails, HandPart, Alone, Guarded, Active
    <3>2. CASE ~RecheckFails(h)
      BY <1>5, <3>2 DEF GiveBack, Settle, ApprovalRaises, HandDies, Unlocked
    <3>3. QED
      BY <3>1, <3>2
  <2>4. QED
    BY <1>1, <1>2, <2>2, <2>3, LockingStays
<1>6. ASSUME NEW id \in TicketIds, Claim(h, id)
      PROVE  Locking'
  <2>1. proc'[h].pc = "lock" /\ lock' = lock
    BY <1>1, <1>6 DEF Claim, IdleProc
  <2>2. Alone(h)'
    BY <2>1 DEF Alone, Guarded
  <2>3. QED
    BY <1>1, <1>2, <2>1, <2>2, LockingStays
<1>7. ASSUME NEW l \in LinkIds, Press(h, l)
      PROVE  Locking'
  <2>1. lock' = lock /\ proc[h].pc = "idle"
    BY <1>7 DEF Press
  <2>2. CASE UNCHANGED proc
    <3>1. Alone(h)'
      BY <2>1, <2>2 DEF Alone, Guarded, Active
    <3>2. QED
      BY <1>1, <1>2, <2>1, <3>1, LockingStays
  <2>3. CASE ~UNCHANGED proc
    <3> DEFINE r == [IdleProc EXCEPT !.pc = "persist", !.origin = l, !.ticker = links[l].ticker]
    <3>1. r.origin = l
      BY DEF IdleProc
    <3>2. proc' = [proc EXCEPT ![h] = r]
      BY <1>7, <2>3 DEF Press
    <3> HIDE DEF r
    <3>3. proc'[h].origin = l
      BY <1>1, <3>1, <3>2
    <3>4. Alone(h)'
      BY <3>3 DEF Alone, Guarded
    <3>5. QED
      BY <1>1, <1>2, <2>1, <3>4, LockingStays
  <2>4. QED
    BY <2>2, <2>3
<1>8. QED
  BY <1>3, <1>4, <1>5, <1>6, <1>7

\* A record whose state changes to one that opens nothing.
LEMMA QuietRewrite ==
    ASSUME Shaped, NEW i \in DOMAIN records, NEW state, Rewritten(i, state),
           state \notin TerminalStates => records[i].state \notin TerminalStates
    PROVE  /\ Quiet
           /\ state # Unknown \/ records[i].origin \in LinkIds => NoNewDoubt
<1>1. DOMAIN records' = DOMAIN records
  BY LenProperties DEF Shaped, StoresShaped, Rewritten
<1>2. /\ \A j \in DOMAIN records : /\ records'[j].ticker = records[j].ticker
                                   /\ records'[j].origin = records[j].origin
                                   /\ j # i => records'[j].state = records[j].state
      /\ records'[i].state = state
  BY DEF Rewritten
<1>3. Quiet
  BY <1>1, <1>2 DEF Quiet, Open
<1>4. state # Unknown \/ records[i].origin \in LinkIds => NoNewDoubt
  BY <1>1, <1>2 DEF NoNewDoubt
<1>5. QED
  BY <1>3, <1>4

\* A record is written under the lock for a vacant ticker, or by a link.
LEMMA PersistLocks ==
    ASSUME Shaped, Locking, NEW p \in Procs, PersistEntry(p)
    PROVE  Locking'
<1>1. proc \in [Procs -> ProcType] /\ proc[p] \in ProcType /\ lock' = lock /\ proc[p].pc = "persist"
  BY DEF Shaped, ProcsShaped, PersistEntry
<1>2. Appended(p)
  BY Appending
<1> DEFINE n == Len(records) + 1
<1>3. /\ DOMAIN records' = DOMAIN records \union {n} /\ n \notin DOMAIN records
      /\ \A j \in DOMAIN records : records'[j] = records[j]
      /\ records'[n].ticker = proc[p].ticker /\ records'[n].origin = proc[p].origin
      /\ records'[n].state = Submitted
  <2>1. /\ DOMAIN records = 1 .. Len(records) /\ DOMAIN records' = 1 .. Len(records) + 1
        /\ Len(records) \in Nat
    BY <1>2, LenProperties DEF Appended, Shaped, StoresShaped
  <2>2. QED
    BY <1>2, <2>1 DEF Appended
<1>4. /\ \A q \in Procs \ {p} : proc'[q] = proc[q]
      /\ proc'[p].pc \in {"reserve", "send"} /\ proc'[p].origin = proc[p].origin
      /\ proc'[p].todo = proc[p].todo /\ proc'[p].entry = n
  BY <1>1 DEF PersistEntry, ProcType
<1> HIDE DEF n
<1>5. NoNewDoubt
  BY <1>3, StatesDiffer DEF NoNewDoubt
<1>6. CASE proc[p].origin \in LinkIds
  <2>1. Quiet
    BY <1>3, <1>6 DEF Quiet, Open
  <2>2. ASSUME NEW q \in Procs \ {p} PROVE Alone(q)'
    <3>1. Alone(q) /\ proc'[q] = proc[q]
      BY <1>4 DEF Locking
    <3>2. proc[q].pc \in Written => records'[proc[q].entry] = records[proc[q].entry]
      BY <1>3 DEF Shaped, Writing
    <3>3. QED
      BY <1>1, <1>5, <2>1, <3>1, <3>2, AloneStays DEF Alone
  <2>3. Alone(p)'
    BY <1>4, <1>6 DEF Alone, Guarded
  <2>4. QED
    BY <2>1, <2>2, <2>3, QuietStep DEF Locking
<1>7. CASE proc[p].origin \notin LinkIds
  <2>1. Guarded(p)
    BY <1>1, <1>7 DEF Guarded, Active
  <2>2. /\ lock = p /\ Vacant(proc[p].ticker) /\ Doubtless
        /\ \A t \in proc[p].todo : Vacant(t)
    BY <1>1, <2>1 DEF Locking, Alone, Submitting
  <2>3. ASSUME NEW q \in Procs \ {p} PROVE Alone(q)'
    <3>1. ~Guarded(q)
      BY <2>2 DEF Locking, Alone
    <3>2. ~Guarded(q)'
      BY <1>4, <3>1 DEF Guarded, Active
    <3>3. QED
      BY <3>2 DEF Alone
  <2>4. proc[p].ticker \notin proc[p].todo
    BY <1>1 DEF Shaped, ProcsShaped, ScanPart, HandPart, Submitting, Procs
  <2>5. \A t \in proc'[p].todo : Vacant(t)'
    BY <1>3, <1>4, <2>2, <2>4 DEF Vacant, Open
  <2>6. Alone(p)'
    BY <1>1, <1>3, <1>4, <1>5, <2>2, <2>5, QuietStep DEF Alone
  <2>7. Sole'
    BY <1>3, <2>2 DEF Sole, Locking, Vacant, Open
  <2>8. QED
    BY <2>3, <2>6, <2>7 DEF Locking
<1>8. QED
  BY <1>6, <1>7

\* A submission is settled by its own answer; an ambiguous one ends the scan.
LEMMA RecordLocks ==
    ASSUME Shaped, Locking, NEW p \in Procs, RecordEntry(p)
    PROVE  Locking'
<1>1. proc \in [Procs -> ProcType] /\ proc[p].pc = "record" /\ lock' = lock
  BY DEF Shaped, ProcsShaped, RecordEntry
<1> DEFINE e == proc[p].entry
<1>2. /\ e \in DOMAIN records /\ Rewritten(e, Answered(p))
      /\ proc[p].reply \in {"accepted", "rejected", "ambiguous"}
  BY Recording
<1>3. records[e].origin = proc[p].origin
  BY <1>1 DEF Shaped, Writing, Written
<1>4. /\ proc'[p] = Returned(p, proc[p].reply) /\ \A q \in Procs \ {p} : proc'[q] = proc[q]
  BY <1>1 DEF RecordEntry
<1>5. proc[p].pc \in Submitting
  BY <1>1 DEF Submitting
<1> HIDE DEF e
<1>6. CASE proc[p].origin \in LinkIds
  <2>1. Quiet /\ NoNewDoubt
    <3>1. /\ \A j \in DOMAIN records : /\ records'[j].ticker = records[j].ticker
                                       /\ records'[j].origin = records[j].origin
                                       /\ j # e => records'[j].state = records[j].state
          /\ DOMAIN records' = DOMAIN records
      BY <1>2, LenProperties DEF Rewritten, Shaped, StoresShaped
    <3>2. QED
      BY <1>3, <1>6, <3>1 DEF Quiet, NoNewDoubt, Open
  <2>2. ASSUME NEW q \in Procs \ {p} PROVE Alone(q)'
    <3>1. Alone(q) /\ proc'[q] = proc[q]
      BY <1>4 DEF Locking
    <3>2. Guarded(q) /\ proc[q].pc \in Written =>
            records'[proc[q].entry].state = records[proc[q].entry].state
      <4>1. Guarded(q) /\ proc[q].pc \in Written =>
              proc[q].entry \in DOMAIN records /\ records[proc[q].entry].origin \notin LinkIds
        BY DEF Shaped, Writing, Guarded
      <4>2. Guarded(q) /\ proc[q].pc \in Written => proc[q].entry # e
        BY <1>3, <1>6, <4>1
      <4>3. QED
        BY <1>2, <4>1, <4>2 DEF Rewritten
    <3>3. QED
      BY <1>1, <2>1, <3>1, <3>2, AloneStays DEF Alone
  <2>3. Alone(p)'
    <3>1. p \in Hands /\ proc[p].origin \notin TicketIds
      BY <1>5, <1>6, OriginAssumption DEF Shaped, ProcsShaped, ScanPart, Procs
    <3>2. proc'[p].pc = "idle"
      BY <1>4, <1>5, <3>1, Returns, IdleIsTyped
    <3>3. QED
      BY <3>2 DEF Alone, Guarded, Active
  <2>4. QED
    BY <2>1, <2>2, <2>3, QuietStep DEF Locking
<1>7. CASE proc[p].origin \notin LinkIds
  <2>1. Guarded(p)
    BY <1>1, <1>7 DEF Guarded, Active
  <2>2. /\ lock = p /\ Doubtless /\ records[e].state = Submitted
        /\ \A t \in proc[p].todo : Vacant(t)
    BY <1>1, <2>1 DEF Locking, Alone, Submitting, Written, e
  <2>3. Quiet /\ (Answered(p) # Unknown => NoNewDoubt)
    BY <1>2, <2>2, QuietRewrite, StatesDiffer
  <2>4. ASSUME NEW q \in Procs \ {p} PROVE Alone(q)'
    <3>1. ~Guarded(q)
      BY <2>2 DEF Locking, Alone
    <3>2. ~Guarded(q)'
      BY <1>4, <3>1 DEF Guarded, Active
    <3>3. QED
      BY <3>2 DEF Alone
  <2>5. proc[p].reply # "ambiguous" => Answered(p) # Unknown
    BY <1>2, Answers, StatesDiffer
  <2>6. Alone(p)'
    <3>1. CASE p = Scan
      <4>1. /\ proc'[p].pc = "choose" /\ proc'[p].todo \subseteq proc[Scan].todo
            /\ proc[p].reply = "ambiguous" => proc'[p].todo = {}
        BY <1>4, <1>5, <3>1, Returns
      <4>2. proc'[p].todo # {} => Doubtless'
        BY <2>2, <2>3, <2>5, <4>1, QuietStep
      <4>3. \A t \in proc'[p].todo : Vacant(t)'
        BY <2>2, <2>3, <3>1, <4>1, QuietStep
      <4>4. QED
        BY <1>1, <2>2, <4>1, <4>2, <4>3 DEF Alone, Submitting, Written
    <3>2. CASE p \in Hands
      <4>1. (proc'[p].pc = "settle" /\ proc'[p].todo = {}) \/ proc'[p].pc = "idle"
        BY <1>4, <1>5, <3>2, Returns, IdleIsTyped DEF HandPart
      <4>2. QED
        BY <1>1, <2>2, <4>1 DEF Alone, Guarded, Active, Submitting, Written
    <3>3. QED
      BY <3>1, <3>2 DEF Procs
  <2>7. QED
    BY <2>3, <2>4, <2>6, QuietStep DEF Locking
<1>8. QED
  BY <1>6, <1>7

\* Every step of a submission respects the lock.
LEMMA SubmissionLocks ==
    ASSUME Shaped, Locking, NEW p \in Procs, Submission(p)
    PROVE  Locking'
<1>1. proc \in [Procs -> ProcType] /\ proc[p] \in ProcType /\ Alone(p)
  BY DEF Shaped, ProcsShaped, Locking
<1>2. CASE PersistFails(p)
  <2>1. /\ proc'[p] = Returned(p, "rejected") /\ \A q \in Procs \ {p} : proc'[q] = proc[q]
        /\ lock' = lock /\ UNCHANGED records /\ proc[p].pc = "persist"
    BY <1>1, <1>2 DEF PersistFails
  <2>2. \/ /\ proc'[p].pc \in {"choose", "settle"} /\ proc'[p].todo \subseteq proc[p].todo
           /\ proc'[p].origin \in {Nobody, proc[p].origin}
           /\ p \in Hands => proc'[p].origin = proc[p].origin
        \/ proc'[p].pc = "idle"
    <3>1. CASE p = Scan
      <4>1. p \notin Hands
        BY <3>1, OriginAssumption
      <4>2. QED
        BY <2>1, <3>1, <4>1, Returns DEF Submitting
    <3>2. CASE p \in Hands
      BY <2>1, <3>2, Returns, IdleIsTyped DEF Submitting, HandPart
    <3>3. QED
      BY <3>1, <3>2 DEF Procs
  <2>3. Guarded(p)' => Guarded(p)
    <3>1. CASE p = Scan
      BY <2>1, <3>1, ScanGuarded
    <3>2. CASE p \in Hands
      BY <2>1, <2>2, <3>2 DEF Guarded, Active
    <3>3. QED
      BY <3>1, <3>2 DEF Procs
  <2>4. (\A t : Vacant(t) => Vacant(t)') /\ (Doubtless => Doubtless')
    BY <2>1, QuietWhen, QuietStep
  <2>5. Alone(p)'
    <3>1. CASE Guarded(p)'
      <4>1. /\ lock = p /\ \A t \in proc[p].todo : Vacant(t)
            /\ proc[p].todo # {} => Doubtless
        BY <1>1, <2>3, <3>1 DEF Alone
      <4>2. proc'[p].pc \in {"choose", "settle"} /\ proc'[p].todo \subseteq proc[p].todo
        BY <2>2, <3>1 DEF Guarded, Active
      <4>3. QED
        BY <2>1, <2>4, <4>1, <4>2 DEF Alone, Submitting, Written
    <3>2. CASE ~Guarded(p)'
      BY <3>2 DEF Alone
    <3>3. QED
      BY <3>1, <3>2
  <2>6. QED
    BY <2>1, <2>5, LockingStays
<1>3. CASE Reserve(p) \/ Send(p)
  <2>1. /\ \A q \in Procs \ {p} : proc'[q] = proc[q]
        /\ lock' = lock /\ UNCHANGED records /\ proc[p].pc \in {"reserve", "send"}
    BY <1>1, <1>3 DEF Reserve, Send
  <2>2. /\ proc'[p].pc \in {"send", "record"} /\ proc'[p].origin = proc[p].origin
        /\ proc'[p].todo = proc[p].todo /\ proc'[p].entry = proc[p].entry
    <3>1. CASE Reserve(p)
      BY <1>1, <3>1 DEF Reserve, ProcType
    <3>2. CASE Send(p)
      BY <1>1, <3>2 DEF Send, ProcType
    <3>3. QED
      BY <1>3, <3>1, <3>2
  <2>3. Guarded(p)' => Guarded(p)
    BY <2>1, <2>2 DEF Guarded, Active
  <2>4. (\A t : Vacant(t) => Vacant(t)') /\ (Doubtless => Doubtless')
    BY <2>1, QuietWhen, QuietStep
  <2>5. Alone(p)'
    <3>1. CASE Guarded(p)'
      <4>1. /\ lock = p /\ (\A t \in proc[p].todo : Vacant(t)) /\ Doubtless
            /\ records[proc[p].entry].state = Submitted
        BY <1>1, <2>1, <2>3, <3>1 DEF Alone, Submitting, Written
      <4>2. QED
        BY <2>1, <2>2, <2>4, <4>1 DEF Alone
    <3>2. CASE ~Guarded(p)'
      BY <3>2 DEF Alone
    <3>3. QED
      BY <3>1, <3>2
  <2>6. QED
    BY <2>1, <2>5, LockingStays
<1>4. QED
  BY <1>2, <1>3, PersistLocks, RecordLocks DEF Submission

\* So does a step that touches neither lock, process nor record.
LEMMA ElsewhereLocks ==
    ASSUME Locking, UNCHANGED <<lock, proc, records>>
    PROVE  Locking'
<1>1. Quiet /\ NoNewDoubt
  BY QuietWhen
<1>2. \A p \in Procs : Alone(p)'
  BY <1>1, AloneStays DEF Locking, Alone
<1>3. QED
  BY <1>1, <1>2, QuietStep DEF Locking

\* A monitor pass runs while nobody has the lock.
LEMMA MonitorLocks ==
    ASSUME Shaped, Locking, NEW i \in DOMAIN records, Monitor(i)
    PROVE  Locking'
<1>1. PICK state \in AllStates :
        /\ Rewritten(i, state)
        /\ records[i].state \in {Submitted, Unknown, Confirmed}
        /\ state \in {Submitted, Confirmed, Failed, Closed}
  BY Monitoring
<1>2. Quiet /\ NoNewDoubt
  BY <1>1, QuietRewrite, StatesDiffer
<1>3. lock = Nobody /\ UNCHANGED <<lock, proc>>
  BY DEF Monitor
<1>4. ASSUME NEW p \in Procs PROVE Alone(p)'
  <2>1. ~Guarded(p)
    BY <1>3, OriginAssumption DEF Locking, Alone
  <2>2. ~Guarded(p)'
    BY <1>3, <2>1 DEF Guarded, Active
  <2>3. QED
    BY <2>2 DEF Alone
<1>5. QED
  BY <1>2, <1>4, QuietStep DEF Locking

\* Every step respects the lock.
LEMMA LockStep ==
    ASSUME Shaped, Locking, [Next]_vars
    PROVE  Locking'
<1>1. Scan \in Procs /\ Hands \subseteq Procs
  BY DEF Procs
<1>2. CASE ScanStep \/ ScanDies
  BY <1>1, <1>2, SubmissionLocks, ScanLocks DEF ScanStep
<1>3. ASSUME NEW h \in Hands,
             \/ HandStep(h) \/ ApprovalRaises(h) \/ HandDies(h)
             \/ \E id \in TicketIds : Claim(h, id)
             \/ \E l \in LinkIds : Press(h, l)
      PROVE  Locking'
  <2>1. CASE Submission(h)
    BY <1>1, <2>1, SubmissionLocks
  <2>2. CASE ~Submission(h)
    BY <1>3, <2>2, HandLocks DEF HandStep
  <2>3. QED
    BY <2>1, <2>2
<1>4. CASE UNCHANGED <<lock, proc, records>>
  BY <1>4, ElsewhereLocks
<1>5. ASSUME NEW i \in DOMAIN records, Monitor(i)
      PROVE  Locking'
  BY <1>5, MonitorLocks
<1>6. QED
  BY <1>2, <1>3, <1>4, <1>5 DEF Next, Expire, Decline, OrderMoves, vars

\* In the first state nobody is under the lock.
LEMMA InitLocks == Init => Locking
<1> SUFFICES ASSUME Init PROVE Locking
  OBVIOUS
<1>1. \A p \in Procs : ~Guarded(p)
  BY IdleIsTyped DEF Init, Guarded, Active
<1>2. DOMAIN records = {}
  BY DEF Init
<1>3. QED
  BY <1>1, <1>2 DEF Locking, Sole, Alone

\* The scan and the approvals never have two entries open in one ticker: both
\* look for open records under the account's lock and hold it until their own
\* is written (app.py, the scan lock and the ticket's recheck).
THEOREM OneEntryIsOpen == Spec => []OneOpenEntry
<1>1. Sole => OneOpenEntry
  <2>1. ASSUME Sole, NEW t \in Tickers
        PROVE  Cardinality({i \in OpenRecords(t) : records[i].origin \notin LinkIds}) <= 1
    <3> DEFINE S == {i \in OpenRecords(t) : records[i].origin \notin LinkIds}
    <3>1. \A x, y \in S : x = y
      BY <2>1 DEF Sole, OpenRecords, Open
    <3> HIDE DEF S
    <3>2. Cardinality(S) <= 1
      BY <3>1, AtMostOne
    <3>3. QED
      BY <3>2 DEF S
  <2>2. QED
    BY <2>1 DEF OneOpenEntry
<1>2. Locking => OneOpenEntry
  BY <1>1 DEF Locking
<1>3. QED
  BY <1>2, GateInit, GateStep, InitLocks, LockStep, PTL DEF Spec

\* No entry of theirs is begun, or goes out, while the outcome of another is
\* unknown: the freeze is read under the lock, and an ambiguous answer ends the
\* scan's list (app.py, _has_unresolved_ambiguous_submission_locally).
THEOREM NoDoubtfulEntry == Spec => []NoEntryInDoubt
<1>1. Locking => NoEntryInDoubt
  BY DEF Locking, Alone, Guarded, Active, NoEntryInDoubt, Doubtless, Submitting
<1>2. QED
  BY <1>1, GateInit, GateStep, InitLocks, LockStep, PTL DEF Spec

---------------------------------------------------------------------------
(* The dollars of the day.                                                 *)

Counting ==
    /\ spent \in [total : Nat, orders : [Tickers -> Nat]]
    /\ spent.total = SumOf(spent.orders, Tickers)

\* The count of one ticker is set, and the total follows.
LEMMA CountSet ==
    ASSUME Counting, NEW t \in Tickers, NEW n \in Nat, NEW total,
           total = spent.total - spent.orders[t] + n,
           spent' = [total |-> total, orders |-> [spent.orders EXCEPT ![t] = n]]
    PROVE  /\ Counting'
           /\ spent'.orders[t] = n /\ spent'.total = total
           /\ \A u \in Tickers \ {t} : spent'.orders[u] = spent.orders[u]
<1> DEFINE v == spent.orders
           w == [v EXCEPT ![t] = n]
<1>1. IsFiniteSet(Tickers)
  BY CostAssumption
<1>2. v \in [Tickers -> Nat] /\ spent.total = SumOf(v, Tickers)
  BY DEF Counting
<1>3. w \in [Tickers -> Nat] /\ w[t] = n /\ \A u \in Tickers \ {t} : w[u] = v[u]
  BY <1>1, <1>2
<1>4. spent' = [total |-> total, orders |-> w]
  OBVIOUS
<1>5. total = spent.total - v[t] + n
  OBVIOUS
<1> HIDE DEF w, v
<1>6. SumOf(w, Tickers) = SumOf(v, Tickers) - v[t] + w[t]
  BY <1>1, <1>2, <1>3, SumChanges
<1>7. total = SumOf(w, Tickers)
  BY <1>2, <1>3, <1>5, <1>6
<1>8. total \in Nat
  BY <1>1, <1>3, <1>7, SumIsNat
<1>9. spent'.orders = w /\ spent'.total = total
      /\ spent' \in [total : Nat, orders : [Tickers -> Nat]]
  <2> DEFINE r == [total |-> total, orders |-> w]
  <2>1. r.orders = w /\ r.total = total
    OBVIOUS
  <2>2. w \in [Tickers -> Nat]
    BY <1>3
  <2>3. r \in [total : Nat, orders : [Tickers -> Nat]]
    BY <2>2, <1>8
  <2> HIDE DEF r
  <2>4. spent' = r
    BY <1>4 DEF r
  <2>5. QED
    BY <2>1, <2>3, <2>4
<1>11. Counting'
  BY <1>7, <1>9 DEF Counting
<1>12. QED
  BY <1>3, <1>9, <1>11 DEF v

\* reserve() counts an order once, within the cap; a rejection uncounts it.
LEMMA Counts ==
    ASSUME Counting, NEW t \in Tickers, NEW cost \in Nat
    PROVE  /\ spent' = Reserved(t, cost) =>
                /\ Counting'
                /\ spent'.orders[t] = IF Counted(t) THEN spent.orders[t] ELSE cost
                /\ \A u \in Tickers \ {t} : spent'.orders[u] = spent.orders[u]
                /\ spent.total <= DailyCap /\ Fits(t, cost) => spent'.total <= DailyCap
           /\ spent' = Unreserved(t) => Counting'
<1>1. DailyCap \in Nat /\ spent.total \in Nat /\ spent.orders[t] \in Nat
  BY CostAssumption DEF Counting
<1>2. ASSUME spent' = Reserved(t, cost)
      PROVE  /\ Counting'
             /\ spent'.orders[t] = IF Counted(t) THEN spent.orders[t] ELSE cost
             /\ \A u \in Tickers \ {t} : spent'.orders[u] = spent.orders[u]
             /\ spent.total <= DailyCap /\ Fits(t, cost) => spent'.total <= DailyCap
  <2>1. CASE Counted(t)
    <3>1. spent' = spent
      BY <1>2, <2>1 DEF Reserved
    <3>2. QED
      BY <2>1, <3>1 DEF Counting
  <2>2. CASE ~Counted(t)
    <3>1. spent.orders[t] = 0
      BY <1>1, <2>2 DEF Counted
    <3>2. spent' = [total |-> spent.total + cost,
                    orders |-> [spent.orders EXCEPT ![t] = cost]]
      BY <1>2, <2>2 DEF Reserved
    <3>3. spent.total + cost = spent.total - spent.orders[t] + cost
      BY <1>1, <3>1
    <3>4. /\ Counting' /\ spent'.orders[t] = cost /\ spent'.total = spent.total + cost
          /\ \A u \in Tickers \ {t} : spent'.orders[u] = spent.orders[u]
      BY <3>2, <3>3, CountSet
    <3>5. QED
      BY <2>2, <3>4 DEF Fits
  <2>3. QED
    BY <2>1, <2>2
<1>3. ASSUME spent' = Unreserved(t) PROVE Counting'
  <2>1. spent' = [total |-> spent.total - spent.orders[t],
                  orders |-> [spent.orders EXCEPT ![t] = 0]]
    BY <1>3 DEF Unreserved
  <2>2. spent.total - spent.orders[t] = spent.total - spent.orders[t] + 0
    BY <1>1
  <2>3. QED
    BY <2>1, <2>2, CountSet
<1>4. QED
  BY <1>2, <1>3

\* Every step keeps the total what the counted orders come to.
LEMMA CountStep ==
    ASSUME Shaped, Counting, [Next]_vars
    PROVE  Counting'
<1>1. CASE UNCHANGED spent
  BY <1>1 DEF Counting
<1>2. ASSUME NEW p \in Procs, Reserve(p) \/ Send(p) PROVE Counting'
  <2>1. proc[p].ticker \in Tickers /\ proc[p].cost \in Nat
    BY <1>2 DEF Reserve, Send, Shaped, ProcsShaped, ScanPart, HandPart, Submitting, Procs, ProcType
  <2>2. \/ UNCHANGED spent \/ spent' = Reserved(proc[p].ticker, proc[p].cost)
        \/ spent' = Unreserved(proc[p].ticker)
    <3>1. CASE Reserve(p)
      BY <3>1 DEF Reserve
    <3>2. CASE Send(p)
      BY <3>2 DEF Send
    <3>3. QED
      BY <1>2, <3>1, <3>2
  <2>3. QED
    BY <1>1, <2>1, <2>2, Counts
<1>3. CASE ScanStep \/ ScanDies
  BY <1>1, <1>2, <1>3
  DEF ScanStep, ScanDies, Submission, PersistEntry, PersistFails, RecordEntry, StartScan,
      Shortlist, EndScan, SubmitCandidate, ProposeTicket, SendLink, Procs
<1>4. ASSUME NEW h \in Hands,
             \/ HandStep(h) \/ ApprovalRaises(h) \/ HandDies(h)
             \/ \E id \in TicketIds : Claim(h, id)
             \/ \E l \in LinkIds : Press(h, l)
      PROVE  Counting'
  BY <1>1, <1>2, <1>4
  DEF HandStep, Submission, PersistEntry, PersistFails, RecordEntry, TakeLock, GiveBack,
      RecheckPasses, RecheckFails, Settle, ApprovalRaises, HandDies, Claim, Press, Procs
<1>5. CASE \/ \E id \in TicketIds : Expire(id) \/ Decline(id)
           \/ \E t \in Tickers : OrderMoves(t)
           \/ \E i \in DOMAIN records : Monitor(i)
           \/ UNCHANGED vars
  BY <1>1, <1>5 DEF Expire, Decline, OrderMoves, Monitor, vars
<1>6. QED
  BY <1>3, <1>4, <1>5 DEF Next

\* At first nothing is counted.
LEMMA InitCounts == Init => Counting
<1> SUFFICES ASSUME Init PROVE Counting
  OBVIOUS
<1> DEFINE v == [t \in Tickers |-> 0]
           D == Tickers
<1>1. spent = [total |-> 0, orders |-> v] /\ v \in [Tickers -> Nat]
  BY DEF Init
<1>2. IsFiniteSet(Tickers)
  BY CostAssumption
<1>3. (\A x \in Tickers : v[x] \in Nat /\ v[x] = 0) /\ spent.orders = v /\ spent.total = 0
  BY <1>1
<1> HIDE DEF v
<1>4. SumOf(v, Tickers) = 0
  <2> DEFINE T == {u \in SUBSET Tickers : SumOf(v, u) # 0}
  <2>1. SUFFICES ASSUME T # {} PROVE FALSE
    OBVIOUS
  <2>2. PICK m \in T : \A u \in T : u \subseteq m => u = m
    <3>1. T \subseteq SUBSET Tickers
      OBVIOUS
    <3> HIDE DEF T
    <3>2. QED
      BY <1>2, <2>1, <3>1, LeastSubset
  <2>3. /\ m = {} => SumOf(v, m) = 0
        /\ m # {} => SumOf(v, m) = v[First(m)] + SumOf(v, m \ {First(m)})
    <3>1. m \in SUBSET Tickers
      OBVIOUS
    <3> HIDE DEF T
    <3>2. QED
      BY <1>2, <3>1, SumStep
  <2>4. m # {} /\ First(m) \in m
    BY <2>2, <2>3, FirstIn
  <2>5. SumOf(v, m \ {First(m)}) = 0
    BY <2>2, <2>4
  <2>6. QED
    BY <1>3, <2>2, <2>3, <2>4, <2>5
<1>5. QED
  BY <1>1, <1>3, <1>4 DEF Counting

\* Every variable has its type in every reachable state; that the day's total
\* never falls below nothing rests on its being the sum of what it counts.
THEOREM GateTypesHold == Spec => []TypeOK
<1>1. Shaped /\ Counting => TypeOK
  BY DEF Shaped, StoresShaped, ProcsShaped, Counting, TypeOK, ProcType, Replies, Modes
<1>2. QED
  BY <1>1, GateInit, GateStep, InitCounts, CountStep, PTL DEF Spec

---------------------------------------------------------------------------
(* The live account's cap. An order that may be at the broker is counted,  *)
(* and the one answer that uncounts is never given of such an order.       *)

Seen(t) == \E i \in DOMAIN records : records[i].ticker = t /\ records[i].state \in {Submitted, Unknown}
Entered(t) == \E i \in DOMAIN records : records[i].ticker = t
Again(t) == \E i, j \in DOMAIN records : i # j /\ records[i].ticker = t /\ records[j].ticker = t
Reserving(p) ==
    proc[p].pc \in {"reserve", "send"} \/ (proc[p].pc = "record" /\ proc[p].reply = "rejected")

\* What an order is down for, and what an entry about to be counted or sent.
OrderCovered(t) ==
    /\ order[t] # "none" => /\ spent.orders[t] > 0 /\ dollars[t] <= OrderCap
                            /\ Again(t) \/ dollars[t] = spent.orders[t]
    /\ order[t] = "inflight" => Seen(t)
    /\ spent.orders[t] > 0 => Entered(t)
EntryCovered(p) ==
    LET t == proc[p].ticker IN
    /\ proc[p].pc = "reserve" => proc[p].cost > 0 /\ (Again(t) \/ spent.orders[t] = 0)
    /\ proc[p].pc = "send" => /\ spent.orders[t] > 0 /\ proc[p].cost <= OrderCap
                              /\ Again(t) \/ spent.orders[t] = proc[p].cost
    /\ Reserving(p) => order[t] # "inflight"
Covered ==
    /\ spent.total <= DailyCap
    /\ \A t \in Tickers : OrderCovered(t)
    /\ \A i \in DOMAIN records : records[i].origin \notin LinkIds
    /\ \A p \in Procs : EntryCovered(p)
LiveCovered == account = "live" => Covered

\* Links are sent on paper accounts only.
LEMMA LiveLinkless ==
    ASSUME Shaped, account = "live"
    PROVE  \A p \in Procs : proc[p].origin \notin LinkIds
BY OriginAssumption DEF Shaped, ProcsShaped, ScanPart, HandPart, Procs, Origins

\* On a live account one process submits at a time.
LEMMA OneSubmits ==
    ASSUME Shaped, Locking, account = "live", NEW p \in Procs, NEW q \in Procs,
           proc[p].pc \in Submitting, proc[q].pc \in Submitting
    PROVE  p = q
BY LiveLinkless DEF Locking, Alone, Guarded, Active, Submitting

\* What was entered stays so, and so does what was entered again.
LEMMA EntriesStay ==
    ASSUME RecordsKept
    PROVE  \A t : (Entered(t) => Entered(t)') /\ (Again(t) => Again(t)')
BY DEF RecordsKept, Entered, Again

\* A step that neither sends nor counts.
LEMMA CoverStays ==
    ASSUME Shaped, Covered, RecordsKept, UNCHANGED <<spent, dollars>>,
           NEW p \in Procs, \A q \in Procs \ {p} : proc'[q] = proc[q],
           proc'[p].pc # "send",
           proc'[p].pc = "reserve" =>
              proc'[p].cost > 0 /\ (Again(proc[p].ticker)' \/ spent.orders[proc'[p].ticker] = 0),
           Reserving(p)' => order'[proc'[p].ticker] # "inflight",
           \A t \in Tickers : order[t] = "none" => order'[t] = "none",
           \A t \in Tickers : order'[t] = "inflight" => order[t] = "inflight" /\ Seen(t)',
           \A i \in DOMAIN records' : records'[i].origin \notin LinkIds
    PROVE  Covered'
<1>1. ASSUME NEW q \in Procs \ {p} PROVE EntryCovered(q)'
  <2>1. EntryCovered(q) /\ proc'[q] = proc[q]
    BY DEF Covered
  <2>2. Again(proc[q].ticker) => Again(proc[q].ticker)'
    BY <2>1 DEF RecordsKept, Again
  <2>3. /\ proc'[q].pc = "reserve" =>
              proc'[q].cost > 0 /\ (Again(proc[q].ticker)' \/ spent.orders[proc'[q].ticker] = 0)
        /\ proc'[q].pc = "send" =>
              /\ spent'.orders[proc'[q].ticker] > 0 /\ proc'[q].cost <= OrderCap
              /\ Again(proc[q].ticker)' \/ spent'.orders[proc'[q].ticker] = proc'[q].cost
    BY <2>1, <2>2 DEF EntryCovered
  <2>4. Reserving(q)' => order'[proc'[q].ticker] # "inflight"
    <3>1. proc[q].ticker \in Tickers \/ ~Reserving(q)
      BY DEF Shaped, ProcsShaped, Procs, ScanPart, HandPart, Submitting, Reserving
    <3>2. QED
      BY <2>1, <3>1 DEF EntryCovered, Reserving
  <2>5. QED
    BY <2>3, <2>4 DEF EntryCovered
<1>2. EntryCovered(p)'
  BY DEF EntryCovered
<1>3. \A t \in Tickers : OrderCovered(t)'
  BY EntriesStay DEF Covered, OrderCovered
<1>4. QED
  BY <1>1, <1>2, <1>3 DEF Covered

\* The steps outside of a submission.
LEMMA OutsideCovered ==
    ASSUME Shaped, Covered, UNCHANGED <<spent, order, dollars, records>>, NEW p \in Procs,
           \A q \in Procs \ {p} : proc'[q] = proc[q], proc'[p].pc \notin Written
    PROVE  Covered'
<1>1. \A q \in Procs \ {p} : EntryCovered(q)'
  BY DEF Covered, EntryCovered, Reserving, Again
<1>2. EntryCovered(p)'
  BY DEF EntryCovered, Reserving, Written
<1>3. \A t \in Tickers : OrderCovered(t)'
  BY DEF Covered, OrderCovered, Seen, Entered, Again
<1>4. QED
  BY <1>1, <1>2, <1>3 DEF Covered

\* A live entry is begun for a ticker whose order the broker shows, or has not.
LEMMA PersistCovers ==
    ASSUME Shaped, Locking, Counting, account = "live", Covered, NEW p \in Procs, PersistEntry(p)
    PROVE  Covered'
<1>1. proc \in [Procs -> ProcType] /\ proc[p] \in ProcType /\ proc[p].pc = "persist"
      /\ UNCHANGED <<spent, order, dollars>>
  BY DEF Shaped, ProcsShaped, PersistEntry
<1>2. /\ \A q \in Procs \ {p} : proc'[q] = proc[q]
      /\ proc'[p].pc = "reserve" /\ proc'[p].ticker = proc[p].ticker /\ proc'[p].cost > 0
  <2>1. PICK cost \in Nat :
          /\ proc' = [proc EXCEPT ![p].pc = "reserve", ![p].entry = Len(records) + 1,
                                  ![p].cost = cost]
          /\ cost > 0
    BY Priced
  <2> DEFINE r == [proc[p] EXCEPT !.pc = "reserve", !.entry = Len(records) + 1, !.cost = cost]
  <2>2. proc' = [proc EXCEPT ![p] = r]
    BY <1>1, <2>1
  <2>3. r.pc = "reserve" /\ r.ticker = proc[p].ticker /\ r.cost = cost
    BY <1>1 DEF ProcType
  <2> HIDE DEF r
  <2>4. QED
    BY <1>1, <2>1, <2>2, <2>3
<1>3. proc[p].origin \notin LinkIds
  BY LiveLinkless
<1>4. Vacant(proc[p].ticker)
  BY <1>1, <1>3 DEF Locking, Alone, Guarded, Active
<1>5. proc[p].ticker \in Tickers
  BY <1>1 DEF Shaped, ProcsShaped, ScanPart, HandPart, Submitting, Procs
<1>6. order[proc[p].ticker] # "inflight"
  BY <1>4, <1>5, StatesDiffer DEF Covered, OrderCovered, Seen, Vacant, Open
<1>7. Appended(p) /\ RecordsKept
  BY Appending, Keeping
<1>8. /\ DOMAIN records' = DOMAIN records \union {Len(records) + 1}
      /\ Len(records) + 1 \notin DOMAIN records
      /\ \A j \in DOMAIN records : records'[j] = records[j]
  BY <1>7, LenProperties DEF Appended, Shaped, StoresShaped
<1>9. \A t : Seen(t) => Seen(t)'
  BY <1>8 DEF Seen
<1>10. \A i \in DOMAIN records' : records'[i].origin \notin LinkIds
  BY <1>3, <1>7, <1>8 DEF Appended, Covered
<1>11. Again(proc[p].ticker)' \/ spent.orders[proc[p].ticker] = 0
  <2>1. SUFFICES ASSUME spent.orders[proc[p].ticker] # 0 PROVE Again(proc[p].ticker)'
    OBVIOUS
  <2>2. Entered(proc[p].ticker)
    BY <1>5, <2>1 DEF Covered, OrderCovered, Counting
  <2>3. PICK i \in DOMAIN records : records[i].ticker = proc[p].ticker
    BY <2>2 DEF Entered
  <2>4. /\ i \in DOMAIN records' /\ Len(records) + 1 \in DOMAIN records' /\ i # Len(records) + 1
        /\ records'[i].ticker = proc'[p].ticker
        /\ records'[Len(records) + 1].ticker = proc'[p].ticker
    BY <1>2, <1>7, <1>8, <2>3 DEF Appended
  <2>5. QED
    BY <2>4 DEF Again
<1>12. proc'[p].pc = "reserve" =>
         proc'[p].cost > 0 /\ (Again(proc[p].ticker)' \/ spent.orders[proc'[p].ticker] = 0)
  BY <1>2, <1>11
<1>13. \A t \in Tickers : order'[t] = "inflight" => order[t] = "inflight" /\ Seen(t)'
  BY <1>1, <1>9 DEF Covered, OrderCovered
<1>14. QED
  BY <1>1, <1>2, <1>6, <1>7, <1>10, <1>12, <1>13, CoverStays

\* An entry is reserved within the cap before it is sent.
LEMMA ReserveCovers ==
    ASSUME Shaped, Locking, Counting, account = "live", Covered, NEW p \in Procs, Reserve(p)
    PROVE  Covered'
<1> DEFINE t == proc[p].ticker
           cost == proc[p].cost
           granted == Fits(t, cost)
<1>1. /\ proc \in [Procs -> ProcType] /\ proc[p] \in ProcType /\ proc[p].pc = "reserve"
      /\ UNCHANGED <<order, dollars, records>> /\ t \in Tickers /\ cost \in Nat
  BY DEF Shaped, ProcsShaped, Reserve, ScanPart, HandPart, Submitting, Procs, ProcType
<1>2. PICK pc \in {"send", "record"}, reply \in {"none", "rejected"} :
        /\ proc' = [proc EXCEPT ![p].pc = pc, ![p].reply = reply]
        /\ pc = "send" => granted /\ spent' = Reserved(t, cost)
        /\ pc = "record" => spent' = spent
  <2>1. CASE granted
    BY <2>1 DEF Reserve
  <2>2. CASE ~granted
    BY <2>2 DEF Reserve
  <2>3. QED
    BY <2>1, <2>2
<1>3. /\ \A q \in Procs \ {p} : proc'[q] = proc[q]
      /\ proc'[p].pc = pc /\ proc'[p].ticker = t /\ proc'[p].cost = cost
  BY <1>1, <1>2 DEF ProcType
<1>4. /\ order[t] # "inflight" /\ cost > 0 /\ (Again(t) \/ spent.orders[t] = 0)
      /\ OrderCovered(t)
  BY <1>1 DEF Covered, EntryCovered, Reserving
<1>5. \A u : (Seen(u) => Seen(u)') /\ (Entered(u) => Entered(u)') /\ (Again(u) => Again(u)')
  BY <1>1 DEF Seen, Entered, Again
<1>6. Entered(t)
  BY <1>1 DEF Shaped, Writing, Written, Entered
<1>7. /\ spent'.total <= DailyCap
      /\ \A u \in Tickers \ {t} : spent'.orders[u] = spent.orders[u]
      /\ spent.orders[t] > 0 => spent'.orders[t] = spent.orders[t]
      /\ pc = "send" =>
            /\ spent'.orders[t] > 0 /\ cost <= OrderCap
            /\ Again(t) \/ spent'.orders[t] = cost
  <2>1. CASE pc = "send"
    <3>1. /\ spent'.orders[t] = IF Counted(t) THEN spent.orders[t] ELSE cost
          /\ \A u \in Tickers \ {t} : spent'.orders[u] = spent.orders[u]
          /\ spent'.total <= DailyCap
      BY <1>1, <1>2, <2>1, Counts DEF Covered
    <3>2. cost <= OrderCap
      BY <1>2, <2>1 DEF Fits
    <3>3. spent.orders[t] \in Nat
      BY <1>1 DEF Counting
    <3> HIDE DEF t, cost
    <3>4. QED
      BY <3>1, <3>2, <3>3, <1>4 DEF Counted
  <2>2. CASE pc = "record"
    BY <1>2, <2>2 DEF Covered
  <2>3. QED
    BY <2>1, <2>2
<1>8. \A q \in Procs \ {p} : proc[q].pc \notin Submitting
  BY <1>1, OneSubmits DEF Submitting
<1> HIDE DEF t, cost, granted
<1>9. \A u \in Tickers : OrderCovered(u)'
  <2>1. \A u \in Tickers \ {t} : OrderCovered(u)'
    BY <1>1, <1>5, <1>7 DEF Covered, OrderCovered
  <2>2. ASSUME NEW u \in Tickers, u = t PROVE OrderCovered(u)'
    <3>1. /\ OrderCovered(u) /\ Entered(u) /\ order'[u] = order[u] /\ dollars'[u] = dollars[u]
          /\ spent.orders[u] > 0 => spent'.orders[u] = spent.orders[u]
      BY <1>1, <1>4, <1>6, <1>7, <2>2
    <3>2. QED
      BY <3>1, <1>5 DEF OrderCovered
  <2>3. QED
    BY <2>1, <2>2
<1>10. \A q \in Procs \ {p} : EntryCovered(q)'
  BY <1>3, <1>8 DEF EntryCovered, Reserving, Submitting
<1>11. EntryCovered(p)'
  BY <1>1, <1>2, <1>3, <1>4, <1>5, <1>7 DEF EntryCovered
<1>12. QED
  BY <1>1, <1>7, <1>9, <1>10, <1>11 DEF Covered

\* What is sent was counted, and is not uncounted by its answer.
LEMMA SendCovers ==
    ASSUME Shaped, Locking, account = "live", Covered, NEW p \in Procs, Send(p)
    PROVE  Covered'
<1> DEFINE t == proc[p].ticker
<1>1. /\ proc \in [Procs -> ProcType] /\ proc[p] \in ProcType /\ proc[p].pc = "send"
      /\ UNCHANGED records /\ t \in Tickers /\ order \in [Tickers -> BrokerOrders]
      /\ dollars \in [Tickers -> Nat]
  BY DEF Shaped, ProcsShaped, StoresShaped, Send, ScanPart, HandPart, Submitting, Procs
<1>2. /\ order[t] # "inflight" /\ spent.orders[t] > 0 /\ proc[p].cost <= OrderCap
      /\ Again(t) \/ spent.orders[t] = proc[p].cost
  BY <1>1 DEF Covered, EntryCovered, Reserving
<1>3. PICK reply \in {"accepted", "ambiguous"} :
        /\ proc' = [proc EXCEPT ![p].reply = reply, ![p].pc = "record"]
        /\ UNCHANGED spent
        /\ \/ /\ order[t] = "none" /\ \E s \in {"inflight", "working"} : order' = [order EXCEPT ![t] = s]
              /\ dollars' = [dollars EXCEPT ![t] = proc[p].cost]
           \/ UNCHANGED <<order, dollars>>
  BY <1>2 DEF Send
<1>4. /\ \A q \in Procs \ {p} : proc'[q] = proc[q]
      /\ proc'[p].pc = "record" /\ proc'[p].reply = reply
  BY <1>1, <1>3 DEF ProcType
<1>5. /\ \A u \in Tickers \ {t} : order'[u] = order[u] /\ dollars'[u] = dollars[u]
      /\ \/ dollars'[t] = proc[p].cost
         \/ order'[t] = order[t] /\ dollars'[t] = dollars[t]
  BY <1>1, <1>3
<1>6. Seen(t)
  <2>1. proc[p].origin \notin LinkIds
    BY LiveLinkless
  <2>2. records[proc[p].entry].state = Submitted
    BY <1>1, <2>1 DEF Locking, Alone, Guarded, Active, Written
  <2>3. proc[p].entry \in DOMAIN records /\ records[proc[p].entry].ticker = t
    BY <1>1 DEF Shaped, Writing, Written
  <2>4. QED
    BY <1>1, <2>2, <2>3 DEF Seen
<1>7. \A u : (Seen(u) => Seen(u)') /\ (Entered(u) => Entered(u)') /\ (Again(u) => Again(u)')
  BY <1>1 DEF Seen, Entered, Again
<1>8. \A q \in Procs \ {p} : proc[q].pc \notin Submitting
  BY <1>1, OneSubmits DEF Submitting
<1>9. \A u \in Tickers : OrderCovered(u) /\ spent' = spent
  BY <1>3 DEF Covered
<1> HIDE DEF t
<1>10. \A u \in Tickers \ {t} : OrderCovered(u)'
  BY <1>5, <1>7, <1>9 DEF OrderCovered
<1>11. ASSUME NEW u \in Tickers, u = t PROVE OrderCovered(u)'
  <2>1. /\ OrderCovered(u) /\ Seen(u) /\ spent' = spent /\ spent.orders[u] > 0
        /\ proc[p].cost <= OrderCap /\ (Again(u) \/ spent.orders[u] = proc[p].cost)
        /\ \/ dollars'[u] = proc[p].cost
           \/ order'[u] = order[u] /\ dollars'[u] = dollars[u]
    BY <1>2, <1>5, <1>6, <1>9, <1>11
  <2>2. QED
    BY <2>1, <1>7 DEF OrderCovered
<1>12. \A q \in Procs : EntryCovered(q)'
  BY <1>4, <1>8 DEF EntryCovered, Reserving, Submitting
<1>13. \A u \in Tickers : OrderCovered(u)'
  BY <1>10, <1>11
<1>14. QED
  BY <1>1, <1>3, <1>12, <1>13 DEF Covered

\* The record of an order not shown yet stays open.
LEMMA RecordCovers ==
    ASSUME Shaped, account = "live", Covered, NEW p \in Procs, RecordEntry(p)
    PROVE  Covered'
<1> DEFINE e == proc[p].entry
<1>1. /\ proc \in [Procs -> ProcType] /\ proc[p].pc = "record" /\ UNCHANGED <<spent, order, dollars>>
      /\ proc' = [proc EXCEPT ![p] = Returned(p, proc[p].reply)]
  BY DEF Shaped, ProcsShaped, RecordEntry
<1>2. /\ e \in DOMAIN records /\ Rewritten(e, Answered(p))
      /\ proc[p].reply \in {"accepted", "rejected", "ambiguous"}
  BY Recording
<1>3. records[e].ticker = proc[p].ticker
  BY <1>1 DEF Shaped, Writing, Written
<1>4. /\ \A q \in Procs \ {p} : proc'[q] = proc[q]
      /\ proc'[p].pc \notin Written
  <2>1. Returned(p, proc[p].reply).pc \notin Written
    BY <1>1, Returns, IdleIsTyped DEF Submitting, Procs, Written
  <2>2. QED
    BY <1>1, <2>1
<1>5. order[proc[p].ticker] = "inflight" => Answered(p) \in {Submitted, Unknown}
  BY <1>1, <1>2, Answers DEF Covered, EntryCovered, Reserving
<1>6. /\ DOMAIN records' = DOMAIN records
      /\ \A j \in DOMAIN records :
            /\ records'[j].ticker = records[j].ticker /\ records'[j].origin = records[j].origin
            /\ j # e => records'[j].state = records[j].state
      /\ records'[e].state = Answered(p)
  BY <1>2, LenProperties DEF Shaped, StoresShaped, Rewritten
<1> HIDE DEF e
<1>7. \A t : order[t] = "inflight" /\ Seen(t) => Seen(t)'
  BY <1>2, <1>3, <1>5, <1>6 DEF Seen
<1>8. ~Reserving(p)' /\ proc'[p].pc \notin {"send", "reserve"}
  BY <1>4 DEF Reserving, Written
<1>9. RecordsKept
  BY <1>2, Keeping
<1>10. /\ \A t \in Tickers : order'[t] = "inflight" => order[t] = "inflight" /\ Seen(t)'
       /\ \A i \in DOMAIN records' : records'[i].origin \notin LinkIds
  BY <1>1, <1>6, <1>7 DEF Covered, OrderCovered
<1>11. QED
  BY <1>1, <1>4, <1>8, <1>9, <1>10, CoverStays

\* Every step of a submission keeps the cover.
LEMMA SubmissionCovers ==
    ASSUME Shaped, Locking, Counting, account = "live", Covered, NEW p \in Procs, Submission(p)
    PROVE  Covered'
<1>1. CASE PersistFails(p)
  <2>1. /\ proc \in [Procs -> ProcType] /\ UNCHANGED <<spent, order, dollars, records>>
        /\ proc' = [proc EXCEPT ![p] = Returned(p, "rejected")]
    BY <1>1 DEF Shaped, ProcsShaped, PersistFails
  <2>2. Returned(p, "rejected").pc \notin Written
    BY <1>1, Returns, IdleIsTyped DEF PersistFails, Submitting, Procs, Written
  <2>3. QED
    BY <2>1, <2>2, OutsideCovered
<1>2. QED
  BY <1>1, PersistCovers, ReserveCovers, SendCovers, RecordCovers DEF Submission

\* The scan's own steps keep it.
LEMMA ScanCovers ==
    ASSUME Shaped, Covered,
           \/ StartScan \/ Shortlist \/ EndScan \/ ScanDies
           \/ \E t \in Tickers : SubmitCandidate(t) \/ ProposeTicket(t) \/ SendLink(t)
    PROVE  Covered'
<1>1. Scan \in Procs /\ proc \in [Procs -> ProcType] /\ proc[Scan] \in ProcType
  BY DEF Shaped, ProcsShaped, Procs
<1>2. UNCHANGED <<spent, order, dollars, records>> /\ \A q \in Procs \ {Scan} : proc'[q] = proc[q]
  BY <1>1 DEF StartScan, Shortlist, EndScan, ScanDies, SubmitCandidate, ProposeTicket, SendLink, Done
<1>3. proc'[Scan].pc \notin Written
  <2>1. CASE StartScan
    <3>1. PICK approval \in Approval[account] :
            proc' = [proc EXCEPT ![Scan] =
              [IdleProc EXCEPT !.pc = "shortlist",
                               !.mode = IF approval THEN "ticket"
                                        ELSE IF account = "confirm" THEN "link" ELSE "submit"]]
      BY <2>1 DEF StartScan
    <3> DEFINE r == [IdleProc EXCEPT !.pc = "shortlist",
                               !.mode = IF approval THEN "ticket"
                                        ELSE IF account = "confirm" THEN "link" ELSE "submit"]
    <3>2. r.pc = "shortlist"
      BY DEF IdleProc
    <3>3. proc' = [proc EXCEPT ![Scan] = r]
      BY <3>1
    <3> HIDE DEF r
    <3>4. QED
      BY <1>1, <3>2, <3>3 DEF Written
  <2>2. CASE EndScan \/ ScanDies
    BY <1>1, <2>2, IdleIsTyped DEF EndScan, ScanDies, Written
  <2>3. CASE Shortlist
    BY <1>1, <2>3 DEF Shortlist, ProcType, Written
  <2>4. ASSUME NEW t \in Tickers, SubmitCandidate(t) PROVE proc'[Scan].pc = "persist"
    BY <1>1, <2>4 DEF SubmitCandidate, ProcType
  <2>5. ASSUME NEW t \in Tickers, ProposeTicket(t) \/ SendLink(t)
        PROVE  proc'[Scan].pc = "choose"
    BY <1>1, <2>5 DEF ProposeTicket, SendLink, Chosen, Done, ProcType
  <2>6. QED
    BY <2>1, <2>2, <2>3, <2>4, <2>5 DEF Written
<1>4. QED
  BY <1>1, <1>2, <1>3, OutsideCovered

\* The requests' own steps keep it.
LEMMA HandCovers ==
    ASSUME Shaped, Covered, account = "live", NEW h \in Hands,
           \/ TakeLock(h) \/ GiveBack(h) \/ RecheckPasses(h) \/ RecheckFails(h)
           \/ Settle(h) \/ ApprovalRaises(h) \/ HandDies(h)
           \/ (\E id \in TicketIds : Claim(h, id))
           \/ (\E l \in LinkIds : Press(h, l))
    PROVE  Covered'
<1>1. h \in Procs /\ proc \in [Procs -> ProcType] /\ proc[h] \in ProcType
  BY DEF Shaped, ProcsShaped, Procs
<1>2. UNCHANGED <<spent, order, dollars, records>> /\ \A q \in Procs \ {h} : proc'[q] = proc[q]
  BY <1>1
  DEF TakeLock, GiveBack, RecheckPasses, RecheckFails, Settle, ApprovalRaises, HandDies, Claim,
      Press, Go
<1>3. \A l \in LinkIds : ~Press(h, l)
  BY DEF Press, Shaped, StoresShaped
<1>4. proc'[h].pc \notin Written
  <2>1. CASE TakeLock(h) \/ RecheckPasses(h) \/ HandDies(h)
    BY <1>1, <2>1 DEF TakeLock, RecheckPasses, HandDies, Go, ProcType, Written
  <2>2. CASE GiveBack(h) \/ RecheckFails(h) \/ Settle(h) \/ ApprovalRaises(h)
    BY <1>1, <2>2, IdleIsTyped DEF GiveBack, RecheckFails, Settle, ApprovalRaises, Written
  <2>3. ASSUME NEW id \in TicketIds, Claim(h, id) PROVE proc'[h].pc = "lock"
    BY <1>1, <2>3 DEF Claim, IdleProc
  <2>4. QED
    BY <1>3, <2>1, <2>2, <2>3 DEF Written
<1>5. QED
  BY <1>1, <1>2, <1>4, OutsideCovered

\* An order that comes to be shown keeps it.
LEMMA BrokerCovers ==
    ASSUME Shaped, Covered, NEW t \in Tickers, OrderMoves(t)
    PROVE  Covered'
<1>1. /\ order \in [Tickers -> BrokerOrders] /\ UNCHANGED <<spent, dollars, proc, records>>
  BY DEF Shaped, StoresShaped, OrderMoves
<1>2. \A u \in Tickers : /\ order[u] = "none" => order'[u] = "none"
                         /\ order'[u] = "inflight" => order[u] = "inflight"
  BY <1>1 DEF OrderMoves
<1>3. \A u : (Seen(u) => Seen(u)') /\ (Entered(u) => Entered(u)') /\ (Again(u) => Again(u)')
  BY <1>1 DEF Seen, Entered, Again
<1>4. \A u \in Tickers : OrderCovered(u)'
  BY <1>1, <1>2, <1>3 DEF Covered, OrderCovered
<1>5. ASSUME NEW p \in Procs PROVE EntryCovered(p)'
  <2>1. Reserving(p)' => Reserving(p) /\ proc[p].ticker \in Tickers
    BY <1>1 DEF Reserving, Shaped, ProcsShaped, ScanPart, HandPart, Submitting, Procs
  <2>2. EntryCovered(p)
    BY DEF Covered
  <2>3. QED
    BY <1>1, <1>2, <1>3, <2>1, <2>2 DEF EntryCovered
<1>6. QED
  BY <1>1, <1>4, <1>5 DEF Covered

\* A monitor pass leaves the record of an order not shown yet.
LEMMA MonitorCovers ==
    ASSUME Shaped, Covered, NEW i \in DOMAIN records, Monitor(i)
    PROVE  Covered'
<1>1. PICK state \in AllStates :
        /\ Rewritten(i, state)
        /\ order[records[i].ticker] = "inflight" => records[i].state = Confirmed
  BY Monitoring
<1>2. UNCHANGED <<spent, order, dollars, proc>>
  BY DEF Monitor
<1>3. /\ DOMAIN records' = DOMAIN records
      /\ \A j \in DOMAIN records :
            /\ records'[j].ticker = records[j].ticker /\ records'[j].origin = records[j].origin
            /\ j # i => records'[j].state = records[j].state
  BY <1>1, LenProperties DEF Shaped, StoresShaped, Rewritten
<1>4. \A t : order[t] = "inflight" /\ Seen(t) => Seen(t)'
  BY <1>1, <1>3, StatesDiffer DEF Seen
<1>5. \A t : (Entered(t) => Entered(t)') /\ (Again(t) => Again(t)')
  BY <1>1, Keeping, EntriesStay
<1>6. \A t \in Tickers : OrderCovered(t)'
  BY <1>2, <1>4, <1>5 DEF Covered, OrderCovered
<1>7. \A p \in Procs : EntryCovered(p)'
  BY <1>2, <1>5 DEF Covered, EntryCovered, Reserving
<1>8. QED
  BY <1>2, <1>3, <1>6, <1>7 DEF Covered

\* Every step keeps the cover of a live account.
LEMMA CoverStep ==
    ASSUME Shaped, Locking, Counting, LiveCovered, [Next]_vars
    PROVE  LiveCovered'
<1>1. UNCHANGED account
  BY DEF Next, vars, ScanStep, ScanDies, HandStep, ApprovalRaises, HandDies, Claim, Press, Expire,
         Decline, OrderMoves, Monitor, StartScan, Shortlist, EndScan, Submission, PersistEntry,
         PersistFails, Reserve, Send, RecordEntry, SubmitCandidate, ProposeTicket, SendLink,
         TakeLock, GiveBack, RecheckPasses, RecheckFails, Settle
<1>2. SUFFICES ASSUME account = "live", Covered PROVE Covered'
  BY <1>1 DEF LiveCovered
<1>3. Scan \in Procs /\ Hands \subseteq Procs
  BY DEF Procs
<1>4. CASE ScanStep \/ ScanDies
  BY <1>2, <1>3, <1>4, SubmissionCovers, ScanCovers DEF ScanStep
<1>5. ASSUME NEW h \in Hands,
             \/ HandStep(h) \/ ApprovalRaises(h) \/ HandDies(h)
             \/ \E id \in TicketIds : Claim(h, id)
             \/ \E l \in LinkIds : Press(h, l)
      PROVE  Covered'
  <2>1. CASE Submission(h)
    BY <1>2, <1>3, <2>1, SubmissionCovers
  <2>2. CASE ~Submission(h)
    BY <1>2, <1>5, <2>2, HandCovers DEF HandStep
  <2>3. QED
    BY <2>1, <2>2
<1>6. CASE UNCHANGED <<spent, order, dollars, records, proc>>
  BY <1>2, <1>6
  DEF Covered, OrderCovered, EntryCovered, Seen, Entered, Again, Reserving
<1>7. CASE (\E t \in Tickers : OrderMoves(t)) \/ (\E i \in DOMAIN records : Monitor(i))
  BY <1>2, <1>7, BrokerCovers, MonitorCovers
<1>8. QED
  BY <1>4, <1>5, <1>6, <1>7 DEF Next, Expire, Decline, vars

\* At first there is nothing to cover.
LEMMA InitCovers == Init => LiveCovered
<1> SUFFICES ASSUME Init PROVE Covered
  BY DEF LiveCovered
<1>1. \A p \in Procs : proc[p].pc = "idle"
  BY IdleIsTyped DEF Init
<1>2. /\ spent.total <= DailyCap /\ DOMAIN records = {}
      /\ \A t \in Tickers : order[t] = "none" /\ spent.orders[t] = 0
  BY CostAssumption DEF Init
<1>3. QED
  BY <1>1, <1>2 DEF Covered, OrderCovered, EntryCovered, Reserving

\* Two records of a ticker are two.
LEMMA AgainIsReEntered ==
    ASSUME Shaped, NEW t, Again(t)
    PROVE  ReEntered(t)
<1> DEFINE S == {i \in DOMAIN records : records[i].ticker = t}
<1>1. PICK i \in S, j \in S : i # j
  BY DEF Again
<1>2. IsFiniteSet(DOMAIN records)
  <2>1. DOMAIN records = 1 .. Len(records) /\ Len(records) \in Nat
    BY LenProperties DEF Shaped, StoresShaped
  <2>2. QED
    BY <2>1, FS_Interval
<1>3. IsFiniteSet(S)
  BY <1>2, FS_Subset
<1> HIDE DEF S
<1>4. IsFiniteSet({i}) /\ Cardinality({i}) = 1
  BY FS_Singleton
<1>5. Cardinality({i} \union {j}) = 2
  BY <1>1, <1>4, FS_AddElement
<1>6. Cardinality({i} \union {j}) <= Cardinality(S)
  BY <1>1, <1>3, FS_Subset
<1>7. Cardinality(S) \in Nat
  BY <1>3, FS_CardinalityType
<1>8. QED
  BY <1>5, <1>6, <1>7 DEF ReEntered, S

\* What is covered is within the cap.
LEMMA CoverCaps ==
    ASSUME Shaped, Counting, LiveCovered
    PROVE  CapHolds
<1> DEFINE S == {t \in Tickers : order[t] # "none"}
           c == Charged
           v == spent.orders
<1> SUFFICES ASSUME account = "live"
             PROVE  /\ \A t \in S : Counted(t) /\ dollars[t] <= OrderCap
                    /\ MapThenSumSet(LAMBDA t : Charged[t], S) <= DailyCap
  BY DEF CapHolds
<1>1. ASSUME NEW t \in S
      PROVE  Counted(t) /\ dollars[t] <= OrderCap /\ c[t] = v[t]
  <2>1. /\ spent.orders[t] > 0 /\ dollars[t] <= OrderCap
        /\ Again(t) \/ dollars[t] = spent.orders[t]
    BY DEF LiveCovered, Covered, OrderCovered
  <2>2. QED
    BY <2>1, AgainIsReEntered DEF Counted, Charged
<1>2. IsFiniteSet(Tickers) /\ S \subseteq Tickers /\ DailyCap \in Nat
  BY CostAssumption
<1>3. (\A t \in Tickers : c[t] \in Nat) /\ \A t \in Tickers : v[t] \in Nat
  BY DEF Counting, Charged, Shaped, StoresShaped
<1>4. SumOf(v, Tickers) <= DailyCap
  BY DEF LiveCovered, Covered, Counting
<1>5. \A t \in S : c[t] <= v[t]
  BY <1>1, <1>2, <1>3
<1> HIDE DEF S, v, c
<1>6. SumOf(c, S) <= SumOf(v, Tickers)
  BY <1>2, <1>3, <1>5, SumGrows
<1>7. SumOf(c, S) \in Nat /\ SumOf(v, Tickers) \in Nat
  BY <1>2, <1>3, SumIsNat
<1>8. SumOf(c, S) <= DailyCap
  BY <1>2, <1>4, <1>6, <1>7
<1>9. QED
  BY <1>1, <1>8 DEF SumOf, c

\* The orders of a live account are all down in the day's file, and together
\* never for more than the cap, for any tickers, costs, caps and faults: each was
\* counted before it was sent, and dollars are given back only for an order that
\* is not at the broker (live_limits.py: reserve, release). An order entered once
\* is down for what it costs; one entered again under its id is down for what
\* the first attempt would have cost.
THEOREM CapAlwaysHolds == Spec => []CapHolds
BY GateInit, GateStep, InitLocks, LockStep, InitCounts, CountStep, InitCovers, CoverStep, CoverCaps,
   PTL DEF Spec
=============================================================================
