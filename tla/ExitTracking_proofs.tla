------------------------ MODULE ExitTracking_proofs ------------------------
(***************************************************************************)
(* Theorems of ExitTracking for every value of its constants: type         *)
(* correctness, that no order is lost, that one is dropped only when it is *)
(* over, and that held shares keep their stop.                             *)
(*                                                                         *)
(* The first invariant is about one moment: what a process has in hand     *)
(* exists at the broker. The second is about two: what a pass has read of  *)
(* an order that is over stays true, so that it may act on it later.       *)
(***************************************************************************)
EXTENDS ExitTracking, FiniteSetTheorems, TLAPS

---------------------------------------------------------------------------
(* Ids.                                                                    *)

\* The orders a pass or the file may name.
Legs == StopIds \union {Target}

\* An id says who placed its order.
LEMMA IdShapes ==
    /\ Legs \subseteq Ids /\ Sale \in Ids /\ Sale \notin Legs
    /\ Target \in Ids /\ Target \notin StopIds
    /\ NoId \notin Ids
    /\ \A id \in StopIds : id[1] \in Placers /\ id[2] \in 1..MaxStops
BY NameAssumption, BoundsAssumption DEF Legs, Ids, Sale, Target, StopIds, Placers

\* The next id of a part of the code is one of its own.
LEMMA NextIdTyped ==
    ASSUME NEW placer \in Placers, Left(placer)
    PROVE  /\ NextId(placer) \in StopIds
           /\ NextId(placer)[1] = placer
           /\ NextId(placer)[2] \in 1..MaxStops
<1> DEFINE n == 1 + IF placer \in Numbered THEN record.used[placer]
                  ELSE Cardinality({id \in StopIds : id[1] = placer /\ exits[id] # "none"})
<1>1. NextId(placer) = <<placer, n>>
  BY DEF NextId
<1>2. <<placer, n>> \in Ids
  BY <1>1 DEF Left
<1> HIDE DEF n
<1>3. <<placer, n>> \notin {Target, Sale}
  BY DEF Target, Sale, Placers
<1>4. <<placer, n>> \in StopIds
  BY <1>2, <1>3 DEF Ids
<1>5. n \in 1..MaxStops
  BY <1>4 DEF StopIds
<1>6. QED
  BY <1>1, <1>4, <1>5

---------------------------------------------------------------------------
(* The first invariant: types, and every order that is named somewhere     *)
(* exists at the broker. It is taken apart by who changes what.            *)

Seen(id) == exits[id] # "none"
SeenLegs(ids) == \A id \in ids : id \in Legs /\ Seen(id)

BrokerPart ==
    /\ exits \in [Ids -> Statuses]
    /\ held \in BOOLEAN /\ listed \in BOOLEAN /\ core \in BOOLEAN

FilePart == SeenLegs(tracked)

RecordPart ==
    /\ record \in [state : {"failed", "confirmed", "closed"}, stop : StopIds \union {NoId},
                   target : {Target, NoId}, used : [Numbered -> 0..MaxStops],
                   submitted : BOOLEAN, priced : BOOLEAN, unplaced : BOOLEAN]
    /\ \A id \in OnRecord : Seen(id)

ScanTyped ==
    scan \in [pc : Pcs, kind : {"none", "full", "fast"}, seen : BOOLEAN,
              legs : SUBSET Ids, at : StopIds \union {Target, NoId},
              then : {"trail", "monitor", "naked", "idle"},
              status : [Ids -> Readings \union {"unknown"}]]

\* What a pass has in hand, and in which of its steps it has an order.
ScanPart ==
    /\ ScanTyped
    /\ SeenLegs(scan.legs)
    /\ \A id \in Ids : scan.status[id] # "unknown" => id \in Legs /\ Seen(id)
    /\ scan.at # NoId => Seen(scan.at)
    /\ scan.pc \in {"track", "save"} => scan.at \in StopIds /\ scan.legs = {}
    /\ scan.pc = "recheck" => scan.at # NoId
    /\ scan.pc \notin {"recheck", "track", "save"} => scan.at = NoId

HandPart ==
    /\ hand \in [pc : {"idle", "strip", "done"}, legs : SUBSET Ids]
    /\ SeenLegs(hand.legs)

CountPart == faulty \subseteq Ids /\ faults \in 0..MaxFaults

Known ==
    /\ BrokerPart /\ FilePart /\ RecordPart
    /\ ScanPart /\ HandPart /\ CountPart

\* No order disappears from the broker.
Grows == \A id \in Ids : Seen(id) => Seen(id)'

\* It implies the type invariant.
LEMMA KnownTyped == Known => TypeOK
BY IdShapes
DEF Known, BrokerPart, FilePart, RecordPart, ScanPart, ScanTyped, HandPart,
    CountPart, TypeOK, SeenLegs, Seen, Pcs

\* What no step touches stays as it is.
LEMMA Kept ==
    ASSUME Known, Grows
    PROVE  /\ UNCHANGED tracked => FilePart'
           /\ UNCHANGED record => RecordPart'
           /\ UNCHANGED scan => ScanPart'
           /\ UNCHANGED hand => HandPart'
<1>1. UNCHANGED tracked => FilePart'
  BY IdShapes DEF Known, FilePart, Grows, Seen, SeenLegs
<1>2. UNCHANGED record => RecordPart'
  <2>1. OnRecord \subseteq Ids
    BY IdShapes DEF Known, RecordPart, OnRecord, Legs
  <2>2. QED
    BY <2>1 DEF Known, RecordPart, Grows, Seen, OnRecord
<1>3. UNCHANGED scan => ScanPart'
  <2>1. scan.legs \subseteq Ids /\ (scan.at # NoId => scan.at \in Ids)
    BY IdShapes DEF Known, ScanPart, ScanTyped, Legs
  <2>2. QED
    BY <2>1 DEF Known, ScanPart, ScanTyped, Grows, Seen, SeenLegs
<1>4. UNCHANGED hand => HandPart'
  BY IdShapes DEF Known, HandPart, Grows, Seen, SeenLegs
<1>5. QED
  BY <1>1, <1>2, <1>3, <1>4

LEMMA BrokerKept ==
    ASSUME Known, UNCHANGED broker
    PROVE  BrokerPart' /\ Grows
BY DEF Known, BrokerPart, Grows, Seen, broker

\* An order that is there goes from one status to another.
LEMMA StatusMoves ==
    ASSUME Known, NEW id \in Ids, NEW to \in Statuses \ {"none"},
           exits' = [exits EXCEPT ![id] = to],
           held' \in BOOLEAN, UNCHANGED <<listed, core>>
    PROVE  BrokerPart' /\ Grows
BY DEF Known, BrokerPart, Grows, Seen

LEMMA Cancelling ==
    ASSUME Known, NEW id \in Ids, Cancelled(id), UNCHANGED <<held, listed, core>>
    PROVE  BrokerPart' /\ Grows
<1>1. exits[id] \in Statuses
  BY DEF Known, BrokerPart
<1>2. CASE exits[id] = "resting"
  <2>1. exits' = [exits EXCEPT ![id] = "cancelling"]
    BY <1>2 DEF Cancelled, Known, BrokerPart
  <2>2. QED
    BY <2>1, StatusMoves DEF Statuses, Known, BrokerPart
<1>3. CASE exits[id] # "resting"
  <2>1. exits' = exits
    BY <1>3 DEF Cancelled, Known, BrokerPart
  <2>2. QED
    BY <2>1, BrokerKept DEF broker
<1>4. QED
  BY <1>2, <1>3

\* Faults are counted to their bound.
LEMMA Counting ==
    ASSUME Known, NEW ids \in SUBSET Ids,
           CallFails(ids) \/ UNCHANGED <<faulty, faults>>
    PROVE  CountPart'
BY BoundsAssumption DEF Known, CountPart, CallFails

\* A reading is of the order as it is, or its call is a fault.
LEMMA ReadingHolds ==
    ASSUME Known, NEW id \in Ids, NEW reading, Reads(id, reading)
    PROVE  /\ CountPart' /\ faulty \subseteq faulty'
           /\ Seen(id) /\ reading \in {"filled", "dead"} => exits[id] = reading
           /\ reading = "blank" => id \in faulty'
<1>1. CountPart' /\ faulty \subseteq faulty'
  BY Counting DEF Reads, CallFails
<1>2. Seen(id) /\ reading \in {"filled", "dead"} => exits[id] = reading
  BY DEF Reads, Reading, Active, Seen, Known, BrokerPart, Statuses
<1>3. reading = "blank" => id \in faulty'
  BY DEF Reads, CallFails, Reading
<1>4. QED
  BY <1>1, <1>2, <1>3

\* A pass goes on to its next stage, with nothing in hand.
LEMMA GoesOn ==
    ASSUME Known, Grows, NEW pc \in Pcs \ {"recheck", "track", "save"},
           Goto(pc)
    PROVE  ScanPart'
<1>1. ScanTyped'
  BY DEF Goto, IdleScan, Known, ScanPart, ScanTyped
<1>2. scan'.legs = {} /\ scan'.at = NoId /\ scan'.pc = pc
      /\ scan'.status = [id \in Ids |-> "unknown"]
  BY DEF Goto, IdleScan, Known, ScanPart, ScanTyped
<1>3. QED
  BY <1>1, <1>2 DEF ScanPart, SeenLegs

\* A pass has read an order, or has not, and goes on.
LEMMA ReadsOn ==
    ASSUME Known, Grows, NEW id \in Legs, Seen(id), NEW reading \in Readings,
           NEW pc \in Pcs \ {"recheck", "track", "save"},
           NEW legs \in SUBSET Legs, SeenLegs(legs),
           \/ scan' = [scan EXCEPT !.pc = pc, !.at = NoId, !.legs = legs,
                                   !.status[id] = reading]
           \/ scan' = [scan EXCEPT !.pc = pc, !.at = NoId, !.legs = legs]
    PROVE  ScanPart'
<1>1. legs \subseteq Ids /\ id \in Ids
  BY IdShapes
<1>2. ScanTyped'
  <2>1. ScanTyped /\ pc \in Pcs /\ legs \in SUBSET Ids
    BY <1>1 DEF Known, ScanPart
  <2>2. CASE scan' = [scan EXCEPT !.pc = pc, !.at = NoId, !.legs = legs]
    BY <2>1, <2>2 DEF ScanTyped
  <2>3. CASE scan' = [scan EXCEPT !.pc = pc, !.at = NoId, !.legs = legs, !.status[id] = reading]
    <3>1. PICK s \in [Ids -> Readings \union {"unknown"}] :
            scan' = [scan EXCEPT !.pc = pc, !.at = NoId, !.legs = legs, !.status = s]
      BY <2>1, <2>3 DEF ScanTyped
    <3>2. QED
      BY <2>1, <3>1 DEF ScanTyped
  <2>4. QED
    BY <2>2, <2>3
<1>3. /\ scan'.pc = pc /\ scan'.at = NoId /\ scan'.legs = legs
      /\ scan'.status \in {scan.status, [scan.status EXCEPT ![id] = reading]}
  BY DEF Known, ScanPart, ScanTyped
<1>4. \A i \in Ids : scan'.status[i] # "unknown" => i \in Legs /\ Seen(i)
  BY <1>1, <1>3 DEF Known, ScanPart, ScanTyped
<1>5. SeenLegs(scan.legs)' /\ (\A i \in Ids : scan.status[i] # "unknown" => i \in Legs /\ Seen(i))'
  BY <1>1, <1>3, <1>4 DEF SeenLegs, Grows
<1>6. QED
  BY <1>2, <1>3, <1>5 DEF ScanPart

---------------------------------------------------------------------------
(* Every step keeps it.                                                    *)

\* The broker's and the market's own steps.
LEMMA KnownBroker ==
    ASSUME Known
    PROVE  /\ \A id \in Ids : Fills(id) \/ CancelLands(id) \/ Expires(id) => Known'
           /\ ListCatchesUp \/ SessionChanges => Known'
<1>1. ASSUME NEW id \in Ids, Fills(id) \/ CancelLands(id) \/ Expires(id)
      PROVE  Known'
  <2>1. BrokerPart' /\ Grows
    <3>1. PICK to \in Statuses \ {"none"} : exits' = [exits EXCEPT ![id] = to]
      BY <1>1, IdShapes DEF Fills, CancelLands, Expires, Statuses
    <3>2. held' \in BOOLEAN /\ UNCHANGED <<listed, core>>
      BY <1>1, IdShapes DEF Fills, CancelLands, Expires, Known, BrokerPart
    <3>3. QED
      BY <3>1, <3>2, StatusMoves
  <2>2. CountPart'
    BY <1>1, BoundsAssumption DEF Fills, CancelLands, Expires, Known, CountPart
  <2>3. UNCHANGED <<tracked, record, scan, hand>>
    BY <1>1, IdShapes DEF Fills, CancelLands, Expires
  <2>4. QED
    BY <2>1, <2>2, <2>3, Kept DEF Known
<1>2. ASSUME ListCatchesUp \/ SessionChanges
      PROVE  Known'
  <2>1. BrokerPart' /\ Grows
    BY <1>2 DEF ListCatchesUp, SessionChanges, Known, BrokerPart, Grows, Seen
  <2>2. CountPart'
    BY <1>2, BoundsAssumption DEF ListCatchesUp, SessionChanges, Known, CountPart
  <2>3. UNCHANGED <<tracked, record, scan, hand>>
    BY <1>2 DEF ListCatchesUp, SessionChanges
  <2>4. QED
    BY <2>1, <2>2, <2>3, Kept DEF Known
<1>3. QED
  BY <1>1, <1>2

\* A stage that reads and goes on, and a death.
LEMMA KnownTurns ==
    ASSUME Known
    PROVE  /\ StartPass("full") \/ StartPass("fast") => Known'
           /\ SweepEnds \/ NothingToRetry \/ NoTightening \/ NothingToRearm
                \/ NothingToMonitor \/ EndPass => Known'
           /\ CheckRaises => Known'
           /\ ScanDies => Known'
<1>1. ASSUME NEW kind \in {"full", "fast"}, StartPass(kind)
      PROVE  Known'
  <2>1. BrokerPart' /\ Grows
    BY <1>1, BrokerKept DEF StartPass
  <2>2. ScanPart'
    <3>1. ScanTyped'
      BY <1>1 DEF StartPass, IdleScan, ScanTyped, Pcs, Known, BrokerPart
    <3>2. scan'.legs = {} /\ scan'.at = NoId /\ scan'.pc = "exits"
          /\ scan'.status = [id \in Ids |-> "unknown"]
      BY <1>1 DEF StartPass, IdleScan
    <3>3. QED
      BY <3>1, <3>2 DEF ScanPart, SeenLegs
  <2>3. CountPart'
    BY <1>1 DEF StartPass, Known, CountPart
  <2>4. QED
    BY <1>1, <2>1, <2>2, <2>3, Kept DEF StartPass, Known
<1>2. ASSUME SweepEnds \/ NothingToRetry \/ NoTightening \/ NothingToRearm
                \/ NothingToMonitor \/ EndPass
      PROVE  Known'
  <2>1. /\ UNCHANGED <<broker, tracked, record, hand, faulty, faults>>
        /\ \E pc \in {"trail", "monitor", "naked", "idle"} : Goto(pc)
    BY <1>2 DEF SweepEnds, NothingToRetry, NoTightening, NothingToRearm,
                NothingToMonitor, EndPass
  <2>2. BrokerPart' /\ Grows
    BY <2>1, BrokerKept
  <2>3. ScanPart'
    BY <2>1, <2>2, GoesOn DEF Pcs
  <2>4. QED
    BY <2>1, <2>2, <2>3, Kept, Counting DEF Known
<1>3. ASSUME CheckRaises
      PROVE  Known'
  <2>1. BrokerPart' /\ Grows
    BY <1>3, BrokerKept DEF CheckRaises
  <2>2. ScanPart'
    BY <1>3, <2>1, GoesOn DEF CheckRaises, Pcs
  <2>3. CountPart'
    <3>1. OnRecord \subseteq Ids
      BY IdShapes DEF Known, RecordPart, OnRecord, Legs
    <3>2. QED
      BY <1>3, <3>1, Counting DEF CheckRaises
  <2>4. QED
    BY <1>3, <2>1, <2>2, <2>3, Kept DEF CheckRaises, Known
<1>4. ASSUME ScanDies
      PROVE  Known'
  <2>1. BrokerPart' /\ Grows
    BY <1>4, BrokerKept DEF ScanDies
  <2>2. ScanPart'
    <3>1. scan' = IdleScan
      BY <1>4 DEF ScanDies
    <3>2. QED
      BY <3>1 DEF IdleScan, ScanPart, ScanTyped, SeenLegs, Pcs
  <2>3. CountPart'
    <3>1. ((IF scan.pc \in {"settle", "strip"} THEN scan.legs ELSE {})
              \union ({scan.at} \ {NoId})) \in SUBSET Ids
      BY IdShapes DEF Known, ScanPart, ScanTyped, Legs
    <3>2. QED
      BY <1>4, <3>1, Counting DEF ScanDies
  <2>4. QED
    BY <1>4, <2>1, <2>2, <2>3, Kept DEF ScanDies, Known
<1>5. QED
  BY <1>1, <1>2, <1>3, <1>4

\* The sweep: it has in hand what it read from the file.
LEMMA KnownSweep ==
    ASSUME Known
    PROVE  /\ ReadPositions \/ SweepDecides \/ RecheckLeg => Known'
           /\ \A id \in Ids : ReadLeg(id) \/ DropLeg(id) \/ CancelLeg(id) => Known'
<1>1. ASSUME ReadPositions
      PROVE  Known'
  <2>1. BrokerPart' /\ Grows
    BY <1>1, BrokerKept DEF ReadPositions
  <2>2. ScanPart'
    <3>1. CASE Goto("retry") \/ Goto("trail")
      BY <3>1, <2>1, GoesOn DEF Pcs
    <3>2. CASE scan' = [scan EXCEPT !.pc = "sweep", !.legs = tracked]
      <4>1. scan.at = NoId
        BY <1>1 DEF ReadPositions, Known, ScanPart
      <4>2. tracked \subseteq Ids
        BY IdShapes DEF Known, FilePart, SeenLegs
      <4>3. ScanTyped'
        BY <3>2, <4>2 DEF Known, ScanPart, ScanTyped, Pcs
      <4>4. /\ scan'.pc = "sweep" /\ scan'.legs = tracked /\ scan'.at = NoId
            /\ scan'.status = scan.status
        BY <3>2, <4>1 DEF Known, ScanPart, ScanTyped
      <4>5. SeenLegs(scan.legs)' /\ (\A id \in Ids : scan.status[id] # "unknown" => id \in Legs /\ Seen(id))'
        BY <4>2, <4>4, <2>1 DEF Known, ScanPart, FilePart, SeenLegs, Grows
      <4>6. QED
        BY <4>3, <4>4, <4>5 DEF ScanPart
    <3>3. QED
      BY <1>1, <3>1, <3>2 DEF ReadPositions
  <2>3. CountPart'
    BY <1>1, Counting DEF ReadPositions
  <2>4. QED
    BY <1>1, <2>1, <2>2, <2>3, Kept DEF ReadPositions, Known
<1>2. ASSUME SweepDecides
      PROVE  Known'
  <2>1. BrokerPart' /\ Grows
    BY <1>2, BrokerKept DEF SweepDecides
  <2>2. ScanPart'
    <3>1. CASE Goto("trail")
      BY <3>1, <2>1, GoesOn DEF Pcs
    <3>2. CASE scan' = [scan EXCEPT !.pc = "settle",
                                    !.legs = {id \in Ids : scan.status[id] # "unknown"}]
      <4>1. scan.at = NoId
        BY <1>2 DEF SweepDecides, Known, ScanPart
      <4>2. ScanTyped'
        BY <3>2 DEF Known, ScanPart, ScanTyped, Pcs
      <4>3. /\ scan'.pc = "settle" /\ scan'.at = NoId /\ scan'.status = scan.status
            /\ scan'.legs = {id \in Ids : scan.status[id] # "unknown"}
        BY <3>2, <4>1 DEF Known, ScanPart, ScanTyped
      <4>4. SeenLegs(scan.legs)' /\ (\A id \in Ids : scan.status[id] # "unknown" => id \in Legs /\ Seen(id))'
        BY <4>3, <2>1 DEF Known, ScanPart, SeenLegs, Grows
      <4>5. QED
        BY <4>2, <4>3, <4>4 DEF ScanPart
    <3>3. QED
      BY <1>2, <3>1, <3>2 DEF SweepDecides
  <2>3. QED
    BY <1>2, <2>1, <2>2, Kept, Counting DEF SweepDecides, Known
<1>3. ASSUME RecheckLeg
      PROVE  Known'
  <2>1. BrokerPart' /\ Grows
    BY <1>3, BrokerKept DEF RecheckLeg
  <2>2. scan.at # NoId /\ scan.at \in Ids
    BY <1>3, IdShapes DEF RecheckLeg, Known, ScanPart, ScanTyped, Legs
  <2>3. /\ scan.at \in Legs /\ Seen(scan.at) /\ SeenLegs(scan.legs)
        /\ scan.legs \in SUBSET Legs /\ scan.legs \union {scan.at} \in SUBSET Legs
        /\ SeenLegs(scan.legs \union {scan.at})
    BY <2>2 DEF Known, ScanPart, ScanTyped, SeenLegs, Legs
  <2>4. ScanPart'
    <3>1. CASE scan' = [scan EXCEPT !.pc = "settle", !.at = NoId]
      <4>1. scan' = [scan EXCEPT !.pc = "settle", !.at = NoId, !.legs = scan.legs]
        BY <3>1 DEF Known, ScanPart, ScanTyped
      <4>2. "active" \in Readings /\ "settle" \in Pcs \ {"recheck", "track", "save"}
        BY DEF Readings, Pcs
      <4>3. QED
        BY <4>1, <4>2, <2>1, <2>3, ReadsOn
    <3>2. ASSUME NEW reading \in Readings,
                 scan' = [scan EXCEPT !.pc = "settle", !.at = NoId,
                            !.legs = IF reading = "active" THEN @ ELSE @ \union {scan.at},
                            !.status[scan.at] = reading]
          PROVE  ScanPart'
      <4>1. PICK legs \in {scan.legs, scan.legs \union {scan.at}} :
              scan' = [scan EXCEPT !.pc = "settle", !.at = NoId, !.legs = legs,
                                   !.status[scan.at] = reading]
        BY <3>2
      <4>2. legs \in SUBSET Legs /\ SeenLegs(legs)
        BY <2>3
      <4>3. "settle" \in Pcs \ {"recheck", "track", "save"}
        BY DEF Pcs
      <4>4. QED
        BY <4>1, <4>2, <4>3, <2>1, <2>3, ReadsOn
    <3>3. QED
      BY <1>3, <3>1, <3>2 DEF RecheckLeg
  <2>5. CountPart'
    <3>1. CASE CallFails({scan.at})
      BY <2>2, <3>1, Counting
    <3>2. CASE \E reading \in Readings : Reads(scan.at, reading)
      BY <2>2, <3>2, ReadingHolds
    <3>3. QED
      BY <1>3, <3>1, <3>2 DEF RecheckLeg
  <2>6. QED
    BY <1>3, <2>1, <2>4, <2>5, Kept DEF RecheckLeg, Known
<1>4. ASSUME NEW id \in Ids, ReadLeg(id)
      PROVE  Known'
  <2>1. BrokerPart' /\ Grows
    BY <1>4, BrokerKept DEF ReadLeg
  <2>2. ScanPart'
    <3>1. /\ id \in Legs /\ Seen(id) /\ scan.pc = "sweep" /\ scan.at = NoId
          /\ scan.legs \ {id} \in SUBSET Legs /\ SeenLegs(scan.legs \ {id})
          /\ scan.pc \in Pcs \ {"recheck", "track", "save"}
      BY <1>4 DEF ReadLeg, Known, ScanPart, ScanTyped, SeenLegs, Pcs
    <3>2. scan = [scan EXCEPT !.pc = scan.pc, !.at = NoId]
      BY <3>1 DEF Known, ScanPart, ScanTyped
    <3>3. CASE scan' = [scan EXCEPT !.legs = @ \ {id}]
      <4>1. scan' = [scan EXCEPT !.pc = scan.pc, !.at = NoId, !.legs = scan.legs \ {id}]
        BY <3>2, <3>3 DEF Known, ScanPart, ScanTyped
      <4>2. "active" \in Readings
        BY DEF Readings
      <4>3. QED
        BY <3>1, <4>1, <4>2, <2>1, ReadsOn
    <3>4. ASSUME NEW reading \in Readings,
                 scan' = [scan EXCEPT !.legs = @ \ {id}, !.status[id] = reading]
          PROVE  ScanPart'
      <4>1. scan' = [scan EXCEPT !.pc = scan.pc, !.at = NoId, !.legs = scan.legs \ {id},
                                 !.status[id] = reading]
        BY <3>2, <3>4 DEF Known, ScanPart, ScanTyped
      <4>2. QED
        BY <3>1, <4>1, <2>1, ReadsOn
    <3>5. QED
      BY <1>4, <3>3, <3>4 DEF ReadLeg
  <2>3. CountPart'
    BY <1>4, Counting, ReadingHolds DEF ReadLeg
  <2>4. QED
    BY <1>4, <2>1, <2>2, <2>3, Kept DEF ReadLeg, Known
<1>5. ASSUME NEW id \in Ids, DropLeg(id) \/ CancelLeg(id)
      PROVE  Known'
  <2>1. BrokerPart' /\ Grows
    <3>1. UNCHANGED broker \/ (Cancelled(id) /\ UNCHANGED <<held, listed, core>>)
      BY <1>5 DEF DropLeg, CancelLeg, broker
    <3>2. QED
      BY <3>1, BrokerKept, Cancelling
  <2>2. id \in Legs /\ Seen(id) /\ scan.legs \subseteq Ids
    BY <1>5 DEF DropLeg, CancelLeg, Known, ScanPart, ScanTyped, SeenLegs
  <2>3. ScanPart'
    <3>1. \/ scan' = [scan EXCEPT !.legs = @ \ {id}]
          \/ scan' = [scan EXCEPT !.legs = @ \ {id}, !.pc = "recheck", !.at = id]
      BY <1>5 DEF DropLeg, CancelLeg
    <3>2. ScanTyped'
      <4>1. ScanTyped /\ id \in StopIds \union {Target, NoId} /\ scan.legs \ {id} \in SUBSET Ids
        BY <2>2 DEF Known, ScanPart, Legs
      <4>2. CASE scan' = [scan EXCEPT !.legs = @ \ {id}]
        BY <4>1, <4>2 DEF ScanTyped
      <4>3. CASE scan' = [scan EXCEPT !.legs = @ \ {id}, !.pc = "recheck", !.at = id]
        BY <4>1, <4>3 DEF ScanTyped, Pcs
      <4>4. QED
        BY <3>1, <4>2, <4>3
    <3>3. /\ scan'.legs = scan.legs \ {id} /\ scan'.status = scan.status
          /\ \/ scan'.pc = "settle" /\ scan'.at = NoId
             \/ scan'.pc = "recheck" /\ scan'.at = id
      BY <1>5, <3>1 DEF DropLeg, CancelLeg, Known, ScanPart, ScanTyped
    <3>4. SeenLegs(scan.legs)' /\ (\A i \in Ids : scan.status[i] # "unknown" => i \in Legs /\ Seen(i))'
      BY <3>3, <2>1, <2>2 DEF Known, ScanPart, SeenLegs, Grows
    <3>5. id # NoId
      BY IdShapes
    <3>6. QED
      BY <3>2, <3>3, <3>4, <3>5, <2>1, <2>2 DEF ScanPart, Grows
  <2>4. FilePart'
    <3>1. tracked' \subseteq tracked
      BY <1>5 DEF DropLeg, CancelLeg
    <3>2. QED
      BY <3>1, <2>1, IdShapes DEF Known, FilePart, SeenLegs, Grows
  <2>5. CountPart'
    BY <1>5, Counting DEF DropLeg, CancelLeg
  <2>6. QED
    BY <1>5, <2>1, <2>3, <2>4, <2>5, Kept DEF DropLeg, CancelLeg, Known
<1>6. QED
  BY <1>1, <1>2, <1>3, <1>4, <1>5

\* A placement, whoever makes it: the order exists before it is named.
LEMMA KnownPlaced ==
    ASSUME Known, NEW pc \in {"retry", "strip", "reprotect", "rearm", "naked"},
           NEW placer \in Placers, NEW then \in {"trail", "monitor", "naked", "idle"},
           NEW failed \in {record, [record EXCEPT !.unplaced = TRUE]},
           Place(pc, placer, then, failed)
    PROVE  Known'
<1> DEFINE id == NextId(placer)
           next == [IdleScan EXCEPT !.kind = scan.kind, !.seen = scan.seen, !.pc = then]
<1>1. /\ Left(placer) /\ UNCHANGED <<held, listed, core, tracked, hand>>
      /\ \/ /\ IF exits[id] = "none" THEN Accepts(id) /\ Placed(id) ELSE UNCHANGED exits
            /\ scan' = [next EXCEPT !.pc = "track", !.at = id, !.then = then]
            /\ UNCHANGED <<record, faulty, faults>>
         \/ /\ exits[id] = "none" /\ ~Accepts(id)
            /\ scan' = next /\ record' = failed
            /\ UNCHANGED <<exits, faulty, faults>>
         \/ /\ exits[id] = "none" /\ Accepts(id)
            /\ CallFails({id})
            /\ Placed(id) \/ UNCHANGED exits
            /\ scan' = next
            /\ record' = IF exits' = exits THEN failed ELSE Counted(placer, failed)
  BY DEF Place
<1>2. id \in StopIds /\ id \in Ids /\ id[1] = placer /\ id[2] \in 1..MaxStops
  BY <1>1, NextIdTyped DEF Ids
<1>3. BrokerPart' /\ Grows
  <2>1. CASE UNCHANGED exits
    BY <1>1, <2>1, BrokerKept DEF broker
  <2>2. CASE Placed(id)
    BY <1>1, <1>2, <2>2, StatusMoves DEF Placed, Statuses, Known, BrokerPart
  <2>3. QED
    BY <1>1, <2>1, <2>2
<1>4. scan.kind \in {"none", "full", "fast"} /\ scan.seen \in BOOLEAN
  BY DEF Known, ScanPart, ScanTyped
<1>5. ScanPart'
  <2>1. CASE scan' = next
    <3>1. ScanTyped'
      BY <2>1, <1>4 DEF IdleScan, ScanTyped, Pcs
    <3>2. scan'.legs = {} /\ scan'.at = NoId /\ scan'.pc = then
          /\ scan'.status = [i \in Ids |-> "unknown"]
      BY <2>1 DEF IdleScan
    <3>3. QED
      BY <3>1, <3>2 DEF ScanPart, SeenLegs
  <2>2. CASE scan' = [next EXCEPT !.pc = "track", !.at = id, !.then = then]
    <3> HIDE DEF id
    <3>1. ScanTyped'
      BY <2>2, <1>2, <1>4 DEF IdleScan, ScanTyped, Pcs
    <3>2. scan'.legs = {} /\ scan'.at = id /\ scan'.pc = "track"
          /\ scan'.status = [i \in Ids |-> "unknown"]
      BY <2>2 DEF IdleScan
    <3>3. exits'[id] # "none"
      <4>1. CASE scan' = next
        BY <3>2, <4>1 DEF IdleScan
      <4>2. CASE exits[id] = "none" /\ Placed(id)
        BY <1>2, <4>2 DEF Placed, Known, BrokerPart
      <4>3. CASE exits[id] # "none" /\ UNCHANGED exits
        BY <4>3
      <4>4. QED
        BY <1>1, <4>1, <4>2, <4>3 DEF id
    <3>4. QED
      BY <3>1, <3>2, <3>3, <1>2 DEF ScanPart, SeenLegs, Seen
  <2>3. QED
    BY <1>1, <2>1, <2>2
<1>6. RecordPart'
  <2> HIDE DEF id
  <2>1. CASE record' = record
    BY <2>1, <1>3, Kept
  <2>2. RecordPart /\ record.used \in [Numbered -> 0..MaxStops]
    BY DEF Known, RecordPart
  <2>3. (placer \in {"rearm", "naked"}) => record.used[placer] + 1 \in 0..MaxStops
    BY <1>2, <2>2, BoundsAssumption DEF id, NextId, Numbered
  <2>4. failed \in [state : {"failed", "confirmed", "closed"}, stop : StopIds \union {NoId},
                   target : {Target, NoId}, used : [Numbered -> 0..MaxStops],
                   submitted : BOOLEAN, priced : BOOLEAN, unplaced : BOOLEAN]
        /\ failed.stop = record.stop /\ failed.target = record.target
        /\ failed.used = record.used
    BY <2>2 DEF RecordPart
  <2>5. CASE record' = failed
    BY <2>2, <2>4, <2>5, <1>3, IdShapes DEF RecordPart, OnRecord, Grows, Seen, Legs
  <2>6. CASE record' = Counted(placer, failed) /\ placer \in {"rearm", "naked"}
    <3>1. record' = [failed EXCEPT !.used[placer] = @ + 1]
      BY <2>6 DEF Counted
    <3>2. /\ record' \in [state : {"failed", "confirmed", "closed"}, stop : StopIds \union {NoId},
                   target : {Target, NoId}, used : [Numbered -> 0..MaxStops],
                   submitted : BOOLEAN, priced : BOOLEAN, unplaced : BOOLEAN]
          /\ record'.stop = record.stop /\ record'.target = record.target
      BY <3>1, <2>3, <2>4, <2>6
    <3>3. QED
      BY <3>2, <2>2, <1>3, IdShapes DEF RecordPart, OnRecord, Grows, Seen, Legs
  <2>7. CASE record' = Counted(placer, failed) /\ placer \notin {"rearm", "naked"}
    BY <2>5, <2>7 DEF Counted
  <2>8. QED
    BY <1>1, <2>1, <2>5, <2>6, <2>7
<1>7. CountPart'
  BY <1>1, <1>2, Counting
<1>8. QED
  BY <1>1, <1>3, <1>5, <1>6, <1>7, Kept DEF Known

\* The five parts of the code that place a stop.
LEMMA KnownStops ==
    ASSUME Known, RetryStop \/ ReplaceStop \/ Reprotect \/ RearmStop \/ AttachStop
    PROVE  Known'
<1>1. CASE RetryStop
  BY <1>1, KnownPlaced DEF RetryStop, Placers
<1>2. CASE ReplaceStop
  BY <1>2, KnownPlaced DEF ReplaceStop, Placers
<1>3. CASE Reprotect
  BY <1>3, KnownPlaced DEF Reprotect, Placers
<1>4. CASE RearmStop
  BY <1>4, KnownPlaced DEF RearmStop, Placers
<1>5. CASE AttachStop
  BY <1>5, KnownPlaced DEF AttachStop, Placers
<1>6. QED
  BY <1>1, <1>2, <1>3, <1>4, <1>5

\* What a placement writes down exists.
LEMMA KnownWritten ==
    ASSUME Known, Track \/ Save
    PROVE  Known'
<1>1. BrokerPart' /\ Grows
  BY BrokerKept DEF Track, Save
<1>2. scan.at \in StopIds /\ scan.at \in Legs /\ Seen(scan.at)
      /\ scan.legs = {} /\ scan.at # NoId
  BY IdShapes DEF Track, Save, Known, ScanPart, Legs, Ids
<1>3. ScanPart'
  <2>1. CASE Track
    <3>1. scan' = [scan EXCEPT !.pc = "save"]
      BY <2>1 DEF Track
    <3>2. ScanTyped'
      BY <3>1 DEF Known, ScanPart, ScanTyped, Pcs
    <3>3. /\ scan'.pc = "save" /\ scan'.at = scan.at /\ scan'.legs = {}
          /\ scan'.status = scan.status
      BY <3>1, <1>2 DEF Known, ScanPart, ScanTyped
    <3>4. QED
      BY <3>2, <3>3, <1>1, <1>2, IdShapes DEF Known, ScanPart, SeenLegs, Grows, Legs
  <2>2. CASE Save
    <3>1. Goto(scan.then)
      BY <2>2 DEF Save
    <3>2. scan.then \in Pcs \ {"recheck", "track", "save"}
      BY DEF Known, ScanPart, ScanTyped, Pcs
    <3>3. QED
      BY <3>1, <3>2, <1>1, GoesOn
  <2>3. QED
    BY <2>1, <2>2
<1>4. FilePart'
  <2>1. tracked' \subseteq tracked \union {scan.at}
    BY DEF Track, Save
  <2>2. \A id \in tracked : id \in Legs /\ id \in Ids /\ Seen(id)
    BY IdShapes DEF Known, FilePart, SeenLegs
  <2>3. exits'[scan.at] # "none"
    BY <1>1, <1>2, IdShapes DEF Grows, Seen
  <2>4. QED
    BY <2>1, <2>2, <2>3, <1>1, <1>2 DEF FilePart, SeenLegs, Grows, Seen
<1>5. RecordPart'
  <2>1. CASE Track
    BY <2>1, <1>1, Kept DEF Track
  <2>2. CASE Save
    <3>1. /\ record' \in [state : {"failed", "confirmed", "closed"}, stop : StopIds \union {NoId},
                   target : {Target, NoId}, used : [Numbered -> 0..MaxStops],
                   submitted : BOOLEAN, priced : BOOLEAN, unplaced : BOOLEAN]
          /\ record'.stop \in {record.stop, scan.at} /\ record'.target = record.target
      <4>1. scan.at[2] \in 0..MaxStops
        BY <1>2, IdShapes
      <4>2. [p \in Numbered |-> IF p = scan.at[1] THEN scan.at[2] ELSE record.used[p]]
              \in [Numbered -> 0..MaxStops]
        BY <4>1 DEF Known, RecordPart
      <4>3. QED
        BY <2>2, <4>2, <1>2 DEF Save, Known, RecordPart
    <3>2. exits'[scan.at] # "none"
      BY <1>1, <1>2, IdShapes DEF Grows, Seen
    <3>3. \A id \in OnRecord : id \in Ids /\ Seen(id)
      BY IdShapes DEF Known, RecordPart, OnRecord, Legs
    <3>4. OnRecord' \subseteq OnRecord \union {scan.at}
      BY <3>1 DEF OnRecord
    <3>5. QED
      BY <3>1, <3>2, <3>3, <3>4, <1>1 DEF RecordPart, Grows, Seen
  <2>3. QED
    BY <2>1, <2>2
<1>6. QED
  BY <1>1, <1>3, <1>4, <1>5, Kept, Counting DEF Track, Save, Known

\* Trailing has in hand what it takes out of the file.
LEMMA KnownTrailing ==
    ASSUME Known
    PROVE  /\ Tightens => Known'
           /\ \A id \in Ids : StripStop(id) => Known'
<1>1. ASSUME Tightens
      PROVE  Known'
  <2>1. BrokerPart' /\ Grows
    BY <1>1, BrokerKept DEF Tightens
  <2>2. tracked' \subseteq tracked /\ scan' = [scan EXCEPT !.pc = "strip", !.legs = tracked \intersect StopIds]
    BY <1>1 DEF Tightens
  <2>3. \A id \in tracked : id \in Legs /\ id \in Ids /\ Seen(id)
    BY IdShapes DEF Known, FilePart, SeenLegs
  <2>4. ScanPart'
    <3>1. ScanTyped'
      BY <2>2, <2>3 DEF Known, ScanPart, ScanTyped, Pcs
    <3>2. /\ scan'.pc = "strip" /\ scan'.at = NoId /\ scan'.status = scan.status
          /\ scan'.legs \subseteq tracked
      BY <1>1, <2>2 DEF Tightens, Known, ScanPart, ScanTyped
    <3>3. QED
      BY <3>1, <3>2, <2>1, <2>3 DEF Known, ScanPart, SeenLegs, Grows
  <2>5. FilePart'
    BY <2>1, <2>2, <2>3 DEF FilePart, SeenLegs, Grows
  <2>6. QED
    BY <1>1, <2>1, <2>4, <2>5, Kept, Counting DEF Tightens, Known
<1>2. ASSUME NEW id \in Ids, StripStop(id)
      PROVE  Known'
  <2>1. BrokerPart' /\ Grows
    <3>1. UNCHANGED broker \/ (Cancelled(id) /\ UNCHANGED <<held, listed, core>>)
      BY <1>2 DEF StripStop, broker
    <3>2. QED
      BY <3>1, BrokerKept, Cancelling
  <2>2. ScanPart'
    <3>1. scan' = [scan EXCEPT !.legs = @ \ {id}]
      BY <1>2 DEF StripStop
    <3>2. ScanTyped'
      BY <3>1 DEF Known, ScanPart, ScanTyped
    <3>3. /\ scan'.pc = "strip" /\ scan'.at = NoId /\ scan'.status = scan.status
          /\ scan'.legs \subseteq scan.legs /\ scan.legs \subseteq Ids
      BY <1>2, <3>1 DEF StripStop, Known, ScanPart, ScanTyped
    <3>4. QED
      BY <3>2, <3>3, <2>1 DEF Known, ScanPart, SeenLegs, Grows
  <2>3. CountPart'
    BY <1>2, Counting DEF StripStop
  <2>4. QED
    BY <1>2, <2>1, <2>2, <2>3, Kept DEF StripStop, Known
<1>3. QED
  BY <1>1, <1>2

\* The exit pass has in hand what the record names.
LEMMA KnownMonitor ==
    ASSUME Known
    PROVE  FillPass \/ CheckExit \/ EndSibling \/ ConfirmSibling \/ CloseRecord => Known'
<1>1. ASSUME FillPass
      PROVE  Known'
  <2>1. BrokerPart' /\ Grows
    BY <1>1, BrokerKept DEF FillPass
  <2>2. ScanPart'
    BY <1>1, <2>1, GoesOn DEF FillPass, Pcs
  <2>3. RecordPart'
    <3>1. CASE UNCHANGED record
      BY <3>1, <2>1, Kept
    <3>2. CASE record' = [record EXCEPT !.state = "confirmed"]
      BY <3>2, <2>1, IdShapes DEF Known, RecordPart, OnRecord, Grows, Legs
    <3>3. QED
      BY <1>1, <3>1, <3>2 DEF FillPass
  <2>4. QED
    BY <1>1, <2>1, <2>2, <2>3, Kept, Counting DEF FillPass, Known
<1>2. ASSUME CheckExit
      PROVE  Known'
  <2>1. BrokerPart' /\ Grows
    BY <1>2, BrokerKept DEF CheckExit
  <2>2. OnRecord \subseteq Legs /\ OnRecord \subseteq Ids /\ \A id \in OnRecord : Seen(id)
    BY IdShapes DEF Known, RecordPart, OnRecord, Legs
  <2>3. ScanPart'
    <3>1. CASE Goto("rearm")
      BY <3>1, <2>1, GoesOn DEF Pcs
    <3>2. ASSUME NEW blank \in {{}} \union {{id} : id \in OnRecord}, NEW legs \in SUBSET OnRecord,
                 scan' = [scan EXCEPT !.pc = "sibling", !.legs = legs,
                    !.status = [id \in Ids |-> IF id \in blank THEN "blank" ELSE @[id]]]
          PROVE  ScanPart'
      <4> DEFINE s == [id \in Ids |-> IF id \in blank THEN "blank" ELSE scan.status[id]]
      <4>1. s \in [Ids -> Readings \union {"unknown"}]
        BY DEF Known, ScanPart, ScanTyped, Readings
      <4>2. \A id \in Ids : s[id] # "unknown" => id \in Legs /\ Seen(id)
        BY <2>2 DEF Known, ScanPart
      <4>3. scan' = [scan EXCEPT !.pc = "sibling", !.legs = legs, !.status = s]
        BY <3>2 DEF Known, ScanPart, ScanTyped
      <4> HIDE DEF s
      <4>4. ScanTyped'
        BY <2>2, <4>1, <4>3 DEF Known, ScanPart, ScanTyped, Pcs
      <4>5. /\ scan'.pc = "sibling" /\ scan'.at = NoId /\ scan'.status = s
            /\ scan'.legs \subseteq OnRecord
        BY <1>2, <4>3 DEF CheckExit, Known, ScanPart, ScanTyped
      <4>6. QED
        BY <4>4, <4>5, <4>2, <2>1, <2>2 DEF ScanPart, SeenLegs, Grows
    <3>3. PICK blank \in {{}} \union {{id} : id \in OnRecord} :
            \/ Goto("rearm")
            \/ scan' = [scan EXCEPT !.pc = "sibling", !.legs = OnRecord \ (Exited \ blank),
                  !.status = [id \in Ids |-> IF id \in blank THEN "blank" ELSE @[id]]]
      BY <1>2 DEF CheckExit
    <3>4. OnRecord \ (Exited \ blank) \in SUBSET OnRecord
      OBVIOUS
    <3>5. QED
      BY <3>1, <3>2, <3>3, <3>4
  <2>4. CountPart'
    <3>1. PICK blank \in {{}} \union {{id} : id \in OnRecord} :
            IF blank = {} THEN UNCHANGED <<faulty, faults>> ELSE CallFails(blank)
      BY <1>2 DEF CheckExit
    <3>2. blank \in SUBSET Ids
      BY <2>2
    <3>3. QED
      BY <3>1, <3>2, Counting
  <2>5. QED
    BY <1>2, <2>1, <2>3, <2>4, Kept DEF CheckExit, Known
<1>3. ASSUME EndSibling
      PROVE  Known'
  <2>1. scan.legs \subseteq Ids
    BY DEF Known, ScanPart, ScanTyped
  <2>2. BrokerPart' /\ Grows
    <3>1. \/ UNCHANGED broker
          \/ (\E id \in Ids : Cancelled(id)) /\ UNCHANGED <<held, listed, core>>
      BY <1>3, <2>1 DEF EndSibling, broker
    <3>2. QED
      BY <3>1, BrokerKept, Cancelling
  <2>3. ScanPart'
    <3>1. CASE Goto("naked")
      BY <3>1, <2>2, GoesOn DEF Pcs
    <3>2. CASE scan' = [scan EXCEPT !.pc = "confirm"]
      <4>1. ScanTyped'
        BY <3>2 DEF Known, ScanPart, ScanTyped, Pcs
      <4>2. /\ scan'.pc = "confirm" /\ scan'.at = NoId /\ scan'.status = scan.status
            /\ scan'.legs = scan.legs
        BY <1>3, <3>2 DEF EndSibling, Known, ScanPart, ScanTyped
      <4>3. QED
        BY <4>1, <4>2, <2>1, <2>2 DEF Known, ScanPart, SeenLegs, Grows
    <3>3. QED
      BY <1>3, <3>1, <3>2 DEF EndSibling
  <2>4. CountPart'
    BY <1>3, <2>1, Counting DEF EndSibling
  <2>5. QED
    BY <1>3, <2>2, <2>3, <2>4, Kept DEF EndSibling, Known
<1>5. ASSUME ConfirmSibling
      PROVE  Known'
  <2>1. BrokerPart' /\ Grows
    BY <1>5, BrokerKept DEF ConfirmSibling
  <2>2. scan.legs \subseteq Ids /\ SeenLegs(scan.legs)
    BY DEF Known, ScanPart, ScanTyped
  <2>3. ScanPart'
    <3>1. CASE Goto("naked")
      BY <3>1, <2>1, GoesOn DEF Pcs
    <3>2. /\ "close" \in Pcs \ {"recheck", "track", "save"} /\ "active" \in Readings
          /\ scan.at = NoId /\ scan.legs \in SUBSET Legs
      BY <1>5, <2>2 DEF Pcs, Readings, ConfirmSibling, Known, ScanPart, SeenLegs
    <3>3. CASE scan' = [scan EXCEPT !.pc = "close"]
      <4>1. scan' = [scan EXCEPT !.pc = "close", !.at = NoId, !.legs = scan.legs]
        BY <3>2, <3>3 DEF Known, ScanPart, ScanTyped
      <4>2. ScanTyped'
        BY <3>2, <3>3 DEF Known, ScanPart, ScanTyped
      <4>3. /\ scan'.pc = "close" /\ scan'.at = NoId /\ scan'.legs = scan.legs
            /\ scan'.status = scan.status
        BY <4>1 DEF Known, ScanPart, ScanTyped
      <4>4. QED
        BY <4>2, <4>3, <2>1, <2>2 DEF Known, ScanPart, SeenLegs, Grows
    <3>4. ASSUME NEW id \in scan.legs, NEW reading \in Readings,
                 scan' = [scan EXCEPT !.pc = "close", !.status[id] = reading]
          PROVE  ScanPart'
      <4>1. id \in Legs /\ Seen(id)
        BY <2>2 DEF SeenLegs
      <4>2. scan' = [scan EXCEPT !.pc = "close", !.at = NoId, !.legs = scan.legs,
                                 !.status[id] = reading]
        BY <3>2, <3>4 DEF Known, ScanPart, ScanTyped
      <4>3. QED
        BY <4>1, <4>2, <3>2, <2>1, <2>2, ReadsOn
    <3>5. QED
      BY <1>5, <3>1, <3>3, <3>4 DEF ConfirmSibling
  <2>4. CountPart'
    BY <1>5, <2>2, Counting, ReadingHolds DEF ConfirmSibling
  <2>5. QED
    BY <1>5, <2>1, <2>3, <2>4, Kept DEF ConfirmSibling, Known
<1>4. ASSUME CloseRecord
      PROVE  Known'
  <2>1. BrokerPart' /\ Grows
    BY <1>4, BrokerKept DEF CloseRecord
  <2>2. ScanPart'
    BY <1>4, <2>1, GoesOn DEF CloseRecord, Pcs
  <2>3. FilePart'
    <3>1. tracked' \subseteq tracked
      BY <1>4 DEF CloseRecord
    <3>2. QED
      BY <3>1, <2>1, IdShapes DEF Known, FilePart, SeenLegs, Grows
  <2>4. RecordPart'
    <3>1. PICK s \in {record.state, "closed"} : record' = [record EXCEPT !.state = s]
      BY <1>4 DEF CloseRecord
    <3>2. record'.stop = record.stop /\ record'.target = record.target
      BY <3>1 DEF Known, RecordPart
    <3>3. \A id \in OnRecord : id \in Ids /\ Seen(id)
      BY IdShapes DEF Known, RecordPart, OnRecord, Legs
    <3>4. QED
      BY <3>1, <3>2, <3>3, <2>1 DEF Known, RecordPart, OnRecord, Grows
  <2>5. QED
    BY <1>4, <2>1, <2>2, <2>3, <2>4, Kept, Counting DEF CloseRecord, Known
<1>6. QED
  BY <1>1, <1>2, <1>3, <1>4, <1>5

\* The button has in hand what it takes out of the file.
LEMMA KnownByHand ==
    ASSUME Known
    PROVE  /\ PressClose \/ SellByHand \/ CloseDies => Known'
           /\ \A id \in Ids : CancelForClose(id) => Known'
<1>1. ASSUME PressClose
      PROVE  Known'
  <2>1. BrokerPart' /\ Grows
    BY <1>1, BrokerKept DEF PressClose
  <2>2. tracked' = {} /\ hand' = [pc |-> "strip", legs |-> tracked]
    BY <1>1 DEF PressClose
  <2>3. \A id \in tracked : id \in Ids
    BY IdShapes DEF Known, FilePart, SeenLegs
  <2>4. FilePart' /\ HandPart'
    BY <2>1, <2>2, <2>3 DEF Known, FilePart, HandPart, SeenLegs, Grows
  <2>5. QED
    BY <1>1, <2>1, <2>4, Kept, Counting DEF PressClose, Known
<1>2. ASSUME SellByHand
      PROVE  Known'
  <2>1. BrokerPart' /\ Grows
    <3>1. CASE UNCHANGED exits
      BY <1>2, <3>1, BrokerKept DEF SellByHand, broker
    <3>2. CASE Placed(Sale)
      <4>1. UNCHANGED <<held, listed, core>> /\ held' \in BOOLEAN
        BY <1>2 DEF SellByHand, Known, BrokerPart
      <4>2. QED
        BY <3>2, <4>1, IdShapes, StatusMoves DEF Placed, Statuses
    <3>3. QED
      BY <1>2, <3>1, <3>2 DEF SellByHand
  <2>2. hand' = [hand EXCEPT !.pc = "done"]
    BY <1>2 DEF SellByHand
  <2>3. HandPart'
    BY <2>1, <2>2 DEF Known, HandPart, SeenLegs, Grows
  <2>4. QED
    BY <1>2, <2>1, <2>3, Kept, Counting DEF SellByHand, Known
<1>3. ASSUME CloseDies
      PROVE  Known'
  <2>1. BrokerPart' /\ Grows
    BY <1>3, BrokerKept DEF CloseDies
  <2>2. HandPart'
    BY <1>3 DEF CloseDies, HandPart, SeenLegs
  <2>3. CountPart'
    BY <1>3, Counting DEF CloseDies, Known, HandPart
  <2>4. QED
    BY <1>3, <2>1, <2>2, <2>3, Kept DEF CloseDies, Known
<1>4. ASSUME NEW id \in Ids, CancelForClose(id)
      PROVE  Known'
  <2>1. BrokerPart' /\ Grows
    <3>1. UNCHANGED broker \/ (Cancelled(id) /\ UNCHANGED <<held, listed, core>>)
      BY <1>4 DEF CancelForClose, broker
    <3>2. QED
      BY <3>1, BrokerKept, Cancelling
  <2>2. hand' = [hand EXCEPT !.legs = @ \ {id}]
    BY <1>4 DEF CancelForClose
  <2>3. HandPart'
    BY <2>1, <2>2 DEF Known, HandPart, SeenLegs, Grows
  <2>4. CountPart'
    BY <1>4, Counting DEF CancelForClose
  <2>5. QED
    BY <1>4, <2>1, <2>3, <2>4, Kept DEF CancelForClose, Known
<1>5. QED
  BY <1>1, <1>2, <1>3, <1>4

\* It holds at first.
LEMMA KnownInit == Init => Known
<1> SUFFICES ASSUME Init PROVE Known
  OBVIOUS
<1>1. PICK on \in {{}, {<<"leg", 1>>}, {<<"leg", 1>>, Target}} :
          /\ exits = [id \in Ids |-> IF id \in on THEN "resting" ELSE "none"]
          /\ tracked = on
          /\ record = [state |-> IF on = {} THEN "failed" ELSE "confirmed",
                       stop |-> IF on = {} THEN NoId ELSE <<"leg", 1>>,
                       target |-> IF Target \in on THEN Target ELSE NoId,
                       used |-> [p \in Numbered |-> IF <<p, 1>> \in on THEN 1 ELSE 0],
                       submitted |-> on # {}, priced |-> on # {}, unplaced |-> FALSE]
  BY DEF Init
<1>2. BrokerPart
  BY <1>1 DEF Init, BrokerPart, Statuses
<1>3. ScanPart /\ HandPart /\ CountPart
  BY BoundsAssumption
  DEF Init, IdleScan, ScanPart, ScanTyped, Pcs, HandPart, CountPart, SeenLegs
<1>4. <<"leg", 1>> \in StopIds /\ Target \notin StopIds
  BY BoundsAssumption DEF StopIds, Placers, Target
<1>5. \A id \in on : id \in Legs /\ Seen(id)
  BY <1>1, <1>4, IdShapes DEF Legs, Seen
<1>6. RecordPart
  <2>1. \A p \in Numbered : (IF <<p, 1>> \in on THEN 1 ELSE 0) \in 0..MaxStops
    BY BoundsAssumption
  <2>2. record \in [state : {"failed", "confirmed", "closed"}, stop : StopIds \union {NoId},
                   target : {Target, NoId}, used : [Numbered -> 0..MaxStops],
                   submitted : BOOLEAN, priced : BOOLEAN, unplaced : BOOLEAN]
    BY <1>1, <1>4, <2>1
  <2>3. OnRecord \subseteq on
    BY <1>1 DEF OnRecord
  <2>4. QED
    BY <1>5, <2>2, <2>3 DEF RecordPart
<1>7. FilePart
  BY <1>1, <1>5 DEF FilePart, SeenLegs
<1>8. QED
  BY <1>2, <1>3, <1>6, <1>7 DEF Known

\* Every step keeps it.
LEMMA KnownNext ==
    ASSUME Known, [Next]_vars
    PROVE  Known'
<1>1. CASE UNCHANGED vars
  <2>1. BrokerPart' /\ Grows
    BY <1>1, BrokerKept DEF vars, broker
  <2>2. QED
    BY <1>1, <2>1, Kept, Counting DEF vars, Known
<1>2. CASE \E id \in Ids : Fills(id) \/ CancelLands(id) \/ Expires(id)
  BY <1>2, KnownBroker
<1>3. CASE ListCatchesUp \/ SessionChanges
  BY <1>3, KnownBroker
<1>4. CASE StartPass("full") \/ StartPass("fast") \/ ScanDies
  BY <1>4, KnownTurns
<1>5. CASE \E id \in Ids : CancelForClose(id)
  BY <1>5, KnownByHand
<1>6. CASE PressClose \/ SellByHand \/ CloseDies
  BY <1>6, KnownByHand
<1>7. CASE ScanStep
  <2>1. CASE ReadPositions \/ SweepDecides \/ RecheckLeg
             \/ \E id \in Ids : ReadLeg(id) \/ DropLeg(id) \/ CancelLeg(id)
    BY <2>1, KnownSweep
  <2>2. CASE SweepEnds \/ NothingToRetry \/ NoTightening \/ NothingToRearm
               \/ NothingToMonitor \/ EndPass \/ CheckRaises
    BY <2>2, KnownTurns
  <2>3. CASE RetryStop \/ ReplaceStop \/ Reprotect \/ RearmStop \/ AttachStop
    BY <2>3, KnownStops
  <2>4. CASE Track \/ Save
    BY <2>4, KnownWritten
  <2>5. CASE Tightens \/ \E id \in Ids : StripStop(id)
    BY <2>5, KnownTrailing
  <2>6. CASE FillPass \/ CheckExit \/ EndSibling \/ ConfirmSibling \/ CloseRecord
    BY <2>6, KnownMonitor
  <2>7. QED
    BY <1>7, <2>1, <2>2, <2>3, <2>4, <2>5, <2>6 DEF ScanStep
<1>8. QED
  BY <1>1, <1>2, <1>3, <1>4, <1>5, <1>6, <1>7 DEF Next

\* Type correctness of the exit tracking, for every bound on stops and faults;
\* in particular webull_active_stops.json never names an order that the broker
\* was not given.
THEOREM TypeCorrect == Spec => []TypeOK
<1>1. Init => Known
  BY KnownInit
<1>2. Known /\ [Next]_vars => Known'
  BY KnownNext
<1>3. Known => TypeOK
  BY KnownTyped
<1>4. QED
  BY <1>1, <1>2, <1>3, PTL DEF Spec

---------------------------------------------------------------------------
(* The second invariant: what a process has read, or is about to write,    *)
(* holds when it acts on it.                                               *)

\* A fill is the end of the shares.
Sold == \A id \in Ids : exits[id] = "filled" => ~held

\* An order that was over when it was read is over in the same way still, and
\* one whose answer was empty is known by it.
ReadTrue ==
    \A id \in Ids :
        /\ scan.status[id] \in {"filled", "dead"} => exits[id] = scan.status[id]
        /\ scan.status[id] = "blank" => id \in faulty

\* Who cancels what is left does so after a fill.
Gone == scan.pc \in {"settle", "recheck", "sibling"} => ~held

\* A stop is named in the place of none, or of one that is over.
Replaced ==
    /\ scan.pc = "reprotect" => record.stop # NoId /\ Over(record.stop)
    /\ scan.pc \in {"track", "save"} /\ Names(scan.at) =>
          record.stop = NoId \/ Over(record.stop)

\* A stop that the record will not name is in the file, or was, until the
\* button took it out.
Noted ==
    scan.pc = "save" /\ ~Names(scan.at) =>
        exits[scan.at] # "resting" \/ scan.at \in tracked \union hand.legs \union faulty

Emptied == hand.pc # "strip" => hand.legs = {}

Sound == Sold /\ ReadTrue /\ Gone /\ Replaced /\ Noted /\ Emptied /\ NothingLost

\* What no step undoes: an order that is over stays so, one that rested and
\* does not never rests again, and shares that were sold do not come back.
Moves ==
    /\ \A id \in Legs : Over(id) => exits'[id] = exits[id]
    /\ \A id \in Legs : Seen(id) /\ exits'[id] = "resting" => exits[id] = "resting"
    /\ held' => held
    /\ \A id \in Ids : exits'[id] = "filled" => exits[id] = "filled" \/ ~held'

LEMMA MovesStill ==
    ASSUME UNCHANGED <<exits, held>>
    PROVE  Moves
BY DEF Moves

LEMMA MovesCancelling ==
    ASSUME Known, NEW id \in Ids, Cancelled(id), UNCHANGED held
    PROVE  Moves
BY IdShapes DEF Known, BrokerPart, Cancelled, Moves, Over, Statuses

LEMMA MovesPlacing ==
    ASSUME Known, NEW id \in Ids, exits[id] = "none", Placed(id), UNCHANGED held
    PROVE  Moves
BY IdShapes DEF Known, BrokerPart, Placed, Moves, Over, Seen

LEMMA MovesBroker ==
    ASSUME Known, NEW id \in Ids, Fills(id) \/ CancelLands(id) \/ Expires(id)
    PROVE  Moves
<1>1. CASE Fills(id)
  BY <1>1, IdShapes DEF Fills, Active, Known, BrokerPart, Moves, Over
<1>2. CASE CancelLands(id)
  BY <1>2, IdShapes DEF CancelLands, Known, BrokerPart, Moves, Over
<1>3. CASE Expires(id)
  BY <1>3, IdShapes DEF Expires, Known, BrokerPart, Moves, Over
<1>4. QED
  BY <1>1, <1>2, <1>3

LEMMA MovesPlace ==
    ASSUME Known, NEW pc, NEW placer \in Placers, NEW then, NEW failed,
           Place(pc, placer, then, failed)
    PROVE  Moves
<1>1. NextId(placer) \in Ids
  BY NextIdTyped DEF Place, Ids
<1>2. UNCHANGED held /\ (UNCHANGED exits \/ (exits[NextId(placer)] = "none" /\ Placed(NextId(placer))))
  BY DEF Place
<1>3. QED
  BY <1>1, <1>2, MovesStill, MovesPlacing

LEMMA MovesNext ==
    ASSUME Known, [Next]_vars
    PROVE  Moves
<1>1. scan.legs \subseteq Ids /\ hand.legs \subseteq Ids
  BY DEF Known, ScanPart, ScanTyped, HandPart
<1>2. CASE UNCHANGED vars
  BY <1>2, MovesStill DEF vars
<1>3. CASE \E id \in Ids : Fills(id) \/ CancelLands(id) \/ Expires(id)
  BY <1>3, MovesBroker
<1>4. CASE ListCatchesUp \/ SessionChanges \/ StartPass("full") \/ StartPass("fast")
           \/ ScanDies \/ PressClose \/ CloseDies
  BY <1>4, MovesStill
  DEF ListCatchesUp, SessionChanges, StartPass, ScanDies, PressClose, CloseDies, broker
<1>5. CASE \E id \in Ids : CancelForClose(id)
  BY <1>5, MovesStill, MovesCancelling DEF CancelForClose
<1>6. CASE SellByHand
  <2>1. UNCHANGED held /\ (UNCHANGED exits \/ (Accepts(Sale) /\ Placed(Sale)))
    BY <1>6 DEF SellByHand
  <2>2. CASE UNCHANGED exits
    BY <2>1, <2>2, MovesStill
  <2>3. CASE Accepts(Sale) /\ Placed(Sale)
    BY <2>1, <2>3, IdShapes DEF Accepts, Placed, Known, BrokerPart, Moves
  <2>4. QED
    BY <2>1, <2>2, <2>3
<1>7. CASE ScanStep
  <2>1. CASE ReadPositions \/ SweepDecides \/ RecheckLeg \/ SweepEnds \/ NothingToRetry
             \/ Track \/ Save \/ Tightens \/ NoTightening \/ FillPass \/ CheckRaises
             \/ CheckExit \/ ConfirmSibling \/ CloseRecord \/ NothingToRearm \/ NothingToMonitor \/ EndPass
             \/ \E id \in Ids : ReadLeg(id) \/ DropLeg(id)
    BY <2>1, MovesStill
    DEF ReadPositions, SweepDecides, RecheckLeg, SweepEnds, NothingToRetry, Track, Save,
        Tightens, NoTightening, FillPass, CheckRaises, CheckExit, ConfirmSibling, CloseRecord,
        NothingToRearm, NothingToMonitor, EndPass, ReadLeg, DropLeg, broker
  <2>2. CASE \E id \in Ids : CancelLeg(id) \/ StripStop(id)
    BY <2>2, MovesStill, MovesCancelling DEF CancelLeg, StripStop
  <2>3. CASE EndSibling
    BY <1>1, <2>3, MovesStill, MovesCancelling DEF EndSibling
  <2>4. CASE RetryStop
    BY <2>4, MovesPlace DEF RetryStop, Placers
  <2>5. CASE ReplaceStop
    BY <2>5, MovesPlace DEF ReplaceStop, Placers
  <2>6. CASE Reprotect
    BY <2>6, MovesPlace DEF Reprotect, Placers
  <2>7. CASE RearmStop
    BY <2>7, MovesPlace DEF RearmStop, Placers
  <2>8. CASE AttachStop
    BY <2>8, MovesPlace DEF AttachStop, Placers
  <2>9. QED
    BY <1>7, <2>1, <2>2, <2>3, <2>4, <2>5, <2>6, <2>7, <2>8 DEF ScanStep
<1>8. QED
  BY <1>2, <1>3, <1>4, <1>5, <1>6, <1>7 DEF Next

\* Where an order is named.
Holders == tracked \union OnRecord \union InHand \union faulty

\* The orders on file, in hand and on the record are among those of a pass, and
\* the two readings that are last are of such an order too.
LEMMA Naming ==
    ASSUME Known
    PROVE  /\ \A id \in tracked \union scan.legs \union hand.legs : id \in Legs /\ id \in Ids /\ Seen(id)
           /\ \A id \in Ids : scan.status[id] # "unknown" => id \in Legs /\ Seen(id)
           /\ \A id \in OnRecord : id \in Legs /\ id \in Ids /\ Seen(id)
           /\ scan.at # NoId => scan.at \in Legs /\ scan.at \in Ids /\ Seen(scan.at)
           /\ record.stop # NoId => record.stop \in OnRecord
           /\ Legs = Ids \ {Sale}
BY IdShapes
DEF Known, FilePart, ScanPart, ScanTyped, HandPart, RecordPart, OnRecord, SeenLegs, Legs, Ids

LEMMA SoldKept ==
    ASSUME Sold, Moves
    PROVE  Sold'
BY DEF Sold, Moves

\* A pass that reads nothing forgets or keeps what it read.
LEMMA ReadKept ==
    ASSUME Known, ReadTrue, Moves, faulty \subseteq faulty',
           scan'.status \in {scan.status, [id \in Ids |-> "unknown"]}
    PROVE  ReadTrue'
<1>1. CASE scan'.status = [id \in Ids |-> "unknown"]
  BY <1>1 DEF ReadTrue
<1>2. CASE scan'.status = scan.status
  BY <1>2, Naming DEF ReadTrue, Moves, Over
<1>3. QED
  BY <1>1, <1>2

\* Steps that are not of a pass.
LEMMA SoundOthers ==
    ASSUME Known, Sound, Moves, UNCHANGED <<scan, record>>, Emptied',
           faulty \subseteq faulty',
           \A id \in Legs : exits'[id] = "resting" => exits[id] = "resting",
           \A id \in tracked \union hand.legs \union faulty :
              exits'[id] = "resting" => id \in tracked' \union hand'.legs \union faulty'
    PROVE  Sound'
<1>1. Sold' /\ ReadTrue' /\ Gone'
  BY SoldKept, ReadKept DEF Sound, Gone, Moves
<1>2. Replaced'
  <2>1. Over(record.stop) /\ record.stop # NoId => exits'[record.stop] = exits[record.stop]
    BY Naming DEF Moves
  <2>2. QED
    BY <2>1 DEF Sound, Replaced, Over
<1>3. Noted'
  <2> SUFFICES ASSUME scan.pc = "save", ~Names(scan.at), exits'[scan.at] = "resting"
               PROVE  scan.at \in tracked' \union hand'.legs \union faulty'
    BY DEF Noted, Names
  <2>1. scan.at \in Legs
    BY DEF Known, ScanPart, Legs
  <2>2. exits[scan.at] = "resting"
    BY <2>1
  <2>3. scan.at \in tracked \union hand.legs \union faulty
    BY <2>2 DEF Sound, Noted
  <2>4. QED
    BY <2>3
<1>4. NothingLost'
  <2>1. OnRecord' = OnRecord
    BY DEF OnRecord
  <2>2. QED
    BY <2>1, Naming DEF Sound, NothingLost, InHand
<1>5. QED
  BY <1>1, <1>2, <1>3, <1>4 DEF Sound

\* Steps of a pass that has no order of its own in hand, before or after.
Aside == {"strip", "track", "save"}

LEMMA SoundQuiet ==
    ASSUME Known, Sound, Moves, UNCHANGED hand,
           scan.pc \notin Aside, scan'.pc \notin Aside,
           ReadTrue', Gone', Replaced',
           OnRecord' = OnRecord, faulty \subseteq faulty',
           \A id \in Legs : exits'[id] = "resting" => exits[id] = "resting",
           \A id \in tracked \ tracked' : Over(id) \/ id \in faulty
    PROVE  Sound'
<1>1. Sold' /\ Noted' /\ Emptied'
  BY SoldKept DEF Aside, Noted, Emptied, Sound
<1>2. NothingLost'
  <2> SUFFICES ASSUME NEW id \in Ids \ {Sale}, exits'[id] = "resting"
               PROVE  id \in Holders'
    BY DEF NothingLost, Holders
  <2>1. id \in Legs /\ exits[id] = "resting"
    BY Naming
  <2>2. id \in tracked \union OnRecord \union hand.legs \union faulty
    BY <2>1 DEF Sound, NothingLost, InHand, Aside
  <2>3. id \in tracked => id \in tracked' \/ id \in faulty
    BY <2>1 DEF Over
  <2>4. QED
    BY <2>2, <2>3 DEF Holders, InHand
<1>3. QED
  BY <1>1, <1>2 DEF Sound

\* The stages of which nothing is said but that they have no order in hand.
Quiet == Pcs \ (Aside \union {"settle", "recheck", "sibling", "reprotect"})

LEMMA SoundGoes ==
    ASSUME Known, Sound, Moves, UNCHANGED hand,
           scan.pc \notin Aside, scan'.pc \in Quiet,
           scan'.status \in {scan.status, [id \in Ids |-> "unknown"]},
           OnRecord' = OnRecord, faulty \subseteq faulty',
           \A id \in Legs : exits'[id] = "resting" => exits[id] = "resting",
           \A id \in tracked \ tracked' : Over(id) \/ id \in faulty
    PROVE  Sound'
BY SoundQuiet, ReadKept DEF Quiet, Aside, Gone, Replaced, Sound

\* Where a pass goes to.
LEMMA GotoGoes ==
    ASSUME Known, NEW pc \in Pcs, Goto(pc)
    PROVE  scan'.pc = pc /\ scan'.status = [id \in Ids |-> "unknown"]
           /\ scan'.legs = {} /\ scan'.at = NoId
BY DEF Goto, IdleScan, Known, ScanPart, ScanTyped

LEMMA FaultyKept ==
    ASSUME NEW ids, CallFails(ids) \/ UNCHANGED <<faulty, faults>>
    PROVE  faulty \subseteq faulty'
BY DEF CallFails

\* The broker, the market and the button.
LEMMA SoundBroker ==
    ASSUME Known, Sound, Moves
    PROVE  /\ \A id \in Ids : Fills(id) \/ CancelLands(id) \/ Expires(id) => Sound'
           /\ ListCatchesUp \/ SessionChanges => Sound'
<1>1. ASSUME NEW id \in Ids, Fills(id) \/ CancelLands(id) \/ Expires(id)
      PROVE  Sound'
  <2>1. \A i \in Legs : exits'[i] = "resting" => exits[i] = "resting"
    BY <1>1, Naming DEF Fills, CancelLands, Expires, Known, BrokerPart
  <2>2. UNCHANGED <<scan, record, tracked, hand, faulty>>
    BY <1>1 DEF Fills, CancelLands, Expires
  <2>3. QED
    BY <2>1, <2>2, SoundOthers DEF Emptied, Sound
<1>2. ASSUME ListCatchesUp \/ SessionChanges
      PROVE  Sound'
  <2>1. UNCHANGED <<exits, scan, record, tracked, hand, faulty>>
    BY <1>2 DEF ListCatchesUp, SessionChanges
  <2>2. QED
    BY <2>1, SoundOthers DEF Emptied, Sound
<1>3. QED
  BY <1>1, <1>2

LEMMA SoundByHand ==
    ASSUME Known, Sound, Moves
    PROVE  /\ PressClose \/ SellByHand \/ CloseDies => Sound'
           /\ \A id \in Ids : CancelForClose(id) => Sound'
<1>1. ASSUME PressClose
      PROVE  Sound'
  <2>1. UNCHANGED <<exits, scan, record, faulty>> /\ hand' = [pc |-> "strip", legs |-> tracked]
        /\ hand.pc = "idle"
    BY <1>1 DEF PressClose, broker
  <2>2. hand.legs = {} /\ hand'.legs = tracked /\ Emptied'
    BY <2>1 DEF Sound, Emptied
  <2>3. QED
    BY <2>1, <2>2, SoundOthers
<1>2. ASSUME SellByHand
      PROVE  Sound'
  <2>1. UNCHANGED <<scan, record, tracked, faulty>> /\ hand' = [hand EXCEPT !.pc = "done"]
        /\ hand.legs = {}
    BY <1>2 DEF SellByHand
  <2>2. hand'.legs = {} /\ Emptied'
    BY <2>1 DEF Known, HandPart, Emptied
  <2>3. \A id \in Legs : exits'[id] = "resting" => exits[id] = "resting"
    BY <1>2, Naming DEF SellByHand, Placed, Known, BrokerPart
  <2>4. QED
    BY <2>1, <2>2, <2>3, SoundOthers
<1>3. ASSUME CloseDies
      PROVE  Sound'
  <2>1. UNCHANGED <<exits, scan, record, tracked>> /\ hand' = [pc |-> "done", legs |-> {}]
        /\ faulty' = faulty \union hand.legs
    BY <1>3 DEF CloseDies, CallFails, broker
  <2>2. QED
    BY <2>1, SoundOthers DEF Emptied
<1>4. ASSUME NEW id \in Ids, CancelForClose(id)
      PROVE  Sound'
  <2>1. UNCHANGED <<scan, record, tracked>> /\ hand' = [hand EXCEPT !.legs = @ \ {id}]
        /\ id \in hand.legs
    BY <1>4 DEF CancelForClose
  <2>2. hand'.pc = hand.pc /\ hand'.legs = hand.legs \ {id} /\ Emptied'
    BY <2>1 DEF Known, HandPart, Emptied, Sound
  <2>3. \/ exits' = [exits EXCEPT ![id] = IF @ = "resting" THEN "cancelling" ELSE @]
           /\ UNCHANGED faulty
        \/ UNCHANGED exits /\ faulty' = faulty \union {id}
    BY <1>4 DEF CancelForClose, Cancelled, CallFails
  <2>4. /\ \A i \in Ids : exits'[i] = "resting" => exits[i] = "resting"
        /\ exits'[id] = "resting" => id \in faulty'
        /\ faulty \subseteq faulty'
    BY <2>3 DEF Known, BrokerPart
  <2>5. QED
    BY <2>1, <2>2, <2>4, Naming, SoundOthers
<1>5. QED
  BY <1>1, <1>2, <1>3, <1>4

\* A pass that starts, goes on or raises.
LEMMA SoundTurns ==
    ASSUME Known, Sound, Moves
    PROVE  /\ StartPass("full") \/ StartPass("fast") => Sound'
           /\ SweepEnds \/ NothingToRetry \/ NoTightening \/ NothingToRearm
                \/ NothingToMonitor \/ EndPass \/ CheckRaises => Sound'
<1>1. ASSUME NEW kind \in {"full", "fast"}, StartPass(kind)
      PROVE  Sound'
  <2>1. UNCHANGED <<exits, tracked, record, hand, faulty>>
    BY <1>1 DEF StartPass, broker
  <2>2. scan.pc = "idle" /\ scan'.pc = "exits" /\ scan'.status = [id \in Ids |-> "unknown"]
    BY <1>1 DEF StartPass, IdleScan
  <2>3. QED
    BY <2>1, <2>2, SoundGoes DEF Quiet, Aside, Pcs, OnRecord
<1>2. ASSUME SweepEnds \/ NothingToRetry \/ NoTightening \/ NothingToRearm
                \/ NothingToMonitor \/ EndPass \/ CheckRaises
      PROVE  Sound'
  <2>1. /\ UNCHANGED <<exits, tracked, record, hand>>
        /\ \E pc \in {"trail", "monitor", "naked", "idle"} : Goto(pc)
        /\ scan.pc \notin Aside
    BY <1>2 DEF SweepEnds, NothingToRetry, NoTightening, NothingToRearm,
                NothingToMonitor, EndPass, CheckRaises, broker, Aside
  <2>2. faulty \subseteq faulty'
    BY <1>2, FaultyKept DEF SweepEnds, NothingToRetry, NoTightening, NothingToRearm,
                NothingToMonitor, EndPass, CheckRaises
  <2>3. scan'.pc \in Quiet /\ scan'.status = [id \in Ids |-> "unknown"]
    BY <2>1, GotoGoes DEF Pcs, Quiet, Aside
  <2>4. QED
    BY <2>1, <2>2, <2>3, SoundGoes DEF OnRecord
<1>3. QED
  BY <1>1, <1>2

\* The sweep settles what a fill explains, and drops what is over.
LEMMA SoundSweep ==
    ASSUME Known, Sound, Moves
    PROVE  /\ ReadPositions \/ SweepDecides \/ RecheckLeg => Sound'
           /\ \A id \in Ids : ReadLeg(id) \/ DropLeg(id) \/ CancelLeg(id) => Sound'
<1>1. ASSUME ReadPositions
      PROVE  Sound'
  <2>1. UNCHANGED <<exits, tracked, record, hand>> /\ scan.pc \notin Aside
        /\ faulty \subseteq faulty'
    BY <1>1, FaultyKept DEF ReadPositions, broker, Aside
  <2>2. scan'.pc \in Quiet /\ scan'.status \in {scan.status, [id \in Ids |-> "unknown"]}
    <3>1. CASE Goto("retry") \/ Goto("trail")
      BY <3>1, GotoGoes DEF Pcs, Quiet, Aside
    <3>2. CASE scan' = [scan EXCEPT !.pc = "sweep", !.legs = tracked]
      BY <3>2 DEF Known, ScanPart, ScanTyped, Quiet, Aside, Pcs
    <3>3. QED
      BY <1>1, <3>1, <3>2 DEF ReadPositions
  <2>3. QED
    BY <2>1, <2>2, SoundGoes DEF OnRecord
<1>2. ASSUME SweepDecides
      PROVE  Sound'
  <2>1. UNCHANGED <<exits, held, tracked, record, hand, faulty>> /\ scan.pc \notin Aside
    BY <1>2 DEF SweepDecides, broker, Aside
  <2>2. CASE Goto("trail")
    <3>1. scan'.pc \in Quiet /\ scan'.status = [id \in Ids |-> "unknown"]
      BY <2>2, GotoGoes DEF Pcs, Quiet, Aside
    <3>2. QED
      BY <2>1, <3>1, SoundGoes DEF OnRecord
  <2>3. CASE Explained /\ scan' = [scan EXCEPT !.pc = "settle",
                                !.legs = {id \in Ids : scan.status[id] # "unknown"}]
    <3>1. ~held
      BY <2>3 DEF Explained, Sound, ReadTrue, Sold
    <3>2. scan'.pc = "settle" /\ scan'.status = scan.status
      BY <2>3 DEF Known, ScanPart, ScanTyped
    <3>3. QED
      BY <2>1, <3>1, <3>2, SoundQuiet, ReadKept DEF OnRecord, Aside, Gone, Replaced, Sound
  <2>4. QED
    BY <1>2, <2>2, <2>3 DEF SweepDecides
<1>3. ASSUME RecheckLeg
      PROVE  Sound'
  <2>1. UNCHANGED <<exits, held, tracked, record, hand>> /\ scan.pc = "recheck" /\ ~held
        /\ scan.at \in Ids /\ Seen(scan.at)
    BY <1>3, Naming DEF RecheckLeg, broker, Sound, Gone, Known, ScanPart
  <2>2. CASE CallFails({scan.at}) /\ scan' = [scan EXCEPT !.pc = "settle", !.at = NoId]
    <3>1. scan'.pc = "settle" /\ scan'.status = scan.status /\ faulty \subseteq faulty'
      BY <2>2, FaultyKept DEF Known, ScanPart, ScanTyped
    <3>2. QED
      BY <2>1, <3>1, SoundQuiet, ReadKept DEF OnRecord, Aside, Gone, Replaced, Sound
  <2>3. ASSUME NEW reading \in Readings, Reads(scan.at, reading),
               scan' = [scan EXCEPT !.pc = "settle", !.at = NoId,
                          !.legs = IF reading = "active" THEN @ ELSE @ \union {scan.at},
                          !.status[scan.at] = reading]
        PROVE  Sound'
    <3>1. scan'.pc = "settle" /\ scan'.status = [scan.status EXCEPT ![scan.at] = reading]
      BY <2>3 DEF Known, ScanPart, ScanTyped
    <3>2. /\ faulty \subseteq faulty'
          /\ reading \in {"filled", "dead"} => exits[scan.at] = reading
          /\ reading = "blank" => scan.at \in faulty'
      BY <2>1, <2>3, ReadingHolds
    <3>3. ReadTrue'
      BY <2>1, <3>1, <3>2 DEF Sound, ReadTrue, Known, ScanPart, ScanTyped
    <3>4. QED
      BY <2>1, <3>1, <3>2, <3>3, SoundQuiet DEF OnRecord, Aside, Gone, Replaced
  <2>4. QED
    BY <1>3, <2>2, <2>3 DEF RecheckLeg
<1>4. ASSUME NEW id \in Ids, ReadLeg(id)
      PROVE  Sound'
  <2>1. UNCHANGED <<exits, held, tracked, record, hand>> /\ scan.pc = "sweep"
        /\ Seen(id)
    BY <1>4, Naming DEF ReadLeg, broker
  <2>2. CASE CallFails({id}) /\ scan' = [scan EXCEPT !.legs = @ \ {id}]
    <3>1. scan'.pc = "sweep" /\ scan'.status = scan.status /\ faulty \subseteq faulty'
      BY <2>1, <2>2, FaultyKept DEF Known, ScanPart, ScanTyped
    <3>2. QED
      BY <2>1, <3>1, SoundQuiet, ReadKept DEF OnRecord, Aside, Gone, Replaced, Sound
  <2>3. ASSUME NEW reading \in Readings, Reads(id, reading),
               scan' = [scan EXCEPT !.legs = @ \ {id}, !.status[id] = reading]
        PROVE  Sound'
    <3>1. scan'.pc = "sweep" /\ scan'.status = [scan.status EXCEPT ![id] = reading]
      BY <2>1, <2>3 DEF Known, ScanPart, ScanTyped
    <3>2. /\ faulty \subseteq faulty'
          /\ reading \in {"filled", "dead"} => exits[id] = reading
          /\ reading = "blank" => id \in faulty'
      BY <2>1, <2>3, ReadingHolds
    <3>3. ReadTrue'
      BY <2>1, <3>1, <3>2 DEF Sound, ReadTrue, Known, ScanPart, ScanTyped
    <3>4. QED
      BY <2>1, <3>1, <3>2, <3>3, SoundQuiet DEF OnRecord, Aside, Gone, Replaced
  <2>4. QED
    BY <1>4, <2>2, <2>3 DEF ReadLeg
<1>5. ASSUME NEW id \in Ids, DropLeg(id)
      PROVE  Sound'
  <2>1. UNCHANGED <<exits, held, record, hand, faulty>> /\ scan.pc = "settle"
        /\ scan' = [scan EXCEPT !.legs = @ \ {id}] /\ tracked' = tracked \ {id}
    BY <1>5 DEF DropLeg, broker
  <2>2. scan'.pc = "settle" /\ scan'.status = scan.status /\ ~held
    BY <2>1 DEF Known, ScanPart, ScanTyped, Sound, Gone
  <2>3. Over(id) \/ id \in faulty
    BY <1>5 DEF DropLeg, Sound, ReadTrue, Over
  <2>4. QED
    BY <2>1, <2>2, <2>3, SoundQuiet, ReadKept DEF OnRecord, Aside, Gone, Replaced, Sound
<1>6. ASSUME NEW id \in Ids, CancelLeg(id)
      PROVE  Sound'
  <2>1. UNCHANGED <<held, tracked, record, hand>> /\ scan.pc = "settle"
        /\ scan' \in {[scan EXCEPT !.legs = @ \ {id}],
                      [scan EXCEPT !.legs = @ \ {id}, !.pc = "recheck", !.at = id]}
        /\ faulty \subseteq faulty'
    BY <1>6, FaultyKept DEF CancelLeg
  <2>2. scan'.pc \in {"settle", "recheck"} /\ scan'.status = scan.status /\ ~held
    BY <2>1 DEF Known, ScanPart, ScanTyped, Sound, Gone
  <2>3. \A i \in Legs : exits'[i] = "resting" => exits[i] = "resting"
    BY <1>6, Naming DEF CancelLeg, Cancelled, Known, BrokerPart
  <2>4. QED
    BY <2>1, <2>2, <2>3, SoundQuiet, ReadKept DEF OnRecord, Aside, Gone, Replaced, Sound
<1>7. QED
  BY <1>1, <1>2, <1>3, <1>4, <1>5, <1>6

\* The exit pass ends what a fill has ended.
LEMMA SoundMonitor ==
    ASSUME Known, Sound, Moves
    PROVE  FillPass \/ CheckExit \/ EndSibling \/ ConfirmSibling \/ CloseRecord => Sound'
<1>1. ASSUME FillPass
      PROVE  Sound'
  <2>1. UNCHANGED <<exits, held, tracked, hand, faulty>> /\ scan.pc \notin Aside
    BY <1>1 DEF FillPass, broker, Aside
  <2>2. record'.stop = record.stop /\ OnRecord' = OnRecord
    <3>1. PICK s \in {record.state, "confirmed"} : record' = [record EXCEPT !.state = s]
      BY <1>1 DEF FillPass, Known, RecordPart
    <3>2. QED
      BY <3>1 DEF Known, RecordPart, OnRecord
  <2>3. CASE Goto("naked")
    <3>1. scan'.pc \in Quiet /\ scan'.status = [id \in Ids |-> "unknown"]
      BY <2>3, GotoGoes DEF Pcs, Quiet, Aside
    <3>2. QED
      BY <2>1, <2>2, <3>1, SoundGoes
  <2>4. CASE StopReads("dead") /\ Goto("reprotect")
    <3>1. scan'.pc = "reprotect" /\ scan'.status = [id \in Ids |-> "unknown"]
      BY <2>4, GotoGoes DEF Pcs
    <3>2. record.stop # NoId /\ Over(record.stop)
      BY <2>4, Naming DEF StopReads, Reading, Active, Over, Seen, Known, BrokerPart, Statuses
    <3>3. Replaced'
      BY <2>1, <2>2, <3>1, <3>2 DEF Replaced, Over
    <3>4. QED
      BY <2>1, <2>2, <3>1, <3>3, SoundQuiet, ReadKept DEF Aside, Gone, Sound
  <2>5. QED
    BY <1>1, <2>3, <2>4 DEF FillPass
<1>2. ASSUME CheckExit
      PROVE  Sound'
  <2>1. UNCHANGED <<exits, held, tracked, record, hand>> /\ scan.pc = "monitor"
    BY <1>2 DEF CheckExit, broker
  <2>2. PICK blank \in {{}} \union {{id} : id \in OnRecord} :
          /\ IF blank = {} THEN UNCHANGED <<faulty, faults>> ELSE CallFails(blank)
          /\ \/ Goto("rearm")
             \/ /\ Cardinality(Exited \ blank) = 1
                /\ scan' = [scan EXCEPT !.pc = "sibling", !.legs = OnRecord \ (Exited \ blank),
                      !.status = [id \in Ids |-> IF id \in blank THEN "blank" ELSE @[id]]]
    BY <1>2 DEF CheckExit
  <2>3. faulty \subseteq faulty' /\ blank \subseteq faulty'
    BY <2>2 DEF CallFails
  <2>4. CASE Goto("rearm")
    <3>1. scan'.pc \in Quiet /\ scan'.status = [id \in Ids |-> "unknown"]
      BY <2>4, GotoGoes DEF Pcs, Quiet, Aside
    <3>2. QED
      BY <2>1, <2>3, <3>1, SoundGoes DEF OnRecord, Aside
  <2>5. CASE /\ Cardinality(Exited \ blank) = 1
             /\ scan' = [scan EXCEPT !.pc = "sibling", !.legs = OnRecord \ (Exited \ blank),
                   !.status = [id \in Ids |-> IF id \in blank THEN "blank" ELSE @[id]]]
    <3>1. Exited \ blank # {}
      BY <2>5, FS_EmptySet
    <3>2. ~held
      BY <3>1, Naming DEF Exited, Sound, Sold
    <3>3. scan'.pc = "sibling"
          /\ scan'.status = [id \in Ids |-> IF id \in blank THEN "blank" ELSE scan.status[id]]
      BY <2>5 DEF Known, ScanPart, ScanTyped
    <3>4. ReadTrue'
      BY <2>1, <2>3, <3>3 DEF Sound, ReadTrue
    <3>5. QED
      BY <2>1, <2>3, <3>2, <3>3, <3>4, SoundQuiet DEF OnRecord, Aside, Gone, Replaced
  <2>6. QED
    BY <2>2, <2>4, <2>5
<1>3. ASSUME EndSibling
      PROVE  Sound'
  <2>1. UNCHANGED <<held, tracked, record, hand>> /\ scan.pc = "sibling"
        /\ faulty \subseteq faulty'
    BY <1>3, FaultyKept DEF EndSibling
  <2>2. scan'.pc \in Quiet /\ scan'.status \in {scan.status, [id \in Ids |-> "unknown"]}
    <3>1. CASE Goto("naked")
      BY <3>1, GotoGoes DEF Pcs, Quiet, Aside
    <3>2. CASE scan' = [scan EXCEPT !.pc = "confirm"]
      BY <3>2 DEF Known, ScanPart, ScanTyped, Quiet, Aside, Pcs
    <3>3. QED
      BY <1>3, <3>1, <3>2 DEF EndSibling
  <2>3. \A i \in Legs : exits'[i] = "resting" => exits[i] = "resting"
    BY <1>3, Naming DEF EndSibling, Cancelled, Known, BrokerPart
  <2>4. QED
    BY <2>1, <2>2, <2>3, SoundGoes DEF OnRecord, Aside
<1>5. ASSUME ConfirmSibling
      PROVE  Sound'
  <2>1. UNCHANGED <<exits, held, tracked, record, hand>> /\ scan.pc = "confirm"
        /\ \A id \in scan.legs : id \in Ids /\ Seen(id)
    BY <1>5, Naming DEF ConfirmSibling, broker
  <2>2. CASE /\ Goto("naked") \/ scan' = [scan EXCEPT !.pc = "close"]
             /\ UNCHANGED <<faulty, faults>> \/ \E id \in scan.legs : CallFails({id})
    <3>1. scan'.pc \in Quiet /\ scan'.status \in {scan.status, [id \in Ids |-> "unknown"]}
      <4>1. CASE Goto("naked")
        BY <4>1, GotoGoes DEF Pcs, Quiet, Aside
      <4>2. CASE scan' = [scan EXCEPT !.pc = "close"]
        BY <4>2 DEF Known, ScanPart, ScanTyped, Quiet, Aside, Pcs
      <4>3. QED
        BY <2>2, <4>1, <4>2
    <3>2. faulty \subseteq faulty'
      BY <2>2 DEF CallFails
    <3>3. QED
      BY <2>1, <3>1, <3>2, SoundGoes DEF OnRecord, Aside
  <2>3. ASSUME NEW id \in scan.legs, NEW reading \in Readings, Reads(id, reading),
               scan' = [scan EXCEPT !.pc = "close", !.status[id] = reading]
        PROVE  Sound'
    <3>1. scan'.pc = "close" /\ scan'.status = [scan.status EXCEPT ![id] = reading]
      BY <2>3 DEF Known, ScanPart, ScanTyped
    <3>2. /\ faulty \subseteq faulty'
          /\ reading \in {"filled", "dead"} => exits[id] = reading
          /\ reading = "blank" => id \in faulty'
      BY <2>1, <2>3, ReadingHolds
    <3>3. ReadTrue'
      BY <2>1, <3>1, <3>2 DEF Sound, ReadTrue, Known, ScanPart, ScanTyped
    <3>4. QED
      BY <2>1, <3>1, <3>2, <3>3, SoundQuiet DEF OnRecord, Aside, Gone, Replaced
  <2>4. QED
    BY <1>5, <2>2, <2>3 DEF ConfirmSibling
<1>4. ASSUME CloseRecord
      PROVE  Sound'
  <2>1. UNCHANGED <<exits, held, hand, faulty>> /\ scan.pc = "close" /\ Goto("naked")
    BY <1>4 DEF CloseRecord, broker
  <2>2. scan'.pc \in Quiet /\ scan'.status = [id \in Ids |-> "unknown"]
    BY <2>1, GotoGoes DEF Pcs, Quiet, Aside
  <2>3. OnRecord' = OnRecord
    <3>1. PICK s \in {record.state, "closed"} : record' = [record EXCEPT !.state = s]
      BY <1>4 DEF CloseRecord
    <3>2. QED
      BY <3>1 DEF Known, RecordPart, OnRecord
  <2>4. \A id \in tracked \ tracked' : Over(id) \/ id \in faulty
    <3> SUFFICES ASSUME NEW id \in tracked \ tracked' PROVE Over(id) \/ id \in faulty
      OBVIOUS
    <3>1. scan.status[id] \in {"dead", "blank"} /\ id \in Ids
      BY <1>4, Naming DEF CloseRecord
    <3>2. QED
      BY <3>1 DEF Over, Sound, ReadTrue
  <2>5. QED
    BY <2>1, <2>2, <2>3, <2>4, SoundGoes DEF Aside
<1>6. QED
  BY <1>1, <1>2, <1>3, <1>4, <1>5

\* A placement: the order is in hand, or its call failed.
LEMMA SoundPlaced ==
    ASSUME Known, Sound, Moves,
           NEW pc \in {"retry", "strip", "reprotect", "rearm", "naked"},
           NEW placer \in Placers, NEW then \in {"trail", "monitor", "naked", "idle"},
           NEW failed \in {record, [record EXCEPT !.unplaced = TRUE]},
           Place(pc, placer, then, failed),
           pc = "strip" => scan.legs = {},
           placer \in Numbered => record.stop = NoId \/ Over(record.stop)
    PROVE  Sound'
<1> DEFINE id == NextId(placer)
           next == [IdleScan EXCEPT !.kind = scan.kind, !.seen = scan.seen, !.pc = then]
<1>1. /\ scan.pc = pc /\ Left(placer) /\ UNCHANGED <<held, tracked, hand>>
      /\ \/ /\ IF exits[id] = "none" THEN Accepts(id) /\ Placed(id) ELSE UNCHANGED exits
            /\ scan' = [next EXCEPT !.pc = "track", !.at = id, !.then = then]
            /\ UNCHANGED <<record, faulty, faults>>
         \/ /\ exits[id] = "none" /\ ~Accepts(id)
            /\ scan' = next /\ record' = failed
            /\ UNCHANGED <<exits, faulty, faults>>
         \/ /\ exits[id] = "none" /\ Accepts(id)
            /\ CallFails({id})
            /\ Placed(id) \/ UNCHANGED exits
            /\ scan' = next
            /\ record' = IF exits' = exits THEN failed ELSE Counted(placer, failed)
  BY DEF Place
<1>2. id \in StopIds /\ id \in Ids /\ id[1] = placer
  BY <1>1, NextIdTyped DEF Ids
<1>3. /\ OnRecord' = OnRecord
  <2>1. failed.stop = record.stop /\ failed.target = record.target
    BY DEF Known, RecordPart
  <2>2. Counted(placer, failed).stop = record.stop
        /\ Counted(placer, failed).target = record.target
    BY <2>1 DEF Counted, Known, RecordPart
  <2>3. record'.stop = record.stop /\ record'.target = record.target
    BY <1>1, <2>1, <2>2
  <2>4. QED
    BY <2>3 DEF OnRecord
<1>4. exits' \in {exits, [exits EXCEPT ![id] = "resting"]}
  BY <1>1 DEF Placed
<1> HIDE DEF id
<1>5. faulty \subseteq faulty'
  BY <1>1 DEF CallFails
<1>6. /\ scan'.status = [i \in Ids |-> "unknown"]
      /\ \/ scan'.pc = "track" /\ scan'.at = id /\ UNCHANGED record
         \/ scan'.pc = then /\ (exits' = exits \/ id \in faulty')
  <2>1. CASE scan' = next
    BY <1>1, <2>1 DEF IdleScan, CallFails
  <2>2. CASE scan' = [next EXCEPT !.pc = "track", !.at = id, !.then = then] /\ UNCHANGED record
    BY <2>2 DEF IdleScan
  <2>3. QED
    BY <1>1, <2>1, <2>2
<1>7. Sold' /\ ReadTrue' /\ Emptied' /\ Gone' /\ Noted'
  BY <1>1, <1>5, <1>6, SoldKept, ReadKept DEF Sound, Emptied, Gone, Noted
<1>8. Replaced'
  <2>1. Over(record.stop) /\ record.stop # NoId => exits'[record.stop] = exits[record.stop]
    BY Naming DEF Moves
  <2>2. CASE scan'.pc = "track" /\ scan'.at = id /\ UNCHANGED record
    <3>1. Names(id) => placer \in Numbered
      BY <1>2 DEF Names, Numbered
    <3>2. QED
      BY <2>1, <2>2, <3>1 DEF Replaced, Names, Over
  <2>3. CASE scan'.pc = then
    BY <2>3 DEF Replaced
  <2>4. QED
    BY <1>6, <2>2, <2>3
<1>9. NothingLost'
  <2> SUFFICES ASSUME NEW i \in Ids \ {Sale}, exits'[i] = "resting"
               PROVE  i \in Holders'
    BY DEF NothingLost, Holders
  <2>1. CASE i = id /\ (scan'.pc = "track" \/ id \in faulty')
    BY <1>6, <2>1 DEF Holders, InHand
  <2>2. CASE exits[i] = "resting"
    <3>1. scan.at = NoId /\ i # NoId
      BY <1>1, IdShapes DEF Known, ScanPart
    <3>2. i \in tracked \union OnRecord \union hand.legs \union faulty
      BY <1>1, <2>2, <3>1 DEF Sound, NothingLost, InHand
    <3>3. QED
      BY <1>1, <1>3, <1>5, <3>2 DEF Holders, InHand
  <2>3. i = id \/ exits'[i] = exits[i]
    BY <1>4 DEF Known, BrokerPart
  <2>4. QED
    BY <1>6, <2>1, <2>2, <2>3
<1>10. QED
  BY <1>7, <1>8, <1>9 DEF Sound

LEMMA SoundStops ==
    ASSUME Known, Sound, Moves,
           RetryStop \/ ReplaceStop \/ Reprotect \/ RearmStop \/ AttachStop
    PROVE  Sound'
<1>1. CASE RetryStop
  BY <1>1, SoundPlaced DEF RetryStop, Placers, Numbered
<1>2. CASE ReplaceStop
  BY <1>2, SoundPlaced DEF ReplaceStop, Placers, Numbered
<1>3. CASE Reprotect
  <2>1. Over(record.stop)
    BY <1>3 DEF Reprotect, Place, Sound, Replaced
  <2>2. QED
    BY <1>3, <2>1, SoundPlaced DEF Reprotect, Placers
<1>4. CASE RearmStop
  <2>1. record.stop = NoId \/ Over(record.stop)
    BY <1>4, Naming
    DEF RearmStop, MayRearm, Dead, StopReads, Reading, Active, Over, Seen, Known,
        BrokerPart, Statuses
  <2>2. QED
    BY <1>4, <2>1, SoundPlaced DEF RearmStop, Placers
<1>5. CASE AttachStop
  BY <1>5, SoundPlaced DEF AttachStop, Naked, Placers
<1>6. QED
  BY <1>1, <1>2, <1>3, <1>4, <1>5

\* What is placed is written down, in the file, on the record or both.
LEMMA SoundWritten ==
    ASSUME Known, Sound, Moves
    PROVE  Track \/ Save => Sound'
<1>0. ASSUME scan.pc \in {"track", "save"}
      PROVE  scan.at \in StopIds /\ scan.at \in Ids /\ scan.legs = {}
  BY <1>0 DEF Known, ScanPart, Ids
<1>1. ASSUME Track
      PROVE  Sound'
  <2>1. UNCHANGED <<exits, held, record, hand, faulty>> /\ scan.pc = "track"
        /\ scan' = [scan EXCEPT !.pc = "save"]
        /\ tracked' = (IF Tracks(scan.at) THEN tracked \union {scan.at} ELSE tracked)
                     \ (IF scan.at[1] = "leg" THEN {record.stop} \ {scan.at} ELSE {})
    BY <1>1 DEF Track, broker
  <2>2. /\ scan'.pc = "save" /\ scan'.at = scan.at /\ scan'.status = scan.status
        /\ scan'.legs = scan.legs
    BY <2>1 DEF Known, ScanPart, ScanTyped
  <2>3. Sold' /\ ReadTrue' /\ Emptied' /\ Gone' /\ Replaced'
    BY <2>1, <2>2, SoldKept, ReadKept DEF Sound, Emptied, Gone, Replaced, Over, Names
  <2>4. Noted'
    <3>1. ~Names(scan.at) => Tracks(scan.at) /\ scan.at[1] # "leg"
      BY <1>0, <2>1, IdShapes DEF Names, Tracks, Placers
    <3>2. ~Names(scan.at) => scan.at \in tracked'
      BY <2>1, <3>1
    <3>3. QED
      BY <2>2, <3>2 DEF Noted, Names
  <2>5. NothingLost'
    <3> SUFFICES ASSUME NEW id \in Ids \ {Sale}, exits'[id] = "resting"
                 PROVE  id \in Holders'
      BY DEF NothingLost, Holders
    <3>1. exits[id] = "resting" /\ id \in tracked \union OnRecord \union InHand \union faulty
      BY <2>1 DEF Sound, NothingLost
    <3>2. InHand' = InHand /\ OnRecord' = OnRecord
      BY <2>1, <2>2 DEF InHand, OnRecord
    <3>3. ASSUME id \in tracked
          PROVE  id \in Holders'
      <4>1. CASE scan.at[1] = "leg" /\ id = record.stop
        BY <3>2, <4>1, IdShapes DEF Holders, OnRecord
      <4>2. CASE ~(scan.at[1] = "leg" /\ id = record.stop)
        BY <2>1, <3>3, <4>2 DEF Holders
      <4>3. QED
        BY <4>1, <4>2
    <3>4. QED
      BY <2>1, <3>1, <3>2, <3>3 DEF Holders
  <2>6. QED
    BY <2>3, <2>4, <2>5 DEF Sound
<1>2. ASSUME Save
      PROVE  Sound'
  <2>1. UNCHANGED <<exits, held, tracked, hand, faulty>> /\ scan.pc = "save" /\ Goto(scan.then)
    BY <1>2 DEF Save, broker
  <2>2. scan.then \in {"trail", "monitor", "naked", "idle"}
    BY DEF Known, ScanPart, ScanTyped
  <2>3. scan'.pc = scan.then /\ scan'.status = [i \in Ids |-> "unknown"]
    BY <2>1, <2>2, GotoGoes DEF Pcs
  <2>4. Sold' /\ ReadTrue' /\ Emptied' /\ Gone' /\ Replaced' /\ Noted'
    BY <2>1, <2>2, <2>3, SoldKept, ReadKept DEF Sound, Emptied, Gone, Replaced, Noted
  <2>5. record'.stop = (IF Names(scan.at) THEN scan.at ELSE record.stop)
        /\ record'.target = record.target
    BY <1>2 DEF Save, Known, RecordPart
  <2>6. NothingLost'
    <3> SUFFICES ASSUME NEW id \in Ids \ {Sale}, exits'[id] = "resting"
                 PROVE  id \in Holders'
      BY DEF NothingLost, Holders
    <3>1. id # NoId /\ exits[id] = "resting"
          /\ id \in tracked \union OnRecord \union {scan.at} \union hand.legs \union faulty
      BY <1>0, <2>1, IdShapes DEF Sound, NothingLost, InHand
    <3>2. CASE id = scan.at
      <4>1. CASE Names(scan.at)
        BY <2>5, <3>1, <3>2, <4>1 DEF Holders, OnRecord
      <4>2. CASE ~Names(scan.at)
        BY <2>1, <3>1, <3>2, <4>2 DEF Sound, Noted, Holders, InHand
      <4>3. QED
        BY <4>1, <4>2
    <3>3. CASE id \in OnRecord /\ id # scan.at
      <4>1. CASE id = record.stop
        <5>1. ~Names(scan.at)
          BY <2>1, <3>1, <4>1 DEF Sound, Replaced, Over
        <5>2. QED
          BY <2>5, <3>1, <4>1, <5>1 DEF Holders, OnRecord
      <4>2. CASE id = record.target
        BY <2>5, <3>1, <4>2 DEF Holders, OnRecord
      <4>3. QED
        BY <3>3, <4>1, <4>2 DEF OnRecord
    <3>4. CASE id \in tracked \union hand.legs \union faulty
      BY <2>1, <3>4 DEF Holders, InHand
    <3>5. QED
      BY <3>1, <3>2, <3>3, <3>4
  <2>7. QED
    BY <2>4, <2>6 DEF Sound
<1>3. QED
  BY <1>1, <1>2

\* Trailing, and a death.
LEMMA SoundTrailing ==
    ASSUME Known, Sound, Moves
    PROVE  /\ Tightens \/ ScanDies => Sound'
           /\ \A id \in Ids : StripStop(id) => Sound'
<1>1. ASSUME Tightens
      PROVE  Sound'
  <2>1. UNCHANGED <<exits, held, record, hand, faulty>> /\ scan.pc = "trail"
        /\ scan' = [scan EXCEPT !.pc = "strip", !.legs = tracked \intersect StopIds]
        /\ tracked' = tracked \ (tracked \intersect StopIds)
    BY <1>1 DEF Tightens, broker
  <2>2. /\ scan'.pc = "strip" /\ scan'.status = scan.status
        /\ scan'.legs = tracked \intersect StopIds
    BY <2>1 DEF Known, ScanPart, ScanTyped
  <2>3. Sold' /\ ReadTrue' /\ Emptied' /\ Gone' /\ Replaced' /\ Noted'
    BY <2>1, <2>2, SoldKept, ReadKept DEF Sound, Emptied, Gone, Replaced, Noted
  <2>4. NothingLost'
    BY <2>1, <2>2 DEF Sound, NothingLost, InHand, OnRecord
  <2>5. QED
    BY <2>3, <2>4 DEF Sound
<1>2. ASSUME NEW id \in Ids, StripStop(id)
      PROVE  Sound'
  <2>1. UNCHANGED <<held, tracked, record, hand>> /\ scan.pc = "strip"
        /\ scan' = [scan EXCEPT !.legs = @ \ {id}] /\ faulty \subseteq faulty'
    BY <1>2, FaultyKept DEF StripStop
  <2>2. /\ scan'.pc = "strip" /\ scan'.status = scan.status /\ scan'.at = scan.at
        /\ scan'.legs = scan.legs \ {id}
    BY <2>1 DEF Known, ScanPart, ScanTyped
  <2>3. Sold' /\ ReadTrue' /\ Emptied' /\ Gone' /\ Replaced' /\ Noted'
    BY <2>1, <2>2, SoldKept, ReadKept DEF Sound, Emptied, Gone, Replaced, Noted
  <2>4. /\ \A i \in Ids : exits'[i] = "resting" => exits[i] = "resting"
        /\ exits'[id] = "resting" => id \in faulty'
    BY <1>2 DEF StripStop, Cancelled, CallFails, Known, BrokerPart
  <2>5. NothingLost'
    BY <2>1, <2>2, <2>4 DEF Sound, NothingLost, InHand, OnRecord
  <2>6. QED
    BY <2>3, <2>5 DEF Sound
<1>3. ASSUME ScanDies
      PROVE  Sound'
  <2>1. UNCHANGED <<exits, held, tracked, record, hand>> /\ scan' = IdleScan
        /\ faulty' = faulty \union ((IF scan.pc \in {"settle", "strip"} THEN scan.legs ELSE {})
                                      \union ({scan.at} \ {NoId}))
    BY <1>3 DEF ScanDies, CallFails, broker
  <2>2. /\ scan'.pc = "idle" /\ scan'.status = [i \in Ids |-> "unknown"]
        /\ scan'.legs = {} /\ scan'.at = NoId
    BY <2>1 DEF IdleScan
  <2>3. Sold' /\ ReadTrue' /\ Emptied' /\ Gone' /\ Replaced' /\ Noted'
    BY <2>1, <2>2, SoldKept, ReadKept DEF Sound, Emptied, Gone, Replaced, Noted
  <2>4. NothingLost'
    <3> SUFFICES ASSUME NEW id \in Ids \ {Sale}, exits'[id] = "resting"
                 PROVE  id \in Holders'
      BY DEF NothingLost, Holders
    <3>1. id # NoId /\ id \in tracked \union OnRecord \union InHand \union faulty
      BY <2>1, IdShapes DEF Sound, NothingLost
    <3>2. scan.pc \in {"track", "save"} => scan.legs = {}
      BY DEF Known, ScanPart
    <3>3. OnRecord' = OnRecord
      BY <2>1 DEF OnRecord
    <3>4. QED
      BY <2>1, <3>1, <3>2, <3>3 DEF Holders, InHand
  <2>5. QED
    BY <2>3, <2>4 DEF Sound
<1>4. QED
  BY <1>1, <1>2, <1>3

LEMMA SoundInit == Init => Sound
<1> SUFFICES ASSUME Init PROVE Sound
  OBVIOUS
<1>1. Known
  BY KnownInit
<1>2. scan = IdleScan /\ hand = [pc |-> "idle", legs |-> {}] /\ faulty = {}
  BY DEF Init
<1>3. \A id \in Ids : exits[id] # "filled" /\ (exits[id] = "resting" => id \in tracked)
  BY DEF Init
<1>4. QED
  BY <1>2, <1>3
  DEF Sound, Sold, ReadTrue, Gone, Replaced, Noted, Emptied, NothingLost, IdleScan

LEMMA SoundNext ==
    ASSUME Known, Sound, [Next]_vars
    PROVE  Sound'
<1>0. Moves
  BY MovesNext
<1>1. CASE UNCHANGED vars
  BY <1>0, <1>1, SoundOthers DEF vars, Emptied, Sound
<1>2. CASE \E id \in Ids : Fills(id) \/ CancelLands(id) \/ Expires(id)
  BY <1>0, <1>2, SoundBroker
<1>3. CASE ListCatchesUp \/ SessionChanges
  BY <1>0, <1>3, SoundBroker
<1>4. CASE StartPass("full") \/ StartPass("fast")
  BY <1>0, <1>4, SoundTurns
<1>5. CASE ScanDies
  BY <1>0, <1>5, SoundTrailing
<1>6. CASE PressClose \/ SellByHand \/ CloseDies \/ \E id \in Ids : CancelForClose(id)
  BY <1>0, <1>6, SoundByHand
<1>7. CASE ScanStep
  <2>1. CASE ReadPositions \/ SweepDecides \/ RecheckLeg
             \/ \E id \in Ids : ReadLeg(id) \/ DropLeg(id) \/ CancelLeg(id)
    BY <1>0, <2>1, SoundSweep
  <2>2. CASE SweepEnds \/ NothingToRetry \/ NoTightening \/ NothingToRearm
               \/ NothingToMonitor \/ EndPass \/ CheckRaises
    BY <1>0, <2>2, SoundTurns
  <2>3. CASE RetryStop \/ ReplaceStop \/ Reprotect \/ RearmStop \/ AttachStop
    BY <1>0, <2>3, SoundStops
  <2>4. CASE Track \/ Save
    BY <1>0, <2>4, SoundWritten
  <2>5. CASE Tightens \/ \E id \in Ids : StripStop(id)
    BY <1>0, <2>5, SoundTrailing
  <2>6. CASE FillPass \/ CheckExit \/ EndSibling \/ ConfirmSibling \/ CloseRecord
    BY <1>0, <2>6, SoundMonitor
  <2>7. QED
    BY <1>7, <2>1, <2>2, <2>3, <2>4, <2>5, <2>6 DEF ScanStep
<1>8. QED
  BY <1>1, <1>2, <1>3, <1>4, <1>5, <1>6, <1>7 DEF Next

\* The two invariants together are inductive.
LEMMA Inductive == Spec => [](Known /\ Sound)
<1>1. Init => Known /\ Sound
  BY KnownInit, SoundInit
<1>2. (Known /\ Sound) /\ [Next]_vars => (Known /\ Sound)'
  BY KnownNext, SoundNext
<1>3. QED
  BY <1>1, <1>2, PTL DEF Spec

\* Whatever the button, trailing, the sweep and the rearming do between each
\* other, an exit order that rests at the broker is in webull_active_stops.json,
\* on the record or in somebody's hand, but for one whose call failed.
THEOREM NothingIsLost == Spec => []NothingLost
<1>1. Known /\ Sound => NothingLost
  BY DEF Sound
<1>2. QED
  BY <1>1, Inductive, PTL

---------------------------------------------------------------------------
(* What a step may do.                                                     *)

LEMMA DropsWhatIsOver ==
    ASSUME Known, Sound, Next
    PROVE  \A id \in tracked \ tracked' :
              \/ Over(id) \/ scan.status[id] = "blank"
              \/ (scan'.pc = "strip" /\ id \in scan'.legs) \/ id \in hand'.legs
<1> SUFFICES ASSUME NEW id \in tracked \ tracked'
             PROVE  \/ Over(id) \/ scan.status[id] = "blank"
                    \/ (scan'.pc = "strip" /\ id \in scan'.legs) \/ id \in hand'.legs
  OBVIOUS
<1>0. id \in Ids /\ Seen(id) /\ (Reading(id) # "active" => Over(id))
  BY Naming DEF Reading, Active, Over, Seen, Known, BrokerPart, Statuses
<1>1. CASE \E i \in Ids : Fills(i) \/ CancelLands(i) \/ Expires(i) \/ CancelForClose(i)
  BY <1>1 DEF Fills, CancelLands, Expires, CancelForClose
<1>2. CASE ListCatchesUp \/ SessionChanges \/ StartPass("full") \/ StartPass("fast")
           \/ ScanDies \/ SellByHand \/ CloseDies
  BY <1>2 DEF ListCatchesUp, SessionChanges, StartPass, ScanDies, SellByHand, CloseDies
<1>3. CASE PressClose
  BY <1>3 DEF PressClose
<1>4. CASE ScanStep
  <2>1. CASE \/ ReadPositions \/ SweepDecides \/ SweepEnds \/ NothingToRetry \/ Save
             \/ NoTightening \/ FillPass \/ CheckRaises \/ CheckExit \/ EndSibling
             \/ RecheckLeg \/ ConfirmSibling \/ NothingToRearm \/ NothingToMonitor \/ EndPass
             \/ \E i \in Ids : ReadLeg(i) \/ CancelLeg(i) \/ StripStop(i)
    BY <2>1 DEF ReadPositions, SweepDecides, SweepEnds, NothingToRetry, Save, NoTightening,
        FillPass, CheckRaises, CheckExit, EndSibling, NothingToRearm, NothingToMonitor,
        EndPass, RecheckLeg, ConfirmSibling, ReadLeg, CancelLeg, StripStop
  <2>2. CASE RetryStop \/ ReplaceStop \/ Reprotect \/ RearmStop \/ AttachStop
    BY <2>2 DEF RetryStop, ReplaceStop, Reprotect, RearmStop, AttachStop, Place
  <2>3. CASE \E i \in Ids : DropLeg(i)
    BY <2>3 DEF DropLeg, Sound, ReadTrue, Over
  <2>5. CASE Track
    <3>1. scan.at[1] = "leg" /\ id = record.stop /\ scan.pc = "track"
      BY <2>5 DEF Track
    <3>2. id # NoId /\ Names(scan.at)
      BY <1>0, <3>1, IdShapes DEF Names
    <3>3. QED
      BY <3>1, <3>2 DEF Sound, Replaced
  <2>6. CASE Tightens
    BY <2>6 DEF Tightens, Known, ScanPart, ScanTyped
  <2>7. CASE CloseRecord
    BY <1>0, <2>7 DEF CloseRecord, Sound, ReadTrue, Over
  <2>8. QED
    BY <1>4, <2>1, <2>2, <2>3, <2>5, <2>6, <2>7 DEF ScanStep
<1>5. QED
  BY <1>1, <1>2, <1>3, <1>4 DEF Next

\* However stale the reading it acts on, the sweep drops only orders that are
\* over, and those of which the broker's answer had no status; so does the exit
\* pass. A call that failed drops none.
THEOREM OnlyTheOverIsDropped == Spec => DroppedIsOver
<1>1. Known /\ Sound /\ [Next]_vars =>
        [\A id \in tracked \ tracked' :
            \/ Over(id) \/ scan.status[id] = "blank"
            \/ (scan'.pc = "strip" /\ id \in scan'.legs) \/ id \in hand'.legs]_vars
  BY DropsWhatIsOver
<1>2. QED
  BY <1>1, Inductive, PTL DEF Spec, DroppedIsOver

LEMMA CancelsWhatIsSold ==
    ASSUME Known, Sound, Next
    PROVE  \A id \in Ids : (held /\ exits[id] = "resting" /\ exits'[id] = "cancelling") =>
              scan.pc = "strip" \/ hand.pc = "strip"
<1> SUFFICES ASSUME NEW id \in Ids, held, exits[id] = "resting", exits'[id] = "cancelling"
             PROVE  scan.pc = "strip" \/ hand.pc = "strip"
  OBVIOUS
<1>1. CASE \E i \in Ids : Fills(i) \/ CancelLands(i) \/ Expires(i)
  BY <1>1 DEF Fills, CancelLands, Expires, Known, BrokerPart
<1>2. CASE ListCatchesUp \/ SessionChanges \/ StartPass("full") \/ StartPass("fast")
           \/ ScanDies \/ PressClose \/ CloseDies
  BY <1>2 DEF ListCatchesUp, SessionChanges, StartPass, ScanDies, PressClose, CloseDies, broker
<1>3. CASE SellByHand
  BY <1>3 DEF SellByHand
<1>4. CASE \E i \in Ids : CancelForClose(i)
  BY <1>4 DEF CancelForClose, Sound, Emptied
<1>5. CASE ScanStep
  <2>1. CASE \/ ReadPositions \/ SweepDecides \/ RecheckLeg \/ SweepEnds \/ NothingToRetry
             \/ Track \/ Save \/ Tightens \/ NoTightening \/ FillPass \/ CheckRaises
             \/ CheckExit \/ ConfirmSibling \/ CloseRecord \/ NothingToRearm
             \/ NothingToMonitor \/ EndPass \/ \E i \in Ids : ReadLeg(i) \/ DropLeg(i)
    BY <2>1
    DEF ReadPositions, SweepDecides, RecheckLeg, SweepEnds, NothingToRetry, Track, Save,
        Tightens, NoTightening, FillPass, CheckRaises, CheckExit, ConfirmSibling, CloseRecord,
        NothingToRearm, NothingToMonitor, EndPass, ReadLeg, DropLeg, broker
  <2>2. CASE RetryStop \/ ReplaceStop \/ Reprotect \/ RearmStop \/ AttachStop
    BY <2>2 DEF RetryStop, ReplaceStop, Reprotect, RearmStop, AttachStop, Place, Placed,
                Known, BrokerPart
  <2>3. CASE EndSibling
    BY <2>3 DEF EndSibling, Sound, Gone
  <2>4. CASE \E i \in Ids : CancelLeg(i)
    BY <2>4 DEF CancelLeg, Sound, Gone
  <2>5. CASE \E i \in Ids : StripStop(i)
    BY <2>5 DEF StripStop
  <2>6. QED
    BY <1>5, <2>1, <2>2, <2>3, <2>4, <2>5 DEF ScanStep
<1>6. QED
  BY <1>1, <1>2, <1>3, <1>4, <1>5 DEF Next

\* However far the broker's list of positions lags, only trailing and the button
\* cancel an exit order of shares that are held.
THEOREM HeldSharesKeepTheirStop == Spec => HeldKeepsItsStop
<1>1. Known /\ Sound /\ [Next]_vars =>
        [\A id \in Ids : (held /\ exits[id] = "resting" /\ exits'[id] = "cancelling") =>
            scan.pc = "strip" \/ hand.pc = "strip"]_vars
  BY CancelsWhatIsSold
<1>2. QED
  BY <1>1, Inductive, PTL DEF Spec, HeldKeepsItsStop

=============================================================================
