---------------------------- MODULE ExitTracking ----------------------------
(***************************************************************************)
(* The exit orders of one position, and the file that tracks them.         *)
(*                                                                         *)
(* webull_active_stops.json names the orders that rest at the broker for a *)
(* ticker, so that whoever ends the position can cancel them. The record   *)
(* of the entry names a stop too. Five parts of the code place or cancel   *)
(* such orders, and do not all keep both:                                  *)
(*                                                                         *)
(*   - the sweep cancels what is left once a tracked order has filled;     *)
(*   - the retry places the stop that could not be placed before;          *)
(*   - trailing replaces the stop by a tighter one;                        *)
(*   - the exit pass closes the record, or rearms a stop that is gone;     *)
(*   - the review of naked positions attaches a stop to a record of none.  *)
(*                                                                         *)
(* They are the stages of a pass, full or fast, which holds the account's  *)
(* lock. The button that closes a position by hand holds none: it clears   *)
(* the file, cancels what was in it and sells, at any moment of a pass.    *)
(***************************************************************************)
EXTENDS Integers, FiniteSets

CONSTANTS
    MaxStops,   \* bounds the stops each part of the code places
    MaxFaults,  \* bounds the deaths and the calls that fail
    NoId

ASSUME BoundsAssumption == MaxStops \in Nat \ {0} /\ MaxFaults \in Nat

\* Ids. The order of the entry's protection, of a bracket from before targets
\* stopped resting at the broker, of each part that places stops, and of the
\* sale by hand.
Placers == {"leg", "retry", "trail", "rearm", "naked"}
StopIds == Placers \X (1..MaxStops)
Target == <<"target", 1>>
Sale == <<"sale", 1>>
Ids == StopIds \union {Target, Sale}
ASSUME NameAssumption == NoId \notin Ids

VARIABLES
    exits,    \* the exit orders at the broker
    held,     \* whether the account holds the shares
    listed,   \* whether the broker's list of positions shows them
    core,     \* whether the CORE session is on
    tracked,  \* webull_active_stops.json, for the ticker
    record,   \* the entry's record, as far as its exits go
    scan,     \* the pass that holds the lock
    hand,     \* the call that closes the position by hand
    faulty,   \* history: orders of which the broker failed a call or gave an
              \* empty detail, or whose caller died with them in hand
    faults    \* how many faults have happened

vars == <<exits, held, listed, core, tracked, record, scan, hand, faulty, faults>>
broker == <<exits, held, listed, core>>

---------------------------------------------------------------------------
(* The broker. It takes one exit order at a time, and a stop in CORE hours *)
(* only. A cancellation it accepts takes effect later, if nothing sold     *)
(* before.                                                                 *)

Statuses == {"none", "resting", "cancelling", "dead", "filled"}
Active(id) == exits[id] \in {"resting", "cancelling"}
Over(id) == exits[id] \in {"dead", "filled"}
Covered == \E id \in Ids : Active(id)

Fills(id) ==
    /\ Active(id)
    /\ exits' = [exits EXCEPT ![id] = "filled"]
    /\ held' = FALSE
    /\ UNCHANGED <<listed, core, tracked, record, scan, hand, faulty, faults>>

CancelLands(id) ==
    /\ exits[id] = "cancelling"
    /\ exits' = [exits EXCEPT ![id] = "dead"]
    /\ UNCHANGED <<held, listed, core, tracked, record, scan, hand, faulty, faults>>

\* All orders are DAY orders.
Expires(id) ==
    /\ exits[id] = "resting" /\ faults < MaxFaults
    /\ faults' = faults + 1
    /\ exits' = [exits EXCEPT ![id] = "dead"]
    /\ UNCHANGED <<held, listed, core, tracked, record, scan, hand, faulty>>

ListCatchesUp ==
    /\ listed # held
    /\ listed' = held
    /\ UNCHANGED <<exits, held, core, tracked, record, scan, hand, faulty, faults>>

SessionChanges ==
    /\ IF core THEN faults < MaxFaults /\ faults' = faults + 1 ELSE UNCHANGED faults
    /\ core' = ~core
    /\ UNCHANGED <<exits, held, listed, tracked, record, scan, hand, faulty>>

\* A call of the broker about some orders fails, or the process that has
\* them in hand dies.
CallFails(ids) ==
    /\ faults < MaxFaults
    /\ faults' = faults + 1
    /\ faulty' = faulty \union ids

\* What get_order_detail says of an order. An empty detail is no error: its
\* status reads UNKNOWN, which is neither resting nor filled.
Reading(id) ==
    CASE Active(id)           -> "active"
      [] exits[id] = "filled" -> "filled"
      [] OTHER                -> "dead"
Readings == {"active", "filled", "dead", "blank"}
Reads(id, reading) ==
    \/ reading = Reading(id) /\ UNCHANGED <<faulty, faults>>
    \/ reading = "blank" /\ CallFails({id})

\* cancel_order. An order that is over refuses it.
Cancelled(id) == exits' = [exits EXCEPT ![id] = IF @ = "resting" THEN "cancelling" ELSE @]

\* A placement.
Accepts(id) == held /\ ~Covered /\ (id # Sale => core)
Placed(id) == exits' = [exits EXCEPT ![id] = "resting"]

---------------------------------------------------------------------------
(* A pass: its stages in order, each reading what it needs itself, except  *)
(* that a fast pass reads the positions once.                              *)

Pcs == {"idle", "exits", "sweep", "settle", "recheck", "retry", "trail", "strip",
        "replace", "monitor", "sibling", "confirm", "close", "rearm", "reprotect", "naked",
        "track", "save"}

IdleScan == [pc |-> "idle", kind |-> "none", seen |-> FALSE, legs |-> {},
             status |-> [id \in Ids |-> "unknown"], at |-> NoId, then |-> "idle"]

Goto(pc) == scan' = [scan EXCEPT !.pc = pc, !.legs = {}, !.at = NoId,
                                 !.status = IdleScan.status]
Listed == IF scan.kind = "fast" THEN scan.seen ELSE listed

StartPass(kind) ==
    /\ scan.pc = "idle"
    /\ scan' = [IdleScan EXCEPT !.pc = "exits", !.kind = kind, !.seen = listed]
    /\ UNCHANGED <<broker, tracked, record, hand, faulty, faults>>

\* The list decides between the sweep of a position that is gone and the retry
\* for one that is there. It may be unreadable.
ReadPositions ==
    /\ scan.pc = "exits"
    /\ \/ Listed /\ Goto("retry") /\ UNCHANGED <<faulty, faults>>
       \/ /\ ~Listed
          /\ scan' = [scan EXCEPT !.pc = "sweep", !.legs = tracked]
          /\ UNCHANGED <<faulty, faults>>
       \/ CallFails({}) /\ Goto("trail")
    /\ UNCHANGED <<broker, tracked, record, hand>>

\* The status of each tracked order is read first.
ReadLeg(id) ==
    /\ scan.pc = "sweep" /\ id \in scan.legs
    /\ \/ \E reading \in Readings :
             /\ Reads(id, reading)
             /\ scan' = [scan EXCEPT !.legs = @ \ {id}, !.status[id] = reading]
       \/ CallFails({id}) /\ scan' = [scan EXCEPT !.legs = @ \ {id}]
    /\ UNCHANGED <<broker, tracked, record, hand>>

\* Mutant of Explained: any order that does not rest explains it.
ExplainedByDead == \E id \in Ids : scan.status[id] \in {"filled", "dead"}
\* A fill explains that the position is gone; its absence alone is none.
Explained == \E id \in Ids : scan.status[id] = "filled"

SweepDecides ==
    /\ scan.pc = "sweep" /\ scan.legs = {}
    /\ IF Explained
       THEN scan' = [scan EXCEPT !.pc = "settle",
                                 !.legs = {id \in Ids : scan.status[id] # "unknown"}]
       ELSE Goto("trail")
    /\ UNCHANGED <<broker, tracked, record, hand, faulty, faults>>

\* An order that did not rest when it was read is dropped, and one of which
\* nothing was read passes for one.
DropLeg(id) ==
    /\ scan.pc = "settle" /\ id \in scan.legs
    /\ scan.status[id] \in {"filled", "dead", "blank"}
    /\ tracked' = tracked \ {id}
    /\ scan' = [scan EXCEPT !.legs = @ \ {id}]
    /\ UNCHANGED <<broker, record, hand, faulty, faults>>

\* One that was resting is cancelled; a refusal keeps it.
CancelLeg(id) ==
    /\ scan.pc = "settle" /\ id \in scan.legs
    /\ scan.status[id] = "active"
    /\ \/ /\ Active(id) /\ Cancelled(id)
          /\ scan' = [scan EXCEPT !.legs = @ \ {id}, !.pc = "recheck", !.at = id]
          /\ UNCHANGED <<faulty, faults>>
       \/ /\ Over(id) \/ Active(id)
          /\ IF Over(id) THEN UNCHANGED <<faulty, faults>> ELSE CallFails({id})
          /\ scan' = [scan EXCEPT !.legs = @ \ {id}]
          /\ UNCHANGED exits
    /\ UNCHANGED <<held, listed, core, tracked, record, hand>>

\* And read again: one that does not rest any more is dropped.
RecheckLeg ==
    /\ scan.pc = "recheck"
    /\ \/ \E reading \in Readings :
             /\ Reads(scan.at, reading)
             /\ scan' = [scan EXCEPT !.pc = "settle", !.at = NoId,
                         !.legs = IF reading = "active" THEN @ ELSE @ \union {scan.at},
                         !.status[scan.at] = reading]
       \/ CallFails({scan.at}) /\ scan' = [scan EXCEPT !.pc = "settle", !.at = NoId]
    /\ UNCHANGED <<broker, tracked, record, hand>>

SweepEnds ==
    /\ scan.pc = "settle" /\ scan.legs = {}
    /\ Goto("trail")
    /\ UNCHANGED <<broker, tracked, record, hand, faulty, faults>>

---------------------------------------------------------------------------
(* Placing a stop. Who placed it decides where it is written: trailing and *)
(* the retry track it, the rearming and the review name it on the record,  *)
(* the protection of the entry does both.                                  *)

\* Mutant of Tracks: trailing does not track the stop it placed.
TracksOld(id) == id[1] \in {"leg", "retry"}
Tracks(id) == id[1] \in {"leg", "retry", "trail"}
Names(id) == id[1] \in {"leg", "rearm", "naked"}

\* The ids of those that name it are numbered on the record, and a number that
\* was not saved is used again: the broker answers with the order it has. A
\* number whose order was refused is used again here too, as it has no order.
Numbered == {"leg", "rearm", "naked"}
NextId(placer) ==
    <<placer, 1 + IF placer \in Numbered THEN record.used[placer]
                  ELSE Cardinality({id \in StopIds : id[1] = placer /\ exits[id] # "none"})>>
Left(placer) == NextId(placer) \in Ids
\* The rearming and the review count an attempt that failed.
Counted(placer, r) ==
    IF placer \in {"rearm", "naked"} THEN [r EXCEPT !.used[placer] = @ + 1] ELSE r

\* Of a placement that is not heard, an order may rest all the same.
Place(pc, placer, then, failed) ==
    /\ scan.pc = pc /\ Left(placer)
    /\ LET id == NextId(placer)
           next == [IdleScan EXCEPT !.kind = scan.kind, !.seen = scan.seen, !.pc = then]
       IN \/ /\ IF exits[id] = "none" THEN Accepts(id) /\ Placed(id) ELSE UNCHANGED exits
             /\ scan' = [next EXCEPT !.pc = "track", !.at = id, !.then = then]
             /\ UNCHANGED <<record, faulty, faults>>
          \/ /\ exits[id] = "none" /\ ~Accepts(id)
             /\ scan' = next /\ record' = failed
             /\ UNCHANGED <<exits, faulty, faults>>
          \/ /\ exits[id] = "none" /\ Accepts(id)
             /\ CallFails({id})
             /\ Placed(id) \/ UNCHANGED exits
             /\ scan' = next
             /\ record' = IF exits' = exits THEN failed ELSE Counted(placer, failed)
    /\ UNCHANGED <<held, listed, core, tracked, hand>>

\* The protection of the entry drops the stop it replaces.
Track ==
    /\ scan.pc = "track"
    /\ tracked' = (IF Tracks(scan.at) THEN tracked \union {scan.at} ELSE tracked)
                     \ (IF scan.at[1] = "leg" THEN {record.stop} \ {scan.at} ELSE {})
    /\ scan' = [scan EXCEPT !.pc = "save"]
    /\ UNCHANGED <<broker, record, hand, faulty, faults>>

Save ==
    /\ scan.pc = "save"
    /\ record' = [record EXCEPT
            !.stop = IF Names(scan.at) THEN scan.at ELSE @,
            !.used = [p \in Numbered |-> IF p = scan.at[1] THEN scan.at[2] ELSE @[p]],
            !.unplaced = @ /\ scan.at[1] # "retry",
            !.priced = @ \/ scan.at[1] = "naked"]
    /\ Goto(scan.then)
    /\ UNCHANGED <<broker, tracked, hand, faulty, faults>>

\* The retry: a stop that trailing cancelled and could not replace.
RetryStop == record.unplaced /\ Place("retry", "retry", "trail", record)

NothingToRetry ==
    /\ scan.pc = "retry" /\ (~record.unplaced \/ ~Left("retry"))
    /\ Goto("trail")
    /\ UNCHANGED <<broker, tracked, record, hand, faulty, faults>>

---------------------------------------------------------------------------
(* Trailing, in a full pass of CORE hours: the tracked stops are dropped   *)
(* and cancelled, whether that works or not, and a tighter one placed.     *)

Tightens ==
    /\ scan.pc = "trail" /\ scan.kind = "full" /\ core /\ listed
    /\ record.submitted /\ record.priced /\ Left("trail")
    /\ LET stops == tracked \intersect StopIds
       IN /\ tracked' = tracked \ stops
          /\ scan' = [scan EXCEPT !.pc = "strip", !.legs = stops]
    /\ UNCHANGED <<broker, record, hand, faulty, faults>>

StripStop(id) ==
    /\ scan.pc = "strip" /\ id \in scan.legs
    /\ \/ Cancelled(id) /\ UNCHANGED <<faulty, faults>>
       \/ exits[id] = "resting" /\ CallFails({id}) /\ UNCHANGED exits
    /\ scan' = [scan EXCEPT !.legs = @ \ {id}]
    /\ UNCHANGED <<held, listed, core, tracked, record, hand>>

ReplaceStop ==
    /\ scan.legs = {}
    /\ Place("strip", "trail", "monitor", [record EXCEPT !.unplaced = TRUE])

\* The setup is as good as it was.
NoTightening ==
    /\ scan.pc = "trail"
    /\ Goto("monitor")
    /\ UNCHANGED <<broker, tracked, record, hand, faulty, faults>>

---------------------------------------------------------------------------
(* The monitor. A record whose protection failed goes to the fill pass,    *)
(* of which EntryProtection has the steps; a confirmed one is asked how    *)
(* its exits are.                                                          *)

\* A price is needed for a stop, and a stop that filled raises.
StopReads(reading) == record.stop # NoId /\ Reading(record.stop) = reading

FillPass ==
    /\ scan.pc = "monitor" /\ record.state = "failed"
    /\ \/ /\ StopReads("active")
          /\ record' = [record EXCEPT !.state = "confirmed"]
          /\ Goto("naked")
       \/ /\ StopReads("dead") /\ Left("leg")
          /\ Goto("reprotect") /\ UNCHANGED record
       \/ /\ record.stop = NoId \/ StopReads("filled") \/ ~Left("leg")
          /\ Goto("naked") /\ UNCHANGED record
    /\ UNCHANGED <<broker, tracked, hand, faulty, faults>>

Reprotect == Place("reprotect", "leg", "naked", record)

OnRecord == {record.stop, record.target} \ {NoId}
Exited == {id \in OnRecord : exits[id] = "filled"}

\* A read that fails, or two exits that filled, raise.
CheckRaises ==
    /\ scan.pc = "monitor" /\ record.state = "confirmed"
    /\ \/ \E id \in OnRecord : CallFails({id})
       \/ Cardinality(Exited) > 1 /\ UNCHANGED <<faulty, faults>>
    /\ Goto("naked")
    /\ UNCHANGED <<broker, tracked, record, hand>>

\* A reading that is blank shows no exit.
CheckExit ==
    /\ scan.pc = "monitor" /\ record.state = "confirmed"
    /\ \E blank \in {{}} \union {{id} : id \in OnRecord} :
          LET exited == Exited \ blank
          IN /\ IF blank = {} THEN UNCHANGED <<faulty, faults>> ELSE CallFails(blank)
             /\ \/ exited = {} /\ Goto("rearm")
                \/ /\ Cardinality(exited) = 1
                   /\ scan' = [scan EXCEPT !.pc = "sibling", !.legs = OnRecord \ exited,
                         !.status = [id \in Ids |-> IF id \in blank THEN "blank" ELSE @[id]]]
    /\ UNCHANGED <<broker, tracked, record, hand>>

\* Mutant of EndSibling: the record is closed on the exit alone.
EndSiblingLater ==
    /\ scan.pc = "sibling"
    /\ scan' = [scan EXCEPT !.pc = "confirm", !.legs = {}]
    /\ UNCHANGED <<broker, tracked, record, hand, faulty, faults>>

\* The sibling is cancelled first; a cancellation that fails raises. One whose
\* reading was blank passes for an order that is over.
EndSibling ==
    /\ scan.pc = "sibling"
    /\ LET resting == {id \in scan.legs : Active(id) /\ scan.status[id] # "blank"}
       IN \/ /\ \/ \E id \in resting : Cancelled(id)
                \/ resting = {} /\ UNCHANGED exits
             /\ scan' = [scan EXCEPT !.pc = "confirm"]
             /\ UNCHANGED <<faulty, faults>>
          \/ /\ \E id \in resting : CallFails({id})
             /\ Goto("naked") /\ UNCHANGED exits
    /\ UNCHANGED <<held, listed, core, tracked, record, hand>>

\* And read again; a read that fails raises.
ConfirmSibling ==
    /\ scan.pc = "confirm"
    /\ LET unread == {id \in scan.legs : scan.status[id] # "blank"}
       IN \/ /\ unread = {}
             /\ scan' = [scan EXCEPT !.pc = "close"]
             /\ UNCHANGED <<faulty, faults>>
          \/ \E id \in unread, reading \in Readings :
                /\ Reads(id, reading)
                /\ scan' = [scan EXCEPT !.pc = "close", !.status[id] = reading]
          \/ \E id \in unread : CallFails({id}) /\ Goto("naked")
    /\ UNCHANGED <<broker, tracked, record, hand>>

\* The record is closed once it is not seen to rest, nor to have sold.
CloseRecord ==
    /\ scan.pc = "close"
    /\ LET closes == \A id \in scan.legs : scan.status[id] \in {"dead", "blank"}
       IN /\ tracked' = IF closes THEN tracked \ scan.legs ELSE tracked
          /\ record' = [record EXCEPT !.state = IF closes THEN "closed" ELSE @]
    /\ Goto("naked")
    /\ UNCHANGED <<broker, hand, faulty, faults>>

\* A blank reading passes for dead here too, but the order it leads to is
\* refused: the broker has the one that rests, or no shares.
Dead == record.stop = NoId \/ StopReads("dead")

\* Mutant of MayRearm: a stop that is still tracked is taken to rest.
MayRearmUntracked == Dead /\ Listed /\ core /\ record.stop \notin tracked
MayRearm == Dead /\ Listed /\ core

RearmStop == MayRearm /\ Place("rearm", "rearm", "naked", record)

NothingToRearm ==
    /\ scan.pc = "rearm"
    /\ ~MayRearm \/ ~Left("rearm")
    /\ Goto("naked")
    /\ UNCHANGED <<broker, tracked, record, hand, faulty, faults>>

NothingToMonitor ==
    /\ scan.pc = "monitor" /\ record.state = "closed"
    /\ Goto("naked")
    /\ UNCHANGED <<broker, tracked, record, hand, faulty, faults>>

\* The review of naked positions, in a fast pass: a record without a stop id
\* gets one at the price of its last unfilled stop.
Naked ==
    /\ scan.kind = "fast" /\ scan.seen /\ core /\ record.state # "closed"
    /\ record.stop = NoId /\ ~\E id \in StopIds : Active(id)

AttachStop == Naked /\ Place("naked", "naked", "idle", record)

EndPass ==
    /\ scan.pc = "naked" /\ (~Naked \/ ~Left("naked"))
    /\ Goto("idle")
    /\ UNCHANGED <<broker, tracked, record, hand, faulty, faults>>

\* The process dies: the lock is free again.
ScanDies ==
    /\ scan.pc # "idle"
    /\ CallFails((IF scan.pc \in {"settle", "strip"} THEN scan.legs ELSE {})
                    \union ({scan.at} \ {NoId}))
    /\ scan' = IdleScan
    /\ UNCHANGED <<broker, tracked, record, hand>>

ScanStep ==
    \/ ReadPositions \/ SweepDecides \/ RecheckLeg \/ SweepEnds
    \/ \E id \in Ids : ReadLeg(id) \/ DropLeg(id) \/ CancelLeg(id) \/ StripStop(id)
    \/ RetryStop \/ NothingToRetry \/ Track \/ Save
    \/ Tightens \/ ReplaceStop \/ NoTightening
    \/ FillPass \/ Reprotect \/ CheckRaises \/ CheckExit
    \/ EndSibling \/ ConfirmSibling \/ CloseRecord
    \/ RearmStop \/ NothingToRearm \/ NothingToMonitor
    \/ AttachStop \/ EndPass

---------------------------------------------------------------------------
(* The position is closed by hand.                                         *)

PressClose ==
    /\ hand.pc = "idle" /\ listed
    /\ tracked' = {}
    /\ hand' = [pc |-> "strip", legs |-> tracked]
    /\ UNCHANGED <<broker, record, scan, faulty, faults>>

CancelForClose(id) ==
    /\ id \in hand.legs
    /\ \/ Cancelled(id) /\ UNCHANGED <<faulty, faults>>
       \/ exits[id] = "resting" /\ CallFails({id}) /\ UNCHANGED exits
    /\ hand' = [hand EXCEPT !.legs = @ \ {id}]
    /\ UNCHANGED <<held, listed, core, tracked, record, scan>>

\* The broker takes the sale, or refuses it, as it does while another exit
\* rests. Its record is one that no part of a pass reads.
SellByHand ==
    /\ hand.pc = "strip" /\ hand.legs = {}
    /\ (Accepts(Sale) /\ Placed(Sale)) \/ UNCHANGED exits
    /\ hand' = [hand EXCEPT !.pc = "done"]
    /\ UNCHANGED <<held, listed, core, tracked, record, scan, faulty, faults>>

CloseDies ==
    /\ hand.pc = "strip"
    /\ CallFails(hand.legs)
    /\ hand' = [pc |-> "done", legs |-> {}]
    /\ UNCHANGED <<broker, tracked, record, scan>>

---------------------------------------------------------------------------
(* At first the shares are held and just listed or not: under a stop, with *)
(* or without a target of the old kind, all of it on file; or under none,  *)
(* on the record of an order that was found without one.                   *)

Init ==
    /\ held = TRUE /\ listed \in BOOLEAN /\ core \in BOOLEAN
    /\ \E on \in {{}, {<<"leg", 1>>}, {<<"leg", 1>>, Target}} :
          /\ exits = [id \in Ids |-> IF id \in on THEN "resting" ELSE "none"]
          /\ tracked = on
          /\ record = [state |-> IF on = {} THEN "failed" ELSE "confirmed",
                       stop |-> IF on = {} THEN NoId ELSE <<"leg", 1>>,
                       target |-> IF Target \in on THEN Target ELSE NoId,
                       used |-> [p \in Numbered |-> IF <<p, 1>> \in on THEN 1 ELSE 0],
                       submitted |-> on # {}, priced |-> on # {}, unplaced |-> FALSE]
    /\ scan = IdleScan
    /\ hand = [pc |-> "idle", legs |-> {}]
    /\ faulty = {} /\ faults = 0

Next ==
    \/ \E id \in Ids : Fills(id) \/ CancelLands(id) \/ Expires(id) \/ CancelForClose(id)
    \/ ListCatchesUp \/ SessionChanges
    \/ StartPass("full") \/ StartPass("fast") \/ ScanStep \/ ScanDies
    \/ PressClose \/ SellByHand \/ CloseDies

\* Both timers run, the fast one every few seconds; a day of trading comes, the
\* list of positions catches up, and a cancellation takes effect.
Fairness ==
    /\ WF_vars(ScanStep) /\ SF_vars(StartPass("fast"))
    /\ WF_vars(ListCatchesUp) /\ WF_vars(~core /\ SessionChanges)
    /\ WF_vars(\E id \in Ids : CancelLands(id))

Spec == Init /\ [][Next]_vars /\ Fairness

---------------------------------------------------------------------------
(* Correctness.                                                            *)

\* And no order is tracked that the broker never had.
TypeOK ==
    /\ exits \in [Ids -> Statuses]
    /\ held \in BOOLEAN /\ listed \in BOOLEAN /\ core \in BOOLEAN
    /\ tracked \subseteq {id \in Ids : exits[id] # "none"}
    /\ record \in [state : {"failed", "confirmed", "closed"}, stop : StopIds \union {NoId},
                    target : {Target, NoId}, used : [Numbered -> 0..MaxStops],
                    submitted : BOOLEAN, priced : BOOLEAN, unplaced : BOOLEAN]
    /\ scan \in [pc : Pcs, kind : {"none", "full", "fast"}, seen : BOOLEAN,
                  legs : SUBSET Ids, at : StopIds \union {Target, NoId}, then : Pcs,
                  status : [Ids -> Readings \union {"unknown"}]]
    /\ hand \in [pc : {"idle", "strip", "done"}, legs : SUBSET Ids]
    /\ faulty \subseteq Ids /\ faults \in 0..MaxFaults

\* The orders a process is about to cancel, or to write down.
InHand ==
    (IF scan.pc \in {"strip", "track", "save"} THEN scan.legs \union {scan.at} ELSE {})
        \union hand.legs

\* An order that rests at the broker is in the file or on the record, whatever
\* the button, trailing, the rearming and the sweep do to both between them:
\* it is lost only by a call about it that failed or a death.
NothingLost ==
    \A id \in Ids \ {Sale} :
        exits[id] = "resting" => id \in tracked \union OnRecord \union InHand \union faulty

\* An order leaves the file when it is over, however stale what the sweep read
\* of it, or by an answer without a status, which passes for one that is over;
\* no failed call takes it out. Only trailing and the button take out orders
\* that rest.
DroppedIsOver ==
    [][\A id \in tracked \ tracked' :
        \/ Over(id) \/ scan.status[id] = "blank"
        \/ (scan'.pc = "strip" /\ id \in scan'.legs) \/ id \in hand'.legs]_vars

\* A list of positions that does not show the shares yet takes no stop from
\* under them: only trailing and the button cancel an exit of held shares.
HeldKeepsItsStop ==
    [][\A id \in Ids : (held /\ exits[id] = "resting" /\ exits'[id] = "cancelling") =>
        scan.pc = "strip" \/ hand.pc = "strip"]_vars

\* The exit orders that may sell, but for those that left the file or never
\* got there by a call that failed, an empty answer or a death.
LeftOver == {id \in Ids : Active(id) /\ (id \in tracked \/ id \notin faulty)}

\* Once one exit has ended the position, no other is left at the broker to sell
\* shares that are not there, tracked or not: the sweep cancels it, or the exit
\* pass where trailing dropped the one that filled, however often that fails.
SiblingGoes ==
    (LeftOver # {} /\ \E id \in Ids : exits[id] = "filled") ~> (LeftOver = {})

\* Held shares without an exit order get one: from the rearming, the retry or
\* the review, whatever happened to the last.
NakedIsCovered == (held /\ ~Covered) ~> (Covered \/ ~held)

=============================================================================
