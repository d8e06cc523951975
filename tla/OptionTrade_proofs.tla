------------------------ MODULE OptionTrade_proofs ------------------------
(***************************************************************************)
(* One sell at a time and a true journal, for any quantity, attempts,      *)
(* rejections and closes. A sell is safe to send because the one before it *)
(* is known to be over; what is known of it is in the record, on disk or   *)
(* in the memory of the pass that will save it. A lost answer hides a sell *)
(* and a restart takes the memory, so the invariant holds until two of     *)
(* these have happened, and says so. Lemmas about what the operators on    *)
(* records return come first, then one per action.                         *)
(***************************************************************************)
EXTENDS OptionTrade, SumTheorems

\* A record of an option that is held, or was.
Early(r) == r.state \notin {Confirmed, Closed}

\* The attempt whose sell may be at work, or goes out next.
Current(r) == IF r.state = Closed \/ r.exit # 0 THEN r.attempt ELSE r.attempt + 1

\* A record names the sell of its last attempt or none.
Sensible(r) ==
    /\ r.exit \in {0, r.attempt}
    /\ Early(r) => r.attempt = 0 /\ r.exit = 0
    /\ ~Early(r) => r.contracts > 0
    /\ r.state = Closed => r.exit = 0 /\ r.attempt > 0

AtWork(o) == o.status \in OpenStatuses \union {"inflight"}

\* What the pass has in hand, at each of its places.
InHand ==
    /\ pc # "settle" => last = NoAnswer
    /\ pc \in {"place", "poll"} => Early(mem) /\ Early(disk)
    /\ pc \in {"watch", "sell", "settle"} =>
         /\ ctx = "monitor" /\ disk.state = Confirmed /\ mem.state = Confirmed
         /\ mem.contracts = disk.contracts
    /\ pc = "watch" => mem.exit = 0 /\ disk.exit = 0 /\ mem.attempt = disk.attempt
    /\ pc = "sell" =>
         mem.exit = mem.attempt /\ mem.attempt = disk.attempt + 1 /\ disk.exit = 0
    /\ pc = "settle" =>
         /\ mem.exit = mem.attempt /\ mem.attempt > 0 /\ Current(disk) = mem.attempt
         /\ last # NoAnswer => ~EntryFillIsFinal(last.status) /\ last.filled < mem.contracts
    /\ pc = "save" =>
         \/ Early(disk) /\ mem.state # Closed /\ mem.attempt = 0
         \/ /\ disk.state = Confirmed /\ ~Early(mem) /\ mem.contracts = disk.contracts
            /\ Current(mem) \in {Current(disk), Current(disk) + 1}
            /\ mem.attempt >= disk.attempt

\* Sells are of a held option, and one that is at work is not yet done.
Sells ==
    /\ Early(disk) => traded = 0 /\ \A a \in Attempts : sells[a] = NoOrder
    /\ \A a \in Attempts : AtWork(sells[a]) => sells[a].filled < disk.contracts

Steady ==
    /\ TypeOK /\ tries < PollAttempts /\ held <= entry.filled
    /\ Sensible(mem) /\ Sensible(disk) /\ InHand /\ Sells

\* Sells before the current one are over without a fill, later ones not sent.
InTurn(r) ==
    \A a \in Attempts :
        /\ a > Current(r) => sells[a] = NoOrder
        /\ a < Current(r) => ~AtWork(sells[a]) /\ sells[a].filled = 0

\* A sell the broker does not show yet is named on disk, or about to be.
Flight ==
    \A a \in Attempts : sells[a].status = "inflight" =>
        /\ Mishaps >= 1
        /\ disk.exit = a \/ (pc = "save" /\ mem.exit = a)

\* What is journalled is what the current sell sold in the end.
Books ==
    /\ traded # 0 =>
         /\ Current(disk) \in Attempts
         /\ sells[Current(disk)].filled = traded /\ ~AtWork(sells[Current(disk)])
    /\ disk.state = Closed \/ (pc = "save" /\ mem.state = Closed) => traded # 0

Settling ==
    Mishaps < 2 =>
        /\ InTurn(disk)
        /\ pc \in {"watch", "sell", "settle", "save"} => InTurn(mem)
        /\ Flight /\ Books

IInv == Steady /\ Settling

-----------------------------------------------------------------------------
(* Records and passes. *)

\* The bounds are numbers.
LEMMA Bounds ==
    /\ Quantity \in Nat \ {0} /\ PollAttempts \in Nat \ {0}
    /\ MinRejections \in Nat \ {0} /\ MaxAttempts \in Nat \ {0}
    /\ MaxMishaps \in Nat /\ MaxCloses \in Nat /\ MaxOutside \in Nat
BY BoundsAssumption DEF OptionBounds

\* The names of the states are different.
LEMMA StatesDiffer ==
    /\ {Submitted, Filled, Pending, Confirmed, Failed, Unprotected, Closed, Unknown} \subseteq AllStates
    /\ Confirmed # Closed /\ Submitted \notin {Confirmed, Closed}
    /\ Filled \notin {Confirmed, Closed} /\ Pending \notin {Confirmed, Closed}
    /\ Failed \notin {Confirmed, Closed} /\ Unprotected \notin {Confirmed, Closed}
    /\ Unknown \notin {Confirmed, Closed} /\ Illegal \notin {Confirmed, Closed}
    /\ "none" \notin {Confirmed, Closed}
    /\ Closed \notin FillMonitoringStates /\ Closed \in TerminalStates
BY DEF AllStates, Submitted, Partially, Filled, Pending, Confirmed, Failed, Unprotected, Closed,
       Unknown, Released, Linking, Illegal, FillMonitoringStates, MonitorResumableStates,
       TerminalStates

\* A move changes the state alone, to where it goes or to an error.
LEMMA Moved ==
    ASSUME NEW r \in Records, NEW s \in AllStates
    PROVE  /\ Move(r, s) \in Records /\ Move(r, s).state \in {s, Illegal}
           /\ Move(r, s).filled = r.filled /\ Move(r, s).contracts = r.contracts
           /\ Move(r, s).attempt = r.attempt /\ Move(r, s).exit = r.exit
BY DEF Move, Records

\* A confirmed record may be closed.
LEMMA MayClose ==
    ASSUME NEW r \in Records, r.state = Confirmed
    PROVE  Move(r, Closed).state = Closed
<1>1. Confirmed \in AllStates /\ Closed \in ValidTransitions[Confirmed]
  BY DEF ValidTransitions, AllStates, Submitted, Partially, Filled, Pending, Confirmed, Failed,
         Unprotected, Closed, Unknown, Released, Linking, TerminalStates
<1> QED BY <1>1 DEF Move, Records

\* A fresh record that a pass works on stays fresh, or is one of a held option.
Fresh(r) == r \in Records /\ r.attempt = 0 /\ r.exit = 0 /\ r.state # Closed
            /\ (~Early(r) => r.contracts > 0)

LEMMA Abandons ==
    ASSUME NEW r, Fresh(r), Early(r) PROVE Fresh(Abandoned(r))
BY Moved, StatesDiffer DEF Abandoned, Fresh, Early

LEMMA EquityPasses ==
    ASSUME NEW r, Fresh(r), Early(r) PROVE Fresh(EquityFill(r))
<1>1. CASE r.filled = 0
  BY <1>1, Abandons DEF EquityFill
<1>2. CASE r.filled # 0
  <2> DEFINE bought == IF r.state = Submitted THEN Move(r, Filled) ELSE r
             held1 == Move(bought, Pending)
  <2>1. bought \in Records /\ bought.attempt = 0 /\ bought.exit = 0
    BY Moved, StatesDiffer DEF Fresh
  <2> HIDE DEF bought
  <2>2. held1 \in Records /\ held1.attempt = 0 /\ held1.exit = 0
    BY <2>1, Moved, StatesDiffer
  <2> HIDE DEF held1
  <2>3. Fresh(Move(held1, Unprotected))
    BY <2>2, Moved, StatesDiffer DEF Fresh, Early
  <2>4. EquityFill(r) = Move(held1, Unprotected)
    BY <1>2 DEF EquityFill, held1, bought
  <2> QED BY <2>3, <2>4
<1> QED BY <1>1, <1>2

LEMMA OptionPasses ==
    ASSUME NEW r, Fresh(r), Early(r) PROVE Fresh(OptionFill(r))
<1>1. CASE r.filled = 0
  BY <1>1, Abandons DEF OptionFill
<1>2. CASE r.filled # 0 /\ r.state \in {Submitted, Filled}
  <2> DEFINE bought == IF r.state = Submitted THEN Move(r, Filled) ELSE r
             sized == [bought EXCEPT !.contracts = r.filled]
             pending == Move(sized, Pending)
  <2>1. bought \in Records /\ bought.attempt = 0 /\ bought.exit = 0
    BY Moved, StatesDiffer DEF Fresh
  <2> HIDE DEF bought
  <2>2. r.filled \in Lots /\ r.filled > 0
    BY <1>2, Bounds DEF Fresh, Records, Lots
  <2>3. sized \in Records /\ sized.attempt = 0 /\ sized.exit = 0 /\ sized.contracts = r.filled
    BY <2>1, <2>2 DEF Records
  <2> HIDE DEF sized
  <2>4. /\ pending \in Records /\ pending.attempt = 0 /\ pending.exit = 0
        /\ pending.contracts = r.filled
    BY <2>3, Moved, StatesDiffer
  <2> HIDE DEF pending
  <2>5. Fresh(Move(pending, Confirmed))
    BY <2>2, <2>4, Moved, StatesDiffer DEF Fresh
  <2>6. OptionFill(r) = Move(pending, Confirmed)
    BY <1>2 DEF OptionFill, pending, sized, bought
  <2> QED BY <2>5, <2>6
<1>3. CASE r.filled # 0 /\ r.state \notin {Submitted, Filled}
  BY <1>3 DEF OptionFill
<1> QED BY <1>1, <1>2, <1>3

LEMMA Passes ==
    ASSUME NEW r, Fresh(r), Early(r) PROVE Fresh(PassOf(r))
BY EquityPasses, OptionPasses DEF PassOf

\* The end of a pass hands on the record it was given.
LEMMA Ends ==
    ASSUME NEW r \in Records, NEW failed \in BOOLEAN, EndPass(r, failed),
           tries \in 0 .. PollAttempts
    PROVE  /\ ctx' = ctx /\ last' = NoAnswer
           /\ tries' \in 0 .. PollAttempts /\ tries' < PollAttempts
           /\ mem' \in Records /\ mem'.state = r.state /\ mem'.contracts = r.contracts
           /\ mem'.attempt = r.attempt /\ mem'.exit = r.exit
           /\ pc' \in {"poll", "save"}
           /\ pc' = "poll" => ctx # "monitor" /\ (failed \/ Early(r))
<1> USE Bounds
<1>1. CASE PollsAgain(r, failed)
  BY <1>1, StatesDiffer DEF EndPass, PollsAgain, Early
<1>2. CASE ~PollsAgain(r, failed)
  BY <1>2 DEF EndPass, Records
<1> QED BY <1>1, <1>2

-----------------------------------------------------------------------------
(* The steps. *)

\* The order that was never sent is not at work.
LEMMA NoOrderRests == ~AtWork(NoOrder) /\ NoOrder.filled = 0 /\ NoOrder.status = "none"
BY DEF AtWork, NoOrder, OpenStatuses

\* Before the option is held nothing was sold, so nothing is out of turn.
LEMMA EarlySettles == Steady /\ Early(disk) => Settling
BY StatesDiffer, NoOrderRests
DEF Steady, Early, Sells, InHand, Settling, InTurn, Flight, Books

LEMMA EarlySettlesNext == Steady' /\ Early(disk') => Settling'
<1> SUFFICES ASSUME Steady', Early(disk') PROVE Settling'
  OBVIOUS
<1>1. traded' = 0 /\ \A a \in Attempts : sells'[a] = NoOrder
  BY DEF Steady, Sells
<1>2. ~(pc' = "save" /\ mem'.state = Closed)
  BY StatesDiffer DEF Steady, InHand, Early
<1>3. disk'.state # Closed
  BY DEF Early
<1> QED
  BY <1>1, <1>2, <1>3, NoOrderRests DEF Settling, InTurn, Flight, Books

\* The first state.
LEMMA InitSteady == Init => IInv
<1> SUFFICES ASSUME Init PROVE IInv
  OBVIOUS
<1> USE Bounds
<1>1. NoRecord \in Records /\ NoOrder \in Orders /\ 0 \in Lots
  BY DEF NoRecord, Records, NoOrder, Orders, Lots, OrderStatuses, AbsentStatuses
<1>2. budget \in [mishaps : 0 .. MaxMishaps, closes : 0 .. MaxCloses, outside : 0 .. MaxOutside]
  BY DEF Init
<1>3. TypeOK
  BY <1>1, <1>2 DEF Init, TypeOK
<1>4. Sensible(NoRecord) /\ Early(NoRecord)
  BY StatesDiffer DEF Sensible, Early, NoRecord
<1>5. held <= entry.filled
  BY DEF Init, NoOrder
<1>6. InHand
  BY DEF Init, InHand
<1>7. Sells
  BY <1>4, NoOrderRests DEF Init, Sells
<1>8. Steady
  BY <1>3, <1>4, <1>5, <1>6, <1>7 DEF Steady, Init
<1> QED BY <1>4, <1>8, EarlySettles DEF IInv, Init

\* A mishap is counted, and never undone.
LEMMA Spends ==
    ASSUME TypeOK, NEW what \in {"mishaps", "closes", "outside"},
           Spend(what)
    PROVE  /\ budget' \in [mishaps : 0 .. MaxMishaps, closes : 0 .. MaxCloses,
                           outside : 0 .. MaxOutside]
           /\ what = "mishaps" => Mishaps' = Mishaps + 1
           /\ what # "mishaps" => Mishaps' = Mishaps
BY Bounds DEF TypeOK, Spend, Mishaps

LEMMA MishapsCount ==
    ASSUME TypeOK PROVE Mishaps \in Nat
BY Bounds DEF TypeOK, Mishaps

\* A lookup tells the truth or nothing.
LEMMA LookedUp ==
    ASSUME TypeOK, NEW o \in Orders, NEW answer \in Answers(o), Lookup(o, answer)
    PROVE  /\ budget' \in [mishaps : 0 .. MaxMishaps, closes : 0 .. MaxCloses,
                           outside : 0 .. MaxOutside]
           /\ Mishaps' >= Mishaps /\ Mishaps' \in Nat
           /\ answer = NoAnswer \/ (answer = o /\ o.status \notin AbsentStatuses)
           /\ answer \in Orders \union {NoAnswer}
<1>1. answer = NoAnswer \/ (answer = o /\ o.status \notin AbsentStatuses)
  BY DEF Answers, AnswerOf
<1>2. CASE UNCHANGED budget
  BY <1>1, <1>2, MishapsCount DEF TypeOK, Mishaps
<1>3. CASE Spend("mishaps")
  BY <1>1, <1>3, Spends, MishapsCount
<1> QED BY <1>2, <1>3 DEF Lookup

LEMMA SubmitSteady == ASSUME IInv, Submit PROVE IInv'
<1> USE Bounds
<1>0. TypeOK /\ Sensible(disk) /\ Sells /\ held <= entry.filled /\ NoRecord \in Records
  BY DEF IInv, Steady, Submit, TypeOK
<1> DEFINE new == [NoRecord EXCEPT !.state = Submitted]
<1>1. /\ new \in Records /\ Fresh(new) /\ Early(new) /\ Early(NoRecord)
      /\ Sensible(new) /\ Sensible(NoRecord)
  BY <1>0, StatesDiffer DEF Records, NoRecord, Fresh, Early, Sensible
<1>2. Fresh(Move(new, Failed)) /\ Early(Move(new, Failed))
  BY <1>1, Moved, StatesDiffer DEF Fresh, Early
<1> HIDE DEF new
<1>3. /\ Fresh(mem') /\ Early(mem') /\ disk' \in Records
      /\ disk' \in {new, NoRecord} /\ Early(disk') /\ Early(disk)
      /\ pc' \in {"place", "save"} /\ ctx' = "submit"
      /\ UNCHANGED <<tries, last, traded, broker, market, budget>>
  BY <1>0, <1>1, <1>2 DEF Submit, new
<1>4. TypeOK'
  BY <1>0, <1>3 DEF TypeOK, broker, market, Fresh
<1>5. Sensible(disk')
  BY <1>1, <1>3
<1>6. Sensible(mem')
  BY <1>3 DEF Sensible, Fresh, Early
<1>7. InHand'
  BY <1>3 DEF IInv, Steady, Submit, InHand, Fresh, Early
<1>8. Sells'
  BY <1>0, <1>3, NoOrderRests DEF Sells, broker
<1>10. tries' < PollAttempts
  BY <1>3 DEF IInv, Steady
<1>9. Steady'
  BY <1>10, <1>0, <1>3, <1>4, <1>5, <1>6, <1>7, <1>8 DEF Steady, broker
<1> QED BY <1>3, <1>9, EarlySettlesNext DEF IInv

\* A pass on a record that is not of a held option hands on a fresh one.
LEMMA EarlyPass ==
    ASSUME IInv, Early(disk), TypeOK', Fresh(mem'), pc' \in {"poll", "save"},
           pc' = "poll" => Early(mem'), last' = NoAnswer, tries' < PollAttempts,
           UNCHANGED <<disk, traded, sells, held>>, entry'.filled = entry.filled
    PROVE  IInv'
<1>1. Sensible(mem')
  BY DEF Sensible, Fresh
<1>2. InHand'
  BY DEF InHand, Fresh
<1>3. Sells' /\ Sensible(disk')
  BY DEF IInv, Steady, Sells
<1>4. Steady'
  BY <1>1, <1>2, <1>3 DEF IInv, Steady
<1> QED BY <1>4, EarlySettlesNext DEF IInv

LEMMA PlaceBuySteady == ASSUME IInv, PlaceBuy PROVE IInv'
<1> USE Bounds
<1>0. TypeOK /\ Early(mem) /\ Early(disk) /\ Sensible(mem)
  BY DEF IInv, Steady, PlaceBuy, InHand
<1>1. Fresh(mem)
  BY <1>0 DEF Fresh, Sensible, TypeOK, Early
<1>2. /\ Fresh(Move(mem, Failed)) /\ Fresh(Move(mem, Unknown))
      /\ Early(Move(mem, Failed)) /\ Early(Move(mem, Unknown))
  BY <1>0, <1>1, Moved, StatesDiffer DEF Fresh, Early
<1>3. /\ Fresh(mem') /\ Early(mem') /\ pc' \in {"poll", "save"}
      /\ UNCHANGED <<ctx, tries, last, durable, sells, held, market>>
  BY <1>0, <1>1, <1>2 DEF PlaceBuy, Goto
<1>4. entry' \in Orders /\ entry'.filled = entry.filled
  BY <1>0 DEF PlaceBuy, TypeOK, Orders, OrderStatuses, OpenStatuses, AbsentStatuses
<1>5. budget' \in [mishaps : 0 .. MaxMishaps, closes : 0 .. MaxCloses, outside : 0 .. MaxOutside]
  BY <1>0, Spends DEF PlaceBuy, TypeOK
<1>6. TypeOK'
  BY <1>0, <1>3, <1>4, <1>5 DEF TypeOK, durable, market, Fresh
<1>7. last' = NoAnswer /\ tries' < PollAttempts
  BY <1>3 DEF IInv, Steady, InHand, PlaceBuy
<1> QED BY <1>0, <1>3, <1>4, <1>6, <1>7, EarlyPass DEF durable

LEMMA PollBuySteady == ASSUME IInv, PollBuy PROVE IInv'
<1> USE Bounds
<1>0. TypeOK /\ Early(mem) /\ Early(disk) /\ Sensible(mem) /\ entry \in Orders
  BY DEF IInv, Steady, PollBuy, InHand, TypeOK
<1>1. Fresh(mem) /\ Fresh(PassOf(mem))
  BY <1>0, Passes DEF Fresh, Sensible, TypeOK, Early
<1>2. ASSUME NEW r, NEW failed \in BOOLEAN, Fresh(r), failed => Early(r), EndPass(r, failed)
      PROVE  /\ Fresh(mem') /\ pc' \in {"poll", "save"}
             /\ pc' = "poll" => Early(mem')
             /\ ctx' = ctx /\ last' = NoAnswer
             /\ tries' \in 0 .. PollAttempts /\ tries' < PollAttempts
  BY <1>0, <1>2, Ends DEF Fresh, Early, TypeOK
<1>3. ASSUME NEW answer \in Orders PROVE Fresh(PassOf(Polled(mem, answer)))
  <2>1. Fresh(Polled(mem, answer)) /\ Early(Polled(mem, answer))
    BY <1>0, <1>1 DEF Polled, Fresh, Early, Records, Orders, EntryFillIsFinal
  <2> QED BY <2>1, Passes
<1>4. /\ Fresh(mem') /\ pc' \in {"poll", "save"}
      /\ pc' = "poll" => Early(mem')
      /\ ctx' = ctx /\ last' = NoAnswer
      /\ tries' \in 0 .. PollAttempts /\ tries' < PollAttempts
      /\ budget' \in [mishaps : 0 .. MaxMishaps, closes : 0 .. MaxCloses, outside : 0 .. MaxOutside]
  <2>1. CASE mem.terminal
    BY <1>0, <1>1, <1>2, <2>1 DEF PollBuy, TypeOK
  <2>2. CASE ~mem.terminal
    <3>1. PICK answer \in Answers(entry) :
             /\ Lookup(entry, answer)
             /\ IF answer = NoAnswer THEN EndPass(mem, TRUE)
                ELSE EndPass(PassOf(Polled(mem, answer)), FALSE)
      BY <2>2 DEF PollBuy
    <3>2. /\ budget' \in [mishaps : 0 .. MaxMishaps, closes : 0 .. MaxCloses,
                          outside : 0 .. MaxOutside]
          /\ answer = NoAnswer \/ answer \in Orders
      BY <1>0, <3>1, LookedUp
    <3>3. CASE answer = NoAnswer
      BY <1>0, <1>1, <1>2, <3>1, <3>2, <3>3
    <3>4. CASE answer # NoAnswer
      BY <1>0, <1>2, <1>3, <3>1, <3>2, <3>4
    <3> QED BY <3>3, <3>4
  <2> QED BY <2>1, <2>2
<1>5. UNCHANGED <<durable, broker, market>>
  BY DEF PollBuy
<1>6. TypeOK'
  BY <1>0, <1>4, <1>5 DEF TypeOK, durable, broker, market, Fresh
<1> QED BY <1>0, <1>4, <1>5, <1>6, EarlyPass DEF durable, broker

LEMMA ReconcileSteady == ASSUME IInv, ReconcileUnknown PROVE IInv'
<1> USE Bounds
<1>0. TypeOK /\ Early(disk) /\ Sensible(disk) /\ disk \in Records
  BY StatesDiffer DEF IInv, Steady, ReconcileUnknown, Early, TypeOK
<1>1. Fresh(disk)
  BY <1>0 DEF Fresh, Sensible, Early
<1>2. ASSUME NEW r, Fresh(r), NEW s \in {Unknown, Failed, Submitted}
      PROVE  Fresh(Move(r, s)) /\ Early(Move(r, s))
  BY <1>2, Moved, StatesDiffer DEF Fresh, Early
<1>3. Fresh([disk EXCEPT !.rejections = IF @ < MinRejections THEN @ + 1 ELSE @])
  BY <1>0, <1>1 DEF Fresh, Records, Early
<1>4. Fresh(Rejected(disk)) /\ Early(Rejected(disk))
  BY <1>1, <1>2, <1>3 DEF Rejected
<1>5. /\ Fresh(mem') /\ Early(mem') /\ pc' \in {"poll", "save"} /\ ctx' = "unknown"
      /\ UNCHANGED <<tries, last, durable, broker, market>>
  BY <1>1, <1>2, <1>4 DEF ReconcileUnknown
<1>6. budget' \in [mishaps : 0 .. MaxMishaps, closes : 0 .. MaxCloses, outside : 0 .. MaxOutside]
  BY <1>0, Spends DEF ReconcileUnknown, TypeOK
<1>7. TypeOK'
  BY <1>0, <1>5, <1>6 DEF TypeOK, durable, broker, market, Fresh
<1>8. last' = NoAnswer /\ tries' < PollAttempts
  BY <1>5 DEF IInv, Steady, InHand, ReconcileUnknown
<1> QED BY <1>0, <1>5, <1>7, <1>8, EarlyPass DEF durable, broker

\* A step of a pass on a held option: nothing changes at the broker or on disk,
\* and the record in hand stays of this option, at the current sell or past it.
LEMMA HeldPass ==
    ASSUME IInv, disk.state = Confirmed, TypeOK', Sensible(mem'), InHand', pc' # "idle",
           UNCHANGED <<disk, traded, sells, held, entry>>, tries' < PollAttempts,
           Mishaps' >= Mishaps, Mishaps' \in Nat, Mishaps' < 2 => InTurn(mem)' /\ Flight',
           pc' = "save" /\ mem'.state = Closed => traded # 0
    PROVE  IInv'
<1>1. Steady'
  BY DEF IInv, Steady, Sells
<1>2. Settling'
  <2> SUFFICES ASSUME Mishaps' < 2 PROVE InTurn(disk)' /\ Books'
    BY DEF Settling
  <2>1. InTurn(disk) /\ Books
    BY MishapsCount DEF IInv, Steady, Settling
  <2>2. disk'.state # Closed
    BY StatesDiffer
  <2> QED BY <2>1, <2>2 DEF InTurn, Books
<1> QED BY <1>1, <1>2 DEF IInv

\* What is named on disk while a pass has it in hand is still named.
LEMMA StillNamed ==
    ASSUME IInv, UNCHANGED <<disk, sells>>, pc # "save", Mishaps' >= Mishaps, Mishaps' \in Nat,
           Mishaps' < 2
    PROVE  Flight' /\ InTurn(disk)
BY MishapsCount DEF IInv, Steady, Settling, Flight

LEMMA MonitorBeginSteady == ASSUME IInv, MonitorBegin PROVE IInv'
<1> USE Bounds
<1>0. /\ TypeOK /\ Sensible(disk) /\ disk \in Records /\ pc = "idle"
      /\ disk.state \in FillMonitoringStates
      /\ mem' = disk /\ ctx' = "monitor"
      /\ UNCHANGED <<tries, last, durable, broker, market, budget>>
  BY DEF IInv, Steady, MonitorBegin, TypeOK
<1>1. TypeOK'
  BY <1>0 DEF TypeOK, durable, broker, market, MonitorBegin
<1>2. CASE disk.state # Confirmed
  <2>1. Early(disk) /\ Fresh(disk) /\ pc' = "poll"
    BY <1>0, <1>2, StatesDiffer DEF MonitorBegin, Early, Fresh, Sensible
  <2>2. last' = NoAnswer /\ tries' < PollAttempts
    BY <1>0 DEF IInv, Steady, InHand
  <2> QED BY <1>0, <1>1, <2>1, <2>2, EarlyPass DEF durable, broker
<1>3. CASE disk.state = Confirmed
  <2>1. Mishaps' = Mishaps /\ Mishaps' \in Nat
    BY <1>0, MishapsCount DEF Mishaps
  <2>2. pc' = IF disk.exit # 0 THEN "settle" ELSE "watch"
    BY <1>3 DEF MonitorBegin
  <2>3. last' = NoAnswer /\ tries' < PollAttempts
    BY <1>0 DEF IInv, Steady, InHand
  <2>4. InHand'
    BY <1>0, <1>3, <2>2, <2>3, StatesDiffer
    DEF InHand, Sensible, Current, durable, Records
  <2>5. Mishaps' < 2 => InTurn(mem)' /\ Flight'
    BY <1>0, <2>1, StillNamed DEF durable, broker, InTurn
  <2> QED BY <1>0, <1>1, <1>3, <2>1, <2>2, <2>3, <2>4, <2>5, HeldPass DEF durable, broker
<1> QED BY <1>2, <1>3

\* The same record, at the end of a pass that only watched.
LEMMA WatchEnds ==
    ASSUME IInv, pc = "watch", EndPass(mem, FALSE), UNCHANGED <<durable, broker, market>>,
           budget' \in [mishaps : 0 .. MaxMishaps, closes : 0 .. MaxCloses,
                       outside : 0 .. MaxOutside],
           Mishaps' >= Mishaps, Mishaps' \in Nat
    PROVE  IInv'
<1> USE Bounds
<1>0. /\ TypeOK /\ Sensible(mem) /\ mem \in Records /\ ctx = "monitor"
      /\ disk.state = Confirmed /\ mem.state = Confirmed /\ mem.contracts = disk.contracts
      /\ mem.exit = 0 /\ disk.exit = 0 /\ mem.attempt = disk.attempt
      /\ disk \in Records
  BY DEF IInv, Steady, InHand, TypeOK
<1>1. /\ ctx' = ctx /\ last' = NoAnswer
      /\ tries' \in 0 .. PollAttempts /\ tries' < PollAttempts
      /\ mem' \in Records /\ mem'.state = mem.state /\ mem'.contracts = mem.contracts
      /\ mem'.attempt = mem.attempt /\ mem'.exit = mem.exit
      /\ pc' = "save"
  BY <1>0, Ends DEF TypeOK
<1>2. TypeOK'
  BY <1>0, <1>1 DEF TypeOK, durable, broker, market
<1>3. Sensible(mem')
  BY <1>0, <1>1 DEF Sensible, Early
<1>4. InHand'
  BY <1>0, <1>1, StatesDiffer DEF InHand, durable, Early, Current, Records
<1>5. Mishaps' < 2 => InTurn(mem)' /\ Flight'
  <2>1. Mishaps' < 2 => InTurn(disk) /\ Flight'
    BY <1>0, StillNamed DEF durable, broker
  <2>2. Current(mem') = Current(disk)
    BY <1>0, <1>1, StatesDiffer DEF Current
  <2> QED BY <2>1, <2>2 DEF InTurn, broker
<1>6. mem'.state # Closed
  BY <1>0, <1>1, StatesDiffer
<1> QED BY <1>0, <1>1, <1>2, <1>3, <1>4, <1>5, <1>6, HeldPass DEF durable, broker

LEMMA WatchSteady == ASSUME IInv, Watch PROVE IInv'
<1> USE Bounds
<1>0. /\ TypeOK /\ Sensible(mem) /\ mem \in Records /\ ctx = "monitor" /\ pc = "watch"
      /\ disk.state = Confirmed /\ mem.state = Confirmed /\ mem.contracts = disk.contracts
      /\ mem.exit = 0 /\ disk.exit = 0 /\ mem.attempt = disk.attempt
      /\ disk \in Records /\ last = NoAnswer /\ tries < PollAttempts
      /\ UNCHANGED <<durable, broker, market, budget>>
  BY DEF IInv, Steady, InHand, TypeOK, Watch
<1>1. Mishaps' = Mishaps /\ Mishaps' \in Nat /\ budget' = budget
  BY <1>0, MishapsCount DEF Mishaps
<1>2. CASE Triggered /\ mem.attempt < MaxAttempts
  <2>1. /\ pc' = "sell" /\ mem' = Sending(mem) /\ UNCHANGED <<ctx, tries, last>>
    BY <1>2 DEF Watch, Goto
  <2>2. /\ mem' \in Records /\ mem'.state = Confirmed /\ mem'.contracts = mem.contracts
        /\ mem'.attempt = mem.attempt + 1 /\ mem'.exit = mem.attempt + 1
    <3> DEFINE n == mem.attempt + 1
               counted == [mem EXCEPT !.attempt = n]
    <3>1. n \in 0 .. MaxAttempts
      BY <1>0, <1>2 DEF Records
    <3>2. mem' = [counted EXCEPT !.exit = n]
      BY <1>0, <2>1 DEF Sending, Records
    <3> HIDE DEF n
    <3>3. /\ counted \in Records /\ counted.attempt = n /\ counted.state = mem.state
          /\ counted.contracts = mem.contracts
      BY <1>0, <3>1 DEF Records
    <3> HIDE DEF counted
    <3>4. /\ mem' \in Records /\ mem'.attempt = n /\ mem'.exit = n /\ mem'.state = mem.state
          /\ mem'.contracts = mem.contracts
      BY <3>1, <3>2, <3>3 DEF Records
    <3> QED BY <1>0, <3>4 DEF n
  <2>3. TypeOK'
    BY <1>0, <2>1, <2>2 DEF TypeOK, durable, broker, market
  <2>4. Sensible(mem')
    BY <1>0, <2>2, StatesDiffer DEF Sensible, Early
  <2>5. InHand'
    BY <1>0, <2>1, <2>2, StatesDiffer DEF InHand, durable
  <2>6. Current(mem') = Current(disk)
    BY <1>0, <2>2, StatesDiffer DEF Current, Records
  <2>7. Mishaps' < 2 => InTurn(mem)' /\ Flight'
    BY <1>0, <1>1, <2>6, StillNamed DEF durable, broker, InTurn
  <2> QED BY <1>0, <1>1, <2>1, <2>3, <2>4, <2>5, <2>7, HeldPass DEF durable, broker
<1>3. CASE ~(Triggered /\ mem.attempt < MaxAttempts)
  <2>1. EndPass(mem, FALSE)
    BY <1>3 DEF Watch
  <2> QED BY <1>0, <1>1, <2>1, WatchEnds DEF TypeOK
<1> QED BY <1>2, <1>3

LEMMA WatchFailsSteady == ASSUME IInv, WatchFails PROVE IInv'
<1>0. TypeOK
  BY DEF IInv, Steady
<1>1. /\ budget' \in [mishaps : 0 .. MaxMishaps, closes : 0 .. MaxCloses,
                      outside : 0 .. MaxOutside]
      /\ Mishaps' >= Mishaps /\ Mishaps' \in Nat
  BY <1>0, Spends, MishapsCount DEF WatchFails
<1> QED BY <1>1, WatchEnds DEF WatchFails

\* What the broker holds of a sell it has just taken.
LEMMA NewSell ==
    \A status \in {"SUBMITTED", "inflight"} : [status |-> status, filled |-> 0] \in Orders
<1>1. 0 \in Lots
  BY Bounds DEF Lots
<1>2. {"SUBMITTED", "inflight"} \subseteq OrderStatuses
  BY DEF OrderStatuses, OpenStatuses, AbsentStatuses
<1> QED BY <1>1, <1>2 DEF Orders

\* The answer to a sell says what it may have done at the broker.
LEMMA SellPlaced ==
    ASSUME TypeOK, NEW e \in Attempts, NEW n, NEW outcome, Placed(e, n, outcome)
    PROVE  /\ budget' \in [mishaps : 0 .. MaxMishaps, closes : 0 .. MaxCloses,
                           outside : 0 .. MaxOutside]
           /\ Mishaps' >= Mishaps /\ Mishaps' \in Nat
           /\ \/ sells' = sells
              \/ /\ sells[e] = NoOrder
                 /\ \E status \in {"SUBMITTED", "inflight"} :
                      /\ sells' = [sells EXCEPT ![e] = [status |-> status, filled |-> 0]]
                      /\ status = "inflight" => outcome = "ambiguous" /\ Mishaps' >= 1
           /\ outcome = "definite" => sells' = sells /\ sells[e].status = "inflight"
<1>1. Mishaps \in Nat /\ (budget' = budget => Mishaps' = Mishaps)
  BY MishapsCount DEF Mishaps
<1>2. Spend("mishaps") =>
         /\ budget' \in [mishaps : 0 .. MaxMishaps, closes : 0 .. MaxCloses,
                         outside : 0 .. MaxOutside]
         /\ Mishaps' = Mishaps + 1
  BY Spends
<1>3. budget \in [mishaps : 0 .. MaxMishaps, closes : 0 .. MaxCloses, outside : 0 .. MaxOutside]
  BY DEF TypeOK
<1> QED BY <1>1, <1>2, <1>3 DEF Placed, Accepts, Resting

LEMMA SellSteady == ASSUME IInv, Sell PROVE IInv'
<1> USE Bounds
<1> DEFINE e == mem.exit
<1>0. /\ TypeOK /\ Sensible(mem) /\ Sensible(disk) /\ mem \in Records /\ ctx = "monitor"
      /\ disk.state = Confirmed /\ mem.state = Confirmed /\ mem.contracts = disk.contracts
      /\ e = mem.attempt /\ mem.attempt = disk.attempt + 1 /\ disk.exit = 0
      /\ disk \in Records /\ last = NoAnswer /\ tries < PollAttempts /\ pc = "sell"
      /\ UNCHANGED <<durable, entry, held, market>>
  BY DEF IInv, Steady, InHand, TypeOK, Sell
<1>1. /\ e \in Attempts /\ e = Current(disk) /\ e = Current(mem) /\ e > 0
      /\ mem.contracts > 0
  BY <1>0, StatesDiffer DEF Attempts, Current, Records, Sensible, Early
<1>2. PICK outcome \in {"ok", "ambiguous", "definite"} :
         Placed(e, mem.contracts, outcome) /\ AfterSale(outcome)
  BY DEF Sell
<1>3. /\ budget' \in [mishaps : 0 .. MaxMishaps, closes : 0 .. MaxCloses,
                      outside : 0 .. MaxOutside]
      /\ Mishaps' >= Mishaps /\ Mishaps' \in Nat
      /\ \/ sells' = sells
         \/ /\ sells[e] = NoOrder
            /\ \E status \in {"SUBMITTED", "inflight"} :
                 /\ sells' = [sells EXCEPT ![e] = [status |-> status, filled |-> 0]]
                 /\ status = "inflight" => outcome = "ambiguous" /\ Mishaps' >= 1
      /\ outcome = "definite" => sells' = sells /\ sells[e].status = "inflight"
  <2> HIDE DEF e
  <2> QED BY <1>0, <1>1, <1>2, SellPlaced
<1> DEFINE r == IF outcome = "definite" THEN [mem EXCEPT !.exit = 0] ELSE mem
<1>4. /\ r \in Records /\ r.state = Confirmed /\ r.contracts = mem.contracts
      /\ r.attempt = mem.attempt /\ r.exit = IF outcome = "definite" THEN 0 ELSE e
  BY <1>0 DEF Records
<1> HIDE DEF r
<1>5. /\ ctx' = ctx /\ last' = NoAnswer
      /\ tries' \in 0 .. PollAttempts /\ tries' < PollAttempts
      /\ mem' \in Records /\ mem'.state = Confirmed /\ mem'.contracts = mem.contracts
      /\ mem'.attempt = mem.attempt /\ mem'.exit = IF outcome = "definite" THEN 0 ELSE e
      /\ pc' = IF outcome = "ok" THEN "settle" ELSE "save"
  <2>1. CASE outcome = "ok"
    BY <1>0, <1>2, <2>1 DEF AfterSale, Goto, TypeOK
  <2>2. ASSUME NEW failed \in BOOLEAN, EndPass(r, failed)
        PROVE  /\ ctx' = ctx /\ last' = NoAnswer
               /\ tries' \in 0 .. PollAttempts /\ tries' < PollAttempts
               /\ mem' \in Records /\ mem'.state = r.state /\ mem'.contracts = r.contracts
               /\ mem'.attempt = r.attempt /\ mem'.exit = r.exit /\ pc' = "save"
    BY <1>0, <1>4, <2>2, Ends DEF TypeOK
  <2>3. CASE outcome = "ambiguous"
    <3>1. EndPass(r, FALSE)
      BY <1>2, <2>3 DEF AfterSale, r
    <3> QED BY <1>4, <2>2, <2>3, <3>1
  <2>4. CASE outcome = "definite"
    <3>1. EndPass(r, TRUE)
      BY <1>2, <2>4 DEF AfterSale, r
    <3> QED BY <1>4, <2>2, <2>4, <3>1
  <2> QED BY <1>2, <2>1, <2>3, <2>4
<1>6. sells' \in [Attempts -> Orders]
  <2> HIDE DEF e
  <2>1. \A status \in {"SUBMITTED", "inflight"} : [status |-> status, filled |-> 0] \in Orders
    BY NewSell
  <2>2. sells \in [Attempts -> Orders]
    BY <1>0 DEF TypeOK
  <2>3. CASE sells' = sells
    BY <2>2, <2>3
  <2>4. ASSUME NEW status \in {"SUBMITTED", "inflight"},
               sells' = [sells EXCEPT ![e] = [status |-> status, filled |-> 0]]
        PROVE  sells' \in [Attempts -> Orders]
    <3> DEFINE o == [status |-> status, filled |-> 0]
    <3>1. o \in Orders
      BY <2>1
    <3>2. sells' = [sells EXCEPT ![e] = o]
      BY <2>4
    <3> HIDE DEF o
    <3> QED BY <2>2, <3>1, <3>2
  <2> QED BY <1>3, <2>3, <2>4
<1>7. TypeOK'
  BY <1>0, <1>3, <1>5, <1>6 DEF TypeOK, durable, market
<1>8. Sensible(mem')
  BY <1>0, <1>1, <1>5, StatesDiffer DEF Sensible, Early
<1>9. Current(mem') = IF outcome = "definite" THEN e + 1 ELSE e
  BY <1>0, <1>1, <1>5, StatesDiffer DEF Current
<1>10. InHand'
  BY <1>0, <1>1, <1>5, <1>9, StatesDiffer DEF InHand, durable, Early, Records
<1>11. \A a \in Attempts : a # e => sells'[a] = sells[a]
  BY <1>0, <1>3 DEF TypeOK
<1>12. sells' = sells \/ (sells[e] = NoOrder /\ sells'[e].filled = 0)
  BY <1>0, <1>1, <1>3 DEF TypeOK
<1>13. Sells'
  BY <1>0, <1>1, <1>11, <1>12, StatesDiffer DEF IInv, Steady, Sells, durable, Early
<1>14. Steady'
  BY <1>0, <1>5, <1>7, <1>8, <1>10, <1>13 DEF IInv, Steady, durable
<1>15. ASSUME Mishaps' < 2 PROVE InTurn(disk)' /\ InTurn(mem)' /\ Flight' /\ Books'
  <2> HIDE DEF e
  <2>1. InTurn(disk) /\ InTurn(mem) /\ Flight /\ Books
    BY <1>0, <1>3, <1>15, MishapsCount DEF IInv, Settling
  <2>2. \A a \in Attempts : sells[a].status # "inflight"
    BY <1>0, <2>1 DEF Flight, Attempts
  <2>3. outcome # "definite" /\ Current(mem') = e
    BY <1>1, <1>3, <1>9, <2>2
  <2>4. InTurn(disk)' /\ InTurn(mem)'
    <3>1. Current(disk') = e
      BY <1>0, <1>1 DEF durable
    <3>2. \A a \in Attempts : /\ a > e => sells[a] = NoOrder
                              /\ a < e => ~AtWork(sells[a]) /\ sells[a].filled = 0
      BY <1>1, <2>1 DEF InTurn
    <3>3. \A a \in Attempts : a \in Nat /\ (a > e \/ a < e => a # e)
      BY <1>1 DEF Attempts
    <3>4. \A a \in Attempts : /\ a > e => sells'[a] = NoOrder
                              /\ a < e => ~AtWork(sells'[a]) /\ sells'[a].filled = 0
      BY <1>11, <3>2, <3>3
    <3> QED BY <2>3, <3>1, <3>4 DEF InTurn
  <2>5. Flight'
    <3> SUFFICES ASSUME NEW a \in Attempts, sells'[a].status = "inflight"
                 PROVE  Mishaps' >= 1 /\ pc' = "save" /\ mem'.exit = a
      BY DEF Flight
    <3>1. a = e /\ sells' # sells
      BY <1>11, <2>2
    <3>2. Mishaps' >= 1 /\ outcome = "ambiguous"
      BY <1>0, <1>1, <1>3, <3>1 DEF TypeOK
    <3> QED BY <1>5, <3>1, <3>2
  <2>6. Books'
    <3>1. traded # 0 => sells[e].filled # 0 /\ ~AtWork(sells[e]) /\ sells[e].filled = traded
      BY <1>0, <1>1, <2>1 DEF Books
    <3>2. traded # 0 => sells' = sells
      BY <1>12, <3>1, NoOrderRests
    <3>3. disk'.state # Closed /\ mem'.state # Closed /\ disk' = disk /\ traded' = traded
      BY <1>0, <1>5, StatesDiffer DEF durable
    <3> QED BY <1>1, <3>1, <3>2, <3>3 DEF Books
  <2> QED BY <2>4, <2>5, <2>6
<1> QED BY <1>14, <1>15 DEF IInv, Settling

\* A sell is over, or not, as its answer says.
LEMMA SettleSteady == ASSUME IInv, Settle PROVE IInv'
<1> USE Bounds
<1> DEFINE e == mem.exit
<1>0. /\ TypeOK /\ Sensible(mem) /\ Sensible(disk) /\ mem \in Records /\ ctx = "monitor"
      /\ disk.state = Confirmed /\ mem.state = Confirmed /\ mem.contracts = disk.contracts
      /\ mem.attempt = e /\ mem.attempt > 0 /\ Current(disk) = e
      /\ disk \in Records /\ tries < PollAttempts /\ pc = "settle"
      /\ last # NoAnswer => ~EntryFillIsFinal(last.status) /\ last.filled < mem.contracts
      /\ last \in Orders \union {NoAnswer} /\ tries \in 0 .. PollAttempts
      /\ UNCHANGED <<disk, broker, market>>
  BY DEF IInv, Steady, InHand, TypeOK, Settle
<1>1. /\ e \in Attempts /\ mem.contracts \in Nat /\ mem.contracts > 0
      /\ disk.attempt <= e
  BY <1>0, StatesDiffer DEF Attempts, Records, Sensible, Early, Lots, Current
<1>2. sells[e] \in Orders /\ sells \in [Attempts -> Orders]
  BY <1>0, <1>1 DEF TypeOK
<1>3. PICK answer \in Answers(sells[e]) :
         LET now == IF answer = NoAnswer THEN last ELSE answer
             stop == answer # NoAnswer /\ (answer.filled >= mem.contracts
                                           \/ EntryFillIsFinal(answer.status))
         IN  /\ Lookup(sells[e], answer)
             /\ IF stop \/ tries + 1 = PollAttempts
                THEN Settled(now)
                ELSE /\ tries' = tries + 1 /\ last' = now
                     /\ UNCHANGED <<pc, ctx, mem, traded>>
  BY DEF Settle
<1> HIDE DEF e
<1> DEFINE now == IF answer = NoAnswer THEN last ELSE answer
           stop == answer # NoAnswer /\ (answer.filled >= mem.contracts
                                         \/ EntryFillIsFinal(answer.status))
<1>4. /\ budget' \in [mishaps : 0 .. MaxMishaps, closes : 0 .. MaxCloses,
                      outside : 0 .. MaxOutside]
      /\ Mishaps' >= Mishaps /\ Mishaps' \in Nat
      /\ answer = NoAnswer \/ (answer = sells[e] /\ sells[e].status \notin AbsentStatuses)
      /\ answer \in Orders \union {NoAnswer}
  BY <1>0, <1>2, <1>3, LookedUp
<1>5. Mishaps' < 2 => Flight' /\ InTurn(disk)
  BY <1>0, <1>4, StillNamed DEF broker
<1>6. CASE ~(stop \/ tries + 1 = PollAttempts)
  <2>1. tries' = tries + 1 /\ last' = now /\ UNCHANGED <<pc, ctx, mem, traded>>
    BY <1>3, <1>6
  <2>2. /\ now \in Orders \union {NoAnswer}
        /\ now # NoAnswer => ~EntryFillIsFinal(now.status) /\ now.filled < mem.contracts
    BY <1>0, <1>1, <1>4, <1>6 DEF Orders, Lots
  <2>3. tries' \in 0 .. PollAttempts /\ tries' < PollAttempts
    BY <1>0, <1>6, <2>1
  <2> HIDE DEF now, stop
  <2>4. TypeOK'
    BY <1>0, <1>4, <2>1, <2>2, <2>3 DEF TypeOK, broker, market
  <2>5. InHand'
    BY <1>0, <2>1, <2>2 DEF InHand, e
  <2>6. Current(mem) = e
    BY <1>0, <1>1 DEF Current, e, Attempts
  <2>7. Mishaps' < 2 => InTurn(mem)'
    BY <1>0, <1>5, <2>1, <2>6 DEF InTurn, broker
  <2>8. Sensible(mem') /\ pc' # "idle" /\ pc' # "save"
    BY <1>0, <2>1
  <2> QED BY <1>0, <1>4, <1>5, <2>1, <2>3, <2>4, <2>5, <2>7, <2>8, HeldPass DEF broker
<1>7. CASE stop \/ tries + 1 = PollAttempts
  <2>1. Settled(now)
    BY <1>3, <1>7
  <2>2. /\ now \in Orders \union {NoAnswer}
        /\ answer = NoAnswer /\ now # NoAnswer =>
             ~EntryFillIsFinal(now.status) /\ now.filled < mem.contracts
        /\ answer # NoAnswer => now = sells[e] /\ sells[e].status \notin AbsentStatuses
    BY <1>0, <1>4
  <2>3. ~EntryFillIsFinal(NoAnswer.status) /\ NoAnswer.filled = 0
    BY DEF NoAnswer, EntryFillIsFinal, FinalStatuses
  <2> HIDE DEF now, stop
  <2>4. now.filled \in Nat
    BY <2>2, <2>3 DEF Orders, Lots
  <2>5. ASSUME NEW r \in Records, EndPass(r, FALSE)
        PROVE  /\ ctx' = ctx /\ last' = NoAnswer
               /\ tries' \in 0 .. PollAttempts /\ tries' < PollAttempts
               /\ mem' \in Records /\ mem'.state = r.state /\ mem'.contracts = r.contracts
               /\ mem'.attempt = r.attempt /\ mem'.exit = r.exit /\ pc' = "save"
    BY <1>0, <2>5, Ends
  <2>6. CASE Sold(now)
    <3>1. /\ now = sells[e] /\ now.filled > 0
          /\ sells[e].status \notin AbsentStatuses
          /\ now.filled >= mem.contracts \/ EntryFillIsFinal(sells[e].status)
      BY <1>1, <2>2, <2>3, <2>4, <2>6 DEF Sold
    <3> DEFINE r == [Move(mem, Closed) EXCEPT !.exit = 0]
    <3>2. /\ r \in Records /\ r.state = Closed /\ r.contracts = mem.contracts
          /\ r.attempt = mem.attempt /\ r.exit = 0
      <4> DEFINE c == Move(mem, Closed)
      <4>1. /\ c \in Records /\ c.state = Closed /\ c.contracts = mem.contracts
            /\ c.attempt = mem.attempt
        BY <1>0, Moved, MayClose, StatesDiffer
      <4> HIDE DEF c
      <4>2. r = [c EXCEPT !.exit = 0]
        BY DEF c
      <4> QED BY <4>1, <4>2 DEF Records
    <3>3. traded' = now.filled /\ EndPass(r, FALSE)
      BY <2>1, <2>6 DEF Settled
    <3> HIDE DEF r
    <3>4. /\ ctx' = ctx /\ last' = NoAnswer
          /\ tries' \in 0 .. PollAttempts /\ tries' < PollAttempts
          /\ mem' \in Records /\ mem'.state = Closed /\ mem'.contracts = mem.contracts
          /\ mem'.attempt = e /\ mem'.exit = 0 /\ pc' = "save"
      BY <1>0, <2>5, <3>2, <3>3
    <3>5. traded' \in Lots /\ traded' # 0
      BY <1>2, <2>4, <3>1, <3>3 DEF Orders
    <3>6. TypeOK'
      BY <1>0, <1>4, <3>4, <3>5 DEF TypeOK, broker, market
    <3>7. Sensible(mem')
      BY <1>0, <3>4 DEF Sensible, Early
    <3>8. Current(mem') = e /\ Current(disk') = e /\ e \in Nat
      BY <1>0, <1>1, <3>4 DEF Current, Attempts
    <3>9. InHand'
      BY <1>0, <1>1, <3>4, <3>8 DEF InHand, Early
    <3>10. Sells'
      BY <1>0, StatesDiffer DEF IInv, Steady, Sells, broker, Early
    <3>11. Steady'
      BY <1>0, <3>4, <3>6, <3>7, <3>9, <3>10 DEF IInv, Steady, broker
    <3>12. ~AtWork(sells[e])
      <4>1. AtWork(sells[e]) => sells[e].filled < mem.contracts
        BY <1>0, <1>1 DEF IInv, Steady, Sells
      <4>2. sells[e].filled >= mem.contracts => ~AtWork(sells[e])
        BY <1>1, <2>4, <3>1, <4>1
      <4>3. EntryFillIsFinal(sells[e].status) => ~AtWork(sells[e])
        BY DEF AtWork, EntryFillIsFinal, FinalStatuses, OpenStatuses
      <4> QED BY <3>1, <4>2, <4>3
    <3>13. sells' = sells /\ disk' = disk
      BY <1>0 DEF broker
    <3>14. Books'
      BY <1>1, <3>1, <3>3, <3>5, <3>8, <3>12, <3>13 DEF Books
    <3>15. InTurn(disk) => InTurn(disk)' /\ InTurn(mem)'
      BY <1>0, <3>8, <3>13 DEF InTurn
    <3> QED BY <1>5, <3>11, <3>14, <3>15 DEF IInv, Settling
  <2>7. CASE ~Sold(now)
    <3> DEFINE x == IF EntryFillIsFinal(now.status) THEN 0 ELSE e
               r == [mem EXCEPT !.exit = x]
    <3>1. UNCHANGED traded /\ EndPass(r, FALSE)
      BY <2>1, <2>7 DEF Settled, e
    <3>2. x \in 0 .. MaxAttempts
      BY <1>1 DEF Attempts
    <3> HIDE DEF x
    <3>3. /\ r \in Records /\ r.state = Confirmed /\ r.contracts = mem.contracts
          /\ r.attempt = e /\ r.exit = x
      BY <1>0, <3>2 DEF Records
    <3> HIDE DEF r
    <3>4. /\ ctx' = ctx /\ last' = NoAnswer
          /\ tries' \in 0 .. PollAttempts /\ tries' < PollAttempts
          /\ mem' \in Records /\ mem'.state = Confirmed /\ mem'.contracts = mem.contracts
          /\ mem'.attempt = e /\ mem'.exit = x /\ pc' = "save"
      BY <2>5, <3>1, <3>3
    <3>5. TypeOK'
      BY <1>0, <1>4, <3>1, <3>4 DEF TypeOK, broker, market
    <3>6. x \in {0, e} /\ e > 0 /\ e \in Nat
      BY <1>1 DEF x, Attempts
    <3>7. Sensible(mem')
      BY <1>0, <1>1, <3>4, <3>6, StatesDiffer DEF Sensible, Early
    <3>8. Current(mem') = IF x = 0 THEN e + 1 ELSE e
      BY <3>4, <3>6, StatesDiffer DEF Current
    <3>9. InHand'
      BY <1>0, <1>1, <3>4, <3>6, <3>8, StatesDiffer DEF InHand, Early
    <3>10. x = 0 => ~AtWork(sells[e]) /\ sells[e].filled = 0
      <4> SUFFICES ASSUME x = 0 PROVE ~AtWork(sells[e]) /\ sells[e].filled = 0
        OBVIOUS
      <4>1. EntryFillIsFinal(now.status)
        BY <3>6 DEF x
      <4>2. now = sells[e]
        BY <2>2, <2>3, <4>1
      <4>3. sells[e].filled = 0
        BY <2>4, <2>7, <4>1, <4>2 DEF Sold
      <4> QED BY <4>1, <4>2, <4>3 DEF AtWork, EntryFillIsFinal, FinalStatuses, OpenStatuses
    <3>11. InTurn(disk) => InTurn(mem)'
      <4> SUFFICES ASSUME InTurn(disk) PROVE InTurn(mem)'
        OBVIOUS
      <4>1. sells' = sells
        BY <1>0 DEF broker
      <4>2. \A a \in Attempts : /\ a > e => sells[a] = NoOrder
                                /\ a < e => ~AtWork(sells[a]) /\ sells[a].filled = 0
        BY <1>0 DEF InTurn
      <4>3. \A a \in Attempts : a \in Nat
        BY DEF Attempts
      <4>4. \A a \in Attempts : /\ a > Current(mem') => sells[a] = NoOrder
                                /\ a < Current(mem') => ~AtWork(sells[a]) /\ sells[a].filled = 0
        <5> SUFFICES ASSUME NEW a \in Attempts
                     PROVE  /\ a > Current(mem') => sells[a] = NoOrder
                            /\ a < Current(mem') => ~AtWork(sells[a]) /\ sells[a].filled = 0
          OBVIOUS
        <5>1. CASE a = e
          BY <3>6, <3>8, <3>10, <5>1
        <5>2. CASE a # e
          <6>1. a > Current(mem') => a > e
            BY <3>6, <3>8, <4>3, <5>2
          <6>2. a < Current(mem') => a < e
            BY <3>6, <3>8, <4>3, <5>2
          <6> QED BY <4>2, <6>1, <6>2
        <5> QED BY <5>1, <5>2
      <4> QED BY <4>1, <4>4 DEF InTurn
    <3>12. mem'.state # Closed /\ pc' # "idle"
      BY <3>4, StatesDiffer
    <3> QED BY <1>0, <1>4, <1>5, <3>1, <3>4, <3>5, <3>7, <3>9, <3>11, <3>12, HeldPass DEF broker
  <2> QED BY <2>6, <2>7
<1> QED BY <1>6, <1>7

\* What was named in memory is named on disk.
LEMMA SaveSteady == ASSUME IInv, Save PROVE IInv'
<1> USE Bounds
<1>0. /\ TypeOK /\ Sensible(mem) /\ mem \in Records /\ disk \in Records /\ pc = "save"
      /\ Sensible(disk) /\ NoRecord \in Records /\ tries < PollAttempts
      /\ disk' = mem /\ pc' = "idle" /\ mem' = NoRecord /\ last = NoAnswer
      /\ UNCHANGED <<ctx, tries, last, traded, broker, market, budget>>
  BY DEF IInv, Steady, InHand, TypeOK, Save, Records, NoRecord, Lots
<1>1. TypeOK'
  BY <1>0 DEF TypeOK, broker, market
<1>2. Sensible(NoRecord)
  BY StatesDiffer DEF Sensible, Early, NoRecord
<1>3. InHand'
  BY <1>0 DEF InHand
<1>4. Mishaps' = Mishaps
  BY <1>0 DEF Mishaps
<1>5. CASE Early(disk) /\ mem.state # Closed /\ mem.attempt = 0
  <2>1. traded' = 0 /\ \A a \in Attempts : sells'[a] = NoOrder
    BY <1>0, <1>5 DEF IInv, Steady, Sells, broker
  <2>2. Sells'
    BY <2>1, NoOrderRests DEF Sells
  <2>3. Steady'
    BY <1>0, <1>1, <1>2, <1>3, <2>2 DEF IInv, Steady, broker
  <2>4. disk'.state # Closed /\ pc' # "save" /\ pc' = "idle"
    BY <1>0, <1>5
  <2>5. Settling'
    BY <2>1, <2>4, NoOrderRests DEF Settling, InTurn, Flight, Books
  <2> QED BY <2>3, <2>5 DEF IInv
<1>6. CASE /\ disk.state = Confirmed /\ ~Early(mem) /\ mem.contracts = disk.contracts
           /\ Current(mem) \in {Current(disk), Current(disk) + 1}
           /\ mem.attempt >= disk.attempt
  <2>1. Sells'
    BY <1>0, <1>6 DEF IInv, Steady, Sells, broker
  <2>2. Steady'
    BY <1>0, <1>1, <1>2, <1>3, <2>1 DEF IInv, Steady, broker
  <2>3. ASSUME Mishaps' < 2 PROVE InTurn(disk)' /\ Flight' /\ Books'
    <3>1. InTurn(disk) /\ InTurn(mem) /\ Flight /\ Books
      BY <1>0, <1>4, <2>3 DEF IInv, Settling
    <3>2. Current(disk') = Current(mem) /\ sells' = sells /\ traded' = traded
      BY <1>0 DEF broker
    <3>3. /\ Current(disk) \in Nat /\ Current(mem) \in Nat
          /\ mem.attempt \in Nat /\ disk.attempt \in Nat
      BY <1>0 DEF Current, Records
    <3>4. \A a \in Attempts : /\ a > Current(mem) => sells[a] = NoOrder
                              /\ a < Current(mem) => ~AtWork(sells[a]) /\ sells[a].filled = 0
      BY <3>1 DEF InTurn
    <3>5. InTurn(disk)'
      BY <3>2, <3>4 DEF InTurn
    <3>6. Flight'
      <4> SUFFICES ASSUME NEW a \in Attempts, sells[a].status = "inflight"
                   PROVE  Mishaps >= 1 /\ mem.exit = a
        BY <1>0, <1>4, <3>2 DEF Flight
      <4>1. Mishaps >= 1 /\ (disk.exit = a \/ mem.exit = a)
        BY <3>1 DEF Flight
      <4>2. AtWork(sells[a]) /\ a \in Nat /\ a > 0 /\ a # 0
        BY DEF AtWork, Attempts
      <4>3. CASE disk.exit = a
        <5>1. disk.attempt = a /\ Current(disk) = a
          BY <1>0, <4>2, <4>3 DEF Sensible, Current
        <5>2. Current(mem) = a
          BY <1>6, <3>3, <3>4, <4>2, <5>1
        <5>3. mem.state # Closed
          BY <1>0, <3>1, <4>2, <5>1, NoOrderRests DEF Books
        <5>4. mem.exit # 0
          BY <1>6, <3>3, <5>1, <5>2, <5>3 DEF Current
        <5> QED BY <1>0, <4>1, <5>2, <5>4 DEF Sensible, Current
      <4> QED BY <4>1, <4>3
    <3>7. Books'
      <4>1. traded # 0 => /\ Current(disk) \in Attempts
                          /\ sells[Current(disk)].filled = traded /\ ~AtWork(sells[Current(disk)])
        BY <3>1 DEF Books
      <4>2. traded # 0 => Current(mem) = Current(disk)
        BY <1>6, <3>3, <3>4, <4>1
      <4>3. mem.state = Closed => traded # 0
        BY <1>0, <3>1 DEF Books
      <4> QED BY <1>0, <3>2, <4>1, <4>2, <4>3 DEF Books
    <3> QED BY <3>5, <3>6, <3>7
  <2>4. Settling'
    BY <1>0, <2>3 DEF Settling
  <2> QED BY <2>2, <2>4 DEF IInv
<1> QED BY <1>0, <1>5, <1>6 DEF IInv, Steady, InHand

\* A restart is a mishap: if it is the first, no sell is in flight.
LEMMA CrashSteady == ASSUME IInv, Crash PROVE IInv'
<1> USE Bounds
<1>0. /\ TypeOK /\ Sensible(disk) /\ NoRecord \in Records /\ Sells /\ held <= entry.filled
      /\ pc' = "idle" /\ mem' = NoRecord /\ tries' = 0 /\ last' = NoAnswer
      /\ UNCHANGED <<ctx, durable, broker, market>>
  BY DEF IInv, Steady, TypeOK, Crash, Records, NoRecord, Lots
<1>1. /\ Mishaps' = Mishaps + 1 /\ Mishaps \in Nat
      /\ budget' \in [mishaps : 0 .. MaxMishaps, closes : 0 .. MaxCloses,
                      outside : 0 .. MaxOutside]
  BY <1>0, Spends, MishapsCount DEF Crash
<1>2. TypeOK'
  BY <1>0, <1>1 DEF TypeOK, durable, broker, market
<1>3. Sensible(NoRecord)
  BY StatesDiffer DEF Sensible, Early, NoRecord
<1>4. InHand' /\ Sells'
  BY <1>0 DEF InHand, Sells, durable, broker
<1>5. Steady'
  BY <1>0, <1>2, <1>3, <1>4 DEF Steady, durable, broker
<1>6. ASSUME Mishaps' < 2 PROVE InTurn(disk)' /\ Flight' /\ Books'
  <2>1. InTurn(disk) /\ Flight /\ Books /\ ~(Mishaps >= 1)
    BY <1>1, <1>6 DEF IInv, Settling
  <2>2. sells' = sells /\ disk' = disk /\ traded' = traded
    BY <1>0 DEF durable, broker
  <2> QED BY <1>0, <2>1, <2>2 DEF InTurn, Flight, Books
<1>7. Settling'
  BY <1>0, <1>6 DEF Settling
<1> QED BY <1>5, <1>7 DEF IInv

-----------------------------------------------------------------------------
(* The broker, the market and the owner. *)

\* A step that leaves the program and the sells alone.
LEMMA Quiet ==
    ASSUME IInv, TypeOK', UNCHANGED <<process, durable, sells>>, Mishaps' = Mishaps,
           held' <= entry'.filled
    PROVE  IInv'
<1>1. /\ UNCHANGED <<pc, ctx, tries, last, mem, disk, traded, sells>>
  BY DEF process, durable
<1>2. Steady'
  BY <1>1 DEF IInv, Steady, InHand, Sells
<1>3. Settling'
  BY <1>1 DEF IInv, Settling, InTurn, Flight, Books
<1> QED BY <1>2, <1>3 DEF IInv

\* The broker moves a sell that is at work: it is the current one, and nothing
\* is journalled yet.
LEMMA SaleMoves ==
    ASSUME IInv, NEW a \in Attempts, AtWork(sells[a]), NEW o \in Orders,
           o.status # "inflight", AtWork(o) => o.filled < disk.contracts,
           sells' = [sells EXCEPT ![a] = o], UNCHANGED <<process, durable>>,
           Mishaps' = Mishaps, TypeOK', held' <= entry'.filled
    PROVE  IInv'
<1>0. /\ TypeOK /\ Sells /\ sells \in [Attempts -> Orders] /\ disk \in Records
      /\ mem \in Records
  BY DEF IInv, Steady, TypeOK
<1>1. UNCHANGED <<pc, ctx, tries, last, mem, disk, traded>>
  BY DEF process, durable
<1>2. sells'[a] = o /\ \A b \in Attempts \ {a} : sells'[b] = sells[b]
  BY <1>0
<1>3. ~Early(disk)
  BY <1>0, NoOrderRests DEF Sells
<1>4. Sells'
  BY <1>0, <1>1, <1>2, <1>3 DEF Sells
<1>5. InHand'
  BY <1>1 DEF IInv, Steady, InHand
<1>6. Steady'
  BY <1>1, <1>4, <1>5 DEF IInv, Steady
<1>7. ASSUME Mishaps < 2, NEW r \in {disk, mem}, InTurn(r)
      PROVE  /\ a = Current(r)
             /\ \A b \in Attempts : /\ b > Current(r) => sells'[b] = NoOrder
                                   /\ b < Current(r) => ~AtWork(sells'[b]) /\ sells'[b].filled = 0
  <2>1. Current(r) \in Nat /\ a \in Nat
    BY <1>0 DEF Current, Records, Attempts
  <2>2. a = Current(r)
    BY <1>7, <2>1, NoOrderRests DEF InTurn
  <2>3. \A b \in Attempts : b \in Nat /\ (b > a \/ b < a => b # a)
    BY <2>1 DEF Attempts
  <2> QED BY <1>2, <1>7, <2>2, <2>3 DEF InTurn
<1>8. ASSUME Mishaps' < 2
      PROVE  /\ InTurn(disk)' /\ Flight' /\ Books'
             /\ pc' \in {"watch", "sell", "settle", "save"} => InTurn(mem)'
  <2>1. /\ Mishaps < 2 /\ InTurn(disk) /\ Flight /\ Books
        /\ pc \in {"watch", "sell", "settle", "save"} => InTurn(mem)
    BY <1>8 DEF IInv, Settling
  <2>2. InTurn(disk)' /\ a = Current(disk)
    BY <1>1, <1>7, <2>1 DEF InTurn
  <2>3. InTurn(mem) => InTurn(mem)'
    BY <1>1, <1>7, <2>1 DEF InTurn
  <2>4. traded = 0
    BY <2>1, <2>2 DEF Books
  <2>5. Books'
    BY <1>1, <2>1, <2>4 DEF Books
  <2>6. Flight'
    BY <1>1, <1>2, <2>1 DEF Flight
  <2> QED BY <1>1, <2>1, <2>2, <2>3, <2>5, <2>6
<1> QED BY <1>6, <1>8 DEF IInv, Settling

LEMMA ShownSteady == ASSUME IInv, Shown PROVE IInv'
<1> USE Bounds
<1>0. /\ TypeOK /\ held <= entry.filled /\ entry \in Orders /\ sells \in [Attempts -> Orders]
      /\ UNCHANGED <<process, durable, held, market, budget>>
  BY DEF IInv, Steady, TypeOK, Shown
<1>1. Mishaps' = Mishaps
  BY <1>0 DEF Mishaps
<1>2. CASE entry' = [entry EXCEPT !.status = "SUBMITTED"] /\ UNCHANGED sells
  <2>1. entry' \in Orders /\ entry'.filled = entry.filled
    BY <1>0, <1>2 DEF Orders, OrderStatuses, OpenStatuses
  <2>2. TypeOK'
    BY <1>0, <1>2, <2>1 DEF TypeOK, process, durable, market
  <2> QED BY <1>0, <1>1, <1>2, <2>1, <2>2, Quiet
<1>3. ASSUME NEW a \in Attempts, sells[a].status = "inflight", Resting(a, "SUBMITTED"),
             UNCHANGED entry
      PROVE  IInv'
  <2> DEFINE o == [status |-> "SUBMITTED", filled |-> 0]
  <2>1. o \in Orders /\ o.status # "inflight" /\ o.filled = 0
    BY NewSell
  <2>2. sells' = [sells EXCEPT ![a] = o]
    BY <1>3 DEF Resting
  <2> HIDE DEF o
  <2>3. sells' \in [Attempts -> Orders]
    BY <1>0, <2>1, <2>2
  <2>4. TypeOK'
    BY <1>0, <1>3, <2>3 DEF TypeOK, process, durable, market
  <2>5. AtWork(sells[a])
    BY <1>3 DEF AtWork
  <2>6. o.filled < disk.contracts
    <3>1. disk.contracts \in Nat /\ sells[a].filled \in Nat /\ sells[a].filled < disk.contracts
      BY <1>0, <2>5 DEF IInv, Steady, Sells, TypeOK, Records, Orders, Lots
    <3> QED BY <2>1, <3>1
  <2> QED BY <1>0, <1>1, <1>3, <2>1, <2>2, <2>4, <2>5, <2>6, SaleMoves
<1> QED BY <1>2, <1>3 DEF Shown

LEMMA EntryFillsSteady == ASSUME IInv, EntryFills PROVE IInv'
<1> USE Bounds
<1>0. /\ TypeOK /\ held <= entry.filled /\ entry \in Orders /\ held \in Lots
      /\ UNCHANGED <<process, durable, sells, market, budget>>
  BY DEF IInv, Steady, TypeOK, EntryFills
<1>1. PICK n \in 1 .. Quantity - entry.filled :
         entry' = FilledOf(entry, n, Quantity) /\ held' = held + n
  BY DEF EntryFills
<1>2. entry.filled \in 0 .. Quantity /\ held \in 0 .. Quantity
  BY <1>0 DEF Orders, Lots
<1>3. entry.filled + n \in Lots /\ held + n \in Lots /\ held + n <= entry.filled + n
  BY <1>0, <1>2 DEF Lots
<1>4. entry' \in Orders /\ entry'.filled = entry.filled + n
  BY <1>1, <1>3 DEF FilledOf, Orders, OrderStatuses, OpenStatuses, FinalStatuses
<1>5. TypeOK'
  BY <1>0, <1>1, <1>3, <1>4 DEF TypeOK, process, durable, market
<1>6. Mishaps' = Mishaps
  BY <1>0 DEF Mishaps
<1> QED BY <1>0, <1>1, <1>3, <1>4, <1>5, <1>6, Quiet

LEMMA SellFillsSteady == ASSUME IInv, SellFills PROVE IInv'
<1> USE Bounds
<1>0. /\ TypeOK /\ held <= entry.filled /\ sells \in [Attempts -> Orders] /\ held \in Lots
      /\ entry \in Orders /\ disk \in Records
      /\ UNCHANGED <<process, durable, entry, market, budget>>
  BY DEF IInv, Steady, TypeOK, SellFills
<1>1. PICK a \in Attempts : \E n \in 1 .. disk.contracts - sells[a].filled :
         /\ sells[a].status \in OpenStatuses /\ n <= held
         /\ sells' = [sells EXCEPT ![a] = FilledOf(@, n, disk.contracts)]
         /\ held' = held - n
  BY DEF SellFills
<1>2. PICK n \in 1 .. disk.contracts - sells[a].filled :
         /\ sells[a].status \in OpenStatuses /\ n <= held
         /\ sells' = [sells EXCEPT ![a] = FilledOf(@, n, disk.contracts)]
         /\ held' = held - n
  BY <1>1
<1>3. /\ sells[a] \in Orders /\ sells[a].filled \in Nat /\ disk.contracts \in 0 .. Quantity
      /\ held \in 0 .. Quantity /\ entry.filled \in Nat
  BY <1>0 DEF Orders, Lots, Records
<1> DEFINE o == FilledOf(sells[a], n, disk.contracts)
<1>4. n \in Nat /\ n > 0 /\ sells[a].filled + n <= disk.contracts
  BY <1>3
<1>5. sells[a].filled + n \in Lots /\ held - n \in Lots /\ held - n <= entry.filled
  BY <1>0, <1>2, <1>3, <1>4 DEF Lots
<1>6. /\ o \in Orders /\ o.filled = sells[a].filled + n /\ o.status # "inflight"
      /\ o.status \in OpenStatuses => sells[a].filled + n # disk.contracts
  BY <1>5 DEF FilledOf, Orders, OrderStatuses, OpenStatuses, FinalStatuses
<1>7. sells' = [sells EXCEPT ![a] = o]
  BY <1>0, <1>2
<1> HIDE DEF o
<1>8. AtWork(o) => o.filled < disk.contracts
  BY <1>3, <1>4, <1>6 DEF AtWork
<1>9. AtWork(sells[a])
  BY <1>2 DEF AtWork
<1>10. sells' \in [Attempts -> Orders]
  BY <1>0, <1>6, <1>7
<1>11. TypeOK'
  BY <1>0, <1>2, <1>5, <1>10 DEF TypeOK, process, durable, market
<1>12. Mishaps' = Mishaps /\ held' <= entry'.filled
  BY <1>0, <1>2, <1>5 DEF Mishaps
<1> QED BY <1>0, <1>6, <1>7, <1>8, <1>9, <1>11, <1>12, SaleMoves

LEMMA OrderEndsSteady == ASSUME IInv, OrderEnds PROVE IInv'
<1> USE Bounds
<1>0. /\ TypeOK /\ held <= entry.filled /\ entry \in Orders /\ sells \in [Attempts -> Orders]
      /\ UNCHANGED <<process, durable, held, market, budget>>
  BY DEF IInv, Steady, TypeOK, OrderEnds
<1>1. Mishaps' = Mishaps
  BY <1>0 DEF Mishaps
<1>2. CASE entry' = [entry EXCEPT !.status = "CANCELLED"] /\ UNCHANGED sells
  <2>1. entry' \in Orders /\ entry'.filled = entry.filled
    BY <1>0, <1>2 DEF Orders, OrderStatuses, FinalStatuses
  <2>2. TypeOK'
    BY <1>0, <1>2, <2>1 DEF TypeOK, process, durable, market
  <2> QED BY <1>0, <1>1, <1>2, <2>1, <2>2, Quiet
<1>3. ASSUME NEW a \in Attempts, sells[a].status \in OpenStatuses,
             sells' = [sells EXCEPT ![a].status = "CANCELLED"], UNCHANGED entry
      PROVE  IInv'
  <2> DEFINE o == [sells[a] EXCEPT !.status = "CANCELLED"]
  <2>1. o \in Orders /\ o.status = "CANCELLED"
    BY <1>0 DEF Orders, OrderStatuses, FinalStatuses
  <2>2. sells' = [sells EXCEPT ![a] = o]
    BY <1>0, <1>3
  <2> HIDE DEF o
  <2>3. sells' \in [Attempts -> Orders]
    BY <1>0, <2>1, <2>2
  <2>4. TypeOK'
    BY <1>0, <1>3, <2>3 DEF TypeOK, process, durable, market
  <2>5. AtWork(sells[a]) /\ ~AtWork(o) /\ o.status # "inflight"
    BY <1>3, <2>1 DEF AtWork, OpenStatuses
  <2> QED BY <1>0, <1>1, <1>3, <2>1, <2>2, <2>4, <2>5, SaleMoves
<1> QED BY <1>2, <1>3 DEF OrderEnds

\* The session, the quote, the calendar and the owner at the broker.
LEMMA WorldSteady ==
    ASSUME IInv, SessionChanges \/ QuoteMoves \/ DaysPass \/ Outside PROVE IInv'
<1> USE Bounds
<1>0. /\ TypeOK /\ held <= entry.filled /\ entry \in Orders /\ held \in Lots
      /\ entry.filled \in Nat /\ held \in Nat
      /\ budget \in [mishaps : 0 .. MaxMishaps, closes : 0 .. MaxCloses,
                     outside : 0 .. MaxOutside]
  BY DEF IInv, Steady, TypeOK, Orders, Lots
<1>1. UNCHANGED <<process, durable, entry, sells>>
  BY DEF SessionChanges, QuoteMoves, DaysPass, Outside, broker
<1>2. /\ budget' \in [mishaps : 0 .. MaxMishaps, closes : 0 .. MaxCloses,
                      outside : 0 .. MaxOutside]
      /\ Mishaps' = Mishaps
  <2>1. CASE UNCHANGED budget
    BY <1>0, <2>1 DEF Mishaps
  <2>2. CASE Spend("closes") \/ Spend("outside")
    BY <1>0, <2>2, Spends
  <2> QED BY <2>1, <2>2 DEF SessionChanges, QuoteMoves, DaysPass, Outside
<1>3. held' \in Lots /\ held' <= entry.filled
  <2>1. CASE Outside
    BY <1>0, <2>1 DEF Outside, Lots
  <2>2. CASE SessionChanges \/ QuoteMoves
    BY <1>0, <2>2 DEF SessionChanges, QuoteMoves, broker
  <2>3. CASE DaysPass
    BY <1>0, <2>3 DEF DaysPass, Lots, broker
  <2> QED BY <2>1, <2>2, <2>3
<1>4. /\ core' \in BOOLEAN /\ life' \in {"far", "near", "past"}
      /\ quote' \in {"none", "inside", "outside"}
  BY <1>0 DEF SessionChanges, QuoteMoves, DaysPass, Outside, market, TypeOK
<1>5. TypeOK'
  BY <1>0, <1>1, <1>2, <1>3, <1>4 DEF TypeOK, process, durable
<1> QED BY <1>1, <1>2, <1>3, <1>5, Quiet

-----------------------------------------------------------------------------
(* The specification. *)

LEMMA NextSteady == IInv /\ [Next]_vars => IInv'
<1> SUFFICES ASSUME IInv, [Next]_vars PROVE IInv'
  OBVIOUS
<1>1. CASE Pass
  BY <1>1, PlaceBuySteady, PollBuySteady, WatchSteady, WatchFailsSteady, SellSteady,
     SettleSteady, SaveSteady DEF Pass
<1>2. CASE Submit \/ Monitor \/ Crash
  BY <1>2, SubmitSteady, MonitorBeginSteady, ReconcileSteady, CrashSteady DEF Monitor
<1>3. CASE Shown \/ EntryFills \/ SellFills \/ OrderEnds
  BY <1>3, ShownSteady, EntryFillsSteady, SellFillsSteady, OrderEndsSteady
<1>4. CASE SessionChanges \/ QuoteMoves \/ DaysPass \/ Outside
  BY <1>4, WorldSteady
<1>5. CASE UNCHANGED vars
  <2>1. UNCHANGED <<process, durable, entry, sells, held, market, budget>>
    BY <1>5 DEF vars, broker
  <2>2. TypeOK' /\ Mishaps' = Mishaps /\ held' <= entry'.filled
    BY <2>1 DEF IInv, Steady, TypeOK, process, durable, market, Mishaps
  <2> QED BY <2>1, <2>2, Quiet
<1> QED BY <1>1, <1>2, <1>3, <1>4, <1>5 DEF Next

\* The strengthening of the safety properties holds in every reachable state.
THEOREM AlwaysSteady == Spec => []IInv
BY InitSteady, NextSteady, PTL DEF Spec

\* Every variable keeps its type.
THEOREM OptionTypesHold == Spec => []TypeOK
<1>1. IInv => TypeOK
  BY DEF IInv, Steady
<1> QED BY <1>1, AlwaysSteady, PTL

\* One lost call or one restart leaves one sell of an option at work at most,
\* for any number of attempts, of contracts and of sessions that end.
THEOREM OneSaleAtATime == Spec => []OneSale
<1>1. ASSUME IInv, Mishaps < 2 PROVE Cardinality(Working) <= 1
  <2>1. InTurn(disk) /\ disk \in Records
    BY <1>1 DEF IInv, Settling, Steady, TypeOK
  <2>2. \A a \in Working : a = Current(disk)
    <3> SUFFICES ASSUME NEW a \in Working PROVE a = Current(disk)
      OBVIOUS
    <3>1. a \in Attempts /\ AtWork(sells[a])
      BY DEF Working, AtWork
    <3>2. a \in Nat /\ Current(disk) \in Nat
      BY <2>1, <3>1, Bounds DEF Attempts, Current, Records
    <3> QED BY <2>1, <3>1, <3>2, NoOrderRests DEF InTurn
  <2>3. CASE Working = {}
    BY <2>3, FS_EmptySet
  <2>4. CASE Working # {}
    <3>1. Working = {Current(disk)}
      BY <2>2, <2>4
    <3> QED BY <3>1, FS_Singleton
  <2> QED BY <2>3, <2>4
<1>2. IInv => OneSale
  BY <1>1 DEF OneSale
<1> QED BY <1>2, AlwaysSteady, PTL

\* What the journal says was sold is what the sells of all attempts sold.
THEOREM JournalAlwaysTrue == Spec => []JournalIsTrue
<1>1. ASSUME IInv, Mishaps < 2, traded # 0 \/ disk.state = Closed
      PROVE  traded = SoldInAll /\ traded # 0
  <2> DEFINE sold == [a \in Attempts |-> sells[a].filled]
             c == Current(disk)
  <2>1. /\ InTurn(disk) /\ Books /\ disk \in Records /\ sells \in [Attempts -> Orders]
    BY <1>1 DEF IInv, Settling, Steady, TypeOK
  <2>2. traded # 0 /\ c \in Attempts /\ sold[c] = traded
    BY <1>1, <2>1 DEF Books
  <2>3. IsFiniteSet(Attempts)
    BY Bounds, FS_Interval DEF Attempts
  <2>4. \A a \in Attempts : sold[a] \in Nat
    BY <2>1, Bounds DEF Orders, Lots
  <2>5. \A a \in Attempts \ {c} : sold[a] = 0
    <3> SUFFICES ASSUME NEW a \in Attempts \ {c} PROVE sells[a].filled = 0
      OBVIOUS
    <3>1. a \in Nat /\ c \in Nat /\ a # c
      BY <2>2, Bounds DEF Attempts
    <3> QED BY <2>1, <3>1, NoOrderRests DEF InTurn
  <2> HIDE DEF c, sold
  <2>6. SumOf(sold, Attempts) = SumOf(sold, {c})
    BY <2>2, <2>3, <2>4, <2>5, SumSkips
  <2>7. SumOf(sold, {}) = 0
    BY <2>3, SumStep
  <2>8. SumOf(sold, {} \union {c}) = SumOf(sold, {}) + sold[c]
    BY <2>2, <2>3, <2>4, SumAdds
  <2>9. SumOf(sold, {c}) = traded
    <3>1. {} \union {c} = {c}
      OBVIOUS
    <3>2. sold[c] \in Nat
      BY <2>2, <2>4
    <3> QED BY <2>2, <2>7, <2>8, <3>1, <3>2
  <2>10. SoldInAll = SumOf(sold, Attempts)
    BY DEF SoldInAll, SumOf, sold
  <2> QED BY <2>2, <2>6, <2>9, <2>10
<1>2. IInv => JournalIsTrue
  BY <1>1 DEF JournalIsTrue
<1> QED BY <1>2, AlwaysSteady, PTL
=============================================================================
