------------------------ MODULE AutonomousScan_proofs ------------------------
(***************************************************************************)
(* Theorems of AutonomousScan for every account, price, limit and bound.   *)
(* First what needs nothing of dollars: approval holds and halts hold;     *)
(* there the invariant, Sound, says of a record only which fields it has.  *)
(* Then the limits on dollars and positions, whose invariant, Solvent,     *)
(* says of each amount that is sized against what of the entries it still  *)
(* covers. Last a close of everything, whose invariant, Sought, says of    *)
(* each entry what every step of the close has left to be asked for.       *)
(***************************************************************************)
EXTENDS AutonomousScan, SumTheorems

---------------------------------------------------------------------------
(* The inductive invariant, in the parts its theorems need.                *)

SettingsTyped ==
    /\ settings \in [mode : Modes, approval : BOOLEAN, stopped : BOOLEAN]
    /\ stopSeen \in BOOLEAN

EntryFields == {"kind", "quantity", "filled", "open", "sure", "late"}
EntriesShaped ==
    /\ entry = [t \in Tickers |-> entry[t]]
    /\ \A t \in Entered : EntryFields \subseteq DOMAIN entry[t]

ScanFields == {"job", "at", "order", "approving", "toApprove", "equity", "loss", "marginRead"}
ScanShaped ==
    /\ "job" \in DOMAIN scan
    /\ scan.job \in Jobs \union {"none"}
    /\ Busy => /\ ScanFields \subseteq DOMAIN scan
               /\ scan.at \in 1 .. (IF scan.job = "scan" THEN 7 ELSE 6)
               /\ scan.equity \in Nat

Shaped == SettingsTyped /\ EntriesShaped /\ ScanShaped

\* Who has chosen APPROVAL is asked, until a stop intervenes.
Asked ==
    /\ settings.mode = "APPROVAL" /\ ~stopSeen => settings.approval
    /\ scan.job = "scan" /\ scan.toApprove => scan.approving

\* What the lock's holder has checked stays checked.
Calm ==
    /\ scan.job = "scan" /\ scan.at > 1 =>
         \/ ~LossHalts(DayLoss(scan.loss, scan.marginRead))
         \/ scan.equity = 0
    /\ scan.job = "scan" /\ scan.at > 6 => ~DrawnDown(scan.equity, peak)
    /\ scan.job = "ticket" /\ scan.at > 5 =>
         /\ ~LossHalts(scan.loss[AccountOf(scan.order.kind)]) \/ scan.equity = 0
         /\ ~DrawnDown(scan.equity, peak)

Sound == Shaped /\ Asked /\ Calm

---------------------------------------------------------------------------
(* Who changes what.                                                       *)

UserActs == (\E m \in Modes : SetMode(m)) \/ EmergencyStop \/ ResetStop \/ CloseEverything
FlattenActs ==
    \/ ListOrders \/ ListPositions \/ AllClosed
    \/ \E t \in Tickers : CancelOrder(t) \/ ClosePosition(t)
ReadActs ==
    \/ ReadBalances \/ Gate \/ CheckTicket
    \/ \E a \in Accounts : ReadPositions(a) \/ ReadOrders(a)
SubmitActs == SubmitTicket \/ \E t \in Tickers, kind \in Kinds : TryEntry(t, kind)
OrderActs ==
    \E t \in Tickers : \/ Fill(t) \/ EndOrder(t) \/ Resolve(t)
                       \/ ExitPosition(t) \/ CloseFills(t)
StartActs == Begin \/ EndScan \/ \E t \in Tickers : Approve(t) \/ LapseTicket(t)

LEMMA NextByActors ==
    Next <=> UserActs \/ FlattenActs \/ ReadActs \/ SubmitActs \/ OrderActs \/ StartActs
BY DEF Next, UserActs, FlattenActs, ReadActs, SubmitActs, OrderActs, StartActs

LEMMA Frames ==
    /\ UserActs => UNCHANGED <<entry, ticket, peak, scan>>
    /\ FlattenActs => UNCHANGED <<settings, stopSeen, entry, ticket, peak, scan, events>>
    /\ ReadActs => UNCHANGED <<settings, stopSeen, entry, ticket, flatten>>
    /\ SubmitActs => UNCHANGED <<settings, stopSeen, peak, flatten>>
    /\ OrderActs => UNCHANGED <<settings, stopSeen, ticket, peak, events>>
    /\ StartActs => UNCHANGED <<settings, stopSeen, entry, peak, flatten>>
<1>1. UserActs => UNCHANGED <<entry, ticket, peak, scan>>
  BY DEF UserActs, SetMode, EmergencyStop, ResetStop, CloseEverything
<1>2. FlattenActs => UNCHANGED <<settings, stopSeen, entry, ticket, peak, scan, events>>
  BY DEF FlattenActs, ListOrders, ListPositions, AllClosed, CancelOrder, ClosePosition
<1>3. ReadActs => UNCHANGED <<settings, stopSeen, entry, ticket, flatten>>
  BY DEF ReadActs, ReadBalances, Gate, CheckTicket, ReadPositions, ReadOrders
<1>4. SubmitActs => UNCHANGED <<settings, stopSeen, peak, flatten>>
  BY DEF SubmitActs, SubmitTicket, TryEntry
<1>5. OrderActs => UNCHANGED <<settings, stopSeen, ticket, peak, events>>
  BY DEF OrderActs, Fill, EndOrder, ExitPosition, Resolve, CloseFills
<1>6. StartActs => UNCHANGED <<settings, stopSeen, entry, peak, flatten>>
  BY DEF StartActs, Begin, EndScan, Approve, LapseTicket
<1>7. QED
  BY <1>1, <1>2, <1>3, <1>4, <1>5, <1>6
---------------------------------------------------------------------------
(* Shapes.                                                                 *)

LEMMA SettingsStay ==
    ASSUME SettingsTyped, [Next]_vars
    PROVE  SettingsTyped'
<1>1. CASE UserActs
  BY <1>1 DEF UserActs, SetMode, EmergencyStop, ResetStop, CloseEverything, Stopped,
              SettingsTyped, Modes
<1>2. CASE UNCHANGED <<settings, stopSeen>>
  BY <1>2 DEF SettingsTyped
<1>3. QED
  BY <1>1, <1>2, NextByActors, Frames DEF vars

\* What an entry is once an order for it is submitted, and after it moves.
LEMMA EntriesStay ==
    ASSUME EntriesShaped, [Next]_vars
    PROVE  EntriesShaped'
<1> DEFINE Shape(e) == EntryFields \subseteq DOMAIN e
           Becomes(t, e) == entry' = [entry EXCEPT ![t] = e]
<1>1. ASSUME NEW t \in Tickers, NEW e, Becomes(t, e), e # NoEntry => Shape(e)
      PROVE  EntriesShaped'
  BY <1>1 DEF EntriesShaped, Entered, EntryFields
<1>2. \A kind, n, landed, sure : Shape(NewEntry(kind, n, landed, sure))
  BY DEF NewEntry, EntryFields
<1>3. \A t \in Entered : Shape(entry[t])
  BY DEF EntriesShaped
<1> HIDE DEF Shape
<1>4. CASE SubmitActs
  <2>1. ASSUME NEW t \in Tickers, NEW kind \in Kinds, TryEntry(t, kind)
        PROVE  EntriesShaped'
    <3>1. UNCHANGED entry \/ \E n, landed, sure : Becomes(t, NewEntry(kind, n, landed, sure))
      BY <2>1 DEF TryEntry, Accepted, Unclear
    <3>2. QED
      BY <3>1, <1>1, <1>2 DEF EntriesShaped, Entered
  <2>2. CASE SubmitTicket
    <3>1. UNCHANGED entry
          \/ \E n, landed, sure :
               Becomes(scan.order.ticker, NewEntry(scan.order.kind, n, landed, sure))
      BY <2>2 DEF SubmitTicket, Accepted, Unclear
    <3>2. CASE scan.order.ticker \in Tickers
      BY <3>1, <3>2, <1>1, <1>2 DEF EntriesShaped, Entered
    <3>3. CASE scan.order.ticker \notin Tickers
      BY <3>1, <3>3 DEF EntriesShaped, Entered
    <3>4. QED
      BY <3>2, <3>3
  <2>3. QED
    BY <1>4, <2>1, <2>2 DEF SubmitActs
<1>5. ASSUME NEW t \in Entered
      PROVE  /\ Shape(Ended(t)) \/ Ended(t) = NoEntry
             /\ \A n : Shape(Sold(t, n)) \/ Sold(t, n) = NoEntry
  BY <1>3 DEF Ended, Sold, Shape, EntryFields
<1>6. CASE OrderActs
  <2>1. ASSUME NEW t \in Tickers, Fill(t) \/ EndOrder(t) \/ ExitPosition(t) \/ Resolve(t)
                                  \/ CloseFills(t)
        PROVE  EntriesShaped'
    <3>1. CASE Fill(t)
      <4>1. PICK n \in Held(t) + 1 .. entry[t].quantity :
              Becomes(t, [entry[t] EXCEPT !.filled = n, !.open = n < entry[t].quantity])
        BY <3>1 DEF Fill
      <4>2. t \in Entered
        BY <3>1 DEF Fill, Working
      <4>3. Shape([entry[t] EXCEPT !.filled = n, !.open = n < entry[t].quantity])
        BY <1>3, <4>2 DEF Shape
      <4>4. QED
        BY <1>1, <4>1, <4>3
    <3>2. CASE EndOrder(t)
      BY <3>2, <1>1, <1>5 DEF EndOrder, Working
    <3>3. CASE ExitPosition(t)
      BY <3>3, <1>1 DEF ExitPosition
    <3>4. CASE Resolve(t)
      <4>1. Shape([entry[t] EXCEPT !.sure = TRUE])
        BY <3>4, <1>3 DEF Resolve, Shape
      <4>2. QED
        BY <3>4, <4>1, <1>1 DEF Resolve
    <3>5. CASE CloseFills(t)
      <4>1. t \in Entered
        BY <3>5 DEF CloseFills, Held
      <4>2. PICK n : Becomes(t, Sold(t, n))
        BY <3>5 DEF CloseFills
      <4>3. QED
        BY <4>1, <4>2, <1>1, <1>5
    <3>6. QED
      BY <2>1, <3>1, <3>2, <3>3, <3>4, <3>5
  <2>2. QED
    BY <1>6, <2>1 DEF OrderActs
<1>7. CASE UNCHANGED entry
  BY <1>7 DEF EntriesShaped, Entered
<1>8. QED
  BY <1>4, <1>6, <1>7, NextByActors, Frames DEF vars

---------------------------------------------------------------------------
(* How the lock's holder moves.                                            *)

\* Where in its sequence a step is.
LEMMA StepNumbers ==
    /\ \A i \in 1..7 : /\ Steps("scan")[i] = "balances" => i = 1
                       /\ Steps("scan")[i] = "gate" => i = 6
                       /\ Steps("scan")[i] = "trade" => i = 7
    /\ \A i \in 1..7, a \in Accounts :
         Steps("scan")[i] = PositionsOf[a] \/ Steps("scan")[i] = OrdersOf[a] => i \in 2..5
    /\ \A i \in 1..6 : /\ Steps("ticket")[i] = "balances" => i = 5
                       /\ Steps("ticket")[i] = "submit" => i = 6
    /\ \A i \in 1..6, a \in Accounts :
         Steps("ticket")[i] = PositionsOf[a] \/ Steps("ticket")[i] = OrdersOf[a] => i \in 1..4
<1> DEFINE c == Steps("scan")
           k == Steps("ticket")
<1>1. /\ c[1] = "balances" /\ c[2] = "cash positions" /\ c[3] = "margin positions"
      /\ c[4] = "cash orders" /\ c[5] = "margin orders" /\ c[6] = "gate" /\ c[7] = "trade"
  BY DEF Steps
<1>2. /\ k[1] = "cash positions" /\ k[2] = "cash orders" /\ k[3] = "margin positions"
      /\ k[4] = "margin orders" /\ k[5] = "balances" /\ k[6] = "submit"
  BY DEF Steps
<1>3. \A a \in Accounts : /\ PositionsOf[a] \in {"cash positions", "margin positions"}
                          /\ OrdersOf[a] \in {"cash orders", "margin orders"}
  <2>1. /\ PositionsOf["cash"] = "cash positions" /\ PositionsOf["margin"] = "margin positions"
        /\ OrdersOf["cash"] = "cash orders" /\ OrdersOf["margin"] = "margin orders"
    BY DEF PositionsOf, OrdersOf
  <2>2. QED
    BY <2>1 DEF Accounts
<1> DEFINE Lists == {"cash positions", "margin positions", "cash orders", "margin orders"}
<1> HIDE DEF c, k
<1>4. ASSUME NEW i \in 1..7
      PROVE  /\ c[i] = "balances" => i = 1
             /\ c[i] = "gate" => i = 6
             /\ c[i] = "trade" => i = 7
             /\ c[i] \in Lists => i \in 2..5
  <2>1. CASE i = 1
    BY <1>1, <2>1
  <2>2. CASE i \in 2..5
    <3>1. i = 2 \/ i = 3 \/ i = 4 \/ i = 5
      BY <2>2
    <3>2. c[i] \in Lists
      BY <1>1, <3>1, Zenon
    <3>3. c[i] # "balances" /\ c[i] # "gate" /\ c[i] # "trade"
      BY <3>2
    <3>4. QED
      BY <2>2, <3>3
  <2>3. CASE i = 6
    BY <1>1, <2>3
  <2>4. CASE i = 7
    BY <1>1, <2>4
  <2>5. i = 1 \/ i \in 2..5 \/ i = 6 \/ i = 7
    OBVIOUS
  <2>6. QED
    BY <2>1, <2>2, <2>3, <2>4, <2>5, Zenon
<1>5. ASSUME NEW i \in 1..6
      PROVE  /\ k[i] = "balances" => i = 5
             /\ k[i] = "submit" => i = 6
             /\ k[i] \in Lists => i \in 1..4
  <2>1. CASE i \in 1..4
    <3>1. i = 1 \/ i = 2 \/ i = 3 \/ i = 4
      BY <2>1
    <3>2. k[i] \in Lists
      BY <1>2, <3>1, Zenon
    <3>3. k[i] # "balances" /\ k[i] # "submit"
      BY <3>2
    <3>4. QED
      BY <2>1, <3>3
  <2>2. CASE i = 5
    BY <1>2, <2>2
  <2>3. CASE i = 6
    BY <1>2, <2>3
  <2>4. i \in 1..4 \/ i = 5 \/ i = 6
    OBVIOUS
  <2>5. QED
    BY <2>1, <2>2, <2>3, <2>4, Zenon
<1>6. QED
  BY <1>3, <1>4, <1>5 DEF c, k
\* The lock's holder goes on to its next step, or stays at this one, with what
\* it was started for and what it has been found fit for.
SameFields == DOMAIN scan' = DOMAIN scan
SameErrand ==
    /\ scan'.job = scan.job /\ scan'.order = scan.order
    /\ scan'.approving = scan.approving /\ scan'.toApprove = scan.toApprove
SameJudgement ==
    /\ scan'.equity = scan.equity /\ scan'.loss = scan.loss
    /\ scan'.marginRead = scan.marginRead
GoesOn == SameFields /\ SameErrand /\ scan'.at = scan.at + 1

LEMMA NextStep ==
    ASSUME ScanShaped, Busy
    PROVE  LET s == Next1(scan)
           IN  /\ DOMAIN s = DOMAIN scan /\ s.at = scan.at + 1
               /\ s.job = scan.job /\ s.order = scan.order
               /\ s.approving = scan.approving /\ s.toApprove = scan.toApprove
               /\ s.equity = scan.equity /\ s.loss = scan.loss /\ s.marginRead = scan.marginRead
<1>1. ScanFields \subseteq DOMAIN scan
  BY DEF ScanShaped
<1>2. \A f \in ScanFields : f \in DOMAIN scan
  BY <1>1
<1>3. QED
  BY <1>2 DEF ScanFields, Next1

LEMMA ListsAreRead ==
    ASSUME ScanShaped, NEW a \in Accounts, ReadPositions(a) \/ ReadOrders(a)
    PROVE  /\ scan' = Idle \/ (GoesOn /\ SameJudgement)
           /\ Busy
           /\ scan.job = "scan" => scan.at \in 2..5
           /\ scan.job = "ticket" => scan.at \in 1..4
           /\ UNCHANGED peak
<1>1. Busy /\ (Taking(Jobs, PositionsOf[a]) \/ Taking(Jobs, OrdersOf[a]))
  BY DEF ReadPositions, ReadOrders, Taking
<1>2. /\ scan.job = "scan" => scan.at \in 2..5
      /\ scan.job = "ticket" => scan.at \in 1..4
  BY <1>1, StepNumbers DEF Taking, ScanShaped
<1> DEFINE s == Next1(scan)
           Goes(n) == /\ DOMAIN n = DOMAIN s /\ n.at = s.at
                      /\ n.job = s.job /\ n.order = s.order
                      /\ n.approving = s.approving /\ n.toApprove = s.toApprove
                      /\ n.equity = s.equity /\ n.loss = s.loss /\ n.marginRead = s.marginRead
<1>3. \A f \in ScanFields : f \in DOMAIN s
  BY <1>1, NextStep DEF ScanShaped
<1> HIDE DEF s
<1>4. scan' = Idle \/ Goes(scan')
  <2>1. CASE ReadPositions(a)
    <3> DEFINE h == [s.held EXCEPT ![a] = HeldRows(a)]
               w == [t \in Tickers |-> scan.exposure[t] +
                      IF t \in OnAccount(a) THEN Held(t) * UnitCost(t, entry[t].kind) ELSE 0]
               p == s.positions + Cardinality(OnAccount(a) \intersect Positions)
               r == s.rested \/ \E t \in OnAccount(a) : Working(t) /\ Held(t) = 0
    <3>1. \/ scan' = Idle
          \/ scan' = [s EXCEPT !.held = h, !.exposure = w, !.positions = p, !.rested = r]
      BY <2>1 DEF ReadPositions, Leave, s
    <3> HIDE DEF h, w, p, r
    <3>2. QED
      BY <3>1, <1>3 DEF ScanFields
  <2>2. CASE ReadOrders(a)
    <3> DEFINE h == [s.held EXCEPT ![a] = 0]
               f == [s.free EXCEPT ![a] = AtLeastZero(EquityOf(a) - scan.held[a] - BuyRows(a))]
               w == [t \in Tickers |-> scan.exposure[t] +
                      IF t \in Buys(a) THEN Remainder(t) * UnitCost(t, entry[t].kind) ELSE 0]
               u == s.uncounted \union {t \in OnAccount(a) \ Buys(a) : Working(t)}
               v == s.uncounted \union {t \in OnAccount(a) : Working(t)}
    <3>1. \/ scan' = Idle
          \/ scan' = [s EXCEPT !.held = h, !.free = f, !.exposure = w, !.uncounted = u]
          \/ scan' = [s EXCEPT !.uncounted = v]
      BY <2>2 DEF ReadOrders, WithOrders, WithoutOrders, Leave, s
    <3> HIDE DEF h, f, w, u, v
    <3>2. QED
      BY <3>1, <1>3 DEF ScanFields
  <2>3. QED
    BY <2>1, <2>2
<1>5. Goes(scan') => GoesOn /\ SameJudgement
  BY <1>1, NextStep DEF s, GoesOn, SameFields, SameErrand, SameJudgement
<1>6. QED
  BY <1>1, <1>2, <1>4, <1>5 DEF ReadPositions, ReadOrders

\* What each step makes of the lock's holder.
Starts ==
    /\ UNCHANGED <<settings, stopSeen, peak>>
    /\ "job" \in DOMAIN scan' /\ ScanFields \subseteq DOMAIN scan'
    /\ scan'.at = 1 /\ scan'.equity = 0 /\ scan'.job \in Jobs
    /\ scan'.job = "scan" =>
         /\ scan'.approving = (settings.mode = "APPROVAL" /\ settings.approval)
         /\ scan'.toApprove = (settings.mode = "APPROVAL" /\ ~stopSeen)
Stays == Busy /\ SameFields /\ SameErrand /\ SameJudgement /\ scan'.at = scan.at /\ UNCHANGED peak
ListRead ==
    /\ Busy /\ GoesOn /\ SameJudgement /\ UNCHANGED peak
    /\ scan.job = "scan" => scan.at \in 2..5
    /\ scan.job = "ticket" => scan.at \in 1..4
BalancesRead ==
    /\ GoesOn /\ UNCHANGED peak
    /\ scan.job = "scan" /\ scan.at = 1
    /\ scan'.equity \in Nat
    /\ ~LossHalts(DayLoss(scan'.loss, scan'.marginRead)) \/ scan'.equity = 0
GatePassed ==
    /\ GoesOn /\ SameJudgement
    /\ scan.job = "scan" /\ scan.at = 6
    /\ ~DrawnDown(scan.equity, peak')
TicketPassed ==
    /\ GoesOn
    /\ scan.job = "ticket" /\ scan.at = 5
    /\ scan'.equity \in Nat
    /\ ~LossHalts(scan'.loss[AccountOf(scan.order.kind)]) \/ scan'.equity = 0
    /\ ~DrawnDown(scan'.equity, peak')

LEMMA BalancesAreRead ==
    ASSUME ScanShaped, ReadBalances
    PROVE  scan' = Idle \/ BalancesRead
<1>1. Busy /\ scan.job = "scan" /\ scan.at = 1
  BY StepNumbers DEF ReadBalances, Taking, ScanShaped
<1> DEFINE s == Next1(scan)
<1>2. \A f \in ScanFields : f \in DOMAIN s
  BY <1>1, NextStep DEF ScanShaped
<1>3. SUFFICES ASSUME scan' # Idle
               PROVE  BalancesRead
  OBVIOUS
<1> DEFINE power(c, m) ==
             [p \in Pools |-> IF (IF p = "cash" THEN c ELSE m) THEN Power(p) ELSE Unknown]
<1>4. PICK equity \in EquityLevels, loss \in Losses, c \in BOOLEAN, m \in BOOLEAN :
        /\ ~(equity > 0 /\ LossHalts(DayLoss(loss, m)))
        /\ scan' = [s EXCEPT !.equity = equity, !.loss = loss, !.marginRead = m, !.power = power(c, m)]
  BY <1>3 DEF ReadBalances, Leave
<1>5. equity \in Nat
  BY DollarAssumption
<1> DEFINE q == power(c, m)
<1>6. scan' = [s EXCEPT !.equity = equity, !.loss = loss, !.marginRead = m, !.power = q]
  BY <1>4
<1> HIDE DEF s, q
<1>7. /\ DOMAIN scan' = DOMAIN s /\ scan'.at = s.at /\ scan'.job = s.job /\ scan'.order = s.order
      /\ scan'.approving = s.approving /\ scan'.toApprove = s.toApprove
      /\ scan'.equity = equity /\ scan'.loss = loss /\ scan'.marginRead = m
  BY <1>2, <1>6 DEF ScanFields
<1>8. GoesOn
  BY <1>1, <1>7, NextStep DEF s, GoesOn, SameFields, SameErrand
<1>9. UNCHANGED peak
  BY DEF ReadBalances
<1>10. QED
  BY <1>1, <1>4, <1>5, <1>7, <1>8, <1>9 DEF BalancesRead

LEMMA GateIsPassed ==
    ASSUME ScanShaped, Gate
    PROVE  scan' = Idle \/ GatePassed
<1>1. Busy /\ scan.job = "scan" /\ scan.at = 6
  BY StepNumbers DEF Gate, Taking, ScanShaped
<1> DEFINE s == Next1(scan)
           c == Tickers \ Entered
           n == Least({OrdersPerRun, Slots(scan.positions)})
<1>2. \A f \in ScanFields : f \in DOMAIN s
  BY <1>1, NextStep DEF ScanShaped
<1>3. SUFFICES ASSUME scan' # Idle
               PROVE  GatePassed
  OBVIOUS
<1>4. /\ scan' = [s EXCEPT !.candidates = c, !.positions = 0, !.slots = n]
      /\ ~DrawnDown(scan.equity, peak')
  BY <1>3 DEF Gate, Leave
<1> HIDE DEF s, c, n
<1>5. /\ DOMAIN scan' = DOMAIN s /\ scan'.at = s.at /\ scan'.job = s.job /\ scan'.order = s.order
      /\ scan'.approving = s.approving /\ scan'.toApprove = s.toApprove
      /\ scan'.equity = s.equity /\ scan'.loss = s.loss /\ scan'.marginRead = s.marginRead
  BY <1>2, <1>4 DEF ScanFields
<1>6. QED
  BY <1>1, <1>4, <1>5, NextStep DEF s, GatePassed, GoesOn, SameFields, SameErrand, SameJudgement

LEMMA TicketIsPassed ==
    ASSUME ScanShaped, CheckTicket
    PROVE  scan' = Idle \/ TicketPassed
<1>1. Busy /\ scan.job = "ticket" /\ scan.at = 5
  BY StepNumbers DEF CheckTicket, Taking, ScanShaped
<1> DEFINE s == Next1(scan)
           halts(equity, loss) == equity > 0 /\ LossHalts(loss[AccountOf(scan.order.kind)])
<1>2. \A f \in ScanFields : f \in DOMAIN s
  BY <1>1, NextStep DEF ScanShaped
<1>3. SUFFICES ASSUME scan' # Idle
               PROVE  TicketPassed
  OBVIOUS
<1>4. PICK equity \in EquityLevels, loss \in Losses :
        /\ ~halts(equity, loss) /\ ~DrawnDown(equity, peak')
        /\ scan' = [s EXCEPT !.equity = equity, !.loss = loss]
  BY <1>3 DEF CheckTicket, Leave
<1>5. equity \in Nat
  BY DollarAssumption
<1> HIDE DEF s
<1>7. /\ DOMAIN scan' = DOMAIN s /\ scan'.at = s.at /\ scan'.job = s.job /\ scan'.order = s.order
      /\ scan'.approving = s.approving /\ scan'.toApprove = s.toApprove
      /\ scan'.equity = equity /\ scan'.loss = loss
  BY <1>2, <1>4 DEF ScanFields
<1>8. GoesOn
  BY <1>1, <1>7, NextStep DEF s, GoesOn, SameFields, SameErrand
<1>9. QED
  BY <1>1, <1>4, <1>5, <1>7, <1>8 DEF TicketPassed

LEMMA StaysByFields ==
    ASSUME Busy, DOMAIN scan' = DOMAIN scan, \A g \in ScanFields : scan'[g] = scan[g], UNCHANGED peak
    PROVE  Stays
BY DEF ScanFields, Stays, SameFields, SameErrand, SameJudgement

LEMMA EntriesAreTried ==
    ASSUME ScanShaped, NEW t \in Tickers, NEW kind \in Kinds, TryEntry(t, kind)
    PROVE  scan' = Idle \/ Stays
<1>1. Busy /\ UNCHANGED peak
  BY DEF TryEntry, Trading, Taking
<1> DEFINE Same(s) == DOMAIN s = DOMAIN scan /\ \A g \in ScanFields : s[g] = scan[g]
           n == Ramped(SizeOf(t, kind))
<1>2. ASSUME NEW f \in {"reserved", "exposure", "slots", "candidates", "uncounted"},
             NEW s, NEW v, Same(s)
      PROVE  Same([s EXCEPT ![f] = v])
  <2>1. \A g \in ScanFields : g \in DOMAIN s /\ g # f
    BY <1>1, <1>2 DEF ScanShaped, ScanFields
  <2>2. QED
    BY <1>2, <2>1
<1>3. Same(scan)
  OBVIOUS
<1>4. Same(Reserved(t, kind, n))
  <2> DEFINE r == Plus(scan.reserved, AccountOf(kind), n * UnitCost(t, kind))
             w == Plus(scan.exposure, t, n * UnitCost(t, kind))
  <2>1. Reserved(t, kind, n) = [scan EXCEPT !.reserved = r, !.exposure = w]
    BY DEF Reserved
  <2> HIDE DEF r, w, n, Same
  <2>2. Same([scan EXCEPT !.reserved = r])
    BY <1>2, <1>3
  <2>3. Same([[scan EXCEPT !.reserved = r] EXCEPT !.exposure = w])
    BY <1>2, <2>2
  <2>4. [scan EXCEPT !.reserved = r, !.exposure = w]
          = [[scan EXCEPT !.reserved = r] EXCEPT !.exposure = w]
    OBVIOUS
  <2>5. QED
    BY <2>1, <2>3, <2>4
<1>5. ASSUME NEW s, Same(s)
      PROVE  Passed(t, s) = Idle \/ Same(Passed(t, s))
  <2> DEFINE x == s.slots - 1
             c == s.candidates \ {t}
  <2>1. Passed(t, s) = Idle \/ Passed(t, s) = [s EXCEPT !.slots = x, !.candidates = c]
    BY DEF Passed
  <2> HIDE DEF x, c, Same
  <2>2. Same([s EXCEPT !.slots = x])
    BY <1>2, <1>5
  <2>3. Same([[s EXCEPT !.slots = x] EXCEPT !.candidates = c])
    BY <1>2, <2>2
  <2>4. [s EXCEPT !.slots = x, !.candidates = c]
          = [[s EXCEPT !.slots = x] EXCEPT !.candidates = c]
    OBVIOUS
  <2>5. QED
    BY <2>1, <2>3, <2>4
<1> DEFINE rs == Passed(t, Reserved(t, kind, n))
           ps == Passed(t, scan)
<1>6. scan' = rs \/ scan' = ps \/ scan' = Idle
  BY DEF TryEntry, Leave
<1>7. scan' = Idle \/ Same(scan')
  BY <1>3, <1>4, <1>5, <1>6
<1>8. QED
  BY <1>1, <1>7, StaysByFields

LEMMA FillsAreSeen ==
    ASSUME ScanShaped, NEW t \in Tickers, Fill(t)
    PROVE  UNCHANGED <<scan, peak>> \/ Stays
<1>1. UNCHANGED peak
  BY DEF Fill
<1> DEFINE u == scan.uncounted \union {t}
<1>2. scan' = scan \/ (Busy /\ scan' = [scan EXCEPT !.uncounted = u])
  BY DEF Fill, Between
<1>3. CASE UNCHANGED scan
  BY <1>1, <1>3
<1>4. CASE Busy /\ scan' = [scan EXCEPT !.uncounted = u]
  <2>1. DOMAIN scan' = DOMAIN scan /\ \A g \in ScanFields : scan'[g] = scan[g]
    <3> HIDE DEF u
    <3>1. \A g \in ScanFields : g # "uncounted" /\ g \in DOMAIN scan
      BY <1>4 DEF ScanShaped, ScanFields
    <3>2. QED
      BY <1>4, <3>1
  <2>2. QED
    BY <1>1, <1>4, <2>1, StaysByFields
<1>5. QED
  BY <1>2, <1>3, <1>4

LEMMA HoldersStart ==
    ASSUME Begin \/ \E t \in Tickers : Approve(t)
    PROVE  scan' = Idle \/ Starts
<1> DEFINE Fresh(s, job) ==
             /\ ScanFields \subseteq DOMAIN s
             /\ s.at = 1 /\ s.equity = 0 /\ s.job = job
             /\ s.toApprove = (settings.mode = "APPROVAL" /\ ~stopSeen)
<1>1. \A job, order : Fresh(Snapshot(job, order), job)
  BY DEF Snapshot, ScanFields
<1>2. CASE Begin
  <2> DEFINE s == Snapshot("scan", NoTicket)
             b == settings.mode = "APPROVAL" /\ settings.approval
  <2>1. scan' = [s EXCEPT !.approving = b]
    BY <1>2 DEF Begin
  <2>2. Fresh(s, "scan")
    BY <1>1
  <2>3. "approving" \in DOMAIN s
    BY <2>2 DEF ScanFields
  <2> HIDE DEF s
  <2>4. Fresh(scan', "scan") /\ scan'.approving = b
    BY <2>1, <2>2, <2>3 DEF ScanFields
  <2>5. QED
    BY <2>4, <1>2 DEF Begin, Starts, ScanFields, Jobs
<1>3. ASSUME NEW t \in Tickers, Approve(t)
      PROVE  scan' = Idle \/ Starts
  <2>1. scan' = Idle \/ \E order : scan' = Snapshot("ticket", order)
    BY <1>3 DEF Approve
  <2>2. scan' = Idle \/ Fresh(scan', "ticket")
    BY <2>1, <1>1
  <2>3. QED
    BY <2>2, <1>3 DEF Approve, Starts, ScanFields, Jobs
<1>4. QED
  BY <1>2, <1>3

LEMMA HolderMoves ==
    ASSUME ScanShaped, [Next]_vars
    PROVE  \/ UNCHANGED <<scan, peak>>
           \/ scan' = Idle
           \/ Starts \/ Stays
           \/ ListRead \/ BalancesRead \/ GatePassed \/ TicketPassed
<1>1. CASE UserActs \/ FlattenActs \/ UNCHANGED vars
  BY <1>1, Frames DEF vars
<1>2. CASE ReadActs
  BY <1>2, ListsAreRead, BalancesAreRead, GateIsPassed, TicketIsPassed DEF ReadActs, ListRead
<1>3. CASE SubmitActs
  BY <1>3, EntriesAreTried DEF SubmitActs, SubmitTicket, Leave
<1>4. CASE OrderActs
  BY <1>4, FillsAreSeen DEF OrderActs, EndOrder, ExitPosition, Resolve, CloseFills
<1>5. CASE StartActs
  BY <1>5, HoldersStart DEF StartActs, EndScan, Leave, LapseTicket
<1>6. QED
  BY <1>1, <1>2, <1>3, <1>4, <1>5, NextByActors

LEMMA ScanStays ==
    ASSUME ScanShaped, [Next]_vars
    PROVE  ScanShaped'
<1>1. CASE UNCHANGED <<scan, peak>>
  BY <1>1 DEF ScanShaped, Busy
<1>2. CASE scan' = Idle
  BY <1>2 DEF Idle, ScanShaped, Busy
<1>3. CASE Starts
  BY <1>3 DEF Starts, ScanShaped, Busy, Jobs
<1>4. CASE Stays
  BY <1>4 DEF Stays, SameFields, SameErrand, SameJudgement, ScanShaped, Busy
<1>5. CASE ListRead
  BY <1>5 DEF ListRead, GoesOn, SameFields, SameErrand, SameJudgement, ScanShaped, Busy, Jobs
<1>6. CASE BalancesRead
  BY <1>6 DEF BalancesRead, GoesOn, SameFields, SameErrand, ScanShaped, Busy
<1>7. CASE GatePassed
  BY <1>7 DEF GatePassed, GoesOn, SameFields, SameErrand, SameJudgement, ScanShaped, Busy
<1>8. CASE TicketPassed
  BY <1>8 DEF TicketPassed, GoesOn, SameFields, SameErrand, ScanShaped, Busy
<1>9. QED
  BY <1>1, <1>2, <1>3, <1>4, <1>5, <1>6, <1>7, <1>8, HolderMoves

---------------------------------------------------------------------------
(* Approval.                                                               *)

LEMMA ChoiceStays ==
    ASSUME SettingsTyped, Asked, [Next]_vars
    PROVE  settings'.mode = "APPROVAL" /\ ~stopSeen' => settings'.approval
<1>1. ASSUME NEW m \in Modes, SetMode(m)
      PROVE  settings'.mode = "APPROVAL" /\ ~stopSeen' => settings'.approval
  BY <1>1 DEF SetMode, SettingsTyped
<1>2. CASE ResetStop
  BY <1>2 DEF ResetStop, SettingsTyped, Asked
<1>3. CASE EmergencyStop \/ CloseEverything
  BY <1>3 DEF EmergencyStop, CloseEverything
<1>4. CASE UNCHANGED <<settings, stopSeen>>
  BY <1>4 DEF Asked
<1>5. QED
  BY <1>1, <1>2, <1>3, <1>4, NextByActors, Frames DEF UserActs, vars

LEMMA AskedStays ==
    ASSUME SettingsTyped, ScanShaped, Asked, [Next]_vars
    PROVE  Asked'
<1>1. SUFFICES scan'.job = "scan" /\ scan'.toApprove => scan'.approving
  BY ChoiceStays DEF Asked
<1>2. CASE UNCHANGED <<scan, peak>> \/ scan' = Idle
  BY <1>2 DEF Idle, Asked
<1>3. CASE Starts
  BY <1>3 DEF Starts, Asked
<1>4. CASE Stays \/ ListRead \/ BalancesRead \/ GatePassed \/ TicketPassed
  BY <1>4 DEF Stays, ListRead, BalancesRead, GatePassed, TicketPassed, GoesOn, SameErrand, Asked
<1>5. QED
  BY <1>2, <1>3, <1>4, HolderMoves

---------------------------------------------------------------------------
(* Halts.                                                                  *)

LEMMA CalmStays ==
    ASSUME ScanShaped, Calm, [Next]_vars
    PROVE  Calm'
<1>1. CASE UNCHANGED <<scan, peak>>
  BY <1>1 DEF Calm, DayLoss, LossHalts, DrawnDown
<1>2. CASE scan' = Idle
  BY <1>2 DEF Idle, Calm
<1>3. CASE Starts
  BY <1>3 DEF Starts, Calm
<1>4. CASE Stays
  BY <1>4 DEF Stays, SameErrand, SameJudgement, Calm, DayLoss, LossHalts, DrawnDown
<1>5. CASE ListRead
  BY <1>5 DEF ListRead, GoesOn, SameErrand, SameJudgement, ScanShaped, Busy, Jobs, Calm,
              DayLoss, LossHalts, DrawnDown
<1>6. CASE BalancesRead
  BY <1>6 DEF BalancesRead, GoesOn, SameErrand, Calm, DayLoss, LossHalts, DrawnDown
<1>7. CASE GatePassed
  BY <1>7 DEF GatePassed, GoesOn, SameErrand, SameJudgement, Calm, DayLoss, LossHalts, DrawnDown
<1>8. CASE TicketPassed
  BY <1>8 DEF TicketPassed, GoesOn, SameErrand, Calm, DayLoss, LossHalts, DrawnDown
<1>9. QED
  BY <1>1, <1>2, <1>3, <1>4, <1>5, <1>6, <1>7, <1>8, HolderMoves

---------------------------------------------------------------------------
(* The invariant, and what follows from it.                                *)

LEMMA InitSound == Init => Sound
<1> SUFFICES ASSUME Init
             PROVE  Sound
  OBVIOUS
<1>1. PICK m \in Modes : settings = [mode |-> m, approval |-> m = "APPROVAL", stopped |-> FALSE]
  BY DEF Init
<1>2. scan = Idle /\ stopSeen = FALSE
  BY DEF Init
<1>3. SettingsTyped
  BY <1>1, <1>2 DEF SettingsTyped
<1>4. Entered = {} /\ EntriesShaped
  BY DEF Init, Entered, EntriesShaped
<1>5. scan.job = "none" /\ ScanShaped
  BY <1>2 DEF Idle, ScanShaped, Busy
<1>6. Calm
  BY <1>5 DEF Calm
<1>7. Asked
  BY <1>1, <1>5 DEF Asked
<1>8. QED
  BY <1>3, <1>4, <1>5, <1>6, <1>7 DEF Sound, Shaped

LEMMA SoundStays == Sound /\ [Next]_vars => Sound'
BY SettingsStay, EntriesStay, ScanStays, AskedStays, CalmStays DEF Sound, Shaped

\* In every state the invariant holds.
THEOREM AlwaysSound == Spec => []Sound
BY InitSound, SoundStays, PTL DEF Spec

\* A scan submits where an entry is tried, a ticket where it is submitted.
LEMMA WhoSubmits ==
    ASSUME Sound, [Next]_vars, NEW t \in Tickers, NEW job \in Jobs, Submits(job, t)
    PROVE  /\ job = "scan" =>
                \E kind \in Kinds : TryEntry(t, kind) /\ ~scan.approving
                                      /\ entry'[t].kind = kind /\ Ramped(SizeOf(t, kind)) > 0
           /\ job = "ticket" =>
                SubmitTicket /\ t = scan.order.ticker /\ entry'[t].kind = scan.order.kind
<1>1. Busy /\ scan.job = job /\ t \notin Entered /\ t \in Entered'
  BY DEF Submits, Entered
<1>2. entry'[t] # entry[t] /\ ~UNCHANGED entry
  BY DEF Submits
<1>3. EntriesShaped /\ ScanShaped
  BY DEF Sound, Shaped
<1>4. ASSUME NEW u, NEW kind, NEW n, NEW landed, NEW sure,
             entry' = [entry EXCEPT ![u] = NewEntry(kind, n, landed, sure)]
      PROVE  t = u /\ entry'[t].kind = kind
  <2>1. t = u
    BY <1>2, <1>3, <1>4 DEF EntriesShaped
  <2>2. NewEntry(kind, n, landed, sure).kind = kind
    BY DEF NewEntry
  <2>3. QED
    BY <1>3, <1>4, <2>1, <2>2 DEF EntriesShaped
<1>5. CASE SubmitTicket
  <2>1. scan.job = "ticket"
    BY <1>5 DEF SubmitTicket, Taking
  <2>2. PICK landed, sure :
          entry' = [entry EXCEPT ![scan.order.ticker] =
              NewEntry(scan.order.kind, scan.order.quantity, landed, sure)]
    BY <1>2, <1>5 DEF SubmitTicket, Accepted, Unclear
  <2>3. t = scan.order.ticker /\ entry'[t].kind = scan.order.kind
    BY <1>4, <2>2, Zenon
  <2>4. QED
    BY <1>1, <1>5, <2>1, <2>3
<1>6. ASSUME NEW u \in Tickers, NEW kind \in Kinds, TryEntry(u, kind)
      PROVE  /\ scan.job = "scan" /\ t = u
             /\ ~scan.approving /\ entry'[t].kind = kind /\ Ramped(SizeOf(t, kind)) > 0
  <2>1. scan.job = "scan" /\ Ramped(SizeOf(u, kind)) > 0
    BY <1>6 DEF TryEntry, Trading, Taking
  <2>2. ~scan.approving
    BY <1>2, <1>6 DEF TryEntry
  <2>3. PICK n, landed, sure : entry' = [entry EXCEPT ![u] = NewEntry(kind, n, landed, sure)]
    BY <1>2, <1>6 DEF TryEntry, Accepted, Unclear
  <2>4. t = u /\ entry'[t].kind = kind
    BY <1>4, <2>3, Zenon
  <2>5. QED
    BY <2>1, <2>2, <2>4
<1>7. ASSUME NEW u \in Tickers, Fill(u) \/ EndOrder(u) \/ ExitPosition(u) \/ Resolve(u)
                                \/ CloseFills(u)
      PROVE  FALSE
  <2>1. u \in Entered
    <3>1. CloseFills(u) => u \in Entered
      BY DEF CloseFills, Held
    <3>2. QED
      BY <1>7, <3>1 DEF Fill, EndOrder, ExitPosition, Resolve, Working, Positions
  <2>2. \E e : entry' = [entry EXCEPT ![u] = e]
    <3>1. Fill(u) => \E e : entry' = [entry EXCEPT ![u] = e]
      BY DEF Fill
    <3>2. EndOrder(u) => \E e : entry' = [entry EXCEPT ![u] = e]
      BY DEF EndOrder
    <3>3. ExitPosition(u) \/ Resolve(u) => \E e : entry' = [entry EXCEPT ![u] = e]
      BY DEF ExitPosition, Resolve
    <3>4. CloseFills(u) => \E e : entry' = [entry EXCEPT ![u] = e]
      BY DEF CloseFills
    <3>5. QED
      BY <1>7, <3>1, <3>2, <3>3, <3>4
  <2>3. QED
    BY <1>1, <1>2, <1>3, <2>1, <2>2 DEF EntriesShaped
<1>8. SubmitTicket \/ \E u \in Tickers, kind \in Kinds : TryEntry(u, kind)
  BY <1>2, <1>7, NextByActors, Frames DEF SubmitActs, OrderActs, vars
<1>9. QED
  BY <1>1, <1>5, <1>6, <1>8

\* A scan that was to ask for approval submits nothing itself.
THEOREM ApprovalAlwaysHolds == Spec => ApprovalHolds
<1>1. ASSUME Sound, [Next]_vars, NEW t \in Tickers, Submits("scan", t)
      PROVE  ~scan.toApprove
  <2>1. scan.job = "scan" /\ ~scan.approving
    BY <1>1, WhoSubmits DEF Submits, Jobs
  <2>2. QED
    BY <1>1, <2>1 DEF Sound, Asked
<1>2. Sound /\ [Next]_vars => [\A t \in Tickers : Submits("scan", t) => ~scan.toApprove]_vars
  BY <1>1
<1>3. QED
  BY <1>2, AlwaysSound, PTL DEF Spec, ApprovalHolds

\* Without equity there is no risk to take, and nothing is bought.
LEMMA NothingWithoutEquity ==
    ASSUME scan.equity = 0, NEW t \in Tickers, NEW kind \in Kinds
    PROVE  ~(Ramped(SizeOf(t, kind)) > 0)
<1>1. RiskPercent \in 0..100 /\ RampDivisor \in Nat \ {0}
  BY DollarAssumption, LimitAssumption
<1>2. PercentOf(RiskPercent, scan.equity) = 0
  BY <1>1 DEF PercentOf
<1>3. SizeOf(t, kind) = 0
  BY <1>2 DEF SizeOf
<1>4. 0 \div RampDivisor = 0
  BY <1>1
<1>5. QED
  BY <1>3, <1>4 DEF Ramped

\* Nothing is submitted on a day whose loss has reached the limit, as far as
\* the scan or the ticket has looked, nor below the drawdown limit.
THEOREM HaltsAlwaysHold == Spec => HaltsHold
<1>1. ASSUME Sound, [Next]_vars, NEW t \in Tickers, Submits("scan", t)
      PROVE  /\ ~LossHalts(scan.loss["cash"] + scan.loss["margin"]) \/ ~scan.marginRead
             /\ ~DrawnDown(scan.equity, peak)
  <2>1. PICK kind \in Kinds : TryEntry(t, kind) /\ Ramped(SizeOf(t, kind)) > 0
    BY <1>1, WhoSubmits DEF Jobs
  <2>2. scan.job = "scan" /\ scan.at = 7
    BY <1>1, <2>1, StepNumbers DEF TryEntry, Trading, Taking, Sound, Shaped, ScanShaped
  <2>3. ~LossHalts(DayLoss(scan.loss, scan.marginRead)) /\ ~DrawnDown(scan.equity, peak)
    BY <1>1, <2>1, <2>2, NothingWithoutEquity DEF Sound, Calm
  <2>4. QED
    BY <2>3 DEF DayLoss
<1>2. ASSUME Sound, [Next]_vars, NEW t \in Tickers, Submits("ticket", t)
      PROVE  /\ ~LossHalts(scan.loss[AccountOf(entry'[t].kind)]) \/ scan.equity = 0
             /\ ~DrawnDown(scan.equity, peak)
  <2>1. SubmitTicket /\ entry'[t].kind = scan.order.kind
    BY <1>2, WhoSubmits DEF Jobs
  <2>2. scan.job = "ticket" /\ scan.at = 6
    BY <1>2, <2>1, StepNumbers DEF SubmitTicket, Taking, Sound, Shaped, ScanShaped
  <2>3. QED
    BY <1>2, <2>1, <2>2 DEF Sound, Calm
<1>3. Sound /\ [Next]_vars =>
        [\A t \in Tickers :
           /\ Submits("scan", t) =>
                ~LossHalts(scan.loss["cash"] + scan.loss["margin"]) \/ ~scan.marginRead
           /\ Submits("ticket", t) =>
                ~LossHalts(scan.loss[AccountOf(entry'[t].kind)]) \/ scan.equity = 0
           /\ Submits("scan", t) \/ Submits("ticket", t) => ~DrawnDown(scan.equity, peak)]_vars
  BY <1>1, <1>2
<1>4. QED
  BY <1>3, AlwaysSound, PTL DEF Spec, HaltsHold

---------------------------------------------------------------------------
(* What the limits on dollars and positions rest on. The types come first, *)
(* with a full record of what the lock's holder has read; then, for each   *)
(* amount it sizes against, what of the entries the amount still covers.   *)

EntryTyped ==
    /\ entry \in [Tickers -> Entries \union {NoEntry}]
    /\ \A t \in Entered : entry[t].filled <= entry[t].quantity
Orders == [ticker : Tickers, kind : Kinds, quantity : Nat \ {0}]
TicketTyped ==
    /\ ticket = [t \in Tickers |-> ticket[t]]
    /\ \A t \in Tickers : ticket[t] # NoTicket =>
         ticket[t].kind \in Kinds /\ ticket[t].quantity \in Nat \ {0}
ScanType ==
    [job : Jobs, at : 1..7, order : Orders \union {NoTicket}, loss : [Accounts -> Nat],
     approving : BOOLEAN, toApprove : BOOLEAN, equity : Nat, marginRead : BOOLEAN,
     power : [Pools -> Amounts], free : [Accounts -> Amounts], held : [Accounts -> Nat],
     reserved : [Accounts -> Nat], exposure : [Tickers -> Nat], positions : Nat,
     uncounted : SUBSET Tickers, rested : BOOLEAN, candidates : SUBSET Tickers, slots : Nat]
ScanTyped ==
    Busy => /\ scan \in ScanType
            /\ scan.job = "ticket" => scan.at <= 6 /\ scan.order \in Orders
Typed == EntryTyped /\ TicketTyped /\ ScanTyped /\ "job" \in DOMAIN scan

\* The steps at which the positions and the orders of an account are read.
PositionsAt(a) == IF a = "margin" THEN 3 ELSE IF scan.job = "scan" THEN 2 ELSE 1
OrdersAt(a) ==
    IF scan.job = "scan" THEN IF a = "cash" THEN 4 ELSE 5
    ELSE IF a = "cash" THEN 2 ELSE 4
PositionsRead(a) == Busy /\ scan.at > PositionsAt(a)
OrdersRead(a) == Busy /\ scan.at > OrdersAt(a)
Trades == scan.job = "scan" /\ scan.at = 7

\* The dollars an entry has already bought, and those its order may still take.
HeldCosts ==
    [t \in Tickers |-> IF t \in Entered THEN Held(t) * UnitCost(t, entry[t].kind) ELSE 0]
LeftCosts ==
    [t \in Tickers |-> IF t \in Entered THEN Remainder(t) * UnitCost(t, entry[t].kind) ELSE 0]
LiveTickers == {t \in Tickers : Live(t)}
LiveOn == {t \in LiveTickers : PositionsRead(AccountOf(entry[t].kind))}

\* What a ticker is counted for covers its entry, unless it is uncounted.
Exposed ==
    \A a \in Accounts : \A t \in OnAccount(a) : Busy /\ t \notin scan.uncounted =>
        /\ PositionsRead(a) /\ ~OrdersRead(a) => HeldCosts[t] <= scan.exposure[t]
        /\ OrdersRead(a) => Costs[t] <= scan.exposure[t]
\* Between its two reads what the cash account was seen to hold covers what
\* it holds; after them its balance covers its entries and what it has free.
CashHeld ==
    scan.job = "scan" /\ PositionsRead("cash") /\ ~OrdersRead("cash") =>
        SumOver(HeldCosts, OnAccount("cash") \ scan.uncounted) <= scan.held["cash"]
CashFree ==
    scan.job = "scan" /\ scan.free["cash"] > 0 =>
        /\ OrdersRead("cash")
        /\ SumOver(Costs, OnAccount("cash") \ scan.uncounted) + scan.free["cash"]
             <= scan.equity + scan.reserved["cash"]
\* No pool is drawn on for more than the broker gives it; what a scan found
\* left in one is, apart from what it has reserved since.
CapitalHeld == \A p \in Pools : Committed({p}) <= Funds[p]
AccountOfPool(p) == IF p = "cash" THEN "cash" ELSE "margin"
Powered ==
    scan.job = "scan" /\ scan.at > 1 =>
        \A p \in Pools : scan.power[p] # Unknown =>
            Committed({p}) + scan.power[p] <= Funds[p] + scan.reserved[AccountOfPool(p)]
\* What is left to buy has no entry yet.
Vacant ==
    /\ Trades => scan.candidates \intersect Entered = {}
    /\ scan.job = "ticket" => scan.order.ticker \notin Entered
\* A ticket that passed its check still fits.
TicketFits ==
    scan.job = "ticket" /\ scan.at = 6 =>
        /\ \A d \in Room(scan.order.ticker, scan.equity, scan.exposure) : TicketCost <= d
        /\ Committed({PoolOf(scan.order.kind)}) + TicketCost <= Funds[PoolOf(scan.order.kind)]
        /\ MaxPositions > 0 => scan.positions < MaxPositions
\* Everything at the broker on the accounts read so far was counted as a
\* position; and once a scan trades there is a seat for each of its slots.
Seated ==
    Busy /\ ~scan.rested =>
        /\ ~Trades => Cardinality(LiveOn) <= scan.positions
        /\ Trades /\ MaxPositions > 0 /\ scan.slots > 0 =>
             Cardinality(LiveTickers) + scan.slots <= MaxPositions

Covered == Exposed /\ CashHeld /\ CashFree /\ Powered /\ TicketFits /\ Seated
Solvent == Typed /\ Vacant /\ CapitalHeld /\ Covered

---------------------------------------------------------------------------
(* Dollars.                                                                *)

\* The sums of the model are those the theorems about sums speak of.
LEMMA SumsAreSums == \A w, S : SumOver(w, S) = SumOf(w, S)
BY DEF SumOver, SumOf

\* Products and quotients, by which dollars and shares are converted.
LEMMA Times ==
    ASSUME NEW m \in Nat, NEW n \in Nat, NEW u \in Nat
    PROVE  /\ m * u \in Nat
           /\ m <= n => m * u <= n * u
           /\ (m + n) * u = m * u + n * u
           /\ m > 0 /\ u > 0 => m * u > 0
OBVIOUS
LEMMA Quotient ==
    ASSUME NEW d \in Nat, NEW u \in Nat \ {0}, NEW n \in Nat, n <= d \div u
    PROVE  n * u <= d /\ d \div u \in Nat
<1>1. d = u * (d \div u) + (d % u) /\ d \div u \in Nat /\ d % u \in Nat
  OBVIOUS
<1>2. n * u <= (d \div u) * u
  BY <1>1, Times
<1>3. (d \div u) * u <= d
  BY <1>1
<1>4. QED
  BY <1>1, <1>2, <1>3, Times

\* A percentage of an amount and the room a limit leaves are amounts.
LEMMA PercentIsNat ==
    ASSUME NEW p \in 0..100, NEW d \in Nat
    PROVE  PercentOf(p, d) \in Nat
<1>1. d * p \in Nat
  OBVIOUS
<1>2. (d * p) \div 100 \in Nat
  BY <1>1
<1>3. QED
  BY <1>2 DEF PercentOf

LEMMA KindsInPools ==
    /\ \A k \in Kinds : /\ AccountOf(k) \in Accounts /\ PoolOf(k) \in Pools
                        /\ AccountOfPool(PoolOf(k)) = AccountOf(k)
                        /\ PoolOf(k) = "cash" <=> AccountOf(k) = "cash"
                        /\ AccountOf(k) = "cash" <=> k = "long"
    /\ \A p \in Pools : AccountOfPool(p) \in Accounts
BY DEF Kinds, AccountOf, PoolOf, AccountOfPool, Accounts, Pools

LEMMA UnitIsNat ==
    ASSUME NEW t \in Tickers, NEW k \in Kinds
    PROVE  UnitCost(t, k) \in Nat \ {0} /\ RowCost(t, k) \in Nat
<1>1. Price[t] \in Nat \ {0} /\ Premium[t] \in Nat \ {0} /\ Multiplier \in Nat \ {0}
  BY DollarAssumption
<1>2. Premium[t] * Multiplier \in Nat \ {0}
  BY <1>1, Times
<1>3. QED
  BY <1>1, <1>2 DEF UnitCost, RowCost

\* An entry costs its shares and what its order may still buy.
Shares(e) == IF e.open THEN e.quantity ELSE e.filled
LEMMA EntryAmounts ==
    ASSUME EntryTyped, NEW t \in Entered
    PROVE  /\ t \in Tickers /\ entry[t] \in Entries
           /\ Held(t) \in Nat /\ Remainder(t) \in Nat
           /\ Held(t) + Remainder(t) = Shares(entry[t]) /\ Shares(entry[t]) \in Nat
           /\ Held(t) = entry[t].filled
           /\ UnitCost(t, entry[t].kind) \in Nat \ {0}
           /\ Cost(t) = Held(t) * UnitCost(t, entry[t].kind)
                          + Remainder(t) * UnitCost(t, entry[t].kind)
           /\ Cost(t) = Shares(entry[t]) * UnitCost(t, entry[t].kind)
           /\ HeldCosts[t] <= Cost(t)
<1>1. t \in Tickers /\ entry[t] \in Entries /\ entry[t].filled <= entry[t].quantity
  BY DEF EntryTyped, Entered
<1>2. /\ entry[t].kind \in Kinds /\ entry[t].quantity \in Nat
      /\ entry[t].filled \in Nat /\ entry[t].open \in BOOLEAN
  BY <1>1 DEF Entries
<1>3. /\ Held(t) = entry[t].filled
      /\ Remainder(t) = IF entry[t].open THEN entry[t].quantity - entry[t].filled ELSE 0
  BY DEF Held, Remainder, Working
<1>4. /\ Held(t) \in Nat /\ Remainder(t) \in Nat
      /\ Held(t) + Remainder(t) = Shares(entry[t]) /\ Shares(entry[t]) \in Nat
  BY <1>1, <1>2, <1>3 DEF Shares
<1>5. UnitCost(t, entry[t].kind) \in Nat \ {0}
  BY <1>1, <1>2, UnitIsNat
<1>6. Cost(t) = (Held(t) + Remainder(t)) * UnitCost(t, entry[t].kind)
  BY DEF Cost
<1>7. HeldCosts[t] = Held(t) * UnitCost(t, entry[t].kind)
  BY <1>1 DEF HeldCosts
<1> DEFINE u == UnitCost(t, entry[t].kind)
           h == Held(t)
           r == Remainder(t)
<1>8. h \in Nat /\ r \in Nat /\ u \in Nat
  BY <1>4, <1>5
<1>9. (h + r) * u = h * u + r * u /\ h * u \in Nat /\ r * u \in Nat
  <2> HIDE DEF h, r, u
  <2>1. QED
    BY <1>8, Times
<1>10. h * u <= h * u + r * u
  BY <1>9
<1>11. QED
  BY <1>1, <1>3, <1>4, <1>5, <1>6, <1>7, <1>9, <1>10

LEMMA CostsAreNat ==
    ASSUME EntryTyped
    PROVE  \A t \in Tickers :
               /\ Costs[t] \in Nat /\ HeldCosts[t] \in Nat /\ LeftCosts[t] \in Nat
               /\ Costs[t] = HeldCosts[t] + LeftCosts[t]
<1>1. SUFFICES ASSUME NEW t \in Tickers
               PROVE  /\ Costs[t] \in Nat /\ HeldCosts[t] \in Nat /\ LeftCosts[t] \in Nat
                      /\ Costs[t] = HeldCosts[t] + LeftCosts[t]
  OBVIOUS
<1>2. CASE t \in Entered
  <2> DEFINE h == Held(t) * UnitCost(t, entry[t].kind)
             l == Remainder(t) * UnitCost(t, entry[t].kind)
  <2>1. Cost(t) = h + l
    BY <1>2, EntryAmounts
  <2>2. HeldCosts[t] = h /\ LeftCosts[t] = l
    BY <1>2 DEF HeldCosts, LeftCosts
  <2>3. Held(t) \in Nat /\ Remainder(t) \in Nat /\ UnitCost(t, entry[t].kind) \in Nat
    BY <1>2, EntryAmounts
  <2>4. h \in Nat /\ l \in Nat
    BY <2>3, Times
  <2> HIDE DEF h, l
  <2>5. QED
    BY <2>1, <2>2, <2>4 DEF Costs
<1>3. CASE t \notin Entered
  BY <1>3 DEF Costs, Cost, HeldCosts, LeftCosts
<1>4. QED
  BY <1>2, <1>3

---------------------------------------------------------------------------
(* Where the lock's holder is.                                             *)

LEMMA ListPlaces ==
    /\ DOMAIN Steps("scan") = 1..7 /\ DOMAIN Steps("ticket") = 1..6
    /\ \A i \in 1..7, a \in Accounts :
         /\ Steps("scan")[i] = PositionsOf[a] <=> i = (IF a = "margin" THEN 3 ELSE 2)
         /\ Steps("scan")[i] = OrdersOf[a] <=> i = (IF a = "cash" THEN 4 ELSE 5)
    /\ \A i \in 1..6, a \in Accounts :
         /\ Steps("ticket")[i] = PositionsOf[a] <=> i = (IF a = "margin" THEN 3 ELSE 1)
         /\ Steps("ticket")[i] = OrdersOf[a] <=> i = (IF a = "cash" THEN 2 ELSE 4)
<1> DEFINE c == Steps("scan")
           k == Steps("ticket")
<1>1. /\ c[1] = "balances" /\ c[2] = "cash positions" /\ c[3] = "margin positions"
      /\ c[4] = "cash orders" /\ c[5] = "margin orders" /\ c[6] = "gate" /\ c[7] = "trade"
      /\ DOMAIN c = 1..7
  BY DEF Steps
<1>2. /\ k[1] = "cash positions" /\ k[2] = "cash orders" /\ k[3] = "margin positions"
      /\ k[4] = "margin orders" /\ k[5] = "balances" /\ k[6] = "submit"
      /\ DOMAIN k = 1..6
  BY DEF Steps
<1>3. /\ PositionsOf["cash"] = "cash positions" /\ PositionsOf["margin"] = "margin positions"
      /\ OrdersOf["cash"] = "cash orders" /\ OrdersOf["margin"] = "margin orders"
  BY DEF PositionsOf, OrdersOf
<1> HIDE DEF c, k
<1>4. ASSUME NEW i \in 1..7, NEW a \in Accounts
      PROVE  /\ c[i] = PositionsOf[a] <=> i = (IF a = "margin" THEN 3 ELSE 2)
             /\ c[i] = OrdersOf[a] <=> i = (IF a = "cash" THEN 4 ELSE 5)
  <2>1. i = 1 \/ i = 2 \/ i = 3 \/ i = 4 \/ i = 5 \/ i = 6 \/ i = 7
    OBVIOUS
  <2>2. QED
    BY <1>1, <1>3, <2>1 DEF Accounts
<1>5. ASSUME NEW i \in 1..6, NEW a \in Accounts
      PROVE  /\ k[i] = PositionsOf[a] <=> i = (IF a = "margin" THEN 3 ELSE 1)
             /\ k[i] = OrdersOf[a] <=> i = (IF a = "cash" THEN 2 ELSE 4)
  <2>1. i = 1 \/ i = 2 \/ i = 3 \/ i = 4 \/ i = 5 \/ i = 6
    OBVIOUS
  <2>2. QED
    BY <1>2, <1>3, <2>1 DEF Accounts
<1>6. QED
  BY <1>1, <1>2, <1>4, <1>5 DEF c, k

LEMMA ScanIsAt ==
    ASSUME ScanTyped, Busy
    PROVE  /\ scan.job \in Jobs /\ scan.at \in 1..7
           /\ scan.job = "ticket" => scan.at \in 1..6
           /\ \A a \in Accounts : /\ PositionsAt(a) \in 1..3 /\ OrdersAt(a) \in 2..5
                                  /\ PositionsAt(a) < OrdersAt(a)
                                  /\ scan.job = "ticket" => OrdersAt(a) <= 4
BY DEF ScanTyped, ScanType, PositionsAt, OrdersAt, Accounts, Jobs

LEMMA StepIsAt ==
    ASSUME ScanTyped
    PROVE  /\ Taking({"scan"}, "balances") => scan.job = "scan" /\ scan.at = 1
           /\ Taking({"scan"}, "gate") => scan.job = "scan" /\ scan.at = 6
           /\ Taking({"scan"}, "trade") => Trades
           /\ Taking({"ticket"}, "balances") => scan.job = "ticket" /\ scan.at = 5
           /\ Taking({"ticket"}, "submit") => scan.job = "ticket" /\ scan.at = 6
           /\ \A a \in Accounts :
                /\ Taking(Jobs, PositionsOf[a]) => scan.at = PositionsAt(a)
                /\ Taking(Jobs, OrdersOf[a]) => scan.at = OrdersAt(a)
                /\ Between(a) <=> PositionsRead(a) /\ ~OrdersRead(a)
<1>1. CASE ~Busy
  BY <1>1 DEF Taking, Between, PositionsRead
<1>2. CASE Busy /\ scan.job = "scan"
  <2>1. scan.at \in 1..7
    BY <1>2, ScanIsAt
  <2>2. /\ ~Taking({"ticket"}, "balances") /\ ~Taking({"ticket"}, "submit")
        /\ Taking({"scan"}, "balances") => scan.at = 1
        /\ Taking({"scan"}, "gate") => scan.at = 6
        /\ Taking({"scan"}, "trade") => Trades
    BY <1>2, <2>1, StepNumbers DEF Taking, Trades
  <2>3. ASSUME NEW a \in Accounts
        PROVE  /\ Taking(Jobs, PositionsOf[a]) => scan.at = PositionsAt(a)
               /\ Taking(Jobs, OrdersOf[a]) => scan.at = OrdersAt(a)
    BY <1>2, <2>1, ListPlaces DEF Taking, PositionsAt, OrdersAt
  <2>4. ASSUME NEW a \in Accounts
        PROVE  Between(a) <=> PositionsRead(a) /\ ~OrdersRead(a)
    <3>1. PositionsAt(a) \in 1..7 /\ OrdersAt(a) \in 1..7
      BY <1>2, ScanIsAt
    <3>2. \A i \in 1..7 : /\ Steps("scan")[i] = PositionsOf[a] <=> i = PositionsAt(a)
                          /\ Steps("scan")[i] = OrdersOf[a] <=> i = OrdersAt(a)
      BY <1>2, ListPlaces DEF PositionsAt, OrdersAt
    <3>3. Between(a) <=> PositionsAt(a) < scan.at /\ scan.at <= OrdersAt(a)
      BY <1>2, <3>1, <3>2, ListPlaces DEF Between
    <3>4. QED
      BY <1>2, <2>1, <3>1, <3>3 DEF PositionsRead, OrdersRead
  <2>5. QED
    BY <1>2, <2>2, <2>3, <2>4
<1>3. CASE Busy /\ scan.job = "ticket"
  <2>1. scan.at \in 1..6
    BY <1>3, ScanIsAt
  <2>2. /\ ~Taking({"scan"}, "balances") /\ ~Taking({"scan"}, "gate")
        /\ ~Taking({"scan"}, "trade")
        /\ Taking({"ticket"}, "balances") => scan.at = 5
        /\ Taking({"ticket"}, "submit") => scan.at = 6
    BY <1>3, <2>1, StepNumbers DEF Taking
  <2>3. ASSUME NEW a \in Accounts
        PROVE  /\ Taking(Jobs, PositionsOf[a]) => scan.at = PositionsAt(a)
               /\ Taking(Jobs, OrdersOf[a]) => scan.at = OrdersAt(a)
    BY <1>3, <2>1, ListPlaces DEF Taking, PositionsAt, OrdersAt
  <2>4. ASSUME NEW a \in Accounts
        PROVE  Between(a) <=> PositionsRead(a) /\ ~OrdersRead(a)
    <3>1. PositionsAt(a) \in 1..6 /\ OrdersAt(a) \in 1..6
      BY <1>3, ScanIsAt
    <3>2. \A i \in 1..6 : /\ Steps("ticket")[i] = PositionsOf[a] <=> i = PositionsAt(a)
                          /\ Steps("ticket")[i] = OrdersOf[a] <=> i = OrdersAt(a)
      BY <1>3, ListPlaces DEF PositionsAt, OrdersAt
    <3>3. Between(a) <=> PositionsAt(a) < scan.at /\ scan.at <= OrdersAt(a)
      BY <1>3, <3>1, <3>2, ListPlaces DEF Between
    <3>4. QED
      BY <1>3, <2>1, <3>1, <3>3 DEF PositionsRead, OrdersRead
  <2>5. QED
    BY <1>3, <2>2, <2>3, <2>4
<1>4. QED
  BY <1>1, <1>2, <1>3, ScanIsAt DEF Jobs

---------------------------------------------------------------------------
(* Orders and positions: each of their steps eases an entry or leaves all. *)

Eased(e, f) ==
    /\ f \in Entries /\ f.kind = e.kind /\ f.filled <= f.quantity
    /\ f.open => e.open
    /\ Shares(f) <= Shares(e)
    /\ f.filled > 0 => e.filled > 0 \/ e.open
Ease(t, f) ==
    LET e == entry[t]
        a == AccountOf(e.kind)
    IN  /\ t \in Entered /\ entry' = [entry EXCEPT ![t] = f]
        /\ f = NoEntry \/ Eased(e, f)
        /\ \/ scan' = scan /\ (f # NoEntry => f.filled <= e.filled \/ ~Between(a))
           \/ Between(a) /\ scan' = [scan EXCEPT !.uncounted = @ \union {t}]

LEMMA OrdersEase ==
    ASSUME Typed, OrderActs
    PROVE  \E t \in Tickers : \E f : Ease(t, f)
<1>1. ASSUME NEW t \in Tickers, Fill(t)
      PROVE  \E f : Ease(t, f)
  <2>1. t \in Entered /\ entry[t].open
    BY <1>1 DEF Fill, Working
  <2>2. entry[t] \in Entries /\ Held(t) = entry[t].filled
    BY <2>1, EntryAmounts DEF Typed
  <2> DEFINE e == entry[t]
             g(n) == [e EXCEPT !.filled = n, !.open = n < e.quantity]
  <2>3. PICK n \in Held(t) + 1 .. e.quantity : entry' = [entry EXCEPT ![t] = g(n)]
    <3>1. PICK n \in Held(t) + 1 .. e.quantity :
            entry' = [entry EXCEPT ![t].filled = n, ![t].open = n < entry[t].quantity]
      BY <1>1 DEF Fill
    <3>2. QED
      BY <1>1 DEF Fill
  <2>4. Eased(e, g(n))
    <3>1. e.filled \in Nat /\ e.quantity \in Nat /\ e.open
      BY <2>1, <2>2 DEF Entries
    <3>2. n \in Nat /\ n <= e.quantity
      BY <2>2, <3>1
    <3>3. g(n) \in Entries
      <4> DEFINE b == n < e.quantity
      <4>1. b \in BOOLEAN /\ g(n) = [e EXCEPT !.filled = n, !.open = b]
        BY <3>1, <3>2
      <4> HIDE DEF b, g
      <4>2. QED
        BY <2>2, <3>2, <4>1 DEF Entries
    <3>4. g(n).kind = e.kind /\ g(n).filled = n /\ g(n).quantity = e.quantity
          /\ g(n).open = (n < e.quantity)
      BY <2>2 DEF Entries
    <3>5. Shares(g(n)) <= Shares(e)
      BY <3>1, <3>2, <3>4 DEF Shares
    <3>6. QED
      BY <3>1, <3>2, <3>3, <3>4, <3>5 DEF Eased
  <2>5. \/ scan' = scan /\ ~Between(AccountOf(e.kind))
        \/ Between(AccountOf(e.kind)) /\ scan' = [scan EXCEPT !.uncounted = @ \union {t}]
    BY <1>1 DEF Fill
  <2>6. Ease(t, g(n))
    <3> HIDE DEF g
    <3>1. QED
      BY <2>1, <2>3, <2>4, <2>5 DEF Ease
  <2>7. QED
    BY <2>6
<1>2. ASSUME NEW t \in Tickers, NEW f, t \in Entered, entry' = [entry EXCEPT ![t] = f],
             scan' = scan, f = NoEntry \/ (Eased(entry[t], f) /\ f.filled <= entry[t].filled)
      PROVE  \E g : Ease(t, g)
  BY <1>2 DEF Ease
<1>3. ASSUME NEW t \in Tickers, t \in Entered
      PROVE  Ended(t) = NoEntry \/ (Eased(entry[t], Ended(t)) /\ Ended(t).filled <= entry[t].filled)
  <2> DEFINE e == entry[t]
             f == [e EXCEPT !.open = FALSE, !.quantity = e.filled]
  <2>1. e \in Entries /\ Held(t) = e.filled /\ e.filled <= e.quantity
    BY <1>3, EntryAmounts DEF Typed, EntryTyped
  <2>2. Ended(t) = NoEntry \/ Ended(t) = f
    BY <2>1 DEF Ended
  <2>3. e.filled \in Nat /\ e.quantity \in Nat /\ e.open \in BOOLEAN
    BY <2>1 DEF Entries
  <2>4. /\ f \in Entries /\ f.kind = e.kind /\ f.filled = e.filled
        /\ f.quantity = e.filled /\ f.open = FALSE
    BY <2>1, <2>3 DEF Entries
  <2>5. Eased(e, f) /\ f.filled <= e.filled
    BY <2>1, <2>3, <2>4 DEF Eased, Shares
  <2>6. QED
    BY <2>2, <2>5
<1>4. ASSUME NEW t \in Tickers, EndOrder(t)
      PROVE  \E f : Ease(t, f)
  BY <1>2, <1>3, <1>4 DEF EndOrder, Working
<1>5. ASSUME NEW t \in Tickers, ExitPosition(t)
      PROVE  \E f : Ease(t, f)
  BY <1>2, <1>5 DEF ExitPosition, Positions
<1>6. ASSUME NEW t \in Tickers, Resolve(t)
      PROVE  \E f : Ease(t, f)
  <2> DEFINE e == entry[t]
             f == [e EXCEPT !.sure = TRUE]
  <2>1. t \in Entered /\ scan' = scan
        /\ (entry' = [entry EXCEPT ![t] = f] \/ entry' = [entry EXCEPT ![t] = NoEntry])
    BY <1>6 DEF Resolve
  <2>2. e \in Entries /\ e.filled <= e.quantity /\ Shares(e) \in Nat
    BY <2>1, EntryAmounts DEF Typed, EntryTyped
  <2>3. /\ f \in Entries /\ f.kind = e.kind /\ f.filled = e.filled
        /\ f.quantity = e.quantity /\ f.open = e.open
    BY <2>2 DEF Entries
  <2>4. Eased(e, f) /\ f.filled <= e.filled
    <3>1. Shares(f) = Shares(e) /\ e.filled \in Nat
      BY <2>2, <2>3 DEF Shares, Entries
    <3>2. QED
      BY <2>2, <2>3, <3>1 DEF Eased
  <2>5. QED
    BY <1>2, <2>1, <2>4
<1>7. ASSUME NEW t \in Tickers, CloseFills(t)
      PROVE  \E f : Ease(t, f)
  <2> DEFINE e == entry[t]
             f(n) == [e EXCEPT !.quantity = @ - n, !.filled = @ - n]
  <2>1. PICK n \in 1..Held(t) : entry' = [entry EXCEPT ![t] = Sold(t, n)]
    BY <1>7 DEF CloseFills
  <2>2. t \in Entered /\ scan' = scan
    BY <1>7 DEF CloseFills, Held
  <2>3. Sold(t, n) = NoEntry \/ Sold(t, n) = f(n)
    BY DEF Sold
  <2>4. Eased(e, f(n)) /\ f(n).filled <= e.filled
    <3>1. e \in Entries /\ e.filled <= e.quantity /\ Held(t) = e.filled
      BY <2>2, EntryAmounts DEF Typed, EntryTyped
    <3>2. e.filled \in Nat /\ e.quantity \in Nat /\ e.open \in BOOLEAN
      BY <3>1 DEF Entries
    <3>3. e.quantity - n \in Nat /\ e.filled - n \in Nat /\ n \in Nat
      BY <3>1, <3>2
    <3>4. /\ f(n) \in Entries /\ f(n).kind = e.kind /\ f(n).filled = e.filled - n
          /\ f(n).quantity = e.quantity - n /\ f(n).open = e.open
      BY <3>1, <3>3 DEF Entries
    <3>5. QED
      BY <3>1, <3>2, <3>3, <3>4 DEF Eased, Shares
  <2>5. QED
    BY <1>2, <2>1, <2>2, <2>3, <2>4
<1>8. QED
  BY <1>1, <1>4, <1>5, <1>6, <1>7 DEF OrderActs

\* What easing an entry leaves of it, of the others and of the scan.
LEMMA EaseKeepsTypes ==
    ASSUME Typed, UNCHANGED ticket, NEW t \in Tickers, NEW f, Ease(t, f)
    PROVE  Typed'
<1>1. EntryTyped'
  BY DEF Ease, Eased, Typed, EntryTyped, Entered
<1>2. CASE scan' = scan
  BY <1>1, <1>2 DEF Typed, TicketTyped, ScanTyped, Busy
<1>3. CASE Busy /\ scan' = [scan EXCEPT !.uncounted = @ \union {t}]
  <2>1. scan' \in ScanType /\ scan'.job = scan.job /\ scan'.at = scan.at
        /\ scan'.order = scan.order /\ "job" \in DOMAIN scan'
    BY <1>3 DEF Typed, ScanTyped, ScanType
  <2>2. QED
    BY <1>1, <1>3, <2>1 DEF Typed, TicketTyped, ScanTyped, Busy
<1>4. QED
  BY <1>2, <1>3 DEF Ease, Between

LEMMA CostsAfter ==
    ASSUME EntryTyped', NEW t \in Tickers
    PROVE  /\ t \in Entered' =>
                /\ Costs'[t] = Shares(entry'[t]) * UnitCost(t, entry'[t].kind)
                /\ HeldCosts'[t] = entry'[t].filled * UnitCost(t, entry'[t].kind)
                /\ entry'[t] \in Entries /\ Shares(entry'[t]) \in Nat
                /\ HeldCosts'[t] <= Costs'[t]
           /\ t \notin Entered' => Costs'[t] = 0 /\ HeldCosts'[t] = 0
           /\ Costs'[t] \in Nat /\ HeldCosts'[t] \in Nat
<1>1. CASE t \notin Entered'
  BY <1>1 DEF Costs, Cost, HeldCosts
<1>2. CASE t \in Entered'
  <2> DEFINE e == entry'[t]
             u == UnitCost(t, entry'[t].kind)
  <2>1. e \in Entries /\ e.filled <= e.quantity
    BY <1>2 DEF EntryTyped, Entered
  <2>2. e.filled \in Nat /\ e.quantity \in Nat /\ e.open \in BOOLEAN /\ e.kind \in Kinds
    BY <2>1 DEF Entries
  <2>3. u \in Nat
    BY <2>2, UnitIsNat
  <2>4. /\ Held(t)' = e.filled
        /\ Remainder(t)' = IF e.open THEN e.quantity - e.filled ELSE 0
    BY <1>2 DEF Held, Remainder, Working
  <2>5. Held(t)' + Remainder(t)' = Shares(e) /\ Shares(e) \in Nat /\ e.filled <= Shares(e)
    BY <2>1, <2>2, <2>4 DEF Shares
  <2>6. Costs'[t] = Shares(e) * u /\ HeldCosts'[t] = e.filled * u
    BY <1>2, <2>4, <2>5 DEF Costs, Cost, HeldCosts
  <2>7. Shares(e) * u \in Nat /\ e.filled * u \in Nat /\ e.filled * u <= Shares(e) * u
    BY <2>2, <2>3, <2>5, Times
  <2>8. QED
    BY <1>2, <2>1, <2>5, <2>6, <2>7
<1>3. QED
  BY <1>1, <1>2

\* The same of the scan but that one more ticker may be uncounted.
SameScan ==
    /\ "job" \in DOMAIN scan'
    /\ scan'.job = scan.job
    /\ Busy =>
         /\ scan'.at = scan.at /\ scan'.order = scan.order /\ scan'.equity = scan.equity
         /\ scan'.power = scan.power /\ scan'.free = scan.free /\ scan'.held = scan.held
         /\ scan'.reserved = scan.reserved /\ scan'.exposure = scan.exposure
         /\ scan'.positions = scan.positions /\ scan'.rested = scan.rested
         /\ scan'.candidates = scan.candidates /\ scan'.slots = scan.slots
         /\ scan.uncounted \subseteq scan'.uncounted
\* Fewer entries, that cost no more, and that hold no more unless they are
\* uncounted or counted in full.
Fewer ==
    /\ Entered' \subseteq Entered
    /\ \A u \in Entered' : entry'[u].kind = entry[u].kind
    /\ LiveTickers' \subseteq LiveTickers
    /\ \A u \in Tickers : Costs'[u] <= Costs[u]
    /\ \A u \in Entered' : \/ HeldCosts'[u] <= HeldCosts[u]
                           \/ ~Between(AccountOf(entry[u].kind))
                           \/ Busy /\ u \in scan'.uncounted

LEMMA EaseFacts ==
    ASSUME Typed, Typed', NEW t \in Tickers, NEW f, Ease(t, f)
    PROVE  Fewer /\ SameScan
<1>1. t \in Entered /\ entry' = [entry EXCEPT ![t] = f] /\ (f = NoEntry \/ Eased(entry[t], f))
  BY DEF Ease
<1>2. entry'[t] = f /\ \A u \in Tickers \ {t} : entry'[u] = entry[u]
  BY <1>1 DEF Typed, EntryTyped
<1>3. Entered' \subseteq Entered
  BY <1>1, <1>2 DEF Entered
<1>4. ASSUME NEW u \in Entered' PROVE entry'[u].kind = entry[u].kind
  BY <1>1, <1>2, <1>4 DEF Eased, Entered
<1>5. LiveTickers' \subseteq LiveTickers
  <2>1. ASSUME NEW u \in Tickers, Live(u)' PROVE Live(u)
    <3>1. CASE u # t
      BY <1>2, <2>1, <3>1 DEF Live, Held, Working, Entered
    <3>2. CASE u = t
      <4>1. t \in Entered' /\ (f.filled > 0 \/ f.open)
        BY <1>2, <2>1, <3>2 DEF Live, Held, Working
      <4>2. Eased(entry[t], f)
        BY <1>1, <1>2, <4>1 DEF Entered
      <4>3. entry[t].filled > 0 \/ entry[t].open
        BY <4>1, <4>2 DEF Eased
      <4>4. QED
        BY <1>1, <3>2, <4>3 DEF Live, Held, Working
    <3>3. QED
      BY <3>1, <3>2
  <2>2. QED
    BY <2>1 DEF LiveTickers
<1>6. ASSUME NEW u \in Tickers PROVE Costs'[u] <= Costs[u]
  <2>1. Costs[u] \in Nat
    BY CostsAreNat DEF Typed
  <2>2. CASE u # t
    BY <1>2, <2>1, <2>2 DEF Costs, Cost, Held, Remainder, Working, Entered
  <2>3. CASE u = t
    <3>1. CASE t \notin Entered'
      BY <2>1, <2>3, <3>1, CostsAfter DEF Typed
    <3>2. CASE t \in Entered'
      <4>1. Eased(entry[t], f)
        BY <1>1, <1>2, <3>2 DEF Entered
      <4>2. Costs'[t] = Shares(f) * UnitCost(t, f.kind) /\ Shares(f) \in Nat
        BY <1>2, <3>2, CostsAfter DEF Typed
      <4>3. /\ Costs[t] = Shares(entry[t]) * UnitCost(t, entry[t].kind)
            /\ Shares(entry[t]) \in Nat /\ UnitCost(t, entry[t].kind) \in Nat
        BY <1>1, EntryAmounts DEF Typed, Costs
      <4>4. f.kind = entry[t].kind /\ Shares(f) <= Shares(entry[t])
        BY <4>1 DEF Eased
      <4>5. QED
        BY <2>3, <4>2, <4>3, <4>4, Times
    <3>3. QED
      BY <3>1, <3>2
  <2>4. QED
    BY <2>2, <2>3
<1>7. "job" \in DOMAIN scan /\ (Busy => scan \in ScanType)
  BY DEF Typed, ScanTyped
<1>8. /\ SameScan
      /\ \/ scan' = scan
               /\ (f # NoEntry => f.filled <= entry[t].filled
                                    \/ ~Between(AccountOf(entry[t].kind)))
         \/ Busy /\ t \in scan'.uncounted
  <2>1. CASE /\ scan' = scan
             /\ f # NoEntry => f.filled <= entry[t].filled
                                 \/ ~Between(AccountOf(entry[t].kind))
    BY <1>7, <2>1 DEF SameScan
  <2>2. CASE Busy /\ scan' = [scan EXCEPT !.uncounted = @ \union {t}]
    BY <1>7, <2>2 DEF SameScan, ScanType
  <2>3. QED
    BY <2>1, <2>2 DEF Ease, Between
<1>9. ASSUME NEW u \in Entered'
      PROVE  \/ HeldCosts'[u] <= HeldCosts[u]
             \/ ~Between(AccountOf(entry[u].kind))
             \/ Busy /\ u \in scan'.uncounted
  <2>0. u \in Tickers
    BY DEF Entered
  <2>1. CASE u # t
    <3>1. HeldCosts'[u] = HeldCosts[u]
      BY <1>2, <2>0, <2>1 DEF HeldCosts, Held, Entered
    <3>2. HeldCosts[u] \in Nat
      BY <2>0, CostsAreNat DEF Typed
    <3>3. QED
      BY <3>1, <3>2
  <2>2. CASE u = t
    <3>1. Eased(entry[t], f) /\ f # NoEntry
      BY <1>1, <1>2, <1>9, <2>2 DEF Entered
    <3>2. CASE f.filled <= entry[t].filled
      <4>1. HeldCosts'[t] = f.filled * UnitCost(t, f.kind)
        BY <1>2, <1>9, <2>2, CostsAfter DEF Typed
      <4>2. HeldCosts[t] = entry[t].filled * UnitCost(t, entry[t].kind)
        BY <1>1, EntryAmounts DEF HeldCosts, Typed
      <4>3. /\ f.kind = entry[t].kind /\ f.filled \in Nat /\ entry[t].filled \in Nat
            /\ UnitCost(t, entry[t].kind) \in Nat
        BY <1>1, <3>1, EntryAmounts DEF Eased, Entries, Typed
      <4>4. QED
        BY <2>2, <3>2, <4>1, <4>2, <4>3, Times
    <3>3. CASE ~(f.filled <= entry[t].filled)
      BY <1>8, <2>2, <3>1, <3>3 DEF Ease
    <3>4. QED
      BY <3>2, <3>3
  <2>3. QED
    BY <2>1, <2>2
<1>10. QED
  BY <1>3, <1>4, <1>5, <1>6, <1>8, <1>9 DEF Fewer

LEMMA OnAccounts ==
    ASSUME EntryTyped
    PROVE  /\ IsFiniteSet(Tickers) /\ Entered \in SUBSET Tickers
           /\ \A a : OnAccount(a) \in SUBSET Tickers
           /\ \A p : Within({p}) \in SUBSET Tickers
           /\ LiveTickers \in SUBSET Entered
           /\ \A t \in Entered : entry[t].kind \in Kinds
<1>1. LiveTickers \in SUBSET Entered
  BY DEF LiveTickers, Live, Held, Working
<1>2. ASSUME NEW t \in Entered PROVE entry[t].kind \in Kinds
  BY EntryAmounts DEF Entries
<1>3. QED
  BY <1>1, <1>2, TickersAssumption DEF Entered, OnAccount, Within

\* What a pool is drawn on for is an amount.
LEMMA CommittedIsNat ==
    ASSUME EntryTyped, NEW p PROVE Committed({p}) \in Nat
<1>1. SumOf(Costs, Within({p})) \in Nat
  BY OnAccounts, CostsAreNat, SumIsNat
<1>2. QED
  BY <1>1, SumsAreSums DEF Committed

LEMMA CommittedFalls ==
    ASSUME Typed, Typed', Fewer, NEW p
    PROVE  Committed({p})' <= Committed({p}) /\ Committed({p})' \in Nat
<1> DEFINE v == Costs'
           R == Within({p})'
<1>1. \A u \in Tickers : v[u] \in Nat /\ Costs[u] \in Nat /\ v[u] <= Costs[u]
  BY CostsAfter, CostsAreNat DEF Fewer, Typed
<1>2. R \subseteq Within({p}) /\ Within({p}) \in SUBSET Tickers /\ IsFiniteSet(Tickers)
  BY OnAccounts DEF Fewer, Within, Typed
<1>3. Committed({p})' = SumOver(v, R) /\ Committed({p}) = SumOver(Costs, Within({p}))
  BY DEF Committed
<1> HIDE DEF v, R
<1>4. SumOf(v, R) <= SumOf(Costs, Within({p})) /\ SumOf(v, R) \in Nat
  BY <1>1, <1>2, SumGrows, SumIsNat
<1>5. QED
  BY <1>3, <1>4, SumsAreSums

\* The steps of orders and positions keep every part of the invariant.
LEMMA FewerKeeps ==
    ASSUME Solvent, Typed', Fewer, SameScan
    PROVE  Solvent'
<1> USE DEF Solvent, Covered
<1>1. /\ Busy' <=> Busy
      /\ \A a : PositionsAt(a)' = PositionsAt(a) /\ OrdersAt(a)' = OrdersAt(a)
      /\ \A a : /\ PositionsRead(a)' <=> PositionsRead(a)
                /\ OrdersRead(a)' <=> OrdersRead(a)
      /\ Trades' <=> Trades
  <2>1. Busy' <=> Busy
    BY DEF SameScan, Busy
  <2>2. Trades => Busy
    BY DEF Trades, Busy
  <2>3. Trades' => Busy'
    BY DEF Trades, Busy
  <2>4. QED
    BY <2>1, <2>2, <2>3
       DEF SameScan, PositionsAt, OrdersAt, PositionsRead, OrdersRead, Trades
<1>2. \A t \in Tickers : /\ Costs'[t] <= Costs[t] /\ Costs'[t] \in Nat /\ Costs[t] \in Nat
                         /\ HeldCosts'[t] \in Nat /\ HeldCosts[t] \in Nat
                         /\ t \in Entered' => HeldCosts'[t] <= Costs'[t]
  BY CostsAfter, CostsAreNat DEF Fewer, Typed
<1>3. /\ IsFiniteSet(Tickers) /\ Entered \in SUBSET Tickers
      /\ \A a : OnAccount(a) \in SUBSET Tickers
      /\ \A a : OnAccount(a)' \subseteq OnAccount(a)
  BY OnAccounts DEF Fewer, OnAccount, Typed
<1>4. Busy => /\ scan.exposure \in [Tickers -> Nat] /\ scan.held \in [Accounts -> Nat]
              /\ scan.free \in [Accounts -> Amounts] /\ scan.power \in [Pools -> Amounts]
              /\ scan.reserved \in [Accounts -> Nat] /\ scan.equity \in Nat
              /\ scan.positions \in Nat /\ scan.slots \in Nat
  BY DEF Typed, ScanTyped, ScanType
<1>5. Vacant'
  <2>1. Trades' => scan'.candidates \intersect Entered' = {}
    <3>1. Trades => Busy
      BY DEF Trades, Busy
    <3>2. QED
      BY <1>1, <3>1 DEF Vacant, SameScan, Fewer
  <2>2. scan'.job = "ticket" => scan'.order.ticker \notin Entered'
    BY DEF Vacant, SameScan, Fewer, Busy
  <2>3. QED
    BY <2>1, <2>2 DEF Vacant
<1>6. CapitalHeld'
  <2>1. SUFFICES ASSUME NEW p \in Pools PROVE Committed({p})' <= Funds[p]
    BY DEF CapitalHeld
  <2>2. Committed({p})' <= Committed({p}) /\ Committed({p})' \in Nat /\ Committed({p}) \in Nat
    BY CommittedFalls, CommittedIsNat DEF Typed
  <2>3. Committed({p}) <= Funds[p] /\ Funds[p] \in Nat
    BY DollarAssumption DEF CapitalHeld
  <2>4. QED
    BY <2>2, <2>3
<1>7. Exposed'
  <2>1. SUFFICES ASSUME NEW a \in Accounts, NEW t \in OnAccount(a)', Busy, t \notin scan'.uncounted
                 PROVE  /\ PositionsRead(a) /\ ~OrdersRead(a) => HeldCosts'[t] <= scan.exposure[t]
                        /\ OrdersRead(a) => Costs'[t] <= scan.exposure[t]
    BY <1>1 DEF Exposed, SameScan
  <2>2. /\ t \in OnAccount(a) /\ t \in Tickers /\ t \notin scan.uncounted
        /\ t \in Entered' /\ AccountOf(entry[t].kind) = a
    BY <1>3, <2>1 DEF SameScan, OnAccount
  <2>3. scan.exposure[t] \in Nat
    BY <1>4, <2>1, <2>2
  <2>4. OrdersRead(a) => Costs'[t] <= scan.exposure[t]
    <3>1. OrdersRead(a) => Costs[t] <= scan.exposure[t]
      BY <2>1, <2>2 DEF Exposed
    <3>2. QED
      BY <1>2, <2>2, <2>3, <3>1
  <2>5. PositionsRead(a) /\ ~OrdersRead(a) => HeldCosts'[t] <= scan.exposure[t]
    <3>1. PositionsRead(a) /\ ~OrdersRead(a) => Between(a)
      BY StepIsAt DEF Typed
    <3>2. Between(a) => HeldCosts'[t] <= HeldCosts[t]
      BY <2>1, <2>2 DEF Fewer
    <3>3. PositionsRead(a) /\ ~OrdersRead(a) => HeldCosts[t] <= scan.exposure[t]
      BY <2>1, <2>2 DEF Exposed
    <3>4. QED
      BY <1>2, <2>2, <2>3, <3>1, <3>2, <3>3
  <2>6. QED
    BY <2>4, <2>5
<1>8. CashHeld'
  <2> DEFINE R == OnAccount("cash")' \ scan'.uncounted
             S == OnAccount("cash") \ scan.uncounted
             v == HeldCosts'
  <2>1. SUFFICES ASSUME scan.job = "scan", PositionsRead("cash"), ~OrdersRead("cash")
                 PROVE  SumOver(v, R) <= scan.held["cash"]
    BY <1>1 DEF CashHeld, SameScan, PositionsRead
  <2>2. Busy /\ Between("cash")
    BY <2>1, StepIsAt DEF PositionsRead, Typed, Accounts
  <2>3. R \subseteq S /\ S \in SUBSET Tickers
    BY <1>3, <2>2 DEF SameScan
  <2>4. \A u \in R : v[u] <= HeldCosts[u]
    <3>1. SUFFICES ASSUME NEW u \in R PROVE v[u] <= HeldCosts[u]
      OBVIOUS
    <3>2. u \in Entered' /\ AccountOf(entry[u].kind) = "cash" /\ u \notin scan'.uncounted
      BY <1>3, <2>3 DEF OnAccount
    <3>3. QED
      BY <2>2, <3>2 DEF Fewer
  <2>5. SumOver(HeldCosts, S) <= scan.held["cash"]
    BY <2>1 DEF CashHeld
  <2>6. \A u \in Tickers : v[u] \in Nat /\ HeldCosts[u] \in Nat
    BY <1>2
  <2> HIDE DEF R, S, v
  <2>7. /\ SumOf(v, R) <= SumOf(HeldCosts, S)
        /\ SumOf(v, R) \in Nat /\ SumOf(HeldCosts, S) \in Nat
    BY <1>3, <2>3, <2>4, <2>6, SumGrows, SumIsNat
  <2>8. scan.held["cash"] \in Nat
    BY <1>4, <2>2 DEF Accounts
  <2>9. QED
    BY <2>5, <2>7, <2>8, SumsAreSums
<1>9. CashFree'
  <2> DEFINE R == OnAccount("cash")' \ scan'.uncounted
             S == OnAccount("cash") \ scan.uncounted
             v == Costs'
  <2>1. SUFFICES ASSUME scan.job = "scan", OrdersRead("cash"), scan.free["cash"] > 0
                 PROVE  SumOver(v, R) + scan.free["cash"] <= scan.equity + scan.reserved["cash"]
    BY <1>1 DEF CashFree, SameScan, Busy
  <2>2. Busy
    BY <2>1 DEF OrdersRead
  <2>3. R \subseteq S /\ S \in SUBSET Tickers
    BY <1>3, <2>2 DEF SameScan
  <2>4. \A u \in Tickers : v[u] <= Costs[u] /\ v[u] \in Nat /\ Costs[u] \in Nat
    BY <1>2
  <2>5. SumOver(Costs, S) + scan.free["cash"] <= scan.equity + scan.reserved["cash"]
    BY <2>1 DEF CashFree
  <2> HIDE DEF R, S, v
  <2>6. /\ SumOf(v, R) <= SumOf(Costs, S)
        /\ SumOf(v, R) \in Nat /\ SumOf(Costs, S) \in Nat
    BY <1>3, <2>3, <2>4, SumGrows, SumIsNat
  <2>7. /\ scan.free["cash"] \in Int /\ scan.equity \in Nat /\ scan.reserved["cash"] \in Nat
    BY <1>4, <2>2 DEF Accounts, Amounts, Unknown
  <2>8. QED
    BY <2>5, <2>6, <2>7, SumsAreSums
<1>10. Powered'
  <2>1. SUFFICES ASSUME scan.job = "scan", scan.at > 1, NEW p \in Pools,
                        scan.power[p] # Unknown
                 PROVE  Committed({p})' + scan.power[p]
                          <= Funds[p] + scan.reserved[AccountOfPool(p)]
    BY DEF Powered, SameScan, Busy
  <2>2. Busy
    BY <2>1 DEF Busy
  <2>3. Committed({p})' <= Committed({p}) /\ Committed({p})' \in Nat /\ Committed({p}) \in Nat
    BY CommittedFalls, CommittedIsNat DEF Typed
  <2>4. Committed({p}) + scan.power[p] <= Funds[p] + scan.reserved[AccountOfPool(p)]
    BY <2>1 DEF Powered
  <2>5. /\ scan.power[p] \in Int /\ Funds[p] \in Nat
        /\ scan.reserved[AccountOfPool(p)] \in Nat
    BY <1>4, <2>2, KindsInPools, DollarAssumption DEF Amounts, Unknown
  <2>6. QED
    BY <2>3, <2>4, <2>5
<1>11. TicketFits'
  <2>1. SUFFICES ASSUME scan.job = "ticket", scan.at = 6, Busy, TicketCost' = TicketCost,
                        NEW p \in Pools, p = PoolOf(scan.order.kind)
                 PROVE  /\ \A d \in Room(scan.order.ticker, scan.equity, scan.exposure) :
                             TicketCost <= d
                        /\ Committed({p})' + TicketCost <= Funds[p]
                        /\ MaxPositions > 0 => scan.positions < MaxPositions
    <3>1. scan'.job = "ticket" => Busy
      BY DEF SameScan, Busy
    <3>2. Busy => TicketCost' = TicketCost
      BY DEF SameScan, TicketCost
    <3>3. Busy /\ scan.job = "ticket" => PoolOf(scan.order.kind) \in Pools
      BY KindsInPools DEF Typed, ScanTyped, Orders
    <3>4. QED
      BY <3>1, <3>2, <3>3 DEF TicketFits, SameScan
  <2>2. scan.order \in Orders
    BY <2>1 DEF Typed, ScanTyped
  <2>3. Committed({p})' <= Committed({p}) /\ Committed({p})' \in Nat /\ Committed({p}) \in Nat
    BY CommittedFalls, CommittedIsNat DEF Typed
  <2>4. TicketCost \in Nat /\ Funds[p] \in Nat
    BY <2>2, UnitIsNat, Times, DollarAssumption DEF TicketCost, Orders
  <2>5. Committed({p}) + TicketCost <= Funds[p]
    BY <2>1 DEF TicketFits
  <2>6. Committed({p})' + TicketCost <= Funds[p]
    BY <2>3, <2>4, <2>5
  <2>7. QED
    BY <2>1, <2>6 DEF TicketFits
<1>12. Seated'
  <2>1. SUFFICES ASSUME Busy, ~scan.rested
                 PROVE  /\ ~Trades => Cardinality(LiveOn') <= scan.positions
                        /\ Trades /\ MaxPositions > 0 /\ scan.slots > 0 =>
                             Cardinality(LiveTickers') + scan.slots <= MaxPositions
    BY <1>1 DEF Seated, SameScan
  <2>2. /\ LiveTickers' \subseteq LiveTickers /\ LiveTickers \in SUBSET Entered
        /\ LiveTickers' \in SUBSET Entered'
    BY OnAccounts DEF Fewer, Typed, LiveTickers, Live, Held, Working
  <2>3. LiveOn' \subseteq LiveOn
    BY <1>1, <2>2 DEF LiveOn, Fewer
  <2>4. /\ IsFiniteSet(LiveTickers) /\ IsFiniteSet(LiveOn)
    BY <1>3, <2>2, FS_Subset DEF LiveOn
  <2>5. /\ Cardinality(LiveTickers') <= Cardinality(LiveTickers)
        /\ Cardinality(LiveOn') <= Cardinality(LiveOn)
        /\ Cardinality(LiveTickers) \in Nat /\ Cardinality(LiveOn) \in Nat
        /\ Cardinality(LiveTickers') \in Nat /\ Cardinality(LiveOn') \in Nat
    BY <2>2, <2>3, <2>4, FS_Subset, FS_CardinalityType
  <2>6. /\ ~Trades => Cardinality(LiveOn) <= scan.positions
        /\ Trades /\ MaxPositions > 0 /\ scan.slots > 0 =>
             Cardinality(LiveTickers) + scan.slots <= MaxPositions
    BY <2>1 DEF Seated
  <2>7. scan.positions \in Nat /\ scan.slots \in Nat /\ MaxPositions \in Nat
    BY <1>4, <2>1, LimitAssumption
  <2>8. QED
    BY <2>5, <2>6, <2>7
<1>13. QED
  BY <1>5, <1>6, <1>7, <1>8, <1>9, <1>10, <1>11, <1>12

---------------------------------------------------------------------------
(* Steps that leave the entries alone.                                     *)

LEMMA SameEntries ==
    ASSUME UNCHANGED entry
    PROVE  /\ Costs' = Costs /\ HeldCosts' = HeldCosts /\ Entered' = Entered
           /\ LiveTickers' = LiveTickers
           /\ EntryTyped => EntryTyped'
           /\ \A a : OnAccount(a)' = OnAccount(a)
           /\ \A p : Committed({p})' = Committed({p})
           /\ CapitalHeld => CapitalHeld'
<1>1. /\ Costs' = Costs /\ HeldCosts' = HeldCosts /\ Entered' = Entered
      /\ LiveTickers' = LiveTickers /\ \A a : OnAccount(a)' = OnAccount(a)
  BY DEF Costs, HeldCosts, Entered, LiveTickers, OnAccount, Cost, Live, Held, Remainder, Working
<1>2. EntryTyped => EntryTyped'
  BY <1>1 DEF EntryTyped
<1>3. \A p : Committed({p})' = Committed({p})
  BY <1>1 DEF Committed, Within
<1>4. CapitalHeld => CapitalHeld'
  BY <1>3 DEF CapitalHeld
<1>5. QED
  BY <1>1, <1>2, <1>3, <1>4

\* Nothing is asked of a lock that nobody holds.
LEMMA IdleIsSolvent ==
    ASSUME Typed', CapitalHeld', ~Busy'
    PROVE  Solvent'
BY DEF Solvent, Covered, Vacant, Exposed, CashHeld, CashFree, Powered, TicketFits, Seated, Trades,
       Busy

\* Who takes the lock has read nothing yet.
LEMMA SnapshotIsSolvent ==
    ASSUME Solvent, SettingsTyped, SettingsTyped', UNCHANGED entry, TicketTyped',
           NEW job \in Jobs, NEW order \in Orders \union {NoTicket}, NEW b \in BOOLEAN,
           \/ scan' = [Snapshot(job, order) EXCEPT !.approving = b]
           \/ scan' = Snapshot(job, order),
           job = "ticket" => order \in Orders /\ order.ticker \notin Entered
    PROVE  Solvent'
<1> DEFINE asked == settings.mode = "APPROVAL" /\ ~stopSeen
<1>1. /\ scan'.job = job /\ scan'.at = 1 /\ scan'.order = order /\ scan'.positions = 0
      /\ scan'.free["cash"] = Unknown
      /\ "job" \in DOMAIN scan' /\ scan' \in ScanType
  <2>1. asked \in BOOLEAN
    BY DEF SettingsTyped
  <2> DEFINE nothing == [a \in Accounts |-> 0]
             unread == [a \in Accounts |-> Unknown]
             unknown == [p \in Pools |-> Unknown]
             none == [t \in Tickers |-> 0]
  <2>2. PICK c \in BOOLEAN : scan' = [job |-> job, at |-> 1, order |-> order,
                 loss |-> nothing, approving |-> c, toApprove |-> asked,
                 equity |-> 0, marginRead |-> TRUE, power |-> unknown, free |-> unread,
                 held |-> nothing, reserved |-> nothing, exposure |-> none, positions |-> 0,
                 uncounted |-> {}, rested |-> FALSE, candidates |-> {}, slots |-> 0]
    BY DEF Snapshot
  <2>3. /\ nothing \in [Accounts -> Nat] /\ unread \in [Accounts -> Amounts]
        /\ unknown \in [Pools -> Amounts] /\ none \in [Tickers -> Nat]
    BY DEF Amounts
  <2> HIDE DEF asked, nothing, unread, unknown, none
  <2>4. QED
    BY <2>1, <2>2, <2>3 DEF ScanType, unread, Accounts
<1>2. Busy' /\ ~Trades' /\ \A a : ~PositionsRead(a)' /\ ~OrdersRead(a)'
  BY <1>1 DEF Busy, Trades, Jobs, PositionsRead, OrdersRead, PositionsAt, OrdersAt
<1>3. Typed'
  BY <1>1, SameEntries DEF Typed, Solvent, ScanTyped, Jobs
<1>4. Vacant'
  BY <1>1, <1>2, SameEntries DEF Vacant
<1>5. Exposed' /\ CashHeld' /\ CashFree'
  BY <1>1, <1>2 DEF Exposed, CashHeld, CashFree, Unknown
<1>6. Powered' /\ TicketFits'
  BY <1>1 DEF Powered, TicketFits
<1>7. Seated'
  <2>1. LiveOn' = {}
    BY <1>2 DEF LiveOn
  <2>2. Cardinality(LiveOn') = 0
    BY <2>1, FS_EmptySet
  <2>3. QED
    BY <1>1, <1>2, <2>2 DEF Seated
<1>8. QED
  BY <1>3, <1>4, <1>5, <1>6, <1>7, SameEntries DEF Solvent, Covered

LEMMA StartKeeps ==
    ASSUME Solvent, SettingsTyped, SettingsTyped', StartActs
    PROVE  Solvent'
<1>1. UNCHANGED entry
  BY Frames
<1>2. CASE Begin
  <2> DEFINE b == settings.mode = "APPROVAL" /\ settings.approval
  <2>2. scan' = [Snapshot("scan", NoTicket) EXCEPT !.approving = b] /\ UNCHANGED ticket
    BY <1>2 DEF Begin
  <2>3. b \in BOOLEAN /\ TicketTyped'
    BY <2>2 DEF SettingsTyped, Solvent, Typed, TicketTyped
  <2> HIDE DEF b
  <2>4. QED
    BY <1>1, <2>2, <2>3, SnapshotIsSolvent DEF Jobs
<1>3. ASSUME NEW t \in Tickers, ticket' = [ticket EXCEPT ![t] = NoTicket] PROVE TicketTyped'
  BY <1>3 DEF Solvent, Typed, TicketTyped
<1>4. ASSUME TicketTyped', scan' = Idle PROVE Solvent'
  <2>1. ~Busy' /\ "job" \in DOMAIN scan'
    BY <1>4 DEF Idle, Busy
  <2>2. Typed'
    BY <1>1, <1>4, <2>1, SameEntries DEF Solvent, Typed, ScanTyped
  <2>3. QED
    BY <1>1, <2>1, <2>2, IdleIsSolvent, SameEntries DEF Solvent
<1>5. ASSUME NEW t \in Tickers, Approve(t) PROVE Solvent'
  <2> DEFINE o == [ticker |-> t, kind |-> ticket[t].kind, quantity |-> ticket[t].quantity]
  <2>1. TicketTyped' /\ o \in Orders
    BY <1>3, <1>5 DEF Approve, Solvent, Typed, TicketTyped, Orders
  <2>2. scan' = Idle \/ (t \notin Entered /\ scan' = Snapshot("ticket", o))
    BY <1>5 DEF Approve
  <2>4. o.ticker = t
    OBVIOUS
  <2> HIDE DEF o
  <2>5. t \notin Entered /\ scan' = Snapshot("ticket", o) => Solvent'
    BY <1>1, <2>1, <2>4, SnapshotIsSolvent DEF Jobs
  <2>6. QED
    BY <1>4, <2>1, <2>2, <2>5
<1>6. CASE EndScan
  BY <1>4, <1>6 DEF EndScan, Leave, Solvent, Typed, TicketTyped
<1>7. ASSUME NEW t \in Tickers, LapseTicket(t) PROVE Solvent'
  <2>1. TicketTyped' /\ ~Busy /\ scan' = scan
    BY <1>3, <1>7 DEF LapseTicket
  <2>2. ~Busy'
    BY <2>1 DEF Busy
  <2>3. Typed'
    BY <1>1, <2>1, <2>2, SameEntries DEF Solvent, Typed, ScanTyped
  <2>4. QED
    BY <1>1, <2>2, <2>3, IdleIsSolvent, SameEntries DEF Solvent
<1>8. QED
  BY <1>2, <1>5, <1>6, <1>7 DEF StartActs

---------------------------------------------------------------------------
(* What the lock's holder reads.                                           *)

LEMMA LeaveKeeps ==
    ASSUME Solvent, UNCHANGED <<entry, ticket>>, scan' = Idle
    PROVE  Solvent'
<1>1. ~Busy' /\ "job" \in DOMAIN scan'
  BY DEF Idle, Busy
<1>2. Typed'
  BY <1>1, SameEntries DEF Solvent, Typed, ScanTyped, TicketTyped
<1>3. QED
  BY <1>1, <1>2, IdleIsSolvent, SameEntries DEF Solvent

\* What a pool has left is what the broker gives it less what it is drawn on for.
LEMMA PowerLeft ==
    ASSUME Solvent, NEW p \in Pools
    PROVE  Power(p) \in Nat /\ Committed({p}) + Power(p) = Funds[p]
<1>1. Committed({p}) \in Nat /\ Committed({p}) <= Funds[p] /\ Funds[p] \in Nat
  BY CommittedIsNat, DollarAssumption DEF Solvent, CapitalHeld, Typed
<1>2. QED
  BY <1>1 DEF Power, AtLeastZero

LEMMA BalancesKeep ==
    ASSUME Solvent, ReadBalances
    PROVE  Solvent'
<1>1. UNCHANGED <<entry, ticket>> /\ Busy /\ scan.job = "scan" /\ scan.at = 1
  BY StepIsAt DEF ReadBalances, Taking, Solvent, Typed
<1>2. CASE scan' = Idle
  BY <1>1, <1>2, LeaveKeeps
<1>3. CASE scan' # Idle
  <2> DEFINE power(c, m) ==
               [p \in Pools |-> IF (IF p = "cash" THEN c ELSE m) THEN Power(p) ELSE Unknown]
  <2>1. PICK equity \in EquityLevels, loss \in Losses, c \in BOOLEAN, m \in BOOLEAN :
          scan' = [Next1(scan) EXCEPT !.equity = equity, !.loss = loss, !.marginRead = m,
                                      !.power = power(c, m)]
    BY <1>3 DEF ReadBalances, Leave
  <2> DEFINE q == power(c, m)
  <2>2. q \in [Pools -> Amounts] /\ \A p \in Pools : q[p] = Unknown \/ q[p] = Power(p)
    BY PowerLeft DEF Amounts
  <2>3. equity \in Nat /\ loss \in [Accounts -> Nat]
    BY DollarAssumption, LimitAssumption
  <2>4. scan \in ScanType
    BY <1>1 DEF Solvent, Typed, ScanTyped
  <2>5. scan' = [scan EXCEPT !.at = 2, !.equity = equity, !.loss = loss, !.marginRead = m,
                             !.power = q]
    BY <1>1, <2>1 DEF Next1
  <2> HIDE DEF power, q
  <2>6. /\ scan' \in ScanType /\ "job" \in DOMAIN scan'
        /\ scan'.job = "scan" /\ scan'.at = 2 /\ scan'.power = q
        /\ scan'.reserved = scan.reserved /\ scan'.free = scan.free
        /\ scan'.positions \in Nat /\ scan'.reserved \in [Accounts -> Nat]
    <3>1. scan' \in ScanType
      <4>1. q \in [Pools -> Amounts] /\ m \in BOOLEAN
        BY <2>2
      <4> DEFINE r1 == [scan EXCEPT !.at = 2]
                 r2 == [r1 EXCEPT !.equity = equity]
                 r3 == [r2 EXCEPT !.loss = loss]
                 r4 == [r3 EXCEPT !.marginRead = m]
      <4>2. scan' = [r4 EXCEPT !.power = q]
        BY <2>5
      <4>3. r1 \in ScanType
        BY <2>4 DEF ScanType
      <4> HIDE DEF r1
      <4>4. r2 \in ScanType
        BY <2>3, <4>3 DEF ScanType
      <4> HIDE DEF r2
      <4>5. r3 \in ScanType
        BY <2>3, <4>4 DEF ScanType
      <4> HIDE DEF r3
      <4>6. r4 \in ScanType
        BY <4>1, <4>5 DEF ScanType
      <4> HIDE DEF r4
      <4>7. QED
        BY <4>1, <4>2, <4>6 DEF ScanType
    <3>2. scan'.at = 2 /\ scan'.power = q /\ scan'.job = "scan" /\ scan'.reserved = scan.reserved
          /\ scan'.free = scan.free
      BY <1>1, <2>4, <2>5 DEF ScanType
    <3>3. QED
      BY <3>1, <3>2 DEF ScanType
  <2>7. Typed'
    BY <1>1, <2>6, SameEntries DEF Solvent, Typed, ScanTyped, TicketTyped
  <2>8. Busy' /\ ~Trades' /\ \A a : ~PositionsRead(a)' /\ ~OrdersRead(a)'
    BY <2>6 DEF Busy, Trades, PositionsRead, OrdersRead, PositionsAt, OrdersAt
  <2>9. Vacant' /\ Exposed' /\ CashHeld' /\ CashFree' /\ TicketFits'
    <3>1. ~OrdersRead("cash")
      BY <1>1 DEF OrdersRead, OrdersAt
    <3>2. ~(scan'.free["cash"] > 0)
      BY <1>1, <2>6, <3>1 DEF Solvent, Covered, CashFree
    <3>3. QED
      BY <2>6, <2>8, <3>2 DEF Vacant, Exposed, CashHeld, CashFree, TicketFits
  <2>10. Powered'
    <3>1. SUFFICES ASSUME NEW p \in Pools, q[p] # Unknown
                   PROVE  Committed({p}) + q[p] <= Funds[p] + scan'.reserved[AccountOfPool(p)]
      BY <1>1, <2>6, SameEntries DEF Powered
    <3>2. scan'.reserved[AccountOfPool(p)] \in Nat
      BY <2>6, KindsInPools
    <3>3. Committed({p}) + Power(p) = Funds[p] /\ Funds[p] \in Nat
      BY PowerLeft, DollarAssumption
    <3>4. q[p] = Power(p)
      BY <2>2, <3>1
    <3>5. QED
      BY <3>2, <3>3, <3>4
  <2>11. Seated'
    <3>1. LiveOn' = {}
      BY <2>8 DEF LiveOn
    <3>2. Cardinality(LiveOn') = 0
      BY <3>1, FS_EmptySet
    <3>3. QED
      BY <2>6, <2>8, <3>2 DEF Seated
  <2>12. QED
    BY <1>1, <2>7, <2>9, <2>10, <2>11, SameEntries DEF Solvent, Covered
<1>4. QED
  BY <1>2, <1>3

\* A list read moves on to the next step, and no other list becomes read.
LEMMA ListsReadAfter ==
    ASSUME Typed, Typed', Busy, scan'.job = scan.job, scan'.at = scan.at + 1, NEW a \in Accounts,
           scan.at = PositionsAt(a) \/ scan.at = OrdersAt(a)
    PROVE  /\ Busy' /\ ~Trades /\ ~Trades'
           /\ \A b \in Accounts :
                /\ PositionsAt(b)' = PositionsAt(b) /\ OrdersAt(b)' = OrdersAt(b)
                /\ PositionsRead(b)' <=> PositionsRead(b) \/ scan.at = PositionsAt(b)
                /\ OrdersRead(b)' <=> OrdersRead(b) \/ scan.at = OrdersAt(b)
                /\ b # a => scan.at # OrdersAt(b) /\ scan.at # PositionsAt(b)
           /\ scan.at = PositionsAt(a) => scan.at # OrdersAt(a)
           /\ scan.at = PositionsAt(a) => ~PositionsRead(a) /\ ~OrdersRead(a)
           /\ scan.at = OrdersAt(a) => PositionsRead(a) /\ ~OrdersRead(a)
           /\ scan'.job = "scan" => scan'.at \in 2..6
           /\ scan'.job = "ticket" => scan'.at \in 2..5
<1>1. scan.at \in 1..7 /\ scan.job \in Jobs /\ Busy'
  BY ScanIsAt DEF Typed, Busy
<1>2. QED
  BY <1>1 DEF Accounts, Jobs, PositionsAt, OrdersAt, PositionsRead, OrdersRead, Trades

\* The rows of the positions and of the buy orders of an account, in dollars.
LEMMA RowsAreNat ==
    ASSUME EntryTyped, NEW a \in Accounts
    PROVE  /\ HeldRows(a) \in Nat /\ BuyRows(a) \in Nat
           /\ a = "cash" => /\ SumOf(HeldCosts, OnAccount(a)) = HeldRows(a)
                            /\ SumOf(LeftCosts, OnAccount(a)) = BuyRows(a)
<1> DEFINE S == OnAccount(a)
           B == Buys(a)
           v == [t \in S |-> Held(t) * RowCost(t, entry[t].kind)]
           w == [t \in B |-> Remainder(t) * RowCost(t, entry[t].kind)]
<1>1. IsFiniteSet(S) /\ IsFiniteSet(B) /\ B \subseteq S /\ S \subseteq Entered /\ S \subseteq Tickers
  <2>1. IsFiniteSet(S) /\ B \subseteq S /\ S \subseteq Entered /\ S \subseteq Tickers
    BY OnAccounts, FS_Subset DEF Buys, OnAccount
  <2> HIDE DEF S, B
  <2>2. QED
    BY <2>1, FS_Subset
<1>2. \A t \in S : v[t] \in Nat
  <2>1. SUFFICES ASSUME NEW t \in S PROVE Held(t) * RowCost(t, entry[t].kind) \in Nat
    OBVIOUS
  <2>2. Held(t) \in Nat /\ RowCost(t, entry[t].kind) \in Nat
    BY <1>1, EntryAmounts, OnAccounts, UnitIsNat
  <2>3. QED
    BY <2>2, Times
<1>3. \A t \in B : w[t] \in Nat
  <2>1. SUFFICES ASSUME NEW t \in B PROVE Remainder(t) * RowCost(t, entry[t].kind) \in Nat
    OBVIOUS
  <2>2. Remainder(t) \in Nat /\ RowCost(t, entry[t].kind) \in Nat
    BY <1>1, EntryAmounts, OnAccounts, UnitIsNat
  <2>3. QED
    BY <2>2, Times
<1>4. HeldRows(a) = SumOf(v, S) /\ BuyRows(a) = SumOf(w, B)
  BY SumsAreSums DEF HeldRows, BuyRows
<1>5. SumOf(v, S) \in Nat /\ SumOf(w, B) \in Nat
  <2> HIDE DEF S, B, v, w
  <2>1. QED
    BY <1>1, <1>2, <1>3, SumIsNat
<1>6. ASSUME a = "cash"
      PROVE  /\ SumOf(HeldCosts, S) = SumOf(v, S)
             /\ SumOf(LeftCosts, S) = SumOf(w, B)
  <2>1. \A t \in S : entry[t].kind = "long"
    BY <1>1, <1>6, OnAccounts, KindsInPools DEF OnAccount
  <2>2. \A t \in S : HeldCosts[t] = v[t]
    <3>1. \A t \in S : RowCost(t, entry[t].kind) = UnitCost(t, entry[t].kind)
      BY <2>1 DEF RowCost, UnitCost
    <3>2. QED
      BY <1>1, <3>1 DEF HeldCosts
  <2>3. B = {t \in S : Working(t)}
    BY <2>1 DEF Buys
  <2>4. SumOf(HeldCosts, S) <= SumOf(v, S) /\ SumOf(v, S) <= SumOf(HeldCosts, S)
        /\ SumOf(HeldCosts, S) \in Nat
    <3>1. S \in SUBSET S
      OBVIOUS
    <3>2. \A t \in S : HeldCosts[t] \in Nat /\ HeldCosts[t] <= v[t] /\ v[t] <= HeldCosts[t]
      BY <1>2, <2>2
    <3> HIDE DEF S, v
    <3>3. QED
      BY <1>1, <1>2, <3>1, <3>2, SumGrows, SumIsNat
  <2>5. /\ \A t \in B : LeftCosts[t] = w[t]
        /\ \A t \in S \ B : LeftCosts[t] = 0
        /\ \A t \in S : LeftCosts[t] \in Nat
    <3>1. \A t \in S : RowCost(t, entry[t].kind) = UnitCost(t, entry[t].kind)
      BY <2>1 DEF RowCost, UnitCost
    <3>2. \A t \in B : LeftCosts[t] = w[t]
      BY <1>1, <3>1 DEF LeftCosts
    <3>3. ASSUME NEW t \in S \ B PROVE LeftCosts[t] = 0
      <4>1. Remainder(t) = 0 /\ UnitCost(t, entry[t].kind) \in Nat
        BY <1>1, <2>3, EntryAmounts DEF Remainder
      <4>2. LeftCosts[t] = 0 * UnitCost(t, entry[t].kind)
        BY <1>1, <4>1 DEF LeftCosts
      <4>3. QED
        BY <4>1, <4>2
    <3>4. \A t \in S : LeftCosts[t] \in Nat
      BY <1>1, CostsAreNat
    <3>5. QED
      BY <3>2, <3>3, <3>4
  <2>6. SumOf(LeftCosts, S) = SumOf(LeftCosts, B)
    <3>1. S \in SUBSET S /\ B \in SUBSET S
      BY <1>1
    <3> HIDE DEF S, B, w
    <3>2. QED
      BY <1>1, <2>5, <3>1, SumSkips
  <2>7. SumOf(LeftCosts, B) <= SumOf(w, B) /\ SumOf(w, B) <= SumOf(LeftCosts, B)
        /\ SumOf(LeftCosts, B) \in Nat
    <3>1. B \in SUBSET B
      OBVIOUS
    <3>2. \A t \in B : LeftCosts[t] \in Nat /\ LeftCosts[t] <= w[t] /\ w[t] <= LeftCosts[t]
      BY <1>1, <1>3, <2>5
    <3> HIDE DEF B, w
    <3>3. QED
      BY <1>1, <1>3, <3>1, <3>2, SumGrows, SumIsNat
  <2>8. QED
    BY <1>5, <2>4, <2>6, <2>7
<1>7. QED
  BY <1>4, <1>5, <1>6

\* What a step that reads leaves as it is.
SameOtherwise ==
    /\ "job" \in DOMAIN scan'
    /\ scan'.job = scan.job /\ scan'.at = scan.at + 1 /\ scan'.order = scan.order
    /\ scan'.equity = scan.equity /\ scan'.power = scan.power
    /\ scan'.reserved = scan.reserved /\ scan'.slots = scan.slots
    /\ scan'.candidates = scan.candidates

LEMMA PositionsFields ==
    ASSUME Solvent, NEW a \in Accounts, ReadPositions(a), scan' # Idle
    PROVE  /\ scan' \in ScanType /\ SameOtherwise
           /\ scan'.free = scan.free /\ scan'.uncounted = scan.uncounted
           /\ scan'.held = [scan.held EXCEPT ![a] = HeldRows(a)]
           /\ scan'.exposure = [t \in Tickers |-> scan.exposure[t] +
                                  IF t \in OnAccount(a) THEN HeldCosts[t] ELSE 0]
           /\ scan'.positions = scan.positions + Cardinality(OnAccount(a) \intersect Positions)
           /\ scan'.rested = (scan.rested \/ \E t \in OnAccount(a) : Working(t) /\ Held(t) = 0)
<1> DEFINE h == [scan.held EXCEPT ![a] = HeldRows(a)]
           x == [t \in Tickers |-> scan.exposure[t] +
                   IF t \in OnAccount(a) THEN HeldCosts[t] ELSE 0]
           n == scan.positions + Cardinality(OnAccount(a) \intersect Positions)
           r == scan.rested \/ \E t \in OnAccount(a) : Working(t) /\ Held(t) = 0
           k == scan.at + 1
<1>1. Busy /\ scan \in ScanType /\ scan.at = PositionsAt(a)
  BY StepIsAt DEF ReadPositions, Taking, Solvent, Typed, ScanTyped
<1>2. scan.at \in 1..3
  BY <1>1, ScanIsAt DEF Solvent, Typed
<1>3. h \in [Accounts -> Nat]
  BY <1>1, RowsAreNat DEF ScanType, Solvent, Typed
<1>4. x \in [Tickers -> Nat]
  <2>1. \A t \in Tickers : scan.exposure[t] \in Nat /\ HeldCosts[t] \in Nat
    BY <1>1, CostsAreNat DEF ScanType, Solvent, Typed
  <2>2. QED
    BY <2>1
<1>5. n \in Nat
  <2>1. IsFiniteSet(OnAccount(a))
    BY OnAccounts, FS_Subset DEF Solvent, Typed
  <2>2. Cardinality(OnAccount(a) \intersect Positions) \in Nat
    BY <2>1, FS_Subset, FS_CardinalityType
  <2>3. QED
    BY <1>1, <2>2 DEF ScanType
<1>6. r \in BOOLEAN
  BY <1>1 DEF ScanType
<1>7. scan' = [scan EXCEPT !.at = k, !.held = h, !.exposure = x, !.positions = n, !.rested = r]
  <2>1. x = [t \in Tickers |-> scan.exposure[t] +
               IF t \in OnAccount(a) THEN Held(t) * UnitCost(t, entry[t].kind) ELSE 0]
    BY DEF HeldCosts, OnAccount
  <2>2. scan' = [Next1(scan) EXCEPT !.held = [@ EXCEPT ![a] = HeldRows(a)],
                   !.exposure = x, !.positions = @ + Cardinality(OnAccount(a) \intersect Positions),
                   !.rested = @ \/ \E t \in OnAccount(a) : Working(t) /\ Held(t) = 0]
    BY <2>1 DEF ReadPositions, Leave
  <2> HIDE DEF x
  <2>3. QED
    BY <1>1, <2>2 DEF Next1, ScanType
<1>8. k \in 1..7
  BY <1>2
<1> HIDE DEF h, x, n, r, k
<1>9. /\ scan'.free = scan.free /\ scan'.uncounted = scan.uncounted
      /\ scan'.held = h /\ scan'.exposure = x /\ scan'.positions = n /\ scan'.rested = r
      /\ "job" \in DOMAIN scan' /\ scan'.at = k
      /\ scan'.job = scan.job /\ scan'.order = scan.order
      /\ scan'.equity = scan.equity /\ scan'.power = scan.power
      /\ scan'.reserved = scan.reserved /\ scan'.slots = scan.slots
      /\ scan'.candidates = scan.candidates
  BY <1>1, <1>7 DEF ScanType
<1>10. scan' \in ScanType
  <2> DEFINE r1 == [scan EXCEPT !.at = k]
             r2 == [r1 EXCEPT !.held = h]
             r3 == [r2 EXCEPT !.exposure = x]
             r4 == [r3 EXCEPT !.positions = n]
  <2>1. scan' = [r4 EXCEPT !.rested = r]
    BY <1>7
  <2>2. r1 \in ScanType
    BY <1>1, <1>8 DEF ScanType
  <2> HIDE DEF r1
  <2>3. r2 \in ScanType
    BY <1>3, <2>2 DEF ScanType
  <2> HIDE DEF r2
  <2>4. r3 \in ScanType
    BY <1>4, <2>3 DEF ScanType
  <2> HIDE DEF r3
  <2>5. r4 \in ScanType
    BY <1>5, <2>4 DEF ScanType
  <2> HIDE DEF r4
  <2>6. QED
    BY <1>6, <2>1, <2>5 DEF ScanType
<1>11. QED
  BY <1>9, <1>10 DEF SameOtherwise, h, x, n, r, k

LEMMA PositionsKeep ==
    ASSUME Solvent, NEW a \in Accounts, ReadPositions(a)
    PROVE  Solvent'
<1> USE DEF Solvent, Covered
<1>1. /\ UNCHANGED <<entry, ticket>> /\ Busy /\ scan.at = PositionsAt(a) /\ scan \in ScanType
      /\ scan.job = "ticket" => scan.order \in Orders
  BY StepIsAt DEF ReadPositions, Taking, Typed, ScanTyped
<1>2. CASE scan' = Idle
  BY <1>1, <1>2, LeaveKeeps
<1>3. CASE scan' # Idle
  <2> DEFINE x == [t \in Tickers |-> scan.exposure[t] +
                     IF t \in OnAccount(a) THEN HeldCosts[t] ELSE 0]
             n == Cardinality(OnAccount(a) \intersect Positions)
  <2>1. /\ scan' \in ScanType /\ SameOtherwise
        /\ scan'.free = scan.free /\ scan'.uncounted = scan.uncounted
        /\ scan'.held = [scan.held EXCEPT ![a] = HeldRows(a)]
        /\ scan'.exposure = x
        /\ scan'.positions = scan.positions + n
        /\ scan'.rested = (scan.rested \/ \E t \in OnAccount(a) : Working(t) /\ Held(t) = 0)
    BY <1>3, PositionsFields
  <2>2. \A t \in Tickers : /\ scan.exposure[t] \in Nat /\ HeldCosts[t] \in Nat /\ Costs[t] \in Nat
                           /\ x[t] = scan.exposure[t] + IF t \in OnAccount(a) THEN HeldCosts[t] ELSE 0
    BY <1>1, CostsAreNat DEF Typed, ScanType
  <2> HIDE DEF x
  <2>3. Typed'
    <3>1. scan.job = "ticket" => scan'.at <= 6
      BY <1>1, <2>1, ScanIsAt DEF Typed, SameOtherwise
    <3>2. QED
      BY <1>1, <2>1, <3>1, SameEntries DEF Typed, ScanTyped, TicketTyped, SameOtherwise
  <2>4. /\ Busy' /\ ~Trades /\ ~Trades'
        /\ \A b \in Accounts :
             /\ PositionsRead(b)' <=> PositionsRead(b) \/ b = a
             /\ OrdersRead(b)' <=> OrdersRead(b)
        /\ ~OrdersRead(a) /\ ~PositionsRead(a)
        /\ scan'.job = "scan" => scan'.at \in 2..6
        /\ scan'.job = "ticket" => scan'.at \in 2..5
    BY <1>1, <2>1, <2>3, ListsReadAfter DEF SameOtherwise
  <2>5. Vacant'
    BY <1>1, <2>1, <2>4, SameEntries DEF Vacant, SameOtherwise
  <2>6. Exposed'
    <3>1. SUFFICES ASSUME NEW b \in Accounts, NEW t \in OnAccount(b), t \notin scan.uncounted
                   PROVE  /\ PositionsRead(b)' /\ ~OrdersRead(b)' => HeldCosts[t] <= x[t]
                          /\ OrdersRead(b)' => Costs[t] <= x[t]
      BY <1>1, <2>1, <2>4, SameEntries DEF Exposed
    <3>2. t \in Tickers
      BY OnAccounts DEF Typed
    <3>3. CASE b = a
      <4>1. x[t] = scan.exposure[t] + HeldCosts[t] /\ ~OrdersRead(b)'
        BY <2>2, <2>4, <3>1, <3>2, <3>3
      <4>2. QED
        BY <2>2, <3>2, <4>1
    <3>4. CASE b # a
      <4>1. x[t] = scan.exposure[t]
        BY <2>2, <3>1, <3>2, <3>4 DEF OnAccount
      <4>2. QED
        BY <1>1, <2>4, <3>1, <3>4, <4>1 DEF Exposed
    <3>5. QED
      BY <3>3, <3>4
  <2>7. CashHeld'
    <3>1. SUFFICES ASSUME scan.job = "scan", PositionsRead("cash")', ~OrdersRead("cash")'
                   PROVE  SumOver(HeldCosts, OnAccount("cash") \ scan.uncounted) <= scan'.held["cash"]
      BY <1>1, <2>1, SameEntries DEF CashHeld, SameOtherwise
    <3>2. "cash" \in Accounts /\ scan.held \in [Accounts -> Nat]
      BY <1>1 DEF Accounts, ScanType
    <3>3. CASE a = "cash"
      <4> DEFINE S == OnAccount(a)
      <4>1. SumOf(HeldCosts, S) = HeldRows(a) /\ HeldRows(a) \in Nat
        BY <3>3, RowsAreNat DEF Typed
      <4>2. /\ S \ scan.uncounted \in SUBSET S /\ S \in SUBSET Tickers /\ IsFiniteSet(Tickers)
        BY OnAccounts DEF Typed
      <4>3. \A t \in Tickers : HeldCosts[t] <= HeldCosts[t]
        BY <2>2
      <4> HIDE DEF S
      <4>4. SumOf(HeldCosts, S \ scan.uncounted) <= SumOf(HeldCosts, S)
        BY <2>2, <4>2, <4>3, SumGrows
      <4>5. scan'.held["cash"] = HeldRows(a)
        BY <2>1, <3>2, <3>3
      <4>6. QED
        BY <3>3, <4>1, <4>4, <4>5, SumsAreSums DEF S
    <3>4. CASE a # "cash"
      <4>1. PositionsRead("cash") /\ ~OrdersRead("cash") /\ scan'.held["cash"] = scan.held["cash"]
        BY <2>1, <2>4, <3>1, <3>2, <3>4
      <4>2. QED
        BY <3>1, <4>1 DEF CashHeld
    <3>5. QED
      BY <3>3, <3>4
  <2>8. CashFree'
    <3>1. OrdersRead("cash")' <=> OrdersRead("cash")
      BY <2>4 DEF Accounts
    <3>2. QED
      BY <1>1, <2>1, <3>1, SameEntries DEF CashFree, SameOtherwise
  <2>9. Powered'
    <3>1. scan.job = "scan" => scan.at > 1
      BY <1>1 DEF PositionsAt
    <3>2. QED
      BY <1>1, <2>1, <3>1, SameEntries DEF Powered, SameOtherwise
  <2>10. TicketFits'
    BY <2>4 DEF TicketFits
  <2>11. Seated'
    <3>1. SUFFICES ASSUME ~scan.rested, ~\E t \in OnAccount(a) : Working(t) /\ Held(t) = 0
                   PROVE  Cardinality(LiveOn') <= scan.positions + n
      BY <2>1, <2>4 DEF Seated
    <3> DEFINE P == OnAccount(a) \intersect Positions
    <3>2. LiveOn' \subseteq LiveOn \union P
      <4>1. SUFFICES ASSUME NEW t \in LiveOn' PROVE t \in LiveOn \union P
        OBVIOUS
      <4>2. t \in LiveTickers /\ t \in Entered
        <5>1. t \in LiveTickers'
          BY DEF LiveOn
        <5>2. QED
          BY <1>1, <5>1, SameEntries, OnAccounts DEF Typed
      <4>3. PICK b \in Accounts : b = AccountOf(entry[t].kind)
        BY <4>2, OnAccounts, KindsInPools DEF Typed
      <4>4. PositionsRead(b)'
        BY <1>1, <4>3 DEF LiveOn, PositionsRead, PositionsAt
      <4>5. CASE b = a
        <5>1. t \in OnAccount(a) /\ Held(t) \in Nat /\ Live(t)
          BY <4>2, <4>3, <4>5, EntryAmounts DEF OnAccount, LiveTickers, Typed
        <5>2. Held(t) > 0
          BY <3>1, <5>1 DEF Live
        <5>3. QED
          BY <4>2, <5>1, <5>2 DEF Positions
      <4>6. CASE b # a
        <5>1. PositionsRead(b)
          BY <2>4, <4>4, <4>6
        <5>2. QED
          BY <4>2, <4>3, <5>1 DEF LiveOn
      <4>7. QED
        BY <4>5, <4>6
    <3>3. IsFiniteSet(LiveOn) /\ IsFiniteSet(P)
      BY OnAccounts, FS_Subset DEF Typed, LiveOn
    <3>4. /\ Cardinality(LiveOn \union P) <= Cardinality(LiveOn) + Cardinality(P)
          /\ IsFiniteSet(LiveOn \union P)
          /\ Cardinality(LiveOn) \in Nat /\ Cardinality(P) \in Nat
          /\ Cardinality(LiveOn \union P) \in Nat
      <4>1. /\ IsFiniteSet(LiveOn \union P)
            /\ Cardinality(LiveOn \union P) =
                 Cardinality(LiveOn) + Cardinality(P) - Cardinality(LiveOn \intersect P)
        BY <3>3, FS_Union
      <4>2. IsFiniteSet(LiveOn \intersect P)
        BY <3>3, FS_Subset
      <4>3. /\ Cardinality(LiveOn) \in Nat /\ Cardinality(P) \in Nat
            /\ Cardinality(LiveOn \intersect P) \in Nat /\ Cardinality(LiveOn \union P) \in Nat
        BY <3>3, <4>1, <4>2, FS_CardinalityType
      <4>4. QED
        BY <4>1, <4>3
    <3>5. /\ Cardinality(LiveOn') <= Cardinality(LiveOn \union P)
          /\ Cardinality(LiveOn') \in Nat
      BY <3>2, <3>4, FS_Subset, FS_CardinalityType
    <3>6. Cardinality(LiveOn) <= scan.positions /\ scan.positions \in Nat
      BY <1>1, <2>4, <3>1 DEF Seated, ScanType
    <3> HIDE DEF P
    <3>7. n = Cardinality(P)
      BY DEF P
    <3> HIDE DEF n
    <3>8. QED
      BY <3>4, <3>5, <3>6, <3>7
  <2>12. QED
    BY <1>1, <2>3, <2>5, <2>6, <2>7, <2>8, <2>9, <2>10, <2>11, SameEntries
<1>4. QED
  BY <1>2, <1>3

\* What reading the orders of an account makes of the scan, when the list is
\* read and when it is not.
OrdersCounted(a) ==
    /\ scan'.held = [scan.held EXCEPT ![a] = 0]
    /\ scan'.free =
         [scan.free EXCEPT ![a] = AtLeastZero(EquityOf(a) - scan.held[a] - BuyRows(a))]
    /\ scan'.exposure = [t \in Tickers |-> scan.exposure[t] +
                           IF t \in Buys(a) THEN LeftCosts[t] ELSE 0]
    /\ scan'.uncounted = scan.uncounted \union {t \in OnAccount(a) \ Buys(a) : Working(t)}
OrdersMissed(a) ==
    /\ scan'.held = scan.held /\ scan'.free = scan.free /\ scan'.exposure = scan.exposure
    /\ scan'.uncounted = scan.uncounted \union {t \in OnAccount(a) : Working(t)}

LEMMA OrdersFields ==
    ASSUME Solvent, NEW a \in Accounts, ReadOrders(a), scan' # Idle
    PROVE  /\ scan' \in ScanType /\ SameOtherwise
           /\ scan'.positions = scan.positions /\ scan'.rested = scan.rested
           /\ OrdersCounted(a) \/ OrdersMissed(a)
<1> DEFINE h == [scan.held EXCEPT ![a] = 0]
           x == [t \in Tickers |-> scan.exposure[t] + IF t \in Buys(a) THEN LeftCosts[t] ELSE 0]
           f == [scan.free EXCEPT ![a] = AtLeastZero(EquityOf(a) - scan.held[a] - BuyRows(a))]
           u == scan.uncounted \union {t \in OnAccount(a) \ Buys(a) : Working(t)}
           w == scan.uncounted \union {t \in OnAccount(a) : Working(t)}
           k == scan.at + 1
<1>1. Busy /\ scan \in ScanType /\ scan.at = OrdersAt(a)
  BY StepIsAt DEF ReadOrders, Taking, Solvent, Typed, ScanTyped
<1>2. k \in 1..7
  BY <1>1, ScanIsAt DEF Solvent, Typed
<1>3. h \in [Accounts -> Nat]
  BY <1>1 DEF ScanType
<1>4. x \in [Tickers -> Nat]
  <2>1. \A t \in Tickers : scan.exposure[t] \in Nat /\ LeftCosts[t] \in Nat
    BY <1>1, CostsAreNat DEF ScanType, Solvent, Typed
  <2>2. QED
    BY <2>1
<1>5. f \in [Accounts -> Amounts]
  <2>1. /\ EquityOf(a) \in Nat /\ scan.held[a] \in Nat /\ BuyRows(a) \in Nat
    BY <1>1, RowsAreNat, DollarAssumption DEF ScanType, EquityOf, Solvent, Typed
  <2>2. AtLeastZero(EquityOf(a) - scan.held[a] - BuyRows(a)) \in Nat
    BY <2>1 DEF AtLeastZero
  <2>3. QED
    BY <1>1, <2>2 DEF ScanType, Amounts
<1>6. u \in SUBSET Tickers /\ w \in SUBSET Tickers
  BY <1>1, OnAccounts DEF ScanType, Solvent, Typed
<1>7. \/ scan' = [scan EXCEPT !.at = k, !.held = h, !.free = f, !.exposure = x, !.uncounted = u]
      \/ scan' = [scan EXCEPT !.at = k, !.uncounted = w]
  <2>1. x = [t \in Tickers |-> scan.exposure[t] +
               IF t \in Buys(a) THEN Remainder(t) * UnitCost(t, entry[t].kind) ELSE 0]
    BY DEF LeftCosts, OnAccount, Buys
  <2>2. scan' = WithOrders(a) \/ scan' = WithoutOrders(a)
    BY DEF ReadOrders, Leave
  <2>3. WithoutOrders(a) = [scan EXCEPT !.at = k, !.uncounted = w]
    BY <1>1 DEF WithoutOrders, Next1, ScanType
  <2>4. WithOrders(a) =
          [Next1(scan) EXCEPT !.held = [@ EXCEPT ![a] = 0],
             !.free = [@ EXCEPT ![a] = AtLeastZero(EquityOf(a) - scan.held[a] - BuyRows(a))],
             !.exposure = x, !.uncounted = @ \union {t \in OnAccount(a) \ Buys(a) : Working(t)}]
    BY <2>1 DEF WithOrders
  <2> DEFINE z == AtLeastZero(EquityOf(a) - scan.held[a] - BuyRows(a))
  <2> HIDE DEF x, z
  <2>5. WithOrders(a) =
          [scan EXCEPT !.at = k, !.held = h, !.free = f, !.exposure = x, !.uncounted = u]
    BY <1>1, <2>4 DEF Next1, ScanType, z
  <2>6. QED
    BY <2>2, <2>3, <2>5
<1> HIDE DEF h, x, f, u, w, k
<1>8. CASE scan' = [scan EXCEPT !.at = k, !.uncounted = w]
  <2>1. scan' \in ScanType
    BY <1>1, <1>2, <1>6, <1>8 DEF ScanType
  <2>2. SameOtherwise /\ scan'.positions = scan.positions /\ scan'.rested = scan.rested
    BY <1>1, <1>8 DEF ScanType, SameOtherwise, k
  <2>3. OrdersMissed(a)
    BY <1>1, <1>8 DEF ScanType, OrdersMissed, w
  <2>4. QED
    BY <2>1, <2>2, <2>3
<1>9. CASE scan' = [scan EXCEPT !.at = k, !.held = h, !.free = f, !.exposure = x, !.uncounted = u]
  <2>1. /\ scan'.held = h /\ scan'.free = f /\ scan'.exposure = x /\ scan'.uncounted = u
        /\ "job" \in DOMAIN scan' /\ scan'.at = k
        /\ scan'.job = scan.job /\ scan'.order = scan.order
        /\ scan'.equity = scan.equity /\ scan'.power = scan.power
        /\ scan'.reserved = scan.reserved /\ scan'.slots = scan.slots
        /\ scan'.candidates = scan.candidates
        /\ scan'.positions = scan.positions /\ scan'.rested = scan.rested
    BY <1>1, <1>9 DEF ScanType
  <2>2. scan' \in ScanType
    <3> DEFINE r1 == [scan EXCEPT !.at = k]
               r2 == [r1 EXCEPT !.held = h]
               r3 == [r2 EXCEPT !.free = f]
               r4 == [r3 EXCEPT !.exposure = x]
    <3>1. scan' = [r4 EXCEPT !.uncounted = u]
      BY <1>9
    <3>2. r1 \in ScanType
      BY <1>1, <1>2 DEF ScanType
    <3> HIDE DEF r1
    <3>3. r2 \in ScanType
      BY <1>3, <3>2 DEF ScanType
    <3> HIDE DEF r2
    <3>4. r3 \in ScanType
      BY <1>5, <3>3 DEF ScanType
    <3> HIDE DEF r3
    <3>5. r4 \in ScanType
      BY <1>4, <3>4 DEF ScanType
    <3> HIDE DEF r4
    <3>6. QED
      BY <1>6, <3>1, <3>5 DEF ScanType
  <2>3. QED
    BY <2>1, <2>2 DEF SameOtherwise, OrdersCounted, h, x, f, u, k
<1>10. QED
  BY <1>7, <1>8, <1>9

LEMMA OrdersKeep ==
    ASSUME Solvent, NEW a \in Accounts, ReadOrders(a)
    PROVE  Solvent'
<1> USE DEF Solvent, Covered
<1>1. /\ UNCHANGED <<entry, ticket>> /\ Busy /\ scan.at = OrdersAt(a) /\ scan \in ScanType
      /\ scan.job = "ticket" => scan.order \in Orders
  BY StepIsAt DEF ReadOrders, Taking, Typed, ScanTyped
<1>2. CASE scan' = Idle
  BY <1>1, <1>2, LeaveKeeps
<1>3. CASE scan' # Idle
  <2>1. /\ scan' \in ScanType /\ SameOtherwise
        /\ scan'.positions = scan.positions /\ scan'.rested = scan.rested
        /\ OrdersCounted(a) \/ OrdersMissed(a)
    BY <1>3, OrdersFields
  <2>2. \A t \in Tickers : /\ scan.exposure[t] \in Nat /\ HeldCosts[t] \in Nat
                           /\ LeftCosts[t] \in Nat /\ Costs[t] = HeldCosts[t] + LeftCosts[t]
    BY <1>1, CostsAreNat DEF Typed, ScanType
  <2>3. Typed'
    <3>1. scan.job = "ticket" => scan'.at <= 6
      BY <1>1, <2>1, ScanIsAt DEF Typed, SameOtherwise
    <3>2. QED
      BY <1>1, <2>1, <3>1, SameEntries DEF Typed, ScanTyped, TicketTyped, SameOtherwise
  <2>4. /\ Busy' /\ ~Trades /\ ~Trades'
        /\ \A b \in Accounts :
             /\ PositionsRead(b)' <=> PositionsRead(b)
             /\ OrdersRead(b)' <=> OrdersRead(b) \/ b = a
        /\ ~OrdersRead(a) /\ PositionsRead(a)
        /\ scan'.job = "scan" => scan'.at \in 2..6
        /\ scan'.job = "ticket" => scan'.at \in 2..5
    <3>1. /\ Busy' /\ ~Trades /\ ~Trades'
          /\ \A b \in Accounts :
               /\ PositionsRead(b)' <=> PositionsRead(b) \/ scan.at = PositionsAt(b)
               /\ OrdersRead(b)' <=> OrdersRead(b) \/ scan.at = OrdersAt(b)
               /\ b # a => scan.at # OrdersAt(b) /\ scan.at # PositionsAt(b)
          /\ ~OrdersRead(a) /\ PositionsRead(a)
          /\ scan'.job = "scan" => scan'.at \in 2..6
          /\ scan'.job = "ticket" => scan'.at \in 2..5
      BY <1>1, <2>1, <2>3, ListsReadAfter DEF SameOtherwise
    <3>2. scan.at # PositionsAt(a)
      BY <1>1, ScanIsAt DEF Typed
    <3>3. QED
      BY <1>1, <3>1, <3>2
  <2>5. scan.uncounted \subseteq scan'.uncounted
    BY <2>1 DEF OrdersCounted, OrdersMissed
  <2>6. Vacant'
    BY <1>1, <2>1, <2>4, SameEntries DEF Vacant, SameOtherwise
  <2>7. Exposed'
    <3>1. SUFFICES ASSUME NEW b \in Accounts, NEW t \in OnAccount(b), t \notin scan'.uncounted
                   PROVE  /\ PositionsRead(b)' /\ ~OrdersRead(b)' => HeldCosts[t] <= scan'.exposure[t]
                          /\ OrdersRead(b)' => Costs[t] <= scan'.exposure[t]
      BY <1>1, <2>1, <2>4, SameEntries DEF Exposed
    <3>2. t \in Tickers /\ t \in Entered /\ t \notin scan.uncounted
      BY <2>5, <3>1, OnAccounts DEF Typed, OnAccount
    <3>3. CASE b = a
      <4>1. HeldCosts[t] <= scan.exposure[t] /\ OrdersRead(b)'
        BY <1>1, <2>4, <3>1, <3>2, <3>3 DEF Exposed
      <4>2. CASE t \in Buys(a) /\ OrdersCounted(a)
        <5>1. scan'.exposure[t] = scan.exposure[t] + LeftCosts[t]
          BY <3>2, <4>2 DEF OrdersCounted
        <5>2. QED
          BY <2>2, <3>2, <4>1, <5>1
      <4>3. CASE ~(t \in Buys(a) /\ OrdersCounted(a))
        <5>1. ~Working(t) /\ scan'.exposure[t] = scan.exposure[t]
          <6>1. CASE OrdersCounted(a)
            <7>1. ~Working(t)
              BY <3>1, <3>2, <3>3, <4>3, <6>1 DEF OrdersCounted
            <7>2. scan'.exposure[t] = scan.exposure[t]
              BY <2>2, <3>2, <4>3, <6>1 DEF OrdersCounted
            <7>3. QED
              BY <7>1, <7>2
          <6>2. CASE OrdersMissed(a)
            BY <3>1, <3>2, <3>3, <6>2 DEF OrdersMissed
          <6>3. QED
            BY <2>1, <6>1, <6>2
        <5>2. Remainder(t) = 0 /\ UnitCost(t, entry[t].kind) \in Nat
          BY <3>2, <5>1, EntryAmounts DEF Remainder, Typed
        <5>3. LeftCosts[t] = 0
          BY <3>2, <5>2 DEF LeftCosts
        <5>4. QED
          BY <2>2, <3>2, <4>1, <5>1, <5>3
      <4>4. QED
        BY <4>2, <4>3
    <3>4. CASE b # a
      <4>1. t \notin Buys(a)
        BY <3>1, <3>4 DEF Buys, OnAccount
      <4>2. scan'.exposure[t] = scan.exposure[t]
        BY <2>1, <2>2, <3>2, <4>1 DEF OrdersCounted, OrdersMissed
      <4>3. QED
        BY <1>1, <2>4, <3>1, <3>2, <3>4, <4>2 DEF Exposed
    <3>5. QED
      BY <3>3, <3>4
  <2>8. CashHeld'
    <3>1. scan.job = "scan" => OrdersRead("cash")'
      BY <1>1, <2>4 DEF Accounts, OrdersRead, OrdersAt
    <3>2. QED
      BY <2>1, <3>1 DEF CashHeld, SameOtherwise
  <2>9. CashFree'
    <3>1. SUFFICES ASSUME scan.job = "scan", scan'.free["cash"] > 0
                   PROVE  /\ OrdersRead("cash")'
                          /\ SumOver(Costs, OnAccount("cash") \ scan'.uncounted)
                               + scan'.free["cash"] <= scan.equity + scan.reserved["cash"]
      BY <1>1, <2>1, SameEntries DEF CashFree, SameOtherwise
    <3> DEFINE S == OnAccount("cash") \ scan.uncounted
               R == OnAccount("cash") \ scan'.uncounted
    <3>2. R \in SUBSET S /\ S \in SUBSET Tickers /\ IsFiniteSet(Tickers)
          /\ OnAccount("cash") \in SUBSET Tickers /\ S \in SUBSET OnAccount("cash")
      BY <2>5, OnAccounts DEF Typed
    <3>3. /\ SumOf(Costs, R) <= SumOf(Costs, S)
          /\ SumOf(Costs, R) \in Nat /\ SumOf(Costs, S) \in Nat
          /\ SumOf(Costs, S) = SumOf(HeldCosts, S) + SumOf(LeftCosts, S)
          /\ SumOf(LeftCosts, S) <= SumOf(LeftCosts, OnAccount("cash"))
          /\ SumOf(HeldCosts, S) \in Nat /\ SumOf(LeftCosts, S) \in Nat
      <4>1. \A t \in Tickers : /\ HeldCosts[t] \in Nat /\ LeftCosts[t] \in Nat /\ Costs[t] \in Nat
                               /\ Costs[t] <= Costs[t] /\ LeftCosts[t] <= LeftCosts[t]
                               /\ Costs[t] = HeldCosts[t] + LeftCosts[t]
        BY <2>2
      <4> HIDE DEF S, R
      <4>2. SumOf(Costs, S) = SumOf(HeldCosts, S) + SumOf(LeftCosts, S)
        BY <3>2, <4>1, SumSplits
      <4>3. SumOf(Costs, R) <= SumOf(Costs, S)
        BY <3>2, <4>1, SumGrows
      <4>4. SumOf(LeftCosts, S) <= SumOf(LeftCosts, OnAccount("cash"))
        BY <3>2, <4>1, SumGrows
      <4>5. /\ SumOf(Costs, R) \in Nat /\ SumOf(Costs, S) \in Nat
            /\ SumOf(HeldCosts, S) \in Nat /\ SumOf(LeftCosts, S) \in Nat
        <5>1. R \in SUBSET Tickers
          BY <3>2
        <5>2. QED
          BY <3>2, <4>1, <5>1, SumIsNat
      <4>6. QED
        BY <4>2, <4>3, <4>4, <4>5
    <3>4. /\ scan.equity \in Nat /\ scan.reserved["cash"] \in Nat /\ scan.held["cash"] \in Nat
          /\ scan.free["cash"] \in Int /\ scan'.free["cash"] \in Int /\ "cash" \in Accounts
          /\ BuyRows("cash") \in Nat
      BY <1>1, <2>1, RowsAreNat DEF ScanType, Accounts, Amounts, Unknown, Typed
    <3>5. CASE scan'.free["cash"] = scan.free["cash"]
      <4>1. /\ OrdersRead("cash") /\ a # "cash"
            /\ SumOver(Costs, S) + scan.free["cash"] <= scan.equity + scan.reserved["cash"]
        BY <2>4, <3>1, <3>5 DEF CashFree
      <4> HIDE DEF S, R
      <4>2. SumOf(Costs, R) + scan'.free["cash"] <= scan.equity + scan.reserved["cash"]
        BY <3>3, <3>4, <3>5, <4>1, SumsAreSums
      <4>3. QED
        BY <2>4, <3>4, <4>1, <4>2, SumsAreSums DEF R
    <3>6. CASE scan'.free["cash"] # scan.free["cash"]
      <4>1. a = "cash" /\ OrdersCounted(a)
        <5>1. OrdersCounted(a)
          BY <2>1, <3>6 DEF OrdersMissed
        <5>2. a = "cash"
          BY <1>1, <3>4, <3>6, <5>1 DEF OrdersCounted, ScanType
        <5>3. QED
          BY <5>1, <5>2
      <4>2. scan'.free["cash"] = AtLeastZero(scan.equity - scan.held["cash"] - BuyRows("cash"))
        BY <1>1, <3>4, <4>1 DEF OrdersCounted, ScanType, EquityOf
      <4>3. scan'.free["cash"] = scan.equity - scan.held["cash"] - BuyRows("cash")
        BY <3>1, <3>4, <4>2 DEF AtLeastZero
      <4>4. SumOver(HeldCosts, S) <= scan.held["cash"]
        BY <2>4, <3>1, <4>1 DEF CashHeld
      <4>5. SumOf(LeftCosts, OnAccount("cash")) = BuyRows("cash")
        BY <3>4, RowsAreNat DEF Typed
      <4> HIDE DEF S, R
      <4>6. SumOf(Costs, R) + scan'.free["cash"] <= scan.equity + scan.reserved["cash"]
        BY <3>3, <3>4, <4>3, <4>4, <4>5, SumsAreSums
      <4>7. QED
        BY <2>4, <3>4, <4>1, <4>6, SumsAreSums DEF R
    <3>7. QED
      BY <3>5, <3>6
  <2>10. Powered'
    <3>1. scan.at > 1
      BY <1>1, ScanIsAt DEF Typed
    <3>2. QED
      BY <1>1, <2>1, <3>1, SameEntries DEF Powered, SameOtherwise
  <2>11. TicketFits'
    BY <2>4 DEF TicketFits
  <2>12. Seated'
    <3>1. LiveOn' \subseteq LiveOn
      <4>1. SUFFICES ASSUME NEW t \in LiveOn' PROVE t \in LiveOn
        OBVIOUS
      <4>2. t \in LiveTickers /\ t \in Entered
        <5>1. t \in LiveTickers'
          BY DEF LiveOn
        <5>2. QED
          BY <1>1, <5>1, SameEntries, OnAccounts DEF Typed
      <4>3. PICK b \in Accounts : b = AccountOf(entry[t].kind)
        BY <4>2, OnAccounts, KindsInPools DEF Typed
      <4>4. PositionsRead(b)'
        BY <1>1, <4>3 DEF LiveOn, PositionsRead, PositionsAt
      <4>5. PositionsRead(b)
        BY <2>4, <4>4
      <4>6. QED
        BY <4>2, <4>3, <4>5 DEF LiveOn
    <3>2. IsFiniteSet(LiveOn)
      BY OnAccounts, FS_Subset DEF Typed, LiveOn
    <3>3. /\ Cardinality(LiveOn') <= Cardinality(LiveOn)
          /\ Cardinality(LiveOn') \in Nat /\ Cardinality(LiveOn) \in Nat
      BY <3>1, <3>2, FS_Subset, FS_CardinalityType
    <3>4. scan.positions \in Nat
      BY <1>1 DEF ScanType
    <3>5. ~scan.rested => Cardinality(LiveOn) <= scan.positions
      BY <1>1, <2>4 DEF Seated
    <3>6. ~scan.rested => Cardinality(LiveOn') <= scan.positions
      BY <3>3, <3>4, <3>5
    <3>7. QED
      BY <2>1, <2>4, <3>6 DEF Seated
  <2>13. QED
    BY <1>1, <2>3, <2>6, <2>7, <2>8, <2>9, <2>10, <2>11, <2>12, SameEntries
<1>4. QED
  BY <1>2, <1>3

\* The gate hands out no more slots than there are seats.
LEMMA GateKeeps ==
    ASSUME Solvent, Gate
    PROVE  Solvent'
<1> USE DEF Solvent, Covered
<1>1. /\ UNCHANGED <<entry, ticket>> /\ Busy /\ scan.job = "scan" /\ scan.at = 6
      /\ scan \in ScanType
  BY StepIsAt DEF Gate, Taking, Typed, ScanTyped
<1>2. CASE scan' = Idle
  BY <1>1, <1>2, LeaveKeeps
<1>3. CASE scan' # Idle
  <2> DEFINE n == Least({OrdersPerRun, Slots(scan.positions)})
             C == Tickers \ Entered
  <2>1. /\ n \in Nat /\ n <= Slots(scan.positions) /\ MaxPositions \in Nat
        /\ scan.positions \in Nat
    <3>1. /\ scan.positions \in Nat /\ MaxPositions \in Nat /\ OrdersPerRun \in Nat
          /\ Slots(scan.positions) \in Nat
      BY <1>1, LimitAssumption DEF ScanType, Slots, AtLeastZero
    <3>2. QED
      BY <3>1, LeastNumber DEF Least
  <2>2. scan' = [scan EXCEPT !.at = 7, !.candidates = C, !.positions = 0, !.slots = n]
    BY <1>1, <1>3 DEF Gate, Leave, Next1
  <2> HIDE DEF n, C
  <2>3. /\ scan'.at = 7 /\ scan'.candidates = C /\ scan'.slots = n
        /\ "job" \in DOMAIN scan' /\ scan'.job = "scan"
        /\ scan'.equity = scan.equity /\ scan'.power = scan.power /\ scan'.free = scan.free
        /\ scan'.reserved = scan.reserved /\ scan'.exposure = scan.exposure
        /\ scan'.uncounted = scan.uncounted /\ scan'.rested = scan.rested
    BY <1>1, <2>2 DEF ScanType
  <2>4. scan' \in ScanType
    <3> DEFINE r1 == [scan EXCEPT !.at = 7]
               r2 == [r1 EXCEPT !.candidates = C]
               r3 == [r2 EXCEPT !.positions = 0]
    <3>1. scan' = [r3 EXCEPT !.slots = n] /\ C \in SUBSET Tickers
      BY <2>2 DEF C
    <3>2. r1 \in ScanType
      BY <1>1 DEF ScanType
    <3> HIDE DEF r1
    <3>3. r2 \in ScanType
      BY <3>1, <3>2 DEF ScanType
    <3> HIDE DEF r2
    <3>4. r3 \in ScanType
      BY <3>3 DEF ScanType
    <3> HIDE DEF r3
    <3>5. QED
      BY <2>1, <3>1, <3>4 DEF ScanType
  <2>5. Typed'
    BY <1>1, <2>3, <2>4, SameEntries DEF Typed, ScanTyped, TicketTyped
  <2>6. /\ Busy' /\ ~Trades /\ Trades'
        /\ \A a \in Accounts : /\ PositionsRead(a) /\ OrdersRead(a)
                               /\ PositionsRead(a)' /\ OrdersRead(a)'
    BY <1>1, <2>3 DEF Busy, Trades, PositionsRead, OrdersRead, PositionsAt, OrdersAt, Accounts
  <2>7. Vacant'
    BY <1>1, <2>3, SameEntries DEF Vacant, C
  <2>8. Exposed' /\ CashHeld' /\ TicketFits'
    BY <1>1, <2>3, <2>6, SameEntries DEF Exposed, CashHeld, TicketFits, Accounts
  <2>9. CashFree' /\ Powered'
    <3>1. CashFree'
      BY <1>1, <2>3, <2>6, SameEntries DEF CashFree, Accounts
    <3>2. Powered'
      <4>1. SUFFICES ASSUME NEW p \in Pools, scan.power[p] # Unknown
                     PROVE  Committed({p}) + scan.power[p]
                              <= Funds[p] + scan.reserved[AccountOfPool(p)]
        BY <1>1, <2>3, SameEntries DEF Powered
      <4>2. QED
        BY <1>1, <4>1 DEF Powered
    <3>3. QED
      BY <3>1, <3>2
  <2>10. Seated'
    <3>1. SUFFICES ASSUME ~scan.rested, MaxPositions > 0, n > 0
                   PROVE  Cardinality(LiveTickers) + n <= MaxPositions
      BY <1>1, <2>3, <2>6, SameEntries DEF Seated
    <3>2. LiveOn = LiveTickers
      BY <2>6, OnAccounts, KindsInPools DEF LiveOn, Typed
    <3>3. Cardinality(LiveTickers) <= scan.positions
      BY <1>1, <2>6, <3>1, <3>2 DEF Seated
    <3>4. IsFiniteSet(LiveTickers)
      BY OnAccounts, FS_Subset DEF Typed
    <3>5. Cardinality(LiveTickers) \in Nat
      BY <3>4, FS_CardinalityType
    <3>6. n <= MaxPositions - scan.positions
      BY <2>1, <3>1 DEF Slots, AtLeastZero
    <3>7. QED
      BY <2>1, <3>3, <3>5, <3>6
  <2>11. QED
    BY <1>1, <2>5, <2>7, <2>8, <2>9, <2>10, SameEntries
<1>4. QED
  BY <1>2, <1>3

\* A ticket that passes its check fits.
LEMMA CheckKeeps ==
    ASSUME Solvent, CheckTicket
    PROVE  Solvent'
<1> USE DEF Solvent, Covered
<1>1. /\ UNCHANGED <<entry, ticket>> /\ Busy /\ scan.job = "ticket" /\ scan.at = 5
      /\ scan \in ScanType /\ scan.order \in Orders
  BY StepIsAt DEF CheckTicket, Taking, Typed, ScanTyped
<1>2. CASE scan' = Idle
  BY <1>1, <1>2, LeaveKeeps
<1>3. CASE scan' # Idle
  <2>1. PICK equity \in EquityLevels, loss \in Losses :
          /\ MaxPositions > 0 => scan.positions < MaxPositions
          /\ \A d \in Room(scan.order.ticker, equity, scan.exposure) : TicketCost <= d
          /\ TicketCost <= Power(PoolOf(scan.order.kind))
          /\ scan' = [Next1(scan) EXCEPT !.equity = equity, !.loss = loss]
    BY <1>3 DEF CheckTicket, Leave
  <2>2. equity \in Nat /\ loss \in [Accounts -> Nat]
    BY DollarAssumption, LimitAssumption
  <2>3. scan' = [scan EXCEPT !.at = 6, !.equity = equity, !.loss = loss]
    BY <1>1, <2>1 DEF Next1
  <2>4. /\ scan'.at = 6 /\ scan'.equity = equity
        /\ "job" \in DOMAIN scan' /\ scan'.job = "ticket" /\ scan'.order = scan.order
        /\ scan'.exposure = scan.exposure /\ scan'.positions = scan.positions
        /\ scan'.uncounted = scan.uncounted /\ scan'.rested = scan.rested
    BY <1>1, <2>3 DEF ScanType
  <2>5. scan' \in ScanType
    <3> DEFINE r1 == [scan EXCEPT !.at = 6]
               r2 == [r1 EXCEPT !.equity = equity]
    <3>1. scan' = [r2 EXCEPT !.loss = loss]
      BY <2>3
    <3>2. r1 \in ScanType
      BY <1>1 DEF ScanType
    <3> HIDE DEF r1
    <3>3. r2 \in ScanType
      BY <2>2, <3>2 DEF ScanType
    <3> HIDE DEF r2
    <3>4. QED
      BY <2>2, <3>1, <3>3 DEF ScanType
  <2>6. Typed'
    BY <1>1, <2>4, <2>5, SameEntries DEF Typed, ScanTyped, TicketTyped
  <2>7. /\ Busy' /\ ~Trades /\ ~Trades'
        /\ \A a \in Accounts : /\ PositionsRead(a) /\ OrdersRead(a)
                               /\ PositionsRead(a)' /\ OrdersRead(a)'
    BY <1>1, <2>4 DEF Busy, Trades, PositionsRead, OrdersRead, PositionsAt, OrdersAt, Accounts
  <2>8. Vacant'
    BY <1>1, <2>4, <2>7, SameEntries DEF Vacant
  <2>9. Exposed' /\ CashHeld' /\ CashFree' /\ Powered'
    BY <1>1, <2>4, <2>7, SameEntries DEF Exposed, CashHeld, CashFree, Powered
  <2>10. TicketFits'
    <3>1. PICK p \in Pools : p = PoolOf(scan.order.kind)
      BY <1>1, KindsInPools DEF Orders
    <3>2. TicketCost \in Nat
      BY <1>1, UnitIsNat, Times DEF TicketCost, Orders
    <3>3. Committed({p}) + TicketCost <= Funds[p]
      <4>1. Power(p) \in Nat /\ Committed({p}) + Power(p) = Funds[p]
        BY PowerLeft
      <4>2. TicketCost <= Power(p)
        BY <2>1, <3>1
      <4>3. Committed({p}) \in Nat
        BY CommittedIsNat DEF Typed
      <4>4. QED
        BY <3>2, <4>1, <4>2, <4>3
    <3>4. TicketCost' = TicketCost
      BY <2>4 DEF TicketCost
    <3>5. QED
      BY <1>1, <2>1, <2>4, <3>1, <3>3, <3>4, SameEntries DEF TicketFits
  <2>11. Seated'
    <3>1. LiveOn = LiveTickers
      BY <2>7, OnAccounts, KindsInPools DEF LiveOn, Typed
    <3>2. LiveOn' \subseteq LiveTickers
      BY <1>1, SameEntries DEF LiveOn
    <3>3. ~scan.rested => Cardinality(LiveTickers) <= scan.positions
      BY <1>1, <2>7, <3>1 DEF Seated
    <3>4. IsFiniteSet(LiveTickers)
      BY OnAccounts, FS_Subset DEF Typed
    <3>5. /\ Cardinality(LiveOn') <= Cardinality(LiveTickers)
          /\ Cardinality(LiveOn') \in Nat /\ Cardinality(LiveTickers) \in Nat
      BY <3>2, <3>4, FS_Subset, FS_CardinalityType
    <3>6. scan.positions \in Nat
      BY <1>1 DEF ScanType
    <3>7. ~scan.rested => Cardinality(LiveOn') <= scan.positions
      BY <3>3, <3>5, <3>6
    <3>8. QED
      BY <2>4, <2>7, <3>7 DEF Seated
  <2>12. QED
    BY <1>1, <2>6, <2>8, <2>9, <2>10, <2>11, SameEntries
<1>4. QED
  BY <1>2, <1>3

---------------------------------------------------------------------------
(* Sizes.                                                                  *)

\* A limit that leaves room for some dollars covers what is exposed with them.
LEMMA RoomCovers ==
    ASSUME NEW t \in Tickers, NEW equity \in Nat, NEW exposure \in [Tickers -> Nat], NEW c \in Nat
    PROVE  /\ Room(t, equity, exposure) \subseteq Nat
           /\ c > 0 /\ (\A d \in Room(t, equity, exposure) : c <= d) =>
                /\ TotalPercent > 0 => Total(exposure) + c <= PercentOf(TotalPercent, equity)
                /\ SectorPercent > 0 =>
                     SectorTotal(exposure, Sector[t]) + c <= PercentOf(SectorPercent, equity)
<1> DEFINE T == Total(exposure)
           P == PercentOf(TotalPercent, equity)
           U == SectorTotal(exposure, Sector[t])
           Q == PercentOf(SectorPercent, equity)
<1>1. TotalPercent \in 0..100 /\ SectorPercent \in 0..100
  BY LimitAssumption
<1>2. P \in Nat /\ Q \in Nat
  BY <1>1, PercentIsNat
<1>3. T \in Nat /\ U \in Nat
  <2>1. \A u \in Tickers : exposure[u] \in Nat
    OBVIOUS
  <2>2. \A S \in SUBSET Tickers : SumOf(exposure, S) \in Nat
    BY <2>1, TickersAssumption, SumIsNat
  <2>3. Tickers \in SUBSET Tickers /\ {u \in Tickers : Sector[u] = Sector[t]} \in SUBSET Tickers
    OBVIOUS
  <2>4. QED
    BY <2>2, <2>3, SumsAreSums DEF Total, SectorTotal
<1>4. Room(t, equity, exposure) =
        (IF TotalPercent = 0 THEN {} ELSE {AtLeastZero(P - T)}) \union
        (IF SectorPercent = 0 THEN {}
           ELSE IF Sector[t] = Unclassified THEN {0} ELSE {AtLeastZero(Q - U)})
  BY DEF Room
<1> HIDE DEF T, P, U, Q
<1>5. AtLeastZero(P - T) \in Nat /\ AtLeastZero(Q - U) \in Nat
  BY <1>2, <1>3 DEF AtLeastZero
<1>6. Room(t, equity, exposure) \subseteq Nat
  BY <1>4, <1>5
<1>7. ASSUME c > 0, \A d \in Room(t, equity, exposure) : c <= d
      PROVE  /\ TotalPercent > 0 => T + c <= P
             /\ SectorPercent > 0 => U + c <= Q
  <2>1. TotalPercent > 0 => c <= AtLeastZero(P - T)
    BY <1>1, <1>4, <1>7
  <2>2. SectorPercent > 0 => Sector[t] # Unclassified
    <3>1. SUFFICES ASSUME SectorPercent > 0, Sector[t] = Unclassified PROVE FALSE
      OBVIOUS
    <3>2. 0 \in Room(t, equity, exposure)
      BY <1>1, <1>4, <3>1
    <3>3. QED
      BY <1>7, <3>2
  <2>3. SectorPercent > 0 => c <= AtLeastZero(Q - U)
    BY <1>1, <1>4, <1>7, <2>2
  <2>4. QED
    BY <1>2, <1>3, <1>7, <2>1, <2>3 DEF AtLeastZero
<1>8. QED
  BY <1>6, <1>7 DEF T, P, U, Q

\* What is left of an amount covers what some positive dollars out of it take.
LEMMA RemainingCovers ==
    ASSUME NEW m \in Amounts, NEW r \in Nat, NEW c \in Nat, Remaining(m, r) # Unknown
    PROVE  /\ m # Unknown /\ Remaining(m, r) \in Nat
           /\ c > 0 /\ c <= Remaining(m, r) => r + c <= m
BY DEF Amounts, Unknown, Remaining, AtLeastZero

\* The dollars an order of the size that is sent costs are in every limit.
Dollars(t, kind) == Ramped(SizeOf(t, kind)) * UnitCost(t, kind)
LEMMA SizeFits ==
    ASSUME scan \in ScanType, NEW t \in Tickers, NEW kind \in Kinds, Ramped(SizeOf(t, kind)) > 0
    PROVE  LET a == AccountOf(kind)
               p == PoolOf(kind)
               c == Dollars(t, kind)
           IN  /\ Ramped(SizeOf(t, kind)) \in Nat /\ c \in Nat /\ c > 0
               /\ scan.free[a] # Unknown /\ scan.reserved[a] + c <= scan.free[a]
               /\ scan.power[p] # Unknown /\ scan.reserved[a] + c <= scan.power[p]
               /\ \A d \in Room(t, scan.equity, scan.exposure) : c <= d
<1> DEFINE risk == PercentOf(RiskPercent, scan.equity)
           atRisk == IF kind = "option" THEN UnitCost(t, kind) ELSE StopDistance[t]
           a == AccountOf(kind)
           p == PoolOf(kind)
           unit == UnitCost(t, kind)
           free == Remaining(scan.free[a], scan.reserved[a])
           power == Remaining(scan.power[p], scan.reserved[a])
           dollars == {free, power} \union PositionCap(scan.equity)
                        \union Room(t, scan.equity, scan.exposure)
           sizes == {risk \div atRisk} \union {d \div unit : d \in dollars}
           s == SizeOf(t, kind)
           n == Ramped(s)
           c == n * unit
<1>1. /\ a \in Accounts /\ p \in Pools /\ scan.free[a] \in Amounts /\ scan.power[p] \in Amounts
      /\ scan.reserved[a] \in Nat /\ scan.equity \in Nat /\ scan.exposure \in [Tickers -> Nat]
  BY KindsInPools DEF ScanType
<1>2. /\ unit \in Nat \ {0} /\ atRisk \in Nat \ {0} /\ RampDivisor \in Nat \ {0}
      /\ RiskPercent \in 0..100 /\ PositionPercent \in 0..100
  BY UnitIsNat, DollarAssumption, LimitAssumption
<1>3. risk \in Nat /\ PositionCap(scan.equity) \subseteq Nat
  BY <1>1, <1>2, PercentIsNat DEF PositionCap
<1>4. s = IF risk = 0 \/ Unknown \in {free, power} THEN 0 ELSE Least(sizes)
  BY DEF SizeOf
<1>5. risk # 0 /\ free # Unknown /\ power # Unknown
  <2>1. SUFFICES ASSUME risk = 0 \/ Unknown \in {free, power} PROVE FALSE
    OBVIOUS
  <2> HIDE DEF risk, free, power, sizes
  <2>2. s = 0
    BY <1>4, <2>1
  <2>3. 0 \div RampDivisor = 0
    BY <1>2
  <2>4. QED
    BY <2>2, <2>3 DEF Ramped
<1>6. free \in Nat /\ power \in Nat
  BY <1>1, <1>5, RemainingCovers
<1>7. dollars \subseteq Nat
  BY <1>1, <1>3, <1>6, RoomCovers
<1>8. risk \div atRisk \in Nat /\ \A d \in dollars : d \div unit \in Nat
  <2> HIDE DEF risk, atRisk, dollars, unit
  <2>1. QED
    BY <1>2, <1>3, <1>7, Quotient
<1>9. s \in Nat /\ \A d \in dollars : s <= d \div unit
  <2>1. s = Least(sizes)
    BY <1>4, <1>5
  <2>2. sizes \subseteq Nat /\ sizes # {} /\ \A d \in dollars : d \div unit \in sizes
    BY <1>8
  <2> HIDE DEF s, sizes, dollars, unit
  <2>3. QED
    BY <2>1, <2>2, LeastNumber DEF Least
<1>10. n \in Nat /\ n <= s
  <2> HIDE DEF s
  <2>1. s \div RampDivisor \in Nat /\ s \div RampDivisor <= s
    BY <1>2, <1>9
  <2>2. QED
    BY <2>1 DEF Ramped
<1>11. c \in Nat /\ c > 0
  <2>1. n > 0
    OBVIOUS
  <2> HIDE DEF n, unit
  <2>2. QED
    BY <1>2, <1>10, <2>1, Times
<1>12. \A d \in dollars : c <= d
  <2>1. SUFFICES ASSUME NEW d \in dollars PROVE c <= d
    OBVIOUS
  <2>2. d \in Nat /\ d \div unit \in Nat /\ s <= d \div unit
    BY <1>7, <1>8, <1>9
  <2> HIDE DEF n, unit, s, dollars
  <2>3. n <= d \div unit
    BY <1>9, <1>10, <2>2
  <2>4. QED
    BY <1>2, <1>10, <2>2, <2>3, Quotient
<1>13. c <= free /\ c <= power /\ \A d \in Room(t, scan.equity, scan.exposure) : c <= d
  BY <1>12
<1> HIDE DEF c, n, s
<1>14. scan.free[a] # Unknown /\ scan.reserved[a] + c <= scan.free[a]
  BY <1>1, <1>5, <1>11, <1>13, RemainingCovers
<1>15. scan.power[p] # Unknown /\ scan.reserved[a] + c <= scan.power[p]
  BY <1>1, <1>5, <1>11, <1>13, RemainingCovers
<1>16. QED
  BY <1>10, <1>11, <1>13, <1>14, <1>15 DEF Dollars, c, n, s

---------------------------------------------------------------------------
(* Submissions: one entry more, which costs no more than was reserved.     *)

Grown(t, k, c) ==
    /\ Entered' \subseteq Entered \union {t}
    /\ \A u \in Entered : u \in Entered' /\ entry'[u] = entry[u]
    /\ t \in Entered' => entry'[t].kind = k /\ Costs'[t] <= c

LEMMA NewEntryGrows ==
    ASSUME EntryTyped, SettingsTyped, NEW t \in Tickers \ Entered, NEW k \in Kinds,
           NEW n \in Nat \ {0}, NEW landed \in BOOLEAN, NEW sure \in BOOLEAN,
           entry' = [entry EXCEPT ![t] = NewEntry(k, n, landed, sure)]
    PROVE  EntryTyped' /\ Grown(t, k, n * UnitCost(t, k))
<1> DEFINE e == NewEntry(k, n, landed, sure)
<1>1. settings.stopped \in BOOLEAN
  BY DEF SettingsTyped
<1>2. /\ e \in Entries /\ e.kind = k /\ e.filled = 0 /\ e.filled <= e.quantity
      /\ Shares(e) \in Nat /\ Shares(e) <= n
  BY <1>1 DEF NewEntry, Entries, Shares
<1>3. entry' = [entry EXCEPT ![t] = e]
  OBVIOUS
<1> HIDE DEF e
<1>4. entry'[t] = e /\ \A u \in Tickers \ {t} : entry'[u] = entry[u]
  BY <1>3 DEF EntryTyped
<1>5. EntryTyped'
  <2>1. entry' \in [Tickers -> Entries \union {NoEntry}]
    BY <1>2, <1>3 DEF EntryTyped
  <2>2. \A u \in Entered' : entry'[u].filled <= entry'[u].quantity
    BY <1>2, <1>4 DEF EntryTyped, Entered
  <2>3. QED
    BY <2>1, <2>2 DEF EntryTyped
<1>6. /\ Entered' \subseteq Entered \union {t}
      /\ \A u \in Entered : u \in Entered' /\ entry'[u] = entry[u]
  BY <1>4 DEF Entered
<1>7. ASSUME t \in Entered' PROVE entry'[t].kind = k /\ Costs'[t] <= n * UnitCost(t, k)
  <2>1. Costs'[t] = Shares(e) * UnitCost(t, k) /\ UnitCost(t, k) \in Nat
    BY <1>2, <1>4, <1>5, <1>7, CostsAfter, UnitIsNat
  <2>2. QED
    BY <1>2, <1>4, <2>1, Times
<1>8. QED
  BY <1>5, <1>6, <1>7 DEF Grown

LEMMA SameGrows ==
    ASSUME UNCHANGED entry, NEW t \in Tickers \ Entered, NEW k, NEW c
    PROVE  Grown(t, k, c)
BY SameEntries DEF Grown

\* What it adds to the costs, and to what each pool is drawn on for.
LEMMA GrownCosts ==
    ASSUME EntryTyped, EntryTyped', NEW t \in Tickers \ Entered, NEW k \in Kinds, NEW c \in Nat,
           Grown(t, k, c)
    PROVE  /\ \A u \in Tickers : Costs[u] \in Nat /\ Costs'[u] \in Nat
           /\ \A u \in Tickers \ {t} : Costs'[u] = Costs[u]
           /\ Costs'[t] <= c
           /\ LiveTickers' \subseteq LiveTickers \union {t}
           /\ \A a : OnAccount(a)' \subseteq OnAccount(a) \union {t}
           /\ \A a : a # AccountOf(k) => OnAccount(a)' \subseteq OnAccount(a)
<1>1. \A u \in Tickers : Costs[u] \in Nat /\ Costs'[u] \in Nat
  BY CostsAreNat, CostsAfter
<1>2. ASSUME NEW u \in Tickers \ {t} PROVE Costs'[u] = Costs[u] /\ (Live(u)' => Live(u))
  <2>1. CASE u \in Entered
    BY <2>1 DEF Grown, Costs, Cost, Held, Remainder, Working, Live
  <2>2. CASE u \notin Entered
    <3>1. u \notin Entered'
      BY <2>2 DEF Grown
    <3>2. QED
      BY <2>2, <3>1 DEF Costs, Cost, Live, Held, Working
  <2>3. QED
    BY <2>1, <2>2
<1>3. Costs'[t] <= c
  <2>1. t \notin Entered' => Costs'[t] = 0
    BY CostsAfter
  <2>2. QED
    BY <2>1 DEF Grown
<1>4. LiveTickers' \subseteq LiveTickers \union {t}
  BY <1>2 DEF LiveTickers
<1>5. /\ \A a : OnAccount(a)' \subseteq OnAccount(a) \union {t}
      /\ \A a : a # AccountOf(k) => OnAccount(a)' \subseteq OnAccount(a)
  BY DEF Grown, OnAccount
<1>6. QED
  BY <1>1, <1>2, <1>3, <1>4, <1>5

LEMMA CommittedGrows ==
    ASSUME EntryTyped, EntryTyped', NEW t \in Tickers \ Entered, NEW k \in Kinds, NEW c \in Nat,
           Grown(t, k, c), NEW p \in Pools
    PROVE  /\ Committed({p})' \in Nat
           /\ Committed({p})' <= Committed({p}) + (IF p = PoolOf(k) THEN c ELSE 0)
<1> DEFINE v == Costs'
           R == Within({p})'
           d == IF p = PoolOf(k) THEN c ELSE 0
<1>1. /\ \A u \in Tickers : v[u] \in Nat /\ Costs[u] \in Nat
      /\ \A u \in Tickers \ {t} : v[u] = Costs[u]
      /\ v[t] <= c
  BY GrownCosts
<1>2. /\ R \subseteq Within({p}) \union {t} /\ (t \in R => p = PoolOf(k))
      /\ Within({p}) \in SUBSET Tickers /\ R \in SUBSET Tickers /\ IsFiniteSet(Tickers)
  BY OnAccounts DEF Grown, Within, Entered
<1>3. Committed({p})' = SumOver(v, R) /\ Committed({p}) = SumOver(Costs, Within({p}))
  BY DEF Committed
<1>4. t \in R => v[t] <= d
  BY <1>1, <1>2
<1>5. d \in Nat
  OBVIOUS
<1> HIDE DEF v, R, d
<1>6. \A u \in R \ {t} : v[u] <= Costs[u]
  BY <1>1, <1>2
<1>7. SumOf(v, R) <= SumOf(Costs, Within({p})) + d /\ SumOf(v, R) \in Nat
  <2>1. SumOf(v, R) <= SumOf(Costs, Within({p})) + d
    BY <1>1, <1>2, <1>4, <1>5, <1>6, OneMore
  <2>2. SumOf(v, R) \in Nat
    BY <1>1, <1>2, SumIsNat
  <2>3. QED
    BY <2>1, <2>2
<1>8. QED
  BY <1>3, <1>7, SumsAreSums DEF d

\* What fits in its pool leaves every pool within what the broker gives it.
LEMMA GrownWithinFunds ==
    ASSUME EntryTyped, EntryTyped', CapitalHeld, NEW t \in Tickers \ Entered, NEW k \in Kinds,
           NEW c \in Nat, Grown(t, k, c), Committed({PoolOf(k)}) + c <= Funds[PoolOf(k)]
    PROVE  CapitalHeld'
<1>1. SUFFICES ASSUME NEW p \in Pools PROVE Committed({p})' <= Funds[p]
  BY DEF CapitalHeld
<1>2. /\ Committed({p})' \in Nat /\ Committed({p}) \in Nat /\ Funds[p] \in Nat
      /\ Committed({p})' <= Committed({p}) + (IF p = PoolOf(k) THEN c ELSE 0)
  BY CommittedGrows, CommittedIsNat, DollarAssumption
<1>3. Committed({p}) <= Funds[p] /\ (p = PoolOf(k) => Committed({p}) + c <= Funds[p])
  BY DEF CapitalHeld
<1>4. QED
  BY <1>2, <1>3

\* An entry that is tried is one there is none of, of a size that fits; what
\* comes of it is the entry, or a ticket, or nothing.
LEMMA TriedEntryFits ==
    ASSUME Solvent, SettingsTyped, NEW t \in Tickers, NEW kind \in Kinds, TryEntry(t, kind)
    PROVE  LET c == Dollars(t, kind)
           IN  /\ Busy /\ Trades /\ scan \in ScanType
               /\ t \in scan.candidates /\ t \notin Entered /\ scan.slots \in Nat \ {0}
               /\ Ramped(SizeOf(t, kind)) \in Nat \ {0} /\ c \in Nat \ {0}
               /\ EntryTyped' /\ TicketTyped' /\ Grown(t, kind, c) /\ CapitalHeld'
<1> DEFINE n == Ramped(SizeOf(t, kind))
           c == Dollars(t, kind)
           p == PoolOf(kind)
           a == AccountOf(kind)
<1>1. Busy /\ Trades /\ t \in scan.candidates /\ scan.slots > 0
  BY StepIsAt DEF TryEntry, Trading, Taking, Solvent, Typed
<1>2. scan \in ScanType /\ scan.slots \in Nat \ {0}
  BY <1>1 DEF Solvent, Typed, ScanTyped, ScanType
<1>3. t \notin Entered
  BY <1>1 DEF Solvent, Vacant
<1>4. n > 0
  BY DEF TryEntry
<1>5. /\ n \in Nat /\ c \in Nat /\ c > 0 /\ c = n * UnitCost(t, kind)
      /\ scan.power[p] # Unknown /\ scan.reserved[a] + c <= scan.power[p]
  BY <1>2, <1>4, SizeFits DEF Dollars
<1>6. \/ UNCHANGED entry /\ ticket' = [ticket EXCEPT ![t] = [kind |-> kind, quantity |-> n]]
      \/ UNCHANGED <<entry, ticket>>
      \/ /\ UNCHANGED ticket
         /\ \E landed, sure \in BOOLEAN :
              entry' = [entry EXCEPT ![t] = NewEntry(kind, n, landed, sure)]
  BY DEF TryEntry, Accepted, Unclear
<1> HIDE DEF n, c
<1>7. TicketTyped'
  <2>1. CASE ticket' = [ticket EXCEPT ![t] = [kind |-> kind, quantity |-> n]]
    BY <1>4, <1>5, <2>1 DEF Solvent, Typed, TicketTyped
  <2>2. CASE UNCHANGED ticket
    BY <2>2 DEF Solvent, Typed, TicketTyped
  <2>3. QED
    BY <1>6, <2>1, <2>2
<1>8. EntryTyped' /\ Grown(t, kind, c)
  <2>1. CASE UNCHANGED entry
    BY <1>3, <2>1, SameEntries, SameGrows DEF Solvent, Typed
  <2>2. ASSUME NEW landed \in BOOLEAN, NEW sure \in BOOLEAN,
               entry' = [entry EXCEPT ![t] = NewEntry(kind, n, landed, sure)]
        PROVE  EntryTyped' /\ Grown(t, kind, c)
    <3>1. EntryTyped /\ t \in Tickers \ Entered /\ n \in Nat \ {0}
      BY <1>3, <1>4, <1>5 DEF Solvent, Typed
    <3>2. EntryTyped' /\ Grown(t, kind, n * UnitCost(t, kind))
      BY <2>2, <3>1, NewEntryGrows
    <3>3. QED
      BY <1>5, <3>2
  <2>3. QED
    BY <1>6, <2>1, <2>2
<1>9. CapitalHeld'
  <2>1. Committed({p}) + scan.power[p] <= Funds[p] + scan.reserved[AccountOfPool(p)]
    BY <1>1, <1>5, KindsInPools DEF Solvent, Covered, Powered, Trades
  <2>2. AccountOfPool(p) = a
    BY KindsInPools
  <2>3. /\ Committed({p}) \in Nat /\ scan.power[p] \in Int /\ scan.reserved[a] \in Nat
        /\ Funds[p] \in Nat
    <3>1. p \in Pools /\ a \in Accounts
      BY KindsInPools
    <3>2. scan.power[p] \in Amounts /\ scan.reserved[a] \in Nat
      BY <1>2, <3>1 DEF ScanType
    <3>3. Committed({p}) \in Nat
      <4>1. EntryTyped
        BY DEF Solvent, Typed
      <4> HIDE DEF p
      <4>2. QED
        BY <4>1, CommittedIsNat
    <3>4. QED
      BY <3>1, <3>2, <3>3, DollarAssumption DEF Amounts, Unknown
  <2>4. Committed({p}) + c <= Funds[p]
    BY <1>5, <2>1, <2>2, <2>3
  <2>5. QED
    BY <1>3, <1>5, <1>8, <2>4, GrownWithinFunds DEF Solvent, Typed
<1>10. QED
  BY <1>1, <1>2, <1>3, <1>4, <1>5, <1>7, <1>8, <1>9 DEF n, c

\* What the scan remembers of it.
LEMMA TryFields ==
    ASSUME scan \in ScanType, NEW t \in Tickers, NEW kind \in Kinds, TryEntry(t, kind),
           scan' # Idle, Ramped(SizeOf(t, kind)) \in Nat, Dollars(t, kind) \in Nat
    PROVE  /\ scan' \in ScanType /\ "job" \in DOMAIN scan'
           /\ scan'.job = scan.job /\ scan'.at = scan.at /\ scan'.equity = scan.equity
           /\ scan'.power = scan.power /\ scan'.free = scan.free
           /\ scan'.uncounted = scan.uncounted /\ scan'.rested = scan.rested
           /\ scan'.slots = scan.slots - 1 /\ scan'.slots \in Nat
           /\ scan'.candidates = scan.candidates \ {t}
           /\ \/ /\ scan'.reserved = Plus(scan.reserved, AccountOf(kind), Dollars(t, kind))
                 /\ scan'.exposure = Plus(scan.exposure, t, Dollars(t, kind))
              \/ /\ scan'.reserved = scan.reserved /\ scan'.exposure = scan.exposure
                 /\ UNCHANGED <<entry, ticket>>
<1> DEFINE r == Plus(scan.reserved, AccountOf(kind), Dollars(t, kind))
           x == Plus(scan.exposure, t, Dollars(t, kind))
           s == scan.slots - 1
           C == scan.candidates \ {t}
           r0 == Reserved(t, kind, Ramped(SizeOf(t, kind)))
<1>1. r0 = [scan EXCEPT !.reserved = r, !.exposure = x]
  BY DEF Reserved, Dollars
<1>2. r \in [Accounts -> Nat] /\ x \in [Tickers -> Nat]
  <2>1. AccountOf(kind) \in Accounts
    BY KindsInPools
  <2>2. QED
    BY <2>1 DEF Plus, ScanType
<1>3. \/ scan' = Passed(t, r0)
      \/ scan' = Passed(t, scan) /\ UNCHANGED <<entry, ticket>>
  BY DEF TryEntry, Leave
<1>4. scan.slots > 0
  BY DEF TryEntry, Trading
<1> HIDE DEF r, x
<1>5. r0.slots = scan.slots /\ r0.candidates = scan.candidates
  BY <1>1 DEF ScanType
<1>6. scan.slots # 1 /\ s \in Nat
  BY <1>3, <1>4, <1>5 DEF Passed, ScanType
<1>7. \/ scan' = [scan EXCEPT !.reserved = r, !.exposure = x, !.slots = s, !.candidates = C]
      \/ /\ scan' = [scan EXCEPT !.slots = s, !.candidates = C]
         /\ UNCHANGED <<entry, ticket>>
  <2>1. CASE scan' = Passed(t, r0)
    <3>1. scan' = [r0 EXCEPT !.slots = s, !.candidates = C]
      BY <1>5, <1>6, <2>1 DEF Passed
    <3> HIDE DEF s, C
    <3>2. QED
      BY <1>1, <3>1 DEF ScanType
  <2>2. CASE scan' = Passed(t, scan) /\ UNCHANGED <<entry, ticket>>
    BY <1>6, <2>2 DEF Passed
  <2>3. QED
    BY <1>3, <2>1, <2>2
<1>8. C \in SUBSET Tickers
  BY DEF ScanType
<1> HIDE DEF s, C
<1>9. ASSUME NEW q, q \in ScanType
      PROVE  [q EXCEPT !.slots = s, !.candidates = C] \in ScanType
  <2> DEFINE q1 == [q EXCEPT !.slots = s]
  <2>1. q1 \in ScanType
    BY <1>6, <1>9 DEF ScanType
  <2>2. [q EXCEPT !.slots = s, !.candidates = C] = [q1 EXCEPT !.candidates = C]
    OBVIOUS
  <2> HIDE DEF q1
  <2>3. QED
    BY <1>8, <2>1, <2>2 DEF ScanType
<1>10. CASE scan' = [scan EXCEPT !.reserved = r, !.exposure = x, !.slots = s, !.candidates = C]
  <2> DEFINE q1 == [scan EXCEPT !.reserved = r]
             q2 == [q1 EXCEPT !.exposure = x]
  <2>1. q1 \in ScanType
    BY <1>2 DEF ScanType
  <2>2. scan' = [q2 EXCEPT !.slots = s, !.candidates = C]
    BY <1>10
  <2>3. q2 \in ScanType
    <3> HIDE DEF q1
    <3>1. QED
      BY <1>2, <2>1 DEF ScanType
  <2>4. scan' \in ScanType
    <3> HIDE DEF q2
    <3>1. QED
      BY <1>9, <2>2, <2>3
  <2>5. /\ "job" \in DOMAIN scan'
        /\ scan'.job = scan.job /\ scan'.at = scan.at /\ scan'.equity = scan.equity
        /\ scan'.power = scan.power /\ scan'.free = scan.free
        /\ scan'.uncounted = scan.uncounted /\ scan'.rested = scan.rested
        /\ scan'.slots = s /\ scan'.candidates = C /\ scan'.reserved = r /\ scan'.exposure = x
    BY <1>10 DEF ScanType
  <2>6. QED
    BY <1>6, <2>4, <2>5 DEF s, C, r, x
<1>11. CASE /\ scan' = [scan EXCEPT !.slots = s, !.candidates = C]
            /\ UNCHANGED <<entry, ticket>>
  <2>1. scan' \in ScanType
    BY <1>9, <1>11
  <2>2. /\ "job" \in DOMAIN scan'
        /\ scan'.job = scan.job /\ scan'.at = scan.at /\ scan'.equity = scan.equity
        /\ scan'.power = scan.power /\ scan'.free = scan.free
        /\ scan'.uncounted = scan.uncounted /\ scan'.rested = scan.rested
        /\ scan'.slots = s /\ scan'.candidates = C
        /\ scan'.reserved = scan.reserved /\ scan'.exposure = scan.exposure
    BY <1>11 DEF ScanType
  <2>3. QED
    BY <1>6, <1>11, <2>1, <2>2 DEF s, C
<1>12. QED
  BY <1>7, <1>10, <1>11

\* What is reserved for an entry keeps every amount above what it covers.
LEMMA TryKeeps ==
    ASSUME Solvent, SettingsTyped, NEW t \in Tickers, NEW kind \in Kinds, TryEntry(t, kind)
    PROVE  Solvent'
<1> DEFINE c == Dollars(t, kind)
           b == AccountOf(kind)
<1>1. /\ Busy /\ Trades /\ scan \in ScanType
      /\ t \in scan.candidates /\ t \notin Entered /\ scan.slots \in Nat \ {0}
      /\ Ramped(SizeOf(t, kind)) \in Nat \ {0} /\ c \in Nat \ {0}
      /\ EntryTyped' /\ TicketTyped' /\ Grown(t, kind, c) /\ CapitalHeld'
  BY TriedEntryFits
<1>2. CASE scan' = Idle
  <2>1. ~Busy' /\ "job" \in DOMAIN scan'
    BY <1>2 DEF Idle, Busy
  <2>2. Typed'
    BY <1>1, <2>1 DEF Typed, ScanTyped
  <2>3. QED
    BY <1>1, <2>1, <2>2, IdleIsSolvent
<1>3. CASE scan' # Idle
  <2>1. /\ scan' \in ScanType /\ "job" \in DOMAIN scan'
        /\ scan'.job = scan.job /\ scan'.at = scan.at /\ scan'.equity = scan.equity
        /\ scan'.power = scan.power /\ scan'.free = scan.free
        /\ scan'.uncounted = scan.uncounted /\ scan'.rested = scan.rested
        /\ scan'.slots = scan.slots - 1 /\ scan'.slots \in Nat
        /\ scan'.candidates = scan.candidates \ {t}
        /\ \/ /\ scan'.reserved = Plus(scan.reserved, b, c)
              /\ scan'.exposure = Plus(scan.exposure, t, c)
           \/ /\ scan'.reserved = scan.reserved /\ scan'.exposure = scan.exposure
              /\ UNCHANGED <<entry, ticket>>
    BY <1>1, <1>3, TryFields
  <2>2. EntryTyped /\ Covered /\ Vacant /\ b \in Accounts
    BY KindsInPools DEF Solvent, Typed
  <2>3. scan.job = "scan" /\ scan.at = 7 /\ scan'.job = "scan" /\ scan'.at = 7
    BY <1>1, <2>1 DEF Trades
  <2> HIDE DEF c, b
  <2>4. Typed'
    BY <1>1, <2>1, <2>3 DEF Typed, ScanTyped
  <2>5. /\ Busy' /\ Trades'
        /\ \A a \in Accounts : PositionsRead(a)' /\ OrdersRead(a)' /\ OrdersRead(a)
    BY <1>1, <2>3 DEF Busy, Trades, PositionsRead, OrdersRead, PositionsAt, OrdersAt
  <2>6. Vacant'
    <3>1. scan'.candidates \intersect Entered' = {}
      BY <1>1, <2>1, <2>2 DEF Vacant, Grown
    <3>2. QED
      BY <2>3, <3>1 DEF Vacant
  <2>7. CashHeld' /\ TicketFits'
    BY <2>3, <2>5 DEF CashHeld, TicketFits, Accounts
  <2>8. /\ \A u \in Tickers : Costs[u] \in Nat /\ Costs'[u] \in Nat
        /\ \A u \in Tickers \ {t} : Costs'[u] = Costs[u]
        /\ Costs'[t] <= c
        /\ LiveTickers' \subseteq LiveTickers \union {t}
        /\ \A a : OnAccount(a)' \subseteq OnAccount(a) \union {t}
        /\ \A a : a # b => OnAccount(a)' \subseteq OnAccount(a)
    BY <1>1, <2>2, GrownCosts DEF b
  <2>9. /\ scan.exposure \in [Tickers -> Nat] /\ scan.reserved \in [Accounts -> Nat]
        /\ scan.equity \in Nat /\ scan.free \in [Accounts -> Amounts]
        /\ scan.power \in [Pools -> Amounts]
    BY <1>1 DEF ScanType
  <2>10. ASSUME scan'.reserved = Plus(scan.reserved, b, c), scan'.exposure = Plus(scan.exposure, t, c)
         PROVE  Exposed' /\ CashFree' /\ Powered'
    <3>1. /\ \A a \in Accounts : /\ scan'.reserved[a] = scan.reserved[a] + IF a = b THEN c ELSE 0
                                 /\ scan.reserved[a] \in Nat /\ scan'.reserved[a] \in Nat
          /\ \A u \in Tickers : /\ scan'.exposure[u] = scan.exposure[u] + IF u = t THEN c ELSE 0
                                /\ scan.exposure[u] \in Nat
      BY <1>1, <2>9, <2>10 DEF Plus
    <3>2. Exposed'
      <4>1. SUFFICES ASSUME NEW a \in Accounts, NEW u \in OnAccount(a)', u \notin scan.uncounted
                     PROVE  Costs'[u] <= scan'.exposure[u]
        BY <2>1, <2>5 DEF Exposed
      <4>2. u \in Tickers
        BY DEF OnAccount, Entered
      <4>3. CASE u = t
        <5>1. scan'.exposure[t] = scan.exposure[t] + c /\ scan.exposure[t] \in Nat
          BY <3>1
        <5>2. QED
          BY <1>1, <2>8, <4>3, <5>1
      <4>4. CASE u # t
        <5>1. u \in OnAccount(a)
          BY <2>8, <4>4
        <5>2. Costs[u] <= scan.exposure[u]
          BY <1>1, <2>2, <2>5, <4>1, <5>1 DEF Covered, Exposed
        <5>3. QED
          BY <2>8, <3>1, <4>2, <4>4, <5>2
      <4>5. QED
        BY <4>3, <4>4
    <3>3. CashFree'
      <4> DEFINE v == Costs'
                 R == OnAccount("cash")' \ scan.uncounted
                 S == OnAccount("cash") \ scan.uncounted
                 d == IF b = "cash" THEN c ELSE 0
      <4>1. SUFFICES ASSUME scan.free["cash"] > 0
                     PROVE  SumOver(v, R) + scan.free["cash"] <= scan.equity + scan'.reserved["cash"]
        BY <2>1, <2>5 DEF CashFree, Accounts
      <4>2. SumOver(Costs, S) + scan.free["cash"] <= scan.equity + scan.reserved["cash"]
        BY <2>2, <2>3, <4>1 DEF Covered, CashFree
      <4>3. /\ R \subseteq S \union {t} /\ (t \in R => v[t] <= d)
            /\ R \in SUBSET Tickers /\ S \in SUBSET Tickers /\ IsFiniteSet(Tickers)
        <5>1. /\ OnAccount("cash") \in SUBSET Tickers /\ IsFiniteSet(Tickers)
              /\ OnAccount("cash")' \subseteq OnAccount("cash") \union {t}
          BY <2>2, <2>8, OnAccounts
        <5>2. t \in R => b = "cash"
          BY <1>1, <2>8 DEF OnAccount
        <5>3. QED
          BY <2>8, <5>1, <5>2
      <4>4. d \in Nat /\ scan'.reserved["cash"] = scan.reserved["cash"] + d
            /\ scan.reserved["cash"] \in Nat /\ scan.free["cash"] \in Int
        BY <1>1, <2>9, <3>1 DEF Accounts, Amounts, Unknown
      <4>5. /\ \A u \in Tickers : v[u] \in Nat /\ Costs[u] \in Nat
            /\ \A u \in R \ {t} : v[u] <= Costs[u]
        BY <2>8, <4>3
      <4> HIDE DEF v, R, S, d
      <4>6. SumOf(v, R) <= SumOf(Costs, S) + d
        BY <4>3, <4>4, <4>5, OneMore
      <4>7. SumOf(v, R) \in Nat /\ SumOf(Costs, S) \in Nat
        BY <4>3, <4>5, SumIsNat
      <4>8. QED
        BY <2>9, <4>2, <4>4, <4>6, <4>7, SumsAreSums
    <3>4. Powered'
      <4>1. SUFFICES ASSUME NEW p \in Pools, scan.power[p] # Unknown
                     PROVE  Committed({p})' + scan.power[p]
                              <= Funds[p] + scan'.reserved[AccountOfPool(p)]
        BY <2>1 DEF Powered
      <4>2. Committed({p}) + scan.power[p] <= Funds[p] + scan.reserved[AccountOfPool(p)]
        BY <2>2, <2>3, <4>1 DEF Covered, Powered
      <4>3. /\ Committed({p})' <= Committed({p}) + (IF p = PoolOf(kind) THEN c ELSE 0)
            /\ Committed({p})' \in Nat /\ Committed({p}) \in Nat
        BY <1>1, <2>2, CommittedGrows, CommittedIsNat
      <4>4. /\ p = PoolOf(kind) => AccountOfPool(p) = b
            /\ AccountOfPool(p) \in Accounts /\ Funds[p] \in Nat /\ scan.power[p] \in Int
        BY <2>9, KindsInPools, DollarAssumption DEF b, Amounts, Unknown
      <4>5. QED
        BY <1>1, <3>1, <4>2, <4>3, <4>4
    <3>5. QED
      BY <3>2, <3>3, <3>4
  <2>11. ASSUME scan'.reserved = scan.reserved, scan'.exposure = scan.exposure,
                UNCHANGED <<entry, ticket>>
         PROVE  Exposed' /\ CashFree' /\ Powered'
    <3>1. Exposed' /\ CashFree'
      BY <1>1, <2>1, <2>2, <2>3, <2>5, <2>11, SameEntries DEF Covered, Exposed, CashFree, Accounts
    <3>2. Powered'
      BY <2>1, <2>2, <2>3, <2>11, SameEntries DEF Covered, Powered
    <3>3. QED
      BY <3>1, <3>2
  <2>12. Exposed' /\ CashFree' /\ Powered'
    BY <2>1, <2>10, <2>11
  <2>13. Seated'
    <3>1. SUFFICES ASSUME ~scan.rested, MaxPositions > 0
                   PROVE  Cardinality(LiveTickers') + (scan.slots - 1) <= MaxPositions
      BY <2>1, <2>5 DEF Seated
    <3>2. Cardinality(LiveTickers) + scan.slots <= MaxPositions
      BY <1>1, <2>2, <3>1 DEF Covered, Seated
    <3>3. IsFiniteSet(LiveTickers)
      BY <2>2, OnAccounts, FS_Subset
    <3>4. /\ IsFiniteSet(LiveTickers \union {t}) /\ Cardinality(LiveTickers) \in Nat
          /\ Cardinality(LiveTickers \union {t}) <= Cardinality(LiveTickers) + 1
      <4>1. Cardinality(LiveTickers) \in Nat
        BY <3>3, FS_CardinalityType
      <4>2. /\ IsFiniteSet(LiveTickers \union {t})
            /\ \/ Cardinality(LiveTickers \union {t}) = Cardinality(LiveTickers)
               \/ Cardinality(LiveTickers \union {t}) = Cardinality(LiveTickers) + 1
        BY <3>3, FS_AddElement
      <4>3. QED
        BY <4>1, <4>2
    <3>5. /\ Cardinality(LiveTickers') <= Cardinality(LiveTickers \union {t})
          /\ Cardinality(LiveTickers') \in Nat /\ Cardinality(LiveTickers \union {t}) \in Nat
      BY <2>8, <3>4, FS_Subset, FS_CardinalityType
    <3>6. QED
      BY <1>1, <3>2, <3>4, <3>5, LimitAssumption
  <2>14. QED
    BY <1>1, <2>4, <2>6, <2>7, <2>12, <2>13 DEF Solvent, Covered
<1>4. QED
  BY <1>2, <1>3

\* What comes of a ticket's submission is its entry, or nothing.
LEMMA TicketEntryFits ==
    ASSUME Solvent, SettingsTyped, SubmitTicket
    PROVE  /\ Busy /\ scan.job = "ticket" /\ scan.at = 6 /\ scan \in ScanType
           /\ scan.order \in Orders /\ scan.order.ticker \notin Entered
           /\ TicketCost \in Nat \ {0}
           /\ EntryTyped' /\ Grown(scan.order.ticker, scan.order.kind, TicketCost)
           /\ CapitalHeld' /\ UNCHANGED ticket /\ scan' = Idle
<1>1. Busy /\ scan.job = "ticket" /\ scan.at = 6 /\ scan \in ScanType /\ scan.order \in Orders
  BY StepIsAt DEF SubmitTicket, Taking, Solvent, Typed, ScanTyped
<1>2. PICK o \in Orders : o = scan.order
  BY <1>1
<1>3. /\ o.ticker \in Tickers \ Entered /\ o.kind \in Kinds /\ o.quantity \in Nat \ {0}
      /\ TicketCost = o.quantity * UnitCost(o.ticker, o.kind)
  BY <1>1, <1>2 DEF Orders, Solvent, Vacant, TicketCost
<1>4. PICK c \in Nat \ {0} : c = TicketCost
  <2>1. UnitCost(o.ticker, o.kind) \in Nat \ {0}
    BY <1>3, UnitIsNat
  <2>2. QED
    BY <1>3, <2>1, Times
<1>5. /\ UNCHANGED ticket /\ scan' = Idle
      /\ \/ UNCHANGED entry
         \/ \E landed, sure \in BOOLEAN :
              entry' = [entry EXCEPT ![o.ticker] = NewEntry(o.kind, o.quantity, landed, sure)]
  BY <1>2 DEF SubmitTicket, Leave, Accepted, Unclear
<1>6. EntryTyped' /\ Grown(o.ticker, o.kind, c)
  <2>1. CASE UNCHANGED entry
    BY <1>3, <2>1, SameEntries, SameGrows DEF Solvent, Typed
  <2>2. ASSUME NEW landed \in BOOLEAN, NEW sure \in BOOLEAN,
               entry' = [entry EXCEPT ![o.ticker] = NewEntry(o.kind, o.quantity, landed, sure)]
        PROVE  EntryTyped' /\ Grown(o.ticker, o.kind, c)
    <3>1. EntryTyped
      BY DEF Solvent, Typed
    <3>2. EntryTyped' /\ Grown(o.ticker, o.kind, o.quantity * UnitCost(o.ticker, o.kind))
      BY <1>3, <2>2, <3>1, NewEntryGrows
    <3>3. QED
      BY <1>3, <1>4, <3>2
  <2>3. QED
    BY <1>5, <2>1, <2>2
<1>7. CapitalHeld'
  <2>1. Committed({PoolOf(o.kind)}) + c <= Funds[PoolOf(o.kind)]
    BY <1>1, <1>2, <1>4 DEF Solvent, Covered, TicketFits
  <2>2. EntryTyped /\ CapitalHeld
    BY DEF Solvent, Typed
  <2>3. QED
    BY <1>3, <1>4, <1>6, <2>1, <2>2, GrownWithinFunds
<1>8. QED
  BY <1>1, <1>2, <1>3, <1>4, <1>5, <1>6, <1>7

LEMMA SubmitKeeps ==
    ASSUME Solvent, SettingsTyped, SubmitTicket
    PROVE  Solvent'
<1>1. EntryTyped' /\ CapitalHeld' /\ UNCHANGED ticket /\ scan' = Idle
  BY TicketEntryFits
<1>2. ~Busy' /\ "job" \in DOMAIN scan'
  BY <1>1 DEF Idle, Busy
<1>3. Typed'
  BY <1>1, <1>2 DEF Solvent, Typed, ScanTyped, TicketTyped
<1>4. QED
  BY <1>1, <1>2, <1>3, IdleIsSolvent

---------------------------------------------------------------------------
(* The invariant, and what follows from it.                                *)

LEMMA InitSolvent == Init => Solvent
<1> SUFFICES ASSUME Init PROVE Solvent
  OBVIOUS
<1>1. /\ entry = [t \in Tickers |-> NoEntry] /\ ticket = [t \in Tickers |-> NoTicket]
      /\ scan = Idle
  BY DEF Init
<1>2. Entered = {} /\ scan.job = "none" /\ "job" \in DOMAIN scan /\ ~Busy
  BY <1>1 DEF Entered, Idle, Busy
<1>3. Typed
  BY <1>1, <1>2 DEF Typed, EntryTyped, TicketTyped, ScanTyped
<1>4. CapitalHeld
  <2>1. SUFFICES ASSUME NEW p \in Pools PROVE Committed({p}) <= Funds[p]
    BY DEF CapitalHeld
  <2>2. Within({p}) = {} /\ {} \in SUBSET Tickers
    BY <1>2 DEF Within
  <2>3. SumOf(Costs, {}) = 0
    BY <2>2, TickersAssumption, SumStep
  <2>4. Committed({p}) = 0 /\ Funds[p] \in Nat
    BY <2>2, <2>3, SumsAreSums, DollarAssumption DEF Committed
  <2>5. QED
    BY <2>4
<1>5. Vacant /\ Covered
  BY <1>2 DEF Vacant, Covered, Exposed, CashHeld, CashFree, Powered, TicketFits, Seated, Trades,
              Busy
<1>6. QED
  BY <1>3, <1>4, <1>5 DEF Solvent

LEMMA SolventStays == Solvent /\ Sound /\ Sound' /\ [Next]_vars => Solvent'
<1> SUFFICES ASSUME Solvent, Sound, Sound', [Next]_vars PROVE Solvent'
  OBVIOUS
<1>1. SettingsTyped /\ SettingsTyped'
  BY DEF Sound, Shaped
<1>2. ASSUME UNCHANGED <<entry, ticket, scan>> PROVE Solvent'
  <2>1. Typed'
    BY <1>2, SameEntries DEF Solvent, Typed, TicketTyped, ScanTyped, Busy
  <2>2. Fewer /\ SameScan
    <3>1. \A t \in Tickers : Costs[t] \in Nat /\ HeldCosts[t] \in Nat
      BY CostsAreNat DEF Solvent, Typed
    <3>2. \A t \in Entered : t \in Tickers
      BY DEF Entered
    <3>3. QED
      BY <1>2, <3>1, <3>2, SameEntries DEF Fewer, SameScan, Solvent, Typed
  <2>3. QED
    BY <2>1, <2>2, FewerKeeps
<1>3. CASE UserActs \/ FlattenActs \/ UNCHANGED vars
  BY <1>2, <1>3, Frames DEF vars
<1>4. CASE OrderActs
  <2>1. Typed /\ UNCHANGED ticket
    BY <1>4, Frames DEF Solvent
  <2>2. ASSUME NEW t \in Tickers, NEW f, Ease(t, f) PROVE Solvent'
    <3>1. Typed'
      BY <2>1, <2>2, EaseKeepsTypes
    <3>2. Fewer /\ SameScan
      BY <2>1, <2>2, <3>1, EaseFacts
    <3>3. QED
      BY <3>1, <3>2, FewerKeeps
  <2>3. QED
    BY <1>4, <2>1, <2>2, OrdersEase
<1>5. CASE ReadActs
  BY <1>5, BalancesKeep, GateKeeps, CheckKeeps, PositionsKeep, OrdersKeep DEF ReadActs
<1>6. CASE SubmitActs
  BY <1>1, <1>6, TryKeeps, SubmitKeeps DEF SubmitActs
<1>7. CASE StartActs
  BY <1>1, <1>7, StartKeeps
<1>8. QED
  BY <1>3, <1>4, <1>5, <1>6, <1>7, NextByActors

\* In every state each amount that is sized against covers what it must.
THEOREM AlwaysSolvent == Spec => []Solvent
BY InitSolvent, SolventStays, AlwaysSound, PTL DEF Spec

\* A long entry of a scan leaves the cash account within the scan's balance.
LEMMA CashStaysWithin ==
    ASSUME Solvent, SettingsTyped, NEW t \in Tickers, TryEntry(t, "long"),
           scan.uncounted \intersect OnAccount("cash") = {}
    PROVE  Committed({"cash"})' <= scan.equity
<1> DEFINE c == Dollars(t, "long")
<1>1. /\ Busy /\ Trades /\ scan \in ScanType /\ t \notin Entered
      /\ Ramped(SizeOf(t, "long")) \in Nat \ {0} /\ c \in Nat \ {0}
      /\ EntryTyped' /\ Grown(t, "long", c)
  BY TriedEntryFits DEF Kinds
<1>2. /\ "long" \in Kinds /\ AccountOf("long") = "cash" /\ PoolOf("long") = "cash"
      /\ "cash" \in Accounts /\ "cash" \in Pools
  BY DEF Kinds, AccountOf, PoolOf, Accounts, Pools
<1>3. scan.free["cash"] # Unknown /\ scan.reserved["cash"] + c <= scan.free["cash"]
  BY <1>1, <1>2, SizeFits
<1>4. /\ scan.free["cash"] \in Nat /\ scan.reserved["cash"] \in Nat /\ scan.equity \in Nat
      /\ scan.free["cash"] > 0
  <2>1. scan.free["cash"] \in Amounts /\ scan.reserved["cash"] \in Nat /\ scan.equity \in Nat
    BY <1>1, <1>2 DEF ScanType
  <2>2. QED
    BY <1>1, <1>3, <2>1 DEF Amounts
<1>5. EntryTyped /\ CashFree
  BY DEF Solvent, Typed, Covered
<1>6. SumOver(Costs, OnAccount("cash") \ scan.uncounted) + scan.free["cash"]
        <= scan.equity + scan.reserved["cash"]
  BY <1>1, <1>4, <1>5 DEF CashFree, Trades
<1>7. OnAccount("cash") \ scan.uncounted = Within({"cash"})
  <2>1. \A u \in Entered : AccountOf(entry[u].kind) = "cash" <=> PoolOf(entry[u].kind) = "cash"
    BY <1>5, OnAccounts, KindsInPools
  <2>2. OnAccount("cash") = Within({"cash"})
    BY <2>1 DEF OnAccount, Within
  <2>3. QED
    BY <2>2
<1>8. Committed({"cash"}) + scan.free["cash"] <= scan.equity + scan.reserved["cash"]
  BY <1>6, <1>7 DEF Committed
<1>9. /\ Committed({"cash"})' <= Committed({"cash"}) + c
      /\ Committed({"cash"})' \in Nat /\ Committed({"cash"}) \in Nat
  BY <1>1, <1>2, <1>5, CommittedGrows, CommittedIsNat
<1> HIDE DEF c
<1>10. QED
  BY <1>1, <1>3, <1>4, <1>8, <1>9

\* Whatever submits an entry, no pool is drawn on for more than the broker
\* gives it; and what a scan buys stays, with all the cash account holds and
\* has ordered, within the balance the scan sizes against, unless an order
\* filled between its two reads of that account.
THEOREM AlwaysWithinCapital == Spec => WithinCapital
<1>1. ASSUME Solvent, Solvent', Sound, [Next]_vars, NEW t \in Tickers, NEW job \in Jobs,
             Submits(job, t)
      PROVE  /\ \A p \in Pools : Committed({p})' <= Funds[p]
             /\ job = "scan" /\ entry'[t].kind = "long" =>
                  \/ Committed({"cash"})' <= scan.equity
                  \/ scan.uncounted \intersect OnAccount("cash") # {}
  <2>1. \A p \in Pools : Committed({p})' <= Funds[p]
    BY <1>1 DEF Solvent, CapitalHeld
  <2>2. ASSUME job = "scan", entry'[t].kind = "long",
               scan.uncounted \intersect OnAccount("cash") = {}
        PROVE  Committed({"cash"})' <= scan.equity
    <3>1. TryEntry(t, "long")
      BY <1>1, <2>2, WhoSubmits
    <3>2. SettingsTyped
      BY <1>1 DEF Sound, Shaped
    <3>3. QED
      BY <1>1, <2>2, <3>1, <3>2, CashStaysWithin
  <2>3. QED
    BY <2>1, <2>2
<1>2. Solvent /\ Solvent' /\ Sound /\ [Next]_vars =>
        [\A t \in Tickers, job \in Jobs : Submits(job, t) =>
           /\ \A p \in Pools : Committed({p})' <= Funds[p]
           /\ job = "scan" /\ entry'[t].kind = "long" =>
                \/ Committed({"cash"})' <= scan.equity
                \/ scan.uncounted \intersect OnAccount("cash") # {}]_vars
  BY <1>1
<1>3. QED
  BY <1>2, AlwaysSolvent, AlwaysSound, PTL DEF Spec, WithinCapital

\* What fits in the room of a ticker leaves all of them within both limits,
\* and its sector too, when no order went uncounted.
LEMMA LimitsCover ==
    ASSUME EntryTyped, EntryTyped', Exposed, Busy, scan \in ScanType,
           \A a \in Accounts : OrdersRead(a), scan.uncounted = {},
           NEW t \in Tickers \ Entered, NEW k \in Kinds, NEW c \in Nat \ {0}, Grown(t, k, c),
           \A d \in Room(t, scan.equity, scan.exposure) : c <= d
    PROVE  /\ TotalPercent > 0 => Committed(Pools)' <= PercentOf(TotalPercent, scan.equity)
           /\ SectorPercent > 0 =>
                SumOver(Costs, {u \in Entered : Sector[u] = Sector[t]})'
                  <= PercentOf(SectorPercent, scan.equity)
<1> DEFINE v == Costs'
           x == scan.exposure
           R == Within(Pools)'
           Z == {u \in Entered : Sector[u] = Sector[t]}'
           Y == {u \in Tickers : Sector[u] = Sector[t]}
<1>1. x \in [Tickers -> Nat] /\ scan.equity \in Nat
  BY DEF ScanType
<1>2. ASSUME NEW u \in Tickers PROVE Costs[u] \in Nat /\ Costs[u] <= x[u]
  <2>1. Costs[u] \in Nat /\ x[u] \in Nat
    BY <1>1, CostsAreNat
  <2>2. CASE u \in Entered
    <3>1. PICK a \in Accounts : a = AccountOf(entry[u].kind)
      BY <2>2, OnAccounts, KindsInPools
    <3>2. u \in OnAccount(a)
      BY <2>2, <3>1 DEF OnAccount
    <3>3. QED
      BY <2>1, <3>2 DEF Exposed
  <2>3. CASE u \notin Entered
    BY <2>1, <2>3 DEF Costs, Cost
  <2>4. QED
    BY <2>2, <2>3
<1>3. /\ \A u \in Tickers : v[u] \in Nat /\ x[u] \in Nat
      /\ v[t] <= c
      /\ \A u \in Tickers \ {t} : v[u] <= x[u]
  <2>1. /\ \A u \in Tickers : v[u] \in Nat
        /\ \A u \in Tickers \ {t} : v[u] = Costs[u]
        /\ v[t] <= c
    BY GrownCosts
  <2>2. QED
    BY <1>1, <1>2, <2>1
<1>4. /\ R \in SUBSET Tickers /\ Z \in SUBSET Tickers /\ Y \in SUBSET Tickers /\ Z \subseteq Y
      /\ Tickers \in SUBSET Tickers
      /\ IsFiniteSet(Tickers)
  BY TickersAssumption DEF Within, Entered
<1>5. /\ Committed(Pools)' = SumOver(v, R)
      /\ SumOver(Costs, {u \in Entered : Sector[u] = Sector[t]})' = SumOver(v, Z)
      /\ Total(x) = SumOver(x, Tickers) /\ SectorTotal(x, Sector[t]) = SumOver(x, Y)
  BY DEF Committed, Total, SectorTotal
<1>6. /\ TotalPercent > 0 => Total(x) + c <= PercentOf(TotalPercent, scan.equity)
      /\ SectorPercent > 0 => SectorTotal(x, Sector[t]) + c <= PercentOf(SectorPercent, scan.equity)
  BY <1>1, RoomCovers
<1>7. PercentOf(TotalPercent, scan.equity) \in Nat /\ PercentOf(SectorPercent, scan.equity) \in Nat
  BY <1>1, PercentIsNat, LimitAssumption
<1> HIDE DEF v, x, R, Z, Y
<1>8. /\ SumOf(v, R) <= SumOf(x, Tickers) + c /\ SumOf(v, Z) <= SumOf(x, Y) + c
      /\ SumOf(v, R) \in Nat /\ SumOf(v, Z) \in Nat
      /\ SumOf(x, Tickers) \in Nat /\ SumOf(x, Y) \in Nat
  <2>1. SumOf(v, R) <= SumOf(x, Tickers) + c
    BY <1>3, <1>4, OneMore
  <2>2. SumOf(v, Z) <= SumOf(x, Y) + c
    BY <1>3, <1>4, OneMore
  <2>3. /\ SumOf(v, R) \in Nat /\ SumOf(v, Z) \in Nat
        /\ SumOf(x, Tickers) \in Nat /\ SumOf(x, Y) \in Nat
    BY <1>3, <1>4, SumIsNat
  <2>4. QED
    BY <2>1, <2>2, <2>3
<1>9. QED
  BY <1>5, <1>6, <1>7, <1>8, SumsAreSums

\* An entry more takes the seat that was left.
LEMMA SeatTaken ==
    ASSUME EntryTyped, EntryTyped', NEW t \in Tickers \ Entered, NEW k \in Kinds, NEW c \in Nat,
           Grown(t, k, c), Cardinality(LiveTickers) < MaxPositions
    PROVE  Cardinality(LiveTickers') <= MaxPositions
<1>1. IsFiniteSet(LiveTickers) /\ LiveTickers' \subseteq LiveTickers \union {t}
  BY GrownCosts, OnAccounts, FS_Subset
<1>2. Cardinality(LiveTickers) \in Nat /\ MaxPositions \in Nat
  BY <1>1, FS_CardinalityType, LimitAssumption
<1>3. /\ IsFiniteSet(LiveTickers \union {t})
      /\ \/ Cardinality(LiveTickers \union {t}) = Cardinality(LiveTickers)
         \/ Cardinality(LiveTickers \union {t}) = Cardinality(LiveTickers) + 1
  BY <1>1, FS_AddElement
<1>4. /\ Cardinality(LiveTickers') <= Cardinality(LiveTickers \union {t})
      /\ Cardinality(LiveTickers') \in Nat
  BY <1>1, <1>3, FS_Subset, FS_CardinalityType
<1>5. QED
  BY <1>2, <1>3, <1>4

\* What submits an entry has read everything, and found room and a seat.
LEMMA SubmissionFits ==
    ASSUME Solvent, Sound, [Next]_vars, NEW t \in Tickers, NEW job \in Jobs, Submits(job, t)
    PROVE  \E k \in Kinds, c \in Nat \ {0} :
             /\ t \notin Entered /\ EntryTyped' /\ Grown(t, k, c)
             /\ Busy /\ scan \in ScanType /\ \A a \in Accounts : OrdersRead(a)
             /\ \A d \in Room(t, scan.equity, scan.exposure) : c <= d
             /\ MaxPositions > 0 /\ ~scan.rested => Cardinality(LiveTickers) < MaxPositions
<1>1. EntryTyped /\ Covered /\ SettingsTyped
  BY DEF Solvent, Typed, Sound, Shaped
<1>2. IsFiniteSet(LiveTickers) /\ Cardinality(LiveTickers) \in Nat
  <2>1. IsFiniteSet(LiveTickers)
    BY <1>1, OnAccounts, FS_Subset
  <2>2. QED
    BY <2>1, FS_CardinalityType
<1>3. ASSUME NEW kind \in Kinds, TryEntry(t, kind)
      PROVE  /\ t \notin Entered /\ EntryTyped'
             /\ Dollars(t, kind) \in Nat \ {0} /\ Grown(t, kind, Dollars(t, kind))
             /\ Busy /\ scan \in ScanType /\ \A a \in Accounts : OrdersRead(a)
             /\ \A d \in Room(t, scan.equity, scan.exposure) : Dollars(t, kind) <= d
             /\ MaxPositions > 0 /\ ~scan.rested => Cardinality(LiveTickers) < MaxPositions
  <2>1. /\ Busy /\ Trades /\ scan \in ScanType /\ t \notin Entered /\ scan.slots \in Nat \ {0}
        /\ Ramped(SizeOf(t, kind)) \in Nat \ {0} /\ Dollars(t, kind) \in Nat \ {0}
        /\ EntryTyped' /\ Grown(t, kind, Dollars(t, kind))
    BY <1>1, <1>3, TriedEntryFits
  <2>2. \A a \in Accounts : OrdersRead(a)
    BY <2>1 DEF Trades, OrdersRead, OrdersAt
  <2>3. \A d \in Room(t, scan.equity, scan.exposure) : Dollars(t, kind) <= d
    BY <2>1, SizeFits
  <2>4. ASSUME MaxPositions > 0, ~scan.rested PROVE Cardinality(LiveTickers) < MaxPositions
    <3>1. Cardinality(LiveTickers) + scan.slots <= MaxPositions
      BY <1>1, <2>1, <2>4 DEF Covered, Seated
    <3>2. QED
      BY <1>2, <2>1, <3>1, LimitAssumption
  <2>5. QED
    BY <2>1, <2>2, <2>3, <2>4
<1>4. ASSUME SubmitTicket, t = scan.order.ticker
      PROVE  /\ scan.order.kind \in Kinds /\ TicketCost \in Nat \ {0}
             /\ t \notin Entered /\ EntryTyped' /\ Grown(t, scan.order.kind, TicketCost)
             /\ Busy /\ scan \in ScanType /\ \A a \in Accounts : OrdersRead(a)
             /\ \A d \in Room(t, scan.equity, scan.exposure) : TicketCost <= d
             /\ MaxPositions > 0 /\ ~scan.rested => Cardinality(LiveTickers) < MaxPositions
  <2>1. /\ Busy /\ scan.job = "ticket" /\ scan.at = 6 /\ scan \in ScanType
        /\ scan.order \in Orders /\ scan.order.ticker \notin Entered
        /\ TicketCost \in Nat \ {0}
        /\ EntryTyped' /\ Grown(scan.order.ticker, scan.order.kind, TicketCost)
    BY <1>1, <1>4, TicketEntryFits
  <2>2. ~Trades /\ \A a \in Accounts : OrdersRead(a) /\ PositionsRead(a)
    BY <2>1 DEF Trades, OrdersRead, OrdersAt, PositionsRead, PositionsAt
  <2>3. /\ \A d \in Room(t, scan.equity, scan.exposure) : TicketCost <= d
        /\ MaxPositions > 0 => scan.positions < MaxPositions
    BY <1>1, <1>4, <2>1 DEF Covered, TicketFits
  <2>4. ASSUME MaxPositions > 0, ~scan.rested PROVE Cardinality(LiveTickers) < MaxPositions
    <3>1. LiveOn = LiveTickers
      BY <1>1, <2>2, OnAccounts, KindsInPools DEF LiveOn
    <3>2. Cardinality(LiveTickers) <= scan.positions /\ scan.positions \in Nat
      BY <1>1, <2>1, <2>2, <2>4, <3>1 DEF Covered, Seated, ScanType
    <3>3. QED
      BY <1>2, <2>3, <2>4, <3>2, LimitAssumption
  <2>5. scan.order.kind \in Kinds
    BY <2>1 DEF Orders
  <2>6. QED
    BY <1>4, <2>1, <2>2, <2>3, <2>4, <2>5
<1>5. CASE job = "scan"
  <2>1. PICK kind \in Kinds : TryEntry(t, kind)
    BY <1>5, WhoSubmits
  <2>2. QED
    BY <1>3, <2>1
<1>6. CASE job = "ticket"
  <2>1. SubmitTicket /\ t = scan.order.ticker
    BY <1>6, WhoSubmits
  <2>2. QED
    BY <1>4, <2>1
<1>7. QED
  BY <1>5, <1>6 DEF Jobs

\* Whatever submits an entry, everything together stays within the total and
\* the sector limit, unless an order was counted in neither list or its list
\* was not read; and within max_positions, unless an entry rested unfilled
\* when positions were read.
THEOREM AlwaysWithinLimits == Spec => WithinLimits
<1>1. ASSUME Solvent, Sound, [Next]_vars, NEW t \in Tickers, NEW job \in Jobs, Submits(job, t)
      PROVE  /\ TotalPercent > 0 /\ scan.uncounted = {} =>
                  Committed(Pools)' <= PercentOf(TotalPercent, scan.equity)
             /\ SectorPercent > 0 /\ scan.uncounted = {} =>
                  SumOver(Costs, {u \in Entered : Sector[u] = Sector[t]})'
                    <= PercentOf(SectorPercent, scan.equity)
             /\ MaxPositions > 0 /\ ~scan.rested =>
                  Cardinality({u \in Tickers : Live(u)}') <= MaxPositions
  <2>1. PICK k \in Kinds, c \in Nat \ {0} :
             /\ t \notin Entered /\ EntryTyped' /\ Grown(t, k, c)
             /\ Busy /\ scan \in ScanType /\ \A a \in Accounts : OrdersRead(a)
             /\ \A d \in Room(t, scan.equity, scan.exposure) : c <= d
             /\ MaxPositions > 0 /\ ~scan.rested => Cardinality(LiveTickers) < MaxPositions
    BY <1>1, SubmissionFits
  <2>2. EntryTyped /\ Exposed
    BY <1>1 DEF Solvent, Typed, Covered
  <2>3. scan.uncounted = {} =>
          /\ TotalPercent > 0 => Committed(Pools)' <= PercentOf(TotalPercent, scan.equity)
          /\ SectorPercent > 0 =>
               SumOver(Costs, {u \in Entered : Sector[u] = Sector[t]})'
                 <= PercentOf(SectorPercent, scan.equity)
    BY <2>1, <2>2, LimitsCover
  <2>4. MaxPositions > 0 /\ ~scan.rested => Cardinality(LiveTickers') <= MaxPositions
    BY <2>1, <2>2, SeatTaken
  <2>5. QED
    BY <2>3, <2>4 DEF LiveTickers
<1>2. Solvent /\ Sound /\ [Next]_vars =>
        [\A t \in Tickers, job \in Jobs : Submits(job, t) =>
           /\ TotalPercent > 0 /\ scan.uncounted = {} =>
                Committed(Pools)' <= PercentOf(TotalPercent, scan.equity)
           /\ SectorPercent > 0 /\ scan.uncounted = {} =>
                SumOver(Costs, {u \in Entered : Sector[u] = Sector[t]})'
                  <= PercentOf(SectorPercent, scan.equity)
           /\ MaxPositions > 0 /\ ~scan.rested =>
                Cardinality({u \in Tickers : Live(u)}') <= MaxPositions]_vars
  BY <1>1
<1>3. QED
  BY <1>2, AlwaysSolvent, AlwaysSound, PTL DEF Spec, WithinLimits

---------------------------------------------------------------------------
(* A close of everything.                                                  *)

FlattenTyped ==
    flatten \in [at : {"none", "list", "cancel", "close"}, cancel : SUBSET Tickers,
                 asked : SUBSET Tickers, beyond : SUBSET Tickers, close : [Tickers -> Nat],
                 sent : [Tickers -> Nat], ok : BOOLEAN]

\* What a close of everything without an error has asked for an entry so far,
\* and has left to ask for.
Seen(t) == ~entry[t].late /\ t \notin flatten.beyond
Due(t) ==
    flatten.ok /\ Seen(t) =>
        /\ flatten.at # "list" /\ Working(t) => t \in flatten.asked
        /\ flatten.at = "close" => Held(t) <= Closing(t) + flatten.close[t]
        /\ flatten.at = "none" => Held(t) <= Closing(t)
Sought ==
    /\ FlattenTyped
    /\ flatten.ok => settings.stopped
    /\ \A t \in Entered : Due(t)
Kept(t) == t \in Entered => Due(t)

\* The request goes on, and an entry with what is asked for it is as it was.
Continues ==
    flatten'.ok => /\ flatten.ok /\ flatten'.at = flatten.at
                   /\ flatten'.asked = flatten.asked
                   /\ flatten.beyond \subseteq flatten'.beyond
Left(t) ==
    /\ t \in Tickers /\ entry'[t] = entry[t]
    /\ flatten'.sent[t] = flatten.sent[t] /\ flatten'.close[t] = flatten.close[t]

LEMMA LeftIsKept ==
    ASSUME Sought, Continues, NEW t \in Tickers, Left(t)
    PROVE  Kept(t)'
<1>1. /\ Held(t)' = Held(t) /\ Closing(t)' = Closing(t)
      /\ t \in Entered' <=> t \in Entered
      /\ Working(t)' <=> Working(t)
  BY DEF Left, Held, Closing, Entered, Working
<1>2. Due(t) /\ t \in Entered => Due(t)'
  BY <1>1 DEF Due, Seen, Continues, Left, Closing
<1>3. QED
  BY <1>1, <1>2 DEF Sought, Kept

\* Everything is kept when it is for every ticker.
LEMMA AllKept ==
    ASSUME FlattenTyped', flatten'.ok => settings'.stopped, \A t \in Tickers : Kept(t)'
    PROVE  Sought'
BY DEF Sought, Kept, Entered

LEMMA HeldIsNat ==
    ASSUME Typed, NEW t \in Tickers
    PROVE  Held(t) \in Nat
BY EntryAmounts DEF Typed, Held

\* The user.
LEMMA UserSeeks ==
    ASSUME Sought, SettingsTyped, UserActs
    PROVE  Sought'
<1>1. UNCHANGED entry /\ \A t \in Tickers : entry'[t] = entry[t]
  BY Frames
<1>2. CASE CloseEverything
  <2>1. flatten'.at = "list" /\ FlattenTyped' /\ settings'.stopped
    <3>1. settings'.stopped
      BY <1>2 DEF CloseEverything, Stopped, SettingsTyped
    <3>2. flatten'.at = "list" /\ FlattenTyped'
      BY <1>2 DEF CloseEverything, Sought, FlattenTyped
    <3>3. QED
      BY <3>1, <3>2
  <2>2. ASSUME NEW t \in Tickers PROVE Kept(t)'
    BY <2>1 DEF Kept, Due
  <2>3. QED
    BY <2>1, <2>2, AllKept
<1>3. CASE ~CloseEverything
  <2>1. /\ FlattenTyped' /\ Continues /\ \A t \in Tickers : Left(t)
        /\ flatten'.ok => settings'.stopped
    <3>1. CASE ResetStop
      BY <1>1, <3>1 DEF ResetStop, Erring, Sought, FlattenTyped, Continues, Left
    <3>2. CASE EmergencyStop
      BY <1>1, <3>2
         DEF EmergencyStop, Stopped, Sought, SettingsTyped, FlattenTyped, Continues, Left
    <3>3. ASSUME NEW m \in Modes, SetMode(m)
          PROVE  /\ FlattenTyped' /\ Continues /\ \A t \in Tickers : Left(t)
                 /\ flatten'.ok => settings'.stopped
      BY <1>1, <3>3 DEF SetMode, Sought, SettingsTyped, FlattenTyped, Continues, Left
    <3>4. QED
      BY <1>3, <3>1, <3>2, <3>3 DEF UserActs
  <2>2. QED
    BY <2>1, LeftIsKept, AllKept
<1>4. QED
  BY <1>2, <1>3

\* The request's own steps.
LEMMA RequestSeeks ==
    ASSUME Sought, Typed, FlattenActs
    PROVE  Sought'
<1>1. UNCHANGED <<entry, settings>>
  BY Frames
<1>2. /\ \A t \in Tickers : Held(t)' = Held(t) /\ Held(t) \in Nat /\ entry'[t] = entry[t]
      /\ \A t \in Tickers : Working(t)' <=> Working(t)
      /\ Entered' = Entered
  BY <1>1, HeldIsNat DEF Held, Working, Entered
<1>3. CASE GivesUp
  <2>1. FlattenTyped' /\ Continues /\ \A t \in Tickers : Left(t)
    BY <1>2, <1>3 DEF GivesUp, Erring, Sought, FlattenTyped, Continues, Left
  <2>2. ~flatten'.ok
    BY <1>3 DEF GivesUp, Erring, Sought, FlattenTyped
  <2>3. QED
    BY <2>1, <2>2, LeftIsKept, AllKept
<1>4. CASE ListOrders
  <2>1. SUFFICES ASSUME NEW u \in SUBSET {t \in Tickers : Working(t) /\ Held(t) = 0},
                        flatten' = [Step1("cancel") EXCEPT !.cancel = Listed(u),
                                          !.asked = Listed(u), !.beyond = u]
                 PROVE  Sought'
    BY <1>3, <1>4 DEF ListOrders
  <2>2. u \subseteq Tickers /\ Listed(u) \subseteq Tickers
    BY DEF Listed, OpenOrders
  <2>3. /\ FlattenTyped' /\ flatten'.at = "cancel" /\ flatten'.ok = flatten.ok
        /\ flatten'.sent = flatten.sent /\ flatten'.asked = Listed(u) /\ flatten'.beyond = u
    BY <2>1, <2>2 DEF Step1, Sought, FlattenTyped
  <2>4. ASSUME NEW t \in Tickers PROVE Kept(t)'
    <3>1. Closing(t)' = Closing(t)
      BY <2>3 DEF Closing
    <3>2. Working(t) => t \in u \/ t \in Listed(u)
      BY DEF Listed, OpenOrders
    <3>3. QED
      BY <1>2, <2>3, <3>1, <3>2 DEF Kept, Due, Seen, Sought
  <2>5. QED
    BY <1>1, <2>3, <2>4, AllKept DEF Sought
<1>5. ASSUME NEW u \in Tickers, CancelOrder(u) PROVE Sought'
  <2>1. /\ FlattenTyped' /\ flatten.at = "cancel" /\ Continues
        /\ \A t \in Tickers : flatten'.sent[t] \in {0, flatten.sent[t]}
        /\ flatten'.ok => flatten'.at = "cancel"
    <3>1. CASE \E r \in {0, Closing(u)} :
                 flatten' = [flatten EXCEPT !.cancel = @ \ {u}, !.sent[u] = r]
      <4>1. PICK r \in {0, Closing(u)} :
              flatten' = [flatten EXCEPT !.cancel = @ \ {u}, !.sent[u] = r]
        BY <3>1
      <4>2. r \in Nat
        BY DEF Closing, Sought, FlattenTyped
      <4>3. FlattenTyped'
        BY <4>1, <4>2 DEF Sought, FlattenTyped
      <4>4. /\ flatten.at = "cancel" /\ flatten'.at = flatten.at /\ flatten'.ok = flatten.ok
            /\ flatten'.asked = flatten.asked /\ flatten'.beyond = flatten.beyond
            /\ flatten'.sent = [flatten.sent EXCEPT ![u] = r]
        BY <1>5, <4>1 DEF CancelOrder, Sought, FlattenTyped
      <4>5. QED
        BY <4>2, <4>3, <4>4 DEF Continues, Closing, Sought, FlattenTyped
    <3>2. CASE flatten' = [Erring EXCEPT !.cancel = @ \ {u}]
      BY <1>5, <3>2 DEF CancelOrder, Erring, Continues, Sought, FlattenTyped
    <3>3. QED
      BY <1>5, <3>1, <3>2 DEF CancelOrder
  <2>2. ASSUME NEW t \in Tickers PROVE Kept(t)'
    BY <1>2, <2>1 DEF Kept, Due, Seen, Continues, Sought
  <2>3. QED
    BY <1>1, <2>1, <2>2, AllKept DEF Continues, Sought
<1>6. CASE ListPositions
  <2>1. SUFFICES ASSUME flatten' = [Step1("close") EXCEPT !.close = [t \in Tickers |-> Held(t)]]
                 PROVE  Sought'
    BY <1>3, <1>6 DEF ListPositions
  <2> DEFINE h == [t \in Tickers |-> Held(t)]
  <2>2. h \in [Tickers -> Nat]
    BY <1>2
  <2>3. flatten' = [Step1("close") EXCEPT !.close = h]
    BY <2>1
  <2> HIDE DEF h
  <2>4. /\ FlattenTyped' /\ flatten'.at = "close" /\ flatten'.ok = flatten.ok
        /\ flatten'.sent = flatten.sent /\ flatten'.asked = flatten.asked
        /\ flatten'.beyond = flatten.beyond /\ flatten'.close = h
    BY <2>2, <2>3 DEF Step1, Sought, FlattenTyped
  <2>5. flatten.at = "cancel"
    BY <1>6 DEF ListPositions
  <2>6. ASSUME NEW t \in Tickers PROVE Kept(t)'
    <3>1. Closing(t)' = Closing(t) /\ Closing(t) \in Nat
      BY <2>4 DEF Closing, Sought, FlattenTyped
    <3>2. flatten'.close[t] = Held(t)
      BY <2>4 DEF h
    <3>3. Held(t) <= Closing(t) + Held(t)
      BY <1>2, <3>1
    <3>4. QED
      BY <1>2, <2>4, <2>5, <3>1, <3>2, <3>3 DEF Kept, Due, Seen, Sought
  <2>7. QED
    BY <1>1, <2>4, <2>6, AllKept DEF Sought
<1>7. ASSUME NEW u \in Tickers, ClosePosition(u) PROVE Sought'
  <2>1. CASE flatten' = [Erring EXCEPT !.close[u] = 0]
    <3>1. /\ FlattenTyped' /\ ~flatten'.ok /\ flatten'.sent = flatten.sent
      BY <2>1 DEF Erring, Sought, FlattenTyped
    <3>2. ASSUME NEW t \in Tickers PROVE Kept(t)'
      BY <1>2, <3>1 DEF Kept, Due, Closing, Sought
    <3>3. QED
      BY <3>1, <3>2, AllKept
  <2>2. CASE /\ Closing(u) + flatten.close[u] <= Held(u)
             /\ flatten' = [flatten EXCEPT !.close[u] = 0, !.sent[u] = @ + flatten.close[u]]
    <3> DEFINE m == flatten.sent[u] + flatten.close[u]
    <3>1. m \in Nat /\ m <= Held(u) /\ flatten.at = "close"
      BY <1>7, <2>2 DEF ClosePosition, Closing, Sought, FlattenTyped
    <3>2. flatten' = [flatten EXCEPT !.close[u] = 0, !.sent[u] = m]
      BY <2>2
    <3>3. \A t \in Tickers : flatten.sent[t] \in Nat /\ flatten.close[t] \in Nat
      BY DEF Sought, FlattenTyped
    <3>4. m = flatten.sent[u] + flatten.close[u]
      OBVIOUS
    <3> HIDE DEF m
    <3>5. /\ FlattenTyped' /\ flatten'.at = flatten.at /\ flatten'.ok = flatten.ok
          /\ flatten'.asked = flatten.asked /\ flatten'.beyond = flatten.beyond
          /\ flatten'.sent = [flatten.sent EXCEPT ![u] = m]
          /\ flatten'.close = [flatten.close EXCEPT ![u] = 0]
      BY <3>1, <3>2 DEF Sought, FlattenTyped
    <3>6. Continues
      BY <3>5 DEF Continues
    <3>7. ASSUME NEW t \in Tickers PROVE Kept(t)'
      <4>1. CASE t # u
        BY <1>2, <3>5, <3>6, <4>1, LeftIsKept DEF Left, Sought, FlattenTyped
      <4>2. CASE t = u
        <5>1. Closing(u)' = m /\ flatten'.close[u] = 0
          BY <3>5 DEF Closing, Sought, FlattenTyped
        <5>2. u \in Entered => Due(u)'
          BY <1>2, <3>1, <3>3, <3>4, <3>5, <5>1 DEF Due, Seen, Closing, Sought
        <5>3. QED
          BY <1>2, <3>1, <4>2, <5>1, <5>2 DEF Kept
      <4>3. QED
        BY <4>1, <4>2
    <3>8. QED
      BY <1>1, <3>5, <3>7, AllKept DEF Sought
  <2>3. QED
    BY <1>7, <2>1, <2>2 DEF ClosePosition
<1>8. CASE AllClosed
  <2>1. /\ FlattenTyped' /\ flatten'.at = "none" /\ flatten'.ok = flatten.ok
        /\ flatten'.sent = flatten.sent /\ flatten'.asked = flatten.asked
        /\ flatten'.beyond = flatten.beyond
        /\ flatten.at = "close" /\ \A t \in Tickers : flatten.close[t] = 0
    BY <1>8 DEF AllClosed, Step1, Sought, FlattenTyped
  <2>2. ASSUME NEW t \in Tickers PROVE Kept(t)'
    <3>1. Closing(t)' = Closing(t) /\ Closing(t) \in Nat /\ flatten.close[t] = 0
      BY <2>1 DEF Closing, Sought, FlattenTyped
    <3>2. QED
      BY <1>2, <2>1, <3>1 DEF Kept, Due, Seen, Sought
  <2>3. QED
    BY <1>1, <2>1, <2>2, AllKept DEF Sought
<1>9. QED
  BY <1>4, <1>5, <1>6, <1>7, <1>8 DEF FlattenActs

\* Orders and positions. What an order buys that fills late, is beyond.
LEMMA OrdersSeek ==
    ASSUME Sought, Typed, OrderActs
    PROVE  Sought'
<1>1. UNCHANGED settings
  BY Frames
<1>2. ASSUME NEW u \in Tickers, NEW f, entry' = [entry EXCEPT ![u] = f],
             FlattenTyped', Continues, NEW n, flatten'.sent = [flatten.sent EXCEPT ![u] = n],
             flatten'.close = flatten.close, Kept(u)'
      PROVE  Sought'
  <2>1. ASSUME NEW t \in Tickers, t # u PROVE Left(t)
    BY <1>2, <2>1 DEF Left, Sought, FlattenTyped, Typed, EntryTyped
  <2>2. \A t \in Tickers : Kept(t)'
    BY <1>2, <2>1, LeftIsKept
  <2>3. QED
    BY <1>1, <1>2, <2>2, AllKept DEF Continues, Sought
<1>3. ASSUME NEW u \in Tickers
      PROVE  /\ flatten.sent = [flatten.sent EXCEPT ![u] = flatten.sent[u]]
             /\ Closing(u) \in Nat /\ flatten.close[u] \in Nat
             /\ u \in Entered => entry[u] \in Entries /\ Due(u) /\ Held(u) = entry[u].filled
             /\ \A f : entry' = [entry EXCEPT ![u] = f] => entry'[u] = f
  BY EntryAmounts DEF Sought, FlattenTyped, Closing, Typed, EntryTyped
<1>4. ASSUME NEW u \in Tickers, UNCHANGED flatten, NEW f, entry' = [entry EXCEPT ![u] = f],
             u \in Entered,
             f # NoEntry => /\ f.filled = Held(u) /\ f.late = entry[u].late
                            /\ f.open = TRUE => Working(u)
      PROVE  Sought'
  <2>1. FlattenTyped' /\ Continues /\ flatten'.sent = [flatten.sent EXCEPT ![u] = flatten.sent[u]]
    BY <1>3, <1>4 DEF Sought, FlattenTyped, Continues
  <2>2. entry'[u] = f
    BY <1>3, <1>4
  <2>3. Kept(u)'
    <3>1. CASE f = NoEntry
      BY <2>2, <3>1 DEF Kept, Entered
    <3>2. CASE f # NoEntry
      <4>1. Held(u)' = Held(u) /\ (Working(u)' => Working(u)) /\ Closing(u)' = Closing(u)
        BY <1>4, <2>2, <3>2 DEF Held, Working, Entered, Closing
      <4>2. QED
        BY <1>3, <1>4, <2>2, <3>2, <4>1 DEF Kept, Due, Seen
    <3>3. QED
      BY <3>1, <3>2
  <2>4. QED
    BY <1>2, <1>4, <2>1, <2>3
<1>5. ASSUME NEW u \in Tickers, Fill(u) PROVE Sought'
  <2>1. u \in Entered /\ Working(u) /\ entry[u] \in Entries
    BY <1>3, <1>5 DEF Fill, Working
  <2>2. PICK n \in Held(u) + 1 .. entry[u].quantity :
          entry' = [entry EXCEPT ![u].filled = n, ![u].open = n < entry[u].quantity]
    BY <1>5 DEF Fill
  <2> DEFINE b == n < entry[u].quantity
             f == [entry[u] EXCEPT !.filled = n, !.open = b]
  <2>3. entry' = [entry EXCEPT ![u] = f]
    BY <2>2
  <2> HIDE DEF b
  <2>4. f.late = entry[u].late
    BY <2>1 DEF Entries
  <2> HIDE DEF f
  <2>5. flatten' = Slipping(u)
    BY <1>5 DEF Fill
  <2> DEFINE q == flatten.beyond \union {u}
  <2>6. CASE flatten' = [flatten EXCEPT !.beyond = q]
    <3>1. /\ FlattenTyped' /\ Continues /\ flatten'.sent = flatten.sent
          /\ flatten'.close = flatten.close /\ u \in flatten'.beyond
      BY <2>6 DEF Sought, FlattenTyped, Continues
    <3>2. Kept(u)'
      BY <3>1 DEF Kept, Due, Seen
    <3>3. flatten'.sent = [flatten.sent EXCEPT ![u] = flatten.sent[u]]
      BY <1>3, <3>1
    <3>4. QED
      BY <1>2, <2>3, <3>1, <3>2, <3>3
  <2>7. CASE UNCHANGED flatten /\ (flatten.ok => flatten.at \in {"list", "cancel"})
    <3>1. FlattenTyped' /\ Continues
      BY <2>7 DEF Sought, FlattenTyped, Continues
    <3>2. Kept(u)'
      <4>1. entry'[u].late = entry[u].late
        BY <1>3, <2>3, <2>4
      <4>2. QED
        BY <1>3, <2>1, <2>7, <4>1 DEF Kept, Due, Seen
    <3>3. QED
      BY <1>2, <1>3, <2>3, <2>7, <3>1, <3>2
  <2>8. QED
    BY <2>5, <2>6, <2>7 DEF Slipping, Sought, FlattenTyped
<1>6. ASSUME NEW u \in Tickers, EndOrder(u) PROVE Sought'
  <2> DEFINE h == Held(u)
             f == [entry[u] EXCEPT !.open = FALSE, !.quantity = h]
  <2>1. u \in Entered /\ entry[u] \in Entries /\ UNCHANGED flatten
    BY <1>3, <1>6 DEF EndOrder, Working
  <2>2. entry' = [entry EXCEPT ![u] = f] \/ entry' = [entry EXCEPT ![u] = NoEntry]
    BY <1>6 DEF EndOrder, Ended
  <2> HIDE DEF h
  <2>3. f.filled = Held(u) /\ f.late = entry[u].late /\ f.open = FALSE
    BY <1>3, <2>1 DEF Entries
  <2> HIDE DEF f
  <2>4. QED
    BY <1>4, <2>1, <2>2, <2>3
<1>7. ASSUME NEW u \in Tickers, Resolve(u) PROVE Sought'
  <2> DEFINE f == [entry[u] EXCEPT !.sure = TRUE]
  <2>1. u \in Entered /\ entry[u] \in Entries /\ UNCHANGED flatten
    BY <1>3, <1>7 DEF Resolve
  <2>2. entry' = [entry EXCEPT ![u] = f] \/ entry' = [entry EXCEPT ![u] = NoEntry]
    BY <1>7 DEF Resolve
  <2>3. f.filled = Held(u) /\ f.late = entry[u].late /\ f.open = entry[u].open
    BY <1>3, <2>1 DEF Entries
  <2>4. f.open = TRUE => Working(u)
    BY <2>1, <2>3 DEF Working
  <2> HIDE DEF f
  <2>5. QED
    BY <1>4, <2>1, <2>2, <2>3, <2>4
<1>8. ASSUME NEW u \in Tickers, ExitPosition(u) PROVE Sought'
  <2>1. /\ entry' = [entry EXCEPT ![u] = NoEntry]
        /\ flatten' = [flatten EXCEPT !.sent = [flatten.sent EXCEPT ![u] = 0]]
    BY <1>8 DEF ExitPosition
  <2>2. /\ FlattenTyped' /\ Continues /\ flatten'.close = flatten.close
        /\ flatten'.sent = [flatten.sent EXCEPT ![u] = 0]
    BY <2>1 DEF Sought, FlattenTyped, Continues
  <2>3. Kept(u)'
    BY <1>3, <2>1 DEF Kept, Entered
  <2>4. QED
    BY <1>2, <2>1, <2>2, <2>3
<1>9. ASSUME NEW u \in Tickers, CloseFills(u) PROVE Sought'
  <2>1. PICK n \in 1..Held(u) :
          /\ n <= Closing(u) /\ entry' = [entry EXCEPT ![u] = Sold(u, n)]
          /\ flatten' = [flatten EXCEPT !.sent[u] = @ - n]
    BY <1>9 DEF CloseFills
  <2>2. u \in Entered
    BY <2>1 DEF Held
  <2> DEFINE m == flatten.sent[u] - n
             f == [entry[u] EXCEPT !.quantity = @ - n, !.filled = @ - n]
  <2>3. /\ m \in Nat /\ m = Closing(u) - n /\ Closing(u) \in Nat
        /\ flatten' = [flatten EXCEPT !.sent = [flatten.sent EXCEPT ![u] = m]]
    <3>1. Closing(u) \in Nat /\ n \in Nat /\ n <= Closing(u) /\ Closing(u) = flatten.sent[u]
      <4>1. Held(u) \in Nat
        BY HeldIsNat
      <4>2. n \in Nat
        BY <2>1, <4>1
      <4>3. Closing(u) \in Nat
        BY <1>3
      <4>4. QED
        BY <2>1, <4>2, <4>3 DEF Closing
    <3>2. m = Closing(u) - n
      BY <3>1
    <3> DEFINE c == Closing(u)
    <3>3. c - n \in Nat
      <4> HIDE DEF c
      <4>1. c \in Nat /\ n \in Nat /\ n <= c
        BY <3>1 DEF c
      <4>2. QED
        BY <4>1
    <3>4. QED
      BY <2>1, <3>1, <3>2, <3>3
  <2>4. /\ f.filled = Held(u) - n /\ f.late = entry[u].late /\ f.open = entry[u].open
        /\ Held(u) \in Nat
    BY <1>3, <2>2 DEF Entries
  <2>5. Sold(u, n) = NoEntry \/ Sold(u, n) = f
    BY DEF Sold
  <2> HIDE DEF m, f
  <2>6. /\ FlattenTyped' /\ Continues /\ flatten'.close = flatten.close
        /\ flatten'.sent = [flatten.sent EXCEPT ![u] = m]
        /\ flatten'.ok = flatten.ok /\ flatten'.at = flatten.at
        /\ flatten'.asked = flatten.asked /\ flatten'.beyond = flatten.beyond
    BY <2>3 DEF Sought, FlattenTyped, Continues
  <2>7. Kept(u)'
    <3>1. CASE entry'[u] = NoEntry
      BY <3>1 DEF Kept, Entered
    <3>2. CASE entry'[u] = f /\ f # NoEntry
      <4>1. /\ Held(u)' = Held(u) - n /\ (Working(u)' => Working(u))
            /\ Closing(u)' = Closing(u) - n
        BY <2>2, <2>3, <2>4, <2>6, <3>2 DEF Held, Working, Entered, Closing, Sought, FlattenTyped
      <4>2. flatten'.close[u] = flatten.close[u] /\ flatten.close[u] \in Nat
        BY <1>3, <2>6
      <4>3. /\ Held(u) <= Closing(u) => Held(u)' <= Closing(u)'
            /\ Held(u) <= Closing(u) + flatten.close[u]
                 => Held(u)' <= Closing(u)' + flatten'.close[u]
        BY <2>3, <2>4, <4>1, <4>2
      <4>4. QED
        BY <1>3, <2>2, <2>4, <2>6, <3>2, <4>1, <4>3 DEF Kept, Due, Seen
    <3>3. QED
      BY <1>3, <2>1, <2>5, <3>1, <3>2
  <2>8. QED
    BY <1>2, <2>1, <2>6, <2>7
<1>10. QED
  BY <1>5, <1>6, <1>7, <1>8, <1>9 DEF OrderActs

\* What is submitted while the stop is on, is late.
LEMMA SubmissionsSeek ==
    ASSUME Sought, Typed, SubmitActs
    PROVE  Sought'
<1>1. UNCHANGED <<settings, flatten>>
  BY Frames
<1>2. FlattenTyped' /\ Continues
  BY <1>1 DEF Sought, FlattenTyped, Continues
<1>3. CASE UNCHANGED entry
  <2>1. \A t \in Tickers : Left(t)
    BY <1>1, <1>3 DEF Left
  <2>2. QED
    BY <1>1, <1>2, <2>1, LeftIsKept, AllKept DEF Sought
<1>4. ASSUME NEW u \in Tickers, NEW kind, NEW n, NEW landed, NEW sure,
             entry' = [entry EXCEPT ![u] = NewEntry(kind, n, landed, sure)]
      PROVE  Sought'
  <2>1. NewEntry(kind, n, landed, sure).late = settings.stopped
    BY DEF NewEntry
  <2>2. /\ entry'[u].late = settings.stopped
        /\ \A t \in Tickers \ {u} : entry'[t] = entry[t]
    BY <1>4, <2>1 DEF Typed, EntryTyped
  <2>3. ASSUME NEW t \in Tickers PROVE Kept(t)'
    <3>1. CASE t = u
      BY <1>1, <2>2, <3>1 DEF Kept, Due, Seen, Sought
    <3>2. CASE t # u
      BY <1>1, <1>2, <2>2, <3>2, LeftIsKept DEF Left
    <3>3. QED
      BY <3>1, <3>2
  <2>4. QED
    BY <1>1, <1>2, <2>3, AllKept DEF Sought
<1>5. ASSUME NEW t \in Tickers, NEW kind \in Kinds, TryEntry(t, kind) PROVE Sought'
  <2>1. UNCHANGED entry \/ \E n, landed, sure :
          entry' = [entry EXCEPT ![t] = NewEntry(kind, n, landed, sure)]
    BY <1>5 DEF TryEntry, Accepted, Unclear
  <2>2. QED
    BY <1>3, <1>4, <2>1
<1>6. CASE SubmitTicket
  <2>1. scan.order.ticker \in Tickers
    BY <1>6, StepIsAt DEF SubmitTicket, Taking, Typed, ScanTyped, Orders
  <2>2. UNCHANGED entry \/ \E landed, sure :
          entry' = [entry EXCEPT ![scan.order.ticker] =
              NewEntry(scan.order.kind, scan.order.quantity, landed, sure)]
    BY <1>6 DEF SubmitTicket, Accepted, Unclear
  <2>3. QED
    BY <1>3, <1>4, <2>1, <2>2
<1>7. QED
  BY <1>5, <1>6 DEF SubmitActs

LEMMA InitSought == Init => Sought
<1> SUFFICES ASSUME Init PROVE Sought
  OBVIOUS
<1>1. flatten = [at |-> "none", cancel |-> {}, asked |-> {}, beyond |-> {},
                 close |-> [t \in Tickers |-> 0], sent |-> [t \in Tickers |-> 0], ok |-> FALSE]
  BY DEF Init
<1>2. FlattenTyped /\ ~flatten.ok
  BY <1>1 DEF FlattenTyped
<1>3. QED
  BY <1>2 DEF Sought, Due

LEMMA SoughtStays == Sought /\ Solvent /\ Sound /\ [Next]_vars => Sought'
<1> SUFFICES ASSUME Sought, Solvent, Sound, [Next]_vars PROVE Sought'
  OBVIOUS
<1>1. Typed /\ SettingsTyped
  BY DEF Solvent, Sound, Shaped
<1>2. CASE UNCHANGED <<settings, entry, flatten>>
  <2>1. FlattenTyped' /\ Continues /\ \A t \in Tickers : Left(t)
    BY <1>2 DEF Sought, FlattenTyped, Continues, Left
  <2>2. QED
    BY <1>2, <2>1, LeftIsKept, AllKept DEF Sought
<1>3. QED
  BY <1>1, <1>2, UserSeeks, RequestSeeks, OrdersSeek, SubmissionsSeek, NextByActors, Frames DEF vars

\* In every state what is left to be asked for covers every entry not late.
THEOREM AlwaysSought == Spec => []Sought
BY InitSought, SoughtStays, AlwaysSolvent, AlwaysSound, PTL DEF Spec

\* A close of everything that ended without an error overlooked nothing until
\* the stop is reset: every order was asked to be cancelled, and every share
\* to be sold, but for what it could not see.
THEOREM NothingIsOverlooked == Spec => []NothingOverlooked
<1>1. Sought => NothingOverlooked
  BY DEF Sought, Due, Seen, NothingOverlooked
<1>2. QED
  BY <1>1, AlwaysSought, PTL

---------------------------------------------------------------------------
(* The types.                                                              *)

\* What the invariants above leave of them.
Counted ==
    /\ ticket \in [Tickers -> [kind : Kinds, quantity : Nat] \union {NoTicket}]
    /\ peak \in Nat /\ events \in 0..MaxEvents

LEMMA InitCounted == Init => Counted
BY LimitAssumption DEF Init, Counted

LEMMA CountedStays == Counted /\ Solvent /\ Sound /\ [Next]_vars => Counted'
<1> SUFFICES ASSUME Counted, Solvent, Sound, [Next]_vars PROVE Counted'
  OBVIOUS
<1> USE LimitAssumption
<1>1. \A n \in Nat : Events(n) => events' \in 0..MaxEvents
  BY DEF Events, Counted
<1>2. Press \/ Fault => events' \in 0..MaxEvents
  BY <1>1 DEF Press, Fault
<1>3. ASSUME NEW e \in Nat, NEW b \in BOOLEAN PROVE PeakWith(e, b) \in Nat
  BY DEF PeakWith, Counted
<1>4. CASE UNCHANGED vars
  BY <1>4 DEF vars, Counted
<1>5. CASE UserActs
  <2>1. UNCHANGED <<ticket, peak>>
    BY <1>5, Frames
  <2>2. events' \in 0..MaxEvents
    BY <1>1, <1>2, <1>5 DEF UserActs, SetMode, EmergencyStop, ResetStop, CloseEverything, Counted
  <2>3. QED
    BY <2>1, <2>2 DEF Counted
<1>6. CASE FlattenActs \/ OrderActs
  BY <1>6, Frames DEF Counted
<1>7. CASE ReadActs
  <2>1. UNCHANGED ticket
    BY <1>7, Frames
  <2>2. events' \in 0..MaxEvents
    BY <1>2, <1>7
       DEF ReadActs, ReadBalances, Gate, CheckTicket, ReadPositions, ReadOrders, Restarting, Counted
  <2>3. peak' \in Nat
    <3>1. Busy => scan.equity \in Nat
      BY DEF Sound, Shaped, ScanShaped
    <3>2. Gate => peak' \in Nat
      BY <1>3, <3>1 DEF Gate, Taking
    <3>3. CheckTicket => peak' \in Nat
      BY <1>3, DollarAssumption DEF CheckTicket, Counted
    <3>4. QED
      BY <1>7, <3>2, <3>3 DEF ReadActs, ReadBalances, ReadPositions, ReadOrders, Counted
  <2>4. QED
    BY <2>1, <2>2, <2>3 DEF Counted
<1>8. CASE SubmitActs
  <2>1. UNCHANGED peak
    BY <1>8, Frames
  <2>2. events' \in 0..MaxEvents
    BY <1>1, <1>2, <1>8 DEF SubmitActs, SubmitTicket, TryEntry, Counted
  <2>3. ASSUME NEW t \in Tickers, NEW kind \in Kinds, TryEntry(t, kind)
        PROVE  ticket' \in [Tickers -> [kind : Kinds, quantity : Nat] \union {NoTicket}]
    <3> DEFINE n == Ramped(SizeOf(t, kind))
    <3>1. n \in Nat
      BY <2>3, TriedEntryFits DEF Sound, Shaped
    <3>2. UNCHANGED ticket \/ ticket' = [ticket EXCEPT ![t] = [kind |-> kind, quantity |-> n]]
      BY <2>3 DEF TryEntry
    <3> HIDE DEF n
    <3>3. QED
      BY <3>1, <3>2 DEF Counted
  <2>4. ticket' \in [Tickers -> [kind : Kinds, quantity : Nat] \union {NoTicket}]
    BY <1>8, <2>3 DEF SubmitActs, SubmitTicket, Counted
  <2>5. QED
    BY <2>1, <2>2, <2>4 DEF Counted
<1>9. CASE StartActs
  <2>1. UNCHANGED <<peak, events>>
    BY <1>9 DEF StartActs, Begin, EndScan, Approve, LapseTicket
  <2>2. ticket' \in [Tickers -> [kind : Kinds, quantity : Nat] \union {NoTicket}]
    BY <1>9 DEF StartActs, Begin, EndScan, Approve, LapseTicket, Counted
  <2>3. QED
    BY <2>1, <2>2 DEF Counted
<1>10. QED
  BY <1>4, <1>5, <1>6, <1>7, <1>8, <1>9, NextByActors

\* The variables have their types.
THEOREM TypesHold == Spec => []TypeOK
<1>1. Spec => []Counted
  BY InitCounted, CountedStays, AlwaysSolvent, AlwaysSound, PTL DEF Spec
<1>2. ASSUME Counted, Solvent, Sound, Sought PROVE TypeOK
  <2>1. Busy => /\ scan.job \in Jobs /\ scan.at \in DOMAIN Steps(scan.job)
                /\ scan.power \in [Pools -> Amounts] /\ scan.free \in [Accounts -> Amounts]
                /\ scan.reserved \in [Accounts -> Nat] /\ scan.exposure \in [Tickers -> Nat]
    <3>1. SUFFICES ASSUME Busy PROVE scan.job \in Jobs /\ scan.at \in DOMAIN Steps(scan.job)
      BY <1>2 DEF Solvent, Typed, ScanTyped, ScanType
    <3>2. /\ scan.job \in Jobs /\ scan.at \in 1..7
          /\ scan.job = "ticket" => scan.at \in 1..6
      BY <1>2, <3>1, ScanIsAt DEF Solvent, Typed
    <3>3. QED
      BY <3>2, ListPlaces DEF Jobs
  <2>2. QED
    BY <1>2, <2>1 DEF TypeOK, Counted, Solvent, Typed, EntryTyped, Sound, Shaped, SettingsTyped,
                      Sought, FlattenTyped
<1>3. QED
  BY <1>1, <1>2, AlwaysSolvent, AlwaysSound, AlwaysSought, PTL

==============================================================================
