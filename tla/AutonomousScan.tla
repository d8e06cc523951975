---------------------------- MODULE AutonomousScan ----------------------------
(***************************************************************************)
(* How much the autonomous scan may buy, and whether it may buy at all.    *)
(*                                                                         *)
(* A scan takes one snapshot of the broker - balances, then positions,     *)
(* then the open orders of each account - and sizes every candidate        *)
(* against it, less what it has itself sent since. Longs draw on the cash  *)
(* account, shorts and options share the margin account, and the limits on *)
(* positions and exposure span both. In APPROVAL mode a candidate becomes  *)
(* a ticket, which is checked against a snapshot of its own when the user  *)
(* approves it. A preview reads the same and writes nothing; it is left    *)
(* out, and so is what is shown of a halt.                                 *)
(*                                                                         *)
(* Meanwhile orders fill, the user changes the mode, presses the emergency *)
(* stop or closes everything, and none of these takes the account's lock.  *)
(* What an entry goes through once it is sent is EntryProtection's; which  *)
(* tickers qualify, links and the races of approvals are EntryGate's.      *)
(***************************************************************************)
EXTENDS Integers, FiniteSetsExt

CONSTANTS
    Tickers,
    Price,            \* a share of each ticker, at its entry price
    StopDistance,     \* what a share loses at its stop
    Premium,          \* the ask of each ticker's option, per share
    Multiplier,       \* the shares of a contract: 100
    Sector,           \* SECTOR_BY_TICKER
    EquityLevels,     \* the balances the scan may size against
    MarginEquity,     \* the net liquidation value of the margin account
    Funds,            \* what the broker lets each pool buy in all
    RiskPercent,      \* risk_percent_of_balance
    PositionPercent,  \* max_position_exposure_percent, 0 is off
    TotalPercent,     \* max_total_exposure_percent, 0 is off
    SectorPercent,    \* max_sector_exposure_percent, 0 is off
    DrawdownPercent,  \* max_drawdown_percent, 0 is off
    MaxPositions,     \* max_positions, 0 is uncapped
    OrdersPerRun,     \* OVERNIGHT_MAX_ORDERS_PER_RUN
    RampDivisor,      \* 1 / PLUTO_LIVE_SIZE_FRACTION when live, 1 on paper
    Losses,           \* the day's losses of the two accounts to consider
    LossLimit,        \* the loss daily_loss_limit_percent allows
    MaxEvents,        \* bounds together what scans send and propose, what the user
                      \* presses, and the faults of scans and tickets
    Unclassified, NoEntry, NoTicket

Accounts == {"cash", "margin"}
Pools == {"cash", "short", "option"}
Kinds == {"long", "short", "option"}

ASSUME DollarAssumption ==
    /\ \A f \in {Price, StopDistance, Premium} : f \in [Tickers -> Nat \ {0}]
    /\ Multiplier \in Nat \ {0} /\ RampDivisor \in Nat \ {0}
    /\ EquityLevels \subseteq Nat /\ MarginEquity \in Nat
    /\ Funds \in [Pools -> Nat]
ASSUME TickersAssumption == IsFiniteSet(Tickers)
ASSUME LimitAssumption ==
    /\ {RiskPercent, PositionPercent, TotalPercent, SectorPercent, DrawdownPercent}
         \subseteq 0..100
    /\ {MaxPositions, OrdersPerRun, LossLimit, MaxEvents} \subseteq Nat
    /\ Losses \subseteq [Accounts -> Nat]

VARIABLES
    settings,  \* autonomy_settings.json: the mode, approval_required, the stop
    entry,     \* the open entry of each ticker
    ticket,    \* the ticket awaiting approval for each ticker
    peak,      \* equity_peak.json
    scan,      \* what holds the account's lock, and what it has read so far
    flatten,   \* the request that closes everything
    stopSeen,  \* the emergency stop was on at some time since the mode was set
    events     \* how many of the bounded events have happened

vars == <<settings, entry, ticket, peak, scan, flatten, stopSeen, events>>

Modes == {"APPROVAL", "AUTONOMOUS"}
Unknown == -1   \* Python's None: a number that could not be read

Events(n) == events + n <= MaxEvents /\ events' = events + n
Press == Events(1)
Fault == Events(1)

---------------------------------------------------------------------------
(* Entries and what they cost.                                             *)

AccountOf(kind) == IF kind = "long" THEN "cash" ELSE "margin"
PoolOf(kind) == IF kind = "long" THEN "cash" ELSE kind
UnitCost(t, kind) == IF kind = "option" THEN Premium[t] * Multiplier ELSE Price[t]
\* A row of the broker as _compute_committed_virtual_capital values it: the
\* multiplier of an option is not applied.
RowCost(t, kind) == IF kind = "option" THEN Premium[t] ELSE Price[t]

Entered == {t \in Tickers : entry[t] # NoEntry}
Working(t) == t \in Entered /\ entry[t].open
Held(t) == IF t \in Entered THEN entry[t].filled ELSE 0
Remainder(t) == IF Working(t) THEN entry[t].quantity - entry[t].filled ELSE 0
Within(pools) == {t \in Entered : PoolOf(entry[t].kind) \in pools}
OnAccount(a) == {t \in Entered : AccountOf(entry[t].kind) = a}

\* The dollars an entry holds: its shares, and what its order may still buy.
Cost(t) == IF t \in Entered THEN (Held(t) + Remainder(t)) * UnitCost(t, entry[t].kind) ELSE 0
Costs == [t \in Tickers |-> Cost(t)]
SumOver(dollars, S) == MapThenSumSet(LAMBDA t : dollars[t], S)
Committed(pools) == SumOver(Costs, Within(pools))
Positions == {t \in Entered : Held(t) > 0}
\* At the broker: shares held or an order resting.
Live(t) == Held(t) > 0 \/ Working(t)
InDoubt == \E t \in Entered : ~entry[t].sure

---------------------------------------------------------------------------
(* Sizing. Every amount is floored to whole shares or contracts.           *)

AtLeastZero(n) == IF n < 0 THEN 0 ELSE n
Least(numbers) == Min(numbers)
PercentOf(percent, dollars) == (dollars * percent) \div 100

\* _available_position_slots
Slots(positions) ==
    IF MaxPositions = 0 THEN OrdersPerRun ELSE AtLeastZero(MaxPositions - positions)

\* The room the total and the sector limit leave for a ticker, as a set:
\* empty when both are off. An unclassified ticker has no room in a sector.
SectorTotal(exposure, s) ==
    SumOver(exposure, {u \in Tickers : Sector[u] = s})
Total(exposure) == SumOver(exposure, Tickers)
Room(t, equity, exposure) ==
    (IF TotalPercent = 0 THEN {}
       ELSE {AtLeastZero(PercentOf(TotalPercent, equity) - Total(exposure))})
    \union
    (IF SectorPercent = 0 THEN {}
       ELSE IF Sector[t] = Unclassified THEN {0}
       ELSE {AtLeastZero(PercentOf(SectorPercent, equity) - SectorTotal(exposure, Sector[t]))})
PositionCap(equity) ==
    IF PositionPercent = 0 \/ equity = 0 THEN {} ELSE {PercentOf(PositionPercent, equity)}

\* What an account has left of an amount the scan read, less what the scan
\* has reserved on it. Unknown stays unknown.
Remaining(amount, reserved) ==
    IF amount = Unknown THEN Unknown ELSE AtLeastZero(amount - reserved)

\* _compute_position_quantity and _compute_option_contract_quantity: the
\* smallest of what the risk at the stop and the dollars of every limit
\* cover, and nothing when the risk is off or an amount unknown. An option
\* risks its premium.
SizeOf(t, kind) ==
    LET risk    == PercentOf(RiskPercent, scan.equity)
        atRisk  == IF kind = "option" THEN UnitCost(t, kind) ELSE StopDistance[t]
        a       == AccountOf(kind)
        free    == Remaining(scan.free[a], scan.reserved[a])
        power   == Remaining(scan.power[PoolOf(kind)], scan.reserved[a])
        dollars == {free, power} \union PositionCap(scan.equity)
                     \union Room(t, scan.equity, scan.exposure)
    IN  IF risk = 0 \/ Unknown \in {free, power} THEN 0
        ELSE Least({risk \div atRisk} \union {d \div UnitCost(t, kind) : d \in dollars})
\* live_ramp.scale_quantity
Ramped(n) == n \div RampDivisor

---------------------------------------------------------------------------
(* What the lock's holder has read and sent. The scan and a ticket's check *)
(* read in different orders.                                               *)

PositionsOf == [cash |-> "cash positions", margin |-> "margin positions"]
OrdersOf == [cash |-> "cash orders", margin |-> "margin orders"]
Steps(job) ==
    IF job = "ticket"
    THEN <<"cash positions", "cash orders", "margin positions",
           "margin orders", "balances", "submit">>
    ELSE <<"balances", "cash positions", "margin positions",
           "cash orders", "margin orders", "gate", "trade">>

\* free and power are Unknown until read. For the properties: uncounted and
\* rested are what the snapshot did not see, orders in neither list and
\* entries not yet held; toApprove is that the user had chosen APPROVAL, and
\* no stop came between.
Snapshot(job, order) ==
    [job |-> job, at |-> 1, order |-> order,
     loss |-> [a \in Accounts |-> 0],
     approving |-> FALSE, toApprove |-> settings.mode = "APPROVAL" /\ ~stopSeen,
     equity |-> 0, marginRead |-> TRUE,
     power |-> [p \in Pools |-> Unknown], free |-> [a \in Accounts |-> Unknown],
     held |-> [a \in Accounts |-> 0], reserved |-> [a \in Accounts |-> 0],
     exposure |-> [t \in Tickers |-> 0], positions |-> 0,
     uncounted |-> {}, rested |-> FALSE, candidates |-> {}, slots |-> 0]
Idle == [job |-> "none"]

Busy == scan.job # "none"
Taking(jobs, step) == Busy /\ scan.job \in jobs /\ Steps(scan.job)[scan.at] = step
Next1(s) == [s EXCEPT !.at = @ + 1]
Jobs == {"scan", "ticket"}

\* The scan raises, or returns; the ticket's check refuses it.
Leave == scan' = Idle

\* The settings are read once, at the start: what the user changes later
\* counts for the next scan.
Begin ==
    /\ ~Busy /\ ~settings.stopped
    /\ scan' = [Snapshot("scan", NoTicket) EXCEPT
           !.approving = settings.mode = "APPROVAL" /\ settings.approval]
    /\ UNCHANGED <<settings, entry, ticket, peak, flatten, stopSeen, events>>

\* The user approves a ticket: it is claimed, and checked under the lock.
Approve(t) ==
    /\ ~Busy /\ ticket[t] # NoTicket
    /\ ticket' = [ticket EXCEPT ![t] = NoTicket]
    /\ scan' = IF settings.stopped \/ InDoubt \/ t \in Entered THEN Idle
               ELSE Snapshot("ticket",
                    [ticker |-> t, kind |-> ticket[t].kind, quantity |-> ticket[t].quantity])
    /\ UNCHANGED <<settings, entry, peak, flatten, stopSeen, events>>

\* What the broker still lets a pool buy.
Power(p) == AtLeastZero(Funds[p] - Committed({p}))

\* _new_entry_halt_reason with the day's loss it is given. A losing streak
\* halts as well; the journal of closed trades decides it.
LossHalts(dollars) == LossLimit > 0 /\ dollars >= LossLimit

\* daily_loss.combined_day_pnl
DayLoss(loss, marginRead) == loss["cash"] + (IF marginRead THEN loss["margin"] ELSE 0)

\* The balances of a scan. Without the margin account's, its loss is not
\* counted and nothing is known of its power.
ReadBalances ==
    /\ Taking({"scan"}, "balances")
    /\ \E equity \in EquityLevels, loss \in Losses, cashRead, marginRead, streak \in BOOLEAN :
         /\ IF cashRead /\ marginRead THEN UNCHANGED events ELSE Fault
         /\ LET read(p) == IF p = "cash" THEN cashRead ELSE marginRead
            IN  IF streak \/ (equity > 0 /\ LossHalts(DayLoss(loss, marginRead))) THEN Leave
                ELSE scan' = [Next1(scan) EXCEPT
                         !.equity = equity, !.loss = loss, !.marginRead = marginRead,
                         !.power = [p \in Pools |-> IF read(p) THEN Power(p) ELSE Unknown]]
    /\ UNCHANGED <<settings, entry, ticket, peak, flatten, stopSeen>>

\* What an account holds and has ordered, as the rows of the broker value it.
\* Only BUY orders count: a short entry that rests is not seen.
HeldRows(a) ==
    SumOver([t \in OnAccount(a) |-> Held(t) * RowCost(t, entry[t].kind)], OnAccount(a))
Buys(a) == {t \in OnAccount(a) : Working(t) /\ entry[t].kind # "short"}
BuyRows(a) ==
    SumOver([t \in Buys(a) |-> Remainder(t) * RowCost(t, entry[t].kind)], Buys(a))

\* A failed read of positions fails the whole pass.
ReadPositions(a) ==
    /\ Taking(Jobs, PositionsOf[a])
    /\ \/ /\ scan' = [Next1(scan) EXCEPT
                !.held = [@ EXCEPT ![a] = HeldRows(a)],
                !.exposure = [t \in Tickers |-> scan.exposure[t] +
                    IF t \in OnAccount(a) THEN Held(t) * UnitCost(t, entry[t].kind) ELSE 0],
                !.positions = @ + Cardinality(OnAccount(a) \intersect Positions),
                !.rested = @ \/ \E t \in OnAccount(a) : Working(t) /\ Held(t) = 0]
          /\ UNCHANGED events
       \/ Fault /\ Leave
    /\ UNCHANGED <<settings, entry, ticket, peak, flatten, stopSeen>>

EquityOf(a) == IF a = "cash" THEN scan.equity ELSE MarginEquity
WithOrders(a) ==
    [Next1(scan) EXCEPT
        !.held = [@ EXCEPT ![a] = 0],
        !.free = [@ EXCEPT ![a] = AtLeastZero(EquityOf(a) - scan.held[a] - BuyRows(a))],
        !.exposure = [t \in Tickers |-> scan.exposure[t] +
            IF t \in Buys(a) THEN Remainder(t) * UnitCost(t, entry[t].kind) ELSE 0],
        !.uncounted = @ \union {t \in OnAccount(a) \ Buys(a) : Working(t)}]
WithoutOrders(a) ==
    [Next1(scan) EXCEPT !.uncounted = @ \union {t \in OnAccount(a) : Working(t)}]

\* A failed read leaves what the account has free unknown, and its orders out
\* of the exposure. The margin account's are not read without its balance.
ReadOrders(a) ==
    /\ Taking(Jobs, OrdersOf[a])
    /\ IF a = "margin" /\ ~scan.marginRead
       THEN scan' = WithoutOrders(a) /\ UNCHANGED events
       ELSE \/ scan' = WithOrders(a) /\ UNCHANGED events
            \/ Fault /\ IF scan.job = "ticket" THEN Leave ELSE scan' = WithoutOrders(a)
    /\ UNCHANGED <<settings, entry, ticket, peak, flatten, stopSeen>>

\* record_equity_and_get_peak and drawdown_block_reason. The peak starts again
\* when the file cannot be read, or holds an equity of the other source.
PeakWith(equity, restarts) == IF restarts \/ equity > peak THEN equity ELSE peak
Restarting(restarts) == IF restarts THEN Fault ELSE UNCHANGED events
DrawnDown(equity, high) ==
    DrawdownPercent > 0 /\ high > 0 /\ (high - equity) * 100 >= DrawdownPercent * high

\* The last checks before the candidates. The kill switch, the session, an
\* entry that is stuck or a resolution that is not complete stop a scan at any
\* time: then there are no candidates.
Gate ==
    /\ Taking({"scan"}, "gate")
    /\ \E restarts \in BOOLEAN : Restarting(restarts) /\ peak' = PeakWith(scan.equity, restarts)
    /\ IF DrawnDown(scan.equity, peak') \/ InDoubt
       THEN Leave
       ELSE scan' = [Next1(scan) EXCEPT
                !.candidates = Tickers \ Entered, !.positions = 0,
                !.slots = Least({OrdersPerRun, Slots(scan.positions)})]
    /\ UNCHANGED <<settings, entry, ticket, flatten, stopSeen>>

---------------------------------------------------------------------------
(* The candidates, one after the other. One that is passed over - evidence, *)
(* levels that cannot be protected, no contract, a size of nothing, the    *)
(* model's veto, a price that moved, a link sent instead - is not tried.   *)

Trading(t) == Taking({"scan"}, "trade") /\ scan.slots > 0 /\ t \in scan.candidates
Passed(t, s) ==
    IF s.slots = 1 THEN Idle ELSE [s EXCEPT !.slots = @ - 1, !.candidates = @ \ {t}]

Plus(sums, x, n) == [sums EXCEPT ![x] = @ + n]
\* Mutants of Reserved: the candidates of one scan forget each other's
\* dollars, or each other's exposure, or take the dollars off.
ReservedExposure(t, kind, n) ==
    [scan EXCEPT !.exposure = Plus(@, t, n * UnitCost(t, kind))]
ReservedDollars(t, kind, n) ==
    [scan EXCEPT !.reserved = Plus(@, AccountOf(kind), n * UnitCost(t, kind))]
ReservedBack(t, kind, n) ==
    [scan EXCEPT !.reserved = Plus(@, AccountOf(kind), 0 - n * UnitCost(t, kind))]
\* local_reservations_by_account and add_exposure
Reserved(t, kind, n) ==
    [scan EXCEPT !.reserved = Plus(@, AccountOf(kind), n * UnitCost(t, kind)),
                 !.exposure = Plus(@, t, n * UnitCost(t, kind))]

NewEntry(kind, n, landed, sure) ==
    [kind |-> kind, quantity |-> IF landed THEN n ELSE 0, filled |-> 0,
     open |-> landed, sure |-> sure, late |-> settings.stopped]
\* The broker takes the order, or its answer is lost.
Accepted(t, kind, n) == entry' = [entry EXCEPT ![t] = NewEntry(kind, n, TRUE, TRUE)]
Unclear(t, kind, n) ==
    \E landed \in BOOLEAN : entry' = [entry EXCEPT ![t] = NewEntry(kind, n, landed, FALSE)]

\* An option is tried first, for either direction.
TryEntry(t, kind) ==
    /\ Trading(t)
    /\ LET n == Ramped(SizeOf(t, kind))
           reserved == Passed(t, Reserved(t, kind, n))
       IN  /\ n > 0
           /\ \/ /\ scan.approving
                 /\ ticket' = [ticket EXCEPT ![t] = [kind |-> kind, quantity |-> n]]
                 /\ scan' = reserved /\ Events(1) /\ UNCHANGED entry
              \/ /\ ~scan.approving /\ UNCHANGED ticket
                 /\ \/ /\ Accepted(t, kind, n) /\ Events(1)
                       /\ scan' = reserved
                    \/ /\ Unclear(t, kind, n) /\ Events(1)
                       /\ Leave
                    \/ /\ scan' = Passed(t, scan)
                       /\ UNCHANGED <<entry, events>>
    /\ UNCHANGED <<settings, peak, flatten, stopSeen>>

EndScan ==
    /\ Taking({"scan"}, "trade")
    /\ Leave
    /\ UNCHANGED <<settings, entry, ticket, peak, flatten, stopSeen, events>>

---------------------------------------------------------------------------
(* A ticket: the rest of its check, and its submission.                    *)

TicketCost == scan.order.quantity * UnitCost(scan.order.ticker, scan.order.kind)

\* The whole ticket must fit. Only the loss of its own account is looked at.
CheckTicket ==
    /\ Taking({"ticket"}, "balances")
    /\ \E equity \in EquityLevels, loss \in Losses, streak, restarts \in BOOLEAN :
         LET t     == scan.order.ticker
             halts == (equity > 0 /\ LossHalts(loss[AccountOf(scan.order.kind)])) \/ streak
             fits  == /\ MaxPositions > 0 => scan.positions < MaxPositions
                      /\ \A d \in PositionCap(equity) \union Room(t, equity, scan.exposure) :
                            TicketCost <= d
                      /\ TicketCost <= Power(PoolOf(scan.order.kind))
         IN  /\ Restarting(restarts)
             /\ peak' = IF DrawdownPercent > 0 THEN PeakWith(equity, restarts) ELSE peak
             /\ IF fits /\ ~halts /\ ~DrawnDown(equity, peak')
                THEN scan' = [Next1(scan) EXCEPT !.equity = equity, !.loss = loss] ELSE Leave
    /\ UNCHANGED <<settings, entry, ticket, flatten, stopSeen>>

SubmitTicket ==
    /\ Taking({"ticket"}, "submit")
    /\ LET t == scan.order.ticker
           kind == scan.order.kind
           n == scan.order.quantity
       IN  \/ Accepted(t, kind, n) /\ UNCHANGED events
           \/ Unclear(t, kind, n) /\ Fault
           \/ UNCHANGED <<entry, events>>
    /\ Leave
    /\ UNCHANGED <<settings, ticket, peak, flatten, stopSeen>>

\* It expires, or is declined or superseded. The scan reads no ticket here, so
\* that it lapses while none runs is no restriction.
LapseTicket(t) ==
    /\ ~Busy /\ ticket[t] # NoTicket
    /\ ticket' = [ticket EXCEPT ![t] = NoTicket]
    /\ UNCHANGED <<settings, entry, peak, scan, flatten, stopSeen, events>>

---------------------------------------------------------------------------
(* The user.                                                               *)

SetMode(m) ==
    /\ Press
    /\ settings' = [settings EXCEPT !.mode = m, !.approval = m = "APPROVAL" /\ ~settings.stopped]
    /\ stopSeen' = settings.stopped
    /\ UNCHANGED <<entry, ticket, peak, scan, flatten>>

Stopped == [settings EXCEPT !.stopped = TRUE, !.approval = FALSE]
EmergencyStop ==
    /\ Press
    /\ settings' = Stopped /\ stopSeen' = TRUE
    /\ UNCHANGED <<entry, ticket, peak, scan, flatten>>

\* An error of a close of everything: nothing more is said of what it did.
Erring == [flatten EXCEPT !.ok = FALSE, !.asked = {}, !.beyond = {}]

\* approval_required stays as the stop left it. Of a close of everything that
\* was run or is under way nothing is said from then on.
ResetStop ==
    /\ settings.stopped
    /\ settings' = [settings EXCEPT !.stopped = FALSE]
    /\ flatten' = Erring
    /\ UNCHANGED <<entry, ticket, peak, scan, stopSeen, events>>

\* Close everything: the stop, then every open order is cancelled, then every
\* position of a fresh list is closed. No lock is taken. It knows that its
\* calls were accepted and no more: an order may fill before it is cancelled,
\* and a closing order may rest. For the properties: asked are the orders it
\* listed, and beyond what it could not see, an order not shown yet or filled
\* since the positions were listed.
CloseEverything ==
    /\ flatten.at = "none" /\ Events(2)
    /\ settings' = Stopped /\ stopSeen' = TRUE
    /\ flatten' = [flatten EXCEPT !.at = "list", !.ok = TRUE, !.asked = {}, !.beyond = {}]
    /\ UNCHANGED <<entry, ticket, peak, scan>>
Step1(at) == [flatten EXCEPT !.at = at]
GivesUp == flatten' = [Erring EXCEPT !.at = "none"]

\* The orders at the broker: entries, and what closes a position.
Closing(t) == flatten.sent[t]
OpenOrders == {t \in Tickers : Working(t) \/ Closing(t) > 0}
\* Mutant of Listed: a partially filled order is not listed as open.
ListedUnfilled(unseen) == {t \in OpenOrders : Held(t) = 0} \ unseen
Listed(unseen) == OpenOrders \ unseen
ListOrders ==
    /\ flatten.at = "list"
    /\ \/ \E unseen \in SUBSET {t \in Tickers : Working(t) /\ Held(t) = 0} :
             flatten' = [Step1("cancel") EXCEPT !.cancel = Listed(unseen),
                               !.asked = Listed(unseen), !.beyond = unseen]
       \/ GivesUp
    /\ UNCHANGED <<settings, entry, ticket, peak, scan, stopSeen, events>>

\* An entry goes on until the broker ends it. What was closing a position is
\* ended, or still rests.
CancelOrder(t) ==
    /\ flatten.at = "cancel" /\ t \in flatten.cancel
    /\ \/ \E rests \in {0, Closing(t)} :
             flatten' = [flatten EXCEPT !.cancel = @ \ {t}, !.sent[t] = rests]
       \/ flatten' = [Erring EXCEPT !.cancel = @ \ {t}]
    /\ UNCHANGED <<settings, entry, ticket, peak, scan, stopSeen, events>>
ListPositions ==
    /\ flatten.at = "cancel" /\ flatten.cancel = {}
    /\ \/ flatten' = [Step1("close") EXCEPT !.close = [t \in Tickers |-> Held(t)]]
       \/ GivesUp
    /\ UNCHANGED <<settings, entry, ticket, peak, scan, stopSeen, events>>
\* No share is sold twice: the broker refuses that.
ClosePosition(t) ==
    /\ flatten.at = "close" /\ flatten.close[t] > 0
    /\ \/ /\ Closing(t) + flatten.close[t] <= Held(t)
          /\ flatten' = [flatten EXCEPT !.close[t] = 0, !.sent[t] = @ + flatten.close[t]]
       \/ flatten' = [Erring EXCEPT !.close[t] = 0]
    /\ UNCHANGED <<settings, entry, ticket, peak, scan, stopSeen, events>>
AllClosed ==
    /\ flatten.at = "close" /\ \A t \in Tickers : flatten.close[t] = 0
    /\ flatten' = Step1("none")
    /\ UNCHANGED <<settings, entry, ticket, peak, scan, stopSeen, events>>

---------------------------------------------------------------------------
(* The broker and the monitor.                                             *)

\* An order that fills after the positions of its account were read and
\* before its orders are is in neither list, as far as it filled.
Between(a) ==
    /\ Busy
    /\ \E i, j \in DOMAIN Steps(scan.job) :
         /\ Steps(scan.job)[i] = PositionsOf[a] /\ i < scan.at
         /\ Steps(scan.job)[j] = OrdersOf[a] /\ scan.at <= j
Slipping(t) ==
    IF flatten.ok /\ flatten.at \in {"close", "none"} THEN [flatten EXCEPT !.beyond = @ \union {t}]
    ELSE flatten
Fill(t) ==
    /\ Working(t)
    /\ \E n \in Held(t) + 1 .. entry[t].quantity :
         entry' = [entry EXCEPT ![t].filled = n, ![t].open = n < entry[t].quantity]
    /\ scan' = IF Between(AccountOf(entry[t].kind))
               THEN [scan EXCEPT !.uncounted = @ \union {t}] ELSE scan
    /\ flatten' = Slipping(t)
    /\ UNCHANGED <<settings, ticket, peak, stopSeen, events>>

\* The order of an entry ends, and the entry with it when nothing was bought
\* and nothing is in doubt.
Ended(t) ==
    IF Held(t) = 0 /\ entry[t].sure THEN NoEntry
    ELSE [entry[t] EXCEPT !.open = FALSE, !.quantity = Held(t)]
EndOrder(t) ==
    /\ Working(t)
    /\ entry' = [entry EXCEPT ![t] = Ended(t)]
    /\ UNCHANGED <<settings, ticket, peak, scan, flatten, stopSeen, events>>

\* The stop, the target or the user closes a position whose order is final.
ExitPosition(t) ==
    /\ t \in Positions /\ ~Working(t) /\ entry[t].sure
    /\ entry' = [entry EXCEPT ![t] = NoEntry]
    /\ flatten' = [flatten EXCEPT !.sent[t] = 0]
    /\ UNCHANGED <<settings, ticket, peak, scan, stopSeen, events>>
\* So does the order that closes it, in parts.
Sold(t, n) ==
    IF n = Held(t) /\ ~Working(t) /\ entry[t].sure THEN NoEntry
    ELSE [entry[t] EXCEPT !.quantity = @ - n, !.filled = @ - n]
CloseFills(t) ==
    /\ \E n \in 1..Held(t) :
          /\ n <= Closing(t)
          /\ entry' = [entry EXCEPT ![t] = Sold(t, n)]
          /\ flatten' = [flatten EXCEPT !.sent[t] = @ - n]
    /\ UNCHANGED <<settings, ticket, peak, scan, stopSeen, events>>

\* An unclear submission is settled by what the broker shows.
Resolve(t) ==
    /\ ~Busy /\ t \in Entered /\ ~entry[t].sure
    /\ entry' = [entry EXCEPT ![t] = IF Live(t) THEN [entry[t] EXCEPT !.sure = TRUE] ELSE NoEntry]
    /\ UNCHANGED <<settings, ticket, peak, scan, flatten, stopSeen, events>>

---------------------------------------------------------------------------
Init ==
    /\ \E m \in Modes :
         settings = [mode |-> m, approval |-> m = "APPROVAL", stopped |-> FALSE]
    /\ entry = [t \in Tickers |-> NoEntry] /\ ticket = [t \in Tickers |-> NoTicket]
    /\ peak = 0
    /\ scan = Idle
    /\ flatten = [at |-> "none", cancel |-> {}, asked |-> {}, beyond |-> {},
                  close |-> [t \in Tickers |-> 0], sent |-> [t \in Tickers |-> 0],
                  ok |-> FALSE]
    /\ stopSeen = FALSE /\ events = 0

Next ==
    \/ Begin
    \/ \E t \in Tickers : Approve(t) \/ LapseTicket(t)
    \/ ReadBalances \/ Gate
    \/ \E a \in Accounts : ReadPositions(a) \/ ReadOrders(a)
    \/ EndScan \/ \E t \in Tickers, kind \in Kinds : TryEntry(t, kind)
    \/ CheckTicket \/ SubmitTicket
    \/ \E m \in Modes : SetMode(m)
    \/ EmergencyStop \/ ResetStop
    \/ CloseEverything \/ ListOrders \/ ListPositions \/ AllClosed
    \/ \E t \in Tickers : CancelOrder(t) \/ ClosePosition(t)
    \/ \E t \in Tickers : \/ Fill(t) \/ EndOrder(t) \/ Resolve(t)
                         \/ ExitPosition(t) \/ CloseFills(t)

Spec == Init /\ [][Next]_vars

---------------------------------------------------------------------------
(* Properties.                                                             *)

Entries == [kind : Kinds, quantity : Nat, filled : Nat, open : BOOLEAN,
            sure : BOOLEAN, late : BOOLEAN]
Amounts == Nat \union {Unknown}

\* The types of the variables.
TypeOK ==
    /\ settings \in [mode : Modes, approval : BOOLEAN, stopped : BOOLEAN]
    /\ entry \in [Tickers -> Entries \union {NoEntry}]
    /\ ticket \in [Tickers -> [kind : Kinds, quantity : Nat] \union {NoTicket}]
    /\ peak \in Nat
    /\ Busy => /\ scan.job \in Jobs /\ scan.at \in DOMAIN Steps(scan.job)
               /\ scan.power \in [Pools -> Amounts] /\ scan.free \in [Accounts -> Amounts]
               /\ scan.reserved \in [Accounts -> Nat] /\ scan.exposure \in [Tickers -> Nat]
    /\ flatten \in [at : {"none", "list", "cancel", "close"}, cancel : SUBSET Tickers,
                    asked : SUBSET Tickers, beyond : SUBSET Tickers, close : [Tickers -> Nat],
                    sent : [Tickers -> Nat], ok : BOOLEAN]
    /\ stopSeen \in BOOLEAN /\ events \in 0..MaxEvents

\* The lock's holder, doing this job, submits an entry for the ticker.
Submits(job, t) == Busy /\ scan.job = job /\ entry[t] = NoEntry /\ entry'[t] # NoEntry

\* Neither a scan nor a ticket takes more from a pool than the broker gives
\* it; and what a scan buys stays, with everything the cash account holds and
\* has ordered, within the balance the scan sizes against: unless an order
\* filled between its two reads of that account. (app.py: the one reconciled
\* snapshot, the reservations laid over it, and the ticket's buying power)
WithinCapital ==
    [][\A t \in Tickers, job \in Jobs : Submits(job, t) =>
         /\ \A p \in Pools : Committed({p})' <= Funds[p]
         /\ job = "scan" /\ entry'[t].kind = "long" =>
              \/ Committed({"cash"})' <= scan.equity
              \/ scan.uncounted \intersect OnAccount("cash") # {}]_vars

\* Whatever submits an entry, all positions and orders together stay within
\* the total and the sector limit, unless an order was counted in neither
\* list or its list was not read; and there are no more of them than
\* max_positions, unless an entry rested unfilled when positions were read.
\* (portfolio_limits.py, _available_position_slots and the ticket's check)
WithinLimits ==
    [][\A t \in Tickers, job \in Jobs : Submits(job, t) =>
         /\ TotalPercent > 0 /\ scan.uncounted = {} =>
              Committed(Pools)' <= PercentOf(TotalPercent, scan.equity)
         /\ SectorPercent > 0 /\ scan.uncounted = {} =>
              SumOver(Costs, {u \in Entered : Sector[u] = Sector[t]})'
                <= PercentOf(SectorPercent, scan.equity)
         /\ MaxPositions > 0 /\ ~scan.rested =>
              Cardinality({u \in Tickers : Live(u)}') <= MaxPositions]_vars

\* A scan submits nothing on a day whose loss over both accounts has reached
\* the limit, unless the margin account could not be read, and a ticket
\* nothing when its own account's has, unless that account shows no equity;
\* nor does either once the equity is the drawdown limit below the peak on
\* file, the highest a scan or a ticket has seen since the peak last restarted.
\* (_new_entry_halt_reason, daily_loss.combined_day_pnl, drawdown_block_reason)
HaltsHold ==
    [][\A t \in Tickers :
         /\ Submits("scan", t) =>
              ~LossHalts(scan.loss["cash"] + scan.loss["margin"]) \/ ~scan.marginRead
         /\ Submits("ticket", t) =>
              ~LossHalts(scan.loss[AccountOf(entry'[t].kind)]) \/ scan.equity = 0
         /\ Submits("scan", t) \/ Submits("ticket", t) => ~DrawnDown(scan.equity, peak)]_vars

\* In APPROVAL mode a scan submits nothing itself, unless the emergency stop
\* was on at some time since the mode was set: the stop switches
\* approval_required off and neither resetting it nor the mode brings it back.
\* (autonomous_controller.py: set_mode, emergency_stop, reset_emergency_stop)
ApprovalHolds ==
    [][\A t \in Tickers : Submits("scan", t) => ~scan.toApprove]_vars

\* A close of everything that ended without an error overlooked nothing: until
\* the stop is reset, every order still at the broker was asked to be
\* cancelled, and every share held is asked to be sold. Not so an order the
\* broker did not show yet, what filled after the positions were listed, and
\* what a pass that had read the settings before the stop submitted after it.
\* That the account is flat, the code cannot know: an accepted call is all it
\* waits for. (api_close_everything, flatten_account.py: run_for_user)
NothingOverlooked ==
    flatten.ok /\ flatten.at = "none" =>
        \A t \in Entered :
            \/ entry[t].late \/ t \in flatten.beyond
            \/ (Working(t) => t \in flatten.asked) /\ Held(t) <= Closing(t)

===============================================================================
