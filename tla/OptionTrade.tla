---------------------------- MODULE OptionTrade ----------------------------
(***************************************************************************)
(* One option entry of one account, from its write-ahead record to its     *)
(* close. A long option has no stop resting at the broker: the program     *)
(* watches its price and sells (src/backend/app.py). The scan lock is held *)
(* for a whole pass; a pass is a sequence of steps, one per broker call,   *)
(* and the broker moves between them. It works on mem, a copy of the       *)
(* record on disk, which its last step writes back.                        *)
(***************************************************************************)
EXTENDS Naturals, FiniteSets, FiniteSetsExt, OrderLifecycle

CONSTANTS
    Quantity,      \* contracts the entry order asks for
    PollAttempts,  \* ENTRY_FILL_POLL_ATTEMPTS
    MinRejections, \* MIN_DEFINITE_REJECTION_CONFIRMATIONS
    MaxAttempts,   \* bound: sells that are tried
    MaxMishaps,    \* bound: lost requests and answers, and restarts
    MaxCloses,     \* bound: ends of the CORE session
    MaxOutside     \* bound: sales of the owner at the broker itself

OptionBounds ==
    /\ {Quantity, PollAttempts, MinRejections, MaxAttempts} \subseteq Nat \ {0}
    /\ {MaxMishaps, MaxCloses, MaxOutside} \subseteq Nat

ASSUME BoundsAssumption == OptionBounds

VARIABLES
    pc,      \* the broker call, or the write, the process does next
    ctx,     \* "submit", "unknown": a bounded poll loop; "monitor": one pass
    tries,   \* lookups of the loop already made
    last,    \* the last answer about the sell that is settled
    mem,     \* the record the pass works on
    disk,    \* the record in overnight_orders.json
    traded,  \* contracts sold according to the closed-trades journal
    entry,   \* broker: the entry order
    sells,   \* broker: the sell of each attempt
    held,    \* broker: contracts held
    core,    \* the CORE trading session is open
    life,    \* the contract is far from, near or past its expiration
    quote,   \* the live bid: none, inside the thresholds or outside
    budget   \* what is left of the bounds on the environment

process == <<pc, ctx, tries, last, mem>>
durable == <<disk, traded>>
market == <<core, life, quote>>
broker == <<entry, sells, held>>
vars == <<process, durable, broker, market, budget>>

Lots == 0 .. Quantity
Attempts == 1 .. MaxAttempts

\* exit is the attempt whose id is option_exit_client_order_id, 0 if none.
Records == [state : AllStates \union {"none", Illegal}, filled : Lots,
            terminal : BOOLEAN, contracts : Lots, attempt : 0 .. MaxAttempts,
            exit : 0 .. MaxAttempts, rejections : 0 .. MinRejections,
            failing : BOOLEAN]

NoRecord == [state |-> "none", filled |-> 0, terminal |-> FALSE,
             contracts |-> 0, attempt |-> 0, exit |-> 0, rejections |-> 0,
             failing |-> FALSE]

Orders == [status : OrderStatuses, filled : Lots]
NoOrder == [status |-> "none", filled |-> 0]
NoAnswer == [status |-> "raised", filled |-> 0]

Init ==
    /\ pc = "idle" /\ ctx = "submit" /\ tries = 0 /\ last = NoAnswer
    /\ mem = NoRecord /\ disk = NoRecord /\ traded = 0
    /\ entry = NoOrder /\ sells = [a \in Attempts |-> NoOrder] /\ held = 0
    /\ core = TRUE /\ life = "far" /\ quote = "inside"
    /\ budget = [mishaps |-> MaxMishaps, closes |-> MaxCloses, outside |-> MaxOutside]

-----------------------------------------------------------------------------
(* The calls of the broker *)

Spend(what) ==
    /\ budget[what] > 0
    /\ budget' = [budget EXCEPT ![what] = @ - 1]

AnswerOf(o) == IF o.status \in AbsentStatuses THEN NoAnswer ELSE o

\* get_order_detail: the true answer, or none.
Lookup(o, answer) ==
    \/ answer = AnswerOf(o) /\ UNCHANGED budget
    \/ answer = NoAnswer /\ AnswerOf(o) # NoAnswer /\ Spend("mishaps")

Answers(o) == {AnswerOf(o), NoAnswer}

Working == {a \in Attempts : sells[a].status \in OpenStatuses \union {"inflight"}}

\* The broker takes a sell of contracts that are held; whether it looks at other
\* sells is not relied on.
Accepts(a, n) ==
    /\ core /\ life # "past"
    /\ sells[a] = NoOrder /\ n <= held

Resting(a, status) == sells' = [sells EXCEPT ![a] = [status |-> status, filled |-> 0]]

\* place_option_order of a sell: accepted, a replay of an order the broker
\* shows, ambiguous (refused or unanswered), or definite: the replay of an
\* order it does not show yet.
Placed(a, n, outcome) ==
    \/ /\ Accepts(a, n) /\ outcome = "ok"
       /\ Resting(a, "SUBMITTED") /\ UNCHANGED budget
    \/ /\ sells[a].status \notin AbsentStatuses /\ outcome = "ok"
       /\ UNCHANGED <<sells, budget>>
    \/ /\ sells[a].status = "inflight" /\ outcome = "definite"
       /\ UNCHANGED <<sells, budget>>
    \/ /\ sells[a] = NoOrder /\ ~Accepts(a, n) /\ outcome = "ambiguous"
       /\ UNCHANGED <<sells, budget>>
    \/ /\ outcome = "ambiguous" /\ Spend("mishaps")
       /\ \/ UNCHANGED sells
          \/ Accepts(a, n) /\ \E status \in {"SUBMITTED", "inflight"} : Resting(a, status)

-----------------------------------------------------------------------------
(* The control flow of a pass *)

Goto(step, record) ==
    /\ pc' = step /\ mem' = record
    /\ UNCHANGED <<ctx, tries, last>>

\* A loop looks again after an exception or while nothing is settled.
PollsAgain(record, failed) ==
    /\ ctx # "monitor"
    /\ tries + 1 < PollAttempts
    /\ failed \/ record.state \notin TerminalStates \union {Confirmed, Unprotected}

\* A monitor pass stamps its outcome on the record.
EndPass(record, failed) ==
    /\ UNCHANGED ctx
    /\ last' = NoAnswer
    /\ IF PollsAgain(record, failed)
       THEN pc' = "poll" /\ tries' = tries + 1 /\ mem' = record
       ELSE /\ pc' = "save" /\ tries' = 0
            /\ mem' = IF ctx = "monitor" THEN [record EXCEPT !.failing = failed]
                      ELSE record

Save ==
    /\ pc = "save"
    /\ disk' = mem
    /\ pc' = "idle" /\ mem' = NoRecord
    /\ UNCHANGED <<ctx, tries, last, traded, broker, market, budget>>

Crash ==
    /\ pc # "idle" /\ Spend("mishaps")
    /\ pc' = "idle" /\ mem' = NoRecord /\ tries' = 0 /\ last' = NoAnswer
    /\ UNCHANGED <<ctx, durable, broker, market>>

-----------------------------------------------------------------------------
(* Submission and fill *)

\* The record is written before the order is sent, or the order is refused.
Submit ==
    /\ pc = "idle" /\ disk = NoRecord /\ core /\ life = "far"
    /\ \/ /\ disk' = [NoRecord EXCEPT !.state = Submitted]
          /\ mem' = disk' /\ pc' = "place"
       \/ /\ disk' = disk
          /\ mem' = Move([NoRecord EXCEPT !.state = Submitted], Failed)
          /\ pc' = "save"
    /\ ctx' = "submit"
    /\ UNCHANGED <<tries, last, traded, broker, market, budget>>

\* The order is accepted; refused by this program's own gates; or ambiguous,
\* whatever came of it at the broker.
PlaceBuy ==
    /\ pc = "place"
    /\ \/ /\ entry' = [entry EXCEPT !.status = "SUBMITTED"]
          /\ Goto("poll", mem) /\ UNCHANGED budget
       \/ /\ Goto("save", Move(mem, Failed)) \/ Goto("save", Move(mem, Unknown))
          /\ UNCHANGED <<entry, budget>>
       \/ /\ \E status \in {"SUBMITTED", "inflight"} : entry' = [entry EXCEPT !.status = status]
          /\ Goto("save", Move(mem, Unknown)) /\ Spend("mishaps")
    /\ UNCHANGED <<durable, sells, held, market>>

Polled(record, answer) ==
    [record EXCEPT !.filled = answer.filled,
                   !.terminal = @ \/ EntryFillIsFinal(answer.status)]

Abandoned(record) ==
    IF record.terminal /\ record.state \notin TerminalStates THEN Move(record, Failed) ELSE record

\* An option that bought something is protected by what it cost: the first fill
\* goes through Filled and Pending to Confirmed and says what there is to sell.
OptionFill(record) ==
    IF record.filled = 0 THEN Abandoned(record)
    ELSE IF record.state \in {Submitted, Filled}
    THEN LET bought == IF record.state = Submitted THEN Move(record, Filled) ELSE record
         IN  Move(Move([bought EXCEPT !.contracts = record.filled], Pending), Confirmed)
    ELSE record

\* The pass for equities, which an option found after an unknown submission
\* goes through as well: without a stop price there is nothing it can confirm.
EquityFill(record) ==
    IF record.filled = 0 THEN Abandoned(record)
    ELSE LET bought == IF record.state = Submitted THEN Move(record, Filled) ELSE record
         IN  Move(Move(bought, Pending), Unprotected)

PassOf(record) == IF ctx = "unknown" THEN EquityFill(record) ELSE OptionFill(record)

PollBuy ==
    /\ pc = "poll"
    /\ IF mem.terminal
       THEN EndPass(PassOf(mem), FALSE) /\ UNCHANGED budget
       ELSE \E answer \in Answers(entry) :
              /\ Lookup(entry, answer)
              /\ IF answer = NoAnswer THEN EndPass(mem, TRUE)
                 ELSE EndPass(PassOf(Polled(mem, answer)), FALSE)
    /\ UNCHANGED <<durable, broker, market>>

\* Bound: the grace period outlasts the time the broker takes to show an
\* accepted order, so the last confirmation is never of one in flight.
Rejected(record) ==
    IF record.rejections + 1 >= MinRejections /\ entry.status = "none"
    THEN Move(record, Failed)
    ELSE Move([record EXCEPT !.rejections = IF @ < MinRejections THEN @ + 1 ELSE @], Unknown)

ReconcileUnknown ==
    /\ pc = "idle" /\ disk.state = Unknown
    /\ ctx' = "unknown"
    /\ \/ /\ entry.status \in AbsentStatuses
          /\ mem' = Rejected(disk) /\ pc' = "save" /\ UNCHANGED budget
       \/ /\ mem' = Move(disk, Unknown) /\ pc' = "save" /\ Spend("mishaps")
       \/ /\ entry.status \notin AbsentStatuses
          /\ mem' = Move(disk, Submitted) /\ pc' = "poll" /\ UNCHANGED budget
    /\ UNCHANGED <<tries, last, durable, broker, market>>

-----------------------------------------------------------------------------
(* The exit *)

\* The monitor polls an entry that is not confirmed, settles a sell that was
\* sent, and watches the price of the rest.
MonitorBegin ==
    /\ pc = "idle" /\ ctx' = "monitor"
    /\ disk.state \in FillMonitoringStates
    /\ mem' = disk
    /\ pc' = IF disk.state # Confirmed THEN "poll"
             ELSE IF disk.exit # 0 THEN "settle" ELSE "watch"
    /\ UNCHANGED <<tries, last, durable, broker, market, budget>>

\* Mutant of Triggered: an option is sold for its price alone.
TriggeredByPrice == quote = "outside"

\* The target or the stop is reached, or the expiration is near.
Triggered == quote = "outside" \/ (quote = "inside" /\ life # "far")

\* The next attempt, whose id is stored before its sell is sent.
Sending(record) == [record EXCEPT !.attempt = @ + 1, !.exit = record.attempt + 1]

\* Without a live bid nothing is sold.
Watch ==
    /\ pc = "watch"
    /\ IF Triggered /\ mem.attempt < MaxAttempts
       THEN Goto("sell", Sending(mem))
       ELSE EndPass(mem, FALSE)
    /\ UNCHANGED <<durable, broker, market, budget>>

\* The snapshot of the option could not be had.
WatchFails ==
    /\ pc = "watch" /\ Spend("mishaps")
    /\ EndPass(mem, FALSE)
    /\ UNCHANGED <<durable, broker, market>>

\* Mutant of AfterSale: an unclear answer is taken for a refusal.
AfterSaleUnclear(outcome) ==
    IF outcome = "ok" THEN Goto("settle", mem)
    ELSE EndPass([mem EXCEPT !.exit = 0], TRUE)

\* A definite failure clears the id, an ambiguous one keeps it.
AfterSale(outcome) ==
    CASE outcome = "ok"        -> Goto("settle", mem)
      [] outcome = "ambiguous" -> EndPass(mem, FALSE)
      [] outcome = "definite"  -> EndPass([mem EXCEPT !.exit = 0], TRUE)

Sell ==
    /\ pc = "sell"
    /\ \E outcome \in {"ok", "ambiguous", "definite"} :
          Placed(mem.exit, mem.contracts, outcome) /\ AfterSale(outcome)
    /\ UNCHANGED <<durable, entry, held, market>>

\* Mutant of Sold: the trade is closed with its first contract.
SoldAny(answer) == answer.filled > 0

\* All contracts, or a final part of them.
Sold(answer) ==
    \/ answer.filled >= mem.contracts
    \/ answer.filled > 0 /\ EntryFillIsFinal(answer.status)

\* Mutant of Settled: a sell that ended keeps its id.
SettledKept(answer) ==
    IF Sold(answer)
    THEN traded' = answer.filled /\ EndPass([Move(mem, Closed) EXCEPT !.exit = 0], FALSE)
    ELSE EndPass(mem, FALSE) /\ UNCHANGED traded

\* The trade is journalled and closed, or a sell that ended without a fill is
\* forgotten, or it is looked up again in the next pass.
Settled(answer) ==
    IF Sold(answer)
    THEN traded' = answer.filled /\ EndPass([Move(mem, Closed) EXCEPT !.exit = 0], FALSE)
    ELSE /\ EndPass([mem EXCEPT !.exit = IF EntryFillIsFinal(answer.status) THEN 0 ELSE @], FALSE)
         /\ UNCHANGED traded

\* A sell is looked up a few times; the last answer counts.
Settle ==
    /\ pc = "settle"
    /\ \E answer \in Answers(sells[mem.exit]) :
         LET now == IF answer = NoAnswer THEN last ELSE answer
             stop == answer # NoAnswer /\ (answer.filled >= mem.contracts
                                           \/ EntryFillIsFinal(answer.status))
         IN  /\ Lookup(sells[mem.exit], answer)
             /\ IF stop \/ tries + 1 = PollAttempts
                THEN Settled(now)
                ELSE /\ tries' = tries + 1 /\ last' = now
                     /\ UNCHANGED <<pc, ctx, mem, traded>>
    /\ UNCHANGED <<disk, broker, market>>

-----------------------------------------------------------------------------
(* The broker and the market *)

Shown ==
    /\ \/ /\ entry.status = "inflight"
          /\ entry' = [entry EXCEPT !.status = "SUBMITTED"] /\ UNCHANGED sells
       \/ /\ \E a \in Attempts : sells[a].status = "inflight" /\ Resting(a, "SUBMITTED")
          /\ UNCHANGED entry
    /\ UNCHANGED <<process, durable, held, market, budget>>

FilledOf(order, n, all) ==
    [filled |-> order.filled + n,
     status |-> IF order.filled + n = all THEN "FILLED" ELSE "PARTIAL FILLED"]

EntryFills ==
    /\ core /\ entry.status \in OpenStatuses
    /\ \E n \in 1 .. Quantity - entry.filled :
         entry' = FilledOf(entry, n, Quantity) /\ held' = held + n
    /\ UNCHANGED <<process, durable, sells, market, budget>>

\* The size of a sell is the size on record, which no pass changes any more.
SellFills ==
    /\ core
    /\ \E a \in Attempts : \E n \in 1 .. disk.contracts - sells[a].filled :
         /\ sells[a].status \in OpenStatuses /\ n <= held
         /\ sells' = [sells EXCEPT ![a] = FilledOf(@, n, disk.contracts)]
         /\ held' = held - n
    /\ UNCHANGED <<process, durable, entry, market, budget>>

\* A DAY order expires, or the broker or the owner cancels it.
OrderEnds ==
    /\ \/ /\ entry.status \in OpenStatuses
          /\ entry' = [entry EXCEPT !.status = "CANCELLED"] /\ UNCHANGED sells
       \/ /\ \E a \in Attempts : /\ sells[a].status \in OpenStatuses
                                /\ sells' = [sells EXCEPT ![a].status = "CANCELLED"]
          /\ UNCHANGED entry
    /\ UNCHANGED <<process, durable, held, market, budget>>

SessionChanges ==
    /\ IF core THEN Spend("closes") ELSE UNCHANGED budget
    /\ core' = ~core
    /\ UNCHANGED <<process, durable, broker, life, quote>>

QuoteMoves ==
    /\ life # "past" /\ quote' \in {"none", "inside", "outside"} \ {quote}
    /\ UNCHANGED <<process, durable, broker, core, life, budget>>

\* The expiration comes near, and passes: the contracts are gone.
DaysPass ==
    /\ \/ /\ life = "far" /\ life' = "near"
          /\ UNCHANGED <<broker, quote>>
       \/ /\ life = "near" /\ Working = {} /\ entry.status \notin OpenStatuses \union {"inflight"}
          /\ life' = "past" /\ held' = 0 /\ quote' = "none"
          /\ UNCHANGED <<entry, sells>>
    /\ UNCHANGED <<process, durable, core, budget>>

\* The owner sells at the broker.
Outside ==
    /\ held > 0 /\ Spend("outside")
    /\ held' = held - 1
    /\ UNCHANGED <<process, durable, entry, sells, market>>

-----------------------------------------------------------------------------
Pass == PlaceBuy \/ PollBuy \/ Watch \/ WatchFails \/ Sell \/ Settle \/ Save
Monitor == MonitorBegin \/ ReconcileUnknown

Next ==
    \/ Submit \/ Pass \/ Monitor \/ Crash
    \/ Shown \/ EntryFills \/ SellFills \/ OrderEnds
    \/ SessionChanges \/ QuoteMoves \/ DaysPass \/ Outside

Spec == Init /\ [][Next]_vars

\* Calls have deadlines and the monitor runs on a timer; the broker shows an
\* accepted order and ends it within its day.
FairSpec ==
    /\ Spec
    /\ WF_vars(Pass) /\ WF_vars(Monitor)
    /\ WF_vars(Shown) /\ WF_vars(SellFills \/ OrderEnds)

-----------------------------------------------------------------------------
(* Properties *)

TypeOK ==
    /\ pc \in {"idle", "place", "poll", "watch", "sell", "settle", "save"}
    /\ ctx \in {"submit", "unknown", "monitor"}
    /\ tries \in 0 .. PollAttempts
    /\ last \in Orders \union {NoAnswer}
    /\ mem \in Records /\ disk \in Records /\ traded \in Lots
    /\ entry \in Orders /\ sells \in [Attempts -> Orders] /\ held \in Lots
    /\ core \in BOOLEAN /\ life \in {"far", "near", "past"}
    /\ quote \in {"none", "inside", "outside"}
    /\ budget \in [mishaps : 0 .. MaxMishaps, closes : 0 .. MaxCloses,
                   outside : 0 .. MaxOutside]

\* A lost call or a restart leaves one sell at work; it takes two of them for
\* a second one to be sent beside the first. (app.py, the id stored before the
\* sell is sent and kept while its outcome is open)
Mishaps == MaxMishaps - budget.mishaps

OneSale == Mishaps < 2 => Cardinality(Working) <= 1

\* And as long, the contracts journalled as sold are those the sells sold,
\* over all attempts.
SoldInAll ==
    LET sold == [a \in Attempts |-> sells[a].filled]
    IN  MapThenSumSet(LAMBDA a : sold[a], Attempts)

JournalIsTrue ==
    Mishaps < 2 /\ (traded # 0 \/ disk.state = Closed) =>
        traded = SoldInAll /\ traded # 0

\* What the comment at the id promises: after a crash the option is sold on under
\* the id of the sell that may be at work, and none goes out beside it.
\* (app.py:6551, "so a crash or an unfilled sell resumes on this id")
ResumesOnItsId ==
    [][pc = "watch" /\ pc' = "sell" => Working \subseteq {mem'.exit}]_vars

\* A sell the broker knows does not stay pending: it is closed or tried anew.
SaleEnds ==
    \A a \in Attempts :
        (disk.exit = a /\ sells[a].status \notin AbsentStatuses) ~> disk.exit # a

\* An option near its expiration is sold or being sold, unless nobody bids.
Watched == disk.state = Confirmed /\ disk.exit = 0 /\ disk.attempt < MaxAttempts

ExpiryIsActedOn == (Watched /\ life = "near") ~> (~Watched \/ quote = "none")

=============================================================================
