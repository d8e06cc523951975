------------------------------ MODULE EntryGate ------------------------------
(***************************************************************************)
(* The three ways into a position, and what keeps them from entering one   *)
(* twice or over the limits.                                               *)
(*                                                                         *)
(*   - the scan shortlists tickers and, for each, sends the order itself,  *)
(*     makes a ticket for the user to approve, or sends the user's phone a *)
(*     link that enters when it is pressed;                                *)
(*   - an approval claims its ticket, waits for the account's lock, checks *)
(*     everything again and submits;                                       *)
(*   - a pressed link is used up, checks the price and submits. It takes no *)
(*     lock, and links exist on paper accounts only.                       *)
(*                                                                         *)
(* All three submit through the same function: the record is written, the  *)
(* live dollar cap reserved, the order sent under the one id its ticker    *)
(* has that day, and the record settled by the answer. Approvals and       *)
(* presses are requests of the web server: any number at a time, each of   *)
(* which may die half way, as the scan may.                                *)
(***************************************************************************)
EXTENDS OrderLifecycle, Integers, Sequences, FiniteSetsExt

CONSTANTS
    Accounts,      \* the kinds of account to consider
    Approval,      \* the settings of APPROVAL mode to consider for each
    Tickers,       \* what the scan may find
    TicketIds,     \* the ids of the trade tickets
    LinkIds,       \* the nonces of the confirm links
    Hands,         \* the requests the web server is working on at a time
    Costs,         \* the dollars an entry of each ticker may cost, by its size
    OrderCap,      \* LIVE_MAX_ORDER_USD
    DailyCap,      \* LIVE_MAX_DAILY_USD
    OrdersPerRun,  \* OVERNIGHT_MAX_ORDERS_PER_RUN
    MaxRecords,    \* bounds the records of the day
    MaxFaults,     \* bounds the deaths and failed writes
    Nobody, NoTicket, NoLink, NoTicker

Scan == "scan"
Procs == {Scan} \union Hands
Origins == {Scan} \union TicketIds \union LinkIds

ASSUME CostAssumption ==
    /\ Costs \in [Tickers -> SUBSET (Nat \ {0})]
    /\ IsFiniteSet(Tickers)
    /\ OrderCap \in Nat /\ DailyCap \in Nat /\ OrdersPerRun \in Nat
    /\ MaxRecords \in Nat /\ MaxFaults \in Nat
ASSUME AccountAssumption ==
    Accounts \subseteq {"live", "paper", "confirm"} /\ Approval \in [Accounts -> SUBSET BOOLEAN]
ASSUME OriginAssumption ==
    /\ Scan \notin Hands \union TicketIds \union LinkIds
    /\ TicketIds \intersect LinkIds = {}
    /\ Nobody \notin Procs \union Origins
    /\ NoTicker \notin Tickers

VARIABLES
    account,   \* "live", "paper", or "confirm": paper with the links on
    lock,      \* who holds .scan.lock
    tickets,   \* trade_tickets.json
    links,     \* the links sent, and the nonces used
    records,   \* the submitted entries of overnight_orders.json, oldest first
    order,     \* the day's order of each ticker at the broker
    dollars,   \* what that order costs
    spent,     \* the live exposure file: the day's total and what it counts
    proc,      \* where the scan and each request are
    faults     \* how many faults have happened

vars == <<account, lock, tickets, links, records, order, dollars, spent, proc, faults>>

---------------------------------------------------------------------------
(* Tickets, links and records.                                             *)

\* A lapsed ticket is EXPIRED, or SUPERSEDED by one with other terms.
TicketStatuses == {"awaiting", "approved", "submitted", "recheck_failed",
                   "declined", "lapsed"}
Tickets == [ticker : Tickers, status : TicketStatuses]
Links == [ticker : Tickers, used : BOOLEAN]
ASSUME NothingAssumption == NoTicket \notin Tickets /\ NoLink \notin Links

EntryRecords == [ticker : Tickers, origin : Origins, state : AllStates, placed : BOOLEAN]

Is(id, status) == tickets[id] # NoTicket /\ tickets[id].status = status
SetStatus(id, status) == [tickets EXCEPT ![id].status = status]

\* The open tickets of a ticker, of which create_or_refresh_ticket takes one.
OpenTickets(t) ==
    {id \in TicketIds : (Is(id, "awaiting") \/ Is(id, "approved")) /\ tickets[id].ticker = t}
Fresh(table, nothing) == {id \in DOMAIN table : table[id] = nothing}

OpenRecords(t) ==
    {i \in DOMAIN records : records[i].ticker = t /\ records[i].state \notin TerminalStates}
InDoubt == \E i \in DOMAIN records : records[i].state = Unknown
\* status "placed", which only the submission itself gives a record.
PlacedToday(t) == \E i \in DOMAIN records : records[i].ticker = t /\ records[i].placed
\* Everything recorded for the ticker today was closed.
ReentryReady(t) ==
    /\ \E i \in DOMAIN records : records[i].ticker = t
    /\ \A i \in DOMAIN records : records[i].ticker = t => records[i].state = Closed
DeclinedToday(t) == \E id \in TicketIds : Is(id, "declined") /\ tickets[id].ticker = t

Fault == faults < MaxFaults /\ faults' = faults + 1

---------------------------------------------------------------------------
(* The broker has one order for a ticker and a day, since all its entries  *)
(* have one client order id. It does not show an order it just accepted.   *)

Shown == {"working", "filled", "dead"}
BrokerOrders == Shown \union {"none", "inflight"}

OrderMoves(t) ==
    /\ \/ order[t] = "inflight" /\ order' = [order EXCEPT ![t] = "working"]
       \/ order[t] = "working" /\ \E end \in {"filled", "dead"} :
                                     order' = [order EXCEPT ![t] = end]
    /\ UNCHANGED <<account, lock, tickets, links, records, dollars, spent, proc, faults>>

\* What a record of an order the broker shows becomes: ManualResolution and
\* EntryProtection have the steps.
FollowsOrder(t, state) ==
    CASE order[t] = "dead"    -> Failed
      [] order[t] = "filled"  -> Confirmed
      [] order[t] = "working" -> Submitted
      [] OTHER                -> state

\* A monitor pass reaches a record. It holds the lock from its first read to
\* its last write.
Monitor(i) ==
    /\ lock = Nobody
    /\ \E state \in CASE records[i].state = Submitted -> {FollowsOrder(records[i].ticker, Submitted)}
                      [] records[i].state = Unknown ->
                            IF order[records[i].ticker] = "none" THEN {Failed}
                            ELSE {FollowsOrder(records[i].ticker, Unknown)}
                      [] records[i].state = Confirmed -> {Closed}
                      [] OTHER -> {} :
          /\ state # records[i].state
          /\ records' = [records EXCEPT ![i].state = state]
    /\ UNCHANGED <<account, lock, tickets, links, order, dollars, spent, proc, faults>>

---------------------------------------------------------------------------
(* The submission all three share.                                         *)

IdleProc == [pc |-> "idle", origin |-> Nobody, ticker |-> NoTicker, entry |-> 0,
             cost |-> 0, reply |-> "none", todo |-> {}, mode |-> "none"]

\* A request takes the first free slot; the slots are alike.
FreeHand(h) == h = CHOOSE x \in Hands : proc[x].pc = "idle"
Go(p, pc) == proc' = [proc EXCEPT ![p].pc = pc]

\* Where a submission returns to: the scan's loop, which an ambiguous answer
\* ends; the approval, which settles its ticket; the press, which is over.
Returned(p, reply) ==
    CASE p = Scan -> [IdleProc EXCEPT !.pc = "choose", !.mode = proc[Scan].mode,
                            !.todo = IF reply = "ambiguous" THEN {} ELSE proc[Scan].todo]
      [] proc[p].origin \in TicketIds -> [proc[p] EXCEPT !.pc = "settle"]
      [] OTHER -> IdleProc

\* What an entry costs, by the number of shares: of matter to a live account only.
CostsOf(t) == IF account = "live" THEN Costs[t] ELSE {0}

\* The record is on disk before the order goes out, or the order does not.
PersistEntry(p) ==
    /\ proc[p].pc = "persist" /\ Len(records) < MaxRecords
    /\ records' = Append(records, [ticker |-> proc[p].ticker, origin |-> proc[p].origin,
                                   state |-> Submitted, placed |-> FALSE])
    /\ \E cost \in CostsOf(proc[p].ticker) :
          proc' = [proc EXCEPT ![p].pc = IF account = "live" THEN "reserve" ELSE "send",
                               ![p].entry = Len(records) + 1, ![p].cost = cost]
    /\ UNCHANGED <<account, lock, tickets, links, order, dollars, spent, faults>>

\* A store that is full, which is what the bound makes of it, fails too.
PersistFails(p) ==
    /\ proc[p].pc = "persist"
    /\ IF Len(records) < MaxRecords THEN Fault ELSE UNCHANGED faults
    /\ proc' = [proc EXCEPT ![p] = Returned(p, "rejected")]
    /\ UNCHANGED <<account, lock, tickets, links, records, order, dollars, spent>>

\* reserve(): an id that was counted today is not counted again, whatever the
\* order under it costs this time.
Counted(t) == spent.orders[t] > 0
\* Mutant of Fits: what is spent is compared, without the order to be sent.
FitsBefore(t, cost) == cost <= OrderCap /\ (Counted(t) \/ spent.total <= DailyCap)
Fits(t, cost) == cost <= OrderCap /\ (Counted(t) \/ spent.total + cost <= DailyCap)
Reserved(t, cost) ==
    IF Counted(t) THEN spent
    ELSE [total |-> spent.total + cost, orders |-> [spent.orders EXCEPT ![t] = cost]]
Unreserved(t) ==
    [total |-> spent.total - spent.orders[t], orders |-> [spent.orders EXCEPT ![t] = 0]]

Reserve(p) ==
    /\ proc[p].pc = "reserve"
    /\ LET t == proc[p].ticker
           granted == Fits(t, proc[p].cost)
       IN /\ spent' = IF granted THEN Reserved(t, proc[p].cost) ELSE spent
          /\ proc' = [proc EXCEPT ![p].pc = IF granted THEN "send" ELSE "record",
                                  ![p].reply = IF granted THEN "none" ELSE "rejected"]
    /\ UNCHANGED <<account, lock, tickets, links, records, order, dollars, faults>>

\* A new order is accepted or not heard of again; no refusal of a placement
\* counts as definite. A repeated id is answered with the order it has, and
\* when that is not shown yet, with the lookup's "not present", which is
\* definite and gives the dollars back.
Send(p) ==
    /\ proc[p].pc = "send"
    /\ LET t == proc[p].ticker
       IN \E reply \in {"accepted", "rejected", "ambiguous"} :
             /\ reply = "accepted" => order[t] \in Shown \union {"none"}
             /\ reply = "rejected" => order[t] = "inflight"
             /\ \/ /\ order[t] = "none"
                   /\ \E s \in {"inflight", "working"} : order' = [order EXCEPT ![t] = s]
                   /\ dollars' = [dollars EXCEPT ![t] = proc[p].cost]
                \/ /\ order[t] # "none" \/ reply = "ambiguous"
                   /\ UNCHANGED <<order, dollars>>
             /\ spent' = IF reply = "rejected" THEN Unreserved(t) ELSE spent
             /\ proc' = [proc EXCEPT ![p].reply = reply, ![p].pc = "record"]
    /\ UNCHANGED <<account, lock, tickets, links, records, faults>>

Answered(p) ==
    CASE proc[p].reply = "accepted"  -> FollowsOrder(proc[p].ticker, Submitted)
      [] proc[p].reply = "rejected"  -> Move([state |-> Submitted], Failed).state
      [] proc[p].reply = "ambiguous" -> Move([state |-> Submitted], Unknown).state

RecordEntry(p) ==
    /\ proc[p].pc = "record"
    /\ records' = [records EXCEPT ![proc[p].entry].state = Answered(p),
                                  ![proc[p].entry].placed = Answered(p) \notin {Failed, Unknown}]
    /\ proc' = [proc EXCEPT ![p] = Returned(p, proc[p].reply)]
    /\ UNCHANGED <<account, lock, tickets, links, order, dollars, spent, faults>>

Submission(p) ==
    \/ PersistEntry(p) \/ PersistFails(p) \/ Reserve(p)
    \/ Send(p) \/ RecordEntry(p)

Unlocked(p) == IF lock = p THEN Nobody ELSE lock

---------------------------------------------------------------------------
(* The scan.                                                               *)

\* The scan holds the lock to its end; the approval setting is read once.
StartScan ==
    /\ proc[Scan].pc = "idle" /\ lock = Nobody
    /\ lock' = Scan
    /\ \E approval \in Approval[account] :
          proc' = [proc EXCEPT ![Scan] =
            [IdleProc EXCEPT !.pc = "shortlist",
                             !.mode = IF approval THEN "ticket"
                                      ELSE IF account = "confirm" THEN "link" ELSE "submit"]]
    /\ UNCHANGED <<account, tickets, links, records, order, dollars, spent, faults>>

Qualifies(t) ==
    /\ ~PlacedToday(t) \/ (account = "confirm" /\ ReentryReady(t))
    /\ OpenRecords(t) = {}
    /\ proc[Scan].mode = "ticket" => ~DeclinedToday(t)

\* Nothing is entered while a submission is in doubt. Which tickers have a
\* setup that passes the checks of price, size and limits, and how many
\* positions are free, is open.
Shortlist ==
    /\ proc[Scan].pc = "shortlist"
    /\ \E found \in SUBSET {t \in Tickers : Qualifies(t) /\ ~InDoubt} :
          /\ Cardinality(found) <= OrdersPerRun
          /\ proc' = [proc EXCEPT ![Scan].pc = "choose", ![Scan].todo = found]
    /\ UNCHANGED <<account, lock, tickets, links, records, order, dollars, spent, faults>>

Chosen(t) == proc[Scan].pc = "choose" /\ t \in proc[Scan].todo
Done(t) == proc' = [proc EXCEPT ![Scan].todo = @ \ {t}]

SubmitCandidate(t) ==
    /\ Chosen(t) /\ proc[Scan].mode = "submit"
    /\ proc' = [proc EXCEPT ![Scan].pc = "persist", ![Scan].ticker = t,
                            ![Scan].origin = Scan, ![Scan].todo = @ \ {t}]
    /\ UNCHANGED <<account, lock, tickets, links, records, order, dollars, spent, faults>>

\* create_or_refresh_ticket: an approved ticket is left alone, one with the
\* same terms kept, one with other terms superseded by a new one.
Superseding(t) == [id \in TicketIds |->
    IF id \in OpenTickets(t) THEN [tickets[id] EXCEPT !.status = "lapsed"] ELSE tickets[id]]

ProposeTicket(t) ==
    /\ Chosen(t) /\ proc[Scan].mode = "ticket"
    /\ \/ /\ OpenTickets(t) # {} \/ Fresh(tickets, NoTicket) = {}
          /\ UNCHANGED tickets
       \/ /\ \A id \in OpenTickets(t) : ~Is(id, "approved")
          /\ Fresh(tickets, NoTicket) # {}
          /\ LET new == CHOOSE id \in Fresh(tickets, NoTicket) : TRUE
             IN tickets' = [Superseding(t) EXCEPT
                                ![new] = [ticker |-> t, status |-> "awaiting"]]
    /\ Done(t)
    /\ UNCHANGED <<account, lock, links, records, order, dollars, spent, faults>>

\* The number of links is the daily cap on alerts.
SendLink(t) ==
    /\ Chosen(t) /\ proc[Scan].mode = "link"
    /\ links' = IF Fresh(links, NoLink) = {} THEN links
                ELSE [links EXCEPT ![CHOOSE id \in Fresh(links, NoLink) : TRUE] =
                                        [ticker |-> t, used |-> FALSE]]
    /\ Done(t)
    /\ UNCHANGED <<account, lock, tickets, records, order, dollars, spent, faults>>

EndScan ==
    /\ proc[Scan].pc = "choose" /\ proc[Scan].todo = {}
    /\ lock' = Nobody
    /\ proc' = [proc EXCEPT ![Scan] = IdleProc]
    /\ UNCHANGED <<account, tickets, links, records, order, dollars, spent, faults>>

\* The process dies, or a write raises out of the loop: the lock is freed.
ScanDies ==
    /\ proc[Scan].pc # "idle"
    /\ Fault
    /\ lock' = Unlocked(Scan)
    /\ proc' = [proc EXCEPT ![Scan] = IdleProc]
    /\ UNCHANGED <<account, tickets, links, records, order, dollars, spent>>

ScanStep ==
    \/ StartScan \/ Shortlist \/ EndScan \/ Submission(Scan)
    \/ \E t \in Tickers : SubmitCandidate(t) \/ ProposeTicket(t) \/ SendLink(t)

---------------------------------------------------------------------------
(* Tickets lapse, are declined, or are approved.                           *)

Expire(id) ==
    /\ Is(id, "awaiting")
    /\ tickets' = SetStatus(id, "lapsed")
    /\ UNCHANGED <<account, lock, links, records, order, dollars, spent, proc, faults>>

Decline(id) ==
    /\ Is(id, "awaiting")
    /\ tickets' = SetStatus(id, "declined")
    /\ UNCHANGED <<account, lock, links, records, order, dollars, spent, proc, faults>>

\* Mutant of MayClaim: a second click on an approved ticket is not refused.
MayClaimAgain(id) == Is(id, "awaiting") \/ Is(id, "approved")
MayClaim(id) == Is(id, "awaiting")

Claim(h, id) ==
    /\ proc[h].pc = "idle" /\ FreeHand(h) /\ MayClaim(id)
    /\ tickets' = SetStatus(id, "approved")
    /\ proc' = [proc EXCEPT ![h] = [IdleProc EXCEPT !.pc = "lock", !.origin = id,
                                                    !.ticker = tickets[id].ticker]]
    /\ UNCHANGED <<account, lock, links, records, order, dollars, spent, faults>>

TakeLock(h) ==
    /\ proc[h].pc = "lock" /\ lock = Nobody
    /\ lock' = h
    /\ Go(h, "recheck")
    /\ UNCHANGED <<account, tickets, links, records, order, dollars, spent, faults>>

\* Mutant of GiveBack: the ticket stays approved.
GiveUp(h) ==
    /\ proc[h].pc = "lock" /\ lock # Nobody
    /\ proc' = [proc EXCEPT ![h] = IdleProc]
    /\ UNCHANGED <<account, lock, tickets, links, records, order, dollars, spent, faults>>

\* Too long behind a scan: the ticket is given back.
GiveBack(h) ==
    /\ proc[h].pc = "lock" /\ lock # Nobody
    /\ tickets' = SetStatus(proc[h].origin, "awaiting")
    /\ proc' = [proc EXCEPT ![h] = IdleProc]
    /\ UNCHANGED <<account, lock, links, records, order, dollars, spent, faults>>

\* Mutant of Rechecks: the open positions are those of the scan.
RechecksDoubt(t) == ~InDoubt
Rechecks(t) == ~InDoubt /\ OpenRecords(t) = {}

RecheckPasses(h) ==
    /\ proc[h].pc = "recheck" /\ Rechecks(proc[h].ticker)
    /\ Go(h, "persist")
    /\ UNCHANGED <<account, lock, tickets, links, records, order, dollars, spent, faults>>

\* Any of the checks, of the account, the market and the limits too.
RecheckFails(h) ==
    /\ proc[h].pc = "recheck"
    /\ tickets' = SetStatus(proc[h].origin, "recheck_failed")
    /\ lock' = Nobody
    /\ proc' = [proc EXCEPT ![h] = IdleProc]
    /\ UNCHANGED <<account, links, records, order, dollars, spent, faults>>

\* Whatever the broker said, the ticket was submitted.
Settle(h) ==
    /\ proc[h].pc = "settle"
    /\ tickets' = SetStatus(proc[h].origin, "submitted")
    /\ lock' = Unlocked(h)
    /\ proc' = [proc EXCEPT ![h] = IdleProc]
    /\ UNCHANGED <<account, links, records, order, dollars, spent, faults>>

\* An exception of any step under the lock ends the ticket, even one after
\* the order went out.
ApprovalRaises(h) ==
    /\ proc[h].pc \in {"recheck", "record", "settle"} /\ proc[h].origin \in TicketIds
    /\ Fault
    /\ tickets' = SetStatus(proc[h].origin, "recheck_failed")
    /\ lock' = Unlocked(h)
    /\ proc' = [proc EXCEPT ![h] = IdleProc]
    /\ UNCHANGED <<account, links, records, order, dollars, spent>>

---------------------------------------------------------------------------
(* Links. The nonce is burnt before anything is checked; it may have       *)
(* expired, the price have moved, the emergency stop be on.                *)

Press(h, l) ==
    /\ proc[h].pc = "idle" /\ FreeHand(h)
    /\ links[l] # NoLink /\ ~links[l].used
    /\ links' = [links EXCEPT ![l].used = TRUE]
    /\ \/ proc' = [proc EXCEPT ![h] = [IdleProc EXCEPT !.pc = "persist", !.origin = l,
                                                       !.ticker = links[l].ticker]]
       \/ UNCHANGED proc
    /\ UNCHANGED <<account, lock, tickets, records, order, dollars, spent, faults>>

\* The request's process dies. Its ticket stays approved.
HandDies(h) ==
    /\ proc[h].pc \notin {"idle", "dead"}
    /\ Fault
    /\ lock' = Unlocked(h)
    /\ Go(h, "dead")
    /\ UNCHANGED <<account, tickets, links, records, order, dollars, spent>>

HandStep(h) ==
    \/ TakeLock(h) \/ GiveBack(h) \/ RecheckPasses(h) \/ RecheckFails(h)
    \/ Settle(h) \/ Submission(h)

---------------------------------------------------------------------------
Init ==
    /\ account \in Accounts
    /\ lock = Nobody
    /\ tickets = [id \in TicketIds |-> NoTicket]
    /\ links = [id \in LinkIds |-> NoLink]
    /\ records = <<>>
    /\ order = [t \in Tickers |-> "none"]
    /\ dollars = [t \in Tickers |-> 0]
    /\ spent = [total |-> 0, orders |-> [t \in Tickers |-> 0]]
    /\ proc = [p \in Procs |-> IdleProc]
    /\ faults = 0

Next ==
    \/ ScanStep \/ ScanDies
    \/ \E h \in Hands : \/ HandStep(h) \/ ApprovalRaises(h) \/ HandDies(h)
                        \/ \E id \in TicketIds : Claim(h, id)
                        \/ \E l \in LinkIds : Press(h, l)
    \/ \E id \in TicketIds : Expire(id) \/ Decline(id)
    \/ \E t \in Tickers : OrderMoves(t)
    \/ \E i \in DOMAIN records : Monitor(i)

\* A request that was taken up goes on.
Fairness == \A h \in Hands : WF_vars(HandStep(h))

Spec == Init /\ [][Next]_vars /\ Fairness

---------------------------------------------------------------------------
(* Correctness.                                                            *)

Pcs == {"idle", "shortlist", "choose", "lock", "recheck", "persist",
        "reserve", "send", "record", "settle", "dead"}

TypeOK ==
    /\ account \in Accounts
    /\ lock \in Procs \union {Nobody}
    /\ tickets \in [TicketIds -> Tickets \union {NoTicket}]
    /\ links \in [LinkIds -> Links \union {NoLink}]
    /\ records \in Seq(EntryRecords) /\ Len(records) <= MaxRecords
    /\ order \in [Tickers -> BrokerOrders]
    /\ dollars \in [Tickers -> Nat]
    /\ spent \in [total : Nat, orders : [Tickers -> Nat]]
    /\ proc \in [Procs -> [pc : Pcs, origin : Origins \union {Nobody},
                           ticker : Tickers \union {NoTicker}, entry : 0..MaxRecords, cost : Nat,
                           reply : {"none", "accepted", "rejected", "ambiguous"},
                           todo : SUBSET Tickers,
                           mode : {"none", "submit", "ticket", "link"}]]
    /\ faults \in 0..MaxFaults

\* What an order of the day is down for in the exposure file. An order of a
\* ticker entered once is down for what it costs.
ReEntered(t) == Cardinality({i \in DOMAIN records : records[i].ticker = t}) > 1
Charged == [t \in Tickers |-> IF ReEntered(t) THEN spent.orders[t] ELSE dollars[t]]

\* The orders of a live account are all counted, none costs more than the cap of
\* one, and together they never pass the day's: a lost answer, a death between
\* the reservation and the order, a repeated id or a rejection that gave dollars
\* back lose none of them. An order that was entered again under an id the file
\* had counted is down for what the first attempt would have cost, and no more
\* than that is promised of it.
CapHolds ==
    account = "live" =>
        LET placed == {t \in Tickers : order[t] # "none"}
        IN /\ \A t \in placed : Counted(t) /\ dollars[t] <= OrderCap
           /\ MapThenSumSet(LAMBDA t : Charged[t], placed) <= DailyCap

\* The scan and the approvals between them never have two entries open in one
\* ticker, whichever runs while the other decides, and after any death.
OneOpenEntry ==
    \A t \in Tickers :
        Cardinality({i \in OpenRecords(t) : records[i].origin \notin LinkIds}) <= 1

\* One decision of the user is one submission: two clicks on a ticket, a
\* ticket given back and approved again, a link pressed twice.
OneSubmissionPerDecision ==
    \A id \in TicketIds \union LinkIds :
        Cardinality({i \in DOMAIN records : records[i].origin = id}) <= 1

\* The scan and the approvals have no entry under way, from its record to its
\* order, while the outcome of another of theirs is unknown.
NoEntryInDoubt ==
    \A p \in Procs :
        (proc[p].pc \in {"persist", "reserve", "send"} /\ proc[p].origin \notin LinkIds) =>
            ~\E i \in DOMAIN records : records[i].state = Unknown /\ records[i].origin \notin LinkIds

\* An approved ticket is settled or given back, however long the lock is held,
\* unless the request it was approved in died.
ApprovalEnds ==
    \A id \in TicketIds :
        Is(id, "approved") ~>
            (~Is(id, "approved") \/ \E h \in Hands : proc[h].pc = "dead" /\ proc[h].origin = id)

=============================================================================
