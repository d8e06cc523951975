----------------------------- MODULE ScanFunnel -----------------------------
(***************************************************************************)
(* One scan of one account, from the opportunities it found to what it     *)
(* tells of them (_run_autonomous_trade_scan_locked, src/backend/app.py).  *)
(* Every opportunity goes through the same gates in the order of its       *)
(* confidence, is tried as an option first and as shares then, and ends as *)
(* an order, a ticket, an alert on a phone or a skip with its reason. The  *)
(* scan lock is held throughout; a fault is a write or a request that      *)
(* fails, or the end of the process.                                       *)
(***************************************************************************)
EXTENDS Naturals, FiniteSets, FiniteSetsExt

CONSTANTS
    Opportunities, \* numbered by falling confidence
    OrdersPerRun,  \* OVERNIGHT_MAX_ORDERS_PER_RUN
    MaxFaults      \* bound: writes and requests that fail, and deaths

FunnelConstants ==
    /\ Opportunities \subseteq Nat /\ IsFiniteSet(Opportunities)
    /\ OrdersPerRun \in Nat /\ MaxFaults \in Nat

VARIABLES
    mode,       \* what becomes of a candidate that passes every gate
    allowed,    \* new entries are allowed in this scan
    margin,     \* the user has a margin account
    qualifying, \* opportunities that nothing keeps from being a candidate
    candidates, \* those this scan tries
    pc,         \* the step the scan does next
    entry,      \* the candidate at hand: what it is tried as and its status
    result,     \* how each opportunity ended, "none" while it has not
    category,   \* skip_category of each opportunity
    research,   \* the decision the research log has of each, "none" or "twice"
    store,      \* the status overnight_orders.json has of each
    orders,     \* broker: what was ordered for each
    live,       \* broker: orders that may hold money or a position
    tickets,    \* trade tickets proposed
    alerts,     \* setup alerts sent to a phone
    reserved,   \* opportunities whose dollars this scan has set aside
    faults

scan == <<mode, allowed, margin, qualifying, candidates>>
files == <<research, store, tickets>>
broker == <<orders, live>>
vars == <<scan, pc, entry, result, category, files, broker, alerts, reserved, faults>>

Modes == {"preview", "approval", "confirm", "auto"}

\* What keeps an opportunity from qualifying, in the order it is looked at.
Bars == {"not_call_or_put", "confidence_threshold", "declined_today",
         "already_holds_position", "already_placed_today"}

Gates == {"backtest_gate", "skipped_by_regime", "ml_confidence",
          "unprotectable_levels", "no_margin_account"}

NoEntry == [as |-> "none", status |-> "none"]

Chosen(fit, slots) ==
    {o \in fit : Cardinality({p \in fit : p < o}) < Min({OrdersPerRun, slots})}

Init ==
    /\ mode \in Modes /\ allowed \in BOOLEAN /\ margin \in BOOLEAN
    /\ qualifying \in SUBSET Opportunities
    /\ \E slots \in 0 .. Cardinality(Opportunities) :
          candidates = IF allowed THEN Chosen(qualifying, slots) ELSE {}
    /\ pc = "rest" /\ entry = NoEntry
    /\ result = [o \in Opportunities |-> "none"]
    /\ category = [o \in Opportunities |-> "none"]
    /\ research = [o \in Opportunities |-> "none"]
    /\ store = [o \in Opportunities |-> "none"]
    /\ orders = [o \in Opportunities |-> {}] /\ live = {}
    /\ tickets = {} /\ alerts = {} /\ reserved = {} /\ faults = 0

-----------------------------------------------------------------------------
(* What a step writes *)

Open(among) == {o \in among : result[o] = "none"}
At == Min(Open(candidates))

Fault == faults < MaxFaults /\ faults' = faults + 1

\* A decision is logged; what the log cannot take is dropped. A preview logs nothing.
Log(o, decision) ==
    \/ /\ research' = IF mode = "preview" THEN research
                      ELSE [research EXCEPT ![o] = IF @ = "none" THEN decision ELSE "twice"]
       /\ UNCHANGED faults
    \/ mode # "preview" /\ UNCHANGED research /\ Fault

Ends(o, as, why) ==
    /\ result' = [result EXCEPT ![o] = as]
    /\ category' = [category EXCEPT ![o] = why]

\* The candidate is done with; the next one is looked at.
Onwards == pc' = "gate" /\ entry' = NoEntry

Skip(o, why) == Ends(o, "skipped", why) /\ Log(o, "skipped")

-----------------------------------------------------------------------------
(* The opportunities that are no candidates *)

\* The first bar that holds, or that entries are blocked, or that no slot is left.
WhyNot(o) ==
    IF o \notin qualifying THEN Bars
    ELSE IF allowed THEN {"max_positions"} ELSE {"entries_blocked"}

SkipRest ==
    /\ pc = "rest" /\ Open(Opportunities \ candidates) # {}
    /\ LET o == Min(Open(Opportunities \ candidates))
       IN  \E why \in WhyNot(o) : Skip(o, why)
    /\ UNCHANGED <<scan, pc, entry, store, tickets, broker, alerts, reserved>>

StartCandidates ==
    /\ pc = "rest" /\ Open(Opportunities \ candidates) = {}
    /\ Onwards
    /\ UNCHANGED <<scan, result, category, files, broker, alerts, reserved, faults>>

-----------------------------------------------------------------------------
(* The gates of a candidate *)

\* Mutant of Refuse: a candidate is dropped without a word in the log.
RefuseUnlogged ==
    /\ pc = "gate" /\ Open(candidates) # {}
    /\ \E why \in Gates : Ends(At, "skipped", why)
    /\ Onwards /\ UNCHANGED <<scan, files, broker, alerts, reserved, faults>>

\* Without evidence for its strategy, usable prices, or the account a short
\* needs, a candidate is skipped. Live trading has no evidence gate.
Refuse ==
    /\ pc = "gate" /\ Open(candidates) # {}
    /\ \E why \in Gates : (why = "no_margin_account" => ~margin) /\ Skip(At, why)
    /\ Onwards /\ UNCHANGED <<scan, store, tickets, broker, alerts, reserved>>

\* An option is looked up first, and only where a margin account could hold it.
Pass ==
    /\ pc = "gate" /\ Open(candidates) # {}
    /\ pc' = IF margin THEN "option" ELSE "equity"
    /\ UNCHANGED <<scan, entry, result, category, files, broker, alerts, reserved, faults>>

Finish ==
    /\ pc = "gate" /\ Open(candidates) = {}
    /\ pc' = "done"
    /\ UNCHANGED <<scan, entry, result, category, files, broker, alerts, reserved, faults>>

\* No contract is found or affordable, or the lookup fails: shares are tried.
NoContract ==
    /\ pc = "option" /\ pc' = "equity"
    /\ UNCHANGED <<scan, entry, result, category, files, broker, alerts, reserved, faults>>

\* The ramp of a live account leaves no contract: shares are not tried, and
\* the decision is not logged.
RampLeavesNone ==
    /\ pc = "option" /\ mode # "confirm"
    /\ Ends(At, "skipped", "live_ramp")
    /\ Onwards /\ UNCHANGED <<scan, files, broker, alerts, reserved, faults>>

TakeOption ==
    /\ pc = "option"
    /\ pc' = IF mode \in {"preview", "approval"} THEN mode ELSE "persist"
    /\ entry' = [as |-> "option", status |-> "pending"]
    /\ UNCHANGED <<scan, result, category, files, broker, alerts, reserved, faults>>

TooSmall ==
    /\ pc = "equity" /\ Skip(At, "sizing_too_small")
    /\ Onwards /\ UNCHANGED <<scan, store, tickets, broker, alerts, reserved>>

\* A skip that was sized is kept with the orders, unless it is a preview's.
Kept(o) == store' = IF mode = "preview" THEN store ELSE [store EXCEPT ![o] = "skipped"]

\* The second opinion refuses, or takes the confidence below the floor.
Veto ==
    /\ pc = "equity" /\ Kept(At) /\ Skip(At, "llm_veto")
    /\ Onwards /\ UNCHANGED <<scan, tickets, broker, alerts, reserved>>

TakeShares ==
    /\ pc = "equity"
    /\ pc' = IF mode \in {"preview", "approval"} THEN mode ELSE "price"
    /\ entry' = [as |-> "equity", status |-> "pending"]
    /\ UNCHANGED <<scan, result, category, files, broker, alerts, reserved, faults>>

-----------------------------------------------------------------------------
(* The ways a candidate goes *)

Preview ==
    /\ pc = "preview"
    /\ Ends(At, "preview", "none") /\ reserved' = reserved \union {At}
    /\ Onwards /\ UNCHANGED <<scan, files, broker, alerts, faults>>

Propose ==
    /\ pc = "approval"
    /\ tickets' = tickets \union {At} /\ reserved' = reserved \union {At}
    /\ Ends(At, "proposed", "awaiting_approval") /\ Log(At, "proposed")
    /\ Onwards /\ UNCHANGED <<scan, store, broker, alerts>>

\* The ticket file cannot be written: shares are a failed entry, an option
\* takes the scan with it.
ProposalFails ==
    /\ pc = "approval" /\ Fault
    /\ IF entry.as = "equity"
       THEN pc' = "record" /\ entry' = [entry EXCEPT !.status = "failed"]
       ELSE pc' = "dead" /\ entry' = NoEntry
    /\ UNCHANGED <<scan, result, category, files, broker, alerts, reserved>>

\* The sources disagree, none answers, or the price has moved.
PriceRefused ==
    /\ pc = "price" /\ Kept(At)
    /\ \E why \in {"price_drift", "price_sources_disagree"} : Skip(At, why)
    /\ Onwards /\ UNCHANGED <<scan, tickets, broker, alerts, reserved>>

PriceStands ==
    /\ pc = "price" /\ pc' = IF mode = "confirm" THEN "alert" ELSE "persist"
    /\ UNCHANGED <<scan, entry, result, category, files, broker, alerts, reserved, faults>>

\* Quiet hours, the day's cap or a missing address keep the alert back.
Alert ==
    /\ pc = "alert" /\ Kept(At)
    /\ \E why \in {"awaiting_confirm", "quiet_hours", "alert_cap", "confirm_unconfigured"} :
         /\ alerts' = IF why = "awaiting_confirm" THEN alerts \union {At} ELSE alerts
         /\ Skip(At, why)
    /\ Onwards /\ UNCHANGED <<scan, tickets, broker, reserved>>

\* The alert's daily count or its message cannot be written: a failed entry.
AlertFails ==
    /\ pc = "alert" /\ Fault
    /\ pc' = "record" /\ entry' = [entry EXCEPT !.status = "failed"]
    /\ UNCHANGED <<scan, result, category, files, broker, alerts, reserved>>

\* The record comes before the order, or there is no order.
Persist ==
    /\ pc = "persist"
    /\ \/ /\ store' = [store EXCEPT ![At] = "pending"] /\ pc' = "send"
          /\ UNCHANGED <<entry, faults>>
       \/ /\ Fault /\ pc' = "record" /\ entry' = [entry EXCEPT !.status = "failed"]
          /\ UNCHANGED store
    /\ UNCHANGED <<scan, result, category, research, tickets, broker, alerts, reserved>>

\* The order is accepted and works, fills, or ends unfilled within the poll;
\* it is rejected; or nobody knows.
Send ==
    /\ pc = "send" /\ pc' = "record"
    /\ \E sent \in BOOLEAN : \E status \in {"placed", "failed", "unknown"} :
         /\ status = "placed" => sent
         /\ orders' = IF sent THEN [orders EXCEPT ![At] = @ \union {entry.as}] ELSE orders
         /\ live' = IF sent /\ status # "failed" THEN live \union {At} ELSE live
         /\ entry' = [entry EXCEPT !.status = status]
    /\ UNCHANGED <<scan, result, category, files, alerts, reserved, faults>>

WhyOf(status) ==
    CASE status = "failed"  -> "entry_failed"
      [] status = "unknown" -> "unknown_submission_state"
      [] status = "placed"  -> "none"

\* Mutant of Spends: only shares are counted, as before there were options.
SpendsOnShares(tried) == tried.as = "equity" /\ tried.status \in {"placed", "unknown"}

\* An order that may rest takes its dollars from the later candidates.
Spends(tried) == tried.status \in {"placed", "unknown"}

\* The outcome goes to the result, the reservations, the order file and the
\* log; an unknown one ends the scan.
Record ==
    /\ pc = "record"
    /\ Ends(At, entry.status, WhyOf(entry.status))
    /\ reserved' = IF Spends(entry) THEN reserved \union {At} ELSE reserved
    /\ store' = [store EXCEPT ![At] = entry.status]
    /\ Log(At, IF entry.status = "placed" THEN "placed" ELSE "skipped")
    /\ pc' = IF entry.status = "unknown" THEN "done" ELSE "gate"
    /\ entry' = NoEntry
    /\ UNCHANGED <<scan, tickets, broker, alerts>>

\* The order file cannot take the outcome, and the scan is over.
RecordFails ==
    /\ pc = "record" /\ Fault
    /\ pc' = "dead" /\ entry' = NoEntry
    /\ UNCHANGED <<scan, result, category, files, broker, alerts, reserved>>

\* The process ends between two steps.
Die ==
    /\ pc \notin {"done", "dead"} /\ Fault
    /\ pc' = "dead" /\ entry' = NoEntry
    /\ UNCHANGED <<scan, result, category, files, broker, alerts, reserved>>

\* _summarize_scan_result_for_run_log: what counts as an attempt at an order.
Attempted == {o \in Opportunities : result[o] \in {"placed", "failed", "unknown"}}

Next ==
    \/ SkipRest \/ StartCandidates \/ Refuse \/ Pass \/ Finish
    \/ NoContract \/ RampLeavesNone \/ TakeOption \/ TooSmall \/ Veto \/ TakeShares
    \/ Preview \/ Propose \/ ProposalFails \/ PriceRefused \/ PriceStands
    \/ Alert \/ AlertFails \/ Persist \/ Send \/ Record \/ RecordFails \/ Die

Spec == Init /\ [][Next]_vars

-----------------------------------------------------------------------------
(* Properties *)

\* A scan that ends has told of every opportunity, the log and the result
\* agree, and each is logged once; left out are those behind a submission that
\* nobody knows the outcome of, and an option the ramp left nothing of.
Told(o) ==
    /\ result[o] # "none"
    /\ mode # "preview" =>
         research[o] = CASE result[o] \in {"placed", "proposed"} -> result[o]
                         [] category[o] = "live_ramp" -> "none"
                         [] OTHER -> "skipped"

EveryOpportunityIsTold ==
    (pc = "done" /\ faults = 0) =>
        \A o \in Opportunities :
            Told(o) \/ \E p \in candidates : p < o /\ o \in candidates /\ result[p] = "unknown"

\* An order that may rest is on record as pending, placed or unknown, and
\* counted as an attempt, whatever failed after it was sent; and while the next
\* candidate is sized its dollars are set aside, as those of every ticket are
\* (_persist_entry_before_submission, the except branches of the loop).
LiveIsAccountedFor ==
    /\ \A o \in live :
          /\ store[o] \in {"pending", "placed", "unknown"}
          /\ pc = "done" => o \in Attempted
    /\ pc \in {"gate", "option", "equity", "price", "persist"} =>
          live \union tickets \subseteq reserved

=============================================================================
