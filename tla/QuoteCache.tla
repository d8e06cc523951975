----------------------------- MODULE QuoteCache -----------------------------
(***************************************************************************)
(* The quotes of one worker process for one symbol                         *)
(* (src/backend/live_market_stream.py: MarketDataCache, get_quote,         *)
(* get_quotes, the polls of _poll_loop).  A row of the cache is stamped    *)
(* when it is written; the quote in it may have been made earlier.  Whether*)
(* the socket is open is the module MarketStream; here it comes and goes.  *)
(***************************************************************************)
EXTENDS Naturals

CONSTANTS
    Requests,
    Ttl, Stale, \* PLUTO_MARKET_CACHE_SECONDS, PLUTO_MARKET_STALE_SECONDS
    Timeout,    \* how long the answer of one call of the data API may take
    MaxClock,   \* bound on the clock
    None, Poller

QuoteConstants ==
    /\ Ttl \in Nat /\ Stale \in Nat /\ Ttl <= Stale
    /\ Timeout \in Nat /\ MaxClock \in Nat /\ Poller \notin Requests

VARIABLES
    clock,
    connected, \* the socket is open and counts as connected
    latest,    \* AlpacaStreamingProvider._latest: when it came, or None
    row,       \* the row of the cache
    task,      \* the requests and the polling thread
    answer     \* the answer given last

vars == <<clock, connected, latest, row, task, answer>>

Tasks == Requests \union {Poller}
Quote(from, at) == [from |-> from, at |-> at]
Idle == [step |-> "idle", quote |-> None]
NoAnswer == [label |-> "none", quote |-> None, at |-> 0]

Init ==
    /\ clock = 0 /\ connected = FALSE /\ latest = None
    /\ row = None /\ task = [t \in Tasks |-> Idle] /\ answer = NoAnswer

\* Mutant of Label: what is older than the time to live is still called live.
LabelLive == IF row = None THEN "unavailable" ELSE "live"

\* MarketDataCache.get
Label ==
    IF row = None THEN "unavailable"
    ELSE IF clock - row.written <= Ttl THEN "live"
    ELSE IF clock - row.written <= Stale THEN "stale"
    ELSE "unavailable"

\* MarketDataCache.update
Update(quote) == row' = [quote |-> quote, written |-> clock]

Tell(t, label, quote) ==
    /\ task' = [task EXCEPT ![t] = Idle]
    /\ answer' = [label |-> label, quote |-> quote, at |-> clock]

\* What is in the cache is told unless it is too old.
TellCached(t) ==
    IF Label = "unavailable" THEN Tell(t, "unavailable", None)
    ELSE Tell(t, Label, row.quote)

-----------------------------------------------------------------------------
\* _on_message: the provider keeps the quote and the service caches it.
Stream ==
    /\ connected
    /\ latest' = clock /\ Update(Quote("stream", clock))
    /\ UNCHANGED <<clock, connected, task, answer>>

ConnectionChanges ==
    /\ connected' = ~connected
    /\ UNCHANGED <<clock, latest, row, task, answer>>

\* get_quote, up to its own call of the data API.
Ask(t) ==
    /\ t \in Requests /\ task[t] = Idle
    /\ IF connected /\ latest # None
       THEN /\ task' = [task EXCEPT ![t] = [step |-> "have", quote |-> Quote("stream", latest)]]
            /\ UNCHANGED answer
       ELSE IF Label = "live"
       THEN TellCached(t)
       ELSE /\ task' = [task EXCEPT ![t].step = "fetching"]
            /\ UNCHANGED answer
    /\ UNCHANGED <<clock, connected, latest, row>>

\* get_quotes: a connected stream is the only source.
AskMany(t) ==
    /\ t \in Requests /\ task[t] = Idle
    /\ IF connected
       THEN IF latest # None
            THEN /\ task' = [task EXCEPT ![t] = [step |-> "have", quote |-> Quote("stream", latest)]]
                 /\ UNCHANGED answer
            ELSE TellCached(t)
       ELSE IF Label = "live"
       THEN TellCached(t)
       ELSE /\ task' = [task EXCEPT ![t].step = "fetching"]
            /\ UNCHANGED answer
    /\ UNCHANGED <<clock, connected, latest, row>>

\* A turn of _poll_loop drops what is stale, and polls while not connected.
Poll ==
    /\ task[Poller] = Idle
    /\ row' = IF row # None /\ clock - row.written > Stale THEN None ELSE row
    /\ task' = IF connected THEN task ELSE [task EXCEPT ![Poller].step = "fetching"]
    /\ UNCHANGED <<clock, connected, latest, answer>>

\* The data API makes the answer; it arrives within the timeout, or never.
Fetched(t) ==
    /\ task[t].step = "fetching"
    /\ task' = [task EXCEPT ![t] = [step |-> "have", quote |-> Quote("rest", clock)]]
    /\ UNCHANGED <<clock, connected, latest, row, answer>>

FetchFails(t) ==
    /\ task[t].step \in {"fetching", "have"}
    /\ task[t].step = "have" => task[t].quote.from = "rest"
    /\ IF t = Poller
       THEN task' = [task EXCEPT ![t] = Idle] /\ UNCHANGED answer
       ELSE TellCached(t)
    /\ UNCHANGED <<clock, connected, latest, row>>

\* The fresh quote goes into the cache and, to a request, as live.
Arrives(t) ==
    /\ task[t].step = "have"
    /\ Update(task[t].quote)
    /\ IF t = Poller
       THEN task' = [task EXCEPT ![t] = Idle] /\ UNCHANGED answer
       ELSE Tell(t, "live", task[t].quote)
    /\ UNCHANGED <<clock, connected, latest>>

Tick ==
    /\ clock < MaxClock /\ clock' = clock + 1
    /\ \A t \in Tasks : task[t].step = "have" /\ task[t].quote.from = "rest"
                        => clock - task[t].quote.at < Timeout
    /\ UNCHANGED <<connected, latest, row, task, answer>>

Next ==
    \/ Stream \/ ConnectionChanges \/ Poll \/ Tick
    \/ \E t \in Tasks : \/ Ask(t) \/ AskMany(t)
                        \/ Fetched(t) \/ FetchFails(t) \/ Arrives(t)

Spec == Init /\ [][Next]_vars

-----------------------------------------------------------------------------
\* A quote of the data API that is called live was made within the time to live
\* and the timeout of the call that brought it, and one called stale within the
\* longer limit, whoever wrote the row and however often it was read
\* (MarketDataCache.get, get_quote, _poll_loop).
LabelsAreTrue ==
    answer.quote # None /\ answer.quote.from = "rest" =>
        answer.at - answer.quote.at
            <= Timeout + (IF answer.label = "live" THEN Ttl ELSE Stale)
=============================================================================
