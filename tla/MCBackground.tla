---------------------------- MODULE MCBackground ----------------------------
(***************************************************************************)
(* The parts around the trading core, checked in one run: a behaviour is   *)
(* one of ScanFunnel, SuggestionLedger, MarketStream, QuoteCache,          *)
(* RefreshPool or ReadCache, chosen by part.  They share no state, so      *)
(* nothing is gained by interleaving them.                                 *)
(***************************************************************************)
EXTENDS ReadCache, FiniteSets

CONSTANTS
    Opportunities, OrdersPerRun, FunnelFaults,
    Setups, DailyCap, MaxRows, Presses, LedgerFaults,
    Workers, Symbols, Defaults, MaxSymbols, Calls, NoWorker, StreamFaults,
    Requests, Ttl, Stale, Timeout, MaxClock, None, Poller,
    Slots, Tickers, Nobody, Scan, MaxQueue, PoolFaults

VARIABLES
    part, \* which of them this behaviour is of
    f_mode, f_allowed, f_margin, f_qualifying, f_candidates, f_pc, f_entry,
    f_result, f_category, f_research, f_store, f_orders, f_live, f_tickets,
    f_alerts, f_reserved, f_faults, l_age, l_row, l_alerts, l_phone, l_used,
    l_press, l_scan, l_page, l_bought, l_told, l_faults, s_holder, s_started,
    s_stream, s_connected, s_fallback, s_watch, s_symbols, s_subscribed,
    s_refused, s_poll, s_call, s_faults, q_clock, q_connected, q_latest,
    q_row, q_task, q_answer, p_slot, p_queue, p_inflight, p_age, p_memory,
    p_lock, p_scan, p_faults

Funnel == INSTANCE ScanFunnel WITH
    MaxFaults <- FunnelFaults, mode <- f_mode, allowed <- f_allowed,
    margin <- f_margin, qualifying <- f_qualifying,
    candidates <- f_candidates, pc <- f_pc, entry <- f_entry,
    result <- f_result, category <- f_category, research <- f_research,
    store <- f_store, orders <- f_orders, live <- f_live,
    tickets <- f_tickets, alerts <- f_alerts, reserved <- f_reserved,
    faults <- f_faults

Ledger == INSTANCE SuggestionLedger WITH
    MaxFaults <- LedgerFaults, age <- l_age, row <- l_row, alerts <- l_alerts,
    phone <- l_phone, used <- l_used, press <- l_press, scan <- l_scan,
    page <- l_page, bought <- l_bought, told <- l_told, faults <- l_faults

Stream == INSTANCE MarketStream WITH
    MaxFaults <- StreamFaults, holder <- s_holder, started <- s_started,
    stream <- s_stream, connected <- s_connected, fallback <- s_fallback,
    watch <- s_watch, symbols <- s_symbols, subscribed <- s_subscribed,
    refused <- s_refused, poll <- s_poll, call <- s_call, faults <- s_faults

Quotes == INSTANCE QuoteCache WITH
    clock <- q_clock, connected <- q_connected, latest <- q_latest,
    row <- q_row, task <- q_task, answer <- q_answer

Pool == INSTANCE RefreshPool WITH
    MaxFaults <- PoolFaults, slot <- p_slot, queue <- p_queue,
    inflight <- p_inflight, age <- p_age, memory <- p_memory, lock <- p_lock,
    scan <- p_scan, faults <- p_faults

ASSUME BackgroundAssumption ==
    /\ Funnel!FunnelConstants /\ Ledger!LedgerConstants
    /\ Stream!StreamConstants /\ Quotes!QuoteConstants


\* One reader and one writer in the first process, a writer in the second.
HomeOf == [t \in Readers \union Writers |-> IF t = 22 THEN 2 ELSE 1]


funnelVars == <<f_mode, f_allowed, f_margin, f_qualifying, f_candidates, f_pc,
              f_entry, f_result, f_category, f_research, f_store, f_orders,
              f_live, f_tickets, f_alerts, f_reserved, f_faults>>
ledgerVars == <<l_age, l_row, l_alerts, l_phone, l_used, l_press, l_scan,
              l_page, l_bought, l_told, l_faults>>
streamVars == <<s_holder, s_started, s_stream, s_connected, s_fallback, s_watch,
              s_symbols, s_subscribed, s_refused, s_poll, s_call, s_faults>>
quotesVars == <<q_clock, q_connected, q_latest, q_row, q_task, q_answer>>
poolVars == <<p_slot, p_queue, p_inflight, p_age, p_memory, p_lock, p_scan,
              p_faults>>
readVars == vars
allVars == <<part, funnelVars, ledgerVars, streamVars, quotesVars, poolVars, readVars>>

\* What a scan starts from matters to the funnel alone.
OtherScan ==
    /\ f_mode = "auto" /\ f_allowed /\ f_margin
    /\ f_qualifying = {} /\ f_candidates = {}

MCInit ==
    /\ part \in {"funnel", "ledger", "stream", "quotes", "pool", "read"}
    /\ Funnel!Init /\ (part # "funnel" => OtherScan)
    /\ Ledger!Init /\ Stream!Init /\ Quotes!Init /\ Pool!Init /\ Init

InFunnel(A) ==
    /\ part = "funnel" /\ A
    /\ UNCHANGED <<part, ledgerVars, streamVars, quotesVars, poolVars, readVars>>

InLedger(A) ==
    /\ part = "ledger" /\ A
    /\ UNCHANGED <<part, funnelVars, streamVars, quotesVars, poolVars, readVars>>

InStream(A) ==
    /\ part = "stream" /\ A
    /\ UNCHANGED <<part, funnelVars, ledgerVars, quotesVars, poolVars, readVars>>

InQuotes(A) ==
    /\ part = "quotes" /\ A
    /\ UNCHANGED <<part, funnelVars, ledgerVars, streamVars, poolVars, readVars>>

InPool(A) ==
    /\ part = "pool" /\ A
    /\ UNCHANGED <<part, funnelVars, ledgerVars, streamVars, quotesVars, readVars>>

InRead(A) ==
    /\ part = "read" /\ A
    /\ UNCHANGED <<part, funnelVars, ledgerVars, streamVars, quotesVars, poolVars>>

FunnelNext ==
    \/ InFunnel(Funnel!SkipRest) \/ InFunnel(Funnel!StartCandidates)
    \/ InFunnel(Funnel!Refuse) \/ InFunnel(Funnel!Pass)
    \/ InFunnel(Funnel!Finish) \/ InFunnel(Funnel!NoContract)
    \/ InFunnel(Funnel!RampLeavesNone) \/ InFunnel(Funnel!TakeOption)
    \/ InFunnel(Funnel!TooSmall) \/ InFunnel(Funnel!Veto)
    \/ InFunnel(Funnel!TakeShares) \/ InFunnel(Funnel!Preview)
    \/ InFunnel(Funnel!Propose) \/ InFunnel(Funnel!ProposalFails)
    \/ InFunnel(Funnel!PriceRefused) \/ InFunnel(Funnel!PriceStands)
    \/ InFunnel(Funnel!Alert) \/ InFunnel(Funnel!AlertFails)
    \/ InFunnel(Funnel!Persist) \/ InFunnel(Funnel!Send)
    \/ InFunnel(Funnel!Record) \/ InFunnel(Funnel!RecordFails)
    \/ InFunnel(Funnel!Die)

LedgerNext ==
    \/ InLedger(Ledger!FindOther) \/ InLedger(Ledger!FindConfirm)
    \/ InLedger(Ledger!SendAlert) \/ InLedger(Ledger!AppendAwaiting)
    \/ InLedger(Ledger!ExpireUnconfirmed) \/ InLedger(Ledger!GradeDue)
    \/ InLedger(Ledger!TellAtOnce) \/ InLedger(Ledger!MarkTold)
    \/ InLedger(Ledger!OpenDigest) \/ InLedger(Ledger!MarkDigest)
    \/ InLedger(Ledger!ShowDigest) \/ InLedger(Ledger!Die)
    \/ \E s \in Setups :
          \/ InLedger(Ledger!Pass(s)) \/ InLedger(Ledger!ApproveTicket(s))
    \/ \E p \in Presses :
          \/ InLedger(Ledger!Skip(p)) \/ InLedger(Ledger!RefuseEnter(p))
          \/ InLedger(Ledger!SubmitEnter(p)) \/ InLedger(Ledger!WriteEnter(p))
          \/ InLedger(Ledger!HandleFailure(p))
    \/ \E p \in Presses, s \in Setups, act \in Ledger!Acts :
          \/ InLedger(Ledger!Press(p, s, act))

StreamNext ==
    \/ \E w \in Workers :
          \/ InStream(Stream!StartService(w)) \/ InStream(Stream!PollTurn(w))
          \/ InStream(Stream!PollLook(w)) \/ InStream(Stream!PollEnd(w))
          \/ InStream(Stream!OnOpen(w)) \/ InStream(Stream!Authenticate(w))
          \/ InStream(Stream!SubscribeFirst(w)) \/ InStream(Stream!OnError(w))
          \/ InStream(Stream!DialFails(w)) \/ InStream(Stream!SocketDrops(w))
          \/ InStream(Stream!OnClose(w)) \/ InStream(Stream!Redial(w))
          \/ InStream(Stream!Die(w))
    \/ \E c \in Calls :
          \/ InStream(Stream!SetSymbols(c)) \/ InStream(Stream!Subscribe(c))
          \/ InStream(Stream!Refuse(c))
    \/ \E c \in Calls, w \in Workers, s \in Symbols :
          \/ InStream(Stream!AddSymbol(c, w, s))

QuotesNext ==
    \/ InQuotes(Quotes!Stream) \/ InQuotes(Quotes!ConnectionChanges)
    \/ InQuotes(Quotes!Poll) \/ InQuotes(Quotes!Tick)
    \/ \E t \in Quotes!Tasks :
          \/ InQuotes(Quotes!Ask(t)) \/ InQuotes(Quotes!AskMany(t))
          \/ InQuotes(Quotes!Fetched(t)) \/ InQuotes(Quotes!FetchFails(t))
          \/ InQuotes(Quotes!Arrives(t))

PoolNext ==
    \/ InPool(Pool!ShowTape) \/ InPool(Pool!ShowScreen)
    \/ InPool(Pool!ScanAsks) \/ InPool(Pool!ScanGivesUp)
    \/ InPool(Pool!Forget) \/ InPool(Pool!OtherTakesLock)
    \/ InPool(Pool!OtherScreens)
    \/ \E t \in Tickers :
          \/ InPool(Pool!AskTicker(t))
    \/ \E s \in Slots :
          \/ InPool(Pool!Start(s)) \/ InPool(Pool!Fetched(s))
          \/ InPool(Pool!GiveUp(s)) \/ InPool(Pool!TakeLock(s))
          \/ InPool(Pool!FetchFails(s)) \/ InPool(Pool!Hang(s))
    \/ \E k \in Pool!Keys :
          \/ InPool(Pool!Older(k))

ReadNext ==
    \/ \E r \in Readers :
          \/ InRead(Load(r)) \/ InRead(Stat(r)) \/ InRead(Read(r))
          \/ InRead(Check(r)) \/ InRead(Keep(r))
    \/ \E w \in Writers :
          \/ InRead(Replace(w)) \/ InRead(Pop(w)) \/ InRead(Count(w))
          \/ InRead(Forget(w))

MCNext ==
    \/ FunnelNext \/ LedgerNext \/ StreamNext
    \/ QuotesNext \/ PoolNext \/ ReadNext

MCSpec == MCInit /\ [][MCNext]_allVars

-----------------------------------------------------------------------------
(* The properties of the parts, each under the fairness of its part.       *)

EveryOpportunityIsTold == Funnel!EveryOpportunityIsTold
LiveIsAccountedFor == Funnel!LiveIsAccountedFor
GradeStands == Ledger!GradeStands
AwaitingEnds == part = "ledger" /\ Ledger!Fairness => Ledger!AwaitingEnds
WatchedIsSubscribed == Stream!WatchedIsSubscribed
StreamRecovers == part = "stream" /\ Stream!Fairness => Stream!StreamRecovers
LabelsAreTrue == Quotes!LabelsAreTrue
OneRefreshPerKey == Pool!OneRefreshPerKey
PagesAreRenewed == part = "pool" /\ Pool!Fairness => Pool!PagesAreRenewed
=============================================================================
