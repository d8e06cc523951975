---------------------------- MODULE MarketStream ----------------------------
(***************************************************************************)
(* The socket for market data (src/backend/live_market_stream.py): each    *)
(* worker process has one service with a polling thread and, if it holds   *)
(* the lock file, a thread that keeps one data socket open.  Requests add  *)
(* symbols to the watch list at any moment, also while the socket is being *)
(* opened or lost.  What a worker answers with is the module QuoteCache.   *)
(***************************************************************************)
EXTENDS Naturals, FiniteSets

CONSTANTS
    Workers,    \* the worker processes
    Symbols,
    Defaults,   \* DEFAULT_SYMBOLS
    MaxSymbols, \* PLUTO_MARKET_MAX_SYMBOLS
    Calls,      \* the requests that add a symbol at a time
    NoWorker,
    MaxFaults   \* bound: deaths, lost sockets and refused frames

StreamConstants ==
    /\ Defaults \subseteq Symbols /\ IsFiniteSet(Symbols)
    /\ MaxSymbols \in Nat \ {0} /\ MaxFaults \in Nat
    /\ NoWorker \notin Workers

VARIABLES
    holder,     \* who has the lock on alpaca-market-stream.lock
    started,    \* the services that run, with their polling thread
    stream,     \* where the thread of the socket is
    connected,  \* ConnectionHealthService._connected
    fallback,   \* ConnectionHealthService._fallback_active
    watch,      \* MarketStreamService._watch_symbols
    symbols,    \* AlpacaStreamingProvider._symbols
    subscribed, \* what the other end of the socket sends
    refused,    \* an error frame is on its way
    poll,       \* where the polling thread is
    call,       \* the requests inside add_symbol
    faults

vars == <<holder, started, stream, connected, fallback, watch, symbols,
          subscribed, refused, poll, call, faults>>

\* "opened": on_open has told of the connection and not yet logged in.
Open == {"opened", "named", "ready"}
Streams == {"none", "dialling", "broken", "waiting"} \union Open
Polls == {"asleep", "look", "clear", "fetch"}
Idle == [step |-> "idle", at |-> NoWorker, list |-> {}]

Init ==
    /\ holder = NoWorker /\ started = {}
    /\ stream = [w \in Workers |-> "none"]
    /\ connected = {} /\ fallback = {} /\ refused = {}
    /\ watch = [w \in Workers |-> Defaults]
    /\ symbols = [w \in Workers |-> {}] /\ subscribed = [w \in Workers |-> {}]
    /\ poll = [w \in Workers |-> "asleep"]
    /\ call = [c \in Calls |-> Idle] /\ faults = 0

Fault == faults < MaxFaults /\ faults' = faults + 1

With(set, w, yes) == IF yes THEN set \union {w} ELSE set \ {w}

-----------------------------------------------------------------------------
(* The lock and the start of the stream.                                   *)

\* Mutant of Claim: the stream is started whoever holds the lock.
ClaimAnyway(w) ==
    /\ holder' = IF holder = NoWorker THEN w ELSE holder
    /\ symbols' = [symbols EXCEPT ![w] = watch[w]]
    /\ stream' = [stream EXCEPT ![w] = IF @ = "none" THEN "dialling" ELSE @]
    /\ UNCHANGED fallback

\* _acquire_stream_lock, and provider.start on what is watched now.
Claim(w) ==
    IF holder \in {w, NoWorker}
    THEN /\ holder' = w
         /\ symbols' = [symbols EXCEPT ![w] = watch[w]]
         /\ stream' = [stream EXCEPT ![w] = IF @ = "none" THEN "dialling" ELSE @]
         /\ UNCHANGED fallback
    ELSE /\ fallback' = fallback \union {w}
         /\ UNCHANGED <<holder, symbols, stream>>

\* get_service starts the service of the worker a request reaches.
StartService(w) ==
    /\ w \notin started /\ started' = started \union {w}
    /\ Claim(w)
    /\ UNCHANGED <<connected, watch, subscribed, refused, poll, call, faults>>

\* _maybe_claim_stream, at the top of every turn of the polling thread.
MaybeClaim(w) ==
    IF holder = w THEN UNCHANGED <<holder, symbols, stream, fallback>> ELSE Claim(w)

-----------------------------------------------------------------------------
(* The polling thread.                                                     *)

PollTurn(w) ==
    /\ w \in started /\ poll[w] = "asleep"
    /\ MaybeClaim(w)
    /\ poll' = [poll EXCEPT ![w] = "look"]
    /\ UNCHANGED <<started, connected, watch, subscribed, refused, call, faults>>

PollLook(w) ==
    /\ poll[w] = "look"
    /\ poll' = [poll EXCEPT ![w] = IF w \in connected THEN "clear" ELSE "fetch"]
    /\ UNCHANGED <<holder, started, stream, connected, fallback, watch, symbols,
                   subscribed, refused, call, faults>>

\* Mutant of PollEnd: nothing but a login ends the fallback.
PollEndFetched(w) ==
    /\ poll[w] \in {"clear", "fetch"}
    /\ fallback' = IF poll[w] = "fetch" THEN fallback \union {w} ELSE fallback
    /\ poll' = [poll EXCEPT ![w] = "asleep"]
    /\ UNCHANGED <<holder, started, stream, connected, watch, symbols, subscribed,
                   refused, call, faults>>

\* The snapshots took their time: the socket may have opened meanwhile.
PollEnd(w) ==
    /\ poll[w] \in {"clear", "fetch"}
    /\ fallback' = With(fallback, w, poll[w] = "fetch")
    /\ poll' = [poll EXCEPT ![w] = "asleep"]
    /\ UNCHANGED <<holder, started, stream, connected, watch, symbols, subscribed,
                   refused, call, faults>>

-----------------------------------------------------------------------------
(* The thread of the socket: _run with the callbacks of its client.        *)

Move(w, from, to) == stream[w] = from /\ stream' = [stream EXCEPT ![w] = to]

OnOpen(w) ==
    /\ Move(w, "dialling", "opened")
    /\ connected' = connected \union {w}
    /\ UNCHANGED <<holder, started, fallback, watch, symbols, subscribed, refused,
                   poll, call, faults>>

Authenticate(w) ==
    /\ Move(w, "opened", "named")
    /\ fallback' = fallback \ {w}
    /\ UNCHANGED <<holder, started, connected, watch, symbols, subscribed, refused,
                   poll, call, faults>>

\* Mutant of Wanted: the symbols of the configuration, whatever was asked for.
WantedDefaults(w) == Defaults

Wanted(w) == IF symbols[w] = {} THEN Defaults ELSE symbols[w]

SubscribeFirst(w) ==
    /\ Move(w, "named", "ready")
    /\ subscribed' = [subscribed EXCEPT ![w] = @ \union Wanted(w)]
    /\ UNCHANGED <<holder, started, connected, fallback, watch, symbols, refused,
                   poll, call, faults>>

\* An error frame marks the stream as disconnected; the socket stays open.
OnError(w) ==
    /\ stream[w] = "ready" /\ w \in refused
    /\ refused' = refused \ {w} /\ connected' = connected \ {w}
    /\ UNCHANGED <<holder, started, stream, fallback, watch, symbols, subscribed,
                   poll, call, faults>>

DialFails(w) ==
    /\ Move(w, "dialling", "broken") /\ Fault
    /\ UNCHANGED <<holder, started, connected, fallback, watch, symbols, subscribed,
                   refused, poll, call>>

SocketDrops(w) ==
    /\ stream[w] \in Open /\ stream' = [stream EXCEPT ![w] = "broken"]
    /\ Fault
    /\ subscribed' = [subscribed EXCEPT ![w] = {}] /\ refused' = refused \ {w}
    /\ UNCHANGED <<holder, started, connected, fallback, watch, symbols, poll, call>>

OnClose(w) ==
    /\ Move(w, "broken", "waiting")
    /\ connected' = connected \ {w}
    /\ UNCHANGED <<holder, started, fallback, watch, symbols, subscribed, refused,
                   poll, call, faults>>

Redial(w) ==
    /\ Move(w, "waiting", "dialling")
    /\ UNCHANGED <<holder, started, connected, fallback, watch, symbols, subscribed,
                   refused, poll, call, faults>>

-----------------------------------------------------------------------------
(* Requests that add a symbol.                                             *)

\* The watch list is bounded: the least recently asked-for symbol goes.
AddSymbol(c, w, s) ==
    /\ call[c] = Idle /\ w \in started
    /\ \E list \in SUBSET (watch[w] \union {s}) :
          /\ s \in list
          /\ list = watch[w] \union {s} \/ Cardinality(list) = MaxSymbols
          /\ Cardinality(list) <= MaxSymbols
          /\ watch' = [watch EXCEPT ![w] = list]
          /\ call' = [call EXCEPT ![c] = [step |-> "set", at |-> w, list |-> list]]
    /\ UNCHANGED <<holder, started, stream, connected, fallback, symbols, subscribed,
                   refused, poll, faults>>

\* set_symbols: only a provider that streams has a socket to tell.
SetSymbols(c) ==
    LET w == call[c].at IN
    /\ call[c].step = "set"
    /\ symbols' = [symbols EXCEPT ![w] = call[c].list]
    /\ call' = [call EXCEPT ![c] = IF w \in connected /\ stream[w] \notin {"none", "waiting"}
                                   THEN [@ EXCEPT !.step = "tell"] ELSE Idle]
    /\ UNCHANGED <<holder, started, stream, connected, fallback, watch, subscribed,
                   refused, poll, faults>>

\* _send_subscribe of such a request.  Before the login the other end refuses
\* it with an error frame; a broken socket raises.
Subscribe(c) ==
    LET w == call[c].at IN
    /\ call[c].step = "tell" /\ call' = [call EXCEPT ![c] = Idle]
    /\ subscribed' = IF stream[w] \in {"named", "ready"}
                     THEN [subscribed EXCEPT ![w] = @ \union Wanted(w)] ELSE subscribed
    /\ refused' = IF stream[w] = "opened" THEN refused \union {w} ELSE refused
    /\ UNCHANGED <<holder, started, stream, connected, fallback, watch, symbols,
                   poll, faults>>

\* The other end refuses the symbols, as it does beyond the limit of the plan.
Refuse(c) ==
    LET w == call[c].at IN
    /\ call[c].step = "tell" /\ call' = [call EXCEPT ![c] = Idle]
    /\ stream[w] \in {"named", "ready"} /\ Fault
    /\ refused' = refused \union {w}
    /\ UNCHANGED <<holder, started, stream, connected, fallback, watch, symbols,
                   subscribed, poll>>

-----------------------------------------------------------------------------
\* A worker process ends; the system frees its lock and closes its socket.
Die(w) ==
    /\ w \in started /\ Fault
    /\ started' = started \ {w}
    /\ holder' = IF holder = w THEN NoWorker ELSE holder
    /\ stream' = [stream EXCEPT ![w] = "none"]
    /\ connected' = connected \ {w} /\ fallback' = fallback \ {w} /\ refused' = refused \ {w}
    /\ watch' = [watch EXCEPT ![w] = Defaults]
    /\ symbols' = [symbols EXCEPT ![w] = {}] /\ subscribed' = [subscribed EXCEPT ![w] = {}]
    /\ poll' = [poll EXCEPT ![w] = "asleep"]
    /\ call' = [c \in Calls |-> IF call[c].at = w THEN Idle ELSE call[c]]

Next ==
    \/ \E w \in Workers :
          \/ StartService(w) \/ PollTurn(w) \/ PollLook(w) \/ PollEnd(w)
          \/ OnOpen(w) \/ Authenticate(w) \/ SubscribeFirst(w) \/ OnError(w)
          \/ DialFails(w) \/ SocketDrops(w) \/ OnClose(w) \/ Redial(w)
          \/ Die(w)
    \/ \E c \in Calls :
          \/ \E w \in Workers, s \in Symbols : AddSymbol(c, w, s)
          \/ SetSymbols(c) \/ Subscribe(c) \/ Refuse(c)

Spec == Init /\ [][Next]_vars

\* The threads of a process run on; nothing makes a request come.
Fairness ==
    /\ \A w \in Workers :
          /\ WF_vars(PollTurn(w)) /\ WF_vars(PollLook(w)) /\ WF_vars(PollEnd(w))
          /\ WF_vars(OnOpen(w)) /\ WF_vars(Authenticate(w)) /\ WF_vars(SubscribeFirst(w))
          /\ WF_vars(OnError(w)) /\ WF_vars(OnClose(w)) /\ WF_vars(Redial(w))
    /\ \A c \in Calls : WF_vars(SetSymbols(c)) /\ WF_vars(Subscribe(c))

FairSpec == Spec /\ Fairness

-----------------------------------------------------------------------------
(* Properties *)

\* What the health page and the events to the browsers say of a worker.
State(w) ==
    IF w \in fallback THEN "polling"
    ELSE IF w \in connected THEN "live" ELSE "reconnecting"

TypeOK ==
    /\ holder \in Workers \union {NoWorker} /\ started \subseteq Workers
    /\ stream \in [Workers -> Streams] /\ poll \in [Workers -> Polls]
    /\ connected \subseteq Workers /\ fallback \subseteq Workers /\ refused \subseteq Workers
    /\ watch \in [Workers -> SUBSET Symbols] /\ symbols \in [Workers -> SUBSET Symbols]
    /\ subscribed \in [Workers -> SUBSET Symbols] /\ faults \in 0 .. MaxFaults
    /\ \A c \in Calls : /\ call[c].step \in {"idle", "set", "tell"}
                        /\ call[c].at \in Workers \union {NoWorker}
                        /\ call[c].list \subseteq Symbols

\* The account has one data socket: whichever processes die, start and claim,
\* at most one thread has it open, and that one holds the lock file
\* (_acquire_stream_lock, _maybe_claim_stream, start).
OneSocket == \A w \in Workers : stream[w] # "none" => holder = w

\* A stream that counts as connected sends every symbol its provider was given,
\* whether the symbol came before, while or after the socket was opened and
\* found its symbols - unless a request or an error frame is still on its way
\* (set_symbols, _on_open, _on_message).
WatchedIsSubscribed ==
    \A w \in connected :
        stream[w] = "ready" /\ w \notin refused
            /\ (\A c \in Calls : call[c].at = w => call[c].step # "tell")
        => symbols[w] \subseteq subscribed[w]

\* While a process with a service runs, the socket is at last open and stays so:
\* a freed lock is claimed by a process that had been refused it; and a
\* connection that lasts is shown as live, although a poll that began before it
\* sets the fallback late (_poll_loop, _maybe_claim_stream, _run).
StreamRecovers ==
    /\ <>[](started # {}) => <>[](\E w \in Workers : stream[w] = "ready")
    /\ \A w \in Workers : <>[](w \in connected) => <>[](State(w) = "live")
=============================================================================
