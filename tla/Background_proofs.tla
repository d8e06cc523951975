------------------------- MODULE Background_proofs -------------------------
(***************************************************************************)
(* The promises of the parts around the trading core, proved for every     *)
(* scan, ledger, stream, cache and pool: the safety properties of the run  *)
(* background.  A behaviour is of one part, so each proof is of that       *)
(* part's Next alone; XSteps says so.  The monitors follow, with their     *)
(* heartbeat files and their locks, as the run monitors has them.          *)
(*                                                                         *)
(* Each part has its inductive invariant, which says what the code relies  *)
(* on between two of its steps: FunnelInv, where the dollars and the       *)
(* record of a submission are at each step of a candidate; LedgerInv, that *)
(* who may still write a decision is about a setup too young to grade;     *)
(* StreamInv, who holds the stream's lock and how far its watch list got;  *)
(* QuotesInv, how old what a task read may be; PoolInv, who owns a key in  *)
(* flight; ReadInv, which generation a reader's copy can be of.            *)
(***************************************************************************)
EXTENDS MCBackground, MCMonitors, FiniteSetTheorems, SequenceTheorems, WellFoundedInduction, TLAPS

-----------------------------------------------------------------------------
(* The scan. *)

Busy == {"option", "equity", "preview", "approval", "price", "alert", "persist",
         "send", "record"}
Ended == {"skipped", "preview", "proposed", "placed", "failed", "unknown"}
Sure == {"pending", "placed", "unknown"}
Submitted == {"placed", "unknown"}

EntryType == [as : {"none", "option", "equity"},
              status : {"none", "pending", "failed", "placed", "unknown"}]
IsOn(f, S) == f = [x \in S |-> f[x]]

FunnelShaped ==
    /\ f_candidates \subseteq Opportunities /\ f_faults \in Nat
    /\ f_result \in [Opportunities -> Ended \union {"none"}]
    /\ IsOn(f_category, Opportunities) /\ IsOn(f_research, Opportunities)
    /\ IsOn(f_store, Opportunities)
    /\ f_entry \in EntryType
    /\ f_pc \in Busy => Funnel!Open(f_candidates) # {}
    /\ f_pc \notin {"rest", "dead"} =>
          \A o \in Opportunities \ f_candidates : f_result[o] # "none"
    /\ f_pc = "preview" => f_mode = "preview"
    /\ f_pc = "record" => f_entry.status \in {"placed", "failed", "unknown"}

\* The candidate at hand has been submitted, or may have been.
AtHand(o) ==
    f_pc = "record" /\ o = Funnel!At /\ f_result[o] = "none" /\ f_entry.status \in Submitted

\* What is live has a record, and has ended or is at hand; what is live or
\* proposed has its dollars set aside, or will when its record is written.
MoneyKnown ==
    /\ f_live \union f_tickets \subseteq Opportunities
    /\ f_pc = "send" => f_store[Funnel!At] = "pending"
    /\ \A o \in f_live :
          /\ f_store[o] \in Sure
          /\ f_result[o] \in Submitted \/ f_pc = "dead" \/ AtHand(o)
    /\ f_pc # "dead" => \A o \in f_live \union f_tickets : o \in f_reserved \/ AtHand(o)

\* Without a fault whatever has ended has been told of, and what a scan leaves
\* open at its end stands behind an outcome that nobody knows.
EndsTold ==
    /\ \A o \in Opportunities : f_result[o] = "none" => f_research[o] = "none"
    /\ f_faults = 0 => \A o \in Opportunities : f_result[o] # "none" => Funnel!Told(o)
    /\ f_pc = "done" =>
          \A o \in f_candidates : f_result[o] = "none" =>
              \E p \in f_candidates : p < o /\ f_result[p] = "unknown"

FunnelInv == FunnelShaped /\ MoneyKnown /\ EndsTold

LEMMA Least ==
    ASSUME NEW S, S \subseteq Nat, S # {}
    PROVE  /\ Funnel!Min(S) \in S /\ \A y \in S : Funnel!Min(S) <= y
           /\ Ledger!Min(S) = Funnel!Min(S)
<1>1. PICK x \in S : \A y \in S : ~ (<<y, x>> \in OpToRel(<, Nat))
  BY NatLessThanWellFounded, WFMin
<1>2. ASSUME NEW y \in S PROVE x <= y
  <2>1. x \in Nat /\ y \in Nat /\ <<y, x>> \in Nat \X Nat
    OBVIOUS
  <2>2. y < x => <<y, x>> \in {ss \in Nat \X Nat : ss[1] < ss[2]}
    BY <2>1
  <2>3. ~(y < x)
    BY <1>1, <2>2 DEF OpToRel
  <2> QED BY <2>1, <2>3
<1>3. Funnel!Min(S) = CHOOSE z \in S : \A y \in S : z <= y
  BY DEF Funnel!Min
<1>4. Ledger!Min(S) = CHOOSE z \in S : \A y \in S : z <= y
  BY DEF Ledger!Min
<1> QED BY <1>2, <1>3, <1>4

\* The candidate at hand is the first that has not ended.
LEMMA AtIsFirst ==
    ASSUME FunnelInv, Funnel!Open(f_candidates) # {}
    PROVE  /\ Funnel!At \in f_candidates /\ Funnel!At \in Opportunities /\ Funnel!At \in Nat
           /\ f_result[Funnel!At] = "none"
           /\ \A p \in f_candidates : f_result[p] = "none" => Funnel!At <= p
<1>1. Opportunities \subseteq Nat /\ f_candidates \subseteq Opportunities
  BY BackgroundAssumption DEF Funnel!FunnelConstants, FunnelInv, FunnelShaped
<1>2. Funnel!Open(f_candidates) = {o \in f_candidates : f_result[o] = "none"}
  BY DEF Funnel!Open
<1>3. Funnel!Open(f_candidates) \subseteq Nat
  BY <1>1, <1>2
<1>4. /\ Funnel!At \in Funnel!Open(f_candidates)
      /\ \A y \in Funnel!Open(f_candidates) : Funnel!At <= y
  BY <1>3, Least DEF Funnel!At
<1> QED BY <1>1, <1>2, <1>4

\* Steps that end nothing.
LEMMA MoveKeeps ==
    ASSUME FunnelInv, f_pc # "dead",
           UNCHANGED <<f_mode, f_candidates, f_result, f_category, f_research, f_store,
                       f_live, f_tickets, f_reserved>>,
           f_faults' \in Nat, f_faults' = 0 => f_faults = 0, f_entry' \in EntryType,
           f_pc' \in (Busy \ {"send"}) \union {"gate", "done", "dead"},
           f_pc = "record" => f_pc' = "dead",
           f_pc = "rest" => f_pc' = "dead" \/ Funnel!Open(Opportunities \ f_candidates) = {},
           f_pc' \in Busy => Funnel!Open(f_candidates) # {},
           f_pc' = "done" => Funnel!Open(f_candidates) = {},
           f_pc' = "preview" => f_mode = "preview",
           f_pc' = "record" => f_entry'.status \in {"placed", "failed", "unknown"}
    PROVE  FunnelInv'
<1>1. FunnelShaped'
  <2>1. f_pc' \notin {"rest", "dead"} => \A o \in Opportunities \ f_candidates : f_result[o] # "none"
    BY DEF FunnelInv, FunnelShaped, Funnel!Open, Busy
  <2>2. f_pc' \in Busy => Funnel!Open(f_candidates)' # {}
    BY DEF Funnel!Open
  <2> QED BY <2>1, <2>2 DEF FunnelInv, FunnelShaped, IsOn
<1>2. MoneyKnown'
  <2>1. f_pc' # "dead" => \A o : ~AtHand(o)
    BY DEF AtHand
  <2> QED BY <2>1 DEF FunnelInv, MoneyKnown, Busy
<1>3. EndsTold'
  <2>1. \A o \in Opportunities : f_faults = 0 /\ Funnel!Told(o) => Funnel!Told(o)'
    BY DEF Funnel!Told
  <2>2. f_pc' = "done" => \A o \in f_candidates : f_result[o] # "none"
    BY DEF Funnel!Open
  <2> QED BY <2>1, <2>2 DEF FunnelInv, EndsTold
<1> QED BY <1>1, <1>2, <1>3 DEF FunnelInv

\* A step that ends the candidate at hand.
LEMMA EndKeepsAll ==
    ASSUME FunnelInv, f_pc \in Busy \union {"gate"}, Funnel!Open(f_candidates) # {},
           NEW at \in Opportunities, at = Funnel!At,
           NEW as \in Ended, NEW why, NEW decision, NEW status,
           UNCHANGED <<f_mode, f_candidates, f_live>>,
           Funnel!Ends(at, as, why),
           f_research' \in {f_research, [f_research EXCEPT ![at] = decision]},
           f_store' \in {f_store, [f_store EXCEPT ![at] = status]},
           f_faults' \in Nat, f_faults' = 0 => f_faults = 0 /\ Funnel!Told(at)',
           at \in f_live => as \in Submitted /\ status \in Sure,
           f_reserved \subseteq f_reserved', f_tickets \subseteq f_tickets',
           f_tickets' \subseteq f_tickets \union {at},
           at \in f_live \union f_tickets' => at \in f_reserved',
           f_pc' \in {"gate", "done"}, f_pc' = "done" => as = "unknown",
           f_entry' \in EntryType
    PROVE  FunnelInv'
<1>0. /\ at \in f_candidates /\ at \in Opportunities /\ at \in Nat /\ f_result[at] = "none"
      /\ \A p \in f_candidates : f_result[p] = "none" => at <= p
      /\ f_candidates \subseteq Opportunities /\ Opportunities \subseteq Nat
  BY AtIsFirst, BackgroundAssumption DEF FunnelInv, FunnelShaped, Funnel!FunnelConstants
<1>1. /\ f_result' = [f_result EXCEPT ![at] = as]
      /\ f_category' = [f_category EXCEPT ![at] = why]
      /\ f_research' \in {f_research, [f_research EXCEPT ![at] = decision]}
      /\ f_store' \in {f_store, [f_store EXCEPT ![at] = status]}
  BY DEF Funnel!Ends
<1>2. /\ f_result' \in [Opportunities -> Ended \union {"none"}]
      /\ f_result'[at] = as /\ as # "none"
      /\ \A o \in Opportunities \ {at} :
            /\ f_result'[o] = f_result[o] /\ f_category'[o] = f_category[o]
            /\ f_research'[o] = f_research[o] /\ f_store'[o] = f_store[o]
  BY <1>0, <1>1 DEF FunnelInv, FunnelShaped, IsOn, Ended
<1>3. FunnelShaped'
  <2>1. IsOn(f_category, Opportunities)' /\ IsOn(f_research, Opportunities)'
        /\ IsOn(f_store, Opportunities)'
    BY <1>0, <1>1 DEF FunnelInv, FunnelShaped, IsOn
  <2>2. \A o \in Opportunities \ f_candidates : f_result'[o] # "none"
    BY <1>0, <1>2 DEF FunnelInv, FunnelShaped, Busy
  <2> QED BY <1>2, <2>1, <2>2 DEF FunnelInv, FunnelShaped, Busy
<1>4. MoneyKnown'
  <2>1. \A o : AtHand(o) => o = at
    BY DEF AtHand
  <2>2. at \in f_live => f_result'[at] \in Submitted /\ f_store'[at] \in Sure
    <3> SUFFICES ASSUME at \in f_live PROVE f_result'[at] \in Submitted /\ f_store'[at] \in Sure
      OBVIOUS
    <3>1. as \in Submitted /\ status \in Sure /\ f_store[at] \in Sure
      BY DEF FunnelInv, MoneyKnown
    <3> QED BY <1>0, <1>1, <1>2, <3>1 DEF FunnelInv, FunnelShaped, IsOn
  <2>3. ASSUME NEW o \in f_live PROVE f_result'[o] \in Submitted /\ f_store'[o] \in Sure
    BY <1>2, <2>1, <2>2, <2>3 DEF FunnelInv, MoneyKnown, Busy
  <2>4. ASSUME NEW o \in f_live \union f_tickets' PROVE o \in f_reserved'
    <3>1. CASE o = at
      BY <2>4, <3>1
    <3>2. CASE o # at
      BY <2>1, <2>4, <3>2 DEF FunnelInv, MoneyKnown, Busy
    <3> QED BY <3>1, <3>2
  <2>5. (f_live \union f_tickets)' \subseteq Opportunities
    BY <1>0 DEF FunnelInv, MoneyKnown
  <2> QED BY <2>3, <2>4, <2>5 DEF MoneyKnown
<1>5. EndsTold'
  <2>1. \A o \in Opportunities : f_result'[o] = "none" => f_research'[o] = "none"
    BY <1>2 DEF FunnelInv, EndsTold
  <2>2. ASSUME f_faults' = 0, NEW o \in Opportunities, f_result'[o] # "none"
        PROVE  Funnel!Told(o)'
    <3>1. CASE o = at
      BY <2>2, <3>1
    <3>2. CASE o # at
      <4>1. Funnel!Told(o)
        BY <1>2, <2>2, <3>2 DEF FunnelInv, EndsTold
      <4> QED BY <1>2, <3>2, <4>1 DEF Funnel!Told
    <3> QED BY <3>1, <3>2
  <2>3. ASSUME f_pc' = "done", NEW o \in f_candidates, f_result'[o] = "none"
        PROVE  at < o /\ f_result'[at] = "unknown"
    <3>1. o # at /\ f_result[o] = "none" /\ o \in Nat
      BY <1>0, <1>2, <2>3
    <3> QED BY <1>0, <1>2, <2>3, <3>1
  <2> QED BY <1>0, <2>1, <2>2, <2>3 DEF EndsTold
<1> QED BY <1>3, <1>4, <1>5 DEF FunnelInv

\* What a log entry and a skip leave behind.
LEMMA LogTells ==
    ASSUME FunnelInv, NEW o \in Opportunities, f_result[o] = "none", NEW decision,
           Funnel!Log(o, decision)
    PROVE  /\ f_research' \in {f_research, [f_research EXCEPT ![o] = decision]}
           /\ f_faults' \in Nat /\ (f_faults' = 0 => f_faults = 0)
           /\ f_faults' = 0 => f_mode = "preview" \/ f_research'[o] = decision
<1>1. f_research[o] = "none" /\ IsOn(f_research, Opportunities) /\ f_faults \in Nat
  BY DEF FunnelInv, EndsTold, FunnelShaped
<1>2. CASE /\ f_research' = IF f_mode = "preview" THEN f_research
                            ELSE [f_research EXCEPT ![o] = IF @ = "none" THEN decision ELSE "twice"]
           /\ UNCHANGED f_faults
  BY <1>1, <1>2 DEF IsOn
<1>3. CASE UNCHANGED f_research /\ Funnel!Fault
  BY <1>1, <1>3 DEF Funnel!Fault
<1> QED BY <1>2, <1>3 DEF Funnel!Log

LEMMA SkipTells ==
    ASSUME FunnelInv, NEW o \in Opportunities, f_result[o] = "none", NEW why,
           why # "live_ramp", Funnel!Skip(o, why), UNCHANGED f_mode
    PROVE  /\ Funnel!Ends(o, "skipped", why)
           /\ f_research' \in {f_research, [f_research EXCEPT ![o] = "skipped"]}
           /\ f_faults' \in Nat /\ (f_faults' = 0 => f_faults = 0 /\ Funnel!Told(o)')
<1>1. Funnel!Ends(o, "skipped", why) /\ Funnel!Log(o, "skipped")
  BY DEF Funnel!Skip
<1>2. f_result'[o] = "skipped" /\ f_category'[o] = why
  BY <1>1 DEF Funnel!Ends, FunnelInv, FunnelShaped, IsOn
<1>3. /\ f_research' \in {f_research, [f_research EXCEPT ![o] = "skipped"]}
      /\ f_faults' \in Nat /\ (f_faults' = 0 => f_faults = 0)
      /\ f_faults' = 0 => f_mode = "preview" \/ f_research'[o] = "skipped"
  BY <1>1, LogTells
<1>4. f_faults' = 0 => Funnel!Told(o)'
  BY <1>2, <1>3 DEF Funnel!Told
<1> QED BY <1>1, <1>3, <1>4

\* A skip of the candidate at hand, whatever is kept of it.
LEMMA SkipKeeps ==
    ASSUME FunnelInv, f_pc \in (Busy \ {"record"}) \union {"gate"},
           Funnel!Open(f_candidates) # {},
           NEW why, why # "live_ramp", Funnel!Skip(Funnel!At, why), Funnel!Onwards,
           f_store' \in {f_store, [f_store EXCEPT ![Funnel!At] = "skipped"]},
           UNCHANGED <<f_mode, f_candidates, f_live, f_tickets, f_reserved>>
    PROVE  FunnelInv'
<1>1. PICK at \in Opportunities : at = Funnel!At /\ f_result[at] = "none"
  BY AtIsFirst
<1>2. at \notin f_live
  BY <1>1 DEF FunnelInv, MoneyKnown, AtHand, Submitted, Busy
<1>3. at \in f_tickets => at \in f_reserved
  BY DEF FunnelInv, MoneyKnown, AtHand, Busy
<1>4. f_entry' \in EntryType /\ f_pc' = "gate"
  BY DEF Funnel!Onwards, Funnel!NoEntry, EntryType
<1>5. /\ Funnel!Ends(at, "skipped", why)
      /\ f_research' \in {f_research, [f_research EXCEPT ![at] = "skipped"]}
      /\ f_faults' \in Nat /\ (f_faults' = 0 => f_faults = 0 /\ Funnel!Told(at)')
  BY <1>1, SkipTells
<1>6. "skipped" \in Ended
  BY DEF Ended
<1> QED BY <1>1, <1>2, <1>3, <1>4, <1>5, <1>6, EndKeepsAll

\* What is no candidate is skipped before the first candidate is tried.
LEMMA SkipRestKeeps == ASSUME FunnelInv, Funnel!SkipRest PROVE FunnelInv'
<1> DEFINE R == Funnel!Open(Opportunities \ f_candidates)
<1>1. PICK o \in Opportunities : o = Funnel!Min(R) /\ o \notin f_candidates /\ f_result[o] = "none"
  <2>1. R \subseteq Nat /\ R # {}
    BY BackgroundAssumption DEF Funnel!FunnelConstants, Funnel!SkipRest, Funnel!Open
  <2>2. Funnel!Min(R) \in R
    BY <2>1, Least
  <2> QED BY <2>2 DEF Funnel!Open
<1>2. PICK why \in Funnel!WhyNot(o) : Funnel!Skip(o, why)
  BY <1>1 DEF Funnel!SkipRest
<1>3. why # "live_ramp"
  BY <1>2 DEF Funnel!WhyNot, Funnel!Bars
<1>4. /\ f_pc = "rest"
      /\ UNCHANGED <<f_mode, f_candidates, f_pc, f_entry, f_store, f_tickets, f_live, f_reserved>>
  BY DEF Funnel!SkipRest, Funnel!scan, Funnel!broker
<1> HIDE DEF R
<1>5. /\ Funnel!Ends(o, "skipped", why)
      /\ f_research' \in {f_research, [f_research EXCEPT ![o] = "skipped"]}
      /\ f_faults' \in Nat /\ (f_faults' = 0 => f_faults = 0 /\ Funnel!Told(o)')
  BY <1>1, <1>2, <1>3, <1>4, SkipTells
<1>6. /\ f_result' = [f_result EXCEPT ![o] = "skipped"]
      /\ f_category' = [f_category EXCEPT ![o] = why]
  BY <1>5 DEF Funnel!Ends
<1>7. FunnelShaped'
  BY <1>1, <1>4, <1>5, <1>6 DEF FunnelInv, FunnelShaped, IsOn, Busy, Ended, Funnel!Open
<1>8. MoneyKnown'
  <2>1. \A x \in f_live : f_result[x] \in Submitted /\ x # o
    BY <1>1, <1>4 DEF FunnelInv, MoneyKnown, AtHand, Submitted
  <2>2. \A x \in f_live : f_result'[x] \in Submitted
    BY <1>1, <1>6, <2>1 DEF FunnelInv, FunnelShaped, MoneyKnown
  <2> QED BY <1>4, <2>2 DEF FunnelInv, MoneyKnown, AtHand
<1>9. EndsTold'
  <2>1. \A x \in Opportunities \ {o} : /\ f_result'[x] = f_result[x] /\ f_category'[x] = f_category[x]
                                       /\ f_research'[x] = f_research[x]
    BY <1>1, <1>5, <1>6 DEF FunnelInv, FunnelShaped, IsOn
  <2>2. f_result'[o] # "none"
    BY <1>1, <1>6 DEF FunnelInv, FunnelShaped
  <2>3. \A x \in Opportunities \ {o} : Funnel!Told(x) => Funnel!Told(x)'
    BY <1>4, <2>1 DEF Funnel!Told
  <2>4. \A x \in Opportunities : f_result'[x] = "none" => f_research'[x] = "none"
    BY <2>1, <2>2 DEF FunnelInv, EndsTold
  <2>5. f_faults' = 0 => \A x \in Opportunities : f_result'[x] # "none" => Funnel!Told(x)'
    BY <1>5, <2>1, <2>3 DEF FunnelInv, EndsTold
  <2> QED BY <1>4, <2>4, <2>5 DEF EndsTold
<1> QED BY <1>7, <1>8, <1>9 DEF FunnelInv

\* An order that may have gone out, and the record that comes before it.
LEMMA PersistKeeps == ASSUME FunnelInv, Funnel!Persist PROVE FunnelInv'
<1>1. PICK at \in Opportunities : /\ at = Funnel!At /\ f_result[at] = "none"
                                  /\ f_pc = "persist" /\ Funnel!Open(f_candidates) # {}
  BY AtIsFirst DEF Funnel!Persist, FunnelInv, FunnelShaped, Busy
<1>2. UNCHANGED <<f_mode, f_candidates, f_result, f_category, f_research, f_live, f_tickets,
                  f_reserved>>
  BY DEF Funnel!Persist, Funnel!scan, Funnel!broker
<1>3. CASE /\ Funnel!Fault /\ f_pc' = "record" /\ f_entry' = [f_entry EXCEPT !.status = "failed"]
           /\ UNCHANGED f_store
  BY <1>1, <1>2, <1>3, MoveKeeps DEF FunnelInv, FunnelShaped, EntryType, Busy, Funnel!Fault
<1>4. CASE /\ f_store' = [f_store EXCEPT ![at] = "pending"] /\ f_pc' = "send"
           /\ UNCHANGED <<f_entry, f_faults>>
  <2>1. at \notin f_live /\ f_store'[at] = "pending"
    BY <1>1, <1>4 DEF FunnelInv, FunnelShaped, IsOn, MoneyKnown, AtHand, Submitted
  <2>2. Funnel!At' = at /\ Funnel!Open(f_candidates)' # {}
    BY <1>1, <1>2 DEF Funnel!At, Funnel!Open
  <2>3. FunnelShaped'
    BY <1>1, <1>2, <1>4, <2>2 DEF FunnelInv, FunnelShaped, IsOn, Busy
  <2>4. MoneyKnown'
    BY <1>1, <1>2, <1>4, <2>1, <2>2 DEF FunnelInv, FunnelShaped, IsOn, MoneyKnown, AtHand
  <2>5. EndsTold'
    BY <1>1, <1>2, <1>4 DEF FunnelInv, EndsTold, Funnel!Told
  <2> QED BY <2>3, <2>4, <2>5 DEF FunnelInv
<1> QED BY <1>1, <1>3, <1>4 DEF Funnel!Persist

LEMMA SendKeeps == ASSUME FunnelInv, Funnel!Send PROVE FunnelInv'
<1>1. PICK at \in Opportunities : /\ at = Funnel!At /\ f_result[at] = "none"
                                  /\ f_pc = "send" /\ Funnel!Open(f_candidates) # {}
  BY AtIsFirst DEF Funnel!Send, FunnelInv, FunnelShaped, Busy
<1>2. /\ f_pc' = "record"
      /\ UNCHANGED <<f_mode, f_candidates, f_result, f_category, f_research, f_store, f_tickets,
                     f_reserved, f_faults>>
  BY DEF Funnel!Send, Funnel!scan, Funnel!files
<1>3. PICK sent \in BOOLEAN, status \in {"placed", "failed", "unknown"} :
        /\ f_live' = IF sent /\ status # "failed" THEN f_live \union {at} ELSE f_live
        /\ f_entry' = [f_entry EXCEPT !.status = status]
  BY <1>1 DEF Funnel!Send
<1>4. f_entry' \in EntryType /\ f_entry'.status = status
  BY <1>3 DEF FunnelInv, FunnelShaped, EntryType
<1>5. Funnel!At' = at /\ Funnel!Open(f_candidates)' # {}
  BY <1>1, <1>2 DEF Funnel!At, Funnel!Open
<1>6. FunnelShaped'
  BY <1>1, <1>2, <1>4, <1>5 DEF FunnelInv, FunnelShaped, IsOn, Busy
<1>7. /\ f_live \subseteq f_live' /\ f_live' \subseteq f_live \union {at}
      /\ at \in f_live' => at \in f_live \/ status \in Submitted
  BY <1>3 DEF Submitted
<1>8. AtHand(at)' <=> status \in Submitted
  BY <1>1, <1>2, <1>4, <1>5 DEF AtHand
<1>9. MoneyKnown'
  <2>1. at \notin f_live /\ f_store[at] \in Sure
    BY <1>1 DEF FunnelInv, MoneyKnown, AtHand, Submitted, Sure
  <2>2. ASSUME NEW o \in f_live'
        PROVE  f_store'[o] \in Sure /\ (f_result'[o] \in Submitted \/ AtHand(o)')
    <3>1. CASE o = at
      BY <1>2, <1>7, <1>8, <2>1, <2>2, <3>1
    <3>2. CASE o # at
      BY <1>1, <1>2, <1>7, <2>2, <3>2 DEF FunnelInv, MoneyKnown, AtHand
    <3> QED BY <3>1, <3>2
  <2>3. ASSUME NEW o \in (f_live \union f_tickets)' PROVE o \in f_reserved' \/ AtHand(o)'
    <3>1. CASE o \in f_live \union f_tickets
      BY <1>1, <1>2, <3>1 DEF FunnelInv, MoneyKnown, AtHand
    <3>2. CASE o \notin f_live \union f_tickets
      BY <1>2, <1>7, <1>8, <2>3, <3>2
    <3> QED BY <3>1, <3>2
  <2> QED BY <1>2, <1>7, <2>2, <2>3 DEF FunnelInv, MoneyKnown
<1>10. EndsTold'
  BY <1>1, <1>2 DEF FunnelInv, EndsTold, Funnel!Told
<1> QED BY <1>6, <1>9, <1>10 DEF FunnelInv

LEMMA RecordKeeps == ASSUME FunnelInv, Funnel!Record PROVE FunnelInv'
<1>1. PICK at \in Opportunities : /\ at = Funnel!At /\ f_result[at] = "none"
                                  /\ f_pc = "record" /\ Funnel!Open(f_candidates) # {}
  BY AtIsFirst DEF Funnel!Record, FunnelInv, FunnelShaped, Busy
<1> DEFINE status == f_entry.status
           why == Funnel!WhyOf(f_entry.status)
           decision == IF f_entry.status = "placed" THEN "placed" ELSE "skipped"
<1>2. /\ Funnel!Ends(at, status, why) /\ Funnel!Log(at, decision)
      /\ f_reserved' = IF Funnel!Spends(f_entry) THEN f_reserved \union {at} ELSE f_reserved
      /\ f_store' = [f_store EXCEPT ![at] = status]
      /\ f_pc' = IF status = "unknown" THEN "done" ELSE "gate"
      /\ f_entry' = Funnel!NoEntry
      /\ UNCHANGED <<f_mode, f_candidates, f_tickets, f_live>>
  BY <1>1 DEF Funnel!Record, Funnel!scan, Funnel!broker
<1>3. status \in {"placed", "failed", "unknown"}
  BY <1>1 DEF FunnelInv, FunnelShaped
<1>4. why # "live_ramp"
  BY <1>3 DEF Funnel!WhyOf
<1>5. Funnel!Spends(f_entry) <=> status \in Submitted
  BY DEF Funnel!Spends, Submitted
<1> HIDE DEF status, why
<1>6. f_result'[at] = status /\ f_category'[at] = why
  BY <1>2 DEF Funnel!Ends, FunnelInv, FunnelShaped, IsOn
<1>7. /\ f_research' \in {f_research, [f_research EXCEPT ![at] = decision]}
      /\ f_faults' \in Nat /\ (f_faults' = 0 => f_faults = 0)
      /\ f_faults' = 0 => f_mode = "preview" \/ f_research'[at] = decision
  BY <1>1, <1>2, LogTells
<1>8. f_faults' = 0 => Funnel!Told(at)'
  BY <1>2, <1>3, <1>4, <1>6, <1>7 DEF Funnel!Told, status
<1>9. at \in f_live \union f_tickets => at \in f_reserved \/ status \in Submitted
  BY <1>1 DEF FunnelInv, MoneyKnown, AtHand, status
<1>10. at \in f_live => status \in Submitted
  BY <1>1 DEF FunnelInv, MoneyKnown, AtHand, status, Submitted
<1>11. status \in Submitted => status \in Sure
  BY DEF Submitted, Sure
<1>12. f_entry' \in EntryType /\ status \in Ended
  BY <1>2, <1>3 DEF Funnel!NoEntry, EntryType, Ended
<1>13. f_reserved \subseteq f_reserved' /\ (at \in f_live \union f_tickets => at \in f_reserved')
  BY <1>2, <1>5, <1>9
<1>14. f_pc' \in {"gate", "done"} /\ (f_pc' = "done" => status = "unknown")
  BY <1>2
<1>15. f_pc \in Busy \union {"gate"}
  BY <1>1 DEF Busy
<1> HIDE DEF decision
<1> QED BY <1>1, <1>2, <1>7, <1>8, <1>10, <1>11, <1>12, <1>13, <1>14, <1>15, EndKeepsAll

\* The ways a candidate ends without an order.
LEMMA OutcomeKeeps ==
    ASSUME FunnelInv,
           Funnel!Refuse \/ Funnel!RampLeavesNone \/ Funnel!TooSmall \/ Funnel!Veto
           \/ Funnel!Preview \/ Funnel!Propose \/ Funnel!PriceRefused \/ Funnel!Alert
    PROVE  FunnelInv'
<1>0. /\ Funnel!Open(f_candidates) # {} /\ f_pc \in (Busy \ {"record"}) \union {"gate"}
      /\ UNCHANGED <<f_mode, f_candidates, f_live>>
  BY DEF Funnel!Refuse, Funnel!RampLeavesNone, Funnel!TooSmall, Funnel!Veto, Funnel!Preview,
         Funnel!Propose, Funnel!PriceRefused, Funnel!Alert, FunnelInv, FunnelShaped, Busy,
         Funnel!scan, Funnel!broker
<1>1. PICK at \in Opportunities : at = Funnel!At /\ f_result[at] = "none"
  BY <1>0, AtIsFirst
<1>2. at \notin f_live /\ (at \in f_tickets => at \in f_reserved)
  BY <1>0, <1>1 DEF FunnelInv, MoneyKnown, AtHand, Submitted, Busy
<1>3. Funnel!Onwards => f_pc' = "gate" /\ f_entry' \in EntryType
  BY DEF Funnel!Onwards, Funnel!NoEntry, EntryType
<1>4. Funnel!Kept(at) => f_store' \in {f_store, [f_store EXCEPT ![at] = "skipped"]}
  BY DEF Funnel!Kept
<1>5. CASE Funnel!Refuse
  <2>1. PICK why \in Funnel!Gates : Funnel!Skip(Funnel!At, why)
    BY <1>5 DEF Funnel!Refuse
  <2>2. why # "live_ramp"
    BY DEF Funnel!Gates
  <2> QED BY <1>0, <1>5, <2>1, <2>2, SkipKeeps DEF Funnel!Refuse
<1>6. CASE Funnel!TooSmall
  BY <1>0, <1>6, SkipKeeps DEF Funnel!TooSmall
<1>7. CASE Funnel!Veto
  BY <1>0, <1>1, <1>4, <1>7, SkipKeeps DEF Funnel!Veto
<1>8. CASE Funnel!PriceRefused
  BY <1>0, <1>1, <1>4, <1>8, SkipKeeps DEF Funnel!PriceRefused
<1>9. CASE Funnel!Alert
  BY <1>0, <1>1, <1>4, <1>9, SkipKeeps DEF Funnel!Alert
<1>10. CASE Funnel!RampLeavesNone
  <2>1. /\ Funnel!Ends(at, "skipped", "live_ramp") /\ Funnel!Onwards
        /\ UNCHANGED <<f_research, f_store, f_tickets, f_reserved, f_faults>>
    BY <1>1, <1>10 DEF Funnel!RampLeavesNone, Funnel!files
  <2>2. f_result'[at] = "skipped" /\ f_category'[at] = "live_ramp" /\ f_research'[at] = "none"
    BY <1>1, <2>1 DEF Funnel!Ends, FunnelInv, FunnelShaped, IsOn, EndsTold
  <2>3. Funnel!Told(at)'
    BY <2>2 DEF Funnel!Told
  <2>4. f_faults' \in Nat /\ (f_faults' = 0 => f_faults = 0)
    BY <2>1 DEF FunnelInv, FunnelShaped
  <2>5. "skipped" \in Ended
    BY DEF Ended
  <2> QED BY <1>0, <1>1, <1>2, <1>3, <2>1, <2>3, <2>4, <2>5, EndKeepsAll
<1>11. CASE Funnel!Preview
  <2>1. /\ Funnel!Ends(at, "preview", "none") /\ Funnel!Onwards
        /\ f_reserved' = f_reserved \union {at}
        /\ UNCHANGED <<f_research, f_store, f_tickets, f_faults>>
    BY <1>1, <1>11 DEF Funnel!Preview, Funnel!files
  <2>2. f_result'[at] = "preview" /\ f_mode = "preview"
    BY <1>1, <1>11, <2>1 DEF Funnel!Ends, FunnelInv, FunnelShaped, Funnel!Preview
  <2>3. Funnel!Told(at)'
    BY <1>0, <2>2 DEF Funnel!Told
  <2>4. f_faults' \in Nat /\ (f_faults' = 0 => f_faults = 0)
    BY <2>1 DEF FunnelInv, FunnelShaped
  <2>5. "preview" \in Ended
    BY DEF Ended
  <2> QED BY <1>0, <1>1, <1>2, <1>3, <2>1, <2>3, <2>4, <2>5, EndKeepsAll
<1>12. CASE Funnel!Propose
  <2>1. /\ Funnel!Ends(at, "proposed", "awaiting_approval") /\ Funnel!Onwards
        /\ Funnel!Log(at, "proposed")
        /\ f_tickets' = f_tickets \union {at} /\ f_reserved' = f_reserved \union {at}
        /\ UNCHANGED f_store
    BY <1>1, <1>12 DEF Funnel!Propose
  <2>2. f_result'[at] = "proposed" /\ f_category'[at] = "awaiting_approval"
    BY <1>1, <2>1 DEF Funnel!Ends, FunnelInv, FunnelShaped, IsOn
  <2>3. /\ f_research' \in {f_research, [f_research EXCEPT ![at] = "proposed"]}
        /\ f_faults' \in Nat /\ (f_faults' = 0 => f_faults = 0)
        /\ f_faults' = 0 => f_mode = "preview" \/ f_research'[at] = "proposed"
    BY <1>1, <2>1, LogTells
  <2>4. f_faults' = 0 => Funnel!Told(at)'
    <3>1. CASE f_mode' = "preview"
      BY <2>2, <3>1 DEF Funnel!Told
    <3>2. CASE f_research'[at] = "proposed"
      BY <2>2, <3>2 DEF Funnel!Told
    <3> QED BY <1>0, <2>3, <3>1, <3>2
  <2>5. "proposed" \in Ended
    BY DEF Ended
  <2> QED BY <1>0, <1>1, <1>2, <1>3, <2>1, <2>3, <2>4, <2>5, EndKeepsAll
<1> QED BY <1>5, <1>6, <1>7, <1>8, <1>9, <1>10, <1>11, <1>12

\* The steps of the scan that end nothing.
LEMMA OnTheWayKeeps ==
    ASSUME FunnelInv,
           Funnel!StartCandidates \/ Funnel!Pass \/ Funnel!Finish \/ Funnel!NoContract
           \/ Funnel!TakeOption \/ Funnel!ProposalFails \/ Funnel!TakeShares
           \/ Funnel!PriceStands \/ Funnel!AlertFails \/ Funnel!RecordFails \/ Funnel!Die
    PROVE  FunnelInv'
<1>0. /\ f_faults \in Nat /\ f_entry \in EntryType
      /\ f_pc \in Busy => Funnel!Open(f_candidates) # {}
      /\ Funnel!Fault => f_faults' \in Nat /\ f_faults' # 0
      /\ Funnel!NoEntry \in EntryType
  BY DEF FunnelInv, FunnelShaped, Funnel!Fault, Funnel!NoEntry, EntryType
<1> USE DEF Busy, Funnel!scan, Funnel!files, Funnel!broker, EntryType
<1>1. CASE Funnel!StartCandidates
  BY <1>0, <1>1, MoveKeeps DEF Funnel!StartCandidates, Funnel!Onwards
<1>2. CASE Funnel!Pass \/ Funnel!Finish
  BY <1>0, <1>2, MoveKeeps DEF Funnel!Pass, Funnel!Finish
<1>3. CASE Funnel!NoContract \/ Funnel!PriceStands
  BY <1>0, <1>3, MoveKeeps DEF Funnel!NoContract, Funnel!PriceStands
<1>4. CASE Funnel!TakeOption
  BY <1>0, <1>4, MoveKeeps DEF Funnel!TakeOption
<1>5. CASE Funnel!TakeShares
  BY <1>0, <1>5, MoveKeeps DEF Funnel!TakeShares
<1>6. CASE Funnel!ProposalFails
  BY <1>0, <1>6, MoveKeeps DEF Funnel!ProposalFails
<1>7. CASE Funnel!AlertFails
  BY <1>0, <1>7, MoveKeeps DEF Funnel!AlertFails
<1>8. CASE Funnel!RecordFails
  BY <1>0, <1>8, MoveKeeps DEF Funnel!RecordFails
<1>9. CASE Funnel!Die
  BY <1>0, <1>9, MoveKeeps DEF Funnel!Die
<1> QED BY <1>1, <1>2, <1>3, <1>4, <1>5, <1>6, <1>7, <1>8, <1>9

\* A step of a behaviour is a step of the scan or leaves it alone.
LEMMA FunnelSteps == [MCNext]_allVars => [Funnel!Next]_funnelVars
<1> SUFFICES ASSUME MCNext PROVE [Funnel!Next]_funnelVars
  BY DEF allVars, funnelVars
<1>1. CASE FunnelNext
  BY <1>1 DEF FunnelNext, InFunnel, Funnel!Next
<1>2. CASE StreamNext
  BY <1>2 DEF StreamNext, InStream
<1>3. CASE QuotesNext
  BY <1>3 DEF QuotesNext, InQuotes
<1>4. CASE PoolNext
  BY <1>4 DEF PoolNext, InPool
<1>5. CASE LedgerNext
  BY <1>5 DEF LedgerNext, InLedger
<1>6. CASE ReadNext
  BY <1>6 DEF ReadNext, InRead
<1> QED BY <1>1, <1>2, <1>3, <1>4, <1>5, <1>6 DEF MCNext

LEMMA FunnelInit == MCInit => FunnelInv
<1> SUFFICES ASSUME Funnel!Init PROVE FunnelInv
  BY DEF MCInit
<1>1. f_candidates \subseteq Opportunities
  <2>1. PICK slots \in 0 .. Funnel!Cardinality(Opportunities) :
          f_candidates = IF f_allowed THEN Funnel!Chosen(f_qualifying, slots) ELSE {}
    BY DEF Funnel!Init
  <2>2. Funnel!Chosen(f_qualifying, slots) \subseteq f_qualifying
    BY DEF Funnel!Chosen
  <2> QED BY <2>1, <2>2 DEF Funnel!Init
<1>2. FunnelShaped
  BY <1>1 DEF Funnel!Init, FunnelShaped, IsOn, Busy, Funnel!NoEntry, EntryType, Ended
<1>3. MoneyKnown /\ EndsTold
  BY <1>1 DEF Funnel!Init, MoneyKnown, EndsTold
<1> QED BY <1>2, <1>3 DEF FunnelInv

LEMMA FunnelStepKeeps == FunnelInv /\ [Funnel!Next]_funnelVars => FunnelInv'
<1>1. ASSUME FunnelInv, UNCHANGED funnelVars PROVE FunnelInv'
  BY <1>1 DEF funnelVars, FunnelInv, FunnelShaped, IsOn, MoneyKnown, EndsTold, AtHand,
     Funnel!At, Funnel!Open, Funnel!Told
<1> QED BY <1>1, SkipRestKeeps, OutcomeKeeps, OnTheWayKeeps, PersistKeeps, SendKeeps, RecordKeeps
        DEF Funnel!Next

LEMMA FunnelHolds == MCSpec => []FunnelInv
BY FunnelInit, FunnelSteps, FunnelStepKeeps, PTL DEF MCSpec

\* For any opportunities, slots and faults: an order that may rest is on record
\* and counted as an attempt, and its dollars are set aside while the next
\* candidate is sized.
THEOREM LiveIsAlwaysAccountedFor == MCSpec => []LiveIsAccountedFor
<1>1. FunnelInv => LiveIsAccountedFor
  <2> SUFFICES ASSUME FunnelInv PROVE LiveIsAccountedFor
    OBVIOUS
  <2>1. \A o \in f_live : f_store[o] \in {"pending", "placed", "unknown"}
    BY DEF FunnelInv, MoneyKnown, Sure
  <2>2. f_pc = "done" => f_live \subseteq Funnel!Attempted
    BY DEF FunnelInv, MoneyKnown, AtHand, Submitted, Funnel!Attempted
  <2>3. f_pc \in {"gate", "option", "equity", "price", "persist"}
          => f_live \union f_tickets \subseteq f_reserved
    BY DEF FunnelInv, MoneyKnown, AtHand
  <2> QED BY <2>1, <2>2, <2>3 DEF LiveIsAccountedFor, Funnel!LiveIsAccountedFor
<1> QED BY <1>1, FunnelHolds, PTL

\* A scan without a fault that ends has told of every opportunity, but for
\* those behind a submission of unknown outcome, however many there are.
THEOREM EveryOpportunityIsAlwaysTold == MCSpec => []EveryOpportunityIsTold
<1>1. FunnelInv => EveryOpportunityIsTold
  <2> SUFFICES ASSUME FunnelInv, f_pc = "done", f_faults = 0, NEW o \in Opportunities
               PROVE  Funnel!Told(o) \/ \E p \in f_candidates :
                        p < o /\ o \in f_candidates /\ f_result[p] = "unknown"
    BY DEF EveryOpportunityIsTold, Funnel!EveryOpportunityIsTold
  <2>1. CASE f_result[o] = "none"
    BY <2>1 DEF FunnelInv, FunnelShaped, EndsTold
  <2>2. CASE f_result[o] # "none"
    BY <2>2 DEF FunnelInv, EndsTold
  <2> QED BY <2>1, <2>2
<1> QED BY <1>1, FunnelHolds, PTL
-----------------------------------------------------------------------------
(* The ledger of suggestions. *)

Decisions == {"taken", "proposed", "skipped", "awaiting"}
RowType == [decision : Decisions \union {"none"}, graded : BOOLEAN, sent : BOOLEAN]
Doing == {"idle", "skip", "enter", "taken", "doubt", "rejected", "failed"}
ScanSteps == {"idle", "alert", "append", "grade", "tell", "mark"}

LedgerShaped ==
    /\ l_age \in [Setups -> {"ahead", "fresh", "late", "due"}]
    /\ l_row \in [Setups -> RowType]
    /\ l_press \in [Presses -> [pc : Doing, setup : Nat]]
    /\ l_scan \in [pc : ScanSteps, about : SUBSET Setups]
    /\ l_page \in [pc : {"idle", "mark", "show"}, about : SUBSET Setups]

Young(s) == l_age[s] \in {"fresh", "late"}

\* A row is graded when its day has come and its decision is made; whoever may
\* still write its decision, a scan or a press, is about a setup younger than
\* that, and grading comes after the unanswered ones were closed.
DecidedFirst ==
    /\ \A s \in Setups : l_row[s].graded => l_age[s] = "due" /\ l_row[s].decision # "awaiting"
    /\ \A s \in Setups : l_age[s] = "ahead" => l_row[s] = Ledger!NoRow
    /\ l_scan.pc \in {"alert", "append"} =>
          \A s \in l_scan.about : Young(s) /\ l_row[s] = Ledger!NoRow
    /\ \A p \in Presses : l_press[p].pc # "idle" =>
          l_press[p].setup \in Setups /\ Young(l_press[p].setup)
    /\ l_scan.pc = "grade" =>
          \A s \in Setups : l_row[s].decision = "awaiting" => l_age[s] # "due"

LedgerInv == LedgerShaped /\ DecidedFirst

\* What GradeStands asks of one step.
Stands ==
    \A s \in Setups : l_row[s].graded /\ l_row'[s] # Ledger!NoRow =>
        l_row'[s].graded /\ l_row'[s].decision = l_row[s].decision

LEMMA AppendedIs ==
    ASSUME LedgerShaped, NEW s \in Setups, NEW decision \in Decisions,
           l_row' = Ledger!Appended(s, decision)
    PROVE  /\ l_row' \in [Setups -> RowType]
           /\ \A x \in Setups : \/ l_row'[x] \in {l_row[x], Ledger!NoRow}
                                \/ x = s /\ ~ l_row'[x].graded
<1> DEFINE grown == [l_row EXCEPT ![s] = Ledger!NewRow(decision)]
<1>1. Ledger!NoRow \in RowType /\ ~ Ledger!NoRow.graded
  BY DEF Ledger!NoRow, RowType
<1>2. Ledger!NewRow(decision) \in RowType /\ ~ Ledger!NewRow(decision).graded
  BY DEF Ledger!NewRow, Ledger!NoRow, RowType
<1>3. grown \in [Setups -> RowType] /\ \A x \in Setups : x # s => grown[x] = l_row[x]
  BY <1>2 DEF LedgerShaped
<1>4. grown[s] = Ledger!NewRow(decision)
  BY DEF LedgerShaped
<1>5. \/ l_row' = grown
      \/ \E m : l_row' = [grown EXCEPT ![m] = Ledger!NoRow]
  BY DEF Ledger!Appended
<1> HIDE DEF grown
<1>6. CASE l_row' = grown
  BY <1>2, <1>3, <1>4, <1>6
<1>7. ASSUME NEW m, l_row' = [grown EXCEPT ![m] = Ledger!NoRow]
      PROVE  /\ l_row' \in [Setups -> RowType]
             /\ \A x \in Setups : l_row'[x] \in {grown[x], Ledger!NoRow}
  BY <1>1, <1>3, <1>7
<1> QED BY <1>1, <1>2, <1>3, <1>4, <1>5, <1>6, <1>7

LEMMA UpdatedIs ==
    ASSUME LedgerShaped, NEW s \in Setups, NEW decision \in Decisions,
           l_row' = Ledger!Updated(s, decision)
    PROVE  /\ l_row' \in [Setups -> RowType]
           /\ \A x \in Setups :
                 \/ l_row'[x] = l_row[x]
                 \/ /\ x = s /\ l_row[x] # Ledger!NoRow
                    /\ l_row'[x].graded = l_row[x].graded
                    /\ l_row'[x].decision = decision
<1>1. CASE Ledger!Logged(s)
  <2> DEFINE new == [l_row[s] EXCEPT !.decision = decision]
  <2>1. l_row[s] \in RowType
    BY DEF LedgerShaped
  <2>2. new \in RowType /\ new.graded = l_row[s].graded /\ new.decision = decision
    BY <2>1 DEF RowType
  <2>3. l_row' = [l_row EXCEPT ![s] = new]
    BY <1>1 DEF Ledger!Updated
  <2> HIDE DEF new
  <2> QED BY <1>1, <2>2, <2>3 DEF LedgerShaped, Ledger!Logged
<1> QED BY <1>1 DEF Ledger!Updated, LedgerShaped

LEMMA SentIs ==
    ASSUME LedgerShaped, NEW rows, l_row' = Ledger!Sent(rows)
    PROVE  /\ l_row' \in [Setups -> RowType]
           /\ \A x \in Setups : \/ l_row'[x] = l_row[x]
                                \/ /\ l_row[x] # Ledger!NoRow
                                   /\ l_row'[x].graded = l_row[x].graded
                                   /\ l_row'[x].decision = l_row[x].decision
<1>1. ASSUME NEW x \in Setups
      PROVE  /\ [l_row[x] EXCEPT !.sent = TRUE] \in RowType
             /\ [l_row[x] EXCEPT !.sent = TRUE].graded = l_row[x].graded
             /\ [l_row[x] EXCEPT !.sent = TRUE].decision = l_row[x].decision
  BY DEF LedgerShaped, RowType
<1>2. \A x \in Setups : \/ l_row'[x] = l_row[x]
                        \/ l_row[x] # Ledger!NoRow /\ l_row'[x] = [l_row[x] EXCEPT !.sent = TRUE]
  BY DEF Ledger!Sent, Ledger!Logged
<1>3. l_row' = [x \in Setups |-> l_row'[x]]
  BY DEF Ledger!Sent
<1>4. \A x \in Setups : l_row'[x] \in RowType
  BY <1>1, <1>2 DEF LedgerShaped
<1> QED BY <1>1, <1>2, <1>3, <1>4

\* The next setup is one that lies ahead, without a row.
LEMMA NextSetup ==
    ASSUME LedgerInv, \E s \in Setups : l_age[s] = "ahead"
    PROVE  \E s \in Setups : /\ s = Ledger!Min({x \in Setups : l_age[x] = "ahead"})
                             /\ l_age[s] = "ahead" /\ l_row[s] = Ledger!NoRow
<1> DEFINE S == {x \in Setups : l_age[x] = "ahead"}
<1>1. S # {} /\ S \subseteq Nat
  BY BackgroundAssumption DEF Ledger!LedgerConstants
<1>2. Ledger!Min(S) \in S
  BY <1>1, Least
<1> QED BY <1>2 DEF LedgerInv, DecidedFirst

\* The steps of a scan that finds a setup.
LEMMA FindingKeeps ==
    ASSUME LedgerInv,
           Ledger!FindOther \/ Ledger!FindConfirm \/ Ledger!SendAlert \/ Ledger!AppendAwaiting
    PROVE  LedgerInv' /\ Stands
<1>1. CASE Ledger!FindOther \/ Ledger!FindConfirm
  <2>1. PICK s \in Setups : /\ s = Ledger!Min({x \in Setups : l_age[x] = "ahead"})
                            /\ l_age[s] = "ahead" /\ l_row[s] = Ledger!NoRow
    BY <1>1, NextSetup DEF Ledger!FindOther, Ledger!FindConfirm
  <2>2. /\ l_scan = Ledger!Idle
        /\ l_age' = [l_age EXCEPT ![s] = "fresh"] /\ UNCHANGED <<l_press, l_page>>
        /\ \/ UNCHANGED l_scan /\ \E decision \in Decisions : l_row' = Ledger!Appended(s, decision)
           \/ UNCHANGED l_row /\ l_scan' = [pc |-> "alert", about |-> {s}]
    BY <1>1, <2>1 DEF Ledger!FindOther, Ledger!FindConfirm, Decisions
  <2>3. /\ l_row' \in [Setups -> RowType]
        /\ \A x \in Setups : \/ l_row'[x] \in {l_row[x], Ledger!NoRow}
                             \/ x = s /\ ~ l_row'[x].graded
    BY <2>2, AppendedIs DEF LedgerInv, LedgerShaped
  <2>4. l_scan' = Ledger!Idle \/ (l_scan' = [pc |-> "alert", about |-> {s}] /\ l_row' = l_row)
    BY <2>2
  <2>5. LedgerShaped'
    <3>1. l_scan' \in [pc : ScanSteps, about : SUBSET Setups]
      BY <2>4 DEF Ledger!Idle, ScanSteps
    <3>2. l_age' \in [Setups -> {"ahead", "fresh", "late", "due"}]
      BY <2>2 DEF LedgerInv, LedgerShaped
    <3> QED BY <2>2, <2>3, <3>1, <3>2 DEF LedgerInv, LedgerShaped
  <2>6. \A x \in Setups : l_age'[x] = IF x = s THEN "fresh" ELSE l_age[x]
    BY <2>2 DEF LedgerInv, LedgerShaped
  <2>7. ~ Ledger!NoRow.graded /\ Ledger!NoRow.decision = "none"
    BY DEF Ledger!NoRow
  <2>8. DecidedFirst'
    BY <2>1, <2>2, <2>3, <2>4, <2>6, <2>7 DEF LedgerInv, DecidedFirst, Young, Ledger!Idle
  <2> QED BY <2>1, <2>3, <2>5, <2>7, <2>8 DEF LedgerInv, Stands
<1>2. CASE Ledger!SendAlert
  BY <1>2 DEF Ledger!SendAlert, LedgerInv, LedgerShaped, DecidedFirst, Young, Stands, ScanSteps
<1>3. CASE Ledger!AppendAwaiting
  <2>1. /\ l_scan.pc = "append" /\ l_scan' = Ledger!Idle /\ UNCHANGED <<l_age, l_press, l_page>>
    BY <1>3 DEF Ledger!AppendAwaiting
  <2>2. CASE UNCHANGED l_row
    BY <2>1, <2>2 DEF LedgerInv, LedgerShaped, DecidedFirst, Young, Stands, ScanSteps, Ledger!Idle
  <2>3. CASE \E s \in l_scan.about : l_row' = Ledger!Appended(s, "awaiting")
    <3>1. PICK s \in l_scan.about : l_row' = Ledger!Appended(s, "awaiting")
      BY <2>3
    <3>2. s \in Setups /\ Young(s) /\ l_row[s] = Ledger!NoRow
      BY <2>1, <3>1 DEF LedgerInv, LedgerShaped, DecidedFirst
    <3>3. /\ l_row' \in [Setups -> RowType]
          /\ \A x \in Setups : \/ l_row'[x] \in {l_row[x], Ledger!NoRow}
                               \/ x = s /\ ~ l_row'[x].graded
      BY <3>1, <3>2, AppendedIs DEF LedgerInv, Decisions
    <3>4. ~ Ledger!NoRow.graded /\ Ledger!NoRow.decision = "none"
      BY DEF Ledger!NoRow
    <3>5. LedgerShaped'
      BY <2>1, <3>3 DEF LedgerInv, LedgerShaped, Ledger!Idle, ScanSteps
    <3>6. DecidedFirst'
      BY <2>1, <3>2, <3>3, <3>4 DEF LedgerInv, DecidedFirst, Young, Ledger!Idle
    <3> QED BY <3>2, <3>3, <3>4, <3>5, <3>6 DEF LedgerInv, Stands
  <2> QED BY <1>3, <2>2, <2>3 DEF Ledger!AppendAwaiting
<1> QED BY <1>1, <1>2, <1>3

\* The steps of a press that write a decision.
LEMMA WritingKeeps ==
    ASSUME LedgerInv, NEW p \in Presses, l_press[p].pc # "idle",
           NEW decision \in Decisions \ {"awaiting"},
           UNCHANGED l_row \/ l_row' = Ledger!Updated(l_press[p].setup, decision),
           \E to \in Doing : Ledger!Go(p, to) \/ Ledger!Answered(p),
           UNCHANGED <<l_age, l_scan, l_page>>
    PROVE  LedgerInv' /\ Stands
<1> DEFINE s == l_press[p].setup
<1>1. s \in Setups /\ Young(s)
  BY DEF LedgerInv, DecidedFirst
<1>2. /\ l_row' \in [Setups -> RowType]
      /\ \A x \in Setups : \/ l_row'[x] = l_row[x]
                           \/ /\ x = s /\ l_row[x] # Ledger!NoRow
                              /\ l_row'[x].graded = l_row[x].graded
                              /\ l_row'[x].decision = decision
  <2>1. CASE UNCHANGED l_row
    BY <2>1 DEF LedgerInv, LedgerShaped
  <2>2. CASE l_row' = Ledger!Updated(s, decision)
    BY <1>1, <2>2, UpdatedIs DEF LedgerInv
  <2> QED BY <2>1, <2>2
<1>3. /\ l_press' \in [Presses -> [pc : Doing, setup : Nat]]
      /\ \A q \in Presses : \/ l_press'[q].pc = "idle"
                            \/ l_press[q].pc # "idle" /\ l_press'[q].setup = l_press[q].setup
  <2>1. l_press \in [Presses -> [pc : Doing, setup : Nat]]
    BY DEF LedgerInv, LedgerShaped
  <2>2. CASE Ledger!Answered(p)
    BY <2>1, <2>2 DEF Ledger!Answered, Ledger!Unpressed, Doing
  <2>3. ASSUME NEW to \in Doing, Ledger!Go(p, to)
        PROVE  /\ l_press' \in [Presses -> [pc : Doing, setup : Nat]]
               /\ \A q \in Presses : \/ l_press'[q] = l_press[q]
                                     \/ q = p /\ l_press'[q].setup = l_press[q].setup
    <3> DEFINE r == [l_press[p] EXCEPT !.pc = to]
    <3>1. r \in [pc : Doing, setup : Nat] /\ r.setup = l_press[p].setup
      BY <2>1
    <3>2. l_press' = [l_press EXCEPT ![p] = r]
      BY <2>3 DEF Ledger!Go
    <3> HIDE DEF r
    <3> QED BY <2>1, <3>1, <3>2
  <2> QED BY <2>1, <2>2, <2>3
<1> HIDE DEF s
<1>4. LedgerShaped'
  BY <1>2, <1>3 DEF LedgerInv, LedgerShaped
<1>5. DecidedFirst'
  BY <1>1, <1>2, <1>3 DEF LedgerInv, LedgerShaped, DecidedFirst, Young
<1> QED BY <1>1, <1>2, <1>4, <1>5 DEF LedgerInv, DecidedFirst, Young, Stands

\* What a press does.
LEMMA PressKeeps ==
    ASSUME LedgerInv,
           \/ \E p \in Presses : Ledger!PressStep(p)
           \/ \E p \in Presses, s \in Setups, act \in Ledger!Acts : Ledger!Press(p, s, act)
    PROVE  LedgerInv' /\ Stands
<1> USE DEF Ledger!At, Ledger!Write, Doing, Decisions
<1>1. ASSUME NEW p \in Presses, Ledger!Skip(p) PROVE LedgerInv' /\ Stands
  BY <1>1, WritingKeeps DEF Ledger!Skip
<1>2. ASSUME NEW p \in Presses, Ledger!RefuseEnter(p) PROVE LedgerInv' /\ Stands
  BY <1>2, WritingKeeps DEF Ledger!RefuseEnter
<1>3. ASSUME NEW p \in Presses, Ledger!SubmitEnter(p) PROVE LedgerInv' /\ Stands
  BY <1>3, WritingKeeps DEF Ledger!SubmitEnter
<1>4. ASSUME NEW p \in Presses, Ledger!WriteEnter(p) PROVE LedgerInv' /\ Stands
  <2>1. Ledger!Decision(l_press[p].pc) \in Decisions \ {"awaiting"}
    BY DEF Ledger!Decision
  <2> QED BY <1>4, <2>1, WritingKeeps DEF Ledger!WriteEnter
<1>5. ASSUME NEW p \in Presses, Ledger!HandleFailure(p) PROVE LedgerInv' /\ Stands
  BY <1>5, WritingKeeps DEF Ledger!HandleFailure
<1>6. ASSUME NEW p \in Presses, NEW s \in Setups, NEW act \in Ledger!Acts, Ledger!Press(p, s, act)
      PROVE  LedgerInv' /\ Stands
  <2>1. /\ UNCHANGED <<l_age, l_row, l_scan, l_page>>
        /\ \/ UNCHANGED l_press
           \/ l_age[s] = "fresh" /\ l_press' = [l_press EXCEPT ![p] = [pc |-> act, setup |-> s]]
    BY <1>6 DEF Ledger!Press, Ledger!Redeemable
  <2>2. s \in Nat /\ act \in Doing
    BY BackgroundAssumption DEF Ledger!LedgerConstants, Ledger!Acts
  <2>3. /\ l_press' \in [Presses -> [pc : Doing, setup : Nat]]
        /\ \A q \in Presses : \/ l_press'[q] = l_press[q]
                              \/ l_press'[q].setup = s /\ l_age[s] = "fresh"
    BY <2>1, <2>2 DEF LedgerInv, LedgerShaped
  <2> QED BY <2>1, <2>3 DEF LedgerInv, LedgerShaped, DecidedFirst, Young, Stands
<1> QED BY <1>1, <1>2, <1>3, <1>4, <1>5, <1>6 DEF Ledger!PressStep

\* The steps that close, grade and tell.
LEMMA ClosingKeeps ==
    ASSUME LedgerInv, Ledger!ExpireUnconfirmed \/ Ledger!GradeDue
    PROVE  LedgerInv' /\ Stands
<1>0. \A s \in Setups : /\ l_row[s] \in RowType
                        /\ [l_row[s] EXCEPT !.decision = "skipped"] \in RowType
                        /\ [l_row[s] EXCEPT !.graded = TRUE] \in RowType
  BY DEF LedgerInv, LedgerShaped, RowType, Decisions
<1>1. CASE Ledger!ExpireUnconfirmed
  <2>1. /\ l_scan = Ledger!Idle /\ l_scan' = [Ledger!Idle EXCEPT !.pc = "grade"]
        /\ UNCHANGED <<l_age, l_press, l_page>>
    BY <1>1 DEF Ledger!ExpireUnconfirmed
  <2>2. l_scan' = [pc |-> "grade", about |-> {}]
    BY <2>1 DEF Ledger!Idle
  <2>3. l_row' = [s \in Setups |-> IF Ledger!Expired(s)
                                   THEN [l_row[s] EXCEPT !.decision = "skipped"] ELSE l_row[s]]
    BY <1>1 DEF Ledger!ExpireUnconfirmed
  <2>4. /\ l_row' \in [Setups -> RowType]
        /\ \A s \in Setups :
              \/ l_row'[s] = l_row[s] /\ (l_row[s].decision = "awaiting" => l_age[s] = "fresh")
              \/ /\ l_row[s].decision = "awaiting" /\ l_row'[s].decision = "skipped"
                 /\ l_row'[s].graded = l_row[s].graded
    BY <1>0, <2>3 DEF Ledger!Expired, RowType
  <2>5. Ledger!NoRow.decision = "none"
    BY DEF Ledger!NoRow
  <2>6. LedgerShaped'
    BY <2>1, <2>2, <2>4 DEF LedgerInv, LedgerShaped, ScanSteps
  <2>7. DecidedFirst'
    BY <2>1, <2>2, <2>4, <2>5 DEF LedgerInv, DecidedFirst, Young
  <2> QED BY <2>4, <2>6, <2>7 DEF LedgerInv, DecidedFirst, Stands
<1>2. CASE Ledger!GradeDue
  <2>1. /\ l_scan.pc = "grade" /\ UNCHANGED <<l_age, l_press, l_page>>
        /\ l_scan' \in {Ledger!Idle, [Ledger!Idle EXCEPT !.pc = "tell"]}
    BY <1>2 DEF Ledger!GradeDue
  <2>2. l_scan' \in {[pc |-> "idle", about |-> {}], [pc |-> "tell", about |-> {}]}
    BY <2>1 DEF Ledger!Idle
  <2>3. PICK lacking \in SUBSET Setups :
           l_row' = [s \in Setups |-> IF Ledger!Logged(s) /\ l_age[s] = "due" /\ s \notin lacking
                                      THEN [l_row[s] EXCEPT !.graded = TRUE] ELSE l_row[s]]
    BY <1>2 DEF Ledger!GradeDue
  <2>4. /\ l_row' \in [Setups -> RowType]
        /\ \A s \in Setups :
              \/ l_row'[s] = l_row[s]
              \/ /\ l_age[s] = "due" /\ l_row'[s].graded
                 /\ l_row'[s].decision = l_row[s].decision
    BY <1>0, <2>3 DEF RowType
  <2>5. LedgerShaped'
    BY <2>1, <2>2, <2>4 DEF LedgerInv, LedgerShaped, ScanSteps
  <2>6. DecidedFirst'
    BY <2>1, <2>2, <2>4 DEF LedgerInv, DecidedFirst, Young
  <2> QED BY <2>4, <2>5, <2>6 DEF LedgerInv, Stands
<1> QED BY <1>1, <1>2

LEMMA TellingKeeps ==
    ASSUME LedgerInv,
           \/ Ledger!TellAtOnce \/ Ledger!MarkTold \/ Ledger!OpenDigest \/ Ledger!MarkDigest
           \/ Ledger!ShowDigest
    PROVE  LedgerInv' /\ Stands
<1> USE DEF ScanSteps
<1>1. UNCHANGED <<l_age, l_press>>
  BY DEF Ledger!TellAtOnce, Ledger!MarkTold, Ledger!OpenDigest, Ledger!MarkDigest, Ledger!ShowDigest
<1>2. /\ l_scan' = l_scan \/ l_scan'.pc \in {"idle", "mark"}
      /\ l_scan' \in [pc : ScanSteps, about : SUBSET Setups]
      /\ l_page' \in [pc : {"idle", "mark", "show"}, about : SUBSET Setups]
  BY DEF Ledger!TellAtOnce, Ledger!MarkTold, Ledger!OpenDigest, Ledger!MarkDigest,
         Ledger!ShowDigest, Ledger!Pending, Ledger!Idle, LedgerInv, LedgerShaped
<1>3. /\ l_row' \in [Setups -> RowType]
      /\ \A x \in Setups : \/ l_row'[x] = l_row[x]
                           \/ /\ l_row[x] # Ledger!NoRow
                              /\ l_row'[x].graded = l_row[x].graded
                              /\ l_row'[x].decision = l_row[x].decision
  <2>1. UNCHANGED l_row \/ \E rows : l_row' = Ledger!Sent(rows)
    BY DEF Ledger!TellAtOnce, Ledger!MarkTold, Ledger!OpenDigest, Ledger!MarkDigest,
           Ledger!ShowDigest
  <2>2. CASE UNCHANGED l_row
    BY <2>2 DEF LedgerInv, LedgerShaped
  <2> QED BY <2>1, <2>2, SentIs DEF LedgerInv
<1>4. LedgerShaped'
  BY <1>1, <1>2, <1>3 DEF LedgerInv, LedgerShaped
<1>5. DecidedFirst'
  BY <1>1, <1>2, <1>3 DEF LedgerInv, DecidedFirst, Young
<1> QED BY <1>3, <1>4, <1>5 DEF LedgerInv, Stands

\* Time, a ticket, and the end of the process.
LEMMA OtherKeeps ==
    ASSUME LedgerInv,
           \/ \E s \in Setups : Ledger!Pass(s) \/ Ledger!ApproveTicket(s)
           \/ Ledger!Die
    PROVE  LedgerInv' /\ Stands
<1>1. ASSUME NEW s \in Setups, Ledger!Pass(s) PROVE LedgerInv' /\ Stands
  <2>1. UNCHANGED <<l_row, l_press, l_scan, l_page>>
    BY <1>1 DEF Ledger!Pass
  <2>2. \/ l_age[s] = "fresh" /\ l_age' = [l_age EXCEPT ![s] = "late"]
        \/ /\ l_age[s] = "late" /\ l_scan = Ledger!Idle
           /\ \A p \in Presses : l_press[p].setup # s
           /\ l_age' = [l_age EXCEPT ![s] = "due"]
    BY <1>1 DEF Ledger!Pass
  <2>3. CASE l_age[s] = "fresh" /\ l_age' = [l_age EXCEPT ![s] = "late"]
    BY <2>1, <2>3 DEF LedgerInv, LedgerShaped, DecidedFirst, Young, Stands
  <2>4. CASE /\ l_age[s] = "late" /\ l_scan = Ledger!Idle
             /\ \A p \in Presses : l_press[p].setup # s
             /\ l_age' = [l_age EXCEPT ![s] = "due"]
    <3>1. l_scan.pc = "idle"
      BY <2>4 DEF Ledger!Idle
    <3> QED BY <2>1, <2>4, <3>1 DEF LedgerInv, LedgerShaped, DecidedFirst, Young, Stands
  <2> QED BY <2>2, <2>3, <2>4
<1>2. ASSUME NEW s \in Setups, Ledger!ApproveTicket(s) PROVE LedgerInv' /\ Stands
  BY <1>2 DEF Ledger!ApproveTicket, LedgerInv, LedgerShaped, DecidedFirst, Young, Stands
<1>3. CASE Ledger!Die
  BY <1>3 DEF Ledger!Die, Ledger!Idle, Ledger!Unpressed, LedgerInv, LedgerShaped, DecidedFirst,
              Young, Stands, Doing, ScanSteps
<1> QED BY <1>1, <1>2, <1>3

\* A step of a behaviour is a step of the ledger or leaves it alone.
LEMMA LedgerSteps == [MCNext]_allVars => [Ledger!Next]_ledgerVars
<1> SUFFICES ASSUME MCNext PROVE [Ledger!Next]_ledgerVars
  BY DEF allVars, ledgerVars
<1>1. CASE LedgerNext
  BY <1>1 DEF LedgerNext, InLedger, Ledger!Next, Ledger!PressStep
<1>2. CASE StreamNext
  BY <1>2 DEF StreamNext, InStream
<1>3. CASE QuotesNext
  BY <1>3 DEF QuotesNext, InQuotes
<1>4. CASE PoolNext
  BY <1>4 DEF PoolNext, InPool
<1>5. CASE FunnelNext
  BY <1>5 DEF FunnelNext, InFunnel
<1>6. CASE ReadNext
  BY <1>6 DEF ReadNext, InRead
<1> QED BY <1>1, <1>2, <1>3, <1>4, <1>5, <1>6 DEF MCNext


LEMMA LedgerInvHolds == MCSpec => []LedgerInv
<1>1. MCInit => LedgerInv
  <2> SUFFICES ASSUME MCInit PROVE LedgerInv
    OBVIOUS
  <2>1. Ledger!NoRow \in RowType /\ ~ Ledger!NoRow.graded
    BY DEF Ledger!NoRow, RowType
  <2> QED BY <2>1 DEF MCInit, Ledger!Init, LedgerInv, LedgerShaped, DecidedFirst, Ledger!Idle,
                      Ledger!Unpressed, Doing, ScanSteps
<1>2. LedgerInv /\ [MCNext]_allVars => LedgerInv'
  <2> SUFFICES ASSUME LedgerInv, [Ledger!Next]_ledgerVars PROVE LedgerInv'
    BY LedgerSteps
  <2>1. CASE UNCHANGED ledgerVars
    BY <2>1 DEF ledgerVars, LedgerInv, LedgerShaped, DecidedFirst, Young
  <2> QED BY <2>1, FindingKeeps, PressKeeps, ClosingKeeps, TellingKeeps, OtherKeeps DEF Ledger!Next
<1> QED BY <1>1, <1>2, PTL DEF MCSpec

\* What is graded is decided: no press, however late or often repeated, and no
\* other writer of the ledger changes the decision of a row after its grade.
THEOREM GradesAlwaysStand == MCSpec => GradeStands
<1>1. LedgerInv /\ [MCNext]_allVars => [Stands]_Ledger!vars
  <2> SUFFICES ASSUME LedgerInv, [Ledger!Next]_ledgerVars PROVE [Stands]_Ledger!vars
    BY LedgerSteps
  <2>1. CASE UNCHANGED ledgerVars
    BY <2>1 DEF ledgerVars, Ledger!vars
  <2> QED BY <2>1, FindingKeeps, PressKeeps, ClosingKeeps, TellingKeeps, OtherKeeps DEF Ledger!Next
<1>2. [Stands]_Ledger!vars =>
        [\A s \in Setups : l_row[s].graded /\ Ledger!Logged(s)' =>
           l_row'[s].graded /\ l_row'[s].decision = l_row[s].decision]_Ledger!vars
  BY DEF Stands, Ledger!Logged
<1> QED BY <1>1, <1>2, LedgerInvHolds, PTL DEF MCSpec, GradeStands, Ledger!GradeStands

-----------------------------------------------------------------------------
(* The market stream. *)

CallType == [step : {"idle", "set", "tell"}, at : Workers \union {NoWorker},
             list : SUBSET Symbols]

StreamShaped ==
    /\ Stream!TypeOK /\ s_call \in [Calls -> CallType]
    /\ \A c \in Calls : s_call[c].step # "idle" => s_call[c].at \in Workers
    /\ s_holder # NoWorker => s_holder \in s_started
    /\ Stream!OneSocket

StreamInv == StreamShaped /\ WatchedIsSubscribed

\* A step of a behaviour is a step of the market stream or leaves it alone.
LEMMA StreamSteps == [MCNext]_allVars => [Stream!Next]_streamVars
<1> SUFFICES ASSUME MCNext PROVE [Stream!Next]_streamVars
  BY DEF allVars, streamVars
<1>1. CASE StreamNext
  BY <1>1 DEF StreamNext, InStream, Stream!Next
<1>2. CASE FunnelNext
  BY <1>2 DEF FunnelNext, InFunnel
<1>3. CASE LedgerNext
  BY <1>3 DEF LedgerNext, InLedger
<1>4. CASE QuotesNext
  BY <1>4 DEF QuotesNext, InQuotes
<1>5. CASE PoolNext
  BY <1>5 DEF PoolNext, InPool
<1>6. CASE ReadNext
  BY <1>6 DEF ReadNext, InRead
<1> QED BY <1>1, <1>2, <1>3, <1>4, <1>5, <1>6 DEF MCNext

LEMMA StreamInit == MCInit => StreamInv
<1> USE BackgroundAssumption DEF Stream!StreamConstants
<1> SUFFICES ASSUME Stream!Init PROVE StreamInv
  BY DEF MCInit
<1>1. /\ Stream!TypeOK /\ s_call \in [Calls -> CallType]
      /\ \A c \in Calls : s_call[c].step # "idle" => s_call[c].at \in Workers
  BY DEF Stream!Init, Stream!TypeOK, Stream!Idle, CallType, Stream!Streams,
         Stream!Open, Stream!Polls
<1>2. Stream!OneSocket /\ WatchedIsSubscribed /\ s_holder = NoWorker
  BY DEF Stream!Init, Stream!OneSocket, WatchedIsSubscribed, Stream!WatchedIsSubscribed
<1> QED BY <1>1, <1>2 DEF StreamInv, StreamShaped

\* The stream of a worker that gets the lock was not started before.
LEMMA ClaimKeeps ==
    ASSUME StreamInv, NEW w \in Workers, Stream!Claim(w),
           w \in s_started', s_started \subseteq s_started',
           s_started' \subseteq s_started \union {w}, s_poll' \in [Workers -> Stream!Polls],
           UNCHANGED <<s_connected, s_watch, s_subscribed, s_refused, s_call, s_faults>>,
           s_holder = w => UNCHANGED s_stream /\ UNCHANGED s_symbols
    PROVE  StreamInv'
<1> USE DEF StreamInv, StreamShaped
<1>1. CASE s_holder \in {w, NoWorker}
  <2>1. /\ s_holder' = w /\ UNCHANGED s_fallback
        /\ s_symbols' = [s_symbols EXCEPT ![w] = s_watch[w]]
        /\ s_stream' = [s_stream EXCEPT ![w] = IF @ = "none" THEN "dialling" ELSE @]
    BY <1>1 DEF Stream!Claim
  <2>2. Stream!TypeOK'
    BY <2>1 DEF Stream!TypeOK, Stream!Streams, Stream!Open
  <2>3. Stream!OneSocket'
    BY <1>1, <2>1, BackgroundAssumption
       DEF Stream!OneSocket, Stream!TypeOK, Stream!StreamConstants
  <2>4. WatchedIsSubscribed'
    <3> SUFFICES ASSUME NEW v \in s_connected, s_stream'[v] = "ready", v \notin s_refused,
                        \A c \in Calls : s_call[c].at = v => s_call[c].step # "tell"
                 PROVE  s_symbols'[v] \subseteq s_subscribed[v]
      BY DEF WatchedIsSubscribed, Stream!WatchedIsSubscribed
    <3>1. v \in Workers
      BY DEF Stream!TypeOK
    <3>2. s_symbols[v] \subseteq s_subscribed[v] /\ s_stream[v] = "ready"
      BY <2>1, <3>1 DEF WatchedIsSubscribed, Stream!WatchedIsSubscribed, Stream!TypeOK
    <3>3. CASE v # w
      BY <2>1, <3>1, <3>2, <3>3 DEF Stream!TypeOK
    <3>4. CASE v = w
      <4>1. s_holder = w
        BY <1>1, <3>1, <3>2, <3>4 DEF Stream!OneSocket
      <4> QED BY <3>2, <4>1
    <3> QED BY <3>3, <3>4
  <2> QED BY <2>1, <2>2, <2>3, <2>4 DEF Stream!TypeOK
<1>2. CASE s_holder \notin {w, NoWorker}
  <2>1. /\ s_fallback' = s_fallback \union {w}
        /\ UNCHANGED <<s_holder, s_symbols, s_stream>>
    BY <1>2 DEF Stream!Claim
  <2>2. Stream!TypeOK'
    BY <2>1 DEF Stream!TypeOK
  <2> QED BY <2>1, <2>2 DEF Stream!OneSocket, WatchedIsSubscribed, Stream!WatchedIsSubscribed
<1> QED BY <1>1, <1>2

\* The callbacks of a socket and the rest of a polling turn, each on its own.
LEMMA SocketKeeps ==
    ASSUME StreamInv, NEW w \in Workers,
           Stream!PollLook(w) \/ Stream!PollEnd(w) \/ Stream!OnOpen(w)
           \/ Stream!Authenticate(w) \/ Stream!SubscribeFirst(w) \/ Stream!OnError(w)
           \/ Stream!DialFails(w) \/ Stream!SocketDrops(w) \/ Stream!OnClose(w)
           \/ Stream!Redial(w)
    PROVE  StreamInv'
<1> USE BackgroundAssumption
        DEF Stream!StreamConstants, StreamInv, StreamShaped, Stream!TypeOK, Stream!OneSocket,
            WatchedIsSubscribed, Stream!WatchedIsSubscribed, Stream!Streams, Stream!Open, Stream!Polls
<1>1. CASE Stream!OnOpen(w)
  BY <1>1 DEF Stream!OnOpen, Stream!Move
<1>2. CASE Stream!Authenticate(w)
  BY <1>2 DEF Stream!Authenticate, Stream!Move
<1>3. CASE Stream!SubscribeFirst(w)
  BY <1>3 DEF Stream!SubscribeFirst, Stream!Move, Stream!Wanted
<1>4. CASE Stream!OnError(w)
  BY <1>4 DEF Stream!OnError
<1>5. CASE Stream!DialFails(w)
  BY <1>5 DEF Stream!DialFails, Stream!Move, Stream!Fault
<1>6. CASE Stream!SocketDrops(w)
  BY <1>6 DEF Stream!SocketDrops, Stream!Fault
<1>7. CASE Stream!OnClose(w)
  BY <1>7 DEF Stream!OnClose, Stream!Move
<1>8. CASE Stream!Redial(w)
  BY <1>8 DEF Stream!Redial, Stream!Move
<1>9. CASE Stream!PollLook(w)
  BY <1>9 DEF Stream!PollLook
<1>10. CASE Stream!PollEnd(w)
  BY <1>10 DEF Stream!PollEnd, Stream!With
<1> QED BY <1>1, <1>2, <1>3, <1>4, <1>5, <1>6, <1>7, <1>8, <1>9, <1>10

\* The requests: a symbol that is set is told to the socket or sent at login.
LEMMA CallKeeps ==
    ASSUME StreamInv, NEW c \in Calls,
           (\E w \in Workers, s \in Symbols : Stream!AddSymbol(c, w, s))
           \/ Stream!SetSymbols(c) \/ Stream!Subscribe(c) \/ Stream!Refuse(c)
    PROVE  StreamInv'
<1> USE BackgroundAssumption
        DEF Stream!StreamConstants, StreamInv, StreamShaped, Stream!TypeOK, Stream!OneSocket,
            Stream!Streams, Stream!Open, Stream!Polls, Stream!Idle
<1>1. ASSUME NEW w \in Workers, NEW s \in Symbols, Stream!AddSymbol(c, w, s)
      PROVE  StreamInv'
  <2>1. PICK list \in SUBSET (s_watch[w] \union {s}) :
          /\ s_watch' = [s_watch EXCEPT ![w] = list]
          /\ s_call' = [s_call EXCEPT ![c] = [step |-> "set", at |-> w, list |-> list]]
    BY <1>1 DEF Stream!AddSymbol
  <2>2. list \in SUBSET Symbols /\ UNCHANGED <<s_stream, s_symbols, s_subscribed, s_connected>>
        /\ UNCHANGED <<s_holder, s_started, s_refused, s_poll, s_fallback, s_faults>>
    BY <1>1, <2>1 DEF Stream!AddSymbol
  <2>3. s_call' \in [Calls -> CallType]
    BY <2>1, <2>2 DEF CallType
  <2>4. StreamShaped'
    BY <2>1, <2>2, <2>3 DEF CallType
  <2>5. \A d \in Calls, v \in Workers :
          s_call[d].at = v /\ s_call[d].step = "tell"
            => s_call'[d].at = v /\ s_call'[d].step = "tell"
    BY <1>1, <2>1 DEF Stream!AddSymbol, CallType
  <2> QED BY <2>2, <2>4, <2>5 DEF WatchedIsSubscribed, Stream!WatchedIsSubscribed
<1> DEFINE w == s_call[c].at
<1>a. s_call[c] \in CallType
  OBVIOUS
<1>2. CASE Stream!SetSymbols(c)
  <2>2. StreamShaped'
    BY <1>a, <1>2 DEF Stream!SetSymbols, CallType
  <2> QED BY <1>a, <1>2, <2>2 DEF Stream!SetSymbols, CallType, WatchedIsSubscribed, Stream!WatchedIsSubscribed
<1>3. CASE Stream!Subscribe(c)
  <2>2. StreamShaped'
    BY <1>a, <1>3 DEF Stream!Subscribe, CallType, Stream!Wanted
  <2> QED BY <1>a, <1>3, <2>2 DEF Stream!Subscribe, CallType, Stream!Wanted, WatchedIsSubscribed, Stream!WatchedIsSubscribed
<1>4. CASE Stream!Refuse(c)
  <2>2. StreamShaped'
    BY <1>a, <1>4 DEF Stream!Refuse, CallType, Stream!Fault
  <2> QED BY <1>a, <1>4, <2>2 DEF Stream!Refuse, CallType, Stream!Fault, WatchedIsSubscribed, Stream!WatchedIsSubscribed
<1> QED BY <1>1, <1>2, <1>3, <1>4

LEMMA StreamStepKeeps == StreamInv /\ [Stream!Next]_streamVars => StreamInv'
<1> SUFFICES ASSUME StreamInv, [Stream!Next]_streamVars PROVE StreamInv'
  OBVIOUS
<1> USE BackgroundAssumption DEF Stream!StreamConstants
<1>1. ASSUME NEW w \in Workers, Stream!StartService(w) PROVE StreamInv'
  <2>1. s_holder # w
    BY <1>1 DEF Stream!StartService, StreamInv, StreamShaped
  <2>2. s_poll' \in [Workers -> Stream!Polls]
    BY <1>1 DEF Stream!StartService, StreamInv, StreamShaped, Stream!TypeOK
  <2> QED BY <1>1, <2>1, <2>2, ClaimKeeps DEF Stream!StartService
<1>2. ASSUME NEW w \in Workers, Stream!PollTurn(w) PROVE StreamInv'
  <2>1. s_poll' \in [Workers -> Stream!Polls]
    BY <1>2 DEF Stream!PollTurn, StreamInv, StreamShaped, Stream!TypeOK, Stream!Polls
  <2>2. CASE s_holder = w
    BY <1>2, <2>1, <2>2 DEF Stream!PollTurn, Stream!MaybeClaim, StreamInv, StreamShaped,
       Stream!TypeOK, Stream!OneSocket, WatchedIsSubscribed, Stream!WatchedIsSubscribed
  <2>3. CASE s_holder # w
    BY <1>2, <2>1, <2>3, ClaimKeeps DEF Stream!PollTurn, Stream!MaybeClaim
  <2> QED BY <2>2, <2>3
<1>3. ASSUME NEW w \in Workers, Stream!Die(w) PROVE StreamInv'
  <2> USE DEF StreamInv, StreamShaped, Stream!TypeOK, Stream!Idle
  <2>1. /\ Stream!TypeOK' /\ s_call' \in [Calls -> CallType]
        /\ \A c \in Calls : s_call'[c].step # "idle" => s_call'[c].at \in Workers
    BY <1>3 DEF Stream!Die, CallType, Stream!Fault, Stream!Streams, Stream!Polls
  <2>2. Stream!OneSocket' /\ (s_holder # NoWorker => s_holder \in s_started)'
    BY <1>3 DEF Stream!Die, Stream!OneSocket
  <2>3. WatchedIsSubscribed'
    <3> SUFFICES ASSUME NEW v \in s_connected', s_stream'[v] = "ready", v \notin s_refused',
                        \A c \in Calls : s_call'[c].at = v => s_call'[c].step # "tell"
                 PROVE  s_symbols'[v] \subseteq s_subscribed'[v]
      BY DEF WatchedIsSubscribed, Stream!WatchedIsSubscribed
    <3>1. v \in s_connected /\ v # w /\ v \in Workers
      BY <1>3 DEF Stream!Die
    <3>2. s_stream[v] = "ready" /\ v \notin s_refused /\ s_symbols'[v] = s_symbols[v]
          /\ s_subscribed'[v] = s_subscribed[v]
      BY <1>3, <3>1 DEF Stream!Die
    <3>3. \A c \in Calls : s_call[c].at = v => s_call[c].step # "tell"
      BY <1>3, <3>1 DEF Stream!Die
    <3> QED BY <3>1, <3>2, <3>3 DEF WatchedIsSubscribed, Stream!WatchedIsSubscribed
  <2> QED BY <2>1, <2>2, <2>3
<1>4. CASE UNCHANGED streamVars
  BY <1>4 DEF streamVars, StreamInv, StreamShaped, Stream!TypeOK, Stream!OneSocket,
     WatchedIsSubscribed, Stream!WatchedIsSubscribed
<1> QED BY <1>1, <1>2, <1>3, <1>4, SocketKeeps, CallKeeps DEF Stream!Next

LEMMA StreamHolds == MCSpec => []StreamInv
BY StreamInit, StreamSteps, StreamStepKeeps, PTL DEF MCSpec

\* Whoever dies, starts, claims, calls and refuses, and however many workers
\* there are: what counts as connected has been sent every symbol, unless a
\* request or an error frame is still on its way.
THEOREM WatchedIsAlwaysSubscribed == MCSpec => []WatchedIsSubscribed
<1>1. StreamInv => WatchedIsSubscribed
  BY DEF StreamInv
<1> QED BY <1>1, StreamHolds, PTL

\* At most one worker process has the account's data socket, and it holds the
\* lock file.
THEOREM SocketIsHeldByOne == MCSpec => []Stream!OneSocket
<1>1. StreamInv => Stream!OneSocket
  BY DEF StreamInv, StreamShaped
<1> QED BY <1>1, StreamHolds, PTL

-----------------------------------------------------------------------------
(* The quotes. *)

QuoteType == [from : {"stream", "rest"}, at : Nat \union {None}]
TaskType == [step : {"idle", "fetching", "have"}, quote : QuoteType \union {None}]

\* A quote of the data API at hand at time t is no older than a call may take.
Timely(quote, t) ==
    quote # None /\ quote.from = "rest" => quote.at \in 0 .. t /\ t - quote.at <= Timeout

QuotesInv ==
    /\ q_clock \in Nat /\ q_latest \in Nat \union {None}
    /\ q_task \in [Quotes!Tasks -> TaskType]
    /\ q_row # None => /\ q_row.written \in 0 .. q_clock
                       /\ q_row.quote \in QuoteType \union {None}
                       /\ Timely(q_row.quote, q_row.written)
    /\ \A t \in Quotes!Tasks : q_task[t].step = "have" => Timely(q_task[t].quote, q_clock)
    /\ LabelsAreTrue

\* A step of a behaviour is a step of the quotes or leaves it alone.
LEMMA QuotesSteps == [MCNext]_allVars => [Quotes!Next]_quotesVars
<1> SUFFICES ASSUME MCNext PROVE [Quotes!Next]_quotesVars
  BY DEF allVars, quotesVars
<1>1. CASE QuotesNext
  BY <1>1 DEF QuotesNext, InQuotes, Quotes!Next
<1>2. CASE StreamNext
  BY <1>2 DEF StreamNext, InStream
<1>3. CASE PoolNext
  BY <1>3 DEF PoolNext, InPool
<1>4. CASE FunnelNext
  BY <1>4 DEF FunnelNext, InFunnel
<1>5. CASE LedgerNext
  BY <1>5 DEF LedgerNext, InLedger
<1>6. CASE ReadNext
  BY <1>6 DEF ReadNext, InRead
<1> QED BY <1>1, <1>2, <1>3, <1>4, <1>5, <1>6 DEF MCNext

LEMMA QuotesInit == MCInit => QuotesInv
BY BackgroundAssumption
   DEF MCInit, Quotes!Init, QuotesInv, LabelsAreTrue, Quotes!LabelsAreTrue, Quotes!Idle,
       Quotes!NoAnswer, TaskType, Timely

\* What is told from the cache carries the label its age deserves.
LEMMA CachedIsTrue ==
    ASSUME QuotesInv, NEW t \in Quotes!Tasks, Quotes!TellCached(t)
    PROVE  /\ LabelsAreTrue'
           /\ q_task' = [q_task EXCEPT ![t] = Quotes!Idle]
<1> USE BackgroundAssumption DEF Quotes!QuoteConstants
<1>1. q_task' = [q_task EXCEPT ![t] = Quotes!Idle]
  BY DEF Quotes!TellCached, Quotes!Tell
<1>2. CASE Quotes!Label = "unavailable"
  BY <1>1, <1>2 DEF Quotes!TellCached, Quotes!Tell, LabelsAreTrue, Quotes!LabelsAreTrue
<1>3. CASE Quotes!Label # "unavailable"
  <2>1. q_answer' = [label |-> Quotes!Label, quote |-> q_row.quote, at |-> q_clock]
    BY <1>3 DEF Quotes!TellCached, Quotes!Tell
  <2>2. /\ q_row # None /\ q_clock - q_row.written <= Stale
        /\ Quotes!Label = "live" => q_clock - q_row.written <= Ttl
    BY <1>3 DEF Quotes!Label, QuotesInv
  <2>3. ASSUME q_row.quote # None, q_row.quote.from = "rest"
        PROVE  /\ q_row.quote.at \in Nat
               /\ Quotes!Label = "live" => q_clock - q_row.quote.at <= Timeout + Ttl
               /\ q_clock - q_row.quote.at <= Timeout + Stale
    BY <2>2, <2>3 DEF QuotesInv, Timely
  <2>4. /\ q_answer'.label = Quotes!Label /\ q_answer'.quote = q_row.quote
        /\ q_answer'.at = q_clock
    BY <2>1
  <2>5. ASSUME q_answer'.quote # None, q_answer'.quote.from = "rest"
        PROVE  q_answer'.at - q_answer'.quote.at
                 <= Timeout + (IF q_answer'.label = "live" THEN Ttl ELSE Stale)
    BY <2>3, <2>4, <2>5
  <2> QED BY <1>1, <2>5 DEF LabelsAreTrue, Quotes!LabelsAreTrue
<1> QED BY <1>1, <1>2, <1>3

LEMMA QuotesStepKeeps == QuotesInv /\ [Quotes!Next]_quotesVars => QuotesInv'
<1> SUFFICES ASSUME QuotesInv, [Quotes!Next]_quotesVars PROVE QuotesInv'
  OBVIOUS
<1> USE BackgroundAssumption DEF Quotes!QuoteConstants, QuotesInv, Timely
<1>1. CASE Quotes!Stream
  BY <1>1 DEF Quotes!Stream, Quotes!Update, Quotes!Quote, QuoteType, LabelsAreTrue, Quotes!LabelsAreTrue
<1>2. CASE Quotes!ConnectionChanges
  BY <1>2 DEF Quotes!ConnectionChanges, LabelsAreTrue, Quotes!LabelsAreTrue
<1>3. CASE Quotes!Poll
  BY <1>3 DEF Quotes!Poll, LabelsAreTrue, Quotes!LabelsAreTrue, Quotes!Tasks, TaskType
<1>4. CASE Quotes!Tick
  <2>1. \A t \in Quotes!Tasks : q_task[t].step = "have" => Timely(q_task[t].quote, q_clock + 1)
    BY <1>4 DEF Quotes!Tick
  <2> QED BY <1>4, <2>1 DEF Quotes!Tick, LabelsAreTrue, Quotes!LabelsAreTrue
<1>5. ASSUME NEW t \in Quotes!Tasks, Quotes!Ask(t) \/ Quotes!AskMany(t) PROVE QuotesInv'
  <2>0. UNCHANGED <<q_clock, q_connected, q_latest, q_row>>
    BY <1>5 DEF Quotes!Ask, Quotes!AskMany
  <2>1. CASE q_latest # None /\ UNCHANGED q_answer
             /\ q_task' = [q_task EXCEPT ![t] = [step |-> "have", quote |-> Quotes!Quote("stream", q_latest)]]
    BY <2>0, <2>1 DEF Quotes!Quote, QuoteType, TaskType, LabelsAreTrue, Quotes!LabelsAreTrue
  <2>2. CASE Quotes!TellCached(t)
    BY <2>0, <2>2, CachedIsTrue DEF Quotes!Idle, TaskType
  <2>3. CASE UNCHANGED q_answer /\ q_task' = [q_task EXCEPT ![t].step = "fetching"]
    BY <2>0, <2>3 DEF TaskType, LabelsAreTrue, Quotes!LabelsAreTrue
  <2> QED BY <1>5, <2>1, <2>2, <2>3 DEF Quotes!Ask, Quotes!AskMany
<1>6. ASSUME NEW t \in Quotes!Tasks, Quotes!Fetched(t) PROVE QuotesInv'
  BY <1>6 DEF Quotes!Fetched, Quotes!Quote, QuoteType, TaskType, LabelsAreTrue, Quotes!LabelsAreTrue
<1>7. ASSUME NEW t \in Quotes!Tasks, Quotes!FetchFails(t) PROVE QuotesInv'
  <2>0. UNCHANGED <<q_clock, q_connected, q_latest, q_row>>
    BY <1>7 DEF Quotes!FetchFails
  <2>1. CASE t = Poller
    BY <1>7, <2>1 DEF Quotes!FetchFails, Quotes!Idle, TaskType, LabelsAreTrue, Quotes!LabelsAreTrue
  <2>2. CASE t # Poller
    BY <1>7, <2>0, <2>2, CachedIsTrue DEF Quotes!FetchFails, Quotes!Idle, TaskType
  <2> QED BY <2>1, <2>2
<1>8. ASSUME NEW t \in Quotes!Tasks, Quotes!Arrives(t) PROVE QuotesInv'
  <2>0. UNCHANGED <<q_clock, q_connected, q_latest>> /\ Timely(q_task[t].quote, q_clock)
        /\ q_row' = [quote |-> q_task[t].quote, written |-> q_clock]
        /\ q_task' = [q_task EXCEPT ![t] = Quotes!Idle]
        /\ q_task[t].quote \in QuoteType \union {None}
    BY <1>8 DEF Quotes!Arrives, Quotes!Update, Quotes!Tell, TaskType
  <2>1. LabelsAreTrue'
    <3>1. CASE t = Poller
      BY <1>8, <3>1 DEF Quotes!Arrives, LabelsAreTrue, Quotes!LabelsAreTrue
    <3>2. CASE t # Poller
      BY <1>8, <2>0, <3>2 DEF Quotes!Arrives, Quotes!Tell, LabelsAreTrue, Quotes!LabelsAreTrue
    <3> QED BY <3>1, <3>2
  <2> QED BY <2>0, <2>1 DEF Quotes!Idle, TaskType
<1>9. CASE UNCHANGED quotesVars
  BY <1>9 DEF quotesVars, LabelsAreTrue, Quotes!LabelsAreTrue
<1> QED BY <1>1, <1>2, <1>3, <1>4, <1>5, <1>6, <1>7, <1>8, <1>9 DEF Quotes!Next

\* For any time to live, limits, timeout and number of requests: a quote of the
\* data API that is called live or stale was made as lately as that says, plus
\* what the call that brought it may take.
THEOREM LabelsAreAlwaysTrue == MCSpec => []LabelsAreTrue
<1>1. QuotesInv => LabelsAreTrue
  BY DEF QuotesInv
<1> QED BY <1>1, QuotesInit, QuotesSteps, QuotesStepKeeps, PTL DEF MCSpec

-----------------------------------------------------------------------------
(* The fetch pool.  A refresh of a key has one place, a thread or the queue. *)

ThreadSteps == {"free", "fetch", "wait", "lock", "hung"}
Waiters == Slots \union {Nobody, Scan}
Jobs == {j \in [kind : {"none", "page", "refresh", "inner"}, key : Pool!Keys \union {"none"},
                for : Waiters] :
            /\ j.kind # "none" => j.key \in Pool!Keys
            /\ j.kind = "refresh" => j.for = Nobody}
SlotType == [job : Jobs, step : ThreadSteps]

PoolTyped ==
    /\ p_slot \in [Slots -> SlotType] /\ p_queue \in Seq(Jobs)
    /\ p_inflight \subseteq Pool!Keys
    /\ \A s \in Slots : p_slot[s].step = "wait" => p_slot[s].job.kind = "refresh"

NotRunning(slots, k) == \A s \in Slots : slots[s].job # Pool!Refresh(k)
RunsOnce(slots, k) ==
    \E s \in Slots : \A x \in Slots : slots[x].job = Pool!Refresh(k) <=> x = s
NotWaiting(jobs, k) == \A i \in 1 .. Len(jobs) : jobs[i] # Pool!Refresh(k)
WaitsOnce(jobs, k) ==
    \E i \in 1 .. Len(jobs) : \A j \in 1 .. Len(jobs) : jobs[j] = Pool!Refresh(k) <=> j = i

Place(slots, marked, jobs, k) ==
    /\ k \in marked => \/ RunsOnce(slots, k) /\ NotWaiting(jobs, k)
                       \/ NotRunning(slots, k) /\ WaitsOnce(jobs, k)
    /\ k \notin marked => NotRunning(slots, k) /\ NotWaiting(jobs, k)

Places(slots, marked, jobs) == \A k \in Pool!Keys : Place(slots, marked, jobs, k)

PoolInv == PoolTyped /\ Places(p_slot, p_inflight, p_queue)

\* A place is one thread or one spot in the queue, counted.
LEMMA PlacesCounted == PoolInv => OneRefreshPerKey
<1> SUFFICES ASSUME PoolInv, NEW k \in Pool!Keys
             PROVE  Pool!Refreshes(k) = IF k \in p_inflight THEN 1 ELSE 0
  BY DEF OneRefreshPerKey, Pool!OneRefreshPerKey
<1> DEFINE S == {s \in Slots : p_slot[s].job = Pool!Refresh(k)}
           Q == {i \in 1 .. Len(p_queue) : p_queue[i] = Pool!Refresh(k)}
<1>1. Pool!Refreshes(k) = Cardinality(S) + Cardinality(Q)
  BY DEF Pool!Refreshes, Pool!Cardinality, Cardinality
<1>2. Place(p_slot, p_inflight, p_queue, k)
  BY DEF PoolInv, Places
<1>3. /\ NotRunning(p_slot, k) => S = {}
      /\ NotWaiting(p_queue, k) => Q = {}
  BY DEF NotRunning, NotWaiting
<1>4. RunsOnce(p_slot, k) => \E s : S = {s}
  BY DEF RunsOnce
<1>5. ASSUME WaitsOnce(p_queue, k) PROVE \E i : Q = {i}
  <2>1. PICK i \in 1 .. Len(p_queue) :
          \A j \in 1 .. Len(p_queue) : p_queue[j] = Pool!Refresh(k) <=> j = i
    BY <1>5 DEF WaitsOnce
  <2>2. Q = {i}
    BY <2>1
  <2> QED BY <2>2
<1> HIDE DEF S, Q
<1>6. /\ S = {} => Cardinality(S) = 0
      /\ Q = {} => Cardinality(Q) = 0
  BY FS_EmptySet
<1>7. /\ (\E s : S = {s}) => Cardinality(S) = 1
      /\ (\E i : Q = {i}) => Cardinality(Q) = 1
  BY FS_Singleton
<1> DEFINE n == Cardinality(S)
           m == Cardinality(Q)
<1>8. /\ k \in p_inflight => (n = 1 /\ m = 0) \/ (n = 0 /\ m = 1)
      /\ k \notin p_inflight => n = 0 /\ m = 0
  BY <1>2, <1>3, <1>4, <1>5, <1>6, <1>7 DEF Place
<1> HIDE DEF n, m
<1>9. n + m = IF k \in p_inflight THEN 1 ELSE 0
  BY <1>8
<1> QED BY <1>1, <1>9 DEF n, m

LEMMA RefreshesDiffer ==
    /\ \A k : Pool!Refresh(k).kind = "refresh" /\ Pool!Refresh(k).key = k
    /\ \A j \in Jobs : j.kind = "refresh" => j = Pool!Refresh(j.key)
    /\ \A k \in Pool!Keys : Pool!Refresh(k) \in Jobs
BY DEF Pool!Refresh, Pool!Job, Jobs, Waiters

LEMMA OtherJobs ==
    /\ \A t \in Tickers : Pool!Page(t) \in Jobs /\ Pool!Page(t).kind = "page"
    /\ \A k \in Pool!Keys, x \in Waiters : Pool!Inner(k, x) \in Jobs /\ Pool!Inner(k, x).kind = "inner"
    /\ Pool!Free \in SlotType /\ Pool!Free.job.kind = "none" /\ Pool!Free.step = "free"
BY DEF Pool!Page, Pool!Inner, Pool!Free, Pool!Job, Jobs, Waiters, Pool!Keys, SlotType, ThreadSteps

\* What the queue has of a key after a job is appended or taken.
LEMMA Appended ==
    ASSUME NEW q \in Seq(Jobs), NEW j \in Jobs, NEW k \in Pool!Keys
    PROVE  /\ q \o <<j>> \in Seq(Jobs) /\ q \o <<>> = q /\ Append(q, j) = q \o <<j>>
           /\ j # Pool!Refresh(k) /\ NotWaiting(q, k) => NotWaiting(q \o <<j>>, k)
           /\ j # Pool!Refresh(k) /\ WaitsOnce(q, k) => WaitsOnce(q \o <<j>>, k)
           /\ j = Pool!Refresh(k) /\ NotWaiting(q, k) => WaitsOnce(q \o <<j>>, k)
<1>1. /\ q \o <<j>> \in Seq(Jobs) /\ q \o <<>> = q /\ Append(q, j) = q \o <<j>>
      /\ Len(q) \in Nat /\ Len(q \o <<j>>) = Len(q) + 1
      /\ \A i \in 1 .. Len(q) : (q \o <<j>>)[i] = q[i]
      /\ (q \o <<j>>)[Len(q) + 1] = j
  OBVIOUS
<1> DEFINE r == q \o <<j>>
<1> HIDE DEF r
<1>2. /\ Len(r) = Len(q) + 1 /\ r[Len(q) + 1] = j
      /\ \A i \in 1 .. Len(q) : r[i] = q[i]
      /\ \A i \in 1 .. Len(r) : i \in 1 .. Len(q) \/ i = Len(q) + 1
  BY <1>1 DEF r
<1>3. j # Pool!Refresh(k) /\ NotWaiting(q, k) => NotWaiting(r, k)
  BY <1>2 DEF NotWaiting
<1>4. ASSUME j # Pool!Refresh(k), WaitsOnce(q, k) PROVE WaitsOnce(r, k)
  <2>1. PICK i \in 1 .. Len(q) : \A x \in 1 .. Len(q) : q[x] = Pool!Refresh(k) <=> x = i
    BY <1>4 DEF WaitsOnce
  <2>2. i \in 1 .. Len(r) /\ \A x \in 1 .. Len(r) : r[x] = Pool!Refresh(k) <=> x = i
    BY <1>1, <1>2, <1>4, <2>1
  <2> QED BY <2>2 DEF WaitsOnce
<1>5. ASSUME j = Pool!Refresh(k), NotWaiting(q, k) PROVE WaitsOnce(r, k)
  <2>1. Len(q) + 1 \in 1 .. Len(r)
    BY <1>1, <1>2
  <2>2. \A x \in 1 .. Len(r) : r[x] = Pool!Refresh(k) <=> x = Len(q) + 1
    BY <1>1, <1>2, <1>5 DEF NotWaiting
  <2> QED BY <2>1, <2>2 DEF WaitsOnce
<1> QED BY <1>1, <1>3, <1>4, <1>5 DEF r

LEMMA Taken ==
    ASSUME NEW q \in Seq(Jobs), q # <<>>, NEW k \in Pool!Keys
    PROVE  /\ Head(q) \in Jobs /\ Tail(q) \in Seq(Jobs)
           /\ NotWaiting(q, k) => NotWaiting(Tail(q), k) /\ Head(q) # Pool!Refresh(k)
           /\ Head(q) # Pool!Refresh(k) /\ WaitsOnce(q, k) => WaitsOnce(Tail(q), k)
           /\ Head(q) = Pool!Refresh(k) /\ WaitsOnce(q, k) => NotWaiting(Tail(q), k)
<1>1. /\ Head(q) \in Jobs /\ Tail(q) \in Seq(Jobs) /\ Head(q) = q[1]
      /\ Len(q) \in Nat /\ Len(q) >= 1 /\ Len(Tail(q)) = Len(q) - 1
      /\ \A i \in 1 .. Len(Tail(q)) : Tail(q)[i] = q[i + 1]
  BY HeadTailProperties, EmptySeq
<1> DEFINE r == Tail(q)
<1>2. /\ Len(r) = Len(q) - 1 /\ \A i \in 1 .. Len(r) : r[i] = q[i + 1] /\ i + 1 \in 1 .. Len(q)
      /\ \A i \in 1 .. Len(q) : i # 1 => i - 1 \in 1 .. Len(r) /\ r[i - 1] = q[i]
      /\ 1 \in 1 .. Len(q)
  BY <1>1
<1> HIDE DEF r
<1>3. NotWaiting(q, k) => NotWaiting(r, k) /\ Head(q) # Pool!Refresh(k)
  BY <1>1, <1>2 DEF NotWaiting
<1>4. ASSUME Head(q) # Pool!Refresh(k), WaitsOnce(q, k) PROVE WaitsOnce(r, k)
  <2>1. PICK i \in 1 .. Len(q) : \A x \in 1 .. Len(q) : q[x] = Pool!Refresh(k) <=> x = i
    BY <1>4 DEF WaitsOnce
  <2>2. i # 1 /\ i - 1 \in 1 .. Len(r)
    BY <1>1, <1>2, <1>4, <2>1
  <2>3. \A x \in 1 .. Len(r) : r[x] = Pool!Refresh(k) <=> x = i - 1
    BY <1>1, <1>2, <2>1
  <2> QED BY <2>2, <2>3 DEF WaitsOnce
<1>5. Head(q) = Pool!Refresh(k) /\ WaitsOnce(q, k) => NotWaiting(r, k)
  BY <1>1, <1>2 DEF WaitsOnce, NotWaiting
<1> QED BY <1>1, <1>3, <1>4, <1>5 DEF r


\* What the threads have of a key when one of them changes its job.
LEMMA Switched ==
    ASSUME NEW slots \in [Slots -> SlotType], NEW s \in Slots, NEW v \in SlotType,
           NEW k \in Pool!Keys
    PROVE  LET after == [slots EXCEPT ![s] = v] IN
           /\ v.job # Pool!Refresh(k) /\ NotRunning(slots, k) => NotRunning(after, k)
           /\ v.job # Pool!Refresh(k) /\ slots[s].job # Pool!Refresh(k) /\ RunsOnce(slots, k)
                => RunsOnce(after, k)
           /\ v.job # Pool!Refresh(k) /\ slots[s].job = Pool!Refresh(k) /\ RunsOnce(slots, k)
                => NotRunning(after, k)
           /\ v.job = Pool!Refresh(k) /\ NotRunning(slots, k) => RunsOnce(after, k)
BY DEF NotRunning, RunsOnce

\* Jobs that are no refreshes come, go and pass through without a trace.
LEMMA OthersPass ==
    ASSUME NEW slots \in [Slots -> SlotType], NEW marked, NEW q \in Seq(Jobs),
           Places(slots, marked, q)
    PROVE  /\ \A j \in Jobs : j.kind # "refresh" => Places(slots, marked, q \o <<j>>)
           /\ q # <<>> /\ Head(q).kind # "refresh" => Places(slots, marked, Tail(q))
           /\ \A s \in Slots, v \in SlotType :
                slots[s].job.kind # "refresh" /\ v.job.kind # "refresh"
                  => Places([slots EXCEPT ![s] = v], marked, q)
<1>1. ASSUME NEW j \in Jobs, j.kind # "refresh" PROVE Places(slots, marked, q \o <<j>>)
  <2> SUFFICES ASSUME NEW k \in Pool!Keys PROVE Place(slots, marked, q \o <<j>>, k)
    BY DEF Places
  <2>1. j # Pool!Refresh(k)
    BY <1>1, RefreshesDiffer
  <2> QED BY <2>1, Appended DEF Places, Place
<1>2. ASSUME q # <<>>, Head(q).kind # "refresh" PROVE Places(slots, marked, Tail(q))
  <2> SUFFICES ASSUME NEW k \in Pool!Keys PROVE Place(slots, marked, Tail(q), k)
    BY DEF Places
  <2>1. Head(q) # Pool!Refresh(k)
    BY <1>2, RefreshesDiffer
  <2> QED BY <1>2, <2>1, Taken DEF Places, Place
<1>3. ASSUME NEW s \in Slots, NEW v \in SlotType,
             slots[s].job.kind # "refresh", v.job.kind # "refresh"
      PROVE  Places([slots EXCEPT ![s] = v], marked, q)
  <2> SUFFICES ASSUME NEW k \in Pool!Keys PROVE Place([slots EXCEPT ![s] = v], marked, q, k)
    BY DEF Places
  <2>1. slots[s].job # Pool!Refresh(k) /\ v.job # Pool!Refresh(k)
    BY <1>3, RefreshesDiffer
  <2> QED BY <2>1, Switched DEF Places, Place
<1> QED BY <1>1, <1>2, <1>3

\* A refresh is queued for a key that has none.
LEMMA SpawnedOnce ==
    ASSUME NEW slots \in [Slots -> SlotType], p_inflight \subseteq Pool!Keys,
           NEW q \in Seq(Jobs), Places(slots, p_inflight, q), NEW k0 \in Pool!Keys
    PROVE  /\ q \o Pool!Spawned(k0) \in Seq(Jobs)
           /\ Places(slots, p_inflight \union {k0}, q \o Pool!Spawned(k0))
<1>1. CASE k0 \in p_inflight
  <2>1. Pool!Spawned(k0) = <<>> /\ p_inflight \union {k0} = p_inflight /\ q \o <<>> = q
    BY <1>1 DEF Pool!Spawned
  <2> QED BY <2>1
<1>2. CASE k0 \notin p_inflight
  <2>1. Pool!Spawned(k0) = <<Pool!Refresh(k0)>> /\ Pool!Refresh(k0) \in Jobs
    BY <1>2, RefreshesDiffer DEF Pool!Spawned
  <2>2. ASSUME NEW k \in Pool!Keys
        PROVE  Place(slots, p_inflight \union {k0}, q \o <<Pool!Refresh(k0)>>, k)
    <3>1. k = k0 <=> Pool!Refresh(k0) = Pool!Refresh(k)
      BY RefreshesDiffer
    <3>2. Place(slots, p_inflight, q, k)
      BY DEF Places
    <3> QED BY <1>2, <2>1, <3>1, <3>2, Appended DEF Place
  <2> QED BY <2>1, <2>2, Appended DEF Places
<1> QED BY <1>1, <1>2

\* A thread takes a refresh from the head of the queue.
LEMMA TakenUp ==
    ASSUME NEW slots \in [Slots -> SlotType], NEW marked, NEW q \in Seq(Jobs),
           Places(slots, marked, q), q # <<>>, Head(q).kind = "refresh",
           NEW s \in Slots, slots[s].job.kind # "refresh",
           NEW v \in SlotType, v.job = Head(q)
    PROVE  Places([slots EXCEPT ![s] = v], marked, Tail(q))
<1> SUFFICES ASSUME NEW k \in Pool!Keys PROVE Place([slots EXCEPT ![s] = v], marked, Tail(q), k)
  BY DEF Places
<1>1. slots[s].job # Pool!Refresh(k)
  BY RefreshesDiffer
<1>2. Place(slots, marked, q, k)
  BY DEF Places
<1>3. CASE Head(q) = Pool!Refresh(k)
  <2>1. ~NotWaiting(q, k)
    BY <1>3, Taken
  <2>2. k \in marked /\ NotRunning(slots, k) /\ WaitsOnce(q, k)
    BY <1>2, <2>1 DEF Place
  <2>3. RunsOnce([slots EXCEPT ![s] = v], k) /\ NotWaiting(Tail(q), k)
    BY <1>3, <2>2, Switched, Taken
  <2> QED BY <2>2, <2>3 DEF Place
<1>4. CASE Head(q) # Pool!Refresh(k)
  BY <1>1, <1>2, <1>4, Switched, Taken DEF Place
<1> QED BY <1>3, <1>4

\* What goes on alone stays what it is.
LEMMA AloneIsSame ==
    ASSUME NEW j \in Jobs, NEW x
    PROVE  /\ Pool!Alone(j, x) \in Jobs /\ Pool!Alone(j, x).kind = j.kind
           /\ \A k \in Pool!Keys : Pool!Alone(j, x) = Pool!Refresh(k) <=> j = Pool!Refresh(k)
<1>1. CASE j.for # x
  BY <1>1 DEF Pool!Alone
<1>2. CASE j.for = x
  <2>1. Pool!Alone(j, x) = [j EXCEPT !.for = Nobody]
    BY <1>2 DEF Pool!Alone
  <2>2. /\ [j EXCEPT !.for = Nobody] \in Jobs /\ [j EXCEPT !.for = Nobody].kind = j.kind
        /\ [j EXCEPT !.for = Nobody].key = j.key
    BY DEF Jobs, Waiters
  <2> QED BY <2>1, <2>2, RefreshesDiffer
<1> QED BY <1>1, <1>2

LEMMA AllAlone ==
    ASSUME PoolInv, NEW x
    PROVE  /\ Pool!SlotsAlone(x) \in [Slots -> SlotType] /\ Pool!QueueAlone(x) \in Seq(Jobs)
           /\ \A s \in Slots : /\ Pool!SlotsAlone(x)[s].step = p_slot[s].step
                               /\ Pool!SlotsAlone(x)[s].job.kind = p_slot[s].job.kind
                               /\ \A k \in Pool!Keys : Pool!SlotsAlone(x)[s].job = Pool!Refresh(k)
                                                         <=> p_slot[s].job = Pool!Refresh(k)
           /\ Places(Pool!SlotsAlone(x), p_inflight, Pool!QueueAlone(x))
<1>1. p_slot \in [Slots -> SlotType] /\ p_queue \in Seq(Jobs)
  BY DEF PoolInv, PoolTyped
<1>2. ASSUME NEW s \in Slots
      PROVE  /\ Pool!SlotsAlone(x)[s].job = Pool!Alone(p_slot[s].job, x)
             /\ Pool!SlotsAlone(x)[s].step = p_slot[s].step
             /\ Pool!SlotsAlone(x)[s] \in SlotType
  <2>1. p_slot[s] \in SlotType /\ Pool!Alone(p_slot[s].job, x) \in Jobs
    BY <1>1, AloneIsSame DEF SlotType
  <2>2. Pool!SlotsAlone(x)[s] = [p_slot[s] EXCEPT !.job = Pool!Alone(@, x)]
    BY DEF Pool!SlotsAlone
  <2> QED BY <2>1, <2>2 DEF SlotType
<1>3. Pool!SlotsAlone(x) \in [Slots -> SlotType]
  BY <1>2 DEF Pool!SlotsAlone
<1>4. /\ Pool!QueueAlone(x) \in Seq(Jobs) /\ Len(Pool!QueueAlone(x)) = Len(p_queue)
      /\ \A i \in 1 .. Len(p_queue) : /\ Pool!QueueAlone(x)[i] = Pool!Alone(p_queue[i], x)
                                      /\ p_queue[i] \in Jobs
  <2>1. Len(p_queue) \in Nat /\ \A i \in 1 .. Len(p_queue) : p_queue[i] \in Jobs
    BY <1>1
  <2>2. Pool!QueueAlone(x) = [i \in 1 .. Len(p_queue) |-> Pool!Alone(p_queue[i], x)]
    BY DEF Pool!QueueAlone
  <2>3. \A i \in 1 .. Len(p_queue) : Pool!Alone(p_queue[i], x) \in Jobs
    BY <2>1, AloneIsSame
  <2>4. Pool!QueueAlone(x) \in [1 .. Len(p_queue) -> Jobs]
    BY <2>2, <2>3
  <2>5. Pool!QueueAlone(x) \in Seq(Jobs)
    BY <2>1, <2>4, IsASeq
  <2> QED BY <2>1, <2>2, <2>4, <2>5, LenProperties
<1>5. \A s \in Slots : p_slot[s].job \in Jobs
  BY <1>1 DEF SlotType
<1>6. ASSUME NEW k \in Pool!Keys
      PROVE  /\ NotRunning(p_slot, k) => NotRunning(Pool!SlotsAlone(x), k)
             /\ RunsOnce(p_slot, k) => RunsOnce(Pool!SlotsAlone(x), k)
             /\ NotWaiting(p_queue, k) => NotWaiting(Pool!QueueAlone(x), k)
             /\ WaitsOnce(p_queue, k) => WaitsOnce(Pool!QueueAlone(x), k)
  <2>1. \A s \in Slots : Pool!SlotsAlone(x)[s].job = Pool!Refresh(k)
                            <=> p_slot[s].job = Pool!Refresh(k)
    BY <1>2, <1>5, AloneIsSame
  <2>2. \A i \in 1 .. Len(p_queue) : Pool!QueueAlone(x)[i] = Pool!Refresh(k)
                                        <=> p_queue[i] = Pool!Refresh(k)
    BY <1>4, AloneIsSame
  <2> QED BY <1>4, <2>1, <2>2 DEF NotRunning, RunsOnce, NotWaiting, WaitsOnce
<1>7. Places(Pool!SlotsAlone(x), p_inflight, Pool!QueueAlone(x))
  BY <1>6 DEF PoolInv, Places, Place
<1>8. \A s \in Slots : /\ Pool!SlotsAlone(x)[s].job.kind = p_slot[s].job.kind
                       /\ \A k \in Pool!Keys : Pool!SlotsAlone(x)[s].job = Pool!Refresh(k)
                                                 <=> p_slot[s].job = Pool!Refresh(k)
  BY <1>2, <1>5, AloneIsSame
<1> QED BY <1>2, <1>3, <1>4, <1>7, <1>8

\* The end of a job takes the mark of its key, and of the refresh that waits for it.
LEMMA EndKeeps ==
    ASSUME PoolInv, NEW s \in Slots, Pool!End(s), UNCHANGED p_queue
    PROVE  PoolInv'
<1> DEFINE over == {x \in Slots : x = s \/ x = p_slot[s].job.for}
<1>1. /\ p_slot' = [x \in Slots |-> IF x \in over THEN Pool!Free ELSE p_slot[x]]
      /\ p_inflight' = {k \in p_inflight : \A x \in over : p_slot[x].job # Pool!Refresh(k)}
  BY DEF Pool!End
<1> HIDE DEF over
<1>2. PoolTyped'
  BY <1>1, OtherJobs DEF PoolInv, PoolTyped
<1>3. ASSUME NEW k \in Pool!Keys PROVE Place(p_slot, p_inflight, p_queue, k)'
  <2>1. Place(p_slot, p_inflight, p_queue, k)
    BY DEF PoolInv, Places
  <2>2. Pool!Free.job # Pool!Refresh(k)
    BY OtherJobs, RefreshesDiffer
  <2>3. NotRunning(p_slot, k) => NotRunning(p_slot', k)
    BY <1>1, <2>2 DEF NotRunning
  <2>4. CASE \E x \in Slots : x \in over /\ p_slot[x].job = Pool!Refresh(k)
    <3>1. k \notin p_inflight' /\ RunsOnce(p_slot, k) /\ NotWaiting(p_queue, k)
      BY <1>1, <2>1, <2>4 DEF Place, NotRunning
    <3>2. NotRunning(p_slot', k)
      BY <1>1, <2>2, <2>4, <3>1 DEF RunsOnce, NotRunning
    <3> QED BY <3>1, <3>2 DEF Place
  <2>5. CASE \A x \in Slots : x \in over => p_slot[x].job # Pool!Refresh(k)
    <3>1. k \in p_inflight' <=> k \in p_inflight
      BY <1>1, <2>5 DEF over
    <3>2. RunsOnce(p_slot, k) => RunsOnce(p_slot', k)
      BY <1>1, <2>2, <2>5 DEF RunsOnce
    <3> QED BY <2>1, <2>3, <3>1, <3>2 DEF Place
  <2> QED BY <2>4, <2>5
<1> QED BY <1>2, <1>3 DEF PoolInv, Places


\* A thread takes the next job of the queue.
LEMMA StartKeeps ==
    ASSUME PoolInv, NEW s \in Slots, Pool!Start(s)
    PROVE  PoolInv'
<1> DEFINE job == Head(p_queue)
           rest == Tail(p_queue)
<1>1. /\ p_slot \in [Slots -> SlotType] /\ p_queue \in Seq(Jobs) /\ p_inflight \subseteq Pool!Keys
      /\ Places(p_slot, p_inflight, p_queue) /\ p_queue # <<>> /\ p_slot[s] = Pool!Free
  BY DEF PoolInv, PoolTyped, Pool!Start
<1>2. job \in Jobs /\ rest \in Seq(Jobs) /\ rest \o <<>> = rest
  BY <1>1, HeadTailProperties
<1>3. p_slot[s].job.kind # "refresh" /\ p_slot[s].step = "free"
  BY <1>1, OtherJobs
<1>4. ASSUME job.kind = "page", p_queue' = rest \o Pool!Spawned(job.key),
             p_inflight' = p_inflight \union {job.key}, UNCHANGED p_slot, job.key \in Pool!Keys
      PROVE  PoolInv'
  <2>1. Places(p_slot, p_inflight, rest)
    BY <1>1, <1>4, OthersPass
  <2>2. /\ p_queue' \in Seq(Jobs) /\ Places(p_slot, p_inflight', p_queue')
    BY <1>1, <1>2, <1>4, <2>1, SpawnedOnce
  <2> QED BY <1>1, <1>4, <2>2 DEF PoolInv, PoolTyped
<1>5. ASSUME job.kind = "page", p_queue' = rest \o <<>>, UNCHANGED <<p_slot, p_inflight>>
      PROVE  PoolInv'
  <2>1. Places(p_slot, p_inflight, rest)
    BY <1>1, <1>5, OthersPass
  <2> QED BY <1>1, <1>2, <1>5, <2>1 DEF PoolInv, PoolTyped
<1>6. ASSUME job.kind \in {"page", "inner"}, NEW step \in {"fetch", "lock"},
             p_slot' = [p_slot EXCEPT ![s] = [job |-> job, step |-> step]],
             p_queue' = rest \o <<>>, UNCHANGED p_inflight
      PROVE  PoolInv'
  <2>1. Places(p_slot, p_inflight, rest)
    BY <1>1, <1>6, OthersPass
  <2>2. [job |-> job, step |-> step] \in SlotType
    BY <1>2 DEF SlotType, ThreadSteps
  <2>3. Places(p_slot', p_inflight, rest)
    BY <1>1, <1>2, <1>3, <1>6, <2>1, <2>2, OthersPass
  <2> QED BY <1>1, <1>2, <1>6, <2>2, <2>3 DEF PoolInv, PoolTyped
<1>7. ASSUME job.kind = "refresh", NEW step \in {"fetch", "wait"},
             p_slot' = [p_slot EXCEPT ![s] = [job |-> job, step |-> step]],
             UNCHANGED p_inflight
      PROVE  /\ p_slot' \in [Slots -> SlotType] /\ Places(p_slot', p_inflight, rest)
             /\ \A x \in Slots : p_slot'[x].step = "wait" => p_slot'[x].job.kind = "refresh"
  <2>2. [job |-> job, step |-> step] \in SlotType
    BY <1>2 DEF SlotType, ThreadSteps
  <2>3. Places(p_slot', p_inflight, rest)
    BY <1>1, <1>3, <1>7, <2>2, TakenUp
  <2> QED BY <1>1, <1>7, <2>2, <2>3 DEF PoolInv, PoolTyped
<1>8. CASE job.kind = "refresh" /\ job.key \in Pool!Nested
           /\ p_slot' = [p_slot EXCEPT ![s] = [job |-> job, step |-> "wait"]]
           /\ p_queue' = rest \o <<Pool!Inner(job.key, s)>> /\ UNCHANGED p_inflight
  <2>1. Pool!Inner(job.key, s) \in Jobs /\ Pool!Inner(job.key, s).kind # "refresh"
    BY <1>8, OtherJobs DEF Pool!Keys, Waiters
  <2>2. p_slot' \in [Slots -> SlotType] /\ Places(p_slot', p_inflight, rest)
        /\ \A x \in Slots : p_slot'[x].step = "wait" => p_slot'[x].job.kind = "refresh"
    BY <1>7, <1>8
  <2>3. Places(p_slot', p_inflight, p_queue')
    BY <1>2, <1>8, <2>1, <2>2, OthersPass
  <2>4. p_queue' \in Seq(Jobs)
    BY <1>2, <1>8, <2>1, Appended
  <2> QED BY <1>1, <1>8, <2>2, <2>3, <2>4 DEF PoolInv, PoolTyped
<1>9. CASE job.kind = "refresh" /\ p_queue' = rest \o <<>> /\ UNCHANGED p_inflight
           /\ p_slot' = [p_slot EXCEPT ![s] = [job |-> job, step |-> "fetch"]]
  BY <1>1, <1>2, <1>7, <1>9 DEF PoolInv, PoolTyped
<1>10. job.kind = "page" => job.key \in Pool!Keys
  BY <1>2 DEF Jobs
<1> QED BY <1>4, <1>5, <1>6, <1>8, <1>9, <1>10 DEF Pool!Start

\* A step of a behaviour is a step of the fetch pool or leaves it alone.
LEMMA PoolSteps == [MCNext]_allVars => [Pool!Next]_poolVars
<1> SUFFICES ASSUME MCNext PROVE [Pool!Next]_poolVars
  BY DEF allVars, poolVars
<1>1. CASE PoolNext
  BY <1>1 DEF PoolNext, InPool, Pool!Next, Pool!Work
<1>2. CASE StreamNext
  BY <1>2 DEF StreamNext, InStream
<1>3. CASE QuotesNext
  BY <1>3 DEF QuotesNext, InQuotes
<1>4. CASE FunnelNext
  BY <1>4 DEF FunnelNext, InFunnel
<1>5. CASE LedgerNext
  BY <1>5 DEF LedgerNext, InLedger
<1>6. CASE ReadNext
  BY <1>6 DEF ReadNext, InRead
<1> QED BY <1>1, <1>2, <1>3, <1>4, <1>5, <1>6 DEF MCNext

LEMMA PoolInit == MCInit => PoolInv
<1> SUFFICES ASSUME Pool!Init PROVE PoolInv
  BY DEF MCInit
<1>1. p_slot = [s \in Slots |-> Pool!Free] /\ p_queue = <<>> /\ p_inflight = {}
  BY DEF Pool!Init
<1>2. PoolTyped
  BY <1>1, OtherJobs DEF PoolTyped
<1>3. \A k : Pool!Free.job # Pool!Refresh(k)
  BY OtherJobs, RefreshesDiffer
<1>4. Places(p_slot, p_inflight, p_queue)
  BY <1>1, <1>3 DEF Places, Place, NotRunning, NotWaiting
<1> QED BY <1>2, <1>4 DEF PoolInv

LEMMA PoolStepKeeps == PoolInv /\ [Pool!Next]_poolVars => PoolInv'
<1> SUFFICES ASSUME PoolInv, [Pool!Next]_poolVars PROVE PoolInv'
  OBVIOUS
<1>0. /\ p_slot \in [Slots -> SlotType] /\ p_queue \in Seq(Jobs) /\ p_inflight \subseteq Pool!Keys
      /\ Places(p_slot, p_inflight, p_queue)
      /\ \A s \in Slots : p_slot[s].step = "wait" => p_slot[s].job.kind = "refresh"
  BY DEF PoolInv, PoolTyped
<1> USE DEF PoolInv, PoolTyped
<1>1. ASSUME NEW j \in Jobs, j.kind # "refresh", p_queue' = Append(p_queue, j),
             UNCHANGED <<p_slot, p_inflight>>
      PROVE  PoolInv'
  <2>1. p_queue' = p_queue \o <<j>> /\ p_queue' \in Seq(Jobs)
    BY <1>0, <1>1
  <2> QED BY <1>0, <1>1, <2>1, OthersPass
<1>2. ASSUME NEW k \in Pool!Keys, Pool!Spawn(k), UNCHANGED p_slot PROVE PoolInv'
  BY <1>0, <1>2, SpawnedOnce DEF Pool!Spawn
<1>3. ASSUME UNCHANGED <<p_slot, p_queue, p_inflight>> PROVE PoolInv'
  BY <1>0, <1>3
<1>4. ASSUME NEW s \in Slots, NEW step \in ThreadSteps \ {"wait"}, Pool!Go(s, step),
             UNCHANGED <<p_queue, p_inflight>>
      PROVE  PoolInv'
  <2>1. /\ p_slot' \in [Slots -> SlotType]
        /\ \A x \in Slots : p_slot'[x].job = p_slot[x].job
        /\ \A x \in Slots : p_slot'[x].step = "wait" => p_slot[x].step = "wait"
    BY <1>0, <1>4 DEF Pool!Go, SlotType
  <2>2. Places(p_slot', p_inflight, p_queue)
    BY <1>0, <2>1 DEF Places, Place, NotRunning, RunsOnce
  <2> QED BY <1>0, <1>4, <2>1, <2>2
<1>5. ASSUME NEW t \in Tickers, Pool!AskTicker(t) PROVE PoolInv'
  BY <1>1, <1>5, OtherJobs DEF Pool!AskTicker
<1>6. CASE Pool!ShowTape
  BY <1>2, <1>6 DEF Pool!ShowTape, Pool!Keys, Pool!Nested
<1>7. CASE Pool!ShowScreen
  BY <1>2, <1>3, <1>7 DEF Pool!ShowScreen, Pool!Keys, Pool!Nested
<1>8. CASE Pool!ScanAsks
  <2>1. Pool!Inner("screen", Scan) \in Jobs /\ Pool!Inner("screen", Scan).kind = "inner"
    BY OtherJobs DEF Waiters, Pool!Keys, Pool!Nested
  <2> QED BY <1>1, <1>3, <1>8, <2>1 DEF Pool!ScanAsks
<1>9. CASE Pool!ScanGivesUp
  BY <1>0, <1>9, AllAlone DEF Pool!ScanGivesUp
<1>10. ASSUME NEW s \in Slots, Pool!Start(s) PROVE PoolInv'
  BY <1>10, StartKeeps
<1>11. ASSUME NEW s \in Slots, Pool!Fetched(s) \/ Pool!FetchFails(s) PROVE PoolInv'
  BY <1>11, EndKeeps DEF Pool!Fetched, Pool!FetchFails
<1>12. ASSUME NEW s \in Slots, Pool!TakeLock(s) PROVE PoolInv'
  BY <1>4, <1>12, EndKeeps DEF Pool!TakeLock, ThreadSteps
<1>13. ASSUME NEW s \in Slots, Pool!Hang(s) PROVE PoolInv'
  BY <1>4, <1>13 DEF Pool!Hang, ThreadSteps
<1>14. ASSUME NEW s \in Slots, Pool!GiveUp(s) PROVE PoolInv'
  <2> DEFINE slots == Pool!SlotsAlone(s)
             q == Pool!QueueAlone(s)
             k0 == p_slot[s].job.key
  <2>1. /\ p_slot' = [slots EXCEPT ![s] = Pool!Free] /\ p_queue' = q
        /\ p_inflight' = p_inflight \ {k0} /\ p_slot[s].step = "wait"
    BY <1>14 DEF Pool!GiveUp
  <2>2. p_slot[s].job = Pool!Refresh(k0) /\ k0 \in Pool!Keys
    BY <1>0, <2>1, RefreshesDiffer DEF SlotType, Jobs
  <2>3. /\ slots \in [Slots -> SlotType] /\ q \in Seq(Jobs) /\ Places(slots, p_inflight, q)
        /\ \A x \in Slots : slots[x].step = p_slot[x].step
        /\ \A x \in Slots : slots[x].job.kind = p_slot[x].job.kind
        /\ \A x \in Slots, k \in Pool!Keys : slots[x].job = Pool!Refresh(k)
                                               <=> p_slot[x].job = Pool!Refresh(k)
    BY AllAlone
  <2> HIDE DEF slots, q, k0
  <2>4. ASSUME NEW k \in Pool!Keys PROVE Place(p_slot, p_inflight, p_queue, k)'
    <3>1. Place(slots, p_inflight, q, k)
      BY <2>3 DEF Places
    <3>2. Pool!Free.job # Pool!Refresh(k) /\ Pool!Free \in SlotType
      BY OtherJobs, RefreshesDiffer
    <3>3. CASE k = k0
      <4>1. slots[s].job = Pool!Refresh(k)
        BY <2>2, <2>3, <3>3
      <4>2. RunsOnce(slots, k) /\ NotWaiting(q, k)
        BY <3>1, <4>1 DEF Place, NotRunning
      <4>3. NotRunning(p_slot', k)
        BY <2>1, <2>3, <3>2, <4>1, <4>2, Switched
      <4> QED BY <2>1, <3>3, <4>2, <4>3 DEF Place
    <3>4. CASE k # k0
      <4>1. slots[s].job # Pool!Refresh(k)
        BY <2>2, <2>3, <3>4, RefreshesDiffer
      <4> QED BY <2>1, <2>3, <3>1, <3>2, <3>4, <4>1, Switched DEF Place
    <3> QED BY <3>3, <3>4
  <2>5. PoolTyped'
    BY <1>0, <2>1, <2>3, OtherJobs
  <2> QED BY <2>4, <2>5 DEF Places
<1>15. ASSUME NEW k \in Pool!Keys, Pool!Older(k) PROVE PoolInv'
  BY <1>3, <1>15 DEF Pool!Older
<1>16. CASE Pool!Forget \/ Pool!OtherTakesLock \/ Pool!OtherScreens
  BY <1>3, <1>16 DEF Pool!Forget, Pool!OtherTakesLock, Pool!OtherScreens
<1>17. CASE UNCHANGED poolVars
  BY <1>3, <1>17 DEF poolVars
<1> QED BY <1>5, <1>6, <1>7, <1>8, <1>9, <1>10, <1>11, <1>12, <1>13, <1>14, <1>15, <1>16, <1>17
        DEF Pool!Next, Pool!Work

\* For any number of threads, tickers and waiting jobs, with fetches that fail,
\* hang and outlive those who wait for them: a key is marked as being refreshed
\* exactly while one refresh of it waits or runs.
THEOREM OneRefreshAlways == MCSpec => []OneRefreshPerKey
BY PlacesCounted, PoolInit, PoolSteps, PoolStepKeeps, PTL DEF MCSpec

-----------------------------------------------------------------------------
(* The read cache. *)

Entries == [stamp : Nat, generation : Nat, value : Nat, held : BOOLEAN]
ReaderType == [step : {"idle", "stat", "read", "check", "keep", "done"}, floor : Nat,
               generation : Nat, stamp : Nat, value : Nat]
WriterType == [step : {"idle", "pop", "count", "forget"}, version : Nat, generation : Nat]

ReadTyped ==
    /\ file \in [version : Nat, stamp : Nat] /\ file.stamp <= file.version
    /\ cache \in [Procs -> Entries]
    /\ generation \in [Procs -> Nat] /\ known \in [Procs -> Nat]
    /\ reader \in [Readers -> ReaderType] /\ writer \in [Writers -> WriterType]
    /\ \A p \in Procs : known[p] <= file.version
    /\ \A w \in Writers : writer[w].version <= file.version

\* Writers take turns, so no count of one is lost to another.
WritersInTurn ==
    /\ \A v, w \in Writers : writer[v].step # "idle" /\ writer[w].step # "idle" => v = w
    /\ \A w \in Writers : writer[w].step = "forget" =>
          writer[w].generation = generation[Home[w]]

\* A copy of the file was read when it had the stamp or later, and the process
\* counted this generation: unless the file or the process went on since, it is
\* as new as the process has to know, and as new as a load that may take it asks.
Copy(c, p) ==
    /\ c.stamp <= file.stamp /\ c.generation <= generation[p]
    /\ c.stamp = file.stamp /\ c.generation = generation[p] => c.value >= known[p]
    /\ \A r \in Readers :
          Home[r] = p /\ reader[r].step = "stat"
            /\ c.stamp = file.stamp /\ c.generation = reader[r].generation
          => c.value >= reader[r].floor

CopiesAreRecent ==
    /\ \A p \in Procs : cache[p].held => Copy(cache[p], p)
    /\ \A r \in Readers : reader[r].step \in {"check", "keep"} => Copy(reader[r], Home[r])

LoadsKeepUp ==
    \A r \in Readers :
        /\ reader[r].step \in {"stat", "read"} =>
              reader[r].floor <= known[Home[r]] /\ reader[r].generation <= generation[Home[r]]
        /\ reader[r].step = "read" => reader[r].stamp <= file.stamp
        /\ reader[r].step \in {"check", "keep", "done"} => reader[r].value >= reader[r].floor

ReadInv == ReadTyped /\ WritersInTurn /\ CopiesAreRecent /\ LoadsKeepUp

\* A step of a behaviour is a step of the read cache or leaves it alone.
LEMMA ReadSteps == [MCNext]_allVars => [Next]_readVars
<1> SUFFICES ASSUME MCNext PROVE [Next]_readVars
  BY DEF allVars, readVars
<1>1. CASE ReadNext
  BY <1>1 DEF ReadNext, InRead, Next
<1>2. CASE StreamNext
  BY <1>2 DEF StreamNext, InStream
<1>3. CASE QuotesNext
  BY <1>3 DEF QuotesNext, InQuotes
<1>4. CASE PoolNext
  BY <1>4 DEF PoolNext, InPool
<1>5. CASE FunnelNext
  BY <1>5 DEF FunnelNext, InFunnel
<1>6. CASE LedgerNext
  BY <1>6 DEF LedgerNext, InLedger
<1> QED BY <1>1, <1>2, <1>3, <1>4, <1>5, <1>6 DEF MCNext

LEMMA ReadInit == MCInit => ReadInv
<1> SUFFICES ASSUME Init PROVE ReadInv
  BY DEF MCInit
<1> USE DEF Init, NoEntry, NewReader, NewWriter
<1>1. ReadTyped
  BY DEF ReadTyped, Entries, ReaderType, WriterType
<1>2. WritersInTurn /\ CopiesAreRecent /\ LoadsKeepUp
  BY DEF WritersInTurn, CopiesAreRecent, LoadsKeepUp
<1> QED BY <1>1, <1>2 DEF ReadInv

LEMMA StartedReader ==
    ASSUME NEW f \in Nat, NEW g \in Nat
    PROVE  [NewReader EXCEPT !.step = "stat", !.floor = f, !.generation = g]
             = [step |-> "stat", floor |-> f, generation |-> g, stamp |-> 0, value |-> 0]
<1> DEFINE a == [NewReader EXCEPT !.step = "stat", !.floor = f, !.generation = g]
<1>1. NewReader \in ReaderType
  BY DEF NewReader, ReaderType
<1>2. a \in ReaderType
  BY <1>1 DEF ReaderType
<1>3. a.step = "stat" /\ a.floor = f /\ a.generation = g /\ a.stamp = 0 /\ a.value = 0
  BY DEF NewReader
<1> HIDE DEF a
<1>4. a = [step |-> "stat", floor |-> f, generation |-> g, stamp |-> 0, value |-> 0]
  BY <1>2, <1>3 DEF ReaderType
<1> QED BY <1>4 DEF a

\* The steps of a load write nothing but what the process remembers.
LEMMA LoadKeeps ==
    ASSUME ReadInv, NEW r \in Readers,
           Load(r) \/ Stat(r) \/ Read(r) \/ Check(r) \/ Keep(r)
    PROVE  ReadInv'
<1> USE ReadCacheAssumption
<1> DEFINE p == Home[r]
<1>0. /\ p \in Procs /\ reader[r] \in ReaderType /\ cache[p] \in Entries
      /\ known[p] \in Nat /\ generation[p] \in Nat /\ file.version \in Nat /\ file.stamp \in Nat
  BY DEF ReadInv, ReadTyped
<1>1. UNCHANGED <<file, generation, known, writer>>
  BY DEF Load, Stat, Read, Check, Keep
<1>2. WritersInTurn'
  BY <1>1 DEF ReadInv, WritersInTurn
<1>3. CASE Load(r)
  <2>1. /\ reader' = [reader EXCEPT ![r] = [step |-> "stat", floor |-> known[p],
              generation |-> generation[p], stamp |-> 0, value |-> 0]]
        /\ UNCHANGED cache
    <3>1. [NewReader EXCEPT !.step = "stat", !.floor = known[p], !.generation = generation[p]]
            = [step |-> "stat", floor |-> known[p], generation |-> generation[p],
               stamp |-> 0, value |-> 0]
      BY <1>0, StartedReader
    <3> QED BY <1>3, <3>1 DEF Load
  <2>2. ReadTyped'
    BY <1>0, <1>1, <2>1 DEF ReadInv, ReadTyped, ReaderType
  <2>3. LoadsKeepUp'
    BY <1>0, <1>1, <2>1 DEF ReadInv, LoadsKeepUp, ReadTyped, ReaderType
  <2>4. ASSUME NEW c, NEW q, Copy(c, q) PROVE
          /\ c.stamp <= file.stamp /\ c.generation <= generation[q]
          /\ c.stamp = file.stamp /\ c.generation = generation[q] => c.value >= known[q]
          /\ \A x \in Readers :
                Home[x] = q /\ reader'[x].step = "stat"
                  /\ c.stamp = file.stamp /\ c.generation = reader'[x].generation
                => c.value >= reader'[x].floor
    BY <1>0, <2>1, <2>4 DEF Copy, ReadInv, ReadTyped
  <2>5. CopiesAreRecent'
    BY <1>1, <2>1, <2>4 DEF ReadInv, CopiesAreRecent, Copy, ReadTyped
  <2> QED BY <1>2, <2>2, <2>3, <2>5 DEF ReadInv
<1>4. CASE Stat(r)
  <2>1. UNCHANGED cache /\ reader[r].step = "stat"
    BY <1>4 DEF Stat
  <2>2. CASE Hit(r, file.stamp)
    <3>1. reader' = [reader EXCEPT ![r] = [@ EXCEPT !.step = "done", !.value = cache[p].value]]
      BY <1>4, <2>2 DEF Stat
    <3>2. cache[p].value >= reader[r].floor
      BY <1>0, <2>1, <2>2 DEF Hit, ReadInv, CopiesAreRecent, Copy
    <3>3. ReadTyped'
      BY <1>0, <1>1, <2>1, <3>1 DEF ReadInv, ReadTyped, ReaderType, Entries
    <3>4. LoadsKeepUp'
      BY <1>0, <1>1, <2>1, <3>1, <3>2 DEF ReadInv, LoadsKeepUp, ReadTyped, ReaderType
    <3>5. CopiesAreRecent'
      BY <1>0, <1>1, <2>1, <3>1 DEF ReadInv, CopiesAreRecent, Copy, ReadTyped, ReaderType
    <3> QED BY <1>2, <3>3, <3>4, <3>5 DEF ReadInv
  <2>3. CASE ~Hit(r, file.stamp)
    <3>1. reader' = [reader EXCEPT ![r] = [@ EXCEPT !.step = "read", !.stamp = file.stamp]]
      BY <1>4, <2>3 DEF Stat
    <3>3. ReadTyped'
      BY <1>0, <1>1, <2>1, <3>1 DEF ReadInv, ReadTyped, ReaderType, Entries
    <3>4. LoadsKeepUp'
      BY <1>0, <1>1, <2>1, <3>1 DEF ReadInv, LoadsKeepUp, ReadTyped, ReaderType
    <3>5. CopiesAreRecent'
      BY <1>0, <1>1, <2>1, <3>1 DEF ReadInv, CopiesAreRecent, Copy, ReadTyped, ReaderType
    <3> QED BY <1>2, <3>3, <3>4, <3>5 DEF ReadInv
  <2> QED BY <2>2, <2>3
<1>5. CASE Read(r)
  <2>1. /\ reader[r].step = "read" /\ UNCHANGED cache
        /\ reader' = [reader EXCEPT ![r].step = "check", ![r].value = file.version]
    BY <1>5 DEF Read
  <2>2. ReadTyped'
    BY <1>0, <1>1, <2>1 DEF ReadInv, ReadTyped, ReaderType
  <2>3. /\ reader'[r] \in ReaderType /\ reader'[r].step = "check" /\ reader'[r].value = file.version
        /\ reader'[r].stamp = reader[r].stamp /\ reader'[r].generation = reader[r].generation
        /\ reader'[r].floor = reader[r].floor
        /\ \A x \in Readers : x # r => reader'[x] = reader[x]
    BY <1>0, <2>1 DEF ReadInv, ReadTyped, ReaderType
  <2>4. LoadsKeepUp'
    BY <1>0, <1>1, <2>1, <2>3 DEF ReadInv, LoadsKeepUp, ReadTyped, ReaderType
  <2>5. \A x \in Readers : reader'[x].step = "stat" =>
          reader'[x] = reader[x] /\ file.version >= reader[x].floor
    BY <1>0, <2>3, ReadCacheAssumption DEF ReadInv, LoadsKeepUp, ReadTyped, ReaderType
  <2>6. Copy(reader[r], p)'
    BY <1>0, <1>1, <2>1, <2>3, <2>5 DEF Copy, ReadInv, LoadsKeepUp, ReadTyped, ReaderType
  <2>7. ASSUME NEW q \in Procs, cache'[q].held PROVE Copy(cache[q], q)'
    <3>1. Copy(cache[q], q)
      BY <2>1, <2>7 DEF ReadInv, CopiesAreRecent
    <3> QED BY <1>1, <2>1, <2>5, <3>1 DEF Copy
  <2>8. ASSUME NEW x \in Readers, reader'[x].step \in {"check", "keep"}
        PROVE  Copy(reader[x], Home[x])'
    <3>1. CASE x = r
      BY <2>6, <3>1
    <3>2. CASE x # r
      <4>1. Copy(reader[x], Home[x]) /\ reader'[x] = reader[x]
        BY <2>3, <2>8, <3>2 DEF ReadInv, CopiesAreRecent
      <4> QED BY <1>1, <2>5, <4>1 DEF Copy
    <3> QED BY <3>1, <3>2
  <2>9. CopiesAreRecent'
    BY <2>7, <2>8 DEF CopiesAreRecent
  <2> QED BY <1>2, <2>2, <2>4, <2>9 DEF ReadInv
<1>6. CASE Check(r)
  <2>1. /\ reader[r].step = "check" /\ UNCHANGED cache
        /\ reader' = [reader EXCEPT ![r].step = IF Unchanged(r) THEN "keep" ELSE "done"]
    BY <1>6 DEF Check
  <2>2. ReadTyped'
    BY <1>0, <1>1, <2>1 DEF ReadInv, ReadTyped, ReaderType
  <2>3. LoadsKeepUp'
    BY <1>0, <1>1, <2>1 DEF ReadInv, LoadsKeepUp, ReadTyped, ReaderType
  <2>4. CopiesAreRecent'
    BY <1>0, <1>1, <2>1 DEF ReadInv, CopiesAreRecent, Copy, ReadTyped, ReaderType
  <2> QED BY <1>2, <2>2, <2>3, <2>4 DEF ReadInv
<1>7. CASE Keep(r)
  <2>1. /\ reader[r].step = "keep" /\ reader' = [reader EXCEPT ![r].step = "done"]
        /\ cache' = [cache EXCEPT ![p] =
             [stamp |-> reader[r].stamp, generation |-> reader[r].generation,
              value |-> reader[r].value, held |-> TRUE]]
    BY <1>7 DEF Keep
  <2>2. ReadTyped'
    BY <1>0, <1>1, <2>1 DEF ReadInv, ReadTyped, ReaderType, Entries
  <2>3. LoadsKeepUp'
    BY <1>0, <1>1, <2>1 DEF ReadInv, LoadsKeepUp, ReadTyped, ReaderType
  <2>4. CopiesAreRecent'
    BY <1>0, <1>1, <2>1 DEF ReadInv, CopiesAreRecent, Copy, ReadTyped, ReaderType
  <2> QED BY <1>2, <2>2, <2>3, <2>4 DEF ReadInv
<1> QED BY <1>3, <1>4, <1>5, <1>6, <1>7

\* A replacement of the file makes every copy with another stamp unusable, a
\* count every copy of the generations before.
LEMMA WriteKeeps ==
    ASSUME ReadInv, OneWriter, NEW w \in Writers,
           Replace(w) \/ Pop(w) \/ Count(w) \/ Forget(w)
    PROVE  ReadInv'
<1> USE ReadCacheAssumption
<1> DEFINE p == Home[w]
<1>0. /\ p \in Procs /\ writer[w] \in WriterType /\ cache[p] \in Entries
      /\ known[p] \in Nat /\ generation[p] \in Nat /\ file.version \in Nat /\ file.stamp \in Nat
      /\ file.stamp <= file.version
  BY DEF ReadInv, ReadTyped
<1>1. UNCHANGED reader
  BY DEF Replace, Pop, Count, Forget
<1>2. CASE Replace(w)
  <2>1. PICK stamp \in {file.version + 1} \union (IF KeepsStamp THEN {file.stamp} ELSE {}) :
          /\ file' = [version |-> file.version + 1, stamp |-> stamp]
          /\ known' = [q \in Procs |-> IF stamp = file.stamp THEN known[q] ELSE file.version + 1]
    BY <1>2 DEF Replace
  <2>2. /\ writer' = [writer EXCEPT ![w] =
              [step |-> "pop", version |-> file.version + 1, generation |-> 0]]
        /\ UNCHANGED <<cache, generation>>
        /\ \A other \in Writers : writer[other].step = "idle"
    BY <1>2 DEF Replace
  <2>3. /\ file'.version = file.version + 1 /\ file'.stamp = stamp /\ stamp \in Nat
        /\ \/ stamp = file.stamp /\ known' = known
           \/ stamp = file.version + 1 /\ known' = [q \in Procs |-> file.version + 1]
    <3>1. known \in [Procs -> Nat]
      BY DEF ReadInv, ReadTyped
    <3>2. CASE stamp = file.stamp
      BY <1>0, <2>1, <3>1, <3>2
    <3>3. CASE stamp # file.stamp
      BY <1>0, <2>1, <3>3
    <3> QED BY <3>2, <3>3
  <2>4. ReadTyped'
    BY <1>0, <1>1, <2>1, <2>2, <2>3 DEF ReadInv, ReadTyped, WriterType
  <2>5. WritersInTurn'
    BY <1>0, <2>2 DEF ReadInv, ReadTyped, WritersInTurn, WriterType
  <2>6. \A q \in Procs : known[q] <= known'[q]
    BY <1>0, <2>3 DEF ReadInv, ReadTyped
  <2>7. LoadsKeepUp'
    BY <1>0, <1>1, <2>2, <2>3, <2>6 DEF ReadInv, LoadsKeepUp, ReadTyped, ReaderType
  <2>8. ASSUME NEW q \in Procs, NEW c, c.stamp \in Nat, Copy(c, q)
        PROVE  /\ c.stamp <= file'.stamp /\ c.generation <= generation'[q]
               /\ c.stamp = file'.stamp /\ c.generation = generation'[q] => c.value >= known'[q]
               /\ \A x \in Readers :
                     Home[x] = q /\ reader[x].step = "stat"
                       /\ c.stamp = file'.stamp /\ c.generation = reader[x].generation
                     => c.value >= reader[x].floor
    BY <1>0, <2>2, <2>3, <2>8 DEF Copy
  <2>9. CopiesAreRecent'
    <3>1. ASSUME NEW q \in Procs, cache'[q].held PROVE Copy(cache[q], q)'
      <4>1. Copy(cache[q], q) /\ cache[q].stamp \in Nat
        BY <2>2, <3>1 DEF ReadInv, CopiesAreRecent, ReadTyped, Entries
      <4> QED BY <1>1, <2>2, <2>8, <4>1 DEF Copy
    <3>2. ASSUME NEW x \in Readers, reader'[x].step \in {"check", "keep"}
          PROVE  Copy(reader[x], Home[x])'
      <4>1. Copy(reader[x], Home[x]) /\ reader[x].stamp \in Nat /\ Home[x] \in Procs
        BY <1>1, <3>2 DEF ReadInv, CopiesAreRecent, ReadTyped, ReaderType
      <4> QED BY <1>1, <2>8, <4>1 DEF Copy
    <3> QED BY <3>1, <3>2 DEF CopiesAreRecent
  <2> QED BY <2>4, <2>5, <2>7, <2>9 DEF ReadInv
<1>3. CASE Pop(w)
  <2>1. /\ writer[w].step = "pop" /\ writer' = [writer EXCEPT ![w].step = "count"]
        /\ cache' = [cache EXCEPT ![p] = NoEntry] /\ UNCHANGED <<file, generation, known>>
    BY <1>3 DEF Pop
  <2>2. ReadTyped'
    BY <1>0, <1>1, <2>1 DEF ReadInv, ReadTyped, WriterType, Entries, NoEntry
  <2>3. WritersInTurn'
    BY <1>0, <2>1 DEF ReadInv, ReadTyped, WritersInTurn, WriterType
  <2>4. CopiesAreRecent'
    BY <1>0, <1>1, <2>1 DEF ReadInv, CopiesAreRecent, Copy, ReadTyped, NoEntry
  <2>5. LoadsKeepUp'
    BY <1>1, <2>1 DEF ReadInv, LoadsKeepUp
  <2> QED BY <2>2, <2>3, <2>4, <2>5 DEF ReadInv
<1>4. CASE Count(w)
  <2>1. /\ writer[w].step = "count"
        /\ writer' = [writer EXCEPT ![w].step = "forget", ![w].generation = generation[p]]
        /\ UNCHANGED <<file, cache, generation, known>>
    BY <1>4 DEF Count
  <2>2. ReadTyped'
    BY <1>0, <1>1, <2>1 DEF ReadInv, ReadTyped, WriterType
  <2>3. WritersInTurn'
    BY <1>0, <2>1 DEF ReadInv, ReadTyped, WritersInTurn, WriterType
  <2>4. CopiesAreRecent' /\ LoadsKeepUp'
    BY <1>1, <2>1 DEF ReadInv, CopiesAreRecent, LoadsKeepUp, Copy
  <2> QED BY <2>2, <2>3, <2>4 DEF ReadInv
<1>5. CASE Forget(w)
  <2>1. /\ writer[w].step = "forget" /\ writer' = [writer EXCEPT ![w] = NewWriter]
        /\ generation' = [generation EXCEPT ![p] = writer[w].generation + 1]
        /\ known' = [known EXCEPT ![p] = IF @ < writer[w].version THEN writer[w].version ELSE @]
        /\ UNCHANGED <<file, cache>>
    BY <1>5 DEF Forget
  <2>2. /\ generation'[p] = generation[p] + 1
        /\ \A q \in Procs : q # p => generation'[q] = generation[q] /\ known'[q] = known[q]
        /\ \A q \in Procs : generation[q] <= generation'[q] /\ known[q] <= known'[q]
                            /\ known'[q] <= file.version
    BY <1>0, <2>1 DEF ReadInv, ReadTyped, WritersInTurn, WriterType
  <2>3. ReadTyped'
    BY <1>0, <1>1, <2>1, <2>2 DEF ReadInv, ReadTyped, WriterType, NewWriter
  <2>4. WritersInTurn'
    BY <1>0, <2>1, <2>2 DEF ReadInv, ReadTyped, WritersInTurn, WriterType, NewWriter
  <2>5. LoadsKeepUp'
    BY <1>0, <1>1, <2>1, <2>2, <2>3 DEF ReadInv, LoadsKeepUp, ReadTyped, ReaderType
  <2>6. ASSUME NEW q \in Procs, NEW c, c.generation \in Nat, Copy(c, q)
        PROVE  /\ c.stamp <= file.stamp /\ c.generation <= generation'[q]
               /\ c.stamp = file.stamp /\ c.generation = generation'[q] => c.value >= known'[q]
               /\ \A x \in Readers :
                     Home[x] = q /\ reader[x].step = "stat"
                       /\ c.stamp = file.stamp /\ c.generation = reader[x].generation
                     => c.value >= reader[x].floor
    <3>1. CASE q = p
      BY <1>0, <2>2, <2>6, <3>1 DEF Copy
    <3>2. CASE q # p
      BY <2>2, <2>6, <3>2 DEF Copy
    <3> QED BY <3>1, <3>2
  <2>7. CopiesAreRecent'
    <3>1. ASSUME NEW q \in Procs, cache'[q].held PROVE Copy(cache[q], q)'
      <4>1. Copy(cache[q], q) /\ cache[q].generation \in Nat
        BY <2>1, <3>1 DEF ReadInv, CopiesAreRecent, ReadTyped, Entries
      <4> QED BY <1>1, <2>1, <2>6, <4>1 DEF Copy
    <3>2. ASSUME NEW x \in Readers, reader'[x].step \in {"check", "keep"}
          PROVE  Copy(reader[x], Home[x])'
      <4>1. Copy(reader[x], Home[x]) /\ reader[x].generation \in Nat /\ Home[x] \in Procs
        BY <1>1, <3>2 DEF ReadInv, CopiesAreRecent, ReadTyped, ReaderType
      <4> QED BY <1>1, <2>1, <2>6, <4>1 DEF Copy
    <3> QED BY <3>1, <3>2 DEF CopiesAreRecent
  <2> QED BY <2>3, <2>4, <2>5, <2>7 DEF ReadInv
<1> QED BY <1>2, <1>3, <1>4, <1>5

LEMMA ReadStepKeeps == ASSUME OneWriter PROVE ReadInv /\ [Next]_readVars => ReadInv'
<1>1. CASE UNCHANGED readVars
  BY <1>1 DEF readVars, vars, ReadInv, ReadTyped, WritersInTurn, CopiesAreRecent, Copy, LoadsKeepUp
<1> QED BY <1>1, LoadKeeps, WriteKeeps DEF Next

\* With the writers of a file taking turns, whatever a replacement leaves of
\* the file's stamp and however loads, writes and processes interleave, a load
\* returns nothing older than what its process had to know of when it began.
THEOREM ReadsAreAlwaysRecent == ASSUME OneWriter PROVE MCSpec => []ReadsAreRecent
<1>1. ReadInv => ReadsAreRecent
  BY DEF ReadInv, LoadsKeepUp, ReadsAreRecent
<1> QED BY <1>1, ReadInit, ReadSteps, ReadStepKeeps, PTL DEF MCSpec

-----------------------------------------------------------------------------
(* The monitors: their heartbeat files, their turns and their locks.       *)

\* A step of the run is a step of the files, of the turns, or of neither.
LEMMA FilesSteps == [MonitorsNext]_monitorVars => [Beats!Next]_(Beats!vars)
<1> SUFFICES ASSUME MonitorsNext PROVE [Beats!Next]_(Beats!vars)
  BY DEF monitorVars, beatVars, Beats!vars
<1>1. CASE FilesNext
  BY <1>1 DEF FilesNext, InFiles, Beats!Next, Beats!FileStep
<1>2. CASE TurnsNext
  BY <1>2 DEF TurnsNext, InTurns, beatVars, Beats!vars
<1> QED BY <1>1, <1>2 DEF MonitorsNext

LEMMA TurnsSteps == [MonitorsNext]_monitorVars => [Turns!Next]_(Turns!vars)
<1> SUFFICES ASSUME MonitorsNext PROVE [Turns!Next]_(Turns!vars)
  BY DEF monitorVars, turnVars, Turns!vars
<1>1. CASE TurnsNext
  BY <1>1 DEF TurnsNext, InTurns, Turns!Next, Turns!Step
<1>2. CASE FilesNext
  BY <1>2 DEF FilesNext, InFiles, turnVars, Turns!vars
<1> QED BY <1>1, <1>2 DEF MonitorsNext

-----------------------------------------------------------------------------
(* The heartbeat files. *)

\* A file f is honest when a start was really stamped b ago and a run really
\* completed d ago: its stamps are no younger, and what it names is stamped.
Honest(f, b, d) ==
    /\ f.startedAge >= b /\ f.completedAge >= d
    /\ f.matched => f.completedAge # Beats!Never
    /\ f.started # NoRun => f.startedAge # Beats!Never

\* The inductive invariant: the file is honest, and so is what the requests
\* that are about to write it back have read of it; one that is about to
\* record its completion has only just finished.
FilesAreHonest ==
    /\ Beats!TypeOK
    /\ Honest(h_file, h_begun, h_done)
    /\ \A r \in Runs : h_run[r].pc \in {"stamp", "record"} =>
           Honest(h_run[r].copy, h_begun, h_done)
    /\ \A r \in Runs : h_run[r].pc = "record" => h_run[r].copy.started = r /\ h_done = 0

\* An age grows by at most one, stays an age and never becomes Never.
LEMMA OlderIsAge ==
    ASSUME Beats!BeatConstants, NEW a \in Beats!Ages
    PROVE  /\ Beats!Older(a) \in Beats!Ages
           /\ Beats!Older(a) = Beats!Never <=> a = Beats!Never
BY DEF Beats!BeatConstants, Beats!Older, Beats!Ages, Beats!Never

\* Of two ages the greater one stays the greater one.
LEMMA OlderIsMonotone ==
    ASSUME Beats!BeatConstants, NEW a \in Beats!Ages, NEW b \in Beats!Ages, a >= b
    PROVE  Beats!Older(a) >= Beats!Older(b)
BY DEF Beats!BeatConstants, Beats!Older, Beats!Ages, Beats!Never

\* Zero and Never are ages; an idle request and an empty file are typed.
LEMMA BeatTypes ==
    ASSUME Beats!BeatConstants
    PROVE  /\ 0 \in Beats!Ages /\ Beats!Never \in Beats!Ages /\ 0 # Beats!Never
           /\ \A a \in Beats!Ages : a \in Nat /\ a >= 0 /\ Beats!Never >= a
           /\ Beats!NoFile \in Beats!File /\ Beats!Idle \in [pc : Beats!Stages, copy : Beats!File]
BY DEF Beats!BeatConstants, Beats!NoFile, Beats!File, Beats!Idle, Beats!Stages, Beats!Ages,
       Beats!Never

\* Every file starts honest.
LEMMA InitHonest ==
    ASSUME Beats!BeatConstants PROVE Beats!Init => FilesAreHonest
<1> SUFFICES ASSUME Beats!Init PROVE FilesAreHonest
  OBVIOUS
<1>1. Beats!TypeOK
  BY BeatTypes DEF Beats!BeatConstants, Beats!Init, Beats!TypeOK, Beats!Kinds
<1>2. Honest(h_file, h_begun, h_done)
  BY BeatTypes DEF Beats!BeatConstants, Beats!Init, Honest, Beats!NoFile, Beats!Ages
<1>3. \A r \in Runs : h_run[r].pc = "idle"
  BY DEF Beats!Init, Beats!Idle
<1> QED BY <1>1, <1>2, <1>3 DEF FilesAreHonest

\* A start that is stamped leaves an honest file.
LEMMA StartedHonest ==
    ASSUME Beats!BeatConstants,
           NEW r \in Runs, NEW f \in Beats!File, NEW b \in Beats!Ages, NEW d \in Beats!Ages,
           Honest(f, b, d)
    PROVE  LET g == [f EXCEPT !.started = r, !.startedAge = 0, !.matched = FALSE]
           IN  g \in Beats!File /\ Honest(g, 0, d)
BY BeatTypes DEF Beats!BeatConstants, Honest, Beats!File, Beats!NoFile

\* So does a completion of the run the file names.
LEMMA CompletedHonest ==
    ASSUME Beats!BeatConstants,
           NEW r \in Runs, NEW f \in Beats!File, NEW b \in Beats!Ages, Honest(f, b, 0),
           f.started = r
    PROVE  LET g == [f EXCEPT !.completedAge = 0, !.matched = TRUE]
           IN  g \in Beats!File /\ Honest(g, b, 0)
BY BeatTypes DEF Beats!BeatConstants, Honest, Beats!File, Beats!NoFile

\* A file grows older no faster than what it tells of.
LEMMA AgedHonest ==
    ASSUME Beats!BeatConstants,
           NEW f \in Beats!File, NEW b \in Beats!Ages, NEW d \in Beats!Ages, Honest(f, b, d)
    PROVE  LET g == [f EXCEPT !.startedAge = Beats!Older(@), !.completedAge = Beats!Older(@)]
           IN  g \in Beats!File /\ Honest(g, Beats!Older(b), Beats!Older(d))
<1> DEFINE g == [f EXCEPT !.startedAge = Beats!Older(@), !.completedAge = Beats!Older(@)]
<1>1. /\ g.startedAge = Beats!Older(f.startedAge) /\ g.completedAge = Beats!Older(f.completedAge)
      /\ g.started = f.started /\ g.matched = f.matched
      /\ f.startedAge \in Beats!Ages /\ f.completedAge \in Beats!Ages
  BY DEF Beats!File
<1>2. g \in Beats!File
  BY <1>1, OlderIsAge DEF Beats!File
<1>3. g.startedAge >= Beats!Older(b) /\ g.completedAge >= Beats!Older(d)
  BY <1>1, OlderIsMonotone DEF Honest
<1>4. /\ g.matched => g.completedAge # Beats!Never
      /\ g.started # NoRun => g.startedAge # Beats!Never
  BY <1>1, OlderIsAge DEF Honest
<1> QED BY <1>2, <1>3, <1>4 DEF Honest

\* Every step keeps the files honest.
LEMMA NextHonest ==
    ASSUME Beats!BeatConstants
    PROVE  FilesAreHonest /\ [Beats!Next]_(Beats!vars) => FilesAreHonest'
<1> SUFFICES ASSUME FilesAreHonest, [Beats!Next]_(Beats!vars) PROVE FilesAreHonest'
  OBVIOUS
<1> USE BeatTypes DEF Beats!BeatConstants
<1>0. Beats!TypeOK /\ h_begun \in Beats!Ages /\ h_done \in Beats!Ages
  BY DEF FilesAreHonest, Beats!TypeOK
<1>1. ASSUME NEW r \in Runs, Beats!ReadStart(r) PROVE FilesAreHonest'
  BY <1>1 DEF Beats!ReadStart, Beats!Enter, FilesAreHonest, Beats!TypeOK, Beats!Stages
<1>2. ASSUME NEW r \in Runs, Beats!RecordStarted(r) PROVE FilesAreHonest'
  <2>1. h_run[r].copy \in Beats!File /\ Honest(h_run[r].copy, h_begun, h_done)
    BY <1>2 DEF Beats!RecordStarted, FilesAreHonest, Beats!TypeOK
  <2>2. h_file' \in Beats!File /\ Honest(h_file', 0, h_done)
    BY <2>1, <1>0, <1>2, StartedHonest DEF Beats!RecordStarted
  <2>3. h_run' \in [Runs -> [pc : Beats!Stages, copy : Beats!File]]
    BY <1>2 DEF Beats!RecordStarted, Beats!Enter, FilesAreHonest, Beats!TypeOK, Beats!Stages
  <2>4. \A s \in Runs : h_run'[s].pc \in {"stamp", "record"} => h_run'[s] = h_run[s]
    BY <1>2 DEF Beats!RecordStarted, Beats!Enter, FilesAreHonest, Beats!TypeOK
  <2>5. \A f \in Beats!File : Honest(f, h_begun, h_done) => Honest(f, 0, h_done)
    BY DEF Honest, Beats!File
  <2>6. Beats!TypeOK' /\ h_begun' = 0 /\ h_done' = h_done
    BY <1>2, <2>2, <2>3 DEF Beats!RecordStarted, FilesAreHonest, Beats!TypeOK
  <2>7. \A s \in Runs : h_run'[s].pc \in {"stamp", "record"} => Honest(h_run'[s].copy, 0, h_done)
    BY <2>4, <2>5 DEF FilesAreHonest, Beats!TypeOK
  <2>8. \A s \in Runs : h_run'[s].pc = "record" => h_run'[s].copy.started = s /\ h_done = 0
    BY <2>4 DEF FilesAreHonest
  <2> QED BY <2>2, <2>6, <2>7, <2>8 DEF FilesAreHonest
<1>3. ASSUME NEW r \in Runs, Beats!EnterTick(r) PROVE FilesAreHonest'
  BY <1>3 DEF Beats!EnterTick, Beats!Enter, FilesAreHonest, Beats!TypeOK, Beats!Stages
<1>4. ASSUME NEW r \in Runs, Beats!TickAlreadyRunning(r) PROVE FilesAreHonest'
  BY <1>4 DEF Beats!TickAlreadyRunning, Beats!Finish, FilesAreHonest, Beats!TypeOK, Beats!Idle
<1>5. ASSUME NEW r \in Runs, Beats!ReadCompletion(r) PROVE FilesAreHonest'
  <2>1. h_run' \in [Runs -> [pc : Beats!Stages, copy : Beats!File]]
    BY <1>5 DEF Beats!ReadCompletion, Beats!Enter, Beats!Finish, FilesAreHonest, Beats!TypeOK,
           Beats!Stages
  <2>2. Beats!TypeOK' /\ h_done' = 0 /\ h_begun' = h_begun /\ h_file' = h_file
    BY <1>5, <2>1 DEF Beats!ReadCompletion, FilesAreHonest, Beats!TypeOK
  <2>3. \A f \in Beats!File : Honest(f, h_begun, h_done) => Honest(f, h_begun, 0)
    BY DEF Honest, Beats!File
  <2>4. \A s \in Runs : h_run'[s].pc \in {"stamp", "record"} =>
            \/ h_run'[s] = h_run[s]
            \/ s = r /\ h_run'[s].copy = h_file /\ h_file.started = r
    BY <1>5 DEF Beats!ReadCompletion, Beats!Enter, Beats!Finish, Beats!Idle, FilesAreHonest,
           Beats!TypeOK
  <2>5. Honest(h_file, h_begun, 0)
    BY <2>3 DEF FilesAreHonest, Beats!TypeOK
  <2>6. \A s \in Runs : h_run'[s].pc \in {"stamp", "record"} => Honest(h_run'[s].copy, h_begun, 0)
    BY <2>3, <2>4, <2>5 DEF FilesAreHonest, Beats!TypeOK
  <2>7. \A s \in Runs : h_run'[s].pc = "record" => h_run'[s].copy.started = s
    BY <2>4 DEF FilesAreHonest
  <2> QED BY <2>2, <2>5, <2>6, <2>7 DEF FilesAreHonest
<1>6. ASSUME NEW r \in Runs, Beats!RecordCompleted(r) PROVE FilesAreHonest'
  <2>1. /\ h_run[r].copy \in Beats!File /\ Honest(h_run[r].copy, h_begun, h_done)
        /\ h_run[r].copy.started = r /\ h_done = 0
    BY <1>6 DEF Beats!RecordCompleted, FilesAreHonest, Beats!TypeOK
  <2>2. h_file' \in Beats!File /\ Honest(h_file', h_begun, h_done)
    BY <2>1, <1>0, <1>6, CompletedHonest DEF Beats!RecordCompleted
  <2>3. \A s \in Runs : h_run'[s].pc \in {"stamp", "record"} => h_run'[s] = h_run[s]
    BY <1>6 DEF Beats!RecordCompleted, Beats!Finish, Beats!Idle, FilesAreHonest, Beats!TypeOK
  <2>4. Beats!TypeOK' /\ h_begun' = h_begun /\ h_done' = h_done
    BY <1>6, <2>2 DEF Beats!RecordCompleted, Beats!Finish, FilesAreHonest, Beats!TypeOK
  <2> QED BY <2>2, <2>3, <2>4 DEF FilesAreHonest
<1>7. ASSUME NEW r \in Runs, Beats!Hang(r) PROVE FilesAreHonest'
  BY <1>7 DEF Beats!Hang, Beats!Enter, FilesAreHonest, Beats!TypeOK, Beats!Stages
<1>8. ASSUME NEW r \in Runs, Beats!Die(r) PROVE FilesAreHonest'
  BY <1>8 DEF Beats!Die, Beats!Finish, FilesAreHonest, Beats!TypeOK, Beats!Idle
<1>9. ASSUME Beats!CheckHealth \/ Beats!DismissAlert \/ Beats!CallerStops \/ Beats!HoursChange
      PROVE FilesAreHonest'
  BY <1>9 DEF Beats!CheckHealth, Beats!DismissAlert, Beats!CallerStops, Beats!HoursChange,
         FilesAreHonest, Beats!TypeOK
<1>10. ASSUME Beats!TimePasses PROVE FilesAreHonest'
  <2>1. h_file' \in Beats!File /\ Honest(h_file', h_begun', h_done')
    BY <1>0, <1>10, AgedHonest DEF Beats!TimePasses, FilesAreHonest, Beats!TypeOK
  <2>2. h_begun' \in Beats!Ages /\ h_done' \in Beats!Ages
    BY <1>0, <1>10, OlderIsAge DEF Beats!TimePasses
  <2> QED BY <1>10, <2>1, <2>2 DEF Beats!TimePasses, FilesAreHonest, Beats!TypeOK
<1>11. ASSUME UNCHANGED Beats!vars PROVE FilesAreHonest'
  BY <1>11 DEF Beats!vars, FilesAreHonest, Beats!TypeOK
<1> QED
  BY <1>1, <1>2, <1>3, <1>4, <1>5, <1>6, <1>7, <1>8, <1>9, <1>10, <1>11
    DEF Beats!Next, Beats!FileStep

\* The files are honest in every reachable state, whatever requests overlap
\* and whichever of them writes the file last.
THEOREM AlwaysHonest == MonitorsSpec => []FilesAreHonest
<1>1. MonitorsInit => FilesAreHonest
  BY MonitorsAssumption, InitHonest DEF MonitorsInit
<1>2. FilesAreHonest /\ [MonitorsNext]_monitorVars => FilesAreHonest'
  BY MonitorsAssumption, FilesSteps, NextHonest
<1> QED BY <1>1, <1>2, PTL DEF MonitorsSpec

\* The variables of the heartbeats keep their types: no age runs past its end.
THEOREM BeatTypesHold == MonitorsSpec => []Beats!TypeOK
<1>1. FilesAreHonest => Beats!TypeOK
  BY DEF FilesAreHonest
<1> QED BY <1>1, AlwaysHonest, PTL

\* An honest file that reads as healthy is the file of a monitor that was at
\* work a short while ago.
LEMMA HonestIsEarned ==
    ASSUME Beats!BeatConstants PROVE FilesAreHonest => Beats!HealthIsEarned
<1> SUFFICES ASSUME FilesAreHonest, Beats!Healthy PROVE Beats!HealthIsEarned
  BY DEF Beats!HealthIsEarned
<1> USE DEF Beats!BeatConstants
<1>1. /\ h_file.startedAge \in Nat /\ h_file.completedAge \in Nat
      /\ h_begun \in Nat /\ h_done \in Nat /\ Beats!Never \in Nat
      /\ h_file.startedAge >= h_begun /\ h_file.completedAge >= h_done
      /\ h_file.startedAge <= Beats!Never /\ h_file.completedAge <= Beats!Never
  BY BeatTypes DEF FilesAreHonest, Beats!TypeOK, Honest, Beats!File
<1>2. CASE h_kind = "continuous"
  <2>1. h_file.startedAge # Beats!Never /\ h_file.startedAge < WorkerStale
    BY <1>2 DEF Beats!Healthy, Beats!WorkerHealthy
  <2>2. Beats!Recently(h_begun, WorkerStale)
    BY <1>1, <2>1 DEF Beats!Recently
  <2> QED BY <1>2, <2>2 DEF Beats!HealthIsEarned
<1>3. CASE h_kind # "continuous" /\ h_file.matched
  <2>1. h_file.completedAge # Beats!Never /\ h_file.completedAge < Beats!EffectiveThreshold
    BY <1>3 DEF Beats!Healthy, Beats!TimerHealthy, Beats!Trusted, FilesAreHonest, Honest
  <2>2. Beats!EffectiveThreshold \in Nat
    BY DEF Beats!EffectiveThreshold
  <2>3. Beats!Recently(h_done, Beats!EffectiveThreshold)
    BY <1>1, <2>1, <2>2 DEF Beats!Recently
  <2> QED BY <1>3, <2>3 DEF Beats!HealthIsEarned
<1>4. CASE h_kind # "continuous" /\ ~h_file.matched
  <2>1. h_file.startedAge # Beats!Never /\ h_file.startedAge < StaleAfter
    BY <1>1, <1>4 DEF Beats!Healthy, Beats!TimerHealthy, Beats!Trusted, FilesAreHonest, Honest
  <2>2. Beats!Recently(h_begun, StaleAfter)
    BY <1>1, <2>1 DEF Beats!Recently
  <2> QED BY <1>4, <2>2 DEF Beats!HealthIsEarned
<1> QED BY <1>2, <1>3, <1>4

\* A monitor that reads as healthy really started or completed a run within
\* the threshold: lost updates of the unlocked file and stamps that are absent
\* and taken for the present never make it look better than it is.
THEOREM HealthIsAlwaysEarned == MonitorsSpec => []HealthIsEarned
<1>1. FilesAreHonest => HealthIsEarned
  BY MonitorsAssumption, HonestIsEarned DEF HealthIsEarned
<1> QED BY <1>1, AlwaysHonest, PTL

-----------------------------------------------------------------------------
(* The locks and the turns. *)

\* Only a tick waits for the lock of ticks, a pass is of an account, and a
\* full scan has recorded the accounts before the one it is at.
TurnsInOrder ==
    \A r \in TurnRequests :
        /\ t_run[r].stage = "lock" => t_run[r].kind = "continuous"
        /\ Turns!InPass(r) => t_run[r].at \in Turns!Accounts
        /\ t_run[r].kind = "full" => t_run[r].logged = 1 .. (t_run[r].at - 1)

\* The inductive invariant.
Orderly == Turns!TypeOK /\ Turns!LocksFollowPasses /\ TurnsInOrder

RunType == [kind : Turns!Kinds \union {"none"}, stage : {"idle", "lock", "turn", "pass", "hung"},
            at : 1 .. AccountCount + 1, tried : 0 .. LockRetries, logged : SUBSET Turns!Accounts]
JobType == [step : {"rest", "full", "fast"}, waits : TurnRequests \union {NoTurn},
            attempt : 1 .. Posts]

\* The constant records of the requests and the timer job are typed.
LEMMA TurnTypes ==
    ASSUME Turns!TurnConstants
    PROVE  /\ Turns!Idle \in RunType /\ \A k \in Turns!Kinds : Turns!Posted(k) \in RunType
           /\ Turns!Rest \in JobType /\ [Turns!Rest EXCEPT !.step = "full"] \in JobType
           /\ [Turns!Rest EXCEPT !.step = "fast"] \in JobType
<1> USE DEF Turns!TurnConstants
<1>1. Turns!Idle \in RunType /\ \A k \in Turns!Kinds : Turns!Posted(k) \in RunType
  BY DEF Turns!Idle, Turns!Posted, RunType, Turns!Kinds, Turns!Accounts
<1>2. Turns!Rest \in JobType
  BY DEF Turns!Rest, JobType
<1>3. /\ [Turns!Rest EXCEPT !.step = "full"] \in JobType
      /\ [Turns!Rest EXCEPT !.step = "fast"] \in JobType
  BY DEF Turns!Rest, JobType
<1> QED BY <1>1, <1>2, <1>3

\* Whatever the timer job does next, it stays typed.
LEMMA JobTypes ==
    ASSUME Turns!TurnConstants, t_job \in JobType
    PROVE  Turns!Onwards \in JobType /\ Turns!Again \in JobType
<1>1. Turns!Onwards \in JobType
  BY TurnTypes DEF Turns!Onwards
<1>2. CASE t_job.attempt < Posts
  <2>1. Turns!Again = [step |-> t_job.step, waits |-> NoTurn, attempt |-> t_job.attempt + 1]
    BY <1>2 DEF Turns!Again
  <2>2. t_job.attempt + 1 \in 1 .. Posts
    BY <1>2 DEF Turns!TurnConstants, JobType
  <2>3. t_job.step \in {"rest", "full", "fast"}
    BY DEF JobType
  <2>4. [step |-> t_job.step, waits |-> NoTurn, attempt |-> t_job.attempt + 1] \in JobType
    BY <2>2, <2>3 DEF JobType
  <2> QED BY <1>1, <2>1, <2>4
<1>3. CASE ~(t_job.attempt < Posts)
  BY <1>1, <1>3 DEF Turns!Again
<1> QED BY <1>1, <1>2, <1>3

\* The first state is in order.
LEMMA InitOrderly == ASSUME Turns!TurnConstants PROVE Turns!Init => Orderly
<1> SUFFICES ASSUME Turns!Init PROVE Orderly
  OBVIOUS
<1>1. Turns!TypeOK
  BY TurnTypes DEF Turns!TurnConstants, Turns!Init, Turns!TypeOK, RunType, JobType
<1>2. Turns!LocksFollowPasses
  BY DEF Turns!TurnConstants, Turns!Init, Turns!LocksFollowPasses, Turns!InPass, Turns!Idle
<1>3. TurnsInOrder
  BY DEF Turns!Init, TurnsInOrder, Turns!InPass, Turns!Idle
<1> QED BY <1>1, <1>2, <1>3 DEF Orderly

\* A request that ends without a fault leaves the rest in order.
LEMMA AnswerOrderly ==
    ASSUME Turns!TurnConstants, Orderly, NEW r \in TurnRequests, Turns!Answer(r),
           ~Turns!InPass(r),
           UNCHANGED <<t_holder, t_up, t_faults>>
    PROVE  Orderly'
<1> USE DEF Turns!TurnConstants
<1>1. Turns!TypeOK'
  BY TurnTypes, JobTypes
  DEF Orderly, Turns!TypeOK, Turns!Answer, Turns!FreeTick, Turns!AnswerWorker, RunType,
      JobType
<1>2. \A s \in TurnRequests : t_run'[s] = IF s = r THEN Turns!Idle ELSE t_run[s]
  BY DEF Turns!Answer, Orderly, Turns!TypeOK
<1>3. Turns!LocksFollowPasses'
  BY <1>2 DEF Orderly, Turns!TypeOK, Turns!LocksFollowPasses, Turns!Answer, Turns!FreeTick,
      Turns!InPass, Turns!Idle
<1>4. TurnsInOrder'
  BY <1>2 DEF Orderly, TurnsInOrder, Turns!InPass, Turns!Idle
<1> QED BY <1>1, <1>3, <1>4 DEF Orderly

\* A request that is posted starts in order.
LEMMA PostOrderly ==
    ASSUME Turns!TurnConstants, Orderly, NEW r \in TurnRequests, NEW k \in Turns!Kinds,
           t_run[r] = Turns!Idle,
           t_run' = [t_run EXCEPT ![r] = Turns!Posted(k)],
           t_job' \in JobType, t_worker' \in TurnRequests \union {NoTurn},
           UNCHANGED <<t_holder, t_tick, t_up, t_faults>>
    PROVE  Orderly'
<1> USE DEF Turns!TurnConstants
<1>1. Turns!TypeOK'
  BY TurnTypes DEF Orderly, Turns!TypeOK, RunType, JobType
<1>2. \A s \in TurnRequests : t_run'[s] = IF s = r THEN Turns!Posted(k) ELSE t_run[s]
  BY DEF Orderly, Turns!TypeOK
<1>3. /\ Turns!Posted(k).kind = k /\ Turns!Posted(k).at = 1 /\ Turns!Posted(k).logged = {}
      /\ Turns!Posted(k).stage = IF k = "continuous" THEN "lock" ELSE "turn"
  BY DEF Turns!Posted, Turns!Idle
<1>4. Turns!LocksFollowPasses'
  BY <1>2, <1>3 DEF Orderly, Turns!LocksFollowPasses, Turns!InPass, Turns!Idle
<1>5. TurnsInOrder'
  <2>1. 1 .. (1 - 1) = {}
    OBVIOUS
  <2>2. Turns!Posted(k).kind = "full" => Turns!Posted(k).logged = 1 .. (Turns!Posted(k).at - 1)
    BY <1>3, <2>1
  <2>3. /\ Turns!Posted(k).stage = "lock" => Turns!Posted(k).kind = "continuous"
        /\ Turns!Posted(k).stage \notin {"pass", "hung"}
    BY <1>3
  <2> QED BY <1>2, <2>2, <2>3 DEF Orderly, TurnsInOrder, Turns!InPass
<1> QED BY <1>1, <1>4, <1>5 DEF Orderly

\* The next account's turn keeps a request typed and its record in order.
LEMMA NextTurnOrderly ==
    ASSUME Turns!TurnConstants, Orderly, NEW r \in TurnRequests, Turns!NextTurn(r),
           t_run[r].at \in Turns!Accounts,
           t_run[r].stage \in {"turn", "pass"}
    PROVE  /\ t_run' \in [TurnRequests -> RunType]
           /\ \A s \in TurnRequests : s # r => t_run'[s] = t_run[s]
           /\ t_run'[r].stage = "turn" /\ t_run'[r].kind = t_run[r].kind
           /\ TurnsInOrder'
<1> USE DEF Turns!TurnConstants
<1>1. t_run[r] \in RunType /\ t_run \in [TurnRequests -> RunType]
  BY DEF Orderly, Turns!TypeOK, RunType
<1> DEFINE served == IF t_run[r].kind = "full" THEN {t_run[r].at} ELSE {}
           new == [kind |-> t_run[r].kind, stage |-> "turn", at |-> t_run[r].at + 1,
                   tried |-> 0, logged |-> t_run[r].logged \union served]
<1>2. t_run' = [t_run EXCEPT ![r] = new]
  BY DEF Turns!NextTurn
<1>3. /\ new.stage = "turn" /\ new.kind = t_run[r].kind /\ new.at = t_run[r].at + 1
      /\ new.logged = t_run[r].logged \union served
      /\ new \in RunType
  BY <1>1 DEF RunType, Turns!Accounts
<1> HIDE DEF new
<1>4. \A s \in TurnRequests : t_run'[s] = IF s = r THEN new ELSE t_run[s]
  BY <1>1, <1>2
<1>5. t_run' \in [TurnRequests -> RunType]
  BY <1>1, <1>2, <1>3
<1>6. t_run[r].kind = "full" => new.logged = 1 .. (new.at - 1)
  <2> SUFFICES ASSUME t_run[r].kind = "full" PROVE new.logged = 1 .. (new.at - 1)
    OBVIOUS
  <2>1. t_run[r].logged = 1 .. (t_run[r].at - 1) /\ t_run[r].at \in Nat /\ t_run[r].at >= 1
    BY <1>1 DEF Orderly, TurnsInOrder, Turns!Accounts
  <2> QED BY <2>1, <1>3 DEF served
<1>7. TurnsInOrder'
  BY <1>3, <1>4, <1>6 DEF Orderly, TurnsInOrder, Turns!InPass
<1> QED BY <1>3, <1>4, <1>5, <1>7

\* Every step keeps the monitors in order.
LEMMA NextOrderly == ASSUME Turns!TurnConstants
      PROVE Orderly /\ [Turns!Next]_(Turns!vars) => Orderly'
<1> SUFFICES ASSUME Orderly, [Turns!Next]_(Turns!vars) PROVE Orderly'
  OBVIOUS
<1> USE DEF Turns!TurnConstants
<1>0. /\ t_run \in [TurnRequests -> RunType] /\ t_job \in JobType
      /\ t_holder \in [Turns!Accounts -> TurnRequests \union {NoTurn}]
  BY DEF Orderly, Turns!TypeOK, RunType, JobType
<1>1. CASE Turns!JobStarts \/ Turns!JobTimesOut \/ Turns!WorkerTimesOut
  <2>1. t_job' \in JobType
    BY <1>0, <1>1, TurnTypes, JobTypes
    DEF Turns!JobStarts, Turns!JobTimesOut, Turns!WorkerTimesOut
  <2>2. /\ UNCHANGED <<t_run, t_holder, t_tick, t_up, t_faults>>
        /\ t_worker' \in TurnRequests \union {NoTurn}
    BY <1>1 DEF Turns!JobStarts, Turns!JobTimesOut, Turns!WorkerTimesOut, Orderly,
        Turns!TypeOK
  <2>3. Turns!TypeOK'
    BY <2>1, <2>2 DEF Orderly, Turns!TypeOK, JobType
  <2>4. Turns!LocksFollowPasses' /\ TurnsInOrder'
    BY <2>2 DEF Orderly, Turns!LocksFollowPasses, TurnsInOrder, Turns!InPass
  <2> QED BY <2>3, <2>4 DEF Orderly
<1>2. ASSUME NEW r \in TurnRequests, Turns!JobPosts(r) PROVE Orderly'
  <2>1. /\ t_job.step \in Turns!Kinds /\ t_job' \in JobType
        /\ t_worker' \in TurnRequests \union {NoTurn}
    BY <1>0, <1>2 DEF Turns!JobPosts, JobType, Turns!Kinds, Orderly, Turns!TypeOK
  <2> QED BY <1>2, <2>1, PostOrderly DEF Turns!JobPosts
<1>3. ASSUME NEW r \in TurnRequests, Turns!WorkerPosts(r) PROVE Orderly'
  <2>1. /\ "continuous" \in Turns!Kinds /\ t_job' \in JobType
        /\ t_worker' \in TurnRequests \union {NoTurn}
    BY <1>0, <1>3 DEF Turns!WorkerPosts, Turns!Kinds
  <2> QED BY <1>3, <2>1, PostOrderly DEF Turns!WorkerPosts
<1>4. ASSUME NEW r \in TurnRequests, Turns!TakeTick(r) PROVE Orderly'
  <2>1. \A s \in TurnRequests : s # r => t_run'[s] = t_run[s]
    BY <1>0, <1>4 DEF Turns!TakeTick
  <2>2. t_run'[r] = [t_run[r] EXCEPT !.stage = "turn"] /\ t_run[r] \in RunType
    BY <1>0, <1>4 DEF Turns!TakeTick
  <2>3. /\ t_run'[r].stage = "turn" /\ t_run'[r].kind = t_run[r].kind
        /\ t_run'[r].at = t_run[r].at /\ t_run'[r].logged = t_run[r].logged /\ t_run'[r] \in RunType
    BY <2>2 DEF RunType
  <2>4. t_run' \in [TurnRequests -> RunType]
    BY <1>0, <1>4, <2>3 DEF Turns!TakeTick
  <2>5. Turns!TypeOK'
    BY <1>4, <2>4 DEF Turns!TakeTick, Orderly, Turns!TypeOK, RunType
  <2>6. Turns!LocksFollowPasses'
    BY <1>4, <2>1, <2>3
    DEF Turns!TakeTick, Orderly, TurnsInOrder, Turns!LocksFollowPasses, Turns!InPass
  <2>7. TurnsInOrder'
    BY <1>4, <2>1, <2>3 DEF Turns!TakeTick, Orderly, TurnsInOrder, Turns!InPass
  <2> QED BY <2>5, <2>6, <2>7 DEF Orderly
<1>5. ASSUME NEW r \in TurnRequests, Turns!TickAlreadyRunning(r) PROVE Orderly'
  BY <1>5, AnswerOrderly DEF Turns!TickAlreadyRunning, Turns!InPass
<1>6. ASSUME NEW r \in TurnRequests, Turns!BeginPass(r) \/ Turns!Hang(r) PROVE Orderly'
  <2>1. \A s \in TurnRequests : s # r => t_run'[s] = t_run[s]
    BY <1>0, <1>6 DEF Turns!BeginPass, Turns!Hang
  <2>2. /\ t_run[r] \in RunType
        /\ \E st \in {"pass", "hung"} : t_run'[r] = [t_run[r] EXCEPT !.stage = st]
    BY <1>0, <1>6 DEF Turns!BeginPass, Turns!Hang
  <2>3. /\ t_run'[r].stage \in {"pass", "hung"} /\ t_run'[r].kind = t_run[r].kind
        /\ t_run'[r].at = t_run[r].at /\ t_run'[r].logged = t_run[r].logged /\ t_run'[r] \in RunType
    BY <2>2 DEF RunType
  <2>4. t_run' \in [TurnRequests -> RunType]
    BY <1>0, <1>6, <2>3 DEF Turns!BeginPass, Turns!Hang
  <2>5. t_run[r].at \in Turns!Accounts /\ t_run[r].stage \in {"turn", "pass"}
    BY <1>6 DEF Turns!BeginPass, Turns!MyTurn, Turns!Hang, Orderly, TurnsInOrder,
        Turns!InPass
  <2>6. Turns!TypeOK'
    BY <1>6, <2>4, <2>5
    DEF Turns!BeginPass, Turns!Hang, Turns!Fault, Orderly, Turns!TypeOK, RunType
  <2>7. t_tick' = t_tick /\ t_holder' = [t_holder EXCEPT ![t_run[r].at] = r]
    BY <1>0, <1>6, <2>5
    DEF Turns!BeginPass, Turns!Hang, Orderly, Turns!LocksFollowPasses, Turns!InPass
  <2>8. t_holder[t_run[r].at] \in {r, NoTurn}
    BY <1>6, <2>5 DEF Turns!BeginPass, Turns!Hang, Orderly, Turns!LocksFollowPasses,
        Turns!InPass
  <2>9. \A a \in Turns!Accounts : t_holder[a] = r => a = t_run[r].at
    BY DEF Orderly, Turns!LocksFollowPasses
  <2>10. Turns!LocksFollowPasses'
    BY <1>0, <2>1, <2>3, <2>5, <2>7, <2>8, <2>9
    DEF Orderly, Turns!LocksFollowPasses, Turns!InPass
  <2>11. TurnsInOrder'
    BY <2>1, <2>3, <2>5 DEF Orderly, TurnsInOrder, Turns!InPass
  <2> QED BY <2>6, <2>10, <2>11 DEF Orderly
<1>7. ASSUME NEW r \in TurnRequests, Turns!Retry(r) PROVE Orderly'
  <2>1. \A s \in TurnRequests : s # r => t_run'[s] = t_run[s]
    BY <1>0, <1>7 DEF Turns!Retry
  <2>2. /\ t_run[r] \in RunType /\ t_run'[r] = [t_run[r] EXCEPT !.tried = @ + 1]
        /\ t_run[r].tried < LockRetries
    BY <1>0, <1>7 DEF Turns!Retry
  <2>3. /\ t_run'[r].stage = t_run[r].stage /\ t_run'[r].kind = t_run[r].kind
        /\ t_run'[r].at = t_run[r].at /\ t_run'[r].logged = t_run[r].logged /\ t_run'[r] \in RunType
    BY <2>2 DEF RunType
  <2>4. t_run' \in [TurnRequests -> RunType]
    BY <1>0, <1>7, <2>3 DEF Turns!Retry
  <2>5. Turns!TypeOK'
    BY <1>7, <2>4 DEF Turns!Retry, Orderly, Turns!TypeOK, RunType
  <2>6. Turns!LocksFollowPasses'
    BY <1>7, <2>1, <2>3 DEF Turns!Retry, Orderly, Turns!LocksFollowPasses, Turns!InPass
  <2>7. TurnsInOrder'
    BY <1>7, <2>1, <2>3 DEF Turns!Retry, Orderly, TurnsInOrder, Turns!InPass
  <2> QED BY <2>5, <2>6, <2>7 DEF Orderly
<1>8. ASSUME NEW r \in TurnRequests, Turns!ScanAlreadyRunning(r) \/ Turns!EndPass(r)
      PROVE Orderly'
  <2>1. /\ t_run[r].at \in Turns!Accounts /\ t_run[r].stage \in {"turn", "pass"}
        /\ Turns!NextTurn(r)
    BY <1>8 DEF Turns!ScanAlreadyRunning, Turns!EndPass, Turns!MyTurn, Orderly,
        TurnsInOrder, Turns!InPass
  <2>2. /\ t_run' \in [TurnRequests -> RunType]
        /\ \A s \in TurnRequests : s # r => t_run'[s] = t_run[s]
        /\ t_run'[r].stage = "turn" /\ t_run'[r].kind = t_run[r].kind
        /\ TurnsInOrder'
    BY <2>1, NextTurnOrderly
  <2>3. Turns!TypeOK'
    BY <1>8, <2>1, <2>2
    DEF Turns!ScanAlreadyRunning, Turns!EndPass, Orderly, Turns!TypeOK, RunType
  <2>4. t_tick' = t_tick
    BY <1>8 DEF Turns!ScanAlreadyRunning, Turns!EndPass
  <2>5. \A a \in Turns!Accounts : t_holder'[a] = IF t_holder[a] = r THEN NoTurn ELSE t_holder[a]
    BY <1>0, <1>8, <2>1
    DEF Turns!ScanAlreadyRunning, Turns!EndPass, Turns!MyTurn, Orderly,
        Turns!LocksFollowPasses, Turns!InPass
  <2>6. Turns!LocksFollowPasses'
    BY <2>1, <2>2, <2>4, <2>5 DEF Orderly, Turns!LocksFollowPasses, Turns!InPass
  <2> QED BY <2>2, <2>3, <2>6 DEF Orderly
<1>9. ASSUME NEW r \in TurnRequests, Turns!EndRun(r) PROVE Orderly'
  BY <1>9, AnswerOrderly DEF Turns!EndRun, Turns!InPass
<1>10. ASSUME NEW r \in TurnRequests, Turns!Die(r) PROVE Orderly'
  <2>1. \A s \in TurnRequests : t_run'[s] = IF s = r THEN Turns!Idle ELSE t_run[s]
    BY <1>0, <1>10 DEF Turns!Die
  <2>2. Turns!TypeOK'
    BY <1>0, <1>10, TurnTypes, JobTypes
    DEF Turns!Die, Turns!Fault, Turns!FreeTick, Turns!AnswerWorker, Orderly, Turns!TypeOK,
        RunType, JobType
  <2>3. Turns!LocksFollowPasses'
    BY <1>10, <2>1 DEF Turns!Die, Turns!FreeTick, Orderly, Turns!TypeOK,
        Turns!LocksFollowPasses, Turns!InPass, Turns!Idle
  <2>4. TurnsInOrder'
    BY <2>1 DEF Orderly, TurnsInOrder, Turns!InPass, Turns!Idle
  <2> QED BY <2>2, <2>3, <2>4 DEF Orderly
<1>11. ASSUME NEW c \in Turns!Callers, Turns!CallerStops(c) PROVE Orderly'
  BY <1>11 DEF Turns!CallerStops, Turns!Fault, Orderly, Turns!TypeOK,
      Turns!LocksFollowPasses, TurnsInOrder, Turns!InPass
<1>12. CASE UNCHANGED Turns!vars
  BY <1>12 DEF Turns!vars, Orderly, Turns!TypeOK, Turns!LocksFollowPasses, TurnsInOrder,
      Turns!InPass
<1> QED
  BY <1>1, <1>2, <1>3, <1>4, <1>5, <1>6, <1>7, <1>8, <1>9, <1>10, <1>11, <1>12
  DEF Turns!Next, Turns!Step

\* The monitors are in order in every reachable state.
THEOREM AlwaysOrderly == MonitorsSpec => []Orderly
<1>1. MonitorsInit => Orderly
  BY MonitorsAssumption, InitOrderly DEF MonitorsInit
<1>2. Orderly /\ [MonitorsNext]_monitorVars => Orderly'
  BY MonitorsAssumption, TurnsSteps, NextOrderly
<1> QED BY <1>1, <1>2, PTL DEF MonitorsSpec

\* A lock is held exactly by the request that is at work under it, whatever
\* hangs, is killed or is given up: no account is in two passes at once, and
\* none is locked by a request that has ended.
THEOREM LocksAlwaysFollowPasses == MonitorsSpec => []Turns!LocksFollowPasses
<1>1. Orderly => Turns!LocksFollowPasses
  BY DEF Orderly
<1> QED BY <1>1, AlwaysOrderly, PTL

\* A step from an orderly state that ends a full scan ends a complete one.
LEMMA EndsComplete ==
    ASSUME Turns!TurnConstants
    PROVE  Orderly /\ [Turns!Next]_(Turns!vars) =>
        [\A r \in TurnRequests :
            t_run[r].kind = "full" /\ t_run[r].stage = "turn" /\ t_run'[r] = Turns!Idle
            /\ t_faults' = t_faults
               => t_run[r].logged = Turns!Accounts]_(Turns!vars)
<1> SUFFICES ASSUME Orderly, [Turns!Next]_(Turns!vars), NEW r \in TurnRequests,
                    t_run[r].kind = "full", t_run[r].stage = "turn",
                    t_run'[r] = Turns!Idle, t_faults' = t_faults
             PROVE  t_run[r].logged = Turns!Accounts
  OBVIOUS
<1> USE DEF Turns!TurnConstants
<1>0. /\ t_run \in [TurnRequests -> RunType] /\ t_faults \in Nat
      /\ Turns!Idle.kind = "none" /\ Turns!Idle.stage = "idle"
  BY DEF Orderly, Turns!TypeOK, RunType, Turns!Idle
<1>1. t_run[r].at \in 1 .. AccountCount + 1 /\ t_run[r].logged = 1 .. (t_run[r].at - 1)
  BY <1>0 DEF Orderly, TurnsInOrder, RunType
<1>2. ASSUME t_run[r].at \notin Turns!Accounts PROVE t_run[r].logged = Turns!Accounts
  BY <1>1, <1>2 DEF Turns!Accounts
<1>3. ASSUME NEW s \in TurnRequests, Turns!Answer(s), t_run[s].stage # "turn"
      PROVE t_run'[r].kind = "full"
  BY <1>0, <1>3 DEF Turns!Answer
<1>4. ASSUME NEW s \in TurnRequests, NEW k \in Turns!Kinds, t_run[s] = Turns!Idle,
             t_run' = [t_run EXCEPT ![s] = Turns!Posted(k)]
      PROVE t_run'[r].kind = "full"
  BY <1>0, <1>4
<1>5. ASSUME NEW s \in TurnRequests, Turns!EndRun(s) PROVE t_run[r].logged = Turns!Accounts
  BY <1>0, <1>2, <1>5 DEF Turns!EndRun, Turns!Answer
<1>6. ASSUME NEW s \in TurnRequests,
             Turns!TakeTick(s) \/ Turns!BeginPass(s) \/ Turns!Retry(s)
               \/ Turns!ScanAlreadyRunning(s) \/ Turns!EndPass(s) \/ Turns!Hang(s)
      PROVE  t_run'[r].kind = "full"
  BY <1>0, <1>6 DEF Turns!TakeTick, Turns!BeginPass, Turns!Retry, Turns!ScanAlreadyRunning,
      Turns!EndPass, Turns!NextTurn, Turns!Hang, RunType
<1>7. ASSUME NEW s \in TurnRequests, Turns!TickAlreadyRunning(s) PROVE t_run'[r].kind = "full"
  BY <1>3, <1>7 DEF Turns!TickAlreadyRunning
<1>8. ASSUME NEW s \in TurnRequests, Turns!Die(s) PROVE FALSE
  BY <1>0, <1>8 DEF Turns!Die, Turns!Fault
<1>9. ASSUME NEW s \in TurnRequests, Turns!JobPosts(s) \/ Turns!WorkerPosts(s)
      PROVE t_run'[r].kind = "full"
  BY <1>4, <1>9 DEF Turns!JobPosts, Turns!WorkerPosts, Orderly, Turns!TypeOK, Turns!Kinds
<1>10. ASSUME Turns!JobStarts \/ Turns!JobTimesOut \/ Turns!WorkerTimesOut
  \/ UNCHANGED Turns!vars
      PROVE t_run'[r].kind = "full"
  BY <1>10 DEF Turns!JobStarts, Turns!JobTimesOut, Turns!WorkerTimesOut, Turns!vars
<1>11. ASSUME NEW c \in Turns!Callers, Turns!CallerStops(c) PROVE t_run'[r].kind = "full"
  BY <1>11 DEF Turns!CallerStops
<1> QED
  BY <1>0, <1>5, <1>6, <1>7, <1>8, <1>9, <1>10, <1>11 DEF Turns!Next, Turns!Step

\* A full scan that ends has left a record of every account.
THEOREM EveryScanIsRecorded == MonitorsSpec => Turns!EveryAccountIsRecorded
<1>1. Orderly /\ [MonitorsNext]_monitorVars =>
        [\A r \in TurnRequests :
            t_run[r].kind = "full" /\ t_run[r].stage = "turn" /\ t_run'[r] = Turns!Idle
            /\ t_faults' = t_faults
               => t_run[r].logged = Turns!Accounts]_(Turns!vars)
  BY MonitorsAssumption, TurnsSteps, EndsComplete
<1> QED BY <1>1, AlwaysOrderly, PTL DEF MonitorsSpec, Turns!EveryAccountIsRecorded
=============================================================================
