-------------------------- MODULE SuggestionLedger --------------------------
(***************************************************************************)
(* What becomes of a suggestion: the scan alerts a phone and writes a row  *)
(* to the ledger (src/backend/suggestion_ledger.py), the owner presses     *)
(* Enter or Skip (confirm_entry.py, api_confirm_entry), later scans let    *)
(* the unpressed ones expire, grade every row by the bars that followed    *)
(* and tell of what was missed; the daily digest tells of it too. Every    *)
(* write of the ledger holds its lock; what a press or a reader does from  *)
(* one write to the next does not.                                         *)
(***************************************************************************)
EXTENDS Naturals, FiniteSets, FiniteSetsExt

CONSTANTS
    Setups,    \* numbered as they are found
    DailyCap,  \* PLUTO_SETUP_ALERTS_PER_DAY
    MaxRows,   \* MAX_RECORDS
    Presses,   \* button presses the service works on at a time
    MaxFaults  \* bound: writes and orders that fail, and deaths

LedgerConstants ==
    /\ Setups \subseteq Nat /\ IsFiniteSet(Setups)
    /\ DailyCap \in Nat /\ MaxRows \in Nat \ {0} /\ MaxFaults \in Nat

VARIABLES
    age,     \* how long ago each setup was found
    row,     \* its row of the ledger
    alerts,  \* slots of the day's cap that are used
    phone,   \* the setups whose buttons are on a phone
    used,    \* confirm_tokens_used.json: the buttons that were pressed
    press,   \* the requests
    scan,    \* the step the scan is at, with the setup or the rows it is about
    page,    \* the same of the daily digest
    bought,  \* the setups an order was accepted for
    told,    \* how often the owner was told what a setup would have made
    faults

vars == <<age, row, alerts, phone, used, press, scan, page, bought, told, faults>>

\* A setup is ahead, fresh, late or due: buttons work for minutes, a row is
\* graded five weekdays on.
Acts == {"enter", "skip"}
NoRow == [decision |-> "none", graded |-> FALSE, sent |-> FALSE]
NewRow(decision) == [NoRow EXCEPT !.decision = decision]
Idle == [pc |-> "idle", about |-> {}]
Unpressed == [pc |-> "idle", setup |-> 0]

Init ==
    /\ age = [s \in Setups |-> "ahead"] /\ row = [s \in Setups |-> NoRow]
    /\ alerts = 0 /\ phone = {} /\ used = {}
    /\ press = [p \in Presses |-> Unpressed]
    /\ scan = Idle /\ page = Idle
    /\ bought = {} /\ told = [s \in Setups |-> 0] /\ faults = 0

Fault == faults < MaxFaults /\ faults' = faults + 1

Logged(s) == row[s] # NoRow

\* append: beyond the limit the oldest row goes.
Appended(s, decision) ==
    LET grown == [row EXCEPT ![s] = NewRow(decision)]
        kept == {x \in Setups : grown[x] # NoRow}
    IN  IF Cardinality(kept) > MaxRows THEN [grown EXCEPT ![Min(kept)] = NoRow] ELSE grown

\* update: of a row that is not there nothing is written.
Updated(s, decision) ==
    IF Logged(s) THEN [row EXCEPT ![s].decision = decision] ELSE row

-----------------------------------------------------------------------------
(* The scan finds a setup *)

\* What is not alerted of is logged as it ended: an order, a ticket, a skip.
FindOther ==
    /\ scan = Idle /\ \E s \in Setups : age[s] = "ahead"
    /\ LET s == Min({x \in Setups : age[x] = "ahead"})
       IN  \E decision \in {"taken", "proposed", "skipped"} :
             /\ age' = [age EXCEPT ![s] = "fresh"]
             /\ row' = Appended(s, decision)
             /\ bought' = IF decision = "taken" THEN bought \union {s} ELSE bought
    /\ UNCHANGED <<alerts, phone, used, press, scan, page, told, faults>>

\* A ticket that is approved later; its row is not touched.
ApproveTicket(s) ==
    /\ row[s].decision = "proposed" /\ age[s] = "fresh"
    /\ bought' = bought \union {s}
    /\ UNCHANGED <<age, row, alerts, phone, used, press, scan, page, told, faults>>

\* In confirm mode: quiet hours, or the cap of the day, or a slot of it.
FindConfirm ==
    /\ scan = Idle /\ \E s \in Setups : age[s] = "ahead"
    /\ LET s == Min({x \in Setups : age[x] = "ahead"})
       IN  /\ age' = [age EXCEPT ![s] = "fresh"]
           /\ \/ row' = Appended(s, "skipped") /\ UNCHANGED <<scan, alerts>>
              \/ /\ alerts < DailyCap /\ alerts' = alerts + 1
                 /\ scan' = [pc |-> "alert", about |-> {s}] /\ UNCHANGED row
    /\ UNCHANGED <<phone, used, press, page, bought, told, faults>>

\* The message goes out, or does not: the row will be written all the same.
SendAlert ==
    /\ scan.pc = "alert" /\ scan' = [scan EXCEPT !.pc = "append"]
    /\ \/ phone' = phone \union scan.about /\ UNCHANGED faults
       \/ UNCHANGED phone /\ Fault
    /\ UNCHANGED <<age, row, alerts, used, press, page, bought, told>>

\* A ledger that cannot be written is passed over in silence.
AppendAwaiting ==
    /\ scan.pc = "append" /\ scan' = Idle
    /\ \/ \E s \in scan.about : row' = Appended(s, "awaiting") /\ UNCHANGED faults
       \/ UNCHANGED row /\ Fault
    /\ UNCHANGED <<age, alerts, phone, used, press, page, bought, told>>

-----------------------------------------------------------------------------
(* A button is pressed *)

\* Mutant of Redeemable: a button works as long as it was not used.
RedeemableEver(s) == TRUE

\* What redeem checks after it has marked the button as used.
Redeemable(s) == age[s] = "fresh"

\* Each button works once. Too late, or with the price moved away, it is used
\* up and does nothing.
Press(p, s, act) ==
    /\ press[p] = Unpressed /\ s \in phone /\ <<s, act>> \notin used
    /\ used' = used \union {<<s, act>>}
    /\ \/ Redeemable(s) /\ press' = [press EXCEPT ![p] = [pc |-> act, setup |-> s]]
       \/ UNCHANGED press
    /\ UNCHANGED <<age, row, alerts, phone, scan, page, bought, told, faults>>

At(p, pc) == press[p].pc = pc
Write(p, decision) == row' = Updated(press[p].setup, decision)
Go(p, pc) == press' = [press EXCEPT ![p].pc = pc]
Answered(p) == press' = [press EXCEPT ![p] = Unpressed]

Skip(p) ==
    /\ At(p, "skip") /\ Write(p, "skipped") /\ Answered(p)
    /\ UNCHANGED <<age, alerts, phone, used, scan, page, bought, told, faults>>

\* Before an order: the gates, the hours, the account. The evidence gate
\* writes the row itself.
RefuseEnter(p) ==
    /\ At(p, "enter") /\ Go(p, "failed")
    /\ UNCHANGED row \/ Write(p, "skipped")
    /\ UNCHANGED <<age, alerts, phone, used, scan, page, bought, told, faults>>

\* The order is accepted, rejected, or nobody knows; and the record of its
\* outcome may fail.
SubmitEnter(p) ==
    /\ At(p, "enter")
    /\ \E accepted \in BOOLEAN :
         /\ bought' = IF accepted THEN bought \union {press[p].setup} ELSE bought
         /\ \/ Go(p, IF accepted THEN "taken" ELSE "rejected") /\ UNCHANGED faults
            \/ Go(p, "doubt") /\ Fault
            \/ Go(p, "failed") /\ Fault
    /\ UNCHANGED <<age, row, alerts, phone, used, scan, page, told>>

Decision(pc) == IF pc = "taken" THEN "taken" ELSE "skipped"

WriteEnter(p) ==
    /\ press[p].pc \in {"taken", "doubt", "rejected"}
    /\ Write(p, Decision(press[p].pc)) /\ Answered(p)
    /\ UNCHANGED <<age, alerts, phone, used, scan, page, bought, told, faults>>

\* Any exception: a row that still awaits its button is skipped.
HandleFailure(p) ==
    /\ At(p, "failed") /\ Answered(p)
    /\ IF row[press[p].setup].decision = "awaiting" THEN Write(p, "skipped") ELSE UNCHANGED row
    /\ UNCHANGED <<age, alerts, phone, used, scan, page, bought, told, faults>>

PressStep(p) ==
    Skip(p) \/ RefuseEnter(p) \/ SubmitEnter(p) \/ WriteEnter(p) \/ HandleFailure(p)

-----------------------------------------------------------------------------
(* Later *)

Pending == {s \in Setups : row[s].graded /\ row[s].decision # "taken" /\ ~row[s].sent}
Sent(rows) == [s \in Setups |-> IF s \in rows /\ Logged(s) THEN [row[s] EXCEPT !.sent = TRUE] ELSE row[s]]
Tell(rows) == told' = [s \in Setups |-> IF s \in rows /\ told[s] < 2 THEN told[s] + 1 ELSE told[s]]

\* Mutant of Expired: buttons that nobody pressed wait for ever.
ExpiredNever(s) == FALSE

\* expire_unconfirmed: an alert that nobody answered is a skip.
Expired(s) == row[s].decision = "awaiting" /\ age[s] # "fresh"

ExpireUnconfirmed ==
    /\ scan = Idle /\ \E s \in Setups : Logged(s)
    /\ row' = [s \in Setups |-> IF Expired(s) THEN [row[s] EXCEPT !.decision = "skipped"] ELSE row[s]]
    /\ scan' = [Idle EXCEPT !.pc = "grade"]
    /\ UNCHANGED <<age, alerts, phone, used, press, page, bought, told, faults>>

\* grade_due: the rows whose day has come and whose bars there are.
GradeDue ==
    /\ scan.pc = "grade"
    /\ \E lacking \in SUBSET Setups :
         row' = [s \in Setups |-> IF Logged(s) /\ age[s] = "due" /\ s \notin lacking
                                  THEN [row[s] EXCEPT !.graded = TRUE] ELSE row[s]]
    /\ \/ scan' = Idle
       \/ row' # row /\ scan' = [Idle EXCEPT !.pc = "tell"]
    /\ UNCHANGED <<age, alerts, phone, used, press, page, bought, told, faults>>

\* Messages at once, where that is switched on; those that went out are marked.
TellAtOnce ==
    /\ scan.pc = "tell"
    /\ \E rows \in SUBSET Pending : Tell(rows) /\ scan' = [pc |-> "mark", about |-> rows]
    /\ UNCHANGED <<age, row, alerts, phone, used, press, page, bought, faults>>

MarkTold ==
    /\ scan.pc = "mark" /\ row' = Sent(scan.about) /\ scan' = Idle
    /\ UNCHANGED <<age, alerts, phone, used, press, page, bought, told, faults>>

\* The digest reads, marks what it read, and is shown.
OpenDigest ==
    /\ page = Idle /\ Pending # {}
    /\ page' = [pc |-> "mark", about |-> Pending]
    /\ UNCHANGED <<age, row, alerts, phone, used, press, scan, bought, told, faults>>

MarkDigest ==
    /\ page.pc = "mark" /\ row' = Sent(page.about)
    /\ page' = [page EXCEPT !.pc = "show"]
    /\ UNCHANGED <<age, alerts, phone, used, press, scan, bought, told, faults>>

ShowDigest ==
    /\ page.pc = "show" /\ Tell(page.about) /\ page' = Idle
    /\ UNCHANGED <<age, row, alerts, phone, used, press, scan, bought, faults>>

\* Minutes pass over a press and a scan, days do not.
Pass(s) ==
    /\ \/ age[s] = "fresh" /\ age' = [age EXCEPT ![s] = "late"]
       \/ /\ age[s] = "late" /\ scan = Idle
          /\ \A p \in Presses : press[p].setup # s
          /\ age' = [age EXCEPT ![s] = "due"]
    /\ UNCHANGED <<row, alerts, phone, used, press, scan, page, bought, told, faults>>

\* The process ends, and with it whatever was under way.
Die ==
    /\ Fault
    /\ press' = [p \in Presses |-> Unpressed] /\ scan' = Idle /\ page' = Idle
    /\ UNCHANGED <<age, row, alerts, phone, used, bought, told>>

Next ==
    \/ FindOther \/ FindConfirm \/ SendAlert \/ AppendAwaiting
    \/ ExpireUnconfirmed \/ GradeDue \/ TellAtOnce \/ MarkTold
    \/ OpenDigest \/ MarkDigest \/ ShowDigest \/ Die
    \/ \E s \in Setups : Pass(s) \/ ApproveTicket(s)
    \/ \E p \in Presses, s \in Setups, act \in Acts : Press(p, s, act)
    \/ \E p \in Presses : PressStep(p)

Spec == Init /\ [][Next]_vars

\* Time goes on, scans are started again and again and go through.
Fairness ==
    /\ \A s \in Setups : SF_vars(Pass(s))
    /\ WF_vars(SendAlert) /\ WF_vars(AppendAwaiting)
    /\ SF_vars(ExpireUnconfirmed) /\ WF_vars(GradeDue)
    /\ WF_vars(TellAtOnce) /\ WF_vars(MarkTold)
    /\ \A p \in Presses : WF_vars(PressStep(p))

FairSpec == Spec /\ Fairness

-----------------------------------------------------------------------------
(* Properties *)

\* A grade is of a finished decision: no press, however late or repeated, and
\* no other write changes the decision of a row that was graded.
GradeStands ==
    [][\A s \in Setups : row[s].graded /\ Logged(s)' =>
         row'[s].graded /\ row'[s].decision = row[s].decision]_vars

\* A row does not wait for its button for ever.
AwaitingEnds == \A s \in Setups : row[s].decision = "awaiting" ~> row[s].decision # "awaiting"
=============================================================================
