--------------------------- MODULE EntryContract ---------------------------
(***************************************************************************)
(* What the rest of the program may rely on about one entry, whatever the  *)
(* broker, the network and restarts do: its record comes before its order, *)
(* "failed" means that nothing was or will be bought, a trade is booked    *)
(* only for shares that were bought, and a closed record is a booked one.  *)
(***************************************************************************)
VARIABLES
    claim,   \* what the record on disk says of the entry
    bought,  \* what is true at the broker of the entry order
    booked   \* the trade is in the closed-trades journal

vars == <<claim, bought, booked>>

Claims == {"none", "open", "failed", "closed"}

\* No order, an order that may yet fill, some shares bought, and an order
\* that ended without a fill.
Purchases == {"no", "maybe", "yes", "never"}

TypeOK == claim \in Claims /\ bought \in Purchases /\ booked \in BOOLEAN

Init == claim = "none" /\ bought = "no" /\ booked = FALSE

\* The record is written, perhaps only to say that nothing was sent.
Record == /\ claim = "none" /\ claim' \in {"open", "failed"}
          /\ UNCHANGED <<bought, booked>>

\* The order goes out, and ends one way or the other. A record that was
\* closed on a first fill does not stop the rest of the order.
Trade == /\ claim = "open"
         /\ \/ bought = "no" /\ bought' = "maybe"
            \/ bought = "maybe" /\ bought' \in {"yes", "never"}
         /\ UNCHANGED <<claim, booked>>

Fail == /\ claim = "open" /\ bought \in {"no", "never"}
        /\ claim' = "failed"
        /\ UNCHANGED <<bought, booked>>

\* The journal is written before the record, or together with it.
Book == /\ claim = "open" /\ bought = "yes"
        /\ booked' = TRUE /\ claim' \in {"open", "closed"}
        /\ UNCHANGED bought

Next == Record \/ Trade \/ Fail \/ Book

Spec == Init /\ [][Next]_vars

=============================================================================
