----------------------------- MODULE MCEntryGate -----------------------------
(***************************************************************************)
(* EntryGate as TLC checks it: two tickers that fit under the daily cap    *)
(* one at a time. The first is entered at two sizes, of which the larger   *)
(* is over the cap unless its id was counted at the smaller one before.    *)
(***************************************************************************)
EXTENDS EntryGate

CONSTANTS a, b

MCTickers == {a, b}
MCApproval ==
    [kind \in {"live", "paper", "confirm"} |-> IF kind = "live" THEN BOOLEAN ELSE {FALSE}]
MCCosts == [t \in MCTickers |-> IF t = a THEN {1, 2} ELSE {1}]

=============================================================================
