--------------------------- MODULE MCAutonomousScan ---------------------------
(***************************************************************************)
(* AutonomousScan on a small account: interchangeable tickers of one       *)
(* sector, and dollars so small that every limit binds. The claim of the   *)
(* documentation that the code does not keep is stated at the end.         *)
(***************************************************************************)
EXTENDS AutonomousScan, TLC

CONSTANTS Same

MCPrice == [t \in Tickers |-> 2]
MCStopDistance == [t \in Tickers |-> 1]
MCPremium == [t \in Tickers |-> 1]
MCSector == [t \in Tickers |-> Same]
MCFunds == [cash |-> 8, short |-> 2, option |-> 4]
MCEquityLevels == {8, 10}
MCLosses == {[cash |-> 0, margin |-> 0], [cash |-> 1, margin |-> 1]}

Symmetry == Permutations(Tickers)

\* A user who has chosen APPROVAL and leaves it at that.
ApprovalSpec ==
    /\ Init /\ settings.mode = "APPROVAL"
    /\ [][Next /\ settings'.mode = settings.mode]_vars
\* In APPROVAL mode what a scan finds becomes a ticket instead of an order.
\* (backend/docs/TRADE_PLANNER.md, Approval flow)
ScanOnlyProposes == [][\A t \in Tickers : ~Submits("scan", t)]_vars

===============================================================================
