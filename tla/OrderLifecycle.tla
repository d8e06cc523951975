-------------------------- MODULE OrderLifecycle --------------------------
(***************************************************************************)
(* The lifecycle of one order record, src/backend/order_lifecycle.py: the  *)
(* states, the sets the monitors select records by, and the table that     *)
(* transition() validates every move against. The strings are the ones the *)
(* code writes to overnight_orders.json.                                   *)
(***************************************************************************)

Submitted  == "entry_submitted"
Partially  == "entry_partially_filled"
Filled     == "entry_filled"
Pending    == "protection_pending"
Confirmed  == "protection_confirmed_active"
Failed     == "entry_failed"
Unprotected == "protection_failed"
Closed     == "closed"
Unknown    == "unknown_submission_state"
Released   == "manually_resolved_no_order"
Linking    == "manual_link_in_progress"

AllStates == {Submitted, Partially, Filled, Pending, Confirmed, Failed,
              Unprotected, Closed, Unknown, Released, Linking}

\* States the fast monitor resumes through the fill-and-protect pass.
MonitorResumableStates == {Submitted, Partially, Filled, Pending, Unprotected}

\* The same, and the protected state, which is checked for an exit.
FillMonitoringStates == MonitorResumableStates \union {Confirmed}

TerminalStates == {Failed, Closed, Released}

\* Where a record that has not seen its first fill may be.
FreshStates == {Submitted, Partially, Linking}

ValidTransitions == [s \in AllStates |->
    CASE s = Submitted   -> {Partially, Filled, Failed, Unknown}
      [] s = Partially   -> {Partially, Filled, Pending, Failed}
      [] s = Filled      -> {Pending}
      [] s = Pending     -> {Confirmed, Unprotected}
      [] s = Confirmed   -> {Closed, Pending}
      [] s = Unprotected -> {Pending, Closed}
      [] s = Unknown     -> {Submitted, Failed, Unknown, Released, Linking}
      [] s = Linking     -> {Partially, Filled, Failed}
      [] s \in TerminalStates -> {}]

\* What transition() does to a record: an illegal jump raises ValueError,
\* which the state Illegal stands for.
Illegal == "illegal_transition"

Move(record, to) ==
    [record EXCEPT !.state =
        IF @ \in AllStates /\ to \in ValidTransitions[@] THEN to ELSE Illegal]

---------------------------------------------------------------------------
(* Order statuses, as the broker reports them, and the two readings of a   *)
(* status that the fill and the protection passes are built on.            *)

OpenStatuses  == {"SUBMITTED", "PARTIAL FILLED"}
FinalStatuses == {"FILLED", "CANCELLED", "FAILED"}

\* The broker has no such order, or has not made it visible yet.
AbsentStatuses == {"none", "inflight"}

OrderStatuses == OpenStatuses \union FinalStatuses \union AbsentStatuses

EntryFillIsFinal(status) == status \in FinalStatuses
ProtectiveLegIsActive(status) == status \in OpenStatuses
ProtectiveLegIsDead(status) == status \in {"CANCELLED", "FAILED"}
===========================================================================
