---------------------------- MODULE BudgetLedger ----------------------------
(***************************************************************************)
(* The AI-acceptance budget of ai-runtime (budget.rs): a map from paid     *)
(* operation to its reservation.  The module has no state of its own: the  *)
(* ledger is a field of the vault (vault.rs), so each operation is given   *)
(* by a guard CanOp(ledger, ..) and by the ledger Op(ledger, ..) that it   *)
(* returns.  Amounts are microdollars; the request fingerprint and the     *)
(* estimate's validity window are abstracted (a rejected call changes      *)
(* nothing, so it is a step not taken).  The wire form of an amount (a     *)
(* decimal string) and the fixed workspace and currency are left out.      *)
(***************************************************************************)
EXTENDS Integers, FiniteSets, Functions

CONSTANTS
    Requests,    \* operation ids
    Ceilings,    \* the ceilings an estimate can round up to
    Costs,       \* the amounts a billing receipt can state
    Limit,       \* ACCEPTANCE_LIMIT_MICRODOLLARS
    None         \* Rust's Option::None

\* ceiling_microdollars rejects an estimate with a zero factor and rounds up;
\* an operation id is a Uuid, of which there are finitely many; Option::None is
\* no number and no reason for blocking.
ASSUME BudgetAssumption ==
    /\ IsFiniteSet(Requests)
    /\ Ceilings \subseteq Nat \ {0}
    /\ Costs \subseteq Nat
    /\ Limit \in Nat
    /\ None \notin Nat
    /\ None \notin {"provider_cost_exceeds_reservation", "ai_acceptance_budget_exhausted"}

ReservationStatus ==
    {"Absent", "Reserved", "Dispatched", "Uncertain", "Settled",
     "CostOverrun", "CancelledBeforeDispatch"}

Reservation ==
    [status : ReservationStatus, ceiling : Ceilings \cup {0},
     actual : Costs \cup {None}]

Ledger == [Requests -> Reservation]

NoReservation == [status |-> "Absent", ceiling |-> 0, actual |-> None]

EmptyLedger == [r \in Requests |-> NoReservation]

\* Dispatched to the provider and not yet settled by a receipt.
InDoubt(b, r) == b[r].status \in {"Dispatched", "Uncertain"}

Accounted(b, r) == b[r].status \in {"Settled", "CostOverrun"}

\* What one reservation takes out of the acceptance limit.
Held(entry) ==
    CASE entry.status \in {"Absent", "CancelledBeforeDispatch"} -> 0
      [] entry.status \in {"Settled", "CostOverrun"} -> entry.actual
      [] OTHER -> entry.ceiling

Committed(b) == SumFunction([r \in Requests |-> Held(b[r])])

PaidDispatchBlocked(b) == \E r \in Requests : b[r].status = "CostOverrun"

\* Faulty variant: the limit is compared before the new ceiling is added.
CanReserveBeforeAdding(b, r, ceiling) ==
    /\ b[r].status = "Absent"
    /\ ~PaidDispatchBlocked(b)
    /\ Committed(b) <= Limit

CanReserve(b, r, ceiling) ==
    /\ b[r].status = "Absent"
    /\ ~PaidDispatchBlocked(b)
    /\ Committed(b) + ceiling <= Limit

Reserve(b, r, ceiling) ==
    [b EXCEPT ![r] = [status |-> "Reserved", ceiling |-> ceiling, actual |-> None]]

CanMarkDispatched(b, r) == ~PaidDispatchBlocked(b) /\ b[r].status = "Reserved"

MarkDispatched(b, r) == [b EXCEPT ![r].status = "Dispatched"]

CanMarkUncertain(b, r) == InDoubt(b, r)

MarkUncertain(b, r) == [b EXCEPT ![r].status = "Uncertain"]

CanCancelBeforeDispatch(b, r) ==
    b[r].status \in {"Reserved", "CancelledBeforeDispatch"}

CancelBeforeDispatch(b, r) == [b EXCEPT ![r].status = "CancelledBeforeDispatch"]

\* A second receipt must state the amount already accounted for.
CanSettle(b, r, cost) ==
    \/ InDoubt(b, r)
    \/ Accounted(b, r) /\ b[r].actual = cost

Settle(b, r, cost) ==
    IF Accounted(b, r) THEN b
    ELSE [b EXCEPT ![r] =
            [status |-> IF cost > b[r].ceiling THEN "CostOverrun" ELSE "Settled",
             ceiling |-> b[r].ceiling, actual |-> cost]]

-----------------------------------------------------------------------------
(* The aggregate the runtime serves (summary) and the check the Admin makes *)
(* before it shows it (AcceptanceBudget::valid_for).                       *)

Unsettled(b) == {r \in Requests : b[r].status \in {"Reserved", "Dispatched", "Uncertain"}}

HeldBy(b, S) == SumFunction([r \in S |-> Held(b[r])])

AtLeastZero(n) == IF n > 0 THEN n ELSE 0

BlockedReason(b) ==
    IF PaidDispatchBlocked(b) THEN "provider_cost_exceeds_reservation"
    ELSE IF Committed(b) >= Limit THEN "ai_acceptance_budget_exhausted" ELSE None

Summary(b) ==
    LET uncertain == {r \in Unsettled(b) : b[r].status = "Uncertain"} IN
    [settled |-> HeldBy(b, {r \in Requests : Accounted(b, r)}),
     reserved |-> HeldBy(b, Unsettled(b)), unsettledRequests |-> Cardinality(Unsettled(b)),
     uncertain |-> HeldBy(b, uncertain), uncertainRequests |-> Cardinality(uncertain),
     available |-> AtLeastZero(Limit - Committed(b)),
     blockedReason |-> BlockedReason(b)]

ValidFor(s) ==
    LET committed == s.settled + s.reserved IN
    /\ s.uncertain <= s.reserved
    /\ s.uncertainRequests <= s.unsettledRequests
    /\ s.uncertain = 0 <=> s.uncertainRequests = 0
    /\ s.reserved = 0 <=> s.unsettledRequests = 0
    /\ s.available = AtLeastZero(Limit - committed)
    /\ s.blockedReason = None => committed < Limit
    /\ s.blockedReason = "ai_acceptance_budget_exhausted" => committed >= Limit
=============================================================================
