------------------------- MODULE JournalRefinement -------------------------
(***************************************************************************)
(* InferenceJournal implements PaidOnce: the reservation that the code     *)
(* calls Dispatched or Uncertain is a hold, Settled or CostOverrun a bill. *)
(* The abstract state is read from the effective vault state, so a crash   *)
(* that completes a failed commit is the abstract step of that commit.     *)
(***************************************************************************)
EXTENDS InferenceJournal

FundsOf(entry) ==
    [ceiling |-> IF entry.status \in {"Absent", "CancelledBeforeDispatch"} THEN None ELSE entry.ceiling,
     bill |-> entry.actual]

PaidPosts ==
    [r \in Requests |->
        IF Exists(vault, r) /\ Paid(vault.runs[r]) THEN posts[r] ELSE 0]

Promise == INSTANCE PaidOnce WITH
    funds <- [r \in Requests |-> FundsOf(vault.budget[r])],
    sent <- PaidPosts

\* The journal over a vault that can fail, crash and restart never sends a
\* paid request twice or uncovered, never frees what a sent request may cost,
\* and never plans beyond the acceptance limit (PaidOnce).
PaidOncePromise == Promise!Spec
=============================================================================
