------------------------------ MODULE PaidOnce ------------------------------
(***************************************************************************)
(* What the runtime promises about money, without journal, vault, crash or *)
(* cancellation: a paid request is sent at most once, only while its       *)
(* ceiling is held, holds are taken within the acceptance limit and never  *)
(* after an overrun, and a hold ends only in the bill of what was sent.    *)
(* This is an abstract specification; InferenceJournal implements it       *)
(* (JournalRefinement).                                                    *)
(***************************************************************************)
EXTENDS Integers, Functions

CONSTANTS Requests, Ceilings, Costs, Limit, None

VARIABLES
    funds,   \* per request: nothing held, a ceiling held, or a bill
    sent     \* per request: how often it was sent

vars == <<funds, sent>>

Free == [ceiling |-> None, bill |-> None]

Funds == [ceiling : Ceilings \cup {None}, bill : Costs \cup {None}]

Exposure ==
    SumFunction([r \in Requests |->
        IF funds[r].bill # None THEN funds[r].bill
        ELSE IF funds[r].ceiling # None THEN funds[r].ceiling ELSE 0])

Overrun == \E r \in Requests : funds[r].bill # None /\ funds[r].bill > funds[r].ceiling

Init == funds = [r \in Requests |-> Free] /\ sent = [r \in Requests |-> 0]

Hold(r, ceiling) ==
    /\ funds[r] = Free
    /\ ~Overrun
    /\ Exposure + ceiling <= Limit
    /\ funds' = [funds EXCEPT ![r] = [ceiling |-> ceiling, bill |-> None]]
    /\ UNCHANGED sent

Send(r) ==
    /\ funds[r].ceiling # None /\ funds[r].bill = None
    /\ sent[r] = 0
    /\ sent' = [sent EXCEPT ![r] = 1]
    /\ UNCHANGED funds

Bill(r, cost) ==
    /\ sent[r] = 1 /\ funds[r].bill = None
    /\ funds' = [funds EXCEPT ![r].bill = cost]
    /\ UNCHANGED sent

Next ==
    \E r \in Requests :
        \/ \E ceiling \in Ceilings : Hold(r, ceiling)
        \/ Send(r)
        \/ \E cost \in Costs : Bill(r, cost)

Spec == Init /\ [][Next]_vars
=============================================================================
