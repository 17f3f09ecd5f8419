----------------------- MODULE InferenceJournalProofs -----------------------
(***************************************************************************)
(* Proofs about InferenceJournal, for every set of requests, grants and    *)
(* amounts and for every value of the limits.                              *)
(*                                                                         *)
(* The invariants speak of vault values, and hold of the memory and of the *)
(* file alike.  So the argument is made once per operation on a value v:   *)
(* the lemmas *Typed say that the operation keeps v well-formed, and that  *)
(* it Evolves v unless it admits a new run (Prepared, Continued).  What    *)
(* the actions add, the choice between a saved and a torn commit, is the   *)
(* same for all of them (the lemma Committing).                            *)
(*                                                                         *)
(* The journal implements PaidOnce.  The abstract state is read from the   *)
(* memory, and a crash may replace the memory by the file; so the argument *)
(* rests on what the file can be: the memory itself or one operation ahead *)
(* of it.  Each operation moves the ledger in one of four ways (Moves),    *)
(* which are the steps of PaidOnce or leave its state alone.               *)
(*                                                                         *)
(* The log of a run explains its state and its cost: what an operation     *)
(* appends Tells how the two change, whatever was logged before, so they   *)
(* are Retold by the whole log.  A client that pages reads all of it, as   *)
(* each page begins where the last one ended.                              *)
(*                                                                         *)
(* The acceptance limit: an entry plans what it holds, or what it held     *)
(* before an overrun, and the plans of a ledger fit in the limit; an       *)
(* operation changes one entry, so a sum changes by that entry's part.     *)
(***************************************************************************)
EXTENDS JournalRefinement, FoldLemmas

WellFormed(v) ==
    /\ v \in VaultState
    /\ IsFiniteSet(Stored(v))
    /\ Cardinality(Stored(v)) <= MaxRuns
    /\ \A r \in Requests :
          /\ Len(v.runs[r].log) <= MaxEvents
          /\ Exists(v, r) => v.runs[r].owner \in Grants
          /\ ~Exists(v, r) => v.runs[r] = NoRun
          /\ v.runs[r].state = "ToolsSubmitted" => v.runs[r].child # None

Begun(v, r) == v.runs[r].state \notin {"Absent", "Prepared"}

SameLinks(new, old) ==
    new.owner = old.owner /\ new.parent = old.parent /\ new.child = old.child

\* What an operation that admits no run does to every run.
Evolves(v, n) ==
    /\ n.roots = v.roots
    /\ \A q \in Requests :
          /\ SameLinks(n.runs[q], v.runs[q])
          /\ Exists(n, q) <=> Exists(v, q)
          /\ Begun(v, q) => Begun(n, q)
          /\ v.runs[q].state \in Terminal => n.runs[q].state \in Terminal
          /\ n.runs[q].state = "ToolsSubmitted" <=> v.runs[q].state = "ToolsSubmitted"

-----------------------------------------------------------------------------
(* The ledger. *)

\* Every ledger operation returns a ledger.
LEMMA LedgerTyped ==
    ASSUME NEW b \in Ledger, NEW r \in Requests
    PROVE  /\ MarkUncertain(b, r) \in Ledger
           /\ MarkDispatched(b, r) \in Ledger
           /\ \A ceiling \in Ceilings : Reserve(b, r, ceiling) \in Ledger
           /\ \A cost \in Costs : Settle(b, r, cost) \in Ledger
  BY DEF Ledger, Reservation, ReservationStatus, MarkUncertain, MarkDispatched,
         Reserve, Settle, Accounted

-----------------------------------------------------------------------------
(* One run. *)

\* Appending what append() accepts keeps a run a run, within its log's bound.
LEMMA LoggedTyped ==
    ASSUME NEW run \in StoredInference, NEW kinds \in Seq(JournalEventKind),
           NEW state \in RunState, CanLog(run, kinds)
    PROVE  LET new == Logged(run, kinds, state) IN
           /\ new \in StoredInference
           /\ Len(new.log) <= MaxEvents
           /\ new.state = state
           /\ SameLinks(new, run)
  <1> DEFINE new == Logged(run, kinds, state)
  <1>1. new = [run EXCEPT !.log = run.log \o kinds, !.state = state]
    BY DEF Logged
  <1>2. run.log \o kinds \in Seq(JournalEventKind) /\ Len(run.log \o kinds) = Len(run.log) + Len(kinds)
    BY DEF StoredInference
  <1>3. new \in StoredInference /\ new.log = run.log \o kinds /\ new.state = state /\ SameLinks(new, run)
    BY <1>1, <1>2 DEF StoredInference, SameLinks
  <1> QED
    BY <1>2, <1>3 DEF CanLog

\* Replacing one stored run, and the ledger, without resetting the run.
LEMMA RunUpdate ==
    ASSUME NEW v, WellFormed(v), NEW r \in Requests, Exists(v, r),
           NEW run \in StoredInference, NEW b \in Ledger,
           Len(run.log) <= MaxEvents,
           SameLinks(run, v.runs[r]),
           run.state # "Absent",
           Begun(v, r) => run.state # "Prepared",
           v.runs[r].state \in Terminal => run.state \in Terminal,
           run.state = "ToolsSubmitted" <=> v.runs[r].state = "ToolsSubmitted"
    PROVE  LET n == [v EXCEPT !.runs[r] = run, !.budget = b] IN
           WellFormed(n) /\ Evolves(v, n)
  <1> DEFINE n == [v EXCEPT !.runs[r] = run, !.budget = b]
  <1>1. v \in VaultState
    BY DEF WellFormed
  <1>2. /\ n.runs = [v.runs EXCEPT ![r] = run]
        /\ n.roots = v.roots
        /\ n \in VaultState
    BY <1>1 DEF VaultState
  <1>3. \A q \in Requests : n.runs[q] = IF q = r THEN run ELSE v.runs[q]
    BY <1>1, <1>2 DEF VaultState
  <1>4. Stored(n) = Stored(v)
    BY <1>3 DEF Stored, Exists
  <1>5. \A q \in Requests :
           /\ Len(n.runs[q].log) <= MaxEvents
           /\ Exists(n, q) => n.runs[q].owner \in Grants
           /\ ~Exists(n, q) => n.runs[q] = NoRun
           /\ n.runs[q].state = "ToolsSubmitted" => n.runs[q].child # None
    BY <1>3 DEF WellFormed, Exists, SameLinks
  <1>6. WellFormed(n)
    BY <1>2, <1>4, <1>5 DEF WellFormed
  <1>7. Evolves(v, n)
    BY <1>2, <1>3 DEF Evolves, Exists, Begun, SameLinks
  <1> QED
    BY <1>6, <1>7

\* The same when the ledger is left alone.
LEMMA RunOnlyUpdate ==
    ASSUME NEW v, WellFormed(v), NEW r \in Requests, Exists(v, r),
           NEW run \in StoredInference,
           Len(run.log) <= MaxEvents,
           SameLinks(run, v.runs[r]),
           run.state # "Absent",
           Begun(v, r) => run.state # "Prepared",
           v.runs[r].state \in Terminal => run.state \in Terminal,
           run.state = "ToolsSubmitted" <=> v.runs[r].state = "ToolsSubmitted"
    PROVE  LET n == [v EXCEPT !.runs[r] = run] IN
           WellFormed(n) /\ Evolves(v, n)
  <1>1. v.budget \in Ledger
    BY DEF WellFormed, VaultState
  <1>2. [v EXCEPT !.runs[r] = run] = [v EXCEPT !.runs[r] = run, !.budget = v.budget]
    BY DEF WellFormed, VaultState
  <1>3. /\ WellFormed([v EXCEPT !.runs[r] = run, !.budget = v.budget])
        /\ Evolves(v, [v EXCEPT !.runs[r] = run, !.budget = v.budget])
    BY <1>1, RunUpdate
  <1> QED
    BY <1>2, <1>3

-----------------------------------------------------------------------------
(* Every operation keeps the vault state well-formed. *)

\* A cancellation request keeps the journal well-formed and admits no run.
LEMMA CancelledTyped ==
    ASSUME NEW v, WellFormed(v), NEW g \in Grants, NEW r \in Requests,
           CanCancel(v, g, r)
    PROVE  WellFormed(Cancelled(v, r)) /\ Evolves(v, Cancelled(v, r))
  <1> DEFINE state == IF v.runs[r].state \in {"AwaitingTools", "Prepared"}
                      THEN "Cancelled" ELSE "CancellationRequested"
             kinds == <<CancelEvent(v.runs[r].state)>>
             run == Logged(v.runs[r], kinds, state)
  <1>1. v.runs[r] \in StoredInference
    BY DEF WellFormed, VaultState
  <1>2. CancelEvent(v.runs[r].state) \in JournalEventKind
    BY DEF CancelEvent, JournalEventKind
  <1>3. kinds \in Seq(JournalEventKind)
    BY <1>2
  <1>4. state \in RunState /\ state \notin {"Absent", "Prepared", "ToolsSubmitted"}
    BY DEF RunState, InFlight, Terminal
  <1>5. CanLog(v.runs[r], kinds) /\ Exists(v, r) /\ v.runs[r].state \notin Terminal \cup {"ToolsSubmitted"}
    BY DEF CanCancel, Terminal
  <1>6. /\ run \in StoredInference /\ Len(run.log) <= MaxEvents
        /\ run.state = state /\ SameLinks(run, v.runs[r])
    BY <1>1, <1>3, <1>4, <1>5, LoggedTyped, ZenonT(30)
  <1>7. Cancelled(v, r) = [v EXCEPT !.runs[r] = run]
    BY DEF Cancelled
  <1> HIDE DEF run, state, kinds
  <1> QED
    BY <1>4, <1>5, <1>6, <1>7, RunOnlyUpdate

\* So does a delta,
LEMMA DeltaTyped ==
    ASSUME NEW v, WellFormed(v), NEW r \in Requests, CanDelta(v, r)
    PROVE  WellFormed(Delta(v, r)) /\ Evolves(v, Delta(v, r))
  <1> DEFINE state == IF v.runs[r].state = "CancellationRequested"
                      THEN v.runs[r].state ELSE "Running"
             kinds == <<"TextDelta">>
             run == Logged(v.runs[r], kinds, state)
  <1>1. v.runs[r] \in StoredInference
    BY DEF WellFormed, VaultState
  <1>2. kinds \in Seq(JournalEventKind)
    BY DEF JournalEventKind
  <1>3. state \in RunState /\ state \notin {"Absent", "Prepared", "ToolsSubmitted"}
    BY DEF RunState, InFlight
  <1>4. CanLog(v.runs[r], kinds) /\ Exists(v, r) /\ v.runs[r].state \notin Terminal \cup {"ToolsSubmitted"}
    BY DEF CanDelta, InFlight, Exists, Terminal
  <1>5. /\ run \in StoredInference /\ Len(run.log) <= MaxEvents
        /\ run.state = state /\ SameLinks(run, v.runs[r])
    BY <1>1, <1>2, <1>3, <1>4, LoggedTyped
  <1>6. Delta(v, r) = [v EXCEPT !.runs[r] = run]
    BY DEF Delta
  <1> HIDE DEF run, state, kinds
  <1> QED
    BY <1>3, <1>4, <1>5, <1>6, RunOnlyUpdate

\* so does an outcome that becomes unknown,
LEMMA ForgottenTyped ==
    ASSUME NEW v, WellFormed(v), NEW r \in Requests, CanForget(v, r)
    PROVE  WellFormed(Forgotten(v, r)) /\ Evolves(v, Forgotten(v, r))
  <1> DEFINE kinds == <<"UnknownOutcome">>
             run == Logged(v.runs[r], kinds, "Unknown")
             b == IF Paid(v.runs[r]) THEN MarkUncertain(v.budget, r) ELSE v.budget
  <1>1. v.runs[r] \in StoredInference /\ v.budget \in Ledger
    BY DEF WellFormed, VaultState
  <1>2. kinds \in Seq(JournalEventKind) /\ "Unknown" \in RunState
    BY DEF JournalEventKind, RunState
  <1>3. CanLog(v.runs[r], kinds) /\ Exists(v, r) /\ v.runs[r].state \notin Terminal \cup {"ToolsSubmitted"}
    BY DEF CanForget, InFlight, Exists, Terminal
  <1>4. /\ run \in StoredInference /\ Len(run.log) <= MaxEvents
        /\ run.state = "Unknown" /\ SameLinks(run, v.runs[r])
    BY <1>1, <1>2, <1>3, LoggedTyped
  <1>5. b \in Ledger
    BY <1>1, LedgerTyped
  <1>6. Forgotten(v, r) = [v EXCEPT !.runs[r] = run, !.budget = b]
    BY DEF Forgotten, UnknownRun
  <1> HIDE DEF run, kinds, b
  <1>7. /\ WellFormed([v EXCEPT !.runs[r] = run, !.budget = b])
        /\ Evolves(v, [v EXCEPT !.runs[r] = run, !.budget = b])
    BY <1>3, <1>4, <1>5, RunUpdate
  <1> QED
    BY <1>6, <1>7

\* so does a dispatch, which makes its run begun,
LEMMA DispatchedTyped ==
    ASSUME NEW v, WellFormed(v), NEW g \in Grants, NEW r \in Requests,
           NEW ceiling \in Ceilings \cup {None}, CanDispatch(v, g, r, ceiling)
    PROVE  /\ WellFormed(Dispatched(v, r, ceiling))
           /\ Evolves(v, Dispatched(v, r, ceiling))
           /\ Begun(Dispatched(v, r, ceiling), r)
  <1> DEFINE kinds == <<"DispatchIntent">>
             run == Logged(v.runs[r], kinds, "Dispatching")
             b == IF ceiling = None THEN v.budget
                  ELSE MarkDispatched(Reserve(v.budget, r, ceiling), r)
             n == [v EXCEPT !.runs[r] = run, !.budget = b]
  <1>1. v.runs[r] \in StoredInference /\ v.budget \in Ledger
    BY DEF WellFormed, VaultState
  <1>2. kinds \in Seq(JournalEventKind) /\ "Dispatching" \in RunState
    BY DEF JournalEventKind, RunState, InFlight
  <1>3. CanLog(v.runs[r], kinds) /\ Exists(v, r) /\ v.runs[r].state \notin Terminal \cup {"ToolsSubmitted"}
    BY DEF CanDispatch, Exists, Terminal
  <1>4. /\ run \in StoredInference /\ Len(run.log) <= MaxEvents
        /\ run.state = "Dispatching" /\ SameLinks(run, v.runs[r])
    BY <1>1, <1>2, <1>3, LoggedTyped
  <1>5. b \in Ledger
    BY <1>1, LedgerTyped
  <1>6. Dispatched(v, r, ceiling) = n
    BY DEF Dispatched
  <1> HIDE DEF run, kinds, b
  <1>7. WellFormed(n) /\ Evolves(v, n)
    BY <1>3, <1>4, <1>5, RunUpdate
  <1>8. n.runs[r] = run
    BY DEF WellFormed, VaultState
  <1> QED
    BY <1>4, <1>6, <1>7, <1>8 DEF Begun

\* What a receipt leaves in the ledger is a ledger, and the events it causes
\* are events.
LEMMA ChargedTyped ==
    ASSUME NEW v, WellFormed(v), NEW r \in Requests,
           NEW cost \in Costs \cup {None}
    PROVE  /\ Charged(v, r, cost) \in Ledger
           /\ \A outcome \in TerminalOutcome :
                 FinishEvents(v, r, outcome, cost) \in Seq(JournalEventKind)
           /\ ToolEvents(v, r, cost) \in Seq(JournalEventKind)
           /\ cost \in Costs => ReconcileEvents(v, r, cost) \in Seq(JournalEventKind)
  <1>1. v.budget \in Ledger
    BY DEF WellFormed, VaultState
  <1>2. Charged(v, r, cost) \in Ledger
    BY <1>1, LedgerTyped DEF Charged
  <1>3. \A b : OverrunEvents(b, r) \in Seq(JournalEventKind)
    <2>1. <<"CostCeilingExceeded">> \in Seq(JournalEventKind)
      BY DEF JournalEventKind
    <2>2. << >> \in Seq(JournalEventKind)
      OBVIOUS
    <2> QED
      BY <2>1, <2>2, Zenon DEF OverrunEvents
  <1>4. \A outcome \in TerminalOutcome : <<ProviderTerminal[outcome]>> \in Seq(JournalEventKind)
    BY DEF TerminalOutcome, ProviderTerminal, JournalEventKind
  <1>5. /\ <<"ToolCalls", "ProviderCancelled">> \in Seq(JournalEventKind)
        /\ <<"ToolCalls">> \in Seq(JournalEventKind)
        /\ <<"CostReconciled">> \in Seq(JournalEventKind)
    BY DEF JournalEventKind
  <1>6. \A s, t \in Seq(JournalEventKind) : s \o t \in Seq(JournalEventKind)
    OBVIOUS
  <1>7. \A outcome \in TerminalOutcome :
           FinishEvents(v, r, outcome, cost) \in Seq(JournalEventKind)
    BY <1>3, <1>4, <1>6 DEF FinishEvents
  <1>8. ToolEvents(v, r, cost) \in Seq(JournalEventKind)
    BY <1>3, <1>5, <1>6 DEF ToolEvents
  <1>9. ReconcileEvents(v, r, cost) \in Seq(JournalEventKind)
    BY <1>3, <1>5, <1>6 DEF ReconcileEvents
  <1> QED
    BY <1>2, <1>7, <1>8, <1>9

\* so does a terminal receipt,
LEMMA FinishedTyped ==
    ASSUME NEW v, WellFormed(v), NEW r \in Requests,
           NEW outcome \in TerminalOutcome, NEW cost \in Costs \cup {None},
           CanFinish(v, r, outcome, cost)
    PROVE  /\ WellFormed(Finished(v, r, outcome, cost))
           /\ Evolves(v, Finished(v, r, outcome, cost))
  <1> DEFINE kinds == FinishEvents(v, r, outcome, cost)
             run == Logged(v.runs[r], kinds, outcome)
             b == Charged(v, r, cost)
  <1>1. v.runs[r] \in StoredInference
    BY DEF WellFormed, VaultState
  <1>2. kinds \in Seq(JournalEventKind) /\ b \in Ledger
    BY ChargedTyped
  <1>3. outcome \in RunState /\ outcome \notin {"Absent", "Prepared", "ToolsSubmitted"}
    BY DEF RunState, Terminal, TerminalOutcome
  <1>4. CanLog(v.runs[r], kinds) /\ Exists(v, r) /\ v.runs[r].state \notin Terminal \cup {"ToolsSubmitted"}
    BY DEF CanFinish, InFlight, Exists, Terminal
  <1>5. /\ run \in StoredInference /\ Len(run.log) <= MaxEvents
        /\ run.state = outcome /\ SameLinks(run, v.runs[r])
    BY <1>1, <1>2, <1>3, <1>4, LoggedTyped
  <1>6. Finished(v, r, outcome, cost) = [v EXCEPT !.runs[r] = run, !.budget = b]
    BY DEF Finished
  <1> HIDE DEF run, kinds, b
  <1>7. /\ WellFormed([v EXCEPT !.runs[r] = run, !.budget = b])
        /\ Evolves(v, [v EXCEPT !.runs[r] = run, !.budget = b])
    BY <1>2, <1>3, <1>4, <1>5, RunUpdate
  <1> QED
    BY <1>6, <1>7

\* so does a receipt with tool calls,
LEMMA ToolsFinishedTyped ==
    ASSUME NEW v, WellFormed(v), NEW r \in Requests,
           NEW cost \in Costs \cup {None}, CanFinishTools(v, r, cost)
    PROVE  /\ WellFormed(ToolsFinished(v, r, cost))
           /\ Evolves(v, ToolsFinished(v, r, cost))
  <1> DEFINE kinds == ToolEvents(v, r, cost)
             state == IF v.runs[r].state = "CancellationRequested"
                      THEN "Cancelled" ELSE "AwaitingTools"
             run == Logged(v.runs[r], kinds, state)
             b == Charged(v, r, cost)
  <1>1. v.runs[r] \in StoredInference
    BY DEF WellFormed, VaultState
  <1>2. kinds \in Seq(JournalEventKind) /\ b \in Ledger
    BY ChargedTyped
  <1>3. state \in RunState /\ state \notin {"Absent", "Prepared", "ToolsSubmitted"}
    BY DEF RunState, Terminal
  <1>4. CanLog(v.runs[r], kinds) /\ Exists(v, r) /\ v.runs[r].state \notin Terminal \cup {"ToolsSubmitted"}
    BY DEF CanFinishTools, InFlight, Exists, Terminal
  <1>5. /\ run \in StoredInference /\ Len(run.log) <= MaxEvents
        /\ run.state = state /\ SameLinks(run, v.runs[r])
    BY <1>1, <1>2, <1>3, <1>4, LoggedTyped
  <1>6. ToolsFinished(v, r, cost) = [v EXCEPT !.runs[r] = run, !.budget = b]
    BY DEF ToolsFinished
  <1> HIDE DEF run, kinds, b, state
  <1>7. /\ WellFormed([v EXCEPT !.runs[r] = run, !.budget = b])
        /\ Evolves(v, [v EXCEPT !.runs[r] = run, !.budget = b])
    BY <1>2, <1>3, <1>4, <1>5, RunUpdate
  <1> QED
    BY <1>6, <1>7

\* so does a late bill,
LEMMA CostReconciledTyped ==
    ASSUME NEW v, WellFormed(v), NEW r \in Requests, NEW cost \in Costs,
           CanReconcileCost(v, r, cost)
    PROVE  /\ WellFormed(CostReconciled(v, r, cost))
           /\ Evolves(v, CostReconciled(v, r, cost))
  <1> DEFINE kinds == ReconcileEvents(v, r, cost)
             run == Logged(v.runs[r], kinds, v.runs[r].state)
             b == Settle(v.budget, r, cost)
  <1>1. v.runs[r] \in StoredInference /\ v.budget \in Ledger
    BY DEF WellFormed, VaultState
  <1>2. kinds \in Seq(JournalEventKind) /\ b \in Ledger
    BY <1>1, ChargedTyped, LedgerTyped
  <1>3. /\ CanLog(v.runs[r], kinds) /\ Exists(v, r)
        /\ v.runs[r].state \in RunState /\ v.runs[r].state # "Prepared"
    BY DEF CanReconcileCost, Exists, Terminal, RunState
  <1>4. /\ run \in StoredInference /\ Len(run.log) <= MaxEvents
        /\ run.state = v.runs[r].state /\ SameLinks(run, v.runs[r])
    BY <1>1, <1>2, <1>3, LoggedTyped
  <1>5. CostReconciled(v, r, cost) = [v EXCEPT !.runs[r] = run, !.budget = b]
    BY DEF CostReconciled
  <1>6. run.state # "Absent"
    BY <1>3, <1>4 DEF Exists
  <1> HIDE DEF run, kinds, b
  <1>7. /\ WellFormed([v EXCEPT !.runs[r] = run, !.budget = b])
        /\ Evolves(v, [v EXCEPT !.runs[r] = run, !.budget = b])
    BY <1>2, <1>3, <1>4, <1>6, RunUpdate
  <1> QED
    BY <1>5, <1>7

\* so does the name of a generation,
LEMMA GenerationRecordedTyped ==
    ASSUME NEW v, WellFormed(v), NEW r \in Requests, CanRecordGeneration(v, r)
    PROVE  WellFormed(GenerationRecorded(v, r)) /\ Evolves(v, GenerationRecorded(v, r))
  <1> DEFINE run == [v.runs[r] EXCEPT !.generation = TRUE]
  <1>1. v.runs[r] \in StoredInference /\ Len(v.runs[r].log) <= MaxEvents
    BY DEF WellFormed, VaultState
  <1>2. Exists(v, r) /\ v.runs[r].state # "Prepared"
    BY DEF CanRecordGeneration, Exists
  <1>3. /\ run \in StoredInference /\ Len(run.log) <= MaxEvents
        /\ run.state = v.runs[r].state /\ SameLinks(run, v.runs[r])
    BY <1>1 DEF StoredInference, SameLinks
  <1>4. GenerationRecorded(v, r) = [v EXCEPT !.runs[r] = run]
    BY DEF GenerationRecorded
  <1> HIDE DEF run
  <1> QED
    BY <1>2, <1>3, <1>4, RunOnlyUpdate DEF Exists

\* Recovery treats every active run as mark_inference_unknown would.
LEMMA RestartedTyped ==
    ASSUME NEW v, WellFormed(v), CanRestart(v)
    PROVE  WellFormed(Restarted(v)) /\ Evolves(v, Restarted(v))
  <1> DEFINE n == Restarted(v)
             run(r) == IF v.runs[r].state \in InFlight
                       THEN UnknownRun(v.runs[r]) ELSE v.runs[r]
             entry(r) == IF v.runs[r].state \in InFlight /\ Paid(v.runs[r])
                         THEN [v.budget[r] EXCEPT !.status = "Uncertain"] ELSE v.budget[r]
  <1>1. ASSUME NEW r \in Requests
        PROVE  /\ run(r) \in StoredInference
               /\ Len(run(r).log) <= MaxEvents
               /\ SameLinks(run(r), v.runs[r])
               /\ run(r).state = IF v.runs[r].state \in InFlight THEN "Unknown"
                                 ELSE v.runs[r].state
               /\ v.runs[r].state \notin InFlight => run(r) = v.runs[r]
    <2>1. v.runs[r] \in StoredInference /\ Len(v.runs[r].log) <= MaxEvents
      BY DEF WellFormed, VaultState
    <2>2. CASE v.runs[r].state \in InFlight
      <3>1. CanLog(v.runs[r], <<"UnknownOutcome">>)
        BY <2>2 DEF CanRestart, CanForget
      <3>2. <<"UnknownOutcome">> \in Seq(JournalEventKind) /\ "Unknown" \in RunState
        BY DEF JournalEventKind, RunState
      <3> QED
        BY <2>1, <2>2, <3>1, <3>2, LoggedTyped DEF UnknownRun
    <2>3. CASE v.runs[r].state \notin InFlight
      BY <2>1, <2>3 DEF SameLinks
    <2> QED
      BY <2>2, <2>3
  <1>2. ASSUME NEW r \in Requests PROVE entry(r) \in Reservation
    <2>1. v.budget[r] \in Reservation
      BY DEF WellFormed, VaultState, Ledger
    <2>2. [v.budget[r] EXCEPT !.status = "Uncertain"] \in Reservation
      BY <2>1 DEF Reservation, ReservationStatus
    <2> QED
      BY <2>1, <2>2
  <1> HIDE DEF run, entry
  <1>3. n = [v EXCEPT !.runs = [r \in Requests |-> run(r)],
                      !.budget = [r \in Requests |-> entry(r)]]
    BY DEF Restarted, run, entry
  <1>4. v \in VaultState
    BY DEF WellFormed
  <1>5. /\ n \in VaultState
        /\ n.roots = v.roots
        /\ \A r \in Requests : n.runs[r] = run(r)
    <2>1. [r \in Requests |-> run(r)] \in [Requests -> StoredInference]
      BY <1>1
    <2>2. [r \in Requests |-> entry(r)] \in Ledger
      BY <1>2 DEF Ledger
    <2> QED
      BY <1>3, <1>4, <2>1, <2>2, ZenonT(30) DEF VaultState
  <1>6. Evolves(v, n)
    BY <1>1, <1>5 DEF Evolves, Exists, Begun, InFlight, Terminal
  <1>7. Stored(n) = Stored(v)
    BY <1>6 DEF Stored, Evolves
  <1>8. \A r \in Requests :
           /\ Len(n.runs[r].log) <= MaxEvents
           /\ Exists(n, r) => n.runs[r].owner \in Grants
           /\ ~Exists(n, r) => n.runs[r] = NoRun
           /\ n.runs[r].state = "ToolsSubmitted" => n.runs[r].child # None
    BY <1>1, <1>5, <1>6 DEF WellFormed, Evolves, SameLinks, Exists, InFlight
  <1> QED
    BY <1>5, <1>6, <1>7, <1>8 DEF WellFormed

\* and so do the operations on connections.
LEMMA ConnectionTyped ==
    ASSUME NEW v, WellFormed(v), NEW p \in Providers
    PROVE  /\ WellFormed(Connected(v, p)) /\ Evolves(v, Connected(v, p))
           /\ WellFormed(Disconnected(v, p)) /\ Evolves(v, Disconnected(v, p))
  <1>1. v \in VaultState /\ v.minted[p] + 1 \in Nat
    BY DEF WellFormed, VaultState
  <1>2. \A n \in VaultState : n.runs = v.runs /\ n.roots = v.roots
           => WellFormed(n) /\ Evolves(v, n)
    <2> SUFFICES ASSUME NEW n \in VaultState, n.runs = v.runs, n.roots = v.roots
                 PROVE  WellFormed(n) /\ Evolves(v, n)
      OBVIOUS
    <2>1. Stored(n) = Stored(v) /\ \A q \in Requests : Exists(n, q) <=> Exists(v, q)
      BY DEF Stored, Exists
    <2> QED
      BY <2>1 DEF WellFormed, Evolves, SameLinks, Begun
  <1>3. /\ Connected(v, p) \in VaultState
        /\ Connected(v, p).runs = v.runs /\ Connected(v, p).roots = v.roots
    BY <1>1 DEF Connected, VaultState
  <1>4. /\ Disconnected(v, p) \in VaultState
        /\ Disconnected(v, p).runs = v.runs /\ Disconnected(v, p).roots = v.roots
    BY <1>1 DEF Disconnected, VaultState
  <1> QED
    BY <1>2, <1>3, <1>4

-----------------------------------------------------------------------------
(* Admission: prepare_inference and continue_inference_tools add one run.  *)

\* The run that prepare and continue add is a run.
LEMMA NewRunTyped ==
    ASSUME NEW g \in Grants, NEW parent \in Requests \cup {None}
    PROVE  /\ NewRun(g, parent) \in StoredInference
           /\ Len(NewRun(g, parent).log) <= MaxEvents
  BY JournalAssumption DEF NewRun, StoredInference, RunState, JournalEventKind

\* The run count after a fresh request was added within MAX_RUNS.
LEMMA StoredGrows ==
    ASSUME NEW v, WellFormed(v), HasRoom(v), NEW r \in Requests, ~Exists(v, r),
           NEW n, Stored(n) = Stored(v) \cup {r}
    PROVE  IsFiniteSet(Stored(n)) /\ Cardinality(Stored(n)) <= MaxRuns
  <1>1. IsFiniteSet(Stored(v)) /\ Cardinality(Stored(v)) < MaxRuns /\ r \notin Stored(v)
    BY DEF WellFormed, HasRoom, Stored
  <1>2. Cardinality(Stored(v)) \in Nat
    BY <1>1, FS_CardinalityType
  <1>3. /\ IsFiniteSet(Stored(v) \cup {r})
        /\ Cardinality(Stored(v) \cup {r}) = Cardinality(Stored(v)) + 1
    BY <1>1, FS_AddElement
  <1> QED
    BY <1>1, <1>2, <1>3, JournalAssumption

\* A prepare adds one run and binds its root.
LEMMA PreparedTyped ==
    ASSUME NEW v, WellFormed(v), NEW g \in Grants, NEW r \in Requests,
           CanPrepare(v, g, r)
    PROVE  LET n == Prepared(v, g, r) IN
           /\ WellFormed(n)
           /\ \A q \in Requests : n.runs[q] = IF q = r THEN NewRun(g, None) ELSE v.runs[q]
           /\ n.roots = [v.roots EXCEPT ![g.execution.root] = RootBinding(g)]
  <1> DEFINE n == Prepared(v, g, r)
             root == g.execution.root
  <1>1. v \in VaultState /\ root \in Roots
    BY JournalAssumption DEF WellFormed
  <1>2. NewRun(g, None) \in StoredInference /\ Len(NewRun(g, None).log) <= MaxEvents
    BY NewRunTyped
  <1>3. /\ n.roots = [v.roots EXCEPT ![root] = RootBinding(g)]
        /\ n.runs = [v.runs EXCEPT ![r] = NewRun(g, None)]
        /\ n \in VaultState
    <2>1. v.roots[root] \in {None, RootBinding(g)}
      BY DEF CanPrepare, RootAdmits
    <2>2. (IF v.roots[root] = None THEN RootBinding(g) ELSE v.roots[root]) = RootBinding(g)
      BY <2>1
    <2>3. n = [v EXCEPT !.runs = [v.runs EXCEPT ![r] = NewRun(g, None)],
                        !.roots = [v.roots EXCEPT ![root] = RootBinding(g)]]
      BY <2>2 DEF Prepared
    <2>4. RootBinding(g) \in {RootBinding(h) : h \in Grants}
      OBVIOUS
    <2> HIDE DEF n
    <2> QED
      BY <1>1, <1>2, <2>3, <2>4 DEF VaultState
  <1>4. \A q \in Requests : n.runs[q] = IF q = r THEN NewRun(g, None) ELSE v.runs[q]
    BY <1>1, <1>3 DEF VaultState
  <1>5. ~Exists(v, r) /\ HasRoom(v)
    BY DEF CanPrepare
  <1>6. Stored(n) = Stored(v) \cup {r}
    BY <1>4 DEF Stored, Exists, NewRun
  <1>7. IsFiniteSet(Stored(n)) /\ Cardinality(Stored(n)) <= MaxRuns
    BY <1>5, <1>6, StoredGrows
  <1>8. \A q \in Requests :
           /\ Len(n.runs[q].log) <= MaxEvents
           /\ Exists(n, q) => n.runs[q].owner \in Grants
           /\ ~Exists(n, q) => n.runs[q] = NoRun
           /\ n.runs[q].state = "ToolsSubmitted" => n.runs[q].child # None
    <2> HIDE DEF n
    <2> TAKE q \in Requests
    <2>1. CASE q = r
      <3>1. n.runs[q] = NewRun(g, None)
        BY <1>4, <2>1
      <3>2. NewRun(g, None).state = "Prepared" /\ NewRun(g, None).owner = g
        BY DEF NewRun
      <3> QED
        BY <1>2, <3>1, <3>2 DEF Exists
    <2>2. CASE q # r
      BY <1>4, <2>2 DEF WellFormed, Exists
    <2> QED
      BY <2>1, <2>2
  <1> QED
    BY <1>3, <1>4, <1>7, <1>8 DEF WellFormed

\* A continuation adds the child and closes the tool turn of its parent.
LEMMA ContinuedTyped ==
    ASSUME NEW v, WellFormed(v), NEW g \in Grants,
           NEW parent \in Requests, NEW child \in Requests,
           CanContinue(v, g, parent, child)
    PROVE  LET n == Continued(v, g, parent, child) IN
           /\ WellFormed(n)
           /\ n.roots = v.roots
           /\ n.runs[child] = NewRun(g, parent)
           /\ n.runs[parent].state = "ToolsSubmitted"
           /\ n.runs[parent].owner = v.runs[parent].owner
           /\ n.runs[parent].parent = v.runs[parent].parent
           /\ n.runs[parent].child = child
           /\ \A q \in Requests \ {parent, child} : n.runs[q] = v.runs[q]
  <1> DEFINE n == Continued(v, g, parent, child)
             logged == Logged(v.runs[parent], <<"ToolResultsSubmitted">>, "ToolsSubmitted")
             closed == [logged EXCEPT !.child = child]
  <1>1. v \in VaultState /\ v.runs[parent] \in StoredInference
    BY DEF WellFormed, VaultState
  <1>2. <<"ToolResultsSubmitted">> \in Seq(JournalEventKind) /\ "ToolsSubmitted" \in RunState
    BY DEF JournalEventKind, RunState, Terminal
  <1>3. /\ parent # child /\ Exists(v, parent) /\ ~Exists(v, child) /\ HasRoom(v)
        /\ CanLog(v.runs[parent], <<"ToolResultsSubmitted">>)
    BY DEF CanContinue
  <1>4. /\ logged \in StoredInference /\ Len(logged.log) <= MaxEvents
        /\ logged.state = "ToolsSubmitted" /\ SameLinks(logged, v.runs[parent])
    BY <1>1, <1>2, <1>3, LoggedTyped
  <1> HIDE DEF logged
  <1>5. /\ closed \in StoredInference /\ Len(closed.log) <= MaxEvents
        /\ closed.state = "ToolsSubmitted" /\ closed.child = child
        /\ closed.owner = v.runs[parent].owner /\ closed.parent = v.runs[parent].parent
    BY <1>4 DEF StoredInference, SameLinks
  <1>6. NewRun(g, parent) \in StoredInference /\ Len(NewRun(g, parent).log) <= MaxEvents
    BY NewRunTyped
  <1>7. n = [v EXCEPT !.runs = [[v.runs EXCEPT ![parent] = closed] EXCEPT ![child] = NewRun(g, parent)]]
    BY DEF Continued, logged
  <1> HIDE DEF closed, n
  <1>8. /\ n \in VaultState
        /\ n.roots = v.roots
        /\ n.runs = [[v.runs EXCEPT ![parent] = closed] EXCEPT ![child] = NewRun(g, parent)]
    BY <1>1, <1>5, <1>6, <1>7 DEF VaultState
  <1>9. /\ n.runs[child] = NewRun(g, parent)
        /\ n.runs[parent] = closed
        /\ \A q \in Requests \ {parent, child} : n.runs[q] = v.runs[q]
    BY <1>1, <1>3, <1>8 DEF VaultState
  <1>10. Stored(n) = Stored(v) \cup {child}
    BY <1>3, <1>5, <1>9 DEF Stored, Exists, NewRun
  <1>11. IsFiniteSet(Stored(n)) /\ Cardinality(Stored(n)) <= MaxRuns
    BY <1>3, <1>10, StoredGrows
  <1>12. child # None
    BY JournalAssumption
  <1>13. \A q \in Requests :
           /\ Len(n.runs[q].log) <= MaxEvents
           /\ Exists(n, q) => n.runs[q].owner \in Grants
           /\ ~Exists(n, q) => n.runs[q] = NoRun
           /\ n.runs[q].state = "ToolsSubmitted" => n.runs[q].child # None
    <2> TAKE q \in Requests
    <2>1. CASE q = child
      <3>1. NewRun(g, parent).state = "Prepared" /\ NewRun(g, parent).owner = g
        BY DEF NewRun
      <3> QED
        BY <1>6, <1>9, <2>1, <3>1 DEF Exists
    <2>2. CASE q = parent
      <3>1. v.runs[parent].owner \in Grants
        BY <1>3 DEF WellFormed
      <3> QED
        BY <1>5, <1>9, <1>12, <2>2, <3>1 DEF Exists
    <2>3. CASE q \notin {parent, child}
      BY <1>9, <2>3 DEF WellFormed, Exists
    <2> QED
      BY <2>1, <2>2, <2>3
  <1>14. WellFormed(n)
    BY <1>8, <1>11, <1>13 DEF WellFormed
  <1> QED
    BY <1>5, <1>8, <1>9, <1>14 DEF n

-----------------------------------------------------------------------------
(* The three invariants on a vault value. *)

Sound(v) == WellFormed(v) /\ Exclusive(v) /\ Bound(v) /\ Linked(v)

\* An operation that admits nothing leaves owners, links and bindings alone,
\* and revives no terminal run.
LEMMA EvolvesSound ==
    ASSUME NEW v, Sound(v), NEW n, WellFormed(n), Evolves(v, n)
    PROVE  Sound(n)
  <1>1. Stored(n) = Stored(v)
    BY DEF Evolves, Stored
  <1>2. Exclusive(n)
    BY <1>1 DEF Sound, Exclusive, Evolves, SameLinks, Stored
  <1>3. Bound(n)
    BY <1>1 DEF Sound, Bound, Evolves, SameLinks, Stored
  <1>4. Linked(n)
    BY DEF Sound, Linked, Evolves, SameLinks
  <1> QED
    BY <1>2, <1>3, <1>4 DEF Sound

\* A prepare finds neither a live assignment of its task nor a foreign root.
LEMMA PreparedSound ==
    ASSUME NEW v, Sound(v), NEW g \in Grants, NEW r \in Requests,
           CanPrepare(v, g, r)
    PROVE  Sound(Prepared(v, g, r))
  <1> DEFINE n == Prepared(v, g, r)
  <1>1. WellFormed(v)
    BY DEF Sound
  <1>2. /\ WellFormed(n)
        /\ \A q \in Requests : n.runs[q] = IF q = r THEN NewRun(g, None) ELSE v.runs[q]
        /\ n.roots = [v.roots EXCEPT ![g.execution.root] = RootBinding(g)]
    BY <1>1, PreparedTyped
  <1> HIDE DEF n
  <1>3. ~Exists(v, r) /\ TaskAdmits(v, g) /\ RootAdmits(v, g)
    BY DEF CanPrepare
  <1>4. n.runs[r].owner = g /\ n.runs[r].parent = None /\ n.runs[r].child = None
    BY <1>2 DEF NewRun
  <1>5. Stored(n) = Stored(v) \cup {r} /\ r \notin Stored(v)
    BY <1>2, <1>3 DEF Stored, Exists, NewRun
  <1>6. \A q \in Stored(v) :
           /\ n.runs[q] = v.runs[q] /\ q \in Requests
           /\ v.runs[q].owner \in Grants
           /\ v.runs[q].owner.fencing \in Nat
    BY <1>1, <1>2, <1>5, JournalAssumption DEF Stored, WellFormed
  <1>7. g.fencing \in Nat /\ g.execution.root \in Roots
    BY JournalAssumption
  <1>8. Exclusive(n)
    <2> SUFFICES ASSUME NEW p \in Stored(n), NEW q \in Stored(n),
                        n.runs[p].state \notin Terminal,
                        n.runs[q].owner.execution.task = n.runs[p].owner.execution.task
                 PROVE  \/ SameAssignment(n.runs[q].owner, n.runs[p].owner)
                        \/ n.runs[q].owner.fencing < n.runs[p].owner.fencing
      BY DEF Exclusive
    <2>1. CASE p = r /\ q = r
      BY <2>1 DEF SameAssignment
    <2>2. CASE p = r /\ q \in Stored(v)
      BY <1>3, <1>4, <1>6, <1>7, <2>2 DEF TaskAdmits
    <2>3. CASE p \in Stored(v) /\ q = r
      BY <1>3, <1>4, <1>6, <2>3 DEF TaskAdmits, SameAssignment
    <2>4. CASE p \in Stored(v) /\ q \in Stored(v)
      BY <1>6, <2>4 DEF Sound, Exclusive
    <2> QED
      BY <1>5, <2>1, <2>2, <2>3, <2>4
  <1>9. Bound(n)
    <2> SUFFICES ASSUME NEW q \in Stored(n)
                 PROVE  n.roots[n.runs[q].owner.execution.root] = RootBinding(n.runs[q].owner)
      BY DEF Bound
    <2>1. v.roots \in [Roots -> {RootBinding(h) : h \in Grants} \cup {None}]
      BY <1>1 DEF WellFormed, VaultState
    <2>2. CASE q = r
      BY <1>2, <1>4, <1>7, <2>1, <2>2
    <2>3. CASE q \in Stored(v)
      <3>1. v.roots[v.runs[q].owner.execution.root] = RootBinding(v.runs[q].owner)
        BY <2>3 DEF Sound, Bound
      <3>2. RootBinding(v.runs[q].owner) # None
        BY <1>6, <2>3, JournalAssumption DEF RootBinding
      <3>3. v.runs[q].owner.execution.root = g.execution.root
               => RootBinding(v.runs[q].owner) = RootBinding(g)
        BY <1>3, <3>1, <3>2 DEF RootAdmits
      <3> QED
        BY <1>2, <1>6, <2>1, <2>3, <3>1, <3>3, JournalAssumption
    <2> QED
      BY <1>5, <2>2, <2>3
  <1>10. Linked(n)
    <2>1. v.runs[r] = NoRun
      BY <1>1, <1>3 DEF WellFormed
    <2>2. /\ v.runs[r].child = None /\ v.runs[r].parent = None
          /\ \A q \in Requests : /\ n.runs[q].child = v.runs[q].child
                                 /\ n.runs[q].parent = v.runs[q].parent
      BY <1>2, <1>4, <2>1 DEF NoRun
    <2>3. \A q \in Requests \ {r} : n.runs[q] = v.runs[q]
      BY <1>2
    <2>4. \A p \in Requests : v.runs[p].child # r
      BY <1>3 DEF Sound, Linked
    <2>5. None \notin Requests
      BY JournalAssumption
    <2> QED
      BY <2>2, <2>3, <2>4, <2>5 DEF Sound, Linked, Exists
  <1> QED
    BY <1>2, <1>8, <1>9, <1>10 DEF Sound, n

\* A continuation takes over the task of a parent that has no child yet.
LEMMA ContinuedSound ==
    ASSUME NEW v, Sound(v), NEW g \in Grants,
           NEW parent \in Requests, NEW child \in Requests,
           CanContinue(v, g, parent, child)
    PROVE  Sound(Continued(v, g, parent, child))
  <1> DEFINE n == Continued(v, g, parent, child)
  <1>1. WellFormed(v)
    BY DEF Sound
  <1>2. /\ WellFormed(n)
        /\ n.roots = v.roots
        /\ n.runs[child] = NewRun(g, parent)
        /\ n.runs[parent].state = "ToolsSubmitted"
        /\ n.runs[parent].owner = v.runs[parent].owner
        /\ n.runs[parent].parent = v.runs[parent].parent
        /\ n.runs[parent].child = child
        /\ \A q \in Requests \ {parent, child} : n.runs[q] = v.runs[q]
    BY <1>1, ContinuedTyped
  <1> HIDE DEF n
  <1>3. /\ parent # child /\ Exists(v, parent) /\ ~Exists(v, child)
        /\ v.runs[parent].owner = g /\ v.runs[parent].child = None
        /\ v.runs[parent].state \in {"AwaitingTools", "ToolsSubmitted"}
    BY DEF CanContinue, Owns
  \* The parent is live: a consumed one would have a child.
  <1>4. v.runs[parent].state = "AwaitingTools" /\ v.runs[parent].state \notin Terminal
    BY <1>1, <1>3 DEF WellFormed, Terminal
  <1>5. n.runs[child].owner = g /\ n.runs[child].parent = parent /\ n.runs[child].child = None
    BY <1>2 DEF NewRun
  <1>6. Stored(n) = Stored(v) \cup {child} /\ parent \in Stored(v) /\ child \notin Stored(v)
    BY <1>2, <1>3 DEF Stored, Exists, NewRun
  <1>7. \A q \in Stored(v) :
           /\ n.runs[q].owner = v.runs[q].owner
           /\ n.runs[q].state \notin Terminal => v.runs[q].state \notin Terminal
    BY <1>2, <1>4, <1>6 DEF Stored
  <1>8. Exclusive(n)
    <2> SUFFICES ASSUME NEW p \in Stored(n), NEW q \in Stored(n),
                        n.runs[p].state \notin Terminal,
                        n.runs[q].owner.execution.task = n.runs[p].owner.execution.task
                 PROVE  \/ SameAssignment(n.runs[q].owner, n.runs[p].owner)
                        \/ n.runs[q].owner.fencing < n.runs[p].owner.fencing
      BY DEF Exclusive
    <2> DEFINE old(x) == IF x = child THEN parent ELSE x
    <2>1. \A x \in Stored(n) :
             /\ old(x) \in Stored(v)
             /\ n.runs[x].owner = v.runs[old(x)].owner
             /\ n.runs[x].state \notin Terminal => v.runs[old(x)].state \notin Terminal
      BY <1>3, <1>4, <1>5, <1>6, <1>7
    <2> QED
      BY <2>1 DEF Sound, Exclusive
  <1>9. Bound(n)
    BY <1>2, <1>3, <1>5, <1>6, <1>7 DEF Sound, Bound
  <1>10. Linked(n)
    <2>1. v.runs[child] = NoRun /\ v.runs[child].child = None /\ v.runs[child].parent = None
      <3>1. v.runs[child] = NoRun
        BY <1>1, <1>3 DEF WellFormed
      <3>2. NoRun.child = None /\ NoRun.parent = None
        BY DEF NoRun
      <3> QED
        BY <3>1, <3>2
    <2>2. None \notin Requests
      BY JournalAssumption
    <2>3. /\ \A p \in Requests : v.runs[p].child # child
          /\ \A c \in Requests : v.runs[c].parent # parent
          /\ \A c \in Requests : v.runs[c].parent # child
      BY <1>3, <2>1, <2>2 DEF Sound, Linked
    <2> SUFFICES ASSUME NEW p \in Requests, NEW c \in Requests
                 PROVE  /\ n.runs[p].child = c <=> n.runs[c].parent = p
                        /\ n.runs[p].child = c =>
                              /\ n.runs[p].state = "ToolsSubmitted"
                              /\ Exists(n, c) /\ n.runs[c].owner = n.runs[p].owner
      BY DEF Linked
    <2>4. /\ v.runs[p].child = c <=> v.runs[c].parent = p
          /\ v.runs[p].child = c =>
                /\ v.runs[p].state = "ToolsSubmitted"
                /\ Exists(v, c) /\ v.runs[c].owner = v.runs[p].owner
      BY DEF Sound, Linked
    <2>5. Exists(n, child) /\ (Exists(v, c) => Exists(n, c))
      BY <1>2, <1>3 DEF Exists, NewRun
    <2>6. \A q \in Requests \ {child} : n.runs[q].parent = v.runs[q].parent
      BY <1>2
    <2>7. CASE p = parent
      BY <1>2, <1>3, <1>5, <2>3, <2>5, <2>6, <2>7
    <2>8. CASE p = child
      BY <1>3, <1>5, <2>2, <2>3, <2>6, <2>8
    <2>9. CASE p \notin {parent, child}
      <3>1. n.runs[p] = v.runs[p]
        BY <1>2, <2>9
      <3>2. CASE c = child
        BY <1>5, <2>3, <2>9, <3>1, <3>2
      <3>3. CASE c # child
        BY <1>2, <2>4, <2>5, <2>6, <3>1, <3>3
      <3> QED
        BY <3>2, <3>3
    <2> QED
      BY <2>7, <2>8, <2>9
  <1> QED
    BY <1>2, <1>8, <1>9, <1>10 DEF Sound, n

-----------------------------------------------------------------------------
(* The inductive invariant.  AtMostOnePost alone is not inductive: that a  *)
(* sent request is never dispatched again rests on its run being past      *)
(* Prepared in the memory and in the file a restart would read.            *)

Unsent(r) == posts[r] = 0 /\ permit[r] = "none"

SentOnce ==
    \A r \in Requests :
        /\ posts[r] \in {0, 1}
        /\ permit[r] = "held" => posts[r] = 0
        /\ Unsent(r) \/ (Begun(vault, r) /\ Begun(disk, r))

Inv ==
    /\ Sound(vault) /\ Sound(disk)
    /\ up \in BOOLEAN
    /\ permit \in [Requests -> {"none", "held", "open"}]
    /\ posts \in [Requests -> Nat]
    /\ SentOnce

\* Committing a sound successor of the memory, saved or torn, while permits
\* are at most given up.
LEMMA Committing ==
    ASSUME Inv, NEW n, Sound(n),
           \A r \in Requests : Begun(vault, r) => Begun(n, r),
           Commit(n),
           permit' \in [Requests -> {"none", "held", "open"}],
           \A r \in Requests : permit'[r] \in {permit[r], "none"},
           UNCHANGED <<up, posts>>
    PROVE  Inv'
  <1>1. vault' \in {vault, n} /\ disk' = n
    BY DEF Commit, Saved, Torn
  <1>2. Sound(vault)' /\ Sound(disk)'
    BY <1>1 DEF Inv
  <1>3. SentOnce'
    BY <1>1 DEF Inv, SentOnce, Unsent, Begun
  <1> QED
    BY <1>2, <1>3 DEF Inv

\* The empty vault satisfies the invariant.
LEMMA InitInv == ASSUME Init PROVE Inv
  <1>1. EmptyLedger \in Ledger
    BY DEF EmptyLedger, Ledger, NoReservation, Reservation, ReservationStatus
  <1>2. NoRun \in StoredInference
    BY DEF NoRun, StoredInference
  <1>3. EmptyVault \in VaultState
    BY <1>1, <1>2 DEF EmptyVault, VaultState
  <1>4. \A r \in Requests : EmptyVault.runs[r] = NoRun /\ ~Exists(EmptyVault, r)
    BY DEF EmptyVault, NoRun, Exists
  <1>5. Stored(EmptyVault) = {}
    BY <1>4 DEF Stored
  <1>6. IsFiniteSet({}) /\ Cardinality({}) = 0
    BY FS_EmptySet
  <1>7. WellFormed(EmptyVault)
    <2>1. NoRun.state = "Absent" /\ Len(NoRun.log) = 0
      BY DEF NoRun
    <2> QED
      BY <1>3, <1>4, <1>5, <1>6, <2>1, JournalAssumption DEF WellFormed
  <1>8. Exclusive(EmptyVault) /\ Bound(EmptyVault)
    BY <1>5 DEF Exclusive, Bound
  <1>9. Linked(EmptyVault)
    BY <1>4, JournalAssumption DEF Linked, NoRun
  <1> QED
    BY <1>7, <1>8, <1>9 DEF Init, Inv, Sound, SentOnce, Unsent

\* Every action preserves it: one step per action.
LEMMA NextInv == ASSUME Inv, [Next]_vars PROVE Inv'
  <1>1. /\ Sound(vault) /\ WellFormed(vault)
        /\ Sound(disk) /\ WellFormed(disk)
        /\ permit \in [Requests -> {"none", "held", "open"}]
        /\ posts \in [Requests -> Nat]
    BY DEF Inv, Sound
  \* What is left to show of a commit that admits nothing.
  <1>2. ASSUME NEW n, WellFormed(n), Evolves(vault, n), Commit(n),
               permit' \in [Requests -> {"none", "held", "open"}],
               \A r \in Requests : permit'[r] \in {permit[r], "none"},
               UNCHANGED <<up, posts>>
        PROVE  Inv'
    <2>1. Sound(n)
      BY <1>1, <1>2, EvolvesSound
    <2>2. \A r \in Requests : Begun(vault, r) => Begun(n, r)
      BY <1>2 DEF Evolves
    <2> QED
      BY <1>2, <2>1, <2>2, Committing
  <1>3. ASSUME NEW g \in Grants, NEW r \in Requests, Prepare(g, r) PROVE Inv'
    <2>1. CanPrepare(vault, g, r) /\ Commit(Prepared(vault, g, r)) /\ UNCHANGED <<up, permit, posts>>
      BY <1>3 DEF Prepare
    <2>2. Sound(Prepared(vault, g, r))
      BY <1>1, <2>1, PreparedSound
    <2>3. \A q \in Requests : Begun(vault, q) => Begun(Prepared(vault, g, r), q)
      <3>1. \A q \in Requests : Prepared(vault, g, r).runs[q] =
                IF q = r THEN NewRun(g, None) ELSE vault.runs[q]
        <4> DEFINE n == Prepared(vault, g, r)
        <4>1. WellFormed(vault) /\ CanPrepare(vault, g, r)
          BY <1>1, <2>1
        <4>2. /\ WellFormed(n)
              /\ \A q \in Requests : n.runs[q] = IF q = r THEN NewRun(g, None) ELSE vault.runs[q]
              /\ n.roots = [vault.roots EXCEPT ![g.execution.root] = RootBinding(g)]
          BY <4>1, PreparedTyped
        <4> QED
          BY <4>2
      <3>2. ~Begun(vault, r)
        BY <2>1 DEF CanPrepare, Exists, Begun
      <3> QED
        BY <3>1, <3>2 DEF Begun
    <2> QED
      BY <1>1, <2>1, <2>2, <2>3, Committing
  <1>4. ASSUME NEW g \in Grants, NEW r \in Requests, Cancel(g, r) PROVE Inv'
    BY <1>1, <1>2, <1>4, CancelledTyped DEF Cancel
  <1>5. ASSUME NEW g \in Grants, NEW r \in Requests, NEW ceiling \in Ceilings \cup {None},
               Dispatch(g, r, ceiling)
        PROVE  Inv'
    <2> DEFINE n == Dispatched(vault, r, ceiling)
    <2>1. WellFormed(n) /\ Evolves(vault, n) /\ Begun(n, r) /\ vault.runs[r].state = "Prepared"
      BY <1>1, <1>5, DispatchedTyped DEF Dispatch, CanDispatch
    <2>2. \/ Saved(n) /\ permit' = [permit EXCEPT ![r] = "held"]
          \/ Torn(n) /\ UNCHANGED permit
      BY <1>5 DEF Dispatch
    <2>3. UNCHANGED <<up, posts>>
      BY <1>5 DEF Dispatch
    <2> HIDE DEF n
    <2>4. CASE Torn(n) /\ UNCHANGED permit
      BY <1>1, <1>2, <2>1, <2>3, <2>4 DEF Commit
    <2>5. CASE Saved(n) /\ permit' = [permit EXCEPT ![r] = "held"]
      <3>1. Sound(n)
        BY <1>1, <2>1, EvolvesSound
      <3>2. vault' = n /\ disk' = n
        BY <2>5 DEF Saved
      <3>3. Sound(vault)' /\ Sound(disk)'
        BY <3>1, <3>2
      \* The run was Prepared, so nothing of it can have been sent.
      <3>4. posts[r] = 0
        BY <2>1 DEF Inv, SentOnce, Unsent, Begun
      <3>5. SentOnce'
        BY <1>1, <2>1, <2>3, <2>5, <3>2, <3>4 DEF Inv, SentOnce, Unsent, Evolves, Begun
      <3> QED
        BY <1>1, <2>3, <2>5, <3>3, <3>5 DEF Inv
    <2> QED
      BY <2>2, <2>4, <2>5
  <1>6. ASSUME NEW r \in Requests, Post(r) PROVE Inv'
    BY <1>1, <1>6 DEF Post, Inv, SentOnce, Unsent, Begun
  <1>7. ASSUME NEW r \in Requests, LoseTransport(r) PROVE Inv'
    BY <1>1, <1>7 DEF LoseTransport, Inv, SentOnce, Unsent, Begun
  <1>8. ASSUME NEW r \in Requests, RecordDelta(r) PROVE Inv'
    BY <1>1, <1>2, <1>8, DeltaTyped DEF RecordDelta
  <1>9. ASSUME NEW r \in Requests, MarkUnknown(r) PROVE Inv'
    BY <1>1, <1>2, <1>9, ForgottenTyped DEF MarkUnknown
  <1>10. ASSUME NEW r \in Requests, NEW outcome \in TerminalOutcome,
                NEW cost \in Costs \cup {None}, Finish(r, outcome, cost)
         PROVE  Inv'
    BY <1>1, <1>2, <1>10, FinishedTyped DEF Finish, Receipt
  <1>11. ASSUME NEW r \in Requests, NEW cost \in Costs \cup {None}, FinishTools(r, cost)
         PROVE  Inv'
    BY <1>1, <1>2, <1>11, ToolsFinishedTyped DEF FinishTools, Receipt
  <1>12. ASSUME NEW r \in Requests, NEW cost \in Costs, ReconcileCost(r, cost) PROVE Inv'
    BY <1>1, <1>2, <1>12, CostReconciledTyped DEF ReconcileCost
  <1>13. ASSUME NEW g \in Grants, NEW parent \in Requests, NEW child \in Requests,
                Continue(g, parent, child)
         PROVE  Inv'
    <2> DEFINE n == Continued(vault, g, parent, child)
    <2>1. CanContinue(vault, g, parent, child) /\ Commit(n) /\ UNCHANGED <<up, permit, posts>>
      BY <1>13 DEF Continue
    <2>2. Sound(n)
      BY <1>1, <2>1, ContinuedSound
    <2>3. \A q \in Requests : Begun(vault, q) => Begun(n, q)
      <3>1. /\ n.runs[parent].state = "ToolsSubmitted"
            /\ \A q \in Requests \ {parent, child} : n.runs[q] = vault.runs[q]
        BY <1>1, <2>1, ContinuedTyped
      <3>2. ~Begun(vault, child)
        BY <2>1 DEF CanContinue, Exists, Begun
      <3> QED
        BY <3>1, <3>2 DEF Begun
    <2> QED
      BY <1>1, <2>1, <2>2, <2>3, Committing
  <1>14. ASSUME NEW p \in Providers, Connect(p) \/ Disconnect(p) PROVE Inv'
    BY <1>1, <1>2, <1>14, ConnectionTyped DEF Connect, Disconnect
  <1>15. ASSUME Crash PROVE Inv'
    <2>1. vault' = disk' /\ vault' \in {vault, disk}
      BY <1>15 DEF Crash
    <2>2. Sound(vault)' /\ Sound(disk)'
      BY <1>1, <2>1
    <2>3. SentOnce'
      BY <1>15, <2>1 DEF Crash, Inv, SentOnce, Unsent, Begun
    <2> QED
      BY <1>1, <1>15, <2>2, <2>3 DEF Crash, Inv
  <1>16. ASSUME Restart PROVE Inv'
    <2> DEFINE n == Restarted(disk)
    <2>1. WellFormed(n) /\ Evolves(disk, n)
      BY <1>1, <1>16, RestartedTyped DEF Restart
    <2>2. Sound(n)
      BY <1>1, <2>1, EvolvesSound
    <2>3. vault' = n /\ disk' = n /\ up' = TRUE /\ UNCHANGED <<permit, posts>>
      BY <1>16 DEF Restart, Saved
    <2>4. SentOnce'
      BY <2>1, <2>3 DEF Inv, SentOnce, Unsent, Evolves, Begun
    <2> QED
      BY <1>1, <2>2, <2>3, <2>4 DEF Inv
  <1>17. ASSUME NEW r \in Requests, RecordGeneration(r) PROVE Inv'
    BY <1>1, <1>2, <1>17, GenerationRecordedTyped DEF RecordGeneration
  <1>18. ASSUME NEW r \in Requests, NEW outcome \in TerminalOutcome,
                NEW cost \in Costs \cup {None}, ReconcileGeneration(r, outcome, cost)
         PROVE  Inv'
    <2>1. CanFinish(vault, r, outcome, cost)
      BY <1>18 DEF ReconcileGeneration, CanReconcileGeneration
    <2> QED
      BY <1>1, <1>2, <1>18, <2>1, FinishedTyped DEF ReconcileGeneration
  <1>19. CASE UNCHANGED vars
    BY <1>19 DEF vars, Inv, Sound, SentOnce, Unsent, Begun
  <1> QED
    BY <1>3, <1>4, <1>5, <1>6, <1>7, <1>8, <1>9, <1>10, <1>11, <1>12, <1>13,
       <1>14, <1>15, <1>16, <1>17, <1>18, <1>19 DEF Next

\* Memory and vault file are sound in every reachable state, and a request that
\* was sent, or may still be, is past its intent in both.
THEOREM Invariance == Spec => []Inv
  <1>1. Init => Inv
    BY InitInv
  <1>2. Inv /\ [Next]_vars => Inv'
    BY NextInv
  <1> QED
    BY <1>1, <1>2, PTL DEF Spec

-----------------------------------------------------------------------------
(* The theorems about runs. *)

\* The effective state and the vault file are well-typed in every reachable
\* state, and neither a log nor the journal outgrows its limit.
THEOREM TypeCorrect == Spec => []TypeOK
  <1>1. Inv => TypeOK
    BY DEF Inv, Sound, WellFormed, TypeOK
  <1> QED
    BY <1>1, Invariance, PTL

\* However commits fail and wherever the process crashes, a request reaches
\* the provider at most once.
THEOREM SendsAtMostOnce == Spec => []AtMostOnePost
  <1>1. Inv => AtMostOnePost
    BY DEF Inv, SentOnce, AtMostOnePost
  <1> QED
    BY <1>1, Invariance, PTL

\* No two assignments of a task are live together, in the memory or in the
\* file that a restart reads.
THEOREM AssignmentsExclude == Spec => []TaskExclusive
  <1>1. Inv => TaskExclusive
    BY DEF Inv, Sound, TaskExclusive
  <1> QED
    BY <1>1, Invariance, PTL

\* A root task keeps the tenant and the profile revision of its first run.
THEOREM RootsKeepBinding == Spec => []RootFrozen
  <1>1. Inv => RootFrozen
    BY DEF Inv, Sound, RootFrozen
  <1> QED
    BY <1>1, Invariance, PTL

\* A tool turn is continued at most once, by a run of the same assignment.
THEOREM ContinuesAtMostOnce == Spec => []SingleContinuation
  <1>1. Inv => SingleContinuation
    BY DEF Inv, Sound, SingleContinuation
  <1> QED
    BY <1>1, Invariance, PTL

-----------------------------------------------------------------------------
(* The ledger and the file: what an operation does, one operation ahead. *)

\* One operation on the vault state.
Operation(v, n) ==
    \/ JournalStep(v, n)
    \/ \E p \in Providers : \/ CanConnect(v, p) /\ n = Connected(v, p)
                            \/ CanDisconnect(v, p) /\ n = Disconnected(v, p)

KeepsRuns(v, n) ==
    \A q \in Requests : Begun(v, q) => Begun(n, q) /\ n.runs[q].owner = v.runs[q].owner

AfterCancel == {"CancellationRequested", "Unknown", "Completed", "Cancelled", "Failed"}

KeepsCancel(v, n) ==
    \A q \in Requests :
        v.runs[q].state = "CancellationRequested" => n.runs[q].state \in AfterCancel

\* What an operation does to the ledger.
Holds(v, n, r) ==
    \E ceiling \in Ceilings :
        /\ v.budget[r].status = "Absent"
        /\ ~PaidDispatchBlocked(v.budget)
        /\ Committed(v.budget) + ceiling <= Limit
        /\ n.budget = [v.budget EXCEPT ![r] =
              [status |-> "Dispatched", ceiling |-> ceiling, actual |-> None]]

Doubts(v, n, r) == InDoubt(v.budget, r) /\ n.budget = MarkUncertain(v.budget, r)

Bills(v, n, r) ==
    \E cost \in Costs :
        /\ InDoubt(v.budget, r) /\ Begun(v, r) /\ Paid(v.runs[r])
        /\ n.budget = Settle(v.budget, r, cost)

Moves(v, n) ==
    \/ n.budget = v.budget
    \/ \E r \in Requests : Holds(v, n, r) \/ Doubts(v, n, r) \/ Bills(v, n, r)

Effects(v, n) == KeepsRuns(v, n) /\ KeepsCancel(v, n) /\ Moves(v, n)

-----------------------------------------------------------------------------
(* The effects of every operation. *)

\* Logging changes the state of a run as asked, and not its owner.
LEMMA LoggedRun ==
    ASSUME NEW run \in StoredInference, NEW kinds, NEW state
    PROVE  Logged(run, kinds, state).state = state /\ Logged(run, kinds, state).owner = run.owner
  BY DEF Logged, StoredInference

\* Replacing one run by one that goes on from it.
LEMMA OneRun ==
    ASSUME NEW v, WellFormed(v), NEW r \in Requests, NEW run, NEW n,
           n.runs = [v.runs EXCEPT ![r] = run],
           Begun(v, r) => run.state \notin {"Absent", "Prepared"} /\ run.owner = v.runs[r].owner,
           v.runs[r].state = "CancellationRequested" => run.state \in AfterCancel
    PROVE  KeepsRuns(v, n) /\ KeepsCancel(v, n)
  <1>1. \A q \in Requests : n.runs[q] = IF q = r THEN run ELSE v.runs[q]
    BY DEF WellFormed, VaultState
  <1>2. \A q \in Requests : v.runs[q].state = "CancellationRequested"
            => v.runs[q].state \in AfterCancel
    BY DEF AfterCancel
  <1>3. KeepsRuns(v, n)
    BY <1>1 DEF KeepsRuns, Begun
  <1>4. KeepsCancel(v, n)
    BY <1>1, <1>2 DEF KeepsCancel
  <1> QED
    BY <1>3, <1>4

\* The shape of a well-formed vault value, for what follows.
LEMMA Shape ==
    ASSUME NEW v, WellFormed(v)
    PROVE  /\ v \in VaultState /\ v.budget \in Ledger
           /\ \A r \in Requests : v.runs[r] \in StoredInference
  BY DEF WellFormed, VaultState

\* A receipt moves the ledger.
LEMMA ChargedMoves ==
    ASSUME NEW v, WellFormed(v), NEW r \in Requests, Begun(v, r),
           NEW cost \in Costs \cup {None}, CanCharge(v, r, cost),
           NEW n, n.budget = Charged(v, r, cost)
    PROVE  Moves(v, n)
  <1>1. CASE ~Paid(v.runs[r])
    BY <1>1 DEF Charged, Moves
  <1>2. CASE Paid(v.runs[r]) /\ cost = None
    BY <1>2 DEF Charged, CanCharge, CanMarkUncertain, Moves, Doubts
  <1>3. CASE Paid(v.runs[r]) /\ cost # None
    <2>1. cost \in Costs /\ n.budget = Settle(v.budget, r, cost) /\ CanSettle(v.budget, r, cost)
      BY <1>3 DEF Charged, CanCharge
    <2>2. CASE InDoubt(v.budget, r)
      BY <1>3, <2>1, <2>2 DEF Moves, Bills
    <2>3. CASE Accounted(v.budget, r)
      BY <2>1, <2>3 DEF Settle, Moves
    <2> QED
      BY <2>1, <2>2, <2>3 DEF CanSettle
  <1> QED
    BY <1>1, <1>2, <1>3

\* prepare_inference,
LEMMA PreparedEffects ==
    ASSUME NEW v, WellFormed(v), NEW g \in Grants, NEW r \in Requests, CanPrepare(v, g, r)
    PROVE  Effects(v, Prepared(v, g, r))
  <1> DEFINE n == Prepared(v, g, r)
  <1>1. \A q \in Requests : n.runs[q] = IF q = r THEN NewRun(g, None) ELSE v.runs[q]
    BY PreparedTyped, ZenonT(30)
  <1>2. n.budget = v.budget
    BY Shape DEF Prepared, VaultState
  <1>3. v.runs[r].state = "Absent"
    BY DEF CanPrepare, Exists
  <1> HIDE DEF n
  <1>4. KeepsRuns(v, n)
    BY <1>1, <1>3 DEF KeepsRuns, Begun
  <1>5. KeepsCancel(v, n)
    BY <1>1, <1>3 DEF KeepsCancel, AfterCancel
  <1> QED
    BY <1>2, <1>4, <1>5 DEF Effects, Moves, n

\* cancel_inference,
LEMMA CancelledEffects ==
    ASSUME NEW v, WellFormed(v), NEW g \in Grants, NEW r \in Requests, CanCancel(v, g, r)
    PROVE  Effects(v, Cancelled(v, r))
  <1> DEFINE n == Cancelled(v, r)
             state == IF v.runs[r].state \in {"AwaitingTools", "Prepared"}
                      THEN "Cancelled" ELSE "CancellationRequested"
             run == Logged(v.runs[r], <<CancelEvent(v.runs[r].state)>>, state)
  <1>1. n = [v EXCEPT !.runs[r] = run]
    BY DEF Cancelled
  <1>2. run.state = state /\ run.owner = v.runs[r].owner
    BY Shape, LoggedRun
  <1>3. state \notin {"Absent", "Prepared"} /\ v.runs[r].state # "CancellationRequested"
    BY DEF CanCancel
  <1> HIDE DEF run, n, state
  <1>4. n.runs = [v.runs EXCEPT ![r] = run] /\ n.budget = v.budget
    BY <1>1, Shape DEF VaultState
  <1>5. KeepsRuns(v, n) /\ KeepsCancel(v, n)
    BY <1>2, <1>3, <1>4, OneRun
  <1> QED
    BY <1>4, <1>5 DEF Effects, Moves, n

\* record_inference_delta,
LEMMA DeltaEffects ==
    ASSUME NEW v, WellFormed(v), NEW r \in Requests, CanDelta(v, r)
    PROVE  Effects(v, Delta(v, r))
  <1> DEFINE n == Delta(v, r)
             state == IF v.runs[r].state = "CancellationRequested"
                      THEN v.runs[r].state ELSE "Running"
             run == Logged(v.runs[r], <<"TextDelta">>, state)
  <1>1. n = [v EXCEPT !.runs[r] = run]
    BY DEF Delta
  <1>2. run.state = state /\ run.owner = v.runs[r].owner
    BY Shape, LoggedRun
  <1>3. /\ state \notin {"Absent", "Prepared"}
        /\ v.runs[r].state = "CancellationRequested" => state \in AfterCancel
    BY DEF AfterCancel
  <1> HIDE DEF run, n, state
  <1>4. n.runs = [v.runs EXCEPT ![r] = run] /\ n.budget = v.budget
    BY <1>1, Shape DEF VaultState
  <1>5. KeepsRuns(v, n) /\ KeepsCancel(v, n)
    BY <1>2, <1>3, <1>4, OneRun
  <1> QED
    BY <1>4, <1>5 DEF Effects, Moves, n

\* mark_inference_unknown,
LEMMA ForgottenEffects ==
    ASSUME NEW v, WellFormed(v), NEW r \in Requests, CanForget(v, r)
    PROVE  Effects(v, Forgotten(v, r))
  <1> DEFINE n == Forgotten(v, r)
             run == Logged(v.runs[r], <<"UnknownOutcome">>, "Unknown")
             b == IF Paid(v.runs[r]) THEN MarkUncertain(v.budget, r) ELSE v.budget
  <1>1. n = [v EXCEPT !.runs[r] = run, !.budget = b]
    BY DEF Forgotten, UnknownRun
  <1>2. run.state = "Unknown" /\ run.owner = v.runs[r].owner
    BY Shape, LoggedRun
  <1> HIDE DEF run, n, b
  <1>3. n.runs = [v.runs EXCEPT ![r] = run] /\ n.budget = b
    BY <1>1, Shape DEF VaultState
  <1>4. KeepsRuns(v, n) /\ KeepsCancel(v, n)
    BY <1>2, <1>3, OneRun DEF AfterCancel
  <1>5. Moves(v, n)
    BY <1>3 DEF b, CanForget, CanMarkUncertain, Moves, Doubts
  <1> QED
    BY <1>4, <1>5 DEF Effects, n

\* dispatch_inference_once,
LEMMA DispatchedEffects ==
    ASSUME NEW v, WellFormed(v), NEW g \in Grants, NEW r \in Requests,
           NEW ceiling \in Ceilings \cup {None}, CanDispatch(v, g, r, ceiling)
    PROVE  /\ Effects(v, Dispatched(v, r, ceiling))
           /\ Paid(v.runs[r]) => Dispatched(v, r, ceiling).budget[r].status # "Absent"
           /\ Dispatched(v, r, ceiling).runs[r].owner = v.runs[r].owner
  <1> DEFINE n == Dispatched(v, r, ceiling)
             run == Logged(v.runs[r], <<"DispatchIntent">>, "Dispatching")
             b == IF ceiling = None THEN v.budget
                  ELSE MarkDispatched(Reserve(v.budget, r, ceiling), r)
  <1>1. n = [v EXCEPT !.runs[r] = run, !.budget = b]
    BY DEF Dispatched
  <1>2. run.state = "Dispatching" /\ run.owner = v.runs[r].owner
    BY Shape, LoggedRun
  <1>3. v.runs[r].state = "Prepared"
    BY DEF CanDispatch
  <1> HIDE DEF run, n, b
  <1>4. n.runs = [v.runs EXCEPT ![r] = run] /\ n.budget = b /\ n.runs[r] = run
    BY <1>1, Shape DEF VaultState
  <1>5. KeepsRuns(v, n) /\ KeepsCancel(v, n)
    BY <1>2, <1>3, <1>4, OneRun
  <1>6. CASE ceiling = None
    <2>1. b = v.budget /\ ~Paid(v.runs[r])
      BY <1>6 DEF b, CanDispatch
    <2> QED
      BY <1>2, <1>4, <1>5, <2>1 DEF Effects, Moves, n
  <1>7. CASE ceiling # None
    <2>1. ceiling \in Ceilings /\ CanReserve(v.budget, r, ceiling)
      BY <1>7 DEF CanDispatch
    <2>2. b = [v.budget EXCEPT ![r] =
                  [status |-> "Dispatched", ceiling |-> ceiling, actual |-> None]]
      BY <1>7, Shape DEF b, MarkDispatched, Reserve, Ledger
    <2>3. b[r].status = "Dispatched"
      BY <2>2, Shape DEF Ledger
    <2>4. Holds(v, n, r)
      BY <1>4, <2>1, <2>2 DEF Holds, CanReserve
    <2> QED
      BY <1>2, <1>4, <1>5, <2>3, <2>4 DEF Effects, Moves, n
  <1> QED
    BY <1>6, <1>7

\* finish_inference,
LEMMA FinishedEffects ==
    ASSUME NEW v, WellFormed(v), NEW r \in Requests, NEW outcome \in TerminalOutcome,
           NEW cost \in Costs \cup {None}, CanFinish(v, r, outcome, cost)
    PROVE  Effects(v, Finished(v, r, outcome, cost))
  <1> DEFINE n == Finished(v, r, outcome, cost)
             run == Logged(v.runs[r], FinishEvents(v, r, outcome, cost), outcome)
             b == Charged(v, r, cost)
  <1>1. n = [v EXCEPT !.runs[r] = run, !.budget = b]
    BY DEF Finished
  <1>2. run.state = outcome /\ run.owner = v.runs[r].owner
    BY Shape, LoggedRun
  <1>3. Begun(v, r) /\ CanCharge(v, r, cost)
    BY DEF CanFinish, Begun, InFlight
  <1> HIDE DEF run, n, b
  <1>4. n.runs = [v.runs EXCEPT ![r] = run] /\ n.budget = b
    BY <1>1, Shape DEF VaultState
  <1>5. KeepsRuns(v, n) /\ KeepsCancel(v, n)
    BY <1>2, <1>4, OneRun DEF AfterCancel, TerminalOutcome
  <1>6. Moves(v, n)
    BY <1>3, <1>4, ChargedMoves DEF b
  <1> QED
    BY <1>5, <1>6 DEF Effects, n

\* finish_inference_tools,
LEMMA ToolsFinishedEffects ==
    ASSUME NEW v, WellFormed(v), NEW r \in Requests,
           NEW cost \in Costs \cup {None}, CanFinishTools(v, r, cost)
    PROVE  Effects(v, ToolsFinished(v, r, cost))
  <1> DEFINE n == ToolsFinished(v, r, cost)
             state == IF v.runs[r].state = "CancellationRequested"
                      THEN "Cancelled" ELSE "AwaitingTools"
             run == Logged(v.runs[r], ToolEvents(v, r, cost), state)
             b == Charged(v, r, cost)
  <1>1. n = [v EXCEPT !.runs[r] = run, !.budget = b]
    BY DEF ToolsFinished
  <1>2. run.state = state /\ run.owner = v.runs[r].owner
    BY Shape, LoggedRun
  <1>3. Begun(v, r) /\ CanCharge(v, r, cost)
    BY DEF CanFinishTools, Begun, InFlight
  <1>4. /\ state \notin {"Absent", "Prepared"}
        /\ v.runs[r].state = "CancellationRequested" => state \in AfterCancel
    BY DEF AfterCancel
  <1> HIDE DEF run, n, b, state
  <1>5. n.runs = [v.runs EXCEPT ![r] = run] /\ n.budget = b
    BY <1>1, Shape DEF VaultState
  <1>6. KeepsRuns(v, n) /\ KeepsCancel(v, n)
    BY <1>2, <1>4, <1>5, OneRun
  <1>7. Moves(v, n)
    BY <1>3, <1>5, ChargedMoves DEF b
  <1> QED
    BY <1>6, <1>7 DEF Effects, n

\* reconcile_inference_cost,
LEMMA CostReconciledEffects ==
    ASSUME NEW v, WellFormed(v), NEW r \in Requests, NEW cost \in Costs,
           CanReconcileCost(v, r, cost)
    PROVE  Effects(v, CostReconciled(v, r, cost))
  <1> DEFINE n == CostReconciled(v, r, cost)
             run == Logged(v.runs[r], ReconcileEvents(v, r, cost), v.runs[r].state)
             b == Settle(v.budget, r, cost)
  <1>1. n = [v EXCEPT !.runs[r] = run, !.budget = b]
    BY DEF CostReconciled
  <1>2. run.state = v.runs[r].state /\ run.owner = v.runs[r].owner
    BY Shape, LoggedRun
  <1>3. /\ Begun(v, r) /\ Paid(v.runs[r]) /\ CanSettle(v.budget, r, cost)
        /\ v.runs[r].state # "CancellationRequested"
    BY DEF CanReconcileCost, Begun, Terminal
  <1> HIDE DEF run, n, b
  <1>4. n.runs = [v.runs EXCEPT ![r] = run] /\ n.budget = b
    BY <1>1, Shape DEF VaultState
  <1>5. KeepsRuns(v, n) /\ KeepsCancel(v, n)
    BY <1>2, <1>3, <1>4, OneRun DEF Begun
  <1>6. CASE InDoubt(v.budget, r)
    BY <1>3, <1>4, <1>5, <1>6 DEF Effects, Moves, Bills, b, n
  <1>7. CASE Accounted(v.budget, r)
    BY <1>4, <1>5, <1>7 DEF Effects, Moves, Settle, b, n
  <1> QED
    BY <1>3, <1>6, <1>7 DEF CanSettle

\* record_openrouter_generation,
LEMMA GenerationRecordedEffects ==
    ASSUME NEW v, WellFormed(v), NEW r \in Requests, CanRecordGeneration(v, r)
    PROVE  Effects(v, GenerationRecorded(v, r))
  <1> DEFINE n == GenerationRecorded(v, r)
             run == [v.runs[r] EXCEPT !.generation = TRUE]
  <1>1. n = [v EXCEPT !.runs[r] = run]
    BY DEF GenerationRecorded
  <1>2. run.state = v.runs[r].state /\ run.owner = v.runs[r].owner
    BY Shape DEF StoredInference
  <1> HIDE DEF run, n
  <1>3. n.runs = [v.runs EXCEPT ![r] = run] /\ n.budget = v.budget
    BY <1>1, Shape DEF VaultState
  <1>4. v.runs[r].state = "CancellationRequested" => run.state \in AfterCancel
    BY <1>2 DEF AfterCancel
  <1>5. KeepsRuns(v, n) /\ KeepsCancel(v, n)
    BY <1>2, <1>3, <1>4, OneRun DEF Begun
  <1> QED
    BY <1>3, <1>5 DEF Effects, Moves, n

\* continue_inference_tools,
LEMMA ContinuedEffects ==
    ASSUME NEW v, WellFormed(v), NEW g \in Grants,
           NEW parent \in Requests, NEW child \in Requests, CanContinue(v, g, parent, child)
    PROVE  Effects(v, Continued(v, g, parent, child))
  <1> DEFINE n == Continued(v, g, parent, child)
  <1>1. /\ n.runs[parent].state = "ToolsSubmitted"
        /\ n.runs[parent].owner = v.runs[parent].owner
        /\ \A q \in Requests \ {parent, child} : n.runs[q] = v.runs[q]
    BY ContinuedTyped
  <1>2. n.budget = v.budget
    BY Shape DEF Continued, VaultState
  <1>3. /\ v.runs[child].state = "Absent"
        /\ v.runs[parent].state # "CancellationRequested"
    BY DEF CanContinue, Exists
  <1> HIDE DEF n
  <1>4. KeepsRuns(v, n)
    BY <1>1, <1>3 DEF KeepsRuns, Begun
  <1>5. KeepsCancel(v, n)
    BY <1>1, <1>3 DEF KeepsCancel, AfterCancel
  <1> QED
    BY <1>2, <1>4, <1>5 DEF Effects, Moves, n

\* and so every operation of the vault.
LEMMA OperationEffects ==
    ASSUME NEW v, WellFormed(v), NEW n, Operation(v, n)
    PROVE  Effects(v, n)
  <1>1. ASSUME NEW p \in Providers, n = Connected(v, p) \/ n = Disconnected(v, p)
        PROVE  Effects(v, n)
    <2>1. n.runs = v.runs /\ n.budget = v.budget
      <3>1. /\ Connected(v, p).runs = v.runs /\ Connected(v, p).budget = v.budget
            /\ Disconnected(v, p).runs = v.runs /\ Disconnected(v, p).budget = v.budget
        <4>1. v \in VaultState
          BY Shape
        <4>2. Connected(v, p).runs = v.runs /\ Connected(v, p).budget = v.budget
          BY <4>1 DEF Connected, VaultState
        <4>3. Disconnected(v, p).runs = v.runs /\ Disconnected(v, p).budget = v.budget
          BY <4>1 DEF Disconnected, VaultState
        <4> QED
          BY <4>2, <4>3
      <3> QED
        BY <1>1, <3>1
    <2> QED
      BY <2>1 DEF Effects, KeepsRuns, KeepsCancel, AfterCancel, Moves, Begun
  <1>2. ASSUME JournalStep(v, n) PROVE Effects(v, n)
    <2>1. PICK r \in Requests :
            \/ \E g \in Grants :
                  \/ CanPrepare(v, g, r) /\ n = Prepared(v, g, r)
                  \/ CanCancel(v, g, r) /\ n = Cancelled(v, r)
                  \/ \E ceiling \in Ceilings \cup {None} :
                        CanDispatch(v, g, r, ceiling) /\ n = Dispatched(v, r, ceiling)
                  \/ \E child \in Requests :
                        CanContinue(v, g, r, child) /\ n = Continued(v, g, r, child)
            \/ CanDelta(v, r) /\ n = Delta(v, r)
            \/ CanForget(v, r) /\ n = Forgotten(v, r)
            \/ CanRecordGeneration(v, r) /\ n = GenerationRecorded(v, r)
            \/ \E cost \in Costs \cup {None} :
                  \/ \E outcome \in TerminalOutcome :
                        CanFinish(v, r, outcome, cost) /\ n = Finished(v, r, outcome, cost)
                  \/ CanFinishTools(v, r, cost) /\ n = ToolsFinished(v, r, cost)
                  \/ cost # None /\ CanReconcileCost(v, r, cost) /\ n = CostReconciled(v, r, cost)
      BY <1>2, Zenon DEF JournalStep
    <2>2. ASSUME NEW g \in Grants, CanPrepare(v, g, r), n = Prepared(v, g, r)
          PROVE  Effects(v, n)
      BY <2>2, PreparedEffects
    <2>3. ASSUME NEW g \in Grants, CanCancel(v, g, r), n = Cancelled(v, r)
          PROVE  Effects(v, n)
      BY <2>3, CancelledEffects
    <2>4. ASSUME NEW g \in Grants, NEW ceiling \in Ceilings \cup {None},
                 CanDispatch(v, g, r, ceiling), n = Dispatched(v, r, ceiling)
          PROVE  Effects(v, n)
      BY <2>4, DispatchedEffects
    <2>5. ASSUME NEW g \in Grants, NEW child \in Requests,
                 CanContinue(v, g, r, child), n = Continued(v, g, r, child)
          PROVE  Effects(v, n)
      BY <2>5, ContinuedEffects
    <2>6. ASSUME NEW cost \in Costs \cup {None}, NEW outcome \in TerminalOutcome,
                 CanFinish(v, r, outcome, cost), n = Finished(v, r, outcome, cost)
          PROVE  Effects(v, n)
      BY <2>6, FinishedEffects
    <2>7. ASSUME NEW cost \in Costs \cup {None}, CanFinishTools(v, r, cost),
                 n = ToolsFinished(v, r, cost)
          PROVE  Effects(v, n)
      BY <2>7, ToolsFinishedEffects
    <2>8. ASSUME NEW cost \in Costs \cup {None}, cost # None,
                 CanReconcileCost(v, r, cost), n = CostReconciled(v, r, cost)
          PROVE  Effects(v, n)
      BY <2>8, CostReconciledEffects
    <2> QED
      BY <2>1, <2>2, <2>3, <2>4, <2>5, <2>6, <2>7, <2>8,
         DeltaEffects, ForgottenEffects, GenerationRecordedEffects
  <1> QED
    BY <1>1, <1>2 DEF Operation

-----------------------------------------------------------------------------
(* Only what was sent is billed. *)

SameBills(v, n) == \A q \in Requests : Accounted(n.budget, q) => Accounted(v.budget, q)

BillsOnly(v, n, r) ==
    \A q \in Requests : Accounted(n.budget, q) => Accounted(v.budget, q) \/ q = r

\* No operation but a receipt accounts for a cost,
LEMMA Unbilled ==
    ASSUME NEW v, WellFormed(v), NEW r \in Requests
    PROVE  /\ \A g \in Grants : SameBills(v, Prepared(v, g, r))
           /\ SameBills(v, Cancelled(v, r))
           /\ SameBills(v, Delta(v, r))
           /\ CanForget(v, r) => SameBills(v, Forgotten(v, r))
           /\ \A ceiling \in Ceilings \cup {None} : SameBills(v, Dispatched(v, r, ceiling))
           /\ SameBills(v, GenerationRecorded(v, r))
           /\ \A g \in Grants, child \in Requests : SameBills(v, Continued(v, g, r, child))
           /\ \A p \in Providers : /\ SameBills(v, Connected(v, p))
                                   /\ SameBills(v, Disconnected(v, p))
  <1>1. v \in VaultState /\ v.budget \in [Requests -> Reservation]
    BY Shape DEF Ledger
  <1>2. \A g \in Grants : Prepared(v, g, r).budget = v.budget
    BY <1>1 DEF Prepared, VaultState
  <1>3. Cancelled(v, r).budget = v.budget
    BY <1>1 DEF Cancelled, VaultState
  <1>4. Delta(v, r).budget = v.budget
    BY <1>1 DEF Delta, VaultState
  <1>5. Forgotten(v, r).budget \in {v.budget, MarkUncertain(v.budget, r)}
    BY <1>1 DEF Forgotten, VaultState
  <1>6. \A ceiling \in Ceilings \cup {None} :
            Dispatched(v, r, ceiling).budget
                \in {v.budget, MarkDispatched(Reserve(v.budget, r, ceiling), r)}
    BY <1>1 DEF Dispatched, VaultState
  <1>7. GenerationRecorded(v, r).budget = v.budget
    BY <1>1 DEF GenerationRecorded, VaultState
  <1>8. \A g \in Grants, child \in Requests : Continued(v, g, r, child).budget = v.budget
    BY <1>1 DEF Continued, VaultState
  <1>9. \A p \in Providers : Connected(v, p).budget = v.budget
    BY <1>1 DEF Connected, VaultState
  <1>10. \A p \in Providers : Disconnected(v, p).budget = v.budget
    BY <1>1 DEF Disconnected, VaultState
  <1>11. \A q \in Requests : Accounted(MarkUncertain(v.budget, r), q) => Accounted(v.budget, q)
    BY <1>1 DEF Accounted, MarkUncertain, Reservation
  <1>12. \A ceiling \in Ceilings \cup {None}, q \in Requests :
            Accounted(MarkDispatched(Reserve(v.budget, r, ceiling), r), q)
                => Accounted(v.budget, q)
    BY <1>1 DEF Accounted, MarkDispatched, Reserve, Reservation
  <1>13. SameBills(v, Forgotten(v, r))
    BY <1>5, <1>11 DEF SameBills
  <1>14. \A ceiling \in Ceilings \cup {None} : SameBills(v, Dispatched(v, r, ceiling))
    BY <1>6, <1>12 DEF SameBills
  <1> QED
    BY <1>2, <1>3, <1>4, <1>7, <1>8, <1>9, <1>10, <1>13, <1>14 DEF SameBills, Accounted

\* and a receipt only for the cost of its own request.
LEMMA Billed ==
    ASSUME NEW v, WellFormed(v), NEW r \in Requests
    PROVE  /\ \A outcome \in TerminalOutcome, cost \in Costs \cup {None} :
                  BillsOnly(v, Finished(v, r, outcome, cost), r)
           /\ \A cost \in Costs \cup {None} : BillsOnly(v, ToolsFinished(v, r, cost), r)
           /\ \A cost \in Costs : BillsOnly(v, CostReconciled(v, r, cost), r)
  <1>1. v \in VaultState /\ v.budget \in [Requests -> Reservation]
    BY Shape DEF Ledger
  <1>2. \A outcome \in TerminalOutcome, cost \in Costs \cup {None} :
            Finished(v, r, outcome, cost).budget = Charged(v, r, cost)
    BY <1>1 DEF Finished, VaultState
  <1>3. \A cost \in Costs \cup {None} : ToolsFinished(v, r, cost).budget = Charged(v, r, cost)
    BY <1>1 DEF ToolsFinished, VaultState
  <1>4. \A cost \in Costs : CostReconciled(v, r, cost).budget = Settle(v.budget, r, cost)
    BY <1>1 DEF CostReconciled, VaultState
  <1>5. \A cost \in Costs \cup {None}, q \in Requests :
            Accounted(Settle(v.budget, r, cost), q) => Accounted(v.budget, q) \/ q = r
    BY <1>1 DEF Accounted, Settle
  <1>6. \A q \in Requests : Accounted(MarkUncertain(v.budget, r), q) => Accounted(v.budget, q) \/ q = r
    BY <1>1 DEF Accounted, MarkUncertain
  <1>7. \A cost \in Costs \cup {None}, q \in Requests :
            Accounted(Charged(v, r, cost), q) => Accounted(v.budget, q) \/ q = r
    BY <1>5, <1>6 DEF Charged
  <1> QED
    BY <1>2, <1>3, <1>4, <1>5, <1>7 DEF BillsOnly, Accounted

-----------------------------------------------------------------------------
(* Ledger and runs tell the same story. *)

Active == InFlight \cup {"Unknown"}

Intended(run) == "DispatchIntent" \in Range(run.log)

\* The entries are those of the paid runs with an intent, and an active one is
\* still in doubt.
Matched(v) ==
    \A r \in Requests :
        /\ v.budget[r].status # "Absent"
              <=> Exists(v, r) /\ Paid(v.runs[r]) /\ Intended(v.runs[r])
        /\ v.runs[r].state \in Active /\ Paid(v.runs[r]) => InDoubt(v.budget, r)
        /\ v.runs[r].generation => Exists(v, r) /\ Paid(v.runs[r])

\* An operation keeps them matched, forgets no intent and names no generation
\* but those of the given requests.
Follows(v, n, named) ==
    /\ Matched(v) => Matched(n)
    /\ \A q \in Requests : Intended(v.runs[q]) => Intended(n.runs[q])
    /\ \A q \in Requests : n.runs[q].generation => v.runs[q].generation \/ q \in named

\* An operation that replaces one stored run by one that tells as much.
Retells(v, n, r) ==
    /\ \A q \in Requests \ {r} : n.runs[q] = v.runs[q] /\ n.budget[q] = v.budget[q]
    /\ Exists(v, r) /\ Exists(n, r)
    /\ n.runs[r].owner = v.runs[r].owner
    /\ Intended(n.runs[r]) <=> Intended(v.runs[r])
    /\ n.budget[r].status # "Absent" <=> v.budget[r].status # "Absent"
    /\ n.runs[r].state \in Active /\ Paid(v.runs[r])
          => /\ v.runs[r].state \in Active
             /\ InDoubt(v.budget, r) => InDoubt(n.budget, r)

\* Such an operation is followed by its log.
LEMMA RetellsFollows ==
    ASSUME NEW v, NEW n, NEW r \in Requests, Retells(v, n, r)
    PROVE  /\ (n.runs[r].generation => v.runs[r].generation) => Follows(v, n, {})
           /\ Paid(v.runs[r]) => Follows(v, n, {r})
  <1>1. Exists(v, r) /\ Exists(n, r) /\ (Paid(n.runs[r]) <=> Paid(v.runs[r]))
    BY DEF Retells, Paid
  <1>2. ASSUME Matched(v), n.runs[r].generation => v.runs[r].generation \/ Paid(v.runs[r])
        PROVE  Matched(n)
    <2>1. ASSUME NEW q \in Requests
          PROVE  /\ n.budget[q].status # "Absent"
                       <=> Exists(n, q) /\ Paid(n.runs[q]) /\ Intended(n.runs[q])
                 /\ n.runs[q].state \in Active /\ Paid(n.runs[q]) => InDoubt(n.budget, q)
                 /\ n.runs[q].generation => Exists(n, q) /\ Paid(n.runs[q])
      <3>1. CASE q = r
        BY <1>1, <1>2, <3>1 DEF Retells, Matched
      <3>2. CASE q # r
        <4>1. n.runs[q] = v.runs[q] /\ n.budget[q] = v.budget[q]
          BY <3>2 DEF Retells
        <4> QED
          BY <1>2, <4>1 DEF Matched, Exists, InDoubt
      <3> QED
        BY <3>1, <3>2
    <2> QED
      BY <2>1 DEF Matched
  <1>3. \A q \in Requests : Intended(v.runs[q]) => Intended(n.runs[q])
    BY DEF Retells
  <1>4. \A q \in Requests \ {r} : n.runs[q].generation => v.runs[q].generation
    BY DEF Retells
  <1> QED
    BY <1>2, <1>3, <1>4 DEF Follows

Told == JournalEventKind \ {"DispatchIntent"}

\* Logging anything else leaves the intents of a run as they are.
LEMMA LoggedIntent ==
    ASSUME NEW run \in StoredInference, NEW kinds \in Seq(Told), NEW state
    PROVE  /\ Intended(Logged(run, kinds, state)) <=> Intended(run)
           /\ Logged(run, kinds, state).generation = run.generation
  <1> DEFINE new == Logged(run, kinds, state)
  <1>1. run.log \in Seq(JournalEventKind)
    BY DEF StoredInference
  <1>2. new.log = run.log \o kinds
    BY DEF Logged, StoredInference
  <1>3. new.generation = run.generation
    BY DEF Logged, StoredInference
  <1>4. \A i \in DOMAIN kinds : kinds[i] # "DispatchIntent"
    BY DEF Told
  <1>5. ASSUME Intended(run) PROVE Intended(new)
    <2>1. PICK i \in DOMAIN run.log : run.log[i] = "DispatchIntent"
      BY <1>5 DEF Intended, Range
    <2>2. i \in DOMAIN new.log /\ new.log[i] = "DispatchIntent"
      BY <1>1, <1>2, <2>1
    <2> QED
      BY <2>2 DEF Intended, Range
  <1>6. ASSUME Intended(new) PROVE Intended(run)
    <2>1. PICK i \in DOMAIN new.log : new.log[i] = "DispatchIntent"
      BY <1>6 DEF Intended, Range
    <2>2. i \in 1 .. Len(run.log) + Len(kinds)
      BY <1>1, <1>2, <2>1
    <2>3. CASE i \in 1 .. Len(run.log)
      <3>1. i \in DOMAIN run.log /\ run.log[i] = "DispatchIntent"
        BY <1>1, <1>2, <2>1, <2>3
      <3> QED
        BY <3>1 DEF Intended, Range
    <2>4. CASE i \in Len(run.log) + 1 .. Len(run.log) + Len(kinds)
      <3>1. i - Len(run.log) \in DOMAIN kinds /\ kinds[i - Len(run.log)] = new.log[i]
        BY <1>1, <1>2, <2>4
      <3> QED
        BY <1>4, <2>1, <3>1
    <2> QED
      BY <1>1, <2>2, <2>3, <2>4
  <1> QED
    BY <1>3, <1>5, <1>6

\* An operation that logs something else for one run.
LEMMA LogsFollow ==
    ASSUME NEW v, WellFormed(v), NEW r \in Requests, Exists(v, r),
           NEW kinds \in Seq(Told), NEW state, state # "Absent", NEW b \in Ledger,
           \A q \in Requests \ {r} : b[q] = v.budget[q],
           b[r].status # "Absent" <=> v.budget[r].status # "Absent",
           state \in Active /\ Paid(v.runs[r])
              => v.runs[r].state \in Active /\ (InDoubt(v.budget, r) => InDoubt(b, r)),
           NEW n, n.runs = [v.runs EXCEPT ![r] = Logged(v.runs[r], kinds, state)],
           n.budget = b
    PROVE  Follows(v, n, {})
  <1> DEFINE run == Logged(v.runs[r], kinds, state)
  <1>1. v.runs[r] \in StoredInference
    BY Shape
  <1>2. /\ run.state = state /\ run.owner = v.runs[r].owner
        /\ Intended(run) <=> Intended(v.runs[r])
        /\ run.generation = v.runs[r].generation
    BY <1>1, LoggedRun, LoggedIntent
  <1> HIDE DEF run
  <1>3. \A q \in Requests : n.runs[q] = IF q = r THEN run ELSE v.runs[q]
    BY Shape DEF VaultState, run
  <1>4. Retells(v, n, r)
    BY <1>2, <1>3 DEF Retells, Exists
  <1>5. n.runs[r].generation => v.runs[r].generation
    BY <1>2, <1>3
  <1> QED
    BY <1>4, <1>5, RetellsFollows

\* An operation that leaves runs and ledger alone.
LEMMA SameFollows ==
    ASSUME NEW v, NEW n, n.runs = v.runs, n.budget = v.budget
    PROVE  Follows(v, n, {})
  BY DEF Follows, Matched, Exists, InDoubt

\* A cancellation,
LEMMA CancelledFollows ==
    ASSUME NEW v, WellFormed(v), NEW g \in Grants, NEW r \in Requests, CanCancel(v, g, r)
    PROVE  Follows(v, Cancelled(v, r), {})
  <1> DEFINE n == Cancelled(v, r)
             state == IF v.runs[r].state \in {"AwaitingTools", "Prepared"}
                      THEN "Cancelled" ELSE "CancellationRequested"
             kinds == <<CancelEvent(v.runs[r].state)>>
  <1>1. n.runs = [v.runs EXCEPT ![r] = Logged(v.runs[r], kinds, state)] /\ n.budget = v.budget
    BY Shape DEF Cancelled, VaultState
  <1>2. CancelEvent(v.runs[r].state) \in Told
    BY DEF CancelEvent, Told, JournalEventKind
  <1>3. kinds \in Seq(Told)
    BY <1>2
  <1>4. v.runs[r].state \in RunState \cup {"Absent"}
    BY Shape DEF StoredInference
  <1>5. Exists(v, r) /\ state # "Absent" /\ (state \in Active => v.runs[r].state \in Active)
    BY <1>4 DEF CanCancel, Active, InFlight, Terminal, RunState, Exists
  <1>6. v.budget \in Ledger
    BY Shape
  <1> HIDE DEF n, state, kinds
  <1>7. Follows(v, n, {})
    BY <1>1, <1>3, <1>5, <1>6, LogsFollow
  <1> QED
    BY <1>7 DEF n

\* a delta,
LEMMA DeltaFollows ==
    ASSUME NEW v, WellFormed(v), NEW r \in Requests, CanDelta(v, r)
    PROVE  Follows(v, Delta(v, r), {})
  <1> DEFINE n == Delta(v, r)
             state == IF v.runs[r].state = "CancellationRequested"
                      THEN v.runs[r].state ELSE "Running"
             kinds == <<"TextDelta">>
  <1>1. n.runs = [v.runs EXCEPT ![r] = Logged(v.runs[r], kinds, state)] /\ n.budget = v.budget
    BY Shape DEF Delta, VaultState
  <1>2. kinds \in Seq(Told)
    BY DEF Told, JournalEventKind
  <1>3. Exists(v, r) /\ state # "Absent" /\ (state \in Active => v.runs[r].state \in Active)
    BY DEF CanDelta, Active, InFlight, Exists
  <1>4. v.budget \in Ledger
    BY Shape
  <1> HIDE DEF n, state, kinds
  <1>5. Follows(v, n, {})
    BY <1>1, <1>2, <1>3, <1>4, LogsFollow
  <1> QED
    BY <1>5 DEF n

\* a loss,
LEMMA ForgottenFollows ==
    ASSUME NEW v, WellFormed(v), NEW r \in Requests, CanForget(v, r)
    PROVE  Follows(v, Forgotten(v, r), {})
  <1> DEFINE n == Forgotten(v, r)
             state == "Unknown"
             kinds == <<"UnknownOutcome">>
             b == IF Paid(v.runs[r]) THEN MarkUncertain(v.budget, r) ELSE v.budget
  <1>1. n.runs = [v.runs EXCEPT ![r] = Logged(v.runs[r], kinds, state)] /\ n.budget = b
    BY Shape DEF Forgotten, UnknownRun, VaultState
  <1>2. kinds \in Seq(Told)
    BY DEF Told, JournalEventKind
  <1>3. Exists(v, r) /\ v.runs[r].state \in Active
    BY DEF CanForget, Active, InFlight, Exists
  <1>4. b \in Ledger /\ \A q \in Requests \ {r} : b[q] = v.budget[q]
    BY Shape, LedgerTyped DEF MarkUncertain, Ledger
  <1>5. /\ b[r].status # "Absent" <=> v.budget[r].status # "Absent"
        /\ Paid(v.runs[r]) => InDoubt(b, r)
    <2>1. CASE Paid(v.runs[r])
      <3>1. InDoubt(v.budget, r)
        BY <2>1 DEF CanForget, CanMarkUncertain
      <3>2. b[r].status = "Uncertain"
        BY <2>1, Shape DEF MarkUncertain, Ledger, Reservation
      <3> QED
        BY <3>1, <3>2 DEF InDoubt
    <2> QED
      BY <2>1
  <1>6. /\ state # "Absent"
        /\ state \in Active /\ Paid(v.runs[r])
              => v.runs[r].state \in Active /\ (InDoubt(v.budget, r) => InDoubt(b, r))
    BY <1>3, <1>5
  <1> HIDE DEF n, b, kinds, state
  <1>7. Follows(v, n, {})
    BY <1>1, <1>2, <1>3, <1>4, <1>5, <1>6, LogsFollow
  <1> QED
    BY <1>7 DEF n

\* What a receipt makes of the ledger.
LEMMA ChargedFollows ==
    ASSUME NEW v, WellFormed(v), NEW r \in Requests, NEW cost \in Costs \cup {None},
           CanCharge(v, r, cost)
    PROVE  /\ Charged(v, r, cost) \in Ledger
           /\ \A q \in Requests \ {r} : Charged(v, r, cost)[q] = v.budget[q]
           /\ Charged(v, r, cost)[r].status # "Absent" <=> v.budget[r].status # "Absent"
  <1>1. v.budget \in Ledger
    BY Shape
  <1>2. CASE ~Paid(v.runs[r])
    BY <1>1, <1>2 DEF Charged
  <1>3. CASE Paid(v.runs[r]) /\ cost = None
    <2>1. InDoubt(v.budget, r) /\ Charged(v, r, cost) = MarkUncertain(v.budget, r)
      BY <1>3 DEF Charged, CanCharge, CanMarkUncertain
    <2> QED
      BY <1>1, <2>1, LedgerTyped DEF MarkUncertain, InDoubt, Ledger, Reservation
  <1>4. CASE Paid(v.runs[r]) /\ cost # None
    <2>1. /\ CanSettle(v.budget, r, cost) /\ Charged(v, r, cost) = Settle(v.budget, r, cost)
          /\ cost \in Costs
      BY <1>4 DEF Charged, CanCharge
    <2> QED
      BY <1>1, <2>1, LedgerTyped DEF CanSettle, Settle, InDoubt, Accounted, Ledger
  <1> QED
    BY <1>2, <1>3, <1>4

\* No receipt logs an intent.
LEMMA ReceiptsTold ==
    ASSUME NEW v, NEW r \in Requests, NEW cost
    PROVE  /\ \A outcome \in TerminalOutcome : FinishEvents(v, r, outcome, cost) \in Seq(Told)
           /\ ToolEvents(v, r, cost) \in Seq(Told)
           /\ ReconcileEvents(v, r, cost) \in Seq(Told)
  <1>1. \A b : OverrunEvents(b, r) \in Seq(Told)
    <2>1. <<"CostCeilingExceeded">> \in Seq(Told)
      BY DEF Told, JournalEventKind
    <2>2. << >> \in Seq(Told)
      OBVIOUS
    <2> QED
      BY <2>1, <2>2, Zenon DEF OverrunEvents
  <1>2. \A outcome \in TerminalOutcome : <<ProviderTerminal[outcome]>> \in Seq(Told)
    BY DEF TerminalOutcome, ProviderTerminal, Told, JournalEventKind
  <1>3. /\ <<"ToolCalls", "ProviderCancelled">> \in Seq(Told)
        /\ <<"ToolCalls">> \in Seq(Told) /\ <<"CostReconciled">> \in Seq(Told)
    BY DEF Told, JournalEventKind
  <1>4. \A s, t \in Seq(Told) : s \o t \in Seq(Told)
    OBVIOUS
  <1>5. \A outcome \in TerminalOutcome : FinishEvents(v, r, outcome, cost) \in Seq(Told)
    BY <1>1, <1>2, <1>4 DEF FinishEvents
  <1>6. ToolEvents(v, r, cost) \in Seq(Told)
    BY <1>1, <1>3, <1>4 DEF ToolEvents
  <1>7. ReconcileEvents(v, r, cost) \in Seq(Told)
    BY <1>1, <1>3, <1>4 DEF ReconcileEvents
  <1> QED
    BY <1>5, <1>6, <1>7

\* a terminal receipt,
LEMMA FinishedFollows ==
    ASSUME NEW v, WellFormed(v), NEW r \in Requests, NEW outcome \in TerminalOutcome,
           NEW cost \in Costs \cup {None}, CanFinish(v, r, outcome, cost)
    PROVE  Follows(v, Finished(v, r, outcome, cost), {})
  <1> DEFINE n == Finished(v, r, outcome, cost)
             kinds == FinishEvents(v, r, outcome, cost)
             b == Charged(v, r, cost)
  <1>1. n.runs = [v.runs EXCEPT ![r] = Logged(v.runs[r], kinds, outcome)] /\ n.budget = b
    BY Shape DEF Finished, VaultState
  <1>2. kinds \in Seq(Told)
    BY ReceiptsTold
  <1>3. Exists(v, r) /\ outcome \notin Active /\ outcome # "Absent"
    BY DEF CanFinish, Active, InFlight, Exists, TerminalOutcome
  <1>4. /\ b \in Ledger /\ \A q \in Requests \ {r} : b[q] = v.budget[q]
        /\ b[r].status # "Absent" <=> v.budget[r].status # "Absent"
    BY ChargedFollows DEF CanFinish
  <1> HIDE DEF n, b, kinds
  <1> QED
    BY <1>1, <1>2, <1>3, <1>4, LogsFollow DEF n

\* one with tool calls,
LEMMA ToolsFinishedFollows ==
    ASSUME NEW v, WellFormed(v), NEW r \in Requests,
           NEW cost \in Costs \cup {None}, CanFinishTools(v, r, cost)
    PROVE  Follows(v, ToolsFinished(v, r, cost), {})
  <1> DEFINE n == ToolsFinished(v, r, cost)
             state == IF v.runs[r].state = "CancellationRequested"
                      THEN "Cancelled" ELSE "AwaitingTools"
             kinds == ToolEvents(v, r, cost)
             b == Charged(v, r, cost)
  <1>1. n.runs = [v.runs EXCEPT ![r] = Logged(v.runs[r], kinds, state)] /\ n.budget = b
    BY Shape DEF ToolsFinished, VaultState
  <1>2. kinds \in Seq(Told)
    BY ReceiptsTold
  <1>3. Exists(v, r) /\ state \notin Active /\ state # "Absent"
    BY DEF CanFinishTools, Active, InFlight, Exists
  <1>4. /\ b \in Ledger /\ \A q \in Requests \ {r} : b[q] = v.budget[q]
        /\ b[r].status # "Absent" <=> v.budget[r].status # "Absent"
    BY ChargedFollows DEF CanFinishTools
  <1> HIDE DEF n, b, kinds, state
  <1> QED
    BY <1>1, <1>2, <1>3, <1>4, LogsFollow DEF n

\* a late bill,
LEMMA CostReconciledFollows ==
    ASSUME NEW v, WellFormed(v), NEW r \in Requests, NEW cost \in Costs,
           CanReconcileCost(v, r, cost)
    PROVE  Follows(v, CostReconciled(v, r, cost), {})
  <1> DEFINE n == CostReconciled(v, r, cost)
             kinds == ReconcileEvents(v, r, cost)
             b == Settle(v.budget, r, cost)
  <1>1. /\ n.runs = [v.runs EXCEPT ![r] = Logged(v.runs[r], kinds, v.runs[r].state)]
        /\ n.budget = b
    BY Shape DEF CostReconciled, VaultState
  <1>2. kinds \in Seq(Told)
    BY ReceiptsTold
  <1>3. Exists(v, r) /\ v.runs[r].state \notin Active /\ CanSettle(v.budget, r, cost)
    BY DEF CanReconcileCost, Active, InFlight, Exists, Terminal
  <1>4. /\ b \in Ledger /\ \A q \in Requests \ {r} : b[q] = v.budget[q]
        /\ b[r].status # "Absent" <=> v.budget[r].status # "Absent"
    BY <1>3, Shape, LedgerTyped DEF CanSettle, Settle, InDoubt, Accounted, Ledger
  <1> HIDE DEF n, b, kinds
  <1> QED
    BY <1>1, <1>2, <1>3, <1>4, LogsFollow DEF n, Exists

\* and the name of a generation,
LEMMA GenerationRecordedFollows ==
    ASSUME NEW v, WellFormed(v), NEW r \in Requests, CanRecordGeneration(v, r)
    PROVE  Follows(v, GenerationRecorded(v, r), {r})
  <1> DEFINE n == GenerationRecorded(v, r)
             run == [v.runs[r] EXCEPT !.generation = TRUE]
  <1>1. n.runs = [v.runs EXCEPT ![r] = run] /\ n.budget = v.budget
    BY Shape DEF GenerationRecorded, VaultState
  <1>2. run.state = v.runs[r].state /\ run.owner = v.runs[r].owner /\ run.log = v.runs[r].log
    BY Shape DEF StoredInference
  <1>3. Exists(v, r) /\ Paid(v.runs[r])
    BY DEF CanRecordGeneration, Exists
  <1> HIDE DEF n, run
  <1>4. \A q \in Requests : n.runs[q] = IF q = r THEN run ELSE v.runs[q]
    BY <1>1, Shape DEF VaultState
  <1>5. Retells(v, n, r)
    BY <1>1, <1>2, <1>3, <1>4 DEF Retells, Exists, Intended, InDoubt
  <1> QED
    BY <1>3, <1>5, RetellsFollows DEF n

\* An operation that admits a new run, beside others that tell as much as before.
LEMMA AdmitsFollow ==
    ASSUME NEW v, WellFormed(v), NEW c \in Requests, ~Exists(v, c),
           NEW n, n.budget = v.budget,
           n.runs[c].state = "Prepared", ~Intended(n.runs[c]), n.runs[c].generation = FALSE,
           \A q \in Requests \ {c} :
              /\ Exists(n, q) <=> Exists(v, q)
              /\ n.runs[q].owner = v.runs[q].owner
              /\ Intended(n.runs[q]) <=> Intended(v.runs[q])
              /\ n.runs[q].generation = v.runs[q].generation
              /\ n.runs[q].state \in Active => v.runs[q].state \in Active
    PROVE  Follows(v, n, {})
  <1>1. v.runs[c] = NoRun
    BY DEF WellFormed
  <1>2. ~Intended(NoRun)
    BY DEF Intended, Range, NoRun
  <1>3. ASSUME Matched(v) PROVE Matched(n)
    <2>1. ASSUME NEW q \in Requests
          PROVE  /\ n.budget[q].status # "Absent"
                       <=> Exists(n, q) /\ Paid(n.runs[q]) /\ Intended(n.runs[q])
                 /\ n.runs[q].state \in Active /\ Paid(n.runs[q]) => InDoubt(n.budget, q)
                 /\ n.runs[q].generation => Exists(n, q) /\ Paid(n.runs[q])
      <3>1. CASE q = c
        <4>1. n.runs[c].state \notin Active
          BY DEF Active, InFlight
        <4> QED
          BY <1>3, <3>1, <4>1 DEF Matched
      <3>2. CASE q # c
        <4>1. Paid(n.runs[q]) <=> Paid(v.runs[q])
          BY <3>2 DEF Paid
        <4> QED
          BY <1>3, <3>2, <4>1 DEF Matched, InDoubt
      <3> QED
        BY <3>1, <3>2
    <2> QED
      BY <2>1 DEF Matched
  <1>4. \A q \in Requests : Intended(v.runs[q]) => Intended(n.runs[q])
    BY <1>1, <1>2
  <1>5. \A q \in Requests : n.runs[q].generation => v.runs[q].generation
    OBVIOUS
  <1> QED
    BY <1>3, <1>4, <1>5 DEF Follows

\* A new run has no intent and no generation.
LEMMA NewRunTells ==
    ASSUME NEW g, NEW parent
    PROVE  /\ NewRun(g, parent).state = "Prepared"
           /\ NewRun(g, parent).generation = FALSE
           /\ ~Intended(NewRun(g, parent))
  <1>1. /\ NewRun(g, parent).state = "Prepared"
        /\ NewRun(g, parent).generation = FALSE
        /\ NewRun(g, parent).log = <<"Prepared">>
    BY DEF NewRun
  <1>2. "DispatchIntent" \notin Range(<<"Prepared">>)
    BY DEF Range
  <1> QED
    BY <1>1, <1>2 DEF Intended

\* Admission,
LEMMA PreparedFollows ==
    ASSUME NEW v, WellFormed(v), NEW g \in Grants, NEW r \in Requests, CanPrepare(v, g, r)
    PROVE  Follows(v, Prepared(v, g, r), {})
  <1> DEFINE n == Prepared(v, g, r)
  <1>1. \A q \in Requests : n.runs[q] = IF q = r THEN NewRun(g, None) ELSE v.runs[q]
    BY PreparedTyped, ZenonT(30)
  <1>2. n.budget = v.budget
    BY Shape DEF Prepared, VaultState
  <1>3. ~Exists(v, r)
    BY DEF CanPrepare
  <1> HIDE DEF n
  <1>4. /\ n.runs[r].state = "Prepared"
        /\ n.runs[r].generation = FALSE
        /\ ~Intended(n.runs[r])
    <2>1. n.runs[r] = NewRun(g, None)
      BY <1>1
    <2> QED
      BY <2>1, NewRunTells
  <1>5. \A q \in Requests \ {r} :
           /\ Exists(n, q) <=> Exists(v, q)
           /\ n.runs[q].owner = v.runs[q].owner
           /\ Intended(n.runs[q]) <=> Intended(v.runs[q])
           /\ n.runs[q].generation = v.runs[q].generation
           /\ n.runs[q].state \in Active => v.runs[q].state \in Active
    BY <1>1 DEF Exists
  <1>6. Follows(v, n, {})
    BY <1>2, <1>3, <1>4, <1>5, AdmitsFollow
  <1> QED
    BY <1>6 DEF n

\* a continuation
LEMMA ContinuedFollows ==
    ASSUME NEW v, WellFormed(v), NEW g \in Grants,
           NEW parent \in Requests, NEW child \in Requests, CanContinue(v, g, parent, child)
    PROVE  Follows(v, Continued(v, g, parent, child), {})
  <1> DEFINE n == Continued(v, g, parent, child)
             kinds == <<"ToolResultsSubmitted">>
             logged == Logged(v.runs[parent], kinds, "ToolsSubmitted")
             closed == [logged EXCEPT !.child = child]
  <1>1. parent # child /\ Exists(v, parent) /\ ~Exists(v, child)
    BY DEF CanContinue
  <1>2. /\ n.runs[child] = NewRun(g, parent)
        /\ \A q \in Requests \ {parent, child} : n.runs[q] = v.runs[q]
        /\ n.runs[parent].state = "ToolsSubmitted"
        /\ n.runs[parent].owner = v.runs[parent].owner
    BY ContinuedTyped
  <1>3. n.budget = v.budget
    BY Shape DEF Continued, VaultState
  <1>4. n.runs[parent] = closed
    BY <1>1, Shape DEF Continued, VaultState
  <1>5. v.runs[parent] \in StoredInference
    BY Shape
  <1>6. kinds \in Seq(Told)
    BY DEF Told, JournalEventKind
  <1>7. closed.log = logged.log /\ closed.generation = logged.generation
    BY <1>5 DEF Logged, StoredInference
  <1> HIDE DEF n, kinds, logged, closed
  <1>8. /\ Intended(logged) <=> Intended(v.runs[parent])
        /\ logged.generation = v.runs[parent].generation
    BY <1>5, <1>6, LoggedIntent DEF logged
  <1>9. /\ Intended(n.runs[parent]) <=> Intended(v.runs[parent])
        /\ n.runs[parent].generation = v.runs[parent].generation
    BY <1>4, <1>7, <1>8 DEF Intended
  <1>10. n.runs[parent].state \notin Active /\ Exists(n, parent)
    BY <1>2 DEF Active, InFlight, Exists
  <1>11. \A q \in Requests \ {child} :
            /\ Exists(n, q) <=> Exists(v, q)
            /\ n.runs[q].owner = v.runs[q].owner
            /\ Intended(n.runs[q]) <=> Intended(v.runs[q])
            /\ n.runs[q].generation = v.runs[q].generation
            /\ n.runs[q].state \in Active => v.runs[q].state \in Active
    <2> TAKE q \in Requests \ {child}
    <2>1. CASE q = parent
      BY <1>1, <1>2, <1>9, <1>10, <2>1
    <2>2. CASE q # parent
      BY <1>2, <2>2 DEF Exists
    <2> QED
      BY <2>1, <2>2
  <1>12. /\ n.runs[child].state = "Prepared"
         /\ n.runs[child].generation = FALSE
         /\ ~Intended(n.runs[child])
    BY <1>2, NewRunTells
  <1>13. Follows(v, n, {})
    BY <1>1, <1>3, <1>11, <1>12, AdmitsFollow
  <1> QED
    BY <1>13 DEF n

\* and a dispatch, which adds intent and entry together.
LEMMA DispatchedFollows ==
    ASSUME NEW v, WellFormed(v), NEW g \in Grants, NEW r \in Requests,
           NEW ceiling \in Ceilings \cup {None}, CanDispatch(v, g, r, ceiling)
    PROVE  /\ Follows(v, Dispatched(v, r, ceiling), {})
           /\ Intended(Dispatched(v, r, ceiling).runs[r])
  <1> DEFINE n == Dispatched(v, r, ceiling)
             run == Logged(v.runs[r], <<"DispatchIntent">>, "Dispatching")
             b == IF ceiling = None THEN v.budget
                  ELSE MarkDispatched(Reserve(v.budget, r, ceiling), r)
  <1>1. n.runs = [v.runs EXCEPT ![r] = run] /\ n.budget = b
    BY Shape DEF Dispatched, VaultState
  <1>2. v.runs[r] \in StoredInference /\ v.budget \in Ledger
    BY Shape
  <1>3. run.state = "Dispatching" /\ run.owner = v.runs[r].owner
    BY <1>2, LoggedRun
  <1>4. run.generation = v.runs[r].generation /\ run.log = Append(v.runs[r].log, "DispatchIntent")
    BY <1>2 DEF Logged, StoredInference
  <1>5. v.runs[r].log \in Seq(JournalEventKind)
    BY <1>2 DEF StoredInference
  <1>6. Intended(run)
    <2>1. /\ Len(v.runs[r].log) + 1 \in DOMAIN run.log
          /\ run.log[Len(v.runs[r].log) + 1] = "DispatchIntent"
      BY <1>4, <1>5
    <2> HIDE DEF run
    <2> QED
      BY <2>1 DEF Intended, Range
  <1>7. v.runs[r].state = "Prepared" /\ Exists(v, r)
    BY DEF CanDispatch, Exists
  <1>8. /\ \A q \in Requests \ {r} : b[q] = v.budget[q]
        /\ Paid(v.runs[r]) => b[r].status = "Dispatched"
        /\ ~Paid(v.runs[r]) => b = v.budget
    <2>1. CASE Paid(v.runs[r])
      <3>1. ceiling # None
        BY <2>1 DEF CanDispatch
      <3> QED
        BY <1>2, <2>1, <3>1 DEF MarkDispatched, Reserve, Ledger
    <2>2. CASE ~Paid(v.runs[r])
      <3>1. ceiling = None
        BY <2>2 DEF CanDispatch
      <3> QED
        BY <2>2, <3>1
    <2> QED
      BY <2>1, <2>2
  <1> HIDE DEF n, run, b
  <1>9. \A q \in Requests : n.runs[q] = IF q = r THEN run ELSE v.runs[q]
    BY <1>1, Shape DEF VaultState
  <1>10. ASSUME Matched(v) PROVE Matched(n)
    <2>1. ASSUME NEW q \in Requests
          PROVE  /\ n.budget[q].status # "Absent"
                       <=> Exists(n, q) /\ Paid(n.runs[q]) /\ Intended(n.runs[q])
                 /\ n.runs[q].state \in Active /\ Paid(n.runs[q]) => InDoubt(n.budget, q)
                 /\ n.runs[q].generation => Exists(n, q) /\ Paid(n.runs[q])
      <3>1. CASE q = r
        <4>1. Exists(n, r) /\ Intended(n.runs[r]) /\ (Paid(n.runs[r]) <=> Paid(v.runs[r]))
          BY <1>3, <1>6, <1>9 DEF Exists, Paid
        <4>2. n.runs[r].generation = v.runs[r].generation
          BY <1>4, <1>9
        <4>3. CASE Paid(v.runs[r])
          BY <1>1, <1>8, <3>1, <4>1, <4>3 DEF InDoubt
        <4>4. CASE ~Paid(v.runs[r])
          BY <1>1, <1>8, <1>10, <3>1, <4>1, <4>2, <4>4 DEF Matched
        <4> QED
          BY <4>3, <4>4
      <3>2. CASE q # r
        <4>1. n.runs[q] = v.runs[q] /\ n.budget[q] = v.budget[q]
          BY <1>1, <1>8, <1>9, <3>2
        <4> QED
          BY <1>10, <4>1 DEF Matched, Exists, InDoubt
      <3> QED
        BY <3>1, <3>2
    <2> QED
      BY <2>1 DEF Matched
  <1>11. Intended(n.runs[r])
    BY <1>6, <1>9
  <1>12. \A q \in Requests : Intended(v.runs[q]) => Intended(n.runs[q])
    BY <1>9, <1>11
  <1>13. \A q \in Requests : n.runs[q].generation => v.runs[q].generation
    BY <1>4, <1>9
  <1> QED
    BY <1>10, <1>11, <1>12, <1>13 DEF Follows, n

\* A restart keeps ledger and runs matched, too.
LEMMA RestartedFollows ==
    ASSUME NEW v, WellFormed(v), CanRestart(v)
    PROVE  Follows(v, Restarted(v), {})
  <1> DEFINE n == Restarted(v)
             kinds == <<"UnknownOutcome">>
             unknown == "Unknown"
  <1>1. v \in VaultState /\ v.budget \in [Requests -> Reservation]
    BY Shape DEF Ledger
  <1>2. \A r \in Requests :
           /\ n.budget[r] = IF v.runs[r].state \in InFlight /\ Paid(v.runs[r])
                            THEN [v.budget[r] EXCEPT !.status = "Uncertain"] ELSE v.budget[r]
           /\ n.runs[r] = IF v.runs[r].state \in InFlight THEN UnknownRun(v.runs[r]) ELSE v.runs[r]
    BY <1>1 DEF Restarted, VaultState
  <1>3. kinds \in Seq(Told)
    BY DEF Told, JournalEventKind
  <1> HIDE DEF n, kinds, unknown
  <1>4. ASSUME NEW r \in Requests
        PROVE  /\ Intended(n.runs[r]) <=> Intended(v.runs[r])
               /\ n.runs[r].generation = v.runs[r].generation
               /\ n.runs[r].owner = v.runs[r].owner
               /\ Exists(n, r) <=> Exists(v, r)
               /\ n.runs[r].state \in Active <=> v.runs[r].state \in Active
    <2>1. CASE v.runs[r].state \in InFlight
      <3>1. n.runs[r] = Logged(v.runs[r], kinds, unknown)
        BY <1>2, <2>1 DEF UnknownRun, kinds, unknown
      <3>2. n.runs[r].state = "Unknown" /\ n.runs[r].owner = v.runs[r].owner
        BY <3>1, Shape, LoggedRun DEF unknown
      <3>3. v.runs[r] \in StoredInference
        BY Shape
      <3>4. /\ Intended(n.runs[r]) <=> Intended(v.runs[r])
            /\ n.runs[r].generation = v.runs[r].generation
        BY <1>3, <3>1, <3>3, LoggedIntent
      <3> QED
        BY <2>1, <3>2, <3>4 DEF Exists, Active, InFlight
    <2>2. CASE v.runs[r].state \notin InFlight
      BY <1>2, <2>2 DEF Exists
    <2> QED
      BY <2>1, <2>2
  <1>5. ASSUME NEW r \in Requests
        PROVE  /\ n.budget[r].status # "Absent" <=> v.budget[r].status # "Absent"
               /\ InDoubt(v.budget, r) => InDoubt(n.budget, r)
    <2>1. CASE v.runs[r].state \in InFlight /\ Paid(v.runs[r])
      <3>1. InDoubt(v.budget, r)
        BY <2>1 DEF CanRestart, CanForget, CanMarkUncertain
      <3>2. n.budget[r].status = "Uncertain"
        BY <1>1, <1>2, <2>1 DEF Reservation
      <3> QED
        BY <3>1, <3>2 DEF InDoubt
    <2>2. CASE ~(v.runs[r].state \in InFlight /\ Paid(v.runs[r]))
      <3>1. n.budget[r] = v.budget[r]
        BY <1>2, <2>2
      <3> QED
        BY <3>1 DEF InDoubt
    <2> QED
      BY <2>1, <2>2
  <1>6. ASSUME Matched(v) PROVE Matched(n)
    <2>1. \A r \in Requests : Paid(n.runs[r]) <=> Paid(v.runs[r])
      BY <1>4 DEF Paid
    <2> QED
      BY <1>4, <1>5, <1>6, <2>1 DEF Matched
  <1> QED
    BY <1>4, <1>6 DEF Follows, n

-----------------------------------------------------------------------------
(* The actions, as operations and commits. *)

\* A commit of an operation on the memory, saved or torn.  A cost is only
\* accounted for what was sent, a permit only issued for a saved intent and a
\* generation only named while its response is open.
CommitStep ==
    \E n :
        /\ up /\ Operation(vault, n) /\ Commit(n)
        /\ UNCHANGED <<up, posts>>
        /\ \A r \in Requests :
              Accounted(n.budget, r) => Accounted(vault.budget, r) \/ posts[r] > 0
        /\ \A r \in Requests :
              \/ permit'[r] \in {permit[r], "none"}
              \/ /\ permit'[r] = "held" /\ Saved(n) /\ Intended(n.runs[r])
                 /\ Paid(n.runs[r]) => n.budget[r].status # "Absent"
        /\ Follows(vault, n, {r \in Requests : permit[r] = "open"})

\* Nothing but permits given up.
Quiet ==
    /\ UNCHANGED <<vault, disk, up, posts>>
    /\ \A r \in Requests : permit'[r] \in {permit[r], "none"}

\* What an action does to memory and file.
LEMMA NextCases ==
    ASSUME Inv, [Next]_vars
    PROVE  \/ CommitStep
           \/ \E r \in Requests : Post(r)
           \/ Quiet
           \/ Crash
           \/ Restart
  <1>1. WellFormed(vault) /\ permit \in [Requests -> {"none", "held", "open"}]
    BY DEF Inv, Sound
  \* What is left to show of an operation that bills nothing.
  <1>2. ASSUME NEW n, up, Operation(vault, n), Commit(n), SameBills(vault, n),
               Follows(vault, n, {}), UNCHANGED <<up, permit, posts>>
        PROVE  CommitStep
    BY <1>2 DEF CommitStep, SameBills, Follows
  \* And of a receipt.
  <1>3. ASSUME NEW n, NEW r \in Requests, up, Operation(vault, n), Commit(n),
               BillsOnly(vault, n, r), posts[r] > 0, Follows(vault, n, {}),
               UNCHANGED <<up, posts>>,
               \A q \in Requests : permit'[q] \in {permit[q], "none"}
        PROVE  CommitStep
    BY <1>3 DEF CommitStep, BillsOnly, Follows
  <1>4. ASSUME NEW g \in Grants, NEW r \in Requests, Prepare(g, r) PROVE CommitStep
    <2>1. Operation(vault, Prepared(vault, g, r))
      BY <1>4 DEF Prepare, Operation, JournalStep
    <2>2. Follows(vault, Prepared(vault, g, r), {})
      BY <1>1, <1>4, PreparedFollows DEF Prepare
    <2> QED
      BY <1>1, <1>2, <1>4, <2>1, <2>2, Unbilled DEF Prepare
  <1>5. ASSUME NEW g \in Grants, NEW r \in Requests, Cancel(g, r) PROVE CommitStep
    <2>1. Operation(vault, Cancelled(vault, r))
      BY <1>5 DEF Cancel, Operation, JournalStep
    <2>2. Follows(vault, Cancelled(vault, r), {})
      BY <1>1, <1>5, CancelledFollows DEF Cancel
    <2> QED
      BY <1>1, <1>2, <1>5, <2>1, <2>2, Unbilled DEF Cancel
  <1>6. ASSUME NEW g \in Grants, NEW r \in Requests, NEW ceiling \in Ceilings \cup {None},
               Dispatch(g, r, ceiling)
        PROVE  CommitStep
    <2> DEFINE n == Dispatched(vault, r, ceiling)
    <2>1. /\ up /\ CanDispatch(vault, g, r, ceiling) /\ UNCHANGED <<up, posts>>
          /\ \/ Saved(n) /\ permit' = [permit EXCEPT ![r] = "held"]
             \/ Torn(n) /\ UNCHANGED permit
      BY <1>6 DEF Dispatch
    <2>2. Operation(vault, n) /\ SameBills(vault, n)
      BY <1>1, <2>1, Unbilled DEF Operation, JournalStep
    <2>3. Paid(vault.runs[r]) => n.budget[r].status # "Absent"
      BY <1>1, <2>1, DispatchedEffects
    <2>4. n.runs[r].owner = vault.runs[r].owner
      BY <1>1, <2>1, DispatchedEffects
    <2>5. Follows(vault, n, {}) /\ Intended(n.runs[r])
      BY <1>1, <2>1, DispatchedFollows
    <2> HIDE DEF n
    <2>6. Paid(n.runs[r]) => n.budget[r].status # "Absent"
      BY <2>3, <2>4 DEF Paid
    <2>7. \A q \in Requests :
             \/ permit'[q] \in {permit[q], "none"}
             \/ /\ permit'[q] = "held" /\ Saved(n) /\ Intended(n.runs[q])
                /\ Paid(n.runs[q]) => n.budget[q].status # "Absent"
      BY <1>1, <2>1, <2>6, <2>5
    <2>8. Commit(n)
      BY <2>1 DEF Commit
    <2>9. \A q \in Requests :
             Accounted(n.budget, q) => Accounted(vault.budget, q) \/ posts[q] > 0
      BY <2>2 DEF SameBills
    <2>10. Follows(vault, n, {q \in Requests : permit[q] = "open"})
      BY <2>5 DEF Follows
    <2> QED
      BY <2>1, <2>2, <2>7, <2>8, <2>9, <2>10 DEF CommitStep
  <1>7. ASSUME NEW r \in Requests, RecordDelta(r) PROVE CommitStep
    <2>1. Operation(vault, Delta(vault, r))
      BY <1>7 DEF RecordDelta, Operation, JournalStep
    <2>2. Follows(vault, Delta(vault, r), {})
      BY <1>1, <1>7, DeltaFollows DEF RecordDelta
    <2> QED
      BY <1>1, <1>2, <1>7, <2>1, <2>2, Unbilled DEF RecordDelta
  <1>8. ASSUME NEW r \in Requests, MarkUnknown(r) PROVE CommitStep
    <2>1. Operation(vault, Forgotten(vault, r))
      BY <1>8 DEF MarkUnknown, Operation, JournalStep
    <2>2. Follows(vault, Forgotten(vault, r), {})
      BY <1>1, <1>8, ForgottenFollows DEF MarkUnknown
    <2> QED
      BY <1>1, <1>2, <1>8, <2>1, <2>2, Unbilled DEF MarkUnknown
  <1>9. ASSUME NEW r \in Requests, RecordGeneration(r) PROVE CommitStep
    <2> DEFINE n == GenerationRecorded(vault, r)
    <2>1. CanRecordGeneration(vault, r) /\ permit[r] = "open" /\ up /\ Commit(n)
          /\ UNCHANGED <<up, permit, posts>>
      BY <1>9 DEF RecordGeneration
    <2>2. Operation(vault, n) /\ SameBills(vault, n)
      BY <1>1, <2>1, Unbilled DEF Operation, JournalStep
    <2>3. Follows(vault, n, {r})
      BY <1>1, <2>1, GenerationRecordedFollows
    <2> HIDE DEF n
    <2>4. Follows(vault, n, {q \in Requests : permit[q] = "open"})
      BY <2>1, <2>3 DEF Follows
    <2> QED
      BY <2>1, <2>2, <2>4 DEF CommitStep, SameBills
  <1>10. ASSUME NEW r \in Requests, NEW outcome \in TerminalOutcome,
                NEW cost \in Costs \cup {None},
                Finish(r, outcome, cost) \/ ReconcileGeneration(r, outcome, cost)
         PROVE  CommitStep
    <2> DEFINE n == Finished(vault, r, outcome, cost)
    <2>1. CanFinish(vault, r, outcome, cost) /\ Commit(n)
      BY <1>10 DEF Finish, ReconcileGeneration, CanReconcileGeneration
    <2>2. /\ up /\ posts[r] > 0 /\ UNCHANGED <<up, posts>>
          /\ \A q \in Requests : permit'[q] \in {permit[q], "none"}
      BY <1>1, <1>10 DEF Finish, ReconcileGeneration, Receipt
    <2>3. Operation(vault, n)
      BY <2>1 DEF Operation, JournalStep
    <2>4. BillsOnly(vault, n, r)
      BY <1>1, Billed
    <2>5. Follows(vault, n, {})
      BY <1>1, <2>1, FinishedFollows
    <2> QED
      BY <1>3, <2>1, <2>2, <2>3, <2>4, <2>5
  <1>11. ASSUME NEW r \in Requests, NEW cost \in Costs \cup {None}, FinishTools(r, cost)
         PROVE  CommitStep
    <2> DEFINE n == ToolsFinished(vault, r, cost)
    <2>1. CanFinishTools(vault, r, cost) /\ Commit(n)
      BY <1>11 DEF FinishTools
    <2>2. /\ up /\ posts[r] > 0 /\ UNCHANGED <<up, posts>>
          /\ \A q \in Requests : permit'[q] \in {permit[q], "none"}
      BY <1>1, <1>11 DEF FinishTools, Receipt
    <2>3. Operation(vault, n)
      BY <2>1 DEF Operation, JournalStep
    <2>4. BillsOnly(vault, n, r)
      BY <1>1, Billed
    <2>5. Follows(vault, n, {})
      BY <1>1, <2>1, ToolsFinishedFollows
    <2> QED
      BY <1>3, <2>1, <2>2, <2>3, <2>4, <2>5
  <1>12. ASSUME NEW r \in Requests, NEW cost \in Costs, ReconcileCost(r, cost)
         PROVE  CommitStep
    <2> DEFINE n == CostReconciled(vault, r, cost)
    <2>1. CanReconcileCost(vault, r, cost) /\ Commit(n)
      BY <1>12 DEF ReconcileCost
    <2>2. /\ up /\ posts[r] > 0 /\ UNCHANGED <<up, posts>>
          /\ \A q \in Requests : permit'[q] \in {permit[q], "none"}
      BY <1>1, <1>12 DEF ReconcileCost
    <2>3. Operation(vault, n)
      BY <2>1, BudgetAssumption DEF Operation, JournalStep
    <2>4. BillsOnly(vault, n, r)
      BY <1>1, Billed
    <2>5. Follows(vault, n, {})
      BY <1>1, <2>1, CostReconciledFollows
    <2> QED
      BY <1>3, <2>1, <2>2, <2>3, <2>4, <2>5
  <1>13. ASSUME NEW g \in Grants, NEW parent \in Requests, NEW child \in Requests,
                Continue(g, parent, child)
         PROVE  CommitStep
    <2>1. Operation(vault, Continued(vault, g, parent, child))
      BY <1>13 DEF Continue, Operation, JournalStep
    <2>2. Follows(vault, Continued(vault, g, parent, child), {})
      BY <1>1, <1>13, ContinuedFollows DEF Continue
    <2> QED
      BY <1>1, <1>2, <1>13, <2>1, <2>2, Unbilled DEF Continue
  <1>14. ASSUME NEW p \in Providers, Connect(p) \/ Disconnect(p) PROVE CommitStep
    <2>1. PICK n : /\ Operation(vault, n) /\ Commit(n) /\ up
                   /\ n = Connected(vault, p) \/ n = Disconnected(vault, p)
      BY <1>14 DEF Operation, Connect, Disconnect
    <2>2. n.budget = vault.budget /\ n.runs = vault.runs
      <3>1. vault \in VaultState
        BY <1>1, Shape
      <3>2. Connected(vault, p).budget = vault.budget /\ Connected(vault, p).runs = vault.runs
        BY <3>1 DEF Connected, VaultState
      <3>3. Disconnected(vault, p).budget = vault.budget /\ Disconnected(vault, p).runs = vault.runs
        BY <3>1 DEF Disconnected, VaultState
      <3> QED
        BY <2>1, <3>2, <3>3
    <2>3. SameBills(vault, n)
      BY <2>2 DEF SameBills
    <2>4. Follows(vault, n, {})
      BY <2>2, SameFollows
    <2> QED
      BY <1>2, <1>14, <2>1, <2>3, <2>4 DEF Connect, Disconnect
  <1>15. ASSUME NEW r \in Requests, LoseTransport(r) PROVE Quiet
    BY <1>1, <1>15 DEF LoseTransport, Quiet
  <1>16. ASSUME UNCHANGED vars PROVE Quiet
    BY <1>16 DEF vars, Quiet
  <1> QED
    BY <1>4, <1>5, <1>6, <1>7, <1>8, <1>9, <1>10, <1>11, <1>12, <1>13, <1>14,
       <1>15, <1>16 DEF Next

-----------------------------------------------------------------------------
(* The file is the memory or one operation ahead of it. *)

Ahead == FailedCommitIsOneStep /\ (~up => disk = vault)

\* The file is ahead by one operation at most, and not at all when the process
\* is down.
LEMMA AheadKept == ASSUME Inv, Ahead, [Next]_vars PROVE Ahead'
  <1>1. FailedCommitIsOneStep <=> disk = vault \/ Operation(vault, disk)
    BY DEF FailedCommitIsOneStep, Operation
  <1>2. FailedCommitIsOneStep' <=> disk' = vault' \/ Operation(vault', disk')
    BY DEF FailedCommitIsOneStep, Operation
  <1>3. CASE CommitStep
    <2>1. PICK n : Operation(vault, n) /\ Commit(n) /\ up /\ UNCHANGED up
      BY <1>3 DEF CommitStep
    <2>2. CASE Saved(n)
      BY <1>2, <2>1, <2>2 DEF Saved, Ahead
    <2>3. CASE Torn(n)
      BY <1>2, <2>1, <2>3 DEF Torn, Ahead
    <2> QED
      BY <2>1, <2>2, <2>3 DEF Commit
  <1>4. CASE UNCHANGED <<vault, disk, up>>
    BY <1>1, <1>2, <1>4 DEF Ahead
  <1>5. CASE Crash
    <2>1. vault' = disk'
      BY <1>5 DEF Crash
    <2> QED
      BY <1>2, <2>1 DEF Ahead
  <1>6. CASE Restart
    <2>1. vault' = disk'
      BY <1>6 DEF Restart, Saved
    <2> QED
      BY <1>2, <2>1 DEF Ahead
  <1> QED
    BY <1>3, <1>4, <1>5, <1>6, NextCases DEF Quiet, Post

-----------------------------------------------------------------------------
(* The ledger. *)

\* An entry of the stored ledger: an operation reserves and dispatches, or
\* settles, in one commit, so Reserved and CancelledBeforeDispatch never last.
GoodEntry(e) ==
    /\ e.status \in {"Absent", "Dispatched", "Uncertain", "Settled", "CostOverrun"}
    /\ e.status # "Absent" => e.ceiling \in Ceilings
    /\ e.status \in {"Settled", "CostOverrun"} => e.actual \in Costs
    /\ e.status \notin {"Settled", "CostOverrun"} => e.actual = None
    /\ e.status = "CostOverrun" => e.actual > e.ceiling
    /\ e.status = "Settled" => ~(e.actual > e.ceiling)

Ledgered(v) == \A r \in Requests : GoodEntry(v.budget[r])

\* A bill is of something sent, and what may be sent has its entry.
Backed(v) ==
    \A r \in Requests :
        /\ Accounted(v.budget, r) => posts[r] > 0
        /\ ~Unsent(r) /\ Paid(v.runs[r]) => v.budget[r].status # "Absent"

LInv ==
    /\ Inv /\ Ahead
    /\ Ledgered(vault) /\ Ledgered(disk)
    /\ Backed(vault) /\ Backed(disk)

\* A ledger move keeps the entries good and forgets none.
LEMMA MovesLedgered ==
    ASSUME NEW v, v.budget \in Ledger, Ledgered(v), NEW n, Moves(v, n)
    PROVE  /\ Ledgered(n)
           /\ \A r \in Requests : v.budget[r].status # "Absent" => n.budget[r].status # "Absent"
  <1>1. CASE n.budget = v.budget
    BY <1>1 DEF Ledgered
  <1>2. ASSUME NEW r \in Requests, NEW e, GoodEntry(e), e.status # "Absent",
               n.budget = [v.budget EXCEPT ![r] = e]
        PROVE  /\ Ledgered(n)
               /\ \A q \in Requests : v.budget[q].status # "Absent" => n.budget[q].status # "Absent"
    <2>1. \A q \in Requests : n.budget[q] = IF q = r THEN e ELSE v.budget[q]
      BY <1>2 DEF Ledger
    <2> QED
      BY <1>2, <2>1 DEF Ledgered
  <1>3. ASSUME NEW r \in Requests, Holds(v, n, r)
        PROVE  \E e : /\ GoodEntry(e) /\ e.status # "Absent"
                      /\ n.budget = [v.budget EXCEPT ![r] = e]
    <2>1. PICK ceiling \in Ceilings :
             n.budget = [v.budget EXCEPT ![r] =
                 [status |-> "Dispatched", ceiling |-> ceiling, actual |-> None]]
      BY <1>3 DEF Holds
    <2>2. GoodEntry([status |-> "Dispatched", ceiling |-> ceiling, actual |-> None])
      BY DEF GoodEntry
    <2> QED
      BY <2>1, <2>2
  <1>4. ASSUME NEW r \in Requests, Doubts(v, n, r)
        PROVE  \E e : /\ GoodEntry(e) /\ e.status # "Absent"
                      /\ n.budget = [v.budget EXCEPT ![r] = e]
    <2> DEFINE e == [v.budget[r] EXCEPT !.status = "Uncertain"]
    <2>1. InDoubt(v.budget, r) /\ n.budget = [v.budget EXCEPT ![r] = e]
      BY <1>4 DEF Doubts, MarkUncertain
    <2>2. v.budget[r] \in Reservation /\ GoodEntry(v.budget[r])
      BY DEF Ledgered, Ledger
    <2>3. e.status = "Uncertain" /\ e.ceiling = v.budget[r].ceiling /\ e.actual = v.budget[r].actual
      BY <2>2 DEF Reservation
    <2>4. GoodEntry(e)
      BY <2>1, <2>2, <2>3 DEF GoodEntry, InDoubt
    <2> QED
      BY <2>1, <2>3, <2>4
  <1>5. ASSUME NEW r \in Requests, Bills(v, n, r)
        PROVE  \E e : /\ GoodEntry(e) /\ e.status # "Absent"
                      /\ n.budget = [v.budget EXCEPT ![r] = e]
    <2>1. PICK cost \in Costs : InDoubt(v.budget, r) /\ n.budget = Settle(v.budget, r, cost)
      BY <1>5 DEF Bills
    <2> DEFINE e == [status |-> IF cost > v.budget[r].ceiling THEN "CostOverrun" ELSE "Settled",
                     ceiling |-> v.budget[r].ceiling, actual |-> cost]
    <2>2. n.budget = [v.budget EXCEPT ![r] = e]
      BY <2>1 DEF Settle, InDoubt, Accounted
    <2>3. v.budget[r].ceiling \in Ceilings
      BY <2>1 DEF Ledgered, GoodEntry, InDoubt
    <2>4. GoodEntry(e)
      BY <2>3 DEF GoodEntry
    <2>5. e.status # "Absent"
      OBVIOUS
    <2> HIDE DEF e
    <2> QED
      BY <2>2, <2>4, <2>5
  <1> QED
    BY <1>1, <1>2, <1>3, <1>4, <1>5 DEF Moves

\* What a restart does to the ledger: active paid calls become uncertain.
LEMMA RestartedLedger ==
    ASSUME NEW v, WellFormed(v), Ledgered(v), CanRestart(v)
    PROVE  /\ Ledgered(Restarted(v))
           /\ \A r \in Requests :
                 /\ FundsOf(Restarted(v).budget[r]) = FundsOf(v.budget[r])
                 /\ Accounted(Restarted(v).budget, r) => Accounted(v.budget, r)
                 /\ v.budget[r].status # "Absent" => Restarted(v).budget[r].status # "Absent"
                 /\ Restarted(v).runs[r].owner = v.runs[r].owner
                 /\ Exists(Restarted(v), r) <=> Exists(v, r)
                 /\ v.runs[r].state \in InFlight => Restarted(v).runs[r].state = "Unknown"
                 /\ v.runs[r].state \notin InFlight => Restarted(v).runs[r] = v.runs[r]
  <1> DEFINE n == Restarted(v)
  <1>1. v \in VaultState /\ v.budget \in [Requests -> Reservation]
    BY Shape DEF Ledger
  <1>2. \A r \in Requests :
           /\ n.budget[r] = IF v.runs[r].state \in InFlight /\ Paid(v.runs[r])
                            THEN [v.budget[r] EXCEPT !.status = "Uncertain"] ELSE v.budget[r]
           /\ n.runs[r] = IF v.runs[r].state \in InFlight THEN UnknownRun(v.runs[r]) ELSE v.runs[r]
    BY <1>1 DEF Restarted, VaultState
  <1> HIDE DEF n
  <1>3. ASSUME NEW r \in Requests
        PROVE  /\ GoodEntry(n.budget[r])
               /\ FundsOf(n.budget[r]) = FundsOf(v.budget[r])
               /\ Accounted(n.budget, r) => Accounted(v.budget, r)
               /\ v.budget[r].status # "Absent" => n.budget[r].status # "Absent"
    <2>1. CASE v.runs[r].state \in InFlight /\ Paid(v.runs[r])
      <3>1. InDoubt(v.budget, r)
        BY <2>1 DEF CanRestart, CanForget, CanMarkUncertain
      <3>2. /\ n.budget[r].status = "Uncertain" /\ n.budget[r].ceiling = v.budget[r].ceiling
            /\ n.budget[r].actual = v.budget[r].actual
        BY <1>1, <1>2, <2>1 DEF Reservation
      <3> QED
        BY <3>1, <3>2 DEF InDoubt, Ledgered, GoodEntry, FundsOf, Accounted
    <2>2. CASE ~(v.runs[r].state \in InFlight /\ Paid(v.runs[r]))
      <3>1. n.budget[r] = v.budget[r]
        BY <1>2, <2>2
      <3> QED
        BY <3>1 DEF Ledgered, Accounted
    <2> QED
      BY <2>1, <2>2
  <1>4. ASSUME NEW r \in Requests
        PROVE  /\ n.runs[r].owner = v.runs[r].owner
               /\ Exists(n, r) <=> Exists(v, r)
               /\ v.runs[r].state \in InFlight => n.runs[r].state = "Unknown"
               /\ v.runs[r].state \notin InFlight => n.runs[r] = v.runs[r]
    <2>1. CASE v.runs[r].state \in InFlight
      <3>1. n.runs[r] = Logged(v.runs[r], <<"UnknownOutcome">>, "Unknown")
        BY <1>2, <2>1 DEF UnknownRun
      <3>2. n.runs[r].state = "Unknown" /\ n.runs[r].owner = v.runs[r].owner
        BY <3>1, Shape, LoggedRun
      <3> QED
        BY <2>1, <3>2 DEF Exists, InFlight
    <2>2. CASE v.runs[r].state \notin InFlight
      BY <1>2, <2>2 DEF Exists
    <2> QED
      BY <2>1, <2>2
  <1>5. Ledgered(n)
    BY <1>3 DEF Ledgered
  <1> QED
    BY <1>3, <1>4, <1>5 DEF n

\* The empty ledger is good.
LEMMA InitLInv == ASSUME Init PROVE LInv
  <1>1. Inv
    BY InitInv
  <1>2. Ahead
    BY DEF Init, Ahead, FailedCommitIsOneStep
  <1>3. vault.budget = EmptyLedger /\ disk.budget = EmptyLedger
    BY DEF Init, EmptyVault
  <1>4. \A r \in Requests : EmptyLedger[r] = NoReservation
    BY DEF EmptyLedger
  <1>5. GoodEntry(NoReservation) /\ NoReservation.status = "Absent"
    BY DEF GoodEntry, NoReservation
  <1>6. Ledgered(vault) /\ Ledgered(disk)
    BY <1>3, <1>4, <1>5 DEF Ledgered
  <1>7. \A r \in Requests : Unsent(r)
    BY DEF Init, Unsent
  <1>8. Backed(vault) /\ Backed(disk)
    BY <1>3, <1>4, <1>5, <1>7 DEF Backed, Accounted
  <1> QED
    BY <1>1, <1>2, <1>6, <1>8 DEF LInv

\* Every action preserves it.
LEMMA NextLInv == ASSUME LInv, [Next]_vars PROVE LInv'
  <1>1. Inv' /\ Ahead'
    BY NextInv, AheadKept DEF LInv
  <1>2. /\ WellFormed(vault) /\ WellFormed(disk) /\ SentOnce /\ posts \in [Requests -> Nat]
        /\ permit \in [Requests -> {"none", "held", "open"}]
        /\ vault.budget \in Ledger /\ disk.budget \in Ledger
    BY Shape DEF LInv, Inv, Sound
  \* The entries.
  <1>3. Ledgered(vault)' /\ Ledgered(disk)'
    <2>1. CASE CommitStep
      <3>1. PICK n : Operation(vault, n) /\ Commit(n)
        BY <2>1 DEF CommitStep
      <3>2. Ledgered(n)
        BY <1>2, <3>1, OperationEffects, MovesLedgered DEF LInv, Effects
      <3> QED
        BY <3>1, <3>2 DEF LInv, Commit, Saved, Torn, Ledgered
    <2>2. CASE UNCHANGED <<vault, disk>>
      BY <2>2 DEF LInv, Ledgered
    <2>3. CASE Crash
      BY <2>3 DEF Crash, LInv, Ledgered
    <2>4. CASE Restart
      <3>1. Ledgered(Restarted(disk))
        BY <1>2, <2>4, RestartedLedger DEF Restart, LInv
      <3>2. vault' = Restarted(disk) /\ disk' = Restarted(disk)
        BY <2>4 DEF Restart, Saved
      <3> QED
        BY <3>1, <3>2 DEF Ledgered
    <2> QED
      BY <2>1, <2>2, <2>3, <2>4, NextCases DEF LInv, Quiet, Post
  \* What they are backed by.
  <1>4. Backed(vault)' /\ Backed(disk)'
    <2>1. CASE CommitStep
      <3>1. PICK n :
              /\ up /\ Operation(vault, n) /\ Commit(n)
              /\ UNCHANGED <<up, posts>>
              /\ \A r \in Requests :
                    Accounted(n.budget, r) => Accounted(vault.budget, r) \/ posts[r] > 0
              /\ \A r \in Requests :
                    \/ permit'[r] \in {permit[r], "none"}
                    \/ Saved(n) /\ (Paid(n.runs[r]) => n.budget[r].status # "Absent")
        BY <2>1 DEF CommitStep
      <3>2. Effects(vault, n)
        BY <1>2, <3>1, OperationEffects
      <3>3. \A r \in Requests : Accounted(n.budget, r) => posts'[r] > 0
        BY <3>1 DEF LInv, Backed
      <3>4. \A r \in Requests : Accounted(vault.budget, r) => posts'[r] > 0
        BY <3>1 DEF LInv, Backed
      <3>5. ASSUME NEW r \in Requests, ~Unsent(r)'
            PROVE  /\ Paid(n.runs[r]) => n.budget[r].status # "Absent"
                   /\ Torn(n) => (Paid(vault.runs[r]) => vault.budget[r].status # "Absent")
        <4>1. CASE permit'[r] \in {permit[r], "none"}
          <5>1. ~Unsent(r)
            BY <3>1, <3>5, <4>1 DEF Unsent
          <5>2. Paid(vault.runs[r]) => vault.budget[r].status # "Absent"
            BY <5>1 DEF LInv, Backed
          <5>3. n.runs[r].owner = vault.runs[r].owner
            BY <1>2, <3>2, <5>1 DEF SentOnce, Effects, KeepsRuns
          <5>4. vault.budget[r].status # "Absent" => n.budget[r].status # "Absent"
            BY <1>2, <3>2, MovesLedgered DEF Effects, LInv
          <5> QED
            BY <5>2, <5>3, <5>4 DEF Paid
        <4>2. CASE Saved(n) /\ (Paid(n.runs[r]) => n.budget[r].status # "Absent")
          <5>1. CASE Torn(n)
            BY <4>2, <5>1 DEF Saved, Torn
          <5> QED
            BY <4>2, <5>1
        <4> QED
          BY <3>1, <4>1, <4>2
      <3>6. disk' = n /\ (vault' = n \/ (Torn(n) /\ vault' = vault))
        BY <3>1 DEF Commit, Saved, Torn
      <3>7. Backed(disk)'
        BY <3>3, <3>5, <3>6 DEF Backed, Accounted
      <3>8. CASE vault' = n
        BY <3>3, <3>5, <3>7, <3>8 DEF Backed, Accounted
      <3>9. CASE Torn(n) /\ vault' = vault
        BY <3>4, <3>5, <3>7, <3>9 DEF Backed, Accounted
      <3> QED
        BY <3>6, <3>7, <3>8, <3>9
    <2>2. CASE \E r \in Requests : Post(r)
      <3>1. PICK r \in Requests : Post(r)
        BY <2>2
      <3>2. /\ UNCHANGED <<vault, disk>>
            /\ \A q \in Requests : ~Unsent(q)' => ~Unsent(q)
        BY <1>2, <3>1 DEF Post, Unsent
      <3>3. \A q \in Requests : posts[q] > 0 => posts'[q] > 0
        BY <1>2, <3>1 DEF Post
      <3> QED
        BY <3>2, <3>3 DEF LInv, Backed, Accounted
    <2>3. CASE Quiet
      <3>1. /\ UNCHANGED <<vault, disk, posts>>
            /\ \A q \in Requests : ~Unsent(q)' => ~Unsent(q)
        BY <2>3 DEF Quiet, Unsent
      <3> QED
        BY <3>1 DEF LInv, Backed, Accounted
    <2>4. CASE Crash
      <3>1. /\ vault' \in {vault, disk} /\ disk' = vault' /\ UNCHANGED posts
            /\ \A q \in Requests : ~Unsent(q)' => ~Unsent(q)
        BY <2>4 DEF Crash, Unsent
      <3> QED
        BY <3>1 DEF LInv, Backed, Accounted
    <2>5. CASE Restart
      <3>1. /\ vault' = Restarted(disk) /\ disk' = Restarted(disk) /\ CanRestart(disk)
            /\ UNCHANGED <<permit, posts>>
        BY <2>5 DEF Restart, Saved
      <3>2. \A r \in Requests :
              /\ Accounted(Restarted(disk).budget, r) => Accounted(disk.budget, r)
              /\ disk.budget[r].status # "Absent" => Restarted(disk).budget[r].status # "Absent"
              /\ Restarted(disk).runs[r].owner = disk.runs[r].owner
        BY <1>2, <3>1, RestartedLedger DEF LInv
      <3>3. \A r \in Requests :
              /\ Accounted(Restarted(disk).budget, r) => posts'[r] > 0
              /\ ~Unsent(r)' /\ Paid(Restarted(disk).runs[r])
                    => Restarted(disk).budget[r].status # "Absent"
        BY <3>1, <3>2 DEF LInv, Backed, Unsent, Paid
      <3> QED
        BY <3>1, <3>3 DEF Backed, Accounted
    <2> QED
      BY <2>1, <2>2, <2>3, <2>4, <2>5, NextCases DEF LInv
  <1> QED
    BY <1>1, <1>3, <1>4 DEF LInv

\* Every entry is good and backed in every reachable state.
THEOREM LedgerInvariance == Spec => []LInv
  <1>1. Init => LInv
    BY InitLInv
  <1>2. LInv /\ [Next]_vars => LInv'
    BY NextLInv
  <1> QED
    BY <1>1, <1>2, PTL DEF Spec

-----------------------------------------------------------------------------
(* Ledger, runs and provider. *)

\* A vault value whose runs say what the provider may know of.
Explains(v) ==
    /\ Matched(v)
    /\ \A r \in Requests :
          /\ ~Unsent(r) => Intended(v.runs[r])
          /\ v.runs[r].generation => posts[r] > 0

MInv ==
    /\ LInv
    /\ Explains(vault) /\ Explains(disk)
    /\ \A r \in Requests : permit[r] = "open" => posts[r] > 0

\* Nothing is stored, nothing is sent.
LEMMA InitMInv == ASSUME Init PROVE MInv
  <1>1. LInv
    BY InitLInv
  <1>2. /\ vault = EmptyVault /\ disk = EmptyVault
        /\ \A r \in Requests : posts[r] = 0 /\ permit[r] = "none"
    BY DEF Init
  <1>3. \A r \in Requests : EmptyVault.runs[r] = NoRun /\ EmptyVault.budget[r] = NoReservation
    BY DEF EmptyVault, EmptyLedger
  <1>4. /\ NoRun.state = "Absent" /\ NoRun.generation = FALSE /\ NoReservation.status = "Absent"
        /\ "Absent" \notin Active
    BY DEF NoRun, NoReservation, Active, InFlight
  <1>5. Matched(EmptyVault)
    BY <1>3, <1>4 DEF Matched, Exists
  <1>6. Explains(EmptyVault)
    BY <1>2, <1>3, <1>4, <1>5 DEF Explains, Unsent
  <1> QED
    BY <1>1, <1>2, <1>6 DEF MInv, Explains

\* Every action keeps it so.
LEMMA NextMInv == ASSUME MInv, [Next]_vars PROVE MInv'
  <1>1. LInv'
    BY NextLInv DEF MInv
  <1>2. /\ WellFormed(vault) /\ WellFormed(disk) /\ Inv
        /\ posts \in [Requests -> Nat] /\ permit \in [Requests -> {"none", "held", "open"}]
    BY DEF MInv, LInv, Inv, Sound
  <1>3. ASSUME NEW v, Explains(v), NEW n, Follows(v, n, {r \in Requests : permit[r] = "open"}),
               UNCHANGED posts,
               \A r \in Requests : \/ permit'[r] \in {permit[r], "none"}
                                   \/ Intended(n.runs[r])
        PROVE  /\ Matched(n)
               /\ \A r \in Requests : /\ ~Unsent(r)' => Intended(n.runs[r])
                                      /\ n.runs[r].generation => posts'[r] > 0
    <2>1. ASSUME NEW r \in Requests, ~Unsent(r)' PROVE Intended(n.runs[r])
      <3>1. ~Unsent(r) \/ Intended(n.runs[r])
        BY <1>3, <2>1 DEF Unsent
      <3> QED
        BY <1>3, <3>1 DEF Explains, Follows
    <2>2. ASSUME NEW r \in Requests, n.runs[r].generation PROVE posts'[r] > 0
      BY <1>3, <2>2 DEF Explains, Follows, MInv
    <2> QED
      BY <1>3, <2>1, <2>2 DEF Explains, Follows
  <1>4. CASE CommitStep
    <2>1. PICK n :
            /\ Commit(n) /\ UNCHANGED posts
            /\ \A r \in Requests :
                  \/ permit'[r] \in {permit[r], "none"}
                  \/ permit'[r] = "held" /\ Saved(n) /\ Intended(n.runs[r])
            /\ Follows(vault, n, {r \in Requests : permit[r] = "open"})
      BY <1>4 DEF CommitStep
    <2>2. Explains(vault)
      BY DEF MInv
    <2>3. /\ Matched(n)
          /\ \A r \in Requests : /\ ~Unsent(r)' => Intended(n.runs[r])
                                 /\ n.runs[r].generation => posts'[r] > 0
      BY <1>3, <2>1, <2>2
    <2>4. disk' = n /\ (vault' = n \/ (Torn(n) /\ vault' = vault))
      BY <2>1 DEF Commit, Saved, Torn
    <2>5. Explains(disk)'
      BY <2>3, <2>4 DEF Explains, Matched, Exists, InDoubt
    <2>6. Explains(vault)'
      <3>1. CASE vault' = n
        BY <2>3, <3>1 DEF Explains, Matched, Exists, InDoubt
      <3>2. CASE Torn(n) /\ vault' = vault /\ vault' # n
        <4>1. \A r \in Requests : ~Unsent(r)' => ~Unsent(r)
          BY <2>1, <3>2 DEF Saved, Unsent
        <4> QED
          BY <2>1, <2>2, <3>2, <4>1 DEF Explains, Matched, Exists, InDoubt
      <3> QED
        BY <2>4, <3>1, <3>2
    <2>7. \A r \in Requests : permit'[r] = "open" => posts'[r] > 0
      BY <1>2, <2>1 DEF MInv
    <2> QED
      BY <1>1, <2>5, <2>6, <2>7 DEF MInv
  \* Steps that leave memory and file to one of the two, and send at most what
  \* was about to be sent.
  <1>5. ASSUME vault' \in {vault, disk}, disk' \in {vault, disk},
               \A r \in Requests : /\ ~Unsent(r)' => ~Unsent(r)
                                   /\ posts[r] > 0 => posts'[r] > 0
                                   /\ permit'[r] = "open" => permit[r] = "open" \/ posts'[r] > 0
        PROVE  MInv'
    <2>1. ASSUME NEW v, Explains(v)
          PROVE  /\ Matched(v)
                 /\ \A r \in Requests : /\ ~Unsent(r)' => Intended(v.runs[r])
                                        /\ v.runs[r].generation => posts'[r] > 0
      BY <1>5, <2>1 DEF Explains
    <2>2. Explains(vault) /\ Explains(disk)
      BY DEF MInv
    <2>3. Explains(vault)' /\ Explains(disk)'
      BY <1>5, <2>1, <2>2 DEF Explains, Matched, Exists, InDoubt
    <2> QED
      BY <1>1, <1>5, <2>3 DEF MInv
  <1>6. CASE \E r \in Requests : Post(r)
    BY <1>2, <1>5, <1>6 DEF Post, Unsent
  <1>7. CASE Quiet
    BY <1>2, <1>5, <1>7 DEF Quiet, Unsent
  <1>8. CASE Crash
    BY <1>2, <1>5, <1>8 DEF Crash, Unsent
  <1>9. CASE Restart
    <2>1. /\ vault' = Restarted(disk) /\ disk' = Restarted(disk) /\ CanRestart(disk)
          /\ UNCHANGED <<permit, posts>>
      BY <1>9 DEF Restart, Saved
    <2>2. Follows(disk, Restarted(disk), {}) /\ Explains(disk)
      BY <1>2, <2>1, RestartedFollows DEF MInv
    <2> DEFINE n == Restarted(disk)
    <2> HIDE DEF n
    <2>3. Follows(disk, n, {r \in Requests : permit[r] = "open"}) /\ vault' = n /\ disk' = n
      BY <2>1, <2>2 DEF Follows, n
    <2>4. /\ Matched(n)
          /\ \A r \in Requests : /\ ~Unsent(r)' => Intended(n.runs[r])
                                 /\ n.runs[r].generation => posts'[r] > 0
      BY <1>3, <2>1, <2>2, <2>3
    <2>5. Explains(vault)' /\ Explains(disk)'
      BY <2>3, <2>4 DEF Explains, Matched, Exists, InDoubt
    <2> QED
      BY <1>1, <2>1, <2>5 DEF MInv
  <1> QED
    BY <1>4, <1>6, <1>7, <1>8, <1>9, NextCases DEF MInv, LInv

\* What is sent is covered, and a readback of a known generation is accepted.
LEMMA ExplainedMatches == ASSUME MInv PROVE LedgerMatchesRuns
  <1>1. ASSUME NEW v \in {vault, disk}
        PROVE  Explains(v) /\ Backed(v) /\ Ledgered(v) /\ WellFormed(v)
    BY DEF MInv, LInv, Inv, Sound
  <1>2. PostIsCovered
    <2>1. ASSUME NEW r \in Requests, Issued(r), NEW v \in {vault, disk}
          PROVE  /\ "DispatchIntent" \in Range(v.runs[r].log)
                 /\ Paid(v.runs[r]) => InDoubt(v.budget, r) \/ Accounted(v.budget, r)
      <3>1. ~Unsent(r)
        BY <2>1, <1>1 DEF Issued, Unsent
      <3>2. Intended(v.runs[r])
        BY <1>1, <3>1 DEF Explains
      <3>3. Paid(v.runs[r]) => v.budget[r].status # "Absent"
        BY <1>1, <3>1 DEF Backed
      <3> QED
        BY <1>1, <3>2, <3>3 DEF Intended, Ledgered, GoodEntry, InDoubt, Accounted
    <2> QED
      BY <2>1 DEF PostIsCovered
  <1>3. ASSUME NEW v \in {vault, disk}, NEW r \in Requests
        PROVE  /\ v.budget[r].status # "Absent"
                     <=> /\ Exists(v, r) /\ Paid(v.runs[r])
                         /\ "DispatchIntent" \in Range(v.runs[r].log)
               /\ v.runs[r].state \in InFlight \cup {"Unknown"} /\ Paid(v.runs[r])
                     => InDoubt(v.budget, r)
               /\ v.runs[r].generation => posts[r] > 0 /\ Paid(v.runs[r])
    <2>1. Matched(v)
      BY <1>1 DEF Explains
    <2> QED
      BY <1>1, <2>1 DEF Explains, Matched, Intended, Active
  <1>4. ASSUME NEW v \in {vault, disk}, NEW r \in Requests, v.runs[r].generation,
               v.runs[r].state = "Unknown", Len(v.runs[r].log) + 2 <= MaxEvents,
               NEW outcome \in {"Cancelled", "Failed"}, NEW cost \in Costs
        PROVE  CanReconcileGeneration(v, r, outcome, cost)
    <2>1. Paid(v.runs[r]) /\ InDoubt(v.budget, r)
      BY <1>3, <1>4
    <2>2. cost # None /\ CanCharge(v, r, cost)
      BY <2>1, BudgetAssumption DEF CanCharge, CanSettle
    <2> DEFINE kinds == FinishEvents(v, r, outcome, cost)
    <2>3. Len(kinds) <= 2
      <3> DEFINE over == OverrunEvents(Charged(v, r, cost), r)
      <3>1. over \in Seq(JournalEventKind) /\ Len(over) <= 1
        <4>1. /\ <<"CostCeilingExceeded">> \in Seq(JournalEventKind) /\ Len(<<"CostCeilingExceeded">>) = 1
              /\ << >> \in Seq(JournalEventKind) /\ Len(<< >>) = 0
          BY DEF JournalEventKind
        <4> QED
          BY <4>1 DEF OverrunEvents
      <3>2. /\ <<ProviderTerminal[outcome]>> \in Seq(JournalEventKind)
            /\ Len(<<ProviderTerminal[outcome]>>) = 1
        BY DEF ProviderTerminal, JournalEventKind
      <3>3. kinds = over \o <<ProviderTerminal[outcome]>>
        BY DEF FinishEvents
      <3> HIDE DEF over, kinds
      <3> QED
        BY <3>1, <3>2, <3>3
    <2>4. v.runs[r].log \in Seq(JournalEventKind) /\ kinds \in Seq(Told)
      BY <1>1, Shape, ReceiptsTold DEF StoredInference, TerminalOutcome
    <2> HIDE DEF kinds
    <2>5. Len(v.runs[r].log) + Len(kinds) <= MaxEvents
      BY <1>4, <2>3, <2>4, JournalAssumption
    <2>6. CanLog(v.runs[r], kinds)
      BY <2>5 DEF CanLog
    <2> QED
      BY <1>4, <2>1, <2>2, <2>6 DEF CanReconcileGeneration, CanFinish, kinds
  <1> QED
    BY <1>2, <1>3, <1>4 DEF LedgerMatchesRuns

\* In memory and on file, whatever fails and crashes: what is sent has its
\* intent and, if it costs money, its reservation; the ledger has the dispatched
\* paid requests and no other; an active one is in doubt, so that a restart can
\* reconcile it, and one whose generation is known can be read back.
THEOREM LedgerMatches == Spec => []LedgerMatchesRuns
  <1>1. Init => MInv
    BY InitMInv
  <1>2. MInv /\ [Next]_vars => MInv'
    BY NextMInv
  <1>3. MInv => LedgerMatchesRuns
    BY ExplainedMatches
  <1> QED
    BY <1>1, <1>2, <1>3, PTL DEF Spec

-----------------------------------------------------------------------------
(* The abstract steps. *)

Funded(v) == [r \in Requests |-> FundsOf(v.budget[r])]

SentPaid(v, p) == [r \in Requests |-> IF Exists(v, r) /\ Paid(v.runs[r]) THEN p[r] ELSE 0]

\* What a good entry is to PaidOnce.
LEMMA EntryFunds ==
    ASSUME NEW e \in Reservation, GoodEntry(e)
    PROVE  /\ e.status = "Absent" => FundsOf(e) = Promise!Free
           /\ e.status # "Absent" => FundsOf(e) = [ceiling |-> e.ceiling, bill |-> e.actual]
           /\ FundsOf(e).bill # None <=> e.status \in {"Settled", "CostOverrun"}
           /\ FundsOf(e).ceiling # None <=> e.status # "Absent"
           /\ Held(e) = IF FundsOf(e).bill # None THEN FundsOf(e).bill
                        ELSE IF FundsOf(e).ceiling # None THEN FundsOf(e).ceiling ELSE 0
           /\ FundsOf(e).bill # None /\ FundsOf(e).bill > FundsOf(e).ceiling
                 <=> e.status = "CostOverrun"
  <1>1. (\A x \in Ceilings : x # None) /\ (\A x \in Costs : x # None)
    BY BudgetAssumption
  <1>2. CASE e.status = "Absent"
    <2>1. FundsOf(e) = [ceiling |-> None, bill |-> None]
      BY <1>2 DEF FundsOf, GoodEntry
    <2> QED
      BY <1>2, <2>1 DEF Held, Promise!Free
  <1>3. CASE e.status \in {"Dispatched", "Uncertain"}
    <2>1. FundsOf(e) = [ceiling |-> e.ceiling, bill |-> None] /\ e.ceiling \in Ceilings
      BY <1>3 DEF FundsOf, GoodEntry
    <2>2. Held(e) = e.ceiling
      BY <1>3 DEF Held
    <2>3. e.actual = None
      BY <1>3 DEF GoodEntry
    <2>4. FundsOf(e).ceiling = e.ceiling /\ FundsOf(e).bill = None
      BY <2>1
    <2>5. e.ceiling # None
      BY <1>1, <2>1
    <2> QED
      BY <1>3, <2>1, <2>2, <2>3, <2>4, <2>5
  <1>4. CASE e.status \in {"Settled", "CostOverrun"}
    <2>1. /\ FundsOf(e) = [ceiling |-> e.ceiling, bill |-> e.actual]
          /\ e.ceiling \in Ceilings /\ e.actual \in Costs
      BY <1>4 DEF FundsOf, GoodEntry
    <2>2. Held(e) = e.actual
      BY <1>4 DEF Held
    <2>3. FundsOf(e).ceiling = e.ceiling /\ FundsOf(e).bill = e.actual
      BY <2>1
    <2>4. e.ceiling # None /\ e.actual # None
      BY <1>1, <2>1
    <2>5. FundsOf(e).bill > FundsOf(e).ceiling <=> e.status = "CostOverrun"
      BY <1>4, <2>3 DEF GoodEntry
    <2> QED
      BY <1>4, <2>1, <2>2, <2>3, <2>4, <2>5
  <1> QED
    BY <1>2, <1>3, <1>4 DEF GoodEntry

\* The abstract exposure is what the code counts as committed.
LEMMA ExposureIsCommitted ==
    ASSUME vault.budget \in Ledger, Ledgered(vault)
    PROVE  Promise!Exposure = Committed(vault.budget)
  <1> DEFINE f == [r \in Requests |->
                      IF FundsOf(vault.budget[r]).bill # None THEN FundsOf(vault.budget[r]).bill
                      ELSE IF FundsOf(vault.budget[r]).ceiling # None
                           THEN FundsOf(vault.budget[r]).ceiling ELSE 0]
             g == [r \in Requests |-> Held(vault.budget[r])]
  <1>1. \A r \in Requests : vault.budget[r] \in Reservation /\ GoodEntry(vault.budget[r])
    BY DEF Ledger, Ledgered
  <1>2. f = g
    BY <1>1, EntryFunds
  <1>3. Promise!Exposure = Promise!SumFunction(f)
    BY DEF Promise!Exposure
  <1>4. Committed(vault.budget) = SumFunction(g)
    BY DEF Committed
  <1> HIDE DEF f, g
  \* The two modules read the same library definition.
  <1>5. \A h : Promise!SumFunction(h) = SumFunction(h)
    BY DEF Promise!SumFunction, SumFunction, Promise!SumFunctionOnSet, SumFunctionOnSet,
           Promise!FoldFunctionOnSet, FoldFunctionOnSet,
           Promise!MapThenFoldSet, MapThenFoldSet
  <1> QED
    BY <1>2, <1>3, <1>4, <1>5

\* An operation that reaches the memory, at its commit or by a crash that
\* completes it, is a hold, a bill or nothing.
LEMMA OperationRefines ==
    ASSUME LInv, LInv', Operation(vault, vault'), UNCHANGED posts
    PROVE  Promise!Next \/ UNCHANGED Promise!vars
  <1>1. /\ WellFormed(vault) /\ SentOnce /\ Ledgered(vault) /\ vault.budget \in Ledger
        /\ WellFormed(vault') /\ vault'.budget \in Ledger
        /\ Ledgered(vault')
    <2>1. WellFormed(vault) /\ WellFormed(vault')
      BY DEF LInv, Inv, Sound, WellFormed, Stored, Exists
    <2>2. Ledgered(vault')
      BY DEF LInv, Ledgered
    <2> QED
      BY <2>1, <2>2, Shape DEF LInv, Inv
  <1>2. KeepsRuns(vault, vault') /\ Moves(vault, vault')
    BY <1>1, OperationEffects DEF Effects
  <1>3. PaidPosts' = PaidPosts
    <2>1. \A r \in Requests :
             (IF Exists(vault', r) /\ Paid(vault'.runs[r]) THEN posts[r] ELSE 0)
                 = (IF Exists(vault, r) /\ Paid(vault.runs[r]) THEN posts[r] ELSE 0)
      <3> TAKE r \in Requests
      <3>1. CASE posts[r] = 0
        BY <3>1
      <3>2. CASE posts[r] # 0
        <4>1. Begun(vault, r)
          BY <1>1, <3>2 DEF SentOnce, Unsent
        <4>2. Begun(vault', r) /\ vault'.runs[r].owner = vault.runs[r].owner
          BY <1>2, <4>1 DEF KeepsRuns
        <4> QED
          BY <4>1, <4>2 DEF Begun, Exists, Paid
      <3> QED
        BY <3>1, <3>2
    <2> QED
      BY <2>1 DEF PaidPosts, Exists, Paid
  <1>4. \A r \in Requests : /\ vault.budget[r] \in Reservation /\ GoodEntry(vault.budget[r])
                            /\ vault'.budget[r] \in Reservation /\ GoodEntry(vault'.budget[r])
    BY <1>1 DEF Ledger, Ledgered
  <1>5. CASE vault'.budget = vault.budget
    BY <1>3, <1>5 DEF Promise!vars
  <1>6. ASSUME NEW r \in Requests, Holds(vault, vault', r) PROVE Promise!Next
    <2>1. PICK ceiling \in Ceilings :
            /\ vault.budget[r].status = "Absent"
            /\ ~PaidDispatchBlocked(vault.budget)
            /\ Committed(vault.budget) + ceiling <= Limit
            /\ vault'.budget = [vault.budget EXCEPT ![r] =
                  [status |-> "Dispatched", ceiling |-> ceiling, actual |-> None]]
      BY <1>6 DEF Holds
    <2>2. Funded(vault)[r] = Promise!Free
      BY <1>4, <2>1, EntryFunds DEF Funded
    <2>3. ~Promise!Overrun
      BY <1>4, <2>1, EntryFunds DEF Promise!Overrun, PaidDispatchBlocked
    <2>4. Promise!Exposure + ceiling <= Limit
      BY <1>1, <2>1, ExposureIsCommitted
    <2>5. Funded(vault') = [Funded(vault) EXCEPT ![r] = [ceiling |-> ceiling, bill |-> None]]
      <3>1. \A q \in Requests :
               vault'.budget[q] = IF q = r
                   THEN [status |-> "Dispatched", ceiling |-> ceiling, actual |-> None]
                   ELSE vault.budget[q]
        BY <1>1, <2>1 DEF Ledger
      <3>2. FundsOf([status |-> "Dispatched", ceiling |-> ceiling, actual |-> None])
                = [ceiling |-> ceiling, bill |-> None]
        BY DEF FundsOf
      <3> QED
        BY <3>1, <3>2 DEF Funded
    <2>6. Promise!Hold(r, ceiling)
      BY <1>3, <2>2, <2>3, <2>4, <2>5 DEF Promise!Hold, Funded
    <2> QED
      BY <2>6 DEF Promise!Next
  <1>7. ASSUME NEW r \in Requests, Doubts(vault, vault', r) PROVE UNCHANGED Promise!vars
    <2>1. \A q \in Requests : FundsOf(vault'.budget[q]) = FundsOf(vault.budget[q])
      <3> TAKE q \in Requests
      <3>1. vault'.budget[q] = IF q = r THEN [vault.budget[r] EXCEPT !.status = "Uncertain"]
                               ELSE vault.budget[q]
        BY <1>1, <1>7 DEF Doubts, MarkUncertain, Ledger
      <3>2. CASE q = r
        <4>1. /\ vault'.budget[r].status = "Uncertain"
              /\ vault'.budget[r].ceiling = vault.budget[r].ceiling
              /\ vault'.budget[r].actual = vault.budget[r].actual
          BY <1>4, <3>1, <3>2 DEF Reservation
        <4> QED
          BY <1>7, <3>2, <4>1 DEF Doubts, InDoubt, FundsOf
      <3> QED
        BY <3>1, <3>2
    <2>2. Funded(vault') = Funded(vault)
      BY <2>1 DEF Funded
    <2> QED
      BY <1>3, <2>2 DEF Promise!vars, Funded
  <1>8. ASSUME NEW r \in Requests, Bills(vault, vault', r) PROVE Promise!Next
    <2>1. PICK cost \in Costs :
            /\ InDoubt(vault.budget, r) /\ Begun(vault, r) /\ Paid(vault.runs[r])
            /\ vault'.budget = Settle(vault.budget, r, cost)
      BY <1>8 DEF Bills
    <2>2. \A q \in Requests :
             vault'.budget[q] = IF q = r
                 THEN [status |-> IF cost > vault.budget[r].ceiling
                                  THEN "CostOverrun" ELSE "Settled",
                       ceiling |-> vault.budget[r].ceiling, actual |-> cost]
                 ELSE vault.budget[q]
      BY <1>1, <2>1 DEF Settle, Ledger, InDoubt, Accounted
    <2>3. Accounted(vault'.budget, r)
      BY <2>2 DEF Accounted
    <2>4. PaidPosts[r] = 1
      <3>1. posts[r] > 0
        BY <2>3 DEF LInv, Backed, Accounted
      <3> QED
        BY <1>1, <2>1, <3>1 DEF PaidPosts, SentOnce, Begun, Exists
    <2>5. Funded(vault)[r].bill = None
      BY <1>4, <2>1, EntryFunds DEF Funded, InDoubt
    <2>6. Funded(vault') = [Funded(vault) EXCEPT ![r].bill = cost]
      <3>1. FundsOf(vault.budget[r]) = [ceiling |-> vault.budget[r].ceiling,
                                        bill |-> vault.budget[r].actual]
        BY <1>4, <2>1, EntryFunds DEF InDoubt
      <3>2. FundsOf(vault'.budget[r]) = [ceiling |-> vault.budget[r].ceiling, bill |-> cost]
        BY <2>2 DEF FundsOf
      <3>3. [FundsOf(vault.budget[r]) EXCEPT !.bill = cost] = FundsOf(vault'.budget[r])
        BY <3>1, <3>2
      <3>4. \A q \in Requests \ {r} : FundsOf(vault'.budget[q]) = FundsOf(vault.budget[q])
        BY <2>2
      <3> QED
        BY <3>3, <3>4 DEF Funded
    <2>7. Promise!Bill(r, cost)
      BY <1>3, <2>4, <2>5, <2>6 DEF Promise!Bill, Funded
    <2> QED
      BY <2>7 DEF Promise!Next
  <1> QED
    BY <1>2, <1>5, <1>6, <1>7, <1>8 DEF Moves

\* Every step of the journal is a step of PaidOnce or leaves its state alone.
LEMMA StepRefines ==
    ASSUME LInv, LInv', [Next]_vars
    PROVE  Promise!Next \/ UNCHANGED Promise!vars
  <1>1. ASSUME UNCHANGED <<vault, posts>> PROVE UNCHANGED Promise!vars
    BY <1>1 DEF Promise!vars, PaidPosts, Exists, Paid
  <1>2. CASE CommitStep
    <2>1. PICK n : Operation(vault, n) /\ Commit(n) /\ UNCHANGED posts
      BY <1>2 DEF CommitStep
    <2>2. CASE vault' = n
      BY <2>1, <2>2, OperationRefines
    <2>3. CASE vault' = vault
      BY <1>1, <2>1, <2>3
    <2> QED
      BY <2>1, <2>2, <2>3 DEF Commit, Saved, Torn
  <1>3. ASSUME NEW r \in Requests, Post(r)
        PROVE  Promise!Next \/ UNCHANGED Promise!vars
    <2>1. /\ permit[r] = "held" /\ posts \in [Requests -> Nat] /\ UNCHANGED vault
          /\ posts' = [posts EXCEPT ![r] = @ + 1]
          /\ posts[r] = 0 /\ Begun(vault, r)
      BY <1>3 DEF Post, LInv, Inv, SentOnce, Unsent
    <2>2. CASE ~Paid(vault.runs[r])
      <3>1. PaidPosts' = PaidPosts
        BY <2>1, <2>2 DEF PaidPosts, Exists, Paid
      <3> QED
        BY <2>1, <3>1 DEF Promise!vars
    <2>3. CASE Paid(vault.runs[r])
      <3>1. PaidPosts[r] = 0 /\ PaidPosts' = [PaidPosts EXCEPT ![r] = 1]
        <4>1. Exists(vault, r) /\ Exists(vault, r)' /\ Paid(vault.runs[r])'
          BY <2>1, <2>3 DEF Exists, Paid, Begun
        <4>2. \A q \in Requests : /\ Exists(vault, q)' <=> Exists(vault, q)
                                  /\ Paid(vault.runs[q])' <=> Paid(vault.runs[q])
          BY <2>1 DEF Exists, Paid
        <4>3. \A q \in Requests : posts'[q] = IF q = r THEN 1 ELSE posts[q]
          BY <2>1
        <4> QED
          BY <2>1, <2>3, <4>1, <4>2, <4>3 DEF PaidPosts
      <3>2. vault.budget[r].status # "Absent" /\ ~Accounted(vault.budget, r)
        BY <2>1, <2>3 DEF LInv, Backed, Unsent
      <3>3. vault.budget[r] \in Reservation /\ GoodEntry(vault.budget[r])
        BY Shape DEF LInv, Inv, Sound, Ledger, Ledgered
      <3>4. FundsOf(vault.budget[r]).ceiling # None /\ FundsOf(vault.budget[r]).bill = None
        BY <3>2, <3>3, EntryFunds DEF Accounted
      <3>5. Promise!Send(r)
        BY <2>1, <3>1, <3>4 DEF Promise!Send
      <3> QED
        BY <3>5 DEF Promise!Next
    <2> QED
      BY <2>2, <2>3
  <1>4. CASE Crash
    <2>1. vault' \in {vault, disk} /\ UNCHANGED posts
      BY <1>4 DEF Crash
    <2>2. vault' = vault \/ Operation(vault, vault')
      BY <2>1 DEF LInv, Ahead, FailedCommitIsOneStep, Operation
    <2> QED
      BY <1>1, <2>1, <2>2, OperationRefines
  <1>5. CASE Restart
    <2>1. /\ ~up /\ CanRestart(disk) /\ vault' = Restarted(disk) /\ UNCHANGED posts
      BY <1>5 DEF Restart, Saved
    <2>2. disk = vault /\ WellFormed(vault) /\ Ledgered(vault)
      BY <2>1 DEF LInv, Ahead, Inv, Sound
    <2>3. \A r \in Requests :
             /\ FundsOf(vault'.budget[r]) = FundsOf(vault.budget[r])
             /\ Exists(vault', r) <=> Exists(vault, r)
             /\ vault'.runs[r].owner = vault.runs[r].owner
      BY <2>1, <2>2, RestartedLedger
    <2>4. Funded(vault') = Funded(vault)
      BY <2>3 DEF Funded
    <2>5. SentPaid(vault', posts) = SentPaid(vault, posts)
      BY <2>3 DEF SentPaid, Paid
    <2> QED
      BY <2>1, <2>4, <2>5 DEF Promise!vars, Funded, SentPaid, PaidPosts, Exists, Paid
  <1> QED
    BY <1>1, <1>2, <1>3, <1>4, <1>5, NextCases DEF LInv, Quiet

-----------------------------------------------------------------------------
(* The theorems about file, ledger and promise. *)

\* However commits fail and wherever the process crashes, the file is never
\* more than one operation ahead of the memory.
THEOREM CommitsOneStep == Spec => []FailedCommitIsOneStep
  <1>1. LInv => FailedCommitIsOneStep
    BY DEF LInv, Ahead
  <1> QED
    BY <1>1, LedgerInvariance, PTL

\* No step, crash or restart takes a run with a pending cancellation back.
THEOREM CancellationHolds == Spec => CancelHolds
  <1> DEFINE Holding ==
                \A r \in Requests :
                    vault.runs[r].state = "CancellationRequested" =>
                        vault'.runs[r].state \in
                            {"CancellationRequested", "Unknown", "Completed", "Cancelled", "Failed"}
  <1>1. ASSUME LInv, [Next]_vars PROVE Holding
    <2>1. WellFormed(vault) /\ WellFormed(disk)
      BY <1>1 DEF LInv, Inv, Sound
    <2>2. \A n : Operation(vault, n) => KeepsCancel(vault, n)
      BY <2>1, OperationEffects DEF Effects
    <2>3. CASE vault' = vault
      BY <2>3
    <2>4. CASE CommitStep
      <3>1. PICK n : Operation(vault, n) /\ Commit(n)
        BY <2>4 DEF CommitStep
      <3>2. KeepsCancel(vault, n)
        BY <2>2, <3>1
      <3> QED
        BY <2>3, <3>1, <3>2 DEF Commit, Saved, Torn, KeepsCancel, AfterCancel
    <2>5. CASE Crash
      <3>1. vault' = vault \/ Operation(vault, vault')
        BY <1>1, <2>5 DEF Crash, LInv, Ahead, FailedCommitIsOneStep, Operation
      <3> QED
        BY <2>2, <2>3, <3>1 DEF KeepsCancel, AfterCancel
    <2>6. CASE Restart
      <3>1. disk = vault /\ CanRestart(vault) /\ vault' = Restarted(vault)
        BY <1>1, <2>6 DEF Restart, Saved, LInv, Ahead
      <3> QED
        BY <1>1, <2>1, <3>1, RestartedLedger DEF LInv, InFlight
    <2> QED
      BY <1>1, <2>3, <2>4, <2>5, <2>6, NextCases DEF LInv, Quiet, Post
  <1>2. LInv /\ [Next]_vars => [Holding]_vars
    BY <1>1
  <1> QED
    BY <1>2, LedgerInvariance, PTL DEF Spec, CancelHolds

\* The journal over a vault that can fail, crash and restart implements the
\* promise about money.
THEOREM Implements == Spec => PaidOncePromise
  <1>1. Init => Promise!Init
    <2> SUFFICES ASSUME Init PROVE Promise!Init
      OBVIOUS
    <2>1. vault.budget = EmptyLedger /\ posts = [r \in Requests |-> 0]
      BY DEF Init, EmptyVault
    <2>2. \A r \in Requests : FundsOf(vault.budget[r]) = [ceiling |-> None, bill |-> None]
      BY <2>1 DEF EmptyLedger, NoReservation, FundsOf
    <2>3. PaidPosts = [r \in Requests |-> 0]
      BY <2>1 DEF PaidPosts
    <2> QED
      BY <2>2, <2>3 DEF Promise!Init, Promise!Free
  <1>2. LInv /\ LInv' /\ [Next]_vars => [Promise!Next]_(Promise!vars)
    BY StepRefines
  <1> QED
    BY <1>1, <1>2, LedgerInvariance, PTL DEF Spec, PaidOncePromise, Promise!Spec

-----------------------------------------------------------------------------
(* The events of a run tell its state. *)

Status == RunState \cup {"Absent"}

\* What an event makes of a state is a state,
LEMMA AfterEventTyped == ASSUME NEW a \in Status, NEW kind PROVE AfterEvent(a, kind) \in Status
  <1>1. AfterEvent(a, kind) \in {"Prepared", "Dispatching", "Running", "CancellationRequested",
                                "Cancelled", "Unknown", "AwaitingTools", "ToolsSubmitted",
                                "Completed", "Failed", a}
    BY DEF AfterEvent
  <1> QED
    BY <1>1 DEF Status, RunState, InFlight, Terminal

Latest(D) == [s \in SUBSET D |-> Max(s)]

Telling(log) ==
    [s \in SUBSET DOMAIN log |-> [a \in Status |-> AfterEvent(a, log[Max(s)])]]

Replays(g, log) ==
    /\ g \in [SUBSET DOMAIN log -> Status]
    /\ IsFold(g, DOMAIN log, "Absent", Latest(DOMAIN log), Telling(log))
    /\ Replay(log) = g[DOMAIN log]

\* so a replay is a fold of the states over the events, oldest first.
LEMMA ReplayIsFold ==
    ASSUME NEW log \in Seq(JournalEventKind)
    PROVE  \E g : Replays(g, log)
  <1> DEFINE D == DOMAIN log
             absent == "Absent"
             F(g) == [s \in SUBSET D |->
                         IF s = {} THEN absent ELSE AfterEvent(g[s \ {Max(s)}], log[Max(s)])]
  <1>1. D = 1 .. Len(log) /\ IsFiniteSet(D)
    BY FS_Interval
  <1>2. \A s \in SUBSET D : s # {} => Max(s) \in s
    <2> TAKE s \in SUBSET D
    <2>1. IsFiniteSet(s) /\ s \in SUBSET Int
      BY <1>1, FS_Subset
    <2> QED
      BY <2>1, MaxIsGreatest
  <1>3. \A iter : iter = (CHOOSE g : g = F(g)) => Replay(log) = iter[D]
    BY Zenon DEF Replay, FoldLeft, MapThenFoldSet
  <1>4. Telling(log) \in [SUBSET D -> [Status -> Status]]
    BY AfterEventTyped DEF Telling
  <1>5. \A s \in SUBSET D : s # {} => Latest(D)[s] \in s
    BY <1>2 DEF Latest
  <1>6. absent \in Status
    BY DEF Status
  <1> HIDE DEF absent
  <1>7. PICK h \in [SUBSET D -> Status] : IsFold(h, D, absent, Latest(D), Telling(log))
    <2> DEFINE c == Latest(D)
               N == Telling(log)
    <2>1. /\ \A s \in SUBSET D : s # {} => c[s] \in s
          /\ N \in [SUBSET D -> [Status -> Status]]
          /\ IsFiniteSet(D)
      BY <1>1, <1>4, <1>5
    <2> HIDE DEF D, c, N
    <2>2. \E g \in [SUBSET D -> Status] : IsFold(g, D, absent, c, N)
      BY <1>6, <2>1, FoldExists
    <2> QED
      BY <2>2 DEF c, N
  <1>8. h = F(h)
    <2>1. \A s \in SUBSET D : h[s] = IF s = {} THEN absent ELSE Telling(log)[s][h[s \ {Latest(D)[s]}]]
      BY <1>7 DEF IsFold
    <2>2. \A s \in SUBSET D : h[s] = IF s = {} THEN absent ELSE AfterEvent(h[s \ {Max(s)}], log[Max(s)])
      <3> TAKE s \in SUBSET D
      <3>1. Latest(D)[s] = Max(s) /\ h[s \ {Max(s)}] \in Status
        BY <1>7 DEF Latest
      <3>2. Telling(log)[s][h[s \ {Max(s)}]] = AfterEvent(h[s \ {Max(s)}], log[Max(s)])
        BY <3>1 DEF Telling
      <3> QED
        BY <2>1, <3>1, <3>2
    <2> QED
      BY <1>7, <2>2
  <1> DEFINE k == CHOOSE g : g = F(g)
  <1>9. k = F(k)
    <2> HIDE DEF F
    <2> QED
      BY <1>8
  <1>10. Replay(log) = k[D]
    BY <1>3
  <1> HIDE DEF k
  <1>11. k[D] = h[D]
    <2>1. \A s \in SUBSET D : h[s] = IF s = {} THEN absent ELSE AfterEvent(h[s \ {Max(s)}], log[Max(s)])
      BY <1>8
    <2>2. \A s \in SUBSET D : k[s] = IF s = {} THEN absent ELSE AfterEvent(k[s \ {Max(s)}], log[Max(s)])
      BY <1>9
    <2> DEFINE c == Latest(D)
    <2>3. \A s \in SUBSET D : c[s] = Max(s) /\ (s # {} => c[s] \in s)
      BY <1>2 DEF Latest
    <2> HIDE DEF D, c, F
    <2>4. ASSUME NEW s \in SUBSET D
          PROVE  /\ s # {} => c[s] \in s
                 /\ (s # {} => k[s \ {c[s]}] = h[s \ {c[s]}]) => k[s] = h[s]
      <3>1. c[s] = Max(s) /\ (s # {} => c[s] \in s)
        BY <2>3
      <3>2. /\ h[s] = IF s = {} THEN absent ELSE AfterEvent(h[s \ {c[s]}], log[c[s]])
            /\ k[s] = IF s = {} THEN absent ELSE AfterEvent(k[s \ {c[s]}], log[c[s]])
        BY <2>1, <2>2, <3>1
      <3> QED
        BY <3>1, <3>2
    <2>5. StepsAgree(h, k, D, c)
      BY <2>4 DEF StepsAgree
    <2>6. IsFiniteSet(D)
      BY <1>1
    <2>7. \A s \in SUBSET D : k[s] = h[s]
      BY <2>5, <2>6, FoldsAgree
    <2> QED
      BY <2>7
  <1>12. Replays(h, log)
    BY <1>7, <1>10, <1>11 DEF Replays, absent
  <1> QED
    BY <1>12

\* The replay of no event is no run, and every event goes on from the replay of
\* those before it.
LEMMA ReplayStep ==
    /\ Replay(<< >>) = "Absent"
    /\ \A log \in Seq(JournalEventKind), kind \in JournalEventKind :
          Replay(Append(log, kind)) = AfterEvent(Replay(log), kind)
  <1>1. Replay(<< >>) = "Absent"
    <2>1. << >> \in Seq(JournalEventKind) /\ DOMAIN << >> = {}
      OBVIOUS
    <2>2. PICK g : Replays(g, << >>)
      BY <2>1, ReplayIsFold
    <2>3. g[{}] = "Absent"
      BY <2>2 DEF Replays, IsFold
    <2> QED
      BY <2>1, <2>2, <2>3 DEF Replays
  <1>2. ASSUME NEW log \in Seq(JournalEventKind), NEW kind \in JournalEventKind
        PROVE  Replay(Append(log, kind)) = AfterEvent(Replay(log), kind)
    <2> DEFINE new == Append(log, kind)
               D == DOMAIN log
               E == DOMAIN new
               last == Len(log) + 1
    <2>1. /\ new \in Seq(JournalEventKind)
          /\ D = 1 .. Len(log) /\ E = 1 .. last /\ last \in Nat
          /\ \A i \in D : new[i] = log[i]
          /\ new[last] = kind
      OBVIOUS
    <2>2. D \subseteq E /\ E \ {last} = D /\ last \in E /\ IsFiniteSet(D) /\ IsFiniteSet(E)
      <3>1. Len(log) \in Nat
        OBVIOUS
      <3> HIDE DEF new, D, E
      <3>2. IsFiniteSet(D) /\ IsFiniteSet(E)
        BY <2>1, <3>1, FS_Interval
      <3>3. D \subseteq E /\ E \ {last} = D /\ last \in E
        BY <2>1, <3>1
      <3> QED
        BY <3>2, <3>3
    <2> HIDE DEF new, D, E, last
    <2>3. PICK g : Replays(g, log)
      BY ReplayIsFold
    <2>4. PICK h : Replays(h, new)
      BY <2>1, ReplayIsFold
    <2>5. /\ IsFold(g, D, "Absent", Latest(D), Telling(log)) /\ Replay(log) = g[D]
          /\ IsFold(h, E, "Absent", Latest(E), Telling(new)) /\ Replay(new) = h[E]
          /\ g \in [SUBSET D -> Status]
      BY <2>3, <2>4 DEF Replays, D, E
    <2>6. \A s \in SUBSET D : s # {} => Latest(D)[s] \in s /\ Latest(E)[s] = Latest(D)[s]
                                        /\ Telling(new)[s] = Telling(log)[s]
      <3> TAKE s \in SUBSET D
      <3>1. SUFFICES ASSUME s # {}
            PROVE  Latest(D)[s] \in s /\ Latest(E)[s] = Latest(D)[s]
                   /\ Telling(new)[s] = Telling(log)[s]
        OBVIOUS
      <3>2. Max(s) \in s
        <4>1. IsFiniteSet(s)
          BY <2>2, FS_Subset
        <4>2. s \in SUBSET Int
          BY <2>1
        <4> QED
          BY <3>1, <4>1, <4>2, MaxIsGreatest
      <3>3. Latest(D)[s] = Max(s) /\ Latest(E)[s] = Max(s)
        BY <2>2 DEF Latest
      <3>4. new[Max(s)] = log[Max(s)]
        BY <2>1, <3>2
      <3>5. /\ Telling(new)[s] = [a \in Status |-> AfterEvent(a, new[Max(s)])]
            /\ Telling(log)[s] = [a \in Status |-> AfterEvent(a, log[Max(s)])]
        BY <2>2 DEF Telling, D, E
      <3> QED
        BY <3>2, <3>3, <3>4, <3>5
    <2>7. h[D] = g[D]
      <3> DEFINE absent == "Absent"
      <3>1. /\ IsFold(g, D, absent, Latest(D), Telling(log))
            /\ IsFold(h, E, absent, Latest(E), Telling(new))
        BY <2>5
      <3> HIDE DEF absent
      <3>2. \A s \in SUBSET D : h[s] = g[s]
        BY <2>2, <2>6, <3>1, FoldAgrees
      <3> QED
        BY <3>2
    <2>8. Max(E) = last
      <3>1. Max(E) \in E /\ \A y \in E : y <= Max(E)
        <4>1. E # {} /\ E \in SUBSET Int
          BY <2>1, <2>2
        <4> QED
          BY <2>2, <4>1, MaxIsGreatest
      <3> QED
        BY <2>1, <2>2, <3>1
    <2>9. h[E] = Telling(new)[E][h[E \ {Latest(E)[E]}]]
      BY <2>2, <2>5 DEF IsFold
    <2>10. Latest(E)[E] = last /\ Telling(new)[E] = [a \in Status |-> AfterEvent(a, kind)]
      BY <2>1, <2>8 DEF Latest, Telling, E
    <2>11. g[D] \in Status
      BY <2>5
    <2>12. h[E] = AfterEvent(g[D], kind)
      BY <2>2, <2>7, <2>9, <2>10, <2>11
    <2> QED
      BY <2>5, <2>12 DEF new
  <1> QED
    BY <1>1, <1>2

-----------------------------------------------------------------------------
(* What is logged, tells what happened to state and ledger. *)

Over(entry) == IF entry.status = "CostOverrun" THEN 1 ELSE 0

Overruns(log) == Cardinality({i \in DOMAIN log : log[i] = "CostCeilingExceeded"})

\* After a log that tells of state s and of o overruns, these kinds tell of t and p.
Tells(s, o, kinds, t, p) ==
    \A log \in Seq(JournalEventKind) :
        Replay(log) = s /\ Overruns(log) = o
            => Replay(log \o kinds) = t /\ Overruns(log \o kinds) = p

\* What each kind of event makes of a state.
LEMMA AfterEventIs ==
    ASSUME NEW s
    PROVE  /\ AfterEvent(s, "Prepared") = "Prepared"
           /\ AfterEvent(s, "DispatchIntent") = "Dispatching"
           /\ AfterEvent(s, "TextDelta") = IF s = "CancellationRequested" THEN s ELSE "Running"
           /\ AfterEvent(s, "CancellationRequested") = "CancellationRequested"
           /\ AfterEvent(s, "CancelledBeforeDispatch") = "Cancelled"
           /\ AfterEvent(s, "CancelledWaitingTools") = "Cancelled"
           /\ AfterEvent(s, "UnknownOutcome") = "Unknown"
           /\ AfterEvent(s, "ToolCalls") = "AwaitingTools"
           /\ AfterEvent(s, "ToolResultsSubmitted") = "ToolsSubmitted"
           /\ AfterEvent(s, "ProviderCompleted") = "Completed"
           /\ AfterEvent(s, "ProviderCancelled") = "Cancelled"
           /\ AfterEvent(s, "ProviderFailed") = "Failed"
           /\ AfterEvent(s, "CostReconciled") = s
           /\ AfterEvent(s, "CostCeilingExceeded") = s
  <1>1. AfterEvent(s, "Prepared") = "Prepared"
    BY DEF AfterEvent
  <1>2. AfterEvent(s, "DispatchIntent") = "Dispatching"
    BY DEF AfterEvent
  <1>3. AfterEvent(s, "TextDelta") = IF s = "CancellationRequested" THEN s ELSE "Running"
    BY DEF AfterEvent
  <1>4. AfterEvent(s, "CancellationRequested") = "CancellationRequested"
    BY DEF AfterEvent
  <1>5. AfterEvent(s, "CancelledBeforeDispatch") = "Cancelled"
    BY DEF AfterEvent
  <1>6. AfterEvent(s, "CancelledWaitingTools") = "Cancelled"
    BY DEF AfterEvent
  <1>7. AfterEvent(s, "UnknownOutcome") = "Unknown"
    BY DEF AfterEvent
  <1>8. AfterEvent(s, "ToolCalls") = "AwaitingTools"
    BY DEF AfterEvent
  <1>9. AfterEvent(s, "ToolResultsSubmitted") = "ToolsSubmitted"
    BY DEF AfterEvent
  <1>10. AfterEvent(s, "ProviderCompleted") = "Completed"
    BY DEF AfterEvent
  <1>11. AfterEvent(s, "ProviderCancelled") = "Cancelled"
    BY DEF AfterEvent
  <1>12. AfterEvent(s, "ProviderFailed") = "Failed"
    BY DEF AfterEvent
  <1>13. AfterEvent(s, "CostReconciled") = s
    BY DEF AfterEvent
  <1>14. AfterEvent(s, "CostCeilingExceeded") = s
    BY DEF AfterEvent
  <1> QED
    BY <1>1, <1>2, <1>3, <1>4, <1>5, <1>6, <1>7, <1>8, <1>9, <1>10, <1>11, <1>12, <1>13, <1>14

\* An event more is an overrun more exactly if it is one.
LEMMA OverrunsStep ==
    ASSUME NEW log \in Seq(JournalEventKind), NEW kind \in JournalEventKind
    PROVE  /\ Overruns(log) \in Nat
           /\ Overruns(Append(log, kind))
                 = IF kind = "CostCeilingExceeded" THEN Overruns(log) + 1 ELSE Overruns(log)
  <1> DEFINE exceeded == "CostCeilingExceeded"
             new == Append(log, kind)
             old == {i \in DOMAIN log : log[i] = exceeded}
             now == {i \in DOMAIN new : new[i] = exceeded}
             last == Len(log) + 1
  <1>1. /\ DOMAIN log = 1 .. Len(log) /\ DOMAIN new = 1 .. last /\ last \in Nat
        /\ \A i \in DOMAIN log : new[i] = log[i]
        /\ new[last] = kind
    OBVIOUS
  <1>2. IsFiniteSet(DOMAIN log)
    BY <1>1, FS_Interval
  <1>3. IsFiniteSet(old)
    <2>1. old \in SUBSET DOMAIN log
      OBVIOUS
    <2> HIDE DEF old
    <2> QED
      BY <1>2, <2>1, FS_Subset
  <1>4. now = IF kind = exceeded THEN old \cup {last} ELSE old
    <2> HIDE DEF new, exceeded
    <2> QED
      BY <1>1
  <1>5. last \notin old
    OBVIOUS
  <1>6. Overruns(log) = Cardinality(old) /\ Overruns(new) = Cardinality(now)
    BY DEF Overruns
  <1> HIDE DEF old, now, last, new, exceeded
  <1>7. Cardinality(old) \in Nat /\ Cardinality(old \cup {last}) = Cardinality(old) + 1
    BY <1>3, <1>5, FS_CardinalityType, FS_AddElement
  <1>8. CASE kind = exceeded
    BY <1>4, <1>6, <1>7, <1>8 DEF new, exceeded
  <1>9. CASE kind # exceeded
    BY <1>4, <1>6, <1>7, <1>9 DEF new, exceeded
  <1> QED
    BY <1>8, <1>9

\* An event tells what comes of it,
LEMMA EventTells ==
    ASSUME NEW s, NEW o, NEW kind \in JournalEventKind
    PROVE  Tells(s, o, <<kind>>, AfterEvent(s, kind),
                 IF kind = "CostCeilingExceeded" THEN o + 1 ELSE o)
  <1>1. ASSUME NEW log \in Seq(JournalEventKind), Replay(log) = s, Overruns(log) = o
        PROVE  /\ Replay(log \o <<kind>>) = AfterEvent(s, kind)
               /\ Overruns(log \o <<kind>>) = IF kind = "CostCeilingExceeded" THEN o + 1 ELSE o
    <2>1. log \o <<kind>> = Append(log, kind)
      OBVIOUS
    <2>2. Replay(Append(log, kind)) = AfterEvent(s, kind)
      BY <1>1, ReplayStep
    <2>3. Overruns(Append(log, kind)) = IF kind = "CostCeilingExceeded" THEN o + 1 ELSE o
      BY <1>1, OverrunsStep
    <2> QED
      BY <2>1, <2>2, <2>3
  <1> QED
    BY <1>1 DEF Tells

\* none tells nothing,
LEMMA NoneTells == ASSUME NEW s, NEW o PROVE Tells(s, o, << >>, s, o)
  <1>1. \A log \in Seq(JournalEventKind) : log \o << >> = log
    OBVIOUS
  <1> QED
    BY <1>1 DEF Tells

\* and what follows tells on.
LEMMA TellsOn ==
    ASSUME NEW kinds \in Seq(JournalEventKind), NEW more \in Seq(JournalEventKind),
           NEW s, NEW o, NEW t, NEW p, NEW u, NEW q,
           Tells(s, o, kinds, t, p), Tells(t, p, more, u, q)
    PROVE  Tells(s, o, kinds \o more, u, q)
  <1>1. ASSUME NEW log \in Seq(JournalEventKind), Replay(log) = s, Overruns(log) = o
        PROVE  /\ Replay(log \o (kinds \o more)) = u
               /\ Overruns(log \o (kinds \o more)) = q
    <2>1. log \o kinds \in Seq(JournalEventKind) /\ log \o (kinds \o more) = (log \o kinds) \o more
      OBVIOUS
    <2>2. Replay(log \o kinds) = t /\ Overruns(log \o kinds) = p
      BY <1>1 DEF Tells
    <2>3. Replay((log \o kinds) \o more) = u /\ Overruns((log \o kinds) \o more) = q
      BY <2>1, <2>2 DEF Tells
    <2> QED
      BY <2>1, <2>3
  <1> QED
    BY <1>1 DEF Tells

\* A receipt logs the overrun its entry has become.
LEMMA OverrunTells ==
    ASSUME NEW b, NEW r, NEW s
    PROVE  /\ Tells(s, 0, OverrunEvents(b, r), s, Over(b[r]))
           /\ OverrunEvents(b, r) \in Seq(JournalEventKind)
  <1> DEFINE exceeded == "CostCeilingExceeded"
  <1>1. CASE b[r].status = "CostOverrun"
    <2>1. OverrunEvents(b, r) = <<exceeded>> /\ Over(b[r]) = 1
      BY <1>1 DEF OverrunEvents, Over
    <2>2. exceeded \in JournalEventKind
      BY DEF JournalEventKind
    <2>3. Tells(s, 0, <<exceeded>>, AfterEvent(s, exceeded), 0 + 1)
      BY <2>2, EventTells
    <2>4. AfterEvent(s, exceeded) = s /\ 0 + 1 = 1
      BY AfterEventIs
    <2> HIDE DEF exceeded
    <2> QED
      BY <2>1, <2>2, <2>3, <2>4
  <1>2. CASE b[r].status # "CostOverrun"
    <2>1. OverrunEvents(b, r) = << >> /\ Over(b[r]) = 0
      BY <1>2 DEF OverrunEvents, Over
    <2> QED
      BY <2>1, NoneTells
  <1> QED
    BY <1>1, <1>2

-----------------------------------------------------------------------------
(* How the runs of a vault grow. *)

\* How a run with its ledger entry goes on: its log is lengthened by kinds that
\* tell what became of it, its end is final, its owner and its generation stay.
GrowsTo(run, entry, new, after) ==
    /\ \E kinds \in Seq(JournalEventKind) :
          /\ new.log = run.log \o kinds
          /\ Tells(run.state, Over(entry), kinds, new.state, Over(after))
    /\ run.state \in Terminal => new.state = run.state
    /\ run.state # "Absent" => new.state # "Absent" /\ new.owner = run.owner
    /\ run.generation => new.generation

Grown(v, n) ==
    \A q \in Requests : GrowsTo(v.runs[q], v.budget[q], n.runs[q], n.budget[q])

\* A run goes on as itself,
LEMMA StaysGrown ==
    ASSUME NEW run \in StoredInference, NEW entry PROVE GrowsTo(run, entry, run, entry)
  <1>1. run.log \in Seq(JournalEventKind)
    BY DEF StoredInference
  <1>2. << >> \in Seq(JournalEventKind) /\ run.log = run.log \o << >>
    BY <1>1
  <1>3. Tells(run.state, Over(entry), << >>, run.state, Over(entry))
    BY NoneTells
  <1> QED
    BY <1>2, <1>3 DEF GrowsTo

\* and with what is logged for it.
LEMMA LoggedGrows ==
    ASSUME NEW run \in StoredInference, NEW kinds \in Seq(JournalEventKind), NEW state,
           NEW entry, NEW after,
           Tells(run.state, Over(entry), kinds, state, Over(after)),
           run.state \in Terminal => state = run.state,
           run.state # "Absent" => state # "Absent"
    PROVE  GrowsTo(run, entry, Logged(run, kinds, state), after)
  <1>1. /\ Logged(run, kinds, state).log = run.log \o kinds
        /\ Logged(run, kinds, state).state = state
        /\ Logged(run, kinds, state).owner = run.owner
        /\ Logged(run, kinds, state).generation = run.generation
    BY DEF Logged, StoredInference
  <1> QED
    BY <1>1 DEF GrowsTo

\* One run goes on, the others stay.
LEMMA OneGrown ==
    ASSUME NEW v, WellFormed(v), NEW r \in Requests, NEW run, NEW n,
           n.runs = [v.runs EXCEPT ![r] = run],
           \A q \in Requests \ {r} : n.budget[q] = v.budget[q],
           GrowsTo(v.runs[r], v.budget[r], run, n.budget[r])
    PROVE  Grown(v, n)
  <1>1. \A q \in Requests : n.runs[q] = IF q = r THEN run ELSE v.runs[q]
    BY Shape DEF VaultState
  <1>2. \A q \in Requests : GrowsTo(v.runs[q], v.budget[q], v.runs[q], v.budget[q])
    BY Shape, StaysGrown
  <1> QED
    BY <1>1, <1>2 DEF Grown

\* A run that is written to.
Writes(v, n, r, kinds, state) ==
    /\ n.runs = [v.runs EXCEPT ![r] = Logged(v.runs[r], kinds, state)]
    /\ kinds \in Seq(JournalEventKind)
    /\ \A q \in Requests \ {r} : n.budget[q] = v.budget[q]
    /\ Tells(v.runs[r].state, Over(v.budget[r]), kinds, state, Over(n.budget[r]))
    /\ v.runs[r].state \in Terminal => state = v.runs[r].state
    /\ state # "Absent"

\* Then the vault has grown.
LEMMA WritesGrow ==
    ASSUME NEW v, WellFormed(v), NEW n, NEW r \in Requests, NEW kinds, NEW state,
           Writes(v, n, r, kinds, state)
    PROVE  Grown(v, n)
  <1> DEFINE run == Logged(v.runs[r], kinds, state)
  <1>1. v.runs[r] \in StoredInference
    BY Shape
  <1>2. GrowsTo(v.runs[r], v.budget[r], run, n.budget[r])
    BY <1>1, LoggedGrows DEF Writes
  <1>3. n.runs = [v.runs EXCEPT ![r] = run] /\ \A q \in Requests \ {r} : n.budget[q] = v.budget[q]
    BY DEF Writes
  <1> HIDE DEF run
  <1> QED
    BY <1>2, <1>3, OneGrown

\* One kind that changes the ledger in nothing that counts.
LEMMA OneKindWrites ==
    ASSUME NEW v, NEW n, NEW r \in Requests, NEW kind \in JournalEventKind, NEW state,
           kind # "CostCeilingExceeded",
           n.runs = [v.runs EXCEPT ![r] = Logged(v.runs[r], <<kind>>, state)],
           \A q \in Requests \ {r} : n.budget[q] = v.budget[q],
           Over(n.budget[r]) = Over(v.budget[r]),
           AfterEvent(v.runs[r].state, kind) = state,
           v.runs[r].state \in Terminal => state = v.runs[r].state,
           state # "Absent"
    PROVE  Writes(v, n, r, <<kind>>, state)
  <1>1. Tells(v.runs[r].state, Over(v.budget[r]), <<kind>>, state, Over(n.budget[r]))
    BY EventTells
  <1> QED
    BY <1>1 DEF Writes

\* The admission of a request and its continuation,
LEMMA AdmissionGrown ==
    ASSUME NEW v, WellFormed(v), NEW g \in Grants, NEW r \in Requests
    PROVE  /\ CanPrepare(v, g, r) => Grown(v, Prepared(v, g, r))
           /\ \A child \in Requests :
                 CanContinue(v, g, r, child) => Grown(v, Continued(v, g, r, child))
  <1>1. ASSUME NEW parent, NEW c \in Requests, ~Exists(v, c)
        PROVE  GrowsTo(v.runs[c], v.budget[c], NewRun(g, parent), v.budget[c])
    <2> DEFINE prepared == "Prepared"
    <2>1. v.runs[c] = NoRun
      BY <1>1 DEF WellFormed
    <2>2. prepared \in JournalEventKind /\ prepared # "CostCeilingExceeded"
      BY DEF JournalEventKind
    <2>3. NewRun(g, parent).log = NoRun.log \o <<prepared>> /\ NewRun(g, parent).state = prepared
      BY DEF NewRun, NoRun
    <2>4. NoRun.state = "Absent" /\ NoRun.generation = FALSE /\ "Absent" \notin Terminal
      BY DEF NoRun, Terminal
    <2>5. AfterEvent(NoRun.state, prepared) = prepared
      BY AfterEventIs
    <2> HIDE DEF prepared
    <2>6. Tells(NoRun.state, Over(v.budget[c]), <<prepared>>, prepared, Over(v.budget[c]))
      BY <2>2, <2>5, EventTells
    <2>7. <<prepared>> \in Seq(JournalEventKind)
      BY <2>2
    <2> QED
      BY <2>1, <2>3, <2>4, <2>6, <2>7 DEF GrowsTo
  <1>2. ASSUME CanPrepare(v, g, r) PROVE Grown(v, Prepared(v, g, r))
    <2> DEFINE n == Prepared(v, g, r)
    <2>1. \A q \in Requests : n.runs[q] = IF q = r THEN NewRun(g, None) ELSE v.runs[q]
      BY <1>2, PreparedTyped, ZenonT(30)
    <2>2. ~Exists(v, r) /\ n.budget = v.budget
      BY <1>2, Shape DEF CanPrepare, Prepared, VaultState
    <2>3. \A q \in Requests : GrowsTo(v.runs[q], v.budget[q], v.runs[q], v.budget[q])
      BY Shape, StaysGrown
    <2> HIDE DEF n
    <2>4. Grown(v, n)
      BY <1>1, <2>1, <2>2, <2>3 DEF Grown
    <2> QED
      BY <2>4 DEF n
  <1>3. ASSUME NEW child \in Requests, CanContinue(v, g, r, child)
        PROVE  Grown(v, Continued(v, g, r, child))
    <2> DEFINE n == Continued(v, g, r, child)
               kind == "ToolResultsSubmitted"
               submitted == "ToolsSubmitted"
               logged == Logged(v.runs[r], <<kind>>, submitted)
               closed == [logged EXCEPT !.child = child]
    <2>1. r # child /\ ~Exists(v, child) /\ v.runs[r].state \in {"AwaitingTools", "ToolsSubmitted"}
      BY <1>3 DEF CanContinue
    <2>2. n.runs[child] = NewRun(g, r) /\ \A q \in Requests \ {r, child} : n.runs[q] = v.runs[q]
      BY <1>3, ContinuedTyped
    <2>3. n.runs[r] = closed /\ n.budget = v.budget
      BY <2>1, Shape DEF Continued, VaultState
    <2>4. v.runs[r] \in StoredInference
      BY Shape
    <2>5. /\ kind \in JournalEventKind /\ kind # "CostCeilingExceeded"
          /\ AfterEvent(v.runs[r].state, kind) = submitted
      BY AfterEventIs DEF JournalEventKind
    <2>6. /\ closed.log = logged.log /\ closed.state = logged.state
          /\ closed.owner = logged.owner /\ closed.generation = logged.generation
      BY <2>4 DEF Logged, StoredInference
    <2>7. /\ v.runs[r].state \in Terminal => submitted = v.runs[r].state
          /\ submitted # "Absent"
      BY <2>1 DEF Terminal
    <2>8. \A q \in Requests : GrowsTo(v.runs[q], v.budget[q], v.runs[q], v.budget[q])
      BY Shape, StaysGrown
    <2> HIDE DEF n, closed, logged, kind, submitted
    <2>9. /\ <<kind>> \in Seq(JournalEventKind)
          /\ Tells(v.runs[r].state, Over(v.budget[r]), <<kind>>, submitted, Over(v.budget[r]))
      BY <2>5, EventTells
    <2>10. GrowsTo(v.runs[r], v.budget[r], logged, v.budget[r])
      BY <2>4, <2>7, <2>9, LoggedGrows DEF logged
    <2>11. GrowsTo(v.runs[r], v.budget[r], closed, v.budget[r])
      BY <2>6, <2>10 DEF GrowsTo
    <2>12. GrowsTo(v.runs[child], v.budget[child], NewRun(g, r), v.budget[child])
      BY <1>1, <2>1
    <2>13. Grown(v, n)
      BY <2>2, <2>3, <2>8, <2>11, <2>12 DEF Grown
    <2> QED
      BY <2>13 DEF n
  <1> QED
    BY <1>2, <1>3

\* a cancellation,
LEMMA CancelledGrown ==
    ASSUME NEW v, WellFormed(v), NEW g \in Grants, NEW r \in Requests, CanCancel(v, g, r)
    PROVE  Grown(v, Cancelled(v, r))
  <1> DEFINE n == Cancelled(v, r)
             state == IF v.runs[r].state \in {"AwaitingTools", "Prepared"}
                      THEN "Cancelled" ELSE "CancellationRequested"
             kind == CancelEvent(v.runs[r].state)
  <1>1. n.runs = [v.runs EXCEPT ![r] = Logged(v.runs[r], <<kind>>, state)] /\ n.budget = v.budget
    BY Shape DEF Cancelled, VaultState
  <1>2. v.runs[r].state \notin Terminal /\ state # "Absent"
    BY DEF CanCancel
  <1>3. /\ kind \in {"CancelledWaitingTools", "CancelledBeforeDispatch", "CancellationRequested"}
        /\ v.runs[r].state = "AwaitingTools" => kind = "CancelledWaitingTools"
        /\ v.runs[r].state = "Prepared" => kind = "CancelledBeforeDispatch"
        /\ v.runs[r].state \notin {"AwaitingTools", "Prepared"} => kind = "CancellationRequested"
    BY DEF CancelEvent
  <1>4. kind \in JournalEventKind /\ kind # "CostCeilingExceeded"
    BY <1>3 DEF JournalEventKind
  <1>5. AfterEvent(v.runs[r].state, kind) = state
    BY <1>3, AfterEventIs
  <1> HIDE DEF n, state, kind
  <1>6. Writes(v, n, r, <<kind>>, state)
    BY <1>1, <1>2, <1>4, <1>5, OneKindWrites
  <1>7. Grown(v, n)
    BY <1>6, WritesGrow
  <1> QED
    BY <1>7 DEF n

\* a dispatch,
LEMMA DispatchedGrown ==
    ASSUME NEW v, WellFormed(v), NEW g \in Grants, NEW r \in Requests,
           NEW ceiling \in Ceilings \cup {None}, CanDispatch(v, g, r, ceiling)
    PROVE  Grown(v, Dispatched(v, r, ceiling))
  <1> DEFINE n == Dispatched(v, r, ceiling)
             state == "Dispatching"
             kind == "DispatchIntent"
             b == IF ceiling = None THEN v.budget
                  ELSE MarkDispatched(Reserve(v.budget, r, ceiling), r)
  <1>1. n.runs = [v.runs EXCEPT ![r] = Logged(v.runs[r], <<kind>>, state)] /\ n.budget = b
    BY Shape DEF Dispatched, VaultState
  <1>2. v.budget \in Ledger
    BY Shape
  <1>3. /\ \A q \in Requests \ {r} : b[q] = v.budget[q]
        /\ Over(b[r]) = Over(v.budget[r])
    <2>1. CASE ceiling = None
      BY <2>1
    <2>2. CASE ceiling # None
      <3>1. v.budget[r].status = "Absent"
        BY <2>2 DEF CanDispatch, CanReserve
      <3>2. b[r].status = "Dispatched" /\ \A q \in Requests \ {r} : b[q] = v.budget[q]
        BY <1>2, <2>2 DEF MarkDispatched, Reserve, Ledger
      <3> QED
        BY <3>1, <3>2 DEF Over
    <2> QED
      BY <2>1, <2>2
  <1>4. v.runs[r].state \notin Terminal /\ state # "Absent"
    BY DEF CanDispatch, Terminal
  <1>5. /\ kind \in JournalEventKind /\ kind # "CostCeilingExceeded"
        /\ AfterEvent(v.runs[r].state, kind) = state
    BY AfterEventIs DEF JournalEventKind
  <1> HIDE DEF n, state, kind, b
  <1>6. Writes(v, n, r, <<kind>>, state)
    BY <1>1, <1>3, <1>4, <1>5, OneKindWrites
  <1>7. Grown(v, n)
    BY <1>6, WritesGrow
  <1> QED
    BY <1>7 DEF n

\* a delta,
LEMMA DeltaGrown ==
    ASSUME NEW v, WellFormed(v), NEW r \in Requests, CanDelta(v, r)
    PROVE  Grown(v, Delta(v, r))
  <1> DEFINE n == Delta(v, r)
             state == IF v.runs[r].state = "CancellationRequested"
                      THEN v.runs[r].state ELSE "Running"
             kind == "TextDelta"
  <1>1. n.runs = [v.runs EXCEPT ![r] = Logged(v.runs[r], <<kind>>, state)] /\ n.budget = v.budget
    BY Shape DEF Delta, VaultState
  <1>2. v.runs[r].state \notin Terminal /\ state # "Absent"
    BY DEF CanDelta, InFlight, Terminal
  <1>3. /\ kind \in JournalEventKind /\ kind # "CostCeilingExceeded"
        /\ AfterEvent(v.runs[r].state, kind) = state
    BY AfterEventIs DEF JournalEventKind
  <1> HIDE DEF n, state, kind
  <1>4. Writes(v, n, r, <<kind>>, state)
    BY <1>1, <1>2, <1>3, OneKindWrites
  <1>5. Grown(v, n)
    BY <1>4, WritesGrow
  <1> QED
    BY <1>5 DEF n

\* a loss,
LEMMA ForgottenGrown ==
    ASSUME NEW v, WellFormed(v), NEW r \in Requests, CanForget(v, r)
    PROVE  Grown(v, Forgotten(v, r))
  <1> DEFINE n == Forgotten(v, r)
             state == "Unknown"
             kind == "UnknownOutcome"
             b == IF Paid(v.runs[r]) THEN MarkUncertain(v.budget, r) ELSE v.budget
  <1>1. n.runs = [v.runs EXCEPT ![r] = Logged(v.runs[r], <<kind>>, state)] /\ n.budget = b
    BY Shape DEF Forgotten, UnknownRun, VaultState
  <1>2. /\ \A q \in Requests \ {r} : b[q] = v.budget[q]
        /\ Over(b[r]) = Over(v.budget[r])
    <2>1. CASE Paid(v.runs[r])
      <3>1. v.budget[r].status \in {"Dispatched", "Uncertain"}
        BY <2>1 DEF CanForget, CanMarkUncertain, InDoubt
      <3>2. b[r].status = "Uncertain" /\ \A q \in Requests \ {r} : b[q] = v.budget[q]
        BY <2>1, Shape DEF MarkUncertain, Ledger, Reservation
      <3> QED
        BY <3>1, <3>2 DEF Over
    <2>2. CASE ~Paid(v.runs[r])
      BY <2>2
    <2> QED
      BY <2>1, <2>2
  <1>3. v.runs[r].state \notin Terminal /\ state # "Absent"
    BY DEF CanForget, InFlight, Terminal
  <1>4. /\ kind \in JournalEventKind /\ kind # "CostCeilingExceeded"
        /\ AfterEvent(v.runs[r].state, kind) = state
    BY AfterEventIs DEF JournalEventKind
  <1> HIDE DEF n, state, kind, b
  <1>5. Writes(v, n, r, <<kind>>, state)
    BY <1>1, <1>2, <1>3, <1>4, OneKindWrites
  <1>6. Grown(v, n)
    BY <1>5, WritesGrow
  <1> QED
    BY <1>6 DEF n

\* What a receipt makes of an entry that is not accounted for yet.
LEMMA ChargedOver ==
    ASSUME NEW v, WellFormed(v), Matched(v), NEW r \in Requests,
           v.runs[r].state \in Active, NEW cost \in Costs \cup {None}, CanCharge(v, r, cost)
    PROVE  /\ Over(v.budget[r]) = 0
           /\ \A q \in Requests \ {r} : Charged(v, r, cost)[q] = v.budget[q]
  <1>1. v.budget[r].status # "CostOverrun"
    <2>1. CASE Paid(v.runs[r])
      BY <2>1 DEF Matched, InDoubt
    <2>2. CASE ~Paid(v.runs[r])
      BY <2>2 DEF Matched
    <2> QED
      BY <2>1, <2>2
  <1> QED
    BY <1>1, ChargedFollows DEF Over

\* An overrun and one kind that is none.
LEMMA ReceiptTells ==
    ASSUME NEW b, NEW r, NEW s, NEW kind \in JournalEventKind, kind # "CostCeilingExceeded"
    PROVE  /\ Tells(s, 0, OverrunEvents(b, r) \o <<kind>>, AfterEvent(s, kind), Over(b[r]))
           /\ OverrunEvents(b, r) \o <<kind>> \in Seq(JournalEventKind)
  <1> DEFINE over == OverrunEvents(b, r)
             last == <<kind>>
             t == AfterEvent(s, kind)
             p == Over(b[r])
  <1>1. Tells(s, 0, over, s, p) /\ over \in Seq(JournalEventKind)
    BY OverrunTells
  <1>2. Tells(s, p, last, t, p) /\ last \in Seq(JournalEventKind)
    BY EventTells
  <1> HIDE DEF over, last, t, p
  <1>3. Tells(s, 0, over \o last, t, p)
    BY <1>1, <1>2, TellsOn
  <1>4. over \o last \in Seq(JournalEventKind)
    BY <1>1, <1>2
  <1> QED
    BY <1>3, <1>4 DEF over, last, t, p

\* A terminal receipt,
LEMMA FinishedGrown ==
    ASSUME NEW v, WellFormed(v), Matched(v), NEW r \in Requests, NEW outcome \in TerminalOutcome,
           NEW cost \in Costs \cup {None}, CanFinish(v, r, outcome, cost)
    PROVE  Grown(v, Finished(v, r, outcome, cost))
  <1> DEFINE n == Finished(v, r, outcome, cost)
             b == Charged(v, r, cost)
             kind == ProviderTerminal[outcome]
             kinds == OverrunEvents(b, r) \o <<kind>>
  <1>1. n.runs = [v.runs EXCEPT ![r] = Logged(v.runs[r], kinds, outcome)] /\ n.budget = b
    BY Shape DEF Finished, FinishEvents, VaultState
  <1>2. v.runs[r].state \in Active /\ v.runs[r].state \notin Terminal /\ outcome # "Absent"
    BY DEF CanFinish, Active, InFlight, Terminal, TerminalOutcome
  <1>3. kind \in JournalEventKind /\ kind # "CostCeilingExceeded" /\ AfterEvent(v.runs[r].state, kind) = outcome
    <2>1. \/ outcome = "Completed" /\ kind = "ProviderCompleted"
          \/ outcome = "Cancelled" /\ kind = "ProviderCancelled"
          \/ outcome = "Failed" /\ kind = "ProviderFailed"
      BY DEF TerminalOutcome, ProviderTerminal
    <2> QED
      BY <2>1, AfterEventIs DEF JournalEventKind
  <1>4. Over(v.budget[r]) = 0 /\ \A q \in Requests \ {r} : b[q] = v.budget[q]
    BY <1>2, ChargedOver DEF CanFinish
  <1> HIDE DEF n, b, kind
  <1>5. Tells(v.runs[r].state, 0, kinds, outcome, Over(b[r])) /\ kinds \in Seq(JournalEventKind)
    BY <1>3, ReceiptTells
  <1> HIDE DEF kinds
  <1>6. Writes(v, n, r, kinds, outcome)
    BY <1>1, <1>2, <1>4, <1>5 DEF Writes
  <1>7. Grown(v, n)
    BY <1>6, WritesGrow
  <1> QED
    BY <1>7 DEF n

\* one with tool calls,
LEMMA ToolsFinishedGrown ==
    ASSUME NEW v, WellFormed(v), Matched(v), NEW r \in Requests,
           NEW cost \in Costs \cup {None}, CanFinishTools(v, r, cost)
    PROVE  Grown(v, ToolsFinished(v, r, cost))
  <1> DEFINE n == ToolsFinished(v, r, cost)
             b == Charged(v, r, cost)
             calls == "ToolCalls"
             end == "ProviderCancelled"
             first == OverrunEvents(b, r) \o <<calls>>
             kinds == ToolEvents(v, r, cost)
             state == IF v.runs[r].state = "CancellationRequested"
                      THEN "Cancelled" ELSE "AwaitingTools"
  <1>1. n.runs = [v.runs EXCEPT ![r] = Logged(v.runs[r], kinds, state)] /\ n.budget = b
    BY Shape DEF ToolsFinished, VaultState
  <1>2. v.runs[r].state \in Active /\ v.runs[r].state \notin Terminal /\ state # "Absent"
    BY DEF CanFinishTools, Active, InFlight, Terminal
  <1>3. /\ calls \in JournalEventKind /\ calls # "CostCeilingExceeded"
        /\ end \in JournalEventKind /\ end # "CostCeilingExceeded"
        /\ AfterEvent(v.runs[r].state, calls) = "AwaitingTools"
        /\ AfterEvent("AwaitingTools", end) = "Cancelled"
    BY AfterEventIs DEF JournalEventKind
  <1>4. Over(v.budget[r]) = 0 /\ \A q \in Requests \ {r} : b[q] = v.budget[q]
    BY <1>2, ChargedOver DEF CanFinishTools
  <1>5. OverrunEvents(b, r) \in Seq(JournalEventKind)
    BY OverrunTells
  <1>6. kinds = IF v.runs[r].state = "CancellationRequested" THEN first \o <<end>> ELSE first
    <2>1. kinds = OverrunEvents(b, r) \o (IF v.runs[r].state = "CancellationRequested"
                                          THEN <<calls, end>> ELSE <<calls>>)
      BY DEF ToolEvents
    <2>2. calls \in JournalEventKind /\ end \in JournalEventKind
      BY <1>3
    <2> DEFINE over == OverrunEvents(b, r)
    <2> HIDE DEF b, calls, end, kinds, over
    <2>3. <<calls>> \o <<end>> = <<calls, end>>
      BY PairConcat
    <2>4. (over \o <<calls>>) \o <<end>> = over \o (<<calls>> \o <<end>>)
      BY <1>5, <2>2 DEF over
    <2>5. first \o <<end>> = OverrunEvents(b, r) \o <<calls, end>>
      BY <2>3, <2>4 DEF over
    <2> QED
      BY <2>1, <2>5
  <1> HIDE DEF n, b, calls, end, kinds
  <1>7. /\ Tells(v.runs[r].state, 0, first, "AwaitingTools", Over(b[r]))
        /\ first \in Seq(JournalEventKind)
    BY <1>3, ReceiptTells
  <1> HIDE DEF first
  <1>8. Tells(v.runs[r].state, 0, kinds, state, Over(b[r])) /\ kinds \in Seq(JournalEventKind)
    <2>1. CASE v.runs[r].state = "CancellationRequested"
      <3> DEFINE waiting == "AwaitingTools"
                 last == <<end>>
                 s == v.runs[r].state
                 p == Over(b[r])
      <3>1. Tells(waiting, p, last, state, p) /\ last \in Seq(JournalEventKind)
        BY <1>3, <2>1, EventTells
      <3>2. Tells(s, 0, first, waiting, p)
        BY <1>7
      <3>3. kinds = first \o last
        BY <1>6, <2>1
      <3> HIDE DEF waiting, last, s, p, state
      <3>4. Tells(s, 0, first \o last, state, p)
        BY <1>7, <3>1, <3>2, TellsOn
      <3>5. first \o last \in Seq(JournalEventKind)
        BY <1>7, <3>1
      <3> QED
        BY <3>3, <3>4, <3>5 DEF s, p
    <2>2. CASE v.runs[r].state # "CancellationRequested"
      BY <1>6, <1>7, <2>2
    <2> QED
      BY <2>1, <2>2
  <1> HIDE DEF state
  <1>9. Writes(v, n, r, kinds, state)
    BY <1>1, <1>2, <1>4, <1>8 DEF Writes
  <1>10. Grown(v, n)
    BY <1>9, WritesGrow
  <1> QED
    BY <1>10 DEF n

\* a late bill
LEMMA CostReconciledGrown ==
    ASSUME NEW v, WellFormed(v), Ledgered(v), NEW r \in Requests, NEW cost \in Costs,
           CanReconcileCost(v, r, cost)
    PROVE  Grown(v, CostReconciled(v, r, cost))
  <1> DEFINE n == CostReconciled(v, r, cost)
             b == Settle(v.budget, r, cost)
             kind == "CostReconciled"
             s == v.runs[r].state
             kinds == OverrunEvents(b, r) \o <<kind>>
  <1>1. n.runs = [v.runs EXCEPT ![r] = Logged(v.runs[r], kinds, s)] /\ n.budget = b
    BY Shape DEF CostReconciled, ReconcileEvents, VaultState
  <1>2. s # "Absent"
    BY DEF CanReconcileCost, Terminal
  <1>3. Over(v.budget[r]) = 0
    <2>1. v.budget[r].actual = None
      BY DEF CanReconcileCost
    <2>2. v.budget[r].status # "CostOverrun"
      BY <2>1, BudgetAssumption DEF Ledgered, GoodEntry
    <2> QED
      BY <2>2 DEF Over
  <1>4. \A q \in Requests \ {r} : b[q] = v.budget[q]
    BY Shape DEF Settle, Ledger
  <1>5. kind \in JournalEventKind /\ kind # "CostCeilingExceeded" /\ AfterEvent(s, kind) = s
    BY AfterEventIs DEF JournalEventKind
  <1> HIDE DEF n, b, kind, s
  <1>6. Tells(s, 0, kinds, s, Over(b[r])) /\ kinds \in Seq(JournalEventKind)
    BY <1>5, ReceiptTells
  <1> HIDE DEF kinds
  <1>7. Writes(v, n, r, kinds, s)
    BY <1>1, <1>2, <1>3, <1>4, <1>6 DEF Writes, s
  <1>8. Grown(v, n)
    BY <1>7, WritesGrow
  <1> QED
    BY <1>8 DEF n

\* and the name of a generation;
LEMMA GenerationRecordedGrown ==
    ASSUME NEW v, WellFormed(v), NEW r \in Requests, CanRecordGeneration(v, r)
    PROVE  Grown(v, GenerationRecorded(v, r))
  <1> DEFINE n == GenerationRecorded(v, r)
             run == [v.runs[r] EXCEPT !.generation = TRUE]
  <1>1. v.runs[r] \in StoredInference
    BY Shape
  <1>2. n.runs = [v.runs EXCEPT ![r] = run] /\ n.budget = v.budget
    BY Shape DEF GenerationRecorded, VaultState
  <1>3. /\ run.log = v.runs[r].log /\ run.state = v.runs[r].state
        /\ run.owner = v.runs[r].owner /\ run.generation = TRUE
    BY <1>1 DEF StoredInference
  <1>4. GrowsTo(v.runs[r], v.budget[r], v.runs[r], v.budget[r])
    BY <1>1, StaysGrown
  <1> HIDE DEF n, run
  <1>5. GrowsTo(v.runs[r], v.budget[r], run, n.budget[r])
    BY <1>2, <1>3, <1>4 DEF GrowsTo
  <1>6. Grown(v, n)
    BY <1>2, <1>5, OneGrown
  <1> QED
    BY <1>6 DEF n

\* so the vault grows by every operation,
LEMMA OperationGrown ==
    ASSUME NEW v, WellFormed(v), Matched(v), Ledgered(v), NEW n, Operation(v, n)
    PROVE  Grown(v, n)
  <1>1. ASSUME NEW p \in Providers, n = Connected(v, p) \/ n = Disconnected(v, p)
        PROVE  Grown(v, n)
    <2>1. v \in VaultState
      BY Shape
    <2>2. Connected(v, p).runs = v.runs /\ Connected(v, p).budget = v.budget
      BY <2>1 DEF Connected, VaultState
    <2>3. Disconnected(v, p).runs = v.runs /\ Disconnected(v, p).budget = v.budget
      BY <2>1 DEF Disconnected, VaultState
    <2>4. n.runs = v.runs /\ n.budget = v.budget
      BY <1>1, <2>2, <2>3
    <2>5. \A q \in Requests : GrowsTo(v.runs[q], v.budget[q], v.runs[q], v.budget[q])
      BY Shape, StaysGrown
    <2> QED
      BY <2>4, <2>5 DEF Grown
  <1>2. ASSUME JournalStep(v, n) PROVE Grown(v, n)
    <2>1. PICK r \in Requests :
            \/ \E g \in Grants :
                  \/ CanPrepare(v, g, r) /\ n = Prepared(v, g, r)
                  \/ CanCancel(v, g, r) /\ n = Cancelled(v, r)
                  \/ \E ceiling \in Ceilings \cup {None} :
                        CanDispatch(v, g, r, ceiling) /\ n = Dispatched(v, r, ceiling)
                  \/ \E child \in Requests :
                        CanContinue(v, g, r, child) /\ n = Continued(v, g, r, child)
            \/ CanDelta(v, r) /\ n = Delta(v, r)
            \/ CanForget(v, r) /\ n = Forgotten(v, r)
            \/ CanRecordGeneration(v, r) /\ n = GenerationRecorded(v, r)
            \/ \E cost \in Costs \cup {None} :
                  \/ \E outcome \in TerminalOutcome :
                        CanFinish(v, r, outcome, cost) /\ n = Finished(v, r, outcome, cost)
                  \/ CanFinishTools(v, r, cost) /\ n = ToolsFinished(v, r, cost)
                  \/ cost # None /\ CanReconcileCost(v, r, cost) /\ n = CostReconciled(v, r, cost)
      BY <1>2, Zenon DEF JournalStep
    <2>2. ASSUME NEW g \in Grants, CanPrepare(v, g, r), n = Prepared(v, g, r)
          PROVE  Grown(v, n)
      BY <2>2, AdmissionGrown
    <2>3. ASSUME NEW g \in Grants, CanCancel(v, g, r), n = Cancelled(v, r)
          PROVE  Grown(v, n)
      BY <2>3, CancelledGrown
    <2>4. ASSUME NEW g \in Grants, NEW ceiling \in Ceilings \cup {None},
                 CanDispatch(v, g, r, ceiling), n = Dispatched(v, r, ceiling)
          PROVE  Grown(v, n)
      BY <2>4, DispatchedGrown
    <2>5. ASSUME NEW g \in Grants, NEW child \in Requests,
                 CanContinue(v, g, r, child), n = Continued(v, g, r, child)
          PROVE  Grown(v, n)
      BY <2>5, AdmissionGrown
    <2>6. ASSUME NEW cost \in Costs \cup {None}, NEW outcome \in TerminalOutcome,
                 CanFinish(v, r, outcome, cost), n = Finished(v, r, outcome, cost)
          PROVE  Grown(v, n)
      BY <2>6, FinishedGrown
    <2>7. ASSUME NEW cost \in Costs \cup {None}, CanFinishTools(v, r, cost),
                 n = ToolsFinished(v, r, cost)
          PROVE  Grown(v, n)
      BY <2>7, ToolsFinishedGrown
    <2>8. ASSUME NEW cost \in Costs \cup {None}, cost # None,
                 CanReconcileCost(v, r, cost), n = CostReconciled(v, r, cost)
          PROVE  Grown(v, n)
      BY <2>8, CostReconciledGrown
    <2> QED
      BY <2>1, <2>2, <2>3, <2>4, <2>5, <2>6, <2>7, <2>8,
         DeltaGrown, ForgottenGrown, GenerationRecordedGrown
  <1> QED
    BY <1>1, <1>2 DEF Operation

\* and by a restart.
LEMMA RestartedGrown ==
    ASSUME NEW v, WellFormed(v), Matched(v), CanRestart(v)
    PROVE  Grown(v, Restarted(v))
  <1> DEFINE n == Restarted(v)
             kind == "UnknownOutcome"
             unknown == "Unknown"
  <1>1. v \in VaultState /\ v.budget \in [Requests -> Reservation]
    BY Shape DEF Ledger
  <1>2. \A r \in Requests :
           /\ n.budget[r] = IF v.runs[r].state \in InFlight /\ Paid(v.runs[r])
                            THEN [v.budget[r] EXCEPT !.status = "Uncertain"] ELSE v.budget[r]
           /\ n.runs[r] = IF v.runs[r].state \in InFlight THEN UnknownRun(v.runs[r]) ELSE v.runs[r]
    BY <1>1 DEF Restarted, VaultState
  <1>3. kind \in JournalEventKind /\ kind # "CostCeilingExceeded" /\ unknown # "Absent"
        /\ \A s : AfterEvent(s, kind) = unknown
    BY AfterEventIs DEF JournalEventKind
  <1> HIDE DEF n
  <1>4. ASSUME NEW r \in Requests
        PROVE  GrowsTo(v.runs[r], v.budget[r], n.runs[r], n.budget[r])
    <2>1. v.runs[r] \in StoredInference
      BY Shape
    <2>2. CASE v.runs[r].state \in InFlight
      <3> DEFINE p == Over(v.budget[r])
                 s == v.runs[r].state
                 kinds == <<kind>>
      <3>1. n.runs[r] = Logged(v.runs[r], kinds, unknown)
        BY <1>2, <2>2 DEF UnknownRun
      <3>2. Over(n.budget[r]) = p
        <4>1. CASE Paid(v.runs[r])
          <5>1. v.budget[r].status \in {"Dispatched", "Uncertain"}
            BY <2>2, <4>1 DEF CanRestart, CanForget, CanMarkUncertain, InDoubt
          <5>2. n.budget[r].status = "Uncertain"
            BY <1>1, <1>2, <2>2, <4>1 DEF Reservation
          <5> QED
            BY <5>1, <5>2 DEF Over
        <4>2. CASE ~Paid(v.runs[r])
          BY <1>2, <4>2
        <4> QED
          BY <4>1, <4>2
      <3>3. s \notin Terminal
        BY <2>2 DEF InFlight, Terminal
      <3> HIDE DEF kind, unknown
      <3>4. Tells(s, p, kinds, unknown, p) /\ kinds \in Seq(JournalEventKind)
        BY <1>3, EventTells
      <3> HIDE DEF kinds
      <3>5. GrowsTo(v.runs[r], v.budget[r], Logged(v.runs[r], kinds, unknown), n.budget[r])
        BY <1>3, <2>1, <3>2, <3>3, <3>4, LoggedGrows
      <3> QED
        BY <3>1, <3>5
    <2>3. CASE v.runs[r].state \notin InFlight
      <3>1. n.runs[r] = v.runs[r] /\ n.budget[r] = v.budget[r]
        BY <1>2, <2>3
      <3> QED
        BY <2>1, <3>1, StaysGrown
    <2> QED
      BY <2>2, <2>3
  <1>5. Grown(v, n)
    BY <1>4 DEF Grown
  <1> QED
    BY <1>5 DEF n

-----------------------------------------------------------------------------
(* Status and log of every run tell the same. *)

Retold(v) ==
    \A r \in Requests :
        /\ Replay(v.runs[r].log) = v.runs[r].state
        /\ Overruns(v.runs[r].log) = Over(v.budget[r])

JInv == MInv /\ Retold(vault) /\ Retold(disk)

\* A vault that grows, still does.
LEMMA GrownRetold ==
    ASSUME NEW v, WellFormed(v), Retold(v), NEW n, Grown(v, n)
    PROVE  Retold(n)
  <1>1. ASSUME NEW r \in Requests
        PROVE  /\ Replay(n.runs[r].log) = n.runs[r].state
               /\ Overruns(n.runs[r].log) = Over(n.budget[r])
    <2>1. v.runs[r].log \in Seq(JournalEventKind)
      BY Shape DEF StoredInference
    <2>2. PICK kinds \in Seq(JournalEventKind) :
             /\ n.runs[r].log = v.runs[r].log \o kinds
             /\ Tells(v.runs[r].state, Over(v.budget[r]), kinds, n.runs[r].state, Over(n.budget[r]))
      BY DEF Grown, GrowsTo
    <2>3. /\ Replay(v.runs[r].log) = v.runs[r].state
          /\ Overruns(v.runs[r].log) = Over(v.budget[r])
      BY DEF Retold
    <2> QED
      BY <2>1, <2>2, <2>3 DEF Tells
  <1> QED
    BY <1>1 DEF Retold

\* Nothing is stored, nothing is told.
LEMMA InitJInv == ASSUME Init PROVE JInv
  <1>1. MInv
    BY InitMInv
  <1>2. vault = EmptyVault /\ disk = EmptyVault
    BY DEF Init
  <1>3. \A r \in Requests : EmptyVault.runs[r] = NoRun /\ EmptyVault.budget[r] = NoReservation
    BY DEF EmptyVault, EmptyLedger
  <1>4. NoRun.state = "Absent" /\ NoRun.log = << >> /\ Over(NoReservation) = 0
    BY DEF NoRun, NoReservation, Over
  <1>5. Replay(<< >>) = "Absent"
    BY ReplayStep
  <1>6. Overruns(<< >>) = 0
    <2>1. {i \in DOMAIN << >> : << >>[i] = "CostCeilingExceeded"} = {}
      OBVIOUS
    <2> QED
      BY <2>1, FS_EmptySet DEF Overruns
  <1>7. Retold(EmptyVault)
    BY <1>3, <1>4, <1>5, <1>6 DEF Retold
  <1> QED
    BY <1>1, <1>2, <1>7 DEF JInv

\* What the memory and the file become in a step.
LEMMA MemorySteps ==
    ASSUME LInv, [Next]_vars
    PROVE  /\ \/ vault' = vault
              \/ Operation(vault, vault')
              \/ CanRestart(vault) /\ vault' = Restarted(vault)
           /\ disk' = vault' \/ disk' = disk \/ Operation(vault, disk')
  <1>1. Inv /\ Ahead
    BY DEF LInv
  <1>2. CASE UNCHANGED <<vault, disk>>
    BY <1>2
  <1>3. CASE CommitStep
    <2>1. PICK n : Operation(vault, n) /\ Commit(n)
      BY <1>3 DEF CommitStep
    <2>2. disk' = n /\ vault' \in {vault, n}
      BY <2>1 DEF Commit, Saved, Torn
    <2> QED
      BY <2>1, <2>2
  <1>4. CASE Crash
    <2>1. vault' \in {vault, disk} /\ disk' = vault'
      BY <1>4 DEF Crash
    <2>2. disk = vault \/ Operation(vault, disk)
      BY <1>1 DEF Ahead, FailedCommitIsOneStep, Operation
    <2> QED
      BY <2>1, <2>2
  <1>5. CASE Restart
    <2>1. disk = vault /\ CanRestart(vault) /\ vault' = Restarted(vault) /\ disk' = vault'
      BY <1>1, <1>5 DEF Restart, Saved, Ahead
    <2> QED
      BY <2>1
  <1> QED
    BY <1>1, <1>2, <1>3, <1>4, <1>5, NextCases DEF Quiet, Post

\* How the memory goes from one state to the next.
LEMMA MemoryGrows ==
    ASSUME MInv, [Next]_vars
    PROVE  /\ Grown(vault, vault')
           /\ disk' = vault' \/ disk' = disk \/ Grown(vault, disk')
  <1>1. LInv /\ WellFormed(vault) /\ Matched(vault) /\ Ledgered(vault)
    BY DEF MInv, LInv, Inv, Sound, Explains
  <1>2. PICK m, d : m = vault' /\ d = disk'
    OBVIOUS
  <1>3. \A n : Operation(vault, n) => Grown(vault, n)
    BY <1>1, OperationGrown
  <1>4. Grown(vault, vault)
    <2>1. \A q \in Requests : GrowsTo(vault.runs[q], vault.budget[q], vault.runs[q], vault.budget[q])
      BY <1>1, Shape, StaysGrown
    <2> QED
      BY <2>1 DEF Grown
  <1>5. /\ m = vault \/ Operation(vault, m) \/ (CanRestart(vault) /\ m = Restarted(vault))
        /\ d = m \/ d = disk \/ Operation(vault, d)
    BY <1>1, <1>2, MemorySteps
  <1>6. Grown(vault, m) /\ (d = m \/ d = disk \/ Grown(vault, d))
    BY <1>1, <1>3, <1>4, <1>5, RestartedGrown
  <1> QED
    BY <1>2, <1>6

\* Every action keeps the story straight.
LEMMA NextJInv == ASSUME JInv, [Next]_vars PROVE JInv'
  <1>1. MInv /\ MInv' /\ Retold(vault) /\ Retold(disk)
    BY NextMInv DEF JInv
  <1>2. WellFormed(vault)
    BY <1>1 DEF MInv, LInv, Inv, Sound
  <1>3. PICK m, d : m = vault' /\ d = disk'
    OBVIOUS
  <1>4. Grown(vault, m) /\ (d = m \/ d = disk \/ Grown(vault, d))
    BY <1>1, <1>3, MemoryGrows
  <1>5. Retold(m)
    BY <1>1, <1>2, <1>4, GrownRetold
  <1>6. Retold(d)
    BY <1>1, <1>2, <1>4, <1>5, GrownRetold
  <1>7. Retold(vault)' /\ Retold(disk)'
    BY <1>3, <1>5, <1>6 DEF Retold, Over
  <1> QED
    BY <1>1, <1>7 DEF JInv

-----------------------------------------------------------------------------
(* Pages of a log. *)

\* The smaller of two numbers.
LEMMA MinOfTwo ==
    ASSUME NEW a \in Int, NEW b \in Int
    PROVE  Min({a, b}) = IF a <= b THEN a ELSE b
  <1> DEFINE m == IF a <= b THEN a ELSE b
  <1>1. m \in {a, b} /\ \A y \in {a, b} : m <= y
    OBVIOUS
  <1>2. \A x \in {a, b} : (\A y \in {a, b} : x <= y) => x = m
    OBVIOUS
  <1> HIDE DEF m
  <1>3. (CHOOSE x \in {a, b} : \A y \in {a, b} : x =< y) = m
    BY <1>1, <1>2
  <1>4. Min({a, b}) = m
    BY <1>3 DEF Min
  <1> QED
    BY <1>4 DEF m

\* A page starts where it is asked to, and ends with the log or goes on.
LEMMA PageIs ==
    ASSUME NEW v, WellFormed(v), NEW r \in Requests,
           NEW from \in 1 .. Len(v.runs[r].log) + 1, NEW limit \in Nat \ {0}
    PROVE  LET page == InferenceEvents(v, r, from, limit)
               log == v.runs[r].log IN
           /\ log \in Seq(JournalEventKind)
           /\ page.next \in from .. Len(log) + 1
           /\ page.next <= Len(log) => from < page.next
           /\ page.events = SubSeq(log, from, page.next - 1)
           /\ page.hasMore <=> page.next <= Len(log)
  <1> DEFINE log == v.runs[r].log
             next == Min({from + limit, Len(log) + 1})
  <1>1. log \in Seq(JournalEventKind) /\ Len(log) \in Nat
    BY Shape DEF StoredInference
  <1>2. next = IF from + limit <= Len(log) + 1 THEN from + limit ELSE Len(log) + 1
    <2>1. from + limit \in Int /\ Len(log) + 1 \in Int
      BY <1>1
    <2> QED
      BY <2>1, MinOfTwo
  <1>3. next \in from .. Len(log) + 1 /\ (next <= Len(log) => from < next)
    <2> HIDE DEF next
    <2> QED
      BY <1>1, <1>2
  <1>4. /\ InferenceEvents(v, r, from, limit).next = next
        /\ InferenceEvents(v, r, from, limit).events = SubSeq(log, from, next - 1)
        /\ InferenceEvents(v, r, from, limit).hasMore = (next <= Len(log))
    BY Zenon DEF InferenceEvents
  <1> QED
    BY <1>1, <1>3, <1>4

\* A client that reads page after page has read the whole log.
LEMMA ReadsAll ==
    ASSUME NEW v, WellFormed(v), NEW r \in Requests, NEW limit \in Nat \ {0}
    PROVE  ReadToEnd(v, r, limit) = v.runs[r].log
  <1> DEFINE log == v.runs[r].log
             L == Len(log)
             D == 1 .. L + 1
             Next1(from) == InferenceEvents(v, r, from, limit).next
             F(g) == [from \in D |->
                        LET page == InferenceEvents(v, r, from, limit) IN
                        page.events \o (IF page.hasMore THEN g[page.next] ELSE << >>)]
             W == [from \in D |-> SubSeq(log, from, L)]
  <1>1. log \in Seq(JournalEventKind) /\ L \in Nat
    BY Shape DEF StoredInference
  <1>2. \A rest : rest = (CHOOSE g : g = F(g)) => ReadToEnd(v, r, limit) = rest[1]
    BY Zenon DEF ReadToEnd
  <1>3. ASSUME NEW from \in D
        PROVE  /\ Next1(from) \in from .. L + 1
               /\ Next1(from) <= L => from < Next1(from)
               /\ InferenceEvents(v, r, from, limit).events = SubSeq(log, from, Next1(from) - 1)
               /\ InferenceEvents(v, r, from, limit).hasMore <=> Next1(from) <= L
    BY PageIs
  <1>4. ASSUME NEW from \in D, NEW g
         PROVE  F(g)[from] = SubSeq(log, from, Next1(from) - 1)
                               \o (IF Next1(from) <= L THEN g[Next1(from)] ELSE << >>)
    BY <1>3
  <1> HIDE DEF Next1, F
  <1>5. ASSUME NEW from \in D
        PROVE  SubSeq(log, from, L)
                  = SubSeq(log, from, Next1(from) - 1)
                      \o (IF Next1(from) <= L THEN SubSeq(log, Next1(from), L) ELSE << >>)
    <2> DEFINE k == Next1(from) - 1
    <2>1. k \in from - 1 .. L /\ k + 1 = Next1(from)
      BY <1>1, <1>3, SMTT(30)
    <2> HIDE DEF k
    <2>2. SubSeq(log, from, k) \o SubSeq(log, k + 1, L) = SubSeq(log, from, L)
      <3>1. /\ from \in 1 .. Len(log) + 1 /\ k \in from - 1 .. Len(log)
            /\ L \in k .. Len(log)
        BY <1>1, <2>1
      <3> HIDE DEF L, log, D
      <3> QED
        BY <1>1, <3>1, ConcatAdjacentSubSeq
    <2>3. CASE Next1(from) <= L
      BY <2>1, <2>2, <2>3 DEF k
    <2>4. CASE ~(Next1(from) <= L)
      <3>1. SubSeq(log, k + 1, L) = << >>
        BY <1>1, <2>1, <2>4, SubSeqEmpty
      <3> QED
        BY <2>2, <2>4, <3>1 DEF k
    <2> QED
      BY <2>3, <2>4
  <1>6. ASSUME NEW from \in D PROVE Next1(from) \in D
    <2>1. from \in 1 .. L + 1 /\ Next1(from) \in from .. L + 1
      BY <1>3
    <2> QED
      BY <1>1, <2>1
  <1>7. F(W) = W
    <2>1. ASSUME NEW from \in D
          PROVE  InferenceEvents(v, r, from, limit).events
                   \o (IF InferenceEvents(v, r, from, limit).hasMore
                       THEN W[InferenceEvents(v, r, from, limit).next] ELSE << >>)
                 = SubSeq(log, from, L)
      <3>1. W[Next1(from)] = SubSeq(log, Next1(from), L)
        BY <1>6
      <3> HIDE DEF W, D, L, log
      <3>2. InferenceEvents(v, r, from, limit).next = Next1(from)
        BY DEF Next1
      <3> QED
        BY <1>3, <1>5, <3>1, <3>2
    <2> QED
      BY <2>1 DEF F
  <1> DEFINE G == CHOOSE g : g = F(g)
  <1>8. G = F(G)
    BY <1>7
  <1>9. ReadToEnd(v, r, limit) = G[1]
    BY <1>2
  <1> HIDE DEF G
  <1> DEFINE S == {n \in Nat : \A from \in D : L + 1 - from <= n => G[from] = W[from]}
  <1>10. ASSUME NEW n \in Nat, \A from \in D : L + 1 - from < n => G[from] = W[from],
               NEW from \in D, L + 1 - from <= n
        PROVE  G[from] = W[from]
    <2>1. Next1(from) <= L => G[Next1(from)] = SubSeq(log, Next1(from), L)
      <3>1. Next1(from) \in D /\ W[Next1(from)] = SubSeq(log, Next1(from), L)
        BY <1>6
      <3>2. from \in 1 .. L + 1 /\ Next1(from) \in 1 .. L + 1
        BY <1>6
      <3>3. Next1(from) <= L => from < Next1(from)
        BY <1>3
      <3> HIDE DEF D, W, L
      <3>4. Next1(from) <= L => L + 1 - Next1(from) < n
        BY <1>1, <1>10, <3>2, <3>3
      <3> QED
        BY <1>10, <3>1, <3>4
    <2>2. G[from] = SubSeq(log, from, Next1(from) - 1)
                      \o (IF Next1(from) <= L THEN G[Next1(from)] ELSE << >>)
      BY <1>8, <1>4
    <2>3. G[from] = SubSeq(log, from, L)
      BY <1>5, <2>1, <2>2
    <2> QED
      BY <2>3
  <1>11. 0 \in S
    <2>1. \A from \in D : ~(L + 1 - from < 0)
      BY <1>1
    <2> HIDE DEF D, W
    <2> QED
      BY <1>10, <2>1
  <1>12. ASSUME NEW n \in Nat, n \in S PROVE n + 1 \in S
    <2>1. \A from \in D : L + 1 - from <= n => G[from] = W[from]
      BY <1>12
    <2>2. \A from \in D : L + 1 - from < n + 1 => L + 1 - from <= n
      BY <1>1
    <2> HIDE DEF W, D
    <2> QED
      BY <1>10, <2>1, <2>2
  <1> HIDE DEF S, W
  <1>13. L \in S
    <2>1. Nat \subseteq S
      BY <1>11, <1>12, NatSet
    <2> QED
      BY <1>1, <2>1
  <1>14. G[1] = W[1]
    BY <1>1, <1>13 DEF S
  <1>15. W[1] = SubSeq(log, 1, L)
    BY <1>1 DEF W
  <1>16. SubSeq(log, 1, L) = log
    BY <1>1, SubSeqFull
  <1> QED
    BY <1>9, <1>14, <1>15, <1>16

\* The first part of a log is what it began with.
LEMMA Beginnings ==
    ASSUME NEW S, NEW s \in Seq(S), NEW t \in Seq(S), NEW n \in 0 .. Len(s)
    PROVE  /\ SubSeq(s \o t, 1, n) = SubSeq(s, 1, n)
           /\ IsPrefix(SubSeq(s, 1, n), s)
           /\ IsPrefix(s, s \o t)
  <1>1. \A m \in 0 .. Len(s) : SubSeq(s \o t, 1, m) = SubSeq(s, 1, m)
    <2> TAKE m \in 0 .. Len(s)
    <2>1. CASE m = 0
      BY <2>1, SubSeqEmpty
    <2>2. CASE m # 0
      <3>1. 1 \in 1 .. Len(s) /\ m \in 1 .. Len(s)
        BY <2>2
      <3> QED
        BY <3>1, SubSeqOfConcat1
    <2> QED
      BY <2>1, <2>2
  <1>2. Len(SubSeq(s, 1, n)) = n
    OBVIOUS
  <1>3. SubSeq(SubSeq(s, 1, n), 1, n) = SubSeq(s, 1, n)
    <2>1. SubSeq(s, 1, n) \in Seq(S)
      OBVIOUS
    <2> QED
      BY <1>2, <2>1, SubSeqFull
  <1>4. IsPrefix(SubSeq(s, 1, n), s)
    BY <1>2, <1>3 DEF IsPrefix
  <1>5. Len(s) \in 0 .. Len(s) /\ Len(s) <= Len(s \o t)
    OBVIOUS
  <1>6. IsPrefix(s, s \o t)
    BY <1>1, <1>5 DEF IsPrefix
  <1> QED
    BY <1>1, <1>4, <1>6

\* A client that has read a page of a run may go on with the next one when the
\* run has grown, and has then read the beginning of its new log.
LEMMA PagesGoOn ==
    ASSUME NEW v, WellFormed(v), NEW n, WellFormed(n), NEW r \in Requests,
           GrowsTo(v.runs[r], v.budget[r], n.runs[r], n.budget[r]), Exists(v, r)
    PROVE  LET page == InferenceEvents(v, r, 1, 2) IN
           /\ CanReadEvents(n, v.runs[r].owner, r, page.next, 2)
           /\ IsPrefix(page.events \o InferenceEvents(n, r, page.next, 2).events, n.runs[r].log)
  <1> DEFINE old == v.runs[r].log
             new == n.runs[r].log
             next == InferenceEvents(v, r, 1, 2).next
             end == InferenceEvents(n, r, next, 2).next
             k == next - 1
             m == end - 1
  <1>1. /\ old \in Seq(JournalEventKind) /\ Len(old) \in Nat
        /\ new \in Seq(JournalEventKind) /\ Len(new) \in Nat
    BY Shape DEF StoredInference
  <1>2. PICK kinds \in Seq(JournalEventKind) : new = old \o kinds
    BY DEF GrowsTo
  <1>3. Len(old) <= Len(new)
    <2> HIDE DEF old, new
    <2> QED
      BY <1>1, <1>2
  <1>4. next \in 1 .. Len(old) + 1 /\ InferenceEvents(v, r, 1, 2).events = SubSeq(old, 1, k)
    <2>1. 1 \in 1 .. Len(old) + 1 /\ 2 \in Nat \ {0}
      BY <1>1
    <2> QED
      BY <2>1, PageIs
  <1> HIDE DEF next
  <1>5. next \in 1 .. Len(new) + 1
    <2> HIDE DEF old, new
    <2> QED
      BY <1>1, <1>3, <1>4
  <1>6. end \in next .. Len(new) + 1 /\ InferenceEvents(n, r, next, 2).events = SubSeq(new, next, m)
    <2>1. 2 \in Nat \ {0}
      OBVIOUS
    <2> QED
      BY <1>5, <2>1, PageIs
  <1> HIDE DEF end
  <1>7. /\ k \in 0 .. Len(old) /\ k \in 0 .. Len(new) /\ k + 1 = next
        /\ m \in k .. Len(new) /\ m \in 0 .. Len(new)
    <2> HIDE DEF old, new
    <2> QED
      BY <1>1, <1>4, <1>5, <1>6
  <1>8. SubSeq(old, 1, k) = SubSeq(new, 1, k)
    <2> HIDE DEF old, new, k
    <2> QED
      BY <1>1, <1>2, <1>7, Beginnings
  <1>9. SubSeq(new, 1, k) \o SubSeq(new, next, m) = SubSeq(new, 1, m)
    <2>1. 1 \in 1 .. Len(new) + 1 /\ k \in 1 - 1 .. Len(new)
      BY <1>1, <1>7
    <2> HIDE DEF new, k, m
    <2>2. SubSeq(new, 1, k) \o SubSeq(new, k + 1, m) = SubSeq(new, 1, m)
      BY <1>1, <1>7, <2>1, ConcatAdjacentSubSeq
    <2> QED
      BY <1>7, <2>2
  <1>10. IsPrefix(SubSeq(new, 1, m), new)
    <2>1. << >> \in Seq(JournalEventKind)
      OBVIOUS
    <2> HIDE DEF new, m
    <2> QED
      BY <1>1, <1>7, <2>1, Beginnings
  <1>11. IsPrefix(InferenceEvents(v, r, 1, 2).events \o InferenceEvents(n, r, next, 2).events, new)
    BY <1>4, <1>6, <1>8, <1>9, <1>10
  <1>12. CanReadEvents(n, v.runs[r].owner, r, next, 2)
    <2>1. Exists(n, r) /\ n.runs[r].owner = v.runs[r].owner
      BY DEF GrowsTo, Exists
    <2>2. 2 \in 1 .. MaxPage
      BY DEF MaxPage
    <2> QED
      BY <1>5, <2>1, <2>2 DEF CanReadEvents, CanReadBack, Owns
  <1> QED
    BY <1>11, <1>12 DEF next

\* Log, state and ledger entry of every run tell the same in every reachable state.
THEOREM StoryInvariance == Spec => []JInv
  <1>1. Init => JInv
    BY InitJInv
  <1>2. JInv /\ [Next]_vars => JInv'
    BY NextJInv
  <1> QED
    BY <1>1, <1>2, PTL DEF Spec

\* The event log a client pages through tells the same story as the status and
\* the cost it reads, for any number of events.
THEOREM LogExplainsState == Spec => []JournalExplainsState
  <1>1. ASSUME JInv PROVE JournalExplainsState
    <2>1. WellFormed(vault) /\ WellFormed(disk) /\ Retold(vault) /\ Retold(disk)
      BY <1>1 DEF JInv, MInv, LInv, Inv, Sound
    <2>2. ASSUME NEW v, WellFormed(v), Retold(v), NEW r \in Requests
          PROVE  /\ InferenceStatus(v, r)
                       = [state |-> Replay(ReadToEnd(v, r, 2)),
                          lastEventSequence |-> Len(ReadToEnd(v, r, 2))]
                 /\ Overruns(v.runs[r].log) = Over(v.budget[r])
      <3>1. 2 \in Nat \ {0}
        OBVIOUS
      <3>2. ReadToEnd(v, r, 2) = v.runs[r].log
        BY <2>2, <3>1, ReadsAll
      <3> QED
        BY <2>2, <3>2 DEF Retold, InferenceStatus
    <2>3. OverrunLogged
      BY <2>1, <2>2, Zenon DEF OverrunLogged, Overruns, Over
    <2>4. \A v \in {vault, disk}, r \in Requests :
             InferenceStatus(v, r)
                = [state |-> Replay(ReadToEnd(v, r, 2)),
                   lastEventSequence |-> Len(ReadToEnd(v, r, 2))]
      BY <2>1, <2>2
    <2> QED
      BY <2>3, <2>4, Zenon DEF JournalExplainsState
  <1> QED
    BY <1>1, StoryInvariance, PTL

\* Logs are only ever lengthened, ends are final, owners and generations stay,
\* and a cursor stays good, over commits, crashes and restarts alike.
THEOREM OnlyGrows == Spec => JournalOnlyGrows
  <1> DEFINE Growing ==
                \A r \in {q \in Requests : vault'.runs[q] # vault.runs[q]} :
                    LET old == vault.runs[r]
                        new == vault'.runs[r] IN
                    /\ IsPrefix(old.log, new.log)
                    /\ old.state \in Terminal => new.state = old.state
                    /\ old.state # "Absent" => new.owner = old.owner
                    /\ old.generation => new.generation
                    /\ old.state # "Absent" =>
                          LET page == InferenceEvents(vault, r, 1, 2) IN
                          /\ CanReadEvents(vault', old.owner, r, page.next, 2)
                          /\ IsPrefix(page.events \o InferenceEvents(vault', r, page.next, 2).events,
                                      new.log)
  <1>1. ASSUME MInv, [Next]_vars PROVE Growing
    <2>1. PICK n : n = vault'
      OBVIOUS
    <2>2. WellFormed(vault) /\ WellFormed(n)
      <3>1. MInv'
        BY <1>1, NextMInv
      <3> QED
        BY <1>1, <2>1, <3>1 DEF MInv, LInv, Inv, Sound, WellFormed, Stored, Exists
    <2>3. Grown(vault, n)
      BY <1>1, <2>1, MemoryGrows
    <2>4. ASSUME NEW r \in Requests
          PROVE  /\ IsPrefix(vault.runs[r].log, n.runs[r].log)
                 /\ vault.runs[r].state \in Terminal => n.runs[r].state = vault.runs[r].state
                 /\ vault.runs[r].state # "Absent" => n.runs[r].owner = vault.runs[r].owner
                 /\ vault.runs[r].generation => n.runs[r].generation
                 /\ vault.runs[r].state # "Absent" =>
                       LET page == InferenceEvents(vault, r, 1, 2) IN
                       /\ CanReadEvents(n, vault.runs[r].owner, r, page.next, 2)
                       /\ IsPrefix(page.events \o InferenceEvents(n, r, page.next, 2).events,
                                   n.runs[r].log)
      <3>1. GrowsTo(vault.runs[r], vault.budget[r], n.runs[r], n.budget[r])
        BY <2>3 DEF Grown
      <3>2. vault.runs[r].log \in Seq(JournalEventKind)
        BY <2>2, Shape DEF StoredInference
      <3>3. IsPrefix(vault.runs[r].log, n.runs[r].log)
        <4>1. PICK kinds \in Seq(JournalEventKind) : n.runs[r].log = vault.runs[r].log \o kinds
          BY <3>1 DEF GrowsTo
        <4>2. 0 \in 0 .. Len(vault.runs[r].log)
          BY <3>2
        <4> QED
          BY <3>2, <4>1, <4>2, Beginnings
      <3>4. vault.runs[r].state # "Absent" =>
               LET page == InferenceEvents(vault, r, 1, 2) IN
               /\ CanReadEvents(n, vault.runs[r].owner, r, page.next, 2)
               /\ IsPrefix(page.events \o InferenceEvents(n, r, page.next, 2).events,
                           n.runs[r].log)
        BY <2>2, <3>1, PagesGoOn DEF Exists
      <3>5. /\ vault.runs[r].state \in Terminal => n.runs[r].state = vault.runs[r].state
            /\ vault.runs[r].state # "Absent" => n.runs[r].owner = vault.runs[r].owner
            /\ vault.runs[r].generation => n.runs[r].generation
        BY <3>1 DEF GrowsTo
      <3> QED
        BY <3>3, <3>4, <3>5
    <2> QED
      BY <2>1, <2>4, Zenon
  <1>2. MInv /\ [Next]_vars => [Growing]_vars
    BY <1>1
  <1>3. Spec => []MInv
    <2>1. Init => MInv
      BY InitMInv
    <2>2. MInv /\ [Next]_vars => MInv'
      BY NextMInv
    <2> QED
      BY <2>1, <2>2, PTL DEF Spec
  <1> QED
    BY <1>2, <1>3, PTL DEF Spec, JournalOnlyGrows

-----------------------------------------------------------------------------
(* The acceptance limit. *)

\* What was agreed to be spent is within the limit.
Fits(v) == SumFunction([r \in Requests |-> Planned(v.budget[r])]) <= Limit

FInv == LInv /\ Fits(vault) /\ Fits(disk)

\* What a good entry holds and plans.
LEMMA EntryPlans ==
    ASSUME NEW e \in Reservation, GoodEntry(e)
    PROVE  /\ Held(e) \in Nat /\ Planned(e) \in Nat
           /\ e.status = "Absent" => Held(e) = 0
           /\ e.status \in {"Dispatched", "Uncertain"} => Held(e) = e.ceiling /\ Held(e) # 0
           /\ e.status = "Settled" => Held(e) = e.actual
           /\ e.status = "CostOverrun" => Planned(e) = e.ceiling
           /\ e.status # "CostOverrun" => Planned(e) = Held(e)
  <1>1. (\A x \in Ceilings : x \in Nat /\ x # 0) /\ (\A x \in Costs : x \in Nat)
    BY BudgetAssumption
  <1>2. CASE e.status = "Absent"
    BY <1>2 DEF Held, Planned
  <1>3. CASE e.status \in {"Dispatched", "Uncertain"}
    <2>1. e.ceiling \in Ceilings
      BY <1>3 DEF GoodEntry
    <2>2. Held(e) = e.ceiling
      BY <1>3 DEF Held
    <2> QED
      BY <1>1, <1>3, <2>1, <2>2 DEF Planned
  <1>4. CASE e.status \in {"Settled", "CostOverrun"}
    <2>1. e.ceiling \in Ceilings /\ e.actual \in Costs
      BY <1>4 DEF GoodEntry
    <2>2. Held(e) = e.actual
      BY <1>4 DEF Held
    <2> QED
      BY <1>1, <1>4, <2>1, <2>2 DEF Planned
  <1> QED
    BY <1>2, <1>3, <1>4 DEF GoodEntry

\* Plans that do not grow still fit.
LEMMA LesserFits ==
    ASSUME NEW v, v.budget \in Ledger, Ledgered(v), Fits(v),
           NEW n, n.budget \in Ledger, Ledgered(n),
           \A q \in Requests : Planned(n.budget[q]) <= Planned(v.budget[q])
    PROVE  Fits(n)
  <1> DEFINE f == [r \in Requests |-> Planned(v.budget[r])]
             h == [r \in Requests |-> Planned(n.budget[r])]
  <1>1. \A r \in Requests : /\ v.budget[r] \in Reservation /\ GoodEntry(v.budget[r])
                            /\ n.budget[r] \in Reservation /\ GoodEntry(n.budget[r])
    BY DEF Ledger, Ledgered
  <1>2. \A r \in Requests : Planned(v.budget[r]) \in Int /\ Planned(n.budget[r]) \in Int
    BY <1>1, EntryPlans
  <1>3. f \in [Requests -> Int] /\ h \in [Requests -> Int] /\ \A q \in Requests : h[q] <= f[q]
    BY <1>2
  <1>4. SumFunction(f) <= Limit
    BY DEF Fits
  <1> HIDE DEF f, h
  <1>5. SumFunction(h) <= SumFunction(f) /\ SumFunction(h) \in Int /\ SumFunction(f) \in Int
    BY <1>3, SumMonotone, BudgetAssumption
  <1>6. SumFunction(h) <= Limit
    BY <1>4, <1>5, BudgetAssumption
  <1> QED
    BY <1>6 DEF h, Fits

\* A reservation that passes the check of the limit fits.
LEMMA HoldFits ==
    ASSUME NEW v, v.budget \in Ledger, Ledgered(v),
           NEW n, n.budget \in Ledger, Ledgered(n),
           NEW r \in Requests, Holds(v, n, r)
    PROVE  Fits(n)
  <1> DEFINE f == [q \in Requests |-> Held(v.budget[q])]
             h == [q \in Requests |-> Planned(n.budget[q])]
  <1>1. PICK ceiling \in Ceilings :
           /\ v.budget[r].status = "Absent"
           /\ ~PaidDispatchBlocked(v.budget)
           /\ Committed(v.budget) + ceiling <= Limit
           /\ n.budget = [v.budget EXCEPT ![r] =
                 [status |-> "Dispatched", ceiling |-> ceiling, actual |-> None]]
    BY DEF Holds
  <1>2. \A q \in Requests : /\ v.budget[q] \in Reservation /\ GoodEntry(v.budget[q])
                            /\ n.budget[q] \in Reservation /\ GoodEntry(n.budget[q])
    BY DEF Ledger, Ledgered
  <1>3. f \in [Requests -> Int] /\ h \in [Requests -> Int]
    <2>1. \A q \in Requests : Held(v.budget[q]) \in Int /\ Planned(n.budget[q]) \in Int
      BY <1>2, EntryPlans
    <2> QED
      BY <2>1
  <1>4. \A q \in Requests \ {r} : h[q] = f[q]
    <2> TAKE q \in Requests \ {r}
    <2>1. n.budget[q] = v.budget[q]
      BY <1>1 DEF Ledger
    <2>2. v.budget[q].status # "CostOverrun"
      BY <1>1 DEF PaidDispatchBlocked
    <2>3. Planned(v.budget[q]) = Held(v.budget[q])
      BY <1>2, <2>2, EntryPlans
    <2> QED
      BY <2>1, <2>3
  <1>5. f[r] = 0 /\ h[r] = ceiling
    <2>1. Held(v.budget[r]) = 0
      BY <1>1, <1>2, EntryPlans
    <2>2. n.budget[r] = [status |-> "Dispatched", ceiling |-> ceiling, actual |-> None]
      BY <1>1 DEF Ledger
    <2>3. n.budget[r].status = "Dispatched" /\ n.budget[r].ceiling = ceiling
      BY <2>2
    <2>4. Planned(n.budget[r]) = ceiling
      BY <1>2, <2>3, EntryPlans
    <2> QED
      BY <2>1, <2>4
  <1>6. SumFunction(f) + ceiling <= Limit
    BY <1>1 DEF Committed
  <1> HIDE DEF f, h
  <1>7. SumFunction(h) - h[r] = SumFunction(f) - f[r]
    BY <1>3, <1>4, SumUpdate, BudgetAssumption
  <1>8. SumFunction(h) \in Int /\ SumFunction(f) \in Int /\ ceiling \in Int
    <2>1. (\A q \in Requests : f[q] <= f[q]) /\ (\A q \in Requests : h[q] <= h[q])
      BY <1>3
    <2> QED
      BY <1>3, <2>1, SumMonotone, BudgetAssumption
  <1>9. SumFunction(h) <= Limit
    BY <1>5, <1>6, <1>7, <1>8, BudgetAssumption
  <1> QED
    BY <1>9 DEF h, Fits

\* Every move of the ledger keeps within the limit.
LEMMA MovesFit ==
    ASSUME NEW v, v.budget \in Ledger, Ledgered(v), Fits(v),
           NEW n, n.budget \in Ledger, Ledgered(n), Moves(v, n)
    PROVE  Fits(n)
  <1>1. \A q \in Requests : /\ v.budget[q] \in Reservation /\ GoodEntry(v.budget[q])
                            /\ n.budget[q] \in Reservation /\ GoodEntry(n.budget[q])
    BY DEF Ledger, Ledgered
  <1>2. \A q \in Requests : Planned(v.budget[q]) \in Nat /\ Planned(n.budget[q]) \in Nat
    BY <1>1, EntryPlans
  <1>3. CASE n.budget = v.budget
    <2>1. \A q \in Requests : Planned(n.budget[q]) <= Planned(v.budget[q])
      BY <1>2, <1>3
    <2> QED
      BY <2>1, LesserFits
  <1>4. ASSUME NEW r \in Requests, Doubts(v, n, r) \/ Bills(v, n, r)
        PROVE  Fits(n)
    <2>1. InDoubt(v.budget, r)
      BY <1>4 DEF Doubts, Bills
    <2>2. Planned(v.budget[r]) = v.budget[r].ceiling
      BY <1>1, <2>1, EntryPlans DEF InDoubt
    <2>3. \A q \in Requests \ {r} : n.budget[q] = v.budget[q]
      BY <1>4, <2>1 DEF Doubts, Bills, MarkUncertain, Settle, InDoubt, Accounted, Ledger
    <2>4. Planned(n.budget[r]) <= v.budget[r].ceiling
      <3>1. CASE Doubts(v, n, r)
        <4>1. n.budget[r].status = "Uncertain" /\ n.budget[r].ceiling = v.budget[r].ceiling
          BY <1>1, <3>1 DEF Doubts, MarkUncertain, Ledger, Reservation
        <4>2. Planned(n.budget[r]) = v.budget[r].ceiling
          BY <1>1, <4>1, EntryPlans
        <4> QED
          BY <1>2, <4>2
      <3>2. CASE Bills(v, n, r)
        <4>1. PICK cost \in Costs : n.budget = Settle(v.budget, r, cost)
          BY <3>2 DEF Bills
        <4>2. n.budget[r] = [status |-> IF cost > v.budget[r].ceiling THEN "CostOverrun" ELSE "Settled",
                             ceiling |-> v.budget[r].ceiling, actual |-> cost]
          BY <2>1, <4>1 DEF Settle, InDoubt, Accounted, Ledger
        <4>3. v.budget[r].ceiling \in Nat /\ cost \in Nat
          <5>1. v.budget[r].ceiling \in Ceilings
            BY <1>1, <2>1 DEF GoodEntry, InDoubt
          <5> QED
            BY <5>1, BudgetAssumption
        <4>4. CASE cost > v.budget[r].ceiling
          <5>1. n.budget[r].status = "CostOverrun" /\ n.budget[r].ceiling = v.budget[r].ceiling
            BY <4>2, <4>4
          <5>2. Planned(n.budget[r]) = v.budget[r].ceiling
            BY <1>1, <5>1, EntryPlans
          <5> QED
            BY <4>3, <5>2
        <4>5. CASE ~(cost > v.budget[r].ceiling)
          <5>1. n.budget[r].status = "Settled" /\ n.budget[r].actual = cost
            BY <4>2, <4>5
          <5>2. Planned(n.budget[r]) = cost
            BY <1>1, <5>1, EntryPlans
          <5> QED
            BY <4>3, <4>5, <5>2
        <4> QED
          BY <4>4, <4>5
      <3> QED
        BY <1>4, <3>1, <3>2
    <2>5. \A q \in Requests : Planned(n.budget[q]) <= Planned(v.budget[q])
      <3> TAKE q \in Requests
      <3>1. CASE q = r
        BY <2>2, <2>4, <3>1
      <3>2. CASE q # r
        BY <1>2, <2>3, <3>2
      <3> QED
        BY <3>1, <3>2
    <2> QED
      BY <2>5, LesserFits
  <1> QED
    BY <1>3, <1>4, HoldFits DEF Moves

\* So does a restart: it takes nothing back.
LEMMA RestartedFits ==
    ASSUME NEW v, WellFormed(v), Ledgered(v), CanRestart(v), Fits(v), Restarted(v).budget \in Ledger
    PROVE  Fits(Restarted(v))
  <1> DEFINE n == Restarted(v)
  <1>1. v.budget \in Ledger /\ Ledgered(n)
    BY Shape, RestartedLedger
  <1>2. \A q \in Requests : FundsOf(n.budget[q]) = FundsOf(v.budget[q])
    BY RestartedLedger
  <1> HIDE DEF n
  <1>3. ASSUME NEW q \in Requests PROVE Planned(n.budget[q]) <= Planned(v.budget[q])
    <2> DEFINE e == v.budget[q]
               a == n.budget[q]
    <2>1. e \in Reservation /\ GoodEntry(e) /\ a \in Reservation /\ GoodEntry(a)
      BY <1>1 DEF Ledger, Ledgered, n
    <2>2. FundsOf(a) = FundsOf(e)
      BY <1>2
    <2> HIDE DEF e, a
    <2>3. /\ Held(a) = Held(e) /\ (a.status = "CostOverrun" <=> e.status = "CostOverrun")
          /\ (a.status = "Absent" <=> e.status = "Absent")
      BY <2>1, <2>2, EntryFunds
    <2>4. e.status # "Absent" => a.ceiling = e.ceiling
      <3>1. e.status # "Absent" => FundsOf(e).ceiling = e.ceiling /\ FundsOf(a).ceiling = a.ceiling
        BY <2>1, <2>3, EntryFunds
      <3> QED
        BY <2>2, <3>1
    <2>5. Planned(a) = Planned(e) /\ Planned(e) \in Nat
      BY <2>1, <2>3, <2>4, EntryPlans
    <2> QED
      BY <2>5 DEF e, a
  <1> QED
    BY <1>1, <1>3, LesserFits DEF n

\* An empty ledger plans nothing.
LEMMA InitFInv == ASSUME Init PROVE FInv
  <1>1. LInv
    BY InitLInv
  <1>2. vault.budget = EmptyLedger /\ disk.budget = EmptyLedger
    BY DEF Init, EmptyVault
  <1> DEFINE f == [r \in Requests |-> Planned(EmptyLedger[r])]
  <1>3. \A r \in Requests : f[r] = 0
    BY DEF EmptyLedger, NoReservation, Planned, Held
  <1>4. f \in [Requests -> Nat]
    BY <1>3
  <1>5. SumFunction([r \in Requests |-> Planned(EmptyLedger[r])]) = SumFunction(f)
    OBVIOUS
  <1> HIDE DEF f
  <1>6. SumFunction(f) = 0
    BY <1>3, <1>4, SumOfNats, BudgetAssumption
  <1>7. Fits(vault) /\ Fits(disk)
    BY <1>2, <1>5, <1>6, BudgetAssumption DEF Fits
  <1> QED
    BY <1>1, <1>7 DEF FInv

\* Every action keeps within the limit.
LEMMA NextFInv == ASSUME FInv, [Next]_vars PROVE FInv'
  <1>1. LInv /\ LInv' /\ Fits(vault) /\ Fits(disk)
    BY NextLInv DEF FInv
  <1>2. PICK m, d : m = vault' /\ d = disk'
    OBVIOUS
  <1>3. /\ WellFormed(vault) /\ vault.budget \in Ledger /\ Ledgered(vault)
        /\ m.budget \in Ledger /\ Ledgered(m) /\ d.budget \in Ledger /\ Ledgered(d)
    <2>1. WellFormed(vault) /\ Ledgered(vault)
      BY <1>1 DEF LInv, Inv, Sound
    <2>2. WellFormed(m) /\ Ledgered(m) /\ WellFormed(d) /\ Ledgered(d)
      BY <1>1, <1>2 DEF LInv, Inv, Sound, Ledgered, WellFormed, Stored, Exists
    <2> QED
      BY <2>1, <2>2, Shape
  <1>4. \A n : Operation(vault, n) => Moves(vault, n)
    BY <1>3, OperationEffects DEF Effects
  <1>5. /\ m = vault \/ Operation(vault, m) \/ (CanRestart(vault) /\ m = Restarted(vault))
        /\ d = m \/ d = disk \/ Operation(vault, d)
    BY <1>1, <1>2, MemorySteps
  <1>6. Fits(m)
    BY <1>1, <1>3, <1>4, <1>5, MovesFit, RestartedFits
  <1>7. Fits(d)
    BY <1>1, <1>3, <1>4, <1>5, <1>6, MovesFit
  <1>8. Fits(vault)' /\ Fits(disk)'
    BY <1>2, <1>6, <1>7 DEF Fits, Planned, Held
  <1> QED
    BY <1>1, <1>8 DEF FInv

\* The totals the runtime serves are sums over the same entries.
LEMMA TotalsAdd ==
    ASSUME NEW v, v.budget \in Ledger, Ledgered(v)
    PROVE  LET s == Summary(v.budget) IN
           /\ s.settled + s.reserved = Committed(v.budget)
           /\ s.uncertain \in Int /\ s.reserved \in Int /\ Committed(v.budget) \in Int
           /\ s.uncertain <= s.reserved
           /\ s.reserved = 0 <=> Unsettled(v.budget) = {}
           /\ s.uncertain = 0 <=> {r \in Unsettled(v.budget) : v.budget[r].status = "Uncertain"} = {}
  <1> DEFINE b == v.budget
             A == {r \in Requests : Accounted(b, r)}
             U == Unsettled(b)
             W == {r \in U : b[r].status = "Uncertain"}
             a == [r \in Requests |-> IF r \in A THEN Held(b[r]) ELSE 0]
             u == [r \in Requests |-> IF r \in U THEN Held(b[r]) ELSE 0]
             w == [r \in Requests |-> IF r \in W THEN Held(b[r]) ELSE 0]
             c == [r \in Requests |-> Held(b[r])]
  <1>1. \A r \in Requests : b[r] \in Reservation /\ GoodEntry(b[r])
    BY DEF Ledger, Ledgered
  <1>2. /\ A \in SUBSET Requests /\ U \in SUBSET Requests /\ W \in SUBSET Requests
        /\ W \subseteq U
    BY DEF Unsettled
  <1>3. \A r \in Requests : Held(b[r]) \in Nat
    BY <1>1, EntryPlans
  <1>4. \A r \in U : Held(b[r]) # 0 /\ r \notin A
    <2> TAKE r \in U
    <2>1. r \in Requests /\ b[r].status \in {"Dispatched", "Uncertain"}
      BY <1>1 DEF Unsettled, GoodEntry
    <2> QED
      BY <1>1, <2>1, EntryPlans DEF Accounted
  <1>5. \A r \in Requests : r \notin U /\ r \notin A => Held(b[r]) = 0
    <2> TAKE r \in Requests
    <2>1. r \notin U /\ r \notin A => b[r].status = "Absent"
      BY <1>1 DEF Unsettled, Accounted, GoodEntry
    <2> QED
      BY <1>1, <2>1, EntryPlans
  <1>6. /\ Summary(b).settled = SumFunction([r \in A |-> Held(b[r])])
        /\ Summary(b).reserved = SumFunction([r \in U |-> Held(b[r])])
        /\ Summary(b).uncertain = SumFunction([r \in W |-> Held(b[r])])
        /\ Committed(b) = SumFunction(c)
    BY DEF Summary, HeldBy, Committed
  <1> HIDE DEF b, A, U, W
  <1>7. /\ a \in [Requests -> Nat] /\ u \in [Requests -> Nat] /\ w \in [Requests -> Nat]
        /\ c \in [Requests -> Nat]
    BY <1>3
  <1>8. ASSUME NEW E \in SUBSET Requests
        PROVE  SumFunction([r \in E |-> Held(b[r])])
                  = SumFunction([r \in Requests |-> IF r \in E THEN Held(b[r]) ELSE 0])
    <2> DEFINE f == [r \in Requests |-> IF r \in E THEN Held(b[r]) ELSE 0]
               h == [r \in E |-> Held(b[r])]
    <2>1. f \in [Requests -> Int] /\ h \in [E -> Int]
      BY <1>3
    <2>2. (\A x \in E : f[x] = h[x]) /\ (\A x \in Requests \ E : f[x] = 0)
      OBVIOUS
    <2> HIDE DEF f, h
    <2>3. SumFunction(h) = SumFunction(f)
      BY <2>1, <2>2, SumOfZeros, BudgetAssumption
    <2> QED
      BY <2>3 DEF f, h
  <1>9. /\ Summary(b).settled = SumFunction(a) /\ Summary(b).reserved = SumFunction(u)
        /\ Summary(b).uncertain = SumFunction(w)
    BY <1>2, <1>6, <1>8
  <1>10. /\ \A r \in Requests : c[r] = a[r] + u[r] /\ w[r] <= u[r]
         /\ (\A r \in Requests : u[r] = 0) <=> U = {}
         /\ (\A r \in Requests : w[r] = 0) <=> W = {}
    BY <1>2, <1>3, <1>4, <1>5
  <1> HIDE DEF a, u, w, c
  <1>11. /\ a \in [Requests -> Int] /\ u \in [Requests -> Int] /\ w \in [Requests -> Int]
         /\ c \in [Requests -> Int]
    BY <1>7
  <1>12. SumFunction(c) = SumFunction(a) + SumFunction(u)
    BY <1>10, <1>11, SumAdds, BudgetAssumption
  <1>13. SumFunction(w) <= SumFunction(u) /\ SumFunction(w) \in Int /\ SumFunction(u) \in Int
    BY <1>10, <1>11, SumMonotone, BudgetAssumption
  <1>14. /\ SumFunction(u) = 0 <=> U = {}
         /\ SumFunction(w) = 0 <=> W = {}
         /\ SumFunction(c) \in Nat
    BY <1>7, <1>10, SumOfNats, BudgetAssumption
  <1> QED
    BY <1>6, <1>9, <1>12, <1>13, <1>14 DEF b, U, W

\* The aggregate of a ledger of good entries passes the Admin's check of it.
LEMMA SummaryIsValid ==
    ASSUME NEW v, v.budget \in Ledger, Ledgered(v)
    PROVE  ValidFor(Summary(v.budget))
  <1> DEFINE b == v.budget
             s == Summary(b)
             U == Unsettled(b)
             W == {r \in U : b[r].status = "Uncertain"}
  <1>1. /\ s.settled + s.reserved = Committed(b)
        /\ s.uncertain \in Int /\ s.reserved \in Int /\ Committed(b) \in Int
        /\ s.uncertain <= s.reserved
        /\ s.reserved = 0 <=> U = {}
        /\ s.uncertain = 0 <=> W = {}
    BY TotalsAdd
  <1>2. /\ s.unsettledRequests = Cardinality(U) /\ s.uncertainRequests = Cardinality(W)
        /\ s.available = AtLeastZero(Limit - Committed(b))
        /\ s.blockedReason = BlockedReason(b)
    BY DEF Summary
  <1>3. /\ Cardinality(W) \in Nat /\ Cardinality(U) \in Nat /\ Cardinality(W) <= Cardinality(U)
        /\ Cardinality(U) = 0 <=> U = {}
        /\ Cardinality(W) = 0 <=> W = {}
    <2>1. U \subseteq Requests /\ W \subseteq U
      BY DEF Unsettled
    <2> HIDE DEF U, W
    <2>2. IsFiniteSet(U) /\ IsFiniteSet(W)
      BY <2>1, FS_Subset, BudgetAssumption
    <2> QED
      BY <2>1, <2>2, FS_Subset, FS_CardinalityType, FS_EmptySet
  <1>4. /\ s.blockedReason = None => Committed(b) < Limit
        /\ s.blockedReason = "ai_acceptance_budget_exhausted" => Committed(b) >= Limit
    <2> HIDE DEF s, b
    <2> QED
      BY <1>1, <1>2, BudgetAssumption DEF BlockedReason
  <1> HIDE DEF s, U, W, b
  <1> QED
    BY <1>1, <1>2, <1>3, <1>4 DEF ValidFor, s, b

\* Plans and limit agree in every reachable state.
THEOREM PlanInvariance == Spec => []FInv
  <1>1. Init => FInv
    BY InitFInv
  <1>2. FInv /\ [Next]_vars => FInv'
    BY NextFInv
  <1> QED
    BY <1>1, <1>2, PTL DEF Spec

\* What the workspace agreed to spend never exceeds the acceptance limit, and
\* the totals the runtime serves pass the Admin's own check (budget.rs).
THEOREM StaysWithinLimit == Spec => []CommittedWithinLimit
  <1>1. FInv => CommittedWithinLimit
    <2>1. ASSUME FInv, NEW v \in {vault, disk}
          PROVE  Fits(v) /\ ValidFor(Summary(v.budget))
      <3>1. WellFormed(v) /\ Ledgered(v) /\ Fits(v)
        BY <2>1 DEF FInv, LInv, Inv, Sound
      <3> QED
        BY <3>1, Shape, SummaryIsValid
    <2> QED
      BY <2>1 DEF CommittedWithinLimit, Fits
  <1> QED
    BY <1>1, PlanInvariance, PTL
=============================================================================
