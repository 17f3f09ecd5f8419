-------------------------- MODULE InferenceJournal --------------------------
(***************************************************************************)
(* The inference journal of ai-runtime: inference_journal.rs and           *)
(* inference_tools.rs over the encrypted vault of vault.rs, the adapter's  *)
(* single I/O attempt (openrouter_transport.rs), crash and restart.        *)
(*                                                                         *)
(* Every operation clones the vault state, edits the clone and commits it. *)
(* An operation is therefore written on vault VALUES: CanOp(v, ..) is what *)
(* the code checks, Op(v, ..) the state it commits.  The actions at the    *)
(* end run an operation on the effective (in-memory) state and commit it.  *)
(*                                                                         *)
(* A rejected call, a readback and an idempotent repeat change nothing:    *)
(* they are stuttering steps.  Grant expiry, price expiry and a missing    *)
(* capability proof only reject, so they are the step not being taken.     *)
(***************************************************************************)
EXTENDS BudgetLedger, FiniteSets, SequencesExt

CONSTANTS
    Grants,             \* verified execution grants (execution_grant.rs)
    Revisions,          \* registered profile revisions
    RevisionProvider,   \* Revisions -> Providers
    RevisionGeneration, \* Revisions -> credential generation they were registered under
    Roots,              \* root task ids
    MaxRuns,            \* MAX_RUNS
    MaxEvents,          \* MAX_EVENTS, per run
    MaxGenerations,     \* Providers -> bound: how often a provider is connected
    MaxDeltas           \* bound: text deltas the provider streams to one request

Providers == {"openrouter", "chatgpt"}

Executions == {g.execution : g \in Grants}

ASSUME JournalAssumption ==
    /\ None \notin Requests \cup Grants
    /\ \A g \in Grants : /\ g.revision \in Revisions
                         /\ g.execution.root \in Roots
                         /\ g.fencing \in Nat
                         /\ None # [tenant |-> g.execution.tenant, revision |-> g.revision]
    /\ RevisionProvider \in [Revisions -> Providers]
    /\ RevisionGeneration \in [Revisions -> Nat \ {0}]
    /\ MaxRuns \in Nat /\ MaxEvents \in Nat \ {0} /\ MaxDeltas \in Nat
    /\ MaxGenerations \in [Providers -> Nat]

VARIABLES
    vault,   \* the effective state: Vault.state, guarded by RuntimeState.vault
    disk,    \* the state vault.aead decrypts to
    up,      \* the process is serving
    permit,  \* the OpenRouterDispatch / OpenRouterResponse the adapter holds
    posts    \* history: POSTs that left the process, per request

vars == <<vault, disk, up, permit, posts>>

-----------------------------------------------------------------------------
(* Runs and the vault state. *)

InFlight == {"Dispatching", "Running", "CancellationRequested"}
Terminal == {"Completed", "Cancelled", "Failed", "ToolsSubmitted"}
RunState == {"Prepared", "Unknown", "AwaitingTools"} \cup InFlight \cup Terminal

TerminalOutcome == {"Completed", "Cancelled", "Failed"}

ProviderTerminal ==
    [Completed |-> "ProviderCompleted", Cancelled |-> "ProviderCancelled",
     Failed |-> "ProviderFailed"]

JournalEventKind ==
    {"Prepared", "DispatchIntent", "TextDelta", "CancellationRequested",
     "CancelledBeforeDispatch", "UnknownOutcome", "ProviderCompleted",
     "ProviderCancelled", "ProviderFailed", "CostReconciled",
     "CostCeilingExceeded", "ToolCalls", "ToolResultsSubmitted",
     "CancelledWaitingTools"}

StoredInference ==
    [state : RunState \cup {"Absent"}, owner : Grants \cup {None},
     log : Seq(JournalEventKind),
     parent : Requests \cup {None}, child : Requests \cup {None},
     generation : BOOLEAN]   \* openrouter_generation_id is recorded

NoRun == [state |-> "Absent", owner |-> None, log |-> <<>>,
          parent |-> None, child |-> None, generation |-> FALSE]

NewRun(g, parent) == [state |-> "Prepared", owner |-> g, log |-> <<"Prepared">>,
                      parent |-> parent, child |-> None, generation |-> FALSE]

RootBinding(g) == [tenant |-> g.execution.tenant, revision |-> g.revision]

VaultState ==
    [runs : [Requests -> StoredInference], budget : Ledger,
     roots : [Roots -> {RootBinding(g) : g \in Grants} \cup {None}],
     connection : [Providers -> Nat], minted : [Providers -> Nat]]

EmptyVault ==
    [runs |-> [r \in Requests |-> NoRun], budget |-> EmptyLedger,
     roots |-> [t \in Roots |-> None],
     connection |-> [p \in Providers |-> 0], minted |-> [p \in Providers |-> 0]]

Exists(v, r) == v.runs[r].state # "Absent"

Stored(v) == {r \in Requests : Exists(v, r)}

Paid(run) == RevisionProvider[run.owner.revision] = "openrouter"

\* owns(): machine, whole execution, revision and fencing token all match.
Owns(run, g) == run.owner = g

\* Faulty variant: the log has no capacity check.
CanLogAlways(run, kinds) == TRUE

\* append(): a full log rejects the whole operation.
CanLog(run, kinds) == Len(run.log) + Len(kinds) <= MaxEvents

Logged(run, kinds, state) == [run EXCEPT !.log = @ \o kinds, !.state = state]

\* append_cost_overrun(): the ledger decides whether the event is due.
OverrunEvents(b, r) ==
    IF b[r].status = "CostOverrun" THEN <<"CostCeilingExceeded">> ELSE <<>>

\* The stored generation of a disconnected provider is 0, which no revision has.
ConnectionCurrent(v, rev) ==
    v.connection[RevisionProvider[rev]] = RevisionGeneration[rev]

-----------------------------------------------------------------------------
(* prepare_inference: admission of a new request. *)

SameAssignment(h, g) ==
    h.execution = g.execution /\ h.machine = g.machine /\ h.fencing = g.fencing

\* An assignment may start on a task only past every run of an earlier one.
\* Faulty variant: a newer fencing token takes over whatever is running.
TaskAdmitsByToken(v, g) ==
    \A q \in Stored(v) :
        LET h == v.runs[q].owner IN
        h.execution.task = g.execution.task =>
            /\ h.fencing <= g.fencing
            /\ ~SameAssignment(h, g) => h.fencing # g.fencing

TaskAdmits(v, g) ==
    \A q \in Stored(v) :
        LET h == v.runs[q].owner IN
        h.execution.task = g.execution.task =>
            /\ h.fencing <= g.fencing
            /\ ~SameAssignment(h, g) =>
                  /\ v.runs[q].state \in Terminal
                  /\ h.fencing # g.fencing

RootAdmits(v, g) == v.roots[g.execution.root] \in {None, RootBinding(g)}

HasRoom(v) == Cardinality(Stored(v)) < MaxRuns

\* Faulty variant: a known request id is admitted again.
CanPrepareAgain(v, g, r) ==
    /\ HasRoom(v) /\ RootAdmits(v, g) /\ TaskAdmits(v, g)
    /\ ConnectionCurrent(v, g.revision)

CanPrepare(v, g, r) ==
    /\ ~Exists(v, r)
    /\ HasRoom(v)
    /\ RootAdmits(v, g)
    /\ TaskAdmits(v, g)
    /\ ConnectionCurrent(v, g.revision)

Prepared(v, g, r) ==
    [v EXCEPT !.runs[r] = NewRun(g, None),
              !.roots[g.execution.root] = IF @ = None THEN RootBinding(g) ELSE @]

(* dispatch_inference_once: reservation and intent in one commit. *)

CanDispatch(v, g, r, ceiling) ==
    /\ v.runs[r].state = "Prepared"
    /\ Owns(v.runs[r], g)
    /\ ConnectionCurrent(v, g.revision)
    /\ IF Paid(v.runs[r])
       THEN /\ ceiling # None
            /\ CanReserve(v.budget, r, ceiling)
            /\ CanMarkDispatched(Reserve(v.budget, r, ceiling), r)
       ELSE ceiling = None
    /\ CanLog(v.runs[r], <<"DispatchIntent">>)

Dispatched(v, r, ceiling) ==
    [v EXCEPT !.runs[r] = Logged(@, <<"DispatchIntent">>, "Dispatching"),
              !.budget = IF ceiling = None THEN @
                         ELSE MarkDispatched(Reserve(@, r, ceiling), r)]

(* cancel_inference. *)

CancelEvent(state) ==
    CASE state = "AwaitingTools" -> "CancelledWaitingTools"
      [] state = "Prepared" -> "CancelledBeforeDispatch"
      [] OTHER -> "CancellationRequested"

CanCancel(v, g, r) ==
    /\ Exists(v, r)
    /\ Owns(v.runs[r], g)
    /\ v.runs[r].state \notin Terminal \cup {"CancellationRequested"}
    /\ CanLog(v.runs[r], <<CancelEvent(v.runs[r].state)>>)

\* Faulty variant: a cancellation after the intent gives the reserve back.
CancelledFreely(v, r) ==
    LET state == v.runs[r].state IN
    [v EXCEPT !.runs[r] = Logged(@, <<CancelEvent(state)>>,
                                 IF state \in {"AwaitingTools", "Prepared"}
                                 THEN "Cancelled" ELSE "CancellationRequested"),
              !.budget = IF InDoubt(@, r) THEN CancelBeforeDispatch(@, r) ELSE @]

Cancelled(v, r) ==
    LET state == v.runs[r].state IN
    [v EXCEPT !.runs[r] =
        Logged(@, <<CancelEvent(state)>>,
               IF state \in {"AwaitingTools", "Prepared"}
               THEN "Cancelled" ELSE "CancellationRequested")]

(* record_inference_delta. *)

CanDelta(v, r) ==
    /\ v.runs[r].state \in InFlight
    /\ CanLog(v.runs[r], <<"TextDelta">>)

\* Faulty variant: late text resumes a run that is being cancelled.
DeltaResumes(v, r) == [v EXCEPT !.runs[r] = Logged(@, <<"TextDelta">>, "Running")]

Delta(v, r) ==
    [v EXCEPT !.runs[r] =
        Logged(@, <<"TextDelta">>,
               IF @.state = "CancellationRequested" THEN @.state ELSE "Running")]

(* mark_inference_unknown: the adapter lost its transport. *)

CanForget(v, r) ==
    /\ v.runs[r].state \in InFlight
    /\ Paid(v.runs[r]) => CanMarkUncertain(v.budget, r)
    /\ CanLog(v.runs[r], <<"UnknownOutcome">>)

\* Faulty variant: recovery queues the run for another attempt.
UnknownRunQueued(run) == Logged(run, <<"UnknownOutcome">>, "Prepared")

UnknownRun(run) == Logged(run, <<"UnknownOutcome">>, "Unknown")

Forgotten(v, r) ==
    [v EXCEPT !.runs[r] = UnknownRun(@),
              !.budget = IF Paid(v.runs[r]) THEN MarkUncertain(@, r) ELSE @]

(* The ledger entry a receipt leaves: a stated cost settles the           *)
(* reservation, a missing one keeps all of it.                            *)

CanCharge(v, r, cost) ==
    IF Paid(v.runs[r])
    THEN IF cost = None THEN CanMarkUncertain(v.budget, r) ELSE CanSettle(v.budget, r, cost)
    ELSE cost = None

\* Faulty variant: a terminal receipt without a cost frees the reserve.
ChargedFree(v, r, cost) ==
    IF ~Paid(v.runs[r]) THEN v.budget
    ELSE IF cost = None THEN CancelBeforeDispatch(v.budget, r)
    ELSE Settle(v.budget, r, cost)

Charged(v, r, cost) ==
    IF ~Paid(v.runs[r]) THEN v.budget
    ELSE IF cost = None THEN MarkUncertain(v.budget, r)
    ELSE Settle(v.budget, r, cost)

(* finish_inference: a reconciled provider receipt. *)

FinishEvents(v, r, outcome, cost) ==
    OverrunEvents(Charged(v, r, cost), r) \o <<ProviderTerminal[outcome]>>

CanFinish(v, r, outcome, cost) ==
    /\ v.runs[r].state \in InFlight \cup {"Unknown"}
    /\ CanCharge(v, r, cost)
    /\ CanLog(v.runs[r], FinishEvents(v, r, outcome, cost))

Finished(v, r, outcome, cost) ==
    [v EXCEPT !.runs[r] = Logged(@, FinishEvents(v, r, outcome, cost), outcome),
              !.budget = Charged(v, r, cost)]

(* record_openrouter_generation: the provider's name for the one attempt,  *)
(* and reconcile_openrouter_generation: a readback of that name ends a run *)
(* whose stream was lost.  For a run that already failed or was cancelled  *)
(* finish_inference answers without a change.                              *)

CanRecordGeneration(v, r) ==
    /\ v.runs[r].state \notin {"Absent", "Prepared"}
    /\ Paid(v.runs[r])
    /\ ~v.runs[r].generation

GenerationRecorded(v, r) == [v EXCEPT !.runs[r].generation = TRUE]

CanReconcileGeneration(v, r, outcome, cost) ==
    /\ v.runs[r].state \in {"Unknown", "CancellationRequested"}
    /\ Paid(v.runs[r])
    /\ v.runs[r].generation
    /\ cost # None /\ outcome # "Completed"
    /\ CanFinish(v, r, outcome, cost)

(* finish_inference_tools: the turn ended in tool calls.  A cancellation   *)
(* already requested ends the run in the same commit.                      *)

ToolEvents(v, r, cost) ==
    OverrunEvents(Charged(v, r, cost), r)
      \o IF v.runs[r].state = "CancellationRequested"
         THEN <<"ToolCalls", "ProviderCancelled">> ELSE <<"ToolCalls">>

CanFinishTools(v, r, cost) ==
    /\ \A i \in DOMAIN v.runs[r].log : v.runs[r].log[i] # "ToolCalls"
    /\ v.runs[r].state \in InFlight \cup {"Unknown"}
    /\ CanCharge(v, r, cost)
    /\ CanLog(v.runs[r], ToolEvents(v, r, cost))

\* Faulty variant: the tool calls are handed out although the run is being
\* cancelled.
ToolsFinishedAnyway(v, r, cost) ==
    [v EXCEPT !.runs[r] = Logged(@, ToolEvents(v, r, cost), "AwaitingTools"),
              !.budget = Charged(v, r, cost)]

ToolsFinished(v, r, cost) ==
    [v EXCEPT !.runs[r] =
        Logged(@, ToolEvents(v, r, cost),
               IF @.state = "CancellationRequested" THEN "Cancelled" ELSE "AwaitingTools"),
              !.budget = Charged(v, r, cost)]

(* continue_inference_tools: the results consume the parent and prepare    *)
(* the child in one commit.                                                *)

\* Faulty variant: the continuation may name a request that exists.
CanContinueInto(v, g, parent, child) ==
    /\ parent # child /\ Exists(v, parent) /\ Owns(v.runs[parent], g)
    /\ v.runs[parent].state \in {"AwaitingTools", "ToolsSubmitted"}
    /\ v.runs[parent].child = None
    /\ HasRoom(v) /\ ConnectionCurrent(v, g.revision)
    /\ CanLog(v.runs[parent], <<"ToolResultsSubmitted">>)

CanContinue(v, g, parent, child) ==
    /\ parent # child
    /\ Exists(v, parent)
    /\ Owns(v.runs[parent], g)
    /\ v.runs[parent].state \in {"AwaitingTools", "ToolsSubmitted"}
    /\ v.runs[parent].child = None
    /\ ~Exists(v, child)
    /\ HasRoom(v)
    /\ ConnectionCurrent(v, g.revision)
    /\ CanLog(v.runs[parent], <<"ToolResultsSubmitted">>)

Continued(v, g, parent, child) ==
    [v EXCEPT !.runs[parent] =
        [Logged(@, <<"ToolResultsSubmitted">>, "ToolsSubmitted") EXCEPT !.child = child],
              !.runs[child] = NewRun(g, parent)]

(* reconcile_inference_cost: a later billing readback. *)

ReconcileEvents(v, r, cost) ==
    OverrunEvents(Settle(v.budget, r, cost), r) \o <<"CostReconciled">>

CanReconcileCost(v, r, cost) ==
    /\ v.runs[r].state \in Terminal \cup {"AwaitingTools"}
    /\ Paid(v.runs[r])
    /\ v.budget[r].status # "Absent"
    /\ v.budget[r].actual = None
    /\ CanSettle(v.budget, r, cost)
    /\ CanLog(v.runs[r], ReconcileEvents(v, r, cost))

CostReconciled(v, r, cost) ==
    [v EXCEPT !.runs[r] = Logged(@, ReconcileEvents(v, r, cost), @.state),
              !.budget = Settle(@, r, cost)]

(* reconcile_inference_restart: every active run, or none if one fails.    *)

CanRestart(v) ==
    \A r \in Requests : v.runs[r].state \in InFlight => CanForget(v, r)

Restarted(v) ==
    [v EXCEPT
        !.runs = [r \in Requests |->
            IF v.runs[r].state \in InFlight THEN UnknownRun(v.runs[r]) ELSE v.runs[r]],
        !.budget = [r \in Requests |->
            IF v.runs[r].state \in InFlight /\ Paid(v.runs[r])
            THEN [v.budget[r] EXCEPT !.status = "Uncertain"] ELSE v.budget[r]]]

(* inference_status and inference_events: what a client reads of its run.   *)

CanReadBack(v, g, r) == Exists(v, r) /\ Owns(v.runs[r], g)

InferenceStatus(v, r) ==
    [state |-> v.runs[r].state, lastEventSequence |-> Len(v.runs[r].log)]

MaxPage == 200

CanReadEvents(v, g, r, from, limit) ==
    /\ CanReadBack(v, g, r)
    /\ from \in 1 .. Len(v.runs[r].log) + 1
    /\ limit \in 1 .. MaxPage

InferenceEvents(v, r, from, limit) ==
    LET log == v.runs[r].log
        next == Min({from + limit, Len(log) + 1}) IN
    [events |-> SubSeq(log, from, next - 1), next |-> next, hasMore |-> next <= Len(log)]

(* http.rs set_openrouter (a fresh generation replaces the connection; a   *)
(* ChatGPT login does the same) and disconnect.                            *)

CanConnect(v, p) == v.minted[p] < MaxGenerations[p]

Connected(v, p) ==
    [v EXCEPT !.minted[p] = @ + 1, !.connection[p] = v.minted[p] + 1]

CanDisconnect(v, p) == v.connection[p] # 0

Disconnected(v, p) == [v EXCEPT !.connection[p] = 0]

-----------------------------------------------------------------------------
(* Vault.commit: a temporary file is written and renamed over vault.aead,  *)
(* then the directory is synced.  A failure before the rename changes      *)
(* nothing.  A failure after it is reported as an error and the memory     *)
(* keeps the old state, but the file already holds the new one.            *)

Saved(n) == vault' = n /\ disk' = n

\* Faulty variant: the memory is changed before the write is known to succeed.
TornMemoryFirst(n) == vault' = n /\ disk' = disk

Torn(n) == vault' = vault /\ disk' = n

Commit(n) == Saved(n) \/ Torn(n)

-----------------------------------------------------------------------------
(* The actions. *)

Init ==
    /\ vault = EmptyVault
    /\ disk = EmptyVault
    /\ up = TRUE
    /\ permit = [r \in Requests |-> "none"]
    /\ posts = [r \in Requests |-> 0]

Prepare(g, r) ==
    /\ up /\ CanPrepare(vault, g, r)
    /\ Commit(Prepared(vault, g, r))
    /\ UNCHANGED <<up, permit, posts>>

\* dispatch_inference_once: only Ok hands the adapter its permit.  It admits the
\* runs of both providers; OpenRouterDispatch::begin is the adapter of the paid
\* ones and turns the others away before it comes here.
Dispatch(g, r, ceiling) ==
    LET n == Dispatched(vault, r, ceiling) IN
    /\ up /\ CanDispatch(vault, g, r, ceiling)
    /\ \/ Saved(n) /\ permit' = [permit EXCEPT ![r] = "held"]
       \/ Torn(n) /\ UNCHANGED permit
    /\ UNCHANGED <<up, posts>>

\* OpenRouter::start consumes the permit, without the vault's lock.
Post(r) ==
    /\ permit[r] = "held"
    /\ permit' = [permit EXCEPT ![r] = "open"]
    /\ posts' = [posts EXCEPT ![r] = @ + 1]
    /\ UNCHANGED <<vault, disk, up>>

\* The dispatch expires before its POST, or the response is dropped, failed
\* or aborted.
LoseTransport(r) ==
    /\ permit[r] # "none"
    /\ permit' = [permit EXCEPT ![r] = "none"]
    /\ UNCHANGED <<vault, disk, up, posts>>

RecordDelta(r) ==
    /\ up /\ permit[r] = "open" /\ CanDelta(vault, r)
    /\ Cardinality({i \in DOMAIN vault.runs[r].log : vault.runs[r].log[i] = "TextDelta"}) < MaxDeltas
    /\ Commit(Delta(vault, r))
    /\ UNCHANGED <<up, permit, posts>>

\* The adapter reports the loss of the transport it was given.  The journal does
\* not look at the permit: the guard is the adapter, which alone reports a loss
\* and has none to report while it holds a dispatch or a response.
MarkUnknown(r) ==
    /\ up /\ permit[r] = "none" /\ CanForget(vault, r)
    /\ Commit(Forgotten(vault, r))
    /\ UNCHANGED <<up, permit, posts>>

Cancel(g, r) ==
    /\ up /\ CanCancel(vault, g, r)
    /\ Commit(Cancelled(vault, r))
    /\ UNCHANGED <<up, permit, posts>>

\* A receipt exists only for a request the provider was sent; finishing the
\* response consumes it.
Receipt(r) ==
    /\ up /\ posts[r] > 0
    /\ permit' = [permit EXCEPT ![r] = "none"]
    /\ UNCHANGED <<up, posts>>

Finish(r, outcome, cost) ==
    /\ Receipt(r)
    /\ CanFinish(vault, r, outcome, cost)
    /\ Commit(Finished(vault, r, outcome, cost))

FinishTools(r, cost) ==
    /\ Receipt(r)
    /\ CanFinishTools(vault, r, cost)
    /\ Commit(ToolsFinished(vault, r, cost))

ReconcileCost(r, cost) ==
    /\ up /\ posts[r] > 0 /\ CanReconcileCost(vault, r, cost)
    /\ Commit(CostReconciled(vault, r, cost))
    /\ UNCHANGED <<up, permit, posts>>

\* The id comes with the response and is recorded before the transport is given
\* up: the journal does not ask for the permit, but an adapter whose response was
\* dropped or lost in a crash has no id to record.
RecordGeneration(r) ==
    /\ up /\ permit[r] = "open" /\ CanRecordGeneration(vault, r)
    /\ Commit(GenerationRecorded(vault, r))
    /\ UNCHANGED <<up, permit, posts>>

ReconcileGeneration(r, outcome, cost) ==
    /\ up /\ posts[r] > 0
    /\ CanReconcileGeneration(vault, r, outcome, cost)
    /\ Commit(Finished(vault, r, outcome, cost))
    /\ UNCHANGED <<up, permit, posts>>

Continue(g, parent, child) ==
    /\ up /\ CanContinue(vault, g, parent, child)
    /\ Commit(Continued(vault, g, parent, child))
    /\ UNCHANGED <<up, permit, posts>>

Connect(p) ==
    /\ up /\ CanConnect(vault, p)
    /\ Commit(Connected(vault, p))
    /\ UNCHANGED <<up, permit, posts>>

Disconnect(p) ==
    /\ up /\ CanDisconnect(vault, p)
    /\ Commit(Disconnected(vault, p))
    /\ UNCHANGED <<up, permit, posts>>

\* The memory and every permit are gone.  A loss of power may undo a rename
\* whose directory was not synced.
Crash ==
    /\ up
    /\ up' = FALSE
    /\ \E survivor \in {vault, disk} : vault' = survivor /\ disk' = survivor
    /\ permit' = [r \in Requests |-> "none"]
    /\ UNCHANGED posts

\* main.rs: open the vault, reconcile it, only then serve.
Restart ==
    /\ ~up /\ CanRestart(disk)
    /\ Saved(Restarted(disk))
    /\ up' = TRUE
    /\ UNCHANGED <<permit, posts>>

Next ==
    \/ \E g \in Grants, r \in Requests : Prepare(g, r) \/ Cancel(g, r)
    \/ \E g \in Grants, r \in Requests, ceiling \in Ceilings \cup {None} :
          Dispatch(g, r, ceiling)
    \/ \E r \in Requests :
          \/ Post(r) \/ LoseTransport(r) \/ RecordDelta(r) \/ MarkUnknown(r)
          \/ RecordGeneration(r)
    \/ \E r \in Requests, outcome \in TerminalOutcome, cost \in Costs \cup {None} :
          Finish(r, outcome, cost) \/ ReconcileGeneration(r, outcome, cost)
    \/ \E r \in Requests, cost \in Costs \cup {None} : FinishTools(r, cost)
    \/ \E r \in Requests, cost \in Costs : ReconcileCost(r, cost)
    \/ \E g \in Grants, parent, child \in Requests : Continue(g, parent, child)
    \/ \E p \in Providers : Connect(p) \/ Disconnect(p)
    \/ Crash
    \/ Restart

Spec == Init /\ [][Next]_vars

-----------------------------------------------------------------------------
(* Properties. *)

\* The shape of every variable; no log outgrows MAX_EVENTS (append) and the
\* journal never holds more than MAX_RUNS requests.
TypeOK ==
    /\ vault \in VaultState /\ disk \in VaultState
    /\ \A v \in {vault, disk} :
          /\ Cardinality(Stored(v)) <= MaxRuns
          /\ \A r \in Requests : Len(v.runs[r].log) <= MaxEvents
    /\ up \in BOOLEAN
    /\ permit \in [Requests -> {"none", "held", "open"}]
    /\ posts \in [Requests -> Nat]

\* "An Ok result permits exactly one I/O attempt": across failed commits,
\* crashes and restarts a request is sent at most once, and while a dispatch
\* is held it has not been sent yet.
AtMostOnePost ==
    \A r \in Requests : posts[r] + (IF permit[r] = "held" THEN 1 ELSE 0) <= 1

Issued(r) == posts[r] > 0 \/ permit[r] # "none"

\* "Reservation and intent persist together before that attempt": whatever
\* was sent, or is about to be, is past its intent both in memory and in the
\* file a crash would leave, and if it costs money its reservation stands.
PostIsCovered ==
    \A r \in Requests : Issued(r) =>
        \A v \in {vault, disk} :
            /\ "DispatchIntent" \in Range(v.runs[r].log)
            /\ Paid(v.runs[r]) => InDoubt(v.budget, r) \/ Accounted(v.budget, r)

\* What was sent is covered; the ledger has an entry exactly for the paid
\* requests that were dispatched, and an active one is still in doubt: otherwise
\* reconcile_inference_restart would fail and the process never start again.
\* A recorded generation belongs to a paid run that was sent, and as long as the
\* run's outcome is unknown its readback can end it, if the log has the room.
LedgerMatchesRuns ==
    /\ PostIsCovered
    /\ \A v \in {vault, disk}, r \in Requests :
          /\ v.budget[r].status # "Absent"
                <=> /\ Exists(v, r) /\ Paid(v.runs[r])
                    /\ "DispatchIntent" \in Range(v.runs[r].log)
          /\ v.runs[r].state \in InFlight \cup {"Unknown"} /\ Paid(v.runs[r])
                => InDoubt(v.budget, r)
          /\ v.runs[r].generation =>
                /\ posts[r] > 0 /\ Paid(v.runs[r])
                /\ v.runs[r].state = "Unknown" /\ Len(v.runs[r].log) + 2 <= MaxEvents =>
                      \A outcome \in {"Cancelled", "Failed"}, cost \in Costs :
                          CanReconcileGeneration(v, r, outcome, cost)

Exclusive(v) ==
    \A p, q \in Stored(v) :
        LET live == v.runs[p].owner
            other == v.runs[q].owner IN
        v.runs[p].state \notin Terminal /\ other.execution.task = live.execution.task
            => SameAssignment(other, live) \/ other.fencing < live.fencing

\* "Assignment replacement cannot take over an unconfirmed old run": beside a
\* run that is not terminal, a task has runs of the same assignment and of
\* strictly older ones only; so no two assignments are ever live together.
TaskExclusive == Exclusive(vault) /\ Exclusive(disk)

Bound(v) ==
    \A r \in Stored(v) :
        v.roots[v.runs[r].owner.execution.root] = RootBinding(v.runs[r].owner)

\* A root task is bound to one tenant and one profile revision for good: no
\* run under it, continuations included, was admitted under another.
RootFrozen == Bound(vault) /\ Bound(disk)

Linked(v) ==
    \A p, c \in Requests :
        /\ v.runs[p].child = c <=> v.runs[c].parent = p
        /\ v.runs[p].child = c =>
              /\ v.runs[p].state = "ToolsSubmitted"
              /\ Exists(v, c) /\ v.runs[c].owner = v.runs[p].owner

\* Tool results consume their parent once: the two pointers agree, a parent
\* that was consumed is closed, and the child acts for the same assignment.
SingleContinuation == Linked(vault) /\ Linked(disk)

AfterEvent(state, kind) ==
    CASE kind = "Prepared" -> "Prepared"
      [] kind = "DispatchIntent" -> "Dispatching"
      [] kind = "TextDelta" ->
            IF state = "CancellationRequested" THEN state ELSE "Running"
      [] kind = "CancellationRequested" -> "CancellationRequested"
      [] kind \in {"CancelledBeforeDispatch", "CancelledWaitingTools"} -> "Cancelled"
      [] kind = "UnknownOutcome" -> "Unknown"
      [] kind = "ToolCalls" -> "AwaitingTools"
      [] kind = "ToolResultsSubmitted" -> "ToolsSubmitted"
      [] kind = "ProviderCompleted" -> "Completed"
      [] kind = "ProviderCancelled" -> "Cancelled"
      [] kind = "ProviderFailed" -> "Failed"
      [] OTHER -> state

Replay(log) == FoldLeft(AfterEvent, "Absent", log)

\* A billing receipt above the ceiling is journaled once, whichever of the
\* three paths accounted for it, and nothing else is journaled as one.
OverrunLogged ==
    \A v \in {vault, disk}, r \in Requests :
        LET log == v.runs[r].log IN
        Cardinality({i \in DOMAIN log : log[i] = "CostCeilingExceeded"})
            = IF v.budget[r].status = "CostOverrun" THEN 1 ELSE 0

\* A client that follows the cursor from the first event to the last page.
ReadToEnd(v, r, limit) ==
    LET rest[from \in 1 .. Len(v.runs[r].log) + 1] ==
            LET page == InferenceEvents(v, r, from, limit) IN
            page.events \o (IF page.hasMore THEN rest[page.next] ELSE <<>>)
    IN rest[1]

\* The event log a client pages through tells the same story as the status and
\* the cost it reads: replaying the events of any run, read two at a time, gives
\* the state and the last sequence number its status states, and an overrun is
\* among them when the ledger has one.
JournalExplainsState ==
    /\ \A v \in {vault, disk}, r \in Requests :
          LET read == ReadToEnd(v, r, 2) IN
          InferenceStatus(v, r) = [state |-> Replay(read), lastEventSequence |-> Len(read)]
    /\ OverrunLogged

Planned(entry) ==
    IF entry.status = "CostOverrun" THEN entry.ceiling ELSE Held(entry)

\* What the workspace agreed to spend never exceeds the acceptance limit: only
\* the part of a bill above its own ceiling can.  Whatever mixture of settled,
\* uncertain and overrun requests the ledger holds, the totals and the reason
\* for blocking that the runtime serves pass the Admin's own check of them.
CommittedWithinLimit ==
    \A v \in {vault, disk} :
        /\ SumFunction([r \in Requests |-> Planned(v.budget[r])]) <= Limit
        /\ ValidFor(Summary(v.budget))

\* One operation of the journal on the vault state.
JournalStep(v, n) ==
    \E r \in Requests :
        \/ \E g \in Grants :
              \/ CanPrepare(v, g, r) /\ n = Prepared(v, g, r)
              \/ CanCancel(v, g, r) /\ n = Cancelled(v, r)
              \/ \E ceiling \in Ceilings \cup {None} :
                    CanDispatch(v, g, r, ceiling) /\ n = Dispatched(v, r, ceiling)
              \/ \E child \in Requests :
                    CanContinue(v, g, r, child) /\ n = Continued(v, g, r, child)
        \/ CanDelta(v, r) /\ n = Delta(v, r)
        \/ CanForget(v, r) /\ n = Forgotten(v, r)
        \/ CanRecordGeneration(v, r) /\ n = GenerationRecorded(v, r)
        \/ \E cost \in Costs \cup {None} :
              \/ \E outcome \in TerminalOutcome :
                    CanFinish(v, r, outcome, cost) /\ n = Finished(v, r, outcome, cost)
              \/ CanFinishTools(v, r, cost) /\ n = ToolsFinished(v, r, cost)
              \/ cost # None /\ CanReconcileCost(v, r, cost) /\ n = CostReconciled(v, r, cost)

\* "A failed commit cannot change the effective in-memory connection": the
\* file an error leaves behind is at most one legal operation ahead of the
\* state the process goes on with, so a crash can only complete that operation.
FailedCommitIsOneStep ==
    \/ disk = vault
    \/ JournalStep(vault, disk)
    \/ \E p \in Providers : \/ CanConnect(vault, p) /\ disk = Connected(vault, p)
                            \/ CanDisconnect(vault, p) /\ disk = Disconnected(vault, p)

\* Events are only ever appended, a terminal run stays in its state and the
\* owner and the recorded generation of a run never change, over commits,
\* crashes and restarts alike.  So "bounds never silently skip events": the
\* cursor of a page read before a step is accepted after it and goes on with
\* the event that follows the page.
JournalOnlyGrows ==
    [][\A r \in {q \in Requests : vault'.runs[q] # vault.runs[q]} :
          LET old == vault.runs[r]
              new == vault'.runs[r] IN
          /\ IsPrefix(old.log, new.log)
          /\ old.state \in Terminal => new.state = old.state
          /\ old.state # "Absent" => new.owner = old.owner
          /\ old.generation => new.generation
          /\ old.state # "Absent" =>
                LET page == InferenceEvents(vault, r, 1, 2) IN
                /\ CanReadEvents(vault', old.owner, r, page.next, 2)
                /\ IsPrefix(page.events \o InferenceEvents(vault', r, page.next, 2).events,
                            new.log)]_vars

\* A requested cancellation is not overtaken by the stream: a run whose
\* cancellation is pending never goes back to running and never waits for
\* tools; it becomes unknown, or a provider receipt ends it.
CancelHolds ==
    [][\A r \in Requests :
          vault.runs[r].state = "CancellationRequested" =>
              vault'.runs[r].state \in
                  {"CancellationRequested", "Unknown", "Completed", "Cancelled", "Failed"}]_vars

(* What the documents promise and the code does not do. *)

\* AI_PROFILE_V1: "after the intent the cancellation request is kept until a
\* reconciled provider receipt".  Kept would mean that no run with a
\* requested cancellation in its log is handed back to the agent for tools.
CancellationKept ==
    \A r \in Requests :
        "CancellationRequested" \in Range(vault.runs[r].log)
            => vault.runs[r].state \notin {"AwaitingTools", "ToolsSubmitted"}

\* AI_PROFILE_V1: "Restart moves unknown active calls to unknown".  It would
\* have to be able to, whatever the file holds.
RestartNeverBlocked == ~up => CanRestart(disk)
=============================================================================
