----------------------------- MODULE Publication -----------------------------
(***************************************************************************)
(* Publication of an AI profile: the Admin's drafts, revisions and outbox  *)
(* in PostgreSQL (backend/infra/src/ai.rs), the registrations in the vault *)
(* of ai-runtime (publication.rs) and the reconciliation passes between    *)
(* them (ai_publication_worker.rs).                                        *)
(*                                                                         *)
(* Each database transaction and each handler of the runtime is one step;  *)
(* a pass takes one step per await, so anything may happen between two of  *)
(* them.  A pass may be dropped wherever it waits (timeout, transport      *)
(* error, shutdown), and a registration it sent may still arrive.  Passes  *)
(* of an old and a new Admin process may overlap.                          *)
(*                                                                         *)
(* The payload of a publication is immutable (a trigger sees to it), so it *)
(* is named by its operation, and what the candidate takes from the proof  *)
(* by the proof.  Each save makes a new draft revision; the settings it    *)
(* holds are named by that revision.                                       *)
(***************************************************************************)
EXTENDS Naturals, FiniteSets

CONSTANTS
    Operations,      \* idempotency keys of PUT /api/v1/ai/selection
    Proofs,          \* ids of verifications
    Providers,
    Checkpointed,    \* providers whose tokens the checkpoint task saves
    Workers,         \* reconciliation passes that may overlap
    None,
    MaxDrafts,       \* bound: saves of a draft
    MaxGenerations,  \* bound: connections of a provider
    MaxLosses        \* bound: passes that are dropped

VARIABLES
    draft,        \* ai_provider_settings.draft_revision
    outbox,       \* ai_publication_outbox with its ai_profile_revisions row
    active,       \* ai_active_profile.revision, 0 for NULL
    connection,   \* VaultState.connections: the generation, 0 if there is none
    minted,       \* generations minted so far
    proof,        \* VaultState.verified_adapters
    expired,      \* proofs whose expires_at has passed
    registered,   \* VaultState.registered_revisions in memory
    file,         \* the same in the vault file
    ready,        \* auth_checkpoint_ready
    pass,         \* what each worker is about to do
    late,         \* registrations still travelling from dropped passes
    losses        \* passes dropped so far

database == <<draft, outbox, active>>
credentials == <<connection, minted, proof, expired, ready>>
registrations == <<registered, file>>
network == <<late, losses>>
vars == <<database, credentials, registrations, pass, network>>

-----------------------------------------------------------------------------
(* Types. *)

Rejection == {"draft_changed", "verification_expired", "runtime_rejected", "runtime_conflict"}

OutboxState == {"absent", "pending", "published", "rejected"}

PendingPublication ==
    [state : OutboxState, proof : Proofs \cup {None}, revision : Nat, expected : Nat,
     reason : Rejection \cup {None}]

Evidence == [provider : Providers, draft : Nat, generation : Nat]

Phase == {"idle", "asking", "absent", "registering", "acknowledged", "checked", "rejecting"}

Pass == [phase : Phase, operation : Operations \cup {None}, reason : Rejection \cup {None}]

ASSUME PublicationAssumption ==
    /\ Checkpointed \subseteq Providers
    /\ None \notin Operations \cup Proofs \cup Rejection \cup Evidence
    /\ MaxDrafts \in Nat /\ MaxGenerations \in Nat /\ MaxLosses \in Nat

NoPublication ==
    [state |-> "absent", proof |-> None, revision |-> 0, expected |-> 0, reason |-> None]

Idle == [phase |-> "idle", operation |-> None, reason |-> None]

Init ==
    /\ draft = [p \in Providers |-> 1]
    /\ outbox = [o \in Operations |-> NoPublication]
    /\ active = 0
    /\ connection = [p \in Providers |-> 0]
    /\ minted = [p \in Providers |-> 0]
    /\ proof = [e \in Proofs |-> None]
    /\ expired = {}
    /\ registered = {} /\ file = {}
    /\ ready = TRUE
    /\ pass = [w \in Workers |-> Idle]
    /\ late = [o \in Operations |-> 0]
    /\ losses = 0

State(o) == outbox[o].state

EvidenceOf(o) == proof[outbox[o].proof]

Fresh(o) == outbox[o].proof \notin expired

DraftUnchanged(o) == draft[EvidenceOf(o).provider] = EvidenceOf(o).draft

Connected(o) == connection[EvidenceOf(o).provider] # 0

Current(o) == connection[EvidenceOf(o).provider] = EvidenceOf(o).generation

\* The native authorisation is certain, or the provider has none.
Certain(o) == ready \/ EvidenceOf(o).provider \notin Checkpointed

-----------------------------------------------------------------------------
(* The Admin: save_draft and prepare_publication. *)

SaveDraft(p) ==
    /\ draft[p] < MaxDrafts
    /\ draft' = [draft EXCEPT ![p] = @ + 1]
    /\ UNCHANGED <<outbox, active, credentials, registrations, pass, network>>

\* If-Match names the draft the client saw: a stale one is a conflict.
SaveSettings(p, expected) ==
    /\ expected = draft[p]
    /\ SaveDraft(p)

\* Faulty variant: the slot is not looked at.
NonePendingUnchecked == TRUE

NonePending == \A o \in Operations : State(o) # "pending"

\* max(revision), or 0: rejected candidates retain their immutable ids.
Highest(n) ==
    /\ \E o \in Operations : outbox[o].revision = n
    /\ \A o \in Operations : outbox[o].revision <= n

\* The active revision is the one its client saw, and the evidence is fresh.
PublishProfile(current, seen, e) ==
    /\ current = seen
    /\ e \notin expired

\* A replay of an operation returns the stored profile: no step.
PreparePublication(o, e, seen) ==
    /\ State(o) = "absent"
    /\ NonePending
    /\ draft[proof[e].provider] = proof[e].draft
    /\ PublishProfile(active, seen, e)
    /\ \E n \in {active} \cup {outbox[q].revision : q \in Operations} :
          /\ Highest(n)
          /\ outbox' = [outbox EXCEPT ![o] =
                [state |-> "pending", proof |-> e, revision |-> n + 1,
                 expected |-> active, reason |-> None]]
    /\ UNCHANGED <<draft, active, credentials, registrations, pass, network>>

\* The runtime reads its proofs back as history, whatever their lifetime.
VerificationStatus(e) == proof[e]

\* The bridge passes on proofs of a saved draft and a connection only.
ValidVerification(evidence) == evidence.draft > 0 /\ evidence.generation > 0

\* The client names a verification, and the Admin asks the runtime for it: a
\* proof is never changed, so what happens before it prepares does not matter.
PublishSelection(o, e, seen) ==
    /\ VerificationStatus(e) # None
    /\ ValidVerification(VerificationStatus(e))
    /\ PreparePublication(o, e, seen)

\* The profile that consumers are given (GET /api/v1/runtime/ai).
Selected ==
    {o \in Operations : State(o) # "absent" /\ outbox[o].revision = active}

-----------------------------------------------------------------------------
(* The runtime: connections, proofs, the checkpoint task, restarts.  No    *)
(* code of the repository produces proofs yet.                             *)

\* A commit of the vault also rewrites what an earlier torn one left behind.
Connect(p) ==
    /\ connection[p] = 0 /\ minted[p] < MaxGenerations
    /\ minted' = [minted EXCEPT ![p] = @ + 1]
    /\ connection' = [connection EXCEPT ![p] = minted[p] + 1]
    /\ file' = registered
    /\ UNCHANGED <<database, proof, expired, ready, registered, pass, network>>

Disconnect(p) ==
    /\ connection[p] # 0
    /\ connection' = [connection EXCEPT ![p] = 0]
    /\ file' = registered
    /\ UNCHANGED <<database, minted, proof, expired, ready, registered, pass, network>>

Verify(p, e) ==
    /\ proof[e] = None /\ connection[p] # 0
    /\ proof' = [proof EXCEPT ![e] =
          [provider |-> p, draft |-> draft[p], generation |-> connection[p]]]
    /\ file' = registered
    /\ UNCHANGED <<database, connection, minted, expired, ready, registered, pass, network>>

Expires(e) ==
    /\ proof[e] # None /\ e \notin expired
    /\ expired' = expired \cup {e}
    /\ UNCHANGED <<database, connection, minted, proof, ready, registrations, pass, network>>

CheckpointEnds ==
    /\ ready
    /\ ready' = FALSE
    /\ UNCHANGED <<database, connection, minted, proof, expired, registrations, pass, network>>

\* A crash loses the memory; a power loss may undo a torn commit's rename.
RuntimeRestarts ==
    /\ registered' \in {registered, file}
    /\ file' = registered'
    /\ ready' = TRUE
    /\ UNCHANGED <<database, connection, minted, proof, expired, pass, network>>

(* register_revision. *)

RevisionTaken(o) ==
    \E q \in registered : outbox[q].revision = outbox[o].revision

\* Faulty variant: the runtime trusts the Admin's look at the clock.
AcceptsExpired(o) ==
    o \notin registered /\ ~RevisionTaken(o) /\ Current(o)

Accepts(o) ==
    o \notin registered /\ ~RevisionTaken(o) /\ Current(o) /\ Fresh(o)

\* Faulty variant: a commit that failed after its rename counts as done.
RegisterRevisionTorn(o, answer) ==
    /\ Certain(o) /\ Accepts(o) /\ answer = "receipt"
    /\ file' = registered \cup {o} /\ UNCHANGED registered

\* The certainty of the authorisation is the handler's look, before the lock.
RegisterRevision(o, answer) ==
    \/ ~Certain(o) /\ answer = "provider_unavailable" /\ UNCHANGED registrations
    \/ /\ Certain(o) /\ o \in registered
       /\ answer = "receipt" /\ UNCHANGED registrations
    \/ /\ Certain(o) /\ o \notin registered
       /\ RevisionTaken(o) \/ (Connected(o) /\ ~Current(o))
       /\ answer = "operation_conflict" /\ UNCHANGED registrations
    \/ /\ Certain(o) /\ o \notin registered /\ ~RevisionTaken(o)
       /\ ~Connected(o)
       /\ answer = "connection_not_configured" /\ UNCHANGED registrations
    \/ /\ Certain(o) /\ o \notin registered /\ ~RevisionTaken(o)
       /\ Current(o) /\ ~Fresh(o)
       /\ answer = "required_capability_not_verified" /\ UNCHANGED registrations
    \/ /\ Certain(o) /\ Accepts(o) /\ answer = "receipt"
       /\ registered' = registered \cup {o} /\ file' = registered \cup {o}
    \/ /\ Certain(o) /\ Accepts(o) /\ answer = "state_write_failed"
       /\ file' \in {file, registered \cup {o}} /\ UNCHANGED registered

RuntimeError ==
    {"provider_unavailable", "operation_conflict", "connection_not_configured",
     "required_capability_not_verified", "state_write_failed"}

\* RuntimeError::into_response.
HttpStatus ==
    [provider_unavailable |-> 503, operation_conflict |-> 409,
     connection_not_configured |-> 424, required_capability_not_verified |-> 424,
     state_write_failed |-> 500]

\* RuntimeClient::call: any other status is a protocol error.
BridgeError(status) ==
    IF status = 409 THEN "conflict"
    ELSE IF status = 422 THEN "rejected"
    ELSE IF status = 424 THEN "disconnected"
    ELSE IF status = 429 THEN "quota"
    ELSE IF status = 503 THEN "unavailable"
    ELSE "protocol"

\* A registration whose sender is gone; nobody reads the answer.
LateRegistration(o) ==
    /\ late[o] > 0
    /\ late' = [late EXCEPT ![o] = @ - 1]
    /\ \E answer \in {"receipt"} \cup RuntimeError : RegisterRevision(o, answer)
    /\ UNCHANGED <<database, credentials, pass, losses>>

-----------------------------------------------------------------------------
(* A pass of the worker: reconcile(). *)

In(w, phase) == pass[w].phase = phase

Operation(w) == pass[w].operation

Proceed(w, phase) == pass' = [pass EXCEPT ![w].phase = phase]

GiveUp(w) == pass' = [pass EXCEPT ![w] = Idle]

RejectFor(w, reason) ==
    pass' = [pass EXCEPT ![w].phase = "rejecting", ![w].reason = reason]

\* pending_publication.
StartPass(w) ==
    /\ In(w, "idle")
    /\ \E o \in Operations :
          /\ State(o) = "pending"
          /\ pass' = [pass EXCEPT ![w] = [phase |-> "asking", operation |-> o, reason |-> None]]
    /\ UNCHANGED <<database, credentials, registrations, network>>

\* registration_status.
ReadStatus(w) ==
    /\ In(w, "asking")
    /\ Proceed(w, IF Operation(w) \in registered THEN "acknowledged" ELSE "absent")
    /\ UNCHANGED <<database, credentials, registrations, network>>

\* Faulty variant: a proof that expired unregistered waits for an operator.
CheckEvidenceForever(w) ==
    /\ In(w, "absent")
    /\ \/ Fresh(Operation(w)) /\ Proceed(w, "registering")
       \/ ~Fresh(Operation(w)) /\ GiveUp(w)
    /\ UNCHANGED <<database, credentials, registrations, network>>

CheckEvidence(w) ==
    /\ In(w, "absent")
    /\ \/ Fresh(Operation(w)) /\ Proceed(w, "registering")
       \/ ~Fresh(Operation(w)) /\ RejectFor(w, "verification_expired")
    /\ UNCHANGED <<database, credentials, registrations, network>>

\* Without a confirmed outcome the publication stays pending.
DefinitiveRejection(error) ==
    IF error \in {"rejected", "disconnected"} THEN "runtime_rejected"
    ELSE IF error = "conflict" THEN "runtime_conflict"
    ELSE None

Register(w) ==
    /\ In(w, "registering")
    /\ \/ RegisterRevision(Operation(w), "receipt") /\ Proceed(w, "acknowledged")
       \/ \E answer \in RuntimeError :
             LET reason == DefinitiveRejection(BridgeError(HttpStatus[answer])) IN
             /\ RegisterRevision(Operation(w), answer)
             /\ \/ reason = None /\ GiveUp(w)
                \/ reason # None /\ RejectFor(w, reason)
    /\ UNCHANGED <<database, credentials, network>>

\* Faulty variant: an uncertain authorisation is a definitive rejection.
CheckConnectionHasty(w) ==
    LET o == Operation(w) IN
    /\ In(w, "acknowledged")
    /\ \/ (~Connected(o) \/ ~Certain(o)) /\ RejectFor(w, "runtime_rejected")
       \/ Connected(o) /\ ~Current(o) /\ RejectFor(w, "runtime_conflict")
       \/ Current(o) /\ Certain(o) /\ Proceed(w, "checked")
    /\ UNCHANGED <<database, credentials, registrations, network>>

\* current_connection, of what the runtime reports about its providers.
ConnectionLost(o, reason) ==
    \/ ~Connected(o) /\ reason = "runtime_rejected"
    \/ Connected(o) /\ ~Current(o) /\ reason = "runtime_conflict"

\* A receipt is history: the connection must be current.
CheckConnection(w) ==
    LET o == Operation(w) IN
    /\ In(w, "acknowledged")
    /\ \/ \E reason \in Rejection : ConnectionLost(o, reason) /\ RejectFor(w, reason)
       \/ Current(o) /\ ~Certain(o) /\ GiveUp(w)
       \/ Current(o) /\ Certain(o) /\ Proceed(w, "checked")
    /\ UNCHANGED <<database, credentials, registrations, network>>

Publish(o) ==
    /\ outbox' = [outbox EXCEPT ![o].state = "published"]
    /\ active' = outbox[o].revision

CompletePublication(w) ==
    LET o == Operation(w)
        moved == active # outbox[o].expected \/ ~DraftUnchanged(o) IN
    /\ In(w, "checked")
    /\ \/ /\ State(o) # "pending"
          /\ GiveUp(w) /\ UNCHANGED <<outbox, active>>
       \/ /\ State(o) = "pending" /\ moved
          /\ RejectFor(w, "draft_changed") /\ UNCHANGED <<outbox, active>>
       \/ /\ State(o) = "pending" /\ ~moved /\ ~Fresh(o)
          /\ RejectFor(w, "verification_expired") /\ UNCHANGED <<outbox, active>>
       \/ /\ State(o) = "pending" /\ ~moved /\ Fresh(o)
          /\ Publish(o) /\ GiveUp(w)
    /\ UNCHANGED <<draft, credentials, registrations, network>>

RejectPublication(w) ==
    /\ In(w, "rejecting")
    /\ \/ State(Operation(w)) # "pending" /\ UNCHANGED outbox
       \/ /\ State(Operation(w)) = "pending"
          /\ outbox' = [outbox EXCEPT ![Operation(w)].state = "rejected",
                                      ![Operation(w)].reason = pass[w].reason]
    /\ GiveUp(w)
    /\ UNCHANGED <<draft, active, credentials, registrations, network>>

\* The pass ends at an await: an error, a timeout of 55 s, or a shutdown.
Drop(w) ==
    /\ ~In(w, "idle") /\ losses < MaxLosses
    /\ losses' = losses + 1
    /\ \/ UNCHANGED late
       \/ In(w, "registering") /\ late' = [late EXCEPT ![Operation(w)] = @ + 1]
    /\ GiveUp(w)
    /\ UNCHANGED <<database, credentials, registrations>>

Reconcile(w) ==
    \/ StartPass(w) \/ ReadStatus(w) \/ CheckEvidence(w) \/ Register(w)
    \/ CheckConnection(w) \/ CompletePublication(w) \/ RejectPublication(w)

Next ==
    \/ \E p \in Providers, seen \in 1..MaxDrafts : SaveSettings(p, seen)
    \/ \E p \in Providers : Connect(p) \/ Disconnect(p)
    \/ \E p \in Providers, e \in Proofs : Verify(p, e)
    \/ \E o \in Operations, e \in Proofs :
          \E seen \in {0} \cup {outbox[q].revision : q \in Operations} :
             PublishSelection(o, e, seen)
    \/ \E e \in Proofs : Expires(e)
    \/ CheckpointEnds \/ RuntimeRestarts
    \/ \E o \in Operations : LateRegistration(o)
    \/ \E w \in Workers : Reconcile(w) \/ Drop(w)

Spec == Init /\ [][Next]_vars

\* The worker polls every 5 s, and proofs expire.  Only MaxLosses passes are
\* dropped; nothing is assumed of clients, of connections or of restarts.
Fairness ==
    /\ \A w \in Workers : WF_vars(Reconcile(w))
    /\ \A e \in Proofs : WF_vars(Expires(e))

FairSpec == Spec /\ Fairness

-----------------------------------------------------------------------------
(* Properties. *)

\* The shape of every variable; a pass in work has an operation, and knows
\* why it rejects.
TypeOK ==
    /\ draft \in [Providers -> Nat]
    /\ outbox \in [Operations -> PendingPublication]
    /\ active \in Nat
    /\ connection \in [Providers -> Nat] /\ minted \in [Providers -> Nat]
    /\ proof \in [Proofs -> Evidence \cup {None}]
    /\ expired \subseteq Proofs
    /\ registered \subseteq Operations /\ file \subseteq Operations
    /\ ready \in BOOLEAN
    /\ pass \in [Workers -> Pass]
    /\ \A w \in Workers :
          /\ pass[w].phase = "idle" <=> pass[w].operation = None
          /\ pass[w].phase = "rejecting" <=> pass[w].reason # None
    /\ late \in [Operations -> Nat] /\ losses \in Nat

\* "Only after the ACK is the active pointer set": whatever was published is
\* registered at the runtime, and stays so when the runtime restarts; consumers
\* are given one such profile from the first publication on.
PublishedDurable ==
    /\ \A o \in Operations : State(o) = "published" => o \in registered /\ o \in file
    /\ active # 0 => \E o \in registered \cap file : Selected = {o}

\* "One pending operation per workspace": while it is open the active pointer
\* is the one its client saw, so the compare-and-set of complete_publication
\* can only fail because the draft changed.
PendingExpectsActive ==
    \A o \in Operations : State(o) = "pending" =>
        /\ outbox[o].expected = active
        /\ \A q \in Operations \ {o} :
              State(q) # "pending" /\ outbox[q].revision < outbox[o].revision

\* "Never reuse a revision": no two candidates share one, and the active
\* pointer is NULL or names the published candidate with the highest one.
RevisionsUnique ==
    /\ \A o, q \in Operations :
          State(o) # "absent" /\ outbox[o].revision = outbox[q].revision => o = q
    /\ \A o \in Operations : State(o) = "published" => outbox[o].revision <= active
    /\ active = 0 \/ \E o \in Operations : State(o) = "published" /\ outbox[o].revision = active

Justified(o, reason) ==
    /\ reason \in Rejection
    /\ reason = "draft_changed" => ~DraftUnchanged(o)
    /\ reason = "verification_expired" => ~Fresh(o)
    /\ reason = "runtime_conflict" => ~Current(o)
    /\ reason = "runtime_rejected" => ~Current(o) \/ ~Fresh(o)

\* "Only a definitive rejection may release pending": the reason recorded is
\* true, and remains true, whichever pass found it and however late it wrote.
RejectionJustified ==
    \A o \in Operations : State(o) = "rejected" => Justified(o, outbox[o].reason)

\* A registration that was sent before a rejection and arrives after it does
\* not register the rejected candidate.
NoLateRegistration ==
    [][\A o \in Operations :
          State(o) = "rejected" /\ o \notin registered \cup file
              => o \notin registered' \cup file']_vars

\* "A repeat of a rejection does not change it": an outcome is final, and the
\* active pointer only moves to a higher revision.
OutcomeFinal ==
    [][/\ \A o \in Operations :
             State(o) \in {"published", "rejected"} => outbox'[o] = outbox[o]
       /\ active' >= active]_vars

\* A pending publication is published or rejected, unless the authorisation
\* of its provider becomes uncertain ("holds pending").
PublicationSettles ==
    \A o \in Operations :
        State(o) = "pending" ~> State(o) # "pending" \/ ~Certain(o)
=============================================================================
