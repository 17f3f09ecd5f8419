-------------------------- MODULE PublicationProofs --------------------------
(***************************************************************************)
(* Proofs about Publication, for any operations, proofs, providers and     *)
(* overlapping passes.                                                     *)
(*                                                                         *)
(* What a pass found out stays true until it is written down, since time   *)
(* only goes one way: drafts are saved on, proofs expire, generations are  *)
(* not minted again (Grows, FoundStays).  Every step but the three that    *)
(* write the outbox is an instance of Outside.                             *)
(***************************************************************************)
EXTENDS Publication, TLAPS

\* Connections and proofs are of generations that were minted, proofs of
\* drafts that were saved.
Ages ==
    /\ \A p \in Providers : connection[p] \in {0, minted[p]}
    /\ \A e \in Proofs : proof[e] # None =>
          /\ proof[e].generation \in 1..minted[proof[e].provider]
          /\ proof[e].draft <= draft[proof[e].provider]

Filed == registered \subseteq file

\* A receipt is never forgotten.
Acked ==
    \A w \in Workers :
        pass[w].phase \in {"acknowledged", "checked"} => pass[w].operation \in registered

Grounded(o) == outbox[o].proof \in Proofs /\ proof[outbox[o].proof] # None

\* Passes and late registrations are about candidates that exist.
Working ==
    /\ \A o \in Operations : State(o) # "absent" => Grounded(o)
    /\ \A w \in Workers : pass[w].phase # "idle" => State(pass[w].operation) # "absent"
    /\ \A o \in Operations : late[o] > 0 => State(o) # "absent"

\* A reason that is true; the draft is only compared once the registration is
\* acknowledged.
Found(o, reason) ==
    Justified(o, reason) /\ (reason = "draft_changed" => o \in registered)

Reasoned ==
    \A w \in Workers :
        pass[w].phase = "rejecting" => Found(pass[w].operation, pass[w].reason)

Recorded ==
    \A o \in Operations : State(o) = "rejected" => Found(o, outbox[o].reason)

\* The first half of PublishedDurable; the revisions give the second.
Kept ==
    \A o \in Operations : State(o) = "published" => o \in registered /\ o \in file

Inv ==
    /\ TypeOK /\ Ages /\ Filed /\ Acked /\ Working /\ Reasoned /\ Recorded
    /\ Kept /\ PendingExpectsActive /\ RevisionsUnique

\* What no step takes back.
Grows ==
    /\ \A p \in Providers :
          /\ draft'[p] \in Nat /\ draft[p] <= draft'[p]
          /\ connection'[p] = connection[p] \/ connection'[p] = 0
                \/ (connection'[p] \in Nat /\ connection'[p] > minted[p])
    /\ \A e \in Proofs : proof[e] # None => proof'[e] = proof[e]
    /\ expired \subseteq expired'

-----------------------------------------------------------------------------

\* A step that changes neither drafts nor credentials grows them.
LEMMA SameGrows ==
    ASSUME TypeOK, UNCHANGED draft, UNCHANGED connection, UNCHANGED proof, UNCHANGED expired
    PROVE  Grows
  BY DEF TypeOK, Grows

\* A reason that was found stays true while its candidate exists.
LEMMA FoundStays ==
    ASSUME TypeOK, Ages, Working, Grows, registered \subseteq registered'
    PROVE  \A o \in Operations : \A r \in Rejection :
              State(o) # "absent" /\ outbox'[o].proof = outbox[o].proof /\ Found(o, r)
                  => Found(o, r)'
  <1> SUFFICES ASSUME NEW o \in Operations, NEW r \in Rejection,
                      State(o) # "absent", outbox'[o].proof = outbox[o].proof, Found(o, r)
               PROVE  Found(o, r)'
    OBVIOUS
  <1> DEFINE e == outbox[o].proof
             p == proof[e].provider
  <1>1. e \in Proofs /\ proof[e] # None /\ proof'[e] = proof[e]
    BY DEF Working, Grounded, Grows
  <1>2. proof[e] \in Evidence
    BY <1>1 DEF TypeOK
  <1>3. p \in Providers /\ draft[p] \in Nat /\ minted[p] \in Nat
    BY <1>2 DEF TypeOK, Evidence
  <1>4. proof[e].generation \in 1..minted[p] /\ proof[e].draft <= draft[p]
        /\ proof[e].draft \in Nat /\ proof[e].generation \in Nat
    BY <1>1, <1>2 DEF Ages, Evidence
  <1>5. ~DraftUnchanged(o) => ~DraftUnchanged(o)'
    BY <1>1, <1>3, <1>4 DEF DraftUnchanged, EvidenceOf, Grows
  <1>6. ~Fresh(o) => ~Fresh(o)'
    BY DEF Fresh, Grows
  <1>7. ~Current(o) => ~Current(o)'
    BY <1>1, <1>3, <1>4 DEF Current, EvidenceOf, Grows
  <1> QED
    BY <1>5, <1>6, <1>7 DEF Found, Justified

\* Steps that leave the outbox and the active pointer alone.
LEMMA Outside ==
    ASSUME Inv, TypeOK', Ages', Grows, UNCHANGED outbox, UNCHANGED active,
           registered \subseteq registered', Filed', Acked', Working', Reasoned'
    PROVE  Inv'
  <1>1. Recorded'
    <2> SUFFICES ASSUME NEW o \in Operations, State(o)' = "rejected"
                 PROVE  Found(o, outbox[o].reason)'
      BY DEF Recorded
    <2>1. State(o) = "rejected" /\ outbox[o].reason = outbox'[o].reason
      BY DEF State, Inv
    <2>2. Found(o, outbox[o].reason) /\ outbox[o].reason \in Rejection
      BY <2>1 DEF Inv, Recorded, Found, Justified
    <2> QED
      BY <2>1, <2>2, FoundStays DEF Inv
  <1>2. Kept'
    BY DEF Inv, Kept, Filed, State
  <1>3. PendingExpectsActive' /\ RevisionsUnique'
    BY DEF Inv, PendingExpectsActive, RevisionsUnique, State
  <1> QED
    BY <1>1, <1>2, <1>3 DEF Inv

\* Steps that leave the passes alone as well.
LEMMA Environment ==
    ASSUME Inv, TypeOK', Ages', Grows, UNCHANGED outbox, UNCHANGED active,
           UNCHANGED pass, UNCHANGED late, registered \subseteq registered', Filed'
    PROVE  Inv'
  <1>1. Acked'
    BY DEF Inv, Acked
  <1>2. Working'
    BY DEF Inv, Working, Grounded, Grows, State
  <1>3. Reasoned'
    <2> SUFFICES ASSUME NEW w \in Workers, pass'[w].phase = "rejecting"
                 PROVE  Found(pass[w].operation, pass[w].reason)'
      BY DEF Reasoned
    <2>1. pass[w].operation \in Operations
      BY DEF Inv, TypeOK, Pass
    <2>2. State(pass[w].operation) # "absent"
      BY DEF Inv, Working
    <2>3. Found(pass[w].operation, pass[w].reason) /\ pass[w].reason \in Rejection
      BY DEF Inv, Reasoned, Found, Justified
    <2> QED
      BY <2>1, <2>2, <2>3, FoundStays DEF Inv
  <1> QED
    BY <1>1, <1>2, <1>3, Outside

-----------------------------------------------------------------------------
(* The steps of the Admin and of the runtime. *)

\* A draft only gets a higher revision.
LEMMA SaveDraftKeeps ==
    ASSUME Inv, NEW p \in Providers, SaveDraft(p)
    PROVE  Inv'
  <1> USE DEF SaveDraft, credentials, registrations, network
  <1>1. TypeOK'
    BY DEF Inv, TypeOK
  <1>2. Grows
    BY DEF Inv, TypeOK, Grows
  <1>3. Ages'
    BY DEF Inv, TypeOK, Ages, Evidence
  <1> QED
    BY <1>1, <1>2, <1>3, Environment DEF Inv, Filed

\* A new connection has a generation that was never minted before.
LEMMA ConnectKeeps ==
    ASSUME Inv, NEW p \in Providers, Connect(p)
    PROVE  Inv'
  <1> USE DEF Connect, database, network
  <1>1. TypeOK'
    BY DEF Inv, TypeOK
  <1>2. Grows
    BY DEF Inv, TypeOK, Grows
  <1>3. Ages'
    BY DEF Inv, TypeOK, Ages, Evidence
  <1> QED
    BY <1>1, <1>2, <1>3, Environment DEF Inv, Filed

\* A disconnect makes no generation current.
LEMMA DisconnectKeeps ==
    ASSUME Inv, NEW p \in Providers, Disconnect(p)
    PROVE  Inv'
  <1> USE DEF Disconnect, database, network
  <1>1. TypeOK'
    BY DEF Inv, TypeOK
  <1>2. Grows
    BY DEF Inv, TypeOK, Grows
  <1>3. Ages'
    BY DEF Inv, TypeOK, Ages
  <1> QED
    BY <1>1, <1>2, <1>3, Environment DEF Inv, Filed

\* A new proof is of the present draft and generation; no proof is replaced.
LEMMA VerifyKeeps ==
    ASSUME Inv, NEW p \in Providers, NEW e \in Proofs, Verify(p, e)
    PROVE  Inv'
  <1> USE DEF Verify, database, network
  <1> DEFINE new == [provider |-> p, draft |-> draft[p], generation |-> connection[p]]
  <1>1. new \in Evidence
    BY DEF Inv, TypeOK, Evidence
  <1>2. TypeOK'
    BY <1>1 DEF Inv, TypeOK
  <1>3. Grows
    BY DEF Inv, TypeOK, Grows
  <1>4. proof'[e] = new /\ \A f \in Proofs \ {e} : proof'[f] = proof[f]
    BY DEF Inv, TypeOK
  <1>5. connection[p] \in 1..minted[p]
    BY DEF Inv, Ages, TypeOK
  <1>6. Ages'
    BY <1>4, <1>5 DEF Inv, TypeOK, Ages
  <1> QED
    BY <1>2, <1>3, <1>6, Environment DEF Inv, Filed

\* No expired proof becomes fresh again.
LEMMA ExpiresKeeps ==
    ASSUME Inv, NEW e \in Proofs, Expires(e)
    PROVE  Inv'
  <1> USE DEF Expires, database, registrations, network
  <1>1. TypeOK'
    BY DEF Inv, TypeOK
  <1>2. Grows
    BY DEF Inv, TypeOK, Grows
  <1>3. Ages'
    BY DEF Inv, Ages
  <1> QED
    BY <1>1, <1>2, <1>3, Environment DEF Inv, Filed

\* The end of the checkpoint task touches neither side of a publication.
LEMMA CheckpointEndsKeeps ==
    ASSUME Inv, CheckpointEnds
    PROVE  Inv'
  <1> USE DEF CheckpointEnds, database, registrations, network
  <1>1. TypeOK'
    BY DEF Inv, TypeOK
  <1>2. Grows
    BY SameGrows DEF Inv
  <1>3. Ages'
    BY DEF Inv, Ages
  <1> QED
    BY <1>1, <1>2, <1>3, Environment DEF Inv, Filed

\* A restart of the runtime loses no receipt: the file has all of them.
LEMMA RestartKeeps ==
    ASSUME Inv, RuntimeRestarts
    PROVE  Inv'
  <1> USE DEF RuntimeRestarts, database, network
  <1>1. TypeOK'
    BY DEF Inv, TypeOK
  <1>2. Grows
    BY SameGrows DEF Inv
  <1>3. Ages'
    BY DEF Inv, Ages
  <1>4. registered \subseteq registered' /\ Filed'
    BY DEF Inv, Filed
  <1> QED
    BY <1>1, <1>2, <1>3, <1>4, Environment

-----------------------------------------------------------------------------
(* Registration. *)

\* Without a connection no generation is current.
LEMMA GenerationsPositive ==
    ASSUME Inv, NEW o \in Operations, State(o) # "absent"
    PROVE  ~Connected(o) => ~Current(o)
  <1>1. outbox[o].proof \in Proofs /\ proof[outbox[o].proof] # None
    BY DEF Inv, Working, Grounded
  <1>2. proof[outbox[o].proof].generation \in 1..minted[proof[outbox[o].proof].provider]
    BY <1>1 DEF Inv, Ages
  <1> QED
    BY <1>2 DEF Connected, Current, EvidenceOf

\* What the answers of register_revision mean.
LEMMA RegistrationAnswers ==
    ASSUME Inv, NEW o \in Operations, State(o) # "absent", NEW answer,
           RegisterRevision(o, answer)
    PROVE  /\ registered \subseteq registered' /\ Filed' /\ file' \subseteq Operations
           /\ answer = "receipt" => o \in registered'
           /\ answer = "operation_conflict" => ~Current(o)
           /\ answer \in {"connection_not_configured", "required_capability_not_verified"}
                => ~Current(o) \/ ~Fresh(o)
  <1>1. registered \subseteq Operations /\ file \subseteq Operations /\ Filed
    BY DEF Inv, TypeOK
  <1>2. registered \subseteq registered' /\ Filed' /\ file' \subseteq Operations
    BY <1>1 DEF RegisterRevision, registrations, Filed
  <1>3. answer = "receipt" => o \in registered'
    BY DEF RegisterRevision, registrations
  <1>4. RevisionTaken(o) => o \in registered
    BY <1>1 DEF RevisionTaken, Inv, RevisionsUnique
  <1>5. answer = "operation_conflict" => ~Current(o)
    BY <1>4 DEF RegisterRevision
  <1>6. answer \in {"connection_not_configured", "required_capability_not_verified"}
          => ~Current(o) \/ ~Fresh(o)
    BY GenerationsPositive DEF RegisterRevision
  <1> QED
    BY <1>2, <1>3, <1>5, <1>6

\* Which answers the worker takes for a definitive rejection.
LEMMA DefinitiveAnswers ==
    ASSUME NEW answer \in RuntimeError
    PROVE  LET reason == DefinitiveRejection(BridgeError(HttpStatus[answer])) IN
           \/ reason = None
           \/ answer = "operation_conflict" /\ reason = "runtime_conflict"
           \/ /\ answer \in {"connection_not_configured", "required_capability_not_verified"}
              /\ reason = "runtime_rejected"
  <1>1. CASE answer = "provider_unavailable"
    <2>1. HttpStatus[answer] = 503
      BY <1>1 DEF HttpStatus
    <2>2. BridgeError(503) = "unavailable"
      BY DEF BridgeError
    <2> QED
      BY <2>1, <2>2 DEF DefinitiveRejection
  <1>2. CASE answer = "operation_conflict"
    <2>1. HttpStatus[answer] = 409
      BY <1>2 DEF HttpStatus
    <2>2. BridgeError(409) = "conflict"
      BY DEF BridgeError
    <2> QED
      BY <1>2, <2>1, <2>2 DEF DefinitiveRejection
  <1>3. CASE answer \in {"connection_not_configured", "required_capability_not_verified"}
    <2>1. HttpStatus[answer] = 424
      BY <1>3 DEF HttpStatus
    <2>2. BridgeError(424) = "disconnected"
      BY DEF BridgeError
    <2> QED
      BY <1>3, <2>1, <2>2 DEF DefinitiveRejection
  <1>4. CASE answer = "state_write_failed"
    <2>1. HttpStatus[answer] = 500
      BY <1>4 DEF HttpStatus
    <2>2. BridgeError(500) = "protocol"
      BY DEF BridgeError
    <2> QED
      BY <2>1, <2>2 DEF DefinitiveRejection
  <1> QED
    BY <1>1, <1>2, <1>3, <1>4 DEF RuntimeError

\* A registration without a sender registers a candidate that exists.
LEMMA LateRegistrationKeeps ==
    ASSUME Inv, NEW o \in Operations, LateRegistration(o)
    PROVE  Inv'
  <1> USE DEF LateRegistration, database, credentials
  <1>1. State(o) # "absent"
    BY DEF Inv, Working
  <1>2. registered \subseteq registered' /\ Filed' /\ file' \subseteq Operations
    BY <1>1, RegistrationAnswers
  <1>3. late' \in [Operations -> Nat] /\ \A q \in Operations : late'[q] > 0 => late[q] > 0
    BY DEF Inv, TypeOK
  <1>4. TypeOK'
    BY <1>2, <1>3 DEF Inv, TypeOK, Filed
  <1>5. Grows
    BY SameGrows DEF Inv
  <1>6. Ages'
    BY DEF Inv, Ages
  <1>7. Acked'
    BY <1>2 DEF Inv, Acked
  <1>8. Working'
    BY <1>3 DEF Inv, Working, Grounded, State
  <1>9. Reasoned'
    BY <1>2 DEF Inv, Reasoned, Found, Justified, DraftUnchanged, Fresh, Current, EvidenceOf
  <1> QED
    BY <1>2, <1>4, <1>5, <1>6, <1>7, <1>8, <1>9, Outside

-----------------------------------------------------------------------------
(* Passes. *)

\* A step of one pass that writes nothing to the outbox.
LEMMA PassStep ==
    ASSUME Inv, NEW w \in Workers, NEW new \in Pass,
           pass' = [pass EXCEPT ![w] = new],
           UNCHANGED database, UNCHANGED credentials,
           registered \subseteq registered', Filed', file' \subseteq Operations,
           late' \in [Operations -> Nat], losses' \in Nat,
           \A o \in Operations : late'[o] > 0 => State(o) # "absent",
           new.phase = "idle" <=> new.operation = None,
           new.phase = "rejecting" <=> new.reason # None,
           new.phase # "idle" => State(new.operation) # "absent",
           new.phase \in {"acknowledged", "checked"} => new.operation \in registered',
           new.phase = "rejecting" =>
               /\ Justified(new.operation, new.reason)
               /\ new.reason = "draft_changed" => new.operation \in registered'
    PROVE  Inv'
  <1> USE DEF database, credentials
  <1>1. pass'[w] = new /\ \A v \in Workers \ {w} : pass'[v] = pass[v]
    BY DEF Inv, TypeOK
  <1>2. TypeOK'
    <2>1. pass' \in [Workers -> Pass]
      BY DEF Inv, TypeOK
    <2>2. \A v \in Workers : /\ pass'[v].phase = "idle" <=> pass'[v].operation = None
                             /\ pass'[v].phase = "rejecting" <=> pass'[v].reason # None
      BY <1>1 DEF Inv, TypeOK
    <2> QED
      BY <2>1, <2>2 DEF Inv, TypeOK, Filed
  <1>3. Grows
    BY SameGrows DEF Inv
  <1>4. Ages'
    BY DEF Inv, Ages
  <1>5. Acked'
    BY <1>1 DEF Inv, Acked
  <1>6. Working'
    BY <1>1 DEF Inv, Working, Grounded, State
  <1>7. Reasoned'
    <2>1. \A o, r : Justified(o, r) => Justified(o, r)'
      BY DEF Justified, DraftUnchanged, Fresh, Current, EvidenceOf
    <2>2. new.phase = "rejecting" => Found(new.operation, new.reason)'
      BY <2>1 DEF Found
    <2>3. ASSUME NEW v \in Workers \ {w}, pass[v].phase = "rejecting"
          PROVE  Found(pass[v].operation, pass[v].reason)'
      <3>1. Found(pass[v].operation, pass[v].reason)
        BY <2>3 DEF Inv, Reasoned
      <3>2. pass'[v] = pass[v]
        BY <1>1
      <3> QED
        BY <2>1, <3>1, <3>2 DEF Found
    <2> QED
      BY <1>1, <2>2, <2>3 DEF Reasoned
  <1> QED
    BY <1>2, <1>3, <1>4, <1>5, <1>6, <1>7, Outside

\* A pass that waits has a candidate.
LEMMA PassWorks ==
    ASSUME Inv, NEW w \in Workers, pass[w].phase # "idle"
    PROVE  /\ pass[w].operation \in Operations
           /\ State(pass[w].operation) # "absent"
           /\ pass[w] = [phase |-> pass[w].phase, operation |-> pass[w].operation,
                         reason |-> pass[w].reason]
  BY DEF Inv, TypeOK, Pass, Working

\* The invariant's account of the network.
LEMMA LateExist ==
    ASSUME Inv
    PROVE  /\ late \in [Operations -> Nat] /\ losses \in Nat
           /\ \A o \in Operations : late[o] > 0 => State(o) # "absent"
           /\ Filed /\ file \subseteq Operations
  BY DEF Inv, TypeOK, Working

\* A pass starts with a candidate that is pending.
LEMMA StartPassKeeps ==
    ASSUME Inv, NEW w \in Workers, StartPass(w)
    PROVE  Inv'
  <1> PICK o \in Operations :
          /\ State(o) = "pending"
          /\ pass' = [pass EXCEPT ![w] = [phase |-> "asking", operation |-> o, reason |-> None]]
    BY DEF StartPass
  <1> DEFINE new == [phase |-> "asking", operation |-> o, reason |-> None]
  <1>1. new \in Pass /\ o # None
    BY PublicationAssumption DEF Pass, Phase
  <1>2. UNCHANGED <<database, credentials, registered, file, late, losses>>
    BY DEF StartPass, registrations, network
  <1> QED
    BY <1>1, <1>2, LateExist, PassStep DEF Filed

\* The three ways a pass goes on.
LEMMA PassMoves ==
    ASSUME Inv, NEW w \in Workers, pass[w].phase # "idle"
    PROVE  /\ \A f \in Phase : Proceed(w, f) =>
                 pass' = [pass EXCEPT ![w] =
                    [phase |-> f, operation |-> pass[w].operation, reason |-> pass[w].reason]]
           /\ \A r \in Rejection : RejectFor(w, r) =>
                 pass' = [pass EXCEPT ![w] =
                    [phase |-> "rejecting", operation |-> pass[w].operation, reason |-> r]]
           /\ GiveUp(w) => pass' = [pass EXCEPT ![w] = Idle]
  <1>1. pass \in [Workers -> Pass]
    BY DEF Inv, TypeOK
  <1>2. \A f \in Phase : Proceed(w, f) =>
            pass' = [pass EXCEPT ![w] =
                [phase |-> f, operation |-> pass[w].operation, reason |-> pass[w].reason]]
    BY <1>1 DEF Proceed, Pass
  <1>3. \A r \in Rejection : RejectFor(w, r) =>
            pass' = [pass EXCEPT ![w] =
                [phase |-> "rejecting", operation |-> pass[w].operation, reason |-> r]]
    <2> TAKE r \in Rejection
    <2> HAVE RejectFor(w, r)
    <2> DEFINE mid == [pass EXCEPT ![w].phase = "rejecting"]
               new == [phase |-> "rejecting", operation |-> pass[w].operation, reason |-> r]
    <2>1. pass' = [mid EXCEPT ![w].reason = r]
      BY DEF RejectFor
    <2>2. mid[w] = [phase |-> "rejecting", operation |-> pass[w].operation,
                    reason |-> pass[w].reason]
          /\ DOMAIN mid = Workers /\ \A v \in Workers \ {w} : mid[v] = pass[v]
      BY <1>1 DEF Pass
    <2>3. pass'[w] = new /\ DOMAIN pass' = Workers
          /\ \A v \in Workers \ {w} : pass'[v] = pass[v]
      BY <2>1, <2>2
    <2>4. pass' = [v \in Workers |-> IF v = w THEN new ELSE pass[v]]
      BY <2>1, <2>2, <2>3
    <2> QED
      BY <1>1, <2>4
  <1> QED
    BY <1>2, <1>3 DEF GiveUp

\* A pass that gives up, proceeds or has found a reason keeps the invariant.
LEMMA Moves ==
    ASSUME Inv, NEW w \in Workers, pass[w].phase \notin {"idle", "rejecting"},
           UNCHANGED database, UNCHANGED credentials,
           UNCHANGED late, UNCHANGED losses,
           registered \subseteq registered', Filed', file' \subseteq Operations,
           \/ GiveUp(w)
           \/ \E f \in {"absent", "registering"} : Proceed(w, f)
           \/ /\ \E f \in {"acknowledged", "checked"} : Proceed(w, f)
              /\ pass[w].operation \in registered'
           \/ \E r \in Rejection :
                 /\ RejectFor(w, r) /\ Justified(pass[w].operation, r)
                 /\ r = "draft_changed" => pass[w].operation \in registered'
    PROVE  Inv'
  <1> DEFINE o == pass[w].operation
             Go(f) == [phase |-> f, operation |-> o, reason |-> pass[w].reason]
             No(r) == [phase |-> "rejecting", operation |-> o, reason |-> r]
  <1>1. o \in Operations /\ State(o) # "absent" /\ o # None
    BY PassWorks, PublicationAssumption
  <1>2. pass[w].reason = None
    BY DEF Inv, TypeOK
  <1>3. CASE GiveUp(w)
    <2>1. pass' = [pass EXCEPT ![w] = Idle]
      BY <1>3, PassMoves
    <2>2. Idle \in Pass /\ Idle.phase = "idle" /\ Idle.operation = None /\ Idle.reason = None
      BY DEF Idle, Pass, Phase
    <2> QED
      BY <2>1, <2>2, LateExist, PassStep
  <1>4. ASSUME NEW f \in {"absent", "registering", "acknowledged", "checked"}, Proceed(w, f),
               f \in {"acknowledged", "checked"} => o \in registered'
        PROVE  Inv'
    <2>1. pass' = [pass EXCEPT ![w] = Go(f)]
      BY <1>4, PassMoves DEF Phase
    <2>2. Go(f) \in Pass
      BY <1>1, <1>2 DEF Pass, Phase
    <2>3. Go(f).phase = f /\ Go(f).operation = o /\ Go(f).reason = None
      BY <1>2
    <2> HIDE DEF Go
    <2> QED
      BY <1>1, <1>4, <2>1, <2>2, <2>3, LateExist, PassStep
  <1>5. ASSUME NEW r \in Rejection, RejectFor(w, r), Justified(o, r),
               r = "draft_changed" => o \in registered'
        PROVE  Inv'
    <2>1. pass' = [pass EXCEPT ![w] = No(r)]
      BY <1>5, PassMoves
    <2>2. No(r) \in Pass /\ r # None
      BY <1>1, PublicationAssumption DEF Pass, Phase
    <2>3. No(r).phase = "rejecting" /\ No(r).operation = o /\ No(r).reason = r
      OBVIOUS
    <2> HIDE DEF No
    <2> QED
      BY <1>1, <1>5, <2>1, <2>2, <2>3, LateExist, PassStep
  <1> QED
    BY <1>3, <1>4, <1>5

\* A status readback sees a receipt only if there is one.
LEMMA ReadStatusKeeps ==
    ASSUME Inv, NEW w \in Workers, ReadStatus(w)
    PROVE  Inv'
  <1>1. UNCHANGED database /\ UNCHANGED credentials /\ UNCHANGED registered
        /\ UNCHANGED file /\ UNCHANGED late /\ UNCHANGED losses
    BY DEF ReadStatus, registrations, network
  <1>2. pass[w].phase \notin {"idle", "rejecting"}
    BY DEF ReadStatus, In
  <1>3. \/ pass[w].operation \in registered' /\ Proceed(w, "acknowledged")
        \/ Proceed(w, "absent")
    BY <1>1 DEF ReadStatus, Operation
  <1> QED
    BY <1>1, <1>2, <1>3, LateExist, Moves DEF Filed

\* A pass rejects an unregistered candidate only if its proof has expired.
LEMMA CheckEvidenceKeeps ==
    ASSUME Inv, NEW w \in Workers, CheckEvidence(w)
    PROVE  Inv'
  <1>1. UNCHANGED database /\ UNCHANGED credentials /\ UNCHANGED registered
        /\ UNCHANGED file /\ UNCHANGED late /\ UNCHANGED losses
    BY DEF CheckEvidence, registrations, network
  <1>2. pass[w].phase \notin {"idle", "rejecting"}
    BY DEF CheckEvidence, In
  <1>3. \/ Proceed(w, "registering")
        \/ RejectFor(w, "verification_expired")
           /\ Justified(pass[w].operation, "verification_expired")
    BY DEF CheckEvidence, Operation, Justified, Rejection
  <1>4. "verification_expired" \in Rejection
    BY DEF Rejection
  <1> QED
    BY <1>1, <1>2, <1>3, <1>4, LateExist, Moves DEF Filed

\* The answer to a registration means the same when it is acted upon.
LEMMA RegisterKeeps ==
    ASSUME Inv, NEW w \in Workers, Register(w)
    PROVE  Inv'
  <1> DEFINE o == pass[w].operation
  <1>1. UNCHANGED database /\ UNCHANGED credentials /\ UNCHANGED late /\ UNCHANGED losses
    BY DEF Register, network
  <1>2. pass[w].phase \notin {"idle", "rejecting"}
    BY DEF Register, In
  <1>3. o \in Operations /\ State(o) # "absent"
    BY <1>2, PassWorks
  <1>4. \/ RegisterRevision(o, "receipt") /\ Proceed(w, "acknowledged")
        \/ RegisterRevision(o, "operation_conflict") /\ RejectFor(w, "runtime_conflict")
        \/ RegisterRevision(o, "connection_not_configured") /\ RejectFor(w, "runtime_rejected")
        \/ /\ RegisterRevision(o, "required_capability_not_verified")
           /\ RejectFor(w, "runtime_rejected")
        \/ (\E answer \in RuntimeError : RegisterRevision(o, answer)) /\ GiveUp(w)
    <2>1. CASE \E answer \in RuntimeError :
                  LET reason == DefinitiveRejection(BridgeError(HttpStatus[answer])) IN
                  /\ RegisterRevision(o, answer)
                  /\ \/ reason = None /\ GiveUp(w)
                     \/ reason # None /\ RejectFor(w, reason)
      <3>1. PICK answer \in RuntimeError :
                  LET reason == DefinitiveRejection(BridgeError(HttpStatus[answer])) IN
                  /\ RegisterRevision(o, answer)
                  /\ \/ reason = None /\ GiveUp(w)
                     \/ reason # None /\ RejectFor(w, reason)
        BY <2>1
      <3> DEFINE reason == DefinitiveRejection(BridgeError(HttpStatus[answer]))
      <3>2. \/ reason = None
            \/ answer = "operation_conflict" /\ reason = "runtime_conflict"
            \/ /\ answer \in {"connection_not_configured", "required_capability_not_verified"}
               /\ reason = "runtime_rejected"
        BY DefinitiveAnswers
      <3> HIDE DEF reason
      <3>3. /\ RegisterRevision(o, answer)
            /\ \/ reason = None /\ GiveUp(w)
               \/ reason # None /\ RejectFor(w, reason)
        BY <3>1 DEF reason
      <3> QED
        BY <3>2, <3>3
    <2> QED
      BY <2>1 DEF Register, Operation
  <1>5. /\ registered \subseteq registered' /\ Filed' /\ file' \subseteq Operations
        /\ RegisterRevision(o, "receipt") => o \in registered'
        /\ RegisterRevision(o, "operation_conflict") => Justified(o, "runtime_conflict")
        /\ RegisterRevision(o, "connection_not_configured") => Justified(o, "runtime_rejected")
        /\ RegisterRevision(o, "required_capability_not_verified")
              => Justified(o, "runtime_rejected")
    BY <1>3, <1>4, RegistrationAnswers DEF Justified, Rejection
  <1>6. "runtime_conflict" \in Rejection /\ "runtime_rejected" \in Rejection
    BY DEF Rejection
  <1> QED
    BY <1>1, <1>2, <1>4, <1>5, <1>6, Moves

\* A pass rejects a registered candidate only if its generation is gone.
LEMMA CheckConnectionKeeps ==
    ASSUME Inv, NEW w \in Workers, CheckConnection(w)
    PROVE  Inv'
  <1> DEFINE o == pass[w].operation
  <1>1. UNCHANGED database /\ UNCHANGED credentials /\ UNCHANGED registered
        /\ UNCHANGED file /\ UNCHANGED late /\ UNCHANGED losses
    BY DEF CheckConnection, registrations, network
  <1>2. pass[w].phase = "acknowledged"
    BY DEF CheckConnection, In
  <1>3. o \in Operations /\ State(o) # "absent" /\ o \in registered'
    BY <1>1, <1>2, PassWorks DEF Inv, Acked
  <1>4. \/ RejectFor(w, "runtime_rejected") /\ Justified(o, "runtime_rejected")
        \/ RejectFor(w, "runtime_conflict") /\ Justified(o, "runtime_conflict")
        \/ GiveUp(w)
        \/ Proceed(w, "checked")
    BY <1>3, GenerationsPositive
    DEF CheckConnection, ConnectionLost, Operation, Justified, Rejection
  <1>5. "runtime_conflict" \in Rejection /\ "runtime_rejected" \in Rejection
    BY DEF Rejection
  <1> QED
    BY <1>1, <1>2, <1>3, <1>4, <1>5, LateExist, Moves DEF Filed

\* A dropped pass leaves at most a registration of an existing candidate.
LEMMA DropKeeps ==
    ASSUME Inv, NEW w \in Workers, Drop(w)
    PROVE  Inv'
  <1> DEFINE o == pass[w].operation
  <1>1. UNCHANGED database /\ UNCHANGED credentials /\ UNCHANGED registered /\ UNCHANGED file
    BY DEF Drop, registrations
  <1>2. o \in Operations /\ State(o) # "absent" /\ pass[w].phase # "idle"
    BY PassWorks DEF Drop, In
  <1>3. late' \in [Operations -> Nat] /\ losses' \in Nat
        /\ \A q \in Operations : late'[q] > 0 => State(q) # "absent"
    BY <1>2, LateExist DEF Drop, Operation
  <1>4. pass' = [pass EXCEPT ![w] = Idle]
    BY DEF Drop, GiveUp
  <1>5. Idle \in Pass /\ Idle.phase = "idle" /\ Idle.operation = None /\ Idle.reason = None
    BY DEF Idle, Pass, Phase
  <1> QED
    BY <1>1, <1>3, <1>4, <1>5, LateExist, PassStep DEF Filed

-----------------------------------------------------------------------------
(* The three transactions on the outbox. *)

\* A prepared candidate takes a new revision and the free slot.
LEMMA PreparePublicationKeeps ==
    ASSUME Inv, NEW o \in Operations, NEW e \in Proofs, NEW seen, PublishSelection(o, e, seen)
    PROVE  Inv'
  <1> USE DEF PublishSelection, VerificationStatus
  <1>1. PICK n \in {active} \cup {outbox[q].revision : q \in Operations} :
          /\ Highest(n)
          /\ outbox' = [outbox EXCEPT ![o] =
                [state |-> "pending", proof |-> e, revision |-> n + 1,
                 expected |-> active, reason |-> None]]
    BY DEF PreparePublication
  <1> DEFINE new == [state |-> "pending", proof |-> e, revision |-> n + 1,
                     expected |-> active, reason |-> None]
  <1>2. /\ UNCHANGED draft /\ UNCHANGED active /\ UNCHANGED credentials
        /\ UNCHANGED registered /\ UNCHANGED file
        /\ UNCHANGED pass /\ UNCHANGED late /\ UNCHANGED losses
    BY DEF PreparePublication, registrations, network
  <1>3. State(o) = "absent" /\ NonePending /\ proof[e] # None
    BY DEF PreparePublication
  <1>4. n \in Nat /\ \A q \in Operations : outbox[q].revision \in Nat /\ outbox[q].revision <= n
    BY <1>1 DEF Inv, TypeOK, PendingPublication, Highest
  <1>5. new \in PendingPublication
    BY <1>4 DEF Inv, TypeOK, PendingPublication, OutboxState
  <1>6. outbox'[o] = new /\ \A q \in Operations \ {o} : outbox'[q] = outbox[q]
    BY <1>1 DEF Inv, TypeOK
  <1>7. TypeOK'
    BY <1>1, <1>2, <1>5 DEF Inv, TypeOK, credentials
  <1>8. Ages' /\ Filed' /\ Acked'
    BY <1>2 DEF Inv, Ages, Filed, Acked, credentials
  <1>9. Working'
    <2>1. UNCHANGED proof
      BY <1>2 DEF credentials
    <2>2. \A q \in Operations : State(q)' # "absent" => Grounded(q)'
      BY <1>3, <1>6, <2>1 DEF Inv, Working, Grounded, State
    <2>3. \A q \in Operations : State(q) # "absent" => State(q)' # "absent"
      BY <1>3, <1>6 DEF State
    <2>4. \A v \in Workers : pass'[v].phase # "idle" => State(pass[v].operation)' # "absent"
      BY <1>2, <2>3, PassWorks
    <2>5. \A q \in Operations : late'[q] > 0 => State(q)' # "absent"
      BY <1>2, <2>3 DEF Inv, Working
    <2> QED
      BY <1>2, <2>2, <2>4, <2>5 DEF Working
  <1>10. \A q \in Operations \ {o} : \A r : Found(q, r) => Found(q, r)'
    BY <1>2, <1>6 DEF Found, Justified, DraftUnchanged, Fresh, Current, EvidenceOf, credentials
  <1>11. Reasoned'
    <2> SUFFICES ASSUME NEW w \in Workers, pass[w].phase = "rejecting"
                 PROVE  Found(pass[w].operation, pass[w].reason)'
      BY <1>2 DEF Reasoned
    <2>1. pass[w].operation \in Operations \ {o}
      BY <1>3, PassWorks
    <2> QED
      BY <1>2, <1>10, <2>1 DEF Inv, Reasoned
  <1>12. Recorded'
    <2> SUFFICES ASSUME NEW q \in Operations, outbox'[q].state = "rejected"
                 PROVE  Found(q, outbox[q].reason)'
      BY DEF Recorded, State
    <2>1. q # o /\ outbox'[q] = outbox[q]
      BY <1>6
    <2> QED
      BY <1>10, <2>1 DEF Inv, Recorded, State
  <1>13. Kept'
    BY <1>2, <1>6 DEF Inv, Kept, State
  <1>14. PendingExpectsActive'
    BY <1>2, <1>3, <1>4, <1>6 DEF PendingExpectsActive, State, NonePending
  <1>15. RevisionsUnique'
    BY <1>2, <1>3, <1>4, <1>6 DEF Inv, RevisionsUnique, State
  <1> QED
    BY <1>7, <1>8, <1>9, <1>11, <1>12, <1>13, <1>14, <1>15 DEF Inv

\* A pass that ends by writing the outcome of its pending publication.
LEMMA Ending ==
    ASSUME Inv, NEW w \in Workers, NEW o \in Operations, NEW new \in PendingPublication,
           State(o) = "pending", outbox' = [outbox EXCEPT ![o] = new],
           pass' = [pass EXCEPT ![w] = Idle],
           UNCHANGED draft, UNCHANGED credentials, UNCHANGED registrations, UNCHANGED network,
           new.proof = outbox[o].proof, new.revision = outbox[o].revision,
           \/ new.state = "published" /\ active' = outbox[o].revision /\ o \in registered
           \/ new.state = "rejected" /\ active' = active /\ Found(o, new.reason)
    PROVE  Inv'
  <1> USE DEF credentials, registrations, network
  <1>1. outbox'[o] = new /\ \A q \in Operations \ {o} : outbox'[q] = outbox[q]
    BY DEF Inv, TypeOK
  <1>2. pass'[w] = Idle /\ \A v \in Workers \ {w} : pass'[v] = pass[v]
    BY DEF Inv, TypeOK
  <1>3. Idle \in Pass /\ Idle.phase = "idle" /\ Idle.operation = None /\ Idle.reason = None
    BY DEF Idle, Pass, Phase
  <1>4. outbox[o].revision \in Nat /\ active \in Nat
    BY DEF Inv, TypeOK, PendingPublication
  <1>5. TypeOK'
    <2>1. outbox' \in [Operations -> PendingPublication] /\ pass' \in [Workers -> Pass]
      BY <1>3 DEF Inv, TypeOK
    <2>2. \A v \in Workers : /\ pass'[v].phase = "idle" <=> pass'[v].operation = None
                             /\ pass'[v].phase = "rejecting" <=> pass'[v].reason # None
      BY <1>2, <1>3 DEF Inv, TypeOK
    <2>3. active' \in Nat
      BY <1>4
    <2> QED
      BY <2>1, <2>2, <2>3 DEF Inv, TypeOK
  <1>6. Ages' /\ Filed'
    BY DEF Inv, Ages, Filed
  <1>7. Acked'
    BY <1>2, <1>3 DEF Inv, Acked
  <1>8. Working'
    BY <1>1, <1>2, <1>3 DEF Inv, Working, Grounded, State
  <1>9. \A q \in Operations : \A r : Found(q, r) => Found(q, r)'
    BY <1>1 DEF Found, Justified, DraftUnchanged, Fresh, Current, EvidenceOf
  <1>10. Reasoned'
    <2> SUFFICES ASSUME NEW v \in Workers, pass'[v].phase = "rejecting"
                 PROVE  Found(pass[v].operation, pass[v].reason)'
      BY DEF Reasoned
    <2>1. v # w /\ pass'[v] = pass[v]
      BY <1>2, <1>3
    <2>2. pass[v].operation \in Operations
      BY <2>1, PassWorks
    <2> QED
      BY <1>9, <2>1, <2>2 DEF Inv, Reasoned
  <1>11. Recorded'
    <2> SUFFICES ASSUME NEW q \in Operations, outbox'[q].state = "rejected"
                 PROVE  Found(q, outbox[q].reason)'
      BY DEF Recorded, State
    <2>1. Found(q, outbox'[q].reason)
      BY <1>1 DEF Inv, Recorded, State
    <2> QED
      BY <1>9, <2>1
  <1>12. Kept'
    BY <1>1 DEF Inv, Kept, Filed, State
  <1>13. PendingExpectsActive'
    BY <1>1 DEF Inv, PendingExpectsActive, State
  <1>14. RevisionsUnique'
    <2>1. \A p, q \in Operations :
              State(p)' # "absent" /\ outbox'[p].revision = outbox'[q].revision => p = q
      BY <1>1 DEF Inv, RevisionsUnique, State
    <2>2. \A q \in Operations \ {o} : outbox[q].revision < outbox[o].revision
      BY DEF Inv, PendingExpectsActive
    <2>3. \A q \in Operations : State(q)' = "published" => outbox'[q].revision <= active'
      BY <1>1, <1>4, <2>2 DEF Inv, RevisionsUnique, State, TypeOK, PendingPublication
    <2>4. active' = 0 \/ \E q \in Operations : State(q)' = "published" /\ outbox'[q].revision = active'
      BY <1>1 DEF Inv, RevisionsUnique, State
    <2> QED
      BY <2>1, <2>3, <2>4 DEF RevisionsUnique, State
  <1> QED
    BY <1>5, <1>6, <1>7, <1>8, <1>10, <1>11, <1>12, <1>13, <1>14 DEF Inv

\* A completion publishes the registered pending candidate, or finds a true reason
\* against it.
LEMMA CompletePublicationKeeps ==
    ASSUME Inv, NEW w \in Workers, CompletePublication(w)
    PROVE  Inv'
  <1> DEFINE o == pass[w].operation
             new == [outbox[o] EXCEPT !.state = "published"]
  <1>1. /\ UNCHANGED draft /\ UNCHANGED credentials /\ UNCHANGED registrations
        /\ UNCHANGED network /\ UNCHANGED registered /\ UNCHANGED file
        /\ UNCHANGED late /\ UNCHANGED losses
    BY DEF CompletePublication, registrations, network
  <1>2. pass[w].phase = "checked"
    BY DEF CompletePublication, In
  <1>3. o \in Operations /\ State(o) # "absent" /\ o \in registered
    BY <1>2, PassWorks DEF Inv, Acked
  <1>4. State(o) = "pending" => outbox[o].expected = active
    BY <1>3 DEF Inv, PendingExpectsActive
  <1>5. \/ UNCHANGED outbox /\ UNCHANGED active /\ GiveUp(w)
        \/ UNCHANGED outbox /\ UNCHANGED active
           /\ RejectFor(w, "draft_changed") /\ Justified(o, "draft_changed")
        \/ UNCHANGED outbox /\ UNCHANGED active
           /\ RejectFor(w, "verification_expired") /\ Justified(o, "verification_expired")
        \/ State(o) = "pending" /\ Publish(o) /\ GiveUp(w)
    BY <1>4 DEF CompletePublication, Operation, Justified, Rejection
  <1>6. CASE UNCHANGED outbox /\ UNCHANGED active
    <2>1. UNCHANGED database
      BY <1>1, <1>6 DEF database
    <2>2. "draft_changed" \in Rejection /\ "verification_expired" \in Rejection
      BY DEF Rejection
    <2>3. \/ GiveUp(w)
          \/ RejectFor(w, "draft_changed") /\ Justified(o, "draft_changed")
          \/ RejectFor(w, "verification_expired") /\ Justified(o, "verification_expired")
      BY <1>5
    <2> QED
      BY <1>1, <1>2, <1>3, <2>1, <2>2, <2>3, LateExist, Moves DEF Filed
  <1>7. CASE State(o) = "pending" /\ Publish(o) /\ GiveUp(w)
    <2>1. outbox[o] \in PendingPublication
      BY <1>3 DEF Inv, TypeOK
    <2>2. new \in PendingPublication /\ new.state = "published"
          /\ new.proof = outbox[o].proof /\ new.revision = outbox[o].revision
      BY <2>1 DEF PendingPublication, OutboxState
    <2>3. outbox' = [outbox EXCEPT ![o] = new] /\ active' = outbox[o].revision
      BY <1>3, <1>7 DEF Publish, Inv, TypeOK
    <2>4. pass' = [pass EXCEPT ![w] = Idle]
      BY <1>7 DEF GiveUp
    <2> HIDE DEF new
    <2> QED
      BY <1>1, <1>3, <1>7, <2>2, <2>3, <2>4, Ending
  <1> QED
    BY <1>5, <1>6, <1>7

\* A rejection records the reason its pass found, or comes too late.
LEMMA RejectPublicationKeeps ==
    ASSUME Inv, NEW w \in Workers, RejectPublication(w)
    PROVE  Inv'
  <1> DEFINE o == pass[w].operation
             r == pass[w].reason
             new == [state |-> "rejected", proof |-> outbox[o].proof,
                     revision |-> outbox[o].revision, expected |-> outbox[o].expected,
                     reason |-> r]
  <1>1. /\ UNCHANGED draft /\ UNCHANGED active /\ UNCHANGED credentials
        /\ UNCHANGED registrations /\ UNCHANGED network
        /\ UNCHANGED registered /\ UNCHANGED file /\ UNCHANGED late /\ UNCHANGED losses
    BY DEF RejectPublication, registrations, network
  <1>2. pass[w].phase = "rejecting" /\ pass' = [pass EXCEPT ![w] = Idle]
    BY DEF RejectPublication, In, GiveUp
  <1>3. o \in Operations /\ Found(o, r)
    BY <1>2, PassWorks DEF Inv, Reasoned
  <1>4. CASE UNCHANGED outbox
    <2>1. UNCHANGED database
      BY <1>1, <1>4 DEF database
    <2>2. Idle \in Pass /\ Idle.phase = "idle" /\ Idle.operation = None /\ Idle.reason = None
      BY DEF Idle, Pass, Phase
    <2> QED
      BY <1>1, <1>2, <2>1, <2>2, LateExist, PassStep DEF Filed
  <1>5. CASE /\ State(o) = "pending"
             /\ outbox' = [outbox EXCEPT ![o].state = "rejected", ![o].reason = r]
    <2>1. outbox[o] \in PendingPublication /\ r \in Rejection
      BY <1>3 DEF Inv, TypeOK, Found, Justified
    <2>2. new \in PendingPublication
      BY <2>1 DEF PendingPublication, OutboxState
    <2>3. [outbox[o] EXCEPT !.state = "rejected"] =
              [state |-> "rejected", proof |-> outbox[o].proof,
               revision |-> outbox[o].revision, expected |-> outbox[o].expected,
               reason |-> outbox[o].reason]
      BY <2>1 DEF PendingPublication
    <2>4. outbox \in [Operations -> PendingPublication]
      BY DEF Inv, TypeOK
    <2>5. outbox' = [outbox EXCEPT ![o] = new]
      <3> DEFINE mid == [outbox EXCEPT ![o].state = "rejected"]
      <3>1. outbox' = [mid EXCEPT ![o].reason = r]
        BY <1>5
      <3>2. DOMAIN mid = Operations /\ mid[o] = [outbox[o] EXCEPT !.state = "rejected"]
            /\ \A q \in Operations \ {o} : mid[q] = outbox[q]
        BY <1>3, <2>4
      <3>3. outbox'[o] = new /\ DOMAIN outbox' = Operations
            /\ \A q \in Operations \ {o} : outbox'[q] = outbox[q]
        BY <1>3, <2>3, <3>1, <3>2, ZenonT(30)
      <3>4. outbox' = [q \in Operations |-> IF q = o THEN new ELSE outbox[q]]
        BY <3>1, <3>2, <3>3
      <3> QED
        BY <1>3, <2>4, <3>4
    <2>6. new.state = "rejected" /\ new.proof = outbox[o].proof
          /\ new.revision = outbox[o].revision /\ new.reason = r
      OBVIOUS
    <2> HIDE DEF new
    <2> QED
      BY <1>1, <1>2, <1>3, <1>5, <2>2, <2>5, <2>6, Ending
  <1> QED
    BY <1>4, <1>5 DEF RejectPublication, Operation

-----------------------------------------------------------------------------
(* The invariant, and what follows from it. *)

\* The empty database and vault satisfy the invariant.
LEMMA InitInv == Init => Inv
  <1> SUFFICES ASSUME Init PROVE Inv
    OBVIOUS
  <1> USE DEF Init
  <1>1. NoPublication \in PendingPublication /\ NoPublication.state = "absent"
    BY DEF NoPublication, PendingPublication, OutboxState
  <1>2. Idle \in Pass /\ Idle.phase = "idle" /\ Idle.operation = None /\ Idle.reason = None
    BY DEF Idle, Pass, Phase
  <1>3. TypeOK
    BY <1>1, <1>2 DEF TypeOK
  <1>4. Ages /\ Filed /\ Acked
    BY <1>2 DEF Ages, Filed, Acked
  <1>5. \A o \in Operations : State(o) = "absent"
    BY <1>1 DEF State
  <1>6. Working /\ Reasoned /\ Recorded
    BY <1>2, <1>5 DEF Working, Reasoned, Recorded
  <1>7. Kept /\ PendingExpectsActive /\ RevisionsUnique
    BY <1>5 DEF Kept, PendingExpectsActive, RevisionsUnique
  <1> QED
    BY <1>3, <1>4, <1>6, <1>7 DEF Inv

\* Every step keeps the invariant.
LEMMA NextInv == Inv /\ [Next]_vars => Inv'
  <1> SUFFICES ASSUME Inv, [Next]_vars PROVE Inv'
    OBVIOUS
  <1>1. CASE \E p \in Providers : SaveDraft(p) \/ Connect(p) \/ Disconnect(p)
    BY <1>1, SaveDraftKeeps, ConnectKeeps, DisconnectKeeps
  <1>2. CASE \E p \in Providers, e \in Proofs : Verify(p, e)
    BY <1>2, VerifyKeeps
  <1>3. CASE \E o \in Operations, e \in Proofs :
               \E seen \in {0} \cup {outbox[q].revision : q \in Operations} :
                  PublishSelection(o, e, seen)
    BY <1>3, PreparePublicationKeeps
  <1>4. CASE \E e \in Proofs : Expires(e)
    BY <1>4, ExpiresKeeps
  <1>5. CASE CheckpointEnds \/ RuntimeRestarts
    BY <1>5, CheckpointEndsKeeps, RestartKeeps
  <1>6. CASE \E o \in Operations : LateRegistration(o)
    BY <1>6, LateRegistrationKeeps
  <1>7. CASE \E w \in Workers : Reconcile(w)
    BY <1>7, StartPassKeeps, ReadStatusKeeps, CheckEvidenceKeeps, RegisterKeeps,
       CheckConnectionKeeps, CompletePublicationKeeps, RejectPublicationKeeps DEF Reconcile
  <1>8. CASE \E w \in Workers : Drop(w)
    BY <1>8, DropKeeps
  <1>9. CASE UNCHANGED vars
    <2>1. UNCHANGED database /\ UNCHANGED credentials /\ UNCHANGED registrations
          /\ UNCHANGED network /\ UNCHANGED pass
      BY <1>9 DEF vars
    <2>2. TypeOK'
      BY <2>1 DEF Inv, TypeOK, database, credentials, registrations, network
    <2>3. Grows
      BY <2>1, SameGrows DEF Inv, database, credentials
    <2>4. Ages' /\ Filed'
      BY <2>1 DEF Inv, Ages, Filed, database, credentials, registrations
    <2>5. UNCHANGED outbox /\ UNCHANGED active /\ UNCHANGED late /\ UNCHANGED registered
      BY <2>1 DEF database, registrations, network
    <2> QED
      BY <2>1, <2>2, <2>3, <2>4, <2>5, Environment
  <1> QED
    BY <1>1, <1>2, <1>3, <1>4, <1>5, <1>6, <1>7, <1>8, <1>9 DEF Next, SaveSettings

\* Every reachable state of any instance satisfies the inductive invariant.
THEOREM PublicationInvariance == Spec => []Inv
  <1> QED
    BY InitInv, NextInv, PTL DEF Spec

\* Type correctness; a waiting pass has a candidate, a rejecting one a reason.
THEOREM PublicationTypes == Spec => []TypeOK
  <1>1. Inv => TypeOK
    BY DEF Inv
  <1> QED
    BY <1>1, PublicationInvariance, PTL

\* The active pointer is set only after a durable ACK: a published profile is
\* registered at the runtime, in memory and in its file, and consumers get it.
THEOREM PublishedIsDurable == Spec => []PublishedDurable
  <1>1. Inv => PublishedDurable
    <2> SUFFICES ASSUME Inv, active # 0
                 PROVE  \E o \in registered \cap file : Selected = {o}
      BY DEF Inv, Kept, PublishedDurable
    <2>1. PICK o \in Operations : State(o) = "published" /\ outbox[o].revision = active
      BY DEF Inv, RevisionsUnique
    <2>2. o \in registered \cap file
      BY <2>1 DEF Inv, Kept
    <2>3. Selected = {o}
      BY <2>1 DEF Inv, RevisionsUnique, Selected
    <2> QED
      BY <2>2, <2>3
  <1> QED
    BY <1>1, PublicationInvariance, PTL

\* At most one publication is pending, and its compare-and-set expects the
\* active revision as it still is.
THEOREM OnePending == Spec => []PendingExpectsActive
  <1>1. Inv => PendingExpectsActive
    BY DEF Inv
  <1> QED
    BY <1>1, PublicationInvariance, PTL

\* Revisions are never reused, and the active one is the highest published.
THEOREM RevisionsNeverReused == Spec => []RevisionsUnique
  <1>1. Inv => RevisionsUnique
    BY DEF Inv
  <1> QED
    BY <1>1, PublicationInvariance, PTL

\* The reason recorded with a rejection is true and stays true.
THEOREM RejectionsJustified == Spec => []RejectionJustified
  <1>1. Inv => RejectionJustified
    BY DEF Inv, Recorded, Found, RejectionJustified
  <1> QED
    BY <1>1, PublicationInvariance, PTL

\* The runtime does not register a candidate whose rejection is recorded.
LEMMA RegistersNoRejected ==
    ASSUME Inv, NEW q \in Operations, NEW answer, RegisterRevision(q, answer),
           NEW o \in Operations, State(o) = "rejected", o \notin registered \cup file
    PROVE  o \notin registered' \cup file'
  <1>1. Found(o, outbox[o].reason)
    BY DEF Inv, Recorded
  <1>2. ~Accepts(o)
    BY <1>1 DEF Found, Justified, Rejection, Accepts
  <1>3. o # q => o \notin registered' \cup file'
    BY DEF RegisterRevision, registrations
  <1> QED
    BY <1>2, <1>3 DEF RegisterRevision, registrations

\* A registration that arrives after the rejection of its candidate does not
\* take effect.
THEOREM LateRegistrationsIgnored == Spec => NoLateRegistration
  <1>1. Inv /\ [Next]_vars =>
            [\A o \in Operations :
                State(o) = "rejected" /\ o \notin registered \cup file
                    => o \notin registered' \cup file']_vars
    <2> SUFFICES ASSUME Inv, Next, NEW o \in Operations, State(o) = "rejected",
                        o \notin registered \cup file
                 PROVE  o \notin registered' \cup file'
      OBVIOUS
    <2>1. CASE UNCHANGED <<registered, file>>
      BY <2>1
    <2>2. CASE file' = registered /\ UNCHANGED registered
      BY <2>2
    <2>3. CASE RuntimeRestarts
      BY <2>3 DEF RuntimeRestarts
    <2>4. CASE \E q \in Operations : LateRegistration(q)
      BY <2>4, RegistersNoRejected DEF LateRegistration
    <2>5. CASE \E w \in Workers : Register(w)
      <3>1. PICK w \in Workers : Register(w)
        BY <2>5
      <3>2. pass[w].operation \in Operations
        BY <3>1, PassWorks DEF Register, In
      <3> QED
        BY <3>1, <3>2, RegistersNoRejected DEF Register, Operation
    <2> QED
      BY <2>1, <2>2, <2>3, <2>4, <2>5
      DEF Next, SaveSettings, SaveDraft, Connect, Disconnect, Verify, PublishSelection,
          PreparePublication, Expires,
          CheckpointEnds, Reconcile, StartPass, ReadStatus, CheckEvidence,
          CheckConnection, CompletePublication, RejectPublication, Drop, registrations
  <1> QED
    BY <1>1, PublicationInvariance, PTL DEF Spec, NoLateRegistration

\* An outcome is final, and the active pointer never goes back.
THEOREM OutcomesFinal == Spec => OutcomeFinal
  <1> DEFINE Final == /\ \A o \in Operations :
                            State(o) \in {"published", "rejected"} => outbox'[o] = outbox[o]
                      /\ active' >= active
  <1>1. Inv /\ [Next]_vars => [Final]_vars
    <2> SUFFICES ASSUME Inv, Next PROVE Final
      OBVIOUS
    <2>1. active \in Nat
      BY DEF Inv, TypeOK
    <2>2. CASE UNCHANGED <<outbox, active>>
      BY <2>1, <2>2
    <2>3. CASE \E o \in Operations, e \in Proofs :
                 \E seen \in {0} \cup {outbox[q].revision : q \in Operations} :
                    PublishSelection(o, e, seen)
      BY <2>1, <2>3 DEF PublishSelection, PreparePublication, State, Inv, TypeOK
    <2>4. CASE \E w \in Workers : RejectPublication(w)
      BY <2>1, <2>4 DEF RejectPublication, State, Inv, TypeOK
    <2>5. CASE \E w \in Workers : State(pass[w].operation) = "pending"
                                  /\ Publish(pass[w].operation)
                                  /\ pass[w].operation \in Operations
      <3>1. PICK o \in Operations : State(o) = "pending" /\ Publish(o)
        BY <2>5
      <3>2. outbox'[o] # outbox[o] => State(o) = "pending"
        BY <3>1
      <3>3. \A q \in Operations \ {o} : outbox'[q] = outbox[q]
        BY <3>1 DEF Publish, Inv, TypeOK
      <3>4. \A q \in Operations \ {o} : outbox[q].revision < outbox[o].revision
        BY <3>1 DEF Inv, PendingExpectsActive
      <3>5. active = 0 \/ \E q \in Operations : State(q) = "published" /\ outbox[q].revision = active
        BY DEF Inv, RevisionsUnique
      <3>6. outbox[o].revision \in Nat
        BY DEF Inv, TypeOK, PendingPublication
      <3>7. outbox[o].revision >= active
        BY <2>1, <3>1, <3>4, <3>5, <3>6
      <3> QED
        BY <3>1, <3>3, <3>7 DEF Publish
    <2>6. ASSUME NEW w \in Workers, CompletePublication(w), ~UNCHANGED <<outbox, active>>
          PROVE  State(pass[w].operation) = "pending" /\ Publish(pass[w].operation)
                 /\ pass[w].operation \in Operations
      <3>1. pass[w].operation \in Operations
        BY <2>6, PassWorks DEF CompletePublication, In
      <3> QED
        BY <2>6, <3>1 DEF CompletePublication, Operation
    <2> QED
      BY <2>2, <2>3, <2>4, <2>5, <2>6
      DEF Next, SaveSettings, SaveDraft, Connect, Disconnect, Verify, Expires, CheckpointEnds,
          RuntimeRestarts, LateRegistration, Reconcile, StartPass, ReadStatus,
          CheckEvidence, Register, CheckConnection, Drop, database
  <1> QED
    BY <1>1, PublicationInvariance, PTL DEF Spec, OutcomeFinal
=============================================================================
