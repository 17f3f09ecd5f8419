------------------------------- MODULE Registry -------------------------------
(***************************************************************************)
(* The service registry: entries and their declarations in PostgreSQL      *)
(* (backend/infra/src/registry.rs), the operators' requests on them and    *)
(* the public catalog (backend/api/src/lib.rs), the health worker          *)
(* (backend/server/src/health_worker.rs), and what a start of the server   *)
(* reconciles with its environment (backend/server/src/main.rs).           *)
(*                                                                         *)
(* Each statement or transaction of the database is one step; the handlers *)
(* and the worker run several, so anything may happen between two of them. *)
(* A row of service_declarations is named by its entry and its content:    *)
(* the unique index on content_hash lets a content be declared once.  A    *)
(* start of the server puts another hash together than the requests do, so *)
(* what it declares (Bootstrapped) no operator declares.  What an operator *)
(* sends after seeing an entry carries its ETag in If-Match; the handlers  *)
(* compare it with a first read and the statement that writes compares it  *)
(* again, so the second comparison decides and the first is left out.      *)
(***************************************************************************)
EXTENDS Naturals, FiniteSets

CONSTANTS
    Services,
    Contents,        \* base URL, capabilities and contract version of a declaration
    HealthReadable,  \* the contents that declare health.read
    Bootstrapped,    \* the contents declared by "local-bootstrap", a start of the server
    Owned,           \* and those by an operator whose subject is "bootstrap"
    Operators,
    None,
    Unsteady,        \* bound: the contents whose services start or stop answering
    MaxVersion       \* bound: version of each entry

VARIABLES
    entry,        \* service_registry_entries
    declaration,  \* service_declarations.approval_status by entry and content
    latest,       \* by entry, the declaration with the greatest approved_at
    health,       \* health_status
    up,           \* those of HealthReadable whose health path answers with success
    request,      \* what each operator has seen and is doing
    audited,      \* the service.approved events of audit_events
    check,        \* the running capability check
    checked,      \* service_check_runs
    worker,       \* the pass of the health worker
    catalog       \* the catalog being put together

registry == <<entry, declaration, latest>>
vars == <<entry, declaration, latest, health, up, request, audited, check, checked, worker, catalog>>

-----------------------------------------------------------------------------
(* Types. *)

Status == {"pending", "active", "disabled", "retired"}

Approval == {"absent", "pending", "approved", "superseded"}

Entry == [status : Status \cup {"absent"}, active : Contents \cup {None}, version : Nat]

Health == {"unknown", "healthy", "unreachable"}

Declared == Services \X Contents

Request ==
    [phase : {"idle", "viewing", "deciding", "auditing"}, service : Services \cup {None},
     entry : Entry, declarations : [Contents -> Approval], approved : Contents \cup {None}]

Check == [phase : {"idle", "active", "calling"}, service : Services \cup {None},
          content : Contents \cup {None}]

Worker == [targets : SUBSET Declared, service : Services \cup {None}, answer : Health]

Catalog == [remaining : SUBSET Declared, items : SUBSET Declared]

ASSUME RegistryAssumption ==
    /\ HealthReadable \subseteq Contents /\ Bootstrapped \subseteq HealthReadable
    /\ Bootstrapped \subseteq Owned /\ Owned \subseteq Contents
    /\ Unsteady \subseteq HealthReadable
    /\ None \notin Services \cup Contents
    /\ MaxVersion \in [Services -> Nat]

NoEntry == [status |-> "absent", active |-> None, version |-> 0]

NothingDeclared == [c \in Contents |-> "absent"]

NoRequest == [phase |-> "idle", service |-> None, entry |-> NoEntry,
              declarations |-> NothingDeclared, approved |-> None]

NoCheck == [phase |-> "idle", service |-> None, content |-> None]

Resting == [targets |-> {}, service |-> None, answer |-> "unknown"]

NoCatalog == [remaining |-> {}, items |-> {}]

Init ==
    /\ entry = [s \in Services |-> NoEntry]
    /\ declaration = [d \in Declared |-> "absent"]
    /\ latest = [s \in Services |-> None]
    /\ health = [s \in Services |-> "unknown"]
    /\ up = {}
    /\ request = [o \in Operators |-> NoRequest]
    /\ audited = {}
    /\ check = NoCheck /\ checked = {}
    /\ worker = Resting
    /\ catalog = NoCatalog

Active(s) == entry[s].status = "active"

DeclarationsOf(s) == [c \in Contents |-> declaration[<<s, c>>]]

-----------------------------------------------------------------------------
(* The operators. *)

\* insert_declaration_tx; a request's declaration waits for an approval.
InsertDeclaration(s, c, approval) ==
    declaration' = [declaration EXCEPT ![<<s, c>>] = approval]

\* insert_entry, one transaction: a key that exists is a conflict.
InsertEntry(s, c) ==
    /\ entry[s] = NoEntry
    /\ entry' = [entry EXCEPT ![s] = [status |-> "pending", active |-> None, version |-> 1]]
    /\ InsertDeclaration(s, c, "pending")

CreateService(s, c) ==
    /\ c \notin Bootstrapped
    /\ InsertEntry(s, c)
    /\ UNCHANGED <<latest, health, up, request, audited, check, checked, worker, catalog>>

\* get_service reads the entry, whose version is the ETag of the answer ...
ViewEntry(o, s) ==
    /\ request[o].phase = "idle"
    /\ entry[s] # NoEntry
    /\ request' = [request EXCEPT ![o] =
          [NoRequest EXCEPT !.phase = "viewing", !.service = s, !.entry = entry[s]]]
    /\ UNCHANGED <<registry, health, up, audited, check, checked, worker, catalog>>

\* ... and then its declarations; when that fails the answer lists none.
ViewDeclarations(o) ==
    /\ request[o].phase = "viewing"
    /\ \E shown \in {DeclarationsOf(request[o].service), NothingDeclared} :
          request' = [request EXCEPT ![o].phase = "deciding", ![o].declarations = shown]
    /\ UNCHANGED <<registry, health, up, audited, check, checked, worker, catalog>>

\* Faulty variant: the statement that writes does not compare the version again.
UpToDateOnceRead(o) ==
    request[o].phase = "deciding"

UpToDate(o) ==
    /\ request[o].phase = "deciding"
    /\ request[o].entry.version = entry[request[o].service].version

\* The operator turns to something else, or gets 412 or 409.
Leave(o) ==
    /\ request[o].phase = "deciding"
    /\ request' = [request EXCEPT ![o] = NoRequest]
    /\ UNCHANGED <<registry, health, up, audited, check, checked, worker, catalog>>

Bounded(s) == entry[s].version < MaxVersion[s]

\* patch_entry without a declaration: name and team.
PatchNames(o, s) ==
    /\ UpToDate(o) /\ s = request[o].service /\ Bounded(s)
    /\ entry' = [entry EXCEPT ![s].version = @ + 1]
    /\ request' = [request EXCEPT ![o] = NoRequest]
    /\ UNCHANGED <<declaration, latest, health, up, audited, check, checked, worker, catalog>>

\* patch_entry with a declaration: a content declared before is passed over.
PatchDeclaration(o, s, c) ==
    /\ UpToDate(o) /\ s = request[o].service /\ Bounded(s)
    /\ c \notin Bootstrapped
    /\ IF declaration[<<s, c>>] = "absent"
       THEN /\ InsertDeclaration(s, c, "pending")
            /\ entry' = [entry EXCEPT ![s] =
                  [status |-> "pending", active |-> @.active, version |-> @.version + 1]]
       ELSE /\ entry' = [entry EXCEPT ![s].version = @ + 1]
            /\ UNCHANGED declaration
    /\ request' = [request EXCEPT ![o] = NoRequest]
    /\ UNCHANGED <<latest, health, up, audited, check, checked, worker, catalog>>

\* Faulty variant: the declaration approved before stays approved.
ApprovedOnly(s, c) == [declaration EXCEPT ![<<s, c>>] = "approved"]

\* The declaration is approved and those approved before are superseded.
Approved(s, c) ==
    [d \in Declared |->
        IF d = <<s, c>> THEN "approved"
        ELSE IF d[1] = s /\ declaration[d] = "approved" THEN "superseded"
        ELSE declaration[d]]

\* approve_declaration takes an entry of any status.
ApproveDeclaration(o, s, c) ==
    /\ UpToDate(o) /\ s = request[o].service /\ Bounded(s)
    /\ declaration[<<s, c>>] = "pending"
    /\ declaration' = Approved(s, c)
    /\ latest' = [latest EXCEPT ![s] = c]
    /\ entry' = [entry EXCEPT ![s] =
          [status |-> "active", active |-> c, version |-> entry[s].version + 1]]
    /\ request' = [request EXCEPT ![o] =
          [NoRequest EXCEPT !.phase = "auditing", !.service = s, !.approved = c]]
    /\ UNCHANGED <<health, up, audited, check, checked, worker, catalog>>

\* The event of an approval is a statement of its own, whose error is dropped.
AppendAudit(o) ==
    /\ request[o].phase = "auditing"
    /\ audited' = audited \cup {<<request[o].service, request[o].approved>>}
    /\ request' = [request EXCEPT ![o] = NoRequest]
    /\ UNCHANGED <<registry, health, up, check, checked, worker, catalog>>

LoseAudit(o) ==
    /\ request[o].phase = "auditing"
    /\ request' = [request EXCEPT ![o] = NoRequest]
    /\ UNCHANGED <<registry, health, up, audited, check, checked, worker, catalog>>

\* set_status: from any status.
SetStatus(o, s, status) ==
    /\ UpToDate(o) /\ s = request[o].service /\ Bounded(s)
    /\ entry' = [entry EXCEPT ![s] =
          [status |-> status, active |-> @.active, version |-> @.version + 1]]
    /\ request' = [request EXCEPT ![o] = NoRequest]
    /\ UNCHANGED <<declaration, latest, health, up, audited, check, checked, worker, catalog>>

DisableService(o, s) == SetStatus(o, s, "disabled")

RetireService(o, s) == SetStatus(o, s, "retired")

-----------------------------------------------------------------------------
(* A capability check of health.read: run_service_check. *)

FindActive(s) ==
    /\ check = NoCheck
    /\ Active(s)
    /\ check' = [NoCheck EXCEPT !.phase = "active", !.service = s]
    /\ UNCHANGED <<registry, health, up, request, audited, checked, worker, catalog>>

\* Faulty variant: the newest declaration of the entry, approved or not.
NotAbsent(s, c) == declaration[<<s, c>>] # "absent"

\* The approved declaration with the greatest approved_at.
ActiveDeclaration(s, c) == declaration[<<s, c>>] = "approved" /\ latest[s] = c

\* Without an approved declaration, or when it lacks the capability: a conflict.
FindDeclared ==
    /\ check.phase = "active"
    /\ \/ \E c \in HealthReadable :
             /\ ActiveDeclaration(check.service, c)
             /\ check' = [check EXCEPT !.phase = "calling", !.content = c]
       \/ /\ \A c \in HealthReadable : ~ActiveDeclaration(check.service, c)
          /\ check' = NoCheck
    /\ UNCHANGED <<registry, health, up, request, audited, checked, worker, catalog>>

InsertCheckRun == checked' = checked \cup {<<check.service, check.content>>}

\* The call is over; its row may be lost without the caller noticing.
FinishCheck ==
    /\ check.phase = "calling"
    /\ InsertCheckRun \/ UNCHANGED checked
    /\ check' = NoCheck
    /\ UNCHANGED <<registry, health, up, request, audited, worker, catalog>>

-----------------------------------------------------------------------------
(* The health worker. *)

\* Faulty variant: services that did not answer are not probed again.
AnsweringTargets ==
    {d \in Services \X HealthReadable :
        Active(d[1]) /\ entry[d[1]].active = d[2] /\ health[d[1]] # "unreachable"}

Targets ==
    {d \in Services \X HealthReadable :
        Active(d[1]) /\ entry[d[1]].active = d[2] /\ declaration[d] = "approved"}

ListTargets ==
    /\ worker = Resting
    /\ worker' = [worker EXCEPT !.targets = Targets]
    /\ UNCHANGED <<registry, health, up, request, audited, check, checked, catalog>>

\* One target after another; which comes first does not matter.
Probe(s, c) ==
    /\ worker.service = None
    /\ <<s, c>> \in worker.targets
    /\ worker' = [targets |-> worker.targets \ {<<s, c>>}, service |-> s,
                  answer |-> IF c \in up THEN "healthy" ELSE "unreachable"]
    /\ UNCHANGED <<registry, health, up, request, audited, check, checked, catalog>>

\* set_health goes by the key alone.
SetHealth(s) ==
    /\ worker.service = s
    /\ health' = [health EXCEPT ![s] = worker.answer]
    /\ worker' = [worker EXCEPT !.service = None, !.answer = "unknown"]
    /\ UNCHANGED <<registry, up, request, audited, check, checked, catalog>>

\* The answer is not stored; the pass goes on.
LoseHealth(s) ==
    /\ worker.service = s
    /\ worker' = [worker EXCEPT !.service = None, !.answer = "unknown"]
    /\ UNCHANGED <<registry, health, up, request, audited, check, checked, catalog>>

\* A service starts or stops answering.
Toggle(c) ==
    /\ up' = IF c \in up THEN up \ {c} ELSE up \cup {c}
    /\ UNCHANGED <<registry, health, request, audited, check, checked, worker, catalog>>

-----------------------------------------------------------------------------
(* The public catalog: runtime_services. *)

ListEntries ==
    /\ catalog = NoCatalog
    /\ catalog' = [catalog EXCEPT !.remaining =
          {d \in Declared : Active(d[1]) /\ entry[d[1]].active = d[2]}]
    /\ UNCHANGED <<registry, health, up, request, audited, check, checked, worker>>

\* A declaration superseded in the meantime drops its service from the answer.
FindDeclaration(d) ==
    /\ d \in catalog.remaining
    /\ catalog' = [remaining |-> catalog.remaining \ {d},
                   items |-> IF declaration[d] = "approved" THEN catalog.items \cup {d}
                             ELSE catalog.items]
    /\ UNCHANGED <<registry, health, up, request, audited, check, checked, worker>>

AnswerCatalog ==
    /\ catalog.remaining = {} /\ catalog.items # {}
    /\ catalog' = NoCatalog
    /\ UNCHANGED <<registry, health, up, request, audited, check, checked, worker>>

-----------------------------------------------------------------------------
(* A start of the server ends the requests and passes of the process before, *)
(* but not what operators have seen of the registry.                         *)

ProcessEnds ==
    /\ request' = [o \in Operators |->
          IF request[o].phase = "deciding" THEN request[o] ELSE NoRequest]
    /\ check' = NoCheck
    /\ worker' = Resting
    /\ catalog' = NoCatalog
    /\ UNCHANGED <<health, up, audited, checked>>

Restart ==
    /\ ProcessEnds
    /\ UNCHANGED registry

\* An operator's declaration in force is left alone, unless its author is "bootstrap".
ShouldBootstrap(s, c) ==
    /\ entry[s].active \in {None} \cup Owned
    /\ entry[s].active # c

\* The service is declared with c in the environment.  An entry that exists keeps
\* its status and its version, and a declaration in force before stays approved.
\* A content declared before meets the unique index and the start fails.
Bootstrap(s, c) ==
    /\ ShouldBootstrap(s, c)
    /\ declaration[<<s, c>>] = "absent"
    /\ entry' = [entry EXCEPT ![s] =
          [status |-> IF @ = NoEntry THEN "active" ELSE @.status, active |-> c,
           version |-> IF @ = NoEntry THEN 1 ELSE @.version]]
    /\ InsertDeclaration(s, c, "approved")
    /\ latest' = [latest EXCEPT ![s] = c]
    /\ ProcessEnds

-----------------------------------------------------------------------------
(* The specification. *)

Decide(o) ==
    \E s \in Services :
        \/ PatchNames(o, s)
        \/ \E c \in Contents : PatchDeclaration(o, s, c)
        \/ \E c \in Contents : ApproveDeclaration(o, s, c)
        \/ DisableService(o, s)
        \/ RetireService(o, s)

Operate(o) ==
    \/ \E s \in Services : ViewEntry(o, s)
    \/ ViewDeclarations(o)
    \/ Decide(o)
    \/ Leave(o)
    \/ AppendAudit(o)
    \/ LoseAudit(o)

CheckStep ==
    \/ \E s \in Services : FindActive(s)
    \/ FindDeclared
    \/ FinishCheck

WorkerStep ==
    \/ ListTargets
    \/ \E s \in Services, c \in HealthReadable : Probe(s, c)
    \/ \E s \in Services : SetHealth(s)
    \/ \E s \in Services : LoseHealth(s)

CatalogStep ==
    \/ ListEntries
    \/ \E d \in Declared : FindDeclaration(d)
    \/ AnswerCatalog

\* What decides the health shown: checks and catalogs change nothing it depends on.
HealthStep ==
    \/ \E s \in Services, c \in Contents : CreateService(s, c)
    \/ \E s \in Services, c \in Bootstrapped : Bootstrap(s, c)
    \/ \E o \in Operators : Operate(o)
    \/ WorkerStep
    \/ \E c \in Unsteady : Toggle(c)

Next ==
    \/ HealthStep
    \/ CheckStep
    \/ CatalogStep
    \/ Restart

Spec == Init /\ [][Next]_vars

\* The worker's loop never ends, and the database stores an answer now and again.
HealthSpec ==
    /\ Init /\ [][HealthStep]_vars
    /\ WF_vars(ListTargets)
    /\ \A s \in Services : SF_vars(SetHealth(s))
    /\ \A s \in Services, c \in HealthReadable : WF_vars(Probe(s, c))

-----------------------------------------------------------------------------
(* Properties. *)

TypeOK ==
    /\ entry \in [Services -> Entry]
    /\ declaration \in [Declared -> Approval]
    /\ latest \in [Services -> Contents \cup {None}]
    /\ health \in [Services -> Health]
    /\ up \subseteq HealthReadable
    /\ request \in [Operators -> Request]
    /\ audited \subseteq Declared
    /\ check \in Check
    /\ checked \subseteq Declared
    /\ worker \in Worker
    /\ catalog \in Catalog

\* The declaration that active_declaration finds by approved_at is the one that
\* active_declaration_id names, whatever operators and starts of the server
\* approve side by side; an active entry has one; and no other is approved
\* beside it, except one that a start took the place of (docs/DATA_MODEL.md, 3.1;
\* checks rely on the first, list_health_targets and the catalog on the second).
ApprovedIsActive ==
    \A s \in Services :
        /\ \A c \in Contents : ActiveDeclaration(s, c) <=> entry[s].active = c
        /\ \A c \in Contents :
              declaration[<<s, c>>] = "approved" /\ entry[s].active # c
              => c \in Owned /\ entry[s].active \in Bootstrapped
        /\ Active(s) => entry[s].active # None

\* What left the panel was approved first: an audited approval, a check run, a
\* call of a check, a probe and a line of the catalog name a declaration that
\* an operator or a start approved, and a check or a probe one that declares health.read.
WasApproved(d) == declaration[d] \in {"approved", "superseded"}

EvidenceIsTrue ==
    /\ \A d \in audited \cup checked \cup worker.targets \cup catalog.items : WasApproved(d)
    /\ \A d \in checked \cup worker.targets : d[2] \in HealthReadable
    /\ check.phase = "calling" =>
          WasApproved(<<check.service, check.content>>) /\ check.content \in HealthReadable

\* A request that changes an entry or its declarations meets them as its
\* operator saw them, though they were read in two statements and any number of
\* requests came between (docs/ARCHITECTURE.md, 7: If-Match), or the operator was
\* shown an empty list, which can be told from a true one: an entry always has a
\* declaration.  What a start of the server puts in force is the exception: it
\* leaves the version as it is.
Changes(s) == entry'[s] # entry[s] \/ \E c \in Contents : declaration'[<<s, c>>] # declaration[<<s, c>>]

SameEntry(seen, now) ==
    /\ seen.version = now.version /\ seen.status = now.status
    /\ seen.active = now.active \/ now.active \in Bootstrapped

AsShown(seen, s) ==
    \/ seen = NothingDeclared
    \/ \A c \in Contents \ Bootstrapped : seen[c] = declaration[<<s, c>>]

SomeDeclared(s) == \E c \in Contents : declaration[<<s, c>>] # "absent"

NoLostUpdate ==
    [][\A o \in Operators, s \in Services :
          request[o].phase = "deciding" /\ request[o].service = s
          /\ request'[o] # request[o] /\ Changes(s)
          => /\ SameEntry(request[o].entry, entry[s])
             /\ AsShown(request[o].declarations, s) /\ SomeDeclared(s)]_vars

\* When the active declaration of a service and its answer no longer change, the
\* health shown comes to be that answer and stays, whatever an earlier pass
\* still stores and however often an answer is lost in between.
Answers(s, h) ==
    \E c \in HealthReadable :
        Active(s) /\ entry[s].active = c /\ h = IF c \in up THEN "healthy" ELSE "unreachable"

HealthCatchesUp ==
    \A s \in Services, h \in {"healthy", "unreachable"} :
        <>[]Answers(s, h) => <>[](health[s] = h)
=============================================================================
