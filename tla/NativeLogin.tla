----------------------------- MODULE NativeLogin -----------------------------
(***************************************************************************)
(* The ChatGPT device-code login of ai-runtime (http.rs): the HTTP         *)
(* handlers, the checkpoint task and the native app server they share.     *)
(*                                                                         *)
(* A handler commits under the vault's lock, releases it, calls the native *)
(* process (codex.rs, 45 s) and takes the lock again: it is an action that *)
(* sends the call and a later one that handles its answer.  In between     *)
(* other handlers run, the caller may go away (the handler is dropped) and *)
(* the process may crash.                                                  *)
(*                                                                         *)
(* An operation id is used once: for a login or for a disconnect.  The     *)
(* device-code attempt that login/start of an operation creates has the    *)
(* name of that operation.  Commits are atomic here (InferenceJournal      *)
(* looks into them); a commit that fails in the checkpoint task ends it.   *)
(*                                                                         *)
(* A process may also serve without a native app server: with external     *)
(* calls off, or when auth.json was not restored or the child not started  *)
(* (main.rs).  It reconciles nothing and has no checkpoint task.           *)
(***************************************************************************)
EXTENDS Naturals, Sequences, FiniteSets

CONSTANTS
    Operations,      \* idempotency keys
    None,
    MaxRotations     \* bound: how often the native process refreshes a token

VARIABLES
    vault,     \* VaultState: logins, disconnects, the ChatGPT connection
    expired,   \* operations whose expires_at has passed
    call,      \* per kind and operation: what its caller knows of the answer
    queue,     \* requests the native process has not read (codex.rs)
    native,    \* the native process: running, its attempt, its auth.json
    events,    \* notifications the checkpoint task has not taken
    ready,     \* auth_checkpoint_ready: the checkpoint task is alive
    codex,     \* the process serves and has a native app server (codex is Some)
    codex_error  \* why it serves without one; "none" also while it is down

vars == <<vault, expired, call, queue, native, events, ready, codex, codex_error>>

-----------------------------------------------------------------------------
(* Types. *)

InFlight == {"starting", "pending", "uncertain", "cancelling", "expiring"}

LoginStatus ==
    InFlight \cup {"absent", "completed", "failed", "cancelled", "expired",
                   "revoked", "interrupted"}

ManagedLogin == [status : LoginStatus, id : Operations \cup {None}]

DisconnectStatus == {"absent", "pending", "uncertain", "completed"}

\* What auth.json holds: whose tokens, and how often they were refreshed.
Credential == [attempt : Operations, rotation : 0..MaxRotations]

\* The operation stands for the generation that its completion mints.
Connection == [operation : Operations, credential : Credential]

ASSUME LoginAssumption ==
    /\ MaxRotations \in Nat
    /\ None \notin Operations \cup Credential \cup Connection

VaultState ==
    [login : [Operations -> ManagedLogin],
     disconnect : [Operations -> DisconnectStatus],
     connection : Connection \cup {None}]

Kinds == {"start", "cancel", "expire", "logout"}

Answers == {"ok", "malformed", "canceled", "notFound", "error"}

Request == [kind : Kinds, operation : Operations, attempt : Operations]

\* account/login/completed; attempt None stands for runtime/disconnected.
Event == [attempt : Operations \cup {None}, success : BOOLEAN]

\* ExternalCallsDisabled, or the error of restore_managed_auth or CodexClient::start.
StartError == {"disabled", "failed"}

NoCalls == [k \in Kinds |-> [o \in Operations |-> "none"]]

Init ==
    /\ vault = [login |-> [o \in Operations |-> [status |-> "absent", id |-> None]],
                disconnect |-> [o \in Operations |-> "absent"],
                connection |-> None]
    /\ expired = {}
    /\ call = NoCalls
    /\ queue = <<>>
    /\ native = [up |-> TRUE, attempt |-> None, auth |-> None]
    /\ events = <<>>
    /\ ready = TRUE
    /\ codex = TRUE /\ codex_error = "none"

Status(o) == vault.login[o].status

DisconnectsSettled ==
    \A o \in Operations : vault.disconnect[o] \in {"absent", "completed"}

\* authenticate(): a dead checkpoint task closes every ChatGPT endpoint.  Without
\* a native app server start_login and cancel_login answer before they commit.
Serving == codex /\ ready

SetStatus(v, o, status) == [v EXCEPT !.login[o].status = status]

Send(kind, o, attempt) ==
    /\ call' = [call EXCEPT ![kind][o] = "waiting"]
    /\ queue' = Append(queue, [kind |-> kind, operation |-> o, attempt |-> attempt])

\* The handler of o has its answer and the lock again.
Answered(kind, o) ==
    /\ call[kind][o] \in Answers
    /\ call' = [call EXCEPT ![kind][o] = "none"]
    /\ UNCHANGED <<expired, queue, native, events, ready, codex, codex_error>>

-----------------------------------------------------------------------------
(* start_login. *)

\* Faulty variant: an unknown logout does not block a new login.
StartLoginUnblocked(o) ==
    /\ Serving
    /\ vault.disconnect[o] = "absent" /\ Status(o) = "absent"
    /\ vault.connection = None
    /\ \A p \in Operations : Status(p) \notin InFlight
    /\ vault' = SetStatus(vault, o, "starting")
    /\ Send("start", o, o)
    /\ UNCHANGED <<expired, native, events, ready, codex, codex_error>>

StartLogin(o) ==
    /\ Serving
    /\ vault.disconnect[o] = "absent"
    /\ DisconnectsSettled
    /\ Status(o) = "absent"
    /\ vault.connection = None
    /\ \A p \in Operations : Status(p) \notin InFlight
    /\ vault' = SetStatus(vault, o, "starting")
    /\ Send("start", o, o)
    /\ UNCHANGED <<expired, native, events, ready, codex, codex_error>>

\* Faulty variant: the answer is applied whatever happened meanwhile.
StartReturnsBlindly(o) ==
    /\ \/ /\ call["start"][o] = "ok"
          /\ vault' = [vault EXCEPT !.login[o] = [status |-> "pending", id |-> o]]
       \/ /\ call["start"][o] # "ok"
          /\ vault' = SetStatus(vault, o, "uncertain")
    /\ Answered("start", o)

\* A malformed device code is an error that leaves the login starting.
StartReturns(o) ==
    LET answer == call["start"][o] IN
    /\ \/ /\ Status(o) # "starting" \/ answer = "malformed"
          /\ UNCHANGED vault
       \/ /\ Status(o) = "starting" /\ answer = "ok"
          /\ vault' = [vault EXCEPT !.login[o] = [status |-> "pending", id |-> o]]
       \/ /\ Status(o) = "starting" /\ answer \notin {"ok", "malformed"}
          /\ vault' = SetStatus(vault, o, "uncertain")
    /\ Answered("start", o)

(* cancel_login. *)

CancelLogin(o) ==
    /\ Serving
    /\ Status(o) = "pending"
    /\ vault' = SetStatus(vault, o, "cancelling")
    /\ Send("cancel", o, vault.login[o].id)
    /\ UNCHANGED <<expired, native, events, ready, codex, codex_error>>

\* Faulty variant: an attempt the native process does not know counts as cancelled.
CancelReturnsUnknown(o) ==
    LET answer == call["cancel"][o] IN
    /\ \/ /\ answer = "error" \/ Status(o) = "completed"
          /\ UNCHANGED vault
       \/ /\ answer # "error" /\ Status(o) # "completed"
          /\ vault' = SetStatus(vault, o, "cancelled")
    /\ Answered("cancel", o)

\* A failed call returns early; otherwise only "completed" is looked at.
CancelReturns(o) ==
    LET answer == call["cancel"][o] IN
    /\ \/ /\ answer = "error" \/ Status(o) = "completed"
          /\ UNCHANGED vault
       \/ /\ answer # "error" /\ Status(o) # "completed"
          /\ vault' = SetStatus(vault, o, IF answer = "canceled" THEN "cancelled" ELSE "uncertain")
    /\ Answered("cancel", o)

(* disconnect_chatgpt: the durable credential goes first, then the logout. *)

\* Faulty variant: the credential is to go when the logout is done.
RevokedLoginsOnly(v) ==
    [v EXCEPT !.login = [p \in Operations |->
                  IF @[p].status \in InFlight THEN [@[p] EXCEPT !.status = "revoked"]
                  ELSE @[p]]]

Revoked(v) ==
    [v EXCEPT !.connection = None,
              !.login = [p \in Operations |->
                  IF @[p].status \in InFlight THEN [@[p] EXCEPT !.status = "revoked"]
                  ELSE @[p]]]

Withdrawn(o) == [Revoked(vault) EXCEPT !.disconnect[o] = "pending"]

\* Faulty variant: a repeat of a completed disconnect runs again.
DisconnectAgain(o) ==
    /\ Serving
    /\ Status(o) = "absent"
    /\ DisconnectsSettled
    /\ vault' = Withdrawn(o)
    /\ Send("logout", o, o)
    /\ UNCHANGED <<expired, native, events, ready, codex, codex_error>>

CanDisconnect(o) ==
    vault.disconnect[o] = "absent" /\ Status(o) = "absent" /\ DisconnectsSettled

Disconnect(o) ==
    /\ Serving /\ CanDisconnect(o)
    /\ vault' = Withdrawn(o)
    /\ Send("logout", o, o)
    /\ UNCHANGED <<expired, native, events, ready, codex, codex_error>>

\* The same handler where no native app server was started: the withdrawal is
\* committed before it turns out that there is nobody to log out.
DisconnectUnsent(o) ==
    /\ codex_error = "failed" /\ CanDisconnect(o)
    /\ vault' = Withdrawn(o)
    /\ UNCHANGED <<expired, call, queue, native, events, ready, codex, codex_error>>

LogoutReturns(o) ==
    /\ vault' = [vault EXCEPT !.disconnect[o] =
                    IF call["logout"][o] = "error" THEN "uncertain" ELSE "completed"]
    /\ Answered("logout", o)

-----------------------------------------------------------------------------
(* The checkpoint task: one loop over notifications and a 2 s poll.  While *)
(* it waits for the answer of a cancel it takes no notification.           *)

TaskIdle == Serving /\ \A o \in Operations : call["expire"][o] = "none"

\* Faulty variant: the poll looks for logins that never got their code.
ExpireLoginStarting(o) ==
    /\ TaskIdle
    /\ Status(o) = "starting" /\ o \in expired
    /\ vault' = SetStatus(vault, o, "expiring")
    /\ Send("expire", o, o)
    /\ UNCHANGED <<expired, native, events, ready, codex, codex_error>>

ExpireLogin(o) ==
    /\ TaskIdle
    /\ Status(o) = "pending" /\ o \in expired
    /\ vault' = SetStatus(vault, o, "expiring")
    /\ Send("expire", o, vault.login[o].id)
    /\ UNCHANGED <<expired, native, events, ready, codex, codex_error>>

ExpireReturns(o) ==
    /\ \/ Status(o) # "expiring" /\ UNCHANGED vault
       \/ /\ Status(o) = "expiring"
          /\ vault' = SetStatus(vault, o,
                IF call["expire"][o] = "canceled" THEN "expired" ELSE "uncertain")
    /\ Answered("expire", o)

\* Faulty variant: the id alone decides, whatever became of the login.
MatchesById(e, o) == vault.login[o].id = e.attempt

\* A completion may arrive before the answer that names the attempt.
Matches(e, o) ==
    \/ vault.login[o].id = e.attempt /\ Status(o) = "pending"
    \/ vault.login[o].id = None /\ Status(o) = "starting"

\* checkpoint_login for the login o that the notification matched; FALSE is
\* an error, which ends the task.
Checkpointed(e, o) == o \in expired \/ ~e.success \/ native.auth # None

AfterCompletion(e, o) ==
    LET ended(status) == [vault EXCEPT !.login[o] = [status |-> status, id |-> e.attempt]] IN
    IF o \in expired THEN ended("uncertain")
    ELSE IF ~e.success THEN ended("failed")
    ELSE [ended("completed") EXCEPT
            !.connection = [operation |-> o, credential |-> native.auth]]

CheckpointLogin ==
    /\ TaskIdle
    /\ events # <<>>
    /\ events' = Tail(events)
    /\ LET e == Head(events)
           matching == {o \in Operations : Matches(e, o)} IN
       IF e.attempt = None THEN ready' = FALSE /\ UNCHANGED vault
       ELSE IF matching = {} THEN UNCHANGED <<vault, ready>>
       ELSE \E o \in matching :
              IF Checkpointed(e, o) THEN vault' = AfterCompletion(e, o) /\ UNCHANGED ready
              ELSE ready' = FALSE /\ UNCHANGED vault
    /\ UNCHANGED <<expired, call, queue, native, codex, codex_error>>

\* Faulty variant: the poll only writes a connection that has no credential.
CheckpointRefreshOnce ==
    /\ TaskIdle /\ vault.connection # None /\ native.auth = None
    /\ ready' = FALSE
    /\ UNCHANGED <<vault, expired, call, queue, native, events, codex, codex_error>>

CheckpointRefresh ==
    /\ TaskIdle
    /\ vault.connection # None
    /\ vault.connection.credential # native.auth
    /\ IF native.auth = None THEN ready' = FALSE /\ UNCHANGED vault
       ELSE vault' = [vault EXCEPT !.connection.credential = native.auth] /\ UNCHANGED ready
    /\ UNCHANGED <<expired, call, queue, native, events, codex, codex_error>>

\* A lagged channel or a commit that failed ends the task for good.
CheckpointEnds ==
    /\ Serving
    /\ ready' = FALSE
    /\ call' = [call EXCEPT !["expire"] = NoCalls["expire"]]
    /\ UNCHANGED <<vault, expired, queue, native, events, codex, codex_error>>

-----------------------------------------------------------------------------
(* CodexClient::call, its callers, and time. *)

\* No answer within 45 s; the native process may still act on the request.
Timeout(kind, o) ==
    /\ call[kind][o] = "waiting"
    /\ call' = [call EXCEPT ![kind][o] = "error"]
    /\ UNCHANGED <<vault, expired, queue, native, events, ready, codex, codex_error>>

\* The HTTP client is gone: its handler is dropped where it waits.
Abandon(kind, o) ==
    /\ kind # "expire" /\ call[kind][o] # "none"
    /\ call' = [call EXCEPT ![kind][o] = "none"]
    /\ UNCHANGED <<vault, expired, queue, native, events, ready, codex, codex_error>>

Expires(o) ==
    /\ Status(o) # "absent" /\ o \notin expired
    /\ expired' = expired \cup {o}
    /\ UNCHANGED <<vault, call, queue, native, events, ready, codex, codex_error>>

-----------------------------------------------------------------------------
(* The native process, as its callers rely on it: it reads requests in     *)
(* order, has at most one attempt, forgets attempt and credential on       *)
(* logout, announces the end of an attempt, and refreshes tokens.          *)

\* The answer reaches a caller that still waits.
Reply(r, answer) ==
    call' = IF call[r.kind][r.operation] = "waiting"
            THEN [call EXCEPT ![r.kind][r.operation] = answer] ELSE call

Announce(attempt, success) ==
    events' = Append(events, [attempt |-> attempt, success |-> success])

ServeStart(r) ==
    /\ r.kind = "start"
    /\ \/ /\ native' = [native EXCEPT !.attempt = r.attempt]
          /\ Reply(r, "ok") \/ Reply(r, "malformed")
       \/ Reply(r, "error") /\ UNCHANGED native
    /\ UNCHANGED events

ServeCancel(r) ==
    /\ r.kind \in {"cancel", "expire"}
    /\ \/ /\ native.attempt = r.attempt
          /\ native' = [native EXCEPT !.attempt = None]
          /\ Reply(r, "canceled")
          /\ Announce(r.attempt, FALSE) \/ UNCHANGED events
       \/ /\ native.attempt # r.attempt
          /\ Reply(r, "notFound")
          /\ UNCHANGED <<native, events>>
       \/ Reply(r, "error") /\ UNCHANGED <<native, events>>

ServeLogout(r) ==
    /\ r.kind = "logout"
    /\ \/ native' = [native EXCEPT !.attempt = None, !.auth = None] /\ Reply(r, "ok")
       \/ Reply(r, "error") /\ UNCHANGED native
    /\ UNCHANGED events

NativeServes ==
    /\ native.up /\ queue # <<>>
    /\ queue' = Tail(queue)
    /\ ServeStart(Head(queue)) \/ ServeCancel(Head(queue)) \/ ServeLogout(Head(queue))
    /\ UNCHANGED <<vault, expired, ready, codex, codex_error>>

AttemptEnds(success) ==
    /\ native.attempt # None
    /\ Announce(native.attempt, success)
    /\ native' = [native EXCEPT
          !.attempt = None,
          !.auth = IF success THEN [attempt |-> native.attempt, rotation |-> 0] ELSE @]
    /\ UNCHANGED <<vault, expired, call, queue, ready, codex, codex_error>>

Rotates ==
    /\ native.up /\ native.auth # None /\ native.auth.rotation < MaxRotations
    /\ native' = [native EXCEPT !.auth.rotation = @ + 1]
    /\ UNCHANGED <<vault, expired, call, queue, events, ready, codex, codex_error>>

NativeDown == [native EXCEPT !.up = FALSE, !.attempt = None]

\* rpc_loop ends: whoever waits gets an error.  auth.json stays.
NativeExits ==
    /\ native.up
    /\ native' = NativeDown
    /\ queue' = <<>>
    /\ call' = [k \in Kinds |-> [o \in Operations |->
                  IF call[k][o] = "waiting" THEN "error" ELSE call[k][o]]]
    /\ Announce(None, FALSE)
    /\ UNCHANGED <<vault, expired, ready, codex, codex_error>>

-----------------------------------------------------------------------------
(* Crash, and main.rs: restore_managed_auth writes auth.json from the      *)
(* vault or removes it, then reconcile_native_startup.                     *)

\* No native process, and auth.json as it was left.
NativeLeft(auth) == native' = [NativeDown EXCEPT !.auth = auth]

\* auth.json is on a tmpfs, which may outlive the process or not.
Crash ==
    /\ codex \/ codex_error # "none"
    /\ codex' = FALSE /\ codex_error' = "none" /\ ready' = FALSE
    /\ call' = NoCalls /\ queue' = <<>> /\ events' = <<>>
    /\ \E auth \in {native.auth, None} : NativeLeft(auth)
    /\ UNCHANGED <<vault, expired>>

RestoredAuth(v) == IF v.connection = None THEN None ELSE v.connection.credential

Reconciled(v) ==
    [v EXCEPT
        !.login = [o \in Operations |->
            IF @[o].status \in InFlight
            THEN [@[o] EXCEPT !.status = IF o \in expired THEN "expired" ELSE "interrupted"]
            ELSE @[o]],
        !.disconnect = [o \in Operations |->
            IF @[o] = "absent" THEN "absent" ELSE "completed"]]

\* StateIntegrity: a withdrawal without its effect.  The process exits.
CanReconcile == vault.connection = None \/ DisconnectsSettled

Down == ~codex /\ codex_error = "none"

Restart ==
    /\ Down
    /\ CanReconcile
    /\ vault' = Reconciled(vault)
    /\ native' = [up |-> TRUE, attempt |-> None, auth |-> RestoredAuth(vault)]
    /\ codex' = TRUE /\ ready' = TRUE
    /\ UNCHANGED <<expired, call, queue, events, codex_error>>

\* The process serves without a native app server, or, when it was started and
\* its account does not fit the vault, exits.
RestartWithout(error) ==
    /\ Down
    /\ \/ error = "disabled" /\ NativeLeft(native.auth)
       \/ error = "failed" /\ \E auth \in {native.auth, RestoredAuth(vault)} : NativeLeft(auth)
    /\ codex_error' = error /\ ready' = TRUE
    /\ UNCHANGED <<vault, expired, call, queue, events, codex>>

RestartRefused ==
    /\ Down
    /\ NativeLeft(RestoredAuth(vault))
    /\ UNCHANGED <<vault, expired, call, queue, events, ready, codex, codex_error>>

Next ==
    \/ \E o \in Operations :
          \/ StartLogin(o) \/ StartReturns(o)
          \/ CancelLogin(o) \/ CancelReturns(o)
          \/ Disconnect(o) \/ DisconnectUnsent(o) \/ LogoutReturns(o)
          \/ ExpireLogin(o) \/ ExpireReturns(o)
          \/ Expires(o)
    \/ \E kind \in Kinds, o \in Operations : Timeout(kind, o) \/ Abandon(kind, o)
    \/ CheckpointLogin \/ CheckpointRefresh \/ CheckpointEnds
    \/ NativeServes \/ Rotates \/ NativeExits
    \/ \E success \in BOOLEAN : AttemptEnds(success)
    \/ Crash \/ Restart \/ RestartRefused
    \/ \E error \in StartError : RestartWithout(error)

Spec == Init /\ [][Next]_vars

\* The poll ticks, its calls return or time out, clocks advance.  Nothing is
\* assumed of handlers, of the native process or of restarts.
Fairness ==
    /\ WF_vars(CheckpointLogin) /\ WF_vars(CheckpointRefresh)
    /\ \A o \in Operations :
          /\ WF_vars(ExpireLogin(o)) /\ WF_vars(ExpireReturns(o))
          /\ WF_vars(Timeout("expire", o)) /\ WF_vars(Expires(o))

FairSpec == Spec /\ Fairness

-----------------------------------------------------------------------------
(* Properties. *)

\* The shape of every variable.
TypeOK ==
    /\ vault \in VaultState
    /\ expired \subseteq Operations
    /\ call \in [Kinds -> [Operations -> Answers \cup {"none", "waiting"}]]
    /\ queue \in Seq(Request)
    /\ native \in [up : BOOLEAN, attempt : Operations \cup {None},
                   auth : Credential \cup {None}]
    /\ events \in Seq(Event)
    /\ ready \in BOOLEAN /\ codex \in BOOLEAN /\ codex_error \in {"none"} \cup StartError

\* At most one login can still lead to a connection or is being withdrawn,
\* although start_login lets go of the lock before the attempt has a name.
OneAttempt ==
    Cardinality({o \in Operations :
        Status(o) \in {"starting", "pending", "cancelling", "expiring"}}) <= 1

\* "Unknown logout blocks a new login until native readback": while a
\* disconnect is pending or uncertain there is no connection and no login on
\* its way to one, over restarts with and without a native app server.  It is
\* also why reconcile_native_startup never has to refuse the vault it finds.
DisconnectIsolates ==
    ~DisconnectsSettled =>
        /\ vault.connection = None
        /\ \A o \in Operations : Status(o) \notin {"starting", "pending"}

\* "An expired or revoked confirmation does not restore authorization": the
\* tokens in the vault never come from a device code whose login was revoked,
\* cancelled, expired or interrupted.
WithdrawnNotRestored ==
    vault.connection # None =>
        Status(vault.connection.credential.attempt)
            \notin {"revoked", "cancelled", "expired", "interrupted"}

\* A connection reported beside a native app server (runtime_available of
\* providers) is one that it has tokens for, with no logout under way behind it:
\* whatever was withdrawn, lost or refused while earlier processes ran without one.
\* A process that has none reports the connection all the same.
ConnectionBacked ==
    codex /\ vault.connection # None =>
        /\ native.auth # None
        /\ \A i \in DOMAIN queue : queue[i].kind # "logout"

\* "An old repeat of a disconnect does not revoke a new connection": a
\* connection goes away, or is replaced, only when a disconnect is first seen.
OnlyNewDisconnectRevokes ==
    [][vault.connection # None
          /\ (vault'.connection = None
              \/ vault'.connection.operation # vault.connection.operation)
        => \E o \in Operations :
              vault.disconnect[o] = "absent" /\ vault'.disconnect[o] = "pending"]_vars

\* "A late completion is never permission to resurrect an expired login": a
\* login that has left starting and pending never completes and never offers
\* its code again.
NoResurrection ==
    [][\A o \in Operations :
          Status(o) \notin {"absent", "starting", "pending", "completed"} =>
              vault'.login[o].status \notin {"starting", "pending", "completed"}]_vars

\* A code nobody enters does not block logins for ever: a pending login ends
\* unless the checkpoint task or the process does, or one without a native app
\* server, and so without the task, takes its place.
PendingEnds ==
    \A o \in Operations :
        Status(o) \in {"pending", "expiring"}
            ~> Status(o) \notin {"pending", "expiring"} \/ ~Serving

\* A token the native process refreshed reaches the vault, or a restart would
\* bring back one that is no longer valid.
RefreshReachesVault ==
    vault.connection # None /\ vault.connection.credential # native.auth
        ~> vault.connection = None \/ vault.connection.credential = native.auth \/ ~Serving
=============================================================================
