-------------------------- MODULE NativeLoginProofs --------------------------
(***************************************************************************)
(* Proofs about NativeLogin, for every set of operation ids.               *)
(*                                                                         *)
(* Most steps change at most one login: Moved and MoveKeeps say what such  *)
(* a step leaves alone, so that the proof about an action only looks at    *)
(* the statuses before and after.  A step that commits nothing is covered  *)
(* by Elsewhere, a request or an answer by Sending, Answering and Served.  *)
(***************************************************************************)
EXTENDS NativeLogin, FiniteSetTheorems, TLAPS

Live == {"starting", "pending", "cancelling", "expiring"}

\* OneAttempt without counting.
Alone(v) ==
    \A o, p \in Operations :
        v.login[o].status \in Live /\ v.login[p].status \in Live => o = p

\* A code is shown only with the attempt it belongs to.
Named(v) ==
    \A o \in Operations : v.login[o].status = "pending" => v.login[o].id # None

Settled(v) == \A o \in Operations : v.disconnect[o] \in {"absent", "completed"}

Isolated(v) ==
    ~Settled(v) =>
        /\ v.connection = None
        /\ \A o \in Operations : v.login[o].status \notin {"starting", "pending"}

\* A login that can still complete finds no connection to replace.
Unconnected(v) ==
    \A o \in Operations :
        v.login[o].status \in {"starting", "pending"} => v.connection = None

VaultInv(v) ==
    v \in VaultState /\ Alone(v) /\ Named(v) /\ Isolated(v) /\ Unconnected(v)

\* Whoever waits for a logout holds a disconnect open.
LogoutOpen ==
    \A o \in Operations : call["logout"][o] # "none" => vault.disconnect[o] = "pending"

\* A logout the native process has not read belongs to an open disconnect,
\* has no answer and is there once.
LogoutQueued ==
    \A i \in 1..Len(queue) :
        queue[i].kind = "logout" =>
            /\ vault.disconnect[queue[i].operation] \in {"pending", "uncertain"}
            /\ call["logout"][queue[i].operation] \in {"none", "waiting", "error"}
            /\ \A j \in 1..Len(queue) :
                  queue[j].kind = "logout" /\ queue[j].operation = queue[i].operation => j = i

Quiet == ~codex => queue = <<>> /\ call = NoCalls

Backed == codex /\ vault.connection # None => native.auth # None

Calls == [Kinds -> [Operations -> Answers \cup {"none", "waiting"}]]

Native == [up : BOOLEAN, attempt : Operations \cup {None}, auth : Credential \cup {None}]

Inv ==
    /\ VaultInv(vault)
    /\ TypeOK
    /\ LogoutOpen /\ LogoutQueued
    /\ Quiet
    /\ Backed

-----------------------------------------------------------------------------
(* Steps on vault values. *)

\* What changing the status and the id of one login does.
LEMMA Moved ==
    ASSUME NEW v \in VaultState, NEW o \in Operations, NEW s \in LoginStatus,
           NEW id \in Operations \cup {None}
    PROVE  LET n == [v EXCEPT !.login[o] = [status |-> s, id |-> id]] IN
           /\ n \in VaultState
           /\ n.disconnect = v.disconnect /\ n.connection = v.connection
           /\ \A p \in Operations :
                 n.login[p] = IF p = o THEN [status |-> s, id |-> id] ELSE v.login[p]
  BY DEF VaultState, ManagedLogin

\* A change of status is a change of status and id that keeps the id.
LEMMA StatusMoved ==
    ASSUME NEW v \in VaultState, NEW o \in Operations, NEW s \in LoginStatus
    PROVE  /\ SetStatus(v, o, s) = [v EXCEPT !.login[o] = [status |-> s, id |-> v.login[o].id]]
           /\ v.login[o].id \in Operations \cup {None}
  BY DEF SetStatus, VaultState, ManagedLogin

\* A login may go to any status from which nothing connects, if it does not
\* become live by that, and from starting to pending with its attempt's name.
LEMMA MoveKeeps ==
    ASSUME NEW v, VaultInv(v), NEW o \in Operations, NEW s \in LoginStatus,
           NEW id \in Operations \cup {None},
           s \in Live => v.login[o].status \in Live,
           s = "pending" => id # None,
           s \in {"starting", "pending"} => v.login[o].status \in {"starting", "pending"}
    PROVE  LET n == [v EXCEPT !.login[o] = [status |-> s, id |-> id]] IN
           /\ VaultInv(n)
           /\ n.disconnect = v.disconnect /\ n.connection = v.connection
  <1> DEFINE n == [v EXCEPT !.login[o] = [status |-> s, id |-> id]]
  <1>1. /\ n \in VaultState
        /\ n.disconnect = v.disconnect /\ n.connection = v.connection
        /\ \A p \in Operations :
              n.login[p] = IF p = o THEN [status |-> s, id |-> id] ELSE v.login[p]
    BY Moved DEF VaultInv
  <1> HIDE DEF n
  <1>2. Alone(n)
    BY <1>1 DEF VaultInv, Alone
  <1>3. Named(n)
    BY <1>1 DEF VaultInv, Named
  <1>4. Isolated(n) /\ Unconnected(n)
    BY <1>1 DEF VaultInv, Isolated, Settled, Unconnected
  <1>5. VaultInv(n)
    BY <1>1, <1>2, <1>3, <1>4 DEF VaultInv
  <1> QED
    BY <1>1, <1>5 DEF n

\* The same for a change of status alone.
LEMMA StatusKeeps ==
    ASSUME NEW v, VaultInv(v), NEW o \in Operations, NEW s \in LoginStatus,
           s # "starting",
           s \in Live => v.login[o].status \in Live,
           s = "pending" => v.login[o].status = "pending"
    PROVE  LET n == SetStatus(v, o, s) IN
           /\ VaultInv(n)
           /\ n.disconnect = v.disconnect /\ n.connection = v.connection
  <1>1. v \in VaultState
    BY DEF VaultInv
  <1>2. /\ SetStatus(v, o, s) = [v EXCEPT !.login[o] = [status |-> s, id |-> v.login[o].id]]
        /\ v.login[o].id \in Operations \cup {None}
    BY <1>1, StatusMoved
  <1>3. s = "pending" => v.login[o].id # None
    BY DEF VaultInv, Named
  <1> QED
    BY <1>2, <1>3, MoveKeeps

\* A login may start when nothing is in flight, connected or disconnecting.
LEMMA StartKeeps ==
    ASSUME NEW v, VaultInv(v), NEW o \in Operations, Settled(v), v.connection = None,
           \A p \in Operations : v.login[p].status \notin InFlight
    PROVE  LET n == SetStatus(v, o, "starting") IN
           /\ VaultInv(n)
           /\ n.disconnect = v.disconnect /\ n.connection = v.connection
  <1> DEFINE n == SetStatus(v, o, "starting")
  <1>1. /\ n \in VaultState
        /\ n.disconnect = v.disconnect /\ n.connection = v.connection
        /\ \A p \in Operations : n.login[p].status = IF p = o THEN "starting" ELSE v.login[p].status
        /\ \A p \in Operations : n.login[p].id = v.login[p].id
    BY DEF VaultInv, VaultState, ManagedLogin, SetStatus, LoginStatus, InFlight
  <1> HIDE DEF n
  <1>2. Alone(n) /\ Named(n)
    BY <1>1 DEF VaultInv, Alone, Named, Live, InFlight
  <1>3. Isolated(n) /\ Unconnected(n)
    BY <1>1 DEF Isolated, Settled, Unconnected
  <1> QED
    BY <1>1, <1>2, <1>3 DEF VaultInv, n

\* A disconnect takes the connection and every login in flight with it.
LEMMA RevokedKeeps ==
    ASSUME NEW v, VaultInv(v), NEW o \in Operations
    PROVE  LET n == [Revoked(v) EXCEPT !.disconnect[o] = "pending"] IN
           /\ VaultInv(n)
           /\ n.disconnect = [v.disconnect EXCEPT ![o] = "pending"]
           /\ n.connection = None
  <1> DEFINE n == [Revoked(v) EXCEPT !.disconnect[o] = "pending"]
  <1>1. /\ n \in VaultState
        /\ n.disconnect = [v.disconnect EXCEPT ![o] = "pending"]
        /\ n.connection = None
        /\ \A p \in Operations : n.login[p].status \notin InFlight
    <2> DEFINE logins == [p \in Operations |->
                  IF v.login[p].status \in InFlight THEN [v.login[p] EXCEPT !.status = "revoked"]
                  ELSE v.login[p]]
    <2>1. v \in VaultState /\ Revoked(v) = [v EXCEPT !.connection = None, !.login = logins]
      BY DEF VaultInv, Revoked
    <2>2. \A p \in Operations : v.login[p] \in ManagedLogin
      BY <2>1 DEF VaultState
    <2>3. \A p \in Operations : logins[p] \in ManagedLogin /\ logins[p].status \notin InFlight
      BY <2>2 DEF ManagedLogin, LoginStatus, InFlight
    <2>4. logins \in [Operations -> ManagedLogin]
      BY <2>3
    <2> HIDE DEF logins
    <2>5. /\ Revoked(v) \in VaultState
          /\ Revoked(v).login = logins /\ Revoked(v).connection = None
          /\ Revoked(v).disconnect = v.disconnect
      BY <2>1, <2>4 DEF VaultState
    <2>6. n \in VaultState /\ n.login = logins /\ n.connection = None
          /\ n.disconnect = [v.disconnect EXCEPT ![o] = "pending"]
      BY <2>5 DEF VaultState, DisconnectStatus
    <2> QED
      BY <2>3, <2>6
  <1> HIDE DEF n
  <1>2. Alone(n) /\ Named(n) /\ Isolated(n) /\ Unconnected(n)
    BY <1>1 DEF Alone, Named, Isolated, Unconnected, Live, InFlight
  <1> QED
    BY <1>1, <1>2 DEF VaultInv, n

\* Startup closes every login and every disconnect.
LEMMA ReconciledKeeps ==
    ASSUME NEW v, VaultInv(v)
    PROVE  LET n == Reconciled(v) IN
           /\ VaultInv(n) /\ Settled(n) /\ n.connection = v.connection
  <1> DEFINE n == Reconciled(v)
  <1>1. /\ n \in VaultState
        /\ Settled(n) /\ n.connection = v.connection
        /\ \A p \in Operations : n.login[p].status \notin InFlight
    <2> DEFINE logins == [p \in Operations |->
                  IF v.login[p].status \in InFlight
                  THEN [v.login[p] EXCEPT !.status = IF p \in expired THEN "expired" ELSE "interrupted"]
                  ELSE v.login[p]]
               disconnects == [p \in Operations |->
                  IF v.disconnect[p] = "absent" THEN "absent" ELSE "completed"]
    <2>1. v \in VaultState /\ n = [v EXCEPT !.login = logins, !.disconnect = disconnects]
      BY DEF VaultInv, Reconciled
    <2>2. \A p \in Operations : v.login[p] \in ManagedLogin
      BY <2>1 DEF VaultState
    <2>3. \A p \in Operations : logins[p] \in ManagedLogin /\ logins[p].status \notin InFlight
      BY <2>2 DEF ManagedLogin, LoginStatus, InFlight
    <2>4. logins \in [Operations -> ManagedLogin]
      BY <2>3
    <2>5. disconnects \in [Operations -> DisconnectStatus]
          /\ \A p \in Operations : disconnects[p] \in {"absent", "completed"}
      BY DEF DisconnectStatus
    <2> HIDE DEF logins, disconnects, n
    <2>6. /\ n \in VaultState /\ n.connection = v.connection
          /\ n.login = logins /\ n.disconnect = disconnects
      BY <2>1, <2>4, <2>5 DEF VaultState
    <2> QED
      BY <2>3, <2>5, <2>6 DEF Settled
  <1> HIDE DEF n
  <1>2. Alone(n) /\ Named(n) /\ Isolated(n) /\ Unconnected(n)
    BY <1>1 DEF Alone, Named, Isolated, Unconnected, Live, InFlight
  <1> QED
    BY <1>1, <1>2 DEF VaultInv, n

\* A login that can complete may do so with the credential of auth.json.
LEMMA CompletedKeeps ==
    ASSUME NEW v, VaultInv(v), NEW o \in Operations, NEW c \in Credential,
           NEW id \in Operations,
           v.login[o].status \in {"starting", "pending"}
    PROVE  LET n == [[v EXCEPT !.login[o] = [status |-> "completed", id |-> id]] EXCEPT
                        !.connection = [operation |-> o, credential |-> c]] IN
           VaultInv(n) /\ n.disconnect = v.disconnect
  <1> DEFINE n == [[v EXCEPT !.login[o] = [status |-> "completed", id |-> id]] EXCEPT
                      !.connection = [operation |-> o, credential |-> c]]
  <1>1. /\ n \in VaultState
        /\ n.disconnect = v.disconnect
        /\ \A p \in Operations :
              n.login[p] = IF p = o THEN [status |-> "completed", id |-> id] ELSE v.login[p]
    <2> DEFINE m == [v EXCEPT !.login[o] = [status |-> "completed", id |-> id]]
    <2>2. /\ m \in VaultState /\ m.disconnect = v.disconnect
          /\ \A p \in Operations :
                m.login[p] = IF p = o THEN [status |-> "completed", id |-> id] ELSE v.login[p]
      BY Moved DEF VaultInv, LoginStatus
    <2>3. n = [m EXCEPT !.connection = [operation |-> o, credential |-> c]]
      OBVIOUS
    <2>4. [operation |-> o, credential |-> c] \in Connection
      BY DEF Connection
    <2> HIDE DEF m, n
    <2> QED
      BY <2>2, <2>3, <2>4 DEF VaultState
  <1> HIDE DEF n
  <1>2. Settled(v) /\ Settled(n)
    BY <1>1 DEF VaultInv, Isolated, Settled
  <1>3. Alone(n) /\ Named(n) /\ Isolated(n) /\ Unconnected(n)
    BY <1>1, <1>2 DEF VaultInv, Alone, Named, Isolated, Unconnected, Live
  <1> QED
    BY <1>1, <1>3 DEF VaultInv, n

-----------------------------------------------------------------------------
(* Steps of handlers and of their calls. *)

\* A handler other than a disconnect that takes its answer preserves Inv if what
\* it commits does.
LEMMA Answering ==
    ASSUME Inv, NEW kind \in Kinds \ {"logout"}, NEW o \in Operations, Answered(kind, o),
           VaultInv(vault'), vault'.disconnect = vault.disconnect,
           vault'.connection = vault.connection
    PROVE  Inv'
  <1>1. /\ call' \in Calls
        /\ call'["logout"] = call["logout"]
        /\ call # NoCalls
    BY DEF Inv, TypeOK, Answered, Calls, NoCalls, Kinds, Answers
  <1>2. TypeOK'
    BY <1>1 DEF Inv, TypeOK, Answered, VaultInv, Calls
  <1>3. LogoutOpen' /\ LogoutQueued'
    BY <1>1 DEF Inv, LogoutOpen, LogoutQueued, Answered
  <1>4. Quiet' /\ Backed'
    BY <1>1 DEF Inv, Quiet, Backed, Answered
  <1> QED
    BY <1>2, <1>3, <1>4 DEF Inv

\* A handler other than a disconnect that sends a request preserves Inv if what
\* it commits does.
LEMMA Sending ==
    ASSUME Inv, NEW kind \in Kinds \ {"logout"}, NEW o \in Operations,
           NEW attempt \in Operations, Send(kind, o, attempt), Serving,
           VaultInv(vault'), vault'.disconnect = vault.disconnect,
           vault'.connection = vault.connection,
           UNCHANGED <<expired, native, events, ready, codex, codex_error>>
    PROVE  Inv'
  <1> DEFINE r == [kind |-> kind, operation |-> o, attempt |-> attempt]
  <1>1. /\ call' \in Calls
        /\ call'["logout"] = call["logout"]
    BY DEF Inv, TypeOK, Send, Calls, Kinds
  <1>2. queue \in Seq(Request) /\ r \in Request /\ queue' = Append(queue, r)
    BY DEF Inv, TypeOK, Send, Request
  <1>3. queue' \in Seq(Request)
    BY <1>2
  <1>4. TypeOK'
    BY <1>1, <1>3 DEF Inv, TypeOK, VaultInv, Calls
  <1>5. LogoutOpen'
    BY <1>1 DEF Inv, LogoutOpen
  <1>6. \A i \in 1..Len(queue') : queue'[i].kind = "logout" => i \in 1..Len(queue) /\ queue'[i] = queue[i]
    BY <1>2
  <1>7. LogoutQueued'
    BY <1>1, <1>6 DEF Inv, LogoutQueued
  <1>8. Quiet' /\ Backed'
    BY DEF Inv, Quiet, Backed, Serving
  <1> QED
    BY <1>4, <1>5, <1>7, <1>8 DEF Inv

\* Steps of clients, clocks and the native process that commit nothing and
\* tell no caller of a logout anything but that it failed.
LEMMA Elsewhere ==
    ASSUME Inv, TypeOK', vault' = vault, codex' = codex,
           queue' = queue \/ queue' = <<>>,
           codex \/ (queue' = queue /\ call' = call),
           native'.auth # native.auth => native'.auth # None,
           \A o \in Operations : call'["logout"][o] # call["logout"][o] =>
              /\ call["logout"][o] # "none"
              /\ call'["logout"][o] \in {"none", "error"}
    PROVE  Inv'
  <1>1. LogoutOpen' /\ Quiet' /\ Backed'
    BY DEF Inv, LogoutOpen, Quiet, Backed
  <1>2. CASE queue' = queue
    <2>1. \A i \in 1..Len(queue) : queue[i].kind \in Kinds /\ queue[i].operation \in Operations
      <3>1. queue \in Seq(Request)
        BY DEF Inv, TypeOK
      <3>2. \A i \in 1..Len(queue) : queue[i] \in Request
        BY <3>1
      <3> QED
        BY <3>2 DEF Request
    <2>2. LogoutQueued'
      BY <1>2, <2>1 DEF Inv, LogoutQueued
    <2> QED
      BY <1>1, <2>2 DEF Inv
  <1>3. CASE queue' = <<>>
    <2>1. LogoutQueued'
      BY <1>3 DEF LogoutQueued
    <2> QED
      BY <1>1, <2>1 DEF Inv
  <1> QED
    BY <1>2, <1>3

-----------------------------------------------------------------------------
(* The actions. *)

\* Statuses are typed.
LEMMA StatusIn == ASSUME Inv, NEW o \in Operations PROVE Status(o) \in LoginStatus
  BY DEF Inv, VaultInv, VaultState, ManagedLogin, Status

\* start_login up to its call: nothing is in flight, so the new login is alone.
LEMMA StartLoginInv == ASSUME Inv, NEW o \in Operations, StartLogin(o) PROVE Inv'
  <1>1. /\ VaultInv(vault') /\ vault'.disconnect = vault.disconnect
        /\ vault'.connection = vault.connection
    BY StartKeeps DEF Inv, StartLogin, Settled, DisconnectsSettled, Status
  <1>2. Send("start", o, o) /\ Serving /\ UNCHANGED <<expired, native, events, ready, codex, codex_error>>
    BY DEF StartLogin
  <1> QED
    BY <1>1, <1>2, Sending DEF Kinds

\* start_login after its call: only a login that is still starting gets a code.
LEMMA StartReturnsInv == ASSUME Inv, NEW o \in Operations, StartReturns(o) PROVE Inv'
  <1>1. \/ UNCHANGED vault
        \/ Status(o) = "starting" /\ vault' = [vault EXCEPT !.login[o] = [status |-> "pending", id |-> o]]
        \/ vault' = SetStatus(vault, o, "uncertain")
    BY DEF StartReturns
  <1>2. /\ VaultInv(vault') /\ vault'.disconnect = vault.disconnect
        /\ vault'.connection = vault.connection
    <2>1. CASE vault' = vault
      BY <2>1 DEF Inv
    <2>2. CASE vault' = SetStatus(vault, o, "uncertain")
      BY <2>2, StatusKeeps DEF Inv, LoginStatus, InFlight, Live
    <2>3. CASE /\ Status(o) = "starting"
               /\ vault' = [vault EXCEPT !.login[o] = [status |-> "pending", id |-> o]]
      BY <2>3, MoveKeeps, LoginAssumption DEF Inv, LoginStatus, InFlight, Live, Status
    <2> QED
      BY <1>1, <2>1, <2>2, <2>3
  <1>3. Answered("start", o)
    BY DEF StartReturns
  <1> QED
    BY <1>2, <1>3, Answering DEF Kinds

\* cancel_login up to its call: a pending login knows its attempt.
LEMMA CancelLoginInv == ASSUME Inv, NEW o \in Operations, CancelLogin(o) PROVE Inv'
  <1>1. /\ VaultInv(vault') /\ vault'.disconnect = vault.disconnect
        /\ vault'.connection = vault.connection
    BY StatusKeeps DEF Inv, CancelLogin, LoginStatus, InFlight, Live, Status
  <1>2. vault.login[o].id \in Operations
    BY DEF Inv, VaultInv, VaultState, ManagedLogin, Named, CancelLogin, Status
  <1>3. Send("cancel", o, vault.login[o].id) /\ Serving /\ UNCHANGED <<expired, native, events, ready, codex, codex_error>>
    BY DEF CancelLogin
  <1> QED
    BY <1>1, <1>2, <1>3, Sending DEF Kinds

\* cancel_login after its call: the login ends or becomes uncertain.
LEMMA CancelReturnsInv == ASSUME Inv, NEW o \in Operations, CancelReturns(o) PROVE Inv'
  <1>1. vault' \in {vault, SetStatus(vault, o, "cancelled"), SetStatus(vault, o, "uncertain")}
    BY DEF CancelReturns
  <1>2. /\ VaultInv(vault') /\ vault'.disconnect = vault.disconnect
        /\ vault'.connection = vault.connection
    <2>1. CASE vault' = vault
      BY <2>1 DEF Inv
    <2>2. ASSUME NEW s \in {"cancelled", "uncertain"}, vault' = SetStatus(vault, o, s)
          PROVE  /\ VaultInv(vault') /\ vault'.disconnect = vault.disconnect
                 /\ vault'.connection = vault.connection
      BY <2>2, StatusKeeps DEF Inv, LoginStatus, InFlight, Live
    <2> QED
      BY <1>1, <2>1, <2>2
  <1>3. Answered("cancel", o)
    BY DEF CancelReturns
  <1> QED
    BY <1>2, <1>3, Answering DEF Kinds

\* expire_logins up to its call.
LEMMA ExpireLoginInv == ASSUME Inv, NEW o \in Operations, ExpireLogin(o) PROVE Inv'
  <1>1. /\ VaultInv(vault') /\ vault'.disconnect = vault.disconnect
        /\ vault'.connection = vault.connection
    BY StatusKeeps DEF Inv, ExpireLogin, LoginStatus, InFlight, Live, Status
  <1>2. vault.login[o].id \in Operations
    BY DEF Inv, VaultInv, VaultState, ManagedLogin, Named, ExpireLogin, Status
  <1>3. Send("expire", o, vault.login[o].id) /\ Serving /\ UNCHANGED <<expired, native, events, ready, codex, codex_error>>
    BY DEF ExpireLogin, TaskIdle
  <1> QED
    BY <1>1, <1>2, <1>3, Sending DEF Kinds

\* expire_logins after its call.
LEMMA ExpireReturnsInv == ASSUME Inv, NEW o \in Operations, ExpireReturns(o) PROVE Inv'
  <1>1. vault' \in {vault, SetStatus(vault, o, "expired"), SetStatus(vault, o, "uncertain")}
    BY DEF ExpireReturns
  <1>2. /\ VaultInv(vault') /\ vault'.disconnect = vault.disconnect
        /\ vault'.connection = vault.connection
    <2>1. CASE vault' = vault
      BY <2>1 DEF Inv
    <2>2. ASSUME NEW s \in {"expired", "uncertain"}, vault' = SetStatus(vault, o, s)
          PROVE  /\ VaultInv(vault') /\ vault'.disconnect = vault.disconnect
                 /\ vault'.connection = vault.connection
      BY <2>2, StatusKeeps DEF Inv, LoginStatus, InFlight, Live
    <2> QED
      BY <1>1, <2>1, <2>2
  <1>3. Answered("expire", o)
    BY DEF ExpireReturns
  <1> QED
    BY <1>2, <1>3, Answering DEF Kinds

\* disconnect_chatgpt up to its call: its logout is new to the queue.
LEMMA DisconnectInv == ASSUME Inv, NEW o \in Operations, Disconnect(o) PROVE Inv'
  <1> DEFINE r == [kind |-> "logout", operation |-> o, attempt |-> o]
  <1>1. /\ VaultInv(vault')
        /\ vault'.disconnect = [vault.disconnect EXCEPT ![o] = "pending"]
        /\ vault'.connection = None
    BY RevokedKeeps DEF Inv, Disconnect, Withdrawn
  <1>2. vault.disconnect \in [Operations -> DisconnectStatus] /\ vault.disconnect[o] = "absent"
    BY DEF Inv, VaultInv, VaultState, Disconnect, CanDisconnect
  <1>3. /\ queue \in Seq(Request) /\ r \in Request /\ queue' = Append(queue, r)
        /\ call \in Calls /\ call' = [call EXCEPT !["logout"][o] = "waiting"]
        /\ UNCHANGED <<expired, native, events, ready, codex, codex_error>>
        /\ codex
    BY DEF Inv, TypeOK, Disconnect, Send, Request, Kinds, Calls, Serving
  <1>4. call' \in Calls /\ queue' \in Seq(Request)
    <2>1. call' \in Calls
      BY <1>3 DEF Calls
    <2>2. queue' \in Seq(Request)
      BY <1>3
    <2> QED
      BY <2>1, <2>2
  <1>5. TypeOK'
    BY <1>1, <1>3, <1>4 DEF Inv, TypeOK, VaultInv, Calls
  <1>6. call'["logout"] = [call["logout"] EXCEPT ![o] = "waiting"]
    BY <1>3 DEF Calls, Kinds
  <1>7. call["logout"] \in [Operations -> Answers \cup {"none", "waiting"}]
    BY <1>3 DEF Calls, Kinds
  <1>8. LogoutOpen'
    BY <1>1, <1>2, <1>6, <1>7 DEF Inv, LogoutOpen
  <1>9. \A i \in 1..Len(queue') :
           \/ i \in 1..Len(queue) /\ queue'[i] = queue[i] /\ queue[i] \in Request
           \/ i = Len(queue) + 1 /\ queue'[i] = r
    BY <1>3
  <1>10. \A i \in 1..Len(queue) : queue[i].kind = "logout" => queue[i].operation # o
    BY <1>2 DEF Inv, LogoutQueued
  <1>11. LogoutQueued'
    <2> SUFFICES ASSUME NEW i \in 1..Len(queue'), queue'[i].kind = "logout"
                 PROVE  /\ vault'.disconnect[queue'[i].operation] \in {"pending", "uncertain"}
                        /\ call'["logout"][queue'[i].operation] \in {"none", "waiting", "error"}
                        /\ \A j \in 1..Len(queue') :
                              queue'[j].kind = "logout" /\ queue'[j].operation = queue'[i].operation => j = i
      BY DEF LogoutQueued
    <2>1. CASE i \in 1..Len(queue) /\ queue'[i] = queue[i] /\ queue[i] \in Request
      <3>1. queue[i].operation \in Operations \ {o}
        BY <2>1, <1>10 DEF Request
      <3>2. \A j \in 1..Len(queue) :
                queue[j].kind = "logout" /\ queue[j].operation = queue[i].operation => j = i
        BY <2>1 DEF Inv, LogoutQueued
      <3>3. \A j \in 1..Len(queue') :
                queue'[j].kind = "logout" /\ queue'[j].operation = queue'[i].operation => j = i
        BY <2>1, <3>1, <3>2, <1>9
      <3>4. /\ vault.disconnect[queue[i].operation] \in {"pending", "uncertain"}
            /\ call["logout"][queue[i].operation] \in {"none", "waiting", "error"}
        BY <2>1 DEF Inv, LogoutQueued
      <3> QED
        BY <2>1, <3>1, <3>3, <3>4, <1>1, <1>2, <1>6, <1>7
    <2>2. CASE i = Len(queue) + 1 /\ queue'[i] = r
      <3>1. \A j \in 1..Len(queue') :
                queue'[j].kind = "logout" /\ queue'[j].operation = o => j = i
        BY <2>2, <1>9, <1>10
      <3> QED
        BY <2>2, <3>1, <1>1, <1>2, <1>6, <1>7
    <2> QED
      BY <1>9, <2>1, <2>2
  <1>12. Quiet' /\ Backed'
    BY <1>1, <1>3 DEF Quiet, Backed
  <1> QED
    BY <1>1, <1>5, <1>8, <1>11, <1>12 DEF Inv

\* The same handler without a native app server: nothing is sent.
LEMMA DisconnectUnsentInv == ASSUME Inv, NEW o \in Operations, DisconnectUnsent(o) PROVE Inv'
  <1>1. /\ VaultInv(vault')
        /\ vault'.disconnect = [vault.disconnect EXCEPT ![o] = "pending"]
        /\ vault'.connection = None
    BY RevokedKeeps DEF Inv, DisconnectUnsent, Withdrawn
  <1>2. vault.disconnect \in [Operations -> DisconnectStatus] /\ vault.disconnect[o] = "absent"
    BY DEF Inv, VaultInv, VaultState, DisconnectUnsent, CanDisconnect
  <1>3. UNCHANGED <<expired, call, queue, native, events, ready, codex, codex_error>>
    BY DEF DisconnectUnsent
  <1>4. TypeOK'
    BY <1>1, <1>3 DEF Inv, TypeOK, VaultInv
  <1>5. LogoutOpen'
    BY <1>1, <1>2, <1>3 DEF Inv, LogoutOpen
  <1>6. LogoutQueued'
    <2>1. \A i \in 1..Len(queue) : queue[i] \in Request
      <3>1. queue \in Seq(Request)
        BY DEF Inv, TypeOK
      <3> QED
        BY <3>1
    <2> QED
      BY <1>1, <1>2, <1>3, <2>1 DEF Inv, LogoutQueued, Request
  <1>7. Quiet' /\ Backed'
    BY <1>1, <1>3 DEF Inv, Quiet, Backed
  <1> QED
    BY <1>1, <1>4, <1>5, <1>6, <1>7 DEF Inv

\* disconnect_chatgpt after its call: the disconnect it closes is still open.
LEMMA LogoutReturnsInv == ASSUME Inv, NEW o \in Operations, LogoutReturns(o) PROVE Inv'
  <1> DEFINE s == IF call["logout"][o] = "error" THEN "uncertain" ELSE "completed"
  <1>1. /\ call \in Calls /\ call["logout"][o] \in Answers
        /\ call' = [call EXCEPT !["logout"][o] = "none"]
        /\ UNCHANGED <<expired, queue, native, events, ready, codex, codex_error>>
    BY DEF Inv, TypeOK, LogoutReturns, Answered, Calls
  <1>2. vault.disconnect[o] = "pending"
    BY <1>1 DEF Inv, LogoutOpen, Answers
  <1>3. /\ vault' \in VaultState /\ vault'.login = vault.login
        /\ vault'.connection = vault.connection
        /\ vault'.disconnect = [vault.disconnect EXCEPT ![o] = s]
        /\ vault.disconnect \in [Operations -> DisconnectStatus]
    BY DEF Inv, VaultInv, VaultState, LogoutReturns, DisconnectStatus
  <1>4. ~Settled(vault)
    BY <1>2 DEF Settled
  <1>5. VaultInv(vault')
    BY <1>3, <1>4 DEF Inv, VaultInv, Alone, Named, Isolated, Unconnected
  <1>6. /\ call' \in Calls
        /\ call'["logout"] = [call["logout"] EXCEPT ![o] = "none"]
        /\ call["logout"] \in [Operations -> Answers \cup {"none", "waiting"}]
    BY <1>1 DEF Calls, Kinds
  <1>7. TypeOK'
    BY <1>1, <1>3, <1>6 DEF Inv, TypeOK, Calls
  <1>8. LogoutOpen'
    BY <1>3, <1>6 DEF Inv, LogoutOpen
  <1>9. \A i \in 1..Len(queue) : queue[i].operation \in Operations
    <2>1. queue \in Seq(Request)
      BY DEF Inv, TypeOK
    <2>2. \A i \in 1..Len(queue) : queue[i] \in Request
      BY <2>1
    <2> QED
      BY <2>2 DEF Request
  <1>10. LogoutQueued'
    BY <1>1, <1>3, <1>6, <1>9 DEF Inv, LogoutQueued, Answers
  <1>11. Quiet' /\ Backed'
    BY <1>1, <1>3 DEF Inv, Quiet, Backed, NoCalls, Kinds, Answers
  <1> QED
    BY <1>5, <1>7, <1>8, <1>10, <1>11 DEF Inv

\* A notification: what it completes was still starting or pending.
LEMMA CheckpointLoginInv == ASSUME Inv, CheckpointLogin PROVE Inv'
  <1> DEFINE e == Head(events)
  <1>1. /\ TaskIdle /\ events # <<>> /\ events' = Tail(events)
        /\ UNCHANGED <<expired, call, queue, native, codex, codex_error>>
    BY DEF CheckpointLogin
  <1>2. events \in Seq(Event)
    BY DEF Inv, TypeOK
  <1>3. e \in Event /\ events' \in Seq(Event)
    BY <1>1, <1>2
  <1>4. \/ ready' = FALSE /\ UNCHANGED vault
        \/ UNCHANGED <<vault, ready>>
        \/ /\ e.attempt # None /\ UNCHANGED ready
           /\ \E o \in Operations :
                 Matches(e, o) /\ Checkpointed(e, o) /\ vault' = AfterCompletion(e, o)
    BY DEF CheckpointLogin
  <1>5. /\ VaultInv(vault') /\ ready' \in BOOLEAN
        /\ vault'.disconnect = vault.disconnect
        /\ vault'.connection # vault.connection => native.auth # None
    <2>1. CASE UNCHANGED vault
      BY <1>4, <2>1 DEF Inv, TypeOK
    <2>2. CASE /\ e.attempt # None /\ UNCHANGED ready
               /\ \E o \in Operations :
                     Matches(e, o) /\ Checkpointed(e, o) /\ vault' = AfterCompletion(e, o)
      <3>1. PICK o \in Operations :
                Matches(e, o) /\ Checkpointed(e, o) /\ vault' = AfterCompletion(e, o)
        BY <2>2
      <3>2. e.attempt \in Operations /\ ready' \in BOOLEAN
        BY <2>2, <1>3 DEF Event, Inv, TypeOK
      <3>3. vault.login[o].status \in {"starting", "pending"}
        BY <3>1 DEF Matches, Status
      <3>4. CASE o \in expired \/ ~e.success
        <4>1. PICK s \in {"uncertain", "failed"} :
                  vault' = [vault EXCEPT !.login[o] = [status |-> s, id |-> e.attempt]]
          BY <3>1, <3>4 DEF AfterCompletion
        <4> QED
          BY <4>1, <3>2, MoveKeeps DEF Inv, LoginStatus, InFlight, Live
      <3>5. CASE ~(o \in expired \/ ~e.success)
        <4>1. native.auth \in Credential /\ native.auth # None
          BY <3>1, <3>5 DEF Checkpointed, Inv, TypeOK
        <4>2. vault' = [[vault EXCEPT !.login[o] = [status |-> "completed", id |-> e.attempt]] EXCEPT
                            !.connection = [operation |-> o, credential |-> native.auth]]
          BY <3>1, <3>5 DEF AfterCompletion
        <4> QED
          BY <4>1, <4>2, <3>2, <3>3, CompletedKeeps, ZenonT(30) DEF Inv
      <3> QED
        BY <3>4, <3>5
    <2> QED
      BY <1>4, <2>1, <2>2
  <1>6. TypeOK'
    BY <1>1, <1>3, <1>5 DEF Inv, TypeOK, VaultInv
  <1>7. LogoutOpen' /\ LogoutQueued'
    BY <1>1, <1>5 DEF Inv, LogoutOpen, LogoutQueued
  <1>8. Quiet' /\ Backed'
    BY <1>1, <1>5 DEF Inv, Quiet, Backed
  <1> QED
    BY <1>5, <1>6, <1>7, <1>8 DEF Inv

\* The poll writes a refreshed credential, or ends the task.
LEMMA CheckpointRefreshInv == ASSUME Inv, CheckpointRefresh PROVE Inv'
  <1>1. CASE native.auth = None
    <2>1. /\ ready' = FALSE
          /\ UNCHANGED <<vault, expired, call, queue, native, events, codex, codex_error>>
      BY <1>1 DEF CheckpointRefresh
    <2>2. TypeOK'
      BY <2>1 DEF Inv, TypeOK
    <2> QED
      BY <2>1, <2>2, Elsewhere
  <1>2. CASE native.auth # None
    <2>1. /\ vault' = [vault EXCEPT !.connection.credential = native.auth]
          /\ vault.connection # None
          /\ UNCHANGED <<expired, call, queue, native, events, ready, codex, codex_error>>
      BY <1>2 DEF CheckpointRefresh
    <2>2. native.auth \in Credential /\ vault \in VaultState
      BY <1>2 DEF Inv, TypeOK
    <2>3. /\ vault' \in VaultState /\ vault'.login = vault.login
          /\ vault'.disconnect = vault.disconnect
      BY <2>1, <2>2 DEF VaultState, Connection
    <2>4. Settled(vault)
      BY <2>1 DEF Inv, VaultInv, Isolated
    <2>5. VaultInv(vault')
      BY <2>1, <2>3, <2>4 DEF Inv, VaultInv, Alone, Named, Isolated, Unconnected, Settled
    <2> QED
      BY <1>2, <2>1, <2>3, <2>5 DEF Inv, TypeOK, LogoutOpen, LogoutQueued, Quiet, Backed
  <1> QED
    BY <1>1, <1>2

\* A call that timed out leaves its request in the queue.
LEMMA TimeoutInv ==
    ASSUME Inv, NEW kind \in Kinds, NEW o \in Operations, Timeout(kind, o) PROVE Inv'
  <1>1. /\ call \in Calls /\ call[kind][o] = "waiting"
        /\ call' = [call EXCEPT ![kind][o] = "error"]
        /\ UNCHANGED <<vault, expired, queue, native, events, ready, codex, codex_error>>
    BY DEF Timeout, Inv, TypeOK, Calls
  <1>2. call' \in Calls /\ call # NoCalls
    BY <1>1 DEF Calls, Answers, NoCalls
  <1>3. TypeOK'
    BY <1>1, <1>2 DEF Inv, TypeOK, Calls
  <1>4. \A p \in Operations : call'["logout"][p] # call["logout"][p] =>
            call["logout"][p] # "none" /\ call'["logout"][p] \in {"none", "error"}
    BY <1>1 DEF Calls, Kinds
  <1>5. codex
    BY <1>2 DEF Inv, Quiet
  <1>6. vault' = vault /\ codex' = codex /\ queue' = queue /\ native' = native
    BY <1>1
  <1> QED
    BY <1>3, <1>4, <1>5, <1>6, Elsewhere

\* A dropped handler leaves its request in the queue.
LEMMA AbandonInv ==
    ASSUME Inv, NEW kind \in Kinds, NEW o \in Operations, Abandon(kind, o) PROVE Inv'
  <1>1. /\ call \in Calls /\ call[kind][o] # "none"
        /\ call' = [call EXCEPT ![kind][o] = "none"]
        /\ UNCHANGED <<vault, expired, queue, native, events, ready, codex, codex_error>>
    BY DEF Abandon, Inv, TypeOK, Calls
  <1>2. call' \in Calls /\ call # NoCalls
    BY <1>1 DEF Calls, Answers, NoCalls
  <1>3. TypeOK'
    BY <1>1, <1>2 DEF Inv, TypeOK, Calls
  <1>4. \A p \in Operations : call'["logout"][p] # call["logout"][p] =>
            call["logout"][p] # "none" /\ call'["logout"][p] \in {"none", "error"}
    BY <1>1 DEF Calls, Kinds
  <1>5. codex
    BY <1>2 DEF Inv, Quiet
  <1>6. vault' = vault /\ codex' = codex /\ queue' = queue /\ native' = native
    BY <1>1
  <1> QED
    BY <1>3, <1>4, <1>5, <1>6, Elsewhere

\* The end of the checkpoint task commits nothing.
LEMMA CheckpointEndsInv == ASSUME Inv, CheckpointEnds PROVE Inv'
  <1>1. /\ call \in Calls /\ call' = [call EXCEPT !["expire"] = NoCalls["expire"]]
        /\ ready' = FALSE /\ codex
        /\ UNCHANGED <<vault, expired, queue, native, events, codex, codex_error>>
    BY DEF CheckpointEnds, Inv, TypeOK, Calls, Serving
  <1>2. call' \in Calls /\ call'["logout"] = call["logout"]
    BY <1>1 DEF Calls, NoCalls, Kinds
  <1>3. TypeOK'
    BY <1>1, <1>2 DEF Inv, TypeOK, Calls
  <1>4. vault' = vault /\ codex' = codex /\ queue' = queue /\ native' = native
    BY <1>1
  <1> QED
    BY <1>1, <1>2, <1>3, <1>4, Elsewhere

\* Time passes.
LEMMA ExpiresInv == ASSUME Inv, NEW o \in Operations, Expires(o) PROVE Inv'
  <1>1. UNCHANGED <<vault, call, queue, native, events, ready, codex, codex_error>> /\ expired' = expired \cup {o}
    BY DEF Expires
  <1>2. TypeOK'
    BY <1>1 DEF Inv, TypeOK
  <1> QED
    BY <1>1, <1>2, Elsewhere

\* What the answer to a request changes.
LEMMA Replied ==
    ASSUME call \in Calls, NEW r \in Request, NEW answer \in Answers, Reply(r, answer)
    PROVE  /\ call' \in Calls
           /\ \A k \in Kinds, p \in Operations :
                 call'[k][p] # call[k][p] =>
                    k = r.kind /\ p = r.operation /\ call[k][p] # "none" /\ call'[k][p] # "none"
  <1>1. r.kind \in Kinds /\ r.operation \in Operations
    BY DEF Request
  <1>2. CASE call' = call
    BY <1>2
  <1>3. CASE /\ call[r.kind][r.operation] = "waiting"
             /\ call' = [call EXCEPT ![r.kind][r.operation] = answer]
    <2>1. call' \in Calls
      BY <1>1, <1>3 DEF Calls
    <2>2. answer # "none"
      BY DEF Answers
    <2>3. \A k \in Kinds, p \in Operations :
              call'[k][p] = IF k = r.kind /\ p = r.operation THEN answer ELSE call[k][p]
      BY <1>1, <1>3 DEF Calls
    <2> QED
      BY <1>3, <2>1, <2>2, <2>3
  <1> QED
    BY <1>2, <1>3 DEF Reply

\* A request that the native process takes leaves the others in the queue;
\* if it is a logout, there is no connection to lose.
LEMMA Served ==
    ASSUME Inv, queue # <<>>, queue' = Tail(queue),
           vault' = vault, expired' = expired, ready' = ready, codex' = codex,
           codex_error' = codex_error,
           NEW answer \in Answers, Reply(Head(queue), answer),
           native' \in Native, events' \in Seq(Event),
           Head(queue).kind # "logout" => native'.auth = native.auth
    PROVE  Inv'
  <1> DEFINE r == Head(queue)
  <1>1. queue \in Seq(Request) /\ call \in Calls /\ codex
    BY DEF Inv, TypeOK, Calls, Quiet
  <1>2. /\ r \in Request /\ queue' \in Seq(Request) /\ r = queue[1] /\ 1 \in 1..Len(queue)
        /\ \A i \in 1..Len(queue') : i + 1 \in 1..Len(queue) /\ queue'[i] = queue[i + 1] /\ i + 1 # 1
        /\ \A i \in 1..Len(queue) : queue[i] \in Request
    BY <1>1
  <1>3. /\ call' \in Calls
        /\ \A k \in Kinds, p \in Operations :
              call'[k][p] # call[k][p] =>
                 k = r.kind /\ p = r.operation /\ call[k][p] # "none" /\ call'[k][p] # "none"
    <2> HIDE DEF r
    <2>1. Reply(r, answer)
      BY DEF r
    <2> QED
      BY <1>1, <1>2, <2>1, Replied
  <1>4. \A p \in Operations :
           call'["logout"][p] # call["logout"][p] =>
              r.kind = "logout" /\ p = r.operation /\ call["logout"][p] # "none"
    BY <1>3 DEF Kinds
  <1>5. TypeOK'
    BY <1>2, <1>3 DEF Inv, TypeOK, Calls, Native
  <1>6. LogoutOpen'
    BY <1>4 DEF Inv, LogoutOpen
  <1>7. LogoutQueued'
    <2> SUFFICES ASSUME NEW i \in 1..Len(queue'), queue'[i].kind = "logout"
                 PROVE  /\ vault.disconnect[queue'[i].operation] \in {"pending", "uncertain"}
                        /\ call'["logout"][queue'[i].operation] \in {"none", "waiting", "error"}
                        /\ \A j \in 1..Len(queue') :
                              queue'[j].kind = "logout" /\ queue'[j].operation = queue'[i].operation => j = i
      BY DEF LogoutQueued
    <2>1. /\ i + 1 \in 1..Len(queue) /\ queue'[i] = queue[i + 1] /\ i + 1 # 1
          /\ queue[i + 1].kind = "logout" /\ queue[i + 1].operation \in Operations
      BY <1>2 DEF Request
    <2>2. /\ vault.disconnect[queue[i + 1].operation] \in {"pending", "uncertain"}
          /\ call["logout"][queue[i + 1].operation] \in {"none", "waiting", "error"}
          /\ \A j \in 1..Len(queue) :
                queue[j].kind = "logout" /\ queue[j].operation = queue[i + 1].operation => j = i + 1
      BY <2>1 DEF Inv, LogoutQueued
    <2>3. ~(r.kind = "logout" /\ r.operation = queue[i + 1].operation)
      BY <1>2, <2>1, <2>2
    <2>4. call'["logout"][queue[i + 1].operation] = call["logout"][queue[i + 1].operation]
      BY <1>4, <2>1, <2>3
    <2>5. ASSUME NEW j \in 1..Len(queue'),
                 queue'[j].kind = "logout", queue'[j].operation = queue'[i].operation
          PROVE  j = i
      <3>1. j + 1 \in 1..Len(queue) /\ queue'[j] = queue[j + 1]
        BY <1>2
      <3>2. j + 1 = i + 1
        BY <3>1, <2>1, <2>2, <2>5
      <3> QED
        BY <3>2
    <2> QED
      BY <2>1, <2>2, <2>4, <2>5
  <1>8. Quiet'
    BY <1>1 DEF Quiet
  <1>9. Backed'
    <2>1. CASE r.kind = "logout"
      <3>1. ~Settled(vault)
        BY <2>1, <1>2 DEF Inv, LogoutQueued, Settled, Request
      <3> QED
        BY <3>1 DEF Inv, VaultInv, Isolated, Backed
    <2>2. CASE r.kind # "logout"
      BY <2>2 DEF Inv, Backed
    <2> QED
      BY <2>1, <2>2
  <1>10. VaultInv(vault')
    BY DEF Inv
  <1> QED
    BY <1>5, <1>6, <1>7, <1>8, <1>9, <1>10 DEF Inv

\* The native process takes a request, and may answer anything it can.
LEMMA NativeServesInv == ASSUME Inv, NativeServes PROVE Inv'
  <1> DEFINE r == Head(queue)
  <1>1. /\ queue # <<>> /\ queue' = Tail(queue)
        /\ vault' = vault /\ expired' = expired /\ ready' = ready /\ codex' = codex
        /\ codex_error' = codex_error
    BY DEF NativeServes
  <1>2. queue \in Seq(Request) /\ events \in Seq(Event) /\ native \in Native
    BY DEF Inv, TypeOK, Native
  <1>3. r \in Request /\ r.attempt \in Operations
    <2>1. r \in Request
      BY <1>1, <1>2
    <2> QED
      BY <2>1 DEF Request
  <1>4. /\ native' \in Native /\ events' \in Seq(Event)
        /\ r.kind # "logout" => native'.auth = native.auth
        /\ \E answer \in Answers : Reply(r, answer)
    <2> HIDE DEF r
    <2>1. CASE ServeStart(r)
      BY <2>1, <1>2, <1>3 DEF ServeStart, Answers, Native
    <2>2. CASE ServeCancel(r)
      <3>1. events' \in Seq(Event)
        <4>1. CASE UNCHANGED events
          BY <4>1, <1>2
        <4>2. CASE events' = Append(events, [attempt |-> r.attempt, success |-> FALSE])
          BY <4>2, <1>2, <1>3 DEF Event
        <4> QED
          BY <2>2, <4>1, <4>2 DEF ServeCancel, Announce
      <3>2. native' \in Native /\ native'.auth = native.auth
        BY <2>2, <1>2 DEF ServeCancel, Native
      <3> QED
        BY <2>2, <3>1, <3>2 DEF ServeCancel, Answers
    <2>3. CASE ServeLogout(r)
      BY <2>3, <1>2 DEF ServeLogout, Answers, Native
    <2> QED
      BY <2>1, <2>2, <2>3 DEF NativeServes, r
  <1> QED
    BY <1>1, <1>4, Served

\* A device code is entered or given up: auth.json may only gain a credential.
LEMMA AttemptEndsInv == ASSUME Inv, NEW success \in BOOLEAN, AttemptEnds(success) PROVE Inv'
  <1> DEFINE c == [attempt |-> native.attempt, rotation |-> 0]
             e == [attempt |-> native.attempt, success |-> success]
  <1>1. /\ native.attempt # None
        /\ native' = [native EXCEPT !.attempt = None, !.auth = IF success THEN c ELSE native.auth]
        /\ events' = Append(events, e)
        /\ UNCHANGED <<vault, expired, call, queue, ready, codex, codex_error>>
    BY DEF AttemptEnds, Announce
  <1>2. native \in Native /\ events \in Seq(Event)
    BY DEF Inv, TypeOK, Native
  <1>3. c \in Credential /\ c # None /\ e \in Event
    BY <1>1, <1>2, LoginAssumption DEF Native, Credential, Event
  <1> HIDE DEF c, e
  <1>4. native' \in Native /\ native'.auth \in {c, native.auth}
    BY <1>1, <1>2, <1>3 DEF Native
  <1>5. events' \in Seq(Event)
    BY <1>1, <1>2, <1>3
  <1>6. TypeOK'
    BY <1>1, <1>4, <1>5 DEF Inv, TypeOK, Native
  <1>7. vault' = vault /\ codex' = codex /\ queue' = queue /\ call' = call
    BY <1>1
  <1> QED
    BY <1>3, <1>4, <1>6, <1>7, Elsewhere

\* The native process refreshes a token.
LEMMA RotatesInv == ASSUME Inv, Rotates PROVE Inv'
  <1>1. /\ native.auth # None /\ native.auth.rotation < MaxRotations
        /\ native' = [native EXCEPT !.auth.rotation = @ + 1]
        /\ UNCHANGED <<vault, expired, call, queue, events, ready, codex, codex_error>>
    BY DEF Rotates
  <1>2. native \in Native /\ native.auth \in Credential
    BY <1>1 DEF Inv, TypeOK, Native
  <1>3. native' \in Native /\ native'.auth \in Credential
    BY <1>1, <1>2, LoginAssumption DEF Native, Credential
  <1>4. native'.auth # None
    BY <1>3, LoginAssumption DEF Credential
  <1>5. TypeOK'
    BY <1>1, <1>3 DEF Inv, TypeOK, Native
  <1>6. vault' = vault /\ codex' = codex /\ queue' = queue /\ call' = call
    BY <1>1
  <1> QED
    BY <1>4, <1>5, <1>6, Elsewhere

\* The native process ends: its callers get errors, auth.json stays.
LEMMA NativeExitsInv == ASSUME Inv, NativeExits PROVE Inv'
  <1> DEFINE e == [attempt |-> None, success |-> FALSE]
  <1>1. /\ native' = [native EXCEPT !.up = FALSE, !.attempt = None]
        /\ queue' = <<>>
        /\ call' = [k \in Kinds |-> [o \in Operations |->
                      IF call[k][o] = "waiting" THEN "error" ELSE call[k][o]]]
        /\ events' = Append(events, e)
        /\ UNCHANGED <<vault, expired, ready, codex, codex_error>>
    BY DEF NativeExits, NativeDown, Announce
  <1>2. native \in Native /\ events \in Seq(Event) /\ call \in Calls
    BY DEF Inv, TypeOK, Native, Calls
  <1>3. native' \in Native /\ native'.auth = native.auth
    BY <1>1, <1>2 DEF Native
  <1>4. events' \in Seq(Event)
    <2>1. e \in Event
      BY DEF Event
    <2> QED
      BY <1>1, <1>2, <2>1
  <1>5. call' \in Calls
    BY <1>1, <1>2 DEF Calls, Answers
  <1>6. \A p \in Operations : call'["logout"][p] # call["logout"][p] =>
            call["logout"][p] # "none" /\ call'["logout"][p] \in {"none", "error"}
    BY <1>1 DEF Kinds
  <1>7. TypeOK'
    <2>1. queue' \in Seq(Request)
      BY <1>1
    <2> QED
      BY <1>1, <1>3, <1>4, <1>5, <2>1 DEF Inv, TypeOK, Native, Calls
  <1>8. ~codex => queue' = queue /\ call' = call
    BY <1>1 DEF Inv, Quiet, NoCalls
  <1>9. vault' = vault /\ codex' = codex /\ queue' = <<>>
    BY <1>1
  <1> QED
    BY <1>3, <1>6, <1>7, <1>8, <1>9, Elsewhere

\* A step that leaves no native process, no handler, no request and no caller.
LEMMA LeftInv ==
    ASSUME Inv, NEW auth \in Credential \cup {None}, NativeLeft(auth),
           vault' = vault, expired' = expired, call' = NoCalls, queue' = <<>>,
           events' \in Seq(Event), ready' \in BOOLEAN, codex' = FALSE,
           codex_error' \in {"none"} \cup StartError
    PROVE  Inv'
  <1>1. native' = [native EXCEPT !.up = FALSE, !.attempt = None, !.auth = auth]
    BY DEF NativeLeft, NativeDown, Inv, TypeOK
  <1>2. native' \in Native /\ call' \in Calls
    BY <1>1 DEF Inv, TypeOK, Native, Calls, NoCalls
  <1>3. TypeOK'
    <2>1. queue' \in Seq(Request)
      OBVIOUS
    <2> QED
      BY <1>2, <2>1 DEF Inv, TypeOK, Native, Calls
  <1>4. LogoutOpen' /\ LogoutQueued' /\ Quiet' /\ Backed'
    BY DEF LogoutOpen, LogoutQueued, Quiet, Backed, NoCalls, Kinds
  <1> QED
    BY <1>3, <1>4 DEF Inv

\* What is restored is the credential of the vault's connection.
LEMMA RestoredTyped ==
    ASSUME Inv
    PROVE  /\ RestoredAuth(vault) \in Credential \cup {None}
           /\ vault.connection # None => RestoredAuth(vault) \in Credential
  <1>1. vault.connection \in Connection \cup {None}
    BY DEF Inv, VaultInv, VaultState
  <1> QED
    BY <1>1 DEF RestoredAuth, Connection

\* A crash drops handlers, requests and notifications.
LEMMA CrashInv == ASSUME Inv, Crash PROVE Inv'
  <1>1. PICK auth \in {native.auth, None} : NativeLeft(auth)
    BY DEF Crash
  <1>2. auth \in Credential \cup {None}
    BY <1>1 DEF Inv, TypeOK
  <1>3. /\ codex' = FALSE /\ codex_error' = "none" /\ ready' = FALSE
        /\ call' = NoCalls /\ queue' = <<>> /\ events' = <<>>
        /\ vault' = vault /\ expired' = expired
    BY DEF Crash
  <1>4. events' \in Seq(Event)
    BY <1>3
  <1> QED
    BY <1>1, <1>2, <1>3, <1>4, LeftInv

\* A start without a native app server, or one that gives up, only writes auth.json.
LEMMA RestartWithoutInv ==
    ASSUME Inv, RestartRefused \/ \E error \in StartError : RestartWithout(error)
    PROVE  Inv'
  <1>1. PICK auth \in {native.auth, RestoredAuth(vault)} : NativeLeft(auth)
    BY DEF RestartRefused, RestartWithout
  <1>2. auth \in Credential \cup {None}
    BY <1>1, RestoredTyped DEF Inv, TypeOK
  <1>3. /\ ~codex /\ codex' = codex /\ vault' = vault /\ expired' = expired
        /\ call' = call /\ queue' = queue /\ events' = events
        /\ ready' \in {ready, TRUE} /\ codex_error' \in {codex_error} \cup StartError
    <2>1. CASE RestartRefused
      BY <2>1 DEF RestartRefused, Down
    <2>2. CASE \E error \in StartError : RestartWithout(error)
      BY <2>2 DEF RestartWithout, Down
    <2> QED
      BY <2>1, <2>2
  <1>4. /\ events' \in Seq(Event) /\ ready' \in BOOLEAN /\ codex' = FALSE
        /\ codex_error' \in {"none"} \cup StartError
        /\ call' = NoCalls /\ queue' = <<>>
    BY <1>3 DEF Inv, TypeOK, Quiet
  <1> QED
    BY <1>1, <1>2, <1>3, <1>4, LeftInv

\* A start rewrites auth.json from the vault and closes what was in flight.
LEMMA RestartInv == ASSUME Inv, Restart PROVE Inv'
  <1>1. /\ vault' = Reconciled(vault)
        /\ native' = [up |-> TRUE, attempt |-> None, auth |-> RestoredAuth(vault)]
        /\ codex' = TRUE /\ ready' = TRUE
        /\ UNCHANGED <<expired, call, queue, events, codex_error>>
        /\ ~codex
    BY DEF Restart, Down
  <1>2. VaultInv(vault') /\ vault'.connection = vault.connection
    BY <1>1, ReconciledKeeps DEF Inv
  <1>3. queue' = <<>> /\ call' = NoCalls
    BY <1>1 DEF Inv, Quiet
  <1>4. vault.connection # None => native'.auth # None
    BY <1>1, RestoredTyped, LoginAssumption DEF Credential
  <1>5. TypeOK'
    BY <1>1, <1>2, RestoredTyped DEF Inv, TypeOK, VaultInv
  <1>6. LogoutOpen' /\ LogoutQueued' /\ Quiet' /\ Backed'
    BY <1>1, <1>2, <1>3, <1>4 DEF LogoutOpen, LogoutQueued, Quiet, Backed, NoCalls, Kinds
  <1> QED
    BY <1>2, <1>5, <1>6 DEF Inv

-----------------------------------------------------------------------------
(* The invariant. *)

\* The empty vault satisfies the invariant.
LEMMA InitInv == Init => Inv
  <1> SUFFICES ASSUME Init PROVE Inv
    OBVIOUS
  <1>1. /\ vault \in VaultState /\ vault.connection = None
        /\ \A o \in Operations : vault.login[o].status = "absent" /\ vault.disconnect[o] = "absent"
    BY DEF Init, VaultState, ManagedLogin, LoginStatus, DisconnectStatus
  <1>2. VaultInv(vault)
    BY <1>1 DEF VaultInv, Alone, Named, Isolated, Unconnected, Live
  <1>3. queue \in Seq(Request) /\ events \in Seq(Event)
    BY DEF Init
  <1>4. call \in Calls
    BY DEF Init, NoCalls, Calls
  <1>5. TypeOK
    BY <1>1, <1>3, <1>4 DEF Init, TypeOK, Calls
  <1>6. LogoutOpen /\ LogoutQueued /\ Quiet /\ Backed
    BY <1>1 DEF Init, NoCalls, Kinds, LogoutOpen, LogoutQueued, Quiet, Backed
  <1> QED
    BY <1>2, <1>5, <1>6 DEF Inv

\* Every action preserves it.
LEMMA NextInv == Inv /\ [Next]_vars => Inv'
  <1> SUFFICES ASSUME Inv, [Next]_vars PROVE Inv'
    OBVIOUS
  <1>1. ASSUME NEW o \in Operations,
               \/ StartLogin(o) \/ StartReturns(o) \/ CancelLogin(o) \/ CancelReturns(o)
               \/ Disconnect(o) \/ DisconnectUnsent(o) \/ LogoutReturns(o)
               \/ ExpireLogin(o) \/ ExpireReturns(o) \/ Expires(o)
        PROVE  Inv'
    BY <1>1, StartLoginInv, StartReturnsInv, CancelLoginInv, CancelReturnsInv, DisconnectInv,
       DisconnectUnsentInv, LogoutReturnsInv, ExpireLoginInv, ExpireReturnsInv, ExpiresInv
  <1>2. ASSUME NEW kind \in Kinds, NEW o \in Operations, Timeout(kind, o) \/ Abandon(kind, o)
        PROVE  Inv'
    BY <1>2, TimeoutInv, AbandonInv
  <1>3. ASSUME CheckpointLogin \/ CheckpointRefresh \/ CheckpointEnds PROVE Inv'
    BY <1>3, CheckpointLoginInv, CheckpointRefreshInv, CheckpointEndsInv
  <1>4. ASSUME NativeServes \/ Rotates \/ NativeExits PROVE Inv'
    BY <1>4, NativeServesInv, RotatesInv, NativeExitsInv
  <1>5. ASSUME NEW success \in BOOLEAN, AttemptEnds(success) PROVE Inv'
    BY <1>5, AttemptEndsInv
  <1>6. ASSUME Crash \/ Restart \/ RestartRefused \/ \E error \in StartError : RestartWithout(error)
        PROVE  Inv'
    BY <1>6, CrashInv, RestartInv, RestartWithoutInv
  <1>7. ASSUME UNCHANGED vars PROVE Inv'
    <2>1. /\ vault' = vault /\ expired' = expired /\ call' = call /\ queue' = queue
          /\ native' = native /\ events' = events /\ ready' = ready /\ codex' = codex
          /\ codex_error' = codex_error
      BY <1>7 DEF vars
    <2>2. VaultInv(vault')
      BY <2>1 DEF Inv
    <2>3. TypeOK'
      BY <2>1 DEF Inv, TypeOK
    <2>4. LogoutOpen' /\ LogoutQueued' /\ Quiet' /\ Backed'
      BY <2>1 DEF Inv, LogoutOpen, LogoutQueued, Quiet, Backed
    <2> QED
      BY <2>2, <2>3, <2>4 DEF Inv
  <1> QED
    BY <1>1, <1>2, <1>3, <1>4, <1>5, <1>6, <1>7 DEF Next

-----------------------------------------------------------------------------
(* The theorems. *)

\* Every state the runtime reaches, with whatever the native process answers
\* and however often handlers are dropped and processes crash, satisfies Inv.
THEOREM LoginInvariance == Spec => []Inv
  BY InitInv, NextInv, PTL DEF Spec

\* The shape of every variable, for every set of operations.
THEOREM LoginTypes == Spec => []TypeOK
  <1>1. Inv => TypeOK
    BY DEF Inv
  <1> QED
    BY <1>1, LoginInvariance, PTL

\* start_login looks for logins in flight and commits under one lock, so at
\* most one login is live, although its attempt gets its name much later.
THEOREM OneLoginAtATime == Spec => []OneAttempt
  <1>1. Inv => OneAttempt
    <2> SUFFICES ASSUME Inv PROVE OneAttempt
      OBVIOUS
    <2> DEFINE live == {o \in Operations : Status(o) \in Live}
    <2>1. \A o, p \in live : o = p
      BY DEF Inv, VaultInv, Alone, Status
    <2>2. CASE live = {}
      <3>1. Cardinality(live) = 0
        BY <2>2, FS_EmptySet
      <3> QED
        BY <3>1 DEF OneAttempt, Live
    <2>3. CASE live # {}
      <3>1. PICK o : live = {o}
        BY <2>1, <2>3
      <3>2. Cardinality(live) = 1
        BY <3>1, FS_Singleton
      <3> QED
        BY <3>2 DEF OneAttempt, Live
    <2> QED
      BY <2>2, <2>3
  <1> QED
    BY <1>1, LoginInvariance, PTL

\* A disconnect whose outcome is unknown keeps the vault without a connection
\* and without a login that could bring one.
THEOREM DisconnectsIsolate == Spec => []DisconnectIsolates
  <1>1. Inv => DisconnectIsolates
    BY DEF Inv, VaultInv, Isolated, Settled, DisconnectIsolates, DisconnectsSettled, Status
  <1> QED
    BY <1>1, LoginInvariance, PTL

\* While the runtime serves with a native app server, that server has tokens for
\* what the vault reports as connected, and no logout waits in its queue; also
\* after earlier starts without one, which may leave auth.json as it is or absent.
THEOREM ConnectionsBacked == Spec => []ConnectionBacked
  <1>1. Inv => ConnectionBacked
    <2> SUFFICES ASSUME Inv, codex, vault.connection # None
                 PROVE  native.auth # None /\ \A i \in DOMAIN queue : queue[i].kind # "logout"
      BY DEF ConnectionBacked
    <2>1. native.auth # None
      BY DEF Inv, Backed
    <2>2. queue \in Seq(Request)
      BY DEF Inv, TypeOK
    <2>3. DOMAIN queue = 1..Len(queue) /\ \A i \in 1..Len(queue) : queue[i] \in Request
      BY <2>2
    <2>4. Settled(vault)
      BY DEF Inv, VaultInv, Isolated
    <2>5. \A i \in 1..Len(queue) : queue[i].kind # "logout"
      BY <2>3, <2>4 DEF Inv, LogoutQueued, Settled, Request
    <2> QED
      BY <2>1, <2>3, <2>5
  <1> QED
    BY <1>1, LoginInvariance, PTL

-----------------------------------------------------------------------------
(* What a step may do to a login that ended and to the connection. *)

Ended(v, o) == v.login[o].status \notin {"absent", "starting", "pending", "completed"}

EndedStay(v, w) ==
    \A o \in Operations :
        Ended(v, o) => w.login[o].status \notin {"starting", "pending", "completed"}

\* A login that ended does not come back by a change that ends it once more.
LEMMA MoveEnds ==
    ASSUME NEW v \in VaultState, NEW o \in Operations, NEW s \in LoginStatus,
           NEW id \in Operations \cup {None},
           s \in {"starting", "pending", "completed"} => ~Ended(v, o)
    PROVE  LET n == [v EXCEPT !.login[o] = [status |-> s, id |-> id]] IN
           EndedStay(v, n) /\ n.connection = v.connection
  <1> DEFINE n == [v EXCEPT !.login[o] = [status |-> s, id |-> id]]
  <1>1. /\ n.connection = v.connection
        /\ \A p \in Operations :
              n.login[p] = IF p = o THEN [status |-> s, id |-> id] ELSE v.login[p]
    BY DEF VaultState, ManagedLogin
  <1> HIDE DEF n
  <1> QED
    BY <1>1 DEF EndedStay, Ended, n

\* The same for a change of status alone.
LEMMA StatusEnds ==
    ASSUME NEW v \in VaultState, NEW o \in Operations, NEW s \in LoginStatus,
           s \in {"starting", "pending", "completed"} => ~Ended(v, o)
    PROVE  LET n == SetStatus(v, o, s) IN EndedStay(v, n) /\ n.connection = v.connection
  <1>1. /\ SetStatus(v, o, s) = [v EXCEPT !.login[o] = [status |-> s, id |-> v.login[o].id]]
        /\ v.login[o].id \in Operations \cup {None}
    BY StatusMoved
  <1> QED
    BY <1>1, MoveEnds

\* Steps that commit to one login, or to none.
LEMMA LoginStepEnds ==
    ASSUME Inv, NEW o \in Operations,
           \/ StartLogin(o) \/ StartReturns(o) \/ CancelLogin(o) \/ CancelReturns(o)
           \/ ExpireLogin(o) \/ ExpireReturns(o)
    PROVE  EndedStay(vault, vault') /\ vault'.connection = vault.connection
  <1>1. vault \in VaultState
    BY DEF Inv, VaultInv
  <1>2. \/ UNCHANGED vault
        \/ vault' = SetStatus(vault, o, "starting") /\ Status(o) = "absent"
        \/ /\ vault' = [vault EXCEPT !.login[o] = [status |-> "pending", id |-> o]]
           /\ Status(o) = "starting"
        \/ \E s \in {"uncertain", "cancelling", "cancelled", "expiring", "expired"} :
              vault' = SetStatus(vault, o, s)
    BY DEF StartLogin, StartReturns, CancelLogin, CancelReturns, ExpireLogin, ExpireReturns
  <1>3. CASE UNCHANGED vault
    BY <1>3 DEF EndedStay, Ended
  <1>4. CASE vault' = SetStatus(vault, o, "starting") /\ Status(o) = "absent"
    BY <1>1, <1>4, StatusEnds DEF Ended, Status, LoginStatus, InFlight
  <1>5. CASE /\ vault' = [vault EXCEPT !.login[o] = [status |-> "pending", id |-> o]]
             /\ Status(o) = "starting"
    BY <1>1, <1>5, MoveEnds DEF Ended, Status, LoginStatus, InFlight
  <1>6. CASE \E s \in {"uncertain", "cancelling", "cancelled", "expiring", "expired"} :
                vault' = SetStatus(vault, o, s)
    BY <1>1, <1>6, StatusEnds DEF LoginStatus, InFlight
  <1> QED
    BY <1>2, <1>3, <1>4, <1>5, <1>6

\* A disconnect only revokes, and is the first of its operation.
LEMMA DisconnectEnds ==
    ASSUME Inv, NEW o \in Operations, Disconnect(o) \/ DisconnectUnsent(o)
    PROVE  EndedStay(vault, vault') /\ vault.disconnect[o] = "absent" /\ vault'.disconnect[o] = "pending"
  <1>1. vault \in VaultState /\ vault' = Withdrawn(o) /\ CanDisconnect(o)
    BY DEF Inv, VaultInv, Disconnect, DisconnectUnsent
  <1>2. vault'.login = [p \in Operations |->
            IF vault.login[p].status \in InFlight THEN [vault.login[p] EXCEPT !.status = "revoked"]
            ELSE vault.login[p]]
    BY <1>1 DEF Withdrawn, Revoked, VaultState
  <1>3. \A p \in Operations : vault'.login[p].status \in {vault.login[p].status, "revoked"}
    BY <1>1, <1>2 DEF VaultState, ManagedLogin
  <1>4. vault'.disconnect = [vault.disconnect EXCEPT ![o] = "pending"]
    BY <1>1, RevokedKeeps DEF Inv, Withdrawn
  <1>5. vault.disconnect \in [Operations -> DisconnectStatus] /\ vault.disconnect[o] = "absent"
    BY <1>1 DEF VaultState, CanDisconnect
  <1> QED
    BY <1>3, <1>4, <1>5 DEF EndedStay, Ended

\* A start only ends logins, and keeps the connection.
LEMMA RestartEnds ==
    ASSUME Inv, Restart
    PROVE  EndedStay(vault, vault') /\ vault'.connection = vault.connection
  <1>1. vault \in VaultState /\ vault' = Reconciled(vault)
    BY DEF Inv, VaultInv, Restart
  <1>2. vault'.login = [p \in Operations |->
            IF vault.login[p].status \in InFlight
            THEN [vault.login[p] EXCEPT !.status = IF p \in expired THEN "expired" ELSE "interrupted"]
            ELSE vault.login[p]]
    BY <1>1 DEF Reconciled, VaultState
  <1>3. \A p \in Operations :
            vault'.login[p].status \in {vault.login[p].status, "expired", "interrupted"}
    BY <1>1, <1>2 DEF VaultState, ManagedLogin
  <1>4. vault'.connection = vault.connection
    BY <1>1, ReconciledKeeps DEF Inv
  <1> QED
    BY <1>3, <1>4 DEF EndedStay, Ended

\* A notification only matches a login that found no connection to replace.
LEMMA CheckpointLoginEnds ==
    ASSUME Inv, CheckpointLogin
    PROVE  /\ EndedStay(vault, vault')
           /\ vault.connection # None => vault'.connection = vault.connection
  <1> DEFINE e == Head(events)
  <1>1. vault \in VaultState /\ events # <<>> /\ events \in Seq(Event)
    BY DEF Inv, VaultInv, TypeOK, CheckpointLogin
  <1>2. e \in Event
    BY <1>1
  <1>3. CASE UNCHANGED vault
    BY <1>3 DEF EndedStay, Ended
  <1>4. ASSUME NEW o \in Operations, Matches(e, o), e.attempt # None, vault' = AfterCompletion(e, o)
        PROVE  /\ EndedStay(vault, vault')
               /\ vault.connection # None => vault'.connection = vault.connection
    <2>1. ~Ended(vault, o) /\ vault.connection = None
      BY <1>4 DEF Matches, Status, Ended, Inv, VaultInv, Unconnected
    <2>2. e.attempt \in Operations
      BY <1>2, <1>4 DEF Event
    <2>3. PICK s \in {"uncertain", "failed", "completed"} :
              vault'.login = [vault EXCEPT !.login[o] = [status |-> s, id |-> e.attempt]].login
      BY <1>1, <1>4 DEF AfterCompletion, VaultState
    <2>4. EndedStay(vault, [vault EXCEPT !.login[o] = [status |-> s, id |-> e.attempt]])
      BY <1>1, <2>1, <2>2, MoveEnds DEF LoginStatus, InFlight
    <2> QED
      BY <2>1, <2>3, <2>4 DEF EndedStay
  <1> QED
    BY <1>3, <1>4 DEF CheckpointLogin

\* A refresh replaces the credential, not the connection.
LEMMA CheckpointRefreshEnds ==
    ASSUME Inv, CheckpointRefresh
    PROVE  /\ EndedStay(vault, vault')
           /\ vault'.connection # None
           /\ vault'.connection.operation = vault.connection.operation
  <1>1. vault \in VaultState /\ vault.connection # None
    BY DEF Inv, VaultInv, CheckpointRefresh
  <1>2. CASE native.auth = None
    BY <1>1, <1>2 DEF CheckpointRefresh, EndedStay, Ended
  <1>3. CASE native.auth # None
    <2>1. native.auth \in Credential
      BY <1>3 DEF Inv, TypeOK
    <2>2. vault' = [vault EXCEPT !.connection.credential = native.auth]
      BY <1>3 DEF CheckpointRefresh
    <2>3. vault.connection \in Connection
      BY <1>1 DEF VaultState
    <2>4. /\ vault'.login = vault.login
          /\ vault'.connection = [vault.connection EXCEPT !.credential = native.auth]
      BY <1>1, <2>2 DEF VaultState
    <2>5. vault'.connection \in Connection /\ vault'.connection.operation = vault.connection.operation
      BY <2>1, <2>3, <2>4 DEF Connection
    <2> QED
      BY <2>4, <2>5, LoginAssumption DEF EndedStay, Ended
  <1> QED
    BY <1>2, <1>3

\* Every other step leaves logins and connection alone.
LEMMA OtherStepEnds ==
    ASSUME Inv,
           \/ \E o \in Operations : LogoutReturns(o) \/ Expires(o)
           \/ \E kind \in Kinds, o \in Operations : Timeout(kind, o) \/ Abandon(kind, o)
           \/ CheckpointEnds \/ NativeServes \/ Rotates \/ NativeExits
           \/ \E success \in BOOLEAN : AttemptEnds(success)
           \/ Crash \/ RestartRefused \/ (\E error \in StartError : RestartWithout(error))
           \/ UNCHANGED vars
    PROVE  EndedStay(vault, vault') /\ vault'.connection = vault.connection
  <1>1. vault \in VaultState
    BY DEF Inv, VaultInv
  <1>2. \/ vault' = vault
        \/ \E o \in Operations : LogoutReturns(o)
    BY DEF Expires, Timeout, Abandon, CheckpointEnds, NativeServes, Rotates, NativeExits,
           AttemptEnds, Crash, RestartRefused, RestartWithout, vars
  <1>3. vault'.login = vault.login /\ vault'.connection = vault.connection
    BY <1>1, <1>2 DEF LogoutReturns, VaultState
  <1> QED
    BY <1>3 DEF EndedStay, Ended

\* A login that expired, failed, was cancelled, revoked or interrupted, or
\* whose outcome became uncertain, never completes and never shows its code
\* again, however late a completion or an answer of the native process is.
THEOREM NoneResurrected == Spec => NoResurrection
  <1>1. Inv /\ [Next]_vars => EndedStay(vault, vault')
    BY LoginStepEnds, DisconnectEnds, RestartEnds, CheckpointLoginEnds, CheckpointRefreshEnds,
       OtherStepEnds DEF Next
  <1>2. EndedStay(vault, vault') =>
            \A o \in Operations :
                Status(o) \notin {"absent", "starting", "pending", "completed"} =>
                    vault'.login[o].status \notin {"starting", "pending", "completed"}
    BY DEF EndedStay, Ended, Status
  <1> QED
    BY <1>1, <1>2, LoginInvariance, PTL DEF Spec, NoResurrection

\* A connection goes away or is replaced only in the step that first commits a
\* disconnect: not by a repeat, a late completion, a refresh or a restart.
THEOREM OnlyNewRevokes == Spec => OnlyNewDisconnectRevokes
  <1> DEFINE lost == /\ vault.connection # None
                     /\ \/ vault'.connection = None
                        \/ vault'.connection.operation # vault.connection.operation
             revoked == \E o \in Operations :
                           vault.disconnect[o] = "absent" /\ vault'.disconnect[o] = "pending"
  <1>1. Inv /\ [Next]_vars => (lost => revoked)
    BY LoginStepEnds, DisconnectEnds, RestartEnds, CheckpointLoginEnds, CheckpointRefreshEnds,
       OtherStepEnds DEF Next
  <1> QED
    BY <1>1, LoginInvariance, PTL DEF Spec, OnlyNewDisconnectRevokes

-----------------------------------------------------------------------------
(* Tokens of a withdrawn login do not come back.  Earned says so of the     *)
(* vault; the rest says where tokens can come from: a login is Known to the *)
(* native process from the request for its attempt until its tokens are     *)
(* forgotten, and while no disconnect is open only logins that ended by     *)
(* themselves, or may still do so, are known.                               *)

Kept == {"completed", "failed"}

Queued(q) == \E i \in 1..Len(queue) : queue[i].kind = "start" /\ queue[i].operation = q

Holds(q) == native.auth # None /\ native.auth.attempt = q

Known(q) == Queued(q) \/ native.attempt = q \/ Holds(q)

Rightful(q) ==
    \/ Status(q) \in Kept
    \/ /\ Status(q) \in InFlight
       /\ vault.connection = None
       /\ \A p \in Operations : Status(p) \in {"starting", "pending"} => p = q

Origin == codex /\ Settled(vault) => \A q \in Operations : Known(q) => Rightful(q)

Seen == \A q \in Operations : Known(q) => Status(q) # "absent"

\* An attempt is asked for, is under way or has given its tokens.
Once ==
    \A q \in Operations :
        /\ Queued(q) => native.attempt # q /\ ~Holds(q)
        /\ native.attempt = q => ~Holds(q)

\* The requests for attempts in the queue: each once, and none behind a logout;
\* and requests speak of the attempt of their own operation.
InQueue ==
    \A i, j \in 1..Len(queue) :
        /\ queue[i].kind = "start" /\ queue[j].kind = "start"
           /\ queue[i].operation = queue[j].operation => i = j
        /\ queue[i].kind = "logout" /\ queue[j].kind = "start" => j < i
        /\ queue[i].attempt = queue[i].operation

OwnName == \A o \in Operations : Status(o) = "pending" => vault.login[o].id = o

\* What was withdrawn from the native process it does not know any more.
Gone ==
    /\ \A k \in {"cancel", "expire"}, o \in Operations : call[k][o] = "canceled" => ~Known(o)
    /\ \A o \in Operations : call["logout"][o] \notin {"none", "waiting", "error"}
          => \A q \in Operations : ~Known(q)

Withdrawing ==
    \A o \in Operations :
        /\ call["cancel"][o] # "none" => Status(o) \in {"cancelling", "revoked"}
        /\ call["expire"][o] # "none" => Status(o) # "absent"

Earned == vault.connection # None => Status(vault.connection.credential.attempt) \in Kept

OriginInv ==
    Inv /\ Origin /\ Seen /\ Once /\ InQueue /\ OwnName /\ Gone /\ Withdrawing /\ Earned

\* The queue is typed.
LEMMA QueueTyped ==
    ASSUME Inv
    PROVE  queue \in Seq(Request) /\ \A i \in 1..Len(queue) : queue[i] \in Request
  <1>1. queue \in Seq(Request)
    BY DEF Inv, TypeOK
  <1> QED
    BY <1>1

\* A request that is added and asks for no attempt changes little.
LEMMA QueueGrows ==
    ASSUME OriginInv, NEW r \in Request, queue' = Append(queue, r), r.kind # "start",
           r.attempt = r.operation
    PROVE  InQueue' /\ \A q \in Operations : Queued(q)' <=> Queued(q)
  <1>1. queue \in Seq(Request)
    BY QueueTyped DEF OriginInv
  <1>2. Len(queue') = Len(queue) + 1 /\ Len(queue) \in Nat
    BY <1>1
  <1>3. /\ \A i \in 1..Len(queue) : i \in 1..Len(queue') /\ queue'[i] = queue[i]
        /\ \A i \in 1..Len(queue') : i \notin 1..Len(queue) => i = Len(queue) + 1 /\ queue'[i] = r
    BY <1>1
  <1>4. \A q \in Operations : Queued(q)' <=> Queued(q)
    BY <1>3 DEF Queued
  <1>5. InQueue'
    <2> SUFFICES ASSUME NEW i \in 1..Len(queue'), NEW j \in 1..Len(queue')
                 PROVE  /\ queue'[i].kind = "start" /\ queue'[j].kind = "start"
                           /\ queue'[i].operation = queue'[j].operation => i = j
                        /\ queue'[i].kind = "logout" /\ queue'[j].kind = "start" => j < i
                        /\ queue'[i].attempt = queue'[i].operation
      BY DEF InQueue
    <2>1. CASE i \in 1..Len(queue) /\ j \in 1..Len(queue)
      BY <2>1, <1>3 DEF OriginInv, InQueue
    <2>2. CASE i \notin 1..Len(queue) /\ j \in 1..Len(queue)
      BY <2>2, <1>2, <1>3
    <2>3. CASE j \notin 1..Len(queue)
      <3>1. queue'[i].attempt = queue'[i].operation
        BY <1>3 DEF OriginInv, InQueue
      <3> QED
        BY <2>3, <1>3, <3>1
    <2> QED
      BY <2>1, <2>2, <2>3
  <1> QED
    BY <1>4, <1>5

\* So does taking requests away.
LEMMA QueueShrinks ==
    ASSUME OriginInv, queue' = queue \/ queue' = <<>> \/ (queue # <<>> /\ queue' = Tail(queue))
    PROVE  InQueue' /\ \A q \in Operations : Queued(q)' => Queued(q)
  <1>1. queue \in Seq(Request)
    BY QueueTyped DEF OriginInv
  <1>2. CASE queue' = queue
    BY <1>2 DEF OriginInv, InQueue, Queued
  <1>3. CASE queue' = <<>>
    BY <1>3 DEF InQueue, Queued
  <1>4. CASE queue # <<>> /\ queue' = Tail(queue)
    <2>1. \A i \in 1..Len(queue') : i + 1 \in 1..Len(queue) /\ queue'[i] = queue[i + 1]
      BY <1>1, <1>4
    <2>2. InQueue'
      <3> SUFFICES ASSUME NEW i \in 1..Len(queue'), NEW j \in 1..Len(queue')
                   PROVE  /\ queue'[i].kind = "start" /\ queue'[j].kind = "start"
                             /\ queue'[i].operation = queue'[j].operation => i = j
                          /\ queue'[i].kind = "logout" /\ queue'[j].kind = "start" => j < i
                          /\ queue'[i].attempt = queue'[i].operation
        BY DEF InQueue
      <3>1. /\ queue[i + 1].kind = "start" /\ queue[j + 1].kind = "start"
               /\ queue[i + 1].operation = queue[j + 1].operation => i + 1 = j + 1
            /\ queue[i + 1].kind = "logout" /\ queue[j + 1].kind = "start" => j + 1 < i + 1
            /\ queue[i + 1].attempt = queue[i + 1].operation
        BY <2>1 DEF OriginInv, InQueue
      <3>2. (i + 1 = j + 1 => i = j) /\ (j + 1 < i + 1 => j < i)
        OBVIOUS
      <3> QED
        BY <2>1, <3>1, <3>2
    <2>3. \A q \in Operations : Queued(q)' => Queued(q)
      BY <2>1 DEF Queued
    <2> QED
      BY <2>2, <2>3
  <1> QED
    BY <1>2, <1>3, <1>4

\* Steps that commit nothing and after which no more logins are known.
LEMMA ForgetsKeeps ==
    ASSUME OriginInv, Inv', vault' = vault, codex' = codex, InQueue', Once',
           \A q \in Operations : Known(q)' => Known(q),
           \A k \in {"cancel", "expire"}, o \in Operations :
              /\ call'[k][o] = "canceled" => call[k][o] = "canceled" \/ ~Known(o)'
              /\ call'[k][o] # "none" => call[k][o] # "none",
           \A o \in Operations : call'["logout"][o] \notin {"none", "waiting", "error"} =>
              \/ call["logout"][o] \notin {"none", "waiting", "error"}
              \/ \A q \in Operations : ~Known(q)'
    PROVE  OriginInv'
  <1>1. \A q \in Operations : Status(q)' = Status(q)
    BY DEF Status
  <1>2. Origin'
    <2> SUFFICES ASSUME codex, Settled(vault), NEW q \in Operations, Known(q)'
                 PROVE  Rightful(q)'
      BY DEF Origin
    <2>1. Known(q)
      OBVIOUS
    <2>2. Rightful(q)
      BY <2>1 DEF OriginInv, Origin
    <2> QED
      BY <2>2, <1>1 DEF Rightful
  <1>3. Seen'
    <2> SUFFICES ASSUME NEW q \in Operations, Known(q)'
                 PROVE  Status(q)' # "absent"
      BY DEF Seen
    <2>1. Known(q)
      OBVIOUS
    <2> QED
      BY <2>1, <1>1 DEF OriginInv, Seen
  <1>4. OwnName' /\ Earned'
    BY <1>1 DEF OriginInv, OwnName, Earned, Status
  <1>5. Withdrawing'
    BY <1>1 DEF OriginInv, Withdrawing
  <1>6. Gone'
    <2>1. ASSUME NEW k \in {"cancel", "expire"}, NEW o \in Operations, call'[k][o] = "canceled"
          PROVE  ~Known(o)'
      <3>1. CASE ~Known(o)'
        BY <3>1
      <3>2. CASE call[k][o] = "canceled"
        <4>1. ~Known(o)
          BY <3>2 DEF OriginInv, Gone
        <4> QED
          BY <4>1
      <3> QED
        BY <2>1, <3>1, <3>2
    <2>2. ASSUME NEW o \in Operations, call'["logout"][o] \notin {"none", "waiting", "error"},
                 NEW q \in Operations
          PROVE  ~Known(q)'
      <3>1. CASE ~Known(q)'
        BY <3>1
      <3>2. CASE call["logout"][o] \notin {"none", "waiting", "error"}
        <4>1. ~Known(q)
          BY <3>2 DEF OriginInv, Gone
        <4> QED
          BY <4>1
      <3> QED
        BY <2>2, <3>1, <3>2
    <2> QED
      BY <2>1, <2>2 DEF Gone
  <1> QED
    BY <1>2, <1>3, <1>4, <1>5, <1>6 DEF OriginInv

\* The answer to a request changes one entry, of a caller that waits.
LEMMA ReplyWith ==
    ASSUME call \in Calls, NEW r \in Request, NEW answer \in Answers, Reply(r, answer)
    PROVE  \A k \in Kinds, p \in Operations :
              call'[k][p] # call[k][p] =>
                 k = r.kind /\ p = r.operation /\ call[k][p] = "waiting" /\ call'[k][p] = answer
  <1>1. r.kind \in Kinds /\ r.operation \in Operations
    BY DEF Request
  <1>2. CASE call' = call
    BY <1>2
  <1>3. CASE /\ call[r.kind][r.operation] = "waiting"
             /\ call' = [call EXCEPT ![r.kind][r.operation] = answer]
    <2>1. \A k \in Kinds, p \in Operations :
              call'[k][p] = IF k = r.kind /\ p = r.operation THEN answer ELSE call[k][p]
      BY <1>1, <1>3 DEF Calls
    <2> QED
      BY <1>3, <2>1
  <1> QED
    BY <1>2, <1>3 DEF Reply

\* Steps of the handlers and of the checkpoint task that move one login, which
\* was not yet Kept, and neither connect nor ask for an attempt.
LEMMA MoveOrigin ==
    ASSUME OriginInv, Inv', codex' = codex, native' = native, InQueue',
           \A q \in Operations : Queued(q)' <=> Queued(q),
           vault'.connection = vault.connection, vault'.disconnect = vault.disconnect,
           NEW o \in Operations, NEW s, s # "absent", NEW id,
           \A q \in Operations :
              vault'.login[q] = IF q = o THEN [status |-> s, id |-> id] ELSE vault.login[q],
           s = "pending" => id = o,
           s \in {"starting", "pending"} => Status(o) \in {"starting", "pending"},
           Status(o) \notin Kept,
           Known(o) /\ Status(o) \in InFlight => s \in InFlight \cup Kept,
           \A k \in {"cancel", "expire"}, p \in Operations :
              call'[k][p] = "canceled" => call[k][p] = "canceled",
           \A p \in Operations : call'["logout"][p] \notin {"none", "waiting", "error"} =>
              call["logout"][p] \notin {"none", "waiting", "error"},
           \A p \in Operations : call'["cancel"][p] # "none" =>
              (p # o /\ call["cancel"][p] # "none") \/ (p = o /\ s = "cancelling"),
           \A p \in Operations : call'["expire"][p] # "none" =>
              call["expire"][p] # "none" \/ p = o
    PROVE  OriginInv'
  <1>1. \A q \in Operations : Status(q)' = IF q = o THEN s ELSE Status(q)
    BY DEF Status
  <1>2. \A q \in Operations : (Holds(q)' <=> Holds(q)) /\ (Known(q)' <=> Known(q))
    BY DEF Holds, Known
  <1>3. Settled(vault') <=> Settled(vault)
    BY DEF Settled
  <1>4. Origin'
    <2> SUFFICES ASSUME codex, Settled(vault), NEW q \in Operations, Known(q)
                 PROVE  Rightful(q)'
      BY <1>2, <1>3 DEF Origin
    <2>1. Rightful(q)
      BY DEF OriginInv, Origin
    <2>2. CASE Status(q) \in Kept
      BY <2>2, <1>1 DEF Rightful
    <2>3. CASE /\ Status(q) \in InFlight
               /\ vault.connection = None
               /\ \A p \in Operations : Status(p) \in {"starting", "pending"} => p = q
      <3>1. Status(q)' \in InFlight \cup Kept
        BY <2>3, <1>1
      <3>2. \A p \in Operations : Status(p)' \in {"starting", "pending"} => p = q
        BY <2>3, <1>1
      <3> QED
        BY <2>3, <3>1, <3>2 DEF Rightful
    <2> QED
      BY <2>1, <2>2, <2>3 DEF Rightful
  <1>5. Seen'
    BY <1>1, <1>2 DEF OriginInv, Seen
  <1>6. Once'
    BY <1>2 DEF OriginInv, Once
  <1>7. OwnName'
    BY <1>1 DEF OriginInv, OwnName, Status
  <1>8. Gone'
    BY <1>2 DEF OriginInv, Gone
  <1>9. Withdrawing'
    BY <1>1 DEF OriginInv, Withdrawing
  <1>10. Earned'
    <2>1. vault.connection # None => vault.connection.credential.attempt \in Operations
      BY DEF OriginInv, Inv, VaultInv, VaultState, Connection, Credential
    <2> QED
      BY <2>1, <1>1 DEF OriginInv, Earned
  <1> QED
    BY <1>4, <1>5, <1>6, <1>7, <1>8, <1>9, <1>10 DEF OriginInv

\* What sending a request of a login's own attempt does to the calls.
LEMMA Sent ==
    ASSUME OriginInv, NEW kind \in Kinds \ {"start"}, NEW o \in Operations, Send(kind, o, o)
    PROVE  /\ InQueue' /\ \A q \in Operations : Queued(q)' <=> Queued(q)
           /\ \A k \in Kinds, p \in Operations :
                 call'[k][p] = IF k = kind /\ p = o THEN "waiting" ELSE call[k][p]
  <1> DEFINE r == [kind |-> kind, operation |-> o, attempt |-> o]
  <1>1. r \in Request /\ r.kind # "start" /\ r.attempt = r.operation /\ queue' = Append(queue, r)
    BY DEF Request, Send
  <1>2. InQueue' /\ \A q \in Operations : Queued(q)' <=> Queued(q)
    <2> HIDE DEF r
    <2> QED
      BY <1>1, QueueGrows
  <1>3. call \in Calls
    BY DEF OriginInv, Inv, TypeOK, Calls
  <1>4. \A k \in Kinds, p \in Operations :
            call'[k][p] = IF k = kind /\ p = o THEN "waiting" ELSE call[k][p]
    BY <1>3 DEF Send, Calls
  <1> QED
    BY <1>2, <1>4

\* What taking an answer does to the calls and the queue.
LEMMA Taken ==
    ASSUME OriginInv, NEW kind \in Kinds, NEW o \in Operations, Answered(kind, o)
    PROVE  /\ InQueue' /\ \A q \in Operations : Queued(q)' <=> Queued(q)
           /\ \A k \in Kinds, p \in Operations :
                 call'[k][p] = IF k = kind /\ p = o THEN "none" ELSE call[k][p]
           /\ native' = native /\ codex' = codex /\ queue' = queue
  <1>1. call \in Calls
    BY DEF OriginInv, Inv, TypeOK, Calls
  <1>2. UNCHANGED <<expired, queue, native, events, ready, codex, codex_error>>
    BY DEF Answered
  <1>3. InQueue' /\ \A q \in Operations : Queued(q)' <=> Queued(q)
    BY <1>2 DEF OriginInv, InQueue, Queued
  <1>4. \A k \in Kinds, p \in Operations :
            call'[k][p] = IF k = kind /\ p = o THEN "none" ELSE call[k][p]
    BY <1>1 DEF Answered, Calls
  <1> QED
    BY <1>2, <1>3, <1>4

-----------------------------------------------------------------------------
(* The actions and the tokens. *)

\* start_login up to its call: a new login is asked for when nobody the native
\* process knows can still complete.
LEMMA StartLoginOrigin == ASSUME OriginInv, NEW o \in Operations, StartLogin(o) PROVE OriginInv'
  <1> DEFINE r == [kind |-> "start", operation |-> o, attempt |-> o]
  <1>1. /\ Status(o) = "absent" /\ vault.connection = None /\ codex
        /\ \A p \in Operations : Status(p) \notin InFlight
        /\ vault' = SetStatus(vault, o, "starting")
        /\ UNCHANGED <<expired, native, events, ready, codex, codex_error>>
    BY DEF StartLogin, Serving
  <1>2. Settled(vault)
    BY DEF StartLogin, DisconnectsSettled, Settled
  <1>3. Inv' /\ Send("start", o, o)
    BY StartLoginInv DEF OriginInv, StartLogin
  <1>4. vault \in VaultState
    BY DEF OriginInv, Inv, VaultInv
  <1>5. /\ \A q \in Operations : vault'.login[q].id = vault.login[q].id
        /\ \A q \in Operations : Status(q)' = IF q = o THEN "starting" ELSE Status(q)
        /\ vault'.connection = None
    BY <1>1, <1>4 DEF SetStatus, VaultState, ManagedLogin, Status
  <1>6. \A q \in Operations : Known(q) => Status(q) \in Kept
    BY <1>1, <1>2 DEF OriginInv, Origin, Rightful
  <1>7. ~Known(o)
    BY <1>1 DEF OriginInv, Seen
  <1>8. queue \in Seq(Request) /\ \A i \in 1..Len(queue) : queue[i] \in Request
    BY QueueTyped DEF OriginInv
  <1>9. \A i \in 1..Len(queue) : queue[i].kind # "logout"
    BY <1>2, <1>8 DEF OriginInv, Inv, LogoutQueued, Settled, Request
  <1>10. queue' = Append(queue, r) /\ r \in Request
    BY <1>3 DEF Send, Request, Kinds
  <1>11. /\ \A i \in 1..Len(queue) : i \in 1..Len(queue') /\ queue'[i] = queue[i]
         /\ \A i \in 1..Len(queue') : i \notin 1..Len(queue) => i = Len(queue) + 1 /\ queue'[i] = r
         /\ Len(queue) + 1 \in 1..Len(queue') /\ queue'[Len(queue) + 1] = r
    <2> HIDE DEF r
    <2>1. /\ \A i \in 1..Len(queue) : i \in 1..Len(queue') /\ queue'[i] = queue[i]
          /\ \A i \in 1..Len(queue') : i \notin 1..Len(queue) => i = Len(queue) + 1 /\ queue'[i] = r
      BY <1>8, <1>10
    <2>2. Len(queue) + 1 \in 1..Len(queue') /\ queue'[Len(queue) + 1] = r
      BY <1>8, <1>10
    <2> QED
      BY <2>1, <2>2
  <1>12. r.kind = "start" /\ r.operation = o /\ r.attempt = o
    OBVIOUS
  <1> HIDE DEF r
  <1>13. \A q \in Operations : Queued(q)' <=> Queued(q) \/ q = o
    BY <1>11, <1>12 DEF Queued
  <1>14. \A q \in Operations : (Holds(q)' <=> Holds(q)) /\ (Known(q)' <=> Known(q) \/ q = o)
    BY <1>1, <1>13 DEF Holds, Known
  <1>15. InQueue'
    <2> SUFFICES ASSUME NEW i \in 1..Len(queue'), NEW j \in 1..Len(queue')
                 PROVE  /\ queue'[i].kind = "start" /\ queue'[j].kind = "start"
                           /\ queue'[i].operation = queue'[j].operation => i = j
                        /\ queue'[i].kind # "logout"
                        /\ queue'[i].attempt = queue'[i].operation
      BY DEF InQueue
    <2>1. queue'[i].attempt = queue'[i].operation /\ queue'[i].kind # "logout"
      BY <1>9, <1>11, <1>12 DEF OriginInv, InQueue
    <2>2. \A k \in 1..Len(queue) : queue[k].kind = "start" => queue[k].operation # o
      BY <1>7 DEF Known, Queued
    <2>3. CASE i \in 1..Len(queue) /\ j \in 1..Len(queue)
      BY <2>1, <2>3, <1>11 DEF OriginInv, InQueue
    <2>4. CASE i \notin 1..Len(queue) \/ j \notin 1..Len(queue)
      BY <2>1, <2>2, <2>4, <1>11, <1>12
    <2> QED
      BY <2>3, <2>4
  <1>16. Once'
    BY <1>1, <1>7, <1>13, <1>14 DEF OriginInv, Once, Known
  <1>17. Origin' /\ Seen'
    <2>1. ASSUME NEW q \in Operations, Known(q)'
          PROVE  Rightful(q)' /\ Status(q)' # "absent"
      <3>1. CASE q = o
        <4>1. Status(q)' = "starting"
          BY <3>1, <1>5
        <4>2. \A p \in Operations : Status(p)' \in {"starting", "pending"} => p = q
          BY <3>1, <1>1, <1>5 DEF InFlight
        <4> QED
          BY <4>1, <4>2, <1>5 DEF Rightful, InFlight
      <3>2. CASE q # o
        <4>1. Status(q)' \in Kept
          BY <2>1, <3>2, <1>5, <1>6, <1>14
        <4> QED
          BY <4>1 DEF Rightful, Kept
      <3> QED
        BY <3>1, <3>2
    <2> QED
      BY <2>1 DEF Origin, Seen
  <1>18. OwnName' /\ Earned'
    BY <1>5 DEF OriginInv, OwnName, Earned, Status
  <1>19. call \in Calls
    BY DEF OriginInv, Inv, TypeOK, Calls
  <1>20. \A k \in Kinds, p \in Operations : k # "start" => call'[k][p] = call[k][p]
    BY <1>3, <1>19 DEF Send, Calls, Kinds
  <1>21. call["cancel"][o] = "none" /\ call["expire"][o] = "none"
    BY <1>1 DEF OriginInv, Withdrawing
  <1>22. \A p \in Operations : call["logout"][p] = "none"
    BY <1>2 DEF OriginInv, Inv, LogoutOpen, Settled
  <1>23. Gone'
    <2>1. \A k \in {"cancel", "expire"}, p \in Operations : call'[k][p] = "canceled" => ~Known(p)'
      BY <1>14, <1>20, <1>21 DEF OriginInv, Gone, Kinds
    <2>2. \A p \in Operations : call'["logout"][p] = "none"
      BY <1>20, <1>22 DEF Kinds
    <2> QED
      BY <2>1, <2>2 DEF Gone
  <1>24. Withdrawing'
    BY <1>5, <1>20, <1>21 DEF OriginInv, Withdrawing, Kinds
  <1> QED
    BY <1>3, <1>15, <1>16, <1>17, <1>18, <1>23, <1>24 DEF OriginInv

\* start_login after its call: the code of a login that is still starting, or
\* an error.
LEMMA StartReturnsOrigin == ASSUME OriginInv, NEW o \in Operations, StartReturns(o) PROVE OriginInv'
  <1>1. Inv' /\ Answered("start", o)
    BY StartReturnsInv DEF OriginInv, StartReturns
  <1>2. /\ InQueue' /\ \A q \in Operations : Queued(q)' <=> Queued(q)
        /\ \A k \in Kinds, p \in Operations :
              call'[k][p] = IF k = "start" /\ p = o THEN "none" ELSE call[k][p]
        /\ native' = native /\ codex' = codex /\ queue' = queue
    BY <1>1, Taken DEF Kinds
  <1>3. \A k \in {"cancel", "expire", "logout"}, p \in Operations : call'[k][p] = call[k][p]
    BY <1>2 DEF Kinds
  <1>4. CASE vault' = vault
    <2>1. Once' /\ \A q \in Operations : Known(q)' <=> Known(q)
      BY <1>2 DEF OriginInv, Once, Known, Holds
    <2> QED
      BY <1>1, <1>2, <1>3, <1>4, <2>1, ForgetsKeeps
  <1>5. ASSUME NEW s \in {"pending", "uncertain"}, NEW id \in Operations \cup {None},
               s = "pending" => id = o, Status(o) = "starting",
               vault' = [vault EXCEPT !.login[o] = [status |-> s, id |-> id]]
        PROVE  OriginInv'
    <2>1. s \in LoginStatus /\ vault \in VaultState
      BY DEF LoginStatus, InFlight, OriginInv, Inv, VaultInv
    <2>2. /\ vault'.disconnect = vault.disconnect /\ vault'.connection = vault.connection
          /\ \A q \in Operations :
                vault'.login[q] = IF q = o THEN [status |-> s, id |-> id] ELSE vault.login[q]
      BY <1>5, <2>1, Moved
    <2>3. s # "absent" /\ s \in InFlight \cup Kept /\ Status(o) \in {"starting", "pending"}
          /\ Status(o) \notin Kept
      BY <1>5 DEF InFlight, Kept
    <2>4. call["cancel"][o] = "none"
      BY <1>5 DEF OriginInv, Withdrawing
    <2>5. /\ \A k \in {"cancel", "expire"}, p \in Operations :
                call'[k][p] = "canceled" => call[k][p] = "canceled"
          /\ \A p \in Operations : call'["logout"][p] \notin {"none", "waiting", "error"} =>
                call["logout"][p] \notin {"none", "waiting", "error"}
          /\ \A p \in Operations : call'["cancel"][p] # "none" =>
                (p # o /\ call["cancel"][p] # "none") \/ (p = o /\ s = "cancelling")
          /\ \A p \in Operations : call'["expire"][p] # "none" =>
                call["expire"][p] # "none" \/ p = o
      BY <1>3, <2>4
    <2> QED
      BY <1>1, <1>2, <1>5, <2>2, <2>3, <2>5, MoveOrigin
  <1>6. vault \in VaultState
    BY DEF OriginInv, Inv, VaultInv
  <1>7. /\ SetStatus(vault, o, "uncertain") =
              [vault EXCEPT !.login[o] = [status |-> "uncertain", id |-> vault.login[o].id]]
        /\ vault.login[o].id \in Operations \cup {None}
    BY <1>6, StatusMoved DEF LoginStatus, InFlight
  <1>8. \/ vault' = vault
        \/ Status(o) = "starting" /\ vault' = [vault EXCEPT !.login[o] = [status |-> "pending", id |-> o]]
        \/ Status(o) = "starting" /\ vault' = SetStatus(vault, o, "uncertain")
    BY DEF StartReturns
  <1> QED
    BY <1>4, <1>5, <1>7, <1>8

\* cancel_login up to its call: it names the attempt of its own operation.
LEMMA CancelLoginOrigin == ASSUME OriginInv, NEW o \in Operations, CancelLogin(o) PROVE OriginInv'
  <1>1. Inv'
    BY CancelLoginInv DEF OriginInv
  <1>2. Status(o) = "pending" /\ vault.login[o].id = o
    BY DEF CancelLogin, OriginInv, OwnName
  <1>3. /\ vault' = SetStatus(vault, o, "cancelling")
        /\ Send("cancel", o, o)
        /\ native' = native /\ codex' = codex
    BY <1>2 DEF CancelLogin
  <1>4. /\ InQueue' /\ \A q \in Operations : Queued(q)' <=> Queued(q)
        /\ \A k \in Kinds, p \in Operations :
              call'[k][p] = IF k = "cancel" /\ p = o THEN "waiting" ELSE call[k][p]
    BY <1>3, Sent DEF Kinds
  <1>5. vault \in VaultState /\ "cancelling" \in LoginStatus
    BY DEF OriginInv, Inv, VaultInv, LoginStatus, InFlight
  <1>6. vault' = [vault EXCEPT !.login[o] = [status |-> "cancelling", id |-> o]]
    BY <1>2, <1>3, <1>5, StatusMoved
  <1>7. /\ vault'.disconnect = vault.disconnect /\ vault'.connection = vault.connection
        /\ \A q \in Operations :
              vault'.login[q] = IF q = o THEN [status |-> "cancelling", id |-> o] ELSE vault.login[q]
    BY <1>5, <1>6, Moved
  <1>8. Status(o) \notin Kept /\ "cancelling" \in InFlight \cup Kept
    BY <1>2 DEF Kept, InFlight
  <1>9. /\ \A k \in {"cancel", "expire"}, p \in Operations :
              call'[k][p] = "canceled" => call[k][p] = "canceled"
        /\ \A p \in Operations : call'["logout"][p] \notin {"none", "waiting", "error"} =>
              call["logout"][p] \notin {"none", "waiting", "error"}
        /\ \A p \in Operations : call'["cancel"][p] # "none" =>
              (p # o /\ call["cancel"][p] # "none") \/ (p = o /\ "cancelling" = "cancelling")
        /\ \A p \in Operations : call'["expire"][p] # "none" =>
              call["expire"][p] # "none" \/ p = o
    BY <1>4 DEF Kinds
  <1> DEFINE s == "cancelling"
  <1>10. /\ s # "absent" /\ (s = "pending" => o = o)
         /\ (s \in {"starting", "pending"} => Status(o) \in {"starting", "pending"})
    OBVIOUS
  <1> QED
    BY <1>1, <1>3, <1>4, <1>7, <1>8, <1>9, <1>10, MoveOrigin

\* expire_logins up to its call: likewise.
LEMMA ExpireLoginOrigin == ASSUME OriginInv, NEW o \in Operations, ExpireLogin(o) PROVE OriginInv'
  <1>1. Inv'
    BY ExpireLoginInv DEF OriginInv
  <1>2. Status(o) = "pending" /\ vault.login[o].id = o
    BY DEF ExpireLogin, OriginInv, OwnName
  <1>3. /\ vault' = SetStatus(vault, o, "expiring")
        /\ Send("expire", o, o)
        /\ native' = native /\ codex' = codex
    BY <1>2 DEF ExpireLogin
  <1>4. /\ InQueue' /\ \A q \in Operations : Queued(q)' <=> Queued(q)
        /\ \A k \in Kinds, p \in Operations :
              call'[k][p] = IF k = "expire" /\ p = o THEN "waiting" ELSE call[k][p]
    BY <1>3, Sent DEF Kinds
  <1>5. vault \in VaultState /\ "expiring" \in LoginStatus
    BY DEF OriginInv, Inv, VaultInv, LoginStatus, InFlight
  <1>6. vault' = [vault EXCEPT !.login[o] = [status |-> "expiring", id |-> o]]
    BY <1>2, <1>3, <1>5, StatusMoved
  <1>7. /\ vault'.disconnect = vault.disconnect /\ vault'.connection = vault.connection
        /\ \A q \in Operations :
              vault'.login[q] = IF q = o THEN [status |-> "expiring", id |-> o] ELSE vault.login[q]
    BY <1>5, <1>6, Moved
  <1>8. Status(o) \notin Kept /\ "expiring" \in InFlight \cup Kept
    BY <1>2 DEF Kept, InFlight
  <1>9. call["cancel"][o] = "none"
    BY <1>2 DEF OriginInv, Withdrawing
  <1>10. /\ \A k \in {"cancel", "expire"}, p \in Operations :
               call'[k][p] = "canceled" => call[k][p] = "canceled"
         /\ \A p \in Operations : call'["logout"][p] \notin {"none", "waiting", "error"} =>
               call["logout"][p] \notin {"none", "waiting", "error"}
         /\ \A p \in Operations : call'["cancel"][p] # "none" =>
               (p # o /\ call["cancel"][p] # "none") \/ (p = o /\ "expiring" = "cancelling")
         /\ \A p \in Operations : call'["expire"][p] # "none" =>
               call["expire"][p] # "none" \/ p = o
    BY <1>4, <1>9 DEF Kinds
  <1> DEFINE s == "expiring"
  <1>11. /\ s # "absent" /\ (s = "pending" => o = o)
         /\ (s \in {"starting", "pending"} => Status(o) \in {"starting", "pending"})
    OBVIOUS
  <1> QED
    BY <1>1, <1>3, <1>4, <1>7, <1>8, <1>10, <1>11, MoveOrigin

\* cancel_login and expire_logins after their calls: what they withdraw the
\* native process has forgotten.
LEMMA WithdrawalOrigin ==
    ASSUME OriginInv, Inv', NEW kind \in {"cancel", "expire"}, NEW o \in Operations,
           Answered(kind, o),
           vault' = vault \/
              \E s \in {"cancelled", "expired", "uncertain"} :
                 /\ vault' = SetStatus(vault, o, s)
                 /\ Status(o) \notin Kept /\ Status(o) # "absent"
                 /\ s = "uncertain" \/ call[kind][o] = "canceled"
                 /\ kind = "expire" => Status(o) = "expiring"
    PROVE  OriginInv'
  <1>2. /\ InQueue' /\ \A q \in Operations : Queued(q)' <=> Queued(q)
        /\ \A k \in Kinds, p \in Operations :
              call'[k][p] = IF k = kind /\ p = o THEN "none" ELSE call[k][p]
        /\ native' = native /\ codex' = codex /\ queue' = queue
    BY Taken DEF Kinds
  <1>3. /\ \A k \in {"cancel", "expire"}, p \in Operations :
              /\ call'[k][p] = "canceled" => call[k][p] = "canceled"
              /\ call'[k][p] # "none" => call[k][p] # "none"
        /\ \A p \in Operations : call'["logout"][p] = call["logout"][p]
    BY <1>2 DEF Kinds
  <1>4. CASE vault' = vault
    <2>1. Once' /\ \A q \in Operations : Known(q)' <=> Known(q)
      BY <1>2 DEF OriginInv, Once, Known, Holds
    <2> QED
      BY <1>2, <1>3, <1>4, <2>1, ForgetsKeeps
  <1>5. ASSUME NEW s \in {"cancelled", "expired", "uncertain"}, vault' = SetStatus(vault, o, s),
               Status(o) \notin Kept, Status(o) # "absent",
               s = "uncertain" \/ call[kind][o] = "canceled",
               kind = "expire" => Status(o) = "expiring"
        PROVE  OriginInv'
    <2> DEFINE id == vault.login[o].id
    <2>1. vault \in VaultState /\ s \in LoginStatus
      BY DEF OriginInv, Inv, VaultInv, LoginStatus, InFlight
    <2>2. vault' = [vault EXCEPT !.login[o] = [status |-> s, id |-> id]] /\ id \in Operations \cup {None}
      BY <1>5, <2>1, StatusMoved
    <2> HIDE DEF id
    <2>3. /\ vault'.disconnect = vault.disconnect /\ vault'.connection = vault.connection
          /\ \A q \in Operations :
                vault'.login[q] = IF q = o THEN [status |-> s, id |-> id] ELSE vault.login[q]
      BY <2>1, <2>2, Moved
    <2>4. /\ s # "absent" /\ (s = "pending" => id = o)
          /\ (s \in {"starting", "pending"} => Status(o) \in {"starting", "pending"})
      OBVIOUS
    <2>5. Known(o) /\ Status(o) \in InFlight => s \in InFlight \cup Kept
      <3>1. call[kind][o] = "canceled" => ~Known(o)
        BY DEF OriginInv, Gone
      <3> QED
        BY <3>1, <1>5 DEF InFlight
    <2>6. call'["cancel"][o] = "none"
      <3>1. kind = "expire" => call["cancel"][o] = "none"
        BY <1>5 DEF OriginInv, Withdrawing
      <3> QED
        BY <1>2, <3>1 DEF Kinds
    <2>7. /\ \A k \in {"cancel", "expire"}, p \in Operations :
                call'[k][p] = "canceled" => call[k][p] = "canceled"
          /\ \A p \in Operations : call'["logout"][p] \notin {"none", "waiting", "error"} =>
                call["logout"][p] \notin {"none", "waiting", "error"}
          /\ \A p \in Operations : call'["cancel"][p] # "none" =>
                (p # o /\ call["cancel"][p] # "none") \/ (p = o /\ s = "cancelling")
          /\ \A p \in Operations : call'["expire"][p] # "none" =>
                call["expire"][p] # "none" \/ p = o
      BY <1>3, <2>6
    <2> QED
      BY <1>2, <1>5, <2>3, <2>4, <2>5, <2>7, MoveOrigin
  <1> QED
    BY <1>4, <1>5

\* cancel_login after its call.
LEMMA CancelReturnsOrigin == ASSUME OriginInv, NEW o \in Operations, CancelReturns(o) PROVE OriginInv'
  <1>1. Inv' /\ Answered("cancel", o)
    BY CancelReturnsInv DEF OriginInv, CancelReturns
  <1>2. Status(o) \in {"cancelling", "revoked"}
    BY <1>1 DEF OriginInv, Withdrawing, Answered, Answers
  <1>3. \/ vault' = vault
        \/ vault' = SetStatus(vault, o, "cancelled") /\ call["cancel"][o] = "canceled"
        \/ vault' = SetStatus(vault, o, "uncertain")
    BY DEF CancelReturns
  <1>4. Status(o) \notin Kept /\ Status(o) # "absent"
    BY <1>2 DEF Kept
  <1> QED
    BY <1>1, <1>3, <1>4, WithdrawalOrigin

\* expire_logins after its call.
LEMMA ExpireReturnsOrigin == ASSUME OriginInv, NEW o \in Operations, ExpireReturns(o) PROVE OriginInv'
  <1>1. Inv' /\ Answered("expire", o)
    BY ExpireReturnsInv DEF OriginInv, ExpireReturns
  <1>2. \/ vault' = vault
        \/ /\ Status(o) = "expiring"
           /\ \/ vault' = SetStatus(vault, o, "expired") /\ call["expire"][o] = "canceled"
              \/ vault' = SetStatus(vault, o, "uncertain")
    BY DEF ExpireReturns
  <1>3. Status(o) = "expiring" => Status(o) \notin Kept /\ Status(o) # "absent"
    BY DEF Kept
  <1> QED
    BY <1>1, <1>2, <1>3, WithdrawalOrigin

\* What a disconnect and a restart do to the logins: those in flight end.
LEMMA LoginsEnd ==
    ASSUME NEW v \in VaultState, NEW o \in Operations
    PROVE  /\ LET n == [Revoked(v) EXCEPT !.disconnect[o] = "pending"] IN
              \A q \in Operations :
                 n.login[q].status = IF v.login[q].status \in InFlight THEN "revoked"
                                     ELSE v.login[q].status
           /\ \A q \in Operations :
                 /\ v.login[q].status \notin InFlight =>
                       Reconciled(v).login[q].status = v.login[q].status
                 /\ v.login[q].status \in InFlight =>
                       Reconciled(v).login[q].status \in {"expired", "interrupted"}
  <1>1. /\ v.login \in [Operations -> ManagedLogin] /\ DOMAIN v = {"login", "disconnect", "connection"}
        /\ \A q \in Operations : v.login[q] \in ManagedLogin
    BY DEF VaultState
  <1>2. \A q \in Operations :
           [v.login[q] EXCEPT !.status = "revoked"].status = "revoked"
    BY <1>1 DEF ManagedLogin
  <1>3. \A q \in Operations :
           [v.login[q] EXCEPT !.status = IF q \in expired THEN "expired" ELSE "interrupted"].status
              \in {"expired", "interrupted"}
    BY <1>1 DEF ManagedLogin
  <1>4. \A q \in Operations :
           [Revoked(v) EXCEPT !.disconnect[o] = "pending"].login[q] =
              IF v.login[q].status \in InFlight THEN [v.login[q] EXCEPT !.status = "revoked"]
              ELSE v.login[q]
    BY DEF Revoked, VaultState
  <1>5. \A q \in Operations :
           Reconciled(v).login[q] =
              IF v.login[q].status \in InFlight
              THEN [v.login[q] EXCEPT !.status = IF q \in expired THEN "expired" ELSE "interrupted"]
              ELSE v.login[q]
    BY DEF Reconciled, VaultState
  <1>6. \A q \in Operations :
           [Revoked(v) EXCEPT !.disconnect[o] = "pending"].login[q].status =
              IF v.login[q].status \in InFlight THEN "revoked" ELSE v.login[q].status
    <2> SUFFICES ASSUME NEW q \in Operations
                 PROVE  [Revoked(v) EXCEPT !.disconnect[o] = "pending"].login[q].status =
                           IF v.login[q].status \in InFlight THEN "revoked" ELSE v.login[q].status
      OBVIOUS
    <2> DEFINE l == [Revoked(v) EXCEPT !.disconnect[o] = "pending"].login[q]
               m == [v.login[q] EXCEPT !.status = "revoked"]
    <2>1. l = IF v.login[q].status \in InFlight THEN m ELSE v.login[q]
      BY <1>4
    <2>2. m.status = "revoked"
      BY <1>2
    <2> HIDE DEF l, m
    <2>3. l.status = IF v.login[q].status \in InFlight THEN "revoked" ELSE v.login[q].status
      BY <2>1, <2>2
    <2> QED
      BY <2>3 DEF l
  <1>7. \A q \in Operations :
           /\ v.login[q].status \notin InFlight =>
                 Reconciled(v).login[q].status = v.login[q].status
           /\ v.login[q].status \in InFlight =>
                 Reconciled(v).login[q].status \in {"expired", "interrupted"}
    BY <1>3, <1>5, Zenon
  <1> QED
    BY <1>6, <1>7

\* A disconnect leaves nothing in the vault that could be wrong, and until the
\* logout is answered nothing can complete.
LEMMA WithdrawnOrigin ==
    ASSUME OriginInv, Inv', NEW o \in Operations, vault' = Withdrawn(o),
           native' = native, codex' = codex, InQueue',
           \A q \in Operations : Queued(q)' <=> Queued(q),
           \A k \in {"cancel", "expire"}, p \in Operations : call'[k][p] = call[k][p],
           \A p \in Operations : call'["logout"][p] \notin {"none", "waiting", "error"} =>
              call["logout"][p] \notin {"none", "waiting", "error"}
    PROVE  OriginInv'
  <1>1. vault' = [Revoked(vault) EXCEPT !.disconnect[o] = "pending"]
    BY DEF Withdrawn
  <1>2. vault \in VaultState /\ VaultInv(vault)
    BY DEF OriginInv, Inv, VaultInv
  <1>3. /\ vault'.disconnect = [vault.disconnect EXCEPT ![o] = "pending"]
        /\ vault'.connection = None
    BY <1>1, <1>2, RevokedKeeps
  <1>4. \A q \in Operations : Status(q)' = IF Status(q) \in InFlight THEN "revoked" ELSE Status(q)
    BY <1>1, <1>2, LoginsEnd DEF Status
  <1>5. \A q \in Operations : (Holds(q)' <=> Holds(q)) /\ (Known(q)' <=> Known(q))
    BY DEF Holds, Known
  <1>6. Origin'
    <2>1. vault.disconnect \in [Operations -> DisconnectStatus]
      BY <1>2 DEF VaultState
    <2>2. ~Settled(vault')
      BY <1>3, <2>1 DEF Settled
    <2> QED
      BY <2>2 DEF Origin
  <1>7. Seen' /\ Once'
    BY <1>4, <1>5 DEF OriginInv, Seen, Once
  <1>8. OwnName' /\ Earned'
    BY <1>3, <1>4 DEF OwnName, Earned, InFlight, Status
  <1>9. Gone'
    BY <1>5 DEF OriginInv, Gone
  <1>10. Withdrawing'
    BY <1>4 DEF OriginInv, Withdrawing, InFlight
  <1> QED
    BY <1>6, <1>7, <1>8, <1>9, <1>10 DEF OriginInv

\* disconnect_chatgpt up to its call.
LEMMA DisconnectOrigin == ASSUME OriginInv, NEW o \in Operations, Disconnect(o) PROVE OriginInv'
  <1>1. Inv' /\ Send("logout", o, o)
    BY DisconnectInv DEF OriginInv, Disconnect
  <1>2. vault' = Withdrawn(o) /\ native' = native /\ codex' = codex
    BY DEF Disconnect
  <1>3. /\ InQueue' /\ \A q \in Operations : Queued(q)' <=> Queued(q)
        /\ \A k \in Kinds, p \in Operations :
              call'[k][p] = IF k = "logout" /\ p = o THEN "waiting" ELSE call[k][p]
    BY <1>1, Sent DEF Kinds
  <1>4. /\ \A k \in {"cancel", "expire"}, p \in Operations : call'[k][p] = call[k][p]
        /\ \A p \in Operations : call'["logout"][p] \notin {"none", "waiting", "error"} =>
              call["logout"][p] \notin {"none", "waiting", "error"}
    BY <1>3 DEF Kinds
  <1> QED
    BY <1>1, <1>2, <1>3, <1>4, WithdrawnOrigin

\* disconnect_chatgpt where there is nobody to call.
LEMMA DisconnectUnsentOrigin ==
    ASSUME OriginInv, NEW o \in Operations, DisconnectUnsent(o) PROVE OriginInv'
  <1>1. Inv' /\ vault' = Withdrawn(o) /\ UNCHANGED <<call, queue, native, codex>>
    BY DisconnectUnsentInv DEF OriginInv, DisconnectUnsent
  <1>2. InQueue' /\ \A q \in Operations : Queued(q)' <=> Queued(q)
    BY <1>1 DEF OriginInv, InQueue, Queued
  <1>3. native' = native /\ codex' = codex /\ call' = call
    BY <1>1
  <1> QED
    BY <1>1, <1>2, <1>3, WithdrawnOrigin

\* disconnect_chatgpt after its call: a disconnect completes when the native
\* process knows nobody.
LEMMA LogoutReturnsOrigin == ASSUME OriginInv, NEW o \in Operations, LogoutReturns(o) PROVE OriginInv'
  <1>1. Inv' /\ Answered("logout", o)
    BY LogoutReturnsInv DEF OriginInv, LogoutReturns
  <1>2. /\ InQueue' /\ \A q \in Operations : Queued(q)' <=> Queued(q)
        /\ \A k \in Kinds, p \in Operations :
              call'[k][p] = IF k = "logout" /\ p = o THEN "none" ELSE call[k][p]
        /\ native' = native /\ codex' = codex /\ queue' = queue
    BY <1>1, Taken DEF Kinds
  <1>3. vault \in VaultState
    BY DEF OriginInv, Inv, VaultInv
  <1>4. /\ vault'.login = vault.login /\ vault'.connection = vault.connection
        /\ \A q \in Operations :
              vault'.disconnect[q] = IF q = o THEN (IF call["logout"][o] = "error" THEN "uncertain"
                                                    ELSE "completed")
                                     ELSE vault.disconnect[q]
    BY <1>3 DEF LogoutReturns, VaultState
  <1>5. \A q \in Operations : (Holds(q)' <=> Holds(q)) /\ (Known(q)' <=> Known(q))
    BY <1>2 DEF Holds, Known
  <1>6. \A q \in Operations : Status(q)' = Status(q)
    BY <1>4 DEF Status
  <1>7. Origin'
    <2>1. CASE call["logout"][o] = "error"
      BY <1>4, <2>1 DEF Origin, Settled
    <2>2. CASE call["logout"][o] # "error"
      <3>1. call["logout"][o] \notin {"none", "waiting", "error"}
        BY <1>1, <2>2 DEF Answered, Answers
      <3>2. \A q \in Operations : ~Known(q)
        BY <3>1 DEF OriginInv, Gone
      <3> QED
        BY <3>2, <1>5 DEF Origin
    <2> QED
      BY <2>1, <2>2
  <1>8. Seen' /\ Once'
    BY <1>2, <1>5, <1>6 DEF OriginInv, Seen, Once
  <1>9. OwnName' /\ Earned'
    BY <1>4, <1>6 DEF OriginInv, OwnName, Earned, Status
  <1>10. /\ \A k \in {"cancel", "expire"}, p \in Operations : call'[k][p] = call[k][p]
         /\ \A p \in Operations : call'["logout"][p] \notin {"none", "waiting", "error"} =>
               call["logout"][p] \notin {"none", "waiting", "error"}
    BY <1>2 DEF Kinds
  <1>11. Gone'
    BY <1>5, <1>10 DEF OriginInv, Gone
  <1>12. Withdrawing'
    BY <1>6, <1>10 DEF OriginInv, Withdrawing
  <1> QED
    BY <1>1, <1>2, <1>7, <1>8, <1>9, <1>11, <1>12 DEF OriginInv

\* A completion stores the tokens the native process has: they are of the login
\* that completes, or of one that ended by itself.
LEMMA CompletionOrigin ==
    ASSUME OriginInv, Inv', UNCHANGED <<expired, call, queue, native, codex, codex_error>>, codex,
           NEW o \in Operations, Status(o) \in {"starting", "pending"}, native.auth # None,
           NEW id \in Operations,
           vault' = [[vault EXCEPT !.login[o] = [status |-> "completed", id |-> id]] EXCEPT
                        !.connection = [operation |-> o, credential |-> native.auth]]
    PROVE  OriginInv'
  <1> DEFINE q0 == native.auth.attempt
  <1>1. vault \in VaultState /\ Settled(vault) /\ native.auth \in Credential
    BY DEF OriginInv, Inv, VaultInv, Isolated, Status, TypeOK
  <1>2. q0 \in Operations
    BY <1>1 DEF Credential
  <1>3. /\ vault'.disconnect = vault.disconnect
        /\ vault'.connection = [operation |-> o, credential |-> native.auth]
        /\ \A q \in Operations :
              vault'.login[q] = IF q = o THEN [status |-> "completed", id |-> id] ELSE vault.login[q]
    <2> DEFINE m == [vault EXCEPT !.login[o] = [status |-> "completed", id |-> id]]
    <2>1. /\ m \in VaultState /\ m.disconnect = vault.disconnect
          /\ \A q \in Operations :
                m.login[q] = IF q = o THEN [status |-> "completed", id |-> id] ELSE vault.login[q]
      BY <1>1, Moved DEF LoginStatus
    <2>2. vault' = [m EXCEPT !.connection = [operation |-> o, credential |-> native.auth]]
      OBVIOUS
    <2> HIDE DEF m
    <2> QED
      BY <2>1, <2>2 DEF VaultState
  <1>4. \A q \in Operations : Status(q)' = IF q = o THEN "completed" ELSE Status(q)
    BY <1>3 DEF Status
  <1>5. \A q \in Operations : (Queued(q)' <=> Queued(q)) /\ (Holds(q)' <=> Holds(q)) /\ (Known(q)' <=> Known(q))
    BY DEF Queued, Holds, Known
  <1>6. \A q \in Operations : Known(q) => q = o \/ Status(q) \in Kept
    BY <1>1 DEF OriginInv, Origin, Rightful
  <1>7. \A q \in Operations : Known(q)' => Status(q)' \in Kept
    BY <1>4, <1>5, <1>6 DEF Kept
  <1>8. Origin' /\ Seen'
    BY <1>7 DEF Origin, Rightful, Seen, Kept
  <1>9. Earned'
    <2>1. vault'.connection.credential.attempt = q0
      BY <1>3
    <2>2. Known(q0)
      BY <1>2 DEF Known, Holds
    <2> QED
      BY <2>1, <2>2, <1>2, <1>5, <1>7 DEF Earned
  <1>10. Once' /\ InQueue'
    BY <1>5 DEF OriginInv, Once, InQueue
  <1>11. OwnName'
    BY <1>3, <1>4 DEF OriginInv, OwnName, Status
  <1>12. Gone'
    BY <1>5 DEF OriginInv, Gone
  <1>13. Withdrawing'
    <2>1. call["cancel"][o] = "none"
      BY DEF OriginInv, Withdrawing
    <2> QED
      BY <2>1, <1>4 DEF OriginInv, Withdrawing
  <1> QED
    BY <1>8, <1>9, <1>10, <1>11, <1>12, <1>13 DEF OriginInv

\* A step that changes nothing the tokens depend on.
LEMMA AsideOrigin ==
    ASSUME OriginInv, Inv', UNCHANGED <<vault, call, queue, native, codex, codex_error>>
    PROVE  OriginInv'
  <1>1. \A q \in Operations : Known(q)' <=> Known(q)
    BY DEF Known, Queued, Holds
  <1>2. InQueue' /\ Once'
    BY DEF OriginInv, InQueue, Once, Queued, Holds
  <1>3. vault' = vault /\ codex' = codex /\ call' = call
    OBVIOUS
  <1> QED
    BY <1>1, <1>2, <1>3, ForgetsKeeps

\* A notification.
LEMMA CheckpointLoginOrigin == ASSUME OriginInv, CheckpointLogin PROVE OriginInv'
  <1> DEFINE e == Head(events)
  <1>1. /\ Inv' /\ codex /\ UNCHANGED <<expired, call, queue, native, codex, codex_error>> /\ events # <<>>
    BY CheckpointLoginInv DEF OriginInv, CheckpointLogin, TaskIdle, Serving
  <1>2. \/ UNCHANGED vault
        \/ /\ e.attempt # None
           /\ \E o \in Operations :
                 Matches(e, o) /\ Checkpointed(e, o) /\ vault' = AfterCompletion(e, o)
    BY DEF CheckpointLogin
  <1>3. CASE UNCHANGED vault
    BY <1>1, <1>3, AsideOrigin
  <1>4. CASE /\ e.attempt # None
             /\ \E o \in Operations :
                   Matches(e, o) /\ Checkpointed(e, o) /\ vault' = AfterCompletion(e, o)
    <2>1. PICK o \in Operations :
              Matches(e, o) /\ Checkpointed(e, o) /\ vault' = AfterCompletion(e, o)
      BY <1>4
    <2>2. events \in Seq(Event)
      BY DEF OriginInv, Inv, TypeOK
    <2>3. e \in Event
      BY <2>2, <1>1
    <2>4. e.attempt \in Operations
      BY <2>3, <1>4 DEF Event
    <2>5. Status(o) \in {"starting", "pending"}
      BY <2>1 DEF Matches
    <2>6. CASE o \in expired \/ ~e.success
      <3>1. PICK s \in {"uncertain", "failed"} :
                vault' = [vault EXCEPT !.login[o] = [status |-> s, id |-> e.attempt]]
        BY <2>1, <2>6 DEF AfterCompletion
      <3> DEFINE id == e.attempt
      <3>2. /\ vault' = [vault EXCEPT !.login[o] = [status |-> s, id |-> id]] /\ id \in Operations
        BY <3>1, <2>4
      <3> HIDE DEF id
      <3>3. s \in LoginStatus /\ vault \in VaultState
        BY DEF LoginStatus, InFlight, OriginInv, Inv, VaultInv
      <3>4. /\ vault'.disconnect = vault.disconnect /\ vault'.connection = vault.connection
            /\ \A q \in Operations :
                  vault'.login[q] = IF q = o THEN [status |-> s, id |-> id] ELSE vault.login[q]
        BY <3>2, <3>3, Moved
      <3>5. /\ s # "absent" /\ (s = "pending" => id = o)
            /\ (s \in {"starting", "pending"} => Status(o) \in {"starting", "pending"})
            /\ Status(o) \notin Kept /\ s \in InFlight \cup Kept
        BY <2>5 DEF InFlight, Kept
      <3>6. call' = call /\ call["cancel"][o] = "none"
        BY <1>1, <2>5 DEF OriginInv, Withdrawing
      <3>7. /\ \A p \in Operations : call'["cancel"][p] # "none" =>
                  (p # o /\ call["cancel"][p] # "none") \/ (p = o /\ s = "cancelling")
            /\ \A p \in Operations : call'["expire"][p] # "none" =>
                  call["expire"][p] # "none" \/ p = o
        BY <3>6
      <3>8. InQueue' /\ (\A q \in Operations : Queued(q)' <=> Queued(q)) /\ codex' = codex /\ native' = native
        BY <1>1 DEF OriginInv, InQueue, Queued
      <3> QED
        BY <1>1, <3>4, <3>5, <3>6, <3>7, <3>8, MoveOrigin
    <2>7. CASE ~(o \in expired \/ ~e.success)
      <3>1. native.auth # None
        BY <2>1, <2>7 DEF Checkpointed
      <3>2. vault' = [[vault EXCEPT !.login[o] = [status |-> "completed", id |-> e.attempt]] EXCEPT
                          !.connection = [operation |-> o, credential |-> native.auth]]
        BY <2>1, <2>7 DEF AfterCompletion
      <3> QED
        BY <1>1, <2>4, <2>5, <3>1, <3>2, CompletionOrigin
    <2> QED
      BY <2>6, <2>7
  <1> QED
    BY <1>2, <1>3, <1>4

\* The poll stores refreshed tokens: while there is a connection, what the
\* native process holds is of a login that ended by itself.
LEMMA CheckpointRefreshOrigin == ASSUME OriginInv, CheckpointRefresh PROVE OriginInv'
  <1>1. Inv' /\ codex /\ UNCHANGED <<expired, call, queue, native, codex, codex_error>> /\ vault.connection # None
    BY CheckpointRefreshInv DEF OriginInv, CheckpointRefresh, TaskIdle, Serving
  <1>2. CASE native.auth = None
    BY <1>1, <1>2, AsideOrigin DEF CheckpointRefresh
  <1>3. CASE native.auth # None
    <2>1. vault' = [vault EXCEPT !.connection.credential = native.auth]
      BY <1>3 DEF CheckpointRefresh
    <2>2. vault \in VaultState /\ Settled(vault) /\ native.auth \in Credential
      BY <1>1, <1>3 DEF OriginInv, Inv, VaultInv, Isolated, TypeOK
    <2>3. native.auth.attempt \in Operations
      BY <2>2 DEF Credential
    <2>4. /\ vault'.login = vault.login /\ vault'.disconnect = vault.disconnect
          /\ vault'.connection.credential = native.auth
      BY <1>1, <2>1, <2>2 DEF VaultState, Connection
    <2>5. \A q \in Operations : Status(q)' = Status(q)
      BY <2>4 DEF Status
    <2>6. \A q \in Operations : (Queued(q)' <=> Queued(q)) /\ (Holds(q)' <=> Holds(q)) /\ (Known(q)' <=> Known(q))
      BY <1>1 DEF Queued, Holds, Known
    <2>7. \A q \in Operations : Known(q) => Status(q) \in Kept
      BY <1>1, <2>2 DEF OriginInv, Origin, Rightful
    <2>8. Origin' /\ Seen'
      BY <2>5, <2>6, <2>7 DEF Origin, Rightful, Seen, Kept
    <2>9. Earned'
      <3>1. Known(native.auth.attempt)
        BY <1>3, <2>3 DEF Known, Holds
      <3> QED
        BY <3>1, <2>3, <2>4, <2>5, <2>7 DEF Earned
    <2>10. Once' /\ InQueue'
      BY <1>1, <2>6 DEF OriginInv, Once, InQueue
    <2>11. OwnName' /\ Gone' /\ Withdrawing'
      BY <1>1, <2>4, <2>5, <2>6 DEF OriginInv, OwnName, Gone, Withdrawing, Status
    <2> QED
      BY <1>1, <2>8, <2>9, <2>10, <2>11 DEF OriginInv
  <1> QED
    BY <1>2, <1>3

\* The native process takes a request: it learns of no login that was not asked
\* for, and a cancel or a logout makes it forget.
LEMMA NativeServesOrigin == ASSUME OriginInv, NativeServes PROVE OriginInv'
  <1>0. PICK r : r = Head(queue)
    OBVIOUS
  <1>1. /\ queue # <<>> /\ queue' = Tail(queue)
        /\ vault' = vault /\ codex' = codex
        /\ Inv'
    BY NativeServesInv DEF NativeServes, OriginInv
  <1>2. queue \in Seq(Request) /\ call \in Calls
    BY DEF OriginInv, Inv, TypeOK, Calls
  <1>3. /\ r = queue[1] /\ 1 \in 1..Len(queue)
        /\ \A i \in 1..Len(queue') : i + 1 \in 1..Len(queue) /\ queue'[i] = queue[i + 1] /\ i + 1 # 1
        /\ ~\E i \in 1..Len(queue) : i < 1
    BY <1>0, <1>1, <1>2
  <1>4. r \in Request /\ r.operation \in Operations /\ r.attempt = r.operation
    <2>1. r \in Request /\ r.attempt = r.operation
      BY <1>2, <1>3 DEF OriginInv, InQueue
    <2> QED
      BY <2>1 DEF Request
  <1>5. ServeStart(r) \/ ServeCancel(r) \/ ServeLogout(r)
    BY <1>0 DEF NativeServes
  <1>6. InQueue' /\ \A q \in Operations : Queued(q)' => Queued(q)
    BY <1>1, QueueShrinks
  <1>7. ASSUME NEW answer \in Answers, Reply(r, answer), Once',
               \A q \in Operations : Known(q)' => Known(q),
               r.kind \in {"cancel", "expire"} /\ answer = "canceled" => ~Known(r.operation)',
               r.kind = "logout" => answer = "error" \/ \A q \in Operations : ~Known(q)'
        PROVE  OriginInv'
    <2>1. \A k \in Kinds, p \in Operations :
             call'[k][p] # call[k][p] =>
                k = r.kind /\ p = r.operation /\ call[k][p] = "waiting" /\ call'[k][p] = answer
      BY <1>2, <1>4, <1>7, ReplyWith
    <2>2. \A k \in {"cancel", "expire"}, p \in Operations :
             /\ call'[k][p] = "canceled" => call[k][p] = "canceled" \/ ~Known(p)'
             /\ call'[k][p] # "none" => call[k][p] # "none"
      <3> SUFFICES ASSUME NEW k \in {"cancel", "expire"}, NEW p \in Operations
                   PROVE  /\ call'[k][p] = "canceled" => call[k][p] = "canceled" \/ ~Known(p)'
                          /\ call'[k][p] # "none" => call[k][p] # "none"
        OBVIOUS
      <3>1. call'[k][p] # call[k][p] =>
               k = r.kind /\ p = r.operation /\ call[k][p] = "waiting" /\ call'[k][p] = answer
        BY <2>1 DEF Kinds
      <3>2. k = r.kind /\ p = r.operation /\ answer = "canceled" => ~Known(p)'
        BY <1>7
      <3> QED
        BY <3>1, <3>2
    <2>3. \A p \in Operations : call'["logout"][p] \notin {"none", "waiting", "error"} =>
             \/ call["logout"][p] \notin {"none", "waiting", "error"}
             \/ \A q \in Operations : ~Known(q)'
      BY <1>7, <2>1 DEF Kinds
    <2> QED
      BY <1>1, <1>6, <1>7, <2>2, <2>3, ForgetsKeeps
  <1>8. ASSUME native' = native
        PROVE  Once' /\ \A q \in Operations : Known(q)' => Known(q)
    BY <1>6, <1>8 DEF OriginInv, Once, Known, Holds
  <1>9. CASE ServeStart(r)
    <2>1. \/ /\ native' = [native EXCEPT !.attempt = r.attempt]
             /\ Reply(r, "ok") \/ Reply(r, "malformed")
          \/ Reply(r, "error") /\ native' = native
      BY <1>9 DEF ServeStart
    <2>2. r.kind = "start" /\ Queued(r.operation)
      BY <1>3, <1>9 DEF ServeStart, Queued
    <2>5. \A i \in 1..Len(queue') :
             ~(queue'[i].kind = "start" /\ queue'[i].operation = r.operation)
      <3>1. \A i \in 1..Len(queue) :
               queue[i].kind = "start" /\ queue[i].operation = r.operation => i = 1
        BY <1>3, <2>2 DEF OriginInv, InQueue
      <3> QED
        BY <1>3, <3>1
    <2>3. CASE native' = native
      BY <1>7, <1>8, <2>1, <2>2, <2>3 DEF Answers
    <2>4. CASE native' = [native EXCEPT !.attempt = r.attempt]
      <3>1. native'.attempt = r.operation /\ native'.auth = native.auth
        BY <1>4, <2>4 DEF OriginInv, Inv, TypeOK
      <3>2. ~Queued(r.operation)'
        BY <2>5 DEF Queued
      <3>3. \A q \in Operations : Holds(q)' <=> Holds(q)
        BY <3>1 DEF Holds
      <3>6. ~Holds(r.operation)
        BY <1>4, <2>2 DEF OriginInv, Once
      <3>4. Once'
        <4> SUFFICES ASSUME NEW q \in Operations
                     PROVE  /\ Queued(q)' => native'.attempt # q /\ ~Holds(q)'
                            /\ native'.attempt = q => ~Holds(q)'
          BY DEF Once
        <4>1. Queued(q) => ~Holds(q)
          BY DEF OriginInv, Once
        <4>2. Queued(q)' => Queued(q) /\ q # r.operation
          BY <1>6, <3>2
        <4> QED
          BY <4>1, <4>2, <3>1, <3>3, <3>6
      <3>5. \A q \in Operations : Known(q)' => Known(q)
        BY <1>6, <2>2, <3>1, <3>3 DEF Known
      <3> QED
        BY <1>7, <2>1, <2>2, <3>4, <3>5 DEF Answers
    <2> QED
      BY <2>1, <2>3, <2>4
  <1>10. CASE ServeCancel(r)
    <2>1. /\ r.kind \in {"cancel", "expire"}
          /\ \/ native' = native /\ (Reply(r, "notFound") \/ Reply(r, "error"))
             \/ /\ native.attempt = r.attempt /\ native' = [native EXCEPT !.attempt = None]
                /\ Reply(r, "canceled")
      BY <1>10 DEF ServeCancel
    <2>2. CASE native' = native /\ (Reply(r, "notFound") \/ Reply(r, "error"))
      BY <1>7, <1>8, <2>1, <2>2 DEF Answers
    <2>3. CASE /\ native.attempt = r.attempt /\ native' = [native EXCEPT !.attempt = None]
               /\ Reply(r, "canceled")
      <3>1. native'.attempt \notin Operations /\ native'.auth = native.auth
        BY <2>3, LoginAssumption DEF OriginInv, Inv, TypeOK
      <3>2. \A q \in Operations : Holds(q)' <=> Holds(q)
        BY <3>1 DEF Holds
      <3>3. Once' /\ \A q \in Operations : Known(q)' => Known(q)
        BY <1>6, <3>1, <3>2 DEF OriginInv, Once, Known
      <3>4. ~Queued(r.operation) /\ ~Holds(r.operation)
        BY <1>4, <2>3 DEF OriginInv, Once
      <3>5. ~Known(r.operation)'
        <4>1. ~Queued(r.operation)' /\ ~Holds(r.operation)' /\ native'.attempt # r.operation
          BY <1>4, <1>6, <3>1, <3>2, <3>4
        <4> QED
          BY <4>1 DEF Known
      <3> QED
        BY <1>7, <2>1, <2>3, <3>3, <3>5 DEF Answers
    <2> QED
      BY <2>1, <2>2, <2>3
  <1>11. CASE ServeLogout(r)
    <2>1. /\ r.kind = "logout"
          /\ \/ native' = [native EXCEPT !.attempt = None, !.auth = None] /\ Reply(r, "ok")
             \/ Reply(r, "error") /\ native' = native
      BY <1>11 DEF ServeLogout
    <2>2. CASE Reply(r, "error") /\ native' = native
      BY <1>7, <1>8, <2>1, <2>2 DEF Answers
    <2>3. CASE native' = [native EXCEPT !.attempt = None, !.auth = None] /\ Reply(r, "ok")
      <3>1. native'.attempt \notin Operations /\ native'.auth = None
        BY <2>3, LoginAssumption DEF OriginInv, Inv, TypeOK
      <3>2. \A q \in Operations : ~Queued(q)
        BY <1>3, <2>1 DEF OriginInv, InQueue, Queued
      <3>3. \A q \in Operations : ~Known(q)'
        BY <1>6, <3>1, <3>2 DEF Known, Holds
      <3>4. Once'
        BY <3>3 DEF Once, Known
      <3> QED
        BY <1>7, <2>1, <2>3, <3>3, <3>4 DEF Answers
    <2> QED
      BY <2>1, <2>2, <2>3
  <1> QED
    BY <1>5, <1>9, <1>10, <1>11

\* An attempt ends: what auth.json gets was under way.
LEMMA AttemptEndsOrigin ==
    ASSUME OriginInv, NEW success \in BOOLEAN, AttemptEnds(success) PROVE OriginInv'
  <1> DEFINE c == [attempt |-> native.attempt, rotation |-> 0]
  <1>1. /\ native.attempt # None
        /\ native' = [native EXCEPT !.attempt = None, !.auth = IF success THEN c ELSE native.auth]
        /\ UNCHANGED <<vault, expired, call, queue, ready, codex, codex_error>>
        /\ Inv'
    BY AttemptEndsInv DEF AttemptEnds, OriginInv
  <1>2. c.attempt = native.attempt
    OBVIOUS
  <1> HIDE DEF c
  <1>3. /\ native'.attempt \notin Operations
        /\ native'.auth = c \/ native'.auth = native.auth
    BY <1>1, LoginAssumption DEF OriginInv, Inv, TypeOK
  <1>4. InQueue' /\ \A q \in Operations : Queued(q)' <=> Queued(q)
    BY <1>1 DEF OriginInv, InQueue, Queued
  <1>5. \A q \in Operations : Holds(q)' => Holds(q) \/ native.attempt = q
    BY <1>2, <1>3 DEF Holds
  <1>6. \A q \in Operations : Known(q)' => Known(q)
    BY <1>3, <1>4, <1>5 DEF Known
  <1>7. Once'
    BY <1>3, <1>4, <1>5 DEF OriginInv, Once
  <1>8. vault' = vault /\ codex' = codex /\ call' = call
    BY <1>1
  <1> QED
    BY <1>1, <1>4, <1>6, <1>7, <1>8, ForgetsKeeps

\* A refreshed token is of the same login.
LEMMA RotatesOrigin == ASSUME OriginInv, Rotates PROVE OriginInv'
  <1>1. /\ native.auth # None
        /\ native' = [native EXCEPT !.auth.rotation = @ + 1]
        /\ UNCHANGED <<vault, expired, call, queue, events, ready, codex, codex_error>>
        /\ Inv'
    BY RotatesInv DEF Rotates, OriginInv
  <1>2. native \in Native /\ native.auth \in Credential
    BY <1>1 DEF OriginInv, Inv, TypeOK, Native
  <1>3. native'.attempt = native.attempt /\ native'.auth.attempt = native.auth.attempt
    BY <1>1, <1>2 DEF Native, Credential
  <1>4. \A q \in Operations : Holds(q)' => Holds(q)
    BY <1>1, <1>3 DEF Holds
  <1>5. InQueue' /\ \A q \in Operations : Queued(q)' <=> Queued(q)
    BY <1>1 DEF OriginInv, InQueue, Queued
  <1>6. Once' /\ \A q \in Operations : Known(q)' => Known(q)
    BY <1>3, <1>4, <1>5 DEF OriginInv, Once, Known
  <1>7. vault' = vault /\ codex' = codex /\ call' = call
    BY <1>1
  <1> QED
    BY <1>1, <1>5, <1>6, <1>7, ForgetsKeeps

\* The native process or the whole runtime ends: requests and attempts are lost,
\* auth.json stays.
LEMMA EndsOrigin ==
    ASSUME OriginInv, NativeExits \/ CheckpointEnds PROVE OriginInv'
  <1>1. CASE NativeExits
    <2>1. /\ Inv' /\ native' = [native EXCEPT !.up = FALSE, !.attempt = None]
          /\ queue' = <<>> /\ vault' = vault /\ codex' = codex
          /\ call' = [k \in Kinds |-> [o \in Operations |->
                        IF call[k][o] = "waiting" THEN "error" ELSE call[k][o]]]
      BY <1>1, NativeExitsInv DEF NativeExits, NativeDown, OriginInv
    <2>2. native'.attempt \notin Operations /\ native'.auth = native.auth
      BY <2>1, LoginAssumption DEF OriginInv, Inv, TypeOK
    <2>3. InQueue' /\ \A q \in Operations : ~Queued(q)'
      BY <2>1 DEF InQueue, Queued
    <2>4. \A q \in Operations : Holds(q)' <=> Holds(q)
      BY <2>2 DEF Holds
    <2>5. Once' /\ \A q \in Operations : Known(q)' => Known(q)
      BY <2>2, <2>3, <2>4 DEF OriginInv, Once, Known
    <2>6. \A k \in Kinds, p \in Operations :
             call'[k][p] = IF call[k][p] = "waiting" THEN "error" ELSE call[k][p]
      BY <2>1
    <2>7. /\ \A k \in {"cancel", "expire"}, p \in Operations :
                /\ call'[k][p] = "canceled" => call[k][p] = "canceled"
                /\ call'[k][p] # "none" => call[k][p] # "none"
          /\ \A p \in Operations : call'["logout"][p] \notin {"none", "waiting", "error"} =>
                call["logout"][p] \notin {"none", "waiting", "error"}
      BY <2>6 DEF Kinds
    <2> QED
      BY <2>1, <2>3, <2>5, <2>7, ForgetsKeeps
  <1>2. CASE CheckpointEnds
    <2>1. /\ Inv' /\ call' = [call EXCEPT !["expire"] = NoCalls["expire"]]
          /\ UNCHANGED <<vault, queue, native, codex, codex_error>>
      BY <1>2, CheckpointEndsInv DEF CheckpointEnds, OriginInv
    <2>2. call \in Calls
      BY DEF OriginInv, Inv, TypeOK, Calls
    <2>3. \A k \in Kinds, p \in Operations : call'[k][p] = IF k = "expire" THEN "none" ELSE call[k][p]
      BY <2>1, <2>2 DEF Calls, NoCalls, Kinds
    <2>4. /\ \A k \in {"cancel", "expire"}, p \in Operations :
                /\ call'[k][p] = "canceled" => call[k][p] = "canceled"
                /\ call'[k][p] # "none" => call[k][p] # "none"
          /\ \A p \in Operations : call'["logout"][p] = call["logout"][p]
      BY <2>3 DEF Kinds
    <2>5. InQueue' /\ Once' /\ \A q \in Operations : Known(q)' <=> Known(q)
      BY <2>1 DEF OriginInv, InQueue, Once, Known, Queued, Holds
    <2>6. vault' = vault /\ codex' = codex
      BY <2>1
    <2> QED
      BY <2>1, <2>4, <2>5, <2>6, ForgetsKeeps
  <1> QED
    BY <1>1, <1>2

\* A caller that gives up, or whose client is gone, is told nothing new.
LEMMA GivesUpOrigin ==
    ASSUME OriginInv, NEW kind \in Kinds, NEW o \in Operations, Timeout(kind, o) \/ Abandon(kind, o)
    PROVE  OriginInv'
  <1>1. Inv' /\ UNCHANGED <<vault, queue, native, codex, codex_error>>
    BY TimeoutInv, AbandonInv DEF Timeout, Abandon, OriginInv
  <1>2. PICK a \in {"none", "error"} : call' = [call EXCEPT ![kind][o] = a] /\ call[kind][o] # "none"
    BY DEF Timeout, Abandon
  <1>3. call \in Calls
    BY DEF OriginInv, Inv, TypeOK, Calls
  <1>4. \A k \in Kinds, p \in Operations :
           call'[k][p] = IF k = kind /\ p = o THEN a ELSE call[k][p]
    BY <1>2, <1>3 DEF Calls
  <1>5. /\ \A k \in {"cancel", "expire"}, p \in Operations :
              /\ call'[k][p] = "canceled" => call[k][p] = "canceled"
              /\ call'[k][p] # "none" => call[k][p] # "none"
        /\ \A p \in Operations : call'["logout"][p] \notin {"none", "waiting", "error"} =>
              call["logout"][p] \notin {"none", "waiting", "error"}
    BY <1>2, <1>4 DEF Kinds
  <1>6. InQueue' /\ Once' /\ \A q \in Operations : Known(q)' <=> Known(q)
    BY <1>1 DEF OriginInv, InQueue, Once, Known, Queued, Holds
  <1>7. vault' = vault /\ codex' = codex
    BY <1>1
  <1> QED
    BY <1>1, <1>5, <1>6, <1>7, ForgetsKeeps

\* Without a native process nothing is promised; what is known is what auth.json
\* holds, which are tokens of before or those of the vault.
LEMMA LeftOrigin ==
    ASSUME OriginInv, Inv', NEW auth \in {native.auth, None, RestoredAuth(vault)},
           NativeLeft(auth), codex' = FALSE, call' = NoCalls, queue' = <<>>, vault' = vault
    PROVE  OriginInv'
  <1>1. native' = [native EXCEPT !.up = FALSE, !.attempt = None, !.auth = auth]
    BY DEF NativeLeft, NativeDown, OriginInv, Inv, TypeOK
  <1>2. native'.attempt \notin Operations /\ native'.auth = auth
    BY <1>1, LoginAssumption DEF OriginInv, Inv, TypeOK
  <1>3. InQueue' /\ \A q \in Operations : ~Queued(q)'
    BY DEF InQueue, Queued
  <1>4. Once'
    BY <1>2, <1>3 DEF Once
  <1>5. \A k \in Kinds, p \in Operations : call'[k][p] = "none"
    BY DEF NoCalls
  <1>6. Origin' /\ Gone' /\ Withdrawing'
    BY <1>5 DEF Origin, Gone, Withdrawing, Kinds
  <1>7. OwnName' /\ Earned'
    BY DEF OriginInv, OwnName, Earned, Status
  <1>8. Seen'
    <2> SUFFICES ASSUME NEW q \in Operations, Known(q)'
                 PROVE  Status(q) # "absent"
      BY DEF Seen, Status
    <2>1. auth # None /\ auth.attempt = q
      BY <1>2, <1>3 DEF Known, Holds
    <2>2. CASE auth = native.auth
      <3>1. Known(q)
        BY <2>1, <2>2 DEF Known, Holds
      <3> QED
        BY <3>1 DEF OriginInv, Seen
    <2>3. CASE auth = RestoredAuth(vault)
      <3>1. vault.connection # None /\ vault.connection.credential.attempt = q
        BY <2>1, <2>3 DEF RestoredAuth
      <3> QED
        BY <3>1 DEF OriginInv, Earned, Kept
    <2> QED
      BY <2>1, <2>2, <2>3
  <1> QED
    BY <1>3, <1>4, <1>6, <1>7, <1>8 DEF OriginInv

\* A crash leaves the vault.
LEMMA CrashOrigin == ASSUME OriginInv, Crash PROVE OriginInv'
  <1>1. PICK auth \in {native.auth, None} : NativeLeft(auth)
    BY DEF Crash
  <1>2. Inv' /\ codex' = FALSE /\ call' = NoCalls /\ queue' = <<>> /\ vault' = vault
    BY CrashInv DEF Crash, OriginInv
  <1> QED
    BY <1>1, <1>2, LeftOrigin

\* So does a start without a native app server.
LEMMA RestartWithoutOrigin ==
    ASSUME OriginInv, RestartRefused \/ \E error \in StartError : RestartWithout(error)
    PROVE  OriginInv'
  <1>1. PICK auth \in {native.auth, RestoredAuth(vault)} : NativeLeft(auth)
    BY DEF RestartRefused, RestartWithout
  <1>2. ~codex /\ codex' = codex /\ vault' = vault /\ call' = call /\ queue' = queue
    BY DEF RestartRefused, RestartWithout, Down
  <1>3. Inv' /\ codex' = FALSE /\ call' = NoCalls /\ queue' = <<>>
    BY <1>2, RestartWithoutInv DEF OriginInv, Inv, TypeOK, Quiet
  <1> QED
    BY <1>1, <1>2, <1>3, LeftOrigin

\* After a restart the native process has the tokens of the vault and no others.
LEMMA RestartOrigin == ASSUME OriginInv, Restart PROVE OriginInv'
  <1>1. /\ Inv' /\ vault' = Reconciled(vault)
        /\ native' = [up |-> TRUE, attempt |-> None, auth |-> RestoredAuth(vault)]
        /\ queue' = <<>> /\ call' = NoCalls
    BY RestartInv DEF Restart, Down, OriginInv, Inv, Quiet
  <1>2. vault \in VaultState /\ VaultInv(vault)
    BY DEF OriginInv, Inv, VaultInv
  <1>3. vault'.connection = vault.connection
    BY <1>1, <1>2, ReconciledKeeps
  <1>4. \A q \in Operations :
           /\ Status(q) \notin InFlight => Status(q)' = Status(q)
           /\ Status(q) \in InFlight => Status(q)' \in {"expired", "interrupted"}
    BY <1>1, <1>2, LoginsEnd DEF Status
  <1>5. vault.connection # None =>
           /\ vault.connection.credential.attempt \in Operations
           /\ \A q \in Operations : vault.connection.credential.attempt = q => Status(q)' \in Kept
    <2>1. vault.connection # None => vault.connection.credential.attempt \in Operations
      BY <1>2 DEF VaultState, Connection, Credential
    <2>2. \A q \in Operations : Status(q) \in Kept => Status(q)' \in Kept
      <3>1. \A q \in Operations : Status(q) \in Kept => Status(q) \notin InFlight
        BY DEF Kept, InFlight
      <3> QED
        BY <3>1, <1>4
    <2>3. vault.connection # None => Status(vault.connection.credential.attempt) \in Kept
      BY DEF OriginInv, Earned
    <2> QED
      BY <2>1, <2>2, <2>3
  <1>6. InQueue' /\ \A q \in Operations : ~Queued(q)'
    BY <1>1 DEF InQueue, Queued
  <1>7. native'.attempt \notin Operations /\ native'.auth = RestoredAuth(vault)
    BY <1>1, LoginAssumption
  <1>8. \A q \in Operations : Known(q)' => Status(q)' \in Kept
    <2> SUFFICES ASSUME NEW q \in Operations, Known(q)'
                 PROVE  Status(q)' \in Kept
      OBVIOUS
    <2>1. Holds(q)'
      BY <1>6, <1>7 DEF Known
    <2>2. native'.auth # None /\ native'.auth.attempt = q
      BY <2>1 DEF Holds
    <2>3. vault.connection # None /\ vault.connection.credential.attempt = q
      BY <2>2, <1>7 DEF RestoredAuth
    <2> QED
      BY <2>3, <1>5
  <1>9. Origin' /\ Seen'
    BY <1>8 DEF Origin, Rightful, Seen, Kept
  <1>10. Once'
    BY <1>6, <1>7 DEF Once
  <1>11. OwnName' /\ Earned'
    <2>1. Earned'
      BY <1>3, <1>5, Zenon DEF Earned
    <2>2. OwnName'
      BY <1>4 DEF OwnName, InFlight
    <2> QED
      BY <2>1, <2>2
  <1>12. \A k \in Kinds, p \in Operations : call'[k][p] = "none"
    BY <1>1 DEF NoCalls
  <1>13. Gone' /\ Withdrawing'
    BY <1>12 DEF Gone, Withdrawing, Kinds
  <1> QED
    BY <1>1, <1>6, <1>9, <1>10, <1>11, <1>13 DEF OriginInv

\* Nobody is known at first.
LEMMA InitOrigin == Init => OriginInv
  <1> SUFFICES ASSUME Init PROVE OriginInv
    OBVIOUS
  <1>1. /\ Inv /\ vault.connection = None /\ queue = <<>> /\ call = NoCalls
        /\ native = [up |-> TRUE, attempt |-> None, auth |-> None]
        /\ \A o \in Operations : Status(o) = "absent"
    BY InitInv DEF Init, Status
  <1>2. InQueue /\ \A q \in Operations : ~Known(q)
    BY <1>1, LoginAssumption DEF InQueue, Known, Queued, Holds
  <1>3. Origin /\ Seen /\ Once
    BY <1>2 DEF Origin, Seen, Once, Known
  <1>4. OwnName /\ Earned
    BY <1>1 DEF OwnName, Earned
  <1>5. \A k \in Kinds, p \in Operations : call[k][p] = "none"
    BY <1>1 DEF NoCalls
  <1>6. Gone /\ Withdrawing
    BY <1>5 DEF Gone, Withdrawing, Kinds
  <1> QED
    BY <1>1, <1>2, <1>3, <1>4, <1>6 DEF OriginInv

\* Every action preserves it.
LEMMA NextOrigin == OriginInv /\ [Next]_vars => OriginInv'
  <1> SUFFICES ASSUME OriginInv, [Next]_vars PROVE OriginInv'
    OBVIOUS
  <1>1. ASSUME NEW o \in Operations,
               \/ StartLogin(o) \/ StartReturns(o) \/ CancelLogin(o) \/ CancelReturns(o)
               \/ Disconnect(o) \/ DisconnectUnsent(o) \/ LogoutReturns(o)
               \/ ExpireLogin(o) \/ ExpireReturns(o)
        PROVE  OriginInv'
    BY <1>1, StartLoginOrigin, StartReturnsOrigin, CancelLoginOrigin, CancelReturnsOrigin,
       DisconnectOrigin, DisconnectUnsentOrigin, LogoutReturnsOrigin, ExpireLoginOrigin, ExpireReturnsOrigin
  <1>2. ASSUME NEW o \in Operations, Expires(o) PROVE OriginInv'
    <2>1. Inv' /\ UNCHANGED <<vault, call, queue, native, codex, codex_error>>
      BY <1>2, ExpiresInv DEF Expires, OriginInv
    <2> QED
      BY <2>1, AsideOrigin
  <1>3. ASSUME NEW kind \in Kinds, NEW o \in Operations, Timeout(kind, o) \/ Abandon(kind, o)
        PROVE  OriginInv'
    BY <1>3, GivesUpOrigin
  <1>4. ASSUME CheckpointLogin \/ CheckpointRefresh \/ CheckpointEnds PROVE OriginInv'
    BY <1>4, CheckpointLoginOrigin, CheckpointRefreshOrigin, EndsOrigin
  <1>5. ASSUME NativeServes \/ Rotates \/ NativeExits PROVE OriginInv'
    BY <1>5, NativeServesOrigin, RotatesOrigin, EndsOrigin
  <1>6. ASSUME NEW success \in BOOLEAN, AttemptEnds(success) PROVE OriginInv'
    BY <1>6, AttemptEndsOrigin
  <1>7. ASSUME Crash \/ Restart \/ RestartRefused \/ \E error \in StartError : RestartWithout(error)
        PROVE  OriginInv'
    BY <1>7, CrashOrigin, RestartOrigin, RestartWithoutOrigin
  <1>8. ASSUME UNCHANGED vars PROVE OriginInv'
    <2>1. UNCHANGED <<vault, call, queue, native, codex, codex_error>>
      BY <1>8 DEF vars
    <2>2. Inv'
      BY <1>8, NextInv DEF OriginInv
    <2> QED
      BY <2>1, <2>2, AsideOrigin
  <1> QED
    BY <1>1, <1>2, <1>3, <1>4, <1>5, <1>6, <1>7, <1>8 DEF Next

\* Every state satisfies it.
THEOREM OriginInvariance == Spec => []OriginInv
  BY InitOrigin, NextOrigin, PTL DEF Spec

\* The tokens in the vault are of a login that completed, or that its own
\* attempt ended: never of one that was revoked, cancelled, expired or
\* interrupted.
THEOREM NoneRestored == Spec => []WithdrawnNotRestored
  <1>1. OriginInv => WithdrawnNotRestored
    BY DEF OriginInv, Earned, Kept, WithdrawnNotRestored
  <1> QED
    BY <1>1, OriginInvariance, PTL
=============================================================================
