-------------------------- MODULE PlatformFeedProofs --------------------------
(***************************************************************************)
(* Proofs about PlatformFeed, for any events, failures, retention times    *)
(* and batches.                                                            *)
(*                                                                         *)
(* The inbox remembers an event as long as it needs to: an event that was  *)
(* shown is either processed since that very day or has been out of date   *)
(* for longer than the inbox remembers anything (Remembered).              *)
(***************************************************************************)
EXTENDS PlatformFeed, FiniteSetTheorems, TLAPS

\* What was shown is in the inbox, until the inbox may forget it.
Remembered ==
    \A e \in Events :
        shown[e] # None =>
            \/ inbox[e].state = "processed" /\ inbox[e].updated = shown[e]
            \/ Older(shown[e], InboxDays)

\* Nothing was received in the future.
Past == \A e \in Events : shown[e] # None => shown[e] <= day

\* Metrics are measured over a connection.
Connected == CurrentIsConnected /\ (consumer.measuring => consumer.phase = "working")

Inv == TypeOK /\ ProcessedIsShown /\ Connected /\ Remembered /\ Past

\* What an event may go through in one step.
FactStands(e) ==
    /\ feed[e] # None /\ feed'[e] # feed[e] => feed'[e] = None /\ Older(feed[e], FeedDays)
    /\ feed[e] = None /\ feed'[e] # None => shown[e] = None \/ Older(shown[e], InboxDays)

-----------------------------------------------------------------------------

\* No process has an event to acknowledge when it begins a phase.
LEMMA InType ==
    ASSUME NEW phase \in {"down", "connecting", "working", "draining", "pausing", "ended"}
    PROVE  In(phase) \in Consumer /\ In(phase).phase = phase /\ ~In(phase).measuring
  BY DEF In, Consumer

\* A step that leaves the tables and the calendar alone.
LEMMA ProcessStep ==
    ASSUME Inv, UNCHANGED day, UNCHANGED inbox, UNCHANGED feed, UNCHANGED shown,
           TypeOK', Connected'
    PROVE  Inv' /\ \A e \in Events : FactStands(e)
  BY DEF Inv, ProcessedIsShown, Remembered, Past, Older, FactStands

-----------------------------------------------------------------------------

\* A day more makes older what was old.
LEMMA NextDayKeeps ==
    ASSUME Inv, NextDay
    PROVE  Inv' /\ \A e \in Events : FactStands(e)
  <1>1. /\ day \in Nat /\ day' = day + 1 /\ day' \in Days
        /\ UNCHANGED inbox /\ UNCHANGED feed /\ UNCHANGED shown
        /\ UNCHANGED consumer /\ UNCHANGED stale
    BY FeedAssumption DEF Inv, TypeOK, NextDay, process, Days
  <1>2. TypeOK' /\ Connected'
    BY <1>1 DEF Inv, TypeOK, Connected, CurrentIsConnected, NextDay, process
  <1>3. \A e \in Events : shown[e] # None => shown[e] \in Nat
    BY DEF Inv, TypeOK, Days
  <1>4. \A e \in Events : shown[e] # None =>
            /\ shown[e] + FeedDays < day => shown[e] + FeedDays < day'
            /\ shown[e] + InboxDays < day => shown[e] + InboxDays < day'
            /\ shown[e] <= day => shown[e] <= day'
    BY <1>1, <1>3, FeedAssumption
  <1>5. ProcessedIsShown' /\ Remembered' /\ Past'
    BY <1>1, <1>4 DEF Inv, ProcessedIsShown, Remembered, Past, Older
  <1> QED
    BY <1>1, <1>2, <1>5 DEF Inv, FactStands

\* The row of an event that the inbox does not have as settled.
LEMMA ProcessKeeps ==
    ASSUME Inv, NEW e \in Events, Process(e)
    PROVE  Inv' /\ \A q \in Events : FactStands(q)
  <1>1. /\ inbox[e].state \notin Settled /\ Inserted(e) # feed /\ feed' = Inserted(e)
        /\ shown' = [shown EXCEPT ![e] = feed'[e]]
        /\ inbox' = [inbox EXCEPT ![e] =
              [state |-> "processed", failures |-> @.failures, updated |-> day]]
        /\ consumer' = [consumer EXCEPT !.acking = e] /\ consumer.phase = "working"
        /\ UNCHANGED day /\ UNCHANGED completion /\ UNCHANGED sends /\ UNCHANGED stream
        /\ UNCHANGED stopping /\ UNCHANGED stale /\ UNCHANGED retention
    BY DEF Process, Delivered, ReturnsRow
  <1>2. /\ day \in Days /\ inbox \in [Events -> Inbox] /\ consumer \in Consumer
        /\ feed \in [Events -> Days \cup {None}] /\ shown \in [Events -> Days \cup {None}]
    BY DEF Inv, TypeOK
  <1>3. Rows(e) = {} /\ feed' = [feed EXCEPT ![e] = day]
    BY <1>1 DEF Inserted
  <1>4. feed[e] = None
    BY <1>3 DEF Rows
  <1>5. /\ feed'[e] = day /\ shown'[e] = day
        /\ inbox'[e].state = "processed" /\ inbox'[e].updated = day /\ inbox'[e] \in Inbox
        /\ \A q \in Events : q # e => /\ feed'[q] = feed[q] /\ shown'[q] = shown[q]
                                      /\ inbox'[q] = inbox[q]
        /\ inbox' \in [Events -> Inbox]
        /\ feed' \in [Events -> Days \cup {None}] /\ shown' \in [Events -> Days \cup {None}]
    BY <1>1, <1>2, <1>3 DEF Inbox, Settled
  <1>6. consumer' \in Consumer /\ consumer'.phase = "working" /\ consumer'.measuring = consumer.measuring
    BY <1>1, <1>2 DEF Consumer
  <1>7. TypeOK' /\ Connected'
    BY <1>1, <1>5, <1>6 DEF Inv, TypeOK, Connected, CurrentIsConnected
  <1>8. day # None
    BY <1>2, FeedAssumption
  <1>9. ProcessedIsShown' /\ Remembered' /\ Past'
    <2>1. day \in Nat
      BY <1>2 DEF Days
    <2> QED
      BY <1>1, <1>5, <1>8, <2>1 DEF Inv, ProcessedIsShown, Remembered, Past, Older
  <1>10. \A q \in Events : FactStands(q)
    <2>1. shown[e] = None \/ Older(shown[e], InboxDays)
      BY <1>1 DEF Inv, Remembered, Settled
    <2> QED
      BY <1>4, <1>5, <2>1 DEF FactStands
  <1> QED
    BY <1>7, <1>9, <1>10 DEF Inv

\* A row of the inbox that is not, and does not become, a processed one.
LEMMA InboxStep ==
    ASSUME Inv, NEW e \in Events, NEW n \in Inbox,
           inbox' = [inbox EXCEPT ![e] = n], n.state # "processed",
           inbox[e].state = "processed" => Older(inbox[e].updated, InboxDays),
           consumer' \in Consumer, consumer'.phase = consumer.phase,
           consumer'.measuring = consumer.measuring,
           UNCHANGED day, UNCHANGED completion, UNCHANGED sends, UNCHANGED stream,
           UNCHANGED feed, UNCHANGED shown, UNCHANGED stopping, UNCHANGED stale, UNCHANGED retention
    PROVE  Inv' /\ \A q \in Events : FactStands(q)
  <1>1. /\ inbox' \in [Events -> Inbox] /\ inbox'[e] = n
        /\ \A q \in Events : q # e => inbox'[q] = inbox[q]
    BY DEF Inv, TypeOK
  <1>2. TypeOK' /\ Connected'
    BY <1>1 DEF Inv, TypeOK, Connected, CurrentIsConnected
  <1>3. ProcessedIsShown' /\ Past'
    BY <1>1 DEF Inv, ProcessedIsShown, Past, Older
  <1>4. Remembered'
    BY <1>1 DEF Inv, Remembered, Older
  <1> QED
    BY <1>2, <1>3, <1>4 DEF Inv, FactStands

\* A conflict is counted, or ends in quarantine.
LEMMA ConflictKeeps ==
    ASSUME Inv, NEW e \in Events, Conflict(e)
    PROVE  Inv' /\ \A q \in Events : FactStands(q)
  <1>1. /\ inbox \in [Events -> Inbox] /\ inbox[e] \in Inbox /\ day \in Days
        /\ consumer \in Consumer
    BY DEF Inv, TypeOK
  <1>2. /\ inbox[e].state # "processed"
        /\ UNCHANGED day /\ UNCHANGED completion /\ UNCHANGED sends /\ UNCHANGED stream
        /\ UNCHANGED feed /\ UNCHANGED shown /\ UNCHANGED stopping /\ UNCHANGED stale /\ UNCHANGED retention
    BY DEF Conflict, Settled
  <1>3. CASE /\ inbox[e].failures + 1 < MaxFailures
             /\ inbox' = [inbox EXCEPT ![e] =
                   [state |-> "pending", failures |-> @.failures + 1, updated |-> @.updated]]
             /\ UNCHANGED consumer
    <2> DEFINE n == [state |-> "pending", failures |-> inbox[e].failures + 1,
                     updated |-> inbox[e].updated]
    <2>1. n \in Inbox /\ n.state # "processed"
      BY <1>1, <1>3, FeedAssumption DEF Inbox
    <2>2. inbox' = [inbox EXCEPT ![e] = n]
      BY <1>1, <1>3
    <2> HIDE DEF n
    <2> QED
      BY <1>1, <1>2, <1>3, <2>1, <2>2, InboxStep
  <1>4. CASE /\ inbox' = [inbox EXCEPT ![e] =
                   [state |-> "quarantined", failures |-> MaxFailures, updated |-> day]]
             /\ consumer' = [consumer EXCEPT !.acking = e]
    <2>1. [state |-> "quarantined", failures |-> MaxFailures, updated |-> day] \in Inbox
      BY <1>1, FeedAssumption DEF Inbox, Settled
    <2>2. /\ consumer' \in Consumer /\ consumer'.phase = consumer.phase
          /\ consumer'.measuring = consumer.measuring
      BY <1>1, <1>4 DEF Consumer
    <2> QED
      BY <1>2, <1>4, <2>1, <2>2, InboxStep
  <1> QED
    BY <1>3, <1>4 DEF Conflict

\* The library forgets what is out of date.
LEMMA ForgetKeeps ==
    ASSUME Inv, NEW e \in Events, Forget(e)
    PROVE  Inv' /\ \A q \in Events : FactStands(q)
  <1>1. /\ Absent \in Inbox /\ Absent.state # "processed"
        /\ Older(inbox[e].updated, InboxDays) /\ inbox' = [inbox EXCEPT ![e] = Absent]
        /\ consumer' \in Consumer /\ consumer'.phase = consumer.phase
        /\ consumer'.measuring = consumer.measuring
        /\ UNCHANGED day /\ UNCHANGED completion /\ UNCHANGED sends /\ UNCHANGED stream
        /\ UNCHANGED feed /\ UNCHANGED shown /\ UNCHANGED stopping /\ UNCHANGED stale /\ UNCHANGED retention
    BY FeedAssumption DEF Forget, process, Inv, TypeOK, Absent, Inbox, Days
  <1> QED
    BY <1>1, InboxStep

\* A pass of the retention takes rows that have expired.
LEMMA CleanupKeeps ==
    ASSUME Inv, Cleanup
    PROVE  Inv' /\ \A q \in Events : FactStands(q)
  <1>1. PICK b \in Batches : feed' = [e \in Events |-> IF e \in b THEN None ELSE feed[e]]
    BY DEF Cleanup
  <1>2. /\ retention' = "paused" /\ UNCHANGED day /\ UNCHANGED completion /\ UNCHANGED sends
        /\ UNCHANGED stream /\ UNCHANGED inbox /\ UNCHANGED shown /\ UNCHANGED stopping /\ UNCHANGED consumer
        /\ UNCHANGED stale
    BY DEF Cleanup
  <1>3. \A e \in Events : e \in b => Older(feed[e], FeedDays) /\ feed[e] # None
    BY DEF Batches, Expired, Older
  <1>4. TypeOK' /\ Connected'
    BY <1>1, <1>2 DEF Inv, TypeOK, Connected, CurrentIsConnected
  <1>5. ProcessedIsShown' /\ Remembered' /\ Past'
    BY <1>1, <1>2, <1>3 DEF Inv, ProcessedIsShown, Remembered, Past, Older
  <1>6. \A e \in Events : FactStands(e)
    BY <1>1, <1>3 DEF FactStands
  <1> QED
    BY <1>4, <1>5, <1>6 DEF Inv

-----------------------------------------------------------------------------

\* Steps of the process that touch neither the tables nor the calendar.
LEMMA OthersKeep ==
    ASSUME Inv,
           \/ ConsumerStep \/ ServerStep
           \/ CleanupFails \/ RetentionResumes \/ RetentionLeaves
           \/ \E e \in Events : Publish(e) \/ Duplicate(e) \/ Ack(e)
    PROVE  Inv' /\ \A q \in Events : FactStands(q)
  <1> USE DEF data, process
  <1>1. TypeOK /\ Connected /\ consumer \in Consumer
    BY DEF Inv, TypeOK
  <1>2. CASE ConsumerStep
    <2>1. /\ UNCHANGED data /\ UNCHANGED stopping /\ UNCHANGED retention
          /\ consumer' \in Consumer /\ stale' \in BOOLEAN
          /\ stale' \/ consumer'.phase \in {"working", "draining"}
          /\ consumer'.measuring => consumer'.phase = "working"
      <3>1. CASE Connect
        BY <1>1, <3>1, InType DEF Connect, TypeOK
      <3>2. CASE ConnectFails \/ Drained
        BY <1>1, <3>2, InType DEF ConnectFails, TriesAgain, Drained
      <3>3. CASE Tick
        BY <1>1, <3>3 DEF Tick, TypeOK, Consumer
      <3>4. CASE Measured
        <4>1. consumer.phase = "working"
          BY <1>1, <3>4 DEF Measured, Connected
        <4> QED
          BY <1>1, <3>4, <4>1 DEF Measured, TypeOK, Consumer
      <3>5. CASE WorkEnds
        BY <1>1, <3>5, InType DEF WorkEnds, TypeOK
      <3>6. CASE Resume \/ Leave
        BY <1>1, <3>6, InType DEF Resume, Leave, TypeOK, Connected, CurrentIsConnected
      <3> QED
        BY <1>2, <3>1, <3>2, <3>3, <3>4, <3>5, <3>6 DEF ConsumerStep
    <2>2. TypeOK' /\ Connected'
      BY <1>1, <2>1 DEF TypeOK, Connected, CurrentIsConnected
    <2> QED
      BY <2>1, <2>2, ProcessStep
  <1>3. CASE ServerStep
    <2>1. /\ UNCHANGED data /\ stopping' \in BOOLEAN /\ retention' \in {"due", "paused", "ended"}
          /\ consumer' \in Consumer /\ stale' \in BOOLEAN
          /\ stale' \/ consumer'.phase \in {"working", "draining"}
          /\ consumer'.measuring => consumer'.phase = "working"
      BY <1>1, <1>3, InType
        DEF ServerStep, Stop, Crash, Exit, Down, Start, TypeOK, Connected, CurrentIsConnected
    <2>2. TypeOK' /\ Connected'
      BY <1>1, <2>1 DEF TypeOK, Connected, CurrentIsConnected
    <2> QED
      BY <2>1, <2>2, ProcessStep
  <1>4. CASE CleanupFails \/ RetentionResumes \/ RetentionLeaves
    <2>1. TypeOK' /\ Connected'
      BY <1>1, <1>4 DEF TypeOK, Connected, CurrentIsConnected, CleanupFails, GoesOnAfterFailure,
                        RetentionResumes, RetentionLeaves
    <2> QED
      BY <1>4, <2>1, ProcessStep DEF CleanupFails, RetentionResumes, RetentionLeaves
  <1>5. ASSUME NEW e \in Events, Publish(e)
        PROVE  Inv' /\ \A q \in Events : FactStands(q)
    <2>1. sends' \in 0 .. MaxSends
      BY <1>1, <1>5, FeedAssumption DEF TypeOK, Publish
    <2>2. TypeOK' /\ Connected'
      BY <1>1, <1>5, <2>1 DEF TypeOK, Connected, CurrentIsConnected, Publish
    <2> QED
      BY <1>5, <2>2, ProcessStep DEF Publish
  <1>6. ASSUME NEW e \in Events, Duplicate(e) \/ Ack(e)
        PROVE  Inv' /\ \A q \in Events : FactStands(q)
    <2>1. /\ consumer' \in Consumer /\ consumer'.phase = consumer.phase
          /\ consumer'.measuring = consumer.measuring
      BY <1>1, <1>6 DEF Duplicate, Ack, Consumer
    <2>2. TypeOK' /\ Connected'
      BY <1>1, <1>6, <2>1 DEF TypeOK, Connected, CurrentIsConnected, Duplicate, Ack
    <2> QED
      BY <1>6, <2>2, ProcessStep DEF Duplicate, Ack
  <1> QED
    BY <1>2, <1>3, <1>4, <1>5, <1>6

\* Every step keeps the invariant and lets the facts stand.
LEMMA NextInv ==
    ASSUME Inv, [Next]_vars
    PROVE  Inv' /\ \A e \in Events : FactStands(e)
  <1>1. CASE \E e \in Events : Publish(e) \/ Forget(e)
    BY <1>1, OthersKeep, ForgetKeeps
  <1>2. CASE NextDay
    BY <1>2, NextDayKeeps
  <1>3. CASE ConsumerStep \/ ServerStep
    BY <1>3, OthersKeep
  <1>4. CASE Delivery
    BY <1>4, OthersKeep, ProcessKeeps, ConflictKeeps DEF Delivery, Handle
  <1>5. CASE RetentionStep
    BY <1>5, OthersKeep, CleanupKeeps DEF RetentionStep
  <1>6. CASE UNCHANGED vars
    <2>1. TypeOK' /\ Connected'
      BY <1>6 DEF vars, Inv, TypeOK, Connected, CurrentIsConnected
    <2> QED
      BY <1>6, <2>1, ProcessStep DEF vars
  <1> QED
    BY <1>1, <1>2, <1>3, <1>4, <1>5, <1>6 DEF Next

\* At first nothing was received.
LEMMA InitInv ==
    ASSUME Init
    PROVE  Inv
  <1>1. In("connecting") \in Consumer
    BY InType
  <1>2. Absent \in Inbox /\ 0 \in Days
    BY FeedAssumption DEF Absent, Inbox, Days
  <1>3. TypeOK
    <2>1. sends \in 0 .. MaxSends
      BY FeedAssumption DEF Init
    <2>2. /\ inbox \in [Events -> Inbox]
          /\ feed \in [Events -> Days \cup {None}]
          /\ shown \in [Events -> Days \cup {None}]
      BY <1>2 DEF Init
    <2> QED
      BY <1>1, <1>2, <2>1, <2>2 DEF Init, TypeOK
  <1>4. ProcessedIsShown /\ Remembered /\ Past
    BY DEF Init, ProcessedIsShown, Remembered, Past, Absent
  <1>5. Connected
    BY <1>1, InType DEF Init, Connected, CurrentIsConnected
  <1> QED
    BY <1>3, <1>4, <1>5 DEF Inv

-----------------------------------------------------------------------------
(* Theorems. *)

\* The inductive invariant of the feed.
THEOREM FeedInvariance == Spec => []Inv
  <1>1. Init => Inv
    BY InitInv
  <1>2. Inv /\ [Next]_vars => Inv'
    BY NextInv
  <1> QED
    BY <1>1, <1>2, PTL DEF Spec

\* Type correctness, for any events, retention times and failures.
THEOREM FeedTypes == Spec => []TypeOK
  <1>1. Inv => TypeOK
    BY DEF Inv
  <1> QED
    BY <1>1, FeedInvariance, PTL

\* What was processed was shown, and stays so for as long as the feed keeps it.
THEOREM ProcessedShown == Spec => []ProcessedIsShown
  <1>1. Inv => ProcessedIsShown
    BY DEF Inv
  <1> QED
    BY <1>1, FeedInvariance, PTL

\* Nobody is told that a consumer without a connection is current.
THEOREM CurrentConnected == Spec => []CurrentIsConnected
  <1>1. Inv => CurrentIsConnected
    BY DEF Inv, Connected
  <1> QED
    BY <1>1, FeedInvariance, PTL

\* The first event of a completion stands, and none is shown twice while the
\* inbox remembers it.
THEOREM TheFactsStand == Spec => FactsStand
  <1>1. Inv /\ [Next]_vars
        => [\A e \in Events :
               /\ feed[e] # None /\ feed'[e] # feed[e]
                     => feed'[e] = None /\ Older(feed[e], FeedDays)
               /\ feed[e] = None /\ feed'[e] # None
                     => shown[e] = None \/ Older(shown[e], InboxDays)]_vars
    BY NextInv DEF FactStands
  <1> QED
    BY <1>1, FeedInvariance, PTL DEF Spec, FactsStand

\* Only a pass of the retention takes rows out of the feed.
LEMMA RowsStay ==
    ASSUME Inv, [Next]_vars, NEW e \in Events, feed[e] # None, feed'[e] = None
    PROVE  Cleanup
  <1>1. ASSUME NEW q \in Events, Process(q) PROVE FALSE
    <2>1. day # None /\ feed \in [Events -> Days \cup {None}]
      BY FeedAssumption DEF Inv, TypeOK
    <2> QED
      BY <1>1, <2>1 DEF Process, Inserted
  <1>2. ASSUME NEW q \in Events, Publish(q) \/ Forget(q) \/ Conflict(q) \/ Duplicate(q) \/ Ack(q)
        PROVE  FALSE
    BY <1>2 DEF Publish, Forget, Conflict, Duplicate, Ack, data
  <1>3. ~(NextDay \/ ConsumerStep \/ ServerStep \/ UNCHANGED vars)
    BY DEF NextDay, ConsumerStep, Connect, ConnectFails, Tick, Measured, WorkEnds, Drained, Resume,
           Leave, ServerStep, Stop, Crash, Exit, Down, Start, data, vars
  <1>4. ~(CleanupFails \/ RetentionResumes \/ RetentionLeaves)
    BY DEF CleanupFails, RetentionResumes, RetentionLeaves, data
  <1> QED
    BY <1>1, <1>2, <1>3, <1>4 DEF Next, Delivery, Handle, RetentionStep

\* A batch is taken from the oldest rows and is not empty if any has expired.
LEMMA BatchTaken ==
    ASSUME Inv, NEW b \in Batches
    PROVE  /\ b \subseteq Expired /\ (Expired # {} => b # {})
           /\ \A e \in b, q \in Expired \ b : feed[e] <= feed[q]
  <1>1. CleanupBatch # 0
    BY FeedAssumption
  <1>2. Cardinality({}) = 0
    BY FS_EmptySet
  <1> QED
    BY <1>1, <1>2 DEF Batches

\* What expired first goes first, for batches and feeds of any size, and every
\* pass that commits has less to do for the next one.
THEOREM OldestFirst == Spec => OldestGoFirst
  <1> DEFINE gone == \A e \in Events :
                 feed[e] # None /\ feed'[e] = None =>
                    /\ e \in Expired
                    /\ \A q \in Events :
                          feed[q] # None /\ feed'[q] # None => feed[e] <= feed[q]
             shrinks == Cleanup /\ Expired # {} => Expired' # Expired
  <1>1. Inv /\ Cleanup => gone /\ shrinks
    <2> SUFFICES ASSUME Inv, Cleanup PROVE gone /\ shrinks
      OBVIOUS
    <2>1. PICK b \in Batches : feed' = [e \in Events |-> IF e \in b THEN None ELSE feed[e]]
      BY DEF Cleanup
    <2>2. /\ b \subseteq Expired /\ (Expired # {} => b # {}) /\ day' = day
          /\ \A e \in b, q \in Expired \ b : feed[e] <= feed[q]
      BY BatchTaken DEF Cleanup
    <2>3. \A e \in Events : feed'[e] = IF e \in b THEN None ELSE feed[e]
      BY <2>1
    <2>4. gone
      <3> SUFFICES ASSUME NEW e \in Events, feed[e] # None, feed'[e] = None,
                          NEW q \in Events, feed[q] # None, feed'[q] # None
                   PROVE  e \in Expired /\ feed[e] <= feed[q]
        BY <2>2, <2>3
      <3>1. e \in b /\ q \notin b /\ e \in Expired
        BY <2>2, <2>3
      <3>2. CASE q \in Expired
        BY <2>2, <3>1, <3>2
      <3>3. CASE q \notin Expired
        <4>1. feed[e] \in Nat /\ feed[q] \in Nat /\ day \in Nat
          BY DEF Inv, TypeOK, Days
        <4>2. feed[e] + FeedDays < day /\ ~(feed[q] + FeedDays < day)
          BY <3>1, <3>3 DEF Expired, Older
        <4> QED
          BY <3>1, <4>1, <4>2, FeedAssumption
      <3> QED
        BY <3>2, <3>3
    <2>5. shrinks
      <3> SUFFICES ASSUME Expired # {} PROVE Expired' # Expired
        OBVIOUS
      <3>1. PICK e \in b : e \in Expired /\ e \in Events
        BY <2>2 DEF Expired
      <3>2. feed'[e] = None
        BY <2>3, <3>1
      <3>3. e \notin Expired'
        BY <3>2 DEF Expired, Older
      <3> QED
        BY <3>1, <3>3
    <2> QED
      BY <2>4, <2>5
  <1>2. Inv /\ [Next]_vars => [gone /\ shrinks]_vars
    BY <1>1, RowsStay
  <1> QED
    BY <1>2, FeedInvariance, PTL DEF Spec, OldestGoFirst
=============================================================================
