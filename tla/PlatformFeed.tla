----------------------------- MODULE PlatformFeed -----------------------------
(***************************************************************************)
(* The feed of finished pipelines: the handler that stores their events    *)
(* (backend/infra/src/messaging.rs), the consumer and the retention task   *)
(* that run beside the server (backend/server/src/messaging_worker.rs) and *)
(* the end and start of the server around them (backend/server/src/main.rs *)
(* and docs/adr/0017, 0019).                                               *)
(*                                                                         *)
(* The library sdlc-messaging is not part of the repository: it calls the  *)
(* handler in the transaction of its inbox and acknowledges an event after *)
(* the commit; what it does is taken from how it is called, from the       *)
(* tables of migration 0006 and from infra/tests/messaging.rs.  What the   *)
(* database does in one transaction is one step.                           *)
(***************************************************************************)
EXTENDS Naturals, FiniteSets

CONSTANTS
    Events,          \* event ids
    Completions,     \* the ways in which the events report completions of pipelines
    None,
    MaxFailures,     \* conflicts until an event goes to quarantine (8)
    FeedDays,        \* how long the feed keeps a row (90)
    InboxDays,       \* how long the inbox remembers an event that is settled (180)
    CleanupBatch,    \* rows that a pass of the retention removes (500)
    MaxDay,          \* bound: days
    MaxSends         \* bound: how often events are published

VARIABLES
    day,
    completion, \* by event, the completion that it reports; it never changes
    sends,      \* how often events were published
    stream,     \* events not acknowledged
    inbox,      \* messaging_inbox
    feed,       \* platform_events.received_at by id
    shown,      \* by event, the day it last entered the feed
    stopping,   \* the shutdown channel; a process that is down has none
    consumer,   \* run_consumer and consumer::run
    stale,      \* ConsumerObservation.stale
    retention   \* the retention task

process == <<stopping, consumer, stale, retention>>
vars == <<day, completion, sends, stream, inbox, feed, shown, stopping, consumer, stale, retention>>

-----------------------------------------------------------------------------
(* Types. *)

Days == 0 .. MaxDay

Settled == {"processed", "quarantined"}

Inbox == [state : {"absent", "pending"} \cup Settled, failures : 0 .. MaxFailures, updated : Days]

Consumer ==
    [phase : {"down", "connecting", "working", "draining", "pausing", "ended"},
     measuring : BOOLEAN, acking : Events \cup {None}]

ASSUME FeedAssumption ==
    /\ None \notin Events \cup Days
    /\ MaxFailures \in Nat \ {0} /\ CleanupBatch \in Nat \ {0}
    /\ FeedDays \in Nat /\ InboxDays \in Nat /\ FeedDays <= InboxDays
    /\ MaxDay \in Nat /\ MaxSends \in Nat

Absent == [state |-> "absent", failures |-> 0, updated |-> 0]

In(phase) == [phase |-> phase, measuring |-> FALSE, acking |-> None]

Init ==
    /\ day = 0
    /\ completion \in Completions
    /\ sends = 0
    /\ stream = {}
    /\ inbox = [e \in Events |-> Absent]
    /\ feed = [e \in Events |-> None]
    /\ shown = [e \in Events |-> None]
    /\ stopping = FALSE
    /\ consumer = In("connecting")
    /\ stale = TRUE
    /\ retention = "due"

Older(received, days) == received # None /\ received + days < day

-----------------------------------------------------------------------------
(* The producer, the broker and the calendar. *)

\* A pipeline has finished, or an operator replays what was published before.
Publish(e) ==
    /\ sends < MaxSends /\ e \notin stream
    /\ sends' = sends + 1
    /\ stream' = stream \cup {e}
    /\ UNCHANGED <<day, completion, inbox, feed, shown, process>>

NextDay ==
    /\ day < MaxDay
    /\ day' = day + 1
    /\ UNCHANGED <<completion, sends, stream, inbox, feed, shown, process>>

-----------------------------------------------------------------------------
(* The consumer: run_consumer. *)

data == <<day, completion, sends, stream, inbox, feed, shown>>

\* Bus::connect and bus.consumer; the tick of the interval comes later.
Connect ==
    /\ consumer.phase = "connecting" /\ ~stopping
    /\ consumer' = In("working")
    /\ UNCHANGED <<data, stopping, stale, retention>>

\* Faulty variant: a failed connect ends the loop.
GivesUp == "ended"

TriesAgain == "pausing"

ConnectFails ==
    /\ consumer.phase = "connecting"
    /\ consumer' = In(TriesAgain) /\ stale' = TRUE
    /\ UNCHANGED <<data, stopping, retention>>

\* While the metrics are awaited in the arm of the tick the work is not polled.
Tick ==
    /\ consumer.phase = "working" /\ ~consumer.measuring
    /\ consumer' = [consumer EXCEPT !.measuring = TRUE]
    /\ UNCHANGED <<data, stopping, stale, retention>>

Measured ==
    /\ consumer.measuring
    /\ consumer' = [consumer EXCEPT !.measuring = FALSE]
    /\ stale' \in BOOLEAN
    /\ UNCHANGED <<data, stopping, retention>>

\* consumer::run returns on an error of the broker or a shutdown.
WorkEnds ==
    /\ consumer.phase = "working" /\ ~consumer.measuring
    /\ consumer' = In("draining")
    /\ UNCHANGED <<data, stopping, stale, retention>>

Drained ==
    /\ consumer.phase = "draining"
    /\ consumer' = In("pausing") /\ stale' = TRUE
    /\ UNCHANGED <<data, stopping, retention>>

\* pause: the seconds are over, or the shutdown ends the loop.
Resume ==
    /\ consumer.phase = "pausing"
    /\ consumer' = In(IF stopping THEN "ended" ELSE "connecting")
    /\ UNCHANGED <<data, stopping, stale, retention>>

Leave ==
    /\ consumer.phase = "connecting" /\ stopping
    /\ consumer' = In("ended")
    /\ UNCHANGED <<data, stopping, stale, retention>>

-----------------------------------------------------------------------------
(* One delivery: begin_inbox, the handler, mark_processed, commit, ack. *)

Delivered(e) ==
    /\ consumer.phase = "working" /\ ~consumer.measuring /\ consumer.acking = None
    /\ e \in stream

\* The rows that have the source, pipeline and completion_seq of the event.
Rows(e) == {q \in Events : feed[q] # None /\ completion[q] = completion[e]}

\* Faulty variant: ON CONFLICT DO UPDATE.
Upserted(e) == [q \in Events |-> IF q = e THEN day ELSE IF q \in Rows(e) THEN None ELSE feed[q]]

\* ON CONFLICT DO NOTHING.
Inserted(e) == IF Rows(e) = {} THEN [feed EXCEPT ![e] = day] ELSE feed

\* Faulty variant: a statement that returns no row counts as handled.
ReturnsAlways(e) == TRUE

ReturnsRow(e) == Inserted(e) # feed

\* The row and the inbox in one transaction, the ack after it.
Process(e) ==
    /\ Delivered(e) /\ inbox[e].state \notin Settled
    /\ ReturnsRow(e)
    /\ feed' = Inserted(e)
    /\ shown' = [shown EXCEPT ![e] = feed'[e]]
    /\ inbox' = [inbox EXCEPT ![e] =
          [state |-> "processed", failures |-> @.failures, updated |-> day]]
    /\ consumer' = [consumer EXCEPT !.acking = e]
    /\ UNCHANGED <<day, completion, sends, stream, stopping, stale, retention>>

\* HandlerError::Business: counted, and delivered again until it is one too many.
Conflict(e) ==
    /\ Delivered(e) /\ inbox[e].state \notin Settled
    /\ ~ReturnsRow(e)
    /\ \/ /\ inbox[e].failures + 1 < MaxFailures
          /\ inbox' = [inbox EXCEPT ![e] =
                [state |-> "pending", failures |-> @.failures + 1, updated |-> @.updated]]
          /\ UNCHANGED consumer
       \/ /\ inbox[e].failures + 1 = MaxFailures
          /\ inbox' = [inbox EXCEPT ![e] =
                [state |-> "quarantined", failures |-> MaxFailures, updated |-> day]]
          /\ consumer' = [consumer EXCEPT !.acking = e]
    /\ UNCHANGED <<day, completion, sends, stream, feed, shown, stopping, stale, retention>>

Duplicate(e) ==
    /\ Delivered(e) /\ inbox[e].state \in Settled
    /\ consumer' = [consumer EXCEPT !.acking = e]
    /\ UNCHANGED <<data, stopping, stale, retention>>

Ack(e) ==
    /\ consumer.phase = "working" /\ ~consumer.measuring /\ consumer.acking = e
    /\ stream' = stream \ {e}
    /\ consumer' = [consumer EXCEPT !.acking = None]
    /\ UNCHANGED <<day, completion, sends, inbox, feed, shown, stopping, stale, retention>>

-----------------------------------------------------------------------------
(* Retention: the task of the feed, and the library's for the inbox. *)

Expired == {e \in Events : Older(feed[e], FeedDays)}

\* The oldest rows that have expired, one batch of them.
Batches ==
    {b \in SUBSET Expired :
        /\ Cardinality(b) = CleanupBatch \/ (b = Expired /\ Cardinality(b) < CleanupBatch)
        /\ \A e \in b, q \in Expired \ b : feed[e] <= feed[q]}

Cleanup ==
    /\ retention = "due" /\ ~stopping
    /\ \E b \in Batches : feed' = [e \in Events |-> IF e \in b THEN None ELSE feed[e]]
    /\ retention' = "paused"
    /\ UNCHANGED <<day, completion, sends, stream, inbox, shown, stopping, consumer, stale>>

\* Faulty variant: a failed pass ends the task.
EndsAfterFailure == "ended"

GoesOnAfterFailure == "paused"

\* An error or a timeout, which rolls the deletion back.
CleanupFails ==
    /\ retention = "due" /\ ~stopping
    /\ retention' = GoesOnAfterFailure
    /\ UNCHANGED <<data, stopping, consumer, stale>>

RetentionResumes ==
    /\ retention = "paused"
    /\ retention' = IF stopping THEN "ended" ELSE "due"
    /\ UNCHANGED <<data, stopping, consumer, stale>>

RetentionLeaves ==
    /\ retention = "due" /\ stopping
    /\ retention' = "ended"
    /\ UNCHANGED <<data, stopping, consumer, stale>>

\* maintenance::run for the inbox; an event that is pending is kept.
Forget(e) ==
    /\ consumer.phase # "down"
    /\ inbox[e].state \in Settled /\ Older(inbox[e].updated, InboxDays)
    /\ inbox' = [inbox EXCEPT ![e] = Absent]
    /\ UNCHANGED <<day, completion, sends, stream, feed, shown, process>>

-----------------------------------------------------------------------------
(* The server. *)

\* The signal, after which requests and workers come to an end.
Stop ==
    /\ consumer.phase # "down" /\ ~stopping
    /\ stopping' = TRUE
    /\ UNCHANGED <<data, consumer, stale, retention>>

Down ==
    /\ consumer.phase # "down"
    /\ consumer' = In("down") /\ stale' = TRUE
    /\ retention' = "ended" /\ stopping' = FALSE
    /\ UNCHANGED data

Crash == ~stopping /\ Down

\* A worker that has not ended in 15 seconds is dropped with the process.
Exit == stopping /\ Down

Start ==
    /\ consumer.phase = "down"
    /\ consumer' = In("connecting")
    /\ retention' = "due"
    /\ UNCHANGED <<data, stopping, stale>>

-----------------------------------------------------------------------------
(* The specification. *)

ConsumerStep ==
    \/ Connect \/ ConnectFails \/ Tick \/ Measured \/ WorkEnds \/ Drained \/ Resume \/ Leave

Handle(e) == Process(e) \/ Conflict(e) \/ Duplicate(e)

Delivery == \E e \in Events : Handle(e) \/ Ack(e)

RetentionStep == Cleanup \/ CleanupFails \/ RetentionResumes \/ RetentionLeaves

ServerStep == Stop \/ Crash \/ Exit \/ Start

Next ==
    \/ \E e \in Events : Publish(e) \/ Forget(e)
    \/ NextDay
    \/ ConsumerStep
    \/ Delivery
    \/ RetentionStep
    \/ ServerStep

Spec == Init /\ [][Next]_vars

\* The loops go on while the process lives, and it is started again; the broker
\* is reached and delivers, and the database commits, now and again.
FairSpec ==
    /\ Spec
    /\ SF_vars(Connect)
    /\ WF_vars(Measured \/ Drained \/ Resume)
    /\ \A e \in Events : SF_vars(Handle(e))
    /\ SF_vars(\E e \in Events : Ack(e))
    /\ SF_vars(Cleanup) /\ WF_vars(RetentionResumes)
    /\ WF_vars(Exit \/ Start)

-----------------------------------------------------------------------------
(* Properties. *)

\* The shape of every variable.
TypeOK ==
    /\ day \in Days
    /\ completion \in Completions
    /\ sends \in 0 .. MaxSends
    /\ stream \subseteq Events
    /\ inbox \in [Events -> Inbox]
    /\ feed \in [Events -> Days \cup {None}]
    /\ shown \in [Events -> Days \cup {None}]
    /\ stopping \in BOOLEAN
    /\ consumer \in Consumer
    /\ stale \in BOOLEAN
    /\ retention \in {"due", "paused", "ended"}

\* What the inbox has as processed was in the feed and stays there for its 90
\* days, over redeliveries, rivals, crashes and retention (docs/adr/0017: one
\* transaction, and the ack only after it).
ProcessedIsShown ==
    \A e \in Events :
        /\ inbox[e].state = "processed" =>
              /\ shown[e] # None
              /\ feed[e] = None => Older(shown[e], FeedDays)
        /\ feed[e] # None => feed[e] = shown[e]

\* The first event of a completion stands: no rival takes its row away, it goes
\* when it has expired, and an event that was shown is not shown again as long
\* as the inbox has it, though its row is gone much earlier (docs/adr/0017: a
\* repeat never overwrites the fact; docs/adr/0019: a replay rebuilds nothing).
FactsStand ==
    [][\A e \in Events :
          /\ feed[e] # None /\ feed'[e] # feed[e] => feed'[e] = None /\ Older(feed[e], FeedDays)
          /\ feed[e] = None /\ feed'[e] # None => shown[e] = None \/ Older(shown[e], InboxDays)]_vars

\* The status page calls the consumer current only while it has a connection
\* that it measures (ConsumerObservation.stale).
CurrentIsConnected == ~stale => consumer.phase \in {"working", "draining"}

\* Every event is acknowledged in the end, and not before it, or another event of
\* its completion, was shown.
EventsSettle ==
    \A e \in Events :
        e \in stream
            ~> /\ e \notin stream
               /\ \E q \in Events : completion[q] = completion[e] /\ shown[q] # None

\* Rows leave the feed oldest first, only when they have expired; and a pass that
\* commits takes at least one if any has, so no backlog of any size stays.
OldestGoFirst ==
    [][/\ \A e \in Events :
             feed[e] # None /\ feed'[e] = None =>
                /\ e \in Expired
                /\ \A q \in Events :
                      feed[q] # None /\ feed'[q] # None => feed[e] <= feed[q]
       /\ Cleanup /\ Expired # {} => Expired' # Expired]_vars

\* A row that has expired goes, also when there are more than a batch and
\* whatever passes failed.
ExpiredGo == \A e \in Events : e \in Expired ~> feed[e] = None
=============================================================================
