------------------------------- MODULE Branding -------------------------------
(***************************************************************************)
(* The branding revisions (backend/infra/src/branding.rs) and the handlers *)
(* of drafts, publication and withdrawal (backend/api/src/lib.rs).         *)
(*                                                                         *)
(* A draft is made in four statements, a publication in a read and a       *)
(* READ COMMITTED transaction.  In it the first UPDATE locks the published *)
(* row until the commit; a second transaction's waits for that lock and    *)
(* then looks again at the row it waited for, not for a row published in   *)
(* the meantime.  What a transaction wrote is seen when it commits: its    *)
(* last two statements and the commit are one step, which the unique       *)
(* index on the published state may turn into a rollback.  The runtime     *)
(* document is one read and is not modelled.                               *)
(***************************************************************************)
EXTENDS Naturals, FiniteSets

CONSTANTS
    Documents,
    Editors,      \* requests of create_draft
    Publishers,   \* requests of publish_revision
    None,
    MaxRevision   \* bound: revision numbers

VARIABLES
    row,       \* branding_revisions by revision number
    drafting,  \* what each create_draft has read
    publishing \* where each publish_revision is

vars == <<row, drafting, publishing>>

-----------------------------------------------------------------------------
(* Types. *)

Numbers == 1 .. MaxRevision

State == {"absent", "draft", "published", "superseded", "withdrawn"}

Row == [state : State, document : Documents \cup {None}, base : Nat]

Drafting == [phase : {"idle", "numbered", "based"}, number : Nat,
             document : Documents \cup {None}, base : Nat]

\* waits is the published row whose lock another transaction holds, held the
\* rows this one has superseded.
Publishing == [phase : {"idle", "loaded", "waiting", "superseded"}, revision : Nat,
               waits : Nat, held : SUBSET Numbers]

ASSUME BrandingAssumption ==
    /\ None \notin Documents
    /\ MaxRevision \in Nat

NoRow == [state |-> "absent", document |-> None, base |-> 0]

NoDrafting == [phase |-> "idle", number |-> 0, document |-> None, base |-> 0]

NoPublishing == [phase |-> "idle", revision |-> 0, waits |-> 0, held |-> {}]

Init ==
    /\ row = [n \in Numbers |-> NoRow]
    /\ drafting = [e \in Editors |-> NoDrafting]
    /\ publishing = [p \in Publishers |-> NoPublishing]

In(state) == {n \in Numbers : row[n].state = state}

Published == In("published")

-----------------------------------------------------------------------------
(* create_draft. *)

\* next_revision_number: max(revision) + 1, or 1.
Allocate(e, d) ==
    /\ drafting[e].phase = "idle"
    /\ \E n \in Numbers :
          /\ row[n].state = "absent"
          /\ \A m \in Numbers : m < n <=> row[m].state # "absent"
          /\ drafting' = [drafting EXCEPT ![e] =
                [phase |-> "numbered", number |-> n, document |-> d, base |-> 0]]
    /\ UNCHANGED <<row, publishing>>

\* find_published: the base; none is taken for an error of the read too.
FindBase(e) ==
    /\ drafting[e].phase = "numbered"
    /\ \E b \in Published \cup {0} :
          drafting' = [drafting EXCEPT ![e].phase = "based", ![e].base = b]
    /\ UNCHANGED <<row, publishing>>

\* Faulty variant: an upsert by revision number.
NumberUnchecked(e) == TRUE

NumberFree(e) == row[drafting[e].number].state = "absent"

\* The etag of a draft is its document's hash; publication replaces it.
EtagFree(e) ==
    \A n \in In("draft") \cup In("withdrawn") : row[n].document # drafting[e].document

InsertDraft(e) ==
    /\ drafting[e].phase = "based"
    /\ IF NumberFree(e) /\ EtagFree(e)
       THEN row' = [row EXCEPT ![drafting[e].number] =
               [state |-> "draft", document |-> drafting[e].document, base |-> drafting[e].base]]
       ELSE UNCHANGED row
    /\ drafting' = [drafting EXCEPT ![e] = NoDrafting]
    /\ UNCHANGED publishing

\* The request is dropped with its connection.
AbandonDraft(e) ==
    /\ drafting[e].phase # "idle"
    /\ drafting' = [drafting EXCEPT ![e] = NoDrafting]
    /\ UNCHANGED <<row, publishing>>

Withdraw(n) ==
    /\ row[n].state = "draft"
    /\ row' = [row EXCEPT ![n].state = "withdrawn"]
    /\ UNCHANGED <<drafting, publishing>>

-----------------------------------------------------------------------------
(* publish_revision. *)

\* The handler's own read; If-Match is not read.
LoadDraft(p, n) ==
    /\ publishing[p].phase = "idle"
    /\ row[n].state = "draft"
    /\ publishing' = [publishing EXCEPT ![p] =
          [NoPublishing EXCEPT !.phase = "loaded", !.revision = n]]
    /\ UNCHANGED <<row, drafting>>

Locked(n) == \E q \in Publishers : n \in publishing[q].held

\* The first UPDATE locks the published row or waits for it.
Supersede(p) ==
    /\ publishing[p].phase = "loaded"
    /\ \/ /\ Published = {}
          /\ publishing' = [publishing EXCEPT ![p].phase = "superseded"]
       \/ \E n \in Published :
             /\ ~Locked(n)
             /\ publishing' = [publishing EXCEPT ![p].phase = "superseded", ![p].held = {n}]
       \/ \E n \in Published :
             /\ Locked(n)
             /\ publishing' = [publishing EXCEPT ![p].phase = "waiting", ![p].waits = n]
    /\ UNCHANGED <<row, drafting>>

\* The lock is free: the row is looked at again, and no other.
Awake(p) ==
    /\ publishing[p].phase = "waiting"
    /\ ~Locked(publishing[p].waits)
    /\ publishing' = [publishing EXCEPT ![p] =
          [@ EXCEPT !.phase = "superseded", !.waits = 0,
                    !.held = {publishing[p].waits} \cap Published]]
    /\ UNCHANGED <<row, drafting>>

IndexAllows(p) == Published \subseteq publishing[p].held

\* Faulty variant: the first UPDATE has been committed on its own.
SupersededForGood(p) ==
    [n \in Numbers |->
        IF n \in publishing[p].held THEN [row[n] EXCEPT !.state = "superseded"] ELSE row[n]]

RolledBack(p) == row

Swapped(p) ==
    [n \in Numbers |->
        IF n = publishing[p].revision THEN [row[n] EXCEPT !.state = "published"]
        ELSE IF n \in publishing[p].held THEN [row[n] EXCEPT !.state = "superseded"]
        ELSE row[n]]

\* The draft is read FOR UPDATE, published, and the transaction committed; or
\* it is a draft no more, or the index refuses, and all is rolled back.
Commit(p) ==
    /\ publishing[p].phase = "superseded"
    /\ row' = IF row[publishing[p].revision].state = "draft" /\ IndexAllows(p)
              THEN Swapped(p) ELSE RolledBack(p)
    /\ publishing' = [publishing EXCEPT ![p] = NoPublishing]
    /\ UNCHANGED drafting

\* The request is dropped: an open transaction is rolled back.
AbandonPublish(p) ==
    /\ publishing[p].phase # "idle"
    /\ row' = RolledBack(p)
    /\ publishing' = [publishing EXCEPT ![p] = NoPublishing]
    /\ UNCHANGED drafting

-----------------------------------------------------------------------------
(* The specification. *)

Edit(e) ==
    \/ \E d \in Documents : Allocate(e, d)
    \/ FindBase(e)
    \/ InsertDraft(e)
    \/ AbandonDraft(e)

Publish(p) ==
    \/ \E n \in Numbers : LoadDraft(p, n)
    \/ Supersede(p)
    \/ Awake(p)
    \/ Commit(p)
    \/ AbandonPublish(p)

Next ==
    \/ \E e \in Editors : Edit(e)
    \/ \E n \in Numbers : Withdraw(n)
    \/ \E p \in Publishers : Publish(p)

Spec == Init /\ [][Next]_vars

-----------------------------------------------------------------------------
(* Properties. *)

TypeOK ==
    /\ row \in [Numbers -> Row]
    /\ drafting \in [Editors -> Drafting]
    /\ publishing \in [Publishers -> Publishing]

\* However publications overlap there is never more than one published
\* revision, and a transaction holds no row but that one.
OnePublished ==
    /\ \A m, n \in Published : m = n
    /\ \A p \in Publishers : publishing[p].held \subseteq Published
    /\ \A p, q \in Publishers :
          publishing[p].held \cap publishing[q].held # {} => p = q

\* A published revision is replaced and never just gone, neither by a refused
\* nor by a dropped publication: consumers that have a document never get 404.
PublishedNeverGone ==
    [][\A n \in Published :
          n \notin Published' => row'[n].state = "superseded" /\ Published' # {}]_vars

\* The revisions have no gaps, and a base is an older one that was published.
LineageSound ==
    \A n \in Numbers :
        row[n].state # "absent" =>
            /\ \A m \in 1 .. n : row[m].state # "absent"
            /\ row[n].base < n
            /\ row[n].base # 0 => row[row[n].base].state \in {"published", "superseded"}

\* Though the number and the base of a draft are read in two statements and a
\* third one writes it, and publications overlap, the history is a chain of
\* drafts on published bases that has one published revision at its head.
HistorySound == LineageSound /\ OnePublished

\* docs/adr/0005: a write that is based on a stale revision is refused.
NoStalePublish ==
    [][\A n \in Numbers :
          row[n].state = "draft" /\ row'[n].state = "published"
          => Published \subseteq {row[n].base}]_vars
=============================================================================
