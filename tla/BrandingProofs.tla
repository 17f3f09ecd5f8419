---------------------------- MODULE BrandingProofs ----------------------------
(***************************************************************************)
(* Proofs about Branding, for any documents, editors, publications and     *)
(* revisions.                                                              *)
(*                                                                         *)
(* What an editor has read stays good enough, since revisions only come    *)
(* and move on (Grows); a publication that may commit holds the only       *)
(* published row, so every other transaction holds none.                   *)
(***************************************************************************)
EXTENDS Branding, TLAPS

Present(n) == row[n].state # "absent"

WasPublished(n) == row[n].state \in {"published", "superseded"}

\* The numbers below a draft's are taken, its base has been published.
Drafts ==
    \A e \in Editors :
        drafting[e].phase # "idle" =>
            /\ drafting[e].number \in Numbers
            /\ \A m \in Numbers : m < drafting[e].number => Present(m)
            /\ drafting[e].base # 0 =>
                  drafting[e].base \in Numbers /\ WasPublished(drafting[e].base)

Publications ==
    \A p \in Publishers :
        /\ publishing[p].phase # "idle" => publishing[p].revision \in Numbers
        /\ publishing[p].phase # "superseded" => publishing[p].held = {}

Inv == TypeOK /\ LineageSound /\ Drafts /\ Publications /\ OnePublished

\* What happens to the rows that exist.
Grows ==
    \A n \in Numbers :
        /\ Present(n) => Present(n)' /\ row'[n].base = row[n].base
        /\ WasPublished(n) => WasPublished(n)'

-----------------------------------------------------------------------------

\* The drafts that are being made outlive any step of others.
LEMMA DraftsStay ==
    ASSUME Drafts, Grows, UNCHANGED drafting
    PROVE  Drafts'
  BY DEF Drafts, Grows

\* Rows that only change their state keep the history sound.
LEMMA HistoryStays ==
    ASSUME TypeOK, LineageSound, Grows, \A n \in Numbers : Present(n)' => Present(n)
    PROVE  LineageSound'
  <1> SUFFICES ASSUME NEW n \in Numbers, Present(n)'
               PROVE  /\ \A m \in 1 .. n : Present(m)'
                      /\ row'[n].base < n
                      /\ row'[n].base # 0 => WasPublished(row[n].base)'
    BY DEF LineageSound, Present, WasPublished, Grows
  <1>1. Present(n) /\ row'[n].base = row[n].base
    BY DEF Grows
  <1>2. /\ \A m \in 1 .. n : Present(m)
        /\ row[n].base < n
        /\ row[n].base # 0 => WasPublished(row[n].base)
    BY <1>1 DEF LineageSound, Present, WasPublished
  <1>3. MaxRevision \in Nat /\ n \in Nat /\ n <= MaxRevision
    BY BrandingAssumption DEF Numbers
  <1>4. \A m \in 1 .. n : m \in Numbers
    BY <1>3 DEF Numbers
  <1>5. row[n].base \in Nat
    BY DEF TypeOK, Row
  <1>6. row[n].base # 0 => row[n].base \in Numbers
    BY <1>2, <1>3, <1>5 DEF Numbers
  <1> QED
    BY <1>1, <1>2, <1>4, <1>6 DEF Grows

\* A step that writes no row.
LEMMA RowsSame ==
    ASSUME Inv, UNCHANGED row, TypeOK', Drafts', Publications',
           \A p \in Publishers : publishing'[p].held \subseteq Published,
           \A p, q \in Publishers :
              publishing'[p].held \cap publishing'[q].held # {} => p = q
    PROVE  Inv'
  <1>1. Published' = Published
    BY DEF Published, In
  <1>2. OnePublished'
    BY <1>1 DEF Inv, OnePublished
  <1>3. LineageSound'
    BY DEF Inv, LineageSound
  <1> QED
    BY <1>2, <1>3 DEF Inv

\* A step of an editor that writes no row.
LEMMA DraftingStep ==
    ASSUME Inv, UNCHANGED row, UNCHANGED publishing,
           drafting' \in [Editors -> Drafting], Drafts'
    PROVE  Inv'
  <1>1. TypeOK'
    BY DEF Inv, TypeOK
  <1>2. Publications'
    BY DEF Inv, Publications
  <1> QED
    BY <1>1, <1>2, RowsSame DEF Inv, OnePublished

\* A step of a publication that writes no row.
LEMMA PublishingStep ==
    ASSUME Inv, UNCHANGED row, UNCHANGED drafting, NEW p \in Publishers,
           NEW r \in Publishing, publishing' = [publishing EXCEPT ![p] = r],
           r.phase # "idle" => r.revision \in Numbers,
           r.phase # "superseded" => r.held = {},
           r.held \subseteq Published,
           \A q \in Publishers : p # q => r.held \cap publishing[q].held = {}
    PROVE  Inv'
  <1>1. publishing \in [Publishers -> Publishing]
    BY DEF Inv, TypeOK
  <1>2. publishing'[p] = r /\ \A q \in Publishers : q # p => publishing'[q] = publishing[q]
    BY <1>1
  <1>3. TypeOK'
    BY <1>1 DEF Inv, TypeOK
  <1>4. Publications'
    BY <1>2 DEF Inv, Publications
  <1>5. Drafts'
    BY DEF Inv, Drafts, Present, WasPublished
  <1>6. \A q \in Publishers : publishing'[q].held \subseteq Published
    BY <1>2 DEF Inv, OnePublished
  <1>7. ASSUME NEW q \in Publishers, NEW s \in Publishers,
               publishing'[q].held \cap publishing'[s].held # {}
        PROVE  q = s
    BY <1>2, <1>7 DEF Inv, OnePublished
  <1> QED
    BY <1>3, <1>4, <1>5, <1>6, <1>7, RowsSame

-----------------------------------------------------------------------------

\* A number is taken with those below it.
LEMMA AllocateKeeps ==
    ASSUME Inv, NEW e \in Editors, NEW d \in Documents, Allocate(e, d)
    PROVE  Inv'
  <1>1. PICK n \in Numbers :
              /\ \A m \in Numbers : m < n <=> row[m].state # "absent"
              /\ drafting' = [drafting EXCEPT ![e] =
                    [phase |-> "numbered", number |-> n, document |-> d, base |-> 0]]
    BY DEF Allocate
  <1>2. n \in Nat
    BY BrandingAssumption DEF Numbers
  <1>3. drafting' \in [Editors -> Drafting]
    BY <1>1, <1>2 DEF Inv, TypeOK, Drafting
  <1>4. UNCHANGED row /\ UNCHANGED publishing
    BY DEF Allocate
  <1>5. Drafts'
    BY <1>1, <1>4 DEF Inv, TypeOK, Drafts, Present, WasPublished
  <1> QED
    BY <1>3, <1>4, <1>5, DraftingStep

\* The base has been published when it is read.
LEMMA FindBaseKeeps ==
    ASSUME Inv, NEW e \in Editors, FindBase(e)
    PROVE  Inv'
  <1>1. PICK b \in Published \cup {0} :
              drafting' = [drafting EXCEPT ![e].phase = "based", ![e].base = b]
    BY DEF FindBase
  <1>2. /\ b \in Nat
        /\ b # 0 => b \in Numbers /\ WasPublished(b)
    BY <1>1, BrandingAssumption DEF Published, In, Numbers, WasPublished
  <1>3. drafting \in [Editors -> Drafting] /\ drafting[e].phase = "numbered"
    BY DEF Inv, TypeOK, FindBase
  <1>4. drafting' = [drafting EXCEPT ![e] = [@ EXCEPT !.phase = "based", !.base = b]]
    BY <1>1, <1>3
  <1>5. [drafting[e] EXCEPT !.phase = "based", !.base = b] \in Drafting
    BY <1>2, <1>3 DEF Drafting
  <1>6. drafting' \in [Editors -> Drafting]
    BY <1>3, <1>4, <1>5
  <1>7. UNCHANGED row /\ UNCHANGED publishing
    BY DEF FindBase
  <1>8. ASSUME NEW f \in Editors, drafting'[f].phase # "idle"
        PROVE  /\ drafting'[f].number \in Numbers
               /\ \A m \in Numbers : m < drafting'[f].number => Present(m)
               /\ drafting'[f].base # 0 =>
                     drafting'[f].base \in Numbers /\ WasPublished(drafting'[f].base)
    <2>1. drafting[f].phase # "idle" /\ drafting'[f].number = drafting[f].number
      BY <1>3, <1>4, <1>8 DEF Drafting
    <2>2. drafting'[f].base = drafting[f].base \/ drafting'[f].base = b
      BY <1>3, <1>4 DEF Drafting
    <2> QED
      BY <1>2, <2>1, <2>2 DEF Inv, Drafts
  <1>9. Drafts'
    BY <1>7, <1>8 DEF Drafts, Present, WasPublished
  <1> QED
    BY <1>6, <1>7, <1>9, DraftingStep

\* A draft that is given up.
LEMMA AbandonDraftKeeps ==
    ASSUME Inv, NEW e \in Editors, AbandonDraft(e)
    PROVE  Inv'
  <1>1. drafting' = [drafting EXCEPT ![e] = NoDrafting] /\ UNCHANGED row /\ UNCHANGED publishing
    BY DEF AbandonDraft
  <1>2. drafting' \in [Editors -> Drafting]
    BY <1>1 DEF Inv, TypeOK, Drafting, NoDrafting
  <1>3. Drafts'
    BY <1>1 DEF Inv, TypeOK, Drafts, Present, WasPublished, NoDrafting
  <1> QED
    BY <1>1, <1>2, <1>3, DraftingStep

\* The row of a draft: its number is the first one free.
LEMMA InsertDraftKeeps ==
    ASSUME Inv, NEW e \in Editors, InsertDraft(e)
    PROVE  Inv'
  <1> DEFINE k == drafting[e].number
             b == drafting[e].base
             new == [state |-> "draft", document |-> drafting[e].document, base |-> b]
  <1>1. drafting' = [drafting EXCEPT ![e] = NoDrafting] /\ UNCHANGED publishing
    BY DEF InsertDraft
  <1>2. drafting' \in [Editors -> Drafting]
    BY <1>1 DEF Inv, TypeOK, Drafting, NoDrafting
  <1>3. drafting[e].phase # "idle" /\ drafting[e] \in Drafting
    BY DEF InsertDraft, Inv, TypeOK
  <1>4. CASE UNCHANGED row
    <2>1. Drafts'
      BY <1>1, <1>4 DEF Inv, TypeOK, Drafts, Present, WasPublished, NoDrafting
    <2> QED
      BY <1>1, <1>2, <1>4, <2>1, DraftingStep
  <1>5. CASE row' = [row EXCEPT ![k] = new] /\ NumberFree(e)
    <2>1. /\ k \in Numbers /\ k \in Nat /\ ~Present(k)
          /\ \A m \in Numbers : m < k => Present(m)
          /\ b # 0 => b \in Numbers /\ WasPublished(b)
          /\ b \in Nat
      BY <1>3, <1>5, BrandingAssumption DEF Inv, Drafts, NumberFree, Present, Drafting, Numbers
    <2>2. new \in Row
      BY <1>3, <2>1 DEF Row, State, Drafting
    <2>3. row \in [Numbers -> Row] /\ row' \in [Numbers -> Row]
      BY <1>5, <2>2 DEF Inv, TypeOK
    <2>4. row'[k] = new /\ \A n \in Numbers : n # k => row'[n] = row[n]
      BY <1>5, <2>1, <2>3
    <2>5. Grows
      BY <2>1, <2>4 DEF Grows, Present, WasPublished
    <2>6. Drafts'
      <3>1. Drafts /\ \A f \in Editors : drafting'[f] \in {drafting[f], NoDrafting}
        BY <1>1 DEF Inv, TypeOK
      <3> QED
        BY <2>5, <3>1 DEF Drafts, Grows, NoDrafting
    <2>7. \A n \in Numbers : n > k => ~Present(n)
      <3> SUFFICES ASSUME NEW n \in Numbers, n > k, Present(n)
                   PROVE  FALSE
        OBVIOUS
      <3>1. n \in Nat /\ k \in 1 .. n
        BY <2>1, BrandingAssumption DEF Numbers
      <3> QED
        BY <2>1, <3>1 DEF Inv, LineageSound, Present
    <2>8. b < k
      <3>1. b # 0 => b \in Numbers /\ Present(b)
        BY <2>1 DEF WasPublished, Present
      <3> QED
        BY <2>1, <2>7, <3>1, BrandingAssumption DEF Numbers
    <2>9. LineageSound'
      <3> SUFFICES ASSUME NEW n \in Numbers, Present(n)'
                   PROVE  /\ \A m \in 1 .. n : Present(m)'
                          /\ row'[n].base < n
                          /\ row'[n].base # 0 =>
                                row'[row'[n].base].state \in {"published", "superseded"}
        BY DEF LineageSound, Present
      <3>1. MaxRevision \in Nat /\ n \in Nat /\ n <= MaxRevision
        BY BrandingAssumption DEF Numbers
      <3>2. \A m \in 1 .. n : m \in Numbers
        BY <3>1 DEF Numbers
      <3>3. CASE n = k
        <4>1. row'[n].base = b
          BY <2>4, <3>3
        <4>2. b # 0 => row'[b].state \in {"published", "superseded"}
          BY <2>1, <2>5 DEF Grows, WasPublished
        <4>3. \A m \in 1 .. n : m < k \/ m = k
          BY <3>1, <3>3
        <4>4. \A m \in 1 .. n : Present(m)'
          BY <2>1, <2>5, <3>2, <3>3, <4>3 DEF Grows
        <4> QED
          BY <2>8, <3>3, <4>1, <4>2, <4>4
      <3>4. CASE n # k
        <4>1. Present(n) /\ row'[n].base = row[n].base
          BY <2>4, <3>4 DEF Present
        <4>2. /\ \A m \in 1 .. n : Present(m)
              /\ row[n].base < n
              /\ row[n].base # 0 => WasPublished(row[n].base)
          BY <4>1 DEF Inv, LineageSound, Present, WasPublished
        <4>3. row[n].base # 0 => row[n].base \in Numbers
          BY <2>3, <3>1, <4>2 DEF Row, Numbers
        <4> QED
          BY <2>5, <3>2, <4>1, <4>2, <4>3 DEF Grows, WasPublished
      <3> QED
        BY <3>3, <3>4
    <2>10. Published' = Published
      BY <2>1, <2>4 DEF Published, In, Present
    <2>11. OnePublished'
      BY <1>1, <2>10 DEF Inv, OnePublished
    <2>12. Publications' /\ TypeOK'
      BY <1>1, <1>2, <2>3 DEF Inv, Publications, TypeOK
    <2> QED
      BY <2>6, <2>9, <2>11, <2>12 DEF Inv
  <1> QED
    BY <1>4, <1>5 DEF InsertDraft

\* A withdrawn draft keeps its number.
LEMMA WithdrawKeeps ==
    ASSUME Inv, NEW n \in Numbers, Withdraw(n)
    PROVE  Inv'
  <1>1. /\ row[n].state = "draft"
        /\ row' = [row EXCEPT ![n] = [@ EXCEPT !.state = "withdrawn"]]
        /\ UNCHANGED drafting /\ UNCHANGED publishing
    BY DEF Withdraw
  <1>2. row \in [Numbers -> Row]
    BY DEF Inv, TypeOK
  <1>3. [row[n] EXCEPT !.state = "withdrawn"] \in Row
    BY <1>2 DEF Row, State
  <1>4. /\ row' \in [Numbers -> Row]
        /\ row'[n].state = "withdrawn" /\ row'[n].base = row[n].base
        /\ \A m \in Numbers : m # n => row'[m] = row[m]
    BY <1>1, <1>2, <1>3 DEF Row
  <1>5. Grows
    BY <1>1, <1>4 DEF Grows, Present, WasPublished
  <1>6. \A m \in Numbers : Present(m)' => Present(m)
    BY <1>1, <1>4 DEF Present
  <1>7. LineageSound'
    BY <1>5, <1>6, HistoryStays DEF Inv
  <1>8. Drafts'
    BY <1>1, <1>5, DraftsStay DEF Inv
  <1>9. Published' = Published
    BY <1>1, <1>4 DEF Published, In
  <1>10. OnePublished'
    BY <1>1, <1>9 DEF Inv, OnePublished
  <1>11. Publications' /\ TypeOK'
    BY <1>1, <1>4 DEF Inv, Publications, TypeOK
  <1> QED
    BY <1>7, <1>8, <1>10, <1>11 DEF Inv

-----------------------------------------------------------------------------

\* The draft a publication is about.
LEMMA LoadDraftKeeps ==
    ASSUME Inv, NEW p \in Publishers, NEW n \in Numbers, LoadDraft(p, n)
    PROVE  Inv'
  <1> DEFINE r == [NoPublishing EXCEPT !.phase = "loaded", !.revision = n]
  <1>1. NoPublishing \in Publishing /\ NoPublishing.held = {} /\ n \in Nat
    BY BrandingAssumption DEF NoPublishing, Publishing, Numbers
  <1>2. r \in Publishing /\ r.revision \in Numbers /\ r.held = {} /\ r.phase = "loaded"
    BY <1>1 DEF Publishing
  <1>3. publishing' = [publishing EXCEPT ![p] = r] /\ UNCHANGED row /\ UNCHANGED drafting
    BY DEF LoadDraft
  <1> HIDE DEF r
  <1> QED
    BY <1>2, <1>3, PublishingStep

\* The lock on the published row, or the wait for it.
LEMMA SupersedeKeeps ==
    ASSUME Inv, NEW p \in Publishers, Supersede(p)
    PROVE  Inv'
  <1>1. /\ publishing[p] \in Publishing /\ publishing \in [Publishers -> Publishing]
        /\ publishing[p].phase = "loaded"
        /\ publishing[p].revision \in Numbers /\ publishing[p].held = {}
        /\ UNCHANGED row /\ UNCHANGED drafting
    BY DEF Supersede, Inv, TypeOK, Publications
  <1>2. CASE publishing' = [publishing EXCEPT ![p].phase = "superseded"]
    <2> DEFINE r == [publishing[p] EXCEPT !.phase = "superseded"]
    <2>1. r \in Publishing /\ r.revision \in Numbers /\ r.held = {} /\ r.phase = "superseded"
      BY <1>1 DEF Publishing
    <2>2. publishing' = [publishing EXCEPT ![p] = r]
      BY <1>1, <1>2
    <2> HIDE DEF r
    <2> QED
      BY <1>1, <2>1, <2>2, PublishingStep
  <1>3. ASSUME NEW n \in Published, ~Locked(n),
               publishing' = [publishing EXCEPT ![p].phase = "superseded", ![p].held = {n}]
        PROVE  Inv'
    <2> DEFINE r == [publishing[p] EXCEPT !.phase = "superseded", !.held = {n}]
    <2>1. n \in Numbers
      BY DEF Published, In
    <2>2. /\ r \in Publishing /\ r.revision \in Numbers
          /\ r.held = {n} /\ r.phase = "superseded"
      BY <1>1, <2>1 DEF Publishing
    <2>3. publishing' = [publishing EXCEPT ![p] = r]
      BY <1>1, <1>3
    <2>4. \A q \in Publishers : r.held \cap publishing[q].held = {}
      BY <1>3, <2>2 DEF Locked
    <2>5. r.held \subseteq Published
      BY <2>2
    <2> HIDE DEF r
    <2> QED
      BY <1>1, <2>2, <2>3, <2>4, <2>5, PublishingStep
  <1>4. ASSUME NEW n \in Published,
               publishing' = [publishing EXCEPT ![p].phase = "waiting", ![p].waits = n]
        PROVE  Inv'
    <2> DEFINE r == [publishing[p] EXCEPT !.phase = "waiting", !.waits = n]
    <2>1. n \in Nat
      BY BrandingAssumption DEF Published, In, Numbers
    <2>2. /\ r \in Publishing /\ r.revision \in Numbers
          /\ r.held = {} /\ r.phase = "waiting"
      BY <1>1, <2>1 DEF Publishing
    <2>3. publishing' = [publishing EXCEPT ![p] = r]
      BY <1>1, <1>4
    <2> HIDE DEF r
    <2> QED
      BY <1>1, <2>2, <2>3, PublishingStep
  <1> QED
    BY <1>2, <1>3, <1>4 DEF Supersede

\* The row that was waited for is locked if it is still published.
LEMMA AwakeKeeps ==
    ASSUME Inv, NEW p \in Publishers, Awake(p)
    PROVE  Inv'
  <1> DEFINE h == {publishing[p].waits} \cap Published
             r == [publishing[p] EXCEPT !.phase = "superseded", !.waits = 0, !.held = h]
  <1>1. /\ publishing[p] \in Publishing /\ publishing \in [Publishers -> Publishing]
        /\ publishing[p].phase = "waiting" /\ publishing[p].revision \in Numbers
        /\ ~Locked(publishing[p].waits)
        /\ UNCHANGED row /\ UNCHANGED drafting
        /\ publishing' = [publishing EXCEPT ![p] = r]
    BY DEF Awake, Inv, TypeOK, Publications
  <1>2. h \subseteq Published /\ h \subseteq Numbers
    BY DEF Published, In
  <1>3. /\ r \in Publishing /\ r.revision \in Numbers
        /\ r.held = h /\ r.phase = "superseded"
    BY <1>1, <1>2 DEF Publishing
  <1>4. \A q \in Publishers : h \cap publishing[q].held = {}
    BY <1>1 DEF Locked
  <1> HIDE DEF r, h
  <1> QED
    BY <1>1, <1>2, <1>3, <1>4, PublishingStep

\* A transaction that is rolled back.
LEMMA RollbackKeeps ==
    ASSUME Inv, NEW p \in Publishers, UNCHANGED row, UNCHANGED drafting,
           publishing' = [publishing EXCEPT ![p] = NoPublishing]
    PROVE  Inv'
  <1>1. NoPublishing \in Publishing
    BY DEF Publishing, NoPublishing
  <1>2. NoPublishing.phase = "idle" /\ NoPublishing.held = {}
    BY DEF NoPublishing
  <1> QED
    BY <1>1, <1>2, PublishingStep

\* The only published row makes way for the draft.
LEMMA SwapKeeps ==
    ASSUME Inv, NEW p \in Publishers, publishing[p].phase = "superseded",
           row[publishing[p].revision].state = "draft", IndexAllows(p), row' = Swapped(p),
           publishing' = [publishing EXCEPT ![p] = NoPublishing], UNCHANGED drafting
    PROVE  /\ Inv'
           /\ Published' = {publishing[p].revision}
           /\ \A n \in Published : row'[n].state = "superseded"
  <1> DEFINE k == publishing[p].revision
             h == publishing[p].held
  <1>1. /\ k \in Numbers /\ row[k].state = "draft"
        /\ h = Published /\ k \notin h
        /\ h \subseteq Numbers
    BY DEF Inv, Publications, OnePublished, IndexAllows, Published, In
  <1>2. row \in [Numbers -> Row] /\ publishing \in [Publishers -> Publishing]
    BY DEF Inv, TypeOK
  <1>3. row' = [n \in Numbers |->
                  IF n = k THEN [row[n] EXCEPT !.state = "published"]
                  ELSE IF n \in h THEN [row[n] EXCEPT !.state = "superseded"]
                  ELSE row[n]]
    BY DEF Swapped
  <1> HIDE DEF k, h
  <1>4. ASSUME NEW n \in Numbers
        PROVE  /\ row'[n] \in Row /\ row'[n].base = row[n].base
               /\ n = k => row'[n].state = "published"
               /\ n \in h => row'[n].state = "superseded"
               /\ n # k /\ n \notin h => row'[n].state = row[n].state
    <2>1. row[n] \in Row
      BY <1>2
    <2>2. /\ [row[n] EXCEPT !.state = "published"] \in Row
          /\ [row[n] EXCEPT !.state = "superseded"] \in Row
      BY <2>1 DEF Row, State
    <2> QED
      BY <1>1, <1>3, <2>1, <2>2 DEF Row
  <1>5. Published' = {k}
    BY <1>1, <1>4 DEF Published, In
  <1>6. Grows
    BY <1>1, <1>4 DEF Grows, Present, WasPublished
  <1>7. \A n \in Numbers : Present(n)' => Present(n)
    BY <1>1, <1>4 DEF Present, Published, In
  <1>8. LineageSound'
    BY <1>6, <1>7, HistoryStays DEF Inv
  <1>9. Drafts'
    BY <1>6, DraftsStay DEF Inv
  <1>10. /\ publishing'[p] = NoPublishing
         /\ \A q \in Publishers : q # p => publishing'[q] = publishing[q]
    BY <1>2
  <1>11. \A q \in Publishers : publishing'[q].held = {}
    <2>1. \A q \in Publishers : q # p => publishing[q].held = {}
      BY <1>1 DEF Inv, OnePublished, h
    <2> QED
      BY <1>10, <2>1 DEF NoPublishing
  <1>12. OnePublished'
    BY <1>5, <1>11 DEF OnePublished
  <1>13. Publications'
    BY <1>10, <1>11 DEF Inv, Publications, NoPublishing
  <1>14. TypeOK'
    <2>1. row' \in [Numbers -> Row]
      BY <1>3, <1>4
    <2>2. NoPublishing \in Publishing
      BY DEF Publishing, NoPublishing
    <2>3. publishing' \in [Publishers -> Publishing]
      BY <1>2, <2>2
    <2> QED
      BY <2>1, <2>3 DEF Inv, TypeOK
  <1>15. Inv'
    BY <1>8, <1>9, <1>12, <1>13, <1>14 DEF Inv
  <1>16. \A n \in Published : row'[n].state = "superseded"
    BY <1>1, <1>4
  <1> QED
    BY <1>5, <1>15, <1>16 DEF k

-----------------------------------------------------------------------------

\* Nothing is published by itself.
LEMMA InitInv ==
    ASSUME Init
    PROVE  Inv
  <1>1. TypeOK
    BY DEF Init, TypeOK, NoRow, Row, State, NoDrafting, Drafting, NoPublishing, Publishing
  <1>2. LineageSound
    BY DEF Init, LineageSound, NoRow
  <1>3. Drafts /\ Publications
    BY DEF Init, Drafts, Publications, NoDrafting, NoPublishing
  <1>4. OnePublished
    BY DEF Init, OnePublished, Published, In, NoRow, NoPublishing
  <1> QED
    BY <1>1, <1>2, <1>3, <1>4 DEF Inv

\* What a publication's commit does: it swaps the revisions or nothing.
LEMMA CommitKeeps ==
    ASSUME Inv, NEW p \in Publishers, Commit(p)
    PROVE  /\ Inv'
           /\ \A n \in Published :
                 n \notin Published' => row'[n].state = "superseded" /\ Published' # {}
  <1>1. /\ publishing[p].phase = "superseded" /\ UNCHANGED drafting
        /\ publishing' = [publishing EXCEPT ![p] = NoPublishing]
    BY DEF Commit
  <1>2. CASE row[publishing[p].revision].state = "draft" /\ IndexAllows(p)
    BY <1>1, <1>2, SwapKeeps DEF Commit
  <1>3. CASE ~(row[publishing[p].revision].state = "draft" /\ IndexAllows(p))
    <2>1. UNCHANGED row
      BY <1>3 DEF Commit, RolledBack
    <2>2. Published' = Published
      BY <2>1 DEF Published, In
    <2> QED
      BY <1>1, <2>1, <2>2, RollbackKeeps
  <1> QED
    BY <1>2, <1>3

\* The steps of a publication.
LEMMA PublishKeeps ==
    ASSUME Inv, NEW p \in Publishers, Publish(p)
    PROVE  Inv'
  <1>1. CASE \E n \in Numbers : LoadDraft(p, n)
    BY <1>1, LoadDraftKeeps
  <1>2. CASE Supersede(p)
    BY <1>2, SupersedeKeeps
  <1>3. CASE Awake(p)
    BY <1>3, AwakeKeeps
  <1>4. CASE Commit(p)
    BY <1>4, CommitKeeps
  <1>5. CASE AbandonPublish(p)
    BY <1>5, RollbackKeeps DEF AbandonPublish, RolledBack
  <1> QED
    BY <1>1, <1>2, <1>3, <1>4, <1>5 DEF Publish

\* Every step keeps the invariant.
LEMMA NextInv ==
    ASSUME Inv, [Next]_vars
    PROVE  Inv'
  <1>1. ASSUME NEW e \in Editors, Edit(e)
        PROVE  Inv'
    BY <1>1, AllocateKeeps, FindBaseKeeps, InsertDraftKeeps, AbandonDraftKeeps DEF Edit
  <1>2. ASSUME NEW n \in Numbers, Withdraw(n)
        PROVE  Inv'
    BY <1>2, WithdrawKeeps
  <1>3. ASSUME NEW p \in Publishers, Publish(p)
        PROVE  Inv'
    BY <1>3, PublishKeeps
  <1>4. CASE UNCHANGED vars
    <2>1. UNCHANGED row /\ UNCHANGED drafting /\ UNCHANGED publishing
      BY <1>4 DEF vars
    <2> QED
      BY <2>1 DEF Inv, TypeOK, LineageSound, Drafts, Publications, OnePublished, Published, In,
                  Present, WasPublished
  <1> QED
    BY <1>1, <1>2, <1>3, <1>4 DEF Next

\* A published revision only ever makes way for another one, in the step of
\* its commit.
LEMMA NextNeverGone ==
    ASSUME Inv, [Next]_vars, NEW n \in Published, n \notin Published'
    PROVE  row'[n].state = "superseded" /\ Published' # {}
  <1>1. row[n].state = "published" /\ n \in Numbers
    BY DEF Published, In
  <1>2. ~UNCHANGED row
    BY DEF Published, In
  <1>3. ASSUME NEW e \in Editors, Edit(e)
        PROVE  FALSE
    <2>1. InsertDraft(e)
      BY <1>2, <1>3 DEF Edit, Allocate, FindBase, AbandonDraft
    <2>2. row' = [row EXCEPT ![drafting[e].number] =
              [state |-> "draft", document |-> drafting[e].document, base |-> drafting[e].base]]
          /\ drafting[e].number # n
      BY <1>1, <1>2, <2>1 DEF InsertDraft, NumberFree
    <2>3. row'[n] = row[n]
      BY <1>1, <2>2 DEF Inv, TypeOK
    <2> QED
      BY <1>1, <2>3 DEF Published, In
  <1>4. ASSUME NEW m \in Numbers, Withdraw(m)
        PROVE  FALSE
    <2>1. row' = [row EXCEPT ![m].state = "withdrawn"] /\ m # n
      BY <1>1, <1>4 DEF Withdraw
    <2>2. row'[n] = row[n]
      BY <1>1, <2>1 DEF Inv, TypeOK
    <2> QED
      BY <1>1, <2>2 DEF Published, In
  <1>5. ASSUME NEW p \in Publishers, Publish(p)
        PROVE  row'[n].state = "superseded" /\ Published' # {}
    <2>1. Commit(p)
      BY <1>2, <1>5 DEF Publish, LoadDraft, Supersede, Awake, AbandonPublish, RolledBack
    <2> QED
      BY <2>1, CommitKeeps
  <1>6. CASE UNCHANGED vars
    BY <1>2, <1>6 DEF vars
  <1> QED
    BY <1>3, <1>4, <1>5, <1>6 DEF Next

-----------------------------------------------------------------------------
(* Theorems. *)

\* The inductive invariant of the branding revisions.
THEOREM BrandingInvariance == Spec => []Inv
  <1>1. Init => Inv
    BY InitInv
  <1>2. Inv /\ [Next]_vars => Inv'
    BY NextInv
  <1> QED
    BY <1>1, <1>2, PTL DEF Spec

\* Type correctness, for any number of editors, publications and revisions.
THEOREM BrandingTypes == Spec => []TypeOK
  <1>1. Inv => TypeOK
    BY DEF Inv
  <1> QED
    BY <1>1, BrandingInvariance, PTL

\* At most one revision is published, whatever transactions overlap.
THEOREM OneRevisionPublished == Spec => []OnePublished
  <1>1. Inv => OnePublished
    BY DEF Inv
  <1> QED
    BY <1>1, BrandingInvariance, PTL

\* The history has no gaps, a base is older and has been published, and no two
\* revisions are published at once.
THEOREM SoundHistory == Spec => []HistorySound
  <1>1. Inv => HistorySound
    BY DEF Inv, HistorySound
  <1> QED
    BY <1>1, BrandingInvariance, PTL

\* What consumers see is replaced in one step or not at all.
THEOREM NeverGone == Spec => PublishedNeverGone
  <1>1. Inv /\ [Next]_vars
        => [\A n \in Published :
               n \notin Published' => row'[n].state = "superseded" /\ Published' # {}]_vars
    BY NextNeverGone
  <1> QED
    BY <1>1, BrandingInvariance, PTL DEF Spec, PublishedNeverGone
=============================================================================
