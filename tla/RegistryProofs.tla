---------------------------- MODULE RegistryProofs ----------------------------
(***************************************************************************)
(* Proofs about Registry, for any services, contents and operators.        *)
(*                                                                         *)
(* An entry's version stands for the entry and the declarations of         *)
(* operators: whatever changes either makes the version grow, except a     *)
(* start of the server, which changes neither but the declaration in force *)
(* (Moves).  So what an operator saw at a version is what is there while   *)
(* the version is the same, though the two were read apart (Seen).  An     *)
(* approval is never taken back, only superseded, so what was found out    *)
(* about it stays true.                                                    *)
(***************************************************************************)
EXTENDS Registry, TLAPS

\* Declarations belong to entries, which have a version from the start.
Entries ==
    \A s \in Services :
        /\ entry[s] = NoEntry => \A c \in Contents : declaration[<<s, c>>] = "absent"
        /\ entry[s] # NoEntry => entry[s].version >= 1 /\ SomeDeclared(s)

\* What an operator has seen of an entry.
SeenBy(o) ==
    LET r == request[o]
        s == request[o].service
    IN /\ r.phase \in {"viewing", "deciding"} =>
             /\ s \in Services
             /\ 1 <= r.entry.version /\ r.entry.version <= entry[s].version
             /\ r.entry.version = entry[s].version => SameEntry(r.entry, entry[s])
       /\ r.phase = "deciding" /\ r.entry.version = entry[s].version =>
             AsShown(r.declarations, s)

ApprovedBy(o) ==
    request[o].phase = "auditing" =>
        /\ request[o].service \in Services /\ request[o].approved \in Contents
        /\ WasApproved(<<request[o].service, request[o].approved>>)

Seen == \A o \in Operators : SeenBy(o) /\ ApprovedBy(o)

\* The declaration in force is the one approved last.
Latest == \A s \in Services : latest[s] = entry[s].active

Checking ==
    /\ check.phase # "idle" => check.service \in Services
    /\ check.phase = "calling" => check.content \in Contents

Inv == TypeOK /\ ApprovedIsActive /\ Latest /\ Entries /\ Seen /\ Checking /\ EvidenceIsTrue

\* Checks, passes and catalogs that are under way may be dropped.
Dropped ==
    /\ check' \in {check, NoCheck}
    /\ worker' \in {worker, Resting}
    /\ catalog' \in {catalog, NoCatalog}

\* The registry only moves on.
Moves ==
    /\ \A s \in Services :
          /\ entry'[s].version \in Nat
          /\ \/ /\ SameEntry(entry[s], entry'[s])
                /\ \A c \in Contents \ Bootstrapped :
                      declaration'[<<s, c>>] = declaration[<<s, c>>]
             \/ entry[s].version < entry'[s].version
    /\ \A d \in Declared : WasApproved(d) => WasApproved(d)'

-----------------------------------------------------------------------------

\* What an operator saw outlives the steps of others.
LEMMA SeenStays ==
    ASSUME TypeOK, Moves, NEW o \in Operators, SeenBy(o), ApprovedBy(o),
           request'[o] = request[o]
    PROVE  SeenBy(o)' /\ ApprovedBy(o)'
  <1> DEFINE r == request[o]
             s == request[o].service
  <1>1. request[o] \in Request /\ r.entry.version \in Nat
    BY DEF TypeOK, Request, Entry
  <1>2. ApprovedBy(o)'
    <2> SUFFICES ASSUME request[o].phase = "auditing"
                 PROVE  ApprovedBy(o)'
      BY DEF ApprovedBy
    <2>1. s \in Services /\ r.approved \in Contents /\ WasApproved(<<s, r.approved>>)
      BY DEF ApprovedBy
    <2>2. <<s, r.approved>> \in Declared
      BY <2>1 DEF Declared
    <2>3. declaration'[<<s, r.approved>>] \in {"approved", "superseded"}
      BY <2>1, <2>2 DEF Moves, WasApproved
    <2> QED
      BY <2>1, <2>3 DEF ApprovedBy, WasApproved
  <1>3. CASE r.phase \in {"viewing", "deciding"}
    <2>1. /\ s \in Services
          /\ 1 <= r.entry.version /\ r.entry.version <= entry[s].version
          /\ r.entry.version = entry[s].version => SameEntry(r.entry, entry[s])
          /\ r.phase = "deciding" /\ r.entry.version = entry[s].version =>
                AsShown(r.declarations, s)
      BY <1>3 DEF SeenBy
    <2>2. entry[s].version \in Nat /\ entry'[s].version \in Nat
      BY <2>1 DEF TypeOK, Entry, Moves
    <2> SUFFICES /\ 1 <= r.entry.version /\ r.entry.version <= entry'[s].version
                 /\ r.entry.version = entry'[s].version => SameEntry(r.entry, entry'[s])
                 /\ r.phase = "deciding" /\ r.entry.version = entry'[s].version =>
                       \/ r.declarations = NothingDeclared
                       \/ \A c \in Contents \ Bootstrapped :
                             r.declarations[c] = declaration'[<<s, c>>]
      BY <1>2, <2>1 DEF SeenBy, SameEntry, AsShown
    <2>3. CASE /\ SameEntry(entry[s], entry'[s])
               /\ \A c \in Contents \ Bootstrapped :
                     declaration'[<<s, c>>] = declaration[<<s, c>>]
      BY <2>1, <2>3 DEF SameEntry, AsShown
    <2>4. CASE entry[s].version < entry'[s].version
      <3>1. r.entry.version < entry'[s].version
        BY <1>1, <2>1, <2>2, <2>4
      <3> QED
        BY <1>1, <2>1, <2>2, <3>1
    <2> QED
      BY <2>1, <2>3, <2>4 DEF Moves
  <1>4. CASE r.phase \notin {"viewing", "deciding"}
    BY <1>2, <1>4 DEF SeenBy
  <1> QED
    BY <1>3, <1>4

\* Evidence stays true while nothing is added to it.
LEMMA EvidenceStays ==
    ASSUME TypeOK, Moves, Checking, EvidenceIsTrue, audited' = audited, checked' = checked,
           Dropped
    PROVE  EvidenceIsTrue'
  <1>1. audited \cup checked \cup worker.targets \cup catalog.items \subseteq Declared
    BY DEF TypeOK, Worker, Catalog
  <1>2. \A d \in audited \cup checked \cup worker.targets \cup catalog.items : WasApproved(d)'
    BY <1>1 DEF EvidenceIsTrue, Moves
  <1>3. worker'.targets \subseteq worker.targets /\ catalog'.items \subseteq catalog.items
    BY DEF Dropped, Resting, NoCatalog
  <1>4. check.phase = "calling" => <<check.service, check.content>> \in Declared
    BY DEF Checking, Declared
  <1>5. check'.phase = "calling" =>
            /\ declaration'[<<check.service, check.content>>] \in {"approved", "superseded"}
            /\ check' = check
    BY <1>4 DEF EvidenceIsTrue, Moves, WasApproved, Dropped, NoCheck
  <1> QED
    BY <1>2, <1>3, <1>5 DEF EvidenceIsTrue, WasApproved

\* A step that leaves the registry and the requests alone.
LEMMA Aside ==
    ASSUME Inv, UNCHANGED entry, UNCHANGED declaration, UNCHANGED latest, UNCHANGED request,
           TypeOK', Checking', EvidenceIsTrue'
    PROVE  Inv'
  <1>1. ApprovedIsActive' /\ Latest' /\ Entries'
    BY DEF Inv, ApprovedIsActive, ActiveDeclaration, Active, Latest, Entries, SomeDeclared
  <1>2. Seen'
    BY DEF Inv, Seen, SeenBy, ApprovedBy, WasApproved, SameEntry, AsShown
  <1> QED
    BY <1>1, <1>2 DEF Inv

\* A step on an entry or its declarations.
LEMMA OnRegistry ==
    ASSUME Inv, Moves, TypeOK', ApprovedIsActive', Latest', Entries',
           \A o \in Operators :
              request'[o] = request[o] \/ (SeenBy(o)' /\ ApprovedBy(o)'),
           UNCHANGED audited, UNCHANGED checked, Dropped
    PROVE  Inv'
  <1>1. EvidenceIsTrue'
    BY EvidenceStays DEF Inv
  <1>2. Seen'
    BY SeenStays DEF Inv, Seen
  <1>3. Checking'
    BY DEF Inv, Checking, Dropped, NoCheck
  <1> QED
    BY <1>1, <1>2, <1>3 DEF Inv

\* A step that writes nothing moves the registry on.
LEMMA SameMoves ==
    ASSUME TypeOK, UNCHANGED entry, UNCHANGED declaration
    PROVE  Moves
  BY DEF TypeOK, Moves, Entry, WasApproved, SameEntry

-----------------------------------------------------------------------------

\* An operator who is done has seen nothing.
LEMMA Forgets ==
    ASSUME NEW o \in Operators, request'[o] = NoRequest
    PROVE  SeenBy(o)' /\ ApprovedBy(o)'
  BY DEF SeenBy, ApprovedBy, NoRequest

\* No request is one.
LEMMA NoRequestType == NoRequest \in Request /\ NoEntry \in Entry
  BY DEF NoRequest, Request, NoEntry, Entry, Status, NothingDeclared, Approval

\* A step of one operator that writes nothing.
LEMMA RequestStep ==
    ASSUME Inv, NEW o \in Operators, NEW r \in Request,
           request' = [request EXCEPT ![o] = r], SeenBy(o)' /\ ApprovedBy(o)',
           UNCHANGED entry, UNCHANGED declaration, UNCHANGED latest, UNCHANGED health, UNCHANGED up,
           UNCHANGED audited, UNCHANGED checked, UNCHANGED worker, UNCHANGED catalog,
           UNCHANGED check
    PROVE  Inv'
  <1>1. Moves
    BY SameMoves DEF Inv
  <1>2. TypeOK'
    BY DEF Inv, TypeOK
  <1>3. ApprovedIsActive' /\ Latest' /\ Entries' /\ Dropped
    BY DEF Inv, ApprovedIsActive, ActiveDeclaration, Active, Latest, Entries, SomeDeclared, Dropped
  <1>4. \A p \in Operators : request'[p] = request[p] \/ (SeenBy(p)' /\ ApprovedBy(p)')
    BY DEF Inv, TypeOK
  <1> QED
    BY <1>1, <1>2, <1>3, <1>4, OnRegistry

\* A step that writes one entry, its declarations with it.
LEMMA EntryStep ==
    ASSUME Inv, NEW s \in Services, NEW n \in Entry,
           entry' = [entry EXCEPT ![s] = n], n # NoEntry,
           \/ entry[s].version < n.version
           \/ /\ SameEntry(entry[s], n)
              /\ \A c \in Contents \ Bootstrapped :
                    declaration'[<<s, c>>] = declaration[<<s, c>>],
           declaration' \in [Declared -> Approval],
           \A d \in Declared : d[1] # s => declaration'[d] = declaration[d],
           \A d \in Declared : WasApproved(d) => WasApproved(d)',
           latest' = [latest EXCEPT ![s] = n.active],
           n.active # None => declaration'[<<s, n.active>>] = "approved",
           \A c \in Contents : declaration'[<<s, c>>] = "approved" /\ n.active # c
                               => c \in Owned /\ n.active \in Bootstrapped,
           SomeDeclared(s)',
           n.status = "active" => n.active # None, n.version >= 1,
           request' \in [Operators -> Request],
           \A o \in Operators : request'[o] = request[o] \/ (SeenBy(o)' /\ ApprovedBy(o)'),
           UNCHANGED health, UNCHANGED up, UNCHANGED audited, UNCHANGED checked, Dropped
    PROVE  Inv'
  <1>1. entry \in [Services -> Entry] /\ latest \in [Services -> Contents \cup {None}]
    BY DEF Inv, TypeOK
  <1>2. /\ entry'[s] = n /\ \A t \in Services : t # s => entry'[t] = entry[t]
        /\ entry' \in [Services -> Entry]
    BY <1>1
  <1>3. /\ latest'[s] = n.active /\ \A t \in Services : t # s => latest'[t] = latest[t]
        /\ latest' \in [Services -> Contents \cup {None}]
    BY <1>1 DEF Entry
  <1>4. \A t \in Services, c \in Contents :
            t # s => declaration'[<<t, c>>] = declaration[<<t, c>>]
    <2> SUFFICES ASSUME NEW t \in Services, NEW c \in Contents, t # s
                 PROVE  declaration'[<<t, c>>] = declaration[<<t, c>>]
      OBVIOUS
    <2>1. <<t, c>> \in Declared /\ <<t, c>>[1] = t
      BY DEF Declared
    <2> QED
      BY <2>1
  <1>5. \A t \in Services : entry'[t].version \in Nat
    BY <1>2 DEF Entry
  <1>6. Moves
    BY <1>2, <1>4, <1>5 DEF Moves, SameEntry
  <1>7. TypeOK'
    <2>1. check' \in Check /\ worker' \in Worker /\ catalog' \in Catalog
      BY DEF Inv, TypeOK, Dropped, NoCheck, Check, Resting, Worker, Health, NoCatalog, Catalog
    <2> QED
      BY <1>2, <1>3, <2>1 DEF Inv, TypeOK
  <1>8. ApprovedIsActive'
    <2>1. \A t \in Services, c \in Contents :
              declaration'[<<t, c>>] = "approved" /\ latest'[t] = c <=> entry'[t].active = c
      <3>1. \A c \in Contents : n.active = c => declaration'[<<s, c>>] = "approved"
        BY RegistryAssumption
      <3>2. \A c \in Contents :
                declaration'[<<s, c>>] = "approved" /\ latest'[s] = c <=> entry'[s].active = c
        BY <1>2, <1>3, <3>1
      <3>3. \A t \in Services, c \in Contents :
                declaration[<<t, c>>] = "approved" /\ latest[t] = c <=> entry[t].active = c
        BY DEF Inv, ApprovedIsActive, ActiveDeclaration
      <3>4. ASSUME NEW t \in Services, NEW c \in Contents, t # s
            PROVE  declaration'[<<t, c>>] = "approved" /\ latest'[t] = c <=> entry'[t].active = c
        BY <1>2, <1>3, <1>4, <3>3, <3>4
      <3> QED
        BY <3>2, <3>4, ZenonT(30)
    <2>2. \A t \in Services : \A c \in Contents :
              declaration'[<<t, c>>] = "approved" /\ entry'[t].active # c
              => c \in Owned /\ entry'[t].active \in Bootstrapped
      BY <1>2, <1>4 DEF Inv, ApprovedIsActive
    <2>3. \A t \in Services : entry'[t].status = "active" => entry'[t].active # None
      BY <1>2 DEF Inv, ApprovedIsActive, Active
    <2> QED
      BY <2>1, <2>2, <2>3 DEF ApprovedIsActive, ActiveDeclaration, Active
  <1>9. Latest'
    BY <1>2, <1>3 DEF Inv, Latest
  <1>10. Entries'
    <2>1. ASSUME NEW t \in Services, t # s, SomeDeclared(t)
          PROVE  SomeDeclared(t)'
      BY <1>4, <2>1 DEF SomeDeclared
    <2> QED
      BY <1>2, <1>4, <2>1 DEF Inv, Entries
  <1> QED
    BY <1>6, <1>7, <1>8, <1>9, <1>10, OnRegistry

-----------------------------------------------------------------------------

\* A new entry has nothing declared before.
LEMMA CreateKeeps ==
    ASSUME Inv, NEW s \in Services, NEW c \in Contents, CreateService(s, c)
    PROVE  Inv'
  <1> DEFINE n == [status |-> "pending", active |-> None, version |-> 1]
  <1>1. /\ entry[s] = NoEntry /\ entry' = [entry EXCEPT ![s] = n]
        /\ declaration' = [declaration EXCEPT ![<<s, c>>] = "pending"]
        /\ UNCHANGED latest /\ UNCHANGED health /\ UNCHANGED up /\ UNCHANGED request /\ UNCHANGED audited
        /\ UNCHANGED check /\ UNCHANGED checked /\ UNCHANGED worker /\ UNCHANGED catalog
    BY DEF CreateService, InsertEntry, InsertDeclaration
  <1>2. n \in Entry /\ n.status # "active" /\ n.active = None /\ n.version >= 1 /\ n # NoEntry
    BY DEF Entry, Status, NoEntry
  <1>3. entry[s].version < n.version
    BY <1>1 DEF NoEntry
  <1>4. declaration \in [Declared -> Approval] /\ <<s, c>> \in Declared
    BY DEF Inv, TypeOK, Declared
  <1>5. declaration' \in [Declared -> Approval]
    BY <1>1, <1>4 DEF Approval
  <1>6. /\ declaration'[<<s, c>>] = "pending"
        /\ \A d \in Declared : d # <<s, c>> => declaration'[d] = declaration[d]
    BY <1>1, <1>4
  <1>7. \A d \in Declared : d[1] # s => declaration'[d] = declaration[d]
    BY <1>6
  <1>8. \A b \in Contents : declaration[<<s, b>>] = "absent"
    BY <1>1 DEF Inv, Entries
  <1>9. \A d \in Declared : WasApproved(d) => WasApproved(d)'
    BY <1>6, <1>8 DEF WasApproved
  <1>10. \A b \in Contents : declaration'[<<s, b>>] # "approved"
    <2> SUFFICES ASSUME NEW b \in Contents
                 PROVE  declaration'[<<s, b>>] # "approved"
      OBVIOUS
    <2>1. <<s, b>> \in Declared
      BY DEF Declared
    <2> QED
      BY <1>6, <1>8, <2>1
  <1>11. request' \in [Operators -> Request] /\ Dropped
    BY <1>1 DEF Inv, TypeOK, Dropped
  <1>12. latest' = [latest EXCEPT ![s] = n.active]
    BY <1>1, <1>2 DEF Inv, TypeOK, Latest, NoEntry
  <1>13. SomeDeclared(s)'
    BY <1>6 DEF SomeDeclared
  <1> HIDE DEF n
  <1> QED
    BY <1>1, <1>2, <1>3, <1>5, <1>7, <1>9, <1>10, <1>11, <1>12, <1>13, EntryStep

\* The entry as an operator sees it.
LEMMA ViewEntryKeeps ==
    ASSUME Inv, NEW o \in Operators, NEW s \in Services, ViewEntry(o, s)
    PROVE  Inv'
  <1> DEFINE r == [NoRequest EXCEPT !.phase = "viewing", !.service = s, !.entry = entry[s]]
  <1>1. /\ entry[s] # NoEntry /\ request' = [request EXCEPT ![o] = r]
        /\ UNCHANGED entry /\ UNCHANGED declaration /\ UNCHANGED latest /\ UNCHANGED health /\ UNCHANGED up
        /\ UNCHANGED audited /\ UNCHANGED check /\ UNCHANGED checked
        /\ UNCHANGED worker /\ UNCHANGED catalog
    BY DEF ViewEntry, registry
  <1>2. entry[s] \in Entry /\ entry[s].version \in Nat /\ entry[s].version >= 1
    BY <1>1 DEF Inv, TypeOK, Entries, Entry
  <1>3. /\ r \in Request /\ r.phase = "viewing" /\ r.service = s /\ r.entry = entry[s]
    BY <1>2, NoRequestType DEF Request
  <1>4. request'[o] = r
    BY <1>1 DEF Inv, TypeOK
  <1> HIDE DEF r
  <1>5. SeenBy(o)' /\ ApprovedBy(o)'
    BY <1>1, <1>2, <1>3, <1>4 DEF SeenBy, ApprovedBy, SameEntry
  <1> QED
    BY <1>1, <1>3, <1>5, RequestStep

\* Its declarations, which are those of the version seen if that is current and
\* the list was read.
LEMMA ViewDeclarationsKeeps ==
    ASSUME Inv, NEW o \in Operators, ViewDeclarations(o)
    PROVE  Inv'
  <1> DEFINE s == request[o].service
  <1>0. PICK shown \in {DeclarationsOf(s), NothingDeclared} :
            request' = [request EXCEPT ![o].phase = "deciding", ![o].declarations = shown]
    BY DEF ViewDeclarations
  <1> DEFINE r == [request[o] EXCEPT !.phase = "deciding", !.declarations = shown]
  <1>1. /\ request[o].phase = "viewing"
        /\ UNCHANGED entry /\ UNCHANGED declaration /\ UNCHANGED latest /\ UNCHANGED health /\ UNCHANGED up
        /\ UNCHANGED audited /\ UNCHANGED check /\ UNCHANGED checked
        /\ UNCHANGED worker /\ UNCHANGED catalog
    BY DEF ViewDeclarations, registry
  <1>2. request \in [Operators -> Request] /\ request[o] \in Request
    BY DEF Inv, TypeOK
  <1>3. /\ s \in Services
        /\ 1 <= request[o].entry.version /\ request[o].entry.version <= entry[s].version
        /\ request[o].entry.version = entry[s].version => SameEntry(request[o].entry, entry[s])
    BY <1>1 DEF Inv, Seen, SeenBy
  <1>4. shown \in [Contents -> Approval]
    <2>1. \A c \in Contents : declaration[<<s, c>>] \in Approval
      BY <1>3 DEF Inv, TypeOK, Declared
    <2> QED
      BY <1>0, <2>1 DEF DeclarationsOf, NothingDeclared, Approval
  <1>5. /\ r \in Request /\ r.phase = "deciding" /\ r.service = s
        /\ r.entry = request[o].entry /\ r.declarations = shown
    BY <1>2, <1>4 DEF Request
  <1>6. request' = [request EXCEPT ![o] = r]
    BY <1>0, <1>2
  <1>7. request'[o] = r
    BY <1>2, <1>6
  <1>8. SeenBy(o)'
    <2>1. shown = NothingDeclared \/ \A c \in Contents : shown[c] = declaration[<<s, c>>]
      BY <1>0 DEF DeclarationsOf
    <2> HIDE DEF r, s
    <2> QED
      BY <1>1, <1>3, <1>5, <1>7, <2>1 DEF SeenBy, SameEntry, AsShown
  <1>9. ApprovedBy(o)'
    BY <1>5, <1>7 DEF ApprovedBy
  <1> HIDE DEF r
  <1> QED
    BY <1>1, <1>5, <1>6, <1>8, <1>9, RequestStep

-----------------------------------------------------------------------------

\* While the version is the same, everything is as it was seen.
LEMMA AsSeen ==
    ASSUME Inv, NEW o \in Operators, UpToDate(o)
    PROVE  LET s == request[o].service
           IN /\ s \in Services /\ entry[s] \in Entry /\ entry[s].version \in Nat
              /\ SameEntry(request[o].entry, entry[s])
              /\ AsShown(request[o].declarations, s) /\ SomeDeclared(s)
  <1>1. request[o].phase = "deciding"
        /\ request[o].entry.version = entry[request[o].service].version
    BY DEF UpToDate
  <1>2. SeenBy(o)
    BY DEF Inv, Seen
  <1>3. request[o].service \in Services
    BY <1>1, <1>2 DEF SeenBy
  <1>4. entry[request[o].service] \in Entry
    BY <1>3 DEF Inv, TypeOK
  <1>5. SomeDeclared(request[o].service)
    <2>1. entry[request[o].service] # NoEntry
      BY <1>1, <1>2 DEF SeenBy, NoEntry
    <2> QED
      BY <1>3, <2>1 DEF Inv, Entries
  <1> QED
    BY <1>1, <1>2, <1>3, <1>4, <1>5 DEF SeenBy, Entry

\* The names, or a status that is not active: the declarations are left alone.
LEMMA NewVersionKeeps ==
    ASSUME Inv, NEW o \in Operators, UpToDate(o), NEW s \in Services,
           s = request[o].service, NEW status \in Status \cup {"absent"},
           status = "active" => entry[s].status = "active",
           entry' = [entry EXCEPT ![s] =
               [status |-> status, active |-> entry[s].active, version |-> entry[s].version + 1]],
           request' = [request EXCEPT ![o] = NoRequest],
           UNCHANGED declaration, UNCHANGED latest, UNCHANGED health, UNCHANGED up, UNCHANGED audited,
           UNCHANGED check, UNCHANGED checked, UNCHANGED worker, UNCHANGED catalog
    PROVE  Inv'
  <1> DEFINE n == [status |-> status, active |-> entry[s].active,
                   version |-> entry[s].version + 1]
  <1>1. entry[s] \in Entry /\ entry[s].version \in Nat
    BY DEF Inv, TypeOK, Entry
  <1>2. n \in Entry /\ n.version = entry[s].version + 1 /\ n.active = entry[s].active
        /\ n.status = status
    BY <1>1 DEF Entry
  <1>3. entry[s].version < n.version /\ n.version >= 1 /\ n # NoEntry
    BY <1>1, <1>2 DEF NoEntry
  <1>4. /\ latest' = [latest EXCEPT ![s] = n.active]
        /\ n.active # None => declaration'[<<s, n.active>>] = "approved"
        /\ \A c \in Contents : declaration'[<<s, c>>] = "approved" /\ n.active # c
                               => c \in Owned /\ n.active \in Bootstrapped
    BY <1>1, <1>2 DEF Inv, TypeOK, Latest, ApprovedIsActive, ActiveDeclaration, Entry
  <1>5. n.status = "active" => n.active # None
    BY <1>2 DEF Inv, ApprovedIsActive, Active
  <1>6. request' \in [Operators -> Request]
    BY NoRequestType DEF Inv, TypeOK
  <1>7. request'[o] = NoRequest /\ \A p \in Operators : p # o => request'[p] = request[p]
    BY DEF Inv, TypeOK
  <1>8. \A p \in Operators : request'[p] = request[p] \/ (SeenBy(p)' /\ ApprovedBy(p)')
    BY <1>7, Forgets
  <1>9. declaration' \in [Declared -> Approval]
    BY DEF Inv, TypeOK
  <1>10. \A d \in Declared : WasApproved(d) => WasApproved(d)'
    BY DEF WasApproved
  <1>11. entry' = [entry EXCEPT ![s] = n]
    OBVIOUS
  <1>12. \A d \in Declared : d[1] # s => declaration'[d] = declaration[d]
    OBVIOUS
  <1>13. Dropped
    BY DEF Dropped
  <1>14. SomeDeclared(s)'
    BY AsSeen DEF SomeDeclared
  <1> HIDE DEF n
  <1> QED
    BY <1>2, <1>3, <1>4, <1>5, <1>6, <1>8, <1>9, <1>10, <1>11, <1>12, <1>13, <1>14, EntryStep

\* A new declaration waits for its approval; the one approved stays so.
LEMMA PatchDeclarationKeeps ==
    ASSUME Inv, NEW o \in Operators, NEW s \in Services, NEW c \in Contents,
           PatchDeclaration(o, s, c)
    PROVE  Inv'
  <1>1. /\ UpToDate(o) /\ s = request[o].service
        /\ request' = [request EXCEPT ![o] = NoRequest]
        /\ UNCHANGED latest /\ UNCHANGED health /\ UNCHANGED up /\ UNCHANGED audited
        /\ UNCHANGED check /\ UNCHANGED checked /\ UNCHANGED worker /\ UNCHANGED catalog
    BY DEF PatchDeclaration, InsertDeclaration
  <1>2. entry[s] \in Entry /\ entry[s].version \in Nat /\ entry \in [Services -> Entry]
    BY DEF Inv, TypeOK, Entry
  <1>3. CASE declaration[<<s, c>>] # "absent"
    <2>1. /\ entry' = [entry EXCEPT ![s].version = @ + 1] /\ UNCHANGED declaration
      BY <1>3 DEF PatchDeclaration, InsertDeclaration
    <2>2. [entry[s] EXCEPT !.version = @ + 1]
            = [status |-> entry[s].status, active |-> entry[s].active,
               version |-> entry[s].version + 1]
      BY <1>2 DEF Entry
    <2>3. entry' = [entry EXCEPT ![s] =
              [status |-> entry[s].status, active |-> entry[s].active,
               version |-> entry[s].version + 1]]
      BY <2>1, <2>2
    <2>4. entry[s].status \in Status \cup {"absent"}
      BY <1>2 DEF Entry
    <2> QED
      BY <1>1, <2>1, <2>3, <2>4, NewVersionKeeps
  <1>4. CASE declaration[<<s, c>>] = "absent"
    <2> DEFINE n == [status |-> "pending", active |-> entry[s].active,
                     version |-> entry[s].version + 1]
    <2>1. /\ declaration' = [declaration EXCEPT ![<<s, c>>] = "pending"]
          /\ entry' = [entry EXCEPT ![s] = n]
      BY <1>2, <1>4 DEF PatchDeclaration, InsertDeclaration
    <2>2. /\ n \in Entry /\ n.status = "pending" /\ n.active = entry[s].active
          /\ n.version = entry[s].version + 1
      BY <1>2 DEF Entry, Status
    <2>3. entry[s].version < n.version /\ n.version >= 1 /\ n # NoEntry
      BY <1>2, <2>2 DEF NoEntry
    <2>4. declaration \in [Declared -> Approval] /\ <<s, c>> \in Declared
      BY DEF Inv, TypeOK, Declared
    <2>5. /\ declaration' \in [Declared -> Approval] /\ declaration'[<<s, c>>] = "pending"
          /\ \A d \in Declared : d # <<s, c>> => declaration'[d] = declaration[d]
      BY <2>1, <2>4 DEF Approval
    <2>6. \A d \in Declared : d[1] # s => declaration'[d] = declaration[d]
      BY <2>5
    <2>7. \A d \in Declared : WasApproved(d) => WasApproved(d)'
      BY <1>4, <2>5 DEF WasApproved
    <2>8. \A b \in Contents :
              declaration'[<<s, b>>] = "approved" <=> declaration[<<s, b>>] = "approved"
      <3> SUFFICES ASSUME NEW b \in Contents
                   PROVE  declaration'[<<s, b>>] = "approved" <=> declaration[<<s, b>>] = "approved"
        OBVIOUS
      <3>1. <<s, b>> \in Declared
        BY DEF Declared
      <3> QED
        BY <1>4, <2>5, <3>1
    <2>12. /\ latest' = [latest EXCEPT ![s] = n.active]
           /\ n.active # None => declaration'[<<s, n.active>>] = "approved"
           /\ \A b \in Contents : declaration'[<<s, b>>] = "approved" /\ n.active # b
                                  => b \in Owned /\ n.active \in Bootstrapped
      BY <1>1, <1>2, <2>2, <2>8
        DEF Inv, TypeOK, Latest, ApprovedIsActive, ActiveDeclaration, Entry
    <2>13. Dropped
      BY <1>1 DEF Dropped
    <2>14. SomeDeclared(s)'
      BY <2>5 DEF SomeDeclared
    <2>9. request' \in [Operators -> Request]
      BY <1>1, NoRequestType DEF Inv, TypeOK
    <2>10. request'[o] = NoRequest /\ \A p \in Operators : p # o => request'[p] = request[p]
      BY <1>1 DEF Inv, TypeOK
    <2>11. \A p \in Operators : request'[p] = request[p] \/ (SeenBy(p)' /\ ApprovedBy(p)')
      BY <2>10, Forgets
    <2> HIDE DEF n
    <2> QED
      BY <1>1, <2>1, <2>2, <2>3, <2>5, <2>6, <2>7, <2>9, <2>11, <2>12, <2>13, <2>14, EntryStep
  <1> QED
    BY <1>3, <1>4

\* One declaration is approved and takes the place of the one before it.
LEMMA ApproveKeeps ==
    ASSUME Inv, NEW o \in Operators, NEW s \in Services, NEW c \in Contents,
           ApproveDeclaration(o, s, c)
    PROVE  Inv'
  <1> DEFINE n == [status |-> "active", active |-> c, version |-> entry[s].version + 1]
             r == [NoRequest EXCEPT !.phase = "auditing", !.service = s, !.approved = c]
  <1>1. /\ UpToDate(o) /\ declaration' = Approved(s, c)
        /\ latest' = [latest EXCEPT ![s] = c]
        /\ entry' = [entry EXCEPT ![s] = n] /\ request' = [request EXCEPT ![o] = r]
        /\ UNCHANGED health /\ UNCHANGED up /\ UNCHANGED audited /\ UNCHANGED check
        /\ UNCHANGED checked /\ UNCHANGED worker /\ UNCHANGED catalog
    BY DEF ApproveDeclaration
  <1>2. entry[s].version \in Nat
    BY DEF Inv, TypeOK, Entry
  <1>3. /\ n \in Entry /\ n.status = "active" /\ n.active = c
        /\ n.version = entry[s].version + 1
    BY <1>2 DEF Entry, Status
  <1>4. entry[s].version < n.version /\ n.version >= 1 /\ n # NoEntry
    BY <1>2, <1>3 DEF NoEntry
  <1>5. declaration \in [Declared -> Approval]
    BY DEF Inv, TypeOK
  <1>6. ASSUME NEW d \in Declared
        PROVE  /\ declaration'[d] \in Approval
               /\ d = <<s, c>> => declaration'[d] = "approved"
               /\ d # <<s, c>> /\ d[1] = s => declaration'[d] # "approved"
               /\ d[1] # s => declaration'[d] = declaration[d]
               /\ declaration[d] = "superseded" => declaration'[d] \in {"approved", "superseded"}
               /\ declaration[d] = "approved" => declaration'[d] \in {"approved", "superseded"}
    BY <1>1, <1>5 DEF Approved, Approval
  <1>7. declaration' \in [Declared -> Approval]
    BY <1>1, <1>6 DEF Approved
  <1>8. \A d \in Declared : WasApproved(d) => WasApproved(d)'
    BY <1>6 DEF WasApproved
  <1>9. \A b \in Contents : declaration'[<<s, b>>] = "approved" <=> n.active = b
    <2> SUFFICES ASSUME NEW b \in Contents
                 PROVE  declaration'[<<s, b>>] = "approved" <=> c = b
      BY <1>3
    <2>1. <<s, b>> \in Declared /\ <<s, b>>[1] = s /\ (<<s, b>> = <<s, c>> <=> b = c)
      BY DEF Declared
    <2> QED
      BY <1>6, <2>1
  <1>10. n.active # None /\ Dropped
    BY <1>1, <1>3, RegistryAssumption DEF Dropped
  <1>11. /\ r \in Request /\ r.phase = "auditing" /\ r.service = s /\ r.approved = c
    BY NoRequestType DEF Request
  <1>12. request' \in [Operators -> Request] /\ request'[o] = r
         /\ \A p \in Operators : p # o => request'[p] = request[p]
    BY <1>1, <1>11 DEF Inv, TypeOK
  <1>13. SeenBy(o)' /\ ApprovedBy(o)'
    <2>1. <<s, c>> \in Declared
      BY DEF Declared
    <2>2. declaration'[<<s, c>>] = "approved"
      BY <1>6, <2>1
    <2> HIDE DEF r
    <2> QED
      BY <1>11, <1>12, <2>2 DEF SeenBy, ApprovedBy, WasApproved
  <1>14. \A p \in Operators : request'[p] = request[p] \/ (SeenBy(p)' /\ ApprovedBy(p)')
    BY <1>12, <1>13
  <1>15. \A d \in Declared : d[1] # s => declaration'[d] = declaration[d]
    BY <1>6
  <1>16. /\ latest' = [latest EXCEPT ![s] = n.active]
         /\ declaration'[<<s, n.active>>] = "approved"
    BY <1>1, <1>3, <1>9
  <1>17. \A b \in Contents : declaration'[<<s, b>>] = "approved" /\ n.active # b
                             => b \in Owned /\ n.active \in Bootstrapped
    BY <1>9
  <1>18. UNCHANGED health /\ UNCHANGED up /\ UNCHANGED audited /\ UNCHANGED checked
    BY <1>1
  <1>19. SomeDeclared(s)'
    BY <1>3, <1>16 DEF SomeDeclared
  <1> HIDE DEF n, r
  <1> QED
    BY <1>1, <1>3, <1>4, <1>7, <1>8, <1>10, <1>12, <1>14, <1>15, <1>16, <1>17, <1>18, <1>19, EntryStep,
       ZenonT(30)

\* The names, or an entry that is taken out of use.
LEMMA PatchNamesKeeps ==
    ASSUME Inv, NEW o \in Operators, NEW s \in Services, PatchNames(o, s)
    PROVE  Inv'
  <1>1. /\ UpToDate(o) /\ s = request[o].service
        /\ request' = [request EXCEPT ![o] = NoRequest]
        /\ entry' = [entry EXCEPT ![s].version = @ + 1]
        /\ UNCHANGED declaration /\ UNCHANGED latest /\ UNCHANGED health /\ UNCHANGED up /\ UNCHANGED audited
        /\ UNCHANGED check /\ UNCHANGED checked /\ UNCHANGED worker /\ UNCHANGED catalog
    BY DEF PatchNames
  <1>2. entry[s] \in Entry
    BY DEF Inv, TypeOK
  <1>3. /\ [entry[s] EXCEPT !.version = @ + 1]
             = [status |-> entry[s].status, active |-> entry[s].active,
                version |-> entry[s].version + 1]
        /\ entry[s].status \in Status \cup {"absent"}
    BY <1>2 DEF Entry
  <1>4. entry' = [entry EXCEPT ![s] =
            [status |-> entry[s].status, active |-> entry[s].active,
             version |-> entry[s].version + 1]]
    BY <1>1, <1>3
  <1> QED
    BY <1>1, <1>3, <1>4, NewVersionKeeps

\* The same for a status.
LEMMA SetStatusKeeps ==
    ASSUME Inv, NEW o \in Operators, NEW s \in Services,
           NEW status \in {"disabled", "retired"}, SetStatus(o, s, status)
    PROVE  Inv'
  <1>1. /\ UpToDate(o) /\ s = request[o].service
        /\ request' = [request EXCEPT ![o] = NoRequest]
        /\ UNCHANGED declaration /\ UNCHANGED latest /\ UNCHANGED health /\ UNCHANGED up /\ UNCHANGED audited
        /\ UNCHANGED check /\ UNCHANGED checked /\ UNCHANGED worker /\ UNCHANGED catalog
    BY DEF SetStatus
  <1>2. entry' = [entry EXCEPT ![s] =
            [status |-> status, active |-> entry[s].active, version |-> entry[s].version + 1]]
    BY DEF SetStatus, Inv, TypeOK
  <1>3. status \in Status \cup {"absent"} /\ status # "active"
    BY DEF Status
  <1> QED
    BY <1>1, <1>2, <1>3, NewVersionKeeps

\* An operator who is done.
LEMMA DoneKeeps ==
    ASSUME Inv, NEW o \in Operators, request' = [request EXCEPT ![o] = NoRequest],
           UNCHANGED entry, UNCHANGED declaration, UNCHANGED latest, UNCHANGED health, UNCHANGED up,
           UNCHANGED audited, UNCHANGED checked, UNCHANGED worker, UNCHANGED catalog,
           UNCHANGED check
    PROVE  Inv'
  <1>1. request'[o] = NoRequest
    BY DEF Inv, TypeOK
  <1> QED
    BY <1>1, NoRequestType, Forgets, RequestStep

\* The event names what was approved.
LEMMA AuditKeeps ==
    ASSUME Inv, NEW o \in Operators, AppendAudit(o)
    PROVE  Inv'
  <1> DEFINE d == <<request[o].service, request[o].approved>>
  <1>1. /\ request[o].phase = "auditing" /\ audited' = audited \cup {d}
        /\ request' = [request EXCEPT ![o] = NoRequest]
        /\ UNCHANGED entry /\ UNCHANGED declaration /\ UNCHANGED latest /\ UNCHANGED health /\ UNCHANGED up
        /\ UNCHANGED check /\ UNCHANGED checked /\ UNCHANGED worker /\ UNCHANGED catalog
    BY DEF AppendAudit, registry
  <1>2. d \in Declared /\ WasApproved(d)
    BY <1>1 DEF Inv, Seen, ApprovedBy, Declared
  <1> HIDE DEF d
  <1>3. /\ request'[o] = NoRequest /\ request' \in [Operators -> Request]
        /\ \A p \in Operators : p # o => request'[p] = request[p]
    BY <1>1, NoRequestType DEF Inv, TypeOK
  <1>4. TypeOK'
    BY <1>1, <1>2, <1>3 DEF Inv, TypeOK
  <1>5. EvidenceIsTrue'
    BY <1>1, <1>2 DEF Inv, EvidenceIsTrue, WasApproved
  <1>6. ApprovedIsActive' /\ Latest' /\ Entries' /\ Checking'
    BY <1>1 DEF Inv, ApprovedIsActive, ActiveDeclaration, Active, Latest, Entries, SomeDeclared, Checking
  <1>7. Moves
    BY <1>1, SameMoves DEF Inv
  <1>8. Seen'
    <2> SUFFICES ASSUME NEW p \in Operators
                 PROVE  SeenBy(p)' /\ ApprovedBy(p)'
      BY DEF Seen
    <2>1. CASE p = o
      BY <1>3, <2>1, Forgets
    <2>2. CASE p # o
      BY <1>3, <1>7, <2>2, SeenStays DEF Inv, Seen
    <2> QED
      BY <2>1, <2>2
  <1> QED
    BY <1>4, <1>5, <1>6, <1>8 DEF Inv

-----------------------------------------------------------------------------

\* The steps of a check.
LEMMA CheckKeeps ==
    ASSUME Inv, CheckStep
    PROVE  Inv'
  <1>1. /\ UNCHANGED entry /\ UNCHANGED declaration /\ UNCHANGED latest /\ UNCHANGED health /\ UNCHANGED up
        /\ UNCHANGED request /\ UNCHANGED audited /\ UNCHANGED worker /\ UNCHANGED catalog
    BY DEF CheckStep, FindActive, FindDeclared, FinishCheck, InsertCheckRun, registry
  <1>2. NoCheck = [phase |-> "idle", service |-> None, content |-> None] /\ NoCheck \in Check
    BY DEF NoCheck, Check
  <1>3. check \in Check /\ checked \subseteq Declared
    BY DEF Inv, TypeOK
  <1>4. ASSUME NEW s \in Services, FindActive(s)
        PROVE  Inv'
    <2>1. check' = [phase |-> "active", service |-> s, content |-> None] /\ UNCHANGED checked
      BY <1>4 DEF FindActive, NoCheck
    <2>2. TypeOK'
      BY <1>1, <2>1 DEF Inv, TypeOK, Check
    <2>3. Checking' /\ EvidenceIsTrue'
      BY <1>1, <2>1 DEF Inv, Checking, EvidenceIsTrue, WasApproved
    <2> QED
      BY <1>1, <2>2, <2>3, Aside
  <1>5. ASSUME NEW c \in HealthReadable, check.phase = "active", ActiveDeclaration(check.service, c),
               check' = [check EXCEPT !.phase = "calling", !.content = c], UNCHANGED checked
        PROVE  Inv'
    <2>1. c \in Contents /\ check.service \in Services
      BY <1>5, RegistryAssumption DEF Inv, Checking
    <2>2. /\ check'.phase = "calling" /\ check'.content = c /\ check'.service = check.service
          /\ check' \in Check
      BY <1>3, <1>5, <2>1 DEF Check
    <2>3. TypeOK'
      BY <1>1, <1>5, <2>2 DEF Inv, TypeOK
    <2>4. Checking'
      BY <2>1, <2>2 DEF Checking
    <2>5. declaration'[<<check.service, c>>] = "approved"
      BY <1>1, <1>5 DEF ActiveDeclaration
    <2>6. EvidenceIsTrue'
      BY <1>1, <1>5, <2>2, <2>5 DEF Inv, EvidenceIsTrue, WasApproved
    <2> QED
      BY <1>1, <2>3, <2>4, <2>6, Aside
  <1>6. ASSUME check' = NoCheck, UNCHANGED checked
        PROVE  Inv'
    <2>1. TypeOK' /\ Checking'
      BY <1>1, <1>2, <1>6 DEF Inv, TypeOK, Checking
    <2>2. EvidenceIsTrue'
      BY <1>1, <1>2, <1>6 DEF Inv, EvidenceIsTrue, WasApproved
    <2> QED
      BY <1>1, <2>1, <2>2, Aside
  <1>7. ASSUME check' = NoCheck, check.phase = "calling",
               checked' = checked \cup {<<check.service, check.content>>}
        PROVE  Inv'
    <2>1. <<check.service, check.content>> \in Declared
      BY <1>7 DEF Inv, Checking, Declared
    <2>2. TypeOK' /\ Checking'
      BY <1>1, <1>2, <1>3, <1>7, <2>1 DEF Inv, TypeOK, Checking
    <2>3. /\ WasApproved(<<check.service, check.content>>)
          /\ <<check.service, check.content>>[2] \in HealthReadable
      BY <1>7 DEF Inv, EvidenceIsTrue
    <2>4. EvidenceIsTrue'
      BY <1>1, <1>2, <1>7, <2>3 DEF Inv, EvidenceIsTrue, WasApproved
    <2> QED
      BY <1>1, <2>2, <2>4, Aside
  <1>8. CASE FindDeclared
    BY <1>5, <1>6, <1>8 DEF FindDeclared
  <1>9. CASE FinishCheck
    BY <1>6, <1>7, <1>9 DEF FinishCheck, InsertCheckRun
  <1> QED
    BY <1>4, <1>8, <1>9 DEF CheckStep

\* The steps of the health worker, which reads what is approved.
LEMMA WorkerKeeps ==
    ASSUME Inv, WorkerStep
    PROVE  Inv'
  <1>1. /\ UNCHANGED entry /\ UNCHANGED declaration /\ UNCHANGED latest /\ UNCHANGED up /\ UNCHANGED request
        /\ UNCHANGED audited /\ UNCHANGED check /\ UNCHANGED checked /\ UNCHANGED catalog
    BY DEF WorkerStep, ListTargets, Probe, SetHealth, LoseHealth, registry
  <1>2. worker \in Worker /\ health \in [Services -> Health]
    BY DEF Inv, TypeOK
  <1>3. ASSUME worker' \in Worker, health' \in [Services -> Health],
               worker'.targets \subseteq worker.targets \cup Targets
        PROVE  Inv'
    <2>1. TypeOK'
      BY <1>1, <1>3 DEF Inv, TypeOK
    <2>2. \A d \in Targets : WasApproved(d) /\ d[2] \in HealthReadable
      BY DEF Targets, WasApproved
    <2>3. EvidenceIsTrue'
      BY <1>1, <1>3, <2>2 DEF Inv, EvidenceIsTrue, WasApproved
    <2>4. Checking'
      BY <1>1 DEF Inv, Checking
    <2> QED
      BY <1>1, <2>1, <2>3, <2>4, Aside
  <1>4. CASE ListTargets
    <2>1. Targets \subseteq Declared
      BY RegistryAssumption DEF Targets, Declared
    <2>2. worker' \in Worker /\ worker'.targets = Targets /\ UNCHANGED health
      BY <1>2, <1>4, <2>1 DEF ListTargets, Worker
    <2> QED
      BY <1>2, <1>3, <2>2
  <1>5. ASSUME NEW s \in Services, NEW c \in HealthReadable, Probe(s, c)
        PROVE  Inv'
    <2>1. /\ worker' = [targets |-> worker.targets \ {<<s, c>>}, service |-> s,
                        answer |-> IF c \in up THEN "healthy" ELSE "unreachable"]
          /\ UNCHANGED health
      BY <1>5 DEF Probe
    <2>2. worker' \in Worker /\ worker'.targets \subseteq worker.targets
      BY <1>2, <2>1 DEF Worker, Health
    <2> QED
      BY <1>2, <1>3, <2>1, <2>2
  <1>6. ASSUME worker' = [worker EXCEPT !.service = None, !.answer = "unknown"],
               health' \in [Services -> Health]
        PROVE  Inv'
    <2>1. worker' \in Worker /\ worker'.targets = worker.targets
      BY <1>2, <1>6 DEF Worker, Health
    <2> QED
      BY <1>3, <1>6, <2>1
  <1>7. ASSUME NEW s \in Services, SetHealth(s)
        PROVE  Inv'
    <2>1. health' \in [Services -> Health]
      BY <1>2, <1>7 DEF SetHealth, Worker
    <2> QED
      BY <1>6, <1>7, <2>1 DEF SetHealth
  <1>8. ASSUME NEW s \in Services, LoseHealth(s)
        PROVE  Inv'
    BY <1>2, <1>6, <1>8 DEF LoseHealth
  <1> QED
    BY <1>4, <1>5, <1>7, <1>8 DEF WorkerStep

\* The steps of the catalog.
LEMMA CatalogKeeps ==
    ASSUME Inv, CatalogStep
    PROVE  Inv'
  <1>1. /\ UNCHANGED entry /\ UNCHANGED declaration /\ UNCHANGED latest /\ UNCHANGED health /\ UNCHANGED up
        /\ UNCHANGED request /\ UNCHANGED audited /\ UNCHANGED check /\ UNCHANGED checked
        /\ UNCHANGED worker
    BY DEF CatalogStep, ListEntries, FindDeclaration, AnswerCatalog, registry
  <1>2. catalog \in Catalog
    BY DEF Inv, TypeOK
  <1>3. catalog' \in Catalog /\ \A d \in catalog'.items : d \in catalog.items \/ WasApproved(d)
    <2>1. CASE ListEntries
      BY <1>2, <2>1 DEF ListEntries, Catalog, NoCatalog
    <2>2. ASSUME NEW d \in Declared, FindDeclaration(d)
          PROVE  catalog' \in Catalog
                 /\ \A e \in catalog'.items : e \in catalog.items \/ WasApproved(e)
      BY <1>2, <2>2 DEF FindDeclaration, Catalog, WasApproved
    <2>3. CASE AnswerCatalog
      BY <1>2, <2>3 DEF AnswerCatalog, Catalog, NoCatalog
    <2> QED
      BY <2>1, <2>2, <2>3 DEF CatalogStep
  <1>4. TypeOK'
    BY <1>1, <1>3 DEF Inv, TypeOK
  <1>5. Checking'
    BY <1>1 DEF Inv, Checking
  <1>6. EvidenceIsTrue'
    BY <1>1, <1>3 DEF Inv, EvidenceIsTrue, WasApproved
  <1> QED
    BY <1>1, <1>4, <1>5, <1>6, Aside

-----------------------------------------------------------------------------

\* The steps of an operator.
LEMMA OperateKeeps ==
    ASSUME Inv, NEW o \in Operators, Operate(o)
    PROVE  Inv'
  <1>1. ASSUME NEW s \in Services, ViewEntry(o, s)
        PROVE  Inv'
    BY <1>1, ViewEntryKeeps
  <1>2. CASE ViewDeclarations(o)
    BY <1>2, ViewDeclarationsKeeps
  <1>3. ASSUME NEW s \in Services, PatchNames(o, s)
        PROVE  Inv'
    BY <1>3, PatchNamesKeeps
  <1>4. ASSUME NEW s \in Services, NEW c \in Contents, PatchDeclaration(o, s, c)
        PROVE  Inv'
    BY <1>4, PatchDeclarationKeeps
  <1>5. ASSUME NEW s \in Services, NEW c \in Contents, ApproveDeclaration(o, s, c)
        PROVE  Inv'
    BY <1>5, ApproveKeeps
  <1>6. ASSUME NEW s \in Services, NEW status \in {"disabled", "retired"},
               SetStatus(o, s, status)
        PROVE  Inv'
    BY <1>6, SetStatusKeeps
  <1>7. CASE Leave(o) \/ LoseAudit(o)
    BY <1>7, DoneKeeps DEF Leave, LoseAudit, registry
  <1>8. CASE AppendAudit(o)
    BY <1>8, AuditKeeps
  <1> QED
    BY <1>1, <1>2, <1>3, <1>4, <1>5, <1>6, <1>7, <1>8 DEF Operate, Decide, DisableService, RetireService

\* A service's answer changes.
LEMMA ToggleKeeps ==
    ASSUME Inv, NEW c \in Unsteady, Toggle(c)
    PROVE  Inv'
  <1>1. /\ UNCHANGED entry /\ UNCHANGED declaration /\ UNCHANGED latest /\ UNCHANGED health /\ UNCHANGED request
        /\ UNCHANGED audited /\ UNCHANGED check /\ UNCHANGED checked /\ UNCHANGED worker
        /\ UNCHANGED catalog
    BY DEF Toggle, registry
  <1>2. TypeOK'
    BY <1>1, RegistryAssumption DEF Toggle, Inv, TypeOK
  <1>3. Checking' /\ EvidenceIsTrue'
    BY <1>1 DEF Inv, Checking, EvidenceIsTrue, WasApproved
  <1> QED
    BY <1>1, <1>2, <1>3, Aside

\* The end of the process forgets what was under way.
LEMMA EndForgets ==
    ASSUME Inv, ProcessEnds
    PROVE  /\ Dropped
           /\ request' \in [Operators -> Request]
           /\ \A o \in Operators : request'[o] = request[o] \/ (SeenBy(o)' /\ ApprovedBy(o)')
  <1>1. /\ request' \in [Operators -> Request]
        /\ \A o \in Operators : request'[o] = request[o] \/ request'[o] = NoRequest
    BY NoRequestType DEF Inv, TypeOK, ProcessEnds
  <1>2. Dropped
    BY DEF ProcessEnds, Dropped
  <1> QED
    BY <1>1, <1>2, Forgets

\* A restart alone.
LEMMA RestartKeeps ==
    ASSUME Inv, Restart
    PROVE  Inv'
  <1>1. /\ UNCHANGED entry /\ UNCHANGED declaration /\ UNCHANGED latest /\ ProcessEnds
        /\ UNCHANGED health /\ UNCHANGED up /\ UNCHANGED audited /\ UNCHANGED checked
    BY DEF Restart, ProcessEnds, registry
  <1>2. Moves
    BY <1>1, SameMoves DEF Inv
  <1>3. TypeOK'
    <2>1. check' \in Check /\ worker' \in Worker /\ catalog' \in Catalog
      BY <1>1 DEF ProcessEnds, NoCheck, Check, Resting, Worker, Health, NoCatalog, Catalog
    <2> QED
      BY <1>1, <2>1, EndForgets DEF Inv, TypeOK
  <1>4. ApprovedIsActive' /\ Latest' /\ Entries'
    BY <1>1 DEF Inv, ApprovedIsActive, ActiveDeclaration, Active, Latest, Entries, SomeDeclared
  <1> QED
    BY <1>1, <1>2, <1>3, <1>4, EndForgets, OnRegistry

\* A start puts its declaration in force and leaves those of operators alone.
LEMMA BootstrapKeeps ==
    ASSUME Inv, NEW s \in Services, NEW c \in Bootstrapped, Bootstrap(s, c)
    PROVE  Inv'
  <1> DEFINE n == [status |-> IF entry[s] = NoEntry THEN "active" ELSE entry[s].status,
                   active |-> c,
                   version |-> IF entry[s] = NoEntry THEN 1 ELSE entry[s].version]
  <1>1. /\ entry[s].active \in {None} \cup Owned /\ declaration[<<s, c>>] = "absent"
        /\ entry' = [entry EXCEPT ![s] = n]
        /\ declaration' = [declaration EXCEPT ![<<s, c>>] = "approved"]
        /\ latest' = [latest EXCEPT ![s] = c] /\ ProcessEnds
        /\ UNCHANGED health /\ UNCHANGED up /\ UNCHANGED audited /\ UNCHANGED checked
    BY DEF Bootstrap, InsertDeclaration, ShouldBootstrap, ProcessEnds, Inv, TypeOK
  <1>2. /\ entry[s] \in Entry /\ entry[s].version \in Nat
        /\ entry[s] # NoEntry => entry[s].version >= 1
        /\ entry[s] = NoEntry => entry[s].version = 0
    BY DEF Inv, TypeOK, Entry, Entries, NoEntry
  <1>3. c \in Contents /\ c # None /\ <<s, c>> \in Declared
    BY RegistryAssumption DEF Declared
  <1>4. /\ n \in Entry /\ n.active = c /\ n.version >= 1 /\ n # NoEntry
        /\ entry[s] # NoEntry => n.status = entry[s].status /\ n.version = entry[s].version
        /\ entry[s] = NoEntry => n.version = 1
    BY <1>2, <1>3 DEF Entry, Status, NoEntry
  <1>5. declaration \in [Declared -> Approval]
    BY DEF Inv, TypeOK
  <1>6. /\ declaration' \in [Declared -> Approval] /\ declaration'[<<s, c>>] = "approved"
        /\ \A d \in Declared : d # <<s, c>> => declaration'[d] = declaration[d]
    BY <1>1, <1>3, <1>5 DEF Approval
  <1>7. \A b \in Contents : b # c => declaration'[<<s, b>>] = declaration[<<s, b>>]
    BY <1>6 DEF Declared
  <1>8. \A d \in Declared : WasApproved(d) => WasApproved(d)'
    BY <1>1, <1>6 DEF WasApproved
  <1>9. \A d \in Declared : d[1] # s => declaration'[d] = declaration[d]
    BY <1>6
  <1>10. \/ entry[s].version < n.version
         \/ /\ SameEntry(entry[s], n)
            /\ \A b \in Contents \ Bootstrapped :
                  declaration'[<<s, b>>] = declaration[<<s, b>>]
    BY <1>2, <1>4, <1>7 DEF SameEntry
  <1>11. \A b \in Contents : declaration'[<<s, b>>] = "approved" /\ n.active # b
                             => b \in Owned /\ n.active \in Bootstrapped
    <2> SUFFICES ASSUME NEW b \in Contents, declaration[<<s, b>>] = "approved", b # c
                 PROVE  b \in Owned
      BY <1>4, <1>7
    <2>1. entry[s].active # b => b \in Owned
      BY DEF Inv, ApprovedIsActive
    <2>2. entry[s].active = b => b \in Owned
      BY <1>1, RegistryAssumption
    <2> QED
      BY <2>1, <2>2
  <1>12. SomeDeclared(s)'
    BY <1>3, <1>6 DEF SomeDeclared
  <1> HIDE DEF n
  <1> QED
    BY <1>1, <1>3, <1>4, <1>6, <1>8, <1>9, <1>10, <1>11, <1>12, EndForgets, EntryStep

\* Nothing is registered by itself.
LEMMA InitInv ==
    ASSUME Init
    PROVE  Inv
  <1>1. TypeOK
    <2>1. NoCheck \in Check /\ Resting \in Worker /\ NoCatalog \in Catalog
      BY DEF NoCheck, Check, Resting, Worker, Health, NoCatalog, Catalog
    <2> QED
      BY <2>1, NoRequestType DEF Init, TypeOK, Approval, Health
  <1>2. ApprovedIsActive
    <2>1. \A s \in Services : \A c \in Contents : <<s, c>> \in Declared /\ c # None
      BY RegistryAssumption DEF Declared
    <2> QED
      BY <2>1 DEF Init, ApprovedIsActive, ActiveDeclaration, Active, NoEntry
  <1>3. Entries /\ Latest
    BY DEF Init, Entries, Latest, NoEntry, Declared
  <1>4. Seen
    BY DEF Init, Seen, SeenBy, ApprovedBy, NoRequest
  <1>5. Checking /\ EvidenceIsTrue
    BY DEF Init, Checking, EvidenceIsTrue, NoCheck, Resting, NoCatalog
  <1> QED
    BY <1>1, <1>2, <1>3, <1>4, <1>5 DEF Inv

\* Every step keeps the invariant.
LEMMA NextInv ==
    ASSUME Inv, [Next]_vars
    PROVE  Inv'
  <1>1. CASE HealthStep
    BY <1>1, CreateKeeps, BootstrapKeeps, OperateKeeps, WorkerKeeps, ToggleKeeps DEF HealthStep
  <1>2. CASE CheckStep
    BY <1>2, CheckKeeps
  <1>3. CASE CatalogStep
    BY <1>3, CatalogKeeps
  <1>4. CASE UNCHANGED vars
    <2>1. /\ UNCHANGED entry /\ UNCHANGED declaration /\ UNCHANGED latest /\ UNCHANGED health /\ UNCHANGED up
          /\ UNCHANGED request /\ UNCHANGED audited /\ UNCHANGED check /\ UNCHANGED checked
          /\ UNCHANGED worker /\ UNCHANGED catalog
      BY <1>4 DEF vars
    <2>2. TypeOK'
      BY <2>1 DEF Inv, TypeOK
    <2>3. Checking' /\ EvidenceIsTrue'
      BY <2>1 DEF Inv, Checking, EvidenceIsTrue, WasApproved
    <2> QED
      BY <2>1, <2>2, <2>3, Aside
  <1>5. CASE Restart
    BY <1>5, RestartKeeps
  <1> QED
    BY <1>1, <1>2, <1>3, <1>4, <1>5 DEF Next

\* A request that changes an entry or its declarations is up to date with it.
LEMMA ChangesAsSeen ==
    ASSUME Inv, [Next]_vars, NEW o \in Operators, NEW s \in Services,
           request[o].phase = "deciding", request[o].service = s,
           request'[o] # request[o], Changes(s)
    PROVE  /\ SameEntry(request[o].entry, entry[s])
           /\ AsShown(request[o].declarations, s) /\ SomeDeclared(s)
  <1>1. ~UNCHANGED request /\ ~(UNCHANGED entry /\ UNCHANGED declaration)
    BY DEF Changes
  <1>5. ~ProcessEnds
    BY DEF ProcessEnds
  <1>2. ASSUME NEW p \in Operators, Operate(p)
        PROVE  UpToDate(o)
    <2>1. \E t \in Services :
              \/ PatchNames(p, t)
              \/ \E c \in Contents : PatchDeclaration(p, t, c) \/ ApproveDeclaration(p, t, c)
              \/ SetStatus(p, t, "disabled") \/ SetStatus(p, t, "retired")
      BY <1>1, <1>2 DEF Operate, Decide, DisableService, RetireService, ViewEntry,
                        ViewDeclarations, Leave, AppendAudit, LoseAudit, registry
    <2>2. UpToDate(p) /\ \E r : request' = [request EXCEPT ![p] = r]
      BY <2>1 DEF PatchNames, PatchDeclaration, InsertDeclaration, ApproveDeclaration, SetStatus
    <2>3. p = o
      BY <2>2 DEF Inv, TypeOK
    <2> QED
      BY <2>2, <2>3
  <1>3. \E p \in Operators : Operate(p)
    <2>1. /\ \A t \in Services, c \in Contents : ~CreateService(t, c)
          /\ ~CheckStep /\ ~CatalogStep /\ ~WorkerStep
          /\ \A c \in Unsteady : ~Toggle(c)
          /\ ~Restart /\ \A t \in Services, c \in Bootstrapped : ~Bootstrap(t, c)
      BY <1>1, <1>5 DEF CreateService, InsertEntry, InsertDeclaration, CheckStep, FindActive,
                        FindDeclared, FinishCheck, InsertCheckRun, CatalogStep,
                  ListEntries, FindDeclaration, AnswerCatalog, WorkerStep, ListTargets, Probe,
                  SetHealth, LoseHealth, Toggle, Restart, Bootstrap
    <2>2. ~UNCHANGED vars
      BY <1>1 DEF vars
    <2> QED
      BY <2>1, <2>2 DEF Next, HealthStep
  <1>4. UpToDate(o)
    BY <1>2, <1>3
  <1> QED
    BY <1>4, AsSeen

-----------------------------------------------------------------------------
(* Theorems. *)

\* The inductive invariant of the registry.
THEOREM RegistryInvariance == Spec => []Inv
  <1>1. Init => Inv
    BY InitInv
  <1>2. Inv /\ [Next]_vars => Inv'
    BY NextInv
  <1> QED
    BY <1>1, <1>2, PTL DEF Spec

\* Type correctness, for any number of services, contents and operators.
THEOREM RegistryTypes == Spec => []TypeOK
  <1>1. Inv => TypeOK
    BY DEF Inv
  <1> QED
    BY <1>1, RegistryInvariance, PTL

\* An active entry names the declaration approved last, and no other is approved
\* beside it but one that a start of the server took the place of.
THEOREM OneApproved == Spec => []ApprovedIsActive
  <1>1. Inv => ApprovedIsActive
    BY DEF Inv
  <1> QED
    BY <1>1, RegistryInvariance, PTL

\* What left the panel names declarations that an operator or a start approved.
THEOREM TrueEvidence == Spec => []EvidenceIsTrue
  <1>1. Inv => EvidenceIsTrue
    BY DEF Inv
  <1> QED
    BY <1>1, RegistryInvariance, PTL

\* No request overwrites what its operator has not seen, unless the operator was
\* shown an empty list, which no entry has.
THEOREM NoneLost == Spec => NoLostUpdate
  <1>1. Inv /\ [Next]_vars
        => [\A o \in Operators, s \in Services :
               request[o].phase = "deciding" /\ request[o].service = s
               /\ request'[o] # request[o] /\ Changes(s)
               => /\ SameEntry(request[o].entry, entry[s])
                  /\ AsShown(request[o].declarations, s) /\ SomeDeclared(s)]_vars
    BY ChangesAsSeen
  <1> QED
    BY <1>1, RegistryInvariance, PTL DEF Spec, NoLostUpdate
=============================================================================
