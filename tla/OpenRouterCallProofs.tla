-------------------------- MODULE OpenRouterCallProofs --------------------------
(***************************************************************************)
(* Proofs about OpenRouterCall, for any streams, prices, leases and        *)
(* conversations.                                                          *)
(*                                                                         *)
(* Of the price and the lease: what a quoted price covers, and that a      *)
(* lease that ended stays at its end, as only a running one is renewed.    *)
(*                                                                         *)
(* Of the stream: the two decoders, fed with chunks, are compared with     *)
(* predicates on the events that came so far.  Remembers and SumsUp say    *)
(* what the decoders hold of a stream; one event more keeps both, and is   *)
(* refused exactly if the longer stream is not Ordered or not Named.  A    *)
(* chunk is a fold of such steps: it has a run, what the decoder is after  *)
(* each event, and the argument is made along it.  So the verdict at the   *)
(* end, ValidTurn of what was decoded, is Complete of the whole stream.    *)
(*                                                                         *)
(* Of the conversation: reading it goes on where it was, so a turn and its *)
(* answers, in any order, leave no call pending.                           *)
(***************************************************************************)
EXTENDS OpenRouterCall, FoldLemmas

-----------------------------------------------------------------------------
(* The price: the ceiling reserved for a call covers its bill. *)

\* Rounding up loses nothing.
LEMMA DivCeilBounds ==
    ASSUME NEW n \in Nat, NEW d \in Nat \ {0}
    PROVE  DivCeil(n, d) \in Nat /\ n <= d * DivCeil(n, d)
  <1>1. (n + d - 1) \in Nat
    OBVIOUS
  <1>2. (n + d - 1) = d * ((n + d - 1) \div d) + ((n + d - 1) % d)
        /\ (n + d - 1) % d \in 0 .. d - 1 /\ (n + d - 1) \div d \in Nat
    BY <1>1
  <1> QED
    BY <1>2 DEF DivCeil

\* Products grow with their factors.
LEMMA TimesMonotone ==
    ASSUME NEW n \in Nat, NEW a \in Nat, NEW b \in Nat, a <= b
    PROVE  n * a <= n * b /\ a * n <= b * n
  <1> DEFINE k == b - a
  <1>1. k \in Nat /\ b = a + k
    OBVIOUS
  <1>2. n * k \in Nat
    BY <1>1
  <1>3. n * (a + k) = n * a + n * k
    BY <1>1
  <1>4. n * a \in Nat /\ a * n = n * a /\ b * n = n * b
    OBVIOUS
  <1>5. n * b = n * a + n * k
    BY <1>1, <1>3
  <1> HIDE DEF k
  <1> QED
    BY <1>2, <1>4, <1>5

\* A bill is rounded to a unit ten times that of the tokens' rates.
LEMMA RoundingsMeet ==
    ASSUME NEW t \in Nat, NEW n \in Nat, t <= 10 * n
    PROVE  Microdollars(t) <= DivCeil(n, 1000)
  BY DEF Microdollars, DivCeil

\* What is quoted for a listing bounds what the listing allows to be billed,
\* whatever the prices and the numbers of tokens: the reservation of a call that
\* stays within its estimate is never overrun (scaled_decimal,
\* ceiling_microdollars, million_token_price).
THEOREM CeilingCovers ==
    ASSUME NEW listing \in Row, NEW i \in Nat, NEW o \in Nat, CanQuote(listing)
    PROVE  Covers(listing, Estimate(listing, i, o))
  <1> DEFINE p == Nanodollars(listing.prompt)
             h == Nanodollars(listing.cache)
             c == Nanodollars(listing.completion)
             n == i * p + o * c
  <1>1. listing.prompt \in Nat /\ listing.completion \in Nat /\ listing.cache \in Nat
    BY DEF Row
  <1>2. p \in Nat /\ listing.prompt <= 10 * p
    BY <1>1, DivCeilBounds DEF Nanodollars
  <1>3. c \in Nat /\ listing.completion <= 10 * c
    BY <1>1, DivCeilBounds DEF Nanodollars
  <1>4. h \in Nat /\ listing.cache <= 10 * h
    BY <1>1, DivCeilBounds DEF Nanodollars
  <1>5. h <= p
    BY DEF CanQuote
  <1>6. listing.cache <= 10 * p
    <2> HIDE DEF p, h
    <2> QED BY <1>1, <1>2, <1>4, <1>5
  <1>7. i * p \in Nat /\ o * c \in Nat /\ n \in Nat
    <2> HIDE DEF p, c
    <2> QED BY <1>2, <1>3
  <1>8. ASSUME NEW f \in 0 .. i, NEW k \in 0 .. i, NEW u \in 0 .. o, f + k <= i
        PROVE  Microdollars(TotalCost(listing, f, k, u)) <= DivCeil(n, 1000)
    <2> DEFINE t == f * listing.prompt + k * listing.cache + u * listing.completion
    <2>1. f \in Nat /\ k \in Nat /\ u \in Nat /\ u <= o
      OBVIOUS
    <2>2. f * listing.prompt <= f * (10 * p)
      <3> HIDE DEF p
      <3> QED BY <1>1, <1>2, <2>1, TimesMonotone
    <2>3. k * listing.cache <= k * (10 * p)
      <3> HIDE DEF p
      <3> QED BY <1>1, <1>2, <1>6, <2>1, TimesMonotone
    <2>4. u * listing.completion <= u * (10 * c)
      <3> HIDE DEF c
      <3> QED BY <1>1, <1>3, <2>1, TimesMonotone
    <2>5. f * listing.prompt \in Nat /\ k * listing.cache \in Nat /\ u * listing.completion \in Nat
      BY <1>1, <2>1
    <2>6. f * (10 * p) = 10 * (f * p) /\ k * (10 * p) = 10 * (k * p)
          /\ u * (10 * c) = 10 * (u * c)
      <3> HIDE DEF p, c
      <3> QED BY <1>2, <1>3, <2>1
    <2>7. f * p \in Nat /\ k * p \in Nat /\ u * c \in Nat
      <3> HIDE DEF p, c
      <3> QED BY <1>2, <1>3, <2>1
    <2>8. (f + k) * p <= i * p /\ u * c <= o * c
      <3>1. f + k \in Nat
        BY <2>1
      <3> HIDE DEF p, c
      <3> QED BY <1>2, <1>3, <2>1, <3>1, <1>8, TimesMonotone
    <2>9. (f + k) * p = f * p + k * p
      <3> HIDE DEF p
      <3> QED BY <1>2, <2>1
    <2>10. t \in Nat /\ t <= 10 * n
      <3> DEFINE fp == f * p
                 kp == k * p
                 uc == u * c
                 ip == i * p
                 oc == o * c
                 a == f * listing.prompt
                 b == k * listing.cache
                 d == u * listing.completion
      <3>1. fp \in Nat /\ kp \in Nat /\ uc \in Nat /\ ip \in Nat /\ oc \in Nat
            /\ a \in Nat /\ b \in Nat /\ d \in Nat
        BY <1>7, <2>5, <2>7
      <3>2. a <= 10 * fp /\ b <= 10 * kp /\ d <= 10 * uc
        BY <2>2, <2>3, <2>4, <2>6
      <3>3. fp + kp <= ip /\ uc <= oc
        BY <2>8, <2>9
      <3>4. t = a + b + d /\ n = ip + oc
        OBVIOUS
      <3> HIDE DEF fp, kp, uc, ip, oc, a, b, d, t, n
      <3> QED BY <3>1, <3>2, <3>3, <3>4
    <2>11. TotalCost(listing, f, k, u) = t
      BY DEF TotalCost
    <2> HIDE DEF t, n
    <2> QED BY <1>7, <2>10, <2>11, RoundingsMeet
  <1>9. Ceiling(Estimate(listing, i, o)) = DivCeil(n, 1000)
    BY DEF Ceiling, Estimate
  <1> HIDE DEF n, h
  <1> QED
    BY <1>1, <1>2, <1>3, <1>8, <1>9 DEF Covers, Estimate, MaxPrice

-----------------------------------------------------------------------------
(* The call. *)

Leased ==
    /\ lease \in Nat
    /\ lapsed => phase \notin {"asked", "quoted"}
    /\ lapsed /\ phase \in {"dispatched", "open"} => lease = 0

Priced == phase = "asked" => cost = None

Inv == Leased /\ Priced /\ NoGap /\ CeilingCoversBill

\* The estimate of a price that can be quoted covers every bill.
LEMMA QuoteKeeps ==
    ASSUME Inv, NEW r \in Rows, NEW i \in Tokens, NEW o \in Tokens, Quote(r, i, o)
    PROVE  Inv'
  <1>1. r \in Row /\ i \in Nat /\ o \in Nat
    BY CallAssumption
  <1>2. /\ CanQuote(r) /\ phase' = "quoted" /\ row' = r /\ cost' = Estimate(r, i, o)
        /\ UNCHANGED lease /\ UNCHANGED lapsed /\ phase = "asked"
    BY DEF Quote
  <1>3. CeilingCoversBill'
    <2>1. Covers(r, Estimate(r, i, o))
      BY <1>1, <1>2, CeilingCovers
    <2> QED
      BY <1>2, <2>1 DEF CeilingCoversBill
  <1> QED
    BY <1>2, <1>3 DEF Inv, Leased, Priced, NoGap

\* A step after which no price is quoted.
LEMMA PriceGone ==
    ASSUME cost' = None
    PROVE  Priced' /\ CeilingCoversBill'
  BY DEF Priced, CeilingCoversBill

\* A step that leaves the price alone.
LEMMA PriceStays ==
    ASSUME Inv, UNCHANGED cost, UNCHANGED row, phase' # "asked"
    PROVE  Priced' /\ CeilingCoversBill'
  BY DEF Inv, Priced, CeilingCoversBill

\* Before the POST.
LEMMA BeforePostKeeps ==
    ASSUME Inv,
           \/ \E r \in Rows : CannotQuote(r)
           \/ Expire
           \/ \E bound \in Tokens : Begin(bound) \/ Refuse(bound)
    PROVE  Inv'
  <1>1. ASSUME NEW r \in Rows, CannotQuote(r)
        PROVE  Inv'
    <2>1. phase' = "refused" /\ UNCHANGED lease /\ UNCHANGED lapsed
          /\ UNCHANGED cost /\ UNCHANGED row
      BY <1>1 DEF CannotQuote, quoting
    <2> QED
      BY <2>1, PriceStays DEF Inv, Leased, NoGap
  <1>2. CASE Expire
    <2>1. phase = "quoted" /\ UNCHANGED phase /\ UNCHANGED lease /\ UNCHANGED lapsed
          /\ UNCHANGED cost /\ UNCHANGED row
      BY <1>2 DEF Expire
    <2> QED
      BY <2>1, PriceStays DEF Inv, Leased, NoGap
  <1>3. ASSUME NEW bound \in Tokens, Begin(bound) \/ Refuse(bound)
        PROVE  Inv'
    <2>1. phase = "quoted" /\ phase' \in {"dispatched", "refused"} /\ cost' = None
          /\ UNCHANGED lease /\ UNCHANGED lapsed
      BY <1>3 DEF Begin, Refuse
    <2> QED
      BY <2>1, PriceGone DEF Inv, Leased, NoGap
  <1> QED
    BY <1>1, <1>2, <1>3

\* The time of the lease.
LEMMA TickKeeps ==
    ASSUME Inv, Tick
    PROVE  Inv'
  <1>1. /\ phase \in {"quoted", "dispatched", "open"} /\ lease > 0 /\ lease' = lease - 1
        /\ lapsed' = (lapsed \/ (lease = 1 /\ phase # "quoted"))
        /\ UNCHANGED phase /\ UNCHANGED cost /\ UNCHANGED row
    BY DEF Tick, quoting
  <1>2. lease \in Nat /\ ~lapsed
    BY <1>1 DEF Inv, Leased
  <1>3. lease' \in Nat /\ (lease = 1 => lease' = 0)
    BY <1>1, <1>2
  <1>4. lapsed' => lease = 1 /\ phase # "quoted"
    BY <1>1, <1>2
  <1>5. Leased'
    BY <1>1, <1>3, <1>4 DEF Leased
  <1>6. NoGap'
    BY <1>1 DEF NoGap
  <1>7. Priced' /\ CeilingCoversBill'
    BY <1>1, PriceStays
  <1> QED
    BY <1>5, <1>6, <1>7 DEF Inv

\* A renewal needs a lease that runs.
LEMMA RenewKeeps ==
    ASSUME Inv, NEW same \in BOOLEAN, NEW until \in 0 .. MaxLease, Renew(same, until)
    PROVE  Inv'
  <1>1. /\ phase = "open" /\ phase' \in {"open", "failed"}
        /\ lease' = IF lease > 0 /\ same /\ until >= lease THEN until ELSE lease
        /\ UNCHANGED lapsed /\ UNCHANGED cost /\ UNCHANGED row
    BY DEF Renew, quoting
  <1>2. lease \in Nat /\ (lapsed => lease = 0)
    BY <1>1 DEF Inv, Leased
  <1>3. lease' \in Nat /\ (lapsed => lease' = 0)
    BY <1>1, <1>2, CallAssumption
  <1>4. Leased' /\ NoGap'
    BY <1>1, <1>3 DEF Leased, NoGap
  <1>5. Priced' /\ CeilingCoversBill'
    BY <1>1, PriceStays
  <1> QED
    BY <1>4, <1>5 DEF Inv

\* The POST and its stream: the end of a stream is read under the lease.
LEMMA StreamKeeps ==
    ASSUME Inv,
           \/ \E header \in Generations \cup {None} : Start(header) \/ StartFails(header)
           \/ \E events \in Chunks, more \in BOOLEAN :
                 Receive(events, more) \/ ReceiveRefused(events, more)
           \/ End
           \/ ReadFails
    PROVE  Inv'
  <1>1. /\ phase \in {"dispatched", "open"}
        /\ phase' \in {"open", "failed", "broken", "completed"}
        /\ phase' \in {"open", "completed"} => lease > 0 \/ phase' = phase
        /\ phase' = "completed" => phase = "open" /\ lease > 0
        /\ UNCHANGED lease /\ UNCHANGED lapsed /\ UNCHANGED cost /\ UNCHANGED row
    BY DEF Start, StartFails, Receive, ReceiveRefused, Read, End, ReadFails, quoting
  <1>2. lease \in Nat /\ (lapsed => lease = 0)
    BY <1>1 DEF Inv, Leased
  <1>3. Leased' /\ NoGap'
    BY <1>1, <1>2 DEF Leased, NoGap
  <1>4. Priced' /\ CeilingCoversBill'
    BY <1>1, PriceStays
  <1> QED
    BY <1>3, <1>4 DEF Inv

\* The inductive invariant.
THEOREM CallInvariance == Spec => []Inv
  <1>1. Init => Inv
    BY CallAssumption DEF Init, Inv, Leased, Priced, NoGap, CeilingCoversBill
  <1>2. Inv /\ [Next]_vars => Inv'
    <2>1. ASSUME Inv, Next
          PROVE  Inv'
      BY <2>1, QuoteKeeps, BeforePostKeeps, TickKeeps, RenewKeeps, StreamKeeps DEF Next
    <2>2. ASSUME Inv, UNCHANGED vars
          PROVE  Inv'
      <3>1. UNCHANGED phase /\ UNCHANGED lease /\ UNCHANGED lapsed
            /\ UNCHANGED cost /\ UNCHANGED row
        BY <2>2 DEF vars, quoting
      <3> QED
        BY <2>2, <3>1 DEF Inv, Leased, Priced, NoGap, CeilingCoversBill
    <2> QED
      BY <2>1, <2>2
  <1> QED
    BY <1>1, <1>2, PTL DEF Spec

\* No completed turn was read across a gap of its authorisation.
THEOREM NoGapRead == Spec => []NoGap
  <1>1. Inv => NoGap
    BY DEF Inv
  <1> QED
    BY <1>1, CallInvariance, PTL

\* Every price that is quoted covers every bill under its limits.
THEOREM QuotesCover == Spec => []CeilingCoversBill
  <1>1. Inv => CeilingCoversBill
    BY DEF Inv
  <1> QED
    BY <1>1, CallInvariance, PTL

-----------------------------------------------------------------------------
(* The stream as it is received. *)

\* v is w with one more event, e.
Longer(w, v, e) ==
    /\ w \in Seq(Events) /\ v \in Seq(Events) /\ e \in Events
    /\ Len(v) = Len(w) + 1
    /\ v[Len(v)] = e
    /\ \A i \in 1 .. Len(w) : v[i] = w[i]

\* What the stream decoder keeps of them.
Remembers(d, w) ==
    /\ ~d.failed
    /\ d.done <=> DonesOf(w) # {}
    /\ d.usage <=> UsagesOf(w) # {}
    /\ IF EndsOf(w) = {} THEN d.finish = None ELSE \A i \in EndsOf(w) : w[i].finish = d.finish
    /\ IF ChunksOf(w) = {} THEN d.generation = None ELSE \A i \in ChunksOf(w) : w[i].id = d.generation

\* Decoder.
DecoderType ==
    [generation : Generations \cup {None}, finish : {None, "stop", "tool_calls"},
     usage : BOOLEAN, done : BOOLEAN, failed : BOOLEAN]

\* Its own place is added to the places of its kind.
PlaceAdded(w, v, e) ==
    /\ DOMAIN w = 1 .. Len(w) /\ DOMAIN v = 1 .. Len(v)
    /\ Len(w) \in Nat /\ Len(v) = Len(w) + 1
    /\ DOMAIN v = DOMAIN w \cup {Len(v)}
    /\ ChunksOf(v) = IF IsChunk(e) THEN ChunksOf(w) \cup {Len(v)} ELSE ChunksOf(w)
    /\ EndsOf(v) = IF IsChunk(e) /\ e.finish # None THEN EndsOf(w) \cup {Len(v)} ELSE EndsOf(w)
    /\ UsagesOf(v) = IF IsChunk(e) /\ e.usage # None THEN UsagesOf(w) \cup {Len(v)} ELSE UsagesOf(w)
    /\ CallsOf(v) = IF IsChunk(e) /\ e.call # None THEN CallsOf(w) \cup {Len(v)} ELSE CallsOf(w)
    /\ DonesOf(v) = IF e.type = "done" THEN DonesOf(w) \cup {Len(v)} ELSE DonesOf(w)

\* One more event adds its place to the places of its kinds.
LEMMA PlacesGrow ==
    ASSUME NEW w, NEW v, NEW e, Longer(w, v, e)
    PROVE  PlaceAdded(w, v, e)
  <1>1. Len(w) \in Nat /\ Len(v) = Len(w) + 1 /\ DOMAIN w = 1 .. Len(w) /\ DOMAIN v = 1 .. Len(v)
    BY DEF Longer
  <1>2. DOMAIN v = DOMAIN w \cup {Len(v)}
    BY <1>1
  <1>3. v[Len(v)] = e /\ \A i \in DOMAIN w : v[i] = w[i]
    BY <1>1 DEF Longer
  <1>4. ChunksOf(v) = IF IsChunk(e) THEN ChunksOf(w) \cup {Len(v)} ELSE ChunksOf(w)
    BY <1>2, <1>3 DEF ChunksOf, IsChunk
  <1>5. ChunksOf(w) \subseteq DOMAIN w
    BY DEF ChunksOf
  <1>6. /\ EndsOf(v) = IF IsChunk(e) /\ e.finish # None THEN EndsOf(w) \cup {Len(v)} ELSE EndsOf(w)
        /\ UsagesOf(v) = IF IsChunk(e) /\ e.usage # None THEN UsagesOf(w) \cup {Len(v)} ELSE UsagesOf(w)
        /\ CallsOf(v) = IF IsChunk(e) /\ e.call # None THEN CallsOf(w) \cup {Len(v)} ELSE CallsOf(w)
    BY <1>3, <1>4, <1>5 DEF EndsOf, UsagesOf, CallsOf
  <1>7. DonesOf(v) = IF e.type = "done" THEN DonesOf(w) \cup {Len(v)} ELSE DonesOf(w)
    BY <1>2, <1>3 DEF DonesOf
  <1> QED
    BY <1>1, <1>2, <1>4, <1>6, <1>7 DEF PlaceAdded

\* The places of all kinds are in the stream.
LEMMA PlacesIn ==
    ASSUME NEW w \in Seq(Events)
    PROVE  /\ DOMAIN w = 1 .. Len(w) /\ Len(w) \in Nat
           /\ ChunksOf(w) \subseteq DOMAIN w
           /\ EndsOf(w) \subseteq ChunksOf(w) /\ UsagesOf(w) \subseteq ChunksOf(w)
           /\ CallsOf(w) \subseteq ChunksOf(w) /\ DonesOf(w) \subseteq DOMAIN w
           /\ \A i \in ChunksOf(w) : IsChunk(w[i]) /\ w[i] \in Events
           /\ \A i \in DonesOf(w) : w[i].type = "done"
           /\ \A i \in DOMAIN w : w[i] \in Events
  BY DEF ChunksOf, EndsOf, UsagesOf, CallsOf, DonesOf, IsChunk

\* What comes first was in order before.
LEMMA OrderedBefore ==
    ASSUME NEW w, NEW v, NEW e, Longer(w, v, e), Ordered(v)
    PROVE  Ordered(w) /\ DonesOf(w) = {}
  <1>1. w \in Seq(Events) /\ v \in Seq(Events) /\ \A i \in DOMAIN w : v[i] = w[i]
    BY PlacesGrow DEF Longer, PlaceAdded
  <1>2. DOMAIN w = 1 .. Len(w) /\ Len(w) \in Nat /\ Len(v) = Len(w) + 1
    BY PlacesGrow DEF PlaceAdded
  <1>3. /\ ChunksOf(w) \subseteq ChunksOf(v) /\ EndsOf(w) \subseteq EndsOf(v)
        /\ UsagesOf(w) \subseteq UsagesOf(v) /\ DonesOf(w) \subseteq DonesOf(v)
        /\ DOMAIN w \subseteq DOMAIN v
    <2>1. PlaceAdded(w, v, e)
      BY PlacesGrow
    <2>2. ChunksOf(w) \subseteq ChunksOf(v)
      BY <2>1 DEF PlaceAdded
    <2>3. EndsOf(w) \subseteq EndsOf(v)
      BY <2>1 DEF PlaceAdded
    <2>4. UsagesOf(w) \subseteq UsagesOf(v)
      BY <2>1 DEF PlaceAdded
    <2>5. DonesOf(w) \subseteq DonesOf(v)
      BY <2>1 DEF PlaceAdded
    <2>6. DOMAIN w \subseteq DOMAIN v
      BY <2>1 DEF PlaceAdded
    <2> QED
      BY <2>2, <2>3, <2>4, <2>5, <2>6
  <1>4. DonesOf(w) = {}
    <2>1. \A i \in DonesOf(w) : i \in 1 .. Len(w) /\ i = Len(v)
      BY <1>1, <1>2, <1>3, PlacesIn DEF Ordered
    <2> QED
      BY <1>2, <2>1
  <1>5. /\ \A i \in ChunksOf(w) : v[i] = w[i]
        /\ \A i \in EndsOf(w) : v[i] = w[i]
        /\ \A i \in UsagesOf(w) : v[i] = w[i]
        /\ EndsOf(w) \subseteq ChunksOf(w) /\ UsagesOf(w) \subseteq ChunksOf(w)
    BY <1>1, PlacesIn
  <1>6. \A i \in DOMAIN w : w[i].type # "error"
    BY <1>1, <1>3 DEF Ordered
  <1>7. \A i, j \in ChunksOf(w) : w[i].id = w[j].id
    BY <1>3, <1>5 DEF Ordered
  <1>8. ASSUME NEW i \in EndsOf(w)
        PROVE  /\ w[i].finish # "length"
               /\ \A j \in ChunksOf(w) : j > i => ~CarriesOutput(w[j])
               /\ \A j \in EndsOf(w) : j > i => w[j].finish = w[i].finish /\ w[j].usage # None
    BY <1>3, <1>5 DEF Ordered
  <1>9. ASSUME NEW i \in UsagesOf(w)
        PROVE  /\ \E j \in EndsOf(w) : j <= i
               /\ \A j \in UsagesOf(w) : i = j
    <2>1. PICK j \in EndsOf(v) : j <= i
      BY <1>3 DEF Ordered
    <2>2. j # Len(v)
      <3>1. i \in 1 .. Len(w)
        BY <1>1, <1>2, PlacesIn
      <3> QED
        BY <1>2, <2>1, <3>1
    <2>3. j \in EndsOf(w)
      <3>1. EndsOf(v) \subseteq EndsOf(w) \cup {Len(v)}
        BY PlacesGrow, Zenon DEF PlaceAdded
      <3> QED
        BY <2>1, <2>2, <3>1
    <2> QED
      BY <1>3, <2>1, <2>3 DEF Ordered
  <1> QED
    BY <1>4, <1>6, <1>7, <1>8, <1>9 DEF Ordered

\* What is known of an event.
LEMMA EventIs ==
    ASSUME NEW e \in Events
    PROVE  /\ e \in Event
           /\ e.type \in {"chunk", "done", "error", "comment"}
           /\ e.finish \in {None, "stop", "tool_calls", "length"}
           /\ e.id \in Generations \cup {None}
           /\ e.text \in Piece \cup {None}
           /\ e.call \in Call \cup {None}
           /\ e.usage \in Nat \cup {None}
           /\ e.type = "chunk" => e.id # None
  BY CallAssumption DEF Event, Reason

\* None is none of the reasons.
LEMMA NoneIsNoReason == None # "stop" /\ None # "tool_calls" /\ None # "length"
  BY CallAssumption DEF Reason

\* The places of a stream that got one more event.
Places(w, v, e, k) ==
    /\ k = Len(v) /\ k \in Nat
    /\ \A i \in DOMAIN w : i \in Nat /\ i < k /\ v[i] = w[i]
    /\ v[k] = e
    /\ ChunksOf(w) \subseteq DOMAIN w /\ EndsOf(w) \subseteq ChunksOf(w)
    /\ UsagesOf(w) \subseteq ChunksOf(w) /\ DonesOf(w) \subseteq DOMAIN w
    /\ \A i \in EndsOf(w) : w[i].finish # None
    /\ PlaceAdded(w, v, e)

\* They are those it had, and its own.
LEMMA PlacesAre ==
    ASSUME NEW w, NEW v, NEW e, Longer(w, v, e)
    PROVE  Places(w, v, e, Len(v))
  <1>1. PlaceAdded(w, v, e)
    BY PlacesGrow
  <1>2. w \in Seq(Events) /\ v[Len(v)] = e /\ Len(v) = Len(w) + 1 /\ Len(w) \in Nat
        /\ \A i \in 1 .. Len(w) : v[i] = w[i]
    BY DEF Longer
  <1>3. /\ ChunksOf(w) \subseteq DOMAIN w /\ EndsOf(w) \subseteq ChunksOf(w)
        /\ UsagesOf(w) \subseteq ChunksOf(w) /\ DonesOf(w) \subseteq DOMAIN w
    BY <1>2, PlacesIn
  <1>4. \A i \in EndsOf(w) : w[i].finish # None
    BY DEF EndsOf
  <1>5. Len(v) \in Nat /\ \A i \in 1 .. Len(w) : i \in Nat /\ i < Len(v)
    BY <1>2
  <1>6. DOMAIN w = 1 .. Len(w)
    BY <1>2
  <1> QED
    BY <1>1, <1>2, <1>3, <1>4, <1>5, <1>6 DEF Places

\* An event that is accepted keeps the stream in order,
LEMMA AcceptedIsOrdered ==
    ASSUME NEW w, NEW v, NEW e, Longer(w, v, e), Ordered(w),
           NEW d \in DecoderType, Remembers(d, w), Acceptable(d, e)
    PROVE  Ordered(v)
  <1> DEFINE k == Len(v)
  <1>1. Places(w, v, e, k)
    BY PlacesAre
  <1>2. e \in Events
    BY DEF Longer
  <1> HIDE DEF k
  <1>3. e.type # "error" /\ DonesOf(w) = {}
    BY DEF Acceptable, Remembers
  <1>4. DOMAIN v = DOMAIN w \cup {k}
    BY <1>1 DEF Places, PlaceAdded
  <1>5. \A i \in DOMAIN v : v[i].type # "error"
    BY <1>1, <1>3, <1>4 DEF Places, Ordered
  <1>6. CASE ~IsChunk(e)
    <2>1. ChunksOf(v) = ChunksOf(w) /\ EndsOf(v) = EndsOf(w) /\ UsagesOf(v) = UsagesOf(w)
      BY <1>1, <1>6 DEF Places, PlaceAdded
    <2>2. /\ \A i \in ChunksOf(w) : v[i] = w[i]
          /\ \A i \in EndsOf(w) : v[i] = w[i]
          /\ \A i \in UsagesOf(w) : v[i] = w[i]
      BY <1>1 DEF Places
    <2>3. \A i, j \in ChunksOf(v) : v[i].id = v[j].id
      BY <2>1, <2>2 DEF Ordered
    <2>4. \A i \in EndsOf(v) :
            /\ v[i].finish # "length"
            /\ \A j \in ChunksOf(v) : j > i => ~CarriesOutput(v[j])
            /\ \A j \in EndsOf(v) : j > i => v[j].finish = v[i].finish /\ v[j].usage # None
      BY <2>1, <2>2 DEF Ordered
    <2>5. \A i \in UsagesOf(v) : (\E j \in EndsOf(v) : j <= i) /\ \A j \in UsagesOf(v) : i = j
      BY <2>1 DEF Ordered
    <2>6. \A i \in DonesOf(v) : UsagesOf(v) # {} /\ i = k
      <3>1. \A i \in DonesOf(v) : i = k /\ e.type = "done"
        BY <1>1, <1>3 DEF Places, PlaceAdded
      <3>2. e.type = "done" => UsagesOf(w) # {}
        BY DEF Acceptable, AcceptableDone, Remembers
      <3> QED
        BY <2>1, <3>1, <3>2
    <2> QED
      BY <1>5, <2>3, <2>4, <2>5, <2>6 DEF Ordered, k
  <1>7. CASE IsChunk(e)
    <2>1. /\ ChunksOf(v) = ChunksOf(w) \cup {k}
          /\ EndsOf(v) \subseteq EndsOf(w) \cup {k} /\ EndsOf(w) \subseteq EndsOf(v)
          /\ e.finish # None => k \in EndsOf(v)
          /\ k \in EndsOf(v) => e.finish # None
          /\ UsagesOf(v) = IF e.usage # None THEN UsagesOf(w) \cup {k} ELSE UsagesOf(w)
          /\ DonesOf(v) = {}
      <3>1. e.type # "done"
        BY <1>7 DEF IsChunk
      <3>2. k \notin EndsOf(w)
        BY <1>1 DEF Places
      <3> QED
        BY <1>1, <1>3, <1>7, <3>1, <3>2 DEF Places, PlaceAdded
    <2>2. /\ \A i \in ChunksOf(w) : v[i] = w[i] /\ i < k /\ i \in Nat
          /\ \A i \in EndsOf(w) : v[i] = w[i] /\ i < k /\ i \in Nat
          /\ \A i \in UsagesOf(w) : v[i] = w[i] /\ i < k /\ i \in Nat
          /\ v[k] = e /\ k \in Nat
      BY <1>1 DEF Places
    <2>3. AcceptableChunk(d, e)
      BY <1>7 DEF Acceptable, IsChunk
    <2>4. \A i \in ChunksOf(w) : w[i].id = e.id
      <3>1. SUFFICES ASSUME NEW i \in ChunksOf(w) PROVE w[i].id = e.id
        OBVIOUS
      <3>2. w[i].id = d.generation
        BY DEF Remembers
      <3>3. w[i].id # None
        <4>1. w \in Seq(Events)
          BY DEF Longer
        <4>2. w[i] \in Events /\ w[i].type = "chunk"
          BY <4>1, PlacesIn DEF IsChunk
        <4> QED
          BY <4>2, EventIs
      <3> QED
        BY <2>3, <3>2, <3>3 DEF AcceptableChunk
    <2>5. \A i, j \in ChunksOf(v) : v[i].id = v[j].id
      BY <2>1, <2>2, <2>4
    <2>6. EndsOf(w) # {} => d.finish # None /\ (\A i \in EndsOf(w) : w[i].finish = d.finish)
      BY <1>1 DEF Remembers, Places
    <2>7. ASSUME NEW i \in EndsOf(v)
          PROVE  /\ v[i].finish # "length"
                 /\ \A j \in ChunksOf(v) : j > i => ~CarriesOutput(v[j])
                 /\ \A j \in EndsOf(v) : j > i => v[j].finish = v[i].finish /\ v[j].usage # None
      <3>1. CASE i = k
        <4>1. v[i].finish # "length"
          BY <2>2, <2>3, <3>1 DEF AcceptableChunk
        <4>2. \A j \in ChunksOf(v) : ~(j > i)
          BY <2>1, <2>2, <3>1
        <4>3. \A j \in EndsOf(v) : ~(j > i)
          BY <2>1, <2>2, <3>1
        <4> QED
          BY <4>1, <4>2, <4>3
      <3>2. CASE i \in EndsOf(w)
        <4>1. v[i].finish # "length"
          BY <2>2, <3>2 DEF Ordered
        <4>2. d.finish # None /\ v[i].finish = d.finish
          BY <2>2, <2>6, <3>2
        <4>3. ~CarriesOutput(e)
          BY <2>3, <4>2 DEF AcceptableChunk
        <4>4. \A j \in ChunksOf(v) : j > i => ~CarriesOutput(v[j])
          BY <2>1, <2>2, <3>2, <4>3 DEF Ordered
        <4>5. k \in EndsOf(v) => e.finish = d.finish /\ e.usage # None
          BY <2>1, <2>3, <4>2 DEF AcceptableChunk
        <4>6. \A j \in EndsOf(v) : j > i => v[j].finish = v[i].finish /\ v[j].usage # None
          <5> TAKE j \in EndsOf(v)
          <5>1. CASE j = k
            BY <2>2, <4>2, <4>5, <5>1
          <5>2. CASE j \in EndsOf(w)
            BY <2>2, <3>2, <5>2 DEF Ordered
          <5> QED
            BY <2>1, <5>1, <5>2
        <4> QED
          BY <4>1, <4>4, <4>6
      <3> QED
        BY <2>1, <3>1, <3>2
    <2>8. ASSUME NEW i \in UsagesOf(v)
          PROVE  (\E j \in EndsOf(v) : j <= i) /\ \A j \in UsagesOf(v) : i = j
      <3>1. CASE e.usage = None
        <4>1. UsagesOf(v) = UsagesOf(w)
          BY <2>1, <3>1
        <4> QED
          BY <2>1, <4>1 DEF Ordered
      <3>2. CASE e.usage # None
        <4>1. UsagesOf(w) = {} /\ UsagesOf(v) = {k}
          BY <2>1, <2>3, <3>2 DEF AcceptableChunk, Remembers
        <4>2. EndsOf(v) # {}
          BY <2>1, <2>3, <3>2 DEF AcceptableChunk, Remembers
        <4>3. \A j \in EndsOf(v) : j <= k
          BY <2>1, <2>2
        <4> QED
          BY <4>1, <4>2, <4>3
      <3> QED
        BY <3>1, <3>2
    <2> QED
      BY <1>5, <2>1, <2>5, <2>7, <2>8 DEF Ordered
  <1> QED
    BY <1>6, <1>7

\* and one that is not does not.
LEMMA OrderedIsAccepted ==
    ASSUME NEW w, NEW v, NEW e, Longer(w, v, e), Ordered(v),
           NEW d \in DecoderType, Remembers(d, w)
    PROVE  Acceptable(d, e)
  <1> DEFINE k == Len(v)
  <1>1. Places(w, v, e, k)
    BY PlacesAre
  <1>2. e \in Events
    BY DEF Longer
  <1> HIDE DEF k
  <1>3. Ordered(w) /\ DonesOf(w) = {}
    BY OrderedBefore
  <1>4. ~d.done
    BY <1>3 DEF Remembers
  <1>5. e.type # "error"
    BY <1>1 DEF Ordered, Places, PlaceAdded
  <1>6. CASE e.type = "comment"
    BY <1>4, <1>6 DEF Acceptable
  <1>7. CASE e.type = "done"
    <2>1. UsagesOf(v) # {}
      BY <1>1, <1>7 DEF Ordered, Places, PlaceAdded
    <2>2. UsagesOf(v) = UsagesOf(w)
      <3>1. ~IsChunk(e)
        BY <1>7 DEF IsChunk
      <3> QED
        BY <1>1, <3>1 DEF Places, PlaceAdded
    <2>3. EndsOf(w) # {} /\ ChunksOf(w) # {}
      BY <1>1, <1>3, <2>1, <2>2 DEF Ordered, Places
    <2>4. d.usage
      BY <2>1, <2>2 DEF Remembers
    <2>5. d.finish # None
      BY <1>1, <2>3 DEF Remembers, Places
    <2>6. d.generation # None
      <3>1. PICK i \in ChunksOf(w) : TRUE
        BY <2>3
      <3>2. w[i].id = d.generation
        BY <3>1 DEF Remembers
      <3>3. w \in Seq(Events)
        BY DEF Longer
      <3>4. w[i] \in Events /\ w[i].type = "chunk"
        BY <3>1, <3>3, PlacesIn DEF IsChunk
      <3> QED
        BY <3>2, <3>4, EventIs
    <2> QED
      BY <1>4, <1>7, <2>4, <2>5, <2>6 DEF Acceptable, AcceptableDone
  <1>8. CASE e.type = "chunk"
    <2>1. /\ ChunksOf(v) = ChunksOf(w) \cup {k}
          /\ EndsOf(v) \subseteq EndsOf(w) \cup {k} /\ EndsOf(w) \subseteq EndsOf(v)
          /\ e.finish # None => k \in EndsOf(v)
          /\ k \in EndsOf(v) => e.finish # None
          /\ UsagesOf(w) \subseteq UsagesOf(v) /\ (e.usage # None => k \in UsagesOf(v))
      <3>1. IsChunk(e)
        BY <1>8 DEF IsChunk
      <3>2. k \notin EndsOf(w)
        BY <1>1 DEF Places
      <3> QED
        BY <1>1, <3>1, <3>2 DEF Places, PlaceAdded
    <2>2. /\ \A i \in ChunksOf(w) : v[i] = w[i] /\ i < k /\ i \in Nat
          /\ \A i \in EndsOf(w) : v[i] = w[i] /\ i < k /\ i \in Nat
          /\ \A i \in UsagesOf(w) : i < k /\ i \in Nat
          /\ v[k] = e /\ k \in Nat
      BY <1>1 DEF Places
    <2>3. d.generation \in {None, e.id}
      <3>1. CASE ChunksOf(w) = {}
        BY <3>1 DEF Remembers
      <3>2. CASE ChunksOf(w) # {}
        <4>1. PICK i \in ChunksOf(w) : TRUE
          BY <3>2
        <4>2. v[i].id = v[k].id
          BY <2>1, <4>1 DEF Ordered
        <4> QED
          BY <2>2, <4>1, <4>2 DEF Remembers
      <3> QED
        BY <3>1, <3>2
    <2>4. ASSUME d.finish # None
          PROVE  ~CarriesOutput(e) /\ (e.finish # None => e.finish = d.finish /\ e.usage # None)
      <3>1. EndsOf(w) # {}
        BY <2>4 DEF Remembers
      <3>2. PICK i \in EndsOf(w) : w[i].finish = d.finish
        BY <3>1 DEF Remembers
      <3>3. i \in EndsOf(v) /\ v[i] = w[i] /\ k > i
        BY <2>1, <2>2, <3>2
      <3>4. ~CarriesOutput(v[k])
        BY <2>1, <3>3 DEF Ordered
      <3>5. k \in EndsOf(v) => v[k].finish = v[i].finish /\ v[k].usage # None
        BY <3>3 DEF Ordered
      <3> QED
        BY <2>1, <2>2, <3>2, <3>3, <3>4, <3>5
    <2>5. e.finish # "length"
      <3>1. e.finish = "length" => k \in EndsOf(v)
        BY <2>1, NoneIsNoReason
      <3> QED
        BY <2>2, <3>1 DEF Ordered
    <2>6. ASSUME e.usage # None
          PROVE  ~d.usage /\ (d.finish # None \/ e.finish # None)
      <3>1. k \in UsagesOf(v) /\ \A i \in UsagesOf(v) : i = k
        BY <2>1, <2>6 DEF Ordered
      <3>2. UsagesOf(w) = {}
        BY <2>1, <2>2, <3>1
      <3>3. PICK j \in EndsOf(v) : TRUE
        BY <3>1 DEF Ordered
      <3>4. d.finish = None => EndsOf(w) = {}
        BY <1>1 DEF Remembers, Places
      <3> QED
        BY <2>1, <3>2, <3>3, <3>4 DEF Remembers
    <2>7. AcceptableChunk(d, e)
      BY <2>3, <2>4, <2>5, <2>6 DEF AcceptableChunk
    <2> QED
      BY <1>4, <1>8, <2>7 DEF Acceptable
  <1> QED
    BY <1>2, <1>5, <1>6, <1>7, <1>8, EventIs

\* The decoder remembers what the stream is about.
LEMMA DecoderRemembers ==
    ASSUME NEW w, NEW v, NEW e, Longer(w, v, e), Ordered(v),
           NEW d \in DecoderType, Remembers(d, w)
    PROVE  Remembers(StreamEvent(d, e), v)
  <1> DEFINE k == Len(v)
             n == StreamEvent(d, e)
  <1>1. Places(w, v, e, k)
    BY PlacesAre
  <1>2. e \in Events
    BY DEF Longer
  <1>3. Acceptable(d, e) /\ ~d.failed
    BY OrderedIsAccepted DEF Remembers
  <1>4. /\ d.done <=> DonesOf(w) # {}
        /\ d.usage <=> UsagesOf(w) # {}
        /\ EndsOf(w) = {} => d.finish = None
        /\ \A i \in EndsOf(w) : w[i].finish = d.finish
        /\ ChunksOf(w) = {} => d.generation = None
        /\ \A i \in ChunksOf(w) : w[i].id = d.generation
    BY DEF Remembers
  <1> HIDE DEF k
  <1>5. CASE e.type = "comment"
    <2>1. n = d
      BY <1>3, <1>5 DEF StreamEvent
    <2>2. ~IsChunk(e) /\ e.type # "done"
      BY <1>5 DEF IsChunk
    <2>3. /\ ChunksOf(v) = ChunksOf(w) /\ EndsOf(v) = EndsOf(w)
          /\ UsagesOf(v) = UsagesOf(w) /\ DonesOf(v) = DonesOf(w)
      BY <1>1, <2>2 DEF Places, PlaceAdded
    <2>4. /\ \A i \in ChunksOf(w) : v[i] = w[i]
          /\ \A i \in EndsOf(w) : v[i] = w[i]
      BY <1>1 DEF Places
    <2> QED
      BY <1>3, <1>4, <2>1, <2>3, <2>4 DEF Remembers
  <1>6. CASE e.type = "done"
    <2>1. n = [d EXCEPT !.done = TRUE]
      BY <1>3, <1>6 DEF StreamEvent
    <2>2. n.done /\ ~n.failed /\ n.usage = d.usage /\ n.finish = d.finish /\ n.generation = d.generation
      BY <1>3, <2>1 DEF DecoderType
    <2>3. ~IsChunk(e)
      BY <1>6 DEF IsChunk
    <2>4. /\ ChunksOf(v) = ChunksOf(w) /\ EndsOf(v) = EndsOf(w)
          /\ UsagesOf(v) = UsagesOf(w) /\ k \in DonesOf(v)
      BY <1>1, <1>6, <2>3 DEF Places, PlaceAdded
    <2>5. /\ \A i \in ChunksOf(w) : v[i] = w[i]
          /\ \A i \in EndsOf(w) : v[i] = w[i]
      BY <1>1 DEF Places
    <2> HIDE DEF n
    <2>6. IF EndsOf(v) = {} THEN n.finish = None ELSE \A i \in EndsOf(v) : v[i].finish = n.finish
      BY <1>4, <2>2, <2>4, <2>5
    <2>7. IF ChunksOf(v) = {} THEN n.generation = None ELSE \A i \in ChunksOf(v) : v[i].id = n.generation
      BY <1>4, <2>2, <2>4, <2>5
    <2>8. ~n.failed /\ (n.done <=> DonesOf(v) # {})
      BY <2>2, <2>4
    <2>9. n.usage <=> UsagesOf(v) # {}
      BY <1>4, <2>2, <2>4
    <2> QED
      BY <2>6, <2>7, <2>8, <2>9 DEF Remembers, n
  <1>7. CASE e.type = "chunk"
    <2>1. n = [d EXCEPT !.generation = e.id,
                        !.finish = IF @ = None THEN e.finish ELSE @,
                        !.usage = @ \/ e.usage # None]
      BY <1>3, <1>7 DEF StreamEvent
    <2>2. /\ n.done = d.done /\ ~n.failed /\ n.generation = e.id
          /\ n.finish = IF d.finish = None THEN e.finish ELSE d.finish
          /\ n.usage <=> d.usage \/ e.usage # None
      BY <1>3, <2>1 DEF DecoderType
    <2>3. IsChunk(e) /\ e.type # "done"
      BY <1>7 DEF IsChunk
    <2>4. /\ ChunksOf(v) = ChunksOf(w) \cup {k}
          /\ EndsOf(v) = IF e.finish # None THEN EndsOf(w) \cup {k} ELSE EndsOf(w)
          /\ UsagesOf(v) = IF e.usage # None THEN UsagesOf(w) \cup {k} ELSE UsagesOf(w)
          /\ DonesOf(v) = DonesOf(w)
      BY <1>1, <2>3 DEF Places, PlaceAdded
    <2>5. /\ \A i \in ChunksOf(w) : v[i] = w[i] /\ k > i
          /\ \A i \in EndsOf(w) : v[i] = w[i] /\ k > i
          /\ v[k] = e
      BY <1>1 DEF Places
    <2> HIDE DEF n
    <2>6. \A i \in ChunksOf(v) : v[i].id = n.generation
      BY <2>2, <2>4, <2>5 DEF Ordered
    <2>7. n.usage <=> UsagesOf(v) # {}
      BY <1>4, <2>2, <2>4
    <2>8. EndsOf(v) = {} => n.finish = None
      BY <1>4, <2>2, <2>4
    <2>9. \A i \in EndsOf(v) : v[i].finish = n.finish
      <3>1. CASE EndsOf(w) = {}
        BY <1>4, <2>2, <2>4, <2>5, <3>1
      <3>2. CASE EndsOf(w) # {}
        <4>1. n.finish = d.finish
          BY <1>1, <1>4, <2>2, <3>2 DEF Places
        <4>2. ASSUME NEW i \in EndsOf(v) PROVE v[i].finish = d.finish
          <5>1. PICK j \in EndsOf(w) : w[j].finish = d.finish
            BY <1>4, <3>2
          <5>2. j \in EndsOf(v) /\ v[j].finish = d.finish
            BY <2>4, <2>5, <5>1
          <5>3. CASE i \in EndsOf(w)
            BY <1>4, <2>5, <5>3
          <5>4. CASE i \notin EndsOf(w)
            <6>1. i = k /\ i > j
              BY <2>4, <2>5, <5>1, <5>4
            <6> QED
              BY <5>2, <6>1 DEF Ordered
          <5> QED
            BY <5>3, <5>4
        <4> QED
          BY <4>1, <4>2
      <3> QED
        BY <3>1, <3>2
    <2>10. n.done <=> DonesOf(v) # {}
      BY <1>4, <2>2, <2>4
    <2>11. ChunksOf(v) # {}
      BY <2>4
    <2> QED
      BY <2>2, <2>6, <2>7, <2>8, <2>9, <2>10, <2>11 DEF Remembers, n
  <1>8. e.type # "error"
    BY <1>3, <1>2, EventIs DEF Acceptable
  <1> QED
    BY <1>2, <1>5, <1>6, <1>7, <1>8, EventIs

-----------------------------------------------------------------------------
(* What the events add up to. *)

\* What is held of a call, and of a turn: PartialCall and OutputDecoder.
Held == [id : CallIds \cup {None}, arguments : Pieced]

Turn == [text : Pieced, calls : UNION {[S -> Held] : S \in SUBSET Nat},
         finish : Reason \cup {None}, generation : Generations \cup {None},
         usage : Nat \cup {None}, failed : BOOLEAN]

\* What is held is what the pieces are together.
Holds(held, pieces) ==
    /\ held = "none" <=> DOMAIN pieces = {}
    /\ held = "open" <=> \E i \in DOMAIN pieces : DOMAIN pieces = {i} /\ pieces[i] = "open"
    /\ held = "whole" <=> Whole(pieces)

\* What is held of call n, or nothing yet; and that it is what its events say.
HeldAt(o, n) == IF n \in DOMAIN o.calls THEN o.calls[n] ELSE NewCall

CallHolds(o, w, n) ==
    /\ Holds(HeldAt(o, n).arguments, ArgumentsOf(w, n))
    /\ NamesOf(w, n) = {HeldAt(o, n).id} \ {None}

\* What the output decoder keeps of the events.
SumsUp(o, w) ==
    /\ ~o.failed
    /\ IF ChunksOf(w) = {} THEN o.generation = None ELSE \A i \in ChunksOf(w) : w[i].id = o.generation
    /\ IF EndsOf(w) = {} THEN o.finish = None ELSE \A i \in EndsOf(w) : w[i].finish = o.finish
    /\ IF UsagesOf(w) = {} THEN o.usage = None ELSE \A i \in UsagesOf(w) : w[i].usage = o.usage
    /\ Holds(o.text, TextOf(w))
    /\ DOMAIN o.calls = Indices(w)
    /\ \A n \in Nat : CallHolds(o, w, n)

\* Pieces together are a piece, or do not fit.
LEMMA PushedTyped ==
    ASSUME NEW held \in Pieced, NEW piece \in Piece
    PROVE  Pushed(held, piece) \in Pieced
  BY DEF Pieced, Piece, Pushed

\* One more piece.
LEMMA PushHolds ==
    ASSUME NEW held \in Pieced, NEW piece \in Piece, NEW p, NEW q, Holds(held, p),
           NEW k \in Nat, \A i \in DOMAIN p : i \in Nat /\ i < k,
           DOMAIN q = DOMAIN p \cup {k}, q[k] = piece, \A i \in DOMAIN p : q[i] = p[i]
    PROVE  Holds(Pushed(held, piece), q)
  <1> DEFINE next == Pushed(held, piece)
             at == DOMAIN p
  <1>1. k \notin at /\ k \in DOMAIN q
    OBVIOUS
  <1>2. /\ held = "none" <=> at = {}
        /\ held = "open" <=> \E i \in at : at = {i} /\ p[i] = "open"
        /\ held \in {"none", "open", "whole", "unfit"}
        /\ piece \in {"whole", "open", "close", "unfit"}
    BY DEF Holds, Pieced, Piece
  <1>3. next # "none"
    BY <1>2 DEF Pushed
  <1>4. DOMAIN q # {}
    BY <1>1
  <1>5. next = "open" <=> held = "none" /\ piece = "open"
    BY <1>2 DEF Pushed
  <1>6. next = "whole" <=> (held = "none" /\ piece = "whole") \/ (held = "open" /\ piece = "close")
    BY <1>2 DEF Pushed
  <1> HIDE DEF next
  <1>7. next = "open" <=> \E i \in DOMAIN q : DOMAIN q = {i} /\ q[i] = "open"
    <2>1. ASSUME NEW i \in DOMAIN q, DOMAIN q = {i}, q[i] = "open"
          PROVE  held = "none" /\ piece = "open"
      <3>1. i = k /\ at = {}
        BY <1>1, <2>1
      <3> QED
        BY <1>2, <2>1, <3>1
    <2>2. ASSUME held = "none", piece = "open"
          PROVE  DOMAIN q = {k} /\ q[k] = "open"
      BY <1>2, <2>2
    <2> QED
      BY <1>1, <1>5, <2>1, <2>2
  <1>8. next = "whole" <=> Whole(q)
    <2>1. ASSUME Whole(q)
          PROVE  (held = "none" /\ piece = "whole") \/ (held = "open" /\ piece = "close")
      <3>1. CASE \E i \in DOMAIN q : DOMAIN q = {i} /\ q[i] = "whole"
        <4>1. PICK i \in DOMAIN q : DOMAIN q = {i} /\ q[i] = "whole"
          BY <3>1
        <4>2. i = k /\ at = {}
          BY <1>1, <4>1
        <4> QED
          BY <1>2, <4>1, <4>2
      <3>2. CASE \E i, j \in DOMAIN q : i < j /\ DOMAIN q = {i, j} /\ q[i] = "open" /\ q[j] = "close"
        <4>1. PICK i \in DOMAIN q, j \in DOMAIN q :
                 i < j /\ DOMAIN q = {i, j} /\ q[i] = "open" /\ q[j] = "close"
          BY <3>2
        <4>2. i \in Nat /\ j \in Nat /\ i # j
          BY <4>1
        <4>3. j = k
          BY <1>1, <4>1, <4>2
        <4>4. at = {i}
          BY <1>1, <4>1, <4>2, <4>3
        <4>5. i \in at /\ p[i] = "open"
          BY <4>1, <4>4
        <4> QED
          BY <1>2, <4>1, <4>3, <4>4, <4>5
      <3> QED
        BY <2>1, <3>1, <3>2 DEF Whole
    <2>2. ASSUME held = "none", piece = "whole"
          PROVE  Whole(q)
      <3>1. DOMAIN q = {k}
        BY <1>2, <2>2
      <3> QED
        BY <2>2, <3>1 DEF Whole
    <2>3. ASSUME held = "open", piece = "close"
          PROVE  Whole(q)
      <3>1. PICK i \in at : at = {i} /\ p[i] = "open"
        BY <1>2, <2>3
      <3>2. DOMAIN q = {i, k} /\ i < k /\ q[i] = "open" /\ q[k] = "close"
        BY <2>3, <3>1
      <3> QED
        BY <1>1, <3>2 DEF Whole
    <2> QED
      BY <1>6, <2>1, <2>2, <2>3
  <1> QED
    BY <1>3, <1>4, <1>7, <1>8 DEF Holds, next

\* The pieces of the text grow with the stream.
LEMMA TextGrows ==
    ASSUME NEW w, NEW v, NEW e, Longer(w, v, e)
    PROVE  /\ ~HasText(e) => TextOf(v) = TextOf(w)
           /\ HasText(e) => /\ DOMAIN TextOf(v) = DOMAIN TextOf(w) \cup {Len(v)}
                            /\ TextOf(v)[Len(v)] = e.text
                            /\ \A i \in DOMAIN TextOf(w) : TextOf(v)[i] = TextOf(w)[i]
  <1> DEFINE k == Len(v)
             S == {i \in DOMAIN w : HasText(w[i])}
             T == {i \in DOMAIN v : HasText(v[i])}
  <1>1. Places(w, v, e, k) /\ DOMAIN v = DOMAIN w \cup {k}
    <2>1. Places(w, v, e, k)
      BY PlacesAre
    <2>2. PlaceAdded(w, v, e)
      BY <2>1 DEF Places
    <2> QED
      BY <2>1, <2>2 DEF PlaceAdded
  <1>2. v[k] = e /\ \A i \in DOMAIN w : v[i] = w[i]
    BY <1>1 DEF Places
  <1> HIDE DEF k
  <1>3. T = IF HasText(e) THEN S \cup {k} ELSE S
    BY <1>1, <1>2
  <1>4. \A i \in S : v[i].text = w[i].text
    BY <1>2
  <1>5. TextOf(w) = [i \in S |-> w[i].text] /\ TextOf(v) = [i \in T |-> v[i].text]
    BY DEF TextOf
  <1> HIDE DEF S, T
  <1>6. ~HasText(e) => TextOf(v) = TextOf(w)
    BY <1>3, <1>4, <1>5
  <1>7. ASSUME HasText(e)
        PROVE  /\ DOMAIN TextOf(v) = DOMAIN TextOf(w) \cup {k}
               /\ TextOf(v)[k] = e.text
               /\ \A i \in DOMAIN TextOf(w) : TextOf(v)[i] = TextOf(w)[i]
    BY <1>2, <1>3, <1>4, <1>5, <1>7
  <1> QED
    BY <1>6, <1>7 DEF k

\* So do the pieces and the ids of a call.
CallGrown(w, v, e, n) ==
    /\ DOMAIN ArgumentsOf(v, n) = DOMAIN ArgumentsOf(w, n) \cup {Len(v)}
    /\ ArgumentsOf(v, n)[Len(v)] = e.call.piece
    /\ \A i \in DOMAIN ArgumentsOf(w, n) : ArgumentsOf(v, n)[i] = ArgumentsOf(w, n)[i]
    /\ NamesOf(v, n) = NamesOf(w, n) \cup ({e.call.id} \ {None})

CallStays(w, v, n) == ArgumentsOf(v, n) = ArgumentsOf(w, n) /\ NamesOf(v, n) = NamesOf(w, n)

\* The longer stream has one piece more of the call its last event is about.
LEMMA CallGrows ==
    ASSUME NEW w, NEW v, NEW e, Longer(w, v, e), NEW n \in Nat
    PROVE  /\ IsChunk(e) /\ e.call # None /\ e.call.index = n => CallGrown(w, v, e, n)
           /\ ~(IsChunk(e) /\ e.call # None /\ e.call.index = n) => CallStays(w, v, n)
  <1> DEFINE k == Len(v)
             S == PartsOf(w, n)
             T == PartsOf(v, n)
             Hits == IsChunk(e) /\ e.call # None /\ e.call.index = n
  <1>1. Places(w, v, e, k) /\ CallsOf(v) = IF IsChunk(e) /\ e.call # None THEN CallsOf(w) \cup {k} ELSE CallsOf(w)
    <2>1. Places(w, v, e, k)
      BY PlacesAre
    <2>2. PlaceAdded(w, v, e)
      BY <2>1 DEF Places
    <2> QED
      BY <2>1, <2>2 DEF PlaceAdded
  <1>2. v[k] = e /\ \A i \in CallsOf(w) : v[i] = w[i]
    BY <1>1 DEF Places, CallsOf, ChunksOf
  <1> HIDE DEF k
  <1>3. T = IF Hits THEN S \cup {k} ELSE S
    BY <1>1, <1>2 DEF PartsOf
  <1>4. \A i \in S : v[i] = w[i]
    BY <1>2 DEF PartsOf
  <1>5. /\ ArgumentsOf(w, n) = [i \in S |-> w[i].call.piece]
        /\ ArgumentsOf(v, n) = [i \in T |-> v[i].call.piece]
        /\ NamesOf(w, n) = {w[i].call.id : i \in S} \ {None}
        /\ NamesOf(v, n) = {v[i].call.id : i \in T} \ {None}
    BY DEF ArgumentsOf, NamesOf
  <1> HIDE DEF S, T, Hits
  <1>6. ASSUME ~Hits
        PROVE  ArgumentsOf(v, n) = ArgumentsOf(w, n) /\ NamesOf(v, n) = NamesOf(w, n)
    <2>1. {v[i].call.id : i \in S} = {w[i].call.id : i \in S}
      BY <1>4
    <2> QED
      BY <1>3, <1>4, <1>5, <1>6, <2>1
  <1>7. ASSUME Hits
        PROVE  /\ DOMAIN ArgumentsOf(v, n) = DOMAIN ArgumentsOf(w, n) \cup {k}
               /\ ArgumentsOf(v, n)[k] = e.call.piece
               /\ \A i \in DOMAIN ArgumentsOf(w, n) : ArgumentsOf(v, n)[i] = ArgumentsOf(w, n)[i]
               /\ NamesOf(v, n) = NamesOf(w, n) \cup ({e.call.id} \ {None})
    <2>1. T = S \cup {k}
      BY <1>3, <1>7
    <2>2. {v[i].call.id : i \in S \cup {k}} = {w[i].call.id : i \in S} \cup {e.call.id}
      BY <1>2, <1>4
    <2>3. NamesOf(v, n) = NamesOf(w, n) \cup ({e.call.id} \ {None})
      BY <1>5, <2>1, <2>2
    <2>4. /\ DOMAIN ArgumentsOf(v, n) = DOMAIN ArgumentsOf(w, n) \cup {k}
          /\ ArgumentsOf(v, n)[k] = e.call.piece
          /\ \A i \in DOMAIN ArgumentsOf(w, n) : ArgumentsOf(v, n)[i] = ArgumentsOf(w, n)[i]
      BY <1>2, <1>4, <1>5, <2>1
    <2> QED
      BY <2>3, <2>4
  <1> QED
    BY <1>6, <1>7 DEF k, Hits, CallGrown, CallStays

\* A stream in which no call has two ids had none before.
LEMMA NamedBefore ==
    ASSUME NEW w, NEW v, NEW e, Longer(w, v, e), Named(v)
    PROVE  Named(w)
  <1>1. Places(w, v, e, Len(v)) /\ CallsOf(w) \subseteq CallsOf(v)
    <2>1. Places(w, v, e, Len(v))
      BY PlacesAre
    <2>2. PlaceAdded(w, v, e)
      BY <2>1 DEF Places
    <2> QED
      BY <2>1, <2>2 DEF PlaceAdded
  <1>2. \A i \in CallsOf(w) : v[i] = w[i]
    BY <1>1 DEF Places, CallsOf, ChunksOf
  <1> QED
    BY <1>1, <1>2 DEF Named

\* A call has one id when none is given another one.
LEMMA SameCallIsNamed ==
    ASSUME NEW w, NEW v, NEW e, Longer(w, v, e), Named(w), IsChunk(e), e.call # None,
           NEW held, NamesOf(w, e.call.index) = {held.id} \ {None}
    PROVE  SameCall(held, e.call) <=> Named(v)
  <1> DEFINE k == Len(v)
             n == e.call.index
  <1>1. Places(w, v, e, k) /\ CallsOf(v) = CallsOf(w) \cup {k}
    <2>1. Places(w, v, e, k)
      BY PlacesAre
    <2>2. PlaceAdded(w, v, e)
      BY <2>1 DEF Places
    <2> QED
      BY <2>1, <2>2 DEF PlaceAdded
  <1>2. v[k] = e /\ \A i \in CallsOf(w) : v[i] = w[i]
    BY <1>1 DEF Places, CallsOf, ChunksOf
  <1>3. \A i \in CallsOf(w) : w[i].call.index = n => w[i].call.id \in {None, held.id}
    BY DEF NamesOf, PartsOf
  <1>4. held.id # None => \E i \in CallsOf(w) : w[i].call.index = n /\ w[i].call.id = held.id
    BY DEF NamesOf, PartsOf
  <1> HIDE DEF k
  <1>5. ASSUME SameCall(held, e.call) PROVE Named(v)
    <2>1. \A i \in CallsOf(w) : w[i].call.index = n
             => w[i].call.id = e.call.id \/ None \in {w[i].call.id, e.call.id}
      BY <1>3, <1>5 DEF SameCall
    <2>2. ASSUME NEW i \in CallsOf(v), NEW j \in CallsOf(v), v[i].call.index = v[j].call.index
          PROVE  v[i].call.id = v[j].call.id \/ None \in {v[i].call.id, v[j].call.id}
      <3>1. CASE i = k /\ j = k
        BY <3>1
      <3>2. CASE i = k /\ j \in CallsOf(w)
        BY <1>2, <2>1, <2>2, <3>2
      <3>3. CASE i \in CallsOf(w) /\ j = k
        BY <1>2, <2>1, <2>2, <3>3
      <3>4. CASE i \in CallsOf(w) /\ j \in CallsOf(w)
        BY <1>2, <2>2, <3>4 DEF Named
      <3> QED
        BY <1>1, <3>1, <3>2, <3>3, <3>4
    <2> QED
      BY <2>2 DEF Named
  <1>6. ASSUME Named(v), ~SameCall(held, e.call) PROVE FALSE
    <2>1. e.call.id # None /\ held.id # None /\ held.id # e.call.id
      BY <1>6 DEF SameCall
    <2>2. PICK i \in CallsOf(w) : w[i].call.index = n /\ w[i].call.id = held.id
      BY <1>4, <2>1
    <2>3. i \in CallsOf(v) /\ k \in CallsOf(v) /\ v[i] = w[i] /\ v[k] = e
      BY <1>1, <1>2
    <2> QED
      BY <1>6, <2>1, <2>2, <2>3 DEF Named
  <1> QED
    BY <1>5, <1>6

\* The fields of what the output decoder holds after a chunk.
Seen(o, e) ==
    [o EXCEPT !.generation = e.id,
              !.usage = IF e.usage = None THEN @ ELSE e.usage,
              !.finish = IF e.finish = None THEN @ ELSE e.finish,
              !.text = IF e.text = None THEN @ ELSE Pushed(@, e.text)]

\* A call with one more piece.
Joined(o, call) ==
    [id |-> IF call.id = None THEN HeldAt(o, call.index).id ELSE call.id,
     arguments |-> Pushed(HeldAt(o, call.index).arguments, call.piece)]

\* A turn with one call replaced or added.
WithCall(s, n, h) ==
    [s EXCEPT !.calls = [i \in DOMAIN @ \cup {n} |-> IF i = n THEN h ELSE @[i]]]

\* OutputFrame by what it does to the turn.
LEMMA FrameIs ==
    ASSUME NEW o, NEW e
    PROVE  OutputFrame(o, e) =
              IF o.failed \/ ~IsChunk(e) THEN o
              ELSE IF e.call = None THEN Seen(o, e)
              ELSE IF ~SameCall(HeldAt(o, e.call.index), e.call)
              THEN [Seen(o, e) EXCEPT !.failed = TRUE]
              ELSE WithCall(Seen(o, e), e.call.index, Joined(o, e.call))
  BY Zenon DEF OutputFrame, Seen, Joined, HeldAt, WithCall

\* The types of what is held of a call,
LEMMA HeldTyped ==
    ASSUME NEW o \in Turn, NEW n
    PROVE  HeldAt(o, n) \in Held /\ DOMAIN o.calls \in SUBSET Nat
           /\ o.calls \in [DOMAIN o.calls -> Held]
  <1>1. PICK S \in SUBSET Nat : o.calls \in [S -> Held]
    BY DEF Turn
  <1>2. NewCall \in Held
    BY DEF NewCall, Held, Pieced
  <1> QED
    BY <1>1, <1>2 DEF HeldAt

\* of a turn with what a chunk says of it as a whole,
LEMMA SeenTyped ==
    ASSUME NEW o \in Turn, NEW e \in Events
    PROVE  /\ Seen(o, e) \in Turn
           /\ Seen(o, e).generation = e.id /\ Seen(o, e).calls = o.calls
           /\ Seen(o, e).failed = o.failed
           /\ Seen(o, e).usage = IF e.usage = None THEN o.usage ELSE e.usage
           /\ Seen(o, e).finish = IF e.finish = None THEN o.finish ELSE e.finish
           /\ Seen(o, e).text = IF e.text = None THEN o.text ELSE Pushed(o.text, e.text)
  <1>1. e \in Event
    BY EventIs
  <1>2. /\ e.id \in Generations \cup {None} /\ e.usage \in Nat \cup {None}
        /\ e.finish \in Reason \cup {None} /\ e.text \in Piece \cup {None}
    BY <1>1 DEF Event
  <1>3. o.text \in Pieced
    BY DEF Turn
  <1>4. e.text # None => Pushed(o.text, e.text) \in Pieced
    BY <1>2, <1>3, PushedTyped
  <1> QED
    BY <1>2, <1>3, <1>4, ZenonT(30) DEF Seen, Turn

\* of a call with one more piece,
LEMMA JoinedTyped ==
    ASSUME NEW o \in Turn, NEW call \in Call
    PROVE  Joined(o, call) \in Held
  <1>1. HeldAt(o, call.index) \in Held
    BY HeldTyped
  <1>2. call.piece \in Piece /\ call.id \in CallIds \cup {None}
    BY DEF Call
  <1>3. HeldAt(o, call.index).arguments \in Pieced /\ HeldAt(o, call.index).id \in CallIds \cup {None}
    BY <1>1 DEF Held
  <1>4. Pushed(HeldAt(o, call.index).arguments, call.piece) \in Pieced
    BY <1>2, <1>3, PushedTyped
  <1> QED
    BY <1>2, <1>3, <1>4 DEF Joined, Held

\* of a turn with that call, which keeps the rest of it,
LEMMA CallsUpdated ==
    ASSUME NEW s \in Turn, NEW n \in Nat, NEW h \in Held, NEW r, r = WithCall(s, n, h)
    PROVE  /\ r \in Turn /\ r.failed = s.failed /\ r.text = s.text /\ r.finish = s.finish
           /\ r.generation = s.generation /\ r.usage = s.usage
           /\ DOMAIN r.calls = DOMAIN s.calls \cup {n} /\ r.calls[n] = h
           /\ \A i \in DOMAIN s.calls \ {n} : r.calls[i] = s.calls[i]
  <1> DEFINE f == [i \in DOMAIN s.calls \cup {n} |-> IF i = n THEN h ELSE s.calls[i]]
             S == DOMAIN s.calls \cup {n}
  <1>1. DOMAIN s.calls \in SUBSET Nat /\ s.calls \in [DOMAIN s.calls -> Held]
    BY HeldTyped
  <1>2. S \in SUBSET Nat
    BY <1>1
  <1>3. f \in [S -> Held]
    BY <1>1
  <1>4. f \in UNION {[T -> Held] : T \in SUBSET Nat}
    BY <1>2, <1>3
  <1>5. DOMAIN f = S /\ f[n] = h /\ \A i \in DOMAIN s.calls \ {n} : f[i] = s.calls[i]
    OBVIOUS
  <1>6. r = [s EXCEPT !.calls = f]
    BY DEF WithCall
  <1> HIDE DEF f
  <1>7. /\ r \in Turn /\ r.failed = s.failed /\ r.text = s.text /\ r.finish = s.finish
        /\ r.generation = s.generation /\ r.usage = s.usage /\ r.calls = f
    BY <1>4, <1>6 DEF Turn
  <1> QED
    BY <1>5, <1>7

\* of a turn after an event,
LEMMA FrameTyped ==
    ASSUME NEW o \in Turn, NEW e \in Events
    PROVE  OutputFrame(o, e) \in Turn
  <1>1. Seen(o, e) \in Turn
    BY SeenTyped
  <1>2. CASE o.failed \/ ~IsChunk(e)
    BY <1>2, FrameIs
  <1>3. CASE ~o.failed /\ IsChunk(e) /\ e.call = None
    BY <1>1, <1>3, FrameIs
  <1>4. CASE ~o.failed /\ IsChunk(e) /\ e.call # None /\ ~SameCall(HeldAt(o, e.call.index), e.call)
    <2>1. OutputFrame(o, e) = [Seen(o, e) EXCEPT !.failed = TRUE]
      BY <1>4, FrameIs
    <2> QED
      BY <1>1, <2>1 DEF Turn
  <1>5. CASE ~o.failed /\ IsChunk(e) /\ e.call # None /\ SameCall(HeldAt(o, e.call.index), e.call)
    <2> DEFINE n == e.call.index
               s == Seen(o, e)
               h == Joined(o, e.call)
               r == OutputFrame(o, e)
    <2>1. r = WithCall(s, n, h)
      BY <1>5, FrameIs
    <2>2. e.call \in Call
      BY <1>5, EventIs
    <2>3. h \in Held /\ n \in Nat
      BY <2>2, JoinedTyped DEF Call
    <2> HIDE DEF n, s, h, r
    <2>4. s \in Turn
      BY <1>1 DEF s
    <2>5. /\ r \in Turn /\ r.failed = s.failed /\ r.text = s.text /\ r.finish = s.finish
          /\ r.generation = s.generation /\ r.usage = s.usage
      BY <2>1, <2>3, <2>4, CallsUpdated
    <2> QED
      BY <2>5 DEF r
  <1> QED
    BY <1>2, <1>3, <1>4, <1>5

\* and of the stream decoder after an event.
LEMMA StreamTyped ==
    ASSUME NEW d \in DecoderType, NEW e \in Events
    PROVE  StreamEvent(d, e) \in DecoderType
  <1>1. /\ e.finish \in {None, "stop", "tool_calls", "length"}
        /\ e.id \in Generations \cup {None}
        /\ e.type \in {"chunk", "done", "error", "comment"}
    BY EventIs
  <1>2. CASE d.failed \/ ~Acceptable(d, e)
    BY <1>2 DEF StreamEvent, DecoderType
  <1>3. CASE ~d.failed /\ Acceptable(d, e) /\ e.type = "done"
    BY <1>3 DEF StreamEvent, DecoderType
  <1>4. CASE ~d.failed /\ Acceptable(d, e) /\ e.type = "comment"
    BY <1>4 DEF StreamEvent, DecoderType
  <1>5. CASE ~d.failed /\ Acceptable(d, e) /\ e.type = "chunk"
    <2>1. e.finish \in {None, "stop", "tool_calls"}
      BY <1>1, <1>5 DEF Acceptable, AcceptableChunk
    <2>2. StreamEvent(d, e) = [d EXCEPT !.generation = e.id,
                                        !.finish = IF @ = None THEN e.finish ELSE @,
                                        !.usage = @ \/ e.usage # None]
      BY <1>5 DEF StreamEvent
    <2> QED
      BY <1>1, <2>1, <2>2 DEF DecoderType
  <1> QED
    BY <1>1, <1>2, <1>3, <1>4, <1>5 DEF Acceptable

\* What a chunk says of the whole answer.
LEMMA SeenSumsUp ==
    ASSUME NEW w, NEW v, NEW e, Longer(w, v, e), Ordered(v), IsChunk(e),
           NEW o \in Turn, SumsUp(o, w),
           NEW r, r.generation = e.id,
           r.usage = IF e.usage = None THEN o.usage ELSE e.usage,
           r.finish = IF e.finish = None THEN o.finish ELSE e.finish,
           r.text = IF e.text = None THEN o.text ELSE Pushed(o.text, e.text)
    PROVE  /\ IF ChunksOf(v) = {} THEN r.generation = None ELSE \A i \in ChunksOf(v) : v[i].id = r.generation
           /\ IF EndsOf(v) = {} THEN r.finish = None ELSE \A i \in EndsOf(v) : v[i].finish = r.finish
           /\ IF UsagesOf(v) = {} THEN r.usage = None ELSE \A i \in UsagesOf(v) : v[i].usage = r.usage
           /\ Holds(r.text, TextOf(v))
  <1> DEFINE k == Len(v)
  <1>1. Places(w, v, e, k)
    BY PlacesAre
  <1>2. e \in Events
    BY DEF Longer
  <1>3. PlaceAdded(w, v, e)
    BY <1>1 DEF Places
  <1> HIDE DEF k
  <1>4. /\ ChunksOf(v) = ChunksOf(w) \cup {k}
        /\ EndsOf(v) = IF e.finish # None THEN EndsOf(w) \cup {k} ELSE EndsOf(w)
        /\ UsagesOf(v) = IF e.usage # None THEN UsagesOf(w) \cup {k} ELSE UsagesOf(w)
    BY <1>3 DEF PlaceAdded, k
  <1>5. /\ \A i \in ChunksOf(w) : v[i] = w[i] /\ k > i
        /\ \A i \in EndsOf(w) : v[i] = w[i] /\ k > i
        /\ \A i \in UsagesOf(w) : v[i] = w[i] /\ k > i
        /\ v[k] = e
    BY <1>1 DEF Places
  <1>6. /\ EndsOf(w) = {} => o.finish = None
        /\ \A i \in EndsOf(w) : w[i].finish = o.finish
        /\ UsagesOf(w) = {} => o.usage = None
        /\ \A i \in UsagesOf(w) : w[i].usage = o.usage
    BY DEF SumsUp
  <1>7. k \in ChunksOf(v) /\ \A i \in ChunksOf(v) : v[i].id = r.generation
    BY <1>4, <1>5 DEF Ordered
  <1>8. IF EndsOf(v) = {} THEN r.finish = None ELSE \A i \in EndsOf(v) : v[i].finish = r.finish
    <2>1. CASE e.finish = None
      BY <1>4, <1>5, <1>6, <2>1
    <2>2. CASE e.finish # None
      <3>1. ASSUME NEW i \in EndsOf(w) PROVE v[i].finish = e.finish
        <4>1. i \in EndsOf(v) /\ k \in EndsOf(v) /\ k > i
          BY <1>4, <1>5, <2>2
        <4> QED
          BY <1>5, <4>1 DEF Ordered
      <3> QED
        BY <1>4, <1>5, <2>2, <3>1
    <2> QED
      BY <2>1, <2>2
  <1>9. IF UsagesOf(v) = {} THEN r.usage = None ELSE \A i \in UsagesOf(v) : v[i].usage = r.usage
    <2>1. CASE e.usage = None
      BY <1>4, <1>5, <1>6, <2>1
    <2>2. CASE e.usage # None
      <3>1. k \in UsagesOf(v) /\ \A i \in UsagesOf(v) : i = k
        BY <1>4, <2>2 DEF Ordered
      <3> QED
        BY <1>5, <2>2, <3>1
    <2> QED
      BY <2>1, <2>2
  <1>10. Holds(r.text, TextOf(v))
    <2>1. Holds(o.text, TextOf(w)) /\ o.text \in Pieced
      BY DEF SumsUp, Turn
    <2>2. CASE e.text = None
      <3>1. ~HasText(e)
        BY <2>2 DEF HasText
      <3>2. TextOf(v) = TextOf(w)
        BY <3>1, TextGrows
      <3> QED
        BY <2>1, <2>2, <3>2
    <2>3. CASE e.text # None
      <3> DEFINE p == TextOf(w)
                 q == TextOf(v)
      <3>1. HasText(e) /\ e.text \in Piece
        BY <1>2, <2>3, EventIs DEF HasText
      <3>2. DOMAIN q = DOMAIN p \cup {k} /\ q[k] = e.text /\ \A i \in DOMAIN p : q[i] = p[i]
        BY <3>1, TextGrows DEF k
      <3>3. k \in Nat /\ \A i \in DOMAIN p : i \in Nat /\ i < k
        BY <1>1 DEF Places, TextOf
      <3> HIDE DEF p, q
      <3>4. Holds(o.text, p)
        BY <2>1 DEF p
      <3>5. Holds(Pushed(o.text, e.text), q)
        BY <2>1, <3>1, <3>2, <3>3, <3>4, PushHolds
      <3> QED
        BY <2>3, <3>5 DEF q
    <2> QED
      BY <2>2, <2>3
  <1> QED
    BY <1>7, <1>8, <1>9, <1>10

\* The output decoder keeps what the events add up to, as long as no call is
\* given two ids.
LEMMA OutputSumsUp ==
    ASSUME NEW w, NEW v, NEW e, Longer(w, v, e), Ordered(v), Named(w),
           NEW o \in Turn, SumsUp(o, w)
    PROVE  IF Named(v) THEN SumsUp(OutputFrame(o, e), v) ELSE OutputFrame(o, e).failed
  <1> DEFINE k == Len(v)
             r == OutputFrame(o, e)
  <1>1. Places(w, v, e, k)
    BY PlacesAre
  <1>2. e \in Events
    BY DEF Longer
  <1>3. PlaceAdded(w, v, e)
    BY <1>1 DEF Places
  <1>4. ~o.failed /\ DOMAIN o.calls = Indices(w) /\ (\A n \in Nat : CallHolds(o, w, n))
    BY DEF SumsUp
  <1>5. \A i \in CallsOf(w) : v[i] = w[i]
    BY <1>1 DEF Places, CallsOf, ChunksOf
  <1> HIDE DEF k
  <1>6. CASE ~IsChunk(e)
    <2>1. r = o
      BY <1>6, FrameIs
    <2>2. ChunksOf(v) = ChunksOf(w) /\ EndsOf(v) = EndsOf(w)
          /\ UsagesOf(v) = UsagesOf(w) /\ CallsOf(v) = CallsOf(w)
      BY <1>3, <1>6 DEF PlaceAdded
    <2>3. /\ \A i \in ChunksOf(w) : v[i] = w[i]
          /\ \A i \in EndsOf(w) : v[i] = w[i]
          /\ \A i \in UsagesOf(w) : v[i] = w[i]
      BY <1>1 DEF Places
    <2>4. TextOf(v) = TextOf(w)
      BY <1>6, TextGrows DEF HasText
    <2>5. Indices(v) = Indices(w)
      BY <1>5, <2>2 DEF Indices
    <2>6. \A n \in Nat : CallHolds(o, v, n)
      <3> TAKE n \in Nat
      <3>1. ArgumentsOf(v, n) = ArgumentsOf(w, n) /\ NamesOf(v, n) = NamesOf(w, n)
        BY <1>6, CallGrows DEF CallStays
      <3>2. CallHolds(o, w, n)
        BY <1>4
      <3> QED
        BY <3>1, <3>2 DEF CallHolds
    <2>7. Named(v)
      BY <1>5, <2>2 DEF Named
    <2>8. /\ IF ChunksOf(v) = {} THEN o.generation = None ELSE \A i \in ChunksOf(v) : v[i].id = o.generation
          /\ IF EndsOf(v) = {} THEN o.finish = None ELSE \A i \in EndsOf(v) : v[i].finish = o.finish
          /\ IF UsagesOf(v) = {} THEN o.usage = None ELSE \A i \in UsagesOf(v) : v[i].usage = o.usage
      BY <2>2, <2>3 DEF SumsUp
    <2>9. Holds(o.text, TextOf(v))
      BY <2>4 DEF SumsUp
    <2>10. SumsUp(o, v)
      BY <1>4, <2>5, <2>6, <2>8, <2>9 DEF SumsUp
    <2> QED
      BY <2>1, <2>7, <2>10
  <1>7. CASE IsChunk(e) /\ e.call = None
    <2>1. r = Seen(o, e)
      BY <1>4, <1>7, FrameIs
    <2>2. CallsOf(v) = CallsOf(w)
      BY <1>3, <1>7 DEF PlaceAdded
    <2>3. Named(v) /\ Indices(v) = Indices(w)
      BY <1>5, <2>2 DEF Named, Indices
    <2>4. /\ r.generation = e.id /\ r.calls = o.calls /\ r.failed = o.failed
          /\ r.usage = IF e.usage = None THEN o.usage ELSE e.usage
          /\ r.finish = IF e.finish = None THEN o.finish ELSE e.finish
          /\ r.text = IF e.text = None THEN o.text ELSE Pushed(o.text, e.text)
      BY <1>2, <2>1, SeenTyped
    <2> HIDE DEF r
    <2>5. \A n \in Nat : CallHolds(r, v, n)
      <3> TAKE n \in Nat
      <3>1. ArgumentsOf(v, n) = ArgumentsOf(w, n) /\ NamesOf(v, n) = NamesOf(w, n)
        BY <1>7, CallGrows DEF CallStays
      <3>2. CallHolds(o, w, n)
        BY <1>4
      <3>3. HeldAt(r, n) = HeldAt(o, n)
        BY <2>4 DEF HeldAt
      <3> QED
        BY <3>1, <3>2, <3>3 DEF CallHolds
    <2>6. /\ IF ChunksOf(v) = {} THEN r.generation = None ELSE \A i \in ChunksOf(v) : v[i].id = r.generation
          /\ IF EndsOf(v) = {} THEN r.finish = None ELSE \A i \in EndsOf(v) : v[i].finish = r.finish
          /\ IF UsagesOf(v) = {} THEN r.usage = None ELSE \A i \in UsagesOf(v) : v[i].usage = r.usage
          /\ Holds(r.text, TextOf(v))
      BY <1>7, <2>4, SeenSumsUp
    <2>7. SumsUp(r, v)
      BY <1>4, <2>3, <2>4, <2>5, <2>6 DEF SumsUp
    <2> QED
      BY <2>3, <2>7 DEF r
  <1>8. CASE IsChunk(e) /\ e.call # None
    <2> DEFINE m == e.call.index
               s == Seen(o, e)
               h == Joined(o, e.call)
    <2>1. e.call \in Call
      BY <1>2, <1>8, EventIs
    <2>2. m \in Nat /\ e.call.piece \in Piece
      BY <2>1 DEF Call
    <2>3. NamesOf(w, m) = {HeldAt(o, m).id} \ {None} /\ Holds(HeldAt(o, m).arguments, ArgumentsOf(w, m))
      BY <1>4, <2>2 DEF CallHolds
    <2>4. SameCall(HeldAt(o, m), e.call) <=> Named(v)
      BY <1>8, <2>3, SameCallIsNamed
    <2>5. CASE ~Named(v)
      <3>1. r = [s EXCEPT !.failed = TRUE]
        BY <1>4, <1>8, <2>4, <2>5, FrameIs
      <3>2. s \in Turn
        BY <1>2, SeenTyped
      <3> HIDE DEF s, r
      <3>3. r.failed
        BY <3>1, <3>2 DEF Turn
      <3> QED
        BY <2>5, <3>3 DEF r
    <2>6. CASE Named(v)
      <3>1. r = WithCall(s, m, h)
        BY <1>4, <1>8, <2>4, <2>6, FrameIs
      <3>2. h \in Held
        BY <2>1, JoinedTyped
      <3>3. /\ s.generation = e.id /\ s.calls = o.calls /\ s.failed = o.failed
            /\ s.usage = IF e.usage = None THEN o.usage ELSE e.usage
            /\ s.finish = IF e.finish = None THEN o.finish ELSE e.finish
            /\ s.text = IF e.text = None THEN o.text ELSE Pushed(o.text, e.text)
            /\ s \in Turn
        BY <1>2, SeenTyped
      <3>4. /\ h.id = IF e.call.id = None THEN HeldAt(o, m).id ELSE e.call.id
            /\ h.arguments = Pushed(HeldAt(o, m).arguments, e.call.piece)
        BY DEF Joined
      <3>5. HeldAt(o, m) \in Held
        BY HeldTyped
      <3> HIDE DEF s, h, r, m
      <3>6. /\ r.failed = s.failed /\ r.text = s.text /\ r.finish = s.finish
            /\ r.generation = s.generation /\ r.usage = s.usage
            /\ DOMAIN r.calls = DOMAIN s.calls \cup {m} /\ r.calls[m] = h
            /\ \A i \in DOMAIN s.calls \ {m} : r.calls[i] = s.calls[i]
        BY <2>2, <3>1, <3>2, <3>3, CallsUpdated
      <3>7. /\ r.generation = e.id
            /\ r.usage = IF e.usage = None THEN o.usage ELSE e.usage
            /\ r.finish = IF e.finish = None THEN o.finish ELSE e.finish
            /\ r.text = IF e.text = None THEN o.text ELSE Pushed(o.text, e.text)
        BY <3>3, <3>6
      <3>8. /\ IF ChunksOf(v) = {} THEN r.generation = None ELSE \A i \in ChunksOf(v) : v[i].id = r.generation
            /\ IF EndsOf(v) = {} THEN r.finish = None ELSE \A i \in EndsOf(v) : v[i].finish = r.finish
            /\ IF UsagesOf(v) = {} THEN r.usage = None ELSE \A i \in UsagesOf(v) : v[i].usage = r.usage
            /\ Holds(r.text, TextOf(v))
        BY <1>8, <3>7, SeenSumsUp
      <3>9. DOMAIN r.calls = Indices(v)
        <4>1. CallsOf(v) = CallsOf(w) \cup {k} /\ v[k] = e
          BY <1>1, <1>3, <1>8 DEF PlaceAdded, Places
        <4>2. Indices(v) = Indices(w) \cup {m}
          BY <1>5, <4>1 DEF Indices, m
        <4> QED
          BY <1>4, <3>3, <3>6, <4>2
      <3>10. ASSUME NEW n \in Nat PROVE CallHolds(r, v, n)
        <4>1. CASE n = m
          <5> DEFINE p == ArgumentsOf(w, m)
                     q == ArgumentsOf(v, m)
          <5>1. HeldAt(r, m) = h
            BY <3>6 DEF HeldAt
          <5>2. /\ DOMAIN q = DOMAIN p \cup {k} /\ q[k] = e.call.piece
                /\ \A i \in DOMAIN p : q[i] = p[i]
                /\ NamesOf(v, m) = NamesOf(w, m) \cup ({e.call.id} \ {None})
            <6>1. CallGrown(w, v, e, m)
              BY <1>8, <2>2, CallGrows DEF m
            <6> QED
              BY <6>1 DEF CallGrown, k
          <5>3. k \in Nat /\ \A i \in DOMAIN p : i \in Nat /\ i < k
            BY <1>1 DEF Places, ArgumentsOf, PartsOf, CallsOf, ChunksOf
          <5>4. Holds(HeldAt(o, m).arguments, p)
            BY <2>3
          <5> HIDE DEF p, q
          <5>5. HeldAt(o, m).arguments \in Pieced
            BY <3>5 DEF Held
          <5>6. Holds(Pushed(HeldAt(o, m).arguments, e.call.piece), q)
            BY <2>2, <5>2, <5>3, <5>4, <5>5, PushHolds
          <5>7. NamesOf(v, m) = {h.id} \ {None}
            <6>1. SameCall(HeldAt(o, m), e.call)
              BY <2>4, <2>6
            <6>2. e.call.id = None \/ HeldAt(o, m).id = None \/ HeldAt(o, m).id = e.call.id
              BY <6>1 DEF SameCall
            <6> QED
              BY <2>3, <3>4, <5>2, <6>2
          <5> QED
            BY <3>4, <4>1, <5>1, <5>6, <5>7 DEF CallHolds, q
        <4>2. CASE n # m
          <5>1. ArgumentsOf(v, n) = ArgumentsOf(w, n) /\ NamesOf(v, n) = NamesOf(w, n)
            BY <4>2, CallGrows DEF m, CallStays
          <5>2. HeldAt(r, n) = HeldAt(o, n)
            BY <3>3, <3>6, <4>2 DEF HeldAt
          <5>3. CallHolds(o, w, n)
            BY <1>4
          <5> QED
            BY <5>1, <5>2, <5>3 DEF CallHolds
        <4> QED
          BY <4>1, <4>2
      <3>11. ~r.failed
        BY <1>4, <3>3, <3>6
      <3>12. SumsUp(r, v)
        BY <3>8, <3>9, <3>10, <3>11 DEF SumsUp
      <3> QED
        BY <2>6, <3>12 DEF r
    <2> QED
      BY <2>5, <2>6
  <1> QED
    BY <1>6, <1>7, <1>8

-----------------------------------------------------------------------------
(* Chunks: one event after the other. *)

\* The stream decoder after some events, and the output decoder.
Decoded(d, events) == FoldLeft(StreamEvent, d, events)
Gathered(o, events) == FoldLeft(OutputFrame, o, events)

\* t is the stream decoder after each of the events,
DecoderRun(t, d, events) ==
    /\ t \in [0 .. Len(events) -> DecoderType]
    /\ t[0] = d
    /\ \A i \in 1 .. Len(events) : t[i] = StreamEvent(t[i - 1], events[i])
    /\ Decoded(d, events) = t[Len(events)]

\* and there is such a run,
LEMMA DecoderRuns ==
    ASSUME NEW d \in DecoderType, NEW events \in Seq(Events)
    PROVE  \E t : DecoderRun(t, d, events)
  <1> DEFINE n == Len(events)
             D == 1 .. n
             step == [i \in D |-> [a \in DecoderType |-> StreamEvent(a, events[i])]]
             F(g) == [s \in SUBSET D |->
                         IF s = {} THEN d ELSE StreamEvent(g[s \ {Max(s)}], events[Max(s)])]
  <1>1. n \in Nat /\ DOMAIN events = D /\ \A i \in D : events[i] \in Events
    OBVIOUS
  <1>2. \A iter : iter = (CHOOSE g : g = F(g)) => Decoded(d, events) = iter[D]
    BY <1>1, Zenon DEF Decoded, FoldLeft, MapThenFoldSet
  <1>3. step \in [D -> [DecoderType -> DecoderType]]
    BY <1>1, StreamTyped
  <1>4. PICK h, t : Goes(h, t, n, DecoderType, d, step)
    <2> HIDE DEF n, step
    <2> QED
      BY <1>1, <1>3, FoldGoes
  <1>5. \A s \in SUBSET D : /\ s # {} => Max(s) \in s
                            /\ h[s] = IF s = {} THEN d ELSE StreamEvent(h[s \ {Max(s)}], events[Max(s)])
    <2> TAKE s \in SUBSET D
    <2>1. /\ s # {} => Max(s) \in s
          /\ h[s] = IF s = {} THEN d ELSE step[Max(s)][h[s \ {Max(s)}]]
          /\ h[s \ {Max(s)}] \in DecoderType
      BY <1>4 DEF Goes
    <2> QED
      BY <2>1
  <1>6. h = F(h)
    BY <1>4, <1>5 DEF Goes
  <1> DEFINE k == CHOOSE g : g = F(g)
  <1>7. k = F(k)
    <2> HIDE DEF F
    <2> QED
      BY <1>6
  <1>8. Decoded(d, events) = k[D]
    BY <1>2
  <1> HIDE DEF k
  <1>9. \A s \in SUBSET D : k[s] = IF s = {} THEN d ELSE StreamEvent(k[s \ {Max(s)}], events[Max(s)])
    BY <1>7
  <1> HIDE DEF F
  <1>10. k[D] = h[D]
    <2> DEFINE c == LastOf(n)
    <2>1. \A s \in SUBSET D : c[s] = Max(s)
      BY DEF LastOf
    <2> HIDE DEF D, c
    <2>2. ASSUME NEW s \in SUBSET D
          PROVE  /\ s # {} => c[s] \in s
                 /\ (s # {} => k[s \ {c[s]}] = h[s \ {c[s]}]) => k[s] = h[s]
      <3>1. /\ s # {} => Max(s) \in s
            /\ h[s] = IF s = {} THEN d ELSE StreamEvent(h[s \ {Max(s)}], events[Max(s)])
        BY <1>5
      <3>2. k[s] = IF s = {} THEN d ELSE StreamEvent(k[s \ {Max(s)}], events[Max(s)])
        BY <1>9
      <3>3. c[s] = Max(s)
        BY <2>1
      <3> QED
        BY <3>1, <3>2, <3>3
    <2>3. StepsAgree(h, k, D, c)
      BY <2>2 DEF StepsAgree
    <2>4. IsFiniteSet(D)
      BY <1>1, FS_Interval DEF D
    <2>5. \A s \in SUBSET D : k[s] = h[s]
      BY <2>3, <2>4, FoldsAgree
    <2> QED
      BY <2>5
  <1>11. /\ t \in [0 .. n -> DecoderType] /\ t[0] = d /\ t[n] = h[D]
         /\ \A i \in D : t[i] = step[i][t[i - 1]]
    BY <1>4 DEF Goes
  <1>12. \A i \in D : t[i] = StreamEvent(t[i - 1], events[i])
    <2> TAKE i \in D
    <2>1. i - 1 \in 0 .. n
      BY <1>1
    <2>2. t[i - 1] \in DecoderType
      BY <1>11, <2>1
    <2> QED
      BY <1>11, <2>2
  <1>13. DecoderRun(t, d, events)
    BY <1>8, <1>10, <1>11, <1>12 DEF DecoderRun
  <1> QED
    BY <1>13

\* t is the output decoder after each of them,
OutputRun(t, o, events) ==
    /\ t \in [0 .. Len(events) -> Turn]
    /\ t[0] = o
    /\ \A i \in 1 .. Len(events) : t[i] = OutputFrame(t[i - 1], events[i])
    /\ Gathered(o, events) = t[Len(events)]

\* and there is such a run.
LEMMA OutputRuns ==
    ASSUME NEW o \in Turn, NEW events \in Seq(Events)
    PROVE  \E t : OutputRun(t, o, events)
  <1> DEFINE n == Len(events)
             D == 1 .. n
             step == [i \in D |-> [a \in Turn |-> OutputFrame(a, events[i])]]
             F(g) == [s \in SUBSET D |->
                         IF s = {} THEN o ELSE OutputFrame(g[s \ {Max(s)}], events[Max(s)])]
  <1>1. n \in Nat /\ DOMAIN events = D /\ \A i \in D : events[i] \in Events
    OBVIOUS
  <1>2. \A iter : iter = (CHOOSE g : g = F(g)) => Gathered(o, events) = iter[D]
    BY <1>1, Zenon DEF Gathered, FoldLeft, MapThenFoldSet
  <1>3. step \in [D -> [Turn -> Turn]]
    BY <1>1, FrameTyped
  <1>4. PICK h, t : Goes(h, t, n, Turn, o, step)
    <2> HIDE DEF n, step
    <2> QED
      BY <1>1, <1>3, FoldGoes
  <1>5. \A s \in SUBSET D : /\ s # {} => Max(s) \in s
                            /\ h[s] = IF s = {} THEN o ELSE OutputFrame(h[s \ {Max(s)}], events[Max(s)])
    <2> TAKE s \in SUBSET D
    <2>1. /\ s # {} => Max(s) \in s
          /\ h[s] = IF s = {} THEN o ELSE step[Max(s)][h[s \ {Max(s)}]]
          /\ h[s \ {Max(s)}] \in Turn
      BY <1>4 DEF Goes
    <2> QED
      BY <2>1
  <1>6. h = F(h)
    BY <1>4, <1>5 DEF Goes
  <1> DEFINE k == CHOOSE g : g = F(g)
  <1>7. k = F(k)
    <2> HIDE DEF F
    <2> QED
      BY <1>6
  <1>8. Gathered(o, events) = k[D]
    BY <1>2
  <1> HIDE DEF k
  <1>9. \A s \in SUBSET D : k[s] = IF s = {} THEN o ELSE OutputFrame(k[s \ {Max(s)}], events[Max(s)])
    BY <1>7
  <1> HIDE DEF F
  <1>10. k[D] = h[D]
    <2> DEFINE c == LastOf(n)
    <2>1. \A s \in SUBSET D : c[s] = Max(s)
      BY DEF LastOf
    <2> HIDE DEF D, c
    <2>2. ASSUME NEW s \in SUBSET D
          PROVE  /\ s # {} => c[s] \in s
                 /\ (s # {} => k[s \ {c[s]}] = h[s \ {c[s]}]) => k[s] = h[s]
      <3>1. /\ s # {} => Max(s) \in s
            /\ h[s] = IF s = {} THEN o ELSE OutputFrame(h[s \ {Max(s)}], events[Max(s)])
        BY <1>5
      <3>2. k[s] = IF s = {} THEN o ELSE OutputFrame(k[s \ {Max(s)}], events[Max(s)])
        BY <1>9
      <3>3. c[s] = Max(s)
        BY <2>1
      <3> QED
        BY <3>1, <3>2, <3>3
    <2>3. StepsAgree(h, k, D, c)
      BY <2>2 DEF StepsAgree
    <2>4. IsFiniteSet(D)
      BY <1>1, FS_Interval DEF D
    <2>5. \A s \in SUBSET D : k[s] = h[s]
      BY <2>3, <2>4, FoldsAgree
    <2> QED
      BY <2>5
  <1>11. /\ t \in [0 .. n -> Turn] /\ t[0] = o /\ t[n] = h[D]
         /\ \A i \in D : t[i] = step[i][t[i - 1]]
    BY <1>4 DEF Goes
  <1>12. \A i \in D : t[i] = OutputFrame(t[i - 1], events[i])
    <2> TAKE i \in D
    <2>1. i - 1 \in 0 .. n
      BY <1>1
    <2>2. t[i - 1] \in Turn
      BY <1>11, <2>1
    <2> QED
      BY <1>11, <2>2
  <1>13. OutputRun(t, o, events)
    BY <1>8, <1>10, <1>11, <1>12 DEF OutputRun
  <1> QED
    BY <1>13

\* What has been read of a conversation.
Check == [valid : BOOLEAN, seen : SUBSET CallIds, pending : SUBSET CallIds]

\* Reading goes on from what has been checked.
Reading(check, messages) == FoldLeft(ReadMessage, check, messages)

\* The type of what has been checked after a message,
LEMMA ReadTyped ==
    ASSUME NEW check \in Check, NEW message \in Message
    PROVE  ReadMessage(check, message) \in Check
  <1>1. CASE message.role = "tool"
    BY <1>1 DEF ReadMessage, Check
  <1>2. CASE message.role = "assistant"
    <2>1. ToSet(message.ids) \subseteq CallIds
      <3>1. message.ids \in Seq(CallIds)
        BY <1>2 DEF Message
      <3> QED
        BY <3>1 DEF ToSet
    <2> QED
      BY <1>2, <2>1 DEF ReadMessage, Check
  <1>3. CASE message.role # "tool" /\ message.role # "assistant"
    BY <1>3 DEF ReadMessage, Check
  <1> QED
    BY <1>1, <1>2, <1>3

\* t is what has been checked after each message,
ReadingRun(t, check, messages) ==
    /\ t \in [0 .. Len(messages) -> Check]
    /\ t[0] = check
    /\ \A i \in 1 .. Len(messages) : t[i] = ReadMessage(t[i - 1], messages[i])
    /\ Reading(check, messages) = t[Len(messages)]

\* and there is such a run.
LEMMA ReadingRuns ==
    ASSUME NEW check \in Check, NEW messages \in Seq(Message)
    PROVE  \E t : ReadingRun(t, check, messages)
  <1> DEFINE n == Len(messages)
             D == 1 .. n
             step == [i \in D |-> [a \in Check |-> ReadMessage(a, messages[i])]]
             F(g) == [s \in SUBSET D |->
                         IF s = {} THEN check ELSE ReadMessage(g[s \ {Max(s)}], messages[Max(s)])]
  <1>1. n \in Nat /\ DOMAIN messages = D /\ \A i \in D : messages[i] \in Message
    OBVIOUS
  <1>2. \A iter : iter = (CHOOSE g : g = F(g)) => Reading(check, messages) = iter[D]
    BY <1>1, Zenon DEF Reading, FoldLeft, MapThenFoldSet
  <1>3. step \in [D -> [Check -> Check]]
    BY <1>1, ReadTyped
  <1>4. PICK h, t : Goes(h, t, n, Check, check, step)
    <2> HIDE DEF n, step
    <2> QED
      BY <1>1, <1>3, FoldGoes
  <1>5. \A s \in SUBSET D : /\ s # {} => Max(s) \in s
                            /\ h[s] = IF s = {} THEN check ELSE ReadMessage(h[s \ {Max(s)}], messages[Max(s)])
    <2> TAKE s \in SUBSET D
    <2>1. /\ s # {} => Max(s) \in s
          /\ h[s] = IF s = {} THEN check ELSE step[Max(s)][h[s \ {Max(s)}]]
          /\ h[s \ {Max(s)}] \in Check
      BY <1>4 DEF Goes
    <2> QED
      BY <2>1
  <1>6. h = F(h)
    BY <1>4, <1>5 DEF Goes
  <1> DEFINE k == CHOOSE g : g = F(g)
  <1>7. k = F(k)
    <2> HIDE DEF F
    <2> QED
      BY <1>6
  <1>8. Reading(check, messages) = k[D]
    BY <1>2
  <1> HIDE DEF k
  <1>9. \A s \in SUBSET D : k[s] = IF s = {} THEN check ELSE ReadMessage(k[s \ {Max(s)}], messages[Max(s)])
    BY <1>7
  <1> HIDE DEF F
  <1>10. k[D] = h[D]
    <2> DEFINE c == LastOf(n)
    <2>1. \A s \in SUBSET D : c[s] = Max(s)
      BY DEF LastOf
    <2> HIDE DEF D, c
    <2>2. ASSUME NEW s \in SUBSET D
          PROVE  /\ s # {} => c[s] \in s
                 /\ (s # {} => k[s \ {c[s]}] = h[s \ {c[s]}]) => k[s] = h[s]
      <3>1. /\ s # {} => Max(s) \in s
            /\ h[s] = IF s = {} THEN check ELSE ReadMessage(h[s \ {Max(s)}], messages[Max(s)])
        BY <1>5
      <3>2. k[s] = IF s = {} THEN check ELSE ReadMessage(k[s \ {Max(s)}], messages[Max(s)])
        BY <1>9
      <3>3. c[s] = Max(s)
        BY <2>1
      <3> QED
        BY <3>1, <3>2, <3>3
    <2>3. StepsAgree(h, k, D, c)
      BY <2>2 DEF StepsAgree
    <2>4. IsFiniteSet(D)
      BY <1>1, FS_Interval DEF D
    <2>5. \A s \in SUBSET D : k[s] = h[s]
      BY <2>3, <2>4, FoldsAgree
    <2> QED
      BY <2>5
  <1>11. /\ t \in [0 .. n -> Check] /\ t[0] = check /\ t[n] = h[D]
         /\ \A i \in D : t[i] = step[i][t[i - 1]]
    BY <1>4 DEF Goes
  <1>12. \A i \in D : t[i] = ReadMessage(t[i - 1], messages[i])
    <2> TAKE i \in D
    <2>1. i - 1 \in 0 .. n
      BY <1>1
    <2>2. t[i - 1] \in Check
      BY <1>11, <2>1
    <2> QED
      BY <1>11, <2>2
  <1>13. ReadingRun(t, check, messages)
    BY <1>8, <1>10, <1>11, <1>12 DEF ReadingRun
  <1> QED
    BY <1>13

\* The stream with the first n events of a chunk.
With(w, events, n) == [j \in 1 .. Len(w) + n |-> (w \o events)[j]]

\* It begins with the stream before the chunk and grows by one event at a time.
LEMMA WithGrows ==
    ASSUME NEW w \in Seq(Events), NEW events \in Seq(Events)
    PROVE  /\ With(w, events, 0) = w
           /\ With(w, events, Len(events)) = w \o events
           /\ \A i \in 1 .. Len(events) :
                 Longer(With(w, events, i - 1), With(w, events, i), events[i])
  <1> DEFINE all == w \o events
             n == Len(events)
             m == Len(w)
  <1>1. /\ all \in Seq(Events) /\ Len(all) = m + n /\ m \in Nat /\ n \in Nat
        /\ \A i \in 1 .. m : all[i] = w[i]
        /\ \A i \in 1 .. n : all[m + i] = events[i]
        /\ w = [i \in 1 .. m |-> w[i]]
        /\ all = [i \in 1 .. m + n |-> all[i]]
    <2>1. all \in Seq(Events) /\ Len(all) = m + n /\ m \in Nat /\ n \in Nat
      OBVIOUS
    <2>2. \A i \in 1 .. m : all[i] = w[i]
      OBVIOUS
    <2>3. \A i \in 1 .. n : all[m + i] = events[i]
      OBVIOUS
    <2>4. w = [i \in 1 .. m |-> w[i]]
      OBVIOUS
    <2>5. all = [i \in 1 .. Len(all) |-> all[i]]
      <3> HIDE DEF all
      <3> QED
        BY <2>1
    <2> HIDE DEF all, n, m
    <2> QED
      BY <2>1, <2>2, <2>3, <2>4, <2>5
  <1>2. \A i \in 1 .. m + n : all[i] \in Events
    BY <1>1
  <1> HIDE DEF all, n, m
  <1>3. \A i \in 0 .. n : /\ With(w, events, i) = [j \in 1 .. m + i |-> all[j]]
                          /\ With(w, events, i) \in Seq(Events)
                          /\ Len(With(w, events, i)) = m + i
    <2> TAKE i \in 0 .. n
    <2>1. With(w, events, i) = [j \in 1 .. m + i |-> all[j]]
      BY DEF With, all, m
    <2>2. m + i \in Nat /\ 1 .. m + i \subseteq 1 .. m + n
      BY <1>1
    <2>3. [j \in 1 .. m + i |-> all[j]] \in [1 .. m + i -> Events]
      BY <1>2, <2>2
    <2> DEFINE part == [j \in 1 .. m + i |-> all[j]]
    <2>4. part \in [1 .. m + i -> Events] /\ m + i \in Nat
      BY <2>2, <2>3
    <2> HIDE DEF part
    <2>5. part \in Seq(Events)
      BY <2>4, SeqDef
    <2>6. Len(part) = m + i
      BY <2>4, <2>5
    <2> QED
      BY <2>1, <2>5, <2>6 DEF part
  <1>4. With(w, events, 0) = w
    <2>1. 0 \in 0 .. n /\ m + 0 = m
      BY <1>1
    <2> QED
      BY <1>1, <1>3, <2>1
  <1>5. With(w, events, n) = all
    <2>1. n \in 0 .. n
      BY <1>1
    <2> QED
      BY <1>1, <1>3, <2>1
  <1>6. ASSUME NEW i \in 1 .. n
        PROVE  Longer(With(w, events, i - 1), With(w, events, i), events[i])
    <2>1. i \in 0 .. n /\ i - 1 \in 0 .. n /\ m + i = (m + (i - 1)) + 1 /\ m + i \in 1 .. m + i
      BY <1>1
    <2>2. events[i] \in Events /\ all[m + i] = events[i]
      <3>1. events[i] \in Events
        BY DEF n
      <3> QED
        BY <1>1, <3>1
    <2>3. /\ With(w, events, i) = [j \in 1 .. m + i |-> all[j]]
          /\ With(w, events, i - 1) = [j \in 1 .. m + (i - 1) |-> all[j]]
          /\ With(w, events, i) \in Seq(Events) /\ With(w, events, i - 1) \in Seq(Events)
          /\ Len(With(w, events, i)) = m + i
          /\ Len(With(w, events, i - 1)) = m + (i - 1)
      BY <1>3, <2>1
    <2>4. With(w, events, i)[m + i] = events[i]
      BY <2>1, <2>2, <2>3
    <2>5. \A j \in 1 .. m + (i - 1) : With(w, events, i)[j] = With(w, events, i - 1)[j]
      <3>1. 1 .. m + (i - 1) \subseteq 1 .. m + i
        BY <1>1
      <3> QED
        BY <2>3, <3>1
    <2> QED
      BY <2>1, <2>2, <2>3, <2>4, <2>5 DEF Longer
  <1> QED
    BY <1>4, <1>5, <1>6 DEF n, all

\* A failed decoder stays so, and a generation once read is kept.
LEMMA StreamKept ==
    ASSUME NEW d \in DecoderType, NEW e \in Events
    PROVE  /\ d.failed => StreamEvent(d, e).failed
           /\ d.generation \in {None, StreamEvent(d, e).generation}
  <1>1. CASE d.failed \/ ~Acceptable(d, e)
    BY <1>1 DEF StreamEvent, DecoderType
  <1>2. CASE ~d.failed /\ Acceptable(d, e) /\ e.type = "done"
    BY <1>2 DEF StreamEvent, DecoderType
  <1>3. CASE ~d.failed /\ Acceptable(d, e) /\ e.type = "comment"
    BY <1>3 DEF StreamEvent
  <1>4. CASE ~d.failed /\ Acceptable(d, e) /\ e.type = "chunk"
    <2>1. StreamEvent(d, e) = [d EXCEPT !.generation = e.id,
                                        !.finish = IF @ = None THEN e.finish ELSE @,
                                        !.usage = @ \/ e.usage # None]
      BY <1>4 DEF StreamEvent
    <2>2. StreamEvent(d, e).generation = e.id
      BY <2>1 DEF DecoderType
    <2> QED
      BY <1>4, <2>2 DEF Acceptable, AcceptableChunk
  <1> QED
    BY <1>1, <1>2, <1>3, <1>4 DEF Acceptable

\* However the events come, the decoder knows whether they are in order, and then
\* what they are about.
LEMMA ChunkDecoded ==
    ASSUME NEW w \in Seq(Events), NEW events \in Seq(Events),
           NEW d \in DecoderType, Ordered(w), Remembers(d, w)
    PROVE  /\ Decoded(d, events) \in DecoderType
           /\ IF Ordered(w \o events) THEN Remembers(Decoded(d, events), w \o events)
                                      ELSE Decoded(d, events).failed
           /\ d.generation \in {None, Decoded(d, events).generation}
  <1> DEFINE n == Len(events)
             V(i) == With(w, events, i)
             Good(t, i) == /\ IF Ordered(V(i)) THEN Remembers(t[i], V(i)) ELSE t[i].failed
                           /\ d.generation \in {None, t[i].generation}
  <1>1. PICK t : DecoderRun(t, d, events)
    BY DecoderRuns
  <1>2. /\ n \in Nat /\ t \in [0 .. n -> DecoderType] /\ t[0] = d
        /\ \A i \in 1 .. n : t[i] = StreamEvent(t[i - 1], events[i]) /\ events[i] \in Events
        /\ Decoded(d, events) = t[n]
    BY <1>1 DEF DecoderRun
  <1> DEFINE S == {i \in 0 .. n : Good(t, i)}
  <1>3. 0 \in S
    <2>1. V(0) = w
      BY WithGrows
    <2> QED
      BY <1>2, <2>1
  <1>4. ASSUME NEW i \in 1 .. n, i - 1 \in S PROVE i \in S
    <2> DEFINE x == V(i - 1)
               y == V(i)
               e == events[i]
               a == t[i - 1]
               b == t[i]
    <2>1. Longer(x, y, e) /\ e \in Events
      BY <1>2, WithGrows
    <2>2. b = StreamEvent(a, e) /\ a \in DecoderType /\ i \in 0 .. n
      <3>1. i - 1 \in 0 .. n /\ i \in 0 .. n
        BY <1>2
      <3> QED
        BY <1>2, <3>1
    <2>3. /\ IF Ordered(x) THEN Remembers(a, x) ELSE a.failed
          /\ d.generation \in {None, a.generation}
      BY <1>4
    <2> HIDE DEF x, y, e, a, b
    <2>4. (a.failed => b.failed) /\ a.generation \in {None, b.generation}
      BY <2>1, <2>2, StreamKept
    <2>5. IF Ordered(y) THEN Remembers(b, y) ELSE b.failed
      <3>1. CASE Ordered(y)
        <4>1. Ordered(x)
          BY <2>1, <3>1, OrderedBefore
        <4>2. Remembers(a, x)
          BY <2>3, <4>1
        <4> QED
          BY <2>1, <2>2, <3>1, <4>2, DecoderRemembers
      <3>2. CASE ~Ordered(y) /\ Ordered(x)
        <4>1. Remembers(a, x)
          BY <2>3, <3>2
        <4>2. ~Acceptable(a, e)
          BY <2>1, <2>2, <3>2, <4>1, AcceptedIsOrdered
        <4>3. StreamEvent(a, e) = [a EXCEPT !.failed = TRUE]
          BY <4>2 DEF StreamEvent
        <4> QED
          BY <2>2, <3>2, <4>3 DEF DecoderType
      <3>3. CASE ~Ordered(y) /\ ~Ordered(x)
        BY <2>3, <2>4, <3>3
      <3> QED
        BY <3>1, <3>2, <3>3
    <2>6. d.generation \in {None, b.generation}
      BY <2>3, <2>4
    <2> QED
      BY <2>2, <2>5, <2>6 DEF b, y
  <1>5. n \in S
    <2> HIDE DEF S
    <2>1. 0 .. n \subseteq S
      BY <1>2, <1>3, <1>4, UpTo
    <2> QED
      BY <1>2, <2>1
  <1>6. V(n) = w \o events
    BY WithGrows
  <1>7. t[n] \in DecoderType
    BY <1>2
  <1>8. Good(t, n)
    BY <1>5
  <1> QED
    BY <1>2, <1>6, <1>7, <1>8

\* And the output decoder keeps what they add up to.
LEMMA ChunkGathered ==
    ASSUME NEW w \in Seq(Events), NEW events \in Seq(Events),
           NEW o \in Turn, Named(w), SumsUp(o, w), Ordered(w \o events)
    PROVE  IF Named(w \o events) THEN SumsUp(Gathered(o, events), w \o events)
                                 ELSE Gathered(o, events).failed
  <1> DEFINE n == Len(events)
             V(i) == With(w, events, i)
             Good(t, i) == Ordered(V(i)) => IF Named(V(i)) THEN SumsUp(t[i], V(i)) ELSE t[i].failed
  <1>1. PICK t : OutputRun(t, o, events)
    BY OutputRuns
  <1>2. /\ n \in Nat /\ t \in [0 .. n -> Turn] /\ t[0] = o
        /\ \A i \in 1 .. n : t[i] = OutputFrame(t[i - 1], events[i]) /\ events[i] \in Events
        /\ Gathered(o, events) = t[n]
    BY <1>1 DEF OutputRun
  <1> DEFINE S == {i \in 0 .. n : Good(t, i)}
  <1>3. 0 \in S
    <2>1. V(0) = w
      BY WithGrows
    <2> QED
      BY <1>2, <2>1
  <1>4. ASSUME NEW i \in 1 .. n, i - 1 \in S PROVE i \in S
    <2> DEFINE x == V(i - 1)
               y == V(i)
               e == events[i]
               a == t[i - 1]
               b == t[i]
    <2>1. Longer(x, y, e) /\ e \in Events
      BY <1>2, WithGrows
    <2>2. b = OutputFrame(a, e) /\ a \in Turn /\ i \in 0 .. n
      <3>1. i - 1 \in 0 .. n /\ i \in 0 .. n
        BY <1>2
      <3> QED
        BY <1>2, <3>1
    <2>3. Ordered(x) => IF Named(x) THEN SumsUp(a, x) ELSE a.failed
      BY <1>4
    <2> HIDE DEF x, y, e, a, b
    <2>4. ASSUME Ordered(y) PROVE IF Named(y) THEN SumsUp(b, y) ELSE b.failed
      <3>1. Ordered(x)
        BY <2>1, <2>4, OrderedBefore
      <3>2. CASE Named(x)
        <4>1. SumsUp(a, x)
          BY <2>3, <3>1, <3>2
        <4> QED
          BY <2>1, <2>2, <2>4, <3>2, <4>1, OutputSumsUp
      <3>3. CASE ~Named(x)
        <4>1. a.failed
          BY <2>3, <3>1, <3>3
        <4>2. b = a
          BY <2>2, <4>1, FrameIs
        <4>3. ~Named(y)
          BY <2>1, <3>3, NamedBefore
        <4> QED
          BY <4>1, <4>2, <4>3
      <3> QED
        BY <3>2, <3>3
    <2> QED
      BY <2>2, <2>4 DEF b, y
  <1>5. n \in S
    <2> HIDE DEF S
    <2>1. 0 .. n \subseteq S
      BY <1>2, <1>3, <1>4, UpTo
    <2> QED
      BY <1>2, <2>1
  <1>6. V(n) = w \o events
    BY WithGrows
  <1>7. Good(t, n)
    BY <1>5
  <1> QED
    BY <1>2, <1>6, <1>7

\* The type of a turn after a chunk.
LEMMA GatheredTyped ==
    ASSUME NEW o \in Turn, NEW events \in Seq(Events)
    PROVE  Gathered(o, events) \in Turn
  <1>1. PICK t : OutputRun(t, o, events)
    BY OutputRuns
  <1>2. Len(events) \in 0 .. Len(events)
    OBVIOUS
  <1> QED
    BY <1>1, <1>2 DEF OutputRun

\* The generation the output is of is the one of the events.
LEMMA GenerationsAgree ==
    ASSUME NEW events \in Seq(Events), NEW d \in DecoderType, NEW o \in Turn,
           o.generation \in {None, d.generation}, ~Decoded(d, events).failed
    PROVE  /\ Gathered(o, events).generation \in {None, Decoded(d, events).generation}
           /\ o.generation # None => Gathered(o, events).generation # None
  <1> DEFINE n == Len(events)
             Good(t, r, i) == ~t[i].failed => /\ r[i].generation \in {None, t[i].generation}
                                              /\ o.generation # None => r[i].generation # None
  <1>1. PICK t : DecoderRun(t, d, events)
    BY DecoderRuns
  <1>2. PICK r : OutputRun(r, o, events)
    BY OutputRuns
  <1>3. /\ n \in Nat /\ t \in [0 .. n -> DecoderType] /\ t[0] = d
        /\ r \in [0 .. n -> Turn] /\ r[0] = o
        /\ \A i \in 1 .. n : /\ t[i] = StreamEvent(t[i - 1], events[i])
                             /\ r[i] = OutputFrame(r[i - 1], events[i])
                             /\ events[i] \in Events
        /\ Decoded(d, events) = t[n] /\ Gathered(o, events) = r[n]
    BY <1>1, <1>2 DEF DecoderRun, OutputRun
  <1> DEFINE S == {i \in 0 .. n : Good(t, r, i)}
  <1>4. 0 \in S
    BY <1>3
  <1>5. ASSUME NEW i \in 1 .. n, i - 1 \in S PROVE i \in S
    <2> DEFINE e == events[i]
               a == t[i - 1]
               b == t[i]
               x == r[i - 1]
               y == r[i]
    <2>1. i - 1 \in 0 .. n /\ i \in 0 .. n
      BY <1>3
    <2>2. /\ a \in DecoderType /\ x \in Turn /\ b = StreamEvent(a, e) /\ y = OutputFrame(x, e)
          /\ e \in Events
      BY <1>3, <2>1
    <2>3. ~a.failed => /\ x.generation \in {None, a.generation}
                       /\ o.generation # None => x.generation # None
      BY <1>5
    <2> HIDE DEF e, a, b, x, y
    <2>4. ASSUME ~b.failed
          PROVE  /\ y.generation \in {None, b.generation}
                 /\ o.generation # None => y.generation # None
      <3>1. ~a.failed /\ a.generation \in {None, b.generation}
        BY <2>2, <2>4, StreamKept
      <3>2. Acceptable(a, e)
        <4>1. ~Acceptable(a, e) => b = [a EXCEPT !.failed = TRUE]
          BY <2>2 DEF StreamEvent
        <4> QED
          BY <2>2, <2>4, <4>1 DEF DecoderType
      <3>3. CASE ~IsChunk(e) \/ x.failed
        <4>1. y = x
          BY <2>2, <3>3, FrameIs
        <4> QED
          BY <2>3, <3>1, <4>1
      <3>4. CASE IsChunk(e) /\ ~x.failed
        <4>1. e.type = "chunk" /\ e.id # None
          BY <2>2, <3>4, EventIs DEF IsChunk
        <4>2. b = [a EXCEPT !.generation = e.id,
                            !.finish = IF @ = None THEN e.finish ELSE @,
                            !.usage = @ \/ e.usage # None]
          BY <2>2, <3>1, <3>2, <4>1 DEF StreamEvent
        <4>3. b.generation = e.id
          BY <2>2, <4>2 DEF DecoderType
        <4>4. y.generation = e.id
          <5>1. Seen(x, e) \in Turn /\ Seen(x, e).generation = e.id
            BY <2>2, SeenTyped
          <5>2. CASE e.call = None
            BY <2>2, <3>4, <5>1, <5>2, FrameIs
          <5>3. CASE e.call # None /\ ~SameCall(HeldAt(x, e.call.index), e.call)
            <6>1. y = [Seen(x, e) EXCEPT !.failed = TRUE]
              BY <2>2, <3>4, <5>3, FrameIs
            <6> QED
              BY <5>1, <6>1 DEF Turn
          <5>4. CASE e.call # None /\ SameCall(HeldAt(x, e.call.index), e.call)
            <6>1. y = WithCall(Seen(x, e), e.call.index, Joined(x, e.call))
              BY <2>2, <3>4, <5>4, FrameIs
            <6> QED
              BY <5>1, <6>1 DEF Turn, WithCall
          <5> QED
            BY <5>2, <5>3, <5>4
        <4> QED
          BY <4>1, <4>3, <4>4
      <3> QED
        BY <3>3, <3>4
    <2> QED
      BY <2>1, <2>4 DEF b, y
  <1>6. n \in S
    <2> HIDE DEF S
    <2>1. 0 .. n \subseteq S
      BY <1>3, <1>4, <1>5, UpTo
    <2> QED
      BY <1>3, <2>1
  <1>7. Good(t, r, n)
    BY <1>6
  <1> QED
    BY <1>3, <1>7

\* A generation is kept also when the chunk it came with is refused.
LEMMA GenerationKept ==
    ASSUME NEW events \in Seq(Events), NEW d \in DecoderType
    PROVE  Decoded(d, events) \in DecoderType /\ d.generation \in {None, Decoded(d, events).generation}
  <1> DEFINE n == Len(events)
  <1>1. PICK t : DecoderRun(t, d, events)
    BY DecoderRuns
  <1>2. /\ n \in Nat /\ t \in [0 .. n -> DecoderType] /\ t[0] = d
        /\ \A i \in 1 .. n : t[i] = StreamEvent(t[i - 1], events[i]) /\ events[i] \in Events
        /\ Decoded(d, events) = t[n]
    BY <1>1 DEF DecoderRun
  <1> DEFINE S == {i \in 0 .. n : d.generation \in {None, t[i].generation}}
  <1>3. 0 \in S
    BY <1>2
  <1>4. ASSUME NEW i \in 1 .. n, i - 1 \in S PROVE i \in S
    <2>1. i - 1 \in 0 .. n /\ i \in 0 .. n
      BY <1>2
    <2>2. t[i - 1] \in DecoderType /\ t[i] = StreamEvent(t[i - 1], events[i]) /\ events[i] \in Events
      BY <1>2, <2>1
    <2>3. t[i - 1].generation \in {None, t[i].generation}
      BY <2>2, StreamKept
    <2> QED
      BY <1>4, <2>1, <2>3
  <1>5. n \in S
    <2> HIDE DEF S
    <2>1. 0 .. n \subseteq S
      BY <1>2, <1>3, <1>4, UpTo
    <2> QED
      BY <1>2, <2>1
  <1> QED
    BY <1>2, <1>5

\* The texts of a stream are those it had and those of the chunk.
LEMMA TextsCounted ==
    ASSUME NEW w \in Seq(Events), NEW events \in Seq(Events)
    PROVE  /\ IsFiniteSet(DOMAIN TextOf(w)) /\ Cardinality(DOMAIN TextOf(w)) \in 0 .. Len(w)
           /\ Cardinality(DOMAIN TextOf(w \o events)) =
                 Cardinality(DOMAIN TextOf(w)) + Cardinality({i \in DOMAIN events : HasText(events[i])})
  <1> DEFINE n == Len(events)
             E(i) == {j \in 1 .. i : HasText(events[j])}
             T(i) == DOMAIN TextOf(With(w, events, i))
             S == {i \in 0 .. n : /\ IsFiniteSet(E(i)) /\ IsFiniteSet(T(i))
                                  /\ Cardinality(T(i)) = Cardinality(T(0)) + Cardinality(E(i))}
  <1>1. n \in Nat /\ DOMAIN events = 1 .. n
    OBVIOUS
  <1>2. /\ IsFiniteSet(DOMAIN TextOf(w)) /\ Cardinality(DOMAIN TextOf(w)) \in 0 .. Len(w)
    <2>1. DOMAIN TextOf(w) \subseteq 1 .. Len(w) /\ Len(w) \in Nat
      BY DEF TextOf
    <2>2. IsFiniteSet(1 .. Len(w)) /\ Cardinality(1 .. Len(w)) = Len(w)
      <3>1. 1 \in Int /\ Len(w) \in Int /\ (1 > Len(w) => Len(w) = 0) /\ Len(w) - 1 + 1 = Len(w)
        BY <2>1
      <3>2. /\ IsFiniteSet(1 .. Len(w))
            /\ Cardinality(1 .. Len(w)) = IF 1 > Len(w) THEN 0 ELSE Len(w) - 1 + 1
        BY <3>1, FS_Interval
      <3> QED
        BY <3>1, <3>2
    <2> QED
      BY <2>1, <2>2, FS_Subset, FS_CardinalityType
  <1>3. T(0) = DOMAIN TextOf(w) /\ T(n) = DOMAIN TextOf(w \o events)
    BY WithGrows
  <1>4. 0 \in S
    <2>1. E(0) = {}
      OBVIOUS
    <2>2. IsFiniteSet(T(0)) /\ Cardinality(T(0)) \in Nat
      BY <1>2, <1>3
    <2>3. IsFiniteSet(E(0)) /\ Cardinality(E(0)) = 0
      <3> HIDE DEF E
      <3> QED
        BY <2>1, FS_EmptySet
    <2>4. Cardinality(T(0)) = Cardinality(T(0)) + Cardinality(E(0))
      <3> HIDE DEF E, T
      <3> QED
        BY <2>2, <2>3
    <2> QED
      BY <1>1, <2>2, <2>3, <2>4
  <1>5. ASSUME NEW i \in 1 .. n, i - 1 \in S PROVE i \in S
    <2> DEFINE x == With(w, events, i - 1)
               y == With(w, events, i)
    <2>1. Longer(x, y, events[i])
      BY WithGrows
    <2>2. i - 1 \in 0 .. n /\ i \in 0 .. n /\ i \notin 1 .. (i - 1) /\ 1 .. i = (1 .. (i - 1)) \cup {i}
      BY <1>1
    <2>3. /\ IsFiniteSet(E(i - 1)) /\ IsFiniteSet(T(i - 1))
          /\ Cardinality(T(i - 1)) = Cardinality(T(0)) + Cardinality(E(i - 1))
      BY <1>5
    <2>4. Cardinality(T(0)) \in Nat /\ Cardinality(T(i - 1)) \in Nat /\ Cardinality(E(i - 1)) \in Nat
      <3>1. IsFiniteSet(T(0))
        BY <1>2, <1>3
      <3> HIDE DEF E, T
      <3> QED
        BY <2>3, <3>1, FS_CardinalityType
    <2>5. CASE ~HasText(events[i])
      <3>1. E(i) = E(i - 1)
        BY <2>2, <2>5
      <3>2. T(i) = T(i - 1)
        BY <2>1, <2>5, TextGrows, ZenonT(30)
      <3> HIDE DEF E, T
      <3> QED
        BY <2>2, <2>3, <3>1, <3>2
    <2>6. CASE HasText(events[i])
      <3>1. E(i) = E(i - 1) \cup {i} /\ i \notin E(i - 1)
        BY <2>2, <2>6
      <3>2. T(i) = T(i - 1) \cup {Len(y)} /\ Len(y) \notin T(i - 1)
        <4>1. T(i) = T(i - 1) \cup {Len(y)}
          BY <2>1, <2>6, TextGrows
        <4>2. Len(y) \notin DOMAIN x
          BY <2>1, PlacesAre DEF Places
        <4> HIDE DEF x
        <4>3. DOMAIN TextOf(x) \subseteq DOMAIN x
          BY DEF TextOf
        <4> QED
          BY <4>1, <4>2, <4>3 DEF x
      <3> HIDE DEF E, T, y
      <3>3. /\ IsFiniteSet(E(i)) /\ Cardinality(E(i)) = Cardinality(E(i - 1)) + 1
            /\ IsFiniteSet(T(i)) /\ Cardinality(T(i)) = Cardinality(T(i - 1)) + 1
        <4>1. IsFiniteSet(E(i)) /\ Cardinality(E(i)) = Cardinality(E(i - 1)) + 1
          BY <2>3, <3>1, OneMore
        <4>2. IsFiniteSet(T(i)) /\ Cardinality(T(i)) = Cardinality(T(i - 1)) + 1
          BY <2>3, <3>2, OneMore
        <4> QED
          BY <4>1, <4>2
      <3>4. Cardinality(T(i)) = Cardinality(T(0)) + Cardinality(E(i))
        BY <2>3, <2>4, <3>3
      <3> QED
        BY <2>2, <3>3, <3>4
    <2> QED
      BY <2>5, <2>6
  <1>6. n \in S
    <2> HIDE DEF S
    <2>1. 0 .. n \subseteq S
      BY <1>1, <1>4, <1>5, UpTo
    <2> QED
      BY <1>1, <2>1
  <1>7. Cardinality(T(n)) = Cardinality(T(0)) + Cardinality(E(n))
    BY <1>6
  <1>8. E(n) = {i \in DOMAIN events : HasText(events[i])}
    BY <1>1
  <1> HIDE DEF E, T
  <1> QED
    BY <1>2, <1>3, <1>7, <1>8

-----------------------------------------------------------------------------
(* A turn and the stream it was read from. *)

\* A stream has finitely many calls.
LEMMA IndicesFinite ==
    ASSUME NEW w \in Seq(Events)
    PROVE  IsFiniteSet(Indices(w)) /\ Indices(w) \in SUBSET Nat
  <1> DEFINE S == CallsOf(w)
             T == Indices(w)
             f == [i \in S |-> w[i].call.index]
  <1>1. S \subseteq 1 .. Len(w) /\ Len(w) \in Nat
    BY PlacesIn
  <1>2. IsFiniteSet(S)
    <2>1. IsFiniteSet(1 .. Len(w))
      BY <1>1, FS_Interval
    <2> QED
      BY <1>1, <2>1, FS_Subset
  <1>3. f \in Surjection(S, T)
    BY DEF Indices, Surjection
  <1>4. IsFiniteSet(T)
    <2> HIDE DEF S, T, f
    <2> QED
      BY <1>2, <1>3, FS_Surjection
  <1>5. \A i \in S : w[i].call.index \in Nat
    <2> TAKE i \in S
    <2>1. w[i] \in Events /\ w[i].call # None
      BY PlacesIn DEF CallsOf
    <2>2. w[i].call \in Call
      BY <2>1, EventIs
    <2> QED
      BY <2>2 DEF Call
  <1>6. T \in SUBSET Nat
    BY <1>5 DEF Indices
  <1> QED
    BY <1>4, <1>6

\* The ids of the calls, in their order, and those of the events.
LEMMA IdsAreNames ==
    ASSUME NEW w \in Seq(Events), NEW o \in Turn, SumsUp(o, w), Contiguous(o),
           \A n \in DOMAIN o.calls : o.calls[n].id # None
    PROVE  ReturnedUnseen(CallIdsOf(o)) <=>
              \A n \in Indices(w) :
                  /\ NamesOf(w, n) \cap ReadConversation(conversation).seen = {}
                  /\ \A m \in Indices(w) \ {n} : NamesOf(w, n) \cap NamesOf(w, m) = {}
  <1> DEFINE S == DOMAIN o.calls
             c == Cardinality(S)
             ids == CallIdsOf(o)
             seen == ReadConversation(conversation).seen
             id(n) == o.calls[n].id
  <1>1. S = Indices(w) /\ S \in SUBSET Nat /\ IsFiniteSet(S)
    BY IndicesFinite DEF SumsUp
  <1>2. c \in Nat
    BY <1>1, FS_CardinalityType
  <1>3. S = 0 .. c - 1
    BY DEF Contiguous
  <1>4. \A n \in S : NamesOf(w, n) = {id(n)}
    <2> TAKE n \in S
    <2>1. n \in Nat
      BY <1>1
    <2>2. NamesOf(w, n) = {HeldAt(o, n).id} \ {None}
      BY <2>1 DEF SumsUp, CallHolds
    <2>3. HeldAt(o, n) = o.calls[n]
      BY DEF HeldAt
    <2> QED
      BY <2>2, <2>3
  <1>5. ids = [i \in 1 .. c |-> id(i - 1)]
    BY DEF CallIdsOf
  <1> HIDE DEF S, c, ids, seen, id
  <1>6. \A i \in 1 .. c : i - 1 \in S /\ ids[i] = id(i - 1)
    BY <1>2, <1>3, <1>5
  <1>7. \A n \in S : n + 1 \in 1 .. c /\ (n + 1) - 1 = n /\ ids[n + 1] = id(n)
    <2> TAKE n \in S
    <2>1. n + 1 \in 1 .. c /\ (n + 1) - 1 = n
      BY <1>2, <1>3
    <2> QED
      BY <1>5, <2>1
  <1>8. DOMAIN ids = 1 .. c
    BY <1>5
  <1>9. ToSet(ids) = {id(n) : n \in S}
    BY <1>6, <1>7, <1>8 DEF ToSet
  <1>10. Distinct(ids) <=> \A m, n \in S : id(m) = id(n) => m = n
    <2>1. ASSUME Distinct(ids), NEW m \in S, NEW n \in S, id(m) = id(n) PROVE m = n
      <3>1. m + 1 \in DOMAIN ids /\ n + 1 \in DOMAIN ids /\ ids[m + 1] = ids[n + 1]
        BY <1>7, <1>8, <2>1
      <3>2. m + 1 = n + 1
        BY <2>1, <3>1 DEF Distinct
      <3> QED
        BY <1>7, <3>2
    <2>2. ASSUME \A m, n \in S : id(m) = id(n) => m = n,
                 NEW i \in DOMAIN ids, NEW j \in DOMAIN ids, ids[i] = ids[j]
          PROVE  i = j
      <3>1. i \in 1 .. c /\ j \in 1 .. c
        BY <1>8
      <3>2. i - 1 \in S /\ j - 1 \in S /\ id(i - 1) = id(j - 1)
        BY <1>6, <2>2, <3>1
      <3>3. i - 1 = j - 1
        BY <2>2, <3>2
      <3> QED
        BY <1>2, <3>1, <3>3
    <2> QED
      BY <2>1, <2>2 DEF Distinct
  <1>11. ReturnedUnseen(ids) <=> Distinct(ids) /\ ToSet(ids) \cap seen = {}
    BY DEF ReturnedUnseen, seen
  <1>12. ToSet(ids) \cap seen = {} <=> \A n \in S : NamesOf(w, n) \cap seen = {}
    BY <1>4, <1>9
  <1>13. (\A m, n \in S : id(m) = id(n) => m = n)
            <=> \A n \in S : \A m \in S \ {n} : NamesOf(w, n) \cap NamesOf(w, m) = {}
    BY <1>4, SMTT(30)
  <1>14. ReturnedUnseen(ids) <=>
            \A n \in S : /\ NamesOf(w, n) \cap seen = {}
                         /\ \A m \in S \ {n} : NamesOf(w, n) \cap NamesOf(w, m) = {}
    BY <1>10, <1>11, <1>12, <1>13
  <1> QED
    BY <1>1, <1>14 DEF ids, seen

\* The turn that was decoded is valid if and only if the stream is complete.
LEMMA ValidIsComplete ==
    ASSUME NEW w \in Seq(Events), NEW d \in DecoderType, NEW o \in Turn,
           Ordered(w), Remembers(d, w), SumsUp(o, w)
    PROVE  ValidTurn(o, d) <=> Complete(w)
  <1> DEFINE seen == ReadConversation(conversation).seen
  <1>1. ~o.failed /\ (d.done <=> DonesOf(w) # {}) /\ DOMAIN o.calls = Indices(w)
    BY DEF SumsUp, Remembers
  <1>2. CASE DonesOf(w) = {}
    BY <1>1, <1>2 DEF ValidTurn, Complete
  <1>3. CASE DonesOf(w) # {}
    <2>1. UsagesOf(w) # {} /\ EndsOf(w) # {}
      BY <1>3 DEF Ordered
    <2>2. (\A i \in UsagesOf(w) : w[i].usage = o.usage) /\ (\A i \in EndsOf(w) : w[i].finish = o.finish)
      BY <2>1 DEF SumsUp
    <2>3. (\A i \in UsagesOf(w) : w[i].usage <= Reserve) <=> o.usage <= Reserve
      BY <2>1, <2>2
    <2>4. o.finish # "length"
      BY <2>1, <2>2 DEF Ordered
    <2>5. o.text # "none" <=> DOMAIN TextOf(w) # {}
      BY DEF SumsUp, Holds
    <2>6. o.text = "whole" <=> Whole(TextOf(w))
      BY DEF SumsUp, Holds
    <2>7. ASSUME NEW n \in Indices(w)
          PROVE  /\ o.calls[n].arguments = "whole" <=> Whole(ArgumentsOf(w, n))
                 /\ o.calls[n].id # None <=> NamesOf(w, n) # {}
      <3>1. n \in Nat /\ HeldAt(o, n) = o.calls[n]
        BY <1>1, IndicesFinite DEF HeldAt
      <3>2. CallHolds(o, w, n)
        BY <3>1 DEF SumsUp
      <3> QED
        BY <3>1, <3>2 DEF CallHolds, Holds
    <2>8. Contiguous(o) <=> \A n \in Indices(w) : 0 .. n \subseteq Indices(w)
      BY <1>1, IndicesFinite, NoGapIsInterval DEF Contiguous
    <2> DEFINE Fits == o.usage <= Reserve
               Said1 == Indices(w) = {} /\ DOMAIN TextOf(w) # {} /\ (HasSchema => Whole(TextOf(w)))
               Called1 == /\ Indices(w) # {} /\ \A n \in Indices(w) : 0 .. n \subseteq Indices(w)
                          /\ \A n \in Indices(w) :
                                /\ NamesOf(w, n) # {} /\ Whole(ArgumentsOf(w, n))
                                /\ NamesOf(w, n) \cap seen = {}
                                /\ \A m \in Indices(w) \ {n} : NamesOf(w, n) \cap NamesOf(w, m) = {}
    <2>9. Complete(w) <=> Fits /\ \/ o.finish = "stop" /\ Said1
                                  \/ o.finish = "tool_calls" /\ Called1
      <3>1. Complete(w) <=>
               /\ \A i \in UsagesOf(w) : w[i].usage <= Reserve
               /\ \A i \in EndsOf(w) : \/ w[i].finish = "stop" /\ Said1
                                       \/ w[i].finish = "tool_calls" /\ Called1
        BY <1>3 DEF Complete
      <3> HIDE DEF Said1, Called1
      <3>2. (\A i \in EndsOf(w) : \/ w[i].finish = "stop" /\ Said1
                                  \/ w[i].finish = "tool_calls" /\ Called1)
               <=> (o.finish = "stop" /\ Said1) \/ (o.finish = "tool_calls" /\ Called1)
        BY <2>1, <2>2
      <3> QED
        BY <2>3, <3>1, <3>2
    <2>10. CASE o.finish = "stop"
      <3>1. ValidTurn(o, d) <=>
               /\ Fits /\ Contiguous(o) /\ (\A n \in Indices(w) : o.calls[n].id # None)
               /\ Indices(w) = {} /\ o.text # "none" /\ (HasSchema => o.text = "whole")
        BY <1>1, <1>3, <2>10 DEF ValidTurn, FitsSchema
      <3>2. ValidTurn(o, d) <=> Fits /\ Said1
        BY <2>5, <2>6, <2>8, <3>1
      <3> QED
        BY <2>9, <2>10, <3>2
    <2>11. CASE o.finish = "tool_calls"
      <3>1. ValidTurn(o, d) <=>
               /\ Fits /\ Contiguous(o) /\ (\A n \in Indices(w) : o.calls[n].id # None)
               /\ Indices(w) # {} /\ ReturnedUnseen(CallIdsOf(o))
               /\ \A n \in Indices(w) : o.calls[n].arguments = "whole"
        BY <1>1, <1>3, <2>11 DEF ValidTurn, FitsSchema
      <3>2. ASSUME Contiguous(o), \A n \in Indices(w) : o.calls[n].id # None
            PROVE  ReturnedUnseen(CallIdsOf(o)) <=>
                      \A n \in Indices(w) :
                          /\ NamesOf(w, n) \cap seen = {}
                          /\ \A m \in Indices(w) \ {n} : NamesOf(w, n) \cap NamesOf(w, m) = {}
        BY <1>1, <3>2, IdsAreNames
      <3>3. (\A n \in Indices(w) : o.calls[n].id # None) <=> \A n \in Indices(w) : NamesOf(w, n) # {}
        BY <2>7
      <3>4. (\A n \in Indices(w) : o.calls[n].arguments = "whole")
               <=> \A n \in Indices(w) : Whole(ArgumentsOf(w, n))
        BY <2>7
      <3> HIDE DEF Fits, seen
      <3>5. ValidTurn(o, d) <=> Fits /\ Called1
        <4>1. ASSUME ValidTurn(o, d) PROVE Fits /\ Called1
          BY <2>8, <3>1, <3>2, <3>3, <3>4, <4>1
        <4>2. ASSUME Fits, Called1 PROVE ValidTurn(o, d)
          BY <2>8, <3>1, <3>2, <3>3, <3>4, <4>2
        <4> QED
          BY <4>1, <4>2
      <3> QED
        BY <2>9, <2>11, <3>5 DEF Fits, seen
    <2>12. CASE o.finish # "stop" /\ o.finish # "tool_calls"
      BY <2>9, <2>12 DEF ValidTurn
    <2> QED
      BY <2>10, <2>11, <2>12
  <1> QED
    BY <1>2, <1>3

-----------------------------------------------------------------------------
(* The conversation with a turn and its answers. *)

\* A conversation is read in one way.
LEMMA ReadingOnce ==
    ASSUME NEW check \in Check, NEW messages \in Seq(Message), NEW t,
           t[0] = check,
           \A i \in 1 .. Len(messages) : t[i] = ReadMessage(t[i - 1], messages[i])
    PROVE  Reading(check, messages) = t[Len(messages)]
  <1> DEFINE n == Len(messages)
  <1>1. PICK r : ReadingRun(r, check, messages)
    BY ReadingRuns
  <1>2. /\ n \in Nat /\ r[0] = check /\ Reading(check, messages) = r[n]
        /\ \A i \in 1 .. n : r[i] = ReadMessage(r[i - 1], messages[i])
    BY <1>1 DEF ReadingRun
  <1> DEFINE S == {i \in 0 .. n : r[i] = t[i]}
  <1>3. 0 \in S
    BY <1>2
  <1>4. ASSUME NEW i \in 1 .. n, i - 1 \in S PROVE i \in S
    <2>1. r[i] = ReadMessage(r[i - 1], messages[i]) /\ t[i] = ReadMessage(t[i - 1], messages[i])
          /\ r[i - 1] = t[i - 1]
      BY <1>2, <1>4
    <2>2. i \in 0 .. n
      BY <1>2
    <2>3. r[i] = t[i]
      BY <2>1
    <2> QED
      BY <2>2, <2>3
  <1>5. n \in S
    <2> HIDE DEF S
    <2>1. 0 .. n \subseteq S
      BY <1>2, <1>3, <1>4, UpTo
    <2> QED
      BY <1>2, <2>1
  <1> QED
    BY <1>2, <1>5

\* The type of what has been checked of a conversation.
LEMMA ReadingTyped ==
    ASSUME NEW check \in Check, NEW messages \in Seq(Message)
    PROVE  Reading(check, messages) \in Check
  <1>1. PICK t : ReadingRun(t, check, messages)
    BY ReadingRuns
  <1>2. Len(messages) \in 0 .. Len(messages)
    OBVIOUS
  <1> QED
    BY <1>1, <1>2 DEF ReadingRun

\* Reading goes on where it was.
LEMMA ReadingGoesOn ==
    ASSUME NEW check \in Check, NEW first \in Seq(Message), NEW rest \in Seq(Message)
    PROVE  Reading(check, first \o rest) = Reading(Reading(check, first), rest)
  <1> DEFINE all == first \o rest
             m == Len(first)
             n == Len(rest)
  <1>1. all \in Seq(Message) /\ Len(all) = m + n /\ m \in Nat /\ n \in Nat
    OBVIOUS
  <1>2. \A i \in 1 .. m : all[i] = first[i]
    OBVIOUS
  <1>3. \A i \in 1 .. n : all[m + i] = rest[i]
    OBVIOUS
  <1>4. PICK t : ReadingRun(t, check, all)
    BY <1>1, ReadingRuns
  <1>5. /\ t[0] = check /\ Reading(check, all) = t[m + n]
        /\ \A i \in 1 .. m + n : t[i] = ReadMessage(t[i - 1], all[i])
    BY <1>1, <1>4 DEF ReadingRun
  <1> HIDE DEF all, m, n
  <1>6. Reading(check, first) = t[m]
    <2>1. \A i \in 1 .. m : t[i] = ReadMessage(t[i - 1], first[i])
      <3> TAKE i \in 1 .. m
      <3>1. i \in 1 .. m + n /\ all[i] = first[i]
        BY <1>1, <1>2
      <3> QED
        BY <1>5, <3>1
    <2> QED
      BY <1>5, <2>1, ReadingOnce DEF m
  <1> DEFINE r == [i \in 0 .. n |-> t[m + i]]
  <1>7. r[0] = t[m] /\ r[n] = t[m + n]
    <2>1. 0 \in 0 .. n /\ n \in 0 .. n /\ m + 0 = m
      BY <1>1
    <2> QED
      BY <2>1
  <1>8. \A i \in 1 .. n : r[i] = ReadMessage(r[i - 1], rest[i])
    <2> TAKE i \in 1 .. n
    <2>1. i \in 0 .. n /\ i - 1 \in 0 .. n /\ m + i \in 1 .. m + n /\ m + (i - 1) = (m + i) - 1
      BY <1>1
    <2>2. t[m + i] = ReadMessage(t[(m + i) - 1], all[m + i]) /\ all[m + i] = rest[i]
      BY <1>3, <1>5, <2>1
    <2> QED
      BY <2>1, <2>2
  <1> HIDE DEF r
  <1>9. Reading(check, first) \in Check
    BY ReadingTyped
  <1>10. Reading(Reading(check, first), rest) = r[n]
    <2>1. r[0] = Reading(check, first)
      BY <1>6, <1>7
    <2> QED
      BY <1>8, <1>9, <2>1, ReadingOnce DEF n
  <1> QED
    BY <1>5, <1>7, <1>10 DEF all

\* What is checked of nothing.
Begun == [valid |-> TRUE, seen |-> {}, pending |-> {}]

\* A conversation that has a message is read from there.
LEMMA ReadFromBegin ==
    ASSUME NEW messages, messages # <<>>
    PROVE  ReadConversation(messages) = Reading(Begun, messages)
  <1>1. (messages # <<>>) = TRUE
    OBVIOUS
  <1> QED
    BY <1>1, Zenon DEF ReadConversation, Reading, Begun

\* A conversation without a message is not valid.
LEMMA ValidIsSomething == ~ValidConversation(<<>>)
  <1> DEFINE check == [valid |-> FALSE, seen |-> {}, pending |-> {}]
             empty == <<>>
             said == empty # <<>>
  <1>1. said = FALSE
    OBVIOUS
  <1>2. ReadConversation(<<>>) = Reading([valid |-> said, seen |-> {}, pending |-> {}], <<>>)
    BY Zenon DEF ReadConversation, Reading
  <1>3. Reading(check, <<>>) = check
    <2>1. check \in Check /\ <<>> \in Seq(Message) /\ Len(<<>>) = 0
      BY DEF Check
    <2> DEFINE t == [i \in {0} |-> check]
    <2>2. t[0] = check /\ \A i \in 1 .. Len(<<>>) : t[i] = ReadMessage(t[i - 1], <<>>[i])
      BY <2>1
    <2> HIDE DEF check, t
    <2>3. Reading(check, <<>>) = t[Len(<<>>)]
      BY <2>1, <2>2, ReadingOnce
    <2> QED
      BY <2>1, <2>2, <2>3
  <1>4. ReadConversation(<<>>) = check
    BY <1>1, <1>2, <1>3
  <1> QED
    BY <1>4 DEF ValidConversation

\* The calls of a turn can be answered in any order.
LEMMA AnswersAccepted ==
    ASSUME NEW q \in Check, q.valid, NEW S, IsFiniteSet(S), S \subseteq CallIds, q.pending = S,
           NEW order \in SetToSeqs(S),
           NEW answers, answers = [i \in DOMAIN order |-> Answered(order[i])]
    PROVE  /\ answers \in Seq(Message)
           /\ Reading(q, answers).valid /\ Reading(q, answers).pending = {}
  <1> DEFINE n == Cardinality(S)
             D == 1 .. n
  <1>1. n \in Nat
    BY FS_CardinalityType
  <1>2. order \in [D -> S] /\ \A i, j \in D : i # j => order[i] # order[j]
    BY DEF SetToSeqs
  <1> HIDE DEF n
  <1>3. answers \in [D -> Message] /\ \A i \in D : answers[i] = Answered(order[i])
    <2>1. DOMAIN order = D /\ \A i \in D : order[i] \in CallIds
      BY <1>2
    <2>2. \A i \in D : Answered(order[i]) \in Message
      BY <2>1 DEF Answered, Message
    <2> QED
      BY <2>1, <2>2
  <1>4. answers \in Seq(Message) /\ Len(answers) = n
    BY <1>1, <1>3
  <1>5. PICK t : ReadingRun(t, q, answers)
    BY <1>4, ReadingRuns
  <1>6. /\ t \in [0 .. n -> Check] /\ t[0] = q /\ Reading(q, answers) = t[n]
        /\ \A i \in D : t[i] = ReadMessage(t[i - 1], answers[i])
    BY <1>4, <1>5 DEF ReadingRun
  <1> DEFINE G == {i \in 0 .. n : t[i].valid /\ t[i].pending = S \ {order[j] : j \in 1 .. i}}
  <1>7. 0 \in G
    <2>1. {order[j] : j \in 1 .. 0} = {}
      OBVIOUS
    <2> QED
      BY <1>1, <1>6, <2>1
  <1>8. ASSUME NEW i \in 1 .. n, i - 1 \in G PROVE i \in G
    <2> DEFINE a == t[i - 1]
               x == order[i]
               done == {order[j] : j \in 1 .. (i - 1)}
    <2>1. i \in D /\ i \in 0 .. n /\ i - 1 \in 0 .. n /\ 1 .. i = (1 .. (i - 1)) \cup {i}
          /\ 1 .. (i - 1) \subseteq D /\ i \notin 1 .. (i - 1)
      BY <1>1
    <2>2. a.valid /\ a.pending = S \ done /\ a \in Check
      BY <1>6, <1>8, <2>1
    <2>3. t[i] = ReadMessage(a, Answered(x))
      BY <1>3, <1>6, <2>1
    <2>4. x \in S /\ x \notin done
      BY <1>2, <2>1
    <2>5. {order[j] : j \in 1 .. i} = done \cup {x}
      BY <2>1
    <2> HIDE DEF a, x, done
    <2>6. ReadMessage(a, Answered(x)) = [a EXCEPT !.valid = @ /\ x \in a.pending,
                                                 !.pending = @ \ {x}]
      BY DEF ReadMessage, Answered
    <2>7. t[i].valid /\ t[i].pending = (S \ done) \ {x}
      BY <2>2, <2>3, <2>4, <2>6 DEF Check
    <2> QED
      BY <2>1, <2>5, <2>7
  <1>9. n \in G
    <2> HIDE DEF G
    <2>1. 0 .. n \subseteq G
      BY <1>1, <1>7, <1>8, UpTo
    <2> QED
      BY <1>1, <2>1
  <1>10. \A s \in S : \E j \in D : order[j] = s
    <2>1. order \in Injection(D, S)
      <3>1. \A i, j \in D : order[i] = order[j] => i = j
        BY <1>2
      <3> QED
        BY <1>2, <3>1 DEF Injection, IsInjective
    <2>2. IsFiniteSet(D) /\ Cardinality(D) = n
      <3>1. 1 \in Int /\ n \in Int /\ (1 > n => n = 0) /\ n - 1 + 1 = n
        BY <1>1
      <3>2. IsFiniteSet(1 .. n) /\ Cardinality(1 .. n) = IF 1 > n THEN 0 ELSE n - 1 + 1
        BY <3>1, FS_Interval
      <3> QED
        BY <3>1, <3>2
    <2>3. order \in Surjection(D, S)
      <3> HIDE DEF D
      <3> QED
        BY <2>1, <2>2, FS_Injection DEF n
    <2> QED
      BY <2>3 DEF Surjection
  <1>11. S \ {order[j] : j \in 1 .. n} = {}
    BY <1>10
  <1> QED
    BY <1>4, <1>6, <1>9, <1>11

\* A valid conversation goes on with a turn whose calls are new and their answers.
LEMMA ContinuationIsValid ==
    ASSUME NEW c \in Seq(Message), ValidConversation(c),
           NEW ids \in Seq(CallIds), ids # <<>>, Distinct(ids),
           ToSet(ids) \cap ReadConversation(c).seen = {}, NEW order \in SetToSeqs(ToSet(ids))
    PROVE  ValidConversation(c \o <<Called(ids)>> \o [i \in DOMAIN order |-> Answered(order[i])])
  <1> DEFINE answers == [i \in DOMAIN order |-> Answered(order[i])]
             call == <<Called(ids)>>
             S == ToSet(ids)
             r == ReadConversation(c)
             q == Reading(r, call)
             all == c \o call \o answers
  <1>1. c # <<>>
    BY ValidIsSomething
  <1>2. Begun \in Check
    BY DEF Begun, Check
  <1>3. r = Reading(Begun, c) /\ r \in Check
    BY <1>1, <1>2, ReadFromBegin, ReadingTyped
  <1>4. r.valid /\ r.pending = {}
    BY DEF ValidConversation
  <1>5. Called(ids) \in Message
    BY DEF Called, Message
  <1>6. call \in Seq(Message) /\ Len(call) = 1 /\ call[1] = Called(ids)
    BY <1>5
  <1>7. S \subseteq CallIds /\ IsFiniteSet(S)
    <2>1. S = {ids[i] : i \in 1 .. Len(ids)} /\ Len(ids) \in Nat /\ ids \in [1 .. Len(ids) -> CallIds]
      BY DEF ToSet
    <2>2. IsFiniteSet(1 .. Len(ids))
      <3>1. 1 \in Int /\ Len(ids) \in Int
        BY <2>1
      <3> QED
        BY <3>1, FS_Interval
    <2>3. ids \in Surjection(1 .. Len(ids), S)
      BY <2>1 DEF Surjection
    <2>4. IsFiniteSet(S)
      <3> HIDE DEF S
      <3> QED
        BY <2>2, <2>3, FS_Surjection
    <2> QED
      BY <2>1, <2>4
  <1>8. q = ReadMessage(r, Called(ids))
    <2> DEFINE t == [i \in 0 .. 1 |-> IF i = 0 THEN r ELSE ReadMessage(r, Called(ids))]
    <2>1. t[0] = r /\ t[1] = ReadMessage(r, Called(ids))
      OBVIOUS
    <2>2. \A i \in 1 .. Len(call) : t[i] = ReadMessage(t[i - 1], call[i])
      <3> TAKE i \in 1 .. Len(call)
      <3>1. i = 1 /\ i - 1 = 0
        BY <1>6
      <3> QED
        BY <1>6, <2>1, <3>1
    <2> HIDE DEF t, call, r
    <2>3. Reading(r, call) = t[Len(call)]
      BY <1>3, <1>6, <2>1, <2>2, ReadingOnce
    <2> QED
      BY <1>6, <2>1, <2>3
  <1>9. q \in Check
    <2> HIDE DEF call, r
    <2> QED
      BY <1>3, <1>6, ReadingTyped
  <1>10. q.valid /\ q.pending = S
    <2>1. S \cap r.seen = {}
      OBVIOUS
    <2> HIDE DEF r, S, q
    <2>2. ReadMessage(r, Called(ids)) =
             [valid |-> /\ r.valid /\ r.pending = {} /\ (FALSE \/ ids # <<>>)
                        /\ Distinct(ids) /\ ToSet(ids) \cap r.seen = {},
              seen |-> r.seen \cup ToSet(ids),
              pending |-> ToSet(ids)]
      BY DEF ReadMessage, Called
    <2>3. (/\ r.valid /\ r.pending = {} /\ (FALSE \/ ids # <<>>)
           /\ Distinct(ids) /\ ToSet(ids) \cap r.seen = {}) = TRUE
      BY <1>4, <2>1 DEF S
    <2>4. q = [valid |-> TRUE, seen |-> r.seen \cup ToSet(ids), pending |-> ToSet(ids)]
      BY <1>8, <2>2, <2>3
    <2> QED
      BY <2>4 DEF S
  <1> HIDE DEF q, answers, S
  <1>11. answers \in Seq(Message) /\ Reading(q, answers).valid /\ Reading(q, answers).pending = {}
    <2>1. order \in SetToSeqs(S) /\ answers = [i \in DOMAIN order |-> Answered(order[i])]
      BY DEF S, answers
    <2> QED
      BY <1>7, <1>9, <1>10, <2>1, AnswersAccepted, SMTT(30)
  <1>12. all # <<>>
    <2> HIDE DEF call
    <2>1. c \o call \in Seq(Message) /\ Len(c \o call) = Len(c) + Len(call)
      <3>1. call \in Seq(Message)
        BY <1>6
      <3> QED
        BY <3>1
    <2>2. Len(all) = Len(c \o call) + Len(answers)
      BY <1>11, <2>1
    <2>3. Len(c) \in Nat /\ Len(answers) \in Nat
      BY <1>11
    <2>4. Len(all) # 0
      BY <1>6, <2>1, <2>2, <2>3
    <2>5. Len(<<>>) = 0
      OBVIOUS
    <2> QED
      BY <2>4, <2>5
  <1>13. Reading(Begun, all) = Reading(q, answers)
    <2> HIDE DEF call, r
    <2>1. Reading(Begun, c \o call) = q
      BY <1>2, <1>3, <1>6, ReadingGoesOn DEF q
    <2>2. c \o call \in Seq(Message)
      BY <1>6
    <2> QED
      BY <1>2, <1>11, <2>1, <2>2, ReadingGoesOn
  <1>14. ReadConversation(all) = Reading(q, answers)
    BY <1>12, <1>13, ReadFromBegin
  <1>15. ValidConversation(all)
    BY <1>11, <1>14 DEF ValidConversation
  <1> QED
    BY <1>15 DEF answers

-----------------------------------------------------------------------------
(* The call with its stream. *)

\* Types, of the decoders as they are between two chunks.
Typed ==
    /\ phase \in Phase
    /\ conversation \in Conversations
    /\ row \in Row \cup {None} /\ cost \in Cost \cup {None}
    /\ fresh \in BOOLEAN /\ lease \in 0 .. MaxLease /\ lapsed \in BOOLEAN
    /\ generation \in Generations \cup {None}
    /\ wire \in Seq(Events) /\ Len(wire) <= MaxEvents
    /\ partial \in BOOLEAN /\ ended \in BOOLEAN
    /\ decoder \in DecoderType /\ output \in Turn
    /\ output.generation \in {None, decoder.generation}
    /\ visible \in 0 .. MaxEvents

\* Nothing is read before the POST is answered.
Blank ==
    phase \in {"asked", "quoted", "refused", "dispatched"} =>
        /\ generation = None /\ wire = <<>> /\ partial = FALSE
        /\ decoder = NewDecoder /\ output = NewOutput /\ visible = 0

\* While the stream is read, the decoders hold what it says, and it is sound.
Reads ==
    phase = "open" =>
        /\ Sound(wire, partial)
        /\ Remembers(decoder, wire) /\ SumsUp(output, wire)
        /\ visible = Cardinality(DOMAIN TextOf(wire))
        /\ output.generation # None => generation = output.generation

\* A stream ends in a verdict, and a turn is completed only by one.
Judged ==
    /\ ended => phase \in {"completed", "broken"}
    /\ phase = "completed" => /\ ended /\ ValidTurn(output, decoder)
                              /\ IsFiniteSet(DOMAIN output.calls)

\* No conversation that is not valid is sent.
Checked == phase \in {"dispatched", "open", "completed"} => ValidConversation(conversation)

\* The inductive invariant.
StreamInv == Typed /\ Blank /\ Reads /\ Judged /\ Checked /\ VerdictIsWhole /\ Traceable

-----------------------------------------------------------------------------

\* The type of an estimate.
LEMMA EstimateTyped ==
    ASSUME NEW r \in Row, NEW i \in Nat, NEW o \in Nat
    PROVE  Estimate(r, i, o) \in Cost
  <1>1. r.prompt \in Nat /\ r.completion \in Nat
    BY DEF Row
  <1>2. Nanodollars(r.prompt) \in Nat /\ Nanodollars(r.completion) \in Nat
    BY <1>1 DEF Nanodollars, DivCeil
  <1> QED
    BY <1>2 DEF Estimate, Cost

\* A stream that is left alone is what it was.
LEMMA SameStream ==
    ASSUME UNCHANGED conversation, UNCHANGED stream
    PROVE  /\ UNCHANGED <<generation, wire, partial, ended, decoder, output, visible>>
           /\ Sound(wire, partial)' <=> Sound(wire, partial)
           /\ Complete(wire)' <=> Complete(wire)
           /\ ValidTurn(output, decoder)' <=> ValidTurn(output, decoder)
           /\ ValidConversation(conversation)' <=> ValidConversation(conversation)
  <1>1. UNCHANGED <<generation, wire, partial, ended, decoder, output, visible>>
    BY DEF stream, body
  <1>2. Sound(wire, partial)' <=> Sound(wire, partial)
    BY <1>1 DEF Sound
  <1>3. Complete(wire)' <=> Complete(wire)
    BY <1>1 DEF Complete
  <1>4. ValidTurn(output, decoder)' <=> ValidTurn(output, decoder)
    BY <1>1 DEF ValidTurn, ReturnedUnseen
  <1>5. ValidConversation(conversation)' <=> ValidConversation(conversation)
    OBVIOUS
  <1> QED
    BY <1>1, <1>2, <1>3, <1>4, <1>5

\* What a step does to the rest.
RestTyped ==
    /\ phase' \in Phase
    /\ row' \in Row \cup {None} /\ cost' \in Cost \cup {None}
    /\ fresh' \in BOOLEAN /\ lease' \in 0 .. MaxLease /\ lapsed' \in BOOLEAN

\* A step that leaves the stream alone.
LEMMA StreamAlone ==
    ASSUME StreamInv, UNCHANGED conversation, UNCHANGED stream, RestTyped,
           phase \notin {"completed", "broken"}, phase' \notin {"completed", "broken"},
           phase' = "open" => phase = "open",
           phase' \in {"asked", "quoted", "refused", "dispatched"}
              => phase \in {"asked", "quoted", "refused", "dispatched"},
           phase' = "dispatched" => phase = "dispatched" \/ ValidConversation(conversation)
    PROVE  StreamInv'
  <1>1. /\ UNCHANGED <<generation, wire, partial, ended, decoder, output, visible>>
        /\ Sound(wire, partial)' <=> Sound(wire, partial)
        /\ ValidConversation(conversation)' <=> ValidConversation(conversation)
    BY SameStream
  <1>2. Typed'
    BY <1>1 DEF StreamInv, Typed, RestTyped
  <1>3. Blank'
    BY <1>1 DEF StreamInv, Blank
  <1>4. Reads'
    <2>1. ASSUME phase' = "open"
          PROVE  /\ Sound(wire, partial)' /\ Remembers(decoder, wire) /\ SumsUp(output, wire)
                 /\ visible = Cardinality(DOMAIN TextOf(wire))
                 /\ output.generation # None => generation = output.generation
      BY <1>1, <2>1 DEF StreamInv, Reads
    <2>2. Remembers(decoder, wire)' <=> Remembers(decoder, wire)
      BY <1>1 DEF Remembers
    <2>3. SumsUp(output, wire)' <=> SumsUp(output, wire)
      BY <1>1
    <2>4. (visible = Cardinality(DOMAIN TextOf(wire)))' <=> visible = Cardinality(DOMAIN TextOf(wire))
      BY <1>1
    <2> QED
      BY <1>1, <2>1, <2>2, <2>3, <2>4 DEF Reads
  <1>5. Judged'
    BY <1>1 DEF StreamInv, Judged
  <1>6. Checked'
    BY <1>1 DEF StreamInv, Checked
  <1>7. VerdictIsWhole'
    <2>1. phase' = "open" => Sound(wire, partial)'
      BY <1>1 DEF StreamInv, Reads
    <2>2. ~ended'
      BY <1>1 DEF StreamInv, Judged
    <2> QED
      BY <2>1, <2>2 DEF VerdictIsWhole
  <1>8. Traceable'
    BY <1>1 DEF StreamInv, Traceable
  <1> QED
    BY <1>2, <1>3, <1>4, <1>5, <1>6, <1>7, <1>8 DEF StreamInv

\* Before the stream, and the lease.
LEMMA AloneKeeps ==
    ASSUME StreamInv,
           \/ \E r \in Rows, i, o \in Tokens : Quote(r, i, o)
           \/ \E r \in Rows : CannotQuote(r)
           \/ Expire
           \/ \E bound \in Tokens : Begin(bound) \/ Refuse(bound)
           \/ Tick
           \/ ReadFails
           \/ \E same \in BOOLEAN, until \in 0 .. MaxLease : Renew(same, until)
    PROVE  StreamInv'
  <1>1. /\ row \in Row \cup {None} /\ cost \in Cost \cup {None} /\ phase \in Phase
        /\ fresh \in BOOLEAN /\ lease \in 0 .. MaxLease /\ lapsed \in BOOLEAN
    BY DEF StreamInv, Typed
  <1>2. ASSUME NEW r \in Rows, NEW i \in Tokens, NEW o \in Tokens, Quote(r, i, o)
        PROVE  StreamInv'
    <2>1. r \in Row /\ i \in Nat /\ o \in Nat
      BY CallAssumption
    <2>2. Estimate(r, i, o) \in Cost
      BY <2>1, EstimateTyped
    <2>3. /\ phase = "asked" /\ phase' = "quoted" /\ row' = r /\ cost' = Estimate(r, i, o)
          /\ UNCHANGED <<conversation, fresh, lease, lapsed, stream>>
      BY <1>2 DEF Quote
    <2>4. RestTyped
      BY <1>1, <2>1, <2>2, <2>3 DEF RestTyped, Phase
    <2> QED
      BY <2>3, <2>4, StreamAlone
  <1>3. ASSUME NEW r \in Rows, CannotQuote(r)
        PROVE  StreamInv'
    <2>1. /\ phase = "asked" /\ phase' = "refused"
          /\ UNCHANGED <<conversation, row, cost, fresh, lease, lapsed, stream>>
      BY <1>3 DEF CannotQuote, quoting
    <2>2. RestTyped
      BY <1>1, <2>1 DEF RestTyped, Phase
    <2> QED
      BY <2>1, <2>2, StreamAlone
  <1>4. CASE Expire
    <2>1. /\ phase = "quoted" /\ phase' = phase /\ fresh' = FALSE
          /\ UNCHANGED <<conversation, row, cost, lease, lapsed, stream>>
      BY <1>4 DEF Expire
    <2>2. RestTyped
      BY <1>1, <2>1 DEF RestTyped, Phase
    <2> QED
      BY <2>1, <2>2, StreamAlone
  <1>5. ASSUME NEW bound \in Tokens, Begin(bound) \/ Refuse(bound)
        PROVE  StreamInv'
    <2>1. /\ phase = "quoted" /\ phase' \in {"dispatched", "refused"} /\ row' = None /\ cost' = None
          /\ phase' = "dispatched" => ValidConversation(conversation)
          /\ UNCHANGED <<conversation, fresh, lease, lapsed, stream>>
      BY <1>5 DEF Begin, Refuse, CanBegin
    <2>2. RestTyped
      BY <1>1, <2>1 DEF RestTyped, Phase
    <2> QED
      BY <2>1, <2>2, StreamAlone
  <1>6. CASE Tick
    <2>1. /\ phase \in {"quoted", "dispatched", "open"} /\ phase' = phase
          /\ lease > 0 /\ lease' = lease - 1 /\ lapsed' \in BOOLEAN
          /\ UNCHANGED <<conversation, row, cost, fresh, stream>>
      BY <1>6 DEF Tick, quoting
    <2>2. lease' \in 0 .. MaxLease
      BY <1>1, <2>1, CallAssumption
    <2>3. RestTyped
      BY <1>1, <2>1, <2>2 DEF RestTyped, Phase
    <2> QED
      BY <2>1, <2>3, StreamAlone
  <1>7. CASE ReadFails
    <2>1. /\ phase = "open" /\ phase' = "failed"
          /\ UNCHANGED <<conversation, row, cost, fresh, lease, lapsed, stream>>
      BY <1>7 DEF ReadFails, quoting
    <2>2. RestTyped
      BY <1>1, <2>1 DEF RestTyped, Phase
    <2> QED
      BY <2>1, <2>2, StreamAlone
  <1>8. ASSUME NEW same \in BOOLEAN, NEW until \in 0 .. MaxLease, Renew(same, until)
        PROVE  StreamInv'
    <2>1. /\ phase = "open" /\ phase' \in {"open", "failed"}
          /\ lease' \in {until, lease}
          /\ UNCHANGED <<conversation, row, cost, fresh, lapsed, stream>>
      BY <1>8 DEF Renew, quoting
    <2>2. RestTyped
      BY <1>1, <2>1 DEF RestTyped, Phase
    <2> QED
      BY <2>1, <2>2, StreamAlone
  <1> QED
    BY <1>2, <1>3, <1>4, <1>5, <1>6, <1>7, <1>8

\* The decoders begin with nothing, as the stream does.
LEMMA NothingRead ==
    /\ Ordered(<<>>) /\ Named(<<>>) /\ DonesOf(<<>>) = {} /\ ChunksOf(<<>>) = {}
    /\ Remembers(NewDecoder, <<>>) /\ SumsUp(NewOutput, <<>>)
    /\ Cardinality(DOMAIN TextOf(<<>>)) = 0
    /\ NewDecoder \in DecoderType /\ NewOutput \in Turn
  <1> DEFINE none == <<>>
  <1>1. DOMAIN none = {}
    OBVIOUS
  <1> HIDE DEF none
  <1>2. ChunksOf(none) = {} /\ DonesOf(none) = {}
    BY <1>1 DEF ChunksOf, DonesOf
  <1>3. EndsOf(none) = {} /\ UsagesOf(none) = {} /\ CallsOf(none) = {}
    BY <1>2 DEF EndsOf, UsagesOf, CallsOf
  <1>4. Ordered(none) /\ Named(none)
    BY <1>1, <1>2, <1>3 DEF Ordered, Named
  <1>5. Remembers(NewDecoder, none)
    BY <1>2, <1>3 DEF Remembers, NewDecoder
  <1>6. DOMAIN TextOf(none) = {}
    BY <1>1 DEF TextOf
  <1>7. Holds("none", TextOf(none))
    <2> DEFINE p == TextOf(none)
    <2>1. DOMAIN p = {}
      BY <1>6
    <2> HIDE DEF p
    <2>2. ~Whole(p)
      BY <2>1 DEF Whole
    <2>3. Holds("none", p)
      BY <2>1, <2>2 DEF Holds
    <2> QED
      BY <2>3 DEF p
  <1>8. Indices(none) = {}
    BY <1>3 DEF Indices
  <1>9. DOMAIN NewOutput.calls = {}
    BY DEF NewOutput
  <1>10. \A n \in Nat : CallHolds(NewOutput, none, n)
    <2> TAKE n \in Nat
    <2>1. HeldAt(NewOutput, n) = NewCall
      BY <1>9 DEF HeldAt
    <2>2. PartsOf(none, n) = {}
      BY <1>3 DEF PartsOf
    <2>3. NamesOf(none, n) = {} /\ DOMAIN ArgumentsOf(none, n) = {}
      BY <2>2 DEF NamesOf, ArgumentsOf
    <2> DEFINE p == ArgumentsOf(none, n)
    <2>4. DOMAIN p = {}
      BY <2>3
    <2> HIDE DEF p
    <2>5. ~Whole(p)
      BY <2>4 DEF Whole
    <2>6. Holds("none", p)
      BY <2>4, <2>5 DEF Holds
    <2>7. HeldAt(NewOutput, n).arguments = "none" /\ HeldAt(NewOutput, n).id = None
      BY <2>1 DEF NewCall
    <2> QED
      BY <2>3, <2>6, <2>7 DEF CallHolds, p
  <1>11. /\ ~NewOutput.failed /\ NewOutput.generation = None /\ NewOutput.finish = None
         /\ NewOutput.usage = None /\ NewOutput.text = "none"
    BY DEF NewOutput
  <1>12. SumsUp(NewOutput, none)
    BY <1>2, <1>3, <1>7, <1>8, <1>9, <1>10, <1>11 DEF SumsUp
  <1>13. NewDecoder \in DecoderType
    BY DEF NewDecoder, DecoderType
  <1>14. NewOutput \in Turn
    <2>1. NewOutput.calls \in [{} -> Held]
      BY DEF NewOutput
    <2>2. NewOutput.calls \in UNION {[S -> Held] : S \in SUBSET Nat}
      BY <2>1
    <2> DEFINE c == <<>>
    <2>3. NewOutput = [text |-> "none", calls |-> c, finish |-> None, generation |-> None,
                       usage |-> None, failed |-> FALSE]
      BY DEF NewOutput
    <2> HIDE DEF c
    <2>4. c \in UNION {[S -> Held] : S \in SUBSET Nat}
      BY <2>2, <2>3
    <2> QED
      BY <2>3, <2>4 DEF Turn, Pieced
  <1>15. Cardinality({}) = 0
    BY FS_EmptySet
  <1> QED
    BY <1>2, <1>4, <1>5, <1>6, <1>12, <1>13, <1>14, <1>15 DEF none

\* The POST is answered.
LEMMA StartKeeps ==
    ASSUME StreamInv, NEW header \in Generations \cup {None}, Start(header) \/ StartFails(header)
    PROVE  StreamInv'
  <1>1. /\ phase = "dispatched" /\ phase' \in {"open", "failed"} /\ generation' = header
        /\ UNCHANGED <<conversation, row, cost, fresh, lease, lapsed>>
        /\ UNCHANGED <<wire, partial, ended, decoder, output, visible>>
    BY DEF Start, StartFails, quoting, body
  <1>2. /\ wire = <<>> /\ partial = FALSE /\ decoder = NewDecoder /\ output = NewOutput
        /\ visible = 0 /\ ~ended
    BY <1>1 DEF StreamInv, Blank, Judged
  <1>3. Typed'
    BY <1>1 DEF StreamInv, Typed, Phase
  <1>4. Blank' /\ Judged'
    BY <1>1, <1>2 DEF Blank, Judged
  <1>5. Sound(wire, partial)'
    BY <1>1, <1>2, NothingRead DEF Sound
  <1>6. Reads'
    <2>1. NewOutput.generation = None
      BY DEF NewOutput
    <2>2. wire' = <<>> /\ decoder' = NewDecoder /\ output' = NewOutput /\ visible' = 0
      BY <1>1, <1>2
    <2>3. Remembers(decoder', wire') /\ SumsUp(output', wire')
      BY <2>2, NothingRead
    <2>4. visible' = Cardinality(DOMAIN TextOf(wire'))
      BY <2>2, NothingRead
    <2>5. output'.generation = None
      BY <2>1, <2>2
    <2> QED
      BY <1>5, <2>3, <2>4, <2>5 DEF Reads
  <1>7. Checked'
    BY <1>1 DEF StreamInv, Checked
  <1>8. VerdictIsWhole'
    BY <1>1, <1>2, <1>5 DEF VerdictIsWhole
  <1>9. Traceable'
    BY <1>1, <1>2 DEF Traceable
  <1> QED
    BY <1>3, <1>4, <1>6, <1>7, <1>8, <1>9 DEF StreamInv

-----------------------------------------------------------------------------
(* A chunk. *)

\* What a chunk is decoded to.
LEMMA ReadIs ==
    ASSUME NEW events, NEW more, Read(events, more)
    PROVE  /\ decoder' = [Decoded(decoder, events) EXCEPT !.failed = @ \/ (Decoded(decoder, events).done /\ more)]
           /\ decoder'.failed => output' = [output EXCEPT !.failed = TRUE]
           /\ ~decoder'.failed => output' = Gathered(output, events)
  <1>1. decoder' = Fed(events, more) /\ output' = Collected(events, decoder')
    BY DEF Read
  <1>2. Fed(events, more) =
           [Decoded(decoder, events) EXCEPT !.failed = @ \/ (Decoded(decoder, events).done /\ more)]
    BY Zenon DEF Fed, Decoded
  <1>3. Collected(events, decoder') =
           IF decoder'.failed THEN [output EXCEPT !.failed = TRUE] ELSE Gathered(output, events)
    BY Zenon DEF Collected, Gathered
  <1> QED
    BY <1>1, <1>2, <1>3

\* What is decoded of a chunk says whether the stream is still sound, and what it
\* is about then.
Decodes(w, more) ==
    /\ w \in Seq(Events) /\ Len(w) <= MaxEvents
    /\ decoder' \in DecoderType /\ output' \in Turn
    /\ output'.generation \in {None, decoder'.generation}
    /\ output.generation # None => output'.generation = output.generation
    /\ ~output'.failed <=> Ordered(w) /\ Named(w) /\ (DonesOf(w) # {} => ~more)
    /\ ~output'.failed => Remembers(decoder', w) /\ SumsUp(output', w)

\* A chunk that is read is decoded as the whole stream would be.
LEMMA ReadDecodes ==
    ASSUME StreamInv, NEW events \in Chunks, NEW more \in BOOLEAN, Read(events, more)
    PROVE  Decodes(wire \o events, more) /\ events \in Seq(Events)
  <1> DEFINE w == wire
             v == wire \o events
             n == Decoded(decoder, events)
             g == Gathered(output, events)
  <1>1. events \in Seq(Events)
    <2>1. PICK k \in 0 .. MaxChunk : events \in [1 .. k -> Events]
      <3> DEFINE of(m) == [1 .. m -> Events]
      <3>1. events \in UNION {of(m) : m \in 0 .. MaxChunk}
        BY DEF Chunks
      <3> HIDE DEF of
      <3>2. \E m \in 0 .. MaxChunk : events \in of(m)
        BY <3>1
      <3> QED
        BY <3>2 DEF of
    <2> QED
      BY <2>1
  <1>2. /\ phase = "open" /\ w \in Seq(Events) /\ decoder \in DecoderType /\ output \in Turn
        /\ output.generation \in {None, decoder.generation}
        /\ Len(wire) + Len(events) <= MaxEvents
    BY DEF StreamInv, Typed, Read
  <1>3. v \in Seq(Events) /\ Len(v) <= MaxEvents
    BY <1>1, <1>2
  <1>4. Ordered(w) /\ Named(w) /\ Remembers(decoder, w) /\ SumsUp(output, w)
    BY <1>2 DEF StreamInv, Reads, Sound
  <1>5. n \in DecoderType /\ decoder.generation \in {None, n.generation}
        /\ IF Ordered(v) THEN Remembers(n, v) ELSE n.failed
    <2>1. /\ Decoded(decoder, events) \in DecoderType
          /\ IF Ordered(wire \o events) THEN Remembers(Decoded(decoder, events), wire \o events)
                                        ELSE Decoded(decoder, events).failed
          /\ decoder.generation \in {None, Decoded(decoder, events).generation}
      BY <1>1, <1>2, <1>4, ChunkDecoded
    <2> QED
      BY <2>1
  <1>6. g \in Turn
    BY <1>1, <1>2, GatheredTyped
  <1>7. Ordered(v) => IF Named(v) THEN SumsUp(g, v) ELSE g.failed
    <2>1. ASSUME Ordered(wire \o events)
          PROVE  IF Named(wire \o events) THEN SumsUp(Gathered(output, events), wire \o events)
                                          ELSE Gathered(output, events).failed
      BY <1>1, <1>2, <1>4, <2>1, ChunkGathered
    <2> QED
      BY <2>1
  <1>8. ~n.failed => /\ g.generation \in {None, n.generation}
                     /\ output.generation # None => g.generation # None
    <2>1. ASSUME ~Decoded(decoder, events).failed
          PROVE  /\ Gathered(output, events).generation \in {None, Decoded(decoder, events).generation}
                 /\ output.generation # None => Gathered(output, events).generation # None
      BY <1>1, <1>2, <2>1, GenerationsAgree
    <2> QED
      BY <2>1
  <1>9. /\ decoder' = [n EXCEPT !.failed = @ \/ (n.done /\ more)]
        /\ decoder'.failed => output' = [output EXCEPT !.failed = TRUE]
        /\ ~decoder'.failed => output' = g
    BY ReadIs
  <1> HIDE DEF w, v, n, g
  <1>10. /\ decoder' \in DecoderType
         /\ decoder'.failed <=> n.failed \/ (n.done /\ more)
         /\ decoder'.generation = n.generation /\ decoder'.done = n.done
         /\ decoder'.usage = n.usage /\ decoder'.finish = n.finish
    BY <1>5, <1>9 DEF DecoderType
  <1>11. ~decoder'.failed => decoder' = n
    <2>1. ASSUME ~decoder'.failed PROVE decoder' = n
      <3>1. ~n.failed /\ n.failed = FALSE
        BY <1>5, <1>10, <2>1 DEF DecoderType
      <3>2. (n.failed \/ (n.done /\ more)) = n.failed
        BY <1>10, <2>1, <3>1
      <3>3. decoder' = [n EXCEPT !.failed = n.failed]
        BY <1>9, <3>2
      <3> QED
        BY <1>5, <3>3 DEF DecoderType
    <2> QED
      BY <2>1
  <1>12. CASE decoder'.failed
    <2>1. output' = [output EXCEPT !.failed = TRUE]
      BY <1>9, <1>12
    <2>2. output' \in Turn /\ output'.failed /\ output'.generation = output.generation
      BY <1>2, <2>1 DEF Turn
    <2>3. output'.generation \in {None, decoder'.generation}
      BY <1>2, <1>5, <1>10, <2>2
    <2>4. ~(Ordered(v) /\ Named(v) /\ (DonesOf(v) # {} => ~more))
      BY <1>5, <1>10, <1>12 DEF Remembers
    <2> QED
      BY <1>1, <1>3, <1>10, <2>2, <2>3, <2>4 DEF Decodes, v
  <1>13. CASE ~decoder'.failed
    <2>1. output' = g /\ decoder' = n /\ ~n.failed /\ ~(n.done /\ more)
      BY <1>9, <1>10, <1>11, <1>13
    <2>2. Ordered(v) /\ Remembers(n, v)
      BY <1>5, <2>1
    <2>3. DonesOf(v) # {} => ~more
      BY <2>1, <2>2 DEF Remembers
    <2>4. Named(v) => SumsUp(g, v) /\ ~g.failed
      BY <1>7, <2>2 DEF SumsUp
    <2>5. ~Named(v) => g.failed
      BY <1>7, <2>2
    <2>6. g.generation \in {None, n.generation}
      BY <1>8, <2>1
    <2>7. output.generation # None => g.generation = output.generation
      BY <1>2, <1>5, <1>8, <2>1
    <2> QED
      BY <1>1, <1>3, <1>5, <1>6, <2>1, <2>2, <2>3, <2>4, <2>5, <2>6, <2>7 DEF Decodes, v
  <1> QED
    BY <1>12, <1>13

\* A chunk that is sound.
LEMMA ReceiveKeeps ==
    ASSUME StreamInv, NEW events \in Chunks, NEW more \in BOOLEAN, Receive(events, more)
    PROVE  StreamInv'
  <1> DEFINE v == wire \o events
  <1>1. Read(events, more)
    BY DEF Receive
  <1>2. Decodes(v, more) /\ events \in Seq(Events)
    BY <1>1, ReadDecodes
  <1>3. /\ phase = "open" /\ phase' = phase /\ wire' = v /\ partial' = more
        /\ ~output'.failed /\ ~Foreign(output') /\ generation' = KnownBy(output')
        /\ visible' = visible + Cardinality({i \in DOMAIN events : HasText(events[i])})
        /\ UNCHANGED <<conversation, row, cost, fresh, lease, lapsed, ended>>
    BY DEF Receive, Read, quoting
  <1>4. wire \in Seq(Events) /\ ~ended
    BY <1>3 DEF StreamInv, Typed, Judged
  <1>5. visible' = Cardinality(DOMAIN TextOf(v)) /\ Cardinality(DOMAIN TextOf(v)) \in 0 .. Len(v)
        /\ IsFiniteSet(DOMAIN TextOf(v))
    <2>1. visible = Cardinality(DOMAIN TextOf(wire))
      BY <1>3 DEF StreamInv, Reads
    <2>2. Cardinality(DOMAIN TextOf(wire \o events)) =
             Cardinality(DOMAIN TextOf(wire)) + Cardinality({i \in DOMAIN events : HasText(events[i])})
      BY <1>2, <1>4, TextsCounted
    <2>3. v \in Seq(Events)
      BY <1>2 DEF Decodes
    <2> HIDE DEF v
    <2>4. IsFiniteSet(DOMAIN TextOf(v)) /\ Cardinality(DOMAIN TextOf(v)) \in 0 .. Len(v)
      <3>1. <<>> \in Seq(Events)
        OBVIOUS
      <3> QED
        BY <2>3, <3>1, TextsCounted
    <2> QED
      BY <1>3, <2>1, <2>2, <2>4 DEF v
  <1> HIDE DEF v
  <1>6. /\ v \in Seq(Events) /\ Len(v) <= MaxEvents
        /\ decoder' \in DecoderType /\ output' \in Turn
        /\ output'.generation \in {None, decoder'.generation}
        /\ Ordered(v) /\ Named(v) /\ (DonesOf(v) # {} => ~more)
        /\ Remembers(decoder', v) /\ SumsUp(output', v)
    BY <1>2, <1>3 DEF Decodes
  <1>7. generation' = IF output'.generation = None THEN generation ELSE output'.generation
    BY <1>3 DEF KnownBy
  <1>8. ChunksOf(v) # {} => output'.generation # None /\ (\A i \in ChunksOf(v) : v[i].id = output'.generation)
    <2>1. SUFFICES ASSUME ChunksOf(v) # {}
          PROVE  output'.generation # None /\ (\A i \in ChunksOf(v) : v[i].id = output'.generation)
      OBVIOUS
    <2>2. \A i \in ChunksOf(v) : v[i].id = output'.generation
      BY <1>6, <2>1 DEF SumsUp
    <2>3. PICK i \in ChunksOf(v) : TRUE
      BY <2>1
    <2>4. v[i] \in Events /\ v[i].type = "chunk"
      BY <1>6, PlacesIn DEF IsChunk
    <2> QED
      BY <2>2, <2>3, <2>4, EventIs
  <1>9. Typed'
    <2>1. generation' \in Generations \cup {None}
      <3>1. output'.generation \in Generations \cup {None}
        BY <1>6 DEF Turn
      <3> QED
        BY <1>7, <3>1 DEF StreamInv, Typed
    <2>2. visible' \in 0 .. MaxEvents
      <3>1. Len(v) \in Nat
        BY <1>6
      <3> QED
        BY <1>5, <1>6, <3>1, CallAssumption
    <2> QED
      BY <1>3, <1>6, <2>1, <2>2 DEF StreamInv, Typed
  <1>10. Sound(wire, partial)'
    BY <1>3, <1>6, <1>7, <1>8 DEF Sound
  <1>11. Reads'
    <2>1. Remembers(decoder', wire') /\ SumsUp(output', wire')
      BY <1>3, <1>6
    <2>2. visible' = Cardinality(DOMAIN TextOf(wire'))
      BY <1>3, <1>5
    <2>3. output'.generation # None => generation' = output'.generation
      BY <1>7
    <2> QED
      BY <1>10, <2>1, <2>2, <2>3 DEF Reads
  <1>12. Blank' /\ Judged'
    BY <1>3, <1>4 DEF Blank, Judged
  <1>13. Checked'
    BY <1>3 DEF StreamInv, Checked
  <1>14. VerdictIsWhole'
    BY <1>3, <1>4, <1>10 DEF VerdictIsWhole
  <1>15. Traceable'
    <2>1. ASSUME visible' > 0 PROVE generation' # None /\ output'.generation = generation'
      <3>1. DOMAIN TextOf(v) # {}
        <4> SUFFICES ASSUME DOMAIN TextOf(v) = {} PROVE FALSE
          OBVIOUS
        <4>1. Cardinality(DOMAIN TextOf(v)) = 0
          BY FS_EmptySet
        <4>2. visible' = 0
          BY <1>5, <4>1
        <4> QED
          BY <2>1, <4>2
      <3>2. ChunksOf(v) # {}
        BY <3>1 DEF TextOf, HasText, IsChunk, ChunksOf
      <3> QED
        BY <1>7, <1>8, <3>2
    <2> QED
      BY <1>3, <2>1 DEF Traceable
  <1> QED
    BY <1>9, <1>11, <1>12, <1>13, <1>14, <1>15 DEF StreamInv

\* A chunk that is refused.
LEMMA ReceiveRefusedKeeps ==
    ASSUME StreamInv, NEW events \in Chunks, NEW more \in BOOLEAN, ReceiveRefused(events, more)
    PROVE  StreamInv'
  <1> DEFINE v == wire \o events
  <1>1. Read(events, more)
    BY DEF ReceiveRefused
  <1>2. Decodes(v, more) /\ events \in Seq(Events)
    BY <1>1, ReadDecodes
  <1>3. /\ phase = "open" /\ phase' = "broken" /\ wire' = v /\ partial' = more
        /\ output'.failed \/ Foreign(output')
        /\ generation' = KnownBy(output')
        /\ UNCHANGED <<conversation, row, cost, fresh, lease, lapsed, ended, visible>>
    BY DEF ReceiveRefused, Read, quoting
  <1>4. ~ended
    BY <1>3 DEF StreamInv, Judged
  <1> HIDE DEF v
  <1>5. /\ v \in Seq(Events) /\ Len(v) <= MaxEvents
        /\ decoder' \in DecoderType /\ output' \in Turn
        /\ output'.generation \in {None, decoder'.generation}
        /\ output.generation # None => output'.generation = output.generation
        /\ ~output'.failed <=> Ordered(v) /\ Named(v) /\ (DonesOf(v) # {} => ~more)
        /\ ~output'.failed => SumsUp(output', v)
    BY <1>2 DEF Decodes
  <1>6. Typed'
    <2>1. output'.generation \in Generations \cup {None}
      BY <1>5 DEF Turn
    <2>2. generation' \in Generations \cup {None}
      BY <1>3, <2>1 DEF StreamInv, Typed, KnownBy
    <2> QED
      BY <1>3, <1>5, <2>2 DEF StreamInv, Typed, Phase
  <1>7. ~Sound(wire, partial)'
    <2>1. CASE output'.failed
      BY <1>3, <1>5, <2>1 DEF Sound
    <2>2. CASE ~output'.failed
      <3>1. /\ output'.generation # None /\ generation # None /\ generation # output'.generation
            /\ generation' = generation
        BY <1>3, <2>2 DEF Foreign, KnownBy
      <3>2. SumsUp(output', v)
        BY <1>5, <2>2
      <3>3. ChunksOf(v) # {}
        BY <3>1, <3>2 DEF SumsUp
      <3>4. PICK i \in ChunksOf(v) : v[i].id = output'.generation
        BY <3>2, <3>3 DEF SumsUp
      <3>5. i \in ChunksOf(wire') /\ generation' # None /\ wire'[i].id # generation'
        BY <1>3, <3>1, <3>4
      <3> QED
        BY <3>5 DEF Sound
    <2> QED
      BY <2>1, <2>2
  <1>8. Blank' /\ Reads' /\ Judged' /\ Checked'
    BY <1>3, <1>4 DEF Blank, Reads, Judged, Checked
  <1>9. VerdictIsWhole'
    BY <1>3, <1>4, <1>7 DEF VerdictIsWhole
  <1>10. Traceable'
    <2>1. ASSUME visible' > 0 PROVE generation' # None /\ output'.generation = generation'
      <3>1. generation # None /\ output.generation = generation
        BY <1>3, <2>1 DEF StreamInv, Traceable
      <3>2. output'.generation = generation
        BY <1>5, <3>1
      <3> QED
        BY <1>3, <3>1, <3>2 DEF KnownBy, Foreign
    <2> QED
      BY <1>3, <2>1 DEF Traceable
  <1> QED
    BY <1>6, <1>8, <1>9, <1>10 DEF StreamInv

\* The end of the stream.
LEMMA EndKeeps ==
    ASSUME StreamInv, End
    PROVE  StreamInv'
  <1>1. /\ phase = "open" /\ ended' = TRUE
        /\ phase' = IF ValidTurn(output, decoder) /\ ~partial THEN "completed" ELSE "broken"
        /\ UNCHANGED <<conversation, row, cost, fresh, lease, lapsed>>
        /\ UNCHANGED <<generation, wire, partial, decoder, output, visible>>
    BY DEF End, quoting
  <1>2. /\ Sound(wire, partial) /\ Remembers(decoder, wire) /\ SumsUp(output, wire)
        /\ visible = Cardinality(DOMAIN TextOf(wire))
        /\ output.generation # None => generation = output.generation
        /\ wire \in Seq(Events) /\ decoder \in DecoderType /\ output \in Turn
    BY <1>1 DEF StreamInv, Reads, Typed
  <1>3. ValidTurn(output, decoder) <=> Complete(wire)
    BY <1>2, ValidIsComplete DEF Sound
  <1>4. /\ Sound(wire, partial)' <=> Sound(wire, partial)
        /\ Complete(wire)' <=> Complete(wire)
        /\ ValidTurn(output, decoder)' <=> ValidTurn(output, decoder)
    <2>1. Sound(wire, partial)' <=> Sound(wire, partial)
      BY <1>1 DEF Sound
    <2>2. Complete(wire)' <=> Complete(wire)
      BY <1>1 DEF Complete
    <2>3. ValidTurn(output, decoder)' <=> ValidTurn(output, decoder)
      BY <1>1 DEF ValidTurn, ReturnedUnseen
    <2> QED
      BY <2>1, <2>2, <2>3
  <1>5. Typed'
    BY <1>1 DEF StreamInv, Typed, Phase
  <1>6. Blank' /\ Reads'
    BY <1>1 DEF Blank, Reads
  <1>7. Judged'
    <2>1. IsFiniteSet(DOMAIN output.calls)
      BY <1>2, IndicesFinite DEF SumsUp
    <2> QED
      BY <1>1, <1>4, <2>1 DEF Judged
  <1>8. Checked'
    BY <1>1 DEF StreamInv, Checked
  <1>9. VerdictIsWhole'
    <2>1. phase' = "completed" <=> Sound(wire, partial)' /\ ~partial' /\ Complete(wire)'
      BY <1>1, <1>2, <1>3, <1>4
    <2>2. visible' = Cardinality(DOMAIN TextOf(wire'))
      BY <1>1, <1>2
    <2> QED
      BY <1>1, <2>1, <2>2 DEF VerdictIsWhole
  <1>10. Traceable'
    <2>1. ASSUME phase' = "completed" PROVE output.generation # None
      <3>1. Complete(wire) /\ Ordered(wire)
        BY <1>1, <1>2, <1>3, <2>1 DEF Sound
      <3>2. DonesOf(wire) # {}
        BY <3>1 DEF Complete
      <3>3. UsagesOf(wire) # {}
        BY <3>1, <3>2 DEF Ordered
      <3>4. PICK i \in ChunksOf(wire) : TRUE
        BY <1>2, <3>3, PlacesIn
      <3>5. wire[i].id = output.generation
        BY <1>2, <3>4 DEF SumsUp
      <3>6. wire[i] \in Events /\ wire[i].type = "chunk"
        BY <1>2, <3>4, PlacesIn DEF IsChunk
      <3> QED
        BY <3>5, <3>6, EventIs
    <2> QED
      BY <1>1, <1>2, <2>1 DEF StreamInv, Traceable
  <1> QED
    BY <1>5, <1>6, <1>7, <1>8, <1>9, <1>10 DEF StreamInv

\* What the inductive invariant says of a completed turn.
LEMMA CompletedContinues ==
    ASSUME StreamInv
    PROVE  ContinuationValid
  <1> DEFINE ids == CallIdsOf(output)
  <1>1. SUFFICES ASSUME phase = "completed", output.finish = "tool_calls",
                        NEW order \in SetToSeqs(ToSet(ids))
                 PROVE  ValidConversation(conversation \o <<Called(ids)>>
                                          \o [i \in DOMAIN order |-> Answered(order[i])])
    BY DEF ContinuationValid
  <1>2. /\ ValidTurn(output, decoder) /\ ValidConversation(conversation)
        /\ IsFiniteSet(DOMAIN output.calls)
    BY <1>1 DEF StreamInv, Judged, Checked
  <1>3. conversation \in Seq(Message) /\ output \in Turn
    BY CallAssumption DEF StreamInv, Typed
  <1>4. /\ Contiguous(output) /\ (\A i \in DOMAIN output.calls : output.calls[i].id # None)
        /\ ReturnedUnseen(ids)
    BY <1>1, <1>2 DEF ValidTurn
  <1>5. ids \in Seq(CallIds)
    <2> DEFINE c == Cardinality(DOMAIN output.calls)
    <2>1. DOMAIN output.calls = 0 .. c - 1 /\ output.calls \in [DOMAIN output.calls -> Held]
      BY <1>3, <1>4, HeldTyped DEF Contiguous
    <2>3. c \in Nat
      BY <1>2, FS_CardinalityType
    <2>4. ids = [i \in 1 .. c |-> output.calls[i - 1].id]
      BY DEF CallIdsOf
    <2> HIDE DEF ids, c
    <2>5. \A i \in 1 .. c : output.calls[i - 1].id \in CallIds
      <3> TAKE i \in 1 .. c
      <3>1. i - 1 \in DOMAIN output.calls
        BY <2>1, <2>3
      <3>2. output.calls[i - 1] \in Held
        BY <2>1, <3>1
      <3> QED
        BY <1>4, <3>1, <3>2 DEF Held
    <2> QED
      BY <2>3, <2>4, <2>5
  <1>6. Distinct(ids) /\ ToSet(ids) \cap ReadConversation(conversation).seen = {}
    BY <1>4 DEF ReturnedUnseen
  <1>7. ids # <<>>
    <2>1. DOMAIN output.calls # {}
      BY <1>1, <1>2 DEF ValidTurn
    <2>2. Cardinality(DOMAIN output.calls) \in Nat \ {0}
      BY <1>2, <2>1, FS_EmptySet, FS_CardinalityType
    <2>3. Len(ids) = Cardinality(DOMAIN output.calls)
      BY <2>2 DEF CallIdsOf
    <2> QED
      BY <2>2, <2>3
  <1> HIDE DEF ids
  <1> QED
    BY <1>2, <1>3, <1>5, <1>6, <1>7, ContinuationIsValid

\* The invariant holds at the beginning,
LEMMA StreamInvInit == Init => StreamInv
  <1> SUFFICES ASSUME Init PROVE StreamInv
    OBVIOUS
  <1>1. /\ phase = "asked" /\ conversation \in Conversations /\ row = None /\ cost = None
        /\ fresh = TRUE /\ lease = MaxLease /\ lapsed = FALSE /\ generation = None
        /\ wire = <<>> /\ partial = FALSE /\ ended = FALSE
        /\ decoder = NewDecoder /\ output = NewOutput /\ visible = 0
    BY DEF Init
  <1>2. NewOutput.generation = None
    BY DEF NewOutput
  <1>3. Typed
    <2>1. phase \in Phase
      BY <1>1 DEF Phase
    <2>2. /\ row \in Row \cup {None} /\ cost \in Cost \cup {None}
          /\ fresh \in BOOLEAN /\ lapsed \in BOOLEAN /\ partial \in BOOLEAN /\ ended \in BOOLEAN
          /\ generation \in Generations \cup {None}
      BY <1>1
    <2>3. lease \in 0 .. MaxLease /\ visible \in 0 .. MaxEvents
      BY <1>1, CallAssumption
    <2>4. wire \in Seq(Events) /\ Len(wire) <= MaxEvents
      <3>1. MaxEvents \in Nat
        BY CallAssumption
      <3>2. <<>> \in Seq(Events) /\ Len(<<>>) = 0
        OBVIOUS
      <3> QED
        BY <1>1, <3>1, <3>2
    <2>5. decoder \in DecoderType /\ output \in Turn
      BY <1>1, NothingRead
    <2>6. output.generation \in {None, decoder.generation}
      BY <1>1, <1>2
    <2> QED
      BY <1>1, <2>1, <2>2, <2>3, <2>4, <2>5, <2>6 DEF Typed
  <1>4. Blank /\ Reads /\ Judged /\ Checked
    BY <1>1 DEF Blank, Reads, Judged, Checked
  <1>5. VerdictIsWhole /\ Traceable
    BY <1>1 DEF VerdictIsWhole, Traceable
  <1> QED
    BY <1>3, <1>4, <1>5 DEF StreamInv

\* and when nothing is done.
LEMMA StreamInvStutters ==
    ASSUME StreamInv, UNCHANGED vars
    PROVE  StreamInv'
  <1>1. /\ UNCHANGED <<phase, conversation, row, cost, fresh, lease, lapsed>>
        /\ UNCHANGED conversation /\ UNCHANGED stream
    BY DEF vars, quoting
  <1>2. /\ UNCHANGED <<generation, wire, partial, ended, decoder, output, visible>>
        /\ Sound(wire, partial)' <=> Sound(wire, partial)
        /\ Complete(wire)' <=> Complete(wire)
        /\ ValidTurn(output, decoder)' <=> ValidTurn(output, decoder)
        /\ ValidConversation(conversation)' <=> ValidConversation(conversation)
    BY <1>1, SameStream
  <1>3. Typed'
    BY <1>1, <1>2 DEF StreamInv, Typed
  <1>4. Blank' /\ Judged' /\ Checked'
    BY <1>1, <1>2 DEF StreamInv, Blank, Judged, Checked
  <1>5. Reads'
    <2>1. (Remembers(decoder, wire)' <=> Remembers(decoder, wire)) /\ (SumsUp(output, wire)' <=> SumsUp(output, wire))
      BY <1>2
    <2>2. (visible = Cardinality(DOMAIN TextOf(wire)))' <=> visible = Cardinality(DOMAIN TextOf(wire))
      BY <1>2
    <2> QED
      BY <1>1, <1>2, <2>1, <2>2 DEF StreamInv, Reads
  <1>6. VerdictIsWhole'
    <2>1. (visible = Cardinality(DOMAIN TextOf(wire)))' <=> visible = Cardinality(DOMAIN TextOf(wire))
      BY <1>2
    <2> QED
      BY <1>1, <1>2, <2>1 DEF StreamInv, VerdictIsWhole
  <1>7. Traceable'
    BY <1>1, <1>2 DEF StreamInv, Traceable
  <1> QED
    BY <1>3, <1>4, <1>5, <1>6, <1>7 DEF StreamInv

-----------------------------------------------------------------------------
(* The theorems. *)

\* The inductive invariant of the stream.
THEOREM StreamInvariance == Spec => []StreamInv
  <1>1. StreamInv /\ [Next]_vars => StreamInv'
    <2>1. ASSUME StreamInv, Next PROVE StreamInv'
      <3>1. CASE \/ \E r \in Rows, i, o \in Tokens : Quote(r, i, o)
                 \/ \E r \in Rows : CannotQuote(r)
                 \/ Expire
                 \/ \E bound \in Tokens : Begin(bound) \/ Refuse(bound)
                 \/ Tick
                 \/ ReadFails
                 \/ \E same \in BOOLEAN, until \in 0 .. MaxLease : Renew(same, until)
        BY <2>1, <3>1, AloneKeeps
      <3>2. CASE \E header \in Generations \cup {None} : Start(header) \/ StartFails(header)
        BY <2>1, <3>2, StartKeeps
      <3>3. ASSUME NEW events \in Chunks, NEW more \in BOOLEAN,
                   Receive(events, more) \/ ReceiveRefused(events, more)
            PROVE  StreamInv'
        BY <2>1, <3>3, ReceiveKeeps, ReceiveRefusedKeeps
      <3>4. CASE End
        BY <2>1, <3>4, EndKeeps
      <3> QED
        BY <2>1, <3>1, <3>2, <3>3, <3>4 DEF Next
    <2> QED
      BY <2>1, StreamInvStutters
  <1> QED
    BY <1>1, StreamInvInit, PTL DEF Spec

\* Types, and the generation both decoders are of.
THEOREM CallTyped == Spec => []TypeOK
  <1>1. StreamInv => TypeOK
    <2> SUFFICES ASSUME StreamInv PROVE TypeOK
      OBVIOUS
    <2>1. Typed
      BY DEF StreamInv
    <2>2. \A i \in DOMAIN wire : wire[i] \in Event
      BY <2>1, CallAssumption DEF Typed
    <2>3. output.text \in Pieced /\ \A i \in DOMAIN output.calls : output.calls[i] \in Held
      BY <2>1, HeldTyped DEF Typed, Turn
    <2> QED
      BY <2>1, <2>2, <2>3 DEF Typed, TypeOK, Held, DecoderType
  <1> QED
    BY <1>1, StreamInvariance, PTL

\* The verdict is that on the whole stream, however it came in chunks.
THEOREM JudgedAsAWhole == Spec => []VerdictIsWhole
  <1>1. StreamInv => VerdictIsWhole
    BY DEF StreamInv
  <1> QED
    BY <1>1, StreamInvariance, PTL

\* What was shown or completed can be traced to its bill.
THEOREM TracedToBill == Spec => []Traceable
  <1>1. StreamInv => Traceable
    BY DEF StreamInv
  <1> QED
    BY <1>1, StreamInvariance, PTL

\* A turn can be answered, and the conversation goes on.
THEOREM TurnsContinue == Spec => []ContinuationValid
  <1>1. StreamInv => ContinuationValid
    BY CompletedContinues
  <1> QED
    BY <1>1, StreamInvariance, PTL
=================================================================================
