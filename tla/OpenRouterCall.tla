----------------------------- MODULE OpenRouterCall -----------------------------
(***************************************************************************)
(* One call to OpenRouter: its price is quoted (openrouter_pricing.rs),    *)
(* the request checked (openrouter_request.rs, domain/inference.rs), the   *)
(* one POST sent and its event stream read under a lease that is renewed   *)
(* meanwhile (openrouter_transport.rs), decoded (openrouter_stream.rs) and *)
(* judged as a whole (openrouter_output.rs, schema_validation.rs).         *)
(*                                                                         *)
(* The caller, the provider, the network and the clock are free: chunks    *)
(* end anywhere, within an event too.  An event is named by what the       *)
(* decoders look at; its malformed variants are one, as all of them end    *)
(* the call.  Sizes, and reasoning, which is only collected, are left out. *)
(***************************************************************************)
EXTENDS OpenRouterPricing, Sequences, SequencesExt

CONSTANTS
    Rows,            \* catalog rows of the model, Row
    Tokens,          \* numbers of tokens asked for
    Reserve,         \* output_reserve_tokens
    Window,          \* context_window_tokens
    Conversations,   \* sequences of messages
    HasSchema,       \* the request has an output_schema
    Generations, CallIds,
    Events,          \* what the provider may send
    None,
    MaxEvents,       \* bound: events of the stream
    MaxChunk,        \* bound: events that end in one chunk
    MaxLease         \* bound: ticks a lease lasts

VARIABLES
    phase,
    conversation,    \* InferenceRequest.messages
    row,             \* the row the snapshot was taken from
    cost,            \* CostEstimate
    fresh,           \* pricing_expires_at has not passed
    lease,           \* ticks until the authorisation ends
    lapsed,          \* it has ended once since the POST
    generation,      \* OpenRouterResponse.generation_id
    wire,            \* the events received, complete ones
    partial,         \* bytes of a further event are in the buffer
    ended,           \* the body has ended
    decoder,         \* Decoder
    output,          \* OutputDecoder
    visible          \* text deltas handed to the caller

quoting == <<conversation, row, cost, fresh>>
body == <<wire, partial, ended, decoder, output, visible>>
stream == <<generation, body>>
vars == <<phase, quoting, lease, lapsed, stream>>

-----------------------------------------------------------------------------
(* Types. *)

\* broken: the provider's stream was refused; failed: time or the network.
Phase == {"asked", "quoted", "refused", "dispatched", "open", "broken", "failed", "completed"}

\* Text and arguments come in pieces: all of it, its beginning, its end, or what
\* does not fit its schema (for a call, a name no tool has).
Piece == {"whole", "open", "close", "unfit"}
Pieced == {"none", "open", "whole", "unfit"}

Call == [index : Nat, id : CallIds \cup {None}, piece : Piece]

Reason == {"stop", "tool_calls", "length"}

Event == [type : {"chunk", "done", "error", "comment"}, id : Generations \cup {None},
          text : Piece \cup {None}, call : Call \cup {None},
          finish : Reason \cup {None}, usage : Nat \cup {None}]

NewDecoder == [generation |-> None, finish |-> None, usage |-> FALSE, done |-> FALSE,
               failed |-> FALSE]

NewOutput == [text |-> "none", calls |-> <<>>, finish |-> None, generation |-> None,
              usage |-> None, failed |-> FALSE]

Message == [role : {"user"}] \cup [role : {"tool"}, id : CallIds]
             \cup [role : {"assistant"}, text : BOOLEAN, ids : Seq(CallIds)]

\* An event with a chunk of an answer names its generation: one without an id is
\* refused like any other that is malformed.
ASSUME CallAssumption ==
    /\ Rows \subseteq Row /\ Tokens \subseteq Nat
    /\ Reserve \in Nat /\ Window \in Nat /\ MaxLease \in Nat
    /\ MaxEvents \in Nat /\ MaxChunk \in Nat
    /\ Conversations \subseteq Seq(Message)
    /\ Events \subseteq Event /\ \A e \in Events : e.type = "chunk" => e.id # None
    /\ None \notin Generations \cup CallIds \cup Piece \cup Reason \cup Nat

Init ==
    /\ phase = "asked"
    /\ conversation \in Conversations
    /\ row = None /\ cost = None /\ fresh = TRUE
    /\ lease = MaxLease /\ lapsed = FALSE
    /\ generation = None
    /\ wire = <<>> /\ partial = FALSE /\ ended = FALSE
    /\ decoder = NewDecoder /\ output = NewOutput
    /\ visible = 0

-----------------------------------------------------------------------------
(* The conversation: validate_conversation and validate_returned_tools. *)

Said == [role |-> "user"]
Answered(id) == [role |-> "tool", id |-> id]
Called(ids) == [role |-> "assistant", text |-> FALSE, ids |-> ids]

Distinct(ids) == \A i, j \in DOMAIN ids : ids[i] = ids[j] => i = j

\* Every call is answered, once, before anyone else speaks; the assistant says
\* something or calls something.
ReadMessage(check, message) ==
    CASE message.role = "tool" ->
            [check EXCEPT !.valid = @ /\ message.id \in check.pending,
                          !.pending = @ \ {message.id}]
      [] message.role = "assistant" ->
            [valid |-> /\ check.valid /\ check.pending = {}
                       /\ message.text \/ message.ids # <<>>
                       /\ Distinct(message.ids) /\ ToSet(message.ids) \cap check.seen = {},
             seen |-> check.seen \cup ToSet(message.ids),
             pending |-> ToSet(message.ids)]
      [] OTHER -> [check EXCEPT !.valid = @ /\ check.pending = {}]

ReadConversation(messages) ==
    FoldLeft(ReadMessage, [valid |-> messages # <<>>, seen |-> {}, pending |-> {}], messages)

ValidConversation(messages) ==
    ReadConversation(messages).valid /\ ReadConversation(messages).pending = {}

\* Faulty variant: only the ids of this turn are compared.
ReturnedNowUnseen(ids) == Distinct(ids)

ReturnedUnseen(ids) ==
    Distinct(ids) /\ ToSet(ids) \cap ReadConversation(conversation).seen = {}

-----------------------------------------------------------------------------
(* Before the POST. *)

\* pricing_snapshot and estimate.
Quote(r, i, o) ==
    /\ phase = "asked"
    /\ CanQuote(r) /\ i # 0 /\ o # 0
    /\ row' = r
    /\ cost' = Estimate(r, i, o)
    /\ phase' = "quoted"
    /\ UNCHANGED <<conversation, fresh, lease, lapsed, stream>>

CannotQuote(r) ==
    /\ phase = "asked"
    /\ ~CanQuote(r)
    /\ phase' = "refused"
    /\ UNCHANGED <<quoting, lease, lapsed, stream>>

\* The fifteen minutes of the prices are over.
Expire ==
    /\ phase = "quoted" /\ fresh
    /\ fresh' = FALSE
    /\ UNCHANGED <<phase, conversation, row, cost, lease, lapsed, stream>>

\* from_paid_stored: bound is the size of the request's encoding.
CanBegin(bound) ==
    /\ fresh
    /\ ValidConversation(conversation)
    /\ bound <= cost.inputTokens
    /\ bound + Reserve <= Window
    /\ Reserve <= cost.outputTokens

\* The ledger keeps the estimate; the dispatch only owns the request.
Begin(bound) ==
    /\ phase = "quoted"
    /\ lease > 0
    /\ CanBegin(bound)
    /\ phase' = "dispatched"
    /\ row' = None /\ cost' = None
    /\ UNCHANGED <<conversation, fresh, lease, lapsed, stream>>

Refuse(bound) ==
    /\ phase = "quoted"
    /\ lease = 0 \/ ~CanBegin(bound)
    /\ phase' = "refused"
    /\ row' = None /\ cost' = None
    /\ UNCHANGED <<conversation, fresh, lease, lapsed, stream>>

\* The lease runs while the price is quoted, the POST sent and the stream read.
Tick ==
    /\ phase \in {"quoted", "dispatched", "open"}
    /\ lease > 0
    /\ lease' = lease - 1
    /\ lapsed' = (lapsed \/ (lease = 1 /\ phase # "quoted"))
    /\ UNCHANGED <<phase, quoting, stream>>

-----------------------------------------------------------------------------
(* The POST: OpenRouter::start. *)

\* A stream is opened; the provider may name the generation in a header.
Start(header) ==
    /\ phase = "dispatched"
    /\ lease > 0
    /\ generation' = header
    /\ phase' = "open"
    /\ UNCHANGED <<quoting, lease, lapsed, body>>

\* No answer in time, an error status or another type of content.
StartFails(header) ==
    /\ phase = "dispatched"
    /\ lease = 0 => header = None
    /\ generation' = header
    /\ phase' = "failed"
    /\ UNCHANGED <<quoting, lease, lapsed, body>>

-----------------------------------------------------------------------------
(* Decoder: the order of the events. *)

CarriesOutput(e) == e.text # None \/ e.call # None

\* Decoder::event for one choice: nothing follows the finish but its repetition
\* with the usage, which comes once and not before it.
AcceptableChunk(d, e) ==
    /\ d.generation \in {None, e.id}
    /\ d.finish # None => ~CarriesOutput(e)
    /\ e.finish # "length"
    /\ e.finish # None /\ d.finish # None => e.finish = d.finish /\ e.usage # None
    /\ e.usage # None => ~d.usage /\ (d.finish # None \/ e.finish # None)

\* Faulty variant: the end may come before what accounts for the call.
AcceptableDoneEarly(d) == d.generation # None

AcceptableDone(d) == d.finish # None /\ d.usage /\ d.generation # None

Acceptable(d, e) ==
    /\ ~d.done
    /\ \/ e.type = "comment"
       \/ e.type = "done" /\ AcceptableDone(d)
       \/ e.type = "chunk" /\ AcceptableChunk(d, e)

StreamEvent(d, e) ==
    IF d.failed \/ ~Acceptable(d, e) THEN [d EXCEPT !.failed = TRUE]
    ELSE CASE e.type = "done" -> [d EXCEPT !.done = TRUE]
           [] e.type = "comment" -> d
           [] OTHER -> [d EXCEPT !.generation = e.id,
                                 !.finish = IF @ = None THEN e.finish ELSE @,
                                 !.usage = @ \/ e.usage # None]

\* feed: after the end any byte of something more is refused at once.
Fed(events, more) ==
    LET d == FoldLeft(StreamEvent, decoder, events)
    IN [d EXCEPT !.failed = @ \/ (d.done /\ more)]

-----------------------------------------------------------------------------
(* OutputDecoder: what the events add up to. *)

\* push_str.
Pushed(held, piece) ==
    CASE held = "none" /\ piece # "close" -> piece
      [] held = "open" /\ piece = "close" -> "whole"
      [] OTHER -> "unfit"

IsChunk(e) == e.type = "chunk"
HasText(e) == IsChunk(e) /\ e.text # None

NewCall == [id |-> None, arguments |-> "none"]

SameCall(held, call) == call.id = None \/ held.id \in {None, call.id}

OutputFrame(o, e) ==
    LET seen == [o EXCEPT !.generation = e.id,
                          !.usage = IF e.usage = None THEN @ ELSE e.usage,
                          !.finish = IF e.finish = None THEN @ ELSE e.finish,
                          !.text = IF e.text = None THEN @ ELSE Pushed(@, e.text)]
        held == IF e.call.index \in DOMAIN o.calls THEN o.calls[e.call.index] ELSE NewCall
        joined == [id |-> IF e.call.id = None THEN held.id ELSE e.call.id,
                   arguments |-> Pushed(held.arguments, e.call.piece)]
    IN IF o.failed \/ ~IsChunk(e) THEN o
       ELSE IF e.call = None THEN seen
       ELSE IF ~SameCall(held, e.call) THEN [seen EXCEPT !.failed = TRUE]
       ELSE [seen EXCEPT !.calls = [i \in DOMAIN @ \cup {e.call.index} |->
                                       IF i = e.call.index THEN joined ELSE @[i]]]

\* Faulty variant: the frames before and after a bad event are looked at.
CollectedAnyway(events, d) ==
    [FoldLeft(OutputFrame, output, events) EXCEPT !.failed = @ \/ d.failed]

\* A chunk of bytes is decoded before any of its frames is looked at: one bad
\* event and the good ones that came with it are lost.
Collected(events, d) ==
    IF d.failed THEN [output EXCEPT !.failed = TRUE]
    ELSE FoldLeft(OutputFrame, output, events)

Contiguous(o) == DOMAIN o.calls = 0 .. Cardinality(DOMAIN o.calls) - 1

CallIdsOf(o) == [i \in 1 .. Cardinality(DOMAIN o.calls) |-> o.calls[i - 1].id]

\* validate_output and validate_tool_calls: the arguments always have a schema.
FitsSchema(o) ==
    IF o.finish = "stop" THEN HasSchema => o.text = "whole"
    ELSE \A i \in DOMAIN o.calls : o.calls[i].arguments = "whole"

\* OutputDecoder::finish.
ValidTurn(o, d) ==
    /\ ~o.failed /\ d.done
    /\ o.usage <= Reserve
    /\ Contiguous(o)
    /\ \A i \in DOMAIN o.calls : o.calls[i].id # None
    /\ \/ o.finish = "stop" /\ DOMAIN o.calls = {} /\ o.text # "none"
       \/ /\ o.finish = "tool_calls" /\ DOMAIN o.calls # {}
          /\ ReturnedUnseen(CallIdsOf(o))
    /\ FitsSchema(o)

-----------------------------------------------------------------------------
(* The stream: OpenRouterResponse. *)

\* The decoder's generation is not the one the response is known by.
Foreign(o) == o.generation # None /\ generation \notin {None, o.generation}

\* Faulty variant: only the header is asked for the generation.
KnownByHeader(o) == generation

\* The generation of what could be read is kept, for its bill, also when it
\* was refused.
KnownBy(o) == IF o.generation = None \/ Foreign(o) THEN generation ELSE o.generation

\* next_deltas: a chunk with the ends of these events, and the beginning of
\* another one when there is more.
Read(events, more) ==
    /\ phase = "open" /\ lease > 0
    /\ Len(wire) + Len(events) <= MaxEvents
    /\ events # <<>> \/ more
    /\ wire' = wire \o events
    /\ partial' = more
    /\ decoder' = Fed(events, more)
    /\ output' = Collected(events, decoder')
    /\ UNCHANGED <<quoting, lease, lapsed, ended>>

Receive(events, more) ==
    /\ Read(events, more)
    /\ ~output'.failed /\ ~Foreign(output')
    /\ generation' = KnownBy(output')
    /\ visible' = visible + Cardinality({i \in DOMAIN events : HasText(events[i])})
    /\ UNCHANGED phase

ReceiveRefused(events, more) ==
    /\ Read(events, more)
    /\ output'.failed \/ Foreign(output')
    /\ generation' = KnownBy(output')
    /\ phase' = "broken"
    /\ UNCHANGED visible

\* The body ends, whatever it was about.
End ==
    /\ phase = "open" /\ lease > 0
    /\ ended' = TRUE
    /\ phase' = IF ValidTurn(output, decoder) /\ ~partial THEN "completed" ELSE "broken"
    /\ UNCHANGED <<quoting, lease, lapsed, generation, wire, partial, decoder, output, visible>>

\* The network fails; or the time ends, waiting for a chunk or reading one.
ReadFails ==
    /\ phase = "open"
    /\ phase' = "failed"
    /\ UNCHANGED <<quoting, lease, lapsed, stream>>

\* Faulty variant: a lease that has ended is renewed.
RenewLate(same, until) ==
    /\ phase = "open"
    /\ phase' = phase
    /\ lease' = IF same /\ until > 0 /\ until >= lease THEN until ELSE lease
    /\ UNCHANGED <<quoting, lapsed, stream>>

\* renew_authorization: of the same execution, fence and revision, and not for
\* less; what has ended cannot be renewed.
Renew(same, until) ==
    /\ phase = "open"
    /\ phase' = IF lease = 0 THEN "failed" ELSE phase
    /\ lease' = IF lease > 0 /\ same /\ until >= lease THEN until ELSE lease
    /\ UNCHANGED <<quoting, lapsed, stream>>

Chunks == UNION {[1 .. n -> Events] : n \in 0 .. MaxChunk}

Next ==
    \/ \E r \in Rows, i, o \in Tokens : Quote(r, i, o)
    \/ \E r \in Rows : CannotQuote(r)
    \/ Expire
    \/ \E bound \in Tokens : Begin(bound) \/ Refuse(bound)
    \/ Tick
    \/ \E header \in Generations \cup {None} : Start(header) \/ StartFails(header)
    \/ /\ phase = "open"
       /\ \E events \in Chunks, more \in BOOLEAN :
             Receive(events, more) \/ ReceiveRefused(events, more)
    \/ End
    \/ ReadFails
    \/ \E same \in BOOLEAN, until \in 0 .. MaxLease : Renew(same, until)

Spec == Init /\ [][Next]_vars

-----------------------------------------------------------------------------
(* What a whole stream has to be, said without decoding it. *)

ChunksOf(w) == {i \in DOMAIN w : w[i].type = "chunk"}
EndsOf(w) == {i \in ChunksOf(w) : w[i].finish # None}
UsagesOf(w) == {i \in ChunksOf(w) : w[i].usage # None}
CallsOf(w) == {i \in ChunksOf(w) : w[i].call # None}
DonesOf(w) == {i \in DOMAIN w : w[i].type = "done"}

\* Its events come in an order that can be read.
Ordered(w) ==
    /\ \A i \in DOMAIN w : w[i].type # "error"
    /\ \A i, j \in ChunksOf(w) : w[i].id = w[j].id
    /\ \A i \in EndsOf(w) :
          /\ w[i].finish # "length"
          /\ \A j \in ChunksOf(w) : j > i => ~CarriesOutput(w[j])
          /\ \A j \in EndsOf(w) : j > i => w[j].finish = w[i].finish /\ w[j].usage # None
    /\ \A i \in UsagesOf(w) :
          /\ \E j \in EndsOf(w) : j <= i
          /\ \A j \in UsagesOf(w) : i = j
    /\ \A i \in DonesOf(w) : UsagesOf(w) # {} /\ i = Len(w)

\* No call is given two ids.
Named(w) ==
    \A i, j \in CallsOf(w) :
        w[i].call.index = w[j].call.index
        => w[i].call.id = w[j].call.id \/ None \in {w[i].call.id, w[j].call.id}

\* So far nothing is wrong with it.
Sound(w, more) ==
    /\ Ordered(w) /\ Named(w)
    /\ DonesOf(w) # {} => ~more
    /\ \A i \in ChunksOf(w) : generation # None => w[i].id = generation

\* Pieces by their places in the stream: all in one, or a beginning and its end.
Whole(pieces) ==
    LET at == DOMAIN pieces IN
    \/ \E i \in at : at = {i} /\ pieces[i] = "whole"
    \/ \E i, j \in at : i < j /\ at = {i, j} /\ pieces[i] = "open" /\ pieces[j] = "close"

TextOf(w) == [i \in {k \in DOMAIN w : HasText(w[k])} |-> w[i].text]

\* Where the pieces of one call are, and the ids it was given.
PartsOf(w, index) == {i \in CallsOf(w) : w[i].call.index = index}
ArgumentsOf(w, index) == [i \in PartsOf(w, index) |-> w[i].call.piece]
NamesOf(w, index) == {w[i].call.id : i \in PartsOf(w, index)} \ {None}

Indices(w) == {w[i].call.index : i \in CallsOf(w)}

\* It ended, was paid for within the reserve, and says what it was asked to say.
Complete(w) ==
    /\ DonesOf(w) # {}
    /\ \A i \in UsagesOf(w) : w[i].usage <= Reserve
    /\ \A i \in EndsOf(w) :
          \/ /\ w[i].finish = "stop"
             /\ Indices(w) = {} /\ DOMAIN TextOf(w) # {}
             /\ HasSchema => Whole(TextOf(w))
          \/ /\ w[i].finish = "tool_calls"
             /\ Indices(w) # {} /\ \A n \in Indices(w) : 0 .. n \subseteq Indices(w)
             /\ \A n \in Indices(w) :
                   /\ NamesOf(w, n) # {} /\ Whole(ArgumentsOf(w, n))
                   /\ NamesOf(w, n) \cap ReadConversation(conversation).seen = {}
                   /\ \A m \in Indices(w) \ {n} : NamesOf(w, n) \cap NamesOf(w, m) = {}

-----------------------------------------------------------------------------
(* Properties. *)

\* Types; and what the two decoders remember is of the same generation.
TypeOK ==
    /\ phase \in Phase
    /\ conversation \in Conversations
    /\ row \in Row \cup {None} /\ cost \in Cost \cup {None}
    /\ fresh \in BOOLEAN /\ lease \in 0 .. MaxLease /\ lapsed \in BOOLEAN
    /\ generation \in Generations \cup {None}
    /\ \A i \in DOMAIN wire : wire[i] \in Event
    /\ partial \in BOOLEAN /\ ended \in BOOLEAN
    /\ decoder \in [generation : Generations \cup {None}, finish : {None, "stop", "tool_calls"},
                    usage : BOOLEAN, done : BOOLEAN, failed : BOOLEAN]
    /\ output.text \in Pieced
    /\ \A i \in DOMAIN output.calls :
          output.calls[i] \in [id : CallIds \cup {None}, arguments : Pieced]
    /\ output.generation \in {None, decoder.generation}
    /\ visible \in 0 .. MaxEvents

\* However the network cuts the stream into chunks, a turn is completed if and
\* only if the whole stream, read at once, is sound and complete; a stream is
\* given up before its end only when something in it is wrong, and at its end
\* only when something is missing (Decoder, OutputDecoder, next_deltas).
VerdictIsWhole ==
    /\ phase = "open" => Sound(wire, partial)
    /\ phase = "broken" /\ ~ended => ~Sound(wire, partial)
    /\ ended => (phase = "completed" <=> Sound(wire, partial) /\ ~partial /\ Complete(wire))
    /\ phase = "completed" => visible = Cardinality(DOMAIN TextOf(wire))

\* What the caller was shown, and every completed turn, can be traced to its
\* bill: the response knows the generation all its events belong to.
Traceable ==
    visible > 0 \/ phase = "completed"
    => generation # None /\ output.generation = generation

\* A completed turn was read under a lease without a gap: no renewal brings
\* back one that had ended while the answer was streaming (renew_authorization,
\* next_deltas).
NoGap == phase = "completed" => ~lapsed

\* The calls of a completed turn can be answered in any order, and the
\* conversation with the turn and its answers is one that is accepted for the
\* next request (validate_returned_tools against validate_conversation).
ContinuationValid ==
    phase = "completed" /\ output.finish = "tool_calls" =>
        LET ids == CallIdsOf(output)
        IN \A order \in SetToSeqs(ToSet(ids)) :
              ValidConversation(conversation \o <<Called(ids)>>
                                \o [i \in DOMAIN order |-> Answered(order[i])])

\* A price that was quoted passes the limit sent with the request, and the
\* amount reserved covers every bill the limit and the tokens allow, whatever
\* was rounded on the way (estimate, ceiling_microdollars, million_token_price,
\* parse_generation).
CeilingCoversBill == cost # None => Covers(row, cost)
=============================================================================
