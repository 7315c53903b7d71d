------------------------------ MODULE EventBus ------------------------------
(***************************************************************************)
(* create_event_bus and its subscribers: the receiver of every session     *)
(* publishes the objects of a frame, publish calls the handlers one after  *)
(* the other from a copy of the subscribers, and meanwhile others          *)
(* subscribe, unsubscribe and close the bus.                               *)
(*                                                                         *)
(*   publish       on_data of a session, in its receiver       (Publish..) *)
(*   handler       history writer and tcp sender have a lock, the udp      *)
(*                 sender has none; once closed, or when the peer of tcp   *)
(*                 is gone, they raise, which publish catches; a datagram  *)
(*                 may fail and the next one not               (Call..)    *)
(*   unsubscribe, close    take entries out under the lock and call their  *)
(*                 close_fn after it                                       *)
(*                                                                         *)
(* The program subscribes in setup_bus and closes at the end; the bus also *)
(* offers unsubscribe.  Each subscriber subscribes once, with an identity  *)
(* that grows.                                                             *)
(***************************************************************************)
EXTENDS Integers, Sequences, SequencesExt, FiniteSets

CONSTANTS
    Sessions,   \* each has one receiver
    Frames,     \* the sequences of addresses (objects) a session publishes, in this order
    Handlers,   \* the subscribers
    Filter,     \* [Handlers -> sets of addresses, or NoFilter]: the ioa_filter asked for
    NoFilter,   \* None
    Locked,     \* history writer and tcp sender: they hold a lock while they write
    Remote,     \* tcp senders: their peer can go
    Lossy,      \* udp senders: a write may fail and a later one not
    Callers     \* threads that unsubscribe or close

NoSession == "none"
Addresses == UNION {ToSet(Frames[f]) : f \in DOMAIN Frames}

ASSUME EventBusAssumption ==
    /\ Locked \subseteq Handlers /\ Remote \subseteq Locked /\ Lossy \subseteq Handlers \ Remote
    /\ Frames \in Seq(Seq(Addresses))
    /\ NoSession \notin Sessions

VARIABLES
    subs,       \* the keys of _subs in their order: a sequence of subscribers
    known,      \* ghost: who has subscribed
    published,  \* ghost: per session, how many frames were published or are being so
    since,      \* ghost: per subscriber and session, "published" when it subscribed
    todo,       \* per session: the entries of the copy publish has still to call
    writing,    \* per session: the positions in its frame of the objects the handler in
                \* hand has still to write
    holder,     \* per subscriber: the session in whose call its lock is held
    out,        \* per subscriber: the objects written, [s, frame, at]: session, number of
                \* the frame, position in it
    missed,     \* ghost: per subscriber, the objects that calls left out which failed
                \* although it was open
    closing,    \* per caller: the subscribers whose close_fn it has still to call
    closes,     \* ghost: per subscriber, how often close_fn was called
    gone        \* the tcp senders whose peer is gone

registry == <<subs, known, since>>
calls    == <<todo, writing, holder, out, missed>>
ends     == <<closing, closes, gone>>
vars     == <<registry, published, calls, ends>>

-----------------------------------------------------------------------------
Open(h)   == closes[h] = 0 /\ h \notin gone

\* what subscribe stores of the filter, and what publish gives the handler
FaultStored(h) == Filter[h]
Stored(h)      == IF Filter[h] = {} THEN NoFilter ELSE Filter[h]

Wants(h, ioa) == Stored(h) = NoFilter \/ ioa \in Stored(h)

\* where the objects are in frame f that h is given
Wanted(h, f) == {i \in 1 .. Len(Frames[f]) : Wants(h, Frames[f][i])}

Init ==
    /\ subs = <<>> /\ known = {}
    /\ published = [s \in Sessions |-> 0]
    /\ since = [h \in Handlers |-> [s \in Sessions |-> 0]]
    /\ todo = [s \in Sessions |-> <<>>] /\ writing = [s \in Sessions |-> {}]
    /\ holder = [h \in Handlers |-> NoSession]
    /\ out = [h \in Handlers |-> <<>>] /\ missed = [h \in Handlers |-> {}]
    /\ closing = [c \in Callers |-> <<>>]
    /\ closes = [h \in Handlers |-> 0] /\ gone = {}

-----------------------------------------------------------------------------
(* subscribe, unsubscribe, close *)

Subscribe(h) ==
    /\ h \notin known /\ known' = known \union {h}
    /\ subs' = Append(subs, h)
    /\ since' = [since EXCEPT ![h] = published]
    /\ UNCHANGED <<published, calls, ends>>

Unsubscribe(c, h) ==
    /\ closing[c] = <<>>
    /\ \E i \in 1 .. Len(subs) : subs[i] = h /\ subs' = RemoveAt(subs, i)
    /\ closing' = [closing EXCEPT ![c] = <<h>>]
    /\ UNCHANGED <<known, since, published, calls, closes, gone>>

\* the entries are copied and cleared under one lock
FaultClose(c) ==
    /\ closing[c] = <<>> /\ subs # <<>>
    /\ closing' = [closing EXCEPT ![c] = subs]
    /\ UNCHANGED <<registry, published, calls, closes, gone>>
Close(c) ==
    /\ closing[c] = <<>> /\ subs # <<>>
    /\ subs' = <<>>
    /\ closing' = [closing EXCEPT ![c] = subs]
    /\ UNCHANGED <<known, since, published, calls, closes, gone>>

\* what it raises is ignored; it takes no lock of the handler
CallCloseFn(c) ==
    /\ closing[c] # <<>>
    /\ closes' = [closes EXCEPT ![Head(closing[c])] = @ + 1]
    /\ closing' = [closing EXCEPT ![c] = Tail(@)]
    /\ UNCHANGED <<registry, published, calls, gone>>

-----------------------------------------------------------------------------
(* publish *)

Publish(s) ==
    /\ todo[s] = <<>> /\ published[s] < Len(Frames)
    /\ published' = [published EXCEPT ![s] = @ + 1]
    /\ todo' = [todo EXCEPT ![s] = subs]
    /\ UNCHANGED <<registry, writing, holder, out, missed, ends>>

\* the handler that publish comes to next, or is in
Handler(s) == Head(todo[s])
Inside(s)  == writing[s] # {}
Onward(s)  == todo' = [todo EXCEPT ![s] = Tail(@)]

\* nothing for this subscriber: it is not called
SkipHandler(s) ==
    /\ todo[s] # <<>> /\ ~Inside(s)
    /\ Wanted(Handler(s), published[s]) = {}
    /\ Onward(s)
    /\ UNCHANGED <<registry, published, writing, holder, out, missed, ends>>

LockFree(h) == h \notin Locked \/ holder[h] = NoSession

FaultCallHandler(s) ==
    /\ todo[s] # <<>> /\ ~Inside(s)
    /\ Wanted(Handler(s), published[s]) # {}
    /\ writing' = [writing EXCEPT ![s] = Wanted(Handler(s), published[s])]
    /\ UNCHANGED <<registry, published, todo, holder, out, missed, ends>>
CallHandler(s) ==
    /\ todo[s] # <<>> /\ ~Inside(s) /\ LockFree(Handler(s))
    /\ Wanted(Handler(s), published[s]) # {}
    /\ writing' = [writing EXCEPT ![s] = Wanted(Handler(s), published[s])]
    /\ holder' = IF Handler(s) \in Locked THEN [holder EXCEPT ![Handler(s)] = s] ELSE holder
    /\ UNCHANGED <<registry, published, todo, out, missed, ends>>

\* the handler returns or raises: its lock is released, publish goes on
Release(s) == holder' = [h \in Handlers |-> IF holder[h] = s THEN NoSession ELSE holder[h]]

\* one object; after the last the handler returns
FaultWriteObject(s) ==
    /\ Inside(s) /\ Open(Handler(s))
    /\ \E i \in writing[s] :
          /\ \A j \in writing[s] : i <= j
          /\ out' = [out EXCEPT ![Handler(s)] =
                        Append(@, [s |-> s, frame |-> published[s], at |-> i])]
          /\ writing' = [writing EXCEPT ![s] = @ \ {i}]
    /\ Onward(s) /\ Release(s)
    /\ UNCHANGED <<registry, published, missed, ends>>
WriteObject(s) ==
    /\ Inside(s) /\ Open(Handler(s))
    /\ \E i \in writing[s] :
          /\ \A j \in writing[s] : i <= j
          /\ out' = [out EXCEPT ![Handler(s)] =
                        Append(@, [s |-> s, frame |-> published[s], at |-> i])]
          /\ writing' = [writing EXCEPT ![s] = @ \ {i}]
          /\ IF writing[s] = {i} THEN Onward(s) /\ Release(s) ELSE UNCHANGED <<todo, holder>>
    /\ UNCHANGED <<registry, published, missed, ends>>

\* the file or socket is closed, or the peer is gone
FaultHandlerRaises(s) ==
    /\ Inside(s) /\ ~Open(Handler(s))
    /\ writing' = [writing EXCEPT ![s] = {}]
    /\ Onward(s)
    /\ UNCHANGED <<registry, published, holder, out, missed, ends>>
FaultAbortPublish(s) ==
    /\ Inside(s) /\ ~Open(Handler(s))
    /\ writing' = [writing EXCEPT ![s] = {}] /\ Release(s)
    /\ todo' = [todo EXCEPT ![s] = <<>>]
    /\ UNCHANGED <<registry, published, out, missed, ends>>
HandlerRaises(s) ==
    /\ Inside(s) /\ ~Open(Handler(s))
    /\ writing' = [writing EXCEPT ![s] = {}] /\ Release(s)
    /\ Onward(s)
    /\ UNCHANGED <<registry, published, out, missed, ends>>

\* a datagram fails: the rest of the call is lost, the next call is made again
HandlerFails(s) ==
    /\ Inside(s) /\ Open(Handler(s)) /\ Handler(s) \in Lossy
    /\ missed' = [missed EXCEPT ![Handler(s)] =
                     @ \union [s : {s}, frame : {published[s]}, at : writing[s]]]
    /\ writing' = [writing EXCEPT ![s] = {}] /\ Release(s)
    /\ Onward(s)
    /\ UNCHANGED <<registry, published, out, ends>>

Receiver(s) == SkipHandler(s) \/ CallHandler(s) \/ WriteObject(s) \/ HandlerRaises(s)

PeerGoes(h) ==
    /\ h \in Remote \ gone
    /\ gone' = gone \union {h}
    /\ UNCHANGED <<registry, published, calls, closing, closes>>

-----------------------------------------------------------------------------
Next ==
    \/ \E h \in Handlers : Subscribe(h) \/ PeerGoes(h)
    \/ \E c \in Callers : Close(c) \/ CallCloseFn(c) \/ (\E h \in Handlers : Unsubscribe(c, h))
    \/ \E s \in Sessions : Publish(s) \/ Receiver(s) \/ HandlerFails(s)

Spec == Init /\ [][Next]_vars

\* Threads run.  A handler's lock is free again and again, and who waits for it gets it
\* in the end: a frame is published in finitely many steps.
FairSpec == Spec /\ \A s \in Sessions : SF_vars(Receiver(s))

-----------------------------------------------------------------------------
(* Properties *)

Objects == [s : Sessions, frame : 1 .. Len(Frames), at : Nat]

TypeOK ==
    /\ known \subseteq Handlers /\ subs \in Seq(known)
    /\ published \in [Sessions -> 0 .. Len(Frames)]
    /\ since \in [Handlers -> [Sessions -> 0 .. Len(Frames)]]
    /\ todo \in [Sessions -> Seq(known)] /\ DOMAIN writing = Sessions
    /\ \A s \in Sessions : Inside(s) => /\ todo[s] # <<>>
                                       /\ writing[s] \subseteq 1 .. Len(Frames[published[s]])
    /\ holder \in [Handlers -> Sessions \union {NoSession}]
    /\ out \in [Handlers -> Seq(Objects)] /\ missed \in [Handlers -> SUBSET Objects]
    /\ closing \in [Callers -> Seq(known)]
    /\ closes \in [Handlers -> Nat] /\ gone \subseteq Remote

\* where the objects are in frame f that h asked for: without a filter, or with an empty
\* one, all; with a filter those of its addresses
Asked(h, f) ==
    {i \in 1 .. Len(Frames[f]) : Filter[h] \in {NoFilter, {}} \/ Frames[f][i] \in Filter[h]}

\* what h should be given of session s, and what it has written for s and where
Due(h, s) ==
    UNION {[s : {s}, frame : {f}, at : Asked(h, f)] : f \in since[h][s] + 1 .. published[s]}
Mine(h, s)    == {i \in 1 .. Len(out[h]) : out[h][i].s = s}
Written(h, s) == {out[h][i] : i \in Mine(h, s)}

Before(o, p) == o.frame < p.frame \/ (o.frame = p.frame /\ o.at < p.at)

\* What a subscriber writes for a session is what it asked for of all that the session
\* published since it subscribed, in order and without a gap, but for calls that failed; as
\* long as it is subscribed and open, it is all but what the call in progress has to write.
NoGap ==
    \A h \in known, s \in Sessions :
        /\ Written(h, s) \subseteq Due(h, s)
        /\ \A i, j \in Mine(h, s) : i < j => Before(out[h][i], out[h][j])
        /\ \A o \in Due(h, s) \ (Written(h, s) \union missed[h]), i \in Mine(h, s) :
              Before(out[h][i], o)
        /\ Contains(subs, h) /\ Open(h) /\ ~Contains(todo[s], h) =>
              Due(h, s) \subseteq Written(h, s) \union missed[h]

\* The objects of one call of a locked handler are written without another session's
\* between them: lines of the history and of a tcp stream belong together.
CallsWhole ==
    \A h \in Locked : \A i, j, k \in 1 .. Len(out[h]) :
        i < j /\ j < k /\ out[h][i].s = out[h][k].s /\ out[h][i].frame = out[h][k].frame
            => out[h][j].s = out[h][i].s

\* A close_fn is called once, by whoever took the entry out, never for a subscriber that
\* is still called from new copies.
ClosedOnce ==
    \A h \in Handlers : closes[h] <= 1 /\ (Contains(subs, h) => closes[h] = 0)

\* Whatever handlers are closed or fail meanwhile, a publish comes to its end.
PublishEnds == \A s \in Sessions : todo[s] # <<>> ~> todo[s] = <<>>
=============================================================================
