------------------------------ MODULE OutQueue ------------------------------
(***************************************************************************)
(* The way of an event through one session of the server: the storage puts *)
(* it into out_que (data_storage.update_val, and handle_i_frame for a      *)
(* general interrogation), client_send takes it, packs it with others of   *)
(* its type and sends the batch.                                           *)
(*                                                                         *)
(*   update_val              any thread that changes a value   (Update..)  *)
(*   handle_i_frame          client_rec, under seq_lock        (..Gi..)    *)
(*   client_send             the session's sender              (Sender..)  *)
(*   handle_u_frame          client_rec                        (StartDt..) *)
(*                                                                         *)
(* A value is the number of its update, so an event names the change it    *)
(* reports.  The window of Session is a choice here: full or not whenever  *)
(* client_send tests it.  TCP keeps the order, so the client sees "sent".  *)
(* client_send may end at any time; its receiver ends in ServerLife only.  *)
(***************************************************************************)
EXTENDS Integers, Sequences

CONSTANTS
    Signals,     \* the keys of _signals, all of this session's common address
    Tables,      \* signal tables, [Signals -> types]: the column asdu
    Commands,    \* signals with asdu >= 45: neither reported nor interrogated
    Unsupported, \* types for which _enc_val returns None
    GiOrder,     \* the signals in the order of the _signals dictionary
    Updaters,    \* threads that call update_val: the CLI, every simulation
    MaxObj,      \* the largest batch
    MaxUpdates,  \* bound: changes of one signal
    MaxGi,       \* bound: general interrogations
    MaxStops     \* bound: STOPDT requests (this client sends none, others do)

ASSUME OutQueueAssumption ==
    /\ Commands \subseteq Signals
    /\ GiOrder \in Seq(Signals)
    /\ \A s \in Signals : \E i \in 1 .. Len(GiOrder) : GiOrder[i] = s
    /\ \A i, j \in 1 .. Len(GiOrder) : GiOrder[i] = GiOrder[j] => i = j
    /\ Tables # {} /\ \A table \in Tables, s \in Signals : table[s] # "C_IC_NA_1"
    /\ "C_IC_NA_1" \notin Unsupported
    /\ MaxObj \in Nat \ {0}
    /\ MaxUpdates \in Nat /\ MaxGi \in Nat /\ MaxStops \in Nat

VARIABLES
    asdu,       \* the table that was loaded
    val,        \* SignalConf.val of every signal
    notify,     \* per updater: the event it has still to put, outside of _lock
    gi_left,    \* the signals get_all_for_gi has still to yield
    gi_event,   \* the event it has yielded and handle_i_frame has not yet put
    gi_count,   \* interrogations accepted so far
    interrogated, \* client_rec is in handle_i_frame and holds seq_lock
    startdt,    \* startdt_confirmed
    stops,      \* STOPDT requests so far
    late,       \* ghost: frames of client_send since data transfer was stopped
    out_que,    \* state.out_que
    pc, batch,  \* client_send: where it is, and the events it holds
    sent,       \* what the client receives, in order
    lost        \* events taken and not sent

storage  == <<asdu, val, notify>>
receiver == <<gi_left, gi_event, gi_count, interrogated>>
control  == <<startdt, stops, late>>
sender   == <<pc, batch>>
vars     == <<storage, receiver, control, out_que, sender, sent, lost>>

-----------------------------------------------------------------------------
(* Events.  gi is the number of the interrogation that asked for the event. *)

None == [cot |-> "none"]

Spontaneous(s, v)   == [cot |-> "spontaneous", sig |-> s, val |-> v]
Interrogated(s, v, n) == [cot |-> "interrogated", sig |-> s, val |-> v, gi |-> n]
Termination(n)      == [cot |-> "term", gi |-> n]
Confirmation(n)     == [cot |-> "con", gi |-> n]

Type(e) == IF e.cot = "term" THEN "C_IC_NA_1" ELSE asdu[e.sig]

\* events of one frame have one type and one cause
SamePack(e, f) == Type(e) = Type(f) /\ e.cot = f.cot

\* client_rec holds seq_lock until the interrogation is confirmed
FaultSeqLockFree == TRUE
SeqLockFree      == ~interrogated

-----------------------------------------------------------------------------
Init ==
    /\ asdu \in Tables /\ val = [s \in Signals |-> 0]
    /\ notify = [u \in Updaters |-> None]
    /\ gi_left = <<>> /\ gi_event = None /\ gi_count = 0 /\ interrogated = FALSE
    /\ startdt = FALSE /\ stops = 0 /\ late = 0
    /\ out_que = <<>>
    /\ pc = "get" /\ batch = <<>>
    /\ sent = <<>> /\ lost = <<>>

-----------------------------------------------------------------------------
(* update_val: the value changes under _lock; the event is put after it is  *)
(* released, so two updaters may put their events in either order           *)

Update(u) ==
    /\ notify[u] = None
    /\ \E s \in Signals :
          /\ val[s] < MaxUpdates
          /\ val' = [val EXCEPT ![s] = @ + 1]
          /\ notify' = IF s \in Commands THEN notify
                       ELSE [notify EXCEPT ![u] = Spontaneous(s, val[s] + 1)]
    /\ UNCHANGED <<asdu, receiver, control, out_que, sender, sent, lost>>

Notify(u) ==
    /\ notify[u] # None
    /\ out_que' = Append(out_que, notify[u])
    /\ notify' = [notify EXCEPT ![u] = None]
    /\ UNCHANGED <<asdu, val, receiver, control, sender, sent, lost>>

-----------------------------------------------------------------------------
(* The general interrogation in handle_i_frame.  client_rec holds seq_lock  *)
(* until it has sent the confirmation; out_que has a lock of its own.       *)

ReceiveGi ==
    /\ ~interrogated /\ gi_count < MaxGi
    /\ interrogated' = TRUE
    /\ gi_left' = GiOrder /\ gi_count' = gi_count + 1
    /\ UNCHANGED <<storage, gi_event, control, out_que, sender, sent, lost>>

\* the generator reads the signal without _lock
FaultGiRead ==
    /\ interrogated /\ gi_left # <<>>
    /\ LET s == Head(gi_left)
       IN  gi_event' = IF s \in Commands THEN None
                       ELSE Interrogated(s, val[s], gi_count)
    /\ gi_left' = Tail(gi_left)
    /\ UNCHANGED <<storage, gi_count, interrogated, control, out_que, sender, sent, lost>>
GiRead ==
    /\ interrogated /\ gi_event = None /\ gi_left # <<>>
    /\ LET s == Head(gi_left)
       IN  gi_event' = IF s \in Commands THEN None
                       ELSE Interrogated(s, val[s], gi_count)
    /\ gi_left' = Tail(gi_left)
    /\ UNCHANGED <<storage, gi_count, interrogated, control, out_que, sender, sent, lost>>

GiPut ==
    /\ gi_event # None
    /\ out_que' = Append(out_que, gi_event)
    /\ gi_event' = None
    /\ UNCHANGED <<storage, gi_left, gi_count, interrogated, control, sender, sent, lost>>

\* the termination is put, the confirmation is sent at once
GiConfirm ==
    /\ interrogated /\ gi_event = None /\ gi_left = <<>>
    /\ out_que' = Append(out_que, Termination(gi_count))
    /\ interrogated' = FALSE
    /\ sent' = Append(sent, Confirmation(gi_count))
    /\ UNCHANGED <<storage, gi_left, gi_event, gi_count, control, sender, lost>>

Receiver == GiRead \/ GiPut \/ GiConfirm

-----------------------------------------------------------------------------
(* handle_u_frame *)

StartDt ==
    /\ ~interrogated /\ ~startdt
    /\ startdt' = TRUE /\ late' = 0
    /\ UNCHANGED <<storage, receiver, stops, out_que, sender, sent, lost>>

StopDt ==
    /\ ~interrogated /\ startdt /\ stops < MaxStops
    /\ startdt' = FALSE /\ stops' = stops + 1
    /\ UNCHANGED <<late, storage, receiver, out_que, sender, sent, lost>>

-----------------------------------------------------------------------------
(* client_send.  It tests startdt_confirmed without a lock, the window and   *)
(* the number of the frame under seq_lock, and packs in between.             *)

SenderDiscard ==
    /\ pc = "get" /\ out_que # <<>> /\ ~startdt
    /\ lost' = Append(lost, Head(out_que))
    /\ out_que' = Tail(out_que)
    /\ UNCHANGED <<storage, receiver, control, sender, sent>>

FaultSenderTake ==
    /\ pc = "get" /\ out_que # <<>>
    /\ batch' = <<Head(out_que)>> /\ out_que' = Tail(out_que)
    /\ pc' = "window"
    /\ UNCHANGED <<storage, receiver, control, sent, lost>>
SenderTake ==
    /\ pc = "get" /\ out_que # <<>> /\ startdt
    /\ batch' = <<Head(out_que)>> /\ out_que' = Tail(out_que)
    /\ pc' = "window"
    /\ UNCHANGED <<storage, receiver, control, sent, lost>>

\* the window is full: the event is put back, behind all the others
FaultSenderBlocked ==
    /\ pc = "window" /\ SeqLockFree
    /\ out_que' = out_que \o batch
    /\ pc' = "pack"
    /\ UNCHANGED <<storage, receiver, control, batch, sent, lost>>
SenderBlocked ==
    /\ pc = "window" /\ SeqLockFree
    /\ out_que' = out_que \o batch /\ batch' = <<>>
    /\ pc' = "get"
    /\ UNCHANGED <<storage, receiver, control, sent, lost>>

SenderPass ==
    /\ pc = "window" /\ SeqLockFree
    /\ pc' = "pack"
    /\ UNCHANGED <<storage, receiver, control, out_que, batch, sent, lost>>

SenderPack ==
    /\ pc = "pack" /\ Len(batch) < MaxObj /\ out_que # <<>>
    /\ SamePack(Head(out_que), batch[1])
    /\ batch' = Append(batch, Head(out_que)) /\ out_que' = Tail(out_que)
    /\ UNCHANGED <<storage, receiver, control, pc, sent, lost>>

\* the next event does not match: it is put back, behind all the others
FaultSenderMismatch ==
    /\ pc = "pack" /\ Len(batch) < MaxObj /\ out_que # <<>>
    /\ ~SamePack(Head(out_que), batch[1])
    /\ out_que' = Append(Tail(out_que), Head(out_que)) \o batch /\ batch' = <<>>
    /\ pc' = "get"
    /\ UNCHANGED <<storage, receiver, control, sent, lost>>
SenderMismatch ==
    /\ pc = "pack" /\ Len(batch) < MaxObj /\ out_que # <<>>
    /\ ~SamePack(Head(out_que), batch[1])
    /\ out_que' = Append(Tail(out_que), Head(out_que))
    /\ pc' = "send"
    /\ UNCHANGED <<storage, receiver, control, batch, sent, lost>>

SenderPacked ==
    /\ pc = "pack" /\ (Len(batch) = MaxObj \/ out_que = <<>>)
    /\ pc' = "send"
    /\ UNCHANGED <<storage, receiver, control, out_que, batch, sent, lost>>

\* build_i_frame returns None for a type without an encoding
FaultSenderSend ==
    /\ pc = "send" /\ SeqLockFree
    /\ IF Type(batch[1]) \in Unsupported
       THEN lost' = lost \o batch /\ UNCHANGED <<sent, late>>
       ELSE sent' = sent \o batch /\ UNCHANGED <<lost, late>>
    /\ pc' = "get"
    /\ UNCHANGED <<storage, receiver, startdt, stops, out_que, batch>>
SenderSend ==
    /\ pc = "send" /\ SeqLockFree
    /\ IF Type(batch[1]) \in Unsupported
       THEN lost' = lost \o batch /\ UNCHANGED <<sent, late>>
       ELSE sent' = sent \o batch /\ lost' = lost
            /\ late' = IF startdt THEN late ELSE late + 1
    /\ batch' = <<>> /\ pc' = "get"
    /\ UNCHANGED <<storage, receiver, startdt, stops, out_que>>

\* An exception ends client_send with the batch in its hands: struct.error for a
\* value that the type cannot hold, which nothing catches, or an error or a timeout
\* of the send.
SenderDies ==
    /\ pc = "send" /\ SeqLockFree /\ Type(batch[1]) \notin Unsupported
    /\ lost' = lost \o batch /\ batch' = <<>>
    /\ pc' = "ended"
    /\ UNCHANGED <<storage, receiver, control, out_que, sent>>

\* stop_event is set, or a keepalive cannot be sent
SenderStops ==
    /\ pc = "get"
    /\ pc' = "ended"
    /\ UNCHANGED <<storage, receiver, control, out_que, batch, sent, lost>>

Sender ==
    \/ SenderDiscard \/ SenderTake \/ SenderBlocked \/ SenderPass
    \/ SenderPack \/ SenderMismatch \/ SenderPacked \/ SenderSend

-----------------------------------------------------------------------------
Next ==
    \/ \E u \in Updaters : Update(u) \/ Notify(u)
    \/ ReceiveGi \/ Receiver \/ StartDt \/ StopDt
    \/ Sender \/ SenderDies \/ SenderStops

Spec == Init /\ [][Next]_vars

\* Threads run whenever they can.  Nothing is assumed about the window: it may be
\* full whenever client_send tests it, and after an interrogation it may stay full
\* (WindowReopens of Session).  That client_send ends is a failure: it never must.
FairSpec ==
    /\ Spec
    /\ \A u \in Updaters : WF_vars(Notify(u))
    /\ WF_vars(Receiver) /\ WF_vars(Sender)

-----------------------------------------------------------------------------
(* Properties *)

Reported == Signals \ Commands

Events ==
    {Spontaneous(s, v) : s \in Reported, v \in 1 .. MaxUpdates}
    \union {Interrogated(s, v, n) : s \in Reported, v \in 0 .. MaxUpdates, n \in 1 .. MaxGi}
    \union {Termination(n) : n \in 1 .. MaxGi}

Confirmations == {Confirmation(n) : n \in 1 .. MaxGi}

TypeOK ==
    /\ asdu \in Tables /\ val \in [Signals -> 0 .. MaxUpdates]
    /\ notify \in [Updaters -> Events \union {None}]
    /\ gi_left \in Seq(Signals) /\ gi_event \in Events \union {None}
    /\ gi_count \in 0 .. MaxGi /\ interrogated \in BOOLEAN
    /\ startdt \in BOOLEAN /\ stops \in 0 .. MaxStops /\ late \in Nat
    /\ out_que \in Seq(Events) /\ batch \in Seq(Events) /\ lost \in Seq(Events)
    /\ pc \in {"get", "window", "pack", "send", "ended"}
    /\ pc \in {"get", "ended"} <=> batch = <<>>
    /\ Len(batch) <= MaxObj
    /\ sent \in Seq(Events \union Confirmations)

Elements(s) == {s[i] : i \in 1 .. Len(s)}

\* The session keeps the promise of Mailbox: an event that was put is sent or
\* lost exactly once, whatever is put back into the queue on the way, and every
\* termination is such an event.
Mail == INSTANCE Mailbox WITH
            pending   <- Elements(out_que) \union Elements(batch),
            delivered <- Elements(sent) \ Confirmations,
            dropped   <- Elements(lost)

DeliveredOnce == Mail!Spec

\* No event is put back for ever while frames are sent: it is taken, to be sent or
\* dropped, or client_send has ended, or it never again finds the window open.
EventuallyTaken ==
    \A e \in Events :
        LET waiting == e \in Elements(out_que) \union Elements(batch)
        IN  waiting ~> ~waiting \/ pc = "ended" \/ [](pc \notin {"pack", "send"})

\* The client sees the confirmation of an interrogation before the first value
\* and before the termination that answer it, although they are queued first.
ConfirmationFirst ==
    \A i \in 1 .. Len(sent) :
        sent[i].cot \in {"interrogated", "term"} =>
            \E j \in 1 .. i - 1 : sent[j] = Confirmation(sent[i].gi)

\* An interrogation answers for every reported signal: when its termination is
\* queued, sent or lost, so is a value of each of them.
InterrogationComplete ==
    LET seen == Elements(out_que) \union Elements(batch) \union Elements(sent) \union Elements(lost)
    IN  \A n \in 1 .. MaxGi : Termination(n) \in seen =>
            \A s \in Reported :
                \E v \in 0 .. val[s] : Interrogated(s, v, n) \in seen

\* startdt_confirmed is tested some steps before the frame is sent, without a lock: a
\* client that has stopped data transfer sees at most the one frame in the making.
OneLateFrame == late <= 1
=============================================================================
