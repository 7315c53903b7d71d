--------------------------- MODULE OutQueueProofs ---------------------------
(***************************************************************************)
(* Proofs about OutQueue, for any signals, tables, updaters and bounds: a  *)
(* session delivers what it is given exactly once (it implements Mailbox), *)
(* it confirms an interrogation before it answers and answers completely,  *)
(* and at most one frame is late.                                          *)
(***************************************************************************)
EXTENDS OutQueue, TLAPS

-----------------------------------------------------------------------------
(* The inductive invariant *)

Pending     == Elements(out_que) \union Elements(batch)
Seen        == Pending \union Elements(sent) \union Elements(lost)
NoRepeat(s) == \A i, j \in 1 .. Len(s) : s[i] = s[j] => i = j
Asked(e)    == e.cot \in {"interrogated", "term"}

\* An event is in one place, and there once.
Once ==
    /\ NoRepeat(out_que) /\ NoRepeat(batch)
    /\ Elements(out_que) \intersect Elements(batch) = {}
    /\ Pending \intersect (Elements(sent) \union Elements(lost)) = {}

\* What an updater has still to put is new, and so is every later change.
Reports ==
    /\ \A e \in Seen : e.cot = "spontaneous" => e.val <= val[e.sig]
    /\ \A u \in Updaters : notify[u] # None =>
          /\ notify[u].cot = "spontaneous" /\ notify[u].val <= val[notify[u].sig]
          /\ notify[u] \notin Seen
          /\ \A w \in Updaters : notify[w] = notify[u] => w = u

\* Interrogations are numbered.  The one that is being answered has not come to the
\* signals that are left, nor to its termination.
Answers ==
    /\ \A e \in Seen : Asked(e) => e.gi <= gi_count
    /\ interrogated => /\ gi_count > 0 /\ NoRepeat(gi_left) /\ Termination(gi_count) \notin Seen
                       /\ \A e \in Seen : e.cot = "interrogated" /\ e.gi = gi_count =>
                             e.sig \notin Elements(gi_left)
    /\ gi_event # None =>
          /\ interrogated /\ gi_event.cot = "interrogated" /\ gi_event.gi = gi_count
          /\ gi_event \notin Seen /\ gi_event.val <= val[gi_event.sig]
          /\ gi_event.sig \notin Elements(gi_left)

\* InterrogationComplete, with the interrogation that is being answered
Value(s, n) == \E v \in 0 .. val[s] : Interrogated(s, v, n) \in Seen
Complete ==
    /\ \A n \in 1 .. MaxGi : Termination(n) \in Seen => \A s \in Reported : Value(s, n)
    /\ interrogated => \A s \in Reported :
          \/ s \in Elements(gi_left) \/ Value(s, gi_count)
          \/ gi_event # None /\ gi_event.sig = s

\* Every interrogation that has been taken is confirmed, but for the one in hand.
Confirmed ==
    \A n \in 1 .. gi_count : n < gi_count \/ ~interrogated => Confirmation(n) \in Elements(sent)

\* A frame is late only if it was in the making when data transfer was stopped.
Late == late \in {0, 1} /\ (startdt \/ pc \notin {"get", "ended"} => late = 0)

IInv ==
    /\ TypeOK /\ Once /\ Reports /\ Answers /\ Complete /\ Confirmed /\ ConfirmationFirst /\ Late

-----------------------------------------------------------------------------
(* Lemmas about the elements of a queue *)

LEMMA AppendElements ==
    ASSUME NEW T, NEW s \in Seq(T), NEW e \in T
    PROVE  /\ Append(s, e) \in Seq(T) /\ Elements(Append(s, e)) = Elements(s) \union {e}
           /\ NoRepeat(s) /\ e \notin Elements(s) => NoRepeat(Append(s, e))
<1>1. /\ Append(s, e) \in Seq(T) /\ Len(Append(s, e)) = Len(s) + 1 /\ Len(s) \in Nat
      /\ \A i \in 1 .. Len(s) : Append(s, e)[i] = s[i]
      /\ Append(s, e)[Len(s) + 1] = e
  OBVIOUS
<1>2. Elements(Append(s, e)) = Elements(s) \union {e}
  BY <1>1 DEF Elements
<1>3. NoRepeat(s) /\ e \notin Elements(s) => NoRepeat(Append(s, e))
  <2> SUFFICES ASSUME NoRepeat(s), e \notin Elements(s),
                      NEW i \in 1 .. Len(s) + 1, NEW j \in 1 .. Len(s) + 1, Append(s, e)[i] = Append(s, e)[j]
               PROVE  i = j
    BY <1>1 DEF NoRepeat
  <2>1. \A k \in 1 .. Len(s) : s[k] # e
    BY DEF Elements
  <2> QED BY <1>1, <2>1 DEF NoRepeat
<1> QED BY <1>1, <1>2, <1>3

LEMMA ConcatElements ==
    ASSUME NEW T, NEW s \in Seq(T), NEW t \in Seq(T)
    PROVE  /\ s \o t \in Seq(T) /\ Elements(s \o t) = Elements(s) \union Elements(t)
           /\ NoRepeat(s) /\ NoRepeat(t) /\ Elements(s) \intersect Elements(t) = {} => NoRepeat(s \o t)
<1>1. /\ s \o t \in Seq(T) /\ Len(s \o t) = Len(s) + Len(t) /\ Len(s) \in Nat /\ Len(t) \in Nat
      /\ \A i \in 1 .. Len(s) : (s \o t)[i] = s[i]
      /\ \A i \in 1 .. Len(t) : (s \o t)[Len(s) + i] = t[i]
  OBVIOUS
<1>2. \A i \in 1 .. Len(s \o t) : i \in 1 .. Len(s) \/ (i - Len(s) \in 1 .. Len(t) /\ i = Len(s) + (i - Len(s)))
  BY <1>1
<1>3. Elements(s \o t) = Elements(s) \union Elements(t)
  <2>1. \A i \in 1 .. Len(s) : i \in 1 .. Len(s \o t)
    BY <1>1
  <2>2. \A i \in 1 .. Len(t) : Len(s) + i \in 1 .. Len(s \o t)
    BY <1>1
  <2>3. ASSUME NEW x PROVE x \in Elements(s \o t) => x \in Elements(s) \union Elements(t)
    BY <1>1, <1>2 DEF Elements
  <2>4. ASSUME NEW x PROVE x \in Elements(s) \union Elements(t) => x \in Elements(s \o t)
    <3>1. \A i \in 1 .. Len(s) : s[i] \in Elements(s \o t)
      BY <1>1, <2>1 DEF Elements
    <3>2. \A i \in 1 .. Len(t) : t[i] \in Elements(s \o t)
      BY <1>1, <2>2 DEF Elements
    <3>3. ASSUME x \in Elements(s) PROVE x \in Elements(s \o t)
      <4>1. PICK i \in 1 .. Len(s) : x = s[i]
        BY <3>3 DEF Elements
      <4> QED BY <3>1, <4>1
    <3>4. ASSUME x \in Elements(t) PROVE x \in Elements(s \o t)
      <4>1. PICK i \in 1 .. Len(t) : x = t[i]
        BY <3>4 DEF Elements
      <4> QED BY <3>2, <4>1
    <3> QED BY <3>3, <3>4
  <2> QED BY <2>3, <2>4
<1>4. ASSUME NoRepeat(s), NoRepeat(t), Elements(s) \intersect Elements(t) = {}
      PROVE  NoRepeat(s \o t)
  <2> SUFFICES ASSUME NEW i \in 1 .. Len(s \o t), NEW j \in 1 .. Len(s \o t), (s \o t)[i] = (s \o t)[j]
               PROVE  i = j
    BY DEF NoRepeat
  <2>1. CASE i \in 1 .. Len(s) /\ j \in 1 .. Len(s)
    BY <1>1, <1>4, <2>1 DEF NoRepeat
  <2>2. CASE i \notin 1 .. Len(s) /\ j \notin 1 .. Len(s)
    <3>1. t[i - Len(s)] = t[j - Len(s)] /\ i - Len(s) \in 1 .. Len(t) /\ j - Len(s) \in 1 .. Len(t)
      BY <1>1, <1>2, <2>2
    <3>2. i - Len(s) = j - Len(s)
      BY <1>4, <3>1 DEF NoRepeat
    <3> QED BY <1>1, <3>2
  <2>3. ASSUME NEW k \in 1 .. Len(s), NEW m \in 1 .. Len(s \o t), m \notin 1 .. Len(s),
               (s \o t)[k] = (s \o t)[m]
        PROVE  FALSE
    <3>1. s[k] = t[m - Len(s)] /\ m - Len(s) \in 1 .. Len(t)
      BY <1>1, <1>2, <2>3
    <3>2. s[k] \in Elements(s) /\ t[m - Len(s)] \in Elements(t)
      BY <3>1 DEF Elements
    <3> QED BY <1>4, <3>1, <3>2
  <2> QED BY <2>1, <2>2, <2>3
<1> QED BY <1>1, <1>3, <1>4

LEMMA TakeElements ==
    ASSUME NEW T, NEW s \in Seq(T), s # <<>>
    PROVE  /\ Head(s) \in T /\ Tail(s) \in Seq(T) /\ Elements(s) = Elements(Tail(s)) \union {Head(s)}
           /\ NoRepeat(s) => NoRepeat(Tail(s)) /\ Head(s) \notin Elements(Tail(s))
<1>1. /\ Head(s) \in T /\ Tail(s) \in Seq(T) /\ Head(s) = s[1]
      /\ Len(s) \in Nat /\ Len(s) > 0 /\ Len(Tail(s)) = Len(s) - 1
      /\ \A i \in 1 .. Len(Tail(s)) : Tail(s)[i] = s[i + 1]
  OBVIOUS
<1>2. \A i \in 1 .. Len(s) : i = 1 \/ (i - 1 \in 1 .. Len(Tail(s)) /\ i = (i - 1) + 1)
  BY <1>1
<1>3. Elements(s) = Elements(Tail(s)) \union {Head(s)}
  <2>1. ASSUME NEW x \in Elements(s) PROVE x \in Elements(Tail(s)) \union {Head(s)}
    <3>1. PICK i \in 1 .. Len(s) : x = s[i]
      BY <2>1 DEF Elements
    <3>2. CASE i = 1
      BY <1>1, <3>1, <3>2
    <3>3. CASE i # 1
      <4>1. i - 1 \in 1 .. Len(Tail(s)) /\ s[i] = Tail(s)[i - 1]
        BY <1>1, <1>2, <3>3
      <4> QED BY <3>1, <4>1 DEF Elements
    <3> QED BY <3>2, <3>3
  <2>2. ASSUME NEW x \in Elements(Tail(s)) PROVE x \in Elements(s)
    <3>1. PICK i \in 1 .. Len(Tail(s)) : x = Tail(s)[i]
      BY <2>2 DEF Elements
    <3>2. i + 1 \in 1 .. Len(s) /\ x = s[i + 1]
      BY <1>1, <3>1
    <3> QED BY <3>2 DEF Elements
  <2>3. Head(s) \in Elements(s)
    <3>1. 1 \in 1 .. Len(s) /\ Head(s) = s[1]
      BY <1>1
    <3> QED BY <3>1 DEF Elements
  <2> QED BY <2>1, <2>2, <2>3
<1>4. NoRepeat(s) => NoRepeat(Tail(s)) /\ Head(s) \notin Elements(Tail(s))
  BY <1>1, <1>2 DEF Elements, NoRepeat
<1> QED BY <1>1, <1>3, <1>4

LEMMA EmptyElements == Elements(<<>>) = {} /\ NoRepeat(<<>>)
BY DEF Elements, NoRepeat

LEMMA SingleElements ==
    ASSUME NEW T, NEW e \in T
    PROVE  <<e>> \in Seq(T) /\ Len(<<e>>) = 1 /\ Elements(<<e>>) = {e} /\ NoRepeat(<<e>>)
BY DEF Elements, NoRepeat

LEMMA WiderSeq ==
    ASSUME NEW T, NEW U, T \subseteq U, NEW s \in Seq(T)
    PROVE  s \in Seq(U) /\ Elements(s) \subseteq T
BY DEF Elements

-----------------------------------------------------------------------------
(* Lemmas about events *)

LEMMA Bounds == MaxObj \in Nat \ {0} /\ MaxUpdates \in Nat /\ MaxGi \in Nat /\ MaxStops \in Nat
BY OutQueueAssumption DEF OutQueueAssumption

USE Bounds

LEMMA EventKinds ==
    ASSUME NEW e \in Events
    PROVE  /\ e.cot \in {"spontaneous", "interrogated", "term"}
           /\ e.cot = "spontaneous" =>
                 e.sig \in Reported /\ e.val \in 1 .. MaxUpdates /\ e = Spontaneous(e.sig, e.val)
           /\ e.cot = "interrogated" =>
                 /\ e.sig \in Reported /\ e.val \in 0 .. MaxUpdates /\ e.gi \in 1 .. MaxGi
                 /\ e = Interrogated(e.sig, e.val, e.gi)
           /\ e.cot = "term" => e.gi \in 1 .. MaxGi /\ e = Termination(e.gi)
           /\ e # None /\ e \notin Confirmations
BY DEF Events, Spontaneous, Interrogated, Termination, Confirmation, Confirmations, None

LEMMA NewEvents ==
    /\ \A s \in Reported, v \in 1 .. MaxUpdates :
          /\ Spontaneous(s, v) \in Events /\ Spontaneous(s, v).cot = "spontaneous"
          /\ Spontaneous(s, v).sig = s /\ Spontaneous(s, v).val = v
    /\ \A s \in Reported, v \in 0 .. MaxUpdates, n \in 1 .. MaxGi :
          /\ Interrogated(s, v, n) \in Events /\ Interrogated(s, v, n).cot = "interrogated"
          /\ Interrogated(s, v, n).sig = s /\ Interrogated(s, v, n).val = v
          /\ Interrogated(s, v, n).gi = n
    /\ \A n \in 1 .. MaxGi :
          /\ Termination(n) \in Events /\ Termination(n).cot = "term" /\ Termination(n).gi = n
          /\ Confirmation(n) \in Confirmations /\ Confirmation(n).cot = "con"
<1>1. \A s \in Reported, v \in 1 .. MaxUpdates : Spontaneous(s, v) \in Events
  BY DEF Events
<1>2. \A s \in Reported, v \in 0 .. MaxUpdates, n \in 1 .. MaxGi : Interrogated(s, v, n) \in Events
  BY DEF Events
<1>3. \A n \in 1 .. MaxGi : Termination(n) \in Events /\ Confirmation(n) \in Confirmations
  BY DEF Events, Confirmations
<1> QED BY <1>1, <1>2, <1>3 DEF Spontaneous, Interrogated, Termination, Confirmation

-----------------------------------------------------------------------------
(* The invariant is inductive: client_send *)

\* The parts about the storage and the interrogations speak of what was seen, wherever
\* in the session it is.
LEMMA SeenOnly ==
    ASSUME IInv, UNCHANGED <<storage, receiver>>, Seen' = Seen,
           Elements(sent) \subseteq Elements(sent')
    PROVE  Reports' /\ Answers' /\ Complete' /\ Confirmed'
<1> USE DEF IInv, storage, receiver
<1>1. Reports'
  BY DEF Reports
<1>2. Answers'
  BY DEF Answers
<1>3. Complete'
  BY DEF Complete, Value
<1>4. Confirmed'
  BY DEF Confirmed
<1> QED BY <1>1, <1>2, <1>3, <1>4

\* What client_send does before it sends.
Packing ==
    \/ SenderDiscard \/ SenderTake \/ SenderBlocked \/ SenderPass
    \/ SenderPack \/ SenderMismatch \/ SenderPacked

LEMMA PackMoves ==
    ASSUME IInv, Packing
    PROVE  /\ out_que' \in Seq(Events) /\ batch' \in Seq(Events) /\ lost' \in Seq(Events)
           /\ pc' \in {"get", "window", "pack", "send"} /\ (pc' \in {"get", "ended"} <=> batch' = <<>>)
           /\ Len(batch') <= MaxObj
           /\ Once' /\ Seen' = Seen
           /\ \/ Pending' = Pending /\ UNCHANGED lost
              \/ \E e \in Pending : /\ Pending' = Pending \ {e}
                                    /\ Elements(lost') = Elements(lost) \union {e}
<1> USE DEF IInv, Packing
<1>1. /\ out_que \in Seq(Events) /\ batch \in Seq(Events) /\ lost \in Seq(Events)
      /\ Len(batch) \in Nat /\ Len(batch) <= MaxObj /\ (pc \in {"get", "ended"} <=> batch = <<>>)
  BY DEF TypeOK
<1>2. CASE SenderDiscard
  <2>1. /\ Head(out_que) \in Events /\ Tail(out_que) \in Seq(Events)
        /\ Elements(out_que) = Elements(Tail(out_que)) \union {Head(out_que)}
        /\ NoRepeat(Tail(out_que)) /\ Head(out_que) \notin Elements(Tail(out_que))
    BY <1>1, <1>2, TakeElements DEF SenderDiscard, Once
  <2>2. lost' \in Seq(Events) /\ Elements(lost') = Elements(lost) \union {Head(out_que)}
    BY <1>1, <1>2, <2>1, AppendElements DEF SenderDiscard
  <2>3. out_que' = Tail(out_que) /\ pc = "get" /\ UNCHANGED <<pc, batch, sent>>
    BY <1>2 DEF SenderDiscard, sender
  <2>4. Once' /\ Seen' = Seen
    BY <1>1, <2>1, <2>2, <2>3 DEF Once, Seen, Pending
  <2>5. /\ Head(out_que) \in Pending /\ Pending' = Pending \ {Head(out_que)}
        /\ Elements(lost') = Elements(lost) \union {Head(out_que)}
    BY <2>1, <2>2, <2>3 DEF Once, Pending
  <2>6. /\ pc' \in {"get", "window", "pack", "send"} /\ (pc' \in {"get", "ended"} <=> batch' = <<>>)
        /\ batch' \in Seq(Events) /\ Len(batch') <= MaxObj
    BY <1>1, <2>3 DEF TypeOK
  <2> QED BY <2>1, <2>2, <2>3, <2>4, <2>5, <2>6
<1>3. CASE SenderTake
  <2>1. /\ Head(out_que) \in Events /\ Tail(out_que) \in Seq(Events)
        /\ Elements(out_que) = Elements(Tail(out_que)) \union {Head(out_que)}
        /\ NoRepeat(Tail(out_que)) /\ Head(out_que) \notin Elements(Tail(out_que))
    BY <1>1, <1>3, TakeElements DEF SenderTake, Once
  <2>2. /\ batch' \in Seq(Events) /\ Len(batch') = 1 /\ Elements(batch') = {Head(out_que)}
        /\ NoRepeat(batch') /\ batch' # <<>>
    BY <1>3, <2>1, SingleElements DEF SenderTake
  <2>3. out_que' = Tail(out_que) /\ batch = <<>> /\ pc' = "window" /\ UNCHANGED <<sent, lost>>
    BY <1>1, <1>3 DEF SenderTake
  <2> QED BY <1>1, <2>1, <2>2, <2>3, EmptyElements DEF Once, Seen, Pending
<1>4. CASE SenderBlocked
  <2>1. /\ out_que' \in Seq(Events) /\ Elements(out_que') = Elements(out_que) \union Elements(batch)
        /\ NoRepeat(out_que')
    BY <1>1, <1>4, ConcatElements DEF SenderBlocked, Once
  <2>2. batch' = <<>> /\ pc' = "get" /\ UNCHANGED <<sent, lost>>
    BY <1>4 DEF SenderBlocked
  <2> QED BY <1>1, <2>1, <2>2, EmptyElements DEF Once, Seen, Pending
<1>5. CASE SenderPass \/ SenderPacked
  BY <1>1, <1>5 DEF SenderPass, SenderPacked, Once, Seen, Pending
<1>6. CASE SenderPack
  <2>1. /\ Head(out_que) \in Events /\ Tail(out_que) \in Seq(Events)
        /\ Elements(out_que) = Elements(Tail(out_que)) \union {Head(out_que)}
        /\ NoRepeat(Tail(out_que)) /\ Head(out_que) \notin Elements(Tail(out_que))
    BY <1>1, <1>6, TakeElements DEF SenderPack, Once
  <2>2. Head(out_que) \notin Elements(batch)
    BY <2>1 DEF Once, Pending
  <2>3. /\ batch' \in Seq(Events) /\ Elements(batch') = Elements(batch) \union {Head(out_que)}
        /\ NoRepeat(batch') /\ Len(batch') = Len(batch) + 1 /\ batch' # <<>>
    <3>1. batch' = Append(batch, Head(out_que))
      BY <1>6 DEF SenderPack
    <3>2. /\ batch' \in Seq(Events) /\ Elements(batch') = Elements(batch) \union {Head(out_que)}
          /\ NoRepeat(batch')
      BY <1>1, <2>1, <2>2, <3>1, AppendElements DEF Once, Pending
    <3>3. Len(batch') = Len(batch) + 1 /\ batch' # <<>>
      BY <1>1, <2>1, <3>1
    <3> QED BY <3>2, <3>3
  <2>4. /\ out_que' = Tail(out_que) /\ pc = "pack" /\ pc' = "pack" /\ Len(batch) < MaxObj
        /\ UNCHANGED <<sent, lost>>
    BY <1>6 DEF SenderPack
  <2> QED BY <1>1, <2>1, <2>2, <2>3, <2>4 DEF Once, Seen, Pending
<1>7. CASE SenderMismatch
  <2>1. /\ Head(out_que) \in Events /\ Tail(out_que) \in Seq(Events)
        /\ Elements(out_que) = Elements(Tail(out_que)) \union {Head(out_que)}
        /\ NoRepeat(Tail(out_que)) /\ Head(out_que) \notin Elements(Tail(out_que))
    BY <1>1, <1>7, TakeElements DEF SenderMismatch, Once
  <2>2. /\ out_que' \in Seq(Events) /\ NoRepeat(out_que') /\ Elements(out_que') = Elements(out_que)
    <3>1. out_que' = Append(Tail(out_que), Head(out_que))
      BY <1>7 DEF SenderMismatch
    <3>2. /\ out_que' \in Seq(Events) /\ NoRepeat(out_que')
          /\ Elements(out_que') = Elements(Tail(out_que)) \union {Head(out_que)}
      <4>1. PICK q \in Seq(Events) : q = Tail(out_que)
        BY <2>1
      <4>2. PICK e \in Events : e = Head(out_que)
        BY <2>1
      <4>3. NoRepeat(q) /\ e \notin Elements(q) /\ q \in Seq(Events) /\ e \in Events
        BY <2>1, <4>1, <4>2
      <4>4. /\ Append(q, e) \in Seq(Events) /\ NoRepeat(Append(q, e))
            /\ Elements(Append(q, e)) = Elements(q) \union {e}
        BY <4>3, AppendElements
      <4> QED BY <3>1, <4>1, <4>2, <4>4
    <3> QED BY <2>1, <3>2
  <2>3. pc = "pack" /\ pc' = "send" /\ UNCHANGED <<batch, sent, lost>>
    BY <1>7 DEF SenderMismatch
  <2> QED BY <1>1, <2>2, <2>3 DEF Once, Seen, Pending
<1> QED BY <1>2, <1>3, <1>4, <1>5, <1>6, <1>7

LEMMA PackStep ==
    ASSUME IInv, Packing
    PROVE  IInv'
<1> USE DEF IInv
<1>1. /\ out_que' \in Seq(Events) /\ batch' \in Seq(Events) /\ lost' \in Seq(Events)
      /\ pc' \in {"get", "window", "pack", "send"} /\ (pc' \in {"get", "ended"} <=> batch' = <<>>)
      /\ Len(batch') <= MaxObj
      /\ Once' /\ Seen' = Seen
  BY PackMoves
<1>2. UNCHANGED <<storage, receiver, control, sent>>
  BY DEF Packing, SenderDiscard, SenderTake, SenderBlocked, SenderPass, SenderPack, SenderMismatch, SenderPacked
<1>3. TypeOK'
  BY <1>1, <1>2 DEF TypeOK, storage, receiver, control
<1>4. Reports' /\ Answers' /\ Complete' /\ Confirmed' /\ ConfirmationFirst'
  BY <1>1, <1>2, SeenOnly DEF ConfirmationFirst
<1>5. Late'
  <2>1. UNCHANGED <<startdt, late>> /\ (startdt \/ pc' = "get" \/ pc \notin {"get", "ended"})
    BY <1>2 DEF control, sender, Packing, SenderDiscard, SenderTake, SenderBlocked, SenderPass, SenderPack,
                SenderMismatch, SenderPacked
  <2> QED BY <2>1 DEF Late
<1> QED BY <1>1, <1>3, <1>4, <1>5

\* The batch is sent, or has no encoding, or client_send ends with it in its hands.
LEMMA SendMoves ==
    ASSUME IInv, SenderSend \/ SenderDies
    PROVE  /\ UNCHANGED <<storage, receiver, startdt, stops, out_que>>
           /\ batch' = <<>> /\ pc' \in {"get", "ended"}
           /\ lost' \in Seq(Events) /\ sent' \in Seq(Events \union Confirmations)
           /\ \/ /\ Elements(lost') = Elements(lost) \union Elements(batch)
                 /\ UNCHANGED <<sent, late>>
              \/ /\ Elements(sent') = Elements(sent) \union Elements(batch) /\ sent' = sent \o batch
                 /\ UNCHANGED lost /\ late' = IF startdt THEN late ELSE late + 1
<1>1. /\ batch \in Seq(Events) /\ lost \in Seq(Events)
      /\ sent \in Seq(Events \union Confirmations) /\ batch \in Seq(Events \union Confirmations)
  BY WiderSeq DEF IInv, TypeOK
<1>2. /\ UNCHANGED <<storage, receiver, startdt, stops, out_que>>
      /\ batch' = <<>> /\ pc' \in {"get", "ended"}
  BY DEF SenderSend, SenderDies, control
<1>3. CASE SenderDies \/ Type(batch[1]) \in Unsupported
  <2>1. lost' = lost \o batch /\ UNCHANGED <<sent, late>>
    BY <1>3 DEF SenderSend, SenderDies, control
  <2> QED BY <1>1, <1>2, <2>1, ConcatElements
<1>4. CASE SenderSend /\ Type(batch[1]) \notin Unsupported
  <2>1. sent' = sent \o batch /\ lost' = lost /\ late' = IF startdt THEN late ELSE late + 1
    BY <1>4 DEF SenderSend
  <2> QED BY <1>1, <1>2, <2>1, ConcatElements
<1> QED BY <1>3, <1>4

\* Nothing is sent between an interrogation and its confirmation.
LEMMA SendStep ==
    ASSUME IInv, SenderSend \/ SenderDies
    PROVE  IInv'
<1> USE DEF IInv
<1>1. /\ out_que \in Seq(Events) /\ batch \in Seq(Events) /\ lost \in Seq(Events)
      /\ sent \in Seq(Events \union Confirmations) /\ batch \in Seq(Events \union Confirmations)
  BY WiderSeq DEF TypeOK
<1>2. /\ UNCHANGED <<storage, receiver, startdt, stops, out_que>>
      /\ batch' = <<>> /\ pc' \in {"get", "ended"} /\ ~interrogated /\ pc = "send"
  BY DEF SenderSend, SenderDies, SeqLockFree, control
<1>3. /\ lost' \in Seq(Events) /\ sent' \in Seq(Events \union Confirmations)
      /\ \/ /\ Elements(lost') = Elements(lost) \union Elements(batch)
            /\ UNCHANGED <<sent, late>>
         \/ /\ Elements(sent') = Elements(sent) \union Elements(batch) /\ sent' = sent \o batch
            /\ UNCHANGED lost /\ late' = IF startdt THEN late ELSE late + 1
  BY SendMoves
<1>4. TypeOK'
  BY <1>2, <1>3 DEF TypeOK, storage, receiver
<1>5. Once' /\ Seen' = Seen
  BY <1>2, <1>3, EmptyElements DEF Once, Seen, Pending
<1>6. Reports' /\ Answers' /\ Complete' /\ Confirmed'
  BY <1>2, <1>3, <1>5, SeenOnly
<1>7. ConfirmationFirst'
  <2>1. CASE UNCHANGED sent
    BY <2>1 DEF ConfirmationFirst
  <2>2. CASE sent' = sent \o batch
    <3>1. /\ Len(sent') = Len(sent) + Len(batch) /\ Len(sent) \in Nat /\ Len(batch) \in Nat
          /\ \A i \in 1 .. Len(sent) : sent'[i] = sent[i]
          /\ \A i \in 1 .. Len(batch) : sent'[Len(sent) + i] = batch[i]
      BY <1>1, <2>2
    <3>2. ASSUME NEW i \in 1 .. Len(sent'), Asked(sent'[i])
          PROVE  \E j \in 1 .. i - 1 : sent'[j] = Confirmation(sent'[i].gi)
      <4>1. CASE i \in 1 .. Len(sent)
        <5>1. PICK j \in 1 .. i - 1 : sent[j] = Confirmation(sent[i].gi)
          BY <3>1, <3>2, <4>1 DEF ConfirmationFirst, Asked
        <5>2. j \in 1 .. Len(sent) /\ sent'[j] = sent[j] /\ sent'[i] = sent[i]
          BY <3>1, <4>1, <5>1
        <5> QED BY <5>1, <5>2
      <4>2. CASE i \notin 1 .. Len(sent)
        <5>1. i - Len(sent) \in 1 .. Len(batch) /\ sent'[i] = batch[i - Len(sent)]
          BY <3>1, <4>2
        <5>2. sent'[i] \in Elements(batch) /\ sent'[i] \in Events
          BY <1>1, <5>1 DEF Elements
        <5>3. sent'[i].gi \in 1 .. gi_count
          BY <3>2, <5>2, EventKinds DEF Answers, Seen, Pending, Asked, TypeOK
        <5>4. Confirmation(sent'[i].gi) \in Elements(sent)
          BY <1>2, <5>3 DEF Confirmed
        <5> QED BY <3>1, <4>2, <5>4 DEF Elements
      <4> QED BY <4>1, <4>2
    <3> QED BY <3>2 DEF ConfirmationFirst, Asked
  <2> QED BY <1>3, <2>1, <2>2
<1>8. Late'
  BY <1>2, <1>3 DEF Late
<1> QED BY <1>4, <1>5, <1>6, <1>7, <1>8

-----------------------------------------------------------------------------
(* The invariant is inductive: the storage *)

LEMMA UpdateStep ==
    ASSUME IInv, NEW u \in Updaters, Update(u)
    PROVE  IInv'
<1> USE DEF IInv
<1>1. PICK s \in Signals :
          /\ val[s] < MaxUpdates /\ val' = [val EXCEPT ![s] = @ + 1]
          /\ notify' = IF s \in Commands THEN notify ELSE [notify EXCEPT ![u] = Spontaneous(s, val[s] + 1)]
  BY DEF Update
<1>2. /\ notify[u] = None /\ UNCHANGED <<asdu, receiver, control, out_que, sender, sent, lost>>
  BY DEF Update
<1>3. /\ val \in [Signals -> 0 .. MaxUpdates] /\ val' \in [Signals -> 0 .. MaxUpdates]
      /\ \A t \in Signals : val[t] <= val'[t] /\ val[t] \in Nat /\ val'[t] \in Nat
      /\ val'[s] = val[s] + 1
  <2>1. val \in [Signals -> 0 .. MaxUpdates] /\ val[s] \in 0 .. MaxUpdates
    BY DEF TypeOK
  <2>2. val[s] + 1 \in 0 .. MaxUpdates /\ \A t \in Signals : val[t] \in Nat /\ val[t] <= val[t]
    BY <1>1, <2>1
  <2>3. \A t \in Signals : val'[t] = IF t = s THEN val[s] + 1 ELSE val[t]
    BY <1>1, <2>1
  <2>4. val' \in [Signals -> 0 .. MaxUpdates]
    BY <1>1, <2>1, <2>2
  <2> QED BY <2>1, <2>2, <2>3, <2>4
<1>4. Seen' = Seen /\ Once'
  BY <1>2 DEF Seen, Pending, Once, sender
<1>5. /\ \A e \in Seen : e.cot \in {"spontaneous", "interrogated"} => e.sig \in Signals /\ e.val \in Nat
      /\ \A e \in Events : e.cot \in {"spontaneous", "interrogated"} => e.sig \in Signals /\ e.val \in Nat
  <2>1. Seen \subseteq Events \union Confirmations
    <3>1. /\ Elements(out_que) \subseteq Events /\ Elements(batch) \subseteq Events
          /\ Elements(lost) \subseteq Events /\ Elements(sent) \subseteq Events \union Confirmations
      BY DEF TypeOK, Elements
    <3> QED BY <3>1 DEF Seen, Pending
  <2>2. \A e \in Confirmations : e.cot = "con"
    BY DEF Confirmations, Confirmation
  <2>3. \A e \in Events : e.cot \in {"spontaneous", "interrogated"} => e.sig \in Signals /\ e.val \in Nat
    BY EventKinds DEF Reported
  <2> QED BY <2>1, <2>2, <2>3
<1>6. \A w \in Updaters :
          \/ notify'[w] = notify[w]
          \/ /\ w = u /\ s \in Reported /\ val[s] + 1 \in 1 .. MaxUpdates
             /\ notify'[w] = Spontaneous(s, val[s] + 1)
  BY <1>1, <1>3 DEF TypeOK, Reported
<1>7. DOMAIN notify' = Updaters /\ notify' \in [Updaters -> Events \union {None}]
  <2>1. s \notin Commands => Spontaneous(s, val[s] + 1) \in Events
    BY <1>1, <1>3, NewEvents DEF Reported
  <2> QED BY <1>1, <2>1 DEF TypeOK
<1>8. TypeOK'
  BY <1>2, <1>3, <1>7 DEF TypeOK, receiver, control, sender
<1>9. Reports'
  <2>1. \A e \in Seen : e.cot = "spontaneous" => e.val <= val'[e.sig]
    BY <1>3, <1>5 DEF Reports
  <2>2. ASSUME NEW w \in Updaters, notify'[w] # None
        PROVE  /\ notify'[w].cot = "spontaneous" /\ notify'[w].val <= val'[notify'[w].sig]
               /\ notify'[w] \notin Seen
    <3>1. CASE notify'[w] = notify[w]
      <4>1. notify[w] \in Events
        BY <2>2, <3>1 DEF TypeOK
      <4> QED BY <1>3, <1>5, <2>2, <3>1, <4>1 DEF Reports
    <3>2. CASE /\ s \in Reported /\ val[s] + 1 \in 1 .. MaxUpdates
               /\ notify'[w] = Spontaneous(s, val[s] + 1)
      <4>1. notify'[w].cot = "spontaneous" /\ notify'[w].sig = s /\ notify'[w].val = val[s] + 1
        BY <3>2, NewEvents
      <4> QED BY <1>3, <4>1 DEF Reports
    <3> QED BY <1>6, <3>1, <3>2
  <2>3. ASSUME NEW w \in Updaters, NEW x \in Updaters, notify'[w] # None, notify'[x] = notify'[w]
        PROVE  x = w
    <3>1. ASSUME NEW y \in Updaters, notify'[y] = notify[y], notify[y] # None
          PROVE  notify[y] # Spontaneous(s, val[s] + 1)
      <4>1. notify[y] \in Events /\ notify[y].cot = "spontaneous" /\ notify[y].val <= val[notify[y].sig]
        BY <3>1 DEF Reports, TypeOK
      <4>2. Spontaneous(s, val[s] + 1).sig = s /\ Spontaneous(s, val[s] + 1).val = val[s] + 1
        BY DEF Spontaneous
      <4> QED BY <1>3, <4>1, <4>2
    <3>2. CASE notify'[w] = notify[w] /\ notify'[x] = notify[x]
      BY <2>3, <3>2 DEF Reports
    <3> QED BY <1>6, <2>3, <3>1, <3>2
  <2> QED BY <1>4, <2>1, <2>2, <2>3 DEF Reports
<1>10. Answers'
  <2>1. gi_event # None => gi_event.sig \in Signals /\ gi_event.val \in Nat
    BY <1>5 DEF Answers, TypeOK
  <2> QED BY <1>2, <1>3, <1>4, <2>1 DEF Answers, receiver
<1>11. Complete'
  <2>1. ASSUME NEW t \in Reported, NEW n, Value(t, n)
        PROVE  Value(t, n)'
    <3>1. t \in Signals
      BY DEF Reported
    <3>2. PICK v \in 0 .. val[t] : Interrogated(t, v, n) \in Seen
      BY <2>1 DEF Value
    <3>3. v \in 0 .. val'[t]
      BY <1>3, <3>1, <3>2
    <3> QED BY <1>4, <3>2, <3>3 DEF Value
  <2> QED BY <1>2, <1>4, <2>1 DEF Complete, receiver
<1>12. Confirmed' /\ ConfirmationFirst' /\ Late'
  BY <1>2 DEF Confirmed, ConfirmationFirst, Late, receiver, control, sender
<1> QED BY <1>4, <1>8, <1>9, <1>10, <1>11, <1>12

\* A new event at the end of the queue.
LEMMA PutNew ==
    ASSUME IInv, NEW e \in Events, e \notin Seen, out_que' = Append(out_que, e),
           UNCHANGED <<sender, lost>>
    PROVE  /\ out_que' \in Seq(Events) /\ Elements(out_que') = Elements(out_que) \union {e}
           /\ UNCHANGED sent => Once' /\ Seen' = Seen \union {e}
<1> USE DEF IInv
<1>1. out_que \in Seq(Events) /\ NoRepeat(out_que) /\ e \notin Elements(out_que)
  BY DEF TypeOK, Once, Seen, Pending
<1>2. /\ out_que' \in Seq(Events) /\ Elements(out_que') = Elements(out_que) \union {e}
      /\ NoRepeat(out_que')
  BY <1>1, AppendElements
<1>3. UNCHANGED sent => Once' /\ Seen' = Seen \union {e}
  BY <1>2 DEF Once, Seen, Pending, sender
<1> QED BY <1>2, <1>3

LEMMA NotifyStep ==
    ASSUME IInv, NEW u \in Updaters, Notify(u)
    PROVE  IInv'
<1> USE DEF IInv
<1>1. /\ notify[u] # None /\ out_que' = Append(out_que, notify[u])
      /\ notify' = [notify EXCEPT ![u] = None]
      /\ UNCHANGED <<asdu, val, receiver, control, sender, sent, lost>>
  BY DEF Notify
<1>2. PICK e \in Events : e = notify[u]
  BY <1>1 DEF TypeOK
<1>3. /\ e.cot = "spontaneous" /\ e.val <= val[e.sig] /\ e \notin Seen
      /\ \A w \in Updaters : w # u => notify[w] # e
  BY <1>1, <1>2 DEF Reports
<1>4. /\ out_que' \in Seq(Events) /\ Elements(out_que') = Elements(out_que) \union {e}
      /\ Once' /\ Seen' = Seen \union {e}
  BY <1>1, <1>2, <1>3, PutNew
<1>5. /\ \A w \in Updaters : notify'[w] = IF w = u THEN None ELSE notify[w]
      /\ notify' \in [Updaters -> Events \union {None}]
  BY <1>1 DEF TypeOK
<1>6. TypeOK'
  BY <1>1, <1>4, <1>5 DEF TypeOK, receiver, control, sender
<1>7. Reports'
  BY <1>1, <1>3, <1>4, <1>5 DEF Reports
<1>8. Answers'
  BY <1>1, <1>3, <1>4 DEF Answers, Asked, Termination, receiver
<1>9. Complete'
  BY <1>1, <1>3, <1>4 DEF Complete, Value, Termination, receiver
<1>10. Confirmed' /\ ConfirmationFirst' /\ Late'
  BY <1>1 DEF Confirmed, ConfirmationFirst, Late, receiver, control, sender
<1> QED BY <1>4, <1>6, <1>7, <1>8, <1>9, <1>10

-----------------------------------------------------------------------------
(* The invariant is inductive: handle_i_frame and handle_u_frame *)

LEMMA ReceiveGiStep ==
    ASSUME IInv, ReceiveGi
    PROVE  IInv'
<1> USE DEF IInv
<1>1. /\ ~interrogated /\ gi_count < MaxGi /\ interrogated' = TRUE
      /\ gi_left' = GiOrder /\ gi_count' = gi_count + 1
      /\ UNCHANGED <<storage, gi_event, control, out_que, sender, sent, lost>>
  BY DEF ReceiveGi
<1>2. /\ GiOrder \in Seq(Signals) /\ NoRepeat(GiOrder)
      /\ \A s \in Reported : s \in Elements(GiOrder)
  BY OutQueueAssumption DEF OutQueueAssumption, NoRepeat, Elements, Reported
<1>3. gi_event = None /\ gi_count \in Nat /\ gi_count + 1 \in 1 .. MaxGi
  BY <1>1 DEF Answers, TypeOK
<1>4. Seen' = Seen /\ Once'
  BY <1>1 DEF Seen, Pending, Once, sender
<1>5. TypeOK'
  BY <1>1, <1>2, <1>3 DEF TypeOK, storage, control, sender
<1>6. Reports'
  BY <1>1, <1>4 DEF Reports, storage
<1>7. Answers'
  <2>1. \A e \in Seen : Asked(e) => e.gi \in Nat /\ e.gi < gi_count + 1
    <3>1. ASSUME NEW e \in Seen, Asked(e) PROVE e.gi \in Nat /\ e.gi < gi_count + 1
      <4>1. e \in Events
        <5>1. e \in Events \union Confirmations
          BY DEF Seen, Pending, TypeOK, Elements
        <5> QED BY <3>1, <5>1 DEF Asked, Confirmations, Confirmation
      <4>2. e.gi \in Nat
        BY <3>1, <4>1, EventKinds DEF Asked
      <4> QED BY <1>3, <3>1, <4>2 DEF Answers
    <3> QED BY <3>1
  <2>2. \A e \in Seen : Asked(e) => e.gi <= gi_count + 1 /\ e.gi # gi_count + 1
    BY <1>3, <2>1
  <2>3. Termination(gi_count + 1) \notin Seen
    BY <2>2 DEF Termination, Asked
  <2> QED BY <1>1, <1>2, <1>3, <1>4, <2>2, <2>3 DEF Answers, Asked
<1>8. Complete'
  BY <1>1, <1>2, <1>4 DEF Complete, Value, storage
<1>9. Confirmed'
  BY <1>1, <1>3 DEF Confirmed
<1>10. ConfirmationFirst' /\ Late'
  BY <1>1 DEF ConfirmationFirst, Late, control, sender
<1> QED BY <1>4, <1>5, <1>6, <1>7, <1>8, <1>9, <1>10

LEMMA GiReadStep ==
    ASSUME IInv, GiRead
    PROVE  IInv'
<1> USE DEF IInv
<1>1. /\ interrogated /\ gi_event = None /\ gi_left # <<>> /\ gi_left' = Tail(gi_left)
      /\ gi_event' = IF Head(gi_left) \in Commands THEN None
                     ELSE Interrogated(Head(gi_left), val[Head(gi_left)], gi_count)
      /\ UNCHANGED <<storage, gi_count, interrogated, control, out_que, sender, sent, lost>>
  BY DEF GiRead
<1>2. /\ Head(gi_left) \in Signals /\ Tail(gi_left) \in Seq(Signals)
      /\ Elements(gi_left) = Elements(Tail(gi_left)) \union {Head(gi_left)}
      /\ NoRepeat(Tail(gi_left)) /\ Head(gi_left) \notin Elements(Tail(gi_left))
  BY <1>1, TakeElements DEF TypeOK, Answers
<1>3. PICK s \in Signals : s = Head(gi_left)
  BY <1>2
<1>4. val[s] \in 0 .. MaxUpdates /\ val[s] \in Nat /\ gi_count \in 1 .. MaxGi
  BY <1>1 DEF TypeOK, Answers
<1>5. \/ s \in Commands /\ gi_event' = None
      \/ /\ s \in Reported /\ gi_event' = Interrogated(s, val[s], gi_count) /\ gi_event' \in Events
         /\ gi_event'.cot = "interrogated" /\ gi_event'.sig = s /\ gi_event'.val = val[s]
         /\ gi_event'.gi = gi_count /\ gi_event' \notin Seen /\ gi_event' # None
  <2>1. CASE s \in Commands
    BY <1>1, <1>3, <2>1
  <2>2. CASE s \notin Commands
    <3>1. s \in Reported /\ gi_event' = Interrogated(s, val[s], gi_count)
      BY <1>1, <1>3, <2>2 DEF Reported
    <3>2. /\ gi_event' \in Events /\ gi_event'.cot = "interrogated" /\ gi_event'.sig = s
          /\ gi_event'.val = val[s] /\ gi_event'.gi = gi_count
      BY <1>4, <3>1, NewEvents
    <3>3. gi_event' \notin Seen
      BY <1>1, <1>2, <1>3, <3>2 DEF Answers
    <3>4. gi_event' # None
      BY <3>2 DEF None
    <3> QED BY <3>1, <3>2, <3>3, <3>4
  <2> QED BY <2>1, <2>2
<1>6. Seen' = Seen /\ Once'
  BY <1>1 DEF Seen, Pending, Once, sender
<1>7. TypeOK'
  BY <1>1, <1>2, <1>5 DEF TypeOK, storage, control, sender
<1>8. Reports'
  BY <1>1, <1>6 DEF Reports, storage
<1>9. Answers'
  BY <1>1, <1>2, <1>3, <1>4, <1>5, <1>6 DEF Answers, storage
<1>10. Complete'
  BY <1>1, <1>2, <1>3, <1>5, <1>6 DEF Complete, Value, storage, Reported
<1>11. Confirmed' /\ ConfirmationFirst' /\ Late'
  BY <1>1 DEF Confirmed, ConfirmationFirst, Late, control, sender
<1> QED BY <1>6, <1>7, <1>8, <1>9, <1>10, <1>11

LEMMA GiPutStep ==
    ASSUME IInv, GiPut
    PROVE  IInv'
<1> USE DEF IInv
<1>1. /\ gi_event # None /\ out_que' = Append(out_que, gi_event) /\ gi_event' = None
      /\ UNCHANGED <<storage, gi_left, gi_count, interrogated, control, sender, sent, lost>>
  BY DEF GiPut
<1>2. PICK e \in Events : e = gi_event
  BY <1>1 DEF TypeOK
<1>3. /\ interrogated /\ e.cot = "interrogated" /\ e.gi = gi_count /\ e \notin Seen
      /\ e.val <= val[e.sig] /\ e.sig \notin Elements(gi_left)
  BY <1>1, <1>2 DEF Answers
<1>4. /\ e.sig \in Reported /\ e.val \in 0 .. MaxUpdates /\ gi_count \in Nat
      /\ e = Interrogated(e.sig, e.val, gi_count)
  BY <1>3, EventKinds DEF TypeOK
<1>5. /\ out_que' \in Seq(Events) /\ Elements(out_que') = Elements(out_que) \union {e}
      /\ Once' /\ Seen' = Seen \union {e}
  BY <1>1, <1>2, <1>3, PutNew
<1>6. TypeOK'
  BY <1>1, <1>5 DEF TypeOK, storage, control, sender
<1>7. Reports'
  BY <1>1, <1>3, <1>5 DEF Reports, storage
<1>8. Answers'
  BY <1>1, <1>3, <1>4, <1>5 DEF Answers, Asked, Termination, storage
<1>9. Complete'
  <2>1. Value(e.sig, gi_count)'
    <3>1. e.val \in 0 .. val[e.sig]
      BY <1>3, <1>4 DEF TypeOK, Reported
    <3> QED BY <1>1, <1>4, <1>5, <3>1 DEF Value, storage
  <2>2. \A s \in Reported, n \in Nat : Value(s, n) => Value(s, n)'
    BY <1>1, <1>5 DEF Value, storage
  <2>3. \A n \in 1 .. MaxGi : Termination(n) \in Seen' => Termination(n) \in Seen
    BY <1>3, <1>5 DEF Termination
  <2>4. \A n \in 1 .. MaxGi : n \in Nat
    OBVIOUS
  <2> QED BY <1>1, <1>2, <1>4, <2>1, <2>2, <2>3, <2>4 DEF Complete, storage
<1>10. Confirmed' /\ ConfirmationFirst' /\ Late'
  BY <1>1 DEF Confirmed, ConfirmationFirst, Late, control, sender
<1> QED BY <1>5, <1>6, <1>7, <1>8, <1>9, <1>10

LEMMA GiConfirmStep ==
    ASSUME IInv, GiConfirm
    PROVE  IInv'
<1> USE DEF IInv
<1>1. /\ interrogated /\ gi_event = None /\ gi_left = <<>> /\ interrogated' = FALSE
      /\ out_que' = Append(out_que, Termination(gi_count))
      /\ sent' = Append(sent, Confirmation(gi_count))
      /\ UNCHANGED <<storage, gi_left, gi_event, gi_count, control, sender, lost>>
  BY DEF GiConfirm
<1>2. gi_count \in 1 .. MaxGi /\ gi_count \in Nat
  BY <1>1 DEF Answers, TypeOK
<1>3. PICK n \in 1 .. MaxGi : n = gi_count
  BY <1>2
<1>4. PICK e \in Events : e = Termination(n)
  BY NewEvents
<1>5. PICK c \in Confirmations : c = Confirmation(n)
  BY NewEvents
<1>6. /\ e.cot = "term" /\ e.gi = n /\ c.cot = "con" /\ c \notin Events /\ e \notin Seen
      /\ \A x \in Confirmations : x.cot = "con"
  <2>1. e.cot = "term" /\ e.gi = n /\ c.cot = "con" /\ \A x \in Confirmations : x.cot = "con"
    BY <1>4, <1>5 DEF Termination, Confirmation, Confirmations
  <2>2. \A x \in Events : x \notin Confirmations
    BY EventKinds
  <2>3. e \notin Seen
    BY <1>1, <1>3, <1>4 DEF Answers
  <2> QED BY <2>1, <2>2, <2>3
<1>7. out_que' \in Seq(Events) /\ Elements(out_que') = Elements(out_que) \union {e} /\ NoRepeat(out_que')
  <2>1. out_que \in Seq(Events) /\ NoRepeat(out_que) /\ e \notin Elements(out_que)
    BY <1>6 DEF TypeOK, Once, Seen, Pending
  <2> QED BY <1>1, <1>3, <1>4, <2>1, AppendElements
<1>8. /\ sent' \in Seq(Events \union Confirmations) /\ Elements(sent') = Elements(sent) \union {c}
      /\ Len(sent') = Len(sent) + 1 /\ Len(sent) \in Nat
      /\ \A i \in 1 .. Len(sent) : sent'[i] = sent[i]
      /\ sent'[Len(sent) + 1] = c
  <2>1. sent \in Seq(Events \union Confirmations) /\ c \in Events \union Confirmations
    BY DEF TypeOK
  <2>2. sent' = Append(sent, c)
    BY <1>1, <1>3, <1>5
  <2>3. /\ Append(sent, c) \in Seq(Events \union Confirmations)
        /\ Elements(Append(sent, c)) = Elements(sent) \union {c}
    BY <2>1, AppendElements
  <2> QED BY <2>1, <2>2, <2>3
<1>9. Seen' = Seen \union {e, c}
  BY <1>1, <1>7, <1>8 DEF Seen, Pending, sender
<1>10. TypeOK'
  BY <1>1, <1>7, <1>8 DEF TypeOK, storage, control, sender
<1>11. Once'
  <2>1. c \notin Elements(out_que') /\ c \notin Elements(batch)
    <3>1. batch \in Seq(Events)
      BY DEF TypeOK
    <3> QED BY <1>6, <1>7, <3>1 DEF Elements
  <2>2. e \notin Elements(batch) /\ e \notin Elements(sent) /\ e \notin Elements(lost)
    BY <1>6 DEF Seen, Pending
  <2>3. UNCHANGED <<batch, lost>>
    BY <1>1 DEF sender
  <2> QED BY <1>7, <1>8, <2>1, <2>2, <2>3 DEF Once, Pending
<1>12. Reports'
  <2>1. \A u \in Updaters : notify[u] # None => notify[u] # e /\ notify[u] # c
    BY <1>6 DEF Reports
  <2> QED BY <1>1, <1>6, <1>9, <2>1 DEF Reports, storage
<1>13. Answers'
  BY <1>1, <1>2, <1>3, <1>6, <1>9 DEF Answers, Asked
<1>14. Complete'
  <2>1. \A s \in Reported : Value(s, n)
    BY <1>1, <1>3, EmptyElements DEF Complete
  <2>2. \A s \in Reported, m \in Nat : Value(s, m) => Value(s, m)'
    BY <1>1, <1>9 DEF Value, storage
  <2>3. \A m \in 1 .. MaxGi : Termination(m) \in Seen' => m = n \/ Termination(m) \in Seen
    BY <1>6, <1>9 DEF Termination
  <2>4. \A m \in 1 .. MaxGi : m \in Nat
    OBVIOUS
  <2> QED BY <1>1, <2>1, <2>2, <2>3, <2>4 DEF Complete
<1>15. Confirmed'
  BY <1>1, <1>2, <1>3, <1>5, <1>8 DEF Confirmed
<1>16. ConfirmationFirst'
  <2>1. ASSUME NEW i \in 1 .. Len(sent'), Asked(sent'[i])
        PROVE  \E j \in 1 .. i - 1 : sent'[j] = Confirmation(sent'[i].gi)
    <3>1. i \in 1 .. Len(sent) /\ sent'[i] = sent[i]
      BY <1>6, <1>8, <2>1 DEF Asked
    <3>2. PICK j \in 1 .. i - 1 : sent[j] = Confirmation(sent[i].gi)
      BY <2>1, <3>1 DEF ConfirmationFirst, Asked
    <3>3. j \in 1 .. Len(sent) /\ sent'[j] = sent[j]
      BY <1>8, <3>1, <3>2
    <3> QED BY <3>1, <3>2, <3>3
  <2> QED BY <2>1 DEF ConfirmationFirst, Asked
<1>17. Late'
  BY <1>1 DEF Late, control, sender
<1> QED BY <1>10, <1>11, <1>12, <1>13, <1>14, <1>15, <1>16, <1>17

LEMMA DtStep ==
    ASSUME IInv, StartDt \/ StopDt
    PROVE  IInv'
<1> USE DEF IInv
<1>1. /\ UNCHANGED <<storage, receiver, out_que, sender, sent, lost>>
      /\ startdt' \in BOOLEAN /\ stops' \in 0 .. MaxStops
      /\ (startdt' /\ late' = 0) \/ (startdt /\ late' = late)
  <2>1. CASE StartDt
    BY <2>1 DEF StartDt, TypeOK
  <2>2. CASE StopDt
    <3>1. stops' = stops + 1 /\ stops < MaxStops /\ stops \in Nat
      BY <2>2 DEF StopDt, TypeOK
    <3>2. stops' \in 0 .. MaxStops
      BY <3>1
    <3> QED BY <2>2, <3>2 DEF StopDt
  <2> QED BY <2>1, <2>2
<1>2. Seen' = Seen /\ Once'
  BY <1>1 DEF Seen, Pending, Once, sender
<1>3. TypeOK'
  BY <1>1 DEF TypeOK, storage, receiver, sender
<1>4. Reports' /\ Answers' /\ Complete' /\ Confirmed'
  BY <1>1, <1>2, SeenOnly
<1>5. ConfirmationFirst' /\ Late'
  BY <1>1 DEF ConfirmationFirst, Late, TypeOK
<1> QED BY <1>2, <1>3, <1>4, <1>5

-----------------------------------------------------------------------------
\* client_send ends with nothing in its hands.
LEMMA StopStep ==
    ASSUME IInv, SenderStops
    PROVE  IInv'
<1> USE DEF IInv
<1>1. /\ UNCHANGED <<storage, receiver, control, out_que, batch, sent, lost>>
      /\ pc = "get" /\ pc' = "ended"
  BY DEF SenderStops
<1>2. Seen' = Seen /\ Once'
  BY <1>1 DEF Seen, Pending, Once
<1>3. TypeOK'
  BY <1>1 DEF TypeOK, storage, receiver, control
<1>4. Reports' /\ Answers' /\ Complete' /\ Confirmed'
  BY <1>1, <1>2, SeenOnly
<1>5. ConfirmationFirst' /\ Late'
  BY <1>1 DEF ConfirmationFirst, Late, control
<1> QED BY <1>2, <1>3, <1>4, <1>5

LEMMA InitInv == Init => IInv
<1> SUFFICES ASSUME Init PROVE IInv
  OBVIOUS
<1> USE DEF Init
<1>1. TypeOK
  <2>1. /\ val \in [Signals -> 0 .. MaxUpdates] /\ notify \in [Updaters -> Events \union {None}]
        /\ gi_event \in Events \union {None}
    OBVIOUS
  <2>2. Len(batch) <= MaxObj /\ stops \in 0 .. MaxStops /\ gi_count \in 0 .. MaxGi /\ late \in Nat
    OBVIOUS
  <2>3. /\ gi_left \in Seq(Signals) /\ out_que \in Seq(Events) /\ batch \in Seq(Events)
        /\ lost \in Seq(Events) /\ sent \in Seq(Events \union Confirmations)
    OBVIOUS
  <2> QED BY <2>1, <2>2, <2>3 DEF TypeOK
<1>2. Seen = {}
  BY EmptyElements DEF Seen, Pending
<1>3. Once
  BY EmptyElements DEF Once, Pending
<1>4. Reports /\ Answers /\ Complete
  BY <1>2 DEF Reports, Answers, Complete
<1>5. Confirmed /\ ConfirmationFirst /\ Late
  BY DEF Confirmed, ConfirmationFirst, Late
<1> QED BY <1>1, <1>3, <1>4, <1>5 DEF IInv

LEMMA NextInv == IInv /\ [Next]_vars => IInv'
<1> SUFFICES ASSUME IInv, [Next]_vars PROVE IInv'
  OBVIOUS
<1>1. ASSUME NEW u \in Updaters, Update(u) PROVE IInv'
  BY <1>1, UpdateStep
<1>2. ASSUME NEW u \in Updaters, Notify(u) PROVE IInv'
  BY <1>2, NotifyStep
<1>3. CASE ReceiveGi
  BY <1>3, ReceiveGiStep
<1>4. CASE Receiver
  BY <1>4, GiReadStep, GiPutStep, GiConfirmStep DEF Receiver
<1>5. CASE StartDt \/ StopDt
  BY <1>5, DtStep
<1>6. CASE Sender \/ SenderDies \/ SenderStops
  BY <1>6, PackStep, SendStep, StopStep DEF Sender, Packing
<1>7. CASE UNCHANGED vars
  <2>1. UNCHANGED <<storage, receiver, control, out_que, sender, sent, lost>>
    BY <1>7 DEF vars
  <2>2. Seen' = Seen /\ Once'
    BY <2>1 DEF Seen, Pending, Once, sender, IInv
  <2>3. TypeOK' /\ ConfirmationFirst' /\ Late'
    BY <2>1 DEF TypeOK, ConfirmationFirst, Late, storage, receiver, control, sender, IInv
  <2>4. Reports' /\ Answers' /\ Complete' /\ Confirmed'
    BY <2>1, <2>2, SeenOnly
  <2> QED BY <2>2, <2>3, <2>4 DEF IInv
<1> QED BY <1>1, <1>2, <1>3, <1>4, <1>5, <1>6, <1>7 DEF Next

LEMMA Inductive == Spec => []IInv
<1> QED BY InitInv, NextInv, PTL DEF Spec

-----------------------------------------------------------------------------
(* A session implements Mailbox *)

LEMMA MailInit == Init => Mail!Init
BY EmptyElements DEF Init, Mail!Init, Pending

\* Only the three puts, the frame of client_send and the discarded event move an event;
\* what client_send puts back, it puts back where it was.
LEMMA MailStep == IInv /\ [Next]_vars => [Mail!Next]_(Mail!mailbox)
<1> SUFFICES ASSUME IInv, [Next]_vars PROVE Mail!Next \/ UNCHANGED Mail!mailbox
  OBVIOUS
<1> DEFINE Delivered == Elements(sent) \ Confirmations
           Dropped   == Elements(lost)
<1>1. ASSUME NEW e \in Events, e \notin Pending \union Delivered \union Dropped,
             Pending' = Pending \union {e}, UNCHANGED <<Delivered, Dropped>>
      PROVE  Mail!Next
  BY <1>1 DEF Mail!Next, Mail!Put, Pending
<1>2. ASSUME NEW b \in SUBSET Pending, b # {}, Pending' = Pending \ b,
             \/ Delivered' = Delivered \union b /\ UNCHANGED Dropped
             \/ Dropped' = Dropped \union b /\ UNCHANGED Delivered
      PROVE  Mail!Next
  BY <1>2 DEF Mail!Next, Mail!Deliver, Mail!Drop, Pending
<1>3. ASSUME UNCHANGED <<out_que, batch, sent, lost>>
      PROVE  UNCHANGED Mail!mailbox
  BY <1>3 DEF Mail!mailbox
<1>4. ASSUME NEW u \in Updaters, Update(u) PROVE UNCHANGED Mail!mailbox
  BY <1>3, <1>4 DEF Update, sender
<1>5. ASSUME NEW u \in Updaters, Notify(u) PROVE Mail!Next
  <2>1. /\ notify[u] # None /\ out_que' = Append(out_que, notify[u])
        /\ UNCHANGED <<sender, sent, lost>>
    BY <1>5 DEF Notify
  <2>2. PICK e \in Events : e = notify[u]
    BY <2>1 DEF IInv, TypeOK
  <2>3. e \notin Seen
    BY <2>1, <2>2 DEF IInv, Reports
  <2>4. Elements(out_que') = Elements(out_que) \union {e}
    BY <2>1, <2>2, <2>3, PutNew
  <2> QED BY <1>1, <2>1, <2>3, <2>4 DEF Pending, Seen, sender
<1>6. CASE GiPut
  <2>1. /\ gi_event # None /\ out_que' = Append(out_que, gi_event)
        /\ UNCHANGED <<sender, sent, lost>>
    BY <1>6 DEF GiPut
  <2>2. PICK e \in Events : e = gi_event
    BY <2>1 DEF IInv, TypeOK
  <2>3. e \notin Seen
    BY <2>1, <2>2 DEF IInv, Answers
  <2>4. Elements(out_que') = Elements(out_que) \union {e}
    BY <2>1, <2>2, <2>3, PutNew
  <2>5. Mail!Next
    BY <1>1, <2>1, <2>3, <2>4 DEF Pending, Seen, sender
  <2> QED BY <2>5
<1>7. CASE GiConfirm
  <2>1. /\ interrogated /\ out_que' = Append(out_que, Termination(gi_count))
        /\ sent' = Append(sent, Confirmation(gi_count)) /\ UNCHANGED <<sender, lost>>
    BY <1>7 DEF GiConfirm
  <2>2. PICK n \in 1 .. MaxGi : n = gi_count
    BY <2>1 DEF IInv, Answers, TypeOK
  <2>3. PICK e \in Events : e = Termination(n)
    BY NewEvents
  <2>4. PICK c \in Confirmations : c = Confirmation(n)
    BY NewEvents
  <2>5. e \notin Seen
    BY <2>1, <2>2, <2>3 DEF IInv, Answers
  <2>6. Elements(out_que') = Elements(out_que) \union {e}
    BY <2>1, <2>2, <2>3, <2>5, PutNew
  <2>7. Elements(sent') = Elements(sent) \union {c}
    <3>1. sent \in Seq(Events \union Confirmations) /\ c \in Events \union Confirmations
      BY DEF IInv, TypeOK
    <3>2. sent' = Append(sent, c)
      BY <2>1, <2>2, <2>4
    <3> QED BY <3>1, <3>2, AppendElements
  <2>8. Mail!Next
    BY <1>1, <2>1, <2>5, <2>6, <2>7 DEF Pending, Seen, sender
  <2> QED BY <2>8
<1>8. CASE ReceiveGi \/ GiRead \/ StartDt \/ StopDt
  BY <1>3, <1>8 DEF ReceiveGi, GiRead, StartDt, StopDt, sender
<1>9. CASE Packing
  <2>1. UNCHANGED sent
    BY <1>9 DEF Packing, SenderDiscard, SenderTake, SenderBlocked, SenderPass, SenderPack,
                SenderMismatch, SenderPacked
  <2>2. CASE Pending' = Pending /\ UNCHANGED lost
    BY <2>1, <2>2 DEF Mail!mailbox, Pending
  <2>3. CASE \E e \in Pending : Pending' = Pending \ {e} /\ Elements(lost') = Elements(lost) \union {e}
    <3>1. PICK e \in Pending : Pending' = Pending \ {e} /\ Elements(lost') = Elements(lost) \union {e}
      BY <2>3
    <3>2. Mail!Next
      BY <1>2, <2>1, <3>1
    <3> QED BY <3>2
  <2> QED BY <1>9, <2>2, <2>3, PackMoves
<1>10. CASE SenderSend \/ SenderDies
  <2>1. /\ batch' = <<>> /\ out_que' = out_que
        /\ \/ Elements(lost') = Elements(lost) \union Elements(batch) /\ UNCHANGED sent
           \/ Elements(sent') = Elements(sent) \union Elements(batch) /\ UNCHANGED lost
    BY <1>10, SendMoves
  <2>2. Elements(batch) # {} /\ Elements(batch) \intersect Confirmations = {}
    <3>1. batch \in Seq(Events) /\ batch # <<>>
      BY <1>10 DEF IInv, TypeOK, SenderSend, SenderDies
    <3>2. \A e \in Events : e \notin Confirmations
      BY EventKinds
    <3> QED BY <3>1, <3>2, TakeElements DEF Elements
  <2>3. Elements(batch) \in SUBSET Pending /\ Pending' = Pending \ Elements(batch)
    BY <2>1, EmptyElements DEF IInv, Once, Pending
  <2>4. Mail!Next
    BY <1>2, <2>1, <2>2, <2>3
  <2> QED BY <2>4
<1>11. CASE UNCHANGED vars \/ SenderStops
  BY <1>3, <1>11 DEF vars, sender, SenderStops
<1> QED BY <1>4, <1>5, <1>6, <1>7, <1>8, <1>9, <1>10, <1>11 DEF Next, Receiver, Sender, Packing

-----------------------------------------------------------------------------
(* Theorems *)

\* Every variable keeps its type; client_send holds events except when it waits for one,
\* and never more than a batch.
THEOREM TypeCorrect == Spec => []TypeOK
<1>1. IInv => TypeOK
  BY DEF IInv
<1> QED BY <1>1, Inductive, PTL

\* The session keeps the promise of Mailbox whatever it puts back on the way: an event
\* that was put is sent or lost exactly once.
THEOREM ImplementsMailbox == Spec => DeliveredOnce
<1>1. Spec => Mail!Init /\ [][Mail!Next]_(Mail!mailbox)
  BY MailInit, MailStep, Inductive, PTL DEF Spec
<1> QED BY <1>1 DEF DeliveredOnce, Mail!Spec

\* The confirmation of an interrogation comes before all that answers it.
THEOREM ConfirmedBeforeAnswered == Spec => []ConfirmationFirst
<1>1. IInv => ConfirmationFirst
  BY DEF IInv
<1> QED BY <1>1, Inductive, PTL

\* Whoever sees the termination of an interrogation was sent, or will be, every signal.
THEOREM AnsweredCompletely == Spec => []InterrogationComplete
<1>1. IInv => InterrogationComplete
  BY DEF IInv, Complete, Value, Seen, Pending, InterrogationComplete
<1> QED BY <1>1, Inductive, PTL

\* After STOPDT at most the frame in the making is still sent.
THEOREM OneLate == Spec => []OneLateFrame
<1>1. IInv => OneLateFrame
  BY DEF IInv, Late, OneLateFrame
<1> QED BY <1>1, Inductive, PTL
=============================================================================
