--------------------------- MODULE EventBusProofs ---------------------------
(***************************************************************************)
(* Proofs about EventBus, for any sessions, frames, subscribers, filters   *)
(* and callers: the close_fn of a subscriber is called at most once and    *)
(* never while it is subscribed, the objects of one call of a locked       *)
(* handler are not mixed with those of another session, and what a         *)
(* subscriber writes has no gap.                                           *)
(***************************************************************************)
EXTENDS EventBus, TLAPS

-----------------------------------------------------------------------------
(* The inductive invariant *)

NoRepeat(q) == \A i, j \in 1 .. Len(q) : q[i] = q[j] => i = j

\* Nobody has subscribed twice, so an entry is in one place: in the registry or with one
\* caller, and there once.  Only then can its close_fn have been called.
OneEntry ==
    /\ NoRepeat(subs)
    /\ \A c \in Callers : /\ NoRepeat(closing[c])
                          /\ \A h \in Handlers : Contains(closing[c], h) => ~Contains(subs, h)
                          /\ \A d \in Callers, h \in Handlers :
                                Contains(closing[c], h) /\ Contains(closing[d], h) => c = d

CloseLeft ==
    \A h \in Handlers :
        /\ closes[h] <= 1
        /\ h \notin known \/ Contains(subs, h) \/ (\E c \in Callers : Contains(closing[c], h))
              => closes[h] = 0

\* A publish calls nobody twice.
Copied == \A s \in Sessions : NoRepeat(todo[s]) /\ (todo[s] # <<>> => published[s] > 0)

\* The lock of a handler is held exactly while it is called.
Holding ==
    \A h \in Handlers, s \in Sessions :
        holder[h] = s <=> h \in Locked /\ Inside(s) /\ Handler(s) = h

Past == \A h \in Handlers : \A i \in 1 .. Len(out[h]) : out[h][i].frame <= published[out[h][i].s]

\* A handler that is still to be called for the frame has written objects of it only if
\* it is being called, and nothing else since.
InHand ==
    \A h \in Locked, s \in Sessions :
        Contains(todo[s], h) =>
            \A i \in 1 .. Len(out[h]) :
                out[h][i].s = s /\ out[h][i].frame = published[s] =>
                    /\ holder[h] = s
                    /\ \A k \in i .. Len(out[h]) : out[h][k].s = s

IInv ==
    /\ TypeOK /\ OneEntry /\ CloseLeft
    /\ Copied /\ Holding /\ Past /\ InHand /\ CallsWhole

-----------------------------------------------------------------------------
(* Lemmas about queues of subscribers *)

LEMMA AppendOne ==
    ASSUME NEW T, NEW q \in Seq(T), NEW e \in T
    PROVE  /\ Append(q, e) \in Seq(T)
           /\ \A x : Contains(Append(q, e), x) <=> Contains(q, x) \/ x = e
           /\ NoRepeat(q) /\ ~Contains(q, e) => NoRepeat(Append(q, e))
<1>1. /\ Append(q, e) \in Seq(T) /\ Len(Append(q, e)) = Len(q) + 1 /\ Len(q) \in Nat
      /\ \A i \in 1 .. Len(q) : Append(q, e)[i] = q[i]
      /\ Append(q, e)[Len(q) + 1] = e
  OBVIOUS
<1>2. \A i \in 1 .. Len(Append(q, e)) : i \in 1 .. Len(q) \/ i = Len(q) + 1
  BY <1>1
<1>3. ASSUME NEW x PROVE Contains(Append(q, e), x) <=> Contains(q, x) \/ x = e
  <2>1. \A i \in 1 .. Len(q) : i \in 1 .. Len(Append(q, e))
    BY <1>1
  <2>2. Len(q) + 1 \in 1 .. Len(Append(q, e))
    BY <1>1
  <2> QED BY <1>1, <1>2, <2>1, <2>2 DEF Contains
<1>4. NoRepeat(q) /\ ~Contains(q, e) => NoRepeat(Append(q, e))
  BY <1>1, <1>2 DEF NoRepeat, Contains
<1> QED BY <1>1, <1>3, <1>4

LEMMA TailOne ==
    ASSUME NEW T, NEW q \in Seq(T), q # <<>>
    PROVE  /\ Head(q) \in T /\ Tail(q) \in Seq(T)
           /\ \A x : Contains(q, x) <=> Contains(Tail(q), x) \/ x = Head(q)
           /\ NoRepeat(q) => NoRepeat(Tail(q)) /\ ~Contains(Tail(q), Head(q))
<1>1. /\ Head(q) \in T /\ Tail(q) \in Seq(T) /\ Head(q) = q[1]
      /\ Len(q) \in Nat /\ Len(q) > 0 /\ Len(Tail(q)) = Len(q) - 1
      /\ \A i \in 1 .. Len(Tail(q)) : Tail(q)[i] = q[i + 1]
  OBVIOUS
<1>2. \A i \in 1 .. Len(q) : i = 1 \/ (i - 1 \in 1 .. Len(Tail(q)) /\ q[i] = Tail(q)[i - 1])
  BY <1>1
<1>3. ASSUME NEW x PROVE Contains(q, x) <=> Contains(Tail(q), x) \/ x = Head(q)
  <2>1. 1 \in 1 .. Len(q) /\ \A i \in 1 .. Len(Tail(q)) : i + 1 \in 1 .. Len(q)
    BY <1>1
  <2>2. ASSUME NEW i \in 1 .. Len(q), q[i] = x PROVE Contains(Tail(q), x) \/ x = Head(q)
    BY <1>1, <1>2, <2>2 DEF Contains
  <2>3. Contains(Tail(q), x) \/ x = Head(q) => Contains(q, x)
    BY <1>1, <2>1 DEF Contains
  <2> QED BY <2>2, <2>3 DEF Contains
<1>4. NoRepeat(q) => NoRepeat(Tail(q)) /\ ~Contains(Tail(q), Head(q))
  BY <1>1 DEF NoRepeat, Contains
<1> QED BY <1>1, <1>3, <1>4

LEMMA ConcatParts ==
    ASSUME NEW T, NEW p \in Seq(T), NEW q \in Seq(T)
    PROVE  /\ p \o q \in Seq(T) /\ Len(p \o q) = Len(p) + Len(q)
           /\ \A i \in 1 .. Len(p) : (p \o q)[i] = p[i]
           /\ \A i \in 1 .. Len(q) : (p \o q)[Len(p) + i] = q[i]
OBVIOUS

LEMMA RemoveOne ==
    ASSUME NEW T, NEW q \in Seq(T), NEW i \in 1 .. Len(q)
    PROVE  /\ RemoveAt(q, i) \in Seq(T)
           /\ \A x : Contains(RemoveAt(q, i), x) => Contains(q, x)
           /\ NoRepeat(q) => NoRepeat(RemoveAt(q, i)) /\ ~Contains(RemoveAt(q, i), q[i])
<1> DEFINE r == RemoveAt(q, i)
<1>1. PICK front, back : front = SubSeq(q, 1, i - 1) /\ back = SubSeq(q, i + 1, Len(q))
  OBVIOUS
<1>2. /\ front \in Seq(T) /\ back \in Seq(T) /\ Len(q) \in Nat
      /\ Len(front) = i - 1 /\ Len(back) = Len(q) - i
      /\ \A j \in 1 .. i - 1 : front[j] = q[j]
      /\ \A j \in 1 .. Len(q) - i : back[j] = q[i + j]
  BY <1>1
<1>3. r = front \o back
  BY <1>1 DEF RemoveAt
<1> HIDE DEF r
<1>4. /\ r \in Seq(T) /\ Len(r) = Len(q) - 1
      /\ \A j \in 1 .. Len(r) : r[j] = q[IF j < i THEN j ELSE j + 1]
  <2>1. /\ r \in Seq(T) /\ Len(r) = Len(q) - 1
        /\ \A j \in 1 .. Len(front) : r[j] = front[j]
        /\ \A j \in 1 .. Len(back) : r[Len(front) + j] = back[j]
    <3>1. /\ front \o back \in Seq(T) /\ Len(front \o back) = Len(front) + Len(back)
          /\ \A j \in 1 .. Len(front) : (front \o back)[j] = front[j]
          /\ \A j \in 1 .. Len(back) : (front \o back)[Len(front) + j] = back[j]
      <4>1. front \in Seq(T) /\ back \in Seq(T)
        BY <1>2
      <4> QED BY <4>1, ConcatParts
    <3>2. (i - 1) + (Len(q) - i) = Len(q) - 1
      BY <1>2
    <3> QED BY <1>2, <1>3, <3>1, <3>2
  <2>2. ASSUME NEW j \in 1 .. Len(r), j < i PROVE r[j] = q[j]
    BY <1>2, <2>1, <2>2
  <2>3. ASSUME NEW j \in 1 .. Len(r), ~(j < i) PROVE r[j] = q[j + 1]
    <3>1. PICK m \in 1 .. Len(back) : m = j - (i - 1)
      BY <1>2, <2>1, <2>3
    <3>2. Len(front) + m = j /\ i + m = j + 1 /\ m \in 1 .. Len(q) - i
      BY <1>2, <3>1
    <3>3. r[Len(front) + m] = back[m] /\ back[m] = q[i + m]
      BY <1>2, <2>1, <3>2
    <3> QED BY <3>2, <3>3
  <2> QED BY <2>1, <2>2, <2>3
<1>5. \A j \in 1 .. Len(r) : (IF j < i THEN j ELSE j + 1) \in 1 .. Len(q) \ {i}
  BY <1>2, <1>4
<1>6. \A x : Contains(r, x) => Contains(q, x)
  BY <1>4, <1>5 DEF Contains
<1>7. ASSUME NoRepeat(q) PROVE NoRepeat(r) /\ ~Contains(r, q[i])
  <2>1. ~Contains(r, q[i])
    BY <1>4, <1>5, <1>7 DEF Contains, NoRepeat
  <2>2. NoRepeat(r)
    <3> SUFFICES ASSUME NEW j \in 1 .. Len(r), NEW k \in 1 .. Len(r), r[j] = r[k] PROVE j = k
      BY DEF NoRepeat
    <3>1. (IF j < i THEN j ELSE j + 1) = (IF k < i THEN k ELSE k + 1)
      BY <1>4, <1>5, <1>7 DEF NoRepeat
    <3> QED BY <1>2, <1>4, <3>1
  <2> QED BY <2>1, <2>2
<1> QED BY <1>4, <1>6, <1>7 DEF r

LEMMA WiderSeq ==
    ASSUME NEW T, NEW U, T \subseteq U, NEW q \in Seq(T)
    PROVE  q \in Seq(U)
OBVIOUS

LEMMA EmptyQueue == NoRepeat(<<>>) /\ \A x : ~Contains(<<>>, x)
BY DEF NoRepeat, Contains

LEMMA Constants == /\ Locked \subseteq Handlers /\ Frames \in Seq(Seq(Addresses))
                   /\ Len(Frames) \in Nat /\ NoSession \notin Sessions
BY EventBusAssumption DEF EventBusAssumption

-----------------------------------------------------------------------------
(* The invariant is inductive: subscribe, unsubscribe and close *)

\* What depends on the entries only, and what depends on the calls only.
LEMMA EntriesStay ==
    ASSUME IInv, UNCHANGED <<registry, closing, closes>>
    PROVE  OneEntry' /\ CloseLeft'
BY DEF IInv, OneEntry, CloseLeft, registry

LEMMA CallsStay ==
    ASSUME IInv, UNCHANGED <<published, calls>>
    PROVE  Copied' /\ Holding' /\ Past' /\ InHand' /\ CallsWhole'
<1> USE DEF IInv, calls
<1>1. Copied' /\ Holding'
  BY DEF Copied, Holding, Inside, Handler
<1>2. Past' /\ InHand' /\ CallsWhole'
  BY DEF Past, InHand, CallsWhole
<1> QED BY <1>1, <1>2

\* The types of what only the calls touch, when somebody may have subscribed.
LEMMA CallTypes ==
    ASSUME IInv, UNCHANGED <<published, calls>>, known \subseteq known'
    PROVE  /\ published' \in [Sessions -> 0 .. Len(Frames)]
           /\ todo' \in [Sessions -> Seq(known')] /\ DOMAIN writing' = Sessions
           /\ \A s \in Sessions : Inside(s)' => /\ todo'[s] # <<>>
                                                /\ writing'[s] \subseteq 1 .. Len(Frames[published'[s]])
           /\ holder' \in [Handlers -> Sessions \union {NoSession}]
           /\ out' \in [Handlers -> Seq(Objects)] /\ missed' \in [Handlers -> SUBSET Objects]
<1> USE DEF IInv, TypeOK, calls
<1>1. todo' \in [Sessions -> Seq(known')]
  <2>1. \A s \in Sessions : todo[s] \in Seq(known')
    BY WiderSeq
  <2> QED BY <2>1
<1>2. /\ published' \in [Sessions -> 0 .. Len(Frames)] /\ DOMAIN writing' = Sessions
      /\ \A s \in Sessions : Inside(s)' => /\ todo'[s] # <<>>
                                           /\ writing'[s] \subseteq 1 .. Len(Frames[published'[s]])
  BY DEF Inside
<1>3. /\ holder' \in [Handlers -> Sessions \union {NoSession}] /\ out' \in [Handlers -> Seq(Objects)]
      /\ missed' \in [Handlers -> SUBSET Objects]
  OBVIOUS
<1> QED BY <1>1, <1>2, <1>3

LEMMA SubscribeStep ==
    ASSUME IInv, NEW h \in Handlers, Subscribe(h)
    PROVE  IInv'
<1> USE DEF IInv
<1>1. /\ h \notin known /\ known' = known \union {h} /\ subs' = Append(subs, h)
      /\ since' = [since EXCEPT ![h] = published]
      /\ UNCHANGED <<published, calls, ends>>
  BY DEF Subscribe
<1>2. subs \in Seq(known') /\ h \in known' /\ known \subseteq known'
  BY <1>1, WiderSeq DEF TypeOK
<1>3. \A q : q \in Seq(known) => ~Contains(q, h)
  BY <1>1 DEF Contains
<1>4. /\ subs' \in Seq(known') /\ NoRepeat(subs')
      /\ \A x : Contains(subs', x) <=> Contains(subs, x) \/ x = h
  <2>1. NoRepeat(subs) /\ ~Contains(subs, h)
    BY <1>3 DEF OneEntry, TypeOK
  <2> QED BY <1>1, <1>2, <2>1, AppendOne
<1>5. TypeOK'
  <2>1. closing' \in [Callers -> Seq(known')]
    <3>1. \A c \in Callers : closing[c] \in Seq(known')
      BY <1>2, WiderSeq DEF TypeOK
    <3> QED BY <1>1, <3>1 DEF TypeOK, ends
  <2>2. /\ known' \subseteq Handlers /\ since' \in [Handlers -> [Sessions -> 0 .. Len(Frames)]]
        /\ closes' \in [Handlers -> Nat] /\ gone' \subseteq Remote
    BY <1>1 DEF TypeOK, ends
  <2> QED BY <1>1, <1>2, <1>4, <2>1, <2>2, CallTypes DEF TypeOK
<1>6. OneEntry'
  <2>1. \A c \in Callers : ~Contains(closing[c], h)
    BY <1>3 DEF TypeOK
  <2> QED BY <1>1, <1>4, <2>1 DEF OneEntry, ends
<1>7. CloseLeft'
  BY <1>1, <1>4 DEF CloseLeft, ends
<1>8. Copied' /\ Holding' /\ Past' /\ InHand' /\ CallsWhole'
  BY <1>1, CallsStay
<1> QED BY <1>5, <1>6, <1>7, <1>8

\* unsubscribe and close move entries from the registry to the caller.
LEMMA TakeOutStep ==
    ASSUME IInv, NEW c \in Callers, Close(c) \/ \E h \in Handlers : Unsubscribe(c, h)
    PROVE  IInv'
<1> USE DEF IInv
<1>1. closing[c] = <<>> /\ UNCHANGED <<known, since, published, calls, closes, gone>>
  BY DEF Close, Unsubscribe
<1>2. \E taken \in Seq(known) :
          /\ closing' = [closing EXCEPT ![c] = taken] /\ NoRepeat(taken)
          /\ \A x : Contains(taken, x) => Contains(subs, x)
          /\ subs' \in Seq(known) /\ NoRepeat(subs')
          /\ \A x : Contains(subs', x) => Contains(subs, x) /\ ~Contains(taken, x)
  <2>1. CASE Close(c)
    <3>1. subs' = <<>> /\ closing' = [closing EXCEPT ![c] = subs]
      BY <2>1 DEF Close
    <3>2. subs \in Seq(known) /\ NoRepeat(subs)
      BY DEF TypeOK, OneEntry
    <3>3. <<>> \in Seq(known)
      OBVIOUS
    <3> QED BY <3>1, <3>2, <3>3, EmptyQueue
  <2>2. ASSUME NEW h \in Handlers, Unsubscribe(c, h)
        PROVE  \E taken \in Seq(known) :
                  /\ closing' = [closing EXCEPT ![c] = taken] /\ NoRepeat(taken)
                  /\ \A x : Contains(taken, x) => Contains(subs, x)
                  /\ subs' \in Seq(known) /\ NoRepeat(subs')
                  /\ \A x : Contains(subs', x) => Contains(subs, x) /\ ~Contains(taken, x)
    <3>1. PICK i \in 1 .. Len(subs) : subs[i] = h /\ subs' = RemoveAt(subs, i)
      BY <2>2 DEF Unsubscribe
    <3>2. closing' = [closing EXCEPT ![c] = <<h>>]
      BY <2>2 DEF Unsubscribe
    <3>3. subs \in Seq(known) /\ NoRepeat(subs) /\ h \in known /\ Contains(subs, h)
      BY <3>1 DEF TypeOK, OneEntry, Contains
    <3>4. <<h>> \in Seq(known) /\ NoRepeat(<<h>>) /\ \A x : Contains(<<h>>, x) => x = h
      BY <3>3 DEF NoRepeat, Contains
    <3>5. /\ subs' \in Seq(known) /\ NoRepeat(subs') /\ ~Contains(subs', h)
          /\ \A x : Contains(subs', x) => Contains(subs, x)
      BY <3>1, <3>3, RemoveOne
    <3> QED BY <3>2, <3>3, <3>4, <3>5
  <2> QED BY <2>1, <2>2
<1>3. PICK taken \in Seq(known) :
          /\ closing' = [closing EXCEPT ![c] = taken] /\ NoRepeat(taken)
          /\ \A x : Contains(taken, x) => Contains(subs, x)
          /\ subs' \in Seq(known) /\ NoRepeat(subs')
          /\ \A x : Contains(subs', x) => Contains(subs, x) /\ ~Contains(taken, x)
  BY <1>2
<1>4. /\ closing' \in [Callers -> Seq(known)]
      /\ closing'[c] = taken /\ \A d \in Callers : d # c => closing'[d] = closing[d]
  BY <1>3 DEF TypeOK
<1>5. TypeOK'
  BY <1>1, <1>3, <1>4, CallTypes DEF TypeOK
<1>6. OneEntry'
  BY <1>3, <1>4 DEF OneEntry
<1>7. CloseLeft'
  BY <1>1, <1>3, <1>4 DEF CloseLeft
<1>8. Copied' /\ Holding' /\ Past' /\ InHand' /\ CallsWhole'
  BY <1>1, CallsStay
<1> QED BY <1>5, <1>6, <1>7, <1>8

LEMMA CallCloseFnStep ==
    ASSUME IInv, NEW c \in Callers, CallCloseFn(c)
    PROVE  IInv'
<1> USE DEF IInv
<1>1. /\ closing[c] # <<>> /\ closes' = [closes EXCEPT ![Head(closing[c])] = @ + 1]
      /\ closing' = [closing EXCEPT ![c] = Tail(@)]
      /\ UNCHANGED <<registry, published, calls, gone>>
  BY DEF CallCloseFn
<1>2. closing[c] \in Seq(known) /\ NoRepeat(closing[c])
  BY DEF TypeOK, OneEntry
<1>3. /\ Head(closing[c]) \in known /\ Tail(closing[c]) \in Seq(known)
      /\ \A x : Contains(closing[c], x) <=> Contains(Tail(closing[c]), x) \/ x = Head(closing[c])
      /\ NoRepeat(Tail(closing[c])) /\ ~Contains(Tail(closing[c]), Head(closing[c]))
  BY <1>1, <1>2, TailOne
<1>4. PICK h \in known : h = Head(closing[c])
  BY <1>3
<1>5. PICK rest \in Seq(known) : rest = Tail(closing[c])
  BY <1>3
<1>6. /\ h \in Handlers /\ closes[h] = 0 /\ Contains(closing[c], h)
      /\ \A x : Contains(rest, x) => Contains(closing[c], x) /\ x # h
  BY <1>3, <1>4, <1>5 DEF TypeOK, CloseLeft
<1>7. /\ closing' \in [Callers -> Seq(known)]
      /\ closing'[c] = rest /\ \A d \in Callers : d # c => closing'[d] = closing[d]
  BY <1>1, <1>5 DEF TypeOK
<1>8. /\ closes' \in [Handlers -> Nat] /\ closes'[h] = 1
      /\ \A x \in Handlers : x # h => closes'[x] = closes[x]
  BY <1>1, <1>4, <1>6 DEF TypeOK
<1>9. TypeOK'
  BY <1>1, <1>7, <1>8, CallTypes DEF TypeOK, registry
<1>10. OneEntry'
  <2>1. NoRepeat(rest)
    BY <1>3, <1>5
  <2>2. \A d \in Callers : \A x : Contains(closing'[d], x) => Contains(closing[d], x)
    BY <1>6, <1>7
  <2> QED BY <1>1, <1>7, <2>1, <2>2 DEF OneEntry, registry
<1>11. CloseLeft'
  <2>1. /\ ~Contains(subs, h) /\ \A d \in Callers : ~Contains(closing'[d], h)
        /\ \A d \in Callers : \A x : Contains(closing'[d], x) => Contains(closing[d], x)
    BY <1>6, <1>7 DEF OneEntry
  <2>2. h \in known
    OBVIOUS
  <2>3. ASSUME NEW x \in Handlers
        PROVE  /\ closes'[x] <= 1
               /\ x \notin known \/ Contains(subs, x) \/ (\E d \in Callers : Contains(closing'[d], x))
                     => closes'[x] = 0
    <3>1. CASE x = h
      BY <1>8, <2>1, <2>2, <3>1
    <3>2. CASE x # h
      BY <1>8, <2>1, <3>2 DEF CloseLeft
    <3> QED BY <3>1, <3>2
  <2> QED BY <1>1, <2>3 DEF CloseLeft, registry
<1>12. Copied' /\ Holding' /\ Past' /\ InHand' /\ CallsWhole'
  BY <1>1, CallsStay
<1> QED BY <1>9, <1>10, <1>11, <1>12

LEMMA PeerGoesStep ==
    ASSUME IInv, NEW h \in Handlers, PeerGoes(h)
    PROVE  IInv'
<1> USE DEF IInv
<1>1. /\ gone' = gone \union {h} /\ h \in Remote
      /\ UNCHANGED <<registry, published, calls, closing, closes>>
  BY DEF PeerGoes
<1>2. TypeOK'
  BY <1>1, CallTypes DEF TypeOK, registry
<1>3. OneEntry' /\ CloseLeft'
  BY <1>1, EntriesStay
<1>4. Copied' /\ Holding' /\ Past' /\ InHand' /\ CallsWhole'
  BY <1>1, CallsStay
<1> QED BY <1>2, <1>3, <1>4

-----------------------------------------------------------------------------
(* The invariant is inductive: publish *)

\* What a handler that is being called has in common with its session.
LEMMA InCall ==
    ASSUME IInv, NEW s \in Sessions, todo[s] # <<>>
    PROVE  /\ Handler(s) \in known /\ Handler(s) \in Handlers
           /\ Contains(todo[s], Handler(s)) /\ Tail(todo[s]) \in Seq(known)
           /\ NoRepeat(Tail(todo[s])) /\ ~Contains(Tail(todo[s]), Handler(s))
           /\ \A x : Contains(Tail(todo[s]), x) => Contains(todo[s], x)
           /\ published[s] \in 1 .. Len(Frames)
<1> USE DEF IInv
<1>1. todo[s] \in Seq(known) /\ NoRepeat(todo[s]) /\ known \subseteq Handlers
  BY DEF TypeOK, Copied
<1>2. /\ Handler(s) \in known /\ Contains(todo[s], Handler(s)) /\ Tail(todo[s]) \in Seq(known)
      /\ NoRepeat(Tail(todo[s])) /\ ~Contains(Tail(todo[s]), Handler(s))
      /\ \A x : Contains(Tail(todo[s]), x) => Contains(todo[s], x)
  BY <1>1, TailOne DEF Handler
<1>3. published[s] \in 1 .. Len(Frames)
  BY DEF TypeOK, Copied
<1> QED BY <1>1, <1>2, <1>3

LEMMA PublishStep ==
    ASSUME IInv, NEW s \in Sessions, Publish(s)
    PROVE  IInv'
<1> USE DEF IInv
<1>1. /\ todo[s] = <<>> /\ published[s] < Len(Frames)
      /\ published' = [published EXCEPT ![s] = @ + 1]
      /\ todo' = [todo EXCEPT ![s] = subs]
      /\ UNCHANGED <<registry, writing, holder, out, missed, ends>>
  BY DEF Publish
<1>2. /\ ~Inside(s) /\ published[s] \in Nat /\ published[s] + 1 \in 1 .. Len(Frames)
  BY <1>1, Constants DEF TypeOK
<1>3. /\ published' \in [Sessions -> 0 .. Len(Frames)] /\ published'[s] = published[s] + 1
      /\ \A t \in Sessions : t # s => published'[t] = published[t]
  BY <1>1, <1>2 DEF TypeOK
<1>4. /\ todo' \in [Sessions -> Seq(known)] /\ todo'[s] = subs
      /\ \A t \in Sessions : t # s => todo'[t] = todo[t]
  BY <1>1 DEF TypeOK
<1>5. TypeOK'
  <2>1. \A t \in Sessions : Inside(t)' => /\ todo'[t] # <<>>
                                          /\ writing'[t] \subseteq 1 .. Len(Frames[published'[t]])
    BY <1>1, <1>2, <1>3, <1>4 DEF Inside, TypeOK
  <2> QED BY <1>1, <1>3, <1>4, <2>1 DEF TypeOK, registry, ends
<1>6. OneEntry' /\ CloseLeft'
  BY <1>1, EntriesStay DEF ends
<1>7. Copied'
  <2>1. NoRepeat(todo'[s]) /\ published'[s] > 0
    BY <1>2, <1>3, <1>4 DEF OneEntry
  <2>2. \A t \in Sessions : t # s => NoRepeat(todo'[t]) /\ (todo'[t] # <<>> => published'[t] > 0)
    BY <1>3, <1>4 DEF Copied
  <2> QED BY <2>1, <2>2 DEF Copied
<1>8. Holding'
  BY <1>1, <1>2, <1>4 DEF Holding, Inside, Handler
<1>9. \A h \in Handlers : \A i \in 1 .. Len(out[h]) :
          /\ out[h][i].s \in Sessions /\ out[h][i].frame \in Nat
          /\ out[h][i].frame <= published[out[h][i].s]
  <2>1. ASSUME NEW h \in Handlers, NEW i \in 1 .. Len(out[h])
        PROVE  out[h][i] \in Objects
    BY DEF TypeOK
  <2> QED BY <2>1 DEF Objects, Past
<1>10. Past'
  <2>1. ASSUME NEW h \in Handlers, NEW i \in 1 .. Len(out[h])
        PROVE  out[h][i].frame <= published'[out[h][i].s]
    <3>1. CASE out[h][i].s = s
      BY <1>2, <1>3, <1>9, <3>1
    <3>2. CASE out[h][i].s # s
      BY <1>3, <1>9, <3>2
    <3> QED BY <3>1, <3>2
  <2> QED BY <1>1, <2>1 DEF Past
<1>11. InHand'
  <2>1. ASSUME NEW h \in Locked, NEW i \in 1 .. Len(out[h]), out[h][i].s = s
        PROVE  out[h][i].frame # published'[s]
    <3>1. h \in Handlers
      BY Constants
    <3>2. out[h][i].frame \in Nat /\ out[h][i].frame <= published[s]
      BY <1>9, <2>1, <3>1
    <3> QED BY <1>2, <1>3, <3>2
  <2> QED BY <1>1, <1>3, <1>4, <2>1 DEF InHand
<1>12. CallsWhole'
  BY <1>1 DEF CallsWhole
<1> QED BY <1>5, <1>6, <1>7, <1>8, <1>10, <1>11, <1>12

LEMMA SkipHandlerStep ==
    ASSUME IInv, NEW s \in Sessions, SkipHandler(s)
    PROVE  IInv'
<1> USE DEF IInv
<1>1. /\ todo[s] # <<>> /\ ~Inside(s) /\ todo' = [todo EXCEPT ![s] = Tail(@)]
      /\ UNCHANGED <<registry, published, writing, holder, out, missed, ends>>
  BY DEF SkipHandler, Onward
<1>2. PICK rest \in Seq(known) : rest = Tail(todo[s])
  BY <1>1, InCall
<1>3. NoRepeat(rest) /\ published[s] > 0 /\ \A x : Contains(rest, x) => Contains(todo[s], x)
  BY <1>1, <1>2, InCall DEF Copied
<1>4. /\ todo' \in [Sessions -> Seq(known)] /\ todo'[s] = rest
      /\ \A t \in Sessions : t # s => todo'[t] = todo[t]
  BY <1>1, <1>2 DEF TypeOK
<1>5. TypeOK'
  <2>1. \A t \in Sessions : Inside(t)' => /\ todo'[t] # <<>>
                                          /\ writing'[t] \subseteq 1 .. Len(Frames[published'[t]])
    BY <1>1, <1>4 DEF Inside, TypeOK
  <2> QED BY <1>1, <1>4, <2>1 DEF TypeOK, registry, ends
<1>6. OneEntry' /\ CloseLeft'
  BY <1>1, EntriesStay DEF ends
<1>7. Copied'
  BY <1>1, <1>3, <1>4 DEF Copied
<1>8. Holding'
  BY <1>1, <1>4 DEF Holding, Inside, Handler
<1>9. Past' /\ CallsWhole'
  BY <1>1 DEF Past, CallsWhole
<1>10. InHand'
  <2>1. ASSUME NEW x \in Locked, NEW t \in Sessions, Contains(todo'[t], x),
               NEW i \in 1 .. Len(out[x]), out[x][i].s = t, out[x][i].frame = published[t]
        PROVE  holder[x] = t /\ \A k \in i .. Len(out[x]) : out[x][k].s = t
    <3>1. Contains(todo[t], x)
      BY <1>3, <1>4, <2>1
    <3> QED BY <2>1, <3>1 DEF InHand
  <2> QED BY <1>1, <2>1 DEF InHand
<1> QED BY <1>5, <1>6, <1>7, <1>8, <1>9, <1>10

LEMMA CallHandlerStep ==
    ASSUME IInv, NEW s \in Sessions, CallHandler(s)
    PROVE  IInv'
<1> USE DEF IInv
<1>1. /\ todo[s] # <<>> /\ ~Inside(s) /\ LockFree(Handler(s)) /\ Wanted(Handler(s), published[s]) # {}
      /\ writing' = [writing EXCEPT ![s] = Wanted(Handler(s), published[s])]
      /\ holder' = IF Handler(s) \in Locked THEN [holder EXCEPT ![Handler(s)] = s] ELSE holder
      /\ UNCHANGED <<registry, published, todo, out, missed, ends>>
  BY DEF CallHandler
<1>2. PICK h \in Handlers : h = Handler(s)
  BY <1>1, InCall
<1>3. /\ DOMAIN writing' = Sessions /\ writing'[s] # {} /\ writing'[s] \subseteq 1 .. Len(Frames[published[s]])
      /\ \A t \in Sessions : t # s => writing'[t] = writing[t]
  BY <1>1 DEF TypeOK, Wanted
<1>4. /\ holder' \in [Handlers -> Sessions \union {NoSession}]
      /\ \A x \in Handlers : holder'[x] = IF x = h /\ h \in Locked THEN s ELSE holder[x]
      /\ h \in Locked => \A t \in Sessions : holder[h] # t
  BY <1>1, <1>2, Constants DEF TypeOK, LockFree
<1>5. TypeOK'
  <2>1. \A t \in Sessions : Inside(t)' => /\ todo'[t] # <<>>
                                          /\ writing'[t] \subseteq 1 .. Len(Frames[published'[t]])
    BY <1>1, <1>3 DEF Inside, TypeOK
  <2> QED BY <1>1, <1>3, <1>4, <2>1 DEF TypeOK, registry, ends
<1>6. OneEntry' /\ CloseLeft'
  BY <1>1, EntriesStay DEF ends
<1>7. Copied' /\ Past' /\ CallsWhole'
  BY <1>1 DEF Copied, Past, CallsWhole
<1>8. Holding'
  <2>1. ASSUME NEW x \in Handlers, NEW t \in Sessions
        PROVE  holder'[x] = t <=> x \in Locked /\ writing'[t] # {} /\ Head(todo[t]) = x
    <3>1. holder[x] = t <=> x \in Locked /\ writing[t] # {} /\ Head(todo[t]) = x
      BY DEF Holding, Inside, Handler
    <3>2. Head(todo[s]) = h /\ writing[s] = {}
      BY <1>1, <1>2 DEF Inside, Handler
    <3>3. CASE t = s
      BY <1>3, <1>4, <3>1, <3>2, <3>3
    <3>4. CASE t # s
      BY <1>3, <1>4, <3>1, <3>4
    <3> QED BY <3>3, <3>4
  <2> QED BY <1>1, <2>1 DEF Holding, Inside, Handler
<1>9. InHand'
  <2>1. ASSUME NEW x \in Locked, NEW t \in Sessions, Contains(todo[t], x),
               NEW i \in 1 .. Len(out[x]), out[x][i].s = t, out[x][i].frame = published[t]
        PROVE  holder'[x] = t /\ \A k \in i .. Len(out[x]) : out[x][k].s = t
    <3>1. holder[x] = t /\ \A k \in i .. Len(out[x]) : out[x][k].s = t
      BY <2>1 DEF InHand
    <3>2. x \in Handlers
      BY Constants
    <3> QED BY <1>4, <3>1, <3>2
  <2> QED BY <1>1, <2>1 DEF InHand
<1> QED BY <1>5, <1>6, <1>7, <1>8, <1>9

\* The handler returns or raises.
LEMMA ReturnStep ==
    ASSUME IInv, NEW s \in Sessions, Inside(s), Onward(s), Release(s),
           DOMAIN writing' = Sessions, writing'[s] = {},
           \A t \in Sessions : t # s => writing'[t] = writing[t],
           UNCHANGED published
    PROVE  /\ todo' \in [Sessions -> Seq(known)]
           /\ \A t \in Sessions : Inside(t)' => /\ todo'[t] # <<>>
                                                /\ writing'[t] \subseteq 1 .. Len(Frames[published'[t]])
           /\ holder' \in [Handlers -> Sessions \union {NoSession}]
           /\ Copied' /\ Holding'
           /\ ~Contains(todo'[s], Handler(s))
           /\ \A t \in Sessions : \A x : Contains(todo'[t], x) => Contains(todo[t], x)
           /\ \A x \in Handlers : x # Handler(s) => holder'[x] = holder[x]
<1> USE DEF IInv
<1>1. todo[s] # <<>>
  BY DEF TypeOK
<1>2. PICK rest \in Seq(known) : rest = Tail(todo[s])
  BY <1>1, InCall
<1>3. /\ NoRepeat(rest) /\ ~Contains(rest, Handler(s)) /\ published[s] > 0
      /\ \A x : Contains(rest, x) => Contains(todo[s], x)
  BY <1>1, <1>2, InCall DEF Copied
<1>4. /\ todo' \in [Sessions -> Seq(known)] /\ todo'[s] = rest
      /\ \A t \in Sessions : t # s => todo'[t] = todo[t]
  BY <1>2 DEF TypeOK, Onward
<1>5. \A t \in Sessions : Inside(t)' => /\ todo'[t] # <<>>
                                        /\ writing'[t] \subseteq 1 .. Len(Frames[published'[t]])
  BY <1>4 DEF Inside, TypeOK
<1>6. /\ holder' \in [Handlers -> Sessions \union {NoSession}]
      /\ \A x \in Handlers : holder'[x] = IF holder[x] = s THEN NoSession ELSE holder[x]
  BY DEF TypeOK, Release
<1>7. Copied'
  BY <1>3, <1>4 DEF Copied
<1>8. Holding'
  <2>1. ASSUME NEW x \in Handlers, NEW t \in Sessions
        PROVE  holder'[x] = t <=> x \in Locked /\ writing'[t] # {} /\ Head(todo'[t]) = x
    <3>1. holder[x] = t <=> x \in Locked /\ writing[t] # {} /\ Head(todo[t]) = x
      BY DEF Holding, Inside, Handler
    <3>2. CASE t = s
      BY <1>6, <3>2, Constants
    <3>3. CASE t # s
      BY <1>4, <1>6, <3>1, <3>3, Constants
    <3> QED BY <3>2, <3>3
  <2> QED BY <2>1 DEF Holding, Inside, Handler
<1>9. \A x \in Handlers : x # Handler(s) => holder'[x] = holder[x]
  BY <1>6 DEF Holding
<1> QED BY <1>3, <1>4, <1>5, <1>6, <1>7, <1>8, <1>9

LEMMA HandlerRaisesStep ==
    ASSUME IInv, NEW s \in Sessions, HandlerRaises(s) \/ HandlerFails(s)
    PROVE  IInv'
<1> USE DEF IInv
<1>1. /\ Inside(s) /\ Onward(s) /\ Release(s) /\ writing' = [writing EXCEPT ![s] = {}]
      /\ UNCHANGED <<registry, published, out, ends>>
  BY DEF HandlerRaises, HandlerFails
<1>10. missed' \in [Handlers -> SUBSET Objects]
  <2>1. CASE HandlerRaises(s)
    BY <2>1 DEF HandlerRaises, TypeOK
  <2>2. CASE HandlerFails(s)
    <3>1. PICK lost : lost = [s : {s}, frame : {published[s]}, at : writing[s]]
      OBVIOUS
    <3>2. missed' = [missed EXCEPT ![Handler(s)] = @ \union lost]
      BY <2>2, <3>1 DEF HandlerFails
    <3>3. /\ published[s] \in 1 .. Len(Frames) /\ Handler(s) \in Handlers
          /\ writing[s] \subseteq 1 .. Len(Frames[published[s]])
      BY <1>1, InCall DEF TypeOK
    <3>4. writing[s] \subseteq Nat
      <4>1. Frames[published[s]] \in Seq(Addresses)
        BY <3>3, Constants
      <4> QED BY <3>3, <4>1
    <3>5. lost \subseteq Objects
      BY <3>1, <3>3, <3>4 DEF Objects
    <3> QED BY <3>2, <3>3, <3>5 DEF TypeOK
  <2> QED BY <2>1, <2>2
<1>2. /\ DOMAIN writing' = Sessions /\ writing'[s] = {}
      /\ \A t \in Sessions : t # s => writing'[t] = writing[t]
  BY <1>1 DEF TypeOK
<1>3. /\ todo' \in [Sessions -> Seq(known)]
      /\ \A t \in Sessions : Inside(t)' => /\ todo'[t] # <<>>
                                           /\ writing'[t] \subseteq 1 .. Len(Frames[published'[t]])
      /\ holder' \in [Handlers -> Sessions \union {NoSession}]
      /\ Copied' /\ Holding'
      /\ ~Contains(todo'[s], Handler(s))
      /\ \A t \in Sessions : \A x : Contains(todo'[t], x) => Contains(todo[t], x)
      /\ \A x \in Handlers : x # Handler(s) => holder'[x] = holder[x]
  BY <1>1, <1>2, ReturnStep
<1>4. TypeOK'
  BY <1>1, <1>2, <1>3, <1>10 DEF TypeOK, registry, ends
<1>5. OneEntry' /\ CloseLeft'
  BY <1>1, EntriesStay DEF ends
<1>6. Past' /\ CallsWhole'
  BY <1>1 DEF Past, CallsWhole
<1>7. InHand'
  <2>1. ASSUME NEW x \in Locked, NEW t \in Sessions, Contains(todo'[t], x),
               NEW i \in 1 .. Len(out[x]), out[x][i].s = t, out[x][i].frame = published[t]
        PROVE  holder'[x] = t /\ \A k \in i .. Len(out[x]) : out[x][k].s = t
    <3>1. holder[x] = t /\ \A k \in i .. Len(out[x]) : out[x][k].s = t
      BY <1>3, <2>1 DEF InHand
    <3>2. x \in Handlers /\ (x = Handler(s) => holder[x] = s)
      BY <1>1, Constants DEF Holding
    <3> QED BY <1>3, <2>1, <3>1, <3>2
  <2> QED BY <1>1, <2>1 DEF InHand
<1> QED BY <1>3, <1>4, <1>5, <1>6, <1>7

\* Whether the handler has still to write or returns, what it writes comes after what
\* nobody else can have written meanwhile.
LEMMA WriteObjectStep ==
    ASSUME IInv, NEW s \in Sessions, WriteObject(s)
    PROVE  IInv'
<1> USE DEF IInv
<1>1. PICK i \in writing[s] :
          /\ out' = [out EXCEPT ![Handler(s)] =
                        Append(@, [s |-> s, frame |-> published[s], at |-> i])]
          /\ writing' = [writing EXCEPT ![s] = @ \ {i}]
          /\ IF writing[s] = {i} THEN Onward(s) /\ Release(s) ELSE UNCHANGED <<todo, holder>>
  BY DEF WriteObject
<1>2. Inside(s) /\ UNCHANGED <<registry, published, missed, ends>>
  BY DEF WriteObject
<1>3. todo[s] # <<>> /\ writing[s] \subseteq 1 .. Len(Frames[published[s]])
  BY <1>2 DEF TypeOK
<1>4. PICK h \in Handlers : h = Handler(s)
  BY <1>3, InCall
<1>5. PICK o \in Objects : o = [s |-> s, frame |-> published[s], at |-> i]
  <2>1. published[s] \in 1 .. Len(Frames)
    BY <1>3, InCall
  <2>2. Frames[published[s]] \in Seq(Addresses)
    BY <2>1, Constants
  <2>3. i \in Nat
    BY <1>3, <2>2
  <2> QED BY <2>1, <2>3 DEF Objects
<1>6. /\ o.s = s /\ o.frame = published[s] /\ published[s] \in Nat
      /\ h \in Locked => holder[h] = s
      /\ Contains(todo[s], h)
  <2>1. o.s = s /\ o.frame = published[s]
    BY <1>5
  <2>2. published[s] \in Nat
    BY DEF TypeOK
  <2>3. h \in Locked => holder[h] = s
    BY <1>2, <1>4 DEF Holding
  <2>4. Contains(todo[s], h)
    BY <1>3, <1>4, InCall
  <2> QED BY <2>1, <2>2, <2>3, <2>4
<1>7. /\ DOMAIN writing' = Sessions /\ writing'[s] = writing[s] \ {i}
      /\ \A t \in Sessions : t # s => writing'[t] = writing[t]
  BY <1>1 DEF TypeOK
<1>8. /\ out' \in [Handlers -> Seq(Objects)] /\ Len(out[h]) \in Nat /\ Len(out'[h]) = Len(out[h]) + 1
      /\ \A j \in 1 .. Len(out[h]) : out'[h][j] = out[h][j]
      /\ out'[h][Len(out[h]) + 1] = o
      /\ \A x \in Handlers : x # h => out'[x] = out[x]
  <2>1. out[h] \in Seq(Objects)
    BY DEF TypeOK
  <2>2. out' = [out EXCEPT ![h] = Append(out[h], o)]
    BY <1>1, <1>4, <1>5
  <2>3. /\ Append(out[h], o) \in Seq(Objects) /\ Len(out[h]) \in Nat
        /\ Len(Append(out[h], o)) = Len(out[h]) + 1
        /\ \A j \in 1 .. Len(out[h]) : Append(out[h], o)[j] = out[h][j]
        /\ Append(out[h], o)[Len(out[h]) + 1] = o
    BY <2>1
  <2>4. out'[h] = Append(out[h], o) /\ \A x \in Handlers : x # h => out'[x] = out[x]
    BY <2>2 DEF TypeOK
  <2>5. out' \in [Handlers -> Seq(Objects)]
    BY <2>2, <2>3 DEF TypeOK
  <2> QED BY <2>3, <2>4, <2>5
<1>9. /\ todo' \in [Sessions -> Seq(known)]
      /\ \A t \in Sessions : Inside(t)' => /\ todo'[t] # <<>>
                                           /\ writing'[t] \subseteq 1 .. Len(Frames[published'[t]])
      /\ holder' \in [Handlers -> Sessions \union {NoSession}]
      /\ Copied' /\ Holding'
      /\ \A t \in Sessions : \A x : Contains(todo'[t], x) => Contains(todo[t], x)
      /\ \A x \in Handlers : x # h => holder'[x] = holder[x]
      /\ ~Contains(todo'[s], h) \/ holder'[h] = holder[h]
  <2>1. CASE writing[s] = {i}
    <3>1. Onward(s) /\ Release(s) /\ writing'[s] = {}
      BY <1>1, <1>7, <2>1
    <3> QED BY <1>2, <1>4, <1>7, <3>1, ReturnStep
  <2>2. CASE writing[s] # {i}
    <3>1. UNCHANGED <<todo, holder, published>> /\ writing'[s] # {}
      BY <1>1, <1>2, <1>7, <2>2
    <3>2. \A t \in Sessions : writing'[t] \subseteq writing[t] /\ (writing'[t] # {} <=> writing[t] # {})
      BY <1>2, <1>7, <3>1 DEF Inside
    <3>3. Copied' /\ Holding'
      BY <3>1, <3>2 DEF Copied, Holding, Inside, Handler
    <3>4. \A t \in Sessions : Inside(t)' => /\ todo'[t] # <<>>
                                            /\ writing'[t] \subseteq 1 .. Len(Frames[published'[t]])
      BY <3>1, <3>2 DEF Inside, TypeOK
    <3> QED BY <3>1, <3>3, <3>4 DEF TypeOK
  <2> QED BY <2>1, <2>2
<1>10. TypeOK'
  BY <1>2, <1>7, <1>8, <1>9 DEF TypeOK, registry, ends
<1>11. OneEntry' /\ CloseLeft'
  BY <1>2, EntriesStay DEF ends
<1>12. Past'
  <2>1. ASSUME NEW x \in Handlers, NEW j \in 1 .. Len(out'[x])
        PROVE  out'[x][j].frame <= published[out'[x][j].s]
    <3>1. CASE x # h
      BY <1>8, <2>1, <3>1 DEF Past
    <3>2. CASE x = h /\ j \in 1 .. Len(out[h])
      BY <1>8, <3>2 DEF Past
    <3>3. CASE x = h /\ j = Len(out[h]) + 1
      BY <1>6, <1>8, <3>3
    <3>4. x # h \/ j \in 1 .. Len(out[h]) \/ j = Len(out[h]) + 1
      BY <1>8, <2>1
    <3> QED BY <3>1, <3>2, <3>3, <3>4
  <2> QED BY <1>2, <2>1 DEF Past
<1>13. ASSUME h \in Locked, NEW j \in 1 .. Len(out[h]), out[h][j].s = s, out[h][j].frame = published[s]
       PROVE  \A k \in j .. Len(out[h]) : out[h][k].s = s
  BY <1>6, <1>13 DEF InHand
<1>14. InHand'
  <2>1. ASSUME NEW x \in Locked, NEW t \in Sessions, Contains(todo'[t], x),
               NEW j \in 1 .. Len(out'[x]), out'[x][j].s = t, out'[x][j].frame = published[t]
        PROVE  holder'[x] = t /\ \A k \in j .. Len(out'[x]) : out'[x][k].s = t
    <3>1. x \in Handlers /\ Contains(todo[t], x)
      BY <1>9, <2>1, Constants
    <3>2. CASE x # h
      <4>1. out'[x] = out[x] /\ holder'[x] = holder[x]
        BY <1>8, <1>9, <3>1, <3>2
      <4>2. j \in 1 .. Len(out[x]) /\ out[x][j].s = t /\ out[x][j].frame = published[t]
        BY <2>1, <4>1
      <4>3. holder[x] = t /\ \A k \in j .. Len(out[x]) : out[x][k].s = t
        BY <2>1, <3>1, <4>2 DEF InHand
      <4> QED BY <4>1, <4>3
    <3>3. CASE x = h
      <4>1. t = s
        <5>1. CASE j \in 1 .. Len(out[h])
          <6>1. out[h][j].s = t /\ out[h][j].frame = published[t]
            BY <1>8, <2>1, <3>3, <5>1
          <6>2. holder[h] = t
            BY <2>1, <3>1, <3>3, <5>1, <6>1 DEF InHand
          <6> QED BY <1>6, <2>1, <3>3, <6>2
        <5>2. CASE j = Len(out[h]) + 1
          BY <1>6, <1>8, <2>1, <3>3, <5>2
        <5>3. j \in 1 .. Len(out[h]) \/ j = Len(out[h]) + 1
          BY <1>8, <2>1, <3>3
        <5> QED BY <5>1, <5>2, <5>3
      <4>2. holder'[h] = s
        BY <1>6, <1>9, <2>1, <3>3, <4>1
      <4>3. \A k \in j .. Len(out'[h]) : out'[h][k].s = s
        <5>1. ASSUME NEW k \in j .. Len(out'[h]) PROVE out'[h][k].s = s
          <6>1. CASE k = Len(out[h]) + 1
            BY <1>6, <1>8, <6>1
          <6>2. CASE k # Len(out[h]) + 1
            <7>1. j \in 1 .. Len(out[h]) /\ k \in j .. Len(out[h]) /\ k \in 1 .. Len(out[h])
              BY <1>8, <2>1, <3>3, <5>1, <6>2
            <7>2. out[h][j].s = s /\ out[h][j].frame = published[s]
              BY <1>8, <2>1, <3>3, <4>1, <7>1
            <7> QED BY <1>8, <1>13, <2>1, <3>3, <7>1, <7>2
          <6> QED BY <6>1, <6>2
        <5> QED BY <5>1
      <4> QED BY <3>3, <4>1, <4>2, <4>3
    <3> QED BY <3>2, <3>3
  <2> QED BY <1>2, <2>1 DEF InHand
<1>15. CallsWhole'
  <2>1. ASSUME NEW x \in Locked, NEW a \in 1 .. Len(out'[x]), NEW b \in 1 .. Len(out'[x]),
               NEW c \in 1 .. Len(out'[x]), a < b, b < c,
               out'[x][a].s = out'[x][c].s, out'[x][a].frame = out'[x][c].frame
        PROVE  out'[x][b].s = out'[x][a].s
    <3>1. x \in Handlers
      BY Constants
    <3>2. CASE x # h
      <4>1. out'[x] = out[x]
        BY <1>8, <3>1, <3>2
      <4> QED BY <2>1, <4>1 DEF CallsWhole
    <3>3. CASE x = h
      <4>1. a \in 1 .. Len(out[h]) /\ b \in 1 .. Len(out[h]) /\ b \in a .. Len(out[h])
        BY <1>8, <2>1, <3>3
      <4>2. out'[h][a] = out[h][a] /\ out'[h][b] = out[h][b]
        BY <1>8, <4>1
      <4>3. CASE c \in 1 .. Len(out[h])
        <5>1. out'[h][c] = out[h][c]
          BY <1>8, <4>3
        <5>2. out[h][a].s = out[h][c].s /\ out[h][a].frame = out[h][c].frame
          BY <2>1, <3>3, <4>2, <5>1
        <5>3. out[h][b].s = out[h][a].s
          BY <2>1, <3>3, <4>1, <4>3, <5>2 DEF CallsWhole
        <5> QED BY <3>3, <4>2, <5>3
      <4>4. CASE c = Len(out[h]) + 1
        <5>1. out[h][a].s = s /\ out[h][a].frame = published[s]
          BY <1>6, <1>8, <2>1, <3>3, <4>2, <4>4
        <5> QED BY <1>13, <2>1, <3>3, <4>1, <4>2, <5>1
      <4>5. c \in 1 .. Len(out[h]) \/ c = Len(out[h]) + 1
        BY <1>8, <2>1, <3>3
      <4> QED BY <4>3, <4>4, <4>5
    <3> QED BY <3>2, <3>3
  <2> QED BY <2>1 DEF CallsWhole
<1> QED BY <1>9, <1>10, <1>11, <1>12, <1>14, <1>15

-----------------------------------------------------------------------------
LEMMA InitInv == Init => IInv
<1> SUFFICES ASSUME Init PROVE IInv
  OBVIOUS
<1> USE DEF Init
<1>1. TypeOK
  <2>1. <<>> \in Seq(known) /\ <<>> \in Seq(Objects) /\ 0 \in 0 .. Len(Frames)
    BY Constants
  <2> QED BY <2>1 DEF TypeOK, Inside
<1>2. OneEntry /\ CloseLeft
  BY EmptyQueue DEF OneEntry, CloseLeft
<1>3. Copied /\ Holding
  BY EmptyQueue, Constants DEF Copied, Holding, Inside
<1>4. \A h \in Handlers : Len(out[h]) = 0
  OBVIOUS
<1>5. Past /\ InHand /\ CallsWhole
  BY EmptyQueue, Constants, <1>4 DEF Past, InHand, CallsWhole
<1> QED BY <1>1, <1>2, <1>3, <1>5 DEF IInv

LEMMA NextInv == IInv /\ [Next]_vars => IInv'
<1> SUFFICES ASSUME IInv, [Next]_vars PROVE IInv'
  OBVIOUS
<1>1. ASSUME NEW h \in Handlers, Subscribe(h) \/ PeerGoes(h) PROVE IInv'
  BY <1>1, SubscribeStep, PeerGoesStep
<1>2. ASSUME NEW c \in Callers, Close(c) \/ CallCloseFn(c) \/ (\E h \in Handlers : Unsubscribe(c, h))
      PROVE  IInv'
  BY <1>2, TakeOutStep, CallCloseFnStep
<1>3. ASSUME NEW s \in Sessions, Publish(s) \/ Receiver(s) \/ HandlerFails(s) PROVE IInv'
  BY <1>3, PublishStep, SkipHandlerStep, CallHandlerStep, WriteObjectStep, HandlerRaisesStep
     DEF Receiver
<1>4. CASE UNCHANGED vars
  <2>1. UNCHANGED <<registry, published, calls, ends>>
    BY <1>4 DEF vars
  <2>2. TypeOK'
    BY <2>1, CallTypes DEF IInv, TypeOK, registry, ends
  <2> QED BY <2>1, <2>2, EntriesStay, CallsStay DEF IInv, ends
<1> QED BY <1>1, <1>2, <1>3, <1>4 DEF Next

LEMMA Inductive == Spec => []IInv
<1> QED BY InitInv, NextInv, PTL DEF Spec

-----------------------------------------------------------------------------
(* No gap: lemmas about what was written and what is due *)

\* Mine, Written and Due, of any output and any frames
MineOf(q, s)    == {i \in 1 .. Len(q) : q[i].s = s}
WrittenOf(q, s) == {q[i] : i \in MineOf(q, s)}
DueOf(h, s, from, to) ==
    UNION {[s : {s}, frame : {f}, at : Wanted(h, f)] : f \in from + 1 .. to}

\* In order, and up to some place without a hole.
Gapless(q, s, due) ==
    /\ WrittenOf(q, s) \subseteq due
    /\ \A i, j \in MineOf(q, s) : i < j => Before(q[i], q[j])
    /\ \A o \in due \ WrittenOf(q, s), i \in MineOf(q, s) : Before(q[i], o)

\* What publish gives a handler is what its subscriber asked for.
LEMMA WantsAsked == \A h, f : Wanted(h, f) = Asked(h, f)
BY DEF Wanted, Asked, Wants, Stored

LEMMA InDue ==
    ASSUME NEW h, NEW s, NEW from, NEW to, NEW o
    PROVE  o \in DueOf(h, s, from, to) <=>
               \E f \in from + 1 .. to : \E i \in Wanted(h, f) :
                   o = [s |-> s, frame |-> f, at |-> i]
BY DEF DueOf

LEMMA OthersWrite ==
    ASSUME NEW q \in Seq(Objects), NEW e \in Objects, NEW s, e.s # s
    PROVE  /\ WrittenOf(Append(q, e), s) = WrittenOf(q, s)
           /\ \A due : Gapless(q, s, due) => Gapless(Append(q, e), s, due)
<1>1. /\ Len(Append(q, e)) = Len(q) + 1 /\ Len(q) \in Nat
      /\ \A i \in 1 .. Len(q) : Append(q, e)[i] = q[i]
      /\ Append(q, e)[Len(q) + 1] = e
  OBVIOUS
<1>2. MineOf(Append(q, e), s) = MineOf(q, s) /\ \A i \in MineOf(q, s) : Append(q, e)[i] = q[i]
  BY <1>1 DEF MineOf
<1>3. WrittenOf(Append(q, e), s) = WrittenOf(q, s)
  BY <1>2 DEF WrittenOf
<1>4. ASSUME NEW due, Gapless(q, s, due) PROVE Gapless(Append(q, e), s, due)
  <2>1. \A i, j \in MineOf(q, s) : i < j => Before(Append(q, e)[i], Append(q, e)[j])
    BY <1>2, <1>4 DEF Gapless
  <2>2. \A o \in due \ WrittenOf(q, s), i \in MineOf(q, s) : Before(Append(q, e)[i], o)
    BY <1>2, <1>4 DEF Gapless
  <2>3. WrittenOf(q, s) \subseteq due
    BY <1>4 DEF Gapless
  <2> QED BY <1>2, <1>3, <2>1, <2>2, <2>3 DEF Gapless
<1> QED BY <1>3, <1>4

LEMMA WriteNext ==
    ASSUME NEW q \in Seq(Objects), NEW e \in Objects, NEW s, e.s = s, NEW due,
           Gapless(q, s, due), e \in due \ WrittenOf(q, s),
           \A o \in due \ WrittenOf(q, s) : o # e => Before(e, o)
    PROVE  /\ WrittenOf(Append(q, e), s) = WrittenOf(q, s) \union {e}
           /\ Gapless(Append(q, e), s, due)
<1> DEFINE r == Append(q, e)
<1>1. /\ Len(r) = Len(q) + 1 /\ Len(q) \in Nat
      /\ \A i \in 1 .. Len(q) : r[i] = q[i]
      /\ r[Len(q) + 1] = e
  OBVIOUS
<1> HIDE DEF r
<1>2. MineOf(r, s) = MineOf(q, s) \union {Len(q) + 1}
  BY <1>1 DEF MineOf
<1>3. \A i \in MineOf(q, s) : r[i] = q[i] /\ i \in 1 .. Len(q)
  BY <1>1 DEF MineOf
<1>4. WrittenOf(r, s) = WrittenOf(q, s) \union {e}
  BY <1>1, <1>2, <1>3 DEF WrittenOf
<1>5. ASSUME NEW i \in MineOf(r, s), NEW j \in MineOf(r, s), i < j
      PROVE  Before(r[i], r[j])
  <2>1. i \in MineOf(q, s)
    BY <1>1, <1>2, <1>3, <1>5
  <2>2. CASE j \in MineOf(q, s)
    BY <1>3, <1>5, <2>1, <2>2 DEF Gapless
  <2>3. CASE j = Len(q) + 1
    BY <1>1, <1>3, <2>1, <2>3 DEF Gapless
  <2> QED BY <1>2, <2>2, <2>3
<1>6. ASSUME NEW o \in due \ WrittenOf(r, s), NEW i \in MineOf(r, s)
      PROVE  Before(r[i], o)
  <2>1. o \in due \ WrittenOf(q, s) /\ o # e
    BY <1>4
  <2>2. CASE i \in MineOf(q, s)
    BY <1>3, <2>1, <2>2 DEF Gapless
  <2>3. CASE i = Len(q) + 1
    BY <1>1, <2>1, <2>3
  <2> QED BY <1>2, <2>2, <2>3
<1>7. WrittenOf(r, s) \subseteq due
  BY <1>4 DEF Gapless
<1> QED BY <1>4, <1>5, <1>6, <1>7 DEF r, Gapless

LEMMA MoreDue ==
    ASSUME NEW q, NEW s, NEW due, NEW more, Gapless(q, s, due), due \subseteq more,
           \A o \in more \ due, i \in MineOf(q, s) : Before(q[i], o)
    PROVE  Gapless(q, s, more)
BY DEF Gapless

-----------------------------------------------------------------------------
(* No gap: the invariant *)

\* Nobody writes before subscribing, and a call writes what its handler is given.
Silent == \A h \in Handlers \ known : out[h] = <<>>
Given  == \A s \in Sessions : Inside(s) => writing[s] \subseteq Wanted(Handler(s), published[s])

\* Only frames that are published after a handler subscribed are published to it.
Since ==
    \A h \in Handlers, s \in Sessions :
        /\ since[h][s] <= published[s]
        /\ Contains(todo[s], h) => since[h][s] < published[s]

\* What is due to a handler that is called for every frame is written, but for what is
\* left of the frame that is being published.
Owed(h, s)     == DueOf(h, s, since[h][s], published[s]) \ missed[h]
Follows(h, s)  == (Contains(subs, h) \/ Contains(todo[s], h)) /\ Open(h)
Left(h, s, i)  == Contains(todo[s], h) /\ (Inside(s) /\ Handler(s) = h => i \in writing[s])
Gapfree(h, s)  == Gapless(out[h], s, Owed(h, s))
UpToDate(h, s) ==
    \A o \in Owed(h, s) :
        o \in WrittenOf(out[h], s) <=> ~(o.frame = published[s] /\ Left(h, s, o.at))

\* A call that failed is over: what is still to be written was not left out.
Failed ==
    \A h \in Handlers : \A o \in missed[h] :
        /\ o \in Objects /\ o.frame <= published[o.s]
        /\ o.frame = published[o.s] => ~Contains(todo[o.s], h)

GInv ==
    /\ IInv /\ Silent /\ Given /\ Since /\ Failed
    /\ \A h \in Handlers, s \in Sessions : Gapfree(h, s) /\ (Follows(h, s) => UpToDate(h, s))

\* An action that neither writes nor publishes nor subscribes.
LEMMA NothingNew ==
    ASSUME GInv, IInv', Given', UNCHANGED <<out, missed, published, since>>, known \subseteq known',
           \A s \in Sessions : \A x : Contains(todo'[s], x) => Contains(todo[s], x),
           \A h \in Handlers, s \in Sessions :
               Follows(h, s)' =>
                   /\ Follows(h, s)
                   /\ \A i \in Wanted(h, published[s]) : Left(h, s, i)' <=> Left(h, s, i)
    PROVE  GInv'
<1>1. Silent' /\ Since'
  BY DEF GInv, Silent, Since
<1>2. Failed'
  BY DEF GInv, Failed, Objects
<1>3. ASSUME NEW h \in Handlers, NEW s \in Sessions PROVE Owed(h, s)' = Owed(h, s) /\ Gapfree(h, s)'
  BY DEF GInv, Gapfree, Owed
<1>4. ASSUME NEW h \in Handlers, NEW s \in Sessions, Follows(h, s)'
      PROVE  UpToDate(h, s)'
  <2>1. UpToDate(h, s)
    BY <1>4 DEF GInv
  <2>2. ASSUME NEW o \in Owed(h, s), o.frame = published[s]
        PROVE  o.at \in Wanted(h, published[s])
    BY <2>2, InDue DEF Owed
  <2>3. \A o \in Owed(h, s) :
            o.frame = published[s] => (Left(h, s, o.at)' <=> Left(h, s, o.at))
    BY <1>4, <2>2
  <2> QED BY <1>3, <2>1, <2>3 DEF UpToDate
<1> QED BY <1>1, <1>2, <1>3, <1>4 DEF GInv

\* subscribe makes nothing due; what takes entries out makes less handlers follow.
LEMMA SubscribeGap ==
    ASSUME GInv, IInv', NEW h \in Handlers, Subscribe(h)
    PROVE  GInv'
<1>1. /\ h \notin known /\ known' = known \union {h} /\ subs' = Append(subs, h)
      /\ since' = [since EXCEPT ![h] = published]
      /\ UNCHANGED <<published, calls, ends>>
  BY DEF Subscribe
<1>2. /\ out' = out /\ todo' = todo /\ writing' = writing /\ closes' = closes /\ gone' = gone
      /\ published' = published /\ missed' = missed
  BY <1>1 DEF calls, ends
<1>3. Silent' /\ Given' /\ Failed'
  BY <1>1, <1>2 DEF GInv, Silent, Given, Failed, Inside, Handler, Objects
<1>4. since'[h] = published /\ \A x \in Handlers : x # h => since'[x] = since[x]
  BY <1>1 DEF GInv, IInv, TypeOK
<1>5. Since'
  <2>1. ASSUME NEW s \in Sessions PROVE published[s] \in Nat /\ ~Contains(todo[s], h)
    <3>1. published[s] \in Nat /\ todo[s] \in Seq(known)
      BY DEF GInv, IInv, TypeOK
    <3>2. \A i \in 1 .. Len(todo[s]) : todo[s][i] \in known
      BY <3>1
    <3> QED BY <1>1, <3>1, <3>2 DEF Contains
  <2>2. ASSUME NEW x \in Handlers, NEW s \in Sessions
        PROVE  /\ since'[x][s] <= published[s]
               /\ Contains(todo[s], x) => since'[x][s] < published[s]
    <3>1. CASE x = h
      BY <1>4, <2>1, <3>1
    <3>2. CASE x # h
      BY <1>4, <3>2 DEF GInv, Since
    <3> QED BY <3>1, <3>2
  <2> QED BY <1>2, <2>2 DEF Since
<1>6. \A x : x # h => (Contains(subs', x) <=> Contains(subs, x))
  <2>1. subs \in Seq(known') /\ h \in known'
    BY <1>1, WiderSeq DEF GInv, IInv, TypeOK
  <2> QED BY <1>1, <2>1, AppendOne
<1>7. ASSUME NEW x \in Handlers, NEW s \in Sessions
      PROVE  Gapfree(x, s)' /\ (Follows(x, s)' => UpToDate(x, s)')
  <2>1. CASE x = h
    <3>1. out[h] = <<>> /\ published[s] \in Nat
      BY <1>1 DEF GInv, Silent, IInv, TypeOK
    <3>2. Owed(h, s)' = {}
      <4>1. DueOf(h, s, since'[h][s], published[s]) = {}
        BY <1>4, <3>1, InDue
      <4> QED BY <1>2, <4>1 DEF Owed
    <3>3. MineOf(out[h], s) = {} /\ WrittenOf(out[h], s) = {}
      BY <3>1 DEF MineOf, WrittenOf
    <3>4. Gapless(out[h], s, Owed(h, s)')
      BY <3>2, <3>3 DEF Gapless
    <3> QED BY <1>2, <2>1, <3>2, <3>4 DEF Gapfree, UpToDate
  <2>2. CASE x # h
    <3>1. Owed(x, s)' = Owed(x, s) /\ (Follows(x, s)' <=> Follows(x, s))
      BY <1>2, <1>4, <1>6, <2>2 DEF Follows, Open, Owed
    <3>2. Gapfree(x, s)'
      BY <1>2, <3>1 DEF GInv, Gapfree
    <3>3. ASSUME Follows(x, s) PROVE UpToDate(x, s)'
      <4>1. \A i : Left(x, s, i)' <=> Left(x, s, i)
        BY <1>2 DEF Left, Inside, Handler
      <4>2. UpToDate(x, s)
        BY <3>3 DEF GInv
      <4> QED BY <1>2, <3>1, <4>1, <4>2 DEF UpToDate
    <3> QED BY <3>1, <3>2, <3>3
  <2> QED BY <2>1, <2>2
<1> QED BY <1>3, <1>5, <1>7 DEF GInv

LEMMA EntriesGap ==
    ASSUME GInv, IInv', UNCHANGED <<published, since, known, calls>>,
           \A x : Contains(subs', x) => Contains(subs, x),
           \A x \in Handlers : Open(x)' => Open(x)
    PROVE  GInv'
<1>1. out' = out /\ missed' = missed /\ todo' = todo /\ writing' = writing
  BY DEF calls
<1>2. Given'
  BY <1>1 DEF GInv, Given, Inside, Handler
<1>3. ASSUME NEW h \in Handlers, NEW s \in Sessions
      PROVE  /\ Follows(h, s)' => Follows(h, s)
             /\ \A i : Left(h, s, i)' <=> Left(h, s, i)
  BY <1>1 DEF Follows, Left, Inside, Handler
<1> QED BY <1>1, <1>2, <1>3, NothingNew

LEMMA EndsGap ==
    ASSUME GInv, IInv',
           \/ \E h \in Handlers : PeerGoes(h)
           \/ \E c \in Callers : Close(c) \/ CallCloseFn(c) \/ \E h \in Handlers : Unsubscribe(c, h)
    PROVE  GInv'
<1>1. CASE \E h \in Handlers : PeerGoes(h)
  BY <1>1, EntriesGap DEF PeerGoes, registry, Open
<1>2. CASE \E c \in Callers : Close(c)
  BY <1>2, EntriesGap, EmptyQueue DEF Close, Open
<1>3. ASSUME NEW c \in Callers, CallCloseFn(c) PROVE GInv'
  <2>1. /\ closes' = [closes EXCEPT ![Head(closing[c])] = @ + 1]
        /\ UNCHANGED <<registry, published, calls, gone>>
    BY <1>3 DEF CallCloseFn
  <2>2. ASSUME NEW x \in Handlers, closes'[x] = 0 PROVE closes[x] = 0
    <3>1. closes[x] \in Nat /\ closes \in [Handlers -> Nat]
      BY DEF GInv, IInv, TypeOK
    <3>2. closes'[x] = closes[x] \/ closes'[x] = closes[x] + 1
      BY <2>1, <3>1
    <3> QED BY <2>2, <3>1, <3>2
  <2> QED BY <2>1, <2>2, EntriesGap DEF registry, Open
<1>4. ASSUME NEW c \in Callers, NEW h \in Handlers, Unsubscribe(c, h) PROVE GInv'
  <2>1. PICK i \in 1 .. Len(subs) : subs' = RemoveAt(subs, i)
    BY <1>4 DEF Unsubscribe
  <2>2. subs \in Seq(known)
    BY DEF GInv, IInv, TypeOK
  <2>3. \A x : Contains(subs', x) => Contains(subs, x)
    BY <2>1, <2>2, RemoveOne
  <2>4. UNCHANGED <<published, since, known, calls, closes, gone>>
    BY <1>4 DEF Unsubscribe
  <2> QED BY <2>3, <2>4, EntriesGap DEF Open
<1> QED BY <1>1, <1>2, <1>3, <1>4

\* A new frame is due, as a whole, to those that are in the registry.
LEMMA PublishGap ==
    ASSUME GInv, IInv', NEW s \in Sessions, Publish(s)
    PROVE  GInv'
<1>1. /\ todo[s] = <<>> /\ published' = [published EXCEPT ![s] = @ + 1]
      /\ todo' = [todo EXCEPT ![s] = subs]
      /\ UNCHANGED <<registry, writing, holder, out, missed, ends>>
  BY DEF Publish
<1>2. /\ published[s] \in Nat /\ published'[s] = published[s] + 1 /\ ~Inside(s)
      /\ todo'[s] = subs
      /\ \A t \in Sessions : t # s => published'[t] = published[t] /\ todo'[t] = todo[t]
  BY <1>1 DEF GInv, IInv, TypeOK
<1>3. subs' = subs /\ since' = since /\ writing' = writing /\ closes' = closes /\ gone' = gone
      /\ missed' = missed
  BY <1>1 DEF registry, ends
<1>4. Silent'
  BY <1>1 DEF GInv, Silent, registry
<1>5. Given'
  BY <1>2, <1>3 DEF GInv, Given, Inside, Handler
<1>6. Since'
  <2>1. ASSUME NEW h \in Handlers, NEW t \in Sessions
        PROVE  /\ since[h][t] <= published'[t]
               /\ Contains(todo'[t], h) => since[h][t] < published'[t]
    <3>1. since[h][t] \in Nat /\ since[h][t] <= published[t]
      BY DEF GInv, IInv, TypeOK, Since
    <3>2. CASE t = s
      BY <1>2, <3>1, <3>2
    <3>3. CASE t # s
      BY <1>2, <3>3 DEF GInv, Since
    <3> QED BY <3>2, <3>3
  <2> QED BY <1>3, <2>1 DEF Since
<1>7. ASSUME NEW h \in Handlers
      PROVE  Gapfree(h, s)' /\ (Follows(h, s)' => UpToDate(h, s)')
  <2> DEFINE due  == DueOf(h, s, since[h][s], published[s]) \ missed[h]
             more == DueOf(h, s, since[h][s], published[s] + 1) \ missed[h]
  <2>1. /\ due \subseteq more /\ \A o \in due : o.frame \in Int /\ o.frame <= published[s]
        /\ \A o \in more \ due : o.frame = published[s] + 1
    <3>1. since[h][s] \in Nat
      BY DEF GInv, IInv, TypeOK
    <3>2. \A f : f \in since[h][s] + 1 .. published[s] => f \in since[h][s] + 1 .. published[s] + 1
      BY <1>2, <3>1
    <3>3. \A f \in since[h][s] + 1 .. published[s] + 1 :
              f \in since[h][s] + 1 .. published[s] \/ f = published[s] + 1
      BY <1>2, <3>1
    <3>4. \A f \in since[h][s] + 1 .. published[s] : f \in Int /\ f <= published[s]
      BY <1>2, <3>1
    <3>5. due \subseteq more
      BY <3>2, InDue
    <3>6. ASSUME NEW o \in due PROVE o.frame \in Int /\ o.frame <= published[s]
      BY <3>4, InDue
    <3>7. ASSUME NEW o \in more \ due PROVE o.frame = published[s] + 1
      BY <3>3, InDue
    <3> QED BY <3>5, <3>6, <3>7
  <2>2. Gapless(out[h], s, due)
    BY DEF GInv, Gapfree, Owed
  <2> HIDE DEF due, more
  <2>3. \A i \in MineOf(out[h], s) : out[h][i] \in due
    BY <2>2 DEF Gapless, WrittenOf
  <2>4. \A o \in more \ due, i \in MineOf(out[h], s) : Before(out[h][i], o)
    BY <1>2, <2>1, <2>3 DEF Before
  <2>5. Gapless(out[h], s, more)
    BY <2>1, <2>2, <2>4, MoreDue
  <2>6. ASSUME Follows(h, s)' PROVE UpToDate(h, s)'
    <3>1. Contains(subs, h) /\ Open(h)
      BY <1>2, <1>3, <2>6 DEF Follows, Open
    <3>2. \A o \in due : o \in WrittenOf(out[h], s)
      <4>1. UpToDate(h, s) /\ \A i : ~Left(h, s, i)
        BY <1>1, <3>1, EmptyQueue DEF GInv, Follows, Left
      <4> QED BY <4>1 DEF UpToDate, Owed, due
    <3>3. \A i : Left(h, s, i)'
      BY <1>2, <1>3, <3>1 DEF Left, Inside
    <3>4. WrittenOf(out[h], s) \subseteq due
      BY <2>2 DEF Gapless
    <3>5. ASSUME NEW o \in more
          PROVE  o \in WrittenOf(out[h], s) <=> o.frame # published[s] + 1
      <4>1. CASE o \in due
        BY <1>2, <2>1, <3>2, <4>1
      <4>2. CASE o \notin due
        BY <2>1, <3>4, <4>2
      <4> QED BY <4>1, <4>2
    <3> QED BY <1>1, <1>2, <1>3, <3>3, <3>5 DEF UpToDate, Owed, more
  <2> QED BY <1>1, <1>2, <1>3, <2>5, <2>6 DEF Gapfree, Owed, more
<1>8. ASSUME NEW h \in Handlers, NEW t \in Sessions, t # s
      PROVE  Gapfree(h, t)' /\ (Follows(h, t)' => UpToDate(h, t)')
  <2>1. published'[t] = published[t] /\ todo'[t] = todo[t]
    BY <1>2, <1>8
  <2>2. /\ Follows(h, t)' <=> Follows(h, t)
        /\ \A i : Left(h, t, i)' <=> Left(h, t, i)
    BY <1>3, <2>1 DEF Follows, Left, Inside, Handler, Open
  <2>3. Owed(h, t)' = Owed(h, t) /\ Gapfree(h, t)'
    BY <1>1, <1>3, <2>1 DEF GInv, Gapfree, Owed
  <2>4. ASSUME Follows(h, t) PROVE UpToDate(h, t)'
    <3>1. UpToDate(h, t)
      BY <2>4 DEF GInv
    <3> QED BY <1>1, <1>3, <2>1, <2>2, <2>3, <3>1 DEF UpToDate
  <2> QED BY <2>2, <2>3, <2>4
<1>9. Failed'
  <2>1. ASSUME NEW h \in Handlers, NEW o \in missed[h]
        PROVE  /\ o \in Objects /\ o.frame <= published'[o.s]
               /\ o.frame = published'[o.s] => ~Contains(todo'[o.s], h)
    <3>1. /\ o \in Objects /\ o.s \in Sessions /\ o.frame \in Nat /\ o.frame <= published[o.s]
          /\ o.frame = published[o.s] => ~Contains(todo[o.s], h)
      BY DEF GInv, Failed, Objects
    <3>2. CASE o.s = s
      BY <1>2, <3>1, <3>2
    <3>3. CASE o.s # s
      BY <1>2, <3>1, <3>3
    <3> QED BY <3>1, <3>2, <3>3
  <2> QED BY <1>3, <2>1 DEF Failed, Objects
<1> QED BY <1>4, <1>5, <1>6, <1>7, <1>8, <1>9 DEF GInv

\* publish goes on: nothing changes for those that it does not leave behind.
LEMMA OnwardGap ==
    ASSUME GInv, NEW s \in Sessions, todo[s] # <<>>, Onward(s)
    PROVE  /\ \A x : x # Handler(s) => (Contains(todo'[s], x) <=> Contains(todo[s], x))
           /\ Contains(todo[s], Handler(s))
           /\ \A t \in Sessions : t # s => todo'[t] = todo[t]
<1>1. todo[s] \in Seq(known) /\ todo \in [Sessions -> Seq(known)]
  BY DEF GInv, IInv, TypeOK
<1>2. todo'[s] = Tail(todo[s]) /\ \A t \in Sessions : t # s => todo'[t] = todo[t]
  BY <1>1 DEF Onward
<1> QED BY <1>1, <1>2, TailOne DEF Handler

LEMMA SkipGap ==
    ASSUME GInv, IInv', NEW s \in Sessions, SkipHandler(s)
    PROVE  GInv'
<1>1. /\ todo[s] # <<>> /\ ~Inside(s) /\ Wanted(Handler(s), published[s]) = {} /\ Onward(s)
      /\ UNCHANGED <<registry, published, writing, holder, out, missed, ends>>
  BY DEF SkipHandler
<1>2. /\ \A x : x # Handler(s) => (Contains(todo'[s], x) <=> Contains(todo[s], x))
      /\ Contains(todo[s], Handler(s))
      /\ \A t \in Sessions : t # s => todo'[t] = todo[t]
  BY <1>1, OnwardGap
<1>3. \A t \in Sessions : Inside(t)' <=> Inside(t)
  BY <1>1 DEF Inside
<1>4. Given'
  BY <1>1, <1>2, <1>3 DEF GInv, Given, Handler
<1>5. ASSUME NEW x \in Handlers, NEW t \in Sessions, Follows(x, t)'
      PROVE  /\ Follows(x, t)
             /\ \A i \in Wanted(x, published[t]) : Left(x, t, i)' <=> Left(x, t, i)
  <2>1. CASE t # s
    BY <1>1, <1>2, <1>3, <1>5, <2>1 DEF Follows, Left, Handler, Open, registry, ends
  <2>2. CASE t = s
    <3>1. Follows(x, s)
      BY <1>1, <1>2, <1>5, <2>2 DEF Follows, Open, registry, ends
    <3>2. CASE x = Handler(s)
      BY <1>1, <2>2, <3>1, <3>2
    <3>3. CASE x # Handler(s)
      <4>1. \A i : Left(x, s, i)' <=> Left(x, s, i)
        BY <1>1, <1>2, <1>3, <3>3 DEF Left
      <4> QED BY <2>2, <3>1, <4>1
    <3> QED BY <3>2, <3>3
  <2> QED BY <2>1, <2>2
<1> QED BY <1>1, <1>2, <1>4, <1>5, NothingNew DEF registry

\* A call takes in hand just what is due to the handler.
LEMMA CallGap ==
    ASSUME GInv, IInv', NEW s \in Sessions, CallHandler(s)
    PROVE  GInv'
<1>1. /\ todo[s] # <<>> /\ ~Inside(s)
      /\ writing' = [writing EXCEPT ![s] = Wanted(Handler(s), published[s])]
      /\ UNCHANGED <<registry, published, todo, out, missed, ends>>
  BY DEF CallHandler
<1>2. /\ writing'[s] = Wanted(Handler(s), published[s])
      /\ \A t \in Sessions : t # s => writing'[t] = writing[t]
  BY <1>1 DEF GInv, IInv, TypeOK
<1>3. \A t \in Sessions : Handler(t)' = Handler(t) /\ (t # s => (Inside(t)' <=> Inside(t)))
  BY <1>1, <1>2 DEF Handler, Inside
<1>4. Given'
  <2>1. ASSUME NEW t \in Sessions, Inside(t)'
        PROVE  writing'[t] \subseteq Wanted(Handler(t), published[t])
    BY <1>2, <1>3, <2>1 DEF GInv, Given
  <2> QED BY <1>1, <1>3, <2>1 DEF Given
<1>5. ASSUME NEW x \in Handlers, NEW t \in Sessions, Follows(x, t)'
      PROVE  /\ Follows(x, t)
             /\ \A i \in Wanted(x, published[t]) : Left(x, t, i)' <=> Left(x, t, i)
  <2>1. Follows(x, t)
    BY <1>1, <1>5 DEF Follows, Open, registry, ends
  <2>2. ASSUME NEW i \in Wanted(x, published[t]) PROVE Left(x, t, i)' <=> Left(x, t, i)
    <3>1. CASE t # s
      BY <1>1, <1>2, <1>3, <3>1 DEF Left
    <3>2. CASE t = s
      BY <1>1, <1>2, <1>3, <2>2, <3>2 DEF Left
    <3> QED BY <3>1, <3>2
  <2> QED BY <2>1, <2>2
<1> QED BY <1>1, <1>4, <1>5, NothingNew DEF registry

\* A handler that raises is not open: what it has missed is behind all it has written.
LEMMA RaisesGap ==
    ASSUME GInv, IInv', NEW s \in Sessions, HandlerRaises(s)
    PROVE  GInv'
<1>1. /\ Inside(s) /\ ~Open(Handler(s)) /\ Onward(s)
      /\ writing' = [writing EXCEPT ![s] = {}]
      /\ UNCHANGED <<registry, published, out, missed, ends>>
  BY DEF HandlerRaises
<1>2. todo[s] # <<>>
  BY <1>1 DEF GInv, IInv, TypeOK
<1>3. /\ \A x : x # Handler(s) => (Contains(todo'[s], x) <=> Contains(todo[s], x))
      /\ Contains(todo[s], Handler(s))
      /\ \A t \in Sessions : t # s => todo'[t] = todo[t]
  BY <1>1, <1>2, OnwardGap
<1>4. ~Inside(s)' /\ \A t \in Sessions : t # s => writing'[t] = writing[t]
  BY <1>1 DEF GInv, IInv, TypeOK, Inside
<1>5. Given'
  BY <1>1, <1>3, <1>4 DEF GInv, Given, Handler, Inside
<1>6. ASSUME NEW x \in Handlers, NEW t \in Sessions, Follows(x, t)'
      PROVE  /\ Follows(x, t)
             /\ \A i \in Wanted(x, published[t]) : Left(x, t, i)' <=> Left(x, t, i)
  <2>1. x # Handler(s)
    BY <1>1, <1>6 DEF Follows, Open, ends
  <2>2. CASE t # s
    BY <1>1, <1>3, <1>4, <1>6, <2>2 DEF Follows, Left, Handler, Inside, Open, registry, ends
  <2>3. CASE t = s
    <3>1. Follows(x, s)
      BY <1>1, <1>3, <1>6, <2>1, <2>3 DEF Follows, Open, registry, ends
    <3>2. \A i : Left(x, s, i)' <=> Left(x, s, i)
      BY <1>3, <1>4, <2>1 DEF Left
    <3> QED BY <2>3, <3>1, <3>2
  <2> QED BY <2>2, <2>3
<1> QED BY <1>1, <1>3, <1>5, <1>6, NothingNew DEF registry

\* A handler that fails for once: what is left of the call is no longer owed.
LEMMA FailsGap ==
    ASSUME GInv, IInv', NEW s \in Sessions, HandlerFails(s)
    PROVE  GInv'
<1>1. /\ Inside(s) /\ Open(Handler(s)) /\ Onward(s)
      /\ missed' = [missed EXCEPT ![Handler(s)] =
                       @ \union [s : {s}, frame : {published[s]}, at : writing[s]]]
      /\ writing' = [writing EXCEPT ![s] = {}]
  BY DEF HandlerFails
<1>2. /\ subs' = subs /\ known' = known /\ since' = since /\ published' = published /\ out' = out
      /\ closes' = closes /\ gone' = gone
  BY DEF HandlerFails, registry, ends
<1>3. todo[s] # <<>>
  BY <1>1 DEF GInv, IInv, TypeOK
<1>4. PICK h \in Handlers : h = Handler(s)
  BY <1>3, InCall DEF GInv
<1>5. PICK lost : lost = [s : {s}, frame : {published[s]}, at : writing[s]]
  OBVIOUS
<1>6. /\ missed'[h] = missed[h] \union lost
      /\ \A x \in Handlers : x # h => missed'[x] = missed[x]
  BY <1>1, <1>4, <1>5 DEF GInv, IInv, TypeOK
<1>7. /\ writing'[s] = {} /\ \A t \in Sessions : t # s => writing'[t] = writing[t]
  BY <1>1 DEF GInv, IInv, TypeOK
<1>8. /\ \A t \in Sessions : t # s => todo'[t] = todo[t]
      /\ \A x : x # h => (Contains(todo'[s], x) <=> Contains(todo[s], x))
      /\ Contains(todo[s], h) /\ ~Contains(todo'[s], h)
  <2>1. todo'[s] = Tail(todo[s])
    BY <1>1 DEF GInv, IInv, TypeOK, Onward
  <2>2. ~Contains(todo'[s], h)
    BY <1>3, <1>4, <2>1, InCall DEF GInv
  <2> QED BY <1>1, <1>3, <1>4, <2>2, OnwardGap
<1>9. Silent' /\ Since'
  <2>1. \A t \in Sessions : \A x : Contains(todo'[t], x) => Contains(todo[t], x)
    BY <1>8
  <2> QED BY <1>2, <2>1 DEF GInv, Silent, Since
<1>10. Given'
  BY <1>2, <1>7, <1>8 DEF GInv, Given, Inside, Handler
<1>11. \A o \in lost : o \in Objects /\ o.s = s /\ o.frame = published[s] /\ o.at \in writing[s]
  <2>1. \A o \in lost : o.s = s /\ o.frame = published[s] /\ o.at \in writing[s]
    BY <1>5
  <2>2. missed'[h] \subseteq Objects
    BY <1>4 DEF IInv, TypeOK
  <2> QED BY <1>6, <2>1, <2>2
<1>12. Failed'
  <2>1. ASSUME NEW x \in Handlers, NEW o \in missed'[x]
        PROVE  /\ o \in Objects /\ o.frame <= published[o.s]
               /\ o.frame = published[o.s] => ~Contains(todo'[o.s], x)
    <3>1. CASE o \in missed[x]
      <4>1. /\ o \in Objects /\ o.s \in Sessions /\ o.frame <= published[o.s]
            /\ o.frame = published[o.s] => ~Contains(todo[o.s], x)
        BY <3>1 DEF GInv, Failed, Objects
      <4> QED BY <1>8, <4>1
    <3>2. CASE o \notin missed[x]
      <4>1. x = h /\ o \in lost
        BY <1>6, <2>1, <3>2
      <4>2. published[s] \in Nat
        BY DEF GInv, IInv, TypeOK
      <4> QED BY <1>8, <1>11, <4>1, <4>2
    <3> QED BY <3>1, <3>2
  <2> QED BY <1>2, <2>1 DEF Failed, Objects
<1>13. Gapfree(h, s)' /\ (Follows(h, s)' => UpToDate(h, s)')
  <2>1. UpToDate(h, s) /\ Gapless(out[h], s, Owed(h, s))
    BY <1>1, <1>2, <1>4, <1>8 DEF GInv, Follows, Gapfree
  <2>2. \A j : Left(h, s, j) <=> j \in writing[s]
    BY <1>1, <1>4, <1>8 DEF Left
  <2>3. Owed(h, s)' = Owed(h, s) \ lost
    BY <1>2, <1>6 DEF Owed
  <2>4. ASSUME NEW o \in Owed(h, s)
        PROVE  o \in WrittenOf(out[h], s) <=> o \notin lost
    <3>1. o \in WrittenOf(out[h], s) <=> ~(o.frame = published[s] /\ o.at \in writing[s])
      BY <2>1, <2>2 DEF UpToDate
    <3>2. PICK f, i : o = [s |-> s, frame |-> f, at |-> i]
      BY InDue DEF Owed
    <3>3. o \in lost <=> f = published[s] /\ i \in writing[s]
      BY <1>5, <3>2
    <3> QED BY <3>1, <3>2, <3>3
  <2>5. PICK due : due = Owed(h, s)
    OBVIOUS
  <2>6. PICK q : q = out[h]
    OBVIOUS
  <2>7. Gapless(q, s, due \ lost)
    <3>1. WrittenOf(q, s) \subseteq due \ lost
      BY <2>1, <2>4, <2>5, <2>6 DEF Gapless
    <3> QED BY <2>1, <2>5, <2>6, <3>1 DEF Gapless
  <2>8. Gapfree(h, s)'
    BY <1>2, <2>3, <2>5, <2>6, <2>7 DEF Gapfree
  <2>9. \A j : ~Left(h, s, j)'
    BY <1>8 DEF Left
  <2> QED BY <1>2, <2>3, <2>4, <2>8, <2>9 DEF UpToDate
<1>14. ASSUME NEW x \in Handlers, NEW t \in Sessions, x # h \/ t # s
       PROVE  Gapfree(x, t)' /\ (Follows(x, t)' => UpToDate(x, t)')
  <2>1. Owed(x, t)' = Owed(x, t)
    <3>1. CASE x # h
      BY <1>2, <1>6, <3>1 DEF Owed
    <3>2. CASE x = h
      <4>1. \A o \in DueOf(h, t, since[h][t], published[t]) : o \notin lost
        BY <1>11, <1>14, <3>2, InDue
      <4> QED BY <1>2, <1>6, <3>2, <4>1 DEF Owed
    <3> QED BY <3>1, <3>2
  <2>2. /\ Follows(x, t)' => Follows(x, t)
        /\ \A j : Left(x, t, j)' <=> Left(x, t, j)
    <3>1. CASE t # s
      BY <1>2, <1>7, <1>8, <3>1 DEF Follows, Left, Inside, Handler, Open
    <3>2. CASE t = s
      <4>1. x # h
        BY <1>14, <3>2
      <4>2. Contains(todo'[s], x) <=> Contains(todo[s], x)
        BY <1>8, <4>1
      <4> QED BY <1>2, <1>4, <1>7, <3>2, <4>1, <4>2 DEF Follows, Left, Inside, Handler, Open
    <3> QED BY <3>1, <3>2
  <2>3. Gapfree(x, t)'
    BY <1>2, <2>1 DEF GInv, Gapfree
  <2>4. ASSUME Follows(x, t) PROVE UpToDate(x, t)'
    <3>1. UpToDate(x, t)
      BY <2>4 DEF GInv
    <3> QED BY <1>2, <2>1, <2>2, <3>1 DEF UpToDate
  <2> QED BY <2>2, <2>3, <2>4
<1> QED BY <1>9, <1>10, <1>12, <1>13, <1>14 DEF GInv

\* The object that is written is the first of what is due and not written.
LEMMA WriteGap ==
    ASSUME GInv, IInv', NEW s \in Sessions, WriteObject(s)
    PROVE  GInv'
<1>1. PICK i \in writing[s] :
          /\ \A j \in writing[s] : i <= j
          /\ out' = [out EXCEPT ![Handler(s)] =
                        Append(@, [s |-> s, frame |-> published[s], at |-> i])]
          /\ writing' = [writing EXCEPT ![s] = @ \ {i}]
          /\ IF writing[s] = {i} THEN Onward(s) /\ Release(s) ELSE UNCHANGED <<todo, holder>>
  BY DEF WriteObject
<1>2. /\ Inside(s) /\ Open(Handler(s))
      /\ published' = published /\ subs' = subs /\ known' = known /\ since' = since
      /\ closes' = closes /\ gone' = gone /\ missed' = missed
  BY DEF WriteObject, registry, ends
<1>3. todo[s] # <<>>
  BY <1>2 DEF GInv, IInv, TypeOK
<1>4. PICK h \in Handlers : h = Handler(s) /\ h \in known
  BY <1>3, InCall DEF GInv
<1>5. PICK e : e = [s |-> s, frame |-> published[s], at |-> i]
  OBVIOUS
<1>6. /\ i \in Wanted(h, published[s]) /\ e \in Objects /\ e.s = s
      /\ published[s] \in Nat /\ since[h][s] \in Nat /\ since[h][s] < published[s]
  <2>1. i \in Wanted(h, published[s])
    BY <1>2, <1>4 DEF GInv, Given
  <2>2. published[s] \in 1 .. Len(Frames) /\ Contains(todo[s], h)
    BY <1>3, <1>4, InCall DEF GInv
  <2>3. i \in Nat
    <3>1. Frames[published[s]] \in Seq(Addresses)
      BY <2>2, Constants
    <3> QED BY <2>1, <3>1 DEF Wanted
  <2>4. since[h][s] \in Nat /\ since[h][s] < published[s]
    BY <2>2 DEF GInv, IInv, TypeOK, Since
  <2> QED BY <1>5, <2>1, <2>2, <2>3, <2>4, Constants DEF Objects
<1>7. /\ out[h] \in Seq(Objects) /\ out'[h] = Append(out[h], e)
      /\ \A x \in Handlers : x # h => out'[x] = out[x]
  BY <1>1, <1>4, <1>5 DEF GInv, IInv, TypeOK
<1>8. /\ writing'[s] = writing[s] \ {i}
      /\ \A t \in Sessions : t # s => writing'[t] = writing[t]
  BY <1>1 DEF GInv, IInv, TypeOK
<1>9. /\ \A t \in Sessions : t # s => todo'[t] = todo[t]
      /\ \A x : x # h => (Contains(todo'[s], x) <=> Contains(todo[s], x))
      /\ Contains(todo[s], h)
      /\ writing'[s] = {} => ~Contains(todo'[s], h)
      /\ writing'[s] # {} => todo'[s] = todo[s]
  <2>1. CASE writing[s] = {i}
    <3>1. Onward(s) /\ writing'[s] = {}
      BY <1>1, <1>8, <2>1
    <3>2. todo'[s] = Tail(todo[s])
      BY <3>1 DEF GInv, IInv, TypeOK, Onward
    <3>3. ~Contains(todo'[s], h)
      BY <1>3, <1>4, <3>2, InCall DEF GInv
    <3> QED BY <1>3, <1>4, <3>1, <3>3, OnwardGap
  <2>2. CASE writing[s] # {i}
    BY <1>1, <1>3, <1>4, <1>8, <2>2, InCall DEF GInv
  <2> QED BY <2>1, <2>2
<1>10. Silent' /\ Since' /\ Failed'
  <2>1. Silent'
    BY <1>2, <1>4, <1>7 DEF GInv, Silent
  <2>2. \A t \in Sessions : \A x : Contains(todo'[t], x) => Contains(todo[t], x)
    BY <1>9
  <2>3. Failed'
    BY <1>2, <2>2 DEF GInv, Failed, Objects
  <2> QED BY <1>2, <2>1, <2>2, <2>3 DEF GInv, Since
<1>11. Given'
  <2>1. ASSUME NEW t \in Sessions, writing'[t] # {}
        PROVE  writing'[t] \subseteq Wanted(Head(todo'[t]), published[t])
    <3>1. todo'[t] = todo[t] /\ writing'[t] \subseteq writing[t]
      BY <1>8, <1>9, <2>1
    <3> QED BY <2>1, <3>1 DEF GInv, Given, Inside, Handler
  <2> QED BY <1>2, <2>1 DEF Given, Inside, Handler
<1>12. Gapfree(h, s)' /\ (Follows(h, s)' => UpToDate(h, s)')
  <2> DEFINE due == Owed(h, s)
  <2>1. UpToDate(h, s) /\ Gapless(out[h], s, due)
    BY <1>2, <1>4, <1>9 DEF GInv, Follows, Gapfree
  <2>2. \A j : Left(h, s, j) <=> j \in writing[s]
    BY <1>2, <1>4, <1>9 DEF Left
  <2>3. e \in due /\ e.frame = published[s] /\ e.at = i
    <3>1. published[s] \in since[h][s] + 1 .. published[s]
      BY <1>6
    <3>2. e \in DueOf(h, s, since[h][s], published[s])
      BY <1>5, <1>6, <3>1, InDue
    <3>3. e \notin missed[h]
      BY <1>5, <1>9 DEF GInv, Failed
    <3> QED BY <1>5, <3>2, <3>3 DEF Owed
  <2>4. \A p \in due : p \notin WrittenOf(out[h], s) <=> p.frame = published[s] /\ p.at \in writing[s]
    BY <2>1, <2>2 DEF UpToDate
  <2>5. \A p \in due : p.frame = published[s] /\ p.at = i => p = e
    BY <1>5, InDue DEF Owed
  <2> HIDE DEF due
  <2>6. e \notin WrittenOf(out[h], s)
    BY <2>3, <2>4
  <2>7. ASSUME NEW p \in due \ WrittenOf(out[h], s), p # e PROVE Before(e, p)
    <3>1. p.frame = published[s] /\ p.at \in writing[s] /\ p.at # i
      BY <2>4, <2>5, <2>7
    <3>2. i <= p.at /\ i \in Int /\ p.at \in Int
      <4>1. Frames[published[s]] \in Seq(Addresses)
        BY <1>3, Constants, InCall DEF GInv
      <4>2. writing[s] \subseteq 1 .. Len(Frames[published[s]])
        BY <1>2 DEF GInv, IInv, TypeOK
      <4> QED BY <1>1, <3>1, <4>1, <4>2
    <3> QED BY <2>3, <3>1, <3>2 DEF Before
  <2>8. /\ WrittenOf(out'[h], s) = WrittenOf(out[h], s) \union {e}
        /\ Gapless(out'[h], s, due)
    <3>1. PICK q \in Seq(Objects) : q = out[h]
      BY <1>7
    <3>2. PICK d : d = due
      OBVIOUS
    <3>3. /\ Gapless(q, s, d) /\ e \in d \ WrittenOf(q, s)
          /\ \A o \in d \ WrittenOf(q, s) : o # e => Before(e, o)
      BY <2>1, <2>3, <2>6, <2>7, <3>1, <3>2
    <3>4. e \in Objects /\ e.s = s
      BY <1>6
    <3>5. WrittenOf(Append(q, e), s) = WrittenOf(q, s) \union {e} /\ Gapless(Append(q, e), s, d)
      BY <3>3, <3>4, WriteNext
    <3> QED BY <1>7, <3>1, <3>2, <3>5
  <2>9. \A j : Left(h, s, j)' <=> j \in writing'[s]
    <3>1. CASE writing'[s] = {}
      BY <1>9, <3>1 DEF Left
    <3>2. CASE writing'[s] # {}
      BY <1>4, <1>9, <3>2 DEF Left, Inside, Handler
    <3> QED BY <3>1, <3>2
  <2>10. \A p \in due : p \in WrittenOf(out'[h], s) <=> ~(p.frame = published[s] /\ p.at \in writing'[s])
    BY <1>8, <2>3, <2>4, <2>5, <2>8
  <2>11. Owed(h, s)' = due
    BY <1>2 DEF Owed, due
  <2> QED BY <1>2, <2>8, <2>9, <2>10, <2>11 DEF Gapfree, UpToDate, due
<1>13. ASSUME NEW x \in Handlers, NEW t \in Sessions, x # h \/ t # s
       PROVE  Gapfree(x, t)' /\ (Follows(x, t)' => UpToDate(x, t)')
  <2>1. /\ WrittenOf(out'[x], t) = WrittenOf(out[x], t)
        /\ \A due : Gapless(out[x], t, due) => Gapless(out'[x], t, due)
    <3>1. CASE x # h
      BY <1>7, <3>1
    <3>2. CASE x = h
      <4>1. e.s # t
        BY <1>6, <1>13, <3>2
      <4>2. PICK q \in Seq(Objects) : q = out[h]
        BY <1>7
      <4>3. /\ WrittenOf(Append(q, e), t) = WrittenOf(q, t)
            /\ \A due : Gapless(q, t, due) => Gapless(Append(q, e), t, due)
        BY <1>6, <4>1, OthersWrite
      <4> QED BY <1>7, <3>2, <4>2, <4>3
    <3> QED BY <3>1, <3>2
  <2>2. /\ Follows(x, t)' => Follows(x, t)
        /\ \A j : Left(x, t, j)' <=> Left(x, t, j)
    <3>1. CASE t # s
      BY <1>2, <1>8, <1>9, <3>1 DEF Follows, Left, Inside, Handler, Open
    <3>2. CASE t = s
      <4>1. x # h
        BY <1>13, <3>2
      <4>2. Contains(todo'[s], x) <=> Contains(todo[s], x)
        BY <1>9, <4>1
      <4>3. ~(writing'[s] # {} /\ Head(todo'[s]) = x) /\ Head(todo[s]) # x
        BY <1>4, <1>9, <4>1 DEF Handler
      <4> QED BY <1>2, <3>2, <4>2, <4>3 DEF Follows, Left, Inside, Handler, Open
    <3> QED BY <3>1, <3>2
  <2>3. Owed(x, t)' = Owed(x, t) /\ Gapfree(x, t)'
    BY <1>2, <2>1 DEF GInv, Gapfree, Owed
  <2>4. ASSUME Follows(x, t) PROVE UpToDate(x, t)'
    <3>1. UpToDate(x, t)
      BY <2>4 DEF GInv
    <3> QED BY <1>2, <2>1, <2>2, <2>3, <3>1 DEF UpToDate
  <2> QED BY <2>2, <2>3, <2>4
<1> QED BY <1>10, <1>11, <1>12, <1>13 DEF GInv

LEMMA InitGap == Init => GInv
<1> SUFFICES ASSUME Init PROVE GInv
  OBVIOUS
<1>1. IInv
  BY InitInv
<1>2. /\ \A h \in Handlers : out[h] = <<>> /\ missed[h] = {}
      /\ \A s \in Sessions : ~Inside(s) /\ todo[s] = <<>> /\ published[s] = 0
      /\ \A h \in Handlers, s \in Sessions : since[h][s] = 0
  BY DEF Init, Inside
<1>3. Silent /\ Given /\ Since /\ Failed
  BY <1>2, EmptyQueue DEF Silent, Given, Since, Failed
<1>4. ASSUME NEW h \in Handlers, NEW s \in Sessions
      PROVE  Gapfree(h, s) /\ UpToDate(h, s)
  <2>1. Owed(h, s) = {}
    BY <1>2, InDue DEF Owed
  <2>2. MineOf(out[h], s) = {} /\ WrittenOf(out[h], s) = {}
    BY <1>2 DEF MineOf, WrittenOf
  <2> QED BY <2>1, <2>2 DEF Gapfree, Gapless, UpToDate
<1> QED BY <1>1, <1>3, <1>4 DEF GInv

LEMMA NextGap == GInv /\ [Next]_vars => GInv'
<1> SUFFICES ASSUME GInv, [Next]_vars PROVE GInv'
  OBVIOUS
<1>1. IInv'
  BY NextInv DEF GInv
<1>2. ASSUME NEW h \in Handlers, Subscribe(h) \/ PeerGoes(h) PROVE GInv'
  BY <1>1, <1>2, SubscribeGap, EndsGap
<1>3. ASSUME NEW c \in Callers, Close(c) \/ CallCloseFn(c) \/ (\E h \in Handlers : Unsubscribe(c, h))
      PROVE  GInv'
  BY <1>1, <1>3, EndsGap
<1>4. ASSUME NEW s \in Sessions, Publish(s) \/ Receiver(s) \/ HandlerFails(s) PROVE GInv'
  BY <1>1, <1>4, PublishGap, SkipGap, CallGap, WriteGap, RaisesGap, FailsGap DEF Receiver
<1>5. CASE UNCHANGED vars
  BY <1>1, <1>5, EntriesGap DEF vars, registry, ends, Open
<1> QED BY <1>2, <1>3, <1>4, <1>5 DEF Next

-----------------------------------------------------------------------------
(* Theorems *)

\* The registry, the copies of publish and what the handlers write hold what they should.
THEOREM TypeCorrect == Spec => []TypeOK
<1>1. IInv => TypeOK
  BY DEF IInv
<1> QED BY <1>1, Inductive, PTL

\* unsubscribe and close may race: a close_fn is called once, after its entry is gone.
THEOREM ClosedAtMostOnce == Spec => []ClosedOnce
<1>1. IInv => ClosedOnce
  BY DEF IInv, CloseLeft, ClosedOnce
<1> QED BY <1>1, Inductive, PTL

\* The lines of one frame belong together in the history and in a tcp stream.
THEOREM FramesNotMixed == Spec => []CallsWhole
<1>1. IInv => CallsWhole
  BY DEF IInv
<1> QED BY <1>1, Inductive, PTL

\* publish works from a copy, outside of the lock, while handlers come, go and fail: what
\* each writes is what it asked for, without a gap but for calls that failed, and who stays
\* gets everything.
THEOREM NothingLost == Spec => []NoGap
<1>1. \A h \in Handlers, s \in Sessions : Due(h, s) \ missed[h] = Owed(h, s)
  BY WantsAsked DEF Due, DueOf, Owed
<1>2. GInv => NoGap
  <2> SUFFICES ASSUME GInv PROVE NoGap
    OBVIOUS
  <2>1. known \subseteq Handlers
    BY DEF GInv, IInv, TypeOK
  <2> SUFFICES ASSUME NEW h \in known, NEW s \in Sessions
               PROVE  /\ Gapfree(h, s)
                      /\ Contains(subs, h) /\ Open(h) /\ ~Contains(todo[s], h) =>
                            Owed(h, s) \subseteq WrittenOf(out[h], s)
    BY <1>1, <2>1 DEF NoGap, Gapfree, Gapless, Mine, MineOf, Written, WrittenOf
  <2>2. Gapfree(h, s)
    BY <2>1 DEF GInv
  <2>3. Contains(subs, h) /\ Open(h) => UpToDate(h, s)
    BY <2>1 DEF GInv, Follows
  <2> QED BY <2>2, <2>3 DEF UpToDate, Left
<1> QED BY <1>2, InitGap, NextGap, PTL DEF Spec
=============================================================================
