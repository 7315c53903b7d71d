------------------------- MODULE DataStorageProofs -------------------------
(***************************************************************************)
(* Proofs about DataStorage, for any table, values, threads and sessions:  *)
(* the indexes agree with the signals, no drift goes unreported and no     *)
(* change is lost on the way to the queues of the sessions.                *)
(***************************************************************************)
EXTENDS DataStorage, FiniteSetTheorems, TLAPS

-----------------------------------------------------------------------------
(* The inductive invariant *)

Loaded == Keys(signals) = {rows[i].id : i \in 1 .. Len(rows)}

\* IndexesAgree says where an address leads, but not that every address leads somewhere.
Reached ==
    DistinctIds /\ phase # "failed" => \A id \in Keys(signals) : signals[id].ioa \in Keys(ioa_idx)

\* A session that has not subscribed yet is unknown to every updater.
Fresh ==
    \A s \in Sessions : since[s] = Never =>
        /\ s \notin subs /\ queue[s] = <<>>
        /\ \A u \in Threads : s \notin pending[u].targets

Carried == \A u \in Threads : pending[u].targets # {} => pending[u].event \in Events

\* NoChangeMissed while updaters are in their loops: what a session has got and what they
\* still owe to it make up the changes since it subscribed.
Owing(s, e) == {u \in Threads : s \in pending[u].targets /\ pending[u].event = e}

Balance ==
    \A s \in subs, e \in Events :
        /\ IsFiniteSet(Owing(s, e))
        /\ Count(e, queue[s], 0) + Cardinality(Owing(s, e)) = Count(e, changes, since[s])

IInv ==
    /\ TypeOK /\ Loaded /\ IndexesAgree /\ Reached
    /\ DriftReported
    /\ Fresh /\ Carried /\ Balance

-----------------------------------------------------------------------------
(* Lemmas about counting the events of a queue *)

LEMMA CountNat ==
    ASSUME NEW T, NEW s \in Seq(T), NEW e, NEW from \in Nat
    PROVE  /\ IsFiniteSet({i \in from + 1 .. Len(s) : s[i] = e})
           /\ Count(e, s, from) \in Nat
<1>1. IsFiniteSet(from + 1 .. Len(s))
  <2>1. from + 1 \in Int /\ Len(s) \in Int
    OBVIOUS
  <2> QED BY <2>1, FS_Interval
<1>2. IsFiniteSet({i \in from + 1 .. Len(s) : s[i] = e})
  BY <1>1, FS_Subset
<1> QED BY <1>2, FS_CardinalityType DEF Count

LEMMA CountAppend ==
    ASSUME NEW T, NEW s \in Seq(T), NEW x \in T, NEW e, NEW from \in 0 .. Len(s)
    PROVE  Count(e, Append(s, x), from) = Count(e, s, from) + (IF x = e THEN 1 ELSE 0)
<1> DEFINE A == {i \in from + 1 .. Len(s) : s[i] = e}
           B == {i \in from + 1 .. Len(Append(s, x)) : Append(s, x)[i] = e}
<1>1. /\ Len(s) \in Nat /\ Len(Append(s, x)) = Len(s) + 1 /\ from \in Nat
      /\ \A i \in 1 .. Len(s) : Append(s, x)[i] = s[i]
      /\ Append(s, x)[Len(s) + 1] = x
  OBVIOUS
<1>2. IsFiniteSet(A) /\ Count(e, s, from) \in Nat
  BY <1>1, CountNat
<1>3. Len(s) + 1 \notin A
  BY <1>1
<1>4. CASE x = e
  <2>1. B = A \union {Len(s) + 1}
    BY <1>1, <1>4
  <2>2. Cardinality(A \union {Len(s) + 1}) = Cardinality(A) + 1
    BY <1>2, <1>3, FS_AddElement
  <2> QED BY <1>4, <2>1, <2>2 DEF Count
<1>5. CASE x # e
  <2>1. B = A
    BY <1>1, <1>5
  <2>2. Count(e, Append(s, x), from) = Count(e, s, from)
    BY <2>1 DEF Count
  <2> QED BY <1>2, <1>5, <2>2
<1> QED BY <1>4, <1>5

LEMMA CountEnd ==
    ASSUME NEW T, NEW s \in Seq(T), NEW e
    PROVE  Count(e, s, Len(s)) = 0
<1>1. {i \in Len(s) + 1 .. Len(s) : s[i] = e} = {}
  OBVIOUS
<1> QED BY <1>1, FS_EmptySet DEF Count

LEMMA Constants ==
    /\ \A r \in Rows : r.threshold \in Int
    /\ Values \subseteq Int /\ 0 \in Values /\ 0 \in Qualities
    /\ MaxRows \in Nat /\ MaxSteps \in Nat /\ MaxChanges \in Nat
BY DataStorageAssumption DEF DataStorageAssumption

-----------------------------------------------------------------------------
(* The invariant is inductive: load_signal *)

\* What depends on the sessions and the updaters only.
LEMMA QuietStep ==
    ASSUME IInv, UNCHANGED <<subs, queue, pending, changes, since>>
    PROVE  Fresh' /\ Carried' /\ Balance'
<1> USE DEF IInv
<1>1. Fresh'
  BY DEF Fresh
<1>2. Carried'
  BY DEF Carried
<1>3. Balance'
  BY DEF Balance, Owing
<1> QED BY <1>1, <1>2, <1>3

LEMMA AddSignalStep ==
    ASSUME IInv, NEW r \in Rows, AddSignal(r)
    PROVE  IInv'
<1> USE DEF IInv, Keys
<1>1. /\ phase = "loading" /\ rows' = Append(rows, r)
      /\ signals' = Set(signals, r.id, NewSignal(r)) /\ input' = Set(input, r.id, 0)
      /\ UNCHANGED <<subs, queue, pending, ladder, changes, since>>
  BY DEF AddSignal
<1>2. \/ r.ioa \in Keys(ioa_idx) /\ phase' = "failed" /\ UNCHANGED <<ioa_idx, name_idx>>
      \/ /\ r.ioa \notin Keys(ioa_idx) /\ phase' = phase
         /\ ioa_idx' = Set(ioa_idx, r.ioa, r.id) /\ name_idx' = Set(name_idx, r.name, r.id)
  BY DEF AddSignal
<1>3. NewSignal(r) \in SignalConfs
  <2>1. 0 \in Values /\ 0 \in Qualities
    BY Constants
  <2> QED BY <2>1 DEF NewSignal, SignalConfs, Ioas
<1>4. /\ Keys(signals') = Keys(signals) \union {r.id} /\ signals'[r.id] = NewSignal(r)
      /\ \A id \in Keys(signals) : id # r.id => signals'[id] = signals[id]
      /\ signals' \in [Keys(signals') -> SignalConfs]
  BY <1>1, <1>3 DEF TypeOK, Set
<1>5. /\ input'[r.id] = 0 /\ input' \in [Keys(signals') -> Values]
      /\ \A id \in Keys(signals) : id # r.id => input'[id] = input[id]
  BY <1>1, <1>4, Constants DEF TypeOK, Set
<1>6. /\ rows \in Seq(Rows) /\ rows' \in Seq(Rows) /\ Len(rows') = Len(rows) + 1 /\ Len(rows) \in Nat
      /\ \A i \in 1 .. Len(rows) : rows'[i] = rows[i]
      /\ rows'[Len(rows) + 1] = r
  BY <1>1 DEF TypeOK
<1>7. /\ Keys(ioa_idx') \subseteq Ioas /\ ioa_idx' \in [Keys(ioa_idx') -> Keys(signals')]
      /\ name_idx' \in [Keys(name_idx') -> Keys(signals')]
      /\ phase' \in {"loading", "failed"}
      /\ \/ phase' = "failed" /\ UNCHANGED <<ioa_idx, name_idx>>
         \/ /\ r.ioa \notin Keys(ioa_idx) /\ phase' = "loading"
            /\ Keys(ioa_idx') = Keys(ioa_idx) \union {r.ioa} /\ ioa_idx'[r.ioa] = r.id
            /\ \A a \in Keys(ioa_idx) : ioa_idx'[a] = ioa_idx[a]
            /\ Keys(name_idx') = Keys(name_idx) \union {r.name} /\ name_idx'[r.name] = r.id
            /\ \A n \in Keys(name_idx) : n # r.name => name_idx'[n] = name_idx[n]
  <2>1. ioa_idx \in [Keys(ioa_idx) -> Keys(signals')] /\ name_idx \in [Keys(name_idx) -> Keys(signals')]
    BY <1>4 DEF TypeOK
  <2>2. r.id \in Keys(signals') /\ r.ioa \in Ioas /\ Keys(ioa_idx) \subseteq Ioas
    BY <1>4 DEF TypeOK, Ioas
  <2>3. CASE phase' = "failed" /\ UNCHANGED <<ioa_idx, name_idx>>
    BY <2>1, <2>2, <2>3
  <2>4. CASE /\ r.ioa \notin Keys(ioa_idx) /\ phase' = phase
             /\ ioa_idx' = Set(ioa_idx, r.ioa, r.id) /\ name_idx' = Set(name_idx, r.name, r.id)
    <3>1. /\ Keys(ioa_idx') = Keys(ioa_idx) \union {r.ioa} /\ ioa_idx'[r.ioa] = r.id
          /\ \A a \in Keys(ioa_idx) : a # r.ioa => ioa_idx'[a] = ioa_idx[a]
          /\ ioa_idx' \in [Keys(ioa_idx') -> Keys(signals')]
      BY <2>1, <2>2, <2>4 DEF Set
    <3>2. /\ Keys(name_idx') = Keys(name_idx) \union {r.name} /\ name_idx'[r.name] = r.id
          /\ \A n \in Keys(name_idx) : n # r.name => name_idx'[n] = name_idx[n]
          /\ name_idx' \in [Keys(name_idx') -> Keys(signals')]
      BY <2>1, <2>2, <2>4 DEF Set
    <3> QED BY <1>1, <2>2, <2>4, <3>1, <3>2
  <2> QED BY <1>2, <2>3, <2>4
<1>8. TypeOK'
  <2>1. Keys(signals') \subseteq Ids
    BY <1>4 DEF TypeOK, Ids
  <2>2. ladder' \in [Simulators -> {Off} \union Ladders']
    <3>1. Ladders \subseteq Ladders'
      BY <1>4 DEF Ladders
    <3> QED BY <1>1, <3>1 DEF TypeOK
  <2> QED BY <1>1, <1>4, <1>5, <1>6, <1>7, <2>1, <2>2 DEF TypeOK
<1>9. Loaded'
  <2>1. \A i \in 1 .. Len(rows') : i \in 1 .. Len(rows) \/ i = Len(rows) + 1
    BY <1>6
  <2>2. {rows'[i].id : i \in 1 .. Len(rows')} = {rows[i].id : i \in 1 .. Len(rows)} \union {r.id}
    BY <1>6, <2>1
  <2> QED BY <1>4, <2>2 DEF Loaded
<1>10. ASSUME DistinctIds' PROVE DistinctIds /\ r.id \notin Keys(signals)
  <2>1. \A i \in 1 .. Len(rows) : rows[i].id # r.id
    BY <1>6, <1>10 DEF DistinctIds
  <2> QED BY <1>6, <1>10, <2>1 DEF DistinctIds, Loaded
<1>11. signals'[r.id].ioa = r.ioa /\ signals'[r.id].name = r.name /\ signals'[r.id].val = 0
  BY <1>4 DEF NewSignal
<1>12. IndexesAgree'
  <2> SUFFICES ASSUME DistinctIds'
               PROVE  /\ \A ioa \in Keys(ioa_idx') : signals'[ioa_idx'[ioa]].ioa = ioa
                      /\ \A n \in Keys(name_idx') : signals'[name_idx'[n]].name = n
                      /\ phase' # "failed" =>
                            \A id \in Keys(signals') : ioa_idx'[signals'[id].ioa] = id
    BY DEF IndexesAgree
  <2>1. DistinctIds /\ r.id \notin Keys(signals)
    BY <1>10
  <2>2. /\ \A ioa \in Keys(ioa_idx) : signals[ioa_idx[ioa]].ioa = ioa /\ ioa_idx[ioa] \in Keys(signals)
        /\ \A n \in Keys(name_idx) : signals[name_idx[n]].name = n /\ name_idx[n] \in Keys(signals)
        /\ \A id \in Keys(signals) : ioa_idx[signals[id].ioa] = id /\ signals[id].ioa \in Keys(ioa_idx)
    BY <1>1, <2>1 DEF IndexesAgree, Reached, TypeOK
  <2>3. \A ioa \in Keys(ioa_idx') : signals'[ioa_idx'[ioa]].ioa = ioa
    BY <1>4, <1>7, <1>11, <2>1, <2>2
  <2>4. \A n \in Keys(name_idx') : signals'[name_idx'[n]].name = n
    BY <1>4, <1>7, <1>11, <2>1, <2>2
  <2>5. phase' # "failed" => \A id \in Keys(signals') : ioa_idx'[signals'[id].ioa] = id
    BY <1>4, <1>7, <1>11, <2>1, <2>2
  <2> QED BY <2>3, <2>4, <2>5
<1>13. Reached'
  BY <1>1, <1>4, <1>7, <1>10, <1>11 DEF Reached
<1>14. DriftReported'
  BY <1>4, <1>5, <1>11 DEF DriftReported
<1>15. Fresh' /\ Carried' /\ Balance'
  BY <1>1, QuietStep
<1> QED BY <1>8, <1>9, <1>12, <1>13, <1>14, <1>15

-----------------------------------------------------------------------------
(* The invariant is inductive: update_val *)

\* What depends on the lines and their addresses only.
LEMMA TableStep ==
    ASSUME IInv, UNCHANGED <<phase, rows, ioa_idx, name_idx>>, Keys(signals') = Keys(signals),
           \A id \in Keys(signals) : signals'[id].ioa = signals[id].ioa /\ signals'[id].name = signals[id].name
    PROVE  Loaded' /\ IndexesAgree' /\ Reached'
<1> USE DEF IInv, Keys
<1>1. Loaded'
  BY DEF Loaded
<1>2. DistinctIds' = DistinctIds
  BY DEF DistinctIds
<1>3. /\ \A ioa \in Keys(ioa_idx) : ioa_idx[ioa] \in Keys(signals)
      /\ \A n \in Keys(name_idx) : name_idx[n] \in Keys(signals)
  BY DEF TypeOK
<1>4. IndexesAgree'
  BY <1>2, <1>3 DEF IndexesAgree
<1>5. Reached'
  BY <1>2 DEF Reached
<1> QED BY <1>1, <1>4, <1>5

\* What update_val changes under _lock: the signal keeps all but its value and quality.
LEMMA Stored ==
    ASSUME TypeOK, NEW u \in Threads, NEW id \in Keys(signals), NEW v \in Values, NEW q \in Qualities,
           Update(u, id, v, q)
    PROVE  /\ UNCHANGED <<phase, rows, ioa_idx, name_idx, subs, queue, since>>
           /\ pending[u].targets = {}
           /\ input' = [input EXCEPT ![id] = v]
           /\ Keys(signals') = Keys(signals) /\ signals' \in [Keys(signals) -> SignalConfs]
           /\ \A k \in Keys(signals) : /\ signals'[k].ioa = signals[k].ioa
                                       /\ signals'[k].name = signals[k].name
                                       /\ signals'[k].threshold = signals[k].threshold
                                       /\ k # id => signals'[k] = signals[k]
           /\ signals'[id].val = v \/ (~ValChange(signals[id], v, input[id]) /\ signals' = signals)
           /\ \/ UNCHANGED <<pending, changes>>
              \/ \E e \in Events : /\ Len(changes) < MaxChanges /\ changes' = Append(changes, e)
                                   /\ pending' = [pending EXCEPT ![u] = [event |-> e, targets |-> subs]]
<1> USE DEF Keys
<1>1. /\ UNCHANGED <<phase, rows, ioa_idx, name_idx, subs, queue, since>>
      /\ pending[u].targets = {} /\ input' = [input EXCEPT ![id] = v]
  BY DEF Update
<1>2. signals \in [Keys(signals) -> SignalConfs] /\ signals[id] \in SignalConfs
  BY DEF TypeOK
<1>3. CASE ValChange(signals[id], v, input[id]) \/ q # signals[id].q
  <2>1. signals' = [signals EXCEPT ![id].val = v, ![id].q = q]
    BY <1>3 DEF Update
  <2>2. /\ Keys(signals') = Keys(signals)
        /\ \A k \in Keys(signals) : k # id => signals'[k] = signals[k]
    BY <1>2, <2>1
  <2>3. /\ signals'[id] \in SignalConfs /\ signals'[id].val = v
        /\ signals'[id].ioa = signals[id].ioa /\ signals'[id].name = signals[id].name
        /\ signals'[id].threshold = signals[id].threshold
    BY <1>2, <2>1 DEF SignalConfs
  <2>4. signals' \in [Keys(signals) -> SignalConfs]
    <3>1. signals' = [k \in Keys(signals) |-> signals'[k]]
      BY <2>1
    <3>2. \A k \in Keys(signals) : signals'[k] \in SignalConfs
      BY <1>2, <2>2, <2>3
    <3> QED BY <3>1, <3>2
  <2>5. Event(id, v, q) \in Events
    BY <1>2 DEF Event, Events, TypeOK, SignalConfs
  <2>6. \/ UNCHANGED <<pending, changes>>
        \/ /\ Len(changes) < MaxChanges /\ changes' = Append(changes, Event(id, v, q))
           /\ pending' = [pending EXCEPT ![u] = [event |-> Event(id, v, q), targets |-> subs]]
    BY <1>3 DEF Update
  <2> QED BY <1>1, <2>2, <2>3, <2>4, <2>5, <2>6
<1>4. CASE ~(ValChange(signals[id], v, input[id]) \/ q # signals[id].q)
  <2>1. UNCHANGED <<signals, pending, changes>>
    BY <1>4 DEF Update
  <2> QED BY <1>1, <1>2, <1>4, <2>1
<1> QED BY <1>3, <1>4

\* The event is owed to every session that is subscribed.
LEMMA ReportStep ==
    ASSUME IInv, NEW u \in Threads, NEW e \in Events,
           pending[u].targets = {}, changes' = Append(changes, e),
           pending' = [pending EXCEPT ![u] = [event |-> e, targets |-> subs]],
           UNCHANGED <<subs, queue, since>>
    PROVE  Fresh' /\ Carried' /\ Balance'
<1> USE DEF IInv
<1>1. /\ \A w \in Threads : pending'[w] = IF w = u THEN [event |-> e, targets |-> subs] ELSE pending[w]
      /\ pending'[u].event = e /\ pending'[u].targets = subs
  BY DEF TypeOK
<1>2. Fresh'
  BY <1>1 DEF Fresh
<1>3. Carried'
  BY <1>1 DEF Carried
<1>4. ASSUME NEW s \in subs, NEW d \in Events
      PROVE  /\ IsFiniteSet(Owing(s, d)')
             /\ Count(d, queue[s], 0) + Cardinality(Owing(s, d)') = Count(d, changes', since[s])
  <2>1. /\ IsFiniteSet(Owing(s, d)) /\ u \notin Owing(s, d)
        /\ Count(d, queue[s], 0) + Cardinality(Owing(s, d)) = Count(d, changes, since[s])
    BY DEF Balance, Owing
  <2>2. /\ queue[s] \in Seq(Events) /\ changes \in Seq(Events)
        /\ since[s] \in 0 .. Len(changes) /\ since[s] \in Nat
    <3>1. since[s] \in -1 .. Len(changes) /\ since[s] # Never
      BY DEF TypeOK, Fresh
    <3>2. Len(changes) \in Nat
      BY DEF TypeOK
    <3> QED BY <3>1, <3>2 DEF Never, TypeOK
  <2>3. /\ Count(d, queue[s], 0) \in Nat /\ Count(d, changes, since[s]) \in Nat
        /\ Cardinality(Owing(s, d)) \in Nat
    BY <2>1, <2>2, CountNat, FS_CardinalityType
  <2>4. Count(d, changes', since[s]) = Count(d, changes, since[s]) + (IF e = d THEN 1 ELSE 0)
    BY <2>2, CountAppend
  <2>5. CASE e = d
    <3>1. Owing(s, d)' = Owing(s, d) \union {u}
      BY <1>1, <2>5 DEF Owing
    <3>2. /\ IsFiniteSet(Owing(s, d) \union {u})
          /\ Cardinality(Owing(s, d) \union {u}) = Cardinality(Owing(s, d)) + 1
      BY <2>1, FS_AddElement
    <3> QED BY <2>1, <2>3, <2>4, <2>5, <3>1, <3>2
  <2>6. CASE e # d
    <3>1. Owing(s, d)' = Owing(s, d)
      BY <1>1, <2>1, <2>6 DEF Owing
    <3> QED BY <2>1, <2>3, <2>4, <2>6, <3>1
  <2> QED BY <2>5, <2>6
<1>5. Balance'
  BY <1>4 DEF Balance
<1> QED BY <1>2, <1>3, <1>5

LEMMA UpdateStep ==
    ASSUME IInv, NEW u \in Threads, NEW id \in Keys(signals), NEW v \in Values, NEW q \in Qualities,
           Update(u, id, v, q), ladder' \in [Simulators -> {Off} \union Ladders]
    PROVE  IInv'
<1> USE DEF IInv, Keys
<1>1. /\ UNCHANGED <<phase, rows, ioa_idx, name_idx, subs, queue, since>>
      /\ pending[u].targets = {}
      /\ input' = [input EXCEPT ![id] = v]
      /\ Keys(signals') = Keys(signals) /\ signals' \in [Keys(signals) -> SignalConfs]
      /\ \A k \in Keys(signals) : /\ signals'[k].ioa = signals[k].ioa
                                  /\ signals'[k].name = signals[k].name
                                  /\ signals'[k].threshold = signals[k].threshold
                                  /\ k # id => signals'[k] = signals[k]
      /\ signals'[id].val = v \/ (~ValChange(signals[id], v, input[id]) /\ signals' = signals)
      /\ \/ UNCHANGED <<pending, changes>>
         \/ \E e \in Events : /\ Len(changes) < MaxChanges /\ changes' = Append(changes, e)
                              /\ pending' = [pending EXCEPT ![u] = [event |-> e, targets |-> subs]]
  BY Stored
<1>2. /\ input' \in [Keys(signals) -> Values] /\ input'[id] = v
      /\ \A k \in Keys(signals) : k # id => input'[k] = input[k]
  BY <1>1 DEF TypeOK
<1>3. /\ changes' \in Seq(Events) /\ Len(changes) <= Len(changes') /\ Len(changes) \in Nat
      /\ pending' \in [Threads -> [event : {<<>>} \union Events, targets : SUBSET Sessions]]
  <2>1. CASE UNCHANGED <<pending, changes>>
    BY <2>1 DEF TypeOK
  <2>2. CASE \E e \in Events : /\ changes' = Append(changes, e)
                               /\ pending' = [pending EXCEPT ![u] = [event |-> e, targets |-> subs]]
    BY <2>2 DEF TypeOK
  <2> QED BY <1>1, <2>1, <2>2
<1>4. TypeOK'
  <2>1. Ladders' = Ladders
    BY <1>1 DEF Ladders
  <2>2. since' \in [Sessions -> -1 .. Len(changes')]
    <3>1. -1 .. Len(changes) \subseteq -1 .. Len(changes')
      BY <1>3
    <3> QED BY <1>1, <3>1 DEF TypeOK
  <2> QED BY <1>1, <1>2, <1>3, <2>1, <2>2 DEF TypeOK
<1>5. Loaded' /\ IndexesAgree' /\ Reached'
  BY <1>1, TableStep
<1>6. DriftReported'
  <2>1. ASSUME NEW k \in Keys(signals)
        PROVE  IF signals'[k].threshold = NoThreshold THEN input'[k] = signals'[k].val
               ELSE input'[k] # signals'[k].val => Abs(input'[k] - signals'[k].val) < signals'[k].threshold
    <3>1. CASE k # id
      BY <1>1, <1>2, <3>1 DEF DriftReported
    <3>2. CASE k = id /\ signals'[id].val = v
      BY <1>2, <3>2
    <3>3. CASE k = id /\ ~ValChange(signals[id], v, input[id]) /\ signals' = signals
      <4>1. signals[id].threshold \in Int /\ signals[id].val \in Int /\ v \in Int
        <5>1. signals[id] \in SignalConfs
          BY DEF TypeOK
        <5> QED BY <5>1, Constants DEF SignalConfs
      <4>2. Abs(v - signals[id].val) \in Int
        BY <4>1 DEF Abs
      <4> QED BY <1>2, <3>3, <4>1, <4>2 DEF ValChange
    <3> QED BY <1>1, <3>1, <3>2, <3>3
  <2> QED BY <1>1, <2>1 DEF DriftReported
<1>7. Fresh' /\ Carried' /\ Balance'
  <2>1. CASE UNCHANGED <<pending, changes>>
    BY <1>1, <2>1, QuietStep
  <2>2. CASE \E e \in Events : /\ changes' = Append(changes, e)
                               /\ pending' = [pending EXCEPT ![u] = [event |-> e, targets |-> subs]]
    BY <1>1, <2>2, ReportStep
  <2> QED BY <1>1, <2>1, <2>2
<1> QED BY <1>4, <1>5, <1>6, <1>7

\* What is owed is put into one queue.
LEMMA NotifyStep ==
    ASSUME IInv, NEW u \in Threads, Notify(u)
    PROVE  IInv'
<1> USE DEF IInv
<1>1. PICK s \in pending[u].targets :
          /\ queue' = [queue EXCEPT ![s] = Append(@, pending[u].event)]
          /\ pending' = [pending EXCEPT ![u] =
                IF @.targets = {s} THEN Idle ELSE [event |-> @.event, targets |-> @.targets \ {s}]]
  BY DEF Notify, EventPut
<1>2. UNCHANGED <<phase, index, subs, ladder, ghost>>
  BY DEF Notify
<1>3. pending[u] \in [event : {<<>>} \union Events, targets : SUBSET Sessions]
  BY DEF TypeOK
<1>4. PICK e \in Events : e = pending[u].event
  BY <1>1 DEF Carried
<1>5. s \in Sessions /\ queue[s] \in Seq(Events) /\ since[s] # Never
  BY <1>1, <1>3 DEF TypeOK, Fresh
<1>6. /\ queue' \in [Sessions -> Seq(Events)] /\ queue'[s] = Append(queue[s], e)
      /\ \A t \in Sessions : t # s => queue'[t] = queue[t]
  <2>1. queue' = [queue EXCEPT ![s] = Append(queue[s], e)] /\ Append(queue[s], e) \in Seq(Events)
    BY <1>1, <1>4, <1>5
  <2> QED BY <1>5, <2>1 DEF TypeOK
<1>7. /\ pending' \in [Threads -> [event : {<<>>} \union Events, targets : SUBSET Sessions]]
      /\ \A w \in Threads : w # u => pending'[w] = pending[w]
      /\ pending'[u].targets = pending[u].targets \ {s}
      /\ pending'[u].targets # {} => pending'[u].event = e
  <2>1. /\ pending' = [w \in Threads |-> pending'[w]]
        /\ \A w \in Threads : w # u => pending'[w] = pending[w]
        /\ pending'[u] = IF pending[u].targets = {s} THEN Idle
                         ELSE [event |-> pending[u].event, targets |-> pending[u].targets \ {s}]
    <3>1. pending = [w \in Threads |-> pending[w]] /\ DOMAIN pending = Threads
      BY DEF TypeOK
    <3>2. /\ pending' = [w \in Threads |-> pending'[w]]
          /\ \A w \in Threads : w # u => pending'[w] = pending[w]
      BY <1>1, <3>1
    <3>3. pending'[u] = IF pending[u].targets = {s} THEN Idle
                        ELSE [event |-> pending[u].event, targets |-> pending[u].targets \ {s}]
      BY <1>1, <3>1
    <3> QED BY <3>2, <3>3
  <2>2. /\ pending'[u] \in [event : {<<>>} \union Events, targets : SUBSET Sessions]
        /\ pending'[u].targets = pending[u].targets \ {s}
        /\ pending'[u].targets # {} => pending'[u].event = e
    <3>1. CASE pending[u].targets = {s}
      BY <2>1, <3>1 DEF Idle
    <3>2. CASE pending[u].targets # {s}
      <4>1. pending'[u] = [event |-> pending[u].event, targets |-> pending[u].targets \ {s}]
        BY <2>1, <3>2
      <4> QED BY <1>3, <1>4, <4>1
    <3> QED BY <3>1, <3>2
  <2>3. \A w \in Threads : pending'[w] \in [event : {<<>>} \union Events, targets : SUBSET Sessions]
    BY <2>1, <2>2 DEF TypeOK
  <2>4. pending' \in [Threads -> [event : {<<>>} \union Events, targets : SUBSET Sessions]]
    BY <2>1, <2>3
  <2> QED BY <2>1, <2>2, <2>4
<1>8. TypeOK'
  <2>1. Ladders' = Ladders
    BY <1>2 DEF Ladders, index
  <2> QED BY <1>2, <1>6, <1>7, <2>1 DEF TypeOK, index, ghost
<1>9. Loaded' /\ IndexesAgree' /\ Reached' /\ DriftReported'
  <2>1. DriftReported'
    BY <1>2 DEF DriftReported, index, ghost
  <2> QED BY <1>2, <2>1, TableStep DEF index
<1>10. Fresh'
  BY <1>2, <1>5, <1>6, <1>7 DEF Fresh, ghost
<1>11. Carried'
  BY <1>7 DEF Carried
<1>12. ASSUME NEW t \in subs, NEW d \in Events
       PROVE  /\ IsFiniteSet(Owing(t, d)')
              /\ Count(d, queue'[t], 0) + Cardinality(Owing(t, d)') = Count(d, changes, since[t])
  <2>1. /\ IsFiniteSet(Owing(t, d)) /\ t \in Sessions
        /\ Count(d, queue[t], 0) + Cardinality(Owing(t, d)) = Count(d, changes, since[t])
    BY DEF Balance, TypeOK
  <2>2. CASE t = s /\ d = e
    <3>1. u \in Owing(t, d) /\ Owing(t, d)' = Owing(t, d) \ {u}
      BY <1>1, <1>4, <1>7, <2>2 DEF Owing
    <3>2. IsFiniteSet(Owing(t, d) \ {u}) /\ Cardinality(Owing(t, d) \ {u}) = Cardinality(Owing(t, d)) - 1
      BY <2>1, <3>1, FS_RemoveElement
    <3>3. Count(d, queue'[t], 0) = Count(d, queue[t], 0) + 1
      <4>1. Count(d, Append(queue[s], e), 0) = Count(d, queue[s], 0) + 1
        BY <1>5, <2>2, CountAppend
      <4>2. queue'[t] = Append(queue[s], e) /\ queue[t] = queue[s]
        BY <1>6, <2>2
      <4> QED BY <4>1, <4>2
    <3>4. Count(d, queue[t], 0) \in Nat /\ Cardinality(Owing(t, d)) \in Nat
      BY <1>5, <2>1, <2>2, CountNat, FS_CardinalityType
    <3> QED BY <2>1, <3>1, <3>2, <3>3, <3>4
  <2>3. CASE ~(t = s /\ d = e)
    <3>1. Owing(t, d)' = Owing(t, d)
      BY <1>1, <1>4, <1>7, <2>3 DEF Owing
    <3>2. Count(d, queue'[t], 0) = Count(d, queue[t], 0)
      <4>1. CASE t # s
        BY <1>6, <2>1, <4>1
      <4>2. CASE t = s /\ d # e
        <5>1. Count(d, queue[s], 0) \in Nat
          BY <1>5, CountNat
        <5>2. Count(d, Append(queue[s], e), 0) = Count(d, queue[s], 0) + 0
          BY <1>5, <4>2, CountAppend
        <5>3. queue'[t] = Append(queue[s], e) /\ queue[t] = queue[s]
          BY <1>6, <4>2
        <5> QED BY <5>1, <5>2, <5>3
      <4> QED BY <2>3, <4>1, <4>2
    <3> QED BY <2>1, <3>1, <3>2
  <2> QED BY <2>2, <2>3
<1>13. Balance'
  BY <1>2, <1>12 DEF Balance, ghost
<1> QED BY <1>8, <1>9, <1>10, <1>11, <1>13

-----------------------------------------------------------------------------
(* The invariant is inductive: the simulations *)

LEMMA LadderTypes ==
    ASSUME TypeOK, NEW m \in Simulators, ladder[m] # Off
    PROVE  /\ ladder[m] \in Ladders
           /\ ladder[m].val \in Values /\ ladder[m].left \subseteq Keys(signals)
BY DEF TypeOK, Ladders

\* The next value of a ramp is one that update_val can be called with.
LEMMA NextValues ==
    ASSUME NEW v \in Values, NEW p \in Ramps
    PROVE  NextVal(v, p) \in Values
BY DataStorageAssumption DEF DataStorageAssumption, NextVal

\* What changes neither the signals nor the sessions.
LEMMA LadderOnly ==
    ASSUME IInv, UNCHANGED <<phase, index, subs, queue, pending, ghost>>,
           ladder' \in [Simulators -> {Off} \union Ladders]
    PROVE  IInv'
<1> USE DEF IInv
<1>1. TypeOK'
  <2>1. Ladders' = Ladders
    BY DEF Ladders, index
  <2> QED BY <2>1 DEF TypeOK, index, ghost
<1>2. DriftReported'
  BY DEF DriftReported, index, ghost
<1>3. Loaded' /\ IndexesAgree' /\ Reached'
  BY TableStep DEF index
<1>4. Fresh' /\ Carried' /\ Balance'
  BY QuietStep DEF ghost
<1> QED BY <1>1, <1>2, <1>3, <1>4

LEMMA LadderSteps ==
    ASSUME IInv, NEW m \in Simulators, StartLadder(m) \/ LadderYield(m) \/ LadderStep(m)
    PROVE  IInv'
<1> USE DEF IInv
<1>1. CASE StartLadder(m)
  <2>1. PICK p \in Ramps, list \in (SUBSET Measured) \ {{}} :
            ladder' = [ladder EXCEPT ![m] =
                         [ramp |-> p, list |-> list, left |-> list, val |-> p.min, n |-> 0]]
    BY <1>1 DEF StartLadder
  <2>2. [ramp |-> p, list |-> list, left |-> list, val |-> p.min, n |-> 0] \in Ladders
    BY DataStorageAssumption DEF DataStorageAssumption, Ladders, Measured
  <2>3. ladder' \in [Simulators -> {Off} \union Ladders]
    BY <2>1, <2>2 DEF TypeOK
  <2> QED BY <1>1, <2>3, LadderOnly DEF StartLadder
<1>2. CASE LadderYield(m)
  <2>1. ladder[m] # Off
    BY <1>2 DEF LadderYield
  <2>2. PICK id \in ladder[m].left :
            Update(m, id, ladder[m].val, 0) /\ ladder' = [ladder EXCEPT ![m].left = @ \ {id}]
    BY <1>2 DEF LadderYield
  <2>3. PICK v \in Values : v = ladder[m].val
    BY <2>1, LadderTypes
  <2>4. id \in Keys(signals) /\ Update(m, id, v, 0) /\ m \in Threads /\ 0 \in Qualities
    BY <2>1, <2>2, <2>3, LadderTypes, Constants DEF Threads
  <2>5. ladder' \in [Simulators -> {Off} \union Ladders]
    <3>1. ladder[m] \in Ladders
      BY <2>1, LadderTypes
    <3>2. [ladder[m] EXCEPT !.left = @ \ {id}] \in Ladders
      BY <3>1 DEF Ladders
    <3>3. ladder' = [ladder EXCEPT ![m] = [ladder[m] EXCEPT !.left = @ \ {id}]]
      BY <2>2
    <3> QED BY <3>2, <3>3 DEF TypeOK
  <2> QED BY <2>4, <2>5, UpdateStep
<1>3. CASE LadderStep(m)
  <2>1. ladder[m] \in Ladders
    BY <1>3, LadderTypes DEF LadderStep
  <2>2. NextVal(ladder[m].val, ladder[m].ramp) \in Values
    BY <2>1, NextValues DEF Ladders
  <2>3. [ladder[m] EXCEPT !.left = ladder[m].list, !.n = @ + 1,
                          !.val = NextVal(@, ladder[m].ramp)] \in Ladders
    <3>1. PICK v \in Values : v = NextVal(ladder[m].val, ladder[m].ramp)
      BY <2>2
    <3>2. /\ ladder[m].list \in SUBSET Keys(signals) /\ ladder[m].n + 1 \in Nat
          /\ ladder[m] \in [ramp : Ramps, list : SUBSET Keys(signals), left : SUBSET Keys(signals),
                            val : Values, n : Nat]
      BY <2>1 DEF Ladders
    <3>3. [ladder[m] EXCEPT !.left = ladder[m].list, !.n = @ + 1, !.val = v] \in Ladders
      BY <3>2 DEF Ladders
    <3> QED BY <3>1, <3>3
  <2>4. ladder' \in [Simulators -> {Off} \union Ladders]
    <3>1. ladder' = [ladder EXCEPT ![m] =
              IF ladder[m].n + 1 = MaxSteps THEN Off
              ELSE [ladder[m] EXCEPT !.left = ladder[m].list, !.n = @ + 1,
                                     !.val = NextVal(@, ladder[m].ramp)]]
      BY <1>3 DEF LadderStep
    <3> QED BY <2>3, <3>1 DEF TypeOK
  <2> QED BY <1>3, <2>4, LadderOnly DEF LadderStep
<1> QED BY <1>1, <1>2, <1>3

-----------------------------------------------------------------------------
(* The invariant is inductive: main and the sessions *)

LEMMA ServeStep ==
    ASSUME IInv, Serve
    PROVE  IInv'
<1> USE DEF IInv
<1>1. /\ phase = "loading" /\ phase' = "serving"
      /\ UNCHANGED <<index, subs, queue, pending, ladder, ghost>>
  BY DEF Serve
<1>2. TypeOK'
  <2>1. Ladders' = Ladders
    BY <1>1 DEF Ladders, index
  <2> QED BY <1>1, <2>1 DEF TypeOK, index, ghost
<1>3. Loaded' /\ IndexesAgree' /\ Reached' /\ DriftReported'
  BY <1>1 DEF Loaded, IndexesAgree, Reached, DistinctIds, DriftReported, index, ghost
<1>4. Fresh' /\ Carried' /\ Balance'
  BY <1>1, QuietStep DEF ghost
<1> QED BY <1>2, <1>3, <1>4

\* Nothing is owed to a session that subscribes, and nothing has changed since.
LEMMA SessionStep ==
    ASSUME IInv, NEW s \in Sessions, Subscribe(s) \/ Unsubscribe(s)
    PROVE  IInv'
<1> USE DEF IInv
<1>1. UNCHANGED <<phase, index, queue, pending, ladder, input, changes>>
  BY DEF Subscribe, Unsubscribe, ghost
<1>2. changes \in Seq(Events) /\ Len(changes) \in Nat
  BY DEF TypeOK
<1>3. \/ subs' = subs \union {s} /\ since' = [since EXCEPT ![s] = Len(changes)] /\ since[s] = Never
      \/ subs' = subs \ {s} /\ since' = since
  BY DEF Subscribe, Unsubscribe, ghost
<1>4. /\ subs' \subseteq Sessions /\ since' \in [Sessions -> -1 .. Len(changes)]
      /\ \A t \in Sessions : \/ since'[t] = since[t] /\ (t \in subs' => t \in subs)
                             \/ t = s /\ since'[t] # Never
  <2>1. -1 \in -1 .. Len(changes) /\ Len(changes) \in -1 .. Len(changes) /\ Len(changes) # Never
    BY <1>2 DEF Never
  <2>2. subs \subseteq Sessions /\ since \in [Sessions -> -1 .. Len(changes)]
    BY DEF TypeOK
  <2> QED BY <1>3, <2>1, <2>2
<1>5. TypeOK'
  <2>1. Ladders' = Ladders
    BY <1>1 DEF Ladders, index
  <2> QED BY <1>1, <1>4, <2>1 DEF TypeOK, index
<1>6. DriftReported'
  BY <1>1 DEF DriftReported, index
<1>7. Loaded' /\ IndexesAgree' /\ Reached'
  BY <1>1, TableStep DEF index
<1>8. Fresh'
  <2>1. ASSUME NEW t \in Sessions, since'[t] = Never PROVE since[t] = Never /\ t \notin subs'
    <3>1. since[t] = Never
      BY <1>4, <2>1
    <3>2. t \notin subs
      BY <3>1 DEF Fresh
    <3> QED BY <1>4, <2>1, <3>1, <3>2
  <2> QED BY <1>1, <2>1 DEF Fresh
<1>9. Carried'
  BY <1>1 DEF Carried
<1>10. ASSUME NEW t \in subs', NEW e \in Events
       PROVE  /\ IsFiniteSet(Owing(t, e))
              /\ Count(e, queue[t], 0) + Cardinality(Owing(t, e)) = Count(e, changes, since'[t])
  <2>1. CASE t \in subs /\ since'[t] = since[t]
    BY <2>1 DEF Balance
  <2>2. CASE t = s /\ since[s] = Never /\ since'[s] = Len(changes)
    <3>1. queue[t] = <<>> /\ Owing(t, e) = {}
      BY <2>2 DEF Fresh, Owing
    <3>2. <<>> \in Seq(Events) /\ Len(<<>>) = 0
      OBVIOUS
    <3>3. Count(e, queue[t], 0) = 0
      BY <3>1, <3>2, CountEnd
    <3>4. Count(e, changes, since'[t]) = 0
      BY <1>2, <2>2, CountEnd
    <3>5. IsFiniteSet(Owing(t, e)) /\ Cardinality(Owing(t, e)) = 0
      BY <3>1, FS_EmptySet
    <3> QED BY <3>3, <3>4, <3>5
  <2>3. (t \in subs /\ since'[t] = since[t]) \/ (t = s /\ since[s] = Never /\ since'[s] = Len(changes))
    BY <1>3 DEF TypeOK
  <2> QED BY <2>1, <2>2, <2>3
<1>11. Balance'
  BY <1>1, <1>10 DEF Balance, Owing
<1> QED BY <1>5, <1>6, <1>7, <1>8, <1>9, <1>11

-----------------------------------------------------------------------------
LEMMA InitInv == Init => IInv
<1> SUFFICES ASSUME Init PROVE IInv
  OBVIOUS
<1> USE DEF Init
<1>1. Keys(signals) = {} /\ Keys(input) = {} /\ Keys(ioa_idx) = {} /\ Keys(name_idx) = {}
  BY DEF Keys
<1>2. Idle \in [event : {<<>>} \union Events, targets : SUBSET Sessions] /\ Idle.targets = {}
  BY DEF Idle
<1>3. TypeOK
  <2>1. /\ rows \in Seq(Rows) /\ changes \in Seq(Events) /\ Len(changes) = 0
        /\ queue \in [Sessions -> Seq(Events)]
    OBVIOUS
  <2>2. pending \in [Threads -> [event : {<<>>} \union Events, targets : SUBSET Sessions]]
    BY <1>2 DEF Threads
  <2>3. since \in [Sessions -> -1 .. Len(changes)]
    BY <2>1 DEF Never
  <2>4. /\ signals \in [Keys(signals) -> SignalConfs] /\ input \in [Keys(signals) -> Values]
        /\ ioa_idx \in [Keys(ioa_idx) -> Keys(signals)] /\ name_idx \in [Keys(name_idx) -> Keys(signals)]
    BY <1>1 DEF Keys
  <2> QED BY <1>1, <2>1, <2>2, <2>3, <2>4 DEF TypeOK
<1>4. Loaded /\ IndexesAgree /\ Reached /\ DriftReported
  BY <1>1 DEF Loaded, IndexesAgree, Reached, DriftReported
<1>5. Fresh /\ Carried /\ Balance
  BY <1>2 DEF Fresh, Carried, Balance, Threads
<1> QED BY <1>3, <1>4, <1>5 DEF IInv

LEMMA NextInv == IInv /\ [Next]_vars => IInv'
<1> SUFFICES ASSUME IInv, [Next]_vars PROVE IInv'
  OBVIOUS
<1>1. ASSUME NEW r \in Rows, AddSignal(r) PROVE IInv'
  BY <1>1, AddSignalStep
<1>2. CASE Serve
  BY <1>2, ServeStep
<1>3. ASSUME NEW u \in Updaters, UpdateById(u) \/ UpdateByIoa(u) PROVE IInv'
  <2>1. PICK id \in Keys(signals), v \in Values, q \in Qualities : Update(u, id, v, q)
    <3>1. CASE UpdateById(u)
      BY <3>1 DEF UpdateById
    <3>2. CASE UpdateByIoa(u)
      <4>1. PICK ioa \in Keys(ioa_idx), v \in Values : Update(u, ioa_idx[ioa], v, 0)
        BY <3>2 DEF UpdateByIoa
      <4>2. ioa_idx[ioa] \in Keys(signals) /\ 0 \in Qualities
        BY Constants DEF IInv, TypeOK
      <4> QED BY <4>1, <4>2
    <3> QED BY <1>3, <3>1, <3>2
  <2>2. ladder' \in [Simulators -> {Off} \union Ladders] /\ u \in Threads
    BY <1>3 DEF UpdateById, UpdateByIoa, IInv, TypeOK, Threads
  <2> QED BY <2>1, <2>2, UpdateStep
<1>4. ASSUME NEW u \in Threads, Notify(u) PROVE IInv'
  BY <1>4, NotifyStep
<1>5. ASSUME NEW m \in Simulators, StartLadder(m) \/ LadderYield(m) \/ LadderStep(m) PROVE IInv'
  BY <1>5, LadderSteps
<1>6. ASSUME NEW s \in Sessions, Subscribe(s) \/ Unsubscribe(s) PROVE IInv'
  BY <1>6, SessionStep
<1>7. CASE UNCHANGED vars
  <2>1. UNCHANGED <<phase, index, subs, queue, pending, ladder, ghost>>
    BY <1>7 DEF vars
  <2>2. ladder' \in [Simulators -> {Off} \union Ladders]
    BY <2>1 DEF IInv, TypeOK
  <2> QED BY <2>1, <2>2, LadderOnly
<1> QED BY <1>1, <1>2, <1>3, <1>4, <1>5, <1>6, <1>7 DEF Next, Threads

LEMMA Inductive == Spec => []IInv
<1> QED BY InitInv, NextInv, PTL DEF Spec

-----------------------------------------------------------------------------
(* Theorems *)

\* The dictionaries, the queues and the simulations hold what they should.
THEOREM TypeCorrect == Spec => []TypeOK
<1>1. IInv => TypeOK
  BY DEF IInv
<1> QED BY <1>1, Inductive, PTL

\* The indexes lead to the signals, and back.
THEOREM IndexesLead == Spec => []IndexesAgree
<1>1. IInv => IndexesAgree
  BY DEF IInv
<1> QED BY <1>1, Inductive, PTL

\* What is stored stays within the threshold of the last input.
THEOREM NoHiddenDrift == Spec => []DriftReported
<1>1. IInv => DriftReported
  BY DEF IInv
<1> QED BY <1>1, Inductive, PTL

\* A subscribed session gets every change, as often as it was made, however the updaters
\* and the sessions interleave.
THEOREM EveryChangeQueued == Spec => []NoChangeMissed
<1>1. IInv => NoChangeMissed
  <2> SUFFICES ASSUME IInv, AllIdle, NEW s \in subs, NEW e \in Elements(changes)
               PROVE  Count(e, queue[s], 0) = Count(e, changes, since[s])
    BY DEF NoChangeMissed
  <2>1. e \in Events /\ s \in Sessions
    BY DEF IInv, TypeOK, Elements
  <2>2. Owing(s, e) = {}
    BY DEF AllIdle, Owing
  <2>3. queue[s] \in Seq(Events)
    BY <2>1 DEF IInv, TypeOK
  <2>4. Count(e, queue[s], 0) \in Nat
    BY <2>3, CountNat
  <2> QED BY <2>1, <2>2, <2>4, FS_EmptySet DEF IInv, Balance
<1> QED BY <1>1, Inductive, PTL
=============================================================================
