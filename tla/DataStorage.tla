---------------------------- MODULE DataStorage ----------------------------
(***************************************************************************)
(* create_data_storage: the signals of the server, their indexes, the      *)
(* change detection and the notification of the sessions.                  *)
(*                                                                         *)
(* load_signal adds the rows of the signal table before any thread runs;   *)
(* afterwards any thread may update a value and sessions come and go.  A   *)
(* dictionary is a function on the set of its keys.  A method holds _lock  *)
(* from beginning to end, but for the last loop of update_val, which puts  *)
(* the event into the queues of the subscribers it has copied.             *)
(*                                                                         *)
(* Callers of update_val: the commands set and setioa, a random simulation,*)
(* commands of the clients (Updaters) and ladder simulations (Simulators). *)
(***************************************************************************)
EXTENDS Integers, Sequences, FiniteSets

CONSTANTS
    Rows,       \* what a line of the signal table can hold: id, ioa, name,
                \* command (asdu >= 45) and threshold
    Values,     \* what update_val can be called with
    Qualities,
    Updaters,   \* threads that call update_val with any value
    Simulators, \* threads that a command imit_ladder starts
    Ramps,      \* the arguments of imit_ladder: step, min, max
    Sessions,   \* each subscribes its own queue once
    MaxRows,    \* bound: lines of the table
    MaxSteps,   \* cnt_step of imit_ladder
    MaxChanges  \* bound: changes detected

ASSUME DataStorageAssumption ==
    /\ \A r \in Rows : r.threshold \in Int
    /\ Values \subseteq Int /\ 0 \in Values
    /\ \A p \in Ramps : /\ p.step \in Int /\ p.max \in Int /\ p.min \in Values
                       /\ \A v \in Values : v + p.step <= p.max => v + p.step \in Values
    /\ 0 \in Qualities
    /\ Updaters \intersect Simulators = {}
    /\ MaxRows \in Nat /\ MaxSteps \in Nat /\ MaxChanges \in Nat

VARIABLES
    phase,      \* main: "loading", "serving", or "failed" on a ValueError
    rows,       \* ghost: the lines read so far
    signals,    \* _signals: id -> SignalConf
    ioa_idx,    \* _ioa_idx: ioa -> id
    name_idx,   \* _name_idx: name -> id
    subs,       \* the keys of _subs
    queue,      \* out_que of every session
    pending,    \* per updater: the event, and the queues it has still to put it into
    ladder,     \* per simulator: the generator, or Off
    input,      \* ghost: the last value update_val was called with, per id
    changes,    \* ghost: the events in the order of their changes
    since       \* ghost: per session, the number of changes before it subscribed

index == <<rows, signals, ioa_idx, name_idx>>
ghost == <<input, changes, since>>
vars  == <<phase, index, subs, queue, pending, ladder, ghost>>

-----------------------------------------------------------------------------
NoThreshold == -1      \* None

Keys(f) == DOMAIN f
Set(f, k, v) == [x \in DOMAIN f \union {k} |-> IF x = k THEN v ELSE f[x]]

\* IecEvent, built when the new value is stored
Event(id, v, q) == [id |-> id, ioa |-> signals[id].ioa, val |-> v, q |-> q]
Never == -1

Off  == [list |-> {}]
Idle == [event |-> <<>>, targets |-> {}]

Abs(x) == IF x < 0 THEN -x ELSE x

\* a change is measured from the value stored, not from the last one seen
FaultValChange(sg, v, last) ==
    IF sg.threshold = NoThreshold THEN v # sg.val ELSE Abs(v - last) >= sg.threshold
ValChange(sg, v, last) ==
    IF sg.threshold = NoThreshold THEN v # sg.val ELSE Abs(v - sg.val) >= sg.threshold

-----------------------------------------------------------------------------
Init ==
    /\ phase = "loading" /\ rows = <<>>
    /\ signals = <<>> /\ ioa_idx = <<>> /\ name_idx = <<>>
    /\ subs = {} /\ queue = [s \in Sessions |-> <<>>]
    /\ pending = [u \in Updaters \union Simulators |-> Idle]
    /\ ladder = [m \in Simulators |-> Off]
    /\ input = <<>> /\ changes = <<>> /\ since = [s \in Sessions |-> Never]

-----------------------------------------------------------------------------
(* main: load_signal, then the threads *)

FaultNewSignal(r) == [ioa |-> r.ioa, name |-> r.name, command |-> r.command,
                      threshold |-> 0, val |-> r.threshold, q |-> 0]
NewSignal(r) == [ioa |-> r.ioa, name |-> r.name, command |-> r.command,
                 threshold |-> r.threshold, val |-> 0, q |-> 0]

\* the signal is stored before its address is looked up
FaultAddSignal(r) ==
    /\ phase = "loading" /\ Len(rows) < MaxRows
    /\ rows' = Append(rows, r)
    /\ signals' = Set(signals, r.id, NewSignal(r))
    /\ input' = Set(input, r.id, 0)
    /\ ioa_idx' = Set(ioa_idx, r.ioa, r.id)
    /\ name_idx' = Set(name_idx, r.name, r.id)
    /\ UNCHANGED <<phase, subs, queue, pending, ladder, changes, since>>

AddSignal(r) ==
    /\ phase = "loading" /\ Len(rows) < MaxRows
    /\ rows' = Append(rows, r)
    /\ signals' = Set(signals, r.id, NewSignal(r))
    /\ input' = Set(input, r.id, 0)
    /\ IF r.ioa \in Keys(ioa_idx)
       THEN phase' = "failed" /\ UNCHANGED <<ioa_idx, name_idx>>
       ELSE /\ ioa_idx' = Set(ioa_idx, r.ioa, r.id)
            /\ name_idx' = Set(name_idx, r.name, r.id)
            /\ UNCHANGED phase
    /\ UNCHANGED <<subs, queue, pending, ladder, changes, since>>

Serve ==
    /\ phase = "loading" /\ phase' = "serving"
    /\ UNCHANGED <<index, subs, queue, pending, ladder, ghost>>

-----------------------------------------------------------------------------
(* update_val *)

\* the part under _lock, for a signal that is known
Update(u, id, v, q) ==
    LET sg == signals[id]
        changed == ValChange(sg, v, input[id]) \/ q # sg.q
    IN  /\ phase = "serving" /\ pending[u].targets = {}
        /\ input' = [input EXCEPT ![id] = v]
        /\ IF changed
           THEN /\ signals' = [signals EXCEPT ![id].val = v, ![id].q = q]
                /\ IF sg.command
                   THEN UNCHANGED <<pending, changes>>
                   ELSE /\ Len(changes) < MaxChanges
                        /\ pending' = [pending EXCEPT ![u] =
                                         [event |-> Event(id, v, q), targets |-> subs]]
                        /\ changes' = Append(changes, Event(id, v, q))
           ELSE UNCHANGED <<signals, pending, changes>>
        /\ UNCHANGED <<phase, rows, ioa_idx, name_idx, subs, queue, since>>

\* the commands set and imit_rand
UpdateById(u) ==
    /\ UNCHANGED ladder
    /\ \E id \in Keys(signals), v \in Values, q \in Qualities : Update(u, id, v, q)

\* the command setioa, and the commands of a client (on_command)
UpdateByIoa(u) ==
    /\ UNCHANGED ladder
    /\ \E ioa \in Keys(ioa_idx), v \in Values : Update(u, ioa_idx[ioa], v, 0)

\* put_nowait, outside of _lock, one queue after the other
FaultEventPut(u) == LET id == pending[u].event.id
                    IN  Event(id, signals[id].val, signals[id].q)
EventPut(u) == pending[u].event

Notify(u) ==
    /\ \E s \in pending[u].targets :
          /\ queue' = [queue EXCEPT ![s] = Append(@, EventPut(u))]
          /\ pending' = [pending EXCEPT ![u] =
                IF @.targets = {s} THEN Idle ELSE [event |-> @.event, targets |-> @.targets \ {s}]]
    /\ UNCHANGED <<phase, index, subs, ladder, ghost>>

-----------------------------------------------------------------------------
(* imit_ladder: a generator that yields its value for every signal, then takes *)
(* the next one.  Floats are integers here: no rounding.                       *)

Measured == {id \in Keys(signals) : ~signals[id].command}

\* the pattern of the command names some measured signals
StartLadder(m) ==
    /\ phase = "serving" /\ ladder[m] = Off
    /\ \E p \in Ramps, list \in (SUBSET Measured) \ {{}} :
          ladder' = [ladder EXCEPT ![m] =
                       [ramp |-> p, list |-> list, left |-> list, val |-> p.min, n |-> 0]]
    /\ UNCHANGED <<phase, index, subs, queue, pending, ghost>>

\* one after the other, in the order of the dictionary (left open here)
LadderYield(m) ==
    /\ ladder[m] # Off
    /\ \E id \in ladder[m].left :
          /\ Update(m, id, ladder[m].val, 0)
          /\ ladder' = [ladder EXCEPT ![m].left = @ \ {id}]

NextVal(val, p) == IF val + p.step > p.max THEN p.min ELSE val + p.step

LadderStep(m) ==
    /\ ladder[m] # Off /\ ladder[m].left = {} /\ pending[m].targets = {}
    /\ LET g == ladder[m]
       IN  ladder' = [ladder EXCEPT ![m] =
             IF g.n + 1 = MaxSteps THEN Off
             ELSE [g EXCEPT !.left = g.list, !.n = @ + 1, !.val = NextVal(@, g.ramp)]]
    /\ UNCHANGED <<phase, index, subs, queue, pending, ghost>>

-----------------------------------------------------------------------------
(* run_accept_loop subscribes a session, client_rec unsubscribes it at its end *)

\* a new connection has an address of its own
Subscribe(s) ==
    /\ phase = "serving" /\ since[s] = Never
    /\ subs' = subs \union {s}
    /\ since' = [since EXCEPT ![s] = Len(changes)]
    /\ UNCHANGED <<phase, index, queue, pending, ladder, input, changes>>

Unsubscribe(s) ==
    /\ s \in subs
    /\ subs' = subs \ {s}
    /\ UNCHANGED <<phase, index, queue, pending, ladder, ghost>>

-----------------------------------------------------------------------------
Next ==
    \/ \E r \in Rows : AddSignal(r)
    \/ Serve
    \/ \E u \in Updaters : UpdateById(u) \/ UpdateByIoa(u) \/ Notify(u)
    \/ \E m \in Simulators : StartLadder(m) \/ LadderYield(m) \/ LadderStep(m) \/ Notify(m)
    \/ \E s \in Sessions : Subscribe(s) \/ Unsubscribe(s)

Spec == Init /\ [][Next]_vars

-----------------------------------------------------------------------------
(* Properties *)

Ids     == {r.id : r \in Rows}
Ioas    == {r.ioa : r \in Rows}
Events  == [id : Ids, ioa : Ioas, val : Values, q : Qualities]
Threads == Updaters \union Simulators

SignalConfs == [ioa : Ioas, name : {r.name : r \in Rows}, command : {r.command : r \in Rows},
                threshold : {r.threshold : r \in Rows}, val : Values, q : Qualities]

Ladders == [ramp : Ramps, list : SUBSET Keys(signals), left : SUBSET Keys(signals),
            val : Values, n : Nat]

TypeOK ==
    /\ phase \in {"loading", "serving", "failed"} /\ rows \in Seq(Rows)
    /\ Keys(signals) \subseteq Ids /\ signals \in [Keys(signals) -> SignalConfs]
    /\ input \in [Keys(signals) -> Values]
    /\ Keys(ioa_idx) \subseteq Ioas /\ ioa_idx \in [Keys(ioa_idx) -> Keys(signals)]
    /\ name_idx \in [Keys(name_idx) -> Keys(signals)]
    /\ subs \subseteq Sessions /\ queue \in [Sessions -> Seq(Events)]
    /\ pending \in [Threads -> [event : {<<>>} \union Events, targets : SUBSET Sessions]]
    /\ ladder \in [Simulators -> {Off} \union Ladders]
    /\ changes \in Seq(Events) /\ since \in [Sessions -> -1 .. Len(changes)]

\* The lines of the table have different ids.
DistinctIds == \A i, j \in 1 .. Len(rows) : rows[i].id = rows[j].id => i = j

\* With distinct ids the indexes and the signals agree: an address leads to the
\* signal that has it and, once the server runs, every signal has its address.
IndexesAgree ==
    DistinctIds =>
        /\ \A ioa \in Keys(ioa_idx) : signals[ioa_idx[ioa]].ioa = ioa
        /\ \A n \in Keys(name_idx) : signals[name_idx[n]].name = n
        /\ phase # "failed" =>
              \A id \in Keys(signals) : ioa_idx[signals[id].ioa] = id

\* A value that drifts by less than the threshold at a time is reported in the
\* end: what is stored is never a threshold or more away from the last input.
DriftReported ==
    \A id \in Keys(signals) :
        LET sg == signals[id]
        IN  IF sg.threshold = NoThreshold THEN input[id] = sg.val
            ELSE input[id] # sg.val => Abs(input[id] - sg.val) < sg.threshold

Elements(s) == {s[i] : i \in 1 .. Len(s)}

\* How often e occurs in s after position from.
Count(e, s, from) == Cardinality({i \in from + 1 .. Len(s) : s[i] = e})

AllIdle == \A u \in Threads : pending[u].targets = {}

\* Once every updater has finished its loop, a session that is subscribed has in
\* its queue every change that was made since it subscribed, as often as it was
\* made.
NoChangeMissed ==
    AllIdle => \A s \in subs : \A e \in Elements(changes) :
        Count(e, queue[s], 0) = Count(e, changes, since[s])

-----------------------------------------------------------------------------
(* What the documents say and the code does not do *)

\* create_data_storage, "Thread-safe operations": the last event of a signal in
\* the queue of a session tells what is stored.
LastEventCurrent ==
    AllIdle => \A s \in subs : \A i \in 1 .. Len(queue[s]) :
        (\A j \in i + 1 .. Len(queue[s]) : queue[s][j].id # queue[s][i].id) =>
            LET e == queue[s][i]
            IN  e.val = signals[e.id].val /\ e.q = signals[e.id].q
=============================================================================
