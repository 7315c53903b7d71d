# Verification of drv60870

TLA+ models of the IEC 60870-5-104 server and client of this repository, checked
with TLC, and proofs about them checked with TLAPS. The modules follow the Python
code, not the standard: where code and documents differ, the code is modelled and
the difference is shown by a run that finds a violation.

Contents: [the system](#the-system), [modules](#modules-and-how-they-correspond-to-the-code),
[runs](#runs), [findings](#findings), [proofs](#proofs), [not modelled](#what-is-not-modelled),
[plan](#plan).

## The system

Two programs talk over TCP. The server (RTU) keeps signals and reports their
changes; the client (SCADA) asks for a general interrogation (GI) and listens.
Each connection has two threads at either end. All threads of a process share
memory and are coordinated by `threading.Lock`, `queue.Queue` and `threading.Event`.

| Component | State | Operations | Hard because | Correct when |
|---|---|---|---|---|
| Session: `server.client_send`, `client_rec`; `client.send_loop`, `recv_loop`; `protocol.proc_frame` and the frame builders; `common.ClientState` | V(S), V(R), last N(R), count towards w, STARTDT, at both ends | send/receive I, S, U frames; GI; keepalive | two threads send with one V(S); the client encodes a GI before it sends it; numbers wrap; acknowledgement by count, without a timer | frames in sequence; at most k unacknowledged; a full window opens again; a GI is counted and acknowledged |
| Outbound queue: `ClientState.out_que`, the loop of `client_send`, the GI part of `handle_i_frame` | the queue, the batch in hand, the GI under way | put, take, put back (window full, other type), pack, send, discard | put-backs reorder; a GI is read and queued while values change; the receiver queues what the sender sends | every event sent or dropped once; confirmation first; the answer is complete |
| Signal storage: `common.create_data_storage` | signals, indexes by address and name, subscribers | add_signal, update_val, subscribe, unsubscribe | events are put after the lock is released; subscribers come and go; add_signal fails half-way | indexes agree; no change missed; slow drift reported |
| Client pool and api: `client.create_client_pool`, `create_client_api`, `run_client_loop`, `shutdown_client` | name → session, stop events, threads | connect, disconnect, dead session scan, exit, Ctrl-C | main and console remove by name; the limit is tested twice; connect fails after it started the threads | one owner per session; whatever leaves the pool stops; a session that was told to stop, or is gone, leaves |
| Server connections: `server.run_accept_loop`, start and end of the two threads, `common.create_client_storage`, `shutdown_server` | address → connection in two storages, stop events | accept, subscribe, add, start, end, close_all | a receiver may end before or after others reuse its address; the end of the stream does not set `stop_event` | an ended connection is in no storage; a receiving one is in both; its sender ends |
| Receive buffers: the loops of `client_rec` and `recv_loop` | bytes received | find 0x68, cut, skip, overflow | arbitrary splits; 0x68 inside a frame | same frames for every split, none left behind |
| Event bus: `event_bus.py`, `client.create_history_writer`, `client.setup_bus` | handlers with their filters, their files and sockets | subscribe, unsubscribe, publish, close | publish calls from a copy, without a lock; several receivers write to one file | each gets what it asked for without a gap, no mix, closed once, a publish ends |
| Codec: `protocol.py`, `const.py` | none | encode and decode values, quality, CP56Time2a, batches, commands | ranges, signs, lengths, types that cannot be encoded | round trip |
| Simulation and command lines: `imit.py`, `control_server.py`, `control_client.py` | simulation threads | set values, ramps, commands | they are the concurrent callers of `update_val` | their changes are reported like any other |
| `log_viewer.py`, `bus_client.py`, configuration files | files | input and output | | |

How they interact: `update_val` and `handle_i_frame` put events into the `out_que`
of a session; `client_send` takes them, tests the window and sends. `client_rec`
runs `proc_frame` and sends its response under `seq_lock`, which `client_send` also
takes for the window test and, separately, for build and send. `run_accept_loop`
subscribes a session to the storage and adds it to the client storage; the
`finally` of `client_rec` removes it from both. In the client the console thread
and main both work on the pool; the receivers publish on the event bus, each frame
from `process_frame` through `on_data`, and so wait for the slowest subscriber.

The hazards this leaves are listed, each at its line, in `PROJECT.json` with the
properties that would catch them.

## Modules and how they correspond to the code

`PROJECT.json` ("map") gives the lines that each definition translates.

**Session** has both ends of one connection. One variable per field of
`ClientState` at each end (`s_` server, `c_` client), two channels for TCP, the
client's `out_que` of encoded packets. What runs under `seq_lock` is one action;
`client_send` is split where it lets the lock go (`s_pc`: get, window, build, idle).
The server's queue is only counted. `ApiGiRead`/`ApiGiPut` are the two reads of
`build_i_frame` that `api.gi` makes without a lock.

**SessionInv** has the two inductive invariants, **SessionProofs** their proofs. The other
components have their inductive invariant and its proof in one module: **OutQueueProofs**,
**DataStorageProofs**, **ClientPoolProofs**, **ServerLifeProofs**, **EventBusProofs**,
**WireProofs**. **CodecProofs** has what WireProofs needs to know of bytes: lemmas on the
operators of Codec, without a state.

**OutQueue** refines the queue that Session counts. A value is the number of its
update, so that an event names the change it reports; `sent` is what the client
receives. Whether the window is full is a choice at each test, and nothing says that it ever opens. Actions: `Update`
and `Notify` (in and behind the lock of `update_val`), `ReceiveGi`, `GiRead`,
`GiPut`, `GiConfirm` (`handle_i_frame`; `interrogated` = the receiver holds
`seq_lock`), `StartDt`, `StopDt`, the eight steps of `client_send`, and its two ends:
`SenderStops` between events, `SenderDies` with a batch in hand (`struct.error` of
`build_i_frame`, or an error of the send). `late` is a
ghost: the frames of `client_send` since data transfer was stopped.

**Mailbox** is the abstract specification of a session's queue: an event that is
put is taken once, to be delivered or dropped; nothing is said of the order.
`OutQueue!DeliveredOnce` is the refinement: pending = the queue and the batch,
delivered = what was sent except for confirmations, dropped = what was discarded, or in
the hands of a sender that failed.

**DataStorage** has the dictionaries as functions and `update_val` in two steps:
the change under `_lock`, then one put per subscriber copied. `rows`, `input`,
`changes` and `since` are ghosts: what was loaded, the last input per signal, the
events in the order of their changes, and when a session subscribed. The callers are
`Updaters` (the commands `set` and `setioa`, `imit_rand`, and `on_command` of the
receivers: any value at any time) and `Simulators`, the generator of `imit_ladder` with
its value and the signals it has still to yield.

**ClientPool** has `_sessions`, the socket, `stop_event` and the two loops of every
connection, and what main and the console are in the middle of (`job`): the steps
of `connect` (test of the limit, start, add) and of `remove_session` (pop, stop)
are separate actions, because the other thread runs in between. A loop of a session has
every end the code has: the end of the stream or an error in
`recv` (`RecvFails`), an exception of `process_frame`, which `recv_loop` does not catch
(`RecvRaises`), a packet that cannot be sent (`SendFails`), and a keepalive that cannot be sent,
which raises inside of a handler (`KeepaliveFails`). Only some of them set the event; `died`, a
ghost, says which loops an exception ended without it. Once the event is set (`Stopped`) both
loops end within a second, which changes nothing for anyone: they are followed up to there. Main's loop sleeps (`Sleep`) and then makes a whole
pass (`Scan`, `Look`), also when the exit command came meanwhile.

**ServerLife** has the two storages, the socket, `stop_event`, sender and receiver
of every connection, how far `run_accept_loop` is with the newest, and the list
`client_threads`. A sender is also `blocked` while it takes and puts back an event
because the window is full, and ends by `SenderRaises` when `build_i_frame` raises (see
[findings](#findings)), or by `SenderFails`: its send fails, on a connection that is gone or, after a
timeout, on an open one. A receiver ends by the end of the stream or `stop_event`
(`ReceiverEof`), an error of its socket (`ReceiverFails`) or any other exception
(`ReceiverRaises`); all of them pass its `finally`. `Interrupt` is Ctrl-C, or an error of `accept`, anywhere in the loop.

**Codec** has the functions of `protocol.py` on bytes: `EncVal`, `EncObj`,
`BuildIFrame`, `ToCp56` one way, `Parsed`, `DecVal`, `DecodeIFrameObjects`, `FromCp56` the
other, with the sizes of `const.py` and the length of a batch from `client_send`.
`BuildRaises` says when Python raises instead, `Arrives` what of an event must arrive: the
value as far as its type can hold it, the quality bits that the type has, the milliseconds.

**FrameBuffer** has the receive loop: `Receive` (one `recv` of any length in `Pieces`),
`Discard` (no start byte), `WaitForMore`, `Cut`. The two loops of the code are written
differently and do the same, but for the limit of the server.

**Wire** composes both: a sender works through a script of messages, TCP delivers its
bytes, the receiving end cuts frames off and records what `process_frame` (client) or
`proc_frame` (server) makes of each. `RoundTrip` compares that with the messages, which
never were bytes. Frames that only other implementations send (the bit SQ, commands,
stray bytes) are in the scripts, because both receivers take them.

**EventBus** has `_subs`, the copy each publish works through (`todo`), what the handler in
hand has still to write (`writing`, the positions in the frame), the locks of the handlers, and what each wrote
(`out`). A handler writes object by object, so that it can be closed, or lose its peer,
in the middle. `Stored` is what `subscribe` makes of a filter, `Wants` how `publish` applies
it; the properties use `Asked`, which says what a subscriber asked for on its own: with no
filter, or an empty one, everything. A datagram of a udp sender (`Lossy`) may fail and the next
one not (`HandlerFails`); `missed`, a ghost, has what was lost by that. The program itself subscribes in `setup_bus` only and never calls
`unsubscribe`; the module has the whole interface of the bus, with two callers.

An operator called `Fault...` is a broken variant of the definition after it (a lost
guard, a wrong order, an off-by-one). No specification uses one: they are the mutants listed in
`PROJECT.json`, which show that each property can fail.

Abstractions that matter:

- TCP delivers everything in order; Session, OutQueue and ServerLife speak of whole frames,
  which Wire justifies. `socket.send` never sends a part of a frame: frames have at most
  255 bytes, at most k of them are under way, and the socket's buffer holds them.
- Values are counted in halves (so that `int()` visibly cuts), and a float is four bytes that
  hold that number, so that `struct`'s rounding to 32 bits is no part of any result. TLC's
  integers end below 2^31: its runs do not reach the upper ends of the 32-bit types, the
  proofs do. Frames that are cut short or carry impossible times are left out.
- Time is not modelled: a timeout may happen whenever the code waits. Keepalives are
  limited to one under way per side.
- A connection is made once, and connections are numbered in the order they are made.
- Ctrl-C reaches the client's main between items of its loops or in its sleep, the server's main
  between any two steps. Joins with a timeout change nothing and are left out.
- The ramp of a simulation is in integers: the rounding of floats, by which the last step
  below the maximum may be missed, is left out.
- A subscriber's file takes every write until it is closed (no full disk), and a peer that
  does not read blocks `sendall` only for finitely long. An error of a tcp sender is for
  good, one of a udp sender need not be.
- OutQueue's receiver never fails; Ctrl-C, the end of the connection and `stop_event` reach
  its sender as `SenderStops`.
- In ClientPool a test of `stop_event` and the pop that follows are one step: the
  event never becomes clear again.
- The console is a daemon thread: it ends with main.

## Runs

Eight runs pass, four find the violations listed below. Deadlock is checked for
Session, whose threads never stop; the other systems do stop (nothing left to
change or to send, all connections used up, the program ended).

| Run | Shows |
|---|---|
| `session_gi` | Two interrogations, accepted or (other common address) ignored, batches, keepalives, put-backs; k = w = 2, numbers modulo 5. `ServerFramesInSequence`: both server threads send, no number is taken twice. `InterrogationsCounted`, `InterrogationsAcknowledged`: also when both carry the same N(S). `StallOnlyByStaleAck`: the only way to a window that nothing can open. |
| `session_window` | Data changes and keepalives, no interrogation; k = w = 2, numbers modulo 4. The inductive invariant `IInv`; `WindowSound`: at most k unacknowledged, and a full window has its acknowledgement under way; `WindowReopensWithoutGi` under fairness. None of this speaks of the confirmation of an interrogation, which is sent past the window (see [findings](#findings)). |
| `outqueue_delivery` | `DeliveredOnce` (refinement of Mailbox), `ConfirmationFirst`, `InterrogationComplete`, `OneLateFrame`: after STOPDT at most the frame in the making; under fairness `EventuallyTaken`: an event does not circulate for ever, unless `client_send` ends or never again finds the window open. Two signals of one type or of two, one of them without an encoding, a command point, batches of two. |
| `storage_update` | `IndexesAgree` for all tables of two lines that may repeat ids, addresses and names; `NoChangeMissed`: each session gets each change since it subscribed as often as it happened; `DriftReported`, also for the drift of a ladder. |
| `pool_life` | `OwnedOnce`, `UnownedStops`, `LimitTestedOnce`, `ExitClosesAll`, with every end of the two loops and both threads at work on the pool; and, under fairness, `DeadSessionLeaves`: a session that was told to stop, or whose connection is gone, leaves the pool, also when one of its loops was ended by an exception. That both were is excepted, and is `pool_dead`. |
| `server_life` | `NoGhosts`, `Registered`, `Listed`: shutdown joins every thread that runs; under fairness `LeftForgotten`, `SenderFollows`. |
| `wire` | `RoundTrip`: however TCP cuts the bytes, what is processed is what was sent, in order, with value, quality, time, cause and addresses; `NoFrameWaits`, nor is the server's buffer ever too long; `FullBatchFits`; under fairness `AllProcessed`. Of a step position below zero and of the low quality bits of one-byte types it asks nothing, since the code does not keep them (see [findings](#findings)). |
| `bus` | `NoGap`: what a subscriber writes for a session is what it asked for of all that was published since it subscribed, in order and, but for datagrams that failed, without a hole; `CallsWhole`; `ClosedOnce`; under fairness `PublishEnds`. |

### Bounds, and why they are enough

- Session: the modulus must exceed k (the code: 30 < 32768); 4 and 5 make the counters
  wrap in a few frames. k = w in the passing runs is the tightest setting of the
  window: acknowledging one frame later would leave it shut. Two interrogations are needed for a pair with the same N(S), one for a
  stale acknowledgement. All properties of safety in these runs are also proved for
  every value of the constants.
- OutQueue: two signals of one type make a batch, the termination has another type;
  one updater and the interrogation are two threads that put; one interrogation, one
  STOPDT, since a second frame needs no second STOPDT to be late. What put-backs do to the
  order does not depend on more events than these.
- DataStorage: a conflict takes two lines; a wrong order two changes. Values 0, 1, 2
  with threshold 2 are a drift in two steps. Three steps of a ladder of two values climb
  and start again. Two updaters are in `storage_race`; here the second thread is the ladder.
- ClientPool: three connections and a limit of two are the least with which the limit
  can be hit by a connection already made; two names make a swap of sessions visible.
- ServerLife: two connections are the least with which one can remove the other's
  entry; two ports of one host tell address from host.
- Wire: `Pieces` of 1, 7 and 30 bytes cut short frames at every byte and make pieces that hold
  several frames and parts of others (the code: up to 1024). `MaxRxBuf` is 57: a piece
  and the longest frame sent to the server less a byte, which stands for 1024 + 254 against
  the 16384 of the shipped configuration. Each type alone with the ends of its range, and
  104 (0x68) in addresses, values, quality and counters; three frames in a row are enough for
  a frame, what may be left before it, and what follows.
- EventBus: two sessions for the locks, two frames for order, one with two objects so that a
  call can be interrupted; one subscriber with a lock, a peer and an empty filter, one
  with neither, a filter and datagrams that may fail; two threads that close.

### Fairness

Weak fairness of each thread's steps: a thread that can run does, since every wait
in the code (`recv`, `accept`, `get`, `sleep`) has a timeout of at most a second.
In Session the operator and the data changes are not fair. OutQueue has weak fairness of
the updaters' puts, the receiver and the sender. It assumes nothing about the window, which
an interrogation can close for good (`session_stall`), and `EventuallyTaken` excepts exactly
that, and a sender that has ended. It holds for finitely many updates; an unending stream of
changes could keep an event in the queue behind them.
In ClientPool `recv_loop` notices the end of the connection. On a
connection that is gone `send_loop` fails too, with the next packet or with a keepalive after t3;
which of them is not determined, so their disjunction is fair and neither alone. Failures on an
open connection, and exceptions, are never fair.
ServerLife has the same reading of its threads. Neither assumes that a peer or the user does
anything.
Wire has weak fairness of the receiving thread only. EventBus has strong fairness of each
receiver, which must get a handler's lock that others take and release again and again:
`threading.Lock` does not promise it, but each holder leaves in finitely many steps and
frames are finite, so a receiver does not wait for ever for lack of a turn. That a datagram
fails is not fair.

## Findings

Each is a run that violates the property named.

- `session_stall` (`WindowReopens`): an interrogation is encoded with the V(R) of the
  moment the command is given. Sent after a newer S-frame it takes `last_ack_nr`
  back; the client has no timer for acknowledgements, so a full window stays full.
- `storage_race` (`LastEventCurrent`): two threads that change one signal can queue
  their events in the wrong order, for good.
- `pool_leak` (`SessionsManaged`): connecting under a name in use leaves a session
  with two running threads that nobody can stop.
- `pool_dead` (`DeadSessionRemoved`): when `recv_loop` was ended by an exception and then the
  keepalive of `send_loop` fails, both loops are gone and `stop_event` is clear: the scan does
  not see that the session is dead, and it stays in the pool.

Seen while reading, with the code and the document that differ, but without a run:

- a value that its type cannot hold makes `build_i_frame` raise `struct.error` where it
  promises "None on error" (`protocol.py:31`, `:69`), and `client_send` catches socket
  errors only (`server.py:121`): the thread ends, `stop_event` stays clear, and the session
  goes on without its events (`SenderRaises` in Wire and ServerLife, `SenderDies` in
  OutQueue);
- the confirmation of an interrogation is sent without the test of the window, between a
  test and the send it allowed or past a full window, so that more than k frames are
  unacknowledged (`server.py:194`, and "limitation by `k`" at `readme.md:108`);
- a negative step position is decoded without its sign (`protocol.py:408`, and "roundtrip
  for all supported types" at `test_protocol.py:40`), which `RoundTrip` exempts;
- the termination of an interrogation can overtake a value that was put back
  (`server.py:67`, `:82`, and "end of GI" at `const.py:80`);
- a sender whose window is full when its peer leaves takes and puts back its event for ever
  (`server.py:65-69`, `:160`, and "exits when ... connection fails" at `server.py:49`),
  which is why `SenderFollows` excepts it;
- one-byte types keep four bits of the quality only (`protocol.py:404`), which `RoundTrip`
  exempts;
- times are sent in UTC though "CP56Time2a carries local time" (`protocol.py:341`);
- a ladder with a negative step leaves its range for good (`imit.py:70`, and "within
  specified range" at `control_server.py:157`), so `OneRamp` has a positive one;
- the interrogation reads value and quality without the lock (`common.py:255`) and can pair
  a new value with an old quality;
- two interrogations in a row carry the same N(S) (`client.py:385` and the docstring at
  `client.py:44`);
- a value read by the interrogation before an update can be queued behind the update's event
  (`protocol.py:224`);
- a repeated id in the table leaves an address that leads to another signal
  (`common.py:282`), which is why `IndexesAgree` asks for distinct ids;
- threshold None does not trigger on a repeated value (`common.py:330` and the comment at
  `common.py:176`);
- the scan can remove a new session of a dead one's name (`client.py:406`), and Ctrl-C can
  leave a session that is being connected open (`client.py:423`), which is why
  `ExitClosesAll` speaks of the exit command;
- a peer that comes back from the address of a connection it has reset can be unsubscribed
  by the end of the old one (`server.py:209`), which is why `Registered` asks for an address
  of its own;
- `max_clients` is never tested (`server.py:367`).

## Proofs

Every theorem holds for all values of the constants that the assumption of its module
allows, so for any number of connections, signals, subscribers, updates, and so on. Each
argument is the same: an inductive invariant `IInv`, `Init => IInv`, one lemma per action
(or group of actions with the same effect) for `IInv /\ [Next]_vars => IInv'`, and
`IInv => P` for each property P. TLC agreed on each `IInv` on the bounds of the runs
before it was proved.

| Module | Theorem | States |
|---|---|---|
| `SessionProofs` | `Invariance` | `IInv` of SessionInv |
| | `TypeCorrect`, `FramesInSequence`, `Counted`, `Acknowledged` | `TypeOK`, `ServerFramesInSequence`, `InterrogationsCounted`, `InterrogationsAcknowledged` |
| | `OnlyStaleAckStalls` | `StallOnlyByStaleAck`: a stuck session holds an acknowledgement that differs from the client's last |
| | `WindowsSound` | `WindowSound` |
| `OutQueueProofs` | `ImplementsMailbox` | `DeliveredOnce`: `Spec` implements Mailbox |
| | `TypeCorrect`, `ConfirmedBeforeAnswered`, `AnsweredCompletely`, `OneLate` | `TypeOK`, `ConfirmationFirst`, `InterrogationComplete`, `OneLateFrame` |
| `DataStorageProofs` | `TypeCorrect`, `IndexesLead`, `NoHiddenDrift`, `EveryChangeQueued` | `TypeOK`, `IndexesAgree`, `DriftReported`, `NoChangeMissed` |
| `ClientPoolProofs` | `TypeCorrect`, `OneOwner`, `UnownedStop`, `LimitHolds`, `ExitCloses` | `TypeOK`, `OwnedOnce`, `UnownedStops`, `LimitTestedOnce`, `ExitClosesAll` |
| `ServerLifeProofs` | `TypeCorrect`, `NoGhostsEver`, `ReceiverRegistered`, `ThreadsListed` | `TypeOK`, `NoGhosts`, `Registered`, `Listed` |
| `EventBusProofs` | `TypeCorrect`, `ClosedAtMostOnce`, `FramesNotMixed`, `NothingLost` | `TypeOK`, `ClosedOnce`, `CallsWhole`, `NoGap` |
| `WireProofs` | `Reassembles` | `Reassembled`: the frames cut off are those that were built, whole and in order |
| | `FramesUnderstood` | `RoundTrip`: what the receiver makes of each frame is what was sent |
| | `TypeCorrect`, `FramesNeverWait`, `BatchesFit` | `TypeOK`, `NoFrameWaits`, `FullBatchFits` |

**Session**, from `SessionAssumption` (0 < w <= k < modulus; the shipped configuration has
8, 30, 32768). The properties speak of the head of a channel, or of an empty one; what is
behind the head must be known to preserve them. `IInv` adds to the types:

- `Counts` (for both directions): there is a numbering of the places in the channel that
  starts at the receiver's V(R), takes one step per I-frame and ends at the sender's
  V(S); from the server, each I-frame carries the number of its place. Appending a frame
  extends the numbering, receiving one shifts it (`CountAppend`, `CountTail`).
- `Acknowledgements`: the last I-frame under way carries the server's V(R); without one
  the client holds it already (`LastAckAppendI`, `LastAckTail`).

Before the first interrogation `WInv` holds too: nothing under way carries an N(R)
but S-frames (`NoGiYet`); the I-frames under way are in the order of their distance behind V(S)
(`DataOrder`); the S-frames are ordered from the acknowledgement the server holds to
the client's last (`AckOrder`); and the unacknowledged frames are those that the client has
not received plus those that it has counted (`Window`). With w <= k a full
window then has an S-frame or an I-frame under way: `WindowSound`.

**OutQueue**, from `OutQueueAssumption` (the interrogation reads every signal once; no signal
has the type of an interrogation). That an event is taken once needs
that it is never queued twice: `Once` (queue and batch have no repeats, and nothing of what
was sent or dropped), `Reports` (what an updater has still to put is newer than anything of
its signal), `Answers` (the interrogation in hand has not come to the signals that are left).
`Complete` and `Confirmed` are `InterrogationComplete` and `ConfirmationFirst` while an
interrogation is being answered, `Late` says when a frame can be in the making. The
refinement is `MailInit` and `MailStep`: a step puts one event, takes one (to send or to
drop), or stutters, as put-backs and packing do.

**DataStorage**. `IndexesAgree` needs that every address leads somewhere (`Reached`), since
one that leads nowhere could be overwritten, and which ids there are (`Loaded`).
`NoChangeMissed` speaks of the moments when all threads are idle; `Balance` holds always:
what is in a queue plus what threads have still to put (`Owing`, a finite set) is what
changed since the session subscribed. It rests on `Fresh`: a session that has not subscribed
is in nobody's copy. `DriftReported` is inductive by itself: this is where measuring from
the stored value matters. `DataStorageAssumption` asks that thresholds and the numbers of a
ramp are integers and that a ramp stays within the values of the model, which is how `Values` is
chosen; the code has floats and no such set.

**ClientPool**. `OnePlace` is `OwnedOnce` with the connections that were made, without which a
new connection could be one that is owned. `LetGo` (released sessions are stopped and closed)
is stronger than `UnownedStops`. `OneConnects` is why the limit holds although it is tested
before the session is made: main connects before there is a console, the console
afterwards, so nobody adds a session between the test and the add (`BelowLimit`).
`Closing` says that close_all's copy of the names is complete once the console has ended.

**ServerLife**. `SettingUp`: the connection that main sets up is there and has no receiver yet.
`Keyed`: a storage knows a connection by its own address only, so removing an address
removes at most one connection. `Forgotten` and `Joined` are `NoGhosts` and `Registered` by
key, the latter also for the connection being set up, because its receiver starts
registered; `Joined` speaks of connections whose address no other one had (`Alone`).

**EventBus**, from `EventBusAssumption` (a locked handler is a handler, one that loses
datagrams has no peer to lose, frames are sequences).
`OneEntry`: a subscriber is in the registry or with one caller that took it out, once, which
with `CloseLeft` gives `ClosedOnce`. `Holding`: a lock is held by exactly the session that is inside the handler.
For `CallsWhole`, `InHand` says of a handler that has written part of a frame and is to write more that its lock
is held by that session and that nobody has written since; `Past` that no frame is written
before it is published. `GInv` adds what `NoGap` needs: what is due to a handler that is
called for every frame is written, but for what is left of the frame being published
(`UpToDate`); a handler that has failed or was taken out keeps what it has, without a hole
(`Gapfree`). What is due but lost by a failed datagram is counted as seen (`Owed` is what is
still to come, `Failed` says that losses are behind what was published), and what
`publish` hands on is what was asked for (`WantsAsked`). What is written is a place in a frame, so that `NoGap` can be said with sets and an order.

**Wire**, from `WireAssumption`: the scripts hold legal messages (`Legal`: a batch is as long as
`client_send` makes it, with any values; the frames of other implementations have values in
their ranges, and with the bit SQ addresses in a row; sequence numbers, causes and common
addresses fit their bytes; U-frames have both low bits set; stray bytes are no start bytes),
servers send no set points, `recv` returns at least a byte, and the server's
buffer has room for a piece behind a frame that is not complete (the code: 1024 and 257 bytes in
16384). A byte of value 0x68 may be anywhere in a frame. The argument has three parts.

1. *What is sent is a frame.* Every legal message becomes a member of `WholeFrames`
   (`MessageFrames`), a sequence of at least six bytes that begins with 0x68 and has its length
   less two in the second. For that, each type's object has the size that `ASDU_DATA_SIZE` says
   (`ObjectBytes`), and so the length of the ASDU is linear in the length of the batch
   (`BatchBytes`); the quotient of `MaxObj` keeps it below 256 (`BatchFits`). That `FlattenSeq`, a
   recursive function, adds up lengths and keeps every object in its place is proved from a
   least counterexample (`FlattenSeqs`).
2. *The receiver cuts off the frames.* `Placed(b, F, d, at)` says that all frames
   of F but the first d lie in the bytes b, in order, without overlap, and that no byte outside of
   them is a start byte. `Chopped`, the core of `IInv`, says it of the buffer followed by the stream.
   So the first start byte of the buffer begins the next frame (`FirstFrame`), the byte behind it
   gives that frame's length, and cutting it off, skipping to it or discarding a buffer without
   a start byte leaves the others in their places (`Dropped`). `PartOfOne` is what `NoFrameWaits`
   is at the moments when the loop waits, and what bounds the server's buffer.
3. *A frame says what was sent.* `Lies(part, whole, n)` says that a part lies in the bytes behind
   the first n. A number that fits its bytes is read back from them (`UnsignedBytes`, and with a
   sign `SignedBytes`), so are a time to the millisecond (`TimeRead`) and value and quality as
   far as the type has them (`ValueRead`), and so is an object (`ObjectRead`). The list that
   `Parsed` makes has as many objects as the batch, each with its own address or with the one
   that follows (`ObjectsRead`, `SequenceRead`). `Means` puts this together for a frame, and
   `ClientUnderstands` and `ServerUnderstands` say what each end makes of it.

### What is only model-checked

Liveness (`WindowReopensWithoutGi`, `EventuallyTaken`, `DeadSessionLeaves`, `LeftForgotten`,
`SenderFollows`, `AllProcessed`, `PublishEnds`): TLAPS cannot prove it under fairness. Every
safety property of the passing runs, the refinement included, is stated by a theorem.

## What is not modelled

- The command frames `C_SC_NA_1` and `C_SE_NC_1` as part of a session: this client sends
  none. What they say is in Wire, what they do in DataStorage.
- Frames that are cut short, and times that are none: `recv_loop` lets the `ValueError` of
  `datetime_from_cp56` end its thread; ClientPool has that end (`RecvRaises`), and ServerLife
the server's (`ReceiverRaises`).
- `create_server_bridge`, which nothing creates.
- `log_viewer.py`, `bus_client.py`, the unit tests, the parsing of `config.toml`, `signals.csv` and of commands:
  input and output without state that others depend on.
- `gen_dpl.py` of the readme is not in the repository.

## Plan

What the runs check of safety is proved. What would say more of the code: the window and the
queue of one session together (Session counts the server's queue, OutQueue chooses whether
the window is full), and the command frames as part of a session.
