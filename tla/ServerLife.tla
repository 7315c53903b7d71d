---------------------------- MODULE ServerLife -----------------------------
(***************************************************************************)
(* The connections of the server: run_accept_loop, the beginning and the   *)
(* end of client_send and client_rec, the client storage, the subscribers  *)
(* of the data storage and shutdown_server.                                *)
(*                                                                         *)
(*   main      accepts a connection, subscribes it, adds it, starts its    *)
(*             sender and its receiver, lists both; at the end closes all  *)
(*   console   server_handler: exit                                        *)
(*   sender    client_send: ends on stop_event, when a send fails, or by   *)
(*             an exception that nothing catches                           *)
(*   receiver  client_rec: ends on stop_event, on the end of the stream or *)
(*             on an error, and forgets the client                         *)
(*                                                                         *)
(* A connection has a number, in the order made.  Both storages know it by *)
(* the address of its peer.  Frames are in Session; here a sender only is  *)
(* or is not in the loop in which it waits for the window to open.         *)
(***************************************************************************)
EXTENDS Integers, Sequences, FiniteSets

CONSTANTS
    MaxConns,   \* bound: connections ever made
    Addrs       \* addresses of allowed peers: [ip, port]

ASSUME ServerLifeAssumption == MaxConns \in Nat

VARIABLES
    addr,       \* per connection: the address of its peer
    socket,     \* "unused", "open", "eof" or "reset" by the peer, "closed"
    stop,       \* stop_event
    sender,     \* "none", "run", "blocked" (the window is full), "ended"
    receiver,   \* "none", "run", "leave", "unsubscribed", "removed", "ended"
    subs,       \* _subs of the data storage: address -> connection
    clients,    \* _clients: address -> connection
    threads,    \* client_threads: [role, conn] of threads that ran when last tested
    main,       \* the connection main sets up, and how far it is
    phase,      \* "serve", "closed" (close_all is done)
    stop_thread

conn == <<addr, socket, stop>>
regs == <<subs, clients>>
loop == <<main, phase, stop_thread>>
vars == <<conn, sender, receiver, regs, threads, loop>>

-----------------------------------------------------------------------------
Conns     == 1 .. MaxConns
IsNext(c) == {d \in Conns : socket[d] = "unused" /\ d <= c} = {c}

FaultKey(c) == addr[c].ip
Key(c)      == addr[c]

Put(f, k, c) == [x \in DOMAIN f \union {k} |-> IF x = k THEN c ELSE f[x]]
Del(f, k)    == [x \in DOMAIN f \ {k} |-> f[x]]
Known(f)     == {f[k] : k \in DOMAIN f}

\* what run_accept_loop does with a new connection, in this order
FaultSetup == <<"send", "receive", "subscribe", "add", "list">>
Setup      == <<"subscribe", "add", "send", "receive", "list">>

Accepting == [at |-> 0]
Does(c, step) == main.at > 0 /\ main.conn = c /\ Setup[main.at] = step
Onward        == main' = IF main.at = Len(Setup) THEN Accepting ELSE [main EXCEPT !.at = @ + 1]

NoAddr == [ip |-> "none", port |-> 0]

-----------------------------------------------------------------------------
Init ==
    /\ addr = [c \in Conns |-> NoAddr]
    /\ socket = [c \in Conns |-> "unused"] /\ stop = [c \in Conns |-> FALSE]
    /\ sender = [c \in Conns |-> "none"] /\ receiver = [c \in Conns |-> "none"]
    /\ subs = <<>> /\ clients = <<>> /\ threads = {}
    /\ main = Accepting /\ phase = "serve" /\ stop_thread = FALSE

-----------------------------------------------------------------------------
(* main *)

\* A peer can have an address again when the connection that had it is gone for
\* the server's TCP: it was closed, or reset, which the receiver may not have seen.
MayTake(a) ==
    \A c \in Conns : addr[c] = a => socket[c] \in {"reset", "closed"}

Threads(c) == {[role |-> "send", conn |-> c], [role |-> "receive", conn |-> c]}

\* cleanup_dead_threads keeps the threads that run
State(t)        == IF t.role = "send" THEN sender[t.conn] ELSE receiver[t.conn]
FaultIsAlive(t) == State(t) \notin {"none", "ended"} /\ ~stop[t.conn]
IsAlive(t)      == State(t) \notin {"none", "ended"}

Accept(c, a) ==
    /\ phase = "serve" /\ main = Accepting /\ ~stop_thread
    /\ IsNext(c) /\ MayTake(a)
    /\ addr' = [addr EXCEPT ![c] = a]
    /\ socket' = [socket EXCEPT ![c] = "open"]
    /\ main' = [at |-> 1, conn |-> c]
    /\ threads' = {t \in threads : IsAlive(t)}
    /\ UNCHANGED <<stop, sender, receiver, regs, phase, stop_thread>>

Subscribe(c) ==
    /\ Does(c, "subscribe") /\ Onward
    /\ subs' = Put(subs, Key(c), c)
    /\ UNCHANGED <<conn, sender, receiver, clients, threads, phase, stop_thread>>

AddClient(c) ==
    /\ Does(c, "add") /\ Onward
    /\ clients' = Put(clients, Key(c), c)
    /\ UNCHANGED <<conn, sender, receiver, subs, threads, phase, stop_thread>>

StartSender(c) ==
    /\ Does(c, "send") /\ Onward
    /\ sender' = [sender EXCEPT ![c] = "run"]
    /\ UNCHANGED <<conn, receiver, regs, threads, phase, stop_thread>>

StartReceiver(c) ==
    /\ Does(c, "receive") /\ Onward
    /\ receiver' = [receiver EXCEPT ![c] = "run"]
    /\ UNCHANGED <<conn, sender, regs, threads, phase, stop_thread>>

ListThreads(c) ==
    /\ Does(c, "list") /\ Onward
    /\ threads' = threads \union Threads(c)
    /\ UNCHANGED <<conn, sender, receiver, regs, phase, stop_thread>>

\* shutdown_server; close_all holds the lock of the client storage.  The joins
\* have a timeout, and the process ends after them.
FaultCloseAll ==
    /\ phase = "serve" /\ main = Accepting /\ stop_thread
    /\ phase' = "closed"
    /\ socket' = [c \in Conns |-> IF c \in Known(clients) THEN "closed" ELSE socket[c]]
    /\ stop' = [c \in Conns |-> TRUE]
    /\ clients' = <<>>
    /\ UNCHANGED <<addr, sender, receiver, subs, threads, main, stop_thread>>
CloseAll ==
    /\ phase = "serve" /\ main = Accepting /\ stop_thread
    /\ phase' = "closed"
    /\ socket' = [c \in Conns |-> IF c \in Known(clients) THEN "closed" ELSE socket[c]]
    /\ stop' = [c \in Conns |-> stop[c] \/ c \in Known(clients)]
    /\ clients' = <<>>
    /\ UNCHANGED <<addr, sender, receiver, subs, threads, main, stop_thread>>

\* the exit command or the end of the input
Exit ==
    /\ ~stop_thread /\ stop_thread' = TRUE
    /\ UNCHANGED <<conn, sender, receiver, regs, threads, main, phase>>

\* Ctrl-C, or an error of accept: main leaves the loop, wherever it is
Interrupt ==
    /\ phase = "serve" /\ main' = Accepting /\ stop_thread' = TRUE
    /\ UNCHANGED <<conn, sender, receiver, regs, threads, phase>>

Main ==
    \/ CloseAll
    \/ \E c \in Conns : Subscribe(c) \/ AddClient(c) \/ StartSender(c) \/ StartReceiver(c)
                      \/ ListThreads(c)

-----------------------------------------------------------------------------
(* client_send *)

Gone(c) == socket[c] \in {"reset", "closed"}

SetSender(c, s) ==
    /\ sender' = [sender EXCEPT ![c] = s]
    /\ UNCHANGED <<addr, socket, receiver, regs, threads, loop>>

\* There is an event and the window is full: from here on the loop puts the event
\* back and takes it again, and comes to neither a send nor the keepalive.
SenderBlocks(c) ==
    /\ sender[c] = "run" /\ ~stop[c]
    /\ SetSender(c, "blocked") /\ UNCHANGED stop

\* the receiver has taken an acknowledgment
SenderGoesOn(c) ==
    /\ sender[c] = "blocked" /\ receiver[c] = "run"
    /\ SetSender(c, "run") /\ UNCHANGED stop

SenderStops(c) ==
    /\ sender[c] \in {"run", "blocked"} /\ stop[c]
    /\ SetSender(c, "ended") /\ UNCHANGED stop

\* An event, or the keepalive after t3, cannot be sent: the connection is gone or
\* takes nothing for a second.
FaultSenderFails(c) ==
    /\ sender[c] = "run" /\ c \in Known(subs)
    /\ SetSender(c, "ended") /\ stop' = [stop EXCEPT ![c] = TRUE]
SenderFails(c) ==
    /\ sender[c] = "run"
    /\ SetSender(c, "ended") /\ stop' = [stop EXCEPT ![c] = TRUE]

\* struct.error of a value out of the range of its type: stop_event is not set
SenderRaises(c) ==
    /\ sender[c] = "run" /\ ~stop[c]
    /\ SetSender(c, "ended") /\ UNCHANGED stop

Sender(c) == SenderStops(c) \/ (Gone(c) /\ SenderFails(c))

-----------------------------------------------------------------------------
(* client_rec *)

SetReceiver(c, r) == receiver' = [receiver EXCEPT ![c] = r]

\* the end of the stream, which does not set stop_event, or stop_event
FaultReceiverEof(c) ==
    /\ receiver[c] = "run" /\ stop[c] /\ SetReceiver(c, "leave")
    /\ UNCHANGED <<conn, sender, regs, threads, loop>>
ReceiverEof(c) ==
    /\ receiver[c] = "run" /\ (socket[c] = "eof" \/ stop[c]) /\ SetReceiver(c, "leave")
    /\ UNCHANGED <<conn, sender, regs, threads, loop>>

\* An error of the socket, an answer that takes nothing for a second, or more in the
\* buffer than max_rx_buf.
ReceiverFails(c) ==
    /\ receiver[c] = "run"
    /\ SetReceiver(c, "leave")
    /\ stop' = [stop EXCEPT ![c] = TRUE]
    /\ UNCHANGED <<addr, socket, sender, regs, threads, loop>>

\* A frame on which proc_frame raises: nothing catches it and stop_event is not set,
\* but what follows is in the finally block.
ReceiverRaises(c) ==
    /\ receiver[c] = "run" /\ SetReceiver(c, "leave")
    /\ UNCHANGED <<conn, sender, regs, threads, loop>>

Unsubscribe(c) ==
    /\ receiver[c] = "leave" /\ SetReceiver(c, "unsubscribed")
    /\ subs' = Del(subs, Key(c))
    /\ UNCHANGED <<conn, sender, clients, threads, loop>>

RemoveClient(c) ==
    /\ receiver[c] = "unsubscribed" /\ SetReceiver(c, "removed")
    /\ clients' = Del(clients, Key(c))
    /\ UNCHANGED <<conn, sender, subs, threads, loop>>

\* the end of "with state.conn"
ReceiverEnds(c) ==
    /\ receiver[c] = "removed" /\ SetReceiver(c, "ended")
    /\ socket' = [socket EXCEPT ![c] = "closed"]
    /\ UNCHANGED <<addr, stop, sender, regs, threads, loop>>

Receiver(c) ==
    \/ ReceiverEof(c) \/ (Gone(c) /\ ReceiverFails(c))
    \/ Unsubscribe(c) \/ RemoveClient(c) \/ ReceiverEnds(c)

-----------------------------------------------------------------------------
(* the peer *)

PeerLeaves(c) ==
    /\ \/ socket[c] = "open" /\ socket' = [socket EXCEPT ![c] = "eof"]
       \/ socket[c] \in {"open", "eof"} /\ socket' = [socket EXCEPT ![c] = "reset"]
    /\ UNCHANGED <<addr, stop, sender, receiver, regs, threads, loop>>

Next ==
    \/ \E c \in Conns, a \in Addrs : Accept(c, a)
    \/ Main \/ Exit \/ Interrupt
    \/ \E c \in Conns :
          \/ SenderBlocks(c) \/ SenderGoesOn(c) \/ SenderRaises(c) \/ SenderFails(c) \/ Sender(c)
          \/ ReceiverFails(c) \/ ReceiverRaises(c) \/ Receiver(c) \/ PeerLeaves(c)

Spec == Init /\ [][Next]_vars

\* main's accept and every recv and get have a timeout of a second, and a sender
\* that is not blocked sends within t3, which fails when the connection is gone.
\* Nothing else must fail, and neither a peer nor the user must do anything.
FairSpec ==
    /\ Spec /\ WF_vars(Main)
    /\ \A c \in Conns : WF_vars(Sender(c)) /\ WF_vars(Receiver(c))

-----------------------------------------------------------------------------
(* Properties *)

ConnTypes ==
    /\ addr \in [Conns -> Addrs \union {NoAddr}]
    /\ socket \in [Conns -> {"unused", "open", "eof", "reset", "closed"}]
    /\ stop \in [Conns -> BOOLEAN]
    /\ \A c \in Conns : socket[c] = "unused" =>
          addr[c] = NoAddr /\ ~stop[c] /\ sender[c] = "none" /\ receiver[c] = "none"
    /\ sender \in [Conns -> {"none", "run", "blocked", "ended"}]
    /\ receiver \in [Conns -> {"none", "run", "leave", "unsubscribed", "removed", "ended"}]
StorageTypes ==
    /\ Known(subs) \union Known(clients) \subseteq Conns
    /\ DOMAIN subs \union DOMAIN clients \subseteq {Key(c) : c \in Conns}
MainTypes ==
    /\ main.at \in 0 .. Len(Setup)
    /\ phase \in {"serve", "closed"} /\ stop_thread \in BOOLEAN
    /\ threads \subseteq UNION {Threads(c) : c \in Conns}
TypeOK == ConnTypes /\ StorageTypes /\ MainTypes

\* A connection that is forgotten stays forgotten: whoever has unsubscribed it
\* was not too early.
NoGhosts ==
    \A c \in Conns :
        /\ c \in Known(subs) => receiver[c] \notin {"unsubscribed", "removed", "ended"}
        /\ c \in Known(clients) => receiver[c] \notin {"removed", "ended"}

\* A session that receives is subscribed and, until the server closes, in the
\* client storage, where close_all finds it.  True when its address is its own:
\* the end of an older connection of the same address removes the newer one.
OwnAddress(c) == \A d \in Conns \ {c} : addr[d] # addr[c]
Registered ==
    \A c \in Conns : receiver[c] = "run" /\ OwnAddress(c) =>
        /\ c \in Known(subs)
        /\ c \in Known(clients) \/ (phase = "closed" /\ stop[c])

\* shutdown_server joins client_threads: while the server serves, a thread that runs is
\* among them, or main is about to list it.
Listed ==
    \A c \in Conns : \A t \in Threads(c) :
        State(t) \notin {"none", "ended"} =>
            t \in threads \/ (main.at > 0 /\ main.conn = c) \/ stop_thread

\* A connection that the peer has left is forgotten.  (One that Ctrl-C kept from getting
\* a receiver is left to the end of the process.)
LeftForgotten ==
    \A c \in Conns :
        socket[c] \in {"eof", "reset"} /\ receiver[c] # "none"
            ~> c \notin Known(subs) \union Known(clients)

\* When the receiver has ended so does the sender, unless it waits for the window.
SenderFollows ==
    \A c \in Conns : receiver[c] = "ended" ~> sender[c] \in {"ended", "blocked"}
=============================================================================
