---------------------------- MODULE ClientPool -----------------------------
(***************************************************************************)
(* The sessions of the client program: create_client_pool, connect and     *)
(* disconnect of create_client_api, run_client_loop and shutdown_client.   *)
(*                                                                         *)
(*   main       connects what config.toml lists, then looks once a second  *)
(*              for dead sessions, then shuts the client down              *)
(*   console    client_handler, started after those first connections      *)
(*              (a daemon, as the threads of the sessions: all of them end  *)
(*              with main)                                                 *)
(*   a session  send_loop and recv_loop, which end on stop_event, on a     *)
(*              lost connection or with an exception                       *)
(*                                                                         *)
(* A connection has a number, in the order made; it stands for the socket  *)
(* and for the ClientState made for it.  What it carries is in Session.    *)
(***************************************************************************)
EXTENDS Integers, FiniteSets

CONSTANTS
    Names,           \* session names
    MAX_CONNECTIONS,
    MaxConns,        \* bound: connections ever made
    MaxListed        \* bound: connections that config.toml lists

ASSUME ClientPoolAssumption ==
    MAX_CONNECTIONS \in Nat \ {0} /\ MaxConns \in Nat /\ MaxListed \in Nat

VARIABLES
    sessions,    \* _sessions: name -> connection
    socket,      \* per connection: "unused", "open", "lost" (by the peer), "closed"
    stop,        \* per connection: stop_event
    loops,       \* per connection: which of send_loop and recv_loop run, while stop is clear
    died,        \* ghost: per connection, the loops that an uncaught exception ended, while
                 \* stop is clear
    refused,     \* ghost: connections that add_session has refused
    job,         \* per thread: what it is in the middle of
    listed,      \* main: the connections it has still to make
    scan,        \* run_client_loop: the items it has still to look at
    closing,     \* close_all: the names it has still to remove
    phase,       \* main: "auto", "loop", "sleep", "close", "done"
    stop_thread

connection == <<socket, stop, loops, died>>
main       == <<listed, scan, closing, phase, stop_thread>>
vars       == <<sessions, connection, refused, job, main>>

-----------------------------------------------------------------------------
Conns   == 1 .. MaxConns
Threads == {"main", "console"}
Loops   == {"send", "recv"}

Free          == [at |-> "free"]
Checked(n)    == [at |-> "checked", name |-> n]
Started(n, c) == [at |-> "started", name |-> n, conn |-> c]
Popped(c)     == [at |-> "popped", conn |-> c]
Ended         == [at |-> "ended"]

IsNext(c) == {d \in Conns : socket[d] = "unused" /\ d <= c} = {c}

Size   == Cardinality(DOMAIN sessions)
Pooled == {sessions[n] : n \in DOMAIN sessions}

\* main starts the console when it has connected what the configuration lists
FaultMayConnect(t) == t = "main" => listed > 0
MayConnect(t)      == IF t = "main" THEN listed > 0 ELSE phase \notin {"auto", "done"}

-----------------------------------------------------------------------------
Init ==
    /\ sessions = <<>>
    /\ socket = [c \in Conns |-> "unused"]
    /\ stop = [c \in Conns |-> FALSE]
    /\ loops = [c \in Conns |-> {}]
    /\ died = [c \in Conns |-> {}]
    /\ refused = {}
    /\ job = [t \in Threads |-> Free]
    /\ listed \in 0 .. MaxListed
    /\ scan = {} /\ closing = {} /\ phase = "auto" /\ stop_thread = FALSE

-----------------------------------------------------------------------------
(* connect: the limit, the connection with its threads, the pool *)

\* over the limit connect raises, and main goes on with the next line
ConnectCheck(t, n) ==
    /\ job[t] = Free /\ MayConnect(t)
    /\ listed' = IF t = "main" THEN listed - 1 ELSE listed
    /\ job' = IF Size < MAX_CONNECTIONS THEN [job EXCEPT ![t] = Checked(n)] ELSE job
    /\ UNCHANGED <<sessions, connection, refused, scan, closing, phase, stop_thread>>

StartSession(t, c) ==
    /\ job[t].at = "checked" /\ phase # "done" /\ IsNext(c)
    /\ socket' = [socket EXCEPT ![c] = "open"]
    /\ loops' = [loops EXCEPT ![c] = Loops]
    /\ job' = [job EXCEPT ![t] = Started(job[t].name, c)]
    /\ UNCHANGED <<sessions, stop, died, refused, main>>

\* nothing listens at the address
StartRefused(t) ==
    /\ job[t].at = "checked"
    /\ job' = [job EXCEPT ![t] = Free]
    /\ UNCHANGED <<sessions, connection, refused, main>>

\* add_session raises when the name is in use: nobody stops what was started
AddSession(t) ==
    /\ job[t].at = "started" /\ phase # "done"
    /\ LET n == job[t].name  c == job[t].conn
       IN  IF n \in DOMAIN sessions \/ Size >= MAX_CONNECTIONS
           THEN refused' = refused \union {c} /\ UNCHANGED sessions
           ELSE /\ sessions' = [m \in DOMAIN sessions \union {n} |->
                                  IF m = n THEN c ELSE sessions[m]]
                /\ UNCHANGED refused
    /\ job' = [job EXCEPT ![t] = Free]
    /\ UNCHANGED <<connection, main>>

-----------------------------------------------------------------------------
(* stop_event is set: the loops of the session end within a second, which  *)
(* changes nothing for anyone, and so they are no longer followed          *)

Stopped(c) ==
    /\ stop' = [stop EXCEPT ![c] = TRUE]
    /\ loops' = [loops EXCEPT ![c] = {}] /\ died' = [died EXCEPT ![c] = {}]

-----------------------------------------------------------------------------
(* remove_session: the name is popped under _lock, then its session stopped *)

FaultPop(t, n) ==
    /\ job' = [job EXCEPT ![t] = Popped(sessions[n])]
    /\ UNCHANGED <<sessions, connection, refused, listed, stop_thread>>
Pop(t, n) ==
    /\ job' = [job EXCEPT ![t] = Popped(sessions[n])]
    /\ sessions' = [m \in DOMAIN sessions \ {n} |-> sessions[m]]
    /\ UNCHANGED <<connection, refused, listed, stop_thread>>

\* the joins that follow have a timeout and change nothing
FaultStopSession(t) ==
    /\ job[t].at = "popped"
    /\ Stopped(job[t].conn)
    /\ job' = [job EXCEPT ![t] = Free]
    /\ UNCHANGED <<sessions, socket, refused, main>>
FaultSharedEvent(t) ==
    /\ job[t].at = "popped"
    /\ stop' = [c \in Conns |-> TRUE] /\ loops' = [c \in Conns |-> {}]
    /\ died' = [c \in Conns |-> {}]
    /\ socket' = [socket EXCEPT ![job[t].conn] = "closed"]
    /\ job' = [job EXCEPT ![t] = Free]
    /\ UNCHANGED <<sessions, refused, main>>
StopSession(t) ==
    /\ job[t].at = "popped"
    /\ Stopped(job[t].conn)
    /\ socket' = [socket EXCEPT ![job[t].conn] = "closed"]
    /\ job' = [job EXCEPT ![t] = Free]
    /\ UNCHANGED <<sessions, refused, main>>

Disconnect(n) ==
    /\ job["console"] = Free /\ phase \notin {"auto", "done"}
    /\ n \in DOMAIN sessions /\ Pop("console", n)
    /\ UNCHANGED <<scan, closing, phase>>

-----------------------------------------------------------------------------
(* main *)

ConfigDone ==
    /\ phase = "auto" /\ job["main"] = Free /\ listed = 0
    /\ phase' = "loop"
    /\ UNCHANGED <<sessions, connection, refused, job, listed, scan, closing, stop_thread>>

Sleep ==
    /\ phase = "loop" /\ job["main"] = Free /\ scan = {} /\ ~stop_thread
    /\ phase' = "sleep"
    /\ UNCHANGED <<sessions, connection, refused, job, listed, scan, closing, stop_thread>>

\* A second later, also when the exit command was given in that second: the pass is
\* made to its end before stop_thread is looked at again.
Scan ==
    /\ phase = "sleep" /\ job["main"] = Free
    /\ phase' = "loop" /\ scan' = {<<n, sessions[n]>> : n \in DOMAIN sessions}
    /\ UNCHANGED <<sessions, connection, refused, job, listed, closing, stop_thread>>

\* The event is tested for the session seen, the name is what is removed.  Once
\* set the event stays set, so that the test and the pop can be one step.
FaultLook(n, c) ==
    /\ phase = "loop" /\ job["main"] = Free /\ <<n, c>> \in scan
    /\ scan' = scan \ {<<n, c>>}
    /\ IF stop[c] /\ n \in DOMAIN sessions
       THEN /\ job' = [job EXCEPT !["main"] = Popped(c)]
            /\ sessions' = [m \in DOMAIN sessions \ {n} |-> sessions[m]]
            /\ UNCHANGED <<connection, refused, listed, stop_thread>>
       ELSE UNCHANGED <<sessions, connection, refused, job, listed, stop_thread>>
    /\ UNCHANGED <<closing, phase>>
Look(n, c) ==
    /\ phase = "loop" /\ job["main"] = Free /\ <<n, c>> \in scan
    /\ scan' = scan \ {<<n, c>>}
    /\ IF stop[c] /\ n \in DOMAIN sessions THEN Pop("main", n)
       ELSE UNCHANGED <<sessions, connection, refused, job, listed, stop_thread>>
    /\ UNCHANGED <<closing, phase>>

\* the exit command; the console returns from it
Exit ==
    /\ job["console"] = Free /\ phase \in {"loop", "sleep"} /\ ~stop_thread
    /\ stop_thread' = TRUE /\ job' = [job EXCEPT !["console"] = Ended]
    /\ UNCHANGED <<sessions, connection, refused, listed, scan, closing, phase>>

\* Ctrl-C is noticed by main, between two items or during its sleep
KeyboardInterrupt ==
    /\ phase \in {"loop", "sleep"} /\ job["main"] = Free /\ ~stop_thread
    /\ stop_thread' = TRUE /\ scan' = {} /\ phase' = "loop"
    /\ UNCHANGED <<sessions, connection, refused, job, listed, closing>>

Shutdown ==
    /\ phase = "loop" /\ job["main"] = Free /\ scan = {} /\ stop_thread
    /\ phase' = "close" /\ closing' = DOMAIN sessions
    /\ UNCHANGED <<sessions, connection, refused, job, listed, scan, stop_thread>>

CloseNext(n) ==
    /\ phase = "close" /\ job["main"] = Free /\ n \in closing
    /\ closing' = closing \ {n}
    /\ IF n \in DOMAIN sessions THEN Pop("main", n)
       ELSE UNCHANGED <<sessions, connection, refused, job, listed, stop_thread>>
    /\ UNCHANGED <<scan, phase>>

ClosedAll ==
    /\ phase = "close" /\ job["main"] = Free /\ closing = {}
    /\ phase' = "done"
    /\ UNCHANGED <<sessions, connection, refused, job, listed, scan, closing, stop_thread>>

Main ==
    \/ ConfigDone \/ Sleep \/ Scan \/ Shutdown \/ ClosedAll \/ StopSession("main")
    \/ \E n \in Names : CloseNext(n) \/ \E c \in Conns : Look(n, c)

-----------------------------------------------------------------------------
(* the threads of a session, and its peer *)

\* recv: the end of the stream, or an error
FaultRecvFails(c) ==
    /\ "recv" \in loops[c] /\ socket[c] # "open"
    /\ loops' = [loops EXCEPT ![c] = @ \ {"recv"}]
    /\ UNCHANGED <<sessions, socket, stop, died, refused, job, main>>
RecvFails(c) ==
    /\ "recv" \in loops[c] /\ socket[c] # "open"
    /\ Stopped(c)
    /\ UNCHANGED <<sessions, socket, refused, job, main>>

\* recv_loop catches connection errors only: a frame that process_frame raises on
\* ends it without stop_event.  It may be in the buffer when the peer has left.
RecvRaises(c) ==
    /\ "recv" \in loops[c]
    /\ loops' = [loops EXCEPT ![c] = @ \ {"recv"}]
    /\ died' = [died EXCEPT ![c] = @ \union {"recv"}]
    /\ UNCHANGED <<sessions, socket, stop, refused, job, main>>

\* A packet of the queue cannot be sent: the peer has left or, on an open socket,
\* takes nothing for a second.
SendFails(c) ==
    /\ "send" \in loops[c]
    /\ Stopped(c)
    /\ UNCHANGED <<sessions, socket, refused, job, main>>

\* The keepalive cannot be sent.  It is sent in the handler of queue.Empty, whose
\* exceptions the handler of connection errors beside it does not catch.
KeepaliveFails(c) ==
    /\ "send" \in loops[c]
    /\ loops' = [loops EXCEPT ![c] = @ \ {"send"}]
    /\ died' = [died EXCEPT ![c] = @ \union {"send"}]
    /\ UNCHANGED <<sessions, socket, stop, refused, job, main>>

PeerCloses(c) ==
    /\ socket[c] = "open"
    /\ socket' = [socket EXCEPT ![c] = "lost"]
    /\ UNCHANGED <<sessions, stop, loops, died, refused, job, main>>

SessionEnds(c) ==
    \/ RecvFails(c) \/ RecvRaises(c) \/ SendFails(c) \/ KeepaliveFails(c)

-----------------------------------------------------------------------------
Connecting(t) ==
    \/ \E n \in Names : ConnectCheck(t, n)
    \/ \E c \in Conns : StartSession(t, c)
    \/ StartRefused(t)
    \/ AddSession(t)

Next ==
    \/ \E t \in Threads : Connecting(t)
    \/ \E n \in Names : Disconnect(n)
    \/ StopSession("console") \/ Exit
    \/ Main \/ KeyboardInterrupt
    \/ \E c \in Conns : SessionEnds(c) \/ PeerCloses(c)

Spec == Init /\ [][Next]_vars

\* A thread that can run does, and recv has a timeout of a second, so that recv_loop
\* notices the end of the connection.  Once that is gone, send_loop fails too: with
\* the next packet or, since an idle channel is tested every t3, with a keepalive;
\* which of them is not determined.  Nothing says that a send on an open socket ever
\* fails.  What the configuration lists is connected; the user need not type anything.
FairSpec ==
    /\ Spec
    /\ WF_vars(Main) /\ WF_vars(Connecting("main")) /\ WF_vars(StopSession("console"))
    /\ \A c \in Conns :
          /\ WF_vars(RecvFails(c))
          /\ WF_vars(socket[c] # "open" /\ (SendFails(c) \/ KeepaliveFails(c)))

-----------------------------------------------------------------------------
(* Properties *)

Held == {job[t].conn : t \in {u \in Threads : job[u].at \in {"started", "popped"}}}

Jobs == {Free, Ended} \union {Checked(n) : n \in Names} \union {Popped(c) : c \in Conns}
            \union {Started(n, c) : n \in Names, c \in Conns}

ConnTypes ==
    /\ socket \in [Conns -> {"unused", "open", "lost", "closed"}]
    /\ stop \in [Conns -> BOOLEAN]
    /\ loops \in [Conns -> SUBSET Loops] /\ died \in [Conns -> SUBSET Loops]
    /\ \A c \in Conns : socket[c] = "unused" => ~stop[c] /\ loops[c] = {} /\ c \notin Pooled
    /\ \A c \in Conns : stop[c] => loops[c] = {} /\ died[c] = {}
PoolTypes ==
    /\ DOMAIN sessions \subseteq Names /\ Pooled \subseteq Conns
    /\ refused \subseteq Conns /\ job \in [Threads -> Jobs]
MainTypes ==
    /\ listed \in 0 .. MaxListed /\ scan \subseteq Names \X Conns /\ closing \subseteq Names
    /\ phase \in {"auto", "loop", "sleep", "close", "done"} /\ stop_thread \in BOOLEAN
TypeOK == ConnTypes /\ PoolTypes /\ MainTypes

\* A session has one owner: it is in the pool under one name, or in the hands of
\* one thread, or refused.  (Both threads remove sessions, by name.)
OwnedOnce ==
    /\ \A n, m \in DOMAIN sessions : sessions[n] = sessions[m] => n = m
    /\ \A t, u \in Threads :
          job[t].at \in {"started", "popped"} /\ job[t] = job[u] => t = u
    /\ Pooled \intersect Held = {} /\ refused \intersect (Pooled \union Held) = {}

\* A session that is neither owned nor refused has been told to stop.
UnownedStops ==
    \A c \in Conns : socket[c] # "unused" /\ c \notin Pooled \union Held \union refused => stop[c]

\* The limit never refuses a session that is already connected: between the first
\* test and the second nobody else adds one.
LimitTestedOnce == \A t \in Threads : job[t].at = "started" => Size < MAX_CONNECTIONS

\* After the exit command no socket of a session stays open, but for those
\* refused.
ExitClosesAll ==
    phase = "done" /\ job["console"] = Ended =>
        \A c \in Conns \ refused : socket[c] \in {"unused", "closed"}

\* A session whose connection is gone, or that was told to stop, leaves the pool,
\* unless the client has shut down first: also when one of its two loops was ended
\* by an exception.  Only when both were, nobody is left to set stop_event.
DeadSessionLeaves ==
    \A c \in Conns :
        c \in Pooled /\ (stop[c] \/ socket[c] # "open")
            ~> c \notin Pooled \/ phase = "done" \/ died[c] = Loops

-----------------------------------------------------------------------------
(* What the documents say and the code does not do *)

\* create_client_pool: the pool handles the life of the sessions
SessionsManaged ==
    \A c \in Conns : loops[c] # {} /\ ~stop[c] => c \in Pooled \union Held

\* run_client_loop detects dead sessions: one whose connection is gone is removed
DeadSessionRemoved ==
    \A c \in Conns :
        c \in Pooled /\ socket[c] # "open" ~> c \notin Pooled \/ phase = "done"
=============================================================================
