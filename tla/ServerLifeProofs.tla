-------------------------- MODULE ServerLifeProofs --------------------------
(***************************************************************************)
(* Proofs about ServerLife, for any number of connections and any set of   *)
(* addresses: nobody who has left comes back, whoever receives is          *)
(* registered, and whoever runs is listed.                                 *)
(***************************************************************************)
EXTENDS ServerLife, TLAPS

USE ServerLifeAssumption

-----------------------------------------------------------------------------
(* The inductive invariant *)

Used(c) == socket[c] # "unused"

\* Main is between two connections, or it sets up one that is there and that has no
\* receiver yet, unless only the list is left to do.
SettingUp ==
    /\ main \in {Accepting} \union [at : 1 .. 5, conn : Conns]
    /\ main.at > 0 => Used(main.conn)
    /\ main.at \in 1 .. 4 => receiver[main.conn] = "none"

\* A storage knows a connection by its own address only.
Keyed(f)  == \A k \in DOMAIN f : f[k] \in Conns /\ Used(f[k]) /\ addr[f[k]] = k
Has(f, c) == Key(c) \in DOMAIN f /\ f[Key(c)] = c

\* NoGhosts, by key
Forgotten ==
    \A c \in Conns :
        /\ Has(subs, c) => receiver[c] \notin {"unsubscribed", "removed", "ended"}
        /\ Has(clients, c) => receiver[c] \notin {"removed", "ended"}

\* Registered, by key, and with the connections that main has not given a receiver
\* yet.  Alone: no other connection made so far had the address.
Alone(c) == \A d \in Conns \ {c} : Used(d) => Key(d) # Key(c)
Joined ==
    \A c \in Conns : Alone(c) =>
        /\ receiver[c] = "run" \/ (main.at \in 2 .. 4 /\ main.conn = c) => Has(subs, c)
        /\ receiver[c] = "run" \/ (main.at \in 3 .. 4 /\ main.conn = c) =>
              Has(clients, c) \/ (phase = "closed" /\ stop[c])

IInv ==
    /\ ConnTypes /\ MainTypes /\ SettingUp
    /\ Keyed(subs) /\ Keyed(clients) /\ Forgotten /\ Joined /\ Listed

-----------------------------------------------------------------------------
(* Lemmas about the storages *)

\* In a storage whose keys are right, a connection is found under its own key.
LEMMA KnownHas ==
    ASSUME NEW f, Keyed(f), NEW c \in Conns
    PROVE  c \in Known(f) <=> Has(f, c)
BY DEF Keyed, Known, Has, Key

\* A registration displaces what had the same key, and nothing else.
LEMMA PutHas ==
    ASSUME NEW f, NEW c \in Conns, Keyed(f), Used(c)
    PROVE  /\ Keyed(Put(f, Key(c), c))
           /\ \A d \in Conns :
                 Has(Put(f, Key(c), c), d) <=> d = c \/ (Key(d) # Key(c) /\ Has(f, d))
BY DEF Put, Keyed, Has, Key

\* A removal takes what has the key, whoever it is.
LEMMA DelHas ==
    ASSUME NEW f, NEW c \in Conns, Keyed(f)
    PROVE  /\ Keyed(Del(f, Key(c)))
           /\ \A d \in Conns : Has(Del(f, Key(c)), d) <=> Key(d) # Key(c) /\ Has(f, d)
BY DEF Del, Keyed, Has, Key

\* A step that leaves the addresses and forgets no connection keeps a storage right.
LEMMA KeyedStays ==
    ASSUME Keyed(subs), Keyed(clients), UNCHANGED <<addr, regs>>,
           \A d \in Conns : Used(d) => Used(d)'
    PROVE  /\ Keyed(subs)' /\ Keyed(clients)'
           /\ \A d \in Conns : (Has(subs, d)' <=> Has(subs, d)) /\ (Has(clients, d)' <=> Has(clients, d))
BY DEF Keyed, Has, Key, regs

\* The types that TypeOK states of the storages follow from their keys.
LEMMA KeyedTypes ==
    ASSUME Keyed(subs), Keyed(clients)
    PROVE  StorageTypes
BY DEF Keyed, StorageTypes, Known, Key

LEMMA SetupLen == Len(Setup) = 5
BY DEF Setup

\* How far main is, from the name of the step it takes.
LEMMA Steps ==
    ASSUME SettingUp, NEW c
    PROVE  /\ Does(c, "subscribe") => main = [at |-> 1, conn |-> c]
           /\ Does(c, "add") => main = [at |-> 2, conn |-> c]
           /\ Does(c, "send") => main = [at |-> 3, conn |-> c]
           /\ Does(c, "receive") => main = [at |-> 4, conn |-> c]
           /\ Does(c, "list") => main = [at |-> 5, conn |-> c]
<1>1. main.at > 0 => main \in [at : 1 .. 5, conn : Conns]
  BY DEF SettingUp, Accepting
<1> QED BY <1>1 DEF Does, Setup

\* Listed, thread by thread.
Thread(role, c) == [role |-> role, conn |-> c]
InList(role, c) == Thread(role, c) \in threads \/ (main.at > 0 /\ main.conn = c) \/ stop_thread

LEMMA ListedParts ==
    /\ Listed <=> \A c \in Conns : /\ sender[c] \notin {"none", "ended"} => InList("send", c)
                                   /\ receiver[c] \notin {"none", "ended"} => InList("receive", c)
    /\ Listed' <=> \A c \in Conns : /\ sender'[c] \notin {"none", "ended"} => InList("send", c)'
                                    /\ receiver'[c] \notin {"none", "ended"} => InList("receive", c)'
<1>1. \A c \in Conns : Threads(c) = {Thread("send", c), Thread("receive", c)}
  BY DEF Threads, Thread
<1>2. \A c \in Conns : /\ State(Thread("send", c)) = sender[c]
                       /\ State(Thread("receive", c)) = receiver[c]
                       /\ State(Thread("send", c))' = sender'[c]
                       /\ State(Thread("receive", c))' = receiver'[c]
  BY DEF State, Thread
<1>3. \A c \in Conns : (\A t \in Threads(c) : State(t) \notin {"none", "ended"} =>
                            t \in threads \/ (main.at > 0 /\ main.conn = c) \/ stop_thread)
        <=> /\ sender[c] \notin {"none", "ended"} => InList("send", c)
            /\ receiver[c] \notin {"none", "ended"} => InList("receive", c)
  BY <1>1, <1>2 DEF InList
<1>4. \A c \in Conns : (\A t \in Threads(c) : State(t)' \notin {"none", "ended"} =>
                            t \in threads' \/ (main'.at > 0 /\ main'.conn = c) \/ stop_thread')
        <=> /\ sender'[c] \notin {"none", "ended"} => InList("send", c)'
            /\ receiver'[c] \notin {"none", "ended"} => InList("receive", c)'
  BY <1>1, <1>2 DEF InList
<1>5. Listed' <=> \A c \in Conns : \A t \in Threads(c) : State(t)' \notin {"none", "ended"} =>
                            t \in threads' \/ (main'.at > 0 /\ main'.conn = c) \/ stop_thread'
  BY DEF Listed, Threads
<1>6. Listed <=> \A c \in Conns : \A t \in Threads(c) : State(t) \notin {"none", "ended"} =>
                            t \in threads \/ (main.at > 0 /\ main.conn = c) \/ stop_thread
  BY DEF Listed
<1>7. Listed <=> \A c \in Conns : /\ sender[c] \notin {"none", "ended"} => InList("send", c)
                                  /\ receiver[c] \notin {"none", "ended"} => InList("receive", c)
  BY <1>3, <1>6, Zenon
<1>8. Listed' <=> \A c \in Conns : /\ sender'[c] \notin {"none", "ended"} => InList("send", c)'
                                   /\ receiver'[c] \notin {"none", "ended"} => InList("receive", c)'
  BY <1>4, <1>5, Zenon
<1> QED BY <1>7, <1>8, Zenon

-----------------------------------------------------------------------------
(* The invariant is inductive: main *)

\* A new connection has an address that nobody who is Alone has.
LEMMA AcceptStep ==
    ASSUME IInv, NEW c \in Conns, NEW a \in Addrs, Accept(c, a)
    PROVE  IInv'
<1> USE DEF IInv, Accept, IsNext, conn, regs
<1>1. ~Used(c) /\ Used(c)' /\ \A d \in Conns \ {c} : Used(d)' = Used(d) /\ Key(d)' = Key(d)
  BY DEF ConnTypes, Used, Key
<1>2. ConnTypes' /\ MainTypes'
  BY DEF ConnTypes, MainTypes, Accepting, Setup
<1>3. SettingUp'
  BY <1>1 DEF ConnTypes, SettingUp, Accepting, Used
<1>4. /\ Keyed(subs)' /\ Keyed(clients)'
      /\ \A d \in Conns \ {c} : (Has(subs, d)' <=> Has(subs, d)) /\ (Has(clients, d)' <=> Has(clients, d))
      /\ ~Has(subs, c)' /\ ~Has(clients, c)'
  BY <1>1 DEF Keyed, Has, Key
<1>5. Forgotten'
  BY <1>4 DEF Forgotten
<1>6. Joined'
  <2>1. receiver[c] = "none"
    BY <1>1 DEF ConnTypes, Used
  <2>2. \A d \in Conns \ {c} : Alone(d)' => Alone(d)
    BY <1>1 DEF Alone
  <2> QED BY <1>4, <2>1, <2>2 DEF Joined, Accepting
<1>7. Listed'
  <2>1. \A d \in Conns : /\ sender[d] \notin {"none", "ended"} => IsAlive(Thread("send", d))
                         /\ receiver[d] \notin {"none", "ended"} => IsAlive(Thread("receive", d))
    BY DEF IsAlive, State, Thread
  <2> QED BY <2>1, ListedParts DEF InList, Accepting
<1> QED BY <1>2, <1>3, <1>4, <1>5, <1>6, <1>7

\* Main gives a connection its threads and registers it, or lists the threads.
LEMMA SetupStep ==
    ASSUME IInv, NEW c \in Conns,
           Subscribe(c) \/ AddClient(c) \/ StartSender(c) \/ StartReceiver(c) \/ ListThreads(c)
    PROVE  IInv'
<1> USE DEF IInv, conn, regs, Onward, Setup, Accepting
<1>1. /\ main = [main EXCEPT !.conn = c] /\ main.conn = c /\ Used(c) /\ UNCHANGED conn
      /\ \A d \in Conns : (Used(d)' <=> Used(d)) /\ Key(d)' = Key(d) /\ (Alone(d)' <=> Alone(d))
  BY Steps DEF SettingUp, Subscribe, AddClient, StartSender, StartReceiver, ListThreads, Used, Key, Alone
<1>2. CASE Subscribe(c)
  <2> USE DEF Subscribe
  <2>1. main = [at |-> 1, conn |-> c] /\ main' = [at |-> 2, conn |-> c]
    BY <1>2, Steps
  <2>2. ConnTypes' /\ MainTypes' /\ SettingUp' /\ Listed'
    BY <1>2, <1>1, <2>1 DEF ConnTypes, MainTypes, SettingUp, Listed, State, Used
  <2>3. /\ Keyed(subs)' /\ Keyed(clients)'
        /\ \A d \in Conns : /\ Has(subs, d)' <=> d = c \/ (Key(d) # Key(c) /\ Has(subs, d))
                            /\ Has(clients, d)' <=> Has(clients, d)
    <3>1. /\ Keyed(Put(subs, Key(c), c))
          /\ \A d \in Conns : Has(Put(subs, Key(c), c), d)
                               <=> d = c \/ (Key(d) # Key(c) /\ Has(subs, d))
      BY <1>1, PutHas
    <3>2. subs' = Put(subs, Key(c), c)
      BY <1>2
    <3>3. Keyed(subs)' /\ \A d \in Conns : Has(subs, d)' <=> Has(Put(subs, Key(c), c), d)
      BY <1>1, <3>1, <3>2 DEF Keyed, Has, Used, Key
    <3>4. Keyed(clients)' /\ \A d \in Conns : Has(clients, d)' <=> Has(clients, d)
      BY <1>2, <1>1 DEF Keyed, Has, Used, Key
    <3> QED BY <3>1, <3>3, <3>4
  <2>4. Forgotten'
    BY <1>2, <2>1, <2>3 DEF Forgotten, SettingUp
  <2>5. Joined'
    BY <1>2, <1>1, <2>1, <2>3 DEF Joined, Alone
  <2> QED BY <2>2, <2>3, <2>4, <2>5
<1>3. CASE AddClient(c)
  <2> USE DEF AddClient
  <2>1. main = [at |-> 2, conn |-> c] /\ main' = [at |-> 3, conn |-> c]
    BY <1>3, Steps
  <2>2. ConnTypes' /\ MainTypes' /\ SettingUp' /\ Listed'
    BY <1>3, <1>1, <2>1 DEF ConnTypes, MainTypes, SettingUp, Listed, State, Used
  <2>3. /\ Keyed(subs)' /\ Keyed(clients)'
        /\ \A d \in Conns : /\ Has(clients, d)' <=> d = c \/ (Key(d) # Key(c) /\ Has(clients, d))
                            /\ Has(subs, d)' <=> Has(subs, d)
    <3>1. /\ Keyed(Put(clients, Key(c), c))
          /\ \A d \in Conns : Has(Put(clients, Key(c), c), d)
                               <=> d = c \/ (Key(d) # Key(c) /\ Has(clients, d))
      BY <1>1, PutHas
    <3>2. clients' = Put(clients, Key(c), c)
      BY <1>3
    <3>3. Keyed(clients)' /\ \A d \in Conns : Has(clients, d)' <=> Has(Put(clients, Key(c), c), d)
      BY <1>1, <3>1, <3>2 DEF Keyed, Has, Used, Key
    <3>4. Keyed(subs)' /\ \A d \in Conns : Has(subs, d)' <=> Has(subs, d)
      BY <1>3, <1>1 DEF Keyed, Has, Used, Key
    <3> QED BY <3>1, <3>3, <3>4
  <2>4. Forgotten'
    BY <1>3, <2>1, <2>3 DEF Forgotten, SettingUp
  <2>5. Joined'
    BY <1>3, <1>1, <2>1, <2>3 DEF Joined, Alone
  <2> QED BY <2>2, <2>3, <2>4, <2>5
<1>4. CASE StartSender(c) \/ StartReceiver(c) \/ ListThreads(c)
  <2> USE DEF StartSender, StartReceiver, ListThreads
  <2>1. ConnTypes' /\ MainTypes'
    <3>1. Threads(c) \subseteq UNION {Threads(d) : d \in Conns}
      OBVIOUS
    <3>2. threads' \subseteq UNION {Threads(d) : d \in Conns}
      BY <1>4, <3>1 DEF MainTypes
    <3>3. ConnTypes'
      BY <1>4, <1>1 DEF ConnTypes, Used
    <3>4. main'.at \in 0 .. Len(Setup) /\ UNCHANGED <<phase, stop_thread>>
      BY <1>4, <1>1, Steps
    <3> QED BY <3>2, <3>3, <3>4 DEF MainTypes
  <2>2. SettingUp'
    BY <1>4, <1>1, Steps DEF SettingUp, Used, ConnTypes
  <2>3. /\ Keyed(subs)' /\ Keyed(clients)'
        /\ \A d \in Conns : (Has(subs, d)' <=> Has(subs, d)) /\ (Has(clients, d)' <=> Has(clients, d))
    BY <1>4, <1>1, KeyedStays
  <2>4. Forgotten'
    BY <1>4, <2>3 DEF Forgotten, ConnTypes
  <2>5. Joined'
    BY <1>4, <1>1, <2>3, Steps DEF Joined, ConnTypes
  <2>6. Listed'
    <3>1. Thread("send", c) \in Threads(c) /\ Thread("receive", c) \in Threads(c)
      BY DEF Thread, Threads
    <3>2. CASE StartSender(c) \/ StartReceiver(c)
      BY <1>1, <3>2, Steps, ListedParts DEF ConnTypes, InList
    <3>3. CASE ListThreads(c)
      <4>1. /\ main'.at = 0 /\ main.at > 0 /\ main.conn = c
            /\ UNCHANGED <<sender, receiver, stop_thread>> /\ threads \subseteq threads'
            /\ Thread("send", c) \in threads' /\ Thread("receive", c) \in threads'
        BY <1>1, <3>1, <3>3, Steps
      <4>2. \A d \in Conns : \A role \in {"send", "receive"} : InList(role, d) => InList(role, d)'
        BY <4>1 DEF InList
      <4>3. \A d \in Conns : /\ sender[d] \notin {"none", "ended"} => InList("send", d)
                             /\ receiver[d] \notin {"none", "ended"} => InList("receive", d)
        BY ListedParts, Zenon
      <4>4. \A d \in Conns : /\ sender'[d] \notin {"none", "ended"} => InList("send", d)'
                             /\ receiver'[d] \notin {"none", "ended"} => InList("receive", d)'
        BY <4>1, <4>2, <4>3
      <4> QED BY <4>4, ListedParts, Zenon
    <3> QED BY <1>4, <3>2, <3>3
  <2> QED BY <2>1, <2>2, <2>3, <2>4, <2>5, <2>6
<1> QED BY <1>2, <1>3, <1>4

\* Main ends: the storage of the clients is empty, and who was in it has been told.
LEMMA CloseStep ==
    ASSUME IInv, CloseAll
    PROVE  IInv'
<1> USE DEF IInv, CloseAll, conn, regs
<1>1. \A d \in Conns : d \in Known(clients) => Used(d)
  BY KnownHas DEF Keyed, Has
<1>2. \A d \in Conns : (Used(d)' <=> Used(d)) /\ Key(d)' = Key(d)
  BY <1>1 DEF Used, Key
<1>3. \A d \in Conns : (Alone(d)' <=> Alone(d)) /\ (Has(clients, d) => stop'[d])
  BY <1>2, KnownHas DEF Alone
<1>4. ConnTypes' /\ MainTypes'
  BY <1>1, <1>2 DEF ConnTypes, MainTypes, Used
<1>5. SettingUp' /\ Listed'
  BY <1>2 DEF SettingUp, Accepting, Listed, State
<1>6. /\ Keyed(subs)' /\ Keyed(clients)'
      /\ \A d \in Conns : (Has(subs, d)' <=> Has(subs, d)) /\ ~Has(clients, d)'
  BY <1>2 DEF Keyed, Has
<1>7. Forgotten'
  BY <1>6 DEF Forgotten
<1>8. Joined'
  BY <1>3, <1>6 DEF Joined, Accepting, ConnTypes
<1> QED BY <1>4, <1>5, <1>6, <1>7, <1>8

\* The server is asked to end, with a connection half set up or not.
LEMMA EndStep ==
    ASSUME IInv, Exit \/ Interrupt
    PROVE  IInv'
<1> USE DEF IInv, Exit, Interrupt, conn, regs
<1>1. ConnTypes' /\ SettingUp'
  BY DEF ConnTypes, SettingUp, Accepting, Used
<1>2. MainTypes'
  <2>1. stop_thread' \in BOOLEAN
    OBVIOUS
  <2> QED BY <2>1, SetupLen DEF MainTypes, Accepting
<1>3. /\ Keyed(subs)' /\ Keyed(clients)'
      /\ \A d \in Conns : (Has(subs, d)' <=> Has(subs, d)) /\ (Has(clients, d)' <=> Has(clients, d))
                          /\ (Alone(d)' <=> Alone(d))
  BY DEF Keyed, Has, Alone, Key, Used
<1>4. Forgotten' /\ Joined'
  BY <1>3 DEF Forgotten, Joined, Accepting
<1>5. Listed'
  BY DEF Listed, State
<1> QED BY <1>1, <1>2, <1>3, <1>4, <1>5

-----------------------------------------------------------------------------
(* The invariant is inductive: the threads of a connection, and its peer *)

\* A step of a connection that registers and removes nothing: its socket may end, its
\* stop event may be set, and its threads may end.
LEMMA QuietStep ==
    ASSUME IInv, NEW c \in Conns, UNCHANGED <<addr, regs, threads, loop>>, Used(c), ConnTypes',
           \A d \in Conns : /\ Used(d)' <=> Used(d)
                            /\ stop[d] => stop'[d]
                            /\ sender'[d] \in {"none", "ended"} \/ sender[d] \notin {"none", "ended"}
                            /\ \/ receiver'[d] = receiver[d]
                               \/ receiver[d] = "run" /\ receiver'[d] = "leave"
                               \/ receiver[d] = "removed" /\ receiver'[d] = "ended"
    PROVE  IInv'
<1> USE DEF IInv, regs, loop
<1>1. MainTypes'
  BY DEF MainTypes
<1>2. SettingUp'
  BY DEF SettingUp, Accepting
<1>3. /\ Keyed(subs)' /\ Keyed(clients)'
      /\ \A d \in Conns : (Has(subs, d)' <=> Has(subs, d)) /\ (Has(clients, d)' <=> Has(clients, d))
                          /\ (Alone(d)' <=> Alone(d))
  BY KeyedStays DEF Alone, Key
<1>4. Forgotten' /\ Joined'
  BY <1>3 DEF Forgotten, Joined
<1>5. Listed'
  BY ListedParts DEF InList
<1> QED BY <1>1, <1>2, <1>3, <1>4, <1>5

LEMMA ThreadStep ==
    ASSUME IInv, NEW c \in Conns,
           \/ SenderBlocks(c) \/ SenderGoesOn(c) \/ SenderRaises(c) \/ SenderFails(c) \/ Sender(c)
           \/ ReceiverEof(c) \/ ReceiverFails(c) \/ ReceiverRaises(c) \/ ReceiverEnds(c)
           \/ PeerLeaves(c)
    PROVE  IInv'
<1> USE DEF IInv, conn
<1>1. CASE SenderBlocks(c) \/ SenderGoesOn(c) \/ SenderRaises(c) \/ SenderFails(c) \/ Sender(c)
  <2> USE DEF SenderBlocks, SenderGoesOn, SenderRaises, Sender, SenderStops, SenderFails, SetSender
  <2>1. ConnTypes' /\ Used(c)
    BY <1>1 DEF ConnTypes, Used
  <2> QED BY <1>1, <2>1, QuietStep DEF ConnTypes, Used
<1>2. CASE ReceiverEof(c) \/ ReceiverFails(c) \/ ReceiverRaises(c) \/ ReceiverEnds(c)
  <2> USE DEF ReceiverEof, ReceiverFails, ReceiverRaises, ReceiverEnds, SetReceiver
  <2>1. Used(c)
    BY <1>2 DEF ConnTypes, Used
  <2>2. ConnTypes'
    <3>1. CASE ReceiverEof(c) \/ ReceiverRaises(c)
      BY <2>1, <3>1 DEF ConnTypes, Used
    <3>2. CASE ReceiverFails(c)
      BY <2>1, <3>2 DEF ConnTypes, Used
    <3>3. CASE ReceiverEnds(c)
      BY <2>1, <3>3 DEF ConnTypes, Used
    <3> QED BY <1>2, <3>1, <3>2, <3>3
  <2> QED BY <1>2, <2>1, <2>2, QuietStep DEF ConnTypes, Used
<1>3. CASE PeerLeaves(c)
  <2>1. ConnTypes' /\ Used(c)
    BY <1>3 DEF PeerLeaves, ConnTypes, Used
  <2> QED BY <1>3, <2>1, QuietStep DEF PeerLeaves, ConnTypes, Used
<1> QED BY <1>1, <1>2, <1>3

\* The receiver forgets its connection, and whoever else has the address.
LEMMA ForgetStep ==
    ASSUME IInv, NEW c \in Conns, Unsubscribe(c) \/ RemoveClient(c)
    PROVE  IInv'
<1> USE DEF IInv, conn, Unsubscribe, RemoveClient, SetReceiver
<1>1. /\ Used(c) /\ receiver[c] \in {"leave", "unsubscribed"}
      /\ \A d \in Conns : (Used(d)' <=> Used(d)) /\ Key(d)' = Key(d) /\ (Alone(d)' <=> Alone(d))
  BY DEF ConnTypes, Used, Key, Alone
<1>2. ConnTypes' /\ MainTypes' /\ SettingUp'
  <2>1. ConnTypes' /\ MainTypes'
    BY <1>1 DEF ConnTypes, MainTypes, loop, Used
  <2>2. SettingUp'
    BY <1>1 DEF ConnTypes, SettingUp, Accepting, loop
  <2> QED BY <2>1, <2>2
<1>3. Listed'
  BY <1>1, ListedParts DEF InList, loop, ConnTypes
<1>4. CASE Unsubscribe(c)
  <2>1. /\ Keyed(subs)' /\ Keyed(clients)'
        /\ \A d \in Conns : /\ Has(subs, d)' <=> Key(d) # Key(c) /\ Has(subs, d)
                            /\ Has(clients, d)' <=> Has(clients, d)
    <3>1. /\ Keyed(Del(subs, Key(c)))
          /\ \A d \in Conns : Has(Del(subs, Key(c)), d) <=> Key(d) # Key(c) /\ Has(subs, d)
      BY DelHas
    <3>2. subs' = Del(subs, Key(c))
      BY <1>4
    <3>3. Keyed(subs)' /\ \A d \in Conns : Has(subs, d)' <=> Has(Del(subs, Key(c)), d)
      BY <1>1, <3>1, <3>2 DEF Keyed, Has, Used, Key
    <3>4. Keyed(clients)' /\ \A d \in Conns : Has(clients, d)' <=> Has(clients, d)
      BY <1>4, <1>1 DEF Keyed, Has, Used, Key
    <3> QED BY <3>1, <3>3, <3>4
  <2>2. Forgotten'
    BY <1>4, <2>1 DEF Forgotten, ConnTypes
  <2>3. Joined'
    <3>1. \A d \in Conns \ {c} : /\ Alone(d) => Key(d) # Key(c)
                                 /\ receiver'[d] = receiver[d]
      BY <1>1 DEF Alone, ConnTypes
    <3>2. receiver'[c] # "run" /\ ~(main.at \in 1 .. 4 /\ main.conn = c)
      BY <1>1 DEF ConnTypes, SettingUp
    <3> QED BY <1>4, <1>1, <2>1, <3>1, <3>2 DEF Joined, loop
  <2> QED BY <1>2, <1>3, <2>1, <2>2, <2>3
<1>5. CASE RemoveClient(c)
  <2>1. /\ Keyed(subs)' /\ Keyed(clients)'
        /\ \A d \in Conns : /\ Has(clients, d)' <=> Key(d) # Key(c) /\ Has(clients, d)
                            /\ Has(subs, d)' <=> Has(subs, d)
    <3>1. /\ Keyed(Del(clients, Key(c)))
          /\ \A d \in Conns : Has(Del(clients, Key(c)), d) <=> Key(d) # Key(c) /\ Has(clients, d)
      BY DelHas
    <3>2. clients' = Del(clients, Key(c))
      BY <1>5
    <3>3. Keyed(clients)' /\ \A d \in Conns : Has(clients, d)' <=> Has(Del(clients, Key(c)), d)
      BY <1>1, <3>1, <3>2 DEF Keyed, Has, Used, Key
    <3>4. Keyed(subs)' /\ \A d \in Conns : Has(subs, d)' <=> Has(subs, d)
      BY <1>5, <1>1 DEF Keyed, Has, Used, Key
    <3> QED BY <3>1, <3>3, <3>4
  <2>2. Forgotten'
    BY <1>5, <2>1 DEF Forgotten, ConnTypes
  <2>3. Joined'
    <3>1. \A d \in Conns \ {c} : /\ Alone(d) => Key(d) # Key(c)
                                 /\ receiver'[d] = receiver[d]
      BY <1>1 DEF Alone, ConnTypes
    <3>2. receiver'[c] # "run" /\ ~(main.at \in 1 .. 4 /\ main.conn = c)
      BY <1>1 DEF ConnTypes, SettingUp
    <3> QED BY <1>5, <1>1, <2>1, <3>1, <3>2 DEF Joined, loop
  <2> QED BY <1>2, <1>3, <2>1, <2>2, <2>3
<1> QED BY <1>4, <1>5

-----------------------------------------------------------------------------
(* The theorems *)

\* The inductive invariant holds in every state.
LEMMA Inductive == Spec => []IInv
<1>1. Init => IInv
  <2> SUFFICES ASSUME Init PROVE IInv
    OBVIOUS
  <2>1. ConnTypes /\ MainTypes /\ SettingUp
    <3>1. ConnTypes
      BY DEF Init, ConnTypes
    <3>2. MainTypes
      <4>1. stop_thread \in BOOLEAN
        BY DEF Init
      <4> QED BY <4>1, SetupLen DEF Init, MainTypes, Accepting
    <3>3. SettingUp
      BY DEF Init, SettingUp, Accepting
    <3> QED BY <3>1, <3>2, <3>3
  <2>2. Keyed(subs) /\ Keyed(clients) /\ \A c \in Conns : ~Has(subs, c) /\ ~Has(clients, c)
    BY DEF Init, Keyed, Has
  <2>3. Forgotten /\ Joined /\ Listed
    BY <2>2, ListedParts DEF Init, Forgotten, Joined, Accepting
  <2> QED BY <2>1, <2>2, <2>3 DEF IInv
<1>2. IInv /\ [Next]_vars => IInv'
  <2> SUFFICES ASSUME IInv, [Next]_vars PROVE IInv'
    OBVIOUS
  <2>1. ASSUME NEW c \in Conns, NEW a \in Addrs, Accept(c, a) PROVE IInv'
    BY <2>1, AcceptStep
  <2>2. CASE Main
    BY <2>2, CloseStep, SetupStep DEF Main
  <2>3. CASE Exit \/ Interrupt
    BY <2>3, EndStep
  <2>4. ASSUME NEW c \in Conns,
               \/ SenderBlocks(c) \/ SenderGoesOn(c) \/ SenderRaises(c) \/ SenderFails(c) \/ Sender(c)
               \/ ReceiverFails(c) \/ ReceiverRaises(c) \/ Receiver(c) \/ PeerLeaves(c)
        PROVE  IInv'
    BY <2>4, ThreadStep, ForgetStep DEF Receiver
  <2>5. CASE UNCHANGED vars
    BY <2>5 DEF vars, conn, regs, loop, IInv, ConnTypes, MainTypes, SettingUp, Used, Keyed, Has, Key,
                Forgotten, Joined, Alone, Listed, State
  <2> QED BY <2>1, <2>2, <2>3, <2>4, <2>5 DEF Next
<1> QED BY <1>1, <1>2, PTL DEF Spec

\* Every variable keeps its type; in particular the storages name connections that
\* were made, by addresses that connections had.
THEOREM TypeCorrect == Spec => []TypeOK
<1>1. IInv => TypeOK
  BY KeyedTypes DEF IInv, TypeOK
<1> QED BY <1>1, Inductive, PTL

\* A connection that its receiver has forgotten is never in a storage again: main
\* registers it before there is a receiver that could forget it.
THEOREM NoGhostsEver == Spec => []NoGhosts
<1>1. IInv => NoGhosts
  BY KnownHas DEF IInv, NoGhosts, Forgotten
<1> QED BY <1>1, Inductive, PTL

\* Whoever receives, at an address nobody else has had, is subscribed and, until the
\* server closes, in the client storage.
THEOREM ReceiverRegistered == Spec => []Registered
<1>1. ASSUME IInv, NEW c \in Conns, OwnAddress(c) PROVE Alone(c)
  BY <1>1 DEF OwnAddress, Alone, Key
<1>2. IInv => Registered
  BY <1>1, KnownHas DEF IInv, Registered, Joined
<1> QED BY <1>2, Inductive, PTL

\* While the server serves, shutdown_server has every thread that runs to join, but for
\* those that main is about to list.
THEOREM ThreadsListed == Spec => []Listed
<1>1. IInv => Listed
  BY DEF IInv
<1> QED BY <1>1, Inductive, PTL
=============================================================================
