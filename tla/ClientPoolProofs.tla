-------------------------- MODULE ClientPoolProofs --------------------------
(***************************************************************************)
(* Proofs about ClientPool, for any names, any limit and any number of     *)
(* connections: a session has one owner, the limit is kept between its two *)
(* tests, and the exit command closes everything but what was refused.     *)
(***************************************************************************)
EXTENDS ClientPool, FiniteSetTheorems, TLAPS

USE ClientPoolAssumption

-----------------------------------------------------------------------------
(* The inductive invariant *)

Used(c)       == socket[c] # "unused"
Holds(t)      == job[t].at \in {"started", "popped"}
Connects(t)   == job[t].at \in {"checked", "started"}

\* OwnedOnce, of connections that were made
OnePlace ==
    /\ \A n, m \in DOMAIN sessions : sessions[n] = sessions[m] => n = m
    /\ \A t, u \in Threads : Holds(t) /\ Holds(u) /\ job[t].conn = job[u].conn => t = u
    /\ \A t \in Threads : Holds(t) => Used(job[t].conn) /\ job[t].conn \notin Pooled \union refused
    /\ Pooled \intersect refused = {}
    /\ \A c \in Pooled \union refused : Used(c)

\* Who has let go of a session has stopped it and closed its socket.
LetGo ==
    \A c \in Conns : Used(c) /\ c \notin Pooled \union Held \union refused =>
        stop[c] /\ socket[c] = "closed"

\* Main connects before there is a console, the console afterwards.
OneConnects ==
    /\ listed > 0 \/ Connects("main") => phase = "auto"
    /\ phase = "auto" => job["console"] = Free

\* The limit holds from the first test on.
BelowLimit ==
    /\ IsFiniteSet(DOMAIN sessions)
    /\ \A t \in Threads : Connects(t) => Size < MAX_CONNECTIONS

\* Without a console nobody adds a session behind close_all's back.
Closing ==
    /\ phase \in {"close", "done"} /\ job["console"] = Ended => DOMAIN sessions \subseteq closing
    /\ phase = "done" => closing = {} /\ job["main"] = Free

IInv == TypeOK /\ OnePlace /\ LetGo /\ OneConnects /\ BelowLimit /\ Closing

-----------------------------------------------------------------------------
(* Lemmas about jobs and the pool *)

LEMMA JobFields ==
    ASSUME NEW j \in Jobs
    PROVE  /\ j.at = "checked" => j.name \in Names
           /\ j.at = "started" => j.name \in Names /\ j.conn \in Conns
           /\ j.at = "popped" => j.conn \in Conns
           /\ j.at = "free" => j = Free
           /\ j.at = "ended" => j = Ended
BY DEF Jobs, Free, Ended, Checked, Popped, Started

LEMMA JobKinds ==
    ASSUME NEW n, NEW c
    PROVE  /\ Free.at = "free" /\ Ended.at = "ended"
           /\ Checked(n).at = "checked" /\ Checked(n).name = n
           /\ Started(n, c).at = "started" /\ Started(n, c).name = n /\ Started(n, c).conn = c
           /\ Popped(c).at = "popped" /\ Popped(c).conn = c
BY DEF Free, Ended, Checked, Popped, Started

LEMMA NoJob == Free \in Jobs /\ Ended \in Jobs
BY DEF Jobs

LEMMA HeldBy ==
    ASSUME NEW c
    PROVE  /\ c \in Held <=> \E t \in Threads : Holds(t) /\ job[t].conn = c
           /\ c \in Held' <=> \E t \in Threads : Holds(t)' /\ job'[t].conn = c
BY DEF Held, Holds

LEMMA PooledAt ==
    ASSUME NEW c
    PROVE  /\ c \in Pooled <=> \E n \in DOMAIN sessions : sessions[n] = c
           /\ c \in Pooled' <=> \E n \in DOMAIN sessions' : sessions'[n] = c
BY DEF Pooled

\* A thread that is given another job: what is held changes by what that thread held.
LEMMA NewJob ==
    ASSUME IInv, NEW t \in Threads, NEW j \in Jobs, job' = [job EXCEPT ![t] = j]
    PROVE  /\ job' \in [Threads -> Jobs] /\ job'[t] = j
           /\ \A u \in Threads \ {t} : job'[u] = job[u]
           /\ \A c \in Conns : c \in Held' <=> \/ j.at \in {"started", "popped"} /\ j.conn = c
                                               \/ c \in Held /\ ~(Holds(t) /\ job[t].conn = c)
<1>1. /\ job' \in [Threads -> Jobs] /\ job'[t] = j
      /\ \A u \in Threads \ {t} : job'[u] = job[u]
  BY DEF IInv, TypeOK, PoolTypes
<1>2. ASSUME NEW c \in Conns
      PROVE  c \in Held' <=> \/ j.at \in {"started", "popped"} /\ j.conn = c
                             \/ c \in Held /\ ~(Holds(t) /\ job[t].conn = c)
  <2>1. c \in Held /\ Holds(t) /\ job[t].conn = c =>
           \A u \in Threads \ {t} : ~(Holds(u) /\ job[u].conn = c)
    BY DEF IInv, OnePlace
  <2> QED BY <1>1, <2>1, HeldBy DEF Holds
<1> QED BY <1>1, <1>2

\* The pool is one entry smaller and the session is in the hands of the thread.
LEMMA PopFacts ==
    ASSUME IInv, NEW t \in Threads, NEW n \in DOMAIN sessions, job[t] = Free, Pop(t, n)
    PROVE  /\ sessions[n] \in Conns /\ Popped(sessions[n]) \in Jobs
           /\ DOMAIN sessions' = DOMAIN sessions \ {n}
           /\ \A m \in DOMAIN sessions' : sessions'[m] = sessions[m]
           /\ Pooled' = Pooled \ {sessions[n]}
           /\ \A c \in Conns : c \in Held' <=> c = sessions[n] \/ c \in Held
<1> USE DEF Pop
<1>1. sessions[n] \in Conns /\ Popped(sessions[n]) \in Jobs
  BY PooledAt DEF IInv, TypeOK, PoolTypes, Jobs
<1>2. /\ DOMAIN sessions' = DOMAIN sessions \ {n}
      /\ \A m \in DOMAIN sessions' : sessions'[m] = sessions[m]
  OBVIOUS
<1>3. Pooled' = Pooled \ {sessions[n]}
  BY <1>2, PooledAt DEF IInv, OnePlace
<1>4. \A c \in Conns : c \in Held' <=> c = sessions[n] \/ c \in Held
  <2>1. PICK j \in Jobs : j = Popped(sessions[n])
    BY <1>1
  <2>2. j.at = "popped" /\ j.conn = sessions[n] /\ job' = [job EXCEPT ![t] = j] /\ ~Holds(t)
    BY <2>1, JobKinds DEF Holds
  <2> HIDE DEF Pop
  <2> QED BY <2>2, NewJob
<1> QED BY <1>1, <1>2, <1>3, <1>4

\* A pool that loses an entry or none is not larger.
LEMMA Shrinks ==
    ASSUME NEW n, IsFiniteSet(DOMAIN sessions), DOMAIN sessions' = DOMAIN sessions \ {n}
    PROVE  IsFiniteSet(DOMAIN sessions') /\ Size' <= Size /\ Size \in Nat /\ Size' \in Nat
<1>1. /\ IsFiniteSet(DOMAIN sessions \ {n})
      /\ Cardinality(DOMAIN sessions) \in Nat /\ Cardinality(DOMAIN sessions \ {n}) \in Nat
      /\ Cardinality(DOMAIN sessions \ {n}) =
            IF n \in DOMAIN sessions THEN Cardinality(DOMAIN sessions) - 1 ELSE Cardinality(DOMAIN sessions)
  BY FS_RemoveElement, FS_CardinalityType
<1>2. Size' = Cardinality(DOMAIN sessions \ {n}) /\ Size = Cardinality(DOMAIN sessions)
  BY DEF Size
<1> QED BY <1>1, <1>2

-----------------------------------------------------------------------------
(* The invariant is inductive: connect *)

\* The first test of the limit.
LEMMA CheckStep ==
    ASSUME IInv, NEW t \in Threads, NEW n \in Names, ConnectCheck(t, n)
    PROVE  IInv'
<1> USE DEF ConnectCheck, connection
<1>1. PICK j \in Jobs : /\ job' = [job EXCEPT ![t] = j]
                        /\ j = Free \/ (j = Checked(n) /\ Size < MAX_CONNECTIONS)
  <2>1. Free \in Jobs /\ Checked(n) \in Jobs
    BY DEF Jobs
  <2>2. job = [job EXCEPT ![t] = Free]
    BY DEF IInv, TypeOK, PoolTypes
  <2> QED BY <2>1, <2>2
<1>2. /\ job' \in [Threads -> Jobs] /\ job'[t] = j /\ \A u \in Threads \ {t} : job'[u] = job[u]
      /\ \A c \in Conns : c \in Held' <=> c \in Held
      /\ ~Holds(t)' /\ (Connects(t)' => Size < MAX_CONNECTIONS) /\ j # Ended
  <2>1. /\ ~Holds(t) /\ j.at \in {"free", "checked"} /\ j # Ended
        /\ j.at = "checked" => Size < MAX_CONNECTIONS
    BY <1>1, JobKinds DEF Holds
  <2>2. /\ job' \in [Threads -> Jobs] /\ job'[t] = j /\ \A u \in Threads \ {t} : job'[u] = job[u]
        /\ \A c \in Conns : c \in Held' <=> c \in Held
    BY <1>1, <2>1, NewJob
  <2> QED BY <2>1, <2>2 DEF Holds, Connects
<1>3. ConnTypes' /\ PoolTypes'
  BY <1>2 DEF IInv, TypeOK, ConnTypes, PoolTypes, Pooled
<1>4. MainTypes'
  BY DEF IInv, TypeOK, MainTypes, MayConnect
<1>5. OnePlace'
  BY <1>2 DEF IInv, OnePlace, Pooled, Used, Holds
<1>6. LetGo'
  BY <1>2 DEF IInv, LetGo, Pooled, Used
<1>7. OneConnects'
  BY <1>2 DEF IInv, TypeOK, MainTypes, OneConnects, Connects, MayConnect, Threads
<1>8. BelowLimit'
  BY <1>2 DEF IInv, BelowLimit, Size, Connects
<1>9. Closing'
  BY <1>2, JobKinds DEF IInv, TypeOK, MainTypes, OneConnects, Closing, MayConnect, Threads
<1> QED BY <1>3, <1>4, <1>5, <1>6, <1>7, <1>8, <1>9 DEF IInv, TypeOK

\* A connection that nobody has seen comes into the hands of the thread.
LEMMA StartStep ==
    ASSUME IInv, NEW t \in Threads, NEW c \in Conns, StartSession(t, c)
    PROVE  IInv'
<1> USE DEF StartSession, main
<1>1. PICK j \in Jobs : job' = [job EXCEPT ![t] = j] /\ j = Started(job[t].name, c)
  <2>1. PICK n \in Names : n = job[t].name
    BY JobFields DEF IInv, TypeOK, PoolTypes
  <2>2. Started(n, c) \in Jobs
    BY DEF Jobs
  <2> QED BY <2>1, <2>2
<1>2. /\ j.at = "started" /\ j.conn = c /\ Connects(t) /\ ~Holds(t) /\ job[t] # Free
      /\ socket[c] = "unused" /\ ~Used(c) /\ c \notin Pooled \union refused \union Held
  <2>1. socket[c] = "unused" /\ ~Used(c)
    BY DEF IsNext, Used
  <2> QED BY <1>1, <2>1, JobKinds, HeldBy DEF Connects, Holds, IInv, OnePlace
<1>3. /\ job' \in [Threads -> Jobs] /\ job'[t] = j /\ \A u \in Threads \ {t} : job'[u] = job[u]
      /\ \A d \in Conns : d \in Held' <=> d = c \/ d \in Held
  BY <1>1, <1>2, NewJob
<1>4. ConnTypes' /\ PoolTypes'
  BY <1>2, <1>3 DEF IInv, TypeOK, ConnTypes, PoolTypes, Pooled, Loops
<1>5. MainTypes'
  BY DEF IInv, TypeOK, MainTypes
<1>6. OnePlace'
  BY <1>2, <1>3, HeldBy DEF IInv, TypeOK, ConnTypes, PoolTypes, OnePlace, Pooled, Used, Holds
<1>7. LetGo'
  BY <1>2, <1>3 DEF IInv, TypeOK, ConnTypes, LetGo, Pooled, Used
<1>8. OneConnects' /\ BelowLimit'
  BY <1>2, <1>3 DEF IInv, OneConnects, BelowLimit, Connects, Size, Threads
<1>9. Closing'
  BY <1>2, <1>3, JobKinds DEF IInv, Closing, Threads
<1> QED BY <1>4, <1>5, <1>6, <1>7, <1>8, <1>9 DEF IInv, TypeOK

\* Nothing listens: the thread has nothing in its hands.
LEMMA RefusedStep ==
    ASSUME IInv, NEW t \in Threads, StartRefused(t)
    PROVE  IInv'
<1> USE DEF StartRefused, connection, main
<1>1. PICK j \in Jobs : job' = [job EXCEPT ![t] = j] /\ j = Free
  BY NoJob
<1>2. /\ job' \in [Threads -> Jobs] /\ job'[t] = Free /\ \A u \in Threads \ {t} : job'[u] = job[u]
      /\ \A d \in Conns : d \in Held' <=> d \in Held
      /\ ~Holds(t)' /\ ~Connects(t)'
  <2>1. ~Holds(t) /\ j.at = "free"
    BY <1>1, JobKinds DEF Holds
  <2>2. /\ job' \in [Threads -> Jobs] /\ job'[t] = j /\ \A u \in Threads \ {t} : job'[u] = job[u]
        /\ \A c \in Conns : c \in Held' <=> c \in Held
    BY <1>1, <2>1, NewJob
  <2> QED BY <1>1, <2>1, <2>2 DEF Holds, Connects
<1>3. ConnTypes' /\ PoolTypes' /\ MainTypes'
  BY <1>2 DEF IInv, TypeOK, ConnTypes, PoolTypes, MainTypes, Pooled
<1>4. OnePlace'
  BY <1>2 DEF IInv, OnePlace, Pooled, Used, Holds
<1>5. LetGo'
  BY <1>2 DEF IInv, LetGo, Pooled, Used
<1>6. OneConnects' /\ BelowLimit'
  BY <1>2 DEF IInv, OneConnects, BelowLimit, Connects, Size, Threads
<1>7. Closing'
  BY <1>2, JobKinds DEF IInv, Closing, Threads
<1> QED BY <1>3, <1>4, <1>5, <1>6, <1>7 DEF IInv, TypeOK

\* A thread puts down what it held.
LEMMA PutDown ==
    ASSUME IInv, NEW t \in Threads, Holds(t), job' = [job EXCEPT ![t] = Free]
    PROVE  /\ job' \in [Threads -> Jobs] /\ job'[t] = Free
           /\ \A u \in Threads \ {t} : job'[u] = job[u]
           /\ ~Holds(t)' /\ ~Connects(t)'
           /\ \A d \in Conns : d \in Held' <=> d \in Held /\ d # job[t].conn
           /\ job[t].conn \in Conns /\ job[t].conn \notin Pooled \union refused /\ Used(job[t].conn)
<1>1. PICK j \in Jobs : job' = [job EXCEPT ![t] = j] /\ j = Free
  BY NoJob
<1>2. j.at = "free"
  BY <1>1, JobKinds
<1>3. /\ job' \in [Threads -> Jobs] /\ job'[t] = j /\ \A u \in Threads \ {t} : job'[u] = job[u]
      /\ \A d \in Conns : d \in Held' <=> d \in Held /\ d # job[t].conn
  BY <1>1, <1>2, NewJob
<1>4. job[t].conn \in Conns /\ job[t].conn \notin Pooled \union refused /\ Used(job[t].conn)
  BY JobFields DEF IInv, TypeOK, PoolTypes, OnePlace, Holds
<1> QED BY <1>1, <1>2, <1>3, <1>4 DEF Holds, Connects

\* The second test of the limit never refuses; the name may be in use.
LEMMA AddStep ==
    ASSUME IInv, NEW t \in Threads, AddSession(t)
    PROVE  IInv'
<1> USE DEF AddSession, connection, main
<1> DEFINE n == job[t].name
           c == job[t].conn
<1>1. Holds(t) /\ Connects(t) /\ n \in Names /\ Size < MAX_CONNECTIONS
  BY JobFields DEF IInv, TypeOK, PoolTypes, Holds, Connects, BelowLimit
<1>2. /\ job' \in [Threads -> Jobs] /\ job'[t] = Free /\ \A u \in Threads \ {t} : job'[u] = job[u]
      /\ ~Holds(t)' /\ ~Connects(t)' /\ \A d \in Conns : d \in Held' <=> d \in Held /\ d # c
      /\ c \in Conns /\ c \notin Pooled \union refused /\ Used(c)
  BY <1>1, PutDown
<1>3. \/ refused' = refused \union {c} /\ UNCHANGED sessions
      \/ /\ n \notin DOMAIN sessions /\ UNCHANGED refused
         /\ sessions' = [m \in DOMAIN sessions \union {n} |-> IF m = n THEN c ELSE sessions[m]]
  BY <1>1
<1>4. \A u \in Threads \ {t} : ~Connects(u)'
  <2>1. \A u \in Threads \ {t} : ~Connects(u)
    BY <1>1, JobKinds DEF IInv, OneConnects, Connects, Threads
  <2> QED BY <1>2, <2>1 DEF Connects
<1>5. OneConnects' /\ MainTypes'
  BY <1>1, <1>2 DEF IInv, TypeOK, MainTypes, OneConnects, Connects, Threads
<1>6. /\ job'["console"] # Ended /\ (phase = "done" => job'["main"] = Free /\ closing = {})
  BY <1>1, <1>2, JobKinds DEF IInv, OneConnects, Closing, Connects, Threads
<1>7. CASE refused' = refused \union {c} /\ UNCHANGED sessions
  <2>1. Pooled' = Pooled /\ Size' = Size
    BY <1>7 DEF Pooled, Size
  <2>2. ConnTypes' /\ PoolTypes'
    BY <1>2, <1>7, <2>1 DEF IInv, TypeOK, ConnTypes, PoolTypes
  <2>3. OnePlace'
    <3>1. \A u \in Threads \ {t} : Holds(u)' => Holds(u) /\ job[u].conn # c
      BY <1>1, <1>2 DEF IInv, OnePlace, Holds
    <3> QED BY <1>2, <1>7, <2>1, <3>1 DEF IInv, OnePlace, Used, Holds
  <2>4. LetGo'
    BY <1>2, <1>7, <2>1 DEF IInv, LetGo, Used
  <2>5. BelowLimit' /\ Closing'
    BY <1>2, <1>4, <1>6, <1>7 DEF IInv, BelowLimit, Closing
  <2> QED BY <1>5, <2>2, <2>3, <2>4, <2>5 DEF IInv, TypeOK
<1>8. CASE /\ n \notin DOMAIN sessions /\ UNCHANGED refused
           /\ sessions' = [m \in DOMAIN sessions \union {n} |-> IF m = n THEN c ELSE sessions[m]]
  <2>1. /\ DOMAIN sessions' = DOMAIN sessions \union {n} /\ sessions'[n] = c
        /\ \A m \in DOMAIN sessions : sessions'[m] = sessions[m]
    BY <1>8
  <2>2. Pooled' = Pooled \union {c}
    <3>1. ASSUME NEW d PROVE d \in Pooled' <=> d \in Pooled \/ d = c
      BY <2>1, PooledAt
    <3> QED BY <3>1
  <2>3. ConnTypes' /\ PoolTypes'
    BY <1>1, <1>2, <1>8, <2>1, <2>2 DEF IInv, TypeOK, ConnTypes, PoolTypes, Used
  <2>4. OnePlace'
    <3>1. \A m \in DOMAIN sessions : sessions[m] # c
      BY <1>2, PooledAt
    <3>2. \A u \in Threads \ {t} : Holds(u)' => Holds(u) /\ job[u].conn # c
      BY <1>1, <1>2 DEF IInv, OnePlace, Holds
    <3>3. \A m, k \in DOMAIN sessions' : sessions'[m] = sessions'[k] => m = k
      BY <1>8, <2>1, <3>1 DEF IInv, OnePlace
    <3>4. \A d \in Pooled' \union refused' : Used(d)'
      BY <1>2, <1>8, <2>2 DEF IInv, OnePlace, Used
    <3>5. \A u \in Threads : Holds(u)' => Used(job[u].conn)' /\ job'[u].conn \notin Pooled' \union refused'
      BY <1>2, <1>8, <2>2, <3>2 DEF IInv, OnePlace, Used
    <3>6. \A u, v \in Threads : Holds(u)' /\ Holds(v)' /\ job'[u].conn = job'[v].conn => u = v
      BY <1>2, <3>2 DEF IInv, OnePlace
    <3>7. Pooled' \intersect refused' = {}
      BY <1>2, <1>8, <2>2 DEF IInv, OnePlace
    <3> QED BY <3>3, <3>4, <3>5, <3>6, <3>7 DEF OnePlace
  <2>5. LetGo'
    BY <1>2, <1>8, <2>2 DEF IInv, LetGo, Used
  <2>6. IsFiniteSet(DOMAIN sessions')
    BY <2>1, FS_AddElement DEF IInv, BelowLimit
  <2>7. BelowLimit' /\ Closing'
    BY <1>2, <1>4, <1>6, <2>6 DEF BelowLimit, Closing
  <2> QED BY <1>5, <2>3, <2>4, <2>5, <2>7 DEF IInv, TypeOK
<1> QED BY <1>3, <1>7, <1>8

-----------------------------------------------------------------------------
(* The invariant is inductive: removing *)

LEMMA StopStep ==
    ASSUME IInv, NEW t \in Threads, StopSession(t)
    PROVE  IInv'
<1> USE DEF StopSession, Stopped, main
<1> DEFINE c == job[t].conn
<1>1. Holds(t)
  BY DEF Holds
<1>2. /\ job' \in [Threads -> Jobs] /\ job'[t] = Free /\ \A u \in Threads \ {t} : job'[u] = job[u]
      /\ ~Holds(t)' /\ ~Connects(t)' /\ \A d \in Conns : d \in Held' <=> d \in Held /\ d # c
      /\ c \in Conns /\ c \notin Pooled \union refused /\ Used(c)
  BY <1>1, PutDown
<1>3. Pooled' = Pooled /\ \A d \in Conns : Used(d)' <=> Used(d)
  BY <1>2 DEF Pooled, Used, IInv, TypeOK, ConnTypes
<1>4. ConnTypes' /\ PoolTypes' /\ MainTypes'
  BY <1>2, <1>3 DEF IInv, TypeOK, ConnTypes, PoolTypes, MainTypes, Used
<1>5. OnePlace'
  <2>1. \A u \in Threads : Holds(u)' => Holds(u) /\ job'[u] = job[u] /\ (Used(job[u].conn))'
    BY <1>2, <1>3, JobFields DEF IInv, TypeOK, PoolTypes, OnePlace, Holds
  <2> QED BY <1>3, <2>1 DEF IInv, TypeOK, PoolTypes, OnePlace
<1>6. LetGo'
  BY <1>2, <1>3 DEF IInv, TypeOK, ConnTypes, LetGo
<1>7. OneConnects' /\ BelowLimit'
  BY <1>2 DEF IInv, OneConnects, BelowLimit, Connects, Size, Threads
<1>8. Closing'
  BY <1>2, JobKinds DEF IInv, Closing, Threads
<1> QED BY <1>4, <1>5, <1>6, <1>7, <1>8 DEF IInv, TypeOK

\* A session goes from the pool into the hands of the thread that removes it.
LEMMA PopStep ==
    ASSUME IInv, NEW t \in Threads, NEW n \in DOMAIN sessions, job[t] = Free, Pop(t, n),
           t = "console" => phase # "auto", phase # "done",
           t = "main" => closing \ {n} \subseteq closing', t = "console" => closing' = closing,
           phase' = phase, MainTypes'
    PROVE  IInv'
<1> DEFINE c == sessions[n]
<1>1. /\ c \in Conns /\ Popped(c) \in Jobs
      /\ DOMAIN sessions' = DOMAIN sessions \ {n}
      /\ \A m \in DOMAIN sessions' : sessions'[m] = sessions[m]
      /\ Pooled' = Pooled \ {c}
      /\ \A d \in Conns : d \in Held' <=> d = c \/ d \in Held
  BY PopFacts
<1>2. /\ job' \in [Threads -> Jobs] /\ job'[t] = Popped(c) /\ \A u \in Threads \ {t} : job'[u] = job[u]
      /\ UNCHANGED <<connection, refused, listed, stop_thread>>
  BY <1>1 DEF Pop, IInv, TypeOK, PoolTypes
<1>3. /\ job'[t].at = "popped" /\ job'[t].conn = c /\ job'[t] # Ended /\ ~Connects(t)'
      /\ ~Connects(t) /\ ~Holds(t) /\ c \in Pooled
  BY <1>2, JobKinds, PooledAt DEF Connects, Holds
<1>4. ConnTypes' /\ PoolTypes'
  BY <1>1, <1>2 DEF IInv, TypeOK, ConnTypes, PoolTypes, connection
<1>5. OnePlace'
  <2>1. \A m, k \in DOMAIN sessions' : sessions'[m] = sessions'[k] => m = k
    BY <1>1 DEF IInv, OnePlace
  <2>2. \A u \in Threads \ {t} : Holds(u)' => Holds(u) /\ job'[u].conn # c
    BY <1>2, <1>3 DEF IInv, OnePlace, Holds
  <2>3. c \notin refused /\ Used(c) /\ \A d : Used(d)' <=> Used(d)
    BY <1>2, <1>3 DEF IInv, OnePlace, Used, connection
  <2>4. \A u \in Threads : Holds(u)' => Used(job[u].conn)' \/ u = t
    BY <1>2, <2>2 DEF IInv, OnePlace, Used, connection
  <2> QED BY <1>1, <1>2, <1>3, <2>1, <2>2, <2>3, <2>4 DEF IInv, OnePlace, Used, connection
<1>6. LetGo'
  BY <1>1, <1>2 DEF IInv, LetGo, Used, connection
<1>7. OneConnects'
  BY <1>2, <1>3 DEF IInv, OneConnects, Connects, Threads
<1>8. BelowLimit'
  <2>1. IsFiniteSet(DOMAIN sessions') /\ Size' <= Size /\ Size \in Nat /\ Size' \in Nat
    BY <1>1, Shrinks DEF IInv, BelowLimit
  <2>2. \A u \in Threads : Connects(u)' => Connects(u)
    BY <1>2, <1>3 DEF Connects
  <2>3. \A u \in Threads : Connects(u)' => Size < MAX_CONNECTIONS
    BY <2>2 DEF IInv, BelowLimit
  <2> QED BY <2>1, <2>3 DEF BelowLimit
<1>9. Closing'
  BY <1>1, <1>2, <1>3 DEF IInv, Closing, Threads
<1> QED BY <1>4, <1>5, <1>6, <1>7, <1>8, <1>9 DEF IInv, TypeOK

\* A step of main or of the console that leaves the sessions and all jobs alone, or
\* ends the console.
LEMMA MainStep ==
    ASSUME IInv, UNCHANGED <<sessions, connection, refused, listed>>, MainTypes',
           job' = job \/ (/\ job' = [job EXCEPT !["console"] = Ended] /\ job["console"] = Free
                          /\ phase' # "auto"),
           listed > 0 \/ Connects("main") => phase' = "auto",
           phase' = "auto" => phase = "auto",
           Closing'
    PROVE  IInv'
<1>1. /\ job' \in [Threads -> Jobs] /\ \A t \in Threads : job'[t] = job[t] \/ job'[t] = Ended
      /\ \A c \in Conns : c \in Held' <=> c \in Held
  <2>1. CASE job' = job
    BY <2>1, HeldBy DEF IInv, TypeOK, PoolTypes, Holds
  <2>2. CASE job' = [job EXCEPT !["console"] = Ended] /\ job["console"] = Free
    <3>1. PICK j \in Jobs : j = Ended
      BY NoJob
    <3>2. "console" \in Threads /\ ~Holds("console") /\ j.at = "ended"
      BY <2>2, <3>1, JobKinds DEF Threads, Holds
    <3> QED BY <2>2, <3>1, <3>2, NewJob
  <2> QED BY <2>1, <2>2
<1>2. \A t \in Threads : (Holds(t)' => Holds(t)) /\ (Connects(t)' => Connects(t))
                         /\ (Holds(t)' => job'[t] = job[t])
  BY <1>1, JobKinds DEF Holds, Connects
<1>3. Pooled' = Pooled /\ Size' = Size /\ \A c : Used(c)' <=> Used(c)
  BY DEF Pooled, Size, Used, connection
<1>4. ConnTypes' /\ PoolTypes'
  BY <1>1, <1>3 DEF IInv, TypeOK, ConnTypes, PoolTypes, connection
<1>5. OnePlace' /\ LetGo'
  <2>1. OnePlace'
    BY <1>1, <1>2, <1>3 DEF IInv, OnePlace, Used, connection
  <2>2. LetGo'
    BY <1>1, <1>3 DEF IInv, LetGo, connection
  <2> QED BY <2>1, <2>2
<1>6. OneConnects' /\ BelowLimit'
  <2>1. Connects("main")' => Connects("main")
    BY <1>2 DEF Threads
  <2>2. phase' = "auto" => job'["console"] = Free
    BY DEF IInv, OneConnects
  <2>3. BelowLimit'
    BY <1>2, <1>3 DEF IInv, BelowLimit
  <2> QED BY <2>1, <2>2, <2>3 DEF OneConnects
<1> QED BY <1>4, <1>5, <1>6 DEF IInv, TypeOK

\* disconnect, run_client_loop and close_all remove a session by name.
LEMMA RemoveStep ==
    ASSUME IInv,
           \/ \E n \in Names : Disconnect(n) \/ CloseNext(n)
           \/ \E n \in Names, c \in Conns : Look(n, c)
    PROVE  IInv'
<1>1. ASSUME NEW n \in Names, Disconnect(n) PROVE IInv'
  <2>1. MainTypes'
    BY <1>1 DEF Disconnect, Pop, IInv, TypeOK, MainTypes
  <2> QED BY <1>1, <2>1, PopStep DEF Disconnect, Threads
<1>2. ASSUME NEW n \in Names, CloseNext(n) PROVE IInv'
  <2>1. MainTypes'
    BY <1>2 DEF CloseNext, Pop, IInv, TypeOK, MainTypes
  <2>2. CASE n \in DOMAIN sessions
    BY <1>2, <2>1, <2>2, PopStep DEF CloseNext, Threads
  <2>3. CASE n \notin DOMAIN sessions
    <3>1. Closing'
      BY <1>2, <2>3 DEF CloseNext, Closing, IInv
    <3> QED BY <1>2, <2>1, <2>3, <3>1, MainStep DEF CloseNext, IInv, OneConnects
  <2> QED BY <2>2, <2>3
<1>3. ASSUME NEW n \in Names, NEW c \in Conns, Look(n, c) PROVE IInv'
  <2>1. MainTypes'
    BY <1>3 DEF Look, Pop, IInv, TypeOK, MainTypes
  <2>2. CASE stop[c] /\ n \in DOMAIN sessions
    BY <1>3, <2>1, <2>2, PopStep DEF Look, Threads
  <2>3. CASE ~(stop[c] /\ n \in DOMAIN sessions)
    <3>1. UNCHANGED <<sessions, connection, refused, job, listed, stop_thread, closing, phase>>
      BY <1>3, <2>3 DEF Look
    <3>2. Closing'
      BY <3>1 DEF Closing, IInv
    <3> QED BY <2>1, <3>1, <3>2, MainStep DEF IInv, OneConnects
  <2> QED BY <2>2, <2>3
<1> QED BY <1>1, <1>2, <1>3

-----------------------------------------------------------------------------
(* The invariant is inductive: main and the console between two sessions *)

LEMMA PhaseStep ==
    ASSUME IInv, ConfigDone \/ Sleep \/ Scan \/ Shutdown \/ ClosedAll \/ KeyboardInterrupt \/ Exit
    PROVE  IInv'
<1> USE DEF IInv, TypeOK
<1>1. CASE ConfigDone
  <2>1. MainTypes' /\ Closing' /\ ~Connects("main")
    BY <1>1, JobKinds DEF ConfigDone, MainTypes, Closing, Connects
  <2> QED BY <1>1, <2>1, MainStep DEF ConfigDone, OneConnects
<1>2. CASE Scan
  <2>1. scan' \subseteq Names \X Conns
    BY <1>2, PooledAt DEF Scan, PoolTypes
  <2>2. MainTypes' /\ Closing'
    BY <1>2, <2>1 DEF Scan, MainTypes, Closing
  <2> QED BY <1>2, <2>2, MainStep DEF Scan, OneConnects
<1>3. CASE Shutdown
  <2>1. MainTypes' /\ Closing'
    BY <1>3 DEF Shutdown, MainTypes, PoolTypes, Closing
  <2> QED BY <1>3, <2>1, MainStep DEF Shutdown, OneConnects
<1>4. CASE ClosedAll
  <2>1. MainTypes' /\ Closing'
    BY <1>4 DEF ClosedAll, MainTypes, Closing
  <2> QED BY <1>4, <2>1, MainStep DEF ClosedAll, OneConnects
<1>5. CASE KeyboardInterrupt
  <2>1. stop_thread' \in BOOLEAN
    BY <1>5 DEF KeyboardInterrupt
  <2>2. MainTypes' /\ Closing'
    BY <1>5, <2>1 DEF KeyboardInterrupt, MainTypes, Closing
  <2> QED BY <1>5, <2>2, MainStep DEF KeyboardInterrupt, OneConnects
<1>6. CASE Exit
  <2>1. stop_thread' \in BOOLEAN
    BY <1>6 DEF Exit
  <2>2. MainTypes' /\ Closing'
    BY <1>6, <2>1 DEF Exit, MainTypes, Closing
  <2> QED BY <1>6, <2>2, MainStep DEF Exit, OneConnects
<1>7. CASE Sleep
  <2>1. MainTypes' /\ Closing'
    BY <1>7 DEF Sleep, MainTypes, Closing
  <2> QED BY <1>7, <2>1, MainStep DEF Sleep, OneConnects
<1> QED BY <1>1, <1>2, <1>3, <1>4, <1>5, <1>6, <1>7

-----------------------------------------------------------------------------
(* The invariant is inductive: the threads of a session, and its peer *)

LEMMA SessionStep ==
    ASSUME IInv, NEW c \in Conns, SessionEnds(c) \/ PeerCloses(c)
    PROVE  IInv'
<1> USE DEF IInv, TypeOK
<1>1. /\ UNCHANGED <<sessions, refused, job, main>> /\ (socket' = socket \/ socket[c] = "open")
      /\ \/ socket' = socket
         \/ socket[c] = "open" /\ socket' = [socket EXCEPT ![c] = "lost"]
      /\ \/ Stopped(c)
         \/ /\ stop' = stop /\ loops[c] # {}
            /\ \E l \in Loops : /\ loops' = [loops EXCEPT ![c] = @ \ {l}]
                              /\ died' = [died EXCEPT ![c] = @ \union {l}]
         \/ UNCHANGED <<stop, loops, died>>
      /\ Used(c)
  <2>1. "recv" \in Loops /\ "send" \in Loops /\ (loops[c] # {} => Used(c))
    BY DEF ConnTypes, Used, Loops
  <2>2. CASE RecvFails(c) \/ RecvRaises(c)
    BY <2>1, <2>2 DEF RecvFails, RecvRaises
  <2>3. CASE SendFails(c) \/ KeepaliveFails(c)
    BY <2>1, <2>3 DEF SendFails, KeepaliveFails
  <2>4. CASE PeerCloses(c)
    BY <2>4 DEF PeerCloses, Used
  <2> QED BY <2>2, <2>3, <2>4 DEF SessionEnds
<1>2. Pooled' = Pooled /\ Held' = Held /\ Size' = Size /\ \A d \in Conns : Used(d)' <=> Used(d)
  BY <1>1 DEF Pooled, Held, Size, Used, ConnTypes
<1>3. ConnTypes'
  <2>1. /\ socket' \in [Conns -> {"unused", "open", "lost", "closed"}]
        /\ stop' \in [Conns -> BOOLEAN]
        /\ \A d \in Conns : d # c => stop'[d] = stop[d]
    BY <1>1 DEF ConnTypes, Stopped
  <2>2. /\ loops' \in [Conns -> SUBSET Loops] /\ died' \in [Conns -> SUBSET Loops]
        /\ \A d \in Conns : d # c => loops'[d] = loops[d] /\ died'[d] = died[d]
    BY <1>1 DEF ConnTypes, Stopped
  <2>3. stop'[c] => loops'[c] = {} /\ died'[c] = {}
    BY <1>1 DEF ConnTypes, Stopped
  <2> QED BY <1>1, <1>2, <2>1, <2>2, <2>3 DEF ConnTypes, Used
<1>4. PoolTypes' /\ MainTypes'
  BY <1>1, <1>2 DEF PoolTypes, MainTypes, main
<1>5. OnePlace'
  <2>1. \A t \in Threads : Holds(t) => job[t].conn \in Conns
    BY JobFields DEF Holds, PoolTypes
  <2>2. \A t \in Threads : (Holds(t)' <=> Holds(t)) /\ (Holds(t) => Used(job[t].conn)')
    BY <1>1, <1>2, <2>1 DEF OnePlace, Holds
  <2> QED BY <1>1, <1>2, <2>2 DEF OnePlace, PoolTypes
<1>6. LetGo'
  BY <1>1, <1>2 DEF LetGo, ConnTypes, Stopped
<1>7. OneConnects' /\ BelowLimit' /\ Closing'
  BY <1>1, <1>2 DEF OneConnects, main, BelowLimit, Closing, Connects
<1> QED BY <1>3, <1>4, <1>5, <1>6, <1>7

-----------------------------------------------------------------------------
(* The theorems *)

\* The inductive invariant holds in every state.
LEMMA Inductive == Spec => []IInv
<1>1. Init => IInv
  <2> SUFFICES ASSUME Init PROVE IInv
    OBVIOUS
  <2>1. Pooled = {} /\ IsFiniteSet(DOMAIN sessions) /\ DOMAIN sessions = {}
    BY FS_EmptySet DEF Init, Pooled
  <2>2. \A t \in Threads : job[t] = Free /\ ~Holds(t) /\ ~Connects(t)
    BY JobKinds DEF Init, Holds, Connects
  <2>3. stop_thread \in BOOLEAN /\ job \in [Threads -> Jobs]
    BY NoJob DEF Init
  <2>4. TypeOK
    BY <2>1, <2>3 DEF Init, TypeOK, ConnTypes, PoolTypes, MainTypes
  <2>5. OnePlace /\ LetGo
    BY <2>1, <2>2 DEF Init, OnePlace, LetGo, Used
  <2>6. OneConnects /\ BelowLimit /\ Closing
    BY <2>1, <2>2 DEF Init, OneConnects, BelowLimit, Closing, Threads
  <2> QED BY <2>4, <2>5, <2>6 DEF IInv
<1>2. IInv /\ [Next]_vars => IInv'
  <2> SUFFICES ASSUME IInv, [Next]_vars PROVE IInv'
    OBVIOUS
  <2>1. ASSUME NEW t \in Threads, Connecting(t) PROVE IInv'
    BY <2>1, CheckStep, StartStep, RefusedStep, AddStep DEF Connecting
  <2>2. CASE (\E n \in Names : Disconnect(n)) \/ StopSession("console") \/ Exit
    BY <2>2, RemoveStep, StopStep, PhaseStep DEF Threads
  <2>3. CASE Main \/ KeyboardInterrupt
    BY <2>3, RemoveStep, StopStep, PhaseStep DEF Main, Threads
  <2>4. ASSUME NEW c \in Conns, SessionEnds(c) \/ PeerCloses(c) PROVE IInv'
    BY <2>4, SessionStep
  <2>5. CASE UNCHANGED vars
    BY <2>5 DEF vars, connection, main, IInv, TypeOK, ConnTypes, PoolTypes, MainTypes, OnePlace, LetGo,
                OneConnects, BelowLimit, Closing, Used, Holds, Connects, Size, Pooled, Held
  <2> QED BY <2>1, <2>2, <2>3, <2>4, <2>5 DEF Next
<1> QED BY <1>1, <1>2, PTL DEF Spec

\* Every variable keeps its type.
THEOREM TypeCorrect == Spec => []TypeOK
<1>1. IInv => TypeOK
  BY DEF IInv
<1> QED BY <1>1, Inductive, PTL

\* A session is in the pool under one name, or in the hands of one thread, or
\* refused, although both threads connect and remove.
THEOREM OneOwner == Spec => []OwnedOnce
<1>1. ASSUME IInv PROVE OwnedOnce
  <2>1. \A t, u \in Threads : job[t].at \in {"started", "popped"} /\ job[t] = job[u] => t = u
    BY <1>1 DEF IInv, OnePlace, Holds
  <2>2. Pooled \intersect Held = {} /\ refused \intersect (Pooled \union Held) = {}
    BY <1>1, HeldBy DEF IInv, OnePlace
  <2> QED BY <1>1, <2>1, <2>2 DEF IInv, OnePlace, OwnedOnce
<1> QED BY <1>1, Inductive, PTL

\* A session that is neither owned nor refused has been told to stop.
THEOREM UnownedStop == Spec => []UnownedStops
<1>1. IInv => UnownedStops
  BY DEF IInv, LetGo, UnownedStops, Used
<1> QED BY <1>1, Inductive, PTL

\* Between the test of the limit in connect and the test in add_session no other
\* thread adds a session, so that the second test never refuses what was connected.
THEOREM LimitHolds == Spec => []LimitTestedOnce
<1>1. IInv => LimitTestedOnce
  BY DEF IInv, BelowLimit, Connects, LimitTestedOnce
<1> QED BY <1>1, Inductive, PTL

\* When the client has shut down after the exit command, no socket is open but those
\* of the sessions that add_session refused.
THEOREM ExitCloses == Spec => []ExitClosesAll
<1>1. ASSUME IInv, phase = "done", job["console"] = Ended, NEW c \in Conns \ refused
      PROVE  socket[c] \in {"unused", "closed"}
  <2>1. Pooled = {}
    BY <1>1, PooledAt DEF IInv, Closing
  <2>2. Held = {}
    BY <1>1, JobKinds, HeldBy DEF IInv, Closing, Threads, Holds
  <2> QED BY <1>1, <2>1, <2>2 DEF IInv, LetGo, Used
<1>2. IInv => ExitClosesAll
  BY <1>1 DEF ExitClosesAll
<1> QED BY <1>2, Inductive, PTL
=============================================================================
