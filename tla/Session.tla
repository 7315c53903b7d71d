------------------------------ MODULE Session ------------------------------
(***************************************************************************)
(* One IEC 60870-5-104 connection between this repository's client and     *)
(* its server: the sequence numbers, the k and w windows and the U-frames. *)
(*                                                                         *)
(*   server.client_send    the sender thread        (SenderDiscard ..)     *)
(*   server.client_rec     the receiver thread      (ServerReceive..)      *)
(*   client.send_loop      the client's sender      (ClientSend, ..Test)   *)
(*   client.recv_loop      the client's receiver    (ClientReceive..)      *)
(*   api.startdt, api.gi   the operator             (ApiStartdt, ApiGi..)  *)
(*                                                                         *)
(* What runs under seq_lock is one step.  What the sender thread reads     *)
(* outside of it (startdt_confirmed, then the window, then the batch) is a *)
(* step of its own, so every interleaving of the two server threads is     *)
(* explored.  out_que of the server is a count here: its contents and      *)
(* their order are the subject of module OutQueue.  The connection stays   *)
(* up: opening and closing it is the subject of the life-cycle modules.    *)
(***************************************************************************)
EXTENDS Integers, Sequences

CONSTANTS
    SeqSize,    \* 32768 in the code: V(S), V(R), N(S), N(R) are 15-bit counters
    K,          \* conf.prot_k: unacknowledged I-frames that block client_send
    W,          \* conf.prot_w: received I-frames that force an S-frame
    MaxObj,     \* min(127, 243 // obj_size): the largest batch of one I-frame
    GiObjects,  \* objects that get_all_for_gi yields and handle_i_frame queues
    MaxQueue,   \* bound: no data change is queued beyond this length
    MaxGi       \* bound: calls of api.gi

ASSUME SessionAssumption ==
    /\ SeqSize \in Nat /\ K \in Nat /\ W \in Nat
    /\ 0 < W /\ W <= K /\ K < SeqSize     \* shipped: 8, 30, 32768
    /\ MaxObj \in Nat \ {0} /\ GiObjects \in Nat
    /\ MaxQueue \in Nat /\ MaxGi \in Nat

VARIABLES
    s_send_sq, s_rec_sq, s_last_ack_nr, s_rec_count, s_startdt, \* ClientState, server end
    s_queue,      \* state.out_que.qsize() of the server
    s_pc,         \* where client_send is: "get", "window", "build" or "idle"
    c_send_sq, c_rec_sq, c_last_ack_nr, c_rec_count, c_startdt, \* ClientState, client end
    c_out_que,    \* packets that send_loop has still to send, already encoded
    c2s, s2c,     \* the two directions of the TCP connection
    gi_ns,        \* V(S) that api.gi has read for the packet it is building
    gi_calls,     \* how often api.gi was called
    gi_accepted   \* configuration: both have one ca, or strict_coa is off

server == <<s_send_sq, s_rec_sq, s_last_ack_nr, s_rec_count, s_startdt>>
sender == <<s_queue, s_pc>>
client == <<c_send_sq, c_rec_sq, c_last_ack_nr, c_rec_count, c_startdt>>
api    == <<gi_ns, gi_calls, gi_accepted>>
vars   == <<server, sender, client, c_out_que, c2s, s2c, api>>

-----------------------------------------------------------------------------
(* Frames *)

SeqNr == 0 .. SeqSize - 1
None  == -1              \* no packet is being built

UType == {"STARTDT_ACT", "STARTDT_CON", "STOPDT_ACT", "STOPDT_CON",
          "TESTFR_ACT", "TESTFR_CON"}

IFrame(ns, nr) == [type |-> "I", ns |-> ns, nr |-> nr]
SFrame(nr)     == [type |-> "S", nr |-> nr]
UFrame(u)      == [type |-> "U", u |-> u]

Frame == [type : {"I"}, ns : SeqNr, nr : SeqNr]
         \union [type : {"S"}, nr : SeqNr]
         \union [type : {"U"}, u : UType]

U_RESP == [STARTDT_ACT |-> "STARTDT_CON", STOPDT_ACT |-> "STOPDT_CON",
           TESTFR_ACT  |-> "TESTFR_CON"]


IsI(f)      == f.type = "I"
NoI(chan)   == \A i \in 1 .. Len(chan) : chan[i].type # "I"
OnlyU(chan) == \A i \in 1 .. Len(chan) : chan[i].type = "U"

\* (x + 1) % 32768, the step of every sequence counter
FaultNoWrap(n) == n + 1
NextSq(n)      == (n + 1) % SeqSize

-----------------------------------------------------------------------------
(* The two windows.  An operator whose name begins with Fault is a broken  *)
(* variant of the one after it; the properties below must tell them apart. *)

Unack == (s_send_sq - s_last_ack_nr) % SeqSize

FaultWindowFull == Unack > K
WindowFull      == Unack >= K

\* count: I-frames received since the last S-frame, the current one included
FaultSFrameDue(count) == count > W
SFrameDue(count)      == count >= W

-----------------------------------------------------------------------------
Init ==
    /\ s_send_sq = 0 /\ s_rec_sq = 0 /\ s_last_ack_nr = 0 /\ s_rec_count = 0
    /\ s_startdt = FALSE
    /\ s_queue = 0 /\ s_pc = "get"
    /\ c_send_sq = 0 /\ c_rec_sq = 0 /\ c_last_ack_nr = 0 /\ c_rec_count = 0
    /\ c_startdt = FALSE
    /\ c_out_que = <<>> /\ c2s = <<>> /\ s2c = <<>>
    /\ gi_ns = None /\ gi_calls = 0 /\ gi_accepted \in BOOLEAN

-----------------------------------------------------------------------------
(* The server's sender thread, client_send *)

\* data_storage.update_val puts an event into the queue of this subscriber
DataChange ==
    /\ s_queue < MaxQueue
    /\ s_queue' = s_queue + 1
    /\ UNCHANGED <<server, s_pc, client, c_out_que, c2s, s2c, api>>

\* out_que.get() while data transfer is off: the event is lost
SenderDiscard ==
    /\ s_pc = "get" /\ s_queue > 0 /\ ~s_startdt
    /\ s_queue' = s_queue - 1
    /\ UNCHANGED <<server, s_pc, client, c_out_que, c2s, s2c, api>>

SenderTake ==
    /\ s_pc = "get" /\ s_queue > 0 /\ s_startdt
    /\ s_queue' = s_queue - 1 /\ s_pc' = "window"
    /\ UNCHANGED <<server, client, c_out_que, c2s, s2c, api>>

\* the k-window is full: the event goes back into the queue
SenderBlocked ==
    /\ s_pc = "window" /\ WindowFull
    /\ s_queue' = s_queue + 1 /\ s_pc' = "get"
    /\ UNCHANGED <<server, client, c_out_que, c2s, s2c, api>>

SenderPass ==
    /\ s_pc = "window" /\ ~WindowFull
    /\ s_pc' = "build"
    /\ UNCHANGED <<server, s_queue, client, c_out_que, c2s, s2c, api>>

\* n - 1 further events of the same type join the batch
Batch(n) == n - 1 <= s_queue /\ s_queue' = s_queue - (n - 1)

\* An I-frame leaves the server and V(S) takes its step: both threads build
\* and send under seq_lock.
FaultServerSendsI(nr) ==
    s2c' = Append(s2c, IFrame(s_send_sq, nr)) /\ s_send_sq' = s_send_sq
ServerSendsI(nr) ==
    s2c' = Append(s2c, IFrame(s_send_sq, nr)) /\ s_send_sq' = NextSq(s_send_sq)

\* build_i_frame, send and the step of V(S) are one critical section.  The
\* window was tested in an earlier one.
SenderSend ==
    /\ s_pc = "build"
    /\ \E n \in 1 .. MaxObj : Batch(n)
    /\ ServerSendsI(s_rec_sq)
    /\ s_pc' = "get"
    /\ UNCHANGED <<s_rec_sq, s_last_ack_nr, s_rec_count, s_startdt,
                   client, c_out_que, c2s, api>>

\* build_i_frame returned None: the type cannot be encoded, the batch is lost
SenderUnsupported ==
    /\ s_pc = "build"
    /\ \E n \in 1 .. MaxObj : Batch(n)
    /\ s_pc' = "get"
    /\ UNCHANGED <<server, client, c_out_que, c2s, s2c, api>>

\* bound: one keep-alive of each side is under way at a time (t3 is seconds)
InTransit(chan, u)    == \E i \in 1 .. Len(chan) : chan[i] = UFrame(u)
TestPending(out, in)  == InTransit(out, "TESTFR_ACT") \/ InTransit(in, "TESTFR_CON")

\* out_que.get() raises Empty; then t3 has passed since last_send, or has not
SenderIdle ==
    /\ s_pc = "get" /\ s_queue = 0
    /\ s_pc' = "idle"
    /\ UNCHANGED <<server, s_queue, client, c_out_que, c2s, s2c, api>>

SenderTest ==
    /\ s_pc = "idle" /\ s_pc' = "get"
    /\ \/ s2c' = s2c
       \/ /\ ~TestPending(s2c, c2s)
          /\ s2c' = Append(s2c, UFrame("TESTFR_ACT"))
    /\ UNCHANGED <<server, s_queue, client, c_out_que, c2s, api>>

-----------------------------------------------------------------------------
(* The server's receiver thread, client_rec: proc_frame, the response and  *)
(* the S-frame are sent under seq_lock                                     *)

ServerReceives(f) == c2s # <<>> /\ Head(c2s) = f /\ c2s' = Tail(c2s)

\* handle_i_frame, the part every I-frame runs through: a wrong N(S) is only
\* logged, V(R) counts the frame nevertheless
FaultServerTakesI(ns, nr) ==
    /\ ServerReceives(IFrame(ns, nr))
    /\ s_last_ack_nr' = nr
    /\ s_rec_sq' = IF ns = s_rec_sq THEN NextSq(s_rec_sq) ELSE s_rec_sq
ServerTakesI(ns, nr) ==
    /\ ServerReceives(IFrame(ns, nr))
    /\ s_last_ack_nr' = nr
    /\ s_rec_sq' = NextSq(s_rec_sq)

\* the general interrogation is accepted: its objects and the termination are
\* queued; the activation confirmation bypasses startdt and the k-window
FaultServerReceiveGi ==
    /\ gi_accepted
    /\ \E ns, nr \in SeqNr : ServerTakesI(ns, nr)
    /\ s_queue' = s_queue + GiObjects + 1
    /\ ServerSendsI(s_rec_sq)
    /\ s_rec_count' = 0
    /\ UNCHANGED <<s_startdt, s_pc, client, c_out_que, api>>
ServerReceiveGi ==
    /\ gi_accepted
    /\ \E ns, nr \in SeqNr : ServerTakesI(ns, nr)
    /\ s_queue' = s_queue + GiObjects + 1
    /\ ServerSendsI(s_rec_sq')
    /\ s_rec_count' = 0
    /\ UNCHANGED <<s_startdt, s_pc, client, c_out_que, api>>

\* the COA does not match: no response, only the count towards w
ServerIgnoreGi ==
    /\ ~gi_accepted
    /\ \E ns, nr \in SeqNr : ServerTakesI(ns, nr)
    /\ LET due == SFrameDue(s_rec_count + 1)
       IN  /\ s_rec_count' = IF due THEN 0 ELSE s_rec_count + 1
           /\ s2c' = IF due THEN Append(s2c, SFrame(s_rec_sq')) ELSE s2c
    /\ UNCHANGED <<s_send_sq, s_startdt, sender, client, c_out_que, api>>

ServerReceiveS ==
    /\ \E nr \in SeqNr : ServerReceives(SFrame(nr)) /\ s_last_ack_nr' = nr
    /\ UNCHANGED <<s_send_sq, s_rec_sq, s_rec_count, s_startdt,
                   sender, client, c_out_que, s2c, api>>

\* a request: any response, a U-frame too, clears the count towards w
ServerReceiveUAct ==
    /\ \E u \in DOMAIN U_RESP :
          /\ ServerReceives(UFrame(u))
          /\ s_startdt' = (u = "STARTDT_ACT" \/ (s_startdt /\ u # "STOPDT_ACT"))
          /\ s2c' = Append(s2c, UFrame(U_RESP[u]))
    /\ s_rec_count' = 0
    /\ UNCHANGED <<s_send_sq, s_rec_sq, s_last_ack_nr, sender, client, c_out_que, api>>

\* a confirmation has no entry in U_RESP
ServerReceiveUCon ==
    /\ \E u \in UType \ DOMAIN U_RESP : ServerReceives(UFrame(u))
    /\ UNCHANGED <<server, sender, client, c_out_que, s2c, api>>

ServerReceive ==
    \/ ServerReceiveGi \/ ServerIgnoreGi \/ ServerReceiveS
    \/ ServerReceiveUAct \/ ServerReceiveUCon

-----------------------------------------------------------------------------
(* The client's sender thread, send_loop *)

ClientSend ==
    /\ c_out_que # <<>>
    /\ c_out_que' = Tail(c_out_que)
    /\ c2s' = Append(c2s, Head(c_out_que))
    /\ c_send_sq' = IF IsI(Head(c_out_que)) THEN NextSq(c_send_sq) ELSE c_send_sq
    /\ UNCHANGED <<server, sender, c_rec_sq, c_last_ack_nr, c_rec_count, c_startdt,
                   s2c, api>>

ClientTest ==
    /\ c_out_que = <<>>
    /\ ~TestPending(c2s, s2c)
    /\ c2s' = Append(c2s, UFrame("TESTFR_ACT"))
    /\ UNCHANGED <<server, sender, client, c_out_que, s2c, api>>

-----------------------------------------------------------------------------
(* The client's receiver thread, recv_loop and process_frame *)

ClientReceives(f) == s2c # <<>> /\ Head(s2c) = f /\ s2c' = Tail(s2c)

ClientReceiveI ==
    /\ \E ns, nr \in SeqNr : ClientReceives(IFrame(ns, nr)) /\ c_last_ack_nr' = nr
    /\ c_rec_sq' = NextSq(c_rec_sq)
    /\ LET due == SFrameDue(c_rec_count + 1)
       IN  /\ c_rec_count' = IF due THEN 0 ELSE c_rec_count + 1
           /\ c2s' = IF due THEN Append(c2s, SFrame(c_rec_sq')) ELSE c2s
    /\ UNCHANGED <<server, sender, c_send_sq, c_startdt, c_out_que, api>>

ClientReceiveS ==
    /\ \E nr \in SeqNr : ClientReceives(SFrame(nr)) /\ c_last_ack_nr' = nr
    /\ UNCHANGED <<server, sender, c_send_sq, c_rec_sq, c_rec_count, c_startdt,
                   c_out_que, c2s, api>>

ClientReceiveU ==
    /\ \E u \in UType :
          /\ ClientReceives(UFrame(u))
          /\ c_startdt' = (c_startdt \/ u = "STARTDT_CON")
          /\ c2s' = IF u = "TESTFR_ACT" THEN Append(c2s, UFrame(U_RESP[u])) ELSE c2s
    /\ UNCHANGED <<server, sender, c_send_sq, c_rec_sq, c_last_ack_nr, c_rec_count,
                   c_out_que, api>>

ClientReceive == ClientReceiveI \/ ClientReceiveS \/ ClientReceiveU

-----------------------------------------------------------------------------
(* The operator: main() or the command line of the client *)

\* bound: the previous STARTDT has been answered
StartPending ==
    \/ InTransit(c_out_que, "STARTDT_ACT") \/ InTransit(c2s, "STARTDT_ACT")
    \/ InTransit(s2c, "STARTDT_CON")

\* one console thread: not while api.gi builds its packet
ApiStartdt ==
    /\ gi_ns = None /\ ~StartPending
    /\ c_out_que' = Append(c_out_que, UFrame("STARTDT_ACT"))
    /\ UNCHANGED <<server, sender, client, c2s, s2c, api>>

\* build_i_frame reads send_sq, then rec_sq, without seq_lock; the packet then
\* waits in out_que with both numbers already encoded
ApiGiRead ==
    /\ gi_ns = None /\ gi_calls < MaxGi
    /\ gi_ns' = c_send_sq /\ gi_calls' = gi_calls + 1
    /\ UNCHANGED <<server, sender, client, c_out_que, c2s, s2c, gi_accepted>>

ApiGiPut ==
    /\ gi_ns # None
    /\ c_out_que' = Append(c_out_que, IFrame(gi_ns, c_rec_sq))
    /\ gi_ns' = None
    /\ UNCHANGED <<server, sender, client, c2s, s2c, gi_calls, gi_accepted>>

-----------------------------------------------------------------------------
Sender == \/ SenderDiscard \/ SenderTake \/ SenderBlocked \/ SenderPass
          \/ SenderSend \/ SenderUnsupported \/ SenderIdle \/ SenderTest

Next ==
    \/ DataChange \/ Sender \/ ServerReceive
    \/ ClientSend \/ ClientTest \/ ClientReceive
    \/ ApiStartdt \/ ApiGiRead \/ ApiGiPut

Spec == Init /\ [][Next]_vars

\* Each thread runs whenever it can.  The operator and the data are free.
Fairness == WF_vars(Sender) /\ WF_vars(ServerReceive)
            /\ WF_vars(ClientSend) /\ WF_vars(ClientReceive)

FairSpec == Spec /\ Fairness

-----------------------------------------------------------------------------
(* Properties *)

TypeOK ==
    /\ {s_send_sq, s_rec_sq, s_last_ack_nr, c_send_sq, c_rec_sq, c_last_ack_nr}
         \subseteq SeqNr
    /\ s_rec_count \in 0 .. W - 1 /\ c_rec_count \in 0 .. W - 1
    /\ s_startdt \in BOOLEAN /\ c_startdt \in BOOLEAN
    /\ s_queue \in Nat /\ s_pc \in {"get", "window", "build", "idle"}
    /\ c_out_que \in Seq(Frame) /\ c2s \in Seq(Frame) /\ s2c \in Seq(Frame)
    /\ gi_ns \in SeqNr \union {None}
    /\ gi_calls \in 0 .. MaxGi /\ gi_accepted \in BOOLEAN

\* process_frame never logs a sequence error: whatever the two server threads
\* interleave, the I-frames reach the client with the N(S) it expects.
ServerFramesInSequence ==
    s2c # <<>> /\ IsI(Head(s2c)) => Head(s2c).ns = c_rec_sq

\* Nothing that could move last_ack_nr is under way, and the window is full:
\* client_send will put its event back for ever.
Stalled == WindowFull /\ OnlyU(c2s) /\ NoI(c_out_que) /\ NoI(s2c)

\* N(R) of the last S-frame the client has sent
AckedByClient == (c_rec_sq - c_rec_count) % SeqSize

\* Until the operator asks for a general interrogation the k-window does its
\* work: at most k frames are unacknowledged, and a full window always has an
\* acknowledgement coming.
WindowSound == gi_calls = 0 => Unack <= K /\ ~Stalled

\* In any history the sender can only be stuck for ever when the number it
\* holds differs from the client's last acknowledgement: it was taken from an
\* interrogation whose N(R) was not that of the last S-frame.
StallOnlyByStaleAck == Stalled => s_last_ack_nr # AckedByClient

\* V(R) of the server counts the interrogations of the client even when their
\* N(S) is wrong: with none under way the two counters agree.
InterrogationsCounted == NoI(c2s) => s_rec_sq = c_send_sq

\* Every accepted interrogation is acknowledged to the client: when nothing is
\* left under way to it, the last N(R) it holds is the server's V(R).
InterrogationsAcknowledged ==
    gi_accepted /\ NoI(s2c) => c_last_ack_nr = s_rec_sq

\* A window that fills up is emptied by the client's acknowledgements, as long
\* as no interrogation was asked for.  The client acknowledges by count alone, it
\* has no timer, so this needs W <= K and an unbroken series of S-frames.
WindowReopensWithoutGi == WindowFull ~> ~WindowFull \/ gi_calls > 0

-----------------------------------------------------------------------------
(* What the documents say and the code does not do *)

\* client_send, "Transmission blocked, waiting for client acknowledgment": the
\* acknowledgement comes.
WindowReopens == WindowFull ~> ~WindowFull
=============================================================================
