-------------------------------- MODULE Wire --------------------------------
(***************************************************************************)
(* One direction of a connection, from the events of a batch to what the   *)
(* other end makes of the bytes: client_send or another sender builds a    *)
(* frame (Codec), TCP delivers its bytes in pieces, the receive loop cuts  *)
(* frames off (FrameBuffer) and process_frame (client) or proc_frame       *)
(* (server) decodes them.                                                  *)
(*                                                                         *)
(* A message is what a frame says.  The client of this repository sends    *)
(* no commands and its server no stray bytes and no frames with the bit SQ; *)
(* both ends take them, and so do the models of their peers.               *)
(***************************************************************************)
EXTENDS FrameBuffer

CONSTANTS
    ServerScripts,  \* bound: what the server, or another RTU, sends: sequences of messages
    ClientScripts   \* bound: what the client, or another SCADA, sends

VARIABLES
    end,        \* the receiving end: "client" or "server"
    raised,     \* the batch, if any, on which build_i_frame raised and ended client_send
    script,     \* messages that are still to be sent
    sent,       \* ghost: the messages that became frames
    got         \* what the receiving end made of each frame it cut off

vars == <<buffer, end, raised, script, sent, got>>

-----------------------------------------------------------------------------
(* The frames *)

SFrame(nr) == <<Start, 4, 1, 0>> \o Bytes(2 * nr, 2)
UFrame(u)  == <<Start, 4, u, 0, 0, 0>>

\* objects at consecutive addresses, the first of which is given
Sequential(b) ==
    IFrame(b.ns, b.nr, Asdu(b.asdu, 128 + Len(b.events), b.cot, b.ca,
           Bytes(b.events[1].ioa, 3) \o FlattenSeq([i \in 1 .. Len(b.events) |->
               SubSeq(EncObj(b.asdu, b.events[i]), 4, 3 + SizeOf(b.asdu))])))

\* C_SE_NC_1: a float and a qualifier for each address
SetpointFrame(b) ==
    IFrame(b.ns, b.nr, Asdu(Setpoint, Len(b.events), b.cot, b.ca,
           FlattenSeq([i \in 1 .. Len(b.events) |->
               Bytes(b.events[i].ioa, 3) \o Bytes(b.events[i].val, 4) \o <<0>>])))

Encoded(m) ==
    CASE m.kind = "I"     -> IF m.asdu = Setpoint THEN SetpointFrame(m) ELSE BuildIFrame(m)
      [] m.kind = "SQ"    -> Sequential(m)
      [] m.kind = "S"     -> SFrame(m.nr)
      [] m.kind = "U"     -> UFrame(m.u)
      [] m.kind = "stray" -> m.bytes

\* What this server's client_send builds.  A type without an encoding sends nothing.
FromBatch(m) == m.kind = "I" /\ m.asdu \in Encodable

-----------------------------------------------------------------------------
(* The messages *)

SequenceNumbers == {n \in Nat : Fits(2 * n, 2)}
Words           == {n \in Nat : Fits(n, 2)}

\* A batch of client_send is as long as it makes it, with any values; every other I-frame
\* has values in their ranges and fits its length byte.
LegalBatch(m) ==
    /\ m.asdu \in IF m.kind = "I" THEN Encodable \union {Setpoint} ELSE Encodable
    /\ m.events \in Seq(Events) /\ m.events # <<>>
    /\ m.ns \in SequenceNumbers /\ m.nr \in SequenceNumbers /\ m.cot \in Words /\ m.ca \in Words
    /\ m.kind = "SQ" => \A i \in 1 .. Len(m.events) : m.events[i].ioa = m.events[1].ioa + i - 1
    /\ IF FromBatch(m) THEN Len(m.events) <= MaxObj(m.asdu)
       ELSE Len(m.events) < 128 /\ ValuesInRange(m) /\ Len(Encoded(m)) <= 257

\* What is sent, apart from frames, has no start byte.
Legal(m) ==
    CASE m.kind \in {"I", "SQ"} -> LegalBatch(m)
      [] m.kind = "S"     -> m.nr \in SequenceNumbers
      [] m.kind = "U"     -> m.u \in 0 .. 255 /\ m.u % 4 = 3
      [] m.kind = "stray" -> m.bytes \in Seq(0 .. 255 \ {Start})

MessagesOf(scripts) == UNION {{s[i] : i \in 1 .. Len(s)} : s \in scripts}
Messages == MessagesOf(ServerScripts \union ClientScripts)

\* No RTU reports a set point.  The server's buffer has room for what recv returns behind
\* an incomplete frame (the code: 1024 and 257 bytes, in 16384).
ASSUME WireAssumption ==
    /\ ServerScripts \subseteq Seq(Messages) /\ ClientScripts \subseteq Seq(Messages)
    /\ \A m \in Messages : m.kind \in {"I", "SQ", "S", "U", "stray"} /\ Legal(m)
    /\ \A m \in MessagesOf(ServerScripts) : m.kind = "I" => m.asdu # Setpoint
    /\ Pieces \subseteq Nat \ {0} /\ MaxRxBuf \in Nat
    /\ \A n \in Pieces : n + 5 <= MaxRxBuf
    /\ \A n \in Pieces, m \in MessagesOf(ClientScripts) :
           m.kind # "stray" => n + Len(Encoded(m)) - 1 <= MaxRxBuf

-----------------------------------------------------------------------------
(* process_frame and proc_frame *)

IsI(f) == f[3] % 2 = 0
IsU(f) == ~IsI(f) /\ (f[3] \div 2) % 2 = 1

Number(f, at) == Unsigned(SubSeq(f, at, at + 1)) \div 2

\* the calls of on_command; the common address is the server's
Commands(f) ==
    LET asdu == SubSeq(f, 7, Len(f))
        t    == asdu[1]
        objs == Parsed(asdu)
        Value(d) == IF t = Setpoint THEN Signed(SubSeq(d, 1, 4)) ELSE Halves(d[1] % 2)
    IN  IF t \in {Command, Setpoint}
        THEN [i \in 1 .. Len(objs) |-> [ioa |-> objs[i].ioa, val |-> Value(objs[i].data)]]
        ELSE <<>>

Seen(who, f) ==
    IF IsI(f)
    THEN [kind |-> "I", ns |-> Number(f, 3), nr |-> Number(f, 5), asdu |-> f[7],
          objs |-> IF who = "client" THEN DecodeIFrameObjects(f) ELSE Commands(f)]
    ELSE IF IsU(f) THEN [kind |-> "U", u |-> f[3]]
    ELSE [kind |-> "S", nr |-> Number(f, 5)]

-----------------------------------------------------------------------------
Init ==
    /\ BufferInit
    /\ \/ end = "client" /\ script \in ServerScripts
       \/ end = "server" /\ script \in ClientScripts
    /\ raised = {} /\ sent = <<>> /\ got = <<>>

NextMessage == script # <<>> /\ script' = Tail(script)

\* a sender that has raised sends nothing more
Send ==
    /\ NextMessage
    /\ FromBatch(Head(script)) => raised = {} /\ ~BuildRaises(Head(script))
    /\ Transmit(Encoded(Head(script)))
    /\ sent' = IF Head(script).kind = "stray" THEN sent ELSE Append(sent, Head(script))
    /\ UNCHANGED <<end, raised, got>>

\* client_send has no handler for what build_i_frame raises: the thread ends
SenderRaises ==
    /\ NextMessage
    /\ end = "client" /\ raised = {}
    /\ FromBatch(Head(script)) /\ BuildRaises(Head(script))
    /\ raised' = {Head(script)}
    /\ UNCHANGED <<buffer, end, sent, got>>

ReceiveBytes == Receive(end = "server") /\ UNCHANGED <<end, raised, script, sent, got>>

DiscardBytes == Discard /\ UNCHANGED <<end, raised, script, sent, got>>

WaitBytes == WaitForMore /\ UNCHANGED <<end, raised, script, sent, got>>

ProcessFrame ==
    /\ Cut /\ got' = Append(got, Seen(end, CutFrame))
    /\ UNCHANGED <<end, raised, script, sent>>

Receiver == ReceiveBytes \/ DiscardBytes \/ WaitBytes \/ ProcessFrame

Next == Send \/ SenderRaises \/ Receiver

Spec == Init /\ [][Next]_vars

\* the receiving thread takes what TCP has
FairSpec == Spec /\ WF_buffer(BufferStep(end = "server"))

-----------------------------------------------------------------------------
(* Properties *)

\* the messages whose frames the receiver has still to cut off
Waiting == SubSeq(sent, Len(got) + 1, Len(sent))

TypeOK ==
    /\ end \in {"client", "server"} /\ rec \in {"recv", "loop", "overflow"}
    /\ stream \in Seq(0 .. 255) /\ rx_buf \in Seq(0 .. 255)
    /\ script \in Seq(Messages) /\ sent \in Seq(Messages) /\ raised \subseteq Messages

\* what the receiving end made of the frame is what the message says
Understood(m, g) ==
    CASE m.kind = "U" -> g = [kind |-> "U", u |-> m.u]
      [] m.kind = "S" -> g = [kind |-> "S", nr |-> m.nr]
      [] OTHER ->
            /\ g.kind = "I" /\ g.ns = m.ns /\ g.nr = m.nr /\ g.asdu = m.asdu
            /\ IF end = "client"
               THEN /\ Len(g.objs) = Len(m.events)
                    /\ \A i \in 1 .. Len(m.events) :
                          /\ Arrives(m.asdu, m.events[i], g.objs[i].obj)
                          /\ g.objs[i].asdu = m.asdu
                          /\ g.objs[i].cot = m.cot /\ g.objs[i].coa = m.ca
               ELSE IF m.asdu \in {Command, Setpoint}
               THEN /\ Len(g.objs) = Len(m.events)
                    /\ \A i \in 1 .. Len(m.events) :
                          /\ g.objs[i].ioa = m.events[i].ioa
                          /\ Holds(m.asdu, m.events[i].val) =>
                                g.objs[i].val = Shown(m.asdu, m.events[i].val)
               ELSE g.objs = <<>>

\* However TCP cuts the bytes, the receiving end processes the frames that were sent, in
\* their order, and each says what was sent.
RoundTrip ==
    /\ Len(got) <= Len(sent)
    /\ \A i \in 1 .. Len(got) : Understood(sent[i], got[i])

\* When the receiver waits for bytes its buffer holds no complete frame, and so legal
\* frames never exceed the limit of the server's buffer.
NoFrameWaits ==
    /\ rec # "overflow"
    /\ rec = "recv" /\ Waiting # <<>> => Len(rx_buf) < Len(Encoded(Waiting[1]))

\* Batches as long as client_send makes them fit the length byte: only a number out of
\* its range ends the sender.
FullBatchFits == \A b \in raised : ~ValuesInRange(b)

\* Every frame that was sent is processed: the receiver catches up with the sender.
AllProcessed == Waiting # <<>> ~> Waiting = <<>>

=============================================================================
