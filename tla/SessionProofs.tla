--------------------------- MODULE SessionProofs ---------------------------
(***************************************************************************)
(* Proofs about Session, for every modulus, window, batch size and number  *)
(* of interrogations.  The second part proves that the k- and w-windows    *)
(* are sound until the operator asks for the first interrogation.          *)
(***************************************************************************)
EXTENDS SessionInv, SequenceTheorems, TLAPS

USE SessionAssumption DEF SeqNr, None

-----------------------------------------------------------------------------
(* Numbers and frames *)

\* The step of a sequence counter stays a sequence number.
LEMMA NextSqType ==
    ASSUME NEW n \in SeqNr
    PROVE  NextSq(n) \in SeqNr
BY DEF NextSq

\* The difference of two counters is a sequence number.
LEMMA DifferenceType ==
    ASSUME NEW m \in Int, NEW n \in Int
    PROVE  (m - n) % SeqSize \in SeqNr
OBVIOUS

\* The frames that the two ends build are frames.
LEMMA FramesBuilt ==
    /\ \A ns, nr \in SeqNr : IFrame(ns, nr) \in Frame /\ IsI(IFrame(ns, nr))
    /\ \A nr \in SeqNr : SFrame(nr) \in Frame /\ ~IsI(SFrame(nr))
    /\ \A u \in UType : UFrame(u) \in Frame /\ ~IsI(UFrame(u))
BY DEF Frame, IFrame, SFrame, UFrame, IsI

\* The fields that a frame of each kind has.
LEMMA FrameFields ==
    ASSUME NEW f \in Frame
    PROVE  /\ f.type \in {"I", "S", "U"}
           /\ IsI(f) => f.ns \in SeqNr /\ f.nr \in SeqNr
           /\ f.type = "S" => f.nr \in SeqNr
BY DEF Frame, IsI

-----------------------------------------------------------------------------
(* Channels *)

\* A frame put into a channel moves the counter at its far end.
LEMMA CountAppend ==
    ASSUME NEW chan \in Seq(Frame), NEW from \in SeqNr, NEW to \in SeqNr,
           NEW strict \in BOOLEAN, Counts(chan, from, to, strict),
           NEW f \in Frame, strict /\ IsI(f) => f.ns = to
    PROVE  Counts(Append(chan, f), from, IF IsI(f) THEN NextSq(to) ELSE to, strict)
<1> DEFINE new  == IF IsI(f) THEN NextSq(to) ELSE to
           more == Append(chan, f)
<1>1. PICK p \in [0 .. Len(chan) -> SeqNr] :
         p[0] = from /\ p[Len(chan)] = to /\ Counter(chan, p, strict)
  BY DEF Counts
<1> DEFINE q == [n \in 0 .. Len(more) |-> IF n <= Len(chan) THEN p[n] ELSE new]
<1>2. /\ Len(more) = Len(chan) + 1 /\ Len(chan) \in Nat
      /\ \A n \in 1 .. Len(chan) : more[n] = chan[n]
      /\ more[Len(chan) + 1] = f
  OBVIOUS
<1>3. new \in SeqNr
  BY NextSqType
<1>4. q \in [0 .. Len(more) -> SeqNr] /\ q[0] = from /\ q[Len(more)] = new
  BY <1>1, <1>2, <1>3
<1>5. ASSUME NEW i \in 0 .. Len(more), NEW j \in 0 .. Len(more), i <= j,
             \A n \in i + 1 .. j : ~IsI(more[n])
      PROVE  q[i] = q[j]
  <2>1. CASE j <= Len(chan)
    <3>1. \A n \in i + 1 .. j : ~IsI(chan[n])
      BY <1>2, <1>5, <2>1
    <3> QED BY <1>1, <1>2, <1>5, <2>1, <3>1 DEF Counter
  <2>2. CASE j = Len(chan) + 1 /\ i <= Len(chan)
    <3>1. ~IsI(f)
      BY <1>2, <1>5, <2>2
    <3>2. \A n \in i + 1 .. Len(chan) : ~IsI(chan[n])
      BY <1>2, <1>5, <2>2
    <3>3. p[i] = p[Len(chan)]
      BY <1>1, <1>2, <2>2, <3>2 DEF Counter
    <3> QED BY <1>1, <1>2, <2>2, <3>1, <3>3
  <2>3. CASE i = j
    BY <2>3
  <2> QED BY <1>2, <1>5, <2>1, <2>2, <2>3
<1>6. ASSUME NEW n \in 1 .. Len(more), IsI(more[n])
      PROVE  q[n] = NextSq(q[n - 1]) /\ (strict => more[n].ns = q[n - 1])
  <2>1. CASE n <= Len(chan)
    BY <1>1, <1>2, <1>6, <2>1 DEF Counter
  <2>2. CASE n = Len(chan) + 1
    BY <1>1, <1>2, <1>6, <2>2
  <2> QED BY <1>2, <2>1, <2>2
<1>7. Counter(more, q, strict)
  BY <1>5, <1>6 DEF Counter
<1> QED BY <1>4, <1>7 DEF Counts

\* A frame taken from a channel moves the counter of its receiver, and a
\* strict channel delivers the number that the receiver expects.
LEMMA CountTail ==
    ASSUME NEW chan \in Seq(Frame), chan # <<>>,
           NEW from \in SeqNr, NEW to \in SeqNr,
           NEW strict \in BOOLEAN, Counts(chan, from, to, strict)
    PROVE  /\ Counts(Tail(chan), IF IsI(Head(chan)) THEN NextSq(from) ELSE from, to, strict)
           /\ strict /\ IsI(Head(chan)) => Head(chan).ns = from
<1> DEFINE rest == Tail(chan)
           next == IF IsI(Head(chan)) THEN NextSq(from) ELSE from
<1>1. PICK p \in [0 .. Len(chan) -> SeqNr] :
         p[0] = from /\ p[Len(chan)] = to /\ Counter(chan, p, strict)
  BY DEF Counts
<1> DEFINE q == [n \in 0 .. Len(rest) |-> p[n + 1]]
<1>2. /\ Len(rest) = Len(chan) - 1 /\ Len(chan) \in Nat \ {0}
      /\ \A n \in 1 .. Len(rest) : rest[n] = chan[n + 1]
      /\ Head(chan) = chan[1]
  OBVIOUS
<1>3. p[1] = next /\ (strict /\ IsI(Head(chan)) => Head(chan).ns = from)
  <2>1. CASE IsI(chan[1])
    BY <1>1, <1>2, <2>1 DEF Counter
  <2>2. CASE ~IsI(chan[1])
    <3>1. 0 \in 0 .. Len(chan) /\ 1 \in 0 .. Len(chan) /\ \A n \in 0 + 1 .. 1 : ~IsI(chan[n])
      BY <1>2, <2>2
    <3> QED BY <1>1, <1>2, <2>2, <3>1 DEF Counter
  <2> QED BY <2>1, <2>2
<1>4. q \in [0 .. Len(rest) -> SeqNr] /\ q[0] = next /\ q[Len(rest)] = to
  BY <1>1, <1>2, <1>3
<1>5. ASSUME NEW i \in 0 .. Len(rest), NEW j \in 0 .. Len(rest), i <= j,
             \A n \in i + 1 .. j : ~IsI(rest[n])
      PROVE  q[i] = q[j]
  <2>1. \A n \in i + 2 .. j + 1 : ~IsI(chan[n])
    <3> TAKE n \in i + 2 .. j + 1
    <3>1. n - 1 \in i + 1 .. j /\ rest[n - 1] = chan[n]
      BY <1>2
    <3> QED BY <1>5, <3>1
  <2>2. i + 1 \in 0 .. Len(chan) /\ j + 1 \in 0 .. Len(chan) /\ i + 1 <= j + 1
    BY <1>2, <1>5
  <2>3. \A n \in (i + 1) + 1 .. j + 1 : ~IsI(chan[n])
    BY <2>1
  <2>4. p[i + 1] = p[j + 1]
    BY <1>1, <2>2, <2>3 DEF Counter
  <2> QED BY <1>5, <2>4
<1>6. ASSUME NEW n \in 1 .. Len(rest), IsI(rest[n])
      PROVE  q[n] = NextSq(q[n - 1]) /\ (strict => rest[n].ns = q[n - 1])
  BY <1>1, <1>2, <1>6 DEF Counter
<1>7. Counter(rest, q, strict)
  BY <1>5, <1>6 DEF Counter
<1> QED BY <1>3, <1>4, <1>7 DEF Counts

\* With no I-frame under way the two counters are equal.
LEMMA CountNone ==
    ASSUME NEW chan \in Seq(Frame), NEW from, NEW to, NEW strict \in BOOLEAN,
           Counts(chan, from, to, strict), NoI(chan)
    PROVE  from = to
<1>1. PICK p \in [0 .. Len(chan) -> SeqNr] :
         p[0] = from /\ p[Len(chan)] = to /\ Counter(chan, p, strict)
  BY DEF Counts
<1>2. 0 \in 0 .. Len(chan) /\ Len(chan) \in 0 .. Len(chan)
  OBVIOUS
<1>3. \A n \in 0 + 1 .. Len(chan) : ~IsI(chan[n])
  BY DEF NoI, IsI
<1> QED BY <1>1, <1>2, <1>3 DEF Counter

-----------------------------------------------------------------------------
(* Type correctness *)

\* Taking a frame from a channel leaves a channel.
LEMMA ChannelTail ==
    ASSUME NEW chan \in Seq(Frame), chan # <<>>
    PROVE  Tail(chan) \in Seq(Frame) /\ Head(chan) \in Frame
OBVIOUS

\* Putting a frame into a channel leaves a channel.
LEMMA ChannelAppend ==
    ASSUME NEW chan \in Seq(Frame), NEW f \in Frame
    PROVE  Append(chan, f) \in Seq(Frame)
OBVIOUS

\* The answer to a request is a U-frame.
LEMMA ResponseType ==
    /\ DOMAIN U_RESP = {"STARTDT_ACT", "STOPDT_ACT", "TESTFR_ACT"}
    /\ \A u \in DOMAIN U_RESP : U_RESP[u] \in UType
BY DEF U_RESP, UType

\* The initial state is well typed.
LEMMA InitType == Init => TypeOK
<1> SUFFICES ASSUME Init PROVE TypeOK
  OBVIOUS
<1>1. c_out_que \in Seq(Frame) /\ c2s \in Seq(Frame) /\ s2c \in Seq(Frame)
  BY DEF Init
<1>2. {s_send_sq, s_rec_sq, s_last_ack_nr, c_send_sq, c_rec_sq, c_last_ack_nr} \subseteq SeqNr
  BY DEF Init
<1>3. 0 \in 0 .. W - 1 /\ 0 \in 0 .. MaxGi
  OBVIOUS
<1> QED BY <1>1, <1>2, <1>3 DEF Init, TypeOK

\* Every step preserves the types; the counts towards w stay below w because
\* the frame that reaches w sends the acknowledgement.
LEMMA TypeStep == TypeOK /\ [Next]_vars => TypeOK'
<1> SUFFICES ASSUME TypeOK, [Next]_vars PROVE TypeOK'
  OBVIOUS
<1> USE NextSqType, FramesBuilt, ChannelTail, ChannelAppend
<1>1. CASE DataChange
  BY <1>1 DEF TypeOK, DataChange, server, client, api
<1>2. CASE SenderDiscard
  BY <1>2 DEF TypeOK, SenderDiscard, server, client, api
<1>3. CASE SenderTake
  BY <1>3 DEF TypeOK, SenderTake, server, client, api
<1>4. CASE SenderBlocked
  BY <1>4 DEF TypeOK, SenderBlocked, server, client, api
<1>5. CASE SenderPass
  BY <1>5 DEF TypeOK, SenderPass, server, client, api
<1>6. CASE SenderSend
  BY <1>6 DEF TypeOK, SenderSend, Batch, ServerSendsI, server, client, api
<1>7. CASE SenderUnsupported
  BY <1>7 DEF TypeOK, SenderUnsupported, Batch, server, client, api
<1>8. CASE SenderIdle
  BY <1>8 DEF TypeOK, SenderIdle, server, client, api
<1>9. CASE SenderTest
  BY <1>9 DEF TypeOK, SenderTest, UType, server, client, api
<1>10. CASE ServerReceiveGi
  BY <1>10 DEF TypeOK, ServerReceiveGi, ServerTakesI, ServerReceives, ServerSendsI, client, api
<1>11. CASE ServerIgnoreGi
  BY <1>11 DEF TypeOK, ServerIgnoreGi, ServerTakesI, ServerReceives, SFrameDue, sender, client, api
<1>12. CASE ServerReceiveS
  <2>1. PICK nr \in SeqNr : ServerReceives(SFrame(nr)) /\ s_last_ack_nr' = nr
    BY <1>12 DEF ServerReceiveS
  <2> QED BY <1>12, <2>1 DEF TypeOK, ServerReceiveS, ServerReceives, sender, client, api
<1>13. CASE ServerReceiveUAct
  <2>1. PICK u \in DOMAIN U_RESP :
          /\ ServerReceives(UFrame(u))
          /\ s_startdt' = (u = "STARTDT_ACT" \/ (s_startdt /\ u # "STOPDT_ACT"))
          /\ s2c' = Append(s2c, UFrame(U_RESP[u]))
    BY <1>13 DEF ServerReceiveUAct
  <2>2. s2c' \in Seq(Frame) /\ c2s' \in Seq(Frame)
    BY <2>1, ResponseType DEF TypeOK, ServerReceives
  <2>3. s_startdt' \in BOOLEAN
    BY <2>1, Zenon
  <2> QED BY <1>13, <2>2, <2>3 DEF TypeOK, ServerReceiveUAct, sender, client, api
<1>14. CASE ServerReceiveUCon
  BY <1>14 DEF TypeOK, ServerReceiveUCon, ServerReceives, server, sender, client, api
<1>15. CASE ClientSend
  BY <1>15 DEF TypeOK, ClientSend, server, sender, client, api
<1>16. CASE ClientTest
  BY <1>16 DEF TypeOK, ClientTest, UType, server, sender, client, api
<1>17. CASE ClientReceiveI
  BY <1>17 DEF TypeOK, ClientReceiveI, ClientReceives, SFrameDue, server, sender, client, api
<1>18. CASE ClientReceiveS
  BY <1>18 DEF TypeOK, ClientReceiveS, ClientReceives, server, sender, client, api
<1>19. CASE ClientReceiveU
  BY <1>19, ResponseType DEF TypeOK, ClientReceiveU, ClientReceives, server, sender, client, api
<1>20. CASE ApiStartdt
  BY <1>20 DEF TypeOK, ApiStartdt, UType, server, sender, client, api
<1>21. CASE ApiGiRead
  BY <1>21 DEF TypeOK, ApiGiRead, server, sender, client, api
<1>22. CASE ApiGiPut
  BY <1>22 DEF TypeOK, ApiGiPut, server, sender, client, api
<1>23. CASE UNCHANGED vars
  BY <1>23 DEF TypeOK, vars, server, sender, client, api
<1> QED
  BY <1>1, <1>2, <1>3, <1>4, <1>5, <1>6, <1>7, <1>8, <1>9, <1>10, <1>11, <1>12,
     <1>13, <1>14, <1>15, <1>16, <1>17, <1>18, <1>19, <1>20, <1>21, <1>22, <1>23
     DEF Next, Sender, ServerReceive, ClientReceive

-----------------------------------------------------------------------------
(* What is under way *)

\* Nothing is under way at the start.
LEMMA InitCounts == Init => ServerData /\ ClientData /\ Acknowledgements
<1> SUFFICES ASSUME Init PROVE ServerData /\ ClientData /\ Acknowledgements
  OBVIOUS
<1> DEFINE p == [n \in 0 .. 0 |-> 0]
<1>1. Len(<<>>) = 0 /\ 0 \in SeqNr
  OBVIOUS
<1>2. p \in [0 .. 0 -> SeqNr] /\ p[0] = 0
  BY <1>1
<1>3. \A strict \in BOOLEAN : Counter(<<>>, p, strict)
  BY <1>1, <1>2 DEF Counter
<1>4. \A strict \in BOOLEAN : Counts(<<>>, 0, 0, strict)
  BY <1>1, <1>2, <1>3 DEF Counts
<1>5. ServerData /\ ClientData
  BY <1>4 DEF Init, ServerData, ClientData
<1>6. Acknowledgements
  BY <1>1 DEF Init, Acknowledgements, LastAck, NoI
<1> QED BY <1>5, <1>6

\* The two server threads never put a wrong number on the wire: V(S) steps with
\* every I-frame, and the client's V(R) with every I-frame it takes.
LEMMA ServerDataStep == TypeOK /\ ServerData /\ [Next]_vars => ServerData'
<1> SUFFICES ASSUME TypeOK, ServerData, [Next]_vars PROVE ServerData'
  OBVIOUS
<1> USE FramesBuilt
<1>1. s2c \in Seq(Frame) /\ c_rec_sq \in SeqNr /\ s_send_sq \in SeqNr
      /\ s_rec_sq \in SeqNr /\ Counts(s2c, c_rec_sq, s_send_sq, TRUE)
  BY DEF TypeOK, ServerData
<1>2. ASSUME UNCHANGED <<s2c, c_rec_sq, s_send_sq>> PROVE ServerData'
  BY <1>1, <1>2 DEF ServerData
<1>3. ASSUME NEW nr \in SeqNr, ServerSendsI(nr), c_rec_sq' = c_rec_sq PROVE ServerData'
  <2>1. IFrame(s_send_sq, nr).ns = s_send_sq
    BY DEF IFrame
  <2> QED BY <1>1, <1>3, <2>1, CountAppend DEF ServerSendsI, ServerData
<1>4. ASSUME NEW f \in Frame, ~IsI(f), s2c' = Append(s2c, f),
             UNCHANGED <<c_rec_sq, s_send_sq>>
      PROVE  ServerData'
  BY <1>1, <1>4, CountAppend DEF ServerData
<1>5. ASSUME NEW f, ClientReceives(f), ~IsI(f), UNCHANGED <<c_rec_sq, s_send_sq>>
      PROVE  ServerData'
  BY <1>1, <1>5, CountTail DEF ClientReceives, ServerData
<1>6. CASE SenderSend
  BY <1>1, <1>3, <1>6 DEF SenderSend, client
<1>7. CASE SenderTest
  BY <1>2, <1>4, <1>7 DEF SenderTest, server, client, UType
<1>8. CASE ServerReceiveGi
  <2>1. s_rec_sq' \in SeqNr
    BY <1>1, <1>8, NextSqType DEF ServerReceiveGi, ServerTakesI
  <2> QED BY <1>3, <1>8, <2>1 DEF ServerReceiveGi, client
<1>9. CASE ServerIgnoreGi
  <2>1. s_rec_sq' \in SeqNr
    BY <1>1, <1>9, NextSqType DEF ServerIgnoreGi, ServerTakesI
  <2> QED BY <1>2, <1>4, <1>9, <2>1 DEF ServerIgnoreGi, client
<1>10. CASE ServerReceiveUAct
  BY <1>4, <1>10, ResponseType DEF ServerReceiveUAct, client
<1>11. CASE ClientReceiveI
  <2>1. PICK ns \in SeqNr, nr \in SeqNr : ClientReceives(IFrame(ns, nr))
    BY <1>11 DEF ClientReceiveI
  <2> QED BY <1>1, <1>11, <2>1, CountTail DEF ClientReceiveI, ClientReceives, ServerData, server
<1>12. CASE ClientReceiveS
  BY <1>5, <1>12 DEF ClientReceiveS, server
<1>13. CASE ClientReceiveU
  BY <1>5, <1>13 DEF ClientReceiveU, server
<1>14. CASE \/ DataChange \/ SenderDiscard \/ SenderTake \/ SenderBlocked \/ SenderPass
            \/ SenderUnsupported \/ SenderIdle \/ ServerReceiveS \/ ServerReceiveUCon
            \/ ClientSend \/ ClientTest \/ ApiStartdt \/ ApiGiRead \/ ApiGiPut
            \/ UNCHANGED vars
  BY <1>2, <1>14 DEF DataChange, SenderDiscard, SenderTake, SenderBlocked, SenderPass,
     SenderUnsupported, SenderIdle, ServerReceiveS, ServerReceiveUCon, ClientSend,
     ClientTest, ApiStartdt, ApiGiRead, ApiGiPut, vars, server, client
<1> QED
  BY <1>6, <1>7, <1>8, <1>9, <1>10, <1>11, <1>12, <1>13, <1>14
     DEF Next, Sender, ServerReceive, ClientReceive

\* The server counts every I-frame of the client, whatever number it carries.
LEMMA ClientDataStep == TypeOK /\ ClientData /\ [Next]_vars => ClientData'
<1> SUFFICES ASSUME TypeOK, ClientData, [Next]_vars PROVE ClientData'
  OBVIOUS
<1> USE FramesBuilt
<1>1. c2s \in Seq(Frame) /\ s_rec_sq \in SeqNr /\ c_send_sq \in SeqNr
      /\ c_rec_sq \in SeqNr /\ Counts(c2s, s_rec_sq, c_send_sq, FALSE)
  BY DEF TypeOK, ClientData
<1>2. ASSUME UNCHANGED <<c2s, s_rec_sq, c_send_sq>> PROVE ClientData'
  BY <1>1, <1>2 DEF ClientData
<1>3. ASSUME NEW f \in Frame, ~IsI(f), c2s' = Append(c2s, f),
             UNCHANGED <<s_rec_sq, c_send_sq>>
      PROVE  ClientData'
  BY <1>1, <1>3, CountAppend DEF ClientData
<1>4. ASSUME NEW f, ServerReceives(f), ~IsI(f), UNCHANGED <<s_rec_sq, c_send_sq>>
      PROVE  ClientData'
  BY <1>1, <1>4, CountTail DEF ServerReceives, ClientData
<1>5. ASSUME NEW ns \in SeqNr, NEW nr \in SeqNr, ServerTakesI(ns, nr), c_send_sq' = c_send_sq
      PROVE  ClientData'
  BY <1>1, <1>5, CountTail DEF ServerTakesI, ServerReceives, ClientData
<1>6. CASE ServerReceiveGi
  BY <1>5, <1>6 DEF ServerReceiveGi, client
<1>7. CASE ServerIgnoreGi
  BY <1>5, <1>7 DEF ServerIgnoreGi, client
<1>8. CASE ServerReceiveS
  BY <1>4, <1>8 DEF ServerReceiveS, client
<1>9. CASE ServerReceiveUAct
  <2>1. PICK u \in DOMAIN U_RESP : ServerReceives(UFrame(u))
    BY <1>9 DEF ServerReceiveUAct
  <2>2. u \in UType
    BY ResponseType DEF UType
  <2> QED BY <1>4, <1>9, <2>1, <2>2 DEF ServerReceiveUAct, client
<1>10. CASE ServerReceiveUCon
  BY <1>4, <1>10 DEF ServerReceiveUCon, server, client
<1>11. CASE ClientSend
  <2>1. Head(c_out_que) \in Frame
    BY <1>11, ChannelTail DEF ClientSend, TypeOK
  <2> QED BY <1>1, <1>11, <2>1, CountAppend DEF ClientSend, server, ClientData
<1>12. CASE ClientTest
  BY <1>3, <1>12 DEF ClientTest, server, client, UType
<1>13. CASE ClientReceiveI
  <2>1. c_rec_sq' \in SeqNr
    BY <1>1, <1>13, NextSqType DEF ClientReceiveI
  <2> QED BY <1>2, <1>3, <1>13, <2>1 DEF ClientReceiveI, server
<1>14. CASE ClientReceiveU
  BY <1>2, <1>3, <1>14, ResponseType DEF ClientReceiveU, server
<1>15. CASE \/ DataChange \/ Sender \/ ClientReceiveS
            \/ ApiStartdt \/ ApiGiRead \/ ApiGiPut \/ UNCHANGED vars
  BY <1>2, <1>15 DEF DataChange, Sender, SenderDiscard, SenderTake, SenderBlocked,
     SenderPass, SenderSend, SenderUnsupported, SenderIdle, SenderTest, ClientReceiveS,
     ApiStartdt, ApiGiRead, ApiGiPut, vars, server, client
<1> QED
  BY <1>6, <1>7, <1>8, <1>9, <1>10, <1>11, <1>12, <1>13, <1>14, <1>15
     DEF Next, ServerReceive, ClientReceive

\* A frame that carries no acknowledgement leaves the last one where it was.
LEMMA LastAckAppendOther ==
    ASSUME NEW chan \in Seq(Frame), NEW old, NEW new, LastAck(chan, old, new),
           NEW f \in Frame, ~IsI(f)
    PROVE  LastAck(Append(chan, f), old, new)
<1> DEFINE more == Append(chan, f)
<1>1. /\ Len(more) = Len(chan) + 1 /\ Len(chan) \in Nat
      /\ \A n \in 1 .. Len(chan) : more[n] = chan[n]
      /\ more[Len(chan) + 1] = f
  OBVIOUS
<1>2. NoI(more) => NoI(chan)
  BY <1>1 DEF NoI
<1>3. ASSUME NEW n \in 1 .. Len(more), IsI(more[n]),
             \A m \in n + 1 .. Len(more) : ~IsI(more[m])
      PROVE  more[n].nr = new
  <2>1. n \in 1 .. Len(chan) /\ more[n] = chan[n]
    BY <1>1, <1>3
  <2>2. \A m \in n + 1 .. Len(chan) : ~IsI(chan[m])
    BY <1>1, <1>3
  <2> QED BY <1>3, <2>1, <2>2 DEF LastAck
<1> QED BY <1>2, <1>3 DEF LastAck

\* An I-frame put at the end carries the last acknowledgement.
LEMMA LastAckAppendI ==
    ASSUME NEW chan \in Seq(Frame), NEW old, NEW new, NEW ns
    PROVE  LastAck(Append(chan, IFrame(ns, new)), old, new)
<1> DEFINE f    == IFrame(ns, new)
           more == Append(chan, f)
<1>1. /\ Len(more) = Len(chan) + 1 /\ Len(chan) \in Nat
      /\ more[Len(chan) + 1] = f /\ f.type = "I" /\ f.nr = new
  BY DEF IFrame
<1>2. ~NoI(more)
  BY <1>1 DEF NoI
<1>3. ASSUME NEW n \in 1 .. Len(more), \A m \in n + 1 .. Len(more) : ~IsI(more[m])
      PROVE  more[n].nr = new
  BY <1>1, <1>3 DEF IsI
<1> QED BY <1>2, <1>3 DEF LastAck

\* The receiver of an I-frame holds its acknowledgement afterwards.
LEMMA LastAckTail ==
    ASSUME NEW chan \in Seq(Frame), chan # <<>>, NEW old, NEW new, LastAck(chan, old, new)
    PROVE  LastAck(Tail(chan), IF IsI(Head(chan)) THEN Head(chan).nr ELSE old, new)
<1> DEFINE rest == Tail(chan)
<1>1. /\ Len(rest) = Len(chan) - 1 /\ Len(chan) \in Nat \ {0}
      /\ \A n \in 1 .. Len(rest) : rest[n] = chan[n + 1]
      /\ Head(chan) = chan[1]
  OBVIOUS
<1>2. ASSUME NEW n \in 1 .. Len(rest), \A m \in n + 1 .. Len(rest) : ~IsI(rest[m])
      PROVE  \A m \in n + 2 .. Len(chan) : ~IsI(chan[m])
  <2> TAKE m \in n + 2 .. Len(chan)
  <2>1. m - 1 \in n + 1 .. Len(rest) /\ rest[m - 1] = chan[m]
    BY <1>1
  <2> QED BY <1>2, <2>1
<1>3. ASSUME NEW n \in 1 .. Len(rest), IsI(rest[n]),
             \A m \in n + 1 .. Len(rest) : ~IsI(rest[m])
      PROVE  rest[n].nr = new
  <2>1. n + 1 \in 1 .. Len(chan) /\ \A m \in (n + 1) + 1 .. Len(chan) : ~IsI(chan[m])
    BY <1>1, <1>2, <1>3
  <2> QED BY <1>1, <1>3, <2>1 DEF LastAck
<1>4. ASSUME NoI(rest)
      PROVE  new = IF IsI(Head(chan)) THEN Head(chan).nr ELSE old
  <2>1. \A m \in 2 .. Len(chan) : ~IsI(chan[m])
    <3> TAKE m \in 2 .. Len(chan)
    <3>1. m - 1 \in 1 .. Len(rest) /\ rest[m - 1] = chan[m]
      BY <1>1
    <3> QED BY <1>4, <3>1 DEF NoI, IsI
  <2>2. CASE IsI(chan[1])
    <3>1. 1 \in 1 .. Len(chan) /\ \A m \in 1 + 1 .. Len(chan) : ~IsI(chan[m])
      BY <1>1, <2>1
    <3> QED BY <1>1, <2>2, <3>1 DEF LastAck
  <2>3. CASE ~IsI(chan[1])
    <3>1. NoI(chan)
      BY <1>1, <2>1, <2>3 DEF NoI, IsI
    <3> QED BY <1>1, <2>3, <3>1 DEF LastAck
  <2> QED BY <2>2, <2>3
<1> QED BY <1>3, <1>4 DEF LastAck

\* No step changes the configuration.
LEMMA AcceptedConstant == [Next]_vars => gi_accepted' = gi_accepted
<1> SUFFICES ASSUME [Next]_vars PROVE gi_accepted' = gi_accepted
  OBVIOUS
<1>1. CASE DataChange \/ Sender
  BY <1>1 DEF DataChange, Sender, SenderDiscard, SenderTake, SenderBlocked, SenderPass,
     SenderSend, SenderUnsupported, SenderIdle, SenderTest, api
<1>2. CASE ServerReceive
  BY <1>2 DEF ServerReceive, ServerReceiveGi, ServerIgnoreGi, ServerReceiveS,
     ServerReceiveUAct, ServerReceiveUCon, api
<1>3. CASE ClientSend \/ ClientTest \/ ClientReceive
  BY <1>3 DEF ClientSend, ClientTest, ClientReceive, ClientReceiveI, ClientReceiveS,
     ClientReceiveU, api
<1>4. CASE ApiStartdt \/ ApiGiRead \/ ApiGiPut \/ UNCHANGED vars
  BY <1>4 DEF ApiStartdt, ApiGiRead, ApiGiPut, vars, api
<1> QED BY <1>1, <1>2, <1>3, <1>4 DEF Next

\* Where interrogations are accepted every step of V(R) is answered by an
\* I-frame that carries it.
LEMMA AcknowledgementsStep ==
    TypeOK /\ Acknowledgements /\ [Next]_vars => Acknowledgements'
<1> SUFFICES ASSUME TypeOK, Acknowledgements, [Next]_vars, gi_accepted'
             PROVE  Acknowledgements'
  BY DEF Acknowledgements
<1>0. gi_accepted
  BY AcceptedConstant
<1> DEFINE NoS(chan) == \A n \in 1 .. Len(chan) : chan[n].type # "S"
           Held(chan, old, new) == NoS(chan) /\ LastAck(chan, old, new)
<1> USE FramesBuilt
<1>1. /\ s2c \in Seq(Frame) /\ s_rec_sq \in SeqNr /\ s_send_sq \in SeqNr
      /\ Held(s2c, c_last_ack_nr, s_rec_sq)
  BY <1>0 DEF TypeOK, Acknowledgements
<1>2. SUFFICES Held(s2c', c_last_ack_nr', s_rec_sq')
  BY DEF Acknowledgements
<1> HIDE DEF Held
<1>3. ASSUME NEW f \in Frame, f.type = "U", s2c' = Append(s2c, f),
             UNCHANGED <<c_last_ack_nr, s_rec_sq>>
      PROVE  Held(s2c', c_last_ack_nr', s_rec_sq')
  BY <1>1, <1>3, LastAckAppendOther DEF Held, IsI
<1>4. ASSUME NEW nr \in SeqNr, ServerSendsI(nr), s_rec_sq' = nr, c_last_ack_nr' = c_last_ack_nr
      PROVE  Held(s2c', c_last_ack_nr', s_rec_sq')
  <2>1. LastAck(s2c', c_last_ack_nr', s_rec_sq')
    BY <1>1, <1>4, LastAckAppendI DEF ServerSendsI
  <2>2. NoS(s2c')
    BY <1>1, <1>4 DEF ServerSendsI, IFrame, Held
  <2> QED BY <2>1, <2>2 DEF Held
<1>5. ASSUME NEW f, ClientReceives(f), s_rec_sq' = s_rec_sq,
             c_last_ack_nr' = IF IsI(f) THEN f.nr ELSE c_last_ack_nr
      PROVE  Held(s2c', c_last_ack_nr', s_rec_sq')
  <2>1. LastAck(s2c', c_last_ack_nr', s_rec_sq')
    BY <1>1, <1>5, LastAckTail DEF ClientReceives, Held
  <2>2. NoS(s2c')
    BY <1>1, <1>5 DEF ClientReceives, Held
  <2> QED BY <2>1, <2>2 DEF Held
<1>6. CASE SenderSend
  BY <1>1, <1>4, <1>6 DEF SenderSend, client
<1>7. CASE SenderTest
  <2>1. UFrame("TESTFR_ACT") \in Frame /\ UFrame("TESTFR_ACT").type = "U"
    BY DEF UFrame, UType
  <2> QED BY <1>1, <1>3, <1>7, <2>1 DEF SenderTest, server, client
<1>8. CASE ServerReceiveGi
  <2>1. s_rec_sq' \in SeqNr
    BY <1>1, <1>8, NextSqType DEF ServerReceiveGi, ServerTakesI
  <2> QED BY <1>4, <1>8, <2>1 DEF ServerReceiveGi, client
<1>9. CASE ServerIgnoreGi
  BY <1>0, <1>9 DEF ServerIgnoreGi
<1>10. CASE ServerReceiveUAct
  <2>1. PICK u \in DOMAIN U_RESP : s2c' = Append(s2c, UFrame(U_RESP[u]))
    BY <1>10 DEF ServerReceiveUAct
  <2>2. UFrame(U_RESP[u]) \in Frame /\ UFrame(U_RESP[u]).type = "U"
    BY ResponseType DEF UFrame
  <2> QED BY <1>3, <1>10, <2>1, <2>2 DEF ServerReceiveUAct, client
<1>11. CASE ClientReceiveI
  <2>1. PICK ns \in SeqNr, nr \in SeqNr :
          ClientReceives(IFrame(ns, nr)) /\ c_last_ack_nr' = nr
    BY <1>11 DEF ClientReceiveI
  <2>2. IFrame(ns, nr).nr = nr
    BY DEF IFrame
  <2> QED BY <1>5, <1>11, <2>1, <2>2 DEF ClientReceiveI, server
<1>12. CASE ClientReceiveS
  <2>1. PICK nr \in SeqNr : ClientReceives(SFrame(nr))
    BY <1>12 DEF ClientReceiveS
  <2>2. s2c # <<>> /\ s2c[1].type = "S"
    BY <1>1, <2>1 DEF ClientReceives, SFrame
  <2> QED BY <1>1, <2>2 DEF Held
<1>13. CASE ClientReceiveU
  BY <1>5, <1>13 DEF ClientReceiveU, server
<1>14. CASE \/ DataChange \/ SenderDiscard \/ SenderTake \/ SenderBlocked \/ SenderPass
            \/ SenderUnsupported \/ SenderIdle \/ ServerReceiveS \/ ServerReceiveUCon
            \/ ClientSend \/ ClientTest \/ ApiStartdt \/ ApiGiRead \/ ApiGiPut
            \/ UNCHANGED vars
  BY <1>1, <1>14 DEF DataChange, SenderDiscard, SenderTake, SenderBlocked, SenderPass,
     SenderUnsupported, SenderIdle, ServerReceiveS, ServerReceiveUCon, ClientSend,
     ClientTest, ApiStartdt, ApiGiRead, ApiGiPut, vars, server, client
<1> QED
  BY <1>6, <1>7, <1>8, <1>9, <1>10, <1>11, <1>12, <1>13, <1>14
     DEF Next, Sender, ServerReceive, ClientReceive

-----------------------------------------------------------------------------
(* The theorems *)

\* The invariant holds in every state: what is under way separates the
\* counters of the two ends.
THEOREM Invariance == Spec => []IInv
<1>1. Init => IInv
  BY InitType, InitCounts DEF IInv
<1>2. IInv /\ [Next]_vars => IInv'
  BY TypeStep, ServerDataStep, ClientDataStep, AcknowledgementsStep DEF IInv
<1> QED BY <1>1, <1>2, PTL DEF Spec

\* Every variable keeps its type; the counts of received frames stay below w.
THEOREM TypeCorrect == Spec => []TypeOK
<1>1. IInv => TypeOK
  BY DEF IInv
<1> QED BY <1>1, Invariance, PTL

\* process_frame never meets a sequence error: client_send and client_rec
\* share V(S) under seq_lock.
THEOREM FramesInSequence == Spec => []ServerFramesInSequence
<1>1. IInv => ServerFramesInSequence
  BY CountTail DEF IInv, TypeOK, ServerData, ServerFramesInSequence
<1> QED BY <1>1, Invariance, PTL

\* V(R) of the server agrees with V(S) of the client when nothing is under way.
THEOREM Counted == Spec => []InterrogationsCounted
<1>1. IInv => InterrogationsCounted
  BY CountNone DEF IInv, TypeOK, ClientData, InterrogationsCounted
<1> QED BY <1>1, Invariance, PTL

\* Every accepted interrogation is acknowledged.
THEOREM Acknowledged == Spec => []InterrogationsAcknowledged
<1>1. IInv => InterrogationsAcknowledged
  BY DEF IInv, Acknowledgements, LastAck, InterrogationsAcknowledged
<1> QED BY <1>1, Invariance, PTL

\* client_send can be blocked for ever only on a number that differs from the
\* last acknowledgement of the client: had it that one, fewer than w <= k frames
\* would be open.
THEOREM OnlyStaleAckStalls == Spec => []StallOnlyByStaleAck
<1>1. IInv => StallOnlyByStaleAck
  <2> SUFFICES ASSUME IInv, NoI(s2c), s_last_ack_nr = AckedByClient PROVE ~WindowFull
    BY DEF StallOnlyByStaleAck, Stalled
  <2>1. c_rec_sq = s_send_sq
    BY CountNone DEF IInv, TypeOK, ServerData
  <2>2. Unack = (s_send_sq - ((s_send_sq - c_rec_count) % SeqSize)) % SeqSize
    BY <2>1 DEF AckedByClient, Unack
  <2>3. s_send_sq \in SeqNr /\ c_rec_count \in 0 .. W - 1
    BY DEF IInv, TypeOK
  <2>4. Unack = c_rec_count
    BY <2>2, <2>3
  <2> QED BY <2>3, <2>4 DEF WindowFull
<1> QED BY <1>1, Invariance, PTL

-----------------------------------------------------------------------------
(* Distances between sequence numbers *)

\* V(S) steps: everything behind it is one further behind.
LEMMA BehindStep ==
    ASSUME NEW vs \in SeqNr, NEW nr \in SeqNr, Behind(vs, nr) < SeqSize - 1
    PROVE  Behind(NextSq(vs), nr) = Behind(vs, nr) + 1
BY DEF Behind, NextSq

\* The number that has just been used is one behind.
LEMMA BehindSelf ==
    ASSUME NEW vs \in SeqNr
    PROVE  Behind(vs, vs) = 0 /\ (SeqSize > 1 => Behind(NextSq(vs), vs) = 1)
BY DEF Behind, NextSq

\* V(R) steps towards V(S).
LEMMA BehindReceive ==
    ASSUME NEW vs \in SeqNr, NEW nr \in SeqNr, Behind(vs, nr) > 0
    PROVE  Behind(vs, NextSq(nr)) = Behind(vs, nr) - 1
BY DEF Behind, NextSq

\* The number acknowledged does not depend on when the client counted a frame.
LEMMA AckedWithCount ==
    ASSUME NEW nr \in SeqNr, NEW count \in 0 .. W - 1
    PROVE  (NextSq(nr) - (count + 1)) % SeqSize = (nr - count) % SeqSize
<1>1. CASE nr + 1 < SeqSize
  <2>1. NextSq(nr) = nr + 1
    BY <1>1 DEF NextSq
  <2> QED BY <2>1
<1>2. CASE nr + 1 = SeqSize
  <2>1. NextSq(nr) = 0
    BY <1>2 DEF NextSq
  <2>2. (0 - (count + 1)) % SeqSize = SeqSize - (count + 1)
    OBVIOUS
  <2>3. (nr - count) % SeqSize = SeqSize - (count + 1)
    BY <1>2
  <2> QED BY <2>1, <2>2, <2>3
<1> QED BY <1>1, <1>2

\* A sequence number is its own remainder.
LEMMA AckedAtOnce ==
    ASSUME NEW nr \in SeqNr
    PROVE  (nr - 0) % SeqSize = nr
OBVIOUS

\* A distance is a sequence number.
LEMMA BehindType ==
    ASSUME NEW vs \in SeqNr, NEW nr \in SeqNr
    PROVE  Behind(vs, nr) \in SeqNr
BY DEF Behind

-----------------------------------------------------------------------------
(* Data under way *)

\* Another frame than an I-frame does not disturb the order.
LEMMA DataOrderOther ==
    ASSUME NEW chan \in Seq(Frame), NEW vs, NEW vr, DataOrder(chan, vs, vr),
           NEW f \in Frame, ~IsI(f)
    PROVE  DataOrder(Append(chan, f), vs, vr)
<1>1. /\ Len(Append(chan, f)) = Len(chan) + 1 /\ Len(chan) \in Nat
      /\ \A n \in 1 .. Len(chan) : Append(chan, f)[n] = chan[n]
      /\ Append(chan, f)[Len(chan) + 1] = f
  OBVIOUS
<1>2. \A n \in 1 .. Len(Append(chan, f)) :
         IsI(Append(chan, f)[n]) => n \in 1 .. Len(chan) /\ Append(chan, f)[n] = chan[n]
  BY <1>1
<1> QED BY <1>2 DEF DataOrder

\* The newest I-frame carries V(S) and moves it one on.
LEMMA DataOrderSend ==
    ASSUME NEW chan \in Seq(Frame), NEW vs \in SeqNr, NEW vr \in SeqNr,
           DataOrder(chan, vs, vr), Behind(vs, vr) < SeqSize - 1,
           NEW f \in Frame, IsI(f), f.ns = vs
    PROVE  DataOrder(Append(chan, f), NextSq(vs), vr)
<1> DEFINE more == Append(chan, f)
<1>1. /\ Len(more) = Len(chan) + 1 /\ Len(chan) \in Nat
      /\ \A n \in 1 .. Len(chan) : more[n] = chan[n]
      /\ more[Len(chan) + 1] = f
  OBVIOUS
<1>2. Behind(vs, vr) \in SeqNr /\ Behind(NextSq(vs), vr) = Behind(vs, vr) + 1
      /\ Behind(NextSq(vs), vs) = 1
  BY BehindStep, BehindSelf, BehindType
<1>3. ASSUME NEW n \in 1 .. Len(chan), IsI(chan[n])
      PROVE  /\ Behind(vs, chan[n].ns) \in 1 .. Behind(vs, vr)
             /\ Behind(NextSq(vs), chan[n].ns) = Behind(vs, chan[n].ns) + 1
  <2>1. chan[n].ns \in SeqNr
    BY <1>3, FrameFields
  <2>2. Behind(vs, chan[n].ns) \in 1 .. Behind(vs, vr)
    BY <1>3 DEF DataOrder
  <2> QED BY <1>2, <2>1, <2>2, BehindStep
<1>4. ASSUME NEW n \in 1 .. Len(more), IsI(more[n])
      PROVE  Behind(NextSq(vs), more[n].ns) \in 1 .. Behind(NextSq(vs), vr)
  <2>1. CASE n = Len(chan) + 1
    BY <1>1, <1>2, <2>1
  <2>2. CASE n \in 1 .. Len(chan)
    BY <1>1, <1>2, <1>3, <1>4, <2>2
  <2> QED BY <1>1, <2>1, <2>2
<1>5. ASSUME NEW n \in 1 .. Len(more), NEW m \in 1 .. Len(more),
             n < m, IsI(more[n]), IsI(more[m])
      PROVE  Behind(NextSq(vs), more[m].ns) < Behind(NextSq(vs), more[n].ns)
  <2>1. n \in 1 .. Len(chan) /\ more[n] = chan[n]
    BY <1>1, <1>5
  <2>2. CASE m = Len(chan) + 1
    BY <1>1, <1>2, <1>3, <1>5, <2>1, <2>2
  <2>3. CASE m \in 1 .. Len(chan)
    <3>1. Behind(vs, chan[m].ns) < Behind(vs, chan[n].ns)
      BY <1>1, <1>5, <2>1, <2>3 DEF DataOrder
    <3> QED BY <1>1, <1>3, <1>5, <2>1, <2>3, <3>1
  <2> QED BY <1>1, <2>2, <2>3
<1> QED BY <1>4, <1>5 DEF DataOrder

\* Taking another frame than an I-frame does not disturb the order.
LEMMA DataOrderTail ==
    ASSUME NEW chan \in Seq(Frame), chan # <<>>, NEW vs, NEW vr, DataOrder(chan, vs, vr)
    PROVE  DataOrder(Tail(chan), vs, vr)
<1>1. /\ Len(Tail(chan)) = Len(chan) - 1 /\ Len(chan) \in Nat \ {0}
      /\ \A n \in 1 .. Len(Tail(chan)) : Tail(chan)[n] = chan[n + 1]
  OBVIOUS
<1>2. \A n \in 1 .. Len(Tail(chan)) :
         n + 1 \in 1 .. Len(chan) /\ Tail(chan)[n] = chan[n + 1]
  BY <1>1
<1>3. ASSUME NEW n \in 1 .. Len(Tail(chan)), NEW m \in 1 .. Len(Tail(chan)), n < m
      PROVE  n + 1 < m + 1
  BY <1>1, <1>3
<1> QED BY <1>2, <1>3 DEF DataOrder

\* An I-frame taken by the client was the oldest: V(R) may step past it.
LEMMA DataOrderReceive ==
    ASSUME NEW chan \in Seq(Frame), chan # <<>>,
           NEW vs \in SeqNr, NEW vr \in SeqNr, DataOrder(chan, vs, vr),
           IsI(Head(chan)), Head(chan).ns = vr
    PROVE  /\ Behind(vs, vr) > 0
           /\ DataOrder(Tail(chan), vs, NextSq(vr))
<1>1. /\ Len(Tail(chan)) = Len(chan) - 1 /\ Len(chan) \in Nat \ {0}
      /\ \A n \in 1 .. Len(Tail(chan)) : Tail(chan)[n] = chan[n + 1]
      /\ Head(chan) = chan[1]
  OBVIOUS
<1>2. 1 \in 1 .. Len(chan) /\ IsI(chan[1]) /\ chan[1].ns = vr
  BY <1>1
<1>3. Behind(vs, vr) \in 1 .. Behind(vs, vr)
  BY <1>2 DEF DataOrder
<1>4. Behind(vs, NextSq(vr)) = Behind(vs, vr) - 1 /\ Behind(vs, vr) \in SeqNr
  BY <1>3, BehindReceive, BehindType
<1>5. ASSUME NEW n \in 1 .. Len(Tail(chan)), IsI(Tail(chan)[n])
      PROVE  Behind(vs, Tail(chan)[n].ns) \in 1 .. Behind(vs, NextSq(vr))
  <2>1. n + 1 \in 1 .. Len(chan) /\ 1 < n + 1 /\ IsI(chan[n + 1])
    BY <1>1, <1>5
  <2>2. Behind(vs, chan[n + 1].ns) < Behind(vs, vr)
    BY <1>2, <2>1 DEF DataOrder
  <2>3. Behind(vs, chan[n + 1].ns) \in 1 .. Behind(vs, vr)
    BY <2>1 DEF DataOrder
  <2> QED BY <1>1, <1>4, <1>5, <2>2, <2>3
<1>6. DataOrder(Tail(chan), vs, vr)
  BY DataOrderTail
<1> QED BY <1>3, <1>4, <1>5, <1>6 DEF DataOrder

-----------------------------------------------------------------------------
(* Acknowledgements under way *)

\* Another frame than an S-frame does not disturb the order.
LEMMA AckOrderOther ==
    ASSUME NEW chan \in Seq(Frame), NEW vs, NEW acked, NEW last,
           AckOrder(chan, vs, acked, last), NEW f \in Frame, ~IsS(f)
    PROVE  AckOrder(Append(chan, f), vs, acked, last)
<1> DEFINE more == Append(chan, f)
<1>1. /\ Len(more) = Len(chan) + 1 /\ Len(chan) \in Nat
      /\ \A n \in 1 .. Len(chan) : more[n] = chan[n] /\ n \in 1 .. Len(more)
      /\ more[Len(chan) + 1] = f
  OBVIOUS
<1>2. \A n \in 1 .. Len(more) : IsS(more[n]) => n \in 1 .. Len(chan) /\ more[n] = chan[n]
  BY <1>1
<1>3. ASSUME NEW n \in 1 .. Len(more), IsS(more[n]),
             \A m \in n + 1 .. Len(more) : ~IsS(more[m])
      PROVE  more[n].nr = acked
  <2>1. \A m \in n + 1 .. Len(chan) : ~IsS(chan[m])
    BY <1>1, <1>3
  <2> QED BY <1>2, <1>3, <2>1 DEF AckOrder
<1>4. ASSUME \A n \in 1 .. Len(more) : ~IsS(more[n]) PROVE last = acked
  <2>1. \A n \in 1 .. Len(chan) : ~IsS(chan[n])
    BY <1>1, <1>4
  <2> QED BY <2>1 DEF AckOrder
<1> QED BY <1>2, <1>3, <1>4 DEF AckOrder

\* The client acknowledges up to new: nothing under way is newer.
LEMMA AckOrderSend ==
    ASSUME NEW chan \in Seq(Frame), NEW vs \in SeqNr, NEW acked \in SeqNr, NEW last \in SeqNr,
           AckOrder(chan, vs, acked, last),
           NEW new \in SeqNr, Behind(vs, new) <= Behind(vs, acked)
    PROVE  AckOrder(Append(chan, SFrame(new)), vs, new, last)
<1> DEFINE more == Append(chan, SFrame(new))
<1>1. /\ Len(more) = Len(chan) + 1 /\ Len(chan) \in Nat
      /\ \A n \in 1 .. Len(chan) : more[n] = chan[n]
      /\ more[Len(chan) + 1] = SFrame(new)
      /\ SFrame(new).nr = new /\ IsS(SFrame(new))
  BY FramesBuilt DEF SFrame, IsS
<1>2. /\ Behind(vs, new) \in SeqNr /\ Behind(vs, acked) \in SeqNr /\ Behind(vs, last) \in SeqNr
      /\ Behind(vs, acked) <= Behind(vs, last)
  BY BehindType DEF AckOrder
<1>3. ASSUME NEW n \in 1 .. Len(chan), IsS(chan[n])
      PROVE  /\ Behind(vs, chan[n].nr) \in SeqNr
             /\ Behind(vs, chan[n].nr) \in Behind(vs, acked) .. Behind(vs, last)
  <2>1. chan[n].nr \in SeqNr
    BY <1>3, FrameFields DEF IsS
  <2> QED BY <1>3, <2>1, BehindType DEF AckOrder
<1>4. ASSUME NEW n \in 1 .. Len(more), IsS(more[n])
      PROVE  Behind(vs, more[n].nr) \in Behind(vs, new) .. Behind(vs, last)
  <2>1. CASE n = Len(chan) + 1
    BY <1>1, <1>2, <2>1
  <2>2. CASE n \in 1 .. Len(chan)
    BY <1>1, <1>2, <1>3, <1>4, <2>2
  <2> QED BY <1>1, <2>1, <2>2
<1>5. ASSUME NEW n \in 1 .. Len(more), NEW m \in 1 .. Len(more),
             n < m, IsS(more[n]), IsS(more[m])
      PROVE  Behind(vs, more[m].nr) <= Behind(vs, more[n].nr)
  <2>1. n \in 1 .. Len(chan) /\ more[n] = chan[n]
    BY <1>1, <1>5
  <2>2. CASE m = Len(chan) + 1
    BY <1>1, <1>2, <1>3, <1>5, <2>1, <2>2
  <2>3. CASE m \in 1 .. Len(chan)
    BY <1>1, <1>5, <2>1, <2>3 DEF AckOrder
  <2> QED BY <1>1, <2>2, <2>3
<1>6. ASSUME NEW n \in 1 .. Len(more), \A m \in n + 1 .. Len(more) : ~IsS(more[m])
      PROVE  more[n].nr = new
  BY <1>1, <1>6
<1>7. ~ \A n \in 1 .. Len(more) : ~IsS(more[n])
  BY <1>1
<1>8. Behind(vs, new) <= Behind(vs, last)
  BY <1>2
<1> HIDE DEF more
<1>9. AckOrder(more, vs, new, last)
  BY <1>4, <1>5, <1>6, <1>7, <1>8 DEF AckOrder
<1> QED BY <1>9 DEF more

\* The server sends another I-frame: all acknowledgements are one further behind.
LEMMA AckOrderStep ==
    ASSUME NEW chan \in Seq(Frame), NEW vs \in SeqNr, NEW acked \in SeqNr, NEW last \in SeqNr,
           AckOrder(chan, vs, acked, last), Behind(vs, last) < SeqSize - 1
    PROVE  AckOrder(chan, NextSq(vs), acked, last)
<1>1. /\ Behind(vs, acked) \in SeqNr /\ Behind(vs, last) \in SeqNr
      /\ Behind(vs, acked) <= Behind(vs, last)
  BY BehindType DEF AckOrder
<1>2. /\ Behind(NextSq(vs), acked) = Behind(vs, acked) + 1
      /\ Behind(NextSq(vs), last) = Behind(vs, last) + 1
  BY <1>1, BehindStep
<1>3. ASSUME NEW n \in 1 .. Len(chan), IsS(chan[n])
      PROVE  /\ Behind(vs, chan[n].nr) \in Behind(vs, acked) .. Behind(vs, last)
             /\ Behind(NextSq(vs), chan[n].nr) = Behind(vs, chan[n].nr) + 1
  <2>1. chan[n].nr \in SeqNr
    BY <1>3, FrameFields DEF IsS
  <2>2. Behind(vs, chan[n].nr) \in Behind(vs, acked) .. Behind(vs, last)
    BY <1>3 DEF AckOrder
  <2> QED BY <1>1, <2>1, <2>2, BehindStep
<1>4. ASSUME NEW n \in 1 .. Len(chan), NEW m \in 1 .. Len(chan),
             n < m, IsS(chan[n]), IsS(chan[m])
      PROVE  Behind(NextSq(vs), chan[m].nr) <= Behind(NextSq(vs), chan[n].nr)
  <2>1. Behind(vs, chan[m].nr) <= Behind(vs, chan[n].nr)
    BY <1>4 DEF AckOrder
  <2> QED BY <1>1, <1>3, <1>4, <2>1
<1>5. \A n \in 1 .. Len(chan) : IsS(chan[n])
         => Behind(NextSq(vs), chan[n].nr) \in Behind(NextSq(vs), acked) .. Behind(NextSq(vs), last)
  BY <1>1, <1>2, <1>3
<1> QED BY <1>1, <1>2, <1>4, <1>5 DEF AckOrder

\* The server takes a frame: an S-frame is the oldest acknowledgement under way.
LEMMA AckOrderTail ==
    ASSUME NEW chan \in Seq(Frame), chan # <<>>,
           NEW vs \in SeqNr, NEW acked \in SeqNr, NEW last \in SeqNr,
           AckOrder(chan, vs, acked, last)
    PROVE  /\ ~IsS(Head(chan)) => AckOrder(Tail(chan), vs, acked, last)
           /\ IsS(Head(chan)) => /\ AckOrder(Tail(chan), vs, acked, Head(chan).nr)
                                 /\ Behind(vs, Head(chan).nr) <= Behind(vs, last)
<1> DEFINE rest == Tail(chan)
           now  == IF IsS(Head(chan)) THEN Head(chan).nr ELSE last
<1>1. /\ Len(rest) = Len(chan) - 1 /\ Len(chan) \in Nat \ {0}
      /\ \A n \in 1 .. Len(rest) : rest[n] = chan[n + 1] /\ n + 1 \in 1 .. Len(chan)
      /\ Head(chan) = chan[1] /\ 1 \in 1 .. Len(chan)
  OBVIOUS
<1>2. \A m \in 2 .. Len(chan) : m - 1 \in 1 .. Len(rest) /\ rest[m - 1] = chan[m]
  BY <1>1
<1>3. Behind(vs, acked) \in SeqNr /\ Behind(vs, last) \in SeqNr
  BY BehindType
<1>4. now \in SeqNr /\ Behind(vs, now) \in SeqNr
  <2>1. Head(chan) \in Frame
    BY <1>1
  <2>2. now \in SeqNr
    BY <2>1, FrameFields DEF IsS
  <2> QED BY <2>2, BehindType
<1>5. Behind(vs, now) \in Behind(vs, acked) .. Behind(vs, last)
  BY <1>1, <1>3 DEF AckOrder
<1>6. ASSUME NEW n \in 1 .. Len(rest), IsS(rest[n])
      PROVE  Behind(vs, rest[n].nr) \in Behind(vs, acked) .. Behind(vs, now)
  <2>1. n + 1 \in 1 .. Len(chan) /\ 1 < n + 1 /\ IsS(chan[n + 1]) /\ rest[n] = chan[n + 1]
    BY <1>1, <1>6
  <2>2. chan[n + 1].nr \in SeqNr /\ Behind(vs, chan[n + 1].nr) \in SeqNr
    <3>1. chan[n + 1] \in Frame
      BY <2>1
    <3>2. chan[n + 1].nr \in SeqNr
      BY <2>1, <3>1, FrameFields DEF IsS
    <3> QED BY <3>2, BehindType
  <2>3. Behind(vs, chan[n + 1].nr) \in Behind(vs, acked) .. Behind(vs, last)
    BY <2>1 DEF AckOrder
  <2>4. IsS(Head(chan)) => Behind(vs, chan[n + 1].nr) <= Behind(vs, now)
    BY <1>1, <2>1 DEF AckOrder
  <2> QED BY <1>3, <1>4, <2>1, <2>2, <2>3, <2>4
<1>7. ASSUME NEW n \in 1 .. Len(rest), NEW m \in 1 .. Len(rest),
             n < m, IsS(rest[n]), IsS(rest[m])
      PROVE  Behind(vs, rest[m].nr) <= Behind(vs, rest[n].nr)
  <2>1. n + 1 < m + 1
    BY <1>1, <1>7
  <2> QED BY <1>1, <1>7, <2>1 DEF AckOrder
<1>8. ASSUME NEW n \in 1 .. Len(rest), IsS(rest[n]),
             \A m \in n + 1 .. Len(rest) : ~IsS(rest[m])
      PROVE  rest[n].nr = acked
  <2>1. \A m \in (n + 1) + 1 .. Len(chan) : ~IsS(chan[m])
    <3> TAKE m \in (n + 1) + 1 .. Len(chan)
    <3>1. m \in 2 .. Len(chan) /\ m - 1 \in n + 1 .. Len(rest)
      BY <1>1
    <3> QED BY <1>2, <1>8, <3>1
  <2> QED BY <1>1, <1>8, <2>1 DEF AckOrder
<1>9. ASSUME \A n \in 1 .. Len(rest) : ~IsS(rest[n])
      PROVE  now = acked
  <2>1. \A m \in 2 .. Len(chan) : ~IsS(chan[m])
    BY <1>2, <1>9
  <2>2. CASE IsS(chan[1])
    <3>1. \A m \in 1 + 1 .. Len(chan) : ~IsS(chan[m])
      BY <2>1
    <3> QED BY <1>1, <2>2, <3>1 DEF AckOrder
  <2>3. CASE ~IsS(chan[1])
    <3>1. \A m \in 1 .. Len(chan) : ~IsS(chan[m])
      BY <1>1, <2>1, <2>3
    <3> QED BY <1>1, <2>3, <3>1 DEF AckOrder
  <2> QED BY <2>2, <2>3
<1>10. Behind(vs, acked) <= Behind(vs, now) /\ Behind(vs, now) <= Behind(vs, last)
  BY <1>3, <1>4, <1>5
<1>11. AckOrder(rest, vs, acked, now)
  BY <1>6, <1>7, <1>8, <1>9, <1>10 DEF AckOrder
<1> QED BY <1>10, <1>11

-----------------------------------------------------------------------------
(* The invariant of the windows *)

\* At the start all numbers are zero and nothing is under way.
LEMMA WInit == Init => WInv
<1> SUFFICES ASSUME Init PROVE WInv
  OBVIOUS
<1>1. s_send_sq = 0 /\ c_rec_sq = 0 /\ c_rec_count = 0 /\ s_last_ack_nr = 0
      /\ c2s = <<>> /\ s2c = <<>> /\ c_out_que = <<>> /\ gi_ns = None /\ s_pc = "get"
  BY DEF Init
<1>2. AckedByClient = 0 /\ Behind(0, 0) = 0 /\ Unack = 0
  BY <1>1 DEF AckedByClient, Behind, Unack
<1>3. NoGiYet
  BY <1>1 DEF NoGiYet, OnlyU, NoI
<1>4. Window
  BY <1>1, <1>2 DEF Window
<1>5. DataOrder(s2c, s_send_sq, c_rec_sq)
  BY <1>1 DEF DataOrder
<1>6. AckOrder(c2s, s_send_sq, AckedByClient, s_last_ack_nr)
  BY <1>1, <1>2 DEF AckOrder
<1> QED BY <1>3, <1>4, <1>5, <1>6 DEF WInv

\* The number that the client acknowledged last.
LEMMA AckedType == TypeOK => AckedByClient \in SeqNr /\ Unack = Behind(s_send_sq, s_last_ack_nr)
BY DEF TypeOK, AckedByClient, Unack, Behind

\* Without an interrogation the client puts only U-frames and S-frames on the
\* wire.
LEMMA NoGiStep == TypeOK /\ NoGiYet /\ gi_calls = 0 /\ [Next]_vars /\ gi_calls' = 0 => NoGiYet'
<1> SUFFICES ASSUME TypeOK, NoGiYet, gi_calls = 0, [Next]_vars, gi_calls' = 0
             PROVE  NoGiYet'
  OBVIOUS
<1>1. c2s \in Seq(Frame) /\ c_out_que \in Seq(Frame) /\ c_rec_sq \in SeqNr
      /\ gi_ns = None /\ OnlyU(c_out_que) /\ NoI(c2s)
  BY DEF TypeOK, NoGiYet
<1>2. ASSUME UNCHANGED <<gi_ns, c_out_que, c2s>> PROVE NoGiYet'
  BY <1>1, <1>2 DEF NoGiYet
<1>3. ASSUME NEW f \in Frame, f.type # "I", c2s' = Append(c2s, f) PROVE NoI(c2s')
  BY <1>1, <1>3 DEF NoI
<1>4. ASSUME NEW f, ServerReceives(f) PROVE NoI(c2s') /\ f.type # "I"
  BY <1>1, <1>4 DEF ServerReceives, NoI
<1>5. CASE DataChange \/ Sender \/ ClientReceiveS \/ UNCHANGED vars
  BY <1>2, <1>5 DEF DataChange, Sender, SenderDiscard, SenderTake, SenderBlocked, SenderPass,
     SenderSend, SenderUnsupported, SenderIdle, SenderTest, ClientReceiveS, vars, api, client
<1>6. CASE ServerReceiveGi \/ ServerIgnoreGi
  <2>1. PICK ns \in SeqNr, nr \in SeqNr : ServerReceives(IFrame(ns, nr))
    BY <1>6 DEF ServerReceiveGi, ServerIgnoreGi, ServerTakesI
  <2> QED BY <1>4, <2>1 DEF IFrame
<1>7. CASE ServerReceiveS \/ ServerReceiveUAct \/ ServerReceiveUCon
  <2>1. NoI(c2s')
    BY <1>4, <1>7 DEF ServerReceiveS, ServerReceiveUAct, ServerReceiveUCon
  <2>2. UNCHANGED <<gi_ns, c_out_que>>
    BY <1>7 DEF ServerReceiveS, ServerReceiveUAct, ServerReceiveUCon, api
  <2> QED BY <1>1, <2>1, <2>2 DEF NoGiYet
<1>8. CASE ClientSend
  <2>1. Head(c_out_que) \in Frame /\ Head(c_out_que).type # "I"
    BY <1>1, <1>8 DEF ClientSend, OnlyU
  <2>2. OnlyU(c_out_que')
    BY <1>1, <1>8 DEF ClientSend, OnlyU
  <2> QED BY <1>1, <1>3, <1>8, <2>1, <2>2 DEF ClientSend, api, NoGiYet
<1>9. CASE ClientTest
  <2>1. UFrame("TESTFR_ACT") \in Frame /\ UFrame("TESTFR_ACT").type # "I"
    BY FramesBuilt DEF UFrame, UType
  <2> QED BY <1>1, <1>3, <1>9, <2>1 DEF ClientTest, api, NoGiYet
<1>10. CASE ClientReceiveI
  <2>1. SFrame(c_rec_sq') \in Frame /\ SFrame(c_rec_sq').type # "I"
    BY <1>1, <1>10, NextSqType, FramesBuilt DEF ClientReceiveI, SFrame
  <2> QED BY <1>1, <1>2, <1>3, <1>10, <2>1 DEF ClientReceiveI, api, NoGiYet
<1>11. CASE ClientReceiveU
  <2>1. \A u \in UType : UFrame(u) \in Frame /\ UFrame(u).type # "I"
    BY FramesBuilt DEF UFrame
  <2> QED BY <1>1, <1>2, <1>3, <1>11, <2>1, ResponseType DEF ClientReceiveU, api, NoGiYet
<1>12. CASE ApiStartdt
  <2>1. UFrame("STARTDT_ACT") \in Frame /\ UFrame("STARTDT_ACT").type = "U"
    BY FramesBuilt DEF UFrame, UType
  <2>2. OnlyU(c_out_que')
    BY <1>1, <1>12, <2>1 DEF ApiStartdt, OnlyU
  <2> QED BY <1>1, <1>12, <2>2 DEF ApiStartdt, api, NoGiYet
<1>13. CASE ApiGiRead
  BY <1>13 DEF ApiGiRead
<1>14. CASE ApiGiPut
  BY <1>1, <1>14 DEF ApiGiPut
<1> QED
  BY <1>5, <1>6, <1>7, <1>8, <1>9, <1>10, <1>11, <1>12, <1>13, <1>14
     DEF Next, ServerReceive, ClientReceive

\* Without an interrogation every step keeps the numbers under way in order and
\* the window within k.
LEMMA WStep == TypeOK /\ ServerData /\ WInv /\ [Next]_vars => WInv'
<1> SUFFICES ASSUME TypeOK, ServerData, WInv, [Next]_vars, gi_calls' = 0
             PROVE  /\ NoGiYet' /\ Window'
                    /\ DataOrder(s2c, s_send_sq, c_rec_sq)'
                    /\ AckOrder(c2s, s_send_sq, AckedByClient, s_last_ack_nr)'
  BY DEF WInv
<1> DEFINE Data == DataOrder(s2c, s_send_sq, c_rec_sq)
           Acks == AckOrder(c2s, s_send_sq, AckedByClient, s_last_ack_nr)
<1>1. gi_calls = 0
  <2>1. gi_calls \in Nat
    BY DEF TypeOK
  <2>2. ApiGiRead => gi_calls' = gi_calls + 1
    BY DEF ApiGiRead
  <2>3. ~ApiGiRead => gi_calls' = gi_calls
    BY DEF Next, Sender, ServerReceive, ClientReceive, DataChange, SenderDiscard, SenderTake,
       SenderBlocked, SenderPass, SenderSend, SenderUnsupported, SenderIdle, SenderTest,
       ServerReceiveGi, ServerIgnoreGi, ServerReceiveS, ServerReceiveUAct, ServerReceiveUCon,
       ClientSend, ClientTest, ClientReceiveI, ClientReceiveS, ClientReceiveU, ApiStartdt,
       ApiGiPut, vars, api
  <2> QED BY <2>1, <2>2, <2>3
<1>2. /\ c2s \in Seq(Frame) /\ s2c \in Seq(Frame) /\ c_rec_count \in 0 .. W - 1
      /\ s_send_sq \in SeqNr /\ c_rec_sq \in SeqNr /\ s_last_ack_nr \in SeqNr
      /\ s_rec_sq \in SeqNr /\ AckedByClient \in SeqNr
      /\ Unack = Behind(s_send_sq, s_last_ack_nr)
      /\ Unack' = Behind(s_send_sq', s_last_ack_nr')
  BY AckedType DEF TypeOK, Unack, Behind
<1>3. NoGiYet /\ Window /\ Data /\ Acks
  BY <1>1 DEF WInv
<1>4. NoGiYet'
  BY <1>1, <1>3, NoGiStep
<1>5. /\ Behind(s_send_sq, c_rec_sq) \in SeqNr /\ Behind(s_send_sq, AckedByClient) \in SeqNr
      /\ Unack \in SeqNr /\ Behind(s_send_sq, AckedByClient) <= Unack
  BY <1>2, <1>3, BehindType DEF AckOrder
<1> HIDE DEF Data, Acks
<1>6. SUFFICES Window' /\ Data' /\ Acks'
  BY <1>4 DEF Data, Acks
<1>7. UNCHANGED <<s2c, s_send_sq, c_rec_sq>> => Data'
  BY <1>3 DEF Data
<1>8. ASSUME NEW f \in Frame, ~IsI(f), s2c' = Append(s2c, f), UNCHANGED <<s_send_sq, c_rec_sq>>
      PROVE  Data'
  BY <1>2, <1>3, <1>8, DataOrderOther DEF Data
<1>9. ASSUME NEW f, ClientReceives(f), UNCHANGED <<s_send_sq, c_rec_sq>> PROVE Data'
  BY <1>2, <1>3, <1>9, DataOrderTail DEF Data, ClientReceives
<1>10. UNCHANGED <<c2s, s_send_sq, c_rec_sq, c_rec_count, s_last_ack_nr>> => Acks'
  BY <1>3 DEF Acks, AckedByClient
<1>11. ASSUME NEW f \in Frame, ~IsS(f), c2s' = Append(c2s, f),
              UNCHANGED <<s_send_sq, c_rec_sq, c_rec_count, s_last_ack_nr>>
       PROVE  Acks'
  <2>1. AckedByClient' = AckedByClient
    BY <1>11 DEF AckedByClient
  <2> QED BY <1>2, <1>3, <1>11, <2>1, AckOrderOther DEF Acks
<1>12. ASSUME NEW f, ServerReceives(f), ~IsS(f),
              UNCHANGED <<s_send_sq, c_rec_sq, c_rec_count, s_last_ack_nr>>
       PROVE  Acks'
  <2>1. AckedByClient' = AckedByClient
    BY <1>12 DEF AckedByClient
  <2> QED BY <1>2, <1>3, <1>12, <2>1, AckOrderTail DEF Acks, ServerReceives
<1>13. ASSUME UNCHANGED <<s_send_sq, c_rec_sq, c_rec_count, s_last_ack_nr>>,
              s_pc' = "build" => s_pc = "build"
       PROVE  Window'
  BY <1>3, <1>13 DEF Window, AckedByClient, Unack
<1>14. CASE SenderPass
  <2>1. UNCHANGED <<s_send_sq, c_rec_sq, c_rec_count, s_last_ack_nr, c2s, s2c>> /\ Unack < K
    BY <1>2, <1>5, <1>14 DEF SenderPass, server, client, WindowFull
  <2>2. Window'
    BY <1>3, <2>1 DEF Window, AckedByClient, Unack
  <2> QED BY <1>7, <1>10, <2>1, <2>2
<1>15. CASE SenderSend
  <2>1. /\ s2c' = Append(s2c, IFrame(s_send_sq, s_rec_sq)) /\ s_send_sq' = NextSq(s_send_sq)
        /\ s_pc = "build" /\ s_pc' = "get"
        /\ UNCHANGED <<c2s, s_last_ack_nr, c_rec_sq, c_rec_count>>
    BY <1>15 DEF SenderSend, ServerSendsI, client
  <2>2. Unack < K /\ Unack < SeqSize - 1 /\ AckedByClient' = AckedByClient
    BY <1>3, <1>5, <2>1 DEF Window, AckedByClient
  <2>3. Behind(s_send_sq, c_rec_sq) < SeqSize - 1 /\ Behind(s_send_sq, AckedByClient) < SeqSize - 1
    BY <1>2, <1>3, <1>5, <2>2 DEF Window
  <2>4. /\ Unack' = Unack + 1
        /\ Behind(s_send_sq', c_rec_sq) = Behind(s_send_sq, c_rec_sq) + 1
        /\ Behind(s_send_sq', AckedByClient) = Behind(s_send_sq, AckedByClient) + 1
    BY <1>2, <2>1, <2>2, <2>3, BehindStep
  <2>5. Window'
    <3>1. Unack' <= K /\ s_pc' # "build"
      BY <1>5, <2>1, <2>2, <2>4
    <3>2. Behind(s_send_sq', AckedByClient') = Behind(s_send_sq', c_rec_sq') + c_rec_count'
      BY <1>2, <1>3, <1>5, <2>1, <2>2, <2>4 DEF Window
    <3> QED BY <3>1, <3>2 DEF Window
  <2>6. Data'
    <3>1. IFrame(s_send_sq, s_rec_sq) \in Frame /\ IsI(IFrame(s_send_sq, s_rec_sq))
          /\ IFrame(s_send_sq, s_rec_sq).ns = s_send_sq
      BY <1>2, FramesBuilt DEF IFrame
    <3> QED BY <1>2, <1>3, <2>1, <2>3, <3>1, DataOrderSend DEF Data
  <2>7. Acks'
    BY <1>2, <1>3, <2>1, <2>2, AckOrderStep DEF Acks
  <2> QED BY <2>5, <2>6, <2>7
<1>16. CASE SenderTest
  <2>1. UFrame("TESTFR_ACT") \in Frame /\ ~IsI(UFrame("TESTFR_ACT"))
    BY FramesBuilt DEF UType
  <2> QED BY <1>7, <1>8, <1>10, <1>13, <1>16, <2>1 DEF SenderTest, server, client
<1>17. CASE ServerReceiveGi \/ ServerIgnoreGi
  <2>1. PICK ns \in SeqNr, nr \in SeqNr : ServerReceives(IFrame(ns, nr))
    BY <1>17 DEF ServerReceiveGi, ServerIgnoreGi, ServerTakesI
  <2>2. c2s # <<>> /\ c2s[1].type = "I" /\ 1 \in 1 .. Len(c2s)
    BY <1>2, <2>1 DEF ServerReceives, IFrame
  <2> QED BY <1>3, <2>2 DEF NoGiYet, NoI
<1>18. CASE ServerReceiveS
  <2>1. PICK nr \in SeqNr : ServerReceives(SFrame(nr)) /\ s_last_ack_nr' = nr
    BY <1>18 DEF ServerReceiveS
  <2>2. /\ UNCHANGED <<s_send_sq, c_rec_sq, c_rec_count, s2c, s_pc>>
        /\ AckedByClient' = AckedByClient
    BY <1>18 DEF ServerReceiveS, client, sender, AckedByClient
  <2>3. /\ c2s # <<>> /\ c2s' = Tail(c2s) /\ Head(c2s) = SFrame(nr)
        /\ IsS(SFrame(nr)) /\ SFrame(nr).nr = nr
    BY <2>1 DEF ServerReceives, SFrame, IsS
  <2>4. /\ AckOrder(c2s', s_send_sq, AckedByClient, nr)
        /\ Behind(s_send_sq, nr) <= Behind(s_send_sq, s_last_ack_nr)
    BY <1>2, <1>3, <2>3, AckOrderTail DEF Acks
  <2>5. Acks' /\ Data'
    BY <1>7, <2>1, <2>2, <2>4 DEF Acks
  <2>6. Unack' <= Unack /\ Unack' \in SeqNr
    BY <1>2, <2>1, <2>2, <2>4, BehindType
  <2>7. Window'
    BY <1>2, <1>3, <1>5, <2>2, <2>6 DEF Window
  <2> QED BY <2>5, <2>7
<1>19. CASE ServerReceiveUAct
  <2>1. PICK u \in DOMAIN U_RESP : ServerReceives(UFrame(u)) /\ s2c' = Append(s2c, UFrame(U_RESP[u]))
    BY <1>19 DEF ServerReceiveUAct
  <2>2. /\ ~IsS(UFrame(u)) /\ UFrame(U_RESP[u]) \in Frame /\ ~IsI(UFrame(U_RESP[u]))
    BY FramesBuilt, ResponseType DEF UFrame, IsS
  <2> QED BY <1>8, <1>12, <1>13, <1>19, <2>1, <2>2 DEF ServerReceiveUAct, client, sender
<1>20. CASE ServerReceiveUCon
  <2>1. PICK u \in UType : ServerReceives(UFrame(u))
    BY <1>20 DEF ServerReceiveUCon
  <2>2. ~IsS(UFrame(u))
    BY DEF UFrame, IsS
  <2> QED BY <1>7, <1>12, <1>13, <1>20, <2>1, <2>2 DEF ServerReceiveUCon, server, client, sender
<1>21. CASE ClientSend
  <2>1. /\ c_out_que # <<>> /\ c_out_que \in Seq(Frame) /\ OnlyU(c_out_que)
    BY <1>3, <1>21 DEF ClientSend, TypeOK, NoGiYet
  <2>2. Head(c_out_que) \in Frame /\ ~IsS(Head(c_out_que))
    BY <2>1 DEF OnlyU, IsS
  <2> QED BY <1>7, <1>11, <1>13, <1>21, <2>2 DEF ClientSend, server, sender
<1>22. CASE ClientTest
  <2>1. UFrame("TESTFR_ACT") \in Frame /\ ~IsS(UFrame("TESTFR_ACT"))
    BY FramesBuilt DEF UFrame, UType, IsS
  <2> QED BY <1>7, <1>11, <1>13, <1>22, <2>1 DEF ClientTest, server, sender, client
<1>23. CASE ClientReceiveI
  <2>1. PICK ns \in SeqNr, nr \in SeqNr : ClientReceives(IFrame(ns, nr))
    BY <1>23 DEF ClientReceiveI
  <2>2. /\ s2c # <<>> /\ s2c' = Tail(s2c) /\ IsI(Head(s2c))
        /\ c_rec_sq' = NextSq(c_rec_sq)
        /\ UNCHANGED <<s_send_sq, s_last_ack_nr, s_pc>>
    BY <1>2, <1>23, <2>1, FramesBuilt DEF ClientReceiveI, ClientReceives, server, sender
  <2>3. Head(s2c).ns = c_rec_sq
    BY <1>2, <2>2, CountTail DEF ServerData
  <2>4. Behind(s_send_sq, c_rec_sq) > 0 /\ DataOrder(s2c', s_send_sq, NextSq(c_rec_sq))
    BY <1>2, <1>3, <2>2, <2>3, DataOrderReceive DEF Data
  <2>5. /\ Behind(s_send_sq, c_rec_sq') = Behind(s_send_sq, c_rec_sq) - 1
        /\ c_rec_sq' \in SeqNr
    BY <1>2, <2>2, <2>4, BehindReceive, NextSqType
  <2>6. Data'
    BY <2>2, <2>4 DEF Data
  <2>7. CASE SFrameDue(c_rec_count + 1)
    <3>1. c_rec_count' = 0 /\ c2s' = Append(c2s, SFrame(c_rec_sq'))
      BY <1>23, <2>7 DEF ClientReceiveI
    <3>2. AckedByClient' = c_rec_sq'
      BY <2>5, <3>1, AckedAtOnce DEF AckedByClient
    <3>3. Behind(s_send_sq, c_rec_sq') <= Behind(s_send_sq, AckedByClient)
      BY <1>2, <1>3, <1>5, <2>5 DEF Window
    <3>4. Acks'
      BY <1>2, <1>3, <2>2, <2>5, <3>1, <3>2, <3>3, AckOrderSend DEF Acks
    <3>5. Window'
      BY <1>3, <1>5, <2>2, <2>5, <3>1, <3>2 DEF Window, Unack
    <3> QED BY <2>6, <3>4, <3>5
  <2>8. CASE ~SFrameDue(c_rec_count + 1)
    <3>1. c_rec_count' = c_rec_count + 1 /\ c2s' = c2s
      BY <1>23, <2>8 DEF ClientReceiveI
    <3>2. AckedByClient' = AckedByClient
      BY <1>2, <2>2, <3>1, AckedWithCount DEF AckedByClient
    <3>3. Acks'
      BY <1>3, <2>2, <3>1, <3>2 DEF Acks
    <3>4. Window'
      BY <1>2, <1>3, <1>5, <2>2, <2>5, <3>1, <3>2 DEF Window, Unack
    <3> QED BY <2>6, <3>3, <3>4
  <2> QED BY <2>7, <2>8
<1>24. CASE ClientReceiveS
  BY <1>9, <1>10, <1>13, <1>24 DEF ClientReceiveS, server, sender
<1>25. CASE ClientReceiveU
  <2>1. PICK u \in UType :
          /\ ClientReceives(UFrame(u))
          /\ c2s' = IF u = "TESTFR_ACT" THEN Append(c2s, UFrame(U_RESP[u])) ELSE c2s
    BY <1>25 DEF ClientReceiveU
  <2>2. u = "TESTFR_ACT" => UFrame(U_RESP[u]) \in Frame /\ ~IsS(UFrame(U_RESP[u]))
    BY FramesBuilt, ResponseType DEF UFrame, IsS
  <2> QED BY <1>9, <1>10, <1>11, <1>13, <1>25, <2>1, <2>2 DEF ClientReceiveU, server, sender
<1>26. CASE ApiGiRead
  BY <1>1, <1>26 DEF ApiGiRead
<1>27. CASE \/ DataChange \/ SenderDiscard \/ SenderTake \/ SenderBlocked
            \/ SenderUnsupported \/ SenderIdle \/ ApiStartdt \/ ApiGiPut \/ UNCHANGED vars
  <2>1. /\ UNCHANGED <<s_send_sq, c_rec_sq, c_rec_count, s_last_ack_nr, s2c, c2s>>
        /\ s_pc' = "build" => s_pc = "build"
    BY <1>27 DEF DataChange, SenderDiscard, SenderTake, SenderBlocked, SenderUnsupported,
       SenderIdle, ApiStartdt, ApiGiPut, vars, server, sender, client
  <2> QED BY <1>7, <1>10, <1>13, <2>1
<1> QED
  BY <1>14, <1>15, <1>16, <1>17, <1>18, <1>19, <1>20, <1>21, <1>22, <1>23, <1>24,
     <1>25, <1>26, <1>27 DEF Next, Sender, ServerReceive, ClientReceive

\* Until the first interrogation at most k I-frames are unacknowledged, and a
\* full window has an acknowledgement coming.
THEOREM WindowsSound == Spec => []WindowSound
<1>1. Init => WInv
  BY WInit
<1>2. IInv /\ WInv /\ [Next]_vars => WInv'
  BY WStep DEF IInv
<1>3. WInv /\ StallOnlyByStaleAck => WindowSound
  <2> SUFFICES ASSUME WInv, StallOnlyByStaleAck, gi_calls = 0 PROVE Unack <= K /\ ~Stalled
    BY DEF WindowSound
  <2>1. Unack <= K
    BY DEF WInv, Window
  <2>2. ASSUME Stalled PROVE FALSE
    <3>1. \A n \in 1 .. Len(c2s) : ~IsS(c2s[n])
      BY <2>2 DEF Stalled, OnlyU, IsS
    <3>2. s_last_ack_nr = AckedByClient
      BY <3>1 DEF WInv, AckOrder
    <3> QED BY <2>2, <3>2 DEF StallOnlyByStaleAck
  <2> QED BY <2>1, <2>2
<1> QED BY <1>1, <1>2, <1>3, Invariance, OnlyStaleAckStalls, PTL DEF Spec
=============================================================================
