----------------------------- MODULE FrameBuffer -----------------------------
(***************************************************************************)
(* The receive loops of client_rec (server) and recv_loop (client): bytes  *)
(* come in pieces that have nothing to do with the frames, the loop skips  *)
(* to a start byte and cuts complete frames off.  Both loops do the same,  *)
(* only the server limits its buffer.                                      *)
(***************************************************************************)
EXTENDS Codec

CONSTANTS
    Pieces,     \* bound: how many bytes a recv can return (the code: up to 1024)
    MaxRxBuf    \* conf.max_rx_buf

VARIABLES
    stream,     \* bytes that were sent and not yet received
    rx_buf,     \* buffer of client_rec, state.rx_buf of the client
    rec         \* "recv" or, inside of the inner loop, "loop"; "overflow" is its end

buffer == <<stream, rx_buf, rec>>

-----------------------------------------------------------------------------
BufferInit == stream = <<>> /\ rx_buf = <<>> /\ rec = "recv"

\* any thread of the peer puts whole frames onto the stream (sock_lock)
Transmit(bytes) ==
    /\ stream' = stream \o bytes
    /\ UNCHANGED <<rx_buf, rec>>

Receive(limited) ==
    /\ rec = "recv"
    /\ \E n \in Pieces :
          /\ n <= Len(stream)
          /\ rx_buf' = rx_buf \o SubSeq(stream, 1, n)
          /\ stream' = SubSeq(stream, n + 1, Len(stream))
    /\ rec' = IF limited /\ Len(rx_buf') > MaxRxBuf THEN "overflow" ELSE "loop"

\* the buffer without what comes before its first start byte
FirstStart == SelectInSeq(rx_buf, LAMBDA byte : byte = Start)
Aligned    == SubSeq(rx_buf, FirstStart, Len(rx_buf))
FrameLen(b) == b[2] + 2

FaultDiscard ==
    /\ rec = "loop" /\ Len(rx_buf) >= 6 /\ FirstStart = 0
    /\ UNCHANGED buffer
Discard ==
    /\ rec = "loop" /\ Len(rx_buf) >= 6 /\ FirstStart = 0
    /\ rx_buf' = <<>> /\ rec' = "recv"
    /\ UNCHANGED stream

Complete ==
    /\ Len(rx_buf) >= 6 /\ FirstStart # 0
    /\ Len(Aligned) >= 2 /\ Len(Aligned) >= FrameLen(Aligned)

\* the end of the inner loop; with six bytes or more the buffer was aligned
WaitForMore ==
    /\ rec = "loop" /\ ~Complete
    /\ Len(rx_buf) >= 6 => FirstStart # 0
    /\ rx_buf' = IF Len(rx_buf) < 6 THEN rx_buf ELSE Aligned
    /\ rec' = "recv"
    /\ UNCHANGED stream

CutFrame == SubSeq(Aligned, 1, FrameLen(Aligned))

FaultCut ==
    /\ rec = "loop" /\ Complete
    /\ rx_buf' = SubSeq(Aligned, FrameLen(Aligned) + 1, Len(Aligned))
    /\ rec' = "recv"
    /\ UNCHANGED stream
Cut ==
    /\ rec = "loop" /\ Complete
    /\ rx_buf' = SubSeq(Aligned, FrameLen(Aligned) + 1, Len(Aligned))
    /\ UNCHANGED <<rec, stream>>

\* what the receiving thread does with its buffer
BufferStep(limited) == Receive(limited) \/ Discard \/ WaitForMore \/ Cut
=============================================================================
