---------------------------- MODULE SessionInv ----------------------------
(***************************************************************************)
(* The inductive invariant of Session.  The safety properties of Session   *)
(* speak of what is at the head of a channel or of an empty channel; they  *)
(* are preserved only because of what is further back, and that is what    *)
(* the parts below describe.                                               *)
(***************************************************************************)
EXTENDS Session

\* The receiver's counter in front of each frame of chan (p[0] now, p[n] after
\* n frames) takes one step for every I-frame and none for the others.  When
\* strict, every I-frame carries the number that the receiver will expect.
Counter(chan, p, strict) ==
    /\ \A i, j \in 0 .. Len(chan) :
          i <= j /\ (\A n \in i + 1 .. j : ~IsI(chan[n])) => p[i] = p[j]
    /\ \A n \in 1 .. Len(chan) :
          IsI(chan[n]) => /\ p[n] = NextSq(p[n - 1])
                          /\ strict => chan[n].ns = p[n - 1]

Counts(chan, from, to, strict) ==
    \E p \in [0 .. Len(chan) -> SeqNr] :
        p[0] = from /\ p[Len(chan)] = to /\ Counter(chan, p, strict)

\* what is under way is exactly what separates V(S) from the peer's V(R)
ServerData == Counts(s2c, c_rec_sq, s_send_sq, TRUE)
ClientData == Counts(c2s, s_rec_sq, c_send_sq, FALSE)

\* the last I-frame of chan carries the acknowledgement new; if there is none,
\* the receiver holds it already
LastAck(chan, old, new) ==
    /\ NoI(chan) => old = new
    /\ \A n \in 1 .. Len(chan) :
          IsI(chan[n]) /\ (\A m \in n + 1 .. Len(chan) : ~IsI(chan[m])) => chan[n].nr = new

Acknowledgements ==
    gi_accepted => /\ \A n \in 1 .. Len(s2c) : s2c[n].type # "S"
                  /\ LastAck(s2c, c_last_ack_nr, s_rec_sq)

IInv == TypeOK /\ ServerData /\ ClientData /\ Acknowledgements

-----------------------------------------------------------------------------
(* Without interrogations: the windows *)

\* how far the number nr is behind the V(S) vs
Behind(vs, nr) == (vs - nr) % SeqSize

IsS(f) == f.type = "S"

\* I-frames reach the client in the order of their numbers, none older than its
\* V(R) and none as new as the server's V(S)
DataOrder(chan, vs, vr) ==
    /\ \A n \in 1 .. Len(chan) :
          IsI(chan[n]) => Behind(vs, chan[n].ns) \in 1 .. Behind(vs, vr)
    /\ \A n, m \in 1 .. Len(chan) :
          n < m /\ IsI(chan[n]) /\ IsI(chan[m])
              => Behind(vs, chan[m].ns) < Behind(vs, chan[n].ns)

\* acknowledgements reach the server in order, from the one it holds (last) to
\* the client's newest (acked)
AckOrder(chan, vs, acked, last) ==
    /\ \A n \in 1 .. Len(chan) :
          IsS(chan[n]) => Behind(vs, chan[n].nr) \in Behind(vs, acked) .. Behind(vs, last)
    /\ \A n, m \in 1 .. Len(chan) :
          n < m /\ IsS(chan[n]) /\ IsS(chan[m])
              => Behind(vs, chan[m].nr) <= Behind(vs, chan[n].nr)
    /\ \A n \in 1 .. Len(chan) :
          IsS(chan[n]) /\ (\A m \in n + 1 .. Len(chan) : ~IsS(chan[m]))
              => chan[n].nr = acked
    /\ (\A n \in 1 .. Len(chan) : ~IsS(chan[n])) => last = acked
    /\ Behind(vs, acked) <= Behind(vs, last)

Window ==
    /\ Behind(s_send_sq, AckedByClient) = Behind(s_send_sq, c_rec_sq) + c_rec_count
    /\ Unack <= K
    /\ s_pc = "build" => Unack < K

NoGiYet == gi_ns = None /\ OnlyU(c_out_que) /\ NoI(c2s)

WInv ==
    gi_calls = 0 => /\ NoGiYet /\ Window
                    /\ DataOrder(s2c, s_send_sq, c_rec_sq)
                    /\ AckOrder(c2s, s_send_sq, AckedByClient, s_last_ack_nr)
=============================================================================
