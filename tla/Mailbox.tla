------------------------------ MODULE Mailbox ------------------------------
(***************************************************************************)
(* What a subscriber of the data storage is promised about its events,     *)
(* without saying in which order: an event that is put once is taken once, *)
(* either to be delivered or, while data transfer is off, when the type    *)
(* has no encoding, or when the sender of the session fails, to be dropped.*)
(***************************************************************************)
EXTENDS Integers

CONSTANT Events

VARIABLES pending, delivered, dropped

mailbox == <<pending, delivered, dropped>>

Init == pending = {} /\ delivered = {} /\ dropped = {}

\* an event is new when it is put
Put(e) ==
    /\ e \notin pending \union delivered \union dropped
    /\ pending' = pending \union {e}
    /\ UNCHANGED <<delivered, dropped>>

\* a frame carries a batch
Deliver(batch) ==
    /\ batch # {} /\ batch \subseteq pending
    /\ pending' = pending \ batch
    /\ delivered' = delivered \union batch
    /\ UNCHANGED dropped

Drop(batch) ==
    /\ batch # {} /\ batch \subseteq pending
    /\ pending' = pending \ batch
    /\ dropped' = dropped \union batch
    /\ UNCHANGED delivered

Next ==
    \/ \E e \in Events : Put(e)
    \/ \E batch \in SUBSET pending : Deliver(batch) \/ Drop(batch)

Spec == Init /\ [][Next]_mailbox
=============================================================================
