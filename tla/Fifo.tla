-------------------------------- MODULE Fifo --------------------------------
(***************************************************************************)
(* What a Channel<T> of polyloft.concurrent promises: a queue of at most   *)
(* capacity accepted messages, handed over one by one in the order they    *)
(* were accepted, each to one receiver, and none accepted once it is       *)
(* closed.  A channel of capacity 0 only passes messages from a sender     *)
(* straight to a receiver.                                                 *)
(***************************************************************************)
EXTENDS Naturals, Sequences

CONSTANTS Messages, Capacities

VARIABLES capacity,    \* chosen once, when the channel is made
          sent,        \* the messages accepted, in order
          received,    \* the messages handed over, in order
          closed

vars == <<capacity, sent, received, closed>>

Init ==
    /\ capacity \in Capacities
    /\ sent = <<>>
    /\ received = <<>>
    /\ closed = FALSE

\* Accept a message and keep it.
Put(m) ==
    /\ ~closed
    /\ Len(sent) < Len(received) + capacity
    /\ sent' = Append(sent, m)
    /\ UNCHANGED <<capacity, received, closed>>

\* Hand over the oldest message that is kept.
Take ==
    /\ Len(received) < Len(sent)
    /\ received' = Append(received, sent[Len(received) + 1])
    /\ UNCHANGED <<capacity, sent, closed>>

\* Accept a message in the step that hands over the oldest: the new one itself when
\* none is kept.
PutTake(m) ==
    /\ ~closed
    /\ sent' = Append(sent, m)
    /\ received' = Append(received, sent'[Len(received) + 1])
    /\ UNCHANGED <<capacity, closed>>

Close ==
    /\ ~closed
    /\ closed' = TRUE
    /\ UNCHANGED <<capacity, sent, received>>

Next == Take \/ Close \/ \E m \in Messages : Put(m) \/ PutTake(m)

Spec == Init /\ [][Next]_vars
=============================================================================
