------------------------------ MODULE Channels ------------------------------
(***************************************************************************)
(* channelHandle of internal/runtime/concurrent_module.go: send, receive   *)
(* and close over a Go channel.  send looks at closed under the mutex,     *)
(* releases it and only then sends, so close can come between.             *)
(*                                                                         *)
(* The Go channel itself (its buffer, the goroutines parked in a send or a *)
(* receive, the panic of a send to a closed channel, which nothing in the  *)
(* code recovers) is external: internal/runtime only uses it.              *)
(***************************************************************************)
EXTENDS Integers, Sequences

CONSTANTS Callers,     \* the Polyloft threads that share the channel
          Requested,   \* the capacities channel_new may be asked for
          MaxSends     \* bound: sends per caller

\* What the constants are.
BoundsAssumption == Requested \subseteq Int /\ MaxSends \in Nat

\* Messages are told apart by who sent them and when.
Messages == Callers \X (1..MaxSends)

VARIABLES capacity,    \* the capacity the Go channel was made with
          closed,      \* channelHandle.closed; the Go channel is closed with it
          buffer,      \* the buffer of the Go channel
          senders,     \* callers parked in ch <- v, first come first served
          receivers,   \* callers parked in <-ch, likewise
          pc,          \* where each caller is
          item,        \* how many messages each caller has started to send
          crashed,     \* the process panicked
          sent,        \* history: the messages the channel accepted
          received,    \* history: the messages it handed over
          returned,    \* history: the messages whose send returned without an error
          sawNil,      \* history: a receive came back with nil
          raced        \* history: the callers that were past the check when close came

goVars == <<capacity, buffer, senders, receivers>>
ghostVars == <<sent, received, returned, sawNil, raced>>
vars == <<closed, goVars, pc, item, crashed, ghostVars>>

\* newChannelHandle
Capacity(n) == IF n < 0 THEN 0 ELSE n
Capacities == {Capacity(n) : n \in Requested}

\* The message a caller is sending.
Item(c) == <<c, item[c]>>

TypeOK ==
    /\ capacity \in Capacities
    /\ closed \in BOOLEAN
    /\ crashed \in BOOLEAN
    /\ buffer \in Seq(Messages)
    /\ senders \in Seq(Callers)
    /\ receivers \in Seq(Callers)
    /\ pc \in [Callers -> {"idle", "checked", "sending", "receiving"}]
    /\ item \in [Callers -> 0..MaxSends]
    /\ sent \in Seq(Messages)
    /\ received \in Seq(Messages)
    /\ returned \subseteq Messages
    /\ sawNil \in BOOLEAN
    /\ raced \subseteq Callers

Init ==
    /\ capacity \in Capacities
    /\ closed = FALSE
    /\ crashed = FALSE
    /\ buffer = <<>>
    /\ senders = <<>>
    /\ receivers = <<>>
    /\ pc = [c \in Callers |-> "idle"]
    /\ item = [c \in Callers |-> 0]
    /\ sent = <<>>
    /\ received = <<>>
    /\ returned = {}
    /\ sawNil = FALSE
    /\ raced = {}

-----------------------------------------------------------------------------
(* send *)

\* Up to the Unlock; on a closed channel send returns an error instead.
Check(c) ==
    /\ pc[c] = "idle"
    /\ item[c] < MaxSends
    /\ ~closed
    /\ pc' = [pc EXCEPT ![c] = "checked"]
    /\ item' = [item EXCEPT ![c] = @ + 1]
    /\ UNCHANGED <<closed, goVars, crashed, ghostVars>>

\* ch <- v with a receiver parked: it is handed the message and goes on.
SendDirect(c) ==
    /\ pc[c] = "checked"
    /\ ~closed
    /\ receivers # <<>>
    /\ receivers' = Tail(receivers)
    /\ pc' = [pc EXCEPT ![c] = "idle", ![Head(receivers)] = "idle"]
    /\ sent' = Append(sent, Item(c))
    /\ received' = Append(received, Item(c))
    /\ returned' = returned \cup {Item(c)}
    /\ UNCHANGED <<capacity, closed, buffer, senders, item, crashed, sawNil, raced>>

\* ch <- v with room in the buffer.
SendBuffered(c) ==
    /\ pc[c] = "checked"
    /\ ~closed
    /\ receivers = <<>>
    /\ Len(buffer) < capacity
    /\ buffer' = Append(buffer, Item(c))
    /\ pc' = [pc EXCEPT ![c] = "idle"]
    /\ sent' = Append(sent, Item(c))
    /\ returned' = returned \cup {Item(c)}
    /\ UNCHANGED <<capacity, closed, senders, receivers, item, crashed, received, sawNil, raced>>

\* ch <- v parks the caller.
SendParks(c) ==
    /\ pc[c] = "checked"
    /\ ~closed
    /\ receivers = <<>>
    /\ Len(buffer) >= capacity
    /\ senders' = Append(senders, c)
    /\ pc' = [pc EXCEPT ![c] = "sending"]
    /\ UNCHANGED <<capacity, closed, buffer, receivers, item, crashed, ghostVars>>

\* ch <- v after close came between: send on closed channel.
SendPanics(c) ==
    /\ pc[c] = "checked"
    /\ closed
    /\ crashed' = TRUE
    /\ UNCHANGED <<closed, goVars, pc, item, ghostVars>>

-----------------------------------------------------------------------------
(* receive *)

\* Mutant: the parked sender's message jumps the queue.
ReceiveNewest(c) ==
    /\ pc[c] = "idle"
    /\ buffer # <<>>
    /\ received' = Append(received, Head(buffer))
    /\ IF senders = <<>>
       THEN /\ buffer' = Tail(buffer)
            /\ UNCHANGED <<senders, pc, sent, returned>>
       ELSE /\ buffer' = <<Item(Head(senders))>> \o Tail(buffer)
            /\ senders' = Tail(senders)
            /\ pc' = [pc EXCEPT ![Head(senders)] = "idle"]
            /\ sent' = Append(sent, Item(Head(senders)))
            /\ returned' = returned \cup {Item(Head(senders))}
    /\ UNCHANGED <<capacity, closed, receivers, item, crashed, sawNil, raced>>

\* <-ch takes the oldest buffered message, and the first parked sender fills the gap.
ReceiveBuffered(c) ==
    /\ pc[c] = "idle"
    /\ buffer # <<>>
    /\ received' = Append(received, Head(buffer))
    /\ IF senders = <<>>
       THEN /\ buffer' = Tail(buffer)
            /\ UNCHANGED <<senders, pc, sent, returned>>
       ELSE /\ buffer' = Append(Tail(buffer), Item(Head(senders)))
            /\ senders' = Tail(senders)
            /\ pc' = [pc EXCEPT ![Head(senders)] = "idle"]
            /\ sent' = Append(sent, Item(Head(senders)))
            /\ returned' = returned \cup {Item(Head(senders))}
    /\ UNCHANGED <<capacity, closed, receivers, item, crashed, sawNil, raced>>

\* <-ch on an unbuffered channel takes the message of the first parked sender.
ReceiveDirect(c) ==
    /\ pc[c] = "idle"
    /\ buffer = <<>>
    /\ senders # <<>>
    /\ senders' = Tail(senders)
    /\ pc' = [pc EXCEPT ![Head(senders)] = "idle"]
    /\ sent' = Append(sent, Item(Head(senders)))
    /\ received' = Append(received, Item(Head(senders)))
    /\ returned' = returned \cup {Item(Head(senders))}
    /\ UNCHANGED <<capacity, closed, buffer, receivers, item, crashed, sawNil, raced>>

\* <-ch on a closed channel with nothing left: not ok, so receive returns nil.
ReceiveNil(c) ==
    /\ pc[c] = "idle"
    /\ buffer = <<>>
    /\ senders = <<>>
    /\ closed
    /\ sawNil' = TRUE
    /\ UNCHANGED <<closed, goVars, pc, item, crashed, sent, received, returned, raced>>

\* <-ch parks the caller.
ReceiveParks(c) ==
    /\ pc[c] = "idle"
    /\ buffer = <<>>
    /\ senders = <<>>
    /\ ~closed
    /\ receivers' = Append(receivers, c)
    /\ pc' = [pc EXCEPT ![c] = "receiving"]
    /\ UNCHANGED <<capacity, closed, buffer, senders, item, crashed, ghostVars>>

-----------------------------------------------------------------------------
(* close *)

Elements(s) == {s[i] : i \in DOMAIN s}

\* Mutant: the buffer is thrown away with the channel.
CloseAndClear(c) ==
    /\ pc[c] = "idle"
    /\ ~closed
    /\ closed' = TRUE
    /\ receivers' = <<>>
    /\ pc' = [d \in Callers |-> IF d \in Elements(receivers) THEN "idle" ELSE pc[d]]
    /\ sawNil' = (sawNil \/ receivers # <<>>)
    /\ raced' = {d \in Callers : pc[d] \in {"checked", "sending"}}
    /\ buffer' = <<>>
    /\ crashed' = (senders # <<>>)
    /\ UNCHANGED <<capacity, senders, item, sent, received, returned>>

\* Mutant: the handle is marked closed and the Go channel is not.
CloseHandleOnly(c) ==
    /\ pc[c] = "idle"
    /\ ~closed
    /\ closed' = TRUE
    /\ UNCHANGED <<goVars, pc, item, crashed, ghostVars>>

\* close: parked receivers come back with nil, parked senders panic; a second call
\* only returns false.
Close(c) ==
    /\ pc[c] = "idle"
    /\ ~closed
    /\ closed' = TRUE
    /\ receivers' = <<>>
    /\ pc' = [d \in Callers |-> IF d \in Elements(receivers) THEN "idle" ELSE pc[d]]
    /\ sawNil' = (sawNil \/ receivers # <<>>)
    /\ raced' = {d \in Callers : pc[d] \in {"checked", "sending"}}
    /\ crashed' = (senders # <<>>)
    /\ UNCHANGED <<capacity, buffer, senders, item, sent, received, returned>>

-----------------------------------------------------------------------------

\* What the caller starts, and what the Go channel makes of a send.
Send(c) == SendDirect(c) \/ SendBuffered(c) \/ SendParks(c) \/ SendPanics(c)
Receive(c) == ReceiveBuffered(c) \/ ReceiveDirect(c) \/ ReceiveNil(c) \/ ReceiveParks(c)

\* After a panic the process is gone.
Next ==
    /\ ~crashed
    /\ \E c \in Callers : Check(c) \/ Send(c) \/ Receive(c) \/ Close(c)

Spec == Init /\ [][Next]_vars

-----------------------------------------------------------------------------
(* Properties *)

\* The mutex, the released check and the Go channel together are a bounded queue that
\* keeps the order and hands every message over once.
Queue == INSTANCE Fifo
ImplementsFifo == Queue!Spec

\* A send that returned without an error has its message handed over or still kept for
\* a later receive, and receive answers nil (for "closed") only when every accepted
\* message has been handed over: closing does not cut off what was sent before.
NothingLost ==
    /\ returned = Elements(sent)
    /\ sent = received \o buffer
    /\ sawNil => closed /\ received = sent

\* No caller is left parked on a channel that could serve it: at most one side waits, a
\* receiver only on an empty open channel, a sender only on a full one.  And the process
\* only panics for a send that looked at closed before close set it and had not returned:
\* a program that orders its last send before close never panics.
NobodyStranded ==
    /\ crashed => \E c \in raced : pc[c] \in {"checked", "sending"}
    /\ receivers # <<>> => buffer = <<>> /\ senders = <<>> /\ ~closed
    /\ senders # <<>> => Len(buffer) = capacity /\ (closed => crashed)
    /\ \A c \in Callers :
          /\ pc[c] = "sending" <=> c \in Elements(senders)
          /\ pc[c] = "receiving" <=> c \in Elements(receivers)
=============================================================================
