--------------------------- MODULE ChannelsProofs ---------------------------
(***************************************************************************)
(* Channels for any number of callers, messages and capacities: its type,  *)
(* who is parked on it, what became of its messages, and its refinement of *)
(* Fifo.                                                                   *)
(***************************************************************************)
EXTENDS Channels, SequenceTheorems, TLAPS

-----------------------------------------------------------------------------
(* Sequences *)

Distinct(s) == \A i, j \in DOMAIN s : s[i] = s[j] => i = j

\* Leaving a queue at its head: the others stay, each once.
LEMMA TailOfQueue ==
    ASSUME NEW S, NEW s \in Seq(S), s # <<>>
    PROVE  /\ Head(s) \in S /\ Tail(s) \in Seq(S) /\ Head(s) \in Elements(s)
           /\ Distinct(s) => Distinct(Tail(s)) /\ Elements(Tail(s)) = Elements(s) \ {Head(s)}
<1>1. /\ Head(s) \in S /\ Tail(s) \in Seq(S) /\ Head(s) = s[1]
      /\ Len(Tail(s)) = Len(s) - 1 /\ Len(s) \in Nat \ {0}
      /\ \A i \in 1..Len(Tail(s)) : Tail(s)[i] = s[i + 1]
  BY HeadTailProperties, EmptySeq
<1>2. DOMAIN s = 1..Len(s) /\ DOMAIN Tail(s) = 1..(Len(s) - 1)
  BY <1>1, LenProperties
<1>3. Head(s) \in Elements(s)
  BY <1>1, <1>2 DEF Elements
<1>4. ASSUME Distinct(s)
      PROVE  Distinct(Tail(s)) /\ Elements(Tail(s)) = Elements(s) \ {Head(s)}
  <2>1. Distinct(Tail(s))
    BY <1>1, <1>2, <1>4 DEF Distinct
  <2>2. ASSUME NEW x \in Elements(Tail(s)) PROVE x \in Elements(s) \ {Head(s)}
    <3>1. PICK i \in 1..(Len(s) - 1) : x = Tail(s)[i]
      BY <1>2 DEF Elements
    <3>2. x = s[i + 1] /\ i + 1 \in DOMAIN s /\ i + 1 # 1 /\ 1 \in DOMAIN s
      BY <1>1, <1>2, <3>1
    <3> QED
      BY <1>1, <1>4, <3>2 DEF Elements, Distinct
  <2>3. ASSUME NEW x \in Elements(s) \ {Head(s)} PROVE x \in Elements(Tail(s))
    <3>1. PICK i \in 1..Len(s) : x = s[i] /\ i # 1
      BY <1>1, <1>2 DEF Elements
    <3>2. i - 1 \in DOMAIN Tail(s) /\ Tail(s)[i - 1] = x
      BY <1>1, <1>2, <3>1
    <3> QED
      BY <3>2 DEF Elements
  <2> QED
    BY <2>1, <2>2, <2>3
<1> QED
  BY <1>1, <1>3, <1>4

\* Joining a queue at its end.
LEMMA AppendToQueue ==
    ASSUME NEW S, NEW s \in Seq(S), NEW x \in S
    PROVE  /\ Append(s, x) \in Seq(S) /\ Append(s, x) # <<>>
           /\ Elements(Append(s, x)) = Elements(s) \cup {x}
           /\ Distinct(s) /\ x \notin Elements(s) => Distinct(Append(s, x))
<1> DEFINE t == Append(s, x)
<1>1. /\ t \in Seq(S) /\ t # <<>> /\ Len(t) = Len(s) + 1 /\ Len(s) \in Nat
      /\ \A i \in 1..Len(s) : t[i] = s[i]
      /\ t[Len(s) + 1] = x
  BY AppendProperties, LenProperties
<1>2. DOMAIN s = 1..Len(s) /\ DOMAIN t = 1..(Len(s) + 1)
  BY <1>1, LenProperties
<1>3. Elements(t) = Elements(s) \cup {x}
  <2>1. ASSUME NEW y \in Elements(t) PROVE y \in Elements(s) \cup {x}
    <3>1. PICK i \in 1..(Len(s) + 1) : y = t[i]
      BY <1>2 DEF Elements
    <3>2. CASE i = Len(s) + 1
      BY <1>1, <3>1, <3>2
    <3>3. CASE i \in 1..Len(s)
      BY <1>1, <1>2, <3>1, <3>3 DEF Elements
    <3> QED
      BY <1>1, <3>2, <3>3
  <2>2. ASSUME NEW y \in Elements(s) PROVE y \in Elements(t)
    <3>1. PICK i \in 1..Len(s) : y = s[i]
      BY <1>2 DEF Elements
    <3> QED
      BY <1>1, <1>2, <3>1 DEF Elements
  <2>3. x \in Elements(t)
    BY <1>1, <1>2 DEF Elements
  <2> QED
    BY <2>1, <2>2, <2>3
<1>4. ASSUME Distinct(s), x \notin Elements(s) PROVE Distinct(t)
  <2> SUFFICES ASSUME NEW i \in 1..(Len(s) + 1), NEW j \in 1..(Len(s) + 1), t[i] = t[j]
               PROVE  i = j
    BY <1>2 DEF Distinct
  <2>1. \A k \in 1..Len(s) : t[k] # x
    BY <1>1, <1>2, <1>4 DEF Elements
  <2>2. CASE i \in 1..Len(s) /\ j \in 1..Len(s)
    BY <1>1, <1>2, <1>4, <2>2 DEF Distinct
  <2> QED
    BY <1>1, <2>1, <2>2
<1> QED
  BY <1>1, <1>3, <1>4

\* A message put at the end of what is kept is the last of all.
LEMMA ConcatAppend ==
    ASSUME NEW S, NEW r \in Seq(S), NEW b \in Seq(S), NEW m \in S
    PROVE  r \o Append(b, m) = Append(r \o b, m)
<1>1. <<m>> \in Seq(S) /\ r \o b \in Seq(S)
  BY ConcatProperties
<1>2. Append(b, m) = b \o <<m>> /\ Append(r \o b, m) = (r \o b) \o <<m>>
  BY <1>1, AppendIsConcat
<1> QED
  BY <1>1, <1>2, ConcatAssociative

\* The oldest message that is kept is the next one, whoever has it.
LEMMA ConcatHead ==
    ASSUME NEW S, NEW r \in Seq(S), NEW b \in Seq(S), b # <<>>
    PROVE  /\ Append(r, Head(b)) \o Tail(b) = r \o b
           /\ (r \o b)[Len(r) + 1] = Head(b)
           /\ Len(r) < Len(r \o b)
<1> DEFINE h == Append(r, Head(b))
           u == h \o Tail(b)
           v == r \o b
<1>1. /\ Head(b) \in S /\ Tail(b) \in Seq(S) /\ Len(Tail(b)) = Len(b) - 1 /\ Head(b) = b[1]
      /\ Len(b) \in Nat \ {0} /\ Len(r) \in Nat
      /\ \A i \in 1..Len(Tail(b)) : Tail(b)[i] = b[i + 1]
  BY HeadTailProperties, EmptySeq, LenProperties
<1>2. /\ h \in Seq(S) /\ Len(h) = Len(r) + 1
      /\ \A i \in 1..Len(r) : h[i] = r[i]
      /\ h[Len(r) + 1] = Head(b)
  BY <1>1, AppendProperties
<1>3. /\ u \in Seq(S) /\ Len(u) = Len(h) + Len(Tail(b))
      /\ \A i \in 1..(Len(h) + Len(Tail(b))) :
            u[i] = IF i <= Len(h) THEN h[i] ELSE Tail(b)[i - Len(h)]
  BY <1>1, <1>2, ConcatProperties
<1>4. /\ v \in Seq(S) /\ Len(v) = Len(r) + Len(b)
      /\ \A i \in 1..(Len(r) + Len(b)) : v[i] = IF i <= Len(r) THEN r[i] ELSE b[i - Len(r)]
  BY ConcatProperties
<1>5. Len(u) = Len(v)
  BY <1>1, <1>2, <1>3, <1>4
<1>6. ASSUME NEW i \in 1..Len(u) PROVE u[i] = v[i]
  <2>1. CASE i <= Len(r)
    BY <1>1, <1>2, <1>3, <1>4, <2>1
  <2>2. CASE i = Len(r) + 1
    BY <1>1, <1>2, <1>3, <1>4, <2>2
  <2>3. CASE i > Len(r) + 1
    <3>1. i - Len(h) \in 1..Len(Tail(b)) /\ i - Len(h) + 1 = i - Len(r)
      BY <1>1, <1>2, <1>3, <2>3
    <3> QED
      BY <1>1, <1>2, <1>3, <1>4, <2>3, <3>1
  <2> QED
    BY <1>1, <2>1, <2>2, <2>3
<1>7. u = v
  BY <1>3, <1>4, <1>5, <1>6, SeqEqual
<1> QED
  BY <1>1, <1>4, <1>7
-----------------------------------------------------------------------------
(* Types, and who is parked *)

\* A caller who sends has a message to send, and the two queues are of the callers who
\* say that they wait, each of them once.
Queued ==
    /\ \A c \in Callers : pc[c] \in {"checked", "sending"} => item[c] \in 1..MaxSends
    /\ Distinct(senders) /\ Distinct(receivers)
    /\ \A c \in Callers : /\ pc[c] = "sending" <=> c \in Elements(senders)
                          /\ pc[c] = "receiving" <=> c \in Elements(receivers)

\* The buffer is within its bounds, callers only wait for what is not there, and after a
\* close whoever is still about to send was so before it.
Served ==
    /\ Len(buffer) <= capacity
    /\ receivers # <<>> => buffer = <<>> /\ senders = <<>> /\ ~closed
    /\ senders # <<>> => Len(buffer) = capacity /\ (closed => crashed)
    /\ closed => \A c \in Callers : pc[c] \in {"checked", "sending"} => c \in raced
    /\ crashed => \E c \in raced : pc[c] \in {"checked", "sending"}

LEMMA CapacityTyped == BoundsAssumption => Capacities \subseteq Nat
BY DEF BoundsAssumption, Capacities, Capacity

\* Whoever is first in a queue is one of the callers who wait.
LEMMA FirstInLine ==
    ASSUME TypeOK, Queued
    PROVE  /\ senders # <<>> => /\ Head(senders) \in Callers /\ pc[Head(senders)] = "sending"
                                /\ Item(Head(senders)) \in Messages
           /\ receivers # <<>> => Head(receivers) \in Callers /\ pc[Head(receivers)] = "receiving"
<1>1. ASSUME senders # <<>>
      PROVE  /\ Head(senders) \in Callers /\ pc[Head(senders)] = "sending"
             /\ Item(Head(senders)) \in Messages
  <2>1. Head(senders) \in Callers /\ Head(senders) \in Elements(senders)
    BY <1>1, TailOfQueue DEF TypeOK
  <2> QED
    BY <2>1 DEF Queued, Item, Messages
<1>2. ASSUME receivers # <<>> PROVE Head(receivers) \in Callers /\ pc[Head(receivers)] = "receiving"
  BY <1>2, TailOfQueue DEF TypeOK, Queued
<1> QED
  BY <1>1, <1>2

\* The message of a caller past the check.
LEMMA ItemTyped ==
    ASSUME TypeOK, Queued, NEW c \in Callers, pc[c] = "checked"
    PROVE  Item(c) \in Messages
BY DEF Queued, Item, Messages

\* send, receive and close leave the channel typed.
LEMMA StepTypeOK == BoundsAssumption /\ TypeOK /\ Queued /\ [Next]_vars => TypeOK'
<1> SUFFICES ASSUME BoundsAssumption, TypeOK, Queued, [Next]_vars PROVE TypeOK'
  OBVIOUS
<1> USE DEF goVars, ghostVars
<1>1. ASSUME NEW c \in Callers, Check(c) PROVE TypeOK'
  BY <1>1 DEF TypeOK, Check, BoundsAssumption
<1>2. ASSUME NEW c \in Callers, SendDirect(c) PROVE TypeOK'
  <2>1. Item(c) \in Messages /\ Head(receivers) \in Callers
    BY <1>2, ItemTyped, FirstInLine DEF SendDirect
  <2>2. Tail(receivers) \in Seq(Callers)
    BY <1>2, TailOfQueue DEF SendDirect, TypeOK
  <2>3. Append(sent, Item(c)) \in Seq(Messages) /\ Append(received, Item(c)) \in Seq(Messages)
    BY <2>1, AppendToQueue DEF TypeOK
  <2> QED
    BY <1>2, <2>1, <2>2, <2>3 DEF TypeOK, SendDirect
<1>3. ASSUME NEW c \in Callers, SendBuffered(c) PROVE TypeOK'
  <2>1. Item(c) \in Messages
    BY <1>3, ItemTyped DEF SendBuffered
  <2>2. Append(sent, Item(c)) \in Seq(Messages) /\ Append(buffer, Item(c)) \in Seq(Messages)
    BY <2>1, AppendToQueue DEF TypeOK
  <2> QED
    BY <1>3, <2>1, <2>2 DEF TypeOK, SendBuffered
<1>4. ASSUME NEW c \in Callers, SendParks(c) PROVE TypeOK'
  BY <1>4, AppendToQueue DEF TypeOK, SendParks
<1>5. ASSUME NEW c \in Callers, SendPanics(c) PROVE TypeOK'
  BY <1>5 DEF TypeOK, SendPanics
<1>6. ASSUME NEW c \in Callers, ReceiveBuffered(c) PROVE TypeOK'
  <2>1. Head(buffer) \in Messages /\ Tail(buffer) \in Seq(Messages)
    BY <1>6, TailOfQueue DEF ReceiveBuffered, TypeOK
  <2>2. Append(received, Head(buffer)) \in Seq(Messages)
    BY <2>1, AppendToQueue DEF TypeOK
  <2>3. CASE senders = <<>>
    BY <1>6, <2>1, <2>2, <2>3 DEF TypeOK, ReceiveBuffered
  <2>4. CASE senders # <<>>
    <3> DEFINE m == Item(Head(senders))
    <3>1. m \in Messages /\ Head(senders) \in Callers /\ Tail(senders) \in Seq(Callers)
      BY <2>4, FirstInLine, TailOfQueue DEF TypeOK
    <3>2. Append(Tail(buffer), m) \in Seq(Messages) /\ Append(sent, m) \in Seq(Messages)
      BY <2>1, <3>1, AppendToQueue DEF TypeOK
    <3> QED
      BY <1>6, <2>2, <2>4, <3>1, <3>2 DEF TypeOK, ReceiveBuffered
  <2> QED
    BY <2>3, <2>4
<1>7. ASSUME NEW c \in Callers, ReceiveDirect(c) PROVE TypeOK'
  <2> DEFINE m == Item(Head(senders))
  <2>1. m \in Messages /\ Head(senders) \in Callers /\ Tail(senders) \in Seq(Callers)
    BY <1>7, FirstInLine, TailOfQueue DEF TypeOK, ReceiveDirect
  <2>2. Append(sent, m) \in Seq(Messages) /\ Append(received, m) \in Seq(Messages)
    BY <2>1, AppendToQueue DEF TypeOK
  <2> QED
    BY <1>7, <2>1, <2>2 DEF TypeOK, ReceiveDirect
<1>8. ASSUME NEW c \in Callers, ReceiveNil(c) PROVE TypeOK'
  BY <1>8 DEF TypeOK, ReceiveNil
<1>9. ASSUME NEW c \in Callers, ReceiveParks(c) PROVE TypeOK'
  BY <1>9, AppendToQueue DEF TypeOK, ReceiveParks
<1>10. ASSUME NEW c \in Callers, Close(c) PROVE TypeOK'
  <2>1. <<>> \in Seq(Callers)
    BY EmptySeq
  <2> QED
    BY <1>10, <2>1 DEF TypeOK, Close
<1>11. CASE UNCHANGED vars
  BY <1>11 DEF TypeOK, vars
<1> QED
  BY <1>1, <1>2, <1>3, <1>4, <1>5, <1>6, <1>7, <1>8, <1>9, <1>10, <1>11
     DEF Next, Send, Receive

\* Every step keeps the queues of those who wait.
LEMMA StepQueued == BoundsAssumption /\ TypeOK /\ Queued /\ [Next]_vars => Queued'
<1> SUFFICES ASSUME BoundsAssumption, TypeOK, Queued, [Next]_vars PROVE Queued'
  OBVIOUS
<1> USE DEF goVars, ghostVars
<1>1. ASSUME NEW c \in Callers, Check(c) PROVE Queued'
  <2>1. /\ UNCHANGED <<senders, receivers>>
        /\ pc'[c] = "checked" /\ pc[c] = "idle"
        /\ item'[c] = item[c] + 1 /\ item[c] < MaxSends
        /\ \A d \in Callers \ {c} : pc'[d] = pc[d] /\ item'[d] = item[d]
    BY <1>1 DEF Check, TypeOK
  <2>2. item'[c] \in 1..MaxSends
    BY <2>1 DEF TypeOK, BoundsAssumption
  <2> QED
    BY <2>1, <2>2 DEF Queued
<1>2. ASSUME NEW c \in Callers, SendDirect(c) PROVE Queued'
  <2>1. /\ Head(receivers) \in Callers /\ pc[Head(receivers)] = "receiving"
        /\ pc[c] = "checked" /\ receivers # <<>>
    BY <1>2, FirstInLine DEF SendDirect
  <2>2. /\ UNCHANGED <<senders, item>> /\ receivers' = Tail(receivers)
        /\ pc'[c] = "idle" /\ pc'[Head(receivers)] = "idle"
        /\ \A d \in Callers \ {c, Head(receivers)} : pc'[d] = pc[d]
    BY <1>2, <2>1 DEF SendDirect, TypeOK
  <2>3. Distinct(receivers') /\ Elements(receivers') = Elements(receivers) \ {Head(receivers)}
    BY <2>1, <2>2, TailOfQueue DEF Queued, TypeOK
  <2> QED
    BY <2>1, <2>2, <2>3 DEF Queued
<1>3. ASSUME NEW c \in Callers, SendBuffered(c) PROVE Queued'
  <2>1. /\ UNCHANGED <<senders, receivers, item>>
        /\ pc[c] = "checked" /\ pc'[c] = "idle" /\ \A d \in Callers \ {c} : pc'[d] = pc[d]
    BY <1>3 DEF SendBuffered, TypeOK
  <2> QED
    BY <2>1 DEF Queued
<1>4. ASSUME NEW c \in Callers, SendParks(c) PROVE Queued'
  <2>1. /\ UNCHANGED <<receivers, item>> /\ senders' = Append(senders, c)
        /\ pc[c] = "checked" /\ pc'[c] = "sending" /\ \A d \in Callers \ {c} : pc'[d] = pc[d]
    BY <1>4 DEF SendParks, TypeOK
  <2>2. c \notin Elements(senders)
    BY <2>1 DEF Queued
  <2>3. Distinct(senders') /\ Elements(senders') = Elements(senders) \cup {c}
    BY <2>1, <2>2, AppendToQueue DEF Queued, TypeOK
  <2> QED
    BY <2>1, <2>3 DEF Queued
<1>5. ASSUME NEW c \in Callers, SendPanics(c) \/ ReceiveNil(c) PROVE Queued'
  BY <1>5 DEF Queued, SendPanics, ReceiveNil
<1>6. ASSUME NEW c \in Callers, ReceiveBuffered(c) \/ ReceiveDirect(c), senders # <<>>
      PROVE  Queued'
  <2>1. Head(senders) \in Callers /\ pc[Head(senders)] = "sending"
    BY <1>6, FirstInLine
  <2>2. /\ UNCHANGED <<receivers, item>> /\ senders' = Tail(senders)
        /\ pc'[Head(senders)] = "idle"
        /\ \A d \in Callers \ {Head(senders)} : pc'[d] = pc[d]
    BY <1>6, <2>1 DEF ReceiveBuffered, ReceiveDirect, TypeOK
  <2>3. Distinct(senders') /\ Elements(senders') = Elements(senders) \ {Head(senders)}
    BY <1>6, <2>2, TailOfQueue DEF Queued, TypeOK
  <2> QED
    BY <2>1, <2>2, <2>3 DEF Queued
<1>7. ASSUME NEW c \in Callers, ReceiveBuffered(c) \/ ReceiveDirect(c), senders = <<>>
      PROVE  Queued'
  BY <1>7 DEF Queued, ReceiveBuffered, ReceiveDirect
<1>8. ASSUME NEW c \in Callers, ReceiveParks(c) PROVE Queued'
  <2>1. /\ UNCHANGED <<senders, item>> /\ receivers' = Append(receivers, c)
        /\ pc[c] = "idle" /\ pc'[c] = "receiving" /\ \A d \in Callers \ {c} : pc'[d] = pc[d]
    BY <1>8 DEF ReceiveParks, TypeOK
  <2>2. c \notin Elements(receivers)
    BY <2>1 DEF Queued
  <2>3. Distinct(receivers') /\ Elements(receivers') = Elements(receivers) \cup {c}
    BY <2>1, <2>2, AppendToQueue DEF Queued, TypeOK
  <2> QED
    BY <2>1, <2>3 DEF Queued
<1>9. ASSUME NEW c \in Callers, Close(c) PROVE Queued'
  <2>1. /\ UNCHANGED <<senders, item>> /\ receivers' = <<>>
        /\ \A d \in Callers : pc'[d] = IF d \in Elements(receivers) THEN "idle" ELSE pc[d]
    BY <1>9 DEF Close
  <2>2. Distinct(receivers') /\ Elements(receivers') = {}
    BY <2>1 DEF Distinct, Elements
  <2>3. \A d \in Callers : d \in Elements(receivers) => pc[d] = "receiving"
    BY DEF Queued
  <2> QED
    BY <2>1, <2>2, <2>3 DEF Queued
<1>10. CASE UNCHANGED vars
  BY <1>10 DEF Queued, vars
<1> QED
  BY <1>1, <1>2, <1>3, <1>4, <1>5, <1>6, <1>7, <1>8, <1>9, <1>10 DEF Next, Send, Receive

\* Every step keeps what the waiting callers are owed.
LEMMA StepServed == BoundsAssumption /\ TypeOK /\ Queued /\ Served /\ [Next]_vars => Served'
<1> SUFFICES ASSUME BoundsAssumption, TypeOK, Queued, Served, [Next]_vars PROVE Served'
  OBVIOUS
<1> USE DEF goVars, ghostVars
<1>0. Len(buffer) \in Nat /\ capacity \in Nat
  BY CapacityTyped, LenProperties DEF TypeOK
<1>1. ASSUME NEW c \in Callers, ~crashed, Check(c) PROVE Served'
  <2>1. ~closed /\ UNCHANGED <<capacity, closed, buffer, senders, receivers, crashed, raced>>
    BY <1>1 DEF Check
  <2> QED
    BY <1>1, <2>1 DEF Served
<1>2. ASSUME NEW c \in Callers, ~crashed, SendDirect(c) PROVE Served'
  <2>1. /\ ~closed /\ receivers # <<>> /\ receivers' = Tail(receivers)
        /\ UNCHANGED <<capacity, closed, buffer, senders, crashed, raced>>
    BY <1>2 DEF SendDirect
  <2> QED
    BY <1>2, <2>1 DEF Served
<1>3. ASSUME NEW c \in Callers, ~crashed, SendBuffered(c) PROVE Served'
  <2>1. /\ ~closed /\ receivers = <<>> /\ Len(buffer) < capacity
        /\ buffer' = Append(buffer, Item(c))
        /\ UNCHANGED <<capacity, closed, senders, receivers, crashed, raced>>
    BY <1>3 DEF SendBuffered
  <2>2. Len(buffer') = Len(buffer) + 1
    BY <1>3, <2>1, ItemTyped, AppendProperties DEF TypeOK, SendBuffered
  <2> QED
    BY <1>0, <1>3, <2>1, <2>2 DEF Served
<1>4. ASSUME NEW c \in Callers, ~crashed, SendParks(c) PROVE Served'
  <2>1. /\ ~closed /\ receivers = <<>> /\ Len(buffer) >= capacity
        /\ UNCHANGED <<capacity, closed, buffer, receivers, crashed, raced>>
    BY <1>4 DEF SendParks
  <2> QED
    BY <1>0, <1>4, <2>1 DEF Served
<1>5. ASSUME NEW c \in Callers, ~crashed, SendPanics(c) PROVE Served'
  <2>1. /\ closed /\ pc[c] = "checked" /\ crashed'
        /\ UNCHANGED <<capacity, closed, buffer, senders, receivers, pc, raced>>
    BY <1>5 DEF SendPanics
  <2>2. c \in raced
    BY <2>1 DEF Served
  <2> QED
    BY <2>1, <2>2 DEF Served
<1>6. ASSUME NEW c \in Callers, ~crashed, ReceiveBuffered(c) PROVE Served'
  <2>1. /\ pc[c] = "idle" /\ buffer # <<>>
        /\ UNCHANGED <<capacity, closed, receivers, crashed, raced>>
    BY <1>6 DEF ReceiveBuffered
  <2>2. Tail(buffer) \in Seq(Messages) /\ Len(Tail(buffer)) = Len(buffer) - 1
    BY <2>1, HeadTailProperties DEF TypeOK
  <2>3. receivers = <<>>
    BY <2>1 DEF Served
  <2>4. CASE senders = <<>>
    <3>1. buffer' = Tail(buffer) /\ UNCHANGED <<senders, pc>>
      BY <1>6, <2>4 DEF ReceiveBuffered
    <3> QED
      BY <1>0, <1>6, <2>1, <2>2, <2>3, <2>4, <3>1 DEF Served
  <2>5. CASE senders # <<>>
    <3>1. Head(senders) \in Callers /\ Item(Head(senders)) \in Messages
      BY <2>5, FirstInLine
    <3>2. /\ buffer' = Append(Tail(buffer), Item(Head(senders))) /\ senders' = Tail(senders)
          /\ pc'[Head(senders)] = "idle"
          /\ \A d \in Callers \ {Head(senders)} : pc'[d] = pc[d]
      BY <1>6, <2>5, <3>1 DEF ReceiveBuffered, TypeOK
    <3>3. Len(buffer') = Len(buffer)
      BY <1>0, <2>2, <3>1, <3>2, AppendProperties
    <3>4. Len(buffer) = capacity /\ ~closed
      BY <1>6, <2>5 DEF Served
    <3> QED
      BY <1>0, <1>6, <2>1, <2>3, <3>3, <3>4 DEF Served
  <2> QED
    BY <2>4, <2>5
<1>7. ASSUME NEW c \in Callers, ~crashed, ReceiveDirect(c) PROVE Served'
  <2>1. /\ senders # <<>> /\ senders' = Tail(senders)
        /\ UNCHANGED <<capacity, closed, buffer, receivers, crashed, raced>>
    BY <1>7 DEF ReceiveDirect
  <2>2. Len(buffer) = capacity /\ ~closed /\ receivers = <<>>
    BY <1>7, <2>1 DEF Served
  <2> QED
    BY <1>7, <2>1, <2>2 DEF Served
<1>8. ASSUME NEW c \in Callers, ~crashed, ReceiveNil(c) PROVE Served'
  BY <1>8 DEF Served, ReceiveNil
<1>9. ASSUME NEW c \in Callers, ~crashed, ReceiveParks(c) PROVE Served'
  BY <1>9 DEF Served, ReceiveParks
<1>10. ASSUME NEW c \in Callers, ~crashed, Close(c) PROVE Served'
  <2>1. /\ closed' /\ receivers' = <<>> /\ crashed' = (senders # <<>>)
        /\ UNCHANGED <<capacity, buffer, senders>>
        /\ raced' = {d \in Callers : pc[d] \in {"checked", "sending"}}
        /\ \A d \in Callers : pc'[d] = IF d \in Elements(receivers) THEN "idle" ELSE pc[d]
    BY <1>10 DEF Close
  <2>2. \A d \in Callers : pc'[d] \in {"checked", "sending"} => d \in raced'
    BY <2>1
  <2>3. ASSUME senders # <<>> PROVE \E d \in raced' : pc'[d] \in {"checked", "sending"}
    <3>1. Head(senders) \in Callers /\ pc[Head(senders)] = "sending"
      BY <2>3, FirstInLine
    <3>2. Head(senders) \notin Elements(receivers)
      BY <3>1 DEF Queued
    <3> QED
      BY <2>1, <3>1, <3>2
  <2> QED
    BY <2>1, <2>2, <2>3 DEF Served
<1>11. CASE UNCHANGED vars
  BY <1>11 DEF Served, vars
<1> QED
  BY <1>1, <1>2, <1>3, <1>4, <1>5, <1>6, <1>7, <1>8, <1>9, <1>10, <1>11
     DEF Next, Send, Receive

LEMMA InitTyped == BoundsAssumption /\ Init => TypeOK /\ Queued /\ Served
<1> SUFFICES ASSUME BoundsAssumption, Init PROVE TypeOK /\ Queued /\ Served
  OBVIOUS
<1>1. /\ <<>> \in Seq(Messages) /\ <<>> \in Seq(Callers) /\ Len(<<>>) = 0
      /\ Distinct(<<>>) /\ Elements(<<>>) = {}
  BY EmptySeq DEF Distinct, Elements
<1>2. capacity \in Nat /\ 0 \in 0..MaxSends
  BY CapacityTyped DEF Init, BoundsAssumption
<1>3. TypeOK
  BY <1>1, <1>2 DEF Init, TypeOK
<1>4. Queued
  BY <1>1 DEF Init, Queued
<1>5. Served
  BY <1>1, <1>2 DEF Init, Served
<1> QED
  BY <1>3, <1>4, <1>5

LEMMA Typed ==
    ASSUME BoundsAssumption
    PROVE  Spec => [](TypeOK /\ Queued /\ Served)
<1>1. TypeOK /\ Queued /\ Served /\ [Next]_vars => (TypeOK /\ Queued /\ Served)'
  BY StepTypeOK, StepQueued, StepServed
<1>2. Init => TypeOK /\ Queued /\ Served
  BY InitTyped
<1> QED
  BY <1>1, <1>2, PTL DEF Spec

\* Every variable keeps its type: whatever the callers do, a message is handed on only as
\* the caller's that sent it, and the queues are of callers.
THEOREM TypeCorrect ==
    ASSUME BoundsAssumption
    PROVE  Spec => []TypeOK
BY Typed, PTL

\* No caller is left parked on a channel that could serve it, and only a send that was past
\* its look at closed when close came brings the process down.
THEOREM ParkedAreServed ==
    ASSUME BoundsAssumption
    PROVE  Spec => []NobodyStranded
<1>1. TypeOK /\ Queued /\ Served => NobodyStranded
  BY DEF Queued, Served, NobodyStranded
<1> QED
  BY <1>1, Typed, PTL

-----------------------------------------------------------------------------
(* What a step does to the messages *)

\* A message goes into the buffer.
Accepts(m) ==
    /\ ~closed
    /\ Len(buffer) < capacity
    /\ buffer' = Append(buffer, m)
    /\ sent' = Append(sent, m)
    /\ returned' = returned \cup {m}
    /\ UNCHANGED <<closed, received, sawNil>>

\* The oldest message leaves it.
Takes ==
    /\ buffer # <<>>
    /\ buffer' = Tail(buffer)
    /\ received' = Append(received, Head(buffer))
    /\ UNCHANGED <<closed, sent, returned, sawNil>>

\* Both, in one step.
Exchanges(m) ==
    /\ ~closed
    /\ buffer # <<>>
    /\ buffer' = Append(Tail(buffer), m)
    /\ sent' = Append(sent, m)
    /\ received' = Append(received, Head(buffer))
    /\ returned' = returned \cup {m}
    /\ UNCHANGED <<closed, sawNil>>

\* A message goes past an empty buffer.
Passes(m) ==
    /\ ~closed
    /\ buffer = <<>>
    /\ sent' = Append(sent, m)
    /\ received' = Append(received, m)
    /\ returned' = returned \cup {m}
    /\ UNCHANGED <<closed, buffer, sawNil>>

\* The channel closes: whoever is sent away with nil saw it empty.
Closes ==
    /\ ~closed
    /\ closed'
    /\ sawNil' => sawNil \/ buffer = <<>>
    /\ UNCHANGED <<buffer, sent, received, returned>>

\* No message moves: nil is only for who finds the channel closed and empty.
Stays ==
    /\ sawNil' => sawNil \/ (closed /\ buffer = <<>>)
    /\ UNCHANGED <<closed, buffer, sent, received, returned>>

\* Every step is one of these.
LEMMA Effects ==
    ASSUME BoundsAssumption, TypeOK, Queued, Served, [Next]_vars
    PROVE  /\ capacity' = capacity
           /\ \/ \E m \in Messages : Accepts(m) \/ Exchanges(m) \/ Passes(m)
              \/ Takes \/ Closes \/ Stays
<1> DEFINE Goal == /\ capacity' = capacity
                   /\ \/ \E m \in Messages : Accepts(m) \/ Exchanges(m) \/ Passes(m)
                      \/ Takes \/ Closes \/ Stays
<1> USE DEF goVars, ghostVars
<1>1. ASSUME NEW c \in Callers, SendDirect(c) PROVE Goal
  <2>1. Item(c) \in Messages /\ buffer = <<>>
    BY <1>1, ItemTyped DEF SendDirect, Served
  <2>2. Passes(Item(c)) /\ capacity' = capacity
    BY <1>1, <2>1 DEF SendDirect, Passes
  <2> QED
    BY <2>1, <2>2
<1>2. ASSUME NEW c \in Callers, SendBuffered(c) PROVE Goal
  <2>1. Item(c) \in Messages
    BY <1>2, ItemTyped DEF SendBuffered
  <2>2. Accepts(Item(c)) /\ capacity' = capacity
    BY <1>2, <2>1 DEF SendBuffered, Accepts
  <2> QED
    BY <2>1, <2>2
<1>3. ASSUME NEW c \in Callers, ~crashed, ReceiveBuffered(c), senders # <<>> PROVE Goal
  <2>1. Item(Head(senders)) \in Messages /\ ~closed
    BY <1>3, FirstInLine DEF Served
  <2>2. Exchanges(Item(Head(senders))) /\ capacity' = capacity
    BY <1>3, <2>1 DEF ReceiveBuffered, Exchanges
  <2> QED
    BY <2>1, <2>2
<1>4. ASSUME NEW c \in Callers, ReceiveBuffered(c), senders = <<>> PROVE Goal
  BY <1>4 DEF ReceiveBuffered, Takes
<1>5. ASSUME NEW c \in Callers, ~crashed, ReceiveDirect(c) PROVE Goal
  <2>1. senders # <<>>
    BY <1>5 DEF ReceiveDirect
  <2>2. Item(Head(senders)) \in Messages /\ ~closed
    BY <1>5, <2>1, FirstInLine DEF Served
  <2>3. Passes(Item(Head(senders))) /\ capacity' = capacity
    BY <1>5, <2>2 DEF ReceiveDirect, Passes
  <2> QED
    BY <2>2, <2>3
<1>6. ASSUME NEW c \in Callers, Close(c) PROVE Goal
  <2>1. sawNil' => sawNil \/ buffer = <<>>
    BY <1>6 DEF Close, Served
  <2> QED
    BY <1>6, <2>1 DEF Close, Closes
<1>7. ASSUME NEW c \in Callers, Check(c) \/ SendParks(c) \/ SendPanics(c) \/ ReceiveParks(c)
      PROVE  Goal
  BY <1>7 DEF Check, SendParks, SendPanics, ReceiveParks, Stays
<1>8. ASSUME NEW c \in Callers, ReceiveNil(c) PROVE Goal
  BY <1>8 DEF ReceiveNil, Stays
<1>9. CASE UNCHANGED vars
  BY <1>9 DEF vars, Stays
<1> QED
  BY <1>1, <1>2, <1>3, <1>4, <1>5, <1>6, <1>7, <1>8, <1>9 DEF Next, Send, Receive

-----------------------------------------------------------------------------
(* No message is lost *)

Kept ==
    /\ returned = Elements(sent)
    /\ sent = received \o buffer
    /\ sawNil => closed /\ buffer = <<>>

LEMMA StepKept ==
    ASSUME BoundsAssumption, TypeOK, Queued, Served, Kept, [Next]_vars
    PROVE  Kept'
<1>0. /\ buffer \in Seq(Messages) /\ received \in Seq(Messages) /\ sent \in Seq(Messages)
      /\ <<>> \in Seq(Messages)
  BY EmptySeq DEF TypeOK
<1>1. ASSUME NEW m \in Messages, Accepts(m) PROVE Kept'
  <2>1. Elements(Append(sent, m)) = Elements(sent) \cup {m}
    BY <1>0, AppendToQueue
  <2>2. received \o Append(buffer, m) = Append(received \o buffer, m)
    BY <1>0, ConcatAppend
  <2> QED
    BY <1>1, <2>1, <2>2 DEF Kept, Accepts
<1>2. ASSUME NEW m \in Messages, Exchanges(m) PROVE Kept'
  <2>1. Elements(Append(sent, m)) = Elements(sent) \cup {m}
    BY <1>0, AppendToQueue
  <2>2. /\ Append(received, Head(buffer)) \o Tail(buffer) = received \o buffer
        /\ Append(received, Head(buffer)) \in Seq(Messages) /\ Tail(buffer) \in Seq(Messages)
    BY SMTT(30), <1>0, <1>2, ConcatHead, TailOfQueue, AppendToQueue DEF Exchanges
  <2>3. Append(received, Head(buffer)) \o Append(Tail(buffer), m) = Append(sent, m)
    BY <2>2, ConcatAppend DEF Kept
  <2> QED
    BY <1>2, <2>1, <2>3 DEF Kept, Exchanges
<1>3. ASSUME NEW m \in Messages, Passes(m) PROVE Kept'
  <2>1. Elements(Append(sent, m)) = Elements(sent) \cup {m}
    BY <1>0, AppendToQueue
  <2>2. received \o <<>> = received /\ Append(received, m) \o <<>> = Append(received, m)
    BY <1>0, AppendToQueue, ConcatEmptySeq
  <2> QED
    BY <1>3, <2>1, <2>2 DEF Kept, Passes
<1>4. ASSUME Takes PROVE Kept'
  <2>1. Append(received, Head(buffer)) \o Tail(buffer) = received \o buffer
    BY <1>0, <1>4, ConcatHead DEF Takes
  <2> QED
    BY <1>4, <2>1 DEF Kept, Takes
<1>5. ASSUME Closes PROVE Kept'
  BY <1>5 DEF Kept, Closes, Elements
<1>6. ASSUME Stays PROVE Kept'
  BY <1>6 DEF Kept, Stays, Elements
<1> QED
  BY <1>1, <1>2, <1>3, <1>4, <1>5, <1>6, Effects

LEMMA InitKept == Init => Kept
<1>1. <<>> \o <<>> = <<>>
  OBVIOUS
<1>2. Elements(<<>>) = {}
  BY DEF Elements
<1> QED
  BY <1>1, <1>2 DEF Init, Kept

LEMMA AlwaysKept ==
    ASSUME BoundsAssumption
    PROVE  Spec => [](TypeOK /\ Queued /\ Served /\ Kept)
<1>1. TypeOK /\ Queued /\ Served /\ Kept /\ [Next]_vars => Kept'
  BY StepKept
<1> QED
  BY <1>1, InitKept, Typed, PTL DEF Spec

\* What send accepted and returned from is handed over or still kept, in the order it was
\* accepted, and receive answers nil only when nothing is kept: close cuts nothing off.
THEOREM MessagesKept ==
    ASSUME BoundsAssumption
    PROVE  Spec => []NothingLost
<1>1. TypeOK /\ Kept => NothingLost
  <2> SUFFICES ASSUME TypeOK, Kept PROVE NothingLost
    OBVIOUS
  <2>1. received \o <<>> = received
    BY ConcatEmptySeq DEF TypeOK
  <2> QED
    BY <2>1 DEF Kept, NothingLost
<1> QED
  BY <1>1, AlwaysKept, PTL

-----------------------------------------------------------------------------
(* The channel implements the bounded queue *)

LEMMA StepQueue ==
    ASSUME BoundsAssumption, TypeOK, Queued, Served, Kept, [Next]_vars
    PROVE  [Queue!Next]_Queue!vars
<1>0. /\ buffer \in Seq(Messages) /\ received \in Seq(Messages)
      /\ Len(buffer) \in Nat /\ Len(received) \in Nat /\ capacity \in Nat
      /\ Len(sent) = Len(received) + Len(buffer)
      /\ capacity' = capacity
  BY Effects, CapacityTyped, LenProperties, ConcatProperties DEF TypeOK, Kept
<1>1. ASSUME NEW m \in Messages, Accepts(m) PROVE Queue!Put(m)
  BY <1>0, <1>1 DEF Accepts, Queue!Put
<1>2. ASSUME NEW m \in Messages, Exchanges(m) PROVE Queue!PutTake(m)
  <2>1. sent[Len(received) + 1] = Head(buffer) /\ Len(received) < Len(sent)
    BY <1>0, <1>2, ConcatHead DEF Kept, Exchanges
  <2>2. sent'[Len(received) + 1] = Head(buffer)
    BY <1>0, <1>2, <2>1, AppendProperties DEF Exchanges, TypeOK
  <2> QED
    BY <1>0, <1>2, <2>2 DEF Exchanges, Queue!PutTake
<1>3. ASSUME NEW m \in Messages, Passes(m) PROVE Queue!PutTake(m)
  <2>1. Len(sent) = Len(received)
    BY <1>0, <1>3, EmptySeq DEF Passes
  <2>2. sent'[Len(received) + 1] = m
    BY <1>3, <2>1, AppendProperties DEF Passes, TypeOK
  <2> QED
    BY <1>0, <1>3, <2>2 DEF Passes, Queue!PutTake
<1>4. ASSUME Takes PROVE Queue!Take
  <2>1. sent[Len(received) + 1] = Head(buffer) /\ Len(received) < Len(sent)
    BY <1>0, <1>4, ConcatHead DEF Kept, Takes
  <2> QED
    BY <1>0, <1>4, <2>1 DEF Takes, Queue!Take
<1>5. ASSUME Closes PROVE Queue!Close
  BY <1>0, <1>5 DEF Closes, Queue!Close, TypeOK
<1>6. ASSUME Stays PROVE UNCHANGED Queue!vars
  BY <1>0, <1>6 DEF Stays, Queue!vars
<1> QED
  BY <1>1, <1>2, <1>3, <1>4, <1>5, <1>6, Effects DEF Queue!Next

\* send, receive and close together are the bounded queue of Fifo: the order is kept, every
\* message is handed over once, and none is accepted beyond the capacity or after close.
THEOREM Fifos ==
    ASSUME BoundsAssumption
    PROVE  Spec => ImplementsFifo
<1>1. Init => Queue!Init
  BY DEF Init, Queue!Init
<1>2. TypeOK /\ Queued /\ Served /\ Kept /\ [Next]_vars => [Queue!Next]_Queue!vars
  BY StepQueue
<1> QED
  BY <1>1, <1>2, AlwaysKept, PTL DEF Spec, ImplementsFifo, Queue!Spec
=============================================================================
