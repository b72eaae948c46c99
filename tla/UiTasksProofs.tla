--------------------------- MODULE UiTasksProofs ---------------------------
(***************************************************************************)
(* The tasks of a user interface for any threads, loops, priorities and    *)
(* limits: every task that was posted is in one place, and is called at    *)
(* most once.                                                              *)
(***************************************************************************)
EXTENDS UiTasks, SequenceTheorems, TLAPS

-----------------------------------------------------------------------------
(* The inductive invariant *)

\* The activations when n tasks were posted: none without a task to call, and one that is
\* to put back a rest has one, of tasks.
Fitting(n) ==
    {a \in [phase : Phases, batch : Seq(0..n), limit : Nat] :
        /\ a.batch # <<>>
        /\ a.phase = "taken" => /\ 0 < a.limit /\ a.limit < Len(a.batch)
                                /\ \A i \in DOMAIN a.batch : a.batch[i] # Direct}

\* What is ahead at each place an activation can have, in the stacks as.
RestsOf(as) ==
    [p \in Runners \X Nat |->
        IF p[2] \in DOMAIN as[p[1]] THEN Ahead(as[p[1]][p[2]]) ELSE <<>>]

Stacks(n) == [Runners -> Seq(Fitting(n))]

\* A function with another value at x.
With(f, x, v) == [f EXCEPT ![x] = v]

\* Nothing is twice in a sequence.
Once(s) == \A i, j \in DOMAIN s : s[i] = s[j] => i = j
Among(t, s) == \E i \in DOMAIN s : s[i] = t

\* Of n tasks, with the queue q, what is ahead of the activations, the calls that were made
\* and the tasks that are gone: each is in one of these, once.
Placed(q, rests, calls, gone, n) ==
    /\ Once(q) /\ \A p \in DOMAIN rests : Once(rests[p])
    /\ \A p, o \in DOMAIN rests : \A i \in DOMAIN rests[p], j \in DOMAIN rests[o] :
          rests[p][i] = rests[o][j] /\ rests[p][i] # Direct => p = o
    /\ \A p \in DOMAIN rests : \A i \in DOMAIN rests[p], j \in DOMAIN q : rests[p][i] # q[j]
    /\ \A i \in DOMAIN q : calls[q[i]] = 0 /\ q[i] \notin gone
    /\ \A p \in DOMAIN rests : \A i \in DOMAIN rests[p] :
          rests[p][i] # Direct => calls[rests[p][i]] = 0 /\ rests[p][i] \notin gone
    /\ \A t \in gone : calls[t] = 0
    /\ \A t \in 1..MaxPosts : calls[t] \in {0, 1} /\ (calls[t] = 1 => t <= n)
    /\ \A t \in 1..n : Among(t, q) \/ (\E p \in DOMAIN rests : Among(t, rests[p]))
                       \/ calls[t] = 1 \/ t \in gone

Spots == Runners \X Nat
Typed(q, rests, calls, gone, n) ==
    /\ q \in Seq(1..n) /\ rests \in [Spots -> Seq(0..n)] /\ calls \in [1..MaxPosts -> Nat]
    /\ gone \subseteq 1..n /\ n \in 0..MaxPosts /\ MaxPosts \in Nat

\* The loops, the lock and the channel, and the tasks.
Control ==
    /\ posted \in 0..MaxPosts /\ loopRunning \in BOOLEAN
    /\ current \in Loops \cup {Nobody}
    /\ loopRunning => current \in Loops
    /\ loop \in [Loops -> {"unused", "alive", "gone"}] /\ stopped \subseteq Loops
    /\ owner \in Runners \cup {Nobody} /\ unread \in NoSink..Room
Tasks ==
    /\ activations \in Stacks(posted)
    /\ Typed(queue, RestsOf(activations), runs, withdrawn, posted)
    /\ Placed(queue, RestsOf(activations), runs, withdrawn, posted)

IInv == Control /\ Tasks

-----------------------------------------------------------------------------
(* Where the tasks go *)

\* The domain and the elements of a sequence.
LEMMA SeqFacts ==
    ASSUME NEW S, NEW s \in Seq(S)
    PROVE  /\ Len(s) \in Nat /\ DOMAIN s = 1..Len(s)
           /\ \A i \in DOMAIN s : s[i] \in S
           /\ s = <<>> <=> Len(s) = 0
BY LenProperties, ElementOfSeq, EmptySeq

\* What the sequences of a state hold.
LEMMA Held ==
    ASSUME NEW q, NEW rests, NEW calls, NEW gone, NEW n, Typed(q, rests, calls, gone, n)
    PROVE  /\ \A i \in DOMAIN q : q[i] \in 1..n /\ q[i] \in 1..MaxPosts /\ q[i] # Direct
           /\ DOMAIN rests = Spots
           /\ \A p \in Spots : \A i \in DOMAIN rests[p] :
                /\ rests[p][i] \in 0..n
                /\ rests[p][i] # Direct => rests[p][i] \in 1..n /\ rests[p][i] \in 1..MaxPosts
           /\ n \in Nat /\ n + 1 \notin 1..n /\ n + 1 # Direct
           /\ \A t \in gone : t \in 1..n /\ t \in 1..MaxPosts
<1>1. \A t \in 1..n : t \in 1..MaxPosts /\ t # 0
  BY DEF Typed
<1>2. \A t \in 0..n : t # 0 => t \in 1..n
  BY DEF Typed
<1>3. \A i \in DOMAIN q : q[i] \in 1..n
  BY SeqFacts DEF Typed
<1>4. \A p \in Spots : \A i \in DOMAIN rests[p] : rests[p][i] \in 0..n
  <2> TAKE p \in Spots
  <2>1. rests[p] \in Seq(0..n)
    BY DEF Typed
  <2> QED
    BY <2>1, SeqFacts
<1>5. n \in Nat /\ n + 1 \notin 1..n /\ n + 1 # 0
  BY DEF Typed
<1>6. \A t \in gone : t \in 1..n
  BY DEF Typed
<1>7. DOMAIN rests = Spots
  BY DEF Typed
<1> QED
  BY <1>1, <1>2, <1>3, <1>4, <1>5, <1>6, <1>7 DEF Direct

\* A sequence with one more element.
LEMMA Appended ==
    ASSUME NEW S, NEW s \in Seq(S), NEW x \in S
    PROVE  /\ Append(s, x) \in Seq(S) /\ Append(s, x) # <<>>
           /\ Len(s) \in Nat /\ DOMAIN s = 1..Len(s)
           /\ Len(Append(s, x)) = Len(s) + 1 /\ DOMAIN Append(s, x) = 1..(Len(s) + 1)
           /\ \A i \in 1..Len(s) : i \in 1..(Len(s) + 1) /\ Append(s, x)[i] = s[i]
           /\ Len(s) + 1 \in 1..(Len(s) + 1) /\ Append(s, x)[Len(s) + 1] = x
           /\ \A i \in 1..(Len(s) + 1) : i \in 1..Len(s) \/ i = Len(s) + 1
<1>1. Len(s) \in Nat /\ DOMAIN s = 1..Len(s)
  BY LenProperties
<1>2. /\ Append(s, x) \in Seq(S) /\ Append(s, x) # <<>>
      /\ Len(Append(s, x)) = Len(s) + 1
      /\ \A i \in 1..Len(s) : Append(s, x)[i] = s[i]
      /\ Append(s, x)[Len(s) + 1] = x
  BY AppendProperties
<1>3. DOMAIN Append(s, x) = 1..(Len(s) + 1)
  BY <1>2, LenProperties
<1>4. /\ \A i \in 1..Len(s) : i \in 1..(Len(s) + 1)
      /\ Len(s) + 1 \in 1..(Len(s) + 1)
      /\ \A i \in 1..(Len(s) + 1) : i \in 1..Len(s) \/ i = Len(s) + 1
  BY <1>1
<1> QED
  BY <1>1, <1>2, <1>3, <1>4

\* A task is posted.
LEMMA PostPlaces ==
    ASSUME NEW q, NEW rests, NEW calls, NEW gone, NEW n, Typed(q, rests, calls, gone, n),
           n < MaxPosts, Placed(q, rests, calls, gone, n)
    PROVE  Placed(Append(q, n + 1), rests, calls, gone, n + 1)
<1> DEFINE r == Append(q, n + 1)
<1>1. n \in Nat /\ n + 1 \in 1..MaxPosts /\ (1..(n + 1)) = (1..n) \cup {n + 1}
  BY DEF Typed
<1>2. q \in Seq(1..(n + 1)) /\ n + 1 \in 1..(n + 1)
  <2>1. \A i \in 1..Len(q) : q[i] \in 1..(n + 1)
    BY <1>1, SeqFacts DEF Typed
  <2>2. q \in Seq(1..n)
    BY DEF Typed
  <2> QED
    BY <1>1, <2>1, <2>2, SeqMonotonic
<1>3. /\ DOMAIN q = 1..Len(q) /\ DOMAIN r = 1..(Len(q) + 1)
      /\ \A i \in 1..Len(q) : i \in 1..(Len(q) + 1) /\ r[i] = q[i]
      /\ Len(q) + 1 \in 1..(Len(q) + 1) /\ r[Len(q) + 1] = n + 1
      /\ \A i \in 1..(Len(q) + 1) : i \in 1..Len(q) \/ i = Len(q) + 1
  BY <1>2, Appended
<1> HIDE DEF r
<1>4. /\ \A i \in DOMAIN q : q[i] # n + 1
      /\ \A p \in DOMAIN rests : \A i \in DOMAIN rests[p] : rests[p][i] # n + 1
      /\ n + 1 \notin gone /\ calls[n + 1] = 0
  <2>1. \A p \in DOMAIN rests : \A i \in DOMAIN rests[p] : rests[p][i] # n + 1
    BY <1>1, Held
  <2>2. calls[n + 1] = 0
    <3>1. calls[n + 1] \in {0, 1} /\ (calls[n + 1] = 1 => n + 1 <= n)
      BY <1>1 DEF Placed
    <3> QED
      BY <1>1, <3>1
  <2> QED
    BY <1>1, <2>1, <2>2, Held
<1>5. Once(r)
  BY <1>3, <1>4 DEF Placed, Once
<1>6. \A p \in DOMAIN rests : \A i \in DOMAIN rests[p], j \in DOMAIN r : rests[p][i] # r[j]
  BY <1>3, <1>4 DEF Placed
<1>7. \A i \in DOMAIN r : calls[r[i]] = 0 /\ r[i] \notin gone
  BY <1>3, <1>4 DEF Placed
<1>8. \A t \in 1..MaxPosts : calls[t] \in {0, 1} /\ (calls[t] = 1 => t <= n + 1)
  <2> TAKE t \in 1..MaxPosts
  <2>1. calls[t] \in {0, 1} /\ (calls[t] = 1 => t <= n)
    BY DEF Placed
  <2> QED
    BY <1>1, <2>1
<1>9. ASSUME NEW t \in 1..(n + 1)
      PROVE  \/ Among(t, r) \/ (\E p \in DOMAIN rests : Among(t, rests[p]))
             \/ calls[t] = 1 \/ t \in gone
  <2>1. CASE t = n + 1
    BY <1>3, <2>1 DEF Among
  <2>2. CASE t \in 1..n
    <3>1. Among(t, q) => Among(t, r)
      BY <1>3 DEF Among
    <3> QED
      BY <2>2, <3>1 DEF Placed
  <2> QED
    BY <1>1, <2>1, <2>2
<1>10. Placed(r, rests, calls, gone, n + 1)
  BY <1>5, <1>6, <1>7, <1>8, <1>9 DEF Placed
<1> QED
  BY <1>10 DEF r

\* A sequence without the element at i.
LEMMA Removed ==
    ASSUME NEW S, NEW s \in Seq(S), NEW i \in DOMAIN s
    PROVE  /\ RemoveAt(s, i) \in Seq(S) /\ Len(RemoveAt(s, i)) = Len(s) - 1
           /\ \A j \in DOMAIN RemoveAt(s, i) :
                /\ j < i => j \in DOMAIN s /\ RemoveAt(s, i)[j] = s[j]
                /\ j >= i => j + 1 \in DOMAIN s /\ RemoveAt(s, i)[j] = s[j + 1]
           /\ \A j \in DOMAIN s :
                /\ j < i => j \in DOMAIN RemoveAt(s, i) /\ RemoveAt(s, i)[j] = s[j]
                /\ j > i => j - 1 \in DOMAIN RemoveAt(s, i) /\ RemoveAt(s, i)[j - 1] = s[j]
           /\ DOMAIN s \subseteq Nat /\ DOMAIN RemoveAt(s, i) \subseteq Nat
<1>1. Len(s) \in Nat /\ DOMAIN s = 1..Len(s) /\ \A j \in 1..Len(s) : s[j] \in S
  BY SeqFacts
<1>2. i \in Nat /\ 1 <= i /\ i <= Len(s)
  BY <1>1
<1> DEFINE a == SubSeq(s, 1, i - 1)
           b == SubSeq(s, i + 1, Len(s))
<1>3. /\ a \in Seq(S) /\ Len(a) = i - 1 /\ \A j \in 1..(i - 1) : a[j] = s[j]
  <2>1. \A j \in 1..(i - 1) : s[j] \in S
    BY <1>1, <1>2
  <2>2. 1 \in Int /\ i - 1 \in Int
    BY <1>2
  <2>3. a \in Seq(S) /\ Len(a) = (IF 1 <= i - 1 THEN i - 1 - 1 + 1 ELSE 0)
        /\ \A j \in 1..(i - 1 - 1 + 1) : a[j] = s[1 + j - 1]
    BY <2>1, <2>2, SubSeqProperties
  <2> QED
    BY <1>2, <2>3
<1>4. /\ b \in Seq(S) /\ Len(b) = Len(s) - i /\ \A j \in 1..(Len(s) - i) : b[j] = s[j + i]
  <2>1. \A j \in (i + 1)..Len(s) : s[j] \in S
    BY <1>1, <1>2
  <2>2. i + 1 \in Int /\ Len(s) \in Int
    BY <1>1, <1>2
  <2>3. b \in Seq(S) /\ Len(b) = (IF i + 1 <= Len(s) THEN Len(s) - (i + 1) + 1 ELSE 0)
        /\ \A j \in 1..(Len(s) - (i + 1) + 1) : b[j] = s[i + 1 + j - 1]
    BY <2>1, <2>2, SubSeqProperties
  <2> QED
    BY SMTT(30), <1>1, <1>2, <2>3
<1> HIDE DEF a, b
<1>5. RemoveAt(s, i) = a \o b
  BY DEF RemoveAt, a, b
<1> DEFINE r == a \o b
<1>6. /\ r \in Seq(S) /\ Len(r) = Len(a) + Len(b)
      /\ \A j \in 1..(Len(a) + Len(b)) : r[j] = IF j <= Len(a) THEN a[j] ELSE b[j - Len(a)]
  BY <1>3, <1>4, ConcatProperties
<1> HIDE DEF r
<1>7. Len(r) = Len(s) - 1 /\ DOMAIN r = 1..(Len(s) - 1)
  BY <1>1, <1>2, <1>3, <1>4, <1>6, LenProperties
<1>8. ASSUME NEW j \in 1..(Len(s) - 1)
      PROVE  /\ j < i => j \in DOMAIN s /\ r[j] = s[j]
             /\ j >= i => j + 1 \in DOMAIN s /\ r[j] = s[j + 1]
  <2>1. CASE j < i
    <3>1. j \in 1..(i - 1) /\ j \in DOMAIN s /\ j <= Len(a) /\ j \in 1..(Len(a) + Len(b))
      BY <1>1, <1>2, <1>3, <1>4, <2>1
    <3> QED
      BY <1>2, <1>3, <1>6, <2>1, <3>1
  <2>2. CASE j >= i
    <3>1. /\ ~(j <= Len(a)) /\ j \in 1..(Len(a) + Len(b)) /\ j + 1 \in DOMAIN s
          /\ j - Len(a) \in 1..(Len(s) - i) /\ j - Len(a) + i = j + 1 /\ ~(j < i)
      BY <1>1, <1>2, <1>3, <1>4, <2>2
    <3>2. r[j] = b[j - Len(a)]
      BY <1>6, <3>1
    <3> QED
      BY <1>4, <3>1, <3>2
  <2> QED
    BY <1>2, <2>1, <2>2
<1>9. ASSUME NEW j \in 1..Len(s)
      PROVE  /\ j < i => j \in DOMAIN r /\ r[j] = s[j]
             /\ j > i => j - 1 \in DOMAIN r /\ r[j - 1] = s[j]
  <2>1. CASE j < i
    <3>1. j \in 1..(Len(s) - 1) /\ ~(j > i)
      BY <1>1, <1>2, <2>1
    <3> QED
      BY <1>7, <1>8, <2>1, <3>1
  <2>2. CASE j > i
    <3>1. j - 1 \in 1..(Len(s) - 1) /\ j - 1 >= i /\ (j - 1) + 1 = j /\ ~(j < i)
      BY <1>1, <1>2, <2>2
    <3>2. r[j - 1] = s[(j - 1) + 1]
      BY <1>8, <3>1
    <3> QED
      BY <1>7, <3>1, <3>2
  <2>3. CASE j = i
    BY <1>2, <2>3
  <2> QED
    BY <1>2, <2>1, <2>2, <2>3
<1>10. RemoveAt(s, i) = r
  BY <1>5 DEF r
<1>11. DOMAIN s \subseteq Nat /\ DOMAIN r \subseteq Nat
  BY <1>1, <1>7
<1> QED
  BY <1>1, <1>6, <1>7, <1>8, <1>9, <1>10, <1>11

\* A task is taken out of the queue, and gone.
LEMMA CancelPlaces ==
    ASSUME NEW q, NEW rests, NEW calls, NEW gone, NEW n, Typed(q, rests, calls, gone, n),
           NEW i \in DOMAIN q, Placed(q, rests, calls, gone, n)
    PROVE  Placed(RemoveAt(q, i), rests, calls, gone \cup {q[i]}, n)
<1> DEFINE r == RemoveAt(q, i)
<1>1. q \in Seq(1..n)
  BY DEF Typed
<1>2. /\ DOMAIN q \subseteq Nat /\ DOMAIN r \subseteq Nat
      /\ \A j \in DOMAIN r : /\ j < i => j \in DOMAIN q /\ r[j] = q[j]
                             /\ j >= i => j + 1 \in DOMAIN q /\ r[j] = q[j + 1]
      /\ \A j \in DOMAIN q : /\ j < i => j \in DOMAIN r /\ r[j] = q[j]
                             /\ j > i => j - 1 \in DOMAIN r /\ r[j - 1] = q[j]
  BY <1>1, Removed
<1> HIDE DEF r
<1>3. ASSUME NEW j \in DOMAIN r
      PROVE  \E k \in DOMAIN q : /\ r[j] = q[k] /\ k # i
                                 /\ (j < i /\ k = j) \/ (j >= i /\ k = j + 1)
  <2>1. j \in Nat /\ i \in Nat /\ (j < i \/ j >= i)
    BY <1>2
  <2>2. CASE j < i
    BY <1>2, <2>1, <2>2
  <2>3. CASE j >= i
    <3>1. j + 1 # i
      BY <2>1, <2>3
    <3> QED
      BY <1>2, <2>3, <3>1
  <2> QED
    BY <2>1, <2>2, <2>3
<1>4. \A j \in DOMAIN q : j # i => \E k \in DOMAIN r : r[k] = q[j]
  <2> SUFFICES ASSUME NEW j \in DOMAIN q, j # i PROVE \E k \in DOMAIN r : r[k] = q[j]
    OBVIOUS
  <2>1. j < i \/ j > i
    BY <1>2
  <2> QED
    BY <1>2, <2>1
<1>5. Once(q)
  BY DEF Placed
<1>6. ASSUME NEW j \in DOMAIN r, NEW k \in DOMAIN r, r[j] = r[k] PROVE j = k
  <2>1. PICK a \in DOMAIN q : /\ r[j] = q[a]
                              /\ (j < i /\ a = j) \/ (j >= i /\ a = j + 1)
    BY <1>3
  <2>2. PICK b \in DOMAIN q : /\ r[k] = q[b]
                              /\ (k < i /\ b = k) \/ (k >= i /\ b = k + 1)
    BY <1>3
  <2>3. a = b
    BY <1>5, <1>6, <2>1, <2>2 DEF Once
  <2>4. j \in Nat /\ k \in Nat /\ i \in Nat
    BY <1>2
  <2> QED
    BY <2>1, <2>2, <2>3, <2>4
<1>7. Once(r)
  BY <1>6 DEF Once
<1>8. \A j \in DOMAIN r : r[j] # q[i] /\ \E k \in DOMAIN q : r[j] = q[k]
  BY <1>3, <1>5 DEF Once
<1>9. q[i] \in 1..MaxPosts /\ calls[q[i]] = 0
  BY Held DEF Placed
<1>10. \A p \in DOMAIN rests : \A j \in DOMAIN rests[p] : rests[p][j] # q[i]
  BY DEF Placed
<1>11. \A p \in DOMAIN rests : \A j \in DOMAIN rests[p], k \in DOMAIN r : rests[p][j] # r[k]
  BY <1>8 DEF Placed
<1>12. \A j \in DOMAIN r : calls[r[j]] = 0 /\ r[j] \notin gone \cup {q[i]}
  BY <1>8 DEF Placed
<1>13. \A p \in DOMAIN rests : \A j \in DOMAIN rests[p] :
          rests[p][j] # Direct => calls[rests[p][j]] = 0 /\ rests[p][j] \notin gone \cup {q[i]}
  BY <1>10 DEF Placed
<1>14. \A t \in gone \cup {q[i]} : calls[t] = 0
  BY <1>9 DEF Placed
<1>15. \A t \in 1..n :
          \/ Among(t, r) \/ (\E p \in DOMAIN rests : Among(t, rests[p]))
          \/ calls[t] = 1 \/ t \in gone \cup {q[i]}
  <2> TAKE t \in 1..n
  <2>1. Among(t, q) => Among(t, r) \/ t = q[i]
    BY <1>4 DEF Among
  <2> QED
    BY <2>1 DEF Placed
<1>16. Placed(r, rests, calls, gone \cup {q[i]}, n)
  BY <1>7, <1>11, <1>12, <1>13, <1>14, <1>15 DEF Placed
<1> QED
  BY <1>16 DEF r

\* An order of the queue has its tasks, each once.
LEMMA SortedHas ==
    ASSUME NEW n \in 0..MaxPosts, MaxPosts \in Nat, NEW q \in Seq(1..n), NEW b \in Sorted(q),
           Priority \in [1..MaxPosts -> Int]
    PROVE  /\ b \in Seq(1..n) /\ Len(b) = Len(q) /\ Once(b)
           /\ \A i \in DOMAIN b : \E j \in DOMAIN q : b[i] = q[j]
           /\ \A j \in DOMAIN q : \E i \in DOMAIN b : b[i] = q[j]
<1>1. Len(q) \in Nat /\ DOMAIN q = 1..Len(q) /\ \A i \in DOMAIN q : q[i] \in 1..n
  BY SeqFacts
<1>2. Range(q) = {q[i] : i \in DOMAIN q}
  BY DEF Range
<1>3. /\ b \in [1..Len(q) -> Range(q)] /\ Range(b) = Range(q)
      /\ \A i, j \in 1..Len(q) : i < j => Before(b[i], b[j])
  BY <1>1 DEF Sorted
<1>4. Range(b) = {b[i] : i \in DOMAIN b} /\ DOMAIN b = 1..Len(q)
  BY <1>3 DEF Range
<1>5. b \in [1..Len(q) -> 1..n]
  BY <1>1, <1>2, <1>3
<1>6. b \in Seq(1..n)
  BY <1>1, <1>5, SeqDef
<1>7. Len(b) = Len(q)
  BY <1>1, <1>4, <1>6, SeqFacts
<1>8. \A t \in 1..n : ~Before(t, t)
  <2> TAKE t \in 1..n
  <2>1. t \in 1..MaxPosts /\ t \in Int
    OBVIOUS
  <2>2. Priority[t] \in Int
    BY <2>1
  <2> QED
    BY <2>1, <2>2 DEF Before
<1>9. ASSUME NEW i \in 1..Len(q), NEW j \in 1..Len(q), b[i] = b[j] PROVE i = j
  <2>1. i \in Nat /\ j \in Nat
    BY <1>1
  <2>4. b[i] \in 1..n
    BY <1>5
  <2>2. ~(i < j)
    BY <1>3, <1>8, <1>9, <2>4
  <2>3. ~(j < i)
    BY <1>3, <1>8, <1>9, <2>4
  <2> QED
    BY <2>1, <2>2, <2>3
<1>10. \A i \in DOMAIN b : \E j \in DOMAIN q : b[i] = q[j]
  BY <1>2, <1>3, <1>4
<1>11. \A j \in DOMAIN q : \E i \in DOMAIN b : b[i] = q[j]
  BY <1>2, <1>3, <1>4
<1> QED
  BY <1>4, <1>6, <1>7, <1>9, <1>10, <1>11 DEF Once

\* A runner takes the whole queue.
LEMMA TakePlaces ==
    ASSUME NEW q, NEW rests, NEW calls, NEW gone, NEW n, Typed(q, rests, calls, gone, n),
           Priority \in [1..MaxPosts -> Int],
           NEW o \in Spots, rests[o] = <<>>, NEW b \in Sorted(q),
           Placed(q, rests, calls, gone, n)
    PROVE  Placed(<<>>, With(rests, o, b), calls, gone, n)
<1> DEFINE r == With(rests, o, b)
<1>1. /\ Once(b) /\ \A i \in DOMAIN b : \E j \in DOMAIN q : b[i] = q[j]
      /\ \A j \in DOMAIN q : \E i \in DOMAIN b : b[i] = q[j]
  BY SortedHas DEF Typed
<1>2. DOMAIN rests = Spots /\ DOMAIN r = Spots /\ r[o] = b
      /\ \A p \in Spots : p # o => r[p] = rests[p]
  BY DEF Typed, With
<1>3. DOMAIN <<>> = {} /\ DOMAIN rests[o] = {}
  BY SeqFacts
<1> HIDE DEF r
<1>4. Once(<<>>)
  BY <1>3 DEF Once
<1>5. \A p \in Spots : Once(r[p])
  BY <1>1, <1>2 DEF Placed
<1>6. ASSUME NEW p \in Spots, NEW s \in Spots, NEW i \in DOMAIN r[p], NEW j \in DOMAIN r[s],
             r[p][i] = r[s][j], r[p][i] # Direct
      PROVE  p = s
  <2>1. CASE p = o /\ s # o
    BY <1>1, <1>2, <1>6, <2>1 DEF Placed
  <2>2. CASE p # o /\ s = o
    BY <1>1, <1>2, <1>6, <2>2 DEF Placed
  <2>3. CASE p # o /\ s # o
    BY <1>2, <1>6, <2>3 DEF Placed
  <2> QED
    BY <2>1, <2>2, <2>3
<1>7. ASSUME NEW p \in Spots, NEW i \in DOMAIN r[p], r[p][i] # Direct
      PROVE  calls[r[p][i]] = 0 /\ r[p][i] \notin gone
  <2>1. CASE p = o
    BY <1>1, <1>2, <2>1 DEF Placed
  <2>2. CASE p # o
    BY <1>2, <1>7, <2>2 DEF Placed
  <2> QED
    BY <2>1, <2>2
<1>8. \A t \in 1..n :
          \/ Among(t, <<>>) \/ (\E p \in DOMAIN r : Among(t, r[p]))
          \/ calls[t] = 1 \/ t \in gone
  <2> TAKE t \in 1..n
  <2>1. Among(t, q) => Among(t, r[o])
    BY <1>1, <1>2 DEF Among
  <2>2. \A p \in Spots : Among(t, rests[p]) => p # o /\ Among(t, r[p])
    BY <1>2, <1>3 DEF Among
  <2> QED
    BY <1>2, <2>1, <2>2 DEF Placed
<1>9. Placed(<<>>, r, calls, gone, n)
  <2>1. \A t \in gone : calls[t] = 0
    BY DEF Placed
  <2>2. \A t \in 1..MaxPosts : calls[t] \in {0, 1} /\ (calls[t] = 1 => t <= n)
    BY DEF Placed
  <2> QED
    BY <1>2, <1>3, <1>4, <1>5, <1>6, <1>7, <1>8, <2>1, <2>2 DEF Placed
<1> QED
  BY <1>9 DEF r

\* A callback is dispatched, which is no task.
LEMMA DispatchPlaces ==
    ASSUME NEW q, NEW rests, NEW calls, NEW gone, NEW n, Typed(q, rests, calls, gone, n),
           NEW o \in Spots, rests[o] = <<>>, Placed(q, rests, calls, gone, n)
    PROVE  Placed(q, With(rests, o, <<Direct>>), calls, gone, n)
<1> DEFINE r == With(rests, o, <<Direct>>)
<1>1. DOMAIN rests = Spots /\ DOMAIN r = Spots /\ r[o] = <<Direct>>
      /\ \A p \in Spots : p # o => r[p] = rests[p]
  BY DEF Typed, With
<1>2. DOMAIN rests[o] = {}
  BY SeqFacts
<1> HIDE DEF r
<1>3. \A i \in DOMAIN r[o] : i = 1 /\ r[o][i] = Direct
  <2>1. DOMAIN <<Direct>> = 1..1 /\ <<Direct>>[1] = Direct
    OBVIOUS
  <2> QED
    BY <1>1, <2>1
<1>4. \A i \in DOMAIN q : q[i] # Direct
  BY Held
<1>5. \A p \in Spots : Once(r[p])
  BY <1>1, <1>3 DEF Placed, Once
<1>6. ASSUME NEW p \in Spots, NEW s \in Spots, NEW i \in DOMAIN r[p], NEW j \in DOMAIN r[s],
             r[p][i] = r[s][j], r[p][i] # Direct
      PROVE  p = s
  <2>1. p # o /\ s # o
    BY <1>3, <1>6
  <2> QED
    BY <1>1, <1>6, <2>1 DEF Placed
<1>7. \A p \in Spots : \A i \in DOMAIN r[p], j \in DOMAIN q : r[p][i] # q[j]
  BY <1>1, <1>3, <1>4 DEF Placed
<1>8. \A p \in Spots : \A i \in DOMAIN r[p] :
          r[p][i] # Direct => calls[r[p][i]] = 0 /\ r[p][i] \notin gone
  BY <1>1, <1>3 DEF Placed
<1>9. \A t \in 1..n : \A p \in Spots : Among(t, rests[p]) => p # o /\ Among(t, r[p])
  BY <1>1, <1>2 DEF Among
<1>10. \A t \in 1..n :
          \/ Among(t, q) \/ (\E p \in DOMAIN r : Among(t, r[p])) \/ calls[t] = 1 \/ t \in gone
  BY <1>1, <1>9 DEF Placed
<1>11. Placed(q, r, calls, gone, n)
  BY <1>1, <1>5, <1>6, <1>7, <1>8, <1>10 DEF Placed
<1> QED
  BY <1>11 DEF r

\* A sequence that is cut after m elements.
LEMMA CutAt ==
    ASSUME NEW S, NEW s \in Seq(S), NEW m \in 1..(Len(s) - 1)
    PROVE  LET a == SubSeq(s, 1, m)
               b == SubSeq(s, m + 1, Len(s))
           IN /\ a \in Seq(S) /\ DOMAIN a = 1..m /\ Len(a) = m /\ a # <<>>
              /\ b \in Seq(S) /\ DOMAIN b = 1..(Len(s) - m) /\ Len(b) = Len(s) - m
              /\ \A i \in 1..m : i \in DOMAIN s /\ a[i] = s[i]
              /\ \A i \in 1..(Len(s) - m) : i + m \in DOMAIN s /\ b[i] = s[i + m]
              /\ \A i \in DOMAIN s : i \in DOMAIN a \/ i - m \in DOMAIN b
<1>1. Len(s) \in Nat /\ DOMAIN s = 1..Len(s) /\ \A j \in 1..Len(s) : s[j] \in S
  BY SeqFacts
<1>2. m \in Nat /\ 1 <= m /\ m < Len(s)
  BY <1>1
<1> DEFINE a == SubSeq(s, 1, m)
           b == SubSeq(s, m + 1, Len(s))
<1>3. a \in Seq(S) /\ Len(a) = m /\ \A j \in 1..m : a[j] = s[j]
  <2>1. \A j \in 1..m : s[j] \in S
    BY <1>1, <1>2
  <2>2. a \in Seq(S) /\ Len(a) = (IF 1 <= m THEN m - 1 + 1 ELSE 0)
        /\ \A j \in 1..(m - 1 + 1) : a[j] = s[1 + j - 1]
    BY <1>2, <2>1, SubSeqProperties
  <2> QED
    BY <1>2, <2>2
<1>4. b \in Seq(S) /\ Len(b) = Len(s) - m /\ \A j \in 1..(Len(s) - m) : b[j] = s[j + m]
  <2>1. \A j \in (m + 1)..Len(s) : s[j] \in S
    BY <1>1, <1>2
  <2>2. m + 1 \in Int /\ Len(s) \in Int
    BY <1>1, <1>2
  <2>3. b \in Seq(S) /\ Len(b) = (IF m + 1 <= Len(s) THEN Len(s) - (m + 1) + 1 ELSE 0)
        /\ \A j \in 1..(Len(s) - (m + 1) + 1) : b[j] = s[m + 1 + j - 1]
    BY <2>1, <2>2, SubSeqProperties
  <2> QED
    BY <1>1, <1>2, <2>3
<1> HIDE DEF a, b
<1>5. DOMAIN a = 1..m /\ DOMAIN b = 1..(Len(s) - m) /\ a # <<>>
  BY <1>2, <1>3, <1>4, SeqFacts
<1>6. \A i \in 1..m : i \in DOMAIN s
  BY <1>1, <1>2
<1>7. \A i \in 1..(Len(s) - m) : i + m \in DOMAIN s
  BY <1>1, <1>2
<1>8. \A i \in DOMAIN s : i \in DOMAIN a \/ i - m \in DOMAIN b
  BY <1>1, <1>2, <1>5
<1> QED
  BY <1>3, <1>4, <1>5, <1>6, <1>7, <1>8 DEF a, b

\* One sequence after another.
LEMMA Joined ==
    ASSUME NEW S, NEW s \in Seq(S), NEW t \in Seq(S)
    PROVE  /\ s \o t \in Seq(S) /\ DOMAIN (s \o t) = 1..(Len(s) + Len(t))
           /\ Len(s) \in Nat /\ Len(t) \in Nat /\ DOMAIN s = 1..Len(s) /\ DOMAIN t = 1..Len(t)
           /\ \A i \in DOMAIN s : i \in DOMAIN (s \o t) /\ (s \o t)[i] = s[i]
           /\ \A i \in DOMAIN t : i + Len(s) \in DOMAIN (s \o t) /\ (s \o t)[i + Len(s)] = t[i]
           /\ \A i \in DOMAIN (s \o t) : i \in DOMAIN s \/ i - Len(s) \in DOMAIN t
<1> DEFINE c == s \o t
<1>1. Len(s) \in Nat /\ Len(t) \in Nat /\ DOMAIN s = 1..Len(s) /\ DOMAIN t = 1..Len(t)
  BY LenProperties
<1>2. /\ c \in Seq(S) /\ Len(c) = Len(s) + Len(t)
      /\ \A i \in 1..(Len(s) + Len(t)) : c[i] = IF i <= Len(s) THEN s[i] ELSE t[i - Len(s)]
  BY ConcatProperties
<1>3. DOMAIN c = 1..(Len(s) + Len(t))
  BY <1>2, LenProperties
<1> HIDE DEF c
<1>4. \A i \in DOMAIN s : i \in DOMAIN c /\ i <= Len(s)
  BY <1>1, <1>3
<1>5. \A i \in DOMAIN t :
          i + Len(s) \in DOMAIN c /\ ~(i + Len(s) <= Len(s)) /\ i + Len(s) - Len(s) = i
  BY <1>1, <1>3
<1>6. \A i \in DOMAIN c : i \in DOMAIN s \/ i - Len(s) \in DOMAIN t
  BY <1>1, <1>3
<1>7. \A i \in DOMAIN s : c[i] = s[i]
  BY <1>2, <1>3, <1>4
<1>8. \A i \in DOMAIN t : c[i + Len(s)] = t[i]
  BY <1>2, <1>3, <1>5
<1> QED
  BY <1>1, <1>2, <1>3, <1>4, <1>5, <1>6, <1>7, <1>8 DEF c

\* A runner puts back what is more than its limit.
LEMMA RequeuePlaces ==
    ASSUME NEW q, NEW rests, NEW calls, NEW gone, NEW n, Typed(q, rests, calls, gone, n),
           NEW o \in Spots, NEW m \in 1..(Len(rests[o]) - 1),
           \A i \in DOMAIN rests[o] : rests[o][i] # Direct,
           Placed(q, rests, calls, gone, n)
    PROVE  Placed(q \o SubSeq(rests[o], m + 1, Len(rests[o])),
                  With(rests, o, SubSeq(rests[o], 1, m)), calls, gone, n)
<1> DEFINE s == rests[o]
           a == SubSeq(s, 1, m)
           b == SubSeq(s, m + 1, Len(s))
           c == q \o b
           r == With(rests, o, a)
<1>1. q \in Seq(1..n) /\ s \in Seq(0..n) /\ n \in Nat /\ m \in 1..(Len(s) - 1)
  BY DEF Typed
<1>12. s = rests[o]
  OBVIOUS
<1>5. DOMAIN rests = Spots /\ DOMAIN r = Spots /\ r[o] = a
      /\ \A p \in Spots : p # o => r[p] = rests[p]
  BY DEF Typed, With
<1> HIDE DEF s, r
<1>20. b \in Seq(0..n)
  BY <1>1, CutAt
<1>2. /\ b \in Seq(0..n)
      /\ \A i \in DOMAIN a : i \in DOMAIN s /\ a[i] = s[i]
      /\ \A i \in DOMAIN b : i + m \in DOMAIN s /\ b[i] = s[i + m]
      /\ \A i \in DOMAIN s : i \in DOMAIN a \/ i - m \in DOMAIN b
      /\ DOMAIN a = 1..m /\ DOMAIN b = 1..(Len(s) - m)
      /\ DOMAIN s = 1..Len(s) /\ Len(s) \in Nat /\ m \in Nat
  <2>1. Len(s) \in Nat /\ DOMAIN s = 1..Len(s)
    BY <1>1, SeqFacts
  <2>2. m \in Nat
    BY <1>1, <2>1
  <2>3. /\ \A i \in 1..m : i \in DOMAIN s /\ a[i] = s[i]
        /\ \A i \in 1..(Len(s) - m) : i + m \in DOMAIN s /\ b[i] = s[i + m]
        /\ \A i \in DOMAIN s : i \in DOMAIN a \/ i - m \in DOMAIN b
        /\ DOMAIN a = 1..m /\ DOMAIN b = 1..(Len(s) - m)
    <3>1. \A i \in 1..m : i \in DOMAIN s /\ a[i] = s[i]
      BY ONLY <1>1, CutAt
    <3>2. \A i \in 1..(Len(s) - m) : i + m \in DOMAIN s /\ b[i] = s[i + m]
      BY ONLY <1>1, CutAt
    <3>3. \A i \in DOMAIN s : i \in DOMAIN a \/ i - m \in DOMAIN b
      BY ONLY <1>1, CutAt
    <3>4. DOMAIN a = 1..m /\ DOMAIN b = 1..(Len(s) - m)
      BY ONLY <1>1, CutAt
    <3> HIDE DEF a, b
    <3> QED
      BY ONLY <3>1, <3>2, <3>3, <3>4
  <2> HIDE DEF a, b
  <2>4. \A i \in DOMAIN a : i \in DOMAIN s /\ a[i] = s[i]
    BY ONLY <2>3
  <2>5. \A i \in DOMAIN b : i + m \in DOMAIN s /\ b[i] = s[i + m]
    BY ONLY <2>3
  <2> QED
    BY ONLY <1>20, <2>1, <2>2, <2>3, <2>4, <2>5
<1>3. q \in Seq(0..n)
  <2>1. \A i \in 1..Len(q) : q[i] \in 0..n
    BY <1>1, SeqFacts
  <2> QED
    BY <1>1, <2>1, SeqMonotonic
<1> HIDE DEF a, b
<1>4. /\ \A i \in DOMAIN q : i \in DOMAIN c /\ c[i] = q[i]
      /\ \A i \in DOMAIN b : i + Len(q) \in DOMAIN c /\ c[i + Len(q)] = b[i]
      /\ \A i \in DOMAIN c : i \in DOMAIN q \/ i - Len(q) \in DOMAIN b
      /\ DOMAIN c = 1..(Len(q) + Len(b)) /\ Len(q) \in Nat /\ Len(b) \in Nat
  BY <1>3, <1>20, Joined
<1> HIDE DEF c
<1>6. \A i \in DOMAIN c :
          (i \in DOMAIN q /\ c[i] = q[i])
            \/ (i - Len(q) \in DOMAIN b /\ c[i] = b[i - Len(q)])
  <2> SUFFICES ASSUME NEW i \in DOMAIN c, i - Len(q) \in DOMAIN b
               PROVE  c[i] = b[i - Len(q)]
    BY <1>4
  <2>1. (i - Len(q)) + Len(q) = i
    BY <1>4
  <2> QED
    BY <1>4, <2>1
<1>7. /\ Once(q) /\ Once(s)
      /\ \A i \in DOMAIN s, j \in DOMAIN q : s[i] # q[j]
      /\ \A i \in DOMAIN s : calls[s[i]] = 0 /\ s[i] \notin gone
  BY <1>5, <1>12 DEF Placed
<1>21. \A i \in DOMAIN c :
          (i \in DOMAIN q /\ c[i] = q[i])
            \/ \E k \in DOMAIN s : k \in Int /\ k > m /\ k = i - Len(q) + m /\ c[i] = s[k]
  <2> SUFFICES ASSUME NEW i \in DOMAIN c, i - Len(q) \in DOMAIN b, c[i] = b[i - Len(q)]
               PROVE  \E k \in DOMAIN s : /\ k \in Int /\ k > m /\ k = i - Len(q) + m
                                          /\ c[i] = s[k]
    BY <1>6
  <2>1. i - Len(q) + m \in DOMAIN s /\ b[i - Len(q)] = s[i - Len(q) + m]
    BY <1>2
  <2>2. i - Len(q) + m \in Int /\ i - Len(q) + m > m
    BY <1>2, <1>4
  <2> QED
    BY <2>1, <2>2
<1>8. ASSUME NEW i \in DOMAIN c, NEW j \in DOMAIN c, c[i] = c[j] PROVE i = j
  <2>1. i \in Int /\ j \in Int
    BY <1>4
  <2>2. CASE i \in DOMAIN q /\ c[i] = q[i] /\ j \in DOMAIN q /\ c[j] = q[j]
    BY <1>7, <1>8, <2>2 DEF Once
  <2>3. CASE /\ i \in DOMAIN q /\ c[i] = q[i]
             /\ \E k \in DOMAIN s : c[j] = s[k]
    BY <1>7, <1>8, <2>3
  <2>4. CASE /\ \E k \in DOMAIN s : c[i] = s[k]
             /\ j \in DOMAIN q /\ c[j] = q[j]
    BY <1>7, <1>8, <2>4
  <2>5. ASSUME NEW k \in DOMAIN s, k = i - Len(q) + m, c[i] = s[k],
               NEW l \in DOMAIN s, l = j - Len(q) + m, c[j] = s[l]
        PROVE  i = j
    <3>1. k = l
      BY <1>7, <1>8, <2>5 DEF Once
    <3> QED
      BY <1>2, <1>4, <2>1, <2>5, <3>1
  <2> QED
    BY <1>21, <2>2, <2>3, <2>4, <2>5
<1>9. Once(c)
  BY <1>8 DEF Once
<1>10. Once(a)
  BY <1>2, <1>7 DEF Once
<1>11. \A p \in Spots : Once(r[p])
  BY <1>5, <1>10 DEF Placed
<1>13. \A p \in Spots : \A i \in DOMAIN r[p] : i \in DOMAIN rests[p] /\ r[p][i] = rests[p][i]
  BY <1>2, <1>5, <1>12
<1>14. ASSUME NEW p \in Spots, NEW e \in Spots, NEW i \in DOMAIN r[p], NEW j \in DOMAIN r[e],
              r[p][i] = r[e][j], r[p][i] # Direct
       PROVE  p = e
  BY <1>5, <1>13, <1>14 DEF Placed
<1>15. ASSUME NEW p \in Spots, NEW i \in DOMAIN r[p], NEW j \in DOMAIN c PROVE r[p][i] # c[j]
  <2>1. CASE j \in DOMAIN q /\ c[j] = q[j]
    BY <1>5, <1>13, <2>1 DEF Placed
  <2>2. ASSUME NEW k \in DOMAIN s, k > m, k \in Int, c[j] = s[k] PROVE r[p][i] # c[j]
    <3>1. CASE p # o
      <4>1. c[j] # Direct
        BY <1>12, <2>2
      <4> QED
        BY <1>5, <1>12, <1>13, <2>2, <3>1, <4>1 DEF Placed
    <3>2. CASE p = o
      <4>1. i \in DOMAIN a /\ i \in DOMAIN s /\ r[p][i] = s[i]
        BY <1>2, <1>5, <3>2
      <4>2. i # k
        BY <1>2, <2>2, <4>1
      <4> QED
        BY <1>7, <2>2, <4>1, <4>2 DEF Once
    <3> QED
      BY <3>1, <3>2
  <2> QED
    BY <1>21, <2>1, <2>2
<1>16. ASSUME NEW i \in DOMAIN c PROVE calls[c[i]] = 0 /\ c[i] \notin gone
  <2>1. CASE i \in DOMAIN q /\ c[i] = q[i]
    BY <2>1 DEF Placed
  <2>2. ASSUME NEW k \in DOMAIN s, c[i] = s[k] PROVE calls[c[i]] = 0 /\ c[i] \notin gone
    <3>1. calls[s[k]] = 0 /\ s[k] \notin gone
      BY <1>7
    <3> QED
      BY <2>2, <3>1
  <2> QED
    BY <1>21, <2>1, <2>2
<1>17. \A p \in Spots : \A i \in DOMAIN r[p] :
          r[p][i] # Direct => calls[r[p][i]] = 0 /\ r[p][i] \notin gone
  BY <1>5, <1>13 DEF Placed
<1>18. ASSUME NEW t \in 1..n
       PROVE  \/ Among(t, c) \/ (\E p \in DOMAIN r : Among(t, r[p]))
              \/ calls[t] = 1 \/ t \in gone
  <2>1. Among(t, q) => Among(t, c)
    BY <1>4 DEF Among
  <2>2. \A p \in Spots : Among(t, rests[p]) => p = o \/ Among(t, r[p])
    BY <1>5
  <2>3. Among(t, s) => Among(t, c) \/ Among(t, r[o])
    <3> SUFFICES ASSUME NEW i \in DOMAIN s, s[i] = t PROVE Among(t, c) \/ Among(t, a)
      BY <1>5 DEF Among
    <3>1. CASE i \in DOMAIN a
      BY <1>2, <3>1 DEF Among
    <3>2. CASE i - m \in DOMAIN b
      <4>1. (i - m) + m = i
        BY <1>2
      <4>2. b[i - m] = t
        BY <1>2, <3>2, <4>1
      <4> QED
        BY <1>4, <3>2, <4>2 DEF Among
    <3> QED
      BY <1>2, <3>1, <3>2
  <2> QED
    BY <1>5, <1>12, <2>1, <2>2, <2>3 DEF Placed
<1>19. Placed(c, r, calls, gone, n)
  <2>1. /\ \A t \in gone : calls[t] = 0
        /\ \A t \in 1..MaxPosts : calls[t] \in {0, 1} /\ (calls[t] = 1 => t <= n)
    BY DEF Placed
  <2> QED
    BY <1>5, <1>9, <1>11, <1>14, <1>15, <1>16, <1>17, <1>18, <2>1 DEF Placed
<1> QED
  BY <1>19 DEF a, b, c, r, s

\* A sequence without its first element.
LEMMA TailOf ==
    ASSUME NEW S, NEW s \in Seq(S), s # <<>>
    PROVE  /\ Tail(s) \in Seq(S) /\ Head(s) = s[1] /\ Head(s) \in S /\ 1 \in DOMAIN s
           /\ \A i \in DOMAIN Tail(s) : i \in Nat /\ i + 1 \in DOMAIN s /\ i + 1 # 1
                                        /\ Tail(s)[i] = s[i + 1]
           /\ \A i \in DOMAIN s : i = 1 \/ (i - 1 \in DOMAIN Tail(s) /\ Tail(s)[i - 1] = s[i])
<1>1. Len(s) \in Nat \ {0} /\ DOMAIN s = 1..Len(s)
  BY EmptySeq, LenProperties
<1>2. /\ Tail(s) \in Seq(S) /\ Len(Tail(s)) = Len(s) - 1
      /\ \A i \in 1..Len(Tail(s)) : Tail(s)[i] = s[i + 1]
      /\ Head(s) = s[1] /\ Head(s) \in S
  BY HeadTailProperties
<1>3. DOMAIN Tail(s) = 1..(Len(s) - 1)
  BY <1>2, LenProperties
<1>4. \A i \in DOMAIN Tail(s) : i \in Nat /\ i + 1 \in DOMAIN s /\ i + 1 # 1
  BY <1>1, <1>3
<1>5. \A i \in DOMAIN s : i = 1 \/ (i - 1 \in DOMAIN Tail(s) /\ (i - 1) + 1 = i)
  BY <1>1, <1>3
<1>6. 1 \in DOMAIN s
  BY <1>1
<1>7. \A i \in DOMAIN Tail(s) : Tail(s)[i] = s[i + 1]
  BY <1>2, <1>3
<1>8. \A i \in DOMAIN s : i = 1 \/ (i - 1 \in DOMAIN Tail(s) /\ Tail(s)[i - 1] = s[i])
  BY <1>5, <1>7
<1> QED
  BY <1>2, <1>4, <1>6, <1>7, <1>8

\* The first of a batch is called.
LEMMA CallPlaces ==
    ASSUME NEW q, NEW rests, NEW calls, NEW gone, NEW n, Typed(q, rests, calls, gone, n),
           NEW o \in Spots, rests[o] # <<>>, Placed(q, rests, calls, gone, n)
    PROVE  LET t == Head(rests[o]) IN
           Placed(q, With(rests, o, Tail(rests[o])),
                  IF t = Direct THEN calls ELSE With(calls, t, calls[t] + 1), gone, n)
<1> DEFINE s == rests[o]
           u == Head(s)
           r == With(rests, o, Tail(s))
           d == IF u = Direct THEN calls ELSE With(calls, u, calls[u] + 1)
<1>1. s \in Seq(0..n) /\ n \in Nat
  BY DEF Typed
<1>2. /\ u = s[1] /\ 1 \in DOMAIN s
      /\ \A i \in DOMAIN Tail(s) : i \in Nat /\ i + 1 \in DOMAIN s /\ i + 1 # 1
                                   /\ Tail(s)[i] = s[i + 1]
      /\ \A i \in DOMAIN s : i = 1 \/ (i - 1 \in DOMAIN Tail(s) /\ Tail(s)[i - 1] = s[i])
  BY <1>1, TailOf
<1>3. DOMAIN rests = Spots /\ DOMAIN r = Spots /\ r[o] = Tail(s)
      /\ \A p \in Spots : p # o => r[p] = rests[p]
  BY DEF Typed, With
<1>4. u # Direct => u \in 1..n /\ u \in 1..MaxPosts /\ calls[u] = 0 /\ u \notin gone
  BY <1>2, <1>3, Held DEF Placed
<1>5. /\ u # Direct => d[u] = 1
      /\ \A t : t # u /\ t \in 1..MaxPosts => d[t] = calls[t]
      /\ u = Direct => d = calls
  BY <1>4 DEF Typed, With
<1>6. /\ \A i \in DOMAIN q : q[i] # u
      /\ \A p \in Spots : \A i \in DOMAIN r[p] : r[p][i] # Direct => r[p][i] # u
  <2>1. \A i \in DOMAIN q : q[i] # u
    BY <1>2, <1>3 DEF Placed
  <2>2. ASSUME NEW p \in Spots, NEW i \in DOMAIN r[p], r[p][i] # Direct PROVE r[p][i] # u
    <3>1. CASE p # o
      BY <1>2, <1>3, <2>2, <3>1 DEF Placed
    <3>2. CASE p = o
      <4>1. Once(s)
        BY <1>3 DEF Placed
      <4> QED
        BY <1>2, <1>3, <3>2, <4>1 DEF Once
    <3> QED
      BY <3>1, <3>2
  <2> QED
    BY <2>1, <2>2
<1>7. \A p \in Spots : \A i \in DOMAIN r[p] : \E k \in DOMAIN rests[p] : r[p][i] = rests[p][k]
  <2> TAKE p \in Spots
  <2> TAKE i \in DOMAIN r[p]
  <2>1. CASE p # o
    BY <1>3, <2>1
  <2>2. CASE p = o
    BY <1>2, <1>3, <2>2
  <2> QED
    BY <2>1, <2>2
<1>8. \A t \in gone : t \in 1..MaxPosts
  BY Held
<1>9. \A i \in DOMAIN q : q[i] \in 1..MaxPosts
  BY Held
<1>10. \A p \in Spots : \A i \in DOMAIN rests[p] :
          rests[p][i] # Direct => rests[p][i] \in 1..MaxPosts
  BY Held
<1> HIDE DEF d, r, u
<1>11. ASSUME NEW p \in Spots PROVE Once(r[p])
  <2>1. CASE p # o
    BY <1>3, <2>1 DEF Placed
  <2>2. CASE p = o
    <3>1. Once(s)
      BY <1>3 DEF Placed
    <3>2. ASSUME NEW i \in DOMAIN Tail(s), NEW j \in DOMAIN Tail(s), Tail(s)[i] = Tail(s)[j]
          PROVE  i = j
      <4>1. i + 1 = j + 1
        BY <1>2, <3>1, <3>2 DEF Once
      <4> QED
        BY <1>2, <4>1
    <3> QED
      BY <1>3, <2>2, <3>2 DEF Once
  <2> QED
    BY <2>1, <2>2
<1>12. ASSUME NEW p \in Spots, NEW e \in Spots, NEW i \in DOMAIN r[p], NEW j \in DOMAIN r[e],
              r[p][i] = r[e][j], r[p][i] # Direct
       PROVE  p = e
  <2>1. PICK k \in DOMAIN rests[p] : r[p][i] = rests[p][k]
    BY <1>7
  <2>2. PICK l \in DOMAIN rests[e] : r[e][j] = rests[e][l]
    BY <1>7
  <2>3. rests[p][k] = rests[e][l] /\ rests[p][k] # Direct
    BY <1>12, <2>1, <2>2
  <2> QED
    BY <1>3, <2>3 DEF Placed
<1>13. \A p \in Spots : \A i \in DOMAIN r[p], j \in DOMAIN q : r[p][i] # q[j]
  BY <1>3, <1>7 DEF Placed
<1>14. \A i \in DOMAIN q : d[q[i]] = 0 /\ q[i] \notin gone
  BY <1>5, <1>6, <1>9 DEF Placed
<1>15. ASSUME NEW p \in Spots, NEW i \in DOMAIN r[p], r[p][i] # Direct
       PROVE  d[r[p][i]] = 0 /\ r[p][i] \notin gone
  <2>1. PICK k \in DOMAIN rests[p] : r[p][i] = rests[p][k]
    BY <1>7
  <2>2. calls[r[p][i]] = 0 /\ r[p][i] \notin gone /\ r[p][i] \in 1..MaxPosts
    BY <1>3, <1>10, <1>15, <2>1 DEF Placed
  <2> QED
    BY <1>5, <1>6, <1>15, <2>2
<1>16. \A t \in gone : d[t] = 0
  <2> TAKE t \in gone
  <2>1. calls[t] = 0 /\ t \in 1..MaxPosts
    BY <1>8 DEF Placed
  <2> QED
    BY <1>4, <1>5, <2>1
<1>17. ASSUME NEW t \in 1..MaxPosts PROVE d[t] \in {0, 1} /\ (d[t] = 1 => t <= n)
  <2>1. calls[t] \in {0, 1} /\ (calls[t] = 1 => t <= n)
    BY DEF Placed
  <2>2. u \in 1..n => u <= n
    BY <1>1
  <2> QED
    BY <1>4, <1>5, <2>1, <2>2
<1>18. ASSUME NEW t \in 1..n
       PROVE  \/ Among(t, q) \/ (\E p \in DOMAIN r : Among(t, r[p]))
              \/ d[t] = 1 \/ t \in gone
  <2>1. t \in 1..MaxPosts /\ t # Direct
    BY DEF Typed, Direct
  <2>2. CASE t = u
    BY <1>5, <2>1, <2>2
  <2>3. CASE t # u
    <3>1. d[t] = calls[t]
      BY <1>5, <2>1, <2>3
    <3>2. \A p \in Spots : Among(t, rests[p]) => Among(t, r[p])
      <4> SUFFICES ASSUME NEW p \in Spots, Among(t, rests[p]) PROVE Among(t, r[p])
        OBVIOUS
      <4>1. CASE p # o
        BY <1>3, <4>1
      <4>2. CASE p = o
        BY <1>2, <1>3, <2>3, <4>2 DEF Among
      <4> QED
        BY <4>1, <4>2
    <3> QED
      BY <1>3, <3>1, <3>2 DEF Placed
  <2> QED
    BY <2>2, <2>3
<1>19. Placed(q, r, d, gone, n)
  <2>1. Once(q)
    BY DEF Placed
  <2> QED
    BY <1>3, <1>11, <1>12, <1>13, <1>14, <1>15, <1>16, <1>17, <1>18, <2>1 DEF Placed
<1> QED
  BY <1>19 DEF d, r, u

-----------------------------------------------------------------------------
(* The stacks of activations *)

\* An activation of a batch of tasks.
LEMMA FittingHas ==
    ASSUME NEW n \in Nat, NEW a \in Fitting(n)
    PROVE  /\ a.phase \in Phases /\ a.batch \in Seq(0..n) /\ a.limit \in Nat /\ a.batch # <<>>
           /\ a.phase = "taken" => /\ 0 < a.limit /\ a.limit < Len(a.batch)
                                   /\ \A i \in DOMAIN a.batch : a.batch[i] # Direct
           /\ Ahead(a) \in Seq(0..n)
<1>1. /\ a.phase \in Phases /\ a.batch \in Seq(0..n) /\ a.limit \in Nat /\ a.batch # <<>>
      /\ a.phase = "taken" => /\ 0 < a.limit /\ a.limit < Len(a.batch)
                              /\ \A i \in DOMAIN a.batch : a.batch[i] # Direct
  BY DEF Fitting
<1>2. Tail(a.batch) \in Seq(0..n)
  BY <1>1, TailOf
<1> QED
  BY <1>1, <1>2 DEF Ahead

\* What was posted later does not change an activation.
LEMMA FittingGrows ==
    ASSUME NEW n \in Nat, NEW m \in Nat, n <= m
    PROVE  Fitting(n) \subseteq Fitting(m)
<1> SUFFICES ASSUME NEW a \in Fitting(n) PROVE a \in Fitting(m)
  OBVIOUS
<1>1. /\ a.phase \in Phases /\ a.batch \in Seq(0..n) /\ a.limit \in Nat
  BY FittingHas
<1>2. a.batch \in Seq(0..m)
  <2>1. \A i \in 1..Len(a.batch) : a.batch[i] \in 0..m
    <3>1. \A i \in 1..Len(a.batch) : a.batch[i] \in 0..n
      BY <1>1, SeqFacts
    <3> QED
      BY <3>1
  <2> QED
    BY <1>1, <2>1, SeqMonotonic
<1> QED
  BY <1>1, <1>2 DEF Fitting

\* Stacks of what is in S are stacks of what is in T.
LEMMA StacksGrow ==
    ASSUME NEW S, NEW T, S \subseteq T, NEW as \in [Runners -> Seq(S)]
    PROVE  as \in [Runners -> Seq(T)]
<1> SUFFICES ASSUME NEW r \in Runners PROVE as[r] \in Seq(T)
  OBVIOUS
<1>1. as[r] \in Seq(S)
  OBVIOUS
<1>2. \A i \in 1..Len(as[r]) : as[r][i] \in T
  BY <1>1, SeqFacts
<1> QED
  BY <1>1, <1>2, SeqMonotonic

\* The stacks are of activations, as TypeOK has them.
LEMMA StacksTyped ==
    ASSUME NEW n \in 0..MaxPosts, MaxPosts \in Nat, NEW as \in Stacks(n)
    PROVE  as \in [Runners -> Seq(Activation)]
<1>1. Fitting(n) \subseteq Fitting(MaxPosts)
  BY FittingGrows
<1>2. Fitting(MaxPosts) \subseteq Activation
  BY DEF Fitting, Activation
<1> QED
  BY <1>1, <1>2, StacksGrow DEF Stacks

\* What is ahead at each place is tasks.
LEMMA RestsTyped ==
    ASSUME NEW n \in Nat, NEW as \in Stacks(n)
    PROVE  RestsOf(as) \in [Spots -> Seq(0..n)]
<1> SUFFICES ASSUME NEW p \in Spots
             PROVE  (IF p[2] \in DOMAIN as[p[1]] THEN Ahead(as[p[1]][p[2]]) ELSE <<>>)
                        \in Seq(0..n)
  BY DEF RestsOf, Spots
<1>1. p[1] \in Runners
  BY DEF Spots
<1>2. as[p[1]] \in Seq(Fitting(n))
  BY <1>1 DEF Stacks
<1>3. p[2] \in DOMAIN as[p[1]] => as[p[1]][p[2]] \in Fitting(n)
  BY <1>2, SeqFacts
<1>4. <<>> \in Seq(0..n)
  BY EmptySeq
<1> QED
  BY <1>3, <1>4, FittingHas

\* What is ahead at a place.
LEMMA RestAt ==
    ASSUME NEW as, NEW o \in Spots
    PROVE  RestsOf(as)[o] = IF o[2] \in DOMAIN as[o[1]] THEN Ahead(as[o[1]][o[2]]) ELSE <<>>
BY DEF RestsOf, Spots

\* Two sequences are the same but for their elements at k.
SameBut(s, t, k) ==
    \A l : l # k => /\ l \in DOMAIN s <=> l \in DOMAIN t
                    /\ l \in DOMAIN s => t[l] = s[l]

\* If two stacks differ at one place, so does what is ahead.
LEMMA RestsDiffer ==
    ASSUME NEW n \in Nat, NEW as \in Stacks(n),
           NEW at \in Stacks(n), NEW o \in Spots,
           \A e \in Runners : e # o[1] => at[e] = as[e],
           SameBut(as[o[1]], at[o[1]], o[2])
    PROVE  RestsOf(at) = With(RestsOf(as), o, RestsOf(at)[o])
<1> DEFINE f == RestsOf(as)
           g == RestsOf(at)
<1>1. f \in [Spots -> Seq(0..n)] /\ g \in [Spots -> Seq(0..n)]
  BY RestsTyped
<1>2. ASSUME NEW p \in Spots, p # o PROVE g[p] = f[p]
  <2>1. p[1] \in Runners /\ (p[1] # o[1] \/ p[2] # o[2])
    BY <1>2 DEF Spots
  <2>2. /\ f[p] = IF p[2] \in DOMAIN as[p[1]] THEN Ahead(as[p[1]][p[2]]) ELSE <<>>
        /\ g[p] = IF p[2] \in DOMAIN at[p[1]] THEN Ahead(at[p[1]][p[2]]) ELSE <<>>
    BY RestAt
  <2> HIDE DEF f, g
  <2>3. CASE p[1] # o[1]
    BY <2>1, <2>2, <2>3
  <2>4. CASE p[1] = o[1]
    <3> DEFINE c == as[o[1]]
               d == at[o[1]]
               l == p[2]
    <3>1. SameBut(c, d, o[2]) /\ l # o[2]
      BY <2>1, <2>4
    <3>2. /\ f[p] = IF l \in DOMAIN c THEN Ahead(c[l]) ELSE <<>>
          /\ g[p] = IF l \in DOMAIN d THEN Ahead(d[l]) ELSE <<>>
      BY <2>2, <2>4
    <3> HIDE DEF c, d, l
    <3>3. /\ l \in DOMAIN c <=> l \in DOMAIN d
          /\ l \in DOMAIN c => d[l] = c[l]
      BY <3>1 DEF SameBut
    <3> QED
      BY <3>2, <3>3
  <2> QED
    BY <2>3, <2>4
<1> HIDE DEF f, g
<1>3. g = With(f, o, g[o])
  BY <1>1, <1>2 DEF With
<1> QED
  BY <1>3 DEF f, g

\* The numbers up to k, and those before it.
LEMMA UpTo ==
    ASSUME NEW k \in Nat, k # 0
    PROVE  /\ k \in 1..k /\ k \notin 1..(k - 1) /\ k - 1 + 1 = k /\ k - 1 \in Nat
           /\ \A l : l # k => (l \in 1..k <=> l \in 1..(k - 1))
OBVIOUS

\* A sequence with one more element is the same but for that place.
LEMMA AppendedAt ==
    ASSUME NEW S, NEW s \in Seq(S), NEW x \in S
    PROVE  LET k == Len(s) + 1 IN
           /\ Append(s, x) \in Seq(S) /\ k \in Nat /\ SameBut(s, Append(s, x), k)
           /\ k \notin DOMAIN s /\ k \in DOMAIN Append(s, x) /\ Append(s, x)[k] = x
<1> DEFINE t == Append(s, x)
           k == Len(s) + 1
<1>1. /\ t \in Seq(S) /\ Len(s) \in Nat /\ DOMAIN s = 1..Len(s) /\ DOMAIN t = 1..k
      /\ \A i \in 1..Len(s) : t[i] = s[i]
      /\ t[k] = x
  BY Appended
<1> HIDE DEF t
<1>2. k \in Nat /\ k # 0 /\ k - 1 = Len(s)
  BY <1>1
<1> HIDE DEF k
<1>3. /\ k \in 1..k /\ k \notin 1..Len(s)
      /\ \A l : l # k => (l \in 1..k <=> l \in 1..Len(s))
  BY <1>2, UpTo
<1>4. SameBut(s, t, k)
  BY <1>1, <1>3 DEF SameBut
<1> QED
  BY <1>1, <1>2, <1>3, <1>4 DEF k, t

\* A sequence without its last element is the same but for that place.
LEMMA FrontIs ==
    ASSUME NEW S, NEW s \in Seq(S), s # <<>>
    PROVE  LET k == Len(s) IN
           /\ Front(s) \in Seq(S) /\ k \in Nat /\ SameBut(s, Front(s), k)
           /\ Len(Front(s)) + 1 = k
           /\ k \in DOMAIN s /\ k \notin DOMAIN Front(s) /\ Last(s) = s[k] /\ Last(s) \in S
<1> DEFINE f == Front(s)
           k == Len(s)
<1>1. k \in Nat /\ k # 0 /\ DOMAIN s = 1..k
  BY EmptySeq, LenProperties
<1>2. \A i \in 1..k : s[i] \in S
  BY ElementOfSeq
<1> HIDE DEF k
<1>3. /\ k \in 1..k /\ k \notin 1..(k - 1) /\ k - 1 \in Nat /\ k - 1 + 1 = k
      /\ \A l : l # k => (l \in 1..k <=> l \in 1..(k - 1))
  BY <1>1, UpTo
<1>4. \A i \in 1..(k - 1) : s[i] \in S
  BY <1>1, <1>2
<1>5. f \in Seq(S) /\ Len(f) = k - 1 /\ \A i \in 1..(k - 1) : f[i] = s[i]
  BY <1>1, <1>4, SubSeqProperties DEF Front, k
<1> HIDE DEF f
<1>6. DOMAIN f = 1..(k - 1)
  BY <1>5, LenProperties
<1>7. SameBut(s, f, k)
  BY <1>1, <1>3, <1>5, <1>6 DEF SameBut
<1>8. Last(s) = s[k] /\ Last(s) \in S
  BY <1>2, <1>3 DEF Last, k
<1> QED
  BY <1>1, <1>3, <1>5, <1>6, <1>7, <1>8 DEF f, k

\* A sequence with another last element is the same but for that place.
LEMMA LastReplaced ==
    ASSUME NEW S, NEW s \in Seq(S), s # <<>>, NEW x \in S
    PROVE  LET k == Len(s)
               t == Append(Front(s), x)
           IN /\ t \in Seq(S) /\ k \in Nat /\ SameBut(s, t, k)
              /\ k \in DOMAIN s /\ k \in DOMAIN t /\ t[k] = x
<1> DEFINE f == Front(s)
           k == Len(s)
           t == Append(f, x)
<1>1. f \in Seq(S) /\ k \in Nat /\ SameBut(s, f, k) /\ Len(f) + 1 = k /\ k \in DOMAIN s
  BY FrontIs
<1> HIDE DEF f, k
<1>2. t \in Seq(S) /\ SameBut(f, t, k) /\ k \in DOMAIN t /\ t[k] = x
  BY <1>1, AppendedAt
<1> HIDE DEF t
<1>3. SameBut(s, t, k)
  BY <1>1, <1>2 DEF SameBut
<1> QED
  BY <1>1, <1>2, <1>3 DEF f, k, t

\* The stack of one runner changes at one place.
LEMMA StackChanges ==
    ASSUME NEW n \in Nat, NEW as \in Stacks(n), NEW o \in Spots,
           NEW t \in Seq(Fitting(n)), SameBut(as[o[1]], t, o[2])
    PROVE  LET at == With(as, o[1], t) IN
           /\ at \in Stacks(n)
           /\ o[2] \in DOMAIN t => RestsOf(at) = With(RestsOf(as), o, Ahead(t[o[2]]))
           /\ o[2] \notin DOMAIN t => RestsOf(at) = With(RestsOf(as), o, <<>>)
<1> DEFINE at == With(as, o[1], t)
<1>1. o[1] \in Runners
  BY DEF Spots
<1>2. /\ at \in Stacks(n) /\ at[o[1]] = t
      /\ \A e \in Runners : e # o[1] => at[e] = as[e]
  BY <1>1 DEF With, Stacks
<1> HIDE DEF at
<1>6. SameBut(as[o[1]], at[o[1]], o[2])
  BY <1>2
<1>7. \A e \in Runners : e # o[1] => at[e] = as[e]
  BY <1>2
<1>8. at \in Stacks(n)
  BY <1>2
<1>3. RestsOf(at) = With(RestsOf(as), o, RestsOf(at)[o])
  BY <1>6, <1>7, <1>8, RestsDiffer
<1>4. RestsOf(at)[o] = IF o[2] \in DOMAIN t THEN Ahead(t[o[2]]) ELSE <<>>
  BY <1>2, RestAt
<1>5. /\ o[2] \in DOMAIN t => RestsOf(at) = With(RestsOf(as), o, Ahead(t[o[2]]))
      /\ o[2] \notin DOMAIN t => RestsOf(at) = With(RestsOf(as), o, <<>>)
  BY <1>3, <1>4
<1> QED
  BY <1>2, <1>5 DEF at

\* The place of the kth activation of a runner.
LEMMA SpotIs ==
    ASSUME NEW r \in Runners, NEW k \in Nat
    PROVE  <<r, k>> \in Spots /\ <<r, k>>[1] = r /\ <<r, k>>[2] = k
BY DEF Spots

\* A new activation.
LEMMA PushRests ==
    ASSUME NEW n \in Nat, NEW as \in Stacks(n), NEW r \in Runners,
           NEW a \in Fitting(n)
    PROVE  LET at == With(as, r, Append(as[r], a)) IN
           /\ at \in Stacks(n)
           /\ \E o \in Spots : /\ RestsOf(as)[o] = <<>>
                               /\ RestsOf(at) = With(RestsOf(as), o, Ahead(a))
<1> DEFINE s == as[r]
           t == Append(s, a)
           k == Len(s) + 1
           o == <<r, k>>
<1>1. s \in Seq(Fitting(n)) /\ s = as[r]
  BY DEF Stacks
<1> HIDE DEF s
<1>8. s \in Seq(Fitting(n))
  BY <1>1
<1>2. /\ t \in Seq(Fitting(n)) /\ k \in Nat /\ SameBut(s, t, k)
      /\ k \notin DOMAIN s /\ k \in DOMAIN t /\ t[k] = a
  BY ONLY <1>8, a \in Fitting(n), AppendedAt DEF t, k
<1> HIDE DEF t, k
<1>3. o \in Spots /\ o[1] = r /\ o[2] = k
  BY <1>2, SpotIs
<1> HIDE DEF o
<1>4. SameBut(as[o[1]], t, o[2]) /\ o[2] \in DOMAIN t /\ t[o[2]] = a
      /\ o[2] \notin DOMAIN as[o[1]]
  BY <1>1, <1>2, <1>3
<1>9. o \in Spots /\ t \in Seq(Fitting(n)) /\ SameBut(as[o[1]], t, o[2])
  BY <1>2, <1>3, <1>4
<1>5. /\ With(as, o[1], t) \in Stacks(n)
      /\ RestsOf(With(as, o[1], t)) = With(RestsOf(as), o, Ahead(t[o[2]]))
  BY ONLY n \in Nat, as \in Stacks(n), <1>4, <1>9, StackChanges
<1>10. RestsOf(With(as, o[1], t)) = With(RestsOf(as), o, Ahead(a))
  BY <1>4, <1>5
<1>6. RestsOf(as)[o] = <<>>
  BY <1>3, <1>4, RestAt
<1>7. With(as, r, Append(as[r], a)) = With(as, o[1], t)
  BY <1>3 DEF s, t
<1> QED
  BY <1>3, <1>5, <1>6, <1>7, <1>10

\* The innermost activation of a runner, and its place.
LEMMA TopRests ==
    ASSUME NEW n \in Nat, NEW as \in Stacks(n), NEW r \in Runners,
           as[r] # <<>>
    PROVE  /\ Last(as[r]) \in Fitting(n)
           /\ \E o \in Spots :
                /\ RestsOf(as)[o] = Ahead(Last(as[r]))
                /\ \A a \in Fitting(n) :
                    LET at == With(as, r, Append(Front(as[r]), a)) IN
                    /\ at \in Stacks(n)
                    /\ RestsOf(at) = With(RestsOf(as), o, Ahead(a))
                /\ LET at == With(as, r, Front(as[r])) IN
                    /\ at \in Stacks(n)
                    /\ RestsOf(at) = With(RestsOf(as), o, <<>>)
<1> DEFINE s == as[r]
           k == Len(s)
           f == Front(s)
           o == <<r, k>>
<1>1. s \in Seq(Fitting(n)) /\ s # <<>> /\ s = as[r]
  BY DEF Stacks
<1> HIDE DEF s
<1>2. /\ f \in Seq(Fitting(n)) /\ k \in Nat /\ SameBut(s, f, k) /\ k \notin DOMAIN f
      /\ k \in DOMAIN s /\ Last(s) = s[k] /\ Last(s) \in Fitting(n)
  BY <1>1, FrontIs
<1> HIDE DEF k, f
<1>3. o \in Spots /\ o[1] = r /\ o[2] = k
  BY <1>2, SpotIs
<1> HIDE DEF o
<1>4. RestsOf(as)[o] = Ahead(Last(s))
  BY <1>1, <1>2, <1>3, RestAt
<1>5. ASSUME NEW a \in Fitting(n)
      PROVE  LET at == With(as, r, Append(Front(as[r]), a)) IN
             /\ at \in Stacks(n)
             /\ RestsOf(at) = With(RestsOf(as), o, Ahead(a))
  <2> DEFINE t == Append(f, a)
  <2>1. t \in Seq(Fitting(n)) /\ SameBut(s, t, k) /\ k \in DOMAIN t /\ t[k] = a
    <3> DEFINE S == Fitting(n)
    <3>1. s \in Seq(S) /\ s # <<>> /\ a \in S
      BY <1>1
    <3> HIDE DEF S
    <3>2. LET e == Append(Front(s), a) IN
          e \in Seq(S) /\ SameBut(s, e, Len(s)) /\ Len(s) \in DOMAIN e /\ e[Len(s)] = a
      BY ONLY <3>1, LastReplaced
    <3>3. t \in Seq(S) /\ SameBut(s, t, k) /\ k \in DOMAIN t /\ t[k] = a
      BY ONLY <3>2 DEF f, k
    <3> QED
      BY <3>3 DEF S
  <2> HIDE DEF t
  <2>2. SameBut(as[o[1]], t, o[2]) /\ o[2] \in DOMAIN t /\ t[o[2]] = a
    BY <1>1, <1>3, <2>1
  <2>5. o \in Spots /\ t \in Seq(Fitting(n)) /\ SameBut(as[o[1]], t, o[2])
    BY <1>3, <2>1, <2>2
  <2>6. /\ With(as, o[1], t) \in Stacks(n)
        /\ o[2] \in DOMAIN t =>
             RestsOf(With(as, o[1], t)) = With(RestsOf(as), o, Ahead(t[o[2]]))
    BY ONLY n \in Nat, as \in Stacks(n), <2>5, StackChanges
  <2>3. RestsOf(With(as, o[1], t)) = With(RestsOf(as), o, Ahead(a))
    BY <2>2, <2>6
  <2>4. With(as, r, Append(Front(as[r]), a)) = With(as, o[1], t)
    BY <1>3 DEF f, s, t
  <2> QED
    BY <2>3, <2>4, <2>6
<1>6. LET at == With(as, r, Front(as[r])) IN
      /\ at \in Stacks(n)
      /\ RestsOf(at) = With(RestsOf(as), o, <<>>)
  <2>1. SameBut(as[o[1]], f, o[2]) /\ o[2] \notin DOMAIN f
    BY <1>1, <1>2, <1>3
  <2>2. /\ With(as, o[1], f) \in Stacks(n)
        /\ RestsOf(With(as, o[1], f)) = With(RestsOf(as), o, <<>>)
    <3>1. o \in Spots /\ f \in Seq(Fitting(n)) /\ SameBut(as[o[1]], f, o[2])
      BY <1>2, <1>3, <2>1
    <3>2. /\ With(as, o[1], f) \in Stacks(n)
          /\ o[2] \notin DOMAIN f =>
               RestsOf(With(as, o[1], f)) = With(RestsOf(as), o, <<>>)
      BY ONLY n \in Nat, as \in Stacks(n), <3>1, StackChanges
    <3> QED
      BY <2>1, <3>2
  <2>3. With(as, r, Front(as[r])) = With(as, o[1], f)
    BY <1>3 DEF f, s
  <2> QED
    BY <2>2, <2>3
<1> QED
  BY <1>2, <1>3, <1>4, <1>5, <1>6 DEF s

\* The innermost activation ends, with nothing ahead.
LEMMA PopRests ==
    ASSUME NEW n \in Nat, NEW as \in Stacks(n), NEW r \in Runners,
           as[r] # <<>>, Ahead(Last(as[r])) = <<>>
    PROVE  LET at == With(as, r, Front(as[r])) IN
           /\ at \in Stacks(n) /\ RestsOf(at) = RestsOf(as)
<1> DEFINE at == With(as, r, Front(as[r]))
<1>4. PICK o \in Spots :
          /\ RestsOf(as)[o] = Ahead(Last(as[r]))
          /\ at \in Stacks(n) /\ RestsOf(at) = With(RestsOf(as), o, <<>>)
  BY ONLY n \in Nat, as \in Stacks(n), r \in Runners, as[r] # <<>>, TopRests DEF at
<1> HIDE DEF at
<1>1. RestsOf(as)[o] = <<>> /\ at \in Stacks(n) /\ RestsOf(at) = With(RestsOf(as), o, <<>>)
  BY <1>4
<1>2. RestsOf(as) \in [Spots -> Seq(0..n)]
  BY RestsTyped
<1>3. RestsOf(at) = RestsOf(as)
  BY <1>1, <1>2 DEF With
<1> QED
  BY <1>1, <1>3 DEF at

-----------------------------------------------------------------------------
(* The steps *)

\* The innermost activation becomes one with the same tasks ahead.
LEMMA TopSame ==
    ASSUME NEW n \in Nat, NEW as \in Stacks(n), NEW r \in Runners, as[r] # <<>>,
           NEW a \in Fitting(n), Ahead(a) = Ahead(Last(as[r]))
    PROVE  /\ With(as, r, Append(Front(as[r]), a)) \in Stacks(n)
           /\ RestsOf(With(as, r, Append(Front(as[r]), a))) = RestsOf(as)
<1> DEFINE at == With(as, r, Append(Front(as[r]), a))
<1>1. PICK o \in Spots :
          /\ RestsOf(as)[o] = Ahead(Last(as[r]))
          /\ at \in Stacks(n) /\ RestsOf(at) = With(RestsOf(as), o, Ahead(a))
  BY TopRests
<1> HIDE DEF at
<1>2. RestsOf(as) \in [Spots -> Seq(0..n)]
  BY RestsTyped
<1>3. RestsOf(at) = RestsOf(as)
  BY <1>1, <1>2 DEF With
<1> QED
  BY <1>1, <1>3 DEF at

\* Tasks are among the numbers up to theirs, and among those up to the next.
LEMMA Wider ==
    ASSUME NEW n \in Nat, NEW s \in Seq(1..n)
    PROVE  s \in Seq(0..n) /\ s \in Seq(1..(n + 1))
<1>1. \A t \in 1..n : t \in 0..n /\ t \in 1..(n + 1)
  OBVIOUS
<1>2. \A i \in 1..Len(s) : s[i] \in 0..n /\ s[i] \in 1..(n + 1)
  BY <1>1, SeqFacts
<1>3. s \in Seq(0..n)
  BY <1>2, SeqMonotonic
<1>4. s \in Seq(1..(n + 1))
  BY <1>2, SeqMonotonic
<1> QED
  BY <1>3, <1>4

\* What a state has to show for its tasks.
LEMMA TasksShown ==
    ASSUME NEW n \in 0..MaxPosts, MaxPosts \in Nat, NEW as \in Stacks(n), NEW q \in Seq(1..n),
           NEW calls \in [1..MaxPosts -> Nat], NEW gone \in SUBSET (1..n)
    PROVE  Typed(q, RestsOf(as), calls, gone, n)
<1>1. n \in Nat
  OBVIOUS
<1>2. RestsOf(as) \in [Spots -> Seq(0..n)]
  BY <1>1, RestsTyped
<1> QED
  BY <1>2 DEF Typed

\* Post.
LEMMA PostKeeps == UiAssumption /\ IInv /\ Post => IInv'
<1> SUFFICES ASSUME UiAssumption, Control, Tasks, Post PROVE Control' /\ Tasks'
  BY DEF IInv
<1> DEFINE n == posted
           q == queue
           as == activations
<1>1. /\ n \in Nat /\ n + 1 \in 0..MaxPosts /\ n + 1 \in Nat /\ n < MaxPosts /\ n <= n + 1
      /\ posted' = n + 1 /\ queue' = Append(q, n + 1) /\ activations' = as
      /\ n + 1 \in 1..(n + 1) /\ 1..n \subseteq 1..(n + 1) /\ MaxPosts \in Nat
  BY DEF Post, Control, UiAssumption
<1>2. Control'
  BY <1>1 DEF Control, Post, loops
<1>3. /\ q \in Seq(1..n) /\ runs \in [1..MaxPosts -> Nat] /\ withdrawn \subseteq 1..n
      /\ as \in Stacks(n)
  BY DEF Tasks, Typed
<1>4. as \in Stacks(n + 1)
  <2>1. Fitting(n) \subseteq Fitting(n + 1)
    BY <1>1, FittingGrows
  <2> QED
    BY <1>3, <2>1, StacksGrow DEF Stacks
<1>5. Append(q, n + 1) \in Seq(1..(n + 1))
  <2> HIDE DEF n, q
  <2>1. q \in Seq(1..(n + 1))
    BY <1>1, <1>3, Wider
  <2> QED
    BY <1>1, <2>1, Appended
<1>6. withdrawn \in SUBSET (1..(n + 1))
  BY <1>1, <1>3
<1>7. Typed(Append(q, n + 1), RestsOf(as), runs, withdrawn, n + 1)
  BY <1>1, <1>3, <1>4, <1>5, <1>6, TasksShown
<1>8. Placed(Append(q, n + 1), RestsOf(as), runs, withdrawn, n + 1)
  BY <1>1, PostPlaces DEF Tasks
<1>9. runs' = runs /\ withdrawn' = withdrawn
  BY DEF Post, history
<1>10. Tasks'
  BY <1>1, <1>4, <1>7, <1>8, <1>9 DEF Tasks
<1> QED
  BY <1>2, <1>10

\* CancelTask.
LEMMA CancelKeeps ==
    ASSUME NEW t \in Posted
    PROVE  UiAssumption /\ IInv /\ CancelTask(t) => IInv'
<1> SUFFICES ASSUME UiAssumption, Control, Tasks, CancelTask(t) PROVE Control' /\ Tasks'
  BY DEF IInv
<1>1. Control'
  BY DEF Control, CancelTask, loops
<1>2. PICK i \in DOMAIN queue : queue[i] = t /\ queue' = RemoveAt(queue, i)
  BY DEF CancelTask
<1>3. /\ queue \in Seq(1..posted) /\ withdrawn \subseteq 1..posted /\ activations \in Stacks(posted)
      /\ posted \in 0..MaxPosts /\ MaxPosts \in Nat /\ runs \in [1..MaxPosts -> Nat]
  BY DEF Tasks, Typed
<1>4. queue' \in Seq(1..posted)
  BY <1>2, <1>3, Removed
<1>5. /\ withdrawn' = withdrawn \cup {t} /\ withdrawn' \in SUBSET (1..posted)
      /\ posted' = posted /\ activations' = activations /\ runs' = runs
  BY <1>3 DEF CancelTask, Posted
<1>6. Typed(queue', RestsOf(activations), runs, withdrawn', posted)
  BY <1>3, <1>4, <1>5, TasksShown
<1>7. Placed(queue', RestsOf(activations), runs, withdrawn', posted)
  BY <1>2, <1>5, CancelPlaces DEF Tasks
<1>8. Tasks'
  BY <1>3, <1>5, <1>6, <1>7 DEF Tasks
<1> QED
  BY <1>1, <1>8

\* Take.
LEMMA TakeKeeps ==
    ASSUME NEW r \in Runners, NEW limit \in Nat
    PROVE  UiAssumption /\ IInv /\ Take(r, limit) => IInv'
<1> SUFFICES ASSUME UiAssumption, Control, Tasks, Take(r, limit) PROVE Control' /\ Tasks'
  BY DEF IInv
<1>1. Control'
  BY DEF Control, Take, loops
<1> DEFINE n == posted
           A(b) == [phase |-> IF 0 < limit /\ limit < Len(b) THEN "taken" ELSE "locking",
                    batch |-> b, limit |-> limit]
<1>2. PICK b \in Sorted(queue) : Push(r, A(b))
  BY DEF Take
<1>3. /\ queue \in Seq(1..n) /\ activations \in Stacks(n) /\ withdrawn \in SUBSET (1..n)
      /\ n \in 0..MaxPosts /\ MaxPosts \in Nat /\ n \in Nat /\ runs \in [1..MaxPosts -> Nat]
  BY DEF Tasks, Typed
<1>4. b \in Seq(1..n) /\ Len(b) = Len(queue)
  BY <1>2, <1>3, SortedHas DEF UiAssumption
<1>5. Len(b) \in Nat /\ b # <<>> /\ \A i \in DOMAIN b : b[i] \in 1..n /\ b[i] # Direct
  <2>1. Len(queue) # 0
    BY <1>3, SeqFacts DEF Take
  <2>2. \A i \in DOMAIN b : b[i] \in 1..n
    BY <1>4, SeqFacts
  <2> QED
    BY <1>4, <2>1, <2>2, SeqFacts DEF Direct
<1>6. b \in Seq(0..n)
  <2> HIDE DEF n
  <2> QED
    BY <1>3, <1>4, Wider
<1>7. A(b) \in Fitting(n) /\ Ahead(A(b)) = b
  BY <1>5, <1>6 DEF Fitting, Phases, Ahead
<1> HIDE DEF A
<1>8. activations' = With(activations, r, Append(activations[r], A(b)))
  BY <1>2 DEF Push, With
<1>9. /\ activations' \in Stacks(n)
      /\ \E o \in Spots : /\ RestsOf(activations)[o] = <<>>
                          /\ RestsOf(activations') = With(RestsOf(activations), o, b)
  <2> DEFINE a == A(b)
             as == activations
             at == With(as, r, Append(as[r], a))
  <2>1. a \in Fitting(n) /\ Ahead(a) = b /\ as \in Stacks(n) /\ n \in Nat
    BY <1>3, <1>7
  <2> HIDE DEF a, as, n
  <2>2. /\ at \in Stacks(n)
        /\ \E o \in Spots : /\ RestsOf(as)[o] = <<>>
                            /\ RestsOf(at) = With(RestsOf(as), o, Ahead(a))
    BY <2>1, PushRests
  <2>3. activations' = at
    BY <1>8 DEF a, as
  <2> QED
    BY <2>1, <2>2, <2>3 DEF as
<1>10. /\ queue' = <<>> /\ runs' = runs /\ withdrawn' = withdrawn /\ posted' = posted
  BY DEF Take, history
<1>11. <<>> \in Seq(1..n)
  BY EmptySeq
<1>12. Typed(<<>>, RestsOf(activations'), runs, withdrawn, n)
  BY <1>3, <1>9, <1>11, TasksShown
<1>13. Placed(<<>>, RestsOf(activations'), runs, withdrawn, n)
  <2>1. PICK o \in Spots : /\ RestsOf(activations)[o] = <<>>
                           /\ RestsOf(activations') = With(RestsOf(activations), o, b)
    BY <1>9
  <2> QED
    BY <1>2, <2>1, TakePlaces DEF Tasks, UiAssumption
<1>14. Tasks'
  BY <1>9, <1>10, <1>12, <1>13 DEF Tasks
<1> QED
  BY <1>1, <1>14

\* A sequence is of what its elements are.
LEMMA Narrower ==
    ASSUME NEW S, NEW s \in Seq(S), NEW T, \A i \in 1..Len(s) : s[i] \in T
    PROVE  s \in Seq(T)
<1>1. Len(s) \in Nat /\ s \in [1..Len(s) -> S]
  BY LenProperties
<1>2. s \in [1..Len(s) -> T]
  BY <1>1
<1> QED
  BY <1>1, <1>2, SeqDef

\* The innermost activation of a runner that is in a phase.
LEMMA TopHas ==
    ASSUME Tasks, NEW r \in Runners, NEW phase, InPhase(r, phase)
    PROVE  /\ posted \in Nat /\ activations \in Stacks(posted) /\ activations[r] # <<>>
           /\ Top(r) = Last(activations[r]) /\ Top(r) \in Fitting(posted)
           /\ Top(r).phase = phase
<1>1. posted \in Nat /\ activations \in Stacks(posted)
  BY DEF Tasks, Typed
<1>2. activations[r] # <<>> /\ Top(r) = Last(activations[r]) /\ Top(r).phase = phase
  BY DEF InPhase, Busy, Top
<1>3. Last(activations[r]) \in Fitting(posted)
  BY <1>1, <1>2, TopRests
<1> QED
  BY <1>1, <1>2, <1>3

\* A step of a runner that leaves the tasks where they are.
LEMMA TasksStay ==
    ASSUME Tasks, activations' \in Stacks(posted), RestsOf(activations') = RestsOf(activations),
           UNCHANGED tasks, UNCHANGED history
    PROVE  Tasks'
BY DEF Tasks, tasks, history

\* Requeue.
LEMMA RequeueKeeps ==
    ASSUME NEW r \in Runners
    PROVE  UiAssumption /\ IInv /\ Requeue(r) => IInv'
<1> SUFFICES ASSUME UiAssumption, Control, Tasks, Requeue(r) PROVE Control' /\ Tasks'
  BY DEF IInv
<1>1. Control'
  BY DEF Control, Requeue, loops
<1> DEFINE n == posted
           as == activations
           a == Top(r)
           m == a.limit
           s == a.batch
           x == [a EXCEPT !.phase = "locking", !.batch = SubSeq(@, 1, a.limit)]
           y == SubSeq(s, m + 1, Len(s))
           at == With(as, r, Append(Front(as[r]), x))
<1>2. /\ n \in Nat /\ as \in Stacks(n) /\ as[r] # <<>> /\ a = Last(as[r]) /\ a \in Fitting(n)
      /\ a.phase = "taken"
  BY TopHas DEF Requeue
<1>3. queue' = queue \o y /\ activations' = at
  BY DEF Requeue, SetTop, With
<1>4. /\ queue \in Seq(1..n) /\ withdrawn \in SUBSET (1..n)
      /\ n \in 0..MaxPosts /\ MaxPosts \in Nat /\ runs \in [1..MaxPosts -> Nat]
      /\ Typed(queue, RestsOf(as), runs, withdrawn, n)
      /\ Placed(queue, RestsOf(as), runs, withdrawn, n)
  BY DEF Tasks, Typed
<1>5. /\ posted' = n /\ runs' = runs /\ withdrawn' = withdrawn
  BY DEF Requeue, history
<1>6. as[r] # <<>> /\ as \in Stacks(n)
  BY <1>2
<1> HIDE DEF n, as, y, at
<1>7. /\ s \in Seq(0..n) /\ m \in Nat /\ 0 < m /\ m < Len(s) /\ Len(s) \in Nat
      /\ \A i \in DOMAIN s : s[i] # Direct
  <2>1. /\ s \in Seq(0..n) /\ m \in Nat /\ 0 < m /\ m < Len(s)
        /\ \A i \in DOMAIN s : s[i] # Direct
    BY <1>2, FittingHas
  <2>2. Len(s) \in Nat
    BY <2>1, SeqFacts
  <2> QED
    BY <2>1, <2>2
<1>8. Ahead(a) = s
  BY <1>2 DEF Ahead
<1>9. x \in Fitting(n) /\ Ahead(x) = SubSeq(s, 1, m)
  <2>1. a \in [phase : Phases, batch : Seq(0..n), limit : Nat]
    BY <1>2 DEF Fitting
  <2>2. m \in 1..(Len(s) - 1)
    BY <1>7
  <2>5. s \in Seq(0..n)
    BY <1>7
  <2> HIDE DEF a, s, m
  <2> DEFINE S == 0..n
  <2>6. s \in Seq(S)
    BY <2>5
  <2> HIDE DEF S
  <2>7. SubSeq(s, 1, m) \in Seq(S) /\ SubSeq(s, 1, m) # <<>>
    BY ZenonT(40), <2>2, <2>6, CutAt
  <2>3. SubSeq(s, 1, m) \in Seq(0..n) /\ SubSeq(s, 1, m) # <<>>
    BY <2>7 DEF S
  <2>4. /\ x \in [phase : Phases, batch : Seq(0..n), limit : Nat]
        /\ x.phase = "locking" /\ x.batch = SubSeq(s, 1, m)
    BY <2>1, <2>3 DEF Phases, s, m
  <2> HIDE DEF x
  <2> QED
    BY <2>3, <2>4 DEF Fitting, Ahead
<1> HIDE DEF x, a, s, m
<1>10. PICK o \in Spots :
          /\ RestsOf(as)[o] = Ahead(Last(as[r]))
          /\ at \in Stacks(n) /\ RestsOf(at) = With(RestsOf(as), o, Ahead(x))
  BY <1>2, <1>6, <1>9, TopRests DEF at
<1>11. RestsOf(as)[o] = s
  BY <1>2, <1>8, <1>10
<1>12. m \in 1..(Len(s) - 1)
  BY <1>7
<1>13. Placed(queue \o y, RestsOf(at), runs, withdrawn, n)
  <2>1. /\ \A i \in DOMAIN RestsOf(as)[o] : RestsOf(as)[o][i] # Direct
        /\ m \in 1..(Len(RestsOf(as)[o]) - 1)
    BY <1>7, <1>11, <1>12
  <2>2. Placed(queue \o SubSeq(RestsOf(as)[o], m + 1, Len(RestsOf(as)[o])),
               With(RestsOf(as), o, SubSeq(RestsOf(as)[o], 1, m)), runs, withdrawn, n)
    BY <1>4, <2>1, RequeuePlaces
  <2> QED
    BY <1>9, <1>10, <1>11, <2>2 DEF y
<1>14. queue \o y \in Seq(1..n)
  <2>1. \A i \in 1..Len(s) : s[i] \in 1..n
    <3>1. \A i \in 1..Len(s) : s[i] \in 0..n /\ s[i] # 0
      BY <1>7, SeqFacts DEF Direct
    <3> QED
      BY <1>2, <3>1
  <2>4. s \in Seq(0..n)
    BY <1>7
  <2>2. s \in Seq(1..n)
    BY <2>1, <2>4, Narrower
  <2>3. y \in Seq(1..n)
    BY <1>12, <2>2, CutAt DEF y
  <2> QED
    BY <1>4, <2>3, Joined
<1>15. Typed(queue \o y, RestsOf(at), runs, withdrawn, n)
  BY <1>4, <1>10, <1>14, TasksShown
<1>16. Tasks'
  BY <1>3, <1>5, <1>10, <1>13, <1>15 DEF Tasks
<1> QED
  BY <1>1, <1>16

\* Dispatch.
LEMMA DispatchKeeps ==
    ASSUME NEW r \in Runners
    PROVE  UiAssumption /\ IInv /\ Dispatch(r) => IInv'
<1> SUFFICES ASSUME UiAssumption, Control, Tasks, Dispatch(r) PROVE Control' /\ Tasks'
  BY DEF IInv
<1>1. Control'
  BY DEF Control, Dispatch, tasks, loops
<1> DEFINE n == posted
           as == activations
           a == [phase |-> "locking", batch |-> <<Direct>>, limit |-> 0]
           at == With(as, r, Append(as[r], a))
<1>2. activations' = at
  BY DEF Dispatch, Push, With
<1>3. /\ queue \in Seq(1..n) /\ withdrawn \in SUBSET (1..n) /\ n \in Nat
      /\ n \in 0..MaxPosts /\ MaxPosts \in Nat /\ runs \in [1..MaxPosts -> Nat]
      /\ Typed(queue, RestsOf(as), runs, withdrawn, n)
      /\ Placed(queue, RestsOf(as), runs, withdrawn, n)
      /\ as \in Stacks(n)
  BY DEF Tasks, Typed
<1>4. posted' = n /\ queue' = queue /\ runs' = runs /\ withdrawn' = withdrawn
  BY DEF Dispatch, tasks, history
<1> HIDE DEF n, as, at
<1>5. a \in Fitting(n) /\ Ahead(a) = <<Direct>>
  <2>1. <<0>> \in Seq(0..n) /\ <<0>> # <<>>
    BY <1>3
  <2> QED
    BY <2>1 DEF Fitting, Phases, Ahead, Direct
<1> HIDE DEF a
<1>6. PICK o \in Spots : /\ at \in Stacks(n) /\ RestsOf(as)[o] = <<>>
                         /\ RestsOf(at) = With(RestsOf(as), o, Ahead(a))
  BY <1>3, <1>5, PushRests DEF at
<1>7. Placed(queue, RestsOf(at), runs, withdrawn, n)
  BY <1>3, <1>5, <1>6, DispatchPlaces
<1>8. Typed(queue, RestsOf(at), runs, withdrawn, n)
  BY <1>3, <1>6, TasksShown
<1>9. Tasks'
  BY <1>2, <1>4, <1>6, <1>7, <1>8 DEF Tasks
<1> QED
  BY <1>1, <1>9

\* Enter.
LEMMA EnterKeeps ==
    ASSUME NEW r \in Runners
    PROVE  UiAssumption /\ IInv /\ Enter(r) => IInv'
<1> SUFFICES ASSUME UiAssumption, Control, Tasks, Enter(r) PROVE Control' /\ Tasks'
  BY DEF IInv
<1>1. Control'
  BY DEF Control, Enter, tasks, loops
<1> DEFINE n == posted
           as == activations
           a == Top(r)
           x == [a EXCEPT !.phase = "calling"]
           at == With(as, r, Append(Front(as[r]), x))
           rests == RestsOf(as)
           calls == runs
           t == Head(a.batch)
           d == IF t = Direct THEN calls ELSE With(calls, t, calls[t] + 1)
<1>2. /\ n \in Nat /\ as \in Stacks(n) /\ as[r] # <<>> /\ a = Last(as[r]) /\ a \in Fitting(n)
      /\ a.phase = "locking"
  BY TopHas DEF Enter
<1>3. activations' = at /\ runs' = d
  BY DEF Enter, SetTop, With
<1>4. /\ queue \in Seq(1..n) /\ withdrawn \in SUBSET (1..n)
      /\ n \in 0..MaxPosts /\ MaxPosts \in Nat /\ calls \in [1..MaxPosts -> Nat]
      /\ Typed(queue, rests, calls, withdrawn, n)
      /\ Placed(queue, rests, calls, withdrawn, n)
  BY DEF Tasks, Typed
<1>5. posted' = n /\ queue' = queue /\ withdrawn' = withdrawn
  BY DEF Enter, tasks
<1>6. as[r] # <<>> /\ as \in Stacks(n)
  BY <1>2
<1> HIDE DEF n, as, at, calls
<1>7. /\ Ahead(a) = a.batch /\ a.batch \in Seq(0..n) /\ a.batch # <<>>
  BY <1>2, FittingHas DEF Ahead
<1>8. x \in Fitting(n) /\ Ahead(x) = Tail(a.batch)
  <2>1. a \in [phase : Phases, batch : Seq(0..n), limit : Nat]
    BY <1>2 DEF Fitting
  <2> HIDE DEF a
  <2>2. /\ x \in [phase : Phases, batch : Seq(0..n), limit : Nat]
        /\ x.phase = "calling" /\ x.batch = a.batch
    BY <2>1 DEF Phases
  <2> HIDE DEF x
  <2> QED
    BY <1>7, <2>2 DEF Fitting, Ahead
<1> HIDE DEF x, a
<1>9. PICK o \in Spots :
          /\ RestsOf(as)[o] = Ahead(Last(as[r]))
          /\ at \in Stacks(n) /\ RestsOf(at) = With(RestsOf(as), o, Ahead(x))
  BY <1>2, <1>6, <1>8, TopRests DEF at
<1>10. rests[o] = a.batch /\ RestsOf(at) = With(rests, o, Tail(rests[o]))
  BY <1>2, <1>7, <1>8, <1>9
<1> HIDE DEF rests
<1>11. Placed(queue, RestsOf(at), d, withdrawn, n)
  <2>1. rests[o] # <<>>
    BY <1>7, <1>10
  <2>2. Placed(queue, With(rests, o, Tail(rests[o])),
               IF Head(rests[o]) = Direct THEN calls
               ELSE With(calls, Head(rests[o]), calls[Head(rests[o])] + 1), withdrawn, n)
    BY <1>4, <2>1, CallPlaces
  <2> QED
    BY <1>10, <2>2
<1>12. d \in [1..MaxPosts -> Nat]
  <2>1. With(calls, t, calls[t] + 1) \in [1..MaxPosts -> Nat]
    <3> HIDE DEF t
    <3>1. \A u \in 1..MaxPosts : calls[u] \in Nat /\ calls[u] + 1 \in Nat
      BY <1>4
    <3> QED
      BY <1>4, <3>1 DEF With
  <2> QED
    BY <1>4, <2>1
<1> HIDE DEF d
<1>13. Typed(queue, RestsOf(at), d, withdrawn, n)
  BY <1>4, <1>9, <1>12, TasksShown
<1>14. Tasks'
  BY <1>3, <1>5, <1>9, <1>11, <1>13 DEF Tasks
<1> QED
  BY <1>1, <1>14

\* Return.
LEMMA ReturnKeeps ==
    ASSUME NEW r \in Runners
    PROVE  UiAssumption /\ IInv /\ Return(r) => IInv'
<1> SUFFICES ASSUME UiAssumption, Control, Tasks, Return(r) PROVE Control' /\ Tasks'
  BY DEF IInv
<1>1. Control'
  BY DEF Control, Return, tasks, loops
<1> DEFINE n == posted
           as == activations
           a == Top(r)
           x == [a EXCEPT !.phase = "emitting"]
           at == With(as, r, Append(Front(as[r]), x))
<1>2. /\ n \in Nat /\ as \in Stacks(n) /\ as[r] # <<>> /\ a = Last(as[r]) /\ a \in Fitting(n)
      /\ a.phase = "calling"
  BY TopHas DEF Return
<1>3. activations' = at
  BY DEF Return, SetTop, With
<1>4. UNCHANGED tasks /\ UNCHANGED history
  BY DEF Return
<1>5. as[r] # <<>> /\ as \in Stacks(n)
  BY <1>2
<1> HIDE DEF as, at
<1>6. x \in Fitting(n) /\ Ahead(x) = Ahead(a)
  <2>1. a \in [phase : Phases, batch : Seq(0..n), limit : Nat] /\ a.batch # <<>>
    BY <1>2 DEF Fitting
  <2>2. a.phase = "calling"
    BY <1>2
  <2> HIDE DEF a
  <2>3. /\ x \in [phase : Phases, batch : Seq(0..n), limit : Nat]
        /\ x.phase = "emitting" /\ x.batch = a.batch
    BY <2>1 DEF Phases
  <2> HIDE DEF x
  <2> QED
    BY <2>1, <2>2, <2>3 DEF Fitting, Ahead
<1> HIDE DEF x, a
<1>7. Ahead(x) = Ahead(Last(as[r]))
  BY <1>2, <1>6
<1>8. at \in Stacks(n) /\ RestsOf(at) = RestsOf(as)
  BY <1>2, <1>5, <1>6, <1>7, TopSame DEF at
<1>9. Tasks'
  BY <1>3, <1>4, <1>8, TasksStay DEF as
<1> QED
  BY <1>1, <1>9

\* Emit.
LEMMA EmitKeeps ==
    ASSUME NEW r \in Runners
    PROVE  UiAssumption /\ IInv /\ Emit(r) => IInv'
<1> SUFFICES ASSUME UiAssumption, Control, Tasks, Emit(r) PROVE Control' /\ Tasks'
  BY DEF IInv
<1>1. Control'
  <2>1. unread' \in NoSink..Room
    BY DEF Control, Emit, UiAssumption, NoSink
  <2> QED
    BY <2>1 DEF Control, Emit, tasks, loops
<1> DEFINE n == posted
           as == activations
           a == Top(r)
           x == [a EXCEPT !.phase = "locking", !.batch = Tail(a.batch)]
           at == With(as, r, Append(Front(as[r]), x))
           less == With(as, r, Front(as[r]))
<1>2. /\ n \in Nat /\ as \in Stacks(n) /\ as[r] # <<>> /\ a = Last(as[r]) /\ a \in Fitting(n)
      /\ a.phase = "emitting"
  BY TopHas DEF Emit
<1>3. activations' = IF Tail(a.batch) = <<>> THEN less ELSE at
  BY DEF Emit, SetTop, With
<1>4. UNCHANGED tasks /\ UNCHANGED history
  BY DEF Emit
<1>5. as[r] # <<>> /\ as \in Stacks(n)
  BY <1>2
<1> HIDE DEF as, at, less
<1>6. Ahead(a) = Tail(a.batch)
  BY <1>2 DEF Ahead
<1>7. CASE Tail(a.batch) = <<>>
  <2>1. Ahead(Last(as[r])) = <<>>
    BY <1>2, <1>6, <1>7
  <2>2. less \in Stacks(n) /\ RestsOf(less) = RestsOf(as)
    BY <1>2, <1>5, <2>1, PopRests DEF less
  <2>3. Tasks'
    BY <1>3, <1>4, <1>7, <2>2, TasksStay DEF as
  <2> QED
    BY <1>1, <2>3
<1>8. CASE Tail(a.batch) # <<>>
  <2>1. x \in Fitting(n) /\ Ahead(x) = Ahead(a)
    <3>1. a \in [phase : Phases, batch : Seq(0..n), limit : Nat] /\ a.batch # <<>>
      BY <1>2 DEF Fitting
    <3>2. Tail(a.batch) \in Seq(0..n)
      BY <3>1, TailOf
    <3> HIDE DEF a
    <3>3. /\ x \in [phase : Phases, batch : Seq(0..n), limit : Nat]
          /\ x.phase = "locking" /\ x.batch = Tail(a.batch)
      BY <3>1, <3>2 DEF Phases
    <3> HIDE DEF x
    <3> QED
      BY <1>6, <1>8, <3>3 DEF Fitting, Ahead
  <2> HIDE DEF x, a
  <2>2. Ahead(x) = Ahead(Last(as[r]))
    BY <1>2, <2>1
  <2>3. at \in Stacks(n) /\ RestsOf(at) = RestsOf(as)
    BY <1>2, <1>5, <2>1, <2>2, TopSame DEF at
  <2>4. Tasks'
    BY <1>3, <1>4, <1>8, <2>3, TasksStay DEF as
  <2> QED
    BY <1>1, <2>4
<1> QED
  BY <1>7, <1>8

\* DispatchFails.
LEMMA DispatchFailsKeeps ==
    ASSUME NEW r \in Runners
    PROVE  UiAssumption /\ IInv /\ DispatchFails(r) => IInv'
<1> SUFFICES ASSUME UiAssumption, Control, Tasks, DispatchFails(r) PROVE Control' /\ Tasks'
  BY DEF IInv
<1>1. Control'
  BY DEF Control, DispatchFails, tasks, loops
<1> DEFINE as == activations
           less == With(as, r, Front(as[r]))
<1>2. /\ posted \in Nat /\ as \in Stacks(posted) /\ as[r] # <<>> /\ Top(r) = Last(as[r])
      /\ Top(r).phase = "calling"
  BY TopHas DEF DispatchFails
<1>3. Top(r).batch = <<Direct>> /\ activations' = less
  BY DEF DispatchFails, With
<1>4. UNCHANGED tasks /\ UNCHANGED history
  BY DEF DispatchFails
<1>5. Ahead(Last(as[r])) = <<>>
  <2>1. Tail(<<Direct>>) = <<>>
    OBVIOUS
  <2> QED
    BY <1>2, <1>3, <2>1 DEF Ahead
<1> HIDE DEF as, less
<1>6. less \in Stacks(posted) /\ RestsOf(less) = RestsOf(as)
  BY <1>2, <1>5, PopRests DEF less
<1>7. Tasks'
  BY <1>3, <1>4, <1>6, TasksStay DEF as
<1> QED
  BY <1>1, <1>7

\* The steps of the loops and of the channel, which touch no task.
LEMMA ControlKeeps ==
    UiAssumption /\ IInv
        /\ (OpenEvents \/ ReadEvent \/ StopLoop
              \/ (\E l \in Loops : StartLoop(l) \/ Exit(l)))
        => IInv'
<1> SUFFICES ASSUME UiAssumption, Control, Tasks,
                    OpenEvents \/ ReadEvent \/ StopLoop
                      \/ (\E l \in Loops : StartLoop(l) \/ Exit(l))
             PROVE  Control' /\ Tasks'
  BY DEF IInv
<1>1. Tasks'
  BY DEF Tasks, OpenEvents, ReadEvent, StopLoop, StartLoop, Exit, tasks, history
<1>2. CASE OpenEvents
  BY <1>1, <1>2 DEF Control, OpenEvents, UiAssumption, NoSink, tasks, loops
<1>3. CASE ReadEvent
  BY <1>1, <1>3 DEF Control, ReadEvent, UiAssumption, NoSink, tasks, loops
<1>4. CASE StopLoop
  <2>1. current \in Loops
    BY <1>4 DEF Control, StopLoop
  <2>2. stopped' \subseteq Loops
    BY <1>4, <2>1 DEF Control, StopLoop
  <2>3. loopRunning' = FALSE /\ current' = Nobody
    BY <1>4 DEF StopLoop
  <2>4. /\ loopRunning' \in BOOLEAN
        /\ loopRunning' => current' \in Loops
        /\ current' \in Loops \cup {Nobody}
    BY <2>3
  <2>5. /\ posted' \in 0..MaxPosts /\ loop' \in [Loops -> {"unused", "alive", "gone"}]
        /\ owner' \in Runners \cup {Nobody} /\ unread' \in NoSink..Room
    BY <1>4 DEF Control, StopLoop, tasks
  <2> QED
    BY <1>1, <2>2, <2>4, <2>5 DEF Control
<1>5. ASSUME NEW l \in Loops, StartLoop(l) PROVE Control'
  BY <1>5 DEF Control, StartLoop, tasks
<1>6. ASSUME NEW l \in Loops, Exit(l) PROVE Control'
  BY <1>6 DEF Control, Exit, tasks
<1> QED
  BY <1>1, <1>2, <1>3, <1>4, <1>5, <1>6

\* At the start.
LEMMA InitHolds == UiAssumption /\ Init => IInv
<1> SUFFICES ASSUME UiAssumption, Init PROVE Control /\ Tasks
  BY DEF IInv
<1>1. Control
  <2>1. 0 \in 0..MaxPosts /\ -1 \in -1..Room
    BY DEF UiAssumption
  <2>2. posted \in 0..MaxPosts /\ unread \in NoSink..Room
    BY <2>1 DEF Init, NoSink
  <2>4. loopRunning = FALSE
    BY DEF Init
  <2>5. loopRunning \in BOOLEAN /\ (loopRunning => current \in Loops)
    BY <2>4
  <2>3. /\ current \in Loops \cup {Nobody} /\ owner \in Runners \cup {Nobody}
        /\ loop \in [Loops -> {"unused", "alive", "gone"}] /\ stopped \subseteq Loops
    BY DEF Init
  <2> QED
    BY <2>2, <2>3, <2>5 DEF Control
<1>2. 0 \in 0..MaxPosts /\ MaxPosts \in Nat
  BY DEF UiAssumption
<1>3. activations \in Stacks(0)
  <2>1. <<>> \in Seq(Fitting(0))
    BY EmptySeq
  <2> QED
    BY <2>1 DEF Init, Stacks
<1>4. <<>> \in Seq(1..0) /\ DOMAIN <<>> = {}
  BY EmptySeq
<1>5. runs \in [1..MaxPosts -> Nat] /\ \A t \in 1..MaxPosts : runs[t] = 0
  BY DEF Init
<1>6. Typed(<<>>, RestsOf(activations), runs, {}, 0)
  BY <1>2, <1>3, <1>4, <1>5, TasksShown
<1>7. \A p \in Spots : RestsOf(activations)[p] = <<>>
  <2>1. \A p \in Spots : activations[p[1]] = <<>>
    BY DEF Init, Spots
  <2> QED
    BY <1>4, <2>1, RestAt
<1>8. DOMAIN RestsOf(activations) = Spots
  BY <1>6 DEF Typed
<1>9. Placed(<<>>, RestsOf(activations), runs, {}, 0)
  <2>1. Once(<<>>)
    BY <1>4 DEF Once
  <2>2. 1..0 = {}
    OBVIOUS
  <2> QED
    BY <1>4, <1>5, <1>7, <1>8, <2>1, <2>2 DEF Placed
<1>10. Tasks
  BY <1>3, <1>6, <1>9 DEF Tasks, Init
<1> QED
  BY <1>1, <1>10

\* Every step keeps the invariant.
LEMMA StepKeeps == UiAssumption /\ IInv /\ [Next]_vars => IInv'
<1> SUFFICES ASSUME UiAssumption, IInv, [Next]_vars PROVE IInv'
  OBVIOUS
<1>1. CASE Post
  BY <1>1, PostKeeps
<1>2. ASSUME NEW t \in Posted, CancelTask(t) PROVE IInv'
  BY <1>2, CancelKeeps
<1>3. ASSUME NEW r \in Runners, RunOnUIThread(r) PROVE IInv'
  <2>1. PICK limit \in {0, 1} : Take(r, limit)
    BY <1>3 DEF RunOnUIThread
  <2>2. limit \in Nat
    OBVIOUS
  <2> QED
    BY <2>1, <2>2, TakeKeeps
<1>4. ASSUME NEW r \in Runners, Dispatch(r) \/ Return(r) \/ DispatchFails(r) PROVE IInv'
  BY <1>4, DispatchKeeps, ReturnKeeps, DispatchFailsKeeps
<1>5. ASSUME NEW r \in Runners, Proceed(r) PROVE IInv'
  BY <1>5, RequeueKeeps, EnterKeeps, EmitKeeps DEF Proceed
<1>6. ASSUME NEW l \in Loops, Tick(l) PROVE IInv'
  <2>1. l \in Runners /\ Slice \in Nat
    BY DEF Runners, UiAssumption
  <2> QED
    BY <1>6, <2>1, TakeKeeps DEF Tick
<1>7. CASE OpenEvents \/ ReadEvent \/ StopLoop \/ (\E l \in Loops : StartLoop(l) \/ Exit(l))
  BY <1>7, ControlKeeps
<1>8. CASE UNCHANGED vars
  BY <1>8 DEF IInv, Control, Tasks, vars
<1> QED
  BY <1>1, <1>2, <1>3, <1>4, <1>5, <1>6, <1>7, <1>8 DEF Next, Program

-----------------------------------------------------------------------------
(* What the invariant means *)

\* IInv holds in every state.
THEOREM Invariance == ASSUME UiAssumption PROVE Init /\ [][Next]_vars => []IInv
<1>1. Init => IInv
  BY InitHolds
<1>2. IInv /\ [Next]_vars => IInv'
  BY StepKeeps
<1> QED
  BY <1>1, <1>2, PTL DEF Spec

\* IInv says what TypeOK says.
LEMMA Types == IInv => TypeOK
<1> SUFFICES ASSUME Control, Tasks PROVE TypeOK
  BY DEF IInv
<1>1. activations \in [Runners -> Seq(Activation)]
  BY StacksTyped DEF Tasks, Typed
<1>2. queue \in Seq(Posted) /\ runs \in [1..MaxPosts -> Nat] /\ withdrawn \subseteq Posted
  BY DEF Tasks, Typed, Posted
<1>3. /\ posted \in 0..MaxPosts /\ loopRunning \in BOOLEAN
      /\ current \in Loops \cup {Nobody}
      /\ loop \in [Loops -> {"unused", "alive", "gone"}] /\ stopped \subseteq Loops
      /\ owner \in Runners \cup {Nobody} /\ unread \in NoSink..Room
  BY DEF Control
<1> QED
  BY <1>1, <1>2, <1>3 DEF TypeOK

\* Every variable keeps its type, whatever the threads, the loops and the limits are.
THEOREM TypeCorrect == ASSUME UiAssumption PROVE Init /\ [][Next]_vars => []TypeOK
BY Invariance, Types, PTL

\* The places of the activations.
LEMMA BatchSpots ==
    ASSUME Tasks, NEW p \in Batches
    PROVE  p \in Spots /\ Ahead(activations[p[1]][p[2]]) = RestsOf(activations)[p]
<1>6. PICK r \in Runners : \E k \in DOMAIN activations[r] : p = <<r, k>>
  BY DEF Batches
<1>1. PICK k \in DOMAIN activations[r] : p = <<r, k>>
  BY <1>6
<1>2. posted \in Nat /\ activations \in Stacks(posted)
  BY DEF Tasks, Typed
<1>3. activations[r] \in Seq(Fitting(posted))
  BY <1>2 DEF Stacks
<1>4. k \in Nat
  BY <1>3, SeqFacts
<1>5. p \in Spots /\ p[1] = r /\ p[2] = k
  BY <1>1, <1>4, SpotIs
<1>7. p[2] \in DOMAIN activations[p[1]]
  BY <1>5
<1> QED
  BY <1>5, <1>7, RestAt

\* A place with something ahead is the place of an activation.
LEMMA SpotBatches ==
    ASSUME Tasks, NEW p \in Spots, NEW i \in DOMAIN RestsOf(activations)[p]
    PROVE  p \in Batches
<1>1. p[2] \in DOMAIN activations[p[1]]
  <2>1. DOMAIN <<>> = {}
    OBVIOUS
  <2> QED
    BY <2>1, RestAt
<1>2. p[1] \in Runners /\ p = <<p[1], p[2]>>
  BY DEF Spots
<1> QED
  BY <1>1, <1>2 DEF Batches

\* What each part of Where says.
LEMMA WhereIs ==
    ASSUME Tasks, NEW t \in Posted, NEW x
    PROVE  x \in Where(t) <=>
              \/ \E i \in DOMAIN queue : queue[i] = t /\ x = <<"queue", i>>
              \/ \E p \in Spots : \E i \in DOMAIN RestsOf(activations)[p] :
                    RestsOf(activations)[p][i] = t /\ x = <<"batch", p, i>>
              \/ runs[t] = 1 /\ x = <<"called", 1>>
              \/ t \in withdrawn /\ x = <<"cancelled", t>>
<1>1. x \in {<<"queue", i>> : i \in At(queue, t)}
          <=> \E i \in DOMAIN queue : queue[i] = t /\ x = <<"queue", i>>
  BY DEF At
<1>2. x \in UNION {{<<"batch", p, i>> : i \in At(Ahead(activations[p[1]][p[2]]), t)} :
                      p \in Batches}
          <=> \E p \in Spots : \E i \in DOMAIN RestsOf(activations)[p] :
                 RestsOf(activations)[p][i] = t /\ x = <<"batch", p, i>>
  <2>1. x \in UNION {{<<"batch", p, i>> : i \in At(Ahead(activations[p[1]][p[2]]), t)} :
                        p \in Batches}
          <=> \E p \in Batches : \E i \in At(Ahead(activations[p[1]][p[2]]), t) :
                 x = <<"batch", p, i>>
    OBVIOUS
  <2>2. ASSUME NEW p \in Batches
        PROVE  \A i : i \in At(Ahead(activations[p[1]][p[2]]), t)
                  <=> i \in DOMAIN RestsOf(activations)[p] /\ RestsOf(activations)[p][i] = t
    BY BatchSpots DEF At
  <2> QED
    BY <2>1, <2>2, BatchSpots, SpotBatches
<1>3. x \in {<<"called", n>> : n \in 1..runs[t]} <=> runs[t] = 1 /\ x = <<"called", 1>>
  <2>1. t \in 1..MaxPosts /\ runs[t] \in {0, 1}
    <3>1. t \in 1..MaxPosts
      BY DEF Tasks, Typed, Posted
    <3> QED
      BY <3>1 DEF Tasks, Placed
  <2>2. 1..0 = {} /\ 1..1 = {1}
    OBVIOUS
  <2> QED
    BY <2>1, <2>2
<1>4. x \in {<<"cancelled", u>> : u \in {t} \cap withdrawn}
          <=> t \in withdrawn /\ x = <<"cancelled", t>>
  OBVIOUS
<1> DEFINE A == {<<"queue", i>> : i \in At(queue, t)}
           B == UNION {{<<"batch", p, i>> : i \in At(Ahead(activations[p[1]][p[2]]), t)} :
                         p \in Batches}
           C == {<<"called", n>> : n \in 1..runs[t]}
           D == {<<"cancelled", u>> : u \in {t} \cap withdrawn}
<1>5. Where(t) = A \cup B \cup C \cup D
  BY DEF Where
<1>6. x \in Where(t) <=> x \in A \/ x \in B \/ x \in C \/ x \in D
  <2> HIDE DEF A, B, C, D
  <2> QED
    BY <1>5
<1> QED
  BY <1>1, <1>2, <1>3, <1>4, <1>6

\* IInv accounts for every task.
LEMMA Accounts == IInv => TasksAccountedFor
<1> SUFFICES ASSUME Tasks, NEW t \in Posted PROVE \E x \in Where(t) : Where(t) = {x}
  BY DEF IInv, TasksAccountedFor
<1> DEFINE rests == RestsOf(activations)
<1>1. /\ DOMAIN rests = Spots /\ t \in 1..posted /\ t # Direct /\ t \in 1..MaxPosts
      /\ Placed(queue, rests, runs, withdrawn, posted)
  BY DEF Tasks, Typed, Posted, Direct
<1> DEFINE InQueue(i) == i \in DOMAIN queue /\ queue[i] = t
           InBatch(p, i) == p \in Spots /\ i \in DOMAIN rests[p] /\ rests[p][i] = t
<1>2. \A x : x \in Where(t) <=>
          \/ \E i : InQueue(i) /\ x = <<"queue", i>>
          \/ \E p, i : InBatch(p, i) /\ x = <<"batch", p, i>>
          \/ runs[t] = 1 /\ x = <<"called", 1>>
          \/ t \in withdrawn /\ x = <<"cancelled", t>>
  BY WhereIs
<1>3. \/ \E i : InQueue(i)
      \/ \E p, i : InBatch(p, i)
      \/ runs[t] = 1
      \/ t \in withdrawn
  <2>1. \/ Among(t, queue) \/ (\E p \in Spots : Among(t, rests[p]))
        \/ runs[t] = 1 \/ t \in withdrawn
    BY <1>1 DEF Placed
  <2> QED
    BY <2>1 DEF Among
<1>4. \A i, j : InQueue(i) /\ InQueue(j) => i = j
  BY <1>1 DEF Placed, Once
<1>5. \A p, i : InBatch(p, i) => /\ \A o, j : InBatch(o, j) => o = p /\ j = i
                                 /\ \A j : ~InQueue(j)
                                 /\ runs[t] = 0 /\ t \notin withdrawn
  <2> SUFFICES ASSUME NEW p, NEW i, InBatch(p, i)
               PROVE  /\ \A o, j : InBatch(o, j) => o = p /\ j = i
                      /\ \A j : ~InQueue(j)
                      /\ runs[t] = 0 /\ t \notin withdrawn
    OBVIOUS
  <2> HIDE DEF rests
  <2>1. \A o, j : InBatch(o, j) => o = p
    BY <1>1 DEF Placed
  <2>2. \A j : InBatch(p, j) => j = i
    BY <1>1 DEF Placed, Once
  <2>3. \A j : ~InQueue(j)
    BY <1>1 DEF Placed
  <2>4. runs[t] = 0 /\ t \notin withdrawn
    BY <1>1 DEF Placed
  <2> QED
    BY <2>1, <2>2, <2>3, <2>4
<1>6. \A i : InQueue(i) => runs[t] = 0 /\ t \notin withdrawn
  BY <1>1 DEF Placed
<1>7. t \in withdrawn => runs[t] = 0
  BY <1>1 DEF Placed
<1> HIDE DEF InQueue, InBatch
<1>8. ASSUME NEW x \in Where(t), NEW y \in Where(t) PROVE x = y
  <2>1. CASE \E i : InQueue(i)
    BY <1>2, <1>4, <1>5, <1>6, <2>1
  <2>2. CASE \E p, i : InBatch(p, i)
    BY <1>2, <1>5, <2>2
  <2>3. CASE ~(\E i : InQueue(i)) /\ ~(\E p, i : InBatch(p, i))
    BY <1>2, <1>7, <2>3
  <2> QED
    BY <2>1, <2>2, <2>3
<1>9. \E x : x \in Where(t)
  BY <1>2, <1>3
<1> QED
  BY <1>8, <1>9

\* A task that was posted is in the queue, in the batch of one runner, called or
\* cancelled, and never in two of these, whatever the threads and loops do: the two locks
\* of runOnUIThread lose no task and call none twice.
THEOREM TasksAccounted ==
    ASSUME UiAssumption PROVE Init /\ [][Next]_vars => []TasksAccountedFor
BY Invariance, Accounts, PTL
=============================================================================
