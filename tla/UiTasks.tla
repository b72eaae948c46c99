------------------------------ MODULE UiTasks ------------------------------
(***************************************************************************)
(* The tasks of a uiApp (internal/runtime/ui_module.go): post, cancelTask, *)
(* runOnUIThread, the goroutine of startUILoop, stopUILoop, app_dispatch   *)
(* and the event channel that every task reports to, with the callback     *)
(* lock of the VM (CallClosure in vm.go).                                  *)
(*                                                                         *)
(* What runs under app.mu is one step.  The code of the program runs in    *)
(* its threads and inside the callbacks of any runner; a callback may take *)
(* as long as it likes.  The event channel has room for Room messages (its *)
(* other operations are those of Channels), and a task is its id, which    *)
(* is also its sequence number: the two are counted together.              *)
(*                                                                         *)
(* The branch of runOnUIThread for a missing GlobalVMProxy is left out:    *)
(* the VM of the program is put there when it is made (vm.go:91-93),       *)
(* before any of its code can post a task.                                 *)
(***************************************************************************)
EXTENDS Integers, Sequences, SequencesExt

CONSTANTS Threads,       \* the Polyloft threads that run tasks themselves
          Loops,         \* the goroutines startUILoop may start
          Nobody,        \* no runner, no loop
          Slice,         \* maxTasksPerTick of the loops
          Room,          \* the capacity of the event channel
          MaxPosts,      \* how many tasks are posted
          Priority       \* what each of them is posted with

\* What the constants are.
UiAssumption ==
    /\ Nobody \notin Threads \cup Loops
    /\ Slice \in Nat \ {0} /\ Room \in Nat \ {0} /\ MaxPosts \in Nat
    /\ Priority \in [1..MaxPosts -> Int]

VARIABLES queue,         \* app.tasks
          posted,        \* app.nextTaskID and app.nextTaskSeq
          loopRunning,   \* app.loopRunning
          current,       \* the loop whose stop channel is app.loopCancel
          loop,          \* where each goroutine is in its life
          stopped,       \* loops whose stop channel is closed
          activations,   \* of runOnUIThread and app_dispatch, for each runner, innermost last
          owner,         \* who holds callbackMu
          unread,        \* messages in the event channel, NoSink before it is made
          runs,          \* history: how often each task was called
          withdrawn      \* history: tasks whose cancelTask answered true

vars == <<queue, posted, loopRunning, current, loop, stopped, activations, owner, unread,
          runs, withdrawn>>

Runners == Threads \cup Loops
Posted == 1..posted
NoSink == -1
Direct == 0              \* the callback of app_dispatch, which is no task

Phases == {"taken", "locking", "calling", "emitting"}
Activation == [phase : Phases, batch : Seq(0..MaxPosts), limit : Nat]

TypeOK ==
    /\ queue \in Seq(Posted)
    /\ posted \in 0..MaxPosts
    /\ loopRunning \in BOOLEAN
    /\ current \in Loops \cup {Nobody}
    /\ loop \in [Loops -> {"unused", "alive", "gone"}]
    /\ stopped \subseteq Loops
    /\ activations \in [Runners -> Seq(Activation)]
    /\ owner \in Runners \cup {Nobody}
    /\ unread \in NoSink..Room
    /\ runs \in [1..MaxPosts -> Nat]
    /\ withdrawn \subseteq Posted

Init ==
    /\ queue = <<>> /\ posted = 0
    /\ loopRunning = FALSE /\ current = Nobody
    /\ loop = [l \in Loops |-> "unused"] /\ stopped = {}
    /\ activations = [r \in Runners |-> <<>>]
    /\ owner = Nobody
    /\ unread = NoSink
    /\ runs = [t \in 1..MaxPosts |-> 0] /\ withdrawn = {}

-----------------------------------------------------------------------------
Busy(r) == activations[r] # <<>>
Top(r) == Last(activations[r])
InPhase(r, phase) == Busy(r) /\ Top(r).phase = phase

\* The code of the program runs: in a thread of its own, or in a callback of r.
RunsCode(r) == (r \in Threads /\ ~Busy(r)) \/ InPhase(r, "calling")

SetTop(r, a) == activations' = [activations EXCEPT ![r] = Append(Front(@), a)]
Push(r, a) == activations' = [activations EXCEPT ![r] = Append(@, a)]

tasks == <<queue, posted>>
loops == <<loopRunning, current, loop, stopped>>
history == <<runs, withdrawn>>

Post ==
    /\ posted < MaxPosts
    /\ posted' = posted + 1
    /\ queue' = Append(queue, posted')
    /\ UNCHANGED <<loops, activations, owner, unread, history>>

\* cancelTask: only a task that is still in the queue can be cancelled.
CancelTask(t) ==
    /\ \E i \in DOMAIN queue : queue[i] = t /\ queue' = RemoveAt(queue, i)
    /\ withdrawn' = withdrawn \cup {t}
    /\ UNCHANGED <<posted, loops, activations, owner, unread, runs>>

\* The order sort.Slice gives a batch.
Before(t, u) == Priority[t] > Priority[u] \/ (Priority[t] = Priority[u] /\ t < u)
Sorted(q) ==
    {b \in [DOMAIN q -> Range(q)] :
        Range(b) = Range(q) /\ \A i, j \in DOMAIN b : i < j => Before(b[i], b[j])}

\* The first lock of runOnUIThread takes every task; an empty queue returns at once.
Take(r, limit) ==
    /\ queue # <<>>
    /\ \E batch \in Sorted(queue) :
          Push(r, [phase |-> IF 0 < limit /\ limit < Len(batch) THEN "taken" ELSE "locking",
                   batch |-> batch, limit |-> limit])
    /\ queue' = <<>>
    /\ UNCHANGED <<posted, loops, owner, unread, history>>

\* Mutant: the whole batch stays with the runner that puts its rest back.
RequeueWhole(r) ==
    /\ InPhase(r, "taken")
    /\ LET a == Top(r)
       IN /\ queue' = queue \o SubSeq(a.batch, a.limit + 1, Len(a.batch))
          /\ SetTop(r, [a EXCEPT !.phase = "locking"])
    /\ UNCHANGED <<posted, loops, owner, unread, history>>

\* The second lock puts back what is more than maxTasks.
Requeue(r) ==
    /\ InPhase(r, "taken")
    /\ LET a == Top(r)
       IN /\ queue' = queue \o SubSeq(a.batch, a.limit + 1, Len(a.batch))
          /\ SetTop(r, [a EXCEPT !.phase = "locking", !.batch = SubSeq(@, 1, a.limit)])
    /\ UNCHANGED <<posted, loops, owner, unread, history>>

\* app_dispatch and the callbacks of windows go straight to CallClosure.
Dispatch(r) ==
    /\ RunsCode(r)
    /\ Push(r, [phase |-> "locking", batch |-> <<Direct>>, limit |-> 0])
    /\ UNCHANGED <<tasks, loops, owner, unread, history>>

\* callbackMu is not re-entrant: a callback that comes here waits for itself.
Enter(r) ==
    /\ InPhase(r, "locking") /\ owner = Nobody
    /\ owner' = r
    /\ SetTop(r, [Top(r) EXCEPT !.phase = "calling"])
    /\ LET t == Head(Top(r).batch)
       IN runs' = IF t = Direct THEN runs ELSE [runs EXCEPT ![t] = @ + 1]
    /\ UNCHANGED <<tasks, loops, unread, withdrawn>>

\* The callback returns or fails: one event either way.
Return(r) ==
    /\ InPhase(r, "calling")
    /\ owner' = Nobody
    /\ SetTop(r, [Top(r) EXCEPT !.phase = "emitting"])
    /\ UNCHANGED <<tasks, loops, unread, history>>

\* emitEvent parks when the channel is full; without a channel it says nothing.
Emit(r) ==
    /\ InPhase(r, "emitting") /\ unread # Room
    /\ unread' = IF unread = NoSink THEN NoSink ELSE unread + 1
    /\ LET rest == Tail(Top(r).batch)
       IN IF rest = <<>>
          THEN activations' = [activations EXCEPT ![r] = Front(@)]
          ELSE SetTop(r, [Top(r) EXCEPT !.phase = "locking", !.batch = rest])
    /\ UNCHANGED <<tasks, loops, owner, history>>

\* app_dispatch of a callback that fails returns the error and emits nothing.
DispatchFails(r) ==
    /\ InPhase(r, "calling") /\ Top(r).batch = <<Direct>>
    /\ owner' = Nobody
    /\ activations' = [activations EXCEPT ![r] = Front(@)]
    /\ UNCHANGED <<tasks, loops, unread, history>>

\* ensureEventSink; the program reads an event when there is one.
OpenEvents ==
    /\ unread = NoSink /\ unread' = 0
    /\ UNCHANGED <<tasks, loops, activations, owner, history>>
ReadEvent ==
    /\ unread > 0 /\ unread' = unread - 1
    /\ UNCHANGED <<tasks, loops, activations, owner, history>>

-----------------------------------------------------------------------------
StartLoop(l) ==
    /\ ~loopRunning /\ loop[l] = "unused"
    /\ loopRunning' = TRUE /\ current' = l
    /\ loop' = [loop EXCEPT ![l] = "alive"]
    /\ UNCHANGED <<tasks, stopped, activations, owner, unread, history>>

\* Mutant: loopRunning is left set.
StopLoopOnly ==
    /\ loopRunning
    /\ stopped' = stopped \cup {current}
    /\ UNCHANGED <<tasks, loopRunning, current, loop, activations, owner, unread, history>>

\* stopUILoop closes the stop channel; the loop sees it between two ticks.
StopLoop ==
    /\ loopRunning
    /\ loopRunning' = FALSE
    /\ stopped' = stopped \cup {current} /\ current' = Nobody
    /\ UNCHANGED <<tasks, loop, activations, owner, unread, history>>

\* select takes either case when both are ready: a stopped loop may tick once more.
Tick(l) == loop[l] = "alive" /\ ~Busy(l) /\ Take(l, Slice)
Exit(l) ==
    /\ loop[l] = "alive" /\ ~Busy(l) /\ l \in stopped
    /\ loop' = [loop EXCEPT ![l] = "gone"]
    /\ UNCHANGED <<tasks, loopRunning, current, stopped, activations, owner, unread, history>>

RunOnUIThread(r) == RunsCode(r) /\ \E limit \in {0, 1} : Take(r, limit)

Program ==
    \/ Post
    \/ \E t \in Posted : CancelTask(t)
    \/ \E r \in Runners : RunOnUIThread(r) \/ Dispatch(r) \/ Return(r) \/ DispatchFails(r)
    \/ OpenEvents \/ ReadEvent
    \/ \E l \in Loops : StartLoop(l)
    \/ StopLoop

Proceed(r) == Requeue(r) \/ Enter(r) \/ Emit(r)
Next == Program \/ (\E r \in Runners : Proceed(r)) \/ (\E l \in Loops : Tick(l) \/ Exit(l))

\* The scheduler runs every goroutine that can run, a ticker keeps ticking, and
\* sync.Mutex and a channel serve whoever has waited long enough.
Fairness ==
    /\ \A r \in Threads : SF_vars(Proceed(r))
    /\ \A l \in Loops : SF_vars(Proceed(l) \/ Tick(l) \/ Exit(l))

Spec == Init /\ [][Next]_vars /\ Fairness

-----------------------------------------------------------------------------
\* The tasks an activation has still to call.
Ahead(a) == IF a.phase \in {"calling", "emitting"} THEN Tail(a.batch) ELSE a.batch

\* Where a task is: at its places in the queue and in what is left of the batches, under
\* each call of it, and under its cancellation.
At(s, t) == {i \in DOMAIN s : s[i] = t}
Batches == UNION {{<<r, k>> : k \in DOMAIN activations[r]} : r \in Runners}
Where(t) ==
    {<<"queue", i>> : i \in At(queue, t)}
    \cup (UNION {{<<"batch", p, i>> : i \in At(Ahead(activations[p[1]][p[2]]), t)} :
                     p \in Batches})
    \cup {<<"called", n>> : n \in 1..runs[t]}
    \cup {<<"cancelled", u>> : u \in {t} \cap withdrawn}

\* A task that was posted is in exactly one place: waiting in the queue, waiting in
\* the batch of one runner, called, or cancelled.  It is called at most once however
\* many loops and threads take batches and put the rest back, and never once its
\* cancellation was confirmed.
TasksAccountedFor == \A t \in Posted : \E p \in Where(t) : Where(t) = {p}

\* A task posted to an application whose loop runs gets its turn, unless it is
\* cancelled or the loop is stopped first: no order of batches, remainders, stops and
\* restarts strands it, and loopRunning is not left set with nobody to tick.  It takes
\* callbacks that return, somebody who reads the events, and posts of a higher priority
\* that end.
TurnComes ==
    ([]<>(owner = Nobody) /\ []<>(unread # Room)) =>
        \A t \in 1..MaxPosts :
            (t \in Posted /\ loopRunning) ~>
                (runs[t] > 0 \/ t \in withdrawn \/ ~loopRunning)
=============================================================================
