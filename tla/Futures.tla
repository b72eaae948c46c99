------------------------------ MODULE Futures ------------------------------
(***************************************************************************)
(* futureHandle and threadHandle of internal/runtime/concurrent_module.go: *)
(* resolve, await (with and without a timeout), cancel, threads, async     *)
(* tasks and the goroutines behind then, catch and finally.                *)
(*                                                                         *)
(* Every handle that owns a goroutine owns exactly one, so the goroutine   *)
(* is identified with the handle it will resolve.  resolve and the read at *)
(* the end of await run under the handle's mutex and are one step each;    *)
(* everything between them is a step of its own.                           *)
(***************************************************************************)
EXTENDS Naturals

CONSTANTS Futures,     \* the handles the program may create
          NoFuture,    \* the parent of a handle that is not derived
          Callers,     \* the Polyloft threads that use the handles
          Values,      \* what a task may return
          Errors,      \* how a task may fail
          Nil,         \* value.NilValue()
          NoError,     \* a nil Go error
          Cancelled,   \* the error of futureHandle.cancel
          NoVM         \* the error reported when GlobalVMProxy is nil

ASSUME FuturesAssumption ==
    /\ NoFuture \notin Futures
    /\ NoError \notin Errors \cup {Cancelled, NoVM}

VARIABLES proxy,       \* whether GlobalVMProxy is set
          role,        \* how each handle was made, "unused" before that
          parent,      \* the handle a derived one awaits
          completed, cancelled, result, err,     \* the fields of futureHandle
          started,     \* threadHandle.started
          pc,          \* where the goroutine that resolves the handle is
          seen,        \* what that goroutine got from its parent
          deliver,     \* what it is about to resolve the handle with
          waiting,     \* the call each caller is blocked in
          answers,     \* history: <<f, o>>, somebody was told o about f
          wins,        \* history: how often a resolve of the handle returned true
          owned,       \* history: handles resolved by their own goroutine
          calls        \* history: how often the handle's closure was entered

handleVars == <<completed, cancelled, result, err>>
ghostVars  == <<answers, wins, owned, calls>>
vars == <<proxy, role, parent, handleVars, started, pc, seen, deliver, waiting, ghostVars>>

Derived  == {"then", "catch", "finally"}
Roles    == Derived \cup {"unused", "plain", "async", "thread"}
AllErrors == Errors \cup {Cancelled, NoVM}

Value(v) == [ok |-> TRUE, data |-> v]
Error(e) == [ok |-> FALSE, data |-> e]
Outcomes == {Value(v) : v \in Values \cup {Nil}} \cup {Error(e) : e \in AllErrors}
TaskOutcomes == {Value(v) : v \in Values} \cup {Error(e) : e \in Errors}

\* Stands for "no outcome": of a goroutine that has none yet, of a pending future.
None == [ok |-> FALSE, data |-> NoError]

Idle == [op |-> "idle", fut |-> NoFuture]
Calls == [op : {"get", "timed", "starting"}, fut : Futures] \cup {Idle}

TypeOK ==
    /\ proxy \in BOOLEAN
    /\ role \in [Futures -> Roles]
    /\ parent \in [Futures -> Futures \cup {NoFuture}]
    /\ completed \in [Futures -> BOOLEAN]
    /\ cancelled \in [Futures -> BOOLEAN]
    /\ result \in [Futures -> Values \cup {Nil}]
    /\ err \in [Futures -> AllErrors \cup {NoError}]
    /\ started \in [Futures -> BOOLEAN]
    /\ pc \in [Futures -> {"none", "await", "call", "deliver", "end"}]
    /\ seen \in [Futures -> Outcomes \cup {None}]
    /\ deliver \in [Futures -> Outcomes \cup {None}]
    /\ waiting \in [Callers -> Calls]
    /\ answers \in SUBSET (Futures \X Outcomes)
    /\ wins \in [Futures -> Nat]
    /\ owned \in SUBSET Futures
    /\ calls \in [Futures -> Nat]

Init ==
    /\ proxy \in BOOLEAN
    /\ role = [f \in Futures |-> "unused"]
    /\ parent = [f \in Futures |-> NoFuture]
    /\ completed = [f \in Futures |-> FALSE]
    /\ cancelled = [f \in Futures |-> FALSE]
    /\ result = [f \in Futures |-> Nil]
    /\ err = [f \in Futures |-> NoError]
    /\ started = [f \in Futures |-> FALSE]
    /\ pc = [f \in Futures |-> "none"]
    /\ seen = [f \in Futures |-> None]
    /\ deliver = [f \in Futures |-> None]
    /\ waiting = [c \in Callers |-> Idle]
    /\ answers = {}
    /\ wins = [f \in Futures |-> 0]
    /\ owned = {}
    /\ calls = [f \in Futures |-> 0]

-----------------------------------------------------------------------------
(* futureHandle *)

Created(f) == role[f] # "unused"

\* How a completed handle answers: await looks at err before it looks at result.
OutcomeOf(f) == IF err[f] # NoError THEN Error(err[f]) ELSE Value(result[f])

\* Mutant: the test of f.completed is gone.
ResolveAgain(f, o, cancel) ==
    /\ completed' = [completed EXCEPT ![f] = TRUE]
    /\ cancelled' = [cancelled EXCEPT ![f] = cancel]
    /\ result' = [result EXCEPT ![f] = IF o.ok THEN o.data ELSE Nil]
    /\ err' = [err EXCEPT ![f] = IF o.ok THEN NoError ELSE o.data]
    /\ wins' = [wins EXCEPT ![f] = @ + 1]

\* Mutant: the fields are written whoever comes first, and false is still returned.
ResolveLast(f, o, cancel) ==
    /\ completed' = [completed EXCEPT ![f] = TRUE]
    /\ cancelled' = [cancelled EXCEPT ![f] = cancel]
    /\ result' = [result EXCEPT ![f] = IF o.ok THEN o.data ELSE Nil]
    /\ err' = [err EXCEPT ![f] = IF o.ok THEN NoError ELSE o.data]
    /\ wins' = [wins EXCEPT ![f] = IF completed[f] THEN @ ELSE @ + 1]

\* Mutant: a failure is stored where the result belongs.
ResolveConfused(f, o, cancel) ==
    IF completed[f]
    THEN UNCHANGED <<handleVars, wins>>
    ELSE /\ completed' = [completed EXCEPT ![f] = TRUE]
         /\ cancelled' = [cancelled EXCEPT ![f] = cancel]
         /\ result' = [result EXCEPT ![f] = o.data]
         /\ UNCHANGED err
         /\ wins' = [wins EXCEPT ![f] = @ + 1]

\* resolve: the first call wins and returns true, a later one changes nothing.
Resolve(f, o, cancel) ==
    IF completed[f]
    THEN UNCHANGED <<handleVars, wins>>
    ELSE /\ completed' = [completed EXCEPT ![f] = TRUE]
         /\ cancelled' = [cancelled EXCEPT ![f] = cancel]
         /\ result' = [result EXCEPT ![f] = IF o.ok THEN o.data ELSE Nil]
         /\ err' = [err EXCEPT ![f] = IF o.ok THEN NoError ELSE o.data]
         /\ wins' = [wins EXCEPT ![f] = @ + 1]

\* The program reaches a future through a CompletableFuture; the one inside a Thread is
\* never handed out.
Reachable(f) == role[f] \notin {"unused", "thread"}

\* future_complete and future_cancel, called by the program.
Complete(c, f) ==
    /\ waiting[c] = Idle
    /\ Reachable(f)
    /\ \E v \in Values : Resolve(f, Value(v), FALSE)
    /\ UNCHANGED <<proxy, role, parent, started, pc, seen, deliver, waiting,
                   answers, owned, calls>>

Cancel(c, f) ==
    /\ waiting[c] = Idle
    /\ Reachable(f)
    /\ Resolve(f, Error(Cancelled), TRUE)
    /\ UNCHANGED <<proxy, role, parent, started, pc, seen, deliver, waiting,
                   answers, owned, calls>>

\* await(0, false) and await(timeout, true): the caller blocks.
Get(c, f) ==
    /\ waiting[c] = Idle
    /\ Reachable(f)
    /\ \E op \in {"get", "timed"} : waiting' = [waiting EXCEPT ![c] = [op |-> op, fut |-> f]]
    /\ UNCHANGED <<proxy, role, parent, handleVars, started, pc, seen, deliver, ghostVars>>

\* Mutant: the outcome is not looked at before done is closed, only after it.
GetReturnsEarly(c) ==
    LET f == waiting[c].fut IN
    /\ waiting[c].op \in {"get", "timed"}
    /\ completed[f] \/ waiting[c].op = "timed"
    /\ answers' = answers \cup {<<f, OutcomeOf(f)>>}
    /\ waiting' = [waiting EXCEPT ![c] = Idle]
    /\ UNCHANGED <<proxy, role, parent, handleVars, started, pc, seen, deliver,
                   wins, owned, calls>>

\* Mutant: cancel settles the handle and forgets to close done.
GetReturnsUncancelled(c) ==
    LET f == waiting[c].fut IN
    /\ waiting[c].op \in {"get", "timed"}
    /\ completed[f]
    /\ ~cancelled[f]
    /\ answers' = answers \cup {<<f, OutcomeOf(f)>>}
    /\ waiting' = [waiting EXCEPT ![c] = Idle]
    /\ UNCHANGED <<proxy, role, parent, handleVars, started, pc, seen, deliver,
                   wins, owned, calls>>

\* The channel done is closed: await takes the mutex and reads the outcome.
GetReturns(c) ==
    LET f == waiting[c].fut IN
    /\ waiting[c].op \in {"get", "timed"}
    /\ completed[f]
    /\ answers' = answers \cup {<<f, OutcomeOf(f)>>}
    /\ waiting' = [waiting EXCEPT ![c] = Idle]
    /\ UNCHANGED <<proxy, role, parent, handleVars, started, pc, seen, deliver,
                   wins, owned, calls>>

\* The timer may fire first, or lose the race and be picked by select all the same.
TimesOut(c) ==
    /\ waiting[c].op = "timed"
    /\ waiting' = [waiting EXCEPT ![c] = Idle]
    /\ UNCHANGED <<proxy, role, parent, handleVars, started, pc, seen, deliver, ghostVars>>

-----------------------------------------------------------------------------
(* Making handles, and the goroutines that resolve them *)

\* Unused handles are interchangeable: the next one made is always the same one.
Fresh(f) ==
    /\ role[f] = "unused"
    /\ f = CHOOSE g \in Futures : role[g] = "unused"

\* newFutureHandle, newThreadHandle
New(c, f) ==
    /\ waiting[c] = Idle
    /\ Fresh(f)
    /\ \E r \in {"plain", "thread"} : role' = [role EXCEPT ![f] = r]
    /\ UNCHANGED <<proxy, parent, handleVars, started, pc, seen, deliver, waiting, ghostVars>>

\* The goroutine of f is in its closure, on an isolated VM.
Enter(f) ==
    /\ pc' = [pc EXCEPT ![f] = "call"]
    /\ calls' = [calls EXCEPT ![f] = @ + 1]

\* future_run_async
RunAsync(c, f) ==
    /\ waiting[c] = Idle
    /\ Fresh(f)
    /\ role' = [role EXCEPT ![f] = "async"]
    /\ IF proxy
       THEN Enter(f) /\ UNCHANGED <<handleVars, wins>>
       ELSE Resolve(f, Error(NoVM), FALSE) /\ UNCHANGED <<pc, calls>>
    /\ UNCHANGED <<proxy, parent, started, seen, deliver, waiting, answers, owned>>

\* future_then, future_catch, future_finally: the goroutine starts by awaiting p.
Chain(c, f, p) ==
    /\ waiting[c] = Idle
    /\ Fresh(f)
    /\ Reachable(p)
    /\ \E r \in Derived : role' = [role EXCEPT ![f] = r]
    /\ parent' = [parent EXCEPT ![f] = p]
    /\ pc' = [pc EXCEPT ![f] = "await"]
    /\ UNCHANGED <<proxy, handleVars, started, seen, deliver, waiting, ghostVars>>

\* Mutant: started is not looked at.
StartAgain(c, f) ==
    /\ waiting[c] = Idle
    /\ role[f] = "thread"
    /\ started' = [started EXCEPT ![f] = TRUE]
    /\ waiting' = [waiting EXCEPT ![c] = [op |-> "starting", fut |-> f]]
    /\ UNCHANGED <<proxy, role, parent, handleVars, pc, seen, deliver, ghostVars>>

\* threadHandle.start up to its Unlock; a second call only returns an error.
Start(c, f) ==
    /\ waiting[c] = Idle
    /\ role[f] = "thread"
    /\ ~started[f]
    /\ started' = [started EXCEPT ![f] = TRUE]
    /\ waiting' = [waiting EXCEPT ![c] = [op |-> "starting", fut |-> f]]
    /\ UNCHANGED <<proxy, role, parent, handleVars, pc, seen, deliver, ghostVars>>

\* The rest of start, after the mutex is released.
Spawn(c) ==
    LET f == waiting[c].fut IN
    /\ waiting[c].op = "starting"
    /\ waiting' = [waiting EXCEPT ![c] = Idle]
    /\ IF proxy
       THEN Enter(f) /\ UNCHANGED <<handleVars, wins>>
       ELSE Resolve(f, Error(NoVM), FALSE) /\ UNCHANGED <<pc, calls>>
    /\ UNCHANGED <<proxy, role, parent, started, seen, deliver, answers, owned>>

\* threadHandle.join; before start it only returns an error.
Join(c, f) ==
    /\ waiting[c] = Idle
    /\ role[f] = "thread"
    /\ started[f]
    /\ waiting' = [waiting EXCEPT ![c] = [op |-> "get", fut |-> f]]
    /\ UNCHANGED <<proxy, role, parent, handleVars, started, pc, seen, deliver, ghostVars>>

\* Whether a goroutine that got o from its parent goes round its closure.
Skips(r, o) ==
    \/ r = "then" /\ ~o.ok
    \/ r = "catch" /\ o.ok

\* The parent is done: the goroutine reads its outcome and passes it on, fails for want
\* of a VM, or calls its closure.
Wake(f) ==
    LET o == OutcomeOf(parent[f]) IN
    /\ pc[f] = "await"
    /\ completed[parent[f]]
    /\ seen' = [seen EXCEPT ![f] = o]
    /\ answers' = answers \cup {<<parent[f], o>>}
    /\ IF ~Skips(role[f], o) /\ proxy
       THEN Enter(f) /\ UNCHANGED deliver
       ELSE /\ deliver' = [deliver EXCEPT ![f] = IF Skips(role[f], o) THEN o ELSE Error(NoVM)]
            /\ pc' = [pc EXCEPT ![f] = "deliver"]
            /\ UNCHANGED calls
    /\ UNCHANGED <<proxy, role, parent, handleVars, started, waiting, wins, owned>>

\* Mutant: finally reports what its closure returned.
AfterClosureOwn(r, got, o) == o

\* What the goroutine resolves its handle with once the closure ended with o: finally
\* keeps the parent's outcome unless the closure failed.
AfterClosure(r, got, o) == IF r = "finally" /\ o.ok THEN got ELSE o

\* CallClosureIsolated returns.
Return(f) ==
    /\ pc[f] = "call"
    /\ \E o \in TaskOutcomes :
          deliver' = [deliver EXCEPT ![f] = AfterClosure(role[f], seen[f], o)]
    /\ pc' = [pc EXCEPT ![f] = "deliver"]
    /\ UNCHANGED <<proxy, role, parent, handleVars, started, seen, waiting, ghostVars>>

\* Mutant: a failure is dropped on the way, as if next.fail had been forgotten.
DeliverValue(f) ==
    /\ pc[f] = "deliver"
    /\ IF deliver[f].ok
       THEN /\ Resolve(f, deliver[f], FALSE)
            /\ owned' = IF completed[f] THEN owned ELSE owned \cup {f}
       ELSE UNCHANGED <<handleVars, wins, owned>>
    /\ pc' = [pc EXCEPT ![f] = "end"]
    /\ UNCHANGED <<proxy, role, parent, started, seen, deliver, waiting, answers, calls>>

\* complete or fail at the end of a goroutine; too late if the program was faster.
Deliver(f) ==
    /\ pc[f] = "deliver"
    /\ Resolve(f, deliver[f], FALSE)
    /\ owned' = IF completed[f] THEN owned ELSE owned \cup {f}
    /\ pc' = [pc EXCEPT ![f] = "end"]
    /\ UNCHANGED <<proxy, role, parent, started, seen, deliver, waiting, answers, calls>>

-----------------------------------------------------------------------------

\* A caller calls into the module ...
Call(c) ==
    \E f \in Futures :
        \/ Complete(c, f)
        \/ Cancel(c, f)
        \/ Get(c, f)
        \/ New(c, f)
        \/ RunAsync(c, f)
        \/ Start(c, f)
        \/ Join(c, f)
        \/ \E p \in Futures : Chain(c, f, p)

\* ... and goes on, or back, from a call that has steps of its own.
Resume(c) == GetReturns(c) \/ TimesOut(c) \/ Spawn(c)

Goroutine(f) == Wake(f) \/ Return(f) \/ Deliver(f)

Next ==
    \/ \E c \in Callers : Call(c) \/ Resume(c)
    \/ \E f \in Futures : Goroutine(f)

Spec == Init /\ [][Next]_vars

\* The Go scheduler runs what can run, and timers fire.  Nothing is assumed of the
\* program: closures may never return and plain futures may never be completed.
Fairness ==
    /\ \A c \in Callers : WF_vars(GetReturns(c)) /\ WF_vars(TimesOut(c)) /\ WF_vars(Spawn(c))
    /\ \A f \in Futures : WF_vars(Wake(f)) /\ WF_vars(Deliver(f))

FairSpec == Spec /\ Fairness

-----------------------------------------------------------------------------
(* Properties *)

\* Whoever is told how a future ended (get, getTimeout, join or a continuation) is told
\* the same thing, however cancel, complete, timeouts and the task race (resolve, await).
AnswersAgree == \A a, b \in answers : a[1] = b[1] => a[2] = b[2]

\* Of all the resolves of a future exactly one returns true, once it is done, and it is
\* the one whose outcome the future has: a true from cancel means cancelled.
OneWinner ==
    \A f \in Futures :
        /\ wins[f] = IF completed[f] THEN 1 ELSE 0
        /\ cancelled[f] => err[f] = Cancelled

\* The task of a thread or async call runs at most once, the closure of then only after
\* a success, that of catch only after a failure.
ClosureDiscipline ==
    \A f \in Futures :
        /\ calls[f] <= 1
        /\ calls[f] = 1 =>
              /\ role[f] = "then" => seen[f].ok
              /\ role[f] = "catch" => ~seen[f].ok
              /\ role[f] = "thread" => started[f]

\* What a continuation resolves its future with: then passes a failure on, catch a
\* success, and finally changes nothing except that its own failure takes over.
ChainOutcome ==
    \A f \in owned :
        LET o == OutcomeOf(f)
            p == OutcomeOf(parent[f])
        IN  /\ role[f] = "then" /\ ~p.ok => o = p
            /\ role[f] = "catch" /\ p.ok => o = p
            /\ role[f] = "finally" => o = p \/ ~o.ok
            /\ role[f] = "finally" /\ proxy => calls[f] = 1

\* Every step is a step of the abstract promise, or none at all.
Settled == [f \in Futures |-> IF completed[f] THEN OutcomeOf(f) ELSE None]
Abstract == INSTANCE Promise WITH Pending <- None, outcome <- Settled
ImplementsPromise == Abstract!Spec

\* A failure (a cancellation too) travels down a chain of thens to its end, whatever
\* the closures on the way would have done.
FailureTravels ==
    \A f \in Futures :
        (role[f] = "then" /\ completed[parent[f]] /\ err[parent[f]] # NoError) ~> completed[f]

\* A get with a timeout always comes back, one without does if its future is done.
GetComesBack ==
    \A c \in Callers :
        (\/ waiting[c].op = "timed"
         \/ waiting[c].op = "get" /\ completed[waiting[c].fut]) ~> waiting[c] = Idle
=============================================================================
