--------------------------- MODULE FuturesProofs ---------------------------
(***************************************************************************)
(* Type correctness of Futures, its safety invariants and its refinement   *)
(* of Promise, for any number of handles, callers, values and errors; and  *)
(* of MCConcurrent, in which they stand beside the tasks of a user         *)
(* interface (UiTasksProofs).                                              *)
(***************************************************************************)
EXTENDS MCConcurrent, TLAPS

UiTheory == INSTANCE UiTasksProofs

\* What a task or another handle ends with is an outcome (CallClosureIsolated, await).
LEMMA OutcomesTyped ==
    /\ TaskOutcomes \subseteq Outcomes
    /\ \A v \in Values : Value(v) \in Outcomes
    /\ Error(Cancelled) \in Outcomes /\ Error(NoVM) \in Outcomes
BY DEF TaskOutcomes, Outcomes, Value, Error, AllErrors

\* What an outcome carries: a value when it is ok, else an error (resolve).
LEMMA OutcomeShape ==
    ASSUME NEW o \in Outcomes
    PROVE  /\ o.ok => o.data \in Values \cup {Nil}
           /\ ~o.ok => o.data \in AllErrors
<1>1. ASSUME NEW v \in Values \cup {Nil}, o = Value(v)
      PROVE  o.ok /\ o.data \in Values \cup {Nil}
  BY <1>1 DEF Value
<1>2. ASSUME NEW e \in AllErrors, o = Error(e)
      PROVE  ~o.ok /\ o.data \in AllErrors
  BY <1>2 DEF Error
<1>3. \/ \E v \in Values \cup {Nil} : o = Value(v)
      \/ \E e \in AllErrors : o = Error(e)
  BY DEF Outcomes
<1> QED
  BY <1>1, <1>2, <1>3

\* A completed handle answers with an outcome (await).
LEMMA OutcomeOfTyped ==
    ASSUME TypeOK, NEW f \in Futures
    PROVE  OutcomeOf(f) \in Outcomes
BY DEF TypeOK, OutcomeOf, Outcomes, Value, Error, AllErrors

\* resolve keeps the fields of every handle typed, for any outcome it is called with.
LEMMA ResolveTyped ==
    ASSUME TypeOK, NEW f \in Futures, NEW o \in Outcomes, NEW cancel \in BOOLEAN,
           Resolve(f, o, cancel)
    PROVE  /\ completed' \in [Futures -> BOOLEAN]
           /\ cancelled' \in [Futures -> BOOLEAN]
           /\ result' \in [Futures -> Values \cup {Nil}]
           /\ err' \in [Futures -> AllErrors \cup {NoError}]
           /\ wins' \in [Futures -> Nat]
<1>1. CASE completed[f]
  BY <1>1 DEF TypeOK, Resolve, handleVars
<1>2. CASE ~completed[f]
  <2>1. /\ (IF o.ok THEN o.data ELSE Nil) \in Values \cup {Nil}
        /\ (IF o.ok THEN NoError ELSE o.data) \in AllErrors \cup {NoError}
    BY OutcomeShape
  <2>2. completed' \in [Futures -> BOOLEAN] /\ cancelled' \in [Futures -> BOOLEAN]
    BY <1>2 DEF TypeOK, Resolve
  <2>3. result' \in [Futures -> Values \cup {Nil}]
    BY <1>2, <2>1 DEF TypeOK, Resolve
  <2>4. err' \in [Futures -> AllErrors \cup {NoError}]
    BY <1>2, <2>1 DEF TypeOK, Resolve
  <2>5. wins' \in [Futures -> Nat]
    BY <1>2 DEF TypeOK, Resolve
  <2> QED
    BY <2>2, <2>3, <2>4, <2>5
<1> QED
  BY <1>1, <1>2

\* A goroutine that enters its closure stays typed (future_run_async, start, then ...).
LEMMA EnterTyped ==
    ASSUME TypeOK, NEW f \in Futures, Enter(f)
    PROVE  /\ pc' \in [Futures -> {"none", "await", "call", "deliver", "end"}]
           /\ calls' \in [Futures -> Nat]
BY DEF TypeOK, Enter
-----------------------------------------------------------------------------
(* Type correctness *)

\* What TypeOK does not say of the goroutines and is needed to keep it: one that awaits
\* has a handle to await, finally has an outcome to keep, one that delivers has one to
\* deliver, and only a thread is being started.
Wired ==
    /\ \A f \in Futures :
          /\ pc[f] = "await" => parent[f] \in Futures
          /\ pc[f] = "call" /\ role[f] = "finally" => seen[f] \in Outcomes
          /\ pc[f] = "deliver" => deliver[f] \in Outcomes
    /\ \A c \in Callers : waiting[c].op = "starting" => role[waiting[c].fut] = "thread"

\* Every call, wake-up and goroutine step of the module leaves the handles typed.
LEMMA StepTypeOK == TypeOK /\ Wired /\ [Next]_vars => TypeOK'
<1> SUFFICES ASSUME TypeOK, Wired, [Next]_vars PROVE TypeOK'
  OBVIOUS
<1> USE DEF handleVars, ghostVars
<1>1. ASSUME NEW c \in Callers, NEW f \in Futures, Complete(c, f) PROVE TypeOK'
  <2>1. PICK v \in Values : Resolve(f, Value(v), FALSE)
    BY <1>1 DEF Complete
  <2>2. Value(v) \in Outcomes
    BY OutcomesTyped
  <2> QED
    BY <1>1, <2>1, <2>2, ResolveTyped DEF TypeOK, Complete
<1>2. ASSUME NEW c \in Callers, NEW f \in Futures, Cancel(c, f) PROVE TypeOK'
  BY <1>2, OutcomesTyped, ResolveTyped DEF TypeOK, Cancel
<1>3. ASSUME NEW c \in Callers, NEW f \in Futures, Get(c, f) PROVE TypeOK'
  BY <1>3 DEF TypeOK, Get, Calls
<1>4. ASSUME NEW c \in Callers, NEW f \in Futures, New(c, f) PROVE TypeOK'
  BY <1>4 DEF TypeOK, New, Roles
<1>5. ASSUME NEW c \in Callers, NEW f \in Futures, RunAsync(c, f) PROVE TypeOK'
  <2>1. role' \in [Futures -> Roles]
    BY <1>5 DEF TypeOK, RunAsync, Roles
  <2>2. CASE proxy
    BY <1>5, <2>1, <2>2, EnterTyped DEF TypeOK, RunAsync
  <2>3. CASE ~proxy
    BY <1>5, <2>1, <2>3, OutcomesTyped, ResolveTyped DEF TypeOK, RunAsync
  <2> QED
    BY <2>2, <2>3
<1>6. ASSUME NEW c \in Callers, NEW f \in Futures, NEW p \in Futures, Chain(c, f, p)
      PROVE TypeOK'
  BY <1>6 DEF TypeOK, Chain, Derived, Roles
<1>7. ASSUME NEW c \in Callers, NEW f \in Futures, Start(c, f) PROVE TypeOK'
  BY <1>7 DEF TypeOK, Start, Calls
<1>8. ASSUME NEW c \in Callers, NEW f \in Futures, Join(c, f) PROVE TypeOK'
  BY <1>8 DEF TypeOK, Join, Calls
<1>9. ASSUME NEW c \in Callers, GetReturns(c) PROVE TypeOK'
  <2>1. waiting[c].fut \in Futures
    BY <1>9 DEF TypeOK, GetReturns, Calls, Idle
  <2> QED
    BY <1>9, <2>1, OutcomeOfTyped DEF TypeOK, GetReturns, Calls
<1>10. ASSUME NEW c \in Callers, TimesOut(c) PROVE TypeOK'
  BY <1>10 DEF TypeOK, TimesOut, Calls
<1>11. ASSUME NEW c \in Callers, Spawn(c) PROVE TypeOK'
  <2>1. waiting[c].fut \in Futures
    BY <1>11 DEF TypeOK, Spawn, Calls, Idle
  <2>2. waiting' \in [Callers -> Calls]
    BY <1>11 DEF TypeOK, Spawn, Calls
  <2>3. CASE proxy
    BY <1>11, <2>1, <2>2, <2>3, EnterTyped DEF TypeOK, Spawn
  <2>4. CASE ~proxy
    BY <1>11, <2>1, <2>2, <2>4, OutcomesTyped, ResolveTyped DEF TypeOK, Spawn
  <2> QED
    BY <2>3, <2>4
<1>12. ASSUME NEW f \in Futures, Wake(f) PROVE TypeOK'
  <2> DEFINE o == OutcomeOf(parent[f])
  <2>1. parent[f] \in Futures /\ o \in Outcomes
    BY <1>12, OutcomeOfTyped DEF Wake, Wired
  <2>2. seen' \in [Futures -> Outcomes \cup {None}] /\ answers' \in SUBSET (Futures \X Outcomes)
    BY <1>12, <2>1 DEF TypeOK, Wake
  <2>3. (IF Skips(role[f], o) THEN o ELSE Error(NoVM)) \in Outcomes
    BY <2>1, OutcomesTyped
  <2>4. CASE ~Skips(role[f], o) /\ proxy
    BY <1>12, <2>2, <2>4, EnterTyped DEF TypeOK, Wake
  <2>5. CASE ~(~Skips(role[f], o) /\ proxy)
    BY <1>12, <2>2, <2>3, <2>5 DEF TypeOK, Wake
  <2> QED
    BY <2>4, <2>5
<1>13. ASSUME NEW f \in Futures, Return(f) PROVE TypeOK'
  <2>1. PICK o \in TaskOutcomes :
           deliver' = [deliver EXCEPT ![f] = AfterClosure(role[f], seen[f], o)]
    BY <1>13 DEF Return
  <2>2. AfterClosure(role[f], seen[f], o) \in Outcomes \cup {None}
    BY OutcomesTyped DEF AfterClosure, TypeOK
  <2> QED
    BY <1>13, <2>1, <2>2 DEF TypeOK, Return
<1>14. ASSUME NEW f \in Futures, Deliver(f) PROVE TypeOK'
  BY <1>14, ResolveTyped DEF TypeOK, Deliver, Wired
<1>15. CASE UNCHANGED vars
  BY <1>15 DEF TypeOK, vars
<1> QED
  BY <1>1, <1>2, <1>3, <1>4, <1>5, <1>6, <1>7, <1>8, <1>9, <1>10, <1>11, <1>12, <1>13,
     <1>14, <1>15 DEF Next, Call, Resume, Goroutine

\* A step of one goroutine or caller does not unwire another.
LEMMA StepWired == TypeOK /\ Wired /\ [Next]_vars => Wired'
<1> SUFFICES ASSUME TypeOK, Wired, [Next]_vars PROVE Wired'
  OBVIOUS
<1>1. ASSUME NEW c \in Callers, NEW f \in Futures, Complete(c, f) \/ Cancel(c, f) PROVE Wired'
  BY <1>1 DEF Wired, Complete, Cancel
<1>2. ASSUME NEW c \in Callers, NEW f \in Futures, Get(c, f) \/ Join(c, f) PROVE Wired'
  BY <1>2 DEF Wired, TypeOK, Get, Join
<1>3. ASSUME NEW c \in Callers, NEW f \in Futures, New(c, f) PROVE Wired'
  <2>1. \A d \in Callers : waiting[d].op = "starting" => waiting[d].fut \in Futures
    BY DEF TypeOK, Calls, Idle
  <2> QED
    BY <1>3, <2>1 DEF Wired, TypeOK, New, Fresh
<1>4. ASSUME NEW c \in Callers, NEW f \in Futures, RunAsync(c, f) PROVE Wired'
  <2>1. \A d \in Callers : waiting[d].op = "starting" => waiting[d].fut # f
    BY <1>4 DEF Wired, RunAsync, Fresh
  <2>2. \A g \in Futures : pc'[g] = pc[g] \/ (g = f /\ pc'[g] = "call" /\ role'[g] = "async")
    BY <1>4 DEF TypeOK, RunAsync, Enter
  <2>3. \A g \in Futures : g # f => role'[g] = role[g]
    BY <1>4 DEF TypeOK, RunAsync
  <2>4. role'[f] = "async" /\ UNCHANGED <<parent, seen, deliver, waiting>>
    BY <1>4 DEF TypeOK, RunAsync
  <2>5. \A d \in Callers : waiting[d].op = "starting" => waiting[d].fut \in Futures
    BY DEF TypeOK, Calls, Idle
  <2> QED
    BY <2>1, <2>2, <2>3, <2>4, <2>5 DEF Wired
<1>5. ASSUME NEW c \in Callers, NEW f \in Futures, NEW p \in Futures, Chain(c, f, p)
      PROVE Wired'
  <2>1. \A d \in Callers : waiting[d].op = "starting" => waiting[d].fut \in Futures \ {f}
    BY <1>5 DEF Wired, TypeOK, Calls, Idle, Chain, Fresh
  <2> QED
    BY <1>5, <2>1 DEF Wired, TypeOK, Chain
<1>6. ASSUME NEW c \in Callers, NEW f \in Futures, Start(c, f) PROVE Wired'
  BY <1>6 DEF Wired, TypeOK, Start
<1>7. ASSUME NEW c \in Callers, GetReturns(c) \/ TimesOut(c) PROVE Wired'
  BY <1>7 DEF Wired, TypeOK, GetReturns, TimesOut, Idle
<1>8. ASSUME NEW c \in Callers, Spawn(c) PROVE Wired'
  <2> DEFINE f == waiting[c].fut
  <2>1. f \in Futures /\ role[f] = "thread"
    BY <1>8 DEF Spawn, Wired, TypeOK, Calls, Idle
  <2>2. \A g \in Futures : pc'[g] = pc[g] \/ (g = f /\ pc'[g] = "call")
    BY <1>8, <2>1 DEF TypeOK, Spawn, Enter
  <2>3. UNCHANGED <<role, parent, seen, deliver>>
    BY <1>8 DEF Spawn
  <2>4. \A d \in Callers : waiting'[d] = waiting[d] \/ waiting'[d] = Idle
    BY <1>8 DEF TypeOK, Spawn
  <2> QED
    BY <2>1, <2>2, <2>3, <2>4 DEF Wired, Idle
<1>9. ASSUME NEW f \in Futures, Wake(f) PROVE Wired'
  <2> DEFINE o == OutcomeOf(parent[f])
  <2>1. o \in Outcomes /\ Error(NoVM) \in Outcomes
    BY <1>9, OutcomeOfTyped, OutcomesTyped DEF Wake, Wired
  <2>2. /\ UNCHANGED <<role, parent, waiting>>
        /\ seen' = [seen EXCEPT ![f] = o]
    BY <1>9 DEF Wake
  <2>3. CASE ~Skips(role[f], o) /\ proxy
    <3>1. pc' = [pc EXCEPT ![f] = "call"] /\ deliver' = deliver
      BY <1>9, <2>3 DEF Wake, Enter
    <3> QED
      BY <2>1, <2>2, <3>1 DEF Wired, TypeOK
  <2>4. CASE ~(~Skips(role[f], o) /\ proxy)
    <3>1. /\ pc' = [pc EXCEPT ![f] = "deliver"]
          /\ deliver' = [deliver EXCEPT ![f] = IF Skips(role[f], o) THEN o ELSE Error(NoVM)]
      BY <1>9, <2>4 DEF Wake
    <3> QED
      BY <2>1, <2>2, <3>1 DEF Wired, TypeOK
  <2> QED
    BY <2>3, <2>4
<1>10. ASSUME NEW f \in Futures, Return(f) PROVE Wired'
  <2>1. PICK o \in TaskOutcomes :
           deliver' = [deliver EXCEPT ![f] = AfterClosure(role[f], seen[f], o)]
    BY <1>10 DEF Return
  <2>2. AfterClosure(role[f], seen[f], o) \in Outcomes
    BY <1>10, OutcomesTyped DEF AfterClosure, Return, Wired
  <2> QED
    BY <1>10, <2>1, <2>2 DEF Wired, TypeOK, Return
<1>11. ASSUME NEW f \in Futures, Deliver(f) PROVE Wired'
  BY <1>11 DEF Wired, TypeOK, Deliver
<1>12. CASE UNCHANGED vars
  BY <1>12 DEF Wired, vars
<1> QED
  BY <1>1, <1>2, <1>3, <1>4, <1>5, <1>6, <1>7, <1>8, <1>9, <1>10, <1>11, <1>12
     DEF Next, Call, Resume, Goroutine

LEMMA InitWired == Init => TypeOK /\ Wired
BY DEF Init, TypeOK, Wired, Roles, Outcomes, Idle, Calls

\* TypeOK is inductive only together with Wired.
LEMMA Typed == Spec => [](TypeOK /\ Wired)
<1>1. Init => TypeOK /\ Wired
  BY InitWired
<1>2. TypeOK /\ Wired /\ [Next]_vars => (TypeOK /\ Wired)'
  BY StepTypeOK, StepWired
<1> QED
  BY <1>1, <1>2, PTL DEF Spec

\* The handles, goroutines and callers keep their types (futureHandle, threadHandle).
THEOREM TypeCorrect == Spec => []TypeOK
BY Typed, PTL
-----------------------------------------------------------------------------
(* What a step does to the handles and to those who are told of them *)

\* Somebody resolves f, and nobody is told anything.  Only cancel marks a handle.
Resolves(f) ==
    /\ \E o \in Outcomes, cancel \in BOOLEAN :
          Resolve(f, o, cancel) /\ (cancel => o = Error(Cancelled))
    /\ answers' = answers

\* Somebody is told how f, which is done, ended.
Tells(f) ==
    /\ completed[f]
    /\ answers' = answers \cup {<<f, OutcomeOf(f)>>}
    /\ UNCHANGED <<handleVars, wins>>

\* Every step of the module resolves a handle, tells somebody its outcome, or leaves the
\* handles and the answers alone.
LEMMA Effects ==
    ASSUME TypeOK, Wired, [Next]_vars
    PROVE  \/ \E f \in Futures : Resolves(f) \/ Tells(f)
           \/ UNCHANGED <<handleVars, wins, answers>>
<1> DEFINE Effect == \/ \E f \in Futures : Resolves(f) \/ Tells(f)
                    \/ UNCHANGED <<handleVars, wins, answers>>
<1> SUFFICES Effect
  OBVIOUS
<1>1. ASSUME NEW c \in Callers, NEW f \in Futures, Complete(c, f) PROVE Effect
  BY <1>1, OutcomesTyped DEF Complete, Resolves
<1>2. ASSUME NEW c \in Callers, NEW f \in Futures, Cancel(c, f) PROVE Effect
  BY <1>2, OutcomesTyped DEF Cancel, Resolves
<1>3. ASSUME NEW c \in Callers, NEW f \in Futures,
             Get(c, f) \/ New(c, f) \/ Start(c, f) \/ Join(c, f)
      PROVE  Effect
  BY <1>3 DEF Get, New, Start, Join, ghostVars
<1>4. ASSUME NEW c \in Callers, NEW f \in Futures, NEW p \in Futures, Chain(c, f, p)
      PROVE Effect
  BY <1>4 DEF Chain, ghostVars
<1>5. ASSUME NEW c \in Callers, NEW f \in Futures, RunAsync(c, f) PROVE Effect
  BY <1>5, OutcomesTyped DEF RunAsync, Resolves
<1>6. ASSUME NEW c \in Callers, GetReturns(c) PROVE Effect
  <2>1. waiting[c].fut \in Futures
    BY <1>6 DEF TypeOK, GetReturns, Calls, Idle
  <2> QED
    BY <1>6, <2>1 DEF GetReturns, Tells
<1>7. ASSUME NEW c \in Callers, TimesOut(c) PROVE Effect
  BY <1>7 DEF TimesOut, ghostVars
<1>8. ASSUME NEW c \in Callers, Spawn(c) PROVE Effect
  <2>1. waiting[c].fut \in Futures
    BY <1>8 DEF TypeOK, Spawn, Calls, Idle
  <2> QED
    BY <1>8, <2>1, OutcomesTyped DEF Spawn, Resolves
<1>9. ASSUME NEW f \in Futures, Wake(f) PROVE Effect
  <2>1. parent[f] \in Futures
    BY <1>9 DEF Wake, Wired
  <2> QED
    BY <1>9, <2>1 DEF Wake, Tells
<1>10. ASSUME NEW f \in Futures, Return(f) PROVE Effect
  BY <1>10 DEF Return, ghostVars
<1>11. ASSUME NEW f \in Futures, Deliver(f) PROVE Effect
  <2>1. deliver[f] \in Outcomes
    BY <1>11 DEF Deliver, Wired
  <2> QED
    BY <1>11, <2>1 DEF Deliver, Resolves
<1>12. CASE UNCHANGED vars
  BY <1>12 DEF vars, ghostVars
<1> QED
  BY <1>1, <1>2, <1>3, <1>4, <1>5, <1>6, <1>7, <1>8, <1>9, <1>10, <1>11, <1>12
     DEF Next, Call, Resume, Goroutine

\* A pending handle takes the outcome it is resolved with, a done one keeps its own, and
\* no other handle is touched (resolve).
LEMMA ResolveSettles ==
    ASSUME TypeOK, NEW f \in Futures, NEW o \in Outcomes, NEW cancel \in BOOLEAN,
           Resolve(f, o, cancel)
    PROVE  /\ completed[f] => UNCHANGED <<handleVars, wins>>
           /\ ~completed[f] =>
                 /\ completed' = [completed EXCEPT ![f] = TRUE]
                 /\ OutcomeOf(f)' = o
           /\ \A g \in Futures \ {f} : OutcomeOf(g)' = OutcomeOf(g)
<1>1. CASE completed[f]
  BY <1>1 DEF Resolve, handleVars, OutcomeOf
<1>2. CASE ~completed[f]
  <2>1. /\ completed' = [completed EXCEPT ![f] = TRUE]
        /\ result' = [result EXCEPT ![f] = IF o.ok THEN o.data ELSE Nil]
        /\ err' = [err EXCEPT ![f] = IF o.ok THEN NoError ELSE o.data]
    BY <1>2 DEF Resolve
  <2>2. /\ result'[f] = IF o.ok THEN o.data ELSE Nil
        /\ err'[f] = IF o.ok THEN NoError ELSE o.data
    BY <2>1 DEF TypeOK
  <2>3. \A g \in Futures \ {f} : result'[g] = result[g] /\ err'[g] = err[g]
    BY <2>1 DEF TypeOK
  <2>4. CASE o.ok
    <3>1. o = Value(o.data)
      BY <2>4 DEF Outcomes, Value, Error
    <3> QED
      BY <1>2, <2>1, <2>2, <2>3, <2>4, <3>1 DEF OutcomeOf
  <2>5. CASE ~o.ok
    <3>1. o = Error(o.data)
      BY <2>5 DEF Outcomes, Value, Error
    <3>2. o.data # NoError
      BY <2>5, OutcomeShape, FuturesAssumption DEF AllErrors
    <3> QED
      BY <1>2, <2>1, <2>2, <2>3, <2>5, <3>1, <3>2 DEF OutcomeOf
  <2> QED
    BY <2>4, <2>5
<1> QED
  BY <1>1, <1>2
-----------------------------------------------------------------------------
(* Safety *)

\* Whatever anybody was told of a handle is what the handle still answers.
Told == \A a \in answers : completed[a[1]] /\ a[2] = OutcomeOf(a[1])

LEMMA StepTold == TypeOK /\ Wired /\ Told /\ [Next]_vars => Told'
<1> SUFFICES ASSUME TypeOK, Wired, Told, [Next]_vars PROVE Told'
  OBVIOUS
<1> DEFINE Same == UNCHANGED <<handleVars, wins>>
<1>1. \A a \in answers : a[1] \in Futures
  BY DEF TypeOK
<1>2. Same => \A f \in Futures : completed'[f] = completed[f] /\ OutcomeOf(f)' = OutcomeOf(f)
  BY DEF handleVars, OutcomeOf
<1>3. ASSUME NEW f \in Futures, Resolves(f) PROVE Told'
  <2>1. PICK o \in Outcomes, cancel \in BOOLEAN : Resolve(f, o, cancel)
    BY <1>3 DEF Resolves
  <2>2. answers' = answers
    BY <1>3 DEF Resolves
  <2>3. CASE completed[f]
    BY <1>1, <1>2, <2>1, <2>2, <2>3, ResolveSettles DEF Told
  <2>4. CASE ~completed[f]
    <3>1. \A a \in answers : a[1] \in Futures \ {f}
      BY <1>1, <2>4 DEF Told
    <3>2. completed' = [completed EXCEPT ![f] = TRUE]
      BY <2>1, <2>4, ResolveSettles
    <3>3. \A g \in Futures \ {f} : OutcomeOf(g)' = OutcomeOf(g) /\ completed'[g] = completed[g]
      BY <2>1, <3>2, ResolveSettles DEF TypeOK
    <3> QED
      BY <2>2, <3>1, <3>3 DEF Told
  <2> QED
    BY <2>3, <2>4
<1>4. ASSUME NEW f \in Futures, Tells(f) PROVE Told'
  <2>1. answers' = answers \cup {<<f, OutcomeOf(f)>>} /\ completed[f] /\ Same
    BY <1>4 DEF Tells
  <2> QED
    BY <1>1, <1>2, <2>1 DEF Told
<1>5. CASE UNCHANGED <<handleVars, wins, answers>>
  BY <1>1, <1>2, <1>5 DEF Told
<1> QED
  BY <1>3, <1>4, <1>5, Effects

\* AnswersAgree for every number of handles and callers: two of those who wait for a
\* future are never told different outcomes.
THEOREM AnswersAlwaysAgree == Spec => []AnswersAgree
<1>1. Init => Told
  BY DEF Init, Told
<1>2. Told => AnswersAgree
  BY DEF Told, AnswersAgree
<1> QED
  BY <1>1, <1>2, StepTold, Typed, PTL DEF Spec

LEMMA StepOneWinner == TypeOK /\ Wired /\ OneWinner /\ [Next]_vars => OneWinner'
<1> SUFFICES ASSUME TypeOK, Wired, OneWinner, [Next]_vars PROVE OneWinner'
  OBVIOUS
<1>1. CASE UNCHANGED <<handleVars, wins>>
  BY <1>1 DEF OneWinner, handleVars
<1>2. ASSUME NEW f \in Futures, Resolves(f) PROVE OneWinner'
  <2>1. PICK o \in Outcomes, cancel \in BOOLEAN :
           Resolve(f, o, cancel) /\ (cancel => o = Error(Cancelled))
    BY <1>2 DEF Resolves
  <2>2. CASE completed[f]
    BY <1>1, <2>1, <2>2 DEF Resolve
  <2>3. CASE ~completed[f]
    <3>1. /\ completed' = [completed EXCEPT ![f] = TRUE]
          /\ cancelled' = [cancelled EXCEPT ![f] = cancel]
          /\ err' = [err EXCEPT ![f] = IF o.ok THEN NoError ELSE o.data]
          /\ wins' = [wins EXCEPT ![f] = @ + 1]
      BY <2>1, <2>3 DEF Resolve
    <3>2. cancel => err'[f] = Cancelled
      BY <2>1, <3>1 DEF Error, TypeOK
    <3>3. completed'[f] /\ cancelled'[f] = cancel /\ wins'[f] = 1
      BY <2>3, <3>1 DEF TypeOK, OneWinner
    <3>4. \A g \in Futures \ {f} : /\ completed'[g] = completed[g]
                                   /\ cancelled'[g] = cancelled[g]
                                   /\ err'[g] = err[g]
                                   /\ wins'[g] = wins[g]
      BY <3>1 DEF TypeOK
    <3> QED
      BY <3>2, <3>3, <3>4 DEF OneWinner
  <2> QED
    BY <2>2, <2>3
<1>3. ASSUME NEW f \in Futures, Tells(f) PROVE OneWinner'
  BY <1>1, <1>3 DEF Tells
<1>4. CASE UNCHANGED <<handleVars, wins, answers>>
  BY <1>1, <1>4
<1> QED
  BY <1>2, <1>3, <1>4, Effects

\* OneWinner for every number of handles and callers: of complete, cancel and the task
\* exactly one settles a future, and a cancel that returned true is what it ends with.
THEOREM AlwaysOneWinner == Spec => []OneWinner
<1>1. Init => OneWinner
  BY DEF Init, OneWinner
<1> QED
  BY <1>1, StepOneWinner, Typed, PTL DEF Spec
-----------------------------------------------------------------------------
(* Refinement *)

LEMMA NoneIsNoOutcome == None \notin Outcomes
BY FuturesAssumption DEF None, Outcomes, Value, Error, AllErrors

\* Under the mapping Settled, resolve settles the promise or stutters, a wake-up or a
\* returning get answers, and everything else stutters.
LEMMA StepRefines ==
    ASSUME TypeOK, Wired, [Next]_vars
    PROVE  [Abstract!Next]_(Abstract!vars)
<1>1. ASSUME UNCHANGED handleVars PROVE Settled' = Settled
  BY <1>1 DEF Settled, handleVars, OutcomeOf
<1>2. ASSUME NEW f \in Futures, Resolves(f) PROVE [Abstract!Next]_(Abstract!vars)
  <2>1. PICK o \in Outcomes, cancel \in BOOLEAN : Resolve(f, o, cancel)
    BY <1>2 DEF Resolves
  <2>2. answers' = answers
    BY <1>2 DEF Resolves
  <2>3. CASE completed[f]
    BY <1>1, <2>1, <2>2, <2>3, ResolveSettles DEF Abstract!vars
  <2>4. CASE ~completed[f]
    <3>1. completed' = [completed EXCEPT ![f] = TRUE] /\ OutcomeOf(f)' = o
      BY <2>1, <2>4, ResolveSettles
    <3>2. \A g \in Futures \ {f} : OutcomeOf(g)' = OutcomeOf(g)
      BY <2>1, ResolveSettles
    <3>3. Settled' = [Settled EXCEPT ![f] = o]
      BY <3>1, <3>2 DEF Settled, TypeOK
    <3>4. Settled[f] = None
      BY <2>4 DEF Settled
    <3> QED
      BY <2>2, <3>3, <3>4 DEF Abstract!Next, Abstract!Settle
  <2> QED
    BY <2>3, <2>4
<1>3. ASSUME NEW f \in Futures, Tells(f) PROVE [Abstract!Next]_(Abstract!vars)
  <2>1. Settled[f] = OutcomeOf(f) /\ Settled[f] # None
    BY <1>3, OutcomeOfTyped, NoneIsNoOutcome DEF Tells, Settled
  <2>2. Settled' = Settled
    BY <1>1, <1>3 DEF Tells
  <2> QED
    BY <1>3, <2>1, <2>2 DEF Tells, Abstract!Next, Abstract!Answer
<1>4. CASE UNCHANGED <<handleVars, wins, answers>>
  BY <1>1, <1>4 DEF Abstract!vars
<1> QED
  BY <1>2, <1>3, <1>4, Effects

\* The handles, goroutines and callbacks implement the promise of module Promise: a
\* future is settled once, and everybody is told what it was settled with.
THEOREM FuturesImplementPromise == Spec => ImplementsPromise
<1>1. Init => Abstract!Init
  BY DEF Init, Abstract!Init, Settled
<1>2. TypeOK /\ Wired /\ [Next]_vars => [Abstract!Next]_(Abstract!vars)
  BY StepRefines
<1> QED
  BY <1>1, <1>2, Typed, PTL DEF Spec, ImplementsPromise, Abstract!Spec
-----------------------------------------------------------------------------
(* Closures and what continuations pass on *)

\* Where a handle is in its life: it has no goroutine before it is made (a thread, before
\* it is started), its closure has not been entered before that goroutine got so far, and
\* one call of start at most is about to make it.
Lives ==
    /\ \A f \in Futures :
          /\ role[f] = "unused" => pc[f] = "none" /\ ~started[f]
          /\ role[f] = "thread" /\ ~started[f] => pc[f] = "none"
          /\ pc[f] = "await" => role[f] \in Derived
          /\ pc[f] \in {"none", "await"} => calls[f] = 0
          /\ pc[f] = "call" => calls[f] = 1
          /\ calls[f] <= 1
    /\ \A c \in Callers : waiting[c].op = "starting" =>
          /\ pc[waiting[c].fut] = "none" /\ started[waiting[c].fut]
          /\ \A d \in Callers :
                waiting[d].op = "starting" /\ waiting[d].fut = waiting[c].fut => d = c

\* A goroutine past its parent has what the parent ended with.
Heard(f) ==
    pc[f] \in {"call", "deliver", "end"} /\ role[f] \in Derived =>
        /\ parent[f] \in Futures /\ completed[parent[f]]
        /\ seen[f] = OutcomeOf(parent[f])

\* A closure that was entered was not to be gone round.
Entered(f) ==
    calls[f] = 1 => /\ role[f] = "then" => seen[f].ok
                    /\ role[f] = "catch" => ~seen[f].ok

\* What is delivered, or was, is what was heard unless the closure had a say in it.
Passes(f) ==
    pc[f] \in {"deliver", "end"} =>
        /\ role[f] = "then" /\ ~seen[f].ok => deliver[f] = seen[f]
        /\ role[f] = "catch" /\ seen[f].ok => deliver[f] = seen[f]
        /\ role[f] = "finally" => deliver[f] = seen[f] \/ ~deliver[f].ok
        /\ role[f] = "finally" /\ proxy => calls[f] = 1

\* A handle that its goroutine resolved ended as that goroutine said.
Owns(f) ==
    f \in owned => completed[f] /\ pc[f] = "end" /\ deliver[f] = OutcomeOf(f)

PassedOn == \A f \in Futures : Heard(f) /\ Entered(f) /\ Passes(f) /\ Owns(f)

\* Calls that move no goroutine.
Quiet == UNCHANGED <<proxy, role, parent, pc, seen, deliver, owned, calls>>

\* Every step of the module leaves the handles in an order of life.
LEMMA StepLives == TypeOK /\ Wired /\ Lives /\ [Next]_vars => Lives'
<1> SUFFICES ASSUME TypeOK, Wired, Lives, [Next]_vars PROVE Lives'
  OBVIOUS
<1> USE DEF handleVars, ghostVars
<1>0. \A c \in Callers : waiting[c].op = "starting" => waiting[c].fut \in Futures
  BY DEF TypeOK, Calls, Idle
<1>1. ASSUME NEW c \in Callers, NEW f \in Futures, Complete(c, f) \/ Cancel(c, f) PROVE Lives'
  <2>1. UNCHANGED <<role, started, pc, waiting, calls>>
    BY <1>1 DEF Complete, Cancel
  <2> QED
    BY <2>1 DEF Lives
<1>2. ASSUME NEW c \in Callers, NEW f \in Futures, Get(c, f) \/ Join(c, f) PROVE Lives'
  BY <1>2 DEF Lives, TypeOK, Get, Join
<1>3. ASSUME NEW c \in Callers, NEW f \in Futures, New(c, f) PROVE Lives'
  BY <1>0, <1>3 DEF Lives, TypeOK, New, Fresh
<1>4. ASSUME NEW c \in Callers, NEW f \in Futures, RunAsync(c, f) PROVE Lives'
  <2>1. role[f] = "unused" /\ pc[f] = "none" /\ calls[f] = 0
    BY <1>4 DEF RunAsync, Fresh, Lives
  <2>2. \A d \in Callers : waiting[d].op = "starting" => waiting[d].fut # f
    BY <2>1 DEF Wired
  <2>3. /\ UNCHANGED <<started, waiting>>
        /\ role' = [role EXCEPT ![f] = "async"]
    BY <1>4 DEF RunAsync
  <2>4. CASE proxy
    <3>1. pc' = [pc EXCEPT ![f] = "call"] /\ calls' = [calls EXCEPT ![f] = @ + 1]
      BY <1>4, <2>4 DEF RunAsync, Enter
    <3> QED
      BY <1>0, <2>1, <2>2, <2>3, <3>1 DEF Lives, TypeOK
  <2>5. CASE ~proxy
    <3>1. UNCHANGED <<pc, calls>>
      BY <1>4, <2>5 DEF RunAsync
    <3> QED
      BY <1>0, <2>1, <2>2, <2>3, <3>1 DEF Lives, TypeOK
  <2> QED
    BY <2>4, <2>5
<1>5. ASSUME NEW c \in Callers, NEW f \in Futures, NEW p \in Futures, Chain(c, f, p)
      PROVE Lives'
  <2>1. role[f] = "unused" /\ pc[f] = "none" /\ calls[f] = 0
    BY <1>5 DEF Chain, Fresh, Lives
  <2>2. \A d \in Callers : waiting[d].op = "starting" => waiting[d].fut # f
    BY <2>1 DEF Wired
  <2> QED
    BY <1>0, <1>5, <2>1, <2>2 DEF Lives, TypeOK, Chain, Derived
<1>6. ASSUME NEW c \in Callers, NEW f \in Futures, Start(c, f) PROVE Lives'
  <2>1. pc[f] = "none" /\ \A d \in Callers : waiting[d].op = "starting" => waiting[d].fut # f
    BY <1>6 DEF Start, Lives
  <2>2. /\ started' = [started EXCEPT ![f] = TRUE]
        /\ waiting' = [waiting EXCEPT ![c] = [op |-> "starting", fut |-> f]]
        /\ UNCHANGED <<role, pc, calls>>
    BY <1>6 DEF Start
  <2>3. \A d \in Callers \ {c} : waiting'[d] = waiting[d]
    BY <2>2 DEF TypeOK
  <2>4. waiting'[c].fut = f
    BY <2>2 DEF TypeOK
  <2>5. \A g \in Futures : started[g] => started'[g]
    BY <2>2 DEF TypeOK
  <2>6. started'[f]
    BY <2>2 DEF TypeOK
  <2>7. role[f] = "thread"
    BY <1>6 DEF Start
  <2> QED
    BY <1>0, <2>1, <2>2, <2>3, <2>4, <2>5, <2>6, <2>7 DEF Lives, TypeOK
<1>7. ASSUME NEW c \in Callers, GetReturns(c) \/ TimesOut(c) PROVE Lives'
  BY <1>7 DEF Lives, TypeOK, GetReturns, TimesOut, Idle
<1>8. ASSUME NEW c \in Callers, Spawn(c) PROVE Lives'
  <2> DEFINE f == waiting[c].fut
  <2>1. f \in Futures /\ role[f] = "thread" /\ pc[f] = "none" /\ calls[f] = 0 /\ started[f]
    BY <1>0, <1>8 DEF Spawn, Wired, Lives
  <2>2. UNCHANGED <<role, started>> /\ waiting' = [waiting EXCEPT ![c] = Idle]
    BY <1>8 DEF Spawn
  <2>3. \A d \in Callers : waiting'[d].op = "starting" =>
           waiting'[d] = waiting[d] /\ waiting[d].fut # f
    BY <1>8, <2>2 DEF TypeOK, Idle, Lives, Spawn
  <2>4. CASE proxy
    <3>1. pc' = [pc EXCEPT ![f] = "call"] /\ calls' = [calls EXCEPT ![f] = @ + 1]
      BY <1>8, <2>4 DEF Spawn, Enter
    <3> QED
      BY <1>0, <2>1, <2>2, <2>3, <3>1 DEF Lives, TypeOK
  <2>5. CASE ~proxy
    <3>1. UNCHANGED <<pc, calls>>
      BY <1>8, <2>5 DEF Spawn
    <3> QED
      BY <1>0, <2>1, <2>2, <2>3, <3>1 DEF Lives, TypeOK
  <2> QED
    BY <2>4, <2>5
<1>9. ASSUME NEW f \in Futures, Wake(f) PROVE Lives'
  <2>1. /\ UNCHANGED <<role, started, waiting>>
        /\ pc[f] = "await" /\ role[f] \in Derived /\ calls[f] = 0
    BY <1>9 DEF Wake, Lives
  <2>2. \/ pc' = [pc EXCEPT ![f] = "call"] /\ calls' = [calls EXCEPT ![f] = @ + 1]
        \/ pc' = [pc EXCEPT ![f] = "deliver"] /\ calls' = calls
    BY <1>9 DEF Wake, Enter
  <2>3. role[f] \notin {"unused", "thread"}
    BY <2>1 DEF Derived
  <2> QED
    BY <1>0, <2>1, <2>2, <2>3 DEF Lives, TypeOK
<1>10. ASSUME NEW f \in Futures, Return(f) \/ Deliver(f) PROVE Lives'
  <2>1. /\ UNCHANGED <<role, started, waiting, calls>>
        /\ pc[f] \in {"call", "deliver"}
        /\ pc' = [pc EXCEPT ![f] = "deliver"] \/ pc' = [pc EXCEPT ![f] = "end"]
    BY <1>10 DEF Return, Deliver
  <2> QED
    BY <1>0, <2>1 DEF Lives, TypeOK
<1>11. CASE UNCHANGED vars
  BY <1>11 DEF Lives, vars
<1> QED
  BY <1>1, <1>2, <1>3, <1>4, <1>5, <1>6, <1>7, <1>8, <1>9, <1>10, <1>11
     DEF Next, Call, Resume, Goroutine

\* A handle that is done stays done, and answers as before (resolve).
LEMMA DoneStays ==
    ASSUME TypeOK, Wired, [Next]_vars, NEW f \in Futures, completed[f]
    PROVE  completed'[f] /\ OutcomeOf(f)' = OutcomeOf(f)
<1>1. ASSUME UNCHANGED <<handleVars, wins>> PROVE completed'[f] /\ OutcomeOf(f)' = OutcomeOf(f)
  BY <1>1 DEF handleVars, OutcomeOf
<1>2. ASSUME NEW g \in Futures, Resolves(g)
      PROVE  completed'[f] /\ OutcomeOf(f)' = OutcomeOf(f)
  <2>1. PICK o \in Outcomes, cancel \in BOOLEAN : Resolve(g, o, cancel)
    BY <1>2 DEF Resolves
  <2>2. CASE completed[g]
    BY <1>1, <2>1, <2>2, ResolveSettles
  <2>3. CASE ~completed[g]
    <3>1. completed' = [completed EXCEPT ![g] = TRUE]
      BY <2>1, <2>3, ResolveSettles
    <3>2. f \in Futures \ {g}
      BY <2>3
    <3> QED
      BY <2>1, <3>1, <3>2, ResolveSettles DEF TypeOK
  <2> QED
    BY <2>2, <2>3
<1>3. ASSUME NEW g \in Futures, Tells(g) PROVE completed'[f] /\ OutcomeOf(f)' = OutcomeOf(f)
  BY <1>1, <1>3 DEF Tells
<1> QED
  BY <1>1, <1>2, <1>3, Effects

\* A step keeps what is said of every goroutine and handle but those it moves.
LEMMA Undisturbed ==
    ASSUME TypeOK, Wired, PassedOn, [Next]_vars, NEW f \in Futures,
           proxy' = proxy, role'[f] = role[f], parent'[f] = parent[f], pc'[f] = pc[f],
           seen'[f] = seen[f], deliver'[f] = deliver[f], calls'[f] = calls[f],
           f \in owned' => f \in owned
    PROVE  Heard(f)' /\ Entered(f)' /\ Passes(f)' /\ Owns(f)'
<1>1. Heard(f) /\ Entered(f) /\ Passes(f) /\ Owns(f)
  BY DEF PassedOn
<1>2. Heard(f)'
  <2> SUFFICES ASSUME pc[f] \in {"call", "deliver", "end"}, role[f] \in Derived
               PROVE  /\ parent[f] \in Futures /\ completed'[parent[f]]
                      /\ seen[f] = OutcomeOf(parent[f])'
    BY DEF Heard, Derived, OutcomeOf
  <2> QED
    BY <1>1, DoneStays DEF Heard
<1>3. Owns(f)'
  BY <1>1, DoneStays DEF Owns
<1> QED
  BY <1>1, <1>2, <1>3 DEF Entered, Passes

\* Every step of the module hands on what the continuations heard.
LEMMA StepPassedOn == TypeOK /\ Wired /\ Lives /\ PassedOn /\ [Next]_vars => PassedOn'
<1> SUFFICES ASSUME TypeOK, Wired, Lives, PassedOn, [Next]_vars PROVE PassedOn'
  OBVIOUS
<1> USE DEF handleVars, ghostVars
<1>1. ASSUME Quiet PROVE PassedOn'
  BY <1>1, Undisturbed DEF Quiet, PassedOn
<1>2. ASSUME NEW c \in Callers, NEW f \in Futures,
             Complete(c, f) \/ Cancel(c, f) \/ Get(c, f) \/ Start(c, f) \/ Join(c, f)
      PROVE  PassedOn'
  BY <1>1, <1>2 DEF Complete, Cancel, Get, Start, Join, Quiet
<1>3. ASSUME NEW f \in Futures, role[f] = "unused"
      PROVE  pc[f] = "none" /\ calls[f] = 0 /\ f \notin owned
  BY <1>3 DEF Lives, PassedOn, Owns
<1>4. ASSUME NEW f \in Futures, pc'[f] \in {"none", "await"}, calls'[f] = 0, f \notin owned'
      PROVE  Heard(f)' /\ Entered(f)' /\ Passes(f)' /\ Owns(f)'
  BY <1>4 DEF Heard, Entered, Passes, Owns
<1>5. ASSUME NEW f \in Futures, pc'[f] = "call", role'[f] \notin Derived, f \notin owned'
      PROVE  Heard(f)' /\ Entered(f)' /\ Passes(f)' /\ Owns(f)'
  BY <1>5 DEF Heard, Entered, Passes, Owns, Derived
<1>6. ASSUME NEW c \in Callers, NEW f \in Futures, New(c, f) PROVE PassedOn'
  <2>1. /\ UNCHANGED <<proxy, parent, pc, seen, deliver, owned, calls>>
        /\ \A g \in Futures \ {f} : role'[g] = role[g]
        /\ role[f] = "unused"
    BY <1>6 DEF New, Fresh, TypeOK
  <2> QED
    BY <1>3, <1>4, <2>1, Undisturbed DEF PassedOn
<1>7. ASSUME NEW c \in Callers, NEW f \in Futures, RunAsync(c, f) PROVE PassedOn'
  <2>1. /\ UNCHANGED <<proxy, parent, seen, deliver, owned>>
        /\ \A g \in Futures \ {f} : role'[g] = role[g]
        /\ role[f] = "unused" /\ role'[f] = "async"
    BY <1>7 DEF RunAsync, Fresh, TypeOK
  <2>2. /\ \A g \in Futures \ {f} : pc'[g] = pc[g] /\ calls'[g] = calls[g]
        /\ pc'[f] = "call" \/ (pc'[f] = pc[f] /\ calls'[f] = calls[f])
    <3>1. CASE proxy
      BY <1>7, <3>1 DEF RunAsync, Enter, TypeOK
    <3>2. CASE ~proxy
      BY <1>7, <3>2 DEF RunAsync
    <3> QED
      BY <3>1, <3>2
  <2>3. role'[f] \notin Derived
    BY <2>1 DEF Derived
  <2> QED
    BY <1>3, <1>4, <1>5, <2>1, <2>2, <2>3, Undisturbed DEF PassedOn
<1>8. ASSUME NEW c \in Callers, NEW f \in Futures, NEW p \in Futures, Chain(c, f, p)
      PROVE PassedOn'
  <2>1. /\ UNCHANGED <<proxy, seen, deliver, owned, calls>>
        /\ \A g \in Futures \ {f} :
              role'[g] = role[g] /\ pc'[g] = pc[g] /\ parent'[g] = parent[g]
        /\ role[f] = "unused" /\ pc'[f] = "await"
    BY <1>8 DEF Chain, Fresh, TypeOK
  <2> QED
    BY <1>3, <1>4, <2>1, Undisturbed DEF PassedOn
<1>9. ASSUME NEW c \in Callers, Spawn(c) PROVE PassedOn'
  <2> DEFINE f == waiting[c].fut
  <2>1. f \in Futures /\ role[f] = "thread" /\ pc[f] = "none"
    BY <1>9 DEF Spawn, Wired, Lives, TypeOK, Calls, Idle
  <2>2. f \notin owned /\ role[f] \notin Derived
    BY <2>1 DEF PassedOn, Owns, Derived
  <2>3. UNCHANGED <<proxy, role, parent, seen, deliver, owned>>
    BY <1>9 DEF Spawn
  <2>4. CASE proxy
    <3>1. pc' = [pc EXCEPT ![f] = "call"] /\ calls' = [calls EXCEPT ![f] = @ + 1]
      BY <1>9, <2>4 DEF Spawn, Enter
    <3>2. /\ pc'[f] = "call"
          /\ \A g \in Futures \ {f} : pc'[g] = pc[g] /\ calls'[g] = calls[g]
      BY <2>1, <3>1 DEF TypeOK
    <3> QED
      BY <1>5, <2>1, <2>2, <2>3, <3>2, Undisturbed DEF PassedOn
  <2>5. CASE ~proxy
    BY <1>1, <1>9, <2>3, <2>5 DEF Spawn, Quiet
  <2> QED
    BY <2>4, <2>5
<1>10. ASSUME NEW f \in Futures, Wake(f) PROVE PassedOn'
  <2> DEFINE o == OutcomeOf(parent[f])
  <2>1. /\ parent[f] \in Futures /\ completed[parent[f]] /\ o \in Outcomes
        /\ role[f] \in Derived /\ calls[f] = 0 /\ f \notin owned
    BY <1>10, OutcomeOfTyped DEF Wake, Wired, Lives, PassedOn, Owns
  <2>2. UNCHANGED <<proxy, role, parent, owned>> /\ seen'[f] = o
    BY <1>10 DEF Wake, TypeOK
  <2>3. \A g \in Futures \ {f} : /\ pc'[g] = pc[g] /\ seen'[g] = seen[g]
                                 /\ deliver'[g] = deliver[g] /\ calls'[g] = calls[g]
    BY <1>10 DEF Wake, Enter, TypeOK
  <2>4. Heard(f)'
    <3>1. PICK p \in Futures : p = parent[f]
      BY <2>1
    <3>2. completed'[p] /\ OutcomeOf(p)' = OutcomeOf(p)
      BY <2>1, <3>1, DoneStays
    <3> QED
      BY <2>1, <2>2, <3>1, <3>2 DEF Heard, OutcomeOf
  <2>5. Entered(f)' /\ Passes(f)'
    <3>1. CASE ~Skips(role[f], o) /\ proxy
      <4>1. pc'[f] = "call"
        BY <1>10, <3>1 DEF Wake, Enter, TypeOK
      <4> QED
        BY <2>2, <3>1, <4>1 DEF Entered, Passes, Skips
    <3>2. CASE ~(~Skips(role[f], o) /\ proxy)
      <4>1. /\ deliver'[f] = IF Skips(role[f], o) THEN o ELSE Error(NoVM)
            /\ calls'[f] = 0
        BY <1>10, <2>1, <3>2 DEF Wake, TypeOK
      <4>2. ~Error(NoVM).ok
        BY DEF Error
      <4> QED
        BY <2>2, <3>2, <4>1, <4>2 DEF Entered, Passes, Skips
    <3> QED
      BY <3>1, <3>2
  <2>6. Owns(f)'
    BY <2>1, <2>2 DEF Owns
  <2> QED
    BY <2>2, <2>3, <2>4, <2>5, <2>6, Undisturbed DEF PassedOn
<1>11. ASSUME NEW f \in Futures, Return(f) PROVE PassedOn'
  <2>1. PICK o \in TaskOutcomes :
           deliver' = [deliver EXCEPT ![f] = AfterClosure(role[f], seen[f], o)]
    BY <1>11 DEF Return
  <2>2. /\ UNCHANGED <<proxy, role, parent, seen, owned, calls>>
        /\ pc[f] = "call" /\ pc'[f] = "deliver"
        /\ deliver'[f] = AfterClosure(role[f], seen[f], o)
        /\ \A g \in Futures \ {f} : pc'[g] = pc[g] /\ deliver'[g] = deliver[g]
    BY <1>11, <2>1 DEF Return, TypeOK
  <2>3. calls[f] = 1 /\ f \notin owned /\ Heard(f) /\ Entered(f)
    BY <2>2 DEF Lives, PassedOn, Owns
  <2>4. Heard(f)'
    BY <2>2, <2>3, DoneStays DEF Heard, OutcomeOf
  <2>5. Passes(f)'
    BY <2>2, <2>3 DEF Passes, Entered, AfterClosure
  <2>6. Entered(f)' /\ Owns(f)'
    BY <2>2, <2>3 DEF Entered, Owns
  <2> QED
    BY <2>2, <2>4, <2>5, <2>6, Undisturbed DEF PassedOn
<1>12. ASSUME NEW f \in Futures, Deliver(f) PROVE PassedOn'
  <2>1. /\ UNCHANGED <<proxy, role, parent, seen, deliver, calls>>
        /\ pc[f] = "deliver" /\ pc'[f] = "end"
        /\ \A g \in Futures \ {f} : pc'[g] = pc[g] /\ (g \in owned' => g \in owned)
    BY <1>12 DEF Deliver, TypeOK
  <2>2. Heard(f) /\ Entered(f) /\ Passes(f) /\ f \notin owned
    BY <2>1 DEF PassedOn, Owns
  <2>3. Heard(f)'
    BY <2>1, <2>2, DoneStays DEF Heard, OutcomeOf
  <2>4. Entered(f)' /\ Passes(f)'
    BY <2>1, <2>2 DEF Entered, Passes
  <2>5. Owns(f)'
    <3>1. CASE completed[f]
      BY <1>12, <2>2, <3>1 DEF Deliver, Owns
    <3>2. CASE ~completed[f]
      <4>1. deliver[f] \in Outcomes
        BY <2>1 DEF Wired
      <4>2. completed'[f] /\ OutcomeOf(f)' = deliver[f]
        BY <1>12, <3>2, <4>1, ResolveSettles DEF Deliver, TypeOK
      <4> QED
        BY <2>1, <4>2 DEF Owns
    <3> QED
      BY <3>1, <3>2
  <2> QED
    BY <2>1, <2>3, <2>4, <2>5, Undisturbed DEF PassedOn
<1>13. ASSUME NEW c \in Callers, GetReturns(c) \/ TimesOut(c) PROVE PassedOn'
  BY <1>1, <1>13 DEF GetReturns, TimesOut, Quiet
<1>14. CASE UNCHANGED vars
  BY <1>1, <1>14 DEF vars, Quiet
<1> QED
  BY <1>2, <1>6, <1>7, <1>8, <1>9, <1>10, <1>11, <1>12, <1>13, <1>14
     DEF Next, Call, Resume, Goroutine

LEMMA InitPassedOn == Init => Lives /\ PassedOn
BY DEF Init, Lives, PassedOn, Heard, Entered, Passes, Owns, Idle

\* The lives of goroutines, and what they pass on, hold in every behaviour.
LEMMA AlwaysPassedOn == Spec => [](TypeOK /\ Wired /\ Lives /\ PassedOn)
<1>1. Init => TypeOK /\ Wired /\ Lives /\ PassedOn
  BY InitWired, InitPassedOn
<1>2. /\ TypeOK /\ Wired /\ Lives /\ PassedOn /\ [Next]_vars
      => (TypeOK /\ Wired /\ Lives /\ PassedOn)'
  BY StepTypeOK, StepWired, StepLives, StepPassedOn
<1> QED
  BY <1>1, <1>2, PTL DEF Spec

\* ClosureDiscipline for every number of handles and callers: a task is entered once at
\* most, the closure of then after a success, that of catch after a failure (start,
\* future_run_async and the goroutines of future_then and future_catch).
THEOREM ClosuresDisciplined == Spec => []ClosureDiscipline
<1>1. TypeOK /\ Wired /\ Lives /\ PassedOn => ClosureDiscipline
  <2> SUFFICES ASSUME TypeOK, Lives, PassedOn, NEW f \in Futures
               PROVE  /\ calls[f] <= 1
                      /\ calls[f] = 1 => /\ role[f] = "then" => seen[f].ok
                                         /\ role[f] = "catch" => ~seen[f].ok
                                         /\ role[f] = "thread" => started[f]
    BY DEF ClosureDiscipline
  <2>1. calls[f] <= 1 /\ Entered(f)
    BY DEF Lives, PassedOn
  <2>2. role[f] = "thread" /\ ~started[f] => calls[f] = 0
    BY DEF Lives
  <2> QED
    BY <2>1, <2>2 DEF Entered
<1> QED
  BY <1>1, AlwaysPassedOn, PTL

\* ChainOutcome for every length and shape of chains: then passes a failure on, catch a
\* success, and finally keeps what it was given unless its own closure failed.
THEOREM ChainsPassOn == Spec => []ChainOutcome
<1>1. TypeOK /\ Wired /\ Lives /\ PassedOn => ChainOutcome
  <2> SUFFICES ASSUME TypeOK, PassedOn, NEW f \in owned
               PROVE  LET o == OutcomeOf(f)
                          p == OutcomeOf(parent[f])
                      IN  /\ role[f] = "then" /\ ~p.ok => o = p
                          /\ role[f] = "catch" /\ p.ok => o = p
                          /\ role[f] = "finally" => o = p \/ ~o.ok
                          /\ role[f] = "finally" /\ proxy => calls[f] = 1
    BY DEF ChainOutcome
  <2>1. f \in Futures
    BY DEF TypeOK
  <2>2. pc[f] = "end" /\ deliver[f] = OutcomeOf(f)
    BY <2>1 DEF PassedOn, Owns
  <2>3. role[f] \in Derived => seen[f] = OutcomeOf(parent[f])
    BY <2>1, <2>2 DEF PassedOn, Heard
  <2> QED
    BY <2>1, <2>2, <2>3 DEF PassedOn, Passes, Derived
<1> QED
  BY <1>1, AlwaysPassedOn, PTL

-----------------------------------------------------------------------------
(* MCConcurrent *)

\* The two instances of UiTasks have the same assumption, initial states and steps.
LEMMA SameUiTasks ==
    /\ Ui!UiAssumption <=> UiTheory!UiAssumption
    /\ Ui!Init <=> UiTheory!Init
    /\ Ui!Next <=> UiTheory!Next
    /\ Ui!vars = UiTheory!vars
BY DEF Ui!Front, UiTheory!Front, Ui!Last, UiTheory!Last, Ui!Range, UiTheory!Range,
       Ui!RemoveAt, UiTheory!RemoveAt, Ui!tasks, UiTheory!tasks, Ui!loops, UiTheory!loops,
       Ui!history, UiTheory!history, Ui!vars, UiTheory!vars, Ui!Runners, UiTheory!Runners,
       Ui!Posted, UiTheory!Posted, Ui!NoSink, UiTheory!NoSink, Ui!Direct, UiTheory!Direct,
       Ui!Init, UiTheory!Init, Ui!Busy, UiTheory!Busy, Ui!Top, UiTheory!Top, Ui!InPhase,
       UiTheory!InPhase, Ui!RunsCode, UiTheory!RunsCode, Ui!SetTop, UiTheory!SetTop,
       Ui!Push, UiTheory!Push, Ui!Post, UiTheory!Post, Ui!CancelTask, UiTheory!CancelTask,
       Ui!Before, UiTheory!Before, Ui!Sorted, UiTheory!Sorted, Ui!Take, UiTheory!Take,
       Ui!Requeue, UiTheory!Requeue, Ui!Dispatch, UiTheory!Dispatch, Ui!Enter,
       UiTheory!Enter, Ui!Return, UiTheory!Return, Ui!Emit, UiTheory!Emit, Ui!DispatchFails,
       UiTheory!DispatchFails, Ui!OpenEvents, UiTheory!OpenEvents, Ui!ReadEvent,
       UiTheory!ReadEvent, Ui!StartLoop, UiTheory!StartLoop, Ui!StopLoop, UiTheory!StopLoop,
       Ui!Tick, UiTheory!Tick, Ui!Exit, UiTheory!Exit, Ui!RunOnUIThread,
       UiTheory!RunOnUIThread, Ui!Program, UiTheory!Program, Ui!Proceed, UiTheory!Proceed,
       Ui!Next, UiTheory!Next, Ui!UiAssumption, UiTheory!UiAssumption

\* They have the same properties.
LEMMA SameOfUiTasks ==
    /\ Ui!TypeOK <=> UiTheory!TypeOK
    /\ Ui!TasksAccountedFor <=> UiTheory!TasksAccountedFor
BY DEF Ui!Runners, UiTheory!Runners, Ui!Posted, UiTheory!Posted, Ui!NoSink, UiTheory!NoSink,
       Ui!Phases, UiTheory!Phases, Ui!Activation, UiTheory!Activation, Ui!TypeOK,
       UiTheory!TypeOK, Ui!Direct, UiTheory!Direct, Ui!Ahead, UiTheory!Ahead, Ui!At,
       UiTheory!At, Ui!Batches, UiTheory!Batches, Ui!Where, UiTheory!Where,
       Ui!TasksAccountedFor, UiTheory!TasksAccountedFor

\* A behaviour of MCConcurrent is one of UiTasks.
LEMMA UiTasksBehaves == MCSpec => UiTheory!Init /\ [][UiTheory!Next]_(UiTheory!vars)
<1>1. MCInit => UiTheory!Init
  BY SameUiTasks DEF MCInit
<1>2. [MCNext]_<<part, vars, made, uiVars>> => [Ui!Next]_(Ui!vars)
  BY DEF MCNext, Chosen, uiVars, Ui!vars
<1>3. [Ui!Next]_(Ui!vars) <=> [UiTheory!Next]_(UiTheory!vars)
  BY SameUiTasks DEF Ui!vars, UiTheory!vars
<1> QED
  BY <1>1, <1>2, <1>3, PTL DEF MCSpec

\* A behaviour of MCConcurrent is one of Futures.
LEMMA FuturesBehaves == MCSpec => Spec
<1>1. MCInit => Init
  BY DEF MCInit
<1>2. [MCNext]_<<part, vars, made, uiVars>> => [Next]_vars
  BY DEF MCNext, Chosen, FuturesNext, Next
<1> QED
  BY <1>1, <1>2, PTL DEF MCSpec, Spec

\* The tasks of a user interface are accounted for, in every behaviour of MCConcurrent.
THEOREM UiTasksAccounted == MCSpec => []TasksAccountedFor
<1>1. UiTheory!UiAssumption
  BY UiAssumption, SameUiTasks
<1>2. UiTheory!Init /\ [][UiTheory!Next]_(UiTheory!vars) => [](UiTheory!TasksAccountedFor)
  BY <1>1, UiTheory!TasksAccounted
<1>3. UiTheory!TasksAccountedFor => TasksAccountedFor
  BY SameOfUiTasks DEF TasksAccountedFor
<1> QED
  BY <1>2, <1>3, UiTasksBehaves, PTL

\* Every variable of the two parts keeps its type.
THEOREM TypesKept == MCSpec => []ComponentTypes
<1>1. UiTheory!UiAssumption
  BY UiAssumption, SameUiTasks
<1>2. UiTheory!Init /\ [][UiTheory!Next]_(UiTheory!vars) => [](UiTheory!TypeOK)
  BY <1>1, UiTheory!TypeCorrect
<1>3. TypeOK /\ UiTheory!TypeOK => ComponentTypes
  BY SameOfUiTasks DEF ComponentTypes
<1> QED
  BY <1>2, <1>3, UiTasksBehaves, FuturesBehaves, TypeCorrect, PTL
=============================================================================
