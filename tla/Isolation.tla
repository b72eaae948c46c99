----------------------------- MODULE Isolation -----------------------------
(***************************************************************************)
(* What keeps goroutines apart: CallClosureIsolated (internal/vm/vm.go)    *)
(* runs a task in a VM of its own, on copies of the main VM's globals, of  *)
(* the closure and of its arguments, and handles and channels copy what    *)
(* they take in and give out (internal/runtime/concurrent_module.go with   *)
(* internal/value/deepcopy.go).                                            *)
(*                                                                         *)
(* An object here is a whole graph of them: DeepCopy copies one by itself, *)
(* in one step, and its copies share nothing with it.  Classes and native  *)
(* handles are not copied: every VM sees the same.  An object that nobody  *)
(* holds any more is collected and its name used again.                    *)
(***************************************************************************)
EXTENDS Naturals, FiniteSets, FiniteSetsExt

CONSTANTS Main,          \* the VM of the program, GlobalVMProxy
          Tasks,         \* futures and threads, and the VM that each one's task runs in
          MaxObjects     \* how many objects exist at a time

\* What the constants are.
IsolationAssumption == Main \notin Tasks /\ MaxObjects \in Nat

VARIABLES holds,         \* what the code of each VM can reach
          globals,       \* what the global variables of the main VM reach
          static,        \* what a static field of a class reaches
          phase,         \* where each task is
          closure,       \* what the handle keeps to call later
          result, error, \* the fields of futureHandle
          message,       \* what is in the buffer of a channel
          published      \* history: objects that were in a static field, or thrown out of a VM

vars == <<holds, globals, static, phase, closure, result, error, message, published>>

VMs == {Main} \cup Tasks
Ids == 1..MaxObjects
AtMostOne == {{}} \cup {{o} : o \in Ids}

TypeOK ==
    /\ holds \in [VMs -> SUBSET Ids]
    /\ globals \subseteq holds[Main]
    /\ static \in AtMostOne /\ message \in AtMostOne
    /\ phase \in [Tasks -> {"unused", "made", "running", "done"}]
    /\ {closure, result, error} \subseteq [Tasks -> AtMostOne]
    /\ published \subseteq Ids

Init ==
    /\ holds = [v \in VMs |-> {}] /\ globals = {}
    /\ static = {} /\ message = {}
    /\ phase = [t \in Tasks |-> "unused"]
    /\ closure = [t \in Tasks |-> {}]
    /\ result = [t \in Tasks |-> {}] /\ error = [t \in Tasks |-> {}]
    /\ published = {}

\* Everything that can be reached from anywhere; globals are held by the main VM.
Live == UNION ({holds[v] : v \in VMs} \cup {static, message}
               \cup UNION {{closure[t], result[t], error[t]} : t \in Tasks})

Free == Ids \ Live
\* A new object, or a copy that shares nothing with what it was made from.
DeepCopy == {Min(Free)}

Running(v) == v # Main => phase[v] = "running"
Gets(v, objects) == holds' = [holds EXCEPT ![v] = @ \cup objects]

handles == <<phase, closure, result, error>>
shared == <<globals, static, message>>

-----------------------------------------------------------------------------
\* The code of a VM makes objects, forgets them, and keeps them in variables.
Make(v) ==
    /\ Running(v) /\ Free # {}
    /\ Gets(v, DeepCopy)
    /\ published' = published \ DeepCopy
    /\ UNCHANGED <<shared, handles>>

Forget(v, o) ==
    /\ Running(v) /\ o \in holds[v]
    /\ holds' = [holds EXCEPT ![v] = @ \ {o}]
    /\ globals' = IF v = Main THEN globals \ {o} ELSE globals
    /\ UNCHANGED <<static, message, handles, published>>

SetGlobal(o) ==
    /\ o \in holds[Main] /\ globals' = globals \cup {o}
    /\ UNCHANGED <<holds, static, message, handles, published>>

\* A class is one object for all VMs, with its static fields.
SetStatic(v, o) ==
    /\ Running(v) /\ o \in holds[v]
    /\ static' = {o} /\ published' = published \cup {o}
    /\ UNCHANGED <<holds, globals, message, handles>>

GetStatic(v) ==
    /\ Running(v) /\ Gets(v, static)
    /\ UNCHANGED <<shared, handles, published>>

\* thread_new, future_run_async and the continuations copy the closure they are given.
Begin(v, t, o) ==
    /\ Running(v) /\ o \in holds[v] /\ phase[t] = "unused" /\ Free # {}
    /\ closure' = [closure EXCEPT ![t] = DeepCopy]
    /\ phase' = [phase EXCEPT ![t] = "made"]
    /\ published' = published \ DeepCopy
    /\ UNCHANGED <<holds, shared, result, error>>

\* CallClosureIsolated copies the globals one at a time, of the main VM whoever made
\* the task, while that VM goes on ...
CopyGlobal(t, o) ==
    /\ phase[t] = "made" /\ o \in globals /\ Free # {}
    /\ Gets(t, DeepCopy)
    /\ published' = published \ DeepCopy
    /\ UNCHANGED <<shared, handles>>

\* ... and then the closure, which a threadHandle keeps.
Enter(t) ==
    /\ phase[t] = "made" /\ Free # {}
    /\ Gets(t, DeepCopy)
    /\ phase' = [phase EXCEPT ![t] = "running"]
    /\ published' = published \ DeepCopy
    /\ UNCHANGED <<shared, closure, result, error>>

\* future.complete copies the result; the VM is gone.
Return(t, o) ==
    /\ phase[t] = "running" /\ o \in holds[t] /\ Free # {}
    /\ result' = [result EXCEPT ![t] = DeepCopy]
    /\ holds' = [holds EXCEPT ![t] = {}]
    /\ phase' = [phase EXCEPT ![t] = "done"]
    /\ published' = published \ DeepCopy
    /\ UNCHANGED <<shared, closure, error>>

\* future.fail keeps the error, with the object that was thrown, as it is.
Throw(t, o) ==
    /\ phase[t] = "running" /\ o \in holds[t]
    /\ error' = [error EXCEPT ![t] = {o}]
    /\ holds' = [holds EXCEPT ![t] = {}]
    /\ phase' = [phase EXCEPT ![t] = "done"]
    /\ published' = published \cup {o}
    /\ UNCHANGED <<shared, closure, result>>

\* future_complete: a future of no task, which any VM may resolve.
Complete(v, t, o) ==
    /\ Running(v) /\ o \in holds[v] /\ phase[t] = "unused" /\ Free # {}
    /\ result' = [result EXCEPT ![t] = DeepCopy]
    /\ phase' = [phase EXCEPT ![t] = "done"]
    /\ published' = published \ DeepCopy
    /\ UNCHANGED <<holds, shared, closure, error>>

\* Mutant: await returns the result itself, as it does the error.
AwaitItself(v, t) ==
    /\ Running(v) /\ phase[t] = "done"
    /\ Gets(v, result[t] \cup error[t])
    /\ UNCHANGED <<shared, handles, published>>

\* await returns a copy of the result, or the error itself, for the VM to catch.
Await(v, t) ==
    /\ Running(v) /\ phase[t] = "done"
    /\ \/ /\ result[t] # {} /\ Free # {}
          /\ Gets(v, DeepCopy) /\ published' = published \ DeepCopy
       \/ error[t] # {} /\ Gets(v, error[t]) /\ UNCHANGED published
    /\ UNCHANGED <<shared, handles>>

\* channelHandle.send and receive copy once each.
Send(v, o) ==
    /\ Running(v) /\ o \in holds[v] /\ message = {} /\ Free # {}
    /\ message' = DeepCopy /\ published' = published \ DeepCopy
    /\ UNCHANGED <<holds, globals, static, handles>>

Receive(v) ==
    /\ Running(v) /\ message # {} /\ Free # {}
    /\ Gets(v, DeepCopy) /\ message' = {}
    /\ published' = published \ DeepCopy
    /\ UNCHANGED <<globals, static, handles>>

Next ==
    \/ \E v \in VMs :
        \/ Make(v) \/ GetStatic(v) \/ Receive(v)
        \/ \E o \in Ids :
            \/ Forget(v, o) \/ SetStatic(v, o) \/ Send(v, o)
            \/ \E t \in Tasks : Begin(v, t, o) \/ Complete(v, t, o)
        \/ \E t \in Tasks : Await(v, t)
    \/ \E o \in Ids : SetGlobal(o)
    \/ \E t \in Tasks :
        \/ Enter(t)
        \/ \E o \in Ids : CopyGlobal(t, o) \/ Return(t, o) \/ Throw(t, o)

Spec == Init /\ [][Next]_vars

-----------------------------------------------------------------------------
\* How many have the object who may read or write it each at his own pace.
Holders(o) ==
    Cardinality({v \in VMs : o \in holds[v]}) + Cardinality(message \cap {o})
        + Cardinality({t \in Tasks : o \in closure[t]})
        + Cardinality({t \in Tasks : o \in result[t]})

\* No object is within reach of two goroutines, nor of one and of a handle that will
\* copy it for another: what one of them writes the other never sees half written.
\* The exceptions are what a class keeps in its static fields and what is thrown out
\* of a task: these reach every VM as they are.
NothingShared == \A o \in Ids \ published : Holders(o) <= 1
=============================================================================
