---------------------------- MODULE MCConcurrent ----------------------------
(***************************************************************************)
(* Two parts of the concurrent runtime that share no state, each on its    *)
(* own small instance.  A behaviour is one of the part chosen at the       *)
(* beginning: the other stays where it began.                              *)
(*                                                                         *)
(* Futures: three handles give a chain of two continuations, or two        *)
(* continuations of one future, and two callers every race of two calls;   *)
(* the program makes MaxCalls calls and then only watches what it has set  *)
(* in motion.  UiTasks: a thread and either one loop and three tasks, the  *)
(* second of which goes first, or two loops, one stopped while its tick    *)
(* goes on and the other started after it, and two tasks.                  *)
(***************************************************************************)
EXTENDS Futures, Integers, FiniteSets

CONSTANTS MaxCalls,
          Threads, Loops, Nobody, Slice, Room, MaxPosts, Priority,      \* of UiTasks
          MaxBegun       \* how many tasks are posted and loops started in one behaviour
ASSUME MaxCallsAssumption == MaxCalls \in Nat

VARIABLES part,     \* "futures" or "ui"
          made,     \* how many calls the program has made
          queue, posted, loopRunning, current, loop, stopped, activations, owner, unread,
          runs, withdrawn

\* The second task goes first.
MCPriority == <<0, 1, 0>>

Ui == INSTANCE UiTasks

ASSUME UiAssumption == Ui!UiAssumption

uiVars == <<queue, posted, loopRunning, current, loop, stopped, activations, owner, unread,
            runs, withdrawn>>

MCInit ==
    /\ part \in {"futures", "ui"}
    /\ Init /\ made = 0 /\ Ui!Init
    /\ part # "futures" => proxy

\* Idle callers are interchangeable: the next call is always made by the same one.
Caller == CHOOSE c \in Callers : waiting[c] = Idle

FuturesNext ==
    \/ /\ made < MaxCalls
       /\ made' = made + 1
       /\ \E c \in Callers : waiting[c] = Idle
       /\ \E c \in Callers : c = Caller /\ Call(c)
    \/ /\ UNCHANGED made
       /\ \/ \E c \in Callers : Resume(c)
          \/ \E f \in Futures : Goroutine(f)

Chosen(p) == part = p /\ UNCHANGED part

MCNext ==
    \/ Chosen("futures") /\ FuturesNext /\ UNCHANGED uiVars
    \/ /\ Chosen("ui") /\ Ui!Next /\ UNCHANGED <<vars, made>>
       /\ posted' + Cardinality({l \in Loops : loop'[l] # "unused"}) <= MaxBegun

MCSpec ==
    /\ MCInit /\ [][MCNext]_<<part, vars, made, uiVars>>
    /\ Fairness /\ Ui!Fairness

\* Every variable has its type.
ComponentTypes == TypeOK /\ Ui!TypeOK

\* A task of the UI is in one place, and is called at most once.
TasksAccountedFor == part = "ui" => Ui!TasksAccountedFor
\* Every task of the UI gets its turn.
TurnComes == Ui!TurnComes
=============================================================================
