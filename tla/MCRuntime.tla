----------------------------- MODULE MCRuntime ------------------------------
(***************************************************************************)
(* Five parts of the runtime that share no state, each on its own small    *)
(* instance.  A behaviour is one of the part chosen at the beginning: the  *)
(* other four stay where they began.                                       *)
(*                                                                         *)
(* LocalCells: two slots, a variable and its neighbour, one of which may   *)
(* be captured while the other is not; three values tell an old one, a new *)
(* one and a sum of both apart.  InstancePool: two instances and two slots *)
(* give every alias inside a frame, a second frame every alias across a    *)
(* call, a pool of two one instance that is in it twice.  Frames: three of *)
(* them, a caller, a callee and one between them in which the exception    *)
(* may be caught, or a loop inside a loop; two handlers of a frame give a  *)
(* nesting of tries, two operands one that stays pending while the other   *)
(* is called.  Channels: three callers in any roles, who send two messages *)
(* each.                                                                   *)
(* Isolation: the main VM and two tasks, and the fewest objects that let   *)
(* each of them hold one while another is on its way.                      *)
(***************************************************************************)
EXTENDS LocalCells, Integers, Sequences

CONSTANTS Objects, Nothing, MaxPool, MaxCalls, MaxStack,    \* of InstancePool
          MaxFrames, MaxLevels, MaxHandlers, MaxDepth, StackTop,       \* of Frames
          Callers, Requested, MaxSends,                     \* of Channels
          Main, Tasks, MaxObjects                           \* of Isolation

VARIABLES part,    \* "locals", "pool", "frames", "channels" or "isolation"
          called, stack, heap, pool, frozen, allocated, escaped, reassigned,
          frames, framePool, made, sp, levels, status, went, due, excused, resumed,
          capacity, closed, buffer, senders, receivers, pc, item, crashed,
          sent, received, returned, sawNil, raced,
          holds, globals, static, phase, closure, result, error, message, published

\* A capacity that is replaced by 0, one that fills at once, one that holds an order.
MCRequested == {-1, 1, 2}

Pool == INSTANCE InstancePool WITH frames <- called, made <- allocated, MaxDepth <- MaxCalls
Frame == INSTANCE Frames
Channel == INSTANCE Channels
Isolated == INSTANCE Isolation

ASSUME PoolAssumption == Pool!PoolAssumption
ASSUME FramesAssumption == Frame!FramesAssumption
ASSUME BoundsAssumption == Channel!BoundsAssumption
ASSUME IsolationAssumption == Isolated!IsolationAssumption

poolVars == <<called, stack, heap, pool, frozen, allocated, escaped, reassigned>>
frameVars ==
    <<frames, framePool, made, sp, levels, status, went, due, excused, resumed>>
channelVars ==
    <<capacity, closed, buffer, senders, receivers, pc, item, crashed,
      sent, received, returned, sawNil, raced>>
isolationVars ==
    <<holds, globals, static, phase, closure, result, error, message, published>>

MCInit ==
    /\ part \in {"locals", "pool", "frames", "channels", "isolation"}
    /\ Init /\ Pool!Init /\ Frame!Init /\ Channel!Init /\ Isolated!Init
    /\ part # "locals" => kind = [s \in Slots |-> "int"]
    /\ part # "channels" => capacity = 0

Chosen(p) == part = p /\ UNCHANGED part

MCNext ==
    \/ /\ Chosen("locals") /\ Next
       /\ UNCHANGED <<poolVars, frameVars, channelVars, isolationVars>>
    \/ /\ Chosen("pool") /\ Pool!Next
       /\ UNCHANGED <<vars, frameVars, channelVars, isolationVars>>
    \/ /\ Chosen("frames") /\ Frame!Next
       /\ UNCHANGED <<vars, poolVars, channelVars, isolationVars>>
    \/ /\ Chosen("channels") /\ Channel!Next
       /\ UNCHANGED <<vars, poolVars, frameVars, isolationVars>>
    \/ /\ Chosen("isolation") /\ Isolated!Next
       /\ UNCHANGED <<vars, poolVars, frameVars, channelVars>>

MCSpec ==
    MCInit /\ [][MCNext]_<<part, vars, poolVars, frameVars, channelVars, isolationVars>>

\* Every variable has its type.
ComponentTypes ==
    /\ TypeOK
    /\ part = "pool" => Pool!TypeOK
    /\ part = "frames" => Frame!TypeOK
    /\ part = "channels" => Channel!TypeOK
    /\ part = "isolation" => Isolated!TypeOK

\* Local instances go to the pool once, and only when the program has lost them.
LocalInstancesRecycledSafely == part = "pool" => Pool!LocalInstancesRecycledSafely
\* Recycling does not thaw an instance the program still holds.
FrozenStaysFrozen == Pool!FrozenStaysFrozen

\* An exception goes to the innermost open try of the running loop.
CatchIsInnermost == part = "frames" => Frame!CatchIsInnermost
\* The active frame has on the stack exactly the operands its code expects.
StackBalanced == part = "frames" => Frame!StackBalanced
\* No frame is lost, in two places, or left in use by a loop that is gone.
FramesAccountedFor == part = "frames" => Frame!FramesAccountedFor

\* A channel is a bounded queue (Fifo).
ImplementsFifo == Channel!ImplementsFifo
\* Nothing that was sent is dropped, and nil means that nothing is left.
NothingLost == part = "channels" => Channel!NothingLost
\* No caller is parked on a channel that could serve it.
NobodyStranded == part = "channels" => Channel!NobodyStranded

\* No object is within reach of two goroutines.
NothingShared == part = "isolation" => Isolated!NothingShared
=============================================================================
