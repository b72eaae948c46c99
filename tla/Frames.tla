------------------------------- MODULE Frames -------------------------------
(***************************************************************************)
(* Calls, returns and exceptions of the VM (internal/vm/vm.go): the frame  *)
(* stack, the pool of frames, the value stack pointer, the handlers that   *)
(* try statements push, and the nested executeUntilDepth loops that the    *)
(* runtime starts to call a closure (callValue) or a method                *)
(* (invokeInstanceMethod) in the middle of an opcode.                      *)
(*                                                                         *)
(* Code is left out: the active frame may execute any opcode that the      *)
(* compiler could have emitted at a point where the expression stack has   *)
(* the depth it has and the tries that are open are open.  depth and open  *)
(* are what the compiler knows of that point, sp and handlers what the VM  *)
(* has made of it.                                                         *)
(***************************************************************************)
EXTENDS Naturals, Sequences

CONSTANTS MaxFrames,   \* bound: frames alive at a time
          MaxLevels,   \* bound: nested executeUntilDepth loops
          MaxHandlers, \* bound: handlers of a frame
          MaxDepth,    \* bound: expression stack of a frame
          StackTop     \* bound: the value stack

\* What the constants are: there is room for the first frame and its result.
FramesAssumption ==
    /\ MaxFrames \in Nat \ {0} /\ MaxLevels \in Nat \ {0} /\ StackTop \in Nat \ {0}
    /\ MaxHandlers \in Nat /\ MaxDepth \in Nat

VARIABLES frames,      \* vm.frames, the active one last
          framePool,   \* the frames released, the next one to be used again last
          made,        \* how many frames were allocated
          sp,          \* vm.sp
          levels,      \* the executeUntilDepth loops, the running one last
          status,      \* "running", "failing" while a Go error is returned, "ended"
          went, due,   \* history: in the step that raised an exception, the try whose
                       \* handler took it, and the innermost one that was open
          excused,     \* history: then, a frame had jumped out of a try
          resumed      \* history: a frame went on in a loop that had not called it

ghostVars == <<went, due, excused, resumed>>
vars == <<frames, framePool, made, sp, levels, status, ghostVars>>

Front(s) == SubSeq(s, 1, Len(s) - 1)
Last(s) == s[Len(s)]

\* How a frame was entered: OpCall on a Polyloft function; a builtin calling a closure
\* back (callValue); an operator or iteration opcode calling a special method, or a
\* builtin doing so (invokeInstanceMethod).
Vias == {"call", "closure", "operator", "protocol"}
Tries == 1..(2 * MaxHandlers + 1)

\* The place of a try: the frame it is in and its number there.
Nowhere == <<0, 0>>

Handlers == [try : Tries, depth : 0..StackTop, outer : Seq(Tries)]
FrameRecords ==
    [id : 1..MaxFrames, base : 0..StackTop, handlers : Seq(Handlers),
     via : Vias, level : 1..MaxLevels, depth : 0..MaxDepth, open : Seq(Tries), jumped : BOOLEAN]
Levels == [base : 0..MaxFrames, via : Vias, sp : 0..StackTop]

TypeOK ==
    /\ frames \in Seq(FrameRecords)
    /\ framePool \in Seq(1..MaxFrames)
    /\ made \in 1..MaxFrames
    /\ sp \in 0..StackTop
    /\ levels \in Seq(Levels)
    /\ status \in {"running", "failing", "ended"}
    /\ went \in (1..MaxFrames) \X Tries \cup {Nowhere}
    /\ due \in (1..MaxFrames) \X Tries \cup {Nowhere}
    /\ excused \in BOOLEAN
    /\ resumed \in BOOLEAN

\* The frame that acquireFrame returns when the value stack ends at base.
NewFrame(id, base, via, level) ==
    [id |-> id, base |-> base, handlers |-> <<>>,
     via |-> via, level |-> level, depth |-> 0, open |-> <<>>, jumped |-> FALSE]

\* Run
Init ==
    /\ frames = <<NewFrame(1, 0, "call", 1)>>
    /\ framePool = <<>>
    /\ made = 1
    /\ sp = 0
    /\ levels = <<[base |-> 0, via |-> "call", sp |-> 0]>>
    /\ status = "running"
    /\ went = Nowhere
    /\ due = Nowhere
    /\ excused = FALSE
    /\ resumed = FALSE

Active == Last(frames)
SetActive(f) == frames' = Append(Front(frames), f)
Running == status = "running"

\* Nothing is raised in this step.
Quiet ==
    /\ went' = Nowhere
    /\ due' = Nowhere
    /\ excused' = FALSE
    /\ UNCHANGED resumed

\* A number for the try that is entered, other than those the active frame still knows.
Known ==
    {Active.open[j] : j \in DOMAIN Active.open} \cup
    {Active.handlers[j].try : j \in DOMAIN Active.handlers}
FreshTry == CHOOSE t \in Tries : t \notin Known

-----------------------------------------------------------------------------
(* Straight code *)

Push ==
    /\ Running
    /\ Active.depth < MaxDepth
    /\ sp < StackTop
    /\ sp' = sp + 1
    /\ SetActive([Active EXCEPT !.depth = @ + 1])
    /\ UNCHANGED <<framePool, made, levels, status>> /\ Quiet

Pop ==
    /\ Running
    /\ Active.depth > 0
    /\ sp' = sp - 1
    /\ SetActive([Active EXCEPT !.depth = @ - 1])
    /\ UNCHANGED <<framePool, made, levels, status>> /\ Quiet

\* OpPushHandler: try is a statement, so no expression is pending.
EnterTry ==
    /\ Running
    /\ Active.depth = 0
    /\ sp < StackTop
    /\ Len(Active.handlers) < MaxHandlers
    /\ SetActive([Active EXCEPT
          !.handlers = Append(@, [try |-> FreshTry, depth |-> sp, outer |-> Active.open]),
          !.open = Append(@, FreshTry)])
    /\ UNCHANGED <<framePool, made, sp, levels, status>> /\ Quiet

\* OpPopHandler, at the end of the body.
ExitTry ==
    /\ Running
    /\ Active.depth = 0
    /\ Active.open # <<>>
    /\ SetActive([Active EXCEPT
          !.handlers = IF @ # <<>> THEN Front(@) ELSE @,
          !.open = Front(@)])
    /\ UNCHANGED <<framePool, made, sp, levels, status>> /\ Quiet

\* break or continue out of the body of one or more tries: a bare jump.
Jump ==
    /\ Running
    /\ Active.depth = 0
    /\ \E n \in 0..(Len(Active.open) - 1) :
          SetActive([Active EXCEPT !.open = SubSeq(@, 1, n), !.jumped = TRUE])
    /\ UNCHANGED <<framePool, made, sp, levels, status>> /\ Quiet

-----------------------------------------------------------------------------
(* Calls and returns *)

\* acquireFrame: the frame released last, or a new one.
Acquire(base, via, level) ==
    /\ Len(frames) < MaxFrames
    /\ base < StackTop
    /\ IF framePool # <<>>
       THEN /\ framePool' = Front(framePool)
            /\ UNCHANGED made
       ELSE /\ made < MaxFrames
            /\ made' = made + 1
            /\ UNCHANGED framePool
    /\ LET id == IF framePool # <<>> THEN Last(framePool) ELSE made + 1
       IN  frames' = Front(frames) \o <<[Active EXCEPT !.depth = @ - 1],
                                        NewFrame(id, base, via, level)>>

\* The callee is taken off the stack before its frame is made.
Call ==
    /\ Running
    /\ Active.depth > 0
    /\ Acquire(sp - 1, "call", Len(levels))
    /\ sp' = sp - 1
    /\ UNCHANGED <<levels, status>> /\ Quiet

\* A loop inside an opcode: the operands of an operator, the callee and the arguments of
\* a builtin, are off the stack by then.
CallBack ==
    /\ Running
    /\ Active.depth > 0
    /\ Len(levels) < MaxLevels
    /\ sp' = sp - 1
    /\ \E via \in Vias \ {"call"} :
          /\ Acquire(sp - 1, via, Len(levels) + 1)
          /\ levels' = Append(levels, [base |-> Len(frames), via |-> via, sp |-> sp - 1])
    /\ UNCHANGED status
    /\ Quiet

\* Mutant: the result is pushed on what the callee left.
AfterReturnKept == sp

\* The stack is cut back to where the frame began and the result is pushed, by OpReturn
\* or, when the loop ends with it, by the opcode that started the loop.
AfterReturn == Active.base + 1

\* OpReturn, and the rest of the opcode that started a loop when that loop ends.
Return ==
    LET rest == Front(frames)
        ends == Len(rest) = Last(levels).base
    IN  /\ Running
        /\ Active.depth > 0
        /\ framePool' = Append(framePool, Active.id)
        /\ IF rest = <<>>
           THEN frames' = rest /\ sp' = 0 /\ status' = "ended"
           ELSE /\ frames' = Append(Front(rest), [Last(rest) EXCEPT !.depth = @ + 1])
                /\ sp' = AfterReturn
                /\ UNCHANGED status
        /\ levels' = IF ends /\ rest # <<>> THEN Front(levels) ELSE levels
        /\ UNCHANGED made
        /\ Quiet

-----------------------------------------------------------------------------
(* Exceptions *)

Greatest(S) == CHOOSE i \in S : \A j \in S : j <= i

\* The identities of the frames of fs above the n-th, as they are released.
Released(fs, n) == [k \in 1..(Len(fs) - n) |-> fs[Len(fs) + 1 - k].id]

\* Mutant: the search starts at the bottom of the loop.
CatcherFirst(fs, base) ==
    LET able == {i \in (base + 1)..Len(fs) : fs[i].handlers # <<>>}
    IN  IF able = {} THEN 0 ELSE CHOOSE i \in able : \A j \in able : i <= j

\* The frame whose handler handleRaised finds, or 0.
Catcher(fs, base) ==
    LET able == {i \in (base + 1)..Len(fs) : fs[i].handlers # <<>>}
    IN  IF able = {} THEN 0 ELSE Greatest(able)

\* The stack pointer a handler restores, before the exception is pushed.
DepthRestored(h, top) == IF h.depth < top THEN h.depth ELSE top

\* handleRaised in a loop that starts above base, with the frames fs, of which pool are
\* released already, and the stack ending at top: the handler found is used up, the
\* frames above its own are released and the exception is pushed.
Raise(fs, base, pool, top, level) ==
    LET c == Catcher(fs, base)
        trying == {i \in (base + 1)..Len(fs) : fs[i].open # <<>>}
    IN  /\ due' = IF trying = {} THEN Nowhere
                  ELSE <<Greatest(trying), Last(fs[Greatest(trying)].open)>>
        /\ excused' = \E i \in (base + 1)..Len(fs) : fs[i].jumped
        /\ IF c = 0
           THEN /\ frames' = fs
                /\ framePool' = pool
                /\ sp' = top
                /\ status' = "failing"
                /\ went' = Nowhere
                /\ UNCHANGED resumed
           ELSE LET h == Last(fs[c].handlers) IN
                /\ frames' = Append(SubSeq(fs, 1, c - 1),
                                    [fs[c] EXCEPT !.handlers = Front(@), !.open = h.outer,
                                                  !.depth = 1])
                /\ framePool' = pool \o Released(fs, c)
                /\ sp' = DepthRestored(h, top) + 1
                /\ status' = "running"
                /\ went' = <<c, h.try>>
                /\ resumed' = (resumed \/ fs[c].level > level)

\* OpThrow, which takes the exception off the stack, or a call that fails.
Throw ==
    /\ Running
    /\ Active.depth > 0
    /\ \E top \in {sp - 1, sp} :
          Raise(frames, Last(levels).base, framePool, top, Len(levels))
    /\ UNCHANGED <<made, levels>>

\* The many opcodes that return their error from executeUntilDepth without looking for a
\* handler.
Fail ==
    /\ Running
    /\ status' = "failing"
    /\ UNCHANGED <<frames, framePool, made, sp, levels>> /\ Quiet

\* Mutant: frames are put in the pool and stay on the frame stack.
CleanUpTwice(l) ==
    IF l.via = "closure"
    THEN [frames |-> frames, pool |-> framePool \o Released(frames, l.base), sp |-> l.sp]
    ELSE [frames |-> frames, pool |-> framePool, sp |-> sp]

\* What is left when a loop has failed: callValue releases its frames and restores the
\* stack, invokeInstanceMethod does neither.
CleanUp(l) ==
    IF l.via = "closure"
    THEN [frames |-> SubSeq(frames, 1, l.base), pool |-> framePool \o Released(frames, l.base),
          sp |-> l.sp]
    ELSE [frames |-> frames, pool |-> framePool, sp |-> sp]

\* The error reaches the opcode that started the loop: an operator returns it as it is,
\* a call raises it again.  From the first loop it leaves Run.
Unwind ==
    LET l == Last(levels)
        left == CleanUp(l)
    IN  /\ status = "failing"
        /\ IF Len(levels) = 1
           THEN /\ status' = "ended"
                /\ UNCHANGED <<frames, framePool, sp, levels>> /\ Quiet
           ELSE /\ levels' = Front(levels)
                /\ IF l.via = "operator"
                   THEN UNCHANGED <<frames, framePool, sp, status>> /\ Quiet
                   ELSE Raise(left.frames, Last(Front(levels)).base, left.pool, left.sp,
                              Len(levels) - 1)
        /\ UNCHANGED made

-----------------------------------------------------------------------------

Next ==
    \/ Push \/ Pop \/ EnterTry \/ ExitTry \/ Jump
    \/ Call \/ CallBack \/ Return
    \/ Throw \/ Fail \/ Unwind

Spec == Init /\ [][Next]_vars

-----------------------------------------------------------------------------
(* Properties *)

\* Without a jump out of a try, the handlers of a frame are those of the tries it is in, in
\* order, and each will restore the stack of a point where no expression is pending.
HandlersMirrorTries ==
    \A i \in DOMAIN frames :
        LET f == frames[i] IN
        /\ ~f.jumped => [j \in DOMAIN f.handlers |-> f.handlers[j].try] = f.open
        /\ ~resumed => \A j \in DOMAIN f.handlers : f.handlers[j].depth = f.base

\* An exception that is raised goes to the innermost try that is open in the running
\* loop, whichever frame it is in, and leaves the loop if there is none; unless one of
\* the frames has jumped out of a try with break or continue.  For that, handlers and
\* tries stay in step.
CatchIsInnermost == (went # due => excused) /\ HandlersMirrorTries

\* Whatever was thrown across whatever loops, the active frame has on the stack exactly
\* the operands its code expects, on top of what its callers have there; at least those
\* even after a frame was resumed in a loop that had not called it.
StackBalanced ==
    status = "running" =>
        /\ sp >= Active.base + Active.depth
        /\ ~resumed => sp = Active.base + Active.depth
        /\ \A i \in 1..(Len(frames) - 1) :
              frames[i].base + frames[i].depth <= frames[i + 1].base

\* A frame is in one place only, in use or in the pool, and none is lost.
OnePlaceEach ==
    /\ \A i, j \in DOMAIN frames : frames[i].id = frames[j].id => i = j
    /\ \A i, j \in DOMAIN framePool : framePool[i] = framePool[j] => i = j
    /\ \A i \in DOMAIN frames, j \in DOMAIN framePool : frames[i].id # framePool[j]
    /\ Len(frames) + Len(framePool) = made

\* While code runs, the running loop has a frame, and a callback that callValue started is
\* gone once its loop has failed, also when an exception from a later opcode is caught: a
\* frame is above the loops that are left only if an operator or a protocol method put it
\* there, and only after one of those was resumed.
LeftoversReleased ==
    status = "running" =>
        /\ Len(frames) > Last(levels).base
        /\ \A i \in DOMAIN frames :
              frames[i].level > Len(levels) =>
                  /\ resumed
                  /\ frames[i].via # "closure"

\* Every frame is accounted for: none is lost or in two places, and none stays behind in
\* use after the loop it belonged to.
FramesAccountedFor == OnePlaceEach /\ LeftoversReleased

\* An exception raised where no try is open is not caught (docs/language/control-flow.md:
\* if no catch matches, the VM reports a diagnostic).
UncaughtIsReported == due = Nowhere => went = Nowhere
=============================================================================
