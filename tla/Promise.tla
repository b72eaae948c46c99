------------------------------ MODULE Promise ------------------------------
(***************************************************************************)
(* What polyloft.concurrent promises about a future: it is settled at most *)
(* once, and whoever asks is told the one outcome it was settled with.     *)
(* Module Futures implements this with handles, goroutines and callbacks.  *)
(***************************************************************************)

CONSTANTS Futures,     \* the future handles
          Outcomes,    \* the values and the failures a future can end with
          Pending      \* stands for "no outcome yet", none of Outcomes

VARIABLES outcome,     \* outcome[f]: how f was settled, or Pending
          answers      \* the pairs <<f, o>> such that somebody was told o about f

vars == <<outcome, answers>>

Init ==
    /\ outcome = [f \in Futures |-> Pending]
    /\ answers = {}

\* Settle a future that is still pending.
Settle(f) ==
    /\ outcome[f] = Pending
    /\ \E o \in Outcomes : outcome' = [outcome EXCEPT ![f] = o]
    /\ UNCHANGED answers

\* Tell a waiter how the future ended.
Answer(f) ==
    /\ outcome[f] # Pending
    /\ answers' = answers \cup {<<f, outcome[f]>>}
    /\ UNCHANGED outcome

Next == \E f \in Futures : Settle(f) \/ Answer(f)

Spec == Init /\ [][Next]_vars
=============================================================================
