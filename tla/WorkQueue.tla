------------------------------ MODULE WorkQueue ------------------------------
(***************************************************************************)
(* What gooey.Dispatcher promises, with no queue, lock or wake channel in  *)
(* sight: jobs are posted in some order, and one UI goroutine runs each of *)
(* them exactly once, in that order, and eventually.                       *)
(***************************************************************************)
EXTENDS Sequences, Naturals

CONSTANT Jobs

VARIABLES posted,   \* every job ever posted, in posting order
          ran       \* every job the UI goroutine has begun, in that order

vars == <<posted, ran>>

Init == posted = <<>> /\ ran = <<>>

Post == /\ \E j \in Jobs : posted' = Append(posted, j)
        /\ ran' = ran

Run == /\ Len(ran) < Len(posted)
       /\ ran' = Append(ran, posted[Len(ran) + 1])
       /\ posted' = posted

Next == Post \/ Run

Spec == Init /\ [][Next]_vars /\ WF_vars(Run)
=============================================================================
