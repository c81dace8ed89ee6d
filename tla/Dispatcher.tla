------------------------------ MODULE Dispatcher ------------------------------
(***************************************************************************)
(* gooey.Dispatcher (dispatch.go): a mutex-protected queue of closures and *)
(* a wake channel of capacity one.  Post appends under the lock and, after *)
(* releasing it, offers a wake token without blocking; the UI goroutine    *)
(* receives a token and Drains: it takes the whole queue under the lock    *)
(* and runs the closures with the lock released, so a closure may Post.    *)
(*                                                                         *)
(* The lock's two critical sections touch only the queue, so each is one   *)
(* step here.  The gap between Post's append and its send is a step        *)
(* boundary: another goroutine, or the drain, may run in it.               *)
(***************************************************************************)
EXTENDS Sequences, Naturals

CONSTANTS Goroutines,   \* the goroutines that Post, the UI goroutine apart
          UI,           \* the UI goroutine
          MaxPosts      \* bound: Posts each goroutine makes

ASSUME UIAssumption == UI \notin Goroutines
ASSUME MaxPostsAssumption == MaxPosts \in Nat

Posters == Goroutines \cup {UI}

\* A closure is named by who posted it and how many that goroutine had posted.
Jobs == Posters \X (0..MaxPosts)

VARIABLES queue,    \* Dispatcher.queue
          wake,     \* whether Dispatcher.wake holds its one token
          pc,       \* pc[g] = "send": g is in Post, past the unlock
          count,    \* count[g]: Posts g has made
          ui,       \* where the UI goroutine is
          work,     \* what is left of Drain's local slice
          posted,   \* history: every closure appended to the queue
          ran       \* history: every closure called by Drain

vars == <<queue, wake, pc, count, ui, work, posted, ran>>

Init == /\ queue = <<>>
        /\ wake = FALSE
        /\ pc = [g \in Posters |-> "out"]
        /\ count = [g \in Posters |-> 0]
        /\ ui = "select"
        /\ work = <<>>
        /\ posted = <<>>
        /\ ran = <<>>

-----------------------------------------------------------------------------
(* Post, by any goroutine.  The UI goroutine posts from a closure Drain is *)
(* calling or from an event handler.                                       *)

MayPost(g) == /\ pc[g] = "out"
              /\ count[g] < MaxPosts
              /\ g = UI => ui \in {"closure", "handler"}

Enqueue(g) == /\ MayPost(g)
              /\ queue' = Append(queue, <<g, count[g]>>)
              /\ posted' = Append(posted, <<g, count[g]>>)
              /\ count' = [count EXCEPT ![g] = @ + 1]
              /\ pc' = [pc EXCEPT ![g] = "send"]
              /\ UNCHANGED <<wake, ui, work, ran>>

\* Mutant: signal only when the queue has just become non-empty.
OfferWakeIfFirst(g) == /\ pc[g] = "send"
                       /\ wake' = (wake \/ Len(queue) = 1)
                       /\ pc' = [pc EXCEPT ![g] = "out"]
                       /\ UNCHANGED <<queue, count, ui, work, posted, ran>>

\* Mutant: signal only when no Drain is in progress.
OfferWakeIfIdle(g) == /\ pc[g] = "send"
                      /\ wake' = (wake \/ ui = "select")
                      /\ pc' = [pc EXCEPT ![g] = "out"]
                      /\ UNCHANGED <<queue, count, ui, work, posted, ran>>

\* The select with a default: an occupied channel drops the second token.
OfferWake(g) == /\ pc[g] = "send"
                /\ wake' = TRUE
                /\ pc' = [pc EXCEPT ![g] = "out"]
                /\ UNCHANGED <<queue, count, ui, work, posted, ran>>

-----------------------------------------------------------------------------
(* The UI goroutine: the run loop's select, and Drain.                     *)

ReceiveWake == /\ ui = "select"
               /\ wake
               /\ wake' = FALSE
               /\ ui' = "drain"
               /\ UNCHANGED <<queue, pc, count, work, posted, ran>>

Take == /\ ui = "drain"
        /\ work' = queue
        /\ queue' = <<>>
        /\ ui' = "range"
        /\ UNCHANGED <<wake, pc, count, posted, ran>>

Call == /\ ui = "range"
        /\ work # <<>>
        /\ ran' = Append(ran, Head(work))
        /\ work' = Tail(work)
        /\ ui' = "closure"
        /\ UNCHANGED <<queue, wake, pc, count, posted>>

ClosureReturns == /\ ui = "closure"
                  /\ pc[UI] = "out"
                  /\ ui' = "range"
                  /\ UNCHANGED <<queue, wake, pc, count, work, posted, ran>>

DrainReturns == /\ ui = "range"
                /\ work = <<>>
                /\ ui' = "select"
                /\ UNCHANGED <<queue, wake, pc, count, work, posted, ran>>

\* Any other case of the run loop's select: an input event and its handler.
HandleEvent == /\ ui = "select"
               /\ ui' = "handler"
               /\ UNCHANGED <<queue, wake, pc, count, work, posted, ran>>

HandlerReturns == /\ ui = "handler"
                  /\ pc[UI] = "out"
                  /\ ui' = "select"
                  /\ UNCHANGED <<queue, wake, pc, count, work, posted, ran>>

Drain == Take \/ Call \/ ClosureReturns \/ DrainReturns

Next == \/ \E g \in Posters : Enqueue(g) \/ OfferWake(g)
        \/ ReceiveWake
        \/ Drain
        \/ HandleEvent
        \/ HandlerReturns

(***************************************************************************)
(* A goroutine inside Post leaves it, closures and handlers return, and    *)
(* Go's select picks uniformly among its ready cases, so a wake that keeps *)
(* being ready is eventually received however many events compete with it. *)
(***************************************************************************)
Fairness == /\ \A g \in Posters : WF_vars(OfferWake(g))
            /\ SF_vars(ReceiveWake)
            /\ WF_vars(Drain)
            /\ WF_vars(HandlerReturns)

Spec == Init /\ [][Next]_vars /\ Fairness

-----------------------------------------------------------------------------

\* The variables hold values of their types, and Drain's slice is empty
\* wherever Drain is not in progress.
TypeOK == /\ queue \in Seq(Jobs)
          /\ wake \in BOOLEAN
          /\ pc \in [Posters -> {"out", "send"}]
          /\ count \in [Posters -> 0..MaxPosts]
          /\ ui \in {"select", "handler", "drain", "range", "closure"}
          /\ work \in Seq(Jobs)
          /\ posted \in Seq(Jobs)
          /\ ran \in Seq(Jobs)
          /\ ui \in {"select", "handler", "drain"} => work = <<>>

\* No lost wake-up: whenever a closure is queued, a token is in the channel,
\* or the UI goroutine has received one and not yet taken the queue, or a
\* goroutine inside Post is still going to offer one (the comment at
\* dispatch.go:59-61).
NoLostWakeup == queue # <<>> => \/ wake
                                \/ ui = "drain"
                                \/ \E g \in Posters : pc[g] = "send"

\* Every closure runs exactly once and in the order posted: what has run,
\* what the current Drain still holds and what is queued are, in that order,
\* exactly what was posted.
RunsInPostOrder == posted = ran \o work \o queue

\* A single Drain is bounded (dispatch.go:75-77): while one is in progress a
\* Post only ever reaches the queue, and nothing joins the slice it runs.
DrainIsBounded == [][work # <<>> /\ work' # work => work' = Tail(work)]_vars

\* The dispatcher implements the work queue it promises to be, liveness
\* included: what was posted is what ran, what Drain holds and what is queued,
\* and no closure is dropped because a token was (dispatch.go:36-38).
Abstract == INSTANCE WorkQueue WITH Jobs <- Jobs, ran <- ran, posted <- ran \o work \o queue
ImplementsWorkQueue == Abstract!Spec
=============================================================================
