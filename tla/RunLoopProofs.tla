---------------------------- MODULE RunLoopProofs ----------------------------
(***************************************************************************)
(* Safety of the run loop for every value of its constants.  What the UI   *)
(* goroutine is inside of is a stack without bound, so the invariant says  *)
(* where in it a child process may be: only on top.                        *)
(***************************************************************************)
EXTENDS SettleBarrier, SequenceTheorems, TLAPS

NoChild(s) == \A i \in 1 .. Len(s) : s[i].in # "child"

Positions == /\ at # "top" => stack = <<>>
             /\ stack # <<>> => NoChild(Tail(stack))
             /\ suspended <=> Inside("child")

Held == /\ at = "done" => ~view.screen
        /\ suspended => ~view.screen
        /\ ~view.screen => events = 0 /\ ~decDead

IInv == TypeOK /\ Positions /\ Held

-----------------------------------------------------------------------------
(* The stack.                                                              *)

\* Entering an activation puts it on top of what the goroutine was inside of.
LEMMA EnterProperties ==
  ASSUME NEW f \in {"drain", "handler", "hook", "paint", "child"},
         NEW jobs \in Seq(Jobs), NEW outer \in Seq(Activations)
  PROVE  /\ Enter(f, jobs, outer) \in Seq(Activations)
         /\ Enter(f, jobs, outer) # <<>>
         /\ Head(Enter(f, jobs, outer)) = [in |-> f, work |-> jobs]
         /\ Tail(Enter(f, jobs, outer)) = outer
         /\ NoChild(outer) /\ f # "child" => NoChild(Enter(f, jobs, outer))
<1> DEFINE a == [in |-> f, work |-> jobs]
           e == <<a>> \o outer
<1>1. a \in Activations
  BY DEF Activations
<1>2. <<a>> \in Seq(Activations) /\ Len(<<a>>) = 1 /\ <<a>>[1] = a
  BY <1>1
<1>3. /\ e \in Seq(Activations)
      /\ Len(e) = 1 + Len(outer)
      /\ \A i \in 1 .. Len(e) : e[i] = IF i <= 1 THEN a ELSE outer[i - 1]
  BY <1>2, ConcatProperties
<1>4. Len(outer) \in Nat
  BY LenProperties
<1>5. e # <<>> /\ e[1] = a
  BY <1>3, <1>4, EmptySeq
<1>6. /\ Head(e) = e[1]
      /\ Tail(e) \in Seq(Activations)
      /\ Len(Tail(e)) = Len(e) - 1
      /\ \A i \in 1 .. Len(Tail(e)) : Tail(e)[i] = e[i+1]
  BY <1>3, <1>5, HeadTailProperties
<1>7. \A i \in 1 .. Len(outer) : Tail(e)[i] = outer[i]
  BY <1>3, <1>4, <1>6
<1>8. Tail(e) = outer
  BY <1>3, <1>4, <1>6, <1>7, SeqEqual
<1>9. NoChild(outer) /\ f # "child" => NoChild(e)
  BY <1>3, <1>4 DEF NoChild
<1> QED
  BY <1>3, <1>5, <1>6, <1>8, <1>9 DEF Enter

\* A stack without a child has none on top nor below.
LEMMA NoChildInside ==
  ASSUME NEW s \in Seq(Activations), s # <<>>, NoChild(s)
  PROVE  Head(s).in # "child" /\ NoChild(Tail(s))
<1>1. /\ Head(s) = s[1]
      /\ Tail(s) \in Seq(Activations)
      /\ Len(Tail(s)) = Len(s) - 1
      /\ \A i \in 1 .. Len(Tail(s)) : Tail(s)[i] = s[i+1]
  BY HeadTailProperties
<1>2. Len(s) \in Nat /\ Len(s) # 0
  BY LenProperties, EmptySeq
<1> QED
  BY <1>1, <1>2 DEF NoChild

\* What is left of a stack, or of a Drain's closures, once its top is gone.
LEMMA Popped ==
  ASSUME TypeOK, stack # <<>>
  PROVE  /\ Head(stack).work \in Seq(Jobs)
         /\ Tail(stack) \in Seq(Activations)
<1>1. /\ Head(stack) \in Activations
      /\ Tail(stack) \in Seq(Activations)
  BY HeadTailProperties DEF TypeOK
<1> QED
  BY <1>1 DEF Activations

\* A Drain's next closure, and the stack while it runs.
LEMMA Taken ==
  ASSUME TypeOK, Inside("drain"), Head(stack).work # <<>>
  PROVE  /\ Job \in Jobs
         /\ Rest \in Seq(Activations)
         /\ NoChild(Tail(stack)) => NoChild(Rest)
<1>1. /\ Head(stack).work \in Seq(Jobs)
      /\ Tail(stack) \in Seq(Activations)
  BY Popped DEF Inside
<1>2. Job \in Jobs /\ Tail(Head(stack).work) \in Seq(Jobs)
  BY <1>1, HeadTailProperties DEF Inside, Job
<1> QED
  BY <1>1, <1>2, EnterProperties DEF Rest

-----------------------------------------------------------------------------
(* The composition and the terminal.                                       *)

\* Every callback and resize yields a view; only giving up or taking the
\* terminal changes who holds it.
LEMMA SetType ==
  ASSUME NEW v \in Views
  PROVE  Set(v) \in Views /\ Set(v).screen = v.screen
<1> DEFINE n == v.needsFrame \/ ~v.dirty
           m == v.val + 1
<1>1. n \in BOOLEAN /\ m \in Nat
  BY DEF Views
<1>2. Set(v) = [v EXCEPT !.val = m, !.dirty = TRUE, !.needsFrame = n]
  BY DEF Set
<1> HIDE DEF n, m
<1> QED
  BY <1>1, <1>2 DEF Views

\* Composing keeps a view a view and its terminal (Composer.Frame).
LEMMA ComposeType ==
  ASSUME NEW v \in Views
  PROVE  Compose(v) \in Views /\ Compose(v).screen = v.screen
BY DEF Views, Compose

\* So does flushing it, written or not (Composer.Flush).
LEMMA FlushType ==
  ASSUME NEW v \in Views, NEW ok \in BOOLEAN
  PROVE  Flush(v, ok) \in Views /\ Flush(v, ok).screen = v.screen
BY DEF Views, Flush

\* So does requesting a frame or consuming the request.
LEMMA RequestType ==
  ASSUME NEW v \in Views, NEW b \in BOOLEAN
  PROVE  /\ [v EXCEPT !.needsFrame = b] \in Views
         /\ [v EXCEPT !.needsFrame = b].screen = v.screen
BY DEF Views

\* So does a fresh Composer (App.attach).
LEMMA AttachType ==
  ASSUME NEW v \in Views
  PROVE  Attach(v) \in Views /\ Attach(v).screen = v.screen
BY DEF Views, Attach, Blank

\* So does a new size (Composer.Resize).
LEMMA ResizeType ==
  ASSUME NEW v \in Views
  PROVE  Resize(v) \in Views /\ Resize(v).screen = v.screen
BY DEF Views, Resize, Blank

\* Releasing gives the terminal up (App.release).
LEMMA ReleaseType ==
  ASSUME NEW v \in Views
  PROVE  Release(v) \in Views /\ Release(v).screen = FALSE
BY DEF Views, Release

\* Acquiring takes it, at any size (App.acquire).
LEMMA AcquireType ==
  ASSUME NEW v \in Views, NEW resized \in BOOLEAN
  PROVE  Acquire(v, resized) \in Views /\ Acquire(v, resized).screen = TRUE
BY DEF Views, Acquire, Resize, Blank

\* A frame leaves the terminal with whoever holds it.
LEMMA FrameType ==
  ASSUME NEW v \in Views, NEW b \in BOOLEAN, NEW ok \in BOOLEAN,
         NEW e \in BOOLEAN, NEW a \in BOOLEAN
  PROVE  Frame(v, b, ok, e, a) \in Views /\ Frame(v, b, ok, e, a).screen = v.screen
<1> DEFINE composed == Compose(IF b THEN Set(v) ELSE v)
           flushed  == IF composed.screen THEN Flush(composed, ok) ELSE composed
           reported == IF composed.screen /\ ~ok /\ e THEN Set(flushed) ELSE flushed
           consumed == [reported EXCEPT !.needsFrame = FALSE]
<1>1. composed \in Views /\ composed.screen = v.screen
  <2>1. (IF b THEN Set(v) ELSE v) \in Views /\ (IF b THEN Set(v) ELSE v).screen = v.screen
    BY SetType
  <2> QED
    BY <2>1, ComposeType
<1>2. flushed \in Views /\ flushed.screen = v.screen
  <2> HIDE DEF composed
  <2> QED
    BY <1>1, FlushType
<1>3. reported \in Views /\ reported.screen = v.screen
  <2> HIDE DEF flushed
  <2> QED
    BY <1>2, SetType
<1>4. consumed \in Views /\ consumed.screen = v.screen
  <2> HIDE DEF reported
  <2> QED
    BY <1>3, RequestType
<1>5. (IF a THEN Set(consumed) ELSE consumed) \in Views
      /\ (IF a THEN Set(consumed) ELSE consumed).screen = v.screen
  <2> HIDE DEF consumed
  <2> QED
    BY <1>4, SetType
<1> QED
  BY <1>5 DEF Frame

\* Every way one frame() can go keeps the terminal with whoever holds it.
LEMMA FramesType ==
  ASSUME view \in Views, NEW v \in Frames
  PROVE  v \in Views /\ v.screen = view.screen
<1>1. ASSUME NEW c, NEW b \in Maybe(c)
      PROVE  b \in BOOLEAN
  BY <1>1 DEF Maybe
<1>2. PICK b \in Maybe("before"), ok \in FlushResults, e \in Maybe("error"), a \in Maybe("after") :
        v = Frame(view, b, ok, e, a)
  BY DEF Frames
<1>3. b \in BOOLEAN /\ ok \in BOOLEAN /\ e \in BOOLEAN /\ a \in BOOLEAN
  BY <1>1, RunLoopAssumption DEF RunLoopAssumption
<1>4. Frame(view, b, ok, e, a) \in Views /\ Frame(view, b, ok, e, a).screen = view.screen
  BY <1>3, FrameType
<1> QED
  BY <1>2, <1>4

-----------------------------------------------------------------------------
(* One closure or event handler.                                           *)

Does(outer) == \/ DoQuit(outer) \/ DoSuspend(outer) \/ DoSet(outer) \/ DoNothing(outer)
               \/ DoReload(outer) \/ DoExit(outer) \/ DoResize(outer) \/ DoStop(outer)

\* What closures and handlers leave alone.
Untouched == UNCHANGED <<queue, wake, signals, cancelled, at, result, exitDrains, spent>>

\* Going back to what the goroutine was inside of leaves no child process.
LEMMA BackToOuter ==
  ASSUME NEW outer \in Seq(Activations), NoChild(outer), stack' = outer,
         at' = "top", suspended' = FALSE
  PROVE  Positions' /\ stack' \in Seq(Activations)
<1>1. outer # <<>> => Head(outer).in # "child" /\ NoChild(Tail(outer))
  BY NoChildInside
<1> QED
  BY <1>1 DEF Positions, Inside

\* So does entering an activation that is not a child process.
LEMMA IntoActivation ==
  ASSUME NEW outer \in Seq(Activations), NoChild(outer), NEW jobs \in Seq(Jobs),
         NEW f \in {"drain", "handler", "hook", "paint", "child"},
         stack' = Enter(f, jobs, outer), at' = "top", suspended' = (f = "child")
  PROVE  Positions' /\ stack' \in Seq(Activations)
<1>1. /\ stack' \in Seq(Activations)
      /\ stack' # <<>>
      /\ Head(stack').in = f
      /\ Tail(stack') = outer
  BY EnterProperties
<1> QED
  BY <1>1 DEF Positions, Inside

\* An activation that runs no posted closures has an empty slice.
LEMMA NoJobs == <<>> \in Seq(Jobs)
BY EmptySeq

\* Whatever a closure or a handler does, the invariant holds after it.
LEMMA DoesKeepsIInv ==
  ASSUME IInv, NEW outer \in Seq(Activations), NoChild(outer),
         at = "top", ~suspended, Does(outer), Untouched
  PROVE  IInv'
<1> USE DEF Untouched
<1>1. CASE DoQuit(outer)
  <2>1. suspended' = FALSE /\ at' = "top" /\ stack' = outer
    BY <1>1 DEF DoQuit, IInv, TypeOK
  <2>2. Positions' /\ stack' \in Seq(Activations)
    BY <2>1, BackToOuter
  <2> QED
    BY <1>1, <2>2 DEF DoQuit, IInv, TypeOK, Held
<1>2. CASE DoSuspend(outer)
  <2>1. suspended' = TRUE /\ at' = "top" /\ stack' = Enter("child", <<>>, outer)
    BY <1>2 DEF DoSuspend
  <2>2. Positions' /\ stack' \in Seq(Activations)
    BY <2>1, IntoActivation, NoJobs
  <2>3. view' \in Views /\ view'.screen = FALSE
    BY <1>2, ReleaseType DEF DoSuspend, IInv, TypeOK
  <2> QED
    BY <1>2, <2>2, <2>3 DEF DoSuspend, IInv, TypeOK, Held
<1>3. CASE DoSet(outer)
  <2>1. suspended' = FALSE /\ at' = "top" /\ stack' = outer
    BY <1>3 DEF DoSet, IInv, TypeOK
  <2>2. Positions' /\ stack' \in Seq(Activations)
    BY <2>1, BackToOuter
  <2>3. view' \in Views /\ view'.screen = view.screen
    BY <1>3, SetType DEF DoSet, IInv, TypeOK
  <2> QED
    BY <1>3, <2>2, <2>3 DEF DoSet, IInv, TypeOK, Held
<1>4. CASE DoNothing(outer)
  <2>1. suspended' = FALSE /\ at' = "top" /\ stack' = outer
    BY <1>4 DEF DoNothing, IInv, TypeOK
  <2>2. Positions' /\ stack' \in Seq(Activations)
    BY <2>1, BackToOuter
  <2> QED
    BY <1>4, <2>2 DEF DoNothing, IInv, TypeOK, Held
<1>5. CASE DoReload(outer)
  <2>1. suspended' = FALSE /\ at' = "top" /\ stack' = outer
    BY <1>5 DEF DoReload, IInv, TypeOK
  <2>2. Positions' /\ stack' \in Seq(Activations)
    BY <2>1, BackToOuter
  <2>3. view' \in Views /\ view'.screen = view.screen
    BY <1>5, AttachType DEF DoReload, IInv, TypeOK
  <2> QED
    BY <1>5, <2>2, <2>3 DEF DoReload, IInv, TypeOK, Held
<1>6. CASE DoExit(outer)
  <2>1. Positions' /\ stack' \in Seq(Activations)
    <3>1. CASE HasHook
      <4>1. suspended' = FALSE /\ at' = "top" /\ stack' = Enter("hook", <<>>, outer)
        BY <1>6, <3>1 DEF DoExit, IInv, TypeOK
      <4> QED
        BY <4>1, IntoActivation, NoJobs
    <3>2. CASE ~HasHook
      <4>1. suspended' = FALSE /\ at' = "top" /\ stack' = outer
        BY <1>6, <3>2 DEF DoExit, IInv, TypeOK
      <4> QED
        BY <4>1, BackToOuter
    <3> QED
      BY <3>1, <3>2
  <2>2. quit' \in BOOLEAN /\ hook' \in {"none", "running", "returned"}
    BY <1>6 DEF DoExit, IInv, TypeOK
  <2> QED
    BY <1>6, <2>1, <2>2 DEF DoExit, IInv, TypeOK, Held
<1>7. CASE DoResize(outer)
  <2>1. suspended' = FALSE /\ at' = "top" /\ stack' = outer
    BY <1>7 DEF DoResize, IInv, TypeOK
  <2>2. Positions' /\ stack' \in Seq(Activations)
    BY <2>1, BackToOuter
  <2>3. view' \in Views /\ view'.screen = view.screen
    BY <1>7, ResizeType, RequestType DEF DoResize, IInv, TypeOK
  <2> QED
    BY <1>7, <2>2, <2>3 DEF DoResize, IInv, TypeOK, Held
<1>8. CASE DoStop(outer)
  <2>1. CASE DoNothing(outer)
    BY <1>4, <2>1
  <2>2. CASE ~DoNothing(outer)
    <3>1. suspended' = FALSE /\ at' = "top" /\ stack' = outer
      BY <1>8, <2>2 DEF DoStop, IInv, TypeOK
    <3>2. Positions' /\ stack' \in Seq(Activations)
      BY <3>1, BackToOuter
    <3>3. PICK ok \in Reacquires, resized \in BOOLEAN :
            /\ view' = IF ok THEN Acquire(view, resized) ELSE Release(view)
            /\ quit' = (quit \/ ~ok)
      BY <1>8, <2>2 DEF DoStop
    <3>4. view' \in Views
      BY <3>3, AcquireType, ReleaseType DEF IInv, TypeOK
    <3>5. quit' \in BOOLEAN
      BY <3>3
    <3>6. events' = 0 /\ decDead' = FALSE /\ UNCHANGED <<asked, suspended, exitSig, hook>>
      BY <1>8, <2>2 DEF DoStop
    <3> QED
      BY <3>1, <3>2, <3>4, <3>5, <3>6 DEF IInv, TypeOK, Held
  <2> QED
    BY <2>1, <2>2
<1> QED
  BY <1>1, <1>2, <1>3, <1>4, <1>5, <1>6, <1>7, <1>8 DEF Does

-----------------------------------------------------------------------------
(* Every step.                                                             *)

\* Jobs reach the queue well-formed.
LEMMA PostJobType ==
  ASSUME TypeOK, NEW kind \in Kinds, NEW from \in {"any", "child", "hook"},
         PostJob(kind, from)
  PROVE  queue' \in Seq(Jobs) /\ wake' \in BOOLEAN
<1>1. [kind |-> kind, from |-> from] \in Jobs
  BY DEF Jobs
<1> QED
  BY <1>1, AppendProperties DEF PostJob, TypeOK

\* Run's return: the terminal is released and nothing is left to run.
LEMMA ReturnKeepsIInv ==
  ASSUME IInv, stack = <<>>, NEW termErr \in BOOLEAN, Return(termErr),
         UNCHANGED <<queue, wake, quit, cancelled, suspended, exitSig, hook,
                     exitDrains, asked, spent>>
  PROVE  IInv'
<1>1. view' \in Views /\ view'.screen = FALSE
  BY ReleaseType DEF Return, IInv, TypeOK
<1>2. stack' = <<>> /\ stack' \in Seq(Activations) /\ signals' \in Seq(Jobs)
  BY EmptySeq DEF Return
<1>3. Positions'
  BY <1>2 DEF IInv, Positions, Inside
<1>4. result' \in {"none", "nil", "signal", "terminal"}
  BY DEF Return
<1> QED
  BY <1>1, <1>2, <1>3, <1>4 DEF Return, IInv, TypeOK, Held

\* No step of another goroutine disturbs the invariant.
LEMMA EnvironmentKeepsIInv ==
  ASSUME IInv, Environment
  PROVE  IInv'
<1> USE DEF IInv, Positions, Held, Inside
<1>1. ASSUME NEW kind \in PostKinds, Post(kind)
      PROVE  IInv'
  <2>1. kind \in Kinds
    BY RunLoopAssumption DEF RunLoopAssumption, Kinds
  <2>2. queue' \in Seq(Jobs) /\ wake' \in BOOLEAN
    BY <1>1, <2>1, PostJobType DEF Post
  <2>3. spent' \in [posts : Nat, signals : Nat, events : Nat]
    BY <1>1 DEF Post, TypeOK
  <2> QED
    BY <1>1, <2>2, <2>3 DEF Post, TypeOK
<1>2. CASE QuitElsewhere
  BY <1>2 DEF QuitElsewhere, TypeOK
<1>3. CASE CancelContext
  BY <1>3 DEF CancelContext, TypeOK
<1>4. ASSUME NEW sig \in SignalKinds, Raise(sig)
      PROVE  IInv'
  <2> DEFINE job == [kind |-> sig, from |-> IF suspended THEN "child" ELSE "any"]
  <2>1. job \in Jobs
    BY RunLoopAssumption DEF RunLoopAssumption, Kinds, Jobs
  <2>2. signals' \in Seq(Jobs)
    <3> HIDE DEF job
    <3>1. Append(signals, job) \in Seq(Jobs)
      BY <2>1, AppendProperties DEF TypeOK
    <3> QED
      BY <1>4, <3>1 DEF Raise, TypeOK, job
  <2> QED
    BY <1>4, <2>2 DEF Raise, TypeOK
<1>5. CASE ForwardSignal
  <2>1. Head(signals) \in Jobs /\ Tail(signals) \in Seq(Jobs)
    BY <1>5, HeadTailProperties DEF ForwardSignal, TypeOK
  <2>2. queue' \in Seq(Jobs) /\ wake' \in BOOLEAN
    BY <1>5, <2>1, PostJobType DEF ForwardSignal, Jobs
  <2> QED
    BY <1>5, <2>1, <2>2 DEF ForwardSignal, TypeOK
<1>6. CASE DecodeEvent
  <2>1. spent' \in [posts : Nat, signals : Nat, events : Nat] /\ events' \in Nat
    <3>1. spent.events + 1 \in Nat /\ events' \in Nat
      BY <1>6 DEF DecodeEvent, TypeOK
    <3>2. spent' = [spent EXCEPT !.events = spent.events + 1]
      BY <1>6 DEF DecodeEvent
    <3> QED
      BY <3>1, <3>2 DEF TypeOK
  <2>2. view.screen /\ ~decDead /\ decDead' = decDead
        /\ UNCHANGED <<queue, wake, signals, quit, cancelled, at, stack, suspended, exitSig,
                       result, view, hook, exitDrains, asked>>
    BY <1>6 DEF DecodeEvent
  <2> QED
    BY <2>1, <2>2 DEF TypeOK
<1>7. CASE DecoderDies
  BY <1>7 DEF DecoderDies, TypeOK
<1>8. CASE HookPosts
  <2>1. queue' \in Seq(Jobs) /\ wake' \in BOOLEAN
    BY <1>8, PostJobType DEF HookPosts, Kinds
  <2>2. spent' \in [posts : Nat, signals : Nat, events : Nat]
    BY <1>8 DEF HookPosts, TypeOK
  <2> QED
    BY <1>8, <2>1, <2>2 DEF HookPosts, TypeOK
<1>9. CASE HookReturns
  BY <1>9 DEF HookReturns, TypeOK
<1> QED
  BY <1>1, <1>2, <1>3, <1>4, <1>5, <1>6, <1>7, <1>8, <1>9 DEF Environment

\* A Drain of `jobs' on top of a stack without a child.
LEMMA DrainBegins ==
  ASSUME IInv, NEW outer \in Seq(Activations), NoChild(outer), ~suspended, suspended' = suspended,
         at' = "top", stack' = Enter("drain", queue, outer)
  PROVE  Positions' /\ stack' \in Seq(Activations)
<1>1. queue \in Seq(Jobs) /\ suspended' = FALSE
  BY DEF IInv, TypeOK
<1> QED
  BY <1>1, IntoActivation

\* While the UI goroutine is inside of something the loop is past its select,
\* and below the top of the stack there is no child process.
LEMMA InsideOf ==
  ASSUME IInv, stack # <<>>
  PROVE  /\ at = "top"
         /\ Tail(stack) \in Seq(Activations)
         /\ NoChild(Tail(stack))
         /\ Head(stack).in # "child" => ~suspended
BY Popped DEF IInv, Positions, Inside, TypeOK

\* No step of the UI goroutine disturbs the invariant.
LEMMA UIStepKeepsIInv ==
  ASSUME IInv, UIStep
  PROVE  IInv'
<1>1. CASE LoopEnds
  BY <1>1, ReturnKeepsIInv DEF LoopEnds, AtTop
<1>2. CASE LoopPaints
  <2>1. view' \in Views /\ view'.screen = view.screen
    BY <1>2, FramesType DEF LoopPaints, IInv, TypeOK
  <2>2. stack = <<>> /\ stack' = stack /\ at' = "select"
    BY <1>2 DEF LoopPaints, AtTop
  <2>3. Positions'
    BY <1>2, <2>2 DEF LoopPaints, IInv, Positions, Inside
  <2> QED
    BY <1>2, <2>1, <2>2, <2>3 DEF LoopPaints, IInv, TypeOK, Held
<1>3. CASE SelectStop
  BY <1>3 DEF SelectStop, IInv, TypeOK, Positions, Held, Inside
<1>4. CASE SelectWake
  <2>1. stack = <<>> /\ ~suspended
    BY <1>4 DEF SelectWake, IInv, Positions, Inside
  <2>2. <<>> \in Seq(Activations) /\ NoChild(<<>>) /\ <<>> \in Seq(Jobs)
    BY EmptySeq DEF NoChild
  <2>3. Positions' /\ stack' \in Seq(Activations)
    BY <1>4, <2>1, <2>2, DrainBegins DEF SelectWake
  <2> QED
    BY <1>4, <2>2, <2>3 DEF SelectWake, IInv, TypeOK, Held
<1>5. CASE SelectEvent
  <2>1. stack = <<>> /\ ~suspended
    BY <1>5 DEF SelectEvent, IInv, Positions, Inside
  <2>2. <<>> \in Seq(Activations) /\ NoChild(<<>>) /\ <<>> \in Seq(Jobs)
    BY EmptySeq DEF NoChild
  <2>3. suspended' = FALSE /\ at' = "top" /\ stack' = Enter("handler", <<>>, <<>>)
    BY <1>5, <2>1 DEF SelectEvent, IInv, TypeOK
  <2>4. Positions' /\ stack' \in Seq(Activations)
    BY <2>2, <2>3, IntoActivation
  <2>5. events' \in Nat /\ view.screen
    BY <1>5 DEF SelectEvent, IInv, TypeOK, Held
  <2> QED
    BY <1>5, <2>4, <2>5 DEF SelectEvent, IInv, TypeOK, Held
<1>6. CASE SelectDecoderDone
  <2>1. stack = <<>>
    BY <1>6 DEF SelectDecoderDone, IInv, Positions
  <2> QED
    BY <1>6, <2>1, ReturnKeepsIInv DEF SelectDecoderDone
<1>7. CASE RunJob
  <2>1. stack # <<>> /\ Head(stack).in = "drain" /\ Head(stack).work # <<>>
    BY <1>7 DEF RunJob, Inside
  <2>2. /\ Rest \in Seq(Activations) /\ NoChild(Rest)
        /\ at = "top" /\ ~suspended
        /\ Job \in Jobs
    BY <2>1, InsideOf, Taken DEF Inside, IInv
  <2>3. Does(Rest)
    BY <1>7, <2>2 DEF RunJob, Does, DoSignal, Jobs, Kinds
  <2>4. Untouched
    BY <1>7 DEF RunJob, Untouched
  <2> QED
    BY <2>2, <2>3, <2>4, DoesKeepsIInv
<1>8. CASE DrainReturns
  <2>1. stack # <<>> /\ Head(stack).in = "drain"
    BY <1>8 DEF DrainReturns, Inside
  <2>2. /\ Tail(stack) \in Seq(Activations) /\ NoChild(Tail(stack))
        /\ at = "top" /\ ~suspended
    BY <2>1, InsideOf
  <2>3. stack' = Tail(stack) /\ at' = "top" /\ suspended' = FALSE
    BY <1>8, <2>2 DEF DrainReturns, IInv, TypeOK
  <2>4. Positions' /\ stack' \in Seq(Activations)
    BY <2>2, <2>3, BackToOuter
  <2> QED
    BY <1>8, <2>4 DEF DrainReturns, IInv, TypeOK, Held
<1>9. ASSUME NEW kind \in EventKinds, Handle(kind)
      PROVE  IInv'
  <2>1. stack # <<>> /\ Head(stack).in = "handler"
    BY <1>9 DEF Handle, Inside
  <2>2. /\ Tail(stack) \in Seq(Activations) /\ NoChild(Tail(stack))
        /\ at = "top" /\ ~suspended
    BY <2>1, InsideOf
  <2>3. kind \in {"none", "set", "quit", "suspend"}
    BY RunLoopAssumption DEF RunLoopAssumption
  <2>4. Does(Tail(stack))
    BY <1>9, <2>3 DEF Handle, Does
  <2>5. Untouched
    BY <1>9 DEF Handle, Untouched
  <2> QED
    BY <2>2, <2>4, <2>5, DoesKeepsIInv
<1>10. CASE ChildReturns
  <2>1. stack # <<>> /\ Head(stack).in = "child" /\ suspended
    BY <1>10 DEF ChildReturns, Inside, IInv, Positions
  <2>2. /\ Tail(stack) \in Seq(Activations) /\ NoChild(Tail(stack))
        /\ at = "top"
    BY <2>1, InsideOf
  <2>3. stack' = Tail(stack) /\ at' = "top" /\ suspended' = FALSE
    BY <1>10, <2>2 DEF ChildReturns
  <2>4. Positions' /\ stack' \in Seq(Activations)
    BY <2>2, <2>3, BackToOuter
  <2>5. PICK ok \in Reacquires, resized \in BOOLEAN :
          view' = IF ok THEN Acquire(view, resized) ELSE view
    BY <1>10 DEF ChildReturns
  <2>6. view' \in Views
    BY <2>5, AcquireType DEF IInv, TypeOK
  <2>7. events = 0 /\ ~decDead
    BY <2>1 DEF IInv, Held
  <2> QED
    BY <1>10, <2>3, <2>4, <2>6, <2>7 DEF ChildReturns, IInv, TypeOK, Held
<1>11. ASSUME NEW waited \in {"running", "returned"}, ExitDrains(waited)
       PROVE  IInv'
  <2>1. stack # <<>> /\ Head(stack).in = "hook"
    BY <1>11 DEF ExitDrains, Inside
  <2>2. /\ Tail(stack) \in Seq(Activations) /\ NoChild(Tail(stack))
        /\ at = "top" /\ ~suspended
    BY <2>1, InsideOf
  <2> DEFINE painting == Enter("paint", <<>>, Tail(stack))
  <2>3. painting \in Seq(Activations) /\ NoChild(painting)
    BY <2>2, EnterProperties, NoJobs
  <2>4. stack' = Enter("drain", queue, painting) /\ at' = "top" /\ suspended' = suspended
    BY <1>11, <2>2 DEF ExitDrains
  <2>5. Positions' /\ stack' \in Seq(Activations)
    <3> HIDE DEF painting
    <3> QED
      BY <2>2, <2>3, <2>4, DrainBegins
  <2>6. queue' \in Seq(Jobs) /\ exitDrains' \in Nat
    BY <1>11, NoJobs DEF ExitDrains, IInv, TypeOK
  <2> QED
    BY <1>11, <2>5, <2>6 DEF ExitDrains, IInv, TypeOK, Held
<1>12. CASE ExitPaints
  <2>1. stack # <<>> /\ Head(stack).in = "paint"
    BY <1>12 DEF ExitPaints, Inside
  <2>2. /\ Tail(stack) \in Seq(Activations) /\ NoChild(Tail(stack))
        /\ at = "top" /\ ~suspended
    BY <2>1, InsideOf
  <2>3. stack' = Tail(stack) /\ at' = "top" /\ suspended' = FALSE
    BY <1>12, <2>2 DEF ExitPaints, IInv, TypeOK
  <2>4. Positions' /\ stack' \in Seq(Activations)
    BY <2>2, <2>3, BackToOuter
  <2>5. view' \in Views /\ view'.screen = view.screen
    BY <1>12, FramesType DEF ExitPaints, IInv, TypeOK
  <2> QED
    BY <1>12, <2>4, <2>5 DEF ExitPaints, IInv, TypeOK, Held
<1> QED
  BY <1>1, <1>2, <1>3, <1>4, <1>5, <1>6, <1>7, <1>8, <1>9, <1>10, <1>11, <1>12
  DEF UIStep, HookDone, HookTimesOut

\* The invariant holds at first.
LEMMA IInvInitially == Init => IInv
<1> SUFFICES ASSUME Init
             PROVE  IInv
  OBVIOUS
<1>1. /\ queue \in Seq(Jobs) /\ signals \in Seq(Jobs)
      /\ stack \in Seq(Activations)
  BY EmptySeq DEF Init
<1>2. view \in Views /\ view.screen = TRUE
  BY DEF Init, Views, Blank
<1>3. spent \in [posts : Nat, signals : Nat, events : Nat]
  BY DEF Init
<1>4. TypeOK
  BY <1>1, <1>2, <1>3 DEF Init, TypeOK
<1>5. Positions /\ Held
  BY <1>2 DEF Init, Positions, Held, Inside
<1> QED
  BY <1>4, <1>5 DEF IInv

\* Every step keeps it.
LEMMA IInvKept ==
  ASSUME IInv, [Next]_vars
  PROVE  IInv'
<1>1. CASE UIStep
  BY <1>1, UIStepKeepsIInv
<1>2. CASE Environment
  BY <1>2, EnvironmentKeepsIInv
<1>3. CASE UNCHANGED vars
  BY <1>3 DEF vars, IInv, TypeOK, Positions, Held, Inside
<1> QED
  BY <1>1, <1>2, <1>3 DEF Next, Returned

\* The invariant is inductive.
LEMMA IInvInductive == Spec => []IInv
BY IInvInitially, IInvKept, PTL DEF Spec

\* The run loop's variables always hold values of their types (app.go:40-110).
THEOREM TypeCorrect == Spec => []TypeOK
<1>1. IInv => TypeOK
  BY DEF IInv
<1> QED
  BY <1>1, IInvInductive, PTL

\* Nobody else ever has the terminal while the run loop holds it: neither a
\* child process nor the caller Run returned to, however signals, suspends and
\* shutdown hooks nest (App.release, App.Suspend, App.teardown).
THEOREM TerminalIsHandedOver == Spec => []TerminalHandedOver
<1>1. IInv => TerminalHandedOver
  BY DEF IInv, Positions, Held, TerminalHandedOver
<1> QED
  BY <1>1, IInvInductive, PTL

-----------------------------------------------------------------------------
(* The picture.                                                            *)

\* How the composition and the terminal stand to each other.  A write error
\* breaks the fourth part (prev runs ahead of tty).
Picture(v) == /\ v.val # Blank
              /\ v.dirty => v.needsFrame
              /\ ~v.dirty => v.buf = v.val
              /\ v.screen => v.prev \in {Blank, v.tty}
              /\ v.screen /\ ~v.needsFrame => v.tty = v.val

\* A Set asks for the frame that will paint it.
LEMMA SetPicture ==
  ASSUME NEW v \in Views, Picture(v)
  PROVE  Picture(Set(v)) /\ Set(v).dirty
<1>1. /\ Set(v).val = v.val + 1
      /\ Set(v).dirty = TRUE
      /\ Set(v).needsFrame = (v.needsFrame \/ ~v.dirty)
      /\ Set(v).prev = v.prev /\ Set(v).tty = v.tty /\ Set(v).screen = v.screen
  BY DEF Views, Set
<1>2. Set(v).needsFrame
  BY <1>1 DEF Picture
<1>3. Set(v).val # Blank
  BY <1>1 DEF Views, Blank
<1> QED
  BY <1>1, <1>2, <1>3 DEF Picture

\* Composing paints the value into the buffer and touches nothing else.
LEMMA ComposePicture ==
  ASSUME NEW v \in Views, Picture(v)
  PROVE  LET c == Compose(v)
         IN  /\ c.val = v.val /\ c.buf = v.val /\ c.dirty = FALSE
             /\ c.prev = v.prev /\ c.tty = v.tty /\ c.screen = v.screen
BY DEF Views, Compose, Picture

\* A successful frame brings the terminal up to date.
LEMMA FramePicture ==
  ASSUME NEW v \in Views, Picture(v),
         NEW b \in BOOLEAN, NEW e \in BOOLEAN, NEW a \in BOOLEAN
  PROVE  /\ Picture(Frame(v, b, TRUE, e, a))
         /\ ~a => ~Frame(v, b, TRUE, e, a).needsFrame
<1> DEFINE before   == IF b THEN Set(v) ELSE v
           composed == Compose(before)
           flushed  == IF composed.screen THEN Flush(composed, TRUE) ELSE composed
           consumed == [flushed EXCEPT !.needsFrame = FALSE]
<1>1. before \in Views /\ Picture(before)
  BY SetType, SetPicture
<1>2. composed \in Views
  <2> HIDE DEF before
  <2> QED
    BY <1>1, ComposeType
<1>3. /\ composed.val = composed.buf /\ composed.val # Blank /\ composed.dirty = FALSE
      /\ composed.screen => composed.prev \in {Blank, composed.tty}
  <2> HIDE DEF before
  <2> QED
    BY <1>1, ComposePicture DEF Picture
<1>4. /\ flushed \in Views
      /\ flushed.val = flushed.buf /\ flushed.val # Blank /\ flushed.dirty = FALSE
      /\ flushed.screen => flushed.prev = flushed.tty /\ flushed.tty = flushed.val
  <2> HIDE DEF composed
  <2>1. CASE ~composed.screen
    BY <1>2, <1>3, <2>1
  <2>2. CASE composed.screen
    <3> DEFINE f == Flush(composed, TRUE)
    <3>1. /\ f \in Views
          /\ f.val = composed.val /\ f.buf = composed.buf /\ f.dirty = composed.dirty
          /\ f.prev = composed.buf
          /\ f.tty = IF composed.prev # composed.buf THEN composed.buf ELSE composed.tty
      BY <1>2, FlushType DEF Views, Flush
    <3>2. flushed = f
      BY <2>2
    <3> HIDE DEF f, flushed
    <3> QED
      BY <1>3, <2>2, <3>1, <3>2
  <2> QED
    BY <2>1, <2>2
<1>5. /\ consumed \in Views
      /\ Picture(consumed)
      /\ consumed.needsFrame = FALSE
  <2> HIDE DEF flushed
  <2>1. /\ consumed \in Views
        /\ consumed.needsFrame = FALSE
        /\ consumed.val = flushed.val /\ consumed.buf = flushed.buf
        /\ consumed.dirty = flushed.dirty /\ consumed.prev = flushed.prev
        /\ consumed.tty = flushed.tty /\ consumed.screen = flushed.screen
    BY <1>4, RequestType DEF Views
  <2> HIDE DEF consumed
  <2> QED
    BY <1>4, <2>1 DEF Picture
<1>6. Picture(IF a THEN Set(consumed) ELSE consumed)
      /\ (~a => ~(IF a THEN Set(consumed) ELSE consumed).needsFrame)
  <2> HIDE DEF consumed
  <2> QED
    BY <1>5, SetPicture
<1>7. Frame(v, b, TRUE, e, a) = IF a THEN Set(consumed) ELSE consumed
  BY DEF Frame
<1> QED
  BY <1>6, <1>7

\* A step does one of these to the composition and the terminal, and only
\* LoopPaints, at the top of the loop, does anything before a select.
ViewSteps(v) == \/ v = view \/ v = Set(view) \/ v = Attach(view) \/ v = Resize(view)
                \/ v = [view EXCEPT !.needsFrame = TRUE]
                \/ v = Release(view)
                \/ \E resized \in BOOLEAN : v = Acquire(view, resized)
                \/ v \in Frames

\* A closure or handler changes the view by one of the operators above.
LEMMA DoesViewStep ==
  ASSUME NEW outer, Does(outer)
  PROVE  ViewSteps(view')
<1>1. ASSUME DoStop(outer), view' # view
      PROVE  ViewSteps(view')
  <2>1. PICK ok \in Reacquires, resized \in BOOLEAN :
          view' = IF ok THEN Acquire(view, resized) ELSE Release(view)
    BY <1>1 DEF DoStop, DoNothing
  <2> QED
    BY <2>1 DEF ViewSteps
<1> QED
  BY <1>1 DEF Does, DoQuit, DoSuspend, DoSet, DoNothing, DoReload, DoExit, DoResize, ViewSteps

\* So does every step; and the loop reaches its select by LoopPaints alone.
LEMMA NextViewStep ==
  ASSUME IInv, [Next]_vars
  PROVE  /\ ViewSteps(view')
         /\ at' = "select" => \/ at = "select" /\ view' = view
                              \/ LoopPaints
<1>1. ASSUME RunJob
      PROVE  ViewSteps(view') /\ at' = "top"
  <2>1. Does(Rest)
    <3>1. Job \in Jobs
      BY <1>1, Taken DEF RunJob, IInv
    <3> QED
      BY <1>1, <3>1 DEF RunJob, Does, DoSignal, Jobs, Kinds
  <2>2. at = "top" /\ at' = at
    BY <1>1, InsideOf DEF RunJob, Inside
  <2> QED
    BY <2>1, <2>2, DoesViewStep
<1>2. ASSUME NEW kind \in EventKinds, Handle(kind)
      PROVE  ViewSteps(view') /\ at' = "top"
  <2>1. Does(Tail(stack))
    BY <1>2, RunLoopAssumption DEF RunLoopAssumption, Handle, Does
  <2>2. at = "top" /\ at' = at
    BY <1>2, InsideOf DEF Handle, Inside
  <2> QED
    BY <2>1, <2>2, DoesViewStep
<1>3. ASSUME ChildReturns
      PROVE  ViewSteps(view') /\ at' = "top"
  <2>1. at = "top" /\ at' = at
    BY <1>3, InsideOf DEF ChildReturns, Inside
  <2> QED
    BY <1>3, <2>1 DEF ChildReturns, ViewSteps
<1>4. ASSUME ExitPaints
      PROVE  ViewSteps(view') /\ at' = "top"
  <2>1. at = "top" /\ at' = at
    BY <1>4, InsideOf DEF ExitPaints, Inside
  <2> QED
    BY <1>4, <2>1 DEF ExitPaints, ViewSteps
<1>5. ASSUME DrainReturns \/ HookDone \/ HookTimesOut
      PROVE  view' = view /\ at' = at
  BY <1>5 DEF DrainReturns, HookDone, HookTimesOut, ExitDrains
<1>6. ASSUME LoopEnds \/ SelectDecoderDone
      PROVE  view' = Release(view) /\ at' = "done"
  BY <1>6 DEF LoopEnds, SelectDecoderDone, Return
<1>7. ASSUME SelectStop \/ SelectWake \/ SelectEvent
      PROVE  view' = view /\ at' = "top"
  BY <1>7 DEF SelectStop, SelectWake, SelectEvent
<1>8. ASSUME LoopPaints
      PROVE  ViewSteps(view')
  BY <1>8 DEF LoopPaints, ViewSteps
<1>9. ASSUME Environment
      PROVE  view' = view /\ at' = at
  BY <1>9 DEF Environment, Post, QuitElsewhere, CancelContext, Raise, ForwardSignal,
              DecodeEvent, DecoderDies, HookPosts, HookReturns
<1>10. ASSUME UNCHANGED vars
       PROVE  view' = view /\ at' = at
  BY <1>10 DEF vars
<1> QED
  BY <1>1, <1>2, <1>3, <1>4, <1>5, <1>6, <1>7, <1>8, <1>9, <1>10
  DEF ViewSteps, Next, UIStep, Returned

\* Without write errors every step keeps the picture.
LEMMA PictureKept ==
  ASSUME FALSE \notin FlushResults, view \in Views, Picture(view), ViewSteps(view')
  PROVE  Picture(view')
<1>1. CASE view' = view
  BY <1>1
<1>2. CASE view' = Set(view)
  BY <1>2, SetPicture
<1>3. CASE view' = Attach(view)
  BY <1>3 DEF Views, Attach, Picture
<1>4. CASE view' = Resize(view)
  BY <1>4 DEF Views, Resize, Picture
<1>5. CASE view' = [view EXCEPT !.needsFrame = TRUE]
  BY <1>5 DEF Views, Picture
<1>6. CASE view' = Release(view)
  BY <1>6 DEF Views, Release, Picture
<1>7. CASE \E resized \in BOOLEAN : view' = Acquire(view, resized)
  BY <1>7 DEF Views, Acquire, Resize, Picture
<1>8. CASE view' \in Frames
  <2>1. PICK b \in Maybe("before"), ok \in FlushResults,
             e \in Maybe("error"), a \in Maybe("after") : view' = Frame(view, b, ok, e, a)
    BY <1>8 DEF Frames
  <2>2. b \in BOOLEAN /\ ok = TRUE /\ e \in BOOLEAN /\ a \in BOOLEAN
    BY RunLoopAssumption DEF RunLoopAssumption, Maybe
  <2>3. Picture(Frame(view, b, TRUE, e, a))
    BY <2>2, FramePicture
  <2> QED
    BY <2>1, <2>2, <2>3
<1> QED
  BY <1>1, <1>2, <1>3, <1>4, <1>5, <1>6, <1>7, <1>8 DEF ViewSteps

\* Where no write fails, Picture holds of every view the loop reaches.
LEMMA PictureInvariant ==
  ASSUME FALSE \notin FlushResults
  PROVE  Spec => []Picture(view)
<1>1. Init => Picture(view)
  BY DEF Init, Picture, Blank
<1>2. IInv /\ Picture(view) /\ [Next]_vars => Picture(view)'
  BY NextViewStep, PictureKept DEF IInv, TypeOK
<1> QED
  BY <1>1, <1>2, IInvInductive, PTL DEF Spec

\* Where writes to the terminal do not fail, a dirty tree always has a frame
\* requested, so a Set on it is never waiting for somebody else's (app.go:624).
THEOREM DirtyIsScheduled ==
  ASSUME FALSE \notin FlushResults
  PROVE  Spec => []DirtyMeansScheduled
<1>1. Picture(view) => DirtyMeansScheduled
  BY DEF Picture, DirtyMeansScheduled
<1> QED
  BY <1>1, PictureInvariant, PTL

\* Nor does a differential flush ever start from a wrong belief (Composer.Flush
\* and Composer.Invalidate).
THEOREM BeliefIsRight ==
  ASSUME FALSE \notin FlushResults
  PROVE  Spec => []FlusherKnowsTerminal
<1>1. Picture(view) => FlusherKnowsTerminal
  BY DEF Picture, FlusherKnowsTerminal
<1> QED
  BY <1>1, PictureInvariant, PTL

\* And when no AfterFrame hook Sets anything, a loop that blocks has painted
\* everything: there is no request left and the terminal shows the value
\* (App.Run's loop, App.frame).
THEOREM ScreenIsCurrent ==
  ASSUME FALSE \notin FlushResults, "after" \notin HostSets
  PROVE  Spec => []NoStaleScreen
<1> DEFINE Quiet == at = "select" => ~view.needsFrame
<1>1. Init => Quiet
  BY DEF Init
<1>2. IInv /\ Picture(view) /\ Quiet /\ [Next]_vars => Quiet'
  <2> SUFFICES ASSUME IInv, Picture(view), Quiet, [Next]_vars, at' = "select"
               PROVE  ~view'.needsFrame
    OBVIOUS
  <2>1. CASE at = "select" /\ view' = view
    BY <2>1
  <2>2. CASE LoopPaints /\ ~view.needsFrame
    BY <2>2 DEF LoopPaints
  <2>3. CASE LoopPaints /\ view.needsFrame
    <3>1. PICK b \in Maybe("before"), ok \in FlushResults,
               e \in Maybe("error"), a \in Maybe("after") : view' = Frame(view, b, ok, e, a)
      BY <2>3 DEF LoopPaints, Frames
    <3>2. b \in BOOLEAN /\ ok = TRUE /\ e \in BOOLEAN /\ a = FALSE
      BY RunLoopAssumption DEF RunLoopAssumption, Maybe
    <3> QED
      BY <3>1, <3>2, FramePicture DEF IInv, TypeOK
  <2> QED
    BY <2>1, <2>2, <2>3, NextViewStep
<1>3. Picture(view) /\ Quiet => NoStaleScreen
  BY DEF Picture, NoStaleScreen
<1> QED
  BY <1>1, <1>2, <1>3, IInvInductive, PictureInvariant, PTL DEF Spec

-----------------------------------------------------------------------------
(* What is posted, and where it waits.                                     *)

\* One of the jobs js is among S.
Some(js, S) == \E i \in 1 .. Len(js) : js[i] \in S

\* Jobs are added at the end of a queue and taken from its head.
LEMMA SomeProperties ==
  ASSUME NEW js \in Seq(Jobs), NEW S
  PROVE  /\ ~Some(<<>>, S)
         /\ \A j \in Jobs : Some(Append(js, j), S) <=> Some(js, S) \/ j \in S
         /\ js # <<>> => (Some(js, S) <=> Head(js) \in S \/ Some(Tail(js), S))
<1>1. Len(js) \in Nat
  BY LenProperties
<1>2. ~Some(<<>>, S)
  BY LenProperties, EmptySeq DEF Some
<1>3. ASSUME NEW j \in Jobs PROVE Some(Append(js, j), S) <=> Some(js, S) \/ j \in S
  <2> DEFINE r == Append(js, j)
  <2>1. /\ Len(r) = Len(js) + 1
        /\ \A i \in 1 .. Len(js) : r[i] = js[i]
        /\ r[Len(js) + 1] = j
    BY AppendProperties
  <2> HIDE DEF r
  <2>2. \A i \in 1 .. Len(r) : i \in 1 .. Len(js) \/ i = Len(js) + 1
    BY <1>1, <2>1
  <2>3. Len(js) + 1 \in 1 .. Len(r) /\ \A i \in 1 .. Len(js) : i \in 1 .. Len(r)
    BY <1>1, <2>1
  <2>4. Some(r, S) <=> Some(js, S) \/ j \in S
    BY <2>1, <2>2, <2>3 DEF Some
  <2> QED
    BY <2>4 DEF r
<1>4. ASSUME js # <<>> PROVE Some(js, S) <=> Head(js) \in S \/ Some(Tail(js), S)
  <2> DEFINE t == Tail(js)
  <2>1. /\ Head(js) = js[1] /\ Len(t) = Len(js) - 1 /\ \A i \in 1 .. Len(t) : t[i] = js[i+1]
        /\ Len(js) # 0
    BY <1>4, HeadTailProperties, EmptySeq
  <2> HIDE DEF t
  <2>2. \A i \in 1 .. Len(js) : i = 1 \/ (i - 1 \in 1 .. Len(t) /\ js[i] = t[i-1])
    BY <1>1, <2>1
  <2>3. 1 \in 1 .. Len(js) /\ \A i \in 1 .. Len(t) : i + 1 \in 1 .. Len(js)
    BY <1>1, <2>1
  <2>4. Some(js, S) <=> Head(js) \in S \/ Some(t, S)
    BY <2>1, <2>2, <2>3 DEF Some
  <2> QED
    BY <2>4 DEF t
<1> QED
  BY <1>2, <1>3, <1>4

\* Where things are in a stack that another activation was put on.
LEMMA EnterIndexes ==
  ASSUME NEW f \in {"drain", "handler", "hook", "paint", "child"},
         NEW jobs \in Seq(Jobs), NEW outer \in Seq(Activations)
  PROVE  LET e == Enter(f, jobs, outer)
         IN  /\ Len(outer) \in Nat /\ Len(e) = Len(outer) + 1
             /\ e[1].in = f /\ e[1].work = jobs
             /\ \A i \in 1 .. Len(outer) : e[i+1] = outer[i]
             /\ \A i \in 1 .. Len(e) : i = 1 \/ (i - 1 \in 1 .. Len(outer) /\ e[i] = outer[i-1])
<1>1. PICK e : e = Enter(f, jobs, outer)
  OBVIOUS
<1>2. /\ e \in Seq(Activations) /\ e # <<>> /\ Head(e).in = f /\ Head(e).work = jobs /\ Tail(e) = outer
  BY <1>1, EnterProperties
<1>3. /\ Head(e) = e[1] /\ Len(outer) = Len(e) - 1
      /\ \A i \in 1 .. Len(outer) : outer[i] = e[i+1]
  <2>1. /\ Head(e) = e[1] /\ Len(Tail(e)) = Len(e) - 1
        /\ \A i \in 1 .. Len(Tail(e)) : Tail(e)[i] = e[i+1]
    BY <1>2, HeadTailProperties
  <2> QED
    BY <1>2, <2>1
<1>4. Len(outer) \in Nat /\ Len(e) \in Nat
  BY <1>2, LenProperties
<1>5. \A i \in 1 .. Len(e) : i = 1 \/ (i - 1 \in 1 .. Len(outer) /\ e[i] = outer[i-1])
  BY <1>3, <1>4
<1>6. Len(e) = Len(outer) + 1
  BY <1>3, <1>4
<1> QED
  BY <1>1, <1>2, <1>3, <1>4, <1>5, <1>6

\* ... and in one that is its head on its tail.
LEMMA HeadOnTail ==
  ASSUME NEW s \in Seq(Activations), s # <<>>
  PROVE  /\ Head(s) \in Activations /\ Head(s).work \in Seq(Jobs) /\ Tail(s) \in Seq(Activations)
         /\ s = Enter(Head(s).in, Head(s).work, Tail(s))
<1>1. Head(s) \in Activations /\ Tail(s) \in Seq(Activations) /\ Head(s) = s[1]
      /\ Len(Tail(s)) = Len(s) - 1 /\ \A i \in 1 .. Len(Tail(s)) : Tail(s)[i] = s[i+1]
  BY HeadTailProperties
<1>2. PICK f, w, t : f = Head(s).in /\ w = Head(s).work /\ t = Tail(s)
  OBVIOUS
<1>3. f \in {"drain", "handler", "hook", "paint", "child"} /\ w \in Seq(Jobs) /\ t \in Seq(Activations)
      /\ Head(s) = [in |-> f, work |-> w]
  BY <1>1, <1>2 DEF Activations
<1>4. PICK e : e = Enter(f, w, t)
  OBVIOUS
<1>5. /\ e \in Seq(Activations) /\ Head(e) = Head(s) /\ e # <<>> /\ Tail(e) = t
  BY <1>3, <1>4, EnterProperties
<1>6. Head(e) = e[1] /\ Len(t) = Len(e) - 1 /\ \A i \in 1 .. Len(t) : t[i] = e[i+1]
  BY <1>5, HeadTailProperties
<1>7. Len(s) \in Nat /\ Len(e) \in Nat /\ Len(t) \in Nat
  BY <1>3, <1>5, LenProperties
<1>8. Len(e) = Len(s) /\ \A i \in 1 .. Len(s) : i = 1 \/ i - 1 \in 1 .. Len(t)
  BY <1>1, <1>2, <1>6, <1>7
<1>9. ASSUME NEW i \in 1 .. Len(s) PROVE e[i] = s[i]
  <2>1. CASE i = 1
    BY <2>1, <1>1, <1>5, <1>6
  <2>2. CASE i - 1 \in 1 .. Len(t)
    <3>1. t[i-1] = e[i-1+1] /\ t[i-1] = s[i-1+1]
      BY <2>2, <1>1, <1>2, <1>6
    <3>2. i - 1 + 1 = i
      BY <1>9
    <3> QED
      BY <3>1, <3>2
  <2> QED
    BY <2>1, <2>2, <1>8
<1>10. e = s
  BY <1>5, <1>8, <1>9, SeqEqual
<1> QED
  BY <1>1, <1>2, <1>3, <1>4, <1>10

\* What a closure or a handler, or the end of an activation, does to the stack.
Onto(outer) == \/ stack' = outer /\ hook' = hook
               \/ stack' = Enter("child", <<>>, outer) /\ hook' = hook
               \/ stack' = Enter("hook", <<>>, outer) /\ exitSig' /\ hook' = "running"

\* A step of others, or one of the loop's that enters nothing.
Stays == /\ stack' = stack
         /\ hook' = hook \/ (hook = "running" /\ hook' = "returned")
         /\ \/ queue' = queue
            \/ \E kind \in PostKinds : PostJob(kind, "any")
            \/ hook = "running" /\ PostJob("set", "hook")
            \/ signals # <<>> /\ PostJob(Head(signals).kind, Head(signals).from)

\* Each step of the run loop does one of five things to the stack and the queue.
StackSteps ==
  \/ Stays
  \/ RunJob /\ Inside("drain") /\ Head(stack).work # <<>> /\ queue' = queue /\ Onto(Rest)
  \/ /\ stack # <<>> /\ Head(stack).in # "hook" /\ (Head(stack).in = "drain" => Head(stack).work = <<>>)
     /\ queue' = queue /\ Onto(Tail(stack))
  \/ /\ at = "select" /\ stack = <<>> /\ hook' = hook
     /\ \/ stack' = Enter("drain", queue, <<>>) /\ queue' = <<>>
        \/ stack' = Enter("handler", <<>>, <<>>) /\ queue' = queue
  \/ /\ Inside("hook") /\ hook' = "none" /\ queue' = <<>>
     /\ stack' = Enter("drain", queue, Enter("paint", <<>>, Tail(stack)))

\* What a closure or handler does goes onto its outer.
LEMMA DoesOnto ==
  ASSUME NEW outer, Does(outer), Untouched
  PROVE  queue' = queue /\ Onto(outer) /\ (exitSig => exitSig')
BY DEF Does, DoQuit, DoSuspend, DoSet, DoNothing, DoReload, DoExit, DoResize, DoStop, Onto, Untouched

\* Every step of the run loop is one of those, and exitSig is never taken back.
LEMMA NextStackStep ==
  ASSUME IInv, [Next]_vars
  PROVE  StackSteps /\ (exitSig => exitSig')
<1>1. ASSUME RunJob PROVE StackSteps /\ (exitSig => exitSig')
  <2>1. Job \in Jobs /\ Inside("drain") /\ Head(stack).work # <<>>
    BY <1>1, Taken DEF RunJob, IInv
  <2>2. Does(Rest) /\ Untouched
    BY <1>1, <2>1 DEF RunJob, Does, DoSignal, Jobs, Kinds, Untouched
  <2> QED
    BY <1>1, <2>1, <2>2, DoesOnto DEF StackSteps
<1>2. ASSUME NEW kind \in EventKinds, Handle(kind) PROVE StackSteps /\ (exitSig => exitSig')
  <2>1. Does(Tail(stack)) /\ Untouched
    BY <1>2, RunLoopAssumption DEF RunLoopAssumption, Handle, Does, Untouched
  <2>2. stack # <<>> /\ Head(stack).in = "handler"
    BY <1>2 DEF Handle, Inside
  <2> QED
    BY <2>1, <2>2, DoesOnto DEF StackSteps
<1>3. ASSUME DrainReturns \/ ChildReturns \/ ExitPaints PROVE StackSteps /\ (exitSig => exitSig')
  <2>1. /\ stack # <<>> /\ Head(stack).in # "hook" /\ (Head(stack).in = "drain" => Head(stack).work = <<>>)
        /\ stack' = Tail(stack) /\ UNCHANGED <<queue, hook, exitSig>>
    BY <1>3 DEF DrainReturns, ChildReturns, ExitPaints, Inside
  <2> QED
    BY <2>1 DEF StackSteps, Onto
<1>4. ASSUME LoopEnds \/ SelectDecoderDone \/ LoopPaints \/ SelectStop
      PROVE  StackSteps /\ (exitSig => exitSig')
  <2>1. UNCHANGED <<stack, hook, queue, exitSig>>
    BY <1>4 DEF LoopEnds, SelectDecoderDone, LoopPaints, SelectStop, AtTop, Return, IInv, Positions
  <2> QED
    BY <2>1 DEF StackSteps, Stays
<1>5. ASSUME SelectWake \/ SelectEvent PROVE StackSteps /\ (exitSig => exitSig')
  <2>1. at = "select" /\ stack = <<>> /\ hook' = hook /\ exitSig' = exitSig
    BY <1>5 DEF SelectWake, SelectEvent, IInv, Positions
  <2> QED
    BY <1>5, <2>1 DEF SelectWake, SelectEvent, StackSteps
<1>6. ASSUME HookDone \/ HookTimesOut PROVE StackSteps /\ (exitSig => exitSig')
  BY <1>6 DEF HookDone, HookTimesOut, ExitDrains, StackSteps
<1>7. ASSUME Environment PROVE StackSteps /\ (exitSig => exitSig')
  <2>1. Stays /\ exitSig' = exitSig
    BY <1>7 DEF Environment, Stays, Post, QuitElsewhere, CancelContext, Raise, ForwardSignal,
                DecodeEvent, DecoderDies, HookPosts, HookReturns
  <2> QED
    BY <2>1 DEF StackSteps
<1>8. ASSUME UNCHANGED vars PROVE StackSteps /\ (exitSig => exitSig')
  BY <1>8 DEF vars, StackSteps, Stays
<1> QED
  BY <1>1, <1>2, <1>3, <1>4, <1>5, <1>6, <1>7, <1>8 DEF Next, UIStep, Returned

-----------------------------------------------------------------------------
(* How a run ends.                                                         *)

\* No shutdown is under way in s.
NoShutdown(s) == \A i \in 1 .. Len(s) : s[i].in \notin {"hook", "paint"}

\* A shutdown is under way only once a signal asked for it.
Signed == exitSig \/ NoShutdown(stack)

Ends == /\ quit => asked \/ exitSig
        /\ cancelled => asked
        /\ at = "done" /\ result = "nil" => asked

\* Entering a Drain, a handler or a child enters no shutdown.
LEMMA EnterShutdown ==
  ASSUME NEW f \in {"drain", "handler", "child"}, NEW jobs \in Seq(Jobs),
         NEW outer \in Seq(Activations), NoShutdown(outer)
  PROVE  NoShutdown(Enter(f, jobs, outer))
<1> DEFINE a == [in |-> f, work |-> jobs]
           e == <<a>> \o outer
<1>1. a \in Activations
  BY DEF Activations
<1>2. <<a>> \in Seq(Activations) /\ Len(<<a>>) = 1 /\ <<a>>[1] = a
  BY <1>1
<1>3. /\ Len(e) = 1 + Len(outer)
      /\ \A i \in 1 .. Len(e) : e[i] = IF i <= 1 THEN a ELSE outer[i - 1]
  BY <1>2, ConcatProperties
<1>4. Len(outer) \in Nat
  BY LenProperties
<1>5. NoShutdown(e)
  BY <1>3, <1>4 DEF NoShutdown
<1> QED
  BY <1>5 DEF Enter

\* Leaving an activation enters no shutdown either.
LEMMA TailShutdown ==
  ASSUME NEW s \in Seq(Activations), s # <<>>, NoShutdown(s)
  PROVE  Head(s).in \notin {"hook", "paint"} /\ NoShutdown(Tail(s))
<1>1. /\ Head(s) = s[1]
      /\ Tail(s) \in Seq(Activations)
      /\ Len(Tail(s)) = Len(s) - 1
      /\ \A i \in 1 .. Len(Tail(s)) : Tail(s)[i] = s[i+1]
  BY HeadTailProperties
<1>2. Len(s) \in Nat /\ Len(s) # 0
  BY LenProperties, EmptySeq
<1> QED
  BY <1>1, <1>2 DEF NoShutdown

\* Going on from outer begins no shutdown without a signal.
LEMMA OntoSigned ==
  ASSUME NEW outer \in Seq(Activations), exitSig \/ NoShutdown(outer), Onto(outer), exitSig => exitSig'
  PROVE  Signed'
<1>1. NoShutdown(outer) => NoShutdown(Enter("child", <<>>, outer))
  BY EnterShutdown, NoJobs
<1> QED
  BY <1>1 DEF Onto, Signed

\* Every step keeps it so.
LEMMA SignedKept ==
  ASSUME IInv, Signed, [Next]_vars
  PROVE  Signed'
<1>1. StackSteps /\ (exitSig => exitSig')
  BY NextStackStep
<1>2. stack # <<>> => /\ Tail(stack) \in Seq(Activations) /\ Head(stack).work \in Seq(Jobs)
                      /\ exitSig \/ NoShutdown(Tail(stack))
                      /\ Head(stack).in \in {"hook", "paint"} => exitSig
  BY Popped, TailShutdown DEF Signed, IInv, TypeOK
<1>3. CASE Stays
  BY <1>1, <1>3 DEF Stays, Signed
<1>4. CASE Inside("drain") /\ Head(stack).work # <<>> /\ Onto(Rest)
  <2>1. Tail(Head(stack).work) \in Seq(Jobs) /\ Rest \in Seq(Activations)
    BY <1>2, <1>4, HeadTailProperties, Taken DEF Inside, IInv
  <2>2. exitSig \/ NoShutdown(Rest)
    BY <2>1, <1>2, <1>4, EnterShutdown DEF Inside, Rest
  <2> QED
    BY <2>1, <2>2, <1>1, <1>4, OntoSigned
<1>5. CASE stack # <<>> /\ Onto(Tail(stack))
  BY <1>1, <1>2, <1>5, OntoSigned
<1>6. CASE stack' = Enter("drain", queue, <<>>) \/ stack' = Enter("handler", <<>>, <<>>)
  <2>1. <<>> \in Seq(Activations) /\ NoShutdown(<<>>) /\ queue \in Seq(Jobs)
    BY EmptySeq DEF NoShutdown, IInv, TypeOK
  <2> QED
    BY <2>1, <1>6, EnterShutdown, NoJobs DEF Signed
<1>7. CASE Inside("hook")
  BY <1>1, <1>2, <1>7 DEF Inside, Signed
<1> QED
  BY <1>1, <1>3, <1>4, <1>5, <1>6, <1>7 DEF StackSteps

\* A run that is ending by a signal says so from its first step to its last.
LEMMA SignedInvariant == Spec => []Signed
<1>1. Init => Signed
  BY DEF Init, Signed, NoShutdown
<1> QED
  BY <1>1, SignedKept, IInvInductive, PTL DEF Spec

\* What a closure or handler does to the ends of the run, where re-opening the
\* terminal does not fail.
LEMMA DoesKeepsEnds ==
  ASSUME FALSE \notin Reacquires, Ends, at = "top", NEW outer, Does(outer), Untouched
  PROVE  Ends'
<1> USE DEF Ends, Untouched
<1>1. exitSig => exitSig'
  BY DoesOnto
<1>2. /\ asked => asked'
      /\ quit' => quit \/ asked' \/ exitSig'
  <2>1. CASE DoStop(outer) /\ ~DoNothing(outer)
    <3>1. PICK ok \in Reacquires : quit' = (quit \/ ~ok)
      BY <2>1 DEF DoStop
    <3>2. ok = TRUE
      BY <3>1, RunLoopAssumption DEF RunLoopAssumption
    <3>3. asked' = asked
      BY <2>1 DEF DoStop
    <3> QED
      BY <3>1, <3>2, <3>3
  <2>2. CASE ~DoStop(outer) \/ DoNothing(outer)
    BY <2>2 DEF Does, DoQuit, DoSuspend, DoSet, DoNothing, DoReload, DoExit, DoResize
  <2> QED
    BY <2>1, <2>2
<1> QED
  BY <1>1, <1>2

\* Where re-opening the terminal does not fail, a run that returns nil was
\* ended by its host: by Quit, a quit key or ctx (App.exitErr).
THEOREM NilWasAskedFor ==
  ASSUME FALSE \notin Reacquires
  PROVE  Spec => []NilMeansAsked
<1>1. Init => Ends
  BY DEF Init, Ends
<1>2. IInv /\ Signed /\ Ends /\ [Next]_vars => Ends'
  <2> SUFFICES ASSUME IInv, Signed, Ends, [Next]_vars
               PROVE  Ends'
    OBVIOUS
  <2>1. ASSUME RunJob
        PROVE  Ends'
    <3>1. Job \in Jobs
      BY <2>1, Taken DEF RunJob, IInv
    <3>2. Does(Rest) /\ Untouched
      BY <2>1, <3>1 DEF RunJob, Does, DoSignal, Jobs, Kinds, Untouched
    <3> QED
      BY <2>1, <3>2, InsideOf, DoesKeepsEnds DEF RunJob, Inside
  <2>2. ASSUME NEW kind \in EventKinds, Handle(kind)
        PROVE  Ends'
    <3>1. Does(Tail(stack)) /\ Untouched
      BY <2>2, RunLoopAssumption DEF RunLoopAssumption, Handle, Does, Untouched
    <3> QED
      BY <2>2, <3>1, InsideOf, DoesKeepsEnds DEF Handle, Inside
  <2>3. ASSUME LoopEnds \/ SelectDecoderDone
        PROVE  Ends'
    BY <2>3 DEF LoopEnds, SelectDecoderDone, Return, Ends
  <2>4. ASSUME SelectWake \/ SelectEvent \/ LoopPaints \/ SelectStop
        PROVE  Ends'
    BY <2>4 DEF SelectWake, SelectEvent, LoopPaints, SelectStop, Ends
  <2>5. ASSUME DrainReturns \/ ChildReturns \/ HookDone \/ HookTimesOut
        PROVE  Ends'
    <3>1. at' = "top" /\ UNCHANGED <<quit, cancelled, exitSig, asked>>
      BY <2>5, InsideOf DEF DrainReturns, ChildReturns, HookDone, HookTimesOut, ExitDrains, Inside
    <3> QED
      BY <3>1 DEF Ends
  <2>6. ASSUME ExitPaints
        PROVE  Ends'
    <3>1. exitSig
      BY <2>6, TailShutdown DEF ExitPaints, Inside, Signed, IInv, TypeOK
    <3>2. at' = "top" /\ UNCHANGED <<cancelled, exitSig, asked>>
      BY <2>6, InsideOf DEF ExitPaints, Inside
    <3> QED
      BY <3>1, <3>2 DEF Ends
  <2>7. ASSUME Environment
        PROVE  Ends'
    <3>1. UNCHANGED <<at, exitSig, result>>
      BY <2>7 DEF Environment, Post, QuitElsewhere, CancelContext, Raise, ForwardSignal,
                  DecodeEvent, DecoderDies, HookPosts, HookReturns
    <3>2. asked' \/ UNCHANGED <<quit, cancelled, asked>>
      BY <2>7 DEF Environment, Post, QuitElsewhere, CancelContext, Raise, ForwardSignal,
                  DecodeEvent, DecoderDies, HookPosts, HookReturns
    <3> QED
      BY <3>1, <3>2 DEF Ends
  <2>8. ASSUME UNCHANGED vars
        PROVE  Ends'
    BY <2>8 DEF vars, Ends
  <2> QED
    BY <2>1, <2>2, <2>3, <2>4, <2>5, <2>6, <2>7, <2>8 DEF Next, UIStep, Returned
<1>3. Ends => NilMeansAsked
  BY DEF Ends, NilMeansAsked
<1> QED
  BY <1>1, <1>2, <1>3, IInvInductive, SignedInvariant, PTL DEF Spec

-----------------------------------------------------------------------------
(* The hook's farewell.                                                    *)

FromHook == {j \in Jobs : j.from = "hook"}

Paints(s) == \E b \in 1 .. Len(s) : s[b].in = "paint"

\* A Drain that has a closure of the hook's is one whose gracefulExit will paint.
Covered(s) == \A a \in 1 .. Len(s) :
                Some(s[a].work, FromHook) => \E b \in a+1 .. Len(s) : s[b].in = "paint"

\* What the signal channel holds was raised, not Posted.
Raised == \A i \in 1 .. Len(signals) : signals[i].kind \in SignalKinds /\ signals[i].from # "hook"

\* The hook runs only while it is waited for, and only then is the queue its too.
Waited == /\ hook # "none" => Inside("hook")
          /\ Some(queue, FromHook) => Inside("hook")
          /\ Covered(stack)

\* What is put on a stack is covered by what is below.
LEMMA EnterCovered ==
  ASSUME NEW f \in {"drain", "handler", "hook", "paint", "child"},
         NEW jobs \in Seq(Jobs), NEW outer \in Seq(Activations),
         Covered(outer), Some(jobs, FromHook) => Paints(outer)
  PROVE  /\ Covered(Enter(f, jobs, outer))
         /\ f = "paint" => Paints(Enter(f, jobs, outer))
<1>1. PICK e : e = Enter(f, jobs, outer)
  OBVIOUS
<1>2. /\ Len(outer) \in Nat /\ Len(e) = Len(outer) + 1
      /\ e[1].in = f /\ e[1].work = jobs
      /\ \A i \in 1 .. Len(outer) : e[i+1] = outer[i]
      /\ \A i \in 1 .. Len(e) : i = 1 \/ (i - 1 \in 1 .. Len(outer) /\ e[i] = outer[i-1])
  BY <1>1, EnterIndexes
<1>3. ASSUME NEW a \in 1 .. Len(e), Some(e[a].work, FromHook)
      PROVE  \E b \in a+1 .. Len(e) : e[b].in = "paint"
  <2>1. CASE a = 1
    <3>1. PICK b \in 1 .. Len(outer) : outer[b].in = "paint"
      BY <2>1, <1>2, <1>3 DEF Paints
    <3>2. b + 1 \in a+1 .. Len(e) /\ e[b+1].in = "paint"
      BY <2>1, <3>1, <1>2
    <3> QED
      BY <3>2
  <2>2. CASE a # 1
    <3>1. a - 1 \in 1 .. Len(outer) /\ Some(outer[a-1].work, FromHook)
      BY <2>2, <1>2, <1>3
    <3>2. PICK b \in a .. Len(outer) : outer[b].in = "paint"
      BY <3>1 DEF Covered
    <3>3. b + 1 \in a+1 .. Len(e) /\ b \in 1 .. Len(outer)
      BY <3>2, <1>2
    <3>4. e[b+1].in = "paint"
      BY <3>2, <3>3, <1>2
    <3> QED
      BY <3>3, <3>4
  <2> QED
    BY <2>1, <2>2
<1>4. 1 \in 1 .. Len(e)
  BY <1>2
<1>5. Covered(e) /\ (f = "paint" => Paints(e))
  BY <1>2, <1>3, <1>4 DEF Covered, Paints
<1> QED
  BY <1>1, <1>5

\* What is left of a covered stack is covered, and covers what is taken.
LEMMA TailCovered ==
  ASSUME NEW s \in Seq(Activations), s # <<>>, Covered(s)
  PROVE  Covered(Tail(s)) /\ (Some(Head(s).work, FromHook) => Paints(Tail(s)))
<1>1. PICK t : t = Tail(s)
  OBVIOUS
<1>2. Head(s) = s[1] /\ Len(t) = Len(s) - 1 /\ \A i \in 1 .. Len(t) : t[i] = s[i+1]
  BY <1>1, HeadTailProperties
<1>3. Len(s) \in Nat /\ Len(s) # 0
  BY LenProperties, EmptySeq
<1>4. ASSUME NEW a \in 1 .. Len(t), Some(t[a].work, FromHook)
      PROVE  \E b \in a+1 .. Len(t) : t[b].in = "paint"
  <2>1. a + 1 \in 1 .. Len(s) /\ Some(s[a+1].work, FromHook)
    BY <1>2, <1>3, <1>4
  <2>2. PICK b \in a+1+1 .. Len(s) : s[b].in = "paint"
    BY <2>1 DEF Covered
  <2>3. b - 1 \in a+1 .. Len(t) /\ b - 1 \in 1 .. Len(t) /\ b - 1 + 1 = b
    BY <2>2, <1>2, <1>3
  <2>4. t[b-1].in = "paint"
    BY <2>2, <2>3, <1>2
  <2> QED
    BY <2>3, <2>4
<1>5. ASSUME Some(Head(s).work, FromHook) PROVE Paints(t)
  <2>1. 1 \in 1 .. Len(s) /\ Some(s[1].work, FromHook)
    BY <1>2, <1>3, <1>5
  <2>2. PICK b \in 2 .. Len(s) : s[b].in = "paint"
    BY <2>1 DEF Covered
  <2>3. b - 1 \in 1 .. Len(t) /\ b - 1 + 1 = b
    BY <2>2, <1>2, <1>3
  <2>4. t[b-1].in = "paint"
    BY <2>2, <2>3, <1>2
  <2> QED
    BY <2>3, <2>4 DEF Paints
<1> QED
  BY <1>1, <1>4, <1>5 DEF Covered

\* The signal channel is filled by Raise alone.
LEMMA RaisedKept ==
  ASSUME IInv, Raised, [Next]_vars
  PROVE  Raised'
<1>1. CASE signals' = signals
  BY <1>1 DEF Raised
<1>2. CASE signals' = <<>>
  BY <1>2, LenProperties, EmptySeq DEF Raised
<1>3. CASE ForwardSignal
  <2>1. signals # <<>> /\ signals' = Tail(signals) /\ signals \in Seq(Jobs)
    BY <1>3 DEF ForwardSignal, IInv, TypeOK
  <2>2. /\ Len(signals') = Len(signals) - 1 /\ Len(signals) \in Nat
        /\ \A i \in 1 .. Len(signals') : signals'[i] = signals[i+1]
    BY <2>1, HeadTailProperties, LenProperties
  <2>3. \A i \in 1 .. Len(signals') : i + 1 \in 1 .. Len(signals)
    BY <2>2
  <2> QED
    BY <2>2, <2>3 DEF Raised
<1>4. ASSUME NEW sig \in SignalKinds, Raise(sig), signals' # signals
      PROVE  Raised'
  <2>1. PICK job : job = [kind |-> sig, from |-> IF suspended THEN "child" ELSE "any"]
    OBVIOUS
  <2>2. job \in Jobs /\ job.kind = sig /\ job.from # "hook"
    BY <2>1, RunLoopAssumption DEF RunLoopAssumption, Kinds, Jobs
  <2>3. signals' = Append(signals, job) /\ signals \in Seq(Jobs)
    BY <1>4, <2>1 DEF Raise, IInv, TypeOK
  <2>4. /\ Len(signals') = Len(signals) + 1 /\ Len(signals) \in Nat
        /\ \A i \in 1 .. Len(signals) : signals'[i] = signals[i]
        /\ signals'[Len(signals) + 1] = job
    BY <2>2, <2>3, AppendProperties, LenProperties
  <2>5. \A i \in 1 .. Len(signals') : i \in 1 .. Len(signals) \/ i = Len(signals) + 1
    BY <2>4
  <2> QED
    BY <2>2, <2>4, <2>5 DEF Raised
<1>5. \/ signals' = signals \/ signals' = <<>> \/ ForwardSignal
      \/ \E sig \in SignalKinds : Raise(sig)
  BY DEF Next, UIStep, Environment, Returned, vars, LoopEnds, LoopPaints, SelectStop, SelectWake,
         SelectEvent, SelectDecoderDone, Return, RunJob, DrainReturns, Handle, ChildReturns,
         HookDone, HookTimesOut, ExitDrains, ExitPaints, Post, QuitElsewhere, CancelContext,
         DecodeEvent, DecoderDies, HookPosts, HookReturns
<1> QED
  BY <1>1, <1>2, <1>3, <1>4, <1>5

\* Going on from a covered outer.
LEMMA OntoCovered ==
  ASSUME NEW outer \in Seq(Activations), Covered(outer), Onto(outer), hook = "none",
         queue' = queue, ~Some(queue, FromHook)
  PROVE  Waited'
<1>1. ~Some(<<>>, FromHook)
  BY NoJobs, SomeProperties
<1>2. ASSUME NEW f \in {"child", "hook"}
      PROVE  Covered(Enter(f, <<>>, outer))
  <2>1. f \in {"drain", "handler", "hook", "paint", "child"}
    OBVIOUS
  <2> QED
    BY <1>1, <2>1, NoJobs, EnterCovered
<1>3. Enter("hook", <<>>, outer) # <<>> /\ Head(Enter("hook", <<>>, outer)).in = "hook"
  <2>1. PICK e : e = Enter("hook", <<>>, outer)
    OBVIOUS
  <2>2. e # <<>> /\ Head(e) = [in |-> "hook", work |-> <<>>]
    BY <2>1, NoJobs, EnterProperties
  <2> QED
    BY <2>1, <2>2
<1>4. CASE stack' = outer /\ hook' = hook
  BY <1>4 DEF Waited
<1>5. CASE stack' = Enter("child", <<>>, outer) /\ hook' = hook
  BY <1>5, <1>2 DEF Waited
<1>6. CASE stack' = Enter("hook", <<>>, outer)
  BY <1>6, <1>2, <1>3 DEF Waited, Inside
<1> QED
  BY <1>4, <1>5, <1>6 DEF Onto

\* Every step keeps the hook waited for, and its closures covered.
LEMMA WaitedKept ==
  ASSUME IInv, Raised, Waited, [Next]_vars
  PROVE  Waited'
<1>1. StackSteps
  BY NextStackStep
<1>2. stack \in Seq(Activations) /\ queue \in Seq(Jobs) /\ <<>> \in Seq(Jobs) /\ ~Some(<<>>, FromHook)
  BY NoJobs, SomeProperties DEF IInv, TypeOK
<1>3. ~Inside("hook") => hook = "none" /\ ~Some(queue, FromHook)
  BY DEF Waited
<1>4. stack # <<>> => /\ Tail(stack) \in Seq(Activations) /\ Head(stack).work \in Seq(Jobs)
                      /\ Covered(Tail(stack))
                      /\ (Some(Head(stack).work, FromHook) => Paints(Tail(stack)))
  BY Popped, <1>2, TailCovered DEF Waited, IInv
<1>5. CASE Stays
  <2>1. Some(queue', FromHook) => Some(queue, FromHook) \/ hook = "running"
    <3>1. ASSUME NEW kind, NEW from, PostJob(kind, from), kind \in Kinds,
                 from \in {"any", "child", "hook"}, from = "hook" => hook = "running"
          PROVE  Some(queue', FromHook) => Some(queue, FromHook) \/ hook = "running"
      <4>1. PICK j : j = [kind |-> kind, from |-> from]
        OBVIOUS
      <4>2. j \in Jobs /\ j.from = from /\ queue' = Append(queue, j)
        BY <3>1, <4>1 DEF Jobs, PostJob
      <4>3. Some(queue', FromHook) <=> Some(queue, FromHook) \/ j \in FromHook
        BY <4>2, <1>2, SomeProperties
      <4> QED
        BY <4>2, <4>3, <3>1 DEF FromHook
    <3>2. CASE \E kind \in PostKinds : PostJob(kind, "any")
      BY <3>1, <3>2, RunLoopAssumption DEF RunLoopAssumption, Kinds
    <3>3. CASE hook = "running" /\ PostJob("set", "hook")
      BY <3>1, <3>3 DEF Kinds
    <3>4. CASE signals # <<>> /\ PostJob(Head(signals).kind, Head(signals).from)
      <4>1. signals \in Seq(Jobs)
        BY DEF IInv, TypeOK
      <4>2. Head(signals) = signals[1] /\ Len(signals) \in Nat /\ Len(signals) # 0 /\ Head(signals) \in Jobs
        BY <3>4, <4>1, HeadTailProperties, LenProperties, EmptySeq
      <4>3. Head(signals).from # "hook"
        BY <4>2 DEF Raised
      <4> QED
        BY <3>1, <3>4, <4>2, <4>3 DEF Jobs
    <3> QED
      BY <1>5, <3>2, <3>3, <3>4 DEF Stays
  <2>2. stack' = stack /\ (hook' # "none" => hook # "none")
    BY <1>5 DEF Stays
  <2> QED
    BY <2>1, <2>2 DEF Waited, Inside
<1>6. CASE Inside("drain") /\ Head(stack).work # <<>> /\ queue' = queue /\ Onto(Rest)
  <2>1. Tail(Head(stack).work) \in Seq(Jobs) /\ Rest \in Seq(Activations)
    BY <1>4, <1>6, HeadTailProperties, Taken DEF Inside, IInv
  <2>2. Some(Tail(Head(stack).work), FromHook) => Some(Head(stack).work, FromHook)
    BY <1>4, <1>6, SomeProperties DEF Inside
  <2>3. Covered(Rest)
    BY <2>1, <2>2, <1>4, <1>6, EnterCovered DEF Inside, Rest
  <2>4. ~Inside("hook")
    BY <1>6 DEF Inside
  <2> QED
    BY <2>1, <2>3, <2>4, <1>3, <1>6, OntoCovered
<1>7. CASE stack # <<>> /\ Head(stack).in # "hook" /\ queue' = queue /\ Onto(Tail(stack))
  <2>1. ~Inside("hook")
    BY <1>7 DEF Inside
  <2> QED
    BY <2>1, <1>3, <1>4, <1>7, OntoCovered
<1>8. CASE /\ stack = <<>> /\ hook' = hook
           /\ \/ stack' = Enter("drain", queue, <<>>) /\ queue' = <<>>
              \/ stack' = Enter("handler", <<>>, <<>>) /\ queue' = queue
  <2>1. hook = "none" /\ ~Some(queue, FromHook)
    BY <1>3, <1>8 DEF Inside
  <2>2. <<>> \in Seq(Activations) /\ Covered(<<>>)
    BY EmptySeq, LenProperties DEF Covered
  <2>3. Covered(stack')
    BY <2>1, <2>2, <1>2, <1>8, EnterCovered
  <2>4. ~Some(queue', FromHook) /\ hook' = "none"
    BY <2>1, <1>2, <1>8
  <2> QED
    BY <2>3, <2>4 DEF Waited
<1>9. CASE /\ Inside("hook") /\ hook' = "none" /\ queue' = <<>>
           /\ stack' = Enter("drain", queue, Enter("paint", <<>>, Tail(stack)))
  <2>1. PICK o : o = Enter("paint", <<>>, Tail(stack))
    OBVIOUS
  <2>2. o \in Seq(Activations) /\ Covered(o) /\ Paints(o)
    BY <2>1, <1>2, <1>4, <1>9, EnterCovered, EnterProperties DEF Inside
  <2>3. Covered(Enter("drain", queue, o))
    BY <2>2, <1>2, EnterCovered
  <2> QED
    BY <2>1, <2>3, <1>2, <1>9 DEF Waited
<1> QED
  BY <1>1, <1>5, <1>6, <1>7, <1>8, <1>9 DEF StackSteps

\* In every reachable state.
LEMMA WaitedInvariant == Spec => [](Raised /\ Waited)
<1>1. Init => Raised /\ Waited
  <2>1. Len(<<>>) = 0
    BY EmptySeq, LenProperties
  <2> QED
    BY <2>1 DEF Init, Raised, Waited, Covered, Some
<1>2. IInv /\ Raised /\ Waited /\ [Next]_vars => Raised' /\ Waited'
  BY RaisedKept, WaitedKept
<1> QED
  BY <1>1, <1>2, IInvInductive, PTL DEF Spec

\* A frame of which no error is reported and after which nothing is Set shows
\* the value, where there was a request; where there was none it was shown.
LEMMA ExitShows ==
  ASSUME FALSE \notin FlushResults, "after" \notin HostSets, IInv, Picture(view), ExitPaints, view'.screen
  PROVE  view'.tty = view'.val
<1>1. CASE ~view.needsFrame
  <2>1. view' = view
    BY <1>1 DEF ExitPaints
  <2> QED
    BY <2>1, <1>1 DEF Picture
<1>2. CASE view.needsFrame
  <2>1. PICK b \in Maybe("before"), ok \in FlushResults,
             e \in Maybe("error"), a \in Maybe("after") : view' = Frame(view, b, ok, e, a)
    BY <1>2 DEF ExitPaints, Frames
  <2>2. b \in BOOLEAN /\ ok = TRUE /\ e \in BOOLEAN /\ a = FALSE
    BY RunLoopAssumption DEF RunLoopAssumption, Maybe
  <2>3. Picture(view') /\ ~view'.needsFrame
    BY <2>1, <2>2, FramePicture DEF IInv, TypeOK
  <2> QED
    BY <2>3 DEF Picture
<1> QED
  BY <1>1, <1>2

\* A farewell is seen: when gracefulExit quits, no Post the hook made while it
\* was waited for is left, but in a Drain whose own gracefulExit has yet to
\* paint, and a held terminal shows what is Set (app.go:547-556).  Where writes
\* do not fail and no AfterFrame hook Sets; however signals and closures nest.
THEOREM FarewellIsShown ==
  ASSUME FALSE \notin FlushResults, "after" \notin HostSets
  PROVE  Spec => FarewellShown
<1>1. ASSUME IInv, Picture(view), Waited, ExitPaints
      PROVE  /\ \A i \in DOMAIN queue : queue[i].from # "hook"
             /\ \A a \in DOMAIN stack :
                  (\E i \in DOMAIN stack[a].work : stack[a].work[i].from = "hook")
                    => \E b \in a+1 .. Len(stack) : stack[b].in = "paint"
             /\ view'.screen => view'.tty = view'.val
  <2>1. ~Inside("hook") /\ queue \in Seq(Jobs) /\ stack \in Seq(Activations)
    BY <1>1 DEF ExitPaints, Inside, IInv, TypeOK
  <2>2. ASSUME NEW js \in Seq(Jobs), NEW i \in DOMAIN js, js[i].from = "hook"
        PROVE  Some(js, FromHook)
    <3>1. i \in 1 .. Len(js) /\ js[i] \in Jobs
      BY <2>2, LenProperties
    <3> QED
      BY <3>1, <2>2 DEF Some, FromHook
  <2>3. \A i \in DOMAIN queue : queue[i].from # "hook"
    BY <2>1, <2>2, <1>1 DEF Waited
  <2>4. ASSUME NEW a \in DOMAIN stack, NEW i \in DOMAIN stack[a].work, stack[a].work[i].from = "hook"
        PROVE  \E b \in a+1 .. Len(stack) : stack[b].in = "paint"
    <3>1. a \in 1 .. Len(stack) /\ stack[a] \in Activations
      BY <2>1, LenProperties
    <3>2. stack[a].work \in Seq(Jobs)
      BY <3>1 DEF Activations
    <3>3. Some(stack[a].work, FromHook)
      BY <3>2, <2>2, <2>4
    <3> QED
      BY <3>1, <3>3, <1>1 DEF Waited, Covered
  <2> QED
    BY <2>3, <2>4, <1>1, ExitShows
<1> QED
  BY <1>1, IInvInductive, PictureInvariant, WaitedInvariant, PTL DEF FarewellShown

-----------------------------------------------------------------------------
(* Bridge.Do over the run loop: what an answered round means.              *)

\* In s only a Drain has closures to run.
Idle(s) == \A a \in 1 .. Len(s) : s[a].in # "drain" => s[a].work = <<>>

\* One of the closures that s has yet to run is among S.
Holds(s, S) == \E a \in 1 .. Len(s) : Some(s[a].work, S)

\* A job of S was posted and has not run.
Awaits(S) == Some(queue, S) \/ Holds(stack, S)

Of(kind) == {j \in Jobs : j.kind = kind}

\* A stack awaits what its top does and what is below does.
LEMMA EnterHolds ==
  ASSUME NEW f \in {"drain", "handler", "hook", "paint", "child"}, NEW S,
         NEW jobs \in Seq(Jobs), NEW outer \in Seq(Activations)
  PROVE  Holds(Enter(f, jobs, outer), S) <=> Some(jobs, S) \/ Holds(outer, S)
<1>1. PICK e : e = Enter(f, jobs, outer)
  OBVIOUS
<1>2. /\ Len(outer) \in Nat /\ Len(e) = Len(outer) + 1
      /\ e[1].work = jobs
      /\ \A i \in 1 .. Len(outer) : e[i+1] = outer[i]
      /\ \A i \in 1 .. Len(e) : i = 1 \/ (i - 1 \in 1 .. Len(outer) /\ e[i] = outer[i-1])
  BY <1>1, EnterIndexes
<1>3. 1 \in 1 .. Len(e) /\ \A i \in 1 .. Len(outer) : i + 1 \in 1 .. Len(e)
  BY <1>2
<1>4. Holds(e, S) <=> Some(jobs, S) \/ Holds(outer, S)
  BY <1>2, <1>3 DEF Holds
<1> QED
  BY <1>1, <1>4

\* ... and nothing is awaited of a stack that is empty.
LEMMA TopHolds ==
  ASSUME NEW s \in Seq(Activations), s # <<>>, NEW S
  PROVE  Holds(s, S) <=> Some(Head(s).work, S) \/ Holds(Tail(s), S)
<1>1. PICK f, w, t : f = Head(s).in /\ w = Head(s).work /\ t = Tail(s)
  OBVIOUS
<1>2. /\ f \in {"drain", "handler", "hook", "paint", "child"}
      /\ w \in Seq(Jobs) /\ t \in Seq(Activations) /\ s = Enter(f, w, t)
  BY <1>1, HeadOnTail DEF Activations
<1>3. Holds(Enter(f, w, t), S) <=> Some(w, S) \/ Holds(t, S)
  BY <1>2, EnterHolds
<1> QED
  BY <1>1, <1>2, <1>3

\* Entering a Drain, or what runs no closures, keeps it so.
LEMMA EnterIdle ==
  ASSUME NEW f \in {"drain", "handler", "hook", "paint", "child"},
         NEW jobs \in Seq(Jobs), NEW outer \in Seq(Activations), Idle(outer),
         f # "drain" => jobs = <<>>
  PROVE  Idle(Enter(f, jobs, outer))
<1>1. PICK e : e = Enter(f, jobs, outer)
  OBVIOUS
<1>2. /\ e[1].work = jobs /\ e[1].in = f
      /\ \A i \in 1 .. Len(e) : i = 1 \/ (i - 1 \in 1 .. Len(outer) /\ e[i] = outer[i-1])
  BY <1>1, EnterIndexes
<1>3. Idle(e)
  BY <1>2 DEF Idle
<1> QED
  BY <1>1, <1>3

\* ... and so does leaving either.
LEMMA TailIdle ==
  ASSUME NEW s \in Seq(Activations), s # <<>>, Idle(s)
  PROVE  Idle(Tail(s)) /\ (Head(s).in # "drain" => Head(s).work = <<>>)
<1>1. /\ Head(s) = s[1]
      /\ Tail(s) \in Seq(Activations)
      /\ Len(Tail(s)) = Len(s) - 1
      /\ \A i \in 1 .. Len(Tail(s)) : Tail(s)[i] = s[i+1]
  BY HeadTailProperties
<1>2. Len(s) \in Nat /\ Len(s) # 0
  BY LenProperties, EmptySeq
<1>3. PICK t : t = Tail(s)
  OBVIOUS
<1>4. 1 \in 1 .. Len(s) /\ \A i \in 1 .. Len(t) : i + 1 \in 1 .. Len(s)
  BY <1>1, <1>2, <1>3
<1>5. Idle(t)
  BY <1>1, <1>3, <1>4 DEF Idle
<1> QED
  BY <1>1, <1>3, <1>4, <1>5 DEF Idle

\* What goes on from outer awaits what outer does.
LEMMA OntoHolds ==
  ASSUME NEW outer \in Seq(Activations), Idle(outer), Onto(outer), NEW S
  PROVE  Idle(stack)' /\ (Holds(stack', S) <=> Holds(outer, S))
<1>1. ASSUME NEW f \in {"child", "hook"}
      PROVE  Idle(Enter(f, <<>>, outer)) /\ (Holds(Enter(f, <<>>, outer), S) <=> Holds(outer, S))
  <2>1. f \in {"drain", "handler", "hook", "paint", "child"} /\ ~Some(<<>>, S) /\ <<>> \in Seq(Jobs)
    BY NoJobs, SomeProperties
  <2> QED
    BY <2>1, EnterIdle, EnterHolds
<1> QED
  BY <1>1 DEF Onto

\* A step runs at most the next closure of a Drain, and what it posts is of one
\* of the kinds that are posted or raised, or the hook's.
LEMMA StepAwaits ==
  ASSUME IInv, Raised, Idle(stack), StackSteps, NEW S \in SUBSET Jobs,
         \A j \in S : j.kind \notin PostKinds \cup SignalKinds \cup {"set"}
  PROVE  /\ Idle(stack)'
         /\ Awaits(S)' => Awaits(S)
         /\ Awaits(S) /\ ~Awaits(S)' => RunJob /\ Job \in S
<1>1. /\ stack \in Seq(Activations) /\ queue \in Seq(Jobs) /\ signals \in Seq(Jobs)
      /\ <<>> \in Seq(Jobs) /\ <<>> \in Seq(Activations) /\ ~Some(<<>>, S)
      /\ Idle(<<>>) /\ ~Holds(<<>>, S)
  BY NoJobs, EmptySeq, LenProperties, SomeProperties DEF IInv, TypeOK, Idle, Holds
<1>2. stack # <<>> => /\ Tail(stack) \in Seq(Activations) /\ Head(stack).work \in Seq(Jobs)
                      /\ Idle(Tail(stack))
                      /\ Head(stack).in # "drain" => Head(stack).work = <<>>
                      /\ Holds(stack, S) <=> Some(Head(stack).work, S) \/ Holds(Tail(stack), S)
  BY <1>1, Popped, TailIdle, TopHolds DEF IInv
<1>3. CASE Stays
  <2>1. ASSUME NEW kind \in Kinds, NEW from \in {"any", "child", "hook"}, PostJob(kind, from),
               kind \in PostKinds \cup SignalKinds \cup {"set"}
        PROVE  Some(queue', S) <=> Some(queue, S)
    <3>1. PICK j : j = [kind |-> kind, from |-> from]
      OBVIOUS
    <3>2. j \in Jobs /\ j.kind = kind /\ queue' = Append(queue, j)
      BY <2>1, <3>1 DEF Jobs, PostJob
    <3>3. Some(Append(queue, j), S) <=> Some(queue, S) \/ j \in S
      BY <1>1, <3>2, SomeProperties
    <3> QED
      BY <3>2, <3>3, <2>1
  <2>2. ASSUME \E kind \in PostKinds : PostJob(kind, "any")
        PROVE  Some(queue', S) <=> Some(queue, S)
    BY <2>1, <2>2, RunLoopAssumption DEF RunLoopAssumption, Kinds
  <2>3. ASSUME PostJob("set", "hook")
        PROVE  Some(queue', S) <=> Some(queue, S)
    BY <2>1, <2>3 DEF Kinds
  <2>4. ASSUME signals # <<>> /\ PostJob(Head(signals).kind, Head(signals).from)
        PROVE  Some(queue', S) <=> Some(queue, S)
    <3>1. Head(signals) = signals[1] /\ Len(signals) \in Nat /\ Len(signals) # 0 /\ Head(signals) \in Jobs
      BY <2>4, <1>1, HeadTailProperties, LenProperties, EmptySeq
    <3>2. Head(signals).kind \in SignalKinds
      BY <3>1 DEF Raised
    <3> QED
      BY <2>1, <2>4, <3>1, <3>2 DEF Jobs
  <2>5. Some(queue', S) <=> Some(queue, S)
    BY <1>3, <2>2, <2>3, <2>4 DEF Stays
  <2> QED
    BY <2>5, <1>3 DEF Stays, Awaits
<1>4. CASE RunJob /\ Inside("drain") /\ Head(stack).work # <<>> /\ queue' = queue /\ Onto(Rest)
  <2>1. PICK w : w = Head(stack).work
    OBVIOUS
  <2>2. /\ w \in Seq(Jobs) /\ w # <<>> /\ Job = Head(w) /\ Tail(w) \in Seq(Jobs)
        /\ Rest \in Seq(Activations) /\ Rest = Enter("drain", Tail(w), Tail(stack))
    BY <2>1, <1>2, <1>4, HeadTailProperties, Taken DEF Inside, IInv, Job, Rest
  <2>3. PICK o : o = Rest
    OBVIOUS
  <2>4. Idle(o) /\ (Holds(o, S) <=> Some(Tail(w), S) \/ Holds(Tail(stack), S))
    BY <2>2, <2>3, <1>2, <1>4, EnterIdle, EnterHolds DEF Inside
  <2>5. Idle(stack)' /\ (Holds(stack', S) <=> Holds(o, S))
    BY <2>2, <2>3, <2>4, <1>4, OntoHolds
  <2>6. Some(w, S) <=> Head(w) \in S \/ Some(Tail(w), S)
    BY <2>2, SomeProperties
  <2> QED
    BY <2>1, <2>2, <2>4, <2>5, <2>6, <1>2, <1>4 DEF Inside, Awaits
<1>5. CASE /\ stack # <<>> /\ Head(stack).in # "hook" /\ (Head(stack).in = "drain" => Head(stack).work = <<>>)
           /\ queue' = queue /\ Onto(Tail(stack))
  <2>1. Idle(stack)' /\ (Holds(stack', S) <=> Holds(Tail(stack), S))
    BY <1>2, <1>5, OntoHolds
  <2>2. ~Some(Head(stack).work, S)
    BY <1>1, <1>2, <1>5
  <2> QED
    BY <2>1, <2>2, <1>2, <1>5 DEF Awaits
<1>6. CASE /\ stack = <<>>
           /\ \/ stack' = Enter("drain", queue, <<>>) /\ queue' = <<>>
              \/ stack' = Enter("handler", <<>>, <<>>) /\ queue' = queue
  <2>1. /\ Idle(Enter("drain", queue, <<>>)) /\ Idle(Enter("handler", <<>>, <<>>))
        /\ Holds(Enter("drain", queue, <<>>), S) <=> Some(queue, S)
        /\ ~Holds(Enter("handler", <<>>, <<>>), S)
    BY <1>1, EnterIdle, EnterHolds
  <2> QED
    BY <2>1, <1>1, <1>6 DEF Awaits
<1>7. CASE /\ Inside("hook") /\ queue' = <<>>
           /\ stack' = Enter("drain", queue, Enter("paint", <<>>, Tail(stack)))
  <2>1. PICK o : o = Enter("paint", <<>>, Tail(stack))
    OBVIOUS
  <2>2. o \in Seq(Activations) /\ Idle(o) /\ (Holds(o, S) <=> Holds(Tail(stack), S))
    BY <2>1, <1>1, <1>2, <1>7, EnterIdle, EnterHolds, EnterProperties DEF Inside
  <2>3. Idle(Enter("drain", queue, o)) /\ (Holds(Enter("drain", queue, o), S) <=> Some(queue, S) \/ Holds(o, S))
    BY <2>2, <1>1, EnterIdle, EnterHolds
  <2>4. ~Some(Head(stack).work, S)
    BY <1>1, <1>2, <1>7 DEF Inside
  <2> QED
    BY <2>1, <2>2, <2>3, <2>4, <1>1, <1>2, <1>7 DEF Inside, Awaits
<1> QED
  BY <1>3, <1>4, <1>5, <1>6, <1>7 DEF StackSteps

\* What waits in the queue stays there until the loop's select takes the wake,
\* or gracefulExit Drains.
LEMMA QueueTaken ==
  ASSUME IInv, StackSteps, NEW S, Some(queue, S), ~Some(queue', S)
  PROVE  at = "select" \/ Inside("hook")
<1>1. ASSUME NEW kind \in Kinds, NEW from \in {"any", "child", "hook"}, PostJob(kind, from)
      PROVE  FALSE
  <2>1. PICK j : j = [kind |-> kind, from |-> from]
    OBVIOUS
  <2>2. j \in Jobs /\ queue' = Append(queue, j) /\ queue \in Seq(Jobs)
    BY <1>1, <2>1 DEF Jobs, PostJob, IInv, TypeOK
  <2>3. Some(Append(queue, j), S) <=> Some(queue, S) \/ j \in S
    BY <2>2, SomeProperties
  <2> QED
    BY <2>2, <2>3
<1>2. ASSUME \E kind \in PostKinds : PostJob(kind, "any")
      PROVE  FALSE
  BY <1>1, <1>2, RunLoopAssumption DEF RunLoopAssumption, Kinds
<1>3. ASSUME PostJob("set", "hook")
      PROVE  FALSE
  BY <1>1, <1>3 DEF Kinds
<1>4. ASSUME signals # <<>>, PostJob(Head(signals).kind, Head(signals).from)
      PROVE  FALSE
  <2>1. Head(signals) \in Jobs
    BY <1>4, HeadTailProperties DEF IInv, TypeOK
  <2> QED
    BY <1>1, <1>4, <2>1 DEF Jobs
<1>5. ~Stays
  BY <1>2, <1>3, <1>4 DEF Stays
<1> QED
  BY <1>5 DEF StackSteps

\* A frame composes what is dirty, if nothing is Set after it did.
LEMMA FrameCleans ==
  ASSUME HostSets \cap {"error", "after"} = {}, view \in Views, NEW v \in Frames
  PROVE  ~v.dirty
<1>1. PICK b \in Maybe("before"), ok \in FlushResults : v = Frame(view, b, ok, FALSE, FALSE)
  <2>1. PICK b \in Maybe("before"), ok \in FlushResults, e \in Maybe("error"), a \in Maybe("after") :
          v = Frame(view, b, ok, e, a)
    BY DEF Frames
  <2>2. e = FALSE /\ a = FALSE
    BY DEF Maybe
  <2> QED
    BY <2>1, <2>2
<1>2. b \in BOOLEAN /\ ok \in BOOLEAN
  BY RunLoopAssumption DEF RunLoopAssumption, Maybe
<1>3. PICK w : w = IF b THEN Set(view) ELSE view
  OBVIOUS
<1>4. w \in Views
  BY <1>3, SetType
<1>5. PICK c : c = Compose(w)
  OBVIOUS
<1>6. c \in Views /\ ~c.dirty
  <2>1. c \in Views
    BY <1>4, <1>5, ComposeType
  <2>2. ~c.dirty
    BY <1>4, <1>5 DEF Views, Compose
  <2> QED
    BY <2>1, <2>2
<1>7. PICK f : f = IF c.screen THEN Flush(c, ok) ELSE c
  OBVIOUS
<1>8. f \in Views /\ ~f.dirty
  BY <1>2, <1>6, <1>7, FlushType DEF Views, Flush
<1>9. v = [f EXCEPT !.needsFrame = FALSE]
  BY <1>1, <1>3, <1>5, <1>7 DEF Frame
<1> QED
  BY <1>8, <1>9 DEF Views

\* A dirty tree has asked for a frame, and the loop blocks with a clean one.
Clean == /\ view.dirty => view.needsFrame
         /\ at = "select" => ~view.dirty

\* Every step of the loop keeps it so.
LEMMA CleanKept ==
  ASSUME HostSets \cap {"error", "after"} = {}, IInv, Clean, [Next]_vars
  PROVE  Clean'
<1>1. view \in Views
  BY DEF IInv, TypeOK
<1>2. view'.dirty => view'.needsFrame
  <2>1. CASE view' = view
    BY <2>1 DEF Clean
  <2>2. CASE view' = Set(view)
    BY <1>1, <2>2 DEF Views, Set, Clean
  <2>3. CASE view' = Attach(view) \/ view' = Resize(view) \/ view' = [view EXCEPT !.needsFrame = TRUE]
    BY <1>1, <2>3 DEF Views, Attach, Resize
  <2>4. CASE view' = Release(view)
    BY <1>1, <2>4 DEF Views, Release, Clean
  <2>5. CASE \E resized \in BOOLEAN : view' = Acquire(view, resized)
    BY <1>1, <2>5 DEF Views, Acquire, Resize
  <2>6. CASE view' \in Frames
    BY <1>1, <2>6, FrameCleans
  <2> QED
    BY <2>1, <2>2, <2>3, <2>4, <2>5, <2>6, NextViewStep DEF ViewSteps
<1>3. ASSUME at' = "select"
      PROVE  ~view'.dirty
  <2>1. CASE at = "select" /\ view' = view
    BY <2>1 DEF Clean
  <2>2. CASE LoopPaints /\ view' = view /\ ~view.needsFrame
    BY <2>2 DEF Clean
  <2>3. CASE LoopPaints /\ view' \in Frames
    BY <1>1, <2>3, FrameCleans
  <2> QED
    BY <1>3, <2>1, <2>2, <2>3, NextViewStep DEF LoopPaints
<1> QED
  BY <1>2, <1>3 DEF Clean

\* What Do was told so far, and what is still to run of what it posted.
Told == /\ fn \in {"none", "set", "painted"}
        /\ client = "fn" => Awaits(Of("act")) \/ fn # "none"
        /\ client = "barrier" => ~Awaits(Of("act")) /\ fn # "none"
        /\ fn = "set" => view.dirty
        /\ client = "barrier" /\ fn = "set" => exitSig \/ Some(queue, Of("barrier"))

BridgeInv == IInv /\ Raised /\ Signed /\ Idle(stack) /\ Clean /\ Told

\* A round's closure is pending while it is awaited.
LEMMA PendingAwaits ==
  ASSUME IInv, NEW kind
  PROVE  Pending(kind) <=> Awaits(Of(kind))
<1>1. ASSUME NEW js \in Seq(Jobs)
      PROVE  (\E i \in DOMAIN js : js[i].kind = kind) <=> Some(js, Of(kind))
  <2>1. DOMAIN js = 1 .. Len(js) /\ \A i \in 1 .. Len(js) : js[i] \in Jobs
    BY LenProperties
  <2> QED
    BY <2>1 DEF Some, Of
<1>2. /\ queue \in Seq(Jobs) /\ DOMAIN stack = 1 .. Len(stack)
      /\ \A a \in 1 .. Len(stack) : stack[a].work \in Seq(Jobs)
  <2>1. /\ queue \in Seq(Jobs) /\ DOMAIN stack = 1 .. Len(stack)
        /\ \A a \in 1 .. Len(stack) : stack[a] \in Activations
    BY LenProperties DEF IInv, TypeOK
  <2> QED
    BY <2>1 DEF Activations
<1> QED
  BY <1>1, <1>2 DEF Pending, Awaits, Holds

\* fn's is, before a step and after it.
LEMMA ActAwaited == IInv => (Pending("act") <=> Awaits(Of("act")))
BY PendingAwaits

\* Posting a round's closure changes the queue alone, and awaits that closure.
LEMMA RoundPosts ==
  ASSUME IInv, Raised, Signed, Idle(stack), Clean, NEW kind \in {"act", "barrier"}, PostRound(kind)
  PROVE  /\ IInv' /\ Raised' /\ Signed' /\ Idle(stack)' /\ Clean'
         /\ view' = view /\ exitSig' = exitSig
         /\ Some(queue', Of(kind))
         /\ Holds(stack', Of("act")) <=> Holds(stack, Of("act"))
         /\ kind = "barrier" => (Some(queue', Of("act")) <=> Some(queue, Of("act")))
<1>1. PICK j : j = [kind |-> kind, from |-> "any"]
  OBVIOUS
<1>2. j \in Jobs /\ j.kind = kind /\ queue' = Append(queue, j) /\ queue \in Seq(Jobs)
  BY <1>1 DEF PostRound, PostJob, Jobs, Kinds, IInv, TypeOK
<1>3. /\ Some(Append(queue, j), Of(kind)) <=> Some(queue, Of(kind)) \/ j \in Of(kind)
      /\ Some(Append(queue, j), Of("act")) <=> Some(queue, Of("act")) \/ j \in Of("act")
  BY <1>2, SomeProperties
<1>4. queue' \in Seq(Jobs) /\ wake' \in BOOLEAN
  BY PostJobType DEF PostRound, IInv, Kinds
<1>5. UNCHANGED <<signals, events, decDead, quit, cancelled, at, stack, suspended,
                  exitSig, result, view, hook, exitDrains, asked, spent>>
  BY DEF PostRound
<1>6. IInv'
  BY <1>4, <1>5 DEF IInv, TypeOK, Positions, Held, Inside
<1>7. Raised' /\ Signed' /\ Idle(stack)' /\ Clean'
  BY <1>5 DEF Raised, Signed, Clean
<1> QED
  BY <1>2, <1>3, <1>5, <1>6, <1>7 DEF Of

\* A step of the loop tells Do what it should.
LEMMA LoopTells ==
  ASSUME HostSets \cap {"error", "after"} = {}, "act" \notin PostKinds, BridgeInv, Loop(Next)
  PROVE  BridgeInv'
<1>1. /\ IInv /\ Raised /\ Signed /\ Idle(stack) /\ Clean /\ Told /\ [Next]_vars
      /\ StackSteps /\ (exitSig => exitSig')
  BY NextStackStep DEF BridgeInv, Loop
<1>2. IInv' /\ Raised' /\ Signed' /\ Clean'
  BY <1>1, IInvKept, RaisedKept, SignedKept, CleanKept
<1>3. PICK S : S = Of("act")
  OBVIOUS
<1>4. S \in SUBSET Jobs /\ \A j \in S : j.kind \notin PostKinds \cup SignalKinds \cup {"set"}
  BY <1>3, RunLoopAssumption DEF RunLoopAssumption, Of
<1>5. /\ Idle(stack)'
      /\ Awaits(S)' => Awaits(S)
      /\ Awaits(S) /\ ~Awaits(S)' => RunJob /\ Job \in S
  BY <1>1, <1>4, StepAwaits
<1>6. (Pending("act") <=> Awaits(S)) /\ (Pending("act")' <=> Awaits(S)')
  <2>1. Pending("act") <=> Awaits(Of("act"))
    BY <1>1, ActAwaited
  <2>2. Pending("act")' <=> Awaits(Of("act"))'
    BY <1>2, ActAwaited, PTL
  <2> QED
    BY <1>3, <2>1, <2>2
<1>7. /\ fn' = IF Awaits(S) /\ ~Awaits(S)' THEN "set"
               ELSE IF fn = "set" /\ view.dirty /\ ~view'.dirty THEN "painted" ELSE fn
      /\ client' = client
  BY <1>6 DEF Loop
<1>8. ASSUME Awaits(S), ~Awaits(S)'
      PROVE  view'.dirty
  <2>1. RunJob /\ Job.kind = "act"
    BY <1>3, <1>5, <1>8 DEF Of
  <2>2. view' = Set(view)
    BY <2>1 DEF RunJob, DoSet
  <2> QED
    BY <2>2, <1>1 DEF Set, IInv, TypeOK, Views
<1>9. ASSUME client = "barrier", fn = "set"
      PROVE  exitSig' \/ Some(queue', Of("barrier"))
  <2>1. PICK B : B = Of("barrier")
    OBVIOUS
  <2>2. exitSig \/ Some(queue, B)
    BY <1>1, <1>9, <2>1 DEF Told
  <2>3. Some(queue, B) /\ ~Some(queue', B) => at = "select" \/ Inside("hook")
    BY <1>1, QueueTaken
  <2>4. at # "select"
    BY <1>1, <1>9 DEF Told, Clean
  <2>5. Inside("hook") => exitSig
    BY <1>1, TailShutdown DEF Inside, Signed, IInv, TypeOK
  <2> QED
    BY <1>1, <2>1, <2>2, <2>3, <2>4, <2>5
<1>10. Told'
  <2>1. fn' \in {"none", "set", "painted"}
    BY <1>1, <1>7 DEF Told
  <2>2. client' = "fn" => Awaits(S)' \/ fn' # "none"
    BY <1>1, <1>3, <1>7 DEF Told
  <2>3. client' = "barrier" => ~Awaits(S)' /\ fn' # "none"
    BY <1>1, <1>3, <1>5, <1>7 DEF Told
  <2>4. fn' = "set" => view'.dirty
    BY <1>1, <1>7, <1>8 DEF Told
  <2>5. client' = "barrier" /\ fn' = "set" => exitSig' \/ Some(queue', Of("barrier"))
    BY <1>1, <1>3, <1>7, <1>9 DEF Told
  <2> QED
    BY <1>3, <2>1, <2>2, <2>3, <2>4, <2>5 DEF Told
<1> QED
  BY <1>2, <1>5, <1>10 DEF BridgeInv

\* So does every step of Do's.
LEMMA BridgeKept ==
  ASSUME HostSets \cap {"error", "after"} = {}, "act" \notin PostKinds,
         BridgeInv, [BridgeNext]_bridgeVars
  PROVE  BridgeInv'
<1>1. CASE CallDo
  BY <1>1, RoundPosts DEF CallDo, BridgeInv, Told, Awaits
<1>2. CASE FnAnswered
  <2>1. ~Awaits(Of("act"))
    BY <1>2, PendingAwaits DEF FnAnswered, BridgeInv
  <2> QED
    BY <1>2, <2>1, RoundPosts DEF FnAnswered, BridgeInv, Told, Awaits
<1>3. CASE UNCHANGED vars /\ fn' = fn /\ (client' = client \/ client' \in {"settled", "timedOut"})
  <2>1. IInv'
    BY <1>3 DEF vars, BridgeInv, IInv, TypeOK, Positions, Held, Inside
  <2>2. Raised' /\ Signed' /\ Idle(stack)' /\ Clean'
    BY <1>3 DEF vars, BridgeInv, Raised, Signed, Clean
  <2>3. Told'
    BY <1>3 DEF vars, BridgeInv, Told, Awaits
  <2> QED
    BY <2>1, <2>2, <2>3 DEF BridgeInv
<1>4. CASE Loop(Next)
  BY <1>4, LoopTells
<1>5. CASE Settle \/ TimeOut \/ UNCHANGED bridgeVars
  BY <1>3, <1>5 DEF Settle, TimeOut, bridgeVars
<1> QED
  BY <1>1, <1>2, <1>4, <1>5 DEF BridgeNext

\* Settled means painted: Do returns nil only when a frame was composed after
\* its fn ran, or a signal is ending the run (Bridge.Do, bridge.go:34-41),
\* whatever else is posted, raised, suspended or reloaded meanwhile.  Where the
\* error handler and AfterFrame hooks Set nothing: else the tree may stay dirty
\* past the frame that composed fn's Sets.  Only Do's own closure is an "act".
THEOREM SettledIsPainted ==
  ASSUME HostSets \cap {"error", "after"} = {}, "act" \notin PostKinds
  PROVE  BridgeSpec => SettledMeansPainted
<1>1. ASSUME BridgeInit
      PROVE  BridgeInv
  <2>1. /\ IInv /\ Raised /\ Signed /\ Idle(stack) /\ Clean
        /\ ~Awaits(Of("act"))
    <3>1. Len(<<>>) = 0
      BY EmptySeq, LenProperties
    <3> QED
      BY <1>1, <3>1, IInvInitially DEF BridgeInit, Init, Raised, Signed, NoShutdown, Idle, Clean, Awaits, Some, Holds
  <2> QED
    BY <1>1, <2>1 DEF BridgeInit, Init, BridgeInv, Told
<1>2. BridgeInv /\ [BridgeNext]_bridgeVars => BridgeInv'
  BY BridgeKept
<1>3. BridgeInv /\ Settle => fn = "painted" \/ exitSig
  BY PendingAwaits DEF BridgeInv, Told, Settle, Awaits
<1> QED
  BY <1>1, <1>2, <1>3, PTL DEF BridgeSpec, SettledMeansPainted
=============================================================================
