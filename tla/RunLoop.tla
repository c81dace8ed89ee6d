------------------------------- MODULE RunLoop -------------------------------
(***************************************************************************)
(* gooey.App's run loop (app.go) and console signals (signals_unix.go):    *)
(* everything the UI goroutine does between Run and its return, against    *)
(* goroutines that Post, Quit or cancel, the kernel that raises signals,   *)
(* the input decoder, and a shutdown hook on a goroutine of its own.       *)
(*                                                                         *)
(* The UI goroutine is sequential but re-entrant: Drain may run a signal's *)
(* closure, which waits for the shutdown hook and then Drains and paints   *)
(* again, inside the outer Drain.  Its position is therefore a stack of    *)
(* activations, innermost first.  A step of it ends only where another     *)
(* goroutine's progress can matter, so frame() is one step.  A Post is one *)
(* step too: Dispatcher shows that the real one implements that.           *)
(***************************************************************************)
EXTENDS Sequences, Naturals

CONSTANTS
  HasHook,       \* whether WithShutdown gave a hook
  HostSets,      \* which host callbacks Set a property the tree paints from
  PostKinds,     \* what other goroutines Post
  EventKinds,    \* what the tree does with an input event
  SignalKinds,   \* the signals raised
  Reacquires,    \* possible outcomes of re-opening the terminal
  FlushResults,  \* possible outcomes of writing a frame to it
  SignalBuffer,  \* capacity of the os/signal channel
  MaxPosts,      \* bound: Posts from other goroutines and from the hook
  MaxSignals,    \* bound: signals raised
  MaxEvents,     \* bound: input events decoded
  MaxVal         \* bound: from here on host callbacks Set nothing more

ASSUME RunLoopAssumption ==
  /\ HasHook \in BOOLEAN
  /\ HostSets \subseteq {"before", "error", "after"}
  /\ PostKinds \subseteq {"set", "quit", "reload", "suspend", "act", "barrier"}
  /\ EventKinds \subseteq {"none", "set", "quit", "suspend"}
  /\ SignalKinds \subseteq {"INT", "WINCH", "TSTP"}
  /\ Reacquires \subseteq BOOLEAN
  /\ FlushResults \subseteq BOOLEAN /\ FlushResults # {}
  /\ SignalBuffer \in Nat \ {0}
  /\ MaxPosts \in Nat /\ MaxSignals \in Nat /\ MaxEvents \in Nat /\ MaxVal \in Nat

VARIABLES
  queue,      \* the dispatcher's queue of jobs
  wake,       \* the dispatcher's wake token
  signals,    \* the os/signal channel
  events,     \* decoded input events waiting in a.events
  decDead,    \* the decoder of the held terminal has exited
  quit,       \* a.quit is closed
  cancelled,  \* Run's ctx is cancelled
  at,         \* where the loop is once `stack' is empty: its top or its
              \* select; "done" once Run returned
  stack,      \* what the UI goroutine is inside of, innermost first
  suspended,  \* a.suspended
  exitSig,    \* a.exitSig is set
  result,     \* what Run returned
  view,       \* the composition, its scheduler flag and the terminal
  hook,       \* the shutdown hook the UI goroutine waits for
  exitDrains, \* history: Drains made by gracefulExit
  asked,      \* history: the host ended the run, by Quit, quit key or ctx
  spent       \* Posts, signals and events so far, for the bounds

vars == <<queue, wake, signals, events, decDead, quit, cancelled, at, stack,
          suspended, exitSig, result, view, hook, exitDrains, asked, spent>>

Kinds == {"set", "quit", "reload", "suspend", "act", "barrier", "INT", "WINCH", "TSTP"}

\* A job is a posted closure: what it does, and who it is from: the shutdown
\* hook, a signal raised while a child process owned the terminal, or anyone.
Jobs == [kind : Kinds, from : {"any", "child", "hook"}]

Activations == [in : {"drain", "handler", "hook", "paint", "child"}, work : Seq(Jobs)]

Blank == 0   \* a buffer or a terminal with nothing painted on it

-----------------------------------------------------------------------------
(* The composition: `val' numbers the value the tree paints from, `dirty'  *)
(* is its paint node's flag, `buf' the value in the cell buffer, `prev'    *)
(* what the Flusher believes the terminal shows and `tty' what it shows.   *)

Views == [val : Nat, dirty : BOOLEAN, needsFrame : BOOLEAN, buf : Nat,
          prev : Nat, tty : Nat, screen : BOOLEAN]

\* Mutant: a Set does not invalidate when a frame is already requested.
SetUnlessRequested(v) == [v EXCEPT !.val = @ + 1, !.dirty = ~v.needsFrame \/ @,
                                   !.needsFrame = TRUE]

\* Property.Set: the invalidate hook fires on clean -> dirty only.
Set(v) == [v EXCEPT !.val = @ + 1, !.dirty = TRUE, !.needsFrame = @ \/ ~v.dirty]

Compose(v) == IF v.dirty THEN [v EXCEPT !.buf = v.val, !.dirty = FALSE] ELSE v

\* Flush writes the difference from prev; Encode updates prev before the write.
Flush(v, ok) == [v EXCEPT !.prev = v.buf,
                          !.tty = IF ok /\ v.prev # v.buf THEN v.buf ELSE @]

\* App.frame: the hooks that run before, compose, flush when a terminal is
\* held (reporting an error to the host), consume the request, hooks after.
Frame(v, before, ok, error, after) ==
  LET composed == Compose(IF before THEN Set(v) ELSE v)
      flushed  == IF composed.screen THEN Flush(composed, ok) ELSE composed
      reported == IF composed.screen /\ ~ok /\ error THEN Set(flushed) ELSE flushed
      consumed == [reported EXCEPT !.needsFrame = FALSE]
  IN  IF after THEN Set(consumed) ELSE consumed

Maybe(callback) == IF callback \in HostSets /\ view.val < MaxVal THEN BOOLEAN ELSE {FALSE}

\* Every way one frame() can go.
Frames == {Frame(view, b, ok, e, a) : b \in Maybe("before"), ok \in FlushResults,
                                      e \in Maybe("error"), a \in Maybe("after")}

\* Composer.Resize: a new buffer, so the Flusher sends a full frame.
Resize(v) == [v EXCEPT !.buf = Blank, !.prev = Blank, !.dirty = TRUE, !.needsFrame = TRUE]

Release(v) == [v EXCEPT !.screen = FALSE]

\* App.acquire: the alternate screen comes back blank, perhaps at a new size.
Acquire(v, resized) ==
  [(IF resized THEN Resize(v) ELSE v) EXCEPT
     !.screen = TRUE, !.tty = Blank, !.prev = Blank, !.needsFrame = TRUE]

\* Mutant: attach leaves the request to the old Composer's hook.
AttachWithoutRequest(v) == [v EXCEPT !.buf = Blank, !.prev = Blank, !.dirty = TRUE]

\* App.attach: a fresh Composer and Flusher over the same terminal.
Attach(v) == [v EXCEPT !.buf = Blank, !.prev = Blank, !.dirty = TRUE, !.needsFrame = TRUE]

-----------------------------------------------------------------------------

Init == /\ queue = <<>> /\ wake = FALSE
        /\ signals = <<>> /\ events = 0 /\ decDead = FALSE
        /\ quit = FALSE /\ cancelled = FALSE
        /\ at = "top" /\ stack = <<>>
        /\ suspended = FALSE /\ exitSig = FALSE /\ result = "none"
        /\ view = [val |-> 1, dirty |-> TRUE, needsFrame |-> TRUE, buf |-> Blank,
                   prev |-> Blank, tty |-> Blank, screen |-> TRUE]
        /\ hook = "none" /\ exitDrains = 0 /\ asked = FALSE
        /\ spent = [posts |-> 0, signals |-> 0, events |-> 0]

Inside(f) == stack # <<>> /\ Head(stack).in = f

Enter(f, jobs, outer) == <<[in |-> f, work |-> jobs]>> \o outer

\* The closure Drain calls next, and the stack once it has been taken.
Job == Head(Head(stack).work)
Rest == Enter("drain", Tail(Head(stack).work), Tail(stack))

-----------------------------------------------------------------------------
(* Other goroutines, the kernel and the decoder, while Run is running.     *)

PostJob(kind, from) == /\ queue' = Append(queue, [kind |-> kind, from |-> from])
                       /\ wake' = TRUE

Post(kind) == /\ at # "done"
              /\ spent.posts < MaxPosts
              /\ PostJob(kind, "any")
              /\ spent' = [spent EXCEPT !.posts = @ + 1]
              /\ UNCHANGED <<signals, events, decDead, quit, cancelled, at, stack, suspended,
                             exitSig, result, view, hook, exitDrains, asked>>

\* App.Quit from another goroutine.
QuitElsewhere == /\ at # "done"
                 /\ "quit" \in PostKinds
                 /\ ~quit
                 /\ quit' = TRUE
                 /\ asked' = TRUE
                 /\ UNCHANGED <<queue, wake, signals, events, decDead, cancelled, at, stack,
                                suspended, exitSig, result, view, hook, exitDrains, spent>>

CancelContext == /\ at # "done"
                 /\ "quit" \in PostKinds
                 /\ ~cancelled
                 /\ cancelled' = TRUE
                 /\ asked' = TRUE
                 /\ UNCHANGED <<queue, wake, signals, events, decDead, quit, at, stack,
                                suspended, exitSig, result, view, hook, exitDrains, spent>>

\* signal.Notify's channel: a signal that finds it full is dropped.
Raise(sig) == /\ at # "done"
              /\ spent.signals < MaxSignals
              /\ spent' = [spent EXCEPT !.signals = @ + 1]
              /\ signals' = IF Len(signals) = SignalBuffer THEN signals
                            ELSE Append(signals, [kind |-> sig,
                                                  from |-> IF suspended THEN "child" ELSE "any"])
              /\ UNCHANGED <<queue, wake, events, decDead, quit, cancelled, at, stack, suspended,
                             exitSig, result, view, hook, exitDrains, asked>>

\* The forwarding goroutine of startSignals, which teardown ends.
ForwardSignal == /\ at # "done"
                 /\ signals # <<>>
                 /\ PostJob(Head(signals).kind, Head(signals).from)
                 /\ signals' = Tail(signals)
                 /\ UNCHANGED <<events, decDead, quit, cancelled, at, stack, suspended, exitSig,
                                result, view, hook, exitDrains, asked, spent>>

DecodeEvent == /\ view.screen /\ ~decDead
               /\ spent.events < MaxEvents
               /\ events' = events + 1
               /\ spent' = [spent EXCEPT !.events = @ + 1]
               /\ UNCHANGED <<queue, wake, signals, decDead, quit, cancelled, at, stack,
                              suspended, exitSig, result, view, hook, exitDrains, asked>>

DecoderDies == /\ at # "done"
               /\ view.screen /\ ~decDead
               /\ "none" \in EventKinds
               /\ decDead' = TRUE
               /\ UNCHANGED <<queue, wake, signals, events, quit, cancelled, at, stack, suspended,
                              exitSig, result, view, hook, exitDrains, asked, spent>>

\* The shutdown hook posts a farewell, or returns.  What it Posts after it was
\* given up on is a Post like any other goroutine's.
HookPosts == /\ hook = "running"
             /\ spent.posts < MaxPosts
             /\ PostJob("set", "hook")
             /\ spent' = [spent EXCEPT !.posts = @ + 1]
             /\ UNCHANGED <<signals, events, decDead, quit, cancelled, at, stack, suspended,
                            exitSig, result, view, hook, exitDrains, asked>>

HookReturns == /\ hook = "running"
               /\ hook' = "returned"
               /\ UNCHANGED <<queue, wake, signals, events, decDead, quit, cancelled, at, stack,
                              suspended, exitSig, result, view, exitDrains, asked, spent>>

-----------------------------------------------------------------------------
(* The loop: its condition, the ctx check and the frame, then the select.  *)

\* exitErr and the deferred teardown.
Return(termErr) == /\ at' = "done"
                   /\ stack' = <<>>
                   /\ view' = Release(view)
                   /\ events' = 0
                   /\ decDead' = FALSE
                   /\ signals' = <<>>
                   /\ result' = IF termErr THEN "terminal" ELSE IF exitSig THEN "signal" ELSE "nil"

AtTop == at = "top" /\ stack = <<>>

LoopEnds == /\ AtTop
            /\ quit \/ cancelled
            /\ Return(FALSE)
            /\ UNCHANGED <<queue, wake, quit, cancelled, suspended, exitSig, hook,
                           exitDrains, asked, spent>>

LoopPaints == /\ AtTop
              /\ ~quit /\ ~cancelled
              /\ view' \in IF view.needsFrame THEN Frames ELSE {view}
              /\ at' = "select"
              /\ UNCHANGED <<queue, wake, signals, events, decDead, quit, cancelled, stack,
                             suspended, exitSig, result, hook, exitDrains, asked, spent>>

SelectStop == /\ at = "select"
              /\ quit \/ cancelled
              /\ at' = "top"
              /\ UNCHANGED <<queue, wake, signals, events, decDead, quit, cancelled, stack,
                             suspended, exitSig, result, view, hook, exitDrains, asked, spent>>

\* Mutant: the loop Drains until the queue is quiet before it paints.
SelectWakeAgain == /\ at = "select"
                   /\ wake
                   /\ wake' = FALSE
                   /\ stack' = Enter("drain", queue, <<>>)
                   /\ queue' = <<>>
                   /\ UNCHANGED <<signals, events, decDead, quit, cancelled, at, suspended, exitSig,
                                  result, view, hook, exitDrains, asked, spent>>

SelectWake == /\ at = "select"
              /\ wake
              /\ wake' = FALSE
              /\ at' = "top"
              /\ stack' = Enter("drain", queue, <<>>)
              /\ queue' = <<>>
              /\ UNCHANGED <<signals, events, decDead, quit, cancelled, suspended, exitSig,
                             result, view, hook, exitDrains, asked, spent>>

SelectEvent == /\ at = "select"
               /\ events > 0
               /\ events' = events - 1
               /\ at' = "top"
               /\ stack' = Enter("handler", <<>>, <<>>)
               /\ UNCHANGED <<queue, wake, signals, decDead, quit, cancelled, suspended, exitSig,
                              result, view, hook, exitDrains, asked, spent>>

SelectDecoderDone == /\ at = "select"
                     /\ view.screen /\ decDead
                     /\ Return(TRUE)
                     /\ UNCHANGED <<queue, wake, quit, cancelled, suspended, exitSig, hook,
                                    exitDrains, asked, spent>>

-----------------------------------------------------------------------------
(* What a closure or an event handler may do to the runtime; `outer' is    *)
(* what the UI goroutine is still inside of.                               *)

DoQuit(outer) == /\ quit' = TRUE
                 /\ asked' = TRUE
                 /\ stack' = outer
                 /\ UNCHANGED <<events, decDead, suspended, exitSig, view, hook>>

\* Mutant: the terminal is released without joining its decoder.
DoSuspendUnjoined(outer) == /\ view' = Release(view)
                            /\ suspended' = TRUE
                            /\ stack' = Enter("child", <<>>, outer)
                            /\ UNCHANGED <<events, decDead, quit, asked, exitSig, hook>>

\* App.Suspend, up to its call of fn.  release joins the decoder; where that
\* join runs into its deadline the reader outlives it and is only recorded
\* (DecoderLeaked, app.go:813-816): that branch is Terminal's JoinTimesOut, and
\* here every join succeeds.
DoSuspend(outer) == /\ view' = Release(view)
                    /\ events' = 0
                    /\ decDead' = FALSE
                    /\ suspended' = TRUE
                    /\ stack' = Enter("child", <<>>, outer)
                    /\ UNCHANGED <<quit, asked, exitSig, hook>>

DoSet(outer) == /\ view' = Set(view)
                /\ stack' = outer
                /\ UNCHANGED <<events, decDead, quit, asked, suspended, exitSig, hook>>

DoNothing(outer) == /\ stack' = outer
                    /\ UNCHANGED <<events, decDead, quit, asked, suspended, exitSig, view, hook>>

\* App.reload: a failed Build leaves the composition alone.
DoReload(outer) == /\ view' \in {view, Attach(view)}
                   /\ stack' = outer
                   /\ UNCHANGED <<events, decDead, quit, asked, suspended, exitSig, hook>>

\* Mutant: the signal is handed to the hook and not recorded.
DoExitUnrecorded(outer) == /\ HasHook
                           /\ hook' = "running"
                           /\ stack' = Enter("hook", <<>>, outer)
                           /\ UNCHANGED <<events, decDead, quit, asked, suspended, exitSig, view>>

\* App.gracefulExit, up to the wait for the hook.
DoExit(outer) == /\ exitSig' = TRUE
                 /\ IF HasHook
                    THEN /\ hook' = "running"
                         /\ stack' = Enter("hook", <<>>, outer)
                         /\ quit' = quit
                    ELSE /\ quit' = TRUE
                         /\ stack' = outer
                         /\ hook' = hook
                 /\ UNCHANGED <<events, decDead, asked, suspended, view>>

\* App.onResize, with and without a new size.
DoResize(outer) == /\ view' \in IF view.screen
                                THEN {Resize(view), [view EXCEPT !.needsFrame = TRUE]}
                                ELSE {view}
                   /\ stack' = outer
                   /\ UNCHANGED <<events, decDead, quit, asked, suspended, exitSig, hook>>

\* App.onStop: release, stop, and after SIGCONT acquire or quit; nothing of
\* the process runs while it is stopped.  CanSuspend may decline.
DoStop(outer) ==
  \/ DoNothing(outer)
  \/ /\ view.screen
     /\ events' = 0
     /\ decDead' = FALSE
     /\ stack' = outer
     /\ \E ok \in Reacquires, resized \in BOOLEAN :
          /\ view' = IF ok THEN Acquire(view, resized) ELSE Release(view)
          /\ quit' = (quit \/ ~ok)
     /\ UNCHANGED <<asked, suspended, exitSig, hook>>

\* App.onSignal.
DoSignal(sig, outer) == IF suspended THEN DoNothing(outer)
                        ELSE CASE sig = "INT" -> DoExit(outer)
                               [] sig = "WINCH" -> DoResize(outer)
                               [] sig = "TSTP" -> DoStop(outer)

-----------------------------------------------------------------------------
(* Inside a Drain, an event's handler, Suspend and gracefulExit.           *)

RunJob == /\ Inside("drain")
          /\ Head(stack).work # <<>>
          /\ CASE Job.kind = "quit" -> DoQuit(Rest)
               [] Job.kind = "suspend" -> DoSuspend(Rest)
               [] Job.kind = "reload" -> DoReload(Rest)
               [] Job.kind \in {"set", "act"} -> DoSet(Rest)
               [] Job.kind = "barrier" -> DoNothing(Rest)
               [] Job.kind \in {"INT", "WINCH", "TSTP"} -> DoSignal(Job.kind, Rest)
          /\ UNCHANGED <<queue, wake, signals, cancelled, at, result, exitDrains, spent>>

\* A Drain returns: to gracefulExit if that called it, else to the loop.
DrainReturns == /\ Inside("drain")
                /\ Head(stack).work = <<>>
                /\ stack' = Tail(stack)
                /\ UNCHANGED <<queue, wake, signals, events, decDead, quit, cancelled, at,
                               suspended, exitSig, result, view, hook, exitDrains, asked, spent>>

\* App.handle: the tree consumes the event, or declines it and it is a quit
\* key, or one of the tree's commands suspends the app.
Handle(kind) == /\ Inside("handler")
                /\ CASE kind = "none" -> DoNothing(Tail(stack))
                     [] kind = "set" -> DoSet(Tail(stack))
                     [] kind = "quit" -> DoQuit(Tail(stack))
                     [] kind = "suspend" -> DoSuspend(Tail(stack))
                /\ UNCHANGED <<queue, wake, signals, cancelled, at, result, exitDrains, spent>>

\* The rest of App.Suspend, once fn has returned.
ChildReturns == /\ Inside("child")
                /\ suspended' = FALSE
                /\ \E ok \in Reacquires, resized \in BOOLEAN :
                     view' = IF ok THEN Acquire(view, resized) ELSE view
                /\ stack' = Tail(stack)
                /\ UNCHANGED <<queue, wake, signals, events, decDead, quit, cancelled, at, exitSig,
                               result, hook, exitDrains, asked, spent>>

\* Mutant: paint first, then Drain.
ExitPaintsFirst(waited) == /\ Inside("hook")
                           /\ hook = waited
                           /\ hook' = "none"
                           /\ stack' = Enter("paint", <<>>, Enter("drain", queue, Tail(stack)))
                           /\ queue' = <<>>
                           /\ exitDrains' = exitDrains + 1
                           /\ UNCHANGED <<wake, signals, events, decDead, quit, cancelled, at,
                                          suspended, exitSig, result, view, asked, spent>>

\* gracefulExit once the hook has returned or been given up on: it Drains
\* what the hook posted ...
ExitDrains(waited) == /\ Inside("hook")
                      /\ hook = waited
                      /\ hook' = "none"
                      /\ stack' = Enter("drain", queue, Enter("paint", <<>>, Tail(stack)))
                      /\ queue' = <<>>
                      /\ exitDrains' = exitDrains + 1
                      /\ UNCHANGED <<wake, signals, events, decDead, quit, cancelled, at, suspended,
                                     exitSig, result, view, asked, spent>>

HookDone == ExitDrains("returned")

HookTimesOut == ExitDrains("running")

\* Mutant: gracefulExit leaves Quit to its branch without a hook.
ExitPaintsOnly == /\ Inside("paint")
                  /\ view' \in IF view.needsFrame THEN Frames ELSE {view}
                  /\ stack' = Tail(stack)
                  /\ UNCHANGED <<queue, wake, signals, events, decDead, quit, cancelled, at,
                                 suspended, exitSig, result, hook, exitDrains, asked, spent>>

\* ... paints if that asked for a frame, and quits.
ExitPaints == /\ Inside("paint")
              /\ view' \in IF view.needsFrame THEN Frames ELSE {view}
              /\ quit' = TRUE
              /\ stack' = Tail(stack)
              /\ UNCHANGED <<queue, wake, signals, events, decDead, cancelled, at, suspended,
                             exitSig, result, hook, exitDrains, asked, spent>>

-----------------------------------------------------------------------------

UIStep == \/ LoopEnds \/ LoopPaints
          \/ SelectStop \/ SelectWake \/ SelectEvent \/ SelectDecoderDone
          \/ RunJob \/ DrainReturns
          \/ \E kind \in EventKinds : Handle(kind)
          \/ ChildReturns
          \/ HookDone \/ HookTimesOut \/ ExitPaints

Environment == \/ \E kind \in PostKinds : Post(kind)
               \/ QuitElsewhere \/ CancelContext
               \/ \E sig \in SignalKinds : Raise(sig)
               \/ ForwardSignal
               \/ DecodeEvent \/ DecoderDies
               \/ HookPosts \/ HookReturns

\* Once Run has returned nothing here moves.
Returned == at = "done" /\ UNCHANGED vars

Next == UIStep \/ Environment \/ Returned

(***************************************************************************)
(* The UI goroutine is always scheduled; the child a Suspend launches ends *)
(* and the hook's timeout, which WithShutdown is given, fires: both are    *)
(* steps of UIStep.  The forwarding goroutine is scheduled.  Nothing is    *)
(* assumed of the goroutines that Post, of the kernel or of the hook.      *)
(***************************************************************************)
Fairness == WF_vars(UIStep) /\ WF_vars(ForwardSignal)

Spec == Init /\ [][Next]_vars /\ Fairness

-----------------------------------------------------------------------------

\* The variables hold values of their types.
TypeOK == /\ queue \in Seq(Jobs) /\ wake \in BOOLEAN
          /\ signals \in Seq(Jobs) /\ events \in Nat /\ decDead \in BOOLEAN
          /\ quit \in BOOLEAN /\ cancelled \in BOOLEAN
          /\ at \in {"top", "select", "done"} /\ stack \in Seq(Activations)
          /\ suspended \in BOOLEAN /\ exitSig \in BOOLEAN
          /\ result \in {"none", "nil", "signal", "terminal"}
          /\ view \in Views
          /\ hook \in {"none", "running", "returned"}
          /\ exitDrains \in Nat /\ asked \in BOOLEAN
          /\ spent \in [posts : Nat, signals : Nat, events : Nat]

\* The terminal is given back before anyone else is: no frame can reach it
\* and, as every release here joins its decoder in time (DoSuspend), none of
\* ours reads it while a child runs or after Run returned; a.suspended marks
\* exactly the time a child runs.
TerminalHandedOver == /\ at = "done" \/ Inside("child") => ~view.screen
                      /\ suspended <=> Inside("child")
                      /\ ~view.screen => events = 0 /\ ~decDead

\* A dirty tree always has a frame requested, so a Set whose paint node is
\* already dirty needs no second request (app.go:624-628).
DirtyMeansScheduled == view.dirty => view.needsFrame

\* What the Flusher believes of a held terminal is what it shows, or it will
\* send a full frame: a differential flush never leaves a stale cell.
FlusherKnowsTerminal == view.screen => view.prev \in {Blank, view.tty}

\* Whenever the loop blocks with a terminal, the terminal shows the value of
\* the graph: no Set, resize, reload, suspend or stop leaves an old picture.
NoStaleScreen == at = "select" /\ view.screen => view.tty = view.val

\* Run returns nil only for an end the host asked for (app.go:608-610).
NilMeansAsked == at = "done" /\ result = "nil" => asked

\* A farewell is seen: when gracefulExit quits, every Post the hook made while
\* it was waited for has run, or is in the Drain of an outer gracefulExit that
\* has yet to paint, and a held terminal shows what those that ran have Set
\* (app.go:547-556), however many signals and closures ran between.
FarewellShown ==
  [][ExitPaints => /\ \A i \in DOMAIN queue : queue[i].from # "hook"
                   /\ \A a \in DOMAIN stack :
                        (\E i \in DOMAIN stack[a].work : stack[a].work[i].from = "hook")
                          => \E b \in a+1..Len(stack) : stack[b].in = "paint"
                   /\ view'.screen => view'.tty = view'.val]_vars

\* Quit or the end of ctx ends the run, whatever the UI goroutine is inside of:
\* a Drain, an event, a child process, a shutdown hook that never returns.
StopEnds == quit \/ cancelled ~> at = "done"

\* A SIGINT raised while the host owned the terminal ends the run once it is in
\* the channel: it is forwarded, drained and honoured, across suspends, stops
\* and other signals.  One raised while a child owned the terminal is the
\* child's (app.go:895-899): see ShieldedWhileSuspended.
InterruptEnds ==
  (\E i \in DOMAIN signals : signals[i].kind = "INT" /\ signals[i].from = "any")
    ~> at = "done"

\* A frame once requested is painted, unless the run ends first.
FramesArePainted == view.needsFrame ~> ~view.needsFrame \/ at = "done"

\* A signal raised while a child process owned the terminal does not end the
\* host (App.Suspend, app.go:895-899).
ShieldedWhileSuspended ==
  [][RunJob /\ Job.from = "child" => exitSig' = exitSig]_vars

\* One shutdown Drains once (gracefulExit, app.go:552-558).
ExitDrainsOnce == exitDrains <= 1
=============================================================================
