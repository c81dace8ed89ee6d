----------------------------- MODULE Startables -----------------------------
(***************************************************************************)
(* What owns a goroutine in the tree, and who starts and stops it          *)
(* (startable.go, composer.go).  The Composer starts every Startable of a  *)
(* composition that goes live, stops the departed before it starts the     *)
(* arrivals when the tree is edited, and stops all of them when it is      *)
(* closed, on the UI goroutine, which each stop blocks until it has joined *)
(* what it stops.  Four shapes of Startable are modelled: gooey.Every      *)
(* (Timer, Spinner, ProgressBar, TypeAhead), gooey.Delays under a Tooltip, *)
(* FileWatcher, and the tree's Companion, which owns a child process.      *)
(*                                                                         *)
(* A start of e is its run r.  The goroutines of a run post closures to    *)
(* the work queue; a Drain takes the queue whole, and a closure of it may  *)
(* itself replace the composition whose other closures are still to run.   *)
(***************************************************************************)
EXTENDS Naturals, Sequences, FiniteSets

CONSTANTS Tickers, Tips, Watchers, Children,   \* the Startables, by shape
          Paths,       \* what a watcher may be bound to
          Trees,       \* bound: the trees the host may install
          MaxEdits,    \* bound: patches, swaps and restarts of the tree
          MaxWrites,   \* bound: writes to each path
          MaxHovers    \* bound: hover edges of each tip

Elems == Tickers \cup Tips \cup Watchers \cup Children
Runs == 1..MaxEdits

ASSUME ShapesAssumption == /\ Tickers \cap (Tips \cup Watchers \cup Children) = {}
                           /\ Tips \cap (Watchers \cup Children) = {}
                           /\ Watchers \cap Children = {}
ASSUME TreesAssumption == Trees \subseteq SUBSET Elems /\ Trees # {}
ASSUME BoundsAssumption == /\ MaxEdits \in Nat /\ MaxWrites \in Nat /\ MaxHovers \in Nat

VARIABLES
  tree,     \* the Startables of the live composition's tree
  edited,   \* Composer.structDirty
  started,  \* whether this Composer has a dispatcher
  edits,    \* edits so far
  ui,       \* where the UI goroutine is: [pc, dep: what is still to be stopped]
  queue,    \* Dispatcher.queue
  batch,    \* what is left of Drain's slice
  phase,    \* phase[e][r]: "new", "on", "closing" (stop is joining), "off", "leaked"
  workers,  \* the goroutines
  over,     \* over[t]: the pointer rests on t's host, no key or press since
  gen,      \* Tooltip.gen
  shown,    \* Tooltip.pop # nil
  disk,     \* disk[p]: p's fingerprint
  list,     \* list[w]: the bound Paths
  last,     \* last[w]: the fingerprints of w's latest scan
  reply,    \* reply[w]: what is in w's reply channel, a set of at most one list
  proc,     \* proc[c][r]: the child process of c's run r: "none", "up", "dead"
  err       \* Companion.err and Error: whether they tell of a failure

posts == <<queue, batch>>
tips == <<over, gen, shown>>
watch == <<disk, list, last, reply>>
kids == <<proc, err>>
comp == <<tree, edited, started, edits>>
vars == <<comp, ui, posts, phase, workers, tips, watch, kids>>

\* A Startable is on from its Start until its stop begins.
IsOn(e, r) == phase[e][r] = "on"
On == {e \in Elems : \E r \in Runs : IsOn(e, r)}
RunOf(e) == CHOOSE r \in Runs : IsOn(e, r)
Gone(e, r) == phase[e][r] \in {"closing", "off", "leaked"}

Job(kind, e, r, arg) == [kind |-> kind, e |-> e, r |-> r, arg |-> arg]
Worker(e, r, at, arg) == [e |-> e, r |-> r, at |-> at, arg |-> arg]

Init == /\ tree \in Trees
        /\ edited = FALSE /\ started = FALSE /\ edits = 0
        /\ ui = [pc |-> "loop", dep |-> {}]
        /\ queue = <<>> /\ batch = <<>>
        /\ phase = [e \in Elems |-> [r \in Runs |-> "new"]]
        /\ workers = {}
        /\ over = [t \in Tips |-> FALSE]
        /\ gen = [t \in Tips |-> 0]
        /\ shown = [t \in Tips |-> FALSE]
        /\ disk = [p \in Paths |-> 0]
        /\ list = [w \in Watchers |-> Paths]
        /\ last = [w \in Watchers |-> <<>>]
        /\ reply = [w \in Watchers |-> {}]
        /\ proc = [c \in Children |-> [r \in Runs |-> "none"]]
        /\ err = [c \in Children |-> FALSE]

-----------------------------------------------------------------------------
(* The Composer.  A handler, or a closure in the middle of a batch, edits  *)
(* the tree or replaces the composition; a frame comes between batches.    *)

MayEdit == ui.pc = "loop" /\ edits < MaxEdits

\* A patch, or a Dynamic container: structureChanged.
Patch(t) == /\ MayEdit
            /\ tree' = t
            /\ edited' = TRUE
            /\ edits' = edits + 1
            /\ UNCHANGED <<started, ui, posts, phase, workers, tips, watch, kids>>

\* attach: the old Composer is closed, a new one built and started.  Starting
\* the same one twice stops its elements first and is the same.
Swap(t) == /\ MayEdit
           /\ tree' = t
           /\ edited' = FALSE
           /\ edits' = edits + 1
           /\ started' = TRUE
           /\ ui' = [pc |-> "stop", dep |-> On]
           /\ UNCHANGED <<posts, phase, workers, tips, watch, kids>>

\* teardown: the loop has ended, and what is queued will not run.
Close == /\ ui.pc = "loop" /\ batch = <<>>
         /\ ui' = [pc |-> "close", dep |-> On]
         /\ UNCHANGED <<comp, posts, phase, workers, tips, watch, kids>>

\* Frame's re-sync of an edited tree.
Sync == /\ ui.pc = "loop" /\ batch = <<>> /\ edited
        /\ edited' = FALSE
        /\ ui' = IF started THEN [pc |-> "stop", dep |-> On \ tree] ELSE ui
        /\ UNCHANGED <<tree, started, edits, posts, phase, workers, tips, watch, kids>>

\* The first half of a stop: done is closed, a Companion's stopping is set and
\* its context cancelled, Delays' post is nil.
BeginStop == /\ ui.pc \in {"stop", "close"}
             /\ \A e \in ui.dep : \A r \in Runs : phase[e][r] # "closing"
             /\ \E e \in ui.dep, r \in Runs :
                  /\ IsOn(e, r)
                  /\ phase' = [phase EXCEPT ![e][r] = "closing"]
             /\ UNCHANGED <<comp, ui, posts, workers, tips, watch, kids>>

WorkersOf(e, r) == {w \in workers : w.e = e /\ w.r = r}

\* Mutant: a stop closes and does not join.
StopSignals(e, r) == TRUE

\* What a stop waits for.  A Companion's waits for done, then for reported; one
\* whose start failed has nothing to wait for.
Joined(e, r) == WorkersOf(e, r) = {}

\* The stop returns with a run of e that is over: "off", or "leaked".
StopReturns(e, r, how) ==
  /\ ui.pc \in {"stop", "close"} /\ e \in ui.dep
  /\ phase[e][r] = "closing"
  /\ phase' = [phase EXCEPT ![e][r] = how]
  /\ ui' = [ui EXCEPT !.dep = @ \ {e}]
  /\ UNCHANGED <<comp, posts, workers, tips, watch, kids>>

Join == \E e \in ui.dep, r \in Runs : Joined(e, r) /\ StopReturns(e, r, "off")

\* select takes a ready case: the timer's, too, when done is closed by then.
TimeOut == \E e \in ui.dep \cap Children, r \in Runs :
             proc[e][r] # "none" /\ StopReturns(e, r, "leaked")

Closed == /\ ui.pc = "close" /\ ui.dep = {}
          /\ ui' = [ui EXCEPT !.pc = "over"]
          /\ UNCHANGED <<comp, posts, phase, workers, tips, watch, kids>>

\* A scan records every listed path and drops the others.
Scan(ps) == [p \in ps |-> disk[p]]

\* Start of e, its run r, by its shape.  A Companion posts clear, or the report
\* of a failed start, before Start returns.
StartOf(e, r) ==
  /\ phase[e][r] = "new"
  /\ \A q \in Runs : q < r => phase[e][q] # "new"
  /\ phase' = [phase EXCEPT ![e][r] = "on"]
  /\ \/ /\ e \in Tickers
        /\ workers' = workers \cup {Worker(e, r, "tick", 0)}
        /\ UNCHANGED <<queue, watch, kids>>
     \/ /\ e \in Tips
        /\ UNCHANGED <<queue, workers, watch, kids>>
     \/ /\ e \in Watchers
        /\ workers' = workers \cup {Worker(e, r, "tick", 0)}
        /\ last' = [last EXCEPT ![e] = Scan(list[e])]
        /\ reply' = [reply EXCEPT ![e] = {}]
        /\ UNCHANGED <<queue, disk, list, kids>>
     \/ /\ e \in Children
        /\ queue' = Append(queue, Job("clear", e, r, 0))
        /\ workers' = workers \cup {Worker(e, r, "wait", 0)}
        /\ proc' = [proc EXCEPT ![e][r] = "up"]
        /\ UNCHANGED <<watch, err>>
     \/ /\ e \in Children
        /\ queue' = Append(queue, Job("failed", e, r, 0))
        /\ UNCHANGED <<workers, watch, kids>>

Start == /\ ui.pc = "stop" /\ ui.dep = {}
         /\ \E e \in tree \ On, r \in Runs : StartOf(e, r)
         /\ UNCHANGED <<comp, ui, batch, tips>>

Started == /\ ui.pc = "stop" /\ ui.dep = {} /\ tree \subseteq On
           /\ ui' = [ui EXCEPT !.pc = "loop"]
           /\ UNCHANGED <<comp, posts, phase, workers, tips, watch, kids>>

-----------------------------------------------------------------------------
(* The goroutines.                                                         *)

Becomes(w, ws) == workers' = (workers \ {w}) \cup ws

\* Mutant: a watcher that has asked waits for the answer alone.
QuitsUnlessAsking(w) == /\ w.at \in {"tick", "timer"}
                        /\ Gone(w.e, w.r)
                        /\ Becomes(w, {})
                        /\ UNCHANGED <<comp, ui, posts, phase, tips, watch, kids>>

\* done was closed, and the select took that case.
Quits(w) == /\ w.at \in {"tick", "timer", "reply"}
            /\ Gone(w.e, w.r)
            /\ Becomes(w, {})
            /\ UNCHANGED <<comp, ui, posts, phase, tips, watch, kids>>

\* A tick: Every posts fn, a watcher its question.  Bound: not while the one
\* before is still to run.
Tick(w) ==
  /\ w.at = "tick"
  /\ LET kind == IF w.e \in Tickers THEN "tick" ELSE "ask"
         job == Job(kind, w.e, w.r, 0)
     IN /\ \A i \in 1..Len(queue) : queue[i] # job
        /\ \A i \in 1..Len(batch) : batch[i] # job
        /\ queue' = Append(queue, job)
  /\ Becomes(w, IF w.e \in Watchers THEN {[w EXCEPT !.at = "reply"]} ELSE {w})
  /\ UNCHANGED <<comp, ui, batch, phase, tips, watch, kids>>

\* A delay fires, and done is not closed yet; then it posts.
Fires(w) == /\ w.at = "timer"
            /\ ~Gone(w.e, w.r)
            /\ Becomes(w, {[w EXCEPT !.at = "fired"]})
            /\ UNCHANGED <<comp, ui, posts, phase, tips, watch, kids>>

\* What posts once and is gone, and what posts a hit and polls on.
Posts(w) ==
  /\ w.at \in {"fired", "report", "hit"}
  /\ queue' = Append(queue, Job(IF w.at = "fired" THEN "show" ELSE w.at, w.e, w.r, w.arg))
  /\ Becomes(w, IF w.at = "hit" THEN {[w EXCEPT !.at = "tick"]} ELSE {})
  /\ UNCHANGED <<comp, ui, batch, phase, tips, watch, kids>>

\* The answer came: scan, and report a hit if a path known before has moved.
Polls(w) ==
  /\ w.at = "reply"
  /\ \E ps \in reply[w.e] :
       /\ last' = [last EXCEPT ![w.e] = Scan(ps)]
       /\ Becomes(w, {[w EXCEPT !.at =
            IF \E p \in ps \cap DOMAIN last[w.e] : last[w.e][p] # disk[p] THEN "hit" ELSE "tick"]})
  /\ reply' = [reply EXCEPT ![w.e] = {}]
  /\ UNCHANGED <<comp, ui, posts, phase, tips, disk, list, kids>>

\* svc.Wait returns, and done is closed.
Waited(w) == /\ w.at = "wait"
             /\ proc[w.e][w.r] = "dead"
             /\ Becomes(w, {[w EXCEPT !.at = "report"]})
             /\ UNCHANGED <<comp, ui, posts, phase, tips, watch, kids>>

\* The child dies, asked to or not.
Dies(c, r) == /\ proc[c][r] = "up"
              /\ proc' = [proc EXCEPT ![c][r] = "dead"]
              /\ UNCHANGED <<comp, ui, posts, phase, workers, tips, watch, err>>

Goroutine == \E w \in workers : \/ Quits(w) \/ Tick(w) \/ Fires(w) \/ Posts(w)
                                \/ Polls(w) \/ Waited(w)

-----------------------------------------------------------------------------
(* The UI goroutine's closures and handlers.                               *)

Drain == /\ ui.pc = "loop" /\ batch = <<>> /\ queue # <<>>
         /\ batch' = queue
         /\ queue' = <<>>
         /\ UNCHANGED <<comp, ui, phase, workers, tips, watch, kids>>

\* The select with a default: the answer goes to the channel of the run that
\* asked, which holds one.
Answer(j) == /\ reply' = [reply EXCEPT ![j.e] =
                  IF phase[j.e][j.r] # "on" \/ @ # {} THEN @ ELSE {list[j.e]}]
             /\ UNCHANGED <<tips, disk, list, last, kids>>

\* Mutant: showIf compares with the generation it finds.
ShowAnyway(j) == /\ shown' = [shown EXCEPT ![j.e] = TRUE]
                 /\ UNCHANGED <<over, gen, watch, kids>>

\* showIf.
Show(j) == /\ shown' = [shown EXCEPT ![j.e] = @ \/ j.arg = gen[j.e]]
           /\ UNCHANGED <<over, gen, watch, kids>>

\* Mutant: the report of a run that was stopped is reported all the same.
ReportAnyway(j) == /\ err' = [err EXCEPT ![j.e] = TRUE]
                   /\ UNCHANGED <<tips, watch, proc>>

\* The report of an exit or of a failed start, unless we asked for it.
Report(j) == /\ err' = [err EXCEPT ![j.e] = @ \/ ~Gone(j.e, j.r)]
             /\ UNCHANGED <<tips, watch, proc>>

Clear(j) == /\ err' = [err EXCEPT ![j.e] = FALSE]
            /\ UNCHANGED <<tips, watch, proc>>

RunJob == /\ ui.pc = "loop" /\ batch # <<>>
          /\ LET j == Head(batch) IN
               \/ j.kind \in {"tick", "hit"} /\ UNCHANGED <<tips, watch, kids>>
               \/ j.kind = "ask" /\ Answer(j)
               \/ j.kind = "show" /\ Show(j)
               \/ j.kind \in {"report", "failed"} /\ Report(j)
               \/ j.kind = "clear" /\ Clear(j)
          /\ batch' = Tail(batch)
          /\ UNCHANGED <<comp, ui, queue, phase, workers>>

\* Tooltip.PointerOver(true): show after the delay, or at once when no one has
\* started the composition.
PointerIn(t) ==
  /\ ui.pc = "loop" /\ batch = <<>>
  /\ t \in tree /\ ~over[t] /\ gen[t] < MaxHovers
  /\ over' = [over EXCEPT ![t] = TRUE]
  /\ gen' = [gen EXCEPT ![t] = @ + 1]
  /\ IF t \in On
     THEN /\ workers' = IF shown[t] THEN workers
                        ELSE workers \cup {Worker(t, RunOf(t), "timer", gen[t] + 1)}
          /\ shown' = shown
     ELSE /\ shown' = [shown EXCEPT ![t] = TRUE]
          /\ workers' = workers
  /\ UNCHANGED <<comp, ui, posts, phase, watch, kids>>

\* PointerOver(false), and Interrupted by a key or a press.
PointerOut(t) ==
  /\ ui.pc = "loop" /\ batch = <<>>
  /\ over[t]
  /\ over' = [over EXCEPT ![t] = FALSE]
  /\ gen' = [gen EXCEPT ![t] = @ + 1]
  /\ shown' = [shown EXCEPT ![t] = FALSE]
  /\ UNCHANGED <<comp, ui, posts, phase, workers, watch, kids>>

\* The viewmodel fills a bound list, or empties it.
Rebind(w, ps) == /\ ui.pc = "loop"
                 /\ list[w] # ps
                 /\ list' = [list EXCEPT ![w] = ps]
                 /\ UNCHANGED <<comp, ui, posts, phase, workers, tips, disk, last, reply, kids>>

Write(p) == /\ disk[p] < MaxWrites
            /\ disk' = [disk EXCEPT ![p] = @ + 1]
            /\ UNCHANGED <<comp, ui, posts, phase, workers, tips, list, last, reply, kids>>

UIStep == Sync \/ BeginStop \/ Join \/ TimeOut \/ Start \/ Started \/ Closed \/ Drain \/ RunJob

Next == \/ \E t \in Trees : Patch(t) \/ Swap(t)
        \/ Close \/ UIStep \/ Goroutine
        \/ \E c \in Children, r \in Runs : Dies(c, r)
        \/ \E t \in Tips : PointerIn(t) \/ PointerOut(t)
        \/ \E w \in Watchers, ps \in {{}, Paths} : Rebind(w, ps)
        \/ \E p \in Paths : Write(p)

(***************************************************************************)
(* The UI goroutine and every other goroutine keep running, tickers tick,  *)
(* and timers fire, a stop's own among them.  A child need not die.        *)
(***************************************************************************)
Fairness == /\ WF_vars(UIStep)
            /\ \A e \in Elems : WF_vars(\E w \in workers : w.e = e /\ Quits(w))
            /\ \A e \in Elems : WF_vars(\E w \in workers :
                 w.e = e /\ (Tick(w) \/ Fires(w) \/ Posts(w) \/ Polls(w) \/ Waited(w)))

Spec == Init /\ [][Next]_vars /\ Fairness

-----------------------------------------------------------------------------

PhaseSet == {"new", "on", "closing", "off", "leaked"}

\* The variables hold values of their types.
TypeOK == /\ tree \in SUBSET Elems
          /\ edited \in BOOLEAN /\ started \in BOOLEAN /\ edits \in 0..MaxEdits
          /\ ui \in [pc : {"loop", "stop", "close", "over"}, dep : SUBSET Elems]
          /\ phase \in [Elems -> [Runs -> PhaseSet]]
          /\ over \in [Tips -> BOOLEAN]
          /\ gen \in [Tips -> Nat]
          /\ shown \in [Tips -> BOOLEAN]
          /\ disk \in [Paths -> 0..MaxWrites]
          /\ list \in [Watchers -> SUBSET Paths]
          /\ \A w \in Watchers : Cardinality(reply[w]) <= 1
          /\ proc \in [Children -> [Runs -> {"none", "up", "dead"}]]
          /\ err \in [Children -> BOOLEAN]

\* Stop is a barrier (startable.go:21-26): once it has returned, nothing of that
\* run is ever posted again; only a Companion that was given up on may still
\* post its report.
StopIsBarrier ==
  [][Len(queue') > Len(queue) =>
       LET j == queue'[Len(queue')] IN phase[j.e][j.r] # "off"]_vars

\* A service never overlaps its replacement: the departed are stopped before the
\* arrivals are started (walkNodes), and a stop that gives up says so.  Every
\* tree of the instance declares the service once at most.
ServicesDoNotOverlap ==
  \A c, d \in Children, r, q \in Runs :
    /\ proc[c][r] = "up" /\ phase[c][r] # "leaked"
    /\ proc[d][q] = "up" /\ phase[d][q] # "leaked"
    => c = d /\ r = q

\* A tip is up only while the pointer rests where its delay began: a delay that
\* fires late is told by its generation (Tooltip.showIf).
TipsNeedHover == \A t \in Tips : shown[t] => over[t]

\* Companion.Error tells the truth when the loop has caught up: a live Companion
\* shows a failure exactly when its child did not start or is dead, whatever the
\* reports of its earlier runs did.
ErrorIsTrue ==
  \A c \in Children, r \in Runs :
    /\ queue = <<>> /\ batch = <<>>
    /\ IsOn(c, r)
    /\ proc[c][r] = "up" \/ WorkersOf(c, r) = {}
    => (err[c] <=> proc[c][r] # "up")

\* No join deadlocks the UI goroutine that runs it (filewatcher.go:195-199).
StopsReturn == ui.pc \in {"stop", "close"} ~> ui.pc \in {"loop", "over"}

\* A change to a watched path is noticed: a poll gets to it, however the answer
\* to the watcher's question and the goroutine that waits for it meet.
Behind(w, p) == /\ ui.pc # "over"
                /\ \E r \in Runs : IsOn(w, r)
                /\ p \in list[w] \cap DOMAIN last[w]
                /\ last[w][p] # disk[p]
ChangesAreSeen == \A w \in Watchers, p \in Paths : Behind(w, p) ~> ~Behind(w, p)
=============================================================================
