-------------------------- MODULE StartablesProofs --------------------------
(***************************************************************************)
(* Safety of the Startables for any of each shape and any number of edits: *)
(* a stop is a barrier, because a run that is off has no goroutine, and a  *)
(* tip that is up is hovered, because every delay that is still to show    *)
(* one, in a goroutine or in a closure, carries an old generation or the   *)
(* present one of a tip the pointer rests on.  Then what a service's error *)
(* will say, and that services do not overlap.                             *)
(***************************************************************************)
EXTENDS Startables, FiniteSetTheorems, SequenceTheorems, TLAPS

Ats == {"tick", "timer", "reply", "fired", "hit", "wait", "report"}
JobKinds == {"tick", "ask", "hit", "show", "report", "failed", "clear"}

WorkerSet == [e : Elems, r : Runs, at : Ats, arg : Nat]
JobSet == [kind : JobKinds, e : Elems, r : Runs, arg : Nat]

Types == /\ TypeOK
         /\ queue \in Seq(JobSet) /\ batch \in Seq(JobSet)
         /\ workers \in SUBSET WorkerSet
         /\ reply \in [Watchers -> SUBSET SUBSET Paths]

\* A run that is off has no goroutine.
OffIsQuiet == \A w \in workers : phase[w.e][w.r] # "off"

\* A delay begun at generation g of t may show a tip only under the pointer.
Timely(t, g) == t \in Tips /\ g <= gen[t] /\ (g = gen[t] => over[t])

TimersAreTimely == \A w \in workers : w.at \in {"timer", "fired"} => Timely(w.e, w.arg)

ShowsAreTimely ==
  /\ \A i \in 1..Len(queue) : queue[i].kind = "show" => Timely(queue[i].e, queue[i].arg)
  /\ \A i \in 1..Len(batch) : batch[i].kind = "show" => Timely(batch[i].e, batch[i].arg)

IInv == Types /\ OffIsQuiet /\ TimersAreTimely /\ ShowsAreTimely /\ TipsNeedHover

\* What StopIsBarrier says of a step.
Barrier == Len(queue') > Len(queue) =>
             LET j == queue'[Len(queue')] IN phase[j.e][j.r] # "off"

-----------------------------------------------------------------------------

\* In the beginning nothing runs.
LEMMA InitHolds == Init => IInv
<1> SUFFICES ASSUME Init PROVE IInv
  OBVIOUS
<1>1. tree \in SUBSET Elems /\ 0 \in 0..MaxEdits /\ 0 \in 0..MaxWrites
  BY TreesAssumption, BoundsAssumption DEF Init
<1>2. \A w \in Watchers : Cardinality(reply[w]) = 0
  BY FS_EmptySet DEF Init
<1>3. queue \in Seq(JobSet) /\ batch \in Seq(JobSet)
  BY EmptySeq DEF Init
<1>4. ui \in [pc : {"loop", "stop", "close", "over"}, dep : SUBSET Elems]
  BY DEF Init
<1>5. /\ phase \in [Elems -> [Runs -> PhaseSet]]
      /\ proc \in [Children -> [Runs -> {"none", "up", "dead"}]]
      /\ over \in [Tips -> BOOLEAN] /\ gen \in [Tips -> Nat] /\ shown \in [Tips -> BOOLEAN]
      /\ err \in [Children -> BOOLEAN]
      /\ reply \in [Watchers -> SUBSET SUBSET Paths]
      /\ disk \in [Paths -> 0..MaxWrites] /\ list \in [Watchers -> SUBSET Paths]
  BY <1>1 DEF Init, PhaseSet
<1>5a. edited \in BOOLEAN /\ started \in BOOLEAN /\ edits \in 0..MaxEdits /\ workers = {}
  BY <1>1 DEF Init
<1>5b. Types
  BY <1>1, <1>2, <1>3, <1>4, <1>5, <1>5a DEF Types, TypeOK
<1>6. OffIsQuiet /\ TimersAreTimely /\ ShowsAreTimely /\ TipsNeedHover
  BY DEF Init, OffIsQuiet, TimersAreTimely, ShowsAreTimely, TipsNeedHover
<1> QED
  BY <1>5b, <1>6 DEF IInv

\* What a queue of closures holds.
LEMMA JobOfSeq ==
  ASSUME NEW s \in Seq(JobSet), NEW i \in 1..Len(s)
  PROVE  s[i] \in JobSet /\ s[i].arg \in Nat
<1>1. s[i] \in JobSet
  BY ElementOfSeq
<1> QED
  BY <1>1 DEF JobSet

\* Appending keeps what is said of the closures that are to run.
LEMMA PostKeeps ==
  ASSUME Types, ShowsAreTimely, NEW j \in JobSet, queue' = Append(queue, j),
         UNCHANGED <<batch, tips>>, j.kind = "show" => Timely(j.e, j.arg)
  PROVE  /\ queue' \in Seq(JobSet) /\ batch' \in Seq(JobSet)
         /\ ShowsAreTimely'
         /\ queue'[Len(queue')] = j
<1>1. queue \in Seq(JobSet) /\ batch \in Seq(JobSet)
  BY DEF Types
<1>2. /\ queue' \in Seq(JobSet) /\ Len(queue') = Len(queue) + 1 /\ Len(queue) \in Nat
      /\ queue'[Len(queue) + 1] = j
      /\ \A i \in 1..Len(queue) : queue'[i] = queue[i]
  BY <1>1, AppendProperties, LenProperties
<1>3. \A i \in 1..Len(queue') : i \in 1..Len(queue) \/ i = Len(queue) + 1
  BY <1>2
<1>4. \A i \in 1..Len(queue') :
        queue'[i].kind = "show" => Timely(queue'[i].e, queue'[i].arg)
  BY <1>2, <1>3 DEF ShowsAreTimely
<1>5. ShowsAreTimely'
  BY <1>4 DEF ShowsAreTimely, Timely, tips
<1> QED
  BY <1>1, <1>2, <1>5

\* A reply channel that is read, or made, is empty.
LEMMA EmptiedReply ==
  ASSUME Types, NEW e, reply' = reply \/ reply' = [reply EXCEPT ![e] = {}]
  PROVE  /\ reply' \in [Watchers -> SUBSET SUBSET Paths]
         /\ \A w \in Watchers : Cardinality(reply'[w]) <= 1
<1>1. reply \in [Watchers -> SUBSET SUBSET Paths]
  BY DEF Types
<1>2. \A w \in Watchers : reply'[w] = reply[w] \/ reply'[w] = {}
  BY <1>1
<1>3. reply' \in [Watchers -> SUBSET SUBSET Paths]
  BY <1>1
<1>4. Cardinality({}) = 0
  BY FS_EmptySet
<1>5. \A w \in Watchers : Cardinality(reply[w]) <= 1
  BY DEF Types, TypeOK
<1>6. \A w \in Watchers : Cardinality(reply'[w]) \in {Cardinality(reply[w]), 0}
  <2> TAKE w \in Watchers
  <2>1. CASE reply'[w] = reply[w]
    BY <2>1
  <2>2. CASE reply'[w] = {}
    BY <2>2, <1>4
  <2> QED
    BY <1>2, <2>1, <2>2
<1> QED
  BY <1>3, <1>5, <1>6

\* Goroutines that end, and one that goes on elsewhere, keep what is said of them.
LEMMA BecomesKeeps ==
  ASSUME IInv, NEW w \in workers, NEW at \in Ats,
         workers' \subseteq workers \cup {[w EXCEPT !.at = at]},
         at \in {"timer", "fired"} => w.at \in {"timer", "fired"},
         UNCHANGED <<phase, tips>>
  PROVE  workers' \in SUBSET WorkerSet /\ OffIsQuiet' /\ TimersAreTimely'
<1> DEFINE v == [w EXCEPT !.at = at]
<1>1. w \in WorkerSet /\ v \in WorkerSet /\ v.e = w.e /\ v.r = w.r /\ v.arg = w.arg /\ v.at = at
  BY DEF IInv, Types, WorkerSet
<1> HIDE DEF v
<1>2. \A x \in workers' : x \in workers \/ x = v
  BY DEF v
<1>3. workers' \in SUBSET WorkerSet
  BY <1>1, <1>2 DEF IInv, Types
<1>4. OffIsQuiet'
  BY <1>1, <1>2 DEF IInv, OffIsQuiet
<1>5. TimersAreTimely'
  BY <1>1, <1>2 DEF IInv, TimersAreTimely, Timely, tips
<1> QED
  BY <1>3, <1>4, <1>5

-----------------------------------------------------------------------------
(* The Composer.                                                           *)

\* Edits, swaps, frames and the ends of them leave the goroutines alone.
LEMMA ComposerKeeps ==
  ASSUME IInv, \/ \E t \in Trees : Patch(t) \/ Swap(t)
               \/ Close \/ Sync \/ Closed \/ Started
  PROVE  IInv' /\ Barrier
<1>1. UNCHANGED <<posts, phase, workers, tips, watch, kids>>
  BY DEF Patch, Swap, Close, Sync, Closed, Started
<1> DEFINE Ui == [pc : {"loop", "stop", "close", "over"}, dep : SUBSET Elems]
           Edits == /\ tree' \in SUBSET Elems /\ edited' \in BOOLEAN /\ started' \in BOOLEAN
                    /\ edits' \in 0..MaxEdits
<1>2. On \in SUBSET Elems
  BY DEF On
<1>3. /\ tree \in SUBSET Elems /\ edited \in BOOLEAN /\ started \in BOOLEAN
      /\ edits \in 0..MaxEdits /\ ui \in Ui
  BY DEF IInv, Types, TypeOK
<1>4. Edits /\ ui' \in Ui
  <2>1. CASE \E t \in Trees : Patch(t)
    <3>1. edits < MaxEdits /\ edits' = edits + 1 /\ edited' = TRUE /\ started' = started /\ ui' = ui
          /\ tree' \in Trees
      BY <2>1 DEF Patch, MayEdit
    <3> QED
      BY <3>1, <1>3, TreesAssumption, BoundsAssumption
  <2>2. CASE \E t \in Trees : Swap(t)
    <3>1. edits < MaxEdits /\ edits' = edits + 1 /\ edited' = FALSE /\ started' = TRUE
          /\ ui' = [pc |-> "stop", dep |-> On] /\ tree' \in Trees
      BY <2>2 DEF Swap, MayEdit
    <3>2. ui' \in Ui
      BY <3>1, <1>2
    <3>3. edits' \in 0..MaxEdits /\ tree' \in SUBSET Elems
      BY <3>1, <1>3, TreesAssumption, BoundsAssumption
    <3> QED
      BY <3>1, <3>2, <3>3
  <2>3. CASE Close
    BY <2>3, <1>2, <1>3 DEF Close, comp
  <2>4. CASE Sync
    <3>1. ui' = ui \/ ui' = [pc |-> "stop", dep |-> On \ tree]
      BY <2>4 DEF Sync
    <3>2. ui' \in Ui
      BY <3>1, <1>2, <1>3
    <3> QED
      BY <2>4, <3>2, <1>3 DEF Sync
  <2>5. CASE Closed \/ Started
    <3>1. UNCHANGED comp /\ \E where \in {"over", "loop"} : ui' = [ui EXCEPT !.pc = where]
      BY <2>5 DEF Closed, Started
    <3> QED
      BY <3>1, <1>3 DEF comp
  <2> QED
    BY <2>1, <2>2, <2>3, <2>4, <2>5
<1>5. Types'
  BY <1>1, <1>4 DEF IInv, Types, TypeOK, posts, tips, watch, kids
<1> QED
  BY <1>1, <1>5 DEF IInv, OffIsQuiet, TimersAreTimely, ShowsAreTimely, TipsNeedHover, Timely, Barrier,
     posts, tips

\* A stop begins: the run is closing.
LEMMA BeginStopKeeps == ASSUME IInv, BeginStop PROVE IInv' /\ Barrier
<1>1. PICK e \in ui.dep, r \in Runs : /\ IsOn(e, r)
                                      /\ phase' = [phase EXCEPT ![e][r] = "closing"]
  BY DEF BeginStop
<1>2. UNCHANGED <<comp, ui, posts, workers, tips, watch, kids>>
  BY DEF BeginStop
<1>3. phase \in [Elems -> [Runs -> PhaseSet]]
  BY DEF IInv, Types, TypeOK
<1>4. /\ phase' \in [Elems -> [Runs -> PhaseSet]]
      /\ \A d \in Elems, q \in Runs : phase'[d][q] = phase[d][q] \/ phase'[d][q] = "closing"
  BY <1>1, <1>3 DEF PhaseSet
<1>5. Types'
  BY <1>2, <1>4 DEF IInv, Types, TypeOK, comp, posts, tips, watch, kids
<1>6. OffIsQuiet'
  BY <1>2, <1>4 DEF IInv, Types, OffIsQuiet, WorkerSet
<1> QED
  BY <1>2, <1>5, <1>6 DEF IInv, TimersAreTimely, ShowsAreTimely, TipsNeedHover, Timely, Barrier, posts, tips

\* A stop returns: the run is off when it has no goroutine left, or else leaked.
LEMMA StopReturnsKeeps == ASSUME IInv, Join \/ TimeOut PROVE IInv' /\ Barrier
<1>1. PICK e \in ui.dep, r \in Runs, how \in {"off", "leaked"} :
        StopReturns(e, r, how) /\ (how = "off" => WorkersOf(e, r) = {})
  BY DEF Join, TimeOut, Joined
<1>2. /\ phase' = [phase EXCEPT ![e][r] = how] /\ ui' = [ui EXCEPT !.dep = ui.dep \ {e}]
      /\ UNCHANGED <<comp, posts, workers, tips, watch, kids>>
  BY <1>1 DEF StopReturns
<1>3. phase \in [Elems -> [Runs -> PhaseSet]]
      /\ ui \in [pc : {"loop", "stop", "close", "over"}, dep : SUBSET Elems]
  BY DEF IInv, Types, TypeOK
<1>4. /\ phase' \in [Elems -> [Runs -> PhaseSet]]
      /\ \A d \in Elems, q \in Runs :
           phase'[d][q] = phase[d][q] \/ (d = e /\ q = r /\ phase'[d][q] = how)
  BY <1>2, <1>3 DEF PhaseSet
<1>5. ui' \in [pc : {"loop", "stop", "close", "over"}, dep : SUBSET Elems]
  BY <1>2, <1>3
<1>6. Types'
  BY <1>2, <1>4, <1>5 DEF IInv, Types, TypeOK, comp, posts, tips, watch, kids
<1>7. OffIsQuiet'
  BY <1>1, <1>2, <1>4 DEF IInv, Types, OffIsQuiet, WorkerSet, WorkersOf
<1> QED
  BY <1>2, <1>6, <1>7 DEF IInv, TimersAreTimely, ShowsAreTimely, TipsNeedHover, Timely, Barrier, posts, tips

\* A run begins.  What it posts, if anything, is of a run that was new.
LEMMA StartKeeps == ASSUME IInv, Start PROVE IInv' /\ Barrier
<1>1. PICK e \in tree \ On, r \in Runs : StartOf(e, r)
  BY DEF Start
<1>2. UNCHANGED <<comp, ui, batch, tips>>
  BY DEF Start
<1>3. e \in Elems /\ phase \in [Elems -> [Runs -> PhaseSet]] /\ phase[e][r] = "new"
      /\ phase' = [phase EXCEPT ![e][r] = "on"]
  BY <1>1 DEF IInv, Types, TypeOK, StartOf
<1>4. /\ phase' \in [Elems -> [Runs -> PhaseSet]]
      /\ \A d \in Elems, q \in Runs : phase'[d][q] = phase[d][q] \/ phase'[d][q] = "on"
      /\ phase'[e][r] = "on"
  BY <1>3 DEF PhaseSet
<1>5. PICK at \in {"tick", "wait"} :
        workers' \subseteq workers \cup {[e |-> e, r |-> r, at |-> at, arg |-> 0]}
  BY <1>1 DEF StartOf, Worker
<1>6. [e |-> e, r |-> r, at |-> at, arg |-> 0] \in WorkerSet
  BY <1>3 DEF WorkerSet, Ats
<1>7. /\ workers' \in SUBSET WorkerSet
      /\ \A w \in workers' : w \in workers \/ (w.e = e /\ w.r = r /\ w.at \notin {"timer", "fired"})
  BY <1>5, <1>6 DEF IInv, Types
<1>8. OffIsQuiet'
  BY <1>4, <1>7 DEF IInv, Types, OffIsQuiet, WorkerSet
<1>9. TimersAreTimely'
  BY <1>2, <1>7 DEF IInv, TimersAreTimely, Timely, tips
<1>10. /\ queue' \in Seq(JobSet) /\ batch' \in Seq(JobSet) /\ ShowsAreTimely' /\ Barrier
  <2>1. CASE queue' = queue
    BY <1>2, <2>1 DEF IInv, Types, ShowsAreTimely, Timely, tips, Barrier
  <2>2. CASE queue' # queue
    <3>1. PICK kind \in {"clear", "failed"} :
            queue' = Append(queue, [kind |-> kind, e |-> e, r |-> r, arg |-> 0])
      BY <1>1, <2>2 DEF StartOf, Job
    <3>2. PICK j \in JobSet : /\ queue' = Append(queue, j) /\ j.kind # "show"
                              /\ j.e = e /\ j.r = r
      BY <1>3, <3>1 DEF JobSet, JobKinds
    <3>3. /\ queue' \in Seq(JobSet) /\ batch' \in Seq(JobSet) /\ ShowsAreTimely'
          /\ queue'[Len(queue')] = j
      BY <3>2, <1>2, PostKeeps DEF IInv
    <3> QED
      BY <3>2, <3>3, <1>3 DEF Barrier
  <2> QED
    BY <2>1, <2>2
<1>10a. /\ reply' \in [Watchers -> SUBSET SUBSET Paths]
        /\ \A w \in Watchers : Cardinality(reply'[w]) <= 1
  <2>1. reply' = reply \/ reply' = [reply EXCEPT ![e] = {}]
    BY <1>1 DEF StartOf, watch
  <2> QED
    BY <2>1, EmptiedReply DEF IInv
<1>11. TypeOK'
  <2>1. /\ disk' = disk /\ list' = list /\ err' = err
        /\ proc' = proc \/ (e \in Children /\ proc' = [proc EXCEPT ![e][r] = "up"])
    BY <1>1 DEF StartOf, watch, kids
  <2>1a. proc \in [Children -> [Runs -> {"none", "up", "dead"}]]
    BY DEF IInv, Types, TypeOK
  <2>2. proc' \in [Children -> [Runs -> {"none", "up", "dead"}]]
    BY <2>1, <2>1a
  <2> QED
    BY <1>2, <1>4, <2>1, <2>2, <1>10a DEF IInv, Types, TypeOK, comp, tips
<1>12. Types'
  BY <1>7, <1>10, <1>10a, <1>11 DEF Types
<1> QED
  BY <1>2, <1>8, <1>9, <1>10, <1>12 DEF IInv, TipsNeedHover, tips

-----------------------------------------------------------------------------
(* The goroutines.                                                         *)

\* What none of their steps touches.
LEMMA GoroutineTypes ==
  ASSUME IInv, UNCHANGED <<comp, ui, phase, tips, disk, list, kids>>, NEW e,
         reply' = reply \/ reply' = [reply EXCEPT ![e] = {}]
  PROVE  TypeOK' /\ reply' \in [Watchers -> SUBSET SUBSET Paths] /\ TipsNeedHover'
BY EmptiedReply DEF IInv, Types, TypeOK, TipsNeedHover, comp, tips, kids

\* A goroutine that quits, waits or fires posts nothing.
LEMMA SilentKeeps ==
  ASSUME IInv, NEW w \in workers, Quits(w) \/ Fires(w) \/ Waited(w)
  PROVE  IInv' /\ Barrier
<1>1. UNCHANGED <<comp, ui, posts, phase, tips, watch, kids>>
  BY DEF Quits, Fires, Waited
<1>2. PICK at \in Ats : /\ workers' \subseteq workers \cup {[w EXCEPT !.at = at]}
                        /\ at \in {"timer", "fired"} => w.at \in {"timer", "fired"}
  BY DEF Quits, Fires, Waited, Becomes, Ats
<1>3. workers' \in SUBSET WorkerSet /\ OffIsQuiet' /\ TimersAreTimely'
  BY <1>1, <1>2, BecomesKeeps
<1>4. TypeOK' /\ reply' \in [Watchers -> SUBSET SUBSET Paths] /\ TipsNeedHover'
  BY <1>1, GoroutineTypes DEF watch
<1> QED
  BY <1>1, <1>3, <1>4 DEF IInv, Types, ShowsAreTimely, Timely, tips, posts, Barrier

\* A scan, and what it finds.
LEMMA PollsKeeps == ASSUME IInv, NEW w \in workers, Polls(w) PROVE IInv' /\ Barrier
<1>1. UNCHANGED <<comp, ui, posts, phase, tips, disk, list, kids>>
      /\ reply' = [reply EXCEPT ![w.e] = {}]
  BY DEF Polls
<1>2. PICK at \in {"hit", "tick"} : workers' \subseteq workers \cup {[w EXCEPT !.at = at]}
  BY DEF Polls, Becomes
<1>3. workers' \in SUBSET WorkerSet /\ OffIsQuiet' /\ TimersAreTimely'
  BY <1>1, <1>2, BecomesKeeps DEF Ats
<1>4. TypeOK' /\ reply' \in [Watchers -> SUBSET SUBSET Paths] /\ TipsNeedHover'
  BY <1>1, GoroutineTypes
<1> QED
  BY <1>1, <1>3, <1>4 DEF IInv, Types, ShowsAreTimely, Timely, tips, posts, Barrier

\* A tick, a delay that has fired, a report and a hit post for their own run.
LEMMA PostingKeeps ==
  ASSUME IInv, NEW w \in workers, Tick(w) \/ Posts(w)
  PROVE  IInv' /\ Barrier
<1>1. UNCHANGED <<comp, ui, batch, phase, tips, watch, kids>>
  BY DEF Tick, Posts
<1>2. w \in WorkerSet /\ w.e \in Elems /\ w.r \in Runs /\ w.arg \in Nat
  BY DEF IInv, Types, WorkerSet
<1>3. PICK kind \in JobKinds, arg \in Nat :
        /\ queue' = Append(queue, [kind |-> kind, e |-> w.e, r |-> w.r, arg |-> arg])
        /\ kind = "show" => w.at = "fired" /\ arg = w.arg
  <2>1. CASE Tick(w)
    BY <2>1 DEF Tick, Job, JobKinds
  <2>2. CASE Posts(w)
    BY <2>2, <1>2 DEF Posts, Job, JobKinds
  <2> QED
    BY <2>1, <2>2
<1>4. PICK j \in JobSet : /\ queue' = Append(queue, j) /\ j.e = w.e /\ j.r = w.r
                          /\ j.kind = "show" => w.at = "fired" /\ j.arg = w.arg
  BY <1>2, <1>3 DEF JobSet
<1>5. j.kind = "show" => Timely(j.e, j.arg)
  BY <1>4 DEF IInv, TimersAreTimely
<1>6. /\ queue' \in Seq(JobSet) /\ batch' \in Seq(JobSet) /\ ShowsAreTimely'
      /\ queue'[Len(queue')] = j
  BY <1>1, <1>4, <1>5, PostKeeps DEF IInv
<1>7. Barrier
  BY <1>4, <1>6 DEF Barrier, IInv, OffIsQuiet
<1>8. workers' \subseteq workers \cup {[w EXCEPT !.at = "tick"], [w EXCEPT !.at = "reply"]}
      /\ \E at \in {"tick", "reply"} : workers' \subseteq workers \cup {[w EXCEPT !.at = at]}
  BY DEF Tick, Posts, Becomes
<1>9. workers' \in SUBSET WorkerSet /\ OffIsQuiet' /\ TimersAreTimely'
  BY <1>1, <1>8, BecomesKeeps DEF Ats
<1>10. TypeOK' /\ reply' \in [Watchers -> SUBSET SUBSET Paths] /\ TipsNeedHover'
  BY <1>1, GoroutineTypes DEF watch
<1> QED
  BY <1>6, <1>7, <1>9, <1>10 DEF IInv, Types

-----------------------------------------------------------------------------
(* The UI goroutine's closures, and what happens outside.                  *)

\* Drain takes the queue whole.
LEMMA DrainKeeps == ASSUME IInv, Drain PROVE IInv' /\ Barrier
<1>1. /\ batch' = queue /\ queue' = <<>>
      /\ UNCHANGED <<comp, ui, phase, workers, tips, watch, kids>>
  BY DEF Drain
<1>2. Len(queue) \in Nat /\ Len(queue') = 0 /\ queue' \in Seq(JobSet)
  BY <1>1, LenProperties, EmptySeq DEF IInv, Types
<1>3. Types'
  BY <1>1, <1>2 DEF IInv, Types, TypeOK, comp, tips, watch, kids
<1>4. Barrier
  BY <1>2 DEF Barrier
<1> QED
  BY <1>1, <1>2, <1>3, <1>4 DEF IInv, OffIsQuiet, TimersAreTimely, ShowsAreTimely, TipsNeedHover,
     Timely, tips

\* A closure runs; the one that shows a tip finds its generation current or not.
LEMMA RunJobKeeps == ASSUME IInv, RunJob PROVE IInv' /\ Barrier
<1> DEFINE j == Head(batch)
<1>1. /\ batch # <<>> /\ batch' = Tail(batch)
      /\ UNCHANGED <<comp, ui, queue, phase, workers>>
  BY DEF RunJob
<1>2. /\ j = batch[1] /\ 1 \in 1..Len(batch) /\ j \in JobSet
      /\ batch' \in Seq(JobSet) /\ Len(batch') = Len(batch) - 1 /\ Len(batch) \in Nat
      /\ \A i \in 1..Len(batch') : batch'[i] = batch[i + 1] /\ i + 1 \in 1..Len(batch)
  BY <1>1, HeadTailProperties, LenProperties, EmptySeq DEF IInv, Types
<1>3. UNCHANGED <<over, gen, disk, list, last, proc>>
  BY DEF RunJob, Answer, Show, Report, Clear, tips, watch, kids
<1>4. ShowsAreTimely'
  BY <1>1, <1>2, <1>3 DEF IInv, ShowsAreTimely, Timely
<1>5. OffIsQuiet' /\ TimersAreTimely'
  BY <1>1, <1>3 DEF IInv, OffIsQuiet, TimersAreTimely, Timely
<1>6. shown' \in [Tips -> BOOLEAN] /\ TipsNeedHover'
  <2>1. CASE shown' = shown
    BY <2>1, <1>3 DEF IInv, Types, TypeOK, TipsNeedHover
  <2>2. CASE shown' # shown
    <3>1. j.kind = "show" /\ Show(j)
      BY <2>2 DEF RunJob, Answer, Report, Clear, tips
    <3>2. Timely(j.e, j.arg)
      BY <3>1, <1>2 DEF IInv, ShowsAreTimely
    <3>3. shown' = [shown EXCEPT ![j.e] = shown[j.e] \/ j.arg = gen[j.e]]
      BY <3>1 DEF Show
    <3>4. shown \in [Tips -> BOOLEAN] /\ j.e \in Tips
      BY <3>2 DEF IInv, Types, TypeOK, Timely
    <3>5. /\ shown' \in [Tips -> BOOLEAN]
          /\ \A t \in Tips : shown'[t] => shown[t] \/ (t = j.e /\ j.arg = gen[t])
      BY <3>3, <3>4
    <3> QED
      BY <3>2, <3>5, <1>3 DEF IInv, TipsNeedHover, Timely
  <2> QED
    BY <2>1, <2>2
<1>7. err' \in [Children -> BOOLEAN]
  <2>1. err \in [Children -> BOOLEAN]
    BY DEF IInv, Types, TypeOK
  <2>2. err' = err \/ err' = [err EXCEPT ![j.e] = FALSE]
        \/ err' = [err EXCEPT ![j.e] = err[j.e] \/ ~Gone(j.e, j.r)]
    BY DEF RunJob, Answer, Show, Report, Clear, kids
  <2> QED
    BY <2>1, <2>2
<1>8. /\ reply' \in [Watchers -> SUBSET SUBSET Paths]
      /\ \A w \in Watchers : Cardinality(reply'[w]) <= 1
  <2>1. /\ reply \in [Watchers -> SUBSET SUBSET Paths] /\ list \in [Watchers -> SUBSET Paths]
        /\ \A w \in Watchers : Cardinality(reply[w]) <= 1
    BY DEF IInv, Types, TypeOK
  <2>2. reply' = reply \/ reply' = [reply EXCEPT ![j.e] = {list[j.e]}]
    <3>1. CASE UNCHANGED watch
      BY <3>1 DEF watch
    <3>2. CASE Answer(j)
      <4>1. \/ reply' = [reply EXCEPT ![j.e] = reply[j.e]]
            \/ reply' = [reply EXCEPT ![j.e] = {list[j.e]}]
        BY <3>2 DEF Answer
      <4> QED
        BY <4>1, <2>1
    <3> QED
      BY <3>1, <3>2 DEF RunJob, Show, Report, Clear
  <2>3. \A w \in Watchers : reply'[w] = reply[w] \/ reply'[w] = {list[w]}
    BY <2>1, <2>2
  <2>4. \A w \in Watchers : Cardinality({list[w]}) = 1
    BY FS_Singleton
  <2> QED
    BY <2>1, <2>2, <2>3, <2>4
<1>9. Types'
  BY <1>1, <1>2, <1>3, <1>6, <1>7, <1>8 DEF IInv, Types, TypeOK, comp
<1>10. Barrier
  BY <1>1, LenProperties DEF Barrier, IInv, Types
<1> QED
  BY <1>4, <1>5, <1>6, <1>9, <1>10 DEF IInv

\* The pointer comes: a new generation, over a tip that is hovered.
LEMMA PointerInKeeps == ASSUME IInv, NEW t \in Tips, PointerIn(t) PROVE IInv' /\ Barrier
<1>1. /\ over' = [over EXCEPT ![t] = TRUE] /\ gen' = [gen EXCEPT ![t] = gen[t] + 1]
      /\ UNCHANGED <<comp, ui, posts, phase, watch, kids>>
  BY DEF PointerIn
<1>2. /\ gen \in [Tips -> Nat] /\ over \in [Tips -> BOOLEAN] /\ shown \in [Tips -> BOOLEAN]
      /\ phase \in [Elems -> [Runs -> PhaseSet]] /\ t \in Elems
  BY DEF IInv, Types, TypeOK, Elems
<1>3. /\ gen' \in [Tips -> Nat] /\ over' \in [Tips -> BOOLEAN]
      /\ \A u \in Tips : gen'[u] = IF u = t THEN gen[u] + 1 ELSE gen[u]
      /\ \A u \in Tips : over'[u] = IF u = t THEN TRUE ELSE over[u]
  BY <1>1, <1>2
<1>4. shown' = shown \/ shown' = [shown EXCEPT ![t] = TRUE]
  BY DEF PointerIn
<1>5. shown' \in [Tips -> BOOLEAN] /\ TipsNeedHover'
  BY <1>2, <1>3, <1>4 DEF IInv, TipsNeedHover
<1>6. \A u \in Tips, g \in Nat :
        Timely(u, g) => g <= gen'[u] /\ (g = gen'[u] => over'[u])
  <2> SUFFICES ASSUME NEW u \in Tips, NEW g \in Nat, Timely(u, g)
               PROVE  g <= gen'[u] /\ (g = gen'[u] => over'[u])
    OBVIOUS
  <2>1. CASE u = t
    BY <1>2, <1>3, <2>1 DEF Timely
  <2>2. CASE u # t
    BY <1>3, <2>2 DEF Timely
  <2> QED
    BY <2>1, <2>2
<1>7. ShowsAreTimely'
  <2>1. \A i \in 1..Len(queue) : queue[i].arg \in Nat
    BY JobOfSeq DEF IInv, Types
  <2>2. \A i \in 1..Len(batch) : batch[i].arg \in Nat
    BY JobOfSeq DEF IInv, Types
  <2> QED
    BY <1>1, <1>6, <2>1, <2>2 DEF IInv, ShowsAreTimely, Timely, posts
<1>8. /\ \A w \in workers' : w \in workers \/ (t \in On /\ w = [e |-> t, r |-> RunOf(t), at |-> "timer", arg |-> gen[t] + 1])
  BY DEF PointerIn, Worker
<1>9. t \in On => RunOf(t) \in Runs /\ phase[t][RunOf(t)] = "on"
  BY DEF On, RunOf, IsOn
<1>10. /\ workers' \in SUBSET WorkerSet
       /\ \A w \in workers' : w \in workers \/ (w.e = t /\ w.arg = gen[t] + 1 /\ phase[w.e][w.r] = "on")
  BY <1>2, <1>8, <1>9 DEF IInv, Types, WorkerSet, Ats
<1>11. OffIsQuiet'
  BY <1>1, <1>10 DEF IInv, OffIsQuiet
<1>12. TimersAreTimely'
  <2>1. gen'[t] = gen[t] + 1 /\ over'[t]
    BY <1>3
  <2>2. \A w \in workers : w.arg \in Nat
    BY DEF IInv, Types, WorkerSet
  <2>3. \A w \in workers : w.at \in {"timer", "fired"} =>
          w.e \in Tips /\ w.arg <= gen'[w.e] /\ (w.arg = gen'[w.e] => over'[w.e])
    BY <1>6, <2>2 DEF IInv, TimersAreTimely, Timely
  <2>4. \A w \in workers' : w \notin workers =>
          w.e \in Tips /\ w.arg <= gen'[w.e] /\ (w.arg = gen'[w.e] => over'[w.e])
    BY <1>2, <1>10, <2>1
  <2> QED
    BY <2>3, <2>4 DEF TimersAreTimely, Timely
<1>13. Types'
  BY <1>1, <1>3, <1>5, <1>10 DEF IInv, Types, TypeOK, comp, posts, watch, kids
<1> QED
  BY <1>1, <1>5, <1>7, <1>11, <1>12, <1>13 DEF IInv, Barrier, posts

\* The pointer goes: the generation that is pending is an old one.
LEMMA PointerOutKeeps == ASSUME IInv, NEW t \in Tips, PointerOut(t) PROVE IInv' /\ Barrier
<1>1. /\ over' = [over EXCEPT ![t] = FALSE] /\ gen' = [gen EXCEPT ![t] = gen[t] + 1]
      /\ shown' = [shown EXCEPT ![t] = FALSE]
      /\ UNCHANGED <<comp, ui, posts, phase, workers, watch, kids>>
  BY DEF PointerOut
<1>2. gen \in [Tips -> Nat] /\ over \in [Tips -> BOOLEAN] /\ shown \in [Tips -> BOOLEAN]
  BY DEF IInv, Types, TypeOK
<1>3. /\ gen' \in [Tips -> Nat] /\ over' \in [Tips -> BOOLEAN] /\ shown' \in [Tips -> BOOLEAN]
      /\ \A u \in Tips : gen'[u] = IF u = t THEN gen[u] + 1 ELSE gen[u]
      /\ \A u \in Tips : u # t => over'[u] = over[u] /\ shown'[u] = shown[u]
      /\ shown'[t] = FALSE
  BY <1>1, <1>2
<1>4. TipsNeedHover'
  BY <1>3 DEF IInv, TipsNeedHover
<1>5. \A u \in Tips, g \in Nat :
        Timely(u, g) => g <= gen'[u] /\ (g = gen'[u] => over'[u])
  BY <1>2, <1>3 DEF Timely
<1>6. ShowsAreTimely'
  <2>1. \A i \in 1..Len(queue) : queue[i].arg \in Nat
    BY JobOfSeq DEF IInv, Types
  <2>2. \A i \in 1..Len(batch) : batch[i].arg \in Nat
    BY JobOfSeq DEF IInv, Types
  <2> QED
    BY <1>1, <1>5, <2>1, <2>2 DEF IInv, ShowsAreTimely, Timely, posts
<1>7. TimersAreTimely' /\ OffIsQuiet'
  <2>1. \A w \in workers : w.arg \in Nat
    BY DEF IInv, Types, WorkerSet
  <2> QED
    BY <1>1, <1>5, <2>1 DEF IInv, TimersAreTimely, Timely, OffIsQuiet
<1>8. Types'
  BY <1>1, <1>3 DEF IInv, Types, TypeOK, comp, posts, watch, kids
<1> QED
  BY <1>1, <1>4, <1>6, <1>7, <1>8 DEF IInv, Barrier, posts

\* A child dies, the viewmodel rebinds, a file is written.
LEMMA OutsideKeeps ==
  ASSUME IInv, \/ \E c \in Children, r \in Runs : Dies(c, r)
               \/ \E w \in Watchers, ps \in {{}, Paths} : Rebind(w, ps)
               \/ \E p \in Paths : Write(p)
  PROVE  IInv' /\ Barrier
<1>1. UNCHANGED <<comp, ui, posts, phase, workers, tips, last, reply, err>>
  BY DEF Dies, Rebind, Write, watch, kids
<1>2. /\ proc' \in [Children -> [Runs -> {"none", "up", "dead"}]]
      /\ list' \in [Watchers -> SUBSET Paths] /\ disk' \in [Paths -> 0..MaxWrites]
  <2>1. /\ proc \in [Children -> [Runs -> {"none", "up", "dead"}]]
        /\ list \in [Watchers -> SUBSET Paths] /\ disk \in [Paths -> 0..MaxWrites]
    BY DEF IInv, Types, TypeOK
  <2>2. CASE \E c \in Children, r \in Runs : Dies(c, r)
    BY <2>1, <2>2 DEF Dies, watch
  <2>3. CASE \E w \in Watchers, ps \in {{}, Paths} : Rebind(w, ps)
    BY <2>1, <2>3 DEF Rebind, kids
  <2>4. CASE \E p \in Paths : Write(p)
    BY <2>1, <2>4, BoundsAssumption DEF Write, kids
  <2> QED
    BY <2>2, <2>3, <2>4
<1>3. Types'
  BY <1>1, <1>2 DEF IInv, Types, TypeOK, comp, posts, tips
<1> QED
  BY <1>1, <1>3 DEF IInv, OffIsQuiet, TimersAreTimely, ShowsAreTimely, TipsNeedHover, Timely, Barrier,
     posts, tips

-----------------------------------------------------------------------------
(* Companion.Error.  The closures that are still to run decide what it will *)
(* say: the last of them that clears it, or reports the present run.        *)

\* The closures that are still to run, in order, and the goroutines of the services.
todo == batch \o queue
kidWorkers == {w \in workers : w.e \in Children}

\* Closure j sets c's error whatever else happens, when c's present run is r.
Decides(j, c, r) == /\ j.e = c
                    /\ j.kind = "clear" \/ (j.kind \in {"report", "failed"} /\ j.r = r)

\* When all closures have run, c's error will be v.
Foretold(c, r, v) ==
  \/ \E k \in 1..Len(todo) : /\ Decides(todo[k], c, r)
                             /\ (todo[k].kind # "clear") = v
                             /\ \A m \in 1..Len(todo) : m > k => ~Decides(todo[m], c, r)
  \/ err[c] = v /\ \A m \in 1..Len(todo) : ~Decides(todo[m], c, r)

\* A Startable has one run at a time.
OneOn == \A e \in Elems, r, q \in Runs : IsOn(e, r) /\ IsOn(e, q) => r = q

\* A run of a Companion that is to come has left no trace.
Begun == /\ \A w \in kidWorkers : phase[w.e][w.r] # "new"
         /\ \A k \in 1..Len(todo) : todo[k].e \in Children => phase[todo[k].e][todo[k].r] # "new"
         /\ \A c \in Children, r \in Runs : phase[c][r] = "new" => proc[c][r] = "none"

\* A child has one goroutine waiting for it, which reports it when it is dead.
Waits == /\ \A w \in workers : w.e \in Children <=> w.at \in {"wait", "report"}
         /\ \A w \in kidWorkers : w.at = "report" => proc[w.e][w.r] = "dead"
         /\ \A v, w \in kidWorkers : v.e = w.e /\ v.r = w.r => v = w
         /\ \A c \in Children, r \in Runs :
              proc[c][r] = "up" => \E w \in kidWorkers : w.e = c /\ w.r = r

\* What Companion.err will say of a live run, when it is up or has been reported.
Told == \A c \in Children, r \in Runs :
          IsOn(c, r) => /\ proc[c][r] = "up" => Foretold(c, r, FALSE)
                        /\ proc[c][r] # "up" /\ (\A w \in kidWorkers : w.e = c => w.r # r)
                           => Foretold(c, r, TRUE)

EInv == OneOn /\ Begun /\ Waits /\ Told

-----------------------------------------------------------------------------

\* Nothing is foretold in the beginning, as no run is on.
LEMMA InitTells == Init => EInv
<1> SUFFICES ASSUME Init PROVE EInv
  OBVIOUS
<1>1. kidWorkers = {} /\ workers = {} /\ todo = <<>>
  BY DEF Init, kidWorkers, todo
<1>2. \A e \in Elems, r \in Runs : phase[e][r] = "new"
  BY DEF Init
<1>3. \A c \in Children, r \in Runs : proc[c][r] = "none"
  BY DEF Init
<1>4. Children \subseteq Elems
  BY DEF Elems
<1>5. OneOn /\ Told
  BY <1>2, <1>4 DEF OneOn, Told, IsOn
<1>6. Begun /\ Waits
  BY <1>1, <1>3 DEF Begun, Waits
<1> QED
  BY <1>5, <1>6 DEF EInv

\* What is to run is a sequence of closures; one may be put at its end.
LEMMA TodoAppends ==
  ASSUME Types, NEW j \in JobSet, queue' = Append(queue, j), batch' = batch
  PROVE  /\ todo \in Seq(JobSet) /\ todo' = Append(todo, j)
         /\ Len(todo) \in Nat /\ Len(todo') = Len(todo) + 1 /\ todo'[Len(todo) + 1] = j
         /\ \A k \in 1..Len(todo) : todo'[k] = todo[k]
<1>1. queue \in Seq(JobSet) /\ batch \in Seq(JobSet) /\ <<j>> \in Seq(JobSet)
  BY DEF Types
<1>2. todo \in Seq(JobSet)
  BY <1>1, ConcatProperties DEF todo
<1>3. todo' = batch \o (queue \o <<j>>)
  BY <1>1, AppendIsConcat DEF todo
<1>4. todo' = todo \o <<j>>
  BY <1>1, <1>3, ConcatAssociative DEF todo
<1>5. todo' = Append(todo, j)
  BY <1>2, <1>4, AppendIsConcat
<1> QED
  BY <1>2, <1>5, AppendProperties, LenProperties

\* Or the first of it is run.
LEMMA TodoRuns ==
  ASSUME Types, batch # <<>>, batch' = Tail(batch), queue' = queue
  PROVE  /\ todo \in Seq(JobSet) /\ todo # <<>> /\ Head(batch) = todo[1]
         /\ Len(todo) \in Nat /\ Len(todo') = Len(todo) - 1 /\ 1 \in 1..Len(todo)
         /\ \A k \in 1..Len(todo') : todo'[k] = todo[k + 1] /\ k + 1 \in 1..Len(todo)
<1>1. queue \in Seq(JobSet) /\ batch \in Seq(JobSet) /\ batch' \in Seq(JobSet)
      /\ Len(batch) \in Nat /\ Len(queue) \in Nat /\ Len(batch') = Len(batch) - 1 /\ Len(batch) > 0
      /\ \A k \in 1..Len(batch') : batch'[k] = batch[k + 1]
  BY HeadTailProperties, LenProperties, EmptySeq DEF Types
<1>2. /\ todo \in Seq(JobSet) /\ Len(todo) = Len(batch) + Len(queue)
      /\ \A k \in 1..(Len(batch) + Len(queue)) :
           todo[k] = IF k <= Len(batch) THEN batch[k] ELSE queue[k - Len(batch)]
  BY <1>1, ConcatProperties DEF todo
<1>3. /\ Len(todo') = Len(batch') + Len(queue)
      /\ \A k \in 1..(Len(batch') + Len(queue)) :
           todo'[k] = IF k <= Len(batch') THEN batch'[k] ELSE queue[k - Len(batch')]
  BY <1>1, ConcatProperties DEF todo
<1>4. Head(batch) = batch[1]
  BY <1>1
<1>5. ASSUME NEW k \in 1..Len(todo') PROVE todo'[k] = todo[k + 1] /\ k + 1 \in 1..Len(todo)
  <2>1. k \in Nat /\ k + 1 \in 1..Len(todo) /\ k + 1 \in 1..(Len(batch) + Len(queue))
        /\ k \in 1..(Len(batch') + Len(queue))
    BY <1>1, <1>2, <1>3, <1>5
  <2>2. CASE k <= Len(batch')
    BY <2>1, <2>2, <1>1, <1>2, <1>3
  <2>3. CASE ~(k <= Len(batch'))
    <3>1. todo'[k] = queue[k - Len(batch')]
      BY <2>1, <2>3, <1>3
    <3>2. todo[k + 1] = queue[(k + 1) - Len(batch)]
      BY <2>1, <2>3, <1>1, <1>2
    <3>3. (k + 1) - Len(batch) = k - Len(batch')
      BY <2>1, <1>1
    <3> QED
      BY <2>1, <3>1, <3>2, <3>3
  <2> QED
    BY <2>1, <2>2, <2>3
<1>6. todo[1] = batch[1] /\ 1 \in 1..Len(todo) /\ Len(todo) \in Nat
  BY <1>1, <1>2
<1>7. todo # <<>>
  BY <1>6
<1> QED
  BY <1>1, <1>2, <1>3, <1>4, <1>5, <1>6, <1>7

\* A Drain does not change what is to run.
LEMMA TodoDrained == ASSUME Types, Drain PROVE todo' = todo
<1>1. batch = <<>> /\ batch' = queue /\ queue' = <<>> /\ queue \in Seq(JobSet)
  BY DEF Drain, Types
<1> QED
  BY <1>1, ConcatEmptySeq DEF todo

\* A step that touches no service and nothing that is to run, but for stops.
LEMMA StopsTell ==
  ASSUME IInv, EInv, UNCHANGED <<kidWorkers, proc, err, todo>>,
         \A w \in workers' : w.e \in Children <=> w.at \in {"wait", "report"},
         \A e \in Elems, r \in Runs : /\ phase'[e][r] = "on" => phase[e][r] = "on"
                                      /\ phase'[e][r] = "new" => phase[e][r] = "new"
  PROVE  EInv'
<1>1. OneOn'
  BY DEF EInv, OneOn, IsOn
<1>2. Children \subseteq Elems
  BY DEF Elems
<1>3. /\ \A w \in kidWorkers : w.e \in Children /\ w.r \in Runs
      /\ \A k \in 1..Len(todo) : todo[k].r \in Runs
  <2>1. queue \in Seq(JobSet) /\ batch \in Seq(JobSet)
    BY DEF IInv, Types
  <2>2. todo \in Seq(JobSet)
    BY <2>1, ConcatProperties DEF todo
  <2>3. \A k \in 1..Len(todo) : todo[k] \in JobSet
    BY <2>2, ElementOfSeq
  <2> QED
    BY <2>3 DEF kidWorkers, IInv, Types, WorkerSet, JobSet
<1>4. Begun'
  BY <1>2, <1>3 DEF EInv, Begun
<1>5. Waits'
  BY DEF EInv, Waits
<1>6. Told'
  BY <1>2 DEF EInv, Told, Foretold, IsOn
<1> QED
  BY <1>1, <1>4, <1>5, <1>6 DEF EInv

\* A closure that decides, put last, foretells what it says.
LEMMA LastDecides ==
  ASSUME Types, NEW j \in JobSet, queue' = Append(queue, j), batch' = batch,
         NEW c \in Children, NEW r \in Runs, Decides(j, c, r)
  PROVE  Foretold(c, r, j.kind # "clear")'
<1>1. /\ Len(todo) \in Nat /\ Len(todo') = Len(todo) + 1 /\ todo'[Len(todo) + 1] = j
  BY TodoAppends
<1>2. Len(todo') \in 1..Len(todo') /\ \A m \in 1..Len(todo') : ~(m > Len(todo'))
      /\ todo'[Len(todo')] = j
  BY <1>1
<1> QED
  BY <1>2 DEF Foretold

\* A closure that does not decide for c's present run changes nothing for it.
LEMMA OthersStay ==
  ASSUME Types, NEW j \in JobSet, queue' = Append(queue, j), batch' = batch, err' = err,
         NEW c \in Children, NEW r \in Runs, ~Decides(j, c, r), NEW v \in BOOLEAN, Foretold(c, r, v)
  PROVE  Foretold(c, r, v)'
<1>1. /\ Len(todo) \in Nat /\ Len(todo') = Len(todo) + 1 /\ todo'[Len(todo) + 1] = j
      /\ \A k \in 1..Len(todo) : todo'[k] = todo[k]
  BY TodoAppends
<1>2. \A k \in 1..Len(todo') : Decides(todo'[k], c, r) => k \in 1..Len(todo) /\ Decides(todo[k], c, r)
  <2>1. \A k \in 1..Len(todo') : k \in 1..Len(todo) \/ todo'[k] = j
    BY <1>1
  <2> QED
    BY <1>1, <2>1
<1>3. \A k \in 1..Len(todo) : k \in 1..Len(todo') /\ todo'[k] = todo[k]
  BY <1>1
<1>4. CASE err[c] = v /\ \A m \in 1..Len(todo) : ~Decides(todo[m], c, r)
  BY <1>2, <1>4 DEF Foretold
<1>5. CASE \E k \in 1..Len(todo) : /\ Decides(todo[k], c, r)
                                   /\ (todo[k].kind # "clear") = v
                                   /\ \A m \in 1..Len(todo) : m > k => ~Decides(todo[m], c, r)
  <2>1. PICK k \in 1..Len(todo) : /\ Decides(todo[k], c, r)
                                  /\ (todo[k].kind # "clear") = v
                                  /\ \A m \in 1..Len(todo) : m > k => ~Decides(todo[m], c, r)
    BY <1>5
  <2>2. k \in 1..Len(todo') /\ Decides(todo'[k], c, r) /\ (todo'[k].kind # "clear") = v
    BY <1>3, <2>1
  <2>3. \A m \in 1..Len(todo') : m > k => ~Decides(todo'[m], c, r)
    BY <1>2, <1>3, <2>1
  <2> QED
    BY <2>2, <2>3 DEF Foretold
<1> QED
  BY <1>4, <1>5 DEF Foretold

\* A closure that is nobody's report changes no fate.
LEMMA OtherPostTells ==
  ASSUME IInv, EInv, NEW j \in JobSet, j.e \notin Children,
         queue' = Append(queue, j), batch' = batch,
         UNCHANGED <<kidWorkers, proc, err, phase>>,
         \A w \in workers' : w.e \in Children <=> w.at \in {"wait", "report"}
  PROVE  EInv'
<1>1. /\ Len(todo) \in Nat /\ Len(todo') = Len(todo) + 1 /\ todo'[Len(todo) + 1] = j
      /\ \A k \in 1..Len(todo) : todo'[k] = todo[k]
  BY TodoAppends DEF IInv
<1>2. OneOn' /\ Waits'
  BY DEF EInv, OneOn, IsOn, Waits
<1>3. \A k \in 1..Len(todo') : k \in 1..Len(todo) \/ todo'[k] = j
  BY <1>1
<1>4. Begun'
  BY <1>1, <1>3 DEF EInv, Begun
<1>5. \A c \in Children, r \in Runs : ~Decides(j, c, r)
  BY DEF Decides
<1>6. Told'
  BY <1>5, OthersStay DEF IInv, EInv, Told, IsOn
<1> QED
  BY <1>2, <1>4, <1>6 DEF EInv

\* What has no goroutine or closure of a service in it.
LEMMA ApartTells ==
  ASSUME IInv, EInv,
         \/ (\E t \in Trees : Patch(t) \/ Swap(t)) \/ Close \/ Sync \/ Closed \/ Started
         \/ BeginStop \/ Join \/ TimeOut \/ Drain
         \/ \E t \in Tips : PointerIn(t) \/ PointerOut(t)
         \/ \E w \in Watchers, ps \in {{}, Paths} : Rebind(w, ps)
         \/ \E p \in Paths : Write(p)
  PROVE  EInv'
<1>1. UNCHANGED kids
  BY DEF Patch, Swap, Close, Sync, Closed, Started, BeginStop, Join, TimeOut, StopReturns, Drain,
     PointerIn, PointerOut, Rebind, Write
<1>2. todo' = todo
  <2>1. CASE Drain
    BY <2>1, TodoDrained DEF IInv
  <2>2. CASE ~Drain
    <3>1. UNCHANGED posts
      BY <2>2 DEF Patch, Swap, Close, Sync, Closed, Started, BeginStop, Join, TimeOut, StopReturns,
         PointerIn, PointerOut, Rebind, Write
    <3> QED
      BY <3>1 DEF posts, todo
  <2> QED
    BY <2>1, <2>2
<1>3. \A w \in workers' : w \in workers \/ (w.e \in Tips /\ w.at = "timer")
  BY DEF Patch, Swap, Close, Sync, Closed, Started, BeginStop, Join, TimeOut, StopReturns, Drain,
     PointerIn, PointerOut, Rebind, Write, Worker
<1>4. workers \subseteq workers'
  BY DEF Patch, Swap, Close, Sync, Closed, Started, BeginStop, Join, TimeOut, StopReturns, Drain,
     PointerIn, PointerOut, Rebind, Write
<1>5. Tips \cap Children = {}
  BY ShapesAssumption
<1>6. kidWorkers' = kidWorkers
  BY <1>3, <1>4, <1>5 DEF kidWorkers
<1>7. \A w \in workers' : w.e \in Children <=> w.at \in {"wait", "report"}
  BY <1>3, <1>5 DEF EInv, Waits
<1>8. \A e \in Elems, r \in Runs : /\ phase'[e][r] = "on" => phase[e][r] = "on"
                                   /\ phase'[e][r] = "new" => phase[e][r] = "new"
  <2>1. CASE UNCHANGED phase
    BY <2>1
  <2>2. CASE ~UNCHANGED phase
    <3>1. PICK d \in Elems, q \in Runs, how \in {"closing", "off", "leaked"} :
            phase' = [phase EXCEPT ![d][q] = how]
      <4>1. ui.dep \subseteq Elems
        BY DEF IInv, Types, TypeOK
      <4> QED
        BY <4>1, <2>2 DEF Patch, Swap, Close, Sync, Closed, Started, BeginStop, Join, TimeOut, StopReturns,
           Drain, PointerIn, PointerOut, Rebind, Write
    <3>2. phase \in [Elems -> [Runs -> PhaseSet]]
      BY DEF IInv, Types, TypeOK
    <3> QED
      BY <3>1, <3>2
  <2> QED
    BY <2>1, <2>2
<1> QED
  BY <1>1, <1>2, <1>6, <1>7, <1>8, StopsTell DEF kids

\* Goroutines of the others.
LEMMA OthersTell ==
  ASSUME IInv, EInv, NEW w \in workers,
         \/ Quits(w) \/ Fires(w) \/ Polls(w) \/ Tick(w)
         \/ Posts(w) /\ w.at # "report"
  PROVE  EInv'
<1>1. w.e \notin Children
  BY DEF EInv, Waits, Quits, Fires, Polls, Tick, Posts
<1>2. UNCHANGED <<kids, phase, batch>>
  BY DEF Quits, Fires, Polls, Tick, Posts, posts
<1>3. PICK at \in {"tick", "reply", "fired", "hit"} :
        /\ workers' \subseteq workers \cup {[w EXCEPT !.at = at]}
        /\ workers \subseteq workers' \cup {w}
  BY DEF Quits, Fires, Polls, Tick, Posts, Becomes
<1>4. w \in WorkerSet /\ [w EXCEPT !.at = at].e = w.e /\ [w EXCEPT !.at = at].at = at
  BY DEF IInv, Types, WorkerSet
<1>5. kidWorkers' = kidWorkers
  BY <1>1, <1>3, <1>4 DEF kidWorkers
<1>6. \A x \in workers' : x.e \in Children <=> x.at \in {"wait", "report"}
  BY <1>1, <1>3, <1>4 DEF EInv, Waits
<1>7. CASE queue' = queue
  <2>1. todo' = todo
    BY <1>2, <1>7 DEF todo
  <2> QED
    BY <2>1, <1>2, <1>5, <1>6, StopsTell DEF kids
<1>8. CASE queue' # queue
  <2>1. PICK kind \in JobKinds, arg \in Nat :
          queue' = Append(queue, [kind |-> kind, e |-> w.e, r |-> w.r, arg |-> arg])
    BY <1>4, <1>8 DEF Quits, Fires, Polls, Tick, Posts, posts, Job, JobKinds, WorkerSet
  <2>2. PICK j \in JobSet : queue' = Append(queue, j) /\ j.e \notin Children
    BY <2>1, <1>1, <1>4 DEF JobSet, WorkerSet
  <2> QED
    BY <2>2, <1>2, <1>5, <1>6, OtherPostTells DEF kids
<1> QED
  BY <1>7, <1>8

\* A child dies: the goroutine that waits for it is there to tell.
LEMMA DiesTells ==
  ASSUME IInv, EInv, NEW d \in Children, NEW q \in Runs, Dies(d, q)
  PROVE  EInv'
<1>1. /\ proc[d][q] = "up" /\ proc' = [proc EXCEPT ![d][q] = "dead"]
      /\ UNCHANGED <<workers, queue, batch, phase, err>>
  BY DEF Dies, posts
<1>2. proc \in [Children -> [Runs -> {"none", "up", "dead"}]]
  BY DEF IInv, Types, TypeOK
<1>3. /\ \A c \in Children, r \in Runs : proc'[c][r] = proc[c][r] \/ (c = d /\ r = q /\ proc'[c][r] = "dead")
      /\ proc'[d][q] = "dead"
  BY <1>1, <1>2
<1>4. todo' = todo /\ kidWorkers' = kidWorkers
  BY <1>1 DEF todo, kidWorkers
<1>5. OneOn'
  BY <1>1 DEF EInv, OneOn, IsOn
<1>6. Begun'
  BY <1>1, <1>3, <1>4 DEF EInv, Begun
<1>7. \A w \in kidWorkers : w.e \in Children /\ w.r \in Runs
  BY DEF kidWorkers, IInv, Types, WorkerSet
<1>8. Waits'
  BY <1>1, <1>3, <1>4, <1>7 DEF EInv, Waits
<1>9. PICK v \in kidWorkers : v.e = d /\ v.r = q
  BY <1>1 DEF EInv, Waits
<1>10. Told'
  BY <1>1, <1>3, <1>4, <1>9 DEF EInv, Told, Foretold, IsOn
<1> QED
  BY <1>5, <1>6, <1>8, <1>10 DEF EInv

\* Wait returns: the goroutine goes on to its report.
LEMMA WaitedTells == ASSUME IInv, EInv, NEW w \in workers, Waited(w) PROVE EInv'
<1> DEFINE v == [w EXCEPT !.at = "report"]
<1>1. /\ w.at = "wait" /\ proc[w.e][w.r] = "dead" /\ workers' = (workers \ {w}) \cup {v}
      /\ UNCHANGED <<queue, batch, phase, proc, err>>
  BY DEF Waited, Becomes, posts, kids
<1>2. w \in WorkerSet /\ v.e = w.e /\ v.r = w.r /\ v.at = "report"
  BY DEF IInv, Types, WorkerSet
<1>3. w.e \in Children /\ w \in kidWorkers
  BY <1>1 DEF EInv, Waits, kidWorkers
<1> HIDE DEF v
<1>4. kidWorkers' = (kidWorkers \ {w}) \cup {v} /\ todo' = todo
  BY <1>1, <1>2, <1>3 DEF kidWorkers, todo
<1>5. OneOn'
  BY <1>1 DEF EInv, OneOn, IsOn
<1>6. Begun'
  BY <1>1, <1>2, <1>3, <1>4 DEF EInv, Begun
<1>7. Waits'
  <2>1. \A x \in workers' : x.e \in Children <=> x.at \in {"wait", "report"}
    BY <1>1, <1>2, <1>3 DEF EInv, Waits
  <2>2. \A x \in kidWorkers' : x.at = "report" => proc'[x.e][x.r] = "dead"
    BY <1>1, <1>2, <1>4 DEF EInv, Waits
  <2>3. \A x \in kidWorkers : x.e = v.e /\ x.r = v.r => x = w
    BY <1>2, <1>3 DEF EInv, Waits
  <2>4. \A x, y \in kidWorkers' : x.e = y.e /\ x.r = y.r => x = y
    BY <2>3, <1>4 DEF EInv, Waits
  <2>5. \A c \in Children, r \in Runs :
          proc'[c][r] = "up" => \E x \in kidWorkers' : x.e = c /\ x.r = r
    BY <1>1, <1>2, <1>4 DEF EInv, Waits
  <2> QED
    BY <2>1, <2>2, <2>4, <2>5, <1>1 DEF Waits
<1>8. Told'
  BY <1>1, <1>2, <1>4 DEF EInv, Told, Foretold, IsOn
<1> QED
  BY <1>5, <1>6, <1>7, <1>8 DEF EInv

\* The report: the last word on a run that is still on.
LEMMA ReportTells ==
  ASSUME IInv, EInv, NEW w \in workers, Posts(w), w.at = "report"
  PROVE  EInv'
<1>1. /\ queue' = Append(queue, [kind |-> "report", e |-> w.e, r |-> w.r, arg |-> w.arg])
      /\ workers' = workers \ {w}
      /\ UNCHANGED <<batch, phase, proc, err>>
  BY DEF Posts, Becomes, Job, kids
<1>2. w \in WorkerSet /\ w.e \in Children /\ w.r \in Runs /\ w \in kidWorkers /\ w.arg \in Nat
      /\ w.e \in Elems
  BY DEF IInv, Types, WorkerSet, EInv, Waits, kidWorkers
<1>3. PICK j \in JobSet : queue' = Append(queue, j) /\ j.kind = "report" /\ j.e = w.e /\ j.r = w.r
  BY <1>1, <1>2 DEF JobSet, JobKinds
<1>4. /\ Len(todo) \in Nat /\ Len(todo') = Len(todo) + 1 /\ todo'[Len(todo) + 1] = j
      /\ \A k \in 1..Len(todo) : todo'[k] = todo[k]
  BY <1>1, <1>3, TodoAppends DEF IInv
<1>5. kidWorkers' = kidWorkers \ {w}
  BY <1>1 DEF kidWorkers
<1>6. OneOn'
  BY <1>1 DEF EInv, OneOn, IsOn
<1>7. Begun'
  <2>1. \A k \in 1..Len(todo') : k \in 1..Len(todo) \/ todo'[k] = j
    BY <1>4
  <2>2. phase[j.e][j.r] # "new"
    BY <1>2, <1>3 DEF EInv, Begun
  <2> QED
    BY <2>1, <2>2, <1>1, <1>4, <1>5 DEF EInv, Begun
<1>8. proc[w.e][w.r] = "dead"
  BY <1>2 DEF EInv, Waits
<1>9. Waits'
  BY <1>1, <1>2, <1>5, <1>8 DEF EInv, Waits
<1>10. Told'
  <2> SUFFICES ASSUME NEW c \in Children, NEW r \in Runs, IsOn(c, r)
               PROVE  /\ proc[c][r] = "up" => Foretold(c, r, FALSE)'
                      /\ proc[c][r] # "up" /\ (\A x \in kidWorkers' : x.e = c => x.r # r)
                           => Foretold(c, r, TRUE)'
    BY <1>1 DEF Told, IsOn
  <2>1. CASE c = w.e /\ r = w.r
    <3>1. Decides(j, c, r) /\ (j.kind # "clear") = TRUE
      BY <2>1, <1>3 DEF Decides
    <3>2. Foretold(c, r, TRUE)'
      BY <3>1, <1>1, <1>3, LastDecides DEF IInv
    <3> QED
      BY <2>1, <3>2, <1>8
  <2>2. CASE ~(c = w.e /\ r = w.r)
    <3>1. ~Decides(j, c, r)
      BY <2>2, <1>3 DEF Decides
    <3>2. (\A x \in kidWorkers' : x.e = c => x.r # r) => \A x \in kidWorkers : x.e = c => x.r # r
      BY <2>2, <1>5
    <3> QED
      BY <3>1, <3>2, <1>1, <1>3, OthersStay DEF IInv, EInv, Told
  <2> QED
    BY <2>1, <2>2
<1> QED
  BY <1>6, <1>7, <1>9, <1>10 DEF EInv

\* A run of another shape begins.
LEMMA OtherStartTells ==
  ASSUME IInv, EInv, NEW e \in tree \ On, NEW r \in Runs, StartOf(e, r), UNCHANGED <<batch, queue, kids>>,
         e \notin Children
  PROVE  EInv'
<1>1. phase \in [Elems -> [Runs -> PhaseSet]] /\ e \in Elems
      /\ phase' = [phase EXCEPT ![e][r] = "on"]
  BY DEF IInv, Types, TypeOK, StartOf
<1>2. \A d \in Elems, q \in Runs : phase'[d][q] = phase[d][q] \/ (d = e /\ q = r /\ phase'[d][q] = "on")
  BY <1>1
<1>3. PICK at \in {"tick"} :
        /\ workers' \subseteq workers \cup {[e |-> e, r |-> r, at |-> at, arg |-> 0]}
        /\ workers \subseteq workers'
  BY DEF StartOf, Worker
<1>4. kidWorkers' = kidWorkers /\ todo' = todo
  BY <1>3 DEF kidWorkers, todo
<1>5. Children \subseteq Elems
  BY DEF Elems
<1>6. OneOn'
  BY <1>2 DEF EInv, OneOn, IsOn, On
<1>7. /\ \A w \in kidWorkers : w.e \in Children /\ w.r \in Runs
      /\ \A k \in 1..Len(todo) : todo[k].r \in Runs
  <2>1. queue \in Seq(JobSet) /\ batch \in Seq(JobSet)
    BY DEF IInv, Types
  <2>2. todo \in Seq(JobSet)
    BY <2>1, ConcatProperties DEF todo
  <2>3. \A k \in 1..Len(todo) : todo[k] \in JobSet
    BY <2>2, ElementOfSeq
  <2> QED
    BY <2>3 DEF kidWorkers, IInv, Types, WorkerSet, JobSet
<1>8. \A c \in Children, q \in Runs : phase'[c][q] = phase[c][q]
  BY <1>2, <1>5
<1>9. Begun'
  BY <1>4, <1>7, <1>8 DEF EInv, Begun, kids
<1>10. Waits'
  BY <1>3, <1>4 DEF EInv, Waits, kids
<1>11. Told'
  BY <1>4, <1>8 DEF EInv, Told, Foretold, IsOn, kids
<1> QED
  BY <1>6, <1>9, <1>10, <1>11 DEF EInv

\* A Companion's run begins: its clear, or the report of its failure, is the last
\* word.
LEMMA ChildStartTells ==
  ASSUME IInv, EInv, NEW e \in tree \ On, NEW r \in Runs, StartOf(e, r), batch' = batch,
         e \in Children
  PROVE  EInv'
<1>1. phase \in [Elems -> [Runs -> PhaseSet]] /\ e \in Elems
      /\ phase' = [phase EXCEPT ![e][r] = "on"] /\ phase[e][r] = "new"
  BY DEF IInv, Types, TypeOK, StartOf
<1>2. /\ \A d \in Elems, q \in Runs : phase'[d][q] = phase[d][q] \/ (d = e /\ q = r)
      /\ phase'[e][r] = "on"
  BY <1>1
<1>3. proc \in [Children -> [Runs -> {"none", "up", "dead"}]] /\ proc[e][r] = "none"
  BY <1>1 DEF IInv, Types, TypeOK, EInv, Begun
<1> DEFINE v == [e |-> e, r |-> r, at |-> "wait", arg |-> 0]
<1>4. e \notin Tickers /\ e \notin Tips /\ e \notin Watchers
  BY ShapesAssumption
<1>5. PICK kind \in {"clear", "failed"} :
        /\ queue' = Append(queue, [kind |-> kind, e |-> e, r |-> r, arg |-> 0])
        /\ err' = err
        /\ kind = "clear" => workers' = workers \cup {v} /\ proc' = [proc EXCEPT ![e][r] = "up"]
        /\ kind = "failed" => workers' = workers /\ proc' = proc
  BY <1>4 DEF StartOf, Job, Worker, kids
<1>6. v.e = e /\ v.r = r /\ v.at = "wait"
  OBVIOUS
<1> HIDE DEF v
<1>7. PICK j \in JobSet : queue' = Append(queue, j) /\ j.kind = kind /\ j.e = e /\ j.r = r
  BY <1>1, <1>5 DEF JobSet, JobKinds
<1>8. /\ Len(todo) \in Nat /\ Len(todo') = Len(todo) + 1 /\ todo'[Len(todo) + 1] = j
      /\ \A k \in 1..Len(todo) : todo'[k] = todo[k]
  BY <1>7, TodoAppends DEF IInv
<1>9. /\ kind = "clear" => kidWorkers' = kidWorkers \cup {v}
      /\ kind = "failed" => kidWorkers' = kidWorkers
  BY <1>5, <1>6 DEF kidWorkers
<1>10. /\ \A c \in Children, q \in Runs : proc'[c][q] = proc[c][q] \/ (c = e /\ q = r)
       /\ proc'[e][r] = IF kind = "clear" THEN "up" ELSE "none"
  BY <1>3, <1>5
<1>11. OneOn'
  BY <1>2 DEF EInv, OneOn, IsOn, On
<1>12. \A w \in kidWorkers : ~(w.e = e /\ w.r = r)
  BY <1>1 DEF EInv, Begun
<1>13. Children \subseteq Elems
  BY DEF Elems
<1>14. /\ \A w \in kidWorkers : w.e \in Children /\ w.r \in Runs
       /\ \A k \in 1..Len(todo) : todo[k].r \in Runs
  <2>1. queue \in Seq(JobSet) /\ batch \in Seq(JobSet)
    BY DEF IInv, Types
  <2>2. todo \in Seq(JobSet)
    BY <2>1, ConcatProperties DEF todo
  <2>3. \A k \in 1..Len(todo) : todo[k] \in JobSet
    BY <2>2, ElementOfSeq
  <2> QED
    BY <2>3 DEF kidWorkers, IInv, Types, WorkerSet, JobSet
<1>15. Begun'
  <2>1. \A w \in kidWorkers' : phase'[w.e][w.r] # "new"
    BY <1>2, <1>5, <1>6, <1>9, <1>13, <1>14 DEF EInv, Begun
  <2>2. \A k \in 1..Len(todo) : todo[k].e \in Children => phase'[todo[k].e][todo[k].r] # "new"
    BY <1>2, <1>13, <1>14 DEF EInv, Begun
  <2>3. \A k \in 1..Len(todo') : k \in 1..Len(todo) \/ todo'[k] = j
    BY <1>8
  <2>4. \A k \in 1..Len(todo') : todo'[k].e \in Children => phase'[todo'[k].e][todo'[k].r] # "new"
    BY <2>2, <2>3, <1>2, <1>7, <1>8
  <2>5. \A c \in Children, q \in Runs : phase'[c][q] = "new" => proc'[c][q] = "none"
    BY <1>2, <1>10, <1>13 DEF EInv, Begun
  <2> QED
    BY <2>1, <2>4, <2>5 DEF Begun
<1>16. Waits'
  <2>1. \A w \in workers' : w.e \in Children <=> w.at \in {"wait", "report"}
    BY <1>5, <1>6 DEF EInv, Waits
  <2>2. \A w \in kidWorkers' : w.at = "report" => proc'[w.e][w.r] = "dead"
    BY <1>5, <1>6, <1>9, <1>10, <1>12, <1>14 DEF EInv, Waits
  <2>3. \A x, w \in kidWorkers' : x.e = w.e /\ x.r = w.r => x = w
    BY <1>5, <1>6, <1>9, <1>12 DEF EInv, Waits
  <2>4. \A c \in Children, q \in Runs :
          proc'[c][q] = "up" => \E w \in kidWorkers' : w.e = c /\ w.r = q
    BY <1>5, <1>6, <1>9, <1>10 DEF EInv, Waits
  <2> QED
    BY <2>1, <2>2, <2>3, <2>4 DEF Waits
<1>17. Told'
  <2> SUFFICES ASSUME NEW c \in Children, NEW q \in Runs, phase'[c][q] = "on"
               PROVE  /\ proc'[c][q] = "up" => Foretold(c, q, FALSE)'
                      /\ proc'[c][q] # "up" /\ (\A x \in kidWorkers' : x.e = c => x.r # q)
                           => Foretold(c, q, TRUE)'
    BY DEF Told, IsOn
  <2>1. CASE c = e
    <3>0. phase[e][q] # "on"
      BY <1>1 DEF On, IsOn
    <3>1. q = r
      BY <2>1, <3>0, <1>1, <1>2
    <3>2. Decides(j, c, q)
      BY <2>1, <3>1, <1>7 DEF Decides
    <3>3. Foretold(c, q, j.kind # "clear")'
      BY <3>2, <1>7, LastDecides DEF IInv
    <3>4. CASE kind = "clear"
      <4>1. (j.kind # "clear") = FALSE
        BY <3>4, <1>7
      <4>2. Foretold(c, q, FALSE)'
        BY <3>2, <4>1, <1>7, LastDecides DEF IInv
      <4> QED
        BY <4>2, <3>1, <3>4, <2>1, <1>10
    <3>5. CASE kind = "failed"
      <4>1. (j.kind # "clear") = TRUE
        BY <3>5, <1>7
      <4>2. Foretold(c, q, TRUE)'
        BY <3>2, <4>1, <1>7, LastDecides DEF IInv
      <4> QED
        BY <4>2, <3>1, <3>5, <2>1, <1>10
    <3> QED
      BY <3>4, <3>5
  <2>2. CASE c # e
    <3>1. ~Decides(j, c, q)
      BY <2>2, <1>7 DEF Decides
    <3>2. (\A x \in kidWorkers' : x.e = c => x.r # q) => \A x \in kidWorkers : x.e = c => x.r # q
      BY <1>5, <1>9
    <3>3. IsOn(c, q) /\ proc'[c][q] = proc[c][q]
      BY <2>2, <1>2, <1>10, <1>13 DEF IsOn
    <3> QED
      BY <3>1, <3>2, <3>3, <1>5, <1>7, OthersStay DEF IInv, EInv, Told
  <2> QED
    BY <2>1, <2>2
<1> QED
  BY <1>11, <1>15, <1>16, <1>17 DEF EInv

\* A start of any shape keeps true what errors tell.
LEMMA StartTells == ASSUME IInv, EInv, Start PROVE EInv'
<1>1. PICK e \in tree \ On, r \in Runs : StartOf(e, r)
  BY DEF Start
<1>2. batch' = batch
  BY DEF Start
<1>3. CASE e \in Children
  BY <1>1, <1>2, <1>3, ChildStartTells
<1>4. CASE e \notin Children
  <2>1. UNCHANGED <<queue, kids>>
    BY <1>1, <1>4 DEF StartOf
  <2> QED
    BY <1>1, <1>2, <1>4, <2>1, OtherStartTells
<1> QED
  BY <1>3, <1>4

\* A closure runs: what it decides is what was foretold, or not the last word.
LEMMA RunJobTells == ASSUME IInv, EInv, RunJob PROVE EInv'
<1>1. /\ batch # <<>> /\ batch' = Tail(batch) /\ queue' = queue
      /\ UNCHANGED <<phase, workers, proc>>
  BY DEF RunJob, Answer, Show, Report, Clear, kids
<1>2. PICK j : j = Head(batch)
  OBVIOUS
<1>3. /\ todo \in Seq(JobSet) /\ j = todo[1]
      /\ Len(todo) \in Nat /\ Len(todo') = Len(todo) - 1 /\ 1 \in 1..Len(todo)
      /\ \A k \in 1..Len(todo') : todo'[k] = todo[k + 1] /\ k + 1 \in 1..Len(todo)
  BY <1>1, <1>2, TodoRuns DEF IInv
<1>4. kidWorkers' = kidWorkers
  BY <1>1 DEF kidWorkers
<1>4a. j \in JobSet
  BY <1>3, ElementOfSeq
<1>5. j.e \in Elems /\ j.r \in Runs /\ j.kind \in JobKinds
  BY <1>4a DEF JobSet
<1>6. OneOn' /\ Waits'
  BY <1>1, <1>4 DEF EInv, OneOn, IsOn, Waits
<1>7. Begun'
  BY <1>1, <1>3, <1>4 DEF EInv, Begun
<1>8. err \in [Children -> BOOLEAN]
  BY DEF IInv, Types, TypeOK
<1>9. \/ j.kind = "clear" /\ err' = [err EXCEPT ![j.e] = FALSE]
      \/ j.kind \in {"report", "failed"} /\ err' = [err EXCEPT ![j.e] = err[j.e] \/ ~Gone(j.e, j.r)]
      \/ j.kind \notin {"clear", "report", "failed"} /\ err' = err
  BY <1>2 DEF RunJob, Answer, Show, Report, Clear, kids
<1>10. ASSUME NEW c \in Children, NEW r \in Runs, IsOn(c, r)
       PROVE  /\ Decides(j, c, r) => err'[c] = (j.kind # "clear")
              /\ ~Decides(j, c, r) => err'[c] = err[c]
  <2>1. CASE j.e # c
    BY <2>1, <1>8, <1>9 DEF Decides
  <2>2. CASE j.e = c /\ j.kind = "clear"
    BY <2>2, <1>8, <1>9 DEF Decides
  <2>3. CASE j.e = c /\ j.kind \in {"report", "failed"} /\ j.r = r
    <3>1. ~Gone(j.e, j.r)
      BY <2>3, <1>10 DEF Gone, IsOn
    <3>2. err' = [err EXCEPT ![j.e] = TRUE]
      BY <3>1, <2>3, <1>9
    <3> QED
      BY <3>2, <2>3, <1>8 DEF Decides
  <2>4. CASE j.e = c /\ j.kind \in {"report", "failed"} /\ j.r # r
    <3>1. phase[j.e][j.r] # "new"
      BY <2>4, <1>3 DEF EInv, Begun
    <3>2. phase[j.e][j.r] # "on"
      BY <2>4, <1>5, <1>10 DEF EInv, OneOn, IsOn
    <3>3. phase[j.e][j.r] \in PhaseSet
      BY <1>5 DEF IInv, Types, TypeOK
    <3>4. Gone(j.e, j.r)
      BY <3>1, <3>2, <3>3 DEF Gone, PhaseSet
    <3>5. err' = [err EXCEPT ![j.e] = err[j.e]]
      BY <3>4, <2>4, <1>8, <1>9
    <3> QED
      BY <3>5, <2>4, <1>8 DEF Decides
  <2>5. CASE j.kind \notin {"clear", "report", "failed"}
    BY <2>5, <1>9 DEF Decides
  <2> QED
    BY <2>1, <2>2, <2>3, <2>4, <2>5
<1>11. ASSUME NEW c \in Children, NEW r \in Runs, IsOn(c, r), NEW v \in BOOLEAN, Foretold(c, r, v)
       PROVE  Foretold(c, r, v)'
  <2>1. \A m \in 1..Len(todo') : m + 1 \in 1..Len(todo) /\ todo'[m] = todo[m + 1] /\ m \in Nat
    BY <1>3
  <2>2. CASE err[c] = v /\ \A m \in 1..Len(todo) : ~Decides(todo[m], c, r)
    <3>1. ~Decides(j, c, r)
      BY <2>2, <1>3
    <3>2. err'[c] = v
      BY <3>1, <2>2, <1>10, <1>11
    <3>3. \A m \in 1..Len(todo') : ~Decides(todo'[m], c, r)
      BY <2>1, <2>2
    <3> QED
      BY <3>2, <3>3 DEF Foretold
  <2>3. CASE \E k \in 1..Len(todo) : /\ Decides(todo[k], c, r)
                                     /\ (todo[k].kind # "clear") = v
                                     /\ \A m \in 1..Len(todo) : m > k => ~Decides(todo[m], c, r)
    <3>1. PICK k \in 1..Len(todo) : /\ Decides(todo[k], c, r)
                                    /\ (todo[k].kind # "clear") = v
                                    /\ \A m \in 1..Len(todo) : m > k => ~Decides(todo[m], c, r)
      BY <2>3
    <3>2. CASE k = 1
      <4>1. err'[c] = v
        BY <3>1, <3>2, <1>3, <1>10, <1>11
      <4>2. \A m \in 1..Len(todo') : m + 1 > k
        BY <2>1, <3>2
      <4>3. \A m \in 1..Len(todo') : ~Decides(todo'[m], c, r)
        BY <2>1, <3>1, <4>2
      <4> QED
        BY <4>1, <4>3 DEF Foretold
    <3>3. CASE k # 1
      <4>1. PICK l \in 1..Len(todo') : k = l + 1
        <5>1. k - 1 \in 1..Len(todo') /\ k = (k - 1) + 1
          BY <3>3, <1>3
        <5> QED
          BY <5>1
      <4>2. todo'[l] = todo[k]
        BY <2>1, <4>1
      <4>3. \A m \in 1..Len(todo') : m > l => m + 1 > k
        BY <4>1
      <4>4. \A m \in 1..Len(todo') : m > l => ~Decides(todo'[m], c, r)
        BY <2>1, <3>1, <4>3
      <4> QED
        BY <3>1, <4>2, <4>4 DEF Foretold
    <3> QED
      BY <3>2, <3>3
  <2> QED
    BY <1>11, <2>2, <2>3 DEF Foretold
<1>12. Told'
  <2> SUFFICES ASSUME NEW c \in Children, NEW r \in Runs, IsOn(c, r)
               PROVE  /\ proc[c][r] = "up" => Foretold(c, r, FALSE)'
                      /\ proc[c][r] # "up" /\ (\A x \in kidWorkers : x.e = c => x.r # r)
                           => Foretold(c, r, TRUE)'
    BY <1>1, <1>4 DEF Told, IsOn
  <2> QED
    BY <1>11 DEF EInv, Told
<1> QED
  BY <1>6, <1>7, <1>12 DEF EInv

-----------------------------------------------------------------------------

\* Every step keeps the invariant, and posts for no run that is off.
THEOREM NextKeepsIInv == IInv /\ [Next]_vars => IInv' /\ Barrier
<1> SUFFICES ASSUME IInv, [Next]_vars PROVE IInv' /\ Barrier
  OBVIOUS
<1>1. CASE (\E t \in Trees : Patch(t) \/ Swap(t)) \/ Close
  BY <1>1, ComposerKeeps
<1>2. CASE UIStep
  BY <1>2, ComposerKeeps, BeginStopKeeps, StopReturnsKeeps, StartKeeps, DrainKeeps, RunJobKeeps DEF UIStep
<1>3. CASE Goroutine
  BY <1>3, SilentKeeps, PollsKeeps, PostingKeeps DEF Goroutine
<1>4. CASE \E t \in Tips : PointerIn(t) \/ PointerOut(t)
  BY <1>4, PointerInKeeps, PointerOutKeeps
<1>5. CASE \/ \E c \in Children, r \in Runs : Dies(c, r)
           \/ \E w \in Watchers, ps \in {{}, Paths} : Rebind(w, ps)
           \/ \E p \in Paths : Write(p)
  BY <1>5, OutsideKeeps
<1>6. CASE UNCHANGED vars
  <2>1. UNCHANGED <<comp, ui, posts, phase, workers, tips, watch, kids>>
    BY <1>6 DEF vars
  <2>2. Types'
    BY <2>1 DEF IInv, Types, TypeOK, comp, posts, tips, watch, kids
  <2> QED
    BY <2>1, <2>2 DEF IInv, OffIsQuiet, TimersAreTimely, ShowsAreTimely, TipsNeedHover, Timely, Barrier,
       posts, tips
<1> QED
  BY <1>1, <1>2, <1>3, <1>4, <1>5, <1>6 DEF Next

\* And what is foretold of a service's error stays true.
THEOREM NextKeepsEInv == IInv /\ EInv /\ [Next]_vars => EInv'
<1> SUFFICES ASSUME IInv, EInv, [Next]_vars PROVE EInv'
  OBVIOUS
<1>1. CASE UIStep
  BY <1>1, ApartTells, StartTells, RunJobTells DEF UIStep
<1>2. CASE Goroutine
  BY <1>2, OthersTell, WaitedTells, ReportTells DEF Goroutine
<1>3. CASE \E c \in Children, r \in Runs : Dies(c, r)
  BY <1>3, DiesTells
<1>4. CASE \/ (\E t \in Trees : Patch(t) \/ Swap(t)) \/ Close
           \/ \E t \in Tips : PointerIn(t) \/ PointerOut(t)
           \/ \E w \in Watchers, ps \in {{}, Paths} : Rebind(w, ps)
           \/ \E p \in Paths : Write(p)
  BY <1>4, ApartTells
<1>5. CASE UNCHANGED vars
  <2>1. UNCHANGED <<kidWorkers, workers, proc, err, todo, phase>>
    BY <1>5 DEF vars, posts, kids, kidWorkers, todo
  <2>2. \A w \in workers' : w.e \in Children <=> w.at \in {"wait", "report"}
    BY <2>1 DEF EInv, Waits
  <2> QED
    BY <2>1, <2>2, StopsTell
<1> QED
  BY <1>1, <1>2, <1>3, <1>4, <1>5 DEF Next

\* The invariant holds of every behaviour.
THEOREM SpecIInv == Spec => []IInv
BY InitHolds, NextKeepsIInv, PTL DEF Spec

\* The variables of Startables keep their types.
THEOREM SpecTypeOK == Spec => []TypeOK
BY SpecIInv, PTL DEF IInv, Types

\* Nothing of a run is posted once its stop has returned (Startable's contract).
THEOREM SpecStopIsBarrier == Spec => StopIsBarrier
<1>1. IInv /\ [Next]_vars => [Barrier]_vars
  BY NextKeepsIInv
<1>2. [Barrier]_vars <=> [Len(queue') > Len(queue) =>
                            LET j == queue'[Len(queue')] IN phase[j.e][j.r] # "off"]_vars
  BY DEF Barrier
<1> QED
  BY <1>1, <1>2, SpecIInv, PTL DEF Spec, StopIsBarrier

\* A tip that is up has the pointer over its host (Tooltip.showIf).
THEOREM SpecTipsNeedHover == Spec => []TipsNeedHover
BY SpecIInv, PTL DEF IInv

\* What is foretold holds of every behaviour.
LEMMA SpecEInv == Spec => []EInv
BY InitTells, NextKeepsEInv, SpecIInv, PTL DEF Spec

\* A live Companion shows a failure exactly when its child did not start or is
\* dead, when no closure is left and none is to come (Companion.Error).
THEOREM SpecErrorIsTrue == Spec => []ErrorIsTrue
<1>1. IInv /\ EInv => ErrorIsTrue
  <2> SUFFICES ASSUME IInv, EInv, NEW c \in Children, NEW r \in Runs,
                      queue = <<>>, batch = <<>>, IsOn(c, r),
                      proc[c][r] = "up" \/ WorkersOf(c, r) = {}
               PROVE  err[c] <=> proc[c][r] # "up"
    BY DEF ErrorIsTrue
  <2>1. todo = <<>>
    BY DEF todo
  <2>2. \A v \in BOOLEAN : Foretold(c, r, v) => err[c] = v
    BY <2>1 DEF Foretold
  <2>3. CASE proc[c][r] = "up"
    BY <2>2, <2>3 DEF EInv, Told
  <2>4. CASE proc[c][r] # "up"
    <3>1. \A x \in kidWorkers : x.e = c => x.r # r
      BY <2>4 DEF kidWorkers, WorkersOf
    <3>2. Foretold(c, r, TRUE)
      BY <2>4, <3>1 DEF EInv, Told
    <3> QED
      BY <2>2, <2>4, <3>2
  <2> QED
    BY <2>3, <2>4
<1> QED
  BY <1>1, SpecIInv, SpecEInv, PTL

-----------------------------------------------------------------------------
(* Services do not overlap.  A stop keeps hold of what it closes, and the  *)
(* arrivals wait until nothing is left to stop: what is on is in the tree. *)

\* A run that has begun and whose stop has not returned.
Live(e, r) == phase[e][r] \in {"on", "closing"}

OneLive == \A e \in Elems, r, q \in Runs : Live(e, r) /\ Live(e, q) => r = q
OneService == \A c, d \in Children, r, q \in Runs : Live(c, r) /\ Live(d, q) => c = d
ClosingIsHeld == \A e \in Elems, r \in Runs :
                   phase[e][r] = "closing" => ui.pc \in {"stop", "close"} /\ e \in ui.dep
Departing == ui.pc = "stop" => On \subseteq tree \cup ui.dep

SInv == OneLive /\ OneService /\ ClosingIsHeld /\ Departing /\ tree \in Trees

\* No tree declares two services.
OneDeclared == \A t \in Trees : \A c, d \in t \cap Children : c = d

\* In the beginning nothing runs.
LEMMA InitSInv == Init => SInv
<1> SUFFICES ASSUME Init PROVE SInv
  OBVIOUS
<1>1. /\ \A e \in Elems, r \in Runs : phase[e][r] = "new"
      /\ ui.pc = "loop" /\ tree \in Trees /\ Children \subseteq Elems
  BY DEF Init, Elems
<1> QED
  BY <1>1 DEF SInv, OneLive, OneService, ClosingIsHeld, Departing, Live

\* The composition is edited, replaced or closed only between stops.
LEMMA EditsKeepSInv ==
  ASSUME IInv, SInv, (\E t \in Trees : Patch(t) \/ Swap(t)) \/ Close \/ Sync \/ Closed \/ Started
  PROVE  SInv'
<1>1. phase' = phase
  BY DEF Patch, Swap, Close, Sync, Closed, Started
<1>2. OneLive' /\ OneService'
  BY <1>1 DEF SInv, OneLive, OneService, Live
<1>3. On' = On
  BY <1>1 DEF On, IsOn
<1>4. ui \in [pc : {"loop", "stop", "close", "over"}, dep : SUBSET Elems]
  BY DEF IInv, Types, TypeOK
<1>5. ui.pc = "loop" \/ ui.dep = {}
  BY DEF Patch, Swap, MayEdit, Close, Sync, Closed, Started
<1>6. \A e \in Elems, r \in Runs : phase[e][r] # "closing"
  BY <1>5 DEF SInv, ClosingIsHeld
<1>7. ClosingIsHeld'
  BY <1>1, <1>6 DEF ClosingIsHeld
<1>8. tree' \in Trees
  BY DEF SInv, Patch, Swap, Close, Sync, Closed, Started, comp
<1>9. Departing'
  <2>1. CASE \E t \in Trees : Patch(t)
    BY <2>1 DEF Patch, MayEdit, Departing
  <2>2. CASE \E t \in Trees : Swap(t)
    <3>1. ui'.dep = On
      BY <2>2 DEF Swap
    <3> QED
      BY <3>1, <1>3 DEF Departing
  <2>3. CASE Close \/ Closed \/ Started
    <3>1. ui'.pc # "stop"
      BY <2>3, <1>4 DEF Close, Closed, Started
    <3> QED
      BY <3>1 DEF Departing
  <2>4. CASE Sync
    <3>1. tree' = tree /\ (ui' = ui \/ ui'.dep = On \ tree) /\ ui.pc = "loop"
      BY <2>4 DEF Sync
    <3> QED
      BY <3>1, <1>3 DEF Departing
  <2> QED
    BY <2>1, <2>2, <2>3, <2>4
<1> QED
  BY <1>2, <1>7, <1>8, <1>9 DEF SInv

\* A stop begins: the run is still live, and held.
LEMMA BeginStopKeepsSInv == ASSUME IInv, SInv, BeginStop PROVE SInv'
<1>1. PICK e \in ui.dep, r \in Runs : IsOn(e, r) /\ phase' = [phase EXCEPT ![e][r] = "closing"]
  BY DEF BeginStop
<1>2. ui.pc \in {"stop", "close"} /\ UNCHANGED <<tree, ui>>
  BY DEF BeginStop, comp
<1>3. phase \in [Elems -> [Runs -> PhaseSet]] /\ Children \subseteq Elems
  BY DEF IInv, Types, TypeOK, Elems
<1>4. \A d \in Elems, q \in Runs :
        \/ phase'[d][q] = phase[d][q]
        \/ d = e /\ q = r /\ phase[d][q] = "on" /\ phase'[d][q] = "closing"
  BY <1>1, <1>3 DEF IsOn
<1>5. \A d \in Elems, q \in Runs : Live(d, q)' => Live(d, q)
  BY <1>4 DEF Live
<1>6. OneLive' /\ OneService'
  BY <1>3, <1>5 DEF SInv, OneLive, OneService
<1>7. ClosingIsHeld'
  BY <1>1, <1>2, <1>4 DEF SInv, ClosingIsHeld
<1>8. On' \subseteq On
  BY <1>4 DEF On, IsOn
<1>9. Departing'
  BY <1>2, <1>8 DEF SInv, Departing
<1> QED
  BY <1>2, <1>6, <1>7, <1>9 DEF SInv

\* A stop returns: what it held was the one live run of its Startable.
LEMMA StopReturnsKeepsSInv == ASSUME IInv, SInv, Join \/ TimeOut PROVE SInv'
<1>1. PICK e \in ui.dep, r \in Runs, how \in {"off", "leaked"} : StopReturns(e, r, how)
  BY DEF Join, TimeOut
<1>2. /\ phase[e][r] = "closing" /\ phase' = [phase EXCEPT ![e][r] = how]
      /\ ui.pc \in {"stop", "close"} /\ ui' = [ui EXCEPT !.dep = ui.dep \ {e}] /\ tree' = tree
  BY <1>1 DEF StopReturns, comp
<1>3. /\ phase \in [Elems -> [Runs -> PhaseSet]] /\ Children \subseteq Elems
      /\ ui \in [pc : {"loop", "stop", "close", "over"}, dep : SUBSET Elems]
  BY DEF IInv, Types, TypeOK, Elems
<1>4. e \in Elems /\ ui'.pc = ui.pc /\ ui'.dep = ui.dep \ {e}
  BY <1>2, <1>3
<1>5. /\ phase'[e][r] = how
      /\ \A d \in Elems, q \in Runs : phase'[d][q] = phase[d][q] \/ (d = e /\ q = r)
  BY <1>2, <1>3, <1>4
<1>6. \A d \in Elems, q \in Runs : Live(d, q)' => Live(d, q) /\ (d = e => q # r)
  BY <1>5 DEF Live
<1>7. OneLive' /\ OneService'
  BY <1>3, <1>6 DEF SInv, OneLive, OneService
<1>8. \A q \in Runs : ~Live(e, q)'
  BY <1>2, <1>4, <1>6 DEF SInv, OneLive, Live
<1>9. ClosingIsHeld'
  <2> SUFFICES ASSUME NEW d \in Elems, NEW q \in Runs, phase'[d][q] = "closing"
               PROVE  ui'.pc \in {"stop", "close"} /\ d \in ui'.dep
    BY DEF ClosingIsHeld
  <2>1. d # e
    BY <1>8 DEF Live
  <2>2. phase[d][q] = "closing"
    BY <2>1, <1>5
  <2> QED
    BY <2>1, <2>2, <1>2, <1>4 DEF SInv, ClosingIsHeld
<1>10. On' \subseteq On \ {e}
  <2>1. \A q \in Runs : ~IsOn(e, q)'
    BY <1>8 DEF Live, IsOn
  <2>2. \A d \in Elems, q \in Runs : IsOn(d, q)' => IsOn(d, q) \/ (d = e /\ q = r)
    BY <1>5 DEF IsOn
  <2> QED
    BY <2>1, <2>2 DEF On
<1>11. Departing'
  BY <1>2, <1>4, <1>10 DEF SInv, Departing
<1> QED
  BY <1>2, <1>7, <1>9, <1>11 DEF SInv

\* An arrival starts when nothing is closing, and what is on is its tree's.
LEMMA StartKeepsSInv == ASSUME IInv, SInv, OneDeclared, Start PROVE SInv'
<1>1. PICK e \in tree \ On, r \in Runs : StartOf(e, r)
  BY DEF Start
<1>2. /\ ui.pc = "stop" /\ ui.dep = {} /\ UNCHANGED <<tree, ui>>
      /\ phase' = [phase EXCEPT ![e][r] = "on"]
  BY <1>1 DEF Start, StartOf, comp
<1>3. /\ phase \in [Elems -> [Runs -> PhaseSet]] /\ Children \subseteq Elems /\ e \in Elems
      /\ tree \in Trees /\ On \subseteq tree
  BY <1>1, <1>2 DEF IInv, Types, TypeOK, Elems, SInv, Departing
<1>4. \A d \in Elems, q \in Runs : phase'[d][q] = phase[d][q] \/ (d = e /\ q = r /\ phase'[d][q] = "on")
  BY <1>2, <1>3
<1>5. \A d \in Elems, q \in Runs : Live(d, q) => d \in On
  BY <1>2 DEF SInv, ClosingIsHeld, Live, On, IsOn
<1>6. \A d \in Elems, q \in Runs : Live(d, q)' => (Live(d, q) /\ d # e) \/ (d = e /\ q = r)
  BY <1>1, <1>4, <1>5 DEF Live
<1>7. OneLive'
  BY <1>6 DEF SInv, OneLive
<1>8. OneService'
  <2> SUFFICES ASSUME NEW c \in Children, NEW d \in Children, NEW q \in Runs, NEW s \in Runs,
                      Live(c, q)', Live(d, s)'
               PROVE  c = d
    BY DEF OneService
  <2>1. c \in tree /\ d \in tree
    BY <1>1, <1>3, <1>5, <1>6
  <2> QED
    BY <2>1, <1>3 DEF OneDeclared
<1>9. ClosingIsHeld'
  BY <1>2, <1>4 DEF SInv, ClosingIsHeld
<1>10. On' \subseteq On \cup {e}
  BY <1>4 DEF On, IsOn
<1>11. Departing'
  BY <1>2, <1>3, <1>10, <1>1 DEF Departing
<1> QED
  BY <1>2, <1>3, <1>7, <1>8, <1>9, <1>11 DEF SInv

\* Every other step leaves the tree, the stop and the runs alone.
LEMMA OthersKeepSInv ==
  ASSUME SInv, UNCHANGED <<tree, ui, phase>>
  PROVE  SInv'
<1>1. On' = On
  BY DEF On, IsOn
<1> QED
  BY <1>1 DEF SInv, OneLive, OneService, ClosingIsHeld, Departing, Live

\* So for every step, when no tree declares two services.
LEMMA NextKeepsSInv == IInv /\ SInv /\ OneDeclared /\ [Next]_vars => SInv'
<1> SUFFICES ASSUME IInv, SInv, OneDeclared, [Next]_vars PROVE SInv'
  OBVIOUS
<1>1. CASE (\E t \in Trees : Patch(t) \/ Swap(t)) \/ Close
  BY <1>1, EditsKeepSInv
<1>2. CASE UIStep
  <2>1. CASE Drain \/ RunJob
    <3>1. UNCHANGED <<tree, ui, phase>>
      BY <2>1 DEF Drain, RunJob, comp
    <3> QED
      BY <3>1, OthersKeepSInv
  <2> QED
    BY <2>1, <1>2, EditsKeepSInv, BeginStopKeepsSInv, StopReturnsKeepsSInv, StartKeepsSInv DEF UIStep
<1>3. CASE Goroutine
  <2>1. UNCHANGED <<tree, ui, phase>>
    BY <1>3 DEF Goroutine, Quits, Tick, Fires, Posts, Polls, Waited, comp
  <2> QED
    BY <2>1, OthersKeepSInv
<1>4. CASE \E t \in Tips : PointerIn(t) \/ PointerOut(t)
  <2>1. UNCHANGED <<tree, ui, phase>>
    BY <1>4 DEF PointerIn, PointerOut, comp
  <2> QED
    BY <2>1, OthersKeepSInv
<1>5. CASE \/ \E c \in Children, r \in Runs : Dies(c, r)
           \/ \E w \in Watchers, ps \in {{}, Paths} : Rebind(w, ps)
           \/ \E p \in Paths : Write(p)
           \/ UNCHANGED vars
  <2>1. UNCHANGED <<tree, ui, phase>>
    BY <1>5 DEF Dies, Rebind, Write, vars, comp
  <2> QED
    BY <2>1, OthersKeepSInv
<1> QED
  BY <1>1, <1>2, <1>3, <1>4, <1>5 DEF Next

\* A child that is up and was not given up on is of a live run: one that is off
\* has no goroutine left to wait for it.
LEMMA UpIsLive ==
  ASSUME IInv, EInv, NEW c \in Children, NEW r \in Runs, proc[c][r] = "up", phase[c][r] # "leaked"
  PROVE  Live(c, r)
<1>1. phase[c][r] \in PhaseSet
  BY DEF IInv, Types, TypeOK, Elems
<1>2. phase[c][r] # "new"
  BY DEF EInv, Begun
<1>3. PICK w \in kidWorkers : w.e = c /\ w.r = r
  BY DEF EInv, Waits
<1>4. phase[c][r] # "off"
  BY <1>3 DEF IInv, OffIsQuiet, kidWorkers
<1> QED
  BY <1>1, <1>2, <1>4 DEF Live, PhaseSet

\* A service never overlaps its replacement, nor a run of its own (walkNodes):
\* of all the children that no stop has given up on, one at most is up, when no
\* tree declares two.
THEOREM SpecServicesDoNotOverlap ==
  ASSUME OneDeclared
  PROVE  Spec => []ServicesDoNotOverlap
<1>1. IInv /\ EInv /\ SInv => ServicesDoNotOverlap
  <2> SUFFICES ASSUME IInv, EInv, SInv, NEW c \in Children, NEW d \in Children,
                      NEW r \in Runs, NEW q \in Runs,
                      proc[c][r] = "up", phase[c][r] # "leaked",
                      proc[d][q] = "up", phase[d][q] # "leaked"
               PROVE  c = d /\ r = q
    BY DEF ServicesDoNotOverlap
  <2>1. Live(c, r) /\ Live(d, q)
    BY UpIsLive
  <2>2. c = d
    BY <2>1 DEF SInv, OneService
  <2> QED
    BY <2>1, <2>2 DEF SInv, OneLive, Elems
<1>2. IInv /\ SInv /\ [Next]_vars => SInv'
  BY NextKeepsSInv
<1> QED
  BY <1>1, <1>2, InitSInv, SpecIInv, SpecEInv, PTL DEF Spec
=============================================================================
