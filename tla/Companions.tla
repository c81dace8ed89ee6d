------------------------------ MODULE Companions ------------------------------
(***************************************************************************)
(* The services an App runs beside its UI (companion.go) and App.Run as    *)
(* far as it starts, watches and stops them (app.go).  They are started in *)
(* order before the tree and the terminal, given a grace period, watched   *)
(* by a supervisor each while the loop runs, and stopped, with a bound on  *)
(* the wait, when the terminal has been given back.                        *)
(*                                                                         *)
(* A companion runs a function or a child process.  A child has a second   *)
(* goroutine that asks its group to stop when the context is done and,     *)
(* after a delay, kills it.  Two things end a supervisor's wait in two     *)
(* ways: the channel that teardown drains, and a closure for the loop.     *)
(***************************************************************************)
EXTENDS Naturals, Sequences, FiniteSets

CONSTANTS N,      \* companions, in the order they were registered: 1..N
          Cmds,   \* those that are child processes
          Deaf    \* those that do not stop when asked to

All == 1..N

ASSUME NAssumption == N \in Nat \ {0}
ASSUME KindsAssumption == Cmds \subseteq All /\ Deaf \subseteq All

VARIABLES
  pc,         \* where Run is
  started,    \* len(compStarted)
  work,       \* work[c]: the function or the child: "none", "running", "dead"
  minder,     \* minder[c]: the child's second goroutine
  sup,        \* sup[c]: superviseCompanion
  exits,      \* compExit
  posted,     \* the supervisors' closures in the dispatcher's queue
  doneCount,  \* compDone
  asked,      \* compCancel was called, and compStopping is set
  leaked,     \* compLeaked
  compErr,    \* compErr's companion, or 0
  quit,       \* App.quit is closed
  cancelled,  \* the caller has cancelled Run's ctx
  raw,        \* the app holds the terminal
  result,     \* what Run returns: [kind, c]
  own         \* history: own[c], c's work ended before anyone asked it to

run == <<pc, started, doneCount, asked, leaked, compErr, quit, raw, result>>
vars == <<run, work, minder, sup, exits, posted, cancelled, own>>

\* What the companions' context says.
CtxDone == asked \/ cancelled

Ends(kind, c) == [kind |-> kind, c |-> c]
Nil == Ends("nil", 0)

Init == /\ pc = "start"
        /\ started = 0
        /\ work = [c \in All |-> "none"]
        /\ minder = [c \in All |-> "none"]
        /\ sup = [c \in All |-> "none"]
        /\ exits = <<>> /\ posted = <<>>
        /\ doneCount = 0
        /\ asked = FALSE /\ leaked = FALSE /\ compErr = 0
        /\ quit = FALSE /\ cancelled = FALSE /\ raw = FALSE
        /\ result = Nil
        /\ own = [c \in All |-> FALSE]

-----------------------------------------------------------------------------
(* startCompanions and companionGrace.                                     *)

Run(to) == pc' = to

StartNext == /\ pc = "start" /\ started < N
             /\ LET c == started + 1 IN
                  /\ started' = c
                  /\ work' = [work EXCEPT ![c] = "running"]
                  /\ minder' = IF c \in Cmds THEN [minder EXCEPT ![c] = "watch"] ELSE minder
                  /\ sup' = [sup EXCEPT ![c] = "wait"]
             /\ UNCHANGED <<pc, doneCount, asked, leaked, compErr, quit, raw, result,
                            exits, posted, cancelled, own>>

\* Mutant: Run returns a failed start's error and leaves the others running.
StartFailsOnly == /\ pc = "start" /\ started < N
                  /\ result' = Ends("start", started + 1)
                  /\ Run("returned")
                  /\ UNCHANGED <<started, doneCount, asked, leaked, compErr, quit, raw,
                                 work, minder, sup, exits, posted, cancelled, own>>

\* A Start returns an error: Run stops what did start.
StartFails == /\ pc = "start" /\ started < N
              /\ result' = Ends("start", started + 1)
              /\ Run("stop")
              /\ UNCHANGED <<started, doneCount, asked, leaked, compErr, quit, raw,
                             work, minder, sup, exits, posted, cancelled, own>>

\* A Start panics: stopCompanions has not been deferred yet.
StartPanics == /\ pc = "start" /\ started < N
               /\ result' = Ends("startPanic", started + 1)
               /\ Run("returned")
               /\ UNCHANGED <<started, doneCount, asked, leaked, compErr, quit, raw,
                              work, minder, sup, exits, posted, cancelled, own>>

AllStarted == /\ pc = "start" /\ started = N
              /\ Run("grace")
              /\ UNCHANGED <<started, doneCount, asked, leaked, compErr, quit, raw, result,
                             work, minder, sup, exits, posted, cancelled, own>>

TakeExit == /\ exits # <<>>
            /\ exits' = Tail(exits)
            /\ doneCount' = doneCount + 1

\* The grace period ends early when a companion is dead.
GraceExit == /\ pc = "grace"
             /\ TakeExit
             /\ result' = Ends("start", Head(exits))
             /\ Run("stop")
             /\ UNCHANGED <<started, asked, leaked, compErr, quit, raw,
                            work, minder, sup, posted, cancelled, own>>

GraceOver == /\ pc = "grace"
             /\ Run("build")
             /\ UNCHANGED <<started, doneCount, asked, leaked, compErr, quit, raw, result,
                            work, minder, sup, exits, posted, cancelled, own>>

-----------------------------------------------------------------------------
(* Run.                                                                    *)

\* Build and acquire.  Either may fail, or panic: stopCompanions is deferred.
Acquire == /\ pc = "build"
           /\ \/ Run("top") /\ raw' = TRUE /\ result' = result
              \/ /\ Run("stop") /\ raw' = raw
                 /\ \E kind \in {"build", "panic"} : result' = Ends(kind, 0)
           /\ UNCHANGED <<started, doneCount, asked, leaked, compErr, quit,
                          work, minder, sup, exits, posted, cancelled, own>>

\* exitErr: a dead companion outranks the rest.
ExitErr(otherwise) == IF compErr # 0 THEN Ends("run", compErr) ELSE otherwise

\* The head of the loop.
LoopHead == /\ pc = "top"
            /\ IF quit \/ cancelled
               THEN Run("teardown") /\ result' = ExitErr(Nil)
               ELSE Run("select") /\ result' = result
            /\ UNCHANGED <<started, doneCount, asked, leaked, compErr, quit, raw,
                           work, minder, sup, exits, posted, cancelled, own>>

\* The supervisors' closures, run in order.  Nothing drains once compStopping
\* is set, so it is false here.
FirstOf(e) == IF e # 0 \/ posted = <<>> THEN e ELSE Head(posted)

Drain == /\ pc = "select" /\ posted # <<>>
         /\ compErr' = FirstOf(compErr)
         /\ quit' = TRUE
         /\ posted' = <<>>
         /\ Run("top")
         /\ UNCHANGED <<started, doneCount, asked, leaked, raw, result,
                        work, minder, sup, exits, cancelled, own>>

\* The select's other cases: the ctx, or an event whose handler quits, or not.
OtherCase == /\ pc = "select"
             /\ quit' \in {quit, TRUE}
             /\ Run("top")
             /\ UNCHANGED <<started, doneCount, asked, leaked, compErr, raw, result,
                            work, minder, sup, exits, posted, cancelled, own>>

\* Mutant: gracefulExit asks the companions to stop before its last Drain.
InterruptAsksFirst == /\ pc = "select"
                      /\ IF ~asked
                         THEN asked' = TRUE /\ UNCHANGED <<pc, compErr, posted, result>>
                         ELSE /\ compErr' = FirstOf(compErr) /\ asked' = asked
                              /\ posted' = <<>>
                              /\ result' = IF compErr' # 0 THEN Ends("run", compErr') ELSE Ends("signal", 0)
                              /\ Run("teardown")
                      /\ UNCHANGED <<started, doneCount, leaked, quit, raw,
                                     work, minder, sup, exits, cancelled, own>>

\* A signal: gracefulExit drains once more and ends the loop.
Interrupt == /\ pc = "select"
             /\ compErr' = FirstOf(compErr)
             /\ posted' = <<>>
             /\ result' = IF compErr' # 0 THEN Ends("run", compErr') ELSE Ends("signal", 0)
             /\ Run("teardown")
             /\ UNCHANGED <<started, doneCount, asked, leaked, quit, raw,
                            work, minder, sup, exits, cancelled, own>>

Panic == /\ pc \in {"top", "select"}
         /\ result' = Ends("panic", 0)
         /\ Run("teardown")
         /\ UNCHANGED <<started, doneCount, asked, leaked, compErr, quit, raw,
                        work, minder, sup, exits, posted, cancelled, own>>

\* The terminal is given back.
Teardown == /\ pc = "teardown"
            /\ raw' = FALSE
            /\ Run("stop")
            /\ UNCHANGED <<started, doneCount, asked, leaked, compErr, quit, result,
                           work, minder, sup, exits, posted, cancelled, own>>

-----------------------------------------------------------------------------
(* stopCompanions.                                                         *)

Ask == /\ pc = "stop"
       /\ asked' = TRUE
       /\ Run(IF started = 0 THEN "returned" ELSE "wait")
       /\ UNCHANGED <<started, doneCount, leaked, compErr, quit, raw, result,
                      work, minder, sup, exits, posted, cancelled, own>>

Collect == /\ pc = "wait" /\ doneCount < started
           /\ TakeExit
           /\ UNCHANGED <<pc, started, asked, leaked, compErr, quit, raw, result,
                          work, minder, sup, posted, cancelled, own>>

Abandon == /\ pc = "wait" /\ doneCount < started
           /\ leaked' = TRUE
           /\ Run("returned")
           /\ UNCHANGED <<started, doneCount, asked, compErr, quit, raw, result,
                          work, minder, sup, exits, posted, cancelled, own>>

Stopped == /\ pc = "wait" /\ doneCount = started
           /\ Run("returned")
           /\ UNCHANGED <<started, doneCount, asked, leaked, compErr, quit, raw, result,
                          work, minder, sup, exits, posted, cancelled, own>>

-----------------------------------------------------------------------------
(* The companions, their minders and their supervisors.                    *)

\* The function returns or panics, the child exits: by itself, because it was
\* asked to, or because it was killed.
Dies(c) == /\ work[c] = "running"
           /\ work' = [work EXCEPT ![c] = "dead"]
           /\ own' = [own EXCEPT ![c] = ~CtxDone]
           /\ UNCHANGED <<run, minder, sup, exits, posted, cancelled>>

\* What makes the work of c end in the end.
MustDie(c) == IF c \in Cmds THEN minder[c] = "killed" \/ (minder[c] = "termed" /\ c \notin Deaf)
              ELSE CtxDone /\ c \notin Deaf

Mind(c, from, to) == /\ minder[c] = from
                     /\ minder' = [minder EXCEPT ![c] = to]
                     /\ UNCHANGED <<run, work, sup, exits, posted, cancelled, own>>

\* The child has exited, the context is done, the kill delay is over.
MinderStep(c) == \/ /\ work[c] = "dead"
                    /\ \E from \in {"watch", "termed", "killed"} : Mind(c, from, "gone")
                 \/ CtxDone /\ Mind(c, "watch", "termed")
                 \/ Mind(c, "termed", "killed")

\* c.Wait can return.
Over(c) == IF c \in Cmds THEN minder[c] = "gone" ELSE work[c] = "dead"

Waited(c) == /\ sup[c] = "wait" /\ Over(c)
             /\ sup' = [sup EXCEPT ![c] = "send"]
             /\ UNCHANGED <<run, work, minder, exits, posted, cancelled, own>>

\* Mutant: compExit has no buffer.
SendsToReader(c) == /\ sup[c] = "send"
                    /\ pc \in {"grace", "wait"} /\ exits = <<>>
                    /\ exits' = Append(exits, c)
                    /\ sup' = [sup EXCEPT ![c] = "post"]
                    /\ UNCHANGED <<run, work, minder, posted, cancelled, own>>

\* compExit holds one exit for every companion registered.
Sends(c) == /\ sup[c] = "send"
            /\ Len(exits) < N
            /\ exits' = Append(exits, c)
            /\ sup' = [sup EXCEPT ![c] = "post"]
            /\ UNCHANGED <<run, work, minder, posted, cancelled, own>>

Posts(c) == /\ sup[c] = "post"
            /\ posted' = Append(posted, c)
            /\ sup' = [sup EXCEPT ![c] = "gone"]
            /\ UNCHANGED <<run, work, minder, exits, cancelled, own>>

CompanionStep(c) == MinderStep(c) \/ Waited(c) \/ Sends(c) \/ Posts(c)

\* The caller cancels the context it gave to Run.
Cancel == /\ ~cancelled /\ pc # "returned"
          /\ cancelled' = TRUE
          /\ UNCHANGED <<run, work, minder, sup, exits, posted, own>>

RunStep == \/ StartNext \/ StartFails \/ StartPanics \/ AllStarted
           \/ GraceExit \/ GraceOver \/ Acquire
           \/ LoopHead \/ Drain \/ OtherCase \/ Interrupt \/ Panic
           \/ Teardown \/ Ask \/ Collect \/ Abandon \/ Stopped

Next == \/ RunStep \/ Cancel
        \/ \E c \in All : Dies(c) \/ CompanionStep(c)

(***************************************************************************)
(* Run and the goroutines keep running, timers fire, and the select picks  *)
(* uniformly among its ready cases, so a wake that stays ready is received *)
(* however many events compete with it.                                    *)
(***************************************************************************)
Fairness == /\ WF_vars(RunStep)
            /\ SF_vars(Drain)
            /\ \A c \in All : WF_vars(CompanionStep(c)) /\ WF_vars(MustDie(c) /\ Dies(c))

Spec == Init /\ [][Next]_vars /\ Fairness

-----------------------------------------------------------------------------

Kinds == {"nil", "start", "startPanic", "build", "panic", "run", "signal"}

\* The variables hold values of their types.
TypeOK ==
  /\ pc \in {"start", "grace", "build", "top", "select", "teardown", "stop", "wait", "returned"}
  /\ started \in 0..N
  /\ work \in [All -> {"none", "running", "dead"}]
  /\ minder \in [All -> {"none", "watch", "termed", "killed", "gone"}]
  /\ sup \in [All -> {"none", "wait", "send", "post", "gone"}]
  /\ exits \in Seq(All) /\ posted \in Seq(All)
  /\ doneCount \in 0..N
  /\ asked \in BOOLEAN /\ leaked \in BOOLEAN /\ quit \in BOOLEAN
  /\ cancelled \in BOOLEAN /\ raw \in BOOLEAN
  /\ compErr \in 0..N
  /\ result \in [kind : Kinds, c : 0..N]
  /\ own \in [All -> BOOLEAN]

\* Every companion that was started is waited for, on every path out of Run
\* (companion.go:34-36), or CompanionLeaked says that one was not.  The one
\* exception is a Start that panics.
NobodyIsForgotten ==
  pc = "returned" /\ result.kind # "startPanic" /\ ~leaked =>
    \A c \in 1..started : work[c] = "dead" /\ sup[c] \in {"post", "gone"}

\* A service is asked to stop once the terminal is cooked again, never while the
\* app still holds it (app.go:479-483), and whatever ended the run.
CookedWhenAsked == asked => ~raw

\* Run blames a companion for ending the run only if it ended by itself; when the
\* caller has cancelled the context that the companions share, it may have done
\* what it was asked to.
BlameIsTrue == pc = "returned" /\ result.kind = "run" /\ ~cancelled => own[result.c]

\* A service that dies takes the app down with it (companion.go:32-33).
DeadServiceEndsRun ==
  \A c \in All : work[c] = "dead" /\ pc \in {"top", "select"} ~> pc \notin {"top", "select"}

\* Companions are "started in the order given and stopped in reverse, so a
\* companion may depend on one declared before it" (companion.go:103-105): one
\* that is asked to stop does not end before one declared after it.
StoppedInReverse ==
  ~cancelled => \A c, d \in All :
    c < d /\ work[d] = "running" /\ work[c] = "dead" => own[c]
=============================================================================
