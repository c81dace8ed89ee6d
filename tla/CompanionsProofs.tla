--------------------------- MODULE CompanionsProofs ---------------------------
(***************************************************************************)
(* Safety of Run's companions for any number of them, of either kind, deaf *)
(* or not.  What teardown counts are supervisors that have sent, so when   *)
(* the count is that of the companions started, every one has.             *)
(***************************************************************************)
EXTENDS Companions, FiniteSetTheorems, SequenceTheorems, TLAPS

\* Those whose supervisor has handed in its exit.
Sent == {c \in All : sup[c] \in {"post", "gone"}}

\* A companion that has not been started has nothing running.
Unstarted == \A c \in All : c > started => work[c] = "none" /\ minder[c] = "none" /\ sup[c] = "none"

\* A supervisor that is past Wait, and a minder that is gone, know of a death.
Known == \A c \in All : /\ sup[c] \in {"send", "post", "gone"} => work[c] = "dead"
                        /\ minder[c] = "gone" => work[c] = "dead"

\* Every exit that was sent is in the channel or has been counted.
Counted == doneCount + Len(exits) = Cardinality(Sent)

\* Run returns when it has counted all, unless it says otherwise.
Awaited == pc = "returned" /\ result.kind # "startPanic" /\ ~leaked => doneCount >= started

\* The terminal and the request to stop exclude each other by where Run is.
Cooked == /\ raw => pc \in {"top", "select", "teardown"}
          /\ asked => pc \in {"wait", "returned"}

\* Whom Run may blame: c is dead, and by its own doing if nobody has cancelled.
Blamable(c) == work[c] = "dead" /\ (own[c] \/ cancelled)

Blame == /\ \A c \in All : work[c] = "dead" /\ ~asked => own[c] \/ cancelled
         /\ \A i \in 1..Len(posted) : work[posted[i]] = "dead"
         /\ compErr # 0 => Blamable(compErr)
         /\ result.kind = "run" => result.c \in All /\ Blamable(result.c)

IInv == TypeOK /\ Unstarted /\ Known /\ Counted /\ Awaited /\ Cooked /\ Blame

-----------------------------------------------------------------------------

\* The companions that have handed in their exits are some of those started.
LEMMA SentWereStarted ==
  ASSUME TypeOK, Unstarted
  PROVE  /\ Sent \subseteq 1..started
         /\ IsFiniteSet(Sent) /\ Cardinality(Sent) \in Nat
         /\ Cardinality(Sent) <= started
         /\ Cardinality(Sent) = started => Sent = 1..started
<1>1. started \in Nat /\ 0 \in Nat
  BY NAssumption DEF TypeOK
<1>2. Sent \subseteq 1..started
  BY <1>1, NAssumption DEF Sent, Unstarted, TypeOK, All
<1>3. IsFiniteSet(1..started) /\ Cardinality(1..started) = started
  BY <1>1, FS_Interval
<1>4. /\ IsFiniteSet(Sent) /\ Cardinality(Sent) <= started
      /\ Cardinality(Sent) = started => Sent = 1..started
  BY <1>2, <1>3, FS_Subset
<1> QED
  BY <1>2, <1>4, FS_CardinalityType

\* In the beginning nothing is running.
LEMMA InitHolds == Init => IInv
<1> SUFFICES ASSUME Init PROVE IInv
  OBVIOUS
<1>0. 0 \in 0..N /\ exits \in Seq(All) /\ posted \in Seq(All)
  BY NAssumption, EmptySeq DEF Init
<1>1. TypeOK
  BY <1>0 DEF Init, TypeOK, Ends, Nil, Kinds
<1>2. Sent = {}
  BY DEF Init, Sent
<1>3. Counted
  BY <1>2, FS_EmptySet DEF Init, Counted
<1>4. Unstarted /\ Known /\ Awaited /\ Cooked
  BY DEF Init, Unstarted, Known, Awaited, Cooked
<1>5. Blame
  BY DEF Init, Blame, Ends, Nil
<1> QED
  BY <1>1, <1>3, <1>4, <1>5 DEF IInv

-----------------------------------------------------------------------------
(* Steps of Run that leave the companions alone: they move pc and what Run *)
(* returns.                                                                *)

Alone == UNCHANGED <<work, minder, sup, own, cancelled>>

\* Such a step keeps what is said of the companions themselves.
LEMMA AloneKeeps ==
  ASSUME IInv, Alone, UNCHANGED <<started, exits, doneCount>>
  PROVE  Unstarted' /\ Known' /\ Counted'
BY DEF IInv, Alone, Unstarted, Known, Counted, Sent

\* Starting the next one.
LEMMA StartNextKeeps == ASSUME IInv, StartNext PROVE IInv'
<1> DEFINE c == started + 1
<1>1. c \in All /\ started \in 0..N /\ c # 0
  BY NAssumption DEF IInv, TypeOK, StartNext, All
<1>2. /\ started' = c
      /\ work' = [work EXCEPT ![c] = "running"]
      /\ minder' = IF c \in Cmds THEN [minder EXCEPT ![c] = "watch"] ELSE minder
      /\ sup' = [sup EXCEPT ![c] = "wait"]
      /\ UNCHANGED <<pc, doneCount, asked, leaked, compErr, quit, raw, result,
                     exits, posted, cancelled, own>>
      /\ pc = "start" /\ started < N
  BY DEF StartNext
<1>3. work[c] = "none" /\ minder[c] = "none" /\ sup[c] = "none"
  BY <1>1, NAssumption DEF IInv, Unstarted, TypeOK
<1>4. TypeOK'
  BY <1>1, <1>2, NAssumption DEF IInv, TypeOK, All
<1>5. /\ \A d \in All : work'[d] = IF d = c THEN "running" ELSE work[d]
      /\ \A d \in All : sup'[d] = IF d = c THEN "wait" ELSE sup[d]
      /\ \A d \in All : d # c => minder'[d] = minder[d]
      /\ minder'[c] # "gone"
  BY <1>1, <1>2, <1>3 DEF IInv, TypeOK
<1>6. Unstarted'
  BY <1>1, <1>2, <1>5, NAssumption DEF IInv, Unstarted, All
<1>7. Known'
  BY <1>5 DEF IInv, Known
<1>8. Sent' = Sent
  BY <1>3, <1>5 DEF Sent
<1>9. Counted'
  BY <1>2, <1>8 DEF IInv, Counted
<1>10. Awaited' /\ Cooked'
  BY <1>2 DEF IInv, Awaited, Cooked
<1>11. \A d \in All : work[d] = "dead" => work'[d] = "dead"
  BY <1>3, <1>5
<1>12. \A i \in 1..Len(posted) : posted[i] \in All
  BY DEF IInv, TypeOK
<1>13. Blame'
  BY <1>2, <1>5, <1>11, <1>12, NAssumption DEF IInv, Blame, Blamable, TypeOK, All
<1> QED
  BY <1>4, <1>6, <1>7, <1>9, <1>10, <1>13 DEF IInv

\* A start that fails or panics, or all have started.
LEMMA StartEndsKeeps == ASSUME IInv, StartFails \/ StartPanics \/ AllStarted PROVE IInv'
<1>1. Alone /\ UNCHANGED <<started, doneCount, exits, posted, compErr, asked, raw, leaked, quit>>
  BY DEF StartFails, StartPanics, AllStarted, Alone
<1>2. /\ pc = "start" /\ pc' \in {"stop", "returned", "grace"}
      /\ pc' = "returned" => result'.kind = "startPanic"
      /\ \/ result' = result
         \/ result' = [kind |-> "start", c |-> started + 1] /\ started < N
         \/ result' = [kind |-> "startPanic", c |-> started + 1] /\ started < N
  BY DEF StartFails, StartPanics, AllStarted, Run, Ends
<1>3. TypeOK'
  BY <1>1, <1>2, NAssumption DEF IInv, TypeOK, Alone, Kinds
<1>4. Awaited' /\ Cooked'
  BY <1>1, <1>2 DEF IInv, Awaited, Cooked
<1>5. Blame'
  BY <1>1, <1>2 DEF IInv, Blame, Blamable, Alone
<1> QED
  BY <1>1, <1>3, <1>4, <1>5, AloneKeeps DEF IInv

\* The grace period, the build, the loop, the teardown.
LEMMA LoopKeeps ==
  ASSUME IInv, GraceOver \/ Acquire \/ LoopHead \/ OtherCase \/ Panic \/ Teardown
  PROVE  IInv'
<1>1. Alone /\ UNCHANGED <<started, doneCount, exits, posted, compErr, asked, leaked>>
  BY DEF GraceOver, Acquire, LoopHead, OtherCase, Panic, Teardown, Alone
<1>2. /\ pc' \in {"build", "top", "select", "teardown", "stop"} /\ pc \notin {"wait", "returned"}
      /\ raw' \in BOOLEAN /\ quit' \in BOOLEAN
      /\ raw' => pc' \in {"top", "select", "teardown"}
  <2>1. raw \in BOOLEAN /\ quit \in BOOLEAN /\ (raw => pc \in {"top", "select", "teardown"})
    BY DEF IInv, TypeOK, Cooked
  <2>2. CASE GraceOver
    BY <2>1, <2>2 DEF GraceOver, Run
  <2>2a. CASE Acquire
    <3>1. pc = "build" /\ raw = FALSE /\ quit' = quit
      BY <2>1, <2>2a DEF Acquire
    <3>2. \/ pc' = "top" /\ raw' = TRUE
          \/ pc' = "stop" /\ raw' = FALSE
      BY <3>1, <2>2a DEF Acquire, Run
    <3> QED
      BY <2>1, <3>1, <3>2
  <2>3. CASE LoopHead \/ OtherCase
    BY <2>1, <2>3 DEF LoopHead, OtherCase, Run
  <2>4. CASE Panic \/ Teardown
    BY <2>1, <2>4 DEF Panic, Teardown, Run
  <2> QED
    BY <2>2, <2>2a, <2>3, <2>4
<1>3. \/ result' = result
      \/ result' = [kind |-> "run", c |-> compErr] /\ compErr # 0
      \/ \E kind \in {"build", "panic", "nil"} : result' = [kind |-> kind, c |-> 0]
  BY DEF GraceOver, Acquire, LoopHead, OtherCase, Panic, Teardown, ExitErr, Ends, Nil
<1>4. TypeOK'
  BY <1>1, <1>2, <1>3, NAssumption DEF IInv, TypeOK, Alone, Kinds
<1>5. Awaited' /\ Cooked'
  BY <1>1, <1>2 DEF IInv, Awaited, Cooked
<1>6. compErr # 0 => compErr \in All
  BY NAssumption DEF IInv, TypeOK, All
<1>7. Blame'
  BY <1>1, <1>3, <1>6 DEF IInv, Blame, Blamable, Alone
<1> QED
  BY <1>1, <1>4, <1>5, <1>7, AloneKeeps DEF IInv

\* A supervisor's closure blames only the dead.
LEMMA FirstIsDead ==
  ASSUME IInv, NEW e, e = FirstOf(compErr), ~asked
  PROVE  e \in 0..N /\ (e # 0 => e \in All /\ Blamable(e))
<1>1. compErr \in 0..N /\ (compErr # 0 => compErr \in All)
  BY NAssumption DEF IInv, TypeOK, All
<1>2. CASE compErr # 0 \/ posted = <<>>
  BY <1>1, <1>2 DEF FirstOf, IInv, Blame
<1>3. CASE compErr = 0 /\ posted # <<>>
  <2>1. e = posted[1] /\ 1 \in 1..Len(posted) /\ e \in All
    BY <1>3 DEF FirstOf, IInv, TypeOK
  <2> QED
    BY <2>1, NAssumption DEF IInv, Blame, Blamable, All
<1> QED
  BY <1>2, <1>3

\* Drain and gracefulExit run the supervisors' closures.
LEMMA DrainKeeps == ASSUME IInv, Drain \/ Interrupt PROVE IInv'
<1>1. /\ Alone /\ UNCHANGED <<started, doneCount, exits, asked, leaked, raw>>
      /\ pc = "select" /\ pc' \in {"top", "teardown"} /\ posted' = <<>>
      /\ compErr' = FirstOf(compErr) /\ quit' \in BOOLEAN
  BY DEF Drain, Interrupt, Alone, Run, IInv, TypeOK
<1>2. ~asked
  BY <1>1 DEF IInv, Cooked
<1>3. compErr' \in 0..N /\ (compErr' # 0 => compErr' \in All /\ Blamable(compErr'))
  BY <1>1, <1>2, FirstIsDead
<1>4. \/ result' = result
      \/ result' = [kind |-> "run", c |-> compErr'] /\ compErr' # 0
      \/ result' = [kind |-> "signal", c |-> 0]
  BY DEF Drain, Interrupt, Ends
<1>5. TypeOK'
  BY <1>1, <1>3, <1>4, NAssumption DEF IInv, TypeOK, Alone, Kinds
<1>6. Awaited' /\ Cooked'
  BY <1>1 DEF IInv, Awaited, Cooked
<1>7. Blame'
  BY <1>1, <1>3, <1>4 DEF IInv, Blame, Blamable, Alone
<1> QED
  BY <1>1, <1>5, <1>6, <1>7, AloneKeeps DEF IInv

-----------------------------------------------------------------------------
(* The exits.                                                              *)

\* Taking one out of the channel counts it.
LEMMA TakeExitKeeps ==
  ASSUME IInv, TakeExit, Alone, UNCHANGED started
  PROVE  /\ Unstarted' /\ Known' /\ Counted'
         /\ Head(exits) \in All /\ exits' \in Seq(All) /\ doneCount' \in 0..N
<1>1. exits \in Seq(All) /\ exits # <<>> /\ exits' = Tail(exits) /\ doneCount' = doneCount + 1
      /\ doneCount \in Nat
  BY NAssumption DEF IInv, TypeOK, TakeExit
<1>2. /\ Head(exits) \in All /\ exits' \in Seq(All)
      /\ Len(exits) \in Nat /\ Len(exits') = Len(exits) - 1 /\ Len(exits) > 0
  BY <1>1, HeadTailProperties, LenProperties, EmptySeq
<1>3. Sent' = Sent
  BY DEF Sent, Alone
<1>4. Counted' /\ doneCount' <= Cardinality(Sent)
  BY <1>1, <1>2, <1>3, SentWereStarted DEF IInv, Counted
<1>5. doneCount' \in 0..N
  BY <1>1, <1>4, SentWereStarted, NAssumption DEF IInv, TypeOK
<1>6. Unstarted' /\ Known'
  BY DEF IInv, Alone, Unstarted, Known
<1> QED
  BY <1>2, <1>4, <1>5, <1>6

\* One that comes in the grace period ends the run before it began.
LEMMA GraceExitKeeps == ASSUME IInv, GraceExit PROVE IInv'
<1>1. /\ TakeExit /\ Alone
      /\ UNCHANGED <<started, asked, leaked, compErr, quit, raw, posted>>
      /\ pc = "grace" /\ pc' = "stop"
      /\ result' = [kind |-> "start", c |-> Head(exits)]
  BY DEF GraceExit, Alone, Run, Ends
<1>2. TypeOK'
  BY <1>1, TakeExitKeeps, NAssumption DEF IInv, TypeOK, Alone, Kinds, All
<1>3. Awaited' /\ Cooked' /\ Blame'
  BY <1>1 DEF IInv, Awaited, Cooked, Blame, Blamable, Alone
<1> QED
  BY <1>1, <1>2, <1>3, TakeExitKeeps DEF IInv

\* Teardown counts an exit, which leaves the channel.
LEMMA CollectKeeps == ASSUME IInv, Collect PROVE IInv'
<1>1. /\ TakeExit /\ Alone /\ pc = "wait" /\ pc' = pc
      /\ UNCHANGED <<started, asked, leaked, compErr, quit, raw, posted, result>>
  BY DEF Collect, Alone
<1>2. TypeOK'
  BY <1>1, TakeExitKeeps DEF IInv, TypeOK, Alone
<1>3. Awaited' /\ Cooked' /\ Blame'
  BY <1>1 DEF IInv, Awaited, Cooked, Blame, Blamable, Alone
<1> QED
  BY <1>1, <1>2, <1>3, TakeExitKeeps DEF IInv

\* stopCompanions asks, and comes to its end with or without them all.
LEMMA StopKeeps == ASSUME IInv, Ask \/ Abandon \/ Stopped PROVE IInv'
<1>1. /\ Alone /\ UNCHANGED <<started, doneCount, exits, posted, compErr, result, raw, quit>>
      /\ pc \in {"stop", "wait"} /\ pc' \in {"wait", "returned"}
      /\ asked' \in BOOLEAN /\ leaked' \in BOOLEAN
      /\ asked => asked'
  BY DEF Ask, Abandon, Stopped, Alone, Run, IInv, TypeOK
<1>2. TypeOK'
  BY <1>1 DEF IInv, TypeOK, Alone
<1>3. Cooked'
  BY <1>1 DEF IInv, Cooked
<1>4. Awaited'
  BY <1>1, NAssumption DEF Ask, Abandon, Stopped, Run, Awaited, IInv, TypeOK
<1>5. Blame'
  BY <1>1 DEF IInv, Blame, Blamable, Alone
<1> QED
  BY <1>1, <1>2, <1>3, <1>4, <1>5, AloneKeeps DEF IInv

-----------------------------------------------------------------------------
(* The companions, their minders and supervisors, and the caller.          *)

\* A companion dies, of itself or because it was asked to.
LEMMA DiesKeeps == ASSUME IInv, NEW c \in All, Dies(c) PROVE IInv'
<1>1. /\ work[c] = "running" /\ work' = [work EXCEPT ![c] = "dead"]
      /\ own' = [own EXCEPT ![c] = ~CtxDone]
      /\ UNCHANGED <<pc, started, doneCount, asked, leaked, compErr, quit, raw, result,
                     minder, sup, exits, posted, cancelled>>
  BY DEF Dies, run
<1>2. CtxDone \in BOOLEAN /\ (~CtxDone <=> ~asked /\ ~cancelled)
  BY DEF CtxDone, IInv, TypeOK
<1>3. TypeOK'
  BY <1>1, <1>2 DEF IInv, TypeOK
<1>4. /\ \A d \in All : work'[d] = IF d = c THEN "dead" ELSE work[d]
      /\ \A d \in All : d # c => own'[d] = own[d]
      /\ own'[c] = ~CtxDone
  BY <1>1 DEF IInv, TypeOK
<1>5. Unstarted' /\ Known'
  BY <1>1, <1>4 DEF IInv, Unstarted, Known
<1>6. Counted' /\ Awaited' /\ Cooked'
  BY <1>1 DEF IInv, Counted, Sent, Awaited, Cooked
<1>7. \A i \in 1..Len(posted) : posted[i] \in All
  BY DEF IInv, TypeOK
<1>8. ASSUME NEW d \in All, Blamable(d) PROVE work'[d] = "dead" /\ (own'[d] \/ cancelled)
  BY <1>1, <1>4, <1>8 DEF Blamable
<1>9. compErr # 0 => compErr \in All
  BY NAssumption DEF IInv, TypeOK, All
<1>10. \A d \in All : work'[d] = "dead" /\ ~asked => own'[d] \/ cancelled
  BY <1>2, <1>4 DEF IInv, Blame
<1>11. \A i \in 1..Len(posted) : work'[posted[i]] = "dead"
  BY <1>4, <1>7 DEF IInv, Blame
<1>12. /\ compErr # 0 => work'[compErr] = "dead" /\ (own'[compErr] \/ cancelled)
       /\ result.kind = "run" => /\ result.c \in All /\ work'[result.c] = "dead"
                                 /\ own'[result.c] \/ cancelled
  BY <1>8, <1>9 DEF IInv, Blame
<1>13. Blame'
  BY <1>1, <1>10, <1>11, <1>12 DEF Blame, Blamable
<1> QED
  BY <1>3, <1>5, <1>6, <1>13 DEF IInv

\* A child's minder asks it to terminate, kills it, or is through.
LEMMA MinderKeeps == ASSUME IInv, NEW c \in All, MinderStep(c) PROVE IInv'
<1>1. PICK to \in {"gone", "termed", "killed"} :
        /\ minder[c] # "none" /\ minder' = [minder EXCEPT ![c] = to]
        /\ to = "gone" => work[c] = "dead"
        /\ UNCHANGED <<pc, started, doneCount, asked, leaked, compErr, quit, raw, result,
                       work, sup, exits, posted, cancelled, own>>
  BY DEF MinderStep, Mind, run
<1>2. TypeOK'
  BY <1>1 DEF IInv, TypeOK
<1>3. Unstarted' /\ Known'
  BY <1>1 DEF IInv, TypeOK, Unstarted, Known
<1>4. Counted' /\ Awaited' /\ Cooked' /\ Blame'
  BY <1>1 DEF IInv, Counted, Sent, Awaited, Cooked, Blame, Blamable
<1> QED
  BY <1>2, <1>3, <1>4 DEF IInv

\* Wait returns to a supervisor: its companion is dead.
LEMMA WaitedKeeps == ASSUME IInv, NEW c \in All, Waited(c) PROVE IInv'
<1>1. /\ sup[c] = "wait" /\ work[c] = "dead" /\ sup' = [sup EXCEPT ![c] = "send"]
      /\ UNCHANGED <<pc, started, doneCount, asked, leaked, compErr, quit, raw, result,
                     work, minder, exits, posted, cancelled, own>>
  BY DEF Waited, Over, run, IInv, Known
<1>2. TypeOK'
  BY <1>1 DEF IInv, TypeOK
<1>3. \A d \in All : sup'[d] = IF d = c THEN "send" ELSE sup[d]
  BY <1>1 DEF IInv, TypeOK
<1>4. Unstarted' /\ Known'
  BY <1>1, <1>3 DEF IInv, Unstarted, Known
<1>5. Sent' = Sent
  BY <1>1, <1>3 DEF Sent
<1>6. Counted' /\ Awaited' /\ Cooked' /\ Blame'
  BY <1>1, <1>5 DEF IInv, Counted, Awaited, Cooked, Blame, Blamable
<1> QED
  BY <1>2, <1>4, <1>6 DEF IInv

\* An exit that is sent is in the channel and the set at once.
LEMMA SendsKeeps == ASSUME IInv, NEW c \in All, Sends(c) PROVE IInv'
<1>1. /\ sup[c] = "send" /\ exits' = Append(exits, c) /\ sup' = [sup EXCEPT ![c] = "post"]
      /\ UNCHANGED <<pc, started, doneCount, asked, leaked, compErr, quit, raw, result,
                     work, minder, posted, cancelled, own>>
  BY DEF Sends, run
<1>2. exits \in Seq(All) /\ exits' \in Seq(All) /\ Len(exits') = Len(exits) + 1
      /\ Len(exits) \in Nat /\ doneCount \in Nat
  BY <1>1, AppendProperties, LenProperties, NAssumption DEF IInv, TypeOK
<1>3. TypeOK'
  BY <1>1, <1>2 DEF IInv, TypeOK
<1>4. \A d \in All : sup'[d] = IF d = c THEN "post" ELSE sup[d]
  BY <1>1 DEF IInv, TypeOK
<1>5. Unstarted' /\ Known'
  BY <1>1, <1>4 DEF IInv, Unstarted, Known
<1>6. Sent' = Sent \cup {c} /\ c \notin Sent
  BY <1>1, <1>4 DEF Sent
<1>7. Cardinality(Sent') = Cardinality(Sent) + 1
  BY <1>6, SentWereStarted, FS_AddElement DEF IInv
<1>8. Counted'
  BY <1>1, <1>2, <1>7, SentWereStarted DEF IInv, Counted
<1>9. Awaited' /\ Cooked' /\ Blame'
  BY <1>1 DEF IInv, Awaited, Cooked, Blame, Blamable
<1> QED
  BY <1>3, <1>5, <1>8, <1>9 DEF IInv

\* A supervisor posts the closure that ends the run.
LEMMA PostsKeeps == ASSUME IInv, NEW c \in All, Posts(c) PROVE IInv'
<1>1. /\ sup[c] = "post" /\ posted' = Append(posted, c) /\ sup' = [sup EXCEPT ![c] = "gone"]
      /\ UNCHANGED <<pc, started, doneCount, asked, leaked, compErr, quit, raw, result,
                     work, minder, exits, cancelled, own>>
  BY DEF Posts, run
<1>2. posted \in Seq(All) /\ posted' \in Seq(All) /\ Len(posted') = Len(posted) + 1
      /\ Len(posted) \in Nat /\ posted'[Len(posted) + 1] = c
      /\ \A i \in 1..Len(posted) : posted'[i] = posted[i]
  BY <1>1, AppendProperties, LenProperties DEF IInv, TypeOK
<1>3. TypeOK'
  BY <1>1, <1>2 DEF IInv, TypeOK
<1>4. \A d \in All : sup'[d] = IF d = c THEN "gone" ELSE sup[d]
  BY <1>1 DEF IInv, TypeOK
<1>5. Unstarted' /\ Known'
  BY <1>1, <1>4 DEF IInv, Unstarted, Known
<1>6. Sent' = Sent
  BY <1>1, <1>4 DEF Sent
<1>7. Counted' /\ Awaited' /\ Cooked'
  BY <1>1, <1>6 DEF IInv, Counted, Awaited, Cooked
<1>8. work[c] = "dead"
  BY <1>1 DEF IInv, Known
<1>9. \A i \in 1..Len(posted') : work[posted'[i]] = "dead"
  BY <1>2, <1>8 DEF IInv, Blame
<1>10. Blame'
  BY <1>1, <1>9 DEF IInv, Blame, Blamable
<1> QED
  BY <1>3, <1>5, <1>7, <1>10 DEF IInv

\* Run's caller cancels its context.
LEMMA CancelKeeps == ASSUME IInv, Cancel PROVE IInv'
<1>1. cancelled' = TRUE /\ UNCHANGED <<pc, started, doneCount, asked, leaked, compErr, quit, raw,
                                       result, work, minder, sup, exits, posted, own>>
  BY DEF Cancel, run
<1> QED
  BY <1>1 DEF IInv, TypeOK, Unstarted, Known, Counted, Sent, Awaited, Cooked, Blame, Blamable

-----------------------------------------------------------------------------

\* Every step keeps the invariant.
THEOREM NextKeepsIInv == IInv /\ [Next]_vars => IInv'
<1> SUFFICES ASSUME IInv, [Next]_vars PROVE IInv'
  OBVIOUS
<1>1. CASE RunStep
  BY <1>1, StartNextKeeps, StartEndsKeeps, GraceExitKeeps, LoopKeeps, DrainKeeps, StopKeeps,
     CollectKeeps DEF RunStep
<1>2. CASE Cancel
  BY <1>2, CancelKeeps
<1>3. CASE \E c \in All : Dies(c) \/ CompanionStep(c)
  BY <1>3, DiesKeeps, MinderKeeps, WaitedKeeps, SendsKeeps, PostsKeeps DEF CompanionStep
<1>4. CASE UNCHANGED vars
  BY <1>4 DEF vars, run, IInv, TypeOK, Unstarted, Known, Counted, Sent, Awaited, Cooked, Blame, Blamable
<1> QED
  BY <1>1, <1>2, <1>3, <1>4 DEF Next

\* The invariant holds of every behaviour.
THEOREM SpecIInv == Spec => []IInv
BY InitHolds, NextKeepsIInv, PTL DEF Spec

\* The variables of Companions keep their types.
THEOREM SpecTypeOK == Spec => []TypeOK
BY SpecIInv, PTL DEF IInv

\* Run returns without a companion it started only if it says so, or a Start
\* panicked (stopCompanions).
THEOREM SpecNobodyIsForgotten == Spec => []NobodyIsForgotten
<1>1. IInv => NobodyIsForgotten
  <2> SUFFICES ASSUME IInv, pc = "returned", result.kind # "startPanic", ~leaked,
                      NEW c \in 1..started
               PROVE  work[c] = "dead" /\ sup[c] \in {"post", "gone"}
    BY DEF NobodyIsForgotten
  <2>1. doneCount >= started /\ doneCount \in Nat /\ started \in Nat /\ Len(exits) \in Nat
    BY LenProperties, NAssumption DEF IInv, Awaited, TypeOK
  <2>2. Cardinality(Sent) >= started
    BY <2>1 DEF IInv, Counted
  <2>3. Sent = 1..started
    BY <2>1, <2>2, SentWereStarted DEF IInv
  <2>4. c \in All /\ sup[c] \in {"post", "gone"}
    BY <2>3 DEF Sent
  <2> QED
    BY <2>4 DEF IInv, Known
<1> QED
  BY <1>1, SpecIInv, PTL

\* The terminal is cooked when the services are asked to stop (teardown before
\* stopCompanions).
THEOREM SpecCookedWhenAsked == Spec => []CookedWhenAsked
<1>1. IInv => CookedWhenAsked
  BY DEF IInv, Cooked, CookedWhenAsked
<1> QED
  BY <1>1, SpecIInv, PTL

\* A companion that Run blames ended by itself, or the caller cancelled (exitErr).
THEOREM SpecBlameIsTrue == Spec => []BlameIsTrue
<1>1. IInv => BlameIsTrue
  BY DEF IInv, Blame, Blamable, BlameIsTrue
<1> QED
  BY <1>1, SpecIInv, PTL
=============================================================================
