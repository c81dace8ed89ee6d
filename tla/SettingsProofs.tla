--------------------------- MODULE SettingsProofs ---------------------------
(***************************************************************************)
(* Proofs about Settings, for any keys and values, any number of Sets, and *)
(* a Provider that may fail at any Save.  The host is one that starts the  *)
(* store once, Flushes between Start and stop only, and calls SaveNow only *)
(* after stop.                                                             *)
(***************************************************************************)
EXTENDS Settings, SequenceTheorems, TLAPS

\* The host's restraint, which the claims about Start's baseline rest on.
Restraint == HostCalls = {} /\ MaxStarts <= 1

Jobs == {"flush", "failed"}

HasFailed(q) == \E i \in DOMAIN q : q[i] = "failed"

-----------------------------------------------------------------------------
(* The store's jobs as a queue.                                            *)

\* A job is queued.
LEMMA Appended == ASSUME NEW q \in Seq(Jobs), NEW j \in Jobs
                  PROVE  /\ Append(q, j) \in Seq(Jobs)
                         /\ Append(q, j) # <<>>
                         /\ HasFailed(Append(q, j)) <=> HasFailed(q) \/ j = "failed"
<1>1. /\ Append(q, j) \in Seq(Jobs)
      /\ Len(Append(q, j)) = Len(q) + 1
      /\ \A i \in 1..Len(q) : Append(q, j)[i] = q[i]
      /\ Append(q, j)[Len(q) + 1] = j
  BY AppendProperties
<1>2. /\ DOMAIN q = 1..Len(q) /\ Len(q) \in Nat
      /\ DOMAIN Append(q, j) = 1..(Len(q) + 1)
  BY <1>1, LenProperties
<1>3. Append(q, j) # <<>>
  BY <1>2
<1>4. HasFailed(Append(q, j)) <=> HasFailed(q) \/ j = "failed"
  BY <1>1, <1>2 DEF HasFailed
<1>5. QED
  BY <1>1, <1>3, <1>4

\* A job is taken from the queue.
LEMMA Tailed == ASSUME NEW q \in Seq(Jobs), q # <<>>
                PROVE  /\ Tail(q) \in Seq(Jobs)
                       /\ Head(q) = "flush" => (HasFailed(Tail(q)) <=> HasFailed(q))
<1>1. /\ Tail(q) \in Seq(Jobs)
      /\ Len(Tail(q)) = Len(q) - 1
      /\ \A i \in 1..Len(Tail(q)) : Tail(q)[i] = q[i + 1]
      /\ Head(q) = q[1]
  BY HeadTailProperties
<1>2. /\ DOMAIN q = 1..Len(q) /\ Len(q) \in Nat \ {0}
      /\ DOMAIN Tail(q) = 1..(Len(q) - 1)
  BY <1>1, LenProperties, EmptySeq
<1>3. ASSUME Head(q) = "flush", HasFailed(q) PROVE HasFailed(Tail(q))
  <2>1. PICK i \in 1..Len(q) : q[i] = "failed"
    BY <1>2, <1>3 DEF HasFailed
  <2>2. i - 1 \in 1..(Len(q) - 1) /\ (i - 1) + 1 = i
    BY <2>1, <1>1, <1>2, <1>3
  <2>3. Tail(q)[i - 1] = "failed"
    BY <2>1, <2>2, <1>1
  <2>4. QED
    BY <2>2, <2>3, <1>2 DEF HasFailed
<1>4. ASSUME HasFailed(Tail(q)) PROVE HasFailed(q)
  <2>1. PICK i \in 1..(Len(q) - 1) : Tail(q)[i] = "failed"
    BY <1>2, <1>4 DEF HasFailed
  <2>2. q[i + 1] = "failed" /\ i + 1 \in 1..Len(q)
    BY <2>1, <1>1, <1>2
  <2>3. QED
    BY <2>2, <1>2 DEF HasFailed
<1>5. QED
  BY <1>1, <1>3, <1>4
-----------------------------------------------------------------------------
(* The inductive invariant.                                                *)

\* A watcher is silent only about what the store knows already.
SilentIfDirty == ~dirty => armed = AllArmed

\* Until Start nothing has been handed to the provider.
BeforeStart == starts = 0 => /\ ~started /\ saved = None /\ reqs = None
                             /\ writer = "none" /\ queue = <<>> /\ ui = "free"
                             /\ ~dirty => value = disk /\ value = offered

\* The writer is there for as long as the store is started, and a writer that
\* is gone, or in its last Save, leaves nothing in the slot.
WriterLives == /\ started => ui = "free" /\ writer \in {"idle", "saving"}
               /\ writing # None <=> writer \in {"saving", "final"}
               /\ writer \in {"none", "final"} => reqs = None

\* The provider has been, or will be, given the document.
Offered(doc) == reqs = doc \/ (reqs = None /\ offered = doc)

\* What is clean, and what counts as saved, is offered; and stop sees to it
\* that the last document is.
CleanIsOffered == /\ started => (~dirty => Offered(value)) /\ (saved # None => Offered(saved))
                  /\ ui = "joining" => (Encodes(value) => Offered(value))

Believed == started /\ saved # None =>
              \/ disk = saved /\ reqs = None /\ writing = None
              \/ reqs = saved
              \/ writing = saved /\ reqs = None
              \/ HasFailed(queue)

IInv == /\ TypeOK
        /\ SilentIfDirty
        /\ BeforeStart
        /\ WriterLives
        /\ CleanIsOffered
        /\ SetsAreNoticed
        /\ Believed

\* The two ways of stating what the store believes agree.
LEMMA BelievedIsSavedIsTrue == Believed <=> SavedIsTrue
  BY DEF Believed, SavedIsTrue, HasFailed

-----------------------------------------------------------------------------
(* One lemma for each step.                                                *)

\* In the beginning the disk has what the store has, and nothing counts as saved.
LEMMA Initially == Init => IInv
<1> SUFFICES ASSUME Init PROVE IInv
  OBVIOUS
<1>1. <<>> \in Seq(Jobs) /\ ~HasFailed(<<>>)
  BY EmptySeq, LenProperties DEF HasFailed
<1>2. QED
  BY <1>1, SettingsAssumption
  DEF Init, IInv, TypeOK, SilentIfDirty, BeforeStart, WriterLives, CleanIsOffered, Offered,
      SetsAreNoticed, Believed, AllArmed, Docs, MaybeDocs, Jobs, Encodes

\* What a Set does to the store: it is dirty, and a Flush may be queued.
LEMMA ChangedQueues ==
  ASSUME TypeOK, Changed
  PROVE  /\ dirty' = TRUE /\ posted' \in BOOLEAN
         /\ queue' \in Seq(Jobs)
         /\ HasFailed(queue) => HasFailed(queue')
         /\ starts = 0 => queue' = queue
         /\ UNCHANGED <<saved, autoSave, started>>
<1>1. /\ dirty' = TRUE /\ UNCHANGED <<saved, autoSave, started>>
      /\ queue \in Seq(Jobs) /\ posted \in BOOLEAN
  BY DEF Changed, TypeOK, Jobs
<1>2. CASE autoSave /\ starts > 0 /\ ~posted
  <2>1. posted' = TRUE /\ queue' = Append(queue, "flush") /\ starts # 0
    BY <1>2 DEF Changed, TypeOK
  <2>2. "flush" \in Jobs
    BY DEF Jobs
  <2>3. queue' \in Seq(Jobs) /\ (HasFailed(queue) => HasFailed(queue'))
    BY <2>1, <2>2, <1>1, Appended
  <2>4. QED
    BY <2>1, <2>3, <1>1
<1>3. CASE ~(autoSave /\ starts > 0 /\ ~posted)
  <2>1. UNCHANGED <<posted, queue>>
    BY <1>3 DEF Changed
  <2>2. QED
    BY <2>1, <1>1 DEF HasFailed
<1>4. QED
  BY <1>2, <1>3

\* A step that leaves the store dirty and hands nothing on.
LEMMA DirtyStep ==
  ASSUME IInv, ui = "free",
         value' \in Docs, armed' \in [Registered -> BOOLEAN], dirty' = TRUE, sets' \in Nat,
         queue' \in Seq(Jobs), posted' \in BOOLEAN,
         HasFailed(queue) => HasFailed(queue'),
         starts = 0 => queue' = queue,
         UNCHANGED <<saved, autoSave, started, reqs, writer, writing, ui, disk, offered, starts>>
  PROVE  IInv'
<1>1. TypeOK'
  BY DEF IInv, TypeOK, MaybeDocs, Jobs
<1>2. SilentIfDirty' /\ BeforeStart' /\ WriterLives'
  BY DEF IInv, SilentIfDirty, BeforeStart, WriterLives
<1>3. CleanIsOffered' /\ SetsAreNoticed'
  BY DEF IInv, CleanIsOffered, Offered, SetsAreNoticed
<1>4. Believed'
  BY DEF IInv, Believed
<1>5. QED
  BY <1>1, <1>2, <1>3, <1>4 DEF IInv

\* A handle is Set.
LEMMA SetKeyStep == ASSUME IInv, NEW k \in Registered, NEW v \in Values, SetKey(k, v) PROVE IInv'
<1>1. /\ ui = "free" /\ value' \in Docs /\ armed' \in [Registered -> BOOLEAN] /\ sets' \in Nat
      /\ UNCHANGED <<reqs, writer, writing, ui, disk, offered, starts>>
  BY DEF IInv, TypeOK, SetKey, Docs, Keys
<1>2. CASE armed[k]
  <2>1. Changed /\ TypeOK
    BY <1>2 DEF SetKey, IInv
  <2>2. QED
    BY <1>1, <2>1, ChangedQueues, DirtyStep
<1>3. CASE ~armed[k]
  <2>1. dirty
    BY <1>3 DEF IInv, SilentIfDirty, AllArmed
  <2>2. UNCHANGED <<dirty, posted, saved, autoSave, started, queue>>
    BY <1>3 DEF SetKey, store
  <2>3. /\ dirty' = TRUE /\ queue' \in Seq(Jobs) /\ posted' \in BOOLEAN
        /\ HasFailed(queue) => HasFailed(queue')
    BY <2>1, <2>2 DEF IInv, TypeOK, Jobs, HasFailed
  <2>4. QED
    BY <1>1, <2>2, <2>3, DirtyStep
<1>4. QED
  BY <1>2, <1>3

\* A free key is Set.
LEMMA SetRawStep == ASSUME IInv, NEW k \in Free, NEW v \in Values, SetRaw(k, v) PROVE IInv'
<1>1. /\ ui = "free" /\ value' \in Docs /\ armed' \in [Registered -> BOOLEAN] /\ sets' \in Nat
      /\ UNCHANGED <<reqs, writer, writing, ui, disk, offered, starts>>
  BY DEF IInv, TypeOK, SetRaw, Docs, Keys
<1>2. Changed /\ TypeOK
  BY DEF SetRaw, IInv
<1>3. QED
  BY <1>1, <1>2, ChangedQueues, DirtyStep

\* A Flush of a started store, which Stop may follow by closing done.
LEMMA FlushStep ==
  ASSUME IInv, started, Flush(TRUE),
         queue' \in Seq(Jobs), posted' \in BOOLEAN,
         HasFailed(queue) <=> HasFailed(queue'),
         started' \in BOOLEAN, started' => ui' = ui, ~started' => ui' = "joining",
         UNCHANGED <<value, autoSave, writer, writing, disk, offered, sets, starts>>
  PROVE  IInv'
<1>1. ui = "free" /\ starts # 0 /\ writer \in {"idle", "saving"} /\ value \in Docs /\ value # None
  BY SettingsAssumption DEF IInv, TypeOK, WriterLives, BeforeStart
<1>2. /\ armed' = AllArmed
      /\ Encodes(value) => dirty' = FALSE
      /\ ~Encodes(value) => UNCHANGED <<dirty, saved, reqs>>
      /\ Encodes(value) /\ value # saved => saved' = value /\ reqs' = value
      /\ Encodes(value) /\ value = saved => UNCHANGED <<saved, reqs>>
  BY DEF Flush, Snapshot, Request
<1>3. TypeOK'
  <2>1. saved' \in MaybeDocs /\ reqs' \in MaybeDocs /\ dirty' \in BOOLEAN
    BY <1>1, <1>2 DEF IInv, TypeOK, MaybeDocs
  <2>2. armed' \in [Registered -> BOOLEAN]
    BY <1>2 DEF AllArmed
  <2>3. started' \in BOOLEAN /\ ui' \in {"free", "saving", "joining"}
    BY <1>1
  <2>4. QED
    BY <2>1, <2>2, <2>3 DEF IInv, TypeOK, MaybeDocs, Jobs
<1>4. SilentIfDirty' /\ BeforeStart'
  BY <1>1, <1>2 DEF SilentIfDirty, BeforeStart
<1>5. WriterLives'
  BY <1>1 DEF IInv, WriterLives
<1>6. CleanIsOffered'
  <2>1. Encodes(value) => reqs' = value \/ (reqs' = None /\ offered = value)
    BY <1>1, <1>2 DEF IInv, CleanIsOffered, Offered
  <2>2. saved' # None => reqs' = saved' \/ (reqs' = None /\ offered = saved')
    BY <1>1, <1>2 DEF IInv, CleanIsOffered, Offered
  <2>3. ~Encodes(value) => (~dirty' => reqs' = value \/ (reqs' = None /\ offered = value))
    BY <1>2 DEF IInv, CleanIsOffered, Offered
  <2>4. QED
    BY <2>1, <2>2, <2>3 DEF CleanIsOffered, Offered, Encodes
<1>7. SetsAreNoticed'
  BY <1>2 DEF IInv, SetsAreNoticed
<1>8. Believed'
  BY <1>1, <1>2 DEF IInv, Believed
<1>9. QED
  BY <1>3, <1>4, <1>5, <1>6, <1>7, <1>8 DEF IInv

\* A step of a store that has been stopped: only the slot and the writer matter.
LEMMA StoppedStep ==
  ASSUME IInv, ~started, starts # 0, TypeOK',
         armed' = AllArmed \/ (armed' = armed /\ dirty' = dirty),
         ui' # "joining",
         UNCHANGED <<started, reqs, writer, writing, starts>>
  PROVE  IInv'
<1>1. SilentIfDirty' /\ BeforeStart' /\ WriterLives'
  BY DEF IInv, SilentIfDirty, BeforeStart, WriterLives
<1>2. CleanIsOffered' /\ SetsAreNoticed' /\ Believed'
  BY DEF CleanIsOffered, SetsAreNoticed, Believed
<1>3. QED
  BY <1>1, <1>2 DEF IInv

\* AutoSave is turned on or off.
LEMMA AutoSaveStep == ASSUME IInv, NEW on \in BOOLEAN, AutoSave(on) PROVE IInv'
<1>1. /\ autoSave' \in BOOLEAN
      /\ UNCHANGED <<value, armed, dirty, posted, saved, started, queue, reqs, writer, writing, ui,
                     disk, offered, sets, starts>>
  BY DEF AutoSave
<1>2. QED
  BY <1>1
  DEF IInv, TypeOK, SilentIfDirty, BeforeStart, WriterLives, CleanIsOffered, Offered, SetsAreNoticed,
      Believed, HasFailed

\* The host itself does not Flush.
LEMMA HostFlushStep == ASSUME Restraint, IInv, HostFlush PROVE IInv'
<1>1. /\ ui = "free" /\ starts # 0 /\ Flush(started)
      /\ UNCHANGED <<value, posted, autoSave, started, queue, writer, writing, ui, disk, offered,
                     sets, starts>>
  BY DEF HostFlush, Restraint
<1>2. CASE started
  <2>1. started = TRUE /\ queue \in Seq(Jobs) /\ posted \in BOOLEAN
    BY <1>2 DEF IInv, TypeOK, Jobs
  <2>2. Flush(TRUE)
    BY <1>1, <2>1
  <2>3. started' \in BOOLEAN /\ started' /\ (HasFailed(queue) <=> HasFailed(queue'))
    BY <1>1, <2>1 DEF HasFailed
  <2>4. QED
    BY <1>1, <1>2, <2>1, <2>2, <2>3, FlushStep
<1>3. CASE ~started
  <2>1. /\ armed' = AllArmed /\ dirty' \in BOOLEAN /\ UNCHANGED <<saved, reqs>>
    BY <1>1, <1>3 DEF Flush, Snapshot, IInv, TypeOK
  <2>2. AllArmed \in [Registered -> BOOLEAN]
    BY DEF AllArmed
  <2>3. TypeOK'
    BY <1>1, <2>1, <2>2 DEF IInv, TypeOK, MaybeDocs
  <2>4. QED
    BY <1>1, <1>3, <2>1, <2>3, StoppedStep
<1>4. QED
  BY <1>2, <1>3

\* SaveNow is called of a store that has been stopped.
LEMMA SaveNowIsLate ==
  ASSUME Restraint, IInv, MayCall("earlySaveNow", "liveSaveNow")
  PROVE  ~started /\ starts # 0
  BY DEF Restraint, MayCall

\* The host itself does not SaveNow a clean store.
LEMMA SaveNowSkipsStep == ASSUME Restraint, IInv, SaveNowSkips PROVE IInv'
<1>1. /\ ui = "free" /\ armed' = AllArmed /\ dirty' \in BOOLEAN
      /\ UNCHANGED <<value, posted, saved, autoSave, started, queue, reqs, writer, writing, ui,
                     disk, offered, sets, starts>>
  BY DEF SaveNowSkips, Snapshot, IInv, TypeOK
<1>2. ~started /\ starts # 0
  BY SaveNowIsLate DEF SaveNowSkips
<1>3. AllArmed \in [Registered -> BOOLEAN]
  BY DEF AllArmed
<1>4. TypeOK'
  BY <1>1, <1>3 DEF IInv, TypeOK, MaybeDocs
<1>5. QED
  BY <1>1, <1>2, <1>4, StoppedStep

\* The host itself does not SaveNow.
LEMMA SaveNowCallsStep == ASSUME Restraint, IInv, SaveNowCalls PROVE IInv'
<1>1. /\ armed' = AllArmed /\ dirty' = FALSE /\ ui' = "saving" /\ offered' = value
      /\ UNCHANGED <<value, posted, saved, autoSave, started, queue, reqs, writer, writing, disk,
                     sets, starts>>
  BY DEF SaveNowCalls, Snapshot
<1>2. ~started /\ starts # 0
  BY SaveNowIsLate DEF SaveNowCalls
<1>3. AllArmed \in [Registered -> BOOLEAN]
  BY DEF AllArmed
<1>4. TypeOK'
  BY <1>1, <1>3 DEF IInv, TypeOK, MaybeDocs
<1>5. QED
  BY <1>1, <1>2, <1>4, StoppedStep

\* A Save on the UI goroutine returns.
LEMMA SaveNowReturnsStep == ASSUME IInv, NEW ok \in BOOLEAN, SaveNowReturns(ok) PROVE IInv'
<1>1. /\ ui = "saving" /\ ui' = "free"
      /\ saved' \in MaybeDocs /\ disk' \in Docs
      /\ UNCHANGED <<value, armed, dirty, posted, autoSave, started, queue, reqs, writer, writing,
                     offered, sets, starts>>
  BY DEF SaveNowReturns, IInv, TypeOK, MaybeDocs
<1>2. ~started /\ starts # 0
  BY <1>1 DEF IInv, WriterLives, BeforeStart
<1>3. TypeOK'
  BY <1>1 DEF IInv, TypeOK, MaybeDocs
<1>4. QED
  BY <1>1, <1>2, <1>3, StoppedStep

\* Start flushes a dirty store, and takes what a clean one holds for saved.
LEMMA StartStep == ASSUME Restraint, IInv, Start PROVE IInv'
<1>1. /\ starts = 0 /\ starts' = 1 /\ started' = TRUE /\ writer' = "idle"
      /\ UNCHANGED <<value, posted, autoSave, queue, writing, ui, disk, offered, sets>>
  BY SettingsAssumption DEF Start, Restraint, IInv, TypeOK
<1>2. /\ ~started /\ saved = None /\ reqs = None /\ writer = "none" /\ writing = None
      /\ ui = "free" /\ queue = <<>>
      /\ ~dirty => value = disk /\ value = offered
  BY <1>1 DEF IInv, BeforeStart, WriterLives
<1>3. value # None /\ value \in Docs
  BY SettingsAssumption DEF IInv, TypeOK
\* What it takes as saved is what it hands on, or what is on the disk already.
<1>4. /\ armed' = AllArmed /\ dirty' \in BOOLEAN
      /\ \/ saved' = value /\ reqs' = value
         \/ saved' = value /\ reqs' = None /\ value = disk /\ value = offered
         \/ saved' = None /\ reqs' = None /\ (~dirty' => value = offered)
  <2>1. CASE dirty
    BY <2>1, <1>2, <1>3 DEF Start, Flush, Snapshot, Request, IInv, TypeOK
  <2>2. CASE ~dirty
    BY <2>2, <1>2 DEF Start, Snapshot, IInv, TypeOK
  <2>3. QED
    BY <2>1, <2>2
<1>5. TypeOK'
  <2>1. AllArmed \in [Registered -> BOOLEAN]
    BY DEF AllArmed
  <2>2. QED
    BY <1>1, <1>3, <1>4, <2>1 DEF IInv, TypeOK, MaybeDocs
<1>6. SilentIfDirty' /\ BeforeStart' /\ WriterLives'
  BY <1>1, <1>2, <1>4 DEF SilentIfDirty, BeforeStart, WriterLives
<1>7. CleanIsOffered' /\ SetsAreNoticed' /\ Believed'
  BY <1>1, <1>2, <1>3, <1>4 DEF CleanIsOffered, Offered, SetsAreNoticed, Believed, Encodes
<1>8. QED
  BY <1>5, <1>6, <1>7 DEF IInv

\* stop flushes, and asks the writer to go.
LEMMA StopStep == ASSUME IInv, Stop PROVE IInv'
<1>1. /\ ui = "free" /\ started /\ started' = FALSE /\ ui' = "joining"
      /\ UNCHANGED <<value, posted, autoSave, queue, writer, writing, disk, offered, sets, starts>>
  BY DEF Stop
<1>2. CASE dirty
  <2>1. Flush(TRUE) /\ queue' \in Seq(Jobs) /\ posted' \in BOOLEAN /\ started' \in BOOLEAN
    BY <1>1, <1>2 DEF Stop, IInv, TypeOK, Jobs
  <2>2. HasFailed(queue) <=> HasFailed(queue')
    BY <1>1 DEF HasFailed
  <2>3. QED
    BY <1>1, <2>1, <2>2, FlushStep
<1>3. CASE ~dirty
  <2>1. UNCHANGED <<armed, dirty, saved, reqs>>
    BY <1>3 DEF Stop
  <2>2. TypeOK'
    BY <1>1, <2>1 DEF IInv, TypeOK
  <2>3. SilentIfDirty' /\ BeforeStart' /\ WriterLives'
    BY <1>1, <2>1 DEF IInv, SilentIfDirty, BeforeStart, WriterLives
  <2>4. CleanIsOffered' /\ SetsAreNoticed' /\ Believed'
    BY <1>1, <1>3, <2>1 DEF IInv, CleanIsOffered, Offered, SetsAreNoticed, Believed
  <2>5. QED
    BY <2>2, <2>3, <2>4 DEF IInv
<1>4. QED
  BY <1>2, <1>3

\* stop has joined the writer.
LEMMA StopReturnsStep == ASSUME IInv, StopReturns PROVE IInv'
<1>1. /\ ui = "joining" /\ ui' = "free"
      /\ UNCHANGED <<value, armed, dirty, posted, saved, autoSave, started, queue, reqs, writer,
                     writing, disk, offered, sets, starts>>
  BY DEF StopReturns, store
<1>2. ~started /\ starts # 0
  BY <1>1 DEF IInv, WriterLives, BeforeStart
<1>3. TypeOK'
  BY <1>1 DEF IInv, TypeOK
<1>4. QED
  BY <1>1, <1>2, <1>3, StoppedStep

\* A queued Flush that finds the store stopped hands nothing on.
LEMMA RunFlushStep == ASSUME IInv, RunFlush PROVE IInv'
<1>1. /\ ui = "free" /\ queue # <<>> /\ Head(queue) = "flush" /\ queue' = Tail(queue)
      /\ posted' = FALSE /\ Flush(started)
      /\ UNCHANGED <<value, autoSave, started, writer, writing, ui, disk, offered, sets, starts>>
  BY DEF RunFlush
<1>2. queue \in Seq(Jobs) /\ starts # 0
  BY <1>1 DEF IInv, TypeOK, BeforeStart, Jobs
<1>3. queue' \in Seq(Jobs) /\ (HasFailed(queue) <=> HasFailed(queue'))
  BY <1>1, <1>2, Tailed
<1>4. CASE started
  <2>1. started = TRUE /\ Flush(TRUE) /\ posted' \in BOOLEAN
    BY <1>1, <1>4 DEF IInv, TypeOK
  <2>2. started' \in BOOLEAN /\ started'
    BY <1>1, <2>1
  <2>3. QED
    BY <1>1, <1>3, <1>4, <2>1, <2>2, FlushStep
<1>5. CASE ~started
  <2>1. /\ armed' = AllArmed /\ dirty' \in BOOLEAN /\ UNCHANGED <<saved, reqs>>
    BY <1>1, <1>5 DEF Flush, Snapshot, IInv, TypeOK
  <2>2. AllArmed \in [Registered -> BOOLEAN]
    BY DEF AllArmed
  <2>3. TypeOK'
    BY <1>1, <1>3, <2>1, <2>2 DEF IInv, TypeOK, MaybeDocs, Jobs
  <2>4. QED
    BY <1>1, <1>2, <1>5, <2>1, <2>3, StoppedStep
<1>6. QED
  BY <1>4, <1>5

\* The store stops believing in what a failed Save did not save.
LEMMA RunFailedStep == ASSUME IInv, RunFailed PROVE IInv'
<1>1. /\ ui = "free" /\ queue # <<>> /\ queue' = Tail(queue) /\ saved' = None
      /\ UNCHANGED <<value, armed, dirty, posted, autoSave, started, reqs, writer, writing, ui,
                     disk, offered, sets, starts>>
  BY DEF RunFailed
<1>2. queue \in Seq(Jobs) /\ starts # 0
  BY <1>1 DEF IInv, TypeOK, BeforeStart, Jobs
<1>3. queue' \in Seq(Jobs)
  BY <1>1, <1>2, Tailed
<1>4. TypeOK'
  BY <1>1, <1>3 DEF IInv, TypeOK, MaybeDocs, Jobs
<1>5. SilentIfDirty' /\ BeforeStart' /\ WriterLives'
  BY <1>1, <1>2 DEF IInv, SilentIfDirty, BeforeStart, WriterLives
<1>6. CleanIsOffered' /\ SetsAreNoticed' /\ Believed'
  BY <1>1 DEF IInv, CleanIsOffered, Offered, SetsAreNoticed, Believed, Encodes
<1>7. QED
  BY <1>4, <1>5, <1>6 DEF IInv

\* What is taken from the slot is what the provider is then given.
LEMMA TakeStep ==
  ASSUME IInv, writer = "idle",
         Take("saving") \/ (ui = "joining" /\ Take("final")),
         UNCHANGED <<value, armed, dirty, posted, saved, autoSave, started, queue, ui, disk, sets,
                     starts>>
  PROVE  IInv'
<1>1. /\ reqs # None /\ writing' = reqs /\ offered' = reqs /\ reqs' = None
      /\ writer' \in {"saving", "final"} /\ (writer' = "final" => ui = "joining")
  BY DEF Take
<1>2. reqs \in Docs /\ starts # 0
  BY <1>1 DEF IInv, TypeOK, MaybeDocs, BeforeStart
<1>3. TypeOK'
  BY <1>1, <1>2 DEF IInv, TypeOK, MaybeDocs
<1>4. SilentIfDirty' /\ BeforeStart'
  BY <1>2 DEF IInv, SilentIfDirty, BeforeStart
<1>5. WriterLives'
  BY <1>1 DEF IInv, WriterLives
<1>6. CleanIsOffered'
  BY <1>1 DEF IInv, CleanIsOffered, Offered, Encodes
<1>7. SetsAreNoticed' /\ Believed'
  BY <1>1 DEF IInv, SetsAreNoticed, Believed, HasFailed
<1>8. QED
  BY <1>3, <1>4, <1>5, <1>6, <1>7 DEF IInv

\* The writer takes the document in the slot.
LEMMA WriterTakesStep == ASSUME IInv, WriterTakes PROVE IInv'
  BY TakeStep DEF WriterTakes, store

\* The writer, asked to go, takes what the slot still holds, or goes.
LEMMA WriterDoneStep == ASSUME IInv, WriterDone PROVE IInv'
<1>1. /\ writer = "idle" /\ ui = "joining"
      /\ UNCHANGED <<value, armed, dirty, posted, saved, autoSave, started, queue, ui, disk, sets,
                     starts>>
  BY DEF WriterDone, store
<1>2. CASE Take("final")
  BY <1>1, <1>2, TakeStep
<1>3. CASE reqs = None /\ writer' = "none" /\ UNCHANGED <<reqs, writing, offered>>
  <2>1. ~started /\ starts # 0
    BY <1>1 DEF IInv, WriterLives, BeforeStart
  <2>2. TypeOK'
    BY <1>1, <1>3 DEF IInv, TypeOK
  <2>3. SilentIfDirty' /\ BeforeStart' /\ WriterLives'
    BY <1>1, <1>3, <2>1 DEF IInv, SilentIfDirty, BeforeStart, WriterLives
  <2>4. CleanIsOffered' /\ SetsAreNoticed' /\ Believed'
    BY <1>1, <1>3, <2>1 DEF IInv, CleanIsOffered, Offered, SetsAreNoticed, Believed, Encodes
  <2>5. QED
    BY <2>2, <2>3, <2>4 DEF IInv
<1>4. QED
  BY <1>2, <1>3 DEF WriterDone

\* A Save that returns has written its document, or queues the news.
LEMMA WriterSavedStep == ASSUME IInv, NEW ok \in BOOLEAN, WriterSaved(ok) PROVE IInv'
<1>1. /\ writer \in {"saving", "final"} /\ writing' = None
      /\ writer' = IF writer = "final" THEN "none" ELSE "idle"
      /\ ok => disk' = writing /\ queue' = queue
      /\ ~ok => disk' = disk /\ queue' = Append(queue, "failed")
      /\ UNCHANGED <<value, armed, dirty, posted, saved, autoSave, started, reqs, offered, ui, sets,
                     starts>>
  BY DEF WriterSaved, store
<1>2. writing \in Docs /\ writing # None /\ starts # 0 /\ queue \in Seq(Jobs)
  BY <1>1 DEF IInv, TypeOK, MaybeDocs, BeforeStart, WriterLives, Jobs
<1>3. /\ queue' \in Seq(Jobs)
      /\ HasFailed(queue) => HasFailed(queue')
      /\ ~ok => HasFailed(queue')
  <2>1. "failed" \in Jobs
    BY DEF Jobs
  <2>2. /\ Append(queue, "failed") \in Seq(Jobs)
        /\ HasFailed(Append(queue, "failed"))
    BY <1>2, <2>1, Appended
  <2>3. QED
    BY <1>1, <1>2, <2>2
<1>4. TypeOK'
  <2>1. disk' \in Docs /\ writer' \in {"none", "idle", "saving", "final"} /\ writing' \in MaybeDocs
    BY <1>1, <1>2 DEF IInv, TypeOK, MaybeDocs
  <2>2. QED
    BY <1>1, <1>3, <2>1 DEF IInv, TypeOK, MaybeDocs, Jobs
<1>5. SilentIfDirty' /\ BeforeStart' /\ WriterLives'
  BY <1>1, <1>2 DEF IInv, SilentIfDirty, BeforeStart, WriterLives
<1>6. CleanIsOffered' /\ SetsAreNoticed'
  BY <1>1 DEF IInv, CleanIsOffered, Offered, SetsAreNoticed, Encodes
<1>7. Believed'
  BY <1>1, <1>2, <1>3 DEF IInv, Believed
<1>8. QED
  BY <1>4, <1>5, <1>6, <1>7 DEF IInv

\* A step that changes nothing.
LEMMA StutterStep == ASSUME IInv, UNCHANGED vars PROVE IInv'
  BY DEF IInv, vars, store, TypeOK, SilentIfDirty, BeforeStart, WriterLives, CleanIsOffered, Offered,
         SetsAreNoticed, Believed, HasFailed, Encodes

\* Every step of the host keeps the invariant.
LEMMA HostStep == ASSUME Restraint, IInv, Host PROVE IInv'
<1>1. CASE \E v \in Values : \/ \E k \in Registered : SetKey(k, v)
                             \/ \E k \in Free : SetRaw(k, v)
  BY <1>1, SetKeyStep, SetRawStep
<1>2. CASE \E on \in AutoSaveTo : AutoSave(on)
  BY <1>2, AutoSaveStep, SettingsAssumption
<1>3. CASE HostFlush \/ SaveNowSkips \/ SaveNowCalls
  BY <1>3, HostFlushStep, SaveNowSkipsStep, SaveNowCallsStep
<1>4. CASE \E ok \in SaveResults : SaveNowReturns(ok)
  BY <1>4, SaveNowReturnsStep, SettingsAssumption
<1>5. CASE Start \/ Stop \/ StopReturns
  BY <1>5, StartStep, StopStep, StopReturnsStep
<1>6. QED
  BY <1>1, <1>2, <1>3, <1>4, <1>5 DEF Host

\* Every step keeps the invariant.
LEMMA Step == ASSUME Restraint, IInv, [Next]_vars PROVE IInv'
<1>1. CASE Host
  BY <1>1, HostStep
<1>2. CASE Job
  BY <1>2, RunFlushStep, RunFailedStep DEF Job
<1>3. CASE Writer
  BY <1>3, WriterTakesStep, WriterDoneStep, WriterSavedStep, SettingsAssumption DEF Writer
<1>4. CASE UNCHANGED vars
  BY <1>4, StutterStep
<1>5. QED
  BY <1>1, <1>2, <1>3, <1>4 DEF Next

\* The inductive invariant holds of every store whose host shows restraint
\* (settings/settings.go: one Start, no Flush or SaveNow beside the writer).
THEOREM Invariance == ASSUME Restraint PROVE Spec => []IInv
<1>1. Init => IInv
  BY Initially
<1>2. IInv /\ [Next]_vars => IInv'
  BY Step
<1>3. QED
  BY <1>1, <1>2, PTL DEF Spec

-----------------------------------------------------------------------------

\* Every reachable state is well typed.
THEOREM TypeCorrect == ASSUME Restraint PROVE Spec => []TypeOK
<1>1. IInv => TypeOK
  BY DEF IInv
<1>2. QED
  BY <1>1, Invariance, PTL

\* No Set goes unnoticed, whatever watchers are silent (settings.go, changed
\* and snapshot).
THEOREM NoSetIsLost == ASSUME Restraint PROVE Spec => []SetsAreNoticed
<1>1. IInv => SetsAreNoticed
  BY DEF IInv
<1>2. QED
  BY <1>1, Invariance, PTL

\* What the store believes saved is on the disk, on its way there, or about to
\* be doubted: documents do not overtake each other (settings.go:525-529).
THEOREM NothingOvertakes == ASSUME Restraint PROVE Spec => []SavedIsTrue
<1>1. IInv => SavedIsTrue
  BY BelievedIsSavedIsTrue DEF IInv
<1>2. QED
  BY <1>1, Invariance, PTL

\* stop's promise: when it returns the provider has been given the last
\* document, and no one is left who could call it (settings.go:510-514).
THEOREM StopKeepsItsPromise == ASSUME Restraint PROVE Spec => StopDelivers
<1>1. ASSUME IInv, StopReturns
      PROVE  /\ offered = value \/ ~Encodes(value)
             /\ writing = None /\ reqs = None
  <2>1. ui = "joining" /\ writer = "none"
    BY <1>1 DEF StopReturns
  <2>2. writing = None /\ reqs = None
    BY <1>1, <2>1 DEF IInv, WriterLives
  <2>3. value # None
    BY <1>1, SettingsAssumption DEF IInv, TypeOK
  <2>4. QED
    BY <1>1, <2>1, <2>2, <2>3 DEF IInv, CleanIsOffered, Offered
<1>2. IInv /\ [Next]_vars => [StopReturns => /\ offered = value \/ ~Encodes(value)
                                             /\ writing = None /\ reqs = None]_vars
  BY <1>1
<1>3. QED
  BY <1>2, Invariance, PTL DEF Spec, StopDelivers
=============================================================================
