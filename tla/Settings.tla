------------------------------ MODULE Settings ------------------------------
(***************************************************************************)
(* settings.Store (settings/settings.go): one document of keys, live.  The *)
(* UI goroutine Sets keys, a dispatcher job Flushes, and a writer          *)
(* goroutine calls the host's Provider, fed through a slot that holds the  *)
(* newest document only.  A Set is noticed by a watcher, a computed that   *)
(* fires once and is silent until the next snapshot arms it again.         *)
(*                                                                         *)
(* A document is what the keys hold.  Provider.Save is two steps, its call *)
(* and its return, since the UI goroutine runs in between.                 *)
(***************************************************************************)
EXTENDS Sequences, Naturals

CONSTANTS
  Registered,   \* keys a typed handle owns
  Free,         \* pass-through keys
  Values,       \* what a key may hold, its absence included
  Unencodable,  \* values of a handle that json.Marshal refuses
  None,         \* no document: nil, or an empty slot
  SaveResults,  \* possible outcomes of Provider.Save
  AutoSaveTo,   \* what the host calls AutoSave with
  HostCalls,    \* what the host calls besides Flush after Start and SaveNow after stop
  MaxSets,      \* bound: Sets, SetRaws and Deletes
  MaxStarts     \* bound: Starts

Keys == Registered \cup Free
Docs == [Keys -> Values]

ASSUME SettingsAssumption ==
  /\ Registered \cap Free = {}
  /\ Unencodable \subseteq Values
  /\ Values \ Unencodable # {}
  /\ None \notin Docs
  /\ SaveResults \subseteq BOOLEAN
  /\ AutoSaveTo \subseteq BOOLEAN
  /\ HostCalls \subseteq {"earlyFlush", "earlySaveNow", "liveSaveNow"}
  /\ MaxSets \in Nat /\ MaxStarts \in Nat

VARIABLES
  value,     \* the document in memory: handles and the pass map
  armed,     \* armed[k]: k's watcher is clean, its next Set calls changed
  dirty, posted, saved, autoSave, started,   \* Store's fields
  queue,     \* the store's jobs on the dispatcher
  reqs,      \* the one-slot channel to the writer
  writer,    \* the writer goroutine: not running, in its select, in a Save,
             \* or in the Save of its final take
  writing,   \* the document being saved, by the writer or by SaveNow
  ui,        \* where the UI goroutine is: free, in SaveNow's Save, joining
  disk,      \* the document the provider holds
  offered,   \* history: the document of the last call of Save
  sets, starts   \* how many so far, for the bounds

store == <<dirty, posted, saved, autoSave, started>>
vars == <<value, armed, store, queue, reqs, writer, writing, ui, disk, offered, sets, starts>>

Encodes(doc) == \A k \in Registered : doc[k] \notin Unencodable

AllArmed == [k \in Registered |-> TRUE]

Init == /\ value \in {doc \in Docs : Encodes(doc)}
        /\ armed = AllArmed
        /\ dirty = FALSE /\ posted = FALSE /\ saved = None
        /\ autoSave = TRUE /\ started = FALSE
        /\ queue = <<>> /\ reqs = None
        /\ writer = "none" /\ writing = None
        /\ ui = "free"
        /\ disk = value /\ offered = value
        /\ sets = 0 /\ starts = 0

-----------------------------------------------------------------------------
(* Store's helpers, on the UI goroutine.                                   *)

\* Store.changed: at most one Flush is queued.  post is nil until Start.
Changed == /\ dirty' = TRUE
           /\ IF autoSave /\ starts > 0 /\ ~posted
              THEN posted' = TRUE /\ queue' = Append(queue, "flush")
              ELSE UNCHANGED <<posted, queue>>
           /\ UNCHANGED <<saved, autoSave, started>>

\* Mutant: the snapshot encodes and does not re-arm.
SnapshotOnly == armed' = armed

\* Store.snapshot arms every watcher, whether or not it then encodes.
Snapshot == armed' = AllArmed

\* Mutant: the slot keeps what it holds.
RequestOldest(doc) == reqs' = IF reqs = None THEN doc ELSE reqs

\* Store.request: one slot, newest wins.
Request(doc) == reqs' = doc

\* Store.Flush, with or without a writer to hand the document to.
Flush(running) ==
  /\ Snapshot
  /\ IF ~Encodes(value) THEN UNCHANGED <<dirty, saved, reqs>>
     ELSE /\ dirty' = FALSE
          /\ IF value # saved /\ running
             THEN saved' = value /\ Request(value)
             ELSE UNCHANGED <<saved, reqs>>

-----------------------------------------------------------------------------
(* What the host does on the UI goroutine.                                 *)

\* Property.Set on a handle, or SetRaw or Delete of a registered key.
SetKey(k, v) == /\ ui = "free"
                /\ sets < MaxSets
                /\ sets' = sets + 1
                /\ value' = [value EXCEPT ![k] = v]
                /\ armed' = [armed EXCEPT ![k] = FALSE]
                /\ IF armed[k] THEN Changed ELSE UNCHANGED <<store, queue>>
                /\ UNCHANGED <<reqs, writer, writing, ui, disk, offered, starts>>

\* SetRaw or Delete of a pass-through key.
SetRaw(k, v) == /\ ui = "free"
                /\ sets < MaxSets
                /\ sets' = sets + 1
                /\ value' = [value EXCEPT ![k] = v]
                /\ Changed
                /\ UNCHANGED <<armed, reqs, writer, writing, ui, disk, offered, starts>>

AutoSave(on) == /\ ui = "free"
                /\ on # autoSave
                /\ autoSave' = on
                /\ UNCHANGED <<value, armed, dirty, posted, saved, started, queue, reqs, writer,
                               writing, ui, disk, offered, sets, starts>>

\* The host calls Flush, on a commit.
HostFlush == /\ ui = "free"
             /\ starts = 0 => "earlyFlush" \in HostCalls
             /\ Flush(started)
             /\ UNCHANGED <<value, posted, autoSave, started, queue, writer, writing, ui, disk,
                            offered, sets, starts>>

MayCall(early, live) == /\ starts = 0 => early \in HostCalls
                        /\ started => live \in HostCalls

\* SaveNow that has nothing to write: the document is unencodable, or is the
\* one the provider was last given.
SaveNowSkips == /\ ui = "free"
                /\ MayCall("earlySaveNow", "liveSaveNow")
                /\ ~Encodes(value) \/ value = saved
                /\ Snapshot
                /\ dirty' = (dirty /\ ~Encodes(value))
                /\ UNCHANGED <<value, posted, saved, autoSave, started, queue, reqs, writer,
                               writing, ui, disk, offered, sets, starts>>

\* SaveNow, up to its call of the provider.
SaveNowCalls == /\ ui = "free"
                /\ MayCall("earlySaveNow", "liveSaveNow")
                /\ Encodes(value) /\ value # saved
                /\ Snapshot
                /\ dirty' = FALSE
                /\ ui' = "saving"
                /\ offered' = value
                /\ UNCHANGED <<value, posted, saved, autoSave, started, queue, reqs, writer,
                               writing, disk, sets, starts>>

SaveNowReturns(ok) == /\ ui = "saving"
                      /\ ui' = "free"
                      /\ saved' = IF ok THEN value ELSE None
                      /\ disk' = IF ok THEN value ELSE disk
                      /\ UNCHANGED <<value, armed, dirty, posted, autoSave, started, queue, reqs,
                                     writer, writing, offered, sets, starts>>

\* Start: bring the writer up, then flush what is already dirty or take the
\* baseline a Set is compared with.
Start == /\ ui = "free" /\ ~started
         /\ starts < MaxStarts
         /\ starts' = starts + 1
         /\ started' = TRUE
         /\ writer' = "idle"
         /\ IF dirty THEN Flush(TRUE)
            ELSE /\ Snapshot
                 /\ saved' = IF Encodes(value) THEN value ELSE saved
                 /\ UNCHANGED <<dirty, reqs>>
         /\ UNCHANGED <<value, posted, autoSave, queue, writing, ui, disk, offered, sets>>

\* stop, up to its wait: flush what is dirty, close done.
Stop == /\ ui = "free" /\ started
        /\ IF dirty THEN Flush(TRUE) ELSE UNCHANGED <<armed, dirty, saved, reqs>>
        /\ started' = FALSE
        /\ ui' = "joining"
        /\ UNCHANGED <<value, posted, autoSave, queue, writer, writing, disk, offered, sets, starts>>

StopReturns == /\ ui = "joining"
               /\ writer = "none"
               /\ ui' = "free"
               /\ UNCHANGED <<value, armed, store, queue, reqs, writer, writing, disk, offered,
                              sets, starts>>

-----------------------------------------------------------------------------
(* The dispatcher runs the store's jobs.                                   *)

\* Mutant: the posted flag outlives the Flush it announced.
RunFlushOnly == /\ ui = "free"
                /\ queue # <<>> /\ Head(queue) = "flush"
                /\ queue' = Tail(queue)
                /\ Flush(started)
                /\ UNCHANGED <<value, posted, autoSave, started, writer, writing, ui, disk, offered,
                               sets, starts>>

RunFlush == /\ ui = "free"
            /\ queue # <<>> /\ Head(queue) = "flush"
            /\ queue' = Tail(queue)
            /\ posted' = FALSE
            /\ Flush(started)
            /\ UNCHANGED <<value, autoSave, started, writer, writing, ui, disk, offered, sets, starts>>

\* What the writer posts when a Save failed.
RunFailed == /\ ui = "free"
             /\ queue # <<>> /\ Head(queue) = "failed"
             /\ queue' = Tail(queue)
             /\ saved' = None
             /\ UNCHANGED <<value, armed, dirty, posted, autoSave, started, reqs, writer, writing, ui,
                            disk, offered, sets, starts>>

-----------------------------------------------------------------------------
(* The writer goroutine.  done is closed while the UI goroutine joins it.  *)

Take(then) == /\ reqs # None
              /\ writing' = reqs /\ offered' = reqs
              /\ reqs' = None
              /\ writer' = then

WriterTakes == /\ writer = "idle"
               /\ Take("saving")
               /\ UNCHANGED <<value, armed, store, queue, ui, disk, sets, starts>>

\* Mutant: done ends the writer whatever the slot holds.
WriterQuits == /\ writer = "idle" /\ ui = "joining"
               /\ writer' = "none"
               /\ UNCHANGED <<value, armed, store, queue, reqs, writing, offered, ui, disk, sets, starts>>

\* The select picks done: one final non-blocking take.
WriterDone == /\ writer = "idle" /\ ui = "joining"
              /\ \/ Take("final")
                 \/ reqs = None /\ writer' = "none" /\ UNCHANGED <<reqs, writing, offered>>
              /\ UNCHANGED <<value, armed, store, queue, ui, disk, sets, starts>>

WriterSaved(ok) == /\ writer \in {"saving", "final"}
                   /\ writing' = None
                   /\ writer' = IF writer = "final" THEN "none" ELSE "idle"
                   /\ disk' = IF ok THEN writing ELSE disk
                   /\ queue' = IF ok THEN queue ELSE Append(queue, "failed")
                   /\ UNCHANGED <<value, armed, store, reqs, offered, ui, sets, starts>>

-----------------------------------------------------------------------------

Job == RunFlush \/ RunFailed

Writer == WriterTakes \/ WriterDone \/ \E ok \in SaveResults : WriterSaved(ok)

Host == \/ \E v \in Values : \/ \E k \in Registered : SetKey(k, v)
                             \/ \E k \in Free : SetRaw(k, v)
        \/ \E on \in AutoSaveTo : AutoSave(on)
        \/ HostFlush
        \/ SaveNowSkips \/ SaveNowCalls \/ \E ok \in SaveResults : SaveNowReturns(ok)
        \/ Start \/ Stop \/ StopReturns

Next == Host \/ Job \/ Writer

(* The app's loop drains its dispatcher and the writer is scheduled; a     *)
(* Save returns.  The host need not do anything but return from SaveNow.   *)
Fairness == /\ WF_vars(Job) /\ WF_vars(Writer)
            /\ WF_vars(\E ok \in SaveResults : SaveNowReturns(ok))

Spec == Init /\ [][Next]_vars /\ Fairness

-----------------------------------------------------------------------------

MaybeDocs == Docs \cup {None}

\* The variables hold values of their types.
TypeOK == /\ value \in Docs /\ armed \in [Registered -> BOOLEAN]
          /\ dirty \in BOOLEAN /\ posted \in BOOLEAN /\ saved \in MaybeDocs
          /\ autoSave \in BOOLEAN /\ started \in BOOLEAN
          /\ queue \in Seq({"flush", "failed"}) /\ reqs \in MaybeDocs
          /\ writer \in {"none", "idle", "saving", "final"} /\ writing \in MaybeDocs
          /\ ui \in {"free", "saving", "joining"}
          /\ disk \in Docs /\ offered \in Docs
          /\ sets \in Nat /\ starts \in Nat

\* No Set goes unnoticed: where the document in memory is not the one the
\* provider was last given, the store knows it, or knows that a save failed.
\* A watcher that fired is silent, so this rests on dirty outliving it.
SetsAreNoticed == started /\ ~dirty => value = saved \/ saved = None

\* What the store believes saved is on the disk, on its way there, or a job
\* is queued that will take the belief back (settings.go:525-529): newer and
\* older documents never swap places between Flush and the disk.
SavedIsTrue == started /\ saved # None =>
                 \/ disk = saved /\ reqs = None /\ writing = None
                 \/ reqs = saved
                 \/ writing = saved /\ reqs = None
                 \/ \E i \in DOMAIN queue : queue[i] = "failed"

\* When stop returns the provider has seen the last document, and nothing is
\* left that could call it again (settings.go:510-514).
StopDelivers == [][StopReturns => /\ offered = value \/ ~Encodes(value)
                                  /\ writing = None /\ reqs = None]_vars

\* While autosave is on, what is in memory is eventually offered to the
\* provider without the host's help.
AutoSaveOffers == started /\ autoSave /\ value # offered
                    ~> value = offered \/ ~started \/ ~autoSave \/ ~Encodes(value)

\* A failed write does not suppress its own retry (settings.go:483, 527): what
\* SaveNow would skip as saved already, returning nil, is on the disk.
SaveNowIsDurable == ui = "free" /\ MayCall("earlySaveNow", "liveSaveNow")
                    /\ Encodes(value) /\ value = saved => disk = value
=============================================================================
