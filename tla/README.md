# Verification of gooey

gooey is a Go framework for terminal user interfaces. A host builds a tree of
components over a reactive property graph and calls `App.Run`; one goroutine, the
UI goroutine, owns the tree, the graph and the terminal, and every other
goroutine reaches it by posting closures. These modules model the parts whose
correctness rests on how steps of several goroutines, of the kernel, of the
terminal and of callbacks fall together.

## Inventory

| Part | State | Operations | Interacts by | Hard about it |
| --- | --- | --- | --- | --- |
| Dispatcher (`dispatch.go`) | queue, wake token | `Post`, `Drain`, `Wake` | called by every goroutine; drained by the loop | append and signal are two steps |
| Run loop (`app.go`) | needsFrame, quit, suspended, exitSig, terminal, composer | `Run`, `frame`, `handle`, `attach`, `reload`, `Suspend`, `gracefulExit`, `Quit` | select over quit, ctx, wake, events, decoder | re-entrant Drain; terminal given away and taken back |
| Console signals (`signals_unix.go`) | channel of 8, forwarding goroutine | `onSignal`, `onResize`, `onStop` | posts closures | the handler runs long after the signal |
| Composer (`composer.go`) | nodes, buffer, flusher, Startables | `Frame`, `Resize`, `Flush`, `Start`, `Close` | invalidate hook to the loop | hook fires once per clean-to-dirty edge; stops join inside a frame |
| Property graph (`prop/prop.go`), `validate.All` | value, dirty, dependency edges, evaluation stack | `Get`, `Set`, `OnInvalidate` | hooks, re-entrantly | the maps change while an invalidation walks them |
| Flusher (`render/flush.go`) | prev, full | `Encode`, `Invalidate` | writes the terminal | believes before it writes |
| Control bridge (`control/bridge.go`) | none but its two rounds | `Do` | Post and a channel | settled means painted |
| Settings store (`settings/settings.go`) | values, watchers, dirty, posted, saved, slot | `Set`, `Flush`, `SaveNow`, `Start`, stop | dispatcher; writer goroutine | newest wins; failures come back late |
| Companions (`companion.go`) | started, exits, leaked | start, grace, supervise, stop | channels and Post | death racing stop, quit and interrupts |
| Startables (`startable.go`, timer, tooltip, file watcher, companion elements) | tickers, delays, ask and reply, child | `Start`, stop | Post | stop joins while the UI goroutine waits; stale closures |
| gRPC sessions (`grpc/session.go`) | queue of 256, baseline, session set, mailbox | `Attach`, `readActs`, `push`, `notify` | streams, bridge | full queue, ordered notification, select among endings |
| Focus and mouse (`input.go`, `mouse.go`, `allow.go`) | order, focus, hover, captor, watchers | `Dispatch`, `DispatchMouse`, `Resync` | handlers that edit the tree | the walked tree and the live tree differ |
| Terminal and decoder (`term`, `input`) | reader, chunks, pending bytes, timer | `Events`, `DecodeEvents`, `Restore` | channels | split sequences, time-outs, joining a blocked decoder |
| Control operations, MCP, other components, markup, packs, apps | various | | on the UI goroutine | sequential |

What makes each correct, in a line: the dispatcher loses and reorders nothing;
the loop paints every frame it owes, never shows an old picture, gives the
terminal back before anyone else needs it and says truthfully why it ended; `Do`
returns only after the repaint; every setting reaches the provider and its last
word is the newest document; a clean property has the value a fresh evaluation
would give; no service is forgotten and none is blamed that was asked to stop;
a stopped element posts no more; a client's picture is current or its stream
says it is not; focus, hover and capture never name what is gone or a picture;
and what the user typed does not depend on how the bytes arrived.

## Modules and code

| Module | Models | Checked by |
| --- | --- | --- |
| `WorkQueue` | what a dispatcher promises: jobs run once each, in order, eventually | refined by `Dispatcher` |
| `Dispatcher` | `dispatch.go` | run `Dispatcher` |
| `RunLoop` | `app.go`, `signals_unix.go` and what they use of the composer, the graph and the flusher | run `RunLoop` |
| `SettleBarrier` | `control/bridge.go`, as one more goroutine over `RunLoop` | run `SettleBarrier` |
| `Settings` | `settings/settings.go` | run `Settings` |
| `SessionCount` | the broadcaster of `grpc/session.go`: the session set and the mailbox to the host | run `SessionCount` |
| `Session` | one client's `Attach`, `readActs` and `afterFrame` over the loop and the bridge | runs `Session`, `SilentGap` |
| `PropGraph` (`MCPropGraph`) | `prop/prop.go`, `validate.All` | run `PropGraph` |
| `Startables` | `startable.go`, `Composer.Start`, `walkNodes`, `Close`, the elements that own goroutines | run `Startables` |
| `Companions` | `companion.go` over `App.Run` | run `Companions` |
| `Focus` (`MCFocus`) | `input.go`, `mouse.go`, `allow.go` | run `Focus` |
| `InputDecode`, `Terminal` (`MCTerminal`) | `input/decode.go`, `input/paste.go` as operators; `term/keys.go`, `term/term.go` over them | run `Terminal` |
| `IntakeProofs` (of `Dispatcher` and `Terminal`), `RunLoopProofs`, `SettingsProofs`, `SessionProofs`, `PropGraphProofs`, `StartablesProofs`, `CompanionsProofs`, `FocusProofs` | the theorems | tlapm |

The MC modules hold the values of constants that a `.cfg` cannot write. A
definition with a comment that begins "Mutant" is a plausible wrong version of
the one after it and is used by no specification: each property of a passing run
is violated when one of them takes its place.

**Dispatcher.** `Enqueue` is `Post` up to the unlock, `OfferWake` its select with
a default. The lock's critical sections touch only the queue, so each is one
step. `Take` is `Drain`'s locked part, `Call` the start of a closure,
`ClosureReturns` its end; a closure and an event handler may `Post`. The
refinement maps the abstract `posted` to `ran \o work \o queue`.

**RunLoop.** The UI goroutine is a stack of activations (`stack`), because a signal's
closure may wait for the shutdown hook and then Drain and paint inside the outer
Drain. A release that timed out on its decoder (`DecoderLeaked`, `app.go:813-816`) is
not told apart here: the join and its deadline are `Terminal`'s. A step ends only
where another goroutine's progress matters: `frame()` is one step, and so are
`attach`, `reload`, `onResize`, and `onStop` (nothing of the process runs while it is
stopped). `Suspend` is two steps, as other goroutines run while the child does, and
`gracefulExit` is three: `DoExit` up to the wait, `ExitDrains`, `ExitPaints`. `Post`
is one step here, which `Dispatcher` justifies. The composition is the record `view`:
the value the tree paints from, one paint node's dirty flag, the value in the buffer,
in the flusher's `prev`, and on the terminal. One node is enough for properties about
"a node is dirty" and "the screen is not current": values only grow, so any stale cell
shows as an old number. A blank or resized buffer is the value 0; a full flush is
`prev = Blank`.

**SettleBarrier.** `Do`'s goroutine posts a closure and waits, twice; a timer may
end either wait while its closure stays queued. A closure was answered when it
is no longer in the queue or in any Drain's slice. `fn` records what became of
the change the closure made.

**Settings.** A document is a function from keys to values. `armed[k]` is a
watcher's clean bit, `queue` the store's own jobs on the dispatcher, `reqs` the
slot. `Provider.Save` is a call and a return, on the writer (`Take`,
`WriterSaved`) or the UI goroutine (`SaveNowCalls`, `SaveNowReturns`). `stop`
is two steps since it joins the writer. Keys are registered before `Start`, as
`Value` demands, so registration is part of `Init`; some values of a handle
cannot be encoded (`Unencodable`), which makes `snapshot` fail half-way.

**SessionCount.** Clients join the set on the UI goroutine (a closure `Attach`
posts through `Do`) and leave on their stream's own. `Change` is what `add`,
`remove` and `closed` do under `mu`; `Notify`, `HostReturns`, `HostPanics` and
`Resume` are the critical sections of `notify`, `deliver` and `resume`, and a
call of the host is the two steps between which no lock is held (`CallHost`,
then `HostReturns` or `HostPanics`). The mailbox (`pending`, `pendN`, `pendSeq`)
is one variable, `mail`. `Do` itself is `SettleBarrier`'s; here it returns,
hands on a panic, or times out. The UI goroutine runs one closure at a time, and
a closure that reports a count is held up by the host it calls. A panic outside
`Do` and `resume` ends the process and is left out.

**Session.** Four parties: the UI goroutine (`Drain`, `RunClosure`, `Frame`, `Diff`,
`gracefulExit` and what the host itself does), `Attach`'s goroutine, its reader, and
the client, of whom nothing is assumed. The set of sessions is one session's `joined`;
the tree is one property. `Frame` and `Diff` are two steps because a session may be
seen to join only between closures, but its removal happens on its own stream's
goroutine at any time. Each case of `Attach`'s select is an action (`SeeOut`,
`SeeLost`, `SeeReadErr`, `SeeDone`, `SeeCancel`), so a select with several ready cases
picks any. `stream.Send` takes as long as it likes. A signal (`Interrupt`) is a
closure like any other until its turn comes: `GracefulExit` waits for the hook,
`ExitDrains` puts what is queued in front of the outer Drain's slice with a marker
behind it (`Farewell`), at which the farewell frame is composed and `ExitQuits` quits.

**PropGraph.** `gets` is the stack of evaluations, `frames` that of
invalidations, and one may be under way inside the other. `edges` is every
`dependents` map. `Visit` takes the dependents in any order and, as Go's range
over a map that is being changed, takes an inserted one or not and never a
deleted one. `Panic` unwinds evaluation at any point, as a compute that panics
inside `Bridge.Do` does, and with it every invalidation and hook under way. `All` is
`validate.All`, whose hook evaluates the aggregate in the middle of the invalidation
that called it and Sets `out`. Two history variables name what a panic inside a hook
leaves: `lost`, the clean nodes the abandoned invalidation had yet to come to, until
they are dirty again, and `deaf`, the aggregates that stay dirty, so that their hook
is not called again.

**Startables.** A start of an element is a run of it, with goroutines in
`workers` and closures in `queue` and `batch` that name their run. A patch marks
the structure dirty and a later frame re-syncs (`Sync`, `BeginStop`, `Join`,
`Start`, `Started`); a swap and a close stop everything. A stop is two steps,
because it closes and then joins, and a `<Companion>`'s join may time out.

**Companions.** `pc` is where `Run` is, from `startCompanions` to the deferred
`stopCompanions` and the result. Each companion has its work (a function, or a
child with its minder that terminates and kills) and its supervisor, which sends
the exit on a channel and then posts it.

**Focus.** `known`, `order`, `watchers` and `mnemonics` are what the last
`Resync` walked; `live`, `allow` and `collapsed` are the tree as it is. An event
is a step per call of a handler (`Press`, `Release`, `Click`, `Released`, ...),
and in between handlers may edit, freeze, collapse, move focus and capture.
`rel` holds `DispatchMouse`'s locals over a release's handlers. The whole tree is
two constants: `Chain[c]`, `c` and its ancestors, and `Rank`, the order of a walk;
`m.cur` is the stop it is the index of. `CaptureMouse` may be called by any handler or
posted closure, for any component the last walk met, as in the code; `intruded`
remembers that the captor was inside a picture when it was, and `rel.claim` who was
entitled to the click when the release began. `moved` is a history variable: something
changed since the last re-sync, though it may have changed back. Geometry is left
out: a hit test answers any component that is there.

**InputDecode, Terminal.** The decoder is a set of operators on sequences of byte
classes, each the translation of one Go function with its three deadlines (live,
idle, final). `Terminal` has the reader, the chunk channel, the pending buffer,
the timer as something that may fire whenever it is armed, the event channel, and
`Restore` joining the decoder while it drains, or giving up when `DecoderTimeout`
passes first (`JoinTimesOut`, after which `leaked` is set and the goroutines are
left to themselves). Ghosts record what was written,
what the loop got, whether a time-out has had to resolve something (`idled`) or came
in the middle of an opening bracket (`cut`), and whether a sequence took an ESC for
one of its own bytes (`swallowed`). `decode` and `Decoded` are recursive functions
on all sequences of bytes. An Enter ("nl") is written in a paste and nowhere else
(`WritesAssumption`), so that one the loop gets as a key is a pasted one; a typed
Enter is "x" like any other key. "esc" and "nl" are below the smallest byte an X10
report may hold, so `decodeX10Mouse` takes a report with one and gives nothing.

## Runs

| Run | Instance | States, time | Shows |
| --- | --- | --- | --- |
| `Dispatcher` | two goroutines and the UI goroutine, two Posts each | 83k, 4 s | no lost wake-up; refinement of `WorkQueue` with order and liveness |
| `RunLoop` | two Posts, two signals, one event, a hook, values to 2 | 4.6M, 50 s | hand-over, schedule, picture, nil, farewell |
| `SettleBarrier` | `Do`, one Post, two signals, re-acquire may fail | 264k, 40 s | settled means painted; interrupts of the host end the run; frames are painted |
| `Settings` | two handles, one free key, three values one of which does not encode, three Sets | 434k, 17 s | no Set lost, belief about the provider, stop's last document, auto-save |
| `SessionCount` | three clients, two goroutines that resume after a panic, time-outs | 445k, 27 s | newest word last, no step back, zero told |
| `Session` | a queue of one, two acts of which one kind fails, one event of the host, four endings | 967k, 2 min | no gap, currency, a UI that never waits, a reader that ends |
| `PropGraph` | a form of two fields, an aggregate, a button that reads one branch or another, a validator that may panic | 268k, 7 s | laziness is invisible, exact subscriptions, `out` follows |
| `Startables` | one of each shape and a second companion, two edits, one write, one hover | 910k, 2.5 min | stop is a barrier and returns, no stale tip, true errors |
| `Companions` | three, two of them processes, two deaf | 377k, 1 min | nobody forgotten, true blame, a dead service ends the run |
| `Focus` | a picture in a picture, the inner one coming and going with a button and its tooltip, three edits | 3.6M, 2 min | true flags, nothing stale, pictures do not act, clicks are earned |
| `Terminal` | two writes of eight kinds, reads of one byte or all, channels of one, a join that may time out | 987k, 2 min | chunking invisible, pastes not typed, never deaf, sleeps, joins |
| `SilentGap` | as `Session`, acts that all succeed, no other ending | to the first error | the code does otherwise than it says: see below |

*Bounds.* Two posting goroutines and the UI goroutine are every kind of interference
on one queue, and two Posts each let a token be received between two Posts of one
goroutine. In `RunLoop` two signals give a signal while the hook of another runs, or
while a child does; two Posts give a closure before and after it; `SignalBuffer` is 2
so that an instance can fill it only by not forwarding. `MaxVal` stops host callbacks
from setting for ever, not the tree. Three Sets in `Settings` give one document in
`Save`, one in the slot and one in memory, all different. Three clients in
`SessionCount` give a count being delivered, a newer one waiting and a third on its
way, beside the final zero; two resumers let the retry of a panic panic as well.
`Session`'s queue of one fills with any push while the client does not read, and two
acts let the second be answered over what the first left; the kinds of act the run
leaves out (a swap, keys, one that cannot be converted) push or answer at once, and
the theorems take them all. One signal is enough there: what a second does to the loop
is `RunLoop`'s. `PropGraph`'s graph has a diamond (both validators read `x`), a branch
that is read only for some values, and two observers of one hook; one more level would
repeat what a level does. The validator that may panic is read by a plain Get, by the
aggregate's first and in its hook. `Startables`' two edits are a start and one of
patch, swap, restart or close after it, with every goroutine of the first run still
alive; `Companions`' three give one that started, one that fails or dies and one not
yet started, with both kinds deaf and not. In `Focus` two nested hosts tell the
outermost from the nearest, and three edits give one inside a handler, one before the
frame that would have noticed, and a host that froze, thaws and freezes again. Two
writes in `Terminal` give each kind of sequence after each other one; reads of one
byte split them everywhere, and `PasteMarkerGrace` is the code's. No `.cfg` overrides
a definition; deadlock is checked wherever the system cannot stop.

Four definitions state what no `.cfg` names: `ServicesDoNotOverlap`
(`Startables`), `AckAfterFrame` (`Session`) and `CookedWhenAsked` (`Companions`),
which are theorems, and `ChangesAreSeen` (`Startables`), which is not. TLC finds
each true of its module's instance when it is added there.

*What the passing runs leave out on purpose.* `RunLoop` and `SettleBarrier` take
`FlushResults = {TRUE}` and no `"error"` or `"after"` in `HostSets`: with a failed
write the flusher's belief is wrong, with a Set from the error handler a dirty
tree has no frame requested, and with a Set from an `AfterFrame` hook the loop
sleeps on a requested frame. `Settings` takes `HostCalls = {}`: with an
`"earlyFlush"` (a Flush before `Start`) or a `"liveSaveNow"` (SaveNow beside a
running writer) `SavedIsTrue` fails, and with `AutoSaveTo = BOOLEAN`
`AutoSaveOffers`. `RunLoop` takes `Reacquires = {TRUE}` for `NilMeansAsked`;
`SettleBarrier` lets re-opening the terminal fail.

*Fairness.* The UI goroutine always takes a step it can (`WF` on `UIStep`): a child
launched by `Suspend` ends, and the hook's wait ends because `WithShutdown` takes a
timeout; the forwarding goroutine is scheduled. Nothing is assumed of posting
goroutines, the kernel, the hook or `Do`'s caller. In `Dispatcher` the receive of the
wake token is strongly fair, since Go's select chooses uniformly among ready cases and
input events compete with it. In `Settings` the writer is scheduled, the dispatcher
drains, and `Save` returns. In `SessionCount` whoever is in `notify` is scheduled and
the host's callback returns or panics; no client need ever attach or leave. In
`Session` the UI goroutine, `Attach`'s and the reader's are scheduled whenever they do
not wait for the client, and `Do`'s timer fires and the shutdown hook returns or times
out; the client need not read, send or leave. In `Startables` every goroutine is
scheduled, tickers tick and timers fire, but a child need not die. In `Companions`
supervisors and minders are scheduled, a child that was killed dies, and one that is
deaf to being asked need not; the receive of the wake-up is strongly fair as in
`Dispatcher`. In `Terminal` the reader and decoder are scheduled, an armed timer
fires, and the loop takes events until `Restore`; that `DecoderTimeout` passes is
never assumed, so no join needs it. `PropGraph` and `Focus` have safety properties
only and state no fairness.

## Where the code does otherwise than it says

A run shows the first of these. The others were found with the same modules; a
module's definition states what is promised, and the constants given (the rest as
in the module's run) make TLC refute it.

* `SilentGap`: a session that lost a message may end with OK, because `readActs`
  returns nil when the session is lost and `Attach`'s select may take that first
  (`grpc/session.go:133-135` says a gap must not be silent).
* `ShieldedWhileSuspended` (`RunLoop`; no hook, `PostKinds = {"suspend"}`,
  `EventKinds = {"none"}`, `SignalKinds = {"INT"}`): `Suspend` resets
  `a.suspended` before any closure of a signal raised meanwhile can run, so a
  ctrl+c aimed at the child ends the host (`app.go:895-899` says it is shielded).
* `ExitDrainsOnce` (`RunLoop`; a hook, no Posts, two `"INT"`): gracefulExit's
  Drain may run gracefulExit again (`app.go:552-558` says it Drains exactly once).
* `FramesArePainted` (`RunLoop`; no hook, `HostSets = {"after"}`, no signals): a
  Set from an `AfterFrame` hook does not schedule another frame; the loop blocks
  with the request pending (`app.go:354-356`).
* `NilMeansAsked` (`RunLoop`; `SignalKinds = {"TSTP"}`,
  `Reacquires = {TRUE, FALSE}`): a failed re-acquire after a stop makes `Run`
  return nil (`app.go:608-610`).
* `SaveNowIsDurable` (`Settings`; `MaxSets = 1`): after a failed last save
  `SaveNow` returns nil without writing (`settings/settings.go:483`).
* `SessionsAreLive` (`SessionCount`; two clients, no resumers): when the `Do` of
  an `Attach` times out, its closure may still join a session that no one removes
  (`grpc/server.go:279`).
* `AckInOrder` (`Session`; `ActKinds = {"b"}`, `Wants = {TRUE}`, `Ends = {"signal"}`):
  the Drain inside `gracefulExit` runs an act's second round with no frame since its
  first (`app.go:579-581`), so its OK is queued ahead of the farewell frame's delta
  (`grpc/session.go:38-41` says that a client always sees the frame first).
  `AckAfterFrame` is the same until a signal ends the run.
* `RightWhateverPanics` and `OutWhateverPanics` (`PropGraph`): a compute that panics
  inside `All`'s hook (`validate/validate.go:99-101`) unwinds the invalidation that
  called the hook (`prop/prop.go:47-58`). What that had yet to visit stays clean with an
  old value, where `prop.go:14-17` says that values are recomputed on demand, and the
  aggregate stays dirty, so its hook is not called again and `out` no longer follows
  (`validate.go:65-77`).
* `StoppedInReverse` (`Companions`; `N = 2`, `Cmds = {1, 2}`, `Deaf = {}`): the
  companions share one context and stop in any order (`companion.go:103-105` says
  in reverse).
* `SweepSuffices` (`Focus`): a
  host that a frame saw frozen thaws, lets a press in and freezes again before the
  next frame. The sweep compares its answer with the one it remembers
  (`composer.go:1120`), so nothing is evicted and the captor goes on receiving the
  pointer inside a picture (`input.go:421-429` says a press that was let in before
  a flip is given up). `NothingIsStale` and `PicturesDoNotAct` are stated from
  a re-sync to the next change for that reason.
* `PicturesAreDeaf` (`Focus`): a menu bar opened by its mnemonic, inside a host that
  lets mnemonics in and the pointer not, captures the pointer from there
  (`popup.go:144-150`, `menu.go:846-867`), since `CaptureMouse` asks only that a
  component be in the tree (`mouse.go:537-546`). Events are then routed into the
  picture, as those of a drag begun before the freeze are not to be
  (`input.go:421-429`). `PicturesDoNotAct` and `NothingIsStale` except that captor.
* `TipsComeDown` (`Focus`): a tooltip that is up when its subtree is frozen stays
  up until the pointer moves (`input.go:433-434`).
* `PasteNeedsNoLuck` (`Terminal`): a sequence that was never finished takes a
  paste's opening ESC as its final byte, and the payload is typed. `decodeCSI`
  ends at any byte outside 0x20-0x3f, where its comment has a final byte of
  0x40-0x7e (`input/decode.go:296-303`). An X10 report that was never finished
  (CSI M) takes it as one of its three bytes (`input/mouse.go:181-187`).

Read while modelling and stated by no property: a client that half-closes may miss its
last results; a field that shares a source with another may make a button's paint node
dirty although validity did not change (`validate/validate.go:75-77` says it is never
touched); a panic in a compute leaves `evalStack` with entries of a dead evaluation,
which go on collecting edges (`ExactlyTheBranch` is stated as long as nothing
panicked); a companion whose `Start` panics leaves those before it running and unasked
(`companion.go:34-36`; `NobodyIsForgotten` exempts it); cancelling `Run`'s context
while the UI goroutine is busy may return a `*CompanionError` (`app.go:608-610` says
nil; `BlameIsTrue` exempts it); a tooltip's or toast's closure that is already queued
still runs after stop (`tooltip.go:85-88`, `toast.go:82-85`), which the generation
makes harmless.

## Proofs

`IntakeProofs` proves the two ways into the loop. Of `Dispatcher` it proves, for
every set of goroutines and every `MaxPosts`, the type invariant, `NoLostWakeup`,
`RunsInPostOrder`, `DrainIsBounded`, and that every step is a step of `WorkQueue`
or a stutter under the mapping `posted <- ran \o work \o queue`. Each invariant
is inductive with the type invariant, whose last conjunct (Drain's slice is empty
outside a Drain) is what the order needs. The refinement rests on
`RunsInPostOrder`: the head of the slice is the next entry of what was posted.

Of `InputDecode` and `Terminal` it proves what is so for every buffer of bytes, every
set of writes, read size, channel capacity and grace. An ESC in front of something
else makes `decode` recur on what is behind it, and `Decoded` recurs on what an answer
leaves, always on a shorter buffer. That these recursions have solutions
(`Recursion`) and that a claim about every buffer may rest on the shorter ones
(`BufferInduction`) is proved from the least element of a set of naturals
(`LeastOf`), sets of buffers standing for the predicates an induction theorem would
quantify over; hence `DecodeEquation` and `DecodedEquation`, the equations of the
definitions. Three facts about `decode` follow by its shapes (`DecodeShapes`): it
takes bytes that are there (`Consumes`); what it answers while more may come stands
whatever comes (`PrefixStable`); and when the terminal is quiet it waits for an open
paste or a split marker only, and by the last deadline for an open paste only
(`EverythingIsResolved`, the contract `decode.go:21-35` states and whose tests try
one and two bytes).

`SpecChunkingIsInvisible` rests on `Chunked`: while nothing was resolved by a
time-out, the events under way followed by what the bytes under way spell are what
the bytes written spell, with any bytes behind them (`Spells`). The last clause makes
it inductive: an `Emit` moves one event from the bytes to the events by
`PrefixStable`, a `Write` takes its bytes into what follows. `SpecPasteIsNotTyped`
rests on `PasteInv`: each Enter to come is behind an opening bracket with no closing
one between (`Guarded`), and of that bracket as much is pending as the deadline of
the drain under way needs to keep it whole, or nothing (`Kept`): anything while more
may come, three bytes after the first time-out, all six after the last. An answer
then ends before the bracket, or is the paste it opens (`BracketHolds`), or has
swallowed its ESC; and what it leaves is still guarded, since two markers never
overlap (`GuardedRest`, `NoOverlap`).

`RunLoopProofs` proves the type invariant and `TerminalHandedOver` with no
assumption but `RunLoopAssumption`. The inductive invariant `IInv` adds to them
that at most the innermost activation is a child, which is where `a.suspended`
and the stack agree: an action that pops, pushes or replaces an activation keeps
it. `DirtyIsScheduled`, `BeliefIsRight` and `ScreenIsCurrent` follow from
`Picture`, an invariant of the record `view` alone; `PictureKept` shows each
operator on views keeps it, and `NextViewStep` that every step applies one of
them. They assume that no write fails (`FALSE \notin FlushResults`) and, for the
last, that no `AfterFrame` hook Sets; each assumption is needed, as said above.
`NilWasAskedFor` rests on `Ends`: quit or a cancelled context means that the host
asked, or for quit that a signal is recorded; a shutdown still on the stack has
recorded its signal; a nil result was asked for. It assumes the terminal can be
re-opened.

Two of its theorems span several actors. `FarewellIsShown` (when `gracefulExit`
quits, what the hook posted while it was waited for has run or will before an
outer farewell paints, and the screen shows what is set) rests on which activation
may lie on which (`StackSteps`) and on `Waited`: the hook runs, and its closures
are in the queue, only inside the wait, and a Drain that has one lies over an
activation that has yet to paint (`Covered`). It assumes that writes succeed and
that no `AfterFrame` hook Sets, since the farewell frame itself would leave such a
Set behind. `SettledIsPainted` is about `SettleBarrier`, the loop with `Do`'s
goroutine beside it: `Told` says that an unanswered round's closure is in the queue
or in a Drain's slice (`Awaits`, `Holds`), that a change `fn` made and no frame has
shown leaves the tree dirty, and that while it does the second round is still in
the queue unless a signal is ending the run. `Clean` (the loop blocks with a clean
tree, and a dirty one has asked for a frame) makes the next batch follow a frame;
`Signed`, `Raised` and `Idle` exclude the stacks in which a nested Drain would take
it first. It assumes that the error and `AfterFrame` hooks Set nothing and that
only `Do` posts its closure.

`SettingsProofs` proves, for any keys, values and number of Sets, the safety of
the store for a host that does what the documentation says (`Restraint`: it
starts the store at most once and calls neither `Flush` nor `SaveNow` beside it;
with other calls the properties are false, as said above). Its invariant says
that a watcher is silent only about what the store knows already
(`SilentIfDirty`), that the writer lives as long as the store is started and one
that is going leaves the slot empty (`WriterLives`), that what is clean, and what
counts as saved, was offered to the provider (`CleanIsOffered`), and that a
document believed saved is on the disk, in the slot with nothing newer, in `Save`
with nothing behind it, or about to be disbelieved (`Believed`).

`PropGraphProofs` proves, for any finite set of properties whose possible reads
descend along `Rank`, that evaluations nest along it (`EvaluationDescends`), that
nothing clean is stale but for an invalidation that is on its way
(`NoneIsStale`), and that therefore a clean value is right
(`LazinessIsInvisible`). The invariant `IInv` says what the two stacks owe each
other: hooks run only for aggregates (`InHooks`), an evaluation under way is of a
dirty node and has read what its function asks for (`Evaluating`), nested
evaluations wait for exactly the next read (`Waiting`) and descend
(`Descending`), and a clean computed either is what its inputs' values make it and
is subscribed to all of them, or is among the nodes a pending invalidation will
still visit, or that a panic in a hook kept one from visiting (`CleanIsUpToDate`).
`CleanIsRight` follows when nothing is pending or lost: a wrong clean node of lowest
rank would have only right inputs.

Two more facts carry the rest of the run. While nothing has panicked, what is
under evaluation is subscribed to what it has read and to what it waits for, and to
nothing else (`OnlyItsReads`), so that what is clean and not about to be invalidated
is subscribed to nothing it did not read (`CleanIsCurrent`): hence
`TracksTheBranch`. Each aggregate that was made is either evaluated with `out`
equal to it, or the innermost call is its hook, on its way to make it so
(`OutFollows`, `Settled`, `InItsHook`), or a panic cut that hook short: hence
`AllIsRight`. `AggsAssumption` has
no two aggregates share an `out`, as no two calls of `validate.All` do.

`CompanionsProofs` proves all of `Companions`' safety for any number of
companions, of either kind, deaf or not. Its invariant: one that was not started
has nothing running (`Unstarted`); a supervisor past `Wait` and a minder that is
gone know of a death (`Known`); what teardown has counted together with what is
in the channel is the number of supervisors that have sent (`Counted`), so that a
count equal to `started` is all of them; the terminal is raw only before the
companions are asked to stop (`Cooked`); and whoever is, or may yet be, blamed is
dead, by its own doing if nobody has cancelled (`Blame`).

`StartablesProofs` proves `StopIsBarrier`, `TipsNeedHover`, `ErrorIsTrue` and
`ServicesDoNotOverlap` for any finite sets of each shape. A stop is a barrier because
a run that is off has no goroutine left that could post (`OffIsQuiet`). A tip that is
up is hovered because every delay that may still show one, as a timer, a fired timer
or a closure, carries a generation that is over or belongs to a tip the pointer rests
on (`TimersAreTimely`, `ShowsAreTimely`). An error is true because the last closure in
`batch \o queue` that decides it, or else the goroutine that is yet to post one, says
what became of the child (`EInv`). Services do not overlap when no tree declares two
(`OneDeclared`, the theorem's hypothesis: two declared together are meant to be up
together): a Startable has one live run (`OneLive`), what is closing is held by the
stop (`ClosingIsHeld`), so an arrival that waits for the stop finds on only what its
own tree declares (`Departing`), and a child that is up and not given up on is of a
live run, since a run that is off has no goroutine left to wait for it (`UpIsLive`).

`SessionProofs` proves `NoGap`, `ClientIsCurrent` and `AckAfterFrame` for any values,
acts, endings and queue length. The stream is the Welcome, what `Send` is at and the
queue, end to end; of a session that is alive its frames are in order and between what
the client has read and the last composed (`Ordered`, `Within`), none is missing
(`Contiguous`), and its last value is the one the session was told (`Knows`), which is
the property's but for a frame that is due (`Owed`). `Joining` carries the start: the
closure that registers is posted once, and until it has run nothing is pushed. Pushing
appends (`NoteFits`, `DeltaFits`), reading takes the first (`ReadFits`), and the other
steps move messages along (`StillFits`). `AckAfterFrame` needs to know of the acts
what the stream does not say: an act's frame has been composed or is requested
(`Due`); its second round is behind the first, in a queue that is drained only with no
frame requested (`Settling`); so when that round is answered the act is `Final`, its
frame composed and nothing left that could move it, not even the round of an earlier
act whose `Do` timed out. The reader's result and every result in the stream are of
final acts (`Held`, `Acked`), final acts stay final (`Stays`), and whatever a step
does to the stream (`Moved`: nothing, one message more, one message read, or the
Welcome) leaves the frame ahead of the acknowledgement or with the client. All this is
kept until a signal ends the run: from then on a Drain may run with a frame requested,
and `AckInOrder`, the same without that exception, is refuted.

Of `SessionCount` it proves all the safety, for any finite set of clients and any
number of panics. `CountInv` calls a count `Proper` when its
number is at most the last change's and, if it equals it, the count is the size
of the set or the final zero. Every count captured, waiting, carried or shown is
proper (`Captured`, `Waiting`, `Shown`), one that is carried is newer than the
one shown (`Carried`), and the last change is in flight, waiting, delivered, or
moot because the endpoint is shut (`Newest`). `ChangeKeepsCountInv` shows a change
only outdates counts; `CarryKeepsCountInv` is the one step by which a count leaves
the mailbox, shared by `Notify`, `HostReturns` and `Resume`.

`FocusProofs` proves all four of the run's properties for any finite tree, any walk of
it, any nesting of hosts and any allow sets. Its lemmas say that the parts of a chain
have ends (`DeepestOf`, `OutermostOf`, from the lengths of the chains above them) and
that the outermost host is on the target's chain and itself in no picture (`HostIs`).
The invariant: whoever the manager names, and only they, were told (`FocusOK`,
`PointOK`); what hangs in the tree hangs from it (`TreeOK`); a capture is what the
last press or taker left, and a release keeps the captor it began with (`GestureOK`);
and unless something changed since the last re-sync, all that is remembered,
registered, or in a handler's or a release's hands is in the tree and in no picture
(`Fresh`). The last needs what no property mentions: a captor may receive the pointer
where it is or has `intruded`, and a release carries its hit and its hover past any
handler. A click needs only that `claim` was fixed before the first of them.

Every invariant of the passing runs is thus a theorem. Model-checked only is every
liveness property (`InterruptEnds`, `FramesArePainted`, `AutoSaveOffers`,
`ZeroIsTold`, `FramesGoOn`, `ReaderEnds`, `StopsReturn`, `DeadServiceEndsRun`,
`NeverDeaf`, `SleepsWhenStuck`, `JoinEnds`, the liveness half of the refinement),
for which the prover has no rule with `ENABLED`. Of `NeverDeaf`,
`EverythingIsResolved` is the half that is about `decode`.

## Not modelled

Cells, colours, layout, markup, the expression language, the widgets without a
goroutine, the control operations, MCP and the apps are sequential code over data
on one goroutine: no step of another actor falls inside them, and their tests
call them directly. A large part of the repository's lines is of that kind, or
generated (`grpc/gen`), and a model of it would be a second copy. Of what is
modelled, these are left out: scoped key bindings, drags, click counts and paste
routing (`Focus`); raw mode, capability queries and the full key tables
(`Terminal`); paint nodes' rectangles, overlap repair and culling (the
composer); MCP's and the gRPC server's listeners; the data race detector's view of
one goroutine's step. A panic is modelled as an answer of `Do`, in the host's
session callback, in a compute, in a companion's `Start` and in `Run`, and
nowhere else.

## Plan

1. The composer's paint nodes: overlap repair and placements against a full
   repaint.
2. Scoped key bindings, drags and paste in `Focus`.
3. The MCP transport's sessions and their event queues.
