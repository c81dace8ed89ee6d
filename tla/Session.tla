------------------------------- MODULE Session -------------------------------
(***************************************************************************)
(* One gRPC session (grpc/session.go): SessionService.Attach.  Three       *)
(* goroutines share it.  The UI goroutine runs the closures a Bridge.Do    *)
(* posts, composes frames and pushes deltas, echoes and lifecycle events   *)
(* into the session's bounded queue, never waiting; Attach's loop sends    *)
(* what is queued to a client that reads when it likes; the reader applies *)
(* the client's acts one at a time, each through Do, and queues a result   *)
(* for each.  The set of sessions is SessionCount's; here there is one,    *)
(* with one property and one size to be told about.                        *)
(***************************************************************************)
EXTENDS Naturals, Sequences

CONSTANTS Values,      \* the property's values
          Sizes,       \* the screen's sizes
          Wants,       \* what a client may subscribe to: frames or not, subset of BOOLEAN
          Cap,         \* sessionQueue, 256 in the code
          ActKinds,    \* what a client may ask: see Fn
          Ends,        \* how a session may end: subset of {"eof", "cancel", "quit", "signal"}
          MaxActs,     \* bound: acts the client sends
          MaxEvents    \* bound: what the host itself does

ASSUME CapAssumption == Cap \in Nat \ {0}
ASSUME BoundsAssumption == MaxActs \in Nat /\ MaxEvents \in Nat
ASSUME ValuesAssumption == Values # {} /\ "same" \notin Values
ASSUME KindsAssumption == ActKinds \subseteq Values \cup {"swap", "keys", "fails", "malformed"}

VARIABLES ui,          \* "loop", "drain", "diff" (inside afterFrame), "hook" (gracefulExit
                       \* waits for the shutdown hook), "ended"
          slice,       \* what is left of Drain's slice, a Drain within it first
          jobs,        \* the dispatcher's queue: rounds of Do
          dirty,       \* a frame is requested
          value,       \* the property
          size,        \* the composer's size
          sized,       \* broadcaster.cols, rows
          frame,       \* broadcaster.frame
          done,        \* App.Done is closed
          exitSig,     \* App.exitSig is set: a signal is ending the run
          events,      \* how often the host did something
          joined,      \* the session is in the broadcast set
          last,        \* session.last of the property
          out,         \* session.out
          lost,        \* session.lost is closed
          wants,       \* Subscription.frames
          attach,      \* where Attach is
          msg,         \* the message stream.Send is at
          welcome,     \* the Welcome that register made
          status,      \* how Attach returned
          reader,      \* where readActs is
          acts,        \* the acts it received, in order
          res,         \* the result or error it holds
          readErr,     \* what is in the channel readErr
          halfClosed,  \* the client has said it will send no more
          ctx,         \* the stream's context is cancelled by the client or transport
          client,      \* history: the last frame and value the client read
          due          \* history: the frame that shows what an act did

uiVars == <<ui, slice, dirty, value, size, sized, frame, done, exitSig, events>>
attachVars == <<attach, msg, status>>
readerVars == <<reader, acts, res>>
clientVars == <<halfClosed, ctx, wants>>
vars == <<uiVars, jobs, joined, last, out, lost, welcome, attachVars, readerVars, readErr,
          clientVars, client, due>>

Delta(f, v) == [k |-> "delta", frame |-> f, val |-> v]
Welcome(f, v) == [k |-> "welcome", frame |-> f, val |-> v]
Result(n, ok) == [k |-> "result", act |-> n, ok |-> ok]
Note(what) == [k |-> what]

Unread == [frame |-> 0, val |-> "same"]

Told(m) == m.k \in {"delta", "welcome"}

Init == /\ ui = "loop" /\ slice = <<>> /\ jobs = <<>> /\ dirty = FALSE
        /\ value = (CHOOSE v \in Values : TRUE) /\ size = (CHOOSE s \in Sizes : TRUE) /\ sized = size
        /\ frame = 1 /\ done = FALSE /\ exitSig = FALSE /\ events = 0
        /\ joined = FALSE /\ last = value /\ out = <<>> /\ lost = FALSE
        /\ wants \in Wants
        /\ attach = "idle" /\ msg = <<>> /\ welcome = Welcome(0, value) /\ status = "open"
        /\ reader = "none" /\ acts = <<>> /\ res = Note("none") /\ readErr = Note("none")
        /\ halfClosed = FALSE /\ ctx = FALSE
        /\ client = Unread
        /\ due = <<>>

-----------------------------------------------------------------------------
(* Bridge.Do, a round at a time.  A round is answered once its closure is  *)
(* neither queued nor in Drain's slice; its timer may fire before that and *)
(* leaves the closure where it is.                                         *)

Round(who, n, i) == [who |-> who, n |-> n, i |-> i]

Pending(r) == \/ \E i \in 1..Len(jobs) : jobs[i] = r
              \/ \E i \in 1..Len(slice) : slice[i] = r

Post(r) == jobs' = Append(jobs, r)

\* What is posted for a signal that ends the run, and what gracefulExit leaves to
\* do once the Drain it calls has returned.
Signal == Round("signal", 0, 1)
Farewell == Round("exit", 0, 1)

-----------------------------------------------------------------------------
(* The UI goroutine.                                                       *)

\* Mutant: push waits for room.
PushWaiting(m) == /\ Len(out) < Cap
                  /\ out' = Append(out, m)
                  /\ lost' = lost

\* session.push: a full queue loses the session and drops the message.
Push(m) == IF Len(out) < Cap
           THEN out' = Append(out, m) /\ lost' = lost
           ELSE out' = out /\ lost' = TRUE

\* A push to the session if it is in the set.
Broadcast(m) == IF joined THEN Push(m) ELSE UNCHANGED <<out, lost>>

\* Mutant: the session joins with the baseline and frame of the last frame
\* composed, not those of now.
RegisterStale == /\ joined' = TRUE
                 /\ last' = value
                 /\ welcome' = Welcome(frame - 1, value)

\* register: the baseline and the Welcome are read, the session joins.
Register == /\ joined' = TRUE
            /\ last' = value
            /\ welcome' = Welcome(frame, value)

\* What an act does on the UI goroutine, and the frame that is to show it.
Fn(n) == LET kind == acts[n] IN
  /\ value' = IF kind \in Values THEN kind ELSE value
  /\ dirty' = (dirty \/ kind \in Values \cup {"swap"})
  /\ CASE kind = "swap" -> Broadcast(Note("swapped"))
       [] kind = "keys" -> Broadcast(Note("echo"))
       [] OTHER -> UNCHANGED <<out, lost>>
  /\ due' = [due EXCEPT ![n] = IF dirty' THEN frame + 1 ELSE frame]

\* The loop's select receives the wake-up: Drain takes the queue.
Drain == /\ ui = "loop" /\ ~dirty /\ jobs # <<>>
         /\ ui' = "drain"
         /\ slice' = jobs
         /\ jobs' = <<>>
         /\ UNCHANGED <<dirty, value, size, sized, frame, done, exitSig, events, joined, last, out, lost, welcome,
                        attachVars, readerVars, readErr, clientVars, client, due>>

\* Drain goes on with what is left of its slice, or returns to the loop.
After(left) == IF left = <<>> THEN "loop" ELSE "drain"

\* Drain calls the next closure, one of Do's, and returns after the last.
RunClosure ==
  /\ ui = "drain" /\ Head(slice) \notin {Signal, Farewell}
  /\ slice' = Tail(slice)
  /\ ui' = After(slice')
  /\ LET r == Head(slice) IN
       CASE r.i = 1 /\ r.who = "attach" -> Register /\ UNCHANGED <<value, dirty, out, lost, due>>
         [] r.i = 1 /\ r.who = "reader" -> Fn(r.n) /\ UNCHANGED <<joined, last, welcome>>
         [] OTHER -> UNCHANGED <<value, dirty, out, lost, due, joined, last, welcome>>
  /\ UNCHANGED <<size, sized, frame, done, exitSig, events, jobs, attachVars, readerVars, readErr,
                 clientVars, client>>

\* gracefulExit: it waits for the shutdown hook, or there is none and it quits.
GracefulExit ==
  /\ ui = "drain" /\ Head(slice) = Signal
  /\ slice' = Tail(slice)
  /\ exitSig' = TRUE
  /\ \/ ui' = "hook" /\ done' = done
     \/ ui' = After(slice') /\ done' = TRUE
  /\ UNCHANGED <<dirty, value, size, sized, frame, events, jobs, joined, last, out, lost, welcome,
                 attachVars, readerVars, readErr, clientVars, client, due>>

\* The hook has returned or timed out: Drain, from within Drain.
ExitDrains ==
  /\ ui = "hook"
  /\ ui' = "drain"
  /\ slice' = jobs \o <<Farewell>> \o slice
  /\ jobs' = <<>>
  /\ UNCHANGED <<dirty, value, size, sized, frame, done, exitSig, events, joined, last, out, lost, welcome,
                 attachVars, readerVars, readErr, clientVars, client, due>>

\* The frame that was due painted, gracefulExit quits and its caller's Drain goes on.
ExitQuits ==
  /\ ui = "drain" /\ Head(slice) = Farewell /\ ~dirty
  /\ slice' = Tail(slice)
  /\ ui' = After(slice')
  /\ done' = TRUE
  /\ UNCHANGED <<dirty, value, size, sized, frame, exitSig, events, jobs, joined, last, out, lost, welcome,
                 attachVars, readerVars, readErr, clientVars, client, due>>

\* A frame is composed and flushed, at the head of the loop unless the app has
\* quit, or before gracefulExit quits; afterFrame counts it and, with a session
\* to tell, reports a change of size before the delta.
Frame == /\ dirty
         /\ \/ ui = "loop" /\ ~done
            \/ ui = "drain" /\ Head(slice) = Farewell
         /\ dirty' = FALSE
         /\ frame' = frame + 1
         /\ sized' = size
         /\ IF sized # size THEN Broadcast(Note("resized")) ELSE UNCHANGED <<out, lost>>
         /\ ui' = IF joined THEN "diff" ELSE ui
         /\ UNCHANGED <<slice, value, size, done, exitSig, events, jobs, joined, last, welcome, attachVars, readerVars,
                        readErr, clientVars, client, due>>

\* Mutant: the delta does not update what the session was told.
DiffForgets == /\ ui = "diff"
               /\ ui' = After(slice)
               /\ UNCHANGED last
               /\ IF last = value /\ ~wants
                  THEN UNCHANGED <<out, lost>>
                  ELSE Push(Delta(frame, IF last = value THEN "same" ELSE value))
               /\ UNCHANGED <<slice, dirty, value, size, sized, frame, done, exitSig, events, jobs, joined, welcome,
                              attachVars, readerVars, readErr, clientVars, client, due>>

\* The rest of afterFrame: one delta with what the frame changed.
Diff == /\ ui = "diff"
        /\ ui' = After(slice)
        /\ last' = value
        /\ IF last = value /\ ~wants
           THEN UNCHANGED <<out, lost>>
           ELSE Push(Delta(frame, IF last = value THEN "same" ELSE value))
        /\ UNCHANGED <<slice, dirty, value, size, sized, frame, done, exitSig, events, jobs, joined, welcome,
                       attachVars, readerVars, readErr, clientVars, client, due>>

\* The host itself: a timer or key sets the property, the terminal is resized,
\* or a key is dispatched and echoed.
HostSets(v) == value' = v /\ dirty' = TRUE /\ UNCHANGED <<size, out, lost>>
HostResizes(s) == size' = s /\ dirty' = TRUE /\ UNCHANGED <<value, out, lost>>
HostKey == Broadcast(Note("echo")) /\ UNCHANGED <<value, size, dirty>>

HostEvent == /\ ui = "loop" /\ ~dirty /\ events < MaxEvents /\ attach # "ended"
             /\ events' = events + 1
             /\ \/ \E v \in Values : HostSets(v)
                \/ \E s \in Sizes : HostResizes(s)
                \/ HostKey
             /\ UNCHANGED <<ui, slice, sized, frame, done, exitSig, jobs, joined, last, welcome, attachVars, readerVars,
                            readErr, clientVars, client, due>>

\* Bound: one of the ways in which a session may end is taken.
Ending == done \/ exitSig \/ Pending(Signal) \/ halfClosed \/ ctx

\* Quit closes the channel App.Done hands out; the loop sees it at its head, when
\* a frame that is due is left undone, or in its select.
Quit == /\ "quit" \in Ends
        /\ ui = "loop" /\ ~Ending
        /\ done' = TRUE
        /\ UNCHANGED <<ui, slice, dirty, value, size, sized, frame, exitSig, events, jobs, joined, last, out, lost,
                       welcome, attachVars, readerVars, readErr, clientVars, client, due>>

LoopEnds == /\ ui = "loop" /\ done
            /\ ui' = "ended"
            /\ UNCHANGED <<slice, dirty, value, size, sized, frame, done, exitSig, events, jobs, joined, last, out, lost,
                           welcome, attachVars, readerVars, readErr, clientVars, client, due>>

UIStep == Drain \/ RunClosure \/ GracefulExit \/ ExitDrains \/ ExitQuits \/ Frame \/ Diff \/ LoopEnds

-----------------------------------------------------------------------------
(* Attach.                                                                 *)

uiSide == <<uiVars, joined, last, welcome, due>>

\* The stream's context: cancelled by the client, or because Attach returned.
Cancelled == ctx \/ attach = "ended"

\* The subscribe message arrived: Attach posts register.
Subscribe == /\ attach = "idle"
             /\ attach' = "register"
             /\ Post(Round("attach", 0, 1))
             /\ UNCHANGED <<uiSide, out, lost, msg, status, readerVars, readErr, clientVars, client>>

\* Do's first round was answered; its second is posted.
Registered == /\ attach = "register" /\ ~Pending(Round("attach", 0, 1))
              /\ attach' = "settle"
              /\ Post(Round("attach", 0, 2))
              /\ UNCHANGED <<uiSide, out, lost, msg, status, readerVars, readErr, clientVars, client>>

\* Do returned nil: Attach sends the Welcome before anything in the queue.
SendWelcome == /\ attach = "settle" /\ ~Pending(Round("attach", 0, 2))
               /\ attach' = "sending"
               /\ msg' = <<welcome>>
               /\ UNCHANGED <<uiSide, jobs, out, lost, status, readerVars, readErr, clientVars, client>>

\* Attach returns; unregister is deferred once Do has returned nil.
Return(how, left) == /\ attach' = "ended"
                     /\ status' = how
                     /\ msg' = <<>>
                     /\ joined' = IF left THEN FALSE ELSE joined
                     /\ client' = Unread
                     /\ UNCHANGED <<uiVars, last, welcome, due, jobs, lost, readerVars, clientVars>>

AttachTimesOut == /\ attach \in {"register", "settle"}
                  /\ Return("timeout", FALSE)
                  /\ UNCHANGED <<out, readErr>>

\* stream.Send returns: the client took the message, if and when it reads.
\* After the Welcome the reader goroutine is started.
Sent == /\ attach = "sending" /\ ~ctx
        /\ attach' = "serve"
        /\ msg' = <<>>
        /\ LET m == Head(msg) IN
             /\ client' = IF Told(m) THEN [frame |-> m.frame,
                                           val |-> IF m.val = "same" THEN client.val ELSE m.val]
                          ELSE client
             /\ reader' = IF m.k = "welcome" THEN "recv" ELSE reader
        /\ UNCHANGED <<uiSide, jobs, out, lost, status, acts, res, readErr, clientVars>>

\* stream.Send fails once the transport is gone.
SendFails == /\ attach = "sending" /\ ctx
             /\ Return("error", TRUE)
             /\ UNCHANGED <<out, readErr>>

\* The cases of the loop's select; any that is ready may be chosen.
SeeOut == /\ attach = "serve" /\ out # <<>>
          /\ attach' = "sending"
          /\ msg' = <<Head(out)>>
          /\ out' = Tail(out)
          /\ UNCHANGED <<uiSide, jobs, lost, status, readerVars, readErr, clientVars, client>>

SeeLost == /\ attach = "serve" /\ lost
           /\ Return("exhausted", TRUE)
           /\ UNCHANGED <<out, readErr>>

SeeReadErr == /\ attach = "serve" /\ readErr # Note("none")
              /\ Return(IF readErr.k \in {"eof", "nil"} THEN "ok" ELSE "error", TRUE)
              /\ readErr' = Note("none")
              /\ UNCHANGED out

\* The app quits: Closing is sent, whatever becomes of it.
SeeDone == /\ attach = "serve" /\ done
           /\ Return("closing", TRUE)
           /\ UNCHANGED <<out, readErr>>

SeeCancel == /\ attach = "serve" /\ ctx
             /\ Return("error", TRUE)
             /\ UNCHANGED <<out, readErr>>

AttachStep == \/ Registered \/ SendWelcome \/ AttachTimesOut \/ SendFails
              \/ SeeOut \/ SeeLost \/ SeeReadErr \/ SeeDone \/ SeeCancel

-----------------------------------------------------------------------------
(* readActs.                                                               *)

readSide == <<uiSide, attachVars, lost, clientVars, client>>

\* The act's number is that of the reader's present act.
n == Len(acts)

\* An act arrives.  One that cannot be converted fails before any Do.
Recv(kind) == /\ reader = "recv" /\ ~Cancelled /\ ~halfClosed
              /\ n < MaxActs
              /\ acts' = Append(acts, kind)
              /\ due' = Append(due, 0)
              /\ IF kind = "malformed"
                 THEN reader' = "answer" /\ res' = Result(n + 1, FALSE) /\ jobs' = jobs
                 ELSE reader' = "fn" /\ res' = res /\ Post(Round("reader", n + 1, 1))
              /\ UNCHANGED <<uiVars, joined, last, welcome, attachVars, lost, clientVars, client, out, readErr>>

\* Recv fails: the client is through, or the stream is.
RecvFails == /\ reader = "recv"
             /\ \/ halfClosed /\ res' = Note("eof")
                \/ Cancelled /\ res' = Note("cancelled")
             /\ reader' = "return"
             /\ UNCHANGED <<readSide, jobs, acts, out, readErr>>

\* Do's first round was answered; an error ends it there.
FnAnswered == /\ reader = "fn" /\ ~Pending(Round("reader", n, 1))
              /\ IF acts[n] = "fails"
                 THEN reader' = "answer" /\ res' = Result(n, FALSE) /\ jobs' = jobs
                 ELSE reader' = "settle" /\ res' = res /\ Post(Round("reader", n, 2))
              /\ UNCHANGED <<readSide, acts, out, readErr>>

Settled == /\ reader = "settle" /\ ~Pending(Round("reader", n, 2))
           /\ reader' = "answer"
           /\ res' = Result(n, TRUE)
           /\ UNCHANGED <<readSide, jobs, acts, out, readErr>>

ActTimesOut == /\ reader \in {"fn", "settle"}
               /\ reader' = "answer"
               /\ res' = Result(n, FALSE)
               /\ UNCHANGED <<readSide, jobs, acts, out, readErr>>

\* The blocking send of the result.
Answer == /\ reader = "answer" /\ Len(out) < Cap
          /\ out' = Append(out, res)
          /\ reader' = "recv"
          /\ res' = Note("none")
          /\ UNCHANGED <<readSide, jobs, acts, readErr>>

AnswerGivenUp == /\ reader = "answer"
                 /\ \/ lost /\ res' = Note("nil")
                    \/ Cancelled /\ res' = Note("cancelled")
                 /\ reader' = "return"
                 /\ UNCHANGED <<readSide, jobs, acts, out, readErr>>

\* Mutant: the channel readErr has no buffer.
ReaderHandsOver == /\ reader = "return" /\ attach = "serve"
                   /\ readErr' = res
                   /\ reader' = "gone"
                   /\ UNCHANGED <<readSide, jobs, acts, res, out>>

\* readErr has room for the one error there will be.
ReaderReturns == /\ reader = "return"
                 /\ readErr' = res
                 /\ reader' = "gone"
                 /\ UNCHANGED <<readSide, jobs, acts, res, out>>

ReaderStep == RecvFails \/ FnAnswered \/ Settled \/ ActTimesOut \/ Answer \/ AnswerGivenUp \/ ReaderReturns

-----------------------------------------------------------------------------
(* The client and the transport.                                           *)

HalfClose == /\ "eof" \in Ends
             /\ reader # "none" /\ ~Ending
             /\ halfClosed' = TRUE
             /\ UNCHANGED <<uiSide, jobs, attachVars, out, lost, readerVars, readErr, ctx, wants, client>>

Cancel == /\ "cancel" \in Ends
          /\ attach \notin {"idle", "ended"} /\ ~Ending
          /\ ctx' = TRUE
          /\ UNCHANGED <<uiSide, jobs, attachVars, out, lost, readerVars, readErr, halfClosed, wants, client>>

\* The goroutine that waits for signals posts what is to be done about one.
Interrupt == /\ "signal" \in Ends
             /\ attach # "ended" /\ ~Ending
             /\ Post(Signal)
             /\ UNCHANGED <<uiSide, attachVars, out, lost, readerVars, readErr, clientVars, client>>

Next == \/ UIStep \/ HostEvent \/ Quit \/ Interrupt
        \/ AttachStep \/ Subscribe \/ Sent
        \/ ReaderStep \/ \E kind \in ActKinds : Recv(kind)
        \/ HalfClose \/ Cancel

(***************************************************************************)
(* The UI goroutine is scheduled, and so are Attach's and the reader's     *)
(* whenever they do not wait for the client; Do's timer fires, and the     *)
(* shutdown hook returns or times out.  Nothing is assumed of the client:  *)
(* it need not read, send, nor ever leave.                                 *)
(***************************************************************************)
Fairness == WF_vars(UIStep) /\ WF_vars(AttachStep) /\ WF_vars(ReaderStep)

Spec == Init /\ [][Next]_vars /\ Fairness

-----------------------------------------------------------------------------

\* What is on its way to the client, oldest first.
Stream == (IF attach \in {"register", "settle"} /\ joined THEN <<welcome>> ELSE <<>>) \o msg \o out

\* The session still owes its client every message.
Alive == joined /\ ~lost /\ status = "open"

\* Position i of the stream shows frame f or a later one.
ShownBefore(f, i) == \/ client.frame >= f
                     \/ \E j \in 1..(i - 1) : Told(Stream[j]) /\ Stream[j].frame >= f

\* Frames shown so far, the one being told about left out.
Composed == IF ui = "diff" THEN frame - 1 ELSE frame

\* Ahead of an act's OK in the stream is a delta, or the Welcome, of the frame that
\* shows what the act did.
AckInOrder == Alive /\ wants =>
  \A i \in 1..Len(Stream) :
    Stream[i].k = "result" => (Stream[i].ok => ShownBefore(due[Stream[i].act], i))

\* A client always sees the frame its act caused, then the acknowledgement
\* (session.go:38-41), whatever timed out before; until a signal ends the run.  The
\* Drain that gracefulExit calls (app.go:579-581) runs an act's second round without
\* a frame since its first, so the acknowledgement may overtake the farewell frame:
\* AckInOrder alone is refuted.
AckAfterFrame == ~exitSig => AckInOrder

\* No delta is missing from the middle of the sequence (session.go:43-46): a
\* client that subscribed to frames has in its stream, after the last frame it
\* read, every frame up to the last one composed, from the Welcome's on.
NoGap == Alive /\ wants =>
  /\ \A i \in 1..Len(Stream) :
       Stream[i].k = "delta" => ShownBefore(Stream[i].frame - 1, i)
  /\ ShownBefore(Composed, Len(Stream) + 1)

\* Position i is the last to carry a value.
Carries(i) == /\ Told(Stream[i]) /\ Stream[i].val # "same"
              /\ \A j \in (i + 1)..Len(Stream) : Told(Stream[j]) => Stream[j].val = "same"

\* With no frame due, the client that reads what is queued knows the property's
\* present value, from its deltas or from the baseline (session.go:155-157),
\* though only changes are sent and frames batch them.
ClientIsCurrent == Alive /\ ~dirty /\ ui # "diff" =>
  \/ \E i \in 1..Len(Stream) : Carries(i) /\ Stream[i].val = value
  \/ client.val = value /\ \A i \in 1..Len(Stream) : ~Carries(i)

\* Pushes never block the UI goroutine (session.go:43): a frame that is due is
\* composed and told, or the run has ended, though no client need ever read.
FramesGoOn == (dirty \/ ui = "diff") ~> (ui = "ended" \/ (ui = "loop" /\ ~dirty))

\* However Attach returns, its reader goroutine ends too: it is never left
\* waiting for Do, for room in the queue or for someone to take its error.
ReaderEnds == (attach = "ended") ~> (reader \in {"none", "gone"})

\* A client that fell behind is told so (session.go:43-46, 134-135): a stream
\* from which a message was dropped does not end as if nothing were missing.
GapsAreLoud == status = "ok" => ~lost
=============================================================================
