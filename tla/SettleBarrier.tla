---------------------------- MODULE SettleBarrier ----------------------------
(***************************************************************************)
(* control.Bridge.Do (control/bridge.go) over the run loop: a transport's  *)
(* goroutine posts fn and waits for it, then posts a closure that does     *)
(* nothing and waits for that.  Do's return is the control plane's promise *)
(* that the UI has settled: the frame fn's Sets asked for was composed.    *)
(* Each wait is bounded by a timer, and a timed-out closure stays queued.  *)
(***************************************************************************)
EXTENDS RunLoop

VARIABLES
  client,  \* where Do is: not called, in its two rounds, or returned
  fn       \* what became of fn: "none", "set" when it ran, "painted" when a
           \* frame was composed after that

bridgeVars == <<vars, client, fn>>

BridgeInit == Init /\ client = "out" /\ fn = "none"

-----------------------------------------------------------------------------

\* A round's closure that has not run: its done channel is empty.
Pending(kind) == \/ \E i \in DOMAIN queue : queue[i].kind = kind
                 \/ \E a \in DOMAIN stack :
                      \E i \in DOMAIN stack[a].work : stack[a].work[i].kind = kind

\* The first half of round: b.post.
PostRound(kind) == /\ PostJob(kind, "any")
                   /\ UNCHANGED <<signals, events, decDead, quit, cancelled, at, stack, suspended,
                                  exitSig, result, view, hook, exitDrains, asked, spent>>

\* Do is called.
CallDo == /\ client = "out"
          /\ at # "done"
          /\ PostRound("act")
          /\ client' = "fn"
          /\ fn' = fn

\* Mutant: Do posts the barrier without waiting for fn.
PostBarrierAtOnce == /\ client = "fn"
                     /\ PostRound("barrier")
                     /\ client' = "barrier"
                     /\ fn' = fn

\* The first round was answered: the second posts the barrier.
FnAnswered == /\ client = "fn"
              /\ ~Pending("act")
              /\ PostRound("barrier")
              /\ client' = "barrier"
              /\ fn' = fn

\* The barrier was answered: Do returns nil.
Settle == /\ client = "barrier"
          /\ ~Pending("barrier")
          /\ client' = "settled"
          /\ UNCHANGED <<vars, fn>>

\* Either round's timer: Do returns a TimeoutError.
TimeOut == /\ client \in {"fn", "barrier"}
           /\ client' = "timedOut"
           /\ UNCHANGED <<vars, fn>>

\* Any step of the run loop, and what it does to fn.
Loop(step) == /\ step
              /\ fn' = IF Pending("act") /\ ~Pending("act")' THEN "set"
                       ELSE IF fn = "set" /\ view.dirty /\ ~view'.dirty THEN "painted"
                       ELSE fn
              /\ client' = client

BridgeNext == \/ CallDo \/ FnAnswered \/ Settle \/ TimeOut
              \/ Loop(Next)

\* The run loop's fairness; nothing is assumed of Do's goroutine.
BridgeSpec == /\ BridgeInit
              /\ [][BridgeNext]_bridgeVars
              /\ WF_bridgeVars(Loop(UIStep))
              /\ WF_bridgeVars(Loop(ForwardSignal))

-----------------------------------------------------------------------------

\* Settled means painted: Do returns nil only when a frame was composed after
\* fn ran, because the barrier runs in a later Drain (bridge.go:34-41).  Not so
\* once a signal is ending the run: gracefulExit's own Drain may answer the
\* barrier before the frame.
SettledMeansPainted ==
  [][Settle => fn = "painted" \/ exitSig]_bridgeVars
=============================================================================
