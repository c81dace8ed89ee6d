---------------------------- MODULE SessionCount ----------------------------
(***************************************************************************)
(* The live session count of the gRPC endpoint (grpc/session.go): the set  *)
(* of sessions the broadcaster keeps, joined on the UI goroutine and left  *)
(* on each stream's own, and the mailbox through which whoever changed it  *)
(* tells the host (Options.OnSessions).  Changes are numbered under the    *)
(* set's lock; the host is called with no lock held, by one goroutine at a *)
(* time, which also carries what others deposit meanwhile.                 *)
(*                                                                         *)
(* Each critical section is a step, and so is a call of the host.          *)
(***************************************************************************)
EXTENDS Naturals, FiniteSets

CONSTANTS
  Clients,     \* the clients, and their streams' goroutines
  Resumers,    \* the goroutines deliver starts after a panic; bounds those panics
  UI, Server,  \* the UI goroutine, and the one the accept loop runs on
  None,        \* the mailbox is empty
  DoFails      \* whether Bridge.Do may time out

Goroutines == Clients \cup Resumers \cup {UI, Server}

ASSUME SessionCountAssumption ==
  /\ IsFiniteSet(Clients)
  /\ Clients \cap Resumers = {}
  /\ UI # Server /\ {UI, Server} \cap (Clients \cup Resumers) = {}
  /\ DoFails \in BOOLEAN

\* A count, the number of the change it was taken at, and whether it is the
\* zero the closing endpoint reports.
Counts == [n : Nat, seq : Nat, final : BOOLEAN]

ASSUME NoneAssumption == None \notin Counts

VARIABLES
  stream,      \* where each client's Attach is
  closure,     \* what became of the register closure its Do posted
  sessions,    \* broadcaster.sessions, under mu
  seq,         \* broadcaster.seq, under mu
  notified, shut, delivering,   \* broadcaster's fields under notifyMu
  mail,        \* pending, pendN and pendSeq: the newest undelivered count
  pc,          \* where each goroutine is in notify, deliver or resume
  cap,         \* the count it captured, or carries to the host
  shown        \* the count the host was last called with

countVars == <<stream, closure, sessions, seq, notified, shut, delivering, mail, pc, cap, shown>>

Zero == [n |-> 0, seq |-> 0, final |-> FALSE]

CountInit == /\ stream = [c \in Clients |-> "out"]
        /\ closure = [c \in Clients |-> "none"]
        /\ sessions = {}
        /\ seq = 0 /\ notified = 0
        /\ shut = FALSE /\ delivering = FALSE /\ mail = None
        /\ pc = [g \in Goroutines |-> IF g = Server THEN "serving" ELSE "idle"]
        /\ cap = [g \in Goroutines |-> Zero]
        /\ shown = Zero

-----------------------------------------------------------------------------
(* Attach and its Do.  SettleBarrier models the rounds of a Do.            *)

\* Attach posts register through Bridge.Do.
Attach(c) == /\ stream[c] = "out"
             /\ stream' = [stream EXCEPT ![c] = "register"]
             /\ closure' = [closure EXCEPT ![c] = "queued"]
             /\ UNCHANGED <<sessions, seq, notified, shut, delivering, mail, pc, cap, shown>>

\* Under mu: the set changes to `members', the change is numbered, and g goes
\* on to notify with the count it took.
Change(g, members, final) ==
  /\ pc[g] \in {"idle", "serving"}
  /\ sessions' = members
  /\ seq' = seq + 1
  /\ pc' = [pc EXCEPT ![g] = "notify"]
  /\ cap' = [cap EXCEPT ![g] = [n |-> IF final THEN 0 ELSE Cardinality(members),
                                seq |-> seq + 1, final |-> final]]
  /\ UNCHANGED <<notified, shut, delivering, mail, shown>>

\* register, run by a Drain: broadcaster.add.
Add(c) == /\ closure[c] = "queued"
               /\ Change(UI, sessions \cup {c}, FALSE)
               /\ closure' = [closure EXCEPT ![c] = "running"]
               /\ UNCHANGED stream

\* Do returns: nil, or the panic of the closure.
DoReturns(c) == /\ stream[c] = "register"
                /\ closure[c] \in {"returned", "panicked"}
                /\ stream' = [stream EXCEPT ![c] = IF closure[c] = "returned" THEN "attached" ELSE "gone"]
                /\ UNCHANGED <<closure, sessions, seq, notified, shut, delivering, mail, pc, cap, shown>>

\* Either round of Do times out, and Attach returns its error.
DoTimesOut(c) == /\ DoFails
                 /\ stream[c] = "register"
                 /\ stream' = [stream EXCEPT ![c] = "gone"]
                 /\ UNCHANGED <<closure, sessions, seq, notified, shut, delivering, mail, pc, cap, shown>>

\* Attach returns, for whatever reason its loop has: broadcaster.remove.
Leave(c) == /\ stream[c] = "attached"
            /\ Change(c, sessions \ {c}, FALSE)
            /\ stream' = [stream EXCEPT ![c] = "gone"]
            /\ UNCHANGED closure

\* The accept loop returned: broadcaster.closed.
Closed == /\ pc[Server] = "serving"
          /\ Change(Server, sessions, TRUE)
          /\ UNCHANGED <<stream, closure>>

-----------------------------------------------------------------------------
(* notify and deliver.                                                     *)

\* g is through; the closure the UI goroutine was running has come to an end.
Through(g, how) == closure' = IF g # UI THEN closure
                              ELSE [c \in Clients |-> IF closure[c] = "running" THEN how ELSE closure[c]]

\* Mutant: a count is compared with what went out, not with what waits.
RefusedIfDelivered(count) == shut \/ (~count.final /\ count.seq <= notified)

\* Mutant: counts are delivered in the order they come.
RefusedIfShut(count) == shut

\* A newer count went out or waits to; the final zero outranks both.
RefusedIfOld(count) == /\ ~count.final
                       /\ count.seq <= notified \/ (mail # None /\ count.seq <= mail.seq)

\* notify's early returns: the endpoint is gone, or the count is old.
Refused(count) == shut \/ RefusedIfOld(count)

\* The head of deliver's loop: g takes the count out of the mailbox.
Carry(g, count) == /\ delivering' = TRUE
                   /\ notified' = count.seq
                   /\ mail' = None
                   /\ pc' = [pc EXCEPT ![g] = "calling"]
                   /\ cap' = [cap EXCEPT ![g] = count]
                   /\ closure' = closure

\* deliver, with `count' in the mailbox.
Deliver(g, count) == IF delivering
                     THEN /\ mail' = count
                          /\ pc' = [pc EXCEPT ![g] = "idle"]
                          /\ Through(g, "returned")
                          /\ UNCHANGED <<delivering, notified, cap>>
                     ELSE Carry(g, count)

Notify(g) == /\ pc[g] = "notify"
             /\ IF Refused(cap[g])
                THEN /\ pc' = [pc EXCEPT ![g] = "idle"]
                     /\ Through(g, "returned")
                     /\ UNCHANGED <<shut, delivering, notified, mail, cap>>
                ELSE /\ shut' = (shut \/ cap[g].final)
                     /\ Deliver(g, cap[g])
             /\ UNCHANGED <<stream, sessions, seq, shown>>

CallHost(g) == /\ pc[g] = "calling"
               /\ shown' = cap[g]
               /\ pc' = [pc EXCEPT ![g] = "called"]
               /\ UNCHANGED <<stream, closure, sessions, seq, notified, shut, delivering, mail, cap>>

\* The host returns: around the loop, or out of it.
HostReturns(g) == /\ pc[g] = "called"
                  /\ IF mail # None
                     THEN Carry(g, mail)
                     ELSE /\ delivering' = FALSE
                          /\ pc' = [pc EXCEPT ![g] = "idle"]
                          /\ Through(g, "returned")
                          /\ UNCHANGED <<notified, mail, cap>>
                  /\ UNCHANGED <<stream, sessions, seq, shut, shown>>

\* Mutant: what is left in the mailbox waits for the next change.
HostPanicsOnly(g) == /\ pc[g] = "called"
                     /\ g = UI \/ g \in Resumers
                     /\ delivering' = FALSE
                     /\ pc' = [pc EXCEPT ![g] = "idle"]
                     /\ Through(g, "panicked")
                     /\ UNCHANGED <<stream, sessions, seq, notified, shut, mail, cap, shown>>

\* The host panics on a goroutine where that is recovered: Bridge.Do's or
\* resume's.  What was left in the mailbox gets a goroutine of its own.
HostPanics(g) == /\ pc[g] = "called"
                 /\ g = UI \/ g \in Resumers
                 /\ delivering' = FALSE
                 /\ \E r \in Resumers \ {g} :
                      /\ pc[r] = "idle"
                      /\ pc' = [pc EXCEPT ![g] = "idle",
                                          ![r] = IF mail # None THEN "resume" ELSE "idle"]
                 /\ Through(g, "panicked")
                 /\ UNCHANGED <<stream, sessions, seq, notified, shut, mail, cap, shown>>

Resume(g) == /\ pc[g] = "resume"
             /\ IF delivering \/ mail = None
                THEN /\ pc' = [pc EXCEPT ![g] = "idle"]
                     /\ UNCHANGED <<closure, delivering, notified, mail, cap>>
                ELSE Carry(g, mail)
             /\ UNCHANGED <<stream, sessions, seq, shut, shown>>

-----------------------------------------------------------------------------

Step(g) == Notify(g) \/ CallHost(g) \/ HostReturns(g) \/ HostPanics(g) \/ Resume(g)

CountNext == \/ \E c \in Clients : \/ Attach(c) \/ Add(c) \/ DoReturns(c)
                              \/ DoTimesOut(c) \/ Leave(c)
        \/ Closed
        \/ \E g \in Goroutines : Step(g)

\* A goroutine inside notify is scheduled, and the host returns or panics.
CountFairness == \A g \in Goroutines : WF_countVars(Step(g))

CountSpec == CountInit /\ [][CountNext]_countVars /\ CountFairness

-----------------------------------------------------------------------------

\* The variables hold values of their types.
TypeOK == /\ stream \in [Clients -> {"out", "register", "attached", "gone"}]
          /\ closure \in [Clients -> {"none", "queued", "running", "returned", "panicked"}]
          /\ sessions \in SUBSET Clients
          /\ seq \in Nat /\ notified \in Nat
          /\ shut \in BOOLEAN /\ delivering \in BOOLEAN
          /\ mail \in Counts \cup {None}
          /\ pc \in [Goroutines -> {"serving", "idle", "notify", "calling", "called", "resume"}]
          /\ cap \in [Goroutines -> Counts]
          /\ shown \in Counts

Calls(g) == pc[g] \in {"calling", "called"}

\* The host is called by one goroutine at a time, though no lock is held
\* around the call, and delivering says exactly when.
OneDeliverer == /\ \A g, h \in Goroutines : Calls(g) /\ Calls(h) => g = h
                /\ delivering <=> \E g \in Goroutines : Calls(g)

\* The last count the host was given is the newest (server.go:95-103): once
\* no notification is in flight it is the size of the set, or zero for good.
LastWordIsNewest ==
  (\A g \in Goroutines : pc[g] \in {"serving", "idle"})
    => shown.n = IF shut THEN 0 ELSE Cardinality(sessions)

\* The count never goes backwards: a count is only ever followed by that of a
\* later change, or by the final zero.
NeverBackwards == [][shown' # shown => shown'.seq > shown.seq \/ shown'.final]_countVars

\* Zero is terminal (server.go:106-108): no session that joins or leaves late,
\* and no panic, gets another count to the host.
ZeroIsTerminal == [][shown.final => shown' = shown]_countVars

\* The final zero reaches the host, whatever it was doing with earlier counts
\* and however it left them.
ZeroIsTold == pc[Server] = "notify" ~> shown.final

\* A session in the set has a stream: Sessions is the number of clients
\* currently attached (server.go:279).
SessionsAreLive == \A c \in sessions : stream[c] # "gone"
=============================================================================
