------------------------------ MODULE PropGraph ------------------------------
(***************************************************************************)
(* The dependency-property graph (prop/prop.go), and the one user of it    *)
(* that evaluates and Sets while an invalidation is under way:             *)
(* validate.All (validate/validate.go).                                    *)
(*                                                                         *)
(* Everything runs on the UI goroutine, but not in one piece.  Evaluation  *)
(* is nested: a compute reads properties one after another and each dirty  *)
(* one is evaluated first (gets).  Invalidation is a depth-first walk over *)
(* maps that the hooks it calls may change underneath it (frames): Go says *)
(* an entry deleted is not produced, and one inserted may be or not.  So   *)
(* a hook sees a graph of which some nodes are dirty, some evaluated anew, *)
(* and some clean but out of date.                                         *)
(***************************************************************************)
EXTENDS Naturals, Sequences

CONSTANTS Sources,    \* properties with a value
          Computed,   \* properties with a compute function
          Values,     \* what they hold
          None,       \* no node
          First,      \* First[c]: what c's compute reads first
          Second,     \* Second[c][v]: what it reads when that was v, or None
          Result,     \* Result[c][v][w]: what it returns
          Rank,       \* the graph of possible reads has no cycle
          Aggs,       \* aggregates of validate.All
          OutOf,      \* OutOf[a]: the source All made for a
          Panics      \* whose compute may panic (and Bridge.round recover it)

Nodes == Sources \cup Computed

ASSUME NodesAssumption == Sources \cap Computed = {} /\ None \notin Nodes
ASSUME ValuesAssumption == Values # {}
ASSUME ReadsAssumption == /\ First \in [Computed -> Nodes]
                          /\ Second \in [Computed -> [Values -> Nodes \cup {None}]]
                          /\ Result \in [Computed -> [Values -> [Values -> Values]]]
ASSUME RankAssumption ==
  /\ Rank \in [Nodes -> Nat]
  /\ \A c \in Computed : /\ Rank[First[c]] < Rank[c]
                         /\ \A v \in Values : Second[c][v] # None => Rank[Second[c][v]] < Rank[c]
\* Each call of All makes an outward property of its own.
ASSUME AggsAssumption == /\ Aggs \subseteq Computed /\ OutOf \in [Aggs -> Sources]
                         /\ \A a, b \in Aggs : OutOf[a] = OutOf[b] => a = b
ASSUME PanicsAssumption == Panics \subseteq Computed

VARIABLES value,    \* Property.value
          dirty,    \* node.dirty
          edges,    \* <<n, c>>: c is in n.dependents and n in c.deps
          gets,     \* computes in progress, innermost last: the evalStack
          seen,     \* seen[c]: what c's compute has read so far
          left,     \* what a panic left on top of evalStack, or None
          frames,   \* calls of invalidate and of All's hook, innermost last
          made,     \* the aggregates All has been called for
          lost,     \* history: clean computeds that the walk a panic abandoned
                    \* had yet to come to, until they are dirty after all
          deaf      \* history: aggregates whose hook a panic cut short; it left
                    \* them dirty, and nobody but the hook Gets them

history == <<lost, deaf>>
vars == <<value, dirty, edges, gets, seen, left, frames, made, history>>

Clean(n) == n \in Sources \/ (n \in Computed /\ ~dirty[n])

Dependents(n) == {c \in Computed : <<n, c>> \in edges}

\* What c's compute reads next, having read what it has; None at its end.
NextRead(c) == CASE seen[c] = <<>> -> First[c]
                 [] Len(seen[c]) = 1 -> Second[c][seen[c][1]]
                 [] OTHER -> None

Apply(c, s) == Result[c][s[1]][s[Len(s)]]

Init == /\ value \in [Nodes -> {CHOOSE v \in Values : TRUE}]
        /\ dirty = [c \in Computed |-> TRUE]
        /\ edges = {}
        /\ gets = <<>>
        /\ seen = [c \in Computed |-> <<>>]
        /\ left = None
        /\ frames = <<>>
        /\ made = {}
        /\ lost = {} /\ deaf = {}

-----------------------------------------------------------------------------
(* Get.                                                                    *)

Last(s) == s[Len(s)]

\* Who is on top of evalStack.
Reader == IF gets = <<>> THEN left ELSE Last(gets)

\* recordRead.
Record(n) == IF Reader \in {None, n} THEN edges ELSE edges \cup {<<n, Reader>>}

\* Mutant: a computed is not detached from what it read before.
DetachNothing(c, es) == es

\* The head of an evaluation deletes c from the maps of all it depended on.
Detach(c, es) == {e \in es : e[2] # c}

\* The value the caller gets goes to the compute that asked, if one did.
Given(v, callers) == IF callers = <<>> THEN seen
                     ELSE [seen EXCEPT ![Last(callers)] = Append(@, v)]

\* Get of a source or a clean computed.
Read(n) == /\ Clean(n)
           /\ edges' = Record(n)
           /\ seen' = Given(value[n], gets)
           /\ UNCHANGED <<value, dirty, gets, left>>

\* Get of a dirty computed begins its evaluation.  A map being walked loses it.
Begin(c) == /\ c \in Computed /\ dirty[c]
            /\ edges' = Detach(c, Record(c))
            /\ gets' = Append(gets, c)
            /\ seen' = [seen EXCEPT ![c] = <<>>]
            /\ UNCHANGED <<value, dirty, left>>

Forgotten(c) == [i \in 1..Len(frames) |-> [frames[i] EXCEPT !.todo = @ \ {c}]]

\* The compute in progress reads what it reads next.
ComputeReads ==
  /\ gets # <<>>
  /\ LET n == NextRead(Last(gets)) IN
       /\ n # None
       /\ \/ Read(n) /\ frames' = frames
          \/ Begin(n) /\ frames' = Forgotten(n)
  /\ UNCHANGED <<made, history>>

\* The compute returns: its value is cached and it is clean.
Evaluated ==
  /\ gets # <<>>
  /\ LET c == Last(gets)
         v == Apply(c, seen[c])
         callers == SubSeq(gets, 1, Len(gets) - 1)
     IN /\ NextRead(c) = None
        /\ value' = [value EXCEPT ![c] = v]
        /\ dirty' = [dirty EXCEPT ![c] = FALSE]
        /\ gets' = callers
        /\ seen' = Given(v, callers)
  /\ UNCHANGED <<edges, left, frames, made, history>>

Top == Last(frames)
Below == SubSeq(frames, 1, Len(frames) - 1)

\* An invalidation under way has yet to come to c.
Coming(c) == \E i \in 1..Len(frames) :
               \/ c \in frames[i].todo
               \/ frames[i].pc # "loop" /\ <<frames[i].n, c>> \in edges

\* A compute panics, called from a plain Get or from the hook of an aggregate
\* in the middle of an invalidation, and the panic is recovered: no one pops
\* evalStack, and no one takes up the walk.  (Not in All's own first Get:
\* then there is no aggregate.)
Panic == /\ gets # <<>> /\ Last(gets) \in Panics
         /\ frames # <<>> => Head(frames).pc = "loop"
         /\ left' = Last(gets)
         /\ gets' = <<>> /\ frames' = <<>>
         /\ lost' = lost \cup {c \in Computed : ~dirty[c] /\ Coming(c)}
         /\ deaf' = deaf \cup {a \in Aggs : frames # <<>> /\ a = Top.n}
         /\ UNCHANGED <<value, dirty, edges, seen, made>>

-----------------------------------------------------------------------------
(* Set and invalidate.                                                     *)

Call(n, pc, todo) == [n |-> n, pc |-> pc, todo |-> todo]

\* Set's assignment, and the head of its loop over the dependents it has in es.
Assign(s, v, es, below) ==
  /\ value' = [value EXCEPT ![s] = v]
  /\ frames' = Append(below, Call(s, "loop", {c \in Computed : <<s, c>> \in es}))
  /\ UNCHANGED <<dirty, gets, seen, left, made, history>>

InFrame(pc) == gets = <<>> /\ frames # <<>> /\ Top.pc = pc

\* What invalidate(c) of a clean c starts with: its hook, if it has one that
\* touches the graph, or the walk over its dependents.
Enter(c) == IF c \in made THEN Call(c, "get", {}) ELSE Call(c, "loop", Dependents(c))

\* Mutant: invalidate does not go on to the dependents of what has a hook.
VisitStopping(c) ==
  /\ c \in Top.todo
  /\ IF dirty[c]
     THEN /\ frames' = Append(Below, [Top EXCEPT !.todo = @ \ {c}])
          /\ UNCHANGED <<dirty, lost>>
     ELSE /\ frames' = Append(Append(Below, [Top EXCEPT !.todo = {}]), Enter(c))
          /\ dirty' = [dirty EXCEPT ![c] = TRUE]
          /\ lost' = lost \ {c}

\* The walk produces c: an entry it has yet to produce, or one inserted since.
Visit(c) ==
  /\ c \in Top.todo \/ (<<Top.n, c>> \in edges /\ ~dirty[c])
  /\ IF dirty[c]
     THEN /\ frames' = Append(Below, [Top EXCEPT !.todo = @ \ {c}])
          /\ UNCHANGED <<dirty, lost>>
     ELSE /\ frames' = Append(Append(Below, [Top EXCEPT !.todo = @ \ {c}]), Enter(c))
          /\ dirty' = [dirty EXCEPT ![c] = TRUE]
          /\ lost' = lost \ {c}

Invalidate == /\ InFrame("loop")
              /\ \E c \in Computed : Visit(c)
              /\ UNCHANGED <<value, edges, gets, seen, left, made, deaf>>

Walked == /\ InFrame("loop")
          /\ Top.todo = {}
          /\ frames' = Below
          /\ UNCHANGED <<value, dirty, edges, gets, seen, left, made, history>>

\* Mutant: the hook compares without asking the aggregate again.
HookSkipsGet == /\ InFrame("get")
                /\ frames' = Append(Below, [Top EXCEPT !.pc = "compare"])
                /\ UNCHANGED <<value, dirty, edges, gets, seen, left, made, history>>

\* All's hook: agg.Get() ...
HookGets == /\ InFrame("get")
            /\ Begin(Top.n)
            /\ frames' = LET fs == Forgotten(Top.n) IN [fs EXCEPT ![Len(fs)].pc = "compare"]
            /\ UNCHANGED <<made, history>>

\* ... if v != out.Get() { out.Set(v) }: a Get like any other ...
HookCompares ==
  /\ InFrame("compare")
  /\ LET a == Top.n
         through == Append(Below, [Top EXCEPT !.pc = "through"])
     IN /\ edges' = Record(OutOf[a])
        /\ IF value[a] # value[OutOf[a]]
           THEN Assign(OutOf[a], value[a], Record(OutOf[a]), through)
           ELSE frames' = through /\ UNCHANGED <<value, dirty, gets, seen, left, made, history>>

\* ... and then invalidate walks the dependents.
HookReturns == /\ InFrame("through")
               /\ frames' = Append(Below, Call(Top.n, "loop", Dependents(Top.n)))
               /\ UNCHANGED <<value, dirty, edges, gets, seen, left, made, history>>

-----------------------------------------------------------------------------
(* The host, with nothing of the graph under way.                          *)

Quiet == gets = <<>> /\ frames = <<>>

\* All(fields): the first Get arms the aggregate, its value is what out begins
\* with, and the hook is installed.  The same steps as the hook's.
All(a) == /\ Quiet
          /\ a \notin made
          /\ made' = made \cup {a}
          /\ frames' = <<Call(a, "get", {})>>
          /\ UNCHANGED <<value, dirty, edges, gets, seen, left, history>>

\* A paint node, a handler or a client reads a property.  The aggregate itself
\* is All's own, and what reads its out is made after it.
HostGets(n) == /\ Quiet /\ made = Aggs
               /\ n \notin Aggs
               /\ Read(n) \/ Begin(n)
               /\ UNCHANGED <<frames, made, history>>

HostSets(s, v) == /\ Quiet /\ made = Aggs
                  /\ \A a \in Aggs : OutOf[a] # s
                  /\ Assign(s, v, edges, <<>>)
                  /\ edges' = edges

Next == \/ ComputeReads \/ Evaluated \/ Panic
        \/ Invalidate \/ Walked
        \/ HookGets \/ HookCompares \/ HookReturns
        \/ \E a \in Aggs : All(a)
        \/ \E n \in Nodes : HostGets(n)
        \/ \E s \in Sources, v \in Values : HostSets(s, v)

Spec == Init /\ [][Next]_vars

-----------------------------------------------------------------------------

Frame == [n : Nodes, pc : {"loop", "get", "compare", "through"}, todo : SUBSET Computed]

\* The graph's variables hold values of their types; only aggregates have hooks.
GraphTypeOK ==
  /\ value \in [Nodes -> Values]
  /\ dirty \in [Computed -> BOOLEAN]
  /\ edges \subseteq Nodes \X Computed
  /\ gets \in Seq(Computed)
  /\ seen \in [Computed -> Seq(Values)]
  /\ left \in Computed \cup {None}
  /\ frames \in Seq(Frame)
  /\ \A i \in 1..Len(frames) : frames[i].pc # "loop" => frames[i].n \in Aggs
  /\ made \subseteq Aggs

\* The variables hold values of their types.
TypeOK == GraphTypeOK /\ lost \subseteq Computed /\ deaf \subseteq Aggs

\* t gives every property what evaluating everything from the sources now gives.
Solves(t) == /\ \A s \in Sources : t[s] = value[s]
             /\ \A c \in Computed :
                  LET v == t[First[c]]
                      m == Second[c][v]
                  IN t[c] = Result[c][v][IF m = None THEN v ELSE t[m]]

\* What c has to be told of, by the values its reads have.
ReadsOf(c) == LET v == value[First[c]] IN {First[c]} \cup ({Second[c][v]} \ {None})

\* c holds what its compute would return, and would hear of a change to it.
UpToDate(c) == LET v == value[First[c]]
                   m == Second[c][v]
               IN /\ \A n \in ReadsOf(c) : Clean(n) /\ <<n, c>> \in edges
                  /\ value[c] = Result[c][v][IF m = None THEN v ELSE value[m]]

\* What evaluating everything from the sources gives is what clean computeds hold.
RightValues ==
  \A t \in [Nodes -> Values] : Solves(t) => \A c \in Computed : ~dirty[c] => value[c] = t[c]

\* Lazy evaluation never shows an old value (prop.go:14-17): with nothing under
\* way, a clean computed holds what evaluating everything from the sources would
\* give, whatever order maps were walked in, whatever hooks evaluated or Set in
\* the middle of it, and whatever plain Get panicked.  Not so after a panic in
\* the hook of an aggregate, which abandons the invalidation that called it:
\* what that had yet to come to stays clean, and the promise is off until each
\* of them (lost) has been made dirty again.
CleanIsRight == Quiet /\ lost = {} => RightValues

\* The same, one node at a time and in the middle of everything: a clean
\* computed agrees with the cached values of what it reads, all of it clean and
\* all of it knowing of c, or an invalidation is on its way to c, or was when a
\* panic in a hook abandoned it.
CleanIsUpToDate == \A c \in Computed : ~dirty[c] => UpToDate(c) \/ Coming(c) \/ c \in lost

\* Conditional reads track exactly the branch that was taken (prop.go:12-13):
\* with nothing under way, and no panic so far, a clean computed depends on what
\* it read in its last evaluation and on nothing else.
ExactlyTheBranch == Quiet /\ left = None =>
  \A c \in Computed : ~dirty[c] => {n \in Nodes : <<n, c>> \in edges} = ReadsOf(c)

\* validate.All's outward property is the aggregate's truth whenever the host
\* gets to look (validate.go:65-77), though the hook that sees to it runs amid
\* an invalidation, on fields some of which are out of date; unless a panic has
\* cut that hook short (deaf), or an invalidation that has yet to be made good.
OutIsRight == Quiet /\ lost = {} =>
  \A t \in [Nodes -> Values] : Solves(t) => \A a \in made \ deaf : value[OutOf[a]] = t[a]

\* What prop.go:14-17 says without exception, of a panic in a hook too.
RightWhateverPanics == Quiet => RightValues

\* What validate.go:65-77 says without exception.  An aggregate whose Get
\* panicked in its hook stays dirty: nobody else Gets it, so it is not invalidated
\* again, its hook is not called again, and out keeps the value it has.
OutWhateverPanics == Quiet /\ lost = {} =>
  \A t \in [Nodes -> Values] : Solves(t) => \A a \in made : value[OutOf[a]] = t[a]
=============================================================================
