--------------------------- MODULE PropGraphProofs ---------------------------
(***************************************************************************)
(* Proofs about PropGraph: for every acyclic graph of computeds that read  *)
(* at most two properties, any number of aggregates, and any order in      *)
(* which maps are walked.                                                  *)
(***************************************************************************)
EXTENDS PropGraph, SequenceTheorems, WellFoundedInduction, TLAPS

-----------------------------------------------------------------------------
(* Sequences used as stacks.                                               *)

\* What is left of a stack without its top.
LEMMA Popped == ASSUME NEW S, NEW s \in Seq(S), s # <<>>
                PROVE  LET p == SubSeq(s, 1, Len(s) - 1) IN
                       /\ Len(s) \in Nat \ {0}
                       /\ s[Len(s)] \in S
                       /\ p \in Seq(S)
                       /\ Len(p) = Len(s) - 1
                       /\ \A i \in 1..(Len(s) - 1) : p[i] = s[i]
<1>1. Len(s) \in Nat \ {0} /\ \A i \in 1..Len(s) : s[i] \in S
  BY LenProperties, EmptySeq
<1>2. \A i \in 1..(Len(s) - 1) : s[i] \in S
  BY <1>1
<1>3. 1 \in Int /\ Len(s) - 1 \in Int
  BY <1>1
<1> DEFINE m == Len(s) - 1
<1>4. /\ SubSeq(s, 1, m) \in Seq(S)
      /\ Len(SubSeq(s, 1, m)) = IF 1 <= m THEN m - 1 + 1 ELSE 0
      /\ \A i \in 1..(m - 1 + 1) : SubSeq(s, 1, m)[i] = s[1 + i - 1]
  <2> HIDE DEF m
  <2> QED BY <1>2, <1>3, SubSeqProperties DEF m
<1> HIDE DEF m
<1>5. m \in Nat /\ m = Len(s) - 1
  BY <1>1 DEF m
<1>6. Len(SubSeq(s, 1, m)) = m /\ \A i \in 1..m : SubSeq(s, 1, m)[i] = s[i]
  BY <1>4, <1>5
<1>7. QED
  BY <1>1, <1>4, <1>5, <1>6

\* A stack whose top goes on as something else.
LEMMA Replaced == ASSUME NEW S, NEW s \in Seq(S), s # <<>>, NEW x \in S
                  PROVE  LET r == Append(SubSeq(s, 1, Len(s) - 1), x) IN
                         /\ r \in Seq(S)
                         /\ Len(r) = Len(s)
                         /\ \A i \in 1..Len(s) : r[i] = IF i = Len(s) THEN x ELSE s[i]
<1> DEFINE p == SubSeq(s, 1, Len(s) - 1)
<1>1. p \in Seq(S) /\ Len(p) = Len(s) - 1 /\ Len(s) \in Nat \ {0} /\ \A i \in 1..(Len(s) - 1) : p[i] = s[i]
  BY Popped
<1> HIDE DEF p
<1>2. /\ Append(p, x) \in Seq(S)
      /\ Len(Append(p, x)) = Len(p) + 1
      /\ \A i \in 1..Len(p) : Append(p, x)[i] = p[i]
      /\ Append(p, x)[Len(p) + 1] = x
  BY <1>1, AppendProperties
<1>3. QED
  BY <1>1, <1>2 DEF p
-----------------------------------------------------------------------------
(* The calls of invalidate that are under way.                             *)

\* Call f has yet to come to c.
Awaits(f, es, c) == c \in f.todo \/ (f.pc # "loop" /\ <<f.n, c>> \in es)

Awaited(fs, es, c) == \E i \in 1..Len(fs) : Awaits(fs[i], es, c)

\* An invalidation is on its way to c when a call on the stack awaits it.
LEMMA ComingIsAwaited == ASSUME NEW c PROVE Coming(c) <=> Awaited(frames, edges, c)
  BY DEF Coming, Awaited, Awaits

\* A call that is pushed awaits what it awaits, and the others what they did.
LEMMA AwaitedAppend ==
  ASSUME NEW fs \in Seq(Frame), NEW f \in Frame, NEW es, NEW c
  PROVE  /\ Append(fs, f) \in Seq(Frame)
         /\ Append(fs, f) # <<>>
         /\ Awaited(Append(fs, f), es, c) <=> Awaited(fs, es, c) \/ Awaits(f, es, c)
<1>1. /\ Append(fs, f) \in Seq(Frame)
      /\ Len(Append(fs, f)) = Len(fs) + 1
      /\ \A i \in 1..Len(fs) : Append(fs, f)[i] = fs[i]
      /\ Append(fs, f)[Len(fs) + 1] = f
      /\ Len(fs) \in Nat
  BY AppendProperties, LenProperties
<1>2. Append(fs, f) # <<>>
  BY <1>1, EmptySeq
<1>3. Awaited(Append(fs, f), es, c) <=> Awaited(fs, es, c) \/ Awaits(f, es, c)
  <2> DEFINE r == Append(fs, f)
  <2>1. \A i \in 1..Len(r) : i \in 1..Len(fs) \/ i = Len(fs) + 1
    BY <1>1
  <2>2. ASSUME Awaited(r, es, c) PROVE Awaited(fs, es, c) \/ Awaits(f, es, c)
    <3>1. PICK i \in 1..Len(r) : Awaits(r[i], es, c)
      BY <2>2 DEF Awaited
    <3>2. CASE i \in 1..Len(fs)
      <4>1. r[i] = fs[i]
        BY <3>2, <1>1
      <4>2. QED
        BY <3>1, <3>2, <4>1 DEF Awaited
    <3>3. CASE i = Len(fs) + 1
      <4>1. r[i] = f
        BY <3>3, <1>1
      <4>2. QED
        BY <3>1, <4>1
    <3>4. QED
      BY <3>2, <3>3, <2>1
  <2>3. ASSUME Awaited(fs, es, c) PROVE Awaited(r, es, c)
    <3>1. PICK i \in 1..Len(fs) : Awaits(fs[i], es, c)
      BY <2>3 DEF Awaited
    <3>2. i \in 1..Len(r) /\ r[i] = fs[i]
      BY <1>1
    <3>3. QED
      BY <3>1, <3>2 DEF Awaited
  <2>4. ASSUME Awaits(f, es, c) PROVE Awaited(r, es, c)
    <3>1. Len(fs) + 1 \in 1..Len(r) /\ r[Len(fs) + 1] = f
      BY <1>1
    <3>2. QED
      BY <2>4, <3>1 DEF Awaited
  <2>5. QED
    BY <2>2, <2>3, <2>4
<1>4. QED
  BY <1>1, <1>2, <1>3

\* A stack is what lies below its top, and its top.
LEMMA Pushed == ASSUME NEW S, NEW s \in Seq(S), s # <<>>
                PROVE  /\ SubSeq(s, 1, Len(s) - 1) \in Seq(S)
                       /\ Last(s) \in S
                       /\ s = Append(SubSeq(s, 1, Len(s) - 1), Last(s))
<1> DEFINE p == SubSeq(s, 1, Len(s) - 1)
<1>1. /\ p \in Seq(S) /\ Len(p) = Len(s) - 1 /\ Len(s) \in Nat \ {0}
      /\ \A i \in 1..(Len(s) - 1) : p[i] = s[i]
      /\ s[Len(s)] \in S
  BY Popped
<1> HIDE DEF p
<1>2. Last(s) \in S
  BY <1>1 DEF Last
<1> DEFINE r == Append(p, Last(s))
<1>3. /\ r \in Seq(S) /\ Len(r) = Len(p) + 1
      /\ \A i \in 1..Len(p) : r[i] = p[i]
      /\ r[Len(p) + 1] = Last(s)
  BY <1>1, <1>2, AppendProperties
<1> HIDE DEF r
<1>4. Len(r) = Len(s) /\ \A i \in 1..Len(s) : r[i] = s[i]
  BY <1>1, <1>3 DEF Last
<1>5. r = s
  BY <1>3, <1>4, SeqEqual
<1>6. QED
  BY <1>1, <1>2, <1>5 DEF p, r

\* The stack awaits what its top and those below it do.
LEMMA AwaitedPop ==
  ASSUME frames \in Seq(Frame), frames # <<>>
  PROVE  /\ Below \in Seq(Frame) /\ Top \in Frame
         /\ \A es, c : Awaited(frames, es, c) <=> Awaited(Below, es, c) \/ Awaits(Top, es, c)
<1>1. Below \in Seq(Frame) /\ Top \in Frame /\ frames = Append(Below, Top)
  BY Pushed DEF Below, Top
<1>2. ASSUME NEW es, NEW c
      PROVE  Awaited(frames, es, c) <=> Awaited(Below, es, c) \/ Awaits(Top, es, c)
  <2> DEFINE b == Below
             f == Top
  <2>1. b \in Seq(Frame) /\ f \in Frame /\ frames = Append(b, f)
    BY <1>1
  <2> HIDE DEF b, f
  <2>2. Awaited(Append(b, f), es, c) <=> Awaited(b, es, c) \/ Awaits(f, es, c)
    BY <2>1, AwaitedAppend
  <2>3. QED
    BY <2>1, <2>2 DEF b, f
<1>3. QED
  BY <1>1, <1>2

\* With no invalidation under way, nothing is awaited.
LEMMA AwaitedNone == ASSUME NEW es, NEW c PROVE ~Awaited(<<>>, es, c)
<1>1. Len(<<>>) = 0
  BY EmptySeq, LenProperties
<1>2. QED
  BY <1>1 DEF Awaited

\* A call of invalidate or of the hook goes on as another: top, pushed or not.
LEMMA AwaitedReplace ==
  ASSUME frames \in Seq(Frame), frames # <<>>, NEW g \in Frame
  PROVE  /\ Append(Below, g) \in Seq(Frame) /\ Append(Below, g) # <<>>
         /\ \A es, c : Awaited(Append(Below, g), es, c) <=> Awaited(Below, es, c) \/ Awaits(g, es, c)
<1>1. Below \in Seq(Frame)
  BY AwaitedPop
<1> DEFINE b == Below
<1>2. b \in Seq(Frame)
  BY <1>1
<1> HIDE DEF b
<1>3. /\ Append(b, g) \in Seq(Frame) /\ Append(b, g) # <<>>
      /\ \A es, c : Awaited(Append(b, g), es, c) <=> Awaited(b, es, c) \/ Awaits(g, es, c)
  BY <1>2, AwaitedAppend
<1>4. QED
  BY <1>3 DEF b

\* A map that loses an entry while it is walked does not produce it.
LEMMA AwaitedForgotten ==
  ASSUME frames \in Seq(Frame), NEW n \in Computed
  PROVE  /\ Forgotten(n) \in Seq(Frame)
         /\ Len(Forgotten(n)) = Len(frames)
         /\ \A i \in 1..Len(frames) : Forgotten(n)[i] = [frames[i] EXCEPT !.todo = @ \ {n}]
         /\ \A es, c : c # n /\ Awaited(frames, es, c) => Awaited(Forgotten(n), es, c)
<1>1. Len(frames) \in Nat /\ \A i \in 1..Len(frames) : frames[i] \in Frame
  BY LenProperties, EmptySeq
<1> DEFINE F(i) == [frames[i] EXCEPT !.todo = @ \ {n}]
           g == [i \in 1..Len(frames) |-> F(i)]
<1>2. \A i \in 1..Len(frames) : F(i) \in Frame
  BY <1>1 DEF Frame
<1>3. g \in [1..Len(frames) -> Frame]
  BY <1>2
<1>4. g \in Seq(Frame) /\ Len(g) = Len(frames)
  BY <1>1, <1>3 
<1>5. \A i \in 1..Len(frames) : g[i] = F(i)
  OBVIOUS
<1>6. ASSUME NEW es, NEW c, c # n, Awaited(frames, es, c) PROVE Awaited(g, es, c)
  <2>1. PICK i \in 1..Len(frames) : Awaits(frames[i], es, c)
    BY <1>6 DEF Awaited
  <2>2. Awaits(F(i), es, c)
    BY <2>1, <1>1, <1>6 DEF Awaits, Frame
  <2>3. QED
    BY <2>1, <2>2, <1>4, <1>5 DEF Awaited
<1>7. g = Forgotten(n)
  BY DEF Forgotten
<1> HIDE DEF g
<1>8. QED
  BY <1>4, <1>5, <1>6, <1>7

-----------------------------------------------------------------------------
(* The inductive invariant.                                                *)

\* c has read v from n, which is what n holds, and n knows of c.
Holds(n, c, v) == Clean(n) /\ <<n, c>> \in edges /\ value[n] = v

HasSeen(c) ==
  \/ seen[c] = <<>>
  \/ Len(seen[c]) = 1 /\ Holds(First[c], c, seen[c][1])
  \/ /\ Len(seen[c]) = 2
     /\ Holds(First[c], c, seen[c][1])
     /\ Second[c][seen[c][1]] # None
     /\ Holds(Second[c][seen[c][1]], c, seen[c][2])

\* What is being evaluated is dirty, and has read what is there to be read.
Evaluating == \A i \in 1..Len(gets), g \in Computed : g = gets[i] => dirty[g] /\ HasSeen(g)

\* Each evaluation waits for the next, which knows of it.
Waiting == \A i \in 1..Len(gets), g, n \in Computed :
             i + 1 \in 1..Len(gets) /\ g = gets[i] /\ n = gets[i + 1] =>
               n = NextRead(g) /\ <<n, g>> \in edges

\* Nothing is evaluated within its own evaluation.
Descending == \A i, j \in 1..Len(gets) : i < j => Rank[gets[j]] < Rank[gets[i]]

\* Only aggregates have hooks, and a hook is not in a walk of its own.
InHooks(fs) == \A i \in 1..Len(fs) : fs[i].pc # "loop" => fs[i].n \in Aggs /\ fs[i].todo = {}

\* c has read n, in the evaluation that is under way.
HasRead(c, n) == \/ seen[c] # <<>> /\ n = First[c]
                 \/ Len(seen[c]) = 2 /\ n = Second[c][seen[c][1]]

\* Without a panic, what is being evaluated is subscribed to what it has read,
\* and to what it waits for.
OnlyItsReads == left = None =>
  \A i \in 1..Len(gets), g \in Computed, n \in Nodes :
    g = gets[i] /\ <<n, g>> \in edges =>
      HasRead(g, n) \/ (i + 1 \in 1..Len(gets) /\ n = gets[i + 1])

OnlyTheBranch(c) == \A n \in Nodes : <<n, c>> \in edges => n \in ReadsOf(c)

\* c is up to date and, without a panic, subscribed to nothing it did not read.
Current(c) == UpToDate(c) /\ (left = None => OnlyTheBranch(c))

\* A panic has abandoned an invalidation that was on its way to c.
Lost(c) == c \in lost /\ left # None

CleanIsCurrent == \A c \in Computed : ~dirty[c] /\ ~Lost(c) => Current(c) \/ Coming(c)

IInv == /\ GraphTypeOK
        /\ InHooks(frames)
        /\ Evaluating
        /\ Waiting
        /\ Descending
        /\ OnlyItsReads
        /\ CleanIsCurrent

-----------------------------------------------------------------------------
(* Evaluation.                                                             *)

\* The evaluations under way are of computeds.
LEMMA StackTypes ==
  ASSUME GraphTypeOK
  PROVE  /\ Len(gets) \in Nat
         /\ \A i \in 1..Len(gets) : gets[i] \in Computed
         /\ gets # <<>> => Len(gets) \in 1..Len(gets) /\ Last(gets) = gets[Len(gets)]
<1>1. gets \in Seq(Computed)
  BY DEF GraphTypeOK
<1>2. Len(gets) \in Nat /\ (gets # <<>> => Len(gets) # 0) /\ \A i \in 1..Len(gets) : gets[i] \in Computed
  BY <1>1, LenProperties, EmptySeq
<1>3. QED
  BY <1>2 DEF Last

\* Reads go down.
LEMMA NextReadDescends ==
  ASSUME GraphTypeOK, NEW c \in Computed, NextRead(c) # None
  PROVE  NextRead(c) \in Nodes /\ Rank[NextRead(c)] < Rank[c] /\ NextRead(c) # c
<1>1. seen[c] \in Seq(Values)
  BY DEF GraphTypeOK
<1>2. Rank[c] \in Nat
  BY RankAssumption DEF Nodes
<1>3. CASE seen[c] = <<>>
  <2>1. NextRead(c) = First[c]
    BY <1>3 DEF NextRead
  <2>2. QED
    BY <2>1, <1>2, ReadsAssumption, RankAssumption DEF Nodes
<1>4. CASE seen[c] # <<>> /\ Len(seen[c]) = 1
  <2>1. NextRead(c) = Second[c][seen[c][1]]
    BY <1>4 DEF NextRead
  <2>2. seen[c][1] \in Values
    BY <1>1, <1>4, LenProperties
  <2>3. QED
    BY <2>1, <2>2, <1>2, ReadsAssumption, RankAssumption DEF Nodes
<1>5. CASE seen[c] # <<>> /\ Len(seen[c]) # 1
  BY <1>5 DEF NextRead
<1>6. QED
  BY <1>3, <1>4, <1>5

\* Who has read what does not forget, as long as that stays as it is.
LEMMA HasSeenKept ==
  ASSUME NEW c \in Computed, HasSeen(c), seen'[c] = seen[c],
         \A n \in Nodes : Clean(n) => Clean(n)' /\ value'[n] = value[n],
         \A n \in Nodes : <<n, c>> \in edges => <<n, c>> \in edges'
  PROVE  HasSeen(c)'
<1>1. \A n : Clean(n) => n \in Nodes
  BY DEF Clean, Nodes
<1>2. \A n, v : Holds(n, c, v) => Clean(n)' /\ <<n, c>> \in edges' /\ value'[n] = v
  BY <1>1 DEF Holds
<1>3. QED
  BY <1>2 DEF HasSeen, Holds

\* A clean node stays as it is, and so does what it hears of.
LEMMA UpToDateKept ==
  ASSUME NEW d \in Computed, Current(d), value'[d] = value[d],
         \A n \in ReadsOf(d) : Clean(n)' /\ value'[n] = value[n] /\ <<n, d>> \in edges',
         left' = None => left = None /\ \A n \in Nodes : <<n, d>> \in edges' => <<n, d>> \in edges
  PROVE  Current(d)'
<1> DEFINE v == value[First[d]]
           m == Second[d][v]
<1>1. First[d] \in ReadsOf(d) /\ (m # None => m \in ReadsOf(d))
  BY DEF ReadsOf
<1>2. value'[First[d]] = v
  BY <1>1
<1>3. ReadsOf(d)' = ReadsOf(d)
  BY <1>2 DEF ReadsOf
<1>4. m # None => value'[m] = value[m]
  BY <1>1
<1>5. value[d] = Result[d][v][IF m = None THEN v ELSE value[m]]
  BY DEF Current, UpToDate
<1>6. value'[d] = Result[d][v][IF m = None THEN v ELSE value'[m]]
  BY <1>4, <1>5
<1>7. \A n \in ReadsOf(d)' : Clean(n)' /\ <<n, d>> \in edges'
  BY <1>3
<1>8. UpToDate(d)'
  BY <1>2, <1>6, <1>7 DEF UpToDate
<1>9. left' = None => OnlyTheBranch(d)'
  BY <1>3 DEF Current, OnlyTheBranch
<1>10. QED
  BY <1>8, <1>9 DEF Current

\* The innermost evaluation, and that everything around it is another.
LEMMA Innermost ==
  ASSUME IInv, gets # <<>>
  PROVE  LET p == Last(gets) IN
         /\ p \in Computed /\ dirty[p] /\ HasSeen(p)
         /\ \A i \in 1..Len(gets) : i # Len(gets) => gets[i] # p
<1> DEFINE p == Last(gets)
           L == Len(gets)
<1>1. L \in 1..L /\ L \in Nat /\ p = gets[L] /\ \A i \in 1..L : gets[i] \in Computed
  BY StackTypes DEF IInv
<1>2. p \in Computed /\ dirty[p] /\ HasSeen(p)
  <2>1. p \in Computed
    BY <1>1
  <2> HIDE DEF p
  <2>2. \A g \in Computed : g = gets[L] => dirty[g] /\ HasSeen(g)
    BY <1>1 DEF IInv, Evaluating, L
  <2>3. \A g \in Computed : g = p => dirty[g] /\ HasSeen(g)
    BY <2>2, <1>1
  <2>4. QED
    BY <2>1, <2>3
<1>3. ASSUME NEW i \in 1..L, i # L PROVE gets[i] # p
  <2>1. i < L
    BY <1>1, <1>3
  <2>2. Rank[gets[L]] < Rank[gets[i]]
    BY <1>1, <2>1 DEF IInv, Descending
  <2>3. Rank[gets[L]] \in Nat
    BY <1>1, RankAssumption DEF Nodes
  <2>4. QED
    BY <1>1, <2>2, <2>3
<1>4. QED
  BY <1>2, <1>3

\* An evaluation begins, of what the top of the stack reads next or of a root.
LEMMA BeginNests ==
  ASSUME IInv, NEW c \in Computed, Begin(c),
         gets # <<>> => c = NextRead(Last(gets))
  PROVE  /\ gets' \in Seq(Computed) /\ seen' \in [Computed -> Seq(Values)]
         /\ edges' \subseteq Nodes \X Computed
         /\ \A n \in Nodes, d \in Computed : d # c /\ <<n, d>> \in edges => <<n, d>> \in edges'
         /\ left' = None => /\ left = None
                            /\ \A n \in Nodes, d \in Computed :
                                 ~dirty[d] /\ <<n, d>> \in edges' => <<n, d>> \in edges
         /\ Evaluating' /\ Waiting' /\ Descending' /\ OnlyItsReads'
<1> DEFINE L == Len(gets)
<1>1. /\ GraphTypeOK /\ L \in Nat /\ gets \in Seq(Computed)
      /\ \A i \in 1..L : gets[i] \in Computed
  BY StackTypes DEF IInv, GraphTypeOK
<1>2. /\ dirty[c] /\ edges' = Detach(c, Record(c)) /\ gets' = Append(gets, c)
      /\ seen' = [seen EXCEPT ![c] = <<>>]
      /\ UNCHANGED <<value, dirty, left>>
  BY DEF Begin
<1>3. /\ gets' \in Seq(Computed) /\ Len(gets') = L + 1
      /\ \A i \in 1..L : gets'[i] = gets[i]
      /\ gets'[L + 1] = c
  BY <1>1, <1>2, AppendProperties
<1>4. seen' \in [Computed -> Seq(Values)] /\ seen'[c] = <<>> /\ \A d \in Computed : d # c => seen'[d] = seen[d]
  <2>1. <<>> \in Seq(Values)
    BY EmptySeq
  <2>2. QED
    BY <1>1, <1>2, <2>1 DEF GraphTypeOK
<1>5. edges' \subseteq Nodes \X Computed
  <2>1. Reader # None => Reader \in Computed
    BY <1>1, Pushed DEF Reader, GraphTypeOK
  <2>2. Record(c) \subseteq Nodes \X Computed
    BY <2>1, <1>1 DEF Record, GraphTypeOK, Nodes
  <2>3. QED
    BY <1>2, <2>2 DEF Detach
<1>6. \A n \in Nodes, d \in Computed : d # c /\ <<n, d>> \in edges => <<n, d>> \in edges'
  BY <1>2 DEF Detach, Record
\* c is below everything on the stack.
<1>7. \A i \in 1..L : Rank[c] < Rank[gets[i]] /\ c # gets[i]
  <2>1. CASE gets = <<>>
    BY <2>1, LenProperties, EmptySeq
  <2>2. CASE gets # <<>>
    <3> DEFINE p == gets[L]
    <3>1. L \in 1..L /\ p \in Computed /\ Last(gets) = p
      BY <1>1, <2>2, StackTypes
    <3>2. c # None
      BY NodesAssumption DEF Nodes
    <3>3. Rank[c] < Rank[p]
      BY <3>1, <3>2, <2>2, <1>1, NextReadDescends
    <3>4. \A i \in 1..L : i # L => Rank[p] < Rank[gets[i]]
      BY <3>1, <1>1 DEF IInv, Descending
    <3>5. Rank[c] \in Nat /\ Rank[p] \in Nat /\ \A i \in 1..L : Rank[gets[i]] \in Nat
      BY <3>1, <1>1, RankAssumption DEF Nodes
    <3> HIDE DEF p
    <3>6. \A i \in 1..L : Rank[c] < Rank[gets[i]]
      BY <3>3, <3>4, <3>5 DEF p
    <3>7. QED
      BY <3>6, <3>5
  <2>3. QED
    BY <2>1, <2>2
<1> HIDE DEF L
<1>8. Descending'
  <2>1. \A i, j \in 1..L : i < j => Rank[gets[j]] < Rank[gets[i]]
    BY DEF IInv, Descending, L
  <2>2. QED
    BY <2>1, <1>1, <1>3, <1>7 DEF Descending
<1>9. Evaluating'
  <2>1. \A n \in Nodes : Clean(n) => Clean(n)' /\ value'[n] = value[n]
    BY <1>2 DEF Clean
  <2>2. ASSUME NEW i \in 1..Len(gets'), NEW g \in Computed, g = gets'[i]
        PROVE  dirty'[g] /\ HasSeen(g)'
    <3>1. CASE i = L + 1
      BY <3>1, <2>2, <1>2, <1>3, <1>4 DEF HasSeen
    <3>2. CASE i \in 1..L
      <4>1. g = gets[i] /\ g # c
        BY <3>2, <2>2, <1>3, <1>7
      <4>2. dirty[g] /\ HasSeen(g)
        BY <3>2, <4>1 DEF IInv, Evaluating, L
      <4>3. seen'[g] = seen[g] /\ \A n \in Nodes : <<n, g>> \in edges => <<n, g>> \in edges'
        BY <4>1, <1>4, <1>6
      <4>4. HasSeen(g)'
        BY <4>2, <4>3, <2>1, HasSeenKept
      <4>5. QED
        BY <4>2, <4>4, <1>2
    <3>3. QED
      BY <3>1, <3>2, <1>1, <1>3
  <2>3. QED
    BY <2>2 DEF Evaluating
<1>10. Waiting'
  <2>1. ASSUME NEW i \in 1..Len(gets'), NEW g \in Computed, NEW n \in Computed,
               i + 1 \in 1..Len(gets'), g = gets'[i], n = gets'[i + 1]
        PROVE  n = NextRead(g)' /\ <<n, g>> \in edges'
    <3>1. i \in 1..L /\ g = gets[i] /\ g # c
      BY <2>1, <1>1, <1>3, <1>7
    <3>2. n = NextRead(g) /\ <<n, g>> \in edges'
      <4>1. CASE i = L
        <5>1. n = c /\ gets # <<>> /\ g = Last(gets)
          BY <4>1, <2>1, <3>1, <1>3, LenProperties, EmptySeq DEF Last, L
        <5>2. n = NextRead(g)
          BY <5>1
        <5>3. Reader = g /\ g # None /\ n # g
          BY <5>1, <3>1, NodesAssumption DEF Reader, Nodes
        <5>4. <<n, g>> \in Record(c)
          BY <5>1, <5>3 DEF Record
        <5>5. QED
          BY <5>2, <5>4, <3>1, <1>2 DEF Detach
      <4>2. CASE i # L
        <5>1. i + 1 \in 1..L /\ n = gets[i + 1]
          BY <4>2, <2>1, <3>1, <1>1, <1>3
        <5>2. n = NextRead(g) /\ <<n, g>> \in edges
          BY <5>1, <3>1 DEF IInv, Waiting, L
        <5>3. QED
          BY <5>2, <3>1, <1>6 DEF Nodes
      <4>3. QED
        BY <4>1, <4>2
    <3>3. NextRead(g)' = NextRead(g)
      BY <3>1, <1>4 DEF NextRead
    <3>4. QED
      BY <3>2, <3>3
  <2>2. QED
    BY <2>1 DEF Waiting
\* What is recorded is recorded for the innermost evaluation, which is dirty.
<1>11. ASSUME left = None, NEW n \in Nodes, NEW d \in Computed, <<n, d>> \in edges'
       PROVE  d # c /\ (<<n, d>> \in edges \/ (gets # <<>> /\ d = Last(gets) /\ n = c))
  <2>1. Reader # None => gets # <<>> /\ Reader = Last(gets)
    BY <1>11 DEF Reader
  <2>2. QED
    BY <2>1, <1>2, <1>11 DEF Detach, Record
<1>12. left' = None => /\ left = None
                       /\ \A n \in Nodes, d \in Computed :
                            ~dirty[d] /\ <<n, d>> \in edges' => <<n, d>> \in edges
  <2>1. left' = left
    BY <1>2
  <2>2. gets # <<>> => \A d \in Computed : d = Last(gets) => dirty[d]
    BY Innermost
  <2>3. QED
    BY <2>1, <2>2, <1>11
<1>13. OnlyItsReads'
  <2>1. ASSUME left = None, NEW i \in 1..Len(gets'), NEW g \in Computed, NEW n \in Nodes,
               g = gets'[i], <<n, g>> \in edges'
        PROVE  HasRead(g, n)' \/ (i + 1 \in 1..Len(gets') /\ n = gets'[i + 1])
    <3>1. g # c /\ (<<n, g>> \in edges \/ (gets # <<>> /\ g = Last(gets) /\ n = c))
      BY <2>1, <1>11
    <3>2. i \in 1..L /\ g = gets[i]
      BY <2>1, <3>1, <1>1, <1>3
    <3>3. CASE <<n, g>> \in edges
      <4>1. HasRead(g, n) \/ (i + 1 \in 1..L /\ n = gets[i + 1])
        BY <2>1, <3>2, <3>3 DEF IInv, OnlyItsReads, L
      <4>2. seen'[g] = seen[g]
        BY <3>1, <1>4
      <4>3. QED
        BY <4>1, <4>2, <1>1, <1>3 DEF HasRead
    <3>4. CASE gets # <<>> /\ g = Last(gets) /\ n = c
      <4>1. L \in 1..L /\ g = gets[L]
        BY <3>4, <1>1, StackTypes DEF L
      <4>2. i = L
        <5>1. \A k \in 1..L : k < L => Rank[gets[L]] < Rank[gets[k]]
          BY <4>1 DEF IInv, Descending, L
        <5>2. Rank[g] \in Nat
          BY RankAssumption DEF Nodes
        <5>3. QED
          BY <5>1, <5>2, <4>1, <3>2, <1>1
      <4>3. QED
        BY <4>2, <3>4, <1>1, <1>3
    <3>5. QED
      BY <3>1, <3>3, <3>4
  <2>2. left' = left
    BY <1>2
  <2>3. QED
    BY <2>1, <2>2 DEF OnlyItsReads
<1>14. QED
  BY <1>3, <1>4, <1>5, <1>6, <1>8, <1>9, <1>10, <1>12, <1>13

\* With nothing being evaluated there is nothing to say of evaluations.
LEMMA NothingNests == gets = <<>> => Evaluating /\ Waiting /\ Descending /\ OnlyItsReads
<1> SUFFICES ASSUME gets = <<>> PROVE Evaluating /\ Waiting /\ Descending /\ OnlyItsReads
  OBVIOUS
<1>1. Len(gets) = 0
  BY LenProperties, EmptySeq
<1>2. QED
  BY <1>1 DEF Evaluating, Waiting, Descending, OnlyItsReads

\* What a computed has read are properties.
LEMMA ReadsAreNodes == ASSUME GraphTypeOK, NEW d \in Computed PROVE ReadsOf(d) \subseteq Nodes
<1>1. First[d] \in Nodes /\ value[First[d]] \in Values
  BY ReadsAssumption DEF GraphTypeOK
<1>2. Second[d][value[First[d]]] \in Nodes \cup {None}
  BY <1>1, ReadsAssumption
<1>3. QED
  BY <1>1, <1>2 DEF ReadsOf

\* A step that touches no value, and loses neither what a clean node hears of
\* nor an invalidation on its way to one.
LEMMA GraphKept ==
  ASSUME IInv, UNCHANGED <<value, dirty, lost>>,
         \A n \in Nodes, d \in Computed : ~dirty[d] /\ <<n, d>> \in edges => <<n, d>> \in edges',
         left' = None => /\ left = None
                         /\ \A n \in Nodes, d \in Computed :
                              ~dirty[d] /\ <<n, d>> \in edges' => <<n, d>> \in edges,
         \A d \in Computed : ~dirty[d] /\ Awaited(frames, edges, d) => Awaited(frames', edges', d)
  PROVE  CleanIsCurrent'
<1>1. ASSUME NEW d \in Computed, ~dirty'[d], ~Lost(d)' PROVE Current(d)' \/ Coming(d)'
  <2>1. ~dirty[d] /\ ~Lost(d) /\ GraphTypeOK
    BY <1>1 DEF IInv, Lost
  <2>2. CASE Current(d)
    <3>1. \A n \in ReadsOf(d) : Clean(n)' /\ value'[n] = value[n] /\ <<n, d>> \in edges'
      BY <2>1, <2>2, ReadsAreNodes DEF Current, UpToDate, Clean
    <3>2. QED
      BY <2>1, <2>2, <3>1, UpToDateKept
  <2>3. CASE Coming(d)
    <3>1. Awaited(frames', edges', d)
      BY <2>1, <2>3, ComingIsAwaited
    <3>2. QED
      BY <3>1 DEF Coming, Awaited, Awaits
  <2>4. QED
    BY <2>1, <2>2, <2>3 DEF IInv, CleanIsCurrent
<1>2. QED
  BY <1>1 DEF CleanIsCurrent

\* A compute is given what it read next.
LEMMA SeesMore ==
  ASSUME GraphTypeOK, NEW p \in Computed, HasSeen(p), NextRead(p) # None,
         NEW v \in Values, seen'[p] = Append(seen[p], v),
         \A n : n = NextRead(p) => Clean(n)' /\ <<n, p>> \in edges' /\ value'[n] = v,
         \A n \in Nodes : Clean(n) => Clean(n)' /\ value'[n] = value[n],
         \A n \in Nodes : <<n, p>> \in edges => <<n, p>> \in edges'
  PROVE  HasSeen(p)'
<1> DEFINE s == seen[p]
           t == Append(seen[p], v)
<1>1. s \in Seq(Values)
  BY DEF GraphTypeOK
<1>2. /\ Len(t) = Len(s) + 1 /\ Len(s) \in Nat
      /\ \A i \in 1..Len(s) : t[i] = s[i]
      /\ t[Len(s) + 1] = v
      /\ (s = <<>> <=> Len(s) = 0)
  BY <1>1, AppendProperties, LenProperties, EmptySeq
<1>3. \A n : Clean(n) => n \in Nodes
  BY DEF Clean, Nodes
<1>4. \A n, w : Holds(n, p, w) => Clean(n)' /\ <<n, p>> \in edges' /\ value'[n] = w
  BY <1>3 DEF Holds
<1>5. CASE s = <<>>
  <2>1. First[p] = NextRead(p)
    BY <1>5 DEF NextRead
  <2>2. Len(t) = 1 /\ t[1] = v
    BY <1>2, <1>5
  <2>3. Clean(First[p])' /\ <<First[p], p>> \in edges' /\ value'[First[p]] = t[1]
    BY <2>1, <2>2 DEF Clean
  <2>4. seen'[p] = t
    OBVIOUS
  <2> HIDE DEF t
  <2>5. QED
    BY <2>2, <2>3, <2>4 DEF HasSeen, Holds, Clean
<1>6. CASE Len(s) = 1
  <2>1. s # <<>> /\ NextRead(p) = Second[p][s[1]] /\ Holds(First[p], p, s[1])
    BY <1>2, <1>6 DEF NextRead, HasSeen
  <2>2. Len(t) = 2 /\ t[1] = s[1] /\ t[2] = v
    BY <1>2, <1>6
  <2>3. Clean(First[p])' /\ <<First[p], p>> \in edges' /\ value'[First[p]] = t[1]
    BY <2>1, <2>2, <1>4 DEF Clean
  <2>4. PICK m : m = NextRead(p)
    OBVIOUS
  <2>5. m # None /\ Clean(m)' /\ <<m, p>> \in edges' /\ value'[m] = v
    BY <2>4
  <2>6. seen'[p] = t /\ m = Second[p][t[1]]
    BY <2>1, <2>2, <2>4
  <2> HIDE DEF t
  <2>7. (m \in Sources \/ (m \in Computed /\ ~dirty'[m])) /\ (First[p] \in Sources \/ (First[p] \in Computed /\ ~dirty'[First[p]]))
    BY <2>3, <2>5 DEF Clean
  <2>8. QED
    BY <2>2, <2>3, <2>5, <2>6, <2>7 DEF HasSeen, Holds, Clean
<1>7. CASE Len(s) # 0 /\ Len(s) # 1
  BY <1>2, <1>7 DEF NextRead
<1>8. QED
  BY <1>2, <1>5, <1>6, <1>7

\* ... and what it read next is then among what it has read.
LEMMA ReadsMore ==
  ASSUME GraphTypeOK, NEW p \in Computed, HasSeen(p), NextRead(p) # None,
         NEW v \in Values, seen'[p] = Append(seen[p], v),
         NEW n, HasRead(p, n) \/ n = NextRead(p)
  PROVE  HasRead(p, n)'
<1> DEFINE s == seen[p]
           t == Append(seen[p], v)
<1>1. s \in Seq(Values)
  BY DEF GraphTypeOK
<1>2. /\ Len(t) = Len(s) + 1 /\ Len(s) \in Nat
      /\ \A i \in 1..Len(s) : t[i] = s[i]
      /\ (s = <<>> <=> Len(s) = 0) /\ (t = <<>> <=> Len(t) = 0)
  BY <1>1, AppendProperties, LenProperties, EmptySeq
<1>3. t # <<>>
  BY <1>2
<1>4. CASE s = <<>>
  <2>1. n = First[p]
    BY <1>2, <1>4 DEF HasRead, NextRead
  <2>2. QED
    BY <2>1, <1>3 DEF HasRead
<1>5. CASE Len(s) = 1
  <2>1. n = First[p] \/ n = Second[p][s[1]]
    BY <1>2, <1>5 DEF HasRead, NextRead
  <2>2. Len(t) = 2 /\ t[1] = s[1]
    BY <1>2, <1>5
  <2> HIDE DEF t
  <2>3. seen'[p] = t
    BY DEF t
  <2>4. QED
    BY <2>1, <2>2, <2>3, <1>3 DEF HasRead
<1>6. CASE Len(s) # 0 /\ Len(s) # 1
  BY <1>2, <1>6 DEF NextRead
<1>7. QED
  BY <1>2, <1>4, <1>5, <1>6

\* With more subscriptions, no less is awaited.
LEMMA AwaitedMore ==
  ASSUME NEW fs \in Seq(Frame), NEW es, NEW ds, NEW d,
         \A n \in Nodes : <<n, d>> \in es => <<n, d>> \in ds,
         Awaited(fs, es, d)
  PROVE  Awaited(fs, ds, d)
<1>1. PICK i \in 1..Len(fs) : Awaits(fs[i], es, d)
  BY DEF Awaited
<1>2. fs[i].n \in Nodes
  <2>1. fs[i] \in Frame
    BY LenProperties
  <2>2. QED
    BY <2>1 DEF Frame
<1>3. Awaits(fs[i], ds, d)
  BY <1>1, <1>2 DEF Awaits
<1>4. QED
  BY <1>3 DEF Awaited

\* A compute reads a property: a clean one at once, a dirty one by evaluating it.
LEMMA ComputeReadsKeeps == ASSUME IInv, ComputeReads PROVE IInv'
<1> DEFINE L == Len(gets)
<1>0. PICK p : p = Last(gets)
  OBVIOUS
<1>1. PICK n : n = NextRead(p)
  OBVIOUS
<1>2. GraphTypeOK /\ gets # <<>> /\ n # None /\ made' = made /\ lost' = lost
  BY <1>0, <1>1 DEF ComputeReads, IInv, history
<1>3. /\ p \in Computed /\ dirty[p] /\ HasSeen(p)
      /\ \A i \in 1..L : i # L => gets[i] # p
      /\ L \in 1..L /\ L \in Nat /\ p = gets[L] /\ \A i \in 1..L : gets[i] \in Computed
  BY <1>0, <1>2, Innermost, StackTypes
<1>4. n \in Nodes /\ n # p
  BY <1>1, <1>2, <1>3, NextReadDescends
<1>5. \/ Read(n) /\ frames' = frames
      \/ Begin(n) /\ frames' = Forgotten(n)
  BY <1>0, <1>1 DEF ComputeReads
<1>6. CASE Read(n) /\ frames' = frames
  <2>1. Reader = p /\ p # None
    BY <1>0, <1>2, <1>3, NodesAssumption DEF Reader, Nodes
  <2>2. edges' = edges \cup {<<n, p>>} /\ UNCHANGED <<value, dirty, gets, left, frames>> /\ Clean(n)
    BY <1>6, <1>4, <2>1 DEF Read, Record
  <2>3. seen' = [seen EXCEPT ![p] = Append(@, value[n])]
    BY <1>0, <1>6, <1>2 DEF Read, Given
  <2>4. value[n] \in Values /\ seen[p] \in Seq(Values)
    BY <1>2, <1>3, <1>4 DEF GraphTypeOK
  <2>5. Append(seen[p], value[n]) \in Seq(Values)
    BY <2>4, AppendProperties
  <2>6. /\ seen' \in [Computed -> Seq(Values)]
        /\ seen'[p] = Append(seen[p], value[n])
        /\ \A d \in Computed : d # p => seen'[d] = seen[d]
    BY <2>3, <2>5, <1>2, <1>3 DEF GraphTypeOK
  <2> HIDE DEF L
  <2>7. GraphTypeOK'
    <3>1. edges' \subseteq Nodes \X Computed
      BY <2>2, <1>2, <1>3, <1>4 DEF GraphTypeOK
    <3>2. UNCHANGED <<value, dirty, gets, left, frames, made>>
      BY <2>2, <1>2
    <3>3. QED
      BY <3>1, <3>2, <2>6, <1>2 DEF GraphTypeOK
  <2>8. /\ \A m \in Nodes : Clean(m) => Clean(m)' /\ value'[m] = value[m]
        /\ \A m \in Nodes, d \in Computed : <<m, d>> \in edges => <<m, d>> \in edges'
    BY <2>2 DEF Clean
  <2>9. HasSeen(p)'
    <3>1. \A m : m = NextRead(p) => Clean(m)' /\ <<m, p>> \in edges' /\ value'[m] = value[n]
      BY <1>1, <1>4, <2>2, <2>8
    <3>2. NextRead(p) # None
      BY <1>1, <1>2
    <3>3. QED
      BY <3>1, <3>2, <1>2, <1>3, <2>4, <2>6, <2>8, SeesMore
  <2>10. \A g \in Computed : g # p /\ HasSeen(g) => HasSeen(g)'
    BY <2>6, <2>8, HasSeenKept
  <2>11. Evaluating'
    <3>1. \A i \in 1..L, g \in Computed : g = gets[i] => dirty[g] /\ HasSeen(g)
      BY DEF IInv, Evaluating, L
    <3>2. ASSUME NEW i \in 1..L, NEW g \in Computed, g = gets[i] PROVE dirty'[g] /\ HasSeen(g)'
      <4>1. dirty[g] /\ HasSeen(g) /\ dirty'[g] = dirty[g]
        BY <3>1, <3>2, <2>2
      <4>2. QED
        BY <4>1, <2>9, <2>10
    <3>3. QED
      BY <3>2, <2>2 DEF Evaluating, L
  <2>12. Waiting'
    <3>1. ASSUME NEW i \in 1..L, NEW g \in Computed, NEW m \in Computed,
                 i + 1 \in 1..L, g = gets[i], m = gets[i + 1]
          PROVE  m = NextRead(g)' /\ <<m, g>> \in edges'
      <4>1. m = NextRead(g) /\ <<m, g>> \in edges
        BY <3>1 DEF IInv, Waiting, L
      <4>2. g # p
        BY <3>1, <1>3
      <4>3. NextRead(g)' = NextRead(g)
        BY <4>2, <2>6 DEF NextRead
      <4>4. QED
        BY <4>1, <4>3, <2>8 DEF Nodes
    <3>2. QED
      BY <3>1, <2>2 DEF Waiting, L
  <2>13. Descending'
    BY <2>2 DEF IInv, Descending
  <2>14. CleanIsCurrent'
    <3>1. \A d \in Computed : Awaited(frames, edges, d) => Awaited(frames', edges', d)
      <4>1. frames \in Seq(Frame)
        BY <1>2 DEF GraphTypeOK
      <4>2. \A d \in Computed : Awaited(frames, edges, d) => Awaited(frames, edges', d)
        BY <4>1, <2>8, AwaitedMore
      <4>3. QED
        BY <4>2, <2>2
    <3>2. UNCHANGED <<value, dirty, lost>>
      BY <2>2, <1>2
    <3>3. left' = None => /\ left = None
                          /\ \A m \in Nodes, d \in Computed :
                               ~dirty[d] /\ <<m, d>> \in edges' => <<m, d>> \in edges
      BY <2>2, <1>3
    <3>4. QED
      BY <3>1, <3>2, <3>3, <2>8, GraphKept
  <2>15. InHooks(frames)'
    BY <2>2 DEF IInv, InHooks
  <2>16. OnlyItsReads'
    <3>1. ASSUME left = None, NEW i \in 1..L, NEW g \in Computed, NEW m \in Nodes,
                 g = gets[i], <<m, g>> \in edges'
          PROVE  HasRead(g, m)' \/ (i + 1 \in 1..L /\ m = gets[i + 1])
      <4>1. \/ HasRead(g, m) \/ (i + 1 \in 1..L /\ m = gets[i + 1])
            \/ g = p /\ m = NextRead(p)
        <5>1. <<m, g>> \in edges \/ (g = p /\ m = n)
          BY <3>1, <2>2
        <5>2. QED
          BY <5>1, <3>1, <1>1 DEF IInv, OnlyItsReads, L
      <4>2. CASE g = p
        <5>1. i + 1 \notin 1..L
          BY <4>2, <3>1, <1>3
        <5>2. HasRead(p, m) \/ m = NextRead(p)
          BY <5>1, <4>1, <4>2
        <5>3. HasRead(p, m)'
          BY <5>2, <2>4, <2>6, <1>1, <1>2, <1>3, ReadsMore
        <5>4. QED
          BY <5>3, <4>2
      <4>3. CASE g # p
        BY <4>1, <4>3, <2>6 DEF HasRead
      <4>4. QED
        BY <4>2, <4>3
    <3>2. QED
      BY <3>1, <2>2 DEF OnlyItsReads, L
  <2>17. QED
    BY <2>7, <2>11, <2>12, <2>13, <2>14, <2>15, <2>16 DEF IInv, InHooks
<1>7. CASE Begin(n) /\ frames' = Forgotten(n)
  <2>1. n \in Computed /\ dirty[n] /\ UNCHANGED <<value, dirty, left, made>>
    BY <1>7, <1>2 DEF Begin
  <2>2. /\ gets' \in Seq(Computed) /\ seen' \in [Computed -> Seq(Values)]
        /\ edges' \subseteq Nodes \X Computed
        /\ \A m \in Nodes, d \in Computed : d # n /\ <<m, d>> \in edges => <<m, d>> \in edges'
        /\ left' = None => /\ left = None
                           /\ \A m \in Nodes, d \in Computed :
                                ~dirty[d] /\ <<m, d>> \in edges' => <<m, d>> \in edges
        /\ Evaluating' /\ Waiting' /\ Descending' /\ OnlyItsReads'
    BY <1>0, <2>1, <1>1, <1>7, BeginNests
  <2> HIDE DEF L
  <2>3. frames \in Seq(Frame) /\ InHooks(frames)
    BY <1>2 DEF IInv, GraphTypeOK
  <2> DEFINE f == Forgotten(n)
  <2>4. /\ f \in Seq(Frame) /\ Len(f) = Len(frames)
        /\ \A i \in 1..Len(frames) : f[i] = [frames[i] EXCEPT !.todo = @ \ {n}]
        /\ \A es, c : c # n /\ Awaited(frames, es, c) => Awaited(f, es, c)
    BY <2>1, <2>3, AwaitedForgotten
  <2> HIDE DEF f
  <2>5. InHooks(f)
    <3>1. \A i \in 1..Len(frames) : frames[i] \in Frame
      BY <2>3, LenProperties
    <3>2. \A i \in 1..Len(frames) : /\ f[i].n = frames[i].n /\ f[i].pc = frames[i].pc
                                     /\ f[i].todo = frames[i].todo \ {n}
      BY <2>4, <3>1 DEF Frame
    <3>3. QED
      BY <3>2, <2>3, <2>4 DEF InHooks
  <2>6. frames' = f
    BY <1>7 DEF f
  <2>7. GraphTypeOK'
    BY <2>1, <2>2, <2>4, <2>5, <2>6, <1>2 DEF GraphTypeOK, InHooks
  <2>8. CleanIsCurrent'
    <3>1. ASSUME NEW d \in Computed, ~dirty[d], Awaited(frames, edges, d)
          PROVE  Awaited(frames', edges', d)
      <4>1. d # n
        BY <3>1, <2>1
      <4>2. Awaited(f, edges, d)
        BY <3>1, <4>1, <2>4
      <4>3. Awaited(f, edges', d)
        BY <4>1, <4>2, <2>2, <2>4, AwaitedMore
      <4>4. QED
        BY <4>3, <2>6
    <3>2. \A m \in Nodes, d \in Computed : ~dirty[d] /\ <<m, d>> \in edges => <<m, d>> \in edges'
      BY <2>1, <2>2
    <3>3. UNCHANGED <<value, dirty, lost>>
      BY <2>1, <1>2
    <3>4. QED
      BY <3>1, <3>2, <3>3, <2>2, GraphKept
  <2>9. QED
    BY <2>2, <2>5, <2>6, <2>7, <2>8 DEF IInv, InHooks
<1>8. QED
  BY <1>5, <1>6, <1>7

\* What a compute returns, having read what there is to read, is right.
LEMMA ReturnsRight ==
  ASSUME GraphTypeOK, NEW p \in Computed, HasSeen(p), NextRead(p) = None,
         NEW v, v = Apply(p, seen[p]),
         left' = left, left = None => \A n \in Nodes : <<n, p>> \in edges => HasRead(p, n),
         value' = [value EXCEPT ![p] = v], dirty' = [dirty EXCEPT ![p] = FALSE], edges' = edges
  PROVE  v \in Values /\ Current(p)'
<1> DEFINE s == seen[p]
<1>1. s \in Seq(Values) /\ value \in [Nodes -> Values] /\ dirty \in [Computed -> BOOLEAN]
  BY DEF GraphTypeOK
<1>2. First[p] \in Nodes /\ Rank[First[p]] < Rank[p] /\ Rank[p] \in Nat /\ None \notin Nodes
  BY ReadsAssumption, RankAssumption, NodesAssumption DEF Nodes
<1>3. First[p] # p
  BY <1>2
<1>4. s # <<>>
  BY <1>2 DEF NextRead
<1>5. \A n \in Nodes : n # p => value'[n] = value[n] /\ (Clean(n) => Clean(n)')
  BY <1>1 DEF Clean
<1>6. value'[p] = v
  BY <1>1 DEF Nodes
<1>7. CASE Len(s) = 1
  <2>1. Holds(First[p], p, s[1]) /\ Second[p][s[1]] = None
    BY <1>4, <1>7 DEF HasSeen, NextRead
  <2>2. s[1] \in Values
    BY <1>1, <1>7, LenProperties
  <2>3. v = Result[p][s[1]][s[1]]
    BY <1>7 DEF Apply
  <2>4. v \in Values
    BY <2>2, <2>3, ReadsAssumption
  <2>5. Clean(First[p])' /\ <<First[p], p>> \in edges' /\ value'[First[p]] = s[1]
    BY <2>1, <1>2, <1>3, <1>5 DEF Holds
  <2> HIDE DEF s
  <2>6. ReadsOf(p)' = {First[p]}
    BY <2>1, <2>5 DEF ReadsOf
  <2>7. UpToDate(p)'
    BY <2>1, <2>3, <2>4, <2>5, <2>6, <1>6 DEF UpToDate, Clean
  <2>8. left' = None => OnlyTheBranch(p)'
    BY <2>6, <1>7 DEF OnlyTheBranch, HasRead, s
  <2>9. QED
    BY <2>4, <2>7, <2>8 DEF Current
<1>8. CASE Len(s) = 2
  <2>1. PICK m : m = Second[p][s[1]]
    OBVIOUS
  <2>2. Holds(First[p], p, s[1]) /\ m # None /\ Holds(m, p, s[2])
    BY <1>4, <1>8, <2>1 DEF HasSeen
  <2>3. s[1] \in Values /\ s[2] \in Values
    BY <1>1, <1>8, LenProperties
  <2>4. v = Result[p][s[1]][s[2]]
    BY <1>8 DEF Apply
  <2>5. v \in Values
    BY <2>3, <2>4, ReadsAssumption
  <2>6. m \in Nodes /\ Rank[m] < Rank[p]
    BY <2>1, <2>2, <2>3, ReadsAssumption, RankAssumption
  <2>7. m # p
    BY <2>6, <1>2
  <2>8. /\ Clean(First[p])' /\ <<First[p], p>> \in edges' /\ value'[First[p]] = s[1]
        /\ Clean(m)' /\ <<m, p>> \in edges' /\ value'[m] = s[2]
    BY <2>2, <2>6, <2>7, <1>2, <1>3, <1>5 DEF Holds
  <2> HIDE DEF s
  <2>9. ReadsOf(p)' = {First[p], m}
    BY <2>1, <2>2, <2>8 DEF ReadsOf
  <2>10. UpToDate(p)'
    BY <2>1, <2>2, <2>4, <2>5, <2>8, <2>9, <1>6 DEF UpToDate, Clean
  <2>11. left' = None => OnlyTheBranch(p)'
    BY <2>1, <2>9 DEF OnlyTheBranch, HasRead, s
  <2>12. QED
    BY <2>5, <2>10, <2>11 DEF Current
<1>9. QED
  BY <1>4, <1>7, <1>8 DEF HasSeen

\* A compute returns, and what it returned is kept or handed to its reader.
LEMMA EvaluatedKeeps == ASSUME IInv, Evaluated PROVE IInv'
<1> DEFINE L == Len(gets)
           callers == SubSeq(gets, 1, L - 1)
<1>0. PICK p : p = Last(gets)
  OBVIOUS
<1>1. PICK v : v = Apply(p, seen[p])
  OBVIOUS
<1>2. GraphTypeOK /\ gets # <<>> /\ NextRead(p) = None
  BY <1>0 DEF Evaluated, IInv
<1>3. /\ p \in Computed /\ dirty[p] /\ HasSeen(p)
      /\ \A i \in 1..L : i # L => gets[i] # p
      /\ L \in 1..L /\ L \in Nat /\ p = gets[L] /\ \A i \in 1..L : gets[i] \in Computed
  BY <1>0, <1>2, Innermost, StackTypes
<1>4. /\ value' = [value EXCEPT ![p] = v]
      /\ dirty' = [dirty EXCEPT ![p] = FALSE]
      /\ gets' = callers /\ seen' = Given(v, callers)
      /\ UNCHANGED <<edges, left, frames, made, lost>>
  BY <1>0, <1>1 DEF Evaluated, history
<1>5. v \in Values /\ Current(p)'
  <2>1. left = None => \A n \in Nodes : <<n, p>> \in edges => HasRead(p, n)
    BY <1>3 DEF IInv, OnlyItsReads
  <2>2. QED
    BY <2>1, <1>1, <1>2, <1>3, <1>4, ReturnsRight
<1>6. /\ callers \in Seq(Computed) /\ Len(callers) = L - 1
      /\ \A i \in 1..(L - 1) : callers[i] = gets[i]
  <2>1. gets \in Seq(Computed)
    BY <1>2 DEF GraphTypeOK
  <2>2. QED
    BY <2>1, <1>2, Popped
<1> HIDE DEF callers, L
<1>7. /\ value' \in [Nodes -> Values] /\ value'[p] = v
      /\ \A n \in Nodes : n # p => value'[n] = value[n]
      /\ dirty' \in [Computed -> BOOLEAN] /\ ~dirty'[p]
      /\ \A d \in Computed : d # p => dirty'[d] = dirty[d]
  BY <1>2, <1>3, <1>4, <1>5 DEF GraphTypeOK, Nodes
<1>8. ~Clean(p) /\ Clean(p)'
  BY <1>3, <1>7, NodesAssumption DEF Clean
<1>9. \A n \in Nodes : Clean(n) => n # p /\ Clean(n)' /\ value'[n] = value[n]
  <2>1. \A n \in Nodes : Clean(n) => n # p
    BY <1>8
  <2>2. QED
    BY <2>1, <1>7 DEF Clean
\* The compute that waits for p is given its value.
<1>10. /\ seen' \in [Computed -> Seq(Values)]
       /\ \A i \in 1..(L - 1), g \in Computed : g = gets[i] => HasSeen(g)'
       /\ \A i \in 1..(L - 1), g \in Computed : i # L - 1 /\ g = gets[i] => seen'[g] = seen[g]
       /\ \A g \in Computed : L - 1 \in 1..L /\ g = gets[L - 1] =>
            \A n : HasRead(g, n) \/ n = p => HasRead(g, n)'
  <2>1. \A i \in 1..L, g \in Computed : g = gets[i] => HasSeen(g)
    BY DEF IInv, Evaluating, L
  <2>2. CASE callers = <<>>
    <3>1. L - 1 = 0
      BY <2>2, <1>6, LenProperties, EmptySeq
    <3>2. seen' = seen
      BY <2>2, <1>4 DEF Given
    <3>3. L - 1 \notin 1..L /\ \A i \in 1..(L - 1) : FALSE
      BY <3>1
    <3>4. QED
      BY <3>2, <3>3, <1>2 DEF GraphTypeOK
  <2>3. CASE callers # <<>>
    <3>1. L - 1 \in 1..L /\ L - 1 \in 1..(L - 1) /\ L \in Nat
      <4>1. Len(callers) # 0
        BY <2>3, <1>6, LenProperties, EmptySeq
      <4>2. QED
        BY <4>1, <1>3, <1>6
    <3>2. PICK q : q = gets[L - 1]
      OBVIOUS
    <3>3. q \in Computed /\ q # p /\ HasSeen(q) /\ q = Last(callers)
      <4>1. q \in Computed /\ q # p
        BY <3>1, <3>2, <1>3
      <4>2. HasSeen(q)
        BY <3>1, <3>2, <4>1, <2>1
      <4>3. Last(callers) = gets[L - 1]
        BY <3>1, <1>6 DEF Last
      <4>4. QED
        BY <4>1, <4>2, <4>3, <3>2
    <3>4. p = NextRead(q) /\ <<p, q>> \in edges
      <4>1. L - 1 + 1 = L
        BY <3>1
      <4>2. \A i \in 1..L, g, n \in Computed :
              i + 1 \in 1..L /\ g = gets[i] /\ n = gets[i + 1] => n = NextRead(g) /\ <<n, g>> \in edges
        BY DEF IInv, Waiting, L
      <4>3. QED
        BY <4>1, <4>2, <3>1, <3>2, <3>3, <1>3
    <3>5. seen' = [seen EXCEPT ![q] = Append(@, v)] /\ seen[q] \in Seq(Values)
      BY <2>3, <3>3, <1>2, <1>4 DEF Given, GraphTypeOK
    <3>6. Append(seen[q], v) \in Seq(Values)
      BY <3>5, <1>5, AppendProperties
    <3>7. /\ seen' \in [Computed -> Seq(Values)] /\ seen'[q] = Append(seen[q], v)
          /\ \A g \in Computed : g # q => seen'[g] = seen[g]
      BY <3>3, <3>5, <3>6, <1>2 DEF GraphTypeOK
    <3>8. HasSeen(q)'
      <4>1. \A n : n = NextRead(q) => Clean(n)' /\ <<n, q>> \in edges' /\ value'[n] = v
        BY <3>4, <1>4, <1>7, <1>8
      <4>2. NextRead(q) # None
        BY <3>4, <1>3, NodesAssumption DEF Nodes
      <4>3. \A n \in Nodes : <<n, q>> \in edges => <<n, q>> \in edges'
        BY <1>4
      <4>4. QED
        BY <4>1, <4>2, <4>3, <3>3, <3>7, <1>2, <1>5, <1>9, SeesMore
    <3>9. \A g \in Computed : g # q /\ HasSeen(g) => HasSeen(g)'
      <4>1. \A g \in Computed, n \in Nodes : <<n, g>> \in edges => <<n, g>> \in edges'
        BY <1>4
      <4>2. QED
        BY <4>1, <3>7, <1>9, HasSeenKept
    <3>10. \A i \in 1..(L - 1) : i # L - 1 => gets[i] # q
      <4>1. \A i, j \in 1..L : i < j => Rank[gets[j]] < Rank[gets[i]]
        BY DEF IInv, Descending, L
      <4>2. ASSUME NEW i \in 1..(L - 1), i # L - 1 PROVE gets[i] # q
        <5>1. i \in 1..L /\ i < L - 1
          BY <4>2, <3>1
        <5>2. Rank[q] < Rank[gets[i]] /\ Rank[q] \in Nat
          BY <5>1, <4>1, <3>1, <3>2, <3>3, RankAssumption DEF Nodes
        <5>3. QED
          BY <5>2
      <4>3. QED
        BY <4>2
    <3>11. \A i \in 1..(L - 1), g \in Computed : g = gets[i] => HasSeen(g)'
      <4>1. ASSUME NEW i \in 1..(L - 1), NEW g \in Computed, g = gets[i] PROVE HasSeen(g)'
        <5>1. i \in 1..L
          BY <3>1
        <5>2. HasSeen(g)
          BY <5>1, <4>1, <2>1
        <5>3. QED
          BY <5>2, <3>8, <3>9
      <4>2. QED
        BY <4>1
    <3>12. ASSUME NEW n, HasRead(q, n) \/ n = p PROVE HasRead(q, n)'
      <4>1. HasRead(q, n) \/ n = NextRead(q)
        BY <3>4, <3>12
      <4>2. NextRead(q) # None
        BY <3>4, <1>3, NodesAssumption DEF Nodes
      <4>3. QED
        BY <4>1, <4>2, <3>3, <3>7, <1>2, <1>5, ReadsMore
    <3>13. QED
      BY <3>2, <3>7, <3>10, <3>11, <3>12
  <2>4. QED
    BY <2>2, <2>3
<1>11. GraphTypeOK'
  <2>1. gets' \in Seq(Computed)
    BY <1>4, <1>6
  <2>2. QED
    BY <2>1, <1>2, <1>4, <1>7, <1>10 DEF GraphTypeOK
<1>12. Len(gets') = L - 1 /\ (\A i \in 1..(L - 1) : gets'[i] = gets[i]) /\ (\A i \in 1..(L - 1) : i \in 1..L /\ i # L)
  BY <1>3, <1>4, <1>6
<1>13. Evaluating'
  <2>1. \A i \in 1..L, g \in Computed : g = gets[i] => dirty[g]
    BY DEF IInv, Evaluating, L
  <2>2. ASSUME NEW i \in 1..Len(gets'), NEW g \in Computed, g = gets'[i] PROVE dirty'[g] /\ HasSeen(g)'
    <3>1. i \in 1..(L - 1) /\ g = gets[i]
      BY <2>2, <1>12
    <3>2. dirty[g] /\ g # p
      BY <3>1, <2>1, <1>3, <1>12
    <3>3. QED
      BY <3>1, <3>2, <1>7, <1>10
  <2>3. QED
    BY <2>2 DEF Evaluating
<1>14. Waiting'
  <2>1. \A i \in 1..L, g, n \in Computed :
          i + 1 \in 1..L /\ g = gets[i] /\ n = gets[i + 1] => n = NextRead(g) /\ <<n, g>> \in edges
    BY DEF IInv, Waiting, L
  <2>2. ASSUME NEW i \in 1..Len(gets'), NEW g \in Computed, NEW n \in Computed,
               i + 1 \in 1..Len(gets'), g = gets'[i], n = gets'[i + 1]
        PROVE  n = NextRead(g)' /\ <<n, g>> \in edges'
    <3>1. i \in 1..(L - 1) /\ i + 1 \in 1..(L - 1) /\ i # L - 1 /\ g = gets[i] /\ n = gets[i + 1]
      BY <2>2, <1>3, <1>12
    <3>2. n = NextRead(g) /\ <<n, g>> \in edges
      BY <3>1, <2>1, <1>12
    <3>3. NextRead(g)' = NextRead(g)
      BY <3>1, <1>10 DEF NextRead
    <3>4. QED
      BY <3>2, <3>3, <1>4
  <2>3. QED
    BY <2>2 DEF Waiting
<1>15. Descending'
  <2>1. \A i, j \in 1..L : i < j => Rank[gets[j]] < Rank[gets[i]]
    BY DEF IInv, Descending, L
  <2>2. QED
    BY <2>1, <1>12 DEF Descending
<1>16. CleanIsCurrent'
  <2>1. ASSUME NEW d \in Computed, ~dirty'[d], ~Lost(d)', d # p PROVE Current(d)' \/ Coming(d)'
    <3>1. ~dirty[d] /\ ~Lost(d)
      BY <2>1, <1>4, <1>7 DEF Lost
    <3>2. CASE Current(d)
      <4>1. \A n \in ReadsOf(d) : Clean(n)' /\ value'[n] = value[n] /\ <<n, d>> \in edges'
        BY <3>2, <1>2, <1>4, <1>9, ReadsAreNodes DEF Current, UpToDate
      <4>2. value'[d] = value[d]
        BY <2>1, <1>7 DEF Nodes
      <4>3. left' = left /\ edges' = edges
        BY <1>4
      <4>4. QED
        BY <3>2, <4>1, <4>2, <4>3, UpToDateKept
    <3>3. CASE Coming(d)
      BY <3>3, <1>4 DEF Coming
    <3>4. QED
      BY <3>1, <3>2, <3>3 DEF IInv, CleanIsCurrent
  <2>2. QED
    BY <2>1, <1>5 DEF CleanIsCurrent
<1>17. InHooks(frames)'
  BY <1>4 DEF IInv, InHooks
<1>18. OnlyItsReads'
  <2>1. left = None => \A i \in 1..L, g \in Computed, n \in Nodes :
          g = gets[i] /\ <<n, g>> \in edges =>
            HasRead(g, n) \/ (i + 1 \in 1..L /\ n = gets[i + 1])
    BY DEF IInv, OnlyItsReads, L
  <2>2. ASSUME left = None, NEW i \in 1..(L - 1), NEW g \in Computed, NEW n \in Nodes,
               g = gets[i], <<n, g>> \in edges
        PROVE  HasRead(g, n)' \/ (i + 1 \in 1..(L - 1) /\ n = gets[i + 1])
    <3>1. i \in 1..L /\ (HasRead(g, n) \/ (i + 1 \in 1..L /\ n = gets[i + 1]))
      BY <2>1, <2>2, <1>12
    <3>2. CASE i = L - 1
      <4>1. i + 1 = L
        BY <3>2, <1>3
      <4>2. HasRead(g, n) \/ n = p
        BY <3>1, <4>1, <1>3
      <4>3. QED
        BY <4>2, <3>1, <3>2, <2>2, <1>10
    <3>3. CASE i # L - 1
      <4>1. seen'[g] = seen[g]
        BY <3>3, <2>2, <1>10
      <4>2. i + 1 \in 1..(L - 1)
        BY <3>3, <2>2, <1>3
      <4>3. QED
        BY <4>1, <4>2, <3>1 DEF HasRead
    <3>4. QED
      BY <3>2, <3>3
  <2>3. left' = left /\ edges' = edges
    BY <1>4
  <2>4. ASSUME left' = None, NEW i \in 1..Len(gets'), NEW g \in Computed, NEW n \in Nodes,
               g = gets'[i], <<n, g>> \in edges'
        PROVE  HasRead(g, n)' \/ (i + 1 \in 1..Len(gets') /\ n = gets'[i + 1])
    <3>1. i \in 1..(L - 1) /\ g = gets[i] /\ <<n, g>> \in edges /\ left = None
      BY <2>3, <2>4, <1>12
    <3>2. HasRead(g, n)' \/ (i + 1 \in 1..(L - 1) /\ n = gets[i + 1])
      BY <3>1, <2>2
    <3>3. QED
      BY <3>2, <1>12
  <2>5. QED
    BY <2>4 DEF OnlyItsReads
<1>19. QED
  BY <1>11, <1>13, <1>14, <1>15, <1>16, <1>17, <1>18 DEF IInv

-----------------------------------------------------------------------------
(* Steps between evaluations.                                              *)

\* With no evaluation under way the stack of evaluations needs no care.
LEMMA Calm == ASSUME gets' = <<>>, GraphTypeOK', InHooks(frames)', CleanIsCurrent'
              PROVE  IInv'
<1>1. Len(gets') = 0
  BY LenProperties, EmptySeq
<1>2. Evaluating' /\ Waiting' /\ Descending' /\ OnlyItsReads'
  BY <1>1 DEF Evaluating, Waiting, Descending, OnlyItsReads
<1>3. QED
  BY <1>2 DEF IInv

\* A panic unwinds every evaluation and every call, and what was clean stays
\* clean: up to date, or lost to the invalidation that was on its way to it.
LEMMA PanicKeeps == ASSUME IInv, Panic PROVE IInv'
<1>1. gets # <<>> /\ left' = Last(gets) /\ gets' = <<>> /\ frames' = <<>>
  BY DEF Panic
<1>2. UNCHANGED <<value, dirty, edges, seen, made>>
  BY DEF Panic
<1>3. left' \in Computed
  BY <1>1, Innermost
<1>4. InHooks(frames)' /\ \A i \in 1..Len(frames') : frames'[i].pc # "loop" => frames'[i].n \in Aggs
  <2>1. Len(frames') = 0
    BY <1>1, EmptySeq, LenProperties
  <2>2. QED
    BY <2>1 DEF InHooks
<1>5. GraphTypeOK'
  <2>1. gets' \in Seq(Computed) /\ frames' \in Seq(Frame)
    BY <1>1, EmptySeq
  <2>2. QED
    BY <2>1, <1>2, <1>3, <1>4 DEF GraphTypeOK, IInv
<1>6. CleanIsCurrent'
  <2>1. left' # None
    BY <1>3, NodesAssumption DEF Nodes
  <2>2. ASSUME NEW d \in Computed, ~dirty'[d], ~Lost(d)' PROVE Current(d)'
    <3>1. ~dirty[d] /\ ~Lost(d) /\ ~Coming(d)
      BY <2>1, <2>2, <1>2 DEF Panic, Lost
    <3>2. Current(d)
      BY <3>1 DEF IInv, CleanIsCurrent
    <3>3. QED
      BY <3>2, <2>1, <1>2 DEF Current, UpToDate, ReadsOf, Clean
  <2>3. QED
    BY <2>2 DEF CleanIsCurrent
<1>7. QED
  BY <1>1, <1>4, <1>5, <1>6, Calm

\* Only aggregates have hooks under way, the innermost call taken away.
LEMMA HooksPop == ASSUME frames \in Seq(Frame), frames # <<>>, InHooks(frames)
                  PROVE  InHooks(Below) /\ (Top.pc # "loop" => Top.n \in Aggs /\ Top.todo = {})
<1>1. /\ Len(frames) \in Nat \ {0} /\ Len(Below) = Len(frames) - 1
      /\ \A i \in 1..(Len(frames) - 1) : Below[i] = frames[i]
  BY Popped DEF Below
<1>2. Len(frames) \in 1..Len(frames) /\ \A i \in 1..(Len(frames) - 1) : i \in 1..Len(frames)
  BY <1>1
<1>3. QED
  BY <1>1, <1>2 DEF InHooks, Top, Last

\* Only aggregates have hooks under way, a call added.
LEMMA HooksPush == ASSUME NEW fs \in Seq(Frame), NEW f \in Frame, InHooks(fs),
                          f.pc # "loop" => f.n \in Aggs /\ f.todo = {}
                   PROVE  InHooks(Append(fs, f))
<1> DEFINE r == Append(fs, f)
<1>1. /\ Len(r) = Len(fs) + 1 /\ Len(fs) \in Nat
      /\ \A i \in 1..Len(fs) : r[i] = fs[i]
      /\ r[Len(fs) + 1] = f
  BY AppendProperties, LenProperties
<1> HIDE DEF r
<1>2. \A i \in 1..Len(r) : i \in 1..Len(fs) \/ i = Len(fs) + 1
  BY <1>1
<1>3. InHooks(r)
  BY <1>1, <1>2 DEF InHooks
<1>4. QED
  BY <1>3 DEF r

\* Between evaluations, a read is recorded for no one or for what a panic left.
LEMMA RecordKeeps ==
  ASSUME IInv, gets = <<>>, edges' = edges \/ \E n \in Nodes : edges' = Record(n)
  PROVE  /\ edges' \subseteq Nodes \X Computed /\ edges \subseteq edges'
         /\ left = None => edges' = edges
<1>1. Reader = left /\ left \in Computed \cup {None} /\ edges \subseteq Nodes \X Computed
  BY DEF Reader, IInv, GraphTypeOK
<1>2. ASSUME NEW n \in Nodes, edges' = Record(n)
      PROVE  /\ edges' \subseteq Nodes \X Computed /\ edges \subseteq edges'
             /\ left = None => edges' = edges
  BY <1>1, <1>2 DEF Record
<1>3. QED
  BY <1>1, <1>2

\* A step of the stack of calls alone, but for a read it may record.
LEMMA FramesStep ==
  ASSUME IInv, gets = <<>>, UNCHANGED <<value, dirty, gets, seen, left, lost>>, made' \subseteq Aggs,
         edges' = edges \/ \E n \in Nodes : edges' = Record(n),
         frames' \in Seq(Frame), InHooks(frames'),
         \A d \in Computed : ~dirty[d] /\ Awaited(frames, edges, d) => Awaited(frames', edges, d)
  PROVE  IInv'
<1>1. /\ edges' \subseteq Nodes \X Computed /\ edges \subseteq edges'
      /\ left = None => edges' = edges
  BY RecordKeeps
<1>2. GraphTypeOK'
  BY <1>1 DEF IInv, GraphTypeOK, InHooks
<1>3. InHooks(frames)'
  BY DEF InHooks
<1>4. CleanIsCurrent'
  <2>1. ASSUME NEW d \in Computed, ~dirty[d], Awaited(frames, edges, d)
        PROVE  Awaited(frames', edges', d)
    <3>1. PICK fs : fs = frames'
      OBVIOUS
    <3>2. PICK es : es = edges'
      OBVIOUS
    <3>3. fs \in Seq(Frame) /\ edges \subseteq es /\ Awaited(fs, edges, d)
      BY <1>1, <2>1, <3>1, <3>2
    <3>4. Awaited(fs, es, d)
      BY <3>3, AwaitedMore
    <3>5. QED
      BY <3>1, <3>2, <3>4
  <2>2. \A n \in Nodes, d \in Computed : ~dirty[d] /\ <<n, d>> \in edges => <<n, d>> \in edges'
    BY <1>1
  <2>3. left' = None => /\ left = None
                        /\ \A n \in Nodes, d \in Computed :
                             ~dirty[d] /\ <<n, d>> \in edges' => <<n, d>> \in edges
    BY <1>1
  <2>4. UNCHANGED <<value, dirty, lost>>
    OBVIOUS
  <2>5. QED
    BY <2>1, <2>2, <2>3, <2>4, GraphKept
<1>5. QED
  BY <1>2, <1>3, <1>4, Calm

\* What InFrame gives.
LEMMA Framed == ASSUME IInv, NEW pc, InFrame(pc)
                PROVE  /\ gets = <<>> /\ frames # <<>> /\ Top.pc = pc /\ Top \in Frame
                       /\ frames \in Seq(Frame) /\ Below \in Seq(Frame) /\ InHooks(Below)
                       /\ pc # "loop" => Top.n \in Aggs /\ Top.todo = {}
                       /\ \A es, c : Awaited(frames, es, c) <=> Awaited(Below, es, c) \/ Awaits(Top, es, c)
<1>1. gets = <<>> /\ frames # <<>> /\ Top.pc = pc /\ frames \in Seq(Frame) /\ InHooks(frames)
  BY DEF InFrame, IInv, GraphTypeOK
<1>2. Below \in Seq(Frame) /\ Top \in Frame
      /\ \A es, c : Awaited(frames, es, c) <=> Awaited(Below, es, c) \/ Awaits(Top, es, c)
  BY <1>1, AwaitedPop
<1>3. InHooks(Below) /\ (Top.pc # "loop" => Top.n \in Aggs /\ Top.todo = {})
  BY <1>1, HooksPop
<1>4. QED
  BY <1>1, <1>2, <1>3

\* An invalidation has walked the dependents of its node.
LEMMA WalkedKeeps == ASSUME IInv, Walked PROVE IInv'
<1>1. InFrame("loop") /\ Top.todo = {} /\ frames' = Below
  BY DEF Walked
<1>2. UNCHANGED <<value, dirty, edges, gets, seen, left, made, lost>>
  BY DEF Walked, history
<1>3. /\ gets = <<>> /\ Below \in Seq(Frame) /\ InHooks(Below) /\ Top.pc = "loop"
      /\ \A es, c : Awaited(frames, es, c) <=> Awaited(Below, es, c) \/ Awaits(Top, es, c)
  BY <1>1, Framed
<1>4. \A c : ~Awaits(Top, edges, c)
  BY <1>1, <1>3 DEF Awaits
<1> DEFINE fs == Below
<1>5. fs \in Seq(Frame) /\ InHooks(fs) /\ frames' = fs /\ \A c : Awaited(frames, edges, c) => Awaited(fs, edges, c)
  BY <1>1, <1>3, <1>4
<1> HIDE DEF fs
<1>6. made' \subseteq Aggs
  BY <1>2 DEF IInv, GraphTypeOK
<1>7. frames' \in Seq(Frame) /\ InHooks(frames') /\ \A d \in Computed : Awaited(frames, edges, d) => Awaited(frames', edges, d)
  BY <1>5
<1>8. QED
  BY <1>2, <1>3, <1>6, <1>7, FramesStep

\* validate.All is made.
LEMMA AllKeeps == ASSUME IInv, NEW a \in Aggs, All(a) PROVE IInv'
<1>1. gets = <<>> /\ frames = <<>> /\ made' = made \cup {a}
  BY DEF All, Quiet
<1>2. UNCHANGED <<value, dirty, edges, gets, seen, left, lost>>
  BY DEF All, history
<1> DEFINE f == Call(a, "get", {})
<1>3. f \in Frame /\ f.n = a /\ f.todo = {}
  BY AggsAssumption DEF Call, Frame, Nodes
<1>4. frames' = <<f>>
  BY DEF All
<1> HIDE DEF f
<1>5. frames' \in Seq(Frame) /\ InHooks(frames')
  <2>1. <<f>> \in Seq(Frame) /\ Len(<<f>>) = 1 /\ <<f>>[1] = f
    BY <1>3
  <2>2. InHooks(<<f>>)
    BY <2>1, <1>3 DEF InHooks
  <2>3. QED
    BY <2>1, <2>2, <1>4
<1>6. made' \subseteq Aggs
  BY <1>1 DEF IInv, GraphTypeOK
<1>7. \A d \in Computed : ~Awaited(frames, edges, d)
  BY <1>1, AwaitedNone
<1>8. QED
  BY <1>1, <1>2, <1>5, <1>6, <1>7, FramesStep

\* The innermost call goes on as g.
LEMMA TopGoesOn ==
  ASSUME IInv, NEW pc, InFrame(pc), UNCHANGED <<value, dirty, gets, seen, left, made, lost>>,
         edges' = edges \/ \E n \in Nodes : edges' = Record(n),
         NEW g \in Frame, g.pc # "loop" => g.n \in Aggs /\ g.todo = {},
         frames' = Append(Below, g),
         \A d \in Computed : ~dirty[d] /\ Awaits(Top, edges, d) => Awaits(g, edges, d)
  PROVE  IInv'
<1>1. /\ gets = <<>> /\ Below \in Seq(Frame) /\ InHooks(Below)
      /\ \A es, c : Awaited(frames, es, c) <=> Awaited(Below, es, c) \/ Awaits(Top, es, c)
  BY Framed
<1>2. PICK b : b = Below
  OBVIOUS
<1>3. /\ Append(b, g) \in Seq(Frame)
      /\ \A es, c : Awaited(Append(b, g), es, c) <=> Awaited(b, es, c) \/ Awaits(g, es, c)
  BY <1>1, <1>2, AwaitedAppend
<1>4. InHooks(Append(b, g))
  BY <1>1, <1>2, HooksPush
<1>5. PICK fs : fs = Append(b, g)
  OBVIOUS
<1>6. frames' = fs /\ fs \in Seq(Frame) /\ InHooks(fs)
  BY <1>2, <1>3, <1>4, <1>5
<1>7. \A d \in Computed : ~dirty[d] /\ Awaited(frames, edges, d) => Awaited(fs, edges, d)
  BY <1>1, <1>2, <1>3, <1>5
<1>8. made' \subseteq Aggs
  BY DEF IInv, GraphTypeOK
<1>9. frames' \in Seq(Frame) /\ InHooks(frames')
      /\ \A d \in Computed : ~dirty[d] /\ Awaited(frames, edges, d) => Awaited(frames', edges, d)
  BY <1>6, <1>7
<1>10. QED
  BY <1>1, <1>8, <1>9, FramesStep

\* A hook returns.
LEMMA HookReturnsKeeps == ASSUME IInv, HookReturns PROVE IInv'
<1>1. InFrame("through") /\ UNCHANGED <<value, dirty, edges, gets, seen, left, made, lost>>
  BY DEF HookReturns, history
<1>2. Top \in Frame /\ Top.pc = "through" /\ Top.todo = {}
  BY <1>1, Framed
<1>3. PICK g : g = Call(Top.n, "loop", Dependents(Top.n))
  OBVIOUS
<1>4. g \in Frame /\ g.pc = "loop" /\ g.todo = Dependents(Top.n)
  BY <1>2, <1>3 DEF Call, Frame, Dependents
<1>5. frames' = Append(Below, g)
  BY <1>3 DEF HookReturns
<1>6. \A d \in Computed : Awaits(Top, edges, d) => Awaits(g, edges, d)
  BY <1>2, <1>4 DEF Awaits, Dependents
<1>7. QED
  BY <1>1, <1>4, <1>5, <1>6, TopGoesOn

\* A source has a value assigned, and its dependents are to be told: those it
\* had, and the one that its Get may have recorded just before.
LEMMA AssignKeeps ==
  ASSUME IInv, gets = <<>>, NEW s \in Sources, NEW v \in Values, NEW es, edges' = es,
         edges' = edges \/ \E n \in Nodes : edges' = Record(n),
         NEW below \in Seq(Frame), InHooks(below), Assign(s, v, es, below),
         \A d \in Computed : Awaited(frames, edges, d) => Awaited(below, edges, d)
  PROVE  IInv'
<1> DEFINE told == {c \in Computed : <<s, c>> \in es}
<1>1. /\ value' = [value EXCEPT ![s] = v]
      /\ frames' = Append(below, Call(s, "loop", told))
      /\ UNCHANGED <<dirty, gets, seen, left, made, lost>>
  BY DEF Assign, history
<1>2. PICK f : f = Call(s, "loop", told)
  OBVIOUS
<1>3. f \in Frame /\ f.pc = "loop" /\ f.todo = told
  BY <1>2 DEF Call, Frame, Nodes
<1>4. /\ Append(below, f) \in Seq(Frame) /\ InHooks(Append(below, f))
      /\ \A ds, c : Awaited(Append(below, f), ds, c) <=> Awaited(below, ds, c) \/ Awaits(f, ds, c)
  BY <1>3, AwaitedAppend, HooksPush
<1>5. frames' = Append(below, f)
  BY <1>1, <1>2
<1>6. /\ value' \in [Nodes -> Values]
      /\ \A n \in Nodes : n # s => value'[n] = value[n]
  BY <1>1 DEF IInv, GraphTypeOK, Nodes
<1>7. frames' \in Seq(Frame) /\ InHooks(frames')
  BY <1>4, <1>5
<1>8. es \subseteq Nodes \X Computed /\ edges \subseteq es /\ (left = None => es = edges)
  BY RecordKeeps
<1>9. GraphTypeOK'
  BY <1>1, <1>6, <1>7, <1>8 DEF IInv, GraphTypeOK, InHooks
<1>10. CleanIsCurrent'
  <2>1. ASSUME NEW d \in Computed, ~dirty'[d], ~Lost(d)' PROVE Current(d)' \/ Coming(d)'
    <3>1. ~dirty[d] /\ ~Lost(d) /\ d # s
      BY <2>1, <1>1, NodesAssumption DEF Lost
    <3>2. CASE Awaited(frames, edges, d) \/ d \in told
      <4>1. Awaited(below, edges, d) \/ d \in told
        BY <3>2
      <4>2. Awaited(below, es, d) \/ d \in told
        BY <4>1, <1>8, AwaitedMore
      <4>3. Awaits(f, es, d) <=> d \in told
        BY <1>3 DEF Awaits
      <4>4. Awaited(frames', edges', d)
        BY <4>2, <4>3, <1>4, <1>5
      <4>5. QED
        BY <4>4 DEF Coming, Awaited, Awaits
    <3>3. CASE Current(d) /\ d \notin told
      <4>1. s \notin ReadsOf(d)
        BY <3>3, <1>8 DEF Current, UpToDate
      <4>2. \A n \in ReadsOf(d) : Clean(n)' /\ value'[n] = value[n] /\ <<n, d>> \in edges'
        BY <3>3, <4>1, <1>1, <1>6, <1>8, ReadsAreNodes DEF Current, UpToDate, Clean, IInv
      <4>3. value'[d] = value[d]
        BY <3>1, <1>6 DEF Nodes
      <4>4. left' = left /\ (left = None => edges' = edges)
        BY <1>1, <1>8
      <4>5. left' = None => left = None /\ \A n \in Nodes : <<n, d>> \in edges' => <<n, d>> \in edges
        BY <4>4
      <4>6. QED
        BY <3>3, <4>2, <4>3, <4>5, UpToDateKept
    <3>4. QED
      BY <3>1, <3>2, <3>3, ComingIsAwaited DEF IInv, CleanIsCurrent
  <2>2. QED
    BY <2>1 DEF CleanIsCurrent
<1>11. QED
  BY <1>1, <1>7, <1>9, <1>10, Calm DEF InHooks

\* The host Sets a source.
LEMMA HostSetsKeeps == ASSUME IInv, NEW s \in Sources, NEW v \in Values, HostSets(s, v) PROVE IInv'
<1>1. gets = <<>> /\ frames = <<>> /\ Assign(s, v, edges, <<>>) /\ edges' = edges
  BY DEF HostSets, Quiet
<1>2. <<>> \in Seq(Frame) /\ InHooks(<<>>)
  BY EmptySeq, LenProperties DEF InHooks
<1>3. \A d \in Computed : Awaited(frames, edges, d) => Awaited(<<>>, edges, d)
  BY <1>1
<1>4. PICK es : es = edges
  OBVIOUS
<1>5. Assign(s, v, es, <<>>) /\ edges' = es
  BY <1>1, <1>4
<1>6. QED
  BY <1>1, <1>2, <1>3, <1>5, AssignKeeps

\* The hook compares the aggregate with out, and Sets out if they differ.
LEMMA HookComparesKeeps == ASSUME IInv, HookCompares PROVE IInv'
<1>1. InFrame("compare")
  BY DEF HookCompares
<1>2. /\ gets = <<>> /\ Below \in Seq(Frame) /\ InHooks(Below)
      /\ Top \in Frame /\ Top.pc = "compare" /\ Top.n \in Aggs /\ Top.todo = {}
      /\ \A es, c : Awaited(frames, es, c) <=> Awaited(Below, es, c) \/ Awaits(Top, es, c)
  BY <1>1, Framed
<1>3. PICK a, b, g : a = Top.n /\ b = Below /\ g = [Top EXCEPT !.pc = "through"]
  OBVIOUS
<1>4. g \in Frame /\ g.pc = "through" /\ g.n = a /\ a \in Aggs /\ g.todo = {}
  BY <1>2, <1>3 DEF Frame
<1>5. \A d : Awaits(Top, edges, d) <=> Awaits(g, edges, d)
  BY <1>2, <1>3, <1>4 DEF Awaits
<1>6. OutOf[a] \in Sources /\ OutOf[a] \in Nodes /\ value[a] \in Values
  BY <1>4, AggsAssumption DEF IInv, GraphTypeOK, Nodes
<1>7. /\ edges' = Record(OutOf[a])
      /\ IF value[a] # value[OutOf[a]]
         THEN Assign(OutOf[a], value[a], Record(OutOf[a]), Append(b, g))
         ELSE frames' = Append(b, g) /\ UNCHANGED <<value, dirty, gets, seen, left, made, lost>>
  BY <1>3 DEF HookCompares, history
<1>8. edges' = edges \/ \E n \in Nodes : edges' = Record(n)
  BY <1>6, <1>7
<1>9. CASE value[a] # value[OutOf[a]]
  <2>1. /\ Append(b, g) \in Seq(Frame) /\ InHooks(Append(b, g))
        /\ \A es, c : Awaited(Append(b, g), es, c) <=> Awaited(b, es, c) \/ Awaits(g, es, c)
    BY <1>2, <1>3, <1>4, AwaitedAppend, HooksPush
  <2>2. PICK fs : fs = Append(b, g)
    OBVIOUS
  <2>3. \A d \in Computed : Awaited(frames, edges, d) => Awaited(fs, edges, d)
    BY <1>2, <1>3, <1>5, <2>1, <2>2
  <2>4. PICK s \in Sources, v \in Values : s = OutOf[a] /\ v = value[a]
    BY <1>6
  <2>5. PICK es : es = Record(OutOf[a])
    OBVIOUS
  <2>6. Assign(s, v, es, fs) /\ edges' = es /\ fs \in Seq(Frame) /\ InHooks(fs)
    BY <1>7, <1>9, <2>1, <2>2, <2>4, <2>5
  <2>7. QED
    BY <1>2, <1>8, <2>3, <2>6, AssignKeeps
<1>10. CASE value[a] = value[OutOf[a]]
  <2>1. frames' = Append(Below, g) /\ UNCHANGED <<value, dirty, gets, seen, left, made, lost>>
    BY <1>3, <1>7, <1>10
  <2>2. QED
    BY <2>1, <1>1, <1>4, <1>5, <1>8, TopGoesOn
<1>11. QED
  BY <1>9, <1>10

\* The walk comes to c, which tells its own dependents if it was clean.
LEMMA InvalidateKeeps == ASSUME IInv, Invalidate PROVE IInv'
<1>1. InFrame("loop") /\ UNCHANGED <<value, edges, gets, seen, left, made>>
  BY DEF Invalidate
<1>2. /\ gets = <<>> /\ Below \in Seq(Frame) /\ InHooks(Below) /\ Top \in Frame /\ Top.pc = "loop"
      /\ \A es, c : Awaited(frames, es, c) <=> Awaited(Below, es, c) \/ Awaits(Top, es, c)
  BY <1>1, Framed
<1>3. PICK c \in Computed : Visit(c)
  BY DEF Invalidate
<1>4. PICK b, g : b = Below /\ g = [Top EXCEPT !.todo = @ \ {c}]
  OBVIOUS
<1>5. g \in Frame /\ g.pc = "loop" /\ g.todo = Top.todo \ {c}
  BY <1>2, <1>4 DEF Frame
<1>6. \A d : d # c /\ Awaits(Top, edges, d) => Awaits(g, edges, d)
  BY <1>2, <1>5 DEF Awaits
<1>7. IF dirty[c]
      THEN frames' = Append(b, g) /\ dirty' = dirty /\ lost' = lost
      ELSE /\ frames' = Append(Append(b, g), Enter(c)) /\ dirty' = [dirty EXCEPT ![c] = TRUE]
           /\ lost' = lost \ {c}
  BY <1>3, <1>4 DEF Visit
<1>8. CASE dirty[c]
  <2>1. frames' = Append(Below, g) /\ dirty' = dirty /\ lost' = lost
    BY <1>4, <1>7, <1>8
  <2>2. \A d \in Computed : ~dirty[d] /\ Awaits(Top, edges, d) => Awaits(g, edges, d)
    BY <1>6, <1>8
  <2>3. QED
    BY <2>1, <2>2, <1>1, <1>5, TopGoesOn
<1>9. CASE ~dirty[c]
  <2>1. PICK e : e = Enter(c)
    OBVIOUS
  <2>2. /\ e \in Frame
        /\ e.pc # "loop" => e.n \in Aggs /\ e.todo = {}
        /\ \A d \in Computed : <<c, d>> \in edges => Awaits(e, edges, d)
    <3>1. CASE c \in made
      <4>1. e = Call(c, "get", {}) /\ c \in Aggs
        BY <2>1, <3>1 DEF Enter, IInv, GraphTypeOK
      <4>2. QED
        BY <4>1 DEF Call, Frame, Awaits, Nodes
    <3>2. CASE c \notin made
      <4>1. e = Call(c, "loop", Dependents(c))
        BY <2>1, <3>2 DEF Enter
      <4>2. QED
        BY <4>1 DEF Call, Frame, Awaits, Nodes, Dependents
    <3>3. QED
      BY <3>1, <3>2
  <2>3. /\ Append(b, g) \in Seq(Frame) /\ InHooks(Append(b, g))
        /\ \A es, d : Awaited(Append(b, g), es, d) <=> Awaited(b, es, d) \/ Awaits(g, es, d)
    BY <1>2, <1>4, <1>5, AwaitedAppend, HooksPush
  <2>4. PICK fs : fs = Append(b, g)
    OBVIOUS
  <2>5. /\ Append(fs, e) \in Seq(Frame) /\ InHooks(Append(fs, e))
        /\ \A es, d : Awaited(Append(fs, e), es, d) <=> Awaited(fs, es, d) \/ Awaits(e, es, d)
    BY <2>2, <2>3, <2>4, AwaitedAppend, HooksPush
  <2>6. frames' = Append(fs, e) /\ dirty' = [dirty EXCEPT ![c] = TRUE] /\ lost' = lost \ {c}
    BY <1>7, <1>9, <2>1, <2>4
  <2>7. frames' \in Seq(Frame) /\ InHooks(frames')
    BY <2>5, <2>6
  <2>8. dirty' \in [Computed -> BOOLEAN] /\ dirty'[c] /\ \A d \in Computed : d # c => dirty'[d] = dirty[d]
    BY <2>6 DEF IInv, GraphTypeOK
  <2>9. GraphTypeOK'
    BY <1>1, <2>7, <2>8 DEF IInv, GraphTypeOK, InHooks
  <2>10. CleanIsCurrent'
    <3>1. ASSUME NEW d \in Computed, ~dirty'[d], ~Lost(d)' PROVE Current(d)' \/ Coming(d)'
      <4>1. ~dirty[d] /\ d # c /\ ~Lost(d)
        BY <3>1, <1>1, <2>6, <2>8 DEF Lost
      <4>2. CASE Awaited(frames, edges, d) \/ <<c, d>> \in edges
        <5>1. Awaited(Append(fs, e), edges, d)
          BY <4>1, <4>2, <1>2, <1>4, <1>6, <2>2, <2>3, <2>4, <2>5
        <5>2. Awaited(frames', edges', d)
          BY <5>1, <1>1, <2>6
        <5>3. QED
          BY <5>2 DEF Coming, Awaited, Awaits
      <4>3. CASE Current(d) /\ <<c, d>> \notin edges
        <5>1. \A n \in ReadsOf(d) : n \in Nodes /\ n # c /\ Clean(n) /\ <<n, d>> \in edges
          BY <4>3, ReadsAreNodes DEF Current, UpToDate, IInv
        <5>2. \A n \in ReadsOf(d) : Clean(n)' /\ value'[n] = value[n] /\ <<n, d>> \in edges'
          BY <5>1, <1>1, <2>8 DEF Clean
        <5>3. value'[d] = value[d]
          BY <1>1
        <5>4. left' = left /\ edges' = edges
          BY <1>1
        <5>5. QED
          BY <4>3, <5>2, <5>3, <5>4, UpToDateKept
      <4>4. QED
        BY <4>1, <4>2, <4>3, ComingIsAwaited DEF IInv, CleanIsCurrent
    <3>2. QED
      BY <3>1 DEF CleanIsCurrent
  <2>11. QED
    BY <1>1, <1>2, <2>7, <2>9, <2>10, Calm DEF InHooks
<1>10. QED
  BY <1>8, <1>9

\* A dirty computed begins to be evaluated, while fs stands for what was frames.
LEMMA RootBegins ==
  ASSUME IInv, gets = <<>>, NEW c \in Computed, Begin(c),
         NEW fs \in Seq(Frame), InHooks(fs), frames' = fs, made' = made, lost' = lost,
         \A d \in Computed : d # c /\ Awaited(frames, edges, d) => Awaited(fs, edges, d)
  PROVE  IInv'
<1>1. dirty[c] /\ UNCHANGED <<value, dirty, left, made, made>>
  BY DEF Begin
<1>2. /\ gets' \in Seq(Computed) /\ seen' \in [Computed -> Seq(Values)]
      /\ edges' \subseteq Nodes \X Computed
      /\ \A m \in Nodes, d \in Computed : d # c /\ <<m, d>> \in edges => <<m, d>> \in edges'
      /\ left' = None => /\ left = None
                         /\ \A m \in Nodes, d \in Computed :
                              ~dirty[d] /\ <<m, d>> \in edges' => <<m, d>> \in edges
      /\ Evaluating' /\ Waiting' /\ Descending' /\ OnlyItsReads'
  BY BeginNests
<1>3. GraphTypeOK'
  BY <1>1, <1>2 DEF IInv, GraphTypeOK, InHooks
<1>4. CleanIsCurrent'
  <2>1. ASSUME NEW d \in Computed, ~dirty[d], Awaited(frames, edges, d)
        PROVE  Awaited(frames', edges', d)
    <3>1. d # c
      BY <2>1, <1>1
    <3>2. Awaited(fs, edges, d)
      BY <2>1, <3>1
    <3>3. Awaited(fs, edges', d)
      BY <3>1, <3>2, <1>2, AwaitedMore
    <3>4. QED
      BY <3>3
  <2>2. \A m \in Nodes, d \in Computed : ~dirty[d] /\ <<m, d>> \in edges => <<m, d>> \in edges'
    BY <1>1, <1>2
  <2>3. UNCHANGED <<value, dirty, lost>>
    BY <1>1
  <2>4. QED
    BY <2>1, <2>2, <2>3, <1>2, GraphKept
<1>5. QED
  BY <1>2, <1>3, <1>4 DEF IInv, InHooks

\* The hook evaluates its aggregate in the middle of an invalidation.
LEMMA HookGetsKeeps == ASSUME IInv, HookGets PROVE IInv'
<1>1. InFrame("get") /\ Begin(Top.n) /\ made' = made /\ lost' = lost
  BY DEF HookGets, history
<1>2. /\ gets = <<>> /\ frames # <<>> /\ frames \in Seq(Frame)
      /\ Top \in Frame /\ Top.pc = "get" /\ Top.n \in Aggs
  BY <1>1, Framed
<1>3. PICK c \in Computed : c = Top.n
  BY <1>2, AggsAssumption
<1>4. PICK f : f = Forgotten(c)
  OBVIOUS
<1> DEFINE L == Len(frames)
           fs == [f EXCEPT ![Len(f)].pc = "compare"]
<1>5. frames' = fs
  BY <1>3, <1>4 DEF HookGets
<1>6. /\ f \in Seq(Frame) /\ Len(f) = L
      /\ \A i \in 1..L : f[i] = [frames[i] EXCEPT !.todo = @ \ {c}]
      /\ \A es, d : d # c /\ Awaited(frames, es, d) => Awaited(f, es, d)
  BY <1>2, <1>4, AwaitedForgotten
<1>7. L \in Nat /\ L \in 1..L /\ (\A i \in 1..L : frames[i] \in Frame /\ f[i] \in Frame) /\ Top = frames[L]
  BY <1>2, <1>6, LenProperties, EmptySeq DEF Top, Last
<1>8. f[L].pc = "get" /\ f[L].n = c /\ f[L].n \in Aggs
  BY <1>2, <1>3, <1>6, <1>7 DEF Frame
<1> HIDE DEF L
<1>9. PICK h : h = [f[L] EXCEPT !.pc = "compare"]
  OBVIOUS
<1>10. h \in Frame /\ h.n = f[L].n /\ h.todo = f[L].todo /\ h.pc = "compare"
  <2>1. f[L] \in Frame
    BY <1>7
  <2>2. QED
    BY <2>1, <1>9 DEF Frame
<1>11. fs = [f EXCEPT ![L] = h]
  BY <1>6, <1>9
<1>12. fs \in Seq(Frame) /\ Len(fs) = L /\ fs[L] = h /\ \A i \in 1..L : i # L => fs[i] = f[i]
  <2>1. f \in [1..L -> Frame]
    BY <1>6, LenProperties
  <2>2. fs \in [1..L -> Frame] /\ fs[L] = h /\ \A i \in 1..L : i # L => fs[i] = f[i]
    BY <2>1, <1>7, <1>10, <1>11
  <2> HIDE DEF fs
  <2>3. fs \in Seq(Frame) /\ Len(fs) = L
    BY <2>2, <1>7
  <2>4. QED
    BY <2>2, <2>3
<1> HIDE DEF fs
<1>13. InHooks(fs)
  <2>1. \A i \in 1..L : frames[i].pc # "loop" => frames[i].n \in Aggs /\ frames[i].todo = {}
    BY DEF IInv, InHooks, L
  <2>2. \A i \in 1..L : f[i].pc = frames[i].pc /\ f[i].n = frames[i].n /\ f[i].todo = frames[i].todo \ {c}
    BY <1>6, <1>7 DEF Frame
  <2>3. \A i \in 1..L : f[i].pc # "loop" => f[i].n \in Aggs /\ f[i].todo = {}
    BY <2>1, <2>2
  <2>4. \A i \in 1..L : fs[i].pc # "loop" => fs[i].n \in Aggs /\ fs[i].todo = {}
    BY <2>3, <1>7, <1>8, <1>10, <1>12
  <2>5. QED
    BY <2>4, <1>12 DEF InHooks
<1>14. ASSUME NEW d \in Computed, d # c, Awaited(frames, edges, d) PROVE Awaited(fs, edges, d)
  <2>1. Awaited(f, edges, d)
    BY <1>14, <1>6
  <2>2. PICK i \in 1..L : Awaits(f[i], edges, d)
    BY <2>1, <1>6 DEF Awaited
  <2>3. Awaits(fs[i], edges, d)
    BY <2>2, <1>8, <1>10, <1>12 DEF Awaits
  <2>4. QED
    BY <2>2, <2>3, <1>12 DEF Awaited
<1>15. Begin(c)
  BY <1>1, <1>3
<1>16. QED
  BY <1>1, <1>2, <1>5, <1>12, <1>13, <1>14, <1>15, RootBegins

\* The host Gets a property.
LEMMA HostGetsKeeps == ASSUME IInv, NEW n \in Nodes, HostGets(n) PROVE IInv'
<1>1. gets = <<>> /\ frames = <<>> /\ UNCHANGED <<frames, made, lost>>
  BY DEF HostGets, Quiet, history
<1>2. \A es, c : ~Awaited(frames, es, c)
  BY <1>1, AwaitedNone
<1>3. CASE Begin(n)
  <2>1. n \in Computed
    BY <1>3 DEF Begin
  <2>2. frames \in Seq(Frame) /\ InHooks(frames)
    BY DEF IInv, GraphTypeOK
  <2>3. PICK fs : fs = frames
    OBVIOUS
  <2>4. frames' = fs /\ fs \in Seq(Frame) /\ InHooks(fs)
    BY <1>1, <2>2, <2>3
  <2>5. QED
    BY <2>1, <2>4, <1>1, <1>2, <1>3, RootBegins
<1>4. CASE Read(n)
  <2>1. /\ edges' = Record(n) /\ seen' = seen
        /\ UNCHANGED <<value, dirty, gets, left>>
    BY <1>1, <1>4 DEF Read, Given
  <2>2. edges' \subseteq Nodes \X Computed /\ edges \subseteq edges'
    <3>1. Reader # None => Reader \in Computed
      BY <1>1 DEF Reader, IInv, GraphTypeOK
    <3>2. QED
      BY <3>1, <2>1 DEF Record, IInv, GraphTypeOK
  <2>3. GraphTypeOK'
    BY <1>1, <2>1, <2>2 DEF IInv, GraphTypeOK
  <2>4. InHooks(frames)'
    BY <1>1 DEF IInv, InHooks
  <2>5. CleanIsCurrent'
    <3>1. \A m \in Nodes, d \in Computed : ~dirty[d] /\ <<m, d>> \in edges => <<m, d>> \in edges'
      BY <2>2
    <3>2. \A d \in Computed : ~dirty[d] /\ Awaited(frames, edges, d) => Awaited(frames', edges', d)
      BY <1>2
    <3>3. UNCHANGED <<value, dirty, left, lost>>
      BY <1>1, <2>1
    <3>4. left = None => edges' = edges
      BY <1>1, <2>1 DEF Record, Reader
    <3>5. QED
      BY <3>1, <3>2, <3>3, <3>4, GraphKept
  <2>6. QED
    BY <1>1, <2>1, <2>3, <2>4, <2>5, Calm
<1>5. QED
  BY <1>3, <1>4 DEF HostGets

-----------------------------------------------------------------------------
(* The theorems.                                                           *)

\* In the beginning every computed is dirty.
LEMMA Initially == Init => IInv
<1> SUFFICES ASSUME Init PROVE IInv
  OBVIOUS
<1>1. Len(<<>>) = 0
  BY EmptySeq, LenProperties
<1>2. GraphTypeOK
  <2>1. value \in [Nodes -> Values]
    BY ValuesAssumption DEF Init
  <2>2. gets \in Seq(Computed) /\ frames \in Seq(Frame) /\ seen \in [Computed -> Seq(Values)]
    BY EmptySeq DEF Init
  <2>3. \A i \in 1..Len(frames) : frames[i].pc # "loop" => frames[i].n \in Aggs
    BY <1>1 DEF Init
  <2>4. QED
    BY <2>1, <2>2, <2>3 DEF Init, GraphTypeOK
<1>3. InHooks(frames) /\ Evaluating /\ Waiting /\ Descending
  BY <1>1 DEF Init, InHooks, Evaluating, Waiting, Descending
<1>4. OnlyItsReads /\ CleanIsCurrent
  BY <1>1 DEF Init, OnlyItsReads, CleanIsCurrent
<1>5. QED
  BY <1>2, <1>3, <1>4 DEF IInv

\* A step that changes nothing.
LEMMA StutterKeeps == ASSUME IInv, UNCHANGED vars PROVE IInv'
<1>1. UNCHANGED <<value, dirty, edges, gets, seen, left, frames, made, lost>>
  BY DEF vars, history
<1>2. GraphTypeOK' /\ InHooks(frames)'
  BY <1>1 DEF IInv, GraphTypeOK, InHooks
<1>3. Evaluating' /\ Waiting' /\ Descending'
  BY <1>1 DEF IInv, Evaluating, Waiting, Descending, HasSeen, Holds, Clean, NextRead
<1>4. OnlyItsReads' /\ CleanIsCurrent'
  BY <1>1 DEF IInv, OnlyItsReads, HasRead, CleanIsCurrent, Current, OnlyTheBranch, UpToDate, Coming, ReadsOf, Clean, Lost
<1>5. QED
  BY <1>2, <1>3, <1>4 DEF IInv

\* Every step keeps the invariant.
LEMMA Step == IInv /\ [Next]_vars => IInv'
<1> SUFFICES ASSUME IInv, [Next]_vars PROVE IInv'
  OBVIOUS
<1>1. CASE ComputeReads \/ Evaluated \/ Panic
  BY <1>1, ComputeReadsKeeps, EvaluatedKeeps, PanicKeeps
<1>2. CASE Invalidate \/ Walked
  BY <1>2, InvalidateKeeps, WalkedKeeps
<1>3. CASE HookGets \/ HookCompares \/ HookReturns
  BY <1>3, HookGetsKeeps, HookComparesKeeps, HookReturnsKeeps
<1>4. CASE \E a \in Aggs : All(a)
  BY <1>4, AllKeeps
<1>5. CASE \E n \in Nodes : HostGets(n)
  BY <1>5, HostGetsKeeps
<1>6. CASE \E s \in Sources, v \in Values : HostSets(s, v)
  BY <1>6, HostSetsKeeps
<1>7. CASE UNCHANGED vars
  BY <1>7, StutterKeeps
<1>8. QED
  BY <1>1, <1>2, <1>3, <1>4, <1>5, <1>6, <1>7 DEF Next

\* The inductive invariant holds of every reachable state.
THEOREM Invariance == Spec => []IInv
<1>1. QED
  BY Initially, Step, PTL DEF Spec

\* What a panic leaves undone is left undone to computeds, and to aggregates.
LEMMA HistoryTypes ==
  ASSUME IInv, lost \subseteq Computed, deaf \subseteq Aggs, [Next]_vars
  PROVE  lost' \subseteq Computed /\ deaf' \subseteq Aggs
<1>1. CASE Panic
  BY <1>1 DEF Panic
<1>2. CASE Invalidate
  BY <1>2 DEF Invalidate, Visit
<1>3. CASE ~Panic /\ ~Invalidate
  <2>1. UNCHANGED history
    BY <1>3 DEF Next, vars, ComputeReads, Evaluated, Walked, HookGets, HookCompares, HookReturns, All,
                HostGets, HostSets, Assign
  <2>2. QED
    BY <2>1 DEF history
<1>4. QED
  BY <1>1, <1>2, <1>3

\* Every reachable state is well typed: evalStack holds computeds, and only
\* aggregates have hooks under way (prop/prop.go).
THEOREM TypeCorrect == Spec => []TypeOK
<1>1. Init => TypeOK
  BY Initially DEF IInv, TypeOK, Init
<1>2. TypeOK /\ IInv /\ [Next]_vars => TypeOK'
  BY Step, HistoryTypes DEF IInv, TypeOK
<1>3. QED
  BY <1>1, <1>2, Invariance, PTL DEF Spec

\* No evaluation is within itself: the properties on evalStack have falling
\* ranks, so evaluation is no deeper than the graph (prop.go, Get).
THEOREM EvaluationDescends == Spec => []Descending
<1>1. IInv => Descending
  BY DEF IInv
<1>2. QED
  BY <1>1, Invariance, PTL

\* A clean computed agrees with what it reads, all of it clean and knowing of
\* it, or an invalidation is on its way to it (prop.go, invalidate and Get), or
\* was when a panic in the hook of an aggregate abandoned it.
THEOREM NoneIsStale == Spec => []CleanIsUpToDate
<1>1. IInv => CleanIsUpToDate
  BY DEF IInv, CleanIsCurrent, Current, CleanIsUpToDate, Lost
<1>2. QED
  BY <1>1, Invariance, PTL

\* Of any properties one has the lowest rank.
LEMMA LowestRank == ASSUME NEW T, T \subseteq Nat, T # {}
                    PROVE  \E x \in T : \A y \in T : ~(y < x)
<1>1. PICK R : R = OpToRel(<, Nat)
  OBVIOUS
<1>2. IsWellFoundedOn(R, Nat)
  BY <1>1, NatLessThanWellFounded
<1>3. \E x \in T : \A y \in T : <<y, x>> \notin R
  BY <1>2, WFMin
<1>4. \A x, y \in Nat : x < y => <<x, y>> \in R
  BY <1>1 DEF OpToRel
<1>5. QED
  BY <1>3, <1>4

\* Agreement with what it reads, for every clean computed, is agreement with
\* the sources: by the lowest one that would not.
LEMMA UpToDateIsRight == ASSUME GraphTypeOK, CleanIsUpToDate PROVE CleanIsRight
<1> SUFFICES ASSUME Quiet, lost = {}, NEW t \in [Nodes -> Values], Solves(t),
                    NEW c \in Computed, ~dirty[c], value[c] # t[c]
             PROVE  FALSE
  BY DEF CleanIsRight, RightValues
<1>1. \A d \in Computed : ~dirty[d] => UpToDate(d)
  <2>1. \A d : ~Coming(d)
    <3>1. Len(frames) = 0
      BY LenProperties, EmptySeq DEF Quiet
    <3>2. QED
      BY <3>1 DEF Coming
  <2>2. QED
    BY <2>1 DEF CleanIsUpToDate
<1> DEFINE Bad == {d \in Computed : ~dirty[d] /\ value[d] # t[d]}
<1>2. PICK d \in Bad : \A e \in Bad : ~(Rank[e] < Rank[d])
  <2> DEFINE T == {Rank[d] : d \in Bad}
  <2>1. T \subseteq Nat
    BY RankAssumption DEF Nodes
  <2>2. Rank[c] \in T
    OBVIOUS
  <2>3. PICK x \in T : \A y \in T : ~(y < x)
    <3> HIDE DEF T
    <3>1. QED
      BY <2>1, <2>2, LowestRank
  <2>4. PICK d \in Bad : x = Rank[d]
    BY <2>3
  <2>5. QED
    BY <2>3, <2>4
<1>3. d \in Computed /\ ~dirty[d] /\ value[d] # t[d] /\ UpToDate(d)
  BY <1>1, <1>2
<1>4. \A n \in ReadsOf(d) : n \in Nodes /\ Rank[n] < Rank[d] => value[n] = t[n]
  <2>1. ASSUME NEW n \in ReadsOf(d), n \in Nodes, Rank[n] < Rank[d], value[n] # t[n] PROVE FALSE
    <3>1. n \notin Sources
      BY <2>1 DEF Solves
    <3>2. n \in Computed /\ ~dirty[n]
      BY <3>1, <2>1, <1>3 DEF UpToDate, Clean
    <3>3. n \in Bad
      BY <3>2, <2>1
    <3>4. QED
      BY <3>3, <2>1, <1>2
  <2>2. QED
    BY <2>1
<1>5. PICK f, v, m : f = First[d] /\ v = value[f] /\ m = Second[d][v]
  OBVIOUS
<1>6. f \in Nodes /\ Rank[f] < Rank[d] /\ f \in ReadsOf(d) /\ v \in Values
  BY <1>3, <1>5, ReadsAssumption, RankAssumption DEF ReadsOf, GraphTypeOK
<1>7. m # None => m \in Nodes /\ Rank[m] < Rank[d] /\ m \in ReadsOf(d)
  BY <1>3, <1>5, <1>6, ReadsAssumption, RankAssumption DEF ReadsOf
<1>8. t[f] = v /\ (m # None => t[m] = value[m])
  BY <1>4, <1>5, <1>6, <1>7
<1>9. value[d] = Result[d][v][IF m = None THEN v ELSE value[m]]
  BY <1>3, <1>5 DEF UpToDate
<1>10. t[d] = Result[d][v][IF m = None THEN v ELSE t[m]]
  BY <1>3, <1>5, <1>8 DEF Solves
<1>11. QED
  BY <1>3, <1>8, <1>9, <1>10

\* Lazy evaluation never shows an old value: with nothing under way, a clean
\* computed holds what evaluating everything anew would give (prop.go:14-17),
\* for every acyclic graph, with hooks, and whatever plain Get panicked; once a
\* panic in an aggregate's hook has abandoned an invalidation, not until all
\* that this had yet to come to has been dirty again (lost).
THEOREM LazinessIsInvisible == Spec => []CleanIsRight
<1>1. IInv => CleanIsRight
  BY UpToDateIsRight DEF IInv, CleanIsCurrent, Current, CleanIsUpToDate, Lost
<1>2. QED
  BY <1>1, Invariance, PTL

\* Conditional reads track exactly the branch that was taken (prop.go:12-13):
\* at rest, and as long as nothing panicked, a clean computed is subscribed to
\* what it read in its last evaluation and to nothing else.
THEOREM TracksTheBranch == Spec => []ExactlyTheBranch
<1>1. IInv => ExactlyTheBranch
  <2> SUFFICES ASSUME IInv, Quiet, left = None, NEW c \in Computed, ~dirty[c]
               PROVE  {n \in Nodes : <<n, c>> \in edges} = ReadsOf(c)
    BY DEF ExactlyTheBranch
  <2>1. ~Coming(c)
    BY AwaitedNone, ComingIsAwaited DEF Quiet
  <2>2. UpToDate(c) /\ OnlyTheBranch(c)
    BY <2>1 DEF IInv, CleanIsCurrent, Current, Lost
  <2>3. ReadsOf(c) \subseteq Nodes
    BY ReadsAreNodes DEF IInv
  <2>4. QED
    BY <2>2, <2>3 DEF UpToDate, OnlyTheBranch
<1>2. QED
  BY <1>1, Invariance, PTL

-----------------------------------------------------------------------------
(* The outward property of validate.All.                                   *)

\* The aggregate is evaluated and out says what it says.
Settled(a) == ~dirty[a] /\ value[OutOf[a]] = value[a]

\* The innermost call is a's hook, about to evaluate a, evaluating it, or about
\* to compare what came of it.
InItsHook(a) == /\ frames # <<>> /\ Top.n = a
                /\ \/ Top.pc = "get" /\ gets = <<>>
                   \/ Top.pc = "compare" /\ gets # <<>> /\ gets[1] = a
                   \/ Top.pc = "compare" /\ gets = <<>> /\ ~dirty[a]

OutFollows == \A a \in made \ deaf : Settled(a) \/ InItsHook(a)

\* A step that leaves a and its out alone leaves a settled.
LEMMA StaysSettled ==
  ASSUME NEW a, Settled(a), dirty'[a] = dirty[a],
         value'[a] = value[a], value'[OutOf[a]] = value[OutOf[a]]
  PROVE  Settled(a)'
<1>1. QED
  BY DEF Settled

\* Aggregates and their outs are properties.
LEMMA MadeAreNodes == ASSUME GraphTypeOK, NEW a \in made
                      PROVE  a \in Aggs /\ a \in Computed /\ a \in Nodes /\ OutOf[a] \in Sources /\ OutOf[a] \in Nodes
<1>1. QED
  BY AggsAssumption DEF GraphTypeOK, Nodes

\* An evaluation is begun within another, or of what no hook is for.
LEMMA ReadsFollow == ASSUME IInv, OutFollows, ComputeReads PROVE OutFollows'
<1>1. gets # <<>> /\ UNCHANGED <<value, dirty, made, deaf>> /\ gets \in Seq(Computed) /\ frames \in Seq(Frame)
  BY DEF ComputeReads, Read, Begin, IInv, GraphTypeOK, history
<1>2. gets' # <<>> /\ gets'[1] = gets[1]
  <2>1. gets' = gets \/ \E n \in Computed : gets' = Append(gets, n)
    BY DEF ComputeReads, Read, Begin
  <2>2. ASSUME NEW n \in Computed, gets' = Append(gets, n) PROVE gets' # <<>> /\ gets'[1] = gets[1]
    <3>1. Len(gets) \in Nat \ {0}
      BY <1>1, LenProperties, EmptySeq
    <3>2. Len(gets') = Len(gets) + 1 /\ gets' \in Seq(Computed) /\ \A i \in 1..Len(gets) : gets'[i] = gets[i]
      BY <1>1, <2>2, AppendProperties
    <3>3. QED
      BY <3>1, <3>2, EmptySeq
  <2>3. QED
    BY <1>1, <2>1, <2>2
<1>3. frames # <<>> => frames' # <<>> /\ Top'.n = Top.n /\ Top'.pc = Top.pc
  <2>1. CASE frames' = frames
    BY <2>1 DEF Top, Last
  <2>2. CASE \E n \in Computed : frames' = Forgotten(n)
    <3>1. PICK n \in Computed : frames' = Forgotten(n)
      BY <2>2
    <3>2. /\ frames' \in Seq(Frame) /\ Len(frames') = Len(frames)
          /\ \A i \in 1..Len(frames) : frames'[i] = [frames[i] EXCEPT !.todo = @ \ {n}]
      BY <3>1, <1>1, AwaitedForgotten
    <3>3. ASSUME frames # <<>> PROVE frames' # <<>> /\ Top'.n = Top.n /\ Top'.pc = Top.pc
      <4>1. Len(frames) \in 1..Len(frames) /\ Len(frames) # 0 /\ Top = frames[Len(frames)] /\ Top \in Frame
        BY <3>3, <1>1, LenProperties, EmptySeq DEF Top, Last
      <4>2. Top' = [Top EXCEPT !.todo = @ \ {n}]
        BY <3>2, <4>1 DEF Top, Last
      <4>3. frames' # <<>>
        BY <3>2, <4>1, EmptySeq
      <4>4. QED
        BY <4>1, <4>2, <4>3 DEF Frame
    <3>4. QED
      BY <3>3
  <2>3. QED
    BY <2>1, <2>2 DEF ComputeReads, Begin
<1>4. ASSUME NEW a \in made \ deaf, Settled(a) \/ InItsHook(a) PROVE Settled(a)' \/ InItsHook(a)'
  <2>1. CASE Settled(a)
    BY <2>1, <1>1, StaysSettled
  <2>2. CASE InItsHook(a)
    BY <2>2, <1>1, <1>2, <1>3 DEF InItsHook
  <2>3. QED
    BY <1>4, <2>1, <2>2
<1>5. QED
  BY <1>1, <1>4 DEF OutFollows

\* What is evaluated is the aggregate of the hook under way, at the end, and
\* otherwise no settled aggregate.
LEMMA EvaluatedFollows == ASSUME IInv, OutFollows, Evaluated PROVE OutFollows'
<1>1. PICK p, v : p = Last(gets) /\ v = Apply(p, seen[p])
  OBVIOUS
<1>2. /\ gets # <<>> /\ gets' = SubSeq(gets, 1, Len(gets) - 1)
      /\ value' = [value EXCEPT ![p] = v] /\ dirty' = [dirty EXCEPT ![p] = FALSE]
      /\ UNCHANGED <<frames, made, deaf>> /\ GraphTypeOK
  BY <1>1 DEF Evaluated, IInv, history
<1>3. p \in Computed /\ dirty[p] /\ \A i \in 1..Len(gets) : i # Len(gets) => gets[i] # p
  BY <1>1, <1>2, Innermost
<1>4. /\ Len(gets) \in Nat \ {0} /\ p = gets[Len(gets)] /\ Len(gets') = Len(gets) - 1
      /\ gets' \in Seq(Computed) /\ \A i \in 1..(Len(gets) - 1) : gets'[i] = gets[i]
  BY <1>1, <1>2, Popped DEF GraphTypeOK, Last
<1>5. ASSUME NEW a \in made \ deaf, Settled(a) PROVE Settled(a)'
  <2>1. a # p /\ a \in Nodes /\ a \in Computed /\ OutOf[a] \in Nodes /\ OutOf[a] # p
    BY <1>2, <1>3, <1>5, MadeAreNodes, NodesAssumption DEF Settled
  <2>2. value'[a] = value[a] /\ value'[OutOf[a]] = value[OutOf[a]] /\ dirty'[a] = dirty[a]
    BY <2>1, <1>2 DEF GraphTypeOK
  <2>3. QED
    BY <2>2, <1>5, StaysSettled
<1>6. ASSUME NEW a \in made \ deaf, InItsHook(a) PROVE InItsHook(a)'
  <2>1. frames # <<>> /\ Top.n = a /\ Top.pc = "compare" /\ gets[1] = a /\ Top' = Top /\ frames' = frames
    BY <1>2, <1>6 DEF InItsHook, Top
  <2>2. CASE Len(gets) = 1
    <3>1. gets' = <<>>
      BY <2>2, <1>4, EmptySeq
    <3>2. ~dirty'[a]
      BY <2>1, <2>2, <1>2, <1>3, <1>4 DEF GraphTypeOK
    <3>3. QED
      BY <2>1, <3>1, <3>2 DEF InItsHook
  <2>3. CASE Len(gets) # 1
    <3>1. 1 \in 1..(Len(gets) - 1) /\ Len(gets') # 0
      BY <2>3, <1>4
    <3>2. gets' # <<>> /\ gets'[1] = a
      BY <3>1, <2>1, <1>4, EmptySeq
    <3>3. QED
      BY <2>1, <3>2 DEF InItsHook
  <2>4. QED
    BY <2>2, <2>3
<1>7. QED
  BY <1>2, <1>5, <1>6 DEF OutFollows

\* Between the hooks' evaluations and comparisons every aggregate is settled.
LEMMA AllSettled == ASSUME OutFollows, gets = <<>>,
                           frames = <<>> \/ Top.pc \in {"loop", "through"}
                    PROVE  \A a \in made \ deaf : Settled(a)
<1>1. QED
  BY DEF OutFollows, InItsHook

\* The walk dirties an aggregate by beginning its hook.
LEMMA InvalidateFollows == ASSUME IInv, OutFollows, Invalidate PROVE OutFollows'
<1>1. InFrame("loop") /\ UNCHANGED <<value, edges, gets, seen, left, made, deaf>>
  BY DEF Invalidate
<1>2. gets = <<>> /\ gets' = <<>> /\ Top.pc = "loop" /\ Top \in Frame /\ Below \in Seq(Frame)
  BY <1>1, Framed
<1>3. \A a \in made \ deaf : Settled(a) /\ a \in Computed
  BY <1>2, AllSettled, MadeAreNodes DEF IInv
<1>4. PICK c \in Computed : Visit(c)
  BY DEF Invalidate
<1>5. CASE dirty[c]
  BY <1>1, <1>3, <1>4, <1>5, StaysSettled DEF Visit, OutFollows
<1>6. CASE ~dirty[c]
  <2>1. dirty' = [dirty EXCEPT ![c] = TRUE]
    BY <1>4, <1>6 DEF Visit
  <2>2. \A a \in made \ deaf : a # c => Settled(a)'
    <3>1. \A a \in made \ deaf : a # c => dirty'[a] = dirty[a]
      BY <2>1, <1>3 DEF IInv, GraphTypeOK
    <3>2. QED
      BY <3>1, <1>1, <1>3, StaysSettled
  <2>3. CASE c \in made
    <3>1. PICK b, g : b = Below /\ g = [Top EXCEPT !.todo = @ \ {c}]
      OBVIOUS
    <3>2. PICK e : e = Call(c, "get", {})
      OBVIOUS
    <3>3. g \in Frame /\ e \in Frame /\ e.n = c /\ e.pc = "get"
      BY <3>1, <3>2, <1>2 DEF Frame, Call, Nodes
    <3>4. frames' = Append(Append(b, g), e)
      BY <1>4, <1>6, <2>3, <3>1, <3>2 DEF Visit, Enter
    <3>5. PICK fs : fs = Append(b, g)
      OBVIOUS
    <3>6. fs \in Seq(Frame)
      BY <3>1, <3>3, <3>5, <1>2, AppendProperties
    <3>7. frames' = Append(fs, e)
      BY <3>4, <3>5
    <3>8. frames' # <<>> /\ Top' = e
      <4>1. Len(frames') = Len(fs) + 1 /\ frames'[Len(fs) + 1] = e /\ frames' # <<>>
        BY <3>3, <3>6, <3>7, AppendProperties, AwaitedAppend
      <4>2. QED
        BY <4>1 DEF Top, Last
    <3>9. InItsHook(c)'
      BY <3>3, <3>8, <1>2 DEF InItsHook
    <3>10. QED
      BY <3>9, <2>2, <1>1 DEF OutFollows
  <2>4. CASE c \notin made
    BY <2>2, <2>4, <1>1 DEF OutFollows
  <2>5. QED
    BY <2>3, <2>4
<1>7. QED
  BY <1>5, <1>6

\* A step that changes no value and dirties nothing, when all are settled.
LEMMA SettledFollow ==
  ASSUME \A a \in made \ deaf : Settled(a), UNCHANGED <<value, dirty, made, deaf>>
  PROVE  OutFollows'
<1>1. \A a \in made \ deaf : Settled(a)'
  BY StaysSettled
<1>2. QED
  BY <1>1 DEF OutFollows

\* A walk ends, a hook returns to the walk, and a compute panics.
LEMMA ReturnsFollow == ASSUME IInv, OutFollows, Walked \/ HookReturns \/ Panic PROVE OutFollows'
<1>1. CASE Walked \/ HookReturns
  <2>1. InFrame("loop") \/ InFrame("through")
    BY <1>1 DEF Walked, HookReturns
  <2>2. gets = <<>> /\ Top.pc \in {"loop", "through"}
    BY <2>1 DEF InFrame
  <2>3. UNCHANGED <<value, dirty, made, deaf>>
    BY <1>1 DEF Walked, HookReturns, history
  <2>4. QED
    BY <2>2, <2>3, AllSettled, SettledFollow
<1>2. CASE Panic
  <2>1. UNCHANGED <<value, dirty, made>>
    BY <1>2 DEF Panic
  <2>2. ASSUME NEW a \in made \ deaf' PROVE Settled(a)'
    <3>1. a \in made \ deaf /\ ~InItsHook(a)
      BY <2>2, <1>2 DEF Panic, InItsHook, IInv, GraphTypeOK
    <3>2. Settled(a)
      BY <3>1 DEF OutFollows
    <3>3. QED
      BY <3>2, <2>1, StaysSettled
  <2>3. QED
    BY <2>1, <2>2 DEF OutFollows
<1>3. QED
  BY <1>1, <1>2

\* All begins with what its hook does.
LEMMA AllFollows == ASSUME IInv, OutFollows, NEW a \in Aggs, All(a) PROVE OutFollows'
<1>1. gets = <<>> /\ frames = <<>> /\ made' = made \cup {a} /\ UNCHANGED <<value, dirty, gets, deaf>>
  BY DEF All, Quiet, history
<1>2. \A b \in made \ deaf : Settled(b)'
  BY <1>1, AllSettled, StaysSettled
<1>3. PICK f : f = Call(a, "get", {})
  OBVIOUS
<1>4. frames' = <<f>> /\ f.n = a /\ f.pc = "get"
  BY <1>3 DEF All, Call
<1>5. frames' # <<>> /\ Top' = f
  BY <1>4 DEF Top, Last
<1>6. InItsHook(a)'
  BY <1>1, <1>4, <1>5 DEF InItsHook
<1>7. QED
  BY <1>1, <1>2, <1>6 DEF OutFollows

\* The host reads, and Sets what is no aggregate's out.
LEMMA HostFollows ==
  ASSUME IInv, OutFollows,
         (\E n \in Nodes : HostGets(n)) \/ (\E s \in Sources, v \in Values : HostSets(s, v))
  PROVE  OutFollows'
<1>1. \A a \in made \ deaf : Settled(a)
  BY AllSettled DEF HostGets, HostSets, Quiet
<1>2. ASSUME NEW n \in Nodes, HostGets(n) PROVE OutFollows'
  BY <1>1, <1>2, SettledFollow DEF HostGets, Read, Begin, history
<1>3. ASSUME NEW s \in Sources, NEW v \in Values, HostSets(s, v) PROVE OutFollows'
  <2>1. value' = [value EXCEPT ![s] = v] /\ UNCHANGED <<dirty, made, deaf>> /\ \A a \in Aggs : OutOf[a] # s
    BY <1>3 DEF HostSets, Assign, history
  <2>2. ASSUME NEW a \in made \ deaf PROVE Settled(a)'
    <3>1. a \in Nodes /\ a # s /\ OutOf[a] \in Nodes /\ OutOf[a] # s
      BY <2>1, MadeAreNodes, NodesAssumption DEF IInv
    <3>2. QED
      BY <3>1, <2>1, <1>1, StaysSettled DEF IInv, GraphTypeOK
  <2>3. QED
    BY <2>1, <2>2 DEF OutFollows
<1>4. QED
  BY <1>2, <1>3

\* The hook evaluates its aggregate.
LEMMA HookGetsFollows == ASSUME IInv, OutFollows, HookGets PROVE OutFollows'
<1>1. InFrame("get") /\ Begin(Top.n) /\ UNCHANGED <<value, dirty, made, deaf>>
  BY DEF HookGets, Begin, history
<1>2. /\ gets = <<>> /\ frames # <<>> /\ frames \in Seq(Frame)
      /\ Top \in Frame /\ Top.pc = "get" /\ Top.n \in Aggs
  BY <1>1, Framed
<1>3. PICK c \in Computed : c = Top.n
  BY <1>2, AggsAssumption
<1>4. gets' = <<c>> /\ gets' # <<>> /\ gets'[1] = c
  BY <1>1, <1>2, <1>3 DEF Begin
<1>5. PICK f : f = Forgotten(c)
  OBVIOUS
<1>6. PICK L : L = Len(frames)
  OBVIOUS
<1>7. /\ f \in Seq(Frame) /\ Len(f) = L
      /\ \A i \in 1..L : f[i] = [frames[i] EXCEPT !.todo = @ \ {c}]
  BY <1>2, <1>5, <1>6, AwaitedForgotten
<1>8. L \in 1..L /\ Top = frames[L]
  BY <1>2, <1>6, LenProperties, EmptySeq DEF Top, Last
<1>9. f[L] = [Top EXCEPT !.todo = @ \ {c}]
  BY <1>7, <1>8
<1>10. f[L] \in Frame /\ f[L].n = c
  BY <1>2, <1>3, <1>9 DEF Frame
<1>11. PICK h : h = [f[L] EXCEPT !.pc = "compare"]
  OBVIOUS
<1>12. h.n = c /\ h.pc = "compare" /\ h \in Frame
  BY <1>10, <1>11 DEF Frame
<1>13. frames' = [f EXCEPT ![L] = h]
  BY <1>3, <1>5, <1>7, <1>11 DEF HookGets
<1>14. f \in [1..L -> Frame]
  BY <1>7, LenProperties
<1>15. frames' \in [1..L -> Frame] /\ frames'[L] = h
  BY <1>8, <1>12, <1>13, <1>14
<1>16. Len(frames') = L /\ frames' # <<>>
  <2>1. L \in Nat
    BY <1>2, <1>6, LenProperties
  <2>2. frames' \in Seq(Frame) /\ Len(frames') = L
    BY <2>1, <1>15
  <2>3. QED
    BY <2>1, <2>2, <1>8, EmptySeq
<1>17. Top' = h
  BY <1>15, <1>16 DEF Top, Last
<1>18. InItsHook(c)'
  BY <1>4, <1>12, <1>16, <1>17 DEF InItsHook
<1>19. ASSUME NEW a \in made \ deaf, a # c PROVE Settled(a)'
  <2>1. Settled(a)
    BY <1>3, <1>19 DEF OutFollows, InItsHook
  <2>2. QED
    BY <2>1, <1>1, StaysSettled
<1>20. QED
  BY <1>1, <1>18, <1>19 DEF OutFollows

\* The hook makes out say what its aggregate says, and no other out.
LEMMA HookComparesFollows == ASSUME IInv, OutFollows, HookCompares PROVE OutFollows'
<1>1. InFrame("compare") /\ UNCHANGED <<dirty, made, deaf>>
  BY DEF HookCompares, Assign, history
<1>2. gets = <<>> /\ Top.n \in Aggs /\ Top.pc = "compare"
  BY <1>1, Framed
<1>3. PICK a : a = Top.n
  OBVIOUS
<1>4. a \in Computed /\ OutOf[a] \in Sources /\ a # OutOf[a] /\ a \in Nodes /\ OutOf[a] \in Nodes
  BY <1>2, <1>3, AggsAssumption, NodesAssumption DEF Nodes
<1>5. value' = [value EXCEPT ![OutOf[a]] = value[a]]
  <2>1. CASE value[a] # value[OutOf[a]]
    BY <2>1, <1>3 DEF HookCompares, Assign
  <2>2. CASE value[a] = value[OutOf[a]]
    BY <2>2, <1>3, <1>4 DEF HookCompares, IInv, GraphTypeOK
  <2>3. QED
    BY <2>1, <2>2
<1>6. \A n \in Nodes : value'[n] = IF n = OutOf[a] THEN value[a] ELSE value[n]
  BY <1>4, <1>5 DEF IInv, GraphTypeOK
<1>7. ASSUME NEW b \in made \ deaf PROVE Settled(b)'
  <2>1. ~dirty[b] /\ b \in Aggs /\ b \in Nodes /\ OutOf[b] \in Nodes /\ b # OutOf[a]
    BY <1>2, <1>4, MadeAreNodes, NodesAssumption DEF OutFollows, Settled, InItsHook, IInv
  <2>2. CASE b = a
    <3>1. value'[a] = value[a] /\ value'[OutOf[a]] = value[a]
      BY <1>4, <1>6
    <3>2. QED
      BY <3>1, <2>1, <2>2, <1>1 DEF Settled
  <2>3. CASE b # a
    <3>1. Settled(b)
      BY <2>3, <1>3 DEF OutFollows, InItsHook
    <3>2. OutOf[b] # OutOf[a]
      BY <2>1, <2>3, <1>2, <1>3, AggsAssumption
    <3>3. value'[b] = value[b] /\ value'[OutOf[b]] = value[OutOf[b]]
      BY <3>2, <2>1, <1>6
    <3>4. QED
      BY <3>1, <3>3, <1>1, StaysSettled
  <2>4. QED
    BY <2>2, <2>3
<1>8. QED
  BY <1>1, <1>7 DEF OutFollows

\* No All has been called in the beginning, and every step lets outs follow.
LEMMA OutsFollow == Spec => []OutFollows
<1>1. Init => OutFollows
  BY DEF Init, OutFollows
<1>2. ASSUME IInv, OutFollows, [Next]_vars PROVE OutFollows'
  <2>1. CASE ComputeReads \/ Evaluated \/ Panic
    BY <2>1, <1>2, ReadsFollow, EvaluatedFollows, ReturnsFollow
  <2>2. CASE Invalidate \/ Walked
    BY <2>2, <1>2, InvalidateFollows, ReturnsFollow
  <2>3. CASE HookGets \/ HookCompares \/ HookReturns
    BY <2>3, <1>2, HookGetsFollows, HookComparesFollows, ReturnsFollow
  <2>4. CASE \E a \in Aggs : All(a)
    BY <2>4, <1>2, AllFollows
  <2>5. CASE (\E n \in Nodes : HostGets(n)) \/ (\E s \in Sources, v \in Values : HostSets(s, v))
    BY <2>5, <1>2, HostFollows
  <2>6. CASE UNCHANGED vars
    BY <2>6, <1>2 DEF vars, history, OutFollows, Settled, InItsHook, Top
  <2>7. QED
    BY <1>2, <2>1, <2>2, <2>3, <2>4, <2>5, <2>6 DEF Next
<1>3. QED
  BY <1>1, <1>2, Invariance, PTL DEF Spec

\* validate.All's outward property is the aggregate's truth whenever the host
\* gets to look (validate.go:65-77), although the hook that sees to it runs in
\* the middle of an invalidation: for any number of aggregates, even ones that
\* validate each other's outs; but for one whose hook a panic cut short (deaf), and
\* while what an abandoned invalidation had yet to come to is not made good.
THEOREM AllIsRight == Spec => []OutIsRight
<1>1. ASSUME IInv, OutFollows, CleanIsRight PROVE OutIsRight
  <2> SUFFICES ASSUME Quiet, NEW t \in [Nodes -> Values], Solves(t), lost = {}, NEW a \in made \ deaf
               PROVE  value[OutOf[a]] = t[a]
    BY DEF OutIsRight
  <2>1. Settled(a)
    BY <1>1, AllSettled DEF Quiet
  <2>2. a \in Computed
    BY <1>1, MadeAreNodes DEF IInv
  <2>3. value[a] = t[a]
    BY <2>1, <2>2, <1>1 DEF CleanIsRight, RightValues, Settled
  <2>4. QED
    BY <2>1, <2>3 DEF Settled
<1>2. QED
  BY <1>1, Invariance, OutsFollow, LazinessIsInvisible, PTL
=============================================================================
