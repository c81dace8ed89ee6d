----------------------------- MODULE IntakeProofs -----------------------------
(***************************************************************************)
(* What reaches the UI goroutine, and in what order: the closures that     *)
(* others post (Dispatcher) and the events of the terminal (Terminal),     *)
(* proved for any set of goroutines and any number of Posts, for any       *)
(* writes, read sizes and capacities of channels.                          *)
(***************************************************************************)
EXTENDS Dispatcher, Terminal, SequenceTheorems, WellFoundedInduction, TLAPS

\* A closure moved from the head of the second part of a concatenation to
\* the end of the first leaves the whole unchanged: a Drain step keeps order.
LEMMA ShiftHead ==
  ASSUME NEW S, NEW s \in Seq(S), NEW t \in Seq(S), t # <<>>
  PROVE  Append(s, Head(t)) \o Tail(t) = s \o t
<1>1. /\ Head(t) \in S
      /\ Tail(t) \in Seq(S)
      /\ Len(Tail(t)) = Len(t) - 1
      /\ \A i \in 1 .. Len(Tail(t)) : Tail(t)[i] = t[i+1]
      /\ Len(t) \in Nat \ {0}
      /\ Len(s) \in Nat
      /\ Head(t) = t[1]
  BY HeadTailProperties, EmptySeq, LenProperties
<1>2. /\ Append(s, Head(t)) \in Seq(S)
      /\ Len(Append(s, Head(t))) = Len(s) + 1
      /\ \A i \in 1 .. Len(s) : Append(s, Head(t))[i] = s[i]
      /\ Append(s, Head(t))[Len(s) + 1] = t[1]
  BY <1>1, AppendProperties
<1> DEFINE l == Append(s, Head(t)) \o Tail(t)
           r == s \o t
<1>3. /\ l \in Seq(S)
      /\ Len(l) = Len(s) + Len(t)
      /\ \A i \in 1 .. Len(l) :
           l[i] = IF i <= Len(s) + 1 THEN Append(s, Head(t))[i] ELSE Tail(t)[i - (Len(s) + 1)]
  BY <1>1, <1>2, ConcatProperties
<1>4. /\ r \in Seq(S)
      /\ Len(r) = Len(s) + Len(t)
      /\ \A i \in 1 .. Len(r) : r[i] = IF i <= Len(s) THEN s[i] ELSE t[i - Len(s)]
  BY ConcatProperties
<1>5. ASSUME NEW i \in 1 .. Len(l)
      PROVE  l[i] = r[i]
  <2>1. CASE i <= Len(s)
    BY <2>1, <1>1, <1>2, <1>3, <1>4
  <2>2. CASE i = Len(s) + 1
    BY <2>2, <1>1, <1>2, <1>3, <1>4
  <2>3. CASE i > Len(s) + 1
    <3>1. i - (Len(s) + 1) \in 1 .. Len(Tail(t))
      BY <2>3, <1>1, <1>3
    <3>2. Tail(t)[i - (Len(s) + 1)] = t[i - Len(s)]
      BY <3>1, <1>1
    <3> QED
      BY <2>3, <3>2, <1>1, <1>3, <1>4
  <2> QED
    BY <2>1, <2>2, <2>3, <1>1, <1>3
<1> HIDE DEF l, r
<1>6. l = r
  BY <1>3, <1>4, <1>5, SeqEqual
<1> QED
  BY <1>6 DEF l, r

\* Appending to the last part of a concatenation appends to the whole: a
\* Post goes behind everything already posted.
LEMMA AppendConcat ==
  ASSUME NEW S, NEW s \in Seq(S), NEW t \in Seq(S), NEW e \in S
  PROVE  s \o Append(t, e) = Append(s \o t, e)
<1>1. <<e>> \in Seq(S) /\ s \o t \in Seq(S)
  BY ConcatProperties
<1>2. s \o Append(t, e) = s \o (t \o <<e>>)
  BY AppendIsConcat
<1>3. Append(s \o t, e) = (s \o t) \o <<e>>
  BY <1>1, AppendIsConcat
<1> QED
  BY <1>1, <1>2, <1>3, ConcatAssociative

-----------------------------------------------------------------------------

\* Every reachable state is well typed, and Drain's slice is empty outside
\* Drain (dispatch.go:78-88).
THEOREM TypeCorrect == Spec => []TypeOK
<1> USE UIAssumption, MaxPostsAssumption DEF TypeOK, Posters
<1>1. Init => TypeOK
  <2>1. <<>> \in Seq(Jobs)
    BY EmptySeq
  <2>2. 0 \in 0..MaxPosts
    OBVIOUS
  <2> QED
    BY <2>1, <2>2 DEF Init
<1>2. TypeOK /\ [Next]_vars => TypeOK'
  <2> SUFFICES ASSUME TypeOK, [Next]_vars
               PROVE  TypeOK'
    OBVIOUS
  <2>1. ASSUME NEW g \in Posters, Enqueue(g)
        PROVE  TypeOK'
    <3>1. <<g, count[g]>> \in Jobs
      BY <2>1 DEF Enqueue, MayPost, Jobs
    <3>2. /\ queue' \in Seq(Jobs)
          /\ posted' \in Seq(Jobs)
      BY <2>1, <3>1 DEF Enqueue
    <3>3. count' \in [Posters -> 0..MaxPosts]
      BY <2>1 DEF Enqueue, MayPost
    <3> QED
      BY <2>1, <3>2, <3>3 DEF Enqueue
  <2>2. ASSUME NEW g \in Posters, OfferWake(g)
        PROVE  TypeOK'
    BY <2>2 DEF OfferWake
  <2>3. CASE ReceiveWake
    BY <2>3 DEF ReceiveWake
  <2>4. CASE Take
    BY <2>4 DEF Take
  <2>5. CASE Call
    BY <2>5 DEF Call
  <2>6. CASE ClosureReturns
    BY <2>6 DEF ClosureReturns
  <2>7. CASE DrainReturns
    BY <2>7 DEF DrainReturns
  <2>8. CASE HandleEvent
    BY <2>8 DEF HandleEvent
  <2>9. CASE HandlerReturns
    BY <2>9 DEF HandlerReturns
  <2>10. CASE UNCHANGED vars
    BY <2>10 DEF vars
  <2> QED
    BY <2>1, <2>2, <2>3, <2>4, <2>5, <2>6, <2>7, <2>8, <2>9, <2>10 DEF Next, Drain
<1> QED
  BY <1>1, <1>2, PTL DEF Spec

\* A queued closure always has a wake-up on its way, in the channel or in
\* hand: the claim of dispatch.go:59-61 that dropping a token loses no work.
THEOREM WakeupsAreNotLost == Spec => []NoLostWakeup
<1> USE DEF NoLostWakeup, TypeOK
<1>1. Init => NoLostWakeup
  BY DEF Init
<1>2. TypeOK /\ NoLostWakeup /\ [Next]_vars => NoLostWakeup'
  <2> SUFFICES ASSUME TypeOK, NoLostWakeup, [Next]_vars
               PROVE  NoLostWakeup'
    OBVIOUS
  <2>1. ASSUME NEW g \in Posters, Enqueue(g)
        PROVE  NoLostWakeup'
    BY <2>1 DEF Enqueue
  <2>2. ASSUME NEW g \in Posters, OfferWake(g)
        PROVE  NoLostWakeup'
    BY <2>2 DEF OfferWake
  <2>3. CASE ReceiveWake
    BY <2>3 DEF ReceiveWake
  <2>4. CASE Take
    BY <2>4 DEF Take
  <2>5. CASE Call \/ ClosureReturns \/ DrainReturns \/ HandleEvent \/ HandlerReturns
    BY <2>5 DEF Call, ClosureReturns, DrainReturns, HandleEvent, HandlerReturns
  <2>6. CASE UNCHANGED vars
    BY <2>6 DEF vars
  <2> QED
    BY <2>1, <2>2, <2>3, <2>4, <2>5, <2>6 DEF Next, Drain
<1> QED
  BY <1>1, <1>2, TypeCorrect, PTL DEF Spec
\* Every closure runs once and in the order posted (dispatch.go:72-88).
THEOREM OrderIsKept == Spec => []RunsInPostOrder
<1> USE DEF RunsInPostOrder
<1>1. Init => RunsInPostOrder
  BY DEF Init
<1>2. TypeOK /\ RunsInPostOrder /\ [Next]_vars => RunsInPostOrder'
  <2> SUFFICES ASSUME TypeOK, RunsInPostOrder, [Next]_vars
               PROVE  RunsInPostOrder'
    OBVIOUS
  <2> /\ queue \in Seq(Jobs) /\ work \in Seq(Jobs)
      /\ posted \in Seq(Jobs) /\ ran \in Seq(Jobs)
      /\ ran \o work \in Seq(Jobs)
    BY ConcatProperties DEF TypeOK
  <2>1. ASSUME NEW g \in Posters, Enqueue(g)
        PROVE  RunsInPostOrder'
    <3> DEFINE j == <<g, count[g]>>
    <3>1. j \in Jobs
      BY <2>1 DEF Enqueue, MayPost, Jobs, TypeOK
    <3>2. (ran \o work) \o Append(queue, j) = Append((ran \o work) \o queue, j)
      BY <3>1, AppendConcat
    <3> QED
      BY <2>1, <3>2 DEF Enqueue
  <2>2. CASE Take
    <3>1. work = <<>>
      BY <2>2 DEF Take, TypeOK
    <3>2. /\ ran \o work = ran
          /\ (ran \o queue) \o <<>> = ran \o queue
          /\ ran \o queue \in Seq(Jobs)
      BY <3>1, ConcatEmptySeq, ConcatProperties
    <3> QED
      BY <2>2, <3>2 DEF Take
  <2>3. CASE Call
    <3>1. Append(ran, Head(work)) \o Tail(work) = ran \o work
      BY <2>3, ShiftHead DEF Call
    <3> QED
      BY <2>3, <3>1 DEF Call
  <2>4. ASSUME NEW g \in Posters, OfferWake(g)
        PROVE  RunsInPostOrder'
    BY <2>4 DEF OfferWake
  <2>5. CASE ReceiveWake \/ ClosureReturns \/ DrainReturns \/ HandleEvent \/ HandlerReturns
    BY <2>5 DEF ReceiveWake, ClosureReturns, DrainReturns, HandleEvent, HandlerReturns
  <2>6. CASE UNCHANGED vars
    BY <2>6 DEF vars
  <2> QED
    BY <2>1, <2>2, <2>3, <2>4, <2>5, <2>6 DEF Next, Drain
<1> QED
  BY <1>1, <1>2, TypeCorrect, PTL DEF Spec

\* What a Drain took is all it runs (dispatch.go:75-77).
THEOREM DrainsAreBounded == Spec => DrainIsBounded
<1> DEFINE Shrinks == work # <<>> /\ work' # work => work' = Tail(work)
<1>1. TypeOK /\ [Next]_vars => [Shrinks]_vars
  <2> SUFFICES ASSUME TypeOK, [Next]_vars
               PROVE  [Shrinks]_vars
    OBVIOUS
  <2>1. ASSUME NEW g \in Posters, Enqueue(g) \/ OfferWake(g)
        PROVE  Shrinks
    BY <2>1 DEF Enqueue, OfferWake
  <2>2. CASE Take
    BY <2>2 DEF Take, TypeOK
  <2>3. CASE Call
    BY <2>3 DEF Call
  <2>4. CASE ReceiveWake \/ ClosureReturns \/ DrainReturns \/ HandleEvent \/ HandlerReturns
    BY <2>4 DEF ReceiveWake, ClosureReturns, DrainReturns, HandleEvent, HandlerReturns
  <2>5. CASE UNCHANGED vars
    BY <2>5
  <2> QED
    BY <2>1, <2>2, <2>3, <2>4, <2>5 DEF Next, Drain
<1> QED
  BY <1>1, TypeCorrect, PTL DEF Spec, DrainIsBounded

-----------------------------------------------------------------------------

\* The next closure a Drain calls is the first posted one that has not run.
LEMMA NextInOrder ==
  ASSUME TypeOK, RunsInPostOrder, work # <<>>
  PROVE  /\ Len(ran) < Len(posted)
         /\ Head(work) = posted[Len(ran) + 1]
<1>1. /\ ran \in Seq(Jobs) /\ work \in Seq(Jobs) /\ queue \in Seq(Jobs)
      /\ Len(ran) \in Nat /\ Len(queue) \in Nat
      /\ Len(work) \in Nat \ {0}
      /\ Head(work) = work[1]
  BY EmptySeq, LenProperties DEF TypeOK
<1>2. /\ ran \o work \in Seq(Jobs)
      /\ Len(ran \o work) = Len(ran) + Len(work)
      /\ (ran \o work)[Len(ran) + 1] = work[1]
  BY <1>1, ConcatProperties
<1>3. /\ Len(posted) = Len(ran) + Len(work) + Len(queue)
      /\ posted[Len(ran) + 1] = (ran \o work)[Len(ran) + 1]
  BY <1>1, <1>2, ConcatProperties DEF RunsInPostOrder
<1> QED
  BY <1>1, <1>2, <1>3

\* Safety half of the refinement: the concrete dispatcher starts as the
\* abstract queue does, and every step of it is a Post, a Run or a stutter.
THEOREM RefinesWorkQueue ==
  Spec => Abstract!Init /\ [][Abstract!Next]_(Abstract!vars)
<1>1. Init => Abstract!Init
  BY ConcatEmptySeq, EmptySeq DEF Init, Abstract!Init
<1>2. ASSUME TypeOK, RunsInPostOrder, RunsInPostOrder', [Next]_vars
      PROVE  [Abstract!Next]_(Abstract!vars)
  <2>0. /\ ran \o work \o queue = posted
        /\ (ran \o work \o queue)' = posted'
    BY <1>2 DEF RunsInPostOrder
  <2>1. ASSUME NEW g \in Posters, Enqueue(g)
        PROVE  Abstract!Post
    <3>1. <<g, count[g]>> \in Jobs
      BY <1>2, <2>1 DEF Enqueue, MayPost, Jobs, TypeOK
    <3> QED
      BY <2>0, <2>1, <3>1 DEF Enqueue, Abstract!Post
  <2>2. CASE Call
    <3>1. posted' = posted /\ ran' = Append(ran, Head(work)) /\ work # <<>>
      BY <2>2 DEF Call
    <3>2. Len(ran) < Len(posted) /\ Head(work) = posted[Len(ran) + 1]
      BY <1>2, <3>1, NextInOrder
    <3> QED
      BY <2>0, <3>1, <3>2 DEF Abstract!Run, Abstract!Next
  <2>3. ASSUME \/ \E g \in Posters : OfferWake(g)
               \/ ReceiveWake \/ Take \/ ClosureReturns \/ DrainReturns
               \/ HandleEvent \/ HandlerReturns \/ UNCHANGED vars
        PROVE  UNCHANGED Abstract!vars
    <3>1. UNCHANGED <<posted, ran>>
      BY <2>3 DEF OfferWake, ReceiveWake, Take, ClosureReturns, DrainReturns,
                  HandleEvent, HandlerReturns, vars
    <3> QED
      BY <2>0, <3>1 DEF Abstract!vars
  <2> QED
    BY <1>2, <2>1, <2>2, <2>3 DEF Next, Drain, Abstract!Next
<1> QED
  BY <1>1, <1>2, TypeCorrect, OrderIsKept, PTL DEF Spec

-----------------------------------------------------------------------------
(* Least numbers, and recursion over data: a recursive definition is what  *)
(* it says when some function solves its equation.                         *)

\* The order of the natural numbers, as a set of pairs.
LessRel == {p \in Nat \X Nat : p[1] < p[2]}

\* A set of natural numbers that has an element has a least one.
LEMMA LeastOf == \A T : T \subseteq Nat /\ T # {} => \E x \in T : \A y \in T : x <= y
<1>1. IsWellFoundedOn(LessRel, Nat)
  BY NatLessThanWellFounded DEF OpToRel, LessRel
<1> SUFFICES ASSUME NEW T, T \subseteq Nat, T # {}
             PROVE  \E x \in T : \A y \in T : x <= y
  OBVIOUS
<1>2. \E x \in T : \A y \in T : ~(<<y, x>> \in LessRel)
  BY <1>1, WFMin
<1>3. ASSUME NEW x \in T, NEW y \in T, ~(<<y, x>> \in LessRel)
      PROVE  x <= y
  <2>1. <<y, x>> \in Nat \X Nat /\ x \in Nat /\ y \in Nat
    OBVIOUS
  <2>2. ~(<<y, x>>[1] < <<y, x>>[2])
    BY <1>3, <2>1 DEF LessRel
  <2> QED BY <2>1, <2>2
<1> QED BY <1>2, <1>3

\* A recursion over S with values in V: f[x] is b0[x] on the base, and elsewhere
\* h of x and of f at nxt[x], which the measure m finds smaller.
Recurs(S, V, m, base, nxt, b0, h) ==
  /\ m \in [S -> Nat] /\ base \in SUBSET S /\ nxt \in [S \ base -> S]
  /\ b0 \in [base -> V] /\ h \in [S \X V -> V]
  /\ \A x \in S \ base : m[nxt[x]] < m[x]

\* f is a solution of it.
Solves(f, S, V, base, nxt, b0, h) ==
  /\ f \in [S -> V]
  /\ \A x \in S : f[x] = IF x \in base THEN b0[x] ELSE h[<<x, f[nxt[x]]>>]

\* Such a recursion has a solution: the recursive definitions of the decoder
\* define something.
LEMMA Recursion ==
  \A S, V, m, base, nxt, b0, h :
     Recurs(S, V, m, base, nxt, b0, h) => \E f : Solves(f, S, V, base, nxt, b0, h)
<1> SUFFICES ASSUME NEW S, NEW V, NEW m, NEW base, NEW nxt, NEW b0, NEW h,
                    Recurs(S, V, m, base, nxt, b0, h)
             PROVE  \E f : Solves(f, S, V, base, nxt, b0, h)
  OBVIOUS
<1> USE DEF Recurs
<1> DEFINE Up(n) == {x \in S : m[x] < n}
           Sol(n) == {f \in [Up(n) -> V] :
                        \A x \in Up(n) : f[x] = IF x \in base THEN b0[x] ELSE h[<<x, f[nxt[x]]>>]}
<1>1. ASSUME NEW n \in Nat, NEW k \in Nat, NEW f \in Sol(n), NEW g \in Sol(k)
      PROVE  \A x \in Up(n) \cap Up(k) : f[x] = g[x]
  <2> DEFINE Bad == {x \in Up(n) \cap Up(k) : f[x] # g[x]}
             T == {m[x] : x \in Bad}
  <2> SUFFICES ASSUME Bad # {} PROVE FALSE
    OBVIOUS
  <2>1. PICK x \in Bad : \A y \in Bad : m[x] <= m[y]
    <3>1. T \subseteq Nat /\ T # {}
      OBVIOUS
    <3>2. PICK t \in T : \A u \in T : t <= u
      BY <3>1, LeastOf
    <3> QED BY <3>2
  <2>2. x \notin base
    OBVIOUS
  <2>3. nxt[x] \in S /\ m[nxt[x]] < m[x] /\ m[nxt[x]] \in Nat /\ m[x] \in Nat
    BY <2>2
  <2>4. nxt[x] \in Up(n) \cap Up(k)
    BY <2>3
  <2>5. nxt[x] \notin Bad
    BY <2>1, <2>3
  <2>6. f[nxt[x]] = g[nxt[x]]
    BY <2>4, <2>5
  <2> QED BY <2>2, <2>6
<1>2. \A n \in Nat : Sol(n) # {}
  <2> DEFINE T == {n \in Nat : Sol(n) = {}}
  <2> SUFFICES ASSUME T # {} PROVE FALSE
    OBVIOUS
  <2>1. PICK n \in T : \A k \in T : n <= k
    BY LeastOf
  <2>2. n # 0
    <3>1. SUFFICES ASSUME n = 0 PROVE FALSE
      OBVIOUS
    <3>2. Up(0) = {}
      OBVIOUS
    <3>3. [x \in Up(0) |-> x] \in Sol(0)
      BY <3>2
    <3> QED BY <3>1, <3>3
  <2>3. n - 1 \in Nat /\ n - 1 \notin T
    BY <2>1, <2>2
  <2>4. PICK f \in Sol(n - 1) : TRUE
    BY <2>3
  <2> DEFINE g == [x \in Up(n) |-> IF x \in base THEN b0[x] ELSE h[<<x, f[nxt[x]]>>]]
  <2>5. \A x \in Up(n) \ base : nxt[x] \in Up(n - 1)
    BY <2>3
  <2>6. g \in [Up(n) -> V]
    BY <2>5
  <2>7. \A x \in Up(n - 1) : x \in Up(n) /\ g[x] = f[x]
    BY <2>3
  <2>8. ASSUME NEW x \in Up(n)
        PROVE  g[x] = IF x \in base THEN b0[x] ELSE h[<<x, g[nxt[x]]>>]
    BY <2>5, <2>7
  <2>9. g \in Sol(n)
    BY <2>6, <2>8
  <2> QED BY <2>9
<1> DEFINE F == [x \in S |-> (CHOOSE f \in Sol(m[x] + 1) : TRUE)[x]]
<1>3. ASSUME NEW x \in S
      PROVE  \E g \in Sol(m[x] + 1) : g = (CHOOSE f \in Sol(m[x] + 1) : TRUE) /\ F[x] = g[x]
  <2>1. m[x] + 1 \in Nat
    OBVIOUS
  <2> QED BY <2>1, <1>2
<1>4. ASSUME NEW x \in S, NEW n \in Nat, NEW f \in Sol(n), m[x] < n
      PROVE  F[x] = f[x]
  <2>1. m[x] + 1 \in Nat /\ m[x] < m[x] + 1 /\ x \in Up(n) /\ x \in Up(m[x] + 1)
    BY <1>4
  <2>2. PICK g \in Sol(m[x] + 1) : F[x] = g[x]
    BY <1>3
  <2>3. \A y \in Up(n) \cap Up(m[x] + 1) : f[y] = g[y]
    <3> HIDE DEF Sol
    <3> QED BY <1>1, <2>1
  <2> HIDE DEF Sol, F
  <2> QED BY <2>1, <2>2, <2>3
<1>5. ASSUME NEW x \in S
      PROVE  /\ F[x] \in V
             /\ F[x] = IF x \in base THEN b0[x] ELSE h[<<x, F[nxt[x]]>>]
  <2>1. m[x] + 1 \in Nat /\ m[x] < m[x] + 1 /\ x \in Up(m[x] + 1)
    OBVIOUS
  <2>2. PICK g \in Sol(m[x] + 1) : F[x] = g[x]
    BY <1>3
  <2>3. CASE x \in base
    BY <2>1, <2>2, <2>3
  <2>4. CASE x \notin base
    <3>1. nxt[x] \in S /\ m[nxt[x]] < m[x] + 1
      BY <2>4
    <3>2. F[nxt[x]] = g[nxt[x]]
      <4> HIDE DEF Sol, F
      <4> QED BY <1>4, <2>1, <3>1
    <3> QED BY <2>1, <2>2, <2>4, <3>2
  <2> QED BY <2>3, <2>4
<1>6. F \in [S -> V]
  BY <1>5
<1>7. Solves(F, S, V, base, nxt, b0, h)
  <2> HIDE DEF F
  <2> QED BY <1>5, <1>6 DEF Solves
<1> QED BY <1>7

-----------------------------------------------------------------------------
(* The decoder's answers, and where a paste and a CSI end.                 *)

\* What keys, events and answers are.
Keys == Byte \cup {"", "up", "home", "rune"}
InputEvents == [kind : {"none", "key", "alt", "mouse", "paste"}, key : Keys, text : Seq(Byte)]
Results == [ok : BOOLEAN, n : Nat, ev : InputEvents]

\* The markers are six bytes long.
LEMMA Markers == /\ pasteStart \in Seq(Byte) /\ Len(pasteStart) = 6
                 /\ pasteEnd \in Seq(Byte) /\ Len(pasteEnd) = 6
BY DEF pasteStart, pasteEnd, Byte

\* The bytes of the markers.
LEMMA StartBytes ==
  /\ pasteStart[1] = "esc" /\ pasteStart[2] = "[" /\ pasteStart[3] = "2"
  /\ pasteStart[4] = "0" /\ pasteStart[5] = "0" /\ pasteStart[6] = "~"
BY DEF pasteStart

\* The closing bracket differs from the opening one in its fifth byte.
LEMMA EndBytes ==
  /\ pasteEnd[1] = "esc" /\ pasteEnd[2] = "[" /\ pasteEnd[3] = "2"
  /\ pasteEnd[4] = "0" /\ pasteEnd[5] = "1" /\ pasteEnd[6] = "~"
BY DEF pasteEnd

\* A buffer is a marker when its bytes are.
LEMMA MarkerBytes ==
  ASSUME NEW s \in Seq(Byte)
  PROVE  /\ s = pasteStart <=> /\ Len(s) = 6 /\ s[1] = "esc" /\ s[2] = "[" /\ s[3] = "2"
                              /\ s[4] = "0" /\ s[5] = "0" /\ s[6] = "~"
         /\ s = pasteEnd <=> /\ Len(s) = 6 /\ s[1] = "esc" /\ s[2] = "[" /\ s[3] = "2"
                            /\ s[4] = "0" /\ s[5] = "1" /\ s[6] = "~"
<1> USE StartBytes, EndBytes
<1>3. ASSUME NEW t \in Seq(Byte), Len(s) = 6, Len(t) = 6, s[1] = t[1], s[2] = t[2], s[3] = t[3],
             s[4] = t[4], s[5] = t[5], s[6] = t[6]
      PROVE  s = t
  <2>1. \A i \in 1..Len(s) : s[i] = t[i]
    BY <1>3
  <2> QED BY <1>3, <2>1, SeqEqual
<1>4. s = pasteStart <=> /\ Len(s) = 6 /\ s[1] = "esc" /\ s[2] = "[" /\ s[3] = "2"
                         /\ s[4] = "0" /\ s[5] = "0" /\ s[6] = "~"
  BY <1>3, Markers
<1>5. s = pasteEnd <=> /\ Len(s) = 6 /\ s[1] = "esc" /\ s[2] = "[" /\ s[3] = "2"
                       /\ s[4] = "0" /\ s[5] = "1" /\ s[6] = "~"
  BY <1>3, Markers
<1> QED BY <1>4, <1>5

\* The three shapes of an answer are answers.
LEMMA AnswersAreResults ==
  /\ Incomplete \in Results
  /\ \A n \in Nat : Skip(n) \in Results
  /\ \A n \in Nat, ev \in InputEvents : Give(ev, n) \in Results
  /\ \A k \in Keys : KeyOf(k) \in InputEvents /\ AltOf(k) \in InputEvents
  /\ MouseOf \in InputEvents
  /\ \A t \in Seq(Byte) : PasteOf(t) \in InputEvents
  /\ EscAlone \in Results
<1>1. <<>> \in Seq(Byte) /\ "" \in Keys /\ "esc" \in Keys
  BY DEF Keys, Byte
<1>2. /\ \A k \in Keys : KeyOf(k) \in InputEvents /\ AltOf(k) \in InputEvents
      /\ MouseOf \in InputEvents
      /\ \A t \in Seq(Byte) : PasteOf(t) \in InputEvents
  BY <1>1 DEF KeyOf, AltOf, MouseOf, PasteOf, Event, InputEvents
<1>3. Incomplete \in Results
  BY <1>1 DEF Incomplete, Event, Results, InputEvents
<1>4. \A n \in Nat : Skip(n) \in Results
  BY <1>1 DEF Skip, Incomplete, Event, Results, InputEvents
<1>5. \A n \in Nat, ev \in InputEvents : Give(ev, n) \in Results
  BY DEF Give, Results
<1>6. EscAlone \in Results
  BY <1>1, <1>2, <1>5 DEF EscAlone
<1> QED BY <1>2, <1>3, <1>4, <1>5, <1>6

\* An answer is one of three: no bytes, a skip of some, or an event.
LEMMA Answers ==
  /\ Incomplete.ok = FALSE /\ Incomplete.n = 0
  /\ \A n : Skip(n).ok = FALSE /\ Skip(n).n = n /\ Skip(n).ev.kind = "none" /\ Skip(n).ev.key = ""
  /\ \A ev, n : Give(ev, n).ok /\ Give(ev, n).n = n /\ Give(ev, n).ev = ev
  /\ \A k : KeyOf(k).kind = "key" /\ KeyOf(k).key = k /\ AltOf(k).kind = "alt" /\ AltOf(k).key = k
  /\ MouseOf.kind = "mouse" /\ MouseOf.key = ""
  /\ \A t : PasteOf(t).kind = "paste" /\ PasteOf(t).key = ""
  /\ EscAlone.ok /\ EscAlone.n = 1 /\ EscAlone.ev.kind = "key" /\ EscAlone.ev.key = "esc"
BY DEF Incomplete, Skip, Give, KeyOf, AltOf, MouseOf, PasteOf, EscAlone, Event

\* A paste ends at the first closing bracket behind its n bytes of opening, if there is one.
LEMMA PasteEnds ==
  ASSUME NEW b \in Seq(Byte), NEW n \in Nat
  PROVE  \/ /\ decodePaste(b, n) = Incomplete
            /\ \A i \in n..(Len(b) - 6) : SubSeq(b, i + 1, i + 6) # pasteEnd
         \/ \E i \in n..(Len(b) - 6) :
              /\ SubSeq(b, i + 1, i + 6) = pasteEnd
              /\ \A j \in n..(Len(b) - 6) : SubSeq(b, j + 1, j + 6) = pasteEnd => i <= j
              /\ decodePaste(b, n) = Give(PasteOf(SubSeq(b, n + 1, i)), i + 6)
<1> DEFINE ends == {i \in n..(Len(b) - 6) : SubSeq(b, i + 1, i + 6) = pasteEnd}
<1>1. decodePaste(b, n) = IF ends = {} THEN Incomplete
                          ELSE LET i == CHOOSE i \in ends : \A j \in ends : i <= j
                               IN Give(PasteOf(SubSeq(b, n + 1, i)), i + 6)
  BY Markers DEF decodePaste
<1>2. CASE ends = {}
  BY <1>1, <1>2
<1>3. CASE ends # {}
  <2>1. ends \subseteq Nat
    OBVIOUS
  <2>2. \E i \in ends : \A j \in ends : i <= j
    BY <1>3, <2>1, LeastOf
  <2> DEFINE i == CHOOSE i \in ends : \A j \in ends : i <= j
  <2>3. i \in ends /\ \A j \in ends : i <= j
    BY <2>2
  <2> QED BY <1>1, <1>3, <2>3
<1> QED BY <1>2, <1>3

\* A CSI ends at the first byte that is no parameter, if there is one.
LEMMA CSIEnds ==
  ASSUME NEW b \in Seq(Byte), NEW d \in Deadlines
  PROVE  \/ /\ \A i \in 3..Len(b) : b[i] \in Params
            /\ decodeCSI(b, d) = IF d = "live" \/ (d = "idled" /\ splitPasteMarker(b))
                                 THEN Incomplete ELSE EscAlone
         \/ \E i \in 3..Len(b) :
              /\ b[i] \notin Params /\ \A j \in 3..(i - 1) : b[j] \in Params
              /\ decodeCSI(b, d) = csiEvent(b, d, SubSeq(b, 3, i - 1), b[i], i)
<1> DEFINE finals == {i \in 3..Len(b) : b[i] \notin Params}
<1>1. decodeCSI(b, d) =
        IF finals = {}
        THEN IF d = "live" \/ (d = "idled" /\ splitPasteMarker(b)) THEN Incomplete ELSE EscAlone
        ELSE LET i == CHOOSE i \in finals : \A j \in finals : i <= j
             IN csiEvent(b, d, SubSeq(b, 3, i - 1), b[i], i)
  BY DEF decodeCSI
<1>2. CASE finals = {}
  BY <1>1, <1>2
<1>3. CASE finals # {}
  <2>1. finals \subseteq Nat
    OBVIOUS
  <2>2. \E i \in finals : \A j \in finals : i <= j
    BY <1>3, <2>1, LeastOf
  <2> DEFINE i == CHOOSE i \in finals : \A j \in finals : i <= j
  <2>3. i \in finals /\ \A j \in finals : i <= j
    BY <2>2
  <2>4. \A j \in 3..(i - 1) : b[j] \in Params
    BY <2>3
  <2> QED BY <1>1, <1>3, <2>3, <2>4
<1> QED BY <1>2, <1>3

\* The parameters of an opening bracket.
OpeningParams == <<"2", "0", "0">>

\* They are the three bytes between the opening bracket's ESC [ and its ~.
LEMMA OpeningParamBytes == /\ Len(OpeningParams) = 3
                           /\ OpeningParams[1] = "2" /\ OpeningParams[2] = "0" /\ OpeningParams[3] = "0"
BY DEF OpeningParams

\* What a CSI of n bytes may be: a mouse report, a skip, a paste, an X10 report or a key.
CSIShape(r, b, d, params, final, n) ==
  \/ r = Give(MouseOf, n) /\ final \in {"M", "m"}
  \/ r = Skip(n) /\ ~(final = "~" /\ params = OpeningParams)
  \/ r = decodePaste(b, n) /\ final = "~" /\ params = OpeningParams
  \/ r = decodeX10Mouse(b, d) /\ final = "M" /\ Len(params) = 0
  \/ r = Give(KeyOf("up"), n) /\ final = "A"
  \/ r = Give(KeyOf("home"), n) /\ final = "~" /\ Len(params) = 1

\* A CSI is one of them.
LEMMA CSIShapes ==
  ASSUME NEW b, NEW d, NEW params \in Seq(Byte), NEW final \in Byte, NEW n
  PROVE  CSIShape(csiEvent(b, d, params, final, n), b, d, params, final, n)
<1> USE DEF CSIShape
<1>1. Head(<<>> \o <<"">>) # "<"
  <2>1. <<>> \o <<"">> = <<"">>
    OBVIOUS
  <2> QED BY <2>1
<1>2. CASE Head(params \o <<"">>) = "<" /\ final \in {"M", "m"}
  <2>1. params # <<>> /\ final # "~" /\ final # "A"
    BY <1>1, <1>2
  <2>2. csiEvent(b, d, params, final, n) = IF Len(params) > 1 THEN Give(MouseOf, n) ELSE Skip(n)
    BY <1>2, <2>1 DEF csiEvent
  <2> QED BY <1>2, <2>2
<1>3. CASE ~(Head(params \o <<"">>) = "<" /\ final \in {"M", "m"}) /\ final = "~"
  <2>1. CASE params = <<"2", "0", "0">>
    BY <1>3, <2>1 DEF csiEvent, OpeningParams
  <2>2. CASE params = <<"2", "0", "1">> /\ params # <<"2", "0", "0">>
    <3>1. csiEvent(b, d, params, final, n) = Skip(n)
      BY <1>3, <2>2 DEF csiEvent
    <3> QED BY <2>2, <3>1 DEF OpeningParams
  <2>3. CASE params # <<"2", "0", "1">> /\ params # <<"2", "0", "0">>
    <3>1. csiEvent(b, d, params, final, n) = IF params = <<"1">> THEN Give(KeyOf("home"), n) ELSE Skip(n)
      BY <1>3, <2>3 DEF csiEvent
    <3>2. params = <<"1">> => Len(params) = 1
      OBVIOUS
    <3>3. params # OpeningParams
      BY <2>3 DEF OpeningParams
    <3>4. CASE params = <<"1">>
      <4>1. csiEvent(b, d, params, final, n) = Give(KeyOf("home"), n)
        BY <3>1, <3>4
      <4> QED BY <1>3, <3>2, <3>4, <4>1
    <3>5. CASE params # <<"1">>
      BY <3>1, <3>3, <3>5
    <3> QED BY <3>4, <3>5
  <2> QED BY <2>1, <2>2, <2>3
<1>4. CASE ~(Head(params \o <<"">>) = "<" /\ final \in {"M", "m"}) /\ final = "M"
  <2>1. CASE params = <<>>
    BY <1>4, <2>1 DEF csiEvent
  <2>2. CASE params # <<>>
    BY <1>4, <2>2 DEF csiEvent
  <2> QED BY <2>1, <2>2
<1>5. CASE ~(Head(params \o <<"">>) = "<" /\ final \in {"M", "m"}) /\ final # "M" /\ final # "~"
  BY <1>5 DEF csiEvent
<1> QED BY <1>2, <1>3, <1>4, <1>5

\* Each of the decoders answers.
LEMMA DecodersAnswer ==
  ASSUME NEW b \in Seq(Byte), NEW d \in Deadlines
  PROVE  /\ \A n \in Nat : decodePaste(b, n) \in Results
         /\ decodeCSI(b, d) \in Results
         /\ decodeSS3(b, d) \in Results
         /\ decodeRune(b, d) \in Results
         /\ \A after \in Results : decodeAlt(after, d) \in Results
<1>1. {"", "up", "home", "rune", "esc"} \subseteq Keys
  BY DEF Keys, Byte
<1>2. ASSUME NEW n \in Nat PROVE decodePaste(b, n) \in Results
  <2>1. CASE decodePaste(b, n) = Incomplete
    BY <2>1, AnswersAreResults
  <2>2. ASSUME NEW i \in n..(Len(b) - 6), decodePaste(b, n) = Give(PasteOf(SubSeq(b, n + 1, i)), i + 6)
        PROVE  decodePaste(b, n) \in Results
    <3>1. SubSeq(b, n + 1, i) \in Seq(Byte) /\ i + 6 \in Nat
      OBVIOUS
    <3> QED BY <2>2, <3>1, AnswersAreResults
  <2> QED BY <2>1, <2>2, PasteEnds
<1>3. decodeX10Mouse(b, d) \in Results
  BY AnswersAreResults, 6 \in Nat DEF decodeX10Mouse
<1>4. decodeCSI(b, d) \in Results
  <2>1. CASE decodeCSI(b, d) \in {Incomplete, EscAlone}
    BY <2>1, AnswersAreResults
  <2>2. ASSUME NEW i \in 3..Len(b), decodeCSI(b, d) = csiEvent(b, d, SubSeq(b, 3, i - 1), b[i], i)
        PROVE  decodeCSI(b, d) \in Results
    <3> DEFINE r == decodeCSI(b, d)
    <3>1. i \in Nat /\ SubSeq(b, 3, i - 1) \in Seq(Byte) /\ b[i] \in Byte
      OBVIOUS
    <3>2. CSIShape(r, b, d, SubSeq(b, 3, i - 1), b[i], i)
      BY <2>2, <3>1, CSIShapes
    <3>3. \/ r = Give(MouseOf, i) \/ r = Skip(i) \/ r = decodePaste(b, i)
          \/ r = decodeX10Mouse(b, d) \/ r = Give(KeyOf("up"), i) \/ r = Give(KeyOf("home"), i)
      BY <3>2 DEF CSIShape
    <3> QED BY <1>1, <1>2, <1>3, <3>1, <3>3, AnswersAreResults
  <2> QED BY <2>1, <2>2, CSIEnds
<1>5. decodeSS3(b, d) \in Results
  BY <1>1, AnswersAreResults, 3 \in Nat DEF decodeSS3
<1>6. decodeRune(b, d) \in Results
  BY <1>1, AnswersAreResults, 1 \in Nat, 2 \in Nat DEF decodeRune
<1>7. ASSUME NEW after \in Results PROVE decodeAlt(after, d) \in Results
  <2>1. after.ev.key \in Keys /\ after.n + 1 \in Nat
    BY DEF Results, InputEvents
  <2> QED BY <2>1, AnswersAreResults DEF decodeAlt
<1> QED BY <1>2, <1>4, <1>5, <1>6, <1>7

\* What decode says of b when "after" is what it says of b[1:].
Decode(b, d, after) ==
  CASE b = <<>> -> Incomplete
    [] b # <<>> /\ b[1] \in {"lead", "more"} -> decodeRune(b, d)
    [] b # <<>> /\ b[1] \notin {"lead", "more", "esc"} -> Give(KeyOf(b[1]), 1)
    [] b = <<"esc">> -> IF d = "live" THEN Incomplete ELSE EscAlone
    [] Len(b) > 1 /\ b[1] = "esc" /\ b[2] = "[" -> decodeCSI(b, d)
    [] Len(b) > 1 /\ b[1] = "esc" /\ b[2] = "O" -> decodeSS3(b, d)
    [] OTHER -> decodeAlt(after, d)

\* The first byte of a buffer that has one, and the buffers of two and more.
LEMMA FirstByte ==
  \A b \in Seq(Byte) : /\ Len(b) \in Nat
                       /\ b = <<>> \/ Len(b) = 1 \/ Len(b) > 1
                       /\ b # <<>> => Len(b) >= 1 /\ b[1] \in Byte
<1> SUFFICES ASSUME NEW b \in Seq(Byte)
             PROVE  /\ Len(b) \in Nat
                    /\ b = <<>> \/ Len(b) = 1 \/ Len(b) > 1
                    /\ b # <<>> => Len(b) >= 1 /\ b[1] \in Byte
  OBVIOUS
<1>1. Len(b) \in Nat
  OBVIOUS
<1>2. Len(b) = 0 => b = <<>>
  OBVIOUS
<1>3. Len(b) >= 1 => b[1] \in Byte
  OBVIOUS
<1> QED BY <1>1, <1>2, <1>3

\* A buffer of two bytes or more is neither of the two short ones.
LEMMA NotShort == \A b \in Seq(Byte) : Len(b) > 1 => b # <<>> /\ b # <<"esc">>
<1> SUFFICES ASSUME NEW b \in Seq(Byte), Len(b) > 1 PROVE b # <<>> /\ b # <<"esc">>
  OBVIOUS
<1>1. Len(<<"esc">>) = 1
  OBVIOUS
<1>2. CASE b = <<"esc">>
  BY <1>1, <1>2
<1>3. CASE b = <<>>
  BY <1>3
<1> QED BY <1>2, <1>3

\* An ESC and something that is no sequence of its own.
Meta(b) == Len(b) > 1 /\ b[1] = "esc" /\ b[2] # "[" /\ b[2] # "O"

\* Of any other buffer decode asks nothing about b[1:].
LEMMA DecodeCases ==
  ASSUME NEW b \in Seq(Byte), NEW d, NEW after, NEW other
  PROVE  /\ Meta(b) => Decode(b, d, after) = decodeAlt(after, d)
         /\ ~Meta(b) => Decode(b, d, after) = Decode(b, d, other)
<1>1. CASE b = <<>>
  BY <1>1 DEF Decode, Meta
<1>2. CASE b = <<"esc">>
  BY <1>2 DEF Decode, Meta
<1>3. CASE Len(b) >= 1 /\ b[1] # "esc"
  BY <1>3 DEF Decode, Meta
<1>4. CASE Len(b) > 1 /\ b[1] = "esc"
  <2>1. b # <<>> /\ b # <<"esc">>
    BY <1>4, NotShort
  <2> QED BY <1>4, <2>1 DEF Decode, Meta
<1>5. Len(b) = 1 /\ b[1] = "esc" => b = <<"esc">>
  OBVIOUS
<1>6. b = <<>> \/ b = <<"esc">> \/ (Len(b) >= 1 /\ b[1] # "esc") \/ (Len(b) > 1 /\ b[1] = "esc")
  <2>1. b = <<>> \/ Len(b) = 1 \/ Len(b) > 1
    BY FirstByte
  <2>2. CASE Len(b) = 1
    BY <1>5, <2>2
  <2>3. CASE Len(b) > 1
    BY <2>3
  <2> QED BY <2>1, <2>2, <2>3
<1> QED BY <1>1, <1>2, <1>3, <1>4, <1>6

\* decode recurs on a shorter buffer each time, so its equation has a solution:
\* it answers, and answers what its definition says.
LEMMA DecodeEquation ==
  ASSUME NEW b \in Seq(Byte), NEW d \in Deadlines
  PROVE  decode(b, d) \in Results /\ decode(b, d) = Decode(b, d, decode(Tail(b), d))
<1> DEFINE S == Seq(Byte)
           base == {c \in S : ~Meta(c)}
           m == [c \in S |-> Len(c)]
           nxt == [c \in S \ base |-> Tail(c)]
           b0 == [c \in base |-> Decode(c, d, Incomplete)]
           h == [p \in S \X Results |-> decodeAlt(p[2], d)]
           IsDec(f) == f = [c \in S |-> Decode(c, d, f[Tail(c)])]
           dec == CHOOSE f : IsDec(f)
<1>1. ASSUME NEW c \in S, NEW after \in Results PROVE Decode(c, d, after) \in Results
  <2>1. c # <<>> => c[1] \in Keys
    BY FirstByte DEF Keys
  <2>2. CASE Meta(c)
    BY <2>2, DecodeCases, DecodersAnswer
  <2>3. CASE ~Meta(c)
    <3>1. CASE c = <<>>
      BY <3>1, AnswersAreResults DEF Decode
    <3>2. CASE c = <<"esc">>
      BY <3>2, AnswersAreResults DEF Decode
    <3>3. CASE Len(c) >= 1 /\ c[1] # "esc"
      BY <2>1, <3>3, AnswersAreResults, DecodersAnswer, 1 \in Nat DEF Decode
    <3>4. CASE Len(c) > 1 /\ c[1] = "esc"
      <4>1. c # <<>> /\ c # <<"esc">> /\ (c[2] = "[" \/ c[2] = "O")
        BY <2>3, <3>4, NotShort DEF Meta
      <4> QED BY <3>4, <4>1, DecodersAnswer DEF Decode
    <3>5. Len(c) = 1 /\ c[1] = "esc" => c = <<"esc">>
      OBVIOUS
    <3>6. c = <<>> \/ c = <<"esc">> \/ (Len(c) >= 1 /\ c[1] # "esc") \/ (Len(c) > 1 /\ c[1] = "esc")
      <4>1. c = <<>> \/ Len(c) = 1 \/ Len(c) > 1
        BY FirstByte
      <4>2. CASE Len(c) = 1
        BY <3>5, <4>2
      <4>3. CASE Len(c) > 1
        BY <4>3
      <4> QED BY <4>1, <4>2, <4>3
    <3> QED BY <3>1, <3>2, <3>3, <3>4, <3>6
  <2> QED BY <2>2, <2>3
<1>2. m \in [S -> Nat] /\ base \in SUBSET S
  OBVIOUS
<1>3. \A c \in S \ base : c # <<>> /\ Tail(c) \in S /\ Len(Tail(c)) < Len(c)
  BY DEF Meta
<1>4. nxt \in [S \ base -> S] /\ \A c \in S \ base : m[nxt[c]] < m[c]
  BY <1>3
<1>5. b0 \in [base -> Results] /\ h \in [S \X Results -> Results]
  <2>1. \A c \in base : Decode(c, d, Incomplete) \in Results
    BY <1>1, AnswersAreResults
  <2>2. \A p \in S \X Results : decodeAlt(p[2], d) \in Results
    BY DecodersAnswer
  <2> QED BY <2>1, <2>2
<1>6. PICK f : /\ f \in [S -> Results]
               /\ \A c \in S : f[c] = IF c \in base THEN b0[c] ELSE h[<<c, f[nxt[c]]>>]
  <2> HIDE DEF S, base, m, nxt, b0, h
  <2>1. Recurs(S, Results, m, base, nxt, b0, h)
    BY <1>2, <1>4, <1>5 DEF Recurs
  <2>2. PICK f : Solves(f, S, Results, base, nxt, b0, h)
    BY <2>1, Recursion
  <2> QED BY <2>2 DEF Solves
<1>7. IsDec(f)
  <2>1. ASSUME NEW c \in S PROVE f[c] = Decode(c, d, f[Tail(c)])
    <3>1. CASE ~Meta(c)
      <4>1. f[c] = Decode(c, d, Incomplete)
        BY <1>6, <3>1
      <4>2. Decode(c, d, Incomplete) = Decode(c, d, f[Tail(c)])
        BY <3>1, DecodeCases
      <4> QED BY <4>1, <4>2
    <3>2. CASE Meta(c)
      <4>1. c \notin base /\ Tail(c) \in S
        BY <1>3, <3>2
      <4>2. f[Tail(c)] \in Results
        BY <1>6, <4>1
      <4>3. f[c] = decodeAlt(f[Tail(c)], d)
        BY <1>6, <4>1, <4>2
      <4> QED BY <3>2, <4>3, DecodeCases
    <3> QED BY <3>1, <3>2
  <2> QED BY <1>6, <2>1
<1>8. IsDec(dec)
  <2> HIDE DEF IsDec
  <2> QED BY <1>7
<1>9. \A c \in S : decode(c, d) = dec[c]
  BY DEF decode, Decode
<1>10. \A c \in S : dec[c] = Decode(c, d, dec[Tail(c)])
  BY <1>8
<1>11. ASSUME NEW c \in S PROVE dec[c] \in Results
  <2> HIDE DEF dec
  <2> DEFINE Bad == {e \in S : dec[e] \notin Results}
             T == {Len(g) : g \in Bad}
  <2> SUFFICES ASSUME Bad # {} PROVE FALSE
    OBVIOUS
  <2>1. PICK e \in Bad : \A g \in Bad : Len(e) <= Len(g)
    <3>1. T \subseteq Nat /\ T # {}
      BY FirstByte
    <3>2. PICK t \in T : \A u \in T : t <= u
      BY <3>1, LeastOf
    <3> QED BY <3>2
  <2>2. dec[e] = Decode(e, d, dec[Tail(e)])
    BY <1>10
  <2>3. CASE Meta(e)
    <3>1. Tail(e) \in S /\ Len(Tail(e)) < Len(e)
      BY <1>3, <2>3
    <3>2. Tail(e) \notin Bad
      <4>1. Len(e) \in Nat /\ Len(Tail(e)) \in Nat
        BY <3>1, FirstByte
      <4>2. ~(Len(e) <= Len(Tail(e)))
        BY <3>1, <4>1
      <4> HIDE DEF Bad
      <4> QED BY <2>1, <4>2
    <3>3. dec[Tail(e)] \in Results
      BY <3>1, <3>2
    <3> QED BY <1>1, <2>2, <3>3
  <2>4. CASE ~Meta(e)
    <3>1. e \in Seq(Byte)
      OBVIOUS
    <3>2. ASSUME NEW after PROVE Decode(e, d, after) = Decode(e, d, Incomplete)
      BY <2>4, <3>1, DecodeCases
    <3> QED BY <1>1, <2>2, <3>2, AnswersAreResults
  <2> QED BY <2>3, <2>4
<1>12. (b \in S /\ Tail(b) \in S) \/ b = <<>>
  OBVIOUS
<1>13. CASE b = <<>>
  <2>1. ~Meta(b)
    BY <1>13 DEF Meta
  <2>2. Decode(b, d, dec[Tail(b)]) = Decode(b, d, decode(Tail(b), d))
    BY <2>1, DecodeCases
  <2> HIDE DEF dec
  <2> QED BY <1>9, <1>10, <1>11, <2>2
<1>14. CASE b # <<>>
  <2>1. Tail(b) \in S
    BY <1>14
  <2> HIDE DEF dec
  <2> QED BY <1>9, <1>10, <1>11, <2>1
<1> QED BY <1>13, <1>14

-----------------------------------------------------------------------------
(* Induction over buffers, and the shapes that an answer has.              *)

\* Induction over buffers, as decode recurs on them: a set that has b whenever
\* it has the b[1:] that decode asks about has every buffer.
LEMMA BufferInduction ==
  \A B : /\ B \subseteq Seq(Byte)
         /\ \A b \in Seq(Byte) : (Meta(b) => Tail(b) \in B) => b \in B
         => B = Seq(Byte)
<1> SUFFICES ASSUME NEW B, B \subseteq Seq(Byte),
                    \A b \in Seq(Byte) : (Meta(b) => Tail(b) \in B) => b \in B
             PROVE  B = Seq(Byte)
  OBVIOUS
<1> DEFINE Bad == Seq(Byte) \ B
           T == {Len(g) : g \in Bad}
<1> SUFFICES ASSUME Bad # {} PROVE FALSE
  OBVIOUS
<1>1. PICK b \in Bad : \A g \in Bad : Len(b) <= Len(g)
  <2>1. T \subseteq Nat /\ T # {}
    BY FirstByte
  <2>2. PICK t \in T : \A u \in T : t <= u
    BY <2>1, LeastOf
  <2> QED BY <2>2
<1>2. Meta(b)
  OBVIOUS
<1>3. b # <<>> /\ Tail(b) \in Seq(Byte) /\ Len(Tail(b)) < Len(b)
  BY <1>2 DEF Meta
<1>4. ~(Len(b) <= Len(Tail(b)))
  BY <1>3, FirstByte
<1>5. Tail(b) \notin Bad
  BY <1>1, <1>4
<1> QED BY <1>3, <1>5

\* An ESC that is given up on: alone when the time is up, before an "O" or an
\* X10 report that is no such thing, or before a CSI that never ended.
GivenUp(b, d) ==
  /\ Len(b) >= 1 /\ b[1] = "esc"
  /\ \/ Len(b) = 1 /\ d # "live"
     \/ Len(b) > 1 /\ b[2] = "O"
     \/ Len(b) >= 3 /\ b[2] = "[" /\ b[3] = "M"
     \/ /\ Len(b) > 1 /\ b[2] = "[" /\ \A j \in 3..Len(b) : b[j] \in Params
        /\ d # "live" /\ ~(d = "idled" /\ splitPasteMarker(b))

\* The marker m is in s from its j-th byte on.
At(s, j, m) == j \in 1..(Len(s) - 5) /\ \A k \in 1..6 : s[j + k - 1] = m[k]

\* A CSI of i bytes that opens no paste, r being what it gives.
WholeCSI(b, r, i) ==
  /\ Len(b) > 1 /\ b[1] = "esc" /\ b[2] = "["
  /\ b[i] \notin Params /\ \A j \in 3..(i - 1) : b[j] \in Params
  /\ \/ r = Give(MouseOf, i) /\ b[i] \in {"M", "m"}
     \/ r = Skip(i)
     \/ r = Give(KeyOf("up"), i) /\ b[i] = "A"
     \/ r = Give(KeyOf("home"), i) /\ b[i] = "~"
  /\ ~At(b, 1, pasteStart)

\* An X10 mouse report: three bytes behind its ESC [ M, well formed or not.
X10Shape(b, r) ==
  /\ Len(b) >= 6 /\ b[1] = "esc" /\ b[2] = "[" /\ b[3] = "M"
  /\ \/ r = Give(MouseOf, 6) /\ \A k \in 4..6 : b[k] # "esc"
     \/ r = Skip(6)

\* What a buffer that is not a Meta one begins with, by its first bytes.
Shape(b, d, r) ==
  \/ r = Incomplete
  \/ r = EscAlone /\ GivenUp(b, d)
  \/ r = Give(KeyOf(b[1]), 1) /\ Len(b) >= 1 /\ b[1] # "esc"
  \/ r = Skip(1) /\ Len(b) >= 1 /\ b[1] # "esc"
  \/ r = Give(KeyOf("rune"), 2) /\ Len(b) >= 2 /\ b[1] = "lead" /\ b[2] = "more"
  \/ r = Give(KeyOf("up"), 3) /\ Len(b) >= 3 /\ b[1] = "esc" /\ b[2] = "O" /\ b[3] = "A"
  \/ \E i \in 3..Len(b) : WholeCSI(b, r, i)
  \/ r = decodePaste(b, 6) /\ At(b, 1, pasteStart)
  \/ X10Shape(b, r)

\* The parameters of an opening bracket are those of one, and its six bytes are
\* an opening bracket.
LEMMA OpeningIsSix ==
  ASSUME NEW b \in Seq(Byte), NEW i \in 3..Len(b), b[1] = "esc", b[2] = "["
  PROVE  /\ b[i] = "~" /\ SubSeq(b, 3, i - 1) = OpeningParams => i = 6 /\ At(b, 1, pasteStart)
         /\ At(b, 1, pasteStart) /\ b[i] \notin Params /\ (\A j \in 3..(i - 1) : b[j] \in Params)
              => b[i] = "~" /\ SubSeq(b, 3, i - 1) = OpeningParams
<1> DEFINE p == SubSeq(b, 3, i - 1)
<1>1. p \in Seq(Byte) /\ Len(p) = i - 3 /\ \A k \in 1..(i - 3) : p[k] = b[k + 2]
  OBVIOUS
<1>2. OpeningParams \in Seq(Byte)
  BY DEF OpeningParams, Byte
<1> HIDE DEF p
<1>3. At(b, 1, pasteStart) <=> /\ Len(b) >= 6 /\ b[3] = "2" /\ b[4] = "0" /\ b[5] = "0" /\ b[6] = "~"
  BY StartBytes DEF At
<1>4. i \in Int /\ Len(b) >= i /\ Len(b) \in Int
  OBVIOUS
<1>5. ASSUME b[i] = "~", p = OpeningParams PROVE i = 6 /\ At(b, 1, pasteStart)
  <2>1. Len(p) = 3 /\ p[1] = "2" /\ p[2] = "0" /\ p[3] = "0"
    BY <1>5, OpeningParamBytes
  <2>2. i - 3 = 3
    BY <1>1, <2>1
  <2>3. i = 6
    BY <1>4, <2>2
  <2>4. b[3] = "2" /\ b[4] = "0" /\ b[5] = "0"
    BY <1>1, <2>1, <2>3
  <2> QED BY <1>3, <1>4, <1>5, <2>3, <2>4
<1>6. ASSUME At(b, 1, pasteStart), b[i] \notin Params, \A j \in 3..(i - 1) : b[j] \in Params
      PROVE  b[i] = "~" /\ p = OpeningParams
  <2>1. b[6] \notin Params /\ b[3] \in Params /\ b[4] \in Params /\ b[5] \in Params
    BY <1>3, <1>6 DEF Params
  <2>2. i # 3 /\ i # 4 /\ i # 5
    BY <1>6, <2>1
  <2>3. ~(6 < i)
    BY <1>4, <1>6, <2>1
  <2>4. i = 6
    BY <1>4, <2>2, <2>3
  <2>5. Len(p) = 3 /\ p[1] = "2" /\ p[2] = "0" /\ p[3] = "0"
    BY <1>1, <1>3, <1>6, <2>4
  <2>6. \A k \in 1..Len(p) : p[k] = OpeningParams[k]
    BY <2>5, OpeningParamBytes
  <2>7. p = OpeningParams
    BY <1>1, <1>2, <2>5, <2>6, OpeningParamBytes, SeqEqual
  <2> QED BY <1>3, <1>6, <2>4, <2>7
<1> QED BY <1>5, <1>6 DEF p

\* A CSI has the shape of one.
LEMMA CSIHasShape ==
  ASSUME NEW b \in Seq(Byte), NEW d \in Deadlines, Len(b) > 1, b[1] = "esc", b[2] = "["
  PROVE  Shape(b, d, decodeCSI(b, d))
<1>1. CASE /\ \A i \in 3..Len(b) : b[i] \in Params
           /\ decodeCSI(b, d) = IF d = "live" \/ (d = "idled" /\ splitPasteMarker(b))
                                THEN Incomplete ELSE EscAlone
  BY <1>1 DEF Shape, GivenUp
<1>2. ASSUME NEW i \in 3..Len(b), b[i] \notin Params, \A j \in 3..(i - 1) : b[j] \in Params,
             decodeCSI(b, d) = csiEvent(b, d, SubSeq(b, 3, i - 1), b[i], i)
      PROVE  Shape(b, d, decodeCSI(b, d))
  <2> DEFINE params == SubSeq(b, 3, i - 1)
             r == decodeCSI(b, d)
  <2>1. params \in Seq(Byte) /\ Len(params) = i - 3
    OBVIOUS
  <2>2. CASE r = decodePaste(b, i) /\ b[i] = "~" /\ params = OpeningParams
    BY <2>2, OpeningIsSix DEF Shape
  <2>0. At(b, 1, pasteStart) => b[i] = "~" /\ params = OpeningParams
    BY <1>2, OpeningIsSix
  <2>3. CASE r = decodeX10Mouse(b, d) /\ b[i] = "M" /\ Len(params) = 0
    <3>1. i = 3
      BY <2>1, <2>3
    <3>2. CASE Len(b) >= 6
      <4>1. \/ r = Give(MouseOf, 6) /\ \A k \in 4..6 : b[k] # "esc"
            \/ r = Skip(6)
        BY <2>3, <3>2 DEF decodeX10Mouse, Malformed
      <4> HIDE DEF r
      <4>2. X10Shape(b, r)
        BY <1>2, <2>3, <3>1, <3>2, <4>1 DEF X10Shape
      <4> QED BY <4>2 DEF Shape, r
    <3>3. CASE Len(b) < 6 /\ d # "live"
      BY <2>3, <3>1, <3>3 DEF decodeX10Mouse, Shape, GivenUp
    <3>4. CASE Len(b) < 6 /\ d = "live"
      BY <2>3, <3>4 DEF decodeX10Mouse, Shape
    <3> QED BY <3>2, <3>3, <3>4
  <2>4. CASE \/ r = Give(MouseOf, i) /\ b[i] \in {"M", "m"}
             \/ r = Skip(i) /\ ~(b[i] = "~" /\ params = OpeningParams)
             \/ r = Give(KeyOf("up"), i) /\ b[i] = "A"
             \/ r = Give(KeyOf("home"), i) /\ b[i] = "~" /\ Len(params) = 1
    <3>1. ~At(b, 1, pasteStart)
      <4> HIDE DEF params
      <4> QED BY <2>0, <2>4, OpeningParamBytes
    <3> QED BY <1>2, <2>4, <3>1 DEF Shape, WholeCSI
  <2>5. CSIShape(r, b, d, params, b[i], i)
    <3>1. b[i] \in Byte
      OBVIOUS
    <3> HIDE DEF params
    <3> QED BY <1>2, <2>1, <3>1, CSIShapes DEF params
  <2> HIDE DEF params, r
  <2>6. \/ r = decodePaste(b, i) /\ b[i] = "~" /\ params = OpeningParams
        \/ r = decodeX10Mouse(b, d) /\ b[i] = "M" /\ Len(params) = 0
        \/ r = Give(MouseOf, i) /\ b[i] \in {"M", "m"}
        \/ r = Skip(i) /\ ~(b[i] = "~" /\ params = OpeningParams)
        \/ r = Give(KeyOf("up"), i) /\ b[i] = "A"
        \/ r = Give(KeyOf("home"), i) /\ b[i] = "~" /\ Len(params) = 1
    BY <2>5 DEF CSIShape
  <2> QED BY <2>2, <2>3, <2>4, <2>6 DEF r
<1> QED BY <1>1, <1>2, CSIEnds

\* Every buffer that is not a Meta one has one of the shapes.
LEMMA DecodeShapes ==
  ASSUME NEW b \in Seq(Byte), NEW d \in Deadlines, ~Meta(b)
  PROVE  Shape(b, d, decode(b, d))
<1> DEFINE r == decode(b, d)
<1>1. r = Decode(b, d, decode(Tail(b), d))
  BY DecodeEquation
<1>2. CASE b = <<>>
  BY <1>1, <1>2 DEF Decode, Shape
<1>3. CASE b = <<"esc">>
  <2>1. Len(b) = 1 /\ b[1] = "esc"
    BY <1>3
  <2>2. r = IF d = "live" THEN Incomplete ELSE EscAlone
    BY <1>1, <1>3 DEF Decode
  <2> QED BY <2>1, <2>2 DEF Shape, GivenUp
<1>4. CASE Len(b) >= 1 /\ b[1] # "esc"
  <2>1. CASE b[1] \in {"lead", "more"}
    <3>1. r = decodeRune(b, d)
      BY <1>1, <1>4, <2>1 DEF Decode
    <3> QED BY <1>4, <3>1 DEF decodeRune, Shape
  <2>2. CASE b[1] \notin {"lead", "more"}
    BY <1>1, <1>4, <2>2 DEF Decode, Shape
  <2> QED BY <2>1, <2>2
<1>5. CASE Len(b) > 1 /\ b[1] = "esc"
  <2>1. b # <<>> /\ b # <<"esc">>
    BY <1>5, NotShort
  <2>2. CASE b[2] = "["
    <3>1. r = decodeCSI(b, d)
      BY <1>1, <1>5, <2>1, <2>2 DEF Decode
    <3> QED BY <1>5, <2>2, <3>1, CSIHasShape
  <2>3. CASE b[2] = "O"
    <3>1. r = decodeSS3(b, d)
      BY <1>1, <1>5, <2>1, <2>3 DEF Decode
    <3> QED BY <1>5, <2>3, <3>1 DEF decodeSS3, Shape, GivenUp
  <2> QED BY <1>5, <2>2, <2>3 DEF Meta
<1>6. b = <<>> \/ b = <<"esc">> \/ (Len(b) >= 1 /\ b[1] # "esc") \/ (Len(b) > 1 /\ b[1] = "esc")
  <2>1. Len(b) = 1 /\ b[1] = "esc" => b = <<"esc">>
    OBVIOUS
  <2> QED BY <2>1, FirstByte
<1> QED BY <1>2, <1>3, <1>4, <1>5, <1>6

\* Of a Meta buffer decode answers as decodeAlt does.
LEMMA DecodeMeta ==
  ASSUME NEW b \in Seq(Byte), NEW d \in Deadlines, Meta(b)
  PROVE  /\ Tail(b) \in Seq(Byte) /\ Len(Tail(b)) = Len(b) - 1
         /\ \A i \in 1..(Len(b) - 1) : Tail(b)[i] = b[i + 1]
         /\ decode(Tail(b), d) \in Results
         /\ decode(b, d) = decodeAlt(decode(Tail(b), d), d)
<1>1. b # <<>>
  BY DEF Meta
<1>2. Tail(b) \in Seq(Byte) /\ Len(Tail(b)) = Len(b) - 1 /\ \A i \in 1..(Len(b) - 1) : Tail(b)[i] = b[i + 1]
  BY <1>1
<1>3. decode(b, d) = decodeAlt(decode(Tail(b), d), d)
  BY DecodeEquation, DecodeCases
<1> QED BY <1>2, <1>3, DecodeEquation

-----------------------------------------------------------------------------
(* What an answer takes off the buffer, and that it stands when more bytes *)
(* come.                                                                   *)

\* The answer r takes n bytes and gives the key k, or no key, "".
Takes(r, n, k) == r.n = n /\ r.ev.key = k

\* What each of the answers takes, and the key it gives.
LEMMA Taken == /\ \A n : Takes(Skip(n), n, "") /\ Takes(Give(MouseOf, n), n, "")
               /\ \A k, n : Takes(Give(KeyOf(k), n), n, k) /\ Takes(Give(AltOf(k), n), n, k)
               /\ \A t, n : Takes(Give(PasteOf(t), n), n, "")
               /\ Takes(EscAlone, 1, "esc")
<1>1. ASSUME NEW n PROVE Takes(Skip(n), n, "")
  BY DEF Takes, Skip, Incomplete, Event
<1>2. ASSUME NEW n PROVE Takes(Give(MouseOf, n), n, "")
  BY DEF Takes, Give, MouseOf, Event
<1>3. ASSUME NEW n, NEW k PROVE Takes(Give(KeyOf(k), n), n, k)
  BY DEF Takes, Give, KeyOf, Event
<1>4. ASSUME NEW n, NEW k PROVE Takes(Give(AltOf(k), n), n, k)
  BY DEF Takes, Give, AltOf, Event
<1>5. ASSUME NEW n, NEW t PROVE Takes(Give(PasteOf(t), n), n, "")
  BY DEF Takes, Give, PasteOf, Event
<1>6. Takes(EscAlone, 1, "esc")
  BY <1>3 DEF EscAlone
<1> QED BY <1>1, <1>2, <1>3, <1>4, <1>5, <1>6

\* What decode answers takes bytes that are there, and a typed Enter is the
\* last of them.
LEMMA Consumes ==
  ASSUME NEW d \in Deadlines
  PROVE  \A b \in Seq(Byte) : decode(b, d) # Incomplete =>
           decode(b, d).n \in 1..Len(b) /\ (decode(b, d).ev.key = "nl" => b[decode(b, d).n] = "nl")
<1> DEFINE Fine(b, r) == r # Incomplete => r.n \in 1..Len(b) /\ (r.ev.key = "nl" => b[r.n] = "nl")
           B == {b \in Seq(Byte) : Fine(b, decode(b, d))}
<1>1. ASSUME NEW b \in Seq(Byte), ~Meta(b) PROVE Fine(b, decode(b, d))
  <2> DEFINE r == decode(b, d)
  <2>1. Shape(b, d, r)
    BY <1>1, DecodeShapes
  <2>2. Len(b) \in Nat
    OBVIOUS
  <2> SUFFICES Fine(b, r)
    OBVIOUS
  <2>9. ASSUME NEW n \in 1..Len(b), NEW k, Takes(r, n, k), k = "nl" => b[n] = "nl"
        PROVE  Fine(b, r)
    BY <2>9 DEF Takes
  <2> HIDE DEF r, Fine
  <2>3. CASE r = Incomplete
    BY <2>3 DEF Fine
  <2>4. CASE r = EscAlone /\ GivenUp(b, d)
    <3>1. 1 \in 1..Len(b)
      BY <2>2, <2>4 DEF GivenUp
    <3> QED BY <2>4, <2>9, <3>1, Taken
  <2>5. CASE Len(b) >= 1 /\ (r = Give(KeyOf(b[1]), 1) \/ r = Skip(1))
    <3>1. 1 \in 1..Len(b)
      BY <2>2, <2>5
    <3>2. Takes(r, 1, b[1]) \/ Takes(r, 1, "")
      BY <2>5, Taken
    <3> QED BY <2>9, <3>1, <3>2
  <2>6. CASE \/ r = Give(KeyOf("rune"), 2) /\ Len(b) >= 2
             \/ r = Give(KeyOf("up"), 3) /\ Len(b) >= 3
             \/ X10Shape(b, r)
    <3>1. \/ Takes(r, 2, "rune") /\ Len(b) >= 2
          \/ Takes(r, 3, "up") /\ Len(b) >= 3
          \/ Takes(r, 6, "") /\ Len(b) >= 6
      BY <2>6, Taken DEF X10Shape
    <3>2. \A n \in {2, 3, 6} : Len(b) >= n => n \in 1..Len(b)
      BY <2>2
    <3> QED BY <2>9, <3>1, <3>2
  <2>7. ASSUME NEW i \in 3..Len(b), WholeCSI(b, r, i) PROVE Fine(b, r)
    <3>1. \/ r = Give(MouseOf, i) \/ r = Skip(i)
          \/ r = Give(KeyOf("up"), i) \/ r = Give(KeyOf("home"), i)
      BY <2>7 DEF WholeCSI
    <3>2. i \in 1..Len(b)
      BY <2>2
    <3>3. Takes(r, i, "") \/ Takes(r, i, "up") \/ Takes(r, i, "home")
      BY <3>1, Taken
    <3> QED BY <2>9, <3>2, <3>3
  <2>8. CASE r = decodePaste(b, 6)
    <3>1. CASE decodePaste(b, 6) = Incomplete
      BY <2>3, <2>8, <3>1
    <3>2. ASSUME NEW i \in 6..(Len(b) - 6), decodePaste(b, 6) = Give(PasteOf(SubSeq(b, 6 + 1, i)), i + 6)
          PROVE  Fine(b, r)
      <4>1. i + 6 \in 1..Len(b)
        BY <2>2
      <4>2. Takes(r, i + 6, "")
        BY <2>8, <3>2, Taken
      <4> QED BY <2>9, <4>1, <4>2
    <3> QED BY <3>1, <3>2, PasteEnds, 6 \in Nat
  <2> QED BY <2>1, <2>3, <2>4, <2>5, <2>6, <2>7, <2>8 DEF Shape
<1>2. ASSUME NEW b \in Seq(Byte), Meta(b), Tail(b) \in B PROVE Fine(b, decode(b, d))
  <2> DEFINE r == decode(b, d)
             a == decode(Tail(b), d)
  <2>1. /\ Tail(b) \in Seq(Byte) /\ Len(Tail(b)) = Len(b) - 1
        /\ \A i \in 1..(Len(b) - 1) : Tail(b)[i] = b[i + 1]
        /\ r = decodeAlt(a, d)
    BY <1>2, DecodeMeta
  <2>2. Len(b) \in Nat /\ Len(b) > 1
    BY <1>2 DEF Meta
  <2>3. Fine(Tail(b), a)
    BY <1>2
  <2> SUFFICES Fine(b, r)
    OBVIOUS
  <2> HIDE DEF r, a
  <2>4. CASE a.ok /\ a.ev.kind \in {"key", "alt"}
    <3>2. a # Incomplete
      BY <2>4, Answers
    <3>1. r = Give(AltOf(a.ev.key), a.n + 1)
      BY <2>1, <2>4, <3>2 DEF decodeAlt
    <3>3. a.n \in 1..(Len(b) - 1) /\ (a.ev.key = "nl" => Tail(b)[a.n] = "nl")
      BY <2>1, <2>3, <3>2
    <3>4. r.n = a.n + 1 /\ r.ev.key = a.ev.key
      BY <3>1 DEF Give, AltOf, Event
    <3> QED BY <2>1, <2>2, <3>3, <3>4
  <2>5. CASE ~(a.ok /\ a.ev.kind \in {"key", "alt"})
    <3>1. r = Incomplete \/ r = EscAlone
      BY <2>1, <2>5 DEF decodeAlt
    <3>2. CASE r = EscAlone
      <4>1. Takes(r, 1, "esc")
        BY <3>2, Taken
      <4>2. r.ev.key # "nl" /\ r.n = 1
        BY <4>1 DEF Takes
      <4> QED BY <2>2, <4>2
    <3> QED BY <3>1, <3>2
  <2> HIDE DEF Fine
  <2> QED BY <2>4, <2>5
<1>3. B = Seq(Byte)
  <2>1. \A b \in Seq(Byte) : (Meta(b) => Tail(b) \in B) => b \in B
    BY <1>1, <1>2
  <2>2. B \subseteq Seq(Byte)
    OBVIOUS
  <2> HIDE DEF B
  <2> QED BY <2>1, <2>2, BufferInduction
<1> QED BY <1>3

\* Behind the bytes of b, those of c.
LEMMA Behind ==
  ASSUME NEW S, NEW b \in Seq(S), NEW c \in Seq(S)
  PROVE  /\ b \o c \in Seq(S) /\ Len(b \o c) = Len(b) + Len(c) /\ Len(b) \in Nat /\ Len(c) \in Nat
         /\ \A i \in 1..Len(b) : (b \o c)[i] = b[i]
         /\ \A i \in (Len(b) + 1)..(Len(b) + Len(c)) : (b \o c)[i] = c[i - Len(b)]
         /\ \A i \in 1..Len(c) : (b \o c)[Len(b) + i] = c[i]
OBVIOUS

\* A part of b is the same part of b and what follows.
LEMMA SubSeqBehind ==
  ASSUME NEW b \in Seq(Byte), NEW c \in Seq(Byte), NEW i \in Int, NEW j \in Int, 1 <= i, j <= Len(b)
  PROVE  SubSeq(b \o c, i, j) = SubSeq(b, i, j)
OBVIOUS

\* A paste that is there to its end stays as it is when more bytes come.
LEMMA PasteStable ==
  ASSUME NEW b \in Seq(Byte), NEW c \in Seq(Byte), NEW n \in Nat, decodePaste(b, n) # Incomplete
  PROVE  decodePaste(b \o c, n) = decodePaste(b, n)
<1>1. PICK i \in n..(Len(b) - 6) :
              /\ SubSeq(b, i + 1, i + 6) = pasteEnd
              /\ \A j \in n..(Len(b) - 6) : SubSeq(b, j + 1, j + 6) = pasteEnd => i <= j
              /\ decodePaste(b, n) = Give(PasteOf(SubSeq(b, n + 1, i)), i + 6)
  BY PasteEnds
<1>2. Len(b) \in Nat /\ Len(c) \in Nat /\ b \o c \in Seq(Byte) /\ Len(b \o c) = Len(b) + Len(c)
  BY Behind
<1>3. \A j \in n..(Len(b) - 6) : SubSeq(b \o c, j + 1, j + 6) = SubSeq(b, j + 1, j + 6)
  <2> SUFFICES ASSUME NEW j \in n..(Len(b) - 6) PROVE SubSeq(b \o c, j + 1, j + 6) = SubSeq(b, j + 1, j + 6)
    OBVIOUS
  <2>1. j + 1 \in Int /\ j + 6 \in Int /\ 1 <= j + 1 /\ j + 6 <= Len(b)
    BY <1>2
  <2> QED BY <2>1, SubSeqBehind
<1>4. i \in n..(Len(b \o c) - 6) /\ i \in Nat
  BY <1>2
<1>5. PICK k \in n..(Len(b \o c) - 6) :
              /\ SubSeq(b \o c, k + 1, k + 6) = pasteEnd
              /\ \A j \in n..(Len(b \o c) - 6) : SubSeq(b \o c, j + 1, j + 6) = pasteEnd => k <= j
              /\ decodePaste(b \o c, n) = Give(PasteOf(SubSeq(b \o c, n + 1, k)), k + 6)
  <2>1. SubSeq(b \o c, i + 1, i + 6) = pasteEnd
    BY <1>1, <1>3
  <2> QED BY <1>2, <1>4, <2>1, PasteEnds
<1>6. k <= i
  BY <1>1, <1>3, <1>4, <1>5
<1>7. k \in n..(Len(b) - 6)
  BY <1>2, <1>4, <1>6
<1>8. i <= k
  BY <1>1, <1>3, <1>5, <1>7
<1>9. k = i
  BY <1>4, <1>6, <1>7, <1>8
<1>10. SubSeq(b \o c, n + 1, i) = SubSeq(b, n + 1, i)
  <2>1. n + 1 \in Int /\ i \in Int /\ 1 <= n + 1 /\ i <= Len(b)
    BY <1>2, <1>4
  <2> QED BY <2>1, SubSeqBehind
<1> QED BY <1>1, <1>5, <1>9, <1>10

\* The bytes of the buffer are nothing to a CSI, but to one that opens a paste
\* or an X10 report.
CSIsAlike(x, y, g, b, d, n) ==
  \/ x = y
  \/ x = decodePaste(g, n) /\ y = decodePaste(b, n)
  \/ x = decodeX10Mouse(g, d) /\ y = decodeX10Mouse(b, d)

\* The same final byte and parameters make the same CSI of two buffers.
LEMMA CSIAlike ==
  ASSUME NEW b, NEW g, NEW d, NEW params \in Seq(Byte), NEW final \in Byte, NEW n
  PROVE  CSIsAlike(csiEvent(g, d, params, final, n), csiEvent(b, d, params, final, n), g, b, d, n)
<1> SUFFICES \/ csiEvent(g, d, params, final, n) = csiEvent(b, d, params, final, n)
             \/ /\ csiEvent(g, d, params, final, n) = decodePaste(g, n)
                /\ csiEvent(b, d, params, final, n) = decodePaste(b, n)
             \/ /\ csiEvent(g, d, params, final, n) = decodeX10Mouse(g, d)
                /\ csiEvent(b, d, params, final, n) = decodeX10Mouse(b, d)
  BY DEF CSIsAlike
<1>1. CASE Head(params \o <<"">>) = "<" /\ final \in {"M", "m"}
  <2>0. Head(<<>> \o <<"">>) # "<"
    <3>1. <<>> \o <<"">> = <<"">>
      OBVIOUS
    <3> QED BY <3>1
  <2>2. params # <<>> /\ final # "~" /\ final # "A"
    BY <1>1, <2>0
  <2>1. ASSUME NEW h
        PROVE  csiEvent(h, d, params, final, n) = IF Len(params) > 1 THEN Give(MouseOf, n) ELSE Skip(n)
    BY <1>1, <2>2 DEF csiEvent
  <2> QED BY <2>1
<1>2. CASE ~(Head(params \o <<"">>) = "<" /\ final \in {"M", "m"}) /\ final = "~"
  BY <1>2 DEF csiEvent
<1>3. CASE ~(Head(params \o <<"">>) = "<" /\ final \in {"M", "m"}) /\ final = "M"
  BY <1>3 DEF csiEvent
<1>4. CASE ~(Head(params \o <<"">>) = "<" /\ final \in {"M", "m"}) /\ final # "M" /\ final # "~"
  BY <1>4 DEF csiEvent
<1> QED BY <1>1, <1>2, <1>3, <1>4

\* A CSI that is there to its end stays as it is when more bytes come.
LEMMA CSIStable ==
  ASSUME NEW b \in Seq(Byte), NEW c \in Seq(Byte), decodeCSI(b, "live") # Incomplete
  PROVE  decodeCSI(b \o c, "live") = decodeCSI(b, "live")
<1> DEFINE g == b \o c
<1>1. "live" \in Deadlines
  BY DEF Deadlines
<1>2. /\ g \in Seq(Byte) /\ Len(g) = Len(b) + Len(c) /\ Len(b) \in Nat /\ Len(c) \in Nat
      /\ \A i \in 1..Len(b) : g[i] = b[i]
  BY Behind
<1>3. PICK i \in 3..Len(b) :
              /\ b[i] \notin Params /\ \A j \in 3..(i - 1) : b[j] \in Params
              /\ decodeCSI(b, "live") = csiEvent(b, "live", SubSeq(b, 3, i - 1), b[i], i)
  BY <1>1, CSIEnds
<1>4. SubSeq(g, 3, i - 1) = SubSeq(b, 3, i - 1)
  <2>1. i - 1 \in Int /\ 3 \in Int /\ 1 <= 3 /\ i - 1 <= Len(b)
    BY <1>2
  <2> QED BY <2>1, SubSeqBehind
<1> HIDE DEF g
<1>5. g[i] = b[i] /\ i \in 3..Len(g) /\ \A j \in 3..(i - 1) : g[j] = b[j]
  BY <1>2
<1>6. PICK k \in 3..Len(g) :
              /\ g[k] \notin Params /\ \A j \in 3..(k - 1) : g[j] \in Params
              /\ decodeCSI(g, "live") = csiEvent(g, "live", SubSeq(g, 3, k - 1), g[k], k)
  BY <1>1, <1>2, <1>3, <1>5, CSIEnds
<1>7. k = i
  <2>1. ~(k < i)
    BY <1>3, <1>5, <1>6
  <2>2. ~(i < k)
    BY <1>3, <1>5, <1>6
  <2> QED BY <2>1, <2>2
<1>8. decodeCSI(g, "live") = csiEvent(g, "live", SubSeq(b, 3, i - 1), b[i], i)
  BY <1>4, <1>5, <1>6, <1>7
<1>9. SubSeq(b, 3, i - 1) \in Seq(Byte) /\ b[i] \in Byte /\ i \in Nat
  OBVIOUS
<1>10. decodePaste(b, i) # Incomplete => decodePaste(g, i) = decodePaste(b, i)
  BY <1>9, PasteStable DEF g
<1>11. decodeX10Mouse(b, "live") # Incomplete => decodeX10Mouse(g, "live") = decodeX10Mouse(b, "live")
  <2>1. SUFFICES ASSUME decodeX10Mouse(b, "live") # Incomplete
                 PROVE  decodeX10Mouse(g, "live") = decodeX10Mouse(b, "live")
    OBVIOUS
  <2>2. Len(b) >= 6
    BY <2>1 DEF decodeX10Mouse
  <2>3. Len(g) >= 6
    BY <1>2, <2>2
  <2>4. Malformed(g) <=> Malformed(b)
    <3>1. \A j \in 4..6 : g[j] = b[j]
      BY <1>2, <2>2
    <3> QED BY <3>1 DEF Malformed
  <2> QED BY <2>2, <2>3, <2>4 DEF decodeX10Mouse
<1> DEFINE p == SubSeq(b, 3, i - 1)
           x == csiEvent(g, "live", p, b[i], i)
           y == csiEvent(b, "live", p, b[i], i)
<1>12. CSIsAlike(x, y, g, b, "live", i)
  <2>1. p \in Seq(Byte)
    BY <1>9
  <2> HIDE DEF p
  <2> QED BY <1>9, <2>1, CSIAlike
<1>13. y # Incomplete /\ decodeCSI(b, "live") = y /\ decodeCSI(g, "live") = x
  BY <1>3, <1>8
<1> HIDE DEF p, x, y
<1>14. x = y
  BY <1>10, <1>11, <1>12, <1>13 DEF CSIsAlike
<1> QED BY <1>13, <1>14 DEF g

\* What decode answers while more may come stands, whatever comes: it waits for
\* all that could change its mind.
THEOREM PrefixStable ==
  \A b \in Seq(Byte) : decode(b, "live") # Incomplete =>
     \A c \in Seq(Byte) : decode(b \o c, "live") = decode(b, "live")
<1> DEFINE Stable(b) == decode(b, "live") # Incomplete =>
                          \A c \in Seq(Byte) : decode(b \o c, "live") = decode(b, "live")
           B == {b \in Seq(Byte) : Stable(b)}
<1>1. "live" \in Deadlines
  BY DEF Deadlines
<1>2. ASSUME NEW b \in Seq(Byte), Meta(b) => Tail(b) \in B PROVE Stable(b)
  <2> SUFFICES ASSUME NEW c \in Seq(Byte), decode(b, "live") # Incomplete
               PROVE  decode(b \o c, "live") = decode(b, "live")
    OBVIOUS
  <2> DEFINE g == b \o c
  <2>1. /\ g \in Seq(Byte) /\ Len(g) = Len(b) + Len(c) /\ Len(b) \in Nat /\ Len(c) \in Nat
        /\ \A i \in 1..Len(b) : g[i] = b[i]
    BY Behind
  <2>2. /\ decode(b, "live") = Decode(b, "live", decode(Tail(b), "live"))
        /\ decode(g, "live") = Decode(g, "live", decode(Tail(g), "live"))
    BY <1>1, <2>1, DecodeEquation
  <2>3. CASE b = <<>>
    BY <2>2, <2>3 DEF Decode
  <2>4. CASE Len(b) = 1 /\ b[1] = "esc"
    <3>1. b = <<"esc">>
      BY <2>4
    <3> QED BY <2>2, <3>1 DEF Decode
  <2>5. CASE Len(b) >= 1 /\ b[1] # "esc"
    <3> HIDE DEF g
    <3>1. Len(g) >= 1 /\ g[1] = b[1] /\ g # <<>> /\ b # <<>>
      BY <2>1, <2>5
    <3>2. CASE b[1] \notin {"lead", "more"}
      <4>1. decode(b, "live") = Give(KeyOf(b[1]), 1)
        BY <2>2, <2>5, <3>1, <3>2 DEF Decode
      <4>2. g[1] \notin {"lead", "more", "esc"}
        BY <2>5, <3>1, <3>2
      <4>3. decode(g, "live") = Give(KeyOf(g[1]), 1)
        BY <2>2, <3>1, <4>2 DEF Decode
      <4> QED BY <3>1, <4>1, <4>3 DEF g
    <3>3. CASE b[1] \in {"lead", "more"}
      <4>1. decode(b, "live") = decodeRune(b, "live") /\ decode(g, "live") = decodeRune(g, "live")
        BY <2>2, <3>1, <3>3 DEF Decode
      <4>2. CASE b[1] = "lead" /\ Len(b) >= 2 /\ b[2] = "more"
        <5>1. g[1] = "lead" /\ Len(g) >= 2 /\ g[2] = "more"
          BY <2>1, <4>2
        <5>2. decodeRune(g, "live") = Give(KeyOf("rune"), 2) /\ decodeRune(b, "live") = Give(KeyOf("rune"), 2)
          BY <4>2, <5>1 DEF decodeRune
        <5> QED BY <4>1, <5>2 DEF g
      <4>3. CASE ~(b[1] = "lead" /\ Len(b) >= 2 /\ b[2] = "more")
        <5>1. ~(Len(b) < 4)
          BY <4>1, <4>3 DEF decodeRune, UTFMax
        <5>2. Len(g) >= 4 /\ Len(b) >= 4 /\ g[2] = b[2]
          BY <2>1, <5>1
        <5>3. ~(g[1] = "lead" /\ Len(g) >= 2 /\ g[2] = "more") /\ ~(Len(g) < 4)
          BY <2>1, <3>1, <4>3, <5>2
        <5>4. decodeRune(g, "live") = Skip(1) /\ decodeRune(b, "live") = Skip(1)
          BY <4>3, <5>1, <5>3 DEF decodeRune, UTFMax
        <5> QED BY <4>1, <5>4 DEF g
      <4> QED BY <4>2, <4>3
    <3> QED BY <3>2, <3>3
  <2>6. CASE Len(b) > 1 /\ b[1] = "esc"
    <3> HIDE DEF g
    <3>1. Len(g) > 1 /\ g[1] = "esc" /\ g[2] = b[2] /\ (Len(b) >= 3 => Len(g) >= 3 /\ g[3] = b[3])
      BY <2>1, <2>6
    <3>2. g # <<>> /\ g # <<"esc">> /\ b # <<>> /\ b # <<"esc">>
      BY <2>1, <2>6, <3>1, NotShort
    <3>3. CASE b[2] = "["
      <4>1. decode(b, "live") = decodeCSI(b, "live") /\ decode(g, "live") = decodeCSI(g, "live")
        BY <2>2, <2>6, <3>1, <3>2, <3>3 DEF Decode
      <4> QED BY <4>1, CSIStable DEF g
    <3>4. CASE b[2] = "O"
      <4>1. decode(b, "live") = decodeSS3(b, "live") /\ decode(g, "live") = decodeSS3(g, "live")
        BY <2>2, <2>6, <3>1, <3>2, <3>4 DEF Decode
      <4>2. ~(Len(b) < 3)
        BY <4>1 DEF decodeSS3
      <4>3. Len(b) >= 3 /\ Len(g) >= 3 /\ g[3] = b[3] /\ ~(Len(g) < 3)
        BY <2>1, <3>1, <4>2
      <4>4. decodeSS3(g, "live") = decodeSS3(b, "live")
        BY <4>2, <4>3 DEF decodeSS3
      <4> QED BY <4>1, <4>4 DEF g
    <3>5. CASE b[2] # "[" /\ b[2] # "O"
      <4>1. Meta(b) /\ Meta(g)
        BY <2>6, <3>1, <3>5 DEF Meta
      <4>2. /\ decode(b, "live") = decodeAlt(decode(Tail(b), "live"), "live")
            /\ decode(g, "live") = decodeAlt(decode(Tail(g), "live"), "live")
        BY <1>1, <2>1, <4>1, DecodeMeta
      <4>3. Tail(g) = Tail(b) \o c
        BY <2>1, <3>2 DEF g
      <4>4. decode(Tail(b), "live") # Incomplete
        <5>1. SUFFICES ASSUME decode(Tail(b), "live") = Incomplete PROVE FALSE
          OBVIOUS
        <5> QED BY <4>2, <5>1, Answers DEF decodeAlt
      <4>5. Stable(Tail(b))
        BY <1>2, <4>1
      <4>6. decode(Tail(g), "live") = decode(Tail(b), "live")
        BY <4>3, <4>4, <4>5
      <4> QED BY <4>2, <4>6 DEF g
    <3> QED BY <3>3, <3>4, <3>5
  <2> QED BY <2>1, <2>3, <2>4, <2>5, <2>6, FirstByte
<1>3. B = Seq(Byte)
  <2>1. \A b \in Seq(Byte) : (Meta(b) => Tail(b) \in B) => b \in B
    BY <1>2
  <2>2. B \subseteq Seq(Byte)
    OBVIOUS
  <2> HIDE DEF B
  <2> QED BY <2>1, <2>2, BufferInduction
<1> QED BY <1>3

-----------------------------------------------------------------------------
(* Decoded, and sequences one behind the other.                            *)

\* What is behind the first n bytes of b.
LEMMA RestOf ==
  ASSUME NEW b \in Seq(Byte), NEW n \in 0..Len(b)
  PROVE  /\ Rest(b, n) \in Seq(Byte) /\ Len(Rest(b, n)) = Len(b) - n
         /\ \A i \in 1..(Len(b) - n) : Rest(b, n)[i] = b[i + n]
         /\ \A i \in (n + 1)..Len(b) : Rest(b, n)[i - n] = b[i]
         /\ \A c \in Seq(Byte) : Rest(b \o c, n) = Rest(b, n) \o c
<1>1. Rest(b, n) \in Seq(Byte) /\ Len(Rest(b, n)) = Len(b) - n
  BY DEF Rest
<1>2. \A i \in 1..(Len(b) - n) : Rest(b, n)[i] = b[i + n]
  BY DEF Rest
<1>3. ASSUME NEW c \in Seq(Byte) PROVE Rest(b \o c, n) = Rest(b, n) \o c
  <2>1. /\ b \o c \in Seq(Byte) /\ Len(b \o c) = Len(b) + Len(c) /\ Len(b) \in Nat /\ Len(c) \in Nat
    BY Behind
  <2>2. Rest(b \o c, n) \in Seq(Byte) /\ Len(Rest(b \o c, n)) = Len(b) + Len(c) - n
    BY <2>1 DEF Rest
  <2>3. Rest(b, n) \o c \in Seq(Byte) /\ Len(Rest(b, n) \o c) = Len(b) - n + Len(c)
    BY <1>1
  <2>4. \A i \in 1..(Len(b) + Len(c) - n) : Rest(b \o c, n)[i] = (Rest(b, n) \o c)[i]
    <3> SUFFICES ASSUME NEW i \in 1..(Len(b) + Len(c) - n)
                 PROVE  Rest(b \o c, n)[i] = (Rest(b, n) \o c)[i]
      OBVIOUS
    <3>1. Rest(b \o c, n)[i] = (b \o c)[i + n]
      BY <2>1 DEF Rest
    <3>2. CASE i <= Len(b) - n
      BY <1>1, <1>2, <2>1, <3>1, <3>2
    <3>3. CASE ~(i <= Len(b) - n)
      BY <1>1, <1>2, <2>1, <3>1, <3>3
    <3> QED BY <3>2, <3>3
  <2> DEFINE x == Rest(b \o c, n)
             y == Rest(b, n) \o c
  <2>5. x \in Seq(Byte) /\ y \in Seq(Byte) /\ Len(x) = Len(y) /\ \A i \in 1..Len(x) : x[i] = y[i]
    <3>1. Len(b) - n + Len(c) = Len(b) + Len(c) - n
      BY <2>1
    <3> QED BY <2>2, <2>3, <2>4, <3>1
  <2> HIDE DEF x, y
  <2>6. x = y
    BY <2>5, SeqEqual
  <2> QED BY <2>6 DEF x, y
<1>4. \A i \in (n + 1)..Len(b) : Rest(b, n)[i - n] = b[i]
  <2> SUFFICES ASSUME NEW i \in (n + 1)..Len(b) PROVE Rest(b, n)[i - n] = b[i]
    OBVIOUS
  <2>1. i - n \in 1..(Len(b) - n) /\ (i - n) + n = i
    OBVIOUS
  <2> QED BY <1>2, <2>1
<1> QED BY <1>1, <1>2, <1>3, <1>4

\* The event that an answer gives, if it gives one.
Emitted(r) == IF r.ok THEN <<r.ev>> ELSE <<>>

\* What decode answers while more may come takes bytes that are there, and gives events.
LEMMA LiveAnswers ==
  ASSUME NEW b \in Seq(Byte)
  PROVE  LET r == decode(b, "live") IN
         /\ r \in Results /\ Emitted(r) \in Seq(InputEvents)
         /\ r # Incomplete => /\ r.n \in 1..Len(b) /\ Rest(b, r.n) \in Seq(Byte)
                              /\ Len(Rest(b, r.n)) = Len(b) - r.n
<1> DEFINE r == decode(b, "live")
<1>1. "live" \in Deadlines
  BY DEF Deadlines
<1>2. r \in Results /\ (r # Incomplete => r.n \in 1..Len(b))
  BY <1>1, DecodeEquation, Consumes
<1>3. Emitted(r) \in Seq(InputEvents)
  BY <1>2 DEF Results, Emitted
<1> HIDE DEF r
<1>4. ASSUME r # Incomplete PROVE Rest(b, r.n) \in Seq(Byte) /\ Len(Rest(b, r.n)) = Len(b) - r.n
  <2>1. r.n \in 0..Len(b)
    BY <1>2, <1>4
  <2> QED BY <2>1, RestOf
<1> QED BY <1>2, <1>3, <1>4 DEF r

\* Decoded recurs on what is left, which is shorter: it is what its definition says.
LEMMA DecodedEquation ==
  \A b \in Seq(Byte) :
     /\ Decoded[b] \in Seq(InputEvents)
     /\ decode(b, "live") = Incomplete => Decoded[b] = <<>>
     /\ decode(b, "live") # Incomplete =>
          Decoded[b] = Emitted(decode(b, "live")) \o Decoded[Rest(b, decode(b, "live").n)]
<1> DEFINE S == Seq(Byte)
           V == Seq(InputEvents)
           r(b) == decode(b, "live")
           base == {b \in S : r(b) = Incomplete}
           m == [b \in S |-> Len(b)]
           nxt == [b \in S \ base |-> Rest(b, r(b).n)]
           b0 == [b \in base |-> <<>>]
           h == [p \in S \X V |-> Emitted(r(p[1])) \o p[2]]
           Unrolled(f, b) == CASE r(b) = Incomplete -> <<>>
                               [] r(b) # Incomplete /\ r(b).ok -> <<r(b).ev>> \o f[Rest(b, r(b).n)]
                               [] OTHER -> f[Rest(b, r(b).n)]
           IsDec(f) == f = [b \in S |-> Unrolled(f, b)]
           dec == CHOOSE f : IsDec(f)
<1>1. \A b \in S : /\ r(b) \in Results /\ Emitted(r(b)) \in V
                   /\ r(b) # Incomplete => /\ r(b).n \in 1..Len(b) /\ Rest(b, r(b).n) \in S
                                           /\ Len(Rest(b, r(b).n)) = Len(b) - r(b).n
  BY LiveAnswers
<1> HIDE DEF r
<1>2. m \in [S -> Nat] /\ base \in SUBSET S
  OBVIOUS
<1>3. \A b \in S \ base : Rest(b, r(b).n) \in S /\ Len(Rest(b, r(b).n)) < Len(b)
  BY <1>1
<1>4. nxt \in [S \ base -> S] /\ \A b \in S \ base : m[nxt[b]] < m[b]
  BY <1>3
<1>5. b0 \in [base -> V] /\ h \in [S \X V -> V]
  <2>1. \A p \in S \X V : Emitted(r(p[1])) \o p[2] \in V
    BY <1>1
  <2> QED BY <2>1
<1>6. PICK f : /\ f \in [S -> V]
               /\ \A b \in S : f[b] = IF b \in base THEN b0[b] ELSE h[<<b, f[nxt[b]]>>]
  <2> HIDE DEF S, V, base, m, nxt, b0, h
  <2>1. Recurs(S, V, m, base, nxt, b0, h)
    BY <1>2, <1>4, <1>5 DEF Recurs
  <2>2. PICK f : Solves(f, S, V, base, nxt, b0, h)
    BY <2>1, Recursion
  <2> QED BY <2>2 DEF Solves
<1>7. ASSUME NEW g, NEW b \in S, g[Rest(b, r(b).n)] \in V
      PROVE  Unrolled(g, b) = IF r(b) = Incomplete THEN <<>> ELSE Emitted(r(b)) \o g[Rest(b, r(b).n)]
  <2>1. CASE r(b) = Incomplete
    BY <2>1
  <2>2. CASE r(b) # Incomplete /\ r(b).ok
    BY <2>2 DEF Emitted
  <2>3. CASE r(b) # Incomplete /\ ~r(b).ok
    <3>1. Unrolled(g, b) = g[Rest(b, r(b).n)]
      BY <2>3
    <3>2. Emitted(r(b)) = <<>>
      BY <2>3 DEF Emitted
    <3> HIDE DEF Unrolled
    <3> QED BY <1>7, <2>3, <3>1, <3>2
  <2> QED BY <2>1, <2>2, <2>3
<1>8. IsDec(f)
  <2>1. ASSUME NEW b \in S PROVE f[b] = Unrolled(f, b)
    <3>1. CASE b \in base
      BY <1>6, <3>1
    <3>2. CASE b \notin base
      <4>1. Rest(b, r(b).n) \in S /\ f[Rest(b, r(b).n)] \in V
        BY <1>3, <1>6, <3>2
      <4>2. f[b] = Emitted(r(b)) \o f[Rest(b, r(b).n)]
        BY <1>6, <3>2, <4>1
      <4> HIDE DEF Unrolled
      <4> QED BY <1>7, <3>2, <4>1, <4>2
    <3> QED BY <3>1, <3>2
  <2> HIDE DEF Unrolled
  <2> QED BY <1>6, <2>1
<1>9. IsDec(dec)
  <2> HIDE DEF IsDec
  <2> QED BY <1>8
<1>10. Decoded = dec
  BY DEF Decoded, r
<1>11. \A b \in S : dec[b] = Unrolled(dec, b)
  <2> HIDE DEF Unrolled, dec
  <2> QED BY <1>9
<1>12. ASSUME NEW b \in S PROVE dec[b] \in V
  <2> HIDE DEF dec
  <2> DEFINE Bad == {e \in S : dec[e] \notin V}
             T == {Len(g) : g \in Bad}
  <2> SUFFICES ASSUME Bad # {} PROVE FALSE
    OBVIOUS
  <2>1. PICK e \in Bad : \A g \in Bad : Len(e) <= Len(g)
    <3>1. T \subseteq Nat /\ T # {}
      BY FirstByte
    <3>2. PICK t \in T : \A u \in T : t <= u
      BY <3>1, LeastOf
    <3> QED BY <3>2
  <2>2. CASE e \in base
    <3>1. dec[e] = <<>>
      BY <1>11, <2>2
    <3>2. <<>> \in V /\ dec[e] \notin V
      OBVIOUS
    <3> QED BY <3>1, <3>2
  <2>3. CASE e \notin base
    <3>1. Rest(e, r(e).n) \in S /\ Len(Rest(e, r(e).n)) < Len(e)
      BY <1>3, <2>3
    <3>2. Len(e) \in Nat /\ Len(Rest(e, r(e).n)) \in Nat
      BY <3>1, FirstByte
    <3>3. Rest(e, r(e).n) \notin Bad
      <4>1. ~(Len(e) <= Len(Rest(e, r(e).n)))
        BY <3>1, <3>2
      <4> HIDE DEF Bad
      <4> QED BY <2>1, <4>1
    <3>4. dec[Rest(e, r(e).n)] \in V
      BY <3>1, <3>3
    <3>5. dec[e] = Emitted(r(e)) \o dec[Rest(e, r(e).n)]
      <4> HIDE DEF Unrolled
      <4>1. Unrolled(dec, e) = IF r(e) = Incomplete THEN <<>> ELSE Emitted(r(e)) \o dec[Rest(e, r(e).n)]
        BY <1>7, <3>4
      <4> QED BY <1>11, <2>3, <4>1
    <3>6. dec[e] \in V
      <4>1. Emitted(r(e)) \in V
        BY <1>1
      <4> HIDE DEF V
      <4>2. \A x, y : x \in V /\ y \in V => x \o y \in V
        BY DEF V
      <4> QED BY <3>4, <3>5, <4>1, <4>2
    <3> QED BY <3>6
  <2> QED BY <2>2, <2>3
<1>13. ASSUME NEW b \in S
       PROVE  dec[b] \in V /\ (dec[b] = IF r(b) = Incomplete THEN <<>> ELSE Emitted(r(b)) \o dec[Rest(b, r(b).n)])
  <2>1. r(b) # Incomplete => dec[Rest(b, r(b).n)] \in V
    BY <1>3, <1>12
  <2> HIDE DEF dec
  <2>2. CASE r(b) = Incomplete
    BY <1>11, <1>12, <2>2
  <2>3. CASE r(b) # Incomplete
    <3> HIDE DEF Unrolled
    <3> QED BY <1>7, <1>11, <1>12, <2>1, <2>3
  <2> QED BY <2>2, <2>3
<1> HIDE DEF dec
<1> QED BY <1>10, <1>13 DEF r

\* Concatenation is associative, and <<>> its unit.
LEMMA Concats ==
  ASSUME NEW S
  PROVE  /\ \A x, y \in Seq(S) : x \o y \in Seq(S)
         /\ \A x, y, z \in Seq(S) : (x \o y) \o z = x \o (y \o z)
         /\ <<>> \in Seq(S) /\ \A x \in Seq(S) : x \o <<>> = x /\ <<>> \o x = x
<1>1. \A x, y, z \in Seq(S) : (x \o y) \o z = x \o (y \o z)
  BY ConcatAssociative
<1>2. \A x, y \in Seq(S) : x \o y \in Seq(S)
  OBVIOUS
<1>3. <<>> \in Seq(S) /\ \A x \in Seq(S) : x \o <<>> = x /\ <<>> \o x = x
  BY ConcatEmptySeq
<1> QED BY <1>1, <1>2, <1>3

\* The same of bytes, and of events.
LEMMA Joins == \A x, y, z \in Seq(Byte) : (x \o y) \o z = x \o (y \o z)
BY Concats

\* Events behind events are events, in any grouping.
LEMMA EventJoins == /\ \A x, y \in Seq(InputEvents) : x \o y \in Seq(InputEvents)
                    /\ \A x, y, z \in Seq(InputEvents) : (x \o y) \o z = x \o (y \o z)
BY Concats

\* The empty sequence is one of each kind.
LEMMA EmptySeqs == <<>> \in Seq(Byte) /\ <<>> \in Seq(InputEvents) /\ <<>> \in Seq(Seq(Byte))
OBVIOUS

\* f[i] is the first i sequences of ss, one behind the other.
Flat(ss, f) ==
  /\ f \in [0..Len(ss) -> Seq(Byte)] /\ f[0] = <<>>
  /\ \A i \in 1..Len(ss) : f[i] = f[i - 1] \o ss[i]

\* FlattenSeq is what its definition says.
LEMMA FlattenIs ==
  ASSUME NEW ss \in Seq(Seq(Byte))
  PROVE  \E f : Flat(ss, f) /\ FlattenSeq(ss) = f[Len(ss)]
<1>1. CASE ss = <<>>
  <2> DEFINE f == [i \in 0..0 |-> <<>>]
  <2>1. Flat(ss, f)
    BY <1>1 DEF Flat
  <2>2. FlattenSeq(ss) = f[Len(ss)]
    BY <1>1 DEF FlattenSeq
  <2> QED BY <2>1, <2>2
<1>2. CASE ss # <<>>
  <2> DEFINE n == Len(ss)
             S == 1..n
             V == Seq(Byte)
             base == {1}
             m == [i \in S |-> i]
             nxt == [i \in S \ base |-> i - 1]
             b0 == [i \in base |-> ss[1]]
             h == [p \in S \X V |-> p[2] \o ss[p[1]]]
             IsFlat(g) == g = [i \in S |-> IF i = 1 THEN ss[i] ELSE g[i - 1] \o ss[i]]
             flat == CHOOSE g : IsFlat(g)
  <2>1. n \in Nat /\ n >= 1 /\ 1 \in S /\ S \subseteq Nat
    BY <1>2
  <2>2. \A i \in S : ss[i] \in V
    OBVIOUS
  <2> HIDE DEF n
  <2>3. m \in [S -> Nat] /\ base \in SUBSET S
    BY <2>1
  <2>4. nxt \in [S \ base -> S] /\ \A i \in S \ base : m[nxt[i]] < m[i]
    BY <2>1
  <2>5. b0 \in [base -> V] /\ h \in [S \X V -> V]
    <3>1. \A p \in S \X V : p[2] \o ss[p[1]] \in V
      BY <2>2
    <3> QED BY <2>1, <2>2, <3>1
  <2>6. PICK g : /\ g \in [S -> V]
                 /\ \A i \in S : g[i] = IF i \in base THEN b0[i] ELSE h[<<i, g[nxt[i]]>>]
    <3> HIDE DEF S, V, base, m, nxt, b0, h
    <3>1. Recurs(S, V, m, base, nxt, b0, h)
      BY <2>3, <2>4, <2>5 DEF Recurs
    <3>2. PICK g : Solves(g, S, V, base, nxt, b0, h)
      BY <3>1, Recursion
    <3> QED BY <3>2 DEF Solves
  <2>7. IsFlat(g)
    <3>1. ASSUME NEW i \in S PROVE g[i] = IF i = 1 THEN ss[i] ELSE g[i - 1] \o ss[i]
      <4>1. CASE i = 1
        BY <2>6, <4>1
      <4>2. CASE i # 1
        <5>1. i - 1 \in S /\ i \in S \ base
          BY <2>1, <4>2
        <5>2. g[i - 1] \in V
          BY <2>6, <5>1
        <5>3. nxt[i] = i - 1
          BY <5>1
        <5>4. h[<<i, g[i - 1]>>] = g[i - 1] \o ss[i]
          BY <5>2
        <5> HIDE DEF nxt, h
        <5> QED BY <2>6, <4>2, <5>3, <5>4
      <4> QED BY <4>1, <4>2
    <3> QED BY <2>6, <3>1
  <2>8. IsFlat(flat)
    <3> HIDE DEF IsFlat
    <3> QED BY <2>7
  <2>9. FlattenSeq(ss) = flat[n]
    BY <2>1 DEF FlattenSeq, n
  <2> DEFINE Bad == {i \in S : flat[i] \notin V}
  <2>10. Bad = {}
    <3> SUFFICES ASSUME Bad # {} PROVE FALSE
      OBVIOUS
    <3> HIDE DEF flat
    <3>1. PICK i \in Bad : \A j \in Bad : i <= j
      <4>1. Bad \subseteq Nat
        BY <2>1
      <4> QED BY <4>1, LeastOf
    <3>2. flat[i] = IF i = 1 THEN ss[i] ELSE flat[i - 1] \o ss[i]
      BY <2>8
    <3>3. CASE i = 1
      BY <2>2, <3>2, <3>3
    <3>4. CASE i # 1
      <4>1. i - 1 \in S /\ ~(i <= i - 1)
        BY <2>1, <3>4
      <4>2. flat[i - 1] \in V
        BY <3>1, <4>1
      <4>3. flat[i] \in V
        <5>1. flat[i] = flat[i - 1] \o ss[i] /\ ss[i] \in V
          BY <2>2, <3>2, <3>4
        <5> QED BY <4>2, <5>1, Concats
      <4> QED BY <4>3
    <3> QED BY <3>3, <3>4
  <2> DEFINE f == [i \in 0..n |-> IF i = 0 THEN <<>> ELSE flat[i]]
  <2>11. Flat(ss, f) /\ f[n] = flat[n]
    <3> HIDE DEF flat
    <3>1. \A i \in S : flat[i] \in V /\ (flat[i] = IF i = 1 THEN ss[i] ELSE flat[i - 1] \o ss[i])
      BY <2>8, <2>10
    <3>2. f \in [0..n -> V] /\ f[0] = <<>> /\ f[n] = flat[n]
      BY <2>1, <3>1
    <3>3. ASSUME NEW i \in S PROVE f[i] = f[i - 1] \o ss[i]
      <4>1. CASE i = 1
        <5>1. f[i] = ss[i] /\ f[i - 1] = <<>> /\ ss[i] \in V
          BY <2>1, <2>2, <3>1, <4>1
        <5>2. <<>> \o ss[i] = ss[i]
          BY <5>1, Concats
        <5> QED BY <5>1, <5>2
      <4>2. CASE i # 1
        <5>1. i \in 0..n /\ i - 1 \in 0..n /\ i - 1 # 0 /\ i # 0
          BY <2>1, <4>2
        <5>2. f[i] = flat[i] /\ f[i - 1] = flat[i - 1]
          BY <5>1
        <5> HIDE DEF f
        <5> QED BY <3>1, <4>2, <5>2
      <4> QED BY <4>1, <4>2
    <3> QED BY <3>2, <3>3 DEF Flat, n
  <2> HIDE DEF f, flat
  <2> QED BY <2>9, <2>11 DEF n
<1> QED BY <1>1, <1>2

\* The flat sequence of one more, and of the first and the rest.
LEMMA Flattened ==
  ASSUME NEW ss \in Seq(Seq(Byte))
  PROVE  /\ FlattenSeq(ss) \in Seq(Byte)
         /\ FlattenSeq(<<>>) = <<>>
         /\ \A x \in Seq(Byte) : FlattenSeq(Append(ss, x)) = FlattenSeq(ss) \o x
         /\ ss # <<>> => FlattenSeq(ss) = Head(ss) \o FlattenSeq(Tail(ss))
<1>1. PICK f : Flat(ss, f) /\ FlattenSeq(ss) = f[Len(ss)]
  BY FlattenIs
<1>2. Len(ss) \in Nat /\ \A i \in 1..Len(ss) : ss[i] \in Seq(Byte)
  OBVIOUS
<1>3. FlattenSeq(ss) \in Seq(Byte)
  BY <1>1, <1>2 DEF Flat
<1>4. FlattenSeq(<<>>) = <<>>
  BY DEF FlattenSeq
<1>5. ASSUME NEW x \in Seq(Byte) PROVE FlattenSeq(Append(ss, x)) = FlattenSeq(ss) \o x
  <2> DEFINE tt == Append(ss, x)
             n == Len(ss)
  <2>1. /\ tt \in Seq(Seq(Byte)) /\ Len(tt) = n + 1 /\ tt[n + 1] = x
        /\ \A i \in 1..n : tt[i] = ss[i]
    OBVIOUS
  <2>2. PICK g : Flat(tt, g) /\ FlattenSeq(tt) = g[Len(tt)]
    BY <2>1, FlattenIs
  <2>6. /\ f[0] = <<>> /\ \A i \in 1..n : f[i] = f[i - 1] \o ss[i]
        /\ g[0] = <<>> /\ \A i \in 1..(n + 1) : g[i] = g[i - 1] \o tt[i]
    BY <1>1, <2>1, <2>2 DEF Flat
  <2>7. n \in Nat
    OBVIOUS
  <2> HIDE DEF tt, n
  <2> DEFINE Bad == {i \in 0..n : f[i] # g[i]}
  <2>3. Bad = {}
    <3> SUFFICES ASSUME Bad # {} PROVE FALSE
      OBVIOUS
    <3>1. PICK i \in Bad : \A j \in Bad : i <= j
      <4>1. Bad \subseteq Nat
        OBVIOUS
      <4> QED BY <4>1, LeastOf
    <3>2. i # 0
      BY <2>6
    <3>3. i - 1 \in 0..n /\ ~(i <= i - 1) /\ i \in 1..n /\ i \in 1..(n + 1)
      BY <2>7, <3>2
    <3>4. f[i - 1] = g[i - 1]
      BY <3>1, <3>3
    <3>5. f[i] = f[i - 1] \o ss[i] /\ g[i] = g[i - 1] \o tt[i]
      BY <2>6, <3>3
    <3> QED BY <2>1, <3>3, <3>4, <3>5
  <2>4. g[n + 1] = g[n] \o x
    <3>1. n + 1 \in 1..(n + 1) /\ (n + 1) - 1 = n
      BY <2>7
    <3> QED BY <2>1, <2>6, <3>1
  <2>5. f[n] = g[n]
    BY <2>3, <2>7
  <2> QED BY <1>1, <2>1, <2>2, <2>4, <2>5 DEF tt, n
<1>6. ASSUME ss # <<>> PROVE FlattenSeq(ss) = Head(ss) \o FlattenSeq(Tail(ss))
  <2> DEFINE tt == Tail(ss)
             n == Len(ss)
  <2>1. /\ tt \in Seq(Seq(Byte)) /\ Len(tt) = n - 1 /\ n >= 1 /\ Head(ss) = ss[1]
        /\ \A i \in 1..(n - 1) : tt[i] = ss[i + 1]
    BY <1>6
  <2>2. PICK g : Flat(tt, g) /\ FlattenSeq(tt) = g[Len(tt)]
    BY <2>1, FlattenIs
  <2>7. n \in Nat
    OBVIOUS
  <2>8. /\ f[0] = <<>> /\ \A i \in 1..n : f[i] = f[i - 1] \o ss[i]
        /\ g[0] = <<>> /\ \A i \in 1..(n - 1) : g[i] = g[i - 1] \o tt[i]
    BY <1>1, <2>1, <2>2 DEF Flat
  <2> HIDE DEF tt
  <2>3. g \in [0..(n - 1) -> Seq(Byte)] /\ f \in [0..n -> Seq(Byte)] /\ ss[1] \in Seq(Byte)
    BY <1>1, <1>2, <2>1, <2>2 DEF Flat
  <2>9. \A i \in 1..n : ss[i] \in Seq(Byte)
    OBVIOUS
  <2> HIDE DEF n
  <2> DEFINE Bad == {i \in 0..(n - 1) : f[i + 1] # ss[1] \o g[i]}
  <2>4. Bad = {}
    <3> SUFFICES ASSUME Bad # {} PROVE FALSE
      OBVIOUS
    <3>1. PICK i \in Bad : \A j \in Bad : i <= j
      <4>1. 0..(n - 1) \subseteq Nat
        BY <2>7
      <4>2. Bad \subseteq 0..(n - 1)
        OBVIOUS
      <4> HIDE DEF Bad
      <4>3. Bad \subseteq Nat
        BY <4>1, <4>2
      <4> QED BY <4>3, LeastOf
    <3>2. i # 0
      <4>1. 1 \in 1..n /\ 0 + 1 = 1 /\ 1 - 1 = 0
        BY <2>1, <2>7
      <4>2. f[1] = f[0] \o ss[1]
        BY <2>8, <4>1
      <4>3. f[0] \o ss[1] = ss[1] /\ ss[1] \o g[0] = ss[1]
        BY <2>3, <2>8, Concats
      <4>4. f[0 + 1] = ss[1] \o g[0]
        BY <4>1, <4>2, <4>3
      <4>5. 0 \notin Bad
        BY <4>4
      <4> HIDE DEF Bad
      <4> QED BY <4>5
    <3>3. i - 1 \in 0..(n - 1) /\ ~(i <= i - 1) /\ i \in 1..(n - 1) /\ i + 1 \in 1..n
      BY <2>1, <2>7, <3>2
    <3>4. f[i] = ss[1] \o g[i - 1]
      <4>1. i - 1 \notin Bad
        <5> HIDE DEF Bad
        <5> QED BY <3>1, <3>3
      <4>2. f[(i - 1) + 1] = ss[1] \o g[i - 1]
        BY <3>3, <4>1
      <4>3. (i - 1) + 1 = i
        BY <3>3
      <4> QED BY <4>2, <4>3
    <3>5. f[i + 1] = f[i] \o ss[i + 1] /\ g[i] = g[i - 1] \o ss[i + 1]
      <4>1. (i + 1) - 1 = i
        BY <3>3
      <4> QED BY <2>1, <2>8, <3>3, <4>1
    <3>6. g[i - 1] \in Seq(Byte) /\ ss[i + 1] \in Seq(Byte)
      BY <2>3, <2>9, <3>3
    <3>7. f[i + 1] = ss[1] \o g[i]
      <4>1. (ss[1] \o g[i - 1]) \o ss[i + 1] = ss[1] \o (g[i - 1] \o ss[i + 1])
        <5>1. \A x, y, z \in Seq(Byte) : (x \o y) \o z = x \o (y \o z)
          BY Concats
        <5> QED BY <2>3, <3>6, <5>1
      <4> QED BY <3>4, <3>5, <4>1
    <3> QED BY <3>7
  <2>5. n - 1 \in 0..(n - 1) /\ (n - 1) + 1 = n
    BY <2>1, <2>7
  <2>6. f[n] = ss[1] \o g[n - 1]
    <3>1. f[(n - 1) + 1] = ss[1] \o g[n - 1]
      BY <2>4, <2>5
    <3> QED BY <2>5, <3>1
  <2> QED BY <1>1, <2>1, <2>2, <2>6 DEF tt, n
<1> QED BY <1>3, <1>4, <1>5, <1>6

-----------------------------------------------------------------------------
(* The stream between the terminal and the run loop, and its types.        *)

\* What is pending, in the channel, in the reader's hand and on the tty.
Stream == pend \o ToCome

\* The values that the variables take.
InputTypes ==
  /\ tty \in Seq(Byte) /\ held \in Seq(Byte) /\ chunks \in Seq(Seq(Byte)) /\ pend \in Seq(Byte)
  /\ written \in Seq(Byte)
  /\ events \in Seq(InputEvents) /\ got \in Seq(InputEvents)
  /\ open \in {"open", "closed", "failed"} /\ screen \in {"on", "restoring", "restored"}
  /\ at \in {"live", "idled", "final", "wait", "last", "end"}
  /\ idled \in BOOLEAN /\ cut \in BOOLEAN /\ swallowed \in BOOLEAN

\* The smaller of two numbers.
LEMMA MinOfTwo ==
  ASSUME NEW a \in Nat, NEW b \in Nat
  PROVE  Min({a, b}) \in {a, b} /\ Min({a, b}) <= a /\ Min({a, b}) <= b
<1>1. \E x \in {a, b} : \A y \in {a, b} : x <= y
  <2>1. CASE a <= b
    BY <2>1
  <2>2. CASE b <= a
    BY <2>2
  <2> QED BY <2>1, <2>2
<1>2. Min({a, b}) \in {a, b} /\ \A y \in {a, b} : Min({a, b}) <= y
  BY <1>1 DEF Min
<1> QED BY <1>2

\* A buffer is its first bytes and the rest of it.
LEMMA Parted ==
  ASSUME NEW b \in Seq(Byte), NEW n \in 0..Len(b)
  PROVE  /\ SubSeq(b, 1, n) \in Seq(Byte) /\ Rest(b, n) \in Seq(Byte)
         /\ SubSeq(b, 1, n) \o Rest(b, n) = b
<1> DEFINE x == SubSeq(b, 1, n)
           y == Rest(b, n)
           z == x \o y
<1>1. x \in Seq(Byte) /\ Len(x) = n /\ \A i \in 1..n : x[i] = b[i]
  OBVIOUS
<1>2. y \in Seq(Byte) /\ Len(y) = Len(b) - n /\ \A i \in 1..(Len(b) - n) : y[i] = b[i + n]
  BY RestOf
<1> HIDE DEF x, y
<1>3. z \in Seq(Byte) /\ Len(z) = Len(b)
  BY <1>1, <1>2
<1>4. \A i \in 1..Len(z) : z[i] = b[i]
  <2> SUFFICES ASSUME NEW i \in 1..Len(b) PROVE z[i] = b[i]
    BY <1>3
  <2>1. CASE i <= n
    BY <1>1, <1>2, <2>1
  <2>2. CASE ~(i <= n)
    <3>1. i - n \in 1..(Len(b) - n) /\ (i - n) + n = i
      BY <2>2
    <3>2. z[i] = y[i - n]
      BY <1>1, <1>2, <2>2
    <3> QED BY <1>2, <3>1, <3>2
  <2> QED BY <2>1, <2>2
<1> HIDE DEF z
<1>5. z = b
  BY <1>3, <1>4, SeqEqual
<1> QED BY <1>1, <1>2, <1>5 DEF x, y, z

\* What is to come is a buffer, and so is the stream.
LEMMA StreamTypes ==
  ASSUME InputTypes
  PROVE  /\ FlattenSeq(chunks) \in Seq(Byte) /\ ToCome \in Seq(Byte) /\ Stream \in Seq(Byte)
         /\ ToCome = FlattenSeq(chunks) \o (held \o tty)
<1>1. FlattenSeq(chunks) \in Seq(Byte) /\ held \in Seq(Byte) /\ tty \in Seq(Byte) /\ pend \in Seq(Byte)
  BY Flattened DEF InputTypes
<1>2. ToCome = FlattenSeq(chunks) \o (held \o tty)
  BY <1>1, Concats DEF ToCome
<1>3. ToCome \in Seq(Byte)
  BY <1>1, <1>2, Concats
<1> QED BY <1>1, <1>2, <1>3, Concats DEF Stream

\* A byte that is read, sent or received is in the stream as before.
LEMMA ReadKeeps ==
  ASSUME InputTypes, Read
  PROVE  /\ held' \in Seq(Byte) /\ tty' \in Seq(Byte) /\ Stream' = Stream
         /\ ToCome' = ToCome /\ UNCHANGED pend
<1>1. PICK size \in ReadSizes : LET n == Min({size, Len(tty)}) IN
             held' = SubSeq(tty, 1, n) /\ tty' = Rest(tty, n)
  BY DEF Read
<1> DEFINE n == Min({size, Len(tty)})
<1>2. tty \in Seq(Byte) /\ Len(tty) \in Nat /\ size \in Nat /\ held = <<>>
  BY BoundsAssumption DEF InputTypes, Read, Reading
<1>3. n \in 0..Len(tty)
  BY <1>2, MinOfTwo
<1>4. held' = SubSeq(tty, 1, n) /\ tty' = Rest(tty, n)
  BY <1>1
<1> HIDE DEF n
<1>5. held' \in Seq(Byte) /\ tty' \in Seq(Byte) /\ held' \o tty' = tty
  BY <1>2, <1>3, <1>4, Parted
<1>6. FlattenSeq(chunks) \in Seq(Byte) /\ ToCome = FlattenSeq(chunks) \o (held \o tty)
  BY StreamTypes
<1>7. UNCHANGED <<chunks, pend>>
  BY DEF Read, decoderVars
<1>8. ToCome' = FlattenSeq(chunks) \o (held' \o tty')
  BY <1>5, <1>6, <1>7, Concats DEF ToCome
<1>9. held \o tty = tty
  BY <1>2, Concats
<1> QED BY <1>5, <1>6, <1>7, <1>8, <1>9 DEF Stream

\* What the reader holds is in the stream when it has been sent.
LEMMA SendKeeps ==
  ASSUME InputTypes, Send
  PROVE  /\ held' \in Seq(Byte) /\ chunks' \in Seq(Seq(Byte)) /\ Stream' = Stream
         /\ ToCome' = ToCome /\ UNCHANGED pend
<1>1. chunks \in Seq(Seq(Byte)) /\ held \in Seq(Byte) /\ tty \in Seq(Byte)
  BY DEF InputTypes
<1>2. chunks' = Append(chunks, held) /\ held' = <<>> /\ UNCHANGED <<tty, pend>>
  BY DEF Send, decoderVars
<1>3. FlattenSeq(chunks') = FlattenSeq(chunks) \o held /\ FlattenSeq(chunks) \in Seq(Byte)
  BY <1>1, <1>2, Flattened
<1>4. ToCome' = ToCome
  <2> DEFINE f == FlattenSeq(chunks)
  <2>1. ToCome' = (f \o held) \o <<>> \o tty
    BY <1>2, <1>3 DEF ToCome
  <2>2. ToCome = (f \o held) \o tty
    BY DEF ToCome
  <2> HIDE DEF f
  <2>3. (f \o held) \o <<>> = f \o held
    BY <1>1, <1>3, Concats DEF f
  <2> QED BY <2>1, <2>2, <2>3
<1> QED BY <1>1, <1>2, <1>4, Concats DEF Stream

\* What the decoder receives is in the stream as it was in the channel.
LEMMA ReceiveKeeps ==
  ASSUME InputTypes, Receive
  PROVE  pend' \in Seq(Byte) /\ chunks' \in Seq(Seq(Byte)) /\ Stream' = Stream
<1>1. chunks \in Seq(Seq(Byte)) /\ held \in Seq(Byte) /\ tty \in Seq(Byte) /\ pend \in Seq(Byte)
  BY DEF InputTypes
<1>2. chunks # <<>> /\ pend' = pend \o Head(chunks) /\ chunks' = Tail(chunks) /\ UNCHANGED <<tty, held>>
  BY DEF Receive
<1>3. Head(chunks) \in Seq(Byte) /\ Tail(chunks) \in Seq(Seq(Byte))
  BY <1>1, <1>2
<1> DEFINE h == Head(chunks)
           f == FlattenSeq(chunks')
           k == held \o tty
<1>4. FlattenSeq(chunks) = h \o f /\ f \in Seq(Byte) /\ k \in Seq(Byte)
  BY <1>1, <1>2, <1>3, Flattened, Concats
<1>5. ToCome' = f \o k
  <2>1. ToCome' = (f \o held) \o tty
    BY <1>2 DEF ToCome
  <2> HIDE DEF f
  <2> QED BY <1>1, <1>4, <2>1, Joins
<1>6. ToCome = (h \o f) \o k
  BY <1>4, StreamTypes
<1>7. Stream' = (pend \o h) \o (f \o k)
  BY <1>2, <1>5 DEF Stream
<1>8. Stream = pend \o ((h \o f) \o k)
  BY <1>6 DEF Stream
<1>9. h \in Seq(Byte)
  BY <1>3
<1> HIDE DEF h, f, k
<1>10. (pend \o h) \o (f \o k) = pend \o (h \o (f \o k))
  <2>1. f \o k \in Seq(Byte)
    BY <1>4, Concats
  <2> QED BY <1>1, <1>9, <2>1, Joins
<1>11. (h \o f) \o k = h \o (f \o k)
  BY <1>4, <1>9, Concats
<1>12. Stream' = Stream
  BY <1>7, <1>8, <1>10, <1>11
<1> QED BY <1>1, <1>2, <1>3, <1>12, Concats

\* What is written is added to the stream.
LEMMA WriteAdds ==
  ASSUME InputTypes, NEW w \in Writes, Write(w)
  PROVE  w \in Seq(Byte) /\ Stream' = Stream \o w /\ UNCHANGED pend
<1>1. w \in Seq(Byte) /\ ToCome \in Seq(Byte) /\ tty \in Seq(Byte) /\ held \in Seq(Byte)
      /\ pend \in Seq(Byte) /\ FlattenSeq(chunks) \in Seq(Byte)
  BY WritesAssumption, StreamTypes DEF InputTypes
<1>2. tty' = tty \o w /\ UNCHANGED <<pend, chunks, held>>
  BY DEF Write, readerVars, decoderVars
<1> DEFINE x == FlattenSeq(chunks) \o held
<1>3. x \in Seq(Byte)
  BY <1>1, Concats
<1>4. ToCome' = x \o (tty \o w) /\ ToCome = x \o tty
  BY <1>2 DEF ToCome
<1> HIDE DEF x
<1>5. ToCome' = ToCome \o w
  BY <1>1, <1>3, <1>4, Joins
<1> QED BY <1>1, <1>2, <1>5, Joins DEF Stream

-----------------------------------------------------------------------------
(* However the bytes are chunked, the events are those that they spell.    *)

\* A turn of drain's loop takes bytes off the buffer, and sends what they are.
LEMMA EmitTakes ==
  ASSUME InputTypes, Emit
  PROVE  LET r == decode(pend, Deadline) IN
         /\ Deadline \in Deadlines /\ r \in Results /\ r # Incomplete /\ r.n \in 1..Len(pend)
         /\ Emitted(r) \in Seq(InputEvents)
         /\ pend' = Rest(pend, r.n) /\ pend' \in Seq(Byte) /\ events' = events \o Emitted(r)
         /\ swallowed' = (swallowed \/ Swallows(pend, r))
         /\ ToCome' = ToCome
<1> DEFINE r == decode(pend, Deadline)
<1>1. pend \in Seq(Byte) /\ events \in Seq(InputEvents) /\ Deadline \in Deadlines
  BY DEF InputTypes, Emit, Deadline, Deadlines
<1>2. /\ r # Incomplete /\ pend' = Rest(pend, r.n)
      /\ IF r.ok THEN events' = Append(events, r.ev) ELSE events' = events
      /\ swallowed' = (swallowed \/ Swallows(pend, r))
      /\ UNCHANGED <<tty, held, chunks>>
  BY DEF Emit, readerVars
<1>3. r \in Results /\ r.n \in 1..Len(pend)
  BY <1>1, <1>2, DecodeEquation, Consumes
<1> HIDE DEF r
<1>4. r.ok \in BOOLEAN /\ r.ev \in InputEvents
  BY <1>3 DEF Results
<1>5. pend' \in Seq(Byte)
  <2>1. r.n \in 0..Len(pend)
    BY <1>1, <1>3
  <2> QED BY <1>1, <1>2, <2>1, RestOf
<1>6. Emitted(r) \in Seq(InputEvents) /\ events' = events \o Emitted(r)
  <2>1. CASE r.ok
    <3>1. Emitted(r) = <<r.ev>> /\ events' = Append(events, r.ev)
      BY <1>2, <2>1 DEF Emitted
    <3>2. Append(events, r.ev) = events \o <<r.ev>>
      BY <1>1, <1>4, AppendIsConcat
    <3> QED BY <1>4, <3>1, <3>2
  <2>2. CASE ~r.ok
    <3>1. Emitted(r) = <<>> /\ events' = events
      BY <1>2, <2>2 DEF Emitted
    <3> QED BY <1>1, <3>1, Concats
  <2> QED BY <2>1, <2>2
<1>7. ToCome' = ToCome
  BY <1>2 DEF ToCome
<1> QED BY <1>1, <1>2, <1>3, <1>5, <1>6, <1>7 DEF r

\* A terminal that has just been opened is well typed.
LEMMA InitInputTypes == ASSUME TerminalInit PROVE InputTypes
BY EmptySeqs DEF TerminalInit, InputTypes

\* Every step keeps the variables in their types.
LEMMA NextInputTypes == ASSUME InputTypes, [TerminalNext]_terminalVars PROVE InputTypes'
<1> USE DEF readerVars, decoderVars, screenVars, ghosts
<1>1. ASSUME NEW w \in Writes, Write(w) PROVE InputTypes'
  <2>1. w \in Seq(Byte)
    BY WritesAssumption
  <2>2. tty \o w \in Seq(Byte) /\ written \o w \in Seq(Byte)
    BY <2>1, Concats DEF InputTypes
  <2> QED BY <1>1, <2>2 DEF Write, InputTypes
<1>2. CASE HangUp
  BY <1>2 DEF HangUp, InputTypes
<1>3. CASE Read
  <2>1. held' \in Seq(Byte) /\ tty' \in Seq(Byte)
    BY <1>3, ReadKeeps
  <2>2. UNCHANGED <<open, chunks, decErr, decoderVars, events, screen, ghosts>>
    BY <1>3 DEF Read
  <2> QED BY <2>1, <2>2 DEF InputTypes
<1>4. CASE Send
  <2>1. held' \in Seq(Byte) /\ chunks' \in Seq(Seq(Byte))
    BY <1>4, SendKeeps
  <2>2. UNCHANGED <<tty, open, decErr, decoderVars, events, screen, ghosts>>
    BY <1>4 DEF Send
  <2> QED BY <2>1, <2>2 DEF InputTypes
<1>5. CASE ReadFails
  BY <1>5 DEF ReadFails, InputTypes
<1>6. CASE Emit
  <2>1. pend' \in Seq(Byte) /\ events' \in Seq(InputEvents) /\ swallowed' \in BOOLEAN
    <3>1. events \in Seq(InputEvents) /\ swallowed \in BOOLEAN
      BY DEF InputTypes
    <3> QED BY <1>6, <3>1, EmitTakes, EventJoins
  <2>2. UNCHANGED <<tty, open, readerVars, stalls, before, at, armed, screen, done, writes, written,
                    got, idled, cut>>
    BY <1>6 DEF Emit
  <2> QED BY <2>1, <2>2 DEF InputTypes
<1>7. CASE Arm
  BY <1>7 DEF Arm, InputTypes
<1>8. CASE Receive
  <2>1. pend' \in Seq(Byte) /\ chunks' \in Seq(Seq(Byte))
    BY <1>8, ReceiveKeeps
  <2>2. at' = "live" /\ UNCHANGED <<tty, open, held, decErr, before, armed, events, screen, done, ghosts>>
    BY <1>8 DEF Receive
  <2> QED BY <2>1, <2>2 DEF InputTypes
<1>9. CASE Timeout
  BY <1>9 DEF Timeout, InputTypes
<1>10. CASE TimedOut
  BY <1>10 DEF TimedOut, InputTypes
<1>11. CASE LastDrain
  BY <1>11 DEF LastDrain, InputTypes
<1>12. CASE DecoderEnds
  BY <1>12 DEF DecoderEnds, InputTypes
<1>13. CASE Consume
  <2>1. got' \in Seq(InputEvents) /\ events' \in Seq(InputEvents)
    BY <1>13 DEF Consume, InputTypes
  <2>2. UNCHANGED <<tty, open, readerVars, decoderVars, screen, writes, written, idled, cut, swallowed>>
    BY <1>13 DEF Consume
  <2> QED BY <2>1, <2>2 DEF InputTypes
<1>14. CASE Restore
  BY <1>14, EmptySeqs DEF Restore, InputTypes
<1>15. CASE JoinDrains
  <2>1. events' \in Seq(InputEvents)
    BY <1>15 DEF JoinDrains, InputTypes
  <2> QED BY <1>15, <2>1 DEF JoinDrains, InputTypes
<1>16. CASE Joined \/ JoinTimesOut
  <2>1. CASE Joined
    BY <2>1, EmptySeqs DEF Joined, InputTypes
  <2>2. CASE JoinTimesOut
    BY <2>2 DEF JoinTimesOut, InputTypes
  <2> QED BY <1>16, <2>1, <2>2
<1>17. CASE UNCHANGED terminalVars
  BY <1>17 DEF terminalVars, InputTypes
<1> QED BY <1>1, <1>2, <1>3, <1>4, <1>5, <1>6, <1>7, <1>8, <1>9, <1>10, <1>11, <1>12, <1>13,
           <1>14, <1>15, <1>16, <1>17 DEF TerminalNext

\* The events of e, and those that b spells while more may come, are those that
\* w spells, whatever follows.
Spells(e, b, w) == \A c \in Seq(Byte) : e \o Decoded[b \o c] = Decoded[w \o c]

\* What is between the terminal and the run loop spells what was written, until
\* a drain under another deadline has decoded something.
Chunked ==
  /\ decErr # None => open # "open"
  /\ at \in {"last", "end"} => open # "open"
  /\ screen # "on" => open # "open"
  /\ at \in {"idled", "final"} => idled \/ open # "open"
  /\ open = "open" /\ ~idled => Spells(got \o events, Stream, written)

\* The inductive invariant behind ChunkingIsInvisible.
InputInv == InputTypes /\ Chunked

\* It spells nothing, and nothing was written.
LEMMA InitChunked == ASSUME TerminalInit PROVE InputInv
<1>1. InputTypes
  BY InitInputTypes
<1>2. Spells(got \o events, Stream, written)
  <2>1. got \o events = <<>> /\ Stream = <<>> /\ written = <<>>
    <3>1. /\ got = <<>> /\ events = <<>> /\ pend = <<>> /\ chunks = <<>> /\ held = <<>>
          /\ tty = <<>> /\ written = <<>> /\ <<>> \in Seq(Seq(Byte))
      BY DEF TerminalInit
    <3>2. FlattenSeq(<<>>) = <<>>
      BY <3>1, Flattened
    <3> QED BY <3>1, <3>2 DEF Stream, ToCome
  <2>2. \A c \in Seq(Byte) : Decoded[c] \in Seq(InputEvents) /\ <<>> \o c = c
    BY DecodedEquation, Concats
  <2>3. ASSUME NEW c \in Seq(Byte) PROVE <<>> \o Decoded[<<>> \o c] = Decoded[<<>> \o c]
    BY <2>2, Concats
  <2> QED BY <2>1, <2>3 DEF Spells
<1> QED BY <1>1, <1>2 DEF TerminalInit, Chunked, InputInv

\* More is written: the bytes that follow are those and what follows them.
LEMMA SpellsMore ==
  ASSUME NEW e, NEW b \in Seq(Byte), NEW v \in Seq(Byte), NEW w \in Seq(Byte), Spells(e, b, v)
  PROVE  Spells(e, b \o w, v \o w)
<1> SUFFICES ASSUME NEW c \in Seq(Byte)
             PROVE  e \o Decoded[(b \o w) \o c] = Decoded[(v \o w) \o c]
  BY DEF Spells
<1>1. w \o c \in Seq(Byte)
  BY Concats
<1>2. (b \o w) \o c = b \o (w \o c) /\ (v \o w) \o c = v \o (w \o c)
  BY Joins
<1>3. e \o Decoded[b \o (w \o c)] = Decoded[v \o (w \o c)]
  BY <1>1 DEF Spells
<1> QED BY <1>2, <1>3

\* An event goes from the bytes to the events: PrefixStable is why it is the same one.
LEMMA SpellsOn ==
  ASSUME NEW e \in Seq(InputEvents), NEW b \in Seq(Byte), NEW t \in Seq(Byte), NEW v \in Seq(Byte),
         decode(b, "live") # Incomplete, Spells(e, b \o t, v)
  PROVE  Spells(e \o Emitted(decode(b, "live")), Rest(b, decode(b, "live").n) \o t, v)
<1> DEFINE r == decode(b, "live")
           d == Emitted(r)
           q == Rest(b, r.n)
<1> SUFFICES ASSUME NEW c \in Seq(Byte)
             PROVE  (e \o d) \o Decoded[(q \o t) \o c] = Decoded[v \o c]
  BY DEF Spells
<1> DEFINE k == t \o c
           a == Decoded[q \o k]
<1>1. k \in Seq(Byte) /\ b \o k \in Seq(Byte) /\ (b \o t) \o c = b \o k
  BY Concats
<1>2. r.n \in 1..Len(b) /\ q \in Seq(Byte) /\ d \in Seq(InputEvents)
  BY LiveAnswers
<1>3. decode(b \o k, "live") = r
  BY <1>1, PrefixStable
<1>4. Rest(b \o k, r.n) = q \o k
  <2>1. r.n \in 0..Len(b)
    BY <1>2
  <2> HIDE DEF r, k
  <2> QED BY <1>1, <2>1, RestOf
<1>5. q \o k \in Seq(Byte) /\ a \in Seq(InputEvents) /\ (q \o t) \o c = q \o k
  <2> HIDE DEF q
  <2>1. q \o k \in Seq(Byte)
    BY <1>1, <1>2, Concats
  <2>2. (q \o t) \o c = q \o k
    BY <1>2, Joins
  <2> QED BY <2>1, <2>2, DecodedEquation
<1>6. Decoded[b \o k] = d \o a
  <2>1. /\ decode(b \o k, "live") # Incomplete
        /\ Decoded[b \o k] = Emitted(decode(b \o k, "live")) \o Decoded[Rest(b \o k, decode(b \o k, "live").n)]
    BY <1>1, <1>3, DecodedEquation
  <2> HIDE DEF r, k
  <2> QED BY <1>3, <1>4, <2>1
<1>7. e \o Decoded[b \o k] = Decoded[v \o c]
  <2>1. e \o Decoded[(b \o t) \o c] = Decoded[v \o c]
    BY DEF Spells
  <2> HIDE DEF k
  <2> QED BY <1>1, <2>1
<1> HIDE DEF r, d, q, k, a
<1>8. (e \o d) \o a = e \o (d \o a)
  BY <1>2, <1>5, EventJoins
<1>9. Decoded[(q \o t) \o c] = a
  BY <1>5 DEF a
<1> QED BY <1>6, <1>7, <1>8, <1>9

\* Every step keeps that invariant: a byte is passed on, a decoded event is the
\* one its bytes spell whatever follows them, or a deadline has come (idled).
LEMMA NextChunked == ASSUME InputInv, [TerminalNext]_terminalVars PROVE InputInv'
<1> USE DEF readerVars, decoderVars, screenVars, ghosts
<1>0. InputTypes /\ Chunked /\ InputTypes'
  BY NextInputTypes DEF InputInv
<1> SUFFICES Chunked'
  BY <1>0 DEF InputInv
<1>1. ASSUME NEW w \in Writes, Write(w) PROVE Chunked'
  <2>1. w \in Seq(Byte) /\ written \in Seq(Byte) /\ Stream \in Seq(Byte) /\ Stream' = Stream \o w
    BY <1>0, <1>1, StreamTypes, WriteAdds DEF InputTypes
  <2>2. /\ written' = written \o w
        /\ UNCHANGED <<open, screen, decErr, at, idled, got, events>>
    BY <1>1 DEF Write
  <2>3. Spells(got \o events, Stream, written) => Spells(got \o events, Stream \o w, written \o w)
    BY <2>1, SpellsMore
  <2> QED BY <1>0, <2>1, <2>2, <2>3 DEF Chunked
<1>2. CASE HangUp
  <2>1. open' # "open"
    BY <1>2 DEF HangUp
  <2> QED BY <2>1 DEF Chunked
<1>3. CASE Read
  <2>1. Stream' = Stream
    BY <1>0, <1>3, ReadKeeps
  <2>2. UNCHANGED <<open, screen, decErr, at, idled, got, events, written>>
    BY <1>3 DEF Read
  <2> QED BY <1>0, <2>1, <2>2 DEF Chunked
<1>4. CASE Send
  <2>1. Stream' = Stream
    BY <1>0, <1>4, SendKeeps
  <2>2. UNCHANGED <<open, screen, decErr, at, idled, got, events, written>>
    BY <1>4 DEF Send
  <2> QED BY <1>0, <2>1, <2>2 DEF Chunked
<1>5. CASE ReadFails
  <2>1. open' # "open"
    BY <1>5 DEF ReadFails
  <2> QED BY <2>1 DEF Chunked
<1>6. CASE Emit
  <2> DEFINE r == decode(pend, "live")
  <2>1. UNCHANGED <<open, screen, decErr, at, idled, got, written>>
    BY <1>6 DEF Emit
  <2>2. CASE ~(open = "open" /\ ~idled)
    BY <1>0, <2>1, <2>2 DEF Chunked
  <2>3. CASE open = "open" /\ ~idled
    <3>1. at = "live"
      BY <1>0, <1>6, <2>3 DEF Chunked, InputTypes, Emit
    <3>2. /\ r # Incomplete /\ Emitted(r) \in Seq(InputEvents)
          /\ pend' = Rest(pend, r.n) /\ events' = events \o Emitted(r) /\ ToCome' = ToCome
      <4>1. Deadline = "live"
        BY <3>1 DEF Deadline
      <4> QED BY <1>0, <1>6, <4>1, EmitTakes
    <3>3. /\ got \in Seq(InputEvents) /\ events \in Seq(InputEvents) /\ pend \in Seq(Byte)
          /\ ToCome \in Seq(Byte) /\ written \in Seq(Byte)
      BY <1>0, StreamTypes DEF InputTypes
    <3>4. Spells(got \o events, pend \o ToCome, written)
      BY <1>0, <2>3 DEF Chunked, Stream
    <3>5. Spells((got \o events) \o Emitted(r), Rest(pend, r.n) \o ToCome, written)
      <4>1. got \o events \in Seq(InputEvents)
        BY <3>3, EventJoins
      <4> QED BY <3>2, <3>3, <3>4, <4>1, SpellsOn
    <3> HIDE DEF r
    <3>6. got' \o events' = (got \o events) \o Emitted(r)
      BY <2>1, <3>2, <3>3, EventJoins
    <3>7. Stream' = Rest(pend, r.n) \o ToCome
      BY <3>2 DEF Stream
    <3> QED BY <1>0, <2>1, <3>5, <3>6, <3>7 DEF Chunked
  <2> QED BY <2>2, <2>3
<1>7. CASE Arm
  <2>1. at' = "wait" /\ UNCHANGED <<open, screen, decErr, idled, got, events, written, pend, chunks, held, tty>>
    BY <1>7 DEF Arm
  <2> QED BY <1>0, <2>1 DEF Chunked, Stream, ToCome
<1>8. CASE Receive
  <2>1. Stream' = Stream
    BY <1>0, <1>8, ReceiveKeeps
  <2>2. at' = "live" /\ UNCHANGED <<open, screen, decErr, idled, got, events, written>>
    BY <1>8 DEF Receive
  <2> QED BY <1>0, <2>1, <2>2 DEF Chunked
<1>9. CASE Timeout
  <2>1. at' \in {"idled", "final"} /\ idled' /\ UNCHANGED <<open, screen, decErr>>
    BY <1>9 DEF Timeout
  <2> QED BY <1>0, <2>1 DEF Chunked
<1>10. CASE TimedOut
  <2>1. at' = "live" /\ UNCHANGED <<open, screen, decErr, idled, got, events, written, pend, chunks, held, tty>>
    BY <1>10 DEF TimedOut
  <2> QED BY <1>0, <2>1 DEF Chunked, Stream, ToCome
<1>11. CASE LastDrain
  <2>1. at' = "last" /\ decErr # None /\ UNCHANGED <<open, screen, decErr>>
    BY <1>11 DEF LastDrain
  <2> QED BY <1>0, <2>1 DEF Chunked
<1>12. CASE DecoderEnds
  <2>1. at = "last" /\ at' = "end" /\ UNCHANGED <<open, screen, decErr>>
    BY <1>12 DEF DecoderEnds
  <2> QED BY <1>0, <2>1 DEF Chunked
<1>13. CASE Consume
  <2>1. /\ events # <<>> /\ got' = Append(got, Head(events)) /\ events' = Tail(events)
        /\ UNCHANGED <<open, screen, decErr, at, idled, written, pend, chunks, held, tty>>
    BY <1>13 DEF Consume
  <2>2. got' \o events' = got \o events
    <3>1. got \in Seq(InputEvents) /\ events \in Seq(InputEvents)
      BY <1>0 DEF InputTypes
    <3> QED BY <2>1, <3>1, ShiftHead
  <2> QED BY <1>0, <2>1, <2>2 DEF Chunked, Stream, ToCome
<1>14. CASE Restore
  <2>1. open' # "open"
    BY <1>14 DEF Restore
  <2> QED BY <2>1 DEF Chunked
<1>15. CASE JoinDrains
  <2>1. screen = "restoring" /\ UNCHANGED <<open, screen, decErr, at, idled>>
    BY <1>15 DEF JoinDrains
  <2>2. open # "open"
    BY <1>0, <2>1 DEF Chunked
  <2> QED BY <1>0, <2>1, <2>2 DEF Chunked
<1>16. CASE Joined \/ JoinTimesOut
  <2>1. screen = "restoring" /\ UNCHANGED <<open, decErr, at, idled>>
    BY <1>16 DEF Joined, JoinTimesOut
  <2>2. open # "open"
    BY <1>0, <2>1 DEF Chunked
  <2> QED BY <1>0, <2>1, <2>2 DEF Chunked
<1>17. CASE UNCHANGED terminalVars
  <2>1. UNCHANGED <<open, screen, decErr, at, idled, got, events, written, pend, chunks, held, tty>>
    BY <1>17 DEF terminalVars
  <2> QED BY <1>0, <2>1 DEF Chunked, Stream, ToCome
<1> QED BY <1>1, <1>2, <1>3, <1>4, <1>5, <1>6, <1>7, <1>8, <1>9, <1>10, <1>11, <1>12, <1>13,
           <1>14, <1>15, <1>16, <1>17 DEF TerminalNext

\* However the bytes are chunked, the events are those the bytes spell (see
\* ChunkingIsInvisible): a theorem for all writes, read sizes and capacities.
THEOREM SpecChunkingIsInvisible == TerminalSpec => []ChunkingIsInvisible
<1>1. ASSUME InputInv PROVE ChunkingIsInvisible
  <2>1. InputTypes /\ Chunked /\ Stream \in Seq(Byte) /\ written \in Seq(Byte)
    BY <1>1, StreamTypes DEF InputInv, InputTypes
  <2>2. <<>> \in Seq(Byte) /\ Stream \o <<>> = Stream /\ written \o <<>> = written
    BY <2>1, Concats
  <2>3. Spells(got \o events, Stream, written) => (got \o events) \o Decoded[Stream] = Decoded[written]
    BY <2>2 DEF Spells
  <2>4. open = "open" /\ ~idled => (got \o events) \o Decoded[Stream] = Decoded[written]
    BY <2>1, <2>3 DEF Chunked
  <2> QED BY <2>4 DEF ChunkingIsInvisible, Stream
<1>2. TerminalInit => InputInv
  BY InitChunked
<1>3. InputInv /\ [TerminalNext]_terminalVars => InputInv'
  BY NextChunked
<1> QED BY <1>1, <1>2, <1>3, PTL DEF TerminalSpec

-----------------------------------------------------------------------------

\* An opening bracket is at the j-th byte of b, or as much of it as b has.
Begins(b, j) == j \in 1..Len(b) /\ \A k \in 1..6 : j + k - 1 <= Len(b) => b[j + k - 1] = pasteStart[k]

\* Of a bracket at the j-th byte, of m, enough is there for this deadline.
Enough(m, j, d) == m >= j + 5 \/ d = "live" \/ (d = "idled" /\ m >= j + 2)

\* The bytes of an opening bracket at the j-th byte.
LEMMA BeginsBytes ==
  ASSUME NEW b \in Seq(Byte), NEW j, Begins(b, j)
  PROVE  /\ j \in 1..Len(b) /\ Len(b) \in Nat /\ b[j] = "esc"
         /\ j + 1 <= Len(b) => b[j + 1] = "["
         /\ j + 2 <= Len(b) => b[j + 2] = "2"
         /\ j + 3 <= Len(b) => b[j + 3] = "0"
         /\ j + 4 <= Len(b) => b[j + 4] = "0"
         /\ j + 5 <= Len(b) => b[j + 5] = "~"
<1>1. j \in 1..Len(b) /\ Len(b) \in Nat
  BY DEF Begins
<1>2. \A k \in 1..6 : j + k - 1 <= Len(b) => b[j + k - 1] = pasteStart[k]
  BY DEF Begins
<1>3. j + 1 - 1 = j /\ j + 2 - 1 = j + 1 /\ j + 3 - 1 = j + 2 /\ j + 4 - 1 = j + 3
      /\ j + 5 - 1 = j + 4 /\ j + 6 - 1 = j + 5
  BY <1>1
<1>4. 1 \in 1..6 /\ 2 \in 1..6 /\ 3 \in 1..6 /\ 4 \in 1..6 /\ 5 \in 1..6 /\ 6 \in 1..6 /\ j <= Len(b)
  BY <1>1
<1>5. b[j] = "esc"
  BY <1>2, <1>3, <1>4, StartBytes
<1>6. j + 1 <= Len(b) => b[j + 1] = "["
  BY <1>2, <1>3, <1>4, StartBytes
<1>7. j + 2 <= Len(b) => b[j + 2] = "2"
  BY <1>2, <1>3, <1>4, StartBytes
<1>8. j + 3 <= Len(b) => b[j + 3] = "0"
  BY <1>2, <1>3, <1>4, StartBytes
<1>9. j + 4 <= Len(b) => b[j + 4] = "0"
  BY <1>2, <1>3, <1>4, StartBytes
<1>10. j + 5 <= Len(b) => b[j + 5] = "~"
  BY <1>2, <1>3, <1>4, StartBytes
<1> QED BY <1>1, <1>5, <1>6, <1>7, <1>8, <1>9, <1>10

\* What an opening bracket that begins the buffer is not: given up, or a
\* sequence that is no paste.
LEMMA BracketFirst ==
  ASSUME NEW b \in Seq(Byte), NEW d \in Deadlines, Begins(b, 1), Enough(Len(b), 1, d)
  PROVE  /\ ~GivenUp(b, d)
         /\ ~Meta(b)
         /\ \A r : \A i \in 3..Len(b) : ~WholeCSI(b, r, i)
<1>1. /\ Len(b) \in Nat /\ Len(b) >= 1 /\ b[1] = "esc"
      /\ Len(b) >= 2 => b[2] = "["
      /\ Len(b) >= 3 => b[3] = "2"
      /\ Len(b) >= 4 => b[4] = "0"
      /\ Len(b) >= 5 => b[5] = "0"
      /\ Len(b) >= 6 => b[6] = "~"
  BY BeginsBytes
<1>2. ~Meta(b)
  BY <1>1 DEF Meta
<1>3. ASSUME NEW r, NEW i \in 3..Len(b), WholeCSI(b, r, i) PROVE FALSE
  <2>1. b[i] \notin Params /\ ~At(b, 1, pasteStart)
    BY <1>3 DEF WholeCSI
  <2>2. i # 3 /\ i # 4 /\ i # 5
    BY <1>1, <2>1 DEF Params
  <2>3. Len(b) >= 6
    BY <1>1, <2>2
  <2>4. At(b, 1, pasteStart)
    BY <1>1, <2>3, StartBytes DEF At
  <2> QED BY <2>1, <2>4
<1>4. ASSUME GivenUp(b, d) PROVE FALSE
  <2>1. CASE Len(b) = 1 /\ d # "live"
    BY <1>1, <2>1 DEF Enough
  <2>2. CASE Len(b) > 1 /\ b[2] = "O"
    BY <1>1, <2>2
  <2>3. CASE Len(b) >= 3 /\ b[2] = "[" /\ b[3] = "M"
    BY <1>1, <2>3
  <2>4. CASE /\ Len(b) > 1 /\ b[2] = "[" /\ \A j \in 3..Len(b) : b[j] \in Params
             /\ d # "live" /\ ~(d = "idled" /\ splitPasteMarker(b))
    <3>1. ~(Len(b) >= 6)
      <4>1. SUFFICES ASSUME Len(b) >= 6 PROVE FALSE
        OBVIOUS
      <4>2. 6 \in 3..Len(b) /\ b[6] = "~"
        BY <1>1, <4>1
      <4> QED BY <2>4, <4>2 DEF Params
    <3>2. d = "idled" /\ Len(b) >= 3 /\ Len(b) < 6
      BY <1>1, <2>4, <3>1 DEF Enough
    <3>3. SubSeq(b, 1, Len(b)) = SubSeq(pasteStart, 1, Len(b))
      <4> DEFINE x == SubSeq(b, 1, Len(b))
                 y == SubSeq(pasteStart, 1, Len(b))
      <4>1. x \in Seq(Byte) /\ Len(x) = Len(b) /\ \A k \in 1..Len(b) : x[k] = b[k]
        BY <1>1
      <4>2. y \in Seq(Byte) /\ Len(y) = Len(b) /\ \A k \in 1..Len(b) : y[k] = pasteStart[k]
        BY <1>1, <3>2, Markers
      <4>3. \A k \in 1..Len(b) : b[k] = pasteStart[k]
        BY <1>1, <3>2, StartBytes
      <4> HIDE DEF x, y
      <4>4. x = y
        BY <4>1, <4>2, <4>3, SeqEqual
      <4> QED BY <4>4 DEF x, y
    <3>4. splitPasteMarker(b)
      BY <3>2, <3>3, Markers DEF splitPasteMarker, IsPrefix
    <3> QED BY <2>4, <3>2, <3>4
  <2> QED BY <1>4, <2>1, <2>2, <2>3, <2>4 DEF GivenUp
<1> QED BY <1>2, <1>3, <1>4

\* Of what decode takes, an opening bracket is not a part: it stops before it,
\* or reads a paste that is whole.
LEMMA BracketHolds ==
  ASSUME NEW d \in Deadlines
  PROVE  \A b \in Seq(Byte) : \A j \in 1..Len(b) :
            LET r == decode(b, d) IN
            Begins(b, j) /\ Enough(Len(b), j, d) /\ r # Incomplete /\ ~Swallows(b, r)
            => r.n < j \/ (At(b, 1, pasteStart) /\ r = decodePaste(b, 6))
<1> DEFINE Stops(b, r, j) == r.n < j \/ (At(b, 1, pasteStart) /\ r = decodePaste(b, 6))
           Fine(b, r) == \A j \in 1..Len(b) :
                            Begins(b, j) /\ Enough(Len(b), j, d) /\ r # Incomplete /\ ~Swallows(b, r)
                            => Stops(b, r, j)
           B == {b \in Seq(Byte) : Fine(b, decode(b, d))}
<1>1. ASSUME NEW b \in Seq(Byte), ~Meta(b) PROVE Fine(b, decode(b, d))
  <2> DEFINE r == decode(b, d)
  <2>1. Shape(b, d, r)
    BY <1>1, DecodeShapes
  <2> SUFFICES ASSUME NEW j \in 1..Len(b), Begins(b, j), Enough(Len(b), j, d),
                      r # Incomplete, ~Swallows(b, r)
               PROVE  Stops(b, r, j)
    OBVIOUS
  <2>2. Len(b) \in Nat /\ j \in Int /\ j >= 1 /\ b[j] = "esc"
    BY BeginsBytes
  <2> HIDE DEF r
  <2>3. ASSUME NEW n \in Nat, NEW k, Takes(r, n, k), n < j PROVE Stops(b, r, j)
    BY <2>3 DEF Takes
  <2>4. CASE j = 1
    <3>1. ~GivenUp(b, d) /\ \A i \in 3..Len(b) : ~WholeCSI(b, r, i)
      BY <2>4, BracketFirst
    <3>2. b[1] = "esc" /\ (Len(b) >= 2 => b[2] = "[") /\ (Len(b) >= 3 => b[3] = "2")
      BY <2>4, BeginsBytes
    <3>3. CASE r = Give(KeyOf(b[1]), 1) /\ Len(b) >= 1 /\ b[1] # "esc"
      BY <3>2, <3>3
    <3>4. CASE r = Skip(1) /\ Len(b) >= 1 /\ b[1] # "esc"
      BY <3>2, <3>4
    <3>5. CASE Len(b) >= 2 /\ b[1] = "lead"
      BY <3>2, <3>5
    <3>6. CASE Len(b) >= 3 /\ b[2] = "O"
      BY <2>2, <3>2, <3>6
    <3>7. CASE Len(b) >= 6 /\ b[3] = "M"
      BY <2>2, <3>2, <3>7
    <3>8. CASE r = decodePaste(b, 6) /\ At(b, 1, pasteStart)
      BY <3>8
    <3>9. X10Shape(b, r) => Len(b) >= 6 /\ b[3] = "M"
      BY DEF X10Shape
    <3> HIDE DEF Stops
    <3> QED BY <2>1, <3>1, <3>3, <3>4, <3>5, <3>6, <3>7, <3>8, <3>9 DEF Shape
  <2>5. CASE j > 1
    <3>1. CASE \/ r = EscAlone
               \/ r = Give(KeyOf(b[1]), 1)
               \/ r = Skip(1)
      <4>1. Takes(r, 1, "esc") \/ Takes(r, 1, b[1]) \/ Takes(r, 1, "")
        BY <3>1, Taken
      <4>2. 1 \in Nat /\ 1 < j
        BY <2>2, <2>5
      <4> HIDE DEF Stops
      <4> QED BY <2>3, <4>1, <4>2
    <3>2. CASE r = Give(KeyOf("rune"), 2) /\ b[2] = "more"
      <4>1. Takes(r, 2, "rune")
        BY <3>2, Taken
      <4>2. j # 2
        BY <2>2, <3>2
      <4>3. 2 \in Nat /\ 2 < j
        BY <2>2, <2>5, <4>2
      <4> HIDE DEF Stops
      <4> QED BY <2>3, <4>1, <4>3
    <3>3. CASE r = Give(KeyOf("up"), 3) /\ b[2] = "O" /\ b[3] = "A"
      <4>1. Takes(r, 3, "up")
        BY <3>3, Taken
      <4>2. j # 2 /\ j # 3
        BY <2>2, <3>3
      <4>3. 3 \in Nat /\ 3 < j
        BY <2>2, <2>5, <4>2
      <4> HIDE DEF Stops
      <4> QED BY <2>3, <4>1, <4>3
    <3>4. CASE X10Shape(b, r)
      <4>1. Takes(r, 6, "") /\ b[2] = "["
        BY <3>4, Taken DEF X10Shape
      <4>2. \A k \in 3..6 : b[k] # "esc"
        <5>1. CASE r = Skip(6)
          <6>1. ~r.ok /\ r.n = 6
            BY <5>1, Answers
          <6> QED BY <6>1 DEF Swallows
        <5>2. CASE b[3] = "M" /\ \A k \in 4..6 : b[k] # "esc"
          <6>1. \A k \in 3..6 : k = 3 \/ k \in 4..6
            OBVIOUS
          <6> QED BY <5>2, <6>1
        <5> QED BY <3>4, <5>1, <5>2 DEF X10Shape
      <4>3. j # 2 /\ j \notin 3..6
        BY <2>2, <4>1, <4>2
      <4>4. 6 \in Nat /\ 6 < j
        BY <2>2, <2>5, <4>3
      <4> HIDE DEF Stops
      <4> QED BY <2>3, <4>1, <4>4
    <3>5. ASSUME NEW i \in 3..Len(b), WholeCSI(b, r, i) PROVE Stops(b, r, j)
      <4>1. /\ b[2] = "[" /\ b[i] \notin Params /\ \A k \in 3..(i - 1) : b[k] \in Params
            /\ \/ r = Give(MouseOf, i) /\ b[i] \in {"M", "m"}
               \/ r = Skip(i)
               \/ r = Give(KeyOf("up"), i) /\ b[i] = "A"
               \/ r = Give(KeyOf("home"), i) /\ b[i] = "~"
        BY <3>5 DEF WholeCSI
      <4>2. j # 2 /\ j \notin 3..(i - 1)
        BY <2>2, <4>1 DEF Params
      <4>3. j # i
        <5>1. CASE r = Skip(i)
          <6>1. ~r.ok /\ r.n = i
            BY <5>1, Answers
          <6>2. i \in 3..i
            OBVIOUS
          <6>3. b[i] # "esc"
            BY <6>1, <6>2 DEF Swallows
          <6> QED BY <2>2, <6>3
        <5>2. CASE b[i] \in {"M", "m", "A", "~"}
          BY <2>2, <5>2
        <5> QED BY <4>1, <5>1, <5>2
      <4>4. i \in Nat /\ i < j
        BY <2>2, <2>5, <4>2, <4>3
      <4>5. Takes(r, i, "") \/ Takes(r, i, "up") \/ Takes(r, i, "home")
        BY <4>1, Taken
      <4> HIDE DEF Stops
      <4> QED BY <2>3, <4>4, <4>5
    <3>6. CASE r = decodePaste(b, 6) /\ At(b, 1, pasteStart)
      BY <3>6
    <3> HIDE DEF Stops
    <3> QED BY <2>1, <3>1, <3>2, <3>3, <3>4, <3>5, <3>6 DEF Shape
  <2> QED BY <2>2, <2>4, <2>5
<1>2. ASSUME NEW b \in Seq(Byte), Meta(b), Tail(b) \in B PROVE Fine(b, decode(b, d))
  <2> DEFINE r == decode(b, d)
             t == Tail(b)
             a == decode(t, d)
  <2> SUFFICES ASSUME NEW j \in 1..Len(b), Begins(b, j), Enough(Len(b), j, d),
                      r # Incomplete, ~Swallows(b, r)
               PROVE  r.n < j
    OBVIOUS
  <2>1. /\ t \in Seq(Byte) /\ Len(t) = Len(b) - 1
        /\ \A i \in 1..(Len(b) - 1) : t[i] = b[i + 1]
        /\ a \in Results /\ r = decodeAlt(a, d)
    BY <1>2, DecodeMeta
  <2>2. Len(b) \in Nat /\ Len(b) > 1 /\ b[2] # "["
    BY <1>2 DEF Meta
  <2>3. j > 1
    BY <2>2, BeginsBytes
  <2>4. Fine(t, a)
    BY <1>2
  <2> HIDE DEF r, t, a
  <2>5. CASE a.ok /\ a.ev.kind \in {"key", "alt"}
    <3>1. a # Incomplete
      BY <2>5, Answers
    <3>2. r = Give(AltOf(a.ev.key), a.n + 1)
      BY <2>1, <2>5, <3>1 DEF decodeAlt
    <3>3. r.n = a.n + 1 /\ a.n \in Nat
      BY <2>1, <3>2 DEF Give, Results
    <3>4. j - 1 \in 1..Len(t) /\ Begins(t, j - 1)
      <4>1. j - 1 \in 1..Len(t)
        BY <2>1, <2>2, <2>3
      <4>2. ASSUME NEW k \in 1..6, (j - 1) + k - 1 <= Len(t) PROVE t[(j - 1) + k - 1] = pasteStart[k]
        <5>1. j + k - 1 <= Len(b) /\ (j - 1) + k - 1 \in 1..(Len(b) - 1) /\ ((j - 1) + k - 1) + 1 = j + k - 1
          BY <2>1, <2>2, <2>3, <4>2
        <5>2. b[j + k - 1] = pasteStart[k]
          BY <5>1 DEF Begins
        <5> QED BY <2>1, <5>1, <5>2
      <4> QED BY <4>1, <4>2 DEF Begins
    <3>5. Enough(Len(t), j - 1, d)
      BY <2>1, <2>2, <2>3 DEF Enough
    <3>6. ~Swallows(t, a)
      BY <2>5 DEF Swallows
    <3>7. a.n < j - 1 \/ a = decodePaste(t, 6)
      BY <2>4, <3>1, <3>4, <3>5, <3>6
    <3>8. a # decodePaste(t, 6)
      <4>1. a # Incomplete /\ \A x, n : a # Give(PasteOf(x), n)
        <5> SUFFICES ASSUME NEW x, NEW n, a = Give(PasteOf(x), n) PROVE FALSE
          BY <3>1
        <5>1. a.ev.kind = "paste"
          <6>1. Give(PasteOf(x), n).ev.kind = "paste"
            BY DEF Give, PasteOf, Event
          <6> QED BY <6>1, Zenon
        <5> QED BY <2>5, <5>1
      <4> QED BY <2>1, <4>1, PasteEnds, 6 \in Nat
    <3> QED BY <3>3, <3>7, <3>8
  <2>6. CASE ~(a.ok /\ a.ev.kind \in {"key", "alt"})
    <3>1. r = EscAlone
      BY <2>1, <2>6 DEF decodeAlt
    <3>2. r.n = 1
      BY <3>1, Answers
    <3> QED BY <2>3, <3>2
  <2> QED BY <2>5, <2>6
<1>3. B = Seq(Byte)
  <2>1. \A b \in Seq(Byte) : (Meta(b) => Tail(b) \in B) => b \in B
    <3> HIDE DEF Fine
    <3> QED BY <1>1, <1>2
  <2>2. B \subseteq Seq(Byte)
    OBVIOUS
  <2> HIDE DEF B
  <2> QED BY <2>1, <2>2, BufferInduction
<1> QED BY <1>3

-----------------------------------------------------------------------------
(* Brackets in the stream: where they are, and which Enters they guard.    *)

\* A marker in the first part of a stream, in the second, and behind n bytes.
LEMMA AtBehind ==
  ASSUME NEW x \in Seq(Byte), NEW y \in Seq(Byte), NEW mk, NEW j \in Int, j + 5 <= Len(x)
  PROVE  At(x \o y, j, mk) <=> At(x, j, mk)
<1>1. /\ Len(x \o y) = Len(x) + Len(y) /\ Len(x) \in Nat /\ Len(y) \in Nat
      /\ \A i \in 1..Len(x) : (x \o y)[i] = x[i]
  BY Behind
<1> DEFINE s == x \o y
<1> HIDE DEF s
<1>2. j \in 1..(Len(s) - 5) <=> j >= 1
  BY <1>1 DEF s
<1>3. j \in 1..(Len(x) - 5) <=> j >= 1
  BY <1>1
<1>4. ASSUME j >= 1, NEW k \in 1..6 PROVE s[j + k - 1] = x[j + k - 1]
  <2>1. j + k - 1 \in 1..Len(x)
    BY <1>1, <1>4
  <2> QED BY <1>1, <2>1 DEF s
<1>5. At(s, j, mk) <=> At(x, j, mk)
  BY <1>2, <1>3, <1>4 DEF At
<1> QED BY <1>5 DEF s

\* A marker in what is behind n bytes is one n bytes on.
LEMMA AtRest ==
  ASSUME NEW s \in Seq(Byte), NEW n \in 0..Len(s), NEW mk, NEW j \in Int, j >= 1
  PROVE  At(Rest(s, n), j, mk) <=> At(s, j + n, mk)
<1> DEFINE t == Rest(s, n)
<1>1. t \in Seq(Byte) /\ Len(t) = Len(s) - n /\ Len(s) \in Nat /\ \A i \in 1..(Len(s) - n) : t[i] = s[i + n]
  BY RestOf
<1> HIDE DEF t
<1>2. j \in 1..(Len(t) - 5) <=> j + n \in 1..(Len(s) - 5)
  BY <1>1
<1>3. ASSUME j \in 1..(Len(t) - 5), NEW k \in 1..6 PROVE t[j + k - 1] = s[j + n + k - 1]
  <2>1. j + k - 1 \in 1..(Len(s) - n) /\ (j + k - 1) + n = j + n + k - 1
    BY <1>1, <1>3
  <2> QED BY <1>1, <2>1
<1>4. At(t, j, mk) <=> At(s, j + n, mk)
  BY <1>2, <1>3 DEF At
<1> QED BY <1>4 DEF t

\* A marker in the second part is one as many bytes on as the first has.
LEMMA AtLater ==
  ASSUME NEW x \in Seq(Byte), NEW y \in Seq(Byte), NEW mk, NEW j \in Int, j >= 1
  PROVE  At(x \o y, Len(x) + j, mk) <=> At(y, j, mk)
<1> DEFINE s == x \o y
           n == Len(x)
<1>1. /\ s \in Seq(Byte) /\ Len(s) = n + Len(y) /\ n \in Nat /\ Len(y) \in Nat
      /\ \A i \in 1..Len(y) : s[n + i] = y[i]
  BY Behind
<1> HIDE DEF s, n
<1>2. n + j \in 1..(Len(s) - 5) <=> j \in 1..(Len(y) - 5)
  BY <1>1
<1>3. ASSUME j \in 1..(Len(y) - 5), NEW k \in 1..6 PROVE s[n + j + k - 1] = y[j + k - 1]
  <2>1. j + k - 1 \in 1..Len(y) /\ n + (j + k - 1) = n + j + k - 1
    BY <1>1, <1>3
  <2> QED BY <1>1, <2>1
<1>4. At(s, n + j, mk) <=> At(y, j, mk)
  BY <1>2, <1>3 DEF At
<1> QED BY <1>4 DEF s, n

\* A marker is at j when the six bytes from j on are one.
LEMMA AtIs ==
  ASSUME NEW s \in Seq(Byte), NEW mk \in {pasteStart, pasteEnd}, NEW j \in 1..(Len(s) - 5)
  PROVE  At(s, j, mk) <=> SubSeq(s, j, j + 5) = mk
<1> DEFINE x == SubSeq(s, j, j + 5)
<1>1. Len(s) \in Nat /\ mk \in Seq(Byte) /\ Len(mk) = 6
  BY Markers
<1>2. x \in Seq(Byte) /\ Len(x) = 6 /\ \A k \in 1..6 : x[k] = s[j + k - 1]
  BY <1>1
<1> HIDE DEF x
<1>3. x = mk <=> \A k \in 1..6 : x[k] = mk[k]
  <2>1. ASSUME \A k \in 1..6 : x[k] = mk[k] PROVE x = mk
    <3>1. \A k \in 1..Len(x) : x[k] = mk[k]
      BY <1>2, <2>1
    <3> QED BY <1>1, <1>2, <3>1, SeqEqual
  <2> QED BY <2>1
<1>4. At(s, j, mk) <=> x = mk
  BY <1>2, <1>3 DEF At
<1> QED BY <1>4 DEF x

\* The bytes of a marker in s.
LEMMA AtBytes ==
  ASSUME NEW s \in Seq(Byte), NEW j
  PROVE  /\ At(s, j, pasteStart) => /\ j \in 1..(Len(s) - 5) /\ s[j] = "esc" /\ s[j + 4] = "0"
                                    /\ \A p \in (j + 1)..(j + 5) : s[p] # "esc"
         /\ At(s, j, pasteEnd) => /\ j \in 1..(Len(s) - 5) /\ s[j] = "esc" /\ s[j + 4] = "1"
                                  /\ \A p \in (j + 1)..(j + 5) : s[p] # "esc"
<1>1. ASSUME NEW mk \in {pasteStart, pasteEnd}, At(s, j, mk)
      PROVE  /\ j \in 1..(Len(s) - 5) /\ s[j] = "esc" /\ s[j + 4] = mk[5]
             /\ \A p \in (j + 1)..(j + 5) : s[p] # "esc"
  <2>1. j \in 1..(Len(s) - 5) /\ \A k \in 1..6 : s[j + k - 1] = mk[k]
    BY <1>1 DEF At
  <2>2. j \in Int /\ 1 \in 1..6 /\ 5 \in 1..6 /\ j + 1 - 1 = j /\ j + 5 - 1 = j + 4
    BY <2>1
  <2>3. mk[1] = "esc" /\ mk[2] # "esc" /\ mk[3] # "esc" /\ mk[4] # "esc" /\ mk[5] # "esc" /\ mk[6] # "esc"
    BY StartBytes, EndBytes
  <2>4. s[j] = "esc" /\ s[j + 4] = mk[5]
    BY <2>1, <2>2, <2>3
  <2>5. ASSUME NEW p \in (j + 1)..(j + 5) PROVE s[p] # "esc"
    <3> DEFINE k == p - j + 1
    <3>1. k \in 2..6 /\ j + k - 1 = p
      BY <2>2
    <3> HIDE DEF k
    <3>2. mk[k] # "esc"
      <4>1. k = 2 \/ k = 3 \/ k = 4 \/ k = 5 \/ k = 6
        BY <3>1
      <4> QED BY <2>3, <4>1
    <3>3. k \in 1..6
      BY <3>1
    <3> QED BY <2>1, <3>1, <3>2, <3>3
  <2> QED BY <2>1, <2>4, <2>5
<1> QED BY <1>1, StartBytes, EndBytes

\* Two markers do not overlap.
LEMMA NoOverlap ==
  ASSUME NEW s \in Seq(Byte), NEW j \in Nat, NEW p \in Nat, At(s, j, pasteStart), At(s, p, pasteEnd), p < j + 6
  PROVE  p + 5 < j
<1>1. p # j
  BY AtBytes
<1>2. p \notin (j + 1)..(j + 5) /\ j \notin (p + 1)..(p + 5)
  BY AtBytes
<1> QED BY <1>1, <1>2

\* Of a bracket at the j-th byte of the stream, enough is in the m bytes that
\* are pending for the drain that is under way, or none of it is.
Kept(a, m, j) == \/ a \in {"live", "wait"} \/ j > m \/ m >= j + 5
                 \/ a = "idled" /\ m >= j + 2

\* The i-th byte of the stream is behind an opening bracket that is kept, with
\* no closing one between them.
Covered(s, m, a, i) ==
  \E j \in 1..(i - 6) : /\ At(s, j, pasteStart) /\ Kept(a, m, j)
                        /\ \A p \in (j + 6)..(i - 6) : ~At(s, p, pasteEnd)

\* Each Enter of the stream is.
Guarded(s, m, a) == \A i \in 1..Len(s) : s[i] = "nl" => Covered(s, m, a, i)

\* What is written next is guarded by itself.
LEMMA GuardedMore ==
  ASSUME NEW s \in Seq(Byte), NEW m \in 0..Len(s), NEW a, Guarded(s, m, a),
         NEW w \in Seq(Byte), \A i \in 1..Len(w) : w[i] = "nl" => Pasted(w, i)
  PROVE  Guarded(s \o w, m, a)
<1> DEFINE v == s \o w
           n == Len(s)
<1>1. /\ v \in Seq(Byte) /\ Len(v) = n + Len(w) /\ n \in Nat /\ Len(w) \in Nat
      /\ \A i \in 1..n : v[i] = s[i]
      /\ \A i \in (n + 1)..(n + Len(w)) : v[i] = w[i - n]
  BY Behind
<1> SUFFICES ASSUME NEW i \in 1..Len(v), v[i] = "nl" PROVE Covered(v, m, a, i)
  BY DEF Guarded
<1>2. CASE i <= n
  <2>1. i \in 1..n /\ s[i] = "nl"
    BY <1>1, <1>2
  <2>2. PICK j \in 1..(i - 6) : /\ At(s, j, pasteStart) /\ Kept(a, m, j)
                                /\ \A p \in (j + 6)..(i - 6) : ~At(s, p, pasteEnd)
    BY <2>1 DEF Guarded, Covered
  <2>3. At(v, j, pasteStart)
    <3>1. j \in Int /\ j + 5 <= Len(s)
      BY <1>1, <2>1
    <3> QED BY <2>2, <3>1, AtBehind
  <2>4. ASSUME NEW p \in (j + 6)..(i - 6) PROVE ~At(v, p, pasteEnd)
    <3>1. p \in Int /\ p + 5 <= Len(s)
      BY <1>1, <2>1
    <3> QED BY <2>2, <3>1, AtBehind
  <2> QED BY <2>2, <2>3, <2>4 DEF Covered
<1>3. CASE i > n
  <2> DEFINE e == i - n
  <2>1. e \in 1..Len(w) /\ w[e] = "nl" /\ n + e = i
    BY <1>1, <1>3
  <2>2. PICK g \in 1..(e - 6) :
               /\ SubSeq(w, g, g + 5) = pasteStart
               /\ \A p \in (g + 6)..(e - 6) : SubSeq(w, p, p + 5) # pasteEnd
    <3>1. Pasted(w, e)
      BY <2>1
    <3>2. \E g \in 1..(e - 6) : /\ SubSeq(w, g, g + 6 - 1) = pasteStart
                                /\ \A p \in (g + 6)..(e - 6) : SubSeq(w, p, p + 6 - 1) # pasteEnd
      BY <3>1, Markers DEF Pasted
    <3>3. PICK g \in 1..(e - 6) :
                 /\ SubSeq(w, g, g + 6 - 1) = pasteStart
                 /\ \A p \in (g + 6)..(e - 6) : SubSeq(w, p, p + 6 - 1) # pasteEnd
      BY <3>2
    <3>4. g + 6 - 1 = g + 5
      OBVIOUS
    <3>5. ASSUME NEW p \in (g + 6)..(e - 6) PROVE SubSeq(w, p, p + 5) # pasteEnd
      <4>1. p + 6 - 1 = p + 5
        OBVIOUS
      <4> HIDE DEF e
      <4> QED BY <3>3, <4>1
    <3> HIDE DEF e
    <3> QED BY <3>3, <3>4, <3>5
  <2> HIDE DEF e
  <2>3. At(v, n + g, pasteStart)
    <3>1. g \in 1..(Len(w) - 5) /\ g \in Int /\ g >= 1
      BY <1>1, <2>1
    <3>2. At(w, g, pasteStart)
      BY <2>2, <3>1, AtIs
    <3> QED BY <3>1, <3>2, AtLater
  <2>4. ASSUME NEW p \in (n + g + 6)..(i - 6) PROVE ~At(v, p, pasteEnd)
    <3> DEFINE q == p - n
    <3>1. q \in (g + 6)..(e - 6) /\ q \in 1..(Len(w) - 5) /\ q \in Int /\ q >= 1 /\ n + q = p
      BY <1>1, <2>1
    <3> HIDE DEF q
    <3>2. ~At(w, q, pasteEnd)
      BY <2>2, <3>1, AtIs
    <3>3. At(v, n + q, pasteEnd) <=> At(w, q, pasteEnd)
      BY <3>1, AtLater
    <3> QED BY <3>1, <3>2, <3>3
  <2>5. n + g \in 1..(i - 6) /\ n + g > m
    BY <1>1, <2>1
  <2>6. Kept(a, m, n + g)
    BY <2>5 DEF Kept
  <2> HIDE DEF v, n
  <2> QED BY <2>3, <2>4, <2>5, <2>6 DEF Covered
<1> QED BY <1>1, <1>2, <1>3

\* What is left of a stream that loses its end is guarded as it was.
LEMMA GuardedLess ==
  ASSUME NEW x \in Seq(Byte), NEW y \in Seq(Byte), NEW m, NEW a, Guarded(x \o y, m, a)
  PROVE  Guarded(x, m, a)
<1> DEFINE v == x \o y
<1>1. /\ v \in Seq(Byte) /\ Len(v) = Len(x) + Len(y) /\ Len(x) \in Nat /\ Len(y) \in Nat
      /\ \A i \in 1..Len(x) : v[i] = x[i]
  BY Behind
<1> SUFFICES ASSUME NEW i \in 1..Len(x), x[i] = "nl" PROVE Covered(x, m, a, i)
  BY DEF Guarded
<1>2. PICK j \in 1..(i - 6) : /\ At(v, j, pasteStart) /\ Kept(a, m, j)
                              /\ \A p \in (j + 6)..(i - 6) : ~At(v, p, pasteEnd)
  <2>1. i \in 1..Len(v) /\ v[i] = "nl"
    BY <1>1
  <2> QED BY <2>1 DEF Guarded, Covered
<1>3. At(x, j, pasteStart)
  <2>1. j \in Int /\ j + 5 <= Len(x)
    BY <1>1
  <2> QED BY <1>2, <2>1, AtBehind
<1>4. ASSUME NEW p \in (j + 6)..(i - 6) PROVE ~At(x, p, pasteEnd)
  <2>1. p \in Int /\ p + 5 <= Len(x)
    BY <1>1
  <2> QED BY <1>2, <2>1, AtBehind
<1> QED BY <1>2, <1>3, <1>4 DEF Covered

\* A drain that swallows no bracket presses no Enter of a guarded stream, and
\* leaves it guarded.
LEMMA GuardedRest ==
  ASSUME NEW b \in Seq(Byte), NEW t \in Seq(Byte), NEW a, NEW d \in Deadlines,
         (a \in {"live", "wait"} => d = "live") /\ (a = "idled" => d = "idled"),
         decode(b, d) # Incomplete, ~Swallows(b, decode(b, d)), Guarded(b \o t, Len(b), a)
  PROVE  /\ decode(b, d).ev.key # "nl"
         /\ Guarded(Rest(b, decode(b, d).n) \o t, Len(b) - decode(b, d).n, a)
<1> DEFINE r == decode(b, d)
           s == b \o t
           n == r.n
           m == Len(b)
<1>1. /\ s \in Seq(Byte) /\ Len(s) = m + Len(t) /\ m \in Nat /\ Len(t) \in Nat
      /\ \A i \in 1..m : s[i] = b[i]
  BY Behind
<1>2. n \in 1..m /\ (r.ev.key = "nl" => b[n] = "nl")
  BY Consumes
<1>3. r # Incomplete /\ ~Swallows(b, r)
  OBVIOUS
<1>4. \A j \in 1..m : Begins(b, j) /\ Enough(m, j, d) => n < j \/ (At(b, 1, pasteStart) /\ r = decodePaste(b, 6))
  BY <1>3, BracketHolds
<1>5. Rest(b, n) \o t = Rest(s, n)
  <2>1. n \in 0..m
    BY <1>2
  <2> HIDE DEF n
  <2> QED BY <2>1, RestOf
<1>6. r = decodePaste(b, 6) => r.ev.key = "" /\ \E e \in 6..(m - 6) : At(b, e + 1, pasteEnd) /\ n = e + 6
  <2> SUFFICES ASSUME r = decodePaste(b, 6)
               PROVE  r.ev.key = "" /\ \E e \in 6..(m - 6) : At(b, e + 1, pasteEnd) /\ n = e + 6
    OBVIOUS
  <2>1. PICK e \in 6..(m - 6) : /\ SubSeq(b, e + 1, e + 6) = pasteEnd
                                /\ r = Give(PasteOf(SubSeq(b, 6 + 1, e)), e + 6)
    BY <1>3, PasteEnds, 6 \in Nat
  <2>2. Takes(r, e + 6, "")
    BY <2>1, Taken
  <2>3. At(b, e + 1, pasteEnd)
    <3>1. e + 1 \in 1..(Len(b) - 5) /\ (e + 1) + 5 = e + 6
      BY <1>1
    <3> QED BY <2>1, <3>1, AtIs
  <2> QED BY <2>2, <2>3 DEF Takes
<1>7. ASSUME NEW j \in 1..m, At(s, j, pasteStart), Kept(a, m, j), n >= j
      PROVE  At(b, 1, pasteStart) /\ r = decodePaste(b, 6)
  <2>1. Begins(b, j)
    <3>1. j \in 1..m /\ \A k \in 1..6 : s[j + k - 1] = pasteStart[k]
      BY <1>7 DEF At
    <3>2. ASSUME NEW k \in 1..6, j + k - 1 <= m PROVE b[j + k - 1] = s[j + k - 1]
      <4>1. j + k - 1 \in 1..m
        BY <1>1, <3>2
      <4> QED BY <1>1, <4>1
    <3> QED BY <3>1, <3>2 DEF Begins
  <2>2. Enough(m, j, d)
    BY <1>1, <1>7 DEF Enough, Kept
  <2> QED BY <1>2, <1>4, <1>7, <2>1, <2>2
<1> HIDE DEF r, s, n, m
<1>8. r.ev.key # "nl"
  <2> SUFFICES ASSUME r.ev.key = "nl" PROVE FALSE
    OBVIOUS
  <2>1. n \in 1..Len(s) /\ s[n] = "nl"
    BY <1>1, <1>2
  <2>2. PICK j \in 1..(n - 6) : At(s, j, pasteStart) /\ Kept(a, m, j)
    BY <2>1 DEF Guarded, Covered, s, m
  <2>3. j \in 1..m /\ n >= j
    BY <1>1, <1>2
  <2> QED BY <1>6, <1>7, <2>2, <2>3
<1>9. Guarded(Rest(s, n), m - n, a)
  <2> DEFINE u == Rest(s, n)
  <2>1. /\ u \in Seq(Byte) /\ Len(u) = Len(s) - n /\ n \in 0..Len(s)
        /\ \A i \in 1..(Len(s) - n) : u[i] = s[i + n]
    <3>1. n \in 0..Len(s)
      BY <1>1, <1>2
    <3> QED BY <1>1, <3>1, RestOf
  <2> SUFFICES ASSUME NEW q \in 1..Len(u), u[q] = "nl" PROVE Covered(u, m - n, a, q)
    BY DEF Guarded
  <2> HIDE DEF u
  <2> DEFINE i == q + n
  <2>2. i \in 1..Len(s) /\ s[i] = "nl" /\ i > n
    BY <1>1, <1>2, <2>1
  <2>3. PICK j \in 1..(i - 6) : /\ At(s, j, pasteStart) /\ Kept(a, m, j)
                                /\ \A p \in (j + 6)..(i - 6) : ~At(s, p, pasteEnd)
    BY <2>2 DEF Guarded, Covered, s, m
  <2>4. j > n
    <3> SUFFICES ASSUME n >= j PROVE FALSE
      BY <1>2, <2>2
    <3>1. j \in 1..m
      BY <1>1, <1>2
    <3>2. PICK e \in 6..(m - 6) : At(b, e + 1, pasteEnd) /\ n = e + 6
      BY <1>6, <1>7, <2>3, <3>1
    <3>3. At(s, e + 1, pasteEnd)
      <4>1. e + 1 \in Int /\ (e + 1) + 5 <= Len(b)
        BY <1>1 DEF m
      <4> QED BY <3>2, <4>1, AtBehind DEF s
    <3>4. e + 1 <= i - 6
      BY <1>2, <2>2, <3>2
    <3>5. e + 1 < j + 6
      <4>1. ~(e + 1 \in (j + 6)..(i - 6))
        BY <2>3, <3>3
      <4> QED BY <2>2, <3>4, <4>1
    <3>6. (e + 1) + 5 < j
      <4>1. e + 1 \in Nat /\ j \in Nat
        BY <1>1
      <4> QED BY <1>1, <2>3, <3>3, <3>5, <4>1, NoOverlap
    <3> QED BY <1>1, <3>2, <3>6
  <2> DEFINE g == j - n
  <2>5. g \in 1..(q - 6) /\ g \in Int /\ g >= 1 /\ g + n = j
    BY <1>2, <2>1, <2>4
  <2>6. Kept(a, m - n, g)
    BY <1>1, <1>2, <2>3, <2>5 DEF Kept
  <2> HIDE DEF g
  <2>7. At(u, g, pasteStart)
    BY <1>1, <2>1, <2>3, <2>5, AtRest DEF u
  <2>8. ASSUME NEW p \in (g + 6)..(q - 6) PROVE ~At(u, p, pasteEnd)
    <3>1. p \in Int /\ p >= 1 /\ p + n \in (j + 6)..(i - 6)
      BY <1>2, <2>1, <2>5
    <3>2. At(u, p, pasteEnd) <=> At(s, p + n, pasteEnd)
      BY <1>1, <2>1, <3>1, AtRest DEF u
    <3> QED BY <2>3, <3>1, <3>2
  <2> QED BY <2>5, <2>6, <2>7, <2>8 DEF Covered
<1> QED BY <1>5, <1>8, <1>9 DEF r, s, n, m

-----------------------------------------------------------------------------
(* An Enter of a paste is never pressed.                                   *)

\* No Enter is pressed in these events.
NoEnter(e) == \A i \in 1..Len(e) : e[i].key # "nl"

\* The reader ends when nothing is left to read; and until a bracket is cut or
\* swallowed no Enter was pressed, and those to come are guarded.
PasteInv ==
  /\ InputTypes
  /\ open # "open" => tty = <<>>
  /\ decErr # None => open # "open" /\ held = <<>>
  /\ screen = "on" /\ ~cut /\ ~swallowed => NoEnter(got \o events) /\ Guarded(Stream, Len(pend), at)

\* A bracket that is guarded under one deadline is under another that keeps it.
LEMMA GuardedUnder ==
  ASSUME NEW s, NEW m, NEW n, NEW a, NEW k, Guarded(s, m, a),
         \A j \in 1..Len(s) : At(s, j, pasteStart) /\ Kept(a, m, j) => Kept(k, n, j)
  PROVE  Guarded(s, n, k)
<1> SUFFICES ASSUME NEW i \in 1..Len(s), s[i] = "nl" PROVE Covered(s, n, k, i)
  BY DEF Guarded
<1>1. PICK j \in 1..(i - 6) : /\ At(s, j, pasteStart) /\ Kept(a, m, j)
                              /\ \A p \in (j + 6)..(i - 6) : ~At(s, p, pasteEnd)
  BY DEF Guarded, Covered
<1>2. j \in 1..Len(s)
  <2>1. j \in 1..(Len(s) - 5)
    BY <1>1 DEF At
  <2> QED BY <1>1, <2>1 DEF At
<1>3. Kept(k, n, j)
  BY <1>1, <1>2
<1> QED BY <1>1, <1>3 DEF Covered

\* While more may come every bracket is kept.
LEMMA GuardedLive ==
  ASSUME NEW s, NEW m, NEW n, NEW a, NEW k \in {"live", "wait"}, Guarded(s, m, a)
  PROVE  Guarded(s, n, k)
<1>1. \A j : Kept(k, n, j)
  BY DEF Kept
<1> QED BY <1>1, GuardedUnder

\* The first n bytes of a buffer.
LEMMA FirstBytes ==
  ASSUME NEW s \in Seq(Byte), NEW n \in 0..Len(s)
  PROVE  /\ SubSeq(s, 1, n) \in Seq(Byte) /\ Len(SubSeq(s, 1, n)) = n
         /\ \A i \in 1..n : SubSeq(s, 1, n)[i] = s[i]
  OBVIOUS

\* A bracket that is partly pending is halved.
LEMMA PartlyPending ==
  ASSUME InputTypes, NEW j, At(Stream, j, pasteStart), j <= Len(pend), Len(pend) < j + 5
  PROVE  Len(pend) - j + 1 \in 1..5 /\ Halved(Len(pend) - j + 1)
<1> DEFINE m == Len(pend)
           k == m - j + 1
           c == ToCome
<1>1. /\ pend \in Seq(Byte) /\ c \in Seq(Byte) /\ Stream = pend \o c /\ Stream \in Seq(Byte)
  BY StreamTypes DEF InputTypes, Stream
<1>2. /\ Len(Stream) = m + Len(c) /\ m \in Nat /\ Len(c) \in Nat
      /\ \A i \in 1..m : Stream[i] = pend[i]
      /\ \A i \in 1..Len(c) : Stream[m + i] = c[i]
  BY <1>1, Behind
<1>3. j \in 1..(Len(Stream) - 5) /\ \A i \in 1..6 : Stream[j + i - 1] = pasteStart[i]
  BY DEF At
<1> HIDE DEF c
<1>4. k \in 1..5 /\ k <= m /\ m - k = j - 1 /\ m - k \in 0..m /\ 6 - k <= Len(c) /\ j \in Int
  <2>1. m \in Nat /\ Len(c) \in Nat /\ Len(Stream) = m + Len(c) /\ j \in 1..(Len(Stream) - 5)
    BY <1>2, <1>3
  <2>2. j <= m /\ m < j + 5 /\ j \in Int /\ j >= 1 /\ j + 5 <= m + Len(c)
    BY <2>1
  <2>3. k \in Int /\ k >= 1 /\ k <= 5 /\ k <= m
    BY <2>1, <2>2
  <2>4. m - k = j - 1 /\ m - k \in 0..m /\ 6 - k <= Len(c)
    BY <2>1, <2>2
  <2> QED BY <2>2, <2>3, <2>4
<1>5. Rest(pend, m - k) = SubSeq(pasteStart, 1, k)
  <2> DEFINE x == Rest(pend, m - k)
             y == SubSeq(pasteStart, 1, k)
  <2>1. /\ x \in Seq(Byte) /\ Len(x) = m - (m - k) /\ \A i \in 1..(m - (m - k)) : x[i] = pend[i + (m - k)]
    <3> HIDE DEF k
    <3> QED BY <1>1, <1>4, RestOf
  <2>2. y \in Seq(Byte) /\ Len(y) = k /\ \A i \in 1..k : y[i] = pasteStart[i]
    <3>1. k \in 0..Len(pasteStart)
      BY <1>4, Markers
    <3> HIDE DEF k
    <3> QED BY <3>1, Markers, FirstBytes
  <2> HIDE DEF x, y
  <2>3. ASSUME NEW i \in 1..k PROVE x[i] = y[i]
    <3>1. i \in 1..(m - (m - k)) /\ i + (m - k) = j + i - 1 /\ j + i - 1 \in 1..m /\ i \in 1..6
      BY <1>2, <1>4
    <3>2. x[i] = pend[j + i - 1]
      BY <2>1, <3>1
    <3>3. pend[j + i - 1] = pasteStart[i]
      BY <1>2, <1>3, <3>1
    <3> QED BY <2>2, <3>2, <3>3
  <2>4. Len(x) = k
    BY <1>2, <1>4, <2>1
  <2>5. x = y
    <3> HIDE DEF k
    <3> QED BY <2>1, <2>2, <2>3, <2>4, SeqEqual
  <2> QED BY <2>5 DEF x, y
<1>6. IsPrefix(Rest(pasteStart, k), c)
  <2> DEFINE x == Rest(pasteStart, k)
             y == SubSeq(c, 1, 6 - k)
             z == SubSeq(x, 1, 6 - k)
  <2>1. x \in Seq(Byte) /\ Len(x) = 6 - k /\ \A i \in 1..(6 - k) : x[i] = pasteStart[i + k]
    <3>1. k \in 0..Len(pasteStart)
      BY <1>4, Markers
    <3>2. Len(pasteStart) = 6 /\ pasteStart \in Seq(Byte)
      BY Markers
    <3> HIDE DEF k
    <3>3. x \in Seq(Byte) /\ Len(x) = Len(pasteStart) - k
          /\ \A i \in 1..(Len(pasteStart) - k) : x[i] = pasteStart[i + k]
      BY <3>1, <3>2, RestOf
    <3> HIDE DEF x
    <3> QED BY <3>2, <3>3
  <2> HIDE DEF x
  <2>2. y \in Seq(Byte) /\ Len(y) = 6 - k /\ \A i \in 1..(6 - k) : y[i] = c[i]
    <3>1. 6 - k \in 0..Len(c)
      BY <1>2, <1>4
    <3> HIDE DEF k
    <3> QED BY <1>1, <3>1, FirstBytes
  <2>3. z \in Seq(Byte) /\ Len(z) = 6 - k /\ \A i \in 1..(6 - k) : z[i] = x[i]
    <3>1. 6 - k \in 0..Len(x)
      BY <1>4, <2>1
    <3> HIDE DEF k
    <3> QED BY <2>1, <3>1, FirstBytes
  <2> HIDE DEF y, z
  <2>4. ASSUME NEW i \in 1..(6 - k) PROVE z[i] = y[i]
    <3>1. i + k \in 1..6 /\ j + (i + k) - 1 = m + i /\ i \in 1..Len(c)
      BY <1>2, <1>4
    <3>2. Stream[j + (i + k) - 1] = pasteStart[i + k]
      BY <1>3, <3>1
    <3>3. Stream[m + i] = c[i]
      BY <1>2, <3>1
    <3> HIDE DEF k
    <3> QED BY <2>1, <2>2, <2>3, <3>1, <3>2, <3>3
  <2>5. z = y
    <3> HIDE DEF k
    <3> QED BY <2>2, <2>3, <2>4, SeqEqual
  <2>6. Len(x) <= Len(c) /\ SubSeq(x, 1, Len(x)) = SubSeq(c, 1, Len(x))
    <3> HIDE DEF k
    <3> QED BY <1>4, <2>1, <2>5 DEF y, z
  <2> QED BY <2>6 DEF IsPrefix, x
<1> HIDE DEF k, m
<1>7. Halved(k)
  BY <1>4, <1>5, <1>6 DEF Halved, c, m
<1> QED BY <1>4, <1>7 DEF k, m

\* No Enter is among the events when none was and the new one is none.
LEMMA NoEnterMore ==
  ASSUME NEW e \in Seq(InputEvents), NEW r, NoEnter(e), r.ev.key # "nl", r.ev \in InputEvents
  PROVE  NoEnter(e \o Emitted(r))
<1>1. CASE r.ok
  <2> DEFINE v == r.ev
  <2>1. Emitted(r) = <<v>> /\ v \in InputEvents /\ v.key # "nl"
    BY <1>1 DEF Emitted
  <2> HIDE DEF v
  <2>2. NoEnter(e \o <<v>>)
    <3> SUFFICES ASSUME NEW i \in 1..Len(e \o <<v>>) PROVE (e \o <<v>>)[i].key # "nl"
      BY DEF NoEnter
    <3>1. Len(e) \in Nat /\ i \in 1..(Len(e) + 1)
      BY <2>1
    <3>2. CASE i <= Len(e)
      <4>1. (e \o <<v>>)[i] = e[i] /\ i \in 1..Len(e)
        BY <2>1, <3>1, <3>2
      <4> QED BY <4>1 DEF NoEnter
    <3>3. CASE i = Len(e) + 1
      <4>1. (e \o <<v>>)[i] = v
        BY <2>1, <3>1, <3>3
      <4> QED BY <2>1, <4>1
    <3> QED BY <3>1, <3>2, <3>3
  <2> QED BY <2>1, <2>2
<1>2. CASE ~r.ok
  <2>1. Emitted(r) = <<>>
    BY <1>2 DEF Emitted
  <2>2. e \o <<>> = e
    OBVIOUS
  <2> QED BY <2>1, <2>2
<1> QED BY <1>1, <1>2

\* The paste invariant holds of a terminal that has just been opened.
LEMMA InitPaste == ASSUME TerminalInit PROVE PasteInv
<1>1. InputTypes
  BY InitInputTypes
<1>2. got \o events = <<>> /\ Stream = <<>>
  <2>1. /\ got = <<>> /\ events = <<>> /\ pend = <<>> /\ chunks = <<>> /\ held = <<>>
        /\ tty = <<>> /\ <<>> \in Seq(Seq(Byte))
    BY DEF TerminalInit
  <2>2. FlattenSeq(<<>>) = <<>>
    BY <2>1, Flattened
  <2> QED BY <2>1, <2>2 DEF Stream, ToCome
<1>3. Len(<<>>) = 0 /\ 1..0 = {}
  OBVIOUS
<1>4. NoEnter(got \o events) /\ Guarded(Stream, Len(pend), at)
  BY <1>2, <1>3 DEF NoEnter, Guarded
<1> QED BY <1>1, <1>4 DEF PasteInv, TerminalInit

\* Every step keeps the paste invariant.
LEMMA NextPaste == ASSUME PasteInv, [TerminalNext]_terminalVars PROVE PasteInv'
<1> USE DEF readerVars, decoderVars, screenVars, ghosts
<1> DEFINE Clean == screen = "on" /\ ~cut /\ ~swallowed
           Safe == NoEnter(got \o events) /\ Guarded(Stream, Len(pend), at)
           Ended == /\ open # "open" => tty = <<>>
                    /\ decErr # None => open # "open" /\ held = <<>>
<1>0. InputTypes /\ InputTypes' /\ Ended /\ (Clean => Safe)
  BY NextInputTypes DEF PasteInv
<1>t. /\ pend \in Seq(Byte) /\ Stream \in Seq(Byte) /\ ToCome \in Seq(Byte)
      /\ got \in Seq(InputEvents) /\ events \in Seq(InputEvents)
  BY <1>0, StreamTypes DEF InputTypes
<1> SUFFICES Ended' /\ (Clean' => Safe')
  BY <1>0 DEF PasteInv
<1>1. ASSUME NEW w \in Writes, Write(w) PROVE Ended' /\ (Clean' => Safe')
  <2>1. /\ open = "open"
        /\ UNCHANGED <<open, decErr, held, screen, cut, swallowed, got, events, at>>
    BY <1>1 DEF Write
  <2>2. w \in Seq(Byte) /\ Stream' = Stream \o w /\ UNCHANGED pend
    BY <1>0, <1>1, WriteAdds
  <2>3. Len(pend) \in 0..Len(Stream)
    BY <1>t, Behind DEF Stream
  <2>4. \A i \in 1..Len(w) : w[i] = "nl" => Pasted(w, i)
    BY WritesAssumption
  <2>5. Guarded(Stream, Len(pend), at) => Guarded(Stream \o w, Len(pend), at)
    BY <1>t, <2>2, <2>3, <2>4, GuardedMore
  <2> QED BY <1>0, <2>1, <2>2, <2>5
<1>2. CASE HangUp
  <2>1. /\ open' # "open" /\ tty' = <<>>
        /\ UNCHANGED <<decErr, held, chunks, pend, screen, cut, swallowed, got, events, at>>
    BY <1>2 DEF HangUp
  <2> DEFINE x == FlattenSeq(chunks) \o held
  <2>2. x \in Seq(Byte) /\ pend \o x \in Seq(Byte) /\ tty \in Seq(Byte)
    BY <1>0, <1>t, StreamTypes, Concats DEF InputTypes
  <2>3. ToCome = x \o tty /\ ToCome' = x \o <<>>
    BY <2>1 DEF ToCome
  <2> HIDE DEF x
  <2>4. Stream = (pend \o x) \o tty
    BY <1>t, <2>2, <2>3, Joins DEF Stream
  <2>5. Stream' = pend \o x
    BY <2>1, <2>2, <2>3, Concats DEF Stream
  <2>6. Guarded(Stream, Len(pend), at) => Guarded(pend \o x, Len(pend), at)
    BY <2>2, <2>4, GuardedLess
  <2> QED BY <1>0, <2>1, <2>5, <2>6
<1>3. CASE Read
  <2>1. Stream' = Stream
    BY <1>0, <1>3, ReadKeeps
  <2>2. open = "open" /\ decErr = None
        /\ UNCHANGED <<open, decErr, pend, screen, cut, swallowed, got, events, at>>
    BY <1>3 DEF Read, Reading
  <2> QED BY <1>0, <2>1, <2>2
<1>4. CASE Send
  <2>1. Stream' = Stream
    BY <1>0, <1>4, SendKeeps
  <2>2. held' = <<>> /\ UNCHANGED <<tty, open, decErr, pend, screen, cut, swallowed, got, events, at>>
    BY <1>4 DEF Send
  <2> QED BY <1>0, <2>1, <2>2
<1>5. CASE ReadFails
  <2>1. /\ open # "open" /\ held = <<>>
        /\ UNCHANGED <<tty, open, held, chunks, pend, screen, cut, swallowed, got, events, at>>
    BY <1>5 DEF ReadFails, Reading
  <2> QED BY <1>0, <2>1 DEF Stream, ToCome
<1>6. CASE Emit
  <2> DEFINE r == decode(pend, Deadline)
             d == Deadline
             v == Emitted(r)
  <2>1. UNCHANGED <<tty, open, held, decErr, screen, cut, got, at>> /\ at \notin {"wait", "end"}
    BY <1>6 DEF Emit
  <2>2. /\ d \in Deadlines /\ r \in Results /\ r # Incomplete /\ r.n \in 1..Len(pend)
        /\ v \in Seq(InputEvents) /\ pend' = Rest(pend, r.n) /\ events' = events \o v
        /\ swallowed' = (swallowed \/ Swallows(pend, r)) /\ ToCome' = ToCome
    BY <1>0, <1>6, EmitTakes
  <2>3. (at \in {"live", "wait"} => d = "live") /\ (at = "idled" => d = "idled")
    BY <2>1 DEF Deadline
  <2> SUFFICES ASSUME Clean' PROVE Safe'
    BY <1>0, <2>1
  <2>4. Clean /\ ~Swallows(pend, r) /\ NoEnter(got \o events) /\ Guarded(pend \o ToCome, Len(pend), at)
    BY <1>0, <2>1, <2>2 DEF Stream
  <2>5. r.ev.key # "nl" /\ Guarded(Rest(pend, r.n) \o ToCome, Len(pend) - r.n, at)
    <3> HIDE DEF d
    <3> QED BY <1>t, <2>2, <2>3, <2>4, GuardedRest DEF d
  <2>6. Len(Rest(pend, r.n)) = Len(pend) - r.n
    <3>1. r.n \in 0..Len(pend)
      BY <2>2
    <3> HIDE DEF r
    <3> QED BY <1>t, <3>1, RestOf
  <2>7. r.ev \in InputEvents /\ got \o events \in Seq(InputEvents)
    BY <1>t, <2>2, EventJoins DEF Results
  <2> HIDE DEF r, d
  <2>8. NoEnter((got \o events) \o v)
    BY <2>4, <2>5, <2>7, NoEnterMore
  <2> HIDE DEF v
  <2>9. got' \o events' = (got \o events) \o v
    BY <1>t, <2>1, <2>2, EventJoins
  <2>10. Guarded(Stream', Len(pend'), at')
    BY <2>1, <2>2, <2>5, <2>6 DEF Stream
  <2> QED BY <2>8, <2>9, <2>10
<1>7. CASE Arm
  <2>1. at' = "wait" /\ UNCHANGED <<tty, open, held, chunks, decErr, pend, screen, cut, swallowed, got, events>>
    BY <1>7 DEF Arm
  <2>2. Guarded(Stream, Len(pend), at) => Guarded(Stream, Len(pend), "wait")
    BY GuardedLive
  <2> QED BY <1>0, <2>1, <2>2 DEF Stream, ToCome
<1>8. CASE Receive
  <2>1. Stream' = Stream
    BY <1>0, <1>8, ReceiveKeeps
  <2>2. at' = "live" /\ UNCHANGED <<tty, open, held, decErr, screen, cut, swallowed, got, events>>
    BY <1>8 DEF Receive
  <2>3. Guarded(Stream, Len(pend), at) => Guarded(Stream, Len(pend'), "live")
    BY GuardedLive
  <2> QED BY <1>0, <2>1, <2>2, <2>3
<1>9. CASE Timeout
  <2>1. /\ at = "wait" /\ at' = IF stalls + 1 >= PasteMarkerGrace THEN "final" ELSE "idled"
        /\ cut' = (cut \/ \E k \in 1..5 : Halved(k) /\ (k < 3 \/ stalls + 1 >= PasteMarkerGrace))
        /\ UNCHANGED <<tty, open, held, chunks, decErr, pend, screen, swallowed, got, events>>
    BY <1>9 DEF Timeout
  <2> SUFFICES ASSUME Clean' PROVE Safe'
    BY <1>0, <2>1
  <2>2. Clean /\ \A k \in 1..5 : Halved(k) => k >= 3 /\ ~(stalls + 1 >= PasteMarkerGrace)
    <3>1. ~(cut \/ \E k \in 1..5 : Halved(k) /\ (k < 3 \/ stalls + 1 >= PasteMarkerGrace))
      BY <2>1
    <3>2. Clean
      BY <2>1, <3>1
    <3>3. \A k \in 1..5 : Halved(k) => ~(k < 3) /\ ~(stalls + 1 >= PasteMarkerGrace)
      BY <3>1
    <3>4. \A k \in 1..5 : ~(k < 3) => k >= 3
      OBVIOUS
    <3> QED BY <3>2, <3>3, <3>4
  <2>3. ASSUME NEW j \in 1..Len(Stream), At(Stream, j, pasteStart) PROVE Kept(at', Len(pend), j)
    <3>1. j \in Int /\ Len(pend) \in Nat
      BY <1>t
    <3>2. CASE j <= Len(pend) /\ Len(pend) < j + 5
      <4> DEFINE k == Len(pend) - j + 1
      <4>1. k \in 1..5 /\ Halved(k)
        BY <1>0, <2>3, <3>2, PartlyPending
      <4>2. k >= 3 /\ at' = "idled"
        <5> HIDE DEF k
        <5> QED BY <2>1, <2>2, <4>1
      <4>3. Len(pend) >= j + 2
        BY <3>1, <4>2
      <4> QED BY <4>2, <4>3 DEF Kept
    <3>3. CASE ~(j <= Len(pend) /\ Len(pend) < j + 5)
      BY <3>1, <3>3 DEF Kept
    <3> QED BY <3>2, <3>3
  <2>4. Guarded(Stream, Len(pend), at')
    BY <1>0, <2>2, <2>3, GuardedUnder
  <2> QED BY <1>0, <2>1, <2>2, <2>4 DEF Stream, ToCome
<1>10. CASE TimedOut
  <2>1. at' = "live" /\ UNCHANGED <<tty, open, held, chunks, decErr, pend, screen, cut, swallowed, got, events>>
    BY <1>10 DEF TimedOut
  <2>2. Guarded(Stream, Len(pend), at) => Guarded(Stream, Len(pend), "live")
    BY GuardedLive
  <2> QED BY <1>0, <2>1, <2>2 DEF Stream, ToCome
<1>11. CASE LastDrain
  <2>1. /\ chunks = <<>> /\ decErr # None
        /\ UNCHANGED <<tty, open, held, chunks, decErr, pend, screen, cut, swallowed, got, events>>
    BY <1>11 DEF LastDrain
  <2>2. ToCome = <<>>
    <3>1. FlattenSeq(<<>>) = <<>>
      BY <1>0, <2>1, Flattened DEF InputTypes
    <3> QED BY <1>0, <2>1, <3>1 DEF ToCome
  <2>3. Stream = pend
    BY <1>t, <2>2, Concats DEF Stream
  <2>4. ASSUME NEW j \in 1..Len(Stream), At(Stream, j, pasteStart) PROVE Kept(at', Len(pend), j)
    <3>1. Len(pend) \in Nat /\ j \in 1..(Len(pend) - 5)
      BY <1>t, <2>3, <2>4 DEF At
    <3>2. Len(pend) >= j + 5
      BY <3>1
    <3> QED BY <3>2 DEF Kept
  <2>5. Guarded(Stream, Len(pend), at) => Guarded(Stream, Len(pend), at')
    BY <2>4, GuardedUnder
  <2> QED BY <1>0, <2>1, <2>5 DEF Stream, ToCome
<1>12. CASE DecoderEnds
  <2>1. /\ at = "last" /\ at' = "end"
        /\ UNCHANGED <<tty, open, held, chunks, decErr, pend, screen, cut, swallowed, got, events>>
    BY <1>12 DEF DecoderEnds
  <2>2. \A j \in 1..Len(Stream) : Kept(at, Len(pend), j) => Kept("end", Len(pend), j)
    BY <2>1 DEF Kept
  <2>3. Guarded(Stream, Len(pend), at) => Guarded(Stream, Len(pend), "end")
    BY <2>2, GuardedUnder
  <2> QED BY <1>0, <2>1, <2>3 DEF Stream, ToCome
<1>13. CASE Consume
  <2>1. /\ events # <<>> /\ got' = Append(got, Head(events)) /\ events' = Tail(events)
        /\ UNCHANGED <<tty, open, held, chunks, decErr, pend, screen, cut, swallowed, at>>
    BY <1>13 DEF Consume
  <2>2. got' \o events' = got \o events
    BY <1>t, <2>1, ShiftHead
  <2> QED BY <1>0, <2>1, <2>2 DEF Stream, ToCome
<1>14. CASE Restore
  <2>1. screen' # "on" /\ tty' = <<>> /\ open' # "open" /\ UNCHANGED <<decErr, held>>
    BY <1>14 DEF Restore
  <2> QED BY <1>0, <2>1
<1>15. CASE JoinDrains \/ Joined \/ JoinTimesOut
  <2>1. screen' # "on" /\ UNCHANGED <<tty, open, held, decErr>>
    BY <1>15 DEF JoinDrains, Joined, JoinTimesOut
  <2> QED BY <1>0, <2>1
<1>16. CASE UNCHANGED terminalVars
  <2>1. UNCHANGED <<tty, open, held, chunks, decErr, pend, screen, cut, swallowed, got, events, at>>
    BY <1>16 DEF terminalVars
  <2> QED BY <1>0, <2>1 DEF Stream, ToCome
<1> QED BY <1>1, <1>2, <1>3, <1>4, <1>5, <1>6, <1>7, <1>8, <1>9, <1>10, <1>11, <1>12, <1>13,
           <1>14, <1>15, <1>16 DEF TerminalNext

\* An Enter of a paste is never pressed (see PasteIsNotTyped), unless a timeout
\* cut its opening bracket or a sequence swallowed it: a theorem for all writes,
\* read sizes, capacities and graces.
THEOREM SpecPasteIsNotTyped == TerminalSpec => []PasteIsNotTyped
<1>1. PasteInv => PasteIsNotTyped
  BY DEF PasteInv, PasteIsNotTyped, NoEnter
<1>2. TerminalInit => PasteInv
  BY InitPaste
<1>3. PasteInv /\ [TerminalNext]_terminalVars => PasteInv'
  BY NextPaste
<1> QED BY <1>1, <1>2, <1>3, PTL DEF TerminalSpec


-----------------------------------------------------------------------------
(* What decode may wait for when the terminal has gone quiet.              *)

\* An event, or a skip of some bytes, is no waiting.
LEMMA NoWaiting ==
  /\ EscAlone # Incomplete
  /\ \A ev, n : Give(ev, n) # Incomplete
  /\ \A n : n # 0 => Skip(n) # Incomplete
<1>1. ASSUME NEW ev, NEW n PROVE Give(ev, n) # Incomplete
  <2>1. Give(ev, n).ok /\ Incomplete.ok = FALSE
    BY Answers
  <2> QED BY <2>1
<1>2. ASSUME NEW n, n # 0 PROVE Skip(n) # Incomplete
  <2>1. Skip(n).n = n /\ Incomplete.n = 0
    BY Answers
  <2> QED BY <1>2, <2>1
<1>3. EscAlone # Incomplete
  BY <1>1 DEF EscAlone
<1> QED BY <1>1, <1>2, <1>3

\* An open paste is an opening bracket that no closing one follows.
LEMMA OpenPasteAt ==
  ASSUME NEW b \in Seq(Byte)
  PROVE  OpenPaste(b) <=> At(b, 1, pasteStart) /\ decodePaste(b, 6) = Incomplete
<1>1. Len(b) \in Nat /\ Len(pasteStart) = 6 /\ pasteStart \in Seq(Byte)
  BY Markers
<1>2. SubSeq(pasteStart, 1, 6) = pasteStart
  BY <1>1, SeqEqual
<1>3. CASE Len(b) >= 6
  <2>1. 1 \in 1..(Len(b) - 5)
    BY <1>1, <1>3
  <2>2. At(b, 1, pasteStart) <=> SubSeq(b, 1, 6) = pasteStart
    BY <2>1, AtIs
  <2> QED BY <1>1, <1>2, <1>3, <2>2 DEF OpenPaste, IsPrefix
<1>4. CASE ~(Len(b) >= 6)
  BY <1>1, <1>4 DEF OpenPaste, IsPrefix, At
<1> QED BY <1>3, <1>4

\* A split marker is a CSI that has its ESC [ and nothing but parameters yet.
LEMMA SplitBytes ==
  ASSUME NEW b \in Seq(Byte), splitPasteMarker(b)
  PROVE  Len(b) > 1 /\ b[1] = "esc" /\ b[2] = "[" /\ \A j \in 3..Len(b) : b[j] \in Params
<1>1. Len(b) \in Nat /\ Len(b) >= 3 /\ Len(b) <= 5
  <2>1. Len(b) \in Nat /\ Len(pasteStart) = 6
    BY Markers
  <2>2. Len(b) >= 3 /\ Len(b) < Len(pasteStart)
    BY DEF splitPasteMarker
  <2> QED BY <2>1, <2>2
<1>2. ASSUME NEW m \in {pasteStart, pasteEnd}, IsPrefix(b, m) PROVE \A j \in 1..Len(b) : b[j] = m[j]
  <2>1. SubSeq(b, 1, Len(b)) = SubSeq(m, 1, Len(b))
    BY <1>2 DEF IsPrefix
  <2>3. m \in Seq(Byte) /\ Len(m) = 6
    BY Markers
  <2>2. ASSUME NEW j \in 1..Len(b) PROVE b[j] = m[j]
    <3>1. SubSeq(b, 1, Len(b))[j] = b[j]
      BY <1>1
    <3>2. SubSeq(m, 1, Len(b))[j] = m[j]
      BY <1>1, <2>3
    <3> QED BY <2>1, <3>1, <3>2
  <2> QED BY <2>2
<1>3. \A m \in {pasteStart, pasteEnd} :
        m[1] = "esc" /\ m[2] = "[" /\ m[3] \in Params /\ m[4] \in Params /\ m[5] \in Params
  BY StartBytes, EndBytes DEF Params
<1>4. PICK m \in {pasteStart, pasteEnd} : \A j \in 1..Len(b) : b[j] = m[j]
  BY <1>2 DEF splitPasteMarker
<1>5. \A j \in 3..Len(b) : j \in 1..Len(b) /\ j \in {3, 4, 5}
  BY <1>1
<1>6. 1 \in 1..Len(b) /\ 2 \in 1..Len(b)
  BY <1>1
<1> QED BY <1>1, <1>3, <1>4, <1>5, <1>6

\* A CSI waits for a split marker, while one is held, and for an open paste.
LEMMA CSIResolved ==
  ASSUME NEW b \in Seq(Byte), NEW d \in Deadlines \ {"live"}, Len(b) > 1, b[1] = "esc", b[2] = "["
  PROVE  decodeCSI(b, d) = Incomplete <=> OpenPaste(b) \/ (d = "idled" /\ splitPasteMarker(b))
<1>1. CASE /\ \A i \in 3..Len(b) : b[i] \in Params
           /\ decodeCSI(b, d) = IF d = "live" \/ (d = "idled" /\ splitPasteMarker(b))
                                THEN Incomplete ELSE EscAlone
  <2>1. EscAlone # Incomplete
    BY NoWaiting
  <2>2. ~At(b, 1, pasteStart)
    <3>1. ASSUME At(b, 1, pasteStart) PROVE FALSE
      <4>1. Len(b) >= 6 /\ b[6] = "~"
        BY <3>1, StartBytes DEF At
      <4>2. b[6] \in Params
        BY <1>1, <4>1
      <4> QED BY <4>1, <4>2 DEF Params
    <3> QED BY <3>1
  <2> QED BY <1>1, <2>1, <2>2, OpenPasteAt
<1>2. ASSUME NEW i \in 3..Len(b), b[i] \notin Params, \A j \in 3..(i - 1) : b[j] \in Params,
             decodeCSI(b, d) = csiEvent(b, d, SubSeq(b, 3, i - 1), b[i], i)
      PROVE  decodeCSI(b, d) = Incomplete <=> OpenPaste(b) \/ (d = "idled" /\ splitPasteMarker(b))
  <2> DEFINE params == SubSeq(b, 3, i - 1)
             r == decodeCSI(b, d)
  <2>1. ~splitPasteMarker(b)
    BY <1>2, SplitBytes
  <2>2. At(b, 1, pasteStart) <=> b[i] = "~" /\ params = OpeningParams
    BY <1>2, OpeningIsSix
  <2>3. CSIShape(r, b, d, params, b[i], i)
    <3>1. params \in Seq(Byte) /\ b[i] \in Byte
      OBVIOUS
    <3> HIDE DEF params
    <3> QED BY <1>2, <3>1, CSIShapes DEF params
  <2>4. b[i] = "~" /\ params = OpeningParams => i = 6
    BY <1>2, OpeningIsSix
  <2>5. Len(params) = i - 3
    OBVIOUS
  <2> HIDE DEF params, r
  <2>6. decodeX10Mouse(b, d) # Incomplete
    <3>1. Skip(6) # Incomplete /\ Give(MouseOf, 6) # Incomplete /\ EscAlone # Incomplete
      BY NoWaiting
    <3>2. Len(b) \in Nat /\ (Len(b) >= 6 \/ Len(b) < 6)
      OBVIOUS
    <3> QED BY <3>1, <3>2 DEF decodeX10Mouse
  <2>7. /\ Skip(i) # Incomplete /\ Give(MouseOf, i) # Incomplete
        /\ Give(KeyOf("up"), i) # Incomplete /\ Give(KeyOf("home"), i) # Incomplete
    <3>1. i # 0
      OBVIOUS
    <3> QED BY <3>1, NoWaiting
  <2>8. CASE b[i] = "~" /\ params = OpeningParams
    <3>1. Len(params) = 3
      BY <2>8, OpeningParamBytes
    <3>2. r = decodePaste(b, 6)
      BY <2>3, <2>4, <2>8, <3>1 DEF CSIShape
    <3> QED BY <2>1, <2>2, <2>8, <3>2, OpenPasteAt DEF r
  <2>9. CASE ~(b[i] = "~" /\ params = OpeningParams)
    <3>1. r # Incomplete
      BY <2>3, <2>6, <2>7, <2>9 DEF CSIShape
    <3> QED BY <2>1, <2>2, <2>9, <3>1, OpenPasteAt DEF r
  <2> QED BY <2>8, <2>9
<1> QED BY <1>1, <1>2, CSIEnds

\* The liveness contract of Decode (decode.go:21-35), for every buffer: once the
\* terminal has been quiet for the escape timeout, all it still waits for is an
\* open paste or a split marker, and by the last deadline an open paste alone.
\* Whatever else is in the buffer gives an event or takes bytes off it, so that
\* no later key is stranded behind it.  The repository's test tries every buffer
\* of one byte and of two.
THEOREM EverythingIsResolved ==
  \A b \in Seq(Byte), d \in Deadlines \ {"live"} :
    decode(b, d) = Incomplete <=> b = <<>> \/ OpenPaste(b) \/ (d = "idled" /\ splitPasteMarker(b))
<1> SUFFICES ASSUME NEW b \in Seq(Byte), NEW d \in Deadlines \ {"live"}
             PROVE  decode(b, d) = Incomplete <=>
                      b = <<>> \/ OpenPaste(b) \/ (d = "idled" /\ splitPasteMarker(b))
  OBVIOUS
<1> DEFINE r == decode(b, d)
           Held == OpenPaste(b) \/ (d = "idled" /\ splitPasteMarker(b))
<1>1. r = Decode(b, d, decode(Tail(b), d))
  BY DecodeEquation
<1>2. Held => Len(b) > 1 /\ b[1] = "esc" /\ b[2] = "["
  <2>1. Len(b) \in Nat
    OBVIOUS
  <2>2. At(b, 1, pasteStart) => Len(b) > 1 /\ b[1] = "esc" /\ b[2] = "["
    BY <2>1, StartBytes DEF At
  <2> QED BY <2>2, OpenPasteAt, SplitBytes
<1>3. /\ EscAlone # Incomplete /\ Skip(1) # Incomplete
      /\ \A ev, n : Give(ev, n) # Incomplete
  BY NoWaiting
<1> HIDE DEF r, Held
<1>4. CASE b = <<>>
  BY <1>1, <1>4 DEF Decode, r, Held
<1>5. CASE b = <<"esc">>
  <2>1. Len(b) = 1 /\ b # <<>>
    BY <1>5
  <2>2. r = EscAlone
    BY <1>1, <1>5 DEF Decode
  <2> QED BY <1>2, <1>3, <2>1, <2>2 DEF r, Held
<1>6. CASE Len(b) >= 1 /\ b[1] # "esc"
  <2>1. b # <<>>
    BY <1>6
  <2>2. CASE b[1] \in {"lead", "more"}
    <3>1. r = decodeRune(b, d)
      BY <1>1, <1>6, <2>2 DEF Decode
    <3>2. r # Incomplete
      BY <1>3, <3>1 DEF decodeRune
    <3> QED BY <1>2, <1>6, <2>1, <3>2 DEF r, Held
  <2>3. CASE b[1] \notin {"lead", "more"}
    <3>1. r = Give(KeyOf(b[1]), 1)
      BY <1>1, <1>6, <2>3 DEF Decode
    <3> QED BY <1>2, <1>3, <1>6, <2>1, <3>1 DEF r, Held
  <2> QED BY <2>2, <2>3
<1>7. CASE Len(b) > 1 /\ b[1] = "esc"
  <2>1. b # <<>> /\ b # <<"esc">>
    BY <1>7, NotShort
  <2>2. CASE b[2] = "["
    <3>1. r = decodeCSI(b, d)
      BY <1>1, <1>7, <2>1, <2>2 DEF Decode
    <3> QED BY <1>7, <2>1, <2>2, <3>1, CSIResolved DEF r, Held
  <2>3. CASE b[2] = "O"
    <3>1. r = decodeSS3(b, d)
      BY <1>1, <1>7, <2>1, <2>3 DEF Decode
    <3>2. r # Incomplete
      BY <1>3, <3>1 DEF decodeSS3
    <3> QED BY <1>2, <2>1, <2>3, <3>2 DEF r, Held
  <2>4. CASE b[2] # "[" /\ b[2] # "O"
    <3>1. r = decodeAlt(decode(Tail(b), d), d)
      BY <1>7, <2>4, DecodeMeta DEF Meta, r
    <3>2. r # Incomplete
      BY <1>3, <3>1 DEF decodeAlt
    <3> QED BY <1>2, <2>1, <2>4, <3>2 DEF r, Held
  <2> QED BY <2>2, <2>3, <2>4
<1>8. b = <<>> \/ b = <<"esc">> \/ (Len(b) >= 1 /\ b[1] # "esc") \/ (Len(b) > 1 /\ b[1] = "esc")
  <2>1. Len(b) = 1 /\ b[1] = "esc" => b = <<"esc">>
    OBVIOUS
  <2> QED BY <2>1, FirstByte
<1> QED BY <1>4, <1>5, <1>6, <1>7, <1>8
=============================================================================
