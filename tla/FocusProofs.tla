---------------------------- MODULE FocusProofs ----------------------------
(***************************************************************************)
(* Theorems about the input tree (Focus): flags follow what the manager    *)
(* names, nothing it remembers outlives the frame that noticed a change,   *)
(* pictures do not act, clicks are earned.  For every tree, every walk of  *)
(* it and every family of allow sets; nothing is assumed of the bound.     *)
(***************************************************************************)
EXTENDS Focus, FiniteSetTheorems, WellFoundedInduction, TLAPS

-----------------------------------------------------------------------------
(* Chains and walks.                                                       *)

\* Of things with natural measures, one has the lowest.
LEMMA Lowest == ASSUME NEW S, S # {}, NEW f \in [S -> Nat]
                PROVE  \E x \in S : \A y \in S : f[x] <= f[y]
<1>1. PICK R : R = OpToRel(<, Nat)
  OBVIOUS
<1>2. IsWellFoundedOn(R, Nat)
  BY <1>1, NatLessThanWellFounded
<1> DEFINE T == {f[x] : x \in S}
<1>3. T \subseteq Nat /\ T # {}
  OBVIOUS
<1> HIDE DEF T
<1>4. PICK n \in T : \A m \in T : <<m, n>> \notin R
  BY <1>2, <1>3, WFMin
<1>5. \A x, y \in Nat : x < y => <<x, y>> \in R
  BY <1>1 DEF OpToRel
<1>6. ASSUME NEW m \in T
      PROVE  n <= m
  <2>1. m \in Nat /\ n \in Nat /\ ~ m < n
    BY <1>3, <1>4, <1>5
  <2>2. QED
    BY <2>1
<1>7. QED
  BY <1>6 DEF T

\* And one has the highest, if the measures have a bound.
LEMMA Highest == ASSUME NEW S, S # {}, NEW f \in [S -> Nat], NEW top \in Nat,
                        \A x \in S : f[x] <= top
                 PROVE  \E x \in S : \A y \in S : f[y] <= f[x]
<1>1. PICK g : g = [x \in S |-> top - f[x]]
  OBVIOUS
<1>2. g \in [S -> Nat]
  <2>1. \A x \in S : top - f[x] \in Nat
    OBVIOUS
  <2>2. QED
    BY <1>1, <2>1
<1>3. PICK x \in S : \A y \in S : g[x] <= g[y]
  BY <1>2, Lowest
<1>4. \A y \in S : f[y] <= f[x]
  BY <1>1, <1>3
<1>5. QED
  BY <1>4

\* What is on a chain has no more above it, and as much only if it is its foot.
LEMMA Shorter == ASSUME NEW c \in Comps, NEW d \in Chain[c]
                 PROVE  /\ Cardinality(Chain[c]) \in Nat /\ Cardinality(Chain[d]) \in Nat
                        /\ Cardinality(Chain[d]) <= Cardinality(Chain[c])
                        /\ Cardinality(Chain[d]) = Cardinality(Chain[c]) => c = d
<1>1. Chain[c] \in SUBSET Comps /\ d \in Comps
  BY TreeAssumption
<1>2. IsFiniteSet(Chain[c])
  BY <1>1, TreeAssumption, FS_Subset
<1>3. Chain[d] \in SUBSET Chain[c]
  BY TreeAssumption
<1>4. /\ IsFiniteSet(Chain[d])
      /\ Cardinality(Chain[d]) <= Cardinality(Chain[c])
      /\ Cardinality(Chain[c]) = Cardinality(Chain[d]) => Chain[c] = Chain[d]
  BY <1>2, <1>3, FS_Subset
<1>5. Cardinality(Chain[c]) \in Nat /\ Cardinality(Chain[d]) \in Nat
  BY <1>2, <1>4, FS_CardinalityType
<1>6. Chain[c] = Chain[d] => c = d
  BY <1>1, TreeAssumption
<1>7. QED
  BY <1>4, <1>5, <1>6

\* Deepest is the end of a part of a chain: all of the part is above it.
LEMMA DeepestOf == ASSUME NEW x \in Comps, NEW S \in SUBSET Chain[x], S # {}
                   PROVE  Deepest(S) \in S /\ S \subseteq Chain[Deepest(S)]
<1>1. S \subseteq Comps
  BY TreeAssumption
<1>2. PICK f : f = [c \in S |-> Cardinality(Chain[c])]
  OBVIOUS
<1>3. f \in [S -> Nat] /\ Cardinality(Chain[x]) \in Nat /\ \A c \in S : f[c] <= Cardinality(Chain[x])
  BY <1>2, Shorter, TreeAssumption
<1>4. PICK c \in S : \A d \in S : f[d] <= f[c]
  BY <1>3, Highest
<1>5. ASSUME NEW d \in S
      PROVE  d \in Chain[c]
  <2>1. d \in Chain[c] \/ c \in Chain[d]
    BY TreeAssumption, <1>4
  <2>2. CASE c \in Chain[d]
    <3>1. /\ Cardinality(Chain[c]) \in Nat /\ Cardinality(Chain[d]) \in Nat
          /\ Cardinality(Chain[c]) <= Cardinality(Chain[d])
          /\ Cardinality(Chain[c]) = Cardinality(Chain[d]) => d = c
      BY <2>2, <1>1, Shorter
    <3>2. Cardinality(Chain[d]) <= Cardinality(Chain[c])
      BY <1>2, <1>4
    <3>3. d = c
      BY <3>1, <3>2
    <3>4. QED
      BY <3>3, <1>1, TreeAssumption
  <2>3. QED
    BY <2>1, <2>2
<1>6. \E e \in S : S \subseteq Chain[e]
  BY <1>5
<1>7. QED
  BY <1>6 DEF Deepest

\* Outermost is the other end: it is above all of the part.
LEMMA OutermostOf == ASSUME NEW x \in Comps, NEW S \in SUBSET Chain[x], S # {}
                     PROVE  Outermost(S) \in S /\ \A d \in S : Outermost(S) \in Chain[d]
<1>1. S \subseteq Comps
  BY TreeAssumption
<1>2. PICK f : f = [c \in S |-> Cardinality(Chain[c])]
  OBVIOUS
<1>3. f \in [S -> Nat]
  BY <1>2, Shorter, TreeAssumption
<1>4. PICK c \in S : \A d \in S : f[c] <= f[d]
  BY <1>3, Lowest
<1>5. ASSUME NEW d \in S
      PROVE  c \in Chain[d]
  <2>1. d \in Chain[c] \/ c \in Chain[d]
    BY TreeAssumption, <1>4
  <2>2. CASE d \in Chain[c]
    <3>1. /\ Cardinality(Chain[c]) \in Nat /\ Cardinality(Chain[d]) \in Nat
          /\ Cardinality(Chain[d]) <= Cardinality(Chain[c])
          /\ Cardinality(Chain[d]) = Cardinality(Chain[c]) => c = d
      BY <2>2, <1>1, Shorter
    <3>2. Cardinality(Chain[c]) <= Cardinality(Chain[d])
      BY <1>2, <1>4
    <3>3. d = c
      BY <3>1, <3>2
    <3>4. QED
      BY <3>3, <1>1, TreeAssumption
  <2>3. QED
    BY <2>1, <2>2
<1>6. \E e \in S : \A d \in S : e \in Chain[d]
  BY <1>5
<1>7. QED
  BY <1>6 DEF Outermost

\* Components have a first and a last in tree order.
LEMMA EndsOf == ASSUME NEW S \in SUBSET Comps, S # {}
                PROVE  First(S) \in S /\ Last(S) \in S
<1>1. PICK f : f = [c \in S |-> Rank[c]]
  OBVIOUS
<1>2. PICK top : top = Cardinality(Comps)
  OBVIOUS
<1>3. top \in Nat
  BY <1>2, TreeAssumption, FS_CardinalityType
<1>4. \A c \in S : Rank[c] \in 1..top
  BY <1>2, TreeAssumption
<1>5. f \in [S -> Nat] /\ \A c \in S : f[c] <= top
  BY <1>1, <1>3, <1>4
<1>6. \E c \in S : \A d \in S : f[c] <= f[d]
  BY <1>5, Lowest
<1>7. \E c \in S : \A d \in S : f[d] <= f[c]
  BY <1>3, <1>5, Highest
<1>8. QED
  BY <1>1, <1>6, <1>7 DEF First, Last

-----------------------------------------------------------------------------
(* Routing: who takes an event of a category.                              *)

\* No host above c withholds cat, when hosts answer al.
PermitsIn(al, c, cat) == \A n \in Chain[c] \ {c} : cat \subseteq (IF n \in Hosts THEN al[n] ELSE AllowAll)

\* c is in the tree, and in no picture that withholds cat.
Shown(lv, al, c, cat) == c \in lv /\ PermitsIn(al, c, cat)

\* What the model asks of the allow sets of the moment is that.
LEMMA PermitsNow == ASSUME NEW c, NEW cat
                    PROVE  Permits(c, cat) <=> PermitsIn(allow, c, cat)
BY DEF Permits, PermitsIn, frozenAllow

\* A walk up from a component stays on its chain, and is all of it if the
\* component is in the tree that is walked.
LEMMA UpIs == ASSUME NEW k, NEW c \in Comps
              PROVE  /\ c \in Up(k, c) /\ Up(k, c) \subseteq Chain[c] /\ Chain[c] \subseteq Comps
                     /\ c \in k => Up(k, c) = Chain[c]
BY TreeAssumption DEF Up

\* Who is above something that is in no picture is in none either.
LEMMA AbovePermits == ASSUME NEW al, NEW cat, NEW c \in Comps, PermitsIn(al, c, cat), NEW d \in Chain[c]
                      PROVE  PermitsIn(al, d, cat)
<1> SUFFICES ASSUME NEW n \in Chain[d] \ {d}
             PROVE  n \in Chain[c] \ {c}
  BY DEF PermitsIn
<1>1. n \in Chain[c]
  BY TreeAssumption
<1>2. n # c
  BY TreeAssumption
<1>3. QED
  BY <1>1, <1>2

\* The host an event goes to is on the chain it was aimed at; walked over a tree
\* that has its target, the host is itself in no picture that withholds it; and
\* it is the target only if no host above withholds it (frozenHostFor).
LEMMA HostIs == ASSUME NEW k, NEW cat, NEW c \in Comps
                PROVE  /\ frozenHostFor(k, c, cat) \in Chain[c]
                       /\ frozenHostFor(k, c, cat) \in Comps
                       /\ c \in k => PermitsIn(allow, frozenHostFor(k, c, cat), cat)
<1>1. PICK hosts : hosts = Withholding(k, c, cat)
  OBVIOUS
<1>2. hosts \subseteq Chain[c] \ {c}
  BY <1>1, UpIs DEF Withholding
<1>3. CASE hosts = {}
  <2>1. frozenHostFor(k, c, cat) = c
    BY <1>1, <1>3 DEF frozenHostFor
  <2>2. c \in k => PermitsIn(allow, c, cat)
    BY <1>1, <1>3, UpIs DEF Withholding, PermitsIn, frozenAllow
  <2>3. QED
    BY <2>1, <2>2, TreeAssumption
<1>4. CASE hosts # {}
  <2>1. PICK h : h = Outermost(hosts)
    OBVIOUS
  <2>2. frozenHostFor(k, c, cat) = h
    BY <1>1, <1>4, <2>1 DEF frozenHostFor
  <2>3. h \in hosts /\ \A d \in hosts : h \in Chain[d]
    BY <1>2, <1>4, <2>1, OutermostOf
  <2>4. h \in Chain[c] /\ h # c /\ h \in Comps
    BY <1>2, <2>3, TreeAssumption
  <2>5. ASSUME c \in k, NEW n \in Chain[h] \ {h}
        PROVE  cat \subseteq frozenAllow(n)
    <3>1. n \in Chain[c] /\ n # c
      BY <2>4, <2>5, TreeAssumption
    <3>2. n \notin hosts
      BY <2>3, <2>4, <2>5, TreeAssumption
    <3>3. QED
      BY <1>1, <2>5, <3>1, <3>2, UpIs DEF Withholding
  <2>6. c \in k => PermitsIn(allow, h, cat)
    BY <2>5 DEF PermitsIn, frozenAllow
  <2>7. QED
    BY <2>2, <2>4, <2>6
<1>5. QED
  BY <1>3, <1>4

\* Nobody takes what is aimed at nobody.
LEMMA HostOfNone == ASSUME NEW k, NEW cat PROVE frozenHostFor(k, None, cat) = None
BY DEF frozenHostFor, Withholding, Up

\* The deepest of some components over a target is one of them and on its chain,
\* or there is none.
LEMMA DeepestUp == ASSUME NEW k, NEW c \in Member, NEW S \in SUBSET Comps
                   PROVE  LET d == Deepest(Up(k, c) \cap S)
                          IN d = None \/ (d \in S /\ d \in Up(k, c) /\ d \in Comps)
<1>1. CASE Up(k, c) \cap S = {}
  BY <1>1 DEF Deepest
<1>2. CASE Up(k, c) \cap S # {}
  <2>1. c \in Comps
    BY <1>2 DEF Up, Member
  <2>2. Up(k, c) \cap S \in SUBSET Chain[c]
    BY <2>1, UpIs
  <2>3. QED
    BY <1>2, <2>1, <2>2, DeepestOf
<1>3. QED
  BY <1>1, <1>2

-----------------------------------------------------------------------------
(* The inductive invariant, in parts that follow the model's.              *)

TreeOK == /\ live \subseteq Comps /\ known \subseteq Comps /\ collapsed \subseteq Comps
          /\ allow \in [Hosts -> AllowSets] /\ swept \in [Hosts -> AllowSets]
          /\ structure \in BOOLEAN /\ moved \in BOOLEAN /\ edits \in 0..MaxEdits
          /\ Root \in live
          /\ \A c \in live : Chain[c] \subseteq live

FocusOK == /\ order \subseteq Stops /\ cur \in order \cup {None} /\ prev \in Member
           /\ order # {} => cur # None
           /\ focusedFlags = {cur} \ {None}

PointOK == /\ hover \in Hovers \cup {None}
           /\ hoveredFlags = {hover} \ {None}
           /\ watchers \subseteq Watched /\ over \subseteq watchers /\ tips \subseteq Watched
           /\ mnemonics \subseteq Mnemonics

\* A capture is what the last press or the last taker left, and a release keeps
\* the one it began with, and whose that was.
GestureOK == /\ {captor, lastClick, earned} \subseteq Member /\ held \in BOOLEAN /\ intruded \in BOOLEAN
             /\ got \in [kind : Kinds, to : Member]
             /\ rel \in Releases
             /\ held => captor # None
             /\ captor # None => captor = earned
             /\ rel.pc # "none" => got.kind \in {"release", "click"}
             /\ rel.pc # "none" => rel.captor \in {None, rel.claim}

\* What is remembered, and what a release still holds, is in the tree and in no
\* picture; but for the capture of who took the pointer inside one.
FocusFresh == \A c \in (order \cup {prev}) \ {None} : Shown(live, allow, c, Focus)

PointFresh == hover # None => Shown(live, allow, hover, Hover)

HoldFresh == /\ captor # None => intruded \/ Shown(live, allow, captor, Pointer)
             /\ lastClick # None => Shown(live, allow, lastClick, Pointer)

LettersFresh == \A c \in mnemonics : Shown(live, allow, c, Mnemonic)

ReleaseFresh == rel.pc # "none" => /\ Shown(live, allow, rel.hit, Pointer)
                                   /\ Shown(live, allow, rel.hov, Hover)

Fresh == /\ known = live
         /\ FocusFresh /\ PointFresh /\ HoldFresh /\ LettersFresh /\ ReleaseFresh

IInv == /\ TreeOK /\ FocusOK /\ PointOK /\ GestureOK
        /\ ~moved => Fresh

\* The parts give every variable its type.
LEMMA Typed == IInv => TypeOK
<1>1. Stops \subseteq Comps /\ None \notin Comps
  BY TreeAssumption, KindsAssumption
<1>2. ASSUME IInv
      PROVE  /\ order \subseteq Stops /\ cur \in order \cup {None} /\ focusedFlags \subseteq Stops
             /\ hoveredFlags \subseteq Hovers /\ {prev, captor, lastClick, earned} \subseteq Member
  BY <1>2 DEF IInv, FocusOK, PointOK, GestureOK
<1>3. QED
  BY <1>2 DEF IInv, TreeOK, FocusOK, PointOK, GestureOK, TypeOK

\* At first the whole tree is walked, nothing is frozen and nothing is held.
LEMMA IInvInitially == Init => IInv
<1> SUFFICES ASSUME Init
             PROVE  IInv
  OBVIOUS
<1> USE DEF Init
<1>1. /\ Stops \subseteq Comps /\ Watched \subseteq Comps /\ None \notin Comps /\ Root \in Comps
      /\ Mnemonics \subseteq Comps
  BY TreeAssumption, KindsAssumption
<1>2. TreeOK
  <2>1. allow \in [Hosts -> AllowSets]
    BY AllowAssumption
  <2>2. 0 \in 0..MaxEdits
    BY MaxEditsAssumption
  <2>3. \A c \in live : Chain[c] \subseteq live
    BY TreeAssumption
  <2>4. QED
    BY <1>1, <2>1, <2>2, <2>3 DEF TreeOK
<1>3. FocusOK
  <2>1. Stops # {} => First(Stops) \in Stops
    BY <1>1, EndsOf
  <2>2. QED
    BY <1>1, <2>1 DEF FocusOK, Member
<1>4. PointOK
  BY DEF PointOK
<1>5. GestureOK
  BY DEF GestureOK, Member, Kinds, Releases, NoRelease
<1>6. \A c \in Comps : \A cat \in SUBSET AllowAll : Shown(live, allow, c, cat)
  BY TreeAssumption DEF Shown, PermitsIn
<1>7. Focus \subseteq AllowAll /\ Mnemonic \subseteq AllowAll
  BY DEF Focus, Mnemonic, AllowAll, Alpha
<1>8. Fresh
  BY <1>1, <1>6, <1>7 DEF Fresh, FocusFresh, PointFresh, HoldFresh, LettersFresh, ReleaseFresh, NoRelease
<1>9. QED
  BY <1>2, <1>3, <1>4, <1>5, <1>8 DEF IInv

-----------------------------------------------------------------------------
(* What a step does to each part.                                          *)

\* A step that leaves the tree, what is walked of it and what hosts answer.
StillTree == UNCHANGED <<live, allow, collapsed, registered, moved, edits>> /\ structure' \in BOOLEAN

\* Only edits and frames touch the tree or what the last frame saw of it.
LEMMA TreeStep == ASSUME structure \in BOOLEAN, [Next]_vars
                  PROVE  \/ StillTree
                         \/ \E c \in Comps : Edit(c) \/ Collapse(c)
                         \/ \E h \in Hosts, a \in AllowSets : Freeze(h, a)
                         \/ Frame
<1> USE DEF StillTree, registered, tree
<1>1. ASSUME NEW c \in Comps, Press(c) \/ Move(c) \/ Wheel(c) \/ Release(c) \/ MnemonicKey(c)
                              \/ CaptureMouse(c) \/ Refocus(c)
      PROVE  StillTree
  BY <1>1 DEF Press, Move, Wheel, Release, MnemonicKey, CaptureMouse, Refocus, Restructured
<1>2. CASE Click \/ Released \/ Returned \/ Key \/ Navigate \/ ReleaseCapture \/ Restore
  BY <1>2 DEF Click, Released, Returned, Key, Navigate, ReleaseCapture, Restore, Restructured
<1>3. CASE UNCHANGED vars
  BY <1>3 DEF vars
<1>4. QED
  BY <1>1, <1>2, <1>3 DEF Next

\* Focus moves to one of the stops, or stays, until a frame re-syncs.
LEMMA FocusStep == ASSUME FocusOK, [Next]_vars
                   PROVE  UNCHANGED focus \/ (\E c \in order : FocusIndex(c)) \/ Frame
<1>1. ASSUME NEW c, SetFocus(c)
      PROVE  UNCHANGED focus \/ \E d \in order : FocusIndex(d)
  BY <1>1 DEF SetFocus
<1>2. ASSUME NEW c \in Comps, Press(c)
      PROVE  UNCHANGED focus \/ \E d \in order : FocusIndex(d)
  BY <1>1, <1>2 DEF Press
<1>3. ASSUME NEW c \in Comps, Move(c) \/ Wheel(c) \/ Release(c) \/ MnemonicKey(c) \/ CaptureMouse(c)
                              \/ Edit(c) \/ Collapse(c)
      PROVE  UNCHANGED focus
  BY <1>3 DEF Move, Wheel, Release, MnemonicKey, CaptureMouse, Edit, Collapse, Edited
<1>4. ASSUME NEW c \in Comps, Refocus(c)
      PROVE  UNCHANGED focus \/ \E d \in order : FocusIndex(d)
  BY <1>1, <1>4 DEF Refocus
<1>5. CASE Restore
  BY <1>1, <1>5 DEF Restore
<1>6. CASE Click \/ Released \/ Returned \/ Key \/ ReleaseCapture
  BY <1>6 DEF Click, Released, Returned, Key, ReleaseCapture
<1>7. ASSUME NEW h \in Hosts, NEW a \in AllowSets, Freeze(h, a)
      PROVE  UNCHANGED focus
  BY <1>7 DEF Freeze, Edited
<1>8. CASE Navigate
  <2>1. order \subseteq Comps /\ order # {} /\ cur \in order
    BY <1>8, TreeAssumption, KindsAssumption DEF Navigate, FocusOK
  <2>2. PICK S : S = {c \in order : reachable(c)}
    OBVIOUS
  <2>3. After \in order
    <3>1. PICK later : later = {c \in S : Rank[c] > Rank[cur]}
      OBVIOUS
    <3>2. S # {} => First(IF later = {} THEN S ELSE later) \in S
      BY <2>1, <2>2, <3>1, EndsOf
    <3>3. QED
      BY <2>1, <2>2, <3>1, <3>2 DEF After
  <2>4. Before \in order
    <3>1. PICK earlier : earlier = {c \in S : Rank[c] < Rank[cur]}
      OBVIOUS
    <3>2. S # {} => Last(IF earlier = {} THEN S ELSE earlier) \in S
      BY <2>1, <2>2, <3>1, EndsOf
    <3>3. QED
      BY <2>1, <2>2, <3>1, <3>2 DEF Before
  <2>5. QED
    BY <1>8, <2>3, <2>4 DEF Navigate
<1>9. CASE UNCHANGED vars
  BY <1>9 DEF vars
<1>10. QED
  BY <1>2, <1>3, <1>4, <1>5, <1>6, <1>7, <1>8, <1>9 DEF Next

\* Hover and the tips move with the pointer, over the tree that was walked, or
\* the tips come down, until a frame re-syncs.
LEMMA PointStep == ASSUME IInv, [Next]_vars
                   PROVE  \/ UNCHANGED pointing /\ tips' \subseteq tips
                          \/ \E hit \in Comps \cup {None}, t \in SUBSET tips :
                               /\ SetHover(known, watchers, hover, over, t, hit)
                               /\ ~moved => Shown(live, allow, hit, Hover)
                          \/ Frame
<1>1. Interrupted \subseteq tips
  BY DEF Interrupted
<1>2. ASSUME NEW c \in live
      PROVE  /\ frozenHostFor(known, c, Hover) \in Comps
             /\ ~moved => Shown(live, allow, frozenHostFor(known, c, Hover), Hover)
  <2>1. c \in Comps
    BY <1>2 DEF IInv, TreeOK
  <2>2. frozenHostFor(known, c, Hover) \in Chain[c]
    BY <2>1, HostIs
  <2>3. Chain[c] \subseteq live
    BY <1>2 DEF IInv, TreeOK
  <2>4. ~moved => known = live
    BY DEF IInv, Fresh
  <2>5. QED
    BY <2>1, <2>2, <2>3, <2>4, <1>2, HostIs DEF Shown
<1>3. ASSUME NEW c \in Comps, Press(c)
      PROVE  \/ UNCHANGED pointing /\ tips' \subseteq tips
             \/ \E hit \in Comps \cup {None}, t \in SUBSET tips :
                  /\ SetHover(known, watchers, hover, over, t, hit)
                  /\ ~moved => Shown(live, allow, hit, Hover)
  <2>1. c \in live
    BY <1>3 DEF Press, Hits
  <2>2. CASE held
    BY <1>1, <1>3, <2>2 DEF Press
  <2>3. CASE ~held
    <3>1. SetHover(known, watchers, hover, over, Interrupted, frozenHostFor(known, c, Hover))
      BY <1>3, <2>3 DEF Press
    <3>2. QED
      BY <1>1, <1>2, <2>1, <3>1
  <2>4. QED
    BY <2>2, <2>3
<1>4. ASSUME NEW c \in Comps, Move(c)
      PROVE  \/ UNCHANGED pointing /\ tips' \subseteq tips
             \/ \E hit \in Comps \cup {None}, t \in SUBSET tips :
                  /\ SetHover(known, watchers, hover, over, t, hit)
                  /\ ~moved => Shown(live, allow, hit, Hover)
  <2>1. c \in live
    BY <1>4 DEF Move, Hits
  <2>2. CASE captor # None
    BY <1>4, <2>2 DEF Move
  <2>3. CASE captor = None
    <3>1. SetHover(known, watchers, hover, over, tips, frozenHostFor(known, c, Hover))
      BY <1>4, <2>3 DEF Move
    <3>2. QED
      BY <1>2, <2>1, <3>1
  <2>4. QED
    BY <2>2, <2>3
<1>5. ASSUME NEW c \in Comps, Wheel(c) \/ Release(c) \/ MnemonicKey(c) \/ CaptureMouse(c)
                              \/ Refocus(c) \/ Edit(c) \/ Collapse(c)
      PROVE  UNCHANGED pointing /\ tips' = tips
  BY <1>5 DEF Wheel, Release, MnemonicKey, CaptureMouse, Refocus, Edit, Collapse, Edited
<1>6. CASE Released
  <2>1. CASE held
    BY <1>6, <2>1 DEF Released
  <2>2. CASE ~held
    <3>1. SetHover(known, watchers, hover, over, tips, rel.hov)
      BY <1>6, <2>2 DEF Released
    <3>2. rel.pc # "none"
      BY <1>6 DEF Released
    <3>3. rel.hov \in Comps \cup {None}
      BY DEF IInv, GestureOK, Releases, Member
    <3>4. ~moved => Shown(live, allow, rel.hov, Hover)
      BY <3>2 DEF IInv, Fresh, ReleaseFresh
    <3>5. QED
      BY <3>1, <3>3, <3>4
  <2>3. QED
    BY <2>1, <2>2
<1>7. CASE Key
  BY <1>1, <1>7 DEF Key
<1>8. CASE Click \/ Returned \/ Navigate \/ ReleaseCapture \/ Restore
  BY <1>8 DEF Click, Returned, Navigate, ReleaseCapture, Restore
<1>9. ASSUME NEW h \in Hosts, NEW a \in AllowSets, Freeze(h, a)
      PROVE  UNCHANGED pointing /\ tips' = tips
  BY <1>9 DEF Freeze, Edited
<1>10. CASE UNCHANGED vars
  BY <1>10 DEF vars
<1>11. QED
  BY <1>3, <1>4, <1>5, <1>6, <1>7, <1>8, <1>9, <1>10 DEF Next

-----------------------------------------------------------------------------
(* Each part is kept.                                                      *)

\* A subtree that leaves or comes takes with it whatever hangs from it.
LEMMA EditKeepsTree == ASSUME TreeOK, NEW c \in Comps, Edit(c)
                       PROVE  TreeOK'
<1>1. /\ c \in MayLeave /\ Chain[c] \ {c} \subseteq live
      /\ live' = IF c \in live THEN live \ Subtree(c) ELSE live \cup Subtree(c)
      /\ structure' = TRUE /\ moved' = TRUE /\ allow' = allow /\ collapsed' = collapsed
      /\ known' = known /\ swept' = swept
      /\ edits < MaxEdits /\ edits' = edits + 1
  BY DEF Edit, Edited, registered
<1>2. Root \in live'
  <2>1. c # Root /\ Root \in Comps /\ c \in Comps
    BY <1>1, TreeAssumption, KindsAssumption
  <2>2. c \notin Chain[Root]
    BY <2>1, TreeAssumption
  <2>3. QED
    BY <1>1, <2>2 DEF Subtree, TreeOK
<1>3. live' \subseteq Comps
  BY <1>1 DEF TreeOK, Subtree
<1>4. ASSUME NEW d \in live', NEW e \in Chain[d]
      PROVE  e \in live'
  <2>1. d \in Comps /\ e \in Comps
    BY <1>3, <1>4, TreeAssumption
  <2>2. CASE c \in live
    <3>1. d \in live /\ d \notin Subtree(c) /\ e \in live
      BY <1>1, <1>4, <2>2 DEF TreeOK
    <3>2. c \notin Chain[e]
      BY <2>1, <3>1, <1>4, TreeAssumption DEF Subtree
    <3>3. QED
      BY <1>1, <2>2, <3>1, <3>2 DEF Subtree
  <2>3. CASE c \notin live /\ d \in live
    BY <1>1, <1>4, <2>3 DEF TreeOK
  <2>4. CASE c \notin live /\ d \notin live
    <3>1. d \in Subtree(c)
      BY <1>1, <1>4, <2>4
    <3>2. c \in Chain[d] /\ (c \in Chain[e] \/ e \in Chain[c])
      BY <3>1, <2>1, <1>4, TreeAssumption DEF Subtree
    <3>3. e \in Subtree(c) \/ e \in live
      BY <1>1, <2>1, <3>2, TreeAssumption DEF Subtree
    <3>4. QED
      BY <1>1, <2>4, <3>3
  <2>5. QED
    BY <2>2, <2>3, <2>4
<1>5. edits' \in 0..MaxEdits
  BY <1>1, MaxEditsAssumption DEF TreeOK
<1>6. QED
  BY <1>1, <1>2, <1>3, <1>4, <1>5 DEF TreeOK

\* The tree is one at every moment, whoever edits or freezes it.
LEMMA TreeKept == ASSUME TreeOK, [Next]_vars PROVE TreeOK'
<1>1. ASSUME StillTree
      PROVE  TreeOK'
  BY <1>1 DEF StillTree, registered, TreeOK
<1>2. ASSUME NEW c \in Comps, Collapse(c)
      PROVE  TreeOK'
  <2>1. edits' \in 0..MaxEdits
    BY <1>2, MaxEditsAssumption DEF Collapse, Edited, TreeOK
  <2>2. QED
    BY <1>2, <2>1 DEF Collapse, Edited, TreeOK, registered
<1>3. ASSUME NEW h \in Hosts, NEW a \in AllowSets, Freeze(h, a)
      PROVE  TreeOK'
  <2>1. edits' \in 0..MaxEdits
    BY <1>3, MaxEditsAssumption DEF Freeze, Edited, TreeOK
  <2>2. allow' \in [Hosts -> AllowSets]
    BY <1>3 DEF Freeze, TreeOK
  <2>3. QED
    BY <1>3, <2>1, <2>2 DEF Freeze, Edited, TreeOK, registered
<1>4. CASE Frame
  BY <1>4 DEF Frame, Resync, TreeOK
<1>5. structure \in BOOLEAN
  BY DEF TreeOK
<1>6. QED
  BY <1>1, <1>2, <1>3, <1>4, <1>5, EditKeepsTree, TreeStep

\* Whoever gets focus is told, and whoever had it is told too.
LEMMA FocusKept == ASSUME FocusOK, [Next]_vars PROVE FocusOK'
<1>1. None \notin Comps /\ Stops \subseteq Comps
  BY TreeAssumption, KindsAssumption
<1>2. CASE UNCHANGED focus
  BY <1>2 DEF focus, FocusOK
<1>3. ASSUME NEW c \in order, FocusIndex(c)
      PROVE  FocusOK'
  <2>1. c # None
    BY <1>1 DEF FocusOK
  <2>2. focusedFlags' = {c}
    BY <1>3, <2>1 DEF FocusIndex, FocusOK
  <2>3. prev' \in Member
    BY <1>1, <1>3 DEF FocusIndex, FocusOK, Member
  <2>4. QED
    BY <1>3, <2>1, <2>2, <2>3 DEF FocusIndex, FocusOK
<1>4. CASE Frame
  <2>1. PICK stops : stops = {c \in live \cap Stops : Permits(c, Focus)}
    OBVIOUS
  <2>2. PICK at : at = IF cur \in stops THEN cur ELSE IF stops = {} THEN None ELSE First(stops)
    OBVIOUS
  <2>3. /\ order' = stops /\ cur' = at
        /\ focusedFlags' = IF cur \in stops THEN focusedFlags ELSE MoveFocus(focusedFlags, at)
        /\ prev' = IF prev \in live /\ frozenHostFor(live, prev, Focus) = prev THEN prev ELSE None
    BY <1>4, <2>1, <2>2 DEF Frame, Resync
  <2>4. stops \subseteq Stops /\ stops \subseteq Comps /\ None \notin stops
    BY <1>1, <2>1
  <2>5. stops # {} => First(stops) \in stops
    BY <2>4, EndsOf
  <2>6. at \in stops \cup {None} /\ (stops # {} => at # None)
    BY <2>2, <2>4, <2>5
  <2>7. focusedFlags' = {at} \ {None}
    BY <2>2, <2>3, <2>4 DEF MoveFocus, FocusOK
  <2>8. prev' \in Member
    BY <2>3 DEF FocusOK, Member
  <2>9. QED
    BY <2>3, <2>4, <2>6, <2>7, <2>8 DEF FocusOK
<1>5. QED
  BY <1>2, <1>3, <1>4, FocusStep

\* setHover lights the hover target the hit is under, and only that one; a tip it
\* puts up is that of a watcher.
LEMMA HoverSet == ASSUME NEW k, NEW ws \in SUBSET Watched, NEW h \in {hover, None}, NEW o \in SUBSET ws,
                         NEW t \in SUBSET Watched, NEW hit \in Comps \cup {None},
                         SetHover(k, ws, h, o, t, hit), hoveredFlags = {hover} \ {None}
                  PROVE  /\ hover' \in Hovers \cup {None}
                         /\ hover' # None => hover' \in Up(k, hit)
                         /\ hoveredFlags' = {hover'} \ {None}
                         /\ over' \subseteq ws /\ tips' \subseteq Watched
<1>1. Watched \subseteq Comps /\ Hovers \subseteq Comps /\ hit \in Member
  BY KindsAssumption DEF Member
<1>2. /\ hover' = Deepest(Up(k, hit) \cap Hovers)
      /\ over' = Entered(k, ws, hit)
      /\ tips' = (t \ (o \ over')) \cup (over' \ o)
  BY DEF SetHover
<1>3. hover' = None \/ (hover' \in Hovers /\ hover' \in Up(k, hit))
  BY <1>1, <1>2, DeepestUp
<1>4. over' \subseteq ws
  <2>1. ws \in SUBSET Comps /\ ws \cap Up(k, hit) = Up(k, hit) \cap ws
    BY <1>1
  <2>2. PICK d : d = Deepest(Up(k, hit) \cap ws)
    OBVIOUS
  <2>3. d = None \/ d \in ws
    BY <1>1, <2>1, <2>2, DeepestUp
  <2>4. QED
    BY <1>2, <2>1, <2>2, <2>3 DEF Entered
<1>5. hoveredFlags' = {hover'} \ {None}
  BY DEF SetHover
<1>6. QED
  BY <1>2, <1>3, <1>4, <1>5

\* Whoever hover names is lit and nobody else, whatever moved it.
LEMMA PointKept == ASSUME IInv, [Next]_vars PROVE PointOK'
<1>1. PointOK /\ TreeOK
  BY DEF IInv
<1>2. ASSUME ~Frame
      PROVE  watchers' = watchers /\ mnemonics' = mnemonics
  BY <1>2 DEF Next, vars, registered, Press, Move, Wheel, Release, Click, Released, Returned, Key, Navigate,
     MnemonicKey, CaptureMouse, Refocus, Edit, Collapse, Edited, ReleaseCapture, Restore, Freeze
<1>3. CASE ~Frame /\ UNCHANGED pointing /\ tips' \subseteq tips
  BY <1>1, <1>2, <1>3 DEF pointing, PointOK
<1>4. ASSUME ~Frame, NEW hit \in Comps \cup {None}, NEW t \in SUBSET tips,
             SetHover(known, watchers, hover, over, t, hit)
      PROVE  PointOK'
  <2>1. /\ watchers \in SUBSET Watched /\ over \in SUBSET watchers /\ t \in SUBSET Watched
        /\ hoveredFlags = {hover} \ {None} /\ mnemonics \subseteq Mnemonics
    BY <1>1 DEF PointOK
  <2>2. /\ hover' \in Hovers \cup {None} /\ hoveredFlags' = {hover'} \ {None}
        /\ over' \subseteq watchers /\ tips' \subseteq Watched
    BY <1>4, <2>1, HoverSet
  <2>3. QED
    BY <1>2, <1>4, <2>1, <2>2 DEF PointOK
<1>5. CASE Frame
  <2>1. PICK ws : ws = {c \in live \cap Watched : Permits(c, Hover)}
    OBVIOUS
  <2>2. PICK h : h = IF hover \in live THEN hover ELSE None
    OBVIOUS
  <2>3. PICK host : host = frozenHostFor(live, h, Hover)
    OBVIOUS
  <2>4. PICK o : o = over \cap ws
    OBVIOUS
  <2>5. PICK t : t = tips \ Orphaned
    OBVIOUS
  <2>6. /\ watchers' = ws
        /\ mnemonics' = {c \in live \cap Mnemonics : Permits(c, Mnemonic)}
        /\ IF host # h THEN SetHover(live, ws, h, o, t, host)
           ELSE /\ hover' = h
                /\ over' = o
                /\ hoveredFlags' = IF h = hover THEN hoveredFlags ELSE hoveredFlags \ {hover}
                /\ tips' = t
    BY <1>5, <2>1, <2>2, <2>3, <2>4, <2>5 DEF Frame, Resync
  <2>7. /\ ws \in SUBSET Watched /\ h \in {hover, None} /\ o \in SUBSET ws /\ t \in SUBSET Watched
        /\ hoveredFlags = {hover} \ {None} /\ hover \in Hovers \cup {None}
    BY <1>1, <2>1, <2>2, <2>4, <2>5 DEF PointOK
  <2>8. host \in Comps \cup {None}
    <3>1. h = None \/ h \in Comps
      BY <2>7, KindsAssumption
    <3>2. QED
      BY <3>1, <2>3, HostIs, HostOfNone
  <2>9. /\ hover' \in Hovers \cup {None} /\ hoveredFlags' = {hover'} \ {None}
        /\ over' \subseteq ws /\ tips' \subseteq Watched
    <3>1. CASE host # h
      BY <3>1, <2>6, <2>7, <2>8, HoverSet
    <3>2. CASE host = h
      BY <3>2, <2>6, <2>7
    <3>3. QED
      BY <3>1, <3>2
  <2>10. mnemonics' \subseteq Mnemonics
    BY <2>6
  <2>11. QED
    BY <2>6, <2>7, <2>9, <2>10 DEF PointOK
<1>6. QED
  BY <1>3, <1>4, <1>5, PointStep

\* What an event is aimed at over a component that is there is a component.
LEMMA Aimed == ASSUME GestureOK, NEW c \in Comps, NEW k, NEW cat
               PROVE  LET hit == frozenHostFor(k, c, cat)
                      IN hit \in Comps /\ hit # None /\ target(hit) \in Comps /\ target(hit) # None
BY HostIs, TreeAssumption DEF target, GestureOK, Member

\* An event is one of the kinds, for somebody or nobody.
LEMMA EventType == ASSUME NEW kind \in Kinds, NEW c \in Member
                   PROVE  /\ Event(kind, c) \in [kind : Kinds, to : Member]
                          /\ Event(kind, c).kind = kind /\ Event(kind, c).to = c
BY DEF Event

\* The pointer's steps: a press or a capture says whose the gesture is, and a
\* release goes on with the captor it began with.
LEMMA GestureKept == ASSUME GestureOK, FocusOK, [Next]_vars PROVE GestureOK'
<1> USE DEF GestureOK
<1>1. ASSUME NEW c \in Comps, Press(c)
      PROVE  GestureOK'
  <2>1. PICK hit : hit = frozenHostFor(known, c, Pointer)
    OBVIOUS
  <2>2. hit \in Comps /\ hit # None
    BY <2>1, Aimed
  <2>3. /\ rel.pc = "none" /\ rel' = rel /\ lastClick' = lastClick
    BY <1>1 DEF Press, Idle
  <2>4. CASE held
    <3>1. UNCHANGED <<captor, held, intruded>> /\ got' = Event("press", captor) /\ earned' = got'.to
      BY <1>1, <2>4 DEF Press, capture
    <3>2. got' \in [kind : Kinds, to : Member] /\ earned' = captor
      BY <3>1, EventType DEF Kinds
    <3>3. QED
      BY <2>3, <2>4, <3>1, <3>2
  <2>5. CASE ~held
    <3>1. captor' = hit /\ UNCHANGED <<held, intruded>> /\ got' = Event("press", hit) /\ earned' = got'.to
      BY <1>1, <2>1, <2>5 DEF Press
    <3>2. hit \in Member
      BY <2>2 DEF Member
    <3>3. got' \in [kind : Kinds, to : Member] /\ earned' = hit
      BY <3>1, <3>2, EventType DEF Kinds
    <3>4. QED
      BY <2>2, <2>3, <2>5, <3>1, <3>2, <3>3
  <2>6. QED
    BY <2>4, <2>5
<1>2. ASSUME NEW c \in Comps, Move(c) \/ Wheel(c)
      PROVE  GestureOK'
  <2>1. PICK to : to = target(frozenHostFor(known, c, Pointer))
    OBVIOUS
  <2>2. to \in Member
    BY <2>1, Aimed DEF Member
  <2>3. /\ rel.pc = "none" /\ rel' = rel /\ lastClick' = lastClick /\ UNCHANGED <<captor, held, intruded>>
        /\ earned' = earned /\ (got' = Event("move", to) \/ got' = Event("wheel", to))
    BY <1>2, <2>1 DEF Move, Wheel, Idle, capture
  <2>4. got' \in [kind : Kinds, to : Member]
    BY <2>2, <2>3, EventType DEF Kinds
  <2>5. QED
    BY <2>3, <2>4
<1>3. ASSUME NEW c \in Comps, Release(c)
      PROVE  GestureOK'
  <2>1. PICK hit : hit = frozenHostFor(known, c, Pointer)
    OBVIOUS
  <2>2. PICK hov : hov = frozenHostFor(known, c, Hover)
    OBVIOUS
  <2>3. hit \in Member /\ target(hit) \in Member /\ hov \in Member
    BY <2>1, <2>2, Aimed DEF Member
  <2>4. /\ rel' = [pc |-> "route", captor |-> captor, hit |-> hit, hov |-> hov, claim |-> earned]
        /\ got' = Event("release", target(hit))
        /\ UNCHANGED <<lastClick, captor, held, intruded, earned>>
    BY <1>3, <2>1, <2>2 DEF Release, capture
  <2>5. got' \in [kind : Kinds, to : Member] /\ got'.kind = "release"
    BY <2>3, <2>4, EventType DEF Kinds
  <2>6. rel' \in Releases /\ rel'.captor = captor /\ rel'.claim = earned
    BY <2>3, <2>4 DEF Releases
  <2>7. QED
    BY <2>4, <2>5, <2>6
<1>4. CASE Click
  <2>1. /\ rel.pc = "route" /\ rel.captor # None
        /\ lastClick' = rel.captor /\ got' = Event("click", rel.captor)
        /\ rel' = [rel EXCEPT !.pc = "click"]
        /\ UNCHANGED <<captor, held, intruded, earned>>
    BY <1>4 DEF Click, Clicks, capture
  <2>2. got' \in [kind : Kinds, to : Member] /\ got'.kind = "click"
    BY <2>1, EventType DEF Kinds, Releases
  <2>3. rel' \in Releases /\ rel'.captor = rel.captor /\ rel'.claim = rel.claim
    BY <2>1 DEF Releases
  <2>4. QED
    BY <2>1, <2>2, <2>3 DEF Releases
<1>5. CASE Released
  <2>1. /\ got' = Event("none", None)
        /\ rel' = NoRelease /\ lastClick' = lastClick
        /\ held' = held /\ intruded' = intruded
        /\ \/ captor' = captor /\ earned' = earned
           \/ captor' = None /\ earned' = None /\ ~held
    BY <1>5 DEF Released, capture
  <2>2. got' \in [kind : Kinds, to : Member]
    BY <2>1, EventType DEF Kinds, Member
  <2>3. rel' \in Releases /\ rel'.pc = "none"
    BY <2>1 DEF Member, NoRelease, Releases
  <2>4. None \in Member
    BY DEF Member
  <2>5. QED
    BY <2>1, <2>2, <2>3, <2>4
<1>6. CASE Returned \/ Navigate
  <2>1. /\ rel.pc = "none" /\ rel' = rel /\ got' = Event("none", None)
        /\ UNCHANGED <<lastClick, captor, held, intruded, earned>>
    BY <1>6 DEF Returned, Navigate, capture
  <2>2. got' \in [kind : Kinds, to : Member]
    BY <2>1, EventType DEF Kinds, Member
  <2>3. QED
    BY <2>1, <2>2
<1>7. CASE Key
  <2>1. PICK to : to = frozenHostFor(known, IF cur = None THEN Root ELSE cur, Alpha)
    OBVIOUS
  <2>2. /\ rel.pc = "none" /\ rel' = rel /\ got' = Event("key", to)
        /\ UNCHANGED <<lastClick, captor, held, intruded, earned>>
    BY <1>7, <2>1 DEF Key, Idle, capture
  <2>3. to \in Member
    <3>1. (IF cur = None THEN Root ELSE cur) \in Comps
      BY TreeAssumption, KindsAssumption DEF FocusOK
    <3>2. QED
      BY <2>1, <3>1, HostIs DEF Member
  <2>4. got' \in [kind : Kinds, to : Member]
    BY <2>2, <2>3, EventType DEF Kinds
  <2>5. QED
    BY <2>2, <2>4
<1>8. ASSUME NEW c \in Comps, MnemonicKey(c)
      PROVE  GestureOK'
  <2>1. /\ rel.pc = "none" /\ rel' = rel /\ got' = Event("mnemonic", c) /\ c \in Member
        /\ UNCHANGED <<lastClick, captor, held, intruded, earned>>
    BY <1>8 DEF MnemonicKey, capture, Member
  <2>2. got' \in [kind : Kinds, to : Member]
    BY <2>1, EventType DEF Kinds
  <2>3. QED
    BY <2>1, <2>2
<1>9. ASSUME NEW c \in Comps, CaptureMouse(c)
      PROVE  GestureOK'
  <2>1. /\ captor' = c /\ held' = TRUE /\ earned' = c /\ intruded' \in BOOLEAN
        /\ lastClick' = lastClick /\ got' = got /\ rel' = rel
    BY <1>9 DEF CaptureMouse
  <2>2. c \in Member /\ c # None
    BY <2>1, TreeAssumption DEF Member
  <2>3. QED
    BY <2>1, <2>2
<1>10. CASE ReleaseCapture
  <2>1. None \in Member
    BY DEF Member
  <2>2. QED
    BY <1>10, <2>1 DEF ReleaseCapture
<1>11. ASSUME UNCHANGED <<capture, lastClick, got, rel, earned>>
       PROVE  GestureOK'
  BY <1>11 DEF capture
<1>12. ASSUME NEW c \in Comps, Refocus(c) \/ Edit(c) \/ Collapse(c)
       PROVE  UNCHANGED <<capture, lastClick, got, rel, earned>>
  BY <1>12 DEF Refocus, Edit, Collapse, Edited
<1>13. ASSUME NEW h \in Hosts, NEW a \in AllowSets, Freeze(h, a)
       PROVE  UNCHANGED <<capture, lastClick, got, rel, earned>>
  BY <1>13 DEF Freeze, Edited
<1>14. ASSUME Restore \/ UNCHANGED vars
       PROVE  UNCHANGED <<capture, lastClick, got, rel, earned>>
  BY <1>14 DEF Restore, vars
<1>15. CASE Frame
  <2>1. /\ captor' = Evict(captor) /\ held' = (held /\ captor' # None) /\ intruded' = FALSE
        /\ lastClick' = Evict(lastClick) /\ got' = got /\ rel' = rel /\ earned' = earned
    BY <1>15 DEF Frame, Resync
  <2>2. \A c : Evict(c) = c \/ Evict(c) = None
    BY DEF Evict
  <2>3. None \in Member
    BY DEF Member
  <2>4. captor' \in {captor, None} /\ lastClick' \in {lastClick, None}
    BY <2>1, <2>2
  <2>5. held' \in BOOLEAN /\ (held' => held /\ captor' # None)
    BY <2>1
  <2>6. QED
    BY <2>1, <2>3, <2>4, <2>5
<1>16. QED
  BY <1>1, <1>2, <1>3, <1>4, <1>5, <1>6, <1>7, <1>8, <1>9, <1>10, <1>11, <1>12, <1>13, <1>14, <1>15 DEF Next

-----------------------------------------------------------------------------
(* Nothing remembered is stale, once a frame has noticed.                  *)

\* The tree holds with c what is above it, as free of pictures as c is.
LEMMA ShownAbove == ASSUME TreeOK, NEW cat, NEW c \in Comps, Shown(live, allow, c, cat), NEW d \in Chain[c]
                    PROVE  Shown(live, allow, d, cat)
BY AbovePermits DEF Shown, TreeOK

\* The host of something in the walked tree is shown.
LEMMA ShownHost == ASSUME TreeOK, known = live, NEW c \in live, NEW cat
                   PROVE  Shown(live, allow, frozenHostFor(known, c, cat), cat)
BY HostIs DEF Shown, TreeOK

\* Which category an event's kind is of.
LEMMA Categories == /\ \A kind \in {"press", "move", "wheel", "release", "click"} : CategoryOf(kind) = Pointer
                    /\ CategoryOf("key") = Alpha /\ CategoryOf("mnemonic") = Mnemonic
BY DEF CategoryOf

\* A step that ends settled is a frame, or began settled and left alone what the
\* frame saw.
LEMMA StillSettled == ASSUME TreeOK, [Next]_vars, ~moved', ~Frame
                      PROVE  ~moved /\ UNCHANGED <<live, allow, known, mnemonics>>
<1>1. structure \in BOOLEAN
  BY DEF TreeOK
<1>2. CASE StillTree
  BY <1>2 DEF StillTree, registered
<1>3. ASSUME NEW c \in Comps, Edit(c) \/ Collapse(c)
      PROVE  ~moved /\ UNCHANGED <<live, allow, known, mnemonics>>
  BY <1>3 DEF Edit, Collapse, Edited, registered
<1>4. ASSUME NEW h \in Hosts, NEW a \in AllowSets, Freeze(h, a)
      PROVE  FALSE
  BY <1>4 DEF Freeze
<1>5. QED
  BY <1>1, <1>2, <1>3, <1>4, TreeStep

\* Focus moves among the stops, and is given back to who had it.
LEMMA FocusFreshKept == ASSUME IInv, [Next]_vars, ~moved', ~Frame
                        PROVE  FocusFresh'
<1>1. FocusFresh /\ FocusOK /\ live' = live /\ allow' = allow
  BY StillSettled DEF IInv, Fresh
<1>2. \A c \in (order' \cup {prev'}) \ {None} : c \in (order \cup {prev}) \ {None}
  <2>1. CASE UNCHANGED focus
    BY <2>1 DEF focus
  <2>2. ASSUME NEW c \in order, FocusIndex(c)
        PROVE  order' = order /\ prev' \in order \cup {prev, None}
    BY <1>1, <2>2 DEF FocusIndex, FocusOK
  <2>3. QED
    BY <1>1, <2>1, <2>2, FocusStep
<1>3. QED
  BY <1>1, <1>2 DEF FocusFresh

\* Hover moves to a target on the chain of what the pointer is over.
LEMMA PointFreshKept == ASSUME IInv, [Next]_vars, ~moved', ~Frame
                        PROVE  PointFresh'
<1>1. /\ PointFresh /\ PointOK /\ TreeOK /\ live' = live /\ allow' = allow /\ known = live /\ ~moved
  BY StillSettled DEF IInv, Fresh
<1>2. CASE UNCHANGED pointing
  BY <1>1, <1>2 DEF pointing, PointFresh
<1>3. ASSUME NEW hit \in Comps \cup {None}, NEW t \in SUBSET tips,
             SetHover(known, watchers, hover, over, t, hit), Shown(live, allow, hit, Hover)
      PROVE  PointFresh'
  <2>1. /\ watchers \in SUBSET Watched /\ over \in SUBSET watchers /\ t \in SUBSET Watched
        /\ hoveredFlags = {hover} \ {None}
    BY <1>1 DEF PointOK
  <2>2. hover' # None => hover' \in Up(known, hit)
    BY <1>3, <2>1, HoverSet
  <2>3. hit \in Comps
    BY <1>1, <1>3 DEF Shown, TreeOK
  <2>4. hover' # None => hover' \in Chain[hit]
    BY <2>2, <2>3, UpIs
  <2>5. hover' # None => Shown(live, allow, hover', Hover)
    BY <1>1, <1>3, <2>3, <2>4, ShownAbove
  <2>6. QED
    BY <1>1, <2>5 DEF PointFresh
<1>4. QED
  BY <1>1, <1>2, <1>3, PointStep

\* Whom the pointer is over, and whom its event goes to, are shown, but for a
\* captor that took the pointer inside a picture.
LEMMA ShownTarget == ASSUME IInv, ~moved, NEW c \in Hits
                     PROVE  LET hit == frozenHostFor(known, c, Pointer)
                            IN /\ Shown(live, allow, hit, Pointer)
                               /\ \/ Shown(live, allow, target(hit), Pointer)
                                  \/ intruded /\ target(hit) = captor
                               /\ Shown(live, allow, frozenHostFor(known, c, Hover), Hover)
<1>1. known = live /\ TreeOK /\ HoldFresh
  BY DEF IInv, Fresh
<1>2. c \in live
  BY DEF Hits
<1>3. captor # None => intruded \/ Shown(live, allow, captor, Pointer)
  BY <1>1 DEF HoldFresh
<1>4. QED
  BY <1>1, <1>2, <1>3, ShownHost DEF target

\* A click goes to who is above what the release was aimed at, which is shown.
LEMMA ShownClick == ASSUME TreeOK, GestureOK, ReleaseFresh, known = live, rel.pc # "none", rel.captor # None,
                           rel.captor \in Up(known, rel.hit)
                    PROVE  Shown(live, allow, rel.captor, Pointer)
<1>1. Shown(live, allow, rel.hit, Pointer)
  BY DEF ReleaseFresh
<1>2. rel.hit \in Comps
  BY <1>1 DEF Shown, TreeOK
<1>3. rel.captor \in Chain[rel.hit]
  BY <1>2, UpIs
<1>4. QED
  BY <1>1, <1>2, <1>3, ShownAbove

\* The pointer is held, and the last click counted, by what a press, a taker or a
\* release that began settled left.
LEMMA HoldFreshKept == ASSUME IInv, [Next]_vars, ~moved', ~Frame
                       PROVE  HoldFresh'
<1>1. /\ HoldFresh /\ ReleaseFresh /\ GestureOK /\ TreeOK
      /\ live' = live /\ allow' = allow /\ known = live /\ ~moved
  BY StillSettled DEF IInv, Fresh
<1>2. ASSUME UNCHANGED <<captor, intruded, lastClick>>
      PROVE  HoldFresh'
  BY <1>1, <1>2 DEF HoldFresh
<1>3. ASSUME NEW c \in Comps, Press(c)
      PROVE  HoldFresh'
  <2>1. PICK hit : hit = frozenHostFor(known, c, Pointer)
    OBVIOUS
  <2>2. Shown(live, allow, hit, Pointer)
    BY <1>1, <1>3, <2>1, ShownTarget DEF Press
  <2>3. captor' \in {captor, hit} /\ UNCHANGED <<intruded, lastClick>>
    BY <1>3, <2>1 DEF Press, capture
  <2>4. QED
    BY <1>1, <2>2, <2>3 DEF HoldFresh
<1>4. CASE Click
  <2>1. /\ rel.pc = "route" /\ rel.captor # None /\ rel.captor \in Up(known, rel.hit)
        /\ lastClick' = rel.captor /\ UNCHANGED <<captor, intruded>>
    BY <1>4 DEF Click, Clicks, capture
  <2>2. Shown(live, allow, rel.captor, Pointer)
    BY <1>1, <2>1, ShownClick
  <2>3. QED
    BY <1>1, <2>1, <2>2 DEF HoldFresh
<1>5. CASE Released \/ ReleaseCapture
  <2>1. lastClick' = lastClick /\ (captor' = None \/ UNCHANGED <<captor, intruded>>)
    BY <1>5 DEF Released, ReleaseCapture, capture
  <2>2. QED
    BY <1>1, <2>1 DEF HoldFresh
<1>6. ASSUME NEW c \in Comps, CaptureMouse(c)
      PROVE  HoldFresh'
  <2>1. c \in known /\ captor' = c /\ intruded' = ~ Permits(c, Pointer) /\ lastClick' = lastClick
    BY <1>6 DEF CaptureMouse
  <2>2. ~intruded' => Shown(live, allow, c, Pointer)
    BY <1>1, <2>1, PermitsNow DEF Shown
  <2>3. QED
    BY <1>1, <2>1, <2>2 DEF HoldFresh
<1>7. ASSUME NEW c \in Comps, Move(c) \/ Wheel(c) \/ Release(c) \/ MnemonicKey(c) \/ Refocus(c)
                              \/ Edit(c) \/ Collapse(c)
      PROVE  UNCHANGED <<captor, intruded, lastClick>>
  BY <1>7 DEF Move, Wheel, Release, MnemonicKey, Refocus, Edit, Collapse, Edited, capture
<1>8. ASSUME Returned \/ Key \/ Navigate \/ Restore \/ UNCHANGED vars
      PROVE  UNCHANGED <<captor, intruded, lastClick>>
  BY <1>8 DEF Returned, Key, Navigate, Restore, vars, capture
<1>9. ASSUME NEW h \in Hosts, NEW a \in AllowSets, Freeze(h, a)
      PROVE  UNCHANGED <<captor, intruded, lastClick>>
  BY <1>9 DEF Freeze, Edited, capture
<1>10. QED
  BY <1>2, <1>3, <1>4, <1>5, <1>6, <1>7, <1>8, <1>9 DEF Next

\* An event goes to who is shown, or to a captor that took the pointer for itself.
MayGo(kind, to) == \/ Shown(live, allow, to, CategoryOf(kind))
                   \/ CategoryOf(kind) = Pointer /\ intruded /\ to = captor

\* Events go with what was registered and what is held.
LEMMA EventsMayGo == ASSUME IInv, [Next]_vars, ~moved', ~Frame
                     PROVE  (Delivered => MayGo(got'.kind, got'.to)) /\ ReleaseFresh'
<1>1. /\ HoldFresh /\ ReleaseFresh /\ FocusFresh /\ LettersFresh
      /\ GestureOK /\ TreeOK /\ FocusOK
      /\ live' = live /\ allow' = allow /\ known = live /\ ~moved
  BY StillSettled DEF IInv, Fresh
<1>2. ASSUME MayGo(got'.kind, got'.to), rel' = rel
      PROVE  (Delivered => MayGo(got'.kind, got'.to)) /\ ReleaseFresh'
  BY <1>1, <1>2 DEF ReleaseFresh
<1>3. ASSUME UNCHANGED <<got, rel>>
      PROVE  (Delivered => MayGo(got'.kind, got'.to)) /\ ReleaseFresh'
  BY <1>1, <1>3 DEF Delivered, ReleaseFresh
<1>4. ASSUME NEW c \in Comps, Press(c)
      PROVE  (Delivered => MayGo(got'.kind, got'.to)) /\ ReleaseFresh'
  <2>1. PICK hit : hit = frozenHostFor(known, c, Pointer)
    OBVIOUS
  <2>2. Shown(live, allow, hit, Pointer)
    BY <1>1, <1>4, <2>1, ShownTarget DEF Press
  <2>3. held => intruded \/ Shown(live, allow, captor, Pointer)
    BY <1>1 DEF HoldFresh, GestureOK
  <2>4. rel' = rel /\ got'.kind = "press" /\ (got'.to = hit \/ (held /\ got'.to = captor))
    BY <1>4, <2>1 DEF Press, Event
  <2>5. MayGo(got'.kind, got'.to)
    BY <2>2, <2>3, <2>4, Categories DEF MayGo
  <2>6. QED
    BY <1>2, <2>4, <2>5
<1>5. ASSUME NEW c \in Comps, Move(c) \/ Wheel(c)
      PROVE  (Delivered => MayGo(got'.kind, got'.to)) /\ ReleaseFresh'
  <2>1. PICK to : to = target(frozenHostFor(known, c, Pointer))
    OBVIOUS
  <2>2. Shown(live, allow, to, Pointer) \/ (intruded /\ to = captor)
    BY <1>1, <1>5, <2>1, ShownTarget DEF Move, Wheel
  <2>3. rel' = rel /\ got'.kind \in {"move", "wheel"} /\ got'.to = to
    BY <1>5, <2>1 DEF Move, Wheel, Event
  <2>4. MayGo(got'.kind, got'.to)
    BY <2>2, <2>3, Categories DEF MayGo
  <2>5. QED
    BY <1>2, <2>3, <2>4
<1>6. ASSUME NEW c \in Comps, Release(c)
      PROVE  (Delivered => MayGo(got'.kind, got'.to)) /\ ReleaseFresh'
  <2>1. PICK hit : hit = frozenHostFor(known, c, Pointer)
    OBVIOUS
  <2>2. PICK hov : hov = frozenHostFor(known, c, Hover)
    OBVIOUS
  <2>3. /\ Shown(live, allow, hit, Pointer) /\ Shown(live, allow, hov, Hover)
        /\ Shown(live, allow, target(hit), Pointer) \/ (intruded /\ target(hit) = captor)
    BY <1>1, <1>6, <2>1, <2>2, ShownTarget DEF Release
  <2>4. got'.kind = "release" /\ got'.to = target(hit) /\ rel'.hit = hit /\ rel'.hov = hov
    BY <1>6, <2>1, <2>2 DEF Release, Event
  <2>5. MayGo(got'.kind, got'.to)
    BY <2>3, <2>4, Categories DEF MayGo
  <2>6. QED
    BY <1>1, <2>3, <2>4, <2>5 DEF ReleaseFresh
<1>7. CASE Click
  <2>1. /\ rel.pc = "route" /\ rel.captor # None /\ rel.captor \in Up(known, rel.hit)
        /\ got'.kind = "click" /\ got'.to = rel.captor /\ rel' = [rel EXCEPT !.pc = "click"]
    BY <1>7 DEF Click, Clicks, Event
  <2>2. rel'.hit = rel.hit /\ rel'.hov = rel.hov
    BY <1>1, <2>1 DEF GestureOK, Releases
  <2>3. Shown(live, allow, rel.captor, Pointer)
    BY <1>1, <2>1, ShownClick
  <2>4. MayGo(got'.kind, got'.to)
    BY <2>1, <2>3, Categories DEF MayGo
  <2>5. QED
    BY <1>1, <2>1, <2>2, <2>4 DEF ReleaseFresh
<1>8. CASE Released \/ Returned \/ Navigate
  <2>1. got'.kind = "none" /\ (rel'.pc = "none" \/ rel' = rel)
    BY <1>8 DEF Released, Returned, Navigate, Event, NoRelease
  <2>2. QED
    BY <1>1, <2>1 DEF Delivered, ReleaseFresh
<1>9. CASE Key
  <2>1. PICK c : c = IF cur = None THEN Root ELSE cur
    OBVIOUS
  <2>2. c \in live
    BY <1>1, <2>1 DEF FocusFresh, FocusOK, TreeOK, Shown
  <2>3. rel' = rel /\ got'.kind = "key" /\ got'.to = frozenHostFor(known, c, Alpha)
    BY <1>9, <2>1 DEF Key, Event
  <2>4. MayGo(got'.kind, got'.to)
    BY <1>1, <2>2, <2>3, ShownHost, Categories DEF MayGo
  <2>5. QED
    BY <1>2, <2>3, <2>4
<1>10. ASSUME NEW c \in Comps, MnemonicKey(c)
       PROVE  (Delivered => MayGo(got'.kind, got'.to)) /\ ReleaseFresh'
  <2>1. c \in mnemonics /\ rel' = rel /\ got'.kind = "mnemonic" /\ got'.to = c
    BY <1>10 DEF MnemonicKey, Event
  <2>2. MayGo(got'.kind, got'.to)
    BY <1>1, <2>1, Categories, TreeAssumption, KindsAssumption DEF LettersFresh, MayGo
  <2>3. QED
    BY <1>2, <2>1, <2>2
<1>11. ASSUME NEW c \in Comps, CaptureMouse(c) \/ Refocus(c) \/ Edit(c) \/ Collapse(c)
       PROVE  UNCHANGED <<got, rel>>
  BY <1>11 DEF CaptureMouse, Refocus, Edit, Collapse, Edited
<1>12. ASSUME ReleaseCapture \/ Restore \/ UNCHANGED vars
       PROVE  UNCHANGED <<got, rel>>
  BY <1>12 DEF ReleaseCapture, Restore, vars
<1>13. ASSUME NEW h \in Hosts, NEW a \in AllowSets, Freeze(h, a)
       PROVE  UNCHANGED <<got, rel>>
  BY <1>13 DEF Freeze, Edited
<1>14. QED
  BY <1>3, <1>4, <1>5, <1>6, <1>7, <1>8, <1>9, <1>10, <1>11, <1>12, <1>13 DEF Next

\* A component an evicting frame keeps is in no picture: its host is itself.
LEMMA KeptIsShown == ASSUME TreeOK, NEW c \in live, NEW cat, frozenHostFor(live, c, cat) = c
                     PROVE  Shown(live, allow, c, cat)
BY HostIs DEF Shown, TreeOK

\* A frame walks the tree as it is, and keeps only what it finds there in no
\* picture (Resync, evictFrozen).
LEMMA FrameIsFresh == ASSUME IInv, Frame PROVE Fresh'
<1>1. /\ TreeOK /\ FocusOK /\ PointOK /\ GestureOK
      /\ live' = live /\ allow' = allow /\ got' = got /\ rel' = rel /\ got.kind = "none" /\ known' = live
  BY DEF IInv, Frame, Resync, Idle
<1>2. None \notin Comps /\ Stops \cup Hovers \cup Watched \cup Mnemonics \subseteq Comps /\ live \subseteq Comps
  BY <1>1, TreeAssumption, KindsAssumption DEF TreeOK
<1>3. FocusFresh'
  <2>1. PICK stops : stops = {c \in live \cap Stops : Permits(c, Focus)}
    OBVIOUS
  <2>2. /\ order' = stops
        /\ prev' = IF prev \in live /\ frozenHostFor(live, prev, Focus) = prev THEN prev ELSE None
    BY <2>1 DEF Frame, Resync
  <2>3. \A c \in stops : Shown(live, allow, c, Focus)
    BY <2>1, PermitsNow DEF Shown
  <2>4. prev' # None => Shown(live, allow, prev', Focus)
    BY <1>1, <2>2, KeptIsShown
  <2>5. QED
    BY <1>1, <2>2, <2>3, <2>4 DEF FocusFresh
<1>4. PointFresh'
  <2>1. PICK ws : ws = {c \in live \cap Watched : Permits(c, Hover)}
    OBVIOUS
  <2>2. PICK h : h = IF hover \in live THEN hover ELSE None
    OBVIOUS
  <2>3. PICK host : host = frozenHostFor(live, h, Hover)
    OBVIOUS
  <2>4. PICK o : o = over \cap ws
    OBVIOUS
  <2>5. PICK t : t = tips \ Orphaned
    OBVIOUS
  <2>6. IF host # h THEN SetHover(live, ws, h, o, t, host) ELSE hover' = h
    BY <2>1, <2>2, <2>3, <2>4, <2>5 DEF Frame, Resync
  <2>7. /\ ws \in SUBSET Watched /\ h \in {hover, None} /\ o \in SUBSET ws /\ t \in SUBSET Watched
        /\ hoveredFlags = {hover} \ {None}
    BY <1>1, <2>1, <2>2, <2>4, <2>5 DEF PointOK
  <2>8. CASE host = h
    <3>1. hover' = h
      BY <2>6, <2>8
    <3>2. h # None => h \in live
      BY <2>2
    <3>3. h # None => Shown(live, allow, h, Hover)
      BY <1>1, <2>3, <2>8, <3>2, KeptIsShown
    <3>4. QED
      BY <1>1, <3>1, <3>3 DEF PointFresh
  <2>9. CASE host # h
    <3>1. h # None
      BY <2>3, <2>9, HostOfNone
    <3>2. h \in live /\ h \in Comps
      BY <1>2, <2>2, <3>1
    <3>3. /\ host \in Comps /\ host \in Chain[h] /\ PermitsIn(allow, host, Hover)
      BY <2>3, <3>2, HostIs
    <3>4. host \in live
      BY <1>1, <3>2, <3>3 DEF TreeOK
    <3>5. hover' # None => hover' \in Up(live, host)
      BY <2>6, <2>7, <2>9, <3>3, HoverSet
    <3>6. hover' # None => hover' \in Chain[host]
      BY <3>3, <3>5, UpIs
    <3>7. Shown(live, allow, host, Hover)
      BY <3>3, <3>4 DEF Shown
    <3>8. hover' # None => Shown(live, allow, hover', Hover)
      BY <1>1, <3>3, <3>6, <3>7, ShownAbove
    <3>9. QED
      BY <1>1, <3>8 DEF PointFresh
  <2>10. QED
    BY <2>8, <2>9
<1>5. HoldFresh'
  <2>1. captor' = Evict(captor) /\ lastClick' = Evict(lastClick)
    BY DEF Frame, Resync
  <2>2. \A c : Evict(c) # None => Evict(c) = c /\ c \in live /\ frozenHostFor(live, c, Pointer) = c
    BY DEF Evict
  <2>3. \A c : Evict(c) # None => Shown(live, allow, Evict(c), Pointer)
    BY <1>1, <2>2, KeptIsShown
  <2>4. QED
    BY <1>1, <2>1, <2>3 DEF HoldFresh
<1>6. LettersFresh'
  <2>1. mnemonics' = {c \in live \cap Mnemonics : Permits(c, Mnemonic)}
    BY DEF Frame, Resync
  <2>2. \A c \in mnemonics' : Shown(live, allow, c, Mnemonic)
    BY <2>1, PermitsNow DEF Shown
  <2>3. QED
    BY <1>1, <2>2 DEF LettersFresh
<1>7. ReleaseFresh'
  BY <1>1 DEF ReleaseFresh, GestureOK
<1>8. QED
  BY <1>1, <1>3, <1>4, <1>5, <1>6, <1>7 DEF Fresh

\* The invariant is kept, part by part.
LEMMA IInvKept == ASSUME IInv, [Next]_vars PROVE IInv'
<1>1. TreeOK /\ FocusOK /\ GestureOK
  BY DEF IInv
<1>2. TreeOK' /\ FocusOK' /\ PointOK' /\ GestureOK'
  BY <1>1, TreeKept, FocusKept, PointKept, GestureKept
<1>3. ASSUME ~moved', ~Frame
      PROVE  Fresh'
  <2>1. FocusFresh' /\ PointFresh' /\ HoldFresh' /\ ReleaseFresh'
    BY <1>3, FocusFreshKept, PointFreshKept, HoldFreshKept, EventsMayGo
  <2>2. /\ known = live /\ LettersFresh
        /\ live' = live /\ allow' = allow /\ known' = known /\ mnemonics' = mnemonics
    BY <1>1, <1>3, StillSettled DEF IInv, Fresh
  <2>3. LettersFresh'
    BY <2>2 DEF LettersFresh
  <2>4. QED
    BY <2>1, <2>2, <2>3 DEF Fresh
<1>4. ~moved' => Fresh'
  BY <1>3, FrameIsFresh
<1>5. QED
  BY <1>2, <1>4 DEF IInv

\* So it is always true.
THEOREM Invariance == Spec => []IInv
BY IInvInitially, IInvKept, PTL DEF Spec

-----------------------------------------------------------------------------
(* What the runs check.                                                    *)

\* The variables of the input tree hold values of their types.
THEOREM TypeCorrect == Spec => []TypeOK
BY Invariance, Typed, PTL

\* Exactly the component the manager names has been told it is focused or lit, in
\* every tree and whatever leaves it or freezes mid-gesture.
THEOREM FlagsFollow == Spec => []FlagsAreTrue
<1>1. IInv => FlagsAreTrue
  BY DEF IInv, FocusOK, PointOK, FlagsAreTrue
<1>2. QED
  BY <1>1, Invariance, PTL

\* Once a frame has noticed, focus, hover, the capture and the two memories name
\* components that are in the tree and in no picture (Resync, evictFrozen), but for
\* a capture that a component in a picture took for itself (CaptureMouse).
THEOREM MemoryIsFresh == Spec => []NothingIsStale
<1>1. ASSUME IInv, Settled
      PROVE  NothingIsStale
  <2>1. FocusOK /\ FocusFresh /\ PointFresh /\ HoldFresh
    BY <1>1 DEF IInv, Settled, Fresh
  <2>2. \A c, cat : Shown(live, allow, c, cat) => c \in live /\ Permits(c, cat)
    BY PermitsNow DEF Shown
  <2>3. /\ cur # None => Shown(live, allow, cur, Focus)
        /\ prev # None => Shown(live, allow, prev, Focus)
        /\ hover # None => Shown(live, allow, hover, Hover)
        /\ captor # None => intruded \/ Shown(live, allow, captor, Pointer)
        /\ lastClick # None => Shown(live, allow, lastClick, Pointer)
    BY <2>1 DEF FocusOK, FocusFresh, PointFresh, HoldFresh
  <2>4. order # {} => cur # None
    BY <2>1 DEF FocusOK
  <2>5. QED
    BY <2>2, <2>3, <2>4 DEF NothingIsStale
<1>2. IInv => NothingIsStale
  BY <1>1 DEF NothingIsStale
<1>3. QED
  BY <1>2, Invariance, PTL

\* Whoever is routed an event is told by a step that moves no tree.
LEMMA RoutedInPeace == ASSUME IInv, [Next]_vars, got' # got
                       PROVE  moved' = moved /\ allow' = allow
<1>1. structure \in BOOLEAN
  BY DEF IInv, TreeOK
<1>2. ASSUME NEW c \in Comps, Edit(c) \/ Collapse(c)
      PROVE  FALSE
  BY <1>2 DEF Edit, Collapse, Edited
<1>3. ASSUME NEW h \in Hosts, NEW a \in AllowSets, Freeze(h, a)
      PROVE  FALSE
  BY <1>3 DEF Freeze, Edited
<1>4. CASE Frame
  BY <1>4 DEF Frame
<1>5. QED
  BY <1>1, <1>2, <1>3, <1>4, TreeStep DEF StillTree

\* From the frame that noticed a freeze until the next change, no event of a
\* category a host withholds is routed into its subtree, through whatever focus,
\* mnemonic or capture a press left (input.go, frozenHostFor and Resync); only
\* pointer events are, and only to a component in there that captured for itself.
THEOREM PicturesAreStill == Spec => PicturesDoNotAct
<1>1. ASSUME IInv, [Next]_vars
      PROVE  [Delivered /\ ~moved =>
                \/ Permits(got'.to, CategoryOf(got'.kind))
                \/ CategoryOf(got'.kind) = Pointer /\ intruded /\ got'.to = captor]_vars
  <2> SUFFICES ASSUME Delivered, ~moved
               PROVE  \/ Permits(got'.to, CategoryOf(got'.kind))
                      \/ CategoryOf(got'.kind) = Pointer /\ intruded /\ got'.to = captor
    OBVIOUS
  <2>1. moved' = moved
    BY <1>1, RoutedInPeace DEF Delivered
  <2>2. ~Frame
    BY DEF Frame, Delivered
  <2>3. MayGo(got'.kind, got'.to)
    BY <1>1, <2>1, <2>2, EventsMayGo
  <2>4. QED
    BY <2>3, PermitsNow DEF MayGo, Shown
<1>2. QED
  BY <1>1, Invariance, PTL DEF Spec, PicturesDoNotAct

\* A click goes to whom the last press went to, or who took the pointer since, when
\* the release began: one that froze, moved or lost its captor, or whose handlers
\* capture anew, clicks nobody else.
THEOREM ClicksFollowPresses == Spec => ClicksAreEarned
<1>1. ASSUME IInv, [Next]_vars
      PROVE  [Delivered /\ got'.kind = "click" => got'.to = rel.claim]_vars
  <2> SUFFICES ASSUME Delivered, got'.kind = "click"
               PROVE  got'.to = rel.claim
    OBVIOUS
  <2>1. CASE Click
    <3>1. rel.pc = "route" /\ rel.captor # None /\ got'.to = rel.captor
      BY <2>1 DEF Click, Clicks, Event
    <3>2. QED
      BY <1>1, <3>1 DEF IInv, GestureOK
  <2>2. ASSUME NEW c \in Comps, Press(c) \/ Move(c) \/ Wheel(c) \/ Release(c) \/ MnemonicKey(c)
      PROVE  FALSE
    BY <2>2 DEF Press, Move, Wheel, Release, MnemonicKey, Event
  <2>3. CASE Released \/ Returned \/ Key \/ Navigate
    BY <2>3 DEF Released, Returned, Key, Navigate, Event
  <2>4. ASSUME NEW c \in Comps, CaptureMouse(c) \/ Refocus(c) \/ Edit(c) \/ Collapse(c)
        PROVE  FALSE
    BY <2>4 DEF CaptureMouse, Refocus, Edit, Collapse, Edited, Delivered
  <2>5. ASSUME NEW h \in Hosts, NEW a \in AllowSets, Freeze(h, a)
        PROVE  FALSE
    BY <2>5 DEF Freeze, Edited, Delivered
  <2>6. CASE ReleaseCapture \/ Restore \/ Frame \/ UNCHANGED vars
    BY <2>6 DEF ReleaseCapture, Restore, Frame, vars, Delivered
  <2>7. QED
    BY <1>1, <2>1, <2>2, <2>3, <2>4, <2>5, <2>6 DEF Next
<1>2. QED
  BY <1>1, Invariance, PTL DEF Spec, ClicksAreEarned
=============================================================================
