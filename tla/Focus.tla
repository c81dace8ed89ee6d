------------------------------- MODULE Focus -------------------------------
(***************************************************************************)
(* The input tree (input.go, mouse.go): which component holds focus, hover *)
(* and the pointer, while handlers, posted work and frames change the tree *)
(* they all hang from.                                                     *)
(*                                                                         *)
(* The FocusManager works on what its last Resync walked (known, order,    *)
(* watchers, mnemonics); hit tests and the hosts' allow sets are read      *)
(* live.  Between an edit and the frame that re-syncs, the two differ.     *)
(***************************************************************************)
EXTENDS Naturals, FiniteSets

CONSTANTS Comps,        \* components
          None,         \* none of them
          Root,
          Chain,        \* Chain[c]: c and its ancestors, when c is in the tree
          Rank,         \* Rank[c]: where in a walk of the whole tree c comes
          Stops,        \* Focusable, and AcceptsFocus
          Hovers,       \* HoverTargets
          Watched,      \* components with a Tooltip
          Mnemonics,    \* MnemonicHandlers
          Hosts,        \* components that freeze their subtree
          AllowSets,    \* what a host may answer: sets of bits (allow.go)
          MayLeave,     \* components a Dynamic container realizes and drops
          MayCollapse,  \* components whose visibility is bound
          MaxEdits      \* bound on changes of tree, allow sets and visibility

\* allow.go: a category is a set of bits; the key classes imply focus.
Focus == {"focus"}
Alpha == {"alpha", "focus"}
Pointer == {"pointer"}
Hover == {"hover"}
Mnemonic == {"mnemonics"}
AllowAll == Alpha \cup Pointer \cup Hover \cup Mnemonic

ASSUME TreeAssumption == /\ None \notin Comps /\ Root \in Comps
                         /\ IsFiniteSet(Comps)
                         /\ Chain \in [Comps -> SUBSET Comps]
                         /\ \A c \in Comps : {c, Root} \subseteq Chain[c]
                         /\ \A c \in Comps : \A d \in Chain[c] :
                              Chain[d] \subseteq Chain[c] /\ (c \in Chain[d] => c = d)
                         /\ \A c \in Comps : \A d, e \in Chain[c] : d \in Chain[e] \/ e \in Chain[d]
                         /\ Rank \in [Comps -> 1..Cardinality(Comps)]
                         /\ \A c, d \in Comps : Rank[c] = Rank[d] => c = d
ASSUME KindsAssumption == /\ Stops \cup Hovers \cup Watched \cup Mnemonics \cup Hosts \subseteq Comps
                          /\ MayLeave \cup MayCollapse \subseteq Comps \ {Root}
ASSUME AllowAssumption == AllowSets \subseteq SUBSET AllowAll /\ AllowAll \in AllowSets
ASSUME MaxEditsAssumption == MaxEdits \in Nat

VARIABLES live,       \* components in the tree now
          allow,      \* allow[h]: what frozenAllow(h) answers now
          collapsed,  \* components that are Collapsed
          structure,  \* Composer.structDirty
          swept,      \* swept[h]: the answer the last frame's sweep saw
          known,      \* the domain of m.parent: the tree at the last Resync
          order,      \* the focus stops; m.order has them in tree order
          cur, prev,  \* whom m.cur is the index of, and who was before
          hover, captor, held,
          lastClick,  \* whom the last click went to; how many there were is left out
          watchers, over,             \* m.watchers' hosts, and those with over set
          mnemonics,
          focusedFlags, hoveredFlags, \* components told SetFocused, SetHovered
          tips,       \* Tooltips that are up
          got,        \* the event being handled, and who it was routed to
          rel,        \* the locals of DispatchMouse while a release is routed,
                      \* and, as history, what earned was when it began (claim)
          earned,     \* history: whom the last press went to, or who captured since,
                      \* until the pointer was given back
          intruded,   \* history: the captor took the pointer itself while it was
                      \* inside a picture, and no frame has re-synced since
          moved,      \* history: since the last Resync the tree or an allow set
                      \* has changed, though it may have changed back
          edits

tree == <<live, allow, collapsed, structure>>
focus == <<order, cur, prev, focusedFlags>>
pointing == <<hover, over, hoveredFlags>>
capture == <<captor, held, intruded>>
registered == <<known, watchers, mnemonics, swept>>
vars == <<tree, focus, pointing, capture, lastClick, registered, tips, got, rel, earned, moved, edits>>

-----------------------------------------------------------------------------
(* The tree.                                                               *)

Subtree(c) == {d \in Comps : c \in Chain[d]}

\* Following m.parent from c: it ends at once for a component not walked yet.
Up(k, c) == IF c = None THEN {} ELSE IF c \in k THEN Chain[c] ELSE {c}

\* The ends of a part of a chain.
Deepest(S) == IF S = {} THEN None ELSE CHOOSE c \in S : S \subseteq Chain[c]
Outermost(S) == CHOOSE c \in S : \A d \in S : c \in Chain[d]

\* The ends of a set in tree order.
First(S) == CHOOSE c \in S : \A d \in S : Rank[c] <= Rank[d]
Last(S) == CHOOSE c \in S : \A d \in S : Rank[d] <= Rank[c]

frozenAllow(c) == IF c \in Hosts THEN allow[c] ELSE AllowAll

Withholding(k, c, cat) == {n \in Up(k, c) \ {c} : ~ cat \subseteq frozenAllow(n)}

\* Mutant: the nearest host takes the event, frozen itself or not.
nearestHostFor(k, c, cat) ==
  LET hosts == Withholding(k, c, cat) IN IF hosts = {} THEN c ELSE Deepest(hosts)

\* frozenHostFor: the outermost ancestor that withholds cat, or c itself.
frozenHostFor(k, c, cat) ==
  LET hosts == Withholding(k, c, cat) IN IF hosts = {} THEN c ELSE Outermost(hosts)

\* What the walk of the tree registers for a category.
Permits(c, cat) == \A n \in Chain[c] \ {c} : cat \subseteq frozenAllow(n)

\* No release is being routed.
NoRelease == [pc |-> "none", captor |-> None, hit |-> None, hov |-> None, claim |-> None]

reachable(c) == Up(known, c) \cap collapsed = {}

\* What HitTest can answer: anything in the tree that no ancestor collapses.
Hits == {c \in live : Chain[c] \cap collapsed = {}}

Init == /\ live = Comps
        /\ allow = [h \in Hosts |-> AllowAll]
        /\ collapsed = {}
        /\ structure = FALSE
        /\ swept = allow
        /\ known = live
        /\ order = Stops
        /\ cur = IF Stops = {} THEN None ELSE First(Stops)
        /\ focusedFlags = {cur} \ {None}
        /\ prev = None
        /\ hover = None /\ over = {} /\ hoveredFlags = {}
        /\ captor = None /\ held = FALSE /\ intruded = FALSE
        /\ lastClick = None
        /\ watchers = Watched
        /\ mnemonics = Mnemonics
        /\ tips = {}
        /\ got = [kind |-> "none", to |-> None]
        /\ rel = NoRelease
        /\ earned = None
        /\ moved = FALSE
        /\ edits = 0

-----------------------------------------------------------------------------
(* Focus and hover.                                                        *)

\* focusIndex of the stop c.
FocusIndex(c) ==
  /\ cur' = c
  /\ prev' = IF c = cur \/ cur = None THEN prev ELSE cur
  /\ focusedFlags' = IF c = cur THEN focusedFlags ELSE (focusedFlags \ {cur}) \cup {c}
  /\ order' = order

\* SetFocus(c): refused for what is not a focus stop.
SetFocus(c) == IF c \in order THEN FocusIndex(c) ELSE UNCHANGED focus

\* move: the next reachable stop after or before cur in tree order, wrapping.
After ==
  LET S == {c \in order : reachable(c)}
      later == {c \in S : Rank[c] > Rank[cur]}
  IN IF S = {} THEN cur ELSE First(IF later = {} THEN S ELSE later)

Before ==
  LET S == {c \in order : reachable(c)}
      earlier == {c \in S : Rank[c] < Rank[cur]}
  IN IF S = {} THEN cur ELSE Last(IF earlier = {} THEN S ELSE earlier)

\* focusTargetFor: the nearest focusable at or above a hit, else the first below.
focusTargetFor(c) ==
  LET above == Up(known, c) \cap Stops
      below == {d \in live \cap Stops : /\ c \in Chain[d]
                                       /\ (Chain[d] \ (Chain[c] \ {c})) \cap collapsed = {}}
  IN IF above # {} THEN Deepest(above) ELSE IF below # {} THEN First(below) ELSE None

\* updateWatchers: of the watched hosts the hit is in, the innermost is entered.
Entered(k, ws, hit) == {Deepest(ws \cap Up(k, hit))} \ {None}

\* setHover(hit), over the tree k and the watchers ws, from (h, o) and the tips t.
SetHover(k, ws, h, o, t, hit) ==
  LET target == Deepest(Up(k, hit) \cap Hovers)
      o2 == Entered(k, ws, hit)
  IN /\ hover' = target
     /\ over' = o2
     /\ hoveredFlags' = IF target = h THEN hoveredFlags \ ({hover} \ {h})
                        ELSE (hoveredFlags \ {hover, h}) \cup ({target} \ {None})
     /\ tips' = (t \ (o \ o2)) \cup (o2 \ o)

\* interrupt: every registered watcher takes its tip down.
Interrupted == tips \ watchers

-----------------------------------------------------------------------------
(* Events.  A handler that is given one runs before the dispatcher goes on. *)

Event(kind, c) == [kind |-> kind, to |-> c]
Idle == got.kind = "none"

\* A tip that goes up or comes down is a structural change (AdornmentLayer).
Restructured == structure' = (structure \/ tips' # tips)

target(hit) == IF captor # None THEN captor ELSE hit

\* MouseTarget: where an event would go, asked before it is dispatched.
MouseTarget(kind, under) ==
  IF captor # None /\ ~(kind = "press" /\ ~held) THEN captor
  ELSE LET hit == frozenHostFor(known, under, Pointer)
       IN IF kind = "press" /\ ~held THEN hit ELSE target(hit)

Press(under) ==
  /\ Idle /\ under \in Hits
  /\ LET hit == frozenHostFor(known, under, Pointer)
         hov == frozenHostFor(known, under, Hover)
     IN /\ IF held
           THEN /\ tips' = Interrupted
                /\ UNCHANGED <<focus, pointing, capture>>
                /\ got' = Event("press", captor)
           ELSE /\ SetHover(known, watchers, hover, over, Interrupted, hov)
                /\ SetFocus(focusTargetFor(hit))
                /\ captor' = hit /\ UNCHANGED <<held, intruded>>
                /\ got' = Event("press", hit)
        /\ earned' = got'.to
  /\ Restructured
  /\ UNCHANGED <<live, allow, collapsed, lastClick, registered, rel, moved, edits>>

Move(under) ==
  /\ Idle /\ under \in Hits
  /\ IF captor = None THEN SetHover(known, watchers, hover, over, tips, frozenHostFor(known, under, Hover))
                      ELSE UNCHANGED <<pointing, tips>>
  /\ got' = Event("move", target(frozenHostFor(known, under, Pointer)))
  /\ Restructured
  /\ UNCHANGED <<live, allow, collapsed, focus, capture, lastClick, registered, rel, earned, moved, edits>>

Wheel(under) ==
  /\ Idle /\ under \in Hits
  /\ got' = Event("wheel", target(frozenHostFor(known, under, Pointer)))
  /\ UNCHANGED <<tree, focus, pointing, capture, lastClick, registered, tips, rel, earned, moved, edits>>

\* A release is routed with the captor, the hit and the hover of its beginning.
Release(under) ==
  /\ Idle /\ under \in Hits
  /\ LET hit == frozenHostFor(known, under, Pointer)
     IN /\ rel' = [pc |-> "route", captor |-> captor, hit |-> hit,
                   hov |-> frozenHostFor(known, under, Hover), claim |-> earned]
        /\ got' = Event("release", target(hit))
  /\ UNCHANGED <<tree, focus, pointing, capture, lastClick, registered, tips, earned, moved, edits>>

\* Its handlers done, a click goes to the captor if the release was within it.
Clicks == rel.pc = "route" /\ rel.captor # None /\ rel.captor \in Up(known, rel.hit)

Click ==
  /\ Clicks
  /\ lastClick' = rel.captor
  /\ got' = Event("click", rel.captor)
  /\ rel' = [rel EXCEPT !.pc = "click"]
  /\ UNCHANGED <<tree, focus, pointing, capture, registered, tips, earned, moved, edits>>

\* The end of a release: an implicit capture ends and hover catches up.
Released ==
  /\ rel.pc # "none" /\ ~Clicks
  /\ IF held THEN UNCHANGED <<pointing, tips, capture, earned>>
     ELSE /\ captor' = None /\ earned' = None /\ UNCHANGED <<held, intruded>>
          /\ SetHover(known, watchers, hover, over, tips, rel.hov)
  /\ got' = Event("none", None)
  /\ rel' = NoRelease
  /\ Restructured
  /\ UNCHANGED <<live, allow, collapsed, focus, lastClick, registered, moved, edits>>

Returned ==
  /\ ~Idle /\ rel.pc = "none"
  /\ got' = Event("none", None)
  /\ UNCHANGED <<tree, focus, pointing, capture, lastClick, registered, tips, rel, earned, moved, edits>>

\* Dispatch of a letter: it goes to the focused component's permitted host.
Key == /\ Idle
       /\ tips' = Interrupted
       /\ got' = Event("key", frozenHostFor(known, IF cur = None THEN Root ELSE cur, Alpha))
       /\ Restructured
       /\ UNCHANGED <<live, allow, collapsed, focus, pointing, capture, lastClick, registered, rel, earned, moved, edits>>

\* Nobody took it: the mnemonics are offered it, and a tab or an arrow moves
\* focus, in tree order or to a stop that lies that way.
MnemonicKey(c) ==
  /\ got.kind = "key"
  /\ c \in mnemonics /\ reachable(c)
  /\ got' = Event("mnemonic", c)
  /\ UNCHANGED <<tree, focus, pointing, capture, lastClick, registered, tips, rel, earned, moved, edits>>

Navigate ==
  /\ got.kind \in {"key", "mnemonic"}
  /\ order # {}
  /\ \/ FocusIndex(After) \/ FocusIndex(Before)
     \/ \E c \in order : reachable(c) /\ FocusIndex(c)
  /\ got' = Event("none", None)
  /\ UNCHANGED <<tree, pointing, capture, lastClick, registered, tips, rel, earned, moved, edits>>

-----------------------------------------------------------------------------
(* What handlers and posted work do.                                       *)

\* A component takes the pointer for itself, whatever it was told and whether or
\* not it was told anything: all that is asked is that the last walk met it.
CaptureMouse(c) ==
  /\ c \in known
  /\ captor' = c /\ held' = TRUE
  /\ intruded' = ~ Permits(c, Pointer)
  /\ earned' = c
  /\ UNCHANGED <<tree, focus, pointing, lastClick, registered, tips, got, rel, moved, edits>>

ReleaseCapture ==
  /\ captor # None
  /\ captor' = None /\ held' = FALSE /\ intruded' = FALSE
  /\ earned' = None
  /\ UNCHANGED <<tree, focus, pointing, lastClick, registered, tips, got, rel, moved, edits>>

Refocus(c) ==
  /\ c \in Stops
  /\ SetFocus(c)
  /\ UNCHANGED <<tree, pointing, capture, lastClick, registered, tips, got, rel, earned, moved, edits>>

\* An overlay gives focus back: SetFocus(PreviouslyFocused()).
Restore ==
  /\ prev \in known
  /\ SetFocus(prev)
  /\ UNCHANGED <<tree, pointing, capture, lastClick, registered, tips, got, rel, earned, moved, edits>>

Edited == /\ edits < MaxEdits /\ edits' = edits + 1
          /\ UNCHANGED <<focus, pointing, capture, lastClick, registered, tips, got, rel, earned>>

\* A Dynamic container drops c with what is under it, or realizes it.
Edit(c) ==
  /\ c \in MayLeave /\ Chain[c] \ {c} \subseteq live
  /\ live' = IF c \in live THEN live \ Subtree(c) ELSE live \cup Subtree(c)
  /\ structure' = TRUE
  /\ moved' = TRUE
  /\ UNCHANGED <<allow, collapsed>>
  /\ Edited

Freeze(h, a) ==
  /\ h \in live /\ a # allow[h]
  /\ allow' = [allow EXCEPT ![h] = a]
  /\ moved' = TRUE
  /\ UNCHANGED <<live, collapsed, structure>>
  /\ Edited

Collapse(c) ==
  /\ c \in MayCollapse
  /\ collapsed' = IF c \in collapsed THEN collapsed \ {c} ELSE collapsed \cup {c}
  /\ UNCHANGED <<live, allow, structure, moved>>
  /\ Edited

-----------------------------------------------------------------------------
(* A frame: the AdornmentLayer drops tips whose host cannot be seen, and if *)
(* the tree or an allow set changed the composition re-syncs.              *)

Dirty == structure \/ allow # swept

Orphaned == {c \in tips : c \notin live \/ Chain[c] \cap collapsed # {}}

\* Mutant: a capture inside a picture is handed to the picture.
EvictToHost(c) == IF c \in live THEN frozenHostFor(live, c, Pointer) ELSE None

\* Mutant: what vanished is forgotten, and not told.
ForgetFocus(flags, new) == flags \cup ({new} \ {None})

\* The focused component, if it is no focus stop any more, is told, and the
\* first stop gets focus.
MoveFocus(flags, new) == (flags \ {cur}) \cup ({new} \ {None})

\* Mutant: a component inside a picture is in the tree, so it is kept.
EvictDeparted(c) == IF c \in live THEN c ELSE None

\* Liveness and evictFrozen: what is forgotten is what has left the tree or is
\* inside a picture.
Evict(c) == IF c \in live /\ frozenHostFor(live, c, Pointer) = c THEN c ELSE None

Resync ==
  LET stops == {c \in live \cap Stops : Permits(c, Focus)}
      at == IF cur \in stops THEN cur ELSE IF stops = {} THEN None ELSE First(stops)
      ws == {c \in live \cap Watched : Permits(c, Hover)}
      h == IF hover \in live THEN hover ELSE None
      host == frozenHostFor(live, h, Hover)
      o == over \cap ws
      t == tips \ Orphaned
  IN /\ known' = live
     /\ swept' = allow
     /\ watchers' = ws
     /\ mnemonics' = {c \in live \cap Mnemonics : Permits(c, Mnemonic)}
     /\ order' = stops
     /\ cur' = at
     /\ focusedFlags' = IF cur \in stops THEN focusedFlags ELSE MoveFocus(focusedFlags, at)
     /\ IF host # h THEN SetHover(live, ws, h, o, t, host)
        ELSE /\ hover' = h
             /\ over' = o
             /\ hoveredFlags' = IF h = hover THEN hoveredFlags ELSE hoveredFlags \ {hover}
             /\ tips' = t
     /\ captor' = Evict(captor)
     /\ held' = (held /\ captor' # None)
     /\ intruded' = FALSE
     /\ prev' = IF prev \in live /\ frozenHostFor(live, prev, Focus) = prev THEN prev ELSE None
     /\ lastClick' = Evict(lastClick)
     /\ structure' = (tips' # t)

Frame ==
  /\ Idle
  /\ Dirty \/ Orphaned # {}
  /\ Resync
  /\ moved' = FALSE
  /\ UNCHANGED <<live, allow, collapsed, got, rel, earned, edits>>

Next == \/ \E c \in Comps : Press(c) \/ Move(c) \/ Wheel(c) \/ Release(c)
        \/ Click \/ Released \/ Returned
        \/ Key \/ Navigate
        \/ \E c \in Comps : MnemonicKey(c)
        \/ \E c \in Comps : CaptureMouse(c) \/ Refocus(c) \/ Edit(c) \/ Collapse(c)
        \/ ReleaseCapture \/ Restore
        \/ \E h \in Hosts, a \in AllowSets : Freeze(h, a)
        \/ Frame

Spec == Init /\ [][Next]_vars

-----------------------------------------------------------------------------

Member == Comps \cup {None}

Kinds == {"none", "press", "move", "wheel", "release", "click", "key", "mnemonic"}

Releases == [pc : {"none", "route", "click"}, captor : Member, hit : Member, hov : Member, claim : Member]

\* The variables hold values of their types, and focus is one of the order.
TypeOK == /\ live \subseteq Comps /\ known \subseteq Comps /\ collapsed \subseteq Comps
          /\ allow \in [Hosts -> AllowSets] /\ swept \in [Hosts -> AllowSets]
          /\ order \subseteq Stops /\ cur \in order \cup {None}
          /\ hover \in Hovers \cup {None}
          /\ {prev, captor, lastClick, earned} \subseteq Member
          /\ held \in BOOLEAN /\ intruded \in BOOLEAN /\ structure \in BOOLEAN /\ moved \in BOOLEAN
          /\ edits \in 0..MaxEdits
          /\ watchers \subseteq Watched /\ over \subseteq watchers /\ tips \subseteq Watched
          /\ mnemonics \subseteq Mnemonics
          /\ focusedFlags \subseteq Stops /\ hoveredFlags \subseteq Hovers
          /\ got \in [kind : Kinds, to : Member]
          /\ rel \in Releases

\* Exactly the component the manager names has been told it is focused, and
\* exactly the one it names is lit by hover: no component that left the tree, was
\* frozen or lost the pointer mid-gesture still thinks so (Resync, evictFrozen).
FlagsAreTrue == /\ focusedFlags = {cur} \ {None}
                /\ hoveredFlags = {hover} \ {None}

\* With the tree and the allow sets as the last re-sync saw them all along, focus,
\* hover, the capture and the two memories name components that are in the tree and
\* in no picture that withholds the category, and some stop has focus if there is
\* one.  All along: the sweep compares an answer with the last one it saw, so a
\* host that thaws and freezes again between two frames evicts nothing.  And not
\* the capture of a component inside a picture that took the pointer itself
\* (intruded): CaptureMouse asks only that it be in the tree.
Settled == Idle /\ ~moved

NothingIsStale == Settled =>
  /\ order # {} => cur # None
  /\ \A p \in {<<cur, Focus>>, <<prev, Focus>>, <<hover, Hover>>,
               <<IF intruded THEN None ELSE captor, Pointer>>, <<lastClick, Pointer>>} :
       p[1] # None => p[1] \in live /\ Permits(p[1], p[2])

CategoryOf(kind) == CASE kind = "key" -> Alpha [] kind = "mnemonic" -> Mnemonic [] OTHER -> Pointer

Delivered == got' # got /\ got'.kind # "none"

\* A frozen subtree renders but does not act (input.go:421-429, 585-598):
\* from the frame that noticed the freeze until the next change, no event of a
\* category it withholds is routed to anything inside it, through whatever focus,
\* mnemonic or capture that a press left; the one way in is for a component in
\* there to take the pointer for itself.
PicturesDoNotAct == [][Delivered /\ ~moved =>
  \/ Permits(got'.to, CategoryOf(got'.kind))
  \/ CategoryOf(got'.kind) = Pointer /\ intruded /\ got'.to = captor]_vars

\* What input.go:421-429 says without exception.  Refuted in a picture that lets
\* mnemonics through: a menu in it opens on its letter and captures the pointer
\* (components/menu.go:846-867, popup.go:144-150), and events follow.
PicturesAreDeaf == [][Delivered /\ ~moved => Permits(got'.to, CategoryOf(got'.kind))]_vars

\* The same while only the sweep's own comparison says that nothing changed.
\* Refuted in three edits: a host thaws, takes a press and freezes again before a
\* frame, the answer is the one swept, and the captor stays inside the picture.
SweepSuffices == [][Delivered /\ ~Dirty => Permits(got'.to, CategoryOf(got'.kind))]_vars

\* A click goes to a component only if, when the release began, the last press had
\* gone to it or it had taken the pointer itself: not to a host that froze over a
\* press it never got (input.go:436-439), nor to what took a captor's place in the
\* tree, nor to whoever captures while the release is routed.
ClicksAreEarned == [][Delivered /\ got'.kind = "click" => got'.to = rel.claim]_vars

\* A guest's pointer is checked against MouseTarget before it is dispatched
\* (control/input.go, mayPoint): the event goes where the query said.
QueryIsTrue == [][\A c \in Comps :
  /\ Press(c) => got'.to = MouseTarget("press", c)
  /\ Move(c) => got'.to = MouseTarget("move", c)
  /\ Wheel(c) => got'.to = MouseTarget("wheel", c)
  /\ Release(c) => got'.to = MouseTarget("release", c)]_vars

\* "setHover does the watcher edges on the way, which is what takes a tooltip down
\* as the surface freezes under it" (input.go:433-434): once a frame has noticed,
\* a tip that is up is one its watcher, still registered, is over.
TipsComeDown == Settled => tips \subseteq over
=============================================================================
