---------------------------- MODULE SessionProofs ----------------------------
(***************************************************************************)
(* No gap, and a current picture, for any values, acts and queue length.   *)
(* The stream of a session that is alive, which is what it has yet to      *)
(* send, carries frames in order from the one the client has read to the   *)
(* last one composed, and the last value in it is the one the session was  *)
(* told.  Then the order of an act's frame and its acknowledgement, and    *)
(* the count of the sessions, for any set of clients.                      *)
(***************************************************************************)
EXTENDS Session, SessionCount, FiniteSetTheorems, SequenceTheorems, TLAPS

Rounds == [who : {"attach"}, n : {0}, i : {1, 2}] \cup [who : {"reader"}, n : Nat, i : {1, 2}]
            \cup [who : {"signal", "exit"}, n : {0}, i : {1}]
ToldMsgs == [k : {"delta", "welcome"}, frame : Nat \ {0}, val : Values \cup {"same"}]
Notes == [k : {"none", "swapped", "echo", "resized", "eof", "cancelled", "nil"}]
Untold == [k : {"result"}, act : Nat, ok : BOOLEAN] \cup Notes
Msgs == ToldMsgs \cup Untold

\* The types of what the proof needs.
Types == /\ ui \in {"loop", "drain", "diff", "hook", "ended"}
         /\ slice \in Seq(Rounds) /\ jobs \in Seq(Rounds)
         /\ dirty \in BOOLEAN /\ joined \in BOOLEAN /\ lost \in BOOLEAN
         /\ value \in Values /\ last \in Values
         /\ frame \in Nat \ {0}
         /\ out \in Seq(Msgs) /\ msg \in Seq(Msgs)
         /\ welcome.k = "welcome"
         /\ client \in [frame : Nat, val : Values \cup {"same"}]
         /\ acts \in Seq(ActKinds) /\ res \in Untold
         /\ attach \in {"idle", "register", "settle", "sending", "serve", "ended"}

\* Attach has a message in its hands exactly when it is in Send, the UI
\* goroutine a slice when it is in Drain, and none at the loop's turn.
Hands == /\ attach = "sending" => \E m \in Msgs : msg = <<m>>
         /\ attach # "sending" => msg = <<>>
         /\ attach = "ended" <=> status # "open"
         /\ ui = "drain" => slice # <<>>
         /\ ui \in {"loop", "ended"} => slice = <<>>

\* The closure that registers the session is posted once, and has run when the
\* session has joined; nothing is pushed before, and nothing read.
First == Round("attach", 0, 1)
Nowhere == /\ \A i \in 1..Len(slice) : slice[i] # First
           /\ \A i \in 1..Len(jobs) : jobs[i] # First
Once == /\ \A i, j \in 1..Len(slice) : slice[i] = First /\ slice[j] = First => i = j
        /\ \A i, j \in 1..Len(jobs) : jobs[i] = First /\ jobs[j] = First => i = j
        /\ \A i \in 1..Len(slice), j \in 1..Len(jobs) : ~(slice[i] = First /\ jobs[j] = First)

Joining == status = "open" =>
  /\ attach # "register" \/ joined => Nowhere
  /\ attach = "register" /\ ~joined => Pending(First)
  /\ Once
  /\ attach = "idle" => ~joined
  /\ ui = "diff" => joined
  /\ attach \in {"settle", "sending", "serve"} => joined
  /\ attach \in {"idle", "register", "settle"} => reader = "none" /\ client = Unread
  /\ ~joined => out = <<>>
  /\ attach \in {"register", "settle"} /\ joined => welcome \in ToldMsgs

\* What the session was told is what is, but for a frame that is due.
Owed == joined => last = value \/ dirty \/ ui = "diff"

\* The frames in the stream, and what the client has read, are in order.
Ordered == \A i, j \in 1..Len(Stream) :
             i < j /\ Told(Stream[i]) /\ Told(Stream[j]) => Stream[i].frame <= Stream[j].frame
Within == /\ client.frame <= Composed
          /\ \A i \in 1..Len(Stream) :
               Told(Stream[i]) => client.frame <= Stream[i].frame /\ Stream[i].frame <= Composed

\* Reading the whole stream shows frame f or a later one.
Reached(f) == \/ client.frame >= f
              \/ \E j \in 1..Len(Stream) : Told(Stream[j]) /\ Stream[j].frame >= f

\* No frame is missing between them.
Contiguous == wants =>
  /\ \A i \in 1..Len(Stream), f \in Nat :
       Stream[i].k = "delta" /\ Stream[i].frame = f + 1 => ShownBefore(f, i)
  /\ \A f \in Nat : f <= Composed => Reached(f)

\* The last value in the stream, or else the one the client has read, is v.
Knows(v) ==
  \/ \E i \in 1..Len(Stream) : Carries(i) /\ Stream[i].val = v
  \/ client.val = v /\ \A i \in 1..Len(Stream) : Told(Stream[i]) => Stream[i].val = "same"

Fit == Alive => Ordered /\ Within /\ Contiguous /\ Knows(last)

IInv == Types /\ Hands /\ Joining /\ Owed /\ Fit

-----------------------------------------------------------------------------

\* What a message may be, by its kind.
LEMMA MsgKinds ==
  /\ \A m \in ToldMsgs : Told(m) /\ m \in Msgs
  /\ \A m \in Untold : ~Told(m) /\ m.k # "delta" /\ m \in Msgs
  /\ \A m \in Msgs : Told(m) => m \in ToldMsgs /\ m.frame \in Nat \ {0} /\ m.frame \in Nat
BY DEF Msgs, ToldMsgs, Untold, Notes, Told

\* The session's values are no marks.
LEMMA ValuesAreValues == \A v \in Values : v # "same"
BY ValuesAssumption DEF ValuesAssumption

\* In the beginning nothing is joined.
LEMMA InitHolds == Init => IInv
<1> SUFFICES ASSUME Init PROVE IInv
  OBVIOUS
<1>1. value \in Values
  BY ValuesAssumption DEF Init, ValuesAssumption
<1>2. /\ slice \in Seq(Rounds) /\ jobs \in Seq(Rounds) /\ out \in Seq(Msgs) /\ msg \in Seq(Msgs)
      /\ acts \in Seq(ActKinds)
  BY EmptySeq DEF Init
<1>3. res \in Untold /\ welcome.k = "welcome" /\ client \in [frame : Nat, val : Values \cup {"same"}]
  BY DEF Init, Untold, Notes, Note, Welcome, Unread
<1>4. /\ ui = "loop" /\ dirty = FALSE /\ joined = FALSE /\ lost = FALSE /\ last = value /\ frame = 1
      /\ attach = "idle" /\ status = "open" /\ msg = <<>> /\ reader = "none"
  BY DEF Init
<1>4a. Types
  <2>1. frame \in Nat \ {0}
    BY <1>4
  <2>1a. dirty \in BOOLEAN /\ joined \in BOOLEAN /\ lost \in BOOLEAN
    BY Zenon, <1>4
  <2>2. ui \in {"loop", "drain", "diff", "hook", "ended"}
        /\ attach \in {"idle", "register", "settle", "sending", "serve", "ended"}
    BY <1>4
  <2>3. last \in Values
    BY <1>1, <1>4
  <2> QED
    BY Zenon, <1>1, <1>2, <1>3, <2>1, <2>1a, <2>2, <2>3 DEF Types
<1>5. Hands /\ Joining /\ Owed
  BY DEF Init, Hands, Joining, Nowhere, Once, Owed
<1>6. Fit
  BY DEF Init, Fit, Alive
<1> QED
  BY <1>4a, <1>5, <1>6 DEF IInv

-----------------------------------------------------------------------------
(* The stream.                                                             *)

\* The Welcome is ahead of everything until it is in Send.
Ahead == IF attach \in {"register", "settle"} /\ joined THEN <<welcome>> ELSE <<>>

\* The stream is a sequence of messages.
LEMMA StreamIsSeq ==
  ASSUME IInv, Alive
  PROVE  /\ Ahead \in Seq(Msgs) /\ Ahead \o msg \in Seq(Msgs) /\ Stream = (Ahead \o msg) \o out
         /\ Stream \in Seq(Msgs) /\ Len(Stream) \in Nat
         /\ \A i \in 1..Len(Stream) : Stream[i] \in Msgs
<1>1. Ahead \in Seq(Msgs)
  <2>1. CASE attach \in {"register", "settle"} /\ joined
    <3>1. welcome \in Msgs
      BY <2>1, MsgKinds DEF IInv, Joining, Alive
    <3> QED
      BY <3>1, <2>1 DEF Ahead
  <2>2. CASE ~(attach \in {"register", "settle"} /\ joined)
    BY <2>2, EmptySeq DEF Ahead
  <2> QED
    BY <2>1, <2>2
<1>2. msg \in Seq(Msgs) /\ out \in Seq(Msgs)
  BY DEF IInv, Types
<1>3. Ahead \o msg \in Seq(Msgs)
  BY <1>1, <1>2, ConcatProperties
<1>4. Stream = (Ahead \o msg) \o out
  BY DEF Stream, Ahead
<1>5. Stream \in Seq(Msgs)
  BY <1>2, <1>3, <1>4, ConcatProperties
<1> QED
  BY <1>1, <1>3, <1>4, <1>5, LenProperties, ElementOfSeq

\* What is pushed comes last.
LEMMA PushedIsLast ==
  ASSUME IInv, Alive, NEW m \in Msgs, out' = Append(out, m),
         UNCHANGED <<attach, joined, welcome, msg>>
  PROVE  Stream' = Append(Stream, m)
<1>1. out \in Seq(Msgs) /\ <<m>> \in Seq(Msgs)
  BY DEF IInv, Types
<1>2. Stream' = (Ahead \o msg) \o (out \o <<m>>)
  BY <1>1, AppendIsConcat DEF Stream, Ahead
<1>3. PICK ahead \in Seq(Msgs) : ahead = Ahead \o msg /\ Stream = ahead \o out
  BY StreamIsSeq
<1>4. (ahead \o out) \o <<m>> = ahead \o (out \o <<m>>)
  BY <1>1, ConcatAssociative
<1>5. Stream' = Stream \o <<m>>
  BY <1>2, <1>3, <1>4
<1> QED
  BY <1>5, StreamIsSeq, AppendIsConcat

\* A longer stream says all that it said before.
LEMMA LongerStream ==
  ASSUME IInv, Alive, NEW m \in Msgs, Stream' = Append(Stream, m), client' = client
  PROVE  /\ Len(Stream) \in Nat /\ Len(Stream') = Len(Stream) + 1 /\ Stream'[Len(Stream) + 1] = m
         /\ \A i \in 1..Len(Stream) : Stream'[i] = Stream[i]
         /\ \A i \in 1..Len(Stream') : i \in 1..Len(Stream) \/ i = Len(Stream) + 1
         /\ \A f \in Nat, i \in 1..Len(Stream) : ShownBefore(f, i) => ShownBefore(f, i)'
         /\ \A f \in Nat : Reached(f) =>
              \A i : i = Len(Stream) + 1 => ShownBefore(f, i)'
         /\ \A f \in Nat : Reached(f) => Reached(f)'
         /\ \A f \in Nat : Told(m) /\ m.frame >= f => Reached(f)'
<1>1. /\ Len(Stream) \in Nat /\ Len(Stream') = Len(Stream) + 1 /\ Stream'[Len(Stream) + 1] = m
      /\ \A i \in 1..Len(Stream) : Stream'[i] = Stream[i]
  BY StreamIsSeq, AppendProperties
<1>2. \A i \in 1..Len(Stream) : \A j \in 1..(i - 1) : j \in 1..Len(Stream)
  BY <1>1
<1>3. \A f \in Nat, i \in 1..Len(Stream) : ShownBefore(f, i) => ShownBefore(f, i)'
  BY <1>1, <1>2 DEF ShownBefore
<1>4. \A j \in 1..Len(Stream) : j \in 1..Len(Stream') /\ j \in 1..(Len(Stream') - 1)
  BY <1>1
<1>5. \A f \in Nat : Reached(f) => Reached(f)'
  BY <1>1, <1>4 DEF Reached
<1>6. Len(Stream) + 1 \in 1..Len(Stream')
  BY <1>1
<1>7. \A f \in Nat : Told(m) /\ m.frame >= f => Reached(f)'
  BY <1>1, <1>6 DEF Reached
<1>8. \A i \in 1..Len(Stream') : i \in 1..Len(Stream) \/ i = Len(Stream) + 1
  BY <1>1
<1>9. ASSUME NEW f \in Nat, Reached(f), NEW i, i = Len(Stream) + 1
      PROVE  ShownBefore(f, i)'
  BY <1>1, <1>9 DEF ShownBefore, Reached
<1> QED
  BY <1>1, <1>3, <1>5, <1>7, <1>8, <1>9

-----------------------------------------------------------------------------
(* What the steps do to the stream.                                        *)

\* A step that leaves the stream and what is owed as they were.
LEMMA StillFits ==
  ASSUME IInv, Alive' => /\ Alive
                         /\ Stream' = Stream /\ Composed' = Composed
                         /\ UNCHANGED <<client, last, wants>>
  PROVE  Fit'
<1> SUFFICES ASSUME Alive' PROVE (Ordered /\ Within /\ Contiguous /\ Knows(last))'
  BY DEF Fit
<1>1. /\ Ordered /\ Within /\ Contiguous /\ Knows(last)
      /\ Stream' = Stream /\ Composed' = Composed /\ UNCHANGED <<client, last, wants>>
  BY DEF IInv, Fit
<1>2. Ordered' /\ Within'
  BY <1>1 DEF Ordered, Within
<1>3. Contiguous'
  BY <1>1 DEF Contiguous, ShownBefore, Reached
<1>4. Knows(last)'
  BY <1>1 DEF Knows, Carries
<1> QED
  BY <1>2, <1>3, <1>4

\* A step that appends what shows no frame.
LEMMA NoteFits ==
  ASSUME IInv, Alive, NEW m \in Untold, Stream' = Append(Stream, m), Composed' = Composed,
         UNCHANGED <<client, last, wants>>
  PROVE  Fit'
<1>1. Ordered /\ Within /\ Contiguous /\ Knows(last)
  BY DEF IInv, Fit
<1>2. m \in Msgs /\ ~Told(m) /\ m.k # "delta"
  BY MsgKinds
<1>3. /\ Len(Stream) \in Nat /\ Len(Stream') = Len(Stream) + 1 /\ Stream'[Len(Stream) + 1] = m
      /\ \A i \in 1..Len(Stream) : Stream'[i] = Stream[i]
      /\ \A i \in 1..Len(Stream') : i \in 1..Len(Stream) \/ i = Len(Stream) + 1
  BY <1>2, LongerStream
<1>4. \A i \in 1..Len(Stream') : Told(Stream'[i]) => i \in 1..Len(Stream) /\ Told(Stream[i])
  BY <1>2, <1>3
<1>5. Ordered' /\ Within'
  BY <1>1, <1>3, <1>4 DEF Ordered, Within
<1>6. Contiguous'
  BY <1>1, <1>2, <1>3, LongerStream DEF Contiguous
<1>7. \A i \in 1..Len(Stream) : i \in 1..Len(Stream') /\ Stream'[i] = Stream[i]
  BY <1>3
<1>9. \A i \in 1..Len(Stream) : Carries(i) => Carries(i)'
  <2> SUFFICES ASSUME NEW i \in 1..Len(Stream), Carries(i)
               PROVE  Carries(i)'
    OBVIOUS
  <2>1. \A j \in (i + 1)..Len(Stream') : (j \in (i + 1)..Len(Stream) /\ Stream'[j] = Stream[j]) \/ ~Told(Stream'[j])
    BY <1>2, <1>3
  <2> QED
    BY <2>1, <1>7 DEF Carries
<1>10. Knows(last)'
  BY <1>1, <1>3, <1>4, <1>7, <1>9 DEF Knows
<1> QED
  BY <1>5, <1>6, <1>10 DEF Fit

\* A delta of the frame that was composed, with the value if it has changed.
LEMMA DeltaFits ==
  ASSUME IInv, Alive, NEW m \in ToldMsgs, Stream' = Append(Stream, m),
         m.k = "delta", m.frame = Composed + 1, Composed' = Composed + 1, Composed \in Nat,
         last' = value, m.val = IF last = value THEN "same" ELSE value,
         UNCHANGED <<client, wants>>
  PROVE  Fit'
<1>1. Ordered /\ Within /\ Contiguous /\ Knows(last)
  BY DEF IInv, Fit
<1>2. m \in Msgs /\ Told(m)
  BY MsgKinds
<1>3. /\ Len(Stream) \in Nat /\ Len(Stream') = Len(Stream) + 1 /\ Stream'[Len(Stream) + 1] = m
      /\ \A i \in 1..Len(Stream) : Stream'[i] = Stream[i]
      /\ \A i \in 1..Len(Stream') : i \in 1..Len(Stream) \/ i = Len(Stream) + 1
  BY <1>2, LongerStream
<1>4. client.frame \in Nat /\ \A i \in 1..Len(Stream) : Told(Stream[i]) => Stream[i].frame \in Nat
  BY StreamIsSeq, MsgKinds DEF IInv, Types
<1>5. Ordered'
  <2> SUFFICES ASSUME NEW i \in 1..Len(Stream'), NEW j \in 1..Len(Stream'), i < j,
                      Told(Stream'[i]), Told(Stream'[j])
               PROVE  Stream'[i].frame <= Stream'[j].frame
    BY DEF Ordered
  <2>1. i \in 1..Len(Stream)
    BY <1>3
  <2>2. CASE j \in 1..Len(Stream)
    BY <2>1, <2>2, <1>1, <1>3 DEF Ordered
  <2>3. CASE j = Len(Stream) + 1
    <3>1. Stream[i].frame <= Composed /\ Stream[i].frame \in Nat /\ Stream'[i] = Stream[i]
      BY <2>1, <1>1, <1>3, <1>4 DEF Within
    <3> QED
      BY <3>1, <2>3, <1>3
  <2> QED
    BY <2>2, <2>3, <1>3
<1>6. Within'
  <2>1. client.frame <= Composed + 1
    BY <1>1, <1>4 DEF Within
  <2>2. \A i \in 1..Len(Stream) : Told(Stream[i]) =>
          client.frame <= Stream[i].frame /\ Stream[i].frame <= Composed + 1
    BY <1>1, <1>4 DEF Within
  <2> QED
    BY <2>1, <2>2, <1>3 DEF Within
<1>7. Contiguous'
  <2> SUFFICES ASSUME wants
               PROVE  /\ \A i \in 1..Len(Stream'), f \in Nat :
                           Stream'[i].k = "delta" /\ Stream'[i].frame = f + 1 => ShownBefore(f, i)'
                      /\ \A f \in Nat : f <= Composed + 1 => Reached(f)'
    BY DEF Contiguous
  <2>1. \A f \in Nat : f <= Composed + 1 => Reached(f)'
    BY <1>2, LongerStream
  <2>2. ASSUME NEW i \in 1..Len(Stream'), NEW f \in Nat,
               Stream'[i].k = "delta", Stream'[i].frame = f + 1
        PROVE  ShownBefore(f, i)'
    <3>1. CASE i \in 1..Len(Stream)
      BY <2>2, <3>1, <1>1, <1>2, <1>3, LongerStream DEF Contiguous
    <3>2. CASE i = Len(Stream) + 1
      <4>1. f = Composed
        BY <2>2, <3>2, <1>3
      <4>2. Reached(f)
        BY <4>1, <1>1 DEF Contiguous
      <4> QED
        BY <4>2, <3>2, <1>2, LongerStream
    <3> QED
      BY <3>1, <3>2, <1>3
  <2> QED
    BY <2>1, <2>2
<1>8. CASE last = value
  <2>1. \A i \in 1..Len(Stream) : i \in 1..Len(Stream') /\ Stream'[i] = Stream[i]
    BY <1>3
  <2>3. \A i \in 1..Len(Stream) : Carries(i) => Carries(i)'
    <3> SUFFICES ASSUME NEW i \in 1..Len(Stream), Carries(i)
                 PROVE  Carries(i)'
      OBVIOUS
    <3>1. \A j \in (i + 1)..Len(Stream') :
            (j \in (i + 1)..Len(Stream) /\ Stream'[j] = Stream[j]) \/ Stream'[j].val = "same"
      BY <1>3, <1>8
    <3> QED
      BY <3>1, <2>1 DEF Carries
  <2>2. \A i \in 1..Len(Stream') : i \in 1..Len(Stream) \/ Stream'[i].val = "same"
    BY <1>3, <1>8
  <2>4. Knows(last)'
    BY <1>1, <1>3, <1>8, <2>1, <2>2, <2>3 DEF Knows
  <2> QED
    BY <1>5, <1>6, <1>7, <2>4 DEF Fit
<1>9. CASE last # value
  <2>1. value # "same" /\ m.val = value
    BY <1>9, ValuesAreValues DEF IInv, Types
  <2>2. Len(Stream') \in 1..Len(Stream') /\ \A j : j \notin (Len(Stream') + 1)..Len(Stream')
    BY <1>3
  <2>3. PICK i : i = Len(Stream')
    OBVIOUS
  <2>4. Carries(i)'
    BY <2>1, <2>2, <2>3, <1>2, <1>3 DEF Carries
  <2>5. Knows(last)'
    BY <2>1, <2>2, <2>3, <2>4, <1>3 DEF Knows
  <2> QED
    BY <1>5, <1>6, <1>7, <2>5 DEF Fit
<1> QED
  BY <1>8, <1>9

\* A push of a note: in the queue, or lost, or to nobody.
LEMMA BroadcastFits ==
  ASSUME IInv, NEW m \in Untold, Broadcast(m), Composed' = Composed,
         UNCHANGED <<client, last, wants, attach, joined, welcome, msg, status>>
  PROVE  Fit'
<1>1. CASE joined /\ Len(out) < Cap
  <2>1. out' = Append(out, m) /\ lost' = lost
    BY <1>1 DEF Broadcast, Push
  <2>2. CASE Alive
    <3>1. m \in Msgs
      BY MsgKinds
    <3>2. Stream' = Append(Stream, m)
      BY <2>1, <2>2, <3>1, PushedIsLast
    <3> QED
      BY <2>2, <3>2, NoteFits
  <2>3. CASE ~Alive
    BY <2>1, <2>3 DEF Fit, Alive
  <2> QED
    BY <2>2, <2>3
<1>2. CASE joined /\ ~(Len(out) < Cap)
  BY <1>2 DEF Broadcast, Push, Fit, Alive
<1>3. CASE ~joined
  BY <1>3 DEF Fit, Alive
<1> QED
  BY <1>1, <1>2, <1>3

-----------------------------------------------------------------------------
(* The steps that leave the stream alone.                                  *)

\* What the invariant speaks of, the UI goroutine's place apart.
core == <<slice, jobs, dirty, value, frame, joined, last, out, lost, wants, attach, msg, welcome,
          status, client>>

\* A step of the reader, the client or the transport that posts nothing.
LEMMA QuietKeeps ==
  ASSUME IInv, UNCHANGED core, ui' = ui \/ (ui = "loop" /\ ui' = "ended"),
         acts' \in Seq(ActKinds), res' \in Untold, reader = "none" => reader' = "none"
  PROVE  IInv'
<1>1. Types'
  BY DEF IInv, Types, core
<1>2. Hands'
  BY DEF IInv, Hands, core
<1>3. Joining'
  BY DEF IInv, Joining, Nowhere, Once, Pending, First, core
<1>4. Owed'
  BY DEF IInv, Owed, core
<1>5. Fit'
  <2>1. Stream' = Stream /\ Composed' = Composed
    BY DEF Stream, Composed, core
  <2> QED
    BY <2>1, StillFits DEF Alive, core
<1> QED
  BY <1>1, <1>2, <1>3, <1>4, <1>5 DEF IInv

\* A closure is posted that does not register the session.
LEMMA OtherPost ==
  ASSUME IInv, NEW r \in Rounds, r # First, Post(r), slice' = slice
  PROVE  /\ jobs' \in Seq(Rounds)
         /\ Nowhere => Nowhere'
         /\ Once => Once'
         /\ Pending(First) => Pending(First)'
<1>1. jobs' = Append(jobs, r) /\ jobs \in Seq(Rounds)
  BY DEF Post, IInv, Types
<1>2. /\ jobs' \in Seq(Rounds) /\ Len(jobs) \in Nat /\ Len(jobs') = Len(jobs) + 1
      /\ jobs'[Len(jobs) + 1] = r
      /\ \A j \in 1..Len(jobs) : jobs'[j] = jobs[j]
      /\ \A j \in 1..Len(jobs') : j \in 1..Len(jobs) \/ j = Len(jobs) + 1
  BY <1>1, AppendProperties, LenProperties
<1>3. \A j \in 1..Len(jobs') : jobs'[j] = First => j \in 1..Len(jobs) /\ jobs[j] = First
  BY <1>2
<1>4. \A j \in 1..Len(jobs) : j \in 1..Len(jobs') /\ jobs'[j] = jobs[j]
  BY <1>2
<1>5. Nowhere => Nowhere'
  BY <1>3 DEF Nowhere, First
<1>6. Once => Once'
  BY <1>3 DEF Once, First
<1>7. Pending(First) => Pending(First)'
  BY <1>4 DEF Pending, First
<1> QED
  BY <1>2, <1>5, <1>6, <1>7

\* A closure of the reader's is posted.
LEMMA ReaderPosts ==
  ASSUME IInv, UNCHANGED <<ui, slice, dirty, value, frame, joined, last, out, lost, wants, attach, msg,
                           welcome, status, client>>,
         NEW k \in Nat, NEW i \in {1, 2}, Post(Round("reader", k, i)),
         acts' \in Seq(ActKinds), res' \in Untold, reader = "none" => reader' = "none"
  PROVE  IInv'
<1>1. PICK r \in Rounds : r = Round("reader", k, i) /\ r # First
  BY DEF Rounds, Round, First
<1>2. /\ jobs' \in Seq(Rounds)
      /\ Nowhere => Nowhere'
      /\ Once => Once'
      /\ Pending(First) => Pending(First)'
  BY <1>1, OtherPost
<1>3. Types'
  BY <1>2 DEF IInv, Types
<1>4. Hands'
  BY DEF IInv, Hands
<1>5. Joining'
  BY <1>2 DEF IInv, Joining
<1>6. Owed'
  BY DEF IInv, Owed
<1>7. Fit'
  <2>1. Stream' = Stream /\ Composed' = Composed
    BY DEF Stream, Composed
  <2> QED
    BY <2>1, StillFits DEF Alive
<1> QED
  BY <1>3, <1>4, <1>5, <1>6, <1>7 DEF IInv

\* Attach returns: the session is no longer alive.
LEMMA ReturnKeeps ==
  ASSUME IInv, NEW how, how # "open", NEW left, Return(how, left), out' = out
  PROVE  IInv'
<1>1. Types'
  <2>1. joined' \in BOOLEAN /\ msg' \in Seq(Msgs) /\ client' \in [frame : Nat, val : Values \cup {"same"}]
    BY EmptySeq DEF IInv, Types, Return, Unread
  <2> QED
    BY <2>1 DEF IInv, Types, Return, uiVars, readerVars
<1>2. Hands'
  BY DEF IInv, Hands, Return, uiVars
<1>3. Joining'
  BY DEF Joining, Return
<1>4. Owed'
  BY DEF IInv, Owed, Return, uiVars
<1>5. Fit'
  BY DEF Fit, Alive, Return
<1> QED
  BY <1>1, <1>2, <1>3, <1>4, <1>5 DEF IInv

-----------------------------------------------------------------------------
(* Attach's steps.                                                         *)

\* The closure that registers the session is posted.
LEMMA SubscribeKeeps == IInv /\ Subscribe => IInv'
<1> SUFFICES ASSUME IInv, Subscribe PROVE IInv'
  OBVIOUS
<1>1. /\ attach = "idle" /\ attach' = "register" /\ Post(First)
      /\ UNCHANGED <<ui, slice, dirty, value, frame, joined, last, out, lost, wants, msg, welcome,
                     status, client, reader, acts, res>>
  BY DEF Subscribe, uiSide, uiVars, readerVars, clientVars, First
<1>2. jobs' = Append(jobs, First) /\ jobs \in Seq(Rounds) /\ First \in Rounds
  BY <1>1 DEF Post, IInv, Types, First, Round, Rounds
<1>3. /\ jobs' \in Seq(Rounds) /\ Len(jobs) \in Nat /\ Len(jobs') = Len(jobs) + 1
      /\ jobs'[Len(jobs) + 1] = First
      /\ \A j \in 1..Len(jobs) : jobs'[j] = jobs[j]
      /\ \A j \in 1..Len(jobs') : j \in 1..Len(jobs) \/ j = Len(jobs) + 1
  BY <1>2, AppendProperties, LenProperties
<1>4. status = "open" /\ ~joined /\ Nowhere
  BY <1>1 DEF IInv, Hands, Joining
<1>5. Types'
  BY <1>1, <1>3 DEF IInv, Types
<1>6. Hands'
  BY <1>1 DEF IInv, Hands
<1>7. \A j \in 1..Len(jobs') : jobs'[j] = First => j = Len(jobs) + 1
  BY <1>3, <1>4 DEF Nowhere
<1>8. Once'
  BY <1>1, <1>4, <1>7 DEF Once, Nowhere, First
<1>9. Pending(First)'
  BY <1>3 DEF Pending, First
<1>10. Joining'
  BY <1>1, <1>4, <1>8, <1>9 DEF IInv, Joining
<1>11. Owed' /\ Fit'
  BY <1>1, <1>4 DEF Owed, Fit, Alive
<1> QED
  BY <1>5, <1>6, <1>10, <1>11 DEF IInv

\* The second round follows the first: the session has joined.
LEMMA RegisteredKeeps == IInv /\ Registered => IInv'
<1> SUFFICES ASSUME IInv, Registered PROVE IInv'
  OBVIOUS
<1>1. /\ attach = "register" /\ attach' = "settle" /\ Post(Round("attach", 0, 2)) /\ ~Pending(First)
      /\ UNCHANGED <<ui, slice, dirty, value, frame, joined, last, out, lost, wants, msg, welcome,
                     status, client, reader, acts, res>>
  BY DEF Registered, uiSide, uiVars, readerVars, clientVars, First
<1>1a. Round("attach", 0, 2) \in Rounds
  BY DEF Rounds, Round
<1>1b. Round("attach", 0, 2) # First
  BY DEF Round, First
<1>2. PICK r \in Rounds : r = Round("attach", 0, 2) /\ r # First
  BY <1>1a, <1>1b
<1>3. /\ jobs' \in Seq(Rounds)
      /\ Nowhere => Nowhere'
      /\ Once => Once'
  BY <1>1, <1>2, OtherPost
<1>4. status = "open" /\ joined /\ Nowhere /\ Once
  BY <1>1 DEF IInv, Hands, Joining, Types
<1>5. Types'
  BY <1>1, <1>3 DEF IInv, Types
<1>6. Hands'
  BY <1>1 DEF IInv, Hands
<1>7. Joining'
  BY <1>1, <1>3, <1>4 DEF IInv, Joining
<1>8. Owed'
  BY <1>1 DEF IInv, Owed
<1>9. Fit'
  <2>1. Stream' = Stream /\ Composed' = Composed
    BY <1>1 DEF Stream, Composed
  <2> QED
    BY <1>1, <2>1, StillFits DEF Alive
<1> QED
  BY <1>5, <1>6, <1>7, <1>8, <1>9 DEF IInv

\* A sequence that is not empty is its head and its tail.
LEMMA HeadThenTail ==
  ASSUME NEW S, NEW s \in Seq(S), s # <<>>
  PROVE  /\ <<Head(s)>> \o Tail(s) = s /\ Head(s) = s[1] /\ Len(s) \in Nat \ {0}
         /\ Tail(s) \in Seq(S) /\ Head(s) \in S
<1>1. Len(s) \in Nat \ {0}
  BY EmptySeq
<1>2. SubSeq(s, 1, Len(s)) = <<s[1]>> \o SubSeq(s, 2, Len(s))
  <2>1. 1 \in 1..Len(s) /\ Len(s) \in 1..Len(s) /\ 1 + 1 = 2
    BY <1>1
  <2> QED
    BY <2>1, SubSeqRecursiveFirst
<1>3. SubSeq(s, 1, Len(s)) = s /\ Tail(s) = SubSeq(s, 2, Len(s))
  BY SubSeqFull, TailIsSubSeq
<1>4. Head(s) = s[1]
  OBVIOUS
<1> QED
  BY <1>1, <1>2, <1>3, <1>4, HeadTailProperties

\* What the stream is when Attach serves or sends.
LEMMA StreamServing ==
  ASSUME IInv, attach \in {"sending", "serve"}
  PROVE  /\ attach = "serve" => Stream = out
         /\ \A m \in Msgs : msg = <<m>> => Stream = <<m>> \o out
<1>1. out \in Seq(Msgs) /\ msg \in Seq(Msgs)
  BY DEF IInv, Types
<1>2. Stream = (<<>> \o msg) \o out
  BY DEF Stream
<1>3. <<>> \o msg = msg /\ <<>> \o out = out
  BY <1>1, ConcatEmptySeq
<1>4. attach = "serve" => msg = <<>>
  BY DEF IInv, Hands
<1> QED
  BY <1>2, <1>3, <1>4

\* The Welcome goes first.
LEMMA SendWelcomeKeeps == IInv /\ SendWelcome => IInv'
<1> SUFFICES ASSUME IInv, SendWelcome PROVE IInv'
  OBVIOUS
<1>1. /\ attach = "settle" /\ attach' = "sending" /\ msg' = <<welcome>>
      /\ UNCHANGED <<ui, slice, jobs, dirty, value, frame, joined, last, out, lost, wants, welcome,
                     status, client, reader, acts, res>>
  BY DEF SendWelcome, uiSide, uiVars, readerVars, clientVars
<1>2. status = "open" /\ joined /\ Nowhere /\ Once /\ welcome \in ToldMsgs /\ msg = <<>>
  BY <1>1 DEF IInv, Hands, Joining, Types
<1>3. welcome \in Msgs
  BY <1>2, MsgKinds
<1>4. msg' \in Seq(Msgs)
  BY <1>1, <1>3
<1>5. Types'
  BY <1>1, <1>4 DEF IInv, Types
<1>6. Hands'
  BY <1>1, <1>3 DEF IInv, Hands
<1>7. Joining'
  BY <1>1, <1>2 DEF IInv, Joining, Nowhere, Once, First
<1>8. Owed'
  BY <1>1 DEF IInv, Owed
<1>9. Stream' = Stream
  <2>1. Stream = (<<welcome>> \o <<>>) \o out /\ Stream' = (<<>> \o <<welcome>>) \o out
    BY <1>1, <1>2 DEF Stream
  <2>2. <<welcome>> \o <<>> = <<welcome>> /\ <<>> \o <<welcome>> = <<welcome>>
    BY <1>1, <1>4, ConcatEmptySeq
  <2> QED
    BY <2>1, <2>2
<1>10. Fit'
  BY <1>1, <1>9, StillFits DEF Alive, Composed
<1> QED
  BY <1>5, <1>6, <1>7, <1>8, <1>10 DEF IInv

\* Attach takes the oldest message in the queue.
LEMMA SeeOutKeeps == IInv /\ SeeOut => IInv'
<1> SUFFICES ASSUME IInv, SeeOut PROVE IInv'
  OBVIOUS
<1>1. /\ attach = "serve" /\ attach' = "sending" /\ out # <<>>
      /\ msg' = <<Head(out)>> /\ out' = Tail(out)
      /\ UNCHANGED <<ui, slice, jobs, dirty, value, frame, joined, last, lost, wants, welcome,
                     status, client, reader, acts, res>>
  BY DEF SeeOut, uiSide, uiVars, readerVars, clientVars
<1>2. status = "open" /\ joined /\ Nowhere /\ Once /\ msg = <<>>
  BY <1>1 DEF IInv, Hands, Joining, Types
<1>3. out \in Seq(Msgs)
  BY DEF IInv, Types
<1>4. <<Head(out)>> \o Tail(out) = out /\ Head(out) \in Msgs /\ Tail(out) \in Seq(Msgs)
  BY <1>1, <1>3, HeadThenTail
<1>5. msg' \in Seq(Msgs)
  BY <1>1, <1>4
<1>6. Types'
  BY <1>1, <1>4, <1>5 DEF IInv, Types
<1>7. Hands'
  BY <1>1, <1>4 DEF IInv, Hands
<1>8. Joining'
  BY <1>1, <1>2 DEF IInv, Joining, Nowhere, Once, First
<1>9. Owed'
  BY <1>1 DEF IInv, Owed
<1>10. Stream' = Stream
  <2>1. Stream = out
    BY <1>1, StreamServing
  <2>2. Stream' = (<<>> \o <<Head(out)>>) \o Tail(out)
    BY <1>1 DEF Stream
  <2>3. <<>> \o <<Head(out)>> = <<Head(out)>>
    BY <1>1, <1>5, ConcatEmptySeq
  <2> QED
    BY <2>1, <2>2, <2>3, <1>4
<1>11. Fit'
  BY <1>1, <1>10, StillFits DEF Alive, Composed
<1> QED
  BY <1>6, <1>7, <1>8, <1>9, <1>11 DEF IInv

\* The client takes the first message of the stream.
LEMMA ReadFits ==
  ASSUME IInv, Alive, NEW m \in Msgs, NEW rest \in Seq(Msgs),
         Stream = <<m>> \o rest, Stream' = rest, Composed' = Composed,
         UNCHANGED <<last, wants>>, client.frame \in Nat,
         client' = IF Told(m) THEN [frame |-> m.frame,
                                    val |-> IF m.val = "same" THEN client.val ELSE m.val]
                   ELSE client
  PROVE  Fit'
<1>1. Ordered /\ Within /\ Contiguous /\ Knows(last)
  BY DEF IInv, Fit
<1>2. <<m>> \in Seq(Msgs) /\ Len(<<m>>) = 1 /\ <<m>>[1] = m /\ Len(rest) \in Nat
  BY LenProperties
<1>3. /\ Len(Stream) = 1 + Len(rest)
      /\ \A i \in 1..1 + Len(rest) : Stream[i] = IF i <= 1 THEN <<m>>[i] ELSE rest[i - 1]
  BY <1>2, ConcatProperties
<1>4. /\ Stream[1] = m /\ 1 \in 1..Len(Stream)
      /\ Len(Stream') \in Nat /\ Len(Stream) = Len(Stream') + 1
      /\ \A i \in 1..Len(Stream') : i + 1 \in 1..Len(Stream) /\ Stream[i + 1] = Stream'[i]
      /\ \A i \in 1..Len(Stream) : i = 1 \/ (i - 1 \in 1..Len(Stream') /\ Stream[i] = Stream'[i - 1])
  BY <1>2, <1>3
<1>5. \A i \in 1..Len(Stream) : Told(Stream[i]) => Stream[i].frame \in Nat
  BY StreamIsSeq, MsgKinds
<1>6. /\ Told(m) => client'.frame = m.frame /\ m.frame \in Nat /\ client.frame <= m.frame
      /\ ~Told(m) => client'.frame = client.frame
      /\ client.frame <= client'.frame /\ client'.frame \in Nat
  <2>1. Told(m) => m.frame \in Nat /\ client.frame <= m.frame
    BY <1>1, <1>4, <1>5 DEF Within
  <2>2. CASE Told(m)
    <3>1. client'.frame = m.frame
      BY <2>2
    <3> QED
      BY <2>1, <2>2, <3>1
  <2>3. CASE ~Told(m)
    <3>1. client'.frame = client.frame
      BY <2>3
    <3> QED
      BY <2>3, <3>1
  <2> QED
    BY <2>2, <2>3
<1>7. Ordered'
  <2> SUFFICES ASSUME NEW i \in 1..Len(Stream'), NEW j \in 1..Len(Stream'), i < j,
                      Told(Stream'[i]), Told(Stream'[j])
               PROVE  Stream'[i].frame <= Stream'[j].frame
    BY DEF Ordered
  <2>1. i + 1 < j + 1
    OBVIOUS
  <2> QED
    BY <2>1, <1>1, <1>4 DEF Ordered
<1>8. Within'
  <2>1. client'.frame <= Composed
    BY <1>1, <1>4, <1>6 DEF Within
  <2>2. ASSUME NEW i \in 1..Len(Stream'), Told(Stream'[i])
        PROVE  client'.frame <= Stream'[i].frame /\ Stream'[i].frame <= Composed
    <3>1. Told(Stream[i + 1]) /\ Stream[i + 1] = Stream'[i] /\ i + 1 \in 1..Len(Stream) /\ 1 < i + 1
      BY <2>2, <1>4
    <3>2. CASE Told(m)
      BY <3>1, <3>2, <1>1, <1>4, <1>6 DEF Within, Ordered
    <3>3. CASE ~Told(m)
      BY <3>1, <3>3, <1>1, <1>6 DEF Within
    <3> QED
      BY <3>2, <3>3
  <2> QED
    BY <2>1, <2>2 DEF Within
<1>9. ASSUME NEW f \in Nat, NEW j \in 1..Len(Stream), Told(Stream[j]), Stream[j].frame >= f
      PROVE  \/ client'.frame >= f
             \/ j - 1 \in 1..Len(Stream') /\ Told(Stream'[j - 1]) /\ Stream'[j - 1].frame >= f
  <2>1. CASE j = 1
    BY <2>1, <1>4, <1>6, <1>9
  <2>2. CASE j # 1
    BY <2>2, <1>4, <1>9
  <2> QED
    BY <2>1, <2>2
<1>10. ASSUME NEW f \in Nat, client.frame >= f
       PROVE  client'.frame >= f
  BY <1>6, <1>10
<1>11. Contiguous'
  <2> SUFFICES ASSUME wants
               PROVE  /\ \A i \in 1..Len(Stream'), f \in Nat :
                           Stream'[i].k = "delta" /\ Stream'[i].frame = f + 1 => ShownBefore(f, i)'
                      /\ \A f \in Nat : f <= Composed => Reached(f)'
    BY DEF Contiguous
  <2>1. \A f \in Nat : f <= Composed => Reached(f)'
    BY <1>1, <1>9, <1>10 DEF Contiguous, Reached
  <2>2. ASSUME NEW i \in 1..Len(Stream'), NEW f \in Nat,
               Stream'[i].k = "delta", Stream'[i].frame = f + 1
        PROVE  ShownBefore(f, i)'
    <3>1. i + 1 \in 1..Len(Stream) /\ Stream[i + 1].k = "delta" /\ Stream[i + 1].frame = f + 1
      BY <2>2, <1>4
    <3>2. client.frame >= f \/ \E j \in 1..((i + 1) - 1) : Told(Stream[j]) /\ Stream[j].frame >= f
      BY <3>1, <1>1 DEF Contiguous, ShownBefore
    <3>3. CASE client.frame >= f
      BY <3>3, <1>10 DEF ShownBefore
    <3>4. ASSUME NEW j \in 1..((i + 1) - 1), Told(Stream[j]), Stream[j].frame >= f
          PROVE  ShownBefore(f, i)'
      <4>1. j \in 1..Len(Stream)
        BY <3>1
      <4>2. \/ client'.frame >= f
            \/ j - 1 \in 1..Len(Stream') /\ Told(Stream'[j - 1]) /\ Stream'[j - 1].frame >= f
        BY <3>4, <4>1, <1>9
      <4>3. j - 1 \in 1..Len(Stream') => j - 1 \in 1..(i - 1)
        BY <3>1
      <4> QED
        BY <4>2, <4>3 DEF ShownBefore
    <3> QED
      BY <3>2, <3>3, <3>4
  <2> QED
    BY <2>1, <2>2
<1>12. Knows(last)'
  <2>1. CASE client.val = last /\ \A i \in 1..Len(Stream) : Told(Stream[i]) => Stream[i].val = "same"
    <3>1. client'.val = client.val
      BY <2>1, <1>4
    <3>2. \A i \in 1..Len(Stream') : Told(Stream'[i]) => Stream'[i].val = "same"
      BY <2>1, <1>4
    <3> QED
      BY <2>1, <3>1, <3>2 DEF Knows
  <2>2. ASSUME NEW i \in 1..Len(Stream), Carries(i), Stream[i].val = last
        PROVE  Knows(last)'
    <3>1. /\ Told(Stream[i]) /\ Stream[i].val # "same"
          /\ \A j \in (i + 1)..Len(Stream) : Told(Stream[j]) => Stream[j].val = "same"
      BY <2>2 DEF Carries
    <3>2. CASE i = 1
      <4>1. client'.val = last
        BY <3>1, <3>2, <2>2, <1>4
      <4>2. \A j \in 1..Len(Stream') : Told(Stream'[j]) => Stream'[j].val = "same"
        <5> SUFFICES ASSUME NEW j \in 1..Len(Stream'), Told(Stream'[j])
                     PROVE  Stream'[j].val = "same"
          OBVIOUS
        <5>1. j + 1 \in (i + 1)..Len(Stream) /\ Stream[j + 1] = Stream'[j]
          BY <3>2, <1>4
        <5> QED
          BY <5>1, <3>1
      <4> QED
        BY <4>1, <4>2 DEF Knows
    <3>3. CASE i # 1
      <4>1. i - 1 \in 1..Len(Stream') /\ Stream'[i - 1] = Stream[i]
        BY <3>3, <1>4
      <4>2. PICK h \in 1..Len(Stream') : h = i - 1
        BY <4>1
      <4>3. \A j \in (h + 1)..Len(Stream') : Told(Stream'[j]) => Stream'[j].val = "same"
        <5> SUFFICES ASSUME NEW j \in (h + 1)..Len(Stream'), Told(Stream'[j])
                     PROVE  Stream'[j].val = "same"
          OBVIOUS
        <5>1. j + 1 \in (i + 1)..Len(Stream) /\ Stream[j + 1] = Stream'[j]
          BY <4>2, <1>4
        <5> QED
          BY <5>1, <3>1
      <4>4. Carries(h)' /\ Stream'[h].val = last
        BY <4>1, <4>2, <4>3, <3>1, <2>2 DEF Carries
      <4> QED
        BY <4>4, <2>2 DEF Knows
    <3> QED
      BY <3>2, <3>3
  <2> QED
    BY <2>1, <2>2, <1>1 DEF Knows
<1> QED
  BY <1>7, <1>8, <1>11, <1>12 DEF Fit

\* stream.Send returns.
LEMMA SentKeeps == IInv /\ Sent => IInv'
<1> SUFFICES ASSUME IInv, Sent PROVE IInv'
  OBVIOUS
<1>1. /\ attach = "sending" /\ attach' = "serve" /\ msg' = <<>>
      /\ client' = IF Told(Head(msg))
                   THEN [frame |-> Head(msg).frame,
                         val |-> IF Head(msg).val = "same" THEN client.val ELSE Head(msg).val]
                   ELSE client
      /\ UNCHANGED <<ui, slice, jobs, dirty, value, frame, joined, last, out, lost, wants, welcome,
                     status, acts, res>>
  BY DEF Sent, uiSide, uiVars, clientVars
<1>2. PICK m \in Msgs : msg = <<m>>
  BY <1>1 DEF IInv, Hands
<1>3. client' = IF Told(m) THEN [frame |-> m.frame,
                                 val |-> IF m.val = "same" THEN client.val ELSE m.val]
                ELSE client
  BY <1>1, <1>2
<1>4. status = "open" /\ joined /\ Nowhere /\ Once
  BY <1>1 DEF IInv, Hands, Joining, Types
<1>5. client' \in [frame : Nat, val : Values \cup {"same"}]
  <2>1. client \in [frame : Nat, val : Values \cup {"same"}]
    BY DEF IInv, Types
  <2>2. Told(m) => m \in ToldMsgs
    BY MsgKinds
  <2> QED
    BY <2>1, <2>2, <1>3 DEF ToldMsgs
<1>6. Types'
  <2>1. msg' \in Seq(Msgs)
    BY <1>1, EmptySeq
  <2> QED
    BY <1>1, <1>5, <2>1 DEF IInv, Types
<1>7. Hands'
  BY <1>1 DEF IInv, Hands
<1>8. Joining'
  BY <1>1, <1>4 DEF IInv, Joining, Nowhere, Once, First
<1>9. Owed'
  BY <1>1 DEF IInv, Owed
<1>10. Fit'
  <2>1. out \in Seq(Msgs) /\ client.frame \in Nat
    BY DEF IInv, Types
  <2>2. Stream = <<m>> \o out
    BY <1>1, <1>2, StreamServing
  <2>3. Stream' = out
    <3>1. Stream' = (<<>> \o <<>>) \o out
      BY <1>1 DEF Stream
    <3>2. <<>> \o <<>> = <<>> /\ <<>> \o out = out
      BY <2>1, EmptySeq, ConcatEmptySeq
    <3> QED
      BY <3>1, <3>2
  <2>4. CASE Alive
    <3>1. Composed' = Composed
      BY <1>1 DEF Composed
    <3> QED
      BY <1>1, <1>3, <2>1, <2>2, <2>3, <2>4, <3>1, ReadFits
  <2>5. CASE ~Alive
    BY <1>1, <2>5 DEF Fit, Alive
  <2> QED
    BY <2>4, <2>5
<1> QED
  BY <1>6, <1>7, <1>8, <1>9, <1>10 DEF IInv

-----------------------------------------------------------------------------
(* The UI goroutine's steps.                                               *)

\* A step that changes the queue and the slice alone.
LEMMA SliceKeeps ==
  ASSUME IInv, ui # "diff", ui' \in {"loop", "drain", "hook"},
         UNCHANGED <<dirty, value, frame, joined, last, out, lost, wants, attach, msg, welcome,
                     status, client, reader, acts, res>>,
         slice' \in Seq(Rounds), jobs' \in Seq(Rounds),
         ui' = "drain" => slice' # <<>>, ui' = "loop" => slice' = <<>>,
         Nowhere => Nowhere', Once => Once', Pending(First) => Pending(First)'
  PROVE  IInv'
<1>1. Types'
  BY DEF IInv, Types
<1>2. Hands'
  BY DEF IInv, Hands
<1>3. Joining'
  BY DEF IInv, Joining
<1>4. Owed'
  BY DEF IInv, Owed
<1>5. Fit'
  <2>1. Stream' = Stream /\ Composed' = Composed
    BY DEF Stream, Composed
  <2> QED
    BY <2>1, StillFits DEF Alive
<1> QED
  BY <1>1, <1>2, <1>3, <1>4, <1>5 DEF IInv

\* Drain takes the queue.
LEMMA DrainKeeps == IInv /\ Drain => IInv'
<1> SUFFICES ASSUME IInv, Drain PROVE IInv'
  OBVIOUS
<1>1. /\ ui = "loop" /\ ui' = "drain" /\ jobs # <<>> /\ slice' = jobs /\ jobs' = <<>>
      /\ UNCHANGED <<dirty, value, frame, joined, last, out, lost, wants, attach, msg, welcome,
                     status, client, reader, acts, res>>
  BY DEF Drain, attachVars, readerVars, clientVars
<1>2. /\ slice = <<>> /\ Len(slice) = 0 /\ Len(jobs') = 0
      /\ jobs' \in Seq(Rounds) /\ slice' \in Seq(Rounds)
  BY <1>1, EmptySeq DEF IInv, Hands, Types
<1>3. Nowhere => Nowhere'
  BY <1>1, <1>2 DEF Nowhere, First
<1>4. Once => Once'
  BY <1>1, <1>2 DEF Once, First
<1>5. Pending(First) => Pending(First)'
  BY <1>1, <1>2 DEF Pending, First
<1> QED
  BY <1>1, <1>2, <1>3, <1>4, <1>5, SliceKeeps

\* The slice without its head.
LEMMA HeadGoes ==
  ASSUME IInv, slice # <<>>, slice' = Tail(slice), jobs' = jobs
  PROVE  /\ Head(slice) \in Rounds /\ slice' \in Seq(Rounds)
         /\ Head(slice) = First => ~Nowhere
         /\ Head(slice) = First /\ Once => Nowhere'
         /\ Nowhere => Nowhere'
         /\ Once => Once'
         /\ Head(slice) # First /\ Pending(First) => Pending(First)'
<1>2. slice \in Seq(Rounds)
  BY DEF IInv, Types
<1>3. /\ Head(slice) \in Rounds /\ slice' \in Seq(Rounds) /\ Head(slice) = slice[1]
      /\ Len(slice) \in Nat \ {0} /\ Len(slice') = Len(slice) - 1
      /\ \A i \in 1..Len(slice') : slice'[i] = slice[i + 1]
  BY <1>2, HeadThenTail, HeadTailProperties
<1>4. /\ \A i \in 1..Len(slice') : i + 1 \in 1..Len(slice) /\ i + 1 # 1 /\ slice'[i] = slice[i + 1]
      /\ \A i \in 1..Len(slice) : i = 1 \/ (i - 1 \in 1..Len(slice') /\ slice'[i - 1] = slice[i])
      /\ 1 \in 1..Len(slice)
  BY <1>3
<1>5. /\ Head(slice) = First => ~Nowhere
      /\ Nowhere => Nowhere'
  BY <1>3, <1>4 DEF Nowhere, First
<1>6. Head(slice) = First /\ Once => Nowhere'
  BY <1>3, <1>4 DEF Nowhere, Once, First
<1>7. Once => Once'
  <2> SUFFICES ASSUME Once PROVE Once'
    OBVIOUS
  <2>1. ASSUME NEW i \in 1..Len(slice'), NEW j \in 1..Len(slice'), slice'[i] = First, slice'[j] = First
        PROVE  i = j
    <3>1. /\ i + 1 \in 1..Len(slice) /\ slice[i + 1] = First
          /\ j + 1 \in 1..Len(slice) /\ slice[j + 1] = First
      BY <2>1, <1>4
    <3>2. i + 1 = j + 1
      BY <3>1 DEF Once
    <3> QED
      BY <3>2
  <2>2. ASSUME NEW i \in 1..Len(slice'), NEW j \in 1..Len(jobs'), slice'[i] = First
        PROVE  jobs'[j] # First
    BY <2>2, <1>4 DEF Once
  <2> QED
    BY <2>1, <2>2 DEF Once, First
<1>8. Head(slice) # First /\ Pending(First) => Pending(First)'
  BY <1>3, <1>4 DEF Pending, First
<1> QED
  BY <1>3, <1>5, <1>6, <1>7, <1>8

\* What Drain does with its slice, whatever the closure does.
LEMMA ClosureRuns ==
  ASSUME IInv, RunClosure
  PROVE  /\ Head(slice) \in Rounds /\ slice' \in Seq(Rounds)
         /\ ui = "drain" /\ ui' \in {"loop", "drain"} /\ (ui' = "drain" <=> slice' # <<>>)
         /\ UNCHANGED <<jobs, frame, wants, attach, msg, status, client, reader, acts, res>>
         /\ Head(slice) = First => ~Nowhere
         /\ Head(slice) = First /\ Once => Nowhere'
         /\ Nowhere => Nowhere'
         /\ Once => Once'
         /\ Head(slice) # First /\ Pending(First) => Pending(First)'
<1>1. /\ ui = "drain" /\ slice' = Tail(slice) /\ ui' = After(slice')
      /\ UNCHANGED <<jobs, frame, wants, attach, msg, status, client, reader, acts, res>>
  BY DEF RunClosure, attachVars, readerVars, clientVars
<1>2. slice # <<>>
  BY <1>1 DEF IInv, Hands
<1>3. ui' \in {"loop", "drain"} /\ (ui' = "drain" <=> slice' # <<>>)
  BY <1>1 DEF After
<1> QED
  BY <1>1, <1>2, <1>3, HeadGoes

\* What is posted for a signal, and what gracefulExit leaves, are rounds.
LEMMA ExitRounds ==
  /\ Signal \in Rounds /\ Signal.who = "signal" /\ Signal # First
  /\ Farewell \in Rounds /\ Farewell.who = "exit" /\ Farewell # First
<1>1. Signal \in Rounds /\ Signal.who = "signal"
  BY DEF Rounds, Round, Signal
<1>2. Farewell \in Rounds /\ Farewell.who = "exit"
  BY DEF Rounds, Round, Farewell
<1>3. First.who = "attach"
  BY DEF First, Round
<1> QED
  BY <1>1, <1>2, <1>3

\* The signal that ends the run, and gracefulExit's last step, leave the slice.
LEMMA ExitsKeep == IInv /\ (GracefulExit \/ ExitQuits) => IInv'
<1> SUFFICES ASSUME IInv, GracefulExit \/ ExitQuits PROVE IInv'
  OBVIOUS
<1>1. /\ ui = "drain" /\ slice' = Tail(slice) /\ jobs' = jobs
      /\ ui' = "hook" \/ ui' = After(slice')
      /\ UNCHANGED <<dirty, value, frame, joined, last, out, lost, wants, attach, msg, welcome,
                     status, client, reader, acts, res>>
  BY DEF GracefulExit, ExitQuits, attachVars, readerVars, clientVars
<1>2. slice # <<>> /\ jobs' \in Seq(Rounds)
  BY <1>1 DEF IInv, Hands, Types
<1>3. Head(slice) # First
  BY ExitRounds DEF GracefulExit, ExitQuits
<1>4. /\ slice' \in Seq(Rounds)
      /\ Nowhere => Nowhere'
      /\ Once => Once'
      /\ Pending(First) => Pending(First)'
  BY <1>1, <1>2, <1>3, HeadGoes
<1>5. /\ ui # "diff" /\ ui' \in {"loop", "drain", "hook"}
      /\ (ui' = "drain" => slice' # <<>>) /\ (ui' = "loop" => slice' = <<>>)
  BY <1>1 DEF After
<1> QED
  BY <1>1, <1>2, <1>4, <1>5, SliceKeeps

\* gracefulExit's Drain takes the queue ahead of what its caller's has left.
LEMMA ExitDrainsKeeps == IInv /\ ExitDrains => IInv'
<1> SUFFICES ASSUME IInv, ExitDrains PROVE IInv'
  OBVIOUS
<1>1. /\ ui = "hook" /\ ui' = "drain" /\ slice' = jobs \o <<Farewell>> \o slice /\ jobs' = <<>>
      /\ UNCHANGED <<dirty, value, frame, joined, last, out, lost, wants, attach, msg, welcome,
                     status, client, reader, acts, res>>
  BY DEF ExitDrains, attachVars, readerVars, clientVars
<1>2. PICK r \in Rounds : r = Farewell /\ r # First
  BY ExitRounds
<1>3. /\ jobs \in Seq(Rounds) /\ slice \in Seq(Rounds) /\ <<r>> \in Seq(Rounds)
      /\ jobs' \in Seq(Rounds) /\ Len(jobs') = 0
  BY <1>1, EmptySeq DEF IInv, Types
<1>4. /\ jobs \o <<r>> \in Seq(Rounds) /\ Len(jobs \o <<r>>) = Len(jobs) + 1 /\ Len(jobs) \in Nat
      /\ \A i \in 1..(Len(jobs) + 1) : (jobs \o <<r>>)[i] = IF i <= Len(jobs) THEN jobs[i] ELSE r
  BY <1>3, ConcatProperties, LenProperties
<1>5. PICK ahead \in Seq(Rounds) : ahead = jobs \o <<r>> /\ slice' = ahead \o slice
  BY <1>1, <1>2, <1>4
<1>6. /\ slice' \in Seq(Rounds) /\ Len(slice') = Len(jobs) + 1 + Len(slice) /\ Len(slice) \in Nat
      /\ \A i \in 1..Len(slice') :
           slice'[i] = IF i <= Len(jobs) + 1 THEN ahead[i] ELSE slice[i - (Len(jobs) + 1)]
  BY <1>3, <1>4, <1>5, ConcatProperties, LenProperties
<1>7. \A i \in 1..Len(slice') : slice'[i] = First =>
        \/ i \in 1..Len(jobs) /\ jobs[i] = First
        \/ /\ i > Len(jobs) + 1 /\ i - (Len(jobs) + 1) \in 1..Len(slice)
           /\ slice[i - (Len(jobs) + 1)] = First
  BY <1>2, <1>4, <1>5, <1>6
<1>8. Nowhere => Nowhere'
  BY <1>3, <1>7 DEF Nowhere, First
<1>9. Once => Once'
  <2> SUFFICES ASSUME Once, NEW i \in 1..Len(slice'), NEW j \in 1..Len(slice'),
                      slice'[i] = First, slice'[j] = First
               PROVE  i = j
    BY <1>3 DEF Once, First
  <2>1. CASE i \in 1..Len(jobs) /\ jobs[i] = First
    BY <2>1, <1>7 DEF Once
  <2>2. CASE j \in 1..Len(jobs) /\ jobs[j] = First
    BY <2>2, <1>7 DEF Once
  <2>3. CASE /\ i - (Len(jobs) + 1) \in 1..Len(slice) /\ slice[i - (Len(jobs) + 1)] = First
             /\ j - (Len(jobs) + 1) \in 1..Len(slice) /\ slice[j - (Len(jobs) + 1)] = First
    <3>1. i - (Len(jobs) + 1) = j - (Len(jobs) + 1)
      BY <2>3 DEF Once
    <3> QED
      BY <3>1, <1>4
  <2> QED
    BY <2>1, <2>2, <2>3, <1>7
<1>10. Pending(First) => Pending(First)'
  <2>1. ASSUME NEW i \in 1..Len(jobs), jobs[i] = First
        PROVE  Pending(First)'
    <3>1. i \in 1..Len(slice') /\ slice'[i] = First
      BY <2>1, <1>4, <1>5, <1>6
    <3> QED
      BY <3>1 DEF Pending, First
  <2>2. ASSUME NEW i \in 1..Len(slice), slice[i] = First
        PROVE  Pending(First)'
    <3>1. PICK j \in 1..Len(slice') : j = i + (Len(jobs) + 1) /\ j - (Len(jobs) + 1) = i
      BY <1>4, <1>6
    <3>2. ~(j <= Len(jobs) + 1)
      BY <3>1, <2>2, <1>4, <1>6
    <3>3. slice'[j] = slice[j - (Len(jobs) + 1)]
      BY <3>1, <3>2, <1>6
    <3>4. slice'[j] = First
      BY <3>1, <3>3, <2>2
    <3> QED
      BY <3>4 DEF Pending, First
  <2> QED
    BY <2>1, <2>2 DEF Pending, First
<1>11. slice' # <<>>
  BY <1>4, <1>6
<1> QED
  BY <1>1, <1>3, <1>6, <1>8, <1>9, <1>10, <1>11, SliceKeeps

\* The signal is posted.
LEMMA InterruptKeeps == IInv /\ Interrupt => IInv'
<1> SUFFICES ASSUME IInv, Interrupt PROVE IInv'
  OBVIOUS
<1>1. /\ Post(Signal)
      /\ UNCHANGED <<ui, slice, dirty, value, frame, joined, last, out, lost, wants, attach, msg, welcome,
                     status, client, reader, acts, res>>
  BY DEF Interrupt, uiSide, uiVars, attachVars, readerVars, clientVars
<1>2. PICK r \in Rounds : r = Signal /\ r # First
  BY ExitRounds
<1>3. /\ jobs' \in Seq(Rounds)
      /\ Nowhere => Nowhere'
      /\ Once => Once'
      /\ Pending(First) => Pending(First)'
  BY <1>1, <1>2, OtherPost
<1>4. Types'
  BY <1>1, <1>3 DEF IInv, Types
<1>5. Hands' /\ Owed'
  BY <1>1 DEF IInv, Hands, Owed
<1>6. Joining'
  BY <1>1, <1>3 DEF IInv, Joining
<1>7. Fit'
  <2>1. Stream' = Stream /\ Composed' = Composed
    BY <1>1 DEF Stream, Composed
  <2> QED
    BY <1>1, <2>1, StillFits DEF Alive
<1> QED
  BY <1>4, <1>5, <1>6, <1>7 DEF IInv

\* The stream of a session that has just joined is its Welcome.
LEMMA WelcomeFits ==
  ASSUME NEW w \in ToldMsgs, w.k = "welcome", Len(Stream') = 1, Stream'[1] = w,
         w.frame = Composed', w.val = last', w.val # "same", client' = Unread
  PROVE  Fit'
<1>1. Told(w) /\ w.frame \in Nat \ {0} /\ w.k # "delta"
  BY MsgKinds
<1>2. \A i \in 1..Len(Stream') : i = 1 /\ Stream'[i] = w
  OBVIOUS
<1>3. 1 \in 1..Len(Stream') /\ client'.frame = 0
  BY DEF Unread
<1>4. Ordered' /\ Within'
  BY <1>1, <1>2, <1>3 DEF Ordered, Within
<1>5. Contiguous'
  <2>1. \A i \in 1..Len(Stream') : Stream'[i].k # "delta"
    BY <1>1, <1>2
  <2>2. \A f \in Nat : f <= Composed' => Reached(f)'
    BY <1>1, <1>3 DEF Reached
  <2> QED
    BY <2>1, <2>2 DEF Contiguous
<1>6. Knows(last)'
  <2>1. PICK i \in 1..Len(Stream') : i = 1
    BY <1>3
  <2>2. \A j \in (i + 1)..Len(Stream') : FALSE
    BY <2>1
  <2>3. Carries(i)'
    BY <2>1, <2>2, <1>1, <1>2 DEF Carries
  <2> QED
    BY <2>1, <2>3, <1>2 DEF Knows
<1> QED
  BY <1>4, <1>5, <1>6 DEF Fit

\* What a push to the session may leave.
LEMMA PushTypes ==
  ASSUME IInv, NEW m \in Msgs, Push(m)
  PROVE  out' \in Seq(Msgs) /\ lost' \in BOOLEAN
<1>1. out \in Seq(Msgs) /\ lost \in BOOLEAN
  BY DEF IInv, Types
<1>2. Append(out, m) \in Seq(Msgs)
  BY <1>1, AppendProperties
<1>3. CASE Len(out) < Cap
  BY <1>1, <1>2, <1>3 DEF Push
<1>4. CASE ~(Len(out) < Cap)
  BY <1>1, <1>4 DEF Push
<1> QED
  BY <1>3, <1>4

\* The same of a push to whoever has joined.
LEMMA BroadcastTypes ==
  ASSUME IInv, NEW m \in Msgs, Broadcast(m)
  PROVE  /\ out' \in Seq(Msgs) /\ lost' \in BOOLEAN
         /\ ~joined => out' = out
<1>1. CASE joined
  BY <1>1, PushTypes DEF Broadcast
<1>2. CASE ~joined
  BY <1>2 DEF Broadcast, IInv, Types
<1> QED
  BY <1>1, <1>2

\* register joins the session.
LEMMA RegisterKeeps ==
  ASSUME IInv, RunClosure, Head(slice) = First, Register, UNCHANGED <<value, dirty, out, lost>>
  PROVE  IInv'
<1>1. /\ slice' \in Seq(Rounds) /\ ui = "drain" /\ ui' \in {"loop", "drain"}
      /\ (ui' = "drain" <=> slice' # <<>>)
      /\ UNCHANGED <<jobs, frame, wants, attach, msg, status, client, reader, acts, res>>
      /\ ~Nowhere
      /\ Once => Nowhere'
      /\ Once => Once'
  BY ClosureRuns
<1>2. joined' = TRUE /\ last' = value /\ welcome' = Welcome(frame, value)
  BY DEF Register
<1>3. frame \in Nat \ {0} /\ value \in Values /\ value # "same"
  BY ValuesAreValues DEF IInv, Types
<1>4. welcome' \in ToldMsgs /\ welcome'.k = "welcome" /\ welcome'.frame = frame /\ welcome'.val = value
  BY <1>2, <1>3 DEF Welcome, ToldMsgs
<1>5. Types'
  <2>1. joined' \in BOOLEAN
    BY <1>2
  <2> QED
    BY <1>1, <1>2, <1>4, <2>1 DEF IInv, Types
<1>6. Hands'
  BY <1>1 DEF IInv, Hands
<1>7. status = "open" => /\ attach = "register" /\ ~joined /\ Once
                         /\ reader = "none" /\ client = Unread /\ out = <<>> /\ msg = <<>>
  BY <1>1 DEF IInv, Joining, Hands, Types
<1>8. Joining'
  BY <1>1, <1>2, <1>4, <1>7 DEF Joining
<1>9. Owed'
  BY <1>2 DEF Owed
<1>10. Fit'
  <2>1. CASE status = "open"
    <3>1. Stream' = (<<welcome'>> \o <<>>) \o <<>>
      BY <1>1, <1>2, <1>7, <2>1 DEF Stream
    <3>2. PICK w \in ToldMsgs : w = welcome'
      BY <1>4
    <3>3. <<w>> \in Seq(ToldMsgs) /\ <<w>> \o <<>> = <<w>>
      BY ConcatEmptySeq
    <3>4. Stream' = <<w>>
      BY <3>1, <3>2, <3>3
    <3>5. Len(Stream') = 1 /\ Stream'[1] = w
      BY <3>4
    <3>6. w.k = "welcome" /\ w.frame = Composed' /\ w.val = last' /\ w.val # "same" /\ client' = Unread
      BY <1>1, <1>2, <1>3, <1>4, <1>7, <2>1, <3>2 DEF Composed
    <3> QED
      BY <3>5, <3>6, WelcomeFits
  <2>2. CASE status # "open"
    BY <1>1, <2>2 DEF Fit, Alive
  <2> QED
    BY <2>1, <2>2
<1> QED
  BY <1>5, <1>6, <1>8, <1>9, <1>10 DEF IInv

\* What a closure that does not register the session leaves.
LEMMA ClosureKeeps ==
  ASSUME IInv, RunClosure, Head(slice) # First, UNCHANGED <<joined, last, welcome>>,
         value' \in Values, dirty' \in BOOLEAN, (value' = value /\ dirty' = dirty) \/ dirty' = TRUE,
         \/ UNCHANGED <<out, lost>>
         \/ \E m \in Untold : Broadcast(m)
  PROVE  IInv'
<1>1. /\ slice' \in Seq(Rounds) /\ ui = "drain" /\ ui' \in {"loop", "drain"}
      /\ (ui' = "drain" <=> slice' # <<>>)
      /\ UNCHANGED <<jobs, frame, wants, attach, msg, status, client, reader, acts, res>>
      /\ Nowhere => Nowhere'
      /\ Once => Once'
      /\ Pending(First) => Pending(First)'
  BY ClosureRuns
<1>2. out' \in Seq(Msgs) /\ lost' \in BOOLEAN /\ (~joined => out' = out)
  <2>1. \A m \in Untold : Broadcast(m) => out' \in Seq(Msgs) /\ lost' \in BOOLEAN /\ (~joined => out' = out)
    BY MsgKinds, BroadcastTypes
  <2> QED
    BY <2>1 DEF IInv, Types
<1>3. Types'
  BY <1>1, <1>2 DEF IInv, Types
<1>4. Hands'
  BY <1>1 DEF IInv, Hands
<1>5. Joining'
  BY <1>1, <1>2 DEF IInv, Joining
<1>6. Owed'
  BY <1>1 DEF IInv, Owed
<1>7. Fit'
  <2>1. Composed' = Composed
    BY <1>1 DEF Composed
  <2>2. CASE UNCHANGED <<out, lost>>
    <3>1. Stream' = Stream
      BY <1>1, <2>2 DEF Stream
    <3> QED
      BY <1>1, <2>1, <2>2, <3>1, StillFits DEF Alive
  <2>3. ASSUME NEW m \in Untold, Broadcast(m)
        PROVE  Fit'
    BY <1>1, <2>1, <2>3, BroadcastFits
  <2> QED
    BY <2>2, <2>3
<1> QED
  BY <1>3, <1>4, <1>5, <1>6, <1>7 DEF IInv

\* Drain calls a closure.
LEMMA RunClosureKeeps == IInv /\ RunClosure => IInv'
<1> SUFFICES ASSUME IInv, RunClosure PROVE IInv'
  OBVIOUS
<1>1. PICK r \in Rounds : r = Head(slice)
  BY ClosureRuns
<1>2. r.i = 1 /\ r.who = "attach" <=> r = First
  BY DEF Rounds, First, Round
<1>3. value \in Values /\ dirty \in BOOLEAN
  BY DEF IInv, Types
<1>4. CASE r = First
  <2>1. Register /\ UNCHANGED <<value, dirty, out, lost>>
    BY <1>1, <1>2, <1>4 DEF RunClosure
  <2> QED
    BY <1>1, <1>4, <2>1, RegisterKeeps
<1>5. CASE r # First /\ r.i = 1 /\ r.who = "reader"
  <2>1. Fn(r.n) /\ UNCHANGED <<joined, last, welcome>>
    BY <1>1, <1>5 DEF RunClosure
  <2>2. PICK kind : kind = acts[r.n]
    OBVIOUS
  <2>3. /\ value' = IF kind \in Values THEN kind ELSE value
        /\ dirty' = (dirty \/ kind \in Values \cup {"swap"})
        /\ CASE kind = "swap" -> Broadcast(Note("swapped"))
             [] kind = "keys" -> Broadcast(Note("echo"))
             [] OTHER -> UNCHANGED <<out, lost>>
    BY <2>1, <2>2 DEF Fn
  <2>4. value' \in Values
    BY <1>3, <2>3
  <2>5. dirty' \in BOOLEAN
    BY Zenon, <1>3, <2>3
  <2>6. (value' = value /\ dirty' = dirty) \/ dirty' = TRUE
    BY <1>3, <2>3
  <2>7. Note("swapped") \in Untold /\ Note("echo") \in Untold
    BY DEF Note, Untold, Notes
  <2>8. UNCHANGED <<out, lost>> \/ \E m \in Untold : Broadcast(m)
    <3>1. CASE kind = "swap"
      <4>1. Broadcast(Note("swapped"))
        BY <2>3, <3>1
      <4> QED
        BY <4>1, <2>7
    <3>2. CASE kind = "keys"
      <4>1. Broadcast(Note("echo"))
        BY <2>3, <3>2
      <4> QED
        BY <4>1, <2>7
    <3>3. CASE kind \notin {"swap", "keys"}
      BY <2>3, <3>3
    <3> QED
      BY <3>1, <3>2, <3>3
  <2> QED
    BY <1>1, <1>5, <2>1, <2>4, <2>5, <2>6, <2>8, ClosureKeeps
<1>6. CASE r # First /\ ~(r.i = 1 /\ r.who = "reader")
  <2>1. UNCHANGED <<value, dirty, out, lost, joined, last, welcome>>
    BY <1>1, <1>2, <1>6 DEF RunClosure
  <2> QED
    BY <1>1, <1>3, <1>6, <2>1, ClosureKeeps
<1> QED
  BY <1>4, <1>5, <1>6

\* A frame is composed: what it shows is owed until the delta is told.
LEMMA FrameKeeps == IInv /\ Frame => IInv'
<1> SUFFICES ASSUME IInv, Frame PROVE IInv'
  OBVIOUS
<1>1. /\ ui \in {"loop", "drain"} /\ dirty' = FALSE /\ frame' = frame + 1
      /\ (ui' = IF joined THEN "diff" ELSE ui)
      /\ Broadcast(Note("resized")) \/ UNCHANGED <<out, lost>>
      /\ UNCHANGED <<slice, jobs, value, joined, last, wants, attach, msg, welcome,
                     status, client, reader, acts, res>>
  BY DEF Frame, attachVars, readerVars, clientVars
<1>2. Note("resized") \in Untold /\ Note("resized") \in Msgs
  BY MsgKinds DEF Note, Untold, Notes
<1>3. out' \in Seq(Msgs) /\ lost' \in BOOLEAN /\ (~joined => out' = out)
  BY <1>1, <1>2, BroadcastTypes DEF IInv, Types
<1>4. frame' \in Nat \ {0} /\ ui' \in {"loop", "drain", "diff", "hook", "ended"}
  BY <1>1 DEF IInv, Types
<1>4a. dirty' \in BOOLEAN
  BY <1>1
<1>5. Types'
  BY <1>1, <1>3, <1>4, <1>4a DEF IInv, Types
<1>6. Hands'
  BY <1>1 DEF IInv, Hands
<1>7. Joining'
  BY <1>1, <1>3 DEF IInv, Joining, Nowhere, Once, Pending, First
<1>8. Owed'
  BY <1>1 DEF IInv, Owed
<1>9. Fit'
  <2>1. CASE joined
    <3>1. Composed' = Composed
      BY <1>1, <2>1 DEF Composed, IInv, Types
    <3>2. CASE Broadcast(Note("resized"))
      BY <1>1, <1>2, <3>1, <3>2, BroadcastFits
    <3>3. CASE UNCHANGED <<out, lost>>
      <4>1. Stream' = Stream
        BY <1>1, <3>3 DEF Stream
      <4> QED
        BY <1>1, <3>1, <3>3, <4>1, StillFits DEF Alive
    <3> QED
      BY <1>1, <3>2, <3>3
  <2>2. CASE ~joined
    BY <1>1, <2>2 DEF Fit, Alive
  <2> QED
    BY <2>1, <2>2
<1> QED
  BY <1>5, <1>6, <1>7, <1>8, <1>9 DEF IInv

\* A frame in which nothing changed is not told to a client that wants none.
LEMMA UntoldFits ==
  ASSUME IInv, Alive, Stream' = Stream, Composed' = Composed + 1, Composed \in Nat, ~wants,
         UNCHANGED <<client, last, wants>>
  PROVE  Fit'
<1>1. Ordered /\ Within /\ Knows(last)
  BY DEF IInv, Fit
<1>2. client.frame \in Nat /\ \A i \in 1..Len(Stream) : Told(Stream[i]) => Stream[i].frame \in Nat
  BY StreamIsSeq, MsgKinds DEF IInv, Types
<1>3. Ordered' /\ Contiguous'
  BY <1>1 DEF Ordered, Contiguous
<1>4. Within'
  <2>1. client.frame <= Composed + 1
    BY <1>1, <1>2 DEF Within
  <2>2. \A i \in 1..Len(Stream) : Told(Stream[i]) =>
          client.frame <= Stream[i].frame /\ Stream[i].frame <= Composed + 1
    BY <1>1, <1>2 DEF Within
  <2> QED
    BY <2>1, <2>2 DEF Within
<1>5. Knows(last)'
  BY <1>1 DEF Knows, Carries
<1> QED
  BY <1>3, <1>4, <1>5 DEF Fit

\* The delta of a frame.
LEMMA DiffKeeps == IInv /\ Diff => IInv'
<1> SUFFICES ASSUME IInv, Diff PROVE IInv'
  OBVIOUS
<1>1. /\ ui = "diff" /\ ui' = After(slice) /\ last' = value
      /\ UNCHANGED <<slice, jobs, dirty, value, frame, joined, wants, attach, msg, welcome,
                     status, client, reader, acts, res>>
  BY DEF Diff, attachVars, readerVars, clientVars
<1>2. PICK m : m = Delta(frame, IF last = value THEN "same" ELSE value)
  OBVIOUS
<1>3. /\ last = value /\ ~wants => UNCHANGED <<out, lost>>
      /\ ~(last = value /\ ~wants) => Push(m)
  BY <1>2 DEF Diff
<1>4. /\ m \in ToldMsgs /\ m.k = "delta" /\ m.frame = frame
      /\ (m.val = IF last = value THEN "same" ELSE value)
  <2>1. frame \in Nat \ {0} /\ value \in Values
    BY DEF IInv, Types
  <2> QED
    BY <2>1, <1>2 DEF Delta, ToldMsgs
<1>5. m \in Msgs
  BY <1>4, MsgKinds
<1>6. out' \in Seq(Msgs) /\ lost' \in BOOLEAN
  BY <1>3, <1>5, PushTypes DEF IInv, Types
<1>6a. ui' \in {"loop", "drain"} /\ (ui' = "drain" <=> slice # <<>>)
  BY <1>1 DEF After
<1>7. Types'
  BY <1>1, <1>6, <1>6a DEF IInv, Types
<1>8. Hands'
  BY <1>1, <1>6a DEF IInv, Hands
<1>9. Joining'
  <2>1. status = "open" => joined
    BY <1>1 DEF IInv, Joining
  <2> QED
    BY <2>1, <1>1 DEF IInv, Joining, Nowhere, Once, Pending, First
<1>10. Owed'
  BY <1>1 DEF Owed
<1>11. Composed \in Nat /\ Composed' = Composed + 1 /\ frame = Composed + 1
  BY <1>1, <1>6a DEF IInv, Types, Composed
<1>12. CASE ~Alive
  <2>1. lost => lost'
    BY <1>3 DEF Push
  <2> QED
    BY <2>1, <1>1, <1>7, <1>8, <1>9, <1>10, <1>12 DEF Fit, Alive, IInv
<1>13. CASE Alive /\ last = value /\ ~wants
  <2>1. Stream' = Stream
    BY <1>1, <1>3, <1>13 DEF Stream
  <2>2. Fit'
    BY <2>1, <1>1, <1>11, <1>13, UntoldFits
  <2> QED
    BY <2>2, <1>7, <1>8, <1>9, <1>10 DEF IInv
<1>14. CASE Alive /\ ~(last = value /\ ~wants) /\ Len(out) < Cap
  <2>1. out' = Append(out, m)
    BY <1>3, <1>14 DEF Push
  <2>2. Stream' = Append(Stream, m)
    BY <1>1, <1>5, <1>14, <2>1, PushedIsLast
  <2>3. m.frame = Composed + 1
    BY <1>4, <1>11
  <2>4. Fit'
    BY <1>1, <1>4, <1>11, <1>14, <2>2, <2>3, DeltaFits
  <2> QED
    BY <2>4, <1>7, <1>8, <1>9, <1>10 DEF IInv
<1>15. CASE ~(last = value /\ ~wants) /\ ~(Len(out) < Cap)
  <2>1. lost' = TRUE
    BY <1>3, <1>15 DEF Push
  <2>2. Fit'
    BY <2>1 DEF Fit, Alive
  <2> QED
    BY <2>2, <1>7, <1>8, <1>9, <1>10 DEF IInv
<1> QED
  BY <1>12, <1>13, <1>14, <1>15

\* What the host itself does.
LEMMA HostEventKeeps == IInv /\ HostEvent => IInv'
<1> SUFFICES ASSUME IInv, HostEvent PROVE IInv'
  OBVIOUS
<1>1. UNCHANGED <<ui, slice, jobs, frame, joined, last, wants, attach, msg, welcome,
                  status, client, reader, acts, res>>
  BY DEF HostEvent, attachVars, readerVars, clientVars
<1>2. /\ value' \in Values /\ dirty' \in BOOLEAN
      /\ (value' = value /\ dirty' = dirty) \/ dirty' = TRUE
      /\ UNCHANGED <<out, lost>> \/ Broadcast(Note("echo"))
  <2>1. ASSUME NEW v \in Values, HostSets(v)
        PROVE  value' \in Values /\ dirty' = TRUE /\ UNCHANGED <<out, lost>>
    BY <2>1 DEF HostSets
  <2>2. ASSUME NEW z \in Sizes, HostResizes(z)
        PROVE  value' \in Values /\ dirty' = TRUE /\ UNCHANGED <<out, lost>>
    BY <2>2 DEF HostResizes, IInv, Types
  <2>3. ASSUME HostKey
        PROVE  /\ value' \in Values /\ dirty' \in BOOLEAN /\ value' = value /\ dirty' = dirty
               /\ Broadcast(Note("echo"))
    BY <2>3 DEF HostKey, IInv, Types
  <2>4. TRUE \in BOOLEAN
    OBVIOUS
  <2>5. (\E v \in Values : HostSets(v)) \/ (\E z \in Sizes : HostResizes(z)) \/ HostKey
    BY DEF HostEvent
  <2> QED
    BY <2>1, <2>2, <2>3, <2>4, <2>5
<1>3. Note("echo") \in Untold /\ Note("echo") \in Msgs
  BY MsgKinds DEF Note, Untold, Notes
<1>4. out' \in Seq(Msgs) /\ lost' \in BOOLEAN /\ (~joined => out' = out)
  BY <1>2, <1>3, BroadcastTypes DEF IInv, Types
<1>5. Types'
  BY <1>1, <1>2, <1>4 DEF IInv, Types
<1>6. Hands'
  BY <1>1 DEF IInv, Hands
<1>7. Joining'
  BY <1>1, <1>4 DEF IInv, Joining, Nowhere, Once, Pending, First
<1>8. Owed'
  BY <1>1, <1>2 DEF IInv, Owed
<1>9. Fit'
  <2>1. Composed' = Composed
    BY <1>1 DEF Composed
  <2>2. CASE UNCHANGED <<out, lost>>
    <3>1. Stream' = Stream
      BY <1>1, <2>2 DEF Stream
    <3> QED
      BY <1>1, <2>1, <2>2, <3>1, StillFits DEF Alive
  <2>3. CASE Broadcast(Note("echo"))
    BY <1>1, <1>3, <2>1, <2>3, BroadcastFits
  <2> QED
    BY <1>2, <2>2, <2>3
<1> QED
  BY <1>5, <1>6, <1>7, <1>8, <1>9 DEF IInv

-----------------------------------------------------------------------------
(* The reader's steps.                                                     *)

\* A result is queued.
LEMMA AnswerKeeps == IInv /\ Answer => IInv'
<1> SUFFICES ASSUME IInv, Answer PROVE IInv'
  OBVIOUS
<1>1. /\ reader = "answer" /\ out' = Append(out, res) /\ reader' = "recv" /\ res' = Note("none")
      /\ UNCHANGED <<ui, slice, jobs, dirty, value, frame, joined, last, lost, wants, attach, msg, welcome,
                     status, client, acts>>
  BY DEF Answer, readSide, uiSide, uiVars, attachVars, clientVars
<1>2. PICK m \in Untold : m = res /\ m \in Msgs
  BY MsgKinds DEF IInv, Types
<1>3. out' \in Seq(Msgs) /\ res' \in Untold
  <2>1. out \in Seq(Msgs)
    BY DEF IInv, Types
  <2>2. out' = Append(out, m)
    BY <1>1, <1>2
  <2>3. Note("none") \in Untold
    BY DEF Note, Untold, Notes
  <2> QED
    BY <2>1, <2>2, <2>3, <1>1, <1>2, AppendProperties
<1>4. status = "open" => joined
  BY <1>1 DEF IInv, Joining, Hands, Types
<1>5. Types'
  BY <1>1, <1>3 DEF IInv, Types
<1>6. Hands'
  BY <1>1 DEF IInv, Hands
<1>7. Joining'
  <2>1. status = "open" => attach \notin {"idle", "register", "settle"}
    BY <1>1 DEF IInv, Joining
  <2> QED
    BY <2>1, <1>1, <1>4 DEF IInv, Joining, Nowhere, Once, Pending, First
<1>8. Owed'
  BY <1>1 DEF IInv, Owed
<1>9. Fit'
  <2>1. CASE Alive
    <3>1. out' = Append(out, m)
      BY <1>1, <1>2
    <3>2. Stream' = Append(Stream, m)
      BY <3>1, <2>1, <1>1, <1>2, PushedIsLast
    <3>3. Composed' = Composed
      BY <1>1 DEF Composed
    <3> QED
      BY <3>2, <3>3, <2>1, <1>1, NoteFits
  <2>2. CASE ~Alive
    BY <2>2, <1>1 DEF Fit, Alive
  <2> QED
    BY <2>1, <2>2
<1> QED
  BY <1>5, <1>6, <1>7, <1>8, <1>9 DEF IInv

\* What the reader may hold: it tells no frame.
LEMMA HeldIsUntold ==
  /\ \A k \in Nat : Result(k, TRUE) \in Untold /\ Result(k, FALSE) \in Untold
  /\ Note("eof") \in Untold /\ Note("cancelled") \in Untold /\ Note("nil") \in Untold
BY DEF Result, Note, Untold, Notes

\* An act arrives.
LEMMA RecvKeeps == ASSUME IInv, NEW kind \in ActKinds, Recv(kind) PROVE IInv'
<1>1. /\ reader = "recv" /\ acts' = Append(acts, kind)
      /\ UNCHANGED <<ui, slice, dirty, value, frame, joined, last, out, lost, wants, attach, msg, welcome,
                     status, client>>
  BY DEF Recv, uiVars, attachVars, clientVars
<1>2. acts \in Seq(ActKinds) /\ res \in Untold
  BY DEF IInv, Types
<1>3. acts' \in Seq(ActKinds) /\ Len(acts) + 1 \in Nat
  BY <1>1, <1>2, AppendProperties, LenProperties
<1>4. PICK k \in Nat : k = Len(acts) + 1
  BY <1>3
<1>5. CASE kind = "malformed"
  <2>1. res' = Result(k, FALSE) /\ jobs' = jobs
    BY <1>4, <1>5 DEF Recv, n
  <2>2. UNCHANGED core /\ res' \in Untold
    BY <1>1, <2>1, HeldIsUntold DEF core
  <2> QED
    BY <2>2, <1>1, <1>3, QuietKeeps
<1>6. CASE kind # "malformed"
  <2>1. res' = res /\ Post(Round("reader", k, 1))
    BY <1>4, <1>6 DEF Recv, n
  <2>2. res' \in Untold
    BY <1>2, <2>1
  <2> QED
    BY <2>1, <2>2, <1>1, <1>3, ReaderPosts
<1> QED
  BY <1>5, <1>6

\* Do's first round for the act was answered.
LEMMA FnAnsweredKeeps == IInv /\ FnAnswered => IInv'
<1> SUFFICES ASSUME IInv, FnAnswered PROVE IInv'
  OBVIOUS
<1>1. /\ reader = "fn"
      /\ UNCHANGED <<ui, slice, dirty, value, frame, joined, last, out, lost, wants, attach, msg, welcome,
                     status, client, acts>>
  BY DEF FnAnswered, readSide, uiSide, uiVars, attachVars, clientVars
<1>2. acts' \in Seq(ActKinds) /\ res \in Untold /\ Len(acts) \in Nat
  BY <1>1, LenProperties DEF IInv, Types
<1>3. PICK k \in Nat : k = Len(acts)
  BY <1>2
<1>4. CASE acts[n] = "fails"
  <2>1. res' = Result(k, FALSE) /\ jobs' = jobs
    BY <1>3, <1>4 DEF FnAnswered, n
  <2>2. UNCHANGED core /\ res' \in Untold
    BY <1>1, <2>1, HeldIsUntold DEF core
  <2> QED
    BY <2>2, <1>1, <1>2, QuietKeeps
<1>5. CASE acts[n] # "fails"
  <2>1. res' = res /\ Post(Round("reader", k, 2))
    BY <1>3, <1>5 DEF FnAnswered, n
  <2>2. res' \in Untold
    BY <1>2, <2>1
  <2> QED
    BY <2>1, <2>2, <1>1, <1>2, ReaderPosts
<1> QED
  BY <1>4, <1>5

\* The other steps of the reader touch nothing that others see, but readErr.
LEMMA ReaderStepKeeps == IInv /\ ReaderStep => IInv'
<1> SUFFICES ASSUME IInv, ReaderStep PROVE IInv'
  OBVIOUS
<1>1. acts \in Seq(ActKinds) /\ res \in Untold
  BY DEF IInv, Types
<1>2. PICK k \in Nat : k = n
  BY <1>1, LenProperties DEF n
<1>3. CASE RecvFails \/ AnswerGivenUp
  <2>1. UNCHANGED core /\ ui' = ui /\ acts' = acts /\ reader # "none"
    BY <1>3 DEF RecvFails, AnswerGivenUp, core, readSide, uiSide, uiVars, attachVars, clientVars
  <2>2. res' \in {Note("eof"), Note("cancelled"), Note("nil")}
    BY <1>3 DEF RecvFails, AnswerGivenUp
  <2> QED
    BY <2>1, <2>2, <1>1, HeldIsUntold, QuietKeeps
<1>4. CASE Settled \/ ActTimesOut
  <2>1. UNCHANGED core /\ ui' = ui /\ acts' = acts /\ reader # "none"
    BY <1>4 DEF Settled, ActTimesOut, core, readSide, uiSide, uiVars, attachVars, clientVars
  <2>2. res' \in {Result(k, TRUE), Result(k, FALSE)}
    BY <1>2, <1>4 DEF Settled, ActTimesOut
  <2> QED
    BY <2>1, <2>2, <1>1, HeldIsUntold, QuietKeeps
<1>5. CASE ReaderReturns
  <2>1. UNCHANGED core /\ ui' = ui /\ acts' = acts /\ reader # "none" /\ res' = res
    BY <1>5 DEF ReaderReturns, core, readSide, uiSide, uiVars, attachVars, clientVars
  <2> QED
    BY <2>1, <1>1, QuietKeeps
<1> QED
  BY <1>3, <1>4, <1>5, AnswerKeeps, FnAnsweredKeeps DEF ReaderStep

-----------------------------------------------------------------------------

\* However Attach returns, the session is alive no more.
LEMMA ReturnsKeep ==
  ASSUME IInv, AttachTimesOut \/ SendFails \/ SeeLost \/ SeeReadErr \/ SeeDone \/ SeeCancel
  PROVE  IInv'
<1>1. CASE AttachTimesOut
  BY <1>1, ReturnKeeps DEF AttachTimesOut
<1>2. CASE SendFails
  BY <1>2, ReturnKeeps DEF SendFails
<1>3. CASE SeeLost
  BY <1>3, ReturnKeeps DEF SeeLost
<1>4. CASE SeeReadErr
  <2>1. PICK how : how = IF readErr.k \in {"eof", "nil"} THEN "ok" ELSE "error"
    OBVIOUS
  <2>2. Return(how, TRUE) /\ how # "open" /\ out' = out
    BY <1>4, <2>1 DEF SeeReadErr
  <2> QED
    BY <2>2, ReturnKeeps
<1>5. CASE SeeDone
  BY <1>5, ReturnKeeps DEF SeeDone
<1>6. CASE SeeCancel
  BY <1>6, ReturnKeeps DEF SeeCancel
<1> QED
  BY <1>1, <1>2, <1>3, <1>4, <1>5, <1>6

\* Every step keeps the invariant.
THEOREM NextKeepsIInv == IInv /\ [Next]_vars => IInv'
<1> SUFFICES ASSUME IInv, [Next]_vars PROVE IInv'
  OBVIOUS
<1>1. acts \in Seq(ActKinds) /\ res \in Untold
  BY DEF IInv, Types
<1>2. CASE UIStep
  <2>1. CASE LoopEnds
    <3>1. UNCHANGED core /\ ui = "loop" /\ ui' = "ended" /\ UNCHANGED <<acts, res, reader>>
      BY <2>1 DEF LoopEnds, core, attachVars, readerVars, clientVars
    <3> QED
      BY <3>1, <1>1, QuietKeeps
  <2> QED
    BY <1>2, <2>1, DrainKeeps, RunClosureKeeps, ExitsKeep, ExitDrainsKeeps, FrameKeeps, DiffKeeps
       DEF UIStep
<1>3. CASE AttachStep
  BY <1>3, RegisteredKeeps, SendWelcomeKeeps, SeeOutKeeps, ReturnsKeep DEF AttachStep
<1>4. CASE HostEvent \/ Interrupt \/ Subscribe \/ Sent \/ ReaderStep
  BY <1>4, HostEventKeeps, InterruptKeeps, SubscribeKeeps, SentKeeps, ReaderStepKeeps
<1>5. ASSUME NEW kind \in ActKinds, Recv(kind)
      PROVE  IInv'
  BY <1>5, RecvKeeps
<1>6. CASE Quit \/ HalfClose \/ Cancel \/ UNCHANGED vars
  <2>1. UNCHANGED core /\ UNCHANGED <<ui, acts, res, reader>>
    <3>1. CASE Quit
      BY <3>1 DEF Quit, core, attachVars, readerVars, clientVars
    <3>2. CASE HalfClose
      BY <3>2 DEF HalfClose, core, uiSide, uiVars, attachVars, readerVars
    <3>3. CASE Cancel
      BY <3>3 DEF Cancel, core, uiSide, uiVars, attachVars, readerVars
    <3>4. CASE UNCHANGED vars
      BY <3>4 DEF vars, core, uiVars, attachVars, readerVars, clientVars
    <3> QED
      BY <1>6, <3>1, <3>2, <3>3, <3>4
  <2> QED
    BY <2>1, <1>1, QuietKeeps
<1> QED
  BY <1>2, <1>3, <1>4, <1>5, <1>6 DEF Next

\* The invariant holds of every session, whatever its client does.
THEOREM SpecIInv == Spec => []IInv
<1> QED
  BY InitHolds, NextKeepsIInv, PTL DEF Spec

\* No delta is missing from the middle of the sequence (session.go:43-46).
THEOREM SpecNoGap == Spec => []NoGap
<1>1. IInv => NoGap
  <2> SUFFICES ASSUME IInv, Alive, wants PROVE NoGap
    BY DEF NoGap
  <2>1. Contiguous
    BY DEF IInv, Fit
  <2>2. ASSUME NEW i \in 1..Len(Stream), Stream[i].k = "delta"
        PROVE  ShownBefore(Stream[i].frame - 1, i)
    <3>1. Stream[i].frame \in Nat \ {0}
      BY <2>2, StreamIsSeq, MsgKinds DEF Told
    <3>2. PICK f \in Nat : f = Stream[i].frame - 1 /\ Stream[i].frame = f + 1
      BY <3>1
    <3> QED
      BY <2>1, <2>2, <3>2 DEF Contiguous
  <2>3. ShownBefore(Composed, Len(Stream) + 1)
    <3>1. PICK f \in Nat : f = Composed
      BY DEF IInv, Types, Composed
    <3>2. Reached(f)
      BY <2>1, <3>1 DEF Contiguous
    <3>3. Len(Stream) \in Nat /\ (Len(Stream) + 1) - 1 = Len(Stream)
      BY StreamIsSeq
    <3> QED
      BY <3>1, <3>2, <3>3 DEF Reached, ShownBefore
  <2> QED
    BY <2>2, <2>3 DEF NoGap
<1> QED
  BY <1>1, SpecIInv, PTL

\* The client that reads what is queued knows the property (session.go:155-157).
THEOREM SpecClientIsCurrent == Spec => []ClientIsCurrent
<1>1. IInv => ClientIsCurrent
  <2> SUFFICES ASSUME IInv, Alive, ~dirty, ui # "diff"
               PROVE  \/ \E i \in 1..Len(Stream) : Carries(i) /\ Stream[i].val = value
                      \/ client.val = value /\ \A i \in 1..Len(Stream) : ~Carries(i)
    BY DEF ClientIsCurrent
  <2>1. last = value
    BY DEF IInv, Owed, Alive
  <2>2. Knows(value)
    BY <2>1 DEF IInv, Fit
  <2> QED
    BY <2>2 DEF Knows, Carries
<1> QED
  BY <1>1, SpecIInv, PTL

-----------------------------------------------------------------------------
(* The frame, then the acknowledgement.  An act whose first round has run  *)
(* and whose frame has been told is final: nothing moves it any more.  An  *)
(* act is acknowledged when its second round was answered, and that round  *)
(* is drained from the queue only with no frame due, until a signal ends   *)
(* the run: gracefulExit drains from within a Drain.                       *)

\* An act's frame is one that was composed, or the one that is requested.
Due == /\ due \in Seq(Nat) /\ Len(due) = Len(acts)
       /\ \A a \in 1..Len(due) : due[a] <= frame \/ (due[a] = frame + 1 /\ dirty)

\* The rounds that are queued are those of acts received; no exit is under way.
Mine == /\ \A i \in 1..Len(jobs) : jobs[i].who = "reader" => jobs[i].n \in 1..Len(acts)
        /\ \A i \in 1..Len(slice) : slice[i].who = "reader" => slice[i].n \in 1..Len(acts)
        /\ \A i \in 1..Len(jobs) : jobs[i].who # "exit"
        /\ \A i \in 1..Len(slice) : slice[i].who # "exit"
        /\ ui # "hook"

Final(a) == a \in 1..Len(acts) /\ ~Pending(Round("reader", a, 1)) /\ due[a] <= Composed

Queued(r) == \E i \in 1..Len(jobs) : jobs[i] = r

\* A second round follows the first, and waits behind what the first requested.
Settling == /\ reader \in {"fn", "settle"} => Len(acts) \in 1..Len(acts)
            /\ reader = "settle" =>
                 /\ ~Pending(Round("reader", Len(acts), 1))
                 /\ due[Len(acts)] <= Composed \/ Queued(Round("reader", Len(acts), 2))

\* The reader holds, and the stream carries, acknowledgements of final acts.
Held == res.k = "result" => (res.ok => Final(res.act))
Acked == Alive /\ wants =>
  \A i \in 1..Len(Stream) :
    Stream[i].k = "result" =>
      (Stream[i].ok => Final(Stream[i].act) /\ ShownBefore(due[Stream[i].act], i))

AckBase == Due /\ Mine /\ Settling /\ Held
AckInv == AckBase /\ Acked

\* What the steps may do to the acts that are final: nothing.
Stays == \A a \in Nat : Final(a) => Final(a)' /\ due'[a] = due[a]

-----------------------------------------------------------------------------

\* In the beginning there are no acts.
LEMMA InitAck == Init => AckInv
<1> SUFFICES ASSUME Init PROVE AckInv
  OBVIOUS
<1>1. /\ due = <<>> /\ acts = <<>> /\ jobs = <<>> /\ slice = <<>> /\ reader = "none" /\ joined = FALSE
      /\ ui = "loop"
  BY DEF Init
<1>2. due \in Seq(Nat) /\ Len(due) = 0 /\ Len(acts) = 0 /\ Len(jobs) = 0 /\ Len(slice) = 0
  BY <1>1, EmptySeq
<1>3. res.k = "none"
  BY DEF Init, Note
<1>4. Due /\ Mine /\ Settling /\ Held /\ Acked
  BY <1>1, <1>2, <1>3 DEF Due, Mine, Settling, Held, Acked, Alive
<1> QED
  BY <1>4 DEF AckInv, AckBase

\* What the lemmas below take from the types.
LEMMA AckTypes ==
  ASSUME IInv, AckBase
  PROVE  /\ frame \in Nat \ {0} /\ Composed \in Nat /\ Len(acts) \in Nat
         /\ due \in Seq(Nat) /\ Len(due) = Len(acts) /\ \A a \in 1..Len(acts) : due[a] \in Nat
         /\ jobs \in Seq(Rounds) /\ slice \in Seq(Rounds)
         /\ Len(jobs) \in Nat /\ Len(slice) \in Nat
         /\ \A i \in 1..Len(jobs) : jobs[i] \in Rounds
         /\ \A i \in 1..Len(slice) : slice[i] \in Rounds
<1>1. /\ frame \in Nat \ {0} /\ jobs \in Seq(Rounds) /\ slice \in Seq(Rounds) /\ acts \in Seq(ActKinds)
      /\ due \in Seq(Nat) /\ Len(due) = Len(acts)
  BY DEF IInv, Types, AckBase, Due
<1>2. Len(acts) \in Nat /\ Len(jobs) \in Nat /\ Len(slice) \in Nat
  BY <1>1, LenProperties
<1>3. Composed \in Nat
  BY <1>1 DEF Composed
<1>4. \A a \in 1..Len(acts) : due[a] \in Nat
  BY <1>1, ElementOfSeq
<1>5. /\ \A i \in 1..Len(jobs) : jobs[i] \in Rounds
      /\ \A i \in 1..Len(slice) : slice[i] \in Rounds
  BY <1>1, ElementOfSeq
<1> QED
  BY <1>1, <1>2, <1>3, <1>4, <1>5

\* A step that leaves the acts and the rounds alone.
LEMMA AckQuiet ==
  ASSUME IInv, AckBase, UNCHANGED <<jobs, slice, frame, due, acts>>, dirty => dirty',
         ui' = "diff" => ui = "diff", ui' # "hook"
  PROVE  /\ Due' /\ Mine' /\ Stays
         /\ reader' = reader => Settling'
         /\ res' = res => Held'
<1>1. /\ frame \in Nat /\ Composed \in Nat /\ Composed' >= Composed /\ Composed' \in Nat
      /\ Len(acts) \in Nat /\ \A a \in 1..Len(acts) : due[a] \in Nat
  BY AckTypes DEF Composed
<1>2. Due'
  BY DEF AckBase, Due
<1>3. Mine'
  BY DEF AckBase, Mine
<1>4. \A r : (Pending(r)' <=> Pending(r)) /\ (Queued(r)' <=> Queued(r))
  BY DEF Pending, Queued
<1>5. Stays
  <2> SUFFICES ASSUME NEW a \in Nat, Final(a) PROVE Final(a)'
    BY DEF Stays
  <2>1. a \in 1..Len(acts) /\ ~Pending(Round("reader", a, 1)) /\ due[a] <= Composed
    BY DEF Final
  <2>2. ~Pending(Round("reader", a, 1))'
    BY <2>1 DEF Pending, Round
  <2> QED
    BY <2>1, <2>2, <1>1 DEF Final
<1>6. ASSUME reader' = reader
      PROVE  Settling'
  <2>1. ASSUME reader = "settle"
        PROVE  /\ ~Pending(Round("reader", Len(acts), 1))'
               /\ due[Len(acts)] <= Composed' \/ Queued(Round("reader", Len(acts), 2))'
    <3>1. /\ ~Pending(Round("reader", Len(acts), 1)) /\ Len(acts) \in 1..Len(acts)
          /\ due[Len(acts)] <= Composed \/ Queued(Round("reader", Len(acts), 2))
      BY <2>1 DEF AckBase, Settling
    <3>2. ~Pending(Round("reader", Len(acts), 1))'
      BY <3>1 DEF Pending, Round
    <3>3. Queued(Round("reader", Len(acts), 2)) => Queued(Round("reader", Len(acts), 2))'
      BY DEF Queued, Round
    <3> QED
      BY <3>1, <3>2, <3>3, <1>1
  <2> QED
    BY <1>6, <2>1 DEF AckBase, Settling
<1>7. ASSUME res' = res
      PROVE  Held'
  <2>1. ASSUME res.k = "result", res.ok
        PROVE  Final(res.act)'
    <3>1. Final(res.act)
      BY <2>1 DEF AckBase, Held
    <3>2. res.act \in Nat
      BY <3>1, <1>1 DEF Final
    <3>3. Final(res.act) => Final(res.act)'
      BY <3>2, <1>5, <1>7 DEF Stays
    <3> QED
      BY <3>1, <3>3
  <2> QED
    BY <1>7, <2>1 DEF Held
<1> QED
  BY <1>2, <1>3, <1>5, <1>6, <1>7

\* A round is posted: of an act that was received, or of Attach.
LEMMA AckPost ==
  ASSUME IInv, AckBase, NEW r \in Rounds, Post(r), UNCHANGED <<slice, frame, dirty, ui>>,
         \/ UNCHANGED <<acts, due>>
         \/ \E kind \in ActKinds : acts' = Append(acts, kind) /\ due' = Append(due, 0),
         r.who = "reader" => r.n = Len(acts') /\ r.n \in 1..Len(acts'),
         r.who = "reader" /\ r.i = 1 => Len(acts') = Len(acts) + 1, r.who # "exit"
  PROVE  Due' /\ Mine' /\ Stays
<1>1. /\ frame \in Nat /\ Composed \in Nat /\ Composed' = Composed
      /\ Len(acts) \in Nat /\ \A a \in 1..Len(acts) : due[a] \in Nat
      /\ jobs \in Seq(Rounds) /\ due \in Seq(Nat) /\ Len(due) = Len(acts) /\ acts \in Seq(ActKinds)
  BY AckTypes DEF Composed, IInv, Types
<1>2. /\ Len(jobs) \in Nat /\ Len(jobs') = Len(jobs) + 1 /\ jobs'[Len(jobs) + 1] = r
      /\ \A j \in 1..Len(jobs) : jobs'[j] = jobs[j]
      /\ \A j \in 1..Len(jobs') : j \in 1..Len(jobs) \/ j = Len(jobs) + 1
  BY <1>1, AppendProperties, LenProperties DEF Post
<1>3. /\ due' \in Seq(Nat) /\ Len(due') = Len(acts') /\ Len(acts') \in Nat /\ Len(acts) <= Len(acts')
      /\ \A a \in 1..Len(acts) : due'[a] = due[a]
      /\ \A a \in 1..Len(acts') : a \in 1..Len(acts) \/ due'[a] = 0
  <2>1. CASE UNCHANGED <<acts, due>>
    BY <2>1, <1>1
  <2>2. ASSUME NEW kind \in ActKinds, acts' = Append(acts, kind), due' = Append(due, 0)
        PROVE  /\ due' \in Seq(Nat) /\ Len(due') = Len(acts') /\ Len(acts') \in Nat /\ Len(acts) <= Len(acts')
               /\ \A a \in 1..Len(acts) : due'[a] = due[a]
               /\ \A a \in 1..Len(acts') : a \in 1..Len(acts) \/ due'[a] = 0
    <3>1. Len(acts') = Len(acts) + 1
      BY <2>2, <1>1, AppendProperties
    <3>2. /\ due' \in Seq(Nat) /\ Len(due') = Len(due) + 1 /\ due'[Len(due) + 1] = 0
          /\ \A a \in 1..Len(due) : due'[a] = due[a]
      BY <2>2, <1>1, AppendProperties
    <3> QED
      BY <3>1, <3>2, <1>1
  <2> QED
    BY <2>1, <2>2
<1>4. Due'
  BY <1>1, <1>3 DEF AckBase, Due
<1>5. Mine'
  <2>1. ASSUME NEW j \in 1..Len(jobs'), jobs'[j].who = "reader"
        PROVE  jobs'[j].n \in 1..Len(acts')
    <3>1. CASE j \in 1..Len(jobs)
      <4>1. jobs[j].n \in 1..Len(acts) /\ jobs'[j] = jobs[j]
        BY <2>1, <3>1, <1>2 DEF AckBase, Mine
      <4> QED
        BY <4>1, <1>1, <1>3
    <3>2. CASE j = Len(jobs) + 1
      BY <2>1, <3>2, <1>2
    <3> QED
      BY <3>1, <3>2, <1>2
  <2>2. ASSUME NEW j \in 1..Len(slice), slice[j].who = "reader"
        PROVE  slice[j].n \in 1..Len(acts')
    BY <2>2, <1>1, <1>3 DEF AckBase, Mine
  <2>3. ASSUME NEW j \in 1..Len(jobs') PROVE jobs'[j].who # "exit"
    <3>1. CASE j \in 1..Len(jobs)
      BY <3>1, <1>2 DEF AckBase, Mine
    <3>2. CASE j = Len(jobs) + 1
      BY <3>2, <1>2
    <3> QED
      BY <3>1, <3>2, <1>2
  <2> QED
    BY <2>1, <2>2, <2>3 DEF AckBase, Mine
<1>6. Stays
  <2> SUFFICES ASSUME NEW a \in Nat, Final(a) PROVE Final(a)' /\ due'[a] = due[a]
    BY DEF Stays
  <2>1. a \in 1..Len(acts) /\ ~Pending(Round("reader", a, 1)) /\ due[a] <= Composed
    BY DEF Final
  <2>2. r # Round("reader", a, 1)
    BY <2>1, <1>1 DEF Round
  <2>3. ~Pending(Round("reader", a, 1))'
    BY <2>1, <2>2, <1>2 DEF Pending, Round
  <2> QED
    BY <2>1, <2>3, <1>1, <1>3 DEF Final
<1> QED
  BY <1>4, <1>5, <1>6

\* A step that keeps what is final keeps what the reader holds.
LEMMA StaysHeld ==
  ASSUME IInv, AckBase, Stays, res' = res
  PROVE  Held'
<1> SUFFICES ASSUME res.k = "result", res.ok PROVE Final(res.act)'
  BY DEF Held
<1>1. Final(res.act)
  BY DEF AckBase, Held
<1>2. res.act \in Nat
  BY <1>1, AckTypes DEF Final
<1> QED
  BY <1>1, <1>2 DEF Stays

\* Drain is reached with no frame due: what the acts requested was composed.
LEMMA AckDrain == IInv /\ AckBase /\ Drain => AckBase' /\ Stays
<1> SUFFICES ASSUME IInv, AckBase, Drain PROVE AckBase' /\ Stays
  OBVIOUS
<1>1. /\ ui = "loop" /\ ui' = "drain" /\ ~dirty /\ slice' = jobs /\ jobs' = <<>> /\ slice = <<>>
      /\ UNCHANGED <<dirty, frame, due, acts, reader, res>>
  BY DEF Drain, readerVars, IInv, Hands
<1>2. /\ Composed \in Nat /\ Composed' = Composed /\ Composed = frame /\ Len(acts) \in Nat
      /\ \A a \in 1..Len(acts) : due[a] <= Composed
  BY <1>1, AckTypes DEF Composed, AckBase, Due
<1>3. Len(jobs') = 0 /\ Len(slice) = 0
  BY <1>1
<1>4. Due' /\ Mine'
  BY <1>1, <1>3 DEF AckBase, Due, Mine
<1>5. \A a : ~Pending(Round("reader", a, 1)) => ~Pending(Round("reader", a, 1))'
  BY <1>1, <1>3 DEF Pending, Round
<1>6. Stays
  BY <1>1, <1>2, <1>5 DEF Stays, Final
<1>7. Settling'
  BY <1>1, <1>2, <1>5 DEF AckBase, Settling
<1>8. Held'
  BY <1>1, <1>6, StaysHeld
<1> QED
  BY <1>4, <1>6, <1>7, <1>8 DEF AckBase

\* With no exit under way Drain has no farewell in its slice.
LEMMA NoFarewell ==
  ASSUME IInv, AckBase, ui = "drain"
  PROVE  Head(slice) # Farewell
<1>1. slice \in Seq(Rounds) /\ slice # <<>>
  BY DEF IInv, Types, Hands
<1>2. Head(slice) = slice[1] /\ 1 \in 1..Len(slice)
  BY <1>1, HeadThenTail
<1>3. slice[1].who # "exit"
  BY <1>2 DEF AckBase, Mine
<1> QED
  BY <1>2, <1>3, ExitRounds

\* A frame is composed: it is the one the acts requested.
LEMMA AckFrame == IInv /\ AckBase /\ Frame => AckBase' /\ Stays
<1> SUFFICES ASSUME IInv, AckBase, Frame PROVE AckBase' /\ Stays
  OBVIOUS
<1>0. ui = "loop"
  BY NoFarewell DEF Frame
<1>1. /\ ui = "loop" /\ dirty /\ dirty' = FALSE /\ frame' = frame + 1 /\ ui' \in {"diff", "loop"}
      /\ UNCHANGED <<slice, jobs, due, acts, reader, res>>
  BY <1>0 DEF Frame, readerVars
<1>2. /\ frame \in Nat /\ Composed \in Nat /\ Composed' \in Nat /\ Composed' >= Composed /\ Len(acts) \in Nat
      /\ \A a \in 1..Len(acts) : due[a] \in Nat
  BY <1>1, AckTypes DEF Composed
<1>3. Due'
  BY <1>1, <1>2, AckTypes DEF AckBase, Due
<1>4. Mine'
  BY <1>1 DEF AckBase, Mine
<1>5. /\ \A a : ~Pending(Round("reader", a, 1)) => ~Pending(Round("reader", a, 1))'
      /\ \A a : Queued(Round("reader", a, 2)) => Queued(Round("reader", a, 2))'
  BY <1>1 DEF Pending, Queued, Round
<1>6. \A a \in 1..Len(acts) : due[a] <= Composed => due'[a] <= Composed'
  BY <1>1, <1>2
<1>7. Stays
  BY <1>1, <1>5, <1>6 DEF Stays, Final
<1>8. Settling'
  BY <1>1, <1>5, <1>6 DEF AckBase, Settling
<1>9. Held'
  BY <1>1, <1>7, StaysHeld
<1> QED
  BY <1>3, <1>4, <1>7, <1>8, <1>9 DEF AckBase

\* A closure runs: the first round of an act, which is then not final, or
\* another that no act is moved by.
LEMMA AckClosure == IInv /\ AckBase /\ RunClosure => AckBase' /\ Stays
<1> SUFFICES ASSUME IInv, AckBase, RunClosure PROVE AckBase' /\ Stays
  OBVIOUS
<1>1. /\ ui = "drain" /\ ui' \in {"loop", "drain"} /\ slice' = Tail(slice)
      /\ UNCHANGED <<jobs, frame, acts, reader, res>>
  BY DEF RunClosure, readerVars, After
<1>2. slice \in Seq(Rounds) /\ slice # <<>>
  BY <1>1 DEF IInv, Types, Hands
<1>3. PICK r \in Rounds : r = Head(slice) /\ r = slice[1]
  BY <1>2, HeadThenTail
<1>4. /\ Len(slice) \in Nat \ {0} /\ Len(slice') = Len(slice) - 1 /\ Len(slice') \in Nat
      /\ \A i \in 1..Len(slice') : i + 1 \in 1..Len(slice) /\ slice'[i] = slice[i + 1]
      /\ 1 \in 1..Len(slice)
  BY <1>1, <1>2, HeadThenTail, HeadTailProperties
<1>5. /\ frame \in Nat /\ Composed \in Nat /\ Composed' = Composed /\ Composed = frame /\ Len(acts) \in Nat
      /\ due \in Seq(Nat) /\ Len(due) = Len(acts)
  BY <1>1, AckTypes DEF Composed
<1>6. \A a : ~Pending(Round("reader", a, 1)) => ~Pending(Round("reader", a, 1))'
  <2> SUFFICES ASSUME NEW a, Pending(Round("reader", a, 1))' PROVE Pending(Round("reader", a, 1))
    OBVIOUS
  <2>1. CASE \E i \in 1..Len(jobs') : jobs'[i] = Round("reader", a, 1)
    BY <2>1, <1>1 DEF Pending
  <2>2. ASSUME NEW i \in 1..Len(slice'), slice'[i] = Round("reader", a, 1)
        PROVE  Pending(Round("reader", a, 1))
    <3>1. i + 1 \in 1..Len(slice) /\ slice[i + 1] = Round("reader", a, 1)
      BY <2>2, <1>4
    <3> QED
      BY <3>1 DEF Pending
  <2> QED
    BY <2>1, <2>2 DEF Pending, Round
<1>7. \A a : Queued(Round("reader", a, 2)) => Queued(Round("reader", a, 2))'
  BY <1>1 DEF Queued, Round
<1>8. Mine'
  BY <1>1, <1>4 DEF AckBase, Mine
<1>9. /\ due' \in Seq(Nat) /\ Len(due') = Len(acts)
      /\ \A a \in 1..Len(acts) : due'[a] <= frame \/ (due'[a] = frame + 1 /\ dirty')
      /\ \A a \in 1..Len(acts) : ~Pending(Round("reader", a, 1)) => due'[a] = due[a]
  <2>1. CASE r.i = 1 /\ r.who = "reader"
    <3>1. Fn(r.n)
      BY <2>1, <1>3 DEF RunClosure
    <3>2. PICK e : e = (IF dirty' THEN frame + 1 ELSE frame) /\ due' = [due EXCEPT ![r.n] = e]
      BY <3>1 DEF Fn
    <3>3. dirty => dirty'
      BY <3>1 DEF Fn
    <3>4. r.n \in 1..Len(acts) /\ r = Round("reader", r.n, 1)
      BY <2>1, <1>3, <1>4 DEF AckBase, Mine, Rounds, Round
    <3>5. PICK k \in 1..Len(due) : k = r.n
      BY <3>4, <1>5
    <3>6. Pending(Round("reader", k, 1))
      BY <3>4, <3>5, <1>3, <1>4 DEF Pending
    <3>7. /\ due' \in Seq(Nat) /\ Len(due') = Len(due)
          /\ \A a \in 1..Len(due) : due'[a] = IF a = k THEN e ELSE due[a]
      <4>1. e \in Nat
        BY <1>5, <3>2
      <4> QED
        BY <4>1, <3>2, <3>5, <1>5, ExceptSeq
    <3>8. \A a \in 1..Len(acts) : due'[a] <= frame \/ (due'[a] = frame + 1 /\ dirty')
      BY <3>2, <3>3, <3>7, <1>5 DEF AckBase, Due
    <3> QED
      BY <3>6, <3>7, <3>8, <1>5
  <2>2. CASE ~(r.i = 1 /\ r.who = "reader")
    <3>1. UNCHANGED <<dirty, due>>
      BY <2>2, <1>3 DEF RunClosure
    <3> QED
      BY <3>1, <1>5 DEF AckBase, Due
  <2> QED
    BY <2>1, <2>2
<1>10. Due'
  BY <1>1, <1>9 DEF Due
<1>11. Stays
  BY <1>1, <1>5, <1>6, <1>9 DEF Stays, Final
<1>12. Settling'
  BY <1>1, <1>5, <1>6, <1>7, <1>9 DEF AckBase, Settling
<1>13. Held'
  BY <1>1, <1>11, StaysHeld
<1> QED
  BY <1>8, <1>10, <1>11, <1>12, <1>13 DEF AckBase

\* A round is what it was made of.
LEMMA RoundsAreRounds ==
  /\ \A k \in Nat, i \in {1, 2} :
       /\ Round("reader", k, i) \in Rounds
       /\ Round("reader", k, i).who = "reader" /\ Round("reader", k, i).n = k /\ Round("reader", k, i).i = i
  /\ \A i \in {1, 2} : Round("attach", 0, i) \in Rounds /\ Round("attach", 0, i).who = "attach"
<1>1. ASSUME NEW k \in Nat, NEW i \in {1, 2}
      PROVE  /\ Round("reader", k, i) \in Rounds
             /\ Round("reader", k, i).who = "reader" /\ Round("reader", k, i).n = k
             /\ Round("reader", k, i).i = i
  BY DEF Rounds, Round
<1>2. ASSUME NEW i \in {1, 2}
      PROVE  Round("attach", 0, i) \in Rounds /\ Round("attach", 0, i).who = "attach"
  BY DEF Rounds, Round
<1> QED
  BY <1>1, <1>2

\* The reader's steps: it acknowledges an act whose second round was answered.
LEMMA AckReader == IInv /\ AckBase /\ ReaderStep => AckBase' /\ Stays
<1> SUFFICES ASSUME IInv, AckBase, ReaderStep PROVE AckBase' /\ Stays
  OBVIOUS
<1>1. UNCHANGED <<ui, slice, frame, dirty, due, acts>>
  BY DEF ReaderStep, RecvFails, FnAnswered, Settled, ActTimesOut, Answer, AnswerGivenUp, ReaderReturns,
         readSide, uiSide, uiVars
<1>2. jobs' = jobs => /\ Due' /\ Mine' /\ Stays
                      /\ reader' = reader => Settling'
                      /\ res' = res => Held'
  BY <1>1, AckQuiet DEF AckBase, Mine
<1>3. Len(acts) \in Nat
  BY AckTypes
<1>4. CASE RecvFails \/ AnswerGivenUp \/ Answer
  <2>1. jobs' = jobs /\ reader' \in {"recv", "return"} /\ res'.k \in {"eof", "cancelled", "nil", "none"}
    BY <1>4 DEF RecvFails, AnswerGivenUp, Answer, Note
  <2> QED
    BY <2>1, <1>2 DEF AckBase, Settling, Held
<1>5. CASE ReaderReturns
  <2>1. jobs' = jobs /\ reader' = "gone" /\ res' = res
    BY <1>5 DEF ReaderReturns
  <2> QED
    BY <2>1, <1>2 DEF AckBase, Settling
<1>6. CASE ActTimesOut
  <2>1. jobs' = jobs /\ reader' = "answer" /\ ~res'.ok
    BY <1>6 DEF ActTimesOut, Result
  <2> QED
    BY <2>1, <1>2 DEF AckBase, Settling, Held
<1>7. CASE Settled
  <2>1. /\ jobs' = jobs /\ reader = "settle" /\ reader' = "answer" /\ res'.act = Len(acts)
        /\ ~Pending(Round("reader", Len(acts), 2))
    BY <1>7 DEF Settled, Result, n
  <2>2. PICK a \in Nat : a = Len(acts)
    BY <1>3
  <2>3. ~Queued(Round("reader", Len(acts), 2))
    BY <2>1 DEF Pending, Queued
  <2>4. a \in 1..Len(acts) /\ ~Pending(Round("reader", a, 1)) /\ due[a] <= Composed
    BY <2>1, <2>2, <2>3 DEF AckBase, Settling
  <2>5. Final(a)
    BY <2>4 DEF Final
  <2>6. Final(a)'
    BY <2>1, <2>5, <1>2 DEF Stays
  <2>7. Held'
    BY <2>1, <2>2, <2>6 DEF Held
  <2> QED
    BY <2>1, <2>7, <1>2 DEF AckBase, Settling
<1>8. CASE FnAnswered /\ acts[n] = "fails"
  <2>1. jobs' = jobs /\ reader' = "answer" /\ ~res'.ok
    BY <1>8 DEF FnAnswered, Result
  <2> QED
    BY <2>1, <1>2 DEF AckBase, Settling, Held
<1>9. CASE FnAnswered /\ acts[n] # "fails"
  <2>1. /\ reader = "fn" /\ reader' = "settle" /\ res' = res /\ Post(Round("reader", Len(acts), 2))
        /\ ~Pending(Round("reader", Len(acts), 1))
    BY <1>9 DEF FnAnswered, n
  <2>2. Len(acts) \in 1..Len(acts)
    BY <2>1 DEF AckBase, Settling
  <2>3. PICK r \in Rounds : /\ r = Round("reader", Len(acts), 2)
                            /\ r.who = "reader" /\ r.n = Len(acts) /\ r.i = 2
    BY <1>3, RoundsAreRounds
  <2>4. Post(r)
    BY <2>1, <2>3
  <2>5. Due' /\ Mine' /\ Stays
    BY <1>1, <2>2, <2>3, <2>4, AckPost
  <2>6. jobs \in Seq(Rounds) /\ jobs' = Append(jobs, r)
    BY <2>4, AckTypes DEF Post
  <2>7. /\ Len(jobs') = Len(jobs) + 1 /\ jobs'[Len(jobs) + 1] = r /\ Len(jobs) \in Nat
        /\ \A j \in 1..Len(jobs) : jobs'[j] = jobs[j]
        /\ \A j \in 1..Len(jobs') : j \in 1..Len(jobs) \/ j = Len(jobs) + 1
    BY <2>6, AppendProperties, LenProperties
  <2>8. Queued(Round("reader", Len(acts), 2))'
    <3>1. Len(jobs) + 1 \in 1..Len(jobs')
      BY <2>7
    <3> QED
      BY <3>1, <2>3, <2>7, <1>1 DEF Queued, Round
  <2>9. ~Pending(Round("reader", Len(acts), 1))'
    <3>1. r # Round("reader", Len(acts), 1)
      BY <2>3 DEF Round
    <3> QED
      BY <3>1, <2>1, <2>7, <1>1 DEF Pending, Round
  <2>10. Settling'
    BY <2>1, <2>2, <2>8, <2>9, <1>1 DEF Settling
  <2>11. Held'
    BY <2>1, <2>5, StaysHeld
  <2> QED
    BY <2>5, <2>10, <2>11 DEF AckBase
<1> QED
  BY <1>4, <1>5, <1>6, <1>7, <1>8, <1>9 DEF ReaderStep

\* An act arrives: its frame is yet to be known.
LEMMA AckRecv == ASSUME IInv, AckBase, NEW kind \in ActKinds, Recv(kind) PROVE AckBase' /\ Stays
<1>1. /\ acts' = Append(acts, kind) /\ due' = Append(due, 0)
      /\ UNCHANGED <<ui, slice, frame, dirty>>
  BY DEF Recv, uiVars
<1>2. /\ acts \in Seq(ActKinds) /\ due \in Seq(Nat) /\ Len(due) = Len(acts) /\ Len(acts) \in Nat
      /\ frame \in Nat /\ Composed \in Nat /\ Composed' = Composed
  BY <1>1, AckTypes DEF IInv, Types, Composed
<1>3. /\ Len(acts') = Len(acts) + 1 /\ Len(due') = Len(acts) + 1 /\ due' \in Seq(Nat)
      /\ due'[Len(acts) + 1] = 0
      /\ \A a \in 1..Len(acts) : due'[a] = due[a]
  <2>1. Len(acts') = Len(acts) + 1
    BY <1>1, <1>2, AppendProperties
  <2> QED
    BY <2>1, <1>1, <1>2, AppendProperties
<1>4. CASE kind = "malformed"
  <2>1. jobs' = jobs /\ reader' = "answer" /\ ~res'.ok
    BY <1>4 DEF Recv, Result
  <2>2. Due'
    BY <1>1, <1>2, <1>3 DEF AckBase, Due
  <2>3. Mine'
    BY <1>1, <1>2, <1>3, <2>1 DEF AckBase, Mine
  <2>4. Stays
    <3> SUFFICES ASSUME NEW a \in Nat, Final(a) PROVE Final(a)' /\ due'[a] = due[a]
      BY DEF Stays
    <3>1. a \in 1..Len(acts) /\ ~Pending(Round("reader", a, 1)) /\ due[a] <= Composed
      BY DEF Final
    <3>2. ~Pending(Round("reader", a, 1))'
      BY <3>1, <2>1, <1>1 DEF Pending, Round
    <3> QED
      BY <3>1, <3>2, <1>2, <1>3 DEF Final
  <2> QED
    BY <2>1, <2>2, <2>3, <2>4 DEF AckBase, Settling, Held
<1>5. CASE kind # "malformed"
  <2>1. reader' = "fn" /\ res' = res /\ Post(Round("reader", Len(acts) + 1, 1))
    BY <1>5 DEF Recv, n
  <2>2. PICK r \in Rounds : /\ r = Round("reader", Len(acts) + 1, 1)
                            /\ r.who = "reader" /\ r.n = Len(acts) + 1
    <3>1. Len(acts) + 1 \in Nat
      BY <1>2
    <3> QED
      BY <3>1, RoundsAreRounds
  <2>3. Post(r)
    BY <2>1, <2>2
  <2>4. r.n = Len(acts') /\ r.n \in 1..Len(acts')
    BY <2>2, <1>2, <1>3
  <2>5. Due' /\ Mine' /\ Stays
    BY <1>1, <1>3, <2>2, <2>3, <2>4, AckPost
  <2>6. Settling'
    BY <2>1, <2>2, <2>4 DEF Settling
  <2>7. Held'
    BY <2>1, <2>5, StaysHeld
  <2> QED
    BY <2>5, <2>6, <2>7 DEF AckBase
<1> QED
  BY <1>4, <1>5

\* Attach's own rounds, and a signal's, are no acts.
LEMMA AckOtherPosts == IInv /\ AckBase /\ (Subscribe \/ Registered \/ Interrupt) => AckBase' /\ Stays
<1> SUFFICES ASSUME IInv, AckBase, Subscribe \/ Registered \/ Interrupt PROVE AckBase' /\ Stays
  OBVIOUS
<1>2. UNCHANGED <<ui, slice, frame, dirty, due, acts, reader, res>>
  BY DEF Subscribe, Registered, Interrupt, uiSide, uiVars, readerVars
<1>3. PICK r \in Rounds : Post(r) /\ r.who \in {"attach", "signal"}
  <2>1. CASE Subscribe \/ Registered
    <3>1. \E i \in {1, 2} : Post(Round("attach", 0, i))
      BY <2>1 DEF Subscribe, Registered
    <3> QED
      BY <3>1, RoundsAreRounds
  <2>2. CASE Interrupt
    BY <2>2, ExitRounds DEF Interrupt
  <2> QED
    BY <2>1, <2>2
<1>4. Due' /\ Mine' /\ Stays
  BY <1>2, <1>3, AckPost
<1>5. jobs \in Seq(Rounds) /\ jobs' = Append(jobs, r)
  BY <1>3, AckTypes DEF Post
<1>6. /\ Len(jobs') = Len(jobs) + 1 /\ jobs'[Len(jobs) + 1] = r /\ Len(jobs) \in Nat
      /\ \A j \in 1..Len(jobs) : jobs'[j] = jobs[j] /\ j \in 1..Len(jobs')
      /\ \A j \in 1..Len(jobs') : j \in 1..Len(jobs) \/ j = Len(jobs) + 1
  BY <1>5, AppendProperties, LenProperties
<1>7. ~Pending(Round("reader", Len(acts), 1)) => ~Pending(Round("reader", Len(acts), 1))'
  <2>1. r # Round("reader", Len(acts), 1)
    BY <1>3 DEF Round
  <2> QED
    BY <2>1, <1>6, <1>2 DEF Pending, Round
<1>8. Queued(Round("reader", Len(acts), 2)) => Queued(Round("reader", Len(acts), 2))'
  BY <1>6, <1>2 DEF Queued, Round
<1>9. Settling'
  <2>1. Composed' = Composed
    BY <1>2 DEF Composed
  <2> QED
    BY <2>1, <1>2, <1>7, <1>8 DEF AckBase, Settling
<1>10. Held'
  BY <1>2, <1>4, StaysHeld
<1> QED
  BY <1>4, <1>9, <1>10 DEF AckBase

\* Attach's other steps, the host's and the client's touch no act.
LEMMA AckOthers ==
  ASSUME IInv, AckBase,
         \/ Diff \/ LoopEnds \/ HostEvent \/ Quit \/ HalfClose \/ Cancel \/ SendWelcome \/ Sent
         \/ AttachTimesOut \/ SendFails \/ SeeOut \/ SeeLost \/ SeeReadErr \/ SeeDone \/ SeeCancel
         \/ UNCHANGED vars
  PROVE  AckBase' /\ Stays
<1>1. CASE Diff \/ LoopEnds \/ HostEvent \/ Quit
  <2>1. /\ UNCHANGED <<jobs, slice, frame, due, acts, reader, res>>
        /\ (ui' = "diff" => ui = "diff") /\ ui' # "hook"
    BY <1>1 DEF Diff, LoopEnds, HostEvent, Quit, readerVars, After, AckBase, Mine
  <2>2. dirty => dirty'
    BY <1>1 DEF Diff, LoopEnds, HostEvent, HostSets, HostResizes, HostKey, Quit
  <2> QED
    BY <2>1, <2>2, AckQuiet DEF AckBase
<1>2. CASE HalfClose \/ Cancel \/ SendWelcome \/ SeeOut \/ UNCHANGED vars
  <2>1. UNCHANGED <<jobs, slice, frame, due, acts, reader, res, ui, dirty>>
    BY <1>2 DEF HalfClose, Cancel, SendWelcome, SeeOut, readerVars, uiSide, uiVars, vars
  <2> QED
    BY <2>1, AckQuiet DEF AckBase, Mine
<1>3. CASE AttachTimesOut \/ SendFails \/ SeeLost \/ SeeReadErr \/ SeeDone \/ SeeCancel
  <2>1. UNCHANGED <<jobs, slice, frame, due, acts, reader, res, ui, dirty>>
    BY <1>3 DEF AttachTimesOut, SendFails, SeeLost, SeeReadErr, SeeDone, SeeCancel, Return, readerVars, uiVars
  <2> QED
    BY <2>1, AckQuiet DEF AckBase, Mine
<1>4. CASE Sent
  <2>1. /\ UNCHANGED <<jobs, slice, frame, due, acts, res, ui, dirty>>
        /\ reader' = reader \/ reader' = "recv"
    BY <1>4 DEF Sent, uiSide, uiVars
  <2>2. Due' /\ Mine' /\ Stays /\ Held'
    BY <2>1, AckQuiet DEF AckBase, Mine
  <2>3. Settling'
    BY <2>1, AckQuiet DEF Settling, AckBase, Mine
  <2> QED
    BY <2>2, <2>3 DEF AckBase
<1> QED
  BY <1>1, <1>2, <1>3, <1>4

\* Once the exit has begun it is not undone.
LEMMA ExitStays == exitSig /\ [Next]_vars => exitSig'
<1> SUFFICES ASSUME exitSig, [Next]_vars PROVE exitSig'
  OBVIOUS
<1>1. CASE UIStep \/ HostEvent \/ Quit
  BY <1>1 DEF UIStep, Drain, RunClosure, GracefulExit, ExitDrains, ExitQuits, Frame, Diff, LoopEnds,
              HostEvent, Quit
<1>2. CASE AttachStep \/ Subscribe \/ Sent \/ Interrupt
  BY <1>2 DEF AttachStep, Registered, SendWelcome, AttachTimesOut, SendFails, SeeOut, SeeLost, SeeReadErr,
              SeeDone, SeeCancel, Return, Subscribe, Sent, Interrupt, uiSide, uiVars
<1>3. CASE \/ ReaderStep \/ HalfClose \/ Cancel \/ UNCHANGED vars
           \/ \E kind \in ActKinds : Recv(kind)
  BY <1>3 DEF ReaderStep, RecvFails, FnAnswered, Settled, ActTimesOut, Answer, AnswerGivenUp, ReaderReturns,
              HalfClose, Cancel, Recv, readSide, uiSide, uiVars, vars
<1> QED
  BY <1>1, <1>2, <1>3 DEF Next

\* So for every step until a signal ends the run.
LEMMA NextAckBase == IInv /\ AckBase /\ [Next]_vars /\ ~exitSig' => AckBase' /\ Stays
<1> SUFFICES ASSUME IInv, AckBase, [Next]_vars, ~exitSig' PROVE AckBase' /\ Stays
  OBVIOUS
<1>1. CASE UIStep
  <2>1. ~GracefulExit
    BY DEF GracefulExit
  <2>2. ~ExitDrains
    BY DEF ExitDrains, AckBase, Mine
  <2>3. ~ExitQuits
    BY NoFarewell DEF ExitQuits
  <2> QED
    BY <1>1, <2>1, <2>2, <2>3, AckDrain, AckClosure, AckFrame, AckOthers DEF UIStep
<1>2. CASE AttachStep
  BY <1>2, AckOtherPosts, AckOthers DEF AttachStep
<1>3. CASE Interrupt \/ Subscribe \/ Sent \/ HostEvent \/ Quit \/ HalfClose \/ Cancel \/ UNCHANGED vars
  BY <1>3, AckOtherPosts, AckOthers
<1>4. CASE \E kind \in ActKinds : Recv(kind)
  BY <1>4, AckRecv
<1>5. CASE ReaderStep
  BY <1>5, AckReader
<1> QED
  BY <1>1, <1>2, <1>3, <1>4, <1>5 DEF Next

-----------------------------------------------------------------------------

\* What a step does to the stream of a session that it leaves alive.
Moved == \/ Alive /\ Stream' = Stream /\ client' = client
         \/ /\ Alive /\ client' = client
            /\ \E m \in Msgs : Stream' = Append(Stream, m) /\ (m.k = "result" => m = res)
         \/ /\ Alive
            /\ \E m \in Msgs, rest \in Seq(Msgs) :
                 /\ Stream = <<m>> \o rest /\ Stream' = rest
                 /\ client' = IF Told(m) THEN [frame |-> m.frame,
                                               val |-> IF m.val = "same" THEN client.val ELSE m.val]
                              ELSE client
         \/ Len(Stream') = 1 /\ Stream'[1] \in ToldMsgs

\* A push adds to the stream, or is the end of it.
LEMMA PushMoves ==
  ASSUME IInv, NEW m \in Msgs, Broadcast(m) \/ (joined /\ Push(m)), m.k # "result", Alive',
         UNCHANGED <<attach, joined, welcome, msg, client, status>>
  PROVE  Moved
<1>1. joined /\ Push(m) /\ status = "open" /\ ~lost'
  BY DEF Broadcast, Alive
<1>2. out' = Append(out, m) /\ lost' = lost
  BY <1>1 DEF Push
<1>3. Alive
  BY <1>1, <1>2 DEF Alive
<1>4. Stream' = Append(Stream, m)
  BY <1>2, <1>3, PushedIsLast
<1> QED
  BY <1>3, <1>4 DEF Moved

\* The notes are messages, and no results.
LEMMA NotesAreMsgs ==
  \A what \in {"swapped", "echo", "resized"} : Note(what) \in Msgs /\ Note(what).k # "result"
BY DEF Note, Msgs, Untold, Notes

\* The UI goroutine's steps push, or make the Welcome.
LEMMA UIMoves == IInv /\ (UIStep \/ HostEvent \/ Quit \/ Interrupt) /\ Alive' => Moved
<1> SUFFICES ASSUME IInv, UIStep \/ HostEvent \/ Quit \/ Interrupt, Alive' PROVE Moved
  OBVIOUS
<1>1. UNCHANGED <<attach, msg, status, client, wants>>
  BY DEF UIStep, Drain, RunClosure, GracefulExit, ExitDrains, ExitQuits, Frame, Diff, LoopEnds,
         HostEvent, Quit, Interrupt, attachVars, clientVars
<1>2. ASSUME UNCHANGED <<joined, welcome, out, lost>>
      PROVE  Moved
    BY <1>1, <1>2 DEF Moved, Alive, Stream
<1>3. ASSUME UNCHANGED <<joined, welcome>>, NEW what \in {"swapped", "echo", "resized"}, Broadcast(Note(what))
      PROVE  Moved
    <2>1. PICK m \in Msgs : m = Note(what) /\ m.k # "result"
      BY <1>3, NotesAreMsgs
    <2>2. Broadcast(m)
      BY <1>3, <2>1
    <2> QED
      BY <1>1, <1>3, <2>1, <2>2, PushMoves
<1>4. CASE Drain \/ GracefulExit \/ ExitDrains \/ ExitQuits \/ LoopEnds \/ Quit \/ Interrupt
  BY <1>2, <1>4 DEF Drain, GracefulExit, ExitDrains, ExitQuits, LoopEnds, Quit, Interrupt, uiSide
<1>5. CASE HostEvent
  <2>1. UNCHANGED <<joined, welcome>> /\ (UNCHANGED <<out, lost>> \/ Broadcast(Note("echo")))
    BY <1>5 DEF HostEvent, HostSets, HostResizes, HostKey
  <2> QED
    BY <2>1, <1>2, <1>3
<1>6. CASE Frame
  <2>1. UNCHANGED <<joined, welcome>> /\ (UNCHANGED <<out, lost>> \/ Broadcast(Note("resized")))
    BY <1>6 DEF Frame
  <2> QED
    BY <2>1, <1>2, <1>3
<1>7. CASE Diff
  <2>1. PICK m : m = Delta(frame, IF last = value THEN "same" ELSE value)
    OBVIOUS
  <2>2. UNCHANGED <<joined, welcome>> /\ (UNCHANGED <<out, lost>> \/ Push(m))
    BY <1>7, <2>1 DEF Diff
  <2>3. m \in Msgs /\ m.k # "result"
    <3>1. frame \in Nat \ {0} /\ value \in Values
      BY DEF IInv, Types
    <3> QED
      BY <3>1, <2>1 DEF Delta, ToldMsgs, Msgs
  <2>4. joined
    BY <2>2 DEF Alive
  <2> QED
    BY <1>1, <1>2, <2>2, <2>3, <2>4, PushMoves
<1>8. CASE RunClosure
  <2>1. PICK r \in Rounds : r = Head(slice)
    BY <1>8, ClosureRuns
  <2>2. r.i = 1 /\ r.who = "attach" <=> r = First
    BY DEF Rounds, First, Round
  <2>3. CASE r = First
    <3>1. Register /\ UNCHANGED <<value, dirty, out, lost>>
      BY <1>8, <2>1, <2>2, <2>3 DEF RunClosure
    <3>2. joined' = TRUE /\ welcome' = Welcome(frame, value) /\ UNCHANGED <<out, lost>>
      BY <3>1 DEF Register
    <3>3. status = "open" /\ ~Nowhere
      BY <1>1, <1>8, <2>1, <2>3, ClosureRuns DEF Alive
    <3>4. attach = "register" /\ ~joined /\ out = <<>> /\ msg = <<>>
      BY <3>3 DEF IInv, Joining, Hands, Types
    <3>5. Stream' = (<<welcome'>> \o <<>>) \o <<>>
      BY <1>1, <3>2, <3>4 DEF Stream
    <3>6. PICK w \in ToldMsgs : w = welcome'
      <4>1. frame \in Nat \ {0} /\ value \in Values
        BY DEF IInv, Types
      <4> QED
        BY <4>1, <3>2 DEF Welcome, ToldMsgs
    <3>7. <<w>> \in Seq(ToldMsgs) /\ <<w>> \o <<>> = <<w>>
      BY ConcatEmptySeq
    <3>8. Stream' = <<w>>
      BY <3>5, <3>6, <3>7
    <3> QED
      BY <3>8 DEF Moved
  <2>4. CASE r # First /\ r.i = 1 /\ r.who = "reader"
    <3>1. Fn(r.n) /\ UNCHANGED <<joined, last, welcome>>
      BY <1>8, <2>1, <2>4 DEF RunClosure
    <3>2. PICK kind : kind = acts[r.n]
      OBVIOUS
    <3>3. CASE kind= "swap"
      <4>1. Broadcast(Note("swapped"))
        BY <3>1, <3>2, <3>3 DEF Fn
      <4> QED
        BY <4>1, <3>1, <1>3
    <3>4. CASE kind = "keys"
      <4>1. Broadcast(Note("echo"))
        BY <3>1, <3>2, <3>4 DEF Fn
      <4> QED
        BY <4>1, <3>1, <1>3
    <3>5. CASE kind \notin {"swap", "keys"}
      <4>1. UNCHANGED <<out, lost>>
        BY <3>1, <3>2, <3>5 DEF Fn
      <4> QED
        BY <4>1, <3>1, <1>2
    <3> QED
      BY <3>3, <3>4, <3>5
  <2>5. CASE r # First /\ ~(r.i = 1 /\ r.who = "reader")
    <3>1. UNCHANGED <<out, lost, joined, welcome>>
      BY <1>8, <2>1, <2>2, <2>5 DEF RunClosure
    <3> QED
      BY <3>1, <1>2
  <2> QED
    BY <2>3, <2>4, <2>5
<1> QED
  BY <1>4, <1>5, <1>6, <1>7, <1>8 DEF UIStep

\* Attach moves the stream on, and its end is the session's.
LEMMA AttachMoves == IInv /\ (AttachStep \/ Subscribe \/ Sent) /\ Alive' => Moved
<1> SUFFICES ASSUME IInv, AttachStep \/ Subscribe \/ Sent, Alive' PROVE Moved
  OBVIOUS
<1>1. CASE AttachTimesOut \/ SendFails \/ SeeLost \/ SeeReadErr \/ SeeDone \/ SeeCancel
  <2>1. status' # "open"
    BY <1>1 DEF AttachTimesOut, SendFails, SeeLost, SeeReadErr, SeeDone, SeeCancel, Return
  <2> QED
    BY <2>1 DEF Alive
<1>2. CASE Subscribe \/ Registered
  <2>1. UNCHANGED <<joined, welcome, out, lost, msg, status, client>>
    BY <1>2 DEF Subscribe, Registered, uiSide
  <2>2. \/ attach = "idle" /\ attach' = "register"
        \/ attach = "register" /\ attach' = "settle"
    BY <1>2 DEF Subscribe, Registered
  <2>3. Alive
    BY <2>1 DEF Alive
  <2>4. attach # "idle"
    BY <2>3 DEF Alive, IInv, Joining
  <2> QED
    BY <2>1, <2>2, <2>3, <2>4 DEF Moved, Stream
<1>3. CASE SendWelcome
  <2>1. /\ attach = "settle" /\ attach' = "sending" /\ msg' = <<welcome>>
        /\ UNCHANGED <<joined, welcome, out, lost, status, client>>
    BY <1>3 DEF SendWelcome, uiSide
  <2>2. Alive /\ joined /\ msg = <<>> /\ welcome \in ToldMsgs
    BY <2>1 DEF Alive, IInv, Hands, Joining
  <2>3. <<welcome>> \in Seq(ToldMsgs)
    BY <2>2
  <2>4. <<welcome>> \o <<>> = <<welcome>> /\ <<>> \o <<welcome>> = <<welcome>>
    BY <2>3, ConcatEmptySeq
  <2>5. Stream = (<<welcome>> \o <<>>) \o out /\ Stream' = (<<>> \o <<welcome>>) \o out
    BY <2>1, <2>2 DEF Stream
  <2> QED
    BY <2>1, <2>2, <2>4, <2>5 DEF Moved
<1>4. CASE SeeOut
  <2>1. /\ attach = "serve" /\ attach' = "sending" /\ out # <<>>
        /\ msg' = <<Head(out)>> /\ out' = Tail(out)
        /\ UNCHANGED <<joined, welcome, lost, status, client>>
    BY <1>4 DEF SeeOut, uiSide
  <2>2. Alive /\ out \in Seq(Msgs)
    BY <2>1 DEF Alive, IInv, Types
  <2>3. <<Head(out)>> \o Tail(out) = out /\ Head(out) \in Msgs
    BY <2>1, <2>2, HeadThenTail
  <2>4. <<Head(out)>> \in Seq(Msgs)
    BY <2>3
  <2>5. <<>> \o <<Head(out)>> = <<Head(out)>>
    BY <2>4, ConcatEmptySeq
  <2>6. Stream = out /\ Stream' = (<<>> \o <<Head(out)>>) \o Tail(out)
    BY <2>1, StreamServing DEF Stream
  <2> QED
    BY <2>1, <2>2, <2>3, <2>5, <2>6 DEF Moved
<1>5. CASE Sent
  <2>1. /\ attach = "sending" /\ attach' = "serve" /\ msg' = <<>>
        /\ client' = IF Told(Head(msg))
                     THEN [frame |-> Head(msg).frame,
                           val |-> IF Head(msg).val = "same" THEN client.val ELSE Head(msg).val]
                     ELSE client
        /\ UNCHANGED <<joined, welcome, out, lost, status>>
    BY <1>5 DEF Sent, uiSide
  <2>2. PICK m \in Msgs : msg = <<m>>
    BY <2>1 DEF IInv, Hands
  <2>3. client' = IF Told(m) THEN [frame |-> m.frame,
                                   val |-> IF m.val = "same" THEN client.val ELSE m.val]
                  ELSE client
    BY <2>1, <2>2
  <2>4. Alive /\ out \in Seq(Msgs) /\ <<>> \in Seq(Msgs)
    BY <2>1, EmptySeq DEF Alive, IInv, Types
  <2>5. Stream = <<m>> \o out
    BY <2>1, <2>2, StreamServing
  <2>6. Stream' = out
    <3>1. Stream' = (<<>> \o <<>>) \o out
      BY <2>1 DEF Stream
    <3> QED
      BY <3>1, <2>4, ConcatEmptySeq
  <2> QED
    BY <2>3, <2>4, <2>5, <2>6 DEF Moved
<1> QED
  BY <1>1, <1>2, <1>3, <1>4, <1>5 DEF AttachStep

\* The reader queues what it holds; the client and the transport queue nothing.
LEMMA OtherMoves ==
  ASSUME IInv, ReaderStep \/ HalfClose \/ Cancel \/ UNCHANGED vars \/ (\E kind \in ActKinds : Recv(kind)),
         Alive'
  PROVE  Moved
<1>1. UNCHANGED <<joined, welcome, lost, attach, msg, status, client>>
  BY DEF ReaderStep, RecvFails, FnAnswered, Settled, ActTimesOut, Answer, AnswerGivenUp, ReaderReturns,
         HalfClose, Cancel, Recv, readSide, uiSide, attachVars, vars
<1>2. Alive
  BY <1>1 DEF Alive
<1>3. CASE Answer
  <2>1. PICK m \in Msgs : m = res
    BY MsgKinds DEF IInv, Types
  <2>2. out' = Append(out, m)
    BY <1>3, <2>1 DEF Answer
  <2>3. Stream' = Append(Stream, m)
    BY <1>1, <1>2, <2>2, PushedIsLast
  <2> QED
    BY <1>1, <1>2, <2>1, <2>3 DEF Moved
<1>4. CASE ~Answer
  <2>1. out' = out
    BY <1>4 DEF ReaderStep, RecvFails, FnAnswered, Settled, ActTimesOut, AnswerGivenUp, ReaderReturns,
         HalfClose, Cancel, Recv, vars
  <2> QED
    BY <1>1, <1>2, <2>1 DEF Moved, Stream
<1> QED
  BY <1>3, <1>4

\* So for every step; what the client wants it wants for good.
LEMMA NextMoves == IInv /\ [Next]_vars => (Alive' => Moved) /\ wants' = wants
<1>1. IInv /\ [Next]_vars /\ Alive' => Moved
  BY UIMoves, AttachMoves, OtherMoves DEF Next
<1>2. UIStep \/ HostEvent \/ Quit \/ Interrupt => wants' = wants
  BY DEF UIStep, Drain, RunClosure, GracefulExit, ExitDrains, ExitQuits, Frame, Diff, LoopEnds,
         HostEvent, Quit, Interrupt, clientVars
<1>3. AttachStep \/ Subscribe \/ Sent => wants' = wants
  BY DEF AttachStep, Registered, SendWelcome, AttachTimesOut, SendFails, SeeOut, SeeLost, SeeReadErr,
         SeeDone, SeeCancel, Return, Subscribe, Sent, clientVars
<1>4. ReaderStep \/ HalfClose \/ Cancel \/ UNCHANGED vars \/ (\E kind \in ActKinds : Recv(kind))
        => wants' = wants
  BY DEF ReaderStep, RecvFails, FnAnswered, Settled, ActTimesOut, Answer, AnswerGivenUp, ReaderReturns,
         HalfClose, Cancel, Recv, readSide, clientVars, vars
<1> QED
  BY <1>1, <1>2, <1>3, <1>4 DEF Next

-----------------------------------------------------------------------------

\* Whatever a step does to the stream, ahead of an acknowledgement stays the
\* frame that was ahead of it, or the client has read it.
LEMMA NextAcked == IInv /\ AckInv /\ [Next]_vars /\ ~exitSig' => Acked'
<1> SUFFICES ASSUME IInv, AckInv, [Next]_vars, ~exitSig', Alive', wants',
                    NEW i \in 1..Len(Stream'), Stream'[i].k = "result", Stream'[i].ok
             PROVE  (Final(Stream[i].act) /\ ShownBefore(due[Stream[i].act], i))'
  BY DEF Acked
<1>1. Stays /\ Moved /\ wants
  BY NextAckBase, NextMoves DEF AckInv
<1>2. \A a \in Nat : Final(a) => Final(a)' /\ due'[a] = due[a] /\ due[a] \in Nat /\ due[a] <= Composed
  BY <1>1, AckTypes DEF Stays, Final, AckInv
<1>3. \A a : Final(a) => a \in Nat
  BY AckTypes DEF Final, AckInv
<1>4. ASSUME Alive
      PROVE  \A j \in 1..Len(Stream) : Stream[j].k = "result" /\ Stream[j].ok =>
               Final(Stream[j].act) /\ ShownBefore(due[Stream[j].act], j)
  BY <1>1, <1>4 DEF AckInv, Acked
<1>5. CASE Alive /\ Stream' = Stream /\ client' = client
  <2>1. PICK a : a = Stream'[i].act
    OBVIOUS
  <2>2. Final(a) /\ ShownBefore(due[a], i)
    BY <2>1, <1>4, <1>5
  <2>3. a \in Nat /\ Final(a)' /\ due'[a] = due[a]
    BY <2>2, <1>2, <1>3
  <2>4. ShownBefore(due[a], i)'
    BY <2>2, <2>3, <1>5 DEF ShownBefore
  <2> QED
    BY <2>1, <2>3, <2>4
<1>6. ASSUME Alive, client' = client, NEW m \in Msgs, Stream' = Append(Stream, m), m.k = "result" => m = res
      PROVE  (Final(Stream[i].act) /\ ShownBefore(due[Stream[i].act], i))'
  <2>1. /\ Stream'[Len(Stream) + 1] = m
        /\ \A j \in 1..Len(Stream) : Stream'[j] = Stream[j]
        /\ i \in 1..Len(Stream) \/ i = Len(Stream) + 1
        /\ \A f \in Nat, j \in 1..Len(Stream) : ShownBefore(f, j) => ShownBefore(f, j)'
        /\ \A f \in Nat : Reached(f) => \A j : j = Len(Stream) + 1 => ShownBefore(f, j)'
    BY <1>6, LongerStream
  <2>2. PICK a : a = Stream'[i].act
    OBVIOUS
  <2>3. CASE i \in 1..Len(Stream)
    <3>1. Final(a) /\ ShownBefore(due[a], i)
      BY <2>1, <2>2, <2>3, <1>4, <1>6
    <3>2. a \in Nat /\ Final(a)' /\ due'[a] = due[a]
      BY <3>1, <1>2, <1>3
    <3>3. PICK f \in Nat : f = due[a]
      BY <3>1, <1>2, <1>3
    <3>4. ShownBefore(f, i)'
      BY <3>1, <3>3, <2>1, <2>3
    <3>5. ShownBefore(due[a], i)'
      BY <3>2, <3>3, <3>4 DEF ShownBefore
    <3> QED
      BY <2>2, <3>2, <3>5
  <2>4. CASE i = Len(Stream) + 1
    <3>1. m = res /\ a = res.act /\ res.k = "result" /\ res.ok
      BY <2>1, <2>2, <2>4, <1>6
    <3>2. Final(a)
      BY <3>1 DEF AckInv, AckBase, Held
    <3>3. a \in Nat /\ Final(a)' /\ due'[a] = due[a]
      BY <3>2, <1>2, <1>3
    <3>4. PICK f \in Nat : f = due[a] /\ f <= Composed
      BY <3>2, <1>2, <1>3
    <3>5. Reached(f)
      BY <3>4, <1>1, <1>6 DEF IInv, Fit, Contiguous
    <3>6. ShownBefore(f, i)'
      BY <3>5, <2>1, <2>4
    <3>7. ShownBefore(due[a], i)'
      BY <3>3, <3>4, <3>6 DEF ShownBefore
    <3> QED
      BY <2>2, <3>3, <3>7
  <2> QED
    BY <2>1, <2>3, <2>4
<1>7. ASSUME Alive, NEW m \in Msgs, NEW rest \in Seq(Msgs), Stream = <<m>> \o rest, Stream' = rest,
             client' = IF Told(m) THEN [frame |-> m.frame,
                                        val |-> IF m.val = "same" THEN client.val ELSE m.val]
                       ELSE client
      PROVE  (Final(Stream[i].act) /\ ShownBefore(due[Stream[i].act], i))'
  <2>1. <<m>> \in Seq(Msgs) /\ Len(<<m>>) = 1 /\ <<m>>[1] = m /\ Len(rest) \in Nat
    BY LenProperties
  <2>2. /\ Len(Stream) = 1 + Len(rest)
        /\ \A j \in 1..1 + Len(rest) : Stream[j] = IF j <= 1 THEN <<m>>[j] ELSE rest[j - 1]
    BY <2>1, <1>7, ConcatProperties
  <2>3. /\ Stream[1] = m /\ 1 \in 1..Len(Stream)
        /\ i + 1 \in 1..Len(Stream) /\ Stream[i + 1] = Stream'[i]
        /\ \A j \in 1..i : j = 1 \/ (j - 1 \in 1..(i - 1) /\ Stream[j] = Stream'[j - 1])
    BY <2>1, <2>2, <1>7
  <2>4. client.frame \in Nat /\ Within
    BY <1>7 DEF IInv, Types, Fit
  <2>5. Told(m) => client'.frame = m.frame /\ m.frame \in Nat /\ client.frame <= m.frame
    BY <2>3, <2>4, <1>7, MsgKinds DEF Within
  <2>6. ~Told(m) => client'.frame = client.frame
    BY <1>7
  <2>7. PICK a : a = Stream'[i].act
    OBVIOUS
  <2>8. Final(a) /\ ShownBefore(due[a], i + 1)
    BY <2>3, <2>7, <1>4, <1>7
  <2>9. a \in Nat /\ Final(a)' /\ due'[a] = due[a]
    BY <2>8, <1>2, <1>3
  <2>10. PICK f \in Nat : f = due[a]
    BY <2>8, <1>2, <1>3
  <2>11. \/ client'.frame >= f
         \/ \E j \in 1..(i - 1) : Told(Stream'[j]) /\ Stream'[j].frame >= f
    <3>1. CASE client.frame >= f
      BY <3>1, <2>4, <2>5, <2>6
    <3>2. ASSUME NEW j \in 1..((i + 1) - 1), Told(Stream[j]), Stream[j].frame >= f
          PROVE  \/ client'.frame >= f
                 \/ \E h \in 1..(i - 1) : Told(Stream'[h]) /\ Stream'[h].frame >= f
      <4>1. j \in 1..i
        OBVIOUS
      <4>2. CASE j = 1
        BY <3>2, <4>2, <2>3, <2>5
      <4>3. CASE j # 1
        <5>1. j - 1 \in 1..(i - 1) /\ Stream[j] = Stream'[j - 1]
          BY <4>1, <4>3, <2>3
        <5> QED
          BY <5>1, <3>2
      <4> QED
        BY <4>2, <4>3
    <3> QED
      BY <3>1, <3>2, <2>8, <2>10 DEF ShownBefore
  <2>12. ShownBefore(due[a], i)'
    BY <2>9, <2>10, <2>11 DEF ShownBefore
  <2> QED
    BY <2>7, <2>9, <2>12
<1>8. CASE Len(Stream') = 1 /\ Stream'[1] \in ToldMsgs
  BY <1>8 DEF ToldMsgs
<1> QED
  BY <1>1, <1>5, <1>6, <1>7, <1>8 DEF Moved

\* Ahead of an act's OK is the frame that shows what the act did, whatever timed
\* out before it (session.go:38-41), until a signal ends the run: the Drain in
\* gracefulExit (app.go:579-581) waits for no frame.
THEOREM SpecAckAfterFrame == Spec => []AckAfterFrame
<1> DEFINE Until == ~exitSig => AckInv
<1>1. IInv /\ Until /\ [Next]_vars => Until'
  BY ExitStays, NextAckBase, NextAcked DEF AckInv
<1>2. Until => AckAfterFrame
  BY DEF AckInv, Acked, AckAfterFrame, AckInOrder
<1>3. Init => Until
  BY InitAck
<1> HIDE DEF Until
<1> QED
  BY <1>1, <1>2, <1>3, SpecIInv, PTL DEF Spec

-----------------------------------------------------------------------------
(* The session count, for any set of clients.  Every count that is         *)
(* captured, waiting, carried or shown is proper: if it is of the last     *)
(* change it is the right one.  And the last change is always somewhere.   *)

Proper(count) == /\ count.seq <= seq
                 /\ count.seq = seq => count.n = Cardinality(sessions) \/ count.final
                 /\ count.final => count.n = 0

NoCall == \A g \in Goroutines : pc[g] # "calling"

Captured == \A g \in Goroutines :
              pc[g] \in {"notify", "calling", "called"} => Proper(cap[g])

Waiting == mail # None => /\ Proper(mail)
                          /\ mail.seq > notified \/ mail.final
                          /\ delivering \/ \E r \in Goroutines : pc[r] = "resume"
                          /\ mail.final <=> shut

Carried == \A g \in Goroutines :
             pc[g] = "calling" => /\ cap[g].seq = notified
                                  /\ cap[g].seq > shown.seq \/ cap[g].final
                                  /\ cap[g].final <=> shut /\ mail = None
                                  /\ ~shown.final

Shown == /\ Proper(shown)
         /\ notified <= seq
         /\ NoCall => /\ shown.seq = notified
                      /\ shown.final <=> shut /\ mail = None

Newest == \/ shut
          \/ \E g \in Goroutines : pc[g] = "notify" /\ cap[g].seq = seq
          \/ mail # None /\ mail.seq = seq
          \/ notified = seq

CountInv == /\ TypeOK /\ OneDeliverer
        /\ Captured /\ Waiting /\ Carried /\ Shown /\ Newest

-----------------------------------------------------------------------------

\* The size of the set is a number.
LEMMA CountIsNat ==
  ASSUME NEW members \in SUBSET Clients
  PROVE  Cardinality(members) \in Nat
BY SessionCountAssumption, FS_Subset, FS_CardinalityType DEF SessionCountAssumption

\* What one goroutine alone does at a time, as OneDeliverer has it.
LEMMA NoOtherCalls ==
  ASSUME CountInv, NEW g \in Goroutines, ~delivering \/ pc[g] = "called"
  PROVE  NoCall /\ \A h \in Goroutines : Calls(h) => h = g
BY DEF CountInv, OneDeliverer, Calls, NoCall

\* A change to the set outdates every count there is, and captures the new one
\* (add, remove, closed).
LEMMA ChangeKeepsCountInv ==
  ASSUME CountInv, NEW g \in Goroutines, NEW members \in SUBSET Clients,
         NEW final \in BOOLEAN, Change(g, members, final),
         stream' \in [Clients -> {"out", "register", "attached", "gone"}],
         closure' \in [Clients -> {"none", "queued", "running", "returned", "panicked"}]
  PROVE  CountInv'
<1>1. [n |-> IF final THEN 0 ELSE Cardinality(members), seq |-> seq + 1, final |-> final] \in Counts
  BY CountIsNat DEF Counts, CountInv, TypeOK
<1>2. PICK new \in Counts : new = [n |-> IF final THEN 0 ELSE Cardinality(members),
                                  seq |-> seq + 1, final |-> final]
  BY <1>1
<1>2a. /\ new.seq = seq + 1 /\ new.final = final
       /\ new.n = IF final THEN 0 ELSE Cardinality(members)
  BY <1>2
<1>3. /\ pc[g] \in {"idle", "serving"} /\ pc' = [pc EXCEPT ![g] = "notify"]
      /\ cap' = [cap EXCEPT ![g] = new]
      /\ sessions' = members /\ seq' = seq + 1
      /\ notified' = notified /\ shut' = shut /\ delivering' = delivering
      /\ mail' = mail /\ shown' = shown
  BY <1>2 DEF Change
<1>4. TypeOK'
  BY <1>3 DEF CountInv, TypeOK
<1>5. \A h \in Goroutines : pc'[h] = IF h = g THEN "notify" ELSE pc[h]
  BY <1>3 DEF CountInv, TypeOK
<1>6. \A h \in Goroutines : cap'[h] = IF h = g THEN new ELSE cap[h]
  BY <1>3 DEF CountInv, TypeOK
<1>7. OneDeliverer'
  BY <1>3, <1>5 DEF CountInv, OneDeliverer, Calls
<1>8. seq \in Nat /\ notified \in Nat
      /\ \A count \in Counts : count.seq \in Nat /\ count.final \in BOOLEAN
  BY DEF CountInv, TypeOK, Counts
<1>9. ASSUME NEW count \in Counts, Proper(count)
      PROVE  Proper(count)'
  BY <1>3, <1>8, <1>9 DEF Proper
<1>10. Proper(new)'
  BY <1>2a, <1>3, <1>8 DEF Proper
<1>11. Captured'
  BY <1>3, <1>5, <1>6, <1>9, <1>10 DEF CountInv, Captured, TypeOK
<1>12. Waiting'
  <2>1. ASSUME mail # None PROVE Proper(mail)'
    BY <2>1, <1>3, <1>8 DEF CountInv, Waiting, TypeOK, Proper
  <2>2. (\E r \in Goroutines : pc[r] = "resume") => \E r \in Goroutines : pc'[r] = "resume"
    BY <1>3, <1>5
  <2> QED
    BY <2>1, <2>2, <1>3 DEF CountInv, Waiting, Proper
<1>13. Carried'
  BY <1>3, <1>5, <1>6 DEF CountInv, Carried
<1>14. Shown'
  <2>1. Proper(shown)' /\ notified <= seq + 1
    BY <1>3, <1>8 DEF CountInv, Shown, TypeOK, Proper
  <2>2. NoCall' => NoCall
    BY <1>3, <1>5 DEF NoCall
  <2> QED
    BY <2>1, <2>2, <1>3 DEF CountInv, Shown, Proper
<1>15. Newest'
  BY <1>2a, <1>3, <1>5, <1>6 DEF Newest
<1> QED
  BY <1>4, <1>7, <1>11, <1>12, <1>13, <1>14, <1>15 DEF CountInv

\* A goroutine that finds no other one delivering takes a newer count out of
\* the mailbox (deliver).
LEMMA CarryKeepsCountInv ==
  ASSUME CountInv, NEW g \in Goroutines, ~delivering \/ pc[g] = "called",
         NEW count \in Counts, Proper(count), Carry(g, count),
         count.seq > notified \/ count.final,
         shut' \in BOOLEAN, shut' <=> count.final, shut => shut', ~shown.final,
         pc[g] = "notify" => count = cap[g],
         mail # None => count.seq >= mail.seq \/ count.final,
         UNCHANGED <<stream, sessions, seq, shown>>
  PROVE  CountInv'
<1>1. /\ delivering' = TRUE /\ notified' = count.seq /\ mail' = None
      /\ pc' = [pc EXCEPT ![g] = "calling"] /\ cap' = [cap EXCEPT ![g] = count]
      /\ closure' = closure
      /\ stream' = stream /\ sessions' = sessions /\ seq' = seq /\ shown' = shown
  BY DEF Carry
<1>2. /\ seq \in Nat /\ notified \in Nat /\ shown \in Counts /\ cap \in [Goroutines -> Counts]
      /\ mail \in Counts \cup {None} /\ shut \in BOOLEAN
      /\ \A k \in Counts : k.seq \in Nat /\ k.final \in BOOLEAN
  BY DEF CountInv, TypeOK, Counts
<1>3. NoCall /\ \A h \in Goroutines : Calls(h) => h = g
  BY NoOtherCalls
<1>4. TypeOK'
  BY <1>1, <1>2, NoneAssumption DEF CountInv, TypeOK
<1>5. /\ \A h \in Goroutines : pc'[h] = IF h = g THEN "calling" ELSE pc[h]
      /\ \A h \in Goroutines : cap'[h] = IF h = g THEN count ELSE cap[h]
  BY <1>1 DEF CountInv, TypeOK
<1>6. OneDeliverer'
  BY <1>1, <1>3, <1>5 DEF OneDeliverer, Calls
<1>7. Captured'
  BY <1>1, <1>5 DEF CountInv, Captured, Proper
<1>8. Waiting' /\ ~NoCall'
  BY <1>1, <1>5 DEF Waiting, NoCall
<1>9. Carried'
  <2>1. shown.seq = notified
    BY <1>3 DEF CountInv, Shown
  <2>2. \A h \in Goroutines : pc'[h] = "calling" => h = g
    BY <1>3, <1>5 DEF Calls
  <2> QED
    BY <1>1, <1>5, <2>1, <2>2 DEF Carried
<1>10. Shown'
  BY <1>1, <1>8 DEF CountInv, Shown, Proper
<1>11. Newest'
  <2>1. CASE count.final
    BY <2>1 DEF Newest
  <2>2. CASE count.seq = seq
    BY <2>2, <1>1 DEF Newest
  <2>3. CASE ~count.final /\ count.seq # seq
    <3>1. /\ count.seq <= seq /\ count.seq > notified
      BY <2>3 DEF Proper
    <3>2. ~shut /\ notified # seq
      BY <2>3, <3>1, <1>2
    <3>3. ~(mail # None /\ mail.seq = seq)
      BY <2>3, <3>1, <1>2
    <3>4. PICK h \in Goroutines : pc[h] = "notify" /\ cap[h].seq = seq
      BY <3>2, <3>3 DEF CountInv, Newest
    <3>5. h # g
      BY <3>4, <2>3
    <3> QED
      BY <3>4, <3>5, <1>1, <1>5 DEF Newest
  <2> QED
    BY <2>1, <2>2, <2>3
<1> QED
  BY <1>4, <1>6, <1>7, <1>8, <1>9, <1>10, <1>11 DEF CountInv

\* What becomes of a closure is among its outcomes.
LEMMA ThroughTyped ==
  ASSUME TypeOK, NEW g \in Goroutines, NEW how \in {"returned", "panicked"}, Through(g, how)
  PROVE  closure' \in [Clients -> {"none", "queued", "running", "returned", "panicked"}]
BY DEF TypeOK, Through

\* A count that is refused is not the last change's, or a count as new is
\* waiting or was given (notify).
LEMMA NotifyKeepsCountInv ==
  ASSUME CountInv, NEW g \in Goroutines, Notify(g)
  PROVE  CountInv'
<1>1. /\ pc[g] = "notify" /\ stream' = stream /\ sessions' = sessions
      /\ seq' = seq /\ shown' = shown
  BY DEF Notify
<1>2. /\ seq \in Nat /\ notified \in Nat /\ shown \in Counts /\ cap \in [Goroutines -> Counts]
      /\ mail \in Counts \cup {None} /\ shut \in BOOLEAN /\ cap[g] \in Counts
      /\ \A k \in Counts : k.seq \in Nat /\ k.final \in BOOLEAN
  BY DEF CountInv, TypeOK, Counts
<1>3. Proper(cap[g])
  BY <1>1 DEF CountInv, Captured
<1>4. CASE Refused(cap[g])
  <2>1. /\ pc' = [pc EXCEPT ![g] = "idle"] /\ Through(g, "returned")
        /\ shut' = shut /\ delivering' = delivering /\ notified' = notified
        /\ mail' = mail /\ cap' = cap
    BY <1>4 DEF Notify
  <2>2. \A h \in Goroutines : pc'[h] = IF h = g THEN "idle" ELSE pc[h]
    BY <2>1 DEF CountInv, TypeOK
  <2>3. TypeOK'
    BY <1>1, <2>1, ThroughTyped DEF CountInv, TypeOK
  <2>4. OneDeliverer' /\ (NoCall' <=> NoCall)
    BY <1>1, <2>1, <2>2 DEF CountInv, OneDeliverer, Calls, NoCall
  <2>5. Captured' /\ Carried'
    BY <1>1, <2>1, <2>2 DEF CountInv, Captured, Carried, Proper
  <2>6. Waiting'
    BY <1>1, <2>1, <2>2 DEF CountInv, Waiting, Proper
  <2>7. Shown'
    BY <1>1, <2>1, <2>4 DEF CountInv, Shown, Proper
  <2>8. Newest'
    <3>1. cap[g].seq = seq => shut \/ notified = seq \/ (mail # None /\ mail.seq = seq)
      BY <1>2, <1>4 DEF Refused, RefusedIfOld, CountInv, Shown, Waiting, Proper
    <3>2. CASE \E h \in Goroutines : pc[h] = "notify" /\ cap[h].seq = seq /\ h # g
      BY <3>2, <1>1, <2>1, <2>2 DEF Newest
    <3> QED
      BY <3>1, <3>2, <1>1, <2>1 DEF CountInv, Newest
  <2> QED
    BY <2>3, <2>4, <2>5, <2>6, <2>7, <2>8 DEF CountInv
<1>5. CASE ~Refused(cap[g]) /\ delivering
  <2>1. /\ pc' = [pc EXCEPT ![g] = "idle"] /\ Through(g, "returned")
        /\ delivering' = delivering /\ notified' = notified
        /\ mail' = cap[g] /\ cap' = cap
        /\ shut' = (shut \/ cap[g].final) /\ ~shut
    BY <1>5 DEF Notify, Deliver, Refused
  <2>2. \A h \in Goroutines : pc'[h] = IF h = g THEN "idle" ELSE pc[h]
    BY <2>1 DEF CountInv, TypeOK
  <2>3. TypeOK'
    BY <1>1, <1>2, <2>1, ThroughTyped DEF CountInv, TypeOK
  <2>4. OneDeliverer' /\ (NoCall' <=> NoCall)
    BY <1>1, <2>1, <2>2 DEF CountInv, OneDeliverer, Calls, NoCall
  <2>5. mail' # None /\ (shut' <=> cap[g].final)
    BY <1>2, <2>1, NoneAssumption
  <2>6. Captured' /\ Carried'
    BY <1>1, <1>2, <2>1, <2>2, <2>5 DEF CountInv, Captured, Carried, Proper
  <2>7. Waiting'
    <3>1. cap[g].seq > notified \/ cap[g].final
      BY <1>2, <1>5 DEF Refused, RefusedIfOld
    <3> QED
      BY <1>1, <1>3, <1>5, <2>1, <2>5, <3>1 DEF Waiting, Proper
  <2>8. Shown'
    BY <1>1, <1>2, <2>1, <2>4, <2>5 DEF CountInv, Shown, Proper
  <2>9. Newest'
    <3>1. CASE cap[g].seq = seq \/ cap[g].final
      BY <3>1, <1>1, <2>1, <2>5 DEF Newest
    <3>2. CASE cap[g].seq # seq /\ ~cap[g].final
      <4>1. ~(mail # None /\ mail.seq = seq)
        BY <3>2, <1>2, <1>3, <1>5 DEF Refused, RefusedIfOld, Proper
      <4> QED
        BY <3>2, <4>1, <1>1, <2>1, <2>2 DEF CountInv, Newest
    <3> QED
      BY <3>1, <3>2
  <2> QED
    BY <2>3, <2>4, <2>6, <2>7, <2>8, <2>9 DEF CountInv
<1>6. CASE ~Refused(cap[g]) /\ ~delivering
  <2>1. Carry(g, cap[g]) /\ shut' = (shut \/ cap[g].final) /\ ~shut
    BY <1>6 DEF Notify, Deliver, Refused
  <2>2. /\ cap[g].seq > notified \/ cap[g].final
        /\ mail # None => cap[g].seq >= mail.seq \/ cap[g].final
    BY <1>2, <1>6 DEF Refused, RefusedIfOld
  <2>3. ~shown.final
    BY <1>6, <2>1, NoOtherCalls DEF CountInv, Shown
  <2>4. shut' \in BOOLEAN /\ (shut' <=> cap[g].final) /\ (shut => shut')
    BY <1>2, <2>1
  <2> QED
    BY <1>1, <1>2, <1>3, <1>6, <2>1, <2>2, <2>3, <2>4, CarryKeepsCountInv
<1> QED
  BY <1>4, <1>5, <1>6

\* The mailbox, and what it means to carry what is in it (deliver, resume).
LEMMA CarryMailKeepsCountInv ==
  ASSUME CountInv, NEW g \in Goroutines, ~delivering \/ pc[g] = "called", pc[g] # "notify",
         mail # None, Carry(g, mail), UNCHANGED <<stream, sessions, seq, shut, shown>>
  PROVE  CountInv'
<1>1. mail \in Counts /\ mail.seq \in Nat /\ shut \in BOOLEAN
  BY DEF CountInv, TypeOK, Counts
<1>2. Proper(mail) /\ (mail.seq > notified \/ mail.final) /\ (mail.final <=> shut)
  BY DEF CountInv, Waiting
<1>3. ~shown.final
  BY NoOtherCalls DEF CountInv, Shown
<1>4. shut' \in BOOLEAN /\ (shut' <=> mail.final) /\ (shut => shut')
  BY <1>1, <1>2
<1>5. mail.seq >= mail.seq
  BY <1>1
<1> QED
  BY <1>1, <1>2, <1>3, <1>4, <1>5, CarryKeepsCountInv

\* The one caller of the host tells it the count it carries.
LEMMA CallHostKeepsCountInv ==
  ASSUME CountInv, NEW g \in Goroutines, CallHost(g)
  PROVE  CountInv'
<1>1. /\ pc[g] = "calling" /\ shown' = cap[g] /\ pc' = [pc EXCEPT ![g] = "called"]
      /\ UNCHANGED <<stream, closure, sessions, seq, notified, shut, delivering, mail, cap>>
  BY DEF CallHost
<1>2. TypeOK'
  BY <1>1 DEF CountInv, TypeOK
<1>3. \A h \in Goroutines : pc'[h] = IF h = g THEN "called" ELSE pc[h]
  BY <1>1 DEF CountInv, TypeOK
<1>4. OneDeliverer'
  BY <1>1, <1>3 DEF CountInv, OneDeliverer, Calls
<1>5. NoCall'
  BY <1>1, <1>3 DEF CountInv, OneDeliverer, Calls, NoCall
<1>6. Captured' /\ Waiting' /\ Newest'
  BY <1>1, <1>3 DEF CountInv, Captured, Waiting, Newest, Proper
<1>7. Carried'
  BY <1>5 DEF NoCall, Carried
<1>8. Shown'
  BY <1>1 DEF CountInv, Captured, Carried, Shown, Proper
<1> QED
  BY <1>2, <1>4, <1>6, <1>7, <1>8 DEF CountInv

\* The host returns, and finds the mailbox full or empty.
LEMMA HostReturnsKeepsCountInv ==
  ASSUME CountInv, NEW g \in Goroutines, HostReturns(g)
  PROVE  CountInv'
<1>1. pc[g] = "called" /\ UNCHANGED <<stream, sessions, seq, shut, shown>>
  BY DEF HostReturns
<1>2. CASE mail # None
  BY <1>1, <1>2, CarryMailKeepsCountInv DEF HostReturns
<1>3. CASE mail = None
  <2>1. /\ delivering' = FALSE /\ pc' = [pc EXCEPT ![g] = "idle"] /\ Through(g, "returned")
        /\ UNCHANGED <<notified, mail, cap>>
    BY <1>3 DEF HostReturns
  <2>2. TypeOK'
    BY <1>1, <2>1, ThroughTyped DEF CountInv, TypeOK
  <2>3. \A h \in Goroutines : pc'[h] = IF h = g THEN "idle" ELSE pc[h]
    BY <2>1 DEF CountInv, TypeOK
  <2>4. NoCall /\ \A h \in Goroutines : Calls(h) => h = g
    BY <1>1, NoOtherCalls
  <2>5. OneDeliverer' /\ NoCall'
    BY <2>1, <2>3, <2>4 DEF OneDeliverer, Calls, NoCall
  <2>6. Captured' /\ Waiting' /\ Newest'
    BY <1>1, <1>3, <2>1, <2>3 DEF CountInv, Captured, Waiting, Newest, Proper
  <2>7. Carried'
    BY <2>5 DEF NoCall, Carried
  <2>8. Shown'
    BY <1>1, <2>1, <2>4 DEF CountInv, Shown, Proper
  <2> QED
    BY <2>2, <2>5, <2>6, <2>7, <2>8 DEF CountInv
<1> QED
  BY <1>2, <1>3

\* The host panics; a full mailbox gets a goroutine that resumes.
LEMMA HostPanicsKeepsCountInv ==
  ASSUME CountInv, NEW g \in Goroutines, HostPanics(g)
  PROVE  CountInv'
<1>1. /\ pc[g] = "called" /\ delivering' = FALSE /\ Through(g, "panicked")
      /\ UNCHANGED <<stream, sessions, seq, notified, shut, mail, cap, shown>>
  BY DEF HostPanics
<1>2. PICK r \in Resumers \ {g} :
        /\ pc[r] = "idle"
        /\ pc' = [pc EXCEPT ![g] = "idle", ![r] = IF mail # None THEN "resume" ELSE "idle"]
  BY DEF HostPanics
<1>3. r \in Goroutines /\ r # g
  BY <1>2 DEF Goroutines
<1>4. TypeOK'
  BY <1>1, <1>2, ThroughTyped DEF CountInv, TypeOK
<1>5. \A h \in Goroutines :
        pc'[h] = IF h = g THEN "idle"
                 ELSE IF h = r THEN (IF mail # None THEN "resume" ELSE "idle") ELSE pc[h]
  BY <1>2, <1>3 DEF CountInv, TypeOK
<1>6. NoCall /\ \A h \in Goroutines : Calls(h) => h = g
  BY <1>1, NoOtherCalls
<1>7. OneDeliverer' /\ NoCall'
  BY <1>1, <1>5, <1>6 DEF OneDeliverer, Calls, NoCall
<1>8. Captured'
  BY <1>1, <1>5 DEF CountInv, Captured, Proper
<1>9. Waiting'
  BY <1>1, <1>3, <1>5 DEF CountInv, Waiting, Proper
<1>10. Newest'
  BY <1>1, <1>2, <1>5 DEF CountInv, Newest
<1>11. Carried'
  BY <1>7 DEF NoCall, Carried
<1>12. Shown'
  BY <1>1, <1>6 DEF CountInv, Shown, Proper
<1> QED
  BY <1>4, <1>7, <1>8, <1>9, <1>10, <1>11, <1>12 DEF CountInv

\* What a panic left in the mailbox is carried, unless another goroutine is
\* carrying it or has.
LEMMA ResumeKeepsCountInv ==
  ASSUME CountInv, NEW g \in Goroutines, Resume(g)
  PROVE  CountInv'
<1>1. pc[g] = "resume" /\ UNCHANGED <<stream, sessions, seq, shut, shown>>
  BY DEF Resume
<1>2. CASE ~delivering /\ mail # None
  BY <1>1, <1>2, CarryMailKeepsCountInv DEF Resume
<1>3. CASE delivering \/ mail = None
  <2>1. /\ pc' = [pc EXCEPT ![g] = "idle"]
        /\ UNCHANGED <<closure, notified, delivering, mail, cap>>
    BY <1>3 DEF Resume
  <2>2. TypeOK'
    BY <1>1, <2>1 DEF CountInv, TypeOK
  <2>3. \A h \in Goroutines : pc'[h] = IF h = g THEN "idle" ELSE pc[h]
    BY <2>1 DEF CountInv, TypeOK
  <2>4. OneDeliverer' /\ (NoCall' <=> NoCall)
    BY <1>1, <2>1, <2>3 DEF CountInv, OneDeliverer, Calls, NoCall
  <2>5. Captured' /\ Carried' /\ Newest'
    BY <1>1, <2>1, <2>3 DEF CountInv, Captured, Carried, Newest, Proper
  <2>6. Waiting'
    BY <1>1, <1>3, <2>1 DEF CountInv, Waiting, Proper
  <2>7. Shown'
    BY <1>1, <2>1, <2>4 DEF CountInv, Shown, Proper
  <2> QED
    BY <2>2, <2>4, <2>5, <2>6, <2>7 DEF CountInv
<1> QED
  BY <1>2, <1>3

\* The streams' own steps, and a stuttering one.
LEMMA StreamKeepsCountInv ==
  ASSUME CountInv,
         UNCHANGED <<sessions, seq, notified, shut, delivering, mail, pc, cap, shown>>,
         stream' \in [Clients -> {"out", "register", "attached", "gone"}],
         closure' \in [Clients -> {"none", "queued", "running", "returned", "panicked"}]
  PROVE  CountInv'
<1>1. TypeOK' /\ OneDeliverer'
  BY DEF CountInv, TypeOK, OneDeliverer, Calls
<1>2. Captured' /\ Waiting' /\ Carried'
  BY DEF CountInv, Captured, Waiting, Carried, Proper
<1>3. Shown' /\ Newest'
  BY DEF CountInv, Shown, Newest, Proper, NoCall
<1> QED
  BY <1>1, <1>2, <1>3 DEF CountInv

-----------------------------------------------------------------------------

\* No session, no count, and a host that was told nothing.
LEMMA InitIInv == CountInit => CountInv
<1> SUFFICES ASSUME CountInit PROVE CountInv
  OBVIOUS
<1>1. Zero \in Counts
  BY DEF Zero, Counts
<1>2. TypeOK
  BY <1>1 DEF CountInit, TypeOK
<1>3. \A g \in Goroutines : pc[g] \in {"serving", "idle"}
  BY DEF CountInit
<1>4. OneDeliverer /\ Captured /\ Waiting /\ Carried
  BY <1>3 DEF CountInit, OneDeliverer, Calls, Captured, Waiting, Carried
<1>5. Shown /\ Newest
  BY FS_EmptySet DEF CountInit, Shown, Newest, Proper, Zero
<1> QED
  BY <1>2, <1>4, <1>5 DEF CountInv

\* Every step keeps the invariant.
LEMMA NextIInv == CountInv /\ [CountNext]_countVars => CountInv'
<1> SUFFICES ASSUME CountInv, [CountNext]_countVars PROVE CountInv'
  OBVIOUS
<1>0. /\ stream \in [Clients -> {"out", "register", "attached", "gone"}]
      /\ closure \in [Clients -> {"none", "queued", "running", "returned", "panicked"}]
      /\ sessions \in SUBSET Clients
      /\ UI \in Goroutines /\ Server \in Goroutines /\ Clients \subseteq Goroutines
  BY DEF CountInv, TypeOK, Goroutines
<1>1. ASSUME NEW c \in Clients, Attach(c) \/ DoReturns(c) \/ DoTimesOut(c) PROVE CountInv'
  BY <1>0, <1>1, StreamKeepsCountInv DEF Attach, DoReturns, DoTimesOut
<1>2. ASSUME NEW c \in Clients, Add(c) PROVE CountInv'
  <2>1. /\ sessions \cup {c} \in SUBSET Clients /\ FALSE \in BOOLEAN
        /\ Change(UI, sessions \cup {c}, FALSE)
        /\ stream' \in [Clients -> {"out", "register", "attached", "gone"}]
        /\ closure' \in [Clients -> {"none", "queued", "running", "returned", "panicked"}]
    BY <1>0, <1>2 DEF Add
  <2> QED
    BY <1>0, <2>1, ChangeKeepsCountInv
<1>3. ASSUME NEW c \in Clients, Leave(c) PROVE CountInv'
  <2>1. /\ sessions \ {c} \in SUBSET Clients /\ FALSE \in BOOLEAN
        /\ Change(c, sessions \ {c}, FALSE)
        /\ stream' \in [Clients -> {"out", "register", "attached", "gone"}]
        /\ closure' \in [Clients -> {"none", "queued", "running", "returned", "panicked"}]
    BY <1>0, <1>3 DEF Leave
  <2> QED
    BY <1>0, <2>1, ChangeKeepsCountInv
<1>4. ASSUME Closed PROVE CountInv'
  <2>1. Change(Server, sessions, TRUE) /\ stream' = stream /\ closure' = closure
    BY <1>4 DEF Closed
  <2> QED
    BY <1>0, <2>1, ChangeKeepsCountInv
<1>5. ASSUME NEW g \in Goroutines, Step(g) PROVE CountInv'
  BY <1>5, NotifyKeepsCountInv, CallHostKeepsCountInv, HostReturnsKeepsCountInv,
     HostPanicsKeepsCountInv, ResumeKeepsCountInv DEF Step
<1>6. CASE UNCHANGED countVars
  BY <1>0, <1>6, StreamKeepsCountInv DEF countVars
<1> QED
  BY <1>1, <1>2, <1>3, <1>4, <1>5, <1>6 DEF CountNext

\* The invariant holds in every reachable state.
LEMMA CountInvariance == CountSpec => []CountInv
BY InitIInv, NextIInv, PTL DEF CountSpec

\* The broadcaster's fields, and the goroutines in notify, keep their types.
THEOREM TypeCorrect == CountSpec => []TypeOK
<1>1. CountInv => TypeOK
  BY DEF CountInv
<1> QED
  BY <1>1, CountInvariance, PTL

\* deliver calls the host from one goroutine at a time, with no lock held and
\* whatever panics there were.
THEOREM OneAtATime == CountSpec => []OneDeliverer
<1>1. CountInv => OneDeliverer
  BY DEF CountInv
<1> QED
  BY <1>1, CountInvariance, PTL

\* When notify, deliver and resume have nothing more to do, the host's last
\* count is that of the set, or the final zero (add, remove, closed).
THEOREM LastWordIsRight == CountSpec => []LastWordIsNewest
<1>1. CountInv => LastWordIsNewest
  <2> SUFFICES ASSUME CountInv, \A g \in Goroutines : pc[g] \in {"serving", "idle"}
               PROVE  shown.n = IF shut THEN 0 ELSE Cardinality(sessions)
    BY DEF LastWordIsNewest
  <2>1. NoCall /\ ~delivering
    BY DEF CountInv, OneDeliverer, Calls, NoCall
  <2>2. mail = None
    BY <2>1 DEF CountInv, Waiting
  <2>3. Proper(shown) /\ shown.seq = notified /\ (shown.final <=> shut)
    BY <2>1, <2>2 DEF CountInv, Shown
  <2>4. shut \/ notified = seq
    BY <2>2 DEF CountInv, Newest
  <2> QED
    BY <2>3, <2>4 DEF Proper
<1> QED
  BY <1>1, CountInvariance, PTL

\* The host is told of changes in the order they happened (notify's seq).
THEOREM CountsGoForward == CountSpec => NeverBackwards
<1>1. CountInv /\ [CountNext]_countVars => [shown' # shown => shown'.seq > shown.seq \/ shown'.final]_countVars
  <2> SUFFICES ASSUME CountInv, CountNext, shown' # shown
               PROVE  shown'.seq > shown.seq \/ shown'.final
    OBVIOUS
  <2>1. PICK g \in Goroutines : CallHost(g)
    BY DEF CountNext, Attach, Add, DoReturns, DoTimesOut, Leave, Closed, Change, Step,
           Notify, HostReturns, HostPanics, Resume
  <2> QED
    BY <2>1 DEF CallHost, CountInv, Carried
<1> QED
  BY <1>1, CountInvariance, PTL DEF CountSpec, NeverBackwards

\* After the final zero nothing reaches the host (the shut latch).
THEOREM ZeroIsForGood == CountSpec => ZeroIsTerminal
<1>1. CountInv /\ [CountNext]_countVars => [shown.final => shown' = shown]_countVars
  <2> SUFFICES ASSUME CountInv, CountNext, shown' # shown
               PROVE  ~shown.final
    OBVIOUS
  <2>1. PICK g \in Goroutines : CallHost(g)
    BY DEF CountNext, Attach, Add, DoReturns, DoTimesOut, Leave, Closed, Change, Step,
           Notify, HostReturns, HostPanics, Resume
  <2> QED
    BY <2>1 DEF CallHost, CountInv, Carried
<1> QED
  BY <1>1, CountInvariance, PTL DEF CountSpec, ZeroIsTerminal
=============================================================================
