------------------------------ MODULE Terminal ------------------------------
(***************************************************************************)
(* The terminal's input side: the goroutine that reads the tty and the one *)
(* that decodes (term/keys.go, DecodeEvents), the Screen that owns them    *)
(* and joins them when it is restored (term/term.go, Events, joinDecoder   *)
(* and Restore), over the decoder of InputDecode.                          *)
(*                                                                         *)
(* Time is left out: a timer that is armed may fire at any moment.         *)
(***************************************************************************)
EXTENDS InputDecode, FiniteSetsExt

CONSTANTS Writes,            \* what a key, the pointer or a paste puts on the tty
          MaxWrites,         \* bound: how many of them
          ReadSizes,         \* bound: how many bytes a Read returns, of those there are
          ChunksCap,         \* capacity of chunks
          EventsCap,         \* capacity of the channel of events
          PasteMarkerGrace,  \* the timeout that resolves a split marker
          None

ASSUME BoundsAssumption == /\ MaxWrites \in Nat /\ ReadSizes \subseteq Nat \ {0}
                           /\ ChunksCap \in Nat /\ EventsCap \in Nat
ASSUME GraceAssumption == PasteMarkerGrace \in Nat \ {0}

\* The i-th byte of s is in a bracketed paste: behind an opening bracket, with
\* no closing one between them.
Pasted(s, i) == \E j \in 1..(i - Len(pasteStart)) :
                  /\ SubSeq(s, j, j + Len(pasteStart) - 1) = pasteStart
                  /\ \A p \in (j + Len(pasteStart))..(i - Len(pasteEnd)) :
                       SubSeq(s, p, p + Len(pasteEnd) - 1) # pasteEnd

\* An Enter is written in a paste and nowhere else: one that is typed would
\* be no different from one that was pasted.
ASSUME WritesAssumption == \A w \in Writes : /\ w \in Seq(Byte)
                                            /\ \A i \in 1..Len(w) : w[i] = "nl" => Pasted(w, i)

VARIABLES tty,      \* bytes written and not read
          open,     \* "open"; "closed" by Restore; "failed", the terminal's doing
          held,     \* what the reader has read and not sent, or <<>>
          chunks,   \* the channel between the goroutines
          decErr,   \* Screen.decErr, recorded when the reader ends; or None
          pend,     \* DecodeEvents' buffer
          stalls,   \* its count of fruitless timeouts, up to PasteMarkerGrace
          before,   \* len(pend) at the timeout
          at,       \* the deadline drain is under, "wait" in the select, or "end"
          armed,    \* the escape timer
          events,   \* the channel of events
          screen,   \* "on", "restoring" once Restore joins, "restored"
          done,     \* decDone is closed
          leaked,   \* Screen.decLeaked: Restore gave up on the join
          writes,   \* ghost: how many there were
          written,  \* ghost: their bytes
          got,      \* ghost: the events the run loop has received
          idled,    \* ghost: a timeout has had bytes to resolve
          cut,      \* ghost: one came in the middle of an opening bracket
          swallowed \* ghost: a CSI or an X10 report took an ESC for one of its own bytes

readerVars == <<held, chunks, decErr>>
decoderVars == <<pend, stalls, before, at, armed, done>>
screenVars == <<screen, leaked>>
ghosts == <<writes, written, got, idled, cut, swallowed>>
terminalVars == <<tty, open, readerVars, decoderVars, events, screenVars, ghosts>>

TerminalInit ==
  /\ tty = <<>> /\ open = "open"
  /\ held = <<>> /\ chunks = <<>> /\ decErr = None
  /\ pend = <<>> /\ stalls = 0 /\ before = 0 /\ at = "live" /\ armed = TRUE
  /\ events = <<>> /\ screen = "on" /\ done = FALSE /\ leaked = FALSE
  /\ writes = 0 /\ written = <<>> /\ got = <<>> /\ idled = FALSE /\ cut = FALSE /\ swallowed = FALSE

-----------------------------------------------------------------------------
(* The terminal.                                                           *)

Write(w) == /\ open = "open" /\ writes < MaxWrites
            /\ tty' = tty \o w
            /\ writes' = writes + 1
            /\ written' = written \o w
            /\ UNCHANGED <<open, readerVars, decoderVars, events, screenVars, got, idled,
                           cut, swallowed>>

\* What was not read is lost.
HangUp == /\ open = "open"
          /\ open' = "failed"
          /\ tty' = <<>>
          /\ UNCHANGED <<readerVars, decoderVars, events, screenVars, ghosts>>

-----------------------------------------------------------------------------
(* The goroutine that reads.                                               *)

Reading == held = <<>> /\ decErr = None

Read == /\ Reading /\ open = "open"
        /\ tty # <<>>
        /\ \E size \in ReadSizes : LET n == Min({size, Len(tty)}) IN
             /\ held' = SubSeq(tty, 1, n)
             /\ tty' = Rest(tty, n)
        /\ UNCHANGED <<open, chunks, decErr, decoderVars, events, screenVars, ghosts>>

Send == /\ held # <<>> /\ Len(chunks) < ChunksCap
        /\ chunks' = Append(chunks, held)
        /\ held' = <<>>
        /\ UNCHANGED <<tty, open, decErr, decoderVars, events, screenVars, ghosts>>

\* The error is recorded, then chunks is closed.  (A recoverable error, EINTR
\* or a deadline, changes nothing: the reader reads again.)
ReadFails == /\ Reading /\ open # "open"
             /\ decErr' = open
             /\ UNCHANGED <<tty, open, held, chunks, decoderVars, events, screenVars, ghosts>>

-----------------------------------------------------------------------------
(* The goroutine that decodes.                                             *)

Deadline == IF at = "last" THEN "final" ELSE at

\* A CSI that is skipped, or a report that is malformed, has an ESC for one of its bytes.
Swallows(b, r) == ~r.ok /\ \E i \in 3..r.n : b[i] = "esc"

\* Mutant: an event there is no room for is dropped.
EmitOrDrop ==
  /\ at \notin {"wait", "end"}
  /\ LET r == decode(pend, Deadline) IN
       /\ r # Incomplete
       /\ pend' = Rest(pend, r.n)
       /\ events' = IF r.ok /\ Len(events) < EventsCap THEN Append(events, r.ev) ELSE events
       /\ swallowed' = (swallowed \/ Swallows(pend, r))
  /\ UNCHANGED <<tty, open, readerVars, stalls, before, at, armed, screenVars, done,
                 writes, written, got, idled, cut>>

\* One turn of drain's loop: the event is sent, when there is room for it.
Emit ==
  /\ at \notin {"wait", "end"}
  /\ LET r == decode(pend, Deadline) IN
       /\ r # Incomplete
       /\ pend' = Rest(pend, r.n)
       /\ IF r.ok THEN Len(events) < EventsCap /\ events' = Append(events, r.ev)
                  ELSE events' = events
       /\ swallowed' = (swallowed \/ Swallows(pend, r))
  /\ UNCHANGED <<tty, open, readerVars, stalls, before, at, armed, screenVars, done,
                 writes, written, got, idled, cut>>

Drained == at \notin {"wait", "end"} /\ decode(pend, Deadline) = Incomplete

\* Mutant: the timer is armed as long as there is something to resolve.
ArmWhilePending == /\ at = "live" /\ Drained
                   /\ armed' = (pend # <<>>)
                   /\ at' = "wait"
                   /\ UNCHANGED <<tty, open, readerVars, pend, stalls, before, events, screenVars,
                                  done, ghosts>>

\* The timer is stopped, and armed again while it could change something.
Arm == /\ at = "live" /\ Drained
       /\ armed' = (pend # <<>> /\ stalls < PasteMarkerGrace)
       /\ at' = "wait"
       /\ UNCHANGED <<tty, open, readerVars, pend, stalls, before, events, screenVars,
                      done, ghosts>>

Receive == /\ at = "wait" /\ chunks # <<>>
           /\ pend' = pend \o Head(chunks)
           /\ chunks' = Tail(chunks)
           /\ stalls' = 0
           /\ at' = "live"
           /\ UNCHANGED <<tty, open, held, decErr, before, armed, events, screenVars, done,
                          ghosts>>

ToCome == FlattenSeq(chunks) \o held \o tty

\* Of an opening bracket that ends pend, k bytes have been read.
Halved(k) == /\ k <= Len(pend)
             /\ Rest(pend, Len(pend) - k) = SubSeq(pasteStart, 1, k)
             /\ IsPrefix(Rest(pasteStart, k), ToCome)

\* The escape timeout, in the select: what is pending is drained under the
\* deadline that many fruitless timeouts make it.
Timeout ==
  /\ at = "wait" /\ armed
  /\ armed' = FALSE
  /\ stalls' = Min({stalls + 1, PasteMarkerGrace})
  /\ before' = Len(pend)
  /\ at' = IF stalls + 1 >= PasteMarkerGrace THEN "final" ELSE "idled"
  /\ idled' = TRUE
  /\ cut' = (cut \/ \E k \in 1..5 : Halved(k) /\ (k < 3 \/ stalls + 1 >= PasteMarkerGrace))
  /\ UNCHANGED <<tty, open, readerVars, pend, events, screenVars, done, writes, written, got,
                 swallowed>>

\* A timeout that moved something was none that counts.
TimedOut == /\ at \in {"idled", "final"} /\ Drained
            /\ stalls' = IF Len(pend) # before THEN 0 ELSE stalls
            /\ at' = "live"
            /\ UNCHANGED <<tty, open, readerVars, pend, before, armed, events, screenVars,
                           done, ghosts>>

\* chunks is closed and empty: the last drain.
LastDrain == /\ at = "wait" /\ chunks = <<>> /\ decErr # None
             /\ at' = "last"
             /\ UNCHANGED <<tty, open, readerVars, pend, stalls, before, armed, events,
                            screenVars,
                            done, ghosts>>

DecoderEnds == /\ at = "last" /\ Drained
               /\ at' = "end"
               /\ armed' = FALSE
               /\ done' = TRUE
               /\ UNCHANGED <<tty, open, readerVars, pend, stalls, before, events,
                              screenVars, ghosts>>

-----------------------------------------------------------------------------
(* The run loop, and the Screen.                                           *)

Consume == /\ screen = "on" /\ events # <<>>
           /\ got' = Append(got, Head(events))
           /\ events' = Tail(events)
           /\ UNCHANGED <<tty, open, readerVars, decoderVars, screenVars, writes, written,
                          idled, cut,
                           swallowed>>

\* Restore closes the tty, which cancels a Read, and goes on to the join.
\* Nothing is received from here on, and the ghosts are forgotten.
Restore == /\ screen = "on"
           /\ open' = "closed"
           /\ tty' = <<>>
           /\ screen' = "restoring"
           /\ writes' = MaxWrites
           /\ written' = <<>> /\ got' = <<>>
           /\ idled' = FALSE /\ cut' = FALSE /\ swallowed' = FALSE
           /\ UNCHANGED <<readerVars, decoderVars, events, leaked>>

\* Mutant: the join waits for decDone and for nothing else.
JoinOnlyWaits == /\ screen = "restoring" /\ done /\ events # <<>>
                 /\ events' = Tail(events)
                 /\ UNCHANGED <<tty, open, readerVars, decoderVars, screenVars, ghosts>>

\* joinDecoder receives what the decoder sends on its way out ...
JoinDrains == /\ screen = "restoring" /\ events # <<>>
              /\ events' = Tail(events)
              /\ UNCHANGED <<tty, open, readerVars, decoderVars, screenVars, ghosts>>

\* ... until decDone is closed ...
Joined == /\ screen = "restoring" /\ done
          /\ screen' = "restored"
          /\ leaked' = FALSE
          /\ events' = <<>>
          /\ UNCHANGED <<tty, open, readerVars, decoderVars, ghosts>>

\* ... or DecoderTimeout has passed: Restore says so and goes on, and the
\* goroutines are left to themselves.
JoinTimesOut == /\ screen = "restoring"
                /\ screen' = "restored"
                /\ leaked' = TRUE
                /\ UNCHANGED <<tty, open, readerVars, decoderVars, events, ghosts>>

TerminalNext ==
  \/ \E w \in Writes : Write(w)
  \/ HangUp \/ Read \/ Send \/ ReadFails
  \/ Emit \/ Arm \/ Receive \/ Timeout \/ TimedOut \/ LastDrain \/ DecoderEnds
  \/ Consume \/ Restore \/ JoinDrains \/ Joined \/ JoinTimesOut

\* Goroutines that can go on do, an armed timer fires unless it is stopped,
\* and the run loop receives events while the screen is on.  Nothing is assumed
\* of DecoderTimeout: the join is not to need it.
TerminalFairness ==
  /\ WF_terminalVars(Read) /\ WF_terminalVars(Send) /\ WF_terminalVars(ReadFails)
  /\ WF_terminalVars(Emit) /\ WF_terminalVars(Arm) /\ WF_terminalVars(Receive)
  /\ WF_terminalVars(Timeout) /\ WF_terminalVars(TimedOut)
  /\ WF_terminalVars(LastDrain) /\ WF_terminalVars(DecoderEnds)
  /\ WF_terminalVars(Consume) /\ WF_terminalVars(JoinDrains) /\ WF_terminalVars(Joined)

TerminalSpec == TerminalInit /\ [][TerminalNext]_terminalVars /\ TerminalFairness

-----------------------------------------------------------------------------

\* However the terminal's bytes fall into reads, the run loop gets the events
\* that the bytes spell, in their order, none twice and none lost: until a
\* timeout has had to resolve something, what it got, what is on its way and
\* what is still to decode are together what was written (keys.go, input.go).
ChunkingIsInvisible == open = "open" /\ ~idled =>
  got \o events \o Decoded[pend \o ToCome] = Decoded[written]

\* A paste is content, never a gesture: an Enter in it is never pressed
\* (paste.go), unless a timeout came within the first two bytes of the
\* opening bracket, or the last of PasteMarkerGrace within the rest of it, or a
\* sequence that was never finished took the bracket's ESC for a byte of its own.
PasteIsNotTyped == screen = "on" /\ ~cut /\ ~swallowed =>
  \A i \in 1..Len(got \o events) : (got \o events)[i].key # "nl"

\* The same, of the final bytes decodeCSI says it takes (0x40-0x7e).
PasteNeedsNoLuck == screen = "on" /\ ~cut =>
  \A i \in 1..Len(got \o events) : (got \o events)[i].key # "nl"

\* The decoder is never deaf (decode.go's LIVENESS): what is pending is
\* resolved, unless it is a paste that is open, or nobody is left to take it
\* because the join gave up.
NeverDeaf == []<>(pend = <<>> \/ OpenPaste(pend) \/ leaked)

\* Nor does it wake for nothing (keys.go, re-arm): once the terminal is silent
\* the timer is too, whatever is left in the buffer (a decoder the join gave up
\* on may stop anywhere).
SleepsWhenStuck == <>[](~armed \/ leaked)

\* No teardown leaves a goroutine reading the terminal (term.go, Restore): the
\* join ends, with both goroutines, whatever they were blocked on and without
\* the help of DecoderTimeout; should that pass first, Restore says so.
JoinEnds == screen = "restoring" ~>
  screen = "restored" /\ (leaked \/ (decErr # None /\ at = "end"))
=============================================================================
