---------------------------- MODULE InputDecode ----------------------------
(***************************************************************************)
(* The input decoder (input/decode.go, input/paste.go, and the shapes of   *)
(* input/mouse.go): what a buffer of bytes read from the terminal begins   *)
(* with, given how much of the benefit of the doubt is left.               *)
(*                                                                         *)
(* A byte is named for what it is to the decoder: "esc", "[", "O", "M",    *)
(* "m", "<", "~", the digits of the paste markers, "A" for the finals of   *)
(* the cursor keys, "nl" for Enter, "lead" and "more" for the bytes of a   *)
(* two-byte rune, and "x" for any other, a key of its own.  Modifiers,     *)
(* buttons and coordinates are left out.                                   *)
(***************************************************************************)
EXTENDS Naturals, Sequences, SequencesExt

\* deadlineLive, deadlineIdled and deadlineFinal.
Deadlines == {"live", "idled", "final"}

Byte == {"esc", "[", "O", "M", "m", "<", "~", "0", "1", "2", "A", "nl", "lead", "more", "x"}

Params == {"<", "0", "1", "2"}

pasteStart == <<"esc", "[", "2", "0", "0", "~">>
pasteEnd == <<"esc", "[", "2", "0", "1", "~">>

UTFMax == 4

Event(kind, key, text) == [kind |-> kind, key |-> key, text |-> text]
KeyOf(key) == Event("key", key, <<>>)
AltOf(key) == Event("alt", key, <<>>)
MouseOf == Event("mouse", "", <<>>)
PasteOf(text) == Event("paste", "", text)

\* (Event{}, 0, false), (Event{}, n, false) and (ev, n, true).
Incomplete == [ok |-> FALSE, n |-> 0, ev |-> Event("none", "", <<>>)]
Skip(n) == [Incomplete EXCEPT !.n = n]
Give(ev, n) == [ok |-> TRUE, n |-> n, ev |-> ev]

EscAlone == Give(KeyOf("esc"), 1)

\* A strict prefix of a marker, from the third byte on.
splitPasteMarker(b) == /\ Len(b) >= 3 /\ Len(b) < Len(pasteStart)
                       /\ IsPrefix(b, pasteStart) \/ IsPrefix(b, pasteEnd)

\* The first n bytes of b are an opening bracket.
decodePaste(b, n) ==
  LET ends == {i \in n..(Len(b) - Len(pasteEnd)) : SubSeq(b, i + 1, i + Len(pasteEnd)) = pasteEnd}
  IN IF ends = {}
     THEN Incomplete
     ELSE LET i == CHOOSE i \in ends : \A j \in ends : i <= j
          IN Give(PasteOf(SubSeq(b, n + 1, i)), i + Len(pasteEnd))

\* One of the three bytes behind CSI M is below the smallest legal one.
Malformed(b) == \E i \in 4..6 : b[i] \in {"esc", "nl"}

\* CSI M and three bytes.
decodeX10Mouse(b, d) ==
  CASE Len(b) >= 6 /\ Malformed(b) -> Skip(6)
    [] Len(b) >= 6 /\ ~Malformed(b) -> Give(MouseOf, 6)
    [] Len(b) < 6 /\ d # "live" -> EscAlone
    [] OTHER -> Incomplete

\* A CSI of n bytes, with these parameters and this final byte.
csiEvent(b, d, params, final, n) ==
  CASE Head(params \o <<"">>) = "<" /\ final \in {"M", "m"} ->
         IF Len(params) > 1 THEN Give(MouseOf, n) ELSE Skip(n)
    [] final = "~" /\ params = <<"2", "0", "0">> -> decodePaste(b, n)
    [] final = "~" /\ params = <<"2", "0", "1">> -> Skip(n)
    [] final = "M" /\ params = <<>> -> decodeX10Mouse(b, d)
    [] final = "A" -> Give(KeyOf("up"), n)
    [] final = "~" /\ params = <<"1">> -> Give(KeyOf("home"), n)
    [] OTHER -> Skip(n)

\* Mutant: the hold of a split marker is not withdrawn.
HoldForever(b, d) ==
  LET finals == {i \in 3..Len(b) : b[i] \notin Params}
  IN IF finals = {}
     THEN IF d = "live" \/ splitPasteMarker(b) THEN Incomplete ELSE EscAlone
     ELSE LET i == CHOOSE i \in finals : \A j \in finals : i <= j
          IN csiEvent(b, d, SubSeq(b, 3, i - 1), b[i], i)

\* Mutant: a split marker is read as any truncated sequence is.
HoldNothing(b, d) ==
  LET finals == {i \in 3..Len(b) : b[i] \notin Params}
  IN IF finals = {}
     THEN IF d = "live" THEN Incomplete ELSE EscAlone
     ELSE LET i == CHOOSE i \in finals : \A j \in finals : i <= j
          IN csiEvent(b, d, SubSeq(b, 3, i - 1), b[i], i)

\* ESC [ params final.  Whatever is no parameter is taken for the final byte.
decodeCSI(b, d) ==
  LET finals == {i \in 3..Len(b) : b[i] \notin Params}
  IN IF finals = {}
     THEN IF d = "live" \/ (d = "idled" /\ splitPasteMarker(b)) THEN Incomplete ELSE EscAlone
     ELSE LET i == CHOOSE i \in finals : \A j \in finals : i <= j
          IN csiEvent(b, d, SubSeq(b, 3, i - 1), b[i], i)

\* SS3: application cursor keys.
decodeSS3(b, d) ==
  CASE Len(b) < 3 /\ d = "live" -> Incomplete
    [] Len(b) >= 3 /\ b[3] = "A" -> Give(KeyOf("up"), 3)
    [] OTHER -> EscAlone

decodeRune(b, d) ==
  LET full == b[1] = "lead" /\ Len(b) >= 2 /\ b[2] = "more"
  IN CASE full -> Give(KeyOf("rune"), 2)
       [] ~full /\ d = "live" /\ Len(b) < UTFMax -> Incomplete
       [] OTHER -> Skip(1)

\* An ESC and what b[1:] was decoded to be.
decodeAlt(after, d) ==
  CASE after.ok /\ after.ev.kind \in {"key", "alt"} -> Give(AltOf(after.ev.key), after.n + 1)
    [] after = Incomplete /\ d = "live" -> Incomplete
    [] OTHER -> EscAlone

decode(b, d) ==
  LET dec[c \in Seq(Byte)] ==
        CASE c = <<>> -> Incomplete
          [] c # <<>> /\ c[1] \in {"lead", "more"} -> decodeRune(c, d)
          [] c # <<>> /\ c[1] \notin {"lead", "more", "esc"} -> Give(KeyOf(c[1]), 1)
          [] c = <<"esc">> -> IF d = "live" THEN Incomplete ELSE EscAlone
          [] Len(c) > 1 /\ c[1] = "esc" /\ c[2] = "[" -> decodeCSI(c, d)
          [] Len(c) > 1 /\ c[1] = "esc" /\ c[2] = "O" -> decodeSS3(c, d)
          [] OTHER -> decodeAlt(dec[Tail(c)], d)
  IN dec[b]

Rest(b, n) == SubSeq(b, n + 1, Len(b))

\* All that decodes while more may come.
Decoded[b \in Seq(Byte)] ==
  LET r == decode(b, "live") IN
  CASE r = Incomplete -> <<>>
    [] r # Incomplete /\ r.ok -> <<r.ev>> \o Decoded[Rest(b, r.n)]
    [] OTHER -> Decoded[Rest(b, r.n)]

\* The opening bracket is there and the closing one is not.
OpenPaste(b) == IsPrefix(pasteStart, b) /\ decodePaste(b, Len(pasteStart)) = Incomplete
=============================================================================
