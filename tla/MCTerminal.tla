----------------------------- MODULE MCTerminal -----------------------------
(* Esc, a cursor key, a click in either encoding, the beginning of one, a   *)
(* rune of two bytes, the paste of an Enter, and half a paste marker typed.  *)
EXTENDS Terminal

MCWrites == { <<"esc">>, <<"esc", "[", "M">>, <<"esc", "[", "2">>, <<"esc", "O", "A">>,
              <<"esc", "[", "<", "1", "M">>, <<"esc", "[", "M", "x", "x", "x">>, <<"lead", "more">>,
              pasteStart \o <<"nl">> \o pasteEnd }
=============================================================================
