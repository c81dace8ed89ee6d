------------------------------ MODULE MCFocus ------------------------------
(* A page r with a picture in a picture: host f, a focus stop itself, holds  *)
(* host g, which comes and goes with a button a that has a tooltip.          *)
EXTENDS Focus

MCComps == {"r", "f", "g", "a"}
MCChain == [c \in MCComps |-> CASE c = "r" -> {"r"} [] c = "f" -> {"r", "f"}
                               [] c = "g" -> {"r", "f", "g"} [] c = "a" -> {"r", "f", "g", "a"}]
MCRank == [c \in MCComps |-> CASE c = "r" -> 1 [] c = "f" -> 2 [] c = "g" -> 3 [] c = "a" -> 4]
MCStops == {"a", "f"}
MCHovers == {"a", "r"}
MCWatched == {"a"}
MCMnemonics == {"a"}
MCHosts == {"f", "g"}
MCAllowSets == {{}, Hover \cup Mnemonic, AllowAll}
MCMayLeave == {"g"}
MCMayCollapse == {"f"}
=============================================================================
