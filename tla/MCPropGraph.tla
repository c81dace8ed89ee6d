---------------------------- MODULE MCPropGraph ----------------------------
(* A form of two fields: okx and okxy validate it, All aggregates them, and *)
(* a button's paint node reads the outcome and, if it is enabled, a label.  *)
EXTENDS PropGraph

MCSources == {"x", "y", "out"}
MCComputed == {"okx", "okxy", "agg", "button"}
MCValues == {0, 1}

MCFirst == [c \in MCComputed |-> CASE c = "okx" -> "x" [] c = "okxy" -> "x"
                                   [] c = "agg" -> "okx" [] c = "button" -> "out"]

\* okxy reads y only while x is 0; the aggregate reads every field, always.
MCSecond == [c \in MCComputed |-> [v \in MCValues |->
              CASE c = "okxy" /\ v = 0 -> "y"
                [] c = "agg" -> "okxy"
                [] c = "button" /\ v = 1 -> "y"
                [] OTHER -> "none"]]

MCResult == [c \in MCComputed |-> [v \in MCValues |-> [w \in MCValues |->
              CASE c = "okx" -> 1 - v
                [] c = "agg" -> v * w
                [] OTHER -> w]]]

MCRank == [n \in MCSources \cup MCComputed |->
            CASE n \in MCSources -> 0 [] n \in {"okx", "okxy"} -> 1 [] OTHER -> 2]

MCAggs == {"agg"}
MCOutOf == [a \in MCAggs |-> "out"]
=============================================================================
