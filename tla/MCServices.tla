----------------------------- MODULE MCServices -----------------------------
EXTENDS Services
MCLocalValue == [n \in Swarm |-> CASE n = 1 -> <<1, 4>> [] n = 2 -> <<2>> [] OTHER -> <<>>]
MCMaxOps == [k \in Kinds |-> IF k \in {"ORSet", "LWWMap", "MVRegister", "RGA"} THEN 3 ELSE 2]
=============================================================================
