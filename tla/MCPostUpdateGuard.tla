-------------------------- MODULE MCPostUpdateGuard --------------------------
(* One content that ages with Home Assistant, and one that does so later.   *)
EXTENDS PostUpdateGuard, TLC

CONSTANTS legacy, modern, b1, b2

MCFirst == (b1 :> legacy) @@ (b2 :> modern)
MCVerdict == [c \in Content |-> [h \in 1..MaxHa |->
    CASE c = modern /\ h = 1 -> "none"
      [] c = legacy /\ h > 1 -> "breaking"
      [] OTHER -> "deprecation"]]
==============================================================================
