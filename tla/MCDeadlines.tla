---------------------------- MODULE MCDeadlines ----------------------------
(* A sitter and the person who invited them; deadlines a few ticks away.    *)
EXTENDS Deadlines, TLC

CONSTANTS m1, m2, k1

MCInviter == (m1 :> m1 @@ m2 :> m1)
=============================================================================
