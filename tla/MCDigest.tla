------------------------------- MODULE MCDigest -------------------------------
(* One member with one browser; two-hour days of two-tick hours.             *)
EXTENDS Digest, TLC

CONSTANTS m1, u1, b1

MCOneUser == (m1 :> u1)
MCOneGarden == (m1 :> 1)

Fixed(offset) == [before |-> offset, at |-> 0, after |-> offset]
MCZonesOne == {Fixed(0)}
MCZonesTwo == {Fixed(-2), Fixed(2)}
===============================================================================
