--------------------------- MODULE MCChannelPoll ---------------------------
(***************************************************************************)
(* The instance of ChannelPoll that TLC checks: two readers that share one *)
(* of two pool threads; the other thread stays idle.                       *)
(***************************************************************************)
EXTENDS ChannelPoll

CONSTANTS r1, r2

MCReader == {r1, r2}
MCHashId == [r \in MCReader |-> IF r = r1 THEN 1 ELSE 3]
=============================================================================
