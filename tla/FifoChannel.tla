---------------------------- MODULE FifoChannel -----------------------------
(***************************************************************************)
(* What the collector's bounded queue promises to its users: a lossless    *)
(* FIFO channel of limited depth that can be closed once.  `in' is what    *)
(* was accepted and `out' what was handed over, in order.                  *)
(***************************************************************************)
EXTENDS Naturals, Sequences

CONSTANTS Item, Depth

VARIABLES in, out, closed

channelVars == <<in, out, closed>>

ChannelInit == in = <<>> /\ out = <<>> /\ closed = FALSE

(* An item is accepted while fewer than Depth are outstanding. *)
Accept ==
  /\ Len(in) - Len(out) < Depth
  /\ \E item \in Item : in' = Append(in, item)
  /\ UNCHANGED <<out, closed>>

(* The next items, at least one, are handed over in the order accepted. *)
Deliver ==
  \E n \in Len(out) + 1 .. Len(in) :
    /\ out' = SubSeq(in, 1, n)
    /\ UNCHANGED <<in, closed>>

Close == closed' = TRUE /\ UNCHANGED <<in, out>>

ChannelNext == Accept \/ Deliver \/ Close

ChannelSpec == ChannelInit /\ [][ChannelNext]_channelVars
=============================================================================
