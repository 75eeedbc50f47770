-------------------------- MODULE MCLidarTransfer ---------------------------
(***************************************************************************)
(* LidarTransfer for TLC: the connection slots are model values and        *)
(* interchangeable.                                                        *)
(***************************************************************************)
EXTENDS LidarTransferInv, TLC

CONSTANTS c1, c2

MCConns == {c1, c2}
MCOneConn == {c1}
Symmetry == Permutations(MCConns)
=============================================================================
