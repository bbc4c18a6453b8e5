----------------------------- MODULE MCFTunnel -----------------------------
(***************************************************************************)
(* Instances of FTunnel for TLC: regions of three cells; packets of one    *)
(* and of two, so that a read may meet parts of two packets.               *)
(***************************************************************************)
EXTENDS FTunnel

ThreeAndOne == <<<<2, 1, 2>>, <<2>>>>
=============================================================================
