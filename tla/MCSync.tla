------------------------------ MODULE MCSync --------------------------------
(* Instances of Sync for TLC: of the two peers in the rotation list only   *)
(* the second answers.                                                     *)
EXTENDS Sync

TwoPeers == <<"mute", "good">>
=============================================================================
