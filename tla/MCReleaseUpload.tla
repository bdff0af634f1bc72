-------------------------- MODULE MCReleaseUpload --------------------------
(* A small instance of ReleaseUpload for TLC: two checkouts, one with two     *)
(* platforms, and an uploader in each.                                       *)
EXTENDS ReleaseUpload, TLC

CONSTANTS linux, arm, win, u1, u2, mac, pc

ThePlatforms == {linux, arm, win}
TwoUploaders == {u1, u2}
TwoCheckouts == linux :> mac @@ arm :> mac @@ u1 :> mac @@ win :> pc @@ u2 :> pc
=============================================================================
