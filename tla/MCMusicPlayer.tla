---------------------------- MODULE MCMusicPlayer ----------------------------
(* MusicPlayer on two devices.                                              *)
EXTENDS MusicPlayer, TLC

CONSTANTS sd0, udisk0, a1, a2

MCLogos == {sd0, udisk0}
MCAddr == {a1, a2}
MCTaskList == <<"BT", "MUSIC", "LINEIN">>
MCFiles == sd0 :> 2 @@ udisk0 :> 1
MCBad == sd0 :> {} @@ udisk0 :> {1}
=============================================================================
