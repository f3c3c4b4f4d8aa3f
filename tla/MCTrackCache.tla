----------------------------- MODULE MCTrackCache -----------------------------
(* Two tracks, of one artist and title (MCSameStem) or of two (MCOwnStem);   *)
(* sizes and limits such that one file can exceed the smaller limit alone.   *)
EXTENDS TrackCache, TLC

CONSTANTS a, b

MCTrack == {a, b}
MCSameStem == [t \in MCTrack |-> "song"]
MCOwnStem == [t \in MCTrack |-> t]
MCSizes == a :> {1} @@ b :> {3}
=============================================================================
