------------------------------ MODULE MCPlayback ------------------------------
(* The casts of Playback that TLC plays.                                     *)
EXTENDS Playback

CONSTANTS t1, t2, h1, h2, a1, w1

MCTrack == {t1, t2}
MCPush == {h1, h2}
MCAdmin == {a1}
MCPrep == {w1}

Cast(tasks, tracks) == [tasks |-> tasks, tracks |-> tracks]

\* The monitor alone; with a togedemon that comes and goes, with a prepare task, with
\* the admin's switch; togedemons that take over from each other while the player is
\* switched off and on.
MCCasts ==
    {Cast({}, {t1, t2}), Cast({h1}, {t1}), Cast({w1}, {t1}), Cast({a1}, {t1}),
     Cast({h1, h2, a1}, {})}

\* Everybody whom the constants name.
FullCast == {Cast(Prep \cup Push \cup Admin, Track)}
=============================================================================
