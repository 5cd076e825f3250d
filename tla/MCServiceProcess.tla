---------------------------- MODULE MCServiceProcess ----------------------------
(***************************************************************************)
(* A request for one HTTP permit, and a mono and a stereo session for two   *)
(* channel permits, on a process with one or two workers.                   *)
(***************************************************************************)
EXTENDS ServiceProcess, TLC

CONSTANTS h1, mono, stereo

MCTokens == {h1, mono, stereo}
MCPoolOf == [t \in MCTokens |-> IF t = h1 THEN "http" ELSE "ws"]
MCWeight == [t \in MCTokens |-> IF t = stereo THEN 2 ELSE 1]
MCCapacity == [p \in Pools |-> IF p = "ws" THEN 2 ELSE 1]
MCWithRnnt == BOOLEAN
================================================================================
