----------------------------- MODULE MCStreamSession -----------------------------
(***************************************************************************)
(* A few words, so that each pause and each seam falls differently.  A     *)
(* time unit is a frame of 40 ms.                                          *)
(***************************************************************************)
EXTENDS StreamSession, TLC

CONSTANTS a, b, noise

MCTexts  == {a, b, noise}
MCNormal == [t \in MCTexts |-> t]

\* Words that run together; a word said again, but half a second later; pauses.
MCSpeeches == {
    <<WordAt(a, 4, 9), WordAt(b, 11, 17), WordAt(a, 19, 24), WordAt(b, 26, 32),
      WordAt(a, 34, 39)>>,
    <<WordAt(a, 2, 6), WordAt(a, 14, 18), WordAt(a, 26, 30), WordAt(b, 32, 36)>>,
    <<WordAt(a, 2, 6), WordAt(b, 20, 24), WordAt(a, 41, 47)>> }

\* Sessions whose windows overlap by half, and sessions whose windows touch.
VARIABLE touching
Touching == INSTANCE StreamSession WITH Overlap <- 0

MCInit == touching \in BOOLEAN /\ Init
MCNext == /\ UNCHANGED touching
          /\ \/ ~touching /\ Next
             \/ touching /\ Touching!Next
MCSpec == MCInit /\ [][MCNext]_<<touching, vars>>

\* The line is the speech where windows overlap.  Where they only touch, no seam
\* can know what a window's edge has cut; but the line is in order, and a flush
\* leaves nothing open (stream.rs: it ends the stream "by decoding and committing
\* its remaining tail") but the words of a window that was exactly full.
LineIsTold ==
    IF touching THEN LineInOrder /\ Touching!FlushLeavesUnlooked
    ELSE LineIsTheSpeech
=============================================================================
