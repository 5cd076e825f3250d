--------------------------------- MODULE Stitch ---------------------------------
(***************************************************************************)
(* Where two overlapping windows of words are cut and joined               *)
(* (transcription/src/stitch.rs).  A word is a record with its text, start *)
(* and end; times count decoder frames of 40 ms.  normalize_word is the    *)
(* function Normal.                                                        *)
(***************************************************************************)
EXTENDS Integers, Sequences, FiniteSets, FiniteSetsExt

CONSTANTS Texts,            \* the texts a decoder may write
          Normal,           \* normalize_word: [Texts -> Texts]
          SeamTolerance     \* 0.25 s

ASSUME StitchAssumption == /\ Normal \in [Texts -> Texts]
                           /\ SeamTolerance \in Nat

Word == [text : Texts, start : Int, end : Int]
WordAt(t, s, e) == [text |-> t, start |-> s, end |-> e]

Near(s, t, tolerance) == s - t <= tolerance /\ t - s <= tolerance

SameSpoken(v, w) == Normal[v.text] = Normal[w.text]

\* The words at the chosen positions, in order: SelectSeq, put so that it can
\* be reasoned about without its recursion.
Chosen(ws, positions) ==
    [k \in 1..Cardinality(positions) |->
       ws[CHOOSE i \in positions :
            Cardinality({j \in positions : j < i}) = k - 1]]

\* How many of the positions 1..n are good before the first that is not.
Leading(n, good) == Max({k \in 0..n : 1..k \subseteq good})

----------------------------------------------------------------------------

\* The pairs seam() compares: previous words from the current window's start
\* on, current words up to the first that starts after the previous window.
Matches(previous, previousEnd, current, currentStart) ==
    LET reach == Leading(Len(current),
                         {j \in DOMAIN current : current[j].start <= previousEnd})
    IN  {m \in (DOMAIN previous) \X (1..reach) :
           /\ previous[m[1]].start >= currentStart
           /\ Near(previous[m[1]].start, current[m[2]].start, SeamTolerance)
           /\ SameSpoken(previous[m[1]], current[m[2]])}

\* Twice a word's distance from the midpoint, which is kept doubled.
FromMidpoint(w, doubled) ==
    IF 2 * w.start >= doubled THEN 2 * w.start - doubled ELSE doubled - 2 * w.start

\* The order in which seam() prefers matches: the nearer to the midpoint, and
\* of those equally near the first it comes to.
Preferred(l, m, previous, doubled) ==
    LET near(n) == FromMidpoint(previous[n[1]], doubled)
    IN  \/ near(l) < near(m)
        \/ near(l) = near(m) /\ l[1] < m[1]
        \/ near(l) = near(m) /\ l[1] = m[1] /\ l[2] <= m[2]

\* Without a match both windows are cut at the midpoint.
Seam(previous, previousEnd, current, currentStart) ==
    LET doubled   == currentStart + previousEnd
        matches   == Matches(previous, previousEnd, current, currentStart)
        early(ws) == Cardinality({i \in DOMAIN ws : 2 * ws[i].start < doubled})
        best      == CHOOSE m \in matches :
                       \A l \in matches : Preferred(m, l, previous, doubled)
    IN  IF matches = {}
          THEN [count |-> early(previous), skip |-> early(current)]
          ELSE [count |-> best[1] - 1, skip |-> best[2] - 1]

\* stitch_aligned on two windows.
Join(previous, previousEnd, current, currentStart) ==
    LET seam == Seam(previous, previousEnd, current, currentStart)
    IN  SubSeq(previous, 1, seam.count) \o SubSeq(current, seam.skip + 1, Len(current))
=============================================================================
