---------------------------- MODULE ChannelSelection ----------------------------
(***************************************************************************)
(* Which source channels are transcribed                                   *)
(* (transcription/src/channel_selection.rs).  Channels are numbered from 0. *)
(* What the correlation of two channels says against the threshold is an    *)
(* input: the pairs that are alike.  A selection is the set of those kept.  *)
(***************************************************************************)
EXTENDS Outcome, FiniteSets

AllChannels(count) == 0..(count - 1)

\* ChannelSelection::validate_against: a nonempty set of existing channels.
ValidSelection(selection, count) ==
    selection # {} /\ selection \subseteq AllChannels(count)

\* select_pairwise_channels: each channel in turn is retained unless it is too
\* much like one already retained.  Without evidence all are.
SelectPairwise(count, policy, empty, alike) ==
    LET Retained[c \in AllChannels(count)] ==
            ~\E d \in AllChannels(c) : Retained[d] /\ {c, d} \in alike
    IN  IF count = 0 THEN Refused
        ELSE IF empty \/ policy = "Disabled" THEN Ok(AllChannels(count))
        ELSE Ok({c \in AllChannels(count) : Retained[c]})

\* select_batch_by: only two channels can be dual mono, and then, or when one
\* transcript is wanted, the first channel stands for all.
SelectBatch(count, projection, alike) ==
    LET dualMono == count = 2 /\ {0, 1} \in alike
    IN  IF count = 0 THEN Refused
        ELSE Ok([duplicate |-> IF dualMono THEN "DualMono" ELSE "NotDualMono",
                 selection |-> IF dualMono \/ projection = "SingleOutput"
                                 THEN {0} ELSE AllChannels(count)])

\* channel_correlation compares channels sample by sample; in full, it is
\* Pearson's coefficient.
Comparable(left, right) == left # <<>> /\ Len(left) = Len(right)
================================================================================
