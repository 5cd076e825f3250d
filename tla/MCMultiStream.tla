------------------------------ MODULE MCMultiStream ------------------------------
(***************************************************************************)
(* Two channels that speak in turn and at once, with a short remark of the  *)
(* second inside a long turn of the first.                                  *)
(***************************************************************************)
EXTENDS MultiStream

CONSTANTS w1, w2, w3, w4

Said(text, start, end) == [text |-> text, start |-> start, end |-> end]

MCSpeech == [c \in {0, 1} |->
    IF c = 0 THEN <<Said(w1, 0, 2), Said(w2, 3, 5)>>
    ELSE <<Said(w3, 1, 2), Said(w4, 5, 6)>>]

MCNever == -100
MCBackchannel == <<1>>

\* Every policy, what is sent and what is not, the model's rate and twice it,
\* channels that are alike and channels that are not, floats one of which is wild.
Setup(format, policy, mode, rate, alike) ==
    [format |-> format, policy |-> policy, mode |-> mode, rates |-> <<rate, 1>>, alike |-> alike]

MCSetups == {
    Setup("Pcm16", "AllChannels", "Dialog", 1, {}),
    Setup("F32", "AllChannels", "Words", 2, {}),
    Setup("Pcm16", "Deduplicate", "Dialog", 1, {}),
    Setup("Pcm16", "Deduplicate", "WordsAndDialog", 2, {}),
    Setup("Pcm16", "Deduplicate", "Dialog", 1, {{0, 1}})}
==================================================================================
