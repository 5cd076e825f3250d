------------------------------- MODULE Resampling -------------------------------
(***************************************************************************)
(* Rational resampling (audio/src/resampling.rs), whole and as a stream.   *)
(* What a filter computes is symbolic: an output is the set of the input   *)
(* samples that enter its sum, each with the place of its coefficient in    *)
(* the designed filter.  Positions count from 0, as in the code.           *)
(***************************************************************************)
EXTENDS Outcome, FiniteSets, FiniteSetsExt

CONSTANTS MaxFactor     \* 1000, a bound on the reduced ratio

GcdOf(a, b) == Max({d \in 1..Min({a, b}) : a % d = 0 /\ b % d = 0})

\* RatePair::new: output over input, reduced.
RatePair(input, output) ==
    LET divisor == GcdOf(input, output)
        pair == [num |-> output \div divisor, den |-> input \div divisor]
    IN  IF pair.num > MaxFactor \/ pair.den > MaxFactor THEN Refused ELSE Ok(pair)

IsIdentity(pair) == pair.num = 1 /\ pair.den = 1

\* Resampler::new: a filter of odd length around its center, dealt out to num
\* phases of equal length; places past the filter's end hold zeros.
Resampler(pair, taps) ==
    LET unrounded == taps * Max({pair.num, pair.den})
        length    == unrounded + 1 - (unrounded % 2)
    IN  IF length < 3 THEN Refused
        ELSE Ok([pair |-> pair, length |-> length, center |-> (length - 1) \div 2,
                 perPhase |-> CeilDiv(length, pair.num)])

\* output_count.
OutputCount(r, frames) == CeilDiv(frames * r.pair.num, r.pair.den)

Base(r, k)  == (k * r.pair.den + r.center) \div r.pair.num
Phase(r, k) == (k * r.pair.den + r.center) % r.pair.num

\* output_at: the sum over the taps of output k's phase, of the samples there
\* are at positions from..(from + Len(samples) - 1).
OutputAt(r, samples, from, k) ==
    LET used == {tap \in 0..(r.perPhase - 1) :
                   /\ tap <= Base(r, k)
                   /\ Base(r, k) - tap \in from..(from + Len(samples) - 1)
                   /\ tap * r.pair.num + Phase(r, k) < r.length}
    IN  {<<tap * r.pair.num + Phase(r, k), samples[Base(r, k) - tap - from + 1]>> :
           tap \in used}

\* process: the whole input at once.
Process(r, input) ==
    IF IsIdentity(r.pair) THEN input
    ELSE [i \in 1..OutputCount(r, Len(input)) |-> OutputAt(r, input, 0, i - 1)]

----------------------------------------------------------------------------
(* StreamResampler. *)

NewStreamResampler(r) == [plan |-> r, buffer |-> <<>>, from |-> 0, emitted |-> 0]

TotalInput(s) == s.from + Len(s.buffer)

\* The outputs a stream may give: all their samples have arrived.
Due(s) == {k \in s.emitted..(s.emitted + OutputCount(s.plan, TotalInput(s))) :
             Base(s.plan, k) < TotalInput(s)}

\* The outputs from the next one to the one before "to".
OutputsTo(s, to) ==
    [i \in 1..(to - s.emitted) |-> OutputAt(s.plan, s.buffer, s.from, s.emitted + i - 1)]

\* The history that no later output reaches back to is dropped.
Forget(s) ==
    LET keepFrom == Max({0, Base(s.plan, s.emitted) - (s.plan.perPhase - 1)})
        drop     == Min({Len(s.buffer), Max({0, keepFrom - s.from})})
    IN  [s EXCEPT !.buffer = SubSeq(@, drop + 1, Len(@)), !.from = @ + drop]

\* push.
PushSamples(s, input) ==
    IF IsIdentity(s.plan.pair) THEN [state |-> s, output |-> input]
    ELSE LET held == [s EXCEPT !.buffer = @ \o input]
             upto == s.emitted + Cardinality(Due(held))
         IN  [state  |-> Forget([held EXCEPT !.emitted = upto]),
              output |-> OutputsTo(held, upto)]

\* finish: the tail that the input's length still promises.
FinishSamples(s) ==
    IF IsIdentity(s.plan.pair) THEN <<>>
    ELSE OutputsTo(s, OutputCount(s.plan, TotalInput(s)))

\* resample_audio: every channel with the same plan.
ResampleAudio(rate, channels, output, taps) ==
    Then(RatePair(rate, output), LAMBDA pair : Then(Resampler(pair, taps), LAMBDA r :
        Ok([c \in DOMAIN channels |-> Process(r, channels[c])])))
================================================================================
