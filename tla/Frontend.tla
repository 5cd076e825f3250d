-------------------------------- MODULE Frontend --------------------------------
(***************************************************************************)
(* Log-mel features (audio/src/frontend.rs) and the mixed-radix Stockham    *)
(* transform they are made with (audio/src/fft.rs).  Numbers are those of a *)
(* finite field of Modulus elements with a square root of -1 added: exact   *)
(* where the code rounds.  Turn is a primitive root of unity of order       *)
(* Circle and of norm 1, as exp(-2 pi i / Circle) is.  A complex number is  *)
(* <<re, im>>; sequences count from 0 as the code's slices do.  LogClamped  *)
(* is the clamp and the logarithm of one value.                             *)
(***************************************************************************)
EXTENDS Outcome, FiniteSets, SequencesExt

CONSTANTS Modulus, Circle, Turn,
          LogClamped     \* a function of the field's elements

Times(v, w)  == <<(v[1] * w[1] - v[2] * w[2]) % Modulus, (v[1] * w[2] + v[2] * w[1]) % Modulus>>
Plus(v, w)   == <<(v[1] + w[1]) % Modulus, (v[2] + w[2]) % Modulus>>
Conjugate(v) == <<v[1], (-v[2]) % Modulus>>
Halved(v)    == LET half == (Modulus + 1) \div 2
                IN  <<(v[1] * half) % Modulus, (v[2] * half) % Modulus>>
Power(v)     == (v[1] * v[1] + v[2] * v[2]) % Modulus
\* Of the values of a function on 0..n-1.
Total(f) == FoldLeftDomain(LAMBDA sum, k : Plus(sum, f[k]), f[0],
                           [k \in 1..(Cardinality(DOMAIN f) - 1) |-> k])

Turns[e \in 0..(Circle - 1)] ==
    IF e = 0 THEN <<1, 0>>
    ELSE LET half == Turns[e \div 2]
         IN  Times(Times(half, half), IF e % 2 = 1 THEN Turn ELSE <<1, 0>>)

\* twiddle: exp(-2 pi i index / length).
Twiddle(index, length) == Turns[(index % length) * (Circle \div length)]

\* supported_factor: the kernel holds no radix above 16.
SupportedFactor(length) ==
    LET dividing == {factor \in {2, 3, 5, 7, 11, 13} : length % factor = 0}
    IN  IF dividing # {} THEN Ok(CHOOSE f \in dividing : \A g \in dividing : f <= g)
        ELSE IF length > 16 THEN Refused ELSE Ok(length)

\* Fft::new: the radices, largest transform first.  A stage's groups are what
\* is left of the length, its stride what has been taken off.
Plan(length) ==
    LET stages[n \in 1..length] ==
            IF n = 1 THEN Ok(<<>>)
            ELSE Then(SupportedFactor(n), LAMBDA radix :
                   Then(stages[n \div radix], LAMBDA rest : Ok(<<radix>> \o rest)))
    IN  IF length = 0 THEN Refused ELSE stages[length]

Product(radices) == FoldLeft(LAMBDA v, w : v * w, 1, radices)
Groups(radices, k) == Product(SubSeq(radices, k + 1, Len(radices)))
Stride(radices, k) == Product(SubSeq(radices, 1, k - 1))

\* Mutated form of Butterfly: the stage's twiddles are left out of the first lane's group.
ButterflyUntwisted(source, radices, k) ==
    LET radix == radices[k] groups == Groups(radices, k) stride == Stride(radices, k)
    IN  [index \in DOMAIN source |->
           LET offset == index % stride
               lane   == (index \div stride) % radix
               group  == index \div (stride * radix)
               Read(j) == source[offset + stride * (group + j * groups)]
           IN  Total([j \in 0..(radix - 1) |-> Times(Read(j), Twiddle(j * lane, radix))])]

\* One stage of forward_inplace, read at the destination's index.
Butterfly(source, radices, k) ==
    LET radix == radices[k] groups == Groups(radices, k) stride == Stride(radices, k)
    IN  [index \in DOMAIN source |->
           LET offset == index % stride
               lane   == (index \div stride) % radix
               group  == index \div (stride * radix)
               Read(j) == source[offset + stride * (group + j * groups)]
           IN  Times(Total([j \in 0..(radix - 1) |-> Times(Read(j), Twiddle(j * lane, radix))]),
                     Twiddle(group * lane, groups * radix))]

\* forward_inplace: the stages swap the two buffers, and the result is copied
\* back to the caller's when their number is odd.
Forward(input, radices) ==
    FoldLeftDomain(LAMBDA source, k : Butterfly(source, radices, k), input, radices)

\* One stage of forward_batched: index counts frames of one complex first.
ButterflyBatched(source, radices, k, frames) ==
    LET radix == radices[k] groups == Groups(radices, k) stride == Stride(radices, k)
    IN  [index \in DOMAIN source |->
           LET complex == index \div frames
               lane    == (complex \div stride) % radix
               group   == complex \div (stride * radix)
               Read(j) == source[((complex % stride) + stride * (group + j * groups)) * frames
                                 + (index % frames)]
           IN  Times(Total([j \in 0..(radix - 1) |-> Times(Read(j), Twiddle(j * lane, radix))]),
                     Twiddle(group * lane, groups * radix))]
ForwardBatched(input, radices, frames) ==
    FoldLeftDomain(LAMBDA source, k : ButterflyBatched(source, radices, k, frames), input, radices)

\* RealFft::new.
RealPlan(length) ==
    IF length = 0 \/ length % 2 # 0 THEN Refused ELSE Plan(length \div 2)

\* The bin of a real transform from the two bins of the packed one.
Recombine(first, mirrored, index, length) ==
    LET second     == Conjugate(mirrored)
        even       == Halved(Plus(first, second))
        difference == Halved(Plus(first, Times(<<Modulus - 1, 0>>, second)))
        odd        == <<difference[2], (-difference[1]) % Modulus>>
    IN  Plus(even, Times(Twiddle(index, length), odd))

\* power_spectrum of one frame, for a plan.
PowerSpectrum(frame, length, radices) ==
    LET half   == length \div 2
        packed == Forward([k \in 0..(half - 1) |-> <<frame[2 * k], frame[2 * k + 1]>>], radices)
    IN  [index \in 0..half |->
           Power(Recombine(packed[index % half], packed[(half - index) % half], index, length))]

\* power_spectrum_batched of frames side by side.
PowerSpectrumBatched(input, length, radices, frames) ==
    LET half   == length \div 2
        packed == ForwardBatched(input, radices, frames)
    IN  [at \in 0..((half + 1) * frames - 1) |->
           LET index == at \div frames
               frame == at % frames
           IN  Power(Recombine(packed[(index % half) * frames + frame],
                               packed[((half - index) % half) * frames + frame], index, length))]

----------------------------------------------------------------------------
\* The discrete Fourier transform, by its definition.
Transform(frame, length, index) ==
    Total([j \in 0..(length - 1) |-> Times(<<frame[j], 0>>, Twiddle(j * index, length))])

----------------------------------------------------------------------------
(* The processor.                                                           *)

\* FrontendProcessor::new keeps of each mel band the bins between its first and
\* its last nonzero weight, and refuses one that has none.
Bins(filterbank, band) == {k \in DOMAIN filterbank : filterbank[k][band] # 0}
Least(S) == CHOOSE k \in S : \A j \in S : k <= j
Greatest(S)  == CHOOSE k \in S : \A j \in S : k >= j
Processor(definition, filterbank) ==
    IF \/ ~RealPlan(definition.fft).ok
       \/ definition.window = <<>> \/ DOMAIN definition.window # 0..(definition.fft - 1)
       \/ DOMAIN filterbank # 0..(definition.fft \div 2)
       \/ definition.clampMin <= 0 \/ definition.clampMax < definition.clampMin
       \/ \E band \in 0..(definition.mels - 1) : Bins(filterbank, band) = {}
      THEN Refused
      ELSE Ok([fft |-> definition.fft, hop |-> definition.hop, mels |-> definition.mels,
               centered |-> definition.center, window |-> definition.window,
               radices |-> RealPlan(definition.fft).value,
               bands |-> [band \in 0..(definition.mels - 1) |->
                 LET bins == Bins(filterbank, band)
                 IN  [first |-> Least(bins),
                      weights |-> [k \in 0..(Greatest(bins) - Least(bins)) |->
                                     filterbank[Least(bins) + k][band]]]]])

\* frame_count.
FrameCount(processor, samples) ==
    LET effective == samples + (IF processor.centered THEN 2 * (processor.fft \div 2) ELSE 0)
    IN  IF effective < processor.fft THEN 0
        ELSE 1 + (effective - processor.fft) \div processor.hop

\* centered: reflection about the first and about the last sample.
Centered(processor, samples, length) ==
    LET padding == processor.fft \div 2
        At(i) == IF i < 0 THEN samples[-i]
                 ELSE IF i >= length THEN samples[2 * (length - 1) - i] ELSE samples[i]
    IN  IF ~processor.centered THEN Ok(samples)
        ELSE IF length <= padding THEN Refused
        ELSE Ok([i \in 0..(length + 2 * padding - 1) |-> At(i - padding)])

\* A mel band of a spectrum; power is a function of the bins.
MelBand(band, power) ==
    LogClamped[FoldLeft(LAMBDA sum, k : (sum + power[band.first + k] * band.weights[k]) % Modulus,
                        0, [j \in 1..Cardinality(DOMAIN band.weights) |-> j - 1])]

\* frame_log_mel.
FrameLogMel(processor, samples) ==
    LET power == PowerSpectrum([i \in 0..(processor.fft - 1) |->
                                   (samples[i] * processor.window[i]) % Modulus],
                               processor.fft, processor.radices)
    IN  [band \in 0..(processor.mels - 1) |->
           MelBand(processor.bands[band], power)]

\* log_mel_scalar: one column at a time into a matrix of one row to a band.
LogMelScalar(processor, centered, frames) ==
    LET column == [f \in 0..(frames - 1) |->
                     FrameLogMel(processor, [i \in 0..(processor.fft - 1) |->
                                               centered[f * processor.hop + i]])]
    IN  [at \in 0..(processor.mels * frames - 1) |-> column[at % frames][at \div frames]]

\* log_mel_batched: all the frames side by side.
LogMelBatched(processor, centered, frames) ==
    LET half == processor.fft \div 2
        At(f, i) == (centered[f * processor.hop + i] * processor.window[i]) % Modulus
        packed == [at \in 0..(half * frames - 1) |->
                     <<At(at % frames, 2 * (at \div frames)),
                       At(at % frames, 2 * (at \div frames) + 1)>>]
        power == PowerSpectrumBatched(packed, processor.fft, processor.radices, frames)
    IN  [at \in 0..(processor.mels * frames - 1) |->
           MelBand(processor.bands[at \div frames],
                   [k \in 0..half |-> power[k * frames + (at % frames)]])]

\* log_mel of samples 0..length-1.
LogMel(processor, mode, samples, length) ==
    LET frames == FrameCount(processor, length)
    IN  IF frames = 0 THEN Ok([frames |-> 0, values |-> <<>>])
        ELSE Then(Centered(processor, samples, length), LAMBDA centered :
               Ok([frames |-> frames,
                   values |-> IF mode = "Scalar" THEN LogMelScalar(processor, centered, frames)
                              ELSE LogMelBatched(processor, centered, frames)]))
================================================================================
