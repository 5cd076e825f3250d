------------------------------ MODULE AudioFormats ------------------------------
(***************************************************************************)
(* Bytes into channels (audio/src): raw frames that arrive cut anywhere,   *)
(* WAV containers, the optional codecs, G.711, and the slices of a feature *)
(* matrix.  A byte is a number; a sample is the integer it encodes, without *)
(* the scale, except an IEEE float, which stays its bytes.                 *)
(***************************************************************************)
EXTENDS Outcome, FiniteSets, SequencesExt

CONSTANTS Wild          \* bytes of a float that is not finite, or out of range

\* SampleFormat::bytes_per_sample.
BytesPerSample(format) ==
    [Pcm16 |-> 2, F32 |-> 4, Alaw |-> 1, Ulaw |-> 1][format]

----------------------------------------------------------------------------
(* Samples. *)

Signed(byte) == IF byte >= 128 THEN byte - 256 ELSE byte

\* Little-endian, the last byte signed.
LittleEndian(bytes) ==
    FoldRight(LAMBDA b, acc : b + 256 * acc, Front(bytes), Signed(Last(bytes)))

Mantissa(v) == v % 16
SegmentOf(v) == (v \div 16) % 8

\* ulaw_to_i16: the byte is complemented first.
UlawToI16(byte) ==
    LET v == 255 - byte
        magnitude == (Mantissa(v) * 8 + 132) * 2^SegmentOf(v)
    IN  IF v >= 128 THEN 132 - magnitude ELSE magnitude - 132

\* alaw_to_i16: every other bit of the byte is inverted first.
AlawToI16(byte) ==
    LET Flip(v, bit) == IF (v \div bit) % 2 = 0 THEN v + bit ELSE v - bit
        v == Flip(Flip(Flip(Flip(byte, 1), 4), 16), 64)
        magnitude == IF SegmentOf(v) = 0 THEN Mantissa(v) * 16 + 8
                     ELSE (Mantissa(v) * 16 + 264) * 2^(SegmentOf(v) - 1)
    IN  IF v >= 128 THEN magnitude ELSE -magnitude

\* decode_sample: a raw float has to be finite and normalized.
DecodeSample(format, bytes) ==
    CASE format = "Pcm16" -> Ok(LittleEndian(bytes))
      [] format = "F32"   -> IF ToSet(bytes) \cap Wild = {} THEN Ok(bytes) ELSE Refused
      [] format = "Alaw"  -> Ok(AlawToI16(bytes[1]))
      [] format = "Ulaw"  -> Ok(UlawToI16(bytes[1]))

----------------------------------------------------------------------------
(* InterleavedFrameDecoder. *)

NewFrameDecoder(format, channels) ==
    [format |-> format, channels |-> channels, remainder |-> <<>>]

FrameBytes(decoder) == BytesPerSample(decoder.format) * decoder.channels

\* The bytes of one of the interleaved samples, counted from 0.
SampleAt(bytes, width, index) == SubSeq(bytes, index * width + 1, (index + 1) * width)

\* push: the complete frames of what was kept and what arrives, by channel, or
\* no channels at all; a partial frame is kept.  The remainder is replaced
\* before a sample can be refused.
PushBytes(decoder, bytes) ==
    LET combined == decoder.remainder \o bytes
        frames   == Len(combined) \div FrameBytes(decoder)
        samples  == Collected([i \in 1..(frames * decoder.channels) |->
                        DecodeSample(decoder.format,
                            SampleAt(combined, BytesPerSample(decoder.format), i - 1))])
    IN  [decoder |-> [decoder EXCEPT !.remainder =
                        SubSeq(combined, frames * FrameBytes(decoder) + 1, Len(combined))],
         result  |-> IF frames = 0 THEN Ok(<<>>)
                     ELSE Then(samples, LAMBDA s :
                            Ok([c \in 1..decoder.channels |->
                                  [f \in 1..frames |-> s[(f - 1) * decoder.channels + c]]]))]

\* finish: bytes of an incomplete frame are an error.
FinishFrames(decoder) == IF decoder.remainder = <<>> THEN Ok("done") ELSE Refused

\* decode_samples: one whole channel at once.
DecodeSamples(format, bytes) ==
    IF Len(bytes) % BytesPerSample(format) # 0 THEN Refused
    ELSE IF bytes = <<>> THEN Ok(<<>>)
    ELSE LET pushed == PushBytes(NewFrameDecoder(format, 1), bytes)
         IN  Then(pushed.result, LAMBDA channels : Ok(channels[1]))

----------------------------------------------------------------------------
(* WAV: a file is its header, its declared size and its chunks.  A chunk    *)
(* declares its size; "present" is what the file really holds of its body   *)
(* and padding.                                                             *)

\* parse_format: tag, widths and derived rates have to agree.
ParseFormat(fmt) ==
    LET tag == IF fmt.tag # "Extensible" THEN fmt.tag ELSE fmt.subtype
        bytesPerSample == fmt.bits \div 8
    IN  IF /\ fmt.size >= 16
           /\ fmt.tag = "Extensible" =>
                /\ fmt.size >= 40 /\ fmt.extension = 22
                /\ fmt.validBits = fmt.bits
                /\ fmt.subtype \in {"Pcm", "Float"}
           /\ fmt.channels > 0 /\ fmt.rate > 0
           /\ <<tag, fmt.bits>> \in {<<"Pcm", 8>>, <<"Pcm", 16>>, <<"Pcm", 24>>,
                                     <<"Pcm", 32>>, <<"Float", 32>>,
                                     <<"Alaw", 8>>, <<"Ulaw", 8>>}
           /\ fmt.align = bytesPerSample * fmt.channels
           /\ fmt.byteRate = fmt.rate * fmt.align
          THEN Ok([tag |-> tag, bits |-> fmt.bits, channels |-> fmt.channels,
                   rate |-> fmt.rate, align |-> fmt.align])
          ELSE Refused

\* decode_wav_sample: eight bits are unsigned, a float may exceed one.
DecodeWavSample(format, bytes) ==
    CASE format.tag = "Pcm" /\ format.bits = 8 -> bytes[1] - 128
      [] format.tag = "Pcm" /\ format.bits # 8 -> LittleEndian(bytes)
      [] format.tag = "Float" -> bytes
      [] format.tag = "Alaw"  -> AlawToI16(bytes[1])
      [] format.tag = "Ulaw"  -> UlawToI16(bytes[1])

\* One turn of parse_wav's loop.
TakeChunk(found, chunk) ==
    IF chunk.size + (chunk.size % 2) > chunk.present THEN Refused
    ELSE CASE chunk.id = "fmt" ->
                IF found.format # "none" THEN Refused
                ELSE Then(ParseFormat(chunk.body), LAMBDA format :
                            Ok([found EXCEPT !.format = format]))
           [] chunk.id = "data" ->
                IF found.data # "none" THEN Refused
                ELSE Ok([found EXCEPT !.data = [bytes |-> chunk.body]])
           [] chunk.id = "other" -> Ok(found)

\* DecodedAudio::new: channels, all of one positive length.
DecodedAudio(rate, channels) ==
    IF /\ channels # <<>> /\ channels[1] # <<>>
       /\ \A c \in DOMAIN channels : Len(channels[c]) = Len(channels[1])
      THEN Ok([rate |-> rate, channels |-> channels])
      ELSE Refused

\* The frames of the data chunk, channel by channel.
WavChannels(format, data) ==
    LET width == format.align \div format.channels
    IN  [c \in 1..format.channels |->
           [f \in 1..(Len(data) \div format.align) |->
              DecodeWavSample(format, SampleAt(data, width, (f - 1) * format.channels + c - 1))]]

\* parse_wav.
ParseWav(file) ==
    IF ~file.riff \/ file.declared # file.size - 8 THEN Refused
    ELSE Then(FoldLeft(LAMBDA found, chunk : Then(found, LAMBDA f : TakeChunk(f, chunk)),
                       Ok([format |-> "none", data |-> "none"]), file.chunks),
           LAMBDA found :
             IF \/ found.format = "none" \/ found.data = "none"
                \/ found.data.bytes = <<>>
                \/ Len(found.data.bytes) % found.format.align # 0
               THEN Refused
               ELSE DecodedAudio(found.format.rate,
                                 WavChannels(found.format, found.data.bytes)))

----------------------------------------------------------------------------
(* The optional codecs: the external demuxer and decoder give packets of     *)
(* interleaved samples, each with its specification.                         *)

\* deinterleave.
Deinterleave(samples, channels) ==
    IF samples = <<>> \/ Len(samples) % channels # 0 THEN Refused
    ELSE Ok([c \in 1..channels |->
               [f \in 1..(Len(samples) \div channels) |->
                  samples[(f - 1) * channels + c]]])

\* trim_opus_reference_samples: the declared pre-skip, in frames.
TrimOpus(samples, channels, preSkip) ==
    IF preSkip * channels > Len(samples) THEN Refused
    ELSE Ok(SubSeq(samples, preSkip * channels + 1, Len(samples)))

\* opus_trim_then_resample, up to the resampling.
OpusAudio(stream) ==
    Then(TrimOpus(FlattenSeq([i \in DOMAIN stream.packets |-> stream.packets[i].samples]),
                  stream.channels, stream.preSkip),
         LAMBDA trimmed : Then(Deinterleave(trimmed, stream.channels),
         LAMBDA channels : DecodedAudio(48000, channels)))

\* One packet of another codec: of the track that was chosen, undamaged, and
\* like those before it.  A damaged packet is skipped, whatever it held.
TakePacket(got, packet) ==
    IF ~packet.ours \/ packet.damaged THEN Ok(got)
    ELSE IF got.spec \notin {"none", packet.spec} THEN Refused
    ELSE Ok([spec |-> packet.spec, samples |-> got.samples \o packet.samples])

\* decode_bytes with the decoders feature; "reset" is a chained stream.  An Opus
\* track has to declare its pre-skip, and a damaged packet of it is an error.
DecodeBytes(stream) ==
    IF ~stream.recognized \/ stream.reset THEN Refused
    ELSE IF stream.codec = "Opus"
      THEN IF \/ stream.preSkip = "none"
              \/ \E i \in DOMAIN stream.packets : stream.packets[i].ours /\ stream.packets[i].damaged
             THEN Refused
             ELSE OpusAudio([stream EXCEPT !.packets = SelectSeq(@, LAMBDA p : p.ours)])
      ELSE Then(FoldLeft(LAMBDA got, p : Then(got, LAMBDA g : TakePacket(g, p)),
                         Ok([spec |-> "none", samples |-> <<>>]), stream.packets),
             LAMBDA got : IF got.spec = "none" THEN Refused
                          ELSE Then(Deinterleave(got.samples, got.spec),
                                    LAMBDA channels : DecodedAudio(stream.rate, channels)))

\* load_bytes: RIFF is never given to a codec.
LoadBytes(input) == IF input.kind = "wav" THEN ParseWav(input.file)
                    ELSE DecodeBytes(input.stream)

----------------------------------------------------------------------------
(* FeatureMatrix: rows of mel bins, one after the other. *)

\* validate_feature_matrix.
ValidMatrix(m) == m.bins > 0 /\ Len(m.values) = m.bins * m.frames

\* frame_range.
FrameRange(m, from, to) ==
    IF from > to \/ to > m.frames THEN Refused
    ELSE Ok([bins |-> m.bins, frames |-> to - from,
             values |-> FlattenSeq([b \in 1..m.bins |->
                SubSeq(m.values, (b - 1) * m.frames + from + 1,
                                 (b - 1) * m.frames + to)])])
================================================================================
