--------------------------------- MODULE Package ---------------------------------
(***************************************************************************)
(* A model package (model-package/src): its config.kv, the definition read  *)
(* from it, and the assets selected by it.  A line is <<"blank">> (blank or  *)
(* a comment), <<"bare", text>> (no =) or <<"pair", key, text>>, trimmed.    *)
(***************************************************************************)
EXTENDS Outcome, FiniteSets, SequencesExt

CONSTANTS
  WholeNumber(_),  \* the number a text of digits spells; -1 for another text
  RealNumber(_),   \* <<v>> or <<>>: what f64 parses, in some unit
  PathOf(_),       \* its components: "name", "dot", "parent", "root", "backslash"
  NamesOf(_),      \* the texts between its commas, trimmed
  MostWords        \* the largest usize, in 4-byte words

----------------------------------------------------------------------------
(* schema.rs                                                                *)

UnsignedKeys == {"sample_rate", "n_mels", "hop_length", "n_fft", "ctc.blank_id", "ctc.out_dim",
                 "rnnt.blank_id", "rnnt.pred_hidden", "rnnt.max_symbols_per_step",
                 "rnnt.out_dim"}
RealKeys   == {"log_clamp_min", "log_clamp_max", "frames_per_sec"}
AssetKeys  == {"ctc.vocab", "ctc.encoder_fp32", "ctc.encoder_fp16io32", "rnnt.vocab",
               "rnnt.encoder_fp16io32", "rnnt.decoder_fp16", "rnnt.joint_fp16",
               "rnnt.encoder_fp32", "rnnt.decoder_fp32", "rnnt.joint_fp32", "vad.model"}
LayoutKeys == {"ctc.out_layout", "rnnt.out_layout"}
NameKeys   == {"ctc.input_names", "ctc.output_names", "rnnt.input_names", "rnnt.output_names",
               "rnnt.decoder_inputs", "rnnt.decoder_outputs", "rnnt.joint_inputs",
               "rnnt.joint_outputs"}
NamesWanted(key) == IF key \in {"rnnt.decoder_inputs", "rnnt.decoder_outputs"} THEN 3
                    ELSE IF key = "rnnt.joint_outputs" THEN 1 ELSE 2

RequiredKeys == {"format_version", "center"} \union UnsignedKeys \union RealKeys
                \union AssetKeys \union LayoutKeys \union NameKeys
RetainedKeys == {"win_length", "subsampling_factor", "pos_emb_max_len", "ctc.encoder_fp16",
                 "rnnt.pred_layers", "rnnt.encoder_fp16", "source", "exported"}

\* The loop over the lines: each key at most once, none of it empty.
ReadLine(values, line) ==
    IF ~values.ok \/ line[1] = "blank" THEN values
    ELSE IF line[1] = "bare" THEN Err("malformed")
    ELSE IF line[2] = "" \/ line[3] = "" THEN Err("malformed")
    ELSE IF line[2] \in DOMAIN values.value THEN Err("duplicate")
    ELSE Ok((line[2] :> line[3]) @@ values.value)

\* RelativeAsset::parse.
RelativeAsset(text) ==
    IF PathOf(text) = <<>> \/ ~(ToSet(PathOf(text)) \subseteq {"name"}) THEN Err("unsafe")
    ELSE Ok(text)

\* parse_name_value and parse_names_array.
TensorNames(key, text) ==
    LET names == NamesOf(text)
    IN  IF \/ "" \in ToSet(names) \/ ~IsInjective(names)
           \/ Len(names) # NamesWanted(key)
          THEN Err("invalid") ELSE Ok(names)

\* parse_usize, parse_f64, parse_bool, parse_asset, parse_layout and the names:
\* the value of a required key, in the field's own type.
Field(key, text) ==
    CASE key = "format_version" -> Ok(text)
      [] key \in UnsignedKeys ->
           IF WholeNumber(text) < 0 THEN Err("invalid") ELSE Ok(WholeNumber(text))
      [] key \in RealKeys ->
           IF RealNumber(text) \in {<<>>, <<NotFinite>>} THEN Err("invalid")
           ELSE Ok(RealNumber(text)[1])
      [] key = "center" -> IF text \in {"true", "false"} THEN Ok(text) ELSE Err("invalid")
      [] key \in AssetKeys -> RelativeAsset(text)
      [] key \in LayoutKeys -> IF text \in {"t_d", "d_t"} THEN Ok(text) ELSE Err("invalid")
      [] key \in NameKeys -> TensorNames(key, text)

\* parse: version first, then unknown keys, missing keys, and the fields.
Parse(lines) ==
    Then(FoldLeft(ReadLine, Ok(<<>>), lines), LAMBDA values :
        LET keys == DOMAIN values
        IN  IF "format_version" \notin keys THEN Err("missing")
            ELSE IF WholeNumber(values["format_version"]) # 1 THEN Err("version")
            ELSE IF ~(keys \subseteq RequiredKeys \union RetainedKeys) THEN Err("unknown")
            ELSE IF ~(RequiredKeys \subseteq keys) THEN Err("missing")
            ELSE LET fields == [key \in RequiredKeys |-> Field(key, values[key])]
                 IN  IF \E key \in RequiredKeys : ~fields[key].ok THEN Err("value")
                     ELSE Ok([key \in RequiredKeys |-> fields[key].value]))

\* compatibility.rs.
Compatible(d) ==
    /\ \A key \in {"sample_rate", "n_mels", "hop_length", "n_fft"} : d[key] > 0
    /\ d["n_fft"] >= 2
    /\ 0 < d["log_clamp_min"] /\ d["log_clamp_min"] <= d["log_clamp_max"]
    /\ d["frames_per_sec"] > 0
    /\ d["ctc.out_dim"] > 0 /\ d["ctc.blank_id"] < d["ctc.out_dim"]
    /\ d["rnnt.pred_hidden"] > 0 /\ d["rnnt.out_dim"] > 0
    /\ d["rnnt.max_symbols_per_step"] > 0

\* ModelPackage::open; kind is what the path of the package names.
Open(kind, lines) ==
    IF kind # "directory" THEN Err("not a directory")
    ELSE Then(Parse(lines), LAMBDA d : IF Compatible(d) THEN Ok(d) ELSE Err("incompatible"))

----------------------------------------------------------------------------
(* assets.rs and the selections of lib.rs and definition.rs.  A tree maps an *)
(* asset path to [inside, kind]: where its canonical target lies, and what   *)
(* it is; a path it lacks does not exist.                                    *)

\* validate_regular_asset: a symbolic link must not lead out of the package.
RegularAsset(tree, path) ==
    IF path \notin DOMAIN tree THEN Err("io")
    ELSE IF ~tree[path].inside THEN Err("unsafe")
    ELSE IF tree[path].kind # "file" THEN Err("not a file") ELSE Ok(path)

Precisions == {"fp32", "fp16"}
EncoderKey(role, precision) ==
    IF precision = "fp32"
      THEN IF role = "ctc" THEN "ctc.encoder_fp32" ELSE "rnnt.encoder_fp32"
      ELSE IF role = "ctc" THEN "ctc.encoder_fp16io32" ELSE "rnnt.encoder_fp16io32"

\* ctc_encoder and rnnt_encoder: the one graph that is asked for.
EncoderArtifact(d, tree, role, precision) ==
    Then(RegularAsset(tree, d[EncoderKey(role, precision)]), LAMBDA path :
        Ok([path |-> path, precision |-> precision,
            inputs  |-> d[IF role = "ctc" THEN "ctc.input_names" ELSE "rnnt.input_names"],
            outputs |-> d[IF role = "ctc" THEN "ctc.output_names" ELSE "rnnt.output_names"],
            dimension |-> d[IF role = "ctc" THEN "ctc.out_dim" ELSE "rnnt.out_dim"],
            dimensionFirst |-> d[IF role = "ctc" THEN "ctc.out_layout"
                                 ELSE "rnnt.out_layout"] = "d_t"]))

\* rnnt_assets.
RnntAssets(d, tree, precision) ==
    LET keys == IF precision = "fp32"
                  THEN <<"rnnt.decoder_fp32", "rnnt.joint_fp32", "rnnt.vocab">>
                  ELSE <<"rnnt.decoder_fp16", "rnnt.joint_fp16", "rnnt.vocab">>
    IN  Collected([i \in DOMAIN keys |-> RegularAsset(tree, d[keys[i]])])

\* ctc_vocabulary and vad_model.
CtcVocabulary(d, tree) == RegularAsset(tree, d["ctc.vocab"])
VadModel(d, tree)      == RegularAsset(tree, d["vad.model"])

\* read_f32: words is the file in 4-byte words, spare what is left over.
ReadF32(words, spare) ==
    IF words = <<>> THEN Refused
    ELSE LET ndim == Head(words)
             dims == SubSeq(words, 2, ndim + 1)
         IN  IF Len(words) < ndim + 1 THEN Refused
             ELSE LET values == FoldLeft(LAMBDA n, v : IF n > MostWords THEN n ELSE n * v, 1, dims)
                  IN  IF values > MostWords \/ Len(words) # values + ndim + 1 \/ spare # 0
                        THEN Refused
                        ELSE Ok([dims |-> dims, data |-> SubSeq(words, ndim + 2, Len(words))])

\* frontend_weights: the two fixed assets of the frontend.
FrontendWeights(tree, contents) ==
    Then(Collected(<<RegularAsset(tree, "stft_window.f32"),
                     RegularAsset(tree, "mel_fbank.f32")>>),
         LAMBDA paths : Collected([i \in DOMAIN paths |->
             ReadF32(contents[paths[i]].words, contents[paths[i]].spare)]))
================================================================================
