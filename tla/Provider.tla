-------------------------------- MODULE Provider --------------------------------
(***************************************************************************)
(* The execution provider (recognition/src/provider.rs) and the encoder    *)
(* sessions opened on it (ort_encoder.rs, ort_assignment.rs, assembly.rs,  *)
(* ort_runtime.rs). A setting is <<>> when unset and <<v>> when its text    *)
(* says v; a text that is no unsigned number is -1.                        *)
(***************************************************************************)
EXTENDS Decoding

CONSTANTS
  Compiled,     \* the cargo features: a subset of {"cuda", "tensorrt"}
  MaxThreads,   \* i32::MAX, the largest thread count
  MaxRecords,   \* MAX_ASSIGNMENT_RECORDS
  Malformed     \* a fingerprint that is none

Unset == <<>>
OneOf(setting, values) == setting = Unset \/ setting[1] \in values

----------------------------------------------------------------------------
(* The device.                                                             *)

\* Device::parse and require_compiled_feature.
ParseDevice(v) == IF v \in {"cpu"} \cup Compiled THEN Ok(v) ELSE Refused
BuildDefault == IF "cuda" \in Compiled THEN "cuda" ELSE "cpu"

\* Device::resolve_with_config: the two sources may agree, not compete.
ResolveDevice(cli, env) ==
    IF cli # Unset /\ env # Unset /\ cli # env THEN Err("conflict")
    ELSE IF cli # Unset THEN ParseDevice(cli[1])
    ELSE IF env # Unset THEN ParseDevice(env[1])
    ELSE Ok(BuildDefault)

----------------------------------------------------------------------------
(* The native settings. A shape item is [name, dims]; dims is <<>> when    *)
(* the item has no colon, and name is "" when it is no tensor name.         *)

ShapeSet(items) ==
    IF \/ items = <<>>
       \/ \E i \in DOMAIN items : \/ items[i].name = "" \/ items[i].dims = <<>>
                                  \/ \E d \in ToSet(items[i].dims) : d < 1
                                  \/ \E j \in 1..(i - 1) : items[j].name = items[i].name
      THEN Refused ELSE Ok(items)

SameInput(a, b) == a.name = b.name /\ Len(a.dims) = Len(b.dims)

\* TensorRtProfile::validate_order.
Ordered(min, opt, max) ==
    /\ Len(min) = Len(opt) /\ Len(min) = Len(max)
    /\ \A i \in DOMAIN min :
         /\ SameInput(min[i], opt[i]) /\ SameInput(min[i], max[i])
         /\ \A d \in DOMAIN min[i].dims :
              min[i].dims[d] <= opt[i].dims[d] /\ opt[i].dims[d] <= max[i].dims[d]

\* TensorRtProfile::from_environment.
Profile(min, opt, max) ==
    IF {min, opt, max} = {Unset} THEN Ok(Unset)
    ELSE IF Unset \in {min, opt, max} THEN Refused
    ELSE Then(Collected(<<ShapeSet(min[1]), ShapeSet(opt[1]), ShapeSet(max[1])>>),
              LAMBDA p : IF Ordered(p[1], p[2], p[3]) THEN Ok(<<p>>) ELSE Refused)

\* OrtConfig::from_environment; a cache path is a directory, or it is not.
OrtConfig(env) ==
    LET profile == Profile(env.min, env.opt, env.max)
    IN  IF \/ ~OneOf(env.mempattern, {"0", "1"}) \/ ~OneOf(env.arena, {"default", "same"})
           \/ ~OneOf(env.cache, {"directory"}) \/ ~profile.ok
           \/ ~OneOf(env.threads, 1..MaxThreads)
          THEN Refused
          ELSE Ok([pattern |-> env.mempattern # <<"0">>, same |-> env.arena = <<"same">>,
                   cache |-> env.cache, profile |-> profile.value, threads |-> env.threads])

\* OrtConfig::validate_for: a setting of one provider is not ignored by another.
ValidFor(config, device) ==
    /\ config.same => device = "cuda"
    /\ (config.cache # Unset \/ config.profile # Unset) => device = "tensorrt"

----------------------------------------------------------------------------
(* Which graph assignment a CUDA encoder may have.                         *)

Roles == {"ctc", "rnnt"}

\* CudaAssignmentPolicy::from_environment; env.sha[role] is the role's fingerprint.
AssignmentPolicy(device, required, env) ==
    LET configured == env.policy # Unset \/ \E role \in Roles : env.sha[role] # Unset
        malformed  == \E role \in Roles : env.sha[role] = <<Malformed>>
    IN  IF device # "cuda" THEN (IF configured THEN Refused ELSE Ok(Unset))
        ELSE IF malformed \/ ~OneOf(env.policy, {"verified", "allow-unverified"}) THEN Refused
        ELSE IF env.policy = <<"allow-unverified">>
          THEN IF \E role \in Roles : env.sha[role] # Unset THEN Refused
               ELSE Ok(<<[verified |-> FALSE, required |-> required, sha |-> env.sha]>>)
        ELSE IF \E role \in required : env.sha[role] = Unset THEN Refused
        ELSE Ok(<<[verified |-> TRUE, required |-> required, sha |-> env.sha]>>)

\* CudaAssignmentPolicy::admit_role.
AdmitsRole(policy, role) ==
    /\ role \in policy.required
    /\ policy.verified => policy.sha[role] # Unset

\* CudaAssignmentPolicy::verify_role.
VerifiesAnyRole(policy, role, observed) ==
    /\ AdmitsRole(policy, role)
    /\ policy.verified => \E r \in policy.required : policy.sha[r] = <<observed>>
VerifiesRole(policy, role, observed) ==
    /\ AdmitsRole(policy, role)
    /\ policy.verified => policy.sha[role] = <<observed>>

\* ProviderPlan::new_with_cuda_assignment.
ProviderPlan(device, config, required, env) ==
    LET policy == AssignmentPolicy(device, required, env)
    IN  IF ~ParseDevice(device).ok \/ ~ValidFor(config, device) \/ ~policy.ok THEN Refused
        ELSE Ok([device |-> device, config |-> config, policy |-> policy.value])

\* preflight_cuda_role and verify_cuda_assignment.
Preflights(plan, role) ==
    plan.device = "cuda" /\ plan.policy # Unset /\ AdmitsRole(plan.policy[1], role)
VerifiesAssignment(plan, role, observed) ==
    plan.policy # Unset /\ VerifiesRole(plan.policy[1], role, observed)

----------------------------------------------------------------------------
(* What the runtime reports of a session's graph. A pointer is <<>> when    *)
(* null; a string is one of Unread when it cannot be copied.               *)

Unread == {"failed", "null", "not UTF-8"}

\* assignment_node_string, three times.
NodeRecord(provider, node) ==
    IF node = <<>> \/ {node[1].name, node[1].domain, node[1].operator} \cap Unread # {}
      THEN Refused
      ELSE Ok([provider |-> provider, node |-> node[1].name,
               domain |-> node[1].domain, operator |-> node[1].operator])

\* assignment_records.
AssignmentRecords(report) ==
    LET Step(records, pointer) ==
          IF ~records.ok \/ pointer = <<>> THEN Refused
          ELSE LET subgraph == pointer[1]
                   copied   == Collected([n \in DOMAIN subgraph.nodes |->
                                            NodeRecord(subgraph.provider, subgraph.nodes[n])])
               IN  IF \/ subgraph.provider \in Unread \/ ~copied.ok
                      \/ Len(records.value) + Len(subgraph.nodes) > MaxRecords
                     THEN Refused ELSE Ok(records.value \o copied.value)
    IN  IF ~report.ok \/ Len(report.subgraphs) > MaxRecords THEN Refused
        ELSE FoldLeft(Step, Ok(<<>>), report.subgraphs)

----------------------------------------------------------------------------
(* Sessions.                                                               *)

\* init_runtime: the library is a regular file, loaded once per process.
InitRuntime(kind, loaded) ==
    IF kind # "file" \/ loaded THEN Refused ELSE Ok(TRUE)

\* OrtEncoder::open; commits says whether the runtime builds the session.
OpenEncoder(artifact, plan, role, commits, report) ==
    LET evidence == Then(AssignmentRecords(report), AssignmentEvidence)
        session  == [device |-> plan.device, role |-> role, artifact |-> artifact,
                     threads |-> plan.config.threads, pattern |-> plan.config.pattern,
                     cpuFallback |-> plan.device # "tensorrt", arena |-> plan.config.same,
                     profile |-> plan.config.profile]
    IN  IF plan.device = "cuda" /\ ~Preflights(plan, role) THEN Err("undeclared")
        ELSE IF ~commits THEN Err("native")
        ELSE IF plan.device # "cuda" THEN Ok(session @@ [evidence |-> Unset])
        ELSE IF ~evidence.ok THEN Err("unread")
        ELSE IF ~VerifiesAssignment(plan, role, evidence.value.fingerprint) THEN Err("mismatch")
        ELSE Ok(session @@ [evidence |-> <<evidence.value>>])

\* DirectRecognizer::ctc and rnnt, with the search over the encoder's rows.
DirectRecognizer(role, artifact, decoder, plan, commits, report) ==
    Then(OpenEncoder(artifact, plan, role, commits, report), LAMBDA encoder :
        Then(decoder, LAMBDA d : Ok([encoder |-> encoder, decoder |-> d])))

\* DirectRecognizer's WindowDecoder, which delegates to the search it holds.
RecognizerDecode(recognizer, output, joint) ==
    LET artifact == recognizer.encoder.artifact
        encoded  == Forward(output.shape, output.values, artifact.dimension,
                            artifact.dimensionFirst)
    IN  IF recognizer.encoder.role = "ctc" THEN CtcDecode(recognizer.decoder, encoded)
        ELSE RnntDecode(recognizer.decoder, encoded, joint)
================================================================================
