----------------------------- MODULE RunRequest ------------------------------
(***************************************************************************)
(* The way of a run request: nodecli's run command, the ProvisionRequest,  *)
(* _provision and Machine::new of the node manager, the guest's Config and *)
(* create_runtime_spec, which writes what crun runs.                       *)
(*                                                                         *)
(* An environment argument is the sequence of its parts between '='; a     *)
(* value is what follows the key, again a sequence of parts.  Keys are     *)
(* numbered in the order of their names.  Integers have their widths,      *)
(* scaled: U8 values of a u8, U32 values of a u32 and an i32.              *)
(***************************************************************************)
EXTENDS Integers, FiniteSets, Sequences, SequencesExt

CONSTANTS Part,     \* text between two '='
          Keys,     \* keys 1 .. Keys
          U8, U32,  \* 2^8 and 2^32 in the code
          MaxCpus,  \* 32 in the code
          Memory,   \* memory sizes asked for
          MaxEnv,   \* bound: environment arguments
          None

ASSUME WidthAssumption ==
    /\ Keys \in Nat \ {0} /\ MaxEnv \in Nat /\ MaxCpus \in 1 .. U8 - 1
    /\ U8 \in Nat /\ U32 \in Nat /\ U32 % 2 = 0 /\ 2 * U8 <= U32
    /\ Memory \subseteq 0 .. U32 - 1

Key == 1 .. Keys
PATH == 1
Value == BoundedSeq(Part, 2)
Arg == BoundedSeq(Part, 1)

\* An environment argument: the key alone, or a key and its value.
EnvArg == [key : Key, value : Value \cup {None}]

\* None is neither a list nor a map.
ASSUME NoneAssumption ==
    /\ None \notin Arg /\ None \notin Value
    /\ \A keys \in SUBSET Key : None \notin [keys -> Arg]

\* An image's configuration, or None; its fields may be missing.
ImageConfig ==
    [entrypoint : Arg \cup {None}, cmd : Arg \cup {None},
     env : BoundedSeq([key : Key, value : Value], 1) \cup {None}]

VARIABLES
    stage,  \* "cli", "request", "machine" or "spec"
    cli,    \* the command line
    image,  \* the image's configuration
    req,    \* ProvisionRequest
    conf,   \* MachineConfig and the MMDS document
    spec    \* the runtime specification

vars == <<stage, cli, image, req, conf, spec>>

\* A Rust cast: the value modulo the width, read as signed for an i32.
as_u8(n)  == n % U8
as_u32(n) == n % U32
as_i32(n) == IF n % U32 < U32 \div 2 THEN n % U32 ELSE (n % U32) - U32

-----------------------------------------------------------------------------
(* nodecli *)

\* parsed_env: the first part behind the key is the value, an argument without
\* '=' is left out, and the last argument with a key wins.
parsed_env ==
    LET valid == {i \in DOMAIN cli.environment : cli.environment[i].value # None}
        keys == {cli.environment[i].key : i \in valid}
        last(k) == CHOOSE i \in valid :
                       /\ cli.environment[i].key = k
                       /\ \A j \in valid : cli.environment[j].key = k => j <= i
    IN  [k \in keys |-> LET v == cli.environment[last(k)].value
                        IN  IF v = <<>> THEN <<>> ELSE <<Head(v)>>]

run ==
    /\ stage = "cli"
    /\ stage' = "request"
    /\ req' = [vcpus |-> as_i32(cli.vcpus), memory_mb |-> as_i32(cli.memory_mb),
               env |-> parsed_env, cmd_args |-> cli.args]
    /\ UNCHANGED <<cli, image, conf, spec>>

-----------------------------------------------------------------------------
(* The node manager *)

\* Faulty variant: memory is cast to the narrow type as well.
ProvisionNarrow ==
    /\ stage = "request"
    /\ stage' = "machine"
    /\ conf' = [vcpu_count |-> as_u8(req.vcpus), mem_size_mb |-> as_u8(req.memory_mb),
                cmd_args |-> IF req.cmd_args = <<>> THEN None ELSE req.cmd_args,
                env |-> IF DOMAIN req.env = {} THEN None ELSE req.env]
    /\ UNCHANGED <<cli, image, req, spec>>

\* The configuration, with casts; nothing given is no override.  Machine::new
\* puts the overrides in the MMDS document, where the guest reads them back.
provision ==
    /\ stage = "request"
    /\ stage' = "machine"
    /\ conf' = [vcpu_count |-> as_u8(req.vcpus), mem_size_mb |-> as_u32(req.memory_mb),
                cmd_args |-> IF req.cmd_args = <<>> THEN None ELSE req.cmd_args,
                env |-> IF DOMAIN req.env = {} THEN None ELSE req.env]
    /\ UNCHANGED <<cli, image, req, spec>>

-----------------------------------------------------------------------------
(* create_runtime_spec *)

or_empty(s) == IF s = None THEN <<>> ELSE s
Shell == <<"/bin/sh">>
DefaultEnv == <<[key |-> PATH, value |-> <<"default">>]>>
image_env == IF image.env = None THEN DefaultEnv ELSE image.env

\* The entrypoint, then the override or else the image's command.
args ==
    IF conf.cmd_args # None THEN or_empty(image.entrypoint) \o conf.cmd_args
    ELSE IF image.cmd # None THEN or_empty(image.entrypoint) \o image.cmd
    ELSE IF image.entrypoint # None THEN image.entrypoint
    ELSE Shell

\* The keys of a map in their order.
in_order(keys) ==
    [i \in 1 .. Cardinality(keys) |->
        CHOOSE k \in keys : Cardinality({j \in keys : j <= k}) = i]

\* The overrides in the order of their keys.
additional_env ==
    IF conf.env = None THEN <<>>
    ELSE LET keys == in_order(DOMAIN conf.env)
         IN  [i \in DOMAIN keys |-> [key |-> keys[i], value |-> conf.env[keys[i]]]]

\* Faulty variant: the image's environment comes last.
EnvImageLast == additional_env \o image_env

\* The image's environment, then the overrides.
env == image_env \o additional_env

\* An image without a configuration gets the library's default specification.
create_runtime_spec ==
    /\ stage = "machine"
    /\ stage' = "spec"
    /\ spec' = IF image = None THEN "default" ELSE [args |-> args, env |-> env]
    /\ UNCHANGED <<cli, image, req, conf>>

Terminated == stage = "spec" /\ UNCHANGED vars

Init ==
    /\ stage = "cli"
    /\ cli \in [vcpus : {1, MaxCpus}, memory_mb : Memory,
                environment : BoundedSeq(EnvArg, MaxEnv), args : Arg]
    /\ image \in ImageConfig \cup {None}
    /\ req = None /\ conf = None /\ spec = None

Next == run \/ provision \/ create_runtime_spec \/ Terminated

Spec == Init /\ [][Next]_vars

-----------------------------------------------------------------------------
(* Properties *)

\* What the virtual machine gets is what the command line said, through the
\* casts to the signed fields of the request and back.
SizesArrive ==
    conf # None => conf.vcpu_count = cli.vcpus /\ conf.mem_size_mb = cli.memory_mb

ArgsAsGiven ==
    \/ cli.args # <<>> /\ spec.args = or_empty(image.entrypoint) \o cli.args
    \/ /\ cli.args = <<>> /\ (image.entrypoint # None \/ image.cmd # None)
       /\ spec.args = or_empty(image.entrypoint) \o or_empty(image.cmd)
    \/ cli.args = <<>> /\ image.entrypoint = None /\ image.cmd = None /\ spec.args = Shell

\* The last entry of a list with a key: what a process finds in its environment.
Lookup(list, k) ==
    LET at == {i \in DOMAIN list : list[i].key = k}
    IN  IF at = {} THEN None
        ELSE list[CHOOSE i \in at : \A j \in at : j <= i].value

\* A value up to its first '='.
UpToEquals(v) == IF Len(v) <= 1 THEN v ELSE <<v[1]>>

\* What the user asked for: the last -e that has a value, or the image's.
Wanted(k) ==
    LET e == cli.environment
        given == {i \in DOMAIN e : e[i].key = k /\ e[i].value # None}
    IN  IF given = {} THEN Lookup(image_env, k)
        ELSE UpToEquals(e[CHOOSE i \in given : \A j \in given : j <= i].value)

EnvAsGiven == \A k \in Key : Lookup(spec.env, k) = Wanted(k)

\* What crun runs for an image with a configuration is what was asked for.  Given
\* arguments take the place of the image's command and not of its entrypoint;
\* without them the image decides.  The container finds every variable as given,
\* its value up to an '=' in it, and the image's whole value where none was given:
\* repeated keys, arguments without a value and keys of the image included.  (For
\* an image without a configuration arguments and variables are ignored.)
SpecAsGiven == stage = "spec" /\ image # None => ArgsAsGiven /\ EnvAsGiven
=============================================================================
