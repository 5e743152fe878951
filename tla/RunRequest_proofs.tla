-------------------------- MODULE RunRequest_proofs ---------------------------
(***************************************************************************)
(* Proofs about RunRequest, for every width, every number of keys and      *)
(* arguments and every text.                                               *)
(***************************************************************************)
EXTENDS RunRequest, FiniteSetTheorems, SequenceTheorems, WellFoundedInduction, TLAPS

-----------------------------------------------------------------------------
(* The inductive invariant *)

Typed ==
    /\ cli \in [vcpus : {1, MaxCpus}, memory_mb : Memory,
                environment : BoundedSeq(EnvArg, MaxEnv), args : Arg]
    /\ image \in ImageConfig \cup {None}
    /\ stage \in {"cli", "request", "machine", "spec"}

\* What each stage hands to the next, in terms of the command line.
Request ==
    [vcpus |-> as_i32(cli.vcpus), memory_mb |-> as_i32(cli.memory_mb),
     env |-> parsed_env, cmd_args |-> cli.args]
Configured ==
    [vcpu_count |-> as_u8(as_i32(cli.vcpus)), mem_size_mb |-> as_u32(as_i32(cli.memory_mb)),
     cmd_args |-> IF cli.args = <<>> THEN None ELSE cli.args,
     env |-> IF DOMAIN parsed_env = {} THEN None ELSE parsed_env]
Handed ==
    /\ stage = "request" => req = Request
    /\ stage \in {"cli", "request"} => conf = None
    /\ stage \in {"machine", "spec"} => conf = Configured
    /\ stage = "spec" => spec = IF image = None THEN "default" ELSE [args |-> args, env |-> env]

Inv == Typed /\ Handed

\* It holds at the start.
LEMMA InitInv == Init => Inv
BY DEF Init, Inv, Typed, Handed

\* And every stage keeps it.
LEMMA NextInv == Inv /\ [Next]_vars => Inv'
<1> SUFFICES ASSUME Inv, [Next]_vars PROVE Inv'
  OBVIOUS
<1>1. UNCHANGED <<cli, image>>
  BY DEF Next, run, provision, create_runtime_spec, Terminated, vars
<1>2. parsed_env' = parsed_env
  BY <1>1 DEF parsed_env
<1>3. Request' = Request /\ Configured' = Configured
  BY <1>1, <1>2 DEF Request, Configured, as_i32, as_u8, as_u32
<1>4. CASE run
  BY <1>1, <1>3, <1>4 DEF run, Inv, Typed, Handed, Request
<1>5. CASE provision
  <2>1. req = Request /\ stage = "request" /\ stage' = "machine"
    BY <1>5 DEF provision, Inv, Handed
  <2>2. conf' = Configured
    BY <1>5, <2>1 DEF provision, Request, Configured
  <2> QED BY <1>1, <1>3, <2>1, <2>2 DEF Inv, Typed, Handed
<1>6. CASE create_runtime_spec
  <2>1. /\ stage = "machine" /\ stage' = "spec" /\ conf' = conf /\ conf = Configured
        /\ spec' = IF image = None THEN "default" ELSE [args |-> args, env |-> env]
    BY <1>6 DEF create_runtime_spec, Inv, Handed
  <2>2. args' = args /\ env' = env
    BY <1>1, <2>1 DEF args, or_empty, env, image_env, additional_env, DefaultEnv, PATH, Shell
  <2> QED BY <1>1, <1>3, <2>1, <2>2 DEF Inv, Typed, Handed
<1>7. CASE UNCHANGED vars
  <2>1. UNCHANGED <<stage, req, conf, spec>>
    BY <1>7 DEF vars
  <2>2. args' = args /\ env' = env
    BY <1>1, <2>1 DEF args, or_empty, env, image_env, additional_env, DefaultEnv, PATH, Shell
  <2> QED BY <1>1, <1>3, <2>1, <2>2 DEF Inv, Typed, Handed
<1> QED BY <1>4, <1>5, <1>6, <1>7 DEF Next, Terminated

\* The invariant of the stages.
THEOREM Invariance == Spec => []Inv
BY InitInv, NextInv, PTL DEF Spec

-----------------------------------------------------------------------------
(* Casts *)

\* A number below the width is its own remainder, and so is what became
\* negative in the signed field.
LEMMA Remainders ==
    ASSUME NEW m \in Nat, NEW n \in Nat, n < m
    PROVE  n % m = n /\ (n - m) % m = n
BY SMT

\* Half a width.
LEMMA Half ==
    ASSUME NEW m \in Nat, m % 2 = 0
    PROVE  m \div 2 \in Nat /\ 2 * (m \div 2) = m
BY SMT

\* The node manager's casts undo the ones of nodecli.
THEOREM SizeSafety == Spec => []SizesArrive
<1>1. Inv => SizesArrive
  <2> SUFFICES ASSUME Inv, conf # None
               PROVE  conf.vcpu_count = cli.vcpus /\ conf.mem_size_mb = cli.memory_mb
    BY DEF SizesArrive
  <2>1. conf = Configured
    BY DEF Inv, Handed, Typed
  <2>2. /\ cli.vcpus \in Nat /\ cli.vcpus < U8 /\ cli.memory_mb \in Nat /\ cli.memory_mb < U32
        /\ U8 \in Nat /\ U32 \in Nat /\ 2 * U8 <= U32
    <3>1. cli.vcpus \in {1, MaxCpus} /\ cli.memory_mb \in Memory
      BY DEF Inv, Typed
    <3>2. 1 \in 1 .. U8 - 1 /\ U8 \in Nat /\ U32 \in Nat /\ 2 * U8 <= U32
      BY WidthAssumption
    <3>3. cli.vcpus \in 1 .. U8 - 1 /\ cli.memory_mb \in 0 .. U32 - 1
      BY <3>1, <3>2, WidthAssumption
    <3> QED BY <3>2, <3>3
  <2>3. U32 \div 2 \in Nat /\ 2 * (U32 \div 2) = U32
    BY Half, WidthAssumption
  <2>4. as_i32(cli.vcpus) = cli.vcpus
    <3>1. cli.vcpus % U32 = cli.vcpus
      BY <2>2, Remainders
    <3> QED BY <2>2, <2>3, <3>1 DEF as_i32
  <2>5. as_u8(as_i32(cli.vcpus)) = cli.vcpus
    BY <2>2, <2>4, Remainders DEF as_u8
  <2>6. as_u32(as_i32(cli.memory_mb)) = cli.memory_mb
    <3>1. /\ cli.memory_mb % U32 = cli.memory_mb
          /\ (cli.memory_mb - U32) % U32 = cli.memory_mb
      BY <2>2, Remainders
    <3>2. as_i32(cli.memory_mb) \in {cli.memory_mb, cli.memory_mb - U32}
      BY <3>1 DEF as_i32
    <3> QED BY <3>1, <3>2 DEF as_u32
  <2> QED BY <2>1, <2>5, <2>6 DEF Configured
<1> QED BY <1>1, Invariance, PTL

-----------------------------------------------------------------------------
(* Lists and the largest of their positions *)

\* A bounded list is a list.
LEMMA Bounded ==
    ASSUME NEW S, NEW n \in Nat, NEW s \in BoundedSeq(S, n)
    PROVE  s \in Seq(S) /\ Len(s) \in 0 .. n
<1>1. PICK m \in 0 .. n : s \in [1 .. m -> S]
  BY DEF BoundedSeq, SeqOf
<1> QED BY <1>1

\* A value without '=' is its first part.
LEMMA OnePart ==
    ASSUME NEW S, NEW v \in Seq(S), Len(v) <= 1
    PROVE  v = IF v = <<>> THEN <<>> ELSE <<Head(v)>>
<1>1. CASE v # <<>>
  <2>1. Len(v) \in Nat \ {0}
    BY <1>1, EmptySeq
  <2>2. PICK n \in Nat \ {0} : n = Len(v)
    BY <2>1
  <2>3. n = 1
    BY <2>2
  <2>4. v \in [1 .. Len(v) -> S] /\ Head(v) = v[1]
    BY LenProperties
  <2>5. <<v[1]>> = v
    BY <2>2, <2>3, <2>4
  <2> QED BY <1>1, <2>4, <2>5
<1> QED BY <1>1

\* The first part behind the key is the value up to its first '='.
LEMMA FirstPart ==
    ASSUME NEW S, NEW v \in Seq(S)
    PROVE  (IF v = <<>> THEN <<>> ELSE <<Head(v)>>) = UpToEquals(v)
<1>1. CASE Len(v) <= 1
  BY <1>1, OnePart DEF UpToEquals
<1>2. CASE ~(Len(v) <= 1)
  <2>1. v # <<>> /\ Head(v) = v[1]
    BY <1>2
  <2> QED BY <1>2, <2>1 DEF UpToEquals
<1> QED BY <1>1, <1>2

\* A bounded set of numbers has a largest one: the distances from the bound are
\* counted by finite sets, which inclusion orders well.
LEMMA Largest ==
    ASSUME NEW S, NEW n \in Nat, S \subseteq 0 .. n, S # {}
    PROVE  \E k \in S : \A j \in S : j <= k
<1> DEFINE T == {k + 1 .. n : k \in S}
<1>1. T \subseteq FiniteSubsetsOf(Nat) /\ T # {}
  <2>1. ASSUME NEW k \in S PROVE k + 1 .. n \in FiniteSubsetsOf(Nat)
    <3>1. k \in Nat /\ k + 1 \in Int /\ n \in Int
      OBVIOUS
    <3>2. k + 1 .. n \in SUBSET Nat
      BY <3>1
    <3>3. IsFiniteSet(k + 1 .. n)
      BY <3>1, FS_Interval
    <3> QED BY <3>2, <3>3 DEF FiniteSubsetsOf
  <2> QED BY <2>1
<1>2. PICK X \in T : \A Y \in T : ~(<<Y, X>> \in StrictSubsetOrdering(Nat))
  BY <1>1, FS_StrictSubsetOrderingWellFounded, WFMin
<1>3. PICK k \in S : X = k + 1 .. n
  OBVIOUS
<1>4. ASSUME NEW j \in S PROVE j <= k
  <2>1. SUFFICES ASSUME k < j PROVE FALSE
    OBVIOUS
  <2>2. /\ j + 1 .. n \in SUBSET Nat /\ k + 1 .. n \in SUBSET Nat
        /\ j + 1 .. n \subseteq k + 1 .. n
    BY <2>1
  <2>3. j \in k + 1 .. n /\ j \notin j + 1 .. n
    BY <2>1
  <2>4. <<j + 1 .. n, k + 1 .. n>> \in StrictSubsetOrdering(Nat)
    BY <2>2, <2>3 DEF StrictSubsetOrdering
  <2> QED BY <1>2, <1>3, <2>4
<1> QED BY <1>4

\* The largest of a set of numbers is the only one CHOOSE can find.
LEMMA Chosen ==
    ASSUME NEW S, S \subseteq Nat, NEW k \in S, \A j \in S : j <= k
    PROVE  (CHOOSE i \in S : \A j \in S : j <= i) = k
<1>1. ASSUME NEW i \in S, \A j \in S : j <= i PROVE i = k
  <2>1. i <= k /\ k <= i /\ i \in Nat /\ k \in Nat
    BY <1>1
  <2> QED BY <2>1
<1> QED BY <1>1

\* What a process finds is the last entry with the key.
LEMMA LookupLast ==
    ASSUME NEW S, NEW list \in Seq(S), NEW k, NEW i \in 1 .. Len(list), list[i].key = k,
           \A j \in 1 .. Len(list) : list[j].key = k => j <= i
    PROVE  Lookup(list, k) = list[i].value
<1> DEFINE at == {j \in DOMAIN list : list[j].key = k}
<1>1. at \subseteq Nat /\ i \in at /\ \A j \in at : j <= i
  OBVIOUS
<1>2. (CHOOSE j \in at : \A m \in at : m <= j) = i
  <2> HIDE DEF at
  <2> QED BY <1>1, Chosen
<1> QED BY <1>1, <1>2 DEF Lookup

\* A second list without the key changes nothing.
LEMMA LookupFirst ==
    ASSUME NEW S, NEW a \in Seq(S), NEW b \in Seq(S), NEW k,
           \A j \in 1 .. Len(b) : b[j].key # k
    PROVE  Lookup(a \o b, k) = Lookup(a, k)
<1> DEFINE at == {i \in DOMAIN a : a[i].key = k}
<1>1. /\ a \o b \in Seq(S) /\ Len(a \o b) = Len(a) + Len(b) /\ Len(a) \in Nat /\ Len(b) \in Nat
      /\ \A i \in 1 .. Len(a) + Len(b) :
            (a \o b)[i] = IF i <= Len(a) THEN a[i] ELSE b[i - Len(a)]
  BY ConcatProperties, LenProperties
<1>2. {i \in DOMAIN (a \o b) : (a \o b)[i].key = k} = at
  <2>1. ASSUME NEW i \in 1 .. Len(a) + Len(b), (a \o b)[i].key = k
        PROVE  i \in 1 .. Len(a) /\ a[i].key = k
    <3>1. CASE i <= Len(a)
      BY <1>1, <2>1, <3>1
    <3>2. CASE ~(i <= Len(a))
      <4>1. i - Len(a) \in 1 .. Len(b) /\ b[i - Len(a)].key = k
        BY <1>1, <2>1, <3>2
      <4> QED BY <4>1
    <3> QED BY <3>1, <3>2
  <2>2. ASSUME NEW i \in 1 .. Len(a)
        PROVE  i \in 1 .. Len(a) + Len(b) /\ (a \o b)[i] = a[i]
    BY <1>1
  <2>3. DOMAIN (a \o b) = 1 .. Len(a) + Len(b) /\ DOMAIN a = 1 .. Len(a)
    BY <1>1
  <2> QED BY <2>1, <2>2, <2>3
<1>3. CASE at = {}
  BY <1>2, <1>3 DEF Lookup
<1>4. CASE at # {}
  <2>1. at \subseteq 0 .. Len(a)
    BY <1>1
  <2>2. PICK m \in at : \A j \in at : j <= m
    <3> HIDE DEF at
    <3> QED BY <1>1, <1>4, <2>1, Largest
  <2>3. (CHOOSE i \in at : \A j \in at : j <= i) = m
    <3>1. at \subseteq Nat
      BY <1>1
    <3> HIDE DEF at
    <3> QED BY <2>2, <3>1, Chosen
  <2>4. (a \o b)[m] = a[m]
    BY <1>1
  <2>5. Lookup(a, k) = a[m].value
    BY <1>4, <2>3 DEF Lookup
  <2>6. Lookup(a \o b, k) = (a \o b)[m].value
    BY <1>2, <1>4, <2>3 DEF Lookup
  <2> QED BY <2>4, <2>5, <2>6
<1> QED BY <1>3, <1>4

\* The last entry of a second list hides the first list.
LEMMA LookupSecond ==
    ASSUME NEW S, NEW a \in Seq(S), NEW b \in Seq(S), NEW k, NEW i \in 1 .. Len(b),
           b[i].key = k, \A j \in 1 .. Len(b) : b[j].key = k => j <= i
    PROVE  Lookup(a \o b, k) = b[i].value
<1>1. /\ a \o b \in Seq(S) /\ Len(a \o b) = Len(a) + Len(b) /\ Len(a) \in Nat /\ Len(b) \in Nat
      /\ \A j \in 1 .. Len(a) + Len(b) :
            (a \o b)[j] = IF j <= Len(a) THEN a[j] ELSE b[j - Len(a)]
  BY ConcatProperties, LenProperties
<1>2. Len(a) + i \in 1 .. Len(a \o b) /\ (a \o b)[Len(a) + i] = b[i]
  <2>1. Len(a) + i \in 1 .. Len(a) + Len(b) /\ ~(Len(a) + i <= Len(a)) /\ Len(a) + i - Len(a) = i
    BY <1>1
  <2> QED BY <1>1, <2>1
<1>3. ASSUME NEW j \in 1 .. Len(a \o b), (a \o b)[j].key = k PROVE j <= Len(a) + i
  <2>1. SUFFICES ASSUME j > Len(a) PROVE j <= Len(a) + i
    BY <1>1
  <2>2. j - Len(a) \in 1 .. Len(b) /\ b[j - Len(a)].key = k
    BY <1>1, <1>3, <2>1
  <2>3. j - Len(a) <= i
    BY <2>2
  <2> QED BY <1>1, <2>3
<1>4. PICK list : list = a \o b
  OBVIOUS
<1>5. PICK m : m = Len(a) + i
  OBVIOUS
<1>6. /\ list \in Seq(S) /\ m \in 1 .. Len(list) /\ list[m] = b[i] /\ list[m].key = k
      /\ \A j \in 1 .. Len(list) : list[j].key = k => j <= m
  BY <1>1, <1>2, <1>3, <1>4, <1>5
<1>7. Lookup(list, k) = list[m].value
  BY <1>6, LookupLast
<1> QED BY <1>4, <1>6, <1>7

-----------------------------------------------------------------------------
(* The overrides *)

\* The keys of a map in their order: each of them once, for as many keys as
\* there are, since ranks of different keys differ and there are enough ranks.
LEMMA InOrder ==
    ASSUME NEW keys \in SUBSET Key
    PROVE  /\ Cardinality(keys) \in Nat
           /\ in_order(keys) \in [1 .. Cardinality(keys) -> keys]
           /\ \A k \in keys : \E i \in 1 .. Cardinality(keys) : in_order(keys)[i] = k
           /\ \A i, j \in 1 .. Cardinality(keys) : in_order(keys)[i] = in_order(keys)[j] => i = j
<1> DEFINE n == Cardinality(keys)
           below(k) == {j \in keys : j <= k}
           rank == [k \in keys |-> Cardinality(below(k))]
<1>1. IsFiniteSet(Key) /\ \A k \in Key : k \in Nat
  BY WidthAssumption, FS_Interval DEF Key
<1>2. IsFiniteSet(keys) /\ n \in Nat
  BY <1>1, FS_Subset, FS_CardinalityType
<1>3. ASSUME NEW k \in keys PROVE IsFiniteSet(below(k)) /\ Cardinality(below(k)) \in 1 .. n
  <2>1. k \in below(k) /\ below(k) \in SUBSET keys
    BY <1>1
  <2>2. /\ IsFiniteSet(below(k)) /\ Cardinality(below(k)) <= n
        /\ Cardinality(below(k)) \in Nat
    BY <1>2, <2>1, FS_Subset, FS_CardinalityType
  <2>3. Cardinality(below(k)) # 0
    BY <2>1, <2>2, FS_EmptySet
  <2> QED BY <1>2, <2>2, <2>3
<1>4. ASSUME NEW k \in keys, NEW m \in keys, k < m
      PROVE  Cardinality(below(k)) # Cardinality(below(m))
  <2>1. below(k) \in SUBSET below(m) /\ m \in below(m) /\ m \notin below(k)
    BY <1>1, <1>4
  <2> QED BY <1>3, <2>1, FS_Subset
<1>5. ASSUME NEW k \in keys, NEW m \in keys, Cardinality(below(k)) = Cardinality(below(m))
      PROVE  k = m
  <2>1. ~(k < m) /\ ~(m < k) /\ k \in Nat /\ m \in Nat
    BY <1>1, <1>4, <1>5
  <2> QED BY <2>1
<1>6. \A i \in 1 .. n : \E k \in keys : Cardinality(below(k)) = i
  <2>1. rank \in [keys -> 1 .. n]
    BY <1>3
  <2>2. \A k, m \in keys : rank[k] = rank[m] => k = m
    BY <1>5
  <2>3. rank \in Injection(keys, 1 .. n)
    <3> HIDE DEF rank, n
    <3> QED BY <2>1, <2>2 DEF Injection, IsInjective
  <2>4. IsFiniteSet(1 .. n) /\ Cardinality(1 .. n) = n
    BY <1>2, FS_Interval
  <2>5. rank \in Surjection(keys, 1 .. n)
    <3>1. PICK f \in Injection(keys, 1 .. n) : f = rank
      BY <2>3
    <3>2. f \in Surjection(keys, 1 .. n)
      <4> HIDE DEF rank
      <4> QED BY <2>4, FS_Injection
    <3> QED BY <3>1, <3>2
  <2>6. \A i \in 1 .. n : \E k \in keys : rank[k] = i
    <3> HIDE DEF rank, n
    <3> QED BY <2>5 DEF Surjection
  <2> QED BY <2>6
<1>7. ASSUME NEW i \in 1 .. n
      PROVE  in_order(keys)[i] \in keys /\ Cardinality(below(in_order(keys)[i])) = i
  <2>1. in_order(keys)[i] = CHOOSE k \in keys : Cardinality(below(k)) = i
    BY DEF in_order
  <2> HIDE DEF below, n
  <2> QED BY <1>6, <2>1
<1>8. in_order(keys) = [i \in 1 .. n |-> in_order(keys)[i]]
  BY DEF in_order
<1>9. in_order(keys) \in [1 .. n -> keys]
  BY <1>7, <1>8
<1>10. ASSUME NEW k \in keys PROVE \E i \in 1 .. n : in_order(keys)[i] = k
  <2>1. in_order(keys)[Cardinality(below(k))] = k
    BY <1>3, <1>5, <1>7
  <2> QED BY <1>3, <2>1
<1>11. ASSUME NEW i \in 1 .. n, NEW j \in 1 .. n, in_order(keys)[i] = in_order(keys)[j]
       PROVE  i = j
  BY <1>7, <1>11
<1> QED BY <1>2, <1>9, <1>10, <1>11

\* The environment arguments of a command line.
LEMMA Arguments ==
    ASSUME Inv
    PROVE  /\ cli.environment \in Seq(EnvArg) /\ Len(cli.environment) \in Nat
           /\ DOMAIN cli.environment = 1 .. Len(cli.environment)
           /\ \A i \in DOMAIN cli.environment :
                 /\ cli.environment[i].key \in Key
                 /\ cli.environment[i].value # None => cli.environment[i].value \in Seq(Part)
<1>1. cli.environment \in BoundedSeq(EnvArg, MaxEnv)
  BY DEF Inv, Typed
<1>2. cli.environment \in Seq(EnvArg) /\ Len(cli.environment) \in Nat
  BY <1>1, Bounded, WidthAssumption
<1>3. ASSUME NEW e \in EnvArg PROVE e.key \in Key /\ (e.value # None => e.value \in Seq(Part))
  <2>1. e.key \in Key /\ e.value \in Value \cup {None}
    BY DEF EnvArg
  <2>2. e.value # None => e.value \in BoundedSeq(Part, 2)
    BY <2>1 DEF Value
  <2> QED BY <2>1, <2>2, Bounded
<1>4. DOMAIN cli.environment = 1 .. Len(cli.environment)
  BY <1>2
<1>5. \A i \in DOMAIN cli.environment : cli.environment[i] \in EnvArg
  BY <1>2
<1> QED BY <1>2, <1>3, <1>4, <1>5

\* The arguments that give the variable k a value, and the last of them.
Given(k) == {i \in DOMAIN cli.environment :
                cli.environment[i].key = k /\ cli.environment[i].value # None}
LastGiven(k) == CHOOSE i \in Given(k) : \A j \in Given(k) : j <= i

\* parsed_env has the keys that were given with a value, and for each of them
\* what stands between the first and the second '=' of the last one.
LEMMA Parsed ==
    ASSUME Inv, NEW k \in Key
    PROVE  /\ k \in DOMAIN parsed_env <=> Given(k) # {}
           /\ Given(k) # {} =>
                 \E v \in Seq(Part) :
                     /\ LastGiven(k) \in Given(k) /\ v = cli.environment[LastGiven(k)].value
                     /\ parsed_env[k] = IF v = <<>> THEN <<>> ELSE <<Head(v)>>
<1> DEFINE e == cli.environment
           valid == {i \in DOMAIN e : e[i].value # None}
           keys == {e[i].key : i \in valid}
           last(q) == CHOOSE i \in valid :
                         e[i].key = q /\ \A j \in valid : e[j].key = q => j <= i
<1>1. parsed_env = [q \in keys |-> LET v == e[last(q)].value
                                   IN  IF v = <<>> THEN <<>> ELSE <<Head(v)>>]
  BY DEF parsed_env
<1>2. PICK given : given = Given(k)
  OBVIOUS
<1>3. given = {i \in valid : e[i].key = k}
  BY <1>2 DEF Given
<1>4. k \in DOMAIN parsed_env <=> given # {}
  BY <1>1, <1>3
<1>5. ASSUME given # {}
      PROVE  \E v \in Seq(Part) :
                 /\ LastGiven(k) \in given /\ v = e[LastGiven(k)].value
                 /\ parsed_env[k] = IF v = <<>> THEN <<>> ELSE <<Head(v)>>
  <2>1. Len(e) \in Nat /\ given \subseteq 0 .. Len(e) /\ given \subseteq Nat
    BY <1>3, Arguments
  <2>2. PICK m \in given : \A j \in given : j <= m
    BY <1>5, <2>1, Largest
  <2>3. LastGiven(k) = m
    <3>1. (CHOOSE i \in given : \A j \in given : j <= i) = m
      BY <2>1, <2>2, Chosen
    <3> QED BY <1>2, <3>1 DEF LastGiven
  <2>4. last(k) = m
    <3>1. m \in valid /\ e[m].key = k /\ \A j \in valid : e[j].key = k => j <= m
      BY <1>3, <2>2
    <3>2. ASSUME NEW i \in valid, e[i].key = k, \A j \in valid : e[j].key = k => j <= i
          PROVE  i = m
      <4>1. i \in given /\ i <= m /\ m <= i
        BY <1>3, <2>2, <3>1, <3>2
      <4> QED BY <2>1, <4>1
    <3> HIDE DEF valid, e
    <3> QED BY <3>1, <3>2
  <2>5. e[m].value \in Seq(Part)
    BY <1>3, <2>2, Arguments
  <2>6. k \in keys
    BY <1>3, <2>2
  <2>7. parsed_env[k] = LET v == e[last(k)].value IN IF v = <<>> THEN <<>> ELSE <<Head(v)>>
    <3> HIDE DEF keys, last, e
    <3> QED BY <1>1, <2>6
  <2> HIDE DEF last
  <2> QED BY <2>2, <2>3, <2>4, <2>5, <2>7
<1> QED BY <1>2, <1>4, <1>5

\* It is a map from keys to values of one part or none, and so not None.
LEMMA ParsedMap ==
    ASSUME Inv
    PROVE  DOMAIN parsed_env \in SUBSET Key /\ parsed_env # None
<1>1. DOMAIN parsed_env \in SUBSET Key
  <2>1. DOMAIN parsed_env =
           {cli.environment[i].key : i \in {j \in DOMAIN cli.environment :
                                               cli.environment[j].value # None}}
    BY DEF parsed_env
  <2> QED BY <2>1, Arguments
<1>2. ASSUME NEW k \in DOMAIN parsed_env PROVE parsed_env[k] \in Arg
  <2>1. k \in Key
    BY <1>1
  <2>2. PICK v : v \in Seq(Part) /\ parsed_env[k] = IF v = <<>> THEN <<>> ELSE <<Head(v)>>
    BY <1>2, <2>1, Parsed
  <2>3. v # <<>> => Head(v) \in Part
    BY <2>2, HeadTailProperties
  <2>4. CASE v = <<>>
    <3>1. parsed_env[k] \in [1 .. 0 -> Part]
      BY <2>2, <2>4
    <3> QED BY <3>1 DEF Arg, BoundedSeq, SeqOf
  <2>5. CASE v # <<>>
    <3>1. <<Head(v)>> \in [1 .. 1 -> Part]
      BY <2>3, <2>5
    <3> QED BY <2>2, <2>5, <3>1 DEF Arg, BoundedSeq, SeqOf
  <2> QED BY <2>4, <2>5
<1>3. parsed_env = [k \in DOMAIN parsed_env |-> parsed_env[k]]
  <2> DEFINE e == cli.environment
             valid == {i \in DOMAIN e : e[i].value # None}
             keys == {e[i].key : i \in valid}
             last(q) == CHOOSE i \in valid :
                           e[i].key = q /\ \A j \in valid : e[j].key = q => j <= i
             part(q) == LET v == e[last(q)].value IN IF v = <<>> THEN <<>> ELSE <<Head(v)>>
  <2>1. parsed_env = [q \in keys |-> part(q)]
    BY DEF parsed_env
  <2> HIDE DEF keys, part
  <2> QED BY <2>1
<1>4. parsed_env \in [DOMAIN parsed_env -> Arg]
  BY <1>2, <1>3
<1> QED BY <1>1, <1>4, NoneAssumption

\* The overrides of a request: one entry for each key given with a value.
LEMMA Overrides ==
    ASSUME Inv, stage = "spec"
    PROVE  \E n \in Nat :
              /\ DOMAIN additional_env = 1 .. n
              /\ additional_env = [i \in 1 .. n |-> additional_env[i]]
              /\ \A i \in 1 .. n :
                    /\ additional_env[i].key \in DOMAIN parsed_env
                    /\ additional_env[i].value = parsed_env[additional_env[i].key]
              /\ \A k \in DOMAIN parsed_env : \E i \in 1 .. n : additional_env[i].key = k
              /\ \A i, j \in 1 .. n : additional_env[i].key = additional_env[j].key => i = j
<1>1. conf = Configured
  BY DEF Inv, Handed
<1>2. conf.env = IF DOMAIN parsed_env = {} THEN None ELSE parsed_env
  BY <1>1 DEF Configured
<1>3. CASE DOMAIN parsed_env = {}
  <2>1. additional_env = <<>>
    BY <1>2, <1>3 DEF additional_env
  <2> QED BY <1>3, <2>1
<1>4. CASE DOMAIN parsed_env # {}
  <2>1. conf.env = parsed_env /\ parsed_env # None
    BY <1>2, <1>4, ParsedMap
  <2>2. PICK keys \in SUBSET Key : keys = DOMAIN parsed_env
    BY ParsedMap
  <2>3. PICK s : s = in_order(keys)
    OBVIOUS
  <2>4. PICK n \in Nat :
           /\ s \in [1 .. n -> keys]
           /\ \A k \in keys : \E i \in 1 .. n : s[i] = k
           /\ \A i, j \in 1 .. n : s[i] = s[j] => i = j
    BY <2>3, InOrder
  <2>5. additional_env = [i \in 1 .. n |-> [key |-> s[i], value |-> parsed_env[s[i]]]]
    BY <2>1, <2>2, <2>3, <2>4 DEF additional_env
  <2>6. \A i \in 1 .. n : s[i] \in keys
    BY <2>4
  <2> QED BY <2>2, <2>4, <2>5, <2>6
<1> QED BY <1>3, <1>4

\* Arguments take the place of the image's command.
LEMMA ArgumentsTaken ==
    ASSUME Inv, stage = "spec", image # None
    PROVE  ArgsAsGiven
<1>1. spec = [args |-> args, env |-> env] /\ conf = Configured
  BY DEF Inv, Handed
<1>2. spec.args = args /\ conf.cmd_args = IF cli.args = <<>> THEN None ELSE cli.args
  BY <1>1 DEF Configured
<1>3. cli.args # None
  <2>1. cli.args \in Arg
    BY DEF Inv, Typed
  <2> QED BY <2>1, NoneAssumption
<1>4. /\ image.entrypoint # None => image.entrypoint \in Seq(Part)
      /\ image.cmd # None => image.cmd \in Seq(Part)
  <2>1. image.entrypoint \in Arg \cup {None} /\ image.cmd \in Arg \cup {None}
    BY DEF Inv, Typed, ImageConfig
  <2>2. ASSUME NEW s \in Arg PROVE s \in Seq(Part)
    <3>1. s \in BoundedSeq(Part, 1)
      BY DEF Arg
    <3> QED BY <3>1, Bounded
  <2> QED BY <2>1, <2>2
<1>5. CASE cli.args # <<>>
  BY <1>2, <1>3, <1>5 DEF args, ArgsAsGiven
<1>6. CASE cli.args = <<>> /\ image.cmd # None
  BY <1>2, <1>6 DEF args, ArgsAsGiven, or_empty
<1>7. CASE cli.args = <<>> /\ image.cmd = None /\ image.entrypoint # None
  <2>1. image.entrypoint \o <<>> = image.entrypoint
    BY <1>4, <1>7, ConcatEmptySeq
  <2> QED BY <1>2, <1>7, <2>1 DEF args, ArgsAsGiven, or_empty
<1>8. CASE cli.args = <<>> /\ image.cmd = None /\ image.entrypoint = None
  BY <1>2, <1>8 DEF args, ArgsAsGiven
<1> QED BY <1>5, <1>6, <1>7, <1>8

\* Every variable has the value of the last argument that gave one, or the
\* image's.
LEMMA EnvironmentTaken ==
    ASSUME Inv, stage = "spec", image # None
    PROVE  EnvAsGiven
<1> SUFFICES ASSUME NEW k \in Key PROVE Lookup(spec.env, k) = Wanted(k)
  BY DEF EnvAsGiven
<1>1. spec.env = image_env \o additional_env
  BY DEF Inv, Handed, env
<1>2. PICK n \in Nat :
         /\ DOMAIN additional_env = 1 .. n
         /\ additional_env = [i \in 1 .. n |-> additional_env[i]]
         /\ \A i \in 1 .. n :
               /\ additional_env[i].key \in DOMAIN parsed_env
               /\ additional_env[i].value = parsed_env[additional_env[i].key]
         /\ \A q \in DOMAIN parsed_env : \E i \in 1 .. n : additional_env[i].key = q
         /\ \A i, j \in 1 .. n : additional_env[i].key = additional_env[j].key => i = j
  BY Overrides
<1>3. PICK a, I : a = image_env /\ a \in Seq(I)
  <2>1. CASE image.env = None
    <3>1. image_env \in Seq({[key |-> PATH, value |-> <<"default">>]})
      BY <2>1 DEF image_env, DefaultEnv
    <3> QED BY <3>1
  <2>2. CASE image.env # None
    <3>1. image.env \in BoundedSeq([key : Key, value : Value], 1)
      BY <2>2 DEF Inv, Typed, ImageConfig
    <3>2. image.env \in Seq([key : Key, value : Value])
      BY <3>1, Bounded
    <3> QED BY <2>2, <3>2 DEF image_env
  <2> QED BY <2>1, <2>2
<1>4. PICK b : b = additional_env
  OBVIOUS
<1>5. PICK S : a \in Seq(S) /\ b \in Seq(S)
  <2>1. PICK S : S = I \cup {b[i] : i \in 1 .. n}
    OBVIOUS
  <2>2. b \in [1 .. n -> S] /\ I \subseteq S
    BY <1>2, <1>4, <2>1
  <2>3. b \in Seq(S)
    BY <2>2
  <2>4. a \in Seq(S)
    <3>1. a \in [1 .. Len(a) -> I] /\ Len(a) \in Nat
      BY <1>3, LenProperties
    <3>2. a \in [1 .. Len(a) -> S]
      BY <2>2, <3>1
    <3> QED BY <3>1, <3>2
  <2> QED BY <2>3, <2>4
<1>6. Len(b) = n
  BY <1>2, <1>4, <1>5, LenProperties
<1>7. Wanted(k) = IF Given(k) = {} THEN Lookup(image_env, k)
                  ELSE UpToEquals(cli.environment[LastGiven(k)].value)
  BY DEF Wanted, Given, LastGiven
<1>8. CASE Given(k) = {}
  <2>1. k \notin DOMAIN parsed_env
    BY <1>8, Parsed
  <2>2. \A j \in 1 .. Len(b) : b[j].key # k
    BY <1>2, <1>4, <1>6, <2>1
  <2>3. Lookup(a \o b, k) = Lookup(a, k)
    BY <1>5, <2>2, LookupFirst
  <2>4. Wanted(k) = Lookup(image_env, k)
    BY <1>7, <1>8
  <2> QED BY <1>1, <1>3, <1>4, <2>3, <2>4
<1>9. CASE Given(k) # {}
  <2>1. PICK v \in Seq(Part) :
           /\ LastGiven(k) \in Given(k) /\ v = cli.environment[LastGiven(k)].value
           /\ parsed_env[k] = IF v = <<>> THEN <<>> ELSE <<Head(v)>>
    BY <1>9, Parsed
  <2>2. k \in DOMAIN parsed_env
    BY <1>9, Parsed
  <2>3. Wanted(k) = UpToEquals(v)
    BY <1>7, <1>9, <2>1
  <2>4. parsed_env[k] = UpToEquals(v)
    BY <2>1, FirstPart
  <2>5. PICK i \in 1 .. Len(b) : b[i].key = k /\ b[i].value = parsed_env[k]
    BY <1>2, <1>4, <1>6, <2>2
  <2>6. \A j \in 1 .. Len(b) : b[j].key = k => j <= i
    <3>1. \A j \in 1 .. Len(b) : b[j].key = k => j = i
      BY <1>2, <1>4, <1>6, <2>5
    <3> QED BY <3>1, <1>6
  <2>7. Lookup(a \o b, k) = b[i].value
    BY <1>5, <2>5, <2>6, LookupSecond
  <2> QED BY <1>1, <1>3, <1>4, <2>3, <2>4, <2>5, <2>7
<1> QED BY <1>8, <1>9

\* What crun runs is what was asked for, for every number of variables, if the
\* image has a configuration: create_runtime_spec ignores the request else
\* (rt.rs:49-51), and nodecli cuts a value at the first '=' in it (main.rs:105).
THEOREM SpecSafety == Spec => []SpecAsGiven
<1>1. Inv => SpecAsGiven
  BY ArgumentsTaken, EnvironmentTaken DEF SpecAsGiven
<1> QED BY <1>1, Invariance, PTL
=============================================================================
