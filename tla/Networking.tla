----------------------------- MODULE Networking -----------------------------
(***************************************************************************)
(* nodemanager/src/networking.rs: the pool of network slots, the network   *)
(* stacks built from them, and what the stacks leave on the host.          *)
(*                                                                         *)
(* A slot is a number id; its tap device is "tap<id>" and its /30 subnet   *)
(* is computed from id in 16-bit arithmetic.  NetworkManager hands out     *)
(* recovered slots first and fresh numbers next.  A NetworkStack owns one  *)
(* slot, its tap device and the iptables rules of its IpRuleBook.  A stack *)
(* ends in one of two ways: reclaim() returns its slot to the pool, and a  *)
(* plain drop (an error path of the caller) undoes the device and the      *)
(* rules but forgets the slot.  Every host command may fail: on the way up *)
(* failure is returned to the caller, on the way down it is ignored.       *)
(*                                                                         *)
(* The stacks are named by the set Owner; slot[o] keeps its value after o  *)
(* is gone (the firecracker process of o was configured with it).          *)
(***************************************************************************)
EXTENDS Integers, Sequences, Bags, FiniteSets

CONSTANTS Owner,           \* the machines a stack can be built for
          Port,            \* host and guest ports
          U16,             \* 2^16 in the code: the modulus of next_id and ip_id
          Builds,          \* the builds in use: TRUE checks for overflow, FALSE wraps
          DeleteMayFail,   \* TRUE: commands run by a Drop may fail as well
          MaxDraws,        \* bound: times next_slot() reads next_id
          MaxCopies,       \* bound: copies of one rule in one IpRuleBook
          MaxLeaks         \* bound: devices and rules that are left behind

ASSUME U16Assumption == U16 \in Nat /\ U16 > 0 /\ U16 % 4 = 0
ASSUME FlagsAssumption == Builds \subseteq BOOLEAN /\ DeleteMayFail \in BOOLEAN
ASSUME BoundsAssumption ==
    MaxDraws \in Nat /\ MaxCopies \in Nat /\ MaxLeaks \in Nat

VARIABLES recovered_slots,  \* NetworkManager.recovered_slots, a LIFO of slots
          next_id,          \* NetworkManager.next_id
          global_rules,     \* NetworkManager._global_rules; empty once it is dropped
          live,             \* owners of the NetworkStack values that exist
          slot,             \* slot of each owner's (last) stack
          book,             \* IpRuleBook of each owner's stack, as a bag
          taps,             \* tap devices on the host
          iptables,         \* rules on the host, as a bag
          overflow_checks,  \* the build: TRUE is a debug build, where overflow panics
          drawn,            \* history: times next_slot() read next_id
          leaked            \* history: rules whose deletion failed

pool == <<recovered_slots, next_id, drawn, global_rules, overflow_checks>>
vars == <<recovered_slots, next_id, global_rules, live, slot, book, taps, iptables,
          overflow_checks, drawn, leaked>>

-----------------------------------------------------------------------------
(* What a slot number stands for *)

Tap(id) == <<"tap", id>>

ip_id(id) == (id * 4 + 1) % U16

\* Third and fourth octet of 172.16.x.y.  ip_id is 1 modulo 4, so the + 1 on
\* the last octet cannot overflow.
gateway(id)   == <<ip_id(id) \div 256, ip_id(id) % 256>>
ipv4_addr(id) == <<ip_id(id) \div 256, (ip_id(id) % 256) + 1>>
Subnet(id)    == {gateway(id), ipv4_addr(id)}

Masquerade(id)       == [kind |-> "MASQUERADE", src |-> ipv4_addr(id)]
ForwardOut(id)       == [kind |-> "FORWARD", dev |-> Tap(id)]
Dnat(id, hp, gp)     == [kind |-> "DNAT", port |-> hp, dst |-> ipv4_addr(id), to |-> gp]
ForwardReply(id, gp) == [kind |-> "REPLY", dev |-> Tap(id), sport |-> gp]
ForwardIn(id, gp)    == [kind |-> "INBOUND", dev |-> Tap(id), dport |-> gp]
Established          == [kind |-> "ESTABLISHED"]

Address == Nat \X Nat
Device  == {"tap"} \X Nat
Rule == [kind : {"MASQUERADE"}, src : Address]
        \cup [kind : {"FORWARD"}, dev : Device]
        \cup [kind : {"DNAT"}, port : Port, dst : Address, to : Port]
        \cup [kind : {"REPLY"}, dev : Device, sport : Port]
        \cup [kind : {"INBOUND"}, dev : Device, dport : Port]
        \cup {Established}

public_nat_rules(id) == <<Masquerade(id), ForwardOut(id)>>
forwarding_rules(id, hp, gp) ==
    <<Dnat(id, hp, gp), ForwardReply(id, gp), ForwardIn(id, gp)>>

\* How often r is in the bag b.
Copies(r, b) == IF r \in DOMAIN b THEN b[r] ELSE 0

-----------------------------------------------------------------------------
(* NetworkManager *)

\* The manager has a value from new() to its drop.
Exists == global_rules # {}

\* What failed deletions have left behind so far.
Leaks ==
    Cardinality(leaked) + Cardinality(taps \ {Tap(slot[o]) : o \in live})

\* The slot the next call of next_slot() returns.
next_slot ==
    IF recovered_slots # <<>> THEN recovered_slots[Len(recovered_slots)] ELSE next_id

\* Faulty variant: only next_id += 1 is checked.
OverflowsCounterOnly(id) == id + 1 >= U16

\* id * 4 + 1 does not fit the width.
Overflows(id) == id * 4 + 1 >= U16

\* Faulty variant: the counter is not kept to 16 bits.
TakeSlotUnbounded ==
    /\ Exists /\ UNCHANGED <<global_rules, overflow_checks>>
    /\ \/ /\ recovered_slots # <<>>
          /\ recovered_slots' = SubSeq(recovered_slots, 1, Len(recovered_slots) - 1)
          /\ UNCHANGED <<next_id, drawn>>
       \/ /\ recovered_slots = <<>>
          /\ ~(overflow_checks /\ Overflows(next_id))
          /\ drawn < MaxDraws
          /\ next_id' = next_id + 1
          /\ drawn' = drawn + 1
          /\ UNCHANGED recovered_slots

\* What next_slot() does to the NetworkManager when it returns.
TakeSlot ==
    /\ Exists /\ UNCHANGED <<global_rules, overflow_checks>>
    /\ \/ /\ recovered_slots # <<>>
          /\ recovered_slots' = SubSeq(recovered_slots, 1, Len(recovered_slots) - 1)
          /\ UNCHANGED <<next_id, drawn>>
       \/ /\ recovered_slots = <<>>
          /\ ~(overflow_checks /\ Overflows(next_id))
          /\ drawn < MaxDraws
          /\ next_id' = (next_id + 1) % U16
          /\ drawn' = drawn + 1
          /\ UNCHANGED recovered_slots

\* A debug build panics in next_slot(): at id * 4 when the subnet space is used
\* up, at next_id += 1 (which then does not happen) for the last number.
next_slot_panics ==
    /\ Exists /\ recovered_slots = <<>>
    /\ overflow_checks /\ Overflows(next_id)
    /\ drawn < MaxDraws
    /\ next_id' = IF next_id + 1 < U16 THEN next_id + 1 ELSE next_id
    /\ drawn' = drawn + 1
    /\ UNCHANGED <<recovered_slots, global_rules, overflow_checks, live, slot, book, taps,
                   iptables, leaked>>

\* Faulty variant: the tap device is reused when it exists.
ProvisionReusesTap(o) ==
    /\ o \notin live
    /\ TakeSlot
    /\ live' = live \cup {o}
    /\ slot' = [slot EXCEPT ![o] = next_slot]
    /\ book' = [book EXCEPT ![o] = EmptyBag]
    /\ taps' = taps \cup {Tap(next_slot)}
    /\ UNCHANGED <<iptables, leaked>>

\* provision_stack() succeeds: `ip tuntap add` refuses a name that exists.
provision_stack(o) ==
    /\ o \notin live
    /\ Tap(next_slot) \notin taps
    /\ TakeSlot
    /\ live' = live \cup {o}
    /\ slot' = [slot EXCEPT ![o] = next_slot]
    /\ book' = [book EXCEPT ![o] = EmptyBag]
    /\ taps' = taps \cup {Tap(next_slot)}
    /\ UNCHANGED <<iptables, leaked>>

\* One of its three commands fails.  The slot is gone; the device stays only if
\* it had been created and TunTap's drop fails to delete it.
provision_stack_fails ==
    /\ TakeSlot
    /\ \/ UNCHANGED taps
       \/ DeleteMayFail /\ taps' = taps \cup {Tap(next_slot)}
    /\ UNCHANGED <<live, slot, book, iptables, leaked>>
    /\ Leaks' <= MaxLeaks

-----------------------------------------------------------------------------
(* NetworkStack *)

\* Faulty variant: a rule is installed before its book entry is made, and the
\* entry of the last one is lost.
AddRulesUnbooked(o, rs, n) ==
    /\ \A i \in DOMAIN rs : Copies(rs[i], book[o]) < MaxCopies
    /\ iptables' = iptables (+) SetToBag({rs[i] : i \in 1 .. n})
    /\ book' = [book EXCEPT ![o] = @ (+) SetToBag({rs[i] : i \in 1 .. n - 1})]
    /\ UNCHANGED <<pool, live, slot, taps, leaked>>

\* add_ip_rule() for the first n of the rules rs, which are distinct: a rule
\* enters the book when its command succeeded.
AddRules(o, rs, n) ==
    /\ \A i \in DOMAIN rs : Copies(rs[i], book[o]) < MaxCopies
    /\ iptables' = iptables (+) SetToBag({rs[i] : i \in 1 .. n})
    /\ book' = [book EXCEPT ![o] = @ (+) SetToBag({rs[i] : i \in 1 .. n})]
    /\ UNCHANGED <<pool, live, slot, taps, leaked>>

\* Called once, on a fresh stack.  n rules are installed before a command
\* fails; n = 2 is success.
setup_public_nat(o, n) ==
    /\ o \in live
    /\ book[o] = EmptyBag
    /\ AddRules(o, public_nat_rules(slot[o]), n)

\* Called on stacks whose NAT is up.  n = 3 is success; what was installed
\* before a failure stays.
setup_forwarding(o, hp, gp, n) ==
    /\ o \in live
    /\ ForwardOut(slot[o]) \in DOMAIN book[o]
    /\ AddRules(o, forwarding_rules(slot[o], hp, gp), n)

\* Values of "the commands of a Drop that fail" among the given things: no
\* more of them than the bound allows.
FailedDeletes(things) ==
    IF DeleteMayFail THEN {kept \in SUBSET things : Cardinality(kept) <= MaxLeaks} ELSE {{}}

\* The stack of o is dropped: TunTap deletes the device, IpRuleBook deletes one
\* copy of a rule per entry.  Failures are ignored.
DropStack(o) ==
    /\ o \in live
    /\ live' = live \ {o}
    /\ \E kept \in FailedDeletes({Tap(slot[o])}) : taps' = taps \ ({Tap(slot[o])} \ kept)
    /\ \E kept \in FailedDeletes(DOMAIN book[o] \ leaked) :
          /\ iptables' = iptables (-) [r \in DOMAIN book[o] \ kept |-> book[o][r]]
          /\ leaked' = leaked \cup kept
    /\ book' = [book EXCEPT ![o] = EmptyBag]
    /\ UNCHANGED slot
    /\ Leaks' <= MaxLeaks

\* The caller lets go of the stack without reclaim: the slot is forgotten.
drop(o) == DropStack(o) /\ UNCHANGED pool

\* NetworkManager::reclaim: the stack is consumed, then its slot is pushed.
reclaim(o) ==
    /\ DropStack(o)
    /\ recovered_slots' = Append(recovered_slots, slot[o])
    /\ UNCHANGED <<next_id, drawn, global_rules, overflow_checks>>

\* The manager is dropped with its rule book.  Every stack is in the machine map
\* or in a future that keeps the manager alive, so the stacks have gone before.
drop_manager ==
    /\ Exists /\ live = {}
    /\ global_rules' = {}
    /\ \E kept \in FailedDeletes(global_rules) :
          /\ iptables' = iptables (-) SetToBag(global_rules \ kept)
          /\ leaked' = leaked \cup kept
    /\ UNCHANGED <<recovered_slots, next_id, drawn, overflow_checks, live, slot, book, taps>>
    /\ Leaks' <= MaxLeaks

-----------------------------------------------------------------------------
\* NetworkManager::new
Init ==
    /\ recovered_slots = <<>>
    /\ next_id = 0
    /\ global_rules = {Established}
    /\ live = {}
    /\ slot = [o \in Owner |-> 0]
    /\ book = [o \in Owner |-> EmptyBag]
    /\ taps = {}
    /\ iptables = SetToBag({Established})
    /\ overflow_checks \in Builds
    /\ drawn = 0
    /\ leaked = {}

Next ==
    \/ \E o \in Owner : provision_stack(o)
    \/ provision_stack_fails
    \/ next_slot_panics
    \/ \E o \in Owner, n \in 0 .. 2 : setup_public_nat(o, n)
    \/ \E o \in Owner, hp, gp \in Port, n \in 0 .. 3 : setup_forwarding(o, hp, gp, n)
    \/ \E o \in Owner : drop(o)
    \/ \E o \in Owner : reclaim(o)
    \/ drop_manager

Spec == Init /\ [][Next]_vars

-----------------------------------------------------------------------------
(* Properties *)

IsRuleBag(b) == IsABag(b) /\ DOMAIN b \subseteq Rule

\* Type invariant: next_id stays a 16-bit number and every book and the host's
\* tables hold rules of the shapes the code writes.
TypeOK ==
    /\ recovered_slots \in Seq(Nat)
    /\ next_id \in 0 .. U16 - 1
    /\ global_rules \subseteq {Established}
    /\ overflow_checks \in BOOLEAN
    /\ live \subseteq Owner
    /\ slot \in [Owner -> Nat]
    /\ DOMAIN book = Owner /\ \A o \in Owner : IsRuleBag(book[o])
    /\ taps \subseteq Device
    /\ IsRuleBag(iptables)
    /\ drawn \in Nat
    /\ leaked \subseteq Rule

PoolIsInjective ==
    \A i, j \in DOMAIN recovered_slots : recovered_slots[i] = recovered_slots[j] => i = j
LiveSlotsDistinct ==
    \A o, p \in live : slot[o] = slot[p] => o = p
PoolNotLive ==
    \A i \in DOMAIN recovered_slots, o \in live : recovered_slots[i] # slot[o]

\* A slot has one holder: no slot is in the pool twice, in the pool while a
\* stack uses it, or in two stacks.  next_slot(), provision_stack() and
\* reclaim() must keep this through lost slots, failed deletions and the wrap of
\* next_id, after which numbers still in use are drawn again.
SlotsExclusive == PoolIsInjective /\ LiveSlotsDistinct /\ PoolNotLive

\* Two stacks share no address, as long as next_slot() has drawn at most
\* 2^14 numbers, and for ever in a build with overflow checks.  (A release
\* build computes id * 4 + 1 modulo 2^16, so number 2^14 gets the subnet of
\* number 0 under a new tap name.)
AddressesExclusive ==
    (overflow_checks \/ drawn <= U16 \div 4) =>
        \A o, p \in live : o # p => Subnet(slot[o]) \cap Subnet(slot[p]) = {}

\* The book entries that stand for the rule r: their stack, and a number.
Entries(r) == UNION {{o} \X (1 .. Copies(r, book[o])) : o \in live}

\* A rule whose deletion never failed is in the host's tables exactly as often
\* as the books of the existing stacks and of the manager say: no drop removes
\* another's rule, neither partial failures of setup_public_nat() and
\* setup_forwarding() nor equal rules leave one behind, and after the manager's
\* own drop nothing of it is left.
RulesOwned ==
    \A r \in (DOMAIN iptables \cup global_rules \cup UNION {DOMAIN book[o] : o \in live})
                  \ leaked :
        Copies(r, iptables) = Cardinality(Entries(r)) + Copies(r, SetToBag(global_rules))
=============================================================================
