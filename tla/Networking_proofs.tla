-------------------------- MODULE Networking_proofs --------------------------
(***************************************************************************)
(* Proofs about Networking, for every set of owners and ports, every width *)
(* U16 that is a multiple of 4, both kinds of build and every bound.       *)
(***************************************************************************)
EXTENDS Networking, FiniteSetTheorems, TLAPS

-----------------------------------------------------------------------------
(* The inductive invariant *)

\* The device of an existing stack is on the host: this is what makes
\* `ip tuntap add` refuse a number that next_id hands out a second time.
LiveHasTap == \A o \in live : Tap(slot[o]) \in taps

\* Before next_id wraps it counts the draws.
CounterCounts == drawn < U16 => next_id = drawn

\* No number in circulation overflows, in the cases AddressesExclusive is about.
SmallIds ==
    (overflow_checks \/ drawn <= U16 \div 4) =>
        /\ \A i \in DOMAIN recovered_slots : ~Overflows(recovered_slots[i])
        /\ \A o \in live : ~Overflows(slot[o])

IInv == TypeOK /\ SlotsExclusive /\ LiveHasTap /\ CounterCounts /\ SmallIds

-----------------------------------------------------------------------------
(* Lemmas about bags of rules *)

\* Adding rules to a bag of rules gives a bag of rules.
LEMMA AddToBag ==
    ASSUME NEW b, NEW S, IsRuleBag(b), S \subseteq Rule
    PROVE  IsRuleBag(b (+) SetToBag(S))
BY DEF IsRuleBag, IsABag, SetToBag, (+)

\* Deleting from a bag of rules gives a bag of rules.
LEMMA DeleteFromBag ==
    ASSUME NEW b, NEW c, IsRuleBag(b), IsRuleBag(c), NEW kept
    PROVE  IsRuleBag(b (-) [r \in DOMAIN c \ kept |-> c[r]])
BY DEF IsRuleBag, IsABag, (-)

\* The same, of a set of rules.
LEMMA DeleteRules ==
    ASSUME NEW b, NEW S, IsRuleBag(b)
    PROVE  IsRuleBag(b (-) SetToBag(S))
BY DEF IsRuleBag, IsABag, SetToBag, (-)

\* The bags the code starts from.
LEMMA InitialBags == IsRuleBag(EmptyBag) /\ IsRuleBag(SetToBag({Established}))
BY DEF IsRuleBag, IsABag, EmptyBag, SetToBag, Rule

\* A slot number stands for an address and a device.
LEMMA AddressType ==
    ASSUME NEW id \in Nat
    PROVE  ipv4_addr(id) \in Address /\ Tap(id) \in Device
<1>1. ip_id(id) \in Nat
  BY U16Assumption DEF ip_id
<1>2. ip_id(id) \div 256 \in Nat /\ (ip_id(id) % 256) + 1 \in Nat
  BY <1>1
<1> QED
  BY <1>2 DEF ipv4_addr, Address, Tap, Device

\* The rules setup_public_nat() writes are rules.
LEMMA NatRules ==
    ASSUME NEW id \in Nat, NEW n \in 0 .. 2
    PROVE  {public_nat_rules(id)[i] : i \in 1 .. n} \subseteq Rule
<1>1. Masquerade(id) \in Rule /\ ForwardOut(id) \in Rule
  BY AddressType DEF Masquerade, ForwardOut, Rule
<1> QED
  BY <1>1 DEF public_nat_rules

\* The rules setup_forwarding() writes are rules.
LEMMA ForwardingRules ==
    ASSUME NEW id \in Nat, NEW hp \in Port, NEW gp \in Port, NEW n \in 0 .. 3
    PROVE  {forwarding_rules(id, hp, gp)[i] : i \in 1 .. n} \subseteq Rule
<1>1. /\ Dnat(id, hp, gp) \in Rule
      /\ ForwardReply(id, gp) \in Rule
      /\ ForwardIn(id, gp) \in Rule
  BY AddressType DEF Dnat, ForwardReply, ForwardIn, Rule
<1> QED
  BY <1>1 DEF forwarding_rules

-----------------------------------------------------------------------------
(* Lemmas about the pool *)

\* What next_slot() returns is a number, and what it leaves behind is a pool.
LEMMA TakeSlotType ==
    ASSUME TypeOK, TakeSlot
    PROVE  /\ next_slot \in Nat
           /\ recovered_slots' \in Seq(Nat)
           /\ next_id' \in 0 .. U16 - 1
           /\ drawn' \in Nat
           /\ UNCHANGED <<global_rules, overflow_checks>>
<1>1. CASE recovered_slots # <<>>
  <2>1. recovered_slots \in Seq(Nat) /\ Len(recovered_slots) \in 1 .. Len(recovered_slots)
    BY <1>1 DEF TypeOK
  <2>2. recovered_slots' = SubSeq(recovered_slots, 1, Len(recovered_slots) - 1)
    BY <1>1 DEF TakeSlot
  <2>3. recovered_slots' \in Seq(Nat)
    BY <2>1, <2>2
  <2>4. next_slot \in Nat
    BY <1>1, <2>1 DEF next_slot
  <2> QED
    BY <1>1, <2>3, <2>4 DEF TypeOK, TakeSlot
<1>2. CASE recovered_slots = <<>>
  BY <1>2, U16Assumption DEF TypeOK, TakeSlot, next_slot
<1> QED
  BY <1>1, <1>2

\* The number next_slot() returns is no longer in the pool, and the pool keeps
\* no number it did not have.
LEMMA TakeSlotPool ==
    ASSUME TypeOK, PoolIsInjective, TakeSlot
    PROVE  /\ PoolIsInjective'
           /\ \A i \in DOMAIN recovered_slots' :
                 /\ i \in DOMAIN recovered_slots
                 /\ recovered_slots'[i] = recovered_slots[i]
                 /\ recovered_slots'[i] # next_slot
<1>1. CASE recovered_slots # <<>>
  <2> DEFINE n == Len(recovered_slots)
  <2>1. recovered_slots \in Seq(Nat) /\ n \in Nat /\ n > 0
    BY <1>1 DEF TypeOK
  <2>2. recovered_slots' = SubSeq(recovered_slots, 1, n - 1) /\ next_slot = recovered_slots[n]
    BY <1>1 DEF TakeSlot, next_slot
  <2>3. /\ DOMAIN recovered_slots = 1 .. n
        /\ DOMAIN recovered_slots' = 1 .. n - 1
        /\ \A i \in 1 .. n - 1 : recovered_slots'[i] = recovered_slots[i]
    BY <2>1, <2>2
  <2>4. \A i \in 1 .. n - 1 : i \in 1 .. n /\ n \in 1 .. n /\ i # n
    BY <2>1
  <2>5. \A i \in 1 .. n - 1 : recovered_slots'[i] # next_slot
    BY <2>2, <2>3, <2>4 DEF PoolIsInjective
  <2>6. PoolIsInjective'
    BY <2>3, <2>4 DEF PoolIsInjective
  <2> HIDE DEF n
  <2> QED
    BY <2>3, <2>4, <2>5, <2>6
<1>2. CASE recovered_slots = <<>>
  BY <1>2 DEF TypeOK, TakeSlot, next_slot, PoolIsInjective
<1> QED
  BY <1>1, <1>2

\* The counter still counts after next_slot(), and the number returned does not
\* overflow in the cases AddressesExclusive is about.
LEMMA TakeSlotSmall ==
    ASSUME TypeOK, CounterCounts, SmallIds, TakeSlot
    PROVE  /\ CounterCounts'
           /\ (overflow_checks \/ drawn' <= U16 \div 4) => ~Overflows(next_slot)
           /\ drawn <= drawn'
<1>1. CASE recovered_slots # <<>>
  <2>1. drawn' = drawn /\ next_id' = next_id /\ recovered_slots # <<>>
    BY <1>1 DEF TakeSlot
  <2>2. Len(recovered_slots) \in DOMAIN recovered_slots
    BY <1>1 DEF TypeOK
  <2> QED
    BY <2>1, <2>2 DEF TypeOK, CounterCounts, SmallIds, next_slot
<1>2. CASE recovered_slots = <<>>
  <2>1. /\ drawn' = drawn + 1
        /\ next_id' = (next_id + 1) % U16
        /\ ~(overflow_checks /\ Overflows(next_id))
        /\ next_slot = next_id
    BY <1>2 DEF TakeSlot, next_slot
  <2>2. drawn \in Nat /\ next_id \in Nat /\ U16 \in Nat /\ U16 > 0 /\ next_id < U16
    BY U16Assumption DEF TypeOK
  <2>3. CounterCounts'
    BY <2>1, <2>2 DEF CounterCounts
  <2>4. ASSUME ~overflow_checks, drawn' <= U16 \div 4
        PROVE  ~Overflows(next_slot)
    BY <2>1, <2>2, <2>4 DEF CounterCounts, Overflows
  <2> QED
    BY <2>1, <2>2, <2>3, <2>4
<1> QED
  BY <1>1, <1>2

-----------------------------------------------------------------------------
(* One lemma per kind of step *)

\* A successful provision_stack() keeps the invariant.
LEMMA ProvisionInv ==
    ASSUME IInv, NEW o \in Owner, provision_stack(o)
    PROVE  IInv'
<1> DEFINE new == next_slot
<1>1. TypeOK /\ PoolIsInjective /\ LiveSlotsDistinct /\ PoolNotLive
  BY DEF IInv, SlotsExclusive
<1>2. /\ o \notin live
      /\ Tap(new) \notin taps
      /\ TakeSlot
      /\ live' = live \cup {o}
      /\ slot' = [slot EXCEPT ![o] = new]
      /\ book' = [book EXCEPT ![o] = EmptyBag]
      /\ taps' = taps \cup {Tap(new)}
      /\ UNCHANGED <<iptables, leaked>>
  BY DEF provision_stack
<1>3. new \in Nat
  BY <1>1, <1>2, TakeSlotType
<1>4. slot'[o] = new /\ \A p \in live : p # o /\ slot'[p] = slot[p]
  BY <1>1, <1>2 DEF TypeOK
<1>5. \A p \in live : slot[p] # new
  BY <1>2 DEF IInv, LiveHasTap
<1>a. TypeOK'
  <2>1. \A p \in Owner : IsRuleBag(book'[p])
    BY <1>1, <1>2, InitialBags DEF TypeOK
  <2>2. slot' \in [Owner -> Nat]
    BY <1>1, <1>2, <1>3 DEF TypeOK
  <2>3. taps' \subseteq Device
    BY <1>1, <1>2, <1>3, AddressType DEF TypeOK
  <2>4. IsRuleBag(iptables)' /\ leaked' \subseteq Rule /\ live' \subseteq Owner
    BY <1>1, <1>2 DEF TypeOK
  <2> QED
    BY <1>1, <1>2, <2>1, <2>2, <2>3, <2>4, TakeSlotType DEF TypeOK
<1>b. SlotsExclusive'
  <2>1. PoolIsInjective'
    BY <1>1, <1>2, TakeSlotPool
  <2>2. LiveSlotsDistinct'
    BY <1>1, <1>2, <1>4, <1>5 DEF LiveSlotsDistinct
  <2>3. PoolNotLive'
    <3>1. SUFFICES ASSUME NEW i \in DOMAIN recovered_slots', NEW p \in live'
                   PROVE  recovered_slots'[i] # slot'[p]
      BY DEF PoolNotLive
    <3>2. /\ i \in DOMAIN recovered_slots
          /\ recovered_slots'[i] = recovered_slots[i]
          /\ recovered_slots'[i] # new
      BY <1>1, <1>2, TakeSlotPool
    <3>3. CASE p = o
      BY <3>2, <3>3, <1>4
    <3>4. CASE p # o
      BY <1>1, <1>2, <1>4, <3>2, <3>4 DEF PoolNotLive
    <3> QED
      BY <3>3, <3>4
  <2> QED
    BY <2>1, <2>2, <2>3 DEF SlotsExclusive
<1>c. LiveHasTap'
  BY <1>2, <1>4 DEF IInv, LiveHasTap, Tap
<1>d. CounterCounts'
  BY <1>1, <1>2, TakeSlotSmall DEF IInv
<1>e. SmallIds'
  <2>1. SUFFICES ASSUME overflow_checks \/ drawn' <= U16 \div 4
                 PROVE  /\ \A i \in DOMAIN recovered_slots' : ~Overflows(recovered_slots'[i])
                        /\ \A p \in live' : ~Overflows(slot'[p])
    BY <1>1, <1>2, TakeSlotType DEF SmallIds, Overflows
  <2>2. ~Overflows(new)
    BY <1>1, <1>2, <2>1, TakeSlotSmall DEF IInv
  <2>3. overflow_checks \/ drawn <= U16 \div 4
    <3>1. drawn \in Nat /\ drawn' \in Nat /\ drawn <= drawn'
      BY <1>1, <1>2, TakeSlotType, TakeSlotSmall DEF IInv, TypeOK
    <3>2. U16 \div 4 \in Int
      BY U16Assumption
    <3> QED
      BY <2>1, <3>1, <3>2
  <2>4. /\ \A i \in DOMAIN recovered_slots : ~Overflows(recovered_slots[i])
        /\ \A p \in live : ~Overflows(slot[p])
    BY <2>3 DEF IInv, SmallIds
  <2>5. \A i \in DOMAIN recovered_slots' : ~Overflows(recovered_slots'[i])
    BY <1>1, <1>2, <2>4, TakeSlotPool
  <2> QED
    BY <1>2, <1>4, <2>2, <2>4, <2>5
<1> QED
  BY <1>a, <1>b, <1>c, <1>d, <1>e DEF IInv

\* A failed provision_stack() keeps the invariant: the slot is in no one's hands.
LEMMA ProvisionFailsInv ==
    ASSUME IInv, provision_stack_fails
    PROVE  IInv'
<1>1. TypeOK /\ PoolIsInjective /\ LiveSlotsDistinct /\ PoolNotLive
  BY DEF IInv, SlotsExclusive
<1>2. /\ TakeSlot
      /\ taps' = taps \/ taps' = taps \cup {Tap(next_slot)}
      /\ UNCHANGED <<live, slot, book, iptables, leaked>>
  BY DEF provision_stack_fails
<1>a. TypeOK'
  <2>1. taps' \subseteq Device
    BY <1>1, <1>2, TakeSlotType, AddressType DEF TypeOK
  <2>2. /\ live' \subseteq Owner /\ slot' \in [Owner -> Nat]
        /\ DOMAIN book' = Owner /\ \A o \in Owner : IsRuleBag(book'[o])
        /\ IsRuleBag(iptables') /\ leaked' \subseteq Rule
    BY <1>1, <1>2 DEF TypeOK
  <2> QED
    BY <1>1, <1>2, <2>1, <2>2, TakeSlotType DEF TypeOK
<1>b. SlotsExclusive'
  BY <1>1, <1>2, TakeSlotPool DEF SlotsExclusive, LiveSlotsDistinct, PoolNotLive
<1>c. LiveHasTap'
  BY <1>2 DEF IInv, LiveHasTap
<1>d. CounterCounts'
  BY <1>1, <1>2, TakeSlotSmall DEF IInv
<1>e. SmallIds'
  <2>1. drawn \in Nat /\ drawn' \in Nat /\ drawn <= drawn' /\ U16 \div 4 \in Int
    BY <1>1, <1>2, TakeSlotType, TakeSlotSmall, U16Assumption DEF IInv, TypeOK
  <2>2. SUFFICES ASSUME overflow_checks \/ drawn' <= U16 \div 4
                 PROVE  /\ \A i \in DOMAIN recovered_slots' : ~Overflows(recovered_slots'[i])
                        /\ \A p \in live' : ~Overflows(slot'[p])
    BY <1>1, <1>2, TakeSlotType DEF SmallIds, Overflows
  <2>3. overflow_checks \/ drawn <= U16 \div 4
    BY <2>1, <2>2
  <2>4. /\ \A i \in DOMAIN recovered_slots : ~Overflows(recovered_slots[i])
        /\ \A p \in live : ~Overflows(slot[p])
    BY <2>3 DEF IInv, SmallIds
  <2> QED
    BY <1>1, <1>2, <2>4, TakeSlotPool
<1> QED
  BY <1>a, <1>b, <1>c, <1>d, <1>e DEF IInv

\* The panic of a debug build keeps the invariant: only next_id moves.
LEMMA PanicInv ==
    ASSUME IInv, next_slot_panics
    PROVE  IInv'
<1>1. /\ next_id' = IF next_id + 1 < U16 THEN next_id + 1 ELSE next_id
      /\ drawn' = drawn + 1
      /\ overflow_checks
      /\ UNCHANGED <<recovered_slots, global_rules, overflow_checks, live, slot, book, taps,
                     iptables, leaked>>
  BY DEF next_slot_panics
<1>2. next_id \in Nat /\ next_id < U16 /\ drawn \in Nat /\ U16 \in Nat
  BY U16Assumption DEF IInv, TypeOK
<1>a. TypeOK'
  <2>1. next_id' \in 0 .. U16 - 1 /\ drawn' \in Nat
    BY <1>1, <1>2
  <2> QED
    BY <1>1, <2>1 DEF IInv, TypeOK
<1>b. SlotsExclusive'
  BY <1>1 DEF IInv, SlotsExclusive, PoolIsInjective, LiveSlotsDistinct, PoolNotLive
<1>c. LiveHasTap'
  BY <1>1 DEF IInv, LiveHasTap
<1>d. CounterCounts'
  BY <1>1, <1>2 DEF IInv, CounterCounts
<1>e. SmallIds'
  BY <1>1 DEF IInv, SmallIds, Overflows
<1> QED
  BY <1>a, <1>b, <1>c, <1>d, <1>e DEF IInv

\* Installing rules keeps the invariant.
LEMMA AddRulesInv ==
    ASSUME IInv, NEW o \in Owner, NEW rs, NEW n, AddRules(o, rs, n),
           {rs[i] : i \in 1 .. n} \subseteq Rule
    PROVE  IInv'
<1> DEFINE added == {rs[i] : i \in 1 .. n}
<1>1. /\ iptables' = iptables (+) SetToBag(added)
      /\ book' = [book EXCEPT ![o] = book[o] (+) SetToBag(added)]
      /\ UNCHANGED <<recovered_slots, next_id, drawn, global_rules, overflow_checks, live,
                     slot, taps, leaked>>
  BY DEF AddRules, pool
<1> HIDE DEF added
<1>2. IsRuleBag(iptables) /\ DOMAIN book = Owner /\ \A p \in Owner : IsRuleBag(book[p])
  BY DEF IInv, TypeOK
<1>3. added \subseteq Rule
  BY DEF added
<1>4. IsRuleBag(iptables') /\ IsRuleBag(book[o] (+) SetToBag(added))
  BY <1>1, <1>2, <1>3, AddToBag
<1>5. DOMAIN book' = Owner /\ \A p \in Owner : IsRuleBag(book'[p])
  BY <1>1, <1>2, <1>4
<1>a. TypeOK'
  BY <1>1, <1>4, <1>5 DEF IInv, TypeOK
<1>b. SlotsExclusive'
  BY <1>1 DEF IInv, SlotsExclusive, PoolIsInjective, LiveSlotsDistinct, PoolNotLive
<1>c. LiveHasTap' /\ CounterCounts'
  BY <1>1 DEF IInv, LiveHasTap, CounterCounts
<1>d. SmallIds'
  BY <1>1 DEF IInv, SmallIds, Overflows
<1> QED
  BY <1>a, <1>b, <1>c, <1>d DEF IInv

\* Dropping a stack, whatever becomes of its slot: the types, the devices of
\* the other stacks and the slots of the other stacks are as before.
LEMMA DropStackFacts ==
    ASSUME IInv, NEW o \in Owner, DropStack(o)
    PROVE  /\ o \in live /\ live' = live \ {o} /\ slot' = slot
           /\ DOMAIN book' = Owner /\ \A p \in Owner : IsRuleBag(book'[p])
           /\ IsRuleBag(iptables') /\ leaked' \subseteq Rule /\ taps' \subseteq Device
           /\ LiveHasTap'
<1>1. TypeOK /\ LiveSlotsDistinct /\ LiveHasTap
  BY DEF IInv, SlotsExclusive
<1>2. o \in live /\ live' = live \ {o} /\ slot' = slot /\ book' = [book EXCEPT ![o] = EmptyBag]
  BY DEF DropStack
<1>3. PICK keptTaps : taps' = taps \ ({Tap(slot[o])} \ keptTaps)
  BY DEF DropStack
<1>4. PICK kept \in FailedDeletes(DOMAIN book[o] \ leaked) :
         /\ iptables' = iptables (-) [r \in DOMAIN book[o] \ kept |-> book[o][r]]
         /\ leaked' = leaked \cup kept
  BY DEF DropStack
<1>5. IsRuleBag(iptables) /\ IsRuleBag(book[o]) /\ DOMAIN book[o] \subseteq Rule
  BY <1>1 DEF TypeOK, IsRuleBag
<1>6. IsRuleBag(iptables')
  BY <1>4, <1>5, DeleteFromBag
<1>7. kept \subseteq Rule
  BY <1>4, <1>5, FlagsAssumption DEF FailedDeletes
<1>8. leaked' \subseteq Rule /\ taps' \subseteq Device
  BY <1>1, <1>3, <1>4, <1>7 DEF TypeOK
<1>9. DOMAIN book' = Owner /\ \A p \in Owner : IsRuleBag(book'[p])
  BY <1>1, <1>2, InitialBags DEF TypeOK
<1>10. LiveHasTap'
  <2>1. SUFFICES ASSUME NEW p \in live, p # o
                 PROVE  Tap(slot[p]) \in taps'
    BY <1>2 DEF LiveHasTap, Tap
  <2>2. slot[p] # slot[o]
    BY <1>1, <1>2, <2>1 DEF LiveSlotsDistinct
  <2>3. Tap(slot[p]) # Tap(slot[o])
    BY <2>2 DEF Tap
  <2> QED
    BY <1>1, <1>3, <2>1, <2>3 DEF LiveHasTap
<1> QED
  BY <1>2, <1>6, <1>8, <1>9, <1>10

\* Forgetting a slot keeps the invariant.
LEMMA DropInv ==
    ASSUME IInv, NEW o \in Owner, drop(o)
    PROVE  IInv'
<1>1. DropStack(o) /\ UNCHANGED <<recovered_slots, next_id, drawn, global_rules, overflow_checks>>
  BY DEF drop, pool
<1>2. /\ live' = live \ {o} /\ slot' = slot
      /\ LiveHasTap'
  BY <1>1, DropStackFacts
<1>a. TypeOK'
  BY <1>1, DropStackFacts DEF IInv, TypeOK
<1>b. SlotsExclusive'
  BY <1>1, <1>2 DEF IInv, SlotsExclusive, PoolIsInjective, LiveSlotsDistinct, PoolNotLive
<1>c. CounterCounts'
  BY <1>1 DEF IInv, CounterCounts
<1>d. SmallIds'
  BY <1>1, <1>2 DEF IInv, SmallIds, Overflows
<1> QED
  BY <1>2, <1>a, <1>b, <1>c, <1>d DEF IInv

\* Returning a slot keeps the invariant: the slot leaves the live ones, where
\* it was once, and enters the pool, where it was not.
LEMMA ReclaimInv ==
    ASSUME IInv, NEW o \in Owner, reclaim(o)
    PROVE  IInv'
<1> DEFINE n == Len(recovered_slots)
<1>1. /\ DropStack(o)
      /\ recovered_slots' = Append(recovered_slots, slot[o])
      /\ UNCHANGED <<next_id, drawn, global_rules, overflow_checks>>
  BY DEF reclaim
<1>2. o \in live /\ live' = live \ {o} /\ slot' = slot /\ LiveHasTap'
  BY <1>1, DropStackFacts
<1>3. recovered_slots \in Seq(Nat) /\ n \in Nat /\ slot[o] \in Nat
  BY DEF IInv, TypeOK
<1>4. /\ recovered_slots' \in Seq(Nat)
      /\ DOMAIN recovered_slots = 1 .. n
      /\ DOMAIN recovered_slots' = 1 .. n + 1
      /\ \A i \in 1 .. n : recovered_slots'[i] = recovered_slots[i]
      /\ recovered_slots'[n + 1] = slot[o]
  BY <1>1, <1>3
<1> HIDE DEF n
<1>5. \A i \in 1 .. n + 1 : i \in 1 .. n \/ i = n + 1
  BY <1>3
<1>a. TypeOK'
  BY <1>1, <1>4, DropStackFacts DEF IInv, TypeOK
<1>b. SlotsExclusive'
  <2>1. PoolIsInjective /\ LiveSlotsDistinct /\ PoolNotLive
    BY DEF IInv, SlotsExclusive
  <2>2. PoolIsInjective'
    BY <1>2, <1>4, <1>5, <2>1 DEF PoolIsInjective, PoolNotLive
  <2>3. LiveSlotsDistinct'
    BY <1>2, <2>1 DEF LiveSlotsDistinct
  <2>4. PoolNotLive'
    BY <1>2, <1>4, <1>5, <2>1 DEF PoolNotLive, LiveSlotsDistinct
  <2> QED
    BY <2>2, <2>3, <2>4 DEF SlotsExclusive
<1>c. CounterCounts'
  BY <1>1 DEF IInv, CounterCounts
<1>d. SmallIds'
  BY <1>1, <1>2, <1>4, <1>5 DEF IInv, SmallIds, Overflows
<1> QED
  BY <1>2, <1>a, <1>b, <1>c, <1>d DEF IInv

\* Dropping the manager keeps the invariant: only its rules go.
LEMMA DropManagerInv ==
    ASSUME IInv, drop_manager
    PROVE  IInv'
<1>1. /\ global_rules' = {}
      /\ UNCHANGED <<recovered_slots, next_id, drawn, overflow_checks, live, slot, book, taps>>
  BY DEF drop_manager
<1>2. PICK kept \in FailedDeletes(global_rules) :
         /\ iptables' = iptables (-) SetToBag(global_rules \ kept)
         /\ leaked' = leaked \cup kept
  BY DEF drop_manager
<1>3. kept \subseteq {Established} /\ IsRuleBag(iptables)
  BY FlagsAssumption DEF FailedDeletes, IInv, TypeOK
<1>4. IsRuleBag(iptables')
  BY <1>2, <1>3, DeleteRules
<1>5. leaked' \subseteq Rule
  BY <1>2, <1>3 DEF IInv, TypeOK, Rule
<1>a. TypeOK'
  BY <1>1, <1>4, <1>5 DEF IInv, TypeOK
<1>b. SlotsExclusive'
  BY <1>1 DEF IInv, SlotsExclusive, PoolIsInjective, LiveSlotsDistinct, PoolNotLive
<1>c. LiveHasTap' /\ CounterCounts'
  BY <1>1 DEF IInv, LiveHasTap, CounterCounts
<1>d. SmallIds'
  BY <1>1 DEF IInv, SmallIds, Overflows
<1> QED
  BY <1>a, <1>b, <1>c, <1>d DEF IInv

-----------------------------------------------------------------------------
(* The theorems *)

\* NetworkManager::new establishes the invariant.
LEMMA InitInv == Init => IInv
<1> SUFFICES ASSUME Init PROVE IInv
  OBVIOUS
<1>1. TypeOK
  BY InitialBags, U16Assumption, FlagsAssumption DEF Init, TypeOK
<1>2. SlotsExclusive
  BY DEF Init, SlotsExclusive, PoolIsInjective, LiveSlotsDistinct, PoolNotLive
<1>3. LiveHasTap /\ CounterCounts /\ SmallIds
  BY DEF Init, LiveHasTap, CounterCounts, SmallIds
<1> QED
  BY <1>1, <1>2, <1>3 DEF IInv

\* Every operation keeps the invariant.
LEMMA NextInv == IInv /\ [Next]_vars => IInv'
<1> SUFFICES ASSUME IInv, [Next]_vars PROVE IInv'
  OBVIOUS
<1>1. ASSUME NEW o \in Owner, provision_stack(o) PROVE IInv'
  BY <1>1, ProvisionInv
<1>2. CASE provision_stack_fails
  BY <1>2, ProvisionFailsInv
<1>3. CASE next_slot_panics
  BY <1>3, PanicInv
<1>4. ASSUME NEW o \in Owner, NEW n \in 0 .. 2, setup_public_nat(o, n) PROVE IInv'
  <2>1. slot[o] \in Nat
    BY DEF IInv, TypeOK
  <2>2. AddRules(o, public_nat_rules(slot[o]), n)
    BY <1>4 DEF setup_public_nat
  <2> QED
    BY <2>1, <2>2, NatRules, AddRulesInv
<1>5. ASSUME NEW o \in Owner, NEW hp \in Port, NEW gp \in Port, NEW n \in 0 .. 3,
             setup_forwarding(o, hp, gp, n)
      PROVE  IInv'
  <2>1. slot[o] \in Nat
    BY DEF IInv, TypeOK
  <2>2. AddRules(o, forwarding_rules(slot[o], hp, gp), n)
    BY <1>5 DEF setup_forwarding
  <2> QED
    BY <2>1, <2>2, ForwardingRules, AddRulesInv
<1>6. ASSUME NEW o \in Owner, drop(o) PROVE IInv'
  BY <1>6, DropInv
<1>7. ASSUME NEW o \in Owner, reclaim(o) PROVE IInv'
  BY <1>7, ReclaimInv
<1>8. CASE drop_manager
  BY <1>8, DropManagerInv
<1>9. CASE UNCHANGED vars
  BY <1>9 DEF vars, IInv, TypeOK, SlotsExclusive, PoolIsInjective, LiveSlotsDistinct,
              PoolNotLive, LiveHasTap, CounterCounts, SmallIds, Overflows
<1> QED
  BY <1>1, <1>2, <1>3, <1>4, <1>5, <1>6, <1>7, <1>8, <1>9 DEF Next

\* Two numbers that do not overflow have disjoint subnets: the code's id * 4 + 1
\* gives different addresses, and a gateway is never another stack's guest.
LEMMA SubnetsDisjoint ==
    ASSUME NEW a \in Nat, NEW b \in Nat, a # b, ~Overflows(a), ~Overflows(b)
    PROVE  Subnet(a) \cap Subnet(b) = {}
<1> DEFINE x == a * 4 + 1
           y == b * 4 + 1
<1>1. ip_id(a) = x /\ ip_id(b) = y
  BY U16Assumption DEF ip_id, Overflows
<1>2. gateway(a) # gateway(b) /\ ipv4_addr(a) # ipv4_addr(b)
  BY <1>1 DEF gateway, ipv4_addr
<1>3. x % 256 # (y % 256) + 1 /\ y % 256 # (x % 256) + 1
  OBVIOUS
<1>4. gateway(a) # ipv4_addr(b) /\ gateway(b) # ipv4_addr(a)
  BY <1>1, <1>3 DEF gateway, ipv4_addr
<1> QED
  BY <1>2, <1>4 DEF Subnet

\* The invariant holds in every reachable state.
THEOREM Invariance == Spec => []IInv
BY InitInv, NextInv, PTL DEF Spec

\* The state of NetworkManager, its stacks and the host is well typed for ever,
\* next_id within its 16 bits included.
THEOREM TypeCorrect == Spec => []TypeOK
<1>1. IInv => TypeOK
  BY DEF IInv
<1> QED
  BY <1>1, Invariance, PTL

\* next_slot(), provision_stack() and reclaim() never give a slot two holders,
\* not even after next_id has wrapped, for any number of machines.
THEOREM SlotSafety == Spec => []SlotsExclusive
<1>1. IInv => SlotsExclusive
  BY DEF IInv
<1> QED
  BY <1>1, Invariance, PTL

\* No two stacks share an address: for the first 2^14 draws of a release build
\* and without limit in a build with overflow checks.
THEOREM AddressSafety == Spec => []AddressesExclusive
<1>1. IInv => AddressesExclusive
  <2> SUFFICES ASSUME IInv, overflow_checks \/ drawn <= U16 \div 4,
                      NEW o \in live, NEW p \in live, o # p
               PROVE  Subnet(slot[o]) \cap Subnet(slot[p]) = {}
    BY DEF AddressesExclusive
  <2>1. slot[o] \in Nat /\ slot[p] \in Nat /\ slot[o] # slot[p]
    BY DEF IInv, TypeOK, SlotsExclusive, LiveSlotsDistinct
  <2>2. ~Overflows(slot[o]) /\ ~Overflows(slot[p])
    BY DEF IInv, SmallIds
  <2> QED
    BY <2>1, <2>2, SubnetsDisjoint
<1> QED
  BY <1>1, Invariance, PTL

-----------------------------------------------------------------------------
(* The rules on the host *)

\* RulesOwned over all rules, with the finiteness that counting needs.  Equal
\* rules of two stacks (their slots may have one subnet once ids overflow) are
\* why it counts entries.
Counted(r) ==
    /\ IsFiniteSet(Entries(r))
    /\ r \notin leaked =>
          Copies(r, iptables) = Cardinality(Entries(r)) + Copies(r, SetToBag(global_rules))
AllCounted == \A r \in Rule : Counted(r)

\* How often a rule is in a bag, after additions and deletions.
LEMMA CopiesAdded ==
    ASSUME NEW b, NEW S, NEW r, IsRuleBag(b)
    PROVE  /\ Copies(r, b) \in Nat
           /\ Copies(r, b (+) SetToBag(S)) = Copies(r, b) + (IF r \in S THEN 1 ELSE 0)
BY DEF Copies, IsRuleBag, IsABag, SetToBag, (+)

\* Deleting the rules of c takes as many copies of each as c has.
LEMMA CopiesDeleted ==
    ASSUME NEW b, NEW c, NEW r, IsRuleBag(b), \A x \in DOMAIN c : c[x] \in Nat,
           Copies(r, c) <= Copies(r, b)
    PROVE  Copies(r, b (-) c) = Copies(r, b) - Copies(r, c)
BY DEF Copies, IsRuleBag, IsABag, (-)

\* A set, as a bag, has one copy of each member.
LEMMA CopiesOfSet ==
    ASSUME NEW S, NEW r
    PROVE  Copies(r, SetToBag(S)) = IF r \in S THEN 1 ELSE 0
BY DEF Copies, SetToBag

\* The entries of one stack.
EntriesOf(o, r) == {o} \X (1 .. Copies(r, book[o]))

\* A rule counted k times has k entries.
LEMMA EntriesOfCount ==
    ASSUME NEW o, NEW k \in Nat
    PROVE  IsFiniteSet({o} \X (1 .. k)) /\ Cardinality({o} \X (1 .. k)) = k
<1>1. IsFiniteSet(1 .. k) /\ Cardinality(1 .. k) = k
  BY FS_Interval
<1>2. IsFiniteSet({o}) /\ Cardinality({o}) = 1
  BY FS_Singleton
<1> QED
  BY <1>1, <1>2, FS_Product

\* A step that touches no book of an existing stack leaves the entries alone.
LEMMA SameEntries ==
    ASSUME NEW r, live' = live, \A o \in live : book'[o] = book[o]
    PROVE  Entries(r)' = Entries(r)
BY DEF Entries, Copies

\* A new stack has no entries.
LEMMA ProvisionCounted ==
    ASSUME IInv, AllCounted, NEW o \in Owner, provision_stack(o)
    PROVE  AllCounted'
<1> SUFFICES ASSUME NEW r \in Rule PROVE Counted(r)'
  BY DEF AllCounted
<1>1. /\ o \notin live /\ live' = live \cup {o}
      /\ book' = [book EXCEPT ![o] = EmptyBag]
      /\ UNCHANGED <<iptables, leaked, global_rules>>
  BY DEF provision_stack, TakeSlot
<1>2. DOMAIN book = Owner /\ live \subseteq Owner
  BY DEF IInv, TypeOK
<1>3. Copies(r, book'[o]) = 0
  BY <1>1, <1>2 DEF Copies, EmptyBag, SetToBag
<1>4. \A p \in live : book'[p] = book[p]
  BY <1>1, <1>2
<1>5. Entries(r)' = Entries(r)
  BY <1>1, <1>3, <1>4 DEF Entries, Copies
<1> QED
  BY <1>1, <1>5 DEF AllCounted, Counted, Copies

\* A rule that is installed gets one entry, in the book of its stack.
LEMMA AddRulesCounted ==
    ASSUME IInv, AllCounted, NEW o \in live, NEW rs, NEW n, AddRules(o, rs, n)
    PROVE  AllCounted'
<1> DEFINE added == {rs[i] : i \in 1 .. n}
<1> SUFFICES ASSUME NEW r \in Rule PROVE Counted(r)'
  BY DEF AllCounted
<1>1. /\ iptables' = iptables (+) SetToBag(added)
      /\ book' = [book EXCEPT ![o] = book[o] (+) SetToBag(added)]
      /\ UNCHANGED <<global_rules, live, leaked>>
  BY DEF AddRules, pool
<1> HIDE DEF added
<1>2. DOMAIN book = Owner /\ live \subseteq Owner /\ IsRuleBag(iptables) /\ IsRuleBag(book[o])
  BY DEF IInv, TypeOK
<1>3. \A p \in live \ {o} : book'[p] = book[p]
  BY <1>1, <1>2
<1> DEFINE k == Copies(r, book[o])
<1>4. k \in Nat /\ Copies(r, book'[o]) = k + (IF r \in added THEN 1 ELSE 0)
  BY <1>1, <1>2, CopiesAdded
<1>5. Copies(r, iptables) \in Nat
      /\ Copies(r, iptables') = Copies(r, iptables) + (IF r \in added THEN 1 ELSE 0)
  BY <1>1, <1>2, CopiesAdded
<1>6. CASE r \in added
  <2>1. Entries(r)' = Entries(r) \cup {<<o, k + 1>>}
    <3>1. 1 .. k + 1 = (1 .. k) \cup {k + 1}
      BY <1>4
    <3>2. {o} \X (1 .. Copies(r, book'[o])) = EntriesOf(o, r) \cup {<<o, k + 1>>}
      BY <1>4, <1>6, <3>1 DEF EntriesOf
    <3>3. \A p \in live \ {o} : {p} \X (1 .. Copies(r, book'[p])) = EntriesOf(p, r)
      BY <1>3 DEF EntriesOf
    <3> QED
      BY <1>1, <3>2, <3>3 DEF Entries, EntriesOf, Copies
  <2>2. <<o, k + 1>> \notin Entries(r)
    BY <1>4 DEF Entries
  <2>3. /\ IsFiniteSet(Entries(r)')
        /\ Cardinality(Entries(r)') = Cardinality(Entries(r)) + 1
    BY <2>1, <2>2, FS_AddElement DEF AllCounted, Counted
  <2>4. IsFiniteSet(Entries(r)) /\ Cardinality(Entries(r)) \in Nat
    BY FS_CardinalityType DEF AllCounted, Counted
  <2>5. Copies(r, SetToBag(global_rules')) = Copies(r, SetToBag(global_rules))
        /\ Copies(r, SetToBag(global_rules)) \in Nat
    BY <1>1, CopiesOfSet
  <2>6. r \notin leaked =>
           Copies(r, iptables) = Cardinality(Entries(r)) + Copies(r, SetToBag(global_rules))
    BY DEF AllCounted, Counted
  <2>7. r \notin leaked' =>
           Copies(r, iptables') = Cardinality(Entries(r)') + Copies(r, SetToBag(global_rules'))
    BY <1>1, <1>5, <1>6, <2>3, <2>4, <2>5, <2>6
  <2> QED
    BY <2>3, <2>7 DEF Counted, Copies
<1>7. CASE r \notin added
  <2>1. Copies(r, book'[o]) = k /\ Copies(r, iptables') = Copies(r, iptables)
    BY <1>4, <1>5, <1>7
  <2>2. \A p \in live : Copies(r, book'[p]) = Copies(r, book[p])
    BY <1>3, <2>1
  <2>3. Entries(r)' = Entries(r)
    BY <1>1, <2>2 DEF Entries, Copies
  <2> QED
    BY <1>1, <2>1, <2>3 DEF AllCounted, Counted, Copies
<1> QED
  BY <1>6, <1>7

\* A stack that goes takes its entries with it, and one copy of a rule for each
\* entry whose deletion succeeds.
LEMMA DropStackCounted ==
    ASSUME IInv, AllCounted, NEW o \in Owner, DropStack(o), UNCHANGED global_rules
    PROVE  AllCounted'
<1> SUFFICES ASSUME NEW r \in Rule PROVE Counted(r)'
  BY DEF AllCounted
<1>1. o \in live /\ live' = live \ {o} /\ book' = [book EXCEPT ![o] = EmptyBag]
  BY DEF DropStack
<1>2. PICK kept \in FailedDeletes(DOMAIN book[o] \ leaked) :
         /\ iptables' = iptables (-) [x \in DOMAIN book[o] \ kept |-> book[o][x]]
         /\ leaked' = leaked \cup kept
  BY DEF DropStack
<1>3. DOMAIN book = Owner /\ live \subseteq Owner /\ IsRuleBag(iptables) /\ IsRuleBag(book[o])
  BY DEF IInv, TypeOK
<1> DEFINE k == Copies(r, book[o])
<1>4. k \in Nat /\ Copies(r, iptables) \in Nat
  BY <1>3, CopiesAdded
<1>5. IsFiniteSet(EntriesOf(o, r)) /\ Cardinality(EntriesOf(o, r)) = k
  BY <1>4, EntriesOfCount DEF EntriesOf
<1>6. Entries(r)' = Entries(r) \ EntriesOf(o, r)
  <2>1. \A p \in live \ {o} : book'[p] = book[p]
    BY <1>1, <1>3
  <2> QED
    BY <1>1, <2>1 DEF Entries, EntriesOf, Copies
<1>7. Entries(r) \cap EntriesOf(o, r) = EntriesOf(o, r)
  BY <1>1 DEF Entries, EntriesOf
<1>8. IsFiniteSet(Entries(r)) /\ Cardinality(Entries(r)) \in Nat
  BY FS_CardinalityType DEF AllCounted, Counted
<1>9. IsFiniteSet(Entries(r)') /\ Cardinality(Entries(r)') = Cardinality(Entries(r)) - k
  <2>1. /\ IsFiniteSet(Entries(r) \ EntriesOf(o, r))
        /\ Cardinality(Entries(r) \ EntriesOf(o, r)) =
              Cardinality(Entries(r)) - Cardinality(Entries(r) \cap EntriesOf(o, r))
    BY <1>8, FS_Difference
  <2> QED
    BY <1>5, <1>6, <1>7, <2>1
<1>10. Cardinality(Entries(r)') \in Nat
  BY <1>9, FS_CardinalityType
<1>11. ASSUME r \notin leaked'
       PROVE  Copies(r, iptables') = Cardinality(Entries(r)')
                                     + Copies(r, SetToBag(global_rules'))
  <2> DEFINE gone == [x \in DOMAIN book[o] \ kept |-> book[o][x]]
  <2>1. r \notin leaked /\ r \notin kept
    BY <1>2, <1>11
  <2>2. Copies(r, gone) = k
    BY <2>1 DEF Copies
  <2>3. Copies(r, iptables) = Cardinality(Entries(r)) + Copies(r, SetToBag(global_rules))
    BY <2>1 DEF AllCounted, Counted
  <2>4. Copies(r, SetToBag(global_rules)) \in Nat
    BY CopiesOfSet
  <2>5. k <= Copies(r, iptables)
    BY <1>4, <1>8, <1>9, <1>10, <2>3, <2>4
  <2>6. \A x \in DOMAIN gone : gone[x] \in Nat
    BY <1>3 DEF IsRuleBag, IsABag
  <2>7. Copies(r, iptables') = Copies(r, iptables) - k
    BY <1>2, <1>3, <2>2, <2>5, <2>6, CopiesDeleted
  <2> QED
    BY <1>4, <1>8, <1>9, <2>3, <2>4, <2>7
<1> QED
  BY <1>9, <1>11 DEF Counted, Copies

\* The manager's rule goes, or its deletion fails.
LEMMA DropManagerCounted ==
    ASSUME IInv, AllCounted, drop_manager
    PROVE  AllCounted'
<1> SUFFICES ASSUME NEW r \in Rule PROVE Counted(r)'
  BY DEF AllCounted
<1>1. live = {} /\ global_rules' = {} /\ UNCHANGED <<live, book>>
  BY DEF drop_manager
<1>2. PICK kept \in FailedDeletes(global_rules) :
         /\ iptables' = iptables (-) SetToBag(global_rules \ kept)
         /\ leaked' = leaked \cup kept
  BY DEF drop_manager
<1>3. Entries(r) = {} /\ Entries(r)' = {}
  BY <1>1 DEF Entries
<1>4. IsFiniteSet({}) /\ Cardinality({}) = 0
  BY FS_EmptySet
<1>5. ASSUME r \notin leaked' PROVE Copies(r, iptables') = 0
  <2>1. r \notin leaked /\ r \notin kept
    BY <1>2, <1>5
  <2> DEFINE gone == SetToBag(global_rules \ kept)
  <2>2. Copies(r, iptables) = Copies(r, gone) /\ Copies(r, gone) \in Nat
    <3>1. Copies(r, SetToBag(global_rules)) = Copies(r, gone) /\ Copies(r, gone) \in Nat
      BY <2>1, CopiesOfSet
    <3>2. Copies(r, iptables) = Cardinality(Entries(r)) + Copies(r, SetToBag(global_rules))
      BY <2>1 DEF AllCounted, Counted
    <3> QED
      BY <1>3, <1>4, <3>1, <3>2
  <2>3. IsRuleBag(iptables)
    BY DEF IInv, TypeOK
  <2>4. \A x \in DOMAIN gone : gone[x] \in Nat
    BY DEF SetToBag
  <2>5. iptables' = iptables (-) gone
    BY <1>2
  <2> HIDE DEF gone
  <2>6. Copies(r, iptables (-) gone) = Copies(r, iptables) - Copies(r, gone)
    BY <2>2, <2>3, <2>4, CopiesDeleted
  <2> QED
    BY <2>2, <2>5, <2>6
<1>6. Copies(r, SetToBag(global_rules')) = 0
  BY <1>1, CopiesOfSet
<1> QED
  BY <1>3, <1>4, <1>5, <1>6 DEF Counted, Copies

\* Every operation keeps the counts.
LEMMA NextCounted == IInv /\ AllCounted /\ [Next]_vars => AllCounted'
<1> SUFFICES ASSUME IInv, AllCounted, [Next]_vars PROVE AllCounted'
  OBVIOUS
<1>1. ASSUME NEW o \in Owner, provision_stack(o) PROVE AllCounted'
  BY <1>1, ProvisionCounted
<1>2. CASE provision_stack_fails \/ next_slot_panics \/ UNCHANGED vars
  <2>1. UNCHANGED <<live, book, iptables, leaked, global_rules>>
    BY <1>2 DEF provision_stack_fails, next_slot_panics, TakeSlot, vars
  <2>2. \A r : Entries(r)' = Entries(r)
    BY <2>1, SameEntries
  <2> QED
    BY <2>1, <2>2 DEF AllCounted, Counted, Copies
<1>3. ASSUME NEW o \in Owner, NEW n \in 0 .. 2, setup_public_nat(o, n) PROVE AllCounted'
  BY <1>3, AddRulesCounted DEF setup_public_nat
<1>4. ASSUME NEW o \in Owner, NEW hp \in Port, NEW gp \in Port, NEW n \in 0 .. 3,
             setup_forwarding(o, hp, gp, n)
      PROVE  AllCounted'
  BY <1>4, AddRulesCounted DEF setup_forwarding
<1>5. ASSUME NEW o \in Owner, drop(o) PROVE AllCounted'
  BY <1>5, DropStackCounted DEF drop, pool
<1>6. ASSUME NEW o \in Owner, reclaim(o) PROVE AllCounted'
  BY <1>6, DropStackCounted DEF reclaim
<1>7. CASE drop_manager
  BY <1>7, DropManagerCounted
<1> QED
  BY <1>1, <1>2, <1>3, <1>4, <1>5, <1>6, <1>7 DEF Next

\* No drop of a stack removes another's rule, no failure of setup_public_nat()
\* or setup_forwarding() leaves one behind, and equal rules are counted: the
\* host's tables and the books agree for any number of stacks and ports.
THEOREM RuleSafety == Spec => []RulesOwned
<1>1. Init => AllCounted
  <2> SUFFICES ASSUME Init, NEW r \in Rule PROVE Counted(r)
    BY DEF AllCounted
  <2>1. Entries(r) = {} /\ iptables = SetToBag(global_rules)
    BY DEF Init, Entries
  <2>2. IsFiniteSet({}) /\ Cardinality({}) = 0
    BY FS_EmptySet
  <2> QED
    BY <2>1, <2>2, CopiesOfSet DEF Counted
<1>2. IInv /\ AllCounted => RulesOwned
  <2> SUFFICES ASSUME IInv, AllCounted,
                      NEW r \in DOMAIN iptables \cup global_rules
                                 \cup UNION {DOMAIN book[o] : o \in live},
                      r \notin leaked
               PROVE  Copies(r, iptables) = Cardinality(Entries(r))
                                            + Copies(r, SetToBag(global_rules))
    BY DEF RulesOwned
  <2>1. r \in Rule
    BY DEF IInv, TypeOK, IsRuleBag, Rule
  <2> QED
    BY <2>1 DEF AllCounted, Counted
<1> QED
  BY <1>1, <1>2, NextCounted, Invariance, PTL DEF Spec

-----------------------------------------------------------------------------
(* What is left on the host *)

\* The manager goes after the stacks, and as long as deletions succeed the
\* devices are those of the stacks.
Tidy ==
    /\ ~Exists => live = {}
    /\ ~DeleteMayFail => taps = {Tap(slot[o]) : o \in live}

\* Dropping a stack takes its device and no other's.
LEMMA DropStackTidy ==
    ASSUME IInv, Tidy, NEW o \in Owner, DropStack(o), UNCHANGED global_rules
    PROVE  Tidy'
<1>1. o \in live /\ live' = live \ {o} /\ slot' = slot
  BY DEF DropStack
<1>2. ASSUME ~DeleteMayFail PROVE taps' = {Tap(slot'[p]) : p \in live'}
  <2>1. taps' = taps \ {Tap(slot[o])}
    BY <1>2 DEF DropStack, FailedDeletes
  <2>2. \A p \in live : Tap(slot[p]) = Tap(slot[o]) => p = o
    BY <1>1 DEF IInv, SlotsExclusive, LiveSlotsDistinct, Tap
  <2> QED
    BY <1>1, <1>2, <2>1, <2>2 DEF Tidy
<1>3. ~Exists' => live' = {}
  BY <1>1 DEF Tidy, Exists
<1> QED
  BY <1>2, <1>3 DEF Tidy

\* Every operation leaves the host tidy.
LEMMA NextTidy == IInv /\ Tidy /\ [Next]_vars => Tidy'
<1> SUFFICES ASSUME IInv, Tidy, [Next]_vars PROVE Tidy'
  OBVIOUS
<1>1. ASSUME NEW o \in Owner, provision_stack(o) PROVE Tidy'
  <2>1. /\ o \notin live /\ live' = live \cup {o} /\ Exists'
        /\ slot' = [slot EXCEPT ![o] = next_slot] /\ taps' = taps \cup {Tap(next_slot)}
    BY <1>1 DEF provision_stack, TakeSlot, Exists
  <2>2. slot'[o] = next_slot /\ \A p \in live : slot'[p] = slot[p]
    BY <2>1 DEF IInv, TypeOK
  <2>3. {Tap(slot'[p]) : p \in live'} = {Tap(slot[p]) : p \in live} \cup {Tap(next_slot)}
    BY <2>1, <2>2
  <2> QED
    BY <2>1, <2>3 DEF Tidy
<1>2. CASE provision_stack_fails \/ next_slot_panics
  BY <1>2 DEF provision_stack_fails, next_slot_panics, TakeSlot, Tidy, Exists
<1>3. CASE \/ \E o \in Owner, n \in 0 .. 2 : setup_public_nat(o, n)
           \/ \E o \in Owner, hp, gp \in Port, n \in 0 .. 3 : setup_forwarding(o, hp, gp, n)
           \/ UNCHANGED vars
  <2>1. UNCHANGED <<global_rules, live, slot, taps>>
    BY <1>3 DEF setup_public_nat, setup_forwarding, AddRules, pool, vars
  <2> QED
    BY <2>1 DEF Tidy, Exists
<1>4. ASSUME NEW o \in Owner, drop(o) \/ reclaim(o) PROVE Tidy'
  BY <1>4, DropStackTidy DEF drop, reclaim, pool
<1>5. CASE drop_manager
  BY <1>5 DEF drop_manager, Tidy
<1> QED
  BY <1>1, <1>2, <1>3, <1>4, <1>5 DEF Next

\* The network leaves nothing behind but what a failed deletion left: the tap
\* devices are those of the stacks, and no rule outlives the manager.
LEMMA TidySafety ==
    Spec => [](Tidy /\ (~Exists => DOMAIN iptables \subseteq leaked))
<1>1. Init => Tidy
  BY DEF Init, Tidy, Exists
<1>2. IInv /\ Tidy /\ RulesOwned => (~Exists => DOMAIN iptables \subseteq leaked)
  <2> SUFFICES ASSUME IInv, Tidy, RulesOwned, ~Exists, NEW r \in DOMAIN iptables, r \notin leaked
               PROVE  FALSE
    OBVIOUS
  <2>1. live = {} /\ global_rules = {}
    BY DEF Tidy, Exists
  <2>2. Copies(r, iptables) = Cardinality(Entries(r)) + Copies(r, SetToBag(global_rules))
    BY DEF RulesOwned
  <2>3. Entries(r) = {} /\ Cardinality({}) = 0
    BY <2>1, FS_EmptySet DEF Entries
  <2>4. Copies(r, SetToBag(global_rules)) = 0
    BY <2>1, CopiesOfSet DEF Copies, SetToBag
  <2>5. Copies(r, iptables) \in Nat \ {0}
    BY DEF IInv, TypeOK, IsRuleBag, IsABag, Copies
  <2> QED
    BY <2>2, <2>3, <2>4, <2>5
<1> QED
  BY <1>1, <1>2, NextTidy, Invariance, RuleSafety, PTL DEF Spec
=============================================================================
