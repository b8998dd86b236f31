---------------------------- MODULE IPPoolProofs ----------------------------
(***************************************************************************)
(* The address pool partitions its addresses, for every pool size, and     *)
(* implements the abstract lease.                                          *)
(***************************************************************************)
EXTENDS IPPool, DistinctSequences, TLAPS

PoolInv == PoolTypeOK /\ Partition

LEMMA InitPartition == PoolInit => PoolInv
<1> SUFFICES ASSUME PoolInit PROVE PoolInv
  OBVIOUS
<1>1. /\ DOMAIN available = 1..(PoolSize - 1)
      /\ \A i \in 1..(PoolSize - 1) : available[i] = i + 1
      /\ available \in Seq(Addresses)
  BY PoolSizeAssumption DEF PoolInit, Addresses
<1>2. Free = Addresses
  <2>1. Free \subseteq Addresses
    BY <1>1, PoolSizeAssumption DEF Free, Addresses
  <2>2. ASSUME NEW a \in Addresses PROVE a \in Free
    <3>1. a - 1 \in DOMAIN available /\ available[a - 1] = a
      BY <1>1, PoolSizeAssumption DEF Addresses
    <3>2. QED
      BY <3>1 DEF Free
  <2>3. QED
    BY <2>1, <2>2
<1>3. QED
  BY <1>1, <1>2 DEF PoolInit, PoolInv, PoolTypeOK, Partition

(* One acquire and one release keep the partition; the release frees what  *)
(* was leased and ignores the rest.                                        *)
LEMMA AcquirePartition ==
  ASSUME PoolInv, NEW ip, AcquireAddress(ip)
  PROVE  PoolInv' /\ ip \in Free /\ ip \in Addresses /\ Free' = Free \ {ip}
<1>1. /\ Head(available) \in Addresses /\ Tail(available) \in Seq(Addresses)
      /\ Distinct(Tail(available))
      /\ Elements(Tail(available)) = Elements(available) \ {Head(available)}
  <2>1. available \in Seq(Addresses) /\ available # <<>> /\ Distinct(available)
    BY DEF PoolInv, PoolTypeOK, Partition, AcquireAddress, Distinct
  <2>2. QED
    BY <2>1, TailElements
<1>2. Free' = Free \ {ip}
  BY <1>1 DEF AcquireAddress, Free, Elements
<1>3. ip \in Free
  BY DEF AcquireAddress, Free, PoolInv, PoolTypeOK
<1>4. PoolTypeOK'
  BY <1>1 DEF AcquireAddress, PoolInv, PoolTypeOK
<1>5. Partition'
  BY <1>1, <1>2, <1>3 DEF AcquireAddress, PoolInv, PoolTypeOK, Partition, Distinct
<1>6. QED
  BY <1>1, <1>2, <1>3, <1>4, <1>5 DEF AcquireAddress, PoolInv

LEMMA ReleasePartition ==
  ASSUME PoolInv, NEW ip, ReleaseAddress(ip)
  PROVE  /\ PoolInv'
         /\ \/ ip \in allocated /\ Free' = Free \union {ip} /\ ip \in Addresses
            \/ UNCHANGED ipVars
<1>1. CASE ip \in allocated
  <2>1. /\ available' = <<ip>> \o available
        /\ allocated' = allocated \ {ip}
        /\ ip \in Addresses /\ ip \notin Free
    BY <1>1 DEF ReleaseAddress, PoolInv, PoolTypeOK, Partition
  <2>2. /\ available' \in Seq(Addresses) /\ Distinct(available')
        /\ Elements(available') = Elements(available) \union {ip}
    <3>1. available \in Seq(Addresses) /\ Distinct(available)
          /\ ip \notin Elements(available) /\ ip \in Addresses
      BY <2>1 DEF PoolInv, PoolTypeOK, Partition, Distinct, Elements, Free
    <3>2. available' = Push(ip, available)
      BY <2>1 DEF Push
    <3>3. QED
      BY <3>1, <3>2, PushElements
  <2>3. Free' = Free \union {ip}
    BY <2>1, <2>2 DEF Free, Elements
  <2>4. PoolTypeOK'
    BY <2>1, <2>2 DEF PoolInv, PoolTypeOK
  <2>5. Partition'
    BY <2>1, <2>2, <2>3 DEF PoolInv, PoolTypeOK, Partition, Distinct
  <2>6. QED
    BY <1>1, <2>1, <2>3, <2>4, <2>5 DEF PoolInv
<1>2. CASE ip \notin allocated
  BY <1>2 DEF ReleaseAddress, PoolInv, PoolTypeOK, Partition, Free, ipVars
<1>3. QED
  BY <1>1, <1>2

LEMMA NextPartition == PoolInv /\ [PoolNext]_ipVars => PoolInv'
<1> SUFFICES ASSUME PoolInv, [PoolNext]_ipVars PROVE PoolInv'
  OBVIOUS
<1>1. CASE UNCHANGED ipVars
  BY <1>1 DEF PoolInv, PoolTypeOK, Partition, Free, ipVars
<1>2. CASE PoolNext
  <2>1. PICK ip \in Addresses : AcquireAddress(ip) \/ ReleaseAddress(ip) \/ Exhausted
    BY <1>2 DEF PoolNext
  <2>2. QED
    BY <1>1, <2>1, AcquirePartition, ReleasePartition DEF Exhausted
<1>3. QED
  BY <1>1, <1>2

(* For every pool size, no acquire or release, however often repeated,     *)
(* makes the pool double or lose an address (ip_pool.ex:25-43).            *)
THEOREM PartitionInvariant == PoolSpec => []Partition
<1>1. PoolSpec => []PoolInv
  BY InitPartition, NextPartition, PTL DEF PoolSpec
<1>2. PoolInv => Partition
  BY DEF PoolInv
<1>3. QED
  BY <1>1, <1>2, PTL

(* A step of the pool is the abstract Take or GiveBack of one address, or  *)
(* changes nothing.                                                        *)
LEMMA PoolStep == PoolInv /\ [PoolNext]_ipVars => [Lease!Next]_<<Free, allocated>>
<1> SUFFICES ASSUME PoolInv, [PoolNext]_ipVars
             PROVE  [Lease!Next]_<<Free, allocated>>
  OBVIOUS
<1>1. CASE UNCHANGED ipVars
  BY <1>1 DEF ipVars, Free
<1>2. ASSUME NEW ip \in Addresses, AcquireAddress(ip)
      PROVE  Lease!Next
  <2>1. Lease!Take(ip)
    BY <1>2, AcquirePartition DEF AcquireAddress, Lease!Take
  <2>2. QED
    BY <2>1 DEF Lease!Next
<1>3. ASSUME NEW ip \in Addresses, ReleaseAddress(ip), ~UNCHANGED ipVars
      PROVE  Lease!Next
  <2>1. Lease!GiveBack(ip)
    BY <1>3, ReleasePartition DEF ReleaseAddress, Lease!GiveBack
  <2>2. QED
    BY <2>1 DEF Lease!Next
<1>4. QED
  BY <1>1, <1>2, <1>3 DEF PoolNext, Exhausted

(* For every pool size, the stack and the set behave as a lease: a step is *)
(* the abstract Take or GiveBack of one address, or changes nothing.       *)
THEOREM LeaseRefinement == PoolSpec => ImplementsLease
<1>1. PoolInit => Lease!Init
  <2> SUFFICES ASSUME PoolInit PROVE Lease!Init
    OBVIOUS
  <2>1. Partition /\ allocated = {}
    BY InitPartition DEF PoolInit, PoolInv
  <2>2. QED
    BY <2>1 DEF Lease!Init, Partition
<1>2. PoolSpec => []PoolInv
  BY InitPartition, NextPartition, PTL DEF PoolSpec
<1>3. QED
  BY <1>1, <1>2, PoolStep, PTL DEF PoolSpec, ImplementsLease, Lease!Spec
=============================================================================
