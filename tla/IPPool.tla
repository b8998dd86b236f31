------------------------------- MODULE IPPool -------------------------------
(***************************************************************************)
(* lib/zypi/pool/ip_pool.ex: the GenServer that owns the host addresses of *)
(* the bridge network.  Free addresses are a list used as a stack, leased  *)
(* ones a set.  Acquire is a call; Release is a cast by anybody, of any    *)
(* address, any number of times.  An address a.b.c.i is its last byte i.   *)
(***************************************************************************)
EXTENDS Integers, Sequences

CONSTANT PoolSize       \* ip_pool_size, 254 by default

ASSUME PoolSizeAssumption == PoolSize \in Nat /\ PoolSize >= 2

VARIABLES
  available,            \* the free addresses, a list
  allocated             \* the leased addresses, a set

ipVars == <<available, allocated>>

Addresses == 2..PoolSize

PoolInit ==
  /\ available = [i \in 1..(PoolSize - 1) |-> i + 1]
  /\ allocated = {}

(* Mutant: the head of the list is leased but stays in it.                 *)
AcquireAddressPeeks(a) ==
  /\ available # <<>>
  /\ a = Head(available)
  /\ UNCHANGED available
  /\ allocated' = allocated \union {a}

(* handle_call(:acquire), the clause of a non-empty list: the head of the  *)
(* free list is leased and replied.                                        *)
AcquireAddress(a) ==
  /\ available # <<>>
  /\ a = Head(available)
  /\ available' = Tail(available)
  /\ allocated' = allocated \union {a}

(* The clause of the empty list: {:error, :pool_exhausted}, no change.     *)
Exhausted ==
  /\ available = <<>>
  /\ UNCHANGED ipVars

(* handle_cast({:release, ip}): an address that is not leased is ignored.  *)
ReleaseAddress(a) ==
  \/ /\ a \in allocated
     /\ available' = <<a>> \o available
     /\ allocated' = allocated \ {a}
  \/ /\ a \notin allocated
     /\ UNCHANGED ipVars

PoolNext == \E a \in Addresses : AcquireAddress(a) \/ ReleaseAddress(a) \/ Exhausted

PoolSpec == PoolInit /\ [][PoolNext]_ipVars

-----------------------------------------------------------------------------
PoolTypeOK ==
  /\ available \in Seq(Addresses)
  /\ allocated \subseteq Addresses

Free == {available[i] : i \in DOMAIN available}

(* No sequence of acquires and releases, however often an address is       *)
(* released, makes the pool hand one address to two callers or lose one:   *)
(* the free list has no duplicate, never shares an address with the leased *)
(* set, and together they are all the addresses (ip_pool.ex:25-43).        *)
Partition ==
  /\ \A i, j \in DOMAIN available : available[i] = available[j] => i = j
  /\ Free \intersect allocated = {}
  /\ Free \union allocated = Addresses

(* The pool implements the abstract lease: acquire only ever takes an      *)
(* address nobody holds and takes it out of the free ones for good, and a  *)
(* duplicate or unknown release changes nothing (ip_pool.ex:25-43).        *)
Lease == INSTANCE AddressLease WITH free <- Free, leased <- allocated

ImplementsLease == Lease!Spec
=============================================================================
