---------------------------- MODULE AddressLease ----------------------------
(***************************************************************************)
(* What an address pool promises to the callers of IPPool.acquire and      *)
(* IPPool.release: an address is handed out only while it is free, it is   *)
(* free again when it is given back, and nothing else changes who has what.*)
(* How the pool stores the free addresses and in which order it reissues   *)
(* them is not part of it.                                                 *)
(***************************************************************************)
CONSTANT Addresses

VARIABLES
  free,       \* the addresses that may be handed out
  leased      \* the addresses that somebody holds

Init == free = Addresses /\ leased = {}

Take(a) ==
  /\ a \in free
  /\ free' = free \ {a}
  /\ leased' = leased \union {a}

GiveBack(a) ==
  /\ a \in leased
  /\ free' = free \union {a}
  /\ leased' = leased \ {a}

Next == \E a \in Addresses : Take(a) \/ GiveBack(a)

Spec == Init /\ [][Next]_<<free, leased>>
=============================================================================
