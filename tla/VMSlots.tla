------------------------------ MODULE VMSlots ------------------------------
(***************************************************************************)
(* What a pool of VMs promises to the runs that use it.  A VM is offered   *)
(* once, when it is new.  It goes to one run, and to the next only through *)
(* a recycle that begins when the run has ended.  What is gone never comes *)
(* back, and no run loses its VM but to an operator.                       *)
(***************************************************************************)
CONSTANTS VMs, Containers, NoContainer,
  Destroyable       \* the VMs an operator may take away from a run

VARIABLES
  slot,             \* VMs -> "new", "warm", "assigned", "recycling" or "gone"
  holder,           \* VMs -> the run it was assigned to
  using             \* the runs that were given a VM and have not ended

Init ==
  /\ slot = [v \in VMs |-> "new"]
  /\ holder = [v \in VMs |-> NoContainer]
  /\ using = {}

Offer(v) ==
  /\ slot[v] = "new"
  /\ slot' = [slot EXCEPT ![v] = "warm"]
  /\ UNCHANGED <<holder, using>>

(* The run may have given up.                                              *)
Assign(v, c) ==
  /\ slot[v] = "warm"
  /\ c \notin using /\ \A u \in VMs : holder[u] # c
  /\ slot' = [slot EXCEPT ![v] = "assigned"]
  /\ holder' = [holder EXCEPT ![v] = c]
  /\ using' \in {using, using \union {c}}

End(c) ==
  /\ c \in using
  /\ using' = using \ {c}
  /\ UNCHANGED <<slot, holder>>

Return(v) ==
  /\ slot[v] = "assigned" /\ holder[v] \notin using
  /\ slot' = [slot EXCEPT ![v] = "recycling"]
  /\ UNCHANGED <<holder, using>>

Renew(v) ==
  /\ slot[v] = "recycling"
  /\ slot' = [slot EXCEPT ![v] = "warm"]
  /\ holder' = [holder EXCEPT ![v] = NoContainer]
  /\ UNCHANGED using

Lose(D) ==
  /\ \A v \in D : /\ slot[v] \notin {"new", "gone"}
                  /\ holder[v] \in using => v \in Destroyable
  /\ slot' = [v \in VMs |-> IF v \in D THEN "gone" ELSE slot[v]]
  /\ holder' = [v \in VMs |-> IF v \in D THEN NoContainer ELSE holder[v]]
  /\ UNCHANGED using

Next ==
  \/ \E v \in VMs : Offer(v) \/ Return(v) \/ Renew(v)
  \/ \E v \in VMs, c \in Containers : Assign(v, c)
  \/ \E c \in Containers : End(c)
  \/ \E D \in SUBSET VMs : Lose(D)

Spec == Init /\ [][Next]_<<slot, holder, using>>
=============================================================================
