-------------------------- MODULE GuestAgentProofs --------------------------
(***************************************************************************)
(* For every set of calls, finite or not, and every MaxConns: the two      *)
(* counters of the guest agent say what they are read for.                 *)
(***************************************************************************)
EXTENDS GuestAgent, FiniteSetTheorems, TLAPS

CountedCalls   == {k \in Calls : Counted(k)}
HandledCalls   == {k \in Calls : Handled(k)}
ExecutingCalls == {k \in Calls : conn[k] = "executing"}

(* The counters, each with the set that it counts.                         *)
Counters ==
  /\ IsFiniteSet(CountedCalls) /\ connCount = Cardinality(CountedCalls)
  /\ IsFiniteSet(ExecutingCalls) /\ inFlight = Cardinality(ExecutingCalls)

(* One connection is between being counted and being admitted or refused.  *)
OneAccepted == \A k \in Calls : conn[k] = "accepted" <=> accepting = k

(* What the acceptor compares with MaxConns may be more than are handled   *)
(* by now, and is never less.                                              *)
Admission ==
  /\ Cardinality(HandledCalls) <= MaxConns
  /\ accepting # NoCall => Cardinality(HandledCalls) + 1 <= current

AgentInv == TypeOK /\ Counters /\ OneAccepted /\ Admission

(* A call has no connection before it dials one.                           *)
Undialled == \A k \in Calls : caller[k] = "idle" => conn[k] = "none"

-----------------------------------------------------------------------------
(* A set that gains or loses one element.                                  *)
LEMMA Gains ==
  ASSUME NEW S, IsFiniteSet(S), NEW T, NEW x, x \notin S, T = S \union {x}
  PROVE  IsFiniteSet(T) /\ Cardinality(T) = Cardinality(S) + 1 /\ Cardinality(S) \in Nat
  BY FS_AddElement, FS_CardinalityType

LEMMA Loses ==
  ASSUME NEW S, IsFiniteSet(S), NEW T, NEW x, x \in S, T = S \ {x}
  PROVE  /\ IsFiniteSet(T) /\ Cardinality(T) = Cardinality(S) - 1
         /\ Cardinality(S) \in Nat /\ Cardinality(T) \in Nat
  BY FS_RemoveElement, FS_CardinalityType

(* The handled connections are those counted, but for the accepted one.    *)
LEMMA HandledFinite ==
  ASSUME IsFiniteSet(CountedCalls)
  PROVE  IsFiniteSet(HandledCalls) /\ Cardinality(HandledCalls) \in Nat
<1>1. HandledCalls \subseteq CountedCalls
  BY DEF HandledCalls, CountedCalls, Handled
<1> QED
  BY <1>1, FS_Subset, FS_CardinalityType

LEMMA AgentInit == Init => AgentInv
<1> SUFFICES ASSUME Init
             PROVE  AgentInv
  OBVIOUS
<1>1. CountedCalls = {} /\ HandledCalls = {} /\ ExecutingCalls = {}
  BY DEF Init, CountedCalls, HandledCalls, ExecutingCalls, Handled, Counted
<1>2. 0 \in 0..Timeout /\ 0 \in 0..KillAfter
  BY AgentAssumption DEF KillAfter
<1>3. TypeOK /\ OneAccepted
  BY <1>2, AgentAssumption DEF Init, TypeOK, OneAccepted
<1> QED
  BY <1>1, <1>3, FS_EmptySet, AgentAssumption DEF Init, AgentInv, Counters, Admission

-----------------------------------------------------------------------------
(* A step that moves a connection within what is counted, handled and      *)
(* executing, or none, changes no counter.                                 *)
LEMMA Unmoved ==
  ASSUME AgentInv, TypeOK', UNCHANGED <<acceptVars, inFlight>>,
         \A k \in Calls : /\ Counted(k)' <=> Counted(k)
                          /\ conn'[k] = "executing" <=> conn[k] = "executing"
                          /\ conn'[k] = "accepted" <=> conn[k] = "accepted"
  PROVE  AgentInv'
<1>1. CountedCalls' = CountedCalls /\ HandledCalls' = HandledCalls /\ ExecutingCalls' = ExecutingCalls
  BY DEF CountedCalls, HandledCalls, ExecutingCalls, Handled
<1> QED
  BY <1>1 DEF AgentInv, Counters, OneAccepted, Admission, acceptVars

LEMMA AcceptInv ==
  ASSUME AgentInv, NEW k \in Calls, Accept(k)
  PROVE  AgentInv'
<1> USE AgentAssumption DEF AgentInv
<1>1. /\ conn[k] = "backlog" /\ conn' = [conn EXCEPT ![k] = "accepted"]
      /\ accepting = NoCall /\ accepting' = k
      /\ connCount' = connCount + 1 /\ current' = connCount + 1 /\ UNCHANGED inFlight
      /\ conn \in [Calls -> {"none", "backlog", "accepted", "refused", "reading", "read",
                             "executing", "writing", "ended", "done"}]
  BY DEF Accept, AcceptFrame, TypeOK
<1>2. TypeOK'
  BY DEF TypeOK, Accept, AcceptFrame, hostVars, procVars, graceVars, clockVars
<1>3. CountedCalls' = CountedCalls \union {k} /\ k \notin CountedCalls
  BY <1>1 DEF CountedCalls, Counted
<1>4. HandledCalls' = HandledCalls /\ ExecutingCalls' = ExecutingCalls
  BY <1>1 DEF HandledCalls, ExecutingCalls, Handled, Counted
<1>5. HandledCalls = CountedCalls
  BY <1>1 DEF HandledCalls, CountedCalls, Handled, OneAccepted
<1>6. Counters'
  BY <1>1, <1>3, <1>4, Gains DEF Counters
<1>7. OneAccepted'
  BY <1>1 DEF OneAccepted
<1>8. Admission'
  BY <1>1, <1>4, <1>5 DEF Admission, Counters
<1> QED
  BY <1>2, <1>6, <1>7, <1>8

LEMMA AdmitInv ==
  ASSUME AgentInv, Admit
  PROVE  AgentInv'
<1> USE AgentAssumption DEF AgentInv
<1>1. /\ accepting \in Calls /\ conn[accepting] = "accepted"
      /\ conn' = [conn EXCEPT ![accepting] = "reading"]
      /\ accepting' = NoCall /\ current <= MaxConns /\ current \in Nat
      /\ UNCHANGED <<connCount, inFlight>>
      /\ conn \in [Calls -> {"none", "backlog", "accepted", "refused", "reading", "read",
                             "executing", "writing", "ended", "done"}]
  BY DEF Admit, AcceptFrame, TypeOK, OneAccepted
<1>2. TypeOK'
  BY <1>1 DEF TypeOK, Admit, AcceptFrame, hostVars, procVars, graceVars, clockVars
<1>3. CountedCalls' = CountedCalls /\ ExecutingCalls' = ExecutingCalls
  BY <1>1 DEF CountedCalls, ExecutingCalls, Counted
<1>4. HandledCalls' = HandledCalls \union {accepting} /\ accepting \notin HandledCalls
  BY <1>1 DEF HandledCalls, Handled, Counted
<1>5. Counters'
  BY <1>1, <1>3 DEF Counters
<1>6. OneAccepted'
  BY <1>1 DEF OneAccepted
<1>7. Cardinality(HandledCalls') = Cardinality(HandledCalls) + 1
  BY <1>4, HandledFinite, Gains DEF Counters
<1>8. Admission'
  BY <1>1, <1>7, HandledFinite DEF Admission, Counters
<1> QED
  BY <1>2, <1>5, <1>6, <1>8

LEMMA RefuseInv ==
  ASSUME AgentInv, Refuse
  PROVE  AgentInv'
<1> USE AgentAssumption DEF AgentInv
<1>1. /\ accepting \in Calls /\ conn[accepting] = "accepted"
      /\ conn' = [conn EXCEPT ![accepting] = "refused"]
      /\ accepting' = NoCall /\ connCount' = connCount - 1 /\ UNCHANGED inFlight
      /\ conn \in [Calls -> {"none", "backlog", "accepted", "refused", "reading", "read",
                             "executing", "writing", "ended", "done"}]
  BY DEF Refuse, AcceptFrame, TypeOK, OneAccepted
<1>2. CountedCalls' = CountedCalls \ {accepting} /\ accepting \in CountedCalls
  BY <1>1 DEF CountedCalls, Counted
<1>3. HandledCalls' = HandledCalls /\ ExecutingCalls' = ExecutingCalls
  BY <1>1 DEF HandledCalls, ExecutingCalls, Handled, Counted
<1>4. Counters' /\ connCount' \in Nat
  BY <1>1, <1>2, <1>3, Loses DEF Counters
<1>5. TypeOK'
  BY <1>1, <1>4 DEF TypeOK, Refuse, AcceptFrame, hostVars, procVars, graceVars, clockVars
<1>6. OneAccepted'
  BY <1>1 DEF OneAccepted
<1>7. Admission'
  BY <1>1, <1>3 DEF Admission
<1> QED
  BY <1>4, <1>5, <1>6, <1>7

LEMMA BeginInv ==
  ASSUME AgentInv, NEW k \in Calls, Begin(k)
  PROVE  AgentInv'
<1> USE DEF AgentInv
<1>1. /\ conn[k] = "read" /\ conn' = [conn EXCEPT ![k] = "executing"]
      /\ UNCHANGED acceptVars /\ inFlight' = inFlight + 1
      /\ conn \in [Calls -> {"none", "backlog", "accepted", "refused", "reading", "read",
                             "executing", "writing", "ended", "done"}]
  BY DEF Begin, ConnFrame, TypeOK
<1>2. TypeOK'
  BY DEF TypeOK, Begin, Dispatch, ConnFrame, acceptVars, clockVars
<1>3. CountedCalls' = CountedCalls /\ HandledCalls' = HandledCalls
  BY <1>1 DEF CountedCalls, HandledCalls, Handled, Counted
<1>4. ExecutingCalls' = ExecutingCalls \union {k} /\ k \notin ExecutingCalls
  BY <1>1 DEF ExecutingCalls
<1>5. Counters'
  BY <1>1, <1>3, <1>4, Gains DEF Counters, acceptVars
<1>6. OneAccepted' /\ Admission'
  BY <1>1, <1>3 DEF OneAccepted, Admission, acceptVars
<1> QED
  BY <1>2, <1>5, <1>6

LEMMA FinishInv ==
  ASSUME AgentInv, NEW k \in Calls, Finish(k)
  PROVE  AgentInv'
<1> USE DEF AgentInv
<1>1. /\ conn[k] = "executing" /\ conn' = [conn EXCEPT ![k] = "writing"]
      /\ UNCHANGED acceptVars /\ inFlight' = inFlight - 1
      /\ conn \in [Calls -> {"none", "backlog", "accepted", "refused", "reading", "read",
                             "executing", "writing", "ended", "done"}]
  BY DEF Finish, ConnFrame, TypeOK
<1>2. CountedCalls' = CountedCalls /\ HandledCalls' = HandledCalls
  BY <1>1 DEF CountedCalls, HandledCalls, Handled, Counted
<1>3. ExecutingCalls' = ExecutingCalls \ {k} /\ k \in ExecutingCalls
  BY <1>1 DEF ExecutingCalls
<1>4. Counters' /\ inFlight' \in Nat
  BY <1>1, <1>2, <1>3, Loses DEF Counters, acceptVars
<1>5. TypeOK'
  BY <1>1, <1>4 DEF TypeOK, Finish, ConnFrame, acceptVars, procVars, graceVars, clockVars
<1>6. OneAccepted' /\ Admission'
  BY <1>1, <1>2 DEF OneAccepted, Admission, acceptVars
<1> QED
  BY <1>4, <1>5, <1>6

LEMMA UncountInv ==
  ASSUME AgentInv, NEW k \in Calls, Uncount(k)
  PROVE  AgentInv'
<1> USE AgentAssumption DEF AgentInv
<1>1. /\ conn[k] = "ended" /\ conn' = [conn EXCEPT ![k] = "done"]
      /\ UNCHANGED <<accepting, current, inFlight>> /\ connCount' = connCount - 1
      /\ current \in Nat
      /\ conn \in [Calls -> {"none", "backlog", "accepted", "refused", "reading", "read",
                             "executing", "writing", "ended", "done"}]
  BY DEF Uncount, TypeOK
<1>2. CountedCalls' = CountedCalls \ {k} /\ k \in CountedCalls
      /\ HandledCalls' = HandledCalls \ {k} /\ k \in HandledCalls
  BY <1>1 DEF CountedCalls, HandledCalls, Handled, Counted
<1>3. ExecutingCalls' = ExecutingCalls
  BY <1>1 DEF ExecutingCalls
<1>4. Counters' /\ connCount' \in Nat
  BY <1>1, <1>2, <1>3, Loses DEF Counters
<1>5. TypeOK'
  BY <1>1, <1>4 DEF TypeOK, Uncount, hostVars, procVars, graceVars, clockVars
<1>6. OneAccepted'
  BY <1>1 DEF OneAccepted
<1>7. /\ Cardinality(HandledCalls') = Cardinality(HandledCalls) - 1
      /\ Cardinality(HandledCalls) \in Nat
  BY <1>2, HandledFinite, Loses DEF Counters
<1>8. Admission'
  BY <1>1, <1>7 DEF Admission
<1> QED
  BY <1>4, <1>5, <1>6, <1>8

(* What the host does, and the rest of a handler.                          *)
LEMMA HostCallInv ==
  ASSUME AgentInv, Undialled, NEW k \in Calls, HostCall(k)
  PROVE  AgentInv'
<1>1. TypeOK'
  BY AgentAssumption DEF AgentInv, TypeOK, HostCall, Dial, Send, GiveUp, Leave, HostFrame,
     acceptVars, procVars, graceVars
<1>2. UNCHANGED <<acceptVars, inFlight>>
  BY DEF HostCall, Dial, Send, GiveUp, Leave, HostFrame
<1>3. CASE UNCHANGED conn
  BY <1>1, <1>2, <1>3, Unmoved DEF Counted
<1>4. CASE Dial(k)
  BY <1>1, <1>2, <1>4, Unmoved DEF Counted, Dial, AgentInv, TypeOK, Undialled
<1> QED
  BY <1>3, <1>4 DEF HostCall, Send, GiveUp, Leave

LEMMA HandlerInv ==
  ASSUME AgentInv, NEW k \in Calls, Handler(k)
  PROVE  AgentInv'
<1>1. ASSUME Read(k) \/ ReadFails(k) \/ Write(k)
      PROVE  AgentInv'
  <2>1. TypeOK'
    BY <1>1 DEF AgentInv, TypeOK, Read, ReadFails, Write, ConnFrame, acceptVars, procVars, graceVars,
       clockVars
  <2>2. UNCHANGED <<acceptVars, inFlight>>
    BY <1>1 DEF Read, ReadFails, Write, ConnFrame
  <2> QED
    BY <1>1, <2>1, <2>2, Unmoved DEF AgentInv, TypeOK, Read, ReadFails, Write, Counted
<1> QED
  BY <1>1, BeginInv, FinishInv, UncountInv DEF Handler

LEMMA UndialledNext ==
  ASSUME AgentInv, Undialled, [Next]_vars
  PROVE  Undialled'
<1> USE DEF AgentInv, TypeOK, OneAccepted, Undialled
<1>1. ASSUME NEW k \in Calls, HostCall(k)
      PROVE  Undialled'
  BY <1>1 DEF HostCall, Dial, Send, GiveUp, Leave
<1>2. ASSUME NEW k \in Calls, Handler(k) \/ Accept(k)
      PROVE  Undialled'
  BY <1>2 DEF Handler, Read, ReadFails, Begin, Finish, Write, Uncount, ConnFrame,
     Accept, AcceptFrame, hostVars
<1>3. CASE Admit \/ Refuse
  BY <1>3, AgentAssumption DEF Admit, Refuse, AcceptFrame, hostVars
<1>4. ASSUME UNCHANGED <<caller, conn>>
      PROVE  Undialled'
  BY <1>4
<1>5. ASSUME NEW k \in Calls, Command(k) \/ Shutdown(k)
      PROVE  UNCHANGED <<caller, conn>>
  BY <1>5 DEF Command, ProcExits, ProcKilled, ProcGone, ChildEnds, ProcFrame,
     Shutdown, GraceExpires, PollEnds, PowerOff, GraceFrame, hostVars
<1> QED
  BY <1>1, <1>2, <1>3, <1>4, <1>5 DEF Next, Tick, vars, hostVars

(* Time does not pass beyond a deadline.                                   *)
LEMMA ClocksBounded ==
  ASSUME AgentInv, Tick
  PROVE  waited' \in [Calls -> 0..Timeout] /\ elapsed' \in [Calls -> 0..KillAfter]
<1>1. waited \in [Calls -> 0..Timeout] /\ elapsed \in [Calls -> 0..KillAfter]
  BY DEF AgentInv, TypeOK
<1>2. Timeout \in Nat /\ KillAfter \in Nat
  BY AgentAssumption DEF KillAfter
<1>3. ASSUME NEW k \in Calls
      PROVE  /\ (IF Waits(k) THEN waited[k] + 1 ELSE waited[k]) \in 0..Timeout
             /\ (IF Runs(k) THEN elapsed[k] + 1 ELSE elapsed[k]) \in 0..KillAfter
  BY <1>1, <1>2 DEF Tick
<1> QED
  BY <1>3 DEF Tick

LEMMA AgentNext == AgentInv /\ Undialled /\ [Next]_vars => AgentInv'
<1> SUFFICES ASSUME AgentInv, Undialled, [Next]_vars
             PROVE  AgentInv'
  OBVIOUS
<1>1. ASSUME NEW k \in Calls, Command(k) \/ Shutdown(k)
      PROVE  AgentInv'
  <2>1. UNCHANGED <<conn, acceptVars, inFlight>>
    BY <1>1 DEF Command, ProcExits, ProcKilled, ProcGone, ChildEnds, ProcFrame,
       Shutdown, GraceExpires, PollEnds, PowerOff, GraceFrame
  <2>2. 0 \in 0..KillAfter
    BY AgentAssumption DEF KillAfter
  <2>3. TypeOK'
    BY <1>1, <2>1, <2>2 DEF AgentInv, TypeOK, Command, ProcExits, ProcKilled, ProcGone, ChildEnds,
       ProcFrame, Shutdown, GraceExpires, PollEnds, PowerOff, GraceFrame,
       hostVars, acceptVars, procVars, graceVars, clockVars
  <2> QED
    BY <2>1, <2>3, Unmoved DEF Counted
<1>2. CASE Tick
  <2>1. UNCHANGED <<conn, acceptVars, inFlight>>
    BY <1>2 DEF Tick
  <2>2. TypeOK'
    BY <1>2, ClocksBounded DEF AgentInv, TypeOK, Tick, hostVars, acceptVars, procVars, graceVars
  <2> QED
    BY <2>1, <2>2, Unmoved DEF Counted
<1>3. CASE UNCHANGED vars
  <2>1. TypeOK'
    BY <1>3 DEF AgentInv, TypeOK, vars, hostVars, acceptVars, procVars, graceVars, clockVars
  <2> QED
    BY <1>3, <2>1, Unmoved DEF Counted, vars
<1> QED
  BY <1>1, <1>2, <1>3, HostCallInv, AcceptInv, AdmitInv, RefuseInv, HandlerInv DEF Next

LEMMA AgentAlways == Spec => []AgentInv
<1>1. Init => Undialled
  BY DEF Init, Undialled
<1>2. AgentInv /\ Undialled /\ [Next]_vars => Undialled'
  BY UndialledNext
<1> QED
  BY <1>1, <1>2, AgentInit, AgentNext, PTL DEF Spec

-----------------------------------------------------------------------------
(* The types hold in every state of the agent and its callers; the two     *)
(* counters never go below zero.                                           *)
THEOREM AgentTypes == Spec => []TypeOK
<1>1. AgentInv => TypeOK
  BY DEF AgentInv
<1> QED
  BY <1>1, AgentAlways, PTL

(* However accepting, refusing and closing interleave, connCount is the    *)
(* number of connections not let go of, and no more than MaxConns are      *)
(* handled at a time: comparing the result of the addition, and not the    *)
(* counter read again, is enough (zypi-agent.go:168-180).                  *)
THEOREM CountsConnections == Spec => []ConnectionsCounted
<1>1. AgentInv => ConnectionsCounted
  BY DEF AgentInv, Counters, Admission, ConnectionsCounted, CountedCalls, HandledCalls
<1> QED
  BY <1>1, AgentAlways, PTL

(* A shutdown goes on only when no request is executing, or after its 10 s *)
(* (zypi-agent.go:231-233, 444): that inFlight is zero says so, for        *)
(* whatever requests other connections begin and finish meanwhile.         *)
THEOREM ShutdownWaits == Spec => GraceKept
<1>1. AgentInv /\ [Next]_vars =>
        [\A k \in Calls : grace[k] = "polling" /\ grace'[k] = "syncing" =>
           k \in expired \/ \A j \in Calls : conn[j] # "executing"]_vars
  <2> SUFFICES ASSUME AgentInv, Next,
                      NEW k \in Calls, grace[k] = "polling", grace'[k] = "syncing"
               PROVE  k \in expired \/ \A j \in Calls : conn[j] # "executing"
    OBVIOUS
  <2>1. PollEnds(k)
    <3>1. grace \in [Calls -> {"none", "polling", "syncing"}]
      BY DEF AgentInv, TypeOK
    <3>2. ASSUME NEW j \in Calls, PollEnds(j)
          PROVE  j = k
      BY <3>1, <3>2 DEF PollEnds
    <3>3. ASSUME NEW j \in Calls, Begin(j)
          PROVE  FALSE
      BY <3>1, <3>3 DEF Begin, Dispatch
    <3>4. ASSUME NEW j \in Calls,
                 \/ HostCall(j) \/ Accept(j) \/ Command(j)
                 \/ Read(j) \/ ReadFails(j) \/ Finish(j) \/ Write(j) \/ Uncount(j)
                 \/ GraceExpires(j) \/ PowerOff(j)
          PROVE  UNCHANGED grace
      BY <3>4 DEF HostCall, Dial, Send, GiveUp, Leave, HostFrame, Accept, AcceptFrame,
         Command, ProcExits, ProcKilled, ProcGone, ChildEnds, ProcFrame,
         Read, ReadFails, Finish, Write, Uncount, GraceExpires, PowerOff, graceVars
    <3>5. ASSUME Admit \/ Refuse \/ Tick
          PROVE  UNCHANGED grace
      BY <3>5 DEF Admit, Refuse, AcceptFrame, Tick, graceVars
    <3> QED
      BY <3>2, <3>3, <3>4, <3>5 DEF Next, Handler, Shutdown
  <2>2. CASE inFlight = 0
    <3>1. ExecutingCalls = {}
      BY <2>2, FS_EmptySet DEF AgentInv, Counters
    <3> QED
      BY <3>1 DEF ExecutingCalls
  <2> QED
    BY <2>1, <2>2 DEF PollEnds
<1> QED
  BY <1>1, AgentAlways, PTL DEF Spec, GraceKept
=============================================================================
