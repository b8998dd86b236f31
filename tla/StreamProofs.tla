---------------------------- MODULE StreamProofs ----------------------------
(***************************************************************************)
(* For any number of clients, chunks, starts and restarts and any size of  *)
(* the buffer: an attached request misses nothing that the log shows, and  *)
(* gets it in order.                                                       *)
(***************************************************************************)
EXTENDS OutputStreams, TLAPS

(* Each chunk in s was written and comes before all that is still to be    *)
(* handled.                                                                *)
Before(s, last, box) ==
  \A i \in DOMAIN s : s[i] # Exit =>
    /\ s[i] <= last
    /\ \A j \in DOMAIN box : box[j] # Exit => s[i] < box[j]

Handled(s) == Before(s, written, mailbox)

(* The chunks are kept with the newest first.                              *)
Kept ==
  /\ Handled(outputs)
  /\ \A i, j \in DOMAIN outputs : i < j => outputs[j] < outputs[i]

Waiting ==
  /\ InOrder(mailbox)
  /\ \A i \in DOMAIN mailbox : mailbox[i] <= written

Complete(c) ==
  pc[c] = "streaming" /\ c \in subscribers =>
    ToSet(outputs) \subseteq ToSet(snapshot[c]) \union ToSet(Sent(c))

Ordered(c) == Handled(Sent(c)) /\ InOrder(Sent(c)) /\ InOrder(snapshot[c])

StreamInv ==
  /\ TypeOK /\ ports <= starts
  /\ Kept /\ Waiting
  /\ \A c \in Clients : Complete(c) /\ Ordered(c)

Lines == Chunks \union {Exit}

LEMMA StreamInvWhole == StreamInv => StreamWhole
  BY DEF StreamInv, StreamWhole, Complete, Ordered

-----------------------------------------------------------------------------
(* Sequences of lines.                                                     *)
LEMMA LinesNat == ASSUME NEW s \in Seq(Lines) PROVE s \in Seq(Nat)
  BY StreamAssumption DEF Lines, Chunks, Exit

LEMMA AppendOrder ==
  ASSUME NEW s \in Seq(Nat), NEW m \in Nat, InOrder(s),
         m # Exit => \A i \in DOMAIN s : s[i] # Exit => s[i] < m
  PROVE  InOrder(Append(s, m))
  BY DEF InOrder, Exit

LEMMA TailOrder ==
  ASSUME NEW s \in Seq(Nat), s # <<>>, InOrder(s)
  PROVE  /\ InOrder(Tail(s))
         /\ Head(s) # Exit => \A i \in DOMAIN Tail(s) : Tail(s)[i] # Exit => Head(s) < Tail(s)[i]
<1>1. /\ Tail(s) \in Seq(Nat) /\ Len(Tail(s)) = Len(s) - 1 /\ Head(s) = s[1]
      /\ Len(s) \in Nat /\ Len(s) > 0
      /\ \A i \in 1 .. Len(Tail(s)) : Tail(s)[i] = s[i + 1]
  OBVIOUS
<1>2. \A i, j \in 1 .. Len(s) : i < j /\ s[i] # Exit /\ s[j] # Exit => s[i] < s[j]
  BY DEF InOrder
<1>3. \A i \in 1 .. Len(Tail(s)) : i + 1 \in 1 .. Len(s) /\ 1 < i + 1
  BY <1>1
<1>4. InOrder(Tail(s))
  BY <1>1, <1>2, <1>3 DEF InOrder
<1> QED
  BY <1>1, <1>2, <1>3, <1>4

LEMMA RelayKeeps ==
  ASSUME NEW r \in Seq(Nat), NEW q \in Seq(Nat), q # <<>>
  PROVE  Append(r, Head(q)) \o Tail(q) = r \o q
<1>1. /\ Append(r, Head(q)) \o Tail(q) \in Seq(Nat) /\ r \o q \in Seq(Nat)
      /\ Len(Append(r, Head(q)) \o Tail(q)) = Len(r \o q)
  OBVIOUS
<1>2. \A i \in 1 .. Len(r \o q) : (Append(r, Head(q)) \o Tail(q))[i] = (r \o q)[i]
  OBVIOUS
<1> QED
  BY <1>1, <1>2

LEMMA AppendSent ==
  ASSUME NEW r \in Seq(Nat), NEW q \in Seq(Nat), NEW m \in Nat
  PROVE  r \o Append(q, m) = Append(r \o q, m)
<1>1. /\ r \o Append(q, m) \in Seq(Nat) /\ Append(r \o q, m) \in Seq(Nat)
      /\ Len(r \o Append(q, m)) = Len(Append(r \o q, m))
  OBVIOUS
<1>2. \A i \in 1 .. Len(r) + Len(q) + 1 : (r \o Append(q, m))[i] = Append(r \o q, m)[i]
  OBVIOUS
<1> QED
  BY <1>1, <1>2

(* Exits may follow anything.                                              *)
LEMMA ExitsOrder ==
  ASSUME NEW s \in Seq(Nat), NEW n \in Nat, InOrder(s)
  PROVE  InOrder(s \o [i \in 1 .. n |-> Exit])
  BY DEF InOrder, Exit

LEMMA BeforeLater ==
  ASSUME NEW s \in Seq(Nat), NEW last \in Nat, NEW next \in Nat, last <= next,
         NEW box \in Seq(Nat), NEW later \in Seq(Nat), Before(s, last, box),
         \A j \in DOMAIN later : later[j] # Exit =>
           last < later[j] \/ \E k \in DOMAIN box : box[k] = later[j]
  PROVE  Before(s, next, later)
<1> SUFFICES ASSUME NEW i \in DOMAIN s, s[i] # Exit
             PROVE  s[i] <= next /\ \A j \in DOMAIN later : later[j] # Exit => s[i] < later[j]
  BY DEF Before
<1>1. s[i] \in Nat /\ s[i] <= last /\ \A k \in DOMAIN box : box[k] # Exit => s[i] < box[k]
  BY DEF Before
<1>2. ASSUME NEW j \in DOMAIN later, later[j] # Exit
      PROVE  s[i] < later[j]
  <2>1. later[j] \in Nat
    OBVIOUS
  <2>2. CASE last < later[j]
    BY <1>1, <2>1, <2>2
  <2>3. CASE \E k \in DOMAIN box : box[k] = later[j]
    BY <1>1, <1>2, <2>3
  <2> QED
    BY <1>2, <2>2, <2>3
<1> QED
  BY <1>1, <1>2

-----------------------------------------------------------------------------
(* What a step does to the mailbox.                                        *)
Later ==
  /\ written' \in Nat /\ written <= written'
  /\ \A j \in DOMAIN mailbox' : mailbox'[j] # Exit =>
       written < mailbox'[j] \/ \E k \in DOMAIN mailbox : mailbox[k] = mailbox'[j]
  /\ Waiting'

LEMMA TypesNat ==
  ASSUME TypeOK
  PROVE  /\ written \in Nat /\ ports \in Nat /\ starts \in Nat
         /\ mailbox \in Seq(Nat) /\ outputs \in Seq(Nat)
         /\ \A c \in Clients : /\ inbox[c] \in Seq(Nat) /\ relayed[c] \in Seq(Nat)
                               /\ snapshot[c] \in Seq(Nat) /\ Sent(c) \in Seq(Nat)
<1> USE StreamAssumption DEF TypeOK
<1>1. written \in Nat /\ ports \in Nat /\ starts \in Nat
  OBVIOUS
<1>2. mailbox \in Seq(Nat)
  BY LinesNat DEF Lines
<1>3. outputs \in Seq(Nat)
  BY DEF Chunks
<1>4. ASSUME NEW c \in Clients
      PROVE  /\ inbox[c] \in Seq(Nat) /\ relayed[c] \in Seq(Nat)
             /\ snapshot[c] \in Seq(Nat) /\ Sent(c) \in Seq(Nat)
  <2>1. inbox[c] \in Seq(Lines) /\ relayed[c] \in Seq(Lines) /\ snapshot[c] \in Seq(Lines)
    BY DEF Lines
  <2> QED
    BY <2>1, LinesNat DEF Sent
<1> QED
  BY <1>1, <1>2, <1>3, <1>4

LEMMA LaterWrites ==
  ASSUME StreamInv, VMWrites
  PROVE  Later
<1>1. written \in Nat /\ mailbox \in Seq(Nat)
  BY TypesNat DEF StreamInv
<1>2. written' = written + 1 /\ mailbox' = Append(mailbox, written + 1)
  BY DEF VMWrites
<1>3. InOrder(mailbox')
  BY <1>1, <1>2, AppendOrder DEF StreamInv, Waiting
<1> QED
  BY <1>1, <1>2, <1>3 DEF Later, StreamInv, Waiting

LEMMA LaterExits ==
  ASSUME StreamInv, written' = written, NEW n \in Nat,
         mailbox' = mailbox \o [i \in 1 .. n |-> Exit]
  PROVE  Later
<1>1. written \in Nat /\ mailbox \in Seq(Nat)
  BY TypesNat DEF StreamInv
<1>2. InOrder(mailbox')
  BY <1>1, ExitsOrder DEF StreamInv, Waiting
<1>3. \A j \in DOMAIN mailbox' :
        \/ j \in DOMAIN mailbox /\ mailbox'[j] = mailbox[j]
        \/ mailbox'[j] = Exit
  BY <1>1
<1> QED
  BY <1>1, <1>2, <1>3 DEF Later, StreamInv, Waiting, Exit

LEMMA LaterHandles ==
  ASSUME StreamInv, written' = written, mailbox # <<>>, mailbox' = Tail(mailbox)
  PROVE  Later
<1>1. written \in Nat /\ mailbox \in Seq(Nat)
  BY TypesNat DEF StreamInv
<1>2. InOrder(mailbox')
  BY <1>1, TailOrder DEF StreamInv, Waiting
<1>3. \A j \in DOMAIN mailbox' : j + 1 \in DOMAIN mailbox /\ mailbox'[j] = mailbox[j + 1]
  BY <1>1
<1> QED
  BY <1>1, <1>2, <1>3 DEF Later, StreamInv, Waiting

LEMMA LaterSame ==
  ASSUME StreamInv, written' = written, mailbox' = mailbox \/ mailbox' = <<>>
  PROVE  Later
  BY TypesNat DEF Later, StreamInv, Waiting, InOrder

-----------------------------------------------------------------------------
LEMMA HandledLater ==
  ASSUME StreamInv, TypeOK', Later, NEW s \in Seq(Nat), Handled(s)
  PROVE  Before(s, written', mailbox')
<1>1. written \in Nat /\ mailbox \in Seq(Nat) /\ mailbox' \in Seq(Nat)
  <2>1. mailbox' \in Seq(Nat)
    BY LinesNat DEF TypeOK, Lines
  <2> QED
    BY <2>1, TypesNat DEF StreamInv
<1> QED
  BY <1>1, BeforeLater DEF Later, Handled

LEMMA KeptLater ==
  ASSUME StreamInv, TypeOK', Later, outputs' = outputs \/ outputs' = <<>>
  PROVE  Kept'
<1>1. CASE outputs' = outputs
  BY <1>1, TypesNat, HandledLater DEF StreamInv, Kept, Handled
<1>2. CASE outputs' = <<>>
  BY <1>2 DEF Kept, Handled, Before
<1> QED
  BY <1>1, <1>2

LEMMA OrderedLater ==
  ASSUME StreamInv, TypeOK', Later, NEW c \in Clients,
         Sent(c)' = Sent(c), snapshot'[c] = snapshot[c]
  PROVE  Ordered(c)'
  BY TypesNat, HandledLater DEF StreamInv, Ordered, Handled, Sent

LEMMA CompleteLater ==
  ASSUME StreamInv, NEW c \in Clients, outputs' = outputs \/ outputs' = <<>>,
         Sent(c)' = Sent(c), snapshot'[c] = snapshot[c],
         pc'[c] = "streaming" /\ c \in subscribers' => pc[c] = "streaming" /\ c \in subscribers
  PROVE  Complete(c)'
  BY DEF StreamInv, Complete, ToSet

(* The steps that leave alone what was sent and read.                      *)
LEMMA QuietStep ==
  ASSUME StreamInv, TypeOK', ports' <= starts', Later,
         UNCHANGED <<inbox, relayed, snapshot>>, outputs' = outputs \/ outputs' = <<>>,
         \A c \in Clients : pc'[c] = "streaming" /\ c \in subscribers' =>
                             pc[c] = "streaming" /\ c \in subscribers
  PROVE  StreamInv'
<1>1. \A c \in Clients : Sent(c)' = Sent(c) /\ snapshot'[c] = snapshot[c]
  BY DEF Sent
<1>2. Kept' /\ Waiting'
  BY KeptLater DEF Later
<1>3. \A c \in Clients : Complete(c)' /\ Ordered(c)'
  BY <1>1, CompleteLater, OrderedLater
<1> QED
  BY <1>2, <1>3 DEF StreamInv

-----------------------------------------------------------------------------
(* The types.                                                              *)
LEMMA VMTypes ==
  ASSUME StreamInv, VMWrites \/ VMExits
  PROVE  TypeOK' /\ ports' <= starts'
<1> USE StreamAssumption DEF StreamInv, TypeOK, VMFrame, clientVars
<1>1. CASE VMWrites
  <2>1. written' \in 0 .. MaxChunks /\ written + 1 \in Chunks
    BY <1>1 DEF VMWrites, Chunks
  <2>2. mailbox' \in Seq(Chunks \union {Exit})
    BY <1>1, <2>1 DEF VMWrites
  <2> QED
    BY <1>1, <2>1, <2>2 DEF VMWrites
<1>2. CASE VMExits
  <2>1. mailbox' \in Seq(Chunks \union {Exit}) /\ ports' \in 0 .. MaxStarts /\ ports' <= starts
    BY <1>2 DEF VMExits
  <2> QED
    BY <1>2, <2>1 DEF VMExits
<1> QED
  BY <1>1, <1>2

LEMMA ExitsTyped ==
  ASSUME TypeOK, NEW n \in Nat
  PROVE  mailbox \o [i \in 1 .. n |-> Exit] \in Seq(Chunks \union {Exit})
<1>1. [i \in 1 .. n |-> Exit] \in Seq(Chunks \union {Exit})
  OBVIOUS
<1> QED
  BY <1>1 DEF TypeOK

LEMMA CallTypes ==
  ASSUME StreamInv, Start \/ Stop \/ Destroy \/ Restart
  PROVE  TypeOK' /\ ports' <= starts'
<1> USE StreamAssumption DEF StreamInv, TypeOK, CallFrame, clientVars
<1>1. CASE Start
  BY <1>1 DEF Start
<1>2. CASE Stop
  <2>1. /\ mailbox' \in Seq(Chunks \union {Exit})
        /\ ports' \in 0 .. MaxStarts /\ ports' <= starts
    <3>1. CASE UNCHANGED <<ports, mailbox>>
      BY <3>1
    <3>2. ASSUME NEW late \in 0 .. 1, Killed(IF ports = 0 THEN 0 ELSE ports - late)
          PROVE  <2>1!:
      <4>1. (IF ports = 0 THEN 0 ELSE ports - late) \in Nat
        OBVIOUS
      <4> QED
        BY <3>2, <4>1, ExitsTyped DEF Killed
    <3> QED
      BY <1>2, <3>1, <3>2 DEF Stop
  <2>2. status' \in {"created", "running", "stopped", "exited", "absent"} /\ vm_state' \in BOOLEAN
    BY <1>2 DEF Stop
  <2> QED
    BY <1>2, <2>1, <2>2 DEF Stop
<1>3. CASE Destroy
  <2>1. mailbox' \in Seq(Chunks \union {Exit}) /\ ports' = 0
    BY <1>3, ExitsTyped DEF Destroy, Killed
  <2> QED
    BY <1>3, <2>1 DEF Destroy
<1>4. CASE Restart
  <2>1. status' \in {"created", "running", "stopped", "exited", "absent"}
    BY <1>4 DEF Restart
  <2>2. pc' \in [Clients -> {"new", "attaching", "subscribed", "streaming", "gone"}]
    BY <1>4 DEF Restart
  <2>3. restarts' \in 0 .. MaxRestarts
    BY <1>4 DEF Restart
  <2>4. /\ outputs' \in Seq(Chunks) /\ Len(outputs') <= BufferSize
        /\ mailbox' \in Seq(Chunks \union {Exit})
    BY <1>4 DEF Restart
  <2>5. ports' \in 0 .. MaxStarts /\ ports' <= starts' /\ vm_state' \in BOOLEAN
    <3>1. ports' = 0 /\ starts' = starts /\ vm_state' = FALSE
      BY <1>4 DEF Restart
    <3>2. starts \in Nat /\ MaxStarts \in Nat
      BY TypesNat
    <3>3. 0 \in 0 .. MaxStarts /\ 0 <= starts
      BY <3>2
    <3> HIDE DEF StreamInv, TypeOK
    <3> QED
      BY <3>1, <3>3
  <2> QED
    BY <1>4, <2>1, <2>2, <2>3, <2>4, <2>5 DEF Restart
<1> QED
  BY <1>1, <1>2, <1>3, <1>4

LEMMA BufferTyped ==
  ASSUME TypeOK, NEW data \in Chunks, BufferOutput(data)
  PROVE  /\ outputs' \in Seq(Chunks) /\ Len(outputs') <= BufferSize /\ Len(outputs') > 0
         /\ outputs'[1] = data
         /\ \A i \in DOMAIN outputs' : i > 1 => i - 1 \in DOMAIN outputs /\ outputs'[i] = outputs[i - 1]
<1> DEFINE buffer == <<data>> \o outputs
<1>1. /\ outputs \in Seq(Chunks) /\ Len(outputs) <= BufferSize /\ BufferSize \in Nat \ {0}
  BY StreamAssumption DEF TypeOK
<1>2. /\ buffer \in Seq(Chunks) /\ Len(buffer) = Len(outputs) + 1
      /\ buffer[1] = data
      /\ \A i \in DOMAIN buffer : i > 1 => i - 1 \in DOMAIN outputs /\ buffer[i] = outputs[i - 1]
  BY <1>1
<1>3. outputs' = IF Len(buffer) > BufferSize THEN Front(buffer) ELSE buffer
  BY DEF BufferOutput
<1> HIDE DEF buffer
<1>4. CASE Len(buffer) > BufferSize
  <2>1. Len(buffer) - 1 = BufferSize
    BY <1>1, <1>2, <1>4
  <2>2. outputs' = SubSeq(buffer, 1, BufferSize)
    BY <1>3, <1>4, <2>1 DEF Front
  <2>3. /\ outputs' \in Seq(Chunks) /\ Len(outputs') = BufferSize
        /\ \A i \in 1 .. BufferSize : outputs'[i] = buffer[i]
    BY <1>1, <1>2, <2>1, <2>2
  <2> QED
    BY <1>1, <1>2, <2>1, <2>3
<1>5. CASE ~(Len(buffer) > BufferSize)
  BY <1>1, <1>2, <1>3, <1>5
<1> QED
  BY <1>4, <1>5

LEMMA BroadcastTyped ==
  ASSUME TypeOK, NEW data \in Lines, BroadcastOutput(data)
  PROVE  inbox' \in [Clients -> Seq(Chunks \union {Exit})]
  BY DEF TypeOK, BroadcastOutput, Lines

LEMMA HandleTypes ==
  ASSUME StreamInv, HandleData \/ HandleExit
  PROVE  TypeOK' /\ ports' <= starts'
<1> USE DEF StreamInv, TypeOK, HandleFrame, vmVars
<1>1. mailbox' \in Seq(Chunks \union {Exit}) /\ Head(mailbox) \in Lines
  <2>1. mailbox # <<>> /\ mailbox' = Tail(mailbox)
    BY DEF HandleData, HandleExit
  <2>2. mailbox \in Seq(Lines)
    BY DEF Lines
  <2> QED
    BY <2>1, <2>2 DEF Lines
<1>2. CASE HandleData
  <2>1. Head(mailbox) \in Chunks
    BY <1>1, <1>2 DEF HandleData, Lines
  <2>2. /\ outputs' \in Seq(Chunks) /\ Len(outputs') <= BufferSize
        /\ inbox' \in [Clients -> Seq(Chunks \union {Exit})]
    BY <1>1, <1>2, <2>1, BufferTyped, BroadcastTyped DEF HandleData
  <2> QED
    BY <1>1, <1>2, <2>2 DEF HandleData
<1>3. CASE HandleExit
  <2>1. inbox' \in [Clients -> Seq(Chunks \union {Exit})]
    BY <1>1, <1>3, BroadcastTyped DEF HandleExit, Lines
  <2> QED
    BY <1>1, <1>3, <2>1 DEF HandleExit
<1> QED
  BY <1>2, <1>3

LEMMA RequestTypes ==
  ASSUME StreamInv, NEW c \in Clients, Request(c) \/ Unsubscribe(c)
  PROVE  TypeOK' /\ ports' <= starts'
<1> USE DEF StreamInv, TypeOK, RequestFrame, vmVars
<1>1. CASE Attach(c) \/ Subscribe(c) \/ HangUp(c) \/ Unsubscribe(c)
  BY <1>1 DEF Attach, Subscribe, HangUp, Unsubscribe
<1>2. CASE GetOutput(c)
  <2>1. Reverse(outputs) \in Seq(Chunks)
    BY DEF Reverse
  <2> QED
    BY <1>2, <2>1 DEF GetOutput
<1>3. CASE Relay(c)
  <2>1. inbox[c] \in Seq(Chunks \union {Exit}) /\ relayed[c] \in Seq(Chunks \union {Exit})
    OBVIOUS
  <2>2. /\ Tail(inbox[c]) \in Seq(Chunks \union {Exit})
        /\ Append(relayed[c], Head(inbox[c])) \in Seq(Chunks \union {Exit})
    BY <1>3, <2>1 DEF Relay
  <2> QED
    BY <1>3, <2>2 DEF Relay
<1> QED
  BY <1>1, <1>2, <1>3 DEF Request

-----------------------------------------------------------------------------
(* The steps that do change what was sent and read.                        *)

(* A line is appended to what was sent to a subscriber.                    *)
LEMMA BroadcastSent ==
  ASSUME TypeOK, NEW data \in Lines, BroadcastOutput(data), UNCHANGED relayed,
         NEW c \in Clients
  PROVE  \/ Sent(c)' = Sent(c) /\ ~(c \in subscribers /\ Alive(c))
         \/ Sent(c)' = Append(Sent(c), data)
<1>1. /\ inbox[c] \in Seq(Nat) /\ relayed[c] \in Seq(Nat) /\ data \in Nat
  BY TypesNat, StreamAssumption DEF Lines, Chunks, Exit
<1>2. CASE c \in subscribers /\ Alive(c)
  <2>1. inbox'[c] = Append(inbox[c], data)
    BY <1>2 DEF BroadcastOutput
  <2> QED
    BY <1>1, <2>1, AppendSent DEF Sent
<1>3. CASE ~(c \in subscribers /\ Alive(c))
  <2>1. inbox'[c] = inbox[c]
    BY <1>3 DEF BroadcastOutput
  <2> QED
    BY <1>3, <2>1 DEF Sent
<1> QED
  BY <1>2, <1>3

LEMMA HandleOrdered ==
  ASSUME StreamInv, TypeOK', Later, mailbox # <<>>, mailbox' = Tail(mailbox),
         written' = written, BroadcastOutput(Head(mailbox)), UNCHANGED <<relayed, snapshot>>,
         NEW c \in Clients
  PROVE  Ordered(c)'
<1> DEFINE data == Head(mailbox)
<1>1. /\ mailbox \in Seq(Lines) /\ data \in Lines /\ data \in Nat /\ data = mailbox[1]
      /\ Sent(c) \in Seq(Nat) /\ mailbox \in Seq(Nat) /\ 1 \in DOMAIN mailbox /\ written \in Nat
  <2>1. mailbox \in Seq(Lines)
    BY DEF StreamInv, TypeOK, Lines
  <2>2. Sent(c) \in Seq(Nat) /\ mailbox \in Seq(Nat) /\ written \in Nat
    BY TypesNat DEF StreamInv
  <2> QED
    BY <2>1, <2>2
<1>2. Handled(Sent(c)) /\ InOrder(Sent(c)) /\ InOrder(snapshot[c])
  BY DEF StreamInv, Ordered
<1>3. CASE Sent(c)' = Sent(c)
  BY <1>3, OrderedLater
<1>4. CASE Sent(c)' = Append(Sent(c), data)
  <2>1. data # Exit => \A i \in DOMAIN Sent(c) : Sent(c)[i] # Exit => Sent(c)[i] < data
    BY <1>1, <1>2 DEF Handled, Before
  <2>2. InOrder(Append(Sent(c), data))
    BY <1>1, <1>2, <2>1, AppendOrder
  <2>3. Before(Sent(c), written', mailbox')
    BY <1>1, <1>2, HandledLater
  <2>4. data # Exit =>
          data <= written /\ \A j \in DOMAIN mailbox' : mailbox'[j] # Exit => data < mailbox'[j]
    BY <1>1, TailOrder DEF StreamInv, Waiting
  <2>5. \A i \in DOMAIN Append(Sent(c), data) :
          \/ i \in DOMAIN Sent(c) /\ Append(Sent(c), data)[i] = Sent(c)[i]
          \/ Append(Sent(c), data)[i] = data
    BY <1>1
  <2>6. Before(Append(Sent(c), data), written', mailbox')
    BY <2>3, <2>4, <2>5 DEF Before
  <2> QED
    BY <1>2, <1>4, <2>2, <2>6 DEF Ordered, Handled
<1> QED
  BY <1>1, <1>3, <1>4, BroadcastSent DEF StreamInv

LEMMA HandleDataStep ==
  ASSUME StreamInv, HandleData
  PROVE  StreamInv'
<1> DEFINE data == Head(mailbox)
<1>1. /\ mailbox # <<>> /\ mailbox' = Tail(mailbox) /\ written' = written
      /\ BufferOutput(data) /\ BroadcastOutput(data) /\ data # Exit
      /\ UNCHANGED <<relayed, snapshot, pc, subscribers>>
  BY DEF HandleData, HandleFrame, vmVars
<1>2. TypeOK' /\ ports' <= starts' /\ Later
  BY <1>1, HandleTypes, LaterHandles
<1>3. /\ data \in Chunks /\ data = mailbox[1] /\ 1 \in DOMAIN mailbox /\ data \in Nat
      /\ mailbox \in Seq(Nat) /\ outputs \in Seq(Nat) /\ outputs' \in Seq(Nat)
  <2>1. mailbox \in Seq(Lines)
    BY DEF StreamInv, TypeOK, Lines
  <2>2. mailbox \in Seq(Nat) /\ outputs \in Seq(Nat)
    BY TypesNat DEF StreamInv
  <2>3. outputs' \in Seq(Nat)
    BY <1>2, StreamAssumption DEF TypeOK, Chunks
  <2> QED
    BY <1>1, <2>1, <2>2, <2>3 DEF Lines
<1>4. /\ Len(outputs') > 0 /\ outputs'[1] = data
      /\ \A i \in DOMAIN outputs' : i > 1 => i - 1 \in DOMAIN outputs /\ outputs'[i] = outputs[i - 1]
  BY <1>1, <1>3, BufferTyped DEF StreamInv
<1> HIDE DEF data
<1>5a. ASSUME NEW i \in DOMAIN outputs'
      PROVE  /\ i \in Nat /\ i >= 1
             /\ \/ i = 1 /\ outputs'[i] = data
                \/ i > 1 /\ i - 1 \in DOMAIN outputs /\ outputs'[i] = outputs[i - 1]
  <2>1. i \in Nat /\ i >= 1
    BY <1>3
  <2> QED
    BY <1>4, <2>1
<1>5. Kept'
  <2>1. Before(outputs, written', mailbox')
    BY <1>2, <1>3, HandledLater DEF StreamInv, Kept
  <2>2. data <= written' /\ \A j \in DOMAIN mailbox' : mailbox'[j] # Exit => data < mailbox'[j]
    BY <1>1, <1>3, TailOrder DEF StreamInv, Waiting, data
  <2>3. Before(outputs', written', mailbox')
    BY <1>5a, <2>1, <2>2 DEF Before
  <2>4. \A i \in DOMAIN outputs : outputs[i] < data
    <3>1. \A i \in DOMAIN outputs : outputs[i] # Exit
      BY StreamAssumption DEF StreamInv, TypeOK, Chunks, Exit
    <3> QED
      BY <1>1, <1>3, <3>1 DEF StreamInv, Kept, Handled, Before
  <2>5. \A i, j \in DOMAIN outputs : i < j => outputs[j] < outputs[i]
    BY DEF StreamInv, Kept
  <2>6. ASSUME NEW i \in DOMAIN outputs', NEW j \in DOMAIN outputs', i < j
        PROVE  outputs'[j] < outputs'[i]
    <3>1. i \in Nat /\ j \in Nat /\ i >= 1 /\ j > 1 /\ j - 1 \in DOMAIN outputs /\ outputs'[j] = outputs[j - 1]
      BY <1>5a, <2>6
    <3>2. CASE i = 1
      BY <1>4, <2>4, <3>1, <3>2
    <3>3. CASE i > 1
      <4>1. i - 1 \in DOMAIN outputs /\ outputs'[i] = outputs[i - 1] /\ i - 1 < j - 1
        BY <1>4, <2>6, <3>1, <3>3
      <4> QED
        BY <2>5, <3>1, <4>1
    <3> QED
      BY <3>1, <3>2, <3>3
  <2> QED
    BY <2>3, <2>6 DEF Kept, Handled
<1>6. ASSUME NEW c \in Clients PROVE Complete(c)' /\ Ordered(c)'
  <2>1. Ordered(c)'
    BY <1>1, <1>2, HandleOrdered DEF data
  <2>2. ASSUME pc'[c] = "streaming", c \in subscribers'
        PROVE  ToSet(outputs') \subseteq ToSet(snapshot'[c]) \union ToSet(Sent(c)')
    <3>1. Sent(c)' = Append(Sent(c), data) /\ Sent(c) \in Seq(Nat)
      BY <1>1, <1>3, <2>2, BroadcastSent, TypesNat DEF StreamInv, Alive, Lines
    <3>2. data \in ToSet(Sent(c)') /\ ToSet(Sent(c)) \subseteq ToSet(Sent(c)')
      <4>1. Len(Sent(c)) + 1 \in DOMAIN Append(Sent(c), data)
        BY <1>3, <3>1
      <4>2. \A i \in DOMAIN Sent(c) :
              i \in DOMAIN Append(Sent(c), data) /\ Append(Sent(c), data)[i] = Sent(c)[i]
        BY <1>3, <3>1
      <4>3. Append(Sent(c), data)[Len(Sent(c)) + 1] = data
        BY <1>3, <3>1
      <4> QED
        BY <3>1, <4>1, <4>2, <4>3 DEF ToSet
    <3>3. ToSet(outputs') \subseteq {data} \union ToSet(outputs)
      <4>1. ASSUME NEW i \in DOMAIN outputs'
            PROVE  outputs'[i] = data \/ \E j \in DOMAIN outputs : outputs'[i] = outputs[j]
        BY <1>5a
      <4> QED
        BY <4>1 DEF ToSet
    <3>4. ToSet(outputs) \subseteq ToSet(snapshot[c]) \union ToSet(Sent(c))
      BY <1>1, <2>2 DEF StreamInv, Complete
    <3> QED
      BY <1>1, <3>2, <3>3, <3>4
  <2> QED
    BY <2>1, <2>2 DEF Complete
<1> QED
  BY <1>2, <1>5, <1>6 DEF StreamInv, Later

LEMMA HandleExitStep ==
  ASSUME StreamInv, HandleExit
  PROVE  StreamInv'
<1>1. /\ mailbox # <<>> /\ mailbox' = Tail(mailbox) /\ written' = written
      /\ BroadcastOutput(Exit) /\ Exit = Head(mailbox)
      /\ UNCHANGED <<outputs, relayed, snapshot, pc, subscribers>>
  BY DEF HandleExit, HandleFrame, vmVars
<1>2. TypeOK' /\ ports' <= starts' /\ Later
  BY <1>1, HandleTypes, LaterHandles
<1>3. Kept'
  BY <1>1, <1>2, KeptLater
<1>4. ASSUME NEW c \in Clients PROVE Complete(c)' /\ Ordered(c)'
  <2>1. Ordered(c)'
    BY <1>1, <1>2, HandleOrdered
  <2>2. ToSet(Sent(c)) \subseteq ToSet(Sent(c)')
    <3>1. Sent(c) \in Seq(Nat) /\ Exit \in Nat /\ Exit \in Lines
      BY TypesNat DEF StreamInv, Exit, Lines
    <3>2. CASE Sent(c)' = Append(Sent(c), Exit)
      <4>1. \A i \in DOMAIN Sent(c) :
              i \in DOMAIN Append(Sent(c), Exit) /\ Append(Sent(c), Exit)[i] = Sent(c)[i]
        BY <3>1
      <4> QED
        BY <3>2, <4>1 DEF ToSet
    <3> QED
      BY <1>1, <3>1, <3>2, BroadcastSent DEF StreamInv
  <2> QED
    BY <1>1, <2>1, <2>2 DEF StreamInv, Complete
<1> QED
  BY <1>2, <1>3, <1>4 DEF StreamInv, Later

LEMMA GetOutputStep ==
  ASSUME StreamInv, NEW d \in Clients, GetOutput(d)
  PROVE  StreamInv'
<1>1. /\ UNCHANGED <<outputs, mailbox, written, inbox, relayed, subscribers>>
      /\ snapshot' = [snapshot EXCEPT ![d] = Reverse(outputs)]
      /\ pc' = [pc EXCEPT ![d] = "streaming"]
      /\ pc \in [Clients -> {"new", "attaching", "subscribed", "streaming", "gone"}]
      /\ DOMAIN snapshot = Clients
  BY DEF GetOutput, RequestFrame, vmVars, StreamInv, TypeOK
<1>2. TypeOK' /\ ports' <= starts' /\ Later
  BY <1>1, RequestTypes, LaterSame DEF Request
<1>3. Kept'
  BY <1>1, <1>2, KeptLater
<1>4. ASSUME NEW c \in Clients, c # d PROVE Complete(c)' /\ Ordered(c)'
  BY <1>1, <1>2, <1>4, CompleteLater, OrderedLater DEF Sent
<1>5. outputs \in Seq(Nat) /\ snapshot'[d] = Reverse(outputs)
  BY <1>1, TypesNat DEF StreamInv
<1>6. /\ DOMAIN Reverse(outputs) = 1 .. Len(outputs) /\ DOMAIN outputs = 1 .. Len(outputs)
      /\ Len(outputs) \in Nat
      /\ \A i \in 1 .. Len(outputs) : Reverse(outputs)[i] = outputs[Len(outputs) - i + 1]
  BY <1>5 DEF Reverse
<1>7. Complete(d)'
  <2>1. ASSUME NEW i \in DOMAIN outputs PROVE outputs[i] \in ToSet(Reverse(outputs))
    <3>1. Len(outputs) - i + 1 \in DOMAIN Reverse(outputs)
      BY <1>6
    <3>2. Reverse(outputs)[Len(outputs) - i + 1] = outputs[i]
      BY <1>6
    <3> QED
      BY <3>1, <3>2 DEF ToSet
  <2>2. ToSet(outputs) \subseteq ToSet(Reverse(outputs))
    BY <2>1 DEF ToSet
  <2> QED
    BY <1>1, <1>5, <2>2 DEF Complete
<1>8. Ordered(d)'
  <2>1. \A i, j \in DOMAIN outputs : i < j => outputs[j] < outputs[i]
    BY DEF StreamInv, Kept
  <2>2. ASSUME NEW i \in DOMAIN Reverse(outputs), NEW j \in DOMAIN Reverse(outputs), i < j
        PROVE  Reverse(outputs)[i] < Reverse(outputs)[j]
    <3>1. /\ Len(outputs) - i + 1 \in DOMAIN outputs /\ Len(outputs) - j + 1 \in DOMAIN outputs
          /\ Len(outputs) - j + 1 < Len(outputs) - i + 1
      BY <1>6, <2>2
    <3> QED
      BY <1>6, <2>1, <3>1
  <2>3. InOrder(Reverse(outputs))
    BY <2>2 DEF InOrder
  <2> QED
    BY <1>1, <1>2, <1>5, <2>3, TypesNat, HandledLater DEF StreamInv, Ordered, Handled, Sent
<1> QED
  BY <1>2, <1>3, <1>4, <1>7, <1>8 DEF StreamInv, Later

LEMMA RelayStep ==
  ASSUME StreamInv, NEW d \in Clients, Relay(d)
  PROVE  StreamInv'
<1>1. /\ UNCHANGED <<outputs, mailbox, written, pc, snapshot, subscribers>>
      /\ inbox[d] # <<>>
      /\ relayed' = [relayed EXCEPT ![d] = Append(@, Head(inbox[d]))]
      /\ inbox' = [inbox EXCEPT ![d] = Tail(@)]
      /\ DOMAIN relayed = Clients /\ DOMAIN inbox = Clients
  BY DEF Relay, RequestFrame, vmVars, StreamInv, TypeOK
<1>2. TypeOK' /\ ports' <= starts' /\ Later
  BY <1>1, RequestTypes, LaterSame DEF Request
<1>3. Kept'
  BY <1>1, <1>2, KeptLater
<1>4. ASSUME NEW c \in Clients PROVE Sent(c)' = Sent(c)
  <2>1. CASE c = d
    <3>1. relayed'[d] = Append(relayed[d], Head(inbox[d])) /\ inbox'[d] = Tail(inbox[d])
      BY <1>1
    <3> QED
      BY <1>1, <2>1, <3>1, TypesNat, RelayKeeps DEF StreamInv, Sent
  <2>2. CASE c # d
    BY <1>1, <2>2 DEF Sent
  <2> QED
    BY <2>1, <2>2
<1>5. \A c \in Clients : Complete(c)' /\ Ordered(c)'
  BY <1>1, <1>2, <1>4, CompleteLater, OrderedLater
<1> QED
  BY <1>2, <1>3, <1>5 DEF StreamInv, Later

-----------------------------------------------------------------------------
LEMMA StreamInvInit == Init => StreamInv
<1> SUFFICES ASSUME Init
             PROVE  StreamInv
  OBVIOUS
<1> USE StreamAssumption DEF Init
<1>1. TypeOK
  <2>1. /\ outputs \in Seq(Chunks) /\ Len(outputs) <= BufferSize
        /\ mailbox \in Seq(Chunks \union {Exit})
    OBVIOUS
  <2>2. /\ inbox \in [Clients -> Seq(Chunks \union {Exit})]
        /\ snapshot \in [Clients -> Seq(Chunks)]
        /\ relayed \in [Clients -> Seq(Chunks \union {Exit})]
    OBVIOUS
  <2>3. ports \in 0 .. MaxStarts /\ written \in 0 .. MaxChunks /\ starts \in 0 .. MaxStarts
        /\ restarts \in 0 .. MaxRestarts
    OBVIOUS
  <2> QED
    BY <2>1, <2>2, <2>3 DEF TypeOK
<1>2. Kept /\ Waiting
  BY DEF Kept, Waiting, Handled, Before, InOrder
<1>3. ASSUME NEW c \in Clients PROVE Complete(c) /\ Ordered(c)
  <2>1. Sent(c) = <<>> /\ snapshot[c] = <<>>
    BY DEF Sent
  <2> QED
    BY <2>1 DEF Complete, Ordered, Handled, Before, InOrder
<1> QED
  BY <1>1, <1>2, <1>3 DEF StreamInv

LEMMA StreamInvStep == StreamInv /\ [Next]_vars => StreamInv'
<1> SUFFICES ASSUME StreamInv, [Next]_vars
             PROVE  StreamInv'
  OBVIOUS
<1>1. CASE VMWrites
  BY <1>1, VMTypes, LaterWrites, QuietStep DEF VMWrites, VMFrame, clientVars
<1>2. CASE VMExits
  <2>1. mailbox' = mailbox \o [i \in 1 .. 1 |-> Exit] /\ written' = written
    BY <1>2, TypesNat DEF VMExits, StreamInv, Exit
  <2> QED
    BY <1>2, <2>1, VMTypes, LaterExits, QuietStep DEF VMExits, VMFrame, clientVars
<1>3. CASE Handle
  BY <1>3, HandleDataStep, HandleExitStep DEF Handle
<1>4. CASE Start
  BY <1>4, CallTypes, LaterSame, QuietStep DEF Start, CallFrame, clientVars
<1>5. CASE Stop
  <2>1. Later
    <3>1. ASSUME NEW late \in 0 .. 1, Killed(IF ports = 0 THEN 0 ELSE ports - late)
          PROVE  Later
      <4>1. (IF ports = 0 THEN 0 ELSE ports - late) \in Nat
        BY TypesNat DEF StreamInv
      <4> QED
        BY <1>5, <3>1, <4>1, LaterExits DEF Killed, Stop, CallFrame
    <3> QED
      BY <1>5, <3>1, LaterSame DEF Stop, CallFrame
  <2> QED
    BY <1>5, <2>1, CallTypes, QuietStep DEF Stop, CallFrame, clientVars
<1>6. CASE Destroy
  <2>1. Later
    BY <1>6, TypesNat, LaterExits DEF Destroy, Killed, CallFrame, StreamInv
  <2> QED
    BY <1>6, <2>1, CallTypes, QuietStep DEF Destroy, CallFrame, clientVars
<1>7. CASE Restart
  BY <1>7, CallTypes, LaterSame, QuietStep DEF Restart
<1>8. ASSUME NEW c \in Clients, Attach(c) \/ Subscribe(c) \/ HangUp(c) \/ Unsubscribe(c)
      PROVE  StreamInv'
  <2>1. /\ TypeOK' /\ ports' <= starts'
        /\ UNCHANGED <<mailbox, written, outputs, inbox, relayed, snapshot>>
    BY <1>8, RequestTypes
       DEF Request, Attach, Subscribe, HangUp, Unsubscribe, RequestFrame, vmVars
  <2>2. ASSUME NEW d \in Clients, pc'[d] = "streaming", d \in subscribers'
        PROVE  pc[d] = "streaming" /\ d \in subscribers
    BY <1>8, <2>2 DEF Attach, Subscribe, HangUp, Unsubscribe, StreamInv, TypeOK
  <2> QED
    BY <2>1, <2>2, LaterSame, QuietStep
<1>9. CASE \E c \in Clients : GetOutput(c) \/ Relay(c)
  BY <1>9, GetOutputStep, RelayStep
<1>10. CASE UNCHANGED vars
  <2>1. TypeOK' /\ ports' <= starts'
    BY <1>10 DEF vars, serverVars, vmVars, clientVars, StreamInv, TypeOK
  <2> QED
    BY <1>10, <2>1, LaterSame, QuietStep DEF vars, serverVars, vmVars, clientVars
<1> QED
  BY <1>1, <1>2, <1>3, <1>4, <1>5, <1>6, <1>7, <1>8, <1>9, <1>10 DEF Next, Request

-----------------------------------------------------------------------------
(* StreamWhole: subscribing before reading what is kept loses nothing,     *)
(* whatever is written, started, stopped, destroyed or restarted between   *)
(* the two calls, and what a client gets is in the order it was written    *)
(* (router.ex:245-247, manager.ex:187-197, 229-266).                       *)
THEOREM StreamIsWhole == Spec => []StreamWhole
<1> QED
  BY StreamInvInit, StreamInvStep, StreamInvWhole, PTL DEF Spec

(* The types, and that no more ports are open than starts were made.       *)
THEOREM StreamTypeCorrect == Spec => [](TypeOK /\ ports <= starts)
<1>1. StreamInv => TypeOK /\ ports <= starts
  BY DEF StreamInv
<1> QED
  BY <1>1, StreamInvInit, StreamInvStep, PTL DEF Spec
=============================================================================
