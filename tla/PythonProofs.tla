---------------------------- MODULE PythonProofs ----------------------------
(***************************************************************************)
(* Theorems about PythonProgram, for any calls, images, sessions and time  *)
(* limits.  The two packages share one argument: each step of a call is,   *)
(* whichever of them takes it, one of a few moves (Moves below).           *)
(***************************************************************************)
EXTENDS PythonProgram, TLAPS

-----------------------------------------------------------------------------
(* The event streams, for every time limit.                                *)

(* While the loop runs nothing is sent, and it runs for no longer than to  *)
(* its deadline; the events that end it are among three.                   *)
StreamTypes ==
  /\ stream \in {"none", "oneshot", "session"}
  /\ clock \in Nat /\ quiet \in Nat
  /\ sent \in {<<>>, <<"error">>, <<"result", "done">>}
  /\ got \in Seq({"error", "result", "done"})

StreamInv ==
  /\ StreamTypes
  /\ quiet <= clock /\ clock <= Deadline
  /\ sse \in {"none", "loop"} => sent = <<>>
  /\ sse = "ended" => sent # <<>>
  /\ Len(got) <= Len(sent)
  /\ \A i \in 1 .. Len(got) : got[i] = sent[i]
  /\ client = "ended" => sse = "ended" /\ Len(got) = Len(sent)
  /\ client = "none" => sse = "none"
  /\ runner = "running" => sse = "loop"
  /\ sse = "none" => runner = "none" /\ stream = "none" /\ client = "none"
  /\ stream = "session" => client # "timeout"

(* Nothing is awaited from the loop for as long as the limit of a session. *)
LEMMA SessionNeverSilent ==
  ASSUME StreamInv, stream = "session", quiet >= ReadLimit
  PROVE  FALSE
  BY TimeoutAssumption DEF StreamInv, StreamTypes, ReadLimit, Deadline

LEMMA WriteKeeps ==
  ASSUME StreamInv, sse = "loop", NEW events, NEW ending, Write(events, ending), LoopFrame,
         events \in {<<"error">>, <<"result", "done">>}, ending \in {"ended", "cut"},
         runner' # "running"
  PROVE  StreamInv'
<1>1. sent = <<>> /\ Len(got) = 0 /\ client # "ended" /\ client # "none"
  BY DEF StreamInv, StreamTypes
<1>2. /\ sent' \in {<<>>, <<"error">>, <<"result", "done">>}
      /\ sse' \in {"ended", "cut"} /\ (sse' = "ended" => sent' # <<>>)
  BY <1>1 DEF Write
<1>3. Len(sent') >= 0
  BY <1>2
<1> QED
  BY <1>1, <1>2, <1>3 DEF StreamInv, StreamTypes, LoopFrame, Deadline

LEMMA StreamInvStep ==
  ASSUME StreamInv, StreamNext
  PROVE  StreamInv'
<1>1. CASE \E kind \in {"oneshot", "session"} : OpenStream(kind)
  BY <1>1 DEF OpenStream, StreamInv, StreamTypes, Deadline
<1>2. CASE ReadEvent
  <2>1. Len(got) + 1 <= Len(sent) /\ Len(got) \in Nat /\ Len(sent) \in Nat
    BY <1>2 DEF ReadEvent, Unread, StreamInv, StreamTypes
  <2>2. sent[Len(got) + 1] \in {"error", "result", "done"}
    BY <2>1 DEF StreamInv, StreamTypes
  <2>3. /\ got' \in Seq({"error", "result", "done"}) /\ Len(got') = Len(got) + 1
        /\ \A i \in 1 .. Len(got') : got'[i] = sent[i]
    BY <1>2, <2>2 DEF ReadEvent, StreamInv, StreamTypes
  <2> QED
    BY <1>2, <2>1, <2>3 DEF ReadEvent, StreamInv, StreamTypes, Deadline
<1>3. CASE ReadEnd
  <2>1. Len(got) = Len(sent)
    BY <1>3 DEF ReadEnd, Unread, StreamInv, StreamTypes
  <2> QED
    BY <1>3, <2>1 DEF ReadEnd, StreamInv, StreamTypes, Deadline
<1>4. CASE ReadTimesOut
  BY <1>4, SessionNeverSilent DEF ReadTimesOut, StreamInv, StreamTypes, Deadline
<1>5. CASE Drop
  BY <1>5 DEF Drop, StreamInv, StreamTypes, Deadline
<1>6. CASE RunnerEnds
  BY <1>6 DEF RunnerEnds, StreamInv, StreamTypes, Deadline
<1>7. CASE LoopTimesOut
  BY <1>7, WriteKeeps DEF LoopTimesOut
<1>8. CASE LoopYields
  <2>1. CASE \/ Write(<<"error">>, "ended") \/ Write(<<"result", "done">>, "ended")
    BY <1>8, <2>1, WriteKeeps DEF LoopYields
  <2>2. CASE sse' = "cut" /\ UNCHANGED sent
    BY <1>8, <2>2 DEF LoopYields, LoopFrame, StreamInv, StreamTypes, Deadline
  <2> QED
    BY <1>8, <2>1, <2>2 DEF LoopYields
<1>9. CASE Tick
  BY <1>9, TimeoutAssumption DEF Tick, StreamInv, StreamTypes, Deadline
<1> QED
  BY <1>1, <1>2, <1>3, <1>4, <1>5, <1>6, <1>7, <1>8, <1>9 DEF StreamNext

LEMMA StreamInvTold ==
  ASSUME StreamInv
  PROVE  StreamTold
<1>1. ASSUME client = "ended"
      PROVE  got # <<>> /\ got[Len(got)] \in {"done", "error"}
  <2>1. Len(got) = Len(sent) /\ sent # <<>> /\ got[Len(got)] = sent[Len(sent)]
    BY <1>1 DEF StreamInv, StreamTypes
  <2> QED
    BY <2>1 DEF StreamInv, StreamTypes
<1> QED
  BY <1>1 DEF StreamInv, StreamTold

LEMMA StreamInvInit ==
  ASSUME StreamInit
  PROVE  StreamInv
  BY TimeoutAssumption DEF StreamInit, StreamInv, StreamTypes, Deadline

(* The stream apart from the rest of the program.                          *)
THEOREM StreamIsTold == StreamInit /\ [][StreamNext]_streamVars => []StreamTold
<1>1. StreamInv /\ UNCHANGED streamVars => StreamInv'
  BY DEF StreamInv, StreamTypes, streamVars, Deadline
<1> QED
  BY <1>1, StreamInvInit, StreamInvStep, StreamInvTold, PTL

-----------------------------------------------------------------------------

Zeros == [n \in Names |-> 0]

All(v) == \A n \in Names : subprocess[n] = v

(* The names whose function has yet to be assigned.                        *)
Due(n) == \E i \in 1 .. Len(patcher.todo) : patcher.todo[i] = n

(* The modules and the thread that patches.                                *)
PatchTypes ==
  /\ subprocess \in [Names -> {0, 1}] /\ originals \in {<<>>, Zeros}
  /\ patched \in BOOLEAN
  /\ patcher \in [step : {"idle", "prepare", "install", "finish", "restore", "forget", "last"},
                  todo : Seq(Names), image : Images \union {NoImage}]
  /\ program \in {"bubbleproc", "_sandbox", "sessions", "stream"}

(* Where the thread is, every function not yet assigned is of the old sort *)
(* and every other of the new one.                                         *)
PatchInv ==
  /\ PatchTypes
  /\ patcher.step = "idle" => All(IF patched THEN 1 ELSE 0)
  /\ patcher.step \in {"prepare", "forget", "last"} => All(0)
  /\ patcher.step = "install" => \A n \in Names : subprocess[n] = 1 \/ Due(n)
  /\ patcher.step = "finish" => All(1)
  /\ patcher.step = "restore" => \A n \in Names : subprocess[n] = 0 \/ Due(n)
  /\ patcher.step \in {"install", "restore"} => Len(patcher.todo) > 0
  /\ patcher.step \in {"prepare", "install", "finish"} => ~patched
  /\ patcher.step \in {"restore", "forget"} => patched
  /\ patcher.step = "last" /\ program = "bubbleproc" => ~patched
  /\ \/ patcher.step \in {"install", "finish", "restore"}
     \/ patcher.step = "idle" /\ patched
     => originals = Zeros

(* From the first replaced function to the start of an unpatch.            *)
Active ==
  \/ patcher.step \in {"install", "finish"}
  \/ patcher.step = "idle" /\ patched

ImageInv ==
  /\ patch_config \in Images \union {DefaultImage, NoImage}
  /\ Active => patch_config = asked
  /\ \A c \in Calls : call[c].calm => Active

-----------------------------------------------------------------------------
(* The calls.                                                              *)
Ways == Names \union {"Sandbox"}

Early == {"idle", "called", "construct", "sandbox"}

Requested == {"none", "posted", "running", "answered", "failed"}

Ats == Early \union {"posted", "error", "returning"}

Frames == [name : Ways, fn : {0, 1}, at : Ats]

Results == ExitCodes \union {"none", "failed", "textless", "raised", "output", "error"}

CallTypes ==
  /\ call \in [Calls -> [name : Ways, kind : Kinds, check : BOOLEAN,
                         kept : BOOLEAN, calm : BOOLEAN]]
  /\ frame \in [Calls -> Frames]
  /\ stack \in [Calls -> Seq(Names)]
  /\ request \in [Calls -> Requested]
  /\ ran \in [Calls -> Seq({"vm", "host"})]
  /\ code \in [Calls -> ExitCodes \union {"none"}]
  /\ used \in [Calls -> Images \union {DefaultImage, NoImage}]
  /\ result \in [Calls -> Results]

(* Nothing was started before the request or the process, and not twice.   *)
Started(c) ==
  /\ frame[c].at \in Early => request[c] = "none" /\ ran[c] = <<>>
  /\ request[c] = "posted" => ran[c] = <<>>
  /\ request[c] \in {"running", "answered"} => Len(ran[c]) = 1
  /\ request[c] = "answered" => code[c] \in ExitCodes
  /\ Len(ran[c]) <= 1

(* Each function that waits has called the one above it.                   *)
Chain(c) ==
  /\ frame[c].at = "idle" => stack[c] = <<>>
  /\ call[c].name = IF stack[c] = <<>> THEN frame[c].name ELSE stack[c][1]
  /\ \A i \in 1 .. Len(stack[c]) :
       /\ stack[c][i] \in DOMAIN Callee
       /\ Callee[stack[c][i]] =
            IF i = Len(stack[c]) THEN frame[c].name ELSE stack[c][i + 1]
  /\ call[c].name \in {"getoutput", "getstatusoutput"} => call[c].kind = "shell"
  /\ call[c].check => call[c].name \in {"run", "Sandbox"}

(* What a function that returns has to say.                                *)
Tells(c) ==
  frame[c].at = "returning" =>
    /\ result[c] = "zero" =>
         Len(ran[c]) = 1 /\ code[c] = "zero" /\ request[c] \in {"none", "answered"}
    /\ result[c] = "nonzero" => ~Checks(c)

(* Where a call that Contained speaks of can be.                           *)
Apart(c) ==
  /\ call[c].name = "Sandbox" => ~call[c].calm
  /\ frame[c].at = "idle" => ~call[c].calm /\ ~call[c].kept /\ used[c] = NoImage
  /\ /\ call[c].calm /\ call[c].kind \in Promised
     /\ call[c].kept => call[c].name # "Popen"
     => /\ "host" \notin ToSet(ran[c]) /\ used[c] \in {NoImage, asked}
        /\ frame[c].at = "called" =>
             frame[c].fn = 1 \/ (patched /\ frame[c].name # "Popen")
  /\ call[c].kind \in Local =>
       /\ request[c] = "none" /\ "vm" \notin ToSet(ran[c])
       /\ frame[c].at \in {"idle", "called", "returning"}

CallInv == \A c \in Calls : Started(c) /\ Chain(c) /\ Tells(c) /\ Apart(c)

IInv == PatchInv /\ ImageInv /\ CallTypes /\ CallInv
-----------------------------------------------------------------------------
(* What the thread that patches does, in either package.                   *)
Covers(order) ==
  Len(order) > 0 /\ \A n \in Names : \E i \in 1 .. Len(order) : order[i] = n

PatchMoves ==
  \/ \E i \in Images : Test(i)
  \/ \E order \in Seq(Names) : Covers(order) /\ (Prepare(order) \/ BeginUnpatch(order))
  \/ Install \/ Finish \/ Restore
  \/ program = "bubbleproc" /\ (Unmark("forget", "last") \/ DropOriginals("last", "idle"))
  \/ program = "_sandbox" /\ (DropOriginals("forget", "last") \/ Unmark("last", "idle"))

LEMMA OrdersCover ==
  /\ B!Order \in Seq(Names) /\ Covers(B!Order)
  /\ S!Order \in Seq(Names) /\ Covers(S!Order)
<1>1. /\ B!Order \in Seq(Names) /\ Len(B!Order) = 7
      /\ S!Order \in Seq(Names) /\ Len(S!Order) = 7
  BY DEF B!Order, S!Order, Names
<1>2. \A n \in Names : \E i \in 1 .. 7 : B!Order[i] = n
  BY DEF B!Order, Names
<1>3. \A n \in Names : \E i \in 1 .. 7 : S!Order[i] = n
  BY DEF S!Order, Names
<1>4. Covers(B!Order)
  BY <1>1, <1>2 DEF Covers
<1>5. Covers(S!Order)
  BY <1>1, <1>3 DEF Covers
<1> QED
  BY <1>1, <1>4, <1>5

LEMMA BubbleprocPatches ==
  ASSUME B!PatchSubprocess \/ B!UnpatchSubprocess, program = "bubbleproc"
  PROVE  PatchMoves
<1>1. CASE B!PatchSubprocess
  BY <1>1, OrdersCover DEF PatchMoves, B!PatchSubprocess, B!Patch, B!Test, B!Prepare, B!Install,
     B!Finish, B!Assign, B!Wrappers, B!PatchFrame, Test, Prepare, Install, Finish, Assign, Wrappers,
     PatchFrame, B!moduleVars, moduleVars, B!clientVars, clientVars, B!callVars, callVars, B!Names, Names
<1>2. CASE B!UnpatchSubprocess
  BY <1>2, OrdersCover DEF PatchMoves, B!UnpatchSubprocess, B!BeginUnpatch, B!Restore, B!Unmark,
     B!DropOriginals, B!Assign, B!PatchFrame, BeginUnpatch, Restore, Unmark, DropOriginals, Assign,
     PatchFrame, B!moduleVars, moduleVars, B!clientVars, clientVars, B!callVars, callVars
<1> QED
  BY <1>1, <1>2

LEMMA SandboxPatches ==
  ASSUME S!PatchSubprocess \/ S!UnpatchSubprocess, program = "_sandbox"
  PROVE  PatchMoves
<1>1. CASE S!PatchSubprocess
  BY <1>1, OrdersCover DEF PatchMoves, S!PatchSubprocess, S!Patch, S!Test, S!Prepare, S!Install,
     S!Finish, S!Assign, S!Wrappers, S!PatchFrame, Test, Prepare, Install, Finish, Assign, Wrappers,
     PatchFrame, S!moduleVars, moduleVars, S!clientVars, clientVars, S!callVars, callVars, S!Names, Names
<1>2. CASE S!UnpatchSubprocess
  BY <1>2, OrdersCover DEF PatchMoves, S!UnpatchSubprocess, S!BeginUnpatch, S!Restore, S!Unmark,
     S!DropOriginals, S!Assign, S!PatchFrame, BeginUnpatch, Restore, Unmark, DropOriginals, Assign,
     PatchFrame, S!moduleVars, moduleVars, S!clientVars, clientVars, S!callVars, callVars
<1> QED
  BY <1>1, <1>2
-----------------------------------------------------------------------------
(* The module holds what it should, wherever that thread is.               *)
LEMMA OneLess ==
  ASSUME NEW n \in Nat, NEW m, m = n - 1, n > 0, n # 1
  PROVE  m > 0
  OBVIOUS

LEMMA TailShorter ==
  ASSUME NEW T, NEW s \in Seq(T), Len(s) > 0
  PROVE  /\ Len(s) \in Nat /\ Head(s) \in T /\ Head(s) = s[1] /\ Tail(s) \in Seq(T)
         /\ Len(Tail(s)) = Len(s) - 1 /\ (Len(s) # 1 => Len(Tail(s)) > 0)
         /\ \A i \in 1 .. Len(s) - 1 : Tail(s)[i] = s[i + 1]
<1>1. Len(s) \in Nat
  OBVIOUS
<1>2. Len(Tail(s)) = Len(s) - 1
  OBVIOUS
<1>3. Len(s) # 1 => Len(Tail(s)) > 0
  BY <1>1, <1>2, OneLess
<1> QED
  BY <1>1, <1>2, <1>3

LEMMA AssignDue ==
  ASSUME PatchTypes, Len(patcher.todo) > 0, NEW fn, NEW last, Assign(fn, last)
  PROVE  /\ Head(patcher.todo) \in Names
         /\ subprocess' = [subprocess EXCEPT ![Head(patcher.todo)] = fn[Head(patcher.todo)]]
         /\ patcher'.todo \in Seq(Names)
         /\ \A m \in Names \ {Head(patcher.todo)} : Due(m) => Due(m)'
         /\ \/ patcher'.step = patcher.step /\ Len(patcher'.todo) > 0
            \/ patcher'.step = last /\ \A m \in Names : ~Due(m)'
         /\ patcher'.image = patcher.image
         /\ patcher' = [step |-> patcher'.step, todo |-> patcher'.todo, image |-> patcher'.image]
<1> DEFINE todo == patcher.todo
           n == Head(todo)
<1>1. /\ todo \in Seq(Names) /\ Len(todo) \in Nat \ {0} /\ n \in Names /\ n = todo[1]
      /\ Tail(todo) \in Seq(Names) /\ Len(Tail(todo)) = Len(todo) - 1
      /\ Len(todo) # 1 => Len(Tail(todo)) > 0
      /\ \A i \in 1 .. Len(todo) - 1 : Tail(todo)[i] = todo[i + 1]
  BY TailShorter DEF PatchTypes
<1>2. /\ subprocess' = [subprocess EXCEPT ![n] = fn[n]]
      /\ patcher' = [step |-> IF Len(todo) = 1 THEN last ELSE patcher.step,
                     todo |-> Tail(todo), image |-> patcher.image]
  BY DEF Assign, PatchTypes
<1>3. ASSUME NEW m \in Names \ {n}, Due(m)
      PROVE  Due(m)'
  <2>1. PICK i \in 1 .. Len(todo) : todo[i] = m
    BY <1>3 DEF Due
  <2>2. i # 1 /\ i - 1 \in 1 .. Len(todo) - 1 /\ Tail(todo)[i - 1] = m
    BY <1>1, <2>1
  <2> QED
    BY <1>1, <1>2, <2>2 DEF Due
<1>4. Len(todo) = 1 => \A m \in Names : ~Due(m)'
  BY <1>1, <1>2 DEF Due
<1>5. /\ patcher'.step = IF Len(todo) = 1 THEN last ELSE patcher.step
      /\ patcher'.todo = Tail(todo) /\ patcher'.image = patcher.image
  BY <1>2
<1>6. \/ patcher'.step = patcher.step /\ Len(patcher'.todo) > 0
      \/ patcher'.step = last /\ \A m \in Names : ~Due(m)'
  <2>1. CASE Len(todo) = 1
    BY <1>4, <1>5, <2>1
  <2>2. CASE Len(todo) # 1
    BY <1>1, <1>5, <2>2
  <2> QED
    BY <2>1, <2>2
<1> QED
  BY <1>1, <1>2, <1>3, <1>5, <1>6

LEMMA PatchStep ==
  ASSUME PatchInv, PatchMoves, UNCHANGED program
  PROVE  PatchInv'
<1>1. CASE \E i \in Images : Test(i)
  BY <1>1 DEF Test, moduleVars, PatchInv, PatchTypes, All, Zeros
<1>2. CASE \E order \in Seq(Names) : Covers(order) /\ Prepare(order)
  <2>1. PICK order \in Seq(Names) : Covers(order) /\ Prepare(order)
    BY <1>2
  <2>2. /\ patcher' = [step |-> "install", todo |-> order, image |-> patcher.image]
        /\ originals' = subprocess /\ UNCHANGED <<subprocess, patched>>
        /\ patcher.step = "prepare"
    BY <2>1 DEF Prepare, PatchInv, PatchTypes
  <2>3. subprocess = Zeros
    BY <2>2 DEF PatchInv, PatchTypes, All, Zeros
  <2>4. order \in Seq(Names) /\ Len(order) > 0 /\ \A n \in Names : Due(n)'
    BY <2>1, <2>2 DEF Due, Covers
  <2> QED
    BY <2>2, <2>3, <2>4 DEF PatchInv, PatchTypes, All
<1>3. CASE \E order \in Seq(Names) : Covers(order) /\ BeginUnpatch(order)
  <2>1. PICK order \in Seq(Names) : Covers(order) /\ BeginUnpatch(order)
    BY <1>3
  <2>2. /\ patcher' = [step |-> "restore", todo |-> order, image |-> patcher.image]
        /\ UNCHANGED <<subprocess, originals, patched>>
        /\ patcher.step = "idle" /\ patched
    BY <2>1 DEF BeginUnpatch, moduleVars, PatchInv, PatchTypes
  <2>3. order \in Seq(Names) /\ Len(order) > 0 /\ \A n \in Names : Due(n)'
    BY <2>1, <2>2 DEF Due, Covers
  <2> QED
    BY <2>2, <2>3 DEF PatchInv, PatchTypes, All
<1>4. CASE Install
  <2>1. Assign(Wrappers, "finish") /\ UNCHANGED <<originals, patched>> /\ patcher.step = "install"
    BY <1>4 DEF Install
  <2>2. \A n \in Names : Wrappers[n] = 1
    BY <2>1 DEF Wrappers, PatchInv, Zeros
  <2>3. /\ PatchTypes /\ Len(patcher.todo) > 0
        /\ \A n \in Names : subprocess[n] = 1 \/ Due(n)
        /\ originals = Zeros /\ ~patched
    BY <2>1 DEF PatchInv
  <2> DEFINE h == Head(patcher.todo)
  <2>4. /\ h \in Names
        /\ subprocess' = [subprocess EXCEPT ![h] = Wrappers[h]]
        /\ patcher'.todo \in Seq(Names)
        /\ \A m \in Names \ {h} : Due(m) => Due(m)'
        /\ \/ patcher'.step = "install" /\ Len(patcher'.todo) > 0
           \/ patcher'.step = "finish" /\ \A m \in Names : ~Due(m)'
        /\ patcher' = [step |-> patcher'.step, todo |-> patcher'.todo, image |-> patcher.image]
    BY <2>1, <2>3, AssignDue
  <2>5. PatchTypes'
    BY <2>1, <2>2, <2>3, <2>4 DEF PatchTypes
  <2>6. \A n \in Names : subprocess'[n] = 1 \/ Due(n)'
    BY <2>2, <2>3, <2>4 DEF PatchTypes
  <2>7. patcher'.step = "finish" => All(1)'
    BY <2>4, <2>6 DEF All
  <2> HIDE DEF h
  <2> QED
    BY <2>1, <2>3, <2>4, <2>5, <2>6, <2>7 DEF PatchInv
<1>5. CASE Finish
  BY <1>5 DEF Finish, PatchInv, PatchTypes, All, Zeros
<1>6. CASE Restore
  <2>1. Assign(originals, "forget") /\ UNCHANGED <<originals, patched>> /\ patcher.step = "restore"
    BY <1>6 DEF Restore
  <2>2. \A n \in Names : originals[n] = 0
    BY <2>1 DEF PatchInv, Zeros
  <2>3. /\ PatchTypes /\ Len(patcher.todo) > 0
        /\ \A n \in Names : subprocess[n] = 0 \/ Due(n)
        /\ originals = Zeros /\ patched
    BY <2>1 DEF PatchInv
  <2> DEFINE h == Head(patcher.todo)
  <2>4. /\ h \in Names
        /\ subprocess' = [subprocess EXCEPT ![h] = originals[h]]
        /\ patcher'.todo \in Seq(Names)
        /\ \A m \in Names \ {h} : Due(m) => Due(m)'
        /\ \/ patcher'.step = "restore" /\ Len(patcher'.todo) > 0
           \/ patcher'.step = "forget" /\ \A m \in Names : ~Due(m)'
        /\ patcher' = [step |-> patcher'.step, todo |-> patcher'.todo, image |-> patcher.image]
    BY <2>1, <2>3, AssignDue
  <2>5. PatchTypes'
    BY <2>1, <2>2, <2>3, <2>4 DEF PatchTypes
  <2>6. \A n \in Names : subprocess'[n] = 0 \/ Due(n)'
    BY <2>2, <2>3, <2>4 DEF PatchTypes
  <2>7. patcher'.step = "forget" => All(0)'
    BY <2>4, <2>6 DEF All
  <2> HIDE DEF h
  <2> QED
    BY <2>1, <2>3, <2>4, <2>5, <2>6, <2>7 DEF PatchInv
<1>7. CASE \/ program = "bubbleproc" /\ (Unmark("forget", "last") \/ DropOriginals("last", "idle"))
           \/ program = "_sandbox" /\ (DropOriginals("forget", "last") \/ Unmark("last", "idle"))
  <2>1. /\ patcher' = [step |-> patcher'.step, todo |-> patcher.todo, image |-> patcher.image]
        /\ patcher'.step \in {"last", "idle"} /\ patcher.step \in {"forget", "last"}
        /\ patcher'.step = "idle" \/ program = "bubbleproc" => ~patched'
        /\ originals' \in {originals, <<>>} /\ patched' \in BOOLEAN /\ UNCHANGED subprocess
    <3>1. CASE Unmark("forget", "last") \/ Unmark("last", "idle")
      BY <1>7, <3>1 DEF Unmark, DropOriginals, PatchInv, PatchTypes
    <3>2. CASE program = "bubbleproc" /\ DropOriginals("last", "idle")
      BY <3>2 DEF DropOriginals, PatchInv, PatchTypes
    <3>3. CASE program = "_sandbox" /\ DropOriginals("forget", "last")
      BY <3>3 DEF DropOriginals, PatchInv, PatchTypes
    <3> QED
      BY <1>7, <3>1, <3>2, <3>3
  <2> QED
    BY <2>1 DEF PatchInv, PatchTypes, All, Zeros
<1> QED
  BY <1>1, <1>2, <1>3, <1>4, <1>5, <1>6, <1>7 DEF PatchMoves
-----------------------------------------------------------------------------
(* What a step of a call is, in either package: a step of the library, or  *)
(* a wrapper refuses, hands the call to an original unless it is for the   *)
(* sandbox, or makes a sandbox, posts the command and says what came of it.*)
Hands(c) ==
  /\ frame[c].at = "called" /\ call[c].kind \notin Promised
  /\ \E original \in {0, 1} : Enter(c, frame[c].name, original)
  /\ UNCHANGED stack

Makes(c) ==
  \/ frame[c].name # "Sandbox" /\ MakeSandbox(c, patch_config)
  \/ frame[c].name = "Sandbox" /\ \E i \in Images : MakeSandbox(c, i)

Catches(c) ==
  /\ frame[c].at = "error" /\ UNCHANGED clientVars
  /\ \E r \in {"nonzero", "textless", "raised", "output"} :
       (r = "nonzero" => ~Checks(c)) /\ Return(c, r)

Moves(c) ==
  \/ LibraryCalls(c) \/ LibraryPopen(c)
  \/ \E managed \in BOOLEAN : LibraryReturns(c, managed)
  \/ frame[c].at = "called" /\ Raise(c)
  \/ Hands(c)
  \/ frame[c].at = "called" /\ call[c].kind \notin Local /\ Goto(c, "construct")
  \/ Makes(c) \/ Post(c) \/ Respond(c)
  \/ Catches(c)

ShellOnly(c) ==
  frame[c].name \in {"getoutput", "getstatusoutput"} => call[c].kind = "shell"

LEMMA BubbleprocLibrary ==
  ASSUME NEW c \in Calls, B!Library(c, B!Managed)
  PROVE  Moves(c)
<1>1. CASE B!LibraryCalls(c)
  BY <1>1 DEF Moves, B!LibraryCalls, LibraryCalls, B!MissesKeyword, MissesKeyword, B!Callee,
     Callee, B!Enter, Enter, B!Raise, Raise, B!Return, Return, B!In, In, B!CallFrame, CallFrame,
     B!moduleVars, moduleVars, B!patcherVars, patcherVars, B!clientVars, clientVars
<1>2. CASE B!LibraryPopen(c)
  BY <1>2 DEF Moves, B!LibraryPopen, LibraryPopen, B!ExitCodes, ExitCodes, B!Raise, Raise,
     B!Return, Return, B!In, In, B!CallFrame, CallFrame, B!moduleVars, moduleVars, B!patcherVars,
     patcherVars, B!clientVars, clientVars
<1>3. CASE B!LibraryReturns(c, B!Managed)
  <2>1. LibraryReturns(c, B!Managed) /\ B!Managed \in BOOLEAN
    BY <1>3 DEF B!Managed, B!LibraryReturns, LibraryReturns, B!Through, Through, B!RunChecks,
       RunChecks, B!ExitCodes, ExitCodes, B!Last, Last, B!Front, Front, B!In, In, B!CallFrame,
       CallFrame, B!moduleVars, moduleVars, B!patcherVars, patcherVars, B!clientVars, clientVars
  <2> QED
    BY <2>1 DEF Moves
<1> QED
  BY <1>1, <1>2, <1>3 DEF B!Library

LEMMA BubbleprocDispatch ==
  ASSUME NEW c \in Calls, NEW n, NEW sandboxed, NEW original,
         B!Dispatch(c, n, sandboxed, original),
         sandboxed => call[c].kind \notin Local,
         ~sandboxed /\ frame[c].fn = 1 => call[c].kind \notin Promised /\ original \in {0, 1}, CallTypes
  PROVE  Moves(c)
<1>1. frame[c].at = "called" /\ frame[c].name = n /\ frame[c].fn = 1
  BY DEF B!Dispatch, B!Wraps, B!In, CallTypes, Frames
<1>2. CASE sandboxed /\ B!Goto(c, "construct")
  BY <1>1, <1>2 DEF Moves, B!Goto, Goto, B!CallFrame, CallFrame, B!moduleVars, moduleVars,
     B!patcherVars, patcherVars, B!clientVars, clientVars
<1>3. CASE ~sandboxed /\ B!Enter(c, n, original) /\ UNCHANGED stack
  BY <1>1, <1>3 DEF Moves, Hands, B!Enter, Enter, B!CallFrame, CallFrame, B!moduleVars,
     moduleVars, B!patcherVars, patcherVars, B!clientVars, clientVars
<1> QED
  BY <1>2, <1>3 DEF B!Dispatch

LEMMA BubbleprocCatch ==
  ASSUME NEW c \in Calls, NEW n, NEW r \in {"nonzero", "textless", "raised", "output"},
         B!Catch(c, n, r), frame[c].name = n /\ r = "nonzero" => ~Checks(c)
  PROVE  Moves(c)
<1>1. Catches(c)
  BY DEF Catches, B!Catch, Catch, B!In, In, B!Return, Return, B!CallFrame, CallFrame,
     B!moduleVars, moduleVars, B!patcherVars, patcherVars, B!clientVars, clientVars
<1> QED
  BY <1>1 DEF Moves

LEMMA BubbleprocWrapper ==
  ASSUME NEW c \in Calls, program = "bubbleproc", CallTypes, PatchTypes, ShellOnly(c), B!Wrapper(c)
  PROVE  Moves(c)
<1>1. /\ B!ForSandbox(c) => call[c].kind \notin Local
      /\ ~B!ForSandbox(c) => call[c].kind \notin Promised
      /\ frame[c].fn = 1 => B!Under(c) = 0
  BY DEF B!ForSandbox, B!Under, Local, Promised, CallTypes, Kinds
<1>2. CASE B!SandboxedPopen(c)
  <2>1. CASE B!Refuse(c, "Popen")
    BY <2>1 DEF Moves, B!Wraps, Wraps, B!Raise, Raise, B!Return, Return, B!In, In, B!CallFrame,
       CallFrame, B!moduleVars, moduleVars, B!patcherVars, patcherVars, B!clientVars, clientVars,
       B!Refuse
  <2>2. CASE B!Dispatch(c, "Popen", B!ForSandbox(c), 0)
    BY <1>1, <2>2, BubbleprocDispatch
  <2>3. CASE B!Catch(c, "Popen", "nonzero")
    BY <2>3, BubbleprocCatch DEF Checks
  <2> QED
    BY <1>2, <2>1, <2>2, <2>3 DEF B!SandboxedPopen
<1>3. CASE B!SandboxedRun(c)
  <2>1. CASE B!Refuse(c, "run")
    BY <2>1 DEF Moves, B!Wraps, Wraps, B!Raise, Raise, B!Return, Return, B!In, In, B!CallFrame,
       CallFrame, B!moduleVars, moduleVars, B!patcherVars, patcherVars, B!clientVars, clientVars,
       B!Refuse
  <2>2. CASE B!Dispatch(c, "run", B!ForSandbox(c), B!Under(c))
    BY <1>1, <2>2, BubbleprocDispatch
  <2>3. CASE B!Catch(c, "run", IF B!RunChecks(c) THEN "textless" ELSE "nonzero")
    BY <2>3, BubbleprocCatch DEF Checks, RunChecks, B!RunChecks
  <2> QED
    BY <1>3, <2>1, <2>2, <2>3 DEF B!SandboxedRun
<1>4. CASE B!SandboxedCall(c)
  <2>1. CASE B!Dispatch(c, "call", B!ForSandbox(c), B!Under(c))
    BY <1>1, <2>1, BubbleprocDispatch
  <2>2. CASE B!Catch(c, "call", "nonzero")
    BY <2>2, BubbleprocCatch DEF Checks
  <2> QED
    BY <1>4, <2>1, <2>2 DEF B!SandboxedCall
<1>5. CASE B!SandboxedCheckCall(c)
  <2>1. CASE B!Dispatch(c, "check_call", B!ForSandbox(c), B!Under(c))
    BY <1>1, <2>1, BubbleprocDispatch
  <2>2. CASE B!Catch(c, "check_call", "raised")
    BY <2>2, BubbleprocCatch DEF Checks
  <2> QED
    BY <1>5, <2>1, <2>2 DEF B!SandboxedCheckCall
<1>6. CASE B!SandboxedCheckOutput(c)
  <2>1. CASE B!Refuse(c, "check_output")
    BY <2>1 DEF Moves, B!Wraps, Wraps, B!Raise, Raise, B!Return, Return, B!In, In, B!CallFrame,
       CallFrame, B!moduleVars, moduleVars, B!patcherVars, patcherVars, B!clientVars, clientVars,
       B!Refuse
  <2>2. CASE B!Dispatch(c, "check_output", B!ForSandbox(c), B!Under(c))
    BY <1>1, <2>2, BubbleprocDispatch
  <2>3. CASE B!Catch(c, "check_output", "raised")
    BY <2>3, BubbleprocCatch DEF Checks
  <2> QED
    BY <1>6, <2>1, <2>2, <2>3 DEF B!SandboxedCheckOutput
<1>7. CASE B!SandboxedGetoutput(c)
  <2>1. CASE B!Wraps(c, "getoutput") /\ B!Goto(c, "construct")
    BY <2>1 DEF Moves, ShellOnly, Local, B!Wraps, Wraps, B!Goto, Goto, B!In, In, B!CallFrame,
       CallFrame, B!moduleVars, moduleVars, B!patcherVars, patcherVars, B!clientVars, clientVars
  <2>2. CASE B!Catch(c, "getoutput", "output")
    BY <2>2, BubbleprocCatch DEF Checks
  <2> QED
    BY <1>7, <2>1, <2>2 DEF B!SandboxedGetoutput
<1>8. CASE B!SandboxedGetstatusoutput(c)
  <2>1. CASE B!Wraps(c, "getstatusoutput") /\ B!Goto(c, "construct")
    BY <2>1 DEF Moves, ShellOnly, Local, B!Wraps, Wraps, B!Goto, Goto, B!In, In, B!CallFrame,
       CallFrame, B!moduleVars, moduleVars, B!patcherVars, patcherVars, B!clientVars, clientVars
  <2>2. CASE B!Catch(c, "getstatusoutput", "nonzero")
    BY <2>2, BubbleprocCatch DEF Checks
  <2> QED
    BY <1>8, <2>1, <2>2 DEF B!SandboxedGetstatusoutput
<1>9. CASE B!CreateSandbox(c)
  BY <1>9 DEF Moves, Makes, B!CreateSandbox, B!SandboxInit,
     B!MakeSandbox, MakeSandbox, B!HealthCheck, HealthCheck, B!CallFrame, CallFrame, B!moduleVars, moduleVars, B!patcherVars, patcherVars, B!clientVars, clientVars
<1>10. CASE B!SandboxRun(c)
  <2>1. CASE B!Post(c)
    BY <2>1 DEF Moves, B!Post, Post, B!Exec, Exec, B!CallFrame, CallFrame, B!moduleVars,
       moduleVars, B!patcherVars, patcherVars
  <2>2. CASE B!Respond(c)
    BY <2>2 DEF Moves, B!Respond, Respond, B!Outcome, Outcome, B!Answered, Answered, B!GivesUp,
       GivesUp, B!Unpacks, Unpacks, B!Checks, Checks, B!RunChecks, RunChecks, B!CallFrame,
       CallFrame, B!moduleVars, moduleVars, B!patcherVars, patcherVars, B!clientVars, clientVars
  <2> QED
    BY <1>10, <2>1, <2>2 DEF B!SandboxRun
<1> QED
  BY <1>2, <1>3, <1>4, <1>5, <1>6, <1>7, <1>8, <1>9, <1>10 DEF B!Wrapper

LEMMA BubbleprocMoves ==
  ASSUME NEW c \in Calls, program = "bubbleproc", CallTypes, PatchTypes, ShellOnly(c), B!Step(c)
  PROVE  Moves(c)
<1>1. CASE B!Run(c)
  <2>1. CASE B!In(c, "Sandbox", "construct") /\ \E i \in Images : B!SandboxInit(c, i)
    BY <2>1 DEF Moves, Makes, B!In, B!SandboxInit,
       B!MakeSandbox, MakeSandbox, B!HealthCheck, HealthCheck, B!CallFrame, CallFrame, B!moduleVars, moduleVars, B!patcherVars, patcherVars, B!clientVars, clientVars
  <2>2. CASE B!SandboxEnds(c)
    BY <2>2, BubbleprocCatch DEF B!SandboxEnds
  <2> QED
    BY <1>1, <2>1, <2>2 DEF B!Run
<1> QED
  BY <1>1, BubbleprocLibrary, BubbleprocWrapper DEF B!Step

-----------------------------------------------------------------------------
LEMMA SandboxLibrary ==
  ASSUME NEW c \in Calls, S!Library(c, S!Managed)
  PROVE  Moves(c)
<1>1. CASE S!LibraryCalls(c)
  BY <1>1 DEF Moves, S!LibraryCalls, LibraryCalls, S!MissesKeyword, MissesKeyword, S!Callee,
     Callee, S!Enter, Enter, S!Raise, Raise, S!Return, Return, S!In, In, S!CallFrame, CallFrame,
     S!moduleVars, moduleVars, S!patcherVars, patcherVars, S!clientVars, clientVars
<1>2. CASE S!LibraryPopen(c)
  BY <1>2 DEF Moves, S!LibraryPopen, LibraryPopen, S!ExitCodes, ExitCodes, S!Raise, Raise,
     S!Return, Return, S!In, In, S!CallFrame, CallFrame, S!moduleVars, moduleVars, S!patcherVars,
     patcherVars, S!clientVars, clientVars
<1>3. CASE S!LibraryReturns(c, S!Managed)
  <2>1. LibraryReturns(c, S!Managed) /\ S!Managed \in BOOLEAN
    BY <1>3 DEF S!Managed, S!LibraryReturns, LibraryReturns, S!Through, Through, S!RunChecks,
       RunChecks, S!ExitCodes, ExitCodes, S!Last, Last, S!Front, Front, S!In, In, S!CallFrame,
       CallFrame, S!moduleVars, moduleVars, S!patcherVars, patcherVars, S!clientVars, clientVars
  <2> QED
    BY <2>1 DEF Moves
<1> QED
  BY <1>1, <1>2, <1>3 DEF S!Library

LEMMA SandboxDispatch ==
  ASSUME NEW c \in Calls, NEW n, NEW sandboxed, NEW original,
         S!Dispatch(c, n, sandboxed, original),
         sandboxed => call[c].kind \notin Local,
         ~sandboxed /\ frame[c].fn = 1 => call[c].kind \notin Promised /\ original \in {0, 1}, CallTypes
  PROVE  Moves(c)
<1>1. frame[c].at = "called" /\ frame[c].name = n /\ frame[c].fn = 1
  BY DEF S!Dispatch, S!Wraps, S!In, CallTypes, Frames
<1>2. CASE sandboxed /\ S!Goto(c, "construct")
  BY <1>1, <1>2 DEF Moves, S!Goto, Goto, S!CallFrame, CallFrame, S!moduleVars, moduleVars,
     S!patcherVars, patcherVars, S!clientVars, clientVars
<1>3. CASE ~sandboxed /\ S!Enter(c, n, original) /\ UNCHANGED stack
  BY <1>1, <1>3 DEF Moves, Hands, S!Enter, Enter, S!CallFrame, CallFrame, S!moduleVars,
     moduleVars, S!patcherVars, patcherVars, S!clientVars, clientVars
<1> QED
  BY <1>2, <1>3 DEF S!Dispatch

LEMMA SandboxCatch ==
  ASSUME NEW c \in Calls, NEW n, NEW r \in {"nonzero", "textless", "raised", "output"},
         S!Catch(c, n, r), frame[c].name = n /\ r = "nonzero" => ~Checks(c)
  PROVE  Moves(c)
<1>1. Catches(c)
  BY DEF Catches, S!Catch, Catch, S!In, In, S!Return, Return, S!CallFrame, CallFrame,
     S!moduleVars, moduleVars, S!patcherVars, patcherVars, S!clientVars, clientVars
<1> QED
  BY <1>1 DEF Moves

LEMMA SandboxWrapper ==
  ASSUME NEW c \in Calls, program = "_sandbox", CallTypes, PatchTypes, ShellOnly(c), S!Wrapper(c)
  PROVE  Moves(c)
<1>1. /\ S!ShouldSandbox(c) => call[c].kind \notin Local
      /\ ~S!ShouldSandbox(c) => call[c].kind \notin Promised
      /\ frame[c].fn = 1 => S!Under(c) = 0
  BY DEF S!ShouldSandbox, S!Under, Local, Promised, CallTypes, Kinds
<1>2. CASE S!SandboxedPopen(c)
  <2>1. S!OriginalPopen \in {0, 1}
    BY DEF S!OriginalPopen, PatchTypes, Zeros, Names
  <2>2. CASE S!Dispatch(c, "Popen", S!ShouldSandbox(c), S!OriginalPopen)
    BY <1>1, <2>1, <2>2, SandboxDispatch
  <2>3. CASE S!Catch(c, "Popen", "nonzero")
    BY <2>3, SandboxCatch DEF Checks
  <2> QED
    BY <1>2, <2>1, <2>2, <2>3 DEF S!SandboxedPopen
<1>3. CASE S!SandboxedRun(c)
  <2>1. CASE S!Dispatch(c, "run", S!ShouldSandbox(c), S!Under(c))
    BY <1>1, <2>1, SandboxDispatch
  <2>2. CASE S!Catch(c, "run", "raised")
    BY <2>2, SandboxCatch DEF Checks
  <2> QED
    BY <1>3, <2>1, <2>2 DEF S!SandboxedRun
<1>4. CASE S!SandboxedCall(c)
  <2>1. CASE S!Dispatch(c, "call", S!ShouldSandbox(c), S!Under(c))
    BY <1>1, <2>1, SandboxDispatch
  <2>2. CASE S!Catch(c, "call", "raised")
    BY <2>2, SandboxCatch DEF Checks
  <2> QED
    BY <1>4, <2>1, <2>2 DEF S!SandboxedCall
<1>5. CASE S!SandboxedCheckCall(c)
  <2>1. CASE S!Dispatch(c, "check_call", S!ShouldSandbox(c), S!Under(c))
    BY <1>1, <2>1, SandboxDispatch
  <2>2. CASE S!Catch(c, "check_call", "raised")
    BY <2>2, SandboxCatch DEF Checks
  <2> QED
    BY <1>5, <2>1, <2>2 DEF S!SandboxedCheckCall
<1>6. CASE S!SandboxedCheckOutput(c)
  <2>1. CASE S!Dispatch(c, "check_output", S!ShouldSandbox(c), S!Under(c))
    BY <1>1, <2>1, SandboxDispatch
  <2>2. CASE S!Catch(c, "check_output", "raised")
    BY <2>2, SandboxCatch DEF Checks
  <2> QED
    BY <1>6, <2>1, <2>2 DEF S!SandboxedCheckOutput
<1>7. CASE S!SandboxedGetoutput(c)
  <2>1. CASE S!Wraps(c, "getoutput") /\ S!Goto(c, "construct")
    BY <2>1 DEF Moves, ShellOnly, Local, S!Wraps, Wraps, S!Goto, Goto, S!In, In, S!CallFrame,
       CallFrame, S!moduleVars, moduleVars, S!patcherVars, patcherVars, S!clientVars, clientVars
  <2>2. CASE S!Catch(c, "getoutput", "output")
    BY <2>2, SandboxCatch DEF Checks
  <2> QED
    BY <1>7, <2>1, <2>2 DEF S!SandboxedGetoutput
<1>8. CASE S!SandboxedGetstatusoutput(c)
  <2>1. CASE S!Wraps(c, "getstatusoutput") /\ S!Goto(c, "construct")
    BY <2>1 DEF Moves, ShellOnly, Local, S!Wraps, Wraps, S!Goto, Goto, S!In, In, S!CallFrame,
       CallFrame, S!moduleVars, moduleVars, S!patcherVars, patcherVars, S!clientVars, clientVars
  <2>2. CASE S!Catch(c, "getstatusoutput", "nonzero")
    BY <2>2, SandboxCatch DEF Checks
  <2> QED
    BY <1>8, <2>1, <2>2 DEF S!SandboxedGetstatusoutput
<1>9. CASE S!CreateSandbox(c)
  BY <1>9 DEF Moves, Makes, S!CreateSandbox, S!SandboxInit,
     S!MakeSandbox, MakeSandbox, S!HealthCheck, HealthCheck, S!CallFrame, CallFrame, S!moduleVars, moduleVars, S!patcherVars, patcherVars, S!clientVars, clientVars
<1>10. CASE S!SandboxRun(c)
  <2>1. CASE S!Post(c)
    BY <2>1 DEF Moves, S!Post, Post, S!Exec, Exec, S!CallFrame, CallFrame, S!moduleVars,
       moduleVars, S!patcherVars, patcherVars
  <2>2. CASE S!Respond(c)
    BY <2>2 DEF Moves, S!Respond, Respond, S!Outcome, Outcome, S!Answered, Answered, S!GivesUp,
       GivesUp, S!Unpacks, Unpacks, S!Checks, Checks, S!RunChecks, RunChecks, S!CallFrame,
       CallFrame, S!moduleVars, moduleVars, S!patcherVars, patcherVars, S!clientVars, clientVars
  <2> QED
    BY <1>10, <2>1, <2>2 DEF S!SandboxRun
<1> QED
  BY <1>2, <1>3, <1>4, <1>5, <1>6, <1>7, <1>8, <1>9, <1>10 DEF S!Wrapper

LEMMA SandboxMoves ==
  ASSUME NEW c \in Calls, program = "_sandbox", CallTypes, PatchTypes, ShellOnly(c), S!Step(c)
  PROVE  Moves(c)
<1>1. CASE S!Run(c)
  <2>1. CASE S!In(c, "Sandbox", "construct") /\ \E i \in Images : S!SandboxInit(c, i)
    BY <2>1 DEF Moves, Makes, S!In, S!SandboxInit,
       S!MakeSandbox, MakeSandbox, S!HealthCheck, HealthCheck, S!CallFrame, CallFrame, S!moduleVars, moduleVars, S!patcherVars, patcherVars, S!clientVars, clientVars
  <2>2. CASE S!SandboxEnds(c)
    BY <2>2, SandboxCatch DEF S!SandboxEnds
  <2> QED
    BY <1>1, <2>1, <2>2 DEF S!Run
<1> QED
  BY <1>1, SandboxLibrary, SandboxWrapper DEF S!Step

-----------------------------------------------------------------------------
(* A move changes nothing of the modules, nor of another call.             *)
LEMMA CalleeFacts ==
  /\ DOMAIN Callee = Names \ {"Popen"}
  /\ \A n \in DOMAIN Callee : Callee[n] \in Names /\ Callee[n] # n
  /\ Callee["run"] = "Popen" /\ Callee["call"] = "Popen" /\ Callee["check_call"] = "call"
  /\ Callee["check_output"] = "run" /\ Callee["getoutput"] = "getstatusoutput"
  /\ Callee["getstatusoutput"] = "check_output"
  BY DEF Callee, Names

Alone(c) ==
  \A d \in Calls \ {c} :
    /\ frame'[d] = frame[d] /\ stack'[d] = stack[d] /\ request'[d] = request[d]
    /\ ran'[d] = ran[d] /\ code'[d] = code[d] /\ used'[d] = used[d] /\ result'[d] = result[d]

LEMMA MovesAlone ==
  ASSUME NEW c \in Calls, CallTypes, Moves(c)
  PROVE  /\ UNCHANGED <<subprocess, originals, patched, patch_config, patcher, asked, call>>
         /\ Alone(c)
<1> USE DEF moduleVars, patcherVars
<1>1. CASE LibraryCalls(c)
  BY <1>1 DEF LibraryCalls, Enter, Raise, Return, CallFrame, Alone, CallTypes, clientVars
<1>2. CASE LibraryPopen(c)
  BY <1>2 DEF LibraryPopen, Raise, Return, CallFrame, Alone, CallTypes, clientVars
<1>3. CASE \E managed \in BOOLEAN : LibraryReturns(c, managed)
  BY <1>3 DEF LibraryReturns, CallFrame, Alone, CallTypes, clientVars
<1>4. CASE frame[c].at = "called" /\ Raise(c)
  BY <1>4 DEF Raise, Return, CallFrame, Alone, CallTypes, clientVars
<1>5. CASE Hands(c)
  BY <1>5 DEF Hands, Enter, CallFrame, Alone, CallTypes, clientVars
<1>6. CASE Goto(c, "construct")
  BY <1>6 DEF Goto, CallFrame, Alone, CallTypes, clientVars
<1>7. CASE Makes(c)
  BY <1>7 DEF Makes, MakeSandbox, CallFrame, Alone, CallTypes, clientVars
<1>8. CASE Post(c)
  BY <1>8 DEF Post, Exec, CallFrame, Alone, CallTypes, clientVars
<1>9. CASE Respond(c)
  BY <1>9 DEF Respond, CallFrame, Alone, CallTypes, clientVars
<1>10. CASE Catches(c)
  BY <1>10 DEF Catches, Return, CallFrame, Alone, CallTypes, clientVars
<1> QED
  BY <1>1, <1>2, <1>3, <1>4, <1>5, <1>6, <1>7, <1>8, <1>9, <1>10 DEF Moves

LEMMA PutIn ==
  ASSUME NEW T, NEW f \in [Calls -> T], NEW c \in Calls, NEW v \in T
  PROVE  [f EXCEPT ![c] = v] \in [Calls -> T]
  OBVIOUS

LEMMA PutOne ==
  ASSUME NEW T, NEW f \in [Calls -> T], NEW g, NEW c \in Calls,
         g = f \/ \E v \in T : g = [f EXCEPT ![c] = v]
  PROVE  g \in [Calls -> T]
  BY PutIn

LEMMA FrameKept ==
  ASSUME NEW c \in Calls, frame \in [Calls -> Frames],
         \/ frame' = frame
         \/ \E a \in Ats : frame' = [frame EXCEPT ![c].at = a]
         \/ \E n \in Ways : frame' = [frame EXCEPT ![c].name = n]
         \/ \E n \in Ways, f \in {0, 1} : frame' = [frame EXCEPT ![c].name = n, ![c].fn = f]
  PROVE  frame' \in [Calls -> Frames]
  BY DEF Frames

LEMMA Predecessor ==
  ASSUME NEW n \in Nat \ {0}, n # 1
  PROVE  n - 1 \in 1 .. n /\ n - 1 # n /\ (n - 1) + 1 = n
  OBVIOUS

LEMMA TwoOrMore ==
  ASSUME NEW n \in Nat \ {0}, n # 1
  PROVE  2 \in 1 .. n
  OBVIOUS

LEMMA ZeroOrMore ==
  ASSUME NEW n \in Nat \ {0}
  PROVE  n - 1 = 0 \/ 1 <= n - 1
  OBVIOUS

LEMMA FrontKept ==
  ASSUME NEW T, NEW s \in Seq(T), s # <<>>
  PROVE  /\ Front(s) \in Seq(T) /\ Len(Front(s)) = Len(s) - 1 /\ Last(s) \in T
         /\ Last(s) = s[Len(s)] /\ Len(s) \in Nat \ {0}
         /\ \A i \in 1 .. Len(s) - 1 : Front(s)[i] = s[i]
<1>1. Len(s) \in Nat \ {0}
  OBVIOUS
<1>2. Last(s) = s[Len(s)] /\ Last(s) \in T
  BY <1>1 DEF Last
<1>3. SubSeq(s, 1, Len(s) - 1) \in Seq(T)
  BY <1>1
<1>4. Len(SubSeq(s, 1, Len(s) - 1)) = Len(s) - 1
  <2>1. Len(s) - 1 \in Nat
    BY <1>1
  <2>2. Len(s) - 1 = 0 \/ 1 <= Len(s) - 1
    BY <1>1, ZeroOrMore
  <2> QED
    BY <2>1, <2>2
<1>5. \A i \in 1 .. Len(s) - 1 : SubSeq(s, 1, Len(s) - 1)[i] = s[i]
  BY <1>1
<1> QED
  BY <1>1, <1>2, <1>3, <1>4, <1>5 DEF Front

LEMMA ThroughResult ==
  ASSUME NEW c, NEW n, NEW r \in Results, NEW managed
  PROVE  Through(c, n, r, managed) \in Results
  BY DEF Through, Results, ExitCodes

(* What becomes of each variable of a call in a move.                      *)
MoveParts(c) ==
  /\ \/ frame' = frame
     \/ \E a \in Ats : frame' = [frame EXCEPT ![c].at = a]
     \/ \E n \in Ways : frame' = [frame EXCEPT ![c].name = n]
     \/ \E n \in Ways, f \in {0, 1} : frame' = [frame EXCEPT ![c].name = n, ![c].fn = f]
  /\ stack' = stack \/ \E s \in Seq(Names) : stack' = [stack EXCEPT ![c] = s]
  /\ result' = result \/ \E r \in Results : result' = [result EXCEPT ![c] = r]
  /\ request' = request \/ request' = [request EXCEPT ![c] = "posted"]
  /\ ran' = ran \/ ran' = [ran EXCEPT ![c] = Append(ran[c], "host")]
  /\ code' = code \/ \E k \in ExitCodes : code' = [code EXCEPT ![c] = k]
  /\ used' = used \/ \E i \in Images \union {DefaultImage, NoImage} : used' = [used EXCEPT ![c] = i]

LEMMA MovesParts ==
  ASSUME NEW c \in Calls, CallTypes, PatchTypes, patch_config \in Images \union {DefaultImage, NoImage},
         Moves(c)
  PROVE  MoveParts(c)
<1>0. /\ frame[c].name \in Ways /\ frame[c].fn \in {0, 1}
      /\ stack[c] \in Seq(Names) /\ result[c] \in Results /\ code[c] \in ExitCodes \union {"none"}
      /\ subprocess \in [Names -> {0, 1}]
  BY DEF CallTypes, Frames, PatchTypes
<1>1. CASE LibraryCalls(c)
  <2>1. CASE Raise(c)
    BY <2>1 DEF MoveParts, Raise, Return, clientVars, Results, Ats
  <2>2. CASE ~Raise(c)
    <3> DEFINE n == frame[c].name
    <3>1. /\ n \in DOMAIN Callee
          /\ frame' = [frame EXCEPT ![c].name = Callee[n], ![c].fn = subprocess[Callee[n]]]
          /\ stack' = [stack EXCEPT ![c] = Append(stack[c], n)]
          /\ UNCHANGED <<request, ran, code, used, result>>
      BY <1>1, <2>2 DEF LibraryCalls, Enter, clientVars
    <3>2. Callee[n] \in Ways /\ subprocess[Callee[n]] \in {0, 1} /\ Append(stack[c], n) \in Seq(Names)
      BY <1>0, <3>1, CalleeFacts DEF Ways
    <3> QED
      BY <3>1, <3>2 DEF MoveParts
  <2> QED
    BY <2>1, <2>2
<1>2. CASE LibraryPopen(c)
  BY <1>2 DEF LibraryPopen, Raise, Return, MoveParts, clientVars, Results, ExitCodes, Ats
<1>3. CASE \E managed \in BOOLEAN : LibraryReturns(c, managed)
  <2>1. PICK managed \in BOOLEAN : LibraryReturns(c, managed)
    BY <1>3
  <2>2. /\ Last(stack[c]) \in Ways /\ Front(stack[c]) \in Seq(Names)
        /\ Through(c, Last(stack[c]), result[c], managed) \in Results
    BY <1>0, <2>1, FrontKept, ThroughResult DEF LibraryReturns, Ways
  <2> QED
    BY <2>1, <2>2 DEF LibraryReturns, MoveParts, clientVars
<1>4. CASE Raise(c) \/ Catches(c)
  BY <1>4 DEF Raise, Catches, Return, MoveParts, clientVars, Results, ExitCodes, Ats
<1>5. CASE Hands(c)
  BY <1>0, <1>5 DEF Hands, Enter, MoveParts, clientVars
<1>6. CASE Goto(c, "construct")
  BY <1>6 DEF Goto, MoveParts, clientVars, Ats, Early
<1>7. CASE Makes(c)
  BY <1>7 DEF Makes, MakeSandbox, MoveParts, clientVars, Ats, Early, Results
<1>8. CASE Post(c)
  BY <1>8 DEF Post, Exec, MoveParts, Ats
<1>9. CASE Respond(c)
  <2>1. Outcome(c) \in Results
    BY <1>0 DEF Outcome, Results
  <2> QED
    BY <1>9, <2>1 DEF Respond, MoveParts, clientVars, Ats
<1> QED
  BY <1>1, <1>2, <1>3, <1>4, <1>5, <1>6, <1>7, <1>8, <1>9 DEF Moves

LEMMA MovesTypes ==
  ASSUME NEW c \in Calls, CallTypes, PatchTypes, patch_config \in Images \union {DefaultImage, NoImage},
         Moves(c)
  PROVE  CallTypes'
<1>1. MoveParts(c)
  BY MovesParts
<1>2. /\ call \in [Calls -> [name : Ways, kind : Kinds, check : BOOLEAN,
                             kept : BOOLEAN, calm : BOOLEAN]]
      /\ UNCHANGED call
  BY MovesAlone DEF CallTypes
<1>3. frame' \in [Calls -> Frames]
  <2>1. frame \in [Calls -> Frames]
    BY DEF CallTypes
  <2> QED
    BY <1>1, <2>1, FrameKept DEF MoveParts
<1>4. stack' \in [Calls -> Seq(Names)]
  BY <1>1, PutIn DEF CallTypes, MoveParts
<1>5. result' \in [Calls -> Results]
  <2>1. result \in [Calls -> Results]
    BY DEF CallTypes
  <2>2. result' = result \/ \E v \in Results : result' = [result EXCEPT ![c] = v]
    BY <1>1 DEF MoveParts
  <2> QED
    BY <2>1, <2>2, PutOne
<1>6. request' \in [Calls -> Requested]
  BY <1>1, PutIn DEF CallTypes, MoveParts, Requested
<1>7. ran' \in [Calls -> Seq({"vm", "host"})]
  <2>1. Append(ran[c], "host") \in Seq({"vm", "host"}) /\ ran \in [Calls -> Seq({"vm", "host"})]
    BY DEF CallTypes
  <2>2. ran' = ran \/ \E v \in Seq({"vm", "host"}) : ran' = [ran EXCEPT ![c] = v]
    BY <1>1, <2>1 DEF MoveParts
  <2> QED
    BY <2>1, <2>2, PutOne
<1>8. code' \in [Calls -> ExitCodes \union {"none"}]
  <2>1. code \in [Calls -> ExitCodes \union {"none"}]
    BY DEF CallTypes
  <2>2. code' = code \/ \E v \in ExitCodes \union {"none"} : code' = [code EXCEPT ![c] = v]
    BY <1>1 DEF MoveParts
  <2> QED
    BY <2>1, <2>2, PutOne
<1>9. used' \in [Calls -> Images \union {DefaultImage, NoImage}]
  <2>1. used \in [Calls -> Images \union {DefaultImage, NoImage}]
    BY DEF CallTypes
  <2>2. used' = used \/ \E v \in Images \union {DefaultImage, NoImage} : used' = [used EXCEPT ![c] = v]
    BY <1>1 DEF MoveParts
  <2> QED
    BY <2>1, <2>2, PutOne
<1> QED
  BY <1>2, <1>3, <1>4, <1>5, <1>6, <1>7, <1>8, <1>9 DEF CallTypes

-----------------------------------------------------------------------------
(* A move keeps what is said of its call.                                  *)
LEMMA MovesStarted ==
  ASSUME NEW c \in Calls, CallTypes, Started(c), Moves(c)
  PROVE  Started(c)'
<1> DEFINE at == frame[c].at
<1>0. frame \in [Calls -> Frames] /\ request \in [Calls -> Requested]
      /\ ran \in [Calls -> Seq({"vm", "host"})] /\ code \in [Calls -> ExitCodes \union {"none"}]
  BY DEF CallTypes
<1>1. CASE /\ UNCHANGED clientVars
           /\ at' \in Early => at \in Early
  BY <1>1 DEF Started, clientVars
<1>2. CASE LibraryCalls(c)
  BY <1>0, <1>1, <1>2 DEF LibraryCalls, Enter, Raise, Return, Frames, Early
<1>3. CASE LibraryPopen(c)
  <2>1. CASE Raise(c)
    BY <1>0, <1>1, <2>1 DEF Raise, Return, Early
  <2>2. CASE ~Raise(c)
    <3>1. /\ at' = "returning" /\ ran'[c] = Append(ran[c], "host") /\ request'[c] = request[c]
          /\ ran[c] = <<>> /\ request[c] = "none"
      BY <1>0, <1>3, <2>2 DEF LibraryPopen, Return, In, Started, Early, Frames
    <3>2. Len(ran'[c]) = 1
      BY <3>1
    <3> QED
      BY <3>1, <3>2 DEF Started, Early
  <2> QED
    BY <2>1, <2>2
<1>4. CASE \E managed \in BOOLEAN : LibraryReturns(c, managed)
  BY <1>0, <1>1, <1>4 DEF LibraryReturns, Frames, Early
<1>5. CASE (at = "called" /\ Raise(c)) \/ Catches(c)
  BY <1>0, <1>1, <1>5 DEF Raise, Catches, Return, Frames, Early
<1>6. CASE Hands(c)
  BY <1>0, <1>1, <1>6 DEF Hands, Enter, Frames, Early
<1>7. CASE at = "called" /\ Goto(c, "construct")
  BY <1>0, <1>1, <1>7 DEF Goto, Frames, Early
<1>8. CASE Makes(c)
  BY <1>0, <1>1, <1>8 DEF Makes, MakeSandbox, Frames, Early
<1>9. CASE Post(c)
  BY <1>0, <1>9 DEF Post, Exec, Started, Frames, Early
<1>10. CASE Respond(c)
  BY <1>0, <1>1, <1>10 DEF Respond, Frames, Early
<1> QED
  BY <1>2, <1>3, <1>4, <1>5, <1>6, <1>7, <1>8, <1>9, <1>10 DEF Moves

LEMMA MovesChain ==
  ASSUME NEW c \in Calls, CallTypes, Chain(c), Moves(c)
  PROVE  Chain(c)'
<1>0. frame \in [Calls -> Frames] /\ stack \in [Calls -> Seq(Names)] /\ call' = call
  BY MovesAlone DEF CallTypes
<1>1. CASE /\ stack'[c] = stack[c] /\ frame'[c].name = frame[c].name
           /\ frame[c].at # "idle" /\ frame'[c].at # "idle"
  BY <1>0, <1>1 DEF Chain
<1>2. CASE LibraryCalls(c)
  <2>1. CASE Raise(c)
    BY <1>0, <1>1, <1>2, <2>1 DEF LibraryCalls, Raise, Return, Frames
  <2>2. CASE ~Raise(c)
    <3> DEFINE n == frame[c].name
    <3>1. /\ n \in DOMAIN Callee /\ frame[c].at = "called" /\ frame'[c].at = "called"
          /\ frame'[c].name = Callee[n] /\ stack'[c] = Append(stack[c], n)
      BY <1>0, <1>2, <2>2 DEF LibraryCalls, Enter, Frames
    <3>2. /\ Len(stack[c]) \in Nat /\ Len(stack'[c]) = Len(stack[c]) + 1
          /\ \A i \in 1 .. Len(stack[c]) : stack'[c][i] = stack[c][i]
          /\ stack'[c][Len(stack[c]) + 1] = n
      BY <1>0, <3>1, CalleeFacts
    <3>3. stack'[c] # <<>> /\ call[c].name = stack'[c][1]
      <4>1. CASE stack[c] = <<>>
        BY <3>1, <3>2, <4>1 DEF Chain
      <4>2. CASE stack[c] # <<>>
        <5>1. 1 \in 1 .. Len(stack[c])
          BY <1>0, <4>2
        <5> QED
          BY <3>2, <4>2, <5>1 DEF Chain
      <4> QED
        BY <4>1, <4>2
    <3>4. ASSUME NEW i \in 1 .. Len(stack'[c])
          PROVE  /\ stack'[c][i] \in DOMAIN Callee
                 /\ Callee[stack'[c][i]] =
                      IF i = Len(stack'[c]) THEN frame'[c].name ELSE stack'[c][i + 1]
      <4>1. CASE i = Len(stack[c]) + 1
        BY <3>1, <3>2, <4>1
      <4>2. CASE i = Len(stack[c])
        BY <3>1, <3>2, <4>2 DEF Chain
      <4>3. CASE i < Len(stack[c])
        BY <3>1, <3>2, <4>3 DEF Chain
      <4> QED
        BY <3>2, <4>1, <4>2, <4>3
    <3> QED
      BY <1>0, <3>1, <3>3, <3>4 DEF Chain
  <2> QED
    BY <2>1, <2>2
<1>3. CASE \E managed \in BOOLEAN : LibraryReturns(c, managed)
  <2>1. /\ stack[c] # <<>> /\ stack'[c] = Front(stack[c]) /\ frame'[c].name = Last(stack[c])
        /\ frame[c].at = "returning" /\ frame'[c].at = "returning"
    BY <1>0, <1>3 DEF LibraryReturns, Frames
  <2>2. /\ Len(stack[c]) \in Nat \ {0} /\ Len(stack'[c]) = Len(stack[c]) - 1
        /\ \A i \in 1 .. Len(stack[c]) - 1 : stack'[c][i] = stack[c][i]
        /\ frame'[c].name = stack[c][Len(stack[c])] /\ stack'[c] \in Seq(Names)
    <3>1. stack[c] \in Seq(Names)
      BY <1>0
    <3> QED
      BY <2>1, <3>1, FrontKept
  <2>3. call[c].name = IF stack'[c] = <<>> THEN frame'[c].name ELSE stack'[c][1]
    <3>1. CASE Len(stack[c]) = 1
      BY <2>1, <2>2, <3>1 DEF Chain
    <3>2. CASE Len(stack[c]) # 1
      BY <2>1, <2>2, <3>2 DEF Chain
    <3> QED
      BY <3>1, <3>2
  <2>4. ASSUME NEW i \in 1 .. Len(stack'[c])
        PROVE  /\ stack'[c][i] \in DOMAIN Callee
               /\ Callee[stack'[c][i]] =
                    IF i = Len(stack'[c]) THEN frame'[c].name ELSE stack'[c][i + 1]
    <3>1. i \in 1 .. Len(stack[c]) /\ i # Len(stack[c])
      BY <2>2
    <3>2. stack[c][i] \in DOMAIN Callee /\ Callee[stack[c][i]] = stack[c][i + 1]
      BY <3>1 DEF Chain
    <3>3. CASE i = Len(stack'[c])
      BY <2>2, <3>1, <3>2, <3>3
    <3>4. CASE i # Len(stack'[c])
      <4>1. i + 1 \in 1 .. Len(stack[c]) - 1
        BY <2>2, <3>4
      <4> QED
        BY <2>2, <3>1, <3>2, <3>4, <4>1
    <3> QED
      BY <3>3, <3>4
  <2> QED
    BY <1>0, <2>1, <2>3, <2>4 DEF Chain
<1>4. CASE LibraryPopen(c) \/ (frame[c].at = "called" /\ Raise(c)) \/ Catches(c)
  BY <1>0, <1>1, <1>4 DEF LibraryPopen, In, Raise, Catches, Return, Frames
<1>5. CASE Hands(c)
  BY <1>0, <1>1, <1>5 DEF Hands, Enter, Frames
<1>6. CASE frame[c].at = "called" /\ Goto(c, "construct")
  BY <1>0, <1>1, <1>6 DEF Goto, Frames
<1>7. CASE Makes(c)
  BY <1>0, <1>1, <1>7 DEF Makes, MakeSandbox, Frames
<1>8. CASE Post(c)
  BY <1>0, <1>1, <1>8 DEF Post, Frames
<1>9. CASE Respond(c)
  BY <1>0, <1>1, <1>9 DEF Respond, Frames
<1> QED
  BY <1>2, <1>3, <1>4, <1>5, <1>6, <1>7, <1>8, <1>9 DEF Moves

(* A function of the library is called by at most two others, run by one.  *)
LEMMA RunUnder ==
  ASSUME NEW c \in Calls, CallTypes, Chain(c), stack[c] # <<>>
  PROVE  /\ Last(stack[c]) \in DOMAIN Callee /\ Callee[Last(stack[c])] = frame[c].name
         /\ frame[c].name = "run" => call[c].name # "run"
<1>1. stack[c] \in Seq(Names)
  BY DEF CallTypes
<1>2. Len(stack[c]) \in Nat \ {0} /\ Last(stack[c]) = stack[c][Len(stack[c])]
  BY <1>1, FrontKept
<1>3. Last(stack[c]) \in DOMAIN Callee /\ Callee[Last(stack[c])] = frame[c].name
  BY <1>2 DEF Chain
<1>4. ASSUME frame[c].name = "run", call[c].name = "run"
      PROVE  FALSE
  <2>1. stack[c][1] = "run"
    BY <1>4 DEF Chain
  <2>2. Callee[stack[c][1]] = IF 1 = Len(stack[c]) THEN frame[c].name ELSE stack[c][2]
    <3>1. 1 \in 1 .. Len(stack[c]) /\ 1 + 1 = 2
      BY <1>2
    <3> QED
      BY <3>1 DEF Chain
  <2>3. Len(stack[c]) # 1 /\ stack[c][2] = "Popen"
    BY <1>4, <2>1, <2>2, CalleeFacts
  <2>4. 2 \in 1 .. Len(stack[c])
    BY <1>2, <2>3, TwoOrMore
  <2>5. stack[c][2] \in DOMAIN Callee
    BY <2>4 DEF Chain
  <2> QED
    BY <2>3, <2>5, CalleeFacts
<1> QED
  BY <1>3, <1>4

LEMMA OnlyShell ==
  ASSUME NEW c \in Calls, CallTypes, Chain(c)
  PROVE  ShellOnly(c)
<1>1. CASE stack[c] = <<>>
  BY <1>1 DEF Chain, ShellOnly
<1>2. CASE stack[c] # <<>>
  <2> DEFINE m == Len(stack[c])
  <2>1. m \in Nat \ {0} /\ Last(stack[c]) = stack[c][m]
    <3>1. stack[c] \in Seq(Names)
      BY DEF CallTypes
    <3> QED
      BY <1>2, <3>1, FrontKept
  <2>2. stack[c][m] \in DOMAIN Callee /\ Callee[stack[c][m]] = frame[c].name
    BY <1>2, <2>1, RunUnder
  <2>3. frame[c].name # "getoutput"
    BY <2>2 DEF Callee
  <2>4. ASSUME frame[c].name = "getstatusoutput"
        PROVE  call[c].kind = "shell"
    <3>1. stack[c][m] = "getoutput"
      BY <2>2, <2>4 DEF Callee
    <3>2. CASE m = 1
      BY <1>2, <3>1, <3>2 DEF Chain
    <3>3. CASE m # 1
      <4>1. m - 1 \in 1 .. m /\ m - 1 # m /\ (m - 1) + 1 = m
        BY <2>1, <3>3, Predecessor
      <4>2. stack[c][m - 1] \in DOMAIN Callee /\ Callee[stack[c][m - 1]] = stack[c][m]
        BY <4>1 DEF Chain
      <4> QED
        BY <3>1, <4>2 DEF Callee
    <3> QED
      BY <3>2, <3>3
  <2> QED
    BY <2>3, <2>4 DEF ShellOnly
<1> QED
  BY <1>1, <1>2

LEMMA MovesTells ==
  ASSUME NEW c \in Calls, CallTypes, Started(c), Chain(c), Tells(c), Moves(c)
  PROVE  Tells(c)'
<1>0. /\ frame \in [Calls -> Frames] /\ result \in [Calls -> Results] /\ call' = call
      /\ ran \in [Calls -> Seq({"vm", "host"})] /\ code \in [Calls -> ExitCodes \union {"none"}]
      /\ stack[c] \in Seq(Names) /\ request \in [Calls -> Requested]
  BY MovesAlone DEF CallTypes
<1>1. CASE frame'[c].at # "returning"
  BY <1>1 DEF Tells
<1>2. CASE frame'[c].at = "returning" /\ result'[c] \notin {"zero", "nonzero"}
  BY <1>2 DEF Tells
<1>3. CASE LibraryCalls(c)
  BY <1>0, <1>1, <1>2, <1>3 DEF LibraryCalls, Enter, Raise, Return, Frames
<1>4. CASE LibraryPopen(c)
  <2>1. CASE Raise(c)
    BY <1>0, <1>2, <2>1 DEF Raise, Return, Frames
  <2>2. CASE ~Raise(c)
    <3>1. /\ ran'[c] = Append(ran[c], "host") /\ ran[c] = <<>> /\ request'[c] = "none"
          /\ result'[c] = code'[c] /\ frame'[c].name = "Popen" /\ frame[c].at = "called"
      BY <1>0, <1>4, <2>2 DEF LibraryPopen, Return, In, Started, Early, Frames
    <3>2. Len(ran'[c]) = 1
      BY <3>1
    <3> QED
      BY <1>0, <3>1, <3>2 DEF Tells, Checks
  <2> QED
    BY <2>1, <2>2
<1>5. CASE \E managed \in BOOLEAN : LibraryReturns(c, managed)
  <2>1. PICK managed \in BOOLEAN : LibraryReturns(c, managed)
    BY <1>5
  <2> DEFINE n == Last(stack[c])
  <2>2. /\ frame[c].at = "returning" /\ stack[c] # <<>> /\ frame'[c].name = n
        /\ result'[c] = Through(c, n, result[c], managed)
        /\ UNCHANGED <<request, ran, code>>
    BY <1>0, <2>1 DEF LibraryReturns, Frames, clientVars
  <2>3. /\ n \in DOMAIN Callee /\ Callee[n] = frame[c].name
        /\ frame[c].name = "run" => call[c].name # "run"
    BY <2>2, RunUnder
  <2>4. result'[c] = "zero" => result[c] = "zero"
    BY <2>2 DEF Through, ExitCodes
  <2>5. ASSUME result'[c] = "nonzero"
        PROVE  ~Checks(c)'
    <3>1. CASE n = "run"
      BY <1>0, <2>2, <2>5, <3>1 DEF Through, Checks, RunChecks
    <3>2. CASE n = "check_call"
      BY <2>2, <2>5, <3>2 DEF Through
    <3>3. CASE n = "check_output"
      BY <2>2, <2>3, <2>5, <3>3, CalleeFacts DEF Through, Tells, Checks, RunChecks
    <3>4. CASE n \notin {"run", "check_call", "check_output"}
      <4>1. n # "Sandbox"
        BY <2>3, CalleeFacts DEF Names
      <4> QED
        BY <2>2, <3>4, <4>1 DEF Checks
    <3> QED
      BY <3>1, <3>2, <3>3, <3>4
  <2> QED
    BY <2>2, <2>4, <2>5 DEF Tells
<1>6. CASE frame[c].at = "called" /\ Raise(c)
  BY <1>0, <1>2, <1>6 DEF Raise, Return, Frames
<1>7. CASE Hands(c)
  BY <1>0, <1>1, <1>7 DEF Hands, Enter, Frames
<1>8. CASE frame[c].at = "called" /\ Goto(c, "construct")
  BY <1>0, <1>1, <1>8 DEF Goto, Frames
<1>9. CASE Makes(c)
  BY <1>0, <1>1, <1>2, <1>9 DEF Makes, MakeSandbox, Frames
<1>10. CASE Post(c)
  BY <1>0, <1>1, <1>10 DEF Post, Frames
<1>11. CASE Respond(c)
  <2>1. /\ frame'[c].at = IF Outcome(c) = "error" THEN "error" ELSE "returning"
        /\ frame'[c].name = frame[c].name /\ result'[c] = Outcome(c)
        /\ UNCHANGED <<request, ran, code>>
    BY <1>0, <1>11 DEF Respond, Frames, clientVars
  <2>2. Outcome(c) \in {"zero", "nonzero"} => Answered(c) /\ Outcome(c) = code[c]
    BY DEF Outcome
  <2>3. Outcome(c) = "nonzero" => ~Checks(c)
    BY <2>2 DEF Outcome
  <2>4. Answered(c) => request[c] = "answered" /\ Len(ran[c]) = 1
    BY DEF Answered, Started
  <2>5. Checks(c)' = Checks(c)
    BY <1>0, <2>1 DEF Checks, RunChecks
  <2> QED
    BY <2>1, <2>2, <2>3, <2>4, <2>5 DEF Tells
<1>12. CASE Catches(c)
  <2>1. /\ frame'[c].name = frame[c].name /\ result'[c] # "zero"
        /\ result'[c] = "nonzero" => ~Checks(c)
    BY <1>0, <1>12 DEF Catches, Return, Frames
  <2>2. Checks(c)' = Checks(c)
    BY <1>0, <2>1 DEF Checks, RunChecks
  <2> QED
    BY <2>1, <2>2 DEF Tells
<1> QED
  BY <1>3, <1>4, <1>5, <1>6, <1>7, <1>8, <1>9, <1>10, <1>11, <1>12 DEF Moves

LEMMA SetOf ==
  /\ ToSet(<<>>) = {}
  /\ \A x \in {"vm", "host"}, s \in Seq({"vm", "host"}) :
       s = <<>> => ToSet(Append(s, x)) = {x}
<1>1. \A x \in {"vm", "host"} : Append(<<>>, x) = <<x>>
  OBVIOUS
<1>2. \A x \in {"vm", "host"} : ToSet(<<x>>) = {x}
  BY DEF ToSet
<1>3. ToSet(<<>>) = {}
  BY DEF ToSet
<1> QED
  BY <1>1, <1>2, <1>3

(* Whom Contained protects from the host.                                  *)
Protected(c) ==
  /\ call[c].calm /\ call[c].kind \in Promised
  /\ call[c].kept => call[c].name # "Popen"

LEMMA MovesApart ==
  ASSUME NEW c \in Calls, PatchInv, ImageInv, CallTypes, Started(c), Chain(c), Apart(c),
         Moves(c), UNCHANGED program
  PROVE  Apart(c)'
<1>0. /\ frame \in [Calls -> Frames] /\ used \in [Calls -> Images \union {DefaultImage, NoImage}]
      /\ ran[c] \in Seq({"vm", "host"}) /\ ran \in [Calls -> Seq({"vm", "host"})]
      /\ request \in [Calls -> Requested]
      /\ call' = call /\ asked' = asked /\ patched' = patched /\ Promised' = Promised
  BY MovesAlone DEF CallTypes, Promised
<1>1. CASE /\ frame[c].at # "idle" /\ frame'[c].at \notin {"idle", "called"}
           /\ call[c].kind \in Local => frame'[c].at = "returning"
           /\ UNCHANGED <<ran, used, request>>
  BY <1>0, <1>1 DEF Apart
<1>2. CASE LibraryCalls(c)
  <2>1. CASE Raise(c)
    BY <1>0, <1>1, <1>2, <2>1 DEF LibraryCalls, Raise, Return, Frames, clientVars
  <2>2. CASE ~Raise(c)
    <3>1. /\ frame[c].at = "called" /\ frame'[c].at = "called" /\ frame[c].fn = 0
          /\ frame[c].name \in DOMAIN Callee
          /\ frame'[c].fn = subprocess[Callee[frame[c].name]]
          /\ UNCHANGED <<ran, used, request>>
      BY <1>0, <1>2, <2>2 DEF LibraryCalls, Enter, Frames, clientVars
    <3>2. ASSUME Protected(c)
          PROVE  frame'[c].fn = 1
      <4>1. patched /\ Active
        BY <3>1, <3>2 DEF Protected, Apart, ImageInv
      <4>2. All(1)
        BY <4>1 DEF Active, PatchInv
      <4> QED
        BY <3>1, <4>2, CalleeFacts DEF All
    <3> QED
      BY <1>0, <3>1, <3>2 DEF Apart, Protected
  <2> QED
    BY <2>1, <2>2
<1>3. CASE LibraryPopen(c)
  <2>1. CASE Raise(c)
    BY <1>0, <1>1, <1>3, <2>1 DEF LibraryPopen, In, Raise, Return, Frames, clientVars
  <2>2. CASE ~Raise(c)
    <3>1. /\ frame[c].at = "called" /\ frame'[c].at = "returning" /\ frame[c].fn = 0
          /\ frame[c].name = "Popen" /\ ran'[c] = Append(ran[c], "host")
          /\ UNCHANGED <<used, request>>
      BY <1>0, <1>3, <2>2 DEF LibraryPopen, In, Return, Frames
    <3>2. ~Protected(c)
      BY <3>1 DEF Protected, Apart
    <3>3. "vm" \notin ToSet(ran'[c])
      BY <1>0, <3>1, SetOf DEF Started, Early
    <3> QED
      BY <1>0, <3>1, <3>2, <3>3 DEF Apart, Protected
  <2> QED
    BY <2>1, <2>2
<1>4. CASE \E managed \in BOOLEAN : LibraryReturns(c, managed)
  BY <1>0, <1>1, <1>4 DEF LibraryReturns, Frames, clientVars
<1>5. CASE frame[c].at = "called" /\ Raise(c)
  BY <1>0, <1>1, <1>5 DEF Raise, Return, Frames, clientVars
<1>6. CASE Hands(c)
  <2>1. /\ frame[c].at = "called" /\ frame'[c].at = "called" /\ call[c].kind \notin Promised
        /\ UNCHANGED <<ran, used, request>>
    BY <1>0, <1>6 DEF Hands, Enter, Frames, clientVars
  <2> QED
    BY <1>0, <2>1 DEF Apart
<1>7. CASE frame[c].at = "called" /\ call[c].kind \notin Local /\ Goto(c, "construct")
  BY <1>0, <1>1, <1>7 DEF Goto, Frames, clientVars
<1>8. CASE Makes(c)
  <2>1. /\ frame[c].at = "construct" /\ frame'[c].at \in {"sandbox", "returning"}
        /\ UNCHANGED <<ran, request>>
    BY <1>0, <1>8 DEF Makes, MakeSandbox, Frames, clientVars
  <2>2. call[c].kind \notin Local
    BY <2>1 DEF Apart
  <2>3. ASSUME Protected(c)
        PROVE  used'[c] = asked
    <3>1. frame[c].name # "Sandbox"
      <4>1. CASE stack[c] = <<>>
        BY <2>1, <2>3, <4>1 DEF Protected, Apart, Chain
      <4>2. CASE stack[c] # <<>>
        BY <4>2, RunUnder, CalleeFacts DEF Names
      <4> QED
        BY <4>1, <4>2
    <3>2. used'[c] = patch_config
      BY <1>0, <1>8, <3>1 DEF Makes, MakeSandbox
    <3>3. Active
      BY <2>3 DEF Protected, ImageInv
    <3> QED
      BY <3>2, <3>3 DEF ImageInv
  <2> QED
    BY <1>0, <2>1, <2>2, <2>3 DEF Apart, Protected
<1>9. CASE Post(c)
  <2>1. /\ frame[c].at = "sandbox" /\ frame'[c].at = "posted" /\ UNCHANGED <<ran, used>>
    BY <1>0, <1>9 DEF Post, Exec, Frames
  <2> QED
    BY <1>0, <2>1 DEF Apart
<1>10. CASE Respond(c) \/ Catches(c)
  <2>1. /\ frame[c].at \in {"posted", "error"} /\ frame'[c].at \in {"error", "returning"}
        /\ UNCHANGED <<ran, used, request>>
    BY <1>0, <1>10 DEF Respond, Catches, Return, Frames, clientVars
  <2> QED
    BY <1>0, <2>1 DEF Apart
<1> QED
  BY <1>2, <1>3, <1>4, <1>5, <1>6, <1>7, <1>8, <1>9, <1>10 DEF Moves

-----------------------------------------------------------------------------
(* The thread that patches leaves a call alone, apart from ending its calm *)
(* when an unpatch begins.                                                 *)
Disturbs ==
  /\ UNCHANGED <<frame, stack, request, ran, code, used, result>>
  /\ call' \in {call, [c \in Calls |-> [call[c] EXCEPT !.calm = FALSE]]}
  /\ \A c \in Calls : call'[c].calm => asked' = asked /\ (patched => patched')

LEMMA PatchImages ==
  ASSUME PatchInv, ImageInv, CallTypes, PatchMoves, UNCHANGED program
  PROVE  ImageInv' /\ Disturbs
<1>0. \A c \in Calls : call[c].calm => Active
  BY DEF ImageInv
<1>1. CASE \E i \in Images : Test(i)
  <2>1. /\ patcher.step = "idle" /\ ~patched /\ patcher'.step = "prepare"
        /\ UNCHANGED <<patched, patch_config, asked, call, frame, stack, request, ran, code, used, result>>
    BY <1>1 DEF Test, PatchFrame, moduleVars, clientVars, callVars
  <2> QED
    BY <1>0, <2>1 DEF ImageInv, Active, Disturbs
<1>2. CASE \E order \in Seq(Names) : Prepare(order)
  <2>1. /\ patcher.step = "prepare" /\ patch_config' = asked' /\ patch_config' = patcher.image
        /\ UNCHANGED <<patched, call, frame, stack, request, ran, code, used, result>>
    BY <1>2 DEF Prepare, PatchFrame, clientVars, callVars
  <2>2. patcher.image \in Images \union {NoImage}
    BY DEF PatchInv, PatchTypes
  <2> QED
    BY <1>0, <2>1, <2>2 DEF ImageInv, Active, Disturbs
<1>3. CASE \E order \in Seq(Names) : BeginUnpatch(order)
  <2>1. /\ call' = [c \in Calls |-> [call[c] EXCEPT !.calm = FALSE]] /\ patcher'.step = "restore"
        /\ UNCHANGED <<patched, patch_config, asked, frame, stack, request, ran, code, used, result>>
    BY <1>3 DEF BeginUnpatch, moduleVars, clientVars, PatchInv, PatchTypes
  <2>2. \A c \in Calls : ~call'[c].calm
    BY <2>1 DEF CallTypes
  <2> QED
    BY <2>1, <2>2 DEF ImageInv, Active, Disturbs
<1>4. CASE Install \/ Finish
  <2>1. /\ patcher.step \in {"install", "finish"} /\ (patched => patched')
        /\ UNCHANGED <<patch_config, asked, call, frame, stack, request, ran, code, used, result>>
    BY <1>4 DEF Install, Finish, Assign, PatchFrame, clientVars, callVars
  <2>2. Active'
    <3>1. CASE Install
      BY <3>1 DEF Install, Assign, Active, PatchInv, PatchTypes
    <3>2. CASE Finish
      BY <3>2 DEF Finish, Active, PatchInv, PatchTypes
    <3> QED
      BY <1>4, <3>1, <3>2
  <2> QED
    BY <2>1, <2>2 DEF ImageInv, Active, Disturbs
<1>5. CASE Restore
  <2>1. /\ patcher.step = "restore" /\ patcher'.step \in {"restore", "forget"}
        /\ UNCHANGED <<patch_config, asked, call, frame, stack, request, ran, code, used, result>>
    BY <1>5 DEF Restore, Assign, PatchFrame, clientVars, callVars, PatchInv, PatchTypes
  <2> QED
    BY <1>0, <2>1 DEF ImageInv, Active, Disturbs
<1>6. CASE \/ Unmark("forget", "last") \/ DropOriginals("forget", "last") \/ Unmark("last", "idle")
           \/ DropOriginals("last", "idle") /\ program = "bubbleproc"
  <2>1. /\ patcher.step \in {"forget", "last"} /\ (patcher'.step = "last" \/ ~patched')
        /\ patcher'.step \in {"last", "idle"}
        /\ UNCHANGED <<patch_config, asked, call, frame, stack, request, ran, code, used, result>>
    BY <1>6 DEF Unmark, DropOriginals, PatchFrame, clientVars, callVars, PatchInv, PatchTypes
  <2> QED
    BY <1>0, <2>1 DEF ImageInv, Active, Disturbs
<1> QED
  BY <1>1, <1>2, <1>3, <1>4, <1>5, <1>6 DEF PatchMoves

CallRecord == [name : Ways, kind : Kinds, check : BOOLEAN, kept : BOOLEAN, calm : BOOLEAN]

LEMMA PatchCalls ==
  ASSUME ImageInv, CallTypes, CallInv, Disturbs, UNCHANGED program
  PROVE  CallTypes' /\ CallInv'
<1>1. call \in [Calls -> CallRecord] /\ UNCHANGED <<frame, stack, request, ran, code, used, result>>
  BY DEF CallTypes, CallRecord, Disturbs
<1>2. call' \in [Calls -> CallRecord]
  BY <1>1 DEF CallRecord, Disturbs
<1>3. CallTypes'
  BY <1>1, <1>2 DEF CallTypes, CallRecord
<1>4. ASSUME NEW c \in Calls
      PROVE  Started(c)' /\ Chain(c)' /\ Tells(c)' /\ Apart(c)'
  <2>1. Started(c) /\ Chain(c) /\ Tells(c) /\ Apart(c)
    BY DEF CallInv
  <2>2. /\ call'[c].name = call[c].name /\ call'[c].kind = call[c].kind
        /\ call'[c].check = call[c].check /\ call'[c].kept = call[c].kept
        /\ call'[c].calm => call[c].calm
    <3>1. CASE call' = call
      BY <3>1
    <3>2. CASE call' = [d \in Calls |-> [call[d] EXCEPT !.calm = FALSE]]
      BY <1>1, <3>2 DEF CallRecord
    <3> QED
      BY <3>1, <3>2 DEF Disturbs
  <2>3. Started(c)'
    BY <1>1, <2>1 DEF Started
  <2>4. Chain(c)'
    BY <1>1, <2>1, <2>2 DEF Chain
  <2>5. Tells(c)'
    BY <1>1, <2>1, <2>2 DEF Tells, Checks, RunChecks
  <2>6. Apart(c)'
    <3>1. call'[c].calm => asked' = asked /\ (patched => patched')
      BY DEF Disturbs
    <3>2. Promised' = Promised
      BY DEF Promised
    <3> QED
      BY <1>1, <2>1, <2>2, <3>1, <3>2 DEF Apart
  <2> QED
    BY <2>3, <2>4, <2>5, <2>6
<1> QED
  BY <1>3, <1>4 DEF CallInv

(* The other calls do not notice what one of them does.                    *)
LEMMA OthersKeep ==
  ASSUME CallInv, NEW c \in Calls, Alone(c), \A d \in Calls \ {c} : call'[d] = call[d],
         UNCHANGED <<asked, patched, program>>,
         Started(c)' /\ Chain(c)' /\ Tells(c)' /\ Apart(c)'
  PROVE  CallInv'
<1>1. ASSUME NEW d \in Calls, d # c
      PROVE  Started(d)' /\ Chain(d)' /\ Tells(d)' /\ Apart(d)'
  <2>1. /\ Started(d) /\ Chain(d) /\ Tells(d) /\ Apart(d)
        /\ call'[d] = call[d] /\ frame'[d] = frame[d] /\ stack'[d] = stack[d]
        /\ request'[d] = request[d] /\ ran'[d] = ran[d] /\ code'[d] = code[d]
        /\ used'[d] = used[d] /\ result'[d] = result[d]
    BY <1>1 DEF CallInv, Alone
  <2>2. Started(d)'
    BY <2>1 DEF Started
  <2>3. Chain(d)'
    BY <2>1 DEF Chain
  <2>4. Tells(d)'
    BY <2>1 DEF Tells, Checks, RunChecks
  <2>5. Promised' = Promised
    BY DEF Promised
  <2>6. Apart(d)'
    BY <2>1, <2>5 DEF Apart
  <2> QED
    BY <2>2, <2>3, <2>4, <2>6
<1> QED
  BY <1>1 DEF CallInv

LEMMA MovesKeep ==
  ASSUME IInv, NEW c \in Calls, Moves(c), UNCHANGED program
  PROVE  IInv'
<1>1. /\ UNCHANGED <<subprocess, originals, patched, patch_config, patcher, asked, call>>
      /\ Alone(c)
  BY MovesAlone DEF IInv
<1>2. PatchInv' /\ ImageInv'
  BY <1>1 DEF IInv, PatchInv, PatchTypes, All, Due, ImageInv, Active
<1>3. CallTypes'
  BY MovesTypes DEF IInv, PatchInv, ImageInv
<1>4. Started(c)' /\ Chain(c)' /\ Tells(c)' /\ Apart(c)'
  BY MovesStarted, MovesChain, MovesTells, MovesApart DEF IInv, CallInv
<1>5. CallInv'
  BY <1>1, <1>4, OthersKeep DEF IInv
<1> QED
  BY <1>2, <1>3, <1>5 DEF IInv

(* and of the server,                                                      *)
LEMMA ServesKeep ==
  ASSUME IInv, NEW c \in Calls, Serves(c), UNCHANGED program
  PROVE  IInv'
<1>1. /\ UNCHANGED <<subprocess, originals, patched, patch_config, patcher, asked, call,
                     frame, stack, used, result>>
      /\ Server(c)
  BY DEF Serves, moduleVars, patcherVars, callVars
<1>2. PatchInv' /\ ImageInv'
  BY <1>1 DEF IInv, PatchInv, PatchTypes, All, Due, ImageInv, Active
<1>3. /\ request \in [Calls -> Requested] /\ ran \in [Calls -> Seq({"vm", "host"})]
      /\ code \in [Calls -> ExitCodes \union {"none"}] /\ ran[c] \in Seq({"vm", "host"})
      /\ Started(c) /\ Chain(c) /\ Tells(c) /\ Apart(c)
  BY DEF IInv, CallTypes, CallInv
<1>4. /\ \E r \in Requested : request' = [request EXCEPT ![c] = r]
      /\ ran' = ran \/ \E s \in Seq({"vm", "host"}) : ran' = [ran EXCEPT ![c] = s]
      /\ code' = code \/ \E k \in ExitCodes \union {"none"} : code' = [code EXCEPT ![c] = k]
  <2>1. CASE ServerStarts(c)
    <3>1. Append(ran[c], "vm") \in Seq({"vm", "host"})
      BY <1>3
    <3> QED
      BY <2>1, <3>1 DEF ServerStarts, Requested
  <2>2. CASE ServerEnds(c)
    BY <2>2 DEF ServerEnds, Requested
  <2>3. CASE ServerFails(c)
    BY <2>3 DEF ServerFails, Requested
  <2> QED
    BY <1>1, <2>1, <2>2, <2>3 DEF Server
<1>5. /\ request' \in [Calls -> Requested] /\ ran' \in [Calls -> Seq({"vm", "host"})]
      /\ code' \in [Calls -> ExitCodes \union {"none"}]
  <2>1. request' \in [Calls -> Requested]
    BY <1>3, <1>4, PutIn
  <2>2. ran' \in [Calls -> Seq({"vm", "host"})]
    BY <1>3, <1>4, PutOne
  <2>3. code' \in [Calls -> ExitCodes \union {"none"}]
    BY <1>3, <1>4, PutOne
  <2> QED
    BY <2>1, <2>2, <2>3
<1>6. CallTypes'
  BY <1>1, <1>5 DEF IInv, CallTypes
<1>7. Alone(c)
  BY <1>1, <1>3, <1>4 DEF Alone
<1>8. /\ request[c] \in {"posted", "running"} /\ frame[c].at \notin Early
      /\ request'[c] \in {"running", "answered", "failed"}
      /\ request'[c] = "answered" => code'[c] \in ExitCodes
  BY <1>1, <1>3 DEF Server, ServerStarts, ServerEnds, ServerFails, Started, ExitCodes
<1>9. /\ Len(ran'[c]) <= 1 /\ (request'[c] \in {"running", "answered"} => Len(ran'[c]) = 1)
      /\ ToSet(ran'[c]) \subseteq ToSet(ran[c]) \union {"vm"}
  <2>1. CASE ServerStarts(c)
    <3>1. ran[c] = <<>> /\ ran'[c] = Append(ran[c], "vm")
      BY <1>3, <2>1 DEF ServerStarts, Started
    <3>2. Len(ran'[c]) = 1
      BY <3>1
    <3>3. ToSet(ran'[c]) = {"vm"}
      BY <1>3, <3>1, SetOf
    <3> QED
      BY <3>2, <3>3
  <2>2. CASE ServerEnds(c) \/ ServerFails(c)
    BY <1>3, <2>2 DEF ServerEnds, ServerFails, Started
  <2> QED
    BY <1>1, <2>1, <2>2 DEF Server
<1>10. Started(c)'
  BY <1>1, <1>8, <1>9 DEF Started
<1>11. Chain(c)'
  BY <1>1, <1>3 DEF Chain
<1>12. Tells(c)'
  BY <1>1, <1>3, <1>8 DEF Tells, Checks, RunChecks
<1>13. Apart(c)'
  <2>1. Promised' = Promised
    BY DEF Promised
  <2>2. call[c].kind \notin Local
    BY <1>3, <1>8 DEF Apart
  <2> QED
    BY <1>1, <1>3, <1>9, <2>1, <2>2 DEF Apart
<1>14. CallInv'
  BY <1>1, <1>7, <1>10, <1>11, <1>12, <1>13, OthersKeep DEF IInv
<1> QED
  BY <1>2, <1>6, <1>14 DEF IInv

(* A call begins: of a replaced function, or when every function is one,   *)
(* unless its caller kept another from before.                             *)
LEMMA BeginKeeps ==
  ASSUME IInv, UNCHANGED program, NEW c \in Calls, NEW n \in Names, NEW kind \in Kinds,
         NEW check \in BOOLEAN, NEW kept \in BOOLEAN, Begin(c, n, kind, check, kept)
  PROVE  IInv'
<1> DEFINE fn == IF kept THEN 0 ELSE subprocess[n]
           calm == ~Unpatching /\ (patched \/ fn > 0)
<1>1. /\ frame[c].at = "idle"
      /\ n \in {"getoutput", "getstatusoutput"} => kind = "shell"
      /\ check => n = "run"
      /\ call' = [call EXCEPT ![c] = [name |-> n, kind |-> kind, check |-> check,
                                     kept |-> kept, calm |-> calm]]
      /\ frame' = [frame EXCEPT ![c] = [name |-> n, fn |-> fn, at |-> "called"]]
      /\ UNCHANGED <<subprocess, originals, patched, patch_config, patcher, asked,
                     request, ran, code, stack, used, result>>
  BY DEF Begin, clientVars, moduleVars, patcherVars
<1>2. /\ call \in [Calls -> CallRecord] /\ frame \in [Calls -> Frames]
      /\ Started(c) /\ Chain(c) /\ Tells(c) /\ Apart(c)
  BY DEF IInv, CallTypes, CallRecord, CallInv
<1>3. fn \in {0, 1} /\ calm \in BOOLEAN
  BY DEF IInv, PatchInv, PatchTypes
<1>4. calm => Active
  <2>1. patcher.step \in {"idle", "prepare", "install", "finish", "restore", "forget", "last"}
    BY DEF IInv, PatchInv, PatchTypes
  <2>2. /\ patcher.step = "prepare" => fn = 0 /\ ~patched
        /\ patcher.step = "idle" /\ ~patched => fn = 0
    BY DEF IInv, PatchInv, All
  <2> QED
    BY <2>1, <2>2 DEF Active, Unpatching
<1>5. call'[c] = [name |-> n, kind |-> kind, check |-> check, kept |-> kept, calm |-> calm]
  BY <1>1, <1>2
<1>6. frame'[c] = [name |-> n, fn |-> fn, at |-> "called"]
  BY <1>1, <1>2
<1>7. \A d \in Calls \ {c} : call'[d] = call[d] /\ frame'[d] = frame[d]
  BY <1>1, <1>2
<1>8. PatchInv'
  BY <1>1 DEF IInv, PatchInv, PatchTypes, All, Due
<1>9. ImageInv'
  <2>1. Active' = Active /\ UNCHANGED <<patch_config, asked>>
    BY <1>1 DEF Active
  <2>2. ASSUME NEW d \in Calls, call'[d].calm
        PROVE  Active
    <3>1. CASE d = c
      <4>1. call'[c].calm = calm
        BY <1>5
      <4>2. call'[c].calm
        BY <2>2, <3>1
      <4> QED
        BY <1>4, <4>1, <4>2
    <3>2. CASE d # c
      BY <1>7, <2>2, <3>2 DEF IInv, ImageInv
    <3> QED
      BY <3>1, <3>2
  <2> QED
    BY <2>1, <2>2 DEF IInv, ImageInv
<1>10. CallTypes'
  <2>1. call' \in [Calls -> CallRecord]
    BY <1>1, <1>2, <1>3 DEF CallRecord, Ways
  <2>2. frame' \in [Calls -> Frames]
    BY <1>1, <1>2, <1>3 DEF Frames, Ways, Ats, Early
  <2> QED
    BY <1>1, <2>1, <2>2 DEF IInv, CallTypes, CallRecord
<1>11. Started(c)'
  BY <1>1, <1>2, <1>6 DEF Started, Early
<1>12. Chain(c)'
  BY <1>1, <1>2, <1>5, <1>6 DEF Chain
<1>13. Tells(c)'
  BY <1>6 DEF Tells
<1>14. Apart(c)'
  <2>1. /\ ran'[c] = <<>> /\ request'[c] = "none" /\ used'[c] = NoImage
    BY <1>1, <1>2 DEF Started, Early, Apart
  <2>2. ASSUME calm, kept => n # "Popen"
        PROVE  fn = 1 \/ (patched /\ n # "Popen")
    <3>1. CASE kept
      <4>1. patched
        BY <2>2, <3>1
      <4> QED
        BY <2>2, <3>1, <4>1
    <3>2. CASE ~kept
      <4>1. CASE fn = 0
        <5>1. patched /\ Active
          BY <1>4, <2>2, <4>1
        <5>2. All(1)
          BY <5>1 DEF Active, IInv, PatchInv
        <5> QED
          BY <3>2, <4>1, <5>2 DEF All
      <4> QED
        BY <1>3, <4>1
    <3> QED
      BY <3>1, <3>2
  <2>3. ToSet(ran'[c]) = {}
    BY <2>1, SetOf
  <2>4. call'[c].calm = calm /\ call'[c].name = n /\ call'[c].kept = kept /\ n # "Sandbox"
    BY <1>5 DEF Names
  <2>5. frame'[c].name = n /\ frame'[c].fn = fn /\ frame'[c].at = "called" /\ UNCHANGED patched
    BY <1>1, <1>6
  <2> HIDE DEF fn, calm
  <2> QED
    BY <2>1, <2>2, <2>3, <2>4, <2>5 DEF Apart
<1>15. CallInv'
  BY <1>1, <1>7, <1>11, <1>12, <1>13, <1>14, OthersKeep DEF IInv, Alone
<1> QED
  BY <1>8, <1>9, <1>10, <1>15 DEF IInv

LEMMA BeginSandboxKeeps ==
  ASSUME IInv, UNCHANGED program, NEW c \in Calls, NEW check \in BOOLEAN, BeginSandbox(c, check)
  PROVE  IInv'
<1>1. /\ frame[c].at = "idle"
      /\ call' = [call EXCEPT ![c].name = "Sandbox", ![c].kind = "shell", ![c].check = check]
      /\ frame' = [frame EXCEPT ![c] = [name |-> "Sandbox", fn |-> 1, at |-> "construct"]]
      /\ UNCHANGED <<subprocess, originals, patched, patch_config, patcher, asked,
                     request, ran, code, stack, used, result>>
  BY DEF BeginSandbox, clientVars, moduleVars, patcherVars
<1>2. /\ call \in [Calls -> CallRecord] /\ frame \in [Calls -> Frames]
      /\ Started(c) /\ Chain(c) /\ Tells(c) /\ Apart(c)
  BY DEF IInv, CallTypes, CallRecord, CallInv
<1>3. /\ call'[c].name = "Sandbox" /\ call'[c].kind = "shell" /\ call'[c].check = check
      /\ ~call'[c].calm /\ ~call'[c].kept
  BY <1>1, <1>2 DEF CallRecord, Apart
<1>4. frame'[c] = [name |-> "Sandbox", fn |-> 1, at |-> "construct"]
  BY <1>1, <1>2
<1>5. \A d \in Calls \ {c} : call'[d] = call[d] /\ frame'[d] = frame[d]
  BY <1>1, <1>2
<1>6. PatchInv'
  BY <1>1 DEF IInv, PatchInv, PatchTypes, All, Due
<1>7. ImageInv'
  BY <1>1, <1>3, <1>5 DEF IInv, ImageInv, Active
<1>8. CallTypes'
  <2>1. call' \in [Calls -> CallRecord]
    <3>1. "Sandbox" \in Ways /\ "shell" \in Kinds
      BY DEF Ways, Kinds
    <3> QED
      BY <1>1, <1>2, <3>1 DEF CallRecord
  <2>2. frame' \in [Calls -> Frames]
    BY <1>1, <1>2 DEF Frames, Ways, Ats, Early
  <2> QED
    BY <1>1, <2>1, <2>2 DEF IInv, CallTypes, CallRecord
<1>9. Started(c)'
  BY <1>1, <1>2, <1>4 DEF Started, Early
<1>10. Chain(c)'
  BY <1>1, <1>2, <1>3, <1>4 DEF Chain
<1>11. Tells(c)'
  BY <1>4 DEF Tells
<1>12. Apart(c)'
  BY <1>1, <1>3, <1>4 DEF Apart, Local
<1>13. CallInv'
  BY <1>1, <1>5, <1>9, <1>10, <1>11, <1>12, OthersKeep DEF IInv, Alone
<1> QED
  BY <1>6, <1>7, <1>8, <1>13 DEF IInv

-----------------------------------------------------------------------------
(* The whole program.                                                      *)
LEMMA InitInv ==
  ASSUME ProgramInit
  PROVE  IInv
<1> USE DEF ProgramInit, Init, ClientInit
<1>1. PatchInv
  <2>1. subprocess \in [Names -> {0, 1}] /\ patcher.step = "idle"
    OBVIOUS
  <2>2. patcher \in [step : {"idle", "prepare", "install", "finish", "restore", "forget", "last"},
                     todo : Seq(Names), image : Images \union {NoImage}]
    <3>1. <<>> \in Seq(Names)
      OBVIOUS
    <3> QED
      BY <3>1
  <2> QED
    BY <2>1, <2>2 DEF PatchInv, PatchTypes, All
<1>2. ImageInv
  BY DEF ImageInv, Active
<1>3. CallTypes
  <2>1. "run" \in Ways /\ "direct" \in Kinds /\ "idle" \in Ats
    BY DEF Ways, Names, Kinds, Ats, Early
  <2>2. frame \in [Calls -> Frames]
    BY <2>1 DEF Frames
  <2> QED
    BY <2>1, <2>2 DEF CallTypes, Requested, Results
<1>4. ASSUME NEW c \in Calls
      PROVE  Started(c) /\ Chain(c) /\ Tells(c) /\ Apart(c)
  <2>1. /\ frame[c].at = "idle" /\ call[c].kind = "direct" /\ call[c].name = "run"
        /\ ~call[c].calm /\ ~call[c].kept /\ ~call[c].check /\ stack[c] = <<>> /\ ran[c] = <<>>
        /\ request[c] = "none" /\ used[c] = NoImage
    OBVIOUS
  <2>2. Started(c)
    BY <2>1 DEF Started
  <2>3. Chain(c)
    BY <2>1 DEF Chain
  <2>4. Tells(c)
    BY <2>1 DEF Tells
  <2>5. Apart(c)
    BY <2>1, SetOf DEF Apart
  <2> QED
    BY <2>2, <2>3, <2>4, <2>5
<1> QED
  BY <1>1, <1>2, <1>3, <1>4 DEF IInv, CallInv

LEMMA StepInv ==
  ASSUME IInv, [Next]_allVars
  PROVE  IInv'
<1>1. ASSUME Subprocess
      PROVE  IInv'
  <2>1. UNCHANGED program
    BY <1>1 DEF Subprocess
  <2>2. CASE Patching
    <3>1. PatchMoves
      BY <2>2, BubbleprocPatches, SandboxPatches DEF Patching
    <3>2. PatchInv' /\ ImageInv' /\ Disturbs
      BY <2>1, <3>1, PatchStep, PatchImages DEF IInv
    <3>3. CallTypes' /\ CallInv'
      BY <2>1, <3>2, PatchCalls DEF IInv
    <3> QED
      BY <3>2, <3>3 DEF IInv
  <2>3. ASSUME NEW c \in Calls, CallBegins(c)
        PROVE  IInv'
    <3>1. CASE \E n \in Names, kind \in Asked, check, kept \in BOOLEAN : Begin(c, n, kind, check, kept)
      <4>1. Asked \subseteq Kinds
        BY DEF Asked
      <4> QED
        BY <2>1, <3>1, <4>1, BeginKeeps
    <3>2. CASE \E check \in BOOLEAN : BeginSandbox(c, check)
      BY <2>1, <3>2, BeginSandboxKeeps
    <3> QED
      BY <2>3, <3>1, <3>2 DEF CallBegins
  <2>4. ASSUME NEW c \in Calls, CallStep(c)
        PROVE  IInv'
    <3>1. ShellOnly(c) /\ PatchTypes /\ CallTypes
      BY OnlyShell DEF IInv, CallInv, PatchInv
    <3>2. Moves(c)
      BY <2>4, <3>1, BubbleprocMoves, SandboxMoves DEF CallStep
    <3> QED
      BY <2>1, <3>2, MovesKeep
  <2>5. ASSUME NEW c \in Calls, Serves(c)
        PROVE  IInv'
    BY <2>1, <2>5, ServesKeep
  <2> QED
    BY <1>1, <2>2, <2>3, <2>4, <2>5 DEF Subprocess
<1>2. ASSUME UNCHANGED <<subprocessVars, program>>
      PROVE  IInv'
  <2> USE <1>2 DEF subprocessVars, vars, clientVars, moduleVars, patcherVars, callVars
  <2>1. UNCHANGED <<program, subprocess, originals, patched, patch_config, patcher, asked,
                    call, frame, stack, request, ran, code, used, result>>
    OBVIOUS
  <2>2. PatchInv'
    BY <2>1 DEF IInv, PatchInv, PatchTypes, All, Due
  <2>3. ImageInv'
    BY <2>1 DEF IInv, ImageInv, Active
  <2>4. Disturbs
    BY <2>1 DEF Disturbs
  <2>5. CallTypes' /\ CallInv'
    BY <2>1, <2>4, PatchCalls DEF IInv
  <2> QED
    BY <2>2, <2>3, <2>5 DEF IInv
<1> QED
  BY <1>1, <1>2 DEF Next, UsesSessions, Streams, allVars

(* IInv holds of every state, for any calls, images and time limits.       *)
LEMMA Invariant == Spec => []IInv
  BY InitInv, StepInv, PTL DEF Spec

-----------------------------------------------------------------------------
(* A command is started once at most, however many calls are made and      *)
(* whatever server, client and patch do meanwhile (zypi_client.py:106-111, *)
(* bubbleproc.py:302-319, _sandbox.py:509-521).                            *)
THEOREM StartedOnce == Spec => []RunsOnce
<1>1. IInv => RunsOnce
  BY DEF IInv, CallInv, Started, RunsOnce
<1> QED
  BY <1>1, Invariant, PTL

(* When no patch is being made or undone, all seven functions are replaced *)
(* or none is (bubbleproc.py:571-623, _sandbox.py:679-734).                *)
THEOREM PatchedAllOrNothing == Spec => []AllOrNothing
<1>1. IInv => AllOrNothing
  BY DEF IInv, PatchInv, All, AllOrNothing
<1> QED
  BY <1>1, Invariant, PTL

(* A call that returns 0 did run its command to exit code 0, and one that  *)
(* checks does not return another, through any mix of original and         *)
(* replaced functions (bubbleproc.py:312-317, _sandbox.py:584, 609-616).   *)
THEOREM SuccessIsTrue == Spec => []SuccessTrue
<1>1. ASSUME IInv, NEW c \in Calls, Done(c)
      PROVE  /\ result[c] = "zero" => Len(ran[c]) = 1 /\ code[c] = "zero"
             /\ (call[c].check \/ call[c].name \in {"check_call", "check_output"})
                  => result[c] # "nonzero"
  <2>1. Started(c) /\ Chain(c) /\ Tells(c) /\ frame[c].at = "returning" /\ stack[c] = <<>>
    BY <1>1 DEF IInv, CallInv, Done
  <2>2. call[c].name = frame[c].name
    BY <2>1 DEF Chain
  <2>3. call[c].check \/ call[c].name \in {"check_call", "check_output"} => Checks(c)
    BY <2>1, <2>2 DEF Chain, Checks, RunChecks
  <2> QED
    BY <2>1, <2>3 DEF Tells
<1>2. IInv => SuccessTrue
  BY <1>1 DEF SuccessTrue
<1> QED
  BY <1>2, Invariant, PTL

(* What is called while all functions are replaced is contained: in a VM   *)
(* of the configured image if it is for the sandbox, never in one if it is *)
(* not (bubbleproc.py:596-602, _sandbox.py:199-203, 707-713).              *)
THEOREM CallsContained == Spec => []Contained
<1>1. ASSUME IInv, NEW c \in Calls
      PROVE  /\ /\ call[c].calm /\ call[c].kind \in Promised
                /\ call[c].kept => call[c].name # "Popen"
                => /\ "host" \notin ToSet(ran[c])
                   /\ used[c] \in {NoImage, asked}
             /\ call[c].kind \in Local => "vm" \notin ToSet(ran[c])
  <2>1. Apart(c)
    BY <1>1 DEF IInv, CallInv
  <2> QED
    BY <2>1 DEF Apart
<1>2. IInv => Contained
  BY <1>1 DEF Contained
<1> QED
  BY <1>2, Invariant, PTL

(* A generator of events that ends without an exception has yielded "done" *)
(* or "error" last, for every time limit (zypi_client.py:141-160, 231-250, *)
(* router.ex:606-695).                                                     *)
THEOREM ProgramStreamTold == Spec => []StreamTold
<1>1. ProgramInit => StreamInv
  BY StreamInvInit DEF ProgramInit
<1>2. ASSUME StreamInv, [Next]_allVars
      PROVE  StreamInv'
  <2>1. CASE StreamNext
    BY <1>2, <2>1, StreamInvStep
  <2>2. CASE UNCHANGED streamVars
    BY <1>2, <2>2 DEF StreamInv, StreamTypes, streamVars, Deadline
  <2> QED
    BY <1>2, <2>1, <2>2 DEF Next, Subprocess, UsesSessions, Streams, allVars
<1> QED
  BY <1>1, <1>2, StreamInvTold, PTL DEF Spec
=============================================================================
