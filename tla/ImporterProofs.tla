--------------------------- MODULE ImporterProofs ---------------------------
(***************************************************************************)
(* For every set of imports, whatever they ask for, and every limit: the   *)
(* slots of the image importer and the images it registers.                *)
(***************************************************************************)
EXTENDS Importer, DistinctSequences, FiniteSetTheorems

Contents == Layers \union {Absent, Partial, Mixed}

ImporterTypes ==
  /\ wanted \in Wanted
  /\ active_imports \in [Refs -> Imports \union {NoImport}]
  /\ queue \in Seq(Imports) /\ complete \subseteq Imports
  /\ phase \in [Imports -> Working \union {"new", "queued", "done", "failed", "crashed"}]
  /\ file \in [Refs -> Contents] /\ cache \in [Layers -> Contents]
  /\ source \in [Imports -> Contents]
  /\ caching \in [Imports -> Contents \union {"no", "due"}]
  /\ images \subseteq Refs

(* An import that was started and whose end has not been handled.          *)
Pending(i) == phase[i] \in Working \union {"crashed"} \/ i \in complete

(* For imports of different refs a slot is that of one import.             *)
SlotOf ==
  /\ \A i \in Imports : active_imports[RefOf[i]] # NoImport <=> Pending(i)
  /\ \A r \in Slots : RefOf[active_imports[r]] = r
  /\ \A i \in complete : phase[i] \in {"done", "failed"}

QueueOf == Distinct(queue) /\ Elements(queue) = {i \in Imports : phase[i] = "queued"}

Limit ==
  /\ IsFiniteSet(Slots) /\ Cardinality(Slots) <= MaxConcurrent
  /\ queue # <<>> => Cardinality(Slots) = MaxConcurrent

SlotInv == Apart(RefOf) => SlotOf /\ QueueOf /\ Limit

(* For imports of different refs and layers: until an import has written   *)
(* its image nothing is in the cache for it, nobody else is at its file,   *)
(* and ImageStore does not know it.                                        *)
Unbuilt == {"new", "queued", "extracting", "extracted"}

Alone(i) ==
  /\ phase[i] # "copying"
  /\ phase[i] \in Unbuilt => cache[LayersOf[i]] = Absent
  /\ phase[i] \in Unbuilt \union {"building"} => caching[i] = "no"
  /\ phase[i] = "building" => file[RefOf[i]] = Partial
  /\ phase[i] = "built" => file[RefOf[i]] = LayersOf[i]

ImageInv == Apart(RefOf) /\ Apart(LayersOf) =>
  /\ \A i \in Imports : Alone(i)
  /\ \A r \in images : \E i \in Imports :
       RefOf[i] = r /\ phase[i] = "done" /\ file[r] = LayersOf[i]

ImporterInv == ImporterTypes /\ SlotInv /\ ImageInv

-----------------------------------------------------------------------------
LEMMA WantedTypes ==
  ASSUME ImporterTypes
  PROVE  RefOf \in [Imports -> Refs] /\ LayersOf \in [Imports -> Layers]
  BY ImporterAssumption DEF ImporterTypes, RefOf, LayersOf

LEMMA TypesInit == Init => ImporterTypes
  BY ImporterAssumption DEF Init, ImporterTypes, Contents

(* The head of the queue and what is behind it.                            *)
LEMMA QueueHead ==
  ASSUME NEW q \in Seq(Imports), q # <<>>
  PROVE  Head(q) \in Imports /\ Tail(q) \in Seq(Imports)
  OBVIOUS

LEMMA TypesStep ==
  ASSUME ImporterTypes, [Next]_vars
  PROVE  ImporterTypes'
<1> USE DEF ImporterTypes
<1>0. RefOf \in [Imports -> Refs] /\ LayersOf \in [Imports -> Layers]
  BY WantedTypes
<1>1. CASE UNCHANGED vars
  BY <1>1 DEF vars, serverVars, diskVars, tableVars
<1>2. ASSUME NEW i \in Imports, QueueImport(i), UNCHANGED wanted
      PROVE  ImporterTypes'
  <2>1. /\ RefOf[i] \in Refs /\ Append(queue, i) \in Seq(Imports)
        /\ queue' \in {queue, Append(queue, i)}
        /\ active_imports' \in {active_imports, [active_imports EXCEPT ![RefOf[i]] = i]}
        /\ \E s \in {"extracting", "queued"} : phase' = [phase EXCEPT ![i] = s]
        /\ UNCHANGED <<complete, source, caching, diskVars, images, wanted>>
    BY <1>0, <1>2 DEF QueueImport
  <2> QED
    BY <2>1 DEF diskVars, Working
<1>3. ASSUME NEW i \in Imports, ImportComplete(i), UNCHANGED wanted
      PROVE  ImporterTypes'
  <2>1. queue # <<>> => Head(queue) \in Imports /\ Tail(queue) \in Seq(Imports)
    BY QueueHead
  <2> DEFINE left == [active_imports EXCEPT ![RefOf[i]] = NoImport]
             j == Head(queue)
  <2>2. left \in [Refs -> Imports \union {NoImport}]
    OBVIOUS
  <2>3. \/ /\ queue # <<>> /\ queue' = Tail(queue)
           /\ phase' = [phase EXCEPT ![j] = "extracting"]
           /\ active_imports' = [left EXCEPT ![RefOf[j]] = j]
        \/ active_imports' = left /\ UNCHANGED <<queue, phase>>
    BY <1>3 DEF ImportComplete, MaybeStartNext
  <2>4. complete' \subseteq Imports /\ UNCHANGED <<source, caching, diskVars, images, wanted>>
    BY <1>3 DEF ImportComplete
  <2> HIDE DEF left, j
  <2>5. CASE active_imports' = left /\ UNCHANGED <<queue, phase>>
    BY <2>2, <2>4, <2>5 DEF diskVars
  <2>6. CASE /\ queue # <<>> /\ queue' = Tail(queue)
             /\ phase' = [phase EXCEPT ![j] = "extracting"]
             /\ active_imports' = [left EXCEPT ![RefOf[j]] = j]
    <3>1. j \in Imports /\ RefOf[j] \in Refs /\ queue' \in Seq(Imports)
      BY <1>0, <2>1, <2>6 DEF j
    <3>2. active_imports' \in [Refs -> Imports \union {NoImport}]
      BY <2>2, <2>6, <3>1
    <3> QED
      BY <2>4, <2>6, <3>1, <3>2 DEF diskVars, Working
  <2> QED
    BY <2>3, <2>5, <2>6
<1>4. ASSUME NEW i \in Imports, Extract(i), UNCHANGED wanted
      PROVE  ImporterTypes'
  BY <1>4 DEF Extract, Fail, TaskFrame, diskVars, Working
<1>5. ASSUME NEW i \in Imports, BuildBegin(i), UNCHANGED wanted
      PROVE  ImporterTypes'
  BY <1>0, <1>5 DEF BuildBegin, Truncate, TaskFrame, Working, Contents
<1>6. ASSUME NEW i \in Imports, BuildEnds(i) \/ CopyEnds(i), UNCHANGED wanted
      PROVE  ImporterTypes'
  BY <1>0, <1>6 DEF BuildEnds, CopyEnds, Written, Fail, TaskFrame, Working, Contents
<1>7. ASSUME NEW i \in Imports, Register(i) \/ StatRaises(i) \/ TaskCrash(i), UNCHANGED wanted
      PROVE  ImporterTypes'
  BY <1>0, <1>7 DEF Register, StatRaises, TaskCrash, Raise, serverVars, diskVars, tableVars, Working
<1>8. ASSUME NEW i \in Imports, CacheBegin(i), UNCHANGED wanted
      PROVE  ImporterTypes'
  BY <1>0, <1>8 DEF CacheBegin, serverVars, tableVars, Contents
<1>9. ASSUME NEW i \in Imports, CacheEnd(i), UNCHANGED wanted
      PROVE  ImporterTypes'
  <2>1. \/ UNCHANGED cache
        \/ \E v \in Contents : cache' = [cache EXCEPT ![LayersOf[i]] = v]
    BY <1>9 DEF CacheEnd, Cachers, Contents
  <2> QED
    BY <1>0, <1>9, <2>1 DEF CacheEnd, serverVars, tableVars, Contents
<1>10. ASSUME NEW r \in Refs, CleanupStale(r) \/ DeleteImage(r), UNCHANGED wanted
       PROVE  ImporterTypes'
  BY <1>10 DEF CleanupStale, DeleteImage, serverVars, diskVars, Contents
<1> QED
  BY <1>1, <1>2, <1>3, <1>4, <1>5, <1>6, <1>7, <1>8, <1>9, <1>10 DEF Next, Step, TaskStep, CacheStep

-----------------------------------------------------------------------------
(* Slots.  A step that moves no import to or from the slots and the queue. *)
LEMMA SlotsSame ==
  ASSUME SlotOf, QueueOf, Limit, UNCHANGED <<active_imports, queue, wanted>>,
         \A j \in Imports : /\ Pending(j)' <=> Pending(j)
                            /\ phase'[j] = "queued" <=> phase[j] = "queued",
         \A j \in complete' : phase'[j] \in {"done", "failed"}
  PROVE  SlotOf' /\ QueueOf' /\ Limit'
<1>1. Slots' = Slots
  BY DEF Slots
<1>2. SlotOf'
  BY <1>1 DEF SlotOf, RefOf
<1>3. QueueOf' /\ Limit'
  BY <1>1 DEF QueueOf, Limit
<1> QED
  BY <1>2, <1>3

(* One slot more.                                                          *)
LEMMA OneMore ==
  ASSUME NEW S, IsFiniteSet(S), NEW T, NEW x, x \notin S, T = S \union {x}
  PROVE  IsFiniteSet(T) /\ Cardinality(T) = Cardinality(S) + 1
  BY FS_AddElement

(* A task goes on, ends with a report, or crashes.                         *)
LEMMA TaskSlots ==
  ASSUME ImporterTypes, SlotOf, QueueOf, Limit, NEW i \in Imports,
         TaskStep(i) \/ TaskCrash(i), UNCHANGED wanted
  PROVE  SlotOf' /\ QueueOf' /\ Limit'
<1>1. /\ phase[i] \in Working /\ UNCHANGED <<active_imports, queue>>
      /\ \E t \in Working \union {"crashed", "done", "failed"} :
           /\ phase' = [phase EXCEPT ![i] = t]
           /\ IF t \in {"done", "failed"} THEN complete' = complete \union {i}
              ELSE complete' = complete
  BY DEF TaskStep, TaskCrash, Extract, BuildBegin, BuildEnds, CopyEnds, Register, StatRaises,
     Raise, Fail, TaskFrame, serverVars, Working
<1>2. \A j \in Imports : /\ Pending(j)' <=> Pending(j)
                         /\ phase'[j] = "queued" <=> phase[j] = "queued"
  BY <1>1 DEF ImporterTypes, Pending, Working
<1>3. \A j \in complete' : phase'[j] \in {"done", "failed"}
  BY <1>1 DEF ImporterTypes, SlotOf, Working
<1> QED
  BY <1>1, <1>2, <1>3, SlotsSame

LEMMA QueueImportSlots ==
  ASSUME ImporterTypes, SlotOf, QueueOf, Limit, Apart(RefOf), NEW i \in Imports,
         QueueImport(i), UNCHANGED wanted
  PROVE  SlotOf' /\ QueueOf' /\ Limit'
<1> USE ImporterAssumption
<1>1. /\ phase[i] = "new" /\ i \notin complete /\ ~Pending(i)
      /\ RefOf \in [Imports -> Refs] /\ UNCHANGED <<complete, wanted>>
      /\ Cardinality(Slots) \in Nat /\ MaxConcurrent \in Nat
      /\ phase \in [Imports -> Working \union {"new", "queued", "done", "failed", "crashed"}]
      /\ active_imports \in [Refs -> Imports \union {NoImport}] /\ queue \in Seq(Imports)
  BY WantedTypes, FS_CardinalityType DEF QueueImport, SlotOf, Pending, Working, ImporterTypes, Limit
<1>2. RefOf' = RefOf
  BY <1>1 DEF RefOf
<1>3. CASE /\ HasSlot(Slots) /\ UNCHANGED queue
           /\ phase' = [phase EXCEPT ![i] = "extracting"]
           /\ active_imports' = [active_imports EXCEPT ![RefOf[i]] = i]
  <2>1. RefOf[i] \notin Slots /\ Slots' = Slots \union {RefOf[i]}
    BY <1>1, <1>3 DEF Slots, SlotOf
  <2>2. queue = <<>>
    BY <1>1, <1>3 DEF HasSlot, Limit
  <2>3. Limit'
    <3>1. IsFiniteSet(Slots') /\ Cardinality(Slots') = Cardinality(Slots) + 1
      BY <2>1, OneMore DEF Limit
    <3> QED
      BY <1>1, <1>3, <2>2, <3>1 DEF Limit, HasSlot
  <2>4. SlotOf'
    BY <1>1, <1>2, <1>3, <2>1 DEF SlotOf, Pending, Working, Slots, Apart
  <2>5. QueueOf'
    BY <1>1, <1>3 DEF QueueOf
  <2> QED
    BY <2>3, <2>4, <2>5
<1>4. CASE /\ ~HasSlot(Slots) /\ queue' = Append(queue, i)
           /\ phase' = [phase EXCEPT ![i] = "queued"]
           /\ UNCHANGED active_imports
  <2>1. Slots' = Slots
    BY <1>4 DEF Slots
  <2>2. Limit'
    BY <1>1, <1>4, <2>1 DEF Limit, HasSlot
  <2>3. SlotOf'
    BY <1>1, <1>2, <1>4, <2>1 DEF SlotOf, Pending, Working
  <2>4. QueueOf'
    <3>1. i \notin Elements(queue) /\ Distinct(queue)
      BY <1>1 DEF QueueOf
    <3>2. Distinct(queue') /\ Elements(queue') = Elements(queue) \union {i}
      BY <1>1, <1>4, <3>1, AppendElements
    <3> QED
      BY <1>1, <1>4, <3>2 DEF QueueOf
  <2> QED
    BY <2>2, <2>3, <2>4
<1> QED
  BY <1>3, <1>4 DEF QueueImport

LEMMA ImportCompleteSlots ==
  ASSUME ImporterTypes, SlotOf, QueueOf, Limit, Apart(RefOf), NEW i \in Imports,
         ImportComplete(i), UNCHANGED wanted
  PROVE  SlotOf' /\ QueueOf' /\ Limit'
<1> USE ImporterAssumption
<1> DEFINE left == [active_imports EXCEPT ![RefOf[i]] = NoImport]
           leftSlots == {r \in Refs : left[r] # NoImport}
           j == Head(queue)
<1>1. /\ i \in complete /\ complete' = complete \ {i} /\ phase[i] \in {"done", "failed"}
      /\ RefOf \in [Imports -> Refs] /\ RefOf' = RefOf
      /\ Cardinality(Slots) \in Nat /\ MaxConcurrent \in Nat /\ IsFiniteSet(Slots)
      /\ phase \in [Imports -> Working \union {"new", "queued", "done", "failed", "crashed"}]
      /\ active_imports \in [Refs -> Imports \union {NoImport}] /\ queue \in Seq(Imports)
  BY WantedTypes, FS_CardinalityType DEF ImportComplete, SlotOf, ImporterTypes, Limit, RefOf
<1>2. RefOf[i] \in Slots /\ leftSlots = Slots \ {RefOf[i]}
  BY <1>1 DEF Slots, SlotOf, Pending
<1>3. IsFiniteSet(leftSlots) /\ Cardinality(leftSlots) = Cardinality(Slots) - 1
  BY <1>1, <1>2, FS_RemoveElement
<1>4. HasSlot(leftSlots)
  BY <1>1, <1>3 DEF HasSlot, Limit
<1>5. \A k \in Imports : left[RefOf[k]] # NoImport <=> Pending(k) /\ k # i
  BY <1>1 DEF SlotOf, Apart
<1>6. \A r \in leftSlots : RefOf[left[r]] = r
  BY <1>1, <1>2 DEF SlotOf
<1>7. MaybeStartNext(left)
  BY DEF ImportComplete
<1> HIDE DEF left
<1>8. CASE /\ queue # <<>> /\ queue' = Tail(queue)
           /\ phase' = [phase EXCEPT ![j] = "extracting"]
           /\ active_imports' = [left EXCEPT ![RefOf[j]] = j]
  <2>1. /\ j \in Imports /\ Distinct(queue')
        /\ Elements(queue') = Elements(queue) \ {j} /\ j \in Elements(queue)
    <3>1. Distinct(queue) /\ Len(queue) \in Nat /\ 1 \in DOMAIN queue /\ j = queue[1]
      BY <1>1, <1>8 DEF QueueOf
    <3>2. Distinct(queue') /\ Elements(queue') = Elements(queue) \ {j}
      BY <1>1, <1>8, <3>1, TailElements
    <3>3. j \in Elements(queue)
      BY <3>1 DEF Elements
    <3>4. j \in Imports
      BY <1>1, <1>8
    <3> QED
      BY <3>2, <3>3, <3>4
  <2>2. phase[j] = "queued" /\ j # i /\ ~Pending(j)
    BY <1>1, <2>1 DEF QueueOf, Pending, SlotOf, Working
  <2> HIDE DEF j
  <2>3. left \in [Refs -> Imports \union {NoImport}]
    BY <1>1 DEF left
  <2>4. RefOf[j] \notin leftSlots /\ Slots' = leftSlots \union {RefOf[j]}
    BY <1>1, <1>5, <1>8, <2>1, <2>2, <2>3 DEF Slots
  <2>5. IsFiniteSet(Slots') /\ Cardinality(Slots') = Cardinality(Slots)
    <3>1. IsFiniteSet(Slots') /\ Cardinality(Slots') = Cardinality(leftSlots) + 1
      BY <1>3, <2>4, OneMore
    <3> QED
      BY <1>1, <1>3, <3>1
  <2>6. Cardinality(Slots) = MaxConcurrent
    BY <1>8 DEF Limit
  <2>7. Limit'
    BY <1>1, <2>5, <2>6 DEF Limit
  <2>8. QueueOf'
    BY <1>1, <1>8, <2>1 DEF QueueOf
  <2>9. SlotOf'
    <3>1. \A k \in Imports : active_imports'[RefOf[k]] # NoImport <=> Pending(k)'
      <4> SUFFICES ASSUME NEW k \in Imports
                   PROVE  active_imports'[RefOf[k]] # NoImport <=> Pending(k)'
        OBVIOUS
      <4>1. CASE k = j
        BY <1>1, <1>8, <2>1, <2>3, <4>1 DEF Pending, Working
      <4>2. CASE k # j
        <5>1. active_imports'[RefOf[k]] = left[RefOf[k]]
          BY <1>1, <1>8, <2>1, <2>3, <4>2 DEF Apart
        <5>2. phase'[k] = phase[k]
          BY <1>1, <1>8, <4>2
        <5>3. Pending(k)' <=> Pending(k) /\ k # i
          BY <1>1, <5>2 DEF Pending, Working
        <5> QED
          BY <1>5, <5>1, <5>3
      <4> QED
        BY <4>1, <4>2
    <3>2. \A r \in Slots' : RefOf[active_imports'[r]] = r
      BY <1>1, <1>6, <1>8, <2>1, <2>3, <2>4
    <3>3. \A k \in complete' : phase'[k] \in {"done", "failed"}
      BY <1>1, <1>8, <2>1, <2>2 DEF SlotOf, ImporterTypes
    <3> QED
      BY <1>1, <3>1, <3>2, <3>3 DEF SlotOf
  <2> QED
    BY <2>7, <2>8, <2>9
<1>9. CASE queue = <<>> /\ active_imports' = left /\ UNCHANGED <<queue, phase>>
  <2>1. Slots' = leftSlots
    BY <1>9 DEF Slots
  <2>2. Limit'
    BY <1>1, <1>3, <1>9, <2>1 DEF Limit
  <2>3. QueueOf'
    BY <1>9 DEF QueueOf
  <2>4. SlotOf'
    BY <1>1, <1>5, <1>6, <1>9, <2>1 DEF SlotOf, Pending, Working
  <2> QED
    BY <2>2, <2>3, <2>4
<1> QED
  BY <1>4, <1>7, <1>8, <1>9 DEF MaybeStartNext

LEMMA SlotStep ==
  ASSUME ImporterTypes, SlotInv, [Next]_vars
  PROVE  SlotInv'
<1>1. wanted' = wanted /\ RefOf' = RefOf
  BY DEF Next, vars, RefOf
<1> SUFFICES ASSUME Apart(RefOf)
             PROVE  SlotOf' /\ QueueOf' /\ Limit'
  BY <1>1 DEF SlotInv, Apart
<1>2. SlotOf /\ QueueOf /\ Limit
  BY DEF SlotInv
<1>3. ASSUME UNCHANGED <<active_imports, queue, complete, phase>>
      PROVE  SlotOf' /\ QueueOf' /\ Limit'
  BY <1>1, <1>2, <1>3, SlotsSame DEF Pending, SlotOf
<1>4. ASSUME NEW i \in Imports, CacheStep(i)
      PROVE  UNCHANGED <<active_imports, queue, complete, phase>>
  BY <1>4 DEF CacheStep, CacheBegin, CacheEnd, serverVars
<1>5. ASSUME NEW r \in Refs, CleanupStale(r) \/ DeleteImage(r)
      PROVE  UNCHANGED <<active_imports, queue, complete, phase>>
  BY <1>5 DEF CleanupStale, DeleteImage, serverVars
<1>6. CASE UNCHANGED vars
  BY <1>3, <1>6 DEF vars, serverVars
<1> QED
  BY <1>1, <1>2, <1>3, <1>4, <1>5, <1>6, TaskSlots, QueueImportSlots, ImportCompleteSlots
  DEF Next, Step

-----------------------------------------------------------------------------
(* Images.  What one import does to itself, and nothing does to the others.*)
LEMMA ImageKept ==
  ASSUME ImporterTypes, ImageInv, Apart(RefOf), Apart(LayersOf), NEW i \in Imports,
         UNCHANGED wanted, Alone(i)',
         \A j \in Imports \ {i} : /\ phase'[j] = phase[j] \/ {phase[j], phase'[j]} \subseteq Unbuilt
                                  /\ caching'[j] = caching[j],
         \A r \in Refs \ {RefOf[i]} : file'[r] = file[r],
         \A h \in Layers \ {LayersOf[i]} : cache'[h] = cache[h],
         phase[i] = "done" => phase'[i] = "done" /\ file' = file,
         images' \subseteq images
           \union {r \in {RefOf[i]} : phase'[i] = "done" /\ file'[r] = LayersOf[i]}
  PROVE  ImageInv'
<1>1. RefOf' = RefOf /\ LayersOf' = LayersOf
  BY DEF RefOf, LayersOf
<1>2. RefOf \in [Imports -> Refs] /\ LayersOf \in [Imports -> Layers]
  BY WantedTypes
<1>3. ASSUME NEW j \in Imports
      PROVE  Alone(j)'
  <2>1. CASE j = i
    BY <2>1
  <2>2. CASE j # i
    <3>1. RefOf[j] # RefOf[i] /\ LayersOf[j] # LayersOf[i]
      BY <2>2 DEF Apart
    <3>2. file'[RefOf[j]] = file[RefOf[j]] /\ cache'[LayersOf[j]] = cache[LayersOf[j]]
      BY <1>2, <3>1
    <3>3. Alone(j)
      BY DEF ImageInv
    <3> QED
      BY <1>1, <2>2, <3>2, <3>3 DEF Alone, Unbuilt
  <2> QED
    BY <2>1, <2>2
<1>4. ASSUME NEW r \in images'
      PROVE  \E j \in Imports : RefOf[j] = r /\ phase'[j] = "done" /\ file'[r] = LayersOf[j]
  <2>1. CASE r \in images
    <3>1. PICK j \in Imports : RefOf[j] = r /\ phase[j] = "done" /\ file[r] = LayersOf[j]
      BY <2>1 DEF ImageInv
    <3>2. CASE j = i
      BY <3>1, <3>2
    <3>3. CASE j # i
      <4>1. r # RefOf[i] /\ r \in Refs
        BY <1>2, <3>1, <3>3 DEF Apart
      <4>2. phase'[j] = "done"
        BY <3>1, <3>3 DEF Unbuilt
      <4> QED
        BY <3>1, <4>1, <4>2
    <3> QED
      BY <3>2, <3>3
  <2>2. CASE r = RefOf[i] /\ phase'[i] = "done" /\ file'[r] = LayersOf[i]
    BY <2>2
  <2> QED
    BY <2>1, <2>2
<1> QED
  BY <1>1, <1>3, <1>4 DEF ImageInv

LEMMA ImageSame ==
  ASSUME ImageInv, UNCHANGED <<wanted, phase, caching, file, cache, images>>
  PROVE  ImageInv'
  BY DEF ImageInv, Alone, RefOf, LayersOf

LEMMA ImageStep ==
  ASSUME ImporterTypes, SlotInv, ImageInv, [Next]_vars
  PROVE  ImageInv'
<1>1. wanted' = wanted /\ RefOf' = RefOf /\ LayersOf' = LayersOf
  BY DEF Next, vars, RefOf, LayersOf
<1> SUFFICES ASSUME Apart(RefOf), Apart(LayersOf)
             PROVE  ImageInv'
  BY <1>1 DEF ImageInv, Apart
<1>2. RefOf \in [Imports -> Refs] /\ LayersOf \in [Imports -> Layers]
  BY WantedTypes
<1>3. \A i \in Imports : Alone(i)
  BY DEF ImageInv
<1> USE DEF ImporterTypes
<1>4. ASSUME NEW i \in Imports, QueueImport(i)
      PROVE  ImageInv'
  <2>1. Alone(i)'
    BY <1>1, <1>3, <1>4 DEF QueueImport, Alone, Unbuilt, diskVars
  <2> QED
    BY <1>1, <1>4, <2>1, ImageKept DEF QueueImport, diskVars
<1>5. ASSUME NEW i \in Imports, ImportComplete(i)
      PROVE  ImageInv'
  <2>1. UNCHANGED <<caching, file, cache, images>>
    BY <1>5 DEF ImportComplete, diskVars
  <2>2. CASE UNCHANGED phase
    BY <1>1, <2>1, <2>2, ImageSame
  <2>3. CASE queue # <<>> /\ phase' = [phase EXCEPT ![Head(queue)] = "extracting"]
    <3>1. Head(queue) \in Imports /\ Head(queue) \in Elements(queue)
      <4>1. 1 \in DOMAIN queue /\ Head(queue) = queue[1]
        BY <2>3
      <4> QED
        BY <2>3, <4>1, QueueHead DEF Elements
    <3>2. phase[Head(queue)] = "queued"
      BY <3>1 DEF SlotInv, QueueOf
    <3>3. PICK j \in Imports : phase[j] = "queued" /\ phase' = [phase EXCEPT ![j] = "extracting"]
      BY <2>3, <3>1, <3>2
    <3>4. Alone(j)'
      BY <1>1, <1>3, <2>1, <3>3 DEF Alone, Unbuilt
    <3> QED
      BY <1>1, <2>1, <3>3, <3>4, ImageKept DEF Unbuilt
  <2> QED
    BY <1>5, <2>2, <2>3 DEF ImportComplete, MaybeStartNext
<1>6. ASSUME NEW i \in Imports, Extract(i)
      PROVE  ImageInv'
  <2>1. Alone(i)'
    BY <1>1, <1>3, <1>6 DEF Extract, Fail, Alone, Unbuilt, diskVars
  <2> QED
    BY <1>1, <1>6, <2>1, ImageKept DEF Extract, Fail, TaskFrame, diskVars
<1>7. ASSUME NEW i \in Imports, BuildBegin(i)
      PROVE  ImageInv'
  <2>1. cache[LayersOf[i]] = Absent /\ phase[i] = "extracted" /\ caching[i] = "no"
    BY <1>3, <1>7 DEF BuildBegin, Alone, Unbuilt
  <2>2. Writers(RefOf[i]) = {}
    BY <2>1 DEF Writers, Apart
  <2>3. file' = [file EXCEPT ![RefOf[i]] = Partial] /\ phase' = [phase EXCEPT ![i] = "building"]
    BY <1>7, <2>1, <2>2 DEF BuildBegin, Truncate
  <2>4. Alone(i)'
    BY <1>1, <1>2, <1>7, <2>1, <2>3 DEF BuildBegin, Alone, Unbuilt
  <2> QED
    BY <1>1, <1>2, <1>7, <2>1, <2>3, <2>4, ImageKept DEF BuildBegin, TaskFrame
<1>8. ASSUME NEW i \in Imports, BuildEnds(i)
      PROVE  ImageInv'
  <2>1. phase[i] = "building" /\ file[RefOf[i]] = Partial
    BY <1>3, <1>8 DEF BuildEnds, Alone
  <2>2. Alone(i)'
    BY <1>1, <1>2, <1>8, <2>1 DEF BuildEnds, Written, Fail, Alone, Unbuilt
  <2>3. \A r \in Refs \ {RefOf[i]} : file'[r] = file[r]
    BY <1>8 DEF BuildEnds, Written
  <2> QED
    BY <1>1, <1>8, <2>1, <2>2, <2>3, ImageKept DEF BuildEnds, Fail, TaskFrame
<1>9. ASSUME NEW i \in Imports, CopyEnds(i)
      PROVE  FALSE
  BY <1>3, <1>9 DEF CopyEnds, Alone
<1>10. ASSUME NEW i \in Imports, Register(i)
       PROVE  ImageInv'
  <2>1. Alone(i)' /\ file[RefOf[i]] = LayersOf[i]
    BY <1>1, <1>3, <1>10 DEF Register, Alone, Unbuilt, diskVars
  <2> QED
    BY <1>1, <1>10, <2>1, ImageKept DEF Register, diskVars
<1>11. ASSUME NEW i \in Imports, StatRaises(i) \/ TaskCrash(i)
       PROVE  ImageInv'
  <2>1. /\ phase[i] \in Working /\ phase' = [phase EXCEPT ![i] = "crashed"]
        /\ UNCHANGED <<caching, file, cache, images>>
    BY <1>11 DEF StatRaises, TaskCrash, Raise, diskVars, tableVars, Working
  <2>2. Alone(i)'
    BY <1>1, <1>3, <2>1 DEF Alone, Unbuilt
  <2> QED
    BY <1>1, <2>1, <2>2, ImageKept DEF Working
<1>12. ASSUME NEW i \in Imports, CacheStep(i)
       PROVE  ImageInv'
  <2>1. /\ caching[i] # "no" /\ UNCHANGED <<phase, file, images>>
        /\ \A j \in Imports \ {i} : caching'[j] = caching[j]
        /\ \A h \in Layers \ {LayersOf[i]} : cache'[h] = cache[h]
    BY <1>12 DEF CacheStep, CacheBegin, CacheEnd, Cachers, tableVars
  <2>2. Alone(i)'
    BY <1>1, <1>3, <2>1 DEF Alone
  <2> QED
    BY <1>1, <2>1, <2>2, ImageKept
<1>13. ASSUME NEW r \in Refs, DeleteImage(r)
       PROVE  ImageInv'
  <2>1. PICK i \in Imports : RefOf[i] = r /\ phase[i] = "done"
    BY <1>13 DEF DeleteImage, ImageInv
  <2>2. ASSUME NEW j \in Imports, j # i
        PROVE  RefOf[j] # r
    BY <2>1, <2>2 DEF Apart
  <2>3. /\ images' = images \ {r} /\ file' = [file EXCEPT ![r] = Absent]
        /\ UNCHANGED <<phase, caching, cache>>
    BY <1>13 DEF DeleteImage
  <2>4. \A j \in Imports : Alone(j)'
    BY <1>1, <1>2, <1>3, <2>1, <2>2, <2>3 DEF Alone, Unbuilt
  <2>5. \A s \in images' : \E j \in Imports :
          RefOf[j] = s /\ phase'[j] = "done" /\ file'[s] = LayersOf[j]
    BY <2>3 DEF ImageInv
  <2> QED
    BY <1>1, <2>4, <2>5 DEF ImageInv
<1>14. ASSUME (\E r \in Refs : CleanupStale(r)) \/ UNCHANGED vars
       PROVE  ImageInv'
  BY <1>1, <1>14, ImageSame DEF CleanupStale, vars, diskVars, tableVars
<1> QED
  BY <1>4, <1>5, <1>6, <1>7, <1>8, <1>9, <1>10, <1>11, <1>12, <1>13, <1>14
  DEF Next, Step, TaskStep

-----------------------------------------------------------------------------
LEMMA ImporterInit == Init => ImporterInv
<1> SUFFICES ASSUME Init
             PROVE  ImporterInv
  OBVIOUS
<1>0. ImporterTypes
  BY TypesInit
<1>1. RefOf \in [Imports -> Refs] /\ LayersOf \in [Imports -> Layers]
  BY <1>0, WantedTypes
<1>2. Slots = {} /\ Elements(queue) = {} /\ queue = <<>>
  BY DEF Init, Slots, Elements
<1>3. SlotOf
  BY <1>1, <1>2 DEF Init, SlotOf, Pending, Working
<1>4. QueueOf /\ Limit
  BY <1>2, FS_EmptySet, ImporterAssumption DEF Init, QueueOf, Limit, Distinct
<1>5. ImageInv
  BY <1>1 DEF Init, ImageInv, Alone, Unbuilt
<1> QED
  BY <1>0, <1>3, <1>4, <1>5 DEF ImporterInv, SlotInv

LEMMA ImporterAlways == Spec => []ImporterInv
<1>1. ImporterInv /\ [Next]_vars => ImporterInv'
  BY TypesStep, SlotStep, ImageStep DEF ImporterInv
<1> QED
  BY <1>1, ImporterInit, PTL DEF Spec

(* For any imports of different refs: each slot of the importer is that of *)
(* an import that runs, has reported or crashed, there are never more than *)
(* the limit, the queue holds what waits, and nothing waits while a slot   *)
(* is free (importer.ex:11, 55-73, 76-86, 211-238).                        *)
THEOREM SlotsHeld == Spec => []SlotsAccounted
<1>1. ImporterInv => SlotsAccounted
  <2> SUFFICES ASSUME ImporterInv, Apart(RefOf)
               PROVE  /\ Slots = {RefOf[i] : i \in Running \union complete
                                    \union {j \in Imports : phase[j] = "crashed"}}
                      /\ \A i \in DOMAIN queue : phase[queue[i]] = "queued"
                      /\ Cardinality(Slots) <= MaxConcurrent
                      /\ queue # <<>> => Cardinality(Slots) = MaxConcurrent
    BY DEF SlotsAccounted
  <2>1. ImporterTypes /\ SlotOf /\ QueueOf /\ Limit
    BY DEF ImporterInv, SlotInv
  <2>2. RefOf \in [Imports -> Refs]
    BY <2>1, WantedTypes
  <2> DEFINE Held == Running \union complete \union {j \in Imports : phase[j] = "crashed"}
  <2>3. Held = {i \in Imports : Pending(i)}
    BY <2>1 DEF Running, Pending, ImporterTypes
  <2>4. \A i \in Held : i \in Imports /\ RefOf[i] \in Slots
    BY <2>1, <2>2, <2>3 DEF SlotOf, Slots
  <2>5. ASSUME NEW r \in Slots
        PROVE  \E i \in Held : RefOf[i] = r
    <3>1. active_imports[r] \in Imports /\ RefOf[active_imports[r]] = r
      BY <2>1 DEF Slots, SlotOf, ImporterTypes
    <3>2. active_imports[RefOf[active_imports[r]]] # NoImport
      BY <3>1 DEF Slots
    <3>3. active_imports[r] \in Held
      BY <2>1, <2>3, <3>1, <3>2 DEF SlotOf
    <3> QED
      BY <3>1, <3>3
  <2>6. Slots = {RefOf[i] : i \in Held}
    BY <2>4, <2>5
  <2> QED
    BY <2>1, <2>6 DEF QueueOf, Elements, Limit
<1> QED
  BY <1>1, ImporterAlways, PTL

(* For any imports of different refs and layers: what ImageStore hands out *)
(* was written whole from the layers of its import, whatever other imports *)
(* write, fail or cache meanwhile (importer.ex:365-379, 398-437).          *)
THEOREM WholeImages == Spec => []ImagesWhole
<1>1. ImporterInv => ImagesWhole
  BY DEF ImporterInv, ImageInv, ImagesWhole
<1> QED
  BY <1>1, ImporterAlways, PTL
=============================================================================
