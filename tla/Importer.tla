------------------------------ MODULE Importer ------------------------------
(***************************************************************************)
(* lib/zypi/image/importer.ex: the GenServer that queues image imports,    *)
(* the tasks it starts for them, the files they write into the images      *)
(* directory, and the image table and ImageStore they report to.           *)
(*                                                                         *)
(* Two things are shared by the tasks: <ref>.ext4, named by the image ref, *)
(* and cache-<hash>.ext4, named by the layers.  Both are written in place  *)
(* by cp and overlaybd-apply, so a write is two steps.                     *)
(***************************************************************************)
EXTENDS Integers, Sequences, FiniteSets

CONSTANTS
  Imports,          \* the calls to import_tar
  Refs, Layers,     \* image refs; layer sets, each named by its hash
  Wanted,           \* what the imports may ask for, with the bounds on what
                    \* else happens then: functions ref and layers on the
                    \* imports, the tasks that raise, the refs deleted
  NoImport,
  MaxConcurrent     \* @max_concurrent_imports, 2 in the code

(* A file is absent, being written, the work of two writers, or built from *)
(* a layer set.                                                            *)
Absent == "absent"
Partial == "partial"
Mixed == "mixed"

ASSUME ImporterAssumption ==
  /\ \A w \in Wanted :
       /\ w.ref \in [Imports -> Refs] /\ w.layers \in [Imports -> Layers]
       /\ w.crashes \in Nat /\ w.deletable \subseteq Refs
  /\ NoImport \notin Imports /\ MaxConcurrent \in Nat \ {0}
  /\ {Absent, Partial, Mixed} \intersect Layers = {}

VARIABLES
  (* the GenServer                                                         *)
  active_imports,   \* Refs -> the import started last for it, or NoImport
  queue,
  complete,         \* the imports whose :import_complete is in the mailbox
  (* the tasks                                                             *)
  phase,            \* Imports -> where the import is
  source,           \* Imports -> what the cache file held when its cp began
  caching,          \* Imports -> "no" or what <ref>.ext4 held when the copy
                    \*            of it into the cache began
  crashes,
  wanted,           \* what the imports ask for
  (* the images directory, the image table and ImageStore                  *)
  file,             \* Refs -> <ref>.ext4
  cache,            \* Layers -> cache-<hash>.ext4
  status,           \* Refs -> the status in the image table
  images            \* the refs ImageStore knows

serverVars == <<active_imports, queue, complete>>
diskVars   == <<file, cache>>
tableVars  == <<status, images>>
vars == <<serverVars, phase, source, caching, crashes, wanted, diskVars, tableVars>>

RefOf == wanted.ref
LayersOf == wanted.layers

Apart(f) == \A i, j \in Imports : f[i] = f[j] => i = j

Slots == {r \in Refs : active_imports[r] # NoImport}

Working == {"extracting", "extracted", "building", "copying", "built"}

Running == {i \in Imports : phase[i] \in Working}

Init ==
  /\ active_imports = [r \in Refs |-> NoImport]
  /\ wanted \in Wanted
  /\ queue = <<>> /\ complete = {} /\ crashes = 0
  /\ phase = [i \in Imports |-> "new"]
  /\ source = [i \in Imports |-> Absent]
  /\ caching = [i \in Imports |-> "no"]
  /\ file = [r \in Refs |-> Absent]
  /\ cache = [h \in Layers |-> Absent]
  /\ status = [r \in Refs |-> "none"] /\ images = {}

-----------------------------------------------------------------------------
(* Mutant: the limit is off by one.                                        *)
HasSlotOffByOne(S) == Cardinality(S) <= MaxConcurrent

HasSlot(S) == Cardinality(S) < MaxConcurrent

(* handle_call({:queue_import, ..}).  The slots are the keys of a map from *)
(* refs: starting a ref again while it is active takes no slot more.       *)
QueueImport(i) ==
  /\ phase[i] = "new"
  /\ \/ /\ HasSlot(Slots)
        /\ phase' = [phase EXCEPT ![i] = "extracting"]
        /\ active_imports' = [active_imports EXCEPT ![RefOf[i]] = i]
        /\ status' = [status EXCEPT ![RefOf[i]] = "importing"]
        /\ UNCHANGED queue
     \/ /\ ~HasSlot(Slots)
        /\ phase' = [phase EXCEPT ![i] = "queued"]
        /\ queue' = Append(queue, i)
        /\ status' = [status EXCEPT ![RefOf[i]] = "queued"]
        /\ UNCHANGED active_imports
  /\ UNCHANGED <<complete, source, caching, crashes, diskVars, images>>

(* Mutant: the slot is freed, but the queue not looked at.                 *)
MaybeStartNextNothing(left) ==
  /\ active_imports' = left
  /\ UNCHANGED <<queue, phase, status>>

(* maybe_start_next, with the slots that are left.                         *)
MaybeStartNext(left) ==
  LET free == HasSlot({r \in Refs : left[r] # NoImport})
      i == Head(queue)
  IN \/ /\ free /\ queue # <<>>
        /\ queue' = Tail(queue)
        /\ phase' = [phase EXCEPT ![i] = "extracting"]
        /\ active_imports' = [left EXCEPT ![RefOf[i]] = i]
        /\ status' = [status EXCEPT ![RefOf[i]] = "importing"]
     \/ /\ ~free \/ queue = <<>>
        /\ active_imports' = left
        /\ UNCHANGED <<queue, phase, status>>

(* handle_info({:import_complete, ref, _}): the ref leaves the map,        *)
(* whichever import of it put it there.                                    *)
ImportComplete(i) ==
  /\ i \in complete
  /\ complete' = complete \ {i}
  /\ MaybeStartNext([active_imports EXCEPT ![RefOf[i]] = NoImport])
  /\ UNCHANGED <<source, caching, crashes, diskVars, images>>

(* Mutant: the images of queued imports are not looked at.                 *)
StaleUnqueued(r) == status[r] = "queued"

Stale(r) == status[r] \in {"queued", "importing"}

(* cleanup_stale_image_statuses: an import more than an hour old is marked *)
(* failed, whatever its task does.                                         *)
CleanupStale(r) ==
  /\ Stale(r)
  /\ status' = [status EXCEPT ![r] = "failed"]
  /\ UNCHANGED <<serverVars, phase, source, caching, crashes, diskVars, images>>

-----------------------------------------------------------------------------
(* The task of an import.  Its result, good or bad, is sent to the         *)
(* GenServer and the caller of import_tar is answered.                     *)
TaskFrame == UNCHANGED <<active_imports, queue, crashes, images>>

Fail(i) ==
  /\ phase' = [phase EXCEPT ![i] = "failed"]
  /\ complete' = complete \union {i}
  /\ status' = [status EXCEPT ![RefOf[i]] = "failed"]

(* Steps 1 to 4: extract, parse, read the layers, find the base image.     *)
Extract(i) ==
  /\ phase[i] = "extracting"
  /\ \/ phase' = [phase EXCEPT ![i] = "extracted"] /\ UNCHANGED <<complete, status>>
     \/ Fail(i)
  /\ UNCHANGED <<source, caching, diskVars>>
  /\ TaskFrame

(* Another import of the same ref may be at the same file.                 *)
Writers(r) == {i \in Imports : RefOf[i] = r /\ phase[i] \in {"building", "copying"}}

Truncate(r) ==
  file' = [file EXCEPT ![r] = IF Writers(r) = {} THEN Partial ELSE Mixed]

Written(r, content) ==
  file' = [file EXCEPT ![r] = IF file[r] = Partial THEN content ELSE Mixed]

(* Step 5, build_ext4_image: with no file of that hash in the cache the    *)
(* base is copied and the layers applied, else the cached file is copied.  *)
BuildBegin(i) ==
  /\ phase[i] = "extracted"
  /\ LET cached == cache[LayersOf[i]]
     IN \/ cached = Absent /\ phase' = [phase EXCEPT ![i] = "building"]
        \/ cached # Absent /\ phase' = [phase EXCEPT ![i] = "copying"]
  /\ source' = [source EXCEPT ![i] = cache[LayersOf[i]]]
  /\ Truncate(RefOf[i])
  /\ UNCHANGED <<complete, status, caching, cache>>
  /\ TaskFrame

(* Mutant: a build that failed half way is taken for good.                 *)
BuildEndsUnchecked(i) ==
  /\ phase[i] = "building"
  /\ \/ Written(RefOf[i], LayersOf[i])
     \/ UNCHANGED file
  /\ phase' = [phase EXCEPT ![i] = "built"]
  /\ caching' = [caching EXCEPT ![i] = "due"]
  /\ UNCHANGED <<complete, status, source, cache>>
  /\ TaskFrame

(* A failed layer removes the file; a failed copy of the base leaves it.   *)
BuildEnds(i) ==
  /\ phase[i] = "building"
  /\ \/ /\ Written(RefOf[i], LayersOf[i])
        /\ phase' = [phase EXCEPT ![i] = "built"]
        /\ caching' = [caching EXCEPT ![i] = "due"]
        /\ UNCHANGED <<complete, status>>
     \/ /\ Fail(i)
        /\ file' \in {file, [file EXCEPT ![RefOf[i]] = Absent]}
        /\ UNCHANGED caching
  /\ UNCHANGED <<source, cache>>
  /\ TaskFrame

(* A cached file that was being written then is copied as far as it was.   *)
CopyEnds(i) ==
  /\ phase[i] = "copying"
  /\ \/ /\ Written(RefOf[i], source[i])
        /\ phase' = [phase EXCEPT ![i] = "built"]
        /\ UNCHANGED <<complete, status>>
     \/ /\ Fail(i)
        /\ file' = [file EXCEPT ![RefOf[i]] = Absent]
  /\ UNCHANGED <<source, caching, cache>>
  /\ TaskFrame

(* The image is registered: put_image, then mark_completed.                *)
Register(i) ==
  /\ phase[i] = "built" /\ file[RefOf[i]] # Absent
  /\ phase' = [phase EXCEPT ![i] = "done"]
  /\ complete' = complete \union {i}
  /\ status' = [status EXCEPT ![RefOf[i]] = "ready"]
  /\ images' = images \union {RefOf[i]}
  /\ UNCHANGED <<active_imports, queue, source, caching, crashes, diskVars>>

(* A task that raises sends nothing: the GenServer logs its :DOWN.  So ends *)
(* File.stat! of a file that is gone,                                      *)
Raise(i) ==
  /\ phase' = [phase EXCEPT ![i] = "crashed"]
  /\ UNCHANGED <<serverVars, source, caching, diskVars, tableVars>>

StatRaises(i) ==
  /\ phase[i] = "built" /\ file[RefOf[i]] = Absent
  /\ Raise(i) /\ UNCHANGED crashes

(* and so may Jason.decode! of the manifest, mkfifo, rm_rf!, or a call to  *)
(* ImageStore that times out.                                              *)
TaskCrash(i) ==
  /\ phase[i] \in Working /\ crashes < wanted.crashes
  /\ crashes' = crashes + 1 /\ Raise(i)

-----------------------------------------------------------------------------
(* The new image is copied into the cache by a task of its own, which      *)
(* looks at no result of cp: a copy that fails stays as far as it got.     *)
Cachers(h) == {i \in Imports : LayersOf[i] = h /\ caching[i] \notin {"no", "due"}}

CacheBegin(i) ==
  /\ caching[i] = "due"
  /\ \/ /\ file[RefOf[i]] = Absent
        /\ caching' = [caching EXCEPT ![i] = "no"]
        /\ UNCHANGED cache
     \/ /\ file[RefOf[i]] # Absent
        /\ caching' = [caching EXCEPT ![i] = file[RefOf[i]]]
        /\ cache' = [cache EXCEPT ![LayersOf[i]] = Partial]
  /\ UNCHANGED <<serverVars, phase, source, crashes, file, tableVars>>

CacheEnd(i) ==
  LET h == LayersOf[i] IN
  /\ i \in Cachers(h)
  /\ caching' = [caching EXCEPT ![i] = "no"]
  /\ \/ UNCHANGED cache
     \/ cache' = [cache EXCEPT ![h] =
          IF Cachers(h) # {i} THEN Partial
          ELSE IF file[RefOf[i]] \in {caching[i], Absent} THEN caching[i]
          ELSE Mixed]
  /\ UNCHANGED <<serverVars, phase, source, crashes, file, tableVars>>

(* DELETE /images/:ref, ImageStore.delete_image.                           *)
DeleteImage(r) ==
  /\ r \in wanted.deletable /\ r \in images
  /\ images' = images \ {r}
  /\ file' = [file EXCEPT ![r] = Absent]
  /\ UNCHANGED <<serverVars, phase, source, caching, crashes, cache, status>>

-----------------------------------------------------------------------------
TaskStep(i) ==
  \/ Extract(i) \/ BuildBegin(i) \/ BuildEnds(i) \/ CopyEnds(i)
  \/ Register(i) \/ StatRaises(i)

CacheStep(i) == CacheBegin(i) \/ CacheEnd(i)

Step ==
  \/ \E i \in Imports :
       \/ QueueImport(i) \/ ImportComplete(i)
       \/ TaskStep(i) \/ TaskCrash(i) \/ CacheStep(i)
  \/ \E r \in Refs : CleanupStale(r) \/ DeleteImage(r)

Next == Step /\ UNCHANGED wanted

Spec == Init /\ [][Next]_vars

(* The task of an import runs on, a message is handled, the cleanup timer  *)
(* fires.  Nothing makes a call come, a task crash, or a cache be filled.  *)
LiveSpec ==
  /\ Spec
  /\ \A i \in Imports :
       /\ WF_vars(TaskStep(i) /\ UNCHANGED wanted)
       /\ WF_vars(ImportComplete(i) /\ UNCHANGED wanted)
  /\ \A r \in Refs : WF_vars(CleanupStale(r) /\ UNCHANGED wanted)

-----------------------------------------------------------------------------
(* A slot is held by an import that runs, that has yet to be taken off the *)
(* map, or that crashed, and by no other, never more than                  *)
(* @max_concurrent_imports; nothing waits while a slot is free.  For       *)
(* imports of different refs (importer.ex:11, 55-73, 76-86, 211-238).      *)
SlotsAccounted == Apart(RefOf) =>
  /\ Slots = {RefOf[i] : i \in Running \union complete
                             \union {j \in Imports : phase[j] = "crashed"}}
  /\ \A i \in DOMAIN queue : phase[queue[i]] = "queued"
  /\ Cardinality(Slots) <= MaxConcurrent
  /\ queue # <<>> => Cardinality(Slots) = MaxConcurrent

(* An image ImageStore hands out for snapshots is whole and has the layers *)
(* of an import of that ref.  For imports of different refs and layers     *)
(* (importer.ex:365-379, 398-437).                                         *)
ImagesWhole == Apart(RefOf) /\ Apart(LayersOf) =>
  \A r \in images : \E i \in Imports : RefOf[i] = r /\ file[r] = LayersOf[i]

(* A queued import gets its turn and is finished, unless its own task      *)
(* crashes: while fewer tasks crash than there are slots                   *)
(* (importer.ex:66-71, 76-86, 225-238).                                    *)
ImportsFinish ==
  \A i \in Imports :
    phase[i] = "queued" ~> phase[i] \in {"done", "failed", "crashed"}

(* importer.ex:146, "Mark stale importing images as failed": the image of  *)
(* an import that crashed does not stay importing.                         *)
CrashedMarkedFailed ==
  \A i \in Imports : phase[i] = "crashed" ~> status[RefOf[i]] \in {"failed", "ready"}
=============================================================================
