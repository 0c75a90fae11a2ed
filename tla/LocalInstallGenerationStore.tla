--------------------- MODULE LocalInstallGenerationStore ---------------------
(***************************************************************************)
(* The generation store of a local installation and the launcher that      *)
(* points into it.  A writer holds an exclusive lock, recovers whatever an *)
(* earlier writer left, and publishes a generation in three directories:   *)
(* staged, generations and the root with its current document.  The        *)
(* launcher publisher holds the lock shared.  Neither blocks: a call that  *)
(* finds the lock taken fails.                                             *)
(*                                                                         *)
(* A generation is the sequence of builds that led to it: its identity is  *)
(* a digest over its predecessor's identity and its own build.  A request  *)
(* is an operation identity and a generation, and its digest is itself.    *)
(*                                                                         *)
(* The file system keeps the order of its directory changes: an fsync      *)
(* makes all earlier ones durable, and a power loss leaves some prefix of  *)
(* the others.  The bytes of a file are durable only when the file itself  *)
(* was synced: a writer that takes over what another one left syncs the    *)
(* directories, not the files.                                             *)
(***************************************************************************)
EXTENDS Naturals, Sequences, FiniteSets, SequencesExt

CONSTANTS
  Builds,         \* what one installation adds to its predecessor
  Generations,    \* the generations somebody may build: sequences of builds
  Operations,     \* identities of publish requests, which callers may reuse
  Launchers,      \* the generations somebody may ask a launcher for
  None

VARIABLES
  names,    \* the directories as a process sees them
  images,   \* what a power loss may leave of them
  writer,   \* the holder of the exclusive lock: its request once read, phase and steps
  reader,   \* the launcher publisher that holds the lock shared: its target
  reported, \* ghost: the last generation a receipt said was published
  adopted   \* ghost: a recovery took over files that nobody had synced

NoGeneration == <<>>
Requests == [operation : Operations, generation : Generations]

\* What a current document names: its generations and the operation of the first.
Documents ==
  LET optional == Generations \cup {NoGeneration} IN
  [accepted : Generations, retained : optional, retiring : optional, operation : Operations]

ASSUME GenerationsAssumption == Generations \subseteq Seq(Builds) \ {<<>>}
ASSUME LaunchersAssumption == Launchers \subseteq Generations
ASSUME DocumentsAssumption ==
  None \notin [document : Documents, status : {"torn", "written", "synced"}]

vars == <<names, images, writer, reader, reported, adopted>>

predecessor(g) == Front(g)

-----------------------------------------------------------------------------
(***************************************************************************)
(* Reading the store.  A file is absent, torn, written or synced; the last *)
(* two read alike until a power loss tears the written one.                *)
(***************************************************************************)
Readable(status) == status \in {"written", "synced"}

\* verify_complete_generation_directory
Complete(d) == Readable(d.binary) /\ Readable(d.document)

Directories(n, at) == {d \in n.directories : d.at = at}

Empty == [accepted |-> NoGeneration, retained |-> NoGeneration, retiring |-> NoGeneration,
          operation |-> None]

CurrentOf(n) == IF n.current = None THEN Empty ELSE n.current.document

\* The generations that load under an identity: at most one.
load_generation(n, g) == {d \in Directories(n, "generations") : d.of.generation = g /\ Complete(d)}

\* The directories of a document load, its generations are linked, and its
\* operation is that of its accepted generation and of no other.
load_current_from_bytes(n, file) ==
  LET c == file.document IN
  /\ Readable(file.status)
  /\ \E a \in load_generation(n, c.accepted) :
       a.of.operation = c.operation /\ predecessor(a.of.generation) = c.retained
  /\ c.retained # NoGeneration => \E r \in load_generation(n, c.retained) :
       r.of.operation # c.operation /\
       (c.retiring # NoGeneration => predecessor(r.of.generation) = c.retiring)
  /\ c.retiring # NoGeneration => c.retained # NoGeneration

CurrentLoads(n) == n.current # None => load_current_from_bytes(n, n.current)

retained_operation(n) == {r.of.operation : r \in load_generation(n, CurrentOf(n).retained)}

\* Generation directories that the current document does not refer to.
Unreferenced(n) ==
  {d \in Directories(n, "generations") :
     d.of.generation \notin {CurrentOf(n).accepted, CurrentOf(n).retained}}

has_recovery_debt(n) ==
  \/ n.next # None \/ Directories(n, "staged") \cup Directories(n, "retiring") # {}
  \/ CurrentOf(n).retiring # NoGeneration \/ Unreferenced(n) # {}

current_successor_wire(c, request) ==
  [accepted |-> request.generation, retained |-> c.accepted, retiring |-> c.retained,
   operation |-> request.operation]

require_current_successor(c, next) ==
  \/ c.retiring # NoGeneration /\ next = [c EXCEPT !.retiring = NoGeneration]
  \/ /\ next.accepted # NoGeneration /\ c.retiring = NoGeneration
     /\ predecessor(next.accepted) = c.accepted
     /\ next.retained = c.accepted /\ next.retiring = c.retained

-----------------------------------------------------------------------------
(***************************************************************************)
(* The steps of a writer: operations on files, and three procedures that   *)
(* read the store again when they are reached.                             *)
(***************************************************************************)
Sync == [op |-> "Sync"]
Fresh(request) == [at |-> "staged", of |-> request, binary |-> "absent", document |-> "absent"]
Make(request) == [op |-> "Make", of |-> request]
Write(request, file) == [op |-> "Write", of |-> request, file |-> file]
SyncFile(request, file) == [op |-> "SyncFile", of |-> request, file |-> file]
Move(request, from, to) == [op |-> "Move", of |-> request, from |-> from, to |-> to]
Unlink(request, at, file) == [op |-> "Unlink", of |-> request, at |-> at, file |-> file]
RemoveDirectory(request, at) == [op |-> "RemoveDirectory", of |-> request, at |-> at]
WriteNext(document) == [op |-> "WriteNext", document |-> document]
SyncNext == [op |-> "SyncNext"]
Switch == [op |-> "Switch"]
DropNext == [op |-> "DropNext"]
Cleanup == [op |-> "Cleanup"]
FinishRetirement == [op |-> "FinishRetirement"]
ClearMarker == [op |-> "ClearMarker"]

Procedures == {Cleanup, FinishRetirement, ClearMarker}

stage_and_switch_current(document) == <<WriteNext(document), SyncNext, Sync, Switch, Sync>>

retire_loaded_generation(d) ==
  <<Move(d.of, "generations", "retiring"), Sync, Sync, FinishRetirement>>

\* remove_generation_directory
RemoveStage(d) ==
  <<Unlink(d.of, "staged", "binary"), Unlink(d.of, "staged", "document"), Sync,
    RemoveDirectory(d.of, "staged")>>

\* Each procedure yields the one script it runs, or none where it refuses.
clear_retirement_marker_locked(n) ==
  IF ~ CurrentLoads(n) THEN {}
  ELSE IF CurrentOf(n).retiring = NoGeneration THEN {<<>>}
  ELSE {stage_and_switch_current([CurrentOf(n) EXCEPT !.retiring = NoGeneration])}

\* Only the generation the current document gave up is removed: its binary
\* first, then its document, then the directory.
finish_retirement_locked(n) ==
  LET rest(d) == <<RemoveDirectory(d.of, "retiring"), Sync>>
      document(d) == <<Unlink(d.of, "retiring", "document"), Sync>> \o rest(d)
  IN {CASE Complete(d) -> <<Unlink(d.of, "retiring", "binary"), Sync>> \o document(d)
        [] d.binary = "absent" /\ Readable(d.document) -> document(d)
        [] d.binary = "absent" /\ d.document = "absent" -> rest(d) :
      d \in {x \in Directories(n, "retiring") :
               /\ CurrentLoads(n) /\ x.of.generation = CurrentOf(n).retiring
               /\ \/ Complete(x)
                  \/ x.binary = "absent" /\ (Readable(x.document) \/ x.document = "absent")}}

cleanup_unreferenced_generations_locked(n) ==
  LET extras == Unreferenced(n)  retiring == CurrentOf(n).retiring IN
  IF ~ CurrentLoads(n) \/ Cardinality(extras) > 1 THEN {}
  ELSE IF retiring = NoGeneration THEN IF extras = {} THEN {<<>>} ELSE {}
  ELSE IF extras = {} THEN {<<ClearMarker>>}
  ELSE {Append(retire_loaded_generation(d), ClearMarker) :
          d \in {x \in extras : x.of.generation = retiring /\ Complete(x)}}

Expand(procedure, n) ==
  CASE procedure = Cleanup -> cleanup_unreferenced_generations_locked(n)
    [] procedure = FinishRetirement -> finish_retirement_locked(n)
    [] procedure = ClearMarker -> clear_retirement_marker_locked(n)

-----------------------------------------------------------------------------
(***************************************************************************)
(* Recovery: one interrupted transition, recognized by what it left.       *)
(***************************************************************************)
Ambiguous(n) ==
  LET staged == Directories(n, "staged")  retiring == Directories(n, "retiring") IN
  \/ Cardinality(staged) > 1 \/ Cardinality(retiring) > 1
  \/ n.next # None /\ staged \cup retiring # {}
  \/ staged # {} /\ retiring # {}

RecoverNext(n) ==
  LET c == CurrentOf(n)  next == n.next.document IN
  IF ~ (load_current_from_bytes(n, n.next) /\ CurrentLoads(n)) THEN {}
  ELSE IF next = c THEN {<<DropNext, Sync>>}
  ELSE IF require_current_successor(c, next) THEN {<<Switch, Sync, Cleanup>>}
  ELSE {}

RecoverStage(n, d) ==
  LET c == CurrentOf(n)
      published == {e \in Directories(n, "generations") : e.of.generation = d.of.generation}
      adopt == <<Sync>> \o stage_and_switch_current(current_successor_wire(c, d.of)) \o <<Cleanup>>
  IN
  IF ~ (Complete(d) /\ CurrentLoads(n)) \/ d.of.operation \in retained_operation(n) THEN {}
  ELSE IF c.accepted = d.of.generation THEN
    IF c.operation = d.of.operation THEN {Append(RemoveStage(d), Sync)} ELSE {}
  ELSE IF predecessor(d.of.generation) # c.accepted THEN {}
  ELSE IF published = {} THEN {<<Move(d.of, "staged", "generations")>> \o adopt}
  ELSE {RemoveStage(d) \o adopt : e \in {x \in published : Complete(x) /\ x.of = d.of}}

RecoverUnreferenced(n) ==
  LET c == CurrentOf(n)  extras == Unreferenced(n) IN
  IF ~ CurrentLoads(n) \/ Cardinality(extras) > 1 THEN {}
  ELSE IF extras = {} THEN
    {IF c.retiring = NoGeneration THEN <<>> ELSE <<ClearMarker>>}
  ELSE {IF predecessor(d.of.generation) = c.accepted
        THEN Append(stage_and_switch_current(current_successor_wire(c, d.of)), Cleanup)
        ELSE Append(retire_loaded_generation(d), ClearMarker) :
          d \in {x \in extras :
                   /\ Complete(x) /\ x.of.operation \notin retained_operation(n)
                   /\ \/ predecessor(x.of.generation) = c.accepted
                      \/ x.of.generation = c.retiring}}

recover_locked(n) ==
  IF Ambiguous(n) THEN {}
  ELSE IF n.next # None THEN RecoverNext(n)
  ELSE IF Directories(n, "retiring") # {} THEN {<<FinishRetirement, ClearMarker>>}
  ELSE IF Directories(n, "staged") # {} THEN
    UNION {RecoverStage(n, d) : d \in Directories(n, "staged")}
  ELSE RecoverUnreferenced(n)

-----------------------------------------------------------------------------
(***************************************************************************)
(* What one step does to the directories.                                  *)
(***************************************************************************)
Changed(n, request, at, Change(_)) ==
  [n EXCEPT !.directories =
     {IF d.at = at /\ d.of = request THEN Change(d) ELSE d : d \in @}]

Applied(n, s) ==
  CASE s.op = "Make" -> [n EXCEPT !.directories = @ \cup {Fresh(s.of)}]
    [] s.op = "Write" -> Changed(n, s.of, "staged", LAMBDA d : [d EXCEPT ![s.file] = "written"])
    [] s.op = "SyncFile" -> Changed(n, s.of, "staged", LAMBDA d : [d EXCEPT ![s.file] = "synced"])
    [] s.op = "Move" -> Changed(n, s.of, s.from, LAMBDA d : [d EXCEPT !.at = s.to])
    [] s.op = "Unlink" -> Changed(n, s.of, s.at, LAMBDA d : [d EXCEPT ![s.file] = "absent"])
    [] s.op = "RemoveDirectory" ->
         [n EXCEPT !.directories = {d \in @ : ~ (d.at = s.at /\ d.of = s.of)}]
    [] s.op = "WriteNext" -> [n EXCEPT !.next = [document |-> s.document, status |-> "written"]]
    [] s.op = "SyncNext" -> [n EXCEPT !.next.status = "synced"]
    [] s.op = "Switch" -> [n EXCEPT !.current = n.next, !.next = None]
    [] s.op = "DropNext" -> [n EXCEPT !.next = None]
    [] s.op = "Sync" -> n

\* A write that stopped half way.
Half(n, s) ==
  CASE s.op = "Write" -> Changed(n, s.of, "staged", LAMBDA d : [d EXCEPT ![s.file] = "torn"])
    [] s.op = "WriteNext" -> [n EXCEPT !.next = [document |-> s.document, status |-> "torn"]]

\* renameat_with(NOREPLACE) and O_EXCL refuse a name that is taken.
NameIsFree(n, s) ==
  /\ s.op = "Make" =>
       ~ \E d \in Directories(n, "staged") : d.of.operation = s.of.operation
  /\ s.op = "Move" =>
       ~ \E d \in Directories(n, s.to) : d.of.generation = s.of.generation
  /\ s.op = "WriteNext" => n.next = None

Commits(s) == s.op \in {"Sync", "SyncFile", "SyncNext"}

\* What a power loss makes of one image: every file nobody synced may be torn.
TornFile(status) == IF status = "written" THEN {"torn", "synced"} ELSE {status}
TornDocument(file) ==
  IF file = None THEN {None} ELSE {[file EXCEPT !.status = s] : s \in TornFile(file.status)}

WrittenFiles(n) ==
  {f \in n.directories \X {"binary", "document"} : f[1][f[2]] = "written"}
Outcome(d, file, lost) ==
  IF d[file] # "written" THEN d[file] ELSE IF <<d, file>> \in lost THEN "torn" ELSE "synced"
TornDirectory(d, lost) ==
  [at |-> d.at, of |-> d.of, binary |-> Outcome(d, "binary", lost),
   document |-> Outcome(d, "document", lost)]

Torn(n) ==
  {[current |-> c, next |-> x, directories |-> {TornDirectory(d, lost) : d \in n.directories},
    launcher |-> n.launcher] :
     c \in TornDocument(n.current), x \in TornDocument(n.next), lost \in SUBSET WrittenFiles(n)}
Survivors == UNION {Torn(n) : n \in images}

-----------------------------------------------------------------------------
(***************************************************************************)
(* The writer.                                                             *)
(***************************************************************************)
\* Files that an earlier writer wrote to their end and did not sync; they read well.
Unsynced(n) ==
  \/ \E d \in Directories(n, "staged") : "written" \in {d.binary, d.document}
  \/ n.next # None /\ n.next.status = "written"

\* Mutant: the writer's lock does not exclude the launcher's publisher.
LockDespiteReader ==
  /\ writer = None
  /\ \E todo \in recover_locked(names) :
       writer' = [request |-> None, phase |-> "recovering", todo |-> todo]
  /\ adopted' = (adopted \/ Unsynced(names))
  /\ UNCHANGED <<names, images, reader, reported>>

\* publish and recover take the lock and recover first, whatever was asked for.
Lock ==
  /\ writer = None /\ reader = None
  /\ \E todo \in recover_locked(names) :
       writer' = [request |-> None, phase |-> "recovering", todo |-> todo]
  /\ adopted' = (adopted \/ Unsynced(names))
  /\ UNCHANGED <<names, images, reader, reported>>

PublishScript(c, r) ==
  <<Make(r), Write(r, "binary"), SyncFile(r, "binary"), Write(r, "document"),
    SyncFile(r, "document"), Sync, Move(r, "staged", "generations"), Sync>>
  \o stage_and_switch_current(current_successor_wire(c, r)) \o <<Cleanup>>

\* The writer has run its script, and the current document loads.
Done(phase) ==
  /\ writer # None /\ writer.phase = phase /\ writer.todo = <<>>
  /\ CurrentLoads(names)

\* Mutant: the operation of the retained generation is not refused.
MayPublishAgain(n, r) ==
  /\ CurrentOf(n).operation # r.operation
  /\ CurrentOf(n).accepted = predecessor(r.generation)

\* Mutant: only the number of the accepted generation is compared.
MayPublishByNumber(n, r) ==
  /\ CurrentOf(n).operation # r.operation
  /\ r.operation \notin retained_operation(n)
  /\ Len(CurrentOf(n).accepted) + 1 = Len(r.generation)

\* The recovered store is compared with the request: a new operation must
\* succeed the accepted generation.
MayPublish(n, r) ==
  /\ CurrentOf(n).operation # r.operation
  /\ r.operation \notin retained_operation(n)
  /\ CurrentOf(n).accepted = predecessor(r.generation)

publish_inner ==
  /\ Done("recovering")
  /\ \E r \in Requests :
       /\ MayPublish(names, r)
       /\ writer' = [request |-> r, phase |-> "publishing",
                     todo |-> PublishScript(CurrentOf(names), r)]
  /\ UNCHANGED <<names, images, reader, reported, adopted>>

\* An operation that was carried out before is answered again; nothing is synced.
Replay ==
  /\ Done("recovering")
  /\ \E r \in Requests :
       CurrentOf(names).operation = r.operation /\ CurrentOf(names).accepted = r.generation
  /\ writer' = None
  /\ UNCHANGED <<names, images, reader, reported, adopted>>

FinishPublication ==
  /\ Done("publishing")
  /\ reported' = writer.request.generation /\ writer' = None
  /\ UNCHANGED <<names, images, reader, adopted>>

FinishRecovery ==
  /\ Done("recovering")
  /\ writer' = None
  /\ UNCHANGED <<names, images, reader, reported, adopted>>

Step ==
  /\ writer # None /\ writer.todo # <<>>
  /\ LET s == Head(writer.todo) IN
     IF s \in Procedures
     THEN /\ \E script \in Expand(s, names) : writer' = [writer EXCEPT !.todo = script \o Tail(@)]
          /\ UNCHANGED <<names, images>>
     ELSE /\ NameIsFree(names, s)
          /\ names' = Applied(names, s)
          /\ images' = IF Commits(s) THEN {names'} ELSE images \cup {names'}
          /\ writer' = [writer EXCEPT !.todo = Tail(@)]
  /\ UNCHANGED <<reader, reported, adopted>>

\* A refusal, an I/O error or the death of the process: the lock is gone and
\* nothing is cleaned up.
Stop ==
  /\ writer # None /\ writer' = None
  /\ UNCHANGED <<names, images, reader, reported, adopted>>

StopInWrite ==
  /\ writer # None /\ writer.todo # <<>> /\ Head(writer.todo).op \in {"Write", "WriteNext"}
  /\ NameIsFree(names, Head(writer.todo))
  /\ names' = Half(names, Head(writer.todo)) /\ images' = images \cup {names'}
  /\ writer' = None
  /\ UNCHANGED <<reader, reported, adopted>>

PowerLoss ==
  /\ names' \in Survivors /\ images' = {names'}
  /\ writer' = None /\ reader' = None
  /\ UNCHANGED <<reported, adopted>>

-----------------------------------------------------------------------------
(***************************************************************************)
(* The launcher: one symbolic link to the binary of a generation.          *)
(***************************************************************************)
LauncherTargets(n) == {CurrentOf(n).accepted, CurrentOf(n).retained} \ {NoGeneration}

MayLaunch(g) ==
  /\ writer = None /\ reader = None
  /\ ~ has_recovery_debt(names) /\ CurrentLoads(names)
  /\ g \in LauncherTargets(names)

\* An absent launcher is about to be made; the shared lock is held.
LockLauncher ==
  /\ \E g \in Launchers : MayLaunch(g) /\ reader' = g
  /\ names.launcher = None
  /\ UNCHANGED <<names, images, writer, reported, adopted>>

\* The one that is already there is made durable; another one is refused.
ReplayLauncher ==
  /\ MayLaunch(names.launcher)
  /\ images' = {names}
  /\ UNCHANGED <<names, writer, reader, reported, adopted>>

CreateLauncher ==
  /\ reader # None /\ names.launcher = None
  /\ names' = [names EXCEPT !.launcher = reader] /\ images' = images \cup {names'}
  /\ UNCHANGED <<writer, reader, reported, adopted>>

SyncLauncher ==
  /\ reader # None /\ names.launcher = reader
  /\ images' = {names} /\ reader' = None
  /\ UNCHANGED <<names, writer, reported, adopted>>

StopLauncher ==
  /\ reader # None /\ reader' = None
  /\ UNCHANGED <<names, images, writer, reported, adopted>>

\* The operator retires a launcher; no program of the repository does.
RemoveLauncher ==
  /\ names.launcher # None
  /\ names' = [names EXCEPT !.launcher = None] /\ images' = images \cup {names'}
  /\ UNCHANGED <<writer, reader, reported, adopted>>

-----------------------------------------------------------------------------
Init ==
  /\ names = [current |-> None, next |-> None, directories |-> {}, launcher |-> None]
  /\ images = {names}
  /\ writer = None /\ reader = None /\ reported = NoGeneration /\ adopted = FALSE

Next ==
  \/ Lock \/ publish_inner \/ Replay \/ FinishPublication \/ FinishRecovery
  \/ Step
  \/ Stop \/ StopInWrite \/ PowerLoss
  \/ LockLauncher \/ ReplayLauncher \/ CreateLauncher \/ SyncLauncher \/ StopLauncher
  \/ RemoveLauncher

Spec == Init /\ [][Next]_vars

-----------------------------------------------------------------------------
\* What recovery refuses by design: a stage that is not complete, or a
\* current.next that was not written to its end.
Incomplete(n) ==
  \/ \E d \in Directories(n, "staged") : ~ Complete(d)
  \/ n.next # None /\ n.next.status = "torn"

\* The current document loads with its generations, and the next writer recovers
\* the store, unless it finds an incomplete stage.
Recovers(n) == CurrentLoads(n) /\ (Incomplete(n) \/ recover_locked(n) # {})

\* Where the writer is, a procedure that reads the store again finds a script.
Proceeds ==
  writer # None /\ writer.todo # <<>> /\ Head(writer.todo) \in Procedures =>
    Expand(Head(writer.todo), names) # {}

\* "Crash-safe": whatever step a writer, a recovery or the machine stopped at, the
\* store that is left recovers, and its recovery is not refused half way.
EveryStopRecovers == (\A n \in Survivors : Recovers(n)) /\ Proceeds

\* A power loss took the bytes of a published file.
LostPublished(n) ==
  \/ n.current # None /\ n.current.status = "torn"
  \/ \E d \in n.directories : d.at # "staged" /\ d.document = "torn"

\* Whatever step a writer, a recovery or the machine stopped at, the store that is
\* left recovers and its recovery is not refused half way; only where a recovery
\* had published a file without syncing it may a power loss take its bytes.
StopsRecover ==
  /\ \A n \in Survivors : Recovers(n) \/ (adopted /\ LostPublished(n))
  /\ Proceeds \/ (adopted /\ LostPublished(names))

\* The binary of a generation is there, whatever became of its document.
Binary(n, g) ==
  {d \in Directories(n, "generations") : d.of.generation = g /\ Readable(d.binary)}

\* A launcher finds its binary, also on the disk a power loss leaves, until two
\* newer generations were accepted; and no writer supersedes the generation a
\* launcher's publisher is about to name.
LauncherIsBacked ==
  /\ \A n \in Survivors :
       n.launcher # None =>
         \/ Binary(n, n.launcher) # {}
         \/ Len(CurrentOf(n).accepted) >= Len(n.launcher) + 2
  /\ reader # None =>
       reader \in LauncherTargets(names) /\ load_generation(names, reader) # {}

\* The generation an image ends with once it is recovered.
Settled(n) ==
  LET c == CurrentOf(n)
      successors == {d \in Directories(n, "staged") \cup Directories(n, "generations") :
                       Complete(d) /\ predecessor(d.of.generation) = c.accepted}
  IN IF n.next # None /\ Readable(n.next.status) THEN n.next.document.accepted
     ELSE IF successors # {} THEN (CHOOSE d \in successors : TRUE).of.generation
     ELSE c.accepted

\* What is installed for good: the least any image settles to.
Installed ==
  LET ends == UNION {{Settled(m) : m \in Torn(n)} : n \in images} IN
  CHOOSE g \in ends : \A h \in ends : Len(g) <= Len(h)

History == INSTANCE LocalInstallHistory WITH installed <- Installed

\* Through crashes, errors and power losses the installation implements a
\* history that grows by one generation at a time, each the successor of the
\* last one, and that no receipt of a publication runs ahead of.
ImplementsHistory == History!Spec
=============================================================================
