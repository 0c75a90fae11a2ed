----------------------- MODULE UnixResidentSandboxStore -----------------------
(***************************************************************************)
(* How the catalog of resident sandboxes is kept in one file.  A call      *)
(* takes the writer lock, synchronizes the directory and recovers; it then *)
(* writes the next document to a stage, synchronizes it, exchanges the     *)
(* names of stage and current document, synchronizes the directory, and    *)
(* truncates in place what it displaced.  The emptied file is the stage of *)
(* the next call.  The process may die between any two of these steps, any *)
(* of them may fail, and a power loss keeps any of the directory changes   *)
(* and file bytes that were not synchronized.                              *)
(*                                                                         *)
(* The directory is private to its owner: no other program renames its     *)
(* entries, and the identity checks that detect one always succeed.        *)
(***************************************************************************)
EXTENDS ResidentSandboxCatalog

CONSTANTS
  Clients,  \* processes that load and replace the catalog
  Inodes,
  Empty,    \* a file of length zero
  Torn      \* a document that is only partly there

ASSUME StoreAssumption ==
  /\ None \notin Inodes \cup Clients /\ Empty # Torn /\ None \notin {Empty, Torn}
  /\ \A x \in {None, Empty, Torn} : x \notin Catalogs

VARIABLES
  names,    \* the directory a process sees: "current" and "stage" -> inode or None
  disk,     \* the directory at its last synchronization
  images,   \* the directories a power loss now may leave
  content,  \* what a process reads from each inode
  blocks,   \* inode -> what a power loss now may leave in it
  tx,       \* the call that holds the writer lock, or None
  seen,     \* client -> the catalog it loaded, or None
  returned  \* the last catalog whose publication was reported, or None

vars == <<names, disk, images, content, blocks, tx, seen, returned>>
files == <<names, disk, images, content, blocks>>

ReadOf(directory, name) ==
  IF directory[name] = None THEN None ELSE content[directory[name]]

\* open_named_document: an empty stage is no stage
CurrentDocument == ReadOf(names, "current")
StagedDocument ==
  IF ReadOf(names, "stage") = Empty THEN None ELSE ReadOf(names, "stage")

Decodes(document) == document \notin {None, Empty, Torn}

Synchronized == disk' = names /\ images' = {names}

Renamed(next) ==
  /\ names' = next
  /\ images' = images \cup {next}
  /\ UNCHANGED disk

-----------------------------------------------------------------------------
(***************************************************************************)
(* Starting a call: acquire_writer_lock, prepare_locked, recover_locked.   *)
(***************************************************************************)
Transaction(step, owner, document, prior, armed) ==
  [step |-> step, owner |-> owner, document |-> document,
   staged |-> IF step = "validate" THEN names["stage"] ELSE None,
   prior |-> prior, armed |-> armed]

\* Mutant: a staged Started checkpoint is published like any other.
ClassifyAllSafe(current, staged) == "SafePublish"

classify_successor_recovery(current, staged) ==
  IF Cardinality(staged.entries) = Cardinality(current.entries) + 1 THEN "SafePublish"
  ELSE LET prior == CHOOSE r \in current.entries : r \notin staged.entries
           next == CHOOSE r \in staged.entries : r \notin current.entries
       IN CASE prior.operation = None \/ next.operation = None -> "SafePublish"
            [] next.operation # None /\ next.operation.phase = "Started" ->
                 "DiscardUnpublishedStarted"
            [] OTHER -> "SafePublish"

\* Mutant: the predecessor an exchange left in the stage is not recognized.
RecoverForwardOnly(current, staged) ==
  IF staged = current THEN "Remove"
  ELSE IF ~ validate_successor_of(staged, current) THEN "Refuse"
  ELSE IF classify_successor_recovery(current, staged) = "SafePublish" THEN "Publish"
  ELSE "Remove"

\* What recover_locked does with a stage beside a current document.
Disposition(current, staged) ==
  IF staged = current \/ validate_successor_of(current, staged) THEN "Remove"
  ELSE IF ~ validate_successor_of(staged, current) THEN "Refuse"
  ELSE IF classify_successor_recovery(current, staged) = "SafePublish" THEN "Publish"
  ELSE "Remove"

\* What it does with the directory a process sees.
Recovery ==
  CASE StagedDocument = None -> "Clean"
    [] StagedDocument = Torn \/ CurrentDocument \in {Empty, Torn} -> "Refuse"
    [] StagedDocument \notin {None, Torn} /\ CurrentDocument = None ->
         IF StagedDocument = empty THEN "Publish" ELSE "Refuse"
    [] OTHER -> Disposition(CurrentDocument, StagedDocument)

recover_locked ==
  /\ tx = None /\ Recovery \in {"Publish", "Remove"}
  /\ Synchronized
  /\ tx' = IF Recovery = "Publish"
           THEN Transaction("validate", None, StagedDocument, names["current"], FALSE)
           ELSE Transaction("truncate", None, None, names["stage"], FALSE)
  /\ UNCHANGED <<names, content, blocks, seen, returned>>

load(c) ==
  /\ tx = None /\ StagedDocument = None /\ Decodes(CurrentDocument)
  /\ Synchronized
  /\ seen' = [seen EXCEPT ![c] = CurrentDocument]
  /\ UNCHANGED <<names, content, blocks, tx, returned>>

create(c) ==
  /\ tx = None /\ Recovery = "Clean" /\ CurrentDocument = None
  /\ Synchronized
  /\ tx' = Transaction("stage", c, empty, None, TRUE)
  /\ UNCHANGED <<names, content, blocks, seen, returned>>

\* Mutant: the revision and the successor test are of what the client loaded.
ReplaceStale(c) ==
  /\ tx = None /\ Recovery = "Clean" /\ seen[c] # None /\ Decodes(CurrentDocument)
  /\ Synchronized
  /\ \E next \in Successors(seen[c]) :
       /\ validate_successor_of(next, seen[c])
       /\ tx' = Transaction("stage", c, next, names["current"], TRUE)
  /\ UNCHANGED <<names, content, blocks, seen, returned>>

\* The client offers a successor of the catalog it loaded.
replace_if_revision(c) ==
  /\ tx = None /\ Recovery = "Clean" /\ seen[c] # None /\ Decodes(CurrentDocument)
  /\ CurrentDocument.revision = seen[c].revision
  /\ Synchronized
  /\ \E next \in Successors(seen[c]) :
       /\ validate_successor_of(next, CurrentDocument)
       /\ tx' = Transaction("stage", c, next, names["current"], TRUE)
  /\ UNCHANGED <<names, content, blocks, seen, returned>>

-----------------------------------------------------------------------------
(***************************************************************************)
(* stage and publish, one file operation at a time.                        *)
(***************************************************************************)
At(step) == tx # None /\ tx.step = step

\* The slot an earlier call emptied is reused; otherwise a file is created.
OpenStage ==
  /\ At("stage")
  /\ IF names["stage"] # None
     THEN tx' = [tx EXCEPT !.step = "write", !.staged = names["stage"]]
          /\ UNCHANGED files
     ELSE \E i \in Inodes \ UNION {{d["current"], d["stage"]} : d \in images \cup {names}} :
            /\ Renamed([names EXCEPT !["stage"] = i])
            /\ content' = [content EXCEPT ![i] = Empty]
            /\ blocks' = [blocks EXCEPT ![i] = {Empty}]
            /\ tx' = [tx EXCEPT !.step = "write", !.staged = i]
  /\ UNCHANGED <<seen, returned>>

WriteStage ==
  /\ At("write")
  /\ content' = [content EXCEPT ![tx.staged] = tx.document]
  /\ blocks' = [blocks EXCEPT ![tx.staged] = @ \cup {tx.document, Torn}]
  /\ tx' = [tx EXCEPT !.step = "syncFile"]
  /\ UNCHANGED <<names, disk, images, seen, returned>>

SyncStage ==
  /\ At("syncFile")
  /\ blocks' = [blocks EXCEPT ![tx.staged] = {content[tx.staged]}]
  /\ tx' = [tx EXCEPT !.step = "validate"]
  /\ UNCHANGED <<names, disk, images, content, seen, returned>>

\* validate_existing_stage also synchronizes a stage that recovery found.
ValidateStage ==
  /\ At("validate")
  /\ blocks' = [blocks EXCEPT ![tx.staged] = {content[tx.staged]}]
  /\ tx' = [tx EXCEPT !.step = "rename"]
  /\ UNCHANGED <<names, disk, images, content, seen, returned>>

\* EXCHANGE, or NOREPLACE for the first document.
RenameStage ==
  /\ At("rename")
  /\ Renamed([names EXCEPT !["current"] = tx.staged, !["stage"] = tx.prior])
  /\ tx' = [tx EXCEPT !.step = "syncDirectory", !.armed = FALSE]
  /\ UNCHANGED <<content, blocks, seen, returned>>

Finish ==
  /\ tx' = None
  /\ returned' = IF tx.owner = None THEN returned ELSE tx.document
  /\ UNCHANGED seen

\* Mutant: the displaced document is truncated before the exchange is durable.
RetireUnsynced ==
  /\ At("syncDirectory")
  /\ IF tx.prior = None THEN Synchronized /\ Finish
     ELSE /\ tx' = [tx EXCEPT !.step = "truncate"]
          /\ UNCHANGED <<disk, images, seen, returned>>
  /\ UNCHANGED <<names, content, blocks>>

\* Mutant: a publication is reported before its directory is synchronized.
ReportUnsynced ==
  /\ At("syncDirectory")
  /\ IF tx.prior = None THEN Finish
     ELSE tx' = [tx EXCEPT !.step = "truncate"] /\ UNCHANGED <<seen, returned>>
  /\ UNCHANGED files

SyncPublication ==
  /\ At("syncDirectory")
  /\ Synchronized
  /\ IF tx.prior = None THEN Finish
     ELSE tx' = [tx EXCEPT !.step = "truncate"] /\ UNCHANGED <<seen, returned>>
  /\ UNCHANGED <<names, content, blocks>>

\* retire_exact_document; remove_stage is this and what follows, after a sync.
TruncateRetired ==
  /\ At("truncate")
  /\ content' = [content EXCEPT ![tx.prior] = Empty]
  /\ blocks' = [blocks EXCEPT ![tx.prior] = @ \cup {Empty}]
  /\ tx' = [tx EXCEPT !.step = "syncRetired"]
  /\ UNCHANGED <<names, disk, images, seen, returned>>

SyncRetired ==
  /\ At("syncRetired")
  /\ blocks' = [blocks EXCEPT ![tx.prior] = {content[tx.prior]}]
  /\ Synchronized
  /\ IF tx.document = None THEN tx' = None /\ UNCHANGED <<seen, returned>> ELSE Finish
  /\ UNCHANGED <<names, content>>

-----------------------------------------------------------------------------
(***************************************************************************)
(* Faults.                                                                 *)
(***************************************************************************)
\* The client's process dies, and with it the revision it had read.
Forget(c) == seen' = IF c = None THEN seen ELSE [seen EXCEPT ![c] = None]

\* The process that holds the lock dies, also in the middle of a write.
Crash ==
  /\ tx # None
  /\ \/ UNCHANGED <<content, blocks>>
     \/ /\ At("write")
        /\ content' = [content EXCEPT ![tx.staged] = Torn]
        /\ blocks' = [blocks EXCEPT ![tx.staged] = @ \cup {Torn}]
  /\ tx' = None /\ Forget(tx.owner)
  /\ UNCHANGED <<names, disk, images, returned>>

\* A file operation fails.  Dropping a stage that is still armed truncates it,
\* which may fail as well.
Fail ==
  /\ tx # None
  /\ \/ UNCHANGED <<content, blocks>>
     \/ /\ tx.armed /\ tx.staged # None
        /\ content' = [content EXCEPT ![tx.staged] = Empty]
        /\ blocks' \in {[blocks EXCEPT ![tx.staged] = b] :
                          b \in {{Empty}, blocks[tx.staged] \cup {Empty}}}
  /\ tx' = None
  /\ UNCHANGED <<names, disk, images, seen, returned>>

PowerLoss ==
  /\ \E d \in images :
       /\ names' = d /\ disk' = d /\ images' = {d}
       /\ content' \in {f \in [Inodes -> UNION {blocks[i] : i \in Inodes}] :
                          \A i \in Inodes : f[i] \in blocks[i]}
       /\ blocks' = [i \in Inodes |-> {content'[i]}]
  /\ tx' = None /\ seen' = [c \in Clients |-> None]
  /\ UNCHANGED returned

-----------------------------------------------------------------------------
Init ==
  /\ names = [n \in {"current", "stage"} |-> None]
  /\ disk = names /\ images = {names}
  /\ content = [i \in Inodes |-> Empty] /\ blocks = [i \in Inodes |-> {Empty}]
  /\ tx = None /\ seen = [c \in Clients |-> None] /\ returned = None

Next ==
  \/ recover_locked
  \/ \E c \in Clients : load(c) \/ create(c) \/ replace_if_revision(c)
  \/ OpenStage \/ WriteStage \/ SyncStage \/ ValidateStage \/ RenameStage
  \/ SyncPublication \/ TruncateRetired \/ SyncRetired
  \/ Crash \/ Fail \/ PowerLoss

Spec == Init /\ [][Next]_vars

-----------------------------------------------------------------------------
(***************************************************************************)
(* Properties.                                                             *)
(***************************************************************************)
\* The current document is whole and valid at every instant, also as a power
\* loss may leave it: no name the directory may come back with as current leads
\* to a file that was truncated or is half written.
CurrentIsWhole ==
  \A d \in images \cup {names, disk} :
    d["current"] # None =>
      \A document \in blocks[d["current"]] \cup {content[d["current"]]} :
        Decodes(document) /\ validate(document)

\* A publication that was reported is never undone: every directory a power
\* loss may leave holds that catalog or a later one.
ReturnIsDurable ==
  returned # None =>
    \A d \in images :
      d["current"] # None /\ content[d["current"]].revision >= returned.revision

\* Whatever was interrupted, also an earlier recovery, is classified again,
\* unless a stage is torn ("malformed stages remain fenced for explicit
\* recovery").
EveryStopRecovers ==
  tx = None /\ StagedDocument # Torn => Recovery # "Refuse"

\* Operations that some directory a power loss may leave calls started.
StartedOperations ==
  LET documents == {content[d["current"]] : d \in {d \in images : d["current"] # None}} IN
  UNION {{<<key(r), r.operation.generation>> :
            r \in {r \in c.entries : r.operation # None /\ r.operation.phase = "Started"}} :
           c \in {c \in documents : Decodes(c)}}

\* A Started checkpoint becomes current only in the call of a client that is
\* waiting for it: recovery never declares an operation started on its own.
RecoveryStartsNothing ==
  [][StartedOperations' \subseteq StartedOperations \/ (tx # None /\ tx.owner # None)]_vars

\* Documents that differ from c in one record: a skipped operation generation,
\* a physical state nobody observed, an operation one phase on.
Variants(c) ==
  UNION {{[c EXCEPT !.entries = (@ \ {r}) \cup {v}] :
            v \in {[r EXCEPT !.physical = "StoppedBound"]}
                  \cup (IF r.operation = None THEN {[r EXCEPT !.last = @ + 1]}
                        ELSE {[r EXCEPT !.last = @ + 1, !.operation.generation = @ + 1]}
                             \cup {[r EXCEPT !.operation.phase = phase] :
                                     phase \in {"Started", "RecoveryRequired"}})} :
           r \in c.entries}

\* The successor test of the store accepts what a call of the catalog makes,
\* and nothing else: not two calls in a row, none, or a call and a change.
SuccessorTestIsExact ==
  Decodes(CurrentDocument) /\ tx = None /\ (\A c \in Clients : seen[c] = None) =>
    LET once == Successors(CurrentDocument)
        twice == UNION {Successors(c) : c \in once}
    IN /\ \A c \in once : validate_successor_of(c, CurrentDocument)
       /\ \A c \in twice \cup {[d EXCEPT !.revision = @ - 1] : d \in twice}
                 \cup (UNION {Variants(d) : d \in once}) \cup {CurrentDocument} :
            validate_successor_of(c, CurrentDocument) => c \in once

\* The durable directory implements one catalog that only moves forward by
\* whole calls, each made of the catalog it replaces: no crash, error or power
\* loss shows part of one, and no client overwrites what it did not load.
DurableCatalog == IF disk["current"] = None THEN None ELSE content[disk["current"]]
History == INSTANCE ResidentSandboxHistory WITH catalog <- DurableCatalog
ImplementsHistory == History!Spec

=============================================================================
