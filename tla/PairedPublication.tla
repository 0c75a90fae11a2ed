-------------------------- MODULE PairedPublication --------------------------
(***************************************************************************)
(* How the private store publishes a catalog and a delivery fence that are *)
(* two files.  A document is written to a stage, synchronized, and renamed *)
(* over the current one; a name is durable once its directory was synced.  *)
(* A transaction is the list of the file operations left to do, `script';  *)
(* a crash forgets it, an error also removes the stages it still guards,   *)
(* and a power loss keeps any of the directory changes since the last      *)
(* sync.  The next open classifies what it finds and finishes it or rolls  *)
(* it back; one writer lock serialises everything.                         *)
(*                                                                         *)
(* The personal worker document, the template generation and the Lima      *)
(* authority, whose own stages veto these transactions, are taken clean.   *)
(***************************************************************************)
EXTENDS ScaleSetDeliveryRecoveryState

CONSTANTS
  Deliveries, ObservationTimes, \* as in ScaleSetDeliveryFence
  Torn,                         \* what a partly written file holds
  TornWrites                    \* whether a crash or power loss may tear a file

ASSUME FaultsAssumption == TornWrites \in BOOLEAN

\* The service hands out messages, whose deadlines a document can carry; the
\* absence of a file and what a torn one holds are no documents.
ASSUME DocumentsAssumption ==
  /\ Deliveries \subseteq DeliveryMessages
  /\ \A t \in ObservationTimes : attempt_not_after(t) \in Times
  /\ Torn # None /\ {None, Torn} \cap (CatalogDocuments \cup RecoveryDocuments) = {}

VARIABLES
  files,   \* the directory a process sees: name -> document, None or Torn
  disk,    \* the directory at its last sync
  images,  \* the directories a power loss now may leave
  dirty,   \* stages whose bytes were written and not synced
  script,  \* file operations the open store still has to do
  armed,   \* stages an error removes on its way out
  open     \* whether a process holds the store, recovered

vars == <<files, disk, images, dirty, script, armed, open>>

Names == {"catalog", "catalogStage", "delivery", "deliveryStage"}

\* stage_named_bytes, publish_named_staged, StagedDocument and the unlinks.
Write(name, document) == [op |-> "write", name |-> name, document |-> document]
SyncFile(name) == [op |-> "syncFile", name |-> name]
Disarm(name) == [op |-> "disarm", name |-> name]
SyncDirectory == [op |-> "syncDirectory"]
Rename(stage, name, no_replace) ==
  [op |-> "rename", name |-> stage, to |-> name, no_replace |-> no_replace]
Unlink(name) == [op |-> "unlink", name |-> name]

\* Mutant: the bytes of a stage are not synchronized before it is renamed.
StageUnsynced(name, document) == <<Write(name, document)>>

Stage(name, document) == <<Write(name, document), SyncFile(name)>>
PublishCatalog == <<Rename("catalogStage", "catalog", FALSE), SyncDirectory>>
PublishDelivery(no_replace) ==
  <<Rename("deliveryStage", "delivery", no_replace), SyncDirectory>>

\* Mutant: the settled fence is unlinked and the directory is not synced.
RemoveUnsynced(name) == <<Unlink(name)>>

Removal(name) == <<Unlink(name), SyncDirectory>>

-----------------------------------------------------------------------------
(***************************************************************************)
(* The transactions, from a recovered directory.                           *)
(***************************************************************************)
\* Mutant: the delivery stage is not made durable before the catalog stage.
PairScriptUnordered(f, r, no_replace) ==
  IF r.catalog = f["catalog"] THEN Stage("deliveryStage", r) \o PublishDelivery(no_replace)
  ELSE Stage("deliveryStage", r) \o <<Disarm("deliveryStage")>>
         \o Stage("catalogStage", r.catalog) \o PublishCatalog \o PublishDelivery(no_replace)

\* Reconciliation and lifecycle resolution: both stages are durable, the
\* delivery's first, before the catalog and then the fence are renamed.
PairScript(f, r, no_replace) ==
  IF r.catalog = f["catalog"] THEN Stage("deliveryStage", r) \o PublishDelivery(no_replace)
  ELSE Stage("deliveryStage", r) \o <<SyncDirectory, Disarm("deliveryStage")>>
         \o Stage("catalogStage", r.catalog) \o <<SyncDirectory>>
         \o PublishCatalog \o PublishDelivery(no_replace)

\* settle_scale_set_delivery_locked: the intent is published first, then the
\* catalog, and the fence is removed last.
SettleScript(f, prepared) ==
  LET target == prepared.phase.target
      changes == target # f["catalog"]
  IN Stage("deliveryStage", prepared) \o <<SyncDirectory>>
       \o (IF changes THEN Stage("catalogStage", target) \o <<SyncDirectory>> ELSE <<>>)
       \o PublishDelivery(FALSE)
       \o (IF changes THEN PublishCatalog ELSE <<>>)
       \o Removal("delivery")

\* publish_scale_set_reconciled_delivery, with no delivery unsettled.
ReconcileScripts(f) ==
  IF f["delivery"] # None THEN {}
  ELSE {PairScript(f, r, TRUE) :
          r \in UNION {UNION {ReconciledFences(m, f["catalog"], t) : t \in ObservationTimes} :
                         m \in Deliveries}}

\* The single-document successors of controller_transaction.
AdvanceScripts(f) ==
  IF f["delivery"] = None THEN {}
  ELSE {Stage("deliveryStage", r) \o PublishDelivery(FALSE) :
          r \in {r \in Advances(f["delivery"]) : exact_recovery_successor(f["delivery"], r)}}

ResolveScripts(f) ==
  IF f["delivery"] = None THEN {}
  ELSE UNION {{PairScript(f, r, FALSE) : r \in ResolvedFences(f["delivery"], m, f["catalog"])} :
                m \in Deliveries}

SettleScripts(f) ==
  IF f["delivery"] = None THEN {}
  ELSE UNION {{SettleScript(f, r) : r \in prepare_settlement(f["delivery"], f["catalog"], c)} :
                c \in SettledCatalogs(f["delivery"], f["catalog"])}

\* replace_if_revision, which refuse_unsettled_scale_set_delivery fences off.
CatalogScripts(f) ==
  IF f["delivery"] # None THEN {}
  ELSE {Stage("catalogStage", c) \o PublishCatalog : c \in OrdinarySuccessors(f["catalog"])}

-----------------------------------------------------------------------------
(***************************************************************************)
(* Recovery: the scripts an open may run, {} when it refuses.              *)
(***************************************************************************)
Exists(f, name) == f[name] # None
Decodes(f) == \A name \in Names : f[name] # Torn
Is(f, name, phases) == Exists(f, name) /\ f[name].phase.name \in phases

\* recover_scale_set_delivery_locked
RecoverDelivery(f) ==
  LET current == f["delivery"]  staged == f["deliveryStage"] IN
  CASE staged = None -> {<<>>}
    [] staged # None /\ current = None ->
         IF staged.revision = 1 /\ staged.phase = Reconciled
         THEN {<<SyncFile("deliveryStage")>> \o PublishDelivery(TRUE)} ELSE {}
    [] staged # None /\ current = staged -> {Removal("deliveryStage")}
    [] OTHER -> IF exact_recovery_successor(current, staged)
                THEN {<<SyncFile("deliveryStage")>> \o PublishDelivery(FALSE)} ELSE {}

\* recover_catalog_locked
RecoverCatalog(f) ==
  LET current == f["catalog"]  staged == f["catalogStage"] IN
  CASE staged = None -> {<<>>}
    [] staged # None /\ staged = current -> {Removal("catalogStage")}
    [] OTHER -> IF validate_recovery_successor_of(staged, current)
                THEN {<<SyncFile("catalogStage")>> \o PublishCatalog} ELSE {}

\* A catalog stage that repeats the current catalog is removed; another one
\* is refused.
DropStaleCatalogStage(f) ==
  CASE f["catalogStage"] = None -> {<<>>}
    [] f["catalogStage"] # None /\ f["catalogStage"] = f["catalog"] -> {Removal("catalogStage")}
    [] OTHER -> {}

\* The rest of recover_scale_set_settlement_locked, once `prepared' is current.
FinishSettlement(f, prepared) ==
  LET current == f["catalog"]  staged == f["catalogStage"]
      publish ==
        IF matches_catalog(prepared, current) THEN
          UNION {IF target = current THEN DropStaleCatalogStage(f)
                 ELSE IF staged = target THEN {<<SyncFile("catalogStage")>> \o PublishCatalog}
                 ELSE IF staged = None
                 THEN {Stage("catalogStage", target) \o <<SyncDirectory>> \o PublishCatalog}
                 ELSE {} :
                   target \in {t \in SettledCatalogs(prepared, current) :
                                 matches_settlement_catalog(prepared, t)}}
        ELSE IF /\ matches_settlement_catalog(prepared, current)
                /\ current \in SettledCatalogs(prepared, prepared.catalog)
        THEN DropStaleCatalogStage(f)
        ELSE {}
  IN {s \o Removal("delivery") : s \in publish}

SettlementIsPresent(f) ==
  \/ Is(f, "delivery", {"SettlementPrepared"})
  \/ Is(f, "deliveryStage", {"SettlementPrepared"})

recover_scale_set_settlement_locked(f) ==
  LET prepared == IF Exists(f, "deliveryStage") THEN f["deliveryStage"] ELSE f["delivery"] IN
  IF prepared.phase.name # "SettlementPrepared" THEN {}
  ELSE {s \o t : s \in RecoverDelivery(f), t \in FinishSettlement(f, prepared)}

\* A staged lifecycle resolution of the current fence.
RecoverResolution(f) ==
  LET current == f["catalog"]  stage == f["catalogStage"]  staged == f["deliveryStage"]
      publish == <<SyncFile("deliveryStage")>> \o PublishDelivery(FALSE)
  IN
  IF matches_catalog(f["delivery"], current) THEN
    CASE Exists(f, "catalogStage") /\ matches_catalog(staged, stage) ->
           {<<SyncFile("deliveryStage"), SyncFile("catalogStage")>>
              \o PublishCatalog \o PublishDelivery(FALSE)}
      [] stage = None /\ matches_catalog(staged, current) -> {publish}
      [] stage = None /\ ~ matches_catalog(staged, current) -> {Removal("deliveryStage")}
      [] OTHER -> {}
  ELSE IF matches_catalog(staged, current) THEN
    {s \o publish : s \in DropStaleCatalogStage(f)}
  ELSE {}

\* A current fence, with or without a stage.  `lifecycle_resolution()' of a
\* stage that has none is an error before the single successor is considered.
RecoverFenced(f) ==
  LET staged == f["deliveryStage"] IN
  IF staged # None /\ ~ HasResolution(staged) THEN {}
  ELSE IF staged # None /\ is_lifecycle_resolution_of(staged, f["delivery"])
  THEN RecoverResolution(f)
  ELSE IF ~ matches_catalog(f["delivery"], f["catalog"]) \/ Exists(f, "catalogStage") THEN {}
  ELSE RecoverDelivery(f)

\* Mutant: a delivery stage without its catalog is published, not rolled back.
RecoverUnfencedForward(f) ==
  LET staged == f["deliveryStage"] IN
  IF staged = None THEN RecoverCatalog(f)
  ELSE IF staged.revision # 1 \/ staged.phase # Reconciled THEN {}
  ELSE IF Exists(f, "catalogStage") THEN
    IF matches_catalog(staged, f["catalog"]) /\ f["catalogStage"] = f["catalog"]
    THEN {Removal("catalogStage") \o <<SyncFile("deliveryStage")>> \o PublishDelivery(TRUE)}
    ELSE IF matches_prior_catalog(staged, f["catalog"]) /\ matches_catalog(staged, f["catalogStage"])
    THEN {<<SyncFile("deliveryStage"), SyncFile("catalogStage")>>
            \o PublishCatalog \o PublishDelivery(TRUE)}
    ELSE {}
  ELSE {<<SyncFile("deliveryStage")>> \o PublishDelivery(TRUE)}

\* No current fence: an ordinary catalog stage, or a reconciliation that is
\* finished when both stages or the new catalog exist and undone otherwise.
RecoverUnfenced(f) ==
  LET staged == f["deliveryStage"] IN
  IF staged = None THEN RecoverCatalog(f)
  ELSE IF staged.revision # 1 \/ staged.phase # Reconciled THEN {}
  ELSE IF Exists(f, "catalogStage") THEN
    IF matches_catalog(staged, f["catalog"]) /\ f["catalogStage"] = f["catalog"]
    THEN {Removal("catalogStage") \o <<SyncFile("deliveryStage")>> \o PublishDelivery(TRUE)}
    ELSE IF matches_prior_catalog(staged, f["catalog"]) /\ matches_catalog(staged, f["catalogStage"])
    THEN {<<SyncFile("deliveryStage"), SyncFile("catalogStage")>>
            \o PublishCatalog \o PublishDelivery(TRUE)}
    ELSE {}
  ELSE IF matches_catalog(staged, f["catalog"])
  THEN {<<SyncFile("deliveryStage")>> \o PublishDelivery(TRUE)}
  ELSE IF matches_prior_catalog(staged, f["catalog"]) THEN {Removal("deliveryStage")}
  ELSE {}

\* open_or_create_scale_set_delivery_controller
RecoveryScripts(f) ==
  CASE ~ Decodes(f) -> {}
    [] Decodes(f) /\ SettlementIsPresent(f) -> recover_scale_set_settlement_locked(f)
    [] OTHER -> IF Exists(f, "delivery") THEN RecoverFenced(f) ELSE RecoverUnfenced(f)

-----------------------------------------------------------------------------
(***************************************************************************)
(* The file system.                                                        *)
(***************************************************************************)
\* What power loss may keep of a file's bytes.
Contents(name) == IF name \in dirty THEN {files[name], Torn} ELSE {files[name]}

\* What a power loss may leave once the directory, not its files, is synced.
Synced == {[n \in Names |-> IF n \in torn THEN Torn ELSE files[n]] : torn \in SUBSET dirty}

DoWrite(s) ==
  /\ s.op = "write" /\ files[s.name] = None
  /\ files' = [files EXCEPT ![s.name] = s.document]
  /\ images' = images \cup {[d EXCEPT ![s.name] = c] : d \in images, c \in {s.document, Torn}}
  /\ dirty' = dirty \cup {s.name} /\ armed' = armed \cup {s.name}
  /\ UNCHANGED disk

DoSyncFile(s) ==
  /\ s.op = "syncFile"
  /\ images' = {[d EXCEPT ![s.name] = IF @ = Torn THEN files[s.name] ELSE @] : d \in images}
  /\ dirty' = dirty \ {s.name}
  /\ UNCHANGED <<files, disk, armed>>

DoDisarm(s) ==
  /\ s.op = "disarm"
  /\ armed' = armed \ {s.name}
  /\ UNCHANGED <<files, disk, images, dirty>>

DoRename(s) ==
  /\ s.op = "rename" /\ (s.no_replace => files[s.to] = None)
  /\ files' = [files EXCEPT ![s.to] = files[s.name], ![s.name] = None]
  /\ images' = images \cup {[d EXCEPT ![s.to] = c, ![s.name] = None] :
                              d \in images, c \in Contents(s.name)}
  /\ dirty' = {IF n = s.name THEN s.to ELSE n : n \in dirty}
  /\ armed' = armed \ {s.name}
  /\ UNCHANGED disk

DoUnlink(s) ==
  /\ s.op = "unlink"
  /\ files' = [files EXCEPT ![s.name] = None]
  /\ images' = images \cup {[d EXCEPT ![s.name] = None] : d \in images}
  /\ dirty' = dirty \ {s.name}
  /\ UNCHANGED <<disk, armed>>

DoSyncDirectory(s) ==
  /\ s.op = "syncDirectory"
  /\ images' = Synced /\ disk' = files
  /\ UNCHANGED <<files, dirty, armed>>

-----------------------------------------------------------------------------
(***************************************************************************)
(* The store.                                                              *)
(***************************************************************************)
\* An operation takes the lock, recovers, and plans from what it then reads; a
\* store its own process has opened has nothing left to recover.
Begin(scripts) ==
  /\ open /\ script = <<>>
  /\ \E s \in scripts : script' = s /\ s # <<>>
  /\ UNCHANGED <<files, disk, images, dirty, armed, open>>

publish_scale_set_reconciled_delivery == Begin(ReconcileScripts(files))
publish_scale_set_delivery_successor == Begin(AdvanceScripts(files))
publish_scale_set_lifecycle_resolution == Begin(ResolveScripts(files))
settle_scale_set_delivery == Begin(SettleScripts(files))
replace_if_revision == Begin(CatalogScripts(files))

\* The directory is synced before anything in it is classified.
Open ==
  /\ ~ open
  /\ script' \in RecoveryScripts(files)
  /\ disk' = files /\ images' = Synced
  /\ open' = TRUE /\ armed' = {}
  /\ UNCHANGED <<files, dirty>>

FileOperation ==
  /\ script # <<>>
  /\ LET s == Head(script) IN
     DoWrite(s) \/ DoSyncFile(s) \/ DoDisarm(s) \/ DoRename(s) \/ DoUnlink(s) \/ DoSyncDirectory(s)
  /\ script' = Tail(script)
  /\ UNCHANGED open

\* The process dies; what it wrote stays visible.
Crash ==
  /\ open
  /\ open' = FALSE /\ script' = <<>> /\ armed' = {}
  /\ UNCHANGED <<files, disk, images, dirty>>

\* It dies, or runs out of space, while it creates a stage.
CrashInWrite ==
  /\ TornWrites /\ script # <<>> /\ Head(script).op = "write"
  /\ LET name == Head(script).name IN
     /\ files' = [files EXCEPT ![name] = Torn]
     /\ images' = images \cup {[d EXCEPT ![name] = Torn] : d \in images}
  /\ open' = FALSE /\ script' = <<>> /\ armed' = {}
  /\ UNCHANGED <<disk, dirty>>

\* A file operation fails: the stages still guarded are unlinked and the
\* directory is not synced, so that any of the unlinks may be lost.
Fail ==
  /\ open /\ script # <<>>
  /\ LET cleaned(d, names) == [n \in Names |-> IF n \in names THEN None ELSE d[n]] IN
     /\ files' = cleaned(files, armed)
     /\ images' = {cleaned(d, names) : d \in images, names \in SUBSET armed}
  /\ dirty' = dirty \ armed
  /\ open' = FALSE /\ script' = <<>> /\ armed' = {}
  /\ UNCHANGED disk

PowerLoss ==
  /\ \E d \in images :
       /\ TornWrites \/ Decodes(d)
       /\ files' = d /\ disk' = d /\ images' = {d}
  /\ open' = FALSE /\ script' = <<>> /\ armed' = {} /\ dirty' = {}

Init ==
  /\ files = [n \in Names |-> IF n = "catalog" THEN empty ELSE None]
  /\ disk = files /\ images = {files} /\ dirty = {}
  /\ script = <<>> /\ armed = {} /\ open = TRUE

Next ==
  \/ publish_scale_set_reconciled_delivery \/ publish_scale_set_delivery_successor
  \/ publish_scale_set_lifecycle_resolution \/ settle_scale_set_delivery
  \/ replace_if_revision
  \/ Open \/ FileOperation \/ Crash \/ CrashInWrite \/ Fail \/ PowerLoss

Spec == Init /\ [][Next]_vars

-----------------------------------------------------------------------------
(***************************************************************************)
(* Properties.                                                             *)
(***************************************************************************)
\* The current documents are whole and valid at every instant, also as a
\* power loss may leave them: only stages are ever partly written.
CurrentIsWhole ==
  \A d \in images \cup {files, disk} :
    /\ d["catalog"] # Torn /\ d["catalog"] # None /\ validate_catalog(d["catalog"])
    /\ d["delivery"] # Torn /\ (d["delivery"] # None => validate_recovery(d["delivery"]))

\* A transaction that returned, and a store that opened, left nothing that a
\* power loss could undo or that a later open would still have to classify.
ReturnIsDurable ==
  open /\ script = <<>> => images = {files} /\ disk = files /\ RecoveryScripts(files) = {<<>>}

\* The stage of a single successor: the document that replaces the fence alone.
SingleSuccessorStaged(d) ==
  Is(d, "deliveryStage", {"AcknowledgementStarted", "Acknowledged",
                          "AcquisitionRecoveryObserved"})

\* A catalog stage beside a fence, with no intent to settle or resolve it.
CatalogOnlyStaged(d) ==
  /\ Exists(d, "catalogStage") /\ Exists(d, "delivery") /\ ~ Exists(d, "deliveryStage")
  /\ d["catalogStage"] # d["catalog"] /\ ~ SettlementIsPresent(d)

\* Whatever crash, error or power loss interrupted, also in an earlier
\* recovery, the store opens again ("That ordering leaves every crash point
\* distinguishable"); but for the two shapes above.  The first is what
\* EveryCrashRecovers is about; the second is left when an I/O error unlinks
\* both stages of a settlement and a power loss keeps the intent's unlink only.
PairedCrashRecovers ==
  ~ open /\ Decodes(files) /\ ~ SingleSuccessorStaged(files) /\ ~ CatalogOnlyStaged(files) =>
    RecoveryScripts(files) # {}

\* The same without the exceptions: a restart publishes a staged successor.
EveryCrashRecovers ==
  ~ open /\ Decodes(files) => RecoveryScripts(files) # {}

\* The abstract catalog and fence of a directory.  A prepared settlement has
\* happened; a catalog published ahead of its fence already has that fence.
Settling(d) == Is(d, "delivery", {"SettlementPrepared"})

AheadOfFence(d) ==
  LET staged == d["deliveryStage"] IN
  /\ staged \notin {None, Torn} /\ matches_catalog(staged, d["catalog"])
  /\ IF d["delivery"] = None
     THEN staged.phase = Reconciled /\ ~ matches_prior_catalog(staged, d["catalog"])
     ELSE /\ is_lifecycle_resolution_of(staged, d["delivery"])
          /\ ~ matches_catalog(d["delivery"], d["catalog"])

CatalogOf(d) == IF Settling(d) THEN d["delivery"].phase.target ELSE d["catalog"]
FenceOf(d) ==
  CASE Settling(d) -> None
    [] ~ Settling(d) /\ AheadOfFence(d) -> d["deliveryStage"]
    [] OTHER -> d["delivery"]

Fence == INSTANCE ScaleSetDeliveryFence WITH catalog <- CatalogOf(disk), fence <- FenceOf(disk)

\* The durable directory implements one catalog and one fence that change
\* together: no crash, error or power loss shows half of a transaction, undoes
\* a returned one, or publishes a catalog without its fence.
ImplementsFence == Fence!Spec

=============================================================================
