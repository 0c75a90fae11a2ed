-------------------- MODULE UnixResidentSandboxStoreProofs --------------------
(***************************************************************************)
(* Proofs about the store of the resident sandbox catalog.                 *)
(***************************************************************************)
EXTENDS UnixResidentSandboxStore, FiniteSetTheorems, TLAPS

-----------------------------------------------------------------------------
(***************************************************************************)
(* Documents.                                                              *)
(***************************************************************************)
\* No history is represented by the first revision.  The fold of no records
\* is its base: only one function on {{}} satisfies its recursive definition.
LEMMA NothingAddsUp ==
  ASSUME NEW c, c.requests = {}, c.entries = {}
  PROVE  Represented(c) = 1
<1> DEFINE body(f) == [s \in SUBSET c.entries |->
                         IF s = {} THEN 0
                         ELSE LET x == CHOOSE y \in s : TRUE
                              IN (x.revision - 1) + f[s \ {x}]]
           P(f) == f = body(f)
           iter == CHOOSE f : P(f)
<1>1. P([s \in SUBSET c.entries |-> 0])
  OBVIOUS
<1>2. P(CHOOSE f : P(f))
  BY <1>1, Zenon
<1>3. iter = body(iter)
  BY <1>2
<1>4. iter[c.entries] = 0
  <2> HIDE DEF iter
  <2> QED BY <1>3
<1>5. Cardinality(c.requests) = 0
  BY FS_EmptySet
<1>6. 1 + Cardinality(c.requests) + iter[c.entries] = 1
  <2> HIDE DEF iter
  <2> QED BY <1>4, <1>5
<1> QED BY <1>6, Zenon DEF Represented, MapThenSumSet, MapThenFoldSet

\* A document with fields of these types is a catalog.
LEMMA CatalogFields ==
  ASSUME NEW v \in Revisions, NEW q \in Vectors(Claims),
         NEW m \in Vectors([lineage : Lineages, maximum : Nat]),
         NEW l \in Vectors([source : Sources, locator : Locators, key : Generated]),
         NEW e \in Vectors(Records)
  PROVE  [revision |-> v, requests |-> q, maxima |-> m, locators |-> l, entries |-> e]
           \in Catalogs
BY DEF Catalogs

\* The fields of a catalog.
LEMMA CatalogParts ==
  ASSUME NEW c \in Catalogs
  PROVE  /\ c.revision \in Nat /\ c.revision \in Revisions
         /\ c.requests \subseteq Claims /\ IsFiniteSet(c.requests)
         /\ c.maxima \subseteq [lineage : Lineages, maximum : Nat] /\ IsFiniteSet(c.maxima)
         /\ c.locators \subseteq [source : Sources, locator : Locators, key : Generated]
         /\ IsFiniteSet(c.locators)
         /\ c.entries \subseteq Records /\ IsFiniteSet(c.entries)
<1>1. c.revision \in Revisions
  BY DEF Catalogs
<1>2. c.revision \in Nat
  BY <1>1, BoundsAssumption DEF Revisions
<1> QED BY <1>1, <1>2 DEF Catalogs, Vectors

\* The catalog a store is created with is a valid document.
LEMMA EmptyIsValid == empty \in Catalogs /\ validate(empty) /\ empty.revision = 1
<1>1. empty \in Catalogs /\ empty.revision = 1
  <2>1. 1 \in Revisions
    BY BoundsAssumption DEF Revisions
  <2>2. \A S : {} \in Vectors(S)
    BY FS_EmptySet DEF Vectors
  <2> QED BY <2>1, <2>2, CatalogFields DEF empty
<1>2. Cardinality({}) = 0
  BY FS_EmptySet
<1>3. empty.requests = {} /\ empty.maxima = {} /\ empty.locators = {} /\ empty.entries = {}
  BY DEF empty
<1>4. Represented(empty) = 1
  BY <1>3, NothingAddsUp
<1> QED BY <1>1, <1>2, <1>3, <1>4, BoundsAssumption DEF validate, UniqueBy

\* A checkpoint keeps a record a record.
LEMMA CheckpointKeepsRecord ==
  ASSUME NEW r \in Records, NEW cp \in Checkpoints, NEW s \in apply_checkpoint(r, cp)
  PROVE  s \in Records
<1> DEFINE After(o, g) == [r EXCEPT !.revision = @ + 1, !.operation = o, !.last = g]
<1>1. ASSUME NEW o \in Operations \cup {None}, NEW g \in Nat, r.revision + 1 <= MaxRevision
      PROVE  After(o, g) \in Records
  <2>1. PICK n \in Revisions : n = r.revision + 1
    BY <1>1 DEF Records, Revisions
  <2>2. [r EXCEPT !.revision = n] \in Records
    BY DEF Records
  <2>3. [r EXCEPT !.revision = n, !.operation = o] \in Records
    BY <2>2 DEF Records
  <2>4. [r EXCEPT !.revision = n, !.operation = o, !.last = g] \in Records
    BY <2>3 DEF Records
  <2> QED BY <2>1, <2>4
<1>2. r.last \in Nat /\ r.last + 1 \in Nat /\ r.operation \in Operations \cup {None}
  BY DEF Records
<1>3. ASSUME NEW o, NEW g, s \in Advanced(r, o, g)
      PROVE  s = After(o, g) /\ r.revision + 1 <= MaxRevision
  BY <1>3, BoundsAssumption DEF Advanced, Records, Revisions
<1> HIDE DEF After
<1>4. CASE s \in Advanced(r, [kind |-> cp.kind, generation |-> r.last + 1,
                              phase |-> "Authorized"], r.last + 1)
  <2>1. [kind |-> cp.kind, generation |-> r.last + 1, phase |-> "Authorized"] \in Operations
    BY <1>2 DEF Checkpoints, Operations
  <2> QED BY <1>1, <1>2, <1>3, <1>4, <2>1
<1>5. CASE s \in Advanced(r, None, r.last)
  BY <1>1, <1>2, <1>3, <1>5
<1>6. CASE /\ r.operation # None
           /\ \E p \in {"Started", "RecoveryRequired"} :
                s \in Advanced(r, [r.operation EXCEPT !.phase = p], r.last)
  <2>1. PICK p \in {"Started", "RecoveryRequired"} :
          s \in Advanced(r, [r.operation EXCEPT !.phase = p], r.last)
    BY <1>6
  <2>2. [r.operation EXCEPT !.phase = p] \in Operations
    BY <1>2, <1>6 DEF Operations
  <2> QED BY <1>1, <1>2, <1>3, <2>1, <2>2
<1> QED
  BY <1>4, <1>5, <1>6 DEF apply_checkpoint, next_operation_generation, InPhase

\* The catalog with one more accepted generation is a catalog.
LEMMA AcceptedIsCatalog ==
  ASSUME NEW c \in Catalogs, NEW request \in Requests, NEW n \in accept(c, request), n # c
  PROVE  n \in Catalogs /\ n.revision = c.revision + 1
<1> DEFINE generation == NextGeneration(c, request.lineage)
           locator == derive_locator(request.lineage, generation, request.source)
           record == [lineage |-> request.lineage, generation |-> generation, revision |-> 1,
                      source |-> request.source, locator |-> locator,
                      config |-> request.config, physical |-> "Unmaterialized", last |-> 0,
                      operation |-> None]
           claim == [request_id |-> request.request_id, lineage |-> request.lineage,
                     source |-> request.source, config |-> request.config,
                     generation |-> generation, locator |-> locator]
           location == [source |-> request.source, locator |-> locator, key |-> key(record)]
           maximum == [lineage |-> request.lineage, maximum |-> generation]
<1>1. generation \in Nat
  <2>1. MaximumOf(c, request.lineage) \subseteq Nat
    BY CatalogParts DEF MaximumOf
  <2> QED BY <2>1 DEF NextGeneration
<1>2. n = Accepted(c, request, generation)
  BY DEF accept
<1> DEFINE requests == c.requests \cup {claim}
           maxima == {m \in c.maxima : m.lineage # request.lineage} \cup {maximum}
           locators == c.locators \cup {location}
           entries == c.entries \cup {record}
<1>3. n = [revision |-> c.revision + 1, requests |-> requests, maxima |-> maxima,
           locators |-> locators, entries |-> entries]
  BY <1>2 DEF Accepted
<1> HIDE DEF generation
<1>4. /\ request.request_id \in RequestIds /\ request.lineage \in Lineages
      /\ request.source \in Sources /\ request.config \in Configs
  BY DEF Requests
<1>5. locator \in Locators
  BY <1>1, <1>4 DEF derive_locator, Locators
<1> HIDE DEF locator
<1>6. record \in Records
  <2>1. 1 \in Revisions
    BY BoundsAssumption DEF Revisions
  <2> QED BY <1>1, <1>4, <1>5, <2>1 DEF Records, Physical
<1>7. claim \in Claims
  BY <1>1, <1>4, <1>5 DEF Claims
<1>8. maximum \in [lineage : Lineages, maximum : Nat]
  BY <1>1, <1>4
<1>9. location \in [source : Sources, locator : Locators, key : Generated]
  BY <1>1, <1>4, <1>5 DEF Generated, key
<1> HIDE DEF record, claim, maximum, location
<1>10. /\ c.revision + 1 \in Revisions
       /\ requests \in Vectors(Claims)
       /\ maxima \in Vectors([lineage : Lineages, maximum : Nat])
       /\ locators \in Vectors([source : Sources, locator : Locators, key : Generated])
       /\ entries \in Vectors(Records)
  <2>1. c.revision < MaxRevision
    BY DEF accept
  <2>2. c.revision + 1 \in Revisions
    BY <2>1, BoundsAssumption DEF Catalogs, Revisions
  <2>3. IsFiniteSet({m \in c.maxima : m.lineage # request.lineage})
    BY FS_Subset DEF Catalogs, Vectors
  <2> QED BY <1>6, <1>7, <1>8, <1>9, <2>2, <2>3, FS_AddElement DEF Catalogs, Vectors
<1> HIDE DEF requests, maxima, locators, entries
<1>11. n \in Catalogs
  BY <1>3, <1>10, CatalogFields
<1> QED
  BY <1>3, <1>11, Zenon

\* What a call makes of a catalog is a catalog of the next revision.
LEMMA SuccessorIsCatalog ==
  ASSUME NEW c \in Catalogs, NEW n \in Successors(c)
  PROVE  n \in Catalogs /\ n.revision = c.revision + 1
<1>1. CASE n \in (UNION {accept(c, request) : request \in Requests}) \ {c}
  <2>1. PICK request \in Requests : n \in accept(c, request)
    BY <1>1
  <2> QED BY <1>1, <2>1, AcceptedIsCatalog
<1>2. CASE n \in UNION {checkpoint(c, key(r), r.revision, cp) :
                          r \in c.entries, cp \in Checkpoints}
  <2>1. PICK r \in c.entries, cp \in Checkpoints : n \in checkpoint(c, key(r), r.revision, cp)
    BY <1>2
  <2>q. PICK q \in c.entries : \E s \in apply_checkpoint(q, cp) :
          n = [c EXCEPT !.entries = (@ \ {q}) \cup {s}, !.revision = @ + 1]
    BY <2>1 DEF checkpoint, find
  <2>2. PICK s \in apply_checkpoint(q, cp) :
          n = [c EXCEPT !.entries = (@ \ {q}) \cup {s}, !.revision = @ + 1]
    BY <2>q
  <2>3. q \in Records /\ c.entries \in SUBSET Records
    BY DEF Catalogs, Vectors
  <2>4. s \in Records
    BY <2>2, <2>3, CheckpointKeepsRecord
  <2>5. c.revision + 1 \in Revisions /\ (c.entries \ {q}) \cup {s} \in Vectors(Records)
    <3>1. IsFiniteSet(c.entries) /\ c.revision + 1 \in Revisions
      <4>1. n.revision <= MaxRevision /\ n.revision = c.revision + 1
        BY <2>1, <2>2 DEF Catalogs, checkpoint
      <4> QED BY <4>1, CatalogParts, BoundsAssumption DEF Revisions
    <3>2. IsFiniteSet(c.entries \ {q})
      BY <3>1, FS_RemoveElement
    <3>3. IsFiniteSet((c.entries \ {q}) \cup {s})
      BY <3>2, FS_AddElement
    <3> QED BY <2>3, <2>4, <3>1, <3>3 DEF Vectors
  <2>6. [c EXCEPT !.entries = (@ \ {q}) \cup {s}] \in Catalogs
    BY <2>5 DEF Catalogs
  <2> QED BY <2>2, <2>5, <2>6 DEF Catalogs
<1> QED BY <1>1, <1>2 DEF Successors

-----------------------------------------------------------------------------
(***************************************************************************)
(* The inductive invariant.                                                *)
(***************************************************************************)
Directories == [{"current", "stage"} -> Inodes \cup {None}]
Contents == Catalogs \cup {Empty, Torn}
Before == {"stage", "write", "syncFile", "validate", "rename"}
Transactions ==
  [step : Before \cup {"syncDirectory", "truncate", "syncRetired"},
   owner : Clients \cup {None}, document : Catalogs \cup {None},
   staged : Inodes \cup {None}, prior : Inodes \cup {None}, armed : BOOLEAN]

\* The document a directory calls current, when files hold f.
DocumentOf(f, d) == IF d["current"] = None THEN None ELSE f[d["current"]]

\* n is what one creation or one legal call makes of c.
OneCall(c, n) ==
  \/ c = None /\ n = empty
  \/ c \in Catalogs /\ n \in Successors(c) /\ validate_successor_of(n, c)

\* What is current in some directory is durable, valid and not staged beside it.
WholeIn(D, f, b) ==
  \A d \in D : d["current"] # None =>
    /\ d["current"] # d["stage"]
    /\ b[d["current"]] = {f[d["current"]]}
    /\ f[d["current"]] \in Catalogs /\ validate(f[d["current"]])

\* A stage holds the successor or the predecessor of what is current beside it.
StagedBeside(d, f, x) == OneCall(DocumentOf(f, d), x) \/ OneCall(x, DocumentOf(f, d))
StagingIn(D, f, b) ==
  \A d \in D : d["stage"] # None =>
    \A x \in b[d["stage"]] \cap Catalogs : StagedBeside(d, f, x)

\* A power loss keeps the durable document or moves it by one call.
ForwardIn(k, D, f) ==
  \A d \in D : \/ DocumentOf(f, d) = DocumentOf(f, k)
               \/ OneCall(DocumentOf(f, k), DocumentOf(f, d))

\* No directory has a document older than x, or another one of its revision.
KeptIn(x, D, f) ==
  /\ x \in Catalogs
  /\ \A d \in D : /\ d["current"] # None
                  /\ f[d["current"]] = x \/ f[d["current"]].revision > x.revision

TypesIn(D, f, b) ==
  /\ D \in SUBSET Directories
  /\ f \in [Inodes -> Contents] /\ b \in [Inodes -> SUBSET Contents]
  /\ \A i \in Inodes : f[i] \in b[i]

FileTypes == TypesIn(images, content, blocks) /\ names \in images /\ disk \in images
Whole == WholeIn(images, content, blocks)
Staging == StagingIn(images, content, blocks)
Forward == ForwardIn(disk, images, content)

Remembered ==
  /\ returned # None => KeptIn(returned, images, content)
  /\ seen \in [Clients -> Catalogs \cup {None}]
  /\ \A c \in Clients : seen[c] # None => KeptIn(seen[c], images, content)

\* Where the call that holds the lock stands.
UnderWay ==
  tx # None =>
    /\ tx \in Transactions
    /\ tx.armed => tx.step \in Before
    /\ tx.step \in Before =>
         /\ \A d \in images : d["current"] = tx.prior
         /\ OneCall(DocumentOf(content, names), tx.document)
         /\ IF tx.step = "stage" THEN tx.staged = None
            ELSE tx.staged # None /\ names["stage"] = tx.staged
    /\ tx.step \in {"syncFile", "validate", "rename"} => content[tx.staged] = tx.document
    /\ tx.step = "rename" => blocks[tx.staged] = {tx.document}
    /\ tx.step = "syncDirectory" =>
         /\ names["current"] = tx.staged /\ names["stage"] = tx.prior
         /\ tx.staged # None /\ content[tx.staged] = tx.document
    /\ tx.step \in {"truncate", "syncRetired"} =>
         /\ images = {names} /\ tx.prior # None /\ names["stage"] = tx.prior
         /\ tx.document # None =>
              tx.staged # None /\ names["current"] = tx.staged /\ content[tx.staged] = tx.document

IInv == FileTypes /\ Whole /\ Staging /\ Forward /\ Remembered /\ UnderWay

-----------------------------------------------------------------------------
(***************************************************************************)
(* What the parts of the invariant depend on.                              *)
(***************************************************************************)
\* The three values that are not documents.
LEMMA NoCatalog == None \notin Catalogs /\ Empty \notin Catalogs /\ Torn \notin Catalogs
BY StoreAssumption

\* What one call makes of a document is a valid document of a later revision.
LEMMA OneCallIsNext ==
  ASSUME NEW c, NEW n, OneCall(c, n)
  PROVE  /\ n \in Catalogs /\ validate(n) /\ n # None
         /\ c # None => c \in Catalogs /\ n.revision = c.revision + 1
<1>1. CASE c = None /\ n = empty
  BY <1>1, EmptyIsValid, NoCatalog
<1>2. CASE c \in Catalogs /\ n \in Successors(c) /\ validate_successor_of(n, c)
  <2>1. n \in Catalogs /\ n.revision = c.revision + 1
    BY <1>2, SuccessorIsCatalog
  <2>2. validate(n)
    BY <1>2 DEF validate_successor_of
  <2> QED BY <1>2, <2>1, <2>2, NoCatalog
<1> QED BY <1>1, <1>2 DEF OneCall

\* Fewer directories satisfy what more of them did.
LEMMA FewerDirectories ==
  ASSUME NEW D, NEW E \in SUBSET D, NEW f, NEW b
  PROVE  /\ TypesIn(D, f, b) => TypesIn(E, f, b)
         /\ WholeIn(D, f, b) => WholeIn(E, f, b)
         /\ StagingIn(D, f, b) => StagingIn(E, f, b)
         /\ \A k : ForwardIn(k, D, f) => ForwardIn(k, E, f)
         /\ \A x : KeptIn(x, D, f) => KeptIn(x, E, f)
BY DEF TypesIn, WholeIn, StagingIn, ForwardIn, KeptIn

\* Between the files f with the durable bytes b and the files g with e only i
\* was written, which is current in no directory of D.
Elsewhere(D, f, b, g, e, i) ==
  /\ TypesIn(D, f, b) /\ TypesIn(D, g, e) /\ i \in Inodes
  /\ \A j \in Inodes \ {i} : g[j] = f[j] /\ e[j] = b[j]
  /\ \A d \in D : d["current"] # i

\* Writing a file that is current nowhere changes no document.
LEMMA OtherFile ==
  ASSUME NEW D, NEW f, NEW b, NEW g, NEW e, NEW i, Elsewhere(D, f, b, g, e, i),
         WholeIn(D, f, b)
  PROVE  /\ \A d \in D : DocumentOf(g, d) = DocumentOf(f, d)
         /\ WholeIn(D, g, e)
         /\ \A k \in D : ForwardIn(k, D, f) => ForwardIn(k, D, g)
         /\ \A x : KeptIn(x, D, f) => KeptIn(x, D, g)
<1>1. \A d \in D : d["current"] \in Inodes \cup {None}
  BY DEF TypesIn, Directories, Elsewhere
<1>2. \A d \in D : d["current"] # None =>
        g[d["current"]] = f[d["current"]] /\ e[d["current"]] = b[d["current"]]
  BY <1>1 DEF Elsewhere
<1>3. \A d \in D : DocumentOf(g, d) = DocumentOf(f, d)
  BY <1>2 DEF DocumentOf
<1>4. WholeIn(D, g, e)
  BY <1>2 DEF WholeIn
<1>5. \A x : KeptIn(x, D, f) => KeptIn(x, D, g)
  BY <1>2 DEF KeptIn
<1>6. \A k \in D : ForwardIn(k, D, f) => ForwardIn(k, D, g)
  BY <1>3 DEF ForwardIn
<1> QED BY <1>3, <1>4, <1>5, <1>6

\* And stages stay related to it when the new bytes are.
LEMMA OtherStage ==
  ASSUME NEW D, NEW f, NEW b, NEW g, NEW e, NEW i, Elsewhere(D, f, b, g, e, i),
         WholeIn(D, f, b), StagingIn(D, f, b),
         \A d \in D : d["stage"] = i =>
           \A x \in e[i] \cap Catalogs : x \in b[i] \/ StagedBeside(d, f, x)
  PROVE  StagingIn(D, g, e)
<1>1. \A d \in D : d["stage"] \in Inodes \cup {None}
  BY DEF TypesIn, Directories, Elsewhere
<1>2. ASSUME NEW d \in D, d["stage"] # None, NEW x \in e[d["stage"]] \cap Catalogs
      PROVE  StagedBeside(d, f, x)
  BY <1>1, <1>2 DEF StagingIn, Elsewhere
<1>3. \A d \in D : \A x : StagedBeside(d, f, x) => StagedBeside(d, g, x)
  BY OtherFile DEF StagedBeside
<1> QED BY <1>2, <1>3 DEF StagingIn

-----------------------------------------------------------------------------
(***************************************************************************)
(* The calls that take the lock.                                           *)
(***************************************************************************)
\* A directory sync only leaves fewer directories to come back with.
LEMMA SyncKeeps ==
  ASSUME IInv, Synchronized, UNCHANGED <<names, content, blocks>>
  PROVE  /\ FileTypes' /\ Whole' /\ Staging' /\ Forward'
         /\ \A x : KeptIn(x, images, content) => KeptIn(x, images', content')
<1>1. images' \in SUBSET images /\ names \in images
  BY DEF IInv, FileTypes, Synchronized
<1>2. /\ TypesIn(images, content, blocks) /\ WholeIn(images, content, blocks)
      /\ StagingIn(images, content, blocks)
  BY DEF IInv, FileTypes, Whole, Staging
<1>3. /\ TypesIn(images', content, blocks) /\ WholeIn(images', content, blocks)
      /\ StagingIn(images', content, blocks)
      /\ \A x : KeptIn(x, images, content) => KeptIn(x, images', content)
  BY <1>1, <1>2, FewerDirectories
<1>4. FileTypes' /\ Whole' /\ Staging'
  BY <1>3 DEF FileTypes, Whole, Staging, Synchronized
<1>5. Forward'
  BY DEF Synchronized, Forward, ForwardIn
<1> QED BY <1>3, <1>4, <1>5

\* What a process reads as current is the document of the directory it sees.
LEMMA CurrentIsDocument == CurrentDocument = DocumentOf(content, names)
BY DEF CurrentDocument, ReadOf, DocumentOf

\* It is absent, or a valid catalog.
LEMMA CurrentIsCatalog ==
  ASSUME IInv
  PROVE  /\ names["current"] = None <=> CurrentDocument = None
         /\ CurrentDocument # None => /\ names["current"] \in Inodes
                                      /\ CurrentDocument = content[names["current"]]
                                      /\ CurrentDocument \in Catalogs
                                      /\ validate(CurrentDocument)
<1>1. names["current"] \in Inodes \cup {None} /\ names \in images
  BY DEF IInv, FileTypes, TypesIn, Directories
<1>2. names["current"] # None =>
        content[names["current"]] \in Catalogs /\ validate(content[names["current"]])
  BY <1>1 DEF IInv, Whole, WholeIn
<1> QED BY <1>1, <1>2, NoCatalog, StoreAssumption DEF CurrentDocument, ReadOf

\* A load remembers what is current in the only directory left.
LEMMA LoadKeeps ==
  ASSUME IInv, NEW c \in Clients, load(c)
  PROVE  IInv'
<1>1. Synchronized /\ UNCHANGED <<names, content, blocks>>
  BY DEF load
<1>2. /\ FileTypes' /\ Whole' /\ Staging' /\ Forward'
      /\ \A x : KeptIn(x, images, content) => KeptIn(x, images', content')
  BY <1>1, SyncKeeps
<1>3. CurrentDocument # None
  BY DEF load, Decodes
<1>4. KeptIn(CurrentDocument, images', content')
  BY <1>1, <1>3, CurrentIsCatalog DEF KeptIn, Synchronized
<1>5. Remembered'
  <2>1. returned' # None => KeptIn(returned', images', content')
    BY <1>2 DEF load, IInv, Remembered
  <2>2. seen' \in [Clients -> Catalogs \cup {None}]
    BY <1>3, CurrentIsCatalog DEF load, IInv, Remembered
  <2>3. ASSUME NEW k \in Clients, seen'[k] # None
        PROVE  KeptIn(seen'[k], images', content')
    BY <1>2, <1>4, <2>3 DEF load, IInv, Remembered
  <2> QED BY <2>1, <2>2, <2>3 DEF Remembered
<1>6. UnderWay'
  BY DEF load, UnderWay
<1> QED BY <1>2, <1>5, <1>6 DEF IInv

\* A call that starts with the lock and a synchronized directory.
LEMMA StartKeeps ==
  ASSUME IInv, Synchronized, UNCHANGED <<names, content, blocks, seen, returned>>, UnderWay'
  PROVE  IInv'
<1>1. /\ FileTypes' /\ Whole' /\ Staging' /\ Forward'
      /\ \A x : KeptIn(x, images, content) => KeptIn(x, images', content')
  BY SyncKeeps
<1>2. Remembered'
  BY <1>1 DEF IInv, Remembered
<1> QED BY <1>1, <1>2 DEF IInv

\* The two calls that stage a new document.
LEMMA StageStarts ==
  ASSUME IInv, Synchronized, UNCHANGED <<names, content, blocks>>, NEW c \in Clients, NEW n,
         OneCall(CurrentDocument, n),
         tx' = Transaction("stage", c, n, names["current"], TRUE)
  PROVE  UnderWay'
<1>1. names["current"] \in Inodes \cup {None}
  BY DEF IInv, FileTypes, TypesIn, Directories
<1>2. n \in Catalogs
  BY OneCallIsNext
<1>3. tx' \in Transactions /\ tx'.step = "stage" /\ tx'.staged = None /\ tx'.document = n
      /\ tx'.prior = names["current"]
  BY <1>1, <1>2 DEF Transaction, Transactions, Before
<1>4. OneCall(DocumentOf(content', names'), tx'.document)
  BY <1>3, CurrentIsDocument
<1> QED BY <1>3, <1>4 DEF UnderWay, Before, Synchronized

\* create stages the empty catalog where there is none.
LEMMA CreateKeeps ==
  ASSUME IInv, NEW c \in Clients, create(c)
  PROVE  IInv'
<1>1. Synchronized /\ UNCHANGED <<names, content, blocks, seen, returned>>
  BY DEF create
<1>2. OneCall(CurrentDocument, empty)
  BY DEF create, OneCall
<1>3. tx' = Transaction("stage", c, empty, names["current"], TRUE)
  BY CurrentIsCatalog DEF create
<1> QED BY <1>1, <1>2, <1>3, StageStarts, StartKeeps

\* replace_if_revision stages a successor of what is current: a catalog of the
\* revision the client loaded is the catalog it loaded.
LEMMA ReplaceKeeps ==
  ASSUME IInv, NEW c \in Clients, replace_if_revision(c)
  PROVE  IInv'
<1>1. Synchronized /\ UNCHANGED <<names, content, blocks, seen, returned>>
  BY DEF replace_if_revision
<1>2. PICK n \in Successors(seen[c]) :
        /\ validate_successor_of(n, CurrentDocument)
        /\ tx' = Transaction("stage", c, n, names["current"], TRUE)
  BY DEF replace_if_revision
<1>3. CurrentDocument # None /\ CurrentDocument.revision = seen[c].revision /\ seen[c] # None
  BY DEF replace_if_revision, Decodes
<1>4. CurrentDocument = seen[c]
  <2>1. KeptIn(seen[c], images, content) /\ names \in images
    BY <1>3 DEF IInv, Remembered, FileTypes
  <2>2. CurrentDocument = content[names["current"]] /\ CurrentDocument.revision \in Nat
    BY <1>3, CurrentIsCatalog, CatalogParts
  <2> QED BY <1>3, <2>1, <2>2 DEF KeptIn
<1>5. OneCall(CurrentDocument, n)
  BY <1>2, <1>3, <1>4, CurrentIsCatalog DEF OneCall
<1> QED BY <1>1, <1>2, <1>5, StageStarts, StartKeeps

\* What recovery publishes is the successor of what is current, because a
\* predecessor does not pass the successor test.
LEMMA RecoveredIsNext ==
  ASSUME IInv, tx = None, Recovery = "Publish"
  PROVE  /\ names["stage"] \in Inodes /\ StagedDocument = content[names["stage"]]
         /\ OneCall(CurrentDocument, StagedDocument)
<1>1. names \in images /\ names["stage"] \in Inodes \cup {None}
  BY DEF IInv, FileTypes, TypesIn, Directories
<1>2. StagedDocument # None
  BY DEF Recovery
<1>3. names["stage"] \in Inodes /\ StagedDocument = content[names["stage"]]
  BY <1>1, <1>2 DEF StagedDocument, ReadOf
<1>4. StagedDocument # Empty
  BY <1>2, <1>3 DEF StagedDocument, ReadOf
<1>5. StagedDocument # Torn
  BY <1>2, StoreAssumption DEF Recovery
<1>6. StagedDocument \in Catalogs /\ StagedDocument \in blocks[names["stage"]]
  BY <1>3, <1>4, <1>5 DEF IInv, FileTypes, TypesIn, Contents
<1>7. CASE CurrentDocument = None
  BY <1>2, <1>5, <1>7, <1>3, StoreAssumption DEF Recovery, OneCall
<1>8. CASE CurrentDocument # None
  <2>1. CurrentDocument \in Catalogs /\ CurrentDocument \notin {Empty, Torn}
    BY <1>8, CurrentIsCatalog, NoCatalog
  <2>2. Disposition(CurrentDocument, StagedDocument) = "Publish"
    BY <1>2, <1>5, <1>8, <2>1 DEF Recovery
  <2>3. validate_successor_of(StagedDocument, CurrentDocument)
    BY <2>2 DEF Disposition
  <2>4. StagedDocument.revision = CurrentDocument.revision + 1
    BY <2>3 DEF validate_successor_of
  <2>5. OneCall(CurrentDocument, StagedDocument) \/ OneCall(StagedDocument, CurrentDocument)
    <3>1. names["stage"] # None
      BY <1>3, StoreAssumption
    <3> QED BY <1>1, <1>6, <3>1, CurrentIsDocument DEF IInv, Staging, StagingIn, StagedBeside
  <2>6. ~ OneCall(StagedDocument, CurrentDocument)
    <3>1. SUFFICES ASSUME OneCall(StagedDocument, CurrentDocument) PROVE FALSE
      OBVIOUS
    <3>2. CurrentDocument.revision = StagedDocument.revision + 1
      BY <1>2, <3>1, OneCallIsNext
    <3>3. CurrentDocument.revision \in Nat
      BY <2>1, CatalogParts
    <3> QED BY <2>4, <3>2, <3>3
  <2> QED BY <1>3, <2>5, <2>6
<1> QED BY <1>3, <1>7, <1>8

\* Recovery publishes a successor or retires the stage.
LEMMA RecoverKeeps ==
  ASSUME IInv, recover_locked
  PROVE  IInv'
<1>1. Synchronized /\ UNCHANGED <<names, content, blocks, seen, returned>> /\ tx = None
  BY DEF recover_locked
<1>2. names["current"] \in Inodes \cup {None} /\ names["stage"] \in Inodes \cup {None}
  BY DEF IInv, FileTypes, TypesIn, Directories
<1>3. CASE Recovery = "Publish"
  <2>1. tx' = Transaction("validate", None, StagedDocument, names["current"], FALSE)
    BY <1>3 DEF recover_locked
  <2>2. /\ names["stage"] \in Inodes /\ StagedDocument = content[names["stage"]]
        /\ OneCall(CurrentDocument, StagedDocument)
    BY <1>1, <1>3, RecoveredIsNext
  <2>3. StagedDocument \in Catalogs
    BY <2>2, OneCallIsNext
  <2>4. /\ tx' \in Transactions /\ tx'.step = "validate" /\ tx'.staged = names["stage"]
        /\ tx'.document = StagedDocument /\ tx'.prior = names["current"] /\ ~ tx'.armed
    BY <1>2, <2>1, <2>2, <2>3 DEF Transaction, Transactions, Before
  <2>5. OneCall(DocumentOf(content', names'), tx'.document)
    BY <1>1, <2>2, <2>4, CurrentIsDocument
  <2>6. UnderWay'
    BY <1>1, <2>2, <2>4, <2>5, StoreAssumption DEF UnderWay, Before, Synchronized
  <2> QED BY <1>1, <2>6, StartKeeps
<1>4. CASE Recovery = "Remove"
  <2>1. tx' = Transaction("truncate", None, None, names["stage"], FALSE)
    BY <1>4 DEF recover_locked
  <2>2. StagedDocument # None
    BY <1>4 DEF Recovery
  <2>3. names["stage"] # None
    BY <2>2 DEF StagedDocument, ReadOf
  <2>4. /\ tx' \in Transactions /\ tx'.step = "truncate" /\ tx'.document = None
        /\ tx'.prior = names["stage"] /\ ~ tx'.armed
    BY <1>2, <2>1 DEF Transaction, Transactions, Before
  <2>5. UnderWay'
    BY <1>1, <2>3, <2>4 DEF UnderWay, Before, Synchronized
  <2> QED BY <1>1, <2>5, StartKeeps
<1> QED BY <1>3, <1>4 DEF recover_locked

-----------------------------------------------------------------------------
(***************************************************************************)
(* The file operations of a call.                                          *)
(***************************************************************************)
\* Until it renames, a call's stage is current nowhere.
LEMMA StageIsNotCurrent ==
  ASSUME IInv, tx # None, tx.step \in Before \ {"stage"}
  PROVE  /\ tx.staged \in Inodes /\ names["stage"] = tx.staged
         /\ \A d \in images : d["current"] # tx.staged /\ d["current"] = tx.prior
<1>1. tx.staged \in Inodes \cup {None} /\ names \in images
  BY DEF IInv, UnderWay, Transactions, FileTypes
<1>2. /\ tx.staged # None /\ names["stage"] = tx.staged
      /\ \A d \in images : d["current"] = tx.prior
  BY DEF IInv, UnderWay, Before
<1>3. names["current"] # None => names["current"] # names["stage"]
  BY <1>1 DEF IInv, Whole, WholeIn
<1> QED BY <1>1, <1>2, <1>3

\* Writing one file, with what a power loss may leave of it.
Wrote(i, v, B) == content' = [content EXCEPT ![i] = v] /\ blocks' = [blocks EXCEPT ![i] = B]

\* Such a write touches nothing else.
LEMMA WriteIsElsewhere ==
  ASSUME IInv, NEW i \in Inodes, NEW v \in Contents, NEW B \in SUBSET Contents, v \in B,
         Wrote(i, v, B),
         \A d \in images : d["current"] # i
  PROVE  /\ Elsewhere(images, content, blocks, content', blocks', i)
         /\ content'[i] = v /\ blocks'[i] = B
<1>1. TypesIn(images, content, blocks)
  BY DEF IInv, FileTypes
<1>2. \A j \in Inodes \ {i} : content'[j] = content[j] /\ blocks'[j] = blocks[j]
  BY <1>1 DEF TypesIn, Wrote
<1>3. content'[i] = v /\ blocks'[i] = B
  BY <1>1 DEF TypesIn, Wrote
<1>4. TypesIn(images, content', blocks')
  BY <1>1, <1>2, <1>3 DEF TypesIn, Wrote
<1> QED BY <1>1, <1>2, <1>3, <1>4 DEF Elsewhere

\* A step that writes one file that is current nowhere keeps the files in
\* order, if the bytes it adds are related to what is current beside them.
LEMMA WriteKeeps ==
  ASSUME IInv, NEW i, Elsewhere(images, content, blocks, content', blocks', i),
         UNCHANGED <<names, disk, images>>,
         \A d \in images : d["stage"] = i =>
           \A x \in blocks'[i] \cap Catalogs : x \in blocks[i] \/ StagedBeside(d, content, x)
  PROVE  /\ FileTypes' /\ Whole' /\ Staging' /\ Forward'
         /\ \A x : KeptIn(x, images, content) => KeptIn(x, images', content')
         /\ \A d \in images : DocumentOf(content', d) = DocumentOf(content, d)
<1>1. names \in images /\ disk \in images /\ TypesIn(images, content', blocks')
  BY DEF IInv, FileTypes, Elsewhere
<1>2. WholeIn(images, content, blocks) /\ StagingIn(images, content, blocks)
      /\ ForwardIn(disk, images, content)
  BY DEF IInv, Whole, Staging, Forward
<1>3. /\ \A d \in images : DocumentOf(content', d) = DocumentOf(content, d)
      /\ WholeIn(images, content', blocks')
      /\ \A k \in images : ForwardIn(k, images, content) => ForwardIn(k, images, content')
      /\ \A x : KeptIn(x, images, content) => KeptIn(x, images, content')
  BY <1>2, OtherFile
<1>4. StagingIn(images, content', blocks')
  BY <1>2, OtherStage
<1> QED
  BY <1>1, <1>2, <1>3, <1>4 DEF FileTypes, Whole, Staging, Forward

\* A reused slot changes nothing; a new file is in no other directory.
LEMMA OpenStageKeeps ==
  ASSUME IInv, OpenStage
  PROVE  IInv'
<1>1. tx # None /\ tx.step = "stage" /\ UNCHANGED <<seen, returned>>
  BY DEF OpenStage, At
<1>2. /\ tx \in Transactions /\ \A d \in images : d["current"] = tx.prior
      /\ OneCall(DocumentOf(content, names), tx.document) /\ tx.staged = None
  BY <1>1 DEF IInv, UnderWay, Before
<1>3. names \in images /\ names \in Directories /\ TypesIn(images, content, blocks)
  BY DEF IInv, FileTypes, TypesIn
<1>4. CASE names["stage"] # None
  <2>1. tx' = [tx EXCEPT !.step = "write", !.staged = names["stage"]] /\ UNCHANGED files
    BY <1>4 DEF OpenStage
  <2>2. /\ tx' \in Transactions /\ tx'.step = "write" /\ tx'.staged = names["stage"]
        /\ tx'.prior = tx.prior /\ tx'.document = tx.document
    BY <1>2, <1>3, <2>1 DEF Transactions, Before, Directories
  <2>3. UnderWay'
    BY <1>2, <1>4, <2>1, <2>2 DEF UnderWay, Before, files
  <2> QED
    BY <1>1, <2>1, <2>3 DEF IInv, FileTypes, Whole, Staging, Forward, Remembered, files
<1>5. CASE names["stage"] = None
  <2> DEFINE used == UNION {{d["current"], d["stage"]} : d \in images \cup {names}}
  <2>1. PICK i \in Inodes \ used :
          /\ Renamed([names EXCEPT !["stage"] = i])
          /\ content' = [content EXCEPT ![i] = Empty]
          /\ blocks' = [blocks EXCEPT ![i] = {Empty}]
          /\ tx' = [tx EXCEPT !.step = "write", !.staged = i]
    BY <1>5 DEF OpenStage
  <2>2. i # None /\ \A d \in images : d["current"] # i /\ d["stage"] # i
    BY StoreAssumption
  <2> HIDE DEF used
  <2> DEFINE next == [names EXCEPT !["stage"] = i]
  <2>3. next \in Directories /\ next["current"] = names["current"] /\ next["stage"] = i
    BY <1>3, <2>1 DEF Directories
  <2>4. names' = next /\ images' = images \cup {next} /\ disk' = disk
    BY <2>1 DEF Renamed
  <2> HIDE DEF next
  <2>5. /\ content'[i] = Empty /\ blocks'[i] = {Empty}
        /\ \A j \in Inodes \ {i} : content'[j] = content[j] /\ blocks'[j] = blocks[j]
    BY <1>3, <2>1 DEF TypesIn
  <2>6. TypesIn(images, content', blocks')
    BY <1>3, <2>1, <2>5 DEF TypesIn, Contents
  <2>7. WholeIn(images, content, blocks) /\ StagingIn(images, content, blocks)
        /\ ForwardIn(disk, images, content) /\ disk \in images
    BY DEF IInv, Whole, Staging, Forward, FileTypes
  <2>e. Elsewhere(images, content, blocks, content', blocks', i)
    BY <1>3, <2>1, <2>2, <2>5, <2>6 DEF Elsewhere
  <2>8. /\ \A d \in images : DocumentOf(content', d) = DocumentOf(content, d)
        /\ WholeIn(images, content', blocks')
        /\ \A k \in images : ForwardIn(k, images, content) => ForwardIn(k, images, content')
        /\ \A x : KeptIn(x, images, content) => KeptIn(x, images, content')
    BY <2>e, <2>7, OtherFile
  <2>9. StagingIn(images, content', blocks')
    BY <2>e, <2>2, <2>7, OtherStage
  <2>10. DocumentOf(content', next) = DocumentOf(content', names)
    BY <2>3 DEF DocumentOf
  <2>11. FileTypes'
    BY <2>3, <2>4, <2>6, <2>7 DEF FileTypes, TypesIn
  <2>12. Whole'
    BY <1>3, <2>2, <2>3, <2>4, <2>8 DEF Whole, WholeIn
  <2>13. Staging'
    BY <2>3, <2>4, <2>5, <2>9, NoCatalog DEF Staging, StagingIn
  <2>14. Forward'
    BY <1>3, <2>4, <2>7, <2>8, <2>10 DEF Forward, ForwardIn
  <2>15. \A x : KeptIn(x, images, content) => KeptIn(x, images', content')
    BY <1>3, <2>3, <2>4, <2>8 DEF KeptIn
  <2>16. Remembered'
    BY <1>1, <2>15 DEF IInv, Remembered
  <2>17. /\ tx' \in Transactions /\ tx'.step = "write" /\ tx'.staged = i
         /\ tx'.prior = tx.prior /\ tx'.document = tx.document
    BY <1>2, <2>1 DEF Transactions, Before
  <2>18. UnderWay'
    BY <1>2, <1>3, <2>2, <2>3, <2>4, <2>8, <2>10, <2>17 DEF UnderWay, Before
  <2> QED BY <2>11, <2>12, <2>13, <2>14, <2>16, <2>18 DEF IInv
<1> QED BY <1>4, <1>5

\* The stage then holds the next document, or part of it.
LEMMA WriteStageKeeps ==
  ASSUME IInv, WriteStage
  PROVE  IInv'
<1>1. tx # None /\ tx.step = "write" /\ UNCHANGED <<names, disk, images, seen, returned>>
  BY DEF WriteStage, At
<1>2. tx \in Transactions /\ OneCall(DocumentOf(content, names), tx.document)
      /\ names \in images
  BY <1>1 DEF IInv, UnderWay, Before, FileTypes
<1>3. /\ tx.staged \in Inodes /\ names["stage"] = tx.staged
      /\ \A d \in images : d["current"] # tx.staged /\ d["current"] = tx.prior
  BY <1>1, StageIsNotCurrent DEF Before
<1>4. tx.document \in Catalogs
  BY <1>2, OneCallIsNext
<1> DEFINE B == blocks[tx.staged] \cup {tx.document, Torn}
<1>5. B \in SUBSET Contents /\ tx.document \in B /\ tx.document \in Contents
  BY <1>3, <1>4 DEF IInv, FileTypes, TypesIn, Contents
<1>6. /\ Elsewhere(images, content, blocks, content', blocks', tx.staged)
      /\ content'[tx.staged] = tx.document /\ blocks'[tx.staged] = B
  <2>1. Wrote(tx.staged, tx.document, B)
    BY DEF WriteStage, Wrote
  <2> HIDE DEF B
  <2> QED BY <1>3, <1>5, <2>1, WriteIsElsewhere
<1>7. ASSUME NEW d \in images PROVE StagedBeside(d, content, tx.document)
  <2>1. DocumentOf(content, d) = DocumentOf(content, names)
    BY <1>2, <1>3 DEF DocumentOf
  <2> QED BY <1>2, <2>1 DEF StagedBeside
<1>8. /\ FileTypes' /\ Whole' /\ Staging' /\ Forward'
      /\ \A x : KeptIn(x, images, content) => KeptIn(x, images', content')
      /\ \A d \in images : DocumentOf(content', d) = DocumentOf(content, d)
  BY <1>1, <1>6, <1>7, WriteKeeps, NoCatalog
<1>9. Remembered'
  BY <1>1, <1>8 DEF IInv, Remembered
<1>10. /\ tx' \in Transactions /\ tx'.step = "syncFile" /\ tx'.staged = tx.staged
       /\ tx'.prior = tx.prior /\ tx'.document = tx.document
  BY <1>2 DEF WriteStage, Transactions, Before
<1>11. UnderWay'
  <2>1. tx.staged # None
    BY <1>3, StoreAssumption
  <2> QED BY <1>1, <1>2, <1>3, <1>6, <1>8, <1>10, <2>1 DEF UnderWay, Before
<1> QED BY <1>8, <1>9, <1>11 DEF IInv

\* Both syncs of a stage make what was written all a power loss leaves.
StageSynced(s) ==
  /\ blocks' = [blocks EXCEPT ![tx.staged] = {content[tx.staged]}]
  /\ tx' = [tx EXCEPT !.step = s]
  /\ UNCHANGED <<names, disk, images, content, seen, returned>>

\* A synchronized stage is all a power loss leaves of it.
LEMMA StageSyncKeeps ==
  ASSUME IInv, tx # None, tx.step \in {"syncFile", "validate"},
         NEW s \in {"validate", "rename"}, StageSynced(s)
  PROVE  IInv'
<1>2. tx \in Transactions /\ OneCall(DocumentOf(content, names), tx.document)
      /\ names \in images
  BY DEF IInv, UnderWay, Before, FileTypes
<1>3. /\ tx.staged \in Inodes /\ names["stage"] = tx.staged
      /\ \A d \in images : d["current"] # tx.staged /\ d["current"] = tx.prior
  BY StageIsNotCurrent DEF Before
<1>4. content[tx.staged] = tx.document
  BY DEF IInv, UnderWay
<1>5. TypesIn(images, content, blocks)
  BY DEF IInv, FileTypes
<1>6. content[tx.staged] \in blocks[tx.staged] /\ content[tx.staged] \in Contents
  BY <1>3, <1>5 DEF TypesIn
<1>7. blocks'[tx.staged] = {tx.document} /\ blocks' \in [Inodes -> SUBSET Contents]
      /\ \A j \in Inodes \ {tx.staged} : blocks'[j] = blocks[j]
  BY <1>3, <1>4, <1>5, <1>6 DEF TypesIn, StageSynced
<1>8. Elsewhere(images, content, blocks, content', blocks', tx.staged)
  BY <1>3, <1>4, <1>5, <1>6, <1>7 DEF TypesIn, Elsewhere, StageSynced
<1>u. UNCHANGED <<names, disk, images, content, seen, returned>>
  BY DEF StageSynced
<1>9. FileTypes' /\ Whole' /\ Staging' /\ Forward'
  BY <1>u, <1>4, <1>6, <1>7, <1>8, WriteKeeps
<1>10. Remembered'
  BY <1>u DEF IInv, Remembered
<1>11. /\ tx' \in Transactions /\ tx'.step = s /\ tx'.staged = tx.staged
       /\ tx'.prior = tx.prior /\ tx'.document = tx.document
  BY <1>2 DEF Transactions, Before, StageSynced
<1>12. UnderWay'
  <2>1. tx.staged # None
    BY <1>3, StoreAssumption
  <2> QED BY <1>u, <1>2, <1>3, <1>4, <1>7, <1>11, <2>1 DEF UnderWay, Before
<1> QED BY <1>9, <1>10, <1>12 DEF IInv

\* The sync of stage.
LEMMA SyncStageKeeps ==
  ASSUME IInv, SyncStage
  PROVE  IInv'
BY StageSyncKeeps DEF SyncStage, At, StageSynced

\* The sync of validate_existing_stage.
LEMMA ValidateStageKeeps ==
  ASSUME IInv, ValidateStage
  PROVE  IInv'
BY StageSyncKeeps DEF ValidateStage, At, StageSynced

\* The exchange adds a directory whose current document is the successor of
\* what all others call current.
LEMMA RenameKeeps ==
  ASSUME IInv, RenameStage
  PROVE  IInv'
<1>1. tx # None /\ tx.step = "rename" /\ UNCHANGED <<disk, content, blocks, seen, returned>>
  BY DEF RenameStage, At, Renamed
<1>2. /\ tx \in Transactions /\ OneCall(DocumentOf(content, names), tx.document)
      /\ content[tx.staged] = tx.document /\ blocks[tx.staged] = {tx.document}
  BY <1>1 DEF IInv, UnderWay, Before
<1>3. /\ tx.staged \in Inodes /\ names["stage"] = tx.staged
      /\ \A d \in images : d["current"] # tx.staged /\ d["current"] = tx.prior
  BY <1>1, StageIsNotCurrent DEF Before
<1>4. names \in images /\ disk \in images /\ TypesIn(images, content, blocks)
  BY DEF IInv, FileTypes
<1>5. tx.document \in Catalogs /\ validate(tx.document)
  BY <1>2, OneCallIsNext
<1>6. tx.staged # None /\ tx.prior \in Inodes \cup {None}
  BY <1>2, <1>3, StoreAssumption DEF Transactions
<1> DEFINE next == [names EXCEPT !["current"] = tx.staged, !["stage"] = tx.prior]
<1>7. next \in Directories /\ next["current"] = tx.staged /\ next["stage"] = tx.prior
  BY <1>3, <1>4, <1>6 DEF TypesIn, Directories
<1>8. names' = next /\ images' = images \cup {next}
  BY DEF RenameStage, Renamed
<1> HIDE DEF next
<1>9. DocumentOf(content, next) = tx.document
  BY <1>2, <1>6, <1>7 DEF DocumentOf
<1>10. \A d \in images : DocumentOf(content, d) = DocumentOf(content, names)
  BY <1>3, <1>4 DEF DocumentOf
<1>11. FileTypes'
  BY <1>1, <1>4, <1>7, <1>8 DEF FileTypes, TypesIn
<1>12. Whole'
  BY <1>1, <1>2, <1>3, <1>4, <1>5, <1>7, <1>8 DEF IInv, Whole, WholeIn
<1>13. Staging'
  <2>1. ASSUME tx.prior # None, NEW x \in blocks[tx.prior]
        PROVE  StagedBeside(next, content, x)
    <3>1. x = content[tx.prior] /\ content[tx.prior] = DocumentOf(content, names)
      BY <1>3, <1>4, <2>1 DEF IInv, Whole, WholeIn, DocumentOf
    <3> QED BY <1>2, <1>9, <3>1 DEF StagedBeside
  <2> QED BY <1>1, <1>7, <1>8, <2>1 DEF IInv, Staging, StagingIn
<1>14. Forward'
  BY <1>1, <1>2, <1>4, <1>8, <1>9, <1>10 DEF IInv, Forward, ForwardIn
<1>15. \A x : KeptIn(x, images, content) => KeptIn(x, images', content')
  <2>1. SUFFICES ASSUME NEW x, KeptIn(x, images, content) PROVE KeptIn(x, images', content')
    OBVIOUS
  <2>2. names["current"] # None /\ x \in Catalogs
        /\ (content[names["current"]] = x \/ content[names["current"]].revision > x.revision)
    BY <1>4, <2>1 DEF KeptIn
  <2>3. DocumentOf(content, names) = content[names["current"]]
    BY <2>2 DEF DocumentOf
  <2>4. content[names["current"]] \in Catalogs
    BY <1>4, <2>2 DEF IInv, Whole, WholeIn
  <2>5. tx.document.revision = content[names["current"]].revision + 1
    BY <1>2, <2>3, <2>4, OneCallIsNext, NoCatalog
  <2>6. x.revision \in Nat /\ content[names["current"]].revision \in Nat
    BY <2>2, <2>4, CatalogParts
  <2>7. tx.document.revision > x.revision
    BY <2>2, <2>5, <2>6
  <2> QED BY <1>1, <1>2, <1>6, <1>7, <1>8, <2>1, <2>7 DEF KeptIn
<1>16. Remembered'
  BY <1>1, <1>15 DEF IInv, Remembered
<1>17. /\ tx' \in Transactions /\ tx'.step = "syncDirectory" /\ tx'.staged = tx.staged
       /\ tx'.prior = tx.prior /\ tx'.document = tx.document /\ ~ tx'.armed
  BY <1>2 DEF RenameStage, Transactions, Before
<1>18. UnderWay'
  BY <1>1, <1>2, <1>6, <1>7, <1>8, <1>17 DEF UnderWay, Before
<1> QED BY <1>11, <1>12, <1>13, <1>14, <1>16, <1>18 DEF IInv

\* A call that finishes reports what is current in every directory.
LEMMA FinishKeeps ==
  ASSUME IInv, tx # None, Finish, FileTypes', Whole', Staging', Forward',
         \A x : KeptIn(x, images, content) => KeptIn(x, images', content'),
         tx.document # None => KeptIn(tx.document, images', content')
  PROVE  tx.document # None => IInv'
<1>1. SUFFICES ASSUME tx.document # None PROVE IInv'
  OBVIOUS
<1>2. Remembered'
  BY <1>1 DEF IInv, Remembered, Finish
<1>3. UnderWay'
  BY DEF Finish, UnderWay
<1> QED BY <1>2, <1>3 DEF IInv

\* Once the directory is synchronized no other document can come back.
LEMMA SyncPublicationKeeps ==
  ASSUME IInv, SyncPublication
  PROVE  IInv'
<1>1. tx # None /\ tx.step = "syncDirectory" /\ Synchronized /\ UNCHANGED <<names, content, blocks>>
  BY DEF SyncPublication, At
<1>2. /\ FileTypes' /\ Whole' /\ Staging' /\ Forward'
      /\ \A x : KeptIn(x, images, content) => KeptIn(x, images', content')
  BY <1>1, SyncKeeps
<1>3. /\ tx \in Transactions /\ names["current"] = tx.staged /\ names["stage"] = tx.prior
      /\ tx.staged # None /\ content[tx.staged] = tx.document
      /\ names \in images /\ ~ tx.armed
  BY <1>1 DEF IInv, UnderWay, FileTypes, Before
<1>4. tx.document \in Catalogs
  BY <1>3 DEF IInv, Whole, WholeIn
<1>5. KeptIn(tx.document, images', content')
  BY <1>1, <1>3, <1>4 DEF KeptIn, Synchronized
<1>6. CASE tx.prior = None
  <2>1. Finish /\ tx.document # None
    BY <1>4, <1>6, NoCatalog DEF SyncPublication
  <2> QED BY <1>1, <1>2, <1>5, <2>1, FinishKeeps
<1>7. CASE tx.prior # None
  <2>1. tx' = [tx EXCEPT !.step = "truncate"] /\ UNCHANGED <<seen, returned>>
    BY <1>7 DEF SyncPublication
  <2>2. /\ tx' \in Transactions /\ tx'.step = "truncate" /\ tx'.staged = tx.staged
        /\ tx'.prior = tx.prior /\ tx'.document = tx.document /\ tx'.armed = tx.armed
    BY <1>3, <2>1 DEF Transactions, Before
  <2>3. UnderWay'
    BY <1>1, <1>3, <1>7, <2>2 DEF UnderWay, Before, Synchronized
  <2>4. Remembered'
    BY <1>2, <2>1 DEF IInv, Remembered
  <2> QED BY <1>2, <2>3, <2>4 DEF IInv
<1> QED BY <1>6, <1>7

\* What is truncated is the stage of the only directory there is.
LEMMA RetiredIsNotCurrent ==
  ASSUME IInv, tx # None, tx.step \in {"truncate", "syncRetired"}
  PROVE  /\ tx \in Transactions /\ ~ tx.armed
         /\ tx.prior \in Inodes /\ images = {names} /\ names["stage"] = tx.prior
         /\ \A d \in images : d["current"] # tx.prior
<1>1. /\ tx \in Transactions /\ tx.prior # None /\ images = {names}
      /\ names["stage"] = tx.prior /\ ~ tx.armed
  BY DEF IInv, UnderWay, Before
<1>2. tx.prior \in Inodes
  BY <1>1 DEF Transactions
<1>3. names["current"] # tx.prior
  BY <1>1 DEF IInv, Whole, WholeIn
<1> QED BY <1>1, <1>2, <1>3

\* Truncating what was displaced disturbs no document.
LEMMA TruncateKeeps ==
  ASSUME IInv, TruncateRetired
  PROVE  IInv'
<1>1. tx # None /\ tx.step = "truncate" /\ UNCHANGED <<names, disk, images, seen, returned>>
  BY DEF TruncateRetired, At
<1>2. /\ tx \in Transactions /\ ~ tx.armed
      /\ tx.prior \in Inodes /\ images = {names} /\ names["stage"] = tx.prior
      /\ \A d \in images : d["current"] # tx.prior
  BY <1>1, RetiredIsNotCurrent
<1> DEFINE B == blocks[tx.prior] \cup {Empty}
<1>3. Empty \in Contents /\ B \in SUBSET Contents /\ Empty \in B
  BY <1>2 DEF IInv, FileTypes, TypesIn, Contents
<1>4. Wrote(tx.prior, Empty, B)
  BY DEF TruncateRetired, Wrote
<1>5. \A x \in B \cap Catalogs : x \in blocks[tx.prior]
  BY NoCatalog
<1> HIDE DEF B
<1>6. /\ Elsewhere(images, content, blocks, content', blocks', tx.prior)
      /\ blocks'[tx.prior] = B
  <2>1. tx.prior \in Inodes /\ \A d \in images : d["current"] # tx.prior
    BY <1>2
  <2> QED BY <1>3, <1>4, <2>1, WriteIsElsewhere
<1>7. /\ FileTypes' /\ Whole' /\ Staging' /\ Forward'
      /\ \A x : KeptIn(x, images, content) => KeptIn(x, images', content')
  BY <1>1, <1>5, <1>6, WriteKeeps
<1>8. Remembered'
  BY <1>1, <1>7 DEF IInv, Remembered
<1>9. /\ tx' \in Transactions /\ tx'.step = "syncRetired" /\ tx'.staged = tx.staged
      /\ tx'.prior = tx.prior /\ tx'.document = tx.document /\ tx'.armed = tx.armed
  BY <1>2 DEF TruncateRetired, Transactions, Before
<1>10. tx.document # None =>
         /\ tx.staged # None /\ names["current"] = tx.staged
         /\ content'[tx.staged] = tx.document
  <2>1. SUFFICES ASSUME tx.document # None
                 PROVE  /\ tx.staged # None /\ names["current"] = tx.staged
                        /\ content'[tx.staged] = tx.document
    OBVIOUS
  <2>2. tx.staged # None /\ names["current"] = tx.staged /\ content[tx.staged] = tx.document
    BY <1>1, <2>1 DEF IInv, UnderWay
  <2>3. tx.staged \in Inodes \ {tx.prior}
    BY <1>2, <2>2 DEF Transactions
  <2> QED BY <1>6, <2>2, <2>3 DEF Elsewhere
<1>11. UnderWay'
  BY <1>1, <1>2, <1>9, <1>10, StoreAssumption DEF UnderWay, Before
<1> QED BY <1>7, <1>8, <1>11 DEF IInv

\* The call reports after the truncation is synchronized.
LEMMA SyncRetiredKeeps ==
  ASSUME IInv, SyncRetired
  PROVE  IInv'
<1>1. tx # None /\ tx.step = "syncRetired" /\ UNCHANGED <<names, content>> /\ Synchronized
  BY DEF SyncRetired, At
<1>2. /\ tx \in Transactions
      /\ tx.prior \in Inodes /\ images = {names} /\ names["stage"] = tx.prior
      /\ \A d \in images : d["current"] # tx.prior
  BY <1>1, RetiredIsNotCurrent
<1>3. UNCHANGED <<names, disk, images>>
  BY <1>1, <1>2 DEF Synchronized, IInv, FileTypes
<1>4. TypesIn(images, content, blocks)
  BY DEF IInv, FileTypes
<1>5. /\ blocks'[tx.prior] = {content[tx.prior]} /\ blocks' \in [Inodes -> SUBSET Contents]
      /\ \A j \in Inodes \ {tx.prior} : blocks'[j] = blocks[j]
      /\ content[tx.prior] \in blocks[tx.prior]
  BY <1>2, <1>4 DEF SyncRetired, TypesIn
<1>6. Elsewhere(images, content, blocks, content', blocks', tx.prior)
  BY <1>1, <1>2, <1>4, <1>5 DEF TypesIn, Elsewhere
<1>7. /\ FileTypes' /\ Whole' /\ Staging' /\ Forward'
      /\ \A x : KeptIn(x, images, content) => KeptIn(x, images', content')
  BY <1>3, <1>5, <1>6, WriteKeeps
<1>8. CASE tx.document = None
  <2>1. tx' = None /\ UNCHANGED <<seen, returned>>
    BY <1>8 DEF SyncRetired
  <2>2. Remembered' /\ UnderWay'
    BY <1>7, <2>1 DEF IInv, Remembered, UnderWay
  <2> QED BY <1>7, <2>2 DEF IInv
<1>9. CASE tx.document # None
  <2>1. Finish
    BY <1>9 DEF SyncRetired
  <2>2. tx.staged # None /\ names["current"] = tx.staged /\ content[tx.staged] = tx.document
    BY <1>1, <1>9 DEF IInv, UnderWay
  <2>3. tx.document \in Catalogs
    BY <1>2, <2>2 DEF IInv, Whole, WholeIn
  <2>4. KeptIn(tx.document, images', content')
    BY <1>1, <1>2, <1>3, <2>2, <2>3 DEF KeptIn
  <2> QED BY <1>1, <1>7, <1>9, <2>1, <2>4, FinishKeeps
<1> QED BY <1>8, <1>9

-----------------------------------------------------------------------------
(***************************************************************************)
(* Faults.                                                                 *)
(***************************************************************************)
\* A call that stops leaves the files as they are, or one byte string more in
\* a stage that no directory calls current.
LEMMA StopKeeps ==
  ASSUME IInv, tx' = None, returned' = returned,
         FileTypes', Whole', Staging', Forward',
         \A x : KeptIn(x, images, content) => KeptIn(x, images', content'),
         seen' \in [Clients -> Catalogs \cup {None}],
         \A c \in Clients : seen'[c] # None => seen'[c] = seen[c]
  PROVE  IInv'
<1>1. Remembered'
  BY DEF IInv, Remembered
<1>2. UnderWay'
  BY DEF UnderWay
<1> QED BY <1>1, <1>2 DEF IInv

\* The stage of a call that stops may be emptied, or left torn.
LEMMA SpoiledStage ==
  ASSUME IInv, tx # None, tx.step \in Before \ {"stage"},
         UNCHANGED <<names, disk, images>>,
         NEW v \in {Empty, Torn}, NEW B, v \in B,
         B = {v} \/ B = blocks[tx.staged] \cup {v},
         Wrote(tx.staged, v, B)
  PROVE  /\ FileTypes' /\ Whole' /\ Staging' /\ Forward'
         /\ \A x : KeptIn(x, images, content) => KeptIn(x, images', content')
<1>1. tx.staged \in Inodes /\ \A d \in images : d["current"] # tx.staged
  BY StageIsNotCurrent
<1>2. v \in Contents /\ B \in SUBSET Contents
  BY <1>1 DEF IInv, FileTypes, TypesIn, Contents
<1>3. /\ Elsewhere(images, content, blocks, content', blocks', tx.staged)
      /\ blocks'[tx.staged] = B
  BY <1>1, <1>2, WriteIsElsewhere
<1>4. \A x \in B \cap Catalogs : x \in blocks[tx.staged]
  BY NoCatalog
<1> QED BY <1>3, <1>4, WriteKeeps

\* Nothing on disk moves: every part about the files still holds.
LEMMA SameFiles ==
  ASSUME IInv, UNCHANGED files
  PROVE  /\ FileTypes' /\ Whole' /\ Staging' /\ Forward'
         /\ \A x : KeptIn(x, images, content) => KeptIn(x, images', content')
BY DEF files, IInv, FileTypes, Whole, Staging, Forward

\* A process that dies may leave its stage torn.
LEMMA CrashKeeps ==
  ASSUME IInv, Crash
  PROVE  IInv'
<1>1. tx # None /\ tx' = None /\ Forget(tx.owner) /\ UNCHANGED <<names, disk, images, returned>>
  BY DEF Crash
<1>2. tx \in Transactions /\ seen \in [Clients -> Catalogs \cup {None}]
  BY <1>1 DEF IInv, UnderWay, Remembered
<1>3. /\ seen' \in [Clients -> Catalogs \cup {None}]
      /\ \A c \in Clients : seen'[c] # None => seen'[c] = seen[c]
  BY <1>1, <1>2 DEF Forget
<1>4. CASE UNCHANGED <<content, blocks>>
  <2>1. UNCHANGED files
    BY <1>1, <1>4 DEF files
  <2> QED BY <1>1, <1>3, <2>1, SameFiles, StopKeeps
<1>5. CASE /\ At("write")
           /\ content' = [content EXCEPT ![tx.staged] = Torn]
           /\ blocks' = [blocks EXCEPT ![tx.staged] = @ \cup {Torn}]
  <2> DEFINE B == blocks[tx.staged] \cup {Torn}
  <2>1. Wrote(tx.staged, Torn, B) /\ tx.step \in Before \ {"stage"}
    BY <1>5 DEF Wrote, At, Before
  <2>2. Torn \in B /\ B = blocks[tx.staged] \cup {Torn}
    OBVIOUS
  <2> HIDE DEF B
  <2>3. /\ FileTypes' /\ Whole' /\ Staging' /\ Forward'
        /\ \A x : KeptIn(x, images, content) => KeptIn(x, images', content')
    BY <1>1, <2>1, <2>2, SpoiledStage
  <2> QED BY <1>1, <1>3, <2>3, StopKeeps
<1> QED BY <1>4, <1>5 DEF Crash

\* A failed call may empty its stage.
LEMMA FailKeeps ==
  ASSUME IInv, Fail
  PROVE  IInv'
<1>1. tx # None /\ tx' = None /\ UNCHANGED <<names, disk, images, seen, returned>>
  BY DEF Fail
<1>2. tx \in Transactions /\ seen \in [Clients -> Catalogs \cup {None}]
  BY <1>1 DEF IInv, UnderWay, Remembered
<1>3. /\ seen' \in [Clients -> Catalogs \cup {None}]
      /\ \A c \in Clients : seen'[c] # None => seen'[c] = seen[c]
  BY <1>1, <1>2
<1>4. CASE UNCHANGED <<content, blocks>>
  <2>1. UNCHANGED files
    BY <1>1, <1>4 DEF files
  <2> QED BY <1>1, <1>3, <2>1, SameFiles, StopKeeps
<1>5. CASE /\ tx.armed /\ tx.staged # None
           /\ content' = [content EXCEPT ![tx.staged] = Empty]
           /\ blocks' \in {[blocks EXCEPT ![tx.staged] = b] :
                             b \in {{Empty}, blocks[tx.staged] \cup {Empty}}}
  <2>1. PICK B \in {{Empty}, blocks[tx.staged] \cup {Empty}} :
          blocks' = [blocks EXCEPT ![tx.staged] = B]
    BY <1>5
  <2>2. Wrote(tx.staged, Empty, B)
    BY <1>5, <2>1 DEF Wrote
  <2>3. tx.step \in Before \ {"stage"}
    BY <1>1, <1>5 DEF IInv, UnderWay, Before
  <2>4. Empty \in B
    BY <2>1
  <2>5. /\ FileTypes' /\ Whole' /\ Staging' /\ Forward'
        /\ \A x : KeptIn(x, images, content) => KeptIn(x, images', content')
    BY <1>1, <2>1, <2>2, <2>3, <2>4, SpoiledStage
  <2> QED BY <1>1, <1>3, <2>5, StopKeeps
<1> QED BY <1>4, <1>5 DEF Fail

\* A power loss leaves one of the directories, with one of the byte strings in
\* each file; what that directory calls current has only one.
LEMMA PowerLossKeeps ==
  ASSUME IInv, PowerLoss
  PROVE  IInv'
<1>1. PICK d \in images : names' = d /\ disk' = d /\ images' = {d}
  BY DEF PowerLoss
<1>2. /\ content' \in [Inodes -> UNION {blocks[i] : i \in Inodes}]
      /\ \A i \in Inodes : content'[i] \in blocks[i]
      /\ blocks' = [i \in Inodes |-> {content'[i]}]
      /\ tx' = None /\ seen' = [c \in Clients |-> None] /\ returned' = returned
  BY DEF PowerLoss
<1>3. TypesIn(images, content, blocks) /\ d \in Directories
  BY DEF IInv, FileTypes, TypesIn
<1>4. TypesIn({d}, content', blocks')
  <2>1. content' \in [Inodes -> Contents]
    BY <1>2, <1>3 DEF TypesIn
  <2>2. blocks' \in [Inodes -> SUBSET Contents] /\ \A i \in Inodes : content'[i] \in blocks'[i]
    BY <1>2, <2>1
  <2> QED BY <1>3, <2>1, <2>2 DEF TypesIn
<1>5. d["current"] \in Inodes \cup {None} /\ d["stage"] \in Inodes \cup {None}
  BY <1>3 DEF Directories
<1>6. ASSUME d["current"] # None
      PROVE  /\ content'[d["current"]] = content[d["current"]]
             /\ blocks'[d["current"]] = {content'[d["current"]]}
             /\ d["current"] # d["stage"]
             /\ content[d["current"]] \in Catalogs /\ validate(content[d["current"]])
  BY <1>2, <1>5, <1>6 DEF IInv, Whole, WholeIn
<1>7. DocumentOf(content', d) = DocumentOf(content, d)
  BY <1>6 DEF DocumentOf
<1>8. FileTypes' /\ Whole' /\ Forward'
  BY <1>1, <1>4, <1>6 DEF FileTypes, Whole, WholeIn, Forward, ForwardIn
<1>9. Staging'
  <2>1. ASSUME d["stage"] # None, NEW x \in blocks'[d["stage"]] \cap Catalogs
        PROVE  StagedBeside(d, content', x)
    <3>1. x \in blocks[d["stage"]] \cap Catalogs
      BY <1>2, <1>5, <2>1
    <3>2. StagedBeside(d, content, x)
      BY <2>1, <3>1 DEF IInv, Staging, StagingIn
    <3> QED BY <1>7, <3>2 DEF StagedBeside
  <2> QED BY <1>1, <2>1 DEF Staging, StagingIn
<1>10. \A x : KeptIn(x, images, content) => KeptIn(x, images', content')
  BY <1>1, <1>6 DEF KeptIn
<1>11. /\ seen' \in [Clients -> Catalogs \cup {None}]
       /\ \A c \in Clients : seen'[c] # None => seen'[c] = seen[c]
  BY <1>2
<1> QED BY <1>2, <1>8, <1>9, <1>10, <1>11, StopKeeps

-----------------------------------------------------------------------------
(***************************************************************************)
(* The invariant.                                                          *)
(***************************************************************************)
\* The invariant holds in a directory without a store.
LEMMA InitIInv == Init => IInv
<1> SUFFICES ASSUME Init PROVE IInv
  OBVIOUS
<1>1. names \in Directories /\ names["current"] = None /\ names["stage"] = None
      /\ images = {names} /\ disk = names
  BY DEF Init, Directories
<1>2. content \in [Inodes -> Contents] /\ blocks \in [Inodes -> SUBSET Contents]
      /\ \A i \in Inodes : content[i] \in blocks[i]
  BY DEF Init, Contents
<1>3. FileTypes
  BY <1>1, <1>2 DEF FileTypes, TypesIn
<1>4. Whole /\ Staging /\ Forward
  BY <1>1 DEF Whole, WholeIn, Staging, StagingIn, Forward, ForwardIn
<1>5. Remembered /\ UnderWay
  BY DEF Init, Remembered, UnderWay
<1> QED BY <1>3, <1>4, <1>5 DEF IInv

\* Every step of a call, and every fault, keeps it.
LEMMA NextIInv == IInv /\ [Next]_vars => IInv'
<1> SUFFICES ASSUME IInv, [Next]_vars PROVE IInv'
  OBVIOUS
<1>1. CASE UNCHANGED vars
  BY <1>1 DEF vars, IInv, FileTypes, Whole, Staging, Forward, Remembered, UnderWay
<1>2. CASE recover_locked
  BY <1>2, RecoverKeeps
<1>3. ASSUME NEW c \in Clients, load(c) \/ create(c) \/ replace_if_revision(c) PROVE IInv'
  BY <1>3, LoadKeeps, CreateKeeps, ReplaceKeeps
<1>4. CASE OpenStage
  BY <1>4, OpenStageKeeps
<1>5. CASE WriteStage
  BY <1>5, WriteStageKeeps
<1>6. CASE SyncStage
  BY <1>6, SyncStageKeeps
<1>7. CASE ValidateStage
  BY <1>7, ValidateStageKeeps
<1>8. CASE RenameStage
  BY <1>8, RenameKeeps
<1>9. CASE SyncPublication
  BY <1>9, SyncPublicationKeeps
<1>10. CASE TruncateRetired
  BY <1>10, TruncateKeeps
<1>11. CASE SyncRetired
  BY <1>11, SyncRetiredKeeps
<1>12. CASE Crash
  BY <1>12, CrashKeeps
<1>13. CASE Fail
  BY <1>13, FailKeeps
<1>14. CASE PowerLoss
  BY <1>14, PowerLossKeeps
<1> QED
  BY <1>1, <1>2, <1>3, <1>4, <1>5, <1>6, <1>7, <1>8, <1>9, <1>10, <1>11, <1>12, <1>13, <1>14
  DEF Next

-----------------------------------------------------------------------------
(***************************************************************************)
(* Results.                                                                *)
(***************************************************************************)
\* Every state of the store satisfies the invariant: one call at a time moves
\* the current document by one legal call, and whatever directory or bytes a
\* power loss leaves, the document and the stage beside it are at most one
\* call apart.
THEOREM StoreInvariant == Spec => []IInv
BY InitIInv, NextIInv, PTL DEF Spec

\* What the current name leads to is always a whole and valid document, also
\* after a power loss: the exchange of names in publish comes after the stage
\* is synchronized, and only what no directory calls current is truncated.
THEOREM CurrentStaysWhole == Spec => []CurrentIsWhole
<1>1. IInv => CurrentIsWhole
  <2> SUFFICES ASSUME IInv PROVE CurrentIsWhole
    OBVIOUS
  <2>1. SUFFICES ASSUME NEW d \in images \cup {names, disk}, d["current"] # None,
                        NEW document \in blocks[d["current"]] \cup {content[d["current"]]}
                 PROVE  Decodes(document) /\ validate(document)
    BY DEF CurrentIsWhole
  <2>2. d \in images
    BY DEF IInv, FileTypes
  <2>3. document \in Catalogs /\ validate(document)
    BY <2>1, <2>2 DEF IInv, Whole, WholeIn
  <2> QED BY <2>3, NoCatalog DEF Decodes
<1> QED BY <1>1, StoreInvariant, PTL

\* A catalog whose publication was reported to a client is never undone by a
\* crash, an error or a power loss: sync_directory comes before the report.
THEOREM ReturnStaysDurable == Spec => []ReturnIsDurable
<1>1. IInv => ReturnIsDurable
  <2> SUFFICES ASSUME IInv, returned # None, NEW d \in images
               PROVE  /\ d["current"] # None
                      /\ content[d["current"]].revision >= returned.revision
    BY DEF ReturnIsDurable
  <2>1. /\ returned \in Catalogs /\ d["current"] # None
        /\ content[d["current"]] = returned \/ content[d["current"]].revision > returned.revision
    BY DEF IInv, Remembered, KeptIn
  <2>2. content[d["current"]] \in Catalogs
    BY <2>1 DEF IInv, Whole, WholeIn
  <2>3. returned.revision \in Nat /\ content[d["current"]].revision \in Nat
    BY <2>1, <2>2, CatalogParts
  <2> QED BY <2>1, <2>3
<1> QED BY <1>1, StoreInvariant, PTL

\* recover_locked classifies what any interrupted call left, unless its stage
\* is torn: a whole stage is the successor or the predecessor of the current
\* document, or the first catalog of a store without one.
THEOREM StopsAlwaysRecover == Spec => []EveryStopRecovers
<1>1. IInv => EveryStopRecovers
  <2> SUFFICES ASSUME IInv, StagedDocument # Torn PROVE Recovery # "Refuse"
    BY DEF EveryStopRecovers
  <2>1. CurrentDocument \notin {Empty, Torn}
    BY CurrentIsCatalog, NoCatalog, StoreAssumption
  <2>2. CASE StagedDocument = None
    BY <2>2, <2>1, StoreAssumption DEF Recovery
  <2> SUFFICES ASSUME StagedDocument # None PROVE Recovery # "Refuse"
    BY <2>2
  <2>3. names \in images /\ names["stage"] \in Inodes \cup {None}
    BY DEF IInv, FileTypes, TypesIn, Directories
  <2>4. /\ names["stage"] # None /\ StagedDocument = content[names["stage"]]
        /\ StagedDocument # Empty
    BY <2>3 DEF StagedDocument, ReadOf
  <2>5. StagedDocument \in Catalogs /\ StagedDocument \in blocks[names["stage"]]
    BY <2>3, <2>4 DEF IInv, FileTypes, TypesIn, Contents
  <2>6. OneCall(CurrentDocument, StagedDocument) \/ OneCall(StagedDocument, CurrentDocument)
    BY <2>3, <2>4, <2>5, CurrentIsDocument DEF IInv, Staging, StagingIn, StagedBeside
  <2>7. CASE CurrentDocument = None
    <3>1. ~ OneCall(StagedDocument, CurrentDocument)
      BY <2>7, OneCallIsNext
    <3>2. StagedDocument = empty
      BY <2>6, <2>7, <3>1, NoCatalog DEF OneCall
    <3> QED BY <2>1, <2>7, <3>2 DEF Recovery
  <2>8. CASE CurrentDocument # None
    <3>1. \/ validate_successor_of(StagedDocument, CurrentDocument)
          \/ validate_successor_of(CurrentDocument, StagedDocument)
      BY <2>6, <2>8 DEF OneCall
    <3>2. Disposition(CurrentDocument, StagedDocument) # "Refuse"
      BY <3>1 DEF Disposition
    <3> QED BY <2>1, <2>8, <3>2 DEF Recovery
  <2> QED BY <2>7, <2>8
<1> QED BY <1>1, StoreInvariant, PTL

\* Only the exchange of names shows a document that no directory called current.
LEMMA DocumentsStay ==
  ASSUME IInv, [Next]_vars, ~ RenameStage, NEW e \in images'
  PROVE  \E d \in images : DocumentOf(content', e) = DocumentOf(content, d)
<1>1. names \in images /\ TypesIn(images, content, blocks)
  BY DEF IInv, FileTypes
<1>2. CASE content' = content /\ (images' = images \/ images' = {names})
  BY <1>1, <1>2
<1>3. ASSUME NEW i \in Inodes, NEW v, content' = [content EXCEPT ![i] = v],
             \A d \in images : d["current"] # i, NEW d \in images
      PROVE  DocumentOf(content', d) = DocumentOf(content, d)
  BY <1>1, <1>3 DEF DocumentOf, TypesIn, Directories
<1>4. ASSUME tx # None, tx.step \in Before \ {"stage"}, NEW v,
             content' = [content EXCEPT ![tx.staged] = v], images' = images
      PROVE  DocumentOf(content', e) = DocumentOf(content, e)
  BY <1>3, <1>4, StageIsNotCurrent
<1>5. CASE OpenStage
  <2>1. CASE UNCHANGED files
    BY <1>2, <2>1 DEF files
  <2>2. CASE ~ UNCHANGED files
    <3>1. PICK i \in Inodes \ UNION {{d["current"], d["stage"]} : d \in images \cup {names}} :
            /\ images' = images \cup {[names EXCEPT !["stage"] = i]}
            /\ content' = [content EXCEPT ![i] = Empty]
      BY <1>5, <2>2 DEF OpenStage, Renamed
    <3>2. \A d \in images : d["current"] # i
      OBVIOUS
    <3>3. [names EXCEPT !["stage"] = i]["current"] = names["current"]
      BY <1>1 DEF TypesIn, Directories
    <3>4. DocumentOf(content', [names EXCEPT !["stage"] = i]) = DocumentOf(content', names)
      BY <3>3 DEF DocumentOf
    <3>5. \A d \in images : DocumentOf(content', d) = DocumentOf(content, d)
      BY <1>3, <3>1, <3>2
    <3> QED BY <1>1, <3>1, <3>4, <3>5
  <2> QED BY <2>1, <2>2
<1>6. CASE WriteStage
  BY <1>4, <1>6 DEF WriteStage, At, Before
<1>7. CASE TruncateRetired
  <2>1. tx.prior \in Inodes /\ \A d \in images : d["current"] # tx.prior
    BY <1>7, RetiredIsNotCurrent DEF TruncateRetired, At
  <2> QED BY <1>3, <1>7, <2>1 DEF TruncateRetired
<1>8. CASE Crash
  <2>1. CASE UNCHANGED content
    BY <1>2, <1>8, <2>1 DEF Crash
  <2>2. CASE At("write") /\ content' = [content EXCEPT ![tx.staged] = Torn]
    BY <1>4, <1>8, <2>2 DEF Crash, At, Before
  <2> QED BY <1>8, <2>1, <2>2 DEF Crash
<1>9. CASE Fail
  <2>1. CASE UNCHANGED content
    BY <1>2, <1>9, <2>1 DEF Fail
  <2>2. CASE /\ tx.armed /\ tx.staged # None
             /\ content' = [content EXCEPT ![tx.staged] = Empty]
    <3>1. tx # None /\ images' = images
      BY <1>9 DEF Fail
    <3>2. tx.step \in Before \ {"stage"}
      BY <2>2, <3>1 DEF IInv, UnderWay, Before
    <3> QED BY <1>4, <2>2, <3>1, <3>2
  <2> QED BY <1>9, <2>1, <2>2 DEF Fail
<1>10. CASE PowerLoss
  <2>1. e \in images
    BY <1>10 DEF PowerLoss
  <2>2. \A i \in Inodes : content'[i] \in blocks[i]
    BY <1>10 DEF PowerLoss
  <2>3. e["current"] \in Inodes \cup {None}
    BY <1>1, <2>1 DEF TypesIn, Directories
  <2>4. e["current"] # None => content'[e["current"]] = content[e["current"]]
    BY <2>1, <2>2, <2>3 DEF IInv, Whole, WholeIn
  <2> QED BY <2>1, <2>4 DEF DocumentOf
<1> QED
  BY <1>2, <1>5, <1>6, <1>7, <1>8, <1>9, <1>10
  DEF Next, vars, recover_locked, load, create, replace_if_revision, SyncStage, ValidateStage,
      SyncPublication, SyncRetired, Synchronized

\* The store implements the history of one catalog: what is durable is absent,
\* then empty, then moves by whole calls of the catalog, each made of the
\* catalog it replaces, through crashes, failed operations and power losses.
THEOREM StoreImplementsHistory == Spec => ImplementsHistory
<1>1. Init => History!Init
  BY DEF Init, History!Init, DurableCatalog
<1>2. IInv /\ [Next]_vars => [History!Next]_DurableCatalog
  <2> SUFFICES ASSUME IInv, [Next]_vars PROVE [History!Next]_DurableCatalog
    OBVIOUS
  <2>1. disk' \in images' /\ disk \in images
    BY NextIInv DEF IInv, FileTypes
  <2>2. PICK d \in images : DocumentOf(content', disk') = DocumentOf(content, d)
    BY <2>1, DocumentsStay DEF RenameStage, Renamed
  <2>3. DurableCatalog = DocumentOf(content, disk) /\ DurableCatalog' = DocumentOf(content', disk')
    BY DEF DurableCatalog, DocumentOf
  <2>4. DurableCatalog' = DurableCatalog \/ OneCall(DurableCatalog, DurableCatalog')
    BY <2>2, <2>3 DEF IInv, Forward, ForwardIn
  <2> HIDE DEF DurableCatalog
  <2> QED
    BY <2>4, NoCatalog DEF OneCall, History!Next, History!Create, History!Advance
<1> QED BY <1>1, <1>2, StoreInvariant, PTL DEF Spec, ImplementsHistory, History!Spec

-----------------------------------------------------------------------------
(***************************************************************************)
(* Recovery starts nothing.                                                *)
(***************************************************************************)
\* The operations a document calls started.
StartedIn(c) == {r \in c.entries : r.operation # None /\ r.operation.phase = "Started"}

\* Replacing one record by another changes two: they are what classification finds.
LEMMA ReplacedRecord ==
  ASSUME NEW S, NEW T, IsFiniteSet(S), NEW p \in S \ T, NEW r \in T \ S,
         T = (S \ {p}) \cup {r}
  PROVE  /\ Cardinality(T) # Cardinality(S) + 1
         /\ (CHOOSE x \in S : x \notin T) = p /\ (CHOOSE x \in T : x \notin S) = r
<1>1. IsFiniteSet(S \ {p}) /\ Cardinality(S \ {p}) = Cardinality(S) - 1
  BY FS_RemoveElement
<1>2. Cardinality(T) = Cardinality(S \ {p}) + 1
  BY <1>1, FS_AddElement
<1>3. Cardinality(S) \in Nat
  BY FS_CardinalityType
<1>4. \A x \in S : x \notin T <=> x = p
  OBVIOUS
<1>5. \A x \in T : x \notin S <=> x = r
  OBVIOUS
<1> QED BY <1>1, <1>2, <1>3, <1>4, <1>5

\* What recovery may publish calls nothing started that was not.
LEMMA SafePublishStartsNothing ==
  ASSUME NEW c \in Catalogs, NEW n, OneCall(c, n),
         classify_successor_recovery(c, n) = "SafePublish"
  PROVE  StartedIn(n) \subseteq StartedIn(c)
<1>1. n \in Successors(c) /\ validate_successor_of(n, c)
  BY NoCatalog DEF OneCall
<1>2. CASE n \in (UNION {accept(c, request) : request \in Requests}) \ {c}
  <2>1. PICK request \in Requests : n \in accept(c, request) /\ n # c
    BY <1>2
  <2>2. n = Accepted(c, request, NextGeneration(c, request.lineage))
    BY <2>1 DEF accept
  <2>3. PICK record : record.operation = None /\ n.entries = c.entries \cup {record}
    BY <2>2 DEF Accepted
  <2> QED BY <2>3 DEF StartedIn
<1>3. CASE n \in UNION {checkpoint(c, key(r), r.revision, cp) :
                          r \in c.entries, cp \in Checkpoints}
  <2>1. PICK q, s : n = [c EXCEPT !.entries = (@ \ {q}) \cup {s}, !.revision = @ + 1]
    <3>1. PICK r \in c.entries, cp \in Checkpoints :
            n \in checkpoint(c, key(r), r.revision, cp)
      BY <1>3
    <3>2. PICK q \in c.entries : \E s \in apply_checkpoint(q, cp) :
            n = [c EXCEPT !.entries = (@ \ {q}) \cup {s}, !.revision = @ + 1]
      BY <3>1 DEF checkpoint, find
    <3> QED BY <3>2
  <2>2. n.requests = c.requests /\ n.maxima = c.maxima /\ n.locators = c.locators
    BY <2>1 DEF Catalogs
  <2>3. PICK r \in n.entries \ c.entries, p \in c.entries \ n.entries :
          n.entries = (c.entries \ {p}) \cup {r} /\ valid_operation_successor(p, r)
    BY <1>1, <2>2 DEF validate_successor_of
  <2>4. /\ Cardinality(n.entries) # Cardinality(c.entries) + 1
        /\ (CHOOSE x \in c.entries : x \notin n.entries) = p
        /\ (CHOOSE x \in n.entries : x \notin c.entries) = r
    BY <2>3, CatalogParts, ReplacedRecord
  <2>5. p.operation = None \/ r.operation = None \/ r.operation.phase # "Started"
    BY <2>4 DEF classify_successor_recovery
  <2>6. r \notin StartedIn(n)
    BY <2>3, <2>5 DEF valid_operation_successor, StartedIn
  <2> QED BY <2>3, <2>6 DEF StartedIn
<1> QED BY <1>1, <1>2, <1>3 DEF Successors

\* A document that recovery is publishing calls nothing started that was not.
Quiet ==
  tx # None /\ tx.owner = None /\ tx.step \in Before =>
    /\ tx.step \in {"validate", "rename"}
    /\ \/ DocumentOf(content, names) = None /\ tx.document = empty
       \/ /\ DocumentOf(content, names) # None
          /\ StartedIn(tx.document) \subseteq StartedIn(DocumentOf(content, names))

\* Classification lets recovery publish only such documents.
LEMMA RecoverIsQuiet ==
  ASSUME IInv, recover_locked
  PROVE  Quiet'
<1>1. tx = None /\ UNCHANGED <<names, content>>
  BY DEF recover_locked
<1>2. CASE Recovery = "Remove"
  BY <1>2 DEF recover_locked, Transaction, Quiet, Before
<1>3. CASE Recovery = "Publish"
  <2>1. tx' = Transaction("validate", None, StagedDocument, names["current"], FALSE)
    BY <1>3 DEF recover_locked
  <2>2. tx'.step = "validate" /\ tx'.document = StagedDocument
    BY <2>1 DEF Transaction
  <2>3. OneCall(CurrentDocument, StagedDocument)
    BY <1>1, <1>3, RecoveredIsNext
  <2>4. CASE CurrentDocument = None
    <3>1. StagedDocument = empty
      BY <2>3, <2>4, NoCatalog DEF OneCall
    <3> QED BY <1>1, <2>2, <2>4, <3>1, CurrentIsDocument DEF Quiet
  <2>5. CASE CurrentDocument # None
    <3>1. CurrentDocument \in Catalogs
      BY <2>5, CurrentIsCatalog
    <3>2. StagedDocument \in Catalogs
      BY <2>3, OneCallIsNext
    <3>3. Disposition(CurrentDocument, StagedDocument) = "Publish"
      BY <1>3, <2>5, <3>1, <3>2, NoCatalog DEF Recovery
    <3>4. classify_successor_recovery(CurrentDocument, StagedDocument) = "SafePublish"
      BY <3>3 DEF Disposition
    <3>5. StartedIn(StagedDocument) \subseteq StartedIn(CurrentDocument)
      BY <2>3, <3>1, <3>4, SafePublishStartsNothing
    <3> QED BY <1>1, <2>2, <2>5, <3>5, CurrentIsDocument DEF Quiet
  <2> QED BY <2>4, <2>5
<1> QED BY <1>2, <1>3 DEF recover_locked

\* And nothing else makes a call without an owner.
LEMMA QuietIsInvariant == Spec => []Quiet
<1>1. Init => Quiet
  BY DEF Init, Quiet
<1>2. IInv /\ Quiet /\ [Next]_vars => Quiet'
  <2> SUFFICES ASSUME IInv, Quiet, [Next]_vars PROVE Quiet'
    OBVIOUS
  <2>1. tx # None => tx \in Transactions
    BY DEF IInv, UnderWay
  <2>2. CASE UNCHANGED vars
    BY <2>2 DEF vars, Quiet
  <2>3. CASE recover_locked
    BY <2>3, RecoverIsQuiet
  <2>4. ASSUME NEW c \in Clients, load(c) PROVE Quiet'
    BY <2>4 DEF load, Quiet
  <2>5. ASSUME NEW c \in Clients, create(c) \/ replace_if_revision(c) PROVE Quiet'
    BY <2>5, StoreAssumption DEF create, replace_if_revision, Transaction, Quiet
  <2>6. CASE OpenStage \/ WriteStage \/ SyncStage
    BY <2>1, <2>6 DEF OpenStage, WriteStage, SyncStage, At, Quiet, Transactions, Before
  <2>7. CASE ValidateStage
    BY <2>1, <2>7 DEF ValidateStage, At, Quiet, Transactions, Before
  <2>8. CASE RenameStage \/ SyncPublication \/ TruncateRetired
    BY <2>1, <2>8 DEF RenameStage, SyncPublication, Finish, TruncateRetired, At, Quiet,
                      Transactions, Before
  <2>9. CASE SyncRetired \/ Crash \/ Fail \/ PowerLoss
    BY <2>9 DEF SyncRetired, Finish, Crash, Fail, PowerLoss, Quiet
  <2> QED BY <2>2, <2>3, <2>4, <2>5, <2>6, <2>7, <2>8, <2>9 DEF Next
<1> QED BY <1>1, <1>2, StoreInvariant, PTL DEF Spec

\* An operation is called started in some directory exactly when a record of
\* the document that is current there is.
StartedAt(x, d, f) ==
  /\ DocumentOf(f, d) \in Catalogs
  /\ \E r \in StartedIn(DocumentOf(f, d)) : x = <<key(r), r.operation.generation>>

StartedSeen ==
  \A x : x \in StartedOperations <=> \E d \in images : StartedAt(x, d, content)

\* The two readings of StartedOperations agree.
LEMMA StartedSomewhere == IInv => StartedSeen
<1> SUFFICES ASSUME IInv, NEW x
             PROVE  x \in StartedOperations <=> \E d \in images : StartedAt(x, d, content)
  BY DEF StartedSeen
<1>1. \A d \in images : d["current"] # None =>
        content[d["current"]] \in Catalogs /\ Decodes(content[d["current"]])
  BY NoCatalog DEF IInv, Whole, WholeIn, Decodes
<1>2. ASSUME x \in StartedOperations PROVE \E d \in images : StartedAt(x, d, content)
  <2>1. PICK d \in images :
          /\ d["current"] # None
          /\ x \in {<<key(r), r.operation.generation>> : r \in StartedIn(content[d["current"]])}
    BY <1>2 DEF StartedOperations, StartedIn
  <2> QED BY <1>1, <2>1 DEF StartedAt, DocumentOf
<1>3. ASSUME NEW d \in images, StartedAt(x, d, content) PROVE x \in StartedOperations
  <2>1. d["current"] # None
    BY <1>3, NoCatalog DEF StartedAt, DocumentOf
  <2>2. x \in {<<key(r), r.operation.generation>> : r \in StartedIn(content[d["current"]])}
    BY <1>3, <2>1 DEF StartedAt, DocumentOf
  <2> QED BY <1>1, <2>1, <2>2 DEF StartedOperations, StartedIn
<1> QED BY <1>2, <1>3

\* recover_locked never declares an operation started on its own: a Started
\* checkpoint becomes current only in the call of a client that waits for it.
THEOREM RecoveryNeverStarts == Spec => RecoveryStartsNothing
<1>1. IInv /\ StartedSeen /\ StartedSeen' /\ Quiet /\ [Next]_vars =>
        StartedOperations' \subseteq StartedOperations \/ (tx # None /\ tx.owner # None)
  <2> SUFFICES ASSUME IInv, StartedSeen, StartedSeen', Quiet, [Next]_vars,
                      tx = None \/ tx.owner = None, NEW x \in StartedOperations'
               PROVE  x \in StartedOperations
    OBVIOUS
  <2>1. PICK e \in images' : StartedAt(x, e, content')
    BY DEF StartedSeen
  <2>2. ASSUME NEW d \in images, DocumentOf(content', e) = DocumentOf(content, d)
        PROVE  x \in StartedOperations
    BY <2>1, <2>2 DEF StartedAt, StartedSeen
  <2>3. CASE ~ RenameStage
    BY <2>2, <2>3, DocumentsStay
  <2>4. CASE RenameStage
    <3> DEFINE next == [names EXCEPT !["current"] = tx.staged, !["stage"] = tx.prior]
    <3>1. /\ tx # None /\ tx.step = "rename" /\ content' = content
          /\ images' = images \cup {next}
      BY <2>4 DEF RenameStage, At, Renamed
    <3>2. names \in images /\ names \in Directories /\ content[tx.staged] = tx.document
          /\ tx.staged # None
      BY <3>1 DEF IInv, FileTypes, TypesIn, UnderWay, Before
    <3>3. DocumentOf(content', next) = tx.document
      BY <3>1, <3>2 DEF DocumentOf, Directories
    <3>4. CASE e \in images
      BY <2>2, <3>1, <3>4
    <3>5. CASE e = next
      <4>1. StartedIn(tx.document) \subseteq StartedIn(DocumentOf(content, names))
            /\ DocumentOf(content, names) # None
        <5>1. StartedIn(tx.document) # {}
          BY <2>1, <3>3, <3>5 DEF StartedAt
        <5>2. tx.document # empty
          BY <5>1 DEF StartedIn, empty
        <5> QED BY <3>1, <5>2 DEF Quiet, Before
      <4>2. DocumentOf(content, names) \in Catalogs
        BY <4>1, CurrentIsDocument, CurrentIsCatalog
      <4>3. StartedAt(x, names, content)
        BY <2>1, <3>3, <3>5, <4>1, <4>2 DEF StartedAt
      <4> QED BY <3>2, <4>3 DEF StartedSeen
    <3> QED BY <3>1, <3>4, <3>5
  <2> QED BY <2>3, <2>4
<1> QED
  BY <1>1, StoreInvariant, StartedSomewhere, QuietIsInvariant, PTL DEF Spec, RecoveryStartsNothing

-----------------------------------------------------------------------------
(***************************************************************************)
(* The successor test.                                                     *)
(***************************************************************************)
\* A set with one element more than a part of it has one that the part lacks.
LEMMA OneMore ==
  ASSUME NEW S, NEW T, IsFiniteSet(S), IsFiniteSet(T), S \subseteq T, NEW x \in T \ S,
         Cardinality(T) = Cardinality(S) + 1
  PROVE  T = S \cup {x}
<1>1. IsFiniteSet(S \cup {x}) /\ Cardinality(S \cup {x}) = Cardinality(S) + 1
  BY FS_AddElement
<1>2. S \cup {x} \subseteq T
  OBVIOUS
<1> QED BY <1>1, <1>2, FS_Subset

\* A set that grows by one element and in size lacked the element.
LEMMA NewElement ==
  ASSUME NEW S, IsFiniteSet(S), NEW x, Cardinality(S \cup {x}) = Cardinality(S) + 1
  PROVE  x \notin S
<1>1. SUFFICES ASSUME x \in S PROVE FALSE
  OBVIOUS
<1>2. S \cup {x} = S /\ Cardinality(S) \in Nat
  BY <1>1, FS_CardinalityType
<1> QED BY <1>2

\* What accept makes of a catalog passes the test.
LEMMA AcceptancePasses ==
  ASSUME NEW c \in Catalogs, NEW request \in Requests, NEW n \in accept(c, request), n # c
  PROVE  validate_successor_of(n, c)
<1> DEFINE generation == NextGeneration(c, request.lineage)
           locator == derive_locator(request.lineage, generation, request.source)
           record == [lineage |-> request.lineage, generation |-> generation, revision |-> 1,
                      source |-> request.source, locator |-> locator,
                      config |-> request.config, physical |-> "Unmaterialized", last |-> 0,
                      operation |-> None]
           claim == [request_id |-> request.request_id, lineage |-> request.lineage,
                     source |-> request.source, config |-> request.config,
                     generation |-> generation, locator |-> locator]
           location == [source |-> request.source, locator |-> locator, key |-> key(record)]
           maximum == [lineage |-> request.lineage, maximum |-> generation]
<1>1. /\ validate(c) /\ validate(n) /\ n = Accepted(c, request, generation)
      /\ \A q \in c.requests : q.request_id # request.request_id
  BY DEF accept
<1>2. n = [revision |-> c.revision + 1, requests |-> c.requests \cup {claim},
           maxima |-> {m \in c.maxima : m.lineage # request.lineage} \cup {maximum},
           locators |-> c.locators \cup {location}, entries |-> c.entries \cup {record}]
  BY <1>1 DEF Accepted
<1>3. /\ record.revision = 1 /\ record.physical = "Unmaterialized" /\ record.last = 0
      /\ record.operation = None /\ key(claim) = key(record) /\ Satisfies(claim, record)
      /\ claim.locator = record.locator
      /\ location = [source |-> record.source, locator |-> record.locator,
                     key |-> key(record)]
      /\ record.generation = NextGeneration(c, record.lineage)
      /\ maximum = [lineage |-> record.lineage, maximum |-> record.generation]
      /\ record.lineage = request.lineage
  BY DEF key, Satisfies
<1>4. claim \notin c.requests
  BY <1>1
<1> HIDE DEF record, claim, location, maximum, generation, locator
<1>5. /\ n.revision = c.revision + 1 /\ n.requests = c.requests \cup {claim}
      /\ n.maxima = {m \in c.maxima : m.lineage # request.lineage} \cup {maximum}
      /\ n.locators = c.locators \cup {location} /\ n.entries = c.entries \cup {record}
  BY <1>2
<1>6. /\ Cardinality(n.requests) = Cardinality(n.entries)
      /\ Cardinality(n.locators) = Cardinality(n.entries)
      /\ Cardinality(c.requests) = Cardinality(c.entries)
      /\ Cardinality(c.locators) = Cardinality(c.entries)
  BY <1>1 DEF validate
<1>7. IsFiniteSet(c.requests) /\ IsFiniteSet(c.locators) /\ IsFiniteSet(c.entries)
  BY CatalogParts
<1>8. Cardinality(n.requests) = Cardinality(c.requests) + 1
  BY <1>4, <1>5, <1>7, FS_AddElement
<1>9. /\ Cardinality(n.locators) = Cardinality(c.locators) + 1
      /\ Cardinality(n.entries) = Cardinality(c.entries) + 1
  BY <1>6, <1>8
<1>10. record \in n.entries \ c.entries /\ location \in n.locators \ c.locators
  BY <1>5, <1>7, <1>9, NewElement
<1>11. claim \in n.requests \ c.requests
  BY <1>4, <1>5
<1>12. is_exact_acceptance_successor(c, n)
  BY <1>3, <1>5, <1>8, <1>9, <1>10, <1>11 DEF is_exact_acceptance_successor
<1> QED BY <1>1, <1>5, <1>11, <1>12 DEF validate_successor_of

\* So does what any call makes of it: checkpoint applies the test itself.
LEMMA SuccessorPasses ==
  ASSUME NEW c \in Catalogs, NEW n \in Successors(c)
  PROVE  validate_successor_of(n, c)
<1>1. CASE n \in (UNION {accept(c, request) : request \in Requests}) \ {c}
  <2>1. PICK request \in Requests : n \in accept(c, request)
    BY <1>1
  <2> QED BY <1>1, <2>1, AcceptancePasses
<1>2. CASE n \in UNION {checkpoint(c, key(r), r.revision, cp) :
                          r \in c.entries, cp \in Checkpoints}
  <2>1. PICK r \in c.entries, cp \in Checkpoints : n \in checkpoint(c, key(r), r.revision, cp)
    BY <1>2
  <2> QED BY <2>1 DEF checkpoint
<1> QED BY <1>1, <1>2 DEF Successors

\* A catalog is its fields.
LEMMA CatalogIsItsFields ==
  ASSUME NEW n \in Catalogs
  PROVE  n = [revision |-> n.revision, requests |-> n.requests, maxima |-> n.maxima,
              locators |-> n.locators, entries |-> n.entries]
BY DEF Catalogs

\* A document that the test accepts as an acceptance is what accept makes of
\* some request: that of the one claim it adds.
LEMMA PassingAcceptance ==
  ASSUME NEW c \in Catalogs, NEW n \in Catalogs, validate(c), validate(n),
         n.revision = c.revision + 1, is_exact_acceptance_successor(c, n)
  PROVE  n \in Successors(c)
<1>1. PICK r \in n.entries \ c.entries, q \in n.requests \ c.requests,
           l \in n.locators \ c.locators :
        /\ r.revision = 1 /\ r.physical = "Unmaterialized" /\ r.last = 0 /\ r.operation = None
        /\ key(q) = key(r) /\ Satisfies(q, r) /\ q.locator = r.locator
        /\ l = [source |-> r.source, locator |-> r.locator, key |-> key(r)]
        /\ r.generation = NextGeneration(c, r.lineage)
        /\ n.maxima = {m \in c.maxima : m.lineage # r.lineage}
                        \cup {[lineage |-> r.lineage, maximum |-> r.generation]}
  BY DEF is_exact_acceptance_successor
<1>2. r \in Records /\ q \in Claims
  BY <1>1, CatalogParts
<1> DEFINE request == [request_id |-> q.request_id, lineage |-> r.lineage,
                       source |-> r.source, config |-> r.config]
           locator == derive_locator(r.lineage, r.generation, r.source)
           maximum == [lineage |-> r.lineage, maximum |-> r.generation]
<1>3. request \in Requests
  BY <1>2 DEF Requests, Records, Claims
<1>4. /\ q.lineage = r.lineage /\ q.generation = r.generation /\ q.source = r.source
      /\ q.config = r.config
  BY <1>1 DEF key, Satisfies
<1>5. r.locator = locator /\ q.locator = locator
  BY <1>1, <1>4 DEF validate
<1>6. r = [lineage |-> r.lineage, generation |-> r.generation, revision |-> 1,
           source |-> r.source, locator |-> locator, config |-> r.config,
           physical |-> "Unmaterialized", last |-> 0, operation |-> None]
  <2>1. r = [lineage |-> r.lineage, generation |-> r.generation, revision |-> r.revision,
             source |-> r.source, locator |-> r.locator, config |-> r.config,
             physical |-> r.physical, last |-> r.last, operation |-> r.operation]
    BY <1>2 DEF Records
  <2> HIDE DEF locator
  <2> QED BY <1>1, <1>5, <2>1, Zenon
<1>7. q = [request_id |-> q.request_id, lineage |-> r.lineage, source |-> r.source,
           config |-> r.config, generation |-> r.generation, locator |-> locator]
  <2>1. q = [request_id |-> q.request_id, lineage |-> q.lineage, source |-> q.source,
             config |-> q.config, generation |-> q.generation, locator |-> q.locator]
    BY <1>2 DEF Claims
  <2> HIDE DEF locator
  <2> QED BY <1>4, <1>5, <2>1, Zenon
<1>8. /\ IsFiniteSet(c.requests) /\ IsFiniteSet(c.locators) /\ IsFiniteSet(c.entries)
      /\ IsFiniteSet(n.requests) /\ IsFiniteSet(n.locators) /\ IsFiniteSet(n.entries)
      /\ IsFiniteSet(c.maxima)
  BY CatalogParts
<1>9. /\ n.entries = c.entries \cup {r} /\ n.requests = c.requests \cup {q}
      /\ n.locators = c.locators \cup {l}
  BY <1>1, <1>8, OneMore DEF is_exact_acceptance_successor
<1>10. request.lineage = r.lineage /\ request.source = r.source /\ request.config = r.config
       /\ request.request_id = q.request_id
  OBVIOUS
<1> HIDE DEF request
<1>11. n = Accepted(c, request, r.generation)
  <2> DEFINE record == [lineage |-> r.lineage, generation |-> r.generation, revision |-> 1,
                        source |-> r.source, locator |-> locator, config |-> r.config,
                        physical |-> "Unmaterialized", last |-> 0, operation |-> None]
             claim == [request_id |-> q.request_id, lineage |-> r.lineage,
                       source |-> r.source, config |-> r.config,
                       generation |-> r.generation, locator |-> locator]
  <2>1. Accepted(c, request, r.generation) =
          [revision |-> c.revision + 1, requests |-> c.requests \cup {claim},
           maxima |-> {m \in c.maxima : m.lineage # r.lineage} \cup {maximum},
           locators |-> c.locators \cup {[source |-> r.source, locator |-> locator,
                                          key |-> key(record)]},
           entries |-> c.entries \cup {record}]
    BY <1>10, Zenon DEF Accepted
  <2>2. record = r /\ claim = q
    BY <1>6, <1>7, Zenon
  <2> HIDE DEF record, claim, locator, maximum
  <2>3. n.maxima = {m \in c.maxima : m.lineage # r.lineage} \cup {maximum}
    BY <1>1 DEF maximum
  <2>4. l = [source |-> r.source, locator |-> locator, key |-> key(r)]
    BY <1>1, <1>5
  <2>5. Accepted(c, request, r.generation) =
          [revision |-> n.revision, requests |-> n.requests, maxima |-> n.maxima,
           locators |-> n.locators, entries |-> n.entries]
    BY <1>9, <2>1, <2>2, <2>3, <2>4, Zenon
  <2> QED BY <2>5, CatalogIsItsFields
<1>12. validate_record(r)
  BY <1>1 DEF validate
<1>13. request.config.disk_source \in {None, request.source} /\ r.generation <= MaxGeneration
  BY <1>10, <1>12 DEF validate_record
<1>14. {p \in c.requests : p.request_id = request.request_id} = {}
  BY <1>1, <1>9, <1>10 DEF validate, UniqueBy
<1>15. \A k \in c.locators : ~ (k.source = request.source /\ k.locator = locator)
  <2>1. \A k \in n.locators : k.locator = l.locator => k = l
    BY <1>1 DEF validate, UniqueBy
  <2>2. l.locator = locator
    BY <1>1, <1>5
  <2> HIDE DEF locator
  <2> QED BY <1>1, <1>9, <2>1, <2>2
<1>16. Cardinality(c.entries) < MaxEntries
  <2>1. /\ Cardinality(n.entries) = Cardinality(c.entries) + 1
        /\ Cardinality(n.entries) <= MaxEntries /\ Cardinality(c.entries) \in Nat
    BY <1>8, FS_CardinalityType DEF is_exact_acceptance_successor, validate
  <2> QED BY <2>1, BoundsAssumption
<1>17. MaximumOf(c, r.lineage) = {} => Cardinality(c.maxima) < MaxLineages
  <2> SUFFICES ASSUME MaximumOf(c, r.lineage) = {} PROVE Cardinality(c.maxima) < MaxLineages
    OBVIOUS
  <2>1. \A m \in c.maxima : m.lineage # r.lineage
    BY DEF MaximumOf
  <2>2. maximum \notin c.maxima
    BY <2>1
  <2>3. {m \in c.maxima : m.lineage # r.lineage} = c.maxima
    BY <2>1
  <2>4. n.maxima = c.maxima \cup {maximum}
    BY <1>1, <2>3
  <2> HIDE DEF maximum
  <2>5. Cardinality(n.maxima) = Cardinality(c.maxima) + 1 /\ Cardinality(c.maxima) \in Nat
    BY <1>8, <2>2, <2>4, FS_AddElement, FS_CardinalityType
  <2>6. Cardinality(n.maxima) <= MaxLineages
    BY DEF validate
  <2> QED BY <2>5, <2>6, BoundsAssumption
<1>18. c.revision < MaxRevision
  <2>1. c.revision \in Nat /\ n.revision \in Revisions
    BY CatalogParts
  <2> QED BY <2>1, BoundsAssumption DEF Revisions
<1>19. r.generation = NextGeneration(c, request.lineage)
  BY <1>1, <1>10
<1>20. n \in accept(c, request)
  <2> HIDE DEF locator
  <2>1. locator = derive_locator(request.lineage, NextGeneration(c, request.lineage),
                                 request.source)
    BY <1>10, <1>19 DEF locator
  <2> QED
    BY <1>10, <1>11, <1>13, <1>14, <1>15, <1>16, <1>17, <1>18, <1>19, <2>1 DEF accept
<1>21. n # c
  BY <1>1
<1> QED BY <1>3, <1>20, <1>21 DEF Successors

\* A record that differs from another by an accepted change of its operation is
\* what some checkpoint makes of it.
LEMMA PassingCheckpoint ==
  ASSUME NEW p \in Records, NEW r \in Records, validate_record(p), validate_record(r),
         [r EXCEPT !.revision = p.revision, !.operation = p.operation, !.last = p.last] = p,
         r.revision = p.revision + 1, valid_operation_successor(p, r)
  PROVE  \E cp \in Checkpoints : r \in apply_checkpoint(p, cp)
<1>1. r = [p EXCEPT !.revision = p.revision + 1, !.operation = r.operation, !.last = r.last]
  BY DEF Records
<1>2. r.physical = p.physical
  BY DEF Records
<1>3. r \in Advanced(p, r.operation, r.last)
  <2>1. p.revision + 1 <= MaxRevision /\ p.revision + 1 \in Nat
    BY BoundsAssumption DEF Records, Revisions
  <2> QED BY <1>1, <2>1, BoundsAssumption DEF Advanced
<1>4. \A kind \in Kinds : HomeOf[kind] # "Retired"
  BY DEF Kinds, HomeOf
<1>5. /\ p.operation \in Operations \cup {None} /\ r.operation \in Operations \cup {None}
      /\ p.last \in Nat /\ r.last \in Nat
  BY DEF Records
<1>6. CASE /\ p.operation = None /\ r.operation # None
           /\ r.operation.phase = "Authorized" /\ r.last = r.operation.generation
           /\ r.operation.generation = next_operation_generation(p)
  <2> DEFINE cp == [kind |-> r.operation.kind, step |-> "Authorized"]
  <2>1. cp \in Checkpoints /\ r.operation.kind \in Kinds
    BY <1>5, <1>6 DEF Checkpoints, Operations
  <2>2. p.physical = HomeOf[cp.kind] /\ r.last <= MaxGeneration
    BY <1>2, <1>6 DEF validate_record
  <2>3. r.operation = [kind |-> cp.kind, generation |-> next_operation_generation(p),
                       phase |-> "Authorized"]
    BY <1>5, <1>6 DEF Operations
  <2>4. r \in Advanced(p, [kind |-> cp.kind, generation |-> next_operation_generation(p),
                           phase |-> "Authorized"], next_operation_generation(p))
    BY <1>3, <1>6, <2>3
  <2>5. ~ next_operation_generation(p) > MaxGeneration
    BY <1>5, <1>6, <2>2, BoundsAssumption DEF next_operation_generation
  <2>6. cp.step = "Authorized" /\ p.physical # "Retired"
    BY <1>4, <2>1, <2>2
  <2> HIDE DEF cp
  <2> QED BY <1>6, <2>1, <2>2, <2>4, <2>5, <2>6 DEF apply_checkpoint
<1>7. ASSUME p.operation # None, NEW step \in {"PrestartFailed", "Started", "RecoveryRequired"}
      PROVE  LET cp == [kind |-> p.operation.kind, step |-> step]
             IN /\ cp \in Checkpoints /\ cp.kind = p.operation.kind /\ cp.step = step
                /\ p.physical # "Retired" /\ p.physical = HomeOf[cp.kind]
  <2>1. p.operation.kind \in Kinds /\ p.physical = HomeOf[p.operation.kind]
    BY <1>5, <1>7 DEF Operations, validate_record
  <2> QED BY <1>4, <2>1 DEF Checkpoints
<1>8. CASE /\ p.operation # None /\ p.operation.phase = "Authorized" /\ r.operation = None
           /\ r.last = p.last
  <2> DEFINE cp == [kind |-> p.operation.kind, step |-> "PrestartFailed"]
  <2>1. /\ cp \in Checkpoints /\ cp.kind = p.operation.kind /\ cp.step = "PrestartFailed"
        /\ p.physical # "Retired" /\ p.physical = HomeOf[cp.kind]
    BY <1>7, <1>8
  <2> HIDE DEF cp
  <2>2. r \in Advanced(p, None, p.last) /\ InPhase(p, cp.kind, "Authorized")
    BY <1>3, <1>8, <2>1 DEF InPhase
  <2> QED BY <2>1, <2>2 DEF apply_checkpoint
<1>9. CASE /\ p.operation # None /\ r.operation = [p.operation EXCEPT !.phase = "Started"]
           /\ p.operation.phase = "Authorized" /\ r.last = p.last
  <2> DEFINE cp == [kind |-> p.operation.kind, step |-> "Started"]
  <2>1. /\ cp \in Checkpoints /\ cp.kind = p.operation.kind /\ cp.step = "Started"
        /\ p.physical # "Retired" /\ p.physical = HomeOf[cp.kind]
    BY <1>7, <1>9
  <2> HIDE DEF cp
  <2>2. /\ r \in Advanced(p, [p.operation EXCEPT !.phase = "Started"], p.last)
        /\ InPhase(p, cp.kind, "Authorized")
    BY <1>3, <1>9, <2>1 DEF InPhase
  <2> QED BY <2>1, <2>2 DEF apply_checkpoint
<1>10. CASE /\ p.operation # None
            /\ r.operation = [p.operation EXCEPT !.phase = "RecoveryRequired"]
            /\ p.operation.phase = "Started" /\ r.last = p.last
  <2> DEFINE cp == [kind |-> p.operation.kind, step |-> "RecoveryRequired"]
  <2>1. /\ cp \in Checkpoints /\ cp.kind = p.operation.kind /\ cp.step = "RecoveryRequired"
        /\ p.physical # "Retired" /\ p.physical = HomeOf[cp.kind]
    BY <1>7, <1>10
  <2> HIDE DEF cp
  <2>2. /\ r \in Advanced(p, [p.operation EXCEPT !.phase = "RecoveryRequired"], p.last)
        /\ InPhase(p, cp.kind, "Started")
    BY <1>3, <1>10, <2>1 DEF InPhase
  <2> QED BY <2>1, <2>2 DEF apply_checkpoint
<1> QED BY <1>6, <1>8, <1>9, <1>10 DEF valid_operation_successor

\* A document that the test accepts is what some call makes of the current one.
LEMMA PassingIsSuccessor ==
  ASSUME NEW c \in Catalogs, NEW n \in Catalogs, validate_successor_of(n, c)
  PROVE  n \in Successors(c)
<1>1. validate(c) /\ validate(n) /\ n.revision = c.revision + 1
  BY DEF validate_successor_of
<1>2. CASE is_exact_acceptance_successor(c, n)
  BY <1>1, <1>2, PassingAcceptance
<1>3. CASE ~ is_exact_acceptance_successor(c, n)
  <2>1. n.requests = c.requests /\ n.maxima = c.maxima /\ n.locators = c.locators
    BY <1>3 DEF validate_successor_of
  <2>2. PICK r \in n.entries \ c.entries, p \in c.entries \ n.entries :
          /\ n.entries = (c.entries \ {p}) \cup {r}
          /\ [r EXCEPT !.revision = p.revision, !.operation = p.operation,
                       !.last = p.last] = p
          /\ r.revision = p.revision + 1
          /\ valid_operation_successor(p, r)
    BY <1>3 DEF validate_successor_of
  <2>3. p \in Records /\ r \in Records /\ validate_record(p) /\ validate_record(r)
    BY <1>1, <2>2, CatalogParts DEF validate
  <2>4. PICK cp \in Checkpoints : r \in apply_checkpoint(p, cp)
    BY <2>2, <2>3, PassingCheckpoint
  <2>5. n = [c EXCEPT !.entries = (@ \ {p}) \cup {r}, !.revision = @ + 1]
    <3>1. [c EXCEPT !.entries = (@ \ {p}) \cup {r}, !.revision = @ + 1] =
            [revision |-> c.revision + 1, requests |-> c.requests, maxima |-> c.maxima,
             locators |-> c.locators, entries |-> (c.entries \ {p}) \cup {r}]
      <4> DEFINE f == (c.entries \ {p}) \cup {r}
                 x == [c EXCEPT !.entries = f]
                 y == [x EXCEPT !.revision = c.revision + 1]
      <4>1. /\ x = [revision |-> c.revision, requests |-> c.requests, maxima |-> c.maxima,
                    locators |-> c.locators, entries |-> f]
            /\ y = [c EXCEPT !.entries = (@ \ {p}) \cup {r}, !.revision = @ + 1]
        BY DEF Catalogs
      <4> HIDE DEF f, x
      <4>2. y = [revision |-> c.revision + 1, requests |-> c.requests, maxima |-> c.maxima,
                 locators |-> c.locators, entries |-> f]
        BY <4>1
      <4> QED BY <4>1, <4>2 DEF f
    <3>2. n = [revision |-> n.revision, requests |-> n.requests, maxima |-> n.maxima,
               locators |-> n.locators, entries |-> n.entries]
      BY CatalogIsItsFields
    <3> QED BY <1>1, <2>1, <2>2, <3>1, <3>2, Zenon
  <2>6. n.revision <= MaxRevision
    <3>1. n.revision \in Revisions
      BY CatalogParts
    <3> QED BY <3>1 DEF Revisions
  <2> DEFINE Calls(q) == {m \in {[c EXCEPT !.entries = (@ \ {q}) \cup {s}, !.revision = @ + 1] :
                                   s \in apply_checkpoint(q, cp)} :
                             m.revision <= MaxRevision /\ validate_successor_of(m, c)}
  <2>7. checkpoint(c, key(p), p.revision, cp) =
          UNION {Calls(q) : q \in {q \in find(c, key(p)) : q.revision = p.revision}}
    BY DEF checkpoint
  <2>8. n \in Calls(p) /\ p \in find(c, key(p))
    BY <2>2, <2>4, <2>5, <2>6 DEF find
  <2> HIDE DEF Calls
  <2>9. n \in checkpoint(c, key(p), p.revision, cp)
    BY <2>7, <2>8
  <2> QED BY <2>2, <2>9 DEF Successors
<1> QED BY <1>2, <1>3

\* A change of one record leaves a document a document.
LEMMA VariantIsCatalog ==
  ASSUME NEW c \in Catalogs, NEW n \in Variants(c)
  PROVE  n \in Catalogs
<1>1. PICK r \in c.entries :
        \E v \in {[r EXCEPT !.physical = "StoppedBound"]}
                 \cup (IF r.operation = None THEN {[r EXCEPT !.last = @ + 1]}
                       ELSE {[r EXCEPT !.last = @ + 1, !.operation.generation = @ + 1]}
                            \cup {[r EXCEPT !.operation.phase = phase] :
                                    phase \in {"Started", "RecoveryRequired"}}) :
          n = [c EXCEPT !.entries = (@ \ {r}) \cup {v}]
  BY DEF Variants
<1>2. PICK v \in {[r EXCEPT !.physical = "StoppedBound"]}
                 \cup (IF r.operation = None THEN {[r EXCEPT !.last = @ + 1]}
                       ELSE {[r EXCEPT !.last = @ + 1, !.operation.generation = @ + 1]}
                            \cup {[r EXCEPT !.operation.phase = phase] :
                                    phase \in {"Started", "RecoveryRequired"}}) :
        n = [c EXCEPT !.entries = (@ \ {r}) \cup {v}]
  BY <1>1
<1>3. r \in Records /\ c.entries \subseteq Records /\ IsFiniteSet(c.entries)
  BY CatalogParts
<1>4. v \in Records
  <2>1. CASE v = [r EXCEPT !.physical = "StoppedBound"]
    BY <1>3, <2>1 DEF Records, Physical
  <2>2. CASE r.operation = None /\ v = [r EXCEPT !.last = @ + 1]
    BY <1>3, <2>2 DEF Records
  <2>3. CASE r.operation # None
    <3>1. r.operation \in Operations
      BY <1>3, <2>3 DEF Records
    <3>2. CASE v = [r EXCEPT !.last = @ + 1, !.operation.generation = @ + 1]
      <4>1. [r.operation EXCEPT !.generation = @ + 1] \in Operations
        BY <3>1 DEF Operations
      <4>2. v = [r EXCEPT !.last = @ + 1, !.operation = [r.operation EXCEPT !.generation = @ + 1]]
        BY <1>3, <3>2 DEF Records
      <4>3. [r EXCEPT !.last = @ + 1] \in Records
        BY <1>3 DEF Records
      <4> QED BY <4>1, <4>2, <4>3 DEF Records
    <3>3. ASSUME NEW phase \in {"Started", "RecoveryRequired"},
                 v = [r EXCEPT !.operation.phase = phase]
          PROVE  v \in Records
      <4>1. [r.operation EXCEPT !.phase = phase] \in Operations
        BY <3>1 DEF Operations
      <4>2. v = [r EXCEPT !.operation = [r.operation EXCEPT !.phase = phase]]
        BY <1>3, <3>3 DEF Records
      <4> QED BY <1>3, <4>1, <4>2 DEF Records
    <3> QED BY <1>2, <2>1, <2>3, <3>2, <3>3
  <2> QED BY <1>2, <2>1, <2>2, <2>3
<1>5. (c.entries \ {r}) \cup {v} \in Vectors(Records)
  <2>1. IsFiniteSet((c.entries \ {r}) \cup {v})
    BY <1>3, FS_RemoveElement, FS_AddElement
  <2> QED BY <1>3, <1>4, <2>1 DEF Vectors
<1> QED BY <1>2, <1>5 DEF Catalogs

\* validate_successor_of accepts what one call of the catalog makes of the
\* current document, and of the documents near it nothing else: not two calls
\* in a row, none, or a call and a change of one record.
THEOREM SuccessorTestIsExactAlways == Spec => []SuccessorTestIsExact
<1>1. IInv => SuccessorTestIsExact
  <2> SUFFICES ASSUME IInv, Decodes(CurrentDocument) PROVE SuccessorTestIsExact
    BY DEF SuccessorTestIsExact
  <2> DEFINE once == Successors(CurrentDocument)
             twice == UNION {Successors(c) : c \in once}
  <2>1. CurrentDocument \in Catalogs
    BY CurrentIsCatalog DEF Decodes
  <2> HIDE DEF CurrentDocument
  <2>2. \A c \in once : validate_successor_of(c, CurrentDocument)
    BY <2>1, SuccessorPasses
  <2>3. \A c \in once : c \in Catalogs /\ c.revision = CurrentDocument.revision + 1
    BY <2>1, SuccessorIsCatalog
  <2>4. \A c \in twice : c \in Catalogs /\ c.revision = CurrentDocument.revision + 2
    <3>1. CurrentDocument.revision \in Nat
      BY <2>1, CatalogParts
    <3>2. ASSUME NEW b \in once, NEW c \in Successors(b)
          PROVE  c \in Catalogs /\ c.revision = CurrentDocument.revision + 2
      <4>1. b \in Catalogs /\ b.revision = CurrentDocument.revision + 1
        BY <2>3
      <4>2. c \in Catalogs /\ c.revision = b.revision + 1
        BY <4>1, SuccessorIsCatalog
      <4> QED BY <3>1, <4>1, <4>2
    <3> HIDE DEF once
    <3> QED BY <3>2
  <2>5. ASSUME NEW d \in twice PROVE [d EXCEPT !.revision = @ - 1] \in Catalogs
    <3>1. d \in Catalogs /\ d.revision = CurrentDocument.revision + 2
      BY <2>4
    <3>2. CurrentDocument.revision \in Nat /\ d.revision \in Revisions
      BY <2>1, <3>1, CatalogParts
    <3>3. d.revision - 1 \in Revisions
      BY <3>1, <3>2, BoundsAssumption DEF Revisions
    <3> QED BY <3>1, <3>3 DEF Catalogs
  <2>6. \A d \in once : Variants(d) \subseteq Catalogs
    BY <2>3, VariantIsCatalog
  <2> HIDE DEF once, twice
  <2>7. \A c \in twice \cup {[d EXCEPT !.revision = @ - 1] : d \in twice}
               \cup (UNION {Variants(d) : d \in once}) \cup {CurrentDocument} : c \in Catalogs
    BY <2>1, <2>4, <2>5, <2>6
  <2>8. \A c \in Catalogs : validate_successor_of(c, CurrentDocument) => c \in once
    BY <2>1, PassingIsSuccessor DEF once
  <2> QED BY <2>2, <2>7, <2>8 DEF SuccessorTestIsExact, once, twice
<1> QED BY <1>1, StoreInvariant, PTL

=============================================================================
