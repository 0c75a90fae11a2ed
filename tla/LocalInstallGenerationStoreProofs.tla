------------------- MODULE LocalInstallGenerationStoreProofs -------------------
(***************************************************************************)
(* The store recovers from every stop, its launcher is backed and it       *)
(* implements the history of its installations, for every set of builds    *)
(* and operations and every number of generations.                         *)
(* A writer follows a script of file operations, so the inductive          *)
(* invariant says, for each place in each script, what the store holds     *)
(* there.  Five shapes suffice: nothing under way, a stage being written,  *)
(* a placed generation, one being retired, a marker to be cleared.  A stop *)
(* or a power loss leaves a store of one of them, and recover_locked takes *)
(* up a script at the place its shape belongs to.                          *)
(* All of this holds until a recovery takes over files that nobody synced: *)
(* recover_locked syncs directories only, and a power loss may tear what   *)
(* it accepted.  The theorems say so (~ adopted), and the expected         *)
(* violation of EveryStopRecovers shows that they have to.                 *)
(***************************************************************************)
EXTENDS LocalInstallGenerationStore, SequenceTheorems, FiniteSetTheorems, TLAPS

-----------------------------------------------------------------------------
(***************************************************************************)
(* The shapes of a store.  A generation directory is whole when both of    *)
(* its files are synced; the current document refers to one or two whole   *)
(* ones, and at most one directory stands beside them.                     *)
(***************************************************************************)
File(document, status) == [document |-> document, status |-> status]
Directory(at, request, binary, document) ==
  [at |-> at, of |-> request, binary |-> binary, document |-> document]
Whole(request) == Directory("generations", request, "synced", "synced")

\* The current document, and the whole directories refs it refers to.
Backed(n, refs) ==
  LET c == CurrentOf(n) IN
  \/ n.current = None /\ refs = {}
  \/ \E a \in Requests :
       /\ n.current = File(c, "synced") /\ c \in Documents
       /\ c.accepted = a.generation /\ c.operation = a.operation
       /\ c.retained = predecessor(a.generation)
       /\ \/ c.retained = NoGeneration /\ c.retiring = NoGeneration /\ refs = {Whole(a)}
          \/ \E b \in Requests :
               /\ b.generation = c.retained /\ b.operation # a.operation
               /\ refs = {Whole(a), Whole(b)}
               /\ c.retiring \in {NoGeneration, predecessor(b.generation)}

\* A launcher names the accepted or the retained generation, or one that two
\* newer ones superseded.
Launched(n) ==
  LET c == CurrentOf(n) IN
  n.launcher # None =>
    /\ n.launcher \in Generations
    /\ n.launcher \in {c.accepted, c.retained} \/ Len(c.accepted) >= Len(n.launcher) + 2

\* Beside the directories of the current document, xs.
Holds(n, refs, xs) ==
  /\ n = [current |-> n.current, next |-> n.next, directories |-> refs \cup xs,
          launcher |-> n.launcher]
  /\ Backed(n, refs) /\ Launched(n)

Marked(n) == CurrentOf(n).retiring # NoGeneration

\* Nothing is under way.
Settles(n, refs) == Holds(n, refs, {}) /\ n.next = None /\ ~ Marked(n)

\* r may be published over the current document.
Follows(n, refs, r) ==
  /\ r \in Requests /\ ~ Marked(n) /\ predecessor(r.generation) = CurrentOf(n).accepted
  /\ CurrentOf(n).operation # r.operation
  /\ \A d \in refs : d.of.operation # r.operation

Statuses == {"absent", "torn", "written", "synced"}

\* The stage of r, its files written as far as they are.
Stages(n, refs, r, binary, document) ==
  /\ Holds(n, refs, {Directory("staged", r, binary, document)})
  /\ n.next = None /\ Follows(n, refs, r)

\* The directory of r is among the generations, and the next document, if
\* there is one, makes it current.
Places(n, refs, r) ==
  /\ Holds(n, refs, {Whole(r)}) /\ Follows(n, refs, r)
  /\ \/ n.next = None
     \/ \E s \in {"torn", "written", "synced"} :
          n.next = File(current_successor_wire(CurrentOf(n), r), s)

\* The directory of the generation the current document gave up: still among
\* the generations, or moved and emptied so far.
Retires(n, refs, t, d) ==
  /\ Holds(n, refs, {d}) /\ n.next = None
  /\ t \in Requests /\ t.generation = CurrentOf(n).retiring
  /\ \A e \in refs : e.of.generation = CurrentOf(n).retained => e.of.operation # t.operation

Emptied(t) ==
  {Directory("retiring", t, "synced", "synced"), Directory("retiring", t, "absent", "synced"),
   Directory("retiring", t, "absent", "absent")}

Unmarked(n) == [CurrentOf(n) EXCEPT !.retiring = NoGeneration]

\* Only the marker is left, and the next document, if there is one, clears it.
Clears(n, refs) ==
  /\ Holds(n, refs, {}) /\ Marked(n)
  /\ \/ n.next = None
     \/ \E s \in {"torn", "written", "synced"} : n.next = File(Unmarked(n), s)

\* What a process or a power loss may leave.
Legal(n) ==
  \E refs \in SUBSET n.directories :
    \/ Settles(n, refs)
    \/ \E r \in Requests :
         \/ \E b, o \in Statuses : Stages(n, refs, r, b, o)
         \/ Places(n, refs, r)
         \/ \E d \in {Whole(r)} \cup Emptied(r) : Retires(n, refs, r, d)
    \/ Clears(n, refs)

-----------------------------------------------------------------------------
(***************************************************************************)
(* What is left of a script, and the store it finds.                       *)
(***************************************************************************)
\* The publication of r, whose document is w, from each of its steps on.
Publish1(r, w) ==
  <<Make(r), Write(r, "binary"), SyncFile(r, "binary"), Write(r, "document"),
    SyncFile(r, "document"), Sync, Move(r, "staged", "generations"), Sync,
    WriteNext(w), SyncNext, Sync, Switch, Sync, Cleanup>>
Publish2(r, w) ==
  <<Write(r, "binary"), SyncFile(r, "binary"), Write(r, "document"),
    SyncFile(r, "document"), Sync, Move(r, "staged", "generations"), Sync,
    WriteNext(w), SyncNext, Sync, Switch, Sync, Cleanup>>
Publish3(r, w) ==
  <<SyncFile(r, "binary"), Write(r, "document"), SyncFile(r, "document"), Sync,
    Move(r, "staged", "generations"), Sync, WriteNext(w), SyncNext, Sync, Switch,
    Sync, Cleanup>>
Publish4(r, w) ==
  <<Write(r, "document"), SyncFile(r, "document"), Sync,
    Move(r, "staged", "generations"), Sync, WriteNext(w), SyncNext, Sync, Switch,
    Sync, Cleanup>>
Publish5(r, w) ==
  <<SyncFile(r, "document"), Sync, Move(r, "staged", "generations"), Sync,
    WriteNext(w), SyncNext, Sync, Switch, Sync, Cleanup>>
Publish6(r, w) ==
  <<Sync, Move(r, "staged", "generations"), Sync, WriteNext(w), SyncNext, Sync,
    Switch, Sync, Cleanup>>
Publish7(r, w) ==
  <<Move(r, "staged", "generations"), Sync, WriteNext(w), SyncNext, Sync, Switch,
    Sync, Cleanup>>
Publish8(w) == <<Sync, WriteNext(w), SyncNext, Sync, Switch, Sync, Cleanup>>
Publish9(w) == <<WriteNext(w), SyncNext, Sync, Switch, Sync, Cleanup>>
Publish10 == <<SyncNext, Sync, Switch, Sync, Cleanup>>
Publish11 == <<Sync, Switch, Sync, Cleanup>>
Publish12 == <<Switch, Sync, Cleanup>>
Publish13 == <<Sync, Cleanup>>
Publish14 == <<Cleanup>>

\* The removal of the marker, whose document is w.
Clear1(w) == <<WriteNext(w), SyncNext, Sync, Switch, Sync>>
Clear2 == <<SyncNext, Sync, Switch, Sync>>
Clear3 == <<Sync, Switch, Sync>>
Clear4 == <<Switch, Sync>>
Clear5 == <<Sync>>

\* The retirement of t: its directory is moved, then emptied and removed.
Retire1(t) ==
  <<Move(t, "generations", "retiring"), Sync, Sync, FinishRetirement, ClearMarker>>
Retire2 == <<Sync, Sync, FinishRetirement, ClearMarker>>
Retire3 == <<Sync, FinishRetirement, ClearMarker>>
Retire4 == <<FinishRetirement, ClearMarker>>
Retire5 == <<ClearMarker>>
Empty1(t) ==
  <<Unlink(t, "retiring", "binary"), Sync, Unlink(t, "retiring", "document"),
    Sync, RemoveDirectory(t, "retiring"), Sync, ClearMarker>>
Empty2(t) ==
  <<Sync, Unlink(t, "retiring", "document"), Sync, RemoveDirectory(t, "retiring"),
    Sync, ClearMarker>>
Empty3(t) ==
  <<Unlink(t, "retiring", "document"), Sync, RemoveDirectory(t, "retiring"), Sync,
    ClearMarker>>
Empty4(t) == <<Sync, RemoveDirectory(t, "retiring"), Sync, ClearMarker>>
Empty5(t) == <<RemoveDirectory(t, "retiring"), Sync, ClearMarker>>
Empty6 == <<Sync, ClearMarker>>

\* The stage of r is made, filled and moved.
Staging(n, refs, todo) ==
  \E r \in Requests :
    LET w == current_successor_wire(CurrentOf(n), r) IN
    \/ Settles(n, refs) /\ Follows(n, refs, r) /\ todo = Publish1(r, w)
    \/ Stages(n, refs, r, "absent", "absent") /\ todo = Publish2(r, w)
    \/ Stages(n, refs, r, "written", "absent") /\ todo = Publish3(r, w)
    \/ Stages(n, refs, r, "synced", "absent") /\ todo = Publish4(r, w)
    \/ Stages(n, refs, r, "synced", "written") /\ todo = Publish5(r, w)
    \/ Stages(n, refs, r, "synced", "synced") /\ todo \in {Publish6(r, w), Publish7(r, w)}

\* The next document is written and becomes the current one.
Switching(n, refs, todo) ==
  \/ \E r \in Requests :
       LET w == current_successor_wire(CurrentOf(n), r) IN
       /\ Places(n, refs, r)
       /\ \/ n.next = None /\ todo \in {Publish8(w), Publish9(w)}
          \/ n.next = File(w, "written") /\ todo = Publish10
          \/ n.next = File(w, "synced") /\ todo \in {Publish11, Publish12}
  \/ Clears(n, refs) /\ n.next = File(Unmarked(n), "synced") /\ todo = Publish12
  \/ todo \in {Publish13, Publish14} /\
     (Settles(n, refs) \/ \E t \in Requests : Retires(n, refs, t, Whole(t)))

\* The superseded generation is removed.
Retiring(n, refs, todo) ==
  \E t \in Requests :
    \/ Retires(n, refs, t, Whole(t)) /\ todo = Retire1(t)
    \/ /\ Retires(n, refs, t, Directory("retiring", t, "synced", "synced"))
       /\ todo \in {Retire2, Retire3, Retire4, Empty1(t)}
    \/ /\ Retires(n, refs, t, Directory("retiring", t, "absent", "synced"))
       /\ todo \in {Retire4, Empty2(t), Empty3(t)}
    \/ /\ Retires(n, refs, t, Directory("retiring", t, "absent", "absent"))
       /\ todo \in {Retire4, Empty4(t), Empty5(t)}

\* The marker is removed.
Clearing(n, refs, todo) ==
  \/ /\ Clears(n, refs)
     /\ \/ n.next = None /\ todo \in {Empty6, Retire5, Clear1(Unmarked(n))}
        \/ n.next = File(Unmarked(n), "written") /\ todo = Clear2
        \/ n.next = File(Unmarked(n), "synced") /\ todo \in {Clear3, Clear4}
  \/ Settles(n, refs) /\ todo = Clear5

Runs(n, todo) ==
  \E refs \in SUBSET n.directories :
    \/ Settles(n, refs) /\ todo = <<>>
    \/ Staging(n, refs, todo) \/ Switching(n, refs, todo)
    \/ Retiring(n, refs, todo) \/ Clearing(n, refs, todo)

-----------------------------------------------------------------------------
(***************************************************************************)
(* The inductive invariant.                                                *)
(***************************************************************************)
WriterRuns ==
  writer # None =>
    /\ writer = [request |-> writer.request, phase |-> writer.phase, todo |-> writer.todo]
    /\ reader = None
    /\ writer.request # None => writer.request \in Requests
    /\ Runs(names, writer.todo)

ReaderReads ==
  reader # None => reader \in Generations \cap LauncherTargets(names)

IInv ==
  /\ names \in images /\ \A n \in images : Legal(n)
  /\ WriterRuns /\ ReaderReads
-----------------------------------------------------------------------------
(***************************************************************************)
(* Generations and the directories of a store.                             *)
(***************************************************************************)
LEMMA PartLength ==
  ASSUME NEW S, NEW s, NEW l \in Int, NEW k \in Int, \A i \in l .. k : s[i] \in S
  PROVE  Len(SubSeq(s, l, k)) = IF l <= k THEN k - l + 1 ELSE 0
BY SubSeqProperties, Zenon

\* The first k elements of a sequence are k elements.
LEMMA FirstPart ==
  ASSUME NEW S, NEW s, NEW k \in Nat, \A i \in 1 .. k : s[i] \in S
  PROVE  Len(SubSeq(s, 1, k)) = k
<1> DEFINE m == Len(SubSeq(s, 1, k))
<1>1. m = IF 1 <= k THEN k - 1 + 1 ELSE 0
  BY PartLength
<1> HIDE DEF m
<1>2. m = k
  BY <1>1
<1> QED BY <1>2 DEF m

\* A generation is a nonempty sequence of builds, one longer than its
\* predecessor.
LEMMA GenerationFacts ==
  ASSUME NEW g \in Generations
  PROVE  /\ g \in Seq(Builds) /\ Len(g) \in Nat /\ Len(g) > 0 /\ g # NoGeneration
         /\ predecessor(g) \in Seq(Builds) /\ Len(predecessor(g)) = Len(g) - 1
<1>1. g \in Seq(Builds) /\ g # <<>> /\ Len(g) \in Nat /\ Len(g) > 0
  BY GenerationsAssumption, EmptySeq, LenProperties
<1>2. \A i \in 1 .. Len(g) - 1 : g[i] \in Builds
  BY <1>1, ElementOfSeq
<1>3. Len(g) - 1 \in Nat
  BY <1>1
<1>4. SubSeq(g, 1, Len(g) - 1) \in Seq(Builds)
  BY <1>1
<1>5. Len(SubSeq(g, 1, Len(g) - 1)) = Len(g) - 1
  BY <1>2, <1>3, FirstPart
<1> QED BY <1>1, <1>4, <1>5 DEF predecessor, Front, NoGeneration

\* The absent generation is the empty sequence.
LEMMA NoneLength == Len(NoGeneration) = 0 /\ NoGeneration \in Seq(Builds)
BY DEF NoGeneration

\* What a request is made of.
LEMMA RequestFacts ==
  ASSUME NEW r \in Requests
  PROVE  /\ r.generation \in Generations /\ r.operation \in Operations
         /\ r = [operation |-> r.operation, generation |-> r.generation]
BY DEF Requests

\* What a whole directory is made of.
LEMMA WholeFacts ==
  ASSUME NEW r
  PROVE  /\ Whole(r).at = "generations" /\ Whole(r).of = r
         /\ Whole(r).binary = "synced" /\ Whole(r).document = "synced" /\ Complete(Whole(r))
BY DEF Whole, Directory, Complete, Readable

\* What a directory is made of, and when it is complete.
LEMMA DirectoryFacts ==
  ASSUME NEW at, NEW r, NEW b, NEW o
  PROVE  /\ Directory(at, r, b, o).at = at /\ Directory(at, r, b, o).of = r
         /\ Directory(at, r, b, o).binary = b /\ Directory(at, r, b, o).document = o
         /\ Complete(Directory(at, r, b, o)) <=> Readable(b) /\ Readable(o)
BY DEF Directory, Complete

\* What a document file is made of.
LEMMA FileFacts ==
  ASSUME NEW c \in Documents, NEW s \in {"torn", "written", "synced"}
  PROVE  /\ File(c, s) # None /\ File(c, s).document = c /\ File(c, s).status = s
         /\ c.accepted \in Generations /\ c.operation \in Operations
         /\ c.retained \in Generations \cup {NoGeneration}
         /\ c.retiring \in Generations \cup {NoGeneration}
BY DocumentsAssumption DEF File, Documents

\* A document loads where its generations stand whole and linked.
LEMMA Loads ==
  ASSUME NEW n, NEW c, NEW s, Readable(s),
         NEW a, Whole(a) \in n.directories,
         c.accepted = a.generation, c.operation = a.operation,
         c.retained = predecessor(a.generation),
         \/ c.retained = NoGeneration /\ c.retiring = NoGeneration
         \/ \E b : /\ Whole(b) \in n.directories /\ b.generation = c.retained
                   /\ b.operation # a.operation /\ c.retained # NoGeneration
                   /\ c.retiring # NoGeneration => predecessor(b.generation) = c.retiring
  PROVE  load_current_from_bytes(n, File(c, s))
<1> DEFINE f == File(c, s)
<1>1. f.document = c /\ f.status = s
  BY DEF File
<1>2. ASSUME NEW b, Whole(b) \in n.directories PROVE Whole(b) \in load_generation(n, b.generation)
  BY <1>2, WholeFacts DEF load_generation, Directories
<1>3. \E x \in load_generation(n, c.accepted) :
        x.of.operation = c.operation /\ predecessor(x.of.generation) = c.retained
  BY <1>2, WholeFacts
<1>4. c.retained # NoGeneration => \E x \in load_generation(n, c.retained) :
        x.of.operation # c.operation /\
        (c.retiring # NoGeneration => predecessor(x.of.generation) = c.retiring)
  BY <1>2, WholeFacts
<1> HIDE DEF f
<1>5. load_current_from_bytes(n, f)
  BY <1>1, <1>3, <1>4 DEF load_current_from_bytes
<1> QED BY <1>5 DEF f

\* What the current document refers to.
LEMMA BackedFacts ==
  ASSUME NEW n, NEW refs, Backed(n, refs)
  PROVE  LET c == CurrentOf(n) IN
         /\ \A d \in refs : d = Whole(d.of) /\ d.of \in Requests
                            /\ d.of.generation \in {c.accepted, c.retained}
         /\ \A d, e \in refs : d.of.generation = e.of.generation => d = e
         /\ \/ n.current = None /\ c = Empty /\ refs = {}
            \/ /\ n.current # None /\ c \in Documents /\ n.current = File(c, "synced")
               /\ c.retained = predecessor(c.accepted)
               /\ c.retiring # NoGeneration =>
                    c.retained \in Generations /\ c.retiring = predecessor(c.retained)
<1> DEFINE c == CurrentOf(n)
<1>1. CASE n.current = None /\ refs = {}
  BY <1>1 DEF CurrentOf
<1>2. CASE ~ (n.current = None /\ refs = {})
  <2>1. PICK a \in Requests :
          /\ n.current = File(c, "synced") /\ c \in Documents
          /\ c.accepted = a.generation /\ c.operation = a.operation
          /\ c.retained = predecessor(a.generation)
          /\ \/ c.retained = NoGeneration /\ c.retiring = NoGeneration /\ refs = {Whole(a)}
             \/ \E b \in Requests :
                  /\ b.generation = c.retained /\ b.operation # a.operation
                  /\ refs = {Whole(a), Whole(b)}
                  /\ c.retiring \in {NoGeneration, predecessor(b.generation)}
    BY <1>2 DEF Backed
  <2>2. n.current # None
    BY <2>1, FileFacts
  <2>3. CASE c.retained = NoGeneration /\ c.retiring = NoGeneration /\ refs = {Whole(a)}
    BY <2>1, <2>2, <2>3, WholeFacts
  <2>4. CASE \E b \in Requests :
               /\ b.generation = c.retained /\ b.operation # a.operation
               /\ refs = {Whole(a), Whole(b)}
               /\ c.retiring \in {NoGeneration, predecessor(b.generation)}
    <3>1. PICK b \in Requests :
            /\ b.generation = c.retained /\ b.operation # a.operation
            /\ refs = {Whole(a), Whole(b)}
            /\ c.retiring \in {NoGeneration, predecessor(b.generation)}
      BY <2>4
    <3>2. a.generation # b.generation
      BY <2>1, <3>1, GenerationFacts, RequestFacts
    <3>3. b.generation \in Generations
      BY RequestFacts
    <3>4. /\ Whole(a).of = a /\ Whole(b).of = b
      BY WholeFacts
    <3> QED BY <2>1, <2>2, <3>1, <3>2, <3>3, <3>4
  <2> QED BY <2>1, <2>3, <2>4
<1> QED BY <1>1, <1>2

\* The current document loads.
LEMMA BackedLoads ==
  ASSUME NEW n, NEW refs, Backed(n, refs), refs \subseteq n.directories
  PROVE  /\ CurrentLoads(n)
         /\ CurrentOf(n).accepted # NoGeneration =>
              \E d \in refs : d.of.generation = CurrentOf(n).accepted /\
                              d.of.operation = CurrentOf(n).operation
         /\ CurrentOf(n).retained # NoGeneration =>
              \E d \in refs : d.of.generation = CurrentOf(n).retained
         /\ \A d \in refs : d.of.generation = CurrentOf(n).retained =>
                              d.of.operation # CurrentOf(n).operation
<1> DEFINE c == CurrentOf(n)
<1>1. CASE n.current = None /\ refs = {}
  BY <1>1 DEF CurrentLoads, CurrentOf, Empty
<1>2. CASE ~ (n.current = None /\ refs = {})
  <2>1. PICK a \in Requests :
          /\ n.current = File(c, "synced") /\ c \in Documents
          /\ c.accepted = a.generation /\ c.operation = a.operation
          /\ c.retained = predecessor(a.generation)
          /\ \/ c.retained = NoGeneration /\ c.retiring = NoGeneration /\ refs = {Whole(a)}
             \/ \E b \in Requests :
                  /\ b.generation = c.retained /\ b.operation # a.operation
                  /\ refs = {Whole(a), Whole(b)}
                  /\ c.retiring \in {NoGeneration, predecessor(b.generation)}
    BY <1>2 DEF Backed
  <2>2. n.current # None
    BY <2>1, FileFacts
  <2>3. Whole(a) \in n.directories /\ Whole(a) \in refs /\ Whole(a).of = a /\ Readable("synced")
    BY <2>1, WholeFacts DEF Readable
  <2>4. CASE c.retained = NoGeneration /\ c.retiring = NoGeneration /\ refs = {Whole(a)}
    <3>1. load_current_from_bytes(n, File(c, "synced"))
      BY <2>1, <2>3, <2>4, Loads
    <3>2. a.generation # c.retained
      BY <2>4, GenerationFacts, RequestFacts
    <3> QED BY <2>1, <2>3, <2>4, <3>1, <3>2 DEF CurrentLoads
  <2>5. CASE \E b \in Requests :
               /\ b.generation = c.retained /\ b.operation # a.operation
               /\ refs = {Whole(a), Whole(b)}
               /\ c.retiring \in {NoGeneration, predecessor(b.generation)}
    <3>1. PICK b \in Requests :
            /\ b.generation = c.retained /\ b.operation # a.operation
            /\ refs = {Whole(a), Whole(b)}
            /\ c.retiring \in {NoGeneration, predecessor(b.generation)}
      BY <2>5
    <3>2. a.generation # b.generation /\ b.generation # NoGeneration
      BY <2>1, <3>1, GenerationFacts, RequestFacts
    <3>3. Whole(b) \in n.directories /\ Whole(b).of = b
      BY <3>1, WholeFacts
    <3>4. load_current_from_bytes(n, File(c, "synced"))
      <4>1. \E x : /\ Whole(x) \in n.directories /\ x.generation = c.retained
                   /\ x.operation # a.operation /\ c.retained # NoGeneration
                   /\ c.retiring # NoGeneration => predecessor(x.generation) = c.retiring
        BY <3>1, <3>2, <3>3
      <4> QED BY <2>1, <2>3, <4>1, Loads
    <3> QED BY <2>1, <2>3, <3>1, <3>2, <3>3, <3>4 DEF CurrentLoads
  <2> QED BY <2>1, <2>4, <2>5
<1> QED BY <1>1, <1>2

-----------------------------------------------------------------------------
(***************************************************************************)
(* Scripts.                                                                *)
(***************************************************************************)
LEMMA Join ==
  ASSUME NEW S, NEW s \in Seq(S), NEW t \in Seq(S), NEW u \in Seq(S),
         Len(u) = Len(s) + Len(t), \A i \in 1 .. Len(s) : u[i] = s[i],
         \A i \in 1 .. Len(t) : u[Len(s) + i] = t[i]
  PROVE  s \o t = u
<1>1. Len(s \o t) = Len(u) /\ s \o t \in Seq(S) /\ Len(s) \in Nat /\ Len(t) \in Nat
  BY ConcatProperties, LenProperties
<1>2. ASSUME NEW i \in 1 .. Len(u) PROVE (s \o t)[i] = u[i]
  <2>1. CASE i <= Len(s)
    BY <1>1, <2>1, ConcatProperties
  <2>2. CASE i > Len(s)
    <3>1. i - Len(s) \in 1 .. Len(t) /\ i = Len(s) + (i - Len(s))
      BY <1>1, <2>2
    <3> QED BY <1>1, <2>2, <3>1, ConcatProperties
  <2> QED BY <1>1, <2>1, <2>2
<1> QED BY <1>1, <1>2, SeqEqual

\* The lengths the scripts are joined from.
LEMMA Join1_5 ==
  ASSUME NEW a1, NEW b1, NEW b2, NEW b3, NEW b4, NEW b5
  PROVE  <<a1>> \o <<b1, b2, b3, b4, b5>>
         = <<a1, b1, b2, b3, b4, b5>>
<1> DEFINE S == {a1, b1, b2, b3, b4, b5}
           s == <<a1>>
           t == <<b1, b2, b3, b4, b5>>
           u == <<a1, b1, b2, b3, b4, b5>>
<1>1. s \in Seq(S) /\ t \in Seq(S) /\ u \in Seq(S)
  OBVIOUS
<1>2. Len(s) = 1 /\ Len(t) = 5 /\ Len(u) = 6
  OBVIOUS
<1>3. (\A i \in 1 .. 1 : u[i] = s[i]) /\ (\A i \in 1 .. 5 : u[1 + i] = t[i])
  OBVIOUS
<1>4. s \o t = u
  <2> HIDE DEF S, s, t, u
  <2>1. /\ Len(u) = Len(s) + Len(t)
        /\ \A i \in 1 .. Len(s) : u[i] = s[i]
        /\ \A i \in 1 .. Len(t) : u[Len(s) + i] = t[i]
    BY <1>2, <1>3
  <2> QED BY <1>1, <2>1, Join
<1> QED BY <1>4

\* The sequences that scripts are concatenated from, written out by length.
LEMMA Join1_7 ==
  ASSUME NEW a1, NEW b1, NEW b2, NEW b3, NEW b4, NEW b5, NEW b6, NEW b7
  PROVE  <<a1>> \o <<b1, b2, b3, b4, b5, b6, b7>>
         = <<a1, b1, b2, b3, b4, b5, b6, b7>>
<1> DEFINE S == {a1, b1, b2, b3, b4, b5, b6, b7}
           s == <<a1>>
           t == <<b1, b2, b3, b4, b5, b6, b7>>
           u == <<a1, b1, b2, b3, b4, b5, b6, b7>>
<1>1. s \in Seq(S) /\ t \in Seq(S) /\ u \in Seq(S)
  OBVIOUS
<1>2. Len(s) = 1 /\ Len(t) = 7 /\ Len(u) = 8
  OBVIOUS
<1>3. (\A i \in 1 .. 1 : u[i] = s[i]) /\ (\A i \in 1 .. 7 : u[1 + i] = t[i])
  OBVIOUS
<1>4. s \o t = u
  <2> HIDE DEF S, s, t, u
  <2>1. /\ Len(u) = Len(s) + Len(t)
        /\ \A i \in 1 .. Len(s) : u[i] = s[i]
        /\ \A i \in 1 .. Len(t) : u[Len(s) + i] = t[i]
    BY <1>2, <1>3
  <2> QED BY <1>1, <2>1, Join
<1> QED BY <1>4

LEMMA Join6_1 ==
  ASSUME NEW a1, NEW a2, NEW a3, NEW a4, NEW a5, NEW a6, NEW b1
  PROVE  <<a1, a2, a3, a4, a5, a6>> \o <<b1>>
         = <<a1, a2, a3, a4, a5, a6, b1>>
<1> DEFINE S == {a1, a2, a3, a4, a5, a6, b1}
           s == <<a1, a2, a3, a4, a5, a6>>
           t == <<b1>>
           u == <<a1, a2, a3, a4, a5, a6, b1>>
<1>1. s \in Seq(S) /\ t \in Seq(S) /\ u \in Seq(S)
  OBVIOUS
<1>2. Len(s) = 6 /\ Len(t) = 1 /\ Len(u) = 7
  OBVIOUS
<1>3. (\A i \in 1 .. 6 : u[i] = s[i]) /\ (\A i \in 1 .. 1 : u[6 + i] = t[i])
  OBVIOUS
<1>4. s \o t = u
  <2> HIDE DEF S, s, t, u
  <2>1. /\ Len(u) = Len(s) + Len(t)
        /\ \A i \in 1 .. Len(s) : u[i] = s[i]
        /\ \A i \in 1 .. Len(t) : u[Len(s) + i] = t[i]
    BY <1>2, <1>3
  <2> QED BY <1>1, <2>1, Join
<1> QED BY <1>4

LEMMA Join5_1 ==
  ASSUME NEW a1, NEW a2, NEW a3, NEW a4, NEW a5, NEW b1
  PROVE  <<a1, a2, a3, a4, a5>> \o <<b1>>
         = <<a1, a2, a3, a4, a5, b1>>
<1> DEFINE S == {a1, a2, a3, a4, a5, b1}
           s == <<a1, a2, a3, a4, a5>>
           t == <<b1>>
           u == <<a1, a2, a3, a4, a5, b1>>
<1>1. s \in Seq(S) /\ t \in Seq(S) /\ u \in Seq(S)
  OBVIOUS
<1>2. Len(s) = 5 /\ Len(t) = 1 /\ Len(u) = 6
  OBVIOUS
<1>3. (\A i \in 1 .. 5 : u[i] = s[i]) /\ (\A i \in 1 .. 1 : u[5 + i] = t[i])
  OBVIOUS
<1>4. s \o t = u
  <2> HIDE DEF S, s, t, u
  <2>1. /\ Len(u) = Len(s) + Len(t)
        /\ \A i \in 1 .. Len(s) : u[i] = s[i]
        /\ \A i \in 1 .. Len(t) : u[Len(s) + i] = t[i]
    BY <1>2, <1>3
  <2> QED BY <1>1, <2>1, Join
<1> QED BY <1>4

LEMMA Join8_5 ==
  ASSUME NEW a1, NEW a2, NEW a3, NEW a4, NEW a5, NEW a6, NEW a7, NEW a8, NEW b1, NEW b2,
           NEW b3, NEW b4, NEW b5
  PROVE  <<a1, a2, a3, a4, a5, a6, a7, a8>> \o <<b1, b2, b3, b4, b5>>
         = <<a1, a2, a3, a4, a5, a6, a7, a8, b1, b2, b3, b4, b5>>
<1> DEFINE S == {a1, a2, a3, a4, a5, a6, a7, a8, b1, b2, b3, b4, b5}
           s == <<a1, a2, a3, a4, a5, a6, a7, a8>>
           t == <<b1, b2, b3, b4, b5>>
           u == <<a1, a2, a3, a4, a5, a6, a7, a8, b1, b2, b3, b4, b5>>
<1>1. s \in Seq(S) /\ t \in Seq(S) /\ u \in Seq(S)
  OBVIOUS
<1>2. Len(s) = 8 /\ Len(t) = 5 /\ Len(u) = 13
  OBVIOUS
<1>3. (\A i \in 1 .. 8 : u[i] = s[i]) /\ (\A i \in 1 .. 5 : u[8 + i] = t[i])
  OBVIOUS
<1>4. s \o t = u
  <2> HIDE DEF S, s, t, u
  <2>1. /\ Len(u) = Len(s) + Len(t)
        /\ \A i \in 1 .. Len(s) : u[i] = s[i]
        /\ \A i \in 1 .. Len(t) : u[Len(s) + i] = t[i]
    BY <1>2, <1>3
  <2> QED BY <1>1, <2>1, Join
<1> QED BY <1>4

LEMMA Join13_1 ==
  ASSUME NEW a1, NEW a2, NEW a3, NEW a4, NEW a5, NEW a6, NEW a7, NEW a8, NEW a9, NEW a10,
           NEW a11, NEW a12, NEW a13, NEW b1
  PROVE  <<a1, a2, a3, a4, a5, a6, a7, a8, a9, a10, a11, a12, a13>> \o <<b1>>
         = <<a1, a2, a3, a4, a5, a6, a7, a8, a9, a10, a11, a12, a13, b1>>
<1> DEFINE S == {a1, a2, a3, a4, a5, a6, a7, a8, a9, a10, a11, a12, a13, b1}
           s == <<a1, a2, a3, a4, a5, a6, a7, a8, a9, a10, a11, a12, a13>>
           t == <<b1>>
           u == <<a1, a2, a3, a4, a5, a6, a7, a8, a9, a10, a11, a12, a13, b1>>
<1>1. s \in Seq(S) /\ t \in Seq(S) /\ u \in Seq(S)
  OBVIOUS
<1>2. Len(s) = 13 /\ Len(t) = 1 /\ Len(u) = 14
  OBVIOUS
<1>3. (\A i \in 1 .. 13 : u[i] = s[i]) /\ (\A i \in 1 .. 1 : u[13 + i] = t[i])
  OBVIOUS
<1>4. s \o t = u
  <2> HIDE DEF S, s, t, u
  <2>1. /\ Len(u) = Len(s) + Len(t)
        /\ \A i \in 1 .. Len(s) : u[i] = s[i]
        /\ \A i \in 1 .. Len(t) : u[Len(s) + i] = t[i]
    BY <1>2, <1>3
  <2> QED BY <1>1, <2>1, Join
<1> QED BY <1>4

LEMMA Join2_2 ==
  ASSUME NEW a1, NEW a2, NEW b1, NEW b2
  PROVE  <<a1, a2>> \o <<b1, b2>>
         = <<a1, a2, b1, b2>>
<1> DEFINE S == {a1, a2, b1, b2}
           s == <<a1, a2>>
           t == <<b1, b2>>
           u == <<a1, a2, b1, b2>>
<1>1. s \in Seq(S) /\ t \in Seq(S) /\ u \in Seq(S)
  OBVIOUS
<1>2. Len(s) = 2 /\ Len(t) = 2 /\ Len(u) = 4
  OBVIOUS
<1>3. (\A i \in 1 .. 2 : u[i] = s[i]) /\ (\A i \in 1 .. 2 : u[2 + i] = t[i])
  OBVIOUS
<1>4. s \o t = u
  <2> HIDE DEF S, s, t, u
  <2>1. /\ Len(u) = Len(s) + Len(t)
        /\ \A i \in 1 .. Len(s) : u[i] = s[i]
        /\ \A i \in 1 .. Len(t) : u[Len(s) + i] = t[i]
    BY <1>2, <1>3
  <2> QED BY <1>1, <2>1, Join
<1> QED BY <1>4

LEMMA Join2_4 ==
  ASSUME NEW a1, NEW a2, NEW b1, NEW b2, NEW b3, NEW b4
  PROVE  <<a1, a2>> \o <<b1, b2, b3, b4>>
         = <<a1, a2, b1, b2, b3, b4>>
<1> DEFINE S == {a1, a2, b1, b2, b3, b4}
           s == <<a1, a2>>
           t == <<b1, b2, b3, b4>>
           u == <<a1, a2, b1, b2, b3, b4>>
<1>1. s \in Seq(S) /\ t \in Seq(S) /\ u \in Seq(S)
  OBVIOUS
<1>2. Len(s) = 2 /\ Len(t) = 4 /\ Len(u) = 6
  OBVIOUS
<1>3. (\A i \in 1 .. 2 : u[i] = s[i]) /\ (\A i \in 1 .. 4 : u[2 + i] = t[i])
  OBVIOUS
<1>4. s \o t = u
  <2> HIDE DEF S, s, t, u
  <2>1. /\ Len(u) = Len(s) + Len(t)
        /\ \A i \in 1 .. Len(s) : u[i] = s[i]
        /\ \A i \in 1 .. Len(t) : u[Len(s) + i] = t[i]
    BY <1>2, <1>3
  <2> QED BY <1>1, <2>1, Join
<1> QED BY <1>4

LEMMA Join4_1 ==
  ASSUME NEW a1, NEW a2, NEW a3, NEW a4, NEW b1
  PROVE  <<a1, a2, a3, a4>> \o <<b1>>
         = <<a1, a2, a3, a4, b1>>
<1> DEFINE S == {a1, a2, a3, a4, b1}
           s == <<a1, a2, a3, a4>>
           t == <<b1>>
           u == <<a1, a2, a3, a4, b1>>
<1>1. s \in Seq(S) /\ t \in Seq(S) /\ u \in Seq(S)
  OBVIOUS
<1>2. Len(s) = 4 /\ Len(t) = 1 /\ Len(u) = 5
  OBVIOUS
<1>3. (\A i \in 1 .. 4 : u[i] = s[i]) /\ (\A i \in 1 .. 1 : u[4 + i] = t[i])
  OBVIOUS
<1>4. s \o t = u
  <2> HIDE DEF S, s, t, u
  <2>1. /\ Len(u) = Len(s) + Len(t)
        /\ \A i \in 1 .. Len(s) : u[i] = s[i]
        /\ \A i \in 1 .. Len(t) : u[Len(s) + i] = t[i]
    BY <1>2, <1>3
  <2> QED BY <1>1, <2>1, Join
<1> QED BY <1>4

LEMMA Join2_1 ==
  ASSUME NEW a1, NEW a2, NEW b1
  PROVE  <<a1, a2>> \o <<b1>>
         = <<a1, a2, b1>>
<1> DEFINE S == {a1, a2, b1}
           s == <<a1, a2>>
           t == <<b1>>
           u == <<a1, a2, b1>>
<1>1. s \in Seq(S) /\ t \in Seq(S) /\ u \in Seq(S)
  OBVIOUS
<1>2. Len(s) = 2 /\ Len(t) = 1 /\ Len(u) = 3
  OBVIOUS
<1>3. (\A i \in 1 .. 2 : u[i] = s[i]) /\ (\A i \in 1 .. 1 : u[2 + i] = t[i])
  OBVIOUS
<1>4. s \o t = u
  <2> HIDE DEF S, s, t, u
  <2>1. /\ Len(u) = Len(s) + Len(t)
        /\ \A i \in 1 .. Len(s) : u[i] = s[i]
        /\ \A i \in 1 .. Len(t) : u[Len(s) + i] = t[i]
    BY <1>2, <1>3
  <2> QED BY <1>1, <2>1, Join
<1> QED BY <1>4

\* The empty script adds nothing.
LEMMA JoinEmpty ==
  ASSUME NEW S, NEW s \in Seq(S)
  PROVE  s \o <<>> = s /\ <<>> \o s = s
BY ConcatEmptySeq

\* A step added to a script of four.
LEMMA Add4 ==
  ASSUME NEW a1, NEW a2, NEW a3, NEW a4, NEW b
  PROVE  Append(<<a1, a2, a3, a4>>, b) = <<a1, a2, a3, a4, b>>
<1> DEFINE S == {a1, a2, a3, a4, b}
<1>1. <<a1, a2, a3, a4>> \in Seq(S) /\ b \in S
  OBVIOUS
<1>2. Append(<<a1, a2, a3, a4>>, b) = <<a1, a2, a3, a4>> \o <<b>>
  BY <1>1, AppendIsConcat
<1> QED BY <1>2, Join4_1

\* A step added to a script of five.
LEMMA Add5 ==
  ASSUME NEW a1, NEW a2, NEW a3, NEW a4, NEW a5, NEW b
  PROVE  Append(<<a1, a2, a3, a4, a5>>, b) = <<a1, a2, a3, a4, a5, b>>
<1> DEFINE S == {a1, a2, a3, a4, a5, b}
<1>1. <<a1, a2, a3, a4, a5>> \in Seq(S) /\ b \in S
  OBVIOUS
<1>2. Append(<<a1, a2, a3, a4, a5>>, b) = <<a1, a2, a3, a4, a5>> \o <<b>>
  BY <1>1, AppendIsConcat
<1> QED BY <1>2, Join5_1

\* The scripts, step by step.
LEMMA ScriptForms ==
  ASSUME NEW c, NEW r, NEW w, NEW d
  PROVE  /\ <<Move(r, "staged", "generations")>> \o
              (<<Sync>> \o stage_and_switch_current(w) \o <<Cleanup>>) = Publish7(r, w)
         /\ Append(stage_and_switch_current(w), Cleanup) = Publish9(w)
         /\ stage_and_switch_current(w) = Clear1(w)
         /\ Append(retire_loaded_generation(d), ClearMarker) = Retire1(d.of)
         /\ PublishScript(c, r) = Publish1(r, current_successor_wire(c, r))
<1>1. /\ <<Sync>> \o stage_and_switch_current(w)
           = <<Sync, WriteNext(w), SyncNext, Sync, Switch, Sync>>
      /\ <<Sync, WriteNext(w), SyncNext, Sync, Switch, Sync>> \o <<Cleanup>>
           = <<Sync, WriteNext(w), SyncNext, Sync, Switch, Sync, Cleanup>>
      /\ <<Move(r, "staged", "generations")>> \o
           <<Sync, WriteNext(w), SyncNext, Sync, Switch, Sync, Cleanup>> = Publish7(r, w)
  BY Join1_5, Join6_1, Join1_7 DEF stage_and_switch_current, Publish7
<1>2. Append(stage_and_switch_current(w), Cleanup) = Publish9(w)
  BY Add5 DEF stage_and_switch_current, Publish9
<1>3. Append(retire_loaded_generation(d), ClearMarker) = Retire1(d.of)
  BY Add4 DEF retire_loaded_generation, Retire1
<1>4. PublishScript(c, r) = Publish1(r, current_successor_wire(c, r))
  <2> DEFINE x == current_successor_wire(c, r)
             u == <<Make(r), Write(r, "binary"), SyncFile(r, "binary"), Write(r, "document"),
                    SyncFile(r, "document"), Sync, Move(r, "staged", "generations"), Sync>>
             v == <<Make(r), Write(r, "binary"), SyncFile(r, "binary"), Write(r, "document"),
                    SyncFile(r, "document"), Sync, Move(r, "staged", "generations"), Sync,
                    WriteNext(x), SyncNext, Sync, Switch, Sync>>
  <2>1. u \o <<WriteNext(x), SyncNext, Sync, Switch, Sync>> = v
    BY Join8_5
  <2>2. v \o <<Cleanup>> = Publish1(r, x)
    BY Join13_1 DEF Publish1
  <2>3. PublishScript(c, r) = (u \o <<WriteNext(x), SyncNext, Sync, Switch, Sync>>) \o <<Cleanup>>
    BY DEF PublishScript, stage_and_switch_current
  <2> QED BY <2>1, <2>2, <2>3, Zenon
<1>5. stage_and_switch_current(w) = Clear1(w)
  BY DEF stage_and_switch_current, Clear1
<1> QED BY <1>1, <1>2, <1>3, <1>4, <1>5, Zenon

\* A script runs from its head.
LEMMA PublishSteps ==
  ASSUME NEW r, NEW w
  PROVE  /\ Publish1(r, w) # <<>> /\ Head(Publish1(r, w)) = Make(r)
         /\ Tail(Publish1(r, w)) = Publish2(r, w)
         /\ Publish2(r, w) # <<>> /\ Head(Publish2(r, w)) = Write(r, "binary")
         /\ Tail(Publish2(r, w)) = Publish3(r, w)
         /\ Publish3(r, w) # <<>> /\ Head(Publish3(r, w)) = SyncFile(r, "binary")
         /\ Tail(Publish3(r, w)) = Publish4(r, w)
         /\ Publish4(r, w) # <<>> /\ Head(Publish4(r, w)) = Write(r, "document")
         /\ Tail(Publish4(r, w)) = Publish5(r, w)
         /\ Publish5(r, w) # <<>> /\ Head(Publish5(r, w)) = SyncFile(r, "document")
         /\ Tail(Publish5(r, w)) = Publish6(r, w)
         /\ Publish6(r, w) # <<>> /\ Head(Publish6(r, w)) = Sync
         /\ Tail(Publish6(r, w)) = Publish7(r, w)
         /\ Publish7(r, w) # <<>> /\ Head(Publish7(r, w)) = Move(r, "staged", "generations")
         /\ Tail(Publish7(r, w)) = Publish8(w)
         /\ Publish8(w) # <<>> /\ Head(Publish8(w)) = Sync /\ Tail(Publish8(w)) = Publish9(w)
         /\ Publish9(w) # <<>> /\ Head(Publish9(w)) = WriteNext(w) /\ Tail(Publish9(w)) = Publish10
         /\ Publish10 # <<>> /\ Head(Publish10) = SyncNext /\ Tail(Publish10) = Publish11
         /\ Publish11 # <<>> /\ Head(Publish11) = Sync /\ Tail(Publish11) = Publish12
         /\ Publish12 # <<>> /\ Head(Publish12) = Switch /\ Tail(Publish12) = Publish13
         /\ Publish13 # <<>> /\ Head(Publish13) = Sync /\ Tail(Publish13) = Publish14
         /\ Publish14 # <<>> /\ Head(Publish14) = Cleanup /\ Tail(Publish14) = <<>>
<1>1. Publish1(r, w) # <<>> /\ Head(Publish1(r, w)) = Make(r)
      /\ Tail(Publish1(r, w)) = Publish2(r, w)
  BY DEF Publish1, Publish2
<1>2. Publish2(r, w) # <<>> /\ Head(Publish2(r, w)) = Write(r, "binary")
      /\ Tail(Publish2(r, w)) = Publish3(r, w)
  BY DEF Publish2, Publish3
<1>3. Publish3(r, w) # <<>> /\ Head(Publish3(r, w)) = SyncFile(r, "binary")
      /\ Tail(Publish3(r, w)) = Publish4(r, w)
  BY DEF Publish3, Publish4
<1>4. Publish4(r, w) # <<>> /\ Head(Publish4(r, w)) = Write(r, "document")
      /\ Tail(Publish4(r, w)) = Publish5(r, w)
  BY DEF Publish4, Publish5
<1>5. Publish5(r, w) # <<>> /\ Head(Publish5(r, w)) = SyncFile(r, "document")
      /\ Tail(Publish5(r, w)) = Publish6(r, w)
  BY DEF Publish5, Publish6
<1>6. Publish6(r, w) # <<>> /\ Head(Publish6(r, w)) = Sync /\ Tail(Publish6(r, w)) = Publish7(r, w)
  BY DEF Publish6, Publish7
<1>7. Publish7(r, w) # <<>> /\ Head(Publish7(r, w)) = Move(r, "staged", "generations")
      /\ Tail(Publish7(r, w)) = Publish8(w)
  BY DEF Publish7, Publish8
<1>8. Publish8(w) # <<>> /\ Head(Publish8(w)) = Sync /\ Tail(Publish8(w)) = Publish9(w)
  BY DEF Publish8, Publish9
<1>9. Publish9(w) # <<>> /\ Head(Publish9(w)) = WriteNext(w) /\ Tail(Publish9(w)) = Publish10
  BY DEF Publish9, Publish10
<1>10. Publish10 # <<>> /\ Head(Publish10) = SyncNext /\ Tail(Publish10) = Publish11
  BY DEF Publish10, Publish11
<1>11. Publish11 # <<>> /\ Head(Publish11) = Sync /\ Tail(Publish11) = Publish12
  BY DEF Publish11, Publish12
<1>12. Publish12 # <<>> /\ Head(Publish12) = Switch /\ Tail(Publish12) = Publish13
  BY DEF Publish12, Publish13
<1>13. Publish13 # <<>> /\ Head(Publish13) = Sync /\ Tail(Publish13) = Publish14
  BY DEF Publish13, Publish14
<1>14. Publish14 # <<>> /\ Head(Publish14) = Cleanup /\ Tail(Publish14) = <<>>
  BY DEF Publish14
<1> QED BY <1>1, <1>2, <1>3, <1>4, <1>5, <1>6, <1>7, <1>8, <1>9, <1>10, <1>11, <1>12, <1>13, <1>14

\* The steps of clear_current_retirement_marker, one after the other.
LEMMA ClearSteps ==
  ASSUME NEW w
  PROVE  /\ Clear1(w) # <<>> /\ Head(Clear1(w)) = WriteNext(w) /\ Tail(Clear1(w)) = Clear2
         /\ Clear2 # <<>> /\ Head(Clear2) = SyncNext /\ Tail(Clear2) = Clear3
         /\ Clear3 # <<>> /\ Head(Clear3) = Sync /\ Tail(Clear3) = Clear4
         /\ Clear4 # <<>> /\ Head(Clear4) = Switch /\ Tail(Clear4) = Clear5
         /\ Clear5 # <<>> /\ Head(Clear5) = Sync /\ Tail(Clear5) = <<>>
<1>1. Clear1(w) # <<>> /\ Head(Clear1(w)) = WriteNext(w) /\ Tail(Clear1(w)) = Clear2
  BY DEF Clear1, Clear2
<1>2. Clear2 # <<>> /\ Head(Clear2) = SyncNext /\ Tail(Clear2) = Clear3
  BY DEF Clear2, Clear3
<1>3. Clear3 # <<>> /\ Head(Clear3) = Sync /\ Tail(Clear3) = Clear4
  BY DEF Clear3, Clear4
<1>4. Clear4 # <<>> /\ Head(Clear4) = Switch /\ Tail(Clear4) = Clear5
  BY DEF Clear4, Clear5
<1>5. Clear5 # <<>> /\ Head(Clear5) = Sync /\ Tail(Clear5) = <<>>
  BY DEF Clear5
<1> QED BY <1>1, <1>2, <1>3, <1>4, <1>5

\* The steps of retire_generation.
LEMMA RetireSteps ==
  ASSUME NEW t
  PROVE  /\ Retire1(t) # <<>> /\ Head(Retire1(t)) = Move(t, "generations", "retiring")
         /\ Tail(Retire1(t)) = Retire2
         /\ Retire2 # <<>> /\ Head(Retire2) = Sync /\ Tail(Retire2) = Retire3
         /\ Retire3 # <<>> /\ Head(Retire3) = Sync /\ Tail(Retire3) = Retire4
         /\ Retire4 # <<>> /\ Head(Retire4) = FinishRetirement /\ Tail(Retire4) = Retire5
         /\ Retire5 # <<>> /\ Head(Retire5) = ClearMarker /\ Tail(Retire5) = <<>>
<1>1. Retire1(t) # <<>> /\ Head(Retire1(t)) = Move(t, "generations", "retiring")
      /\ Tail(Retire1(t)) = Retire2
  BY DEF Retire1, Retire2
<1>2. Retire2 # <<>> /\ Head(Retire2) = Sync /\ Tail(Retire2) = Retire3
  BY DEF Retire2, Retire3
<1>3. Retire3 # <<>> /\ Head(Retire3) = Sync /\ Tail(Retire3) = Retire4
  BY DEF Retire3, Retire4
<1>4. Retire4 # <<>> /\ Head(Retire4) = FinishRetirement /\ Tail(Retire4) = Retire5
  BY DEF Retire4, Retire5
<1>5. Retire5 # <<>> /\ Head(Retire5) = ClearMarker /\ Tail(Retire5) = <<>>
  BY DEF Retire5
<1> QED BY <1>1, <1>2, <1>3, <1>4, <1>5

\* The steps of finish_retirement, which unlinks what a retiring directory
\* still holds.
LEMMA EmptySteps ==
  ASSUME NEW t
  PROVE  /\ Empty1(t) # <<>> /\ Head(Empty1(t)) = Unlink(t, "retiring", "binary")
         /\ Tail(Empty1(t)) = Empty2(t)
         /\ Empty2(t) # <<>> /\ Head(Empty2(t)) = Sync /\ Tail(Empty2(t)) = Empty3(t)
         /\ Empty3(t) # <<>> /\ Head(Empty3(t)) = Unlink(t, "retiring", "document")
         /\ Tail(Empty3(t)) = Empty4(t)
         /\ Empty4(t) # <<>> /\ Head(Empty4(t)) = Sync /\ Tail(Empty4(t)) = Empty5(t)
         /\ Empty5(t) # <<>> /\ Head(Empty5(t)) = RemoveDirectory(t, "retiring")
         /\ Tail(Empty5(t)) = Empty6
         /\ Empty6 # <<>> /\ Head(Empty6) = Sync /\ Tail(Empty6) = Retire5
<1>1. Empty1(t) # <<>> /\ Head(Empty1(t)) = Unlink(t, "retiring", "binary")
      /\ Tail(Empty1(t)) = Empty2(t)
  BY DEF Empty1, Empty2
<1>2. Empty2(t) # <<>> /\ Head(Empty2(t)) = Sync /\ Tail(Empty2(t)) = Empty3(t)
  BY DEF Empty2, Empty3
<1>3. Empty3(t) # <<>> /\ Head(Empty3(t)) = Unlink(t, "retiring", "document")
      /\ Tail(Empty3(t)) = Empty4(t)
  BY DEF Empty3, Empty4
<1>4. Empty4(t) # <<>> /\ Head(Empty4(t)) = Sync /\ Tail(Empty4(t)) = Empty5(t)
  BY DEF Empty4, Empty5
<1>5. Empty5(t) # <<>> /\ Head(Empty5(t)) = RemoveDirectory(t, "retiring")
      /\ Tail(Empty5(t)) = Empty6
  BY DEF Empty5, Empty6
<1>6. Empty6 # <<>> /\ Head(Empty6) = Sync /\ Tail(Empty6) = Retire5
  BY DEF Empty6, Retire5
<1> QED BY <1>1, <1>2, <1>3, <1>4, <1>5, <1>6

-----------------------------------------------------------------------------
(***************************************************************************)
(* What is read of each shape, and what recovery does about it.            *)
(***************************************************************************)
\* The generations of a current document, by their length.
LEMMA Ranks ==
  ASSUME NEW n, NEW refs, Backed(n, refs)
  PROVE  LET c == CurrentOf(n) IN
         /\ c.accepted \in Seq(Builds) /\ Len(c.accepted) \in Nat
         /\ Len(c.retained) \in Nat /\ Len(c.retiring) \in Nat
         /\ c.retained # NoGeneration => Len(c.accepted) = Len(c.retained) + 1
         /\ Marked(n) => /\ c.retiring \in Generations /\ Len(c.accepted) = Len(c.retiring) + 2
                         /\ c.retained # NoGeneration /\ c.accepted # NoGeneration
                         /\ n.current # None
         /\ c.accepted = NoGeneration => c.retained = NoGeneration /\ n.current = None
<1> DEFINE c == CurrentOf(n)
<1>1. CASE n.current = None /\ c = Empty
  BY <1>1, NoneLength DEF Empty, Marked
<1>2. CASE /\ n.current # None /\ c \in Documents /\ c.retained = predecessor(c.accepted)
           /\ c.retiring # NoGeneration =>
                c.retained \in Generations /\ c.retiring = predecessor(c.retained)
  <2>1. /\ c.accepted \in Generations
        /\ c.retained \in Generations \cup {NoGeneration}
        /\ c.retiring \in Generations \cup {NoGeneration}
    BY <1>2, FileFacts
  <2>2. /\ c.accepted \in Seq(Builds) /\ Len(c.accepted) \in Nat /\ c.accepted # NoGeneration
        /\ Len(c.retained) = Len(c.accepted) - 1
    BY <1>2, <2>1, GenerationFacts
  <2>3. Len(c.retained) \in Nat /\ Len(c.retiring) \in Nat
    BY <2>1, GenerationFacts, NoneLength
  <2>4. Marked(n) => /\ c.retiring \in Generations /\ c.retained # NoGeneration
                     /\ Len(c.retiring) = Len(c.retained) - 1
    BY <1>2, <2>1, GenerationFacts DEF Marked
  <2> QED BY <1>2, <2>2, <2>3, <2>4
<1> QED BY <1>1, <1>2, BackedFacts

\* What follows the accepted generation is none of its document's.
LEMMA FollowsFacts ==
  ASSUME NEW n, NEW refs, NEW r, Backed(n, refs), Follows(n, refs, r)
  PROVE  LET c == CurrentOf(n) IN
         /\ r.generation \notin {c.accepted, c.retained, NoGeneration}
         /\ Len(r.generation) = Len(c.accepted) + 1
         /\ r.generation \in Generations /\ r.operation \in Operations /\ r \in Requests
<1> DEFINE c == CurrentOf(n)
<1>1. /\ r \in Requests /\ predecessor(r.generation) = c.accepted
      /\ r.generation \in Generations /\ r.operation \in Operations
  BY RequestFacts DEF Follows
<1>2. /\ Len(r.generation) = Len(c.accepted) + 1 /\ r.generation # NoGeneration
      /\ Len(c.accepted) \in Nat
  BY <1>1, GenerationFacts
<1>3. r.generation # c.accepted /\ r.generation # c.retained
  BY <1>2, Ranks
<1> QED BY <1>1, <1>2, <1>3

\* The generation being retired is two older than the accepted one.
LEMMA RetiresFacts ==
  ASSUME NEW n, NEW refs, NEW t, NEW d, Retires(n, refs, t, d)
  PROVE  LET c == CurrentOf(n) IN
         /\ t \in Requests /\ t.generation \in Generations /\ Marked(n)
         /\ t.generation \notin {c.accepted, c.retained, NoGeneration}
         /\ predecessor(t.generation) # c.accepted
         /\ Len(c.accepted) = Len(t.generation) + 2
<1> DEFINE c == CurrentOf(n)
<1>1. /\ t \in Requests /\ t.generation \in Generations /\ t.generation = c.retiring
      /\ Backed(n, refs) /\ t.generation # NoGeneration
  BY RequestFacts, GenerationFacts DEF Retires, Holds
<1>2. Marked(n)
  BY <1>1 DEF Marked
<1>3. /\ Len(c.accepted) = Len(t.generation) + 2 /\ Len(c.accepted) = Len(c.retained) + 1
      /\ Len(t.generation) \in Nat /\ Len(predecessor(t.generation)) = Len(t.generation) - 1
      /\ Len(c.retained) \in Nat
  BY <1>1, <1>2, Ranks, GenerationFacts
<1> QED BY <1>1, <1>2, <1>3

\* The directories of a store, told apart.
LEMMA Reads ==
  ASSUME NEW n, NEW refs, NEW xs, Holds(n, refs, xs),
         \A x \in xs : x.at = "generations" =>
           x.of.generation \notin {CurrentOf(n).accepted, CurrentOf(n).retained}
  PROVE  /\ n.directories = refs \cup xs /\ CurrentLoads(n) /\ Backed(n, refs)
         /\ Directories(n, "staged") = {x \in xs : x.at = "staged"}
         /\ Directories(n, "retiring") = {x \in xs : x.at = "retiring"}
         /\ Unreferenced(n) = {x \in xs : x.at = "generations"}
         /\ \A o : o \in retained_operation(n) =>
              \E d \in refs : d.of.generation = CurrentOf(n).retained /\ d.of.operation = o
<1>1. n.directories = refs \cup xs /\ Backed(n, refs)
  BY DEF Holds
<1>2. CurrentLoads(n)
  BY <1>1, BackedLoads
<1>3. \A d \in refs : /\ d.at = "generations"
                      /\ d.of.generation \in {CurrentOf(n).accepted, CurrentOf(n).retained}
  BY <1>1, BackedFacts, WholeFacts
<1>4. /\ Directories(n, "staged") = {x \in xs : x.at = "staged"}
      /\ Directories(n, "retiring") = {x \in xs : x.at = "retiring"}
  BY <1>1, <1>3 DEF Directories
<1>5. Unreferenced(n) = {x \in xs : x.at = "generations"}
  BY <1>1, <1>3 DEF Directories, Unreferenced
<1>6. ASSUME NEW o \in retained_operation(n)
      PROVE  \E d \in refs : d.of.generation = CurrentOf(n).retained /\ d.of.operation = o
  BY <1>1, <1>3 DEF retained_operation, load_generation, Directories
<1> QED BY <1>1, <1>2, <1>4, <1>5, <1>6

\* Sets of no and of one element.
LEMMA Sizes ==
  /\ Cardinality({}) = 0 /\ ~ (Cardinality({}) > 1)
  /\ \A x : Cardinality({x}) = 1 /\ ~ (Cardinality({x}) > 1)
BY FS_EmptySet, FS_Singleton

\* Nothing beside: the marker of the current document decides.
LEMMA ReadsAlone ==
  ASSUME NEW n, NEW refs, Holds(n, refs, {})
  PROVE  /\ CurrentLoads(n) /\ Directories(n, "staged") = {} /\ Directories(n, "retiring") = {}
         /\ Unreferenced(n) = {} /\ n.directories = refs /\ Backed(n, refs) /\ ~ Ambiguous(n)
<1>1. /\ CurrentLoads(n) /\ Directories(n, "staged") = {} /\ Directories(n, "retiring") = {}
      /\ Unreferenced(n) = {} /\ n.directories = refs /\ Backed(n, refs)
  <2> DEFINE xs == {}
  <2>1. Holds(n, refs, xs) /\ \A x : x \notin xs
    OBVIOUS
  <2> HIDE DEF xs
  <2>2. /\ CurrentLoads(n) /\ n.directories = refs \cup xs /\ Backed(n, refs)
        /\ Directories(n, "staged") = {x \in xs : x.at = "staged"}
        /\ Directories(n, "retiring") = {x \in xs : x.at = "retiring"}
        /\ Unreferenced(n) = {x \in xs : x.at = "generations"}
    BY <2>1, Reads
  <2> QED BY <2>1, <2>2
<1>2. ~ Ambiguous(n)
  BY <1>1, Sizes DEF Ambiguous
<1> QED BY <1>1, <1>2

\* One directory beside.
LEMMA ReadsBeside ==
  ASSUME NEW n, NEW refs, NEW x, Holds(n, refs, {x}),
         x.at \in {"staged", "generations", "retiring"},
         x.of.generation \notin {CurrentOf(n).accepted, CurrentOf(n).retained}
  PROVE  /\ CurrentLoads(n) /\ Backed(n, refs) /\ n.directories = refs \cup {x}
         /\ Directories(n, "staged") = IF x.at = "staged" THEN {x} ELSE {}
         /\ Directories(n, "retiring") = IF x.at = "retiring" THEN {x} ELSE {}
         /\ Unreferenced(n) = IF x.at = "generations" THEN {x} ELSE {}
         /\ ~ Ambiguous(n) \/ (n.next # None /\ x.at # "generations")
<1>1. /\ CurrentLoads(n) /\ Backed(n, refs) /\ n.directories = refs \cup {x}
      /\ Directories(n, "staged") = {y \in {x} : y.at = "staged"}
      /\ Directories(n, "retiring") = {y \in {x} : y.at = "retiring"}
      /\ Unreferenced(n) = {y \in {x} : y.at = "generations"}
  BY Reads
<1>2. /\ Directories(n, "staged") = IF x.at = "staged" THEN {x} ELSE {}
      /\ Directories(n, "retiring") = IF x.at = "retiring" THEN {x} ELSE {}
      /\ Unreferenced(n) = IF x.at = "generations" THEN {x} ELSE {}
  BY <1>1
<1>3. ASSUME ~ (n.next # None /\ x.at # "generations") PROVE ~ Ambiguous(n)
  <2>1. CASE x.at = "staged"
    BY <1>2, <1>3, <2>1, Sizes DEF Ambiguous
  <2>2. CASE x.at = "retiring"
    BY <1>2, <1>3, <2>2, Sizes DEF Ambiguous
  <2>3. CASE x.at = "generations"
    BY <1>2, <1>3, <2>3, Sizes DEF Ambiguous
  <2> QED BY <2>1, <2>2, <2>3
<1> QED BY <1>1, <1>2, <1>3

\* Recovery has nothing to do on a settled store.
LEMMA RecoverSettled ==
  ASSUME NEW n, NEW refs, Settles(n, refs)
  PROVE  recover_locked(n) = {<<>>}
<1>1. Holds(n, refs, {}) /\ n.next = None /\ CurrentOf(n).retiring = NoGeneration
  BY DEF Settles, Marked
<1>2. RecoverUnreferenced(n) = {<<>>}
  BY <1>1, ReadsAlone, Sizes DEF RecoverUnreferenced
<1> QED BY <1>1, <1>2, ReadsAlone DEF recover_locked

\* Recovery publishes a readable stage, and refuses a torn one.
LEMMA RecoverStages ==
  ASSUME NEW n, NEW refs, NEW r, NEW b, NEW o, Stages(n, refs, r, b, o)
  PROVE  recover_locked(n) = IF Readable(b) /\ Readable(o)
                             THEN {Publish7(r, current_successor_wire(CurrentOf(n), r))}
                             ELSE {}
<1> DEFINE d == Directory("staged", r, b, o)
           c == CurrentOf(n)
           w == current_successor_wire(c, r)
<1>1. Holds(n, refs, {d}) /\ n.next = None /\ Follows(n, refs, r) /\ Backed(n, refs)
  BY DEF Stages, Holds
<1>2. d.at = "staged" /\ d.of = r /\ (Complete(d) <=> Readable(b) /\ Readable(o))
  BY DirectoryFacts
<1>3. r.generation \notin {c.accepted, c.retained} /\ predecessor(r.generation) = c.accepted
  BY <1>1, FollowsFacts DEF Follows
<1>4. /\ CurrentLoads(n) /\ Directories(n, "staged") = {d} /\ Directories(n, "retiring") = {}
      /\ ~ Ambiguous(n) /\ n.directories = refs \cup {d}
  <2> HIDE DEF d
  <2> QED BY <1>1, <1>2, <1>3, ReadsBeside
<1>5. recover_locked(n) = RecoverStage(n, d)
  BY <1>1, <1>4 DEF recover_locked
<1>6. r.operation \notin retained_operation(n)
  <2>1. \A e \in refs : e.of.operation # r.operation
    BY <1>1 DEF Follows
  <2> HIDE DEF d
  <2> QED BY <1>1, <1>2, <1>3, <2>1, Reads
<1>7. {e \in Directories(n, "generations") : e.of.generation = r.generation} = {}
  <2>1. \A e \in refs : e.of.generation \in {c.accepted, c.retained}
    BY <1>1, BackedFacts
  <2> QED BY <1>2, <1>3, <1>4, <2>1 DEF Directories
<1>8. RecoverStage(n, d) = IF Complete(d)
        THEN {<<Move(r, "staged", "generations")>> \o
                (<<Sync>> \o stage_and_switch_current(w) \o <<Cleanup>>)}
        ELSE {}
  <2> HIDE DEF d, w
  <2> QED BY <1>2, <1>3, <1>4, <1>6, <1>7 DEF RecoverStage, w
<1> QED BY <1>2, <1>5, <1>8, ScriptForms

\* The documents a next document holds.
LEMMA WireFacts ==
  ASSUME NEW n, NEW refs, NEW r, Backed(n, refs), Follows(n, refs, r)
  PROVE  LET c == CurrentOf(n)  w == current_successor_wire(c, r) IN
         /\ w \in Documents /\ w.accepted = r.generation /\ w.retained = c.accepted
         /\ w.retiring = c.retained /\ w.operation = r.operation /\ w # c
<1> DEFINE c == CurrentOf(n)
           w == current_successor_wire(c, r)
<1>1. /\ r.generation \in Generations /\ r.operation \in Operations
      /\ r.generation # c.accepted
  BY FollowsFacts
<1>2. /\ c.accepted \in Generations \cup {NoGeneration}
      /\ c.retained \in Generations \cup {NoGeneration}
  BY BackedFacts, FileFacts DEF Empty
<1>3. /\ w.accepted = r.generation /\ w.retained = c.accepted
      /\ w.retiring = c.retained /\ w.operation = r.operation
  BY DEF current_successor_wire
<1>4. w \in Documents
  BY <1>1, <1>2 DEF current_successor_wire, Documents
<1> QED BY <1>1, <1>3, <1>4

\* The document without its retirement marker differs in nothing else.
LEMMA UnmarkedFacts ==
  ASSUME NEW n, NEW refs, Backed(n, refs), Marked(n)
  PROVE  LET c == CurrentOf(n)  w == Unmarked(n) IN
         /\ w \in Documents /\ w.accepted = c.accepted /\ w.retained = c.retained
         /\ w.retiring = NoGeneration /\ w.operation = c.operation /\ w # c
<1> DEFINE c == CurrentOf(n)
           w == Unmarked(n)
<1>1. c \in Documents /\ c.retiring # NoGeneration
  BY BackedFacts, Ranks DEF Marked
<1>2. /\ w.accepted = c.accepted /\ w.retained = c.retained
      /\ w.retiring = NoGeneration /\ w.operation = c.operation /\ w \in Documents
  BY <1>1 DEF Unmarked, Documents
<1> QED BY <1>1, <1>2

\* The successor document loads once the directory of its request is in place.
LEMMA WireLoads ==
  ASSUME NEW n, NEW refs, NEW r, Holds(n, refs, {Whole(r)}), Follows(n, refs, r),
         NEW s, Readable(s)
  PROVE  load_current_from_bytes(n, File(current_successor_wire(CurrentOf(n), r), s))
<1> DEFINE c == CurrentOf(n)
           w == current_successor_wire(c, r)
<1>1. /\ Backed(n, refs) /\ Whole(r) \in n.directories /\ refs \subseteq n.directories
      /\ predecessor(r.generation) = c.accepted /\ \A d \in refs : d.of.operation # r.operation
  BY DEF Holds, Follows
<1>2. /\ w.accepted = r.generation /\ w.retained = c.accepted
      /\ w.retiring = c.retained /\ w.operation = r.operation
  BY <1>1, WireFacts
<1>3. \/ w.retained = NoGeneration /\ w.retiring = NoGeneration
      \/ \E b : /\ Whole(b) \in n.directories /\ b.generation = w.retained
                /\ b.operation # r.operation /\ w.retained # NoGeneration
                /\ w.retiring # NoGeneration => predecessor(b.generation) = w.retiring
  <2>1. CASE c.accepted = NoGeneration
    BY <1>1, <1>2, <2>1, Ranks
  <2>2. CASE c.accepted # NoGeneration
    <3>1. PICK d \in refs : d.of.generation = c.accepted
      BY <1>1, <2>2, BackedLoads
    <3>2. d = Whole(d.of)
      BY <1>1, <3>1, BackedFacts
    <3>3. c.retained # NoGeneration => c.retained = predecessor(c.accepted)
      BY <1>1, BackedFacts DEF Empty
    <3>4. /\ Whole(d.of) \in n.directories /\ d.of.generation = w.retained
          /\ d.of.operation # r.operation /\ w.retained # NoGeneration
          /\ w.retiring # NoGeneration => predecessor(d.of.generation) = w.retiring
      BY <1>1, <1>2, <2>2, <3>1, <3>2, <3>3
    <3> QED BY <3>4
  <2> QED BY <2>1, <2>2
<1> HIDE DEF w
<1>4. load_current_from_bytes(n, File(w, s))
  BY <1>1, <1>2, <1>3, Loads
<1> QED BY <1>4 DEF w

\* The document without its marker loads where the marked one is current.
LEMMA UnmarkedLoads ==
  ASSUME NEW n, NEW refs, Holds(n, refs, {}), Marked(n), NEW s, Readable(s)
  PROVE  load_current_from_bytes(n, File(Unmarked(n), s))
<1> DEFINE c == CurrentOf(n)
           w == Unmarked(n)
<1>1. Backed(n, refs) /\ refs \subseteq n.directories
  BY DEF Holds
<1>2. /\ w.accepted = c.accepted /\ w.retained = c.retained
      /\ w.retiring = NoGeneration /\ w.operation = c.operation
  BY <1>1, UnmarkedFacts
<1>3. c.retained # NoGeneration /\ c.accepted # NoGeneration /\ c.retained = predecessor(c.accepted)
  BY <1>1, Ranks, BackedFacts
<1>4. PICK d \in refs : d.of.generation = c.accepted /\ d.of.operation = c.operation
  BY <1>1, <1>3, BackedLoads
<1>5. PICK e \in refs : e.of.generation = c.retained
  BY <1>1, <1>3, BackedLoads
<1>6. d = Whole(d.of) /\ e = Whole(e.of) /\ e.of.operation # c.operation
  BY <1>1, <1>4, <1>5, BackedFacts, BackedLoads
<1>7. \E b : /\ Whole(b) \in n.directories /\ b.generation = w.retained
             /\ b.operation # d.of.operation /\ w.retained # NoGeneration
             /\ w.retiring # NoGeneration => predecessor(b.generation) = w.retiring
  <2> WITNESS e.of
  <2> QED BY <1>1, <1>2, <1>3, <1>4, <1>5, <1>6
<1>8. /\ Whole(d.of) \in n.directories /\ w.accepted = d.of.generation
      /\ w.operation = d.of.operation /\ w.retained = predecessor(d.of.generation)
  BY <1>1, <1>2, <1>3, <1>4, <1>6
<1> HIDE DEF w
<1>9. load_current_from_bytes(n, File(w, s))
  BY <1>7, <1>8, Loads
<1> QED BY <1>9 DEF w

\* A torn document does not load.
LEMMA TornDoesNotLoad ==
  ASSUME NEW n, NEW w
  PROVE  ~ load_current_from_bytes(n, File(w, "torn"))
BY DEF load_current_from_bytes, File, Readable

\* Recovery goes on from a placed generation by its current.next.
LEMMA RecoverPlaces ==
  ASSUME NEW n, NEW refs, NEW r, Places(n, refs, r)
  PROVE  LET w == current_successor_wire(CurrentOf(n), r) IN
         /\ n.next = None => recover_locked(n) = {Publish9(w)}
         /\ n.next # None => n.next = File(w, n.next.status)
                             /\ n.next.status \in {"torn", "written", "synced"}
         /\ n.next # None /\ n.next.status # "torn" => recover_locked(n) = {Publish12}
         /\ n.next # None /\ n.next.status = "torn" => recover_locked(n) = {}
<1> DEFINE d == Whole(r)
           c == CurrentOf(n)
           w == current_successor_wire(c, r)
<1>1. /\ Holds(n, refs, {d}) /\ Follows(n, refs, r) /\ Backed(n, refs)
      /\ \/ n.next = None
         \/ \E s \in {"torn", "written", "synced"} : n.next = File(w, s)
  BY DEF Places, Holds
<1>2. d.at = "generations" /\ d.of = r /\ Complete(d)
  BY WholeFacts
<1>3. /\ r.generation \notin {c.accepted, c.retained} /\ predecessor(r.generation) = c.accepted
      /\ c.retiring = NoGeneration
  BY <1>1, FollowsFacts DEF Follows, Marked
<1>4. /\ CurrentLoads(n) /\ Directories(n, "staged") = {} /\ Directories(n, "retiring") = {}
      /\ Unreferenced(n) = {d} /\ ~ Ambiguous(n)
  <2> HIDE DEF d
  <2> QED BY <1>1, <1>2, <1>3, ReadsBeside
<1>5. r.operation \notin retained_operation(n)
  <2>1. \A e \in refs : e.of.operation # r.operation
    BY <1>1 DEF Follows
  <2> HIDE DEF d
  <2> QED BY <1>1, <1>2, <1>3, <2>1, Reads
<1>6. ASSUME n.next = None PROVE recover_locked(n) = {Publish9(w)}
  <2>1. recover_locked(n) = RecoverUnreferenced(n)
    BY <1>4, <1>6 DEF recover_locked
  <2>2. RecoverUnreferenced(n) = {Append(stage_and_switch_current(w), Cleanup)}
    <3> HIDE DEF d, w
    <3> QED BY <1>2, <1>3, <1>4, <1>5, Sizes DEF RecoverUnreferenced, w
  <2> QED BY <2>1, <2>2, ScriptForms
<1>7. ASSUME NEW s \in {"torn", "written", "synced"}, n.next = File(w, s)
      PROVE  /\ n.next # None /\ n.next.status = s
             /\ recover_locked(n) = IF s = "torn" THEN {} ELSE {Publish12}
  <2>1. n.next # None /\ n.next.status = s /\ n.next.document = w
    BY <1>1, <1>7, FileFacts, WireFacts
  <2>2. recover_locked(n) = RecoverNext(n)
    BY <1>4, <2>1 DEF recover_locked
  <2>3. w # c /\ require_current_successor(c, w)
    BY <1>1, <1>3, WireFacts, FollowsFacts DEF require_current_successor
  <2>4. load_current_from_bytes(n, n.next) <=> s # "torn"
    <3>1. CASE s = "torn"
      BY <1>7, <3>1, TornDoesNotLoad
    <3>2. CASE s # "torn"
      BY <1>1, <1>7, <3>2, WireLoads DEF Readable
    <3> QED BY <3>1, <3>2
  <2>5. RecoverNext(n) = IF s = "torn" THEN {} ELSE {<<Switch, Sync, Cleanup>>}
    <3> HIDE DEF w
    <3> QED BY <1>4, <2>1, <2>3, <2>4 DEF RecoverNext
  <2> QED BY <2>1, <2>2, <2>5 DEF Publish12
<1> QED BY <1>1, <1>6, <1>7

\* Recovery clears a marker whose directory is gone.
LEMMA RecoverClears ==
  ASSUME NEW n, NEW refs, Clears(n, refs)
  PROVE  /\ n.next = None => recover_locked(n) = {Retire5}
         /\ n.next # None => n.next = File(Unmarked(n), n.next.status)
                             /\ n.next.status \in {"torn", "written", "synced"}
         /\ n.next # None /\ n.next.status # "torn" => recover_locked(n) = {Publish12}
         /\ n.next # None /\ n.next.status = "torn" => recover_locked(n) = {}
<1> DEFINE c == CurrentOf(n)
           w == Unmarked(n)
<1>1. /\ Holds(n, refs, {}) /\ Marked(n) /\ Backed(n, refs)
      /\ \/ n.next = None
         \/ \E s \in {"torn", "written", "synced"} : n.next = File(w, s)
  BY DEF Clears, Holds
<1>2. /\ CurrentLoads(n) /\ Directories(n, "staged") = {} /\ Directories(n, "retiring") = {}
      /\ Unreferenced(n) = {} /\ ~ Ambiguous(n)
  BY <1>1, ReadsAlone
<1>3. c.retiring # NoGeneration
  BY <1>1 DEF Marked
<1>4. ASSUME n.next = None PROVE recover_locked(n) = {Retire5}
  <2>1. recover_locked(n) = RecoverUnreferenced(n)
    BY <1>2, <1>4 DEF recover_locked
  <2>2. RecoverUnreferenced(n) = {<<ClearMarker>>}
    BY <1>2, <1>3, Sizes DEF RecoverUnreferenced
  <2> QED BY <2>1, <2>2 DEF Retire5
<1>5. ASSUME NEW s \in {"torn", "written", "synced"}, n.next = File(w, s)
      PROVE  /\ n.next # None /\ n.next.status = s
             /\ recover_locked(n) = IF s = "torn" THEN {} ELSE {Publish12}
  <2>1. n.next # None /\ n.next.status = s /\ n.next.document = w
    BY <1>1, <1>5, FileFacts, UnmarkedFacts
  <2>2. recover_locked(n) = RecoverNext(n)
    BY <1>2, <2>1 DEF recover_locked
  <2>3. w # c /\ require_current_successor(c, w)
    BY <1>1, <1>3, UnmarkedFacts DEF require_current_successor, Unmarked
  <2>4. load_current_from_bytes(n, n.next) <=> s # "torn"
    <3>1. CASE s = "torn"
      BY <1>5, <3>1, TornDoesNotLoad
    <3>2. CASE s # "torn"
      BY <1>1, <1>5, <3>2, UnmarkedLoads DEF Readable
    <3> QED BY <3>1, <3>2
  <2>5. RecoverNext(n) = IF s = "torn" THEN {} ELSE {<<Switch, Sync, Cleanup>>}
    <3> HIDE DEF w
    <3> QED BY <1>2, <2>1, <2>3, <2>4 DEF RecoverNext
  <2> QED BY <2>1, <2>2, <2>5 DEF Publish12
<1> QED BY <1>1, <1>4, <1>5

\* Recovery moves a marked generation out, or empties the one moved.
LEMMA RecoverRetires ==
  ASSUME NEW n, NEW refs, NEW t, NEW d \in {Whole(t)} \cup Emptied(t), Retires(n, refs, t, d)
  PROVE  /\ d = Whole(t) => recover_locked(n) = {Retire1(t)}
         /\ d \in Emptied(t) => recover_locked(n) = {Retire4}
<1> DEFINE c == CurrentOf(n)
<1>1. /\ Holds(n, refs, {d}) /\ n.next = None /\ Backed(n, refs) /\ t.generation = c.retiring
      /\ \A e \in refs : e.of.generation = c.retained => e.of.operation # t.operation
  BY DEF Retires, Holds
<1>2. d.of = t /\ d.at = IF d = Whole(t) THEN "generations" ELSE "retiring"
  BY DirectoryFacts DEF Emptied, Whole
<1>3. /\ t.generation \notin {c.accepted, c.retained, NoGeneration}
      /\ predecessor(t.generation) # c.accepted
  BY RetiresFacts
<1>4. /\ CurrentLoads(n) /\ Directories(n, "staged") = {} /\ ~ Ambiguous(n)
      /\ Directories(n, "retiring") = IF d = Whole(t) THEN {} ELSE {d}
      /\ Unreferenced(n) = IF d = Whole(t) THEN {d} ELSE {}
  BY <1>1, <1>2, <1>3, ReadsBeside
<1>5. t.operation \notin retained_operation(n)
  BY <1>1, <1>2, <1>3, Reads
<1>6. ASSUME d = Whole(t) PROVE recover_locked(n) = {Retire1(t)}
  <2>1. recover_locked(n) = RecoverUnreferenced(n)
    BY <1>1, <1>4, <1>6 DEF recover_locked
  <2>2. Complete(d)
    BY <1>6, WholeFacts
  <2>3. RecoverUnreferenced(n) = {Append(retire_loaded_generation(d), ClearMarker)}
    BY <1>1, <1>2, <1>3, <1>4, <1>5, <1>6, <2>2, Sizes DEF RecoverUnreferenced
  <2> QED BY <1>2, <2>1, <2>3, ScriptForms
<1>7. ASSUME d # Whole(t) PROVE recover_locked(n) = {Retire4}
  BY <1>1, <1>4, <1>7 DEF recover_locked, Retire4
<1>8. d \in Emptied(t) => d # Whole(t)
  BY <1>2, DirectoryFacts DEF Emptied, Whole
<1> QED BY <1>6, <1>7, <1>8

-----------------------------------------------------------------------------
(***************************************************************************)
(* Changes of a store that leave the current document alone.               *)
(***************************************************************************)
Changes(n, file, ds) ==
  [current |-> n.current, next |-> file, directories |-> ds, launcher |-> n.launcher]

\* m is n but for its next document and the directories ys beside refs.
Keeps(n, m, refs, ys) == m = Changes(n, m.next, refs \cup ys)

\* What stays when only current.next and the directories beside the current
\* ones change.
LEMMA ChangeFacts ==
  ASSUME NEW n, NEW m, NEW refs, NEW xs, Holds(n, refs, xs), NEW ys, Keeps(n, m, refs, ys)
  PROVE  /\ Holds(m, refs, ys) /\ CurrentOf(m) = CurrentOf(n)
         /\ m.directories = refs \cup ys /\ refs \in SUBSET m.directories
         /\ (Marked(m) <=> Marked(n)) /\ Unmarked(m) = Unmarked(n)
         /\ m.launcher = n.launcher /\ m.current = n.current
         /\ \A r : Follows(m, refs, r) <=> Follows(n, refs, r)
<1>1. /\ m.current = n.current /\ m.directories = refs \cup ys
      /\ m.launcher = n.launcher
      /\ m = [current |-> m.current, next |-> m.next, directories |-> refs \cup ys,
              launcher |-> m.launcher]
  BY DEF Changes, Keeps
<1>2. CurrentOf(m) = CurrentOf(n)
  BY <1>1 DEF CurrentOf
<1>3. Backed(m, refs) /\ Launched(m)
  BY <1>1, <1>2 DEF Holds, Backed, Launched
<1>4. Holds(m, refs, ys)
  BY <1>1, <1>3 DEF Holds
<1>5. (Marked(m) <=> Marked(n)) /\ Unmarked(m) = Unmarked(n)
  BY <1>2 DEF Marked, Unmarked
<1>6. \A r : Follows(m, refs, r) <=> Follows(n, refs, r)
  BY <1>2, <1>5 DEF Follows
<1> QED BY <1>1, <1>2, <1>4, <1>5, <1>6

\* A store that differs in its launcher only.
LEMMA Relaunched ==
  ASSUME NEW n, NEW l, NEW refs, NEW xs, Holds(n, refs, xs),
         l # None => /\ l \in Generations
                     /\ l \in LauncherTargets(n)
  PROVE  LET m == [n EXCEPT !.launcher = l] IN
         /\ Holds(m, refs, xs) /\ CurrentOf(m) = CurrentOf(n) /\ m.next = n.next
         /\ m.directories = n.directories /\ m.launcher = l
         /\ (Marked(m) <=> Marked(n)) /\ Unmarked(m) = Unmarked(n)
         /\ \A r : Follows(m, refs, r) <=> Follows(n, refs, r)
<1> DEFINE m == [n EXCEPT !.launcher = l]
<1>1. n = [current |-> n.current, next |-> n.next, directories |-> refs \cup xs,
           launcher |-> n.launcher]
  BY DEF Holds
<1>2. /\ m.current = n.current /\ m.next = n.next /\ m.directories = n.directories
      /\ m.launcher = l /\ n.directories = refs \cup xs
      /\ m = [current |-> m.current, next |-> m.next, directories |-> refs \cup xs,
              launcher |-> m.launcher]
  BY <1>1
<1> HIDE DEF m
<1>3. CurrentOf(m) = CurrentOf(n)
  BY <1>2 DEF CurrentOf
<1>4. Backed(m, refs)
  BY <1>2, <1>3 DEF Holds, Backed
<1>5. Launched(m)
  BY <1>2, <1>3 DEF Launched, LauncherTargets
<1>6. Holds(m, refs, xs)
  BY <1>2, <1>4, <1>5 DEF Holds
<1>7. (Marked(m) <=> Marked(n)) /\ Unmarked(m) = Unmarked(n)
  BY <1>3 DEF Marked, Unmarked
<1>8. \A r : Follows(m, refs, r) <=> Follows(n, refs, r)
  BY <1>3, <1>7 DEF Follows
<1> QED BY <1>2, <1>3, <1>6, <1>7, <1>8 DEF m

\* A launcher rewritten to a current target leaves every shape as it is.
LEMMA RelaunchedShapes ==
  ASSUME NEW n, NEW l, l # None => l \in Generations /\ l \in LauncherTargets(n), NEW refs
  PROVE  LET m == [n EXCEPT !.launcher = l] IN
         /\ Settles(n, refs) => Settles(m, refs)
         /\ \A r, b, o : Stages(n, refs, r, b, o) => Stages(m, refs, r, b, o)
         /\ \A r : Places(n, refs, r) => Places(m, refs, r)
         /\ \A t, d : Retires(n, refs, t, d) => Retires(m, refs, t, d)
         /\ Clears(n, refs) => Clears(m, refs)
         /\ \A xs : Holds(n, refs, xs) => /\ m.directories = n.directories /\ m.next = n.next
                                          /\ CurrentOf(m) = CurrentOf(n)
                                          /\ Unmarked(m) = Unmarked(n)
                                          /\ \A r : Follows(m, refs, r) <=> Follows(n, refs, r)
<1> DEFINE m == [n EXCEPT !.launcher = l]
<1>1. ASSUME NEW xs, Holds(n, refs, xs)
      PROVE  /\ Holds(m, refs, xs) /\ CurrentOf(m) = CurrentOf(n) /\ m.next = n.next
             /\ m.directories = n.directories
             /\ (Marked(m) <=> Marked(n)) /\ Unmarked(m) = Unmarked(n)
             /\ \A r : Follows(m, refs, r) <=> Follows(n, refs, r)
  BY <1>1, Relaunched
<1> HIDE DEF m
<1>2. Settles(n, refs) => Settles(m, refs)
  BY <1>1 DEF Settles
<1>3. \A r, b, o : Stages(n, refs, r, b, o) => Stages(m, refs, r, b, o)
  BY <1>1 DEF Stages
<1>4. \A r : Places(n, refs, r) => Places(m, refs, r)
  BY <1>1 DEF Places
<1>5. \A t, d : Retires(n, refs, t, d) => Retires(m, refs, t, d)
  BY <1>1 DEF Retires
<1>6. Clears(n, refs) => Clears(m, refs)
  BY <1>1 DEF Clears
<1> QED BY <1>1, <1>2, <1>3, <1>4, <1>5, <1>6 DEF m

\* So it leaves a legal store legal,
LEMMA RelaunchedLegal ==
  ASSUME NEW n, NEW l, l # None => l \in Generations /\ l \in LauncherTargets(n), Legal(n)
  PROVE  Legal([n EXCEPT !.launcher = l])
<1> DEFINE m == [n EXCEPT !.launcher = l]
<1>1. PICK refs \in SUBSET n.directories :
        \/ Settles(n, refs)
        \/ \E r \in Requests :
             \/ \E b, o \in Statuses : Stages(n, refs, r, b, o)
             \/ Places(n, refs, r)
             \/ \E d \in {Whole(r)} \cup Emptied(r) : Retires(n, refs, r, d)
        \/ Clears(n, refs)
  BY DEF Legal
<1>2. \E xs : Holds(n, refs, xs)
  BY <1>1 DEF Settles, Stages, Places, Retires, Clears
<1>3. m.directories = n.directories
  BY <1>2, RelaunchedShapes
<1>4. /\ Settles(n, refs) => Settles(m, refs)
      /\ \A r, b, o : Stages(n, refs, r, b, o) => Stages(m, refs, r, b, o)
      /\ \A r : Places(n, refs, r) => Places(m, refs, r)
      /\ \A t, d : Retires(n, refs, t, d) => Retires(m, refs, t, d)
      /\ Clears(n, refs) => Clears(m, refs)
  BY RelaunchedShapes
<1> HIDE DEF m
<1>5. Legal(m)
  BY <1>1, <1>3, <1>4 DEF Legal
<1> QED BY <1>5 DEF m

\* and a script legal on it.
LEMMA RelaunchedRuns ==
  ASSUME NEW n, NEW l, l # None => l \in Generations /\ l \in LauncherTargets(n),
         NEW todo, Runs(n, todo)
  PROVE  Runs([n EXCEPT !.launcher = l], todo)
<1> DEFINE m == [n EXCEPT !.launcher = l]
<1>1. PICK refs \in SUBSET n.directories :
        \/ Settles(n, refs) /\ todo = <<>>
        \/ Staging(n, refs, todo) \/ Switching(n, refs, todo)
        \/ Retiring(n, refs, todo) \/ Clearing(n, refs, todo)
  BY DEF Runs
<1>2. \E xs : Holds(n, refs, xs)
  BY <1>1 DEF Settles, Stages, Places, Retires, Clears, Staging, Switching, Retiring, Clearing
<1>3. /\ m.directories = n.directories /\ m.next = n.next
      /\ CurrentOf(m) = CurrentOf(n) /\ Unmarked(m) = Unmarked(n)
      /\ \A r : Follows(m, refs, r) <=> Follows(n, refs, r)
  BY <1>2, RelaunchedShapes
<1>4. /\ Settles(n, refs) => Settles(m, refs)
      /\ \A r, b, o : Stages(n, refs, r, b, o) => Stages(m, refs, r, b, o)
      /\ \A r : Places(n, refs, r) => Places(m, refs, r)
      /\ \A t, d : Retires(n, refs, t, d) => Retires(m, refs, t, d)
      /\ Clears(n, refs) => Clears(m, refs)
  BY RelaunchedShapes
<1> HIDE DEF m
<1>5. Staging(n, refs, todo) => Staging(m, refs, todo)
  BY <1>3, <1>4 DEF Staging
<1>6. Switching(n, refs, todo) => Switching(m, refs, todo)
  BY <1>3, <1>4 DEF Switching
<1>7. Retiring(n, refs, todo) => Retiring(m, refs, todo)
  BY <1>4 DEF Retiring
<1>8. Clearing(n, refs, todo) => Clearing(m, refs, todo)
  BY <1>3, <1>4 DEF Clearing
<1>9. Runs(m, todo)
  BY <1>1, <1>3, <1>4, <1>5, <1>6, <1>7, <1>8 DEF Runs
<1> QED BY <1>9 DEF m

-----------------------------------------------------------------------------
(***************************************************************************)
(* A store with all its bytes on the disk.                                 *)
(***************************************************************************)
WrittenStatus(status) == IF status = "written" THEN "synced" ELSE status
WrittenDocument(file) ==
  IF file = None THEN None ELSE [file EXCEPT !.status = WrittenStatus(@)]
WrittenBack(n) ==
  [current |-> WrittenDocument(n.current), next |-> WrittenDocument(n.next),
   directories |-> {[at |-> d.at, of |-> d.of, binary |-> WrittenStatus(d.binary),
                     document |-> WrittenStatus(d.document)] : d \in n.directories},
   launcher |-> n.launcher]

-----------------------------------------------------------------------------
(***************************************************************************)
(* What a power loss leaves of each shape.                                 *)
(***************************************************************************)
LEMMA TornCurrent ==
  ASSUME NEW n, NEW refs, Backed(n, refs)
  PROVE  TornDocument(n.current) = {n.current} /\ WrittenDocument(n.current) = n.current
<1>1. CASE n.current = None
  BY <1>1 DEF TornDocument, WrittenDocument
<1>2. CASE n.current # None
  <2>1. n.current = File(CurrentOf(n), "synced")
    BY <1>2, BackedFacts
  <2> DEFINE f == File(CurrentOf(n), "synced")
  <2>2. f.status = "synced" /\ [f EXCEPT !.status = "synced"] = f
    BY DEF File
  <2> HIDE DEF f
  <2>3. TornDocument(n.current) = {n.current}
    BY <1>2, <2>1, <2>2 DEF TornDocument, TornFile, f
  <2>4. WrittenDocument(n.current) = n.current
    BY <1>2, <2>1, <2>2 DEF WrittenDocument, WrittenStatus, f
  <2> QED BY <2>3, <2>4
<1> QED BY <1>1, <1>2

\* What a power loss makes of a document file.
LEMMA TornNext ==
  ASSUME NEW c \in Documents, NEW s \in {"torn", "written", "synced"}
  PROVE  /\ TornDocument(File(c, s)) =
              IF s = "written" THEN {File(c, "torn"), File(c, "synced")} ELSE {File(c, s)}
         /\ WrittenDocument(File(c, s)) = File(c, IF s = "written" THEN "synced" ELSE s)
<1>1. File(c, s) # None /\ File(c, s).status = s
  BY FileFacts
<1>2. ASSUME NEW x PROVE [File(c, s) EXCEPT !.status = x] = File(c, x)
  BY DEF File
<1>3. TornDocument(File(c, s)) = {File(c, x) : x \in TornFile(s)}
  BY <1>1, <1>2 DEF TornDocument
<1>4. WrittenDocument(File(c, s)) = File(c, WrittenStatus(s))
  BY <1>1, <1>2 DEF WrittenDocument
<1> QED BY <1>3, <1>4 DEF TornFile, WrittenStatus

\* A directory whose files were synced, or never begun, is left as it is.
Kept(d) ==
  /\ d = Directory(d.at, d.of, d.binary, d.document)
  /\ d.binary # "written" /\ d.document # "written"

\* What a power loss makes of a directory.
LEMMA TornBeside ==
  ASSUME NEW at, NEW r, NEW b, NEW o, NEW lost
  PROVE  \E b2 \in TornFile(b), o2 \in TornFile(o) :
           TornDirectory(Directory(at, r, b, o), lost) = Directory(at, r, b2, o2)
<1> DEFINE e == Directory(at, r, b, o)
           b2 == Outcome(e, "binary", lost)
           o2 == Outcome(e, "document", lost)
<1>1. e.at = at /\ e.of = r /\ e["binary"] = b /\ e["document"] = o
  BY DEF Directory
<1>2. TornDirectory(e, lost) = Directory(at, r, b2, o2)
  BY <1>1 DEF TornDirectory, Directory
<1> HIDE DEF e
<1>3. b2 \in TornFile(b)
  BY <1>1 DEF Outcome, TornFile
<1>4. o2 \in TornFile(o)
  BY <1>1 DEF Outcome, TornFile
<1> HIDE DEF b2, o2
<1> QED BY <1>2, <1>3, <1>4 DEF e

\* What has nothing to tear is left as it is.
LEMMA TornKept ==
  ASSUME NEW d, Kept(d), NEW lost
  PROVE  TornDirectory(d, lost) = d
<1>1. /\ d = Directory(d.at, d.of, d.binary, d.document)
      /\ d.binary # "written" /\ d.document # "written"
  BY DEF Kept
<1>2. TornFile(d.binary) = {d.binary} /\ TornFile(d.document) = {d.document}
  BY <1>1 DEF TornFile
<1>3. PICK b2 \in TornFile(d.binary), o2 \in TornFile(d.document) :
        TornDirectory(Directory(d.at, d.of, d.binary, d.document), lost) =
          Directory(d.at, d.of, b2, o2)
  BY TornBeside
<1> QED BY <1>1, <1>2, <1>3

\* A whole directory has nothing a power loss could tear,
LEMMA WholeKept == ASSUME NEW r PROVE Kept(Whole(r))
BY WholeFacts DEF Whole, Kept

\* nor has one that is being emptied,
LEMMA EmptiedKept == ASSUME NEW t, NEW d \in Emptied(t) PROVE Kept(d)
<1>1. ASSUME NEW b \in {"synced", "absent"}, NEW o \in {"synced", "absent"}
      PROVE  Kept(Directory("retiring", t, b, o))
  BY DirectoryFacts DEF Kept
<1> QED BY <1>1 DEF Emptied

\* nor have those the current document refers to.
LEMMA BackedKept ==
  ASSUME NEW n, NEW refs, Backed(n, refs), NEW d \in refs
  PROVE  Kept(d)
<1>1. d = Whole(d.of)
  BY BackedFacts
<1>2. d.at = "generations" /\ d.binary = "synced" /\ d.document = "synced"
  BY <1>1, WholeFacts
<1> QED BY <1>1, <1>2 DEF Whole, Kept

\* The form of what a power loss leaves.
TearsTo(n, m, c, x, lost) ==
  /\ c \in TornDocument(n.current) /\ x \in TornDocument(n.next)
  /\ lost \in SUBSET WrittenFiles(n)
  /\ m = [current |-> c, next |-> x, directories |-> {TornDirectory(d, lost) : d \in n.directories},
          launcher |-> n.launcher]

\* What a power loss makes of a store, part by part.
LEMMA TornParts ==
  ASSUME NEW n, NEW m \in Torn(n)
  PROVE  \E c, x, lost : TearsTo(n, m, c, x, lost)
BY DEF Torn, TearsTo

\* No directory was left unsynced.
LEMMA TornSynced ==
  ASSUME NEW n, NEW refs, NEW xs, Holds(n, refs, xs), \A x \in xs : Kept(x), NEW m \in Torn(n)
  PROVE  Keeps(n, m, refs, xs) /\ m.next \in TornDocument(n.next)
<1>1. /\ n = [current |-> n.current, next |-> n.next, directories |-> refs \cup xs,
              launcher |-> n.launcher]
      /\ Backed(n, refs) /\ n.directories = refs \cup xs
  BY DEF Holds
<1>2. PICK c, x, lost : TearsTo(n, m, c, x, lost)
  BY TornParts
<1>3. \A d \in n.directories : TornDirectory(d, lost) = d
  BY <1>1, BackedKept, TornKept
<1>4. {TornDirectory(d, lost) : d \in n.directories} = refs \cup xs
  BY <1>1, <1>3
<1>5. c = n.current
  BY <1>1, <1>2, TornCurrent DEF TearsTo
<1>6. m = Changes(n, x, refs \cup xs) /\ m.next = x /\ x \in TornDocument(n.next)
  BY <1>1, <1>2, <1>4, <1>5 DEF Changes, TearsTo
<1> QED BY <1>6 DEF Keeps

\* One directory may be torn.
KeepsOne(n, m, refs, y) == Keeps(n, m, refs, {y}) /\ m.next \in TornDocument(n.next)

\* A power loss keeps the current directories and leaves one outcome of the
\* other.
LEMMA TornForm ==
  ASSUME NEW n, NEW refs, NEW at, NEW r, NEW b, NEW o,
         Holds(n, refs, {Directory(at, r, b, o)}), NEW m \in Torn(n)
  PROVE  \E b2 \in TornFile(b), o2 \in TornFile(o) :
           KeepsOne(n, m, refs, Directory(at, r, b2, o2))
<1> DEFINE e == Directory(at, r, b, o)
<1>1. /\ n = [current |-> n.current, next |-> n.next, directories |-> refs \cup {e},
              launcher |-> n.launcher]
      /\ Backed(n, refs) /\ n.directories = refs \cup {e}
  BY DEF Holds
<1>2. PICK c, x, lost : TearsTo(n, m, c, x, lost)
  BY TornParts
<1>3. PICK b2, o2 : /\ b2 \in TornFile(b) /\ o2 \in TornFile(o)
                    /\ TornDirectory(e, lost) = Directory(at, r, b2, o2)
  <2>1. \E b2, o2 : /\ b2 \in TornFile(b) /\ o2 \in TornFile(o)
                    /\ TornDirectory(Directory(at, r, b, o), lost) = Directory(at, r, b2, o2)
    BY TornBeside
  <2> QED BY <2>1
<1> DEFINE y == Directory(at, r, b2, o2)
<1>4. \A d \in refs : TornDirectory(d, lost) = d
  BY <1>1, BackedKept, TornKept
<1>5. TornDirectory(e, lost) = y
  BY <1>3
<1> HIDE DEF e, y
<1>6. {TornDirectory(d, lost) : d \in n.directories} = refs \cup {y}
  BY <1>1, <1>4, <1>5
<1>7. c = n.current
  BY <1>1, <1>2, TornCurrent DEF TearsTo
<1>8. m = Changes(n, x, refs \cup {y}) /\ m.next = x /\ x \in TornDocument(n.next)
  BY <1>1, <1>2, <1>6, <1>7 DEF Changes, TearsTo
<1>9. KeepsOne(n, m, refs, y)
  BY <1>8 DEF Keeps, KeepsOne
<1> QED BY <1>3, <1>9 DEF y

\* Without another directory a power loss may only tear current.next.
LEMMA TornAlone ==
  ASSUME NEW n, NEW refs, Holds(n, refs, {}), NEW m \in Torn(n)
  PROVE  /\ Keeps(n, m, refs, {}) /\ m.next \in TornDocument(n.next)
         /\ Holds(m, refs, {}) /\ CurrentOf(m) = CurrentOf(n) /\ refs \in SUBSET m.directories
         /\ (Marked(m) <=> Marked(n)) /\ Unmarked(m) = Unmarked(n)
<1> DEFINE xs == {}
<1>1. Holds(n, refs, xs) /\ \A x \in xs : Kept(x)
  OBVIOUS
<1> HIDE DEF xs
<1>2. Keeps(n, m, refs, xs) /\ m.next \in TornDocument(n.next)
  BY <1>1, TornSynced
<1>3. /\ Holds(m, refs, xs) /\ CurrentOf(m) = CurrentOf(n) /\ refs \in SUBSET m.directories
      /\ (Marked(m) <=> Marked(n)) /\ Unmarked(m) = Unmarked(n)
  BY <1>1, <1>2, ChangeFacts
<1> QED BY <1>2, <1>3 DEF xs

\* A settled store survives a power loss.
LEMMA TornSettles ==
  ASSUME NEW n, NEW refs, Settles(n, refs), NEW m \in Torn(n)
  PROVE  /\ Settles(m, refs) /\ CurrentOf(m) = CurrentOf(n) /\ refs \in SUBSET m.directories
         /\ Keeps(n, m, refs, {})
<1>1. Holds(n, refs, {}) /\ n.next = None /\ ~ Marked(n)
  BY DEF Settles
<1>2. TornDocument(n.next) = {None}
  BY <1>1 DEF TornDocument
<1> QED BY <1>1, <1>2, TornAlone DEF Settles

\* A stage survives with what its files may hold.
LEMMA TornStages ==
  ASSUME NEW n, NEW refs, NEW r, NEW b \in Statuses, NEW o \in Statuses,
         Stages(n, refs, r, b, o), NEW m \in Torn(n)
  PROVE  \E b2 \in TornFile(b), o2 \in TornFile(o) :
           /\ Stages(m, refs, r, b2, o2) /\ CurrentOf(m) = CurrentOf(n)
           /\ refs \in SUBSET m.directories
<1>1. Holds(n, refs, {Directory("staged", r, b, o)}) /\ n.next = None /\ Follows(n, refs, r)
  BY DEF Stages
<1>2. PICK b2 \in TornFile(b), o2 \in TornFile(o) :
        KeepsOne(n, m, refs, Directory("staged", r, b2, o2))
  BY <1>1, TornForm
<1> DEFINE y == Directory("staged", r, b2, o2)
<1>3. m.next = None
  BY <1>1, <1>2 DEF TornDocument, KeepsOne
<1>4. /\ Holds(m, refs, {y}) /\ CurrentOf(m) = CurrentOf(n)
      /\ Follows(m, refs, r) /\ refs \in SUBSET m.directories
  <2> DEFINE xs == {Directory("staged", r, b, o)}
             ys == {y}
  <2>1. Holds(n, refs, xs) /\ Keeps(n, m, refs, ys)
    BY <1>1, <1>2 DEF KeepsOne
  <2> HIDE DEF xs, ys
  <2>2. /\ Holds(m, refs, ys) /\ CurrentOf(m) = CurrentOf(n)
        /\ Follows(m, refs, r) /\ refs \in SUBSET m.directories
    BY <1>1, <2>1, ChangeFacts
  <2> QED BY <2>2 DEF ys
<1>5. Stages(m, refs, r, b2, o2)
  BY <1>3, <1>4 DEF Stages
<1> QED BY <1>4, <1>5

\* A whole directory, or one that is emptied, is not torn.
LEMMA TornWhole ==
  ASSUME NEW n, NEW refs, NEW d, Holds(n, refs, {d}), Kept(d), NEW m \in Torn(n)
  PROVE  /\ Keeps(n, m, refs, {d}) /\ m.next \in TornDocument(n.next) /\ Holds(m, refs, {d})
         /\ CurrentOf(m) = CurrentOf(n) /\ refs \in SUBSET m.directories
         /\ \A r : Follows(m, refs, r) <=> Follows(n, refs, r)
<1> DEFINE xs == {d}
<1>1. Holds(n, refs, xs) /\ \A x \in xs : Kept(x)
  OBVIOUS
<1> HIDE DEF xs
<1>2. Keeps(n, m, refs, xs) /\ m.next \in TornDocument(n.next)
  BY <1>1, TornSynced
<1>3. /\ Holds(m, refs, xs) /\ CurrentOf(m) = CurrentOf(n) /\ refs \in SUBSET m.directories
      /\ \A r : Follows(m, refs, r) <=> Follows(n, refs, r)
  BY <1>1, <1>2, ChangeFacts
<1> QED BY <1>2, <1>3 DEF xs

\* The document file of a power loss has the document of the file.
LEMMA TornFiles ==
  ASSUME NEW f, NEW w \in Documents,
         f = None \/ \E s \in {"torn", "written", "synced"} : f = File(w, s),
         NEW g \in TornDocument(f)
  PROVE  g = None \/ \E s \in {"torn", "written", "synced"} : g = File(w, s)
<1>1. CASE f = None
  BY <1>1 DEF TornDocument
<1>2. CASE \E s \in {"torn", "written", "synced"} : f = File(w, s)
  BY <1>2, TornNext
<1> QED BY <1>1, <1>2

\* A placed generation survives a power loss,
LEMMA TornPlaces ==
  ASSUME NEW n, NEW refs, NEW r, Places(n, refs, r), NEW m \in Torn(n)
  PROVE  /\ Places(m, refs, r) /\ CurrentOf(m) = CurrentOf(n) /\ refs \in SUBSET m.directories
<1> DEFINE w == current_successor_wire(CurrentOf(n), r)
<1>1. /\ Holds(n, refs, {Whole(r)}) /\ Follows(n, refs, r) /\ Backed(n, refs)
      /\ n.next = None \/ \E s \in {"torn", "written", "synced"} : n.next = File(w, s)
  BY DEF Places, Holds
<1>2. /\ m.next \in TornDocument(n.next) /\ Holds(m, refs, {Whole(r)})
      /\ CurrentOf(m) = CurrentOf(n) /\ refs \in SUBSET m.directories
      /\ \A x : Follows(m, refs, x) <=> Follows(n, refs, x)
  <2> DEFINE d == Whole(r)
  <2>1. Kept(d) /\ Holds(n, refs, {d})
    BY <1>1, WholeKept
  <2> HIDE DEF d
  <2>2. /\ m.next \in TornDocument(n.next) /\ Holds(m, refs, {d})
        /\ CurrentOf(m) = CurrentOf(n) /\ refs \in SUBSET m.directories
        /\ \A x : Follows(m, refs, x) <=> Follows(n, refs, x)
    BY <2>1, TornWhole
  <2> QED BY <2>2 DEF d
<1>3. w \in Documents
  BY <1>1, WireFacts
<1>4. m.next = None \/ \E s \in {"torn", "written", "synced"} : m.next = File(w, s)
  <2> HIDE DEF w
  <2> QED BY <1>1, <1>2, <1>3, TornFiles
<1>5. Places(m, refs, r)
  BY <1>1, <1>2, <1>4 DEF Places
<1> QED BY <1>2, <1>5

\* and so does a generation that is being retired,
LEMMA TornRetires ==
  ASSUME NEW n, NEW refs, NEW t, NEW d \in {Whole(t)} \cup Emptied(t), Retires(n, refs, t, d),
         NEW m \in Torn(n)
  PROVE  /\ Retires(m, refs, t, d) /\ CurrentOf(m) = CurrentOf(n) /\ refs \in SUBSET m.directories
<1>1. Holds(n, refs, {d}) /\ n.next = None
  BY DEF Retires
<1>2. Kept(d)
  BY WholeKept, EmptiedKept
<1>3. /\ m.next \in TornDocument(n.next) /\ Holds(m, refs, {d})
      /\ CurrentOf(m) = CurrentOf(n) /\ refs \in SUBSET m.directories
  BY <1>1, <1>2, TornWhole
<1>4. m.next = None
  BY <1>1, <1>3 DEF TornDocument
<1>5. Retires(m, refs, t, d)
  BY <1>3, <1>4 DEF Retires
<1> QED BY <1>3, <1>5

\* and a store whose marker is to be cleared.
LEMMA TornClears ==
  ASSUME NEW n, NEW refs, Clears(n, refs), NEW m \in Torn(n)
  PROVE  /\ Clears(m, refs) /\ CurrentOf(m) = CurrentOf(n) /\ refs \in SUBSET m.directories
<1> DEFINE w == Unmarked(n)
<1>1. /\ Holds(n, refs, {}) /\ Marked(n) /\ Backed(n, refs)
      /\ n.next = None \/ \E s \in {"torn", "written", "synced"} : n.next = File(w, s)
  BY DEF Clears, Holds
<1>2. /\ Holds(m, refs, {}) /\ CurrentOf(m) = CurrentOf(n) /\ m.next \in TornDocument(n.next)
      /\ Marked(m) /\ refs \in SUBSET m.directories /\ Unmarked(m) = w
  BY <1>1, TornAlone
<1>3. w \in Documents
  BY <1>1, UnmarkedFacts
<1>4. m.next = None \/ \E s \in {"torn", "written", "synced"} : m.next = File(w, s)
  <2> HIDE DEF w
  <2> QED BY <1>1, <1>2, <1>3, TornFiles
<1>5. Clears(m, refs)
  BY <1>2, <1>4 DEF Clears
<1> QED BY <1>2, <1>5

\* A power loss leaves a legal store legal.
LEMMA TornLegal ==
  ASSUME NEW n, Legal(n), NEW m \in Torn(n)
  PROVE  Legal(m)
<1>1. PICK refs \in SUBSET n.directories :
        \/ Settles(n, refs)
        \/ \E r \in Requests :
             \/ \E b, o \in Statuses : Stages(n, refs, r, b, o)
             \/ Places(n, refs, r)
             \/ \E d \in {Whole(r)} \cup Emptied(r) : Retires(n, refs, r, d)
        \/ Clears(n, refs)
  BY DEF Legal
<1>2. CASE Settles(n, refs)
  BY <1>2, TornSettles DEF Legal
<1>3. CASE Clears(n, refs)
  BY <1>3, TornClears DEF Legal
<1>4. ASSUME NEW r \in Requests, NEW b \in Statuses, NEW o \in Statuses, Stages(n, refs, r, b, o)
      PROVE  Legal(m)
  <2>1. PICK b2 \in TornFile(b), o2 \in TornFile(o) :
          Stages(m, refs, r, b2, o2) /\ refs \in SUBSET m.directories
    BY <1>4, TornStages
  <2>2. b2 \in Statuses /\ o2 \in Statuses
    BY <2>1 DEF TornFile, Statuses
  <2> QED BY <2>1, <2>2 DEF Legal
<1>5. ASSUME NEW r \in Requests, Places(n, refs, r) PROVE Legal(m)
  BY <1>5, TornPlaces DEF Legal
<1>6. ASSUME NEW r \in Requests, NEW d \in {Whole(r)} \cup Emptied(r), Retires(n, refs, r, d)
      PROVE  Legal(m)
  BY <1>6, TornRetires DEF Legal
<1> QED BY <1>1, <1>2, <1>3, <1>4, <1>5, <1>6

-----------------------------------------------------------------------------
(***************************************************************************)
(* A writer takes the lock.                                                *)
(***************************************************************************)
LEMMA WrittenDirectories ==
  ASSUME NEW n, NEW refs, NEW xs, Holds(n, refs, xs)
  PROVE  LET m == WrittenBack(n) IN
         /\ Keeps(n, m, refs, {[at |-> d.at, of |-> d.of, binary |-> WrittenStatus(d.binary),
                                document |-> WrittenStatus(d.document)] : d \in xs})
         /\ m.next = WrittenDocument(n.next)
<1> DEFINE written(d) == [at |-> d.at, of |-> d.of, binary |-> WrittenStatus(d.binary),
                          document |-> WrittenStatus(d.document)]
           m == WrittenBack(n)
           ys == {written(d) : d \in xs}
<1>1. Backed(n, refs) /\ n.directories = refs \cup xs
  BY DEF Holds
<1>2. m = [current |-> n.current, next |-> WrittenDocument(n.next),
           directories |-> {written(d) : d \in n.directories}, launcher |-> n.launcher]
  BY <1>1, TornCurrent DEF WrittenBack
<1>3. \A d \in refs : written(d) = d
  <2>1. ASSUME NEW d \in refs PROVE written(d) = d
    <3>1. d = Whole(d.of)
      BY <1>1, BackedFacts
    <3>2. /\ Whole(d.of).at = "generations" /\ Whole(d.of).of = d.of
          /\ Whole(d.of).binary = "synced" /\ Whole(d.of).document = "synced"
      BY WholeFacts
    <3>3. written(d) = [at |-> "generations", of |-> d.of, binary |-> "synced", document |-> "synced"]
      BY <3>1, <3>2 DEF WrittenStatus
    <3> QED BY <3>1, <3>3 DEF Whole, Directory
  <2> QED BY <2>1
<1>4. {written(d) : d \in n.directories} = refs \cup ys
  <2> HIDE DEF written
  <2> QED BY <1>1, <1>3
<1> HIDE DEF ys, written
<1>5. m = Changes(n, m.next, refs \cup ys) /\ m.next = WrittenDocument(n.next)
  BY <1>2, <1>4 DEF Changes
<1> QED BY <1>5 DEF Keeps, ys, written

\* Writing back keeps a store with the current directories only,
LEMMA WrittenAlone ==
  ASSUME NEW n, NEW refs, Holds(n, refs, {})
  PROVE  LET m == WrittenBack(n) IN
         /\ Holds(m, refs, {}) /\ CurrentOf(m) = CurrentOf(n) /\ refs \in SUBSET m.directories
         /\ (Marked(m) <=> Marked(n)) /\ Unmarked(m) = Unmarked(n)
         /\ m.next = WrittenDocument(n.next) /\ Keeps(n, m, refs, {})
<1> DEFINE m == WrittenBack(n)
           xs == {}
           ys == {[at |-> d.at, of |-> d.of, binary |-> WrittenStatus(d.binary),
                   document |-> WrittenStatus(d.document)] : d \in xs}
<1>1. Holds(n, refs, xs) /\ ys = {} /\ xs = {}
  OBVIOUS
<1> HIDE DEF xs
<1>2. Keeps(n, m, refs, ys) /\ m.next = WrittenDocument(n.next)
  BY <1>1, WrittenDirectories
<1> HIDE DEF m, ys
<1>3. /\ Holds(m, refs, ys) /\ CurrentOf(m) = CurrentOf(n) /\ refs \in SUBSET m.directories
      /\ (Marked(m) <=> Marked(n)) /\ Unmarked(m) = Unmarked(n)
  BY <1>1, <1>2, ChangeFacts
<1> QED BY <1>1, <1>2, <1>3 DEF m

\* and one with a directory beside them.
LEMMA WrittenBeside ==
  ASSUME NEW n, NEW refs, NEW at, NEW r, NEW b, NEW o,
         Holds(n, refs, {Directory(at, r, b, o)})
  PROVE  LET m == WrittenBack(n) IN
         /\ Holds(m, refs, {Directory(at, r, WrittenStatus(b), WrittenStatus(o))})
         /\ CurrentOf(m) = CurrentOf(n) /\ refs \in SUBSET m.directories
         /\ m.next = WrittenDocument(n.next)
         /\ \A x : Follows(m, refs, x) <=> Follows(n, refs, x)
         /\ Keeps(n, m, refs, {Directory(at, r, WrittenStatus(b), WrittenStatus(o))})
<1> DEFINE m == WrittenBack(n)
           e == Directory(at, r, b, o)
           f == Directory(at, r, WrittenStatus(b), WrittenStatus(o))
           written(d) == [at |-> d.at, of |-> d.of, binary |-> WrittenStatus(d.binary),
                          document |-> WrittenStatus(d.document)]
           xs == {e}
           ys == {written(d) : d \in xs}
<1>1. written(e) = f
  BY DEF Directory
<1>2. Holds(n, refs, xs)
  OBVIOUS
<1>3. ys = {f}
  <2> HIDE DEF e, f, written
  <2> QED BY <1>1
<1> HIDE DEF xs, e
<1>4. Keeps(n, m, refs, ys) /\ m.next = WrittenDocument(n.next)
  BY <1>2, WrittenDirectories
<1> HIDE DEF ys, written, m
<1>5. /\ Holds(m, refs, ys) /\ CurrentOf(m) = CurrentOf(n) /\ refs \in SUBSET m.directories
      /\ \A x : Follows(m, refs, x) <=> Follows(n, refs, x)
  BY <1>2, <1>4, ChangeFacts
<1> QED BY <1>3, <1>4, <1>5 DEF m

\* There is nothing to write back of an absent file.
LEMMA WrittenNone == WrittenDocument(None) = None
BY DEF WrittenDocument

\* What recovery reads before the bytes are written back it carries out after.
LEMMA LockRuns ==
  ASSUME NEW n, Legal(n)
  PROVE  /\ Legal(WrittenBack(n))
         /\ \A todo \in recover_locked(n) : Runs(WrittenBack(n), todo)
<1> DEFINE m == WrittenBack(n)
<1>1. PICK refs \in SUBSET n.directories :
        \/ Settles(n, refs)
        \/ \E r \in Requests :
             \/ \E b, o \in Statuses : Stages(n, refs, r, b, o)
             \/ Places(n, refs, r)
             \/ \E d \in {Whole(r)} \cup Emptied(r) : Retires(n, refs, r, d)
        \/ Clears(n, refs)
  BY DEF Legal
<1>2. CASE Settles(n, refs)
  <2>1. Holds(n, refs, {}) /\ n.next = None /\ ~ Marked(n)
    BY <1>2 DEF Settles
  <2>2. Settles(m, refs) /\ refs \in SUBSET m.directories
    BY <2>1, WrittenAlone, WrittenNone DEF Settles
  <2>3. recover_locked(n) = {<<>>}
    BY <1>2, RecoverSettled
  <2> HIDE DEF m
  <2>4. Legal(m) /\ Runs(m, <<>>)
    BY <2>2 DEF Legal, Runs
  <2> QED BY <2>3, <2>4 DEF m
<1>3. ASSUME NEW r \in Requests, NEW b \in Statuses, NEW o \in Statuses, Stages(n, refs, r, b, o)
      PROVE  Legal(m) /\ \A todo \in recover_locked(n) : Runs(m, todo)
  <2>1. Holds(n, refs, {Directory("staged", r, b, o)}) /\ n.next = None /\ Follows(n, refs, r)
    BY <1>3 DEF Stages
  <2>2. /\ Holds(m, refs, {Directory("staged", r, WrittenStatus(b), WrittenStatus(o))})
        /\ CurrentOf(m) = CurrentOf(n) /\ refs \in SUBSET m.directories
        /\ m.next = None /\ Follows(m, refs, r)
    BY <2>1, WrittenBeside, WrittenNone
  <2> HIDE DEF m
  <2>3. Stages(m, refs, r, WrittenStatus(b), WrittenStatus(o))
    BY <2>2 DEF Stages
  <2>4. WrittenStatus(b) \in Statuses /\ WrittenStatus(o) \in Statuses
    BY DEF WrittenStatus, Statuses
  <2>5. Legal(m)
    BY <2>2, <2>3, <2>4 DEF Legal
  <2>6. ASSUME NEW todo \in recover_locked(n) PROVE Runs(m, todo)
    <3>1. /\ Readable(b) /\ Readable(o)
          /\ todo = Publish7(r, current_successor_wire(CurrentOf(m), r))
      BY <1>3, <2>2, <2>6, RecoverStages
    <3>2. WrittenStatus(b) = "synced" /\ WrittenStatus(o) = "synced"
      BY <3>1 DEF Readable, WrittenStatus
    <3>3. Staging(m, refs, todo)
      BY <2>3, <3>1, <3>2 DEF Staging
    <3> QED BY <2>2, <3>3 DEF Runs
  <2> QED BY <2>5, <2>6
<1>4. ASSUME NEW r \in Requests, Places(n, refs, r)
      PROVE  Legal(m) /\ \A todo \in recover_locked(n) : Runs(m, todo)
  <2> DEFINE w == current_successor_wire(CurrentOf(n), r)
  <2>1. /\ Holds(n, refs, {Whole(r)}) /\ Follows(n, refs, r) /\ Backed(n, refs)
        /\ n.next = None \/ \E s \in {"torn", "written", "synced"} : n.next = File(w, s)
    BY <1>4 DEF Places, Holds
  <2>2. WrittenStatus("synced") = "synced"
    BY DEF WrittenStatus
  <2>3. /\ Holds(m, refs, {Whole(r)})
        /\ CurrentOf(m) = CurrentOf(n) /\ refs \in SUBSET m.directories
        /\ m.next = WrittenDocument(n.next) /\ Follows(m, refs, r)
    BY <2>1, <2>2, WrittenBeside DEF Whole
  <2>4. w \in Documents
    BY <2>1, WireFacts
  <2>5. /\ n.next = None => m.next = None
        /\ \A s \in {"torn", "written", "synced"} :
             n.next = File(w, s) => m.next = File(w, IF s = "written" THEN "synced" ELSE s)
    <3> HIDE DEF w
    <3> QED BY <2>3, <2>4, WrittenNone, TornNext
  <2> HIDE DEF m
  <2>6. Places(m, refs, r)
    <3>1. CASE n.next = None
      BY <2>3, <2>5, <3>1 DEF Places
    <3>2. ASSUME NEW s \in {"torn", "written", "synced"}, n.next = File(w, s)
          PROVE  Places(m, refs, r)
      <4>1. m.next = File(w, IF s = "written" THEN "synced" ELSE s)
        BY <2>5, <3>2
      <4>2. \E x \in {"torn", "written", "synced"} : m.next = File(w, x)
        <5> HIDE DEF w
        <5> QED BY <4>1
      <4> QED BY <2>3, <4>2 DEF Places
    <3> QED BY <2>1, <3>1, <3>2
  <2>7. Legal(m)
    BY <2>3, <2>6 DEF Legal
  <2>8. ASSUME NEW todo \in recover_locked(n) PROVE Runs(m, todo)
    <3>1. CASE n.next = None
      <4>1. todo = Publish9(w) /\ m.next = None
        BY <1>4, <2>5, <2>8, <3>1, RecoverPlaces
      <4>2. Switching(m, refs, todo)
        BY <2>3, <2>6, <4>1 DEF Switching
      <4> QED BY <2>3, <4>2 DEF Runs
    <3>2. ASSUME NEW s \in {"torn", "written", "synced"}, n.next = File(w, s)
          PROVE  Runs(m, todo)
      <4>1. n.next # None /\ n.next.status = s
        <5> HIDE DEF w
        <5> QED BY <2>4, <3>2, FileFacts
      <4>2. s # "torn" /\ todo = Publish12
        BY <1>4, <2>8, <4>1, RecoverPlaces
      <4>3. m.next = File(w, "synced")
        BY <2>5, <3>2, <4>2
      <4>4. Switching(m, refs, todo)
        BY <2>3, <2>6, <4>2, <4>3 DEF Switching
      <4> QED BY <2>3, <4>4 DEF Runs
    <3> QED BY <2>1, <3>1, <3>2
  <2> QED BY <2>7, <2>8
<1>5. ASSUME NEW t \in Requests, NEW d \in {Whole(t)} \cup Emptied(t), Retires(n, refs, t, d)
      PROVE  Legal(m) /\ \A todo \in recover_locked(n) : Runs(m, todo)
  <2>1. Holds(n, refs, {d}) /\ n.next = None
    BY <1>5 DEF Retires
  <2>2. ASSUME NEW at, NEW b \in {"synced", "absent"}, NEW o \in {"synced", "absent"},
               d = Directory(at, t, b, o)
        PROVE  /\ Holds(m, refs, {d}) /\ CurrentOf(m) = CurrentOf(n)
               /\ refs \in SUBSET m.directories /\ m.next = None
    <3>1. WrittenStatus(b) = b /\ WrittenStatus(o) = o
      BY DEF WrittenStatus
    <3>2. Holds(n, refs, {Directory(at, t, b, o)})
      BY <2>1, <2>2
    <3>3. Holds(m, refs, {Directory(at, t, b, o)})
      BY <3>1, <3>2, WrittenBeside
    <3>4. /\ CurrentOf(m) = CurrentOf(n) /\ refs \in SUBSET m.directories
          /\ m.next = WrittenDocument(n.next)
      BY <3>2, WrittenBeside
    <3> QED BY <2>1, <2>2, <3>3, <3>4, WrittenNone
  <2>3. /\ Holds(m, refs, {d}) /\ CurrentOf(m) = CurrentOf(n)
        /\ refs \in SUBSET m.directories /\ m.next = None
    BY <2>2 DEF Whole, Emptied
  <2> HIDE DEF m
  <2>4. Retires(m, refs, t, d)
    BY <1>5, <2>3 DEF Retires
  <2>5. Legal(m)
    BY <2>3, <2>4 DEF Legal
  <2>6. ASSUME NEW todo \in recover_locked(n) PROVE Runs(m, todo)
    <3>1. CASE d = Whole(t)
      <4>1. todo = Retire1(t)
        BY <1>5, <2>6, <3>1, RecoverRetires
      <4>2. Retiring(m, refs, todo)
        BY <2>4, <3>1, <4>1 DEF Retiring
      <4> QED BY <2>3, <4>2 DEF Runs
    <3>2. CASE d \in Emptied(t)
      <4>1. todo = Retire4
        BY <1>5, <2>6, <3>2, RecoverRetires
      <4>2. Retiring(m, refs, todo)
        BY <2>4, <3>2, <4>1 DEF Retiring, Emptied
      <4> QED BY <2>3, <4>2 DEF Runs
    <3> QED BY <3>1, <3>2
  <2> QED BY <2>5, <2>6
<1>6. CASE Clears(n, refs)
  <2> DEFINE w == Unmarked(n)
  <2>1. /\ Holds(n, refs, {}) /\ Marked(n) /\ Backed(n, refs)
        /\ n.next = None \/ \E s \in {"torn", "written", "synced"} : n.next = File(w, s)
    BY <1>6 DEF Clears, Holds
  <2>2. /\ Holds(m, refs, {}) /\ Marked(m) /\ Unmarked(m) = w
        /\ CurrentOf(m) = CurrentOf(n) /\ refs \in SUBSET m.directories
        /\ m.next = WrittenDocument(n.next)
    BY <2>1, WrittenAlone
  <2>3. w \in Documents
    BY <2>1, UnmarkedFacts
  <2>4. /\ n.next = None => m.next = None
        /\ \A s \in {"torn", "written", "synced"} :
             n.next = File(w, s) => m.next = File(w, IF s = "written" THEN "synced" ELSE s)
    <3> HIDE DEF w
    <3> QED BY <2>2, <2>3, WrittenNone, TornNext
  <2> HIDE DEF m
  <2>5. Clears(m, refs)
    <3>1. CASE n.next = None
      BY <2>2, <2>4, <3>1 DEF Clears
    <3>2. ASSUME NEW s \in {"torn", "written", "synced"}, n.next = File(w, s)
          PROVE  Clears(m, refs)
      <4>1. m.next = File(w, IF s = "written" THEN "synced" ELSE s)
        BY <2>4, <3>2
      <4>2. \E x \in {"torn", "written", "synced"} : m.next = File(w, x)
        <5> HIDE DEF w
        <5> QED BY <4>1
      <4> QED BY <2>2, <4>2 DEF Clears
    <3> QED BY <2>1, <3>1, <3>2
  <2>6. Legal(m)
    BY <2>2, <2>5 DEF Legal
  <2>7. ASSUME NEW todo \in recover_locked(n) PROVE Runs(m, todo)
    <3>1. CASE n.next = None
      <4>1. todo = Retire5 /\ m.next = None
        BY <1>6, <2>4, <2>7, <3>1, RecoverClears
      <4>2. Clearing(m, refs, todo)
        BY <2>5, <4>1 DEF Clearing
      <4> QED BY <2>2, <4>2 DEF Runs
    <3>2. ASSUME NEW s \in {"torn", "written", "synced"}, n.next = File(w, s)
          PROVE  Runs(m, todo)
      <4>1. n.next # None /\ n.next.status = s
        <5> HIDE DEF w
        <5> QED BY <2>3, <3>2, FileFacts
      <4>2. s # "torn" /\ todo = Publish12
        BY <1>6, <2>7, <4>1, RecoverClears
      <4>3. m.next = File(Unmarked(m), "synced")
        BY <2>2, <2>4, <3>2, <4>2
      <4>4. Switching(m, refs, todo)
        BY <2>5, <4>2, <4>3 DEF Switching
      <4> QED BY <2>2, <4>4 DEF Runs
    <3> QED BY <2>1, <3>1, <3>2
  <2> QED BY <2>6, <2>7 DEF m
<1> QED BY <1>1, <1>2, <1>3, <1>4, <1>5, <1>6

\* Where nothing is left unsynced there is nothing to write back.
LEMMA SyncedBack ==
  ASSUME NEW n, NEW refs, NEW xs, Holds(n, refs, xs), \A x \in xs : Kept(x),
         WrittenDocument(n.next) = n.next
  PROVE  WrittenBack(n) = n
<1> DEFINE written(d) == [at |-> d.at, of |-> d.of, binary |-> WrittenStatus(d.binary),
                          document |-> WrittenStatus(d.document)]
           m == WrittenBack(n)
           ys == {written(d) : d \in xs}
<1>1. Keeps(n, m, refs, ys) /\ m.next = n.next
  BY WrittenDirectories
<1>2. ASSUME NEW d \in xs PROVE written(d) = d
  <2>1. /\ d = Directory(d.at, d.of, d.binary, d.document)
        /\ d.binary # "written" /\ d.document # "written"
    BY <1>2 DEF Kept
  <2>2. WrittenStatus(d.binary) = d.binary /\ WrittenStatus(d.document) = d.document
    BY <2>1 DEF WrittenStatus
  <2> QED BY <2>1, <2>2 DEF Directory
<1> HIDE DEF written
<1>3. ys = xs
  BY <1>2
<1> HIDE DEF m, ys
<1>4. n = Changes(n, n.next, refs \cup xs)
  BY DEF Holds, Changes
<1>5. m = n
  BY <1>1, <1>3, <1>4 DEF Keeps
<1> QED BY <1>5 DEF m

\* Where nothing was left unsynced, recovery carries out what it read.
LEMMA SyncedRuns ==
  ASSUME NEW n, Legal(n), ~ Unsynced(n), NEW todo \in recover_locked(n)
  PROVE  Runs(n, todo)
<1>1. PICK refs \in SUBSET n.directories :
        \/ Settles(n, refs)
        \/ \E r \in Requests :
             \/ \E b, o \in Statuses : Stages(n, refs, r, b, o)
             \/ Places(n, refs, r)
             \/ \E d \in {Whole(r)} \cup Emptied(r) : Retires(n, refs, r, d)
        \/ Clears(n, refs)
  BY DEF Legal
<1>2. ASSUME NEW w \in Documents,
             n.next = None \/ \E s \in {"torn", "written", "synced"} : n.next = File(w, s)
      PROVE  WrittenDocument(n.next) = n.next
  <2>1. CASE n.next = None
    BY <2>1, WrittenNone
  <2>2. ASSUME NEW s \in {"torn", "written", "synced"}, n.next = File(w, s)
        PROVE  WrittenDocument(n.next) = n.next
    <3>1. n.next # None /\ n.next.status = s
      BY <2>2, FileFacts
    <3>2. s # "written"
      BY <3>1 DEF Unsynced
    <3> QED BY <2>2, <3>2, TornNext
  <2> QED BY <1>2, <2>1, <2>2
<1>3. ASSUME Holds(n, refs, {}), WrittenDocument(n.next) = n.next
      PROVE  WrittenBack(n) = n
  <2> DEFINE xs == {}
  <2>1. Holds(n, refs, xs) /\ \A x \in xs : Kept(x)
    BY <1>3
  <2> HIDE DEF xs
  <2> QED BY <1>3, <2>1, SyncedBack
<1>4. ASSUME NEW d, Holds(n, refs, {d}), Kept(d), WrittenDocument(n.next) = n.next
      PROVE  WrittenBack(n) = n
  <2> DEFINE xs == {d}
  <2>1. Holds(n, refs, xs) /\ \A x \in xs : Kept(x)
    BY <1>4
  <2> HIDE DEF xs
  <2> QED BY <1>4, <2>1, SyncedBack
<1>5. ASSUME Settles(n, refs) PROVE WrittenBack(n) = n
  BY <1>3, <1>5, WrittenNone DEF Settles
<1>6. ASSUME NEW r \in Requests, NEW b \in Statuses, NEW o \in Statuses, Stages(n, refs, r, b, o)
      PROVE  WrittenBack(n) = n
  <2> DEFINE d == Directory("staged", r, b, o)
  <2>1. Holds(n, refs, {d}) /\ n.next = None /\ d \in n.directories
    BY <1>6 DEF Stages, Holds
  <2>2. /\ d.at = "staged" /\ d.of = r /\ d.binary = b /\ d.document = o
        /\ d = Directory(d.at, d.of, d.binary, d.document)
    BY DirectoryFacts
  <2> HIDE DEF d
  <2>3. Kept(d)
    BY <2>1, <2>2 DEF Unsynced, Directories, Kept
  <2> QED BY <1>4, <2>1, <2>3, WrittenNone
<1>7. ASSUME NEW r \in Requests, Places(n, refs, r) PROVE WrittenBack(n) = n
  <2> DEFINE w == current_successor_wire(CurrentOf(n), r)
             d == Whole(r)
  <2>1. /\ Holds(n, refs, {d}) /\ Follows(n, refs, r) /\ Backed(n, refs) /\ Kept(d)
        /\ n.next = None \/ \E s \in {"torn", "written", "synced"} : n.next = File(w, s)
    BY <1>7, WholeKept DEF Places, Holds
  <2>2. w \in Documents
    BY <2>1, WireFacts
  <2> HIDE DEF w, d
  <2> QED BY <1>2, <1>4, <2>1, <2>2
<1>8. ASSUME NEW t \in Requests, NEW d \in {Whole(t)} \cup Emptied(t), Retires(n, refs, t, d)
      PROVE  WrittenBack(n) = n
  <2>1. Holds(n, refs, {d}) /\ n.next = None
    BY <1>8 DEF Retires
  <2>2. Kept(d)
    BY WholeKept, EmptiedKept
  <2> QED BY <1>4, <2>1, <2>2, WrittenNone
<1>9. ASSUME Clears(n, refs) PROVE WrittenBack(n) = n
  <2> DEFINE w == Unmarked(n)
  <2>1. /\ Holds(n, refs, {}) /\ Marked(n) /\ Backed(n, refs)
        /\ n.next = None \/ \E s \in {"torn", "written", "synced"} : n.next = File(w, s)
    BY <1>9 DEF Clears, Holds
  <2>2. w \in Documents
    BY <2>1, UnmarkedFacts
  <2> HIDE DEF w
  <2> QED BY <1>2, <1>3, <2>1, <2>2
<1>10. WrittenBack(n) = n
  BY <1>1, <1>5, <1>6, <1>7, <1>8, <1>9
<1> QED BY <1>10, LockRuns

-----------------------------------------------------------------------------
(***************************************************************************)
(* What each step makes of the store it finds.                             *)
(***************************************************************************)
\* One file, or the place, of the directory of r at at.
Rewrite(n, r, at, field, value) ==
  [n EXCEPT !.directories =
     {IF d.at = at /\ d.of = r THEN [d EXCEPT ![field] = value] ELSE d : d \in @}]

\* The steps on the files and the place of a directory, as one operator.
LEMMA AppliedFiles ==
  ASSUME NEW n, NEW r, NEW file, NEW at, NEW to
  PROVE  /\ Applied(n, Write(r, file)) = Rewrite(n, r, "staged", file, "written")
         /\ Applied(n, SyncFile(r, file)) = Rewrite(n, r, "staged", file, "synced")
         /\ Applied(n, Move(r, at, to)) = Rewrite(n, r, at, "at", to)
         /\ Applied(n, Unlink(r, at, file)) = Rewrite(n, r, at, file, "absent")
         /\ Half(n, Write(r, file)) = Rewrite(n, r, "staged", file, "torn")
<1>1. Applied(n, Write(r, file)) = Rewrite(n, r, "staged", file, "written")
  BY DEF Applied, Write, Rewrite, Changed
<1>2. Applied(n, SyncFile(r, file)) = Rewrite(n, r, "staged", file, "synced")
  BY DEF Applied, SyncFile, Rewrite, Changed
<1>3. Applied(n, Move(r, at, to)) = Rewrite(n, r, at, "at", to)
  BY DEF Applied, Move, Rewrite, Changed
<1>4. Applied(n, Unlink(r, at, file)) = Rewrite(n, r, at, file, "absent")
  BY DEF Applied, Unlink, Rewrite, Changed
<1>5. Half(n, Write(r, file)) = Rewrite(n, r, "staged", file, "torn")
  BY DEF Half, Write, Rewrite, Changed
<1> QED BY <1>1, <1>2, <1>3, <1>4, <1>5

\* The steps that change names, and the half-written document.
LEMMA AppliedNames ==
  ASSUME NEW n, NEW r, NEW at, NEW w
  PROVE  /\ Applied(n, Make(r)) = [n EXCEPT !.directories = @ \cup {Fresh(r)}]
         /\ Applied(n, RemoveDirectory(r, at)) =
              [n EXCEPT !.directories = {d \in @ : ~ (d.at = at /\ d.of = r)}]
         /\ Applied(n, WriteNext(w)) = [n EXCEPT !.next = File(w, "written")]
         /\ Applied(n, SyncNext) = [n EXCEPT !.next.status = "synced"]
         /\ Applied(n, Switch) = [n EXCEPT !.current = n.next, !.next = None]
         /\ Applied(n, Sync) = n
         /\ Half(n, WriteNext(w)) = [n EXCEPT !.next = File(w, "torn")]
<1>1. Applied(n, Make(r)) = [n EXCEPT !.directories = @ \cup {Fresh(r)}]
  BY DEF Applied, Make
<1>2. Applied(n, RemoveDirectory(r, at)) =
        [n EXCEPT !.directories = {d \in @ : ~ (d.at = at /\ d.of = r)}]
  BY DEF Applied, RemoveDirectory
<1>3. Applied(n, WriteNext(w)) = [n EXCEPT !.next = File(w, "written")]
  BY DEF Applied, WriteNext, File
<1>4. Applied(n, SyncNext) = [n EXCEPT !.next.status = "synced"]
  BY DEF Applied, SyncNext
<1>5. Applied(n, Switch) = [n EXCEPT !.current = n.next, !.next = None]
  BY DEF Applied, Switch
<1>6. Applied(n, Sync) = n
  BY DEF Applied, Sync
<1>7. Half(n, WriteNext(w)) = [n EXCEPT !.next = File(w, "torn")]
  BY DEF Half, WriteNext, File
<1> QED BY <1>1, <1>2, <1>3, <1>4, <1>5, <1>6, <1>7

\* New directories, and a new next document.
LEMMA Redirected ==
  ASSUME NEW n, NEW refs, NEW xs, Holds(n, refs, xs), NEW ys, NEW ds, ds = refs \cup ys
  PROVE  LET m == [n EXCEPT !.directories = ds] IN Keeps(n, m, refs, ys) /\ m.next = n.next
<1>1. n = [current |-> n.current, next |-> n.next, directories |-> refs \cup xs,
           launcher |-> n.launcher]
  BY DEF Holds
<1> DEFINE m == [n EXCEPT !.directories = ds]
<1>2. /\ m.next = n.next
      /\ m = [current |-> n.current, next |-> n.next, directories |-> ds, launcher |-> n.launcher]
  BY <1>1
<1> HIDE DEF m
<1>3. Keeps(n, m, refs, ys)
  BY <1>2 DEF Keeps, Changes
<1> QED BY <1>2, <1>3 DEF m

\* A step on current.next keeps the directories.
LEMMA Renexted ==
  ASSUME NEW n, NEW refs, NEW xs, Holds(n, refs, xs), NEW file
  PROVE  LET m == [n EXCEPT !.next = file] IN Keeps(n, m, refs, xs) /\ m.next = file
<1>1. n = [current |-> n.current, next |-> n.next, directories |-> refs \cup xs,
           launcher |-> n.launcher]
  BY DEF Holds
<1> DEFINE m == [n EXCEPT !.next = file]
           ds == refs \cup xs
<1>2. n = [current |-> n.current, next |-> n.next, directories |-> ds, launcher |-> n.launcher]
  BY <1>1
<1> HIDE DEF ds
<1>3. m = [current |-> n.current, next |-> file, directories |-> ds, launcher |-> n.launcher]
  BY <1>2
<1> HIDE DEF m
<1>4. m.next = file
  BY <1>3
<1>5. Keeps(n, m, refs, xs)
  BY <1>3, <1>4 DEF Keeps, Changes, ds
<1> QED BY <1>4, <1>5 DEF m

\* One directory beside those of the current document, and what becomes of it.
Beside(n, refs, x) == Holds(n, refs, {x})
Turns(n, m, refs, y) == Keeps(n, m, refs, {y}) /\ m.next = n.next

\* A step on the directory beside the current ones changes only that one.
LEMMA Rewritten ==
  ASSUME NEW n, NEW refs, NEW x, Beside(n, refs, x), NEW at, NEW r, NEW field, NEW value,
         NEW y, y = [x EXCEPT ![field] = value], x.at = at, x.of = r,
         \A d \in refs : ~ (d.at = at /\ d.of = r)
  PROVE  Turns(n, Rewrite(n, r, at, field, value), refs, y)
<1> DEFINE change(d) == IF d.at = at /\ d.of = r THEN [d EXCEPT ![field] = value] ELSE d
           xs == {x}
           ys == {y}
           ds == {change(d) : d \in n.directories}
           m == Rewrite(n, r, at, field, value)
<1>1. n.directories = refs \cup xs /\ Holds(n, refs, xs)
  BY DEF Holds, Beside
<1>2. change(x) = y /\ \A d \in refs : change(d) = d
  OBVIOUS
<1>3. m = [n EXCEPT !.directories = ds]
  BY DEF Rewrite
<1>4. ds = refs \cup ys
  <2> HIDE DEF change
  <2> QED BY <1>1, <1>2
<1> HIDE DEF ds, m, ys, xs
<1>5. Keeps(n, m, refs, ys) /\ m.next = n.next
  BY <1>1, <1>3, <1>4, Redirected
<1> QED BY <1>5 DEF m, ys, Turns

\* The directories of the current document stand elsewhere.
LEMMA Apart ==
  ASSUME NEW n, NEW refs, Backed(n, refs), NEW at, NEW r,
         at # "generations" \/ r.generation \notin {CurrentOf(n).accepted, CurrentOf(n).retained}
  PROVE  \A d \in refs : ~ (d.at = at /\ d.of = r)
BY BackedFacts, WholeFacts

\* The files and the place of such a directory.
LEMMA BesideSteps ==
  ASSUME NEW n, NEW refs, NEW at, NEW r, NEW b, NEW o,
         Beside(n, refs, Directory(at, r, b, o)),
         at # "generations" \/ r.generation \notin {CurrentOf(n).accepted, CurrentOf(n).retained},
         NEW v
  PROVE  /\ Turns(n, Rewrite(n, r, at, "binary", v), refs, Directory(at, r, v, o))
         /\ Turns(n, Rewrite(n, r, at, "document", v), refs, Directory(at, r, b, v))
         /\ Turns(n, Rewrite(n, r, at, "at", v), refs, Directory(v, r, b, o))
<1> DEFINE x == Directory(at, r, b, o)
           p == Directory(at, r, v, o)
           q == Directory(at, r, b, v)
           s == Directory(v, r, b, o)
<1>1. x.of = r /\ x.at = at
  BY DEF Directory
<1>2. p = [x EXCEPT !["binary"] = v]
  BY DEF Directory
<1>3. q = [x EXCEPT !["document"] = v]
  BY DEF Directory
<1>4. s = [x EXCEPT !["at"] = v]
  BY DEF Directory
<1>5. Backed(n, refs) /\ Beside(n, refs, x)
  BY DEF Holds, Beside
<1>6. \A d \in refs : ~ (d.at = at /\ d.of = r)
  BY <1>5, Apart
<1> HIDE DEF x, p, q, s
<1>7. Turns(n, Rewrite(n, r, at, "binary", v), refs, p)
  BY <1>1, <1>2, <1>5, <1>6, Rewritten
<1>8. Turns(n, Rewrite(n, r, at, "document", v), refs, q)
  BY <1>1, <1>3, <1>5, <1>6, Rewritten
<1>9. Turns(n, Rewrite(n, r, at, "at", v), refs, s)
  BY <1>1, <1>4, <1>5, <1>6, Rewritten
<1> QED BY <1>7, <1>8, <1>9 DEF p, q, s

-----------------------------------------------------------------------------
(***************************************************************************)
(* The generation each shape settles to, and what a power loss makes of it.*)
(***************************************************************************)
Successors(n) ==
  {d \in Directories(n, "staged") \cup Directories(n, "generations") :
     Complete(d) /\ predecessor(d.of.generation) = CurrentOf(n).accepted}

\* Settled, with the successors of the accepted generation named.
LEMMA SettledCases ==
  ASSUME NEW n
  PROVE  Settled(n) =
           IF n.next # None /\ Readable(n.next.status) THEN n.next.document.accepted
           ELSE IF Successors(n) # {} THEN (CHOOSE d \in Successors(n) : TRUE).of.generation
           ELSE CurrentOf(n).accepted
BY DEF Settled, Successors

\* No directory of the current document succeeds it.
LEMMA ReferredDoNotSucceed ==
  ASSUME NEW n, NEW refs, Backed(n, refs), NEW d \in refs
  PROVE  predecessor(d.of.generation) # CurrentOf(n).accepted
<1> DEFINE c == CurrentOf(n)
           g == d.of.generation
<1>1. g \in {c.accepted, c.retained} /\ d.of \in Requests
  BY BackedFacts
<1>2. g \in Generations
  BY <1>1, RequestFacts
<1>3. Len(predecessor(g)) = Len(g) - 1 /\ Len(g) \in Nat /\ g # NoGeneration
  BY <1>2, GenerationFacts
<1>4. Len(c.accepted) \in Nat /\ (c.retained # NoGeneration => Len(c.accepted) = Len(c.retained) + 1)
  BY Ranks
<1> QED BY <1>1, <1>3, <1>4

\* A store without another directory has no successor,
LEMMA SuccessorsAlone ==
  ASSUME NEW n, NEW refs, Holds(n, refs, {})
  PROVE  Successors(n) = {}
<1>1. n.directories = refs /\ Backed(n, refs)
  BY DEF Holds
<1> QED BY <1>1, ReferredDoNotSucceed DEF Successors, Directories

\* and one with another directory at most that one.
LEMMA SuccessorsBeside ==
  ASSUME NEW n, NEW refs, NEW x, Beside(n, refs, x)
  PROVE  Successors(n) =
           IF /\ x.at \in {"staged", "generations"} /\ Complete(x)
              /\ predecessor(x.of.generation) = CurrentOf(n).accepted
           THEN {x} ELSE {}
<1> DEFINE xs == {x}
<1>1. n.directories = refs \cup xs /\ Backed(n, refs)
  BY DEF Holds, Beside
<1>2. \A d \in refs : predecessor(d.of.generation) # CurrentOf(n).accepted
  BY <1>1, ReferredDoNotSucceed
<1> QED BY <1>1, <1>2 DEF Successors, Directories

\* A settled store settles to its accepted generation,
LEMMA SettledSettles ==
  ASSUME NEW n, NEW refs, Settles(n, refs)
  PROVE  Settled(n) = CurrentOf(n).accepted
BY SettledCases, SuccessorsAlone DEF Settles

\* a stage to its own generation once it can be read,
LEMMA SettledStages ==
  ASSUME NEW n, NEW refs, NEW r, NEW b, NEW o, Stages(n, refs, r, b, o)
  PROVE  /\ Settled(n) = IF Readable(b) /\ Readable(o) THEN r.generation ELSE CurrentOf(n).accepted
         /\ CurrentOf(n).accepted = predecessor(r.generation) /\ r \in Requests
<1> DEFINE x == Directory("staged", r, b, o)
<1>1. Beside(n, refs, x) /\ n.next = None /\ Follows(n, refs, r)
  BY DEF Stages, Beside
<1>2. predecessor(r.generation) = CurrentOf(n).accepted /\ r \in Requests
  BY <1>1 DEF Follows
<1>3. x.at = "staged" /\ x.of = r /\ (Complete(x) <=> Readable(b) /\ Readable(o))
  BY DirectoryFacts
<1> HIDE DEF x
<1>4. Successors(n) = IF Readable(b) /\ Readable(o) THEN {x} ELSE {}
  BY <1>1, <1>2, <1>3, SuccessorsBeside
<1> QED BY <1>1, <1>2, <1>3, <1>4, SettledCases

\* a placed generation to itself,
LEMMA SettledPlaces ==
  ASSUME NEW n, NEW refs, NEW r, Places(n, refs, r)
  PROVE  /\ Settled(n) = r.generation
         /\ CurrentOf(n).accepted = predecessor(r.generation) /\ r \in Requests
<1> DEFINE x == Whole(r)
           w == current_successor_wire(CurrentOf(n), r)
<1>1. /\ Beside(n, refs, x) /\ Follows(n, refs, r) /\ Backed(n, refs)
      /\ n.next = None \/ \E s \in {"torn", "written", "synced"} : n.next = File(w, s)
  BY DEF Places, Beside, Holds
<1>2. predecessor(r.generation) = CurrentOf(n).accepted /\ r \in Requests
  BY <1>1 DEF Follows
<1>3. x.at = "generations" /\ x.of = r /\ Complete(x)
  BY WholeFacts
<1>4. w \in Documents /\ w.accepted = r.generation
  BY <1>1, WireFacts
<1> HIDE DEF x, w
<1>5. Successors(n) = {x}
  BY <1>1, <1>2, <1>3, SuccessorsBeside
<1>6. n.next # None => n.next.document.accepted = r.generation
  BY <1>1, <1>4, FileFacts
<1> QED BY <1>2, <1>3, <1>5, <1>6, SettledCases

\* and a store that retires a generation
LEMMA SettledRetires ==
  ASSUME NEW n, NEW refs, NEW t, NEW d, d.of = t, Retires(n, refs, t, d)
  PROVE  Settled(n) = CurrentOf(n).accepted
<1>1. Beside(n, refs, d) /\ n.next = None
  BY DEF Retires, Beside
<1>2. predecessor(t.generation) # CurrentOf(n).accepted
  BY RetiresFacts
<1>3. Successors(n) = {}
  BY <1>1, <1>2, SuccessorsBeside
<1> QED BY <1>1, <1>3, SettledCases

\* or clears a marker to the accepted one.
LEMMA SettledClears ==
  ASSUME NEW n, NEW refs, Clears(n, refs)
  PROVE  Settled(n) = CurrentOf(n).accepted
<1>1. /\ Holds(n, refs, {}) /\ Marked(n) /\ Backed(n, refs)
      /\ n.next = None \/ \E s \in {"torn", "written", "synced"} : n.next = File(Unmarked(n), s)
  BY DEF Clears, Holds
<1>2. Unmarked(n) \in Documents /\ Unmarked(n).accepted = CurrentOf(n).accepted
  BY <1>1, UnmarkedFacts
<1>3. n.next # None => n.next.document.accepted = CurrentOf(n).accepted
  BY <1>1, <1>2, FileFacts
<1> QED BY <1>1, <1>3, SuccessorsAlone, SettledCases

\* A power loss leaves what it settles to.
Firm(n) == \A m \in Torn(n) : Settled(m) = Settled(n)

\* Every shape but a stage is firm.
LEMMA FirmShapes ==
  ASSUME NEW n, NEW refs
  PROVE  /\ Settles(n, refs) => Firm(n)
         /\ \A r : Places(n, refs, r) => Firm(n)
         /\ \A t : \A d \in {Whole(t)} \cup Emptied(t) : Retires(n, refs, t, d) => Firm(n)
         /\ Clears(n, refs) => Firm(n)
<1>1. Settles(n, refs) => Firm(n)
  BY TornSettles, SettledSettles DEF Firm
<1>2. ASSUME NEW r, Places(n, refs, r) PROVE Firm(n)
  BY <1>2, TornPlaces, SettledPlaces DEF Firm
<1>3. ASSUME NEW t, NEW d \in {Whole(t)} \cup Emptied(t), Retires(n, refs, t, d) PROVE Firm(n)
  <2>1. d.of = t
    BY DirectoryFacts DEF Emptied, Whole
  <2>2. Settled(n) = CurrentOf(n).accepted
    BY <1>3, <2>1, SettledRetires
  <2>3. ASSUME NEW m \in Torn(n) PROVE Settled(m) = CurrentOf(n).accepted
    <3>1. Retires(m, refs, t, d) /\ CurrentOf(m) = CurrentOf(n)
      BY <1>3, TornRetires
    <3> QED BY <2>1, <3>1, SettledRetires
  <2> QED BY <2>2, <2>3 DEF Firm
<1>4. Clears(n, refs) => Firm(n)
  BY TornClears, SettledClears DEF Firm
<1> QED BY <1>1, <1>2, <1>3, <1>4

\* A stage settles to its generation or to the accepted one, and to the same
\* after a power loss unless its last bytes are at stake.
LEMMA StagesTear ==
  ASSUME NEW n, NEW refs, NEW r, NEW b \in Statuses, NEW o \in Statuses,
         Stages(n, refs, r, b, o)
  PROVE  /\ \A m \in Torn(n) : Settled(m) \in {r.generation, CurrentOf(n).accepted}
         /\ ~ (Readable(b) /\ Readable(o)) \/ (b = "synced" /\ o = "synced") => Firm(n)
<1>1. ASSUME NEW m \in Torn(n)
      PROVE  \E p \in TornFile(b), q \in TornFile(o) :
               Settled(m) = IF Readable(p) /\ Readable(q) THEN r.generation
                            ELSE CurrentOf(n).accepted
  BY TornStages, SettledStages
<1>2. Settled(n) = IF Readable(b) /\ Readable(o) THEN r.generation ELSE CurrentOf(n).accepted
  BY SettledStages
<1>3. \A p \in TornFile(b) : Readable(p) => Readable(b)
  BY DEF TornFile, Readable
<1>4. \A q \in TornFile(o) : Readable(q) => Readable(o)
  BY DEF TornFile, Readable
<1>5. ASSUME b = "synced", o = "synced"
      PROVE  /\ \A p \in TornFile(b) : Readable(p)
             /\ \A q \in TornFile(o) : Readable(q)
             /\ Readable(b) /\ Readable(o)
  BY <1>5 DEF TornFile, Readable
<1> QED BY <1>1, <1>2, <1>3, <1>4, <1>5 DEF Firm

\* What such a step keeps.
LEMMA TurnsFacts ==
  ASSUME NEW n, NEW m, NEW refs, NEW x, NEW y, Beside(n, refs, x), Turns(n, m, refs, y)
  PROVE  /\ Beside(m, refs, y) /\ Holds(m, refs, {y}) /\ CurrentOf(m) = CurrentOf(n)
         /\ m.next = n.next /\ refs \in SUBSET m.directories
         /\ (Marked(m) <=> Marked(n))
         /\ \A r : Follows(m, refs, r) <=> Follows(n, refs, r)
<1> DEFINE xs == {x}
           ys == {y}
<1>1. Holds(n, refs, xs) /\ Keeps(n, m, refs, ys) /\ m.next = n.next
  BY DEF Beside, Turns
<1> HIDE DEF xs, ys
<1>2. /\ Holds(m, refs, ys) /\ CurrentOf(m) = CurrentOf(n) /\ refs \in SUBSET m.directories
      /\ (Marked(m) <=> Marked(n)) /\ \A r : Follows(m, refs, r) <=> Follows(n, refs, r)
  BY <1>1, ChangeFacts
<1> QED BY <1>1, <1>2 DEF ys, Beside

\* A step on a stage leaves a stage, or places the whole generation.
LEMMA StagesTurn ==
  ASSUME NEW n, NEW m, NEW refs, NEW r, NEW b, NEW o, Stages(n, refs, r, b, o)
  PROVE  /\ Beside(n, refs, Directory("staged", r, b, o))
         /\ \A p, q : Turns(n, m, refs, Directory("staged", r, p, q)) =>
              /\ Stages(m, refs, r, p, q) /\ CurrentOf(m) = CurrentOf(n)
              /\ refs \in SUBSET m.directories
         /\ Turns(n, m, refs, Whole(r)) =>
              /\ Places(m, refs, r) /\ m.next = None /\ CurrentOf(m) = CurrentOf(n)
              /\ refs \in SUBSET m.directories
<1> DEFINE x == Directory("staged", r, b, o)
<1>1. Beside(n, refs, x) /\ n.next = None /\ Follows(n, refs, r)
  BY DEF Stages, Beside
<1> HIDE DEF x
<1>2. ASSUME NEW y, Turns(n, m, refs, y)
      PROVE  /\ Holds(m, refs, {y}) /\ CurrentOf(m) = CurrentOf(n) /\ m.next = None
             /\ refs \in SUBSET m.directories /\ Follows(m, refs, r)
  BY <1>1, <1>2, TurnsFacts
<1>3. ASSUME NEW p, NEW q, Turns(n, m, refs, Directory("staged", r, p, q))
      PROVE  /\ Stages(m, refs, r, p, q) /\ CurrentOf(m) = CurrentOf(n)
             /\ refs \in SUBSET m.directories
  BY <1>2, <1>3 DEF Stages
<1>4. ASSUME Turns(n, m, refs, Whole(r))
      PROVE  /\ Places(m, refs, r) /\ m.next = None /\ CurrentOf(m) = CurrentOf(n)
             /\ refs \in SUBSET m.directories
  BY <1>2, <1>4 DEF Places
<1> QED BY <1>1, <1>3, <1>4 DEF x

\* A step on the generation being retired.
LEMMA RetiresTurn ==
  ASSUME NEW n, NEW m, NEW refs, NEW t, NEW d, NEW e, Retires(n, refs, t, d), Turns(n, m, refs, e)
  PROVE  Retires(m, refs, t, e) /\ refs \in SUBSET m.directories /\ CurrentOf(m) = CurrentOf(n)
<1>1. Beside(n, refs, d) /\ n.next = None
  BY DEF Retires, Beside
<1>2. /\ Holds(m, refs, {e}) /\ CurrentOf(m) = CurrentOf(n) /\ m.next = None
      /\ refs \in SUBSET m.directories
  BY <1>1, TurnsFacts
<1> QED BY <1>2 DEF Retires

\* What runs is legal.
LEMMA RunsLegal ==
  ASSUME NEW n, NEW todo, Runs(n, todo)
  PROVE  Legal(n)
<1>1. PICK refs \in SUBSET n.directories :
        \/ Settles(n, refs) /\ todo = <<>>
        \/ Staging(n, refs, todo) \/ Switching(n, refs, todo)
        \/ Retiring(n, refs, todo) \/ Clearing(n, refs, todo)
  BY DEF Runs
<1>2. {"absent", "written", "synced"} \subseteq Statuses
  BY DEF Statuses
<1>3. CASE Staging(n, refs, todo)
  BY <1>2, <1>3 DEF Staging, Legal
<1>4. CASE Switching(n, refs, todo)
  BY <1>4 DEF Switching, Legal
<1>5. CASE Retiring(n, refs, todo)
  BY <1>5 DEF Retiring, Legal, Emptied
<1>6. CASE Clearing(n, refs, todo)
  BY <1>6 DEF Clearing, Legal
<1>7. CASE Settles(n, refs)
  BY <1>7 DEF Legal
<1> QED BY <1>1, <1>3, <1>4, <1>5, <1>6, <1>7

\* The script is past the filling of a stage, or about to write its last file.
Late(todo) == todo # <<>> => Head(todo).op \notin {"Make", "Write", "SyncFile"}
WritesDocument(todo) == todo # <<>> /\ Head(todo).op = "Write" /\ Head(todo).file = "document"

\* m settles to what n settles to, also after a power loss; or to r, the
\* successor of that, unless a power loss takes it back.
Level(n, m) == Settled(m) = Settled(n) /\ Firm(m)
Rises(n, m, r) ==
  /\ r \in Requests /\ Settled(m) = r.generation /\ Settled(n) = predecessor(r.generation)
  /\ \A k \in Torn(m) : Settled(k) \in {Settled(m), Settled(n)}

\* The writer's next step can be taken and leaves a script that runs; a write
\* that stops half way leaves something legal; and only the last file of a
\* stage changes what the store settles to.
Carries(n, todo) ==
  LET s == Head(todo)  rest == Tail(todo) IN
  /\ todo # <<>>
  /\ IF s \in Procedures
     THEN /\ Expand(s, n) # {}
          /\ \A script \in Expand(s, n) : Runs(n, script \o rest) /\ Late(script \o rest)
     ELSE /\ Runs(Applied(n, s), rest)
          /\ IF WritesDocument(todo) THEN Rises(n, Applied(n, s), s.of) ELSE Level(n, Applied(n, s))
          /\ WritesDocument(rest) => Commits(s)
          /\ Late(todo) => Late(rest)
  /\ s.op \in {"Write", "WriteNext"} => Legal(Half(n, s)) /\ Level(n, Half(n, s))

\* A step is carried when what it leaves is where the rest of the script goes
\* on.
LEMMA CarriesStep ==
  ASSUME NEW n, NEW todo, NEW s, NEW rest, todo # <<>>, Head(todo) = s, Tail(todo) = rest,
         s.op \notin {"Cleanup", "FinishRetirement", "ClearMarker", "Write"}, Late(rest),
         Runs(Applied(n, s), rest), Level(n, Applied(n, s)),
         s.op = "WriteNext" => Legal(Half(n, s)) /\ Level(n, Half(n, s))
  PROVE  Carries(n, todo)
<1>1. s \notin Procedures
  BY DEF Procedures, Cleanup, FinishRetirement, ClearMarker
<1>2. ~ WritesDocument(todo) /\ ~ WritesDocument(rest)
  BY DEF WritesDocument, Late
<1> QED BY <1>1, <1>2 DEF Carries

\* The steps that make and fill a stage, up to its last file,
LEMMA CarriesEarly ==
  ASSUME NEW n, NEW todo, NEW s, NEW rest, todo # <<>>, Head(todo) = s, Tail(todo) = rest,
         s.op \in {"Make", "Write", "SyncFile"}, s.op = "Write" => s.file # "document",
         Commits(s) \/ ~ WritesDocument(rest), Runs(Applied(n, s), rest), Level(n, Applied(n, s)),
         s.op = "Write" => Legal(Half(n, s)) /\ Level(n, Half(n, s))
  PROVE  Carries(n, todo)
<1>1. s \notin Procedures
  BY DEF Procedures, Cleanup, FinishRetirement, ClearMarker
<1>2. ~ WritesDocument(todo) /\ ~ Late(todo)
  BY DEF WritesDocument, Late
<1> QED BY <1>1, <1>2 DEF Carries

\* and the last file.
LEMMA CarriesDocument ==
  ASSUME NEW n, NEW todo, NEW s, NEW rest, todo # <<>>, Head(todo) = s, Tail(todo) = rest,
         s.op = "Write", s.file = "document", ~ WritesDocument(rest),
         Runs(Applied(n, s), rest), Rises(n, Applied(n, s), s.of),
         Legal(Half(n, s)) /\ Level(n, Half(n, s))
  PROVE  Carries(n, todo)
<1>1. s \notin Procedures
  BY DEF Procedures, Cleanup, FinishRetirement, ClearMarker
<1>2. WritesDocument(todo) /\ ~ Late(todo)
  BY DEF WritesDocument, Late
<1> QED BY <1>1, <1>2 DEF Carries

\* A step on a stage that does not change whether it is complete.
LEMMA StagesLevel ==
  ASSUME NEW n, NEW m, NEW refs, NEW r, NEW b, NEW o, NEW p \in Statuses, NEW q \in Statuses,
         Stages(n, refs, r, b, o), Stages(m, refs, r, p, q), CurrentOf(m) = CurrentOf(n),
         Readable(b) /\ Readable(o) <=> Readable(p) /\ Readable(q),
         ~ (Readable(p) /\ Readable(q)) \/ (p = "synced" /\ q = "synced")
  PROVE  Level(n, m)
<1>1. Settled(m) = Settled(n)
  BY SettledStages
<1>2. Firm(m)
  BY StagesTear
<1> QED BY <1>1, <1>2 DEF Level

\* A procedure is carried when its script, with the rest behind it, is legal.
LEMMA CarriesProcedure ==
  ASSUME NEW n, NEW todo, NEW s, NEW rest, todo # <<>>, Head(todo) = s, Tail(todo) = rest,
         s \in Procedures, NEW script, Expand(s, n) = {script}, Runs(n, script \o rest),
         Late(script \o rest)
  PROVE  Carries(n, todo)
<1>1. s.op \notin {"Write", "WriteNext"}
  BY DEF Procedures, Cleanup, FinishRetirement, ClearMarker
<1> QED BY <1>1 DEF Carries

\* A sync leaves the names alone.
LEMMA CarriesSync ==
  ASSUME NEW n, NEW todo, NEW rest, todo # <<>>, Head(todo) = Sync, Tail(todo) = rest,
         Runs(n, rest), Late(rest), Firm(n)
  PROVE  Carries(n, todo)
<1>1. Sync.op = "Sync"
  BY DEF Sync
<1>2. Applied(n, Sync) = n
  BY AppliedNames
<1>3. Level(n, Applied(n, Sync))
  BY <1>2 DEF Level
<1> QED BY <1>1, <1>2, <1>3, CarriesStep

\* A script is late by its first step.
LEMMA LateStart ==
  ASSUME NEW todo, NEW s, todo # <<>>, Head(todo) = s,
         s.op \notin {"Make", "Write", "SyncFile"}
  PROVE  Late(todo)
BY DEF Late

\* The script of a publication is late once its stage is filled.
LEMMA LatePublish ==
  ASSUME NEW r, NEW w
  PROVE  /\ Late(Publish6(r, w)) /\ Late(Publish7(r, w)) /\ Late(Publish8(w)) /\ Late(Publish9(w))
         /\ Late(Publish10) /\ Late(Publish11) /\ Late(Publish12) /\ Late(Publish13)
         /\ Late(Publish14) /\ Late(<<>>)
<1>1. Late(<<>>)
  BY DEF Late
<1>2. Sync.op = "Sync" /\ Move(r, "staged", "generations").op = "Move"
  BY DEF Sync, Move
<1>3. WriteNext(w).op = "WriteNext" /\ SyncNext.op = "SyncNext" /\ Switch.op = "Switch"
  BY DEF WriteNext, SyncNext, Switch
<1>4. Cleanup.op = "Cleanup"
  BY DEF Cleanup
<1>5. Late(Publish6(r, w)) /\ Late(Publish8(w)) /\ Late(Publish11) /\ Late(Publish13)
  BY <1>2, PublishSteps, LateStart
<1>6. Late(Publish7(r, w))
  BY <1>2, PublishSteps, LateStart
<1>7. Late(Publish9(w)) /\ Late(Publish10) /\ Late(Publish12)
  BY <1>3, PublishSteps, LateStart
<1>8. Late(Publish14)
  BY <1>4, PublishSteps, LateStart
<1> QED BY <1>1, <1>5, <1>6, <1>7, <1>8

\* The scripts of a retirement are late,
LEMMA LateRetire ==
  ASSUME NEW t
  PROVE  /\ Late(Retire1(t)) /\ Late(Retire2) /\ Late(Retire3) /\ Late(Retire4) /\ Late(Retire5)
         /\ Late(Empty1(t)) /\ Late(Empty2(t)) /\ Late(Empty3(t)) /\ Late(Empty4(t))
         /\ Late(Empty5(t)) /\ Late(Empty6)
<1>1. Sync.op = "Sync" /\ Move(t, "generations", "retiring").op = "Move"
  BY DEF Sync, Move
<1>2. FinishRetirement.op = "FinishRetirement" /\ ClearMarker.op = "ClearMarker"
  BY DEF FinishRetirement, ClearMarker
<1>3. /\ Unlink(t, "retiring", "binary").op = "Unlink" /\ Unlink(t, "retiring", "document").op = "Unlink"
      /\ RemoveDirectory(t, "retiring").op = "RemoveDirectory"
  BY DEF Unlink, RemoveDirectory
<1>4. Late(Retire1(t)) /\ Late(Retire2) /\ Late(Retire3)
  BY <1>1, RetireSteps, LateStart
<1>5. Late(Retire4) /\ Late(Retire5)
  BY <1>2, RetireSteps, LateStart
<1>6. Late(Empty2(t)) /\ Late(Empty4(t)) /\ Late(Empty6)
  BY <1>1, EmptySteps, LateStart
<1>7. Late(Empty1(t)) /\ Late(Empty3(t)) /\ Late(Empty5(t))
  BY <1>3, EmptySteps, LateStart
<1> QED BY <1>4, <1>5, <1>6, <1>7

\* and so are those that clear the marker.
LEMMA LateClear ==
  ASSUME NEW w
  PROVE  Late(Clear1(w)) /\ Late(Clear2) /\ Late(Clear3) /\ Late(Clear4) /\ Late(Clear5)
<1>1. WriteNext(w).op = "WriteNext" /\ SyncNext.op = "SyncNext" /\ Switch.op = "Switch"
  BY DEF WriteNext, SyncNext, Switch
<1>2. Sync.op = "Sync"
  BY DEF Sync
<1>3. Late(Clear1(w)) /\ Late(Clear2) /\ Late(Clear4)
  BY <1>1, ClearSteps, LateStart
<1>4. Late(Clear3) /\ Late(Clear5)
  BY <1>2, ClearSteps, LateStart
<1> QED BY <1>3, <1>4

-----------------------------------------------------------------------------
(***************************************************************************)
(* Every row of a script carries over to the next one.                     *)
(***************************************************************************)
\* The stage.
LEMMA StagingCarries ==
  ASSUME NEW n, NEW refs \in SUBSET n.directories, NEW todo, Staging(n, refs, todo)
  PROVE  Carries(n, todo)
<1>1. ASSUME NEW r \in Requests, Settles(n, refs), Follows(n, refs, r),
             todo = Publish1(r, current_successor_wire(CurrentOf(n), r))
      PROVE  Carries(n, todo)
  <2> DEFINE w == current_successor_wire(CurrentOf(n), r)
             s == Make(r)
             xs == {}
             ys == {Directory("staged", r, "absent", "absent")}
             ds == n.directories \cup {Fresh(r)}
             m == [n EXCEPT !.directories = ds]
  <2>1. todo # <<>> /\ Head(todo) = s /\ Tail(todo) = Publish2(r, w)
    BY <1>1, PublishSteps
  <2>a. s.op = "Make"
    BY DEF Make
  <2>b. ~ WritesDocument(Publish2(r, w))
    BY PublishSteps DEF WritesDocument, Write
  <2>2. Applied(n, s) = m
    BY AppliedNames
  <2>3. Holds(n, refs, xs) /\ n.directories = refs \cup xs /\ n.next = None /\ xs = {}
    BY <1>1 DEF Settles, Holds
  <2>4. ds = refs \cup ys
    BY <2>3 DEF Fresh, Directory
  <2> HIDE DEF xs, ys, ds
  <2>5. Keeps(n, m, refs, ys) /\ m.next = n.next
    BY <2>3, <2>4, Redirected
  <2> HIDE DEF m, s
  <2>6. /\ Holds(m, refs, ys) /\ CurrentOf(m) = CurrentOf(n) /\ refs \in SUBSET m.directories
        /\ Follows(m, refs, r)
    BY <1>1, <2>3, <2>5, ChangeFacts
  <2>7. Stages(m, refs, r, "absent", "absent")
    BY <2>3, <2>5, <2>6 DEF Stages, ys
  <2>8. Staging(m, refs, Publish2(r, w))
    BY <2>6, <2>7 DEF Staging
  <2>9. Runs(m, Publish2(r, w))
    BY <2>6, <2>8 DEF Runs
  <2>10. Level(n, m)
    <3>1. ~ Readable("absent")
      BY DEF Readable
    <3>2. Settled(n) = CurrentOf(n).accepted
      BY <1>1, SettledSettles
    <3>3. Settled(m) = CurrentOf(m).accepted
      BY <2>7, <3>1, SettledStages
    <3>4. Firm(m)
      BY <2>7, <3>1, StagesTear DEF Statuses
    <3> QED BY <2>6, <3>2, <3>3, <3>4 DEF Level
  <2> HIDE DEF w
  <2> QED BY <2>1, <2>a, <2>b, <2>2, <2>9, <2>10, CarriesEarly
<1>2. ASSUME NEW r \in Requests, Stages(n, refs, r, "absent", "absent"),
             todo = Publish2(r, current_successor_wire(CurrentOf(n), r))
      PROVE  Carries(n, todo)
  <2> DEFINE w == current_successor_wire(CurrentOf(n), r)
             rest == Publish3(r, w)
             s == Write(r, "binary")
             m == Rewrite(n, r, "staged", "binary", "written")
             h == Rewrite(n, r, "staged", "binary", "torn")
  <2>1. todo # <<>> /\ Head(todo) = s /\ Tail(todo) = rest
    BY <1>2, PublishSteps
  <2>2. s.op = "Write" /\ s.file = "binary" /\ s.of = r
    BY DEF Write
  <2>3. Applied(n, s) = m /\ Half(n, s) = h
    BY AppliedFiles
  <2>4. ~ WritesDocument(rest)
    BY PublishSteps DEF WritesDocument, SyncFile
  <2>5. Beside(n, refs, Directory("staged", r, "absent", "absent"))
    BY <1>2, StagesTurn
  <2>6. Turns(n, m, refs, Directory("staged", r, "written", "absent"))
    BY <2>5, BesideSteps
  <2> HIDE DEF m, s
  <2>7. /\ Stages(m, refs, r, "written", "absent") /\ CurrentOf(m) = CurrentOf(n)
        /\ refs \in SUBSET m.directories
    BY <1>2, <2>6, StagesTurn
  <2>8. Staging(m, refs, rest)
    BY <2>7 DEF Staging
  <2>9. Runs(m, rest)
    BY <2>7, <2>8 DEF Runs
  <2>10. Level(n, m)
    BY <1>2, <2>7, StagesLevel DEF Statuses, Readable
  <2>11. Turns(n, h, refs, Directory("staged", r, "torn", "absent"))
    BY <2>5, BesideSteps
  <2> HIDE DEF h
  <2>12. /\ Stages(h, refs, r, "torn", "absent") /\ CurrentOf(h) = CurrentOf(n)
         /\ refs \in SUBSET h.directories
    BY <1>2, <2>11, StagesTurn
  <2>13. Legal(h)
    BY <2>12 DEF Legal, Statuses
  <2>14. Level(n, h)
    BY <1>2, <2>12, StagesLevel DEF Statuses, Readable
  <2> HIDE DEF rest
  <2> QED BY <2>1, <2>2, <2>3, <2>4, <2>9, <2>10, <2>13, <2>14, CarriesEarly
<1>3. ASSUME NEW r \in Requests, Stages(n, refs, r, "written", "absent"),
             todo = Publish3(r, current_successor_wire(CurrentOf(n), r))
      PROVE  Carries(n, todo)
  <2> DEFINE w == current_successor_wire(CurrentOf(n), r)
             rest == Publish4(r, w)
             s == SyncFile(r, "binary")
             m == Rewrite(n, r, "staged", "binary", "synced")
  <2>1. todo # <<>> /\ Head(todo) = s /\ Tail(todo) = rest
    BY <1>3, PublishSteps
  <2>2. s.op = "SyncFile" /\ s.file = "binary" /\ s.of = r
    BY DEF SyncFile
  <2>3. Applied(n, s) = m
    BY AppliedFiles
  <2>4. Commits(s)
    BY <2>2 DEF Commits
  <2>5. Beside(n, refs, Directory("staged", r, "written", "absent"))
    BY <1>3, StagesTurn
  <2>6. Turns(n, m, refs, Directory("staged", r, "synced", "absent"))
    BY <2>5, BesideSteps
  <2> HIDE DEF m, s
  <2>7. /\ Stages(m, refs, r, "synced", "absent") /\ CurrentOf(m) = CurrentOf(n)
        /\ refs \in SUBSET m.directories
    BY <1>3, <2>6, StagesTurn
  <2>8. Staging(m, refs, rest)
    BY <2>7 DEF Staging
  <2>9. Runs(m, rest)
    BY <2>7, <2>8 DEF Runs
  <2>10. Level(n, m)
    BY <1>3, <2>7, StagesLevel DEF Statuses, Readable
  <2> HIDE DEF rest
  <2> QED BY <2>1, <2>2, <2>3, <2>4, <2>9, <2>10, CarriesEarly
<1>4. ASSUME NEW r \in Requests, Stages(n, refs, r, "synced", "absent"),
             todo = Publish4(r, current_successor_wire(CurrentOf(n), r))
      PROVE  Carries(n, todo)
  <2> DEFINE w == current_successor_wire(CurrentOf(n), r)
             rest == Publish5(r, w)
             s == Write(r, "document")
             m == Rewrite(n, r, "staged", "document", "written")
             h == Rewrite(n, r, "staged", "document", "torn")
  <2>1. todo # <<>> /\ Head(todo) = s /\ Tail(todo) = rest
    BY <1>4, PublishSteps
  <2>2. s.op = "Write" /\ s.file = "document" /\ s.of = r
    BY DEF Write
  <2>3. Applied(n, s) = m /\ Half(n, s) = h
    BY AppliedFiles
  <2>4. ~ WritesDocument(rest)
    BY PublishSteps DEF WritesDocument, SyncFile
  <2>5. Beside(n, refs, Directory("staged", r, "synced", "absent"))
    BY <1>4, StagesTurn
  <2>6. Turns(n, m, refs, Directory("staged", r, "synced", "written"))
    BY <2>5, BesideSteps
  <2> HIDE DEF m, s
  <2>7. /\ Stages(m, refs, r, "synced", "written") /\ CurrentOf(m) = CurrentOf(n)
        /\ refs \in SUBSET m.directories
    BY <1>4, <2>6, StagesTurn
  <2>8. Staging(m, refs, rest)
    BY <2>7 DEF Staging
  <2>9. Runs(m, rest)
    BY <2>7, <2>8 DEF Runs
  <2>10. Rises(n, m, r)
    <3>1. ~ Readable("absent") /\ Readable("synced") /\ Readable("written")
      BY DEF Readable
    <3>2. Settled(n) = CurrentOf(n).accepted /\ CurrentOf(n).accepted = predecessor(r.generation)
      BY <1>4, <3>1, SettledStages
    <3>3. Settled(m) = r.generation
      BY <2>7, <3>1, SettledStages
    <3>4. \A k \in Torn(m) : Settled(k) \in {r.generation, CurrentOf(m).accepted}
      BY <2>7, StagesTear DEF Statuses
    <3> QED BY <2>7, <3>2, <3>3, <3>4 DEF Rises
  <2>11. Turns(n, h, refs, Directory("staged", r, "synced", "torn"))
    BY <2>5, BesideSteps
  <2> HIDE DEF h
  <2>12. /\ Stages(h, refs, r, "synced", "torn") /\ CurrentOf(h) = CurrentOf(n)
         /\ refs \in SUBSET h.directories
    BY <1>4, <2>11, StagesTurn
  <2>13. Legal(h)
    BY <2>12 DEF Legal, Statuses
  <2>14. Level(n, h)
    BY <1>4, <2>12, StagesLevel DEF Statuses, Readable
  <2> HIDE DEF rest
  <2> QED BY <2>1, <2>2, <2>3, <2>4, <2>9, <2>10, <2>13, <2>14, CarriesDocument
<1>5. ASSUME NEW r \in Requests, Stages(n, refs, r, "synced", "written"),
             todo = Publish5(r, current_successor_wire(CurrentOf(n), r))
      PROVE  Carries(n, todo)
  <2> DEFINE w == current_successor_wire(CurrentOf(n), r)
             rest == Publish6(r, w)
             s == SyncFile(r, "document")
             m == Rewrite(n, r, "staged", "document", "synced")
  <2>1. todo # <<>> /\ Head(todo) = s /\ Tail(todo) = rest
    BY <1>5, PublishSteps
  <2>2. s.op = "SyncFile" /\ s.file = "document" /\ s.of = r
    BY DEF SyncFile
  <2>3. Applied(n, s) = m
    BY AppliedFiles
  <2>4. Commits(s)
    BY <2>2 DEF Commits
  <2>5. Beside(n, refs, Directory("staged", r, "synced", "written"))
    BY <1>5, StagesTurn
  <2>6. Turns(n, m, refs, Directory("staged", r, "synced", "synced"))
    BY <2>5, BesideSteps
  <2> HIDE DEF m, s
  <2>7. /\ Stages(m, refs, r, "synced", "synced") /\ CurrentOf(m) = CurrentOf(n)
        /\ refs \in SUBSET m.directories
    BY <1>5, <2>6, StagesTurn
  <2>8. Staging(m, refs, rest)
    BY <2>7 DEF Staging
  <2>9. Runs(m, rest)
    BY <2>7, <2>8 DEF Runs
  <2>10. Level(n, m)
    BY <1>5, <2>7, StagesLevel DEF Statuses, Readable
  <2> HIDE DEF rest
  <2> QED BY <2>1, <2>2, <2>3, <2>4, <2>9, <2>10, CarriesEarly
<1>6. ASSUME NEW r \in Requests, Stages(n, refs, r, "synced", "synced"),
             todo = Publish6(r, current_successor_wire(CurrentOf(n), r))
      PROVE  Carries(n, todo)
  <2> DEFINE w == current_successor_wire(CurrentOf(n), r)
  <2>1. todo # <<>> /\ Head(todo) = Sync /\ Tail(todo) = Publish7(r, w)
    BY <1>6, PublishSteps
  <2>2. Staging(n, refs, Publish7(r, w))
    BY <1>6 DEF Staging
  <2>3. Runs(n, Publish7(r, w))
    BY <2>2 DEF Runs
  <2>4. Firm(n)
    BY <1>6, StagesTear DEF Statuses
  <2>5. Late(Publish7(r, w))
    BY LatePublish
  <2> HIDE DEF w
  <2> QED BY <2>1, <2>3, <2>4, <2>5, CarriesSync
<1>7. ASSUME NEW r \in Requests, Stages(n, refs, r, "synced", "synced"),
             todo = Publish7(r, current_successor_wire(CurrentOf(n), r))
      PROVE  Carries(n, todo)
  <2> DEFINE w == current_successor_wire(CurrentOf(n), r)
             s == Move(r, "staged", "generations")
             m == Rewrite(n, r, "staged", "at", "generations")
  <2>1. todo # <<>> /\ Head(todo) = s /\ Tail(todo) = Publish8(w)
    BY <1>7, PublishSteps
  <2>2. Applied(n, s) = m
    BY AppliedFiles
  <2>a. s.op = "Move"
    BY DEF Move
  <2>3. Beside(n, refs, Directory("staged", r, "synced", "synced"))
    BY <1>7, StagesTurn
  <2>4. Turns(n, m, refs, Directory("generations", r, "synced", "synced"))
    BY <2>3, BesideSteps
  <2> HIDE DEF m, s
  <2>5. /\ Places(m, refs, r) /\ m.next = None /\ CurrentOf(m) = CurrentOf(n)
        /\ refs \in SUBSET m.directories
    BY <1>7, <2>4, StagesTurn DEF Whole
  <2>6. Switching(m, refs, Publish8(w))
    BY <2>5 DEF Switching
  <2>7. Runs(m, Publish8(w))
    BY <2>5, <2>6 DEF Runs
  <2>8. Level(n, m)
    <3>1. Settled(n) = r.generation
      BY <1>7, SettledStages DEF Readable
    <3>2. Settled(m) = r.generation
      BY <2>5, SettledPlaces
    <3>3. Firm(m)
      BY <2>5, FirmShapes
    <3> QED BY <3>1, <3>2, <3>3 DEF Level
  <2>9. Late(Publish8(w))
    BY LatePublish
  <2> HIDE DEF w
  <2> QED BY <2>1, <2>a, <2>2, <2>7, <2>8, <2>9, CarriesStep
<1> QED BY <1>1, <1>2, <1>3, <1>4, <1>5, <1>6, <1>7 DEF Staging

\* Within a shape, a store settles to the same generation.
LEMMA PlacesLevel ==
  ASSUME NEW n, NEW m, NEW refs, NEW r, Places(n, refs, r), Places(m, refs, r)
  PROVE  Level(n, m)
BY SettledPlaces, FirmShapes DEF Level

\* The directory being retired is that of its request.
LEMMA EmptiedOf == ASSUME NEW t, NEW d \in {Whole(t)} \cup Emptied(t) PROVE d.of = t
BY DirectoryFacts DEF Emptied, Whole

\* A store that goes on to retire a generation settles to the accepted one,
LEMMA RetiresLevel ==
  ASSUME NEW n, NEW m, NEW refs, NEW t, NEW d \in {Whole(t)} \cup Emptied(t),
         Retires(m, refs, t, d), Settled(n) = CurrentOf(m).accepted
  PROVE  Level(n, m)
<1>1. d.of = t
  BY EmptiedOf
<1>2. Settled(m) = CurrentOf(m).accepted
  BY <1>1, SettledRetires
<1>3. Firm(m)
  BY FirmShapes
<1> QED BY <1>2, <1>3 DEF Level

\* as does one that goes on to clear the marker,
LEMMA ClearsLevel ==
  ASSUME NEW n, NEW m, NEW refs, Clears(m, refs), Settled(n) = CurrentOf(m).accepted
  PROVE  Level(n, m)
BY SettledClears, FirmShapes DEF Level

\* and one with nothing left to do.
LEMMA SettlesLevel ==
  ASSUME NEW n, NEW m, NEW refs, Settles(m, refs), Settled(n) = CurrentOf(m).accepted
  PROVE  Level(n, m)
BY SettledSettles, FirmShapes DEF Level

\* The next document is written.
LEMMA PlacesNext ==
  ASSUME NEW n, NEW refs, NEW r, Places(n, refs, r), NEW s \in {"torn", "written", "synced"}
  PROVE  LET w == current_successor_wire(CurrentOf(n), r)
             m == [n EXCEPT !.next = File(w, s)] IN
         /\ Places(m, refs, r) /\ m.next = File(w, s) /\ CurrentOf(m) = CurrentOf(n)
         /\ refs \in SUBSET m.directories
<1> DEFINE w == current_successor_wire(CurrentOf(n), r)
           f == File(w, s)
           m == [n EXCEPT !.next = f]
           xs == {Whole(r)}
<1>1. Holds(n, refs, xs) /\ Follows(n, refs, r)
  BY DEF Places
<1> HIDE DEF xs, f
<1>2. Keeps(n, m, refs, xs) /\ m.next = f
  BY <1>1, Renexted
<1> HIDE DEF m
<1>3. /\ Holds(m, refs, xs) /\ CurrentOf(m) = CurrentOf(n) /\ refs \in SUBSET m.directories
      /\ Follows(m, refs, r)
  BY <1>1, <1>2, ChangeFacts
<1>4. Places(m, refs, r)
  BY <1>2, <1>3 DEF Places, xs, f
<1> QED BY <1>2, <1>3, <1>4 DEF m, f

\* The document without the marker may be written while the marker is to be
\* cleared.
LEMMA ClearsNext ==
  ASSUME NEW n, NEW refs, Clears(n, refs), NEW s \in {"torn", "written", "synced"}
  PROVE  LET m == [n EXCEPT !.next = File(Unmarked(n), s)] IN
         /\ Clears(m, refs) /\ m.next = File(Unmarked(n), s) /\ Unmarked(m) = Unmarked(n)
         /\ refs \in SUBSET m.directories /\ CurrentOf(m) = CurrentOf(n)
<1> DEFINE f == File(Unmarked(n), s)
           m == [n EXCEPT !.next = f]
           xs == {}
<1>1. Holds(n, refs, xs) /\ Marked(n)
  BY DEF Clears
<1> HIDE DEF xs, f
<1>2. Keeps(n, m, refs, xs) /\ m.next = f
  BY <1>1, Renexted
<1> HIDE DEF m
<1>3. /\ Holds(m, refs, xs) /\ refs \in SUBSET m.directories
      /\ Marked(m) /\ Unmarked(m) = Unmarked(n) /\ CurrentOf(m) = CurrentOf(n)
  BY <1>1, <1>2, ChangeFacts
<1>4. Clears(m, refs)
  BY <1>2, <1>3 DEF Clears, xs, f
<1> QED BY <1>2, <1>3, <1>4 DEF m, f

\* Syncing current.next.
LEMMA SyncedNext ==
  ASSUME NEW n, NEW w, n.next = File(w, "written")
  PROVE  Applied(n, SyncNext) = [n EXCEPT !.next = File(w, "synced")]
<1>1. Applied(n, SyncNext) = [n EXCEPT !.next.status = "synced"]
  BY AppliedNames
<1>2. [n EXCEPT !.next.status = "synced"] = [n EXCEPT !.next = [n.next EXCEPT !.status = "synced"]]
  OBVIOUS
<1>3. [File(w, "written") EXCEPT !.status = "synced"] = File(w, "synced")
  BY DEF File
<1> QED BY <1>1, <1>2, <1>3

\* It becomes the current one.
LEMMA Switched ==
  ASSUME NEW n, NEW refs, NEW xs, Holds(n, refs, xs), NEW w \in Documents,
         n.next = File(w, "synced")
  PROVE  LET m == Applied(n, Switch) IN
         /\ m = [current |-> m.current, next |-> m.next, directories |-> refs \cup xs,
                 launcher |-> m.launcher]
         /\ m.current = File(w, "synced") /\ m.next = None /\ m.launcher = n.launcher
         /\ CurrentOf(m) = w
<1> DEFINE m == Applied(n, Switch)
           ds == refs \cup xs
           f == n.next
<1>1. n = [current |-> n.current, next |-> n.next, directories |-> ds, launcher |-> n.launcher]
  BY DEF Holds
<1>2. m = [n EXCEPT !.current = f, !.next = None]
  BY AppliedNames
<1>3. [n EXCEPT !.current = f, !.next = None] = [[n EXCEPT !.current = f] EXCEPT !.next = None]
  OBVIOUS
<1> HIDE DEF ds, m, f
<1> DEFINE k == [n EXCEPT !.current = f]
<1>4. k = [current |-> f, next |-> n.next, directories |-> ds, launcher |-> n.launcher]
  BY <1>1
<1> HIDE DEF k
<1>5. [k EXCEPT !.next = None] =
        [current |-> f, next |-> None, directories |-> ds, launcher |-> n.launcher]
  BY <1>4
<1>6. m = [current |-> f, next |-> None, directories |-> ds, launcher |-> n.launcher]
  BY <1>2, <1>3, <1>5 DEF k
<1>7. /\ m.current = f /\ m.next = None /\ m.launcher = n.launcher
      /\ m = [current |-> m.current, next |-> m.next, directories |-> ds, launcher |-> m.launcher]
  BY <1>6
<1>8. CurrentOf(m) = w
  BY <1>7, FileFacts DEF CurrentOf, f
<1> QED BY <1>7, <1>8 DEF m, ds, f

\* A launcher's generation ages by one.
LEMMA SwitchLaunched ==
  ASSUME NEW n, NEW refs, NEW r, Backed(n, refs), Follows(n, refs, r), Launched(n), NEW m,
         m.launcher = n.launcher, CurrentOf(m) = current_successor_wire(CurrentOf(n), r)
  PROVE  Launched(m)
<1> DEFINE c == CurrentOf(n)
           w == CurrentOf(m)
           l == n.launcher
<1>1. w.accepted = r.generation /\ w.retained = c.accepted
  BY WireFacts
<1>2. Len(r.generation) = Len(c.accepted) + 1
  BY FollowsFacts
<1>3. Len(c.accepted) \in Nat /\ (c.retained # NoGeneration => Len(c.accepted) = Len(c.retained) + 1)
  BY Ranks
<1>4. ASSUME l # None
      PROVE  l \in Generations /\ (l \in {w.accepted, w.retained} \/ Len(w.accepted) >= Len(l) + 2)
  <2>1. l \in Generations /\ (l \in {c.accepted, c.retained} \/ Len(c.accepted) >= Len(l) + 2)
    BY <1>4 DEF Launched
  <2>2. l # NoGeneration /\ Len(l) \in Nat
    BY <2>1, GenerationFacts
  <2> QED BY <1>1, <1>2, <1>3, <2>1, <2>2
<1> QED BY <1>4 DEF Launched

\* The first generation: nothing was current.
LEMMA SwitchFirst ==
  ASSUME NEW n, NEW refs, NEW r, Places(n, refs, r), n.current = None,
         n.next = File(current_successor_wire(CurrentOf(n), r), "synced")
  PROVE  LET m == Applied(n, Switch) IN Settles(m, {Whole(r)})
         /\ {Whole(r)} \in SUBSET m.directories
<1> DEFINE m == Applied(n, Switch)
           c == CurrentOf(n)
           w == current_successor_wire(c, r)
           xs == {Whole(r)}
<1>1. /\ Holds(n, refs, xs) /\ Follows(n, refs, r) /\ Backed(n, refs) /\ Launched(n)
      /\ r \in Requests /\ predecessor(r.generation) = c.accepted
  BY DEF Places, Holds, Follows
<1>2. /\ w \in Documents /\ w.accepted = r.generation /\ w.retained = c.accepted
      /\ w.retiring = c.retained /\ w.operation = r.operation
  BY <1>1, WireFacts
<1>3. c = Empty /\ refs = {}
  BY <1>1, BackedFacts
<1>4. w.retained = NoGeneration /\ w.retiring = NoGeneration
  BY <1>2, <1>3 DEF Empty
<1> HIDE DEF xs, w
<1>5. /\ m = [current |-> m.current, next |-> m.next, directories |-> refs \cup xs,
              launcher |-> m.launcher]
      /\ m.current = File(w, "synced") /\ m.next = None /\ m.launcher = n.launcher
      /\ CurrentOf(m) = w
  BY <1>1, <1>2, Switched DEF w
<1> HIDE DEF m
<1>6. Launched(m)
  BY <1>1, <1>5, SwitchLaunched DEF w
<1>7. Backed(m, xs)
  BY <1>1, <1>2, <1>4, <1>5 DEF Backed, xs
<1>8. refs \cup xs = xs \cup {} /\ m.directories = refs \cup xs
  BY <1>3, <1>5
<1>9. Holds(m, xs, {}) /\ xs \in SUBSET m.directories
  BY <1>5, <1>6, <1>7, <1>8 DEF Holds
<1>10. ~ Marked(m)
  BY <1>4, <1>5 DEF Marked
<1>11. Settles(m, xs)
  BY <1>5, <1>9, <1>10 DEF Settles
<1> QED BY <1>9, <1>11 DEF xs, m

\* What a current document refers to, named.
Accepts(n, refs, a) ==
  /\ a \in Requests /\ n.current # None
  /\ CurrentOf(n).accepted = a.generation /\ CurrentOf(n).operation = a.operation
  /\ CurrentOf(n).retained = predecessor(a.generation) /\ Whole(a) \in refs

\* A current document refers to its accepted generation, and to the retained
\* one if there is one.
LEMMA BackedForm ==
  ASSUME NEW n, NEW refs, Backed(n, refs), n.current # None
  PROVE  LET c == CurrentOf(n) IN
         \E a \in Requests :
           /\ Accepts(n, refs, a)
           /\ \/ c.retained = NoGeneration /\ c.retiring = NoGeneration /\ refs = {Whole(a)}
              \/ \E b \in Requests :
                   /\ b.generation = c.retained /\ b.operation # a.operation
                   /\ refs = {Whole(a), Whole(b)} /\ c.retained # NoGeneration
BY RequestFacts, GenerationFacts DEF Backed, Accepts

\* A later one: the accepted generation is retained, and the retained one is
\* left to be retired.
LEMMA SwitchLater ==
  ASSUME NEW n, NEW refs, NEW r, Places(n, refs, r), n.current # None,
         n.next = File(current_successor_wire(CurrentOf(n), r), "synced")
  PROVE  LET m == Applied(n, Switch) IN
         \E kept \in SUBSET m.directories :
           Settles(m, kept) \/ \E t \in Requests : Retires(m, kept, t, Whole(t))
<1> DEFINE m == Applied(n, Switch)
           c == CurrentOf(n)
           w == current_successor_wire(c, r)
           xs == {Whole(r)}
<1>1. /\ Holds(n, refs, xs) /\ Follows(n, refs, r) /\ Backed(n, refs) /\ Launched(n)
      /\ r \in Requests /\ predecessor(r.generation) = c.accepted
      /\ \A d \in refs : d.of.operation # r.operation
  BY DEF Places, Holds, Follows
<1>2. /\ w \in Documents /\ w.accepted = r.generation /\ w.retained = c.accepted
      /\ w.retiring = c.retained /\ w.operation = r.operation
  BY <1>1, WireFacts
<1>3. PICK a \in Requests :
        /\ Accepts(n, refs, a)
        /\ \/ c.retained = NoGeneration /\ c.retiring = NoGeneration /\ refs = {Whole(a)}
           \/ \E b \in Requests :
                /\ b.generation = c.retained /\ b.operation # a.operation
                /\ refs = {Whole(a), Whole(b)} /\ c.retained # NoGeneration
  BY <1>1, BackedForm
<1>4. /\ c.accepted = a.generation /\ c.retained = predecessor(a.generation)
      /\ a.operation # r.operation /\ Whole(a).of = a /\ Whole(r).of = r
      /\ a.generation # NoGeneration
  BY <1>1, <1>3, WholeFacts, RequestFacts, GenerationFacts DEF Accepts
<1> DEFINE kept == {Whole(r), Whole(a)}
<1> HIDE DEF xs, w
<1>5. /\ m = [current |-> m.current, next |-> m.next, directories |-> refs \cup xs,
              launcher |-> m.launcher]
      /\ m.current = File(w, "synced") /\ m.next = None /\ m.launcher = n.launcher
      /\ CurrentOf(m) = w
  BY <1>1, <1>2, Switched DEF w
<1> HIDE DEF m
<1>6. Launched(m)
  BY <1>1, <1>5, SwitchLaunched DEF w
<1>7. Backed(m, kept)
  BY <1>1, <1>2, <1>4, <1>5 DEF Backed
<1>8. CASE c.retained = NoGeneration /\ refs = {Whole(a)}
  <2>1. refs \cup xs = kept \cup {} /\ m.directories = refs \cup xs
    BY <1>5, <1>8 DEF xs
  <2>2. ~ Marked(m)
    BY <1>2, <1>5, <1>8 DEF Marked
  <2> HIDE DEF kept
  <2>3. Holds(m, kept, {}) /\ kept \in SUBSET m.directories
    BY <1>5, <1>6, <1>7, <2>1 DEF Holds
  <2>4. Settles(m, kept)
    BY <1>5, <2>2, <2>3 DEF Settles
  <2> QED BY <2>3, <2>4 DEF m
<1>9. ASSUME NEW b \in Requests, b.generation = c.retained, b.operation # a.operation,
             refs = {Whole(a), Whole(b)}, c.retained # NoGeneration
      PROVE  \E k \in SUBSET m.directories :
               Settles(m, k) \/ \E t \in Requests : Retires(m, k, t, Whole(t))
  <2>1. refs \cup xs = kept \cup {Whole(b)} /\ m.directories = refs \cup xs
    BY <1>5, <1>9 DEF xs
  <2>2. \A e \in kept : e.of.generation = w.retained => e.of.operation # b.operation
    <3>1. r.generation # c.accepted
      BY <1>1, FollowsFacts
    <3> QED BY <1>2, <1>4, <1>9, <3>1
  <2> HIDE DEF kept
  <2>3. Holds(m, kept, {Whole(b)}) /\ kept \in SUBSET m.directories
    BY <1>5, <1>6, <1>7, <2>1 DEF Holds
  <2>4. Retires(m, kept, b, Whole(b))
    BY <1>2, <1>5, <1>9, <2>2, <2>3 DEF Retires
  <2> QED BY <2>3, <2>4
<1> QED BY <1>3, <1>8, <1>9 DEF m

\* The marker is gone.
LEMMA SwitchClears ==
  ASSUME NEW n, NEW refs, Clears(n, refs), n.next = File(Unmarked(n), "synced")
  PROVE  LET m == Applied(n, Switch) IN Settles(m, refs) /\ refs \in SUBSET m.directories
<1> DEFINE m == Applied(n, Switch)
           c == CurrentOf(n)
           w == Unmarked(n)
           xs == {}
<1>1. Holds(n, refs, xs) /\ Marked(n) /\ Backed(n, refs) /\ Launched(n)
  BY DEF Clears, Holds
<1>2. /\ w \in Documents /\ w.accepted = c.accepted /\ w.retained = c.retained
      /\ w.retiring = NoGeneration /\ w.operation = c.operation
  BY <1>1, UnmarkedFacts
<1>3. /\ n.current # None
  BY <1>1, Ranks
<1>4. PICK a \in Requests :
        /\ Accepts(n, refs, a)
        /\ \/ c.retained = NoGeneration /\ c.retiring = NoGeneration /\ refs = {Whole(a)}
           \/ \E b \in Requests :
                /\ b.generation = c.retained /\ b.operation # a.operation
                /\ refs = {Whole(a), Whole(b)} /\ c.retained # NoGeneration
  BY <1>1, <1>3, BackedForm
<1> HIDE DEF xs, w
<1>5. /\ m = [current |-> m.current, next |-> m.next, directories |-> refs \cup xs,
              launcher |-> m.launcher]
      /\ m.current = File(w, "synced") /\ m.next = None /\ m.launcher = n.launcher
      /\ CurrentOf(m) = w
  BY <1>1, <1>2, Switched DEF w
<1> HIDE DEF m
<1>6. Launched(m)
  BY <1>1, <1>2, <1>5 DEF Launched
<1>7. Backed(m, refs)
  <2>1. c.accepted = a.generation /\ c.operation = a.operation /\ c.retained = predecessor(a.generation)
    BY <1>4 DEF Accepts
  <2> QED BY <1>2, <1>4, <1>5, <2>1 DEF Backed
<1>8. Holds(m, refs, xs) /\ refs \in SUBSET m.directories
  BY <1>5, <1>6, <1>7 DEF Holds
<1>9. ~ Marked(m)
  BY <1>2, <1>5 DEF Marked
<1> QED BY <1>5, <1>8, <1>9 DEF Settles, xs, m

\* What the procedures read of each shape.
LEMMA Expands ==
  ASSUME NEW n
  PROVE  /\ Expand(Cleanup, n) = cleanup_unreferenced_generations_locked(n)
         /\ Expand(FinishRetirement, n) = finish_retirement_locked(n)
         /\ Expand(ClearMarker, n) = clear_retirement_marker_locked(n)
<1>1. Cleanup # FinishRetirement /\ Cleanup # ClearMarker /\ FinishRetirement # ClearMarker
  BY DEF Cleanup, FinishRetirement, ClearMarker
<1>2. Expand(Cleanup, n) = cleanup_unreferenced_generations_locked(n)
  BY <1>1 DEF Expand
<1>3. Expand(FinishRetirement, n) = finish_retirement_locked(n)
  BY <1>1 DEF Expand
<1>4. Expand(ClearMarker, n) = clear_retirement_marker_locked(n)
  BY <1>1 DEF Expand
<1> QED BY <1>2, <1>3, <1>4

\* A settled store needs no cleanup.
LEMMA CleanupSettled ==
  ASSUME NEW n, NEW refs, Settles(n, refs)
  PROVE  Expand(Cleanup, n) = {<<>>}
<1>1. Holds(n, refs, {}) /\ CurrentOf(n).retiring = NoGeneration
  BY DEF Settles, Marked
<1>2. cleanup_unreferenced_generations_locked(n) = {<<>>}
  BY <1>1, ReadsAlone, Sizes DEF cleanup_unreferenced_generations_locked
<1> QED BY <1>2, Expands

\* Cleanup retires the marked generation.
LEMMA CleanupRetires ==
  ASSUME NEW n, NEW refs, NEW t, Retires(n, refs, t, Whole(t))
  PROVE  Expand(Cleanup, n) = {Retire1(t)}
<1> DEFINE c == CurrentOf(n)
           d == Whole(t)
<1>1. Holds(n, refs, {d}) /\ t.generation = c.retiring
  BY DEF Retires
<1>2. d.of = t /\ d.at = "generations" /\ Complete(d)
  BY WholeFacts
<1>3. t.generation \notin {c.accepted, c.retained, NoGeneration}
  BY RetiresFacts
<1> HIDE DEF d
<1>4. CurrentLoads(n) /\ Unreferenced(n) = {d}
  BY <1>1, <1>2, <1>3, ReadsBeside
<1>5. cleanup_unreferenced_generations_locked(n) = {Append(retire_loaded_generation(d), ClearMarker)}
  BY <1>1, <1>2, <1>3, <1>4, Sizes DEF cleanup_unreferenced_generations_locked
<1> QED BY <1>2, <1>5, Expands, ScriptForms

\* Clearing rewrites the current document without its marker.
LEMMA ClearMarked ==
  ASSUME NEW n, NEW refs, Clears(n, refs)
  PROVE  Expand(ClearMarker, n) = {Clear1(Unmarked(n))}
<1>1. Holds(n, refs, {}) /\ CurrentOf(n).retiring # NoGeneration
  BY DEF Clears, Marked
<1>2. clear_retirement_marker_locked(n) = {stage_and_switch_current(Unmarked(n))}
  BY <1>1, ReadsAlone DEF clear_retirement_marker_locked, Unmarked
<1> QED BY <1>2, Expands, ScriptForms

\* The rest of a removal, by what is left to remove.
Removal(t, d) ==
  CASE d = Directory("retiring", t, "synced", "synced") -> Empty1(t)
    [] d = Directory("retiring", t, "absent", "synced") -> Empty3(t)
    [] d = Directory("retiring", t, "absent", "absent") -> Empty5(t)

\* What finish_retirement has left to do, with the clearing of the marker
\* behind it.
LEMMA FinishScripts ==
  ASSUME NEW t
  PROVE  LET rest == <<RemoveDirectory(t, "retiring"), Sync>>
             document == <<Unlink(t, "retiring", "document"), Sync>> \o rest
             binary == <<Unlink(t, "retiring", "binary"), Sync>> \o document IN
         /\ rest \o <<ClearMarker>> = Empty5(t)
         /\ document \o <<ClearMarker>> = Empty3(t)
         /\ binary \o <<ClearMarker>> = Empty1(t)
<1> DEFINE rest == <<RemoveDirectory(t, "retiring"), Sync>>
           document == <<Unlink(t, "retiring", "document"), Sync, RemoveDirectory(t, "retiring"), Sync>>
           binary == <<Unlink(t, "retiring", "binary"), Sync, Unlink(t, "retiring", "document"), Sync,
                       RemoveDirectory(t, "retiring"), Sync>>
<1>1. rest \o <<ClearMarker>> = Empty5(t)
  BY Join2_1 DEF Empty5
<1>2. <<Unlink(t, "retiring", "document"), Sync>> \o rest = document
  BY Join2_2
<1>3. document \o <<ClearMarker>> = Empty3(t)
  BY Join4_1 DEF Empty3
<1>4. <<Unlink(t, "retiring", "binary"), Sync>> \o document = binary
  BY Join2_4
<1>5. binary \o <<ClearMarker>> = Empty1(t)
  BY Join6_1 DEF Empty1
<1> QED BY <1>1, <1>2, <1>3, <1>4, <1>5, Zenon

\* finish_retirement goes on from what the retiring directory still holds.
LEMMA FinishRetires ==
  ASSUME NEW n, NEW refs, NEW t, NEW d \in Emptied(t), Retires(n, refs, t, d)
  PROVE  \E script : /\ Expand(FinishRetirement, n) = {script}
                     /\ script \o Retire5 \in {Empty1(t), Empty3(t), Empty5(t)}
                     /\ script \o Retire5 = Removal(t, d)
<1> DEFINE c == CurrentOf(n)
           rest == <<RemoveDirectory(t, "retiring"), Sync>>
           document == <<Unlink(t, "retiring", "document"), Sync>> \o rest
           binary == <<Unlink(t, "retiring", "binary"), Sync>> \o document
           full == Directory("retiring", t, "synced", "synced")
           half == Directory("retiring", t, "absent", "synced")
           none == Directory("retiring", t, "absent", "absent")
<1>1. Holds(n, refs, {d}) /\ t.generation = c.retiring
  BY DEF Retires
<1>2. /\ full.at = "retiring" /\ full.of = t /\ Complete(full)
      /\ half.at = "retiring" /\ half.of = t /\ ~ Complete(half)
      /\ half.binary = "absent" /\ Readable(half.document)
      /\ none.at = "retiring" /\ none.of = t /\ ~ Complete(none) /\ ~ Readable(none.document)
      /\ none.binary = "absent" /\ none.document = "absent"
  BY DEF Directory, Complete, Readable
<1>3. d \in {full, half, none} /\ full # half /\ full # none /\ half # none
  BY <1>2 DEF Emptied
<1>4. t.generation \notin {c.accepted, c.retained, NoGeneration}
  BY RetiresFacts
<1>5. Removal(t, full) = Empty1(t) /\ Removal(t, half) = Empty3(t) /\ Removal(t, none) = Empty5(t)
  BY <1>3 DEF Removal
<1>6. /\ rest \o <<ClearMarker>> = Empty5(t)
      /\ document \o <<ClearMarker>> = Empty3(t)
      /\ binary \o <<ClearMarker>> = Empty1(t)
  BY FinishScripts, Zenon
<1> HIDE DEF full, half, none
<1>a. d.of = t /\ d.at = "retiring"
  BY <1>2, <1>3
<1>7. CurrentLoads(n) /\ Directories(n, "retiring") = {d} /\ d.of = t
  BY <1>1, <1>4, <1>a, ReadsBeside
<1>8. Expand(FinishRetirement, n) = finish_retirement_locked(n)
  BY Expands
<1>9. CASE d = full
  <2>1. finish_retirement_locked(n) = {binary}
    <3>1. {x \in Directories(n, "retiring") :
             /\ CurrentLoads(n) /\ x.of.generation = CurrentOf(n).retiring
             /\ \/ Complete(x)
                \/ x.binary = "absent" /\ (Readable(x.document) \/ x.document = "absent")} = {d}
      BY <1>1, <1>2, <1>7, <1>9
    <3>2. Complete(d) /\ d.binary # "absent"
      BY <1>2, <1>9 DEF Complete, Readable
    <3>3. binary = <<Unlink(d.of, "retiring", "binary"), Sync>> \o
                     (<<Unlink(d.of, "retiring", "document"), Sync>> \o
                        <<RemoveDirectory(d.of, "retiring"), Sync>>)
      BY <1>7, Zenon
    <3> DEFINE left(x) == <<RemoveDirectory(x.of, "retiring"), Sync>>
               written(x) == <<Unlink(x.of, "retiring", "document"), Sync>> \o left(x)
               script(x) ==
                 CASE Complete(x) -> <<Unlink(x.of, "retiring", "binary"), Sync>> \o written(x)
                   [] x.binary = "absent" /\ Readable(x.document) -> written(x)
                   [] x.binary = "absent" /\ x.document = "absent" -> left(x)
               found == {x \in Directories(n, "retiring") :
                           /\ CurrentLoads(n) /\ x.of.generation = CurrentOf(n).retiring
                           /\ \/ Complete(x)
                              \/ x.binary = "absent" /\ (Readable(x.document) \/ x.document = "absent")}
    <3>4. finish_retirement_locked(n) = {script(x) : x \in found}
      BY Zenon DEF finish_retirement_locked
    <3> HIDE DEF binary
    <3>5. script(d) = binary
      BY <1>9, <3>2, <3>3
    <3> HIDE DEF script, found
    <3> QED BY <3>1, <3>4, <3>5 DEF found
  <2> HIDE DEF binary
  <2> QED BY <1>5, <1>6, <1>8, <1>9, <2>1 DEF Retire5
<1>10. CASE d = half
  <2>1. finish_retirement_locked(n) = {document}
    BY <1>1, <1>2, <1>7, <1>10 DEF finish_retirement_locked
  <2> HIDE DEF document
  <2> QED BY <1>5, <1>6, <1>8, <1>10, <2>1 DEF Retire5
<1>11. CASE d = none
  <2>1. finish_retirement_locked(n) = {rest}
    BY <1>1, <1>2, <1>7, <1>11 DEF finish_retirement_locked
  <2> HIDE DEF rest
  <2> QED BY <1>5, <1>6, <1>8, <1>11, <2>1 DEF Retire5
<1> QED BY <1>3, <1>9, <1>10, <1>11

\* What becomes current is what the store settled to.
LEMMA SwitchAccepts ==
  ASSUME NEW n, NEW refs, NEW r, Places(n, refs, r),
         n.next = File(current_successor_wire(CurrentOf(n), r), "synced")
  PROVE  Settled(n) = CurrentOf(Applied(n, Switch)).accepted
<1> DEFINE w == current_successor_wire(CurrentOf(n), r)
           xs == {Whole(r)}
<1>1. Holds(n, refs, xs) /\ Backed(n, refs) /\ Follows(n, refs, r)
  BY DEF Places, Holds
<1>2. w \in Documents /\ w.accepted = r.generation
  BY <1>1, WireFacts
<1>3. Settled(n) = r.generation
  BY SettledPlaces
<1> HIDE DEF w, xs
<1>4. CurrentOf(Applied(n, Switch)) = w
  BY <1>1, <1>2, Switched DEF w
<1> QED BY <1>2, <1>3, <1>4

\* Switching to the document without the marker keeps the accepted generation.
LEMMA SwitchKeeps ==
  ASSUME NEW n, NEW refs, Clears(n, refs), n.next = File(Unmarked(n), "synced")
  PROVE  Settled(n) = CurrentOf(Applied(n, Switch)).accepted
<1> DEFINE w == Unmarked(n)
           xs == {}
<1>1. Holds(n, refs, xs) /\ Backed(n, refs) /\ Marked(n)
  BY DEF Clears, Holds
<1>2. w \in Documents /\ w.accepted = CurrentOf(n).accepted
  BY <1>1, UnmarkedFacts
<1>3. Settled(n) = CurrentOf(n).accepted
  BY SettledClears
<1> HIDE DEF w, xs
<1>4. CurrentOf(Applied(n, Switch)) = w
  BY <1>1, <1>2, Switched DEF w
<1> QED BY <1>2, <1>3, <1>4

\* A step of a retirement.
LEMMA RetiresSteps ==
  ASSUME NEW n, NEW m, NEW refs, NEW t, NEW d \in {Whole(t)} \cup Emptied(t),
         NEW e \in {Whole(t)} \cup Emptied(t), Retires(n, refs, t, d), Retires(m, refs, t, e),
         CurrentOf(m) = CurrentOf(n)
  PROVE  Level(n, m)
<1>1. d.of = t
  BY EmptiedOf
<1>2. Settled(n) = CurrentOf(m).accepted
  BY <1>1, SettledRetires
<1> QED BY <1>2, RetiresLevel

\* The next document.
LEMMA SwitchingCarries ==
  ASSUME NEW n, NEW refs \in SUBSET n.directories, NEW todo, Switching(n, refs, todo)
  PROVE  Carries(n, todo)
<1>1. ASSUME NEW r \in Requests, Places(n, refs, r), n.next = None,
             todo = Publish8(current_successor_wire(CurrentOf(n), r))
      PROVE  Carries(n, todo)
  <2> DEFINE w == current_successor_wire(CurrentOf(n), r)
  <2>1. todo # <<>> /\ Head(todo) = Sync /\ Tail(todo) = Publish9(w)
    BY <1>1, PublishSteps
  <2>2. Switching(n, refs, Publish9(w))
    BY <1>1 DEF Switching
  <2>3. Runs(n, Publish9(w))
    BY <2>2 DEF Runs
  <2>4. Firm(n) /\ Late(Publish9(w))
    BY <1>1, FirmShapes, LatePublish
  <2> HIDE DEF w
  <2> QED BY <2>1, <2>3, <2>4, CarriesSync
<1>2. ASSUME NEW r \in Requests, Places(n, refs, r), n.next = None,
             todo = Publish9(current_successor_wire(CurrentOf(n), r))
      PROVE  Carries(n, todo)
  <2> DEFINE w == current_successor_wire(CurrentOf(n), r)
             s == WriteNext(w)
             m == [n EXCEPT !.next = File(w, "written")]
             h == [n EXCEPT !.next = File(w, "torn")]
  <2>1. todo # <<>> /\ Head(todo) = s /\ Tail(todo) = Publish10
    BY <1>2, PublishSteps
  <2>2. Applied(n, s) = m /\ Half(n, s) = h
    BY AppliedNames
  <2>a. s.op = "WriteNext"
    BY DEF WriteNext
  <2>3. /\ Places(m, refs, r) /\ m.next = File(w, "written") /\ CurrentOf(m) = CurrentOf(n)
        /\ refs \in SUBSET m.directories
    BY <1>2, PlacesNext
  <2>4. Places(h, refs, r) /\ refs \in SUBSET h.directories
    BY <1>2, PlacesNext
  <2> HIDE DEF m, h, s
  <2>5. Switching(m, refs, Publish10)
    BY <2>3 DEF Switching
  <2>6. Runs(m, Publish10) /\ Legal(h)
    BY <2>3, <2>4, <2>5 DEF Runs, Legal
  <2>7. Level(n, m) /\ Level(n, h)
    BY <1>2, <2>3, <2>4, PlacesLevel
  <2>8. Late(Publish10)
    BY LatePublish
  <2> QED BY <2>1, <2>a, <2>2, <2>6, <2>7, <2>8, CarriesStep
<1>3. ASSUME NEW r \in Requests, Places(n, refs, r),
             n.next = File(current_successor_wire(CurrentOf(n), r), "written"), todo = Publish10
      PROVE  Carries(n, todo)
  <2> DEFINE w == current_successor_wire(CurrentOf(n), r)
             m == [n EXCEPT !.next = File(w, "synced")]
  <2>1. todo # <<>> /\ Head(todo) = SyncNext /\ Tail(todo) = Publish11
    BY <1>3, PublishSteps
  <2>2. Applied(n, SyncNext) = m
    BY <1>3, SyncedNext
  <2>a. SyncNext.op = "SyncNext"
    BY DEF SyncNext
  <2>3. /\ Places(m, refs, r) /\ m.next = File(w, "synced") /\ CurrentOf(m) = CurrentOf(n)
        /\ refs \in SUBSET m.directories
    BY <1>3, PlacesNext
  <2> HIDE DEF m
  <2>4. Switching(m, refs, Publish11)
    BY <2>3 DEF Switching
  <2>5. Runs(m, Publish11)
    BY <2>3, <2>4 DEF Runs
  <2>6. Level(n, m)
    BY <1>3, <2>3, PlacesLevel
  <2>7. Late(Publish11)
    BY LatePublish
  <2> QED BY <2>1, <2>a, <2>2, <2>5, <2>6, <2>7, CarriesStep
<1>4. ASSUME NEW r \in Requests, Places(n, refs, r),
             n.next = File(current_successor_wire(CurrentOf(n), r), "synced"), todo = Publish11
      PROVE  Carries(n, todo)
  <2>1. todo # <<>> /\ Head(todo) = Sync /\ Tail(todo) = Publish12
    BY <1>4, PublishSteps
  <2>2. Switching(n, refs, Publish12)
    BY <1>4 DEF Switching
  <2>3. Runs(n, Publish12)
    BY <2>2 DEF Runs
  <2>4. Firm(n) /\ Late(Publish12)
    BY <1>4, FirmShapes, LatePublish
  <2> QED BY <2>1, <2>3, <2>4, CarriesSync
<1>5. ASSUME NEW kept \in SUBSET Applied(n, Switch).directories, todo = Publish12,
             \/ Settles(Applied(n, Switch), kept)
             \/ \E t \in Requests : Retires(Applied(n, Switch), kept, t, Whole(t)),
             Settled(n) = CurrentOf(Applied(n, Switch)).accepted
      PROVE  Carries(n, todo)
  <2> DEFINE m == Applied(n, Switch)
  <2>1. todo # <<>> /\ Head(todo) = Switch /\ Tail(todo) = Publish13
    BY <1>5, PublishSteps
  <2>a. Switch.op = "Switch"
    BY DEF Switch
  <2>2. Switching(m, kept, Publish13)
    BY <1>5 DEF Switching
  <2>3. Runs(m, Publish13)
    BY <2>2 DEF Runs
  <2>4. Level(n, m)
    <3> HIDE DEF m
    <3>1. CASE Settles(m, kept)
      BY <1>5, <3>1, SettlesLevel DEF m
    <3>2. ASSUME NEW t \in Requests, Retires(m, kept, t, Whole(t)) PROVE Level(n, m)
      BY <1>5, <3>2, RetiresLevel DEF m
    <3> QED BY <1>5, <3>1, <3>2 DEF m
  <2>5. Late(Publish13)
    BY LatePublish
  <2> QED BY <2>1, <2>a, <2>3, <2>4, <2>5, CarriesStep
<1>6. ASSUME NEW r \in Requests, Places(n, refs, r),
             n.next = File(current_successor_wire(CurrentOf(n), r), "synced"), todo = Publish12
      PROVE  Carries(n, todo)
  <2>1. Settled(n) = CurrentOf(Applied(n, Switch)).accepted
    BY <1>6, SwitchAccepts
  <2>2. CASE n.current = None
    BY <1>5, <1>6, <2>1, <2>2, SwitchFirst
  <2>3. CASE n.current # None
    BY <1>5, <1>6, <2>1, <2>3, SwitchLater
  <2> QED BY <2>2, <2>3
<1>7. ASSUME Clears(n, refs), n.next = File(Unmarked(n), "synced"), todo = Publish12
      PROVE  Carries(n, todo)
  <2>1. Settled(n) = CurrentOf(Applied(n, Switch)).accepted
    BY <1>7, SwitchKeeps
  <2> QED BY <1>5, <1>7, <2>1, SwitchClears
<1>8. ASSUME todo = Publish13,
             Settles(n, refs) \/ \E t \in Requests : Retires(n, refs, t, Whole(t))
      PROVE  Carries(n, todo)
  <2>1. todo # <<>> /\ Head(todo) = Sync /\ Tail(todo) = Publish14
    BY <1>8, PublishSteps
  <2>2. Switching(n, refs, Publish14)
    BY <1>8 DEF Switching
  <2>3. Runs(n, Publish14)
    BY <2>2 DEF Runs
  <2>4. Firm(n) /\ Late(Publish14)
    BY <1>8, FirmShapes, LatePublish
  <2> QED BY <2>1, <2>3, <2>4, CarriesSync
<1>9. ASSUME todo = Publish14, Settles(n, refs)
      PROVE  Carries(n, todo)
  <2>1. todo # <<>> /\ Head(todo) = Cleanup /\ Tail(todo) = <<>>
    BY <1>9, PublishSteps
  <2>a. Cleanup \in Procedures
    BY DEF Procedures
  <2> DEFINE none == <<>>
  <2>2. Expand(Cleanup, n) = {none} /\ Tail(todo) = none
    BY <1>9, <2>1, CleanupSettled
  <2>3. none \o none = none
    OBVIOUS
  <2>4. Runs(n, none \o none)
    BY <1>9, <2>3 DEF Runs
  <2>5. Late(none \o none)
    BY <2>3 DEF Late
  <2> HIDE DEF none
  <2> QED BY <2>1, <2>a, <2>2, <2>3, <2>4, <2>5, CarriesProcedure
<1>10. ASSUME todo = Publish14, NEW t \in Requests, Retires(n, refs, t, Whole(t))
       PROVE  Carries(n, todo)
  <2>1. todo # <<>> /\ Head(todo) = Cleanup /\ Tail(todo) = <<>>
    BY <1>10, PublishSteps
  <2>a. Cleanup \in Procedures
    BY DEF Procedures
  <2>2. Expand(Cleanup, n) = {Retire1(t)}
    BY <1>10, CleanupRetires
  <2>3. Retire1(t) \o <<>> = Retire1(t)
    <3>1. Retire1(t) \in Seq({Move(t, "generations", "retiring"), Sync, FinishRetirement, ClearMarker})
      BY DEF Retire1
    <3> QED BY <3>1, JoinEmpty
  <2>4. Retiring(n, refs, Retire1(t))
    BY <1>10 DEF Retiring
  <2>5. Runs(n, Retire1(t))
    BY <2>4 DEF Runs
  <2>6. Late(Retire1(t))
    BY LateRetire
  <2> QED BY <2>1, <2>a, <2>2, <2>3, <2>5, <2>6, CarriesProcedure
<1> QED BY <1>1, <1>2, <1>3, <1>4, <1>6, <1>7, <1>8, <1>9, <1>10 DEF Switching

\* The superseded generation.
LEMMA RetiringCarries ==
  ASSUME NEW n, NEW refs \in SUBSET n.directories, NEW todo, Retiring(n, refs, todo)
  PROVE  Carries(n, todo)
<1>1. ASSUME NEW t \in Requests, Retires(n, refs, t, Whole(t)), todo = Retire1(t)
      PROVE  Carries(n, todo)
  <2> DEFINE s == Move(t, "generations", "retiring")
             m == Rewrite(n, t, "generations", "at", "retiring")
  <2>1. todo # <<>> /\ Head(todo) = s /\ Tail(todo) = Retire2
    BY <1>1, RetireSteps
  <2>2. Applied(n, s) = m
    BY AppliedFiles
  <2>a. s.op = "Move"
    BY DEF Move
  <2>3. /\ Beside(n, refs, Directory("generations", t, "synced", "synced"))
        /\ t.generation \notin {CurrentOf(n).accepted, CurrentOf(n).retained}
    BY <1>1, RetiresFacts DEF Retires, Beside, Whole
  <2>4. Turns(n, m, refs, Directory("retiring", t, "synced", "synced"))
    BY <2>3, BesideSteps
  <2> HIDE DEF m, s
  <2>5. /\ Retires(m, refs, t, Directory("retiring", t, "synced", "synced"))
        /\ refs \in SUBSET m.directories /\ CurrentOf(m) = CurrentOf(n)
    BY <1>1, <2>4, RetiresTurn
  <2>6. Retiring(m, refs, Retire2)
    BY <2>5 DEF Retiring
  <2>7. Runs(m, Retire2)
    BY <2>5, <2>6 DEF Runs
  <2>8. Level(n, m)
    BY <1>1, <2>5, RetiresSteps DEF Emptied
  <2>9. Late(Retire2)
    BY LateRetire
  <2> QED BY <2>1, <2>a, <2>2, <2>7, <2>8, <2>9, CarriesStep
<1>2. ASSUME NEW rest, Retiring(n, refs, rest), todo # <<>>, Head(todo) = Sync, Tail(todo) = rest,
             Late(rest)
      PROVE  Carries(n, todo)
  <2>1. Runs(n, rest)
    BY <1>2 DEF Runs
  <2>2. Firm(n)
    BY <1>2, FirmShapes DEF Retiring, Emptied
  <2> QED BY <1>2, <2>1, <2>2, CarriesSync
<1>3. ASSUME NEW t \in Requests, Retires(n, refs, t, Directory("retiring", t, "synced", "synced")),
             todo \in {Retire2, Retire3}
      PROVE  Carries(n, todo)
  <2>1. Retiring(n, refs, Retire3) /\ Retiring(n, refs, Retire4)
    BY <1>3 DEF Retiring
  <2> QED BY <1>2, <1>3, <2>1, RetireSteps, LateRetire
<1>4. ASSUME NEW t \in Requests, NEW d \in Emptied(t), Retires(n, refs, t, d), todo = Retire4
      PROVE  Carries(n, todo)
  <2>1. todo # <<>> /\ Head(todo) = FinishRetirement /\ Tail(todo) = Retire5
    BY <1>4, RetireSteps
  <2>2. FinishRetirement \in Procedures
    BY DEF Procedures
  <2>3. PICK script : /\ Expand(FinishRetirement, n) = {script}
                      /\ script \o Retire5 = Removal(t, d)
                      /\ script \o Retire5 \in {Empty1(t), Empty3(t), Empty5(t)}
    BY <1>4, FinishRetires
  <2>4. Retiring(n, refs, Removal(t, d))
    <3>1. CASE d = Directory("retiring", t, "synced", "synced")
      <4>1. Removal(t, d) = Empty1(t)
        BY <3>1, DirectoryFacts DEF Removal
      <4> QED BY <1>4, <3>1, <4>1 DEF Retiring
    <3>2. CASE d = Directory("retiring", t, "absent", "synced")
      <4>1. Removal(t, d) = Empty3(t)
        BY <3>2, DirectoryFacts DEF Removal
      <4> QED BY <1>4, <3>2, <4>1 DEF Retiring
    <3>3. CASE d = Directory("retiring", t, "absent", "absent")
      <4>1. Removal(t, d) = Empty5(t)
        BY <3>3, DirectoryFacts DEF Removal
      <4> QED BY <1>4, <3>3, <4>1 DEF Retiring
    <3> QED BY <3>1, <3>2, <3>3 DEF Emptied
  <2>5. Runs(n, script \o Retire5)
    BY <2>3, <2>4 DEF Runs
  <2>6. Late(script \o Retire5)
    <3>1. Late(Empty1(t)) /\ Late(Empty3(t)) /\ Late(Empty5(t))
      BY LateRetire
    <3> QED BY <2>3, <3>1
  <2> QED BY <2>1, <2>2, <2>3, <2>5, <2>6, CarriesProcedure
<1>5. ASSUME NEW t \in Requests, Retires(n, refs, t, Directory("retiring", t, "synced", "synced")),
             todo = Empty1(t)
      PROVE  Carries(n, todo)
  <2> DEFINE s == Unlink(t, "retiring", "binary")
             m == Rewrite(n, t, "retiring", "binary", "absent")
  <2>1. todo # <<>> /\ Head(todo) = s /\ Tail(todo) = Empty2(t)
    BY <1>5, EmptySteps
  <2>2. Applied(n, s) = m
    BY AppliedFiles
  <2>a. s.op = "Unlink"
    BY DEF Unlink
  <2>3. Beside(n, refs, Directory("retiring", t, "synced", "synced"))
    BY <1>5 DEF Retires, Beside
  <2>4. Turns(n, m, refs, Directory("retiring", t, "absent", "synced"))
    BY <2>3, BesideSteps
  <2> HIDE DEF m, s
  <2>5. /\ Retires(m, refs, t, Directory("retiring", t, "absent", "synced"))
        /\ refs \in SUBSET m.directories /\ CurrentOf(m) = CurrentOf(n)
    BY <1>5, <2>4, RetiresTurn
  <2>6. Retiring(m, refs, Empty2(t))
    BY <2>5 DEF Retiring
  <2>7. Runs(m, Empty2(t))
    BY <2>5, <2>6 DEF Runs
  <2>8. Level(n, m)
    BY <1>5, <2>5, RetiresSteps DEF Emptied
  <2>9. Late(Empty2(t))
    BY LateRetire
  <2> QED BY <2>1, <2>a, <2>2, <2>7, <2>8, <2>9, CarriesStep
<1>6. ASSUME NEW t \in Requests, Retires(n, refs, t, Directory("retiring", t, "absent", "synced")),
             todo = Empty2(t)
      PROVE  Carries(n, todo)
  <2>1. Retiring(n, refs, Empty3(t))
    BY <1>6 DEF Retiring
  <2> QED BY <1>2, <1>6, <2>1, EmptySteps, LateRetire
<1>7. ASSUME NEW t \in Requests, Retires(n, refs, t, Directory("retiring", t, "absent", "synced")),
             todo = Empty3(t)
      PROVE  Carries(n, todo)
  <2> DEFINE s == Unlink(t, "retiring", "document")
             m == Rewrite(n, t, "retiring", "document", "absent")
  <2>1. todo # <<>> /\ Head(todo) = s /\ Tail(todo) = Empty4(t)
    BY <1>7, EmptySteps
  <2>2. Applied(n, s) = m
    BY AppliedFiles
  <2>a. s.op = "Unlink"
    BY DEF Unlink
  <2>3. Beside(n, refs, Directory("retiring", t, "absent", "synced"))
    BY <1>7 DEF Retires, Beside
  <2>4. Turns(n, m, refs, Directory("retiring", t, "absent", "absent"))
    BY <2>3, BesideSteps
  <2> HIDE DEF m, s
  <2>5. /\ Retires(m, refs, t, Directory("retiring", t, "absent", "absent"))
        /\ refs \in SUBSET m.directories /\ CurrentOf(m) = CurrentOf(n)
    BY <1>7, <2>4, RetiresTurn
  <2>6. Retiring(m, refs, Empty4(t))
    BY <2>5 DEF Retiring
  <2>7. Runs(m, Empty4(t))
    BY <2>5, <2>6 DEF Runs
  <2>8. Level(n, m)
    BY <1>7, <2>5, RetiresSteps DEF Emptied
  <2>9. Late(Empty4(t))
    BY LateRetire
  <2> QED BY <2>1, <2>a, <2>2, <2>7, <2>8, <2>9, CarriesStep
<1>8. ASSUME NEW t \in Requests, Retires(n, refs, t, Directory("retiring", t, "absent", "absent")),
             todo = Empty4(t)
      PROVE  Carries(n, todo)
  <2>1. Retiring(n, refs, Empty5(t))
    BY <1>8 DEF Retiring
  <2> QED BY <1>2, <1>8, <2>1, EmptySteps, LateRetire
<1>9. ASSUME NEW t \in Requests, Retires(n, refs, t, Directory("retiring", t, "absent", "absent")),
             todo = Empty5(t)
      PROVE  Carries(n, todo)
  <2> DEFINE s == RemoveDirectory(t, "retiring")
             x == Directory("retiring", t, "absent", "absent")
             xs == {x}
             ys == {}
             ds == {d \in n.directories : ~ (d.at = "retiring" /\ d.of = t)}
             m == [n EXCEPT !.directories = ds]
  <2>1. todo # <<>> /\ Head(todo) = s /\ Tail(todo) = Empty6
    BY <1>9, EmptySteps
  <2>2. Applied(n, s) = m /\ s.op = "RemoveDirectory"
    BY DEF Applied, RemoveDirectory
  <2>a. Holds(n, refs, xs) /\ n.next = None
    BY <1>9 DEF Retires
  <2>b. Marked(n)
    BY <1>9, RetiresFacts
  <2>3. /\ Holds(n, refs, xs) /\ n.next = None /\ Marked(n) /\ Backed(n, refs)
        /\ n.directories = refs \cup xs
    BY <2>a, <2>b DEF Holds
  <2>4. x.at = "retiring" /\ x.of = t
    BY DirectoryFacts
  <2>5. \A d \in refs : ~ (d.at = "retiring" /\ d.of = t)
    BY <2>3, Apart
  <2> HIDE DEF x
  <2>6. ds = refs \cup ys /\ ys = {}
    BY <2>3, <2>4, <2>5
  <2> HIDE DEF xs, ys, ds
  <2>7. Keeps(n, m, refs, ys) /\ m.next = n.next
    BY <2>3, <2>6, Redirected
  <2> HIDE DEF m, s
  <2>8. /\ Holds(m, refs, ys) /\ Marked(m) /\ refs \in SUBSET m.directories
        /\ CurrentOf(m) = CurrentOf(n)
    BY <2>3, <2>7, ChangeFacts
  <2>9. Clears(m, refs) /\ m.next = None
    BY <2>3, <2>6, <2>7, <2>8 DEF Clears
  <2>10. Clearing(m, refs, Empty6)
    BY <2>9 DEF Clearing
  <2>11. Runs(m, Empty6)
    BY <2>8, <2>10 DEF Runs
  <2>12. Settled(n) = CurrentOf(m).accepted
    <3>1. Retires(n, refs, t, x)
      BY <1>9 DEF x
    <3> QED BY <2>4, <2>8, <3>1, SettledRetires
  <2>13. Level(n, m)
    BY <2>9, <2>12, ClearsLevel
  <2>14. Late(Empty6)
    BY LateRetire
  <2> QED BY <2>1, <2>2, <2>11, <2>13, <2>14, CarriesStep
<1>10. PICK t \in Requests :
         \/ Retires(n, refs, t, Whole(t)) /\ todo = Retire1(t)
         \/ /\ Retires(n, refs, t, Directory("retiring", t, "synced", "synced"))
            /\ todo \in {Retire2, Retire3, Retire4, Empty1(t)}
         \/ /\ Retires(n, refs, t, Directory("retiring", t, "absent", "synced"))
            /\ todo \in {Retire4, Empty2(t), Empty3(t)}
         \/ /\ Retires(n, refs, t, Directory("retiring", t, "absent", "absent"))
            /\ todo \in {Retire4, Empty4(t), Empty5(t)}
  BY DEF Retiring
<1>11. /\ Directory("retiring", t, "synced", "synced") \in Emptied(t)
       /\ Directory("retiring", t, "absent", "synced") \in Emptied(t)
       /\ Directory("retiring", t, "absent", "absent") \in Emptied(t)
  BY DEF Emptied
<1> QED BY <1>1, <1>3, <1>4, <1>5, <1>6, <1>7, <1>8, <1>9, <1>10, <1>11

\* The marker.
LEMMA ClearingCarries ==
  ASSUME NEW n, NEW refs \in SUBSET n.directories, NEW todo, Clearing(n, refs, todo)
  PROVE  Carries(n, todo)
<1>1. ASSUME NEW rest, Clearing(n, refs, rest), todo # <<>>, Head(todo) = Sync, Tail(todo) = rest,
             Late(rest)
      PROVE  Carries(n, todo)
  <2>1. Runs(n, rest)
    BY <1>1 DEF Runs
  <2>2. Firm(n)
    BY <1>1, FirmShapes DEF Clearing
  <2> QED BY <1>1, <2>1, <2>2, CarriesSync
<1>2. ASSUME Clears(n, refs), n.next = None, todo = Empty6
      PROVE  Carries(n, todo)
  <2>1. Clearing(n, refs, Retire5)
    BY <1>2 DEF Clearing
  <2> QED BY <1>1, <1>2, <2>1, EmptySteps, LateRetire
<1>3. ASSUME Clears(n, refs), n.next = None, todo = Retire5
      PROVE  Carries(n, todo)
  <2> DEFINE w == Unmarked(n)
  <2>1. todo # <<>> /\ Head(todo) = ClearMarker /\ Tail(todo) = <<>>
    BY <1>3, RetireSteps
  <2>2. ClearMarker \in Procedures
    BY DEF Procedures
  <2>3. Expand(ClearMarker, n) = {Clear1(w)}
    BY <1>3, ClearMarked
  <2>4. Clearing(n, refs, Clear1(w))
    BY <1>3 DEF Clearing
  <2>5. Runs(n, Clear1(w))
    BY <2>4 DEF Runs
  <2> HIDE DEF w
  <2>6. Clear1(w) \o <<>> = Clear1(w)
    <3>1. Clear1(w) \in Seq({WriteNext(w), SyncNext, Sync, Switch})
      BY DEF Clear1
    <3> QED BY <3>1, JoinEmpty
  <2>7. Late(Clear1(w))
    BY LateClear
  <2> QED BY <2>1, <2>2, <2>3, <2>5, <2>6, <2>7, CarriesProcedure
<1>4. ASSUME Clears(n, refs), n.next = None, todo = Clear1(Unmarked(n))
      PROVE  Carries(n, todo)
  <2> DEFINE w == Unmarked(n)
             s == WriteNext(w)
             m == [n EXCEPT !.next = File(w, "written")]
             h == [n EXCEPT !.next = File(w, "torn")]
  <2>1. todo # <<>> /\ Head(todo) = s /\ Tail(todo) = Clear2
    BY <1>4, ClearSteps
  <2>2. Applied(n, s) = m /\ Half(n, s) = h
    BY AppliedNames
  <2>a. s.op = "WriteNext"
    BY DEF WriteNext
  <2>3. /\ Clears(m, refs) /\ m.next = File(Unmarked(m), "written")
        /\ refs \in SUBSET m.directories /\ CurrentOf(m) = CurrentOf(n)
    BY <1>4, ClearsNext
  <2>4. Clears(h, refs) /\ refs \in SUBSET h.directories /\ CurrentOf(h) = CurrentOf(n)
    BY <1>4, ClearsNext
  <2> HIDE DEF m, h, s
  <2>5. Clearing(m, refs, Clear2)
    BY <2>3 DEF Clearing
  <2>6. Runs(m, Clear2) /\ Legal(h)
    BY <2>3, <2>4, <2>5 DEF Runs, Legal
  <2>7. Settled(n) = CurrentOf(n).accepted
    BY <1>4, SettledClears
  <2>8. Level(n, m) /\ Level(n, h)
    BY <2>3, <2>4, <2>7, ClearsLevel
  <2>9. Late(Clear2)
    BY LateClear
  <2> QED BY <2>1, <2>a, <2>2, <2>6, <2>8, <2>9, CarriesStep
<1>5. ASSUME Clears(n, refs), n.next = File(Unmarked(n), "written"), todo = Clear2
      PROVE  Carries(n, todo)
  <2> DEFINE m == [n EXCEPT !.next = File(Unmarked(n), "synced")]
  <2>1. todo # <<>> /\ Head(todo) = SyncNext /\ Tail(todo) = Clear3
    BY <1>5, ClearSteps
  <2>2. Applied(n, SyncNext) = m
    BY <1>5, SyncedNext
  <2>a. SyncNext.op = "SyncNext"
    BY DEF SyncNext
  <2>3. /\ Clears(m, refs) /\ m.next = File(Unmarked(m), "synced")
        /\ refs \in SUBSET m.directories /\ CurrentOf(m) = CurrentOf(n)
    BY <1>5, ClearsNext
  <2> HIDE DEF m
  <2>4. Clearing(m, refs, Clear3)
    BY <2>3 DEF Clearing
  <2>5. Runs(m, Clear3)
    BY <2>3, <2>4 DEF Runs
  <2>6. Settled(n) = CurrentOf(n).accepted
    BY <1>5, SettledClears
  <2>7. Level(n, m)
    BY <2>3, <2>6, ClearsLevel
  <2>8. Late(Clear3)
    BY LateClear
  <2> QED BY <2>1, <2>a, <2>2, <2>5, <2>7, <2>8, CarriesStep
<1>6. ASSUME Clears(n, refs), n.next = File(Unmarked(n), "synced"), todo = Clear3
      PROVE  Carries(n, todo)
  <2>1. Clearing(n, refs, Clear4)
    BY <1>6 DEF Clearing
  <2> QED BY <1>1, <1>6, <2>1, ClearSteps, LateClear
<1>7. ASSUME Clears(n, refs), n.next = File(Unmarked(n), "synced"), todo = Clear4
      PROVE  Carries(n, todo)
  <2> DEFINE m == Applied(n, Switch)
  <2>1. todo # <<>> /\ Head(todo) = Switch /\ Tail(todo) = Clear5
    BY <1>7, ClearSteps
  <2>a. Switch.op = "Switch"
    BY DEF Switch
  <2>2. Settles(m, refs) /\ refs \in SUBSET m.directories
    BY <1>7, SwitchClears
  <2>3. Clearing(m, refs, Clear5)
    BY <2>2 DEF Clearing
  <2>4. Runs(m, Clear5)
    BY <2>2, <2>3 DEF Runs
  <2>5. Settled(n) = CurrentOf(m).accepted
    BY <1>7, SwitchKeeps
  <2>6. Level(n, m)
    BY <2>2, <2>5, SettlesLevel
  <2>7. Late(Clear5)
    BY LateClear
  <2> QED BY <2>1, <2>a, <2>4, <2>6, <2>7, CarriesStep
<1>8. ASSUME Settles(n, refs), todo = Clear5
      PROVE  Carries(n, todo)
  <2>1. todo # <<>> /\ Head(todo) = Sync /\ Tail(todo) = <<>>
    BY <1>8, ClearSteps
  <2>2. Runs(n, <<>>)
    BY <1>8 DEF Runs
  <2>3. Firm(n)
    BY <1>8, FirmShapes
  <2>4. Late(<<>>)
    BY DEF Late
  <2> QED BY <2>1, <2>2, <2>3, <2>4, CarriesSync
<1> QED BY <1>2, <1>3, <1>4, <1>5, <1>6, <1>7, <1>8 DEF Clearing

\* Every script that is not at its end carries on; at its end, the store is settled.
LEMMA RunsCarries ==
  ASSUME NEW n, NEW todo, Runs(n, todo)
  PROVE  /\ todo # <<>> => Carries(n, todo)
         /\ todo = <<>> => \E refs \in SUBSET n.directories : Settles(n, refs)
<1>1. PICK refs \in SUBSET n.directories :
        \/ Settles(n, refs) /\ todo = <<>>
        \/ Staging(n, refs, todo) \/ Switching(n, refs, todo)
        \/ Retiring(n, refs, todo) \/ Clearing(n, refs, todo)
  BY DEF Runs
<1>2. Carries(n, todo) \/ (Settles(n, refs) /\ todo = <<>>)
  BY <1>1, StagingCarries, SwitchingCarries, RetiringCarries, ClearingCarries
<1>3. Carries(n, todo) => todo # <<>>
  BY DEF Carries
<1> QED BY <1>2, <1>3

-----------------------------------------------------------------------------
(***************************************************************************)
(* What a legal store promises.                                            *)
(***************************************************************************)
LEMMA LegalHolds ==
  ASSUME NEW n, Legal(n)
  PROVE  \E refs \in SUBSET n.directories : \E xs : Holds(n, refs, xs)
BY DEF Legal, Settles, Stages, Places, Retires, Clears

\* A legal store loads and recovers.
LEMMA LegalRecovers ==
  ASSUME NEW n, Legal(n)
  PROVE  CurrentLoads(n) /\ (Incomplete(n) \/ recover_locked(n) # {})
<1>1. CurrentLoads(n)
  BY LegalHolds, BackedLoads DEF Holds
<1>2. PICK refs \in SUBSET n.directories :
        \/ Settles(n, refs)
        \/ \E r \in Requests :
             \/ \E b, o \in Statuses : Stages(n, refs, r, b, o)
             \/ Places(n, refs, r)
             \/ \E d \in {Whole(r)} \cup Emptied(r) : Retires(n, refs, r, d)
        \/ Clears(n, refs)
  BY DEF Legal
<1>3. CASE Settles(n, refs)
  BY <1>1, <1>3, RecoverSettled
<1>4. ASSUME NEW r \in Requests, NEW b \in Statuses, NEW o \in Statuses, Stages(n, refs, r, b, o)
      PROVE  Incomplete(n) \/ recover_locked(n) # {}
  <2>1. CASE Readable(b) /\ Readable(o)
    BY <1>4, <2>1, RecoverStages
  <2>2. CASE ~ (Readable(b) /\ Readable(o))
    <3> DEFINE d == Directory("staged", r, b, o)
    <3>1. d \in n.directories /\ d.at = "staged" /\ ~ Complete(d)
      BY <1>4, <2>2, DirectoryFacts DEF Stages, Holds
    <3> HIDE DEF d
    <3> QED BY <3>1 DEF Incomplete, Directories
  <2> QED BY <2>1, <2>2
<1>5. ASSUME NEW r \in Requests, Places(n, refs, r)
      PROVE  Incomplete(n) \/ recover_locked(n) # {}
  <2>1. CASE n.next = None
    BY <1>5, <2>1, RecoverPlaces
  <2>2. CASE n.next # None /\ n.next.status # "torn"
    BY <1>5, <2>2, RecoverPlaces
  <2> QED BY <2>1, <2>2 DEF Incomplete
<1>6. ASSUME NEW t \in Requests, NEW d \in {Whole(t)} \cup Emptied(t), Retires(n, refs, t, d)
      PROVE  Incomplete(n) \/ recover_locked(n) # {}
  BY <1>6, RecoverRetires
<1>7. CASE Clears(n, refs)
  <2>1. CASE n.next = None
    BY <1>1, <1>7, <2>1, RecoverClears
  <2>2. CASE n.next # None /\ n.next.status # "torn"
    BY <1>1, <1>7, <2>2, RecoverClears
  <2> QED BY <1>1, <2>1, <2>2 DEF Incomplete
<1> QED BY <1>1, <1>2, <1>3, <1>4, <1>5, <1>6, <1>7

\* The accepted and the retained generation load.
LEMMA TargetsLoad ==
  ASSUME NEW n, Legal(n), NEW g \in Generations,
         g \in {CurrentOf(n).accepted, CurrentOf(n).retained}
  PROVE  load_generation(n, g) # {}
<1>1. PICK refs \in SUBSET n.directories : Backed(n, refs)
  BY LegalHolds DEF Holds
<1>2. g # NoGeneration
  BY GenerationFacts
<1>3. PICK d \in refs : d.of.generation = g
  BY <1>1, <1>2, BackedLoads
<1>4. d = Whole(d.of)
  BY <1>1, <1>3, BackedFacts
<1>5. d.at = "generations" /\ Complete(d) /\ d \in n.directories
  BY <1>1, <1>3, <1>4, WholeFacts
<1> QED BY <1>3, <1>5 DEF load_generation, Directories

\* A legal store backs its launcher.
LEMMA LegalLaunched ==
  ASSUME NEW n, Legal(n), n.launcher # None
  PROVE  \/ load_generation(n, n.launcher) # {}
         \/ Len(CurrentOf(n).accepted) >= Len(n.launcher) + 2
<1>1. Launched(n)
  BY LegalHolds DEF Holds
<1> QED BY <1>1, TargetsLoad DEF Launched

\* Every store a stop can leave is legal.
LEMMA SurvivorsLegal ==
  ASSUME IInv, NEW n \in Survivors
  PROVE  Legal(n)
BY TornLegal DEF IInv, Survivors

-----------------------------------------------------------------------------
(***************************************************************************)
(* Every action keeps the invariant.                                       *)
(***************************************************************************)
LEMMA InitInvariant == ASSUME Init PROVE IInv
<1> DEFINE refs == {}
<1>1. CurrentOf(names) = Empty /\ names.next = None /\ names.launcher = None
  BY DEF Init, CurrentOf
<1>2. Holds(names, refs, {})
  BY DEF Init, Holds, Backed, Launched
<1>3. Settles(names, refs)
  BY <1>1, <1>2 DEF Settles, Marked, Empty
<1>4. Legal(names)
  BY <1>3 DEF Legal
<1> QED BY <1>4 DEF Init, IInv, WriterRuns, ReaderReads

\* A request that may be published follows the settled store.
LEMMA MayPublishFollows ==
  ASSUME NEW n, NEW refs, Settles(n, refs), NEW r \in Requests, MayPublish(n, r)
  PROVE  Follows(n, refs, r)
<1> DEFINE c == CurrentOf(n)
<1>1. Holds(n, refs, {}) /\ ~ Marked(n) /\ Backed(n, refs) /\ refs \subseteq n.directories
  BY DEF Settles, Holds
<1>2. /\ c.operation # r.operation /\ r.operation \notin retained_operation(n)
      /\ c.accepted = predecessor(r.generation)
  BY DEF MayPublish
<1>3. ASSUME NEW d \in refs PROVE d.of.operation # r.operation
  <2>1. d = Whole(d.of) /\ d.of.generation \in {c.accepted, c.retained} /\ d.of \in Requests
    BY <1>1, BackedFacts
  <2>2. d.of.generation # NoGeneration
    BY <2>1, RequestFacts, GenerationFacts
  <2>3. CASE d.of.generation = c.accepted
    <3>1. PICK e \in refs : e.of.generation = c.accepted /\ e.of.operation = c.operation
      BY <1>1, <2>2, <2>3, BackedLoads
    <3>2. d = e
      BY <1>1, <2>3, <3>1, BackedFacts
    <3> QED BY <1>2, <3>1, <3>2
  <2>4. CASE d.of.generation = c.retained
    <3>1. d.at = "generations" /\ Complete(d) /\ d \in n.directories
      BY <1>1, <2>1, WholeFacts
    <3>2. d \in load_generation(n, c.retained)
      BY <2>4, <3>1 DEF load_generation, Directories
    <3> QED BY <1>2, <3>2 DEF retained_operation
  <2> QED BY <2>1, <2>3, <2>4
<1> QED BY <1>1, <1>2, <1>3 DEF Follows

\* A publication starts on a settled store.
LEMMA PublishRuns ==
  ASSUME NEW n, Runs(n, <<>>), NEW r \in Requests, MayPublish(n, r)
  PROVE  Runs(n, PublishScript(CurrentOf(n), r))
<1> DEFINE w == current_successor_wire(CurrentOf(n), r)
<1>1. PICK refs \in SUBSET n.directories : Settles(n, refs)
  BY RunsCarries
<1>2. Staging(n, refs, Publish1(r, w))
  BY <1>1, MayPublishFollows DEF Staging
<1>3. Runs(n, Publish1(r, w))
  BY <1>2 DEF Runs
<1> QED BY <1>3, ScriptForms

\* Every step of the specification keeps the invariant.
LEMMA StepInvariant ==
  ASSUME IInv, ~ adopted', [Next]_vars
  PROVE  IInv'
<1> USE DEF IInv
<1>1. CASE Lock
  <2>1. PICK todo \in recover_locked(names) :
          writer' = [request |-> None, phase |-> "recovering", todo |-> todo]
    BY <1>1 DEF Lock
  <2>2. UNCHANGED <<names, images, reader>> /\ reader = None /\ ~ Unsynced(names)
    BY <1>1 DEF Lock
  <2>3. Runs(names, todo)
    BY <2>2, SyncedRuns
  <2>4. WriterRuns' /\ ReaderReads'
    BY <2>1, <2>2, <2>3 DEF WriterRuns, ReaderReads
  <2> QED BY <2>2, <2>4
<1>2. CASE publish_inner
  <2>1. PICK r \in Requests :
          /\ MayPublish(names, r)
          /\ writer' = [request |-> r, phase |-> "publishing",
                        todo |-> PublishScript(CurrentOf(names), r)]
    BY <1>2 DEF publish_inner
  <2> DEFINE todo == PublishScript(CurrentOf(names), r)
  <2>2. writer # None /\ Runs(names, <<>>) /\ reader = None
    BY <1>2 DEF publish_inner, Done, WriterRuns
  <2>3. Runs(names, todo)
    BY <2>1, <2>2, PublishRuns
  <2>4. writer' = [request |-> r, phase |-> "publishing", todo |-> todo]
    BY <2>1
  <2> HIDE DEF todo
  <2>5. UNCHANGED <<names, images, reader>>
    BY <1>2 DEF publish_inner
  <2>6. WriterRuns' /\ ReaderReads'
    BY <2>2, <2>3, <2>4, <2>5 DEF WriterRuns, ReaderReads
  <2> QED BY <2>5, <2>6
<1>3. CASE Replay \/ FinishPublication \/ FinishRecovery \/ Stop
  <2>1. UNCHANGED <<names, images, reader>> /\ writer' = None
    BY <1>3 DEF Replay, FinishPublication, FinishRecovery, Stop
  <2> QED BY <2>1 DEF WriterRuns, ReaderReads
<1>4. CASE Step
  <2> DEFINE s == Head(writer.todo)
             rest == Tail(writer.todo)
  <2>1. /\ writer # None /\ writer.todo # <<>> /\ reader = None /\ reader' = reader
        /\ writer = [request |-> writer.request, phase |-> writer.phase, todo |-> writer.todo]
        /\ writer.request # None => writer.request \in Requests
        /\ Runs(names, writer.todo)
    BY <1>4 DEF Step, WriterRuns
  <2>2. Carries(names, writer.todo)
    BY <2>1, RunsCarries
  <2>3. ASSUME NEW todo, writer' = [writer EXCEPT !.todo = todo]
        PROVE  writer' = [request |-> writer.request, phase |-> writer.phase, todo |-> todo]
    BY <2>1, <2>3
  <2>4. CASE s \in Procedures
    <3>1. PICK script \in Expand(s, names) : writer' = [writer EXCEPT !.todo = script \o rest]
      BY <1>4, <2>4 DEF Step
    <3>2. UNCHANGED <<names, images>>
      BY <1>4, <2>4 DEF Step
    <3>3. Runs(names, script \o rest)
      BY <2>2, <2>4, <3>1 DEF Carries
    <3> DEFINE todo == script \o rest
    <3>4. Runs(names, todo) /\ writer' = [writer EXCEPT !.todo = todo]
      BY <3>1, <3>3
    <3> HIDE DEF todo
    <3>5. writer' = [request |-> writer.request, phase |-> writer.phase, todo |-> todo]
      BY <2>3, <3>4
    <3>6. WriterRuns' /\ ReaderReads'
      BY <2>1, <3>2, <3>4, <3>5 DEF WriterRuns, ReaderReads
    <3> QED BY <3>2, <3>6
  <2>5. CASE s \notin Procedures
    <3>1. /\ names' = Applied(names, s)
          /\ images' = IF Commits(s) THEN {names'} ELSE images \cup {names'}
          /\ writer' = [writer EXCEPT !.todo = rest]
      BY <1>4, <2>5 DEF Step
    <3>2. Runs(names', rest)
      BY <2>2, <2>5, <3>1 DEF Carries
    <3>3. Legal(names')
      BY <3>2, RunsLegal
    <3>4. writer' = [request |-> writer.request, phase |-> writer.phase, todo |-> rest]
      BY <2>3, <3>1
    <3> HIDE DEF s, rest
    <3>5. names' \in images' /\ \A n \in images' : Legal(n)
      BY <3>1, <3>3
    <3>6. WriterRuns' /\ ReaderReads'
      BY <2>1, <3>2, <3>4 DEF WriterRuns, ReaderReads
    <3> QED BY <3>5, <3>6
  <2> QED BY <2>4, <2>5
<1>5. CASE StopInWrite
  <2> DEFINE s == Head(writer.todo)
  <2>1. /\ writer # None /\ writer.todo # <<>> /\ reader = None /\ reader' = reader
        /\ Runs(names, writer.todo) /\ writer' = None /\ s.op \in {"Write", "WriteNext"}
        /\ names' = Half(names, s) /\ images' = images \cup {names'}
    BY <1>5 DEF StopInWrite, WriterRuns
  <2>2. Carries(names, writer.todo)
    BY <2>1, RunsCarries
  <2>3. Legal(names')
    BY <2>1, <2>2 DEF Carries
  <2> HIDE DEF s
  <2> QED BY <2>1, <2>3 DEF WriterRuns, ReaderReads
<1>6. CASE PowerLoss
  <2>1. names' \in Survivors /\ images' = {names'} /\ writer' = None /\ reader' = None
    BY <1>6 DEF PowerLoss
  <2>2. Legal(names')
    BY <2>1, SurvivorsLegal
  <2> QED BY <2>1, <2>2 DEF WriterRuns, ReaderReads
<1>7. CASE LockLauncher
  <2>1. PICK g \in Generations : MayLaunch(g) /\ reader' = g
    BY <1>7, LaunchersAssumption DEF LockLauncher
  <2>2. UNCHANGED <<names, images, writer>> /\ writer = None /\ g \in LauncherTargets(names)
    BY <1>7, <2>1 DEF LockLauncher, MayLaunch
  <2> QED BY <2>1, <2>2 DEF WriterRuns, ReaderReads, LauncherTargets
<1>8. CASE ReplayLauncher \/ SyncLauncher
  <2>1. /\ UNCHANGED <<names, writer>> /\ images' = {names} /\ reader' \in {reader, None}
        /\ writer = None
    BY <1>8 DEF ReplayLauncher, SyncLauncher, MayLaunch, WriterRuns
  <2> QED BY <2>1 DEF WriterRuns, ReaderReads, LauncherTargets
<1>9. CASE StopLauncher
  BY <1>9 DEF StopLauncher, WriterRuns, ReaderReads
<1>10. ASSUME NEW l, l # None => l \in Generations /\ l \in LauncherTargets(names),
              names' = [names EXCEPT !.launcher = l], images' = images \cup {names'},
              UNCHANGED <<writer, reader>>
       PROVE  IInv'
  <2>1. Legal(names')
    BY <1>10, RelaunchedLegal
  <2>2. CurrentOf(names') = CurrentOf(names)
    <3>1. PICK refs \in SUBSET names.directories : \E xs : Holds(names, refs, xs)
      BY LegalHolds
    <3> QED BY <1>10, <3>1, Relaunched
  <2>3. \A todo : Runs(names, todo) => Runs(names', todo)
    BY <1>10, RelaunchedRuns
  <2>4. ReaderReads'
    BY <1>10, <2>2 DEF ReaderReads, LauncherTargets
  <2>5. WriterRuns'
    BY <1>10, <2>3 DEF WriterRuns
  <2> QED BY <1>10, <2>1, <2>4, <2>5
<1>11. CASE CreateLauncher
  BY <1>10, <1>11 DEF CreateLauncher, ReaderReads
<1>12. CASE RemoveLauncher
  BY <1>10, <1>12 DEF RemoveLauncher
<1>13. CASE UNCHANGED vars
  BY <1>13 DEF vars, WriterRuns, ReaderReads, LauncherTargets
<1> QED BY <1>1, <1>2, <1>3, <1>4, <1>5, <1>6, <1>7, <1>8, <1>9, <1>11, <1>12, <1>13
        DEF Next

-----------------------------------------------------------------------------
(***************************************************************************)
(* The invariant, and what it says of stops and launchers.                 *)
(***************************************************************************)
LEMMA AdoptedStays ==
  ASSUME [Next]_vars, ~ adopted'
  PROVE  ~ adopted
BY DEF Next, vars, Lock, publish_inner, Replay, FinishPublication, FinishRecovery, Step, Stop,
       StopInWrite, PowerLoss, LockLauncher, ReplayLauncher, CreateLauncher, SyncLauncher,
       StopLauncher, RemoveLauncher

\* Until a recovery takes over files that nobody synced (recover_locked syncs
\* directories only), the store and every store a stop could leave have one of
\* the five shapes, and the rest of the writer's script fits the store:
\* publish_locked and recover_locked never reach an operation they cannot do.
THEOREM InstallInvariant == Spec => [](~ adopted => IInv)
<1>1. Init => (~ adopted => IInv)
  BY InitInvariant
<1>2. (~ adopted => IInv) /\ [Next]_vars => (~ adopted => IInv)'
  BY StepInvariant, AdoptedStays
<1> QED BY <1>1, <1>2, PTL DEF Spec

\* Until a recovery takes over files that nobody synced: wherever a process
\* stops or the power fails, the store that survives loads, and recovery
\* finishes the interrupted publication or finds an incomplete stage that it
\* refuses by name (recover_locked).  Without that condition TLC shows a
\* store that no later publication can use.
THEOREM EveryStopIsRecovered == Spec => [](~ adopted => EveryStopRecovers)
<1>1. IInv => EveryStopRecovers
  <2> SUFFICES ASSUME IInv PROVE EveryStopRecovers
    OBVIOUS
  <2>1. \A n \in Survivors : Recovers(n)
    BY SurvivorsLegal, LegalRecovers DEF Recovers
  <2>2. Proceeds
    BY RunsCarries DEF IInv, WriterRuns, Carries, Proceeds
  <2> QED BY <2>1, <2>2 DEF EveryStopRecovers
<1> QED BY <1>1, InstallInvariant, PTL

\* Until a recovery takes over files that nobody synced: the generation a
\* launcher names is there with its binary, or two newer generations have
\* superseded it; retirement never removes what a current launcher executes.
THEOREM LaunchersAreBacked == Spec => [](~ adopted => LauncherIsBacked)
<1>1. IInv => LauncherIsBacked
  <2> SUFFICES ASSUME IInv PROVE LauncherIsBacked
    OBVIOUS
  <2>1. ASSUME NEW n \in Survivors, n.launcher # None
        PROVE  \/ Binary(n, n.launcher) # {}
               \/ Len(CurrentOf(n).accepted) >= Len(n.launcher) + 2
    <3>1. \/ load_generation(n, n.launcher) # {}
          \/ Len(CurrentOf(n).accepted) >= Len(n.launcher) + 2
      BY <2>1, SurvivorsLegal, LegalLaunched
    <3> QED BY <3>1 DEF load_generation, Binary, Complete
  <2>2. reader # None => reader \in LauncherTargets(names) /\ load_generation(names, reader) # {}
    BY TargetsLoad DEF IInv, ReaderReads, LauncherTargets
  <2> QED BY <2>1, <2>2 DEF LauncherIsBacked
<1> QED BY <1>1, InstallInvariant, PTL

-----------------------------------------------------------------------------
(***************************************************************************)
(* What is installed.  The stores a power loss may leave settle to at most *)
(* two generations: the one the writer's store settles to, and, while the  *)
(* last file of its stage is not synced, the predecessor of that one.      *)
(***************************************************************************)
\* What the images I may settle to.
EndsOf(I) == {Settled(n) : n \in UNION {Torn(k) : k \in I}}

Near(E, g) ==
  /\ g \in Seq(Builds) /\ g \in E
  /\ \A e \in E : e = g \/ (g # <<>> /\ e = predecessor(g))

Least(E) == CHOOSE g \in E : \A h \in E : Len(g) <= Len(h)

Grows(g, h) == h = g \/ \E b \in Builds : h = Append(g, b)

\* A nonempty sequence of builds is its predecessor and one build more.
LEMMA PriorFacts ==
  ASSUME NEW g \in Seq(Builds), g # <<>>
  PROVE  /\ predecessor(g) \in Seq(Builds) /\ Len(g) \in Nat /\ Len(predecessor(g)) = Len(g) - 1
         /\ \E b \in Builds : g = Append(predecessor(g), b)
<1> DEFINE p == SubSeq(g, 1, Len(g) - 1)
           b == g[Len(g)]
<1>1. Len(g) \in Nat /\ Len(g) > 0 /\ Len(g) - 1 \in Nat
  BY EmptySeq, LenProperties
<1>2. (\A i \in 1 .. Len(g) - 1 : g[i] \in Builds) /\ b \in Builds
  BY <1>1, ElementOfSeq
<1>3. p \in Seq(Builds)
  BY <1>1
<1>4. Len(p) = Len(g) - 1
  BY <1>1, <1>2, FirstPart
<1>5. \A i \in 1 .. Len(g) - 1 : p[i] = g[i]
  BY <1>1, <1>2, <1>4, SubSeqProperties
<1>6. g = Append(p, b)
  <2> DEFINE a == Append(p, b)
  <2>1. /\ a \in Seq(Builds) /\ Len(a) = Len(g)
        /\ \A i \in 1 .. Len(p) : a[i] = p[i]
        /\ a[Len(p) + 1] = b
    <3> HIDE DEF p, b
    <3>1. a \in Seq(Builds) /\ Len(a) = Len(p) + 1
      BY <1>2, <1>3, AppendProperties
    <3>2. \A i \in 1 .. Len(p) : a[i] = p[i]
      BY <1>2, <1>3, AppendProperties
    <3>3. a[Len(p) + 1] = b
      BY <1>2, <1>3, AppendProperties
    <3> QED BY <1>1, <1>4, <3>1, <3>2, <3>3
  <2> HIDE DEF p, a
  <2>2. \A i \in 1 .. Len(g) : a[i] = g[i]
    BY <1>1, <1>4, <1>5, <2>1
  <2>3. a = g
    BY <2>1, <2>2, SeqEqual
  <2> QED BY <2>3 DEF a
<1> QED BY <1>1, <1>2, <1>3, <1>4, <1>6 DEF predecessor, Front

\* The least end is the predecessor wherever an image still settles to it.
LEMMA LeastIs ==
  ASSUME NEW E, NEW g, Near(E, g)
  PROVE  Least(E) = IF E = {g} THEN g ELSE predecessor(g)
<1>1. g \in Seq(Builds) /\ g \in E /\ Len(g) \in Nat
  BY LenProperties DEF Near
<1>2. CASE E = {g}
  <2>1. \E x \in E : \A h \in E : Len(x) <= Len(h)
    BY <1>1, <1>2
  <2>2. Least(E) \in E
    BY <2>1 DEF Least
  <2> QED BY <1>2, <2>2
<1>3. CASE E # {g}
  <2>1. g # <<>> /\ predecessor(g) \in E /\ E = {g, predecessor(g)}
    BY <1>1, <1>3 DEF Near
  <2>2. Len(predecessor(g)) = Len(g) - 1
    BY <1>1, <2>1, PriorFacts
  <2>3. \A h \in E : Len(predecessor(g)) <= Len(h)
    BY <1>1, <2>1, <2>2
  <2>4. Least(E) \in E /\ \A h \in E : Len(Least(E)) <= Len(h)
    BY <2>1, <2>3 DEF Least
  <2>5. Len(Least(E)) <= Len(g) - 1
    BY <2>1, <2>2, <2>4
  <2> QED BY <1>1, <1>3, <2>1, <2>4, <2>5
<1> QED BY <1>2, <1>3

\* Fewer ends: what is installed stays or gains one build.
LEMMA Narrows ==
  ASSUME NEW E, NEW g, Near(E, g), NEW F, F \subseteq E, NEW h \in F, h = g \/ F = {h}
  PROVE  Near(F, h) /\ Grows(Least(E), Least(F))
<1>1. /\ g \in Seq(Builds) /\ g \in E /\ Len(g) \in Nat
      /\ \A e \in E : e = g \/ (g # <<>> /\ e = predecessor(g))
  BY LenProperties DEF Near
<1>2. CASE h = g
  <2>1. Near(F, g)
    BY <1>1, <1>2 DEF Near
  <2>2. /\ Least(E) = IF E = {g} THEN g ELSE predecessor(g)
        /\ Least(F) = IF F = {g} THEN g ELSE predecessor(g)
    BY <2>1, LeastIs
  <2>3. CASE E = {g}
    BY <1>2, <2>1, <2>2, <2>3 DEF Grows
  <2>4. CASE F # {g}
    <3>1. E # {g}
      BY <1>2, <2>4
    <3> QED BY <1>2, <2>1, <2>2, <2>4, <3>1 DEF Grows
  <2>5. CASE E # {g} /\ F = {g}
    <3>1. g # <<>>
      BY <1>1, <2>5
    <3>2. \E b \in Builds : g = Append(predecessor(g), b)
      BY <1>1, <3>1, PriorFacts
    <3> QED BY <1>2, <2>1, <2>2, <2>5, <3>2 DEF Grows
  <2> QED BY <2>3, <2>4, <2>5
<1>3. CASE h # g /\ F = {h}
  <2>1. g # <<>> /\ h = predecessor(g) /\ E # {g}
    BY <1>1, <1>3
  <2>2. h \in Seq(Builds)
    BY <1>1, <2>1, PriorFacts
  <2>3. Near(F, h)
    BY <1>3, <2>2 DEF Near
  <2>4. Least(E) = h /\ Least(F) = h
    BY <1>3, <2>1, <2>3, LeastIs
  <2> QED BY <2>3, <2>4 DEF Grows
<1> QED BY <1>2, <1>3

\* A new end, one build longer: what is installed stays.
LEMMA Widens ==
  ASSUME NEW E, NEW g, Near(E, g), E = {g}, NEW h \in Seq(Builds), h # <<>>,
         predecessor(h) = g, NEW F, g \in F, h \in F, F \subseteq {g, h}
  PROVE  Near(F, h) /\ Least(F) = Least(E)
<1>1. Near(F, h)
  BY DEF Near
<1>2. Len(predecessor(h)) = Len(h) - 1 /\ Len(h) \in Nat
  BY PriorFacts
<1>3. F # {h}
  BY <1>2
<1>4. Least(F) = g /\ Least(E) = g
  BY <1>1, <1>3, LeastIs
<1> QED BY <1>1, <1>4

-----------------------------------------------------------------------------
(***************************************************************************)
(* A store whose bytes were written back is one outcome of a power loss,   *)
(* and what one power loss left, another does not change.                  *)
(***************************************************************************)
LEMMA Tears ==
  ASSUME NEW n, NEW m, NEW c, NEW x, NEW lost, TearsTo(n, m, c, x, lost)
  PROVE  m \in Torn(n)
<1> DEFINE choices == SUBSET WrittenFiles(n)
           outcome(f, g, S) ==
             [current |-> f, next |-> g,
              directories |-> {TornDirectory(d, S) : d \in n.directories},
              launcher |-> n.launcher]
<1>1. Torn(n) = {outcome(f, g, S) : f \in TornDocument(n.current), g \in TornDocument(n.next),
                                    S \in choices}
  BY DEF Torn
<1>2. /\ c \in TornDocument(n.current) /\ x \in TornDocument(n.next) /\ lost \in choices
      /\ m = outcome(c, x, lost)
  BY DEF TearsTo
<1> HIDE DEF choices, outcome
<1> QED BY <1>1, <1>2

\* Bytes that were written back are one outcome of a power loss.
LEMMA WrittenOutcome ==
  /\ \A status : WrittenStatus(status) \in TornFile(status)
  /\ \A file : WrittenDocument(file) \in TornDocument(file)
BY DEF WrittenStatus, TornFile, WrittenDocument, TornDocument

\* Where every directory is synced only current.next may differ,
LEMMA SyncedTears ==
  ASSUME NEW n, NEW refs, NEW xs, Holds(n, refs, xs), \A d \in xs : Kept(d),
         NEW m, Keeps(n, m, refs, xs), m.next \in TornDocument(n.next)
  PROVE  m \in Torn(n)
<1>1. Backed(n, refs) /\ n.directories = refs \cup xs
  BY DEF Holds
<1>2. n.current \in TornDocument(n.current)
  BY <1>1, TornCurrent
<1> DEFINE lost == {}
<1>3. lost \in SUBSET WrittenFiles(n)
  OBVIOUS
<1> HIDE DEF lost
<1>4. \A d \in n.directories : TornDirectory(d, lost) = d
  BY <1>1, BackedKept, TornKept
<1>5. {TornDirectory(d, lost) : d \in n.directories} = refs \cup xs
  BY <1>1, <1>4
<1>6. TearsTo(n, m, n.current, m.next, lost)
  BY <1>2, <1>3, <1>5 DEF TearsTo, Keeps, Changes
<1> QED BY <1>6, Tears

\* else the directory beside the current ones takes one of its outcomes.
LEMMA BesideTears ==
  ASSUME NEW n, NEW refs, NEW at, NEW r, NEW b, NEW o, Holds(n, refs, {Directory(at, r, b, o)}),
         NEW p \in TornFile(b), NEW q \in TornFile(o),
         NEW m, Keeps(n, m, refs, {Directory(at, r, p, q)}), m.next \in TornDocument(n.next)
  PROVE  m \in Torn(n)
<1> DEFINE e == Directory(at, r, b, o)
           y == Directory(at, r, p, q)
           xs == {e}
           ys == {y}
           lost == {f \in WrittenFiles(n) :
                      f[1] = e /\ IF f[2] = "binary" THEN p = "torn" ELSE q = "torn"}
<1>1. e.at = at /\ e.of = r /\ e["binary"] = b /\ e["document"] = o
  BY DEF Directory
<1>2. Holds(n, refs, xs) /\ Keeps(n, m, refs, ys)
  OBVIOUS
<1>3. Backed(n, refs) /\ n.directories = refs \cup xs /\ e \in n.directories
  BY <1>2 DEF Holds
<1>4. Outcome(e, "binary", lost) = p
  <2> HIDE DEF e, y
  <2>1. CASE b # "written"
    BY <1>1, <2>1 DEF Outcome, TornFile
  <2>2. CASE b = "written"
    <3>1. <<e, "binary">> \in WrittenFiles(n)
      BY <1>1, <1>3, <2>2 DEF WrittenFiles
    <3>2. <<e, "binary">> \in lost <=> p = "torn"
      BY <3>1
    <3> HIDE DEF lost
    <3> QED BY <1>1, <2>2, <3>2 DEF Outcome, TornFile
  <2> QED BY <2>1, <2>2
<1>5. Outcome(e, "document", lost) = q
  <2> HIDE DEF e, y
  <2>1. CASE o # "written"
    BY <1>1, <2>1 DEF Outcome, TornFile
  <2>2. CASE o = "written"
    <3>1. <<e, "document">> \in WrittenFiles(n)
      BY <1>1, <1>3, <2>2 DEF WrittenFiles
    <3>2. <<e, "document">> \in lost <=> q = "torn"
      BY <3>1
    <3> HIDE DEF lost
    <3> QED BY <1>1, <2>2, <3>2 DEF Outcome, TornFile
  <2> QED BY <2>1, <2>2
<1>6. lost \in SUBSET WrittenFiles(n)
  OBVIOUS
<1> HIDE DEF lost
<1>7. TornDirectory(e, lost) = y
  BY <1>1, <1>4, <1>5 DEF TornDirectory, Directory
<1>8. \A d \in refs : TornDirectory(d, lost) = d
  BY <1>3, BackedKept, TornKept
<1> HIDE DEF e, y
<1>9. {TornDirectory(d, lost) : d \in n.directories} = refs \cup ys
  BY <1>3, <1>7, <1>8
<1>10. n.current \in TornDocument(n.current)
  BY <1>3, TornCurrent
<1> HIDE DEF ys
<1>11. TearsTo(n, m, n.current, m.next, lost)
  BY <1>2, <1>6, <1>9, <1>10 DEF TearsTo, Keeps, Changes
<1> QED BY <1>11, Tears

\* A legal store has at most one directory beside those of its document.
LEMMA LegalForm ==
  ASSUME NEW n, Legal(n)
  PROVE  \E refs : \/ Holds(n, refs, {})
                   \/ \E at, r, b, o : Holds(n, refs, {Directory(at, r, b, o)})
<1>1. ASSUME NEW refs, NEW t, NEW d \in {Whole(t)} \cup Emptied(t), Retires(n, refs, t, d)
      PROVE  \E at, r, b, o : Holds(n, refs, {Directory(at, r, b, o)})
  BY <1>1 DEF Retires, Whole, Emptied
<1>2. ASSUME NEW refs, NEW r, Places(n, refs, r)
      PROVE  \E at, b, o : Holds(n, refs, {Directory(at, r, b, o)})
  BY <1>2 DEF Places, Whole
<1>3. ASSUME NEW refs, NEW r, NEW b, NEW o, Stages(n, refs, r, b, o)
      PROVE  \E at : Holds(n, refs, {Directory(at, r, b, o)})
  BY <1>3 DEF Stages
<1>4. ASSUME NEW refs, Settles(n, refs) \/ Clears(n, refs) PROVE Holds(n, refs, {})
  BY <1>4 DEF Settles, Clears
<1>5. PICK refs :
        \/ Settles(n, refs)
        \/ \E r : \/ \E b, o : Stages(n, refs, r, b, o)
                 \/ Places(n, refs, r)
                 \/ \E d \in {Whole(r)} \cup Emptied(r) : Retires(n, refs, r, d)
        \/ Clears(n, refs)
  BY DEF Legal
<1> QED BY <1>1, <1>2, <1>3, <1>4, <1>5

\* A store whose bytes were written back could have been left by a power loss,
LEMMA WrittenTorn ==
  ASSUME NEW n, Legal(n)
  PROVE  WrittenBack(n) \in Torn(n)
<1> DEFINE m == WrittenBack(n)
<1>1. ASSUME NEW refs, Holds(n, refs, {}) PROVE m \in Torn(n)
  <2> DEFINE xs == {}
  <2>1. Keeps(n, m, refs, xs) /\ m.next \in TornDocument(n.next)
    BY <1>1, WrittenAlone, WrittenOutcome
  <2>2. Holds(n, refs, xs) /\ \A d \in xs : Kept(d)
    BY <1>1
  <2> HIDE DEF xs, m
  <2> QED BY <2>1, <2>2, SyncedTears
<1>2. ASSUME NEW refs, NEW at, NEW r, NEW b, NEW o, Holds(n, refs, {Directory(at, r, b, o)})
      PROVE  m \in Torn(n)
  <2>1. /\ Keeps(n, m, refs, {Directory(at, r, WrittenStatus(b), WrittenStatus(o))})
        /\ m.next \in TornDocument(n.next)
    BY <1>2, WrittenBeside, WrittenOutcome
  <2> HIDE DEF m
  <2> QED BY <1>2, <2>1, BesideTears, WrittenOutcome
<1> QED BY <1>1, <1>2, LegalForm

\* and settles to what it settled to before.
LEMMA WrittenSettles ==
  ASSUME NEW n, Legal(n)
  PROVE  Settled(WrittenBack(n)) = Settled(n)
<1> DEFINE m == WrittenBack(n)
<1>1. PICK refs \in SUBSET n.directories :
        \/ Settles(n, refs)
        \/ \E r \in Requests :
             \/ \E b, o \in Statuses : Stages(n, refs, r, b, o)
             \/ Places(n, refs, r)
             \/ \E d \in {Whole(r)} \cup Emptied(r) : Retires(n, refs, r, d)
        \/ Clears(n, refs)
  BY DEF Legal
<1>2. ASSUME NEW r, NEW b, NEW o, Stages(n, refs, r, b, o)
      PROVE  Settled(m) = Settled(n)
  <2>1. Holds(n, refs, {Directory("staged", r, b, o)}) /\ n.next = None /\ Follows(n, refs, r)
    BY <1>2 DEF Stages
  <2>2. /\ Holds(m, refs, {Directory("staged", r, WrittenStatus(b), WrittenStatus(o))})
        /\ CurrentOf(m) = CurrentOf(n) /\ m.next = None /\ Follows(m, refs, r)
    BY <2>1, WrittenBeside, WrittenNone
  <2> HIDE DEF m
  <2>3. Stages(m, refs, r, WrittenStatus(b), WrittenStatus(o))
    BY <2>2 DEF Stages
  <2>4. \A status : Readable(WrittenStatus(status)) <=> Readable(status)
    BY DEF Readable, WrittenStatus
  <2> QED BY <1>2, <2>2, <2>3, <2>4, SettledStages
<1>3. CASE Firm(n)
  BY <1>3, WrittenTorn DEF Firm
<1> QED BY <1>1, <1>2, <1>3, FirmShapes

\* What a power loss left is firm.
LEMMA TornFirm ==
  ASSUME NEW n, Legal(n), NEW m \in Torn(n)
  PROVE  Firm(m)
<1>1. PICK refs \in SUBSET n.directories :
        \/ Settles(n, refs)
        \/ \E r \in Requests :
             \/ \E b, o \in Statuses : Stages(n, refs, r, b, o)
             \/ Places(n, refs, r)
             \/ \E d \in {Whole(r)} \cup Emptied(r) : Retires(n, refs, r, d)
        \/ Clears(n, refs)
  BY DEF Legal
<1>2. CASE Settles(n, refs) \/ Clears(n, refs)
  BY <1>2, TornSettles, TornClears, FirmShapes
<1>3. ASSUME NEW r \in Requests, NEW b \in Statuses, NEW o \in Statuses, Stages(n, refs, r, b, o)
      PROVE  Firm(m)
  <2>1. PICK p \in TornFile(b), q \in TornFile(o) : Stages(m, refs, r, p, q)
    BY <1>3, TornStages
  <2>2. p \in Statuses /\ q \in Statuses /\ p # "written" /\ q # "written"
    BY DEF TornFile, Statuses
  <2>3. ~ (Readable(p) /\ Readable(q)) \/ (p = "synced" /\ q = "synced")
    BY <2>2 DEF Readable
  <2> QED BY <2>1, <2>2, <2>3, StagesTear
<1>4. ASSUME NEW r \in Requests, Places(n, refs, r) PROVE Firm(m)
  BY <1>4, TornPlaces, FirmShapes
<1>5. ASSUME NEW r \in Requests, NEW d \in {Whole(r)} \cup Emptied(r), Retires(n, refs, r, d)
      PROVE  Firm(m)
  BY <1>5, TornRetires, FirmShapes
<1> QED BY <1>1, <1>2, <1>3, <1>4, <1>5

\* A launcher has no part in what a store settles to.
LEMMA TornRelaunched ==
  ASSUME NEW n, Legal(n), NEW l, NEW m, m = [n EXCEPT !.launcher = l]
  PROVE  Settled(m) = Settled(n) /\ \A k \in Torn(m) : \E j \in Torn(n) : Settled(k) = Settled(j)
<1>1. n = [current |-> n.current, next |-> n.next, directories |-> n.directories,
           launcher |-> n.launcher]
  BY LegalForm DEF Holds
<1>2. m.current = n.current /\ m.next = n.next /\ m.directories = n.directories
  BY <1>1
<1>3. ASSUME NEW i, NEW j,
             i.current = j.current /\ i.next = j.next /\ i.directories = j.directories
      PROVE  Settled(i) = Settled(j)
  <2>1. CurrentOf(i) = CurrentOf(j)
    BY <1>3 DEF CurrentOf
  <2>2. Successors(i) = Successors(j)
    BY <1>3, <2>1 DEF Successors, Directories
  <2>3. (CHOOSE d \in Successors(i) : TRUE) = (CHOOSE d \in Successors(j) : TRUE)
    BY <2>2, Zenon
  <2> DEFINE a == CHOOSE d \in Successors(i) : TRUE
             b == CHOOSE d \in Successors(j) : TRUE
  <2>4. Settled(i) = IF i.next # None /\ Readable(i.next.status) THEN i.next.document.accepted
                     ELSE IF Successors(i) # {} THEN a.of.generation ELSE CurrentOf(i).accepted
    BY SettledCases, Zenon
  <2>5. Settled(j) = IF j.next # None /\ Readable(j.next.status) THEN j.next.document.accepted
                     ELSE IF Successors(j) # {} THEN b.of.generation ELSE CurrentOf(j).accepted
    BY SettledCases, Zenon
  <2>6. a = b
    BY <2>3
  <2> HIDE DEF a, b
  <2> QED BY <1>3, <2>1, <2>2, <2>4, <2>5, <2>6
<1>4. ASSUME NEW k \in Torn(m) PROVE \E j \in Torn(n) : Settled(k) = Settled(j)
  <2>1. PICK c, x, lost : TearsTo(m, k, c, x, lost)
    BY TornParts
  <2>2. WrittenFiles(m) = WrittenFiles(n)
    BY <1>2 DEF WrittenFiles
  <2> DEFINE dirs == {TornDirectory(d, lost) : d \in n.directories}
             j == [current |-> c, next |-> x, directories |-> dirs, launcher |-> n.launcher]
  <2>3. TearsTo(n, j, c, x, lost)
    BY <1>2, <2>1, <2>2 DEF TearsTo
  <2>4. k.current = c /\ k.next = x /\ k.directories = dirs
    BY <1>2, <2>1 DEF TearsTo
  <2> HIDE DEF dirs
  <2>5. j.current = c /\ j.next = x /\ j.directories = dirs
    OBVIOUS
  <2> HIDE DEF j
  <2> QED BY <1>3, <2>3, <2>4, <2>5, Tears
<1> QED BY <1>2, <1>3, <1>4

-----------------------------------------------------------------------------
(***************************************************************************)
(* Every step leaves what is installed, or adds one build to it.           *)
(***************************************************************************)
LEMMA EndsOut ==
  ASSUME NEW I, NEW e
  PROVE  e \in EndsOf(I) <=> \E k \in I : \E m \in Torn(k) : e = Settled(m)
BY DEF EndsOf

\* with one image more,
LEMMA EndsAdd ==
  ASSUME NEW I, NEW m
  PROVE  EndsOf(I \cup {m}) = EndsOf(I) \cup EndsOf({m})
<1> DEFINE J == I \cup {m}
           M == {m}
<1>1. \A k : k \in J <=> k \in I \/ k \in M
  OBVIOUS
<1> HIDE DEF J, M
<1>2. \A e : e \in EndsOf(J) <=> e \in EndsOf(I) \/ e \in EndsOf(M)
  BY <1>1, EndsOut
<1>3. EndsOf(J) = EndsOf(I) \cup EndsOf(M)
  BY <1>2
<1> QED BY <1>3 DEF J, M

\* and of one image alone.
LEMMA EndsOne ==
  ASSUME NEW m, Legal(m)
  PROVE  /\ \A e : e \in EndsOf({m}) <=> \E k \in Torn(m) : e = Settled(k)
         /\ Settled(m) \in EndsOf({m})
         /\ Firm(m) => EndsOf({m}) = {Settled(m)}
<1> DEFINE M == {m}
<1>1. \A k : k \in M <=> k = m
  OBVIOUS
<1> HIDE DEF M
<1>2. \A e : e \in EndsOf(M) <=> \E k \in Torn(m) : e = Settled(k)
  BY <1>1, EndsOut
<1>3. Settled(m) \in EndsOf(M)
  BY <1>2, WrittenTorn, WrittenSettles
<1>4. Firm(m) => EndsOf(M) = {Settled(m)}
  BY <1>2, <1>3 DEF Firm
<1> QED BY <1>2, <1>3, <1>4 DEF M

\* One image of many.
LEMMA EndsPart ==
  ASSUME NEW I, NEW n \in I, Legal(n)
  PROVE  EndsOf({n}) \subseteq EndsOf(I)
BY EndsOne, EndsOut

\* A level step changes nothing of what the images settle to.
LEMMA LevelEnds ==
  ASSUME NEW I, NEW n, Near(EndsOf(I), Settled(n)), NEW m, Legal(m), Level(n, m)
  PROVE  /\ EndsOf(I \cup {m}) = EndsOf(I) /\ EndsOf({m}) = {Settled(n)}
         /\ Settled(m) = Settled(n)
<1> DEFINE J == I \cup {m}
           M == {m}
<1>1. Settled(m) = Settled(n) /\ Settled(n) \in EndsOf(I) /\ EndsOf(M) = {Settled(n)}
  BY EndsOne DEF Level, Near
<1>2. EndsOf(J) = EndsOf(I) \cup EndsOf(M)
  BY EndsAdd
<1> HIDE DEF J, M
<1>3. EndsOf(J) = EndsOf(I)
  BY <1>1, <1>2
<1> QED BY <1>1, <1>3 DEF J, M

\* The last file of a stage adds its generation to what they settle to.
LEMMA RisesEnds ==
  ASSUME NEW I, NEW n, Near(EndsOf(I), Settled(n)), EndsOf(I) = {Settled(n)},
         NEW m, Legal(m), NEW r, Rises(n, m, r)
  PROVE  /\ Near(EndsOf(I \cup {m}), Settled(m))
         /\ Least(EndsOf(I \cup {m})) = Least(EndsOf(I))
<1> DEFINE g == Settled(n)
           h == Settled(m)
           E == EndsOf(I)
           F == EndsOf(I \cup {m})
<1>1. /\ h \in Generations /\ g = predecessor(h)
      /\ \A k \in Torn(m) : Settled(k) \in {h, g}
  BY RequestFacts DEF Rises
<1>2. h \in Seq(Builds) /\ h # <<>>
  BY <1>1, GenerationFacts DEF NoGeneration
<1>3. h \in EndsOf({m}) /\ EndsOf({m}) \subseteq {g, h}
  BY <1>1, EndsOne
<1>4. g \in F /\ h \in F /\ F \subseteq {g, h}
  <2>1. F = E \cup EndsOf({m}) /\ E = {g}
    BY EndsAdd
  <2> HIDE DEF E, F, g, h
  <2> QED BY <1>3, <2>1
<1>5. Near(E, g) /\ E = {g}
  OBVIOUS
<1> HIDE DEF E, F, g, h
<1>6. Near(F, h) /\ Least(F) = Least(E)
  BY <1>1, <1>2, <1>4, <1>5, Widens
<1> QED BY <1>6 DEF E, F, h

\* What a step on files does to the images.
After(I, m, s) == IF Commits(s) THEN {m} ELSE I \cup {m}

\* So what is installed stays or gains one build with every step on files,
LEMMA StepEnds ==
  ASSUME NEW I, NEW n, NEW todo, Near(EndsOf(I), Settled(n)), Carries(n, todo),
         WritesDocument(todo) => EndsOf(I) = {Settled(n)}, Head(todo) \notin Procedures
  PROVE  LET s == Head(todo)  m == Applied(n, s)  J == After(I, m, s) IN
         /\ Near(EndsOf(J), Settled(m)) /\ Grows(Least(EndsOf(I)), Least(EndsOf(J)))
         /\ ~ WritesDocument(todo) => /\ Settled(m) = Settled(n) /\ EndsOf(J) \subseteq EndsOf(I)
                                      /\ Commits(s) => EndsOf(J) = {Settled(m)}
<1> DEFINE s == Head(todo)
           m == Applied(n, s)
           J == After(I, m, s)
<1>1. /\ Runs(m, Tail(todo))
      /\ IF WritesDocument(todo) THEN Rises(n, m, s.of) ELSE Level(n, m)
  BY DEF Carries
<1>2. Legal(m)
  BY <1>1, RunsLegal
<1>3. WritesDocument(todo) => ~ Commits(s)
  BY DEF WritesDocument, Commits
<1> HIDE DEF m, s
<1>4. CASE WritesDocument(todo)
  <2>1. J = I \cup {m}
    BY <1>3, <1>4 DEF After
  <2>2. Near(EndsOf(J), Settled(m)) /\ Least(EndsOf(J)) = Least(EndsOf(I))
    BY <1>1, <1>2, <1>4, <2>1, RisesEnds
  <2> HIDE DEF J
  <2> QED BY <1>4, <2>2 DEF Grows, m, s, J
<1>5. CASE ~ WritesDocument(todo)
  <2>a. Level(n, m)
    BY <1>1, <1>5
  <2>b. /\ EndsOf(I \cup {m}) = EndsOf(I) /\ EndsOf({m}) = {Settled(n)}
        /\ Settled(m) = Settled(n)
    BY <1>2, <2>a, LevelEnds, Zenon
  <2>1. /\ EndsOf(I \cup {m}) = EndsOf(I) /\ EndsOf({m}) = {Settled(n)}
        /\ Settled(m) = Settled(n) /\ Settled(n) \in EndsOf(I)
    BY <2>b DEF Near
  <2>2. /\ EndsOf(J) \subseteq EndsOf(I) /\ Settled(n) \in EndsOf(J)
        /\ Commits(s) => EndsOf(J) = {Settled(m)}
    BY <2>1 DEF After
  <2> HIDE DEF J
  <2>3. Near(EndsOf(J), Settled(m)) /\ Grows(Least(EndsOf(I)), Least(EndsOf(J)))
    BY <2>1, <2>2, Narrows
  <2> QED BY <1>5, <2>1, <2>2, <2>3 DEF m, s, J
<1> QED BY <1>4, <1>5

\* Recovery never fills a stage.
LEMMA RecoverLate ==
  ASSUME NEW n, Legal(n), NEW todo \in recover_locked(n)
  PROVE  ~ WritesDocument(todo)
<1>1. PICK refs \in SUBSET n.directories :
        \/ Settles(n, refs)
        \/ \E r \in Requests :
             \/ \E b, o \in Statuses : Stages(n, refs, r, b, o)
             \/ Places(n, refs, r)
             \/ \E d \in {Whole(r)} \cup Emptied(r) : Retires(n, refs, r, d)
        \/ Clears(n, refs)
  BY DEF Legal
<1>2. \/ \E r, w : todo \in {<<>>, Publish7(r, w), Publish9(w), Publish12}
      \/ \E t : todo \in {Retire1(t), Retire4, Retire5}
  <2>1. CASE Settles(n, refs)
    BY <2>1, RecoverSettled
  <2>2. CASE Clears(n, refs)
    BY <2>2, RecoverClears
  <2>3. ASSUME NEW r, NEW b, NEW o, Stages(n, refs, r, b, o)
        PROVE  \E w : todo = Publish7(r, w)
    BY <2>3, RecoverStages
  <2>4. ASSUME NEW r, Places(n, refs, r)
        PROVE  \E w : todo \in {Publish9(w), Publish12}
    BY <2>4, RecoverPlaces
  <2>5. ASSUME NEW t, NEW d \in {Whole(t)} \cup Emptied(t), Retires(n, refs, t, d)
        PROVE  todo \in {Retire1(t), Retire4}
    BY <2>5, RecoverRetires
  <2> QED BY <1>1, <2>1, <2>2, <2>3, <2>4, <2>5
<1>3. Late(todo)
  BY <1>2, LatePublish, LateRetire
<1> QED BY <1>3 DEF Late, WritesDocument

-----------------------------------------------------------------------------
(***************************************************************************)
(* The rest of the invariant: what the images settle to, and how far a     *)
(* publication is.                                                         *)
(***************************************************************************)
\* The stage of r is being filled, or r is what every image settles to.
Publishes(I, n, todo, r) ==
  \/ \E w \in Documents :
       \/ todo \in {Publish1(r, w), Publish2(r, w), Publish3(r, w), Publish4(r, w)}
       \/ todo = Publish5(r, w) /\ Settled(n) = r.generation
  \/ Late(todo) /\ EndsOf(I) = {Settled(n)} /\ Settled(n) = r.generation

HInv ==
  /\ Near(EndsOf(images), Settled(names))
  /\ writer # None =>
       /\ WritesDocument(writer.todo) => EndsOf(images) = {Settled(names)}
       /\ writer.phase = "publishing" => Publishes(images, names, writer.todo, writer.request)

\* The steps of a publication that are not late.
LEMMA PublishOps ==
  ASSUME NEW r, NEW w
  PROVE  /\ \A todo \in {Publish1(r, w), Publish2(r, w), Publish3(r, w), Publish4(r, w),
                         Publish5(r, w)} :
              todo # <<>> /\ Head(todo) \notin Procedures
         /\ WritesDocument(Publish4(r, w)) /\ Head(Publish4(r, w)).of = r
         /\ ~ WritesDocument(Publish1(r, w))
         /\ ~ WritesDocument(Publish5(r, w)) /\ Commits(Head(Publish5(r, w)))
<1>1. /\ Make(r).op = "Make" /\ Write(r, "binary").op = "Write"
      /\ SyncFile(r, "binary").op = "SyncFile"
  BY DEF Make, Write, SyncFile
<1>2. /\ Write(r, "document").op = "Write" /\ Write(r, "document").file = "document"
      /\ Write(r, "document").of = r
  BY DEF Write
<1>3. SyncFile(r, "document").op = "SyncFile"
  BY DEF SyncFile
<1>4. \A s : s.op \in {"Make", "Write", "SyncFile"} => s \notin Procedures
  BY DEF Procedures, Cleanup, FinishRetirement, ClearMarker
<1>5. Head(Publish1(r, w)) = Make(r) /\ Head(Publish2(r, w)) = Write(r, "binary")
  BY PublishSteps
<1>6. Head(Publish3(r, w)) = SyncFile(r, "binary") /\ Head(Publish4(r, w)) = Write(r, "document")
  BY PublishSteps
<1>7. Head(Publish5(r, w)) = SyncFile(r, "document")
  BY PublishSteps
<1>8. /\ Publish1(r, w) # <<>> /\ Publish2(r, w) # <<>> /\ Publish3(r, w) # <<>>
      /\ Publish4(r, w) # <<>> /\ Publish5(r, w) # <<>>
  BY PublishSteps
<1>9. \A todo \in {Publish1(r, w), Publish2(r, w), Publish3(r, w), Publish4(r, w),
                   Publish5(r, w)} : todo # <<>> /\ Head(todo) \notin Procedures
  BY <1>1, <1>2, <1>3, <1>4, <1>5, <1>6, <1>7, <1>8
<1>10. WritesDocument(Publish4(r, w)) /\ Head(Publish4(r, w)).of = r
  BY <1>2, <1>6, <1>8 DEF WritesDocument
<1>11. ~ WritesDocument(Publish1(r, w)) /\ ~ WritesDocument(Publish5(r, w))
  BY <1>1, <1>3, <1>5, <1>7 DEF WritesDocument
<1>12. Commits(Head(Publish5(r, w)))
  BY <1>3, <1>7 DEF Commits
<1> QED BY <1>9, <1>10, <1>11, <1>12

\* and a publication gets ahead.
LEMMA PublishesStep ==
  ASSUME NEW I, NEW n, NEW todo, NEW r, Publishes(I, n, todo, r),
         Near(EndsOf(I), Settled(n)), Carries(n, todo),
         WritesDocument(todo) => EndsOf(I) = {Settled(n)}, Head(todo) \notin Procedures
  PROVE  LET s == Head(todo)  m == Applied(n, s) IN
         Publishes(After(I, m, s), m, Tail(todo), r)
<1> DEFINE s == Head(todo)
           m == Applied(n, s)
           J == After(I, m, s)
<1>1. /\ IF WritesDocument(todo) THEN Rises(n, m, s.of) ELSE Level(n, m)
      /\ Late(todo) => Late(Tail(todo))
  BY DEF Carries
<1>2. /\ Near(EndsOf(J), Settled(m))
      /\ ~ WritesDocument(todo) => /\ Settled(m) = Settled(n) /\ EndsOf(J) \subseteq EndsOf(I)
                                   /\ Commits(s) => EndsOf(J) = {Settled(m)}
  BY StepEnds
<1> HIDE DEF m, s, J
<1>3. ASSUME NEW w \in Documents, todo \in {Publish1(r, w), Publish2(r, w), Publish3(r, w)}
      PROVE  Publishes(J, m, Tail(todo), r)
  <2>1. /\ Tail(Publish1(r, w)) = Publish2(r, w) /\ Tail(Publish2(r, w)) = Publish3(r, w)
        /\ Tail(Publish3(r, w)) = Publish4(r, w)
    BY PublishSteps
  <2>2. Tail(todo) \in {Publish2(r, w), Publish3(r, w), Publish4(r, w)}
    BY <1>3, <2>1
  <2> QED BY <2>2 DEF Publishes
<1>4. ASSUME NEW w \in Documents, todo = Publish4(r, w)
      PROVE  Publishes(J, m, Tail(todo), r)
  <2>1. Tail(todo) = Publish5(r, w)
    BY <1>4, PublishSteps
  <2>2. WritesDocument(todo) /\ s.of = r
    BY <1>4, PublishOps DEF s
  <2>3. Settled(m) = r.generation
    BY <1>1, <2>2 DEF Rises
  <2> QED BY <2>1, <2>3 DEF Publishes
<1>5. ASSUME NEW w \in Documents, todo = Publish5(r, w), Settled(n) = r.generation
      PROVE  Publishes(J, m, Tail(todo), r)
  <2>1. Tail(todo) = Publish6(r, w)
    BY <1>5, PublishSteps
  <2>2. Late(Tail(todo))
    BY <2>1, LatePublish
  <2>3. ~ WritesDocument(todo) /\ Commits(s)
    BY <1>5, PublishOps DEF s
  <2> QED BY <1>2, <1>5, <2>2, <2>3 DEF Publishes
<1>6. ASSUME Late(todo) /\ EndsOf(I) = {Settled(n)} /\ Settled(n) = r.generation
      PROVE  Publishes(J, m, Tail(todo), r)
  <2>1. ~ WritesDocument(todo)
    BY <1>6 DEF Late, WritesDocument
  <2> DEFINE E == EndsOf(J)
             F == EndsOf(I)
  <2>2. Settled(m) = Settled(n) /\ E \subseteq F /\ Settled(m) \in E /\ F = {Settled(n)}
    BY <1>2, <1>6, <2>1 DEF Near
  <2> HIDE DEF E, F
  <2>3. E = {Settled(m)}
    BY <2>2
  <2>4. Late(Tail(todo))
    BY <1>1, <1>6
  <2>5. Settled(m) = r.generation /\ EndsOf(J) = {Settled(m)}
    BY <1>6, <2>2, <2>3 DEF E
  <2> QED BY <2>4, <2>5 DEF Publishes
<1>7. \/ \E w \in Documents :
           \/ todo \in {Publish1(r, w), Publish2(r, w), Publish3(r, w), Publish4(r, w)}
           \/ todo = Publish5(r, w) /\ Settled(n) = r.generation
      \/ Late(todo) /\ EndsOf(I) = {Settled(n)} /\ Settled(n) = r.generation
  BY DEF Publishes
<1>8. Publishes(J, m, Tail(todo), r)
  BY <1>3, <1>4, <1>5, <1>6, <1>7
<1> QED BY <1>8 DEF J, m, s

\* The step of the history, or none.
Advances == HInv' /\ Grows(Installed, Installed')

\* What is installed, of this state and of the next.
LEMMA InstalledLeast ==
  /\ Installed = Least(EndsOf(images)) /\ Installed' = Least(EndsOf(images'))
<1>1. ASSUME NEW I PROVE UNION {{Settled(m) : m \in Torn(n)} : n \in I} = EndsOf(I)
  <2> DEFINE U == UNION {{Settled(m) : m \in Torn(n)} : n \in I}
  <2>1. \A g : g \in U <=> \E n \in I : \E m \in Torn(n) : g = Settled(m)
    OBVIOUS
  <2>2. \A g : g \in EndsOf(I) <=> \E n \in I : \E m \in Torn(n) : g = Settled(m)
    BY DEF EndsOf
  <2> HIDE DEF U
  <2>3. U = EndsOf(I)
    BY <2>1, <2>2
  <2> QED BY <2>3 DEF U
<1>2. Installed = Least(EndsOf(images))
  BY <1>1 DEF Installed, Least
<1>3. Installed' = Least(EndsOf(images'))
  BY <1>1 DEF Installed, Least
<1> QED BY <1>2, <1>3

\* Nothing is installed at first.
LEMMA InitHistory == ASSUME Init PROVE HInv /\ Installed = <<>>
<1>1. Legal(names) /\ images = {names} /\ writer = None
  BY InitInvariant DEF IInv, Init
<1>2. PICK refs : Settles(names, refs)
  <2> DEFINE refs == {}
  <2>1. CurrentOf(names) = Empty /\ names.next = None
    BY DEF Init, CurrentOf
  <2>2. Holds(names, refs, {})
    BY DEF Init, Holds, Backed, Launched
  <2>3. Settles(names, refs)
    BY <2>1, <2>2 DEF Settles, Marked, Empty
  <2> QED BY <2>3
<1>3. Settled(names) = <<>>
  BY <1>2, SettledSettles DEF Init, CurrentOf, Empty, NoGeneration
<1>4. Firm(names)
  BY <1>2, FirmShapes
<1>5. EndsOf(images) = {<<>>}
  BY <1>1, <1>3, <1>4, EndsOne
<1>6. Near(EndsOf(images), Settled(names))
  BY <1>3, <1>5 DEF Near
<1>7. Installed = <<>>
  BY <1>3, <1>5, <1>6, InstalledLeast, LeastIs
<1> QED BY <1>1, <1>6, <1>7 DEF HInv

\* The images narrow to some of what they could settle to, and no writer runs.
LEMMA NarrowsTo ==
  ASSUME HInv, NEW E, E = EndsOf(images'), E \subseteq EndsOf(images),
         NEW g, g = Settled(names'), g \in E, g = Settled(names) \/ E = {g}
  PROVE  Near(EndsOf(images'), Settled(names')) /\ Grows(Installed, Installed')
<1>1. Near(EndsOf(images), Settled(names))
  BY DEF HInv
<1>2. Near(E, g) /\ Grows(Least(EndsOf(images)), Least(E))
  BY <1>1, Narrows
<1> QED BY <1>2, InstalledLeast

\* The names and what the images settle to stay as they are.
LEMMA StandsStill ==
  ASSUME HInv, EndsOf(images') = EndsOf(images), Settled(names') = Settled(names)
  PROVE  Near(EndsOf(images'), Settled(names')) /\ Grows(Installed, Installed')
BY InstalledLeast DEF HInv, Grows

\* Every step of the specification keeps the invariant, and what is installed
\* stays or gains one build.
LEMMA HistoryStep ==
  ASSUME IInv, HInv, ~ adopted', [Next]_vars
  PROVE  Advances
<1>1. /\ names \in images /\ \A n \in images : Legal(n)
      /\ Near(EndsOf(images), Settled(names))
  BY DEF IInv, HInv
<1>2. names' \in images' /\ \A n \in images' : Legal(n)
  BY StepInvariant DEF IInv
<1>3. CASE Lock
  <2>1. PICK todo \in recover_locked(names) :
          writer' = [request |-> None, phase |-> "recovering", todo |-> todo]
    BY <1>3 DEF Lock
  <2>2. UNCHANGED <<names, images>>
    BY <1>3 DEF Lock
  <2>3. Near(EndsOf(images'), Settled(names')) /\ Grows(Installed, Installed')
    BY <2>2, StandsStill
  <2>4. ~ WritesDocument(todo)
    BY <1>1, RecoverLate
  <2> QED BY <2>1, <2>3, <2>4 DEF Advances, HInv
<1>4. CASE publish_inner
  <2>1. PICK r \in Requests :
          /\ MayPublish(names, r)
          /\ writer' = [request |-> r, phase |-> "publishing",
                        todo |-> PublishScript(CurrentOf(names), r)]
    BY <1>4 DEF publish_inner
  <2> DEFINE w == current_successor_wire(CurrentOf(names), r)
             todo == PublishScript(CurrentOf(names), r)
  <2>2. writer # None /\ Runs(names, <<>>)
    BY <1>4 DEF publish_inner, Done, IInv, WriterRuns
  <2>3. PICK refs \in SUBSET names.directories : Settles(names, refs)
    BY <2>2, RunsCarries
  <2>4. Follows(names, refs, r) /\ Backed(names, refs)
    BY <2>1, <2>3, MayPublishFollows DEF Settles, Holds
  <2>5. w \in Documents
    BY <2>4, WireFacts
  <2>6. todo = Publish1(r, w)
    BY ScriptForms
  <2>7. writer'.todo = todo /\ writer'.request = r
    BY <2>1
  <2> HIDE DEF todo, w
  <2>8. UNCHANGED <<names, images>>
    BY <1>4 DEF publish_inner
  <2>9. ~ WritesDocument(todo)
    BY <2>6, PublishOps
  <2>10. Publishes(images', names', todo, r)
    BY <2>5, <2>6 DEF Publishes
  <2>11. Near(EndsOf(images'), Settled(names')) /\ Grows(Installed, Installed')
    BY <2>8, StandsStill
  <2> QED BY <2>7, <2>9, <2>10, <2>11 DEF Advances, HInv
<1>5. CASE Replay \/ FinishPublication \/ FinishRecovery \/ Stop \/ LockLauncher \/ StopLauncher
  <2>1. UNCHANGED <<names, images>> /\ (writer' = None \/ writer' = writer)
    BY <1>5 DEF Replay, FinishPublication, FinishRecovery, Stop, LockLauncher, StopLauncher
  <2>2. Near(EndsOf(images'), Settled(names')) /\ Grows(Installed, Installed')
    BY <2>1, StandsStill
  <2> QED BY <2>1, <2>2 DEF Advances, HInv
<1>6. CASE Step
  <2> DEFINE s == Head(writer.todo)
             rest == Tail(writer.todo)
  <2>1. /\ writer # None /\ writer.todo # <<>>
        /\ writer = [request |-> writer.request, phase |-> writer.phase, todo |-> writer.todo]
        /\ Runs(names, writer.todo)
    BY <1>6 DEF Step, IInv, WriterRuns
  <2>2. Carries(names, writer.todo)
    BY <2>1, RunsCarries
  <2>3. /\ WritesDocument(writer.todo) => EndsOf(images) = {Settled(names)}
        /\ writer.phase = "publishing" => Publishes(images, names, writer.todo, writer.request)
    BY <2>1 DEF HInv
  <2>4. ASSUME NEW todo, writer' = [writer EXCEPT !.todo = todo]
        PROVE  /\ writer'.todo = todo /\ writer'.request = writer.request
               /\ writer'.phase = writer.phase
    BY <2>1, <2>4
  <2>5. CASE s \in Procedures
    <3>1. PICK script \in Expand(s, names) : writer' = [writer EXCEPT !.todo = script \o rest]
      BY <1>6, <2>5 DEF Step
    <3>2. UNCHANGED <<names, images>>
      BY <1>6, <2>5 DEF Step
    <3> DEFINE todo == script \o rest
    <3>3. Late(todo) /\ writer' = [writer EXCEPT !.todo = todo]
      BY <2>2, <2>5, <3>1 DEF Carries
    <3> HIDE DEF todo
    <3>4. /\ writer'.todo = todo /\ writer'.request = writer.request
          /\ writer'.phase = writer.phase
      BY <2>4, <3>3
    <3>5. ~ WritesDocument(todo)
      BY <3>3 DEF Late, WritesDocument
    <3>6. writer.phase = "publishing" => Publishes(images, names, todo, writer.request)
      <4>1. \A r, w : writer.todo \notin {Publish1(r, w), Publish2(r, w), Publish3(r, w),
                                          Publish4(r, w), Publish5(r, w)}
        BY <2>5, PublishOps
      <4> QED BY <2>3, <3>3, <4>1 DEF Publishes
    <3>7. Near(EndsOf(images'), Settled(names')) /\ Grows(Installed, Installed')
      BY <3>2, StandsStill
    <3> QED BY <3>2, <3>4, <3>5, <3>6, <3>7 DEF Advances, HInv
  <2>6. CASE s \notin Procedures
    <3>1. /\ names' = Applied(names, s) /\ images' = After(images, names', s)
          /\ writer' = [writer EXCEPT !.todo = rest]
      BY <1>6, <2>6 DEF Step, After
    <3>2. /\ Near(EndsOf(images'), Settled(names'))
          /\ Grows(Least(EndsOf(images)), Least(EndsOf(images')))
          /\ ~ WritesDocument(writer.todo) => (Commits(s) => EndsOf(images') = {Settled(names')})
      BY <1>1, <2>2, <2>3, <2>6, <3>1, StepEnds
    <3>3. WritesDocument(rest) => Commits(s) /\ ~ WritesDocument(writer.todo)
      <4>1. WritesDocument(rest) => Commits(s)
        BY <2>2, <2>6 DEF Carries
      <4>2. WritesDocument(writer.todo) => ~ Commits(s)
        BY DEF WritesDocument, Commits
      <4> QED BY <4>1, <4>2
    <3>4. writer.phase = "publishing" => Publishes(images', names', rest, writer.request)
      BY <1>1, <2>2, <2>3, <2>6, <3>1, PublishesStep
    <3>5. /\ writer'.todo = rest /\ writer'.request = writer.request
          /\ writer'.phase = writer.phase
      BY <2>4, <3>1
    <3> HIDE DEF s, rest
    <3>6. Grows(Installed, Installed')
      BY <3>2, InstalledLeast
    <3> QED BY <3>2, <3>3, <3>4, <3>5, <3>6 DEF Advances, HInv
  <2> QED BY <2>5, <2>6
<1>7. CASE StopInWrite
  <2>1. /\ writer # None /\ writer.todo # <<>> /\ Runs(names, writer.todo) /\ writer' = None
        /\ Head(writer.todo).op \in {"Write", "WriteNext"}
        /\ names' = Half(names, Head(writer.todo)) /\ images' = images \cup {names'}
    BY <1>7 DEF StopInWrite, IInv, WriterRuns
  <2>2. Carries(names, writer.todo)
    BY <2>1, RunsCarries
  <2>3. Level(names, names') /\ Legal(names')
    BY <2>1, <2>2 DEF Carries
  <2>4. EndsOf(images') = EndsOf(images) /\ Settled(names') = Settled(names)
    BY <1>1, <2>1, <2>3, LevelEnds
  <2> QED BY <2>1, <2>4, StandsStill DEF Advances, HInv
<1>8. CASE PowerLoss
  <2>1. images' = {names'} /\ writer' = None
    BY <1>8 DEF PowerLoss
  <2>2. PICK n \in images : names' \in Torn(n)
    BY <1>8 DEF PowerLoss, Survivors
  <2>3. Firm(names') /\ Legal(names')
    BY <1>1, <1>2, <2>2, TornFirm
  <2>4. EndsOf(images') = {Settled(names')}
    BY <2>1, <2>3, EndsOne
  <2>5. Settled(names') \in EndsOf(images)
    BY <2>2, EndsOut
  <2>6. Near(EndsOf(images'), Settled(names')) /\ Grows(Installed, Installed')
    <3> DEFINE E == EndsOf(images')
    <3>1. E = {Settled(names')} /\ E \subseteq EndsOf(images)
      BY <2>4, <2>5
    <3> HIDE DEF E
    <3> QED BY <3>1, NarrowsTo DEF E
  <2> QED BY <2>1, <2>6 DEF Advances, HInv
<1>9. CASE ReplayLauncher \/ SyncLauncher
  <2>1. /\ UNCHANGED <<names, writer>> /\ images' = {names} /\ writer = None
    BY <1>9 DEF ReplayLauncher, SyncLauncher, MayLaunch, IInv, WriterRuns
  <2>2. EndsOf(images') \subseteq EndsOf(images) /\ Settled(names) \in EndsOf(images')
    BY <1>1, <2>1, EndsPart, EndsOne
  <2>3. Near(EndsOf(images'), Settled(names')) /\ Grows(Installed, Installed')
    BY <2>1, <2>2, NarrowsTo
  <2> QED BY <2>1, <2>3 DEF Advances, HInv
<1>10. ASSUME NEW l, names' = [names EXCEPT !.launcher = l], images' = images \cup {names'},
              writer' = writer
       PROVE  Advances
  <2>1. /\ Settled(names') = Settled(names)
        /\ \A k \in Torn(names') : \E j \in Torn(names) : Settled(k) = Settled(j)
    BY <1>1, <1>10, TornRelaunched
  <2>2. EndsOf({names'}) \subseteq EndsOf(images)
    BY <1>1, <1>2, <2>1, EndsOne, EndsOut
  <2>3. EndsOf(images') = EndsOf(images) \cup EndsOf({names'})
    BY <1>10, EndsAdd
  <2>4. EndsOf(images') = EndsOf(images)
    BY <2>2, <2>3
  <2>5. Near(EndsOf(images'), Settled(names')) /\ Grows(Installed, Installed')
    BY <2>1, <2>4, StandsStill
  <2> QED BY <1>10, <2>1, <2>4, <2>5 DEF Advances, HInv, Publishes
<1>11. CASE CreateLauncher \/ RemoveLauncher
  BY <1>10, <1>11 DEF CreateLauncher, RemoveLauncher
<1>12. CASE UNCHANGED vars
  BY <1>12, StandsStill DEF vars, Advances, HInv
<1> QED BY <1>3, <1>4, <1>5, <1>6, <1>7, <1>8, <1>9, <1>11, <1>12 DEF Next

\* A receipt names what is installed.
LEMMA ReceiptIsInstalled ==
  ASSUME IInv, HInv, FinishPublication
  PROVE  reported' = Installed /\ Installed' = Installed
<1> DEFINE r == writer.request
<1>1. /\ writer # None /\ writer.phase = "publishing" /\ writer.todo = <<>>
      /\ reported' = r.generation /\ images' = images
  BY DEF FinishPublication, Done
<1>2. Publishes(images, names, <<>>, r) /\ Near(EndsOf(images), Settled(names))
  BY <1>1 DEF HInv
<1>3. \A w : <<>> \notin {Publish1(r, w), Publish2(r, w), Publish3(r, w), Publish4(r, w),
                          Publish5(r, w)}
  BY PublishOps
<1>4. EndsOf(images) = {Settled(names)} /\ Settled(names) = r.generation
  BY <1>2, <1>3 DEF Publishes
<1>5. Installed = r.generation
  BY <1>2, <1>4, InstalledLeast, LeastIs
<1>6. Installed' = Installed
  BY <1>1, InstalledLeast
<1> QED BY <1>1, <1>5, <1>6

\* As long as no recovery takes over files that nobody synced: through crashes,
\* errors and power losses the installation implements a history that grows by
\* one generation at a time, each the successor of the one before.  Recovery
\* never takes back, skips or replaces a generation once its stage is durable
\* (publish_inner, recover_locked), and the receipt of a publication names the
\* generation that is installed then.
THEOREM InstallationImplementsHistory == Spec /\ [](~ adopted) => ImplementsHistory
<1>1. Init => HInv /\ History!Init
  BY InitHistory DEF Init, History!Init, NoGeneration
<1>2. IInv /\ HInv /\ ~ adopted' /\ [Next]_vars => HInv'
  BY HistoryStep DEF Advances
<1>3. IInv /\ HInv /\ ~ adopted' /\ [Next]_vars => [History!Next]_<<Installed, reported>>
  <2> SUFFICES ASSUME IInv, HInv, ~ adopted', [Next]_vars
               PROVE  [History!Next]_<<Installed, reported>>
    OBVIOUS
  <2>1. CASE FinishPublication
    BY <2>1, ReceiptIsInstalled DEF History!Next, History!Report
  <2>2. CASE reported' = reported
    <3>1. Grows(Installed, Installed')
      BY HistoryStep DEF Advances
    <3> HIDE DEF Installed
    <3> QED BY <2>2, <3>1 DEF Grows, History!Next, History!Install
  <2>3. FinishPublication \/ reported' = reported
    BY DEF Next, vars, Lock, publish_inner, Replay, FinishRecovery, Step, Stop,
           StopInWrite, PowerLoss, LockLauncher, ReplayLauncher, CreateLauncher, SyncLauncher,
           StopLauncher, RemoveLauncher
  <2> QED BY <2>1, <2>2, <2>3
<1> QED BY <1>1, <1>2, <1>3, InstallInvariant, PTL DEF Spec, ImplementsHistory, History!Spec, History!vars
=============================================================================
