------------------------ MODULE RuntimeBundlesProofs ------------------------
(***************************************************************************)
(* What FormalReleases and RuntimeBundles promise, for any cases, versions,*)
(* slots, threads and bounds.  The releases come first: what a publication *)
(* has written of its release by the step it is at (SnapshotsFirst), and   *)
(* the lineage of a release that later publications leave alone (ChainStays).*)
(* Then the bundles: what a caller that builds alone has written by the    *)
(* step it is at (Undisturbed).                                            *)
(***************************************************************************)
EXTENDS RuntimeBundles, FiniteSetTheorems, TLAPS

-----------------------------------------------------------------------------
(* The inductive invariant of the releases. *)

Releases == [version : Versions, parent : Catalogued \cup {None}, cases : SUBSET Cases]

CallSteps == Kinds \cup {"freeze", "put", "close"}

Calls ==
    [step : CallSteps, version : Versions, cases : SUBSET Cases,
     parent : Catalogued \cup {None}, release : Releases \cup {None}]

Assignments ==
    [state : DOMAIN Allowed, case : Cases \cup {None}, release : Catalogued \cup {None}]

StoreTyped ==
    /\ approved \subseteq Cases /\ half \subseteq Cases /\ frozen \subseteq Cases
    /\ marker \in [Versions -> SUBSET frozen]
    /\ file = [k \in Kinds |-> file[k]]
    /\ catalog \in Seq(Releases)
    /\ call \in {Idle} \cup Calls
    /\ slot \in [Slots -> Assignments]

(* The snapshots that precede each step of a publication. *)
Written ==
    [idle |-> {}, freeze |-> {}, report |-> {}, canonical |-> {"report"},
     source |-> {"report", "canonical"}, payload |-> {"report", "canonical", "source"},
     read_model |-> {"report", "canonical", "source", "payload"},
     put |-> Kinds, close |-> Kinds]

(* A release pins frozen revisions, and its snapshots precede its record.  *)
CallIsReady ==
    call.step \notin {"idle", "freeze"} =>
        /\ call.release \in Releases /\ call.release.version = call.version
        /\ call.release.cases \subseteq frozen
        /\ \A k \in Written[call.step] : Has(k, call.release)

RecordsAreWhole ==
    \A r \in Catalogued :
        /\ r.cases \subseteq frozen
        /\ r \notin legacy => \A k \in Kinds : Has(k, r)

SnapshotsFirst == CallIsReady /\ RecordsAreWhole

(* A bundle is of a catalogued release and bound to slots of the Portfolio. *)
BundlesAreKnown ==
    \A b \in bundles : /\ b.target \in Catalogued
                       /\ \A c \in ChainCases(b.target) : b.slotOf[c] \in Slots

StoreInv == StoreTyped /\ SnapshotsFirst /\ BundlesAreKnown /\ BundleStaysBound

-----------------------------------------------------------------------------
(* The lineage of a release. *)

(* A longer catalog has the new release and all the old ones. *)
LEMMA ToSetAppend ==
    ASSUME NEW S, NEW s \in Seq(S), NEW x
    PROVE  ToSet(Append(s, x)) = ToSet(s) \cup {x}
BY DEF ToSet

(* A release that no other one has as a parent adds nothing to a lineage. *)
LEMMA NewReleaseIsNoAncestor ==
    ASSUME NEW C, NEW x, x \notin C, NEW r \in C,
           \A q \in C : q.parent \in C \cup {None}
    PROVE  {p \in C \cup {x} : \A S \in SUBSET (C \cup {x}) : r \in S /\ WithParents(S) => p \in S}
             = {p \in C : \A S \in SUBSET C : r \in S /\ WithParents(S) => p \in S}
<1> DEFINE New == {p \in C \cup {x} : \A S \in SUBSET (C \cup {x}) : r \in S /\ WithParents(S) => p \in S}
           Old == {p \in C : \A S \in SUBSET C : r \in S /\ WithParents(S) => p \in S}
<1>1. New \subseteq Old
  <2>1. WithParents(C)
    BY DEF WithParents
  <2>. QED
    BY <2>1
<1>2. ASSUME NEW p \in Old, NEW S \in SUBSET (C \cup {x}), r \in S, WithParents(S)
      PROVE  p \in S
  <2>1. WithParents(S \cap C)
    BY <1>2 DEF WithParents
  <2>. QED
    BY <1>2, <2>1
<1>3. Old \subseteq New
  BY <1>2
<1>. QED
  BY <1>1, <1>3

LEMMA ParentsAreCatalogued ==
    ASSUME StoreTyped, NEW q \in Catalogued
    PROVE  q \in Releases /\ q.parent \in Catalogued \cup {None}
<1>1. PICK i \in DOMAIN catalog : q = catalog[i]
  BY DEF Catalogued, ToSet
<1>2. q \in Releases
  BY <1>1 DEF StoreTyped
<1>. QED
  BY <1>2 DEF Releases

LEMMA ChainStays ==
    ASSUME StoreTyped, NEW x, x \notin Catalogued, catalog' = Append(catalog, x),
           NEW r \in Catalogued
    PROVE  Chain(r)' = Chain(r)
<1>1. Catalogued' = Catalogued \cup {x}
  BY ToSetAppend DEF StoreTyped, Catalogued
<1>2. \A q \in Catalogued : q.parent \in Catalogued \cup {None}
  BY ParentsAreCatalogued
<1>3. {p \in Catalogued \cup {x} : \A S \in SUBSET (Catalogued \cup {x}) : r \in S /\ WithParents(S) => p \in S}
        = {p \in Catalogued : \A S \in SUBSET Catalogued : r \in S /\ WithParents(S) => p \in S}
  BY <1>2, NewReleaseIsNoAncestor
<1>4. \A S : WithParents(S)' <=> WithParents(S)
  BY DEF WithParents
<1>. QED
  BY <1>1, <1>3, <1>4 DEF Chain

(* Nor does it change which release owns a case.                           *)
LEMMA OwnerStays ==
    ASSUME StoreTyped, NEW x, x \notin Catalogued, catalog' = Append(catalog, x),
           NEW r \in Catalogued, NEW c
    PROVE  Owner(r, c)' = Owner(r, c)
<1>1. \A p \in Catalogued : Chain(p)' = Chain(p)
  BY ChainStays
<1>2. Chain(r) \subseteq Catalogued
  BY DEF Chain
<1>. QED
  BY <1>1, <1>2 DEF Owner

-----------------------------------------------------------------------------
(* The steps that touch no release, no call and no slot.                   *)

storeState == <<approved, half, frozen, marker, file, catalog, legacy, call, slot, bundles>>

LEMMA StoreUnchanged ==
    ASSUME StoreInv, UNCHANGED storeState
    PROVE  StoreInv'
<1>1. Catalogued' = Catalogued
  BY DEF storeState, Catalogued
<1>2. \A r : Chain(r)' = Chain(r)
  BY <1>1 DEF Chain, WithParents
<1>3. \A r : ChainCases(r)' = ChainCases(r)
  BY <1>2 DEF ChainCases
<1>4. \A r, c : Owner(r, c)' = Owner(r, c)
  BY <1>2 DEF Owner
<1>5. StoreTyped'
  BY <1>1 DEF StoreInv, StoreTyped, storeState, Calls, Releases, Assignments
<1>6. SnapshotsFirst'
  BY <1>1 DEF StoreInv, SnapshotsFirst, CallIsReady, RecordsAreWhole, storeState, Has, Releases
<1>7. BundlesAreKnown' /\ BundleStaysBound'
  BY <1>1, <1>3, <1>4 DEF StoreInv, BundlesAreKnown, BundleStaysBound, storeState
<1>. QED
  BY <1>5, <1>6, <1>7 DEF StoreInv

(* Only its record changes the catalog of a publication: elsewhere the     *)
(* lineages stay, and with them what the bundles are bound to.             *)
LEMMA LineageUnchanged ==
    ASSUME UNCHANGED catalog
    PROVE  /\ Catalogued' = Catalogued /\ Releases' = Releases
           /\ Calls' = Calls /\ Assignments' = Assignments
           /\ \A r : ChainCases(r)' = ChainCases(r)
           /\ \A r, c : Owner(r, c)' = Owner(r, c)
<1>1. Catalogued' = Catalogued
  BY DEF Catalogued
<1>2. \A r : Chain(r)' = Chain(r)
  BY <1>1 DEF Chain, WithParents
<1>. QED
  BY <1>1, <1>2 DEF ChainCases, Owner, Releases, Calls, Assignments

LEMMA BundlesUnchanged ==
    ASSUME BundlesAreKnown, BundleStaysBound, UNCHANGED <<catalog, slot, bundles>>
    PROVE  BundlesAreKnown' /\ BundleStaysBound'
BY LineageUnchanged DEF BundlesAreKnown, BundleStaysBound

LEMMA StoreInit ==
    ASSUME InitReleases
    PROVE  StoreInv
<1>. USE DEF InitReleases
<1>1. \/ catalog = <<>> /\ Catalogued = {} /\ frozen = {} /\ marker = [v \in Versions |-> {}] /\ file = NoFile
      \/ \E v \in Versions :
            /\ frozen = approved /\ catalog = <<Legacy(v, approved)>>
            /\ Catalogued = {Legacy(v, approved)}
            /\ marker = [w \in Versions |-> IF w = v THEN approved ELSE {}]
            /\ file = [k \in Kinds |-> IF k \in {"report", "canonical", "source"}
                                       THEN {Legacy(v, approved)} ELSE {}]
  BY DEF Catalogued, ToSet
<1>2. catalog \in Seq(Releases)
  <2>1. CASE catalog = <<>>
    BY <2>1
  <2>2. ASSUME NEW v \in Versions, catalog = <<Legacy(v, approved)>>
        PROVE  catalog \in Seq(Releases)
    <3>1. Legacy(v, approved) \in Releases
      BY DEF Legacy, Releases
    <3>. QED
      BY <2>2, <3>1
  <2>. QED
    BY <1>1, <2>1, <2>2
<1>3. marker \in [Versions -> SUBSET frozen] /\ file = [k \in Kinds |-> file[k]] /\ frozen \subseteq Cases
  BY <1>1 DEF NoFile
<1>4. slot \in [Slots -> Assignments]
  BY DEF Assignments, Unassigned, Allowed
<1>5. StoreTyped
  BY <1>2, <1>3, <1>4 DEF StoreTyped
<1>6. SnapshotsFirst
  BY <1>1 DEF SnapshotsFirst, CallIsReady, RecordsAreWhole, Idle, Legacy
<1>7. BundlesAreKnown /\ BundleStaysBound
  BY DEF BundlesAreKnown, BundleStaysBound
<1>. QED
  BY <1>5, <1>6, <1>7 DEF StoreInv

-----------------------------------------------------------------------------
(* The publication.                                                        *)

LEMMA PublishKeeps ==
    ASSUME StoreInv, NEW v \in Versions, Publish(v)
    PROVE  StoreInv'
<1>. USE DEF Publish, workspaceVars, storeVars, portfolioVars
<1>1. UNCHANGED <<approved, half, frozen, marker, file, catalog, legacy, slot, bundles>>
  OBVIOUS
<1>2. Predecessor \in Catalogued \cup {None}
  BY DEF Predecessor, Catalogued, ToSet, Last, StoreInv, StoreTyped
<1>3. call' \in Calls /\ call'.step = "freeze"
  BY <1>2 DEF Calls, CallSteps, StoreInv, StoreTyped
<1>4. StoreTyped'
  BY <1>1, <1>3, LineageUnchanged DEF StoreInv, StoreTyped
<1>5. SnapshotsFirst'
  BY <1>1, <1>3, LineageUnchanged DEF StoreInv, SnapshotsFirst, CallIsReady, RecordsAreWhole, Has
<1>. QED
  BY <1>1, <1>4, <1>5, BundlesUnchanged DEF StoreInv

LEMMA FreezeKeeps ==
    ASSUME StoreInv, NEW c \in Cases, Freeze(c)
    PROVE  StoreInv'
<1>. USE DEF Freeze, workspaceVars, storeVars, portfolioVars
<1>1. UNCHANGED <<approved, marker, file, catalog, legacy, call, slot, bundles>>
  OBVIOUS
<1>2. frozen \subseteq frozen' /\ frozen' \subseteq Cases /\ half' \subseteq Cases
  BY DEF StoreInv, StoreTyped
<1>3. marker \in [Versions -> SUBSET frozen']
  BY <1>2 DEF StoreInv, StoreTyped
<1>4. StoreTyped'
  BY <1>1, <1>2, <1>3, LineageUnchanged DEF StoreInv, StoreTyped
<1>5. SnapshotsFirst'
  BY <1>1, <1>2, LineageUnchanged DEF StoreInv, SnapshotsFirst, CallIsReady, RecordsAreWhole, Has
<1>. QED
  BY <1>1, <1>4, <1>5, BundlesUnchanged DEF StoreInv

LEMMA PinCasesKeeps ==
    ASSUME StoreInv, PinCases
    PROVE  StoreInv'
<1>. USE DEF PinCases, workspaceVars, storeVars, portfolioVars
<1>1. UNCHANGED <<approved, half, frozen, file, catalog, legacy, slot, bundles>>
  OBVIOUS
<1>2. call \in Calls /\ call.version \in Versions /\ call.parent \in Catalogued \cup {None} /\ call.cases \subseteq Cases
  BY DEF StoreInv, StoreTyped, Calls, Idle
<1>. DEFINE pinned == IF marker[call.version] = {} THEN call.cases ELSE marker[call.version]
            rel == [version |-> call.version, parent |-> call.parent, cases |-> pinned]
<1>3. pinned \subseteq frozen /\ pinned \subseteq Cases
  BY <1>2 DEF StoreInv, StoreTyped
<1>4. rel \in Releases /\ rel.cases \subseteq frozen
  BY <1>2, <1>3 DEF Releases
<1>5. marker' \in [Versions -> SUBSET frozen]
  BY <1>2, <1>3 DEF StoreInv, StoreTyped
<1>6. call' = [call EXCEPT !.step = "report", !.release = rel]
  BY DEF StepAfter
<1>a. rel.version = call.version
  OBVIOUS
<1>. HIDE DEF pinned, rel
<1>7. call' \in Calls /\ call'.step = "report" /\ call'.release = rel /\ call'.version = rel.version
  BY <1>2, <1>4, <1>6, <1>a DEF Calls, CallSteps, Kinds
<1>8. StoreTyped'
  BY <1>1, <1>5, <1>7, LineageUnchanged DEF StoreInv, StoreTyped
<1>9. SnapshotsFirst'
  BY <1>1, <1>4, <1>7, LineageUnchanged
     DEF StoreInv, SnapshotsFirst, CallIsReady, RecordsAreWhole, Has, Written
<1>. QED
  BY <1>1, <1>8, <1>9, BundlesUnchanged DEF StoreInv

LEMMA WriteFileKeeps ==
    ASSUME StoreInv, WriteFile
    PROVE  StoreInv'
<1>. USE DEF WriteFile, workspaceVars, storeVars, portfolioVars
<1>1. UNCHANGED <<approved, half, frozen, marker, catalog, legacy, slot, bundles>>
  OBVIOUS
<1>2. /\ call \in Calls /\ call.step \in Kinds
      /\ call.release \in Releases /\ call.release.version = call.version
      /\ call.release.cases \subseteq frozen
  BY DEF StoreInv, StoreTyped, SnapshotsFirst, CallIsReady, Idle, Kinds
<1>3. /\ call' \in Calls /\ call'.release = call.release /\ call'.version = call.version
      /\ call'.step = StepAfter[call.step] /\ StepAfter[call.step] \in {"canonical", "source", "payload", "read_model", "put"}
  BY <1>2 DEF Calls, CallSteps, Kinds, StepAfter
<1>4. /\ file' = [k \in Kinds |-> file'[k]]
      /\ file'[call.step] = file[call.step] \cup {call.release}
      /\ \A k \in Kinds : file[k] \subseteq file'[k]
  BY DEF StoreInv, StoreTyped
<1>5. \A k \in Written[call.step] : Has(k, call.release) /\ k \in Kinds
  BY <1>2 DEF StoreInv, SnapshotsFirst, CallIsReady, Written, Kinds
<1>6. Written[StepAfter[call.step]] = Written[call.step] \cup {call.step}
  BY <1>2 DEF Written, StepAfter, Kinds
<1>7. CallIsReady'
  BY <1>1, <1>2, <1>3, <1>4, <1>5, <1>6, LineageUnchanged DEF CallIsReady, Has
<1>8. RecordsAreWhole'
  BY <1>1, <1>4, LineageUnchanged DEF StoreInv, SnapshotsFirst, RecordsAreWhole, Has
<1>9. StoreTyped'
  BY <1>1, <1>3, <1>4, LineageUnchanged DEF StoreInv, StoreTyped
<1>. QED
  BY <1>1, <1>7, <1>8, <1>9, BundlesUnchanged DEF StoreInv, SnapshotsFirst

(* The record: the catalog grows by a release that is whole, or stays.     *)
LEMMA PutReleaseKeeps ==
    ASSUME StoreInv, PutRelease
    PROVE  StoreInv'
<1>. USE DEF PutRelease, workspaceVars, storeVars, portfolioVars
<1>1. UNCHANGED <<approved, half, frozen, marker, file, legacy, slot, bundles>>
  OBVIOUS
<1>2. /\ call \in Calls /\ call.version \in Versions
      /\ call.release \in Releases /\ call.release.version = call.version
      /\ call.release.cases \subseteq frozen
      /\ \A k \in Kinds : Has(k, call.release)
  BY DEF StoreInv, StoreTyped, SnapshotsFirst, CallIsReady, Idle, Kinds, Written, Calls
<1>3. StepAfter.put = "close"
  BY DEF StepAfter
<1>4. /\ call' \in {Idle} \/ call' \in Calls
      /\ call'.step \in {"idle", "close"}
      /\ call'.step = "close" => call'.release = call.release /\ call'.version = call.version
  BY <1>2, <1>3 DEF Calls, CallSteps, Idle
<1>5. CASE catalog' = catalog
  <2>1. StoreTyped'
    BY <1>1, <1>4, <1>5, LineageUnchanged DEF StoreInv, StoreTyped
  <2>2. CallIsReady'
    BY <1>1, <1>2, <1>4, <1>5, LineageUnchanged DEF CallIsReady, Has, Written, Kinds
  <2>3. RecordsAreWhole'
    BY <1>1, <1>5, LineageUnchanged DEF StoreInv, SnapshotsFirst, RecordsAreWhole, Has
  <2>. QED
    BY <1>1, <1>5, <2>1, <2>2, <2>3, BundlesUnchanged DEF StoreInv, SnapshotsFirst
<1>6. CASE catalog' # catalog
  <2>. DEFINE x == call.release
  <2>1. catalog' = Append(catalog, x) /\ {r \in Catalogued : r.version = call.version} = {}
    BY <1>6
  <2>2. x \notin Catalogued
    BY <2>1, <1>2
  <2>3. catalog \in Seq(Releases) /\ Catalogued' = Catalogued \cup {x}
    BY <2>1, ToSetAppend DEF Catalogued, StoreInv, StoreTyped
  <2>4. Releases \subseteq Releases' /\ Calls \subseteq Calls' /\ Assignments \subseteq Assignments'
    BY <2>3 DEF Releases, Calls, Assignments
  <2>5. StoreTyped'
    <3>1. catalog' \in Seq(Releases')
      BY <2>1, <2>3, <2>4, <1>2
    <3>2. call' \in {Idle} \cup Calls' /\ slot' \in [Slots -> Assignments']
      BY <1>1, <1>4, <2>4 DEF StoreInv, StoreTyped
    <3>. QED
      BY <1>1, <3>1, <3>2 DEF StoreInv, StoreTyped
  <2>6. CallIsReady'
    BY <1>1, <1>2, <1>4, <2>4 DEF CallIsReady, Has, Written, Kinds
  <2>7. RecordsAreWhole'
    BY <1>1, <1>2, <2>3 DEF StoreInv, SnapshotsFirst, RecordsAreWhole, Has
  <2>8. \A r \in Catalogued : Chain(r)' = Chain(r) /\ Chain(r) \subseteq Catalogued
    BY <2>1, <2>2, ChainStays DEF StoreInv, Chain
  <2>9. \A r \in Catalogued : ChainCases(r)' = ChainCases(r)
    BY <2>8 DEF ChainCases
  <2>10. \A r \in Catalogued : \A c : Owner(r, c)' = Owner(r, c)
    BY <2>1, <2>2, OwnerStays DEF StoreInv
  <2>11. BundlesAreKnown' /\ BundleStaysBound'
    BY <1>1, <2>3, <2>9, <2>10 DEF StoreInv, BundlesAreKnown, BundleStaysBound
  <2>. QED
    BY <2>5, <2>6, <2>7, <2>11 DEF StoreInv, SnapshotsFirst
<1>. QED
  BY <1>5, <1>6

LEMMA CallEndsKeeps ==
    ASSUME StoreInv, CloseWorkspace \/ Crash
    PROVE  StoreInv'
<1>1. /\ UNCHANGED <<approved, half, frozen, marker, file, catalog, legacy, slot, bundles>>
      /\ call' = Idle
  BY DEF CloseWorkspace, Crash, storeVars, portfolioVars, boundVars
<1>2. StoreTyped'
  BY <1>1, LineageUnchanged DEF StoreInv, StoreTyped
<1>3. SnapshotsFirst'
  BY <1>1, LineageUnchanged DEF StoreInv, SnapshotsFirst, CallIsReady, RecordsAreWhole, Has, Idle
<1>. QED
  BY <1>1, <1>2, <1>3, BundlesUnchanged DEF StoreInv

-----------------------------------------------------------------------------
(* The other handlers, the readers and the scripts.                        *)

LEMMA ApproveCaseKeeps ==
    ASSUME StoreInv, NEW c \in Cases, ApproveCase(c)
    PROVE  StoreInv'
<1>1. /\ UNCHANGED <<half, frozen, marker, file, catalog, legacy, call, slot, bundles>>
      /\ approved' = approved \cup {c}
  BY DEF ApproveCase, storeVars, portfolioVars
<1>2. StoreTyped'
  BY <1>1, LineageUnchanged DEF StoreInv, StoreTyped
<1>3. SnapshotsFirst'
  BY <1>1, LineageUnchanged DEF StoreInv, SnapshotsFirst, CallIsReady, RecordsAreWhole, Has
<1>. QED
  BY <1>1, <1>2, <1>3, BundlesUnchanged DEF StoreInv

LEMMA ReadContentKeeps ==
    ASSUME StoreInv, NEW r \in Catalogued, ReadContent(r)
    PROVE  StoreInv'
<1>1. /\ UNCHANGED <<approved, half, frozen, marker, catalog, legacy, call, slot, bundles>>
      /\ file' = [file EXCEPT !["read_model"] = @ \cup {r}]
  BY DEF ReadContent, workspaceVars, portfolioVars
<1>2. file' = [k \in Kinds |-> file'[k]] /\ \A k \in Kinds : file[k] \subseteq file'[k]
  BY <1>1 DEF StoreInv, StoreTyped
<1>3. StoreTyped'
  BY <1>1, <1>2, LineageUnchanged DEF StoreInv, StoreTyped
<1>4. CallIsReady'
  <2>1. call.step \notin {"idle", "freeze"} => call.step \in Kinds \cup {"put", "close"}
    BY DEF StoreInv, StoreTyped, Calls, CallSteps, Idle
  <2>2. call.step \notin {"idle", "freeze"} => Written[call.step] \subseteq Kinds
    BY <2>1 DEF Written, Kinds
  <2>. QED
    BY <1>1, <1>2, <2>2, LineageUnchanged DEF StoreInv, SnapshotsFirst, CallIsReady, Has
<1>5. RecordsAreWhole'
  BY <1>1, <1>2, LineageUnchanged DEF StoreInv, SnapshotsFirst, RecordsAreWhole, Has
<1>. QED
  BY <1>1, <1>3, <1>4, <1>5, BundlesUnchanged DEF StoreInv, SnapshotsFirst

(* A frozen slot leads nowhere: no transition takes it from its bundle.    *)
LEMMA TransitionSlotKeeps ==
    ASSUME StoreInv, NEW s \in Slots, TransitionSlot(s)
    PROVE  StoreInv'
<1>1. UNCHANGED <<approved, half, frozen, marker, file, catalog, legacy, call, bundles>>
  BY DEF TransitionSlot, workspaceVars, storeVars
<1>2. PICK state \in Allowed[slot[s].state], c \in Cases, r \in Catalogued \cup {None} :
          slot' = [slot EXCEPT ![s] = [state |-> state, case |-> c, release |-> r]]
  BY DEF TransitionSlot
<1>3. slot[s] \in Assignments /\ slot[s].state \in DOMAIN Allowed
  BY DEF StoreInv, StoreTyped, Assignments
<1>4. state \in DOMAIN Allowed /\ slot[s].state # "frozen"
  BY <1>2, <1>3 DEF Allowed
<1>5. slot' \in [Slots -> Assignments]
  BY <1>2, <1>4 DEF StoreInv, StoreTyped, Assignments
<1>6. StoreTyped'
  BY <1>1, <1>5, LineageUnchanged DEF StoreInv, StoreTyped
<1>7. SnapshotsFirst'
  BY <1>1, LineageUnchanged DEF StoreInv, SnapshotsFirst, CallIsReady, RecordsAreWhole, Has
<1>8. BundlesAreKnown'
  BY <1>1, LineageUnchanged DEF StoreInv, BundlesAreKnown
<1>9. BundleStaysBound'
  <2>1. ASSUME NEW b \in bundles, NEW d \in ChainCases(b.target)
        PROVE  slot'[b.slotOf[d]] = slot[b.slotOf[d]]
    <3>a. slot[b.slotOf[d]] = [state |-> "frozen", case |-> d, release |-> Owner(b.target, d)]
      BY DEF StoreInv, BundleStaysBound
    <3>b. b.slotOf[d] \in Slots
      BY DEF StoreInv, BundlesAreKnown
    <3>1. b.slotOf[d] \in Slots /\ slot[b.slotOf[d]].state = "frozen"
      BY <3>a, <3>b
    <3>2. b.slotOf[d] # s
      BY <3>1, <1>4
    <3>. QED
      BY <1>2, <3>1, <3>2 DEF StoreInv, StoreTyped
  <2>. QED
    BY <1>1, <2>1, LineageUnchanged DEF StoreInv, BundleStaysBound
<1>. QED
  BY <1>6, <1>7, <1>8, <1>9 DEF StoreInv

LEMMA BuildBundleKeeps ==
    ASSUME StoreInv, NEW r \in Catalogued, BuildBundle(r)
    PROVE  StoreInv'
<1>1. UNCHANGED <<approved, half, frozen, marker, file, catalog, legacy, call, slot>>
  BY DEF BuildBundle, workspaceVars, storeVars
<1>. DEFINE of == [c \in ChainCases(r) |-> CHOOSE s \in SlotsOf(r, c) : TRUE]
<1>2. /\ bundles' = bundles \cup {[target |-> r, slotOf |-> of]}
      /\ \A c \in ChainCases(r) : Cardinality(SlotsOf(r, c)) = 1 /\ BindingValid(r, c, of[c])
  BY DEF BuildBundle
<1>3. ASSUME NEW c \in ChainCases(r)
      PROVE  /\ of[c] \in Slots
             /\ slot[of[c]] = [state |-> "frozen", case |-> c, release |-> Owner(r, c)]
  <2>1. SlotsOf(r, c) # {}
    BY <1>2, FS_EmptySet
  <2>2. of[c] \in SlotsOf(r, c)
    BY <2>1
  <2>3. of[c] \in Slots /\ slot[of[c]].state = "frozen" /\ slot[of[c]].case = c
    BY <2>2 DEF SlotsOf
  <2>4. slot[of[c]].release = Owner(r, c)
    BY <1>2 DEF BindingValid
  <2>5. slot[of[c]] \in Assignments
    BY <2>3 DEF StoreInv, StoreTyped
  <2>. QED
    BY <2>3, <2>4, <2>5 DEF Assignments
<1>. HIDE DEF of
<1>4. StoreTyped'
  BY <1>1, LineageUnchanged DEF StoreInv, StoreTyped
<1>5. SnapshotsFirst'
  BY <1>1, LineageUnchanged DEF StoreInv, SnapshotsFirst, CallIsReady, RecordsAreWhole, Has
<1>6. BundlesAreKnown'
  <2>. SUFFICES ASSUME NEW b \in bundles'
       PROVE  b.target \in Catalogued /\ \A c \in ChainCases(b.target) : b.slotOf[c] \in Slots
    BY <1>1, LineageUnchanged DEF BundlesAreKnown
  <2>1. CASE b \in bundles
    BY <2>1 DEF StoreInv, BundlesAreKnown
  <2>2. CASE b = [target |-> r, slotOf |-> of]
    BY <2>2, <1>3
  <2>. QED
    BY <1>2, <2>1, <2>2
<1>7. BundleStaysBound'
  BY <1>1, <1>2, <1>3, LineageUnchanged DEF StoreInv, BundleStaysBound
<1>. QED
  BY <1>4, <1>5, <1>6, <1>7 DEF StoreInv

(* Every step of the releases, whatever the builders of bundles do.        *)
LEMMA ReleaseStepKeeps ==
    ASSUME StoreInv, LoopStep \/ OtherStep \/ Crash
    PROVE  StoreInv'
<1>. USE DEF workspaceVars, storeVars, portfolioVars
<1>1. CASE LoopStep
  <2>1. CASE \E v \in Versions : Publish(v)
    BY <2>1, PublishKeeps
  <2>2. CASE \E c \in Cases : Freeze(c) \/ ApproveCase(c)
    BY <2>2, FreezeKeeps, ApproveCaseKeeps
  <2>3. CASE PinCases \/ WriteFile \/ PutRelease \/ CloseWorkspace
    BY <2>3, PinCasesKeeps, WriteFileKeeps, PutReleaseKeeps, CallEndsKeeps
  <2>4. CASE Archive \/ DeleteArchived \/ ListDatasets \/ StartJob
    BY <2>4, StoreUnchanged DEF storeState, Archive, DeleteArchived, ListDatasets, SetWorkspace, StartJob
  <2>5. CASE \E r \in Catalogued : RemoveFromCatalog(r)
    BY <2>5, StoreUnchanged DEF storeState, RemoveFromCatalog
  <2>. QED
    BY <1>1, <2>1, <2>2, <2>3, <2>4, <2>5 DEF LoopStep
<1>2. CASE OtherStep
  <2>1. CASE EndJob
    BY <2>1, StoreUnchanged DEF storeState, EndJob
  <2>2. CASE \E r \in Catalogued : ReadContent(r) \/ BuildBundle(r)
    BY <2>2, ReadContentKeeps, BuildBundleKeeps
  <2>3. CASE \E s \in Slots : TransitionSlot(s)
    BY <2>3, TransitionSlotKeeps
  <2>. QED
    BY <1>2, <2>1, <2>2, <2>3 DEF OtherStep
<1>3. CASE Crash
  BY <1>3, CallEndsKeeps
<1>. QED
  BY <1>1, <1>2, <1>3

(* A step of a builder is none of a publication: it only counts requests.  *)
LEMMA StoreInductive ==
    /\ Init => StoreInv
    /\ StoreInv /\ [Next]_vars => StoreInv'
<1>1. Init => StoreInv
  BY StoreInit DEF Init
<1>2. ASSUME StoreInv, Next PROVE StoreInv'
  <2>1. CASE \E u \in Callers, r \in Catalogued : Materialize(u, r)
    BY <1>2, <2>1, StoreUnchanged DEF Materialize, storeState, workspaceVars, storeVars, portfolioVars
  <2>2. CASE UNCHANGED releaseVars
    BY <1>2, <2>2, StoreUnchanged DEF storeState, releaseVars, workspaceVars, storeVars, portfolioVars
  <2>3. CASE LoopStep \/ OtherStep \/ Crash
    BY <1>2, <2>3, ReleaseStepKeeps
  <2>. QED
    BY <1>2, <2>1, <2>2, <2>3 DEF Next, Stop
<1>3. StoreInv /\ UNCHANGED vars => StoreInv'
  BY StoreUnchanged DEF vars, storeState, releaseVars, workspaceVars, storeVars, portfolioVars
<1>. QED
  BY <1>1, <1>2, <1>3

-----------------------------------------------------------------------------
(* What the releases promise.                                              *)

(* A catalogued release is whole wherever a publication was stopped: it    *)
(* has its snapshots and frozen revisions (FormalDatasetReleaseService.    *)
(* freeze writes the record last).                                         *)
THEOREM ReleasesAreWhole == Spec => []CataloguedIsWhole
<1>1. StoreInv => CataloguedIsWhole
  <2>. SUFFICES ASSUME StoreInv, NEW r \in Catalogued
       PROVE  /\ r.cases \subseteq frozen
              /\ r.parent = None \/ r.parent \in Catalogued
              /\ r \notin legacy => Has("payload", r) /\ Readable(r) /\ Runnable(r)
    BY DEF CataloguedIsWhole
  <2>1. r.parent = None \/ r.parent \in Catalogued
    BY ParentsAreCatalogued DEF StoreInv
  <2>2. r \notin legacy => \A k \in {"canonical", "source", "payload", "read_model"} : Has(k, r)
    BY DEF StoreInv, SnapshotsFirst, RecordsAreWhole, Kinds
  <2>. QED
    BY <2>1, <2>2 DEF StoreInv, SnapshotsFirst, RecordsAreWhole, Readable, Runnable, HasPayload
<1>. QED
  BY <1>1, StoreInductive, PTL DEF Spec

(* A Bundle 3.0 stays bound to its slots and they to the releases that own *)
(* its cases, whatever is published, frozen or blocked after it            *)
(* (transition_slot leaves no way out of "frozen").                        *)
THEOREM BundlesStayBound == Spec => []BundleStaysBound
<1>1. StoreInv => BundleStaysBound
  BY DEF StoreInv
<1>. QED
  BY <1>1, StoreInductive, PTL DEF Spec

-----------------------------------------------------------------------------
(* The inductive invariant of the builders.                                *)

Directory == [there : BOOLEAN, parts : SUBSET Parts, sums : SUBSET Parts]

Places ==
    {"mkdir", "documents", "manifest", "tables", "register", "discard", "list", "copy",
     "rename", "load", "clean", "compare", "files", "seal"}

Work == [at : Places, release : Catalogued, left : SUBSET Parts, err : BOOLEAN, ok : BOOLEAN]

BuildTyped ==
    /\ staging \in [DOMAIN staging -> Directory]
    /\ copy \in [DOMAIN copy -> Directory]
    /\ bundle \in [DOMAIN bundle -> Directory]
    /\ contract = [files |-> contract.files, manifest |-> contract.manifest]
    /\ caller \in [Callers -> {AtRest} \cup Work]

(* Two callers that build one release have shared it. *)
Alone ==
    \A u, v \in Callers :
        /\ Busy(u) /\ Busy(v)
        /\ caller[u].release = caller[v].release /\ caller[u].release \notin shared
        => u = v

(* What a caller goes on with once it was given the bundle. *)
Given(at, r, ok) ==
    /\ ok \/ at \in {"compare", "files", "seal"} => r \in returned
    /\ at = "seal" => r \in contract.files

(* BundleIsWhole, release by release; a bundle is never half there. *)
Stored(r) ==
    /\ r \in DOMAIN bundle => bundle[r].there
    /\ r \in DOMAIN bundle /\ (r \in returned \/ r \notin shared) => Loads(bundle[r])
    /\ r \in returned => r \in DOMAIN bundle
    /\ r \in contract.manifest => r \in contract.files /\ r \in returned

Filled == [documents |-> {}, manifest |-> {"documents"}, tables |-> {"documents", "manifest"}]

Whole == [there |-> TRUE, parts |-> Parts, sums |-> {}]
Sealed == [there |-> TRUE, parts |-> Parts, sums |-> Parts]

(* What a caller that builds a release alone finds at each of its places.  *)
Undisturbed(at, r, left, err, ok) ==
    /\ at = "mkdir" => Dir(staging, r) = Absent
    /\ at \in DOMAIN Filled =>
          Dir(staging, r) = [there |-> TRUE, parts |-> Filled[at], sums |-> {}]
    /\ at \in {"register", "discard", "list", "copy"} => Dir(staging, r) = Whole
    /\ at \in {"discard", "list", "copy", "rename"} => r \notin DOMAIN bundle
    /\ at = "list" => ~Dir(copy, r).there
    /\ at = "copy" => /\ Dir(copy, r).there /\ Dir(copy, r).parts \cup left = Parts
                      /\ Dir(copy, r).sums = {}
    /\ at = "rename" => Dir(copy, r) = Sealed
    /\ at = "load" => r \in DOMAIN bundle
    /\ at = "clean" => ok
    /\ err = FALSE

(* w is what a caller has in hand. *)
Sound(w) ==
    w # AtRest => /\ Given(w.at, w.release, w.ok)
                  /\ w.release \notin shared =>
                        Undisturbed(w.at, w.release, w.left, w.err, w.ok)

BuildInv ==
    /\ BuildTyped /\ Alone
    /\ \A r : Stored(r)
    /\ \A u \in Callers : Sound(caller[u])

-----------------------------------------------------------------------------
(* Directories.                                                            *)

LEMMA PutDomain ==
    ASSUME NEW d, NEW r, NEW x
    PROVE  DOMAIN Put(d, r, x) = DOMAIN d \cup {r}
BY DEF Put

LEMMA PutAt ==
    ASSUME NEW d, NEW r, NEW x, NEW q \in DOMAIN d \cup {r}
    PROVE  Put(d, r, x)[q] = IF q = r THEN x ELSE d[q]
BY DEF Put

LEMMA PutHere ==
    ASSUME NEW d, NEW r, NEW x
    PROVE  Dir(Put(d, r, x), r) = x
BY DEF Put, Dir

LEMMA PutElsewhere ==
    ASSUME NEW d, NEW r, NEW x, NEW q, q # r
    PROVE  Dir(Put(d, r, x), q) = Dir(d, q)
BY DEF Put, Dir

LEMMA PutTyped ==
    ASSUME NEW d, d \in [DOMAIN d -> Directory], NEW r, NEW x \in Directory
    PROVE  Put(d, r, x) \in [DOMAIN Put(d, r, x) -> Directory]
BY DEF Put

LEMMA DropHere ==
    ASSUME NEW d, NEW r
    PROVE  Dir(Drop(d, r), r) = Absent
BY DEF Drop, Dir

LEMMA DropElsewhere ==
    ASSUME NEW d, NEW r, NEW q, q # r
    PROVE  Dir(Drop(d, r), q) = Dir(d, q)
BY DEF Drop, Dir

LEMMA DropTyped ==
    ASSUME NEW d, d \in [DOMAIN d -> Directory], NEW r
    PROVE  Drop(d, r) \in [DOMAIN Drop(d, r) -> Directory]
BY DEF Drop

LEMMA DirTyped ==
    ASSUME NEW d, d \in [DOMAIN d -> Directory], NEW r
    PROVE  /\ Dir(d, r) \in Directory
           /\ Dir(d, r).there => r \in DOMAIN d
BY DEF Dir, Absent, Directory

(* A caller's step at its release leaves the other releases alone.         *)
LEMMA OneStep ==
    ASSUME BuildInv, StoreInv, NEW u \in Callers, NEW r \in Catalogued, UNCHANGED <<releaseVars, shared>>,
           Busy(u), caller[u].release = r,
           NEW w \in {AtRest} \cup Work, caller' = [caller EXCEPT ![u] = w],
           w # AtRest => w.release = r,
           staging' \in [DOMAIN staging' -> Directory],
           copy' \in [DOMAIN copy' -> Directory],
           bundle' \in [DOMAIN bundle' -> Directory],
           contract' = [files |-> contract'.files, manifest |-> contract'.manifest],
           \A q : q # r => /\ Dir(staging', q) = Dir(staging, q)
                           /\ Dir(copy', q) = Dir(copy, q)
                           /\ q \in DOMAIN bundle' <=> q \in DOMAIN bundle
                           /\ q \in DOMAIN bundle => bundle'[q] = bundle[q]
                           /\ q \in returned' <=> q \in returned
                           /\ q \in contract'.files <=> q \in contract.files
                           /\ q \in contract'.manifest <=> q \in contract.manifest,
           returned \subseteq returned', contract.files \subseteq contract'.files,
           Stored(r)',
           w # AtRest => Given(w.at, r, w.ok)',
           w # AtRest /\ r \notin shared => Undisturbed(w.at, r, w.left, w.err, w.ok)'
    PROVE  BuildInv'
<1>1. Catalogued' = Catalogued /\ Releases' = Releases /\ Work' = Work
  BY LineageUnchanged DEF releaseVars, storeVars, Work
<1>2. BuildTyped'
  BY <1>1 DEF BuildInv, BuildTyped
<1>3. \A v \in Callers : v # u => caller'[v] = caller[v]
  BY DEF BuildInv, BuildTyped
<1>4. caller'[u] = w
  BY DEF BuildInv, BuildTyped
<1>5. Alone'
  BY <1>3, <1>4 DEF BuildInv, Alone, Busy
<1>6. \A q : Stored(q)'
  <2>. SUFFICES ASSUME NEW q, q # r PROVE Stored(q)'
    OBVIOUS
  <2>. QED
    BY DEF BuildInv, Stored
<1>7. ASSUME NEW v \in Callers PROVE Sound(caller[v])'
  <2>1. CASE v = u
    BY <2>1, <1>4 DEF Sound
  <2>2. CASE v # u /\ caller[v] # AtRest
    <3>. DEFINE q == caller[v].release
    <3>1. Given(caller[v].at, q, caller[v].ok)'
      <4>1. Given(caller[v].at, q, caller[v].ok)
        BY <2>2 DEF BuildInv, Sound
      <4>. QED
        BY <2>2, <1>3, <4>1 DEF Given
    <3>2. ASSUME q \notin shared
          PROVE  Undisturbed(caller[v].at, q, caller[v].left, caller[v].err, caller[v].ok)'
      <4>1. q # r
        BY <2>2, <3>2 DEF BuildInv, Alone, Busy
      <4>2. Undisturbed(caller[v].at, q, caller[v].left, caller[v].err, caller[v].ok)
        BY <2>2, <3>2 DEF BuildInv, Sound
      <4>. QED
        BY <2>2, <1>3, <4>1, <4>2 DEF Undisturbed
    <3>. QED
      BY <2>2, <1>3, <3>1, <3>2 DEF Sound
  <2>3. CASE v # u /\ caller[v] = AtRest
    BY <2>3, <1>3 DEF Sound
  <2>. QED
    BY <2>1, <2>2, <2>3
<1>. QED
  BY <1>1, <1>2, <1>5, <1>6, <1>7 DEF BuildInv

-----------------------------------------------------------------------------
(* The steps of a caller, in the order of materialize_runtime_bundle.      *)

(* What At says of a caller, for the lemmas below. *)
LEMMA AtPlace ==
    ASSUME BuildInv, NEW u \in Callers, NEW r \in Catalogued, NEW step \in Places, At(u, step, r)
    PROVE  /\ Busy(u) /\ caller[u] \in Work /\ caller[u].release = r
           /\ caller[u].at = step
           /\ Given(step, r, caller[u].ok)
           /\ r \notin shared =>
                 Undisturbed(step, r, caller[u].left, caller[u].err, caller[u].ok)
<1>1. caller[u] # AtRest
  BY DEF At, AtRest, Places
<1>. QED
  BY <1>1 DEF BuildInv, BuildTyped, At, Busy, Sound

(* A caller that only moves on, or rests.                                  *)
LEMMA Moves ==
    ASSUME BuildInv, NEW u \in Callers, NEW to \in Places, caller[u] \in Work,
           Go(u, to) \/ Rests(u)
    PROVE  \E w \in {AtRest} \cup Work :
              /\ caller' = [caller EXCEPT ![u] = w]
              /\ w # AtRest => w = [caller[u] EXCEPT !.at = to] /\ w.release = caller[u].release
                               /\ w.at = to /\ w.left = caller[u].left
                               /\ w.err = caller[u].err /\ w.ok = caller[u].ok
              /\ Rests(u) => w = AtRest
              /\ Go(u, to) => w # AtRest
BY DEF BuildInv, BuildTyped, Go, Rests, Work, AtRest

LEMMA EmptyIs ==
    /\ Empty = [there |-> TRUE, parts |-> {}, sums |-> {}]
    /\ Empty \in Directory
<1>1. Absent \in Directory /\ Absent.parts = {} /\ Absent.sums = {}
  BY DEF Absent, Directory
<1>2. \A b : \A dir \in Directory :
         [dir EXCEPT !.there = b] = [there |-> b, parts |-> dir.parts, sums |-> dir.sums]
  BY DEF Directory
<1>3. Empty = [there |-> TRUE, parts |-> {}, sums |-> {}]
  BY <1>1, <1>2 DEF Empty
<1>4. [there |-> TRUE, parts |-> {}, sums |-> {}] \in Directory
  BY DEF Directory
<1>. QED
  BY <1>3, <1>4

LEMMA MakeStagingKeeps ==
    ASSUME StoreInv, BuildInv, NEW u \in Callers, NEW r \in Catalogued, MakeStaging(u, r), UNCHANGED releaseVars
    PROVE  BuildInv'
<1>1. /\ Busy(u) /\ caller[u] \in Work /\ caller[u].release = r
      /\ Given("mkdir", r, caller[u].ok)
      /\ r \notin shared => Undisturbed("mkdir", r, caller[u].left, caller[u].err, caller[u].ok)
  BY AtPlace DEF Places, MakeStaging
<1>2. PICK w \in {AtRest} \cup Work :
          /\ caller' = [caller EXCEPT ![u] = w]
          /\ w # AtRest => /\ w.release = r /\ w.at = "documents" /\ w.ok = caller[u].ok /\ w.err = caller[u].err
                           /\ staging' = Put(staging, r, Empty)
          /\ w = AtRest => staging' = staging
  BY <1>1, Moves DEF Places, MakeStaging
<1>3. UNCHANGED <<copy, bundle, contract, returned, shared>>
  BY DEF MakeStaging
<1>4. /\ staging' \in [DOMAIN staging' -> Directory]
      /\ \A q : q # r => Dir(staging', q) = Dir(staging, q)
      /\ w # AtRest => Dir(staging', r) = Empty
  <2>1. staging \in [DOMAIN staging -> Directory]
    BY DEF BuildInv, BuildTyped
  <2>2. CASE w = AtRest
    BY <2>1, <2>2, <1>2
  <2>3. CASE w # AtRest
    BY <2>1, <2>3, <1>2, EmptyIs, PutHere, PutElsewhere, PutTyped
  <2>. QED
    BY <2>2, <2>3
<1>5. Stored(r)'
  BY <1>3 DEF BuildInv, Stored
<1>6. w # AtRest => Given(w.at, r, w.ok)'
  BY <1>1, <1>2, <1>3 DEF Given
<1>7. w # AtRest /\ r \notin shared => Undisturbed(w.at, r, w.left, w.err, w.ok)'
  BY <1>1, <1>2, <1>3, <1>4, EmptyIs DEF Undisturbed, Filled
<1>. QED
  BY <1>1, <1>2, <1>3, <1>4, <1>5, <1>6, <1>7, OneStep DEF BuildInv, BuildTyped

LEMMA FillIs ==
    ASSUME NEW dir \in Directory, NEW p \in Parts
    PROVE  /\ [dir EXCEPT !.there = TRUE, !.parts = @ \cup {p}]
                = [there |-> TRUE, parts |-> dir.parts \cup {p}, sums |-> dir.sums]
           /\ [dir EXCEPT !.there = TRUE, !.parts = @ \cup {p}] \in Directory
<1>1. ASSUME NEW b, NEW c
      PROVE  [dir EXCEPT !.there = b, !.parts = c] = [there |-> b, parts |-> c, sums |-> dir.sums]
  <2>. DEFINE e == [dir EXCEPT !.there = b, !.parts = c]
  <2>1. e.there = b /\ e.parts = c /\ e.sums = dir.sums
    BY DEF Directory
  <2>2. DOMAIN e = {"there", "parts", "sums"}
    BY DEF Directory
  <2>3. e = [k \in DOMAIN e |-> e[k]]
    OBVIOUS
  <2>. HIDE DEF e
  <2>4. e = [there |-> b, parts |-> c, sums |-> dir.sums]
    BY <2>1, <2>2, <2>3
  <2>. QED
    BY <2>4 DEF e
<1>2. [there |-> TRUE, parts |-> dir.parts \cup {p}, sums |-> dir.sums] \in Directory
  BY DEF Directory
<1>. QED
  BY <1>1, <1>2

LEMMA WritePartKeeps ==
    ASSUME StoreInv, BuildInv, NEW u \in Callers, NEW r \in Catalogued, NEW p \in Parts,
           WritePart(u, r, p), UNCHANGED releaseVars
    PROVE  BuildInv'
<1>. DEFINE next == IF Dir(staging, r).there \/ p = "manifest" THEN PartAfter[p] ELSE "clean"
            full == [there |-> TRUE, parts |-> Dir(staging, r).parts \cup {p}, sums |-> Dir(staging, r).sums]
<1>1. /\ Busy(u) /\ caller[u] \in Work /\ caller[u].release = r
      /\ Given(p, r, caller[u].ok)
      /\ r \notin shared => Undisturbed(p, r, caller[u].left, caller[u].err, caller[u].ok)
  BY AtPlace DEF Places, Parts, WritePart
<1>2. staging \in [DOMAIN staging -> Directory] /\ Dir(staging, r) \in Directory
  BY DirTyped DEF BuildInv, BuildTyped
<1>3. /\ full \in Directory
      /\ [Dir(staging, r) EXCEPT !.there = TRUE, !.parts = @ \cup {p}] = full
  BY <1>2, FillIs
<1>4. /\ Go(u, next)
      /\ next # "clean" => staging' = Put(staging, r, full)
      /\ next = "clean" => staging' = staging /\ ~Dir(staging, r).there
  BY <1>3 DEF WritePart, PartAfter, Parts
<1>5. UNCHANGED <<copy, bundle, contract, returned, shared>>
  BY DEF WritePart
<1>. HIDE DEF full
<1>6. next \in Places /\ next \in {"manifest", "tables", "register", "clean"}
  BY DEF Places, PartAfter, Parts
<1>7. PICK w \in {AtRest} \cup Work :
          /\ caller' = [caller EXCEPT ![u] = w]
          /\ w.release = r /\ w.at = next /\ w.ok = caller[u].ok /\ w.err = caller[u].err
  BY <1>1, <1>4, <1>6, Moves
<1>8. /\ staging' \in [DOMAIN staging' -> Directory]
      /\ \A q : q # r => Dir(staging', q) = Dir(staging, q)
      /\ next # "clean" => Dir(staging', r) = full
  <2>1. CASE next = "clean"
    BY <1>2, <1>4, <2>1
  <2>2. CASE next # "clean"
    BY <1>2, <1>3, <1>4, <2>2, PutHere, PutElsewhere, PutTyped
  <2>. QED
    BY <2>1, <2>2
<1>9. Stored(r)'
  BY <1>5 DEF BuildInv, Stored
<1>10. Given(w.at, r, w.ok)'
  BY <1>1, <1>5, <1>6, <1>7 DEF Given
<1>11. ASSUME r \notin shared PROVE Undisturbed(w.at, r, w.left, w.err, w.ok)'
  <2>1. Dir(staging, r) = [there |-> TRUE, parts |-> Filled[p], sums |-> {}]
    BY <1>1, <1>11 DEF Undisturbed, Filled, Parts
  <2>2. full = [there |-> TRUE, parts |-> Filled[p] \cup {p}, sums |-> {}] /\ next = PartAfter[p]
    BY <2>1 DEF full
  <2>3. /\ p = "documents" => next = "manifest" /\ Filled[p] \cup {p} = Filled["manifest"]
        /\ p = "manifest" => next = "tables" /\ Filled[p] \cup {p} = Filled["tables"]
        /\ p = "tables" => next = "register" /\ Filled[p] \cup {p} = Parts
    BY <2>2 DEF PartAfter, Filled, Parts
  <2>4. CASE p = "tables"
    <3>1. w.at = "register" /\ Dir(staging', r) = Whole
      BY <1>7, <1>8, <2>2, <2>3, <2>4 DEF Whole
    <3>2. w.err = FALSE
      BY <1>1, <1>7, <1>11 DEF Undisturbed
    <3>. QED
      BY <3>1, <3>2 DEF Undisturbed, Filled
  <2>5. CASE p # "tables"
    <3>1. /\ w.at \in {"manifest", "tables"}
          /\ Dir(staging', r) = [there |-> TRUE, parts |-> Filled[w.at], sums |-> {}]
      BY <1>7, <1>8, <2>2, <2>3, <2>5 DEF Parts
    <3>2. w.err = FALSE
      BY <1>1, <1>7, <1>11 DEF Undisturbed
    <3>. QED
      BY <3>1, <3>2 DEF Undisturbed
  <2>. QED
    BY <2>4, <2>5
<1>. QED
  BY <1>1, <1>5, <1>7, <1>8, <1>9, <1>10, <1>11, OneStep DEF BuildInv, BuildTyped

LEMMA CleanStagingKeeps ==
    ASSUME StoreInv, BuildInv, NEW u \in Callers, NEW r \in Catalogued,
           CleanStaging(u, r), UNCHANGED releaseVars
    PROVE  BuildInv'
<1>1. /\ Busy(u) /\ caller[u] \in Work /\ caller[u].release = r
      /\ Given("clean", r, caller[u].ok)
  BY AtPlace DEF Places, CleanStaging
<1>2. PICK w \in {AtRest} \cup Work :
          /\ caller' = [caller EXCEPT ![u] = w]
          /\ w # AtRest => w.release = r /\ w.at = "compare" /\ w.ok = caller[u].ok /\ w.err = caller[u].err /\ caller[u].ok
  <2>1. CASE caller[u].ok /\ u # "loop"
    <3>1. Go(u, "compare")
      BY <2>1 DEF CleanStaging
    <3>2. PICK w \in {AtRest} \cup Work :
              /\ caller' = [caller EXCEPT ![u] = w]
              /\ w.release = r /\ w.at = "compare" /\ w.ok = caller[u].ok /\ w.err = caller[u].err
      BY <1>1, <3>1, Moves DEF Places
    <3>. QED
      BY <2>1, <3>2
  <2>2. CASE ~(caller[u].ok /\ u # "loop")
    <3>1. Rests(u)
      BY <2>2 DEF CleanStaging
    <3>. QED
      BY <1>1, <3>1, Moves DEF Places
  <2>. QED
    BY <2>1, <2>2
<1>3. UNCHANGED <<copy, bundle, contract, returned, shared>> /\ staging' = Drop(staging, r)
  BY DEF CleanStaging
<1>4. /\ staging' \in [DOMAIN staging' -> Directory]
      /\ \A q : q # r => Dir(staging', q) = Dir(staging, q)
  BY <1>3, DropElsewhere, DropTyped DEF BuildInv, BuildTyped
<1>5. Stored(r)'
  BY <1>3 DEF BuildInv, Stored
<1>6. w # AtRest => Given(w.at, r, w.ok)'
  BY <1>1, <1>2, <1>3 DEF Given
<1>7. w # AtRest /\ r \notin shared => Undisturbed(w.at, r, w.left, w.err, w.ok)'
  <2>1. r \notin shared => caller[u].err = FALSE
    BY AtPlace DEF Places, CleanStaging, Undisturbed
  <2>. QED
    BY <1>2, <2>1 DEF Undisturbed, Filled
<1>. QED
  BY <1>1, <1>2, <1>3, <1>4, <1>5, <1>6, <1>7, OneStep DEF BuildInv, BuildTyped

LEMMA RegisterKeeps ==
    ASSUME StoreInv, BuildInv, NEW u \in Callers, NEW r \in Catalogued,
           Register(u, r), UNCHANGED releaseVars
    PROVE  BuildInv'
<1>. DEFINE next == IF ~Loads(Dir(staging, r)) THEN "clean"
                    ELSE IF Dir(bundle, r).there THEN "load" ELSE "discard"
<1>1. /\ Busy(u) /\ caller[u] \in Work /\ caller[u].release = r
      /\ Given("register", r, caller[u].ok)
      /\ r \notin shared => Undisturbed("register", r, caller[u].left, caller[u].err, caller[u].ok)
  BY AtPlace DEF Places, Register
<1>2. Go(u, next) /\ UNCHANGED <<staging, copy, bundle, contract, returned, shared>>
  BY DEF Register
<1>3. PICK w \in {AtRest} \cup Work :
          /\ caller' = [caller EXCEPT ![u] = w]
          /\ w.release = r /\ w.at = next /\ w.ok = caller[u].ok /\ w.err = caller[u].err
  BY <1>1, <1>2, Moves DEF Places
<1>4. Stored(r)
  BY DEF BuildInv
<1>5. Stored(r)'
  BY <1>2, <1>4 DEF Stored
<1>6. Given(w.at, r, w.ok)'
  BY <1>1, <1>2, <1>3 DEF Given
<1>7. ASSUME r \notin shared PROVE Undisturbed(w.at, r, w.left, w.err, w.ok)'
  <2>1. Dir(staging, r) = Whole
    BY <1>1, <1>7 DEF Undisturbed
  <2>2. Loads(Dir(staging, r))
    BY <2>1 DEF Loads, Whole
  <2>3. Dir(bundle, r).there <=> r \in DOMAIN bundle
    BY <1>4 DEF Stored, Dir, Absent
  <2>4. \/ w.at = "load" /\ r \in DOMAIN bundle
        \/ w.at = "discard" /\ r \notin DOMAIN bundle
    BY <1>3, <2>2, <2>3
  <2>5. w.err = FALSE
    BY <1>1, <1>3, <1>7 DEF Undisturbed
  <2>. QED
    BY <1>2, <2>1, <2>4, <2>5 DEF Undisturbed, Filled
<1>. QED
  BY <1>1, <1>2, <1>3, <1>5, <1>6, <1>7, OneStep DEF BuildInv, BuildTyped

LEMMA DiscardCopyKeeps ==
    ASSUME StoreInv, BuildInv, NEW u \in Callers, NEW r \in Catalogued,
           DiscardCopy(u, r), UNCHANGED releaseVars
    PROVE  BuildInv'
<1>1. /\ Busy(u) /\ caller[u] \in Work /\ caller[u].release = r
      /\ Given("discard", r, caller[u].ok)
      /\ r \notin shared => Undisturbed("discard", r, caller[u].left, caller[u].err, caller[u].ok)
  BY AtPlace DEF Places, DiscardCopy
<1>2. Go(u, "list") /\ copy' = Drop(copy, r) /\ UNCHANGED <<staging, bundle, contract, returned, shared>>
  BY DEF DiscardCopy
<1>3. PICK w \in {AtRest} \cup Work :
          /\ caller' = [caller EXCEPT ![u] = w]
          /\ w.release = r /\ w.at = "list" /\ w.ok = caller[u].ok /\ w.err = caller[u].err
  BY <1>1, <1>2, Moves DEF Places
<1>4. /\ copy' \in [DOMAIN copy' -> Directory]
      /\ \A q : q # r => Dir(copy', q) = Dir(copy, q)
      /\ ~Dir(copy', r).there
  BY <1>2, DropHere, DropElsewhere, DropTyped DEF BuildInv, BuildTyped, Absent
<1>5. Stored(r)'
  BY <1>2 DEF BuildInv, Stored
<1>6. Given(w.at, r, w.ok)'
  BY <1>1, <1>2, <1>3 DEF Given
<1>7. ASSUME r \notin shared PROVE Undisturbed(w.at, r, w.left, w.err, w.ok)'
  BY <1>1, <1>2, <1>3, <1>4, <1>7 DEF Undisturbed, Filled
<1>. QED
  BY <1>1, <1>2, <1>3, <1>4, <1>5, <1>6, <1>7, OneStep DEF BuildInv, BuildTyped

LEMMA ListSourceKeeps ==
    ASSUME StoreInv, BuildInv, NEW u \in Callers, NEW r \in Catalogued,
           ListSource(u, r), UNCHANGED releaseVars
    PROVE  BuildInv'
<1>1. /\ Busy(u) /\ caller[u] \in Work /\ caller[u].release = r
      /\ Given("list", r, caller[u].ok)
      /\ r \notin shared => Undisturbed("list", r, caller[u].left, caller[u].err, caller[u].ok)
  BY AtPlace DEF Places, ListSource
<1>2. UNCHANGED <<staging, bundle, contract, returned, shared>>
  BY DEF ListSource
<1>3. Stored(r)'
  BY <1>2 DEF BuildInv, Stored
<1>4. CASE ~Dir(staging, r).there \/ Dir(copy, r).there
  <2>1. Go(u, "clean") /\ copy' = copy
    BY <1>4 DEF ListSource
  <2>2. PICK w \in {AtRest} \cup Work :
            /\ caller' = [caller EXCEPT ![u] = w]
            /\ w.release = r /\ w.at = "clean" /\ w.ok = caller[u].ok /\ w.err = caller[u].err
    BY <1>1, <2>1, Moves DEF Places
  <2>3. Given(w.at, r, w.ok)'
    BY <1>1, <1>2, <2>2 DEF Given
  <2>4. r \in shared
    BY <1>1, <1>4 DEF Undisturbed, Whole
  <2>. QED
    BY <1>1, <1>2, <1>3, <2>1, <2>2, <2>3, <2>4, OneStep DEF BuildInv, BuildTyped
<1>5. CASE ~(~Dir(staging, r).there \/ Dir(copy, r).there)
  <2>0. PICK w : w = [caller[u] EXCEPT !.at = "copy", !.left = Dir(staging, r).parts]
    OBVIOUS
  <2>1. copy' = Put(copy, r, Empty) /\ caller' = [caller EXCEPT ![u].at = "copy", ![u].left = Dir(staging, r).parts]
    BY <1>5 DEF ListSource
  <2>2. caller' = [caller EXCEPT ![u] = w]
    BY <2>0, <2>1, <1>1 DEF BuildInv, BuildTyped
  <2>3. Dir(staging, r).parts \subseteq Parts
    BY DirTyped DEF BuildInv, BuildTyped, Directory
  <2>4. /\ w \in Work /\ w.release = r /\ w.at = "copy" /\ w.ok = caller[u].ok /\ w.err = caller[u].err
        /\ w.left = Dir(staging, r).parts
    BY <2>0, <1>1, <2>3 DEF Work, Places
  <2>5. /\ copy' \in [DOMAIN copy' -> Directory]
        /\ \A q : q # r => Dir(copy', q) = Dir(copy, q)
        /\ Dir(copy', r) = Empty
    BY <2>1, EmptyIs, PutHere, PutElsewhere, PutTyped DEF BuildInv, BuildTyped
  <2>6. Given(w.at, r, w.ok)'
    BY <1>1, <1>2, <2>4 DEF Given
  <2>7. ASSUME r \notin shared PROVE Undisturbed(w.at, r, w.left, w.err, w.ok)'
    <3>1. Dir(staging, r) = Whole /\ r \notin DOMAIN bundle /\ caller[u].err = FALSE
      BY <1>1, <2>7 DEF Undisturbed
    <3>2. w.left = Parts
      BY <2>4, <3>1 DEF Whole
    <3>. QED
      BY <1>2, <2>4, <2>5, <3>1, <3>2, EmptyIs DEF Undisturbed, Filled
  <2>. QED
    BY <1>1, <1>2, <1>3, <2>2, <2>4, <2>5, <2>6, <2>7, OneStep DEF BuildInv, BuildTyped
<1>. QED
  BY <1>4, <1>5

(* An error of one file is kept until the last; alone, there is none.      *)
LEMMA CopyPartKeeps ==
    ASSUME StoreInv, BuildInv, NEW u \in Callers, NEW r \in Catalogued, NEW p \in Parts,
           CopyPart(u, r, p), UNCHANGED releaseVars
    PROVE  BuildInv'
<1>. DEFINE fails == p \notin Dir(staging, r).parts \/ ~Dir(copy, r).there
            grown == [Dir(copy, r) EXCEPT !.parts = @ \cup {p}]
<1>1. /\ Busy(u) /\ caller[u] \in Work /\ caller[u].release = r
      /\ Given("copy", r, caller[u].ok)
      /\ r \notin shared => Undisturbed("copy", r, caller[u].left, caller[u].err, caller[u].ok)
  BY AtPlace DEF Places, CopyPart
<1>2. /\ UNCHANGED <<staging, bundle, contract, returned, shared>> /\ p \in caller[u].left
      /\ caller' = [caller EXCEPT ![u].left = @ \ {p}, ![u].err = @ \/ fails]
      /\ copy' = IF fails THEN copy ELSE Put(copy, r, grown)
  BY DEF CopyPart
<1>b. caller[u].at = "copy"
  BY AtPlace DEF Places, CopyPart
<1>3. PICK w : w = [caller[u] EXCEPT !.left = @ \ {p}, !.err = @ \/ fails]
  OBVIOUS
<1>4. caller' = [caller EXCEPT ![u] = w]
  BY <1>1, <1>2, <1>3 DEF BuildInv, BuildTyped
<1>5. /\ w \in Work /\ w.release = r /\ w.at = "copy" /\ w.ok = caller[u].ok
      /\ w.left = caller[u].left \ {p} /\ w.err = (caller[u].err \/ fails)
  <2>1. PICK x \in BOOLEAN : x = (caller[u].err \/ fails)
    OBVIOUS
  <2>2. PICK l \in SUBSET Parts : l = caller[u].left \ {p}
    BY <1>1 DEF Work
  <2>3. w = [caller[u] EXCEPT !.left = l, !.err = x]
    BY <1>3, <2>1, <2>2
  <2>4. w \in Work /\ w.release = r /\ w.at = "copy" /\ w.ok = caller[u].ok /\ w.left = l /\ w.err = x
    BY <1>1, <1>b, <2>3 DEF Work
  <2>. QED
    BY <2>1, <2>2, <2>4
<1>6. /\ Dir(copy, r) \in Directory /\ copy \in [DOMAIN copy -> Directory]
      /\ grown \in Directory /\ grown = [there |-> Dir(copy, r).there, parts |-> Dir(copy, r).parts \cup {p}, sums |-> Dir(copy, r).sums]
  <2>1. Dir(copy, r) \in Directory /\ copy \in [DOMAIN copy -> Directory]
    BY DirTyped DEF BuildInv, BuildTyped
  <2>2. \A dir \in Directory : /\ [dir EXCEPT !.parts = @ \cup {p}] \in Directory
                               /\ [dir EXCEPT !.parts = @ \cup {p}]
                                    = [there |-> dir.there, parts |-> dir.parts \cup {p}, sums |-> dir.sums]
    BY DEF Directory
  <2>. QED
    BY <2>1, <2>2
<1>. HIDE DEF grown, fails
<1>7. /\ copy' \in [DOMAIN copy' -> Directory]
      /\ \A q : q # r => Dir(copy', q) = Dir(copy, q)
      /\ ~fails => Dir(copy', r) = grown
  <2>1. CASE fails
    BY <1>2, <1>6, <2>1
  <2>2. CASE ~fails
    <3>1. copy' = Put(copy, r, grown)
      BY <1>2, <2>2
    <3>2. grown \in Directory /\ copy \in [DOMAIN copy -> Directory]
      BY <1>6
    <3>3. Put(copy, r, grown) \in [DOMAIN Put(copy, r, grown) -> Directory]
      BY <3>2, PutTyped
    <3>4. Dir(Put(copy, r, grown), r) = grown
      BY PutHere
    <3>5. \A q : q # r => Dir(Put(copy, r, grown), q) = Dir(copy, q)
      BY PutElsewhere
    <3>. QED
      BY <2>2, <3>1, <3>3, <3>4, <3>5
  <2>. QED
    BY <2>1, <2>2
<1>8. Stored(r)'
  BY <1>2 DEF BuildInv, Stored
<1>9. Given(w.at, r, w.ok)'
  BY <1>1, <1>2, <1>5 DEF Given
<1>10. ASSUME r \notin shared PROVE Undisturbed(w.at, r, w.left, w.err, w.ok)'
  <2>1. /\ Dir(staging, r) = Whole /\ r \notin DOMAIN bundle /\ caller[u].err = FALSE
        /\ Dir(copy, r).there /\ Dir(copy, r).parts \cup caller[u].left = Parts
        /\ Dir(copy, r).sums = {}
    BY <1>1, <1>10 DEF Undisturbed
  <2>2. ~fails
    BY <2>1 DEF fails, Whole
  <2>3. w.err = FALSE
    BY <1>5, <2>1, <2>2
  <2>4. Dir(copy', r).there /\ Dir(copy', r).parts = Dir(copy, r).parts \cup {p} /\ Dir(copy', r).sums = {}
    BY <1>6, <1>7, <2>1, <2>2
  <2>5. Dir(copy', r).parts \cup w.left = Parts
    BY <1>5, <2>1, <2>4
  <2>. QED
    BY <1>2, <1>5, <2>1, <2>3, <2>4, <2>5 DEF Undisturbed, Filled
<1>. QED
  BY <1>1, <1>2, <1>4, <1>5, <1>7, <1>8, <1>9, <1>10, OneStep DEF BuildInv, BuildTyped

LEMMA WriteChecksumsKeeps ==
    ASSUME StoreInv, BuildInv, NEW u \in Callers, NEW r \in Catalogued,
           WriteChecksums(u, r), UNCHANGED releaseVars
    PROVE  BuildInv'
<1>. DEFINE next == IF caller[u].err THEN "clean" ELSE "rename"
            summed == [Dir(copy, r) EXCEPT !.there = TRUE, !.sums = Dir(copy, r).parts]
<1>1. /\ Busy(u) /\ caller[u] \in Work /\ caller[u].release = r
      /\ Given("copy", r, caller[u].ok)
      /\ r \notin shared => Undisturbed("copy", r, caller[u].left, caller[u].err, caller[u].ok)
  BY AtPlace DEF Places, WriteChecksums
<1>2. /\ UNCHANGED <<staging, bundle, contract, returned, shared>> /\ caller[u].left = {}
      /\ Go(u, next)
      /\ next = "rename" => copy' = Put(copy, r, summed)
      /\ next = "clean" => copy' = copy
  BY DEF WriteChecksums
<1>3. PICK w \in {AtRest} \cup Work :
          /\ caller' = [caller EXCEPT ![u] = w]
          /\ w.release = r /\ w.at = next /\ w.ok = caller[u].ok /\ w.err = caller[u].err
  BY <1>1, <1>2, Moves DEF Places
<1>4. /\ copy \in [DOMAIN copy -> Directory] /\ summed \in Directory
      /\ summed = [there |-> TRUE, parts |-> Dir(copy, r).parts, sums |-> Dir(copy, r).parts]
  <2>1. Dir(copy, r) \in Directory /\ copy \in [DOMAIN copy -> Directory]
    BY DirTyped DEF BuildInv, BuildTyped
  <2>2. ASSUME NEW dir \in Directory, NEW b
        PROVE  [dir EXCEPT !.there = b, !.sums = dir.parts]
                 = [there |-> b, parts |-> dir.parts, sums |-> dir.parts]
    <3>. DEFINE e == [dir EXCEPT !.there = b, !.sums = dir.parts]
    <3>1. e.there = b /\ e.parts = dir.parts /\ e.sums = dir.parts
      BY DEF Directory
    <3>2. DOMAIN e = {"there", "parts", "sums"}
      BY DEF Directory
    <3>3. e = [k \in DOMAIN e |-> e[k]]
      OBVIOUS
    <3>. HIDE DEF e
    <3>4. e = [there |-> b, parts |-> dir.parts, sums |-> dir.parts]
      BY <3>1, <3>2, <3>3
    <3>. QED
      BY <3>4 DEF e
  <2>3. summed = [there |-> TRUE, parts |-> Dir(copy, r).parts, sums |-> Dir(copy, r).parts]
    BY <2>1, <2>2
  <2>4. [there |-> TRUE, parts |-> Dir(copy, r).parts, sums |-> Dir(copy, r).parts] \in Directory
    BY <2>1 DEF Directory
  <2>. QED
    BY <2>1, <2>3, <2>4
<1>. HIDE DEF summed
<1>5. /\ copy' \in [DOMAIN copy' -> Directory]
      /\ \A q : q # r => Dir(copy', q) = Dir(copy, q)
      /\ next = "rename" => Dir(copy', r) = summed
  <2>1. CASE next = "clean"
    BY <1>2, <1>4, <2>1
  <2>2. CASE next # "clean"
    <3>1. copy' = Put(copy, r, summed)
      BY <1>2, <2>2
    <3>2. summed \in Directory /\ copy \in [DOMAIN copy -> Directory]
      BY <1>4
    <3>3. Put(copy, r, summed) \in [DOMAIN Put(copy, r, summed) -> Directory]
      BY <3>2, PutTyped
    <3>4. Dir(Put(copy, r, summed), r) = summed
      BY PutHere
    <3>5. \A q : q # r => Dir(Put(copy, r, summed), q) = Dir(copy, q)
      BY PutElsewhere
    <3>. QED
      BY <3>1, <3>3, <3>4, <3>5
  <2>. QED
    BY <2>1, <2>2
<1>6. Stored(r)'
  BY <1>2 DEF BuildInv, Stored
<1>7. Given(w.at, r, w.ok)'
  BY <1>1, <1>2, <1>3 DEF Given
<1>8. ASSUME r \notin shared PROVE Undisturbed(w.at, r, w.left, w.err, w.ok)'
  <2>1. /\ r \notin DOMAIN bundle /\ caller[u].err = FALSE
        /\ Dir(copy, r).parts \cup caller[u].left = Parts
    BY <1>1, <1>8 DEF Undisturbed
  <2>2. next = "rename" /\ Dir(copy, r).parts = Parts /\ w.err = FALSE
    BY <1>2, <1>3, <2>1
  <2>3. Sealed = [there |-> TRUE, parts |-> Parts, sums |-> Parts]
    BY DEF Sealed
  <2>4. Dir(copy', r) = Sealed
    BY <1>4, <1>5, <2>2, <2>3
  <2>. QED
    BY <1>2, <1>3, <2>1, <2>2, <2>4 DEF Undisturbed, Filled
<1>. QED
  BY <1>1, <1>2, <1>3, <1>5, <1>6, <1>7, <1>8, OneStep DEF BuildInv, BuildTyped

LEMMA RenameCopyKeeps ==
    ASSUME StoreInv, BuildInv, NEW u \in Callers, NEW r \in Catalogued,
           RenameCopy(u, r), UNCHANGED releaseVars
    PROVE  BuildInv'
<1>1. /\ Busy(u) /\ caller[u] \in Work /\ caller[u].release = r
      /\ Given("rename", r, caller[u].ok)
      /\ r \notin shared => Undisturbed("rename", r, caller[u].left, caller[u].err, caller[u].ok)
  BY AtPlace DEF Places, RenameCopy
<1>2. UNCHANGED <<staging, contract, returned, shared>>
  BY DEF RenameCopy
<1>3. Stored(r)
  BY DEF BuildInv
<1>4. CASE ~Dir(copy, r).there \/ Dir(bundle, r).there
  <2>1. Go(u, "clean") /\ UNCHANGED <<copy, bundle>>
    BY <1>4 DEF RenameCopy
  <2>2. PICK w \in {AtRest} \cup Work :
            /\ caller' = [caller EXCEPT ![u] = w]
            /\ w.release = r /\ w.at = "clean" /\ w.ok = caller[u].ok
    BY <1>1, <2>1, Moves DEF Places
  <2>3. Given(w.at, r, w.ok)'
    BY <1>1, <1>2, <2>2 DEF Given
  <2>4. r \in shared
    BY <1>1, <1>4 DEF Undisturbed, Sealed, Whole, Dir, Absent
  <2>5. Stored(r)'
    BY <1>2, <1>3, <2>1 DEF Stored
  <2>. QED
    BY <1>1, <1>2, <2>1, <2>2, <2>3, <2>4, <2>5, OneStep DEF BuildInv, BuildTyped
<1>5. CASE ~(~Dir(copy, r).there \/ Dir(bundle, r).there)
  <2>1. Go(u, "load") /\ bundle' = Put(bundle, r, Dir(copy, r)) /\ copy' = Drop(copy, r)
    BY <1>5 DEF RenameCopy
  <2>2. PICK w \in {AtRest} \cup Work :
            /\ caller' = [caller EXCEPT ![u] = w]
            /\ w.release = r /\ w.at = "load" /\ w.ok = caller[u].ok /\ w.err = caller[u].err
    BY <1>1, <2>1, Moves DEF Places
  <2>3. Dir(copy, r) \in Directory
    BY DirTyped DEF BuildInv, BuildTyped
  <2>4. /\ bundle' \in [DOMAIN bundle' -> Directory]
        /\ DOMAIN bundle' = DOMAIN bundle \cup {r}
        /\ \A q \in DOMAIN bundle \cup {r} : bundle'[q] = IF q = r THEN Dir(copy, r) ELSE bundle[q]
    <3>. DEFINE put == Put(bundle, r, Dir(copy, r))
    <3>1. put \in [DOMAIN put -> Directory]
      BY <2>3, PutTyped DEF BuildInv, BuildTyped
    <3>2. DOMAIN put = DOMAIN bundle \cup {r}
      BY PutDomain
    <3>3. \A q \in DOMAIN bundle \cup {r} : put[q] = IF q = r THEN Dir(copy, r) ELSE bundle[q]
      BY PutAt
    <3>. HIDE DEF put
    <3>4. bundle' = put
      BY <2>1 DEF put
    <3>. QED
      BY <3>1, <3>2, <3>3, <3>4
  <2>5. /\ copy' \in [DOMAIN copy' -> Directory]
        /\ \A q : q # r => Dir(copy', q) = Dir(copy, q)
    BY <2>1, DropElsewhere, DropTyped DEF BuildInv, BuildTyped
  <2>6. r \notin DOMAIN bundle
    BY <1>3, <1>5 DEF Stored, Dir
  <2>7. r \notin shared => Loads(Dir(copy, r))
    BY <1>1 DEF Undisturbed, Loads, Sealed, Whole
  <2>8. Stored(r)'
    BY <1>2, <1>3, <1>5, <2>4, <2>6, <2>7 DEF Stored
  <2>9. Given(w.at, r, w.ok)'
    BY <1>1, <1>2, <2>2 DEF Given
  <2>10. ASSUME r \notin shared PROVE Undisturbed(w.at, r, w.left, w.err, w.ok)'
    <3>1. w.err = FALSE
      BY <1>1, <2>2, <2>10 DEF Undisturbed
    <3>. QED
      BY <2>2, <2>4, <3>1 DEF Undisturbed, Filled
  <2>. QED
    BY <1>1, <1>2, <2>2, <2>4, <2>5, <2>8, <2>9, <2>10, OneStep DEF BuildInv, BuildTyped
<1>. QED
  BY <1>4, <1>5

LEMMA LoadBundleKeeps ==
    ASSUME StoreInv, BuildInv, NEW u \in Callers, NEW r \in Catalogued,
           LoadBundle(u, r), UNCHANGED releaseVars
    PROVE  BuildInv'
<1>1. /\ Busy(u) /\ caller[u] \in Work /\ caller[u].release = r
      /\ r \notin shared => Undisturbed("load", r, caller[u].left, caller[u].err, caller[u].ok)
      /\ caller[u].ok => r \in returned
  BY AtPlace DEF Places, LoadBundle, Given
<1>2. PICK whole \in BOOLEAN : whole = Loads(Dir(bundle, r))
  BY DEF Loads
<1>3. /\ caller' = [caller EXCEPT ![u].at = "clean", ![u].ok = whole]
      /\ returned' = IF whole THEN returned \cup {r} ELSE returned
      /\ UNCHANGED <<staging, copy, bundle, contract, shared>>
  BY <1>2 DEF LoadBundle
<1>4. PICK w : w = [caller[u] EXCEPT !.at = "clean", !.ok = whole]
  OBVIOUS
<1>5. caller' = [caller EXCEPT ![u] = w]
  BY <1>1, <1>3, <1>4 DEF BuildInv, BuildTyped
<1>6. w \in Work /\ w.release = r /\ w.at = "clean" /\ w.ok = whole /\ w.err = caller[u].err
  BY <1>1, <1>4 DEF Work, Places
<1>7. Stored(r)
  BY DEF BuildInv
<1>8. whole => r \in DOMAIN bundle /\ Loads(bundle[r])
  BY <1>2 DEF Loads, Dir, Absent
<1>9. Stored(r)'
  BY <1>3, <1>7, <1>8 DEF Stored
<1>10. Given(w.at, r, w.ok)'
  BY <1>3, <1>6 DEF Given
<1>11. ASSUME r \notin shared PROVE Undisturbed(w.at, r, w.left, w.err, w.ok)'
  <2>1. r \in DOMAIN bundle /\ caller[u].err = FALSE
    BY <1>1, <1>11 DEF Undisturbed
  <2>2. Loads(Dir(bundle, r))
    BY <1>7, <1>11, <2>1 DEF Stored, Dir
  <2>3. w.ok = TRUE /\ w.err = FALSE
    BY <1>2, <1>6, <2>1, <2>2
  <2>. QED
    BY <1>6, <2>3 DEF Undisturbed, Filled
<1>. QED
  BY <1>1, <1>3, <1>5, <1>6, <1>9, <1>10, <1>11, OneStep DEF BuildInv, BuildTyped

LEMMA CompareContractKeeps ==
    ASSUME StoreInv, BuildInv, NEW u \in Callers, NEW r \in Catalogued,
           CompareContract(u, r), UNCHANGED releaseVars
    PROVE  BuildInv'
<1>1. /\ Busy(u) /\ caller[u] \in Work /\ caller[u].release = r
      /\ Given("compare", r, caller[u].ok)
      /\ r \notin shared => Undisturbed("compare", r, caller[u].left, caller[u].err, caller[u].ok)
  BY AtPlace DEF Places, CompareContract
<1>2. /\ UNCHANGED <<staging, copy, bundle, contract, returned, shared>>
      /\ Go(u, "files") \/ Rests(u)
  BY DEF CompareContract
<1>3. PICK w \in {AtRest} \cup Work :
          /\ caller' = [caller EXCEPT ![u] = w]
          /\ w # AtRest => /\ w.release = r /\ w.at = "files"
                           /\ w.ok = caller[u].ok /\ w.err = caller[u].err
  BY <1>1, <1>2, Moves DEF Places
<1>4. Stored(r)'
  BY <1>2 DEF BuildInv, Stored
<1>5. w # AtRest => Given(w.at, r, w.ok)'
  BY <1>1, <1>2, <1>3 DEF Given
<1>6. ASSUME w # AtRest, r \notin shared PROVE Undisturbed(w.at, r, w.left, w.err, w.ok)'
  <2>1. w.err = FALSE /\ w.at = "files"
    BY <1>1, <1>3, <1>6 DEF Undisturbed
  <2>. QED
    BY <2>1 DEF Undisturbed, Filled
<1>. QED
  BY <1>1, <1>2, <1>3, <1>4, <1>5, <1>6, OneStep DEF BuildInv, BuildTyped

(* The files of a contract, then its manifest. *)
LEMMA WriteContractKeeps ==
    ASSUME StoreInv, BuildInv, NEW u \in Callers, NEW r \in Catalogued,
           WriteContract(u, r), UNCHANGED releaseVars
    PROVE  BuildInv'
<1>1. UNCHANGED <<staging, copy, bundle, returned, shared>>
  BY DEF WriteContract
<1>2. contract = [files |-> contract.files, manifest |-> contract.manifest] /\ Stored(r)
  BY DEF BuildInv, BuildTyped
<1>3. CASE At(u, "files", r) /\ Go(u, "seal") /\ contract' = [contract EXCEPT !.files = @ \cup {r}]
  <2>1. /\ Busy(u) /\ caller[u] \in Work /\ caller[u].release = r
        /\ Given("files", r, caller[u].ok)
        /\ r \notin shared => Undisturbed("files", r, caller[u].left, caller[u].err, caller[u].ok)
    BY <1>3, AtPlace DEF Places
  <2>2. PICK w \in {AtRest} \cup Work :
            /\ caller' = [caller EXCEPT ![u] = w]
            /\ w.release = r /\ w.at = "seal" /\ w.ok = caller[u].ok /\ w.err = caller[u].err
    BY <1>3, <2>1, Moves DEF Places
  <2>3. /\ contract' = [files |-> contract.files \cup {r}, manifest |-> contract.manifest]
        /\ contract'.files = contract.files \cup {r} /\ contract'.manifest = contract.manifest
    BY <1>2, <1>3
  <2>4. Stored(r)'
    BY <1>1, <1>2, <2>3 DEF Stored
  <2>5. Given(w.at, r, w.ok)'
    BY <1>1, <2>1, <2>2, <2>3 DEF Given
  <2>6. ASSUME r \notin shared PROVE Undisturbed(w.at, r, w.left, w.err, w.ok)'
    <3>1. w.err = FALSE
      BY <2>1, <2>2, <2>6 DEF Undisturbed
    <3>. QED
      BY <2>2, <3>1 DEF Undisturbed, Filled
  <2>. QED
    BY <1>1, <2>1, <2>2, <2>3, <2>4, <2>5, <2>6, OneStep DEF BuildInv, BuildTyped
<1>4. CASE At(u, "seal", r) /\ Rests(u) /\ contract' = [contract EXCEPT !.manifest = @ \cup {r}]
  <2>1. /\ Busy(u) /\ caller[u] \in Work /\ caller[u].release = r
        /\ Given("seal", r, caller[u].ok)
    BY <1>4, AtPlace DEF Places
  <2>2. caller' = [caller EXCEPT ![u] = AtRest]
    BY <1>4 DEF Rests
  <2>3. /\ contract' = [files |-> contract.files, manifest |-> contract.manifest \cup {r}]
        /\ contract'.files = contract.files /\ contract'.manifest = contract.manifest \cup {r}
    BY <1>2, <1>4
  <2>4. Stored(r)'
    BY <1>1, <1>2, <2>1, <2>3 DEF Stored, Given
  <2>. QED
    BY <1>1, <2>1, <2>2, <2>3, <2>4, OneStep DEF BuildInv, BuildTyped
<1>. QED
  BY <1>3, <1>4 DEF WriteContract

(* A caller starts: alone, unless another one builds the release already.  *)
LEMMA MaterializeKeeps ==
    ASSUME StoreInv, BuildInv, NEW u \in Callers, NEW r \in Catalogued, Materialize(u, r)
    PROVE  BuildInv'
<1>1. PICK w : w = [at |-> "mkdir", release |-> r, left |-> {}, err |-> FALSE, ok |-> FALSE]
  OBVIOUS
<1>2. /\ ~Busy(u) /\ caller' = [caller EXCEPT ![u] = w]
      /\ shared' = IF Building(r) = {} THEN shared ELSE shared \cup {r}
      /\ staging' = Drop(staging, r)
      /\ UNCHANGED <<copy, bundle, contract, returned, catalog>>
  BY <1>1 DEF Materialize, storeVars
<1>3. Catalogued' = Catalogued /\ Work' = Work
  BY <1>2, LineageUnchanged DEF Work
<1>4. w \in Work /\ w.at = "mkdir" /\ w.release = r /\ w.err = FALSE /\ w.ok = FALSE
  BY <1>1 DEF Work, Places
<1>5. /\ staging' \in [DOMAIN staging' -> Directory]
      /\ \A q : q # r => Dir(staging', q) = Dir(staging, q)
      /\ Dir(staging', r) = Absent
  BY <1>2, DropHere, DropElsewhere, DropTyped DEF BuildInv, BuildTyped
<1>6. BuildTyped'
  BY <1>2, <1>3, <1>4, <1>5 DEF BuildInv, BuildTyped
<1>7. caller'[u] = w /\ \A v \in Callers : v # u => caller'[v] = caller[v]
  BY <1>2 DEF BuildInv, BuildTyped
<1>8. ASSUME NEW v \in Callers, v # u, Busy(v), caller[v].release \notin shared'
      PROVE  caller[v].release # r /\ caller[v].release \notin shared
  BY <1>2, <1>8 DEF Building
<1>9. Alone'
  <2>1. ASSUME NEW v \in Callers, NEW x \in Callers, Busy(v)', Busy(x)',
               caller'[v].release = caller'[x].release, caller'[v].release \notin shared'
        PROVE  v = x
    <3>1. CASE v = u \/ x = u
      BY <3>1, <2>1, <1>4, <1>7, <1>8 DEF Busy
    <3>2. CASE v # u /\ x # u
      BY <3>2, <2>1, <1>7, <1>8 DEF Busy, BuildInv, Alone
    <3>. QED
      BY <3>1, <3>2
  <2>. QED
    BY <2>1 DEF Alone
<1>10. \A q : Stored(q)'
  BY <1>2 DEF BuildInv, Stored
<1>11. ASSUME NEW v \in Callers PROVE Sound(caller[v])'
  <2>1. CASE v = u
    <3>1. Given(w.at, r, w.ok)'
      BY <1>4 DEF Given
    <3>2. Undisturbed(w.at, r, w.left, w.err, w.ok)'
      BY <1>4, <1>5 DEF Undisturbed, Filled
    <3>. QED
      BY <2>1, <1>4, <1>7, <3>1, <3>2 DEF Sound
  <2>2. CASE v # u /\ caller[v] # AtRest
    <3>. DEFINE q == caller[v].release
    <3>1. Given(caller[v].at, q, caller[v].ok)'
      <4>1. Given(caller[v].at, q, caller[v].ok)
        BY <2>2 DEF BuildInv, Sound
      <4>. QED
        BY <2>2, <1>2, <1>7, <4>1 DEF Given
    <3>2. ASSUME q \notin shared'
          PROVE  Undisturbed(caller[v].at, q, caller[v].left, caller[v].err, caller[v].ok)'
      <4>1. q # r /\ q \notin shared
        BY <2>2, <3>2, <1>8 DEF Busy
      <4>2. Undisturbed(caller[v].at, q, caller[v].left, caller[v].err, caller[v].ok)
        BY <2>2, <4>1 DEF BuildInv, Sound
      <4>. QED
        BY <2>2, <1>2, <1>5, <1>7, <4>1, <4>2 DEF Undisturbed
    <3>. QED
      BY <2>2, <1>7, <3>1, <3>2 DEF Sound
  <2>3. CASE v # u /\ caller[v] = AtRest
    BY <2>3, <1>7 DEF Sound
  <2>. QED
    BY <2>1, <2>2, <2>3
<1>. QED
  BY <1>6, <1>9, <1>10, <1>11 DEF BuildInv

(* A crash takes every caller from its work, and the directories stay.     *)
LEMMA StopKeeps ==
    ASSUME BuildInv, Stop, UNCHANGED <<staging, copy, bundle, contract, returned, shared>>
    PROVE  BuildInv'
<1>1. caller' = [u \in Callers |-> AtRest]
  BY DEF Stop
<1>2. BuildTyped' /\ Alone'
  BY <1>1 DEF BuildInv, BuildTyped, Alone, Busy
<1>3. \A q : Stored(q)'
  BY DEF BuildInv, Stored
<1>4. \A u \in Callers : Sound(caller[u])'
  BY <1>1 DEF Sound
<1>. QED
  BY <1>2, <1>3, <1>4 DEF BuildInv

LEMMA CatalogGrows ==
    ASSUME StoreInv, LoopStep \/ OtherStep
    PROVE  Catalogued \subseteq Catalogued'
<1>1. CASE PutRelease
  <2>1. catalog' = catalog \/ catalog' = Append(catalog, call.release)
    BY <1>1 DEF PutRelease
  <2>. QED
    BY <2>1, ToSetAppend DEF StoreInv, StoreTyped, Catalogued
<1>2. CASE ~PutRelease
  <2>1. UNCHANGED catalog
    BY <1>2 DEF LoopStep, OtherStep, Publish, Freeze, ApproveCase, PinCases, WriteFile, CloseWorkspace,
          Archive, DeleteArchived, ListDatasets, SetWorkspace, StartJob, RemoveFromCatalog, EndJob,
          ReadContent, BuildBundle, TransitionSlot, storeVars
  <2>. QED
    BY <2>1 DEF Catalogued
<1>. QED
  BY <1>1, <1>2

LEMMA OthersKeepBuild ==
    ASSUME BuildInv, UNCHANGED runtimeVars, Catalogued \subseteq Catalogued'
    PROVE  BuildInv'
<1>1. Work \subseteq Work'
  BY DEF Work
<1>2. BuildTyped'
  BY <1>1 DEF BuildInv, BuildTyped, runtimeVars
<1>3. Alone' /\ \A q : Stored(q)'
  BY DEF BuildInv, Alone, Busy, Stored, runtimeVars
<1>4. ASSUME NEW u \in Callers PROVE Sound(caller[u])'
  <2>1. Sound(caller[u])
    BY DEF BuildInv
  <2>. QED
    BY <2>1 DEF Sound, Given, Undisturbed, runtimeVars
<1>. QED
  BY <1>2, <1>3, <1>4 DEF BuildInv

LEMMA BuildInit ==
    ASSUME Init
    PROVE  BuildInv
<1>. USE DEF Init, Nowhere
<1>1. BuildTyped
  BY DEF BuildTyped
<1>2. Alone /\ \A q : Stored(q)
  BY DEF Alone, Busy, Stored
<1>3. \A u \in Callers : Sound(caller[u])
  BY DEF Sound
<1>. QED
  BY <1>1, <1>2, <1>3 DEF BuildInv

LEMMA BuildKeeps ==
    ASSUME StoreInv, BuildInv, NEW u \in Callers, NEW r \in Catalogued, Build(u, r), UNCHANGED releaseVars
    PROVE  BuildInv'
BY MakeStagingKeeps, WritePartKeeps, CopyPartKeeps, RegisterKeeps, DiscardCopyKeeps, ListSourceKeeps,
   WriteChecksumsKeeps, RenameCopyKeeps, LoadBundleKeeps, CleanStagingKeeps, CompareContractKeeps,
   WriteContractKeeps DEF Build

IInv == StoreInv /\ BuildInv

(* Releases and builders together: the step of one never breaks what the   *)
(* other relies on.                                                        *)
THEOREM Inductive == Spec => []IInv
<1>1. Init => IInv
  BY StoreInductive, BuildInit DEF IInv
<1>2. IInv /\ [Next]_vars => IInv'
  <2>. SUFFICES ASSUME IInv, [Next]_vars PROVE IInv'
    OBVIOUS
  <2>1. StoreInv' /\ StoreInv /\ BuildInv
    BY StoreInductive DEF IInv
  <2>2. CASE \E u \in Callers, r \in Catalogued : Materialize(u, r)
    BY <2>1, <2>2, MaterializeKeeps DEF IInv
  <2>3. CASE \E u \in Callers, r \in Catalogued : Build(u, r) /\ UNCHANGED releaseVars
    BY <2>1, <2>3, BuildKeeps DEF IInv
  <2>4. CASE (LoopStep \/ OtherStep) /\ UNCHANGED runtimeVars
    BY <2>1, <2>4, CatalogGrows, OthersKeepBuild DEF IInv
  <2>5. CASE Stop /\ UNCHANGED <<staging, copy, bundle, contract, returned, shared>>
    BY <2>1, <2>5, StopKeeps DEF IInv
  <2>6. CASE UNCHANGED vars
    <3>1. UNCHANGED runtimeVars /\ UNCHANGED catalog
      BY <2>6 DEF vars, releaseVars, storeVars
    <3>. QED
      BY <2>1, <3>1, LineageUnchanged, OthersKeepBuild DEF IInv
  <2>. QED
    BY <2>2, <2>3, <2>4, <2>5, <2>6 DEF Next
<1>. QED
  BY <1>1, <1>2, PTL DEF Spec

(* A bundle that nobody shared is whole wherever the process stopped, one  *)
(* that a caller was given stays whole even then, and a contract with a    *)
(* manifest has its files (DatasetBundleStore.register, publish_benchmark_ *)
(* dataset).                                                               *)
THEOREM BundlesAreWhole == Spec => []BundleIsWhole
<1>1. IInv => BundleIsWhole
  BY DEF IInv, BuildInv, Stored, BundleIsWhole
<1>. QED
  BY <1>1, Inductive, PTL

(* A caller that has a release to itself ends with a bundle, whatever a    *)
(* stopped attempt has left in the directories it uses.                    *)
THEOREM RebuildsSucceed == Spec => []RebuildSucceeds
<1>1. IInv => RebuildSucceeds
  <2>. SUFFICES ASSUME IInv, NEW u \in Callers, Busy(u), caller[u].at = "clean",
                       caller[u].release \notin shared
       PROVE  caller[u].ok
    BY DEF RebuildSucceeds
  <2>1. Undisturbed(caller[u].at, caller[u].release, caller[u].left, caller[u].err, caller[u].ok)
    BY DEF IInv, BuildInv, Sound, Busy
  <2>. QED
    BY <2>1 DEF Undisturbed
<1>. QED
  BY <1>1, Inductive, PTL
=============================================================================
