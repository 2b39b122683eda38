--------------------------- MODULE FormalReleases ---------------------------
(***************************************************************************)
(* The immutable Dataset Releases of one authoring workspace               *)
(* (datasets/formal.py): the publication writes the snapshots of a release *)
(* first and its catalog record last, each file in one rename, and may     *)
(* stop between any two.  Around it: the workspace that is archived and    *)
(* deleted, a background job with an old copy of it, the removal from the  *)
(* product catalog, the readers, the Portfolio slots and the Bundle 3.0    *)
(* that the scripts build.  A release is content-addressed: its value      *)
(* stands for its ID, and its parent is part of it.                        *)
(***************************************************************************)
EXTENDS FiniteSets, Naturals, Sequences, SequencesExt

CONSTANTS Cases, Versions, Slots,
          None,
          MaxCalls,   \* bound: requests and script calls
          MaxCrashes  \* bound: crashes of the platform process

ASSUME ReleaseAssumption ==
    /\ None \notin Cases \cup Versions \cup Slots
    /\ {MaxCalls, MaxCrashes} \subseteq Nat

VARIABLES
    approved,     \* cases with an approved-case file
    half,         \* cases whose Case revision only is frozen
    frozen,       \* cases whose Case and Gold revisions are frozen
    workspace,    \* state of authoring.json, or "deleted"
    staleJob,     \* a background job holds a copy of the open workspace
    marker,       \* version -> the cases its ledger freeze pins, {} before
    file,         \* kind -> the releases whose snapshot of that kind exists
    catalog,      \* the release records, oldest first
    removed,      \* releases with a removal marker
    legacy,       \* releases from before payload snapshots existed
    call,         \* the publication in hand
    slot,         \* Portfolio slot -> its current assignment
    bundles,      \* the Bundle 3.0 packages
    calls, crashes

workspaceVars == <<approved, half, frozen, workspace, staleJob>>
storeVars == <<marker, file, catalog, removed, legacy>>
portfolioVars == <<slot, bundles>>
boundVars == <<calls, crashes>>
releaseVars == <<workspaceVars, storeVars, call, portfolioVars, boundVars>>

(* Mutated form: the record is put before the snapshots. *)
StepAfterPutFirst ==
    [freeze |-> "put", put |-> "report", report |-> "canonical", canonical |-> "source",
     source |-> "payload", payload |-> "read_model", read_model |-> "close"]

(* The order in which freeze writes; "put" is the catalog record. *)
StepAfter ==
    [freeze |-> "report", report |-> "canonical", canonical |-> "source",
     source |-> "payload", payload |-> "read_model", read_model |-> "put",
     put |-> "close"]

Kinds == {"report", "canonical", "source", "payload", "read_model"}

Idle == [step |-> "idle"]
Publishing == call.step # "idle"

(* One more request, from a client or a script. *)
Called == calls < MaxCalls /\ calls' = calls + 1 /\ UNCHANGED crashes

Catalogued == ToSet(catalog)
Has(kind, r) == r \in file[kind]

-----------------------------------------------------------------------------
(* The lineage of a release: what is reached from it from parent to parent. *)

WithParents(S) == \A p \in S : p.parent = None \/ p.parent \in S

Chain(r) == {p \in Catalogued :
                \A S \in SUBSET Catalogued : r \in S /\ WithParents(S) => p \in S}

ChainCases(r) == UNION {p.cases : p \in Chain(r)}

(* The newest release of the lineage that pins a case: successors override. *)
Owner(r, c) ==
    CHOOSE p \in Chain(r) :
        /\ c \in p.cases
        /\ \A q \in Chain(r) : c \in q.cases => q \in Chain(p)

SlotsOf(r, c) ==
    {s \in Slots : /\ slot[s].state = "frozen" /\ slot[s].case = c
                   /\ slot[s].release \in Chain(r)}

-----------------------------------------------------------------------------
(* Reading a release.  The ledger goes with the workspace. *)

LedgerExists == workspace # "deleted"

PackedBy(r) == {b \in bundles : r \in Chain(b.target)}

(* _load_release_payload: snapshot, else ledger, else a Bundle 3.0. *)
HasPayload(r) == Has("payload", r) \/ LedgerExists \/ PackedBy(r) # {}

Buildable(r) == Has("canonical", r) /\ HasPayload(r)

Readable(r) == Has("read_model", r) \/ Buildable(r)

(* What materialize_runtime_bundle reads before it writes anything. *)
Runnable(r) == Has("canonical", r) /\ Has("source", r) /\ HasPayload(r)

-----------------------------------------------------------------------------
(* The publication, POST .../formal-releases.  It runs on the event loop:  *)
(* no other handler of the loop is between its steps.                      *)

(* The newest record, removed or not. *)
Predecessor == IF catalog = <<>> THEN None ELSE Last(catalog)

(* The preflight: Gold names the current revision of its Case. *)
Preflight == half \cap approved = {}

Publish(v) ==
    /\ Called /\ ~Publishing
    /\ workspace # "deleted" /\ approved # {} /\ Preflight
    /\ call' = [step |-> "freeze", version |-> v, cases |-> approved,
                parent |-> Predecessor, release |-> None]
    /\ UNCHANGED <<workspaceVars, storeVars, portfolioVars>>

(* One case after the other, its Case and then its Gold, unless an earlier *)
(* attempt at this version has pinned its cases.                           *)
Freeze(c) ==
    /\ call.step = "freeze" /\ marker[call.version] = {}
    /\ \/ half = {} /\ c \in call.cases \ frozen /\ half' = {c} /\ UNCHANGED frozen
       \/ c \in half /\ half' = {} /\ frozen' = frozen \cup {c}
    /\ UNCHANGED <<approved, workspace, staleJob, storeVars, call, portfolioVars, boundVars>>

PinCases ==
    /\ call.step = "freeze"
    /\ marker[call.version] # {} \/ call.cases \subseteq frozen
    /\ LET pinned == IF marker[call.version] = {} THEN call.cases ELSE marker[call.version]
       IN /\ marker' = [marker EXCEPT ![call.version] = pinned]
          /\ call' = [call EXCEPT !.step = StepAfter.freeze,
                        !.release = [version |-> call.version, parent |-> call.parent,
                                     cases |-> pinned]]
    /\ UNCHANGED <<workspaceVars, file, catalog, removed, legacy, portfolioVars, boundVars>>

(* A snapshot that exists is the same one: its name is the release's ID. *)
WriteFile ==
    /\ call.step \in Kinds
    /\ file' = [file EXCEPT ![call.step] = @ \cup {call.release}]
    /\ call' = [call EXCEPT !.step = StepAfter[@]]
    /\ UNCHANGED <<workspaceVars, marker, catalog, removed, legacy, portfolioVars, boundVars>>

(* A version names one release for ever, a removed one too. *)
PutRelease ==
    /\ call.step = "put"
    /\ LET same == {r \in Catalogued : r.version = call.version}
           refused == same # {} /\ (call.release \notin same \/ same \cap removed # {})
       IN IF refused
          THEN call' = Idle /\ UNCHANGED catalog
          ELSE /\ call' = [call EXCEPT !.step = StepAfter.put]
               /\ catalog' = IF same = {} THEN Append(catalog, call.release) ELSE catalog
    /\ UNCHANGED <<workspaceVars, marker, file, removed, legacy, portfolioVars, boundVars>>

CloseWorkspace ==
    /\ call.step = "close"
    /\ workspace' = "released"
    /\ call' = Idle
    /\ UNCHANGED <<approved, half, frozen, staleJob, storeVars, portfolioVars, boundVars>>

(* The process stops: the call is lost, and so are the jobs. *)
Crash ==
    /\ crashes < MaxCrashes
    /\ call' = Idle /\ staleJob' = FALSE
    /\ crashes' = crashes + 1
    /\ UNCHANGED <<approved, half, frozen, workspace, storeVars, portfolioVars, calls>>

-----------------------------------------------------------------------------
(* Other handlers of the event loop. *)

ApproveCase(c) ==
    /\ Called /\ ~Publishing /\ workspace \in {"open", "archived"} /\ c \notin approved
    /\ approved' = approved \cup {c}
    /\ UNCHANGED <<half, frozen, workspace, staleJob, storeVars, call, portfolioVars>>

SetWorkspace(state) ==
    /\ Called /\ ~Publishing
    /\ workspace' = state
    /\ UNCHANGED <<approved, half, frozen, staleJob, storeVars, call, portfolioVars>>

Archive == workspace \in {"open", "released"} /\ SetWorkspace("archived")

DeleteArchived == workspace = "archived" /\ SetWorkspace("deleted")

(* GET /authoring/datasets closes every workspace that has a release. *)
ListDatasets ==
    workspace \in {"open", "archived"} /\ catalog # <<>> /\ SetWorkspace("released")

RemoveFromCatalog(r) ==
    /\ Called /\ ~Publishing /\ r \in Catalogued \ removed
    /\ removed' = removed \cup {r}
    /\ UNCHANGED <<workspaceVars, marker, file, catalog, legacy, call, portfolioVars>>

(* Readers run in the pool; a release without a read model gets one. *)
ReadContent(r) ==
    /\ Called /\ r \in Catalogued /\ ~Has("read_model", r) /\ Readable(r)
    /\ file' = [file EXCEPT !["read_model"] = @ \cup {r}]
    /\ UNCHANGED <<workspaceVars, marker, catalog, removed, legacy, call, portfolioVars>>

(* A generation job keeps the dataset it was started with. *)
StartJob ==
    /\ Called /\ ~Publishing /\ workspace = "open" /\ ~staleJob
    /\ staleJob' = TRUE
    /\ UNCHANGED <<approved, half, frozen, workspace, storeVars, call, portfolioVars>>

(* _advance_state tests that copy, and only the order of the open states:  *)
(* a workspace closed in the meantime is open again.                       *)
EndJob ==
    /\ staleJob
    /\ staleJob' = FALSE
    /\ workspace' = IF workspace = "deleted" THEN workspace ELSE "open"
    /\ UNCHANGED <<approved, half, frozen, storeVars, call, portfolioVars, boundVars>>

-----------------------------------------------------------------------------
(* Portfolio slots and Bundle 3.0: scripts, in processes of their own. *)

(* Mutated form: a frozen slot may be blocked. *)
AllowedFrozenBlocked ==
    [planned  |-> {"authored", "blocked"}, authored |-> {"reviewed", "blocked"},
     reviewed |-> {"approved", "blocked"}, approved |-> {"frozen", "blocked"},
     frozen   |-> {"blocked"},             blocked  |-> {}]

Allowed ==
    [planned  |-> {"authored", "blocked"}, authored |-> {"reviewed", "blocked"},
     reviewed |-> {"approved", "blocked"}, approved |-> {"frozen", "blocked"},
     frozen   |-> {},                      blocked  |-> {}]

(* _validate_authoring_links: each assignment names its own revisions. *)
LinksValid(state, c, r) ==
    CASE state = "blocked"  -> TRUE
      [] state = "authored" -> LedgerExists
      [] state \in {"reviewed", "approved"} -> LedgerExists /\ c \in approved
      [] state = "frozen"   -> LedgerExists /\ r \in Catalogued /\ c \in r.cases

TransitionSlot(s) ==
    /\ Called
    /\ \E state \in Allowed[slot[s].state], c \in Cases, r \in Catalogued \cup {None} :
          /\ LinksValid(state, c, r)
          /\ (state # "frozen") <=> (r = None)
          /\ slot' = [slot EXCEPT ![s] = [state |-> state, case |-> c, release |-> r]]
    /\ UNCHANGED <<workspaceVars, storeVars, call, bundles>>

(* load_bundle_v3 on the staging: the slot names the owning release. *)
BindingValid(r, c, s) == slot[s].release = Owner(r, c)

BuildBundle(r) ==
    /\ Called /\ r \in Catalogued /\ LedgerExists
    /\ \A p \in Chain(r) : \A k \in {"report", "canonical", "source"} : Has(k, p)
    /\ \A c \in ChainCases(r) : Cardinality(SlotsOf(r, c)) = 1
    /\ LET of == [c \in ChainCases(r) |-> CHOOSE s \in SlotsOf(r, c) : TRUE]
       IN /\ \A c \in ChainCases(r) : BindingValid(r, c, of[c])
          /\ bundles' = bundles \cup {[target |-> r, slotOf |-> of]}
    /\ UNCHANGED <<workspaceVars, storeVars, call, slot>>

-----------------------------------------------------------------------------
NoFile == [k \in Kinds |-> {}]
Unassigned == [state |-> "planned", case |-> None, release |-> None]

(* A release put before payload snapshots and read models existed. *)
Legacy(v, S) == [version |-> v, parent |-> None, cases |-> S]

InitReleases ==
    /\ approved \in SUBSET Cases
    /\ slot \in [Slots -> {Unassigned} \cup
                    {[state |-> "approved", case |-> c, release |-> None] : c \in approved}]
    /\ \/ /\ frozen = {} /\ catalog = <<>> /\ file = NoFile
          /\ marker = [v \in Versions |-> {}]
       \/ /\ approved # {} /\ frozen = approved
          /\ \E v \in Versions :
                /\ catalog = <<Legacy(v, approved)>>
                /\ marker = [w \in Versions |-> IF w = v THEN approved ELSE {}]
                /\ file = [k \in Kinds |-> IF k \in {"report", "canonical", "source"}
                                           THEN {Legacy(v, approved)} ELSE {}]
    /\ half = {} /\ workspace = "open" /\ staleJob = FALSE
    /\ legacy = Catalogued
    /\ removed = {} /\ bundles = {}
    /\ call = Idle
    /\ calls = 0 /\ crashes = 0

LoopStep ==
    \/ \E v \in Versions : Publish(v)
    \/ \E c \in Cases : Freeze(c) \/ ApproveCase(c)
    \/ PinCases \/ WriteFile \/ PutRelease \/ CloseWorkspace
    \/ Archive \/ DeleteArchived \/ ListDatasets \/ StartJob
    \/ \E r \in Catalogued : RemoveFromCatalog(r)

(* Threads of the pool, and scripts. *)
OtherStep ==
    \/ EndJob
    \/ \E r \in Catalogued : ReadContent(r) \/ BuildBundle(r)
    \/ \E s \in Slots : TransitionSlot(s)

-----------------------------------------------------------------------------
(* Properties. *)

(* A release in the catalog is whole, whenever the process stopped: all    *)
(* its snapshots exist and pin frozen revisions, so that it can be read    *)
(* and run even after its workspace was archived and deleted.  Only one    *)
(* from before payload snapshots existed may need the workspace.           *)
CataloguedIsWhole ==
    \A r \in Catalogued :
        /\ r.cases \subseteq frozen
        /\ r.parent = None \/ r.parent \in Catalogued
        /\ r \notin legacy => Has("payload", r) /\ Readable(r) /\ Runnable(r)

(* Every case of a built Bundle 3.0 stays bound, for ever, to the slot it  *)
(* was built with, and that slot to the release that owns the case.        *)
BundleStaysBound ==
    \A b \in bundles : \A c \in ChainCases(b.target) :
        slot[b.slotOf[c]] = [state |-> "frozen", case |-> c, release |-> Owner(b.target, c)]
=============================================================================
