--------------------------- MODULE RuntimeBundles ---------------------------
(***************************************************************************)
(* The Bundle 2.0 that executes a formal release, and its benchmark        *)
(* contract.  POST .../benchmark-contract builds them in a thread of the   *)
(* pool, the preview or finalization of an evaluation draft on the event   *)
(* loop; all of them in the same directories, named after the release:     *)
(*   staging  .formal-runtime-<release>, which the caller fills;           *)
(*   copy     .<bundle>.staging, to which the bundle store copies it;      *)
(*   bundle   <bundle>, to which the copy is renamed.                      *)
(* Bundles are content-addressed: one release has one bundle.  A file, the *)
(* listing of a directory, its removal and its rename are one step each.   *)
(***************************************************************************)
EXTENDS FormalReleases

CONSTANT Threads  \* threads of the pool, one request each

VARIABLES
    staging, copy, bundle,  \* release -> directory
    contract,   \* release -> parts of its benchmark contract
    caller,     \* what each caller does
    returned,   \* releases whose bundle a caller was given
    shared      \* releases that two callers have built at once

runtimeVars == <<staging, copy, bundle, contract, caller, returned, shared>>
vars == <<releaseVars, runtimeVars>>

Callers == Threads \cup {"loop"}

(* documents/ with canonical/; manifest.json; questions and gold. *)
Parts == {"documents", "manifest", "tables"}

Absent == [there |-> FALSE, parts |-> {}, sums |-> {}]
Empty  == [Absent EXCEPT !.there = TRUE]

(* load_bundle: every part, and checksums.json, if any, agrees. *)
Loads(dir) == dir.there /\ dir.parts = Parts /\ dir.sums \in {{}, Parts}

Dir(dirs, r) == IF r \in DOMAIN dirs THEN dirs[r] ELSE Absent
Put(dirs, r, dir) == [p \in DOMAIN dirs \cup {r} |-> IF p = r THEN dir ELSE dirs[p]]
Drop(dirs, r) == [p \in DOMAIN dirs \ {r} |-> dirs[p]]

AtRest == [at |-> "rest"]
Busy(u) == caller[u] # AtRest
Building(r) == {u \in Callers : Busy(u) /\ caller[u].release = r}

(* u is at a step; its release is r. *)
At(u, step, r) == caller[u].at = step /\ caller[u].release = r
Go(u, to) == caller' = [caller EXCEPT ![u].at = to]
Rests(u) == caller' = [caller EXCEPT ![u] = AtRest]

-----------------------------------------------------------------------------
(* FormalDatasets.materialize_runtime_bundle.  It reads the release and    *)
(* clears what an earlier attempt has left.                                *)

Materialize(u, r) ==
    /\ Called /\ ~Busy(u) /\ Runnable(r)
    /\ u = "loop" => ~Publishing
    /\ caller' = [caller EXCEPT ![u] = [at |-> "mkdir", release |-> r, left |-> {},
                                       err |-> FALSE, ok |-> FALSE]]
    /\ shared' = IF Building(r) = {} THEN shared ELSE shared \cup {r}
    /\ staging' = Drop(staging, r)
    /\ UNCHANGED <<workspaceVars, storeVars, call, portfolioVars, copy, bundle, contract, returned>>

MakeStaging(u, r) ==
    /\ At(u, "mkdir", r)
    /\ IF Dir(staging, r).there THEN Rests(u) /\ UNCHANGED staging
       ELSE Go(u, "documents") /\ staging' = Put(staging, r, Empty)
    /\ UNCHANGED <<copy, bundle, contract, returned, shared>>

PartAfter == [documents |-> "manifest", manifest |-> "tables", tables |-> "register"]

(* The atomic write of the manifest makes the directories it needs. *)
WritePart(u, r, p) ==
    /\ At(u, p, r)
    /\ IF Dir(staging, r).there \/ p = "manifest"
       THEN /\ Go(u, PartAfter[p])
            /\ staging' = Put(staging, r, [Dir(staging, r) EXCEPT !.there = TRUE, !.parts = @ \cup {p}])
       ELSE Go(u, "clean") /\ UNCHANGED staging
    /\ UNCHANGED <<copy, bundle, contract, returned, shared>>

(* The finally: a thread that was given the bundle goes on to the contract. *)
CleanStaging(u, r) ==
    /\ At(u, "clean", r)
    /\ IF caller[u].ok /\ u # "loop" THEN Go(u, "compare") ELSE Rests(u)
    /\ staging' = Drop(staging, r)
    /\ UNCHANGED <<copy, bundle, contract, returned, shared>>

-----------------------------------------------------------------------------
(* DatasetBundleStore.register(staging). *)

Register(u, r) ==
    /\ At(u, "register", r)
    /\ Go(u, IF ~Loads(Dir(staging, r)) THEN "clean"
             ELSE IF Dir(bundle, r).there THEN "load" ELSE "discard")
    /\ UNCHANGED <<staging, copy, bundle, contract, returned, shared>>

(* Mutated form: the copy of a stopped attempt is kept. *)
DiscardNothing(u, r) ==
    /\ At(u, "discard", r) /\ Go(u, "list")
    /\ UNCHANGED <<staging, copy, bundle, contract, returned, shared>>

DiscardCopy(u, r) ==
    /\ At(u, "discard", r) /\ Go(u, "list")
    /\ copy' = Drop(copy, r)
    /\ UNCHANGED <<staging, bundle, contract, returned, shared>>

(* copytree lists the source and makes the copy's directory. *)
ListSource(u, r) ==
    /\ At(u, "list", r)
    /\ IF ~Dir(staging, r).there \/ Dir(copy, r).there
       THEN Go(u, "clean") /\ UNCHANGED copy
       ELSE /\ copy' = Put(copy, r, Empty)
            /\ caller' = [caller EXCEPT ![u].at = "copy", ![u].left = Dir(staging, r).parts]
    /\ UNCHANGED <<staging, bundle, contract, returned, shared>>

(* Mutated form: the files are copied straight to the bundle. *)
CopyPartInPlace(u, r, p) ==
    /\ At(u, "copy", r) /\ p \in caller[u].left
    /\ caller' = [caller EXCEPT ![u].left = @ \ {p}]
    /\ bundle' = Put(bundle, r, [Dir(bundle, r) EXCEPT !.there = TRUE, !.parts = @ \cup {p}])
    /\ UNCHANGED <<staging, copy, contract, returned, shared>>

(* It goes on after an error and raises at the end. *)
CopyPart(u, r, p) ==
    /\ At(u, "copy", r) /\ p \in caller[u].left
    /\ LET fails == p \notin Dir(staging, r).parts \/ ~Dir(copy, r).there
       IN /\ caller' = [caller EXCEPT ![u].left = @ \ {p}, ![u].err = @ \/ fails]
          /\ copy' = IF fails THEN copy
                     ELSE Put(copy, r, [Dir(copy, r) EXCEPT !.parts = @ \cup {p}])
    /\ UNCHANGED <<staging, bundle, contract, returned, shared>>

WriteChecksums(u, r) ==
    /\ At(u, "copy", r) /\ caller[u].left = {}
    /\ IF caller[u].err THEN Go(u, "clean") /\ UNCHANGED copy
       ELSE /\ Go(u, "rename")
            /\ copy' = Put(copy, r, [Dir(copy, r) EXCEPT !.there = TRUE, !.sums = Dir(copy, r).parts])
    /\ UNCHANGED <<staging, bundle, contract, returned, shared>>

RenameCopy(u, r) ==
    /\ At(u, "rename", r)
    /\ IF ~Dir(copy, r).there \/ Dir(bundle, r).there
       THEN Go(u, "clean") /\ UNCHANGED <<copy, bundle>>
       ELSE /\ Go(u, "load")
            /\ bundle' = Put(bundle, r, Dir(copy, r))
            /\ copy' = Drop(copy, r)
    /\ UNCHANGED <<staging, contract, returned, shared>>

(* The loop seals an experiment with the bundle it is given. *)
LoadBundle(u, r) ==
    /\ At(u, "load", r)
    /\ LET whole == Loads(Dir(bundle, r))
       IN /\ caller' = [caller EXCEPT ![u].at = "clean", ![u].ok = whole]
          /\ returned' = IF whole THEN returned \cup {r} ELSE returned
    /\ UNCHANGED <<staging, copy, bundle, contract, shared>>

(* publish_benchmark_dataset: a published contract is only compared. *)
CompareContract(u, r) ==
    /\ At(u, "compare", r)
    /\ IF r \in contract.manifest THEN Rests(u) ELSE Go(u, "files")
    /\ UNCHANGED <<staging, copy, bundle, contract, returned, shared>>

WriteContract(u, r) ==
    /\ \/ At(u, "files", r) /\ Go(u, "seal") /\ contract' = [contract EXCEPT !.files = @ \cup {r}]
       \/ At(u, "seal", r) /\ Rests(u) /\ contract' = [contract EXCEPT !.manifest = @ \cup {r}]
    /\ UNCHANGED <<staging, copy, bundle, returned, shared>>

-----------------------------------------------------------------------------
Nowhere == <<>>

Init ==
    /\ InitReleases
    /\ staging = Nowhere /\ copy = Nowhere /\ bundle = Nowhere
    /\ contract = [files |-> {}, manifest |-> {}]
    /\ caller = [u \in Callers |-> AtRest]
    /\ returned = {} /\ shared = {}

Build(u, r) ==
    \/ MakeStaging(u, r) \/ (\E p \in Parts : WritePart(u, r, p) \/ CopyPart(u, r, p))
    \/ Register(u, r) \/ DiscardCopy(u, r) \/ ListSource(u, r) \/ WriteChecksums(u, r)
    \/ RenameCopy(u, r) \/ LoadBundle(u, r) \/ CleanStaging(u, r)
    \/ CompareContract(u, r) \/ WriteContract(u, r)

Stop == Crash /\ caller' = [u \in Callers |-> AtRest]

(* A handler of the loop runs to its end before the next one. *)
Next ==
    \/ \E u \in Callers, r \in Catalogued :
          Materialize(u, r) \/ (Build(u, r) /\ UNCHANGED releaseVars)
    \/ ((~Busy("loop") /\ LoopStep) \/ OtherStep) /\ UNCHANGED runtimeVars
    \/ Stop /\ UNCHANGED <<staging, copy, bundle, contract, returned, shared>>

Spec == Init /\ [][Next]_vars

-----------------------------------------------------------------------------
(* A bundle is whole as long as no two calls have built it at once, wherever *)
(* the process was stopped; one that a caller was given stays whole even   *)
(* then, and a contract with a manifest has all its files.                 *)
BundleIsWhole ==
    /\ \A r \in DOMAIN bundle : r \in returned \/ r \notin shared => Loads(bundle[r])
    /\ returned \subseteq DOMAIN bundle
    /\ contract.manifest \subseteq contract.files \cap returned

(* Nothing that a stopped attempt has left makes a later one fail. *)
RebuildSucceeds ==
    \A u \in Callers : Busy(u) /\ caller[u].at = "clean" /\ ~caller[u].ok
                        => caller[u].release \in shared

=============================================================================
