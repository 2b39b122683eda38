--------------------------- MODULE AuthoringLedger --------------------------
(***************************************************************************)
(* One question of an authoring workspace, from its draft to the formal    *)
(* release (authoring/workflow.py, authoring/ledger.py and the publication *)
(* path of datasets/formal.py).  The same question is kept three times:    *)
(*   - the candidate file, which the product shows and edits;              *)
(*   - the append-only revisions of a Case (the question) and of its Gold  *)
(*     (the answer), which carry the review and approval lineage;          *)
(*   - the approved-case file, which the Bundle 2.0 exporter reads.        *)
(* A handler is a fixed sequence of small file writes without transaction: *)
(* it is a call whose `left` names the steps it has still to make.  A step *)
(* that raises ends the call there, a crash ends every call there.  All    *)
(* API handlers run on the event loop, one after the other (actor "loop"); *)
(* a generation job runs in a pool thread (actor "job") with the copy of   *)
(* the dataset it was started with.                                        *)
(*                                                                         *)
(* Abstracted: question and answer texts are model values; a quality gate  *)
(* passes or fails; the candidate's version and the audit records that no  *)
(* check reads (events, reports, ReviewRecord) are left out.               *)
(***************************************************************************)
EXTENDS Naturals, Sequences, FiniteSets

CONSTANTS Questions,    \* question texts
          Answers,      \* answers with their evidence
          Author,       \* actor_from_candidate: who writes the proposals
          Nothing,      \* an absent file
          Acceptors,    \* names an accepting review request may carry
          Editors,      \* names an editing or rejecting one may carry
          WithJob,      \* TRUE: a generation job writes the question
          Legacy,       \* states of candidates older than the ledger
          MaxCalls,     \* bound: handlers started on the event loop
          MaxRevisions, \* bound: revisions of the Case, and of the Gold
          MaxCrashes    \* bound: crashes of the platform process

ASSUME WithJobAssumption == WithJob \in BOOLEAN

Reviewers == Acceptors \cup Editors
Kinds    == {"case", "gold"}
Actors   == {"loop", "job"}
NoAnswer == "no answer"
Importer == "existing-authoring-projection"

CandidateStates == {"draft", "review_required", "approved", "rejected", "blocked"}
Lifecycles == {"draft", "proposed", "reviewed", "approved", "frozen", "rejected"}

(* A candidate from before the ledger is read through CandidateState. *)
ASSUME LegacyAssumption == Legacy \subseteq CandidateStates

(* What a candidate file holds.  An answer is not its own absence, and a   *)
(* missing file (None in the code) is not one that holds something.        *)
Contents == [q : Questions, a : Answers \cup {NoAnswer}, state : CandidateStates]
ASSUME ContentsAssumption == NoAnswer \notin Answers /\ Nothing \notin Contents

VARIABLES
    candidate,    \* the candidate file, or Nothing
    approvedCase, \* the approved-case file, or Nothing
    hist,         \* hist[k]: the revision files of kind k, in order
    reviews,      \* Review records of the ledger
    approvals,    \* Approval records of the ledger
    marker,       \* the freeze marker of the formal version, or Nothing
    exported,     \* the freeze marker of the Bundle 2.0 export exists
    release,      \* the formal release, or Nothing
    closed,       \* the workspace is formal_released
    call,         \* call[a]: the handler actor a executes
    undisturbed,  \* history: no call was cut short or overlapped another
    calls, crashes

vars == <<candidate, approvedCase, hist, reviews, approvals, marker, exported,
          release, closed, call, undisturbed, calls, crashes>>
ledgerVars   == <<hist, reviews, approvals>>
fileVars     == <<candidate, approvedCase>>
releaseVars  == <<marker, exported, release>>
boundVars    == <<calls, crashes>>

Idle == [op |-> "none", who |-> Author, read |-> Nothing, next |-> Nothing,
         at |-> [k \in Kinds |-> 0], left |-> <<>>]

Busy(a) == call[a].left # <<>>

Current(k) == hist[k][Len(hist[k])]
Target(a, k) == hist[k][call[a].at[k]]

-----------------------------------------------------------------------------
(* The steps of each handler. *)

(* _legacy_lifecycle *)
LegacyLifecycle(state) ==
    CASE state = "review_required"       -> "proposed"
      [] state \in {"approved", "rejected"} -> state
      [] state \in {"draft", "blocked"}  -> "draft"

(* _ensure_ledger_candidate: a candidate without a Case is projected into  *)
(* the ledger before anything else happens to it.                          *)
ProjectionSteps(c) ==
    LET kept == LegacyLifecycle(c.state)
        Of(k) == <<<<"import", k>>>> \o
                 (IF kept = "draft" THEN <<>> ELSE <<<<"adopt", k>>>>)
    IN IF hist["case"] # <<>> THEN <<>>
       ELSE Of("case") \o (IF c.a = NoAnswer THEN <<>> ELSE Of("gold"))

CreateSteps == <<<<"save", "case">>, <<"create", "case">>, <<"advance", "case">>>>

(* _record_ledger_resolution follows the save. *)
ResolveSteps(next) ==
    IF next.state = "review_required"
    THEN <<<<"save", "case">>, <<"submit", "case">>, <<"revise", "gold">>,
           <<"propose", "gold">>, <<"advance", "case">>>>
    ELSE <<<<"save", "case">>, <<"hold", "case">>, <<"revise", "gold">>,
           <<"advance", "case">>>>

(* review(accept): the reviews, the reviewed and the approved revisions of *)
(* Case and Gold, then the two compatibility files.                        *)
AcceptSteps ==
    <<<<"check", "case">>, <<"review", "case">>, <<"review", "gold">>,
      <<"mark", "case">>, <<"mark", "gold">>,
      <<"approve", "case">>, <<"promote", "case">>,
      <<"approve", "gold">>, <<"promote", "gold">>,
      <<"save", "case">>, <<"file", "case">>, <<"advance", "case">>>>

RejectSteps ==
    <<<<"open", "case">>, <<"review", "case">>, <<"turn down", "case">>,
      <<"branch", "gold">>, <<"save", "case">>>>

(* Mutated form: the edited Case is not proposed again. *)
EditStepsWithoutProposal(next) ==
    <<<<"save", "case">>, <<"open", "case">>, <<"review", "case">>,
      <<"revise", "case">>>>
    \o (IF next.a = NoAnswer THEN <<>> ELSE <<<<"branch", "gold">>>>)

(* review(edit) saves the candidate first, then revises the ledger. *)
EditSteps(next) ==
    <<<<"save", "case">>, <<"open", "case">>, <<"review", "case">>,
      <<"revise", "case">>>>
    \o (IF next.a = NoAnswer THEN <<>> ELSE <<<<"branch", "gold">>>>)
    \o (IF next.state # "review_required" THEN <<>>
        ELSE <<<<"propose", "case">>, <<"propose", "gold">>>>)

FreezeSteps == <<<<"select", "case">>, <<"freeze", "case">>, <<"freeze", "gold">>>>

-----------------------------------------------------------------------------
(* Steps that succeed, and steps that raise. *)

StepIs(a, name, k) == Busy(a) /\ Head(call[a].left) = <<name, k>>

(* A call that has made its last step is over. *)
Settle(a, c) == call' = [call EXCEPT ![a] = IF c.left = <<>> THEN Idle ELSE c]

Proceed(a) == Settle(a, [call[a] EXCEPT !.left = Tail(@)])
Hold(a, k, n) == Settle(a, [call[a] EXCEPT !.left = Tail(@), !.at[k] = n])
Lengths == [k \in Kinds |-> Len(hist[k])]

(* The exception reaches the route as a 400; what was written stays. *)
Raise(a) ==
    /\ call' = [call EXCEPT ![a] = Idle]
    /\ undisturbed' = FALSE
    /\ UNCHANGED <<ledgerVars, fileVars, releaseVars, closed, boundVars>>

Revision(life, text, actor, pin) ==
    [life |-> life, text |-> text, actor |-> actor, pin |-> pin]

Text(k, c) == IF k = "case" THEN c.q ELSE c.a

(* _append: revision n is written unless that file exists already. *)
Appending(k, n, rev) ==
    /\ n <= MaxRevisions
    /\ n = Len(hist[k]) + 1
    /\ hist' = [hist EXCEPT ![k] = Append(@, rev)]

PathTaken(k, n) == n <= Len(hist[k])

(* Writes revision n and goes on with it in hand, or raises. *)
WriteRevision(a, k, n, rev) ==
    \/ /\ Appending(k, n, rev) /\ Hold(a, k, n)
       /\ UNCHANGED <<fileVars, reviews, approvals, releaseVars, closed,
                      undisturbed, boundVars>>
    \/ PathTaken(k, n) /\ Raise(a)

(* The Case revision a new Gold revision pins: the one the call holds when *)
(* it passes one, otherwise the current Case.                              *)
PinOf(a, k) ==
    IF k = "case" THEN 0
    ELSE IF Head(call[a].left)[1] \in {"revise", "freeze", "import"}
         THEN call[a].at["case"]
         ELSE Len(hist["case"])

(* The revision after the one held, with a new lifecycle. *)
Succeed(a, k, life, actor) ==
    WriteRevision(a, k, call[a].at[k] + 1,
                  Revision(life, Target(a, k).text, actor, PinOf(a, k)))

(* The revision after the current one. *)
SucceedCurrent(a, k, life, text, actor) ==
    WriteRevision(a, k, Len(hist[k]) + 1, Revision(life, text, actor, PinOf(a, k)))

HoldCurrent(a, k) ==
    /\ Hold(a, k, Len(hist[k]))
    /\ UNCHANGED <<ledgerVars, fileVars, releaseVars, closed, undisturbed, boundVars>>

-----------------------------------------------------------------------------
(* What the steps do. *)

Save(a) ==
    /\ StepIs(a, "save", "case")
    /\ candidate' = call[a].next
    /\ Proceed(a)
    /\ UNCHANGED <<approvedCase, ledgerVars, releaseVars, closed, undisturbed,
                   boundVars>>

(* project_existing_candidate: a first draft, then the lifecycle the       *)
(* candidate's state stands for.                                           *)
Import(a, k) ==
    /\ StepIs(a, "import", k)
    /\ WriteRevision(a, k, 1,
           Revision("draft", Text(k, call[a].read), Importer, PinOf(a, k)))

Adopt(a, k) ==
    /\ StepIs(a, "adopt", k)
    /\ Succeed(a, k, LegacyLifecycle(call[a].read.state), Importer)

CreateCase(a) ==
    /\ StepIs(a, "create", "case")
    /\ WriteRevision(a, "case", 1, Revision("draft", call[a].next.q, Author, 0))

(* Take the current revision; a draft is proposed first, by its own author. *)
Open(a, k) ==
    /\ StepIs(a, "open", k)
    /\ IF Current(k).life = "draft"
       THEN SucceedCurrent(a, k, "proposed", Current(k).text, Current(k).actor)
       ELSE HoldCurrent(a, k)

(* _record_ledger_resolution proposes a Case that is draft or rejected. *)
Submit(a) ==
    /\ StepIs(a, "submit", "case")
    /\ IF Current("case").life \in {"draft", "rejected"}
       THEN SucceedCurrent(a, "case", "proposed", Current("case").text, Author)
       ELSE HoldCurrent(a, "case")

HoldCase(a) == StepIs(a, "hold", "case") /\ HoldCurrent(a, "case")

(* propose_case, propose_gold: of whatever the current revision is by then. *)
Propose(a, k) ==
    /\ StepIs(a, "propose", k)
    /\ IF Current(k).life \in {"draft", "rejected"}
       THEN SucceedCurrent(a, k, "proposed", Current(k).text, Author)
       ELSE Raise(a)

Revisable(k) == hist[k] = <<>> \/ Current(k).life # "frozen"

(* revise_case, revise_gold, and create_gold where there is no Gold yet. *)
Revise(a, k) ==
    /\ StepIs(a, "revise", k)
    /\ IF ~Revisable(k)
       THEN Raise(a)
       ELSE SucceedCurrent(a, k, "draft", Text(k, call[a].next), Author)

Decision(op) == CASE op = "accept" -> "approve"
                  [] op = "reject" -> "reject"
                  [] op = "edit"   -> "request_changes"

(* record_review: of a proposed or reviewed revision, by another person. *)
Review(a, k) ==
    /\ StepIs(a, "review", k)
    /\ IF Target(a, k).life \in {"proposed", "reviewed"}
          /\ call[a].who # Target(a, k).actor
       THEN /\ reviews' = reviews \cup {[kind |-> k, rev |-> call[a].at[k],
                  who |-> call[a].who, decision |-> Decision(call[a].op)]}
            /\ Proceed(a)
            /\ UNCHANGED <<hist, approvals, fileVars, releaseVars, closed,
                           undisturbed, boundVars>>
       ELSE Raise(a)

TurnDown(a, k) ==
    StepIs(a, "turn down", k) /\ Succeed(a, k, "rejected", call[a].who)

(* mark_reviewed *)
MarkReviewed(a, k) ==
    /\ StepIs(a, "mark", k)
    /\ IF Target(a, k).life = "proposed"
          /\ \E r \in reviews : /\ r.kind = k /\ r.rev = call[a].at[k]
                                /\ r.decision = "approve"
       THEN Succeed(a, k, "reviewed", Target(a, k).actor)
       ELSE Raise(a)

(* approve: the Approval record, then the approved revision. *)
Approve(a, k) ==
    /\ StepIs(a, "approve", k)
    /\ IF Target(a, k).life = "reviewed" /\ call[a].who # Target(a, k).actor
       THEN /\ approvals' = approvals \cup
                  {[kind |-> k, rev |-> call[a].at[k], who |-> call[a].who]}
            /\ Proceed(a)
            /\ UNCHANGED <<hist, reviews, fileVars, releaseVars, closed,
                           undisturbed, boundVars>>
       ELSE Raise(a)

Promote(a, k) ==
    StepIs(a, "promote", k) /\ Succeed(a, k, "approved", Target(a, k).actor)

(* The checks of _formal_accept; nothing is written yet when they raise. *)
CheckAccept(a) ==
    /\ StepIs(a, "check", "case")
    /\ IF /\ hist["gold"] # <<>>
          /\ call[a].who \notin {Current("case").actor, Current("gold").actor}
       THEN Settle(a, [call[a] EXCEPT !.left = Tail(@), !.at = Lengths])
       ELSE call' = [call EXCEPT ![a] = Idle]
    /\ UNCHANGED <<ledgerVars, fileVars, releaseVars, closed, undisturbed, boundVars>>

(* What a rejection and an edit do to the Gold depends on its history. *)
GoldSteps(op) ==
    CASE op = "edit" /\ hist["gold"] = <<>> -> <<<<"revise", "gold">>>>
      [] op = "edit" /\ hist["gold"] # <<>> ->
            <<<<"open", "gold">>, <<"review", "gold">>, <<"revise", "gold">>>>
      [] op = "reject" ->
            IF hist["gold"] # <<>>
               /\ Current("gold").life \in {"draft", "proposed", "reviewed"}
            THEN <<<<"open", "gold">>, <<"review", "gold">>, <<"turn down", "gold">>>>
            ELSE <<>>

BranchOnGold(a) ==
    /\ StepIs(a, "branch", "gold")
    /\ Settle(a, [call[a] EXCEPT !.left = GoldSteps(call[a].op) \o Tail(@)])
    /\ UNCHANGED <<ledgerVars, fileVars, releaseVars, closed, undisturbed, boundVars>>

FileApproved(a) ==
    /\ StepIs(a, "file", "case")
    /\ approvedCase' = [q |-> call[a].next.q, a |-> call[a].next.a]
    /\ Proceed(a)
    /\ UNCHANGED <<candidate, ledgerVars, releaseVars, closed, undisturbed, boundVars>>

(* _advance_state: formal_released is in none of its tables, so a call     *)
(* that started before the publication takes the workspace out of it.      *)
Advance(a) ==
    /\ StepIs(a, "advance", "case")
    /\ closed' = FALSE
    /\ Proceed(a)
    /\ UNCHANGED <<ledgerVars, fileVars, releaseVars, undisturbed, boundVars>>

-----------------------------------------------------------------------------
(* Freezing and publication. *)

(* Mutated form: the approval lineage is not looked at. *)
LineageUnchecked(k, rev) == TRUE

(* _review_approval: somebody else approved some revision of the entity,   *)
(* and somebody reviewed one.                                              *)
LineageApproved(k, rev) ==
    LET approving == {x \in approvals : x.kind = k}
    IN /\ approving # {}
       /\ \A x \in approving : x.who # rev.actor
       /\ \E r \in reviews : r.kind = k

(* The findings of FormalDatasetValidator.validate that depend on the      *)
(* ledger, for Case revision c and Gold revision g.                        *)
Valid(at, lives) ==
    /\ \A k \in Kinds : /\ hist[k][at[k]].life \in lives
                        /\ LineageApproved(k, hist[k][at[k]])
    /\ hist["gold"][at["gold"]].pin = at["case"]

(* freeze_release: both current revisions must be approved or frozen. *)
Select(a) ==
    /\ StepIs(a, "select", "case")
    /\ IF \A k \in Kinds : hist[k] # <<>> /\ Current(k).life \in {"approved", "frozen"}
       THEN /\ Settle(a, [call[a] EXCEPT !.left = Tail(@), !.at = Lengths])
            /\ UNCHANGED <<ledgerVars, fileVars, releaseVars, closed,
                           undisturbed, boundVars>>
       ELSE Raise(a)

Freeze(a, k) ==
    /\ StepIs(a, "freeze", k)
    /\ IF Target(a, k).life = "frozen"
       THEN /\ Proceed(a)
            /\ UNCHANGED <<ledgerVars, fileVars, releaseVars, closed,
                           undisturbed, boundVars>>
       ELSE Succeed(a, k, "frozen", Target(a, k).actor)

MarkFrozen(a) ==
    /\ StepIs(a, "pin", "case")
    /\ marker' = call[a].at
    /\ Proceed(a)
    /\ UNCHANGED <<ledgerVars, fileVars, exported, release, closed, undisturbed, boundVars>>

MarkExported(a) ==
    /\ StepIs(a, "export", "case")
    /\ exported' = TRUE
    /\ Proceed(a)
    /\ UNCHANGED <<ledgerVars, fileVars, marker, release, closed, undisturbed, boundVars>>

ValidateFrozen(a) ==
    /\ StepIs(a, "validate", "case")
    /\ IF Valid(call[a].at, {"frozen"})
       THEN /\ Proceed(a)
            /\ UNCHANGED <<ledgerVars, fileVars, releaseVars, closed,
                           undisturbed, boundVars>>
       ELSE Raise(a)

(* releases.put: a second release of the version has the first one as its  *)
(* parent, hence another digest, and is refused.                           *)
PutRelease(a) ==
    /\ StepIs(a, "put", "case")
    /\ IF release = Nothing
       THEN /\ release' = call[a].at
            /\ Proceed(a)
            /\ UNCHANGED <<ledgerVars, fileVars, marker, exported, closed,
                           undisturbed, boundVars>>
       ELSE Raise(a)

MarkReleased(a) ==
    /\ StepIs(a, "close", "case")
    /\ closed' = TRUE
    /\ Proceed(a)
    /\ UNCHANGED <<ledgerVars, fileVars, releaseVars, undisturbed, boundVars>>

(* GET /authoring/datasets closes a workspace whose release exists. *)
ListDatasets ==
    /\ ~Busy("loop") /\ release # Nothing /\ ~closed
    /\ closed' = TRUE
    /\ UNCHANGED <<fileVars, ledgerVars, releaseVars, call, undisturbed, boundVars>>

-----------------------------------------------------------------------------
(* The handlers. *)

(* The job waits for the model: it has no write in hand. *)
Asking == Busy("job") /\ Head(call["job"].left)[1] = "ask"
JobWrites == Busy("job") /\ ~Asking

Start(op, who, read, next, at, left) ==
    /\ ~Busy("loop") /\ calls < MaxCalls /\ left # <<>>
    /\ call' = [call EXCEPT !["loop"] = [op |-> op, who |-> who, read |-> read,
                                         next |-> next, at |-> at, left |-> left]]
    /\ calls' = calls + 1
    /\ undisturbed' = (undisturbed /\ ~JobWrites)
    /\ UNCHANGED <<fileVars, ledgerVars, releaseVars, closed, crashes>>

Origin == [k \in Kinds |-> 0]

Draft(q) == [q |-> q, a |-> NoAnswer, state |-> "draft"]

CreateQuestion(q) ==
    /\ candidate = Nothing /\ ~Busy("job") /\ ~closed
    /\ Start("create", Author, Nothing, Draft(q), Origin, CreateSteps)

(* The outcome of the quality gates. *)
Gated(q, a) == {[q |-> q, a |-> a, state |-> s] : s \in {"review_required", "blocked"}}

Resolve(a) ==
    /\ candidate # Nothing /\ ~closed
    /\ \E next \in Gated(candidate.q, a) :
          Start("resolve", Author, candidate, next, Origin,
                ProjectionSteps(candidate) \o
                IF candidate.state \in {"approved", "rejected"} THEN <<>>
                ELSE ResolveSteps(next))

Accept(who) ==
    /\ candidate # Nothing /\ ~closed
    /\ Start("accept", who, candidate, [candidate EXCEPT !.state = "approved"], Origin,
             ProjectionSteps(candidate) \o
             IF candidate.state # "review_required" THEN <<>> ELSE AcceptSteps)

Reject(who) ==
    /\ candidate # Nothing /\ ~closed
    /\ Start("reject", who, candidate, [candidate EXCEPT !.state = "rejected"], Origin,
             ProjectionSteps(candidate) \o
             IF candidate.state = "approved" THEN <<>> ELSE RejectSteps)

(* A new question, a new answer, or both. *)
Edit(who, q, a) ==
    /\ candidate # Nothing /\ ~closed
    /\ a = NoAnswer => candidate.a = NoAnswer
    /\ q # candidate.q \/ a # candidate.a
    /\ \E next \in IF a = NoAnswer THEN {Draft(q)} ELSE Gated(q, a) :
          Start("edit", who, candidate, next, Origin,
                ProjectionSteps(candidate) \o
                IF candidate.state = "approved" THEN <<>> ELSE EditSteps(next))

Export ==
    /\ approvedCase # Nothing /\ ~closed /\ ~exported
    /\ LET c == [q |-> approvedCase.q, a |-> approvedCase.a, state |-> "approved"]
       IN Start("export", Author, c, c, Origin,
                ProjectionSteps(c) \o FreezeSteps \o
                <<<<"export", "case">>, <<"advance", "case">>>>)

(* The preflight has passed; a marker of the version is used as it is. *)
Publish ==
    /\ approvedCase # Nothing
    /\ \A k \in Kinds : hist[k] # <<>>
    /\ Valid(Lengths, {"reviewed", "approved", "frozen"})
    /\ Start("publish", Author, Nothing, Nothing,
             IF marker = Nothing THEN Origin ELSE marker,
             (IF marker = Nothing THEN FreezeSteps \o <<<<"pin", "case">>>> ELSE <<>>)
             \o <<<<"validate", "case">>, <<"put", "case">>, <<"close", "case">>>>)

(* generate_question_and_answer in a pool thread: the question is saved,   *)
(* then the model is asked for the answer.                                 *)
JobCreates(q) ==
    /\ WithJob /\ candidate = Nothing /\ ~Busy("job") /\ ~Busy("loop")
    /\ call' = [call EXCEPT !["job"] = [Idle EXCEPT !.op = "resolve", !.next = Draft(q),
                                          !.left = CreateSteps \o <<<<"ask", "case">>>>]]
    /\ UNCHANGED <<fileVars, ledgerVars, releaseVars, closed, undisturbed, boundVars>>

(* resolve_answer_evidence with the model's answer, on the candidate as it *)
(* is by then.                                                             *)
JobAnswers(a) ==
    /\ Asking
    /\ IF candidate.state \in {"approved", "rejected"}
       THEN /\ call' = [call EXCEPT !["job"] = Idle]
            /\ UNCHANGED undisturbed
       ELSE /\ \E next \in Gated(candidate.q, a) :
                  call' = [call EXCEPT !["job"].read = candidate, !["job"].next = next,
                                       !["job"].left = ProjectionSteps(candidate)
                                                       \o ResolveSteps(next)]
            /\ undisturbed' = (undisturbed /\ ~Busy("loop"))
    /\ UNCHANGED <<fileVars, ledgerVars, releaseVars, closed, boundVars>>

Crash ==
    /\ crashes < MaxCrashes
    /\ \E a \in Actors : Busy(a)
    /\ call' = [a \in Actors |-> Idle]
    /\ undisturbed' = (undisturbed /\ ~Busy("loop") /\ ~JobWrites)
    /\ crashes' = crashes + 1
    /\ UNCHANGED <<fileVars, ledgerVars, releaseVars, closed, calls>>

-----------------------------------------------------------------------------
(* A new workspace, or one written before the ledger existed. *)
Init ==
    /\ candidate \in {Nothing} \cup [q : Questions, a : Answers, state : Legacy]
    /\ approvedCase = IF candidate = Nothing \/ candidate.state # "approved" THEN Nothing
                      ELSE [q |-> candidate.q, a |-> candidate.a]
    /\ hist = [k \in Kinds |-> <<>>]
    /\ reviews = {} /\ approvals = {}
    /\ marker = Nothing /\ exported = FALSE /\ release = Nothing
    /\ closed = FALSE
    /\ call = [a \in Actors |-> Idle]
    /\ undisturbed = TRUE
    /\ calls = 0 /\ crashes = 0

Handler ==
    \/ \E q \in Questions : CreateQuestion(q) \/ JobCreates(q)
    \/ \E a \in Answers : Resolve(a) \/ JobAnswers(a)
    \/ \E who \in Acceptors : Accept(who)
    \/ \E who \in Editors : Reject(who)
    \/ \E who \in Editors, q \in Questions, a \in Answers \cup {NoAnswer} :
          Edit(who, q, a)
    \/ Export \/ Publish \/ ListDatasets

LedgerStep(a, k) ==
    \/ Import(a, k) \/ Adopt(a, k) \/ Open(a, k) \/ Revise(a, k) \/ Review(a, k)
    \/ TurnDown(a, k) \/ MarkReviewed(a, k) \/ Approve(a, k) \/ Promote(a, k)
    \/ Freeze(a, k) \/ Propose(a, k)

CallStep(a) ==
    \/ Save(a) \/ CreateCase(a) \/ Submit(a) \/ HoldCase(a)
    \/ CheckAccept(a) \/ BranchOnGold(a) \/ FileApproved(a) \/ Advance(a)
    \/ Select(a) \/ MarkFrozen(a) \/ MarkExported(a) \/ ValidateFrozen(a)
    \/ PutRelease(a) \/ MarkReleased(a)

Next ==
    \/ Handler
    \/ \E a \in Actors : CallStep(a) \/ \E k \in Kinds : LedgerStep(a, k)
    \/ Crash

Spec == Init /\ [][Next]_vars

-----------------------------------------------------------------------------
(* Properties. *)

Revisions(k) ==
    [life : Lifecycles, actor : {Author, Importer} \cup Reviewers, pin : 0..MaxRevisions,
     text : IF k = "case" THEN Questions ELSE Answers]

(* The type invariant: every file holds what its model class admits. *)
TypeOK ==
    /\ candidate \in Contents \cup {Nothing}
    /\ approvedCase \in [q : Questions, a : Answers] \cup {Nothing}
    /\ \A k \in Kinds : /\ Len(hist[k]) <= MaxRevisions
                        /\ \A i \in DOMAIN hist[k] : hist[k][i] \in Revisions(k)
    /\ \A x \in reviews : x.rev \in DOMAIN hist[x.kind] /\ x.who \in Reviewers
    /\ \A x \in approvals : x.rev \in DOMAIN hist[x.kind] /\ x.who \in Reviewers
    /\ {marker, release} \subseteq [Kinds -> 1..MaxRevisions] \cup {Nothing}
    /\ {exported, closed, undisturbed} \subseteq BOOLEAN
    /\ calls \in 0..MaxCalls /\ crashes \in 0..MaxCrashes

(* What is published was approved: Case and Gold of a release are frozen,  *)
(* the Gold belongs to that Case, and one person, who is not the author of *)
(* either, approved both with the very texts that were frozen (freeze,     *)
(* _review_approval).                                                      *)
ReleaseIsApproved ==
    release # Nothing =>
        LET Frozen(k) == hist[k][release[k]]
            ApprovedBy(k, who) ==
                \E x \in approvals :
                   /\ x.kind = k /\ x.who = who /\ x.rev < release[k]
                   /\ hist[k][x.rev].text = Frozen(k).text
                   /\ hist[k][x.rev].actor # who
        IN /\ \A k \in Kinds : Frozen(k).life = "frozen"
           /\ Frozen("gold").pin = release["case"]
           /\ \E who \in Reviewers : \A k \in Kinds : ApprovedBy(k, who)

(* The lifecycles of Case and Gold that go with a candidate's state. *)
CaseLives(state) ==
    CASE state = "review_required" -> {"proposed"}
      [] state = "approved"        -> {"approved", "frozen"}
      [] state = "rejected"        -> {"rejected"}
      [] state = "blocked"         -> {"draft", "proposed"}
      [] state = "draft"           -> {"draft"}

GoldLives(state) == IF state = "blocked" THEN {"draft"} ELSE CaseLives(state)

Quiet == ~Busy("loop") /\ ~JobWrites

(* Between calls that ran one at a time to their end, candidate and ledger *)
(* tell the same story: the same texts, and lifecycles from which the next *)
(* decision on the candidate is possible (review, resolve_answer_evidence).*)
LedgerFollowsCandidate ==
    undisturbed /\ Quiet /\ candidate # Nothing /\ hist["case"] # <<>> =>
        /\ Current("case").text = candidate.q
        /\ Current("case").life \in CaseLives(candidate.state)
        /\ (hist["gold"] = <<>>) <=> (candidate.a = NoAnswer)
        /\ hist["gold"] # <<>> => /\ Current("gold").text = candidate.a
                                 /\ Current("gold").life \in GoldLives(candidate.state)

=============================================================================
