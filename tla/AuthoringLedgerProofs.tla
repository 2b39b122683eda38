----------------------- MODULE AuthoringLedgerProofs ------------------------
(***************************************************************************)
(* Proof that what is published was approved, for any questions, answers,  *)
(* reviewers, number of calls, revisions and crashes, with and without the *)
(* generation job beside the handlers, and for any state of the candidate  *)
(* before there was a ledger (LegacyAssumption).  A handler is a plan of   *)
(* file writes, which may end after any of them.  IInv says                *)
(*   Typed      the shape of histories, calls and candidates,              *)
(*   Planned    that an acceptance and a publication make all their steps, *)
(*              in order, and that the job only drafts,                    *)
(*   Begun      where there must be a Case by then,                        *)
(*   Released   that the marker and the release hold approved revisions,   *)
(*              those of the release frozen,                               *)
(*   Paired     that current revisions of Case and Gold that both count as *)
(*              approved were approved by one person,                      *)
(*   Accepts, Publishes  what those two handlers have achieved so far;     *)
(* or, of a question approved before there was a ledger, that it has no    *)
(* approvals and is never published (Outdated).                            *)
(*                                                                         *)
(* And proof that candidate and ledger agree between two calls.  What      *)
(* counts of the files is a story (Now); Does says what each step of a     *)
(* plan makes of a story, and a plan Leads where all its steps may.  The   *)
(* invariant (Contented, Told): where nothing writes, the story holds      *)
(* together (Story), and what is left of a call leads to such a story.     *)
(***************************************************************************)
EXTENDS AuthoringLedger, SequenceTheorems, TLAPS

(* The steps of a plan, and what makes a value a sequence. *)
Elements(s) == {s[i] : i \in DOMAIN s}
IsSeq(s) == s \in Seq(Elements(s))

(* The place of a step in an acceptance, a publication, and in the job's   *)
(* creation of the question; 0 of steps that come before.                  *)
Rank(step) ==
    CASE step = <<"check", "case">>    -> 1
      [] step = <<"review", "case">>   -> 2
      [] step = <<"review", "gold">>   -> 3
      [] step = <<"mark", "case">>     -> 4
      [] step = <<"mark", "gold">>     -> 5
      [] step = <<"approve", "case">>  -> 6
      [] step = <<"promote", "case">>  -> 7
      [] step = <<"approve", "gold">>  -> 8
      [] step = <<"promote", "gold">>  -> 9
      [] step = <<"save", "case">>     -> 10
      [] step = <<"file", "case">>     -> 11
      [] step = <<"create", "case">>   -> 11
      [] step = <<"advance", "case">>  -> 12
      [] step = <<"ask", "case">>      -> 13
      [] step = <<"select", "case">>   -> 1
      [] step = <<"freeze", "case">>   -> 2
      [] step = <<"freeze", "gold">>   -> 3
      [] step = <<"pin", "case">>      -> 4
      [] step = <<"export", "case">>   -> 4
      [] step = <<"validate", "case">> -> 5
      [] step = <<"put", "case">>      -> 6
      [] step = <<"close", "case">>    -> 7
      [] OTHER                         -> 0

(* A plan makes the steps with a rank in the order of their ranks. *)
Sorted(s) == \A i, j \in DOMAIN s : i < j => Rank(s[i]) = 0 \/ Rank(s[i]) < Rank(s[j])

(* The ranks, step by step. *)
LEMMA Ranks ==
    /\ Rank(<<"check", "case">>) = 1 /\ Rank(<<"review", "case">>) = 2
    /\ Rank(<<"review", "gold">>) = 3 /\ Rank(<<"mark", "case">>) = 4
    /\ Rank(<<"mark", "gold">>) = 5 /\ Rank(<<"approve", "case">>) = 6
    /\ Rank(<<"promote", "case">>) = 7 /\ Rank(<<"approve", "gold">>) = 8
    /\ Rank(<<"promote", "gold">>) = 9 /\ Rank(<<"save", "case">>) = 10
    /\ Rank(<<"file", "case">>) = 11 /\ Rank(<<"create", "case">>) = 11
    /\ Rank(<<"advance", "case">>) = 12 /\ Rank(<<"ask", "case">>) = 13
    /\ Rank(<<"select", "case">>) = 1 /\ Rank(<<"freeze", "case">>) = 2
    /\ Rank(<<"freeze", "gold">>) = 3 /\ Rank(<<"pin", "case">>) = 4
    /\ Rank(<<"export", "case">>) = 4 /\ Rank(<<"validate", "case">>) = 5
    /\ Rank(<<"put", "case">>) = 6 /\ Rank(<<"close", "case">>) = 7
    /\ \A k \in Kinds : Rank(<<"import", k>>) = 0 /\ Rank(<<"adopt", k>>) = 0
BY DEF Rank, Kinds

(* A rank is a number. *)
LEMMA RankIsNat ==
    ASSUME NEW step
    PROVE  Rank(step) \in Nat
BY DEF Rank

(* A sequence over a set is one over its elements. *)
LEMMA SeqIsSeq ==
    ASSUME NEW S, NEW s \in Seq(S)
    PROVE  IsSeq(s) /\ Elements(s) \subseteq S
<1>1. s \in [1 .. Len(s) -> S] /\ Len(s) \in Nat
  BY LenProperties
<1>2. s \in [1 .. Len(s) -> Elements(s)]
  BY <1>1 DEF Elements
<1>3. s \in UNION {[1 .. n -> Elements(s)] : n \in Nat}
  BY <1>1, <1>2, Zenon
<1>. QED
  BY <1>1, <1>3, SeqDef, Zenon DEF IsSeq, Elements

(* Append adds an element and keeps the others. *)
LEMMA AppendGrows ==
    ASSUME NEW s, NEW e, IsSeq(s)
    PROVE  /\ IsSeq(Append(s, e)) /\ Len(s) \in Nat
           /\ DOMAIN s = 1 .. Len(s) /\ DOMAIN Append(s, e) = 1 .. (Len(s) + 1)
           /\ Len(Append(s, e)) = Len(s) + 1
           /\ Append(s, e)[Len(s) + 1] = e
           /\ \A i \in 1 .. Len(s) : Append(s, e)[i] = s[i]
           /\ Append(s, e) # <<>>
<1>. DEFINE S == Elements(s) \cup {e}
<1>1. s \in Seq(S)
  BY SeqMonotonic DEF IsSeq
<1>2. e \in S
  OBVIOUS
<1>. HIDE DEF S
<1>3. /\ Append(s, e) \in Seq(S) /\ Len(s) \in Nat /\ Len(Append(s, e)) = Len(s) + 1
      /\ DOMAIN s = 1 .. Len(s)
      /\ Append(s, e)[Len(s) + 1] = e
      /\ \A i \in 1 .. Len(s) : Append(s, e)[i] = s[i]
  BY <1>1, <1>2
<1>4. DOMAIN Append(s, e) = 1 .. (Len(s) + 1) /\ Append(s, e) # <<>>
  BY <1>3, EmptySeq
<1>5. IsSeq(Append(s, e))
  BY <1>3, SeqIsSeq
<1>. QED
  BY <1>3, <1>4, <1>5

(* The rest of a plan has the steps of the plan but the first. *)
LEMMA TailShrinks ==
    ASSUME NEW s, IsSeq(s), s # <<>>
    PROVE  /\ Head(s) \in Elements(s) /\ IsSeq(Tail(s))
           /\ Elements(Tail(s)) \subseteq Elements(s)
           /\ Elements(s) \subseteq Elements(Tail(s)) \cup {Head(s)}
           /\ Sorted(s) => /\ Sorted(Tail(s))
                           /\ Rank(Head(s)) # 0 => \A p \in Elements(Tail(s)) : Rank(Head(s)) < Rank(p)
<1>1. /\ Len(s) \in Nat \ {0} /\ DOMAIN s = 1 .. Len(s) /\ Head(s) = s[1]
      /\ IsSeq(Tail(s)) /\ Len(Tail(s)) = Len(s) - 1
      /\ DOMAIN Tail(s) = 1 .. (Len(s) - 1)
      /\ \A i \in 1 .. (Len(s) - 1) : Tail(s)[i] = s[i + 1]
  <2>. DEFINE S == Elements(s)
  <2>1. s \in Seq(S)
    BY DEF IsSeq
  <2>. HIDE DEF S
  <2>2. Len(s) \in Nat \ {0} /\ DOMAIN s = 1 .. Len(s)
    BY <2>1, LenProperties, EmptySeq
  <2>3. /\ Tail(s) \in Seq(S) /\ Len(Tail(s)) = Len(s) - 1
        /\ \A i \in 1 .. Len(Tail(s)) : Tail(s)[i] = s[i + 1]
    BY <2>1, HeadTailProperties
  <2>4. DOMAIN Tail(s) = 1 .. Len(Tail(s)) /\ IsSeq(Tail(s))
    BY <2>3, LenProperties, SeqIsSeq
  <2>5. Head(s) = s[1]
    BY <2>1, <2>2
  <2>. QED
    BY <2>2, <2>3, <2>4, <2>5
<1>2. Head(s) \in Elements(s)
  BY <1>1 DEF Elements
<1>3. Elements(Tail(s)) \subseteq Elements(s)
  BY <1>1 DEF Elements
<1>4. Elements(s) \subseteq Elements(Tail(s)) \cup {Head(s)}
  <2>. SUFFICES ASSUME NEW i \in 1 .. Len(s), i # 1 PROVE s[i] \in Elements(Tail(s))
    BY <1>1 DEF Elements
  <2>1. i - 1 \in 1 .. (Len(s) - 1) /\ Tail(s)[i - 1] = s[i]
    BY <1>1
  <2>. QED
    BY <1>1, <2>1 DEF Elements
<1>5. ASSUME Sorted(s) PROVE Sorted(Tail(s))
  <2>. SUFFICES ASSUME NEW i \in 1 .. (Len(s) - 1), NEW j \in 1 .. (Len(s) - 1), i < j
                PROVE  Rank(Tail(s)[i]) = 0 \/ Rank(Tail(s)[i]) < Rank(Tail(s)[j])
    BY <1>1 DEF Sorted
  <2>1. i + 1 \in DOMAIN s /\ j + 1 \in DOMAIN s /\ i + 1 < j + 1
    BY <1>1
  <2>. QED
    BY <1>1, <1>5, <2>1 DEF Sorted
<1>6. ASSUME Sorted(s), Rank(Head(s)) # 0, NEW p \in Elements(Tail(s))
      PROVE  Rank(Head(s)) < Rank(p)
  <2>1. PICK i \in 1 .. (Len(s) - 1) : p = s[i + 1]
    BY <1>1 DEF Elements
  <2>2. 1 \in DOMAIN s /\ i + 1 \in DOMAIN s /\ 1 < i + 1
    BY <1>1
  <2>. QED
    BY <1>1, <1>6, <2>1, <2>2 DEF Sorted
<1>. QED
  BY <1>1, <1>2, <1>3, <1>4, <1>5, <1>6

(* Two sorted plans, one before the other, are a sorted plan. *)
LEMMA ConcatHolds ==
    ASSUME NEW s, NEW t, IsSeq(s), IsSeq(t)
    PROVE  /\ IsSeq(s \o t)
           /\ Elements(s \o t) = Elements(s) \cup Elements(t)
           /\ (s \o t = <<>>) => t = <<>>
           /\ /\ Sorted(s) /\ Sorted(t)
              /\ \A p \in Elements(s), q \in Elements(t) : Rank(p) = 0 \/ Rank(p) < Rank(q)
              => Sorted(s \o t)
<1>. DEFINE S == Elements(s) \cup Elements(t)
<1>0. s \in Seq(S) /\ t \in Seq(S)
  BY SeqMonotonic DEF IsSeq
<1>. HIDE DEF S
<1>1. /\ IsSeq(s \o t) /\ Len(s) \in Nat /\ Len(t) \in Nat
      /\ DOMAIN s = 1 .. Len(s) /\ DOMAIN t = 1 .. Len(t)
      /\ DOMAIN (s \o t) = 1 .. (Len(s) + Len(t))
      /\ \A i \in 1 .. Len(s) + Len(t) : (s \o t)[i] = IF i <= Len(s) THEN s[i] ELSE t[i - Len(s)]
  <2>1. /\ s \o t \in Seq(S) /\ Len(s \o t) = Len(s) + Len(t)
        /\ \A i \in 1 .. Len(s) + Len(t) : (s \o t)[i] = IF i <= Len(s) THEN s[i] ELSE t[i - Len(s)]
    BY <1>0, ConcatProperties
  <2>2. DOMAIN (s \o t) = 1 .. Len(s \o t) /\ IsSeq(s \o t)
    BY <2>1, LenProperties, SeqIsSeq
  <2>. QED
    BY <1>0, <2>1, <2>2, LenProperties
<1>2. \A i \in DOMAIN s : i \in DOMAIN (s \o t) /\ (s \o t)[i] = s[i]
  BY <1>1
<1>3. \A i \in DOMAIN t : i + Len(s) \in DOMAIN (s \o t) /\ (s \o t)[i + Len(s)] = t[i]
  BY <1>1
<1>4. \A i \in DOMAIN (s \o t) : \/ i \in DOMAIN s /\ (s \o t)[i] = s[i]
                                 \/ i - Len(s) \in DOMAIN t /\ (s \o t)[i] = t[i - Len(s)]
  BY <1>1
<1>5. Elements(s \o t) = Elements(s) \cup Elements(t)
  <2>1. Elements(s) \subseteq Elements(s \o t)
    BY <1>2 DEF Elements
  <2>2. Elements(t) \subseteq Elements(s \o t)
    BY <1>3 DEF Elements
  <2>3. Elements(s \o t) \subseteq Elements(s) \cup Elements(t)
    <3>1. SUFFICES ASSUME NEW i \in DOMAIN (s \o t)
                   PROVE  (s \o t)[i] \in Elements(s) \cup Elements(t)
      BY DEF Elements
    <3>2. CASE i \in DOMAIN s /\ (s \o t)[i] = s[i]
      BY <3>2 DEF Elements
    <3>3. CASE i - Len(s) \in DOMAIN t /\ (s \o t)[i] = t[i - Len(s)]
      BY <3>3 DEF Elements
    <3>. QED
      BY <1>4, <3>2, <3>3
  <2>. QED
    BY <2>1, <2>2, <2>3
<1>6. (s \o t = <<>>) => t = <<>>
  BY <1>0, ConcatEqualIffEmpty
<1>7. ASSUME Sorted(s), Sorted(t),
             \A p \in Elements(s), q \in Elements(t) : Rank(p) = 0 \/ Rank(p) < Rank(q)
      PROVE  Sorted(s \o t)
  <2>. SUFFICES ASSUME NEW i \in DOMAIN (s \o t), NEW j \in DOMAIN (s \o t), i < j
                PROVE  Rank((s \o t)[i]) = 0 \/ Rank((s \o t)[i]) < Rank((s \o t)[j])
    BY DEF Sorted
  <2>1. CASE i \in DOMAIN s /\ j \in DOMAIN s
    BY <1>2, <1>7, <2>1 DEF Sorted
  <2>2. CASE i \in DOMAIN s /\ j \notin DOMAIN s
    <3>1. (s \o t)[i] \in Elements(s) /\ (s \o t)[j] \in Elements(t)
      BY <1>2, <1>4, <2>2 DEF Elements
    <3>. QED
      BY <1>7, <3>1
  <2>3. CASE i \notin DOMAIN s
    <3>1. j \notin DOMAIN s
      BY <1>1, <2>3
    <3>2. /\ i - Len(s) \in DOMAIN t /\ j - Len(s) \in DOMAIN t /\ i - Len(s) < j - Len(s)
          /\ (s \o t)[i] = t[i - Len(s)] /\ (s \o t)[j] = t[j - Len(s)]
      BY <1>1, <1>4, <2>3, <3>1
    <3>. QED
      BY <1>7, <3>2 DEF Sorted
  <2>. QED
    BY <2>1, <2>2, <2>3
<1>. QED
  BY <1>1, <1>5, <1>6, <1>7

-----------------------------------------------------------------------------
(* The step sequences of the handlers. *)

Projections == {"import", "adopt"} \X Kinds
JobSteps == {<<"save", "case">>, <<"create", "case">>, <<"advance", "case">>, <<"ask", "case">>,
             <<"submit", "case">>, <<"hold", "case">>, <<"revise", "gold">>, <<"propose", "gold">>}
DecisionSteps ==
    {"import", "adopt", "save", "open", "review", "revise", "propose", "turn down", "branch"} \X Kinds
AcceptanceSteps ==
    {<<"check", "case">>, <<"review", "case">>, <<"review", "gold">>,
     <<"mark", "case">>, <<"mark", "gold">>, <<"approve", "case">>, <<"promote", "case">>,
     <<"approve", "gold">>, <<"promote", "gold">>,
     <<"save", "case">>, <<"file", "case">>, <<"advance", "case">>}
FreezingSteps == {<<"select", "case">>, <<"freeze", "case">>, <<"freeze", "gold">>}

(* Projecting a file on the ledger comes before all steps with a rank. *)
LEMMA ProjectionRanks ==
    \A p \in Projections : Rank(p) = 0
<1>1. \A p \in Projections : \E k \in Kinds : p = <<"import", k>> \/ p = <<"adopt", k>>
  BY DEF Projections
<1>. QED
  BY <1>1, Ranks, Zenon

(* The steps of _formal_accept and their order. *)
LEMMA AcceptPlan ==
    /\ IsSeq(AcceptSteps) /\ Elements(AcceptSteps) = AcceptanceSteps /\ Sorted(AcceptSteps)
    /\ Len(AcceptSteps) = 12
<1>1. IsSeq(AcceptSteps) /\ Len(AcceptSteps) = 12 /\ DOMAIN AcceptSteps = 1 .. 12
  <2>1. AcceptSteps \in Seq(AcceptanceSteps) /\ Len(AcceptSteps) = 12
    BY DEF AcceptSteps, AcceptanceSteps
  <2>. QED
    BY <2>1, SeqIsSeq, LenProperties
<1>2. Elements(AcceptSteps) = AcceptanceSteps
  <2>1. Elements(AcceptSteps) \subseteq AcceptanceSteps
    BY <1>1 DEF Elements, AcceptSteps, AcceptanceSteps
  <2>2. \A i \in 1 .. 12 : AcceptSteps[i] \in Elements(AcceptSteps)
    BY <1>1 DEF Elements
  <2>3. AcceptanceSteps \subseteq Elements(AcceptSteps)
    BY <2>2 DEF AcceptSteps, AcceptanceSteps
  <2>. QED
    BY <2>1, <2>3
<1>3. \A i \in 1 .. 12 : Rank(AcceptSteps[i]) = i
  <2>1. /\ AcceptSteps[1] = <<"check", "case">> /\ AcceptSteps[2] = <<"review", "case">>
        /\ AcceptSteps[3] = <<"review", "gold">> /\ AcceptSteps[4] = <<"mark", "case">>
        /\ AcceptSteps[5] = <<"mark", "gold">> /\ AcceptSteps[6] = <<"approve", "case">>
    BY DEF AcceptSteps
  <2>2. /\ AcceptSteps[7] = <<"promote", "case">> /\ AcceptSteps[8] = <<"approve", "gold">>
        /\ AcceptSteps[9] = <<"promote", "gold">> /\ AcceptSteps[10] = <<"save", "case">>
        /\ AcceptSteps[11] = <<"file", "case">> /\ AcceptSteps[12] = <<"advance", "case">>
    BY DEF AcceptSteps
  <2>3. /\ Rank(AcceptSteps[1]) = 1 /\ Rank(AcceptSteps[2]) = 2 /\ Rank(AcceptSteps[3]) = 3
        /\ Rank(AcceptSteps[4]) = 4 /\ Rank(AcceptSteps[5]) = 5 /\ Rank(AcceptSteps[6]) = 6
    BY <2>1, Ranks, Zenon
  <2>4. /\ Rank(AcceptSteps[7]) = 7 /\ Rank(AcceptSteps[8]) = 8 /\ Rank(AcceptSteps[9]) = 9
        /\ Rank(AcceptSteps[10]) = 10 /\ Rank(AcceptSteps[11]) = 11 /\ Rank(AcceptSteps[12]) = 12
    BY <2>2, Ranks, Zenon
  <2>5. \A i \in 1 .. 12 : i \in {1, 2, 3, 4, 5, 6} \/ i \in {7, 8, 9, 10, 11, 12}
    OBVIOUS
  <2>. QED
    BY <2>3, <2>4, <2>5
<1>4. Sorted(AcceptSteps)
  BY <1>1, <1>3 DEF Sorted
<1>. QED
  BY <1>1, <1>2, <1>4

(* The steps of freeze_release and their order. *)
LEMMA FreezePlan ==
    /\ IsSeq(FreezeSteps) /\ Elements(FreezeSteps) = FreezingSteps /\ Sorted(FreezeSteps)
    /\ FreezeSteps # <<>>
<1>1. IsSeq(FreezeSteps) /\ Len(FreezeSteps) = 3 /\ DOMAIN FreezeSteps = 1 .. 3
  <2>1. FreezeSteps \in Seq(FreezingSteps) /\ Len(FreezeSteps) = 3
    BY DEF FreezeSteps, FreezingSteps
  <2>. QED
    BY <2>1, SeqIsSeq, LenProperties
<1>2. Elements(FreezeSteps) = FreezingSteps
  BY <1>1 DEF Elements, FreezeSteps, FreezingSteps
<1>3. \A i \in 1 .. 3 : Rank(FreezeSteps[i]) = i
  BY Ranks DEF FreezeSteps
<1>4. Sorted(FreezeSteps)
  BY <1>1, <1>3 DEF Sorted
<1>. QED
  BY <1>1, <1>2, <1>4, EmptySeq

-----------------------------------------------------------------------------
(* The inductive invariant. *)

(* The lifecycles in which an artifact counts as approved. *)
Granted == {"approved", "frozen"}

(* The steps a call has still to make, and those it has behind it. *)
Plan(c) == Elements(c.left)
Done(c, name, k) == <<name, k>> \notin Plan(c)

(* The shape of calls, of the ledger's histories and of candidates. *)
Fields == {"op", "who", "read", "next", "at", "left"}
IsCall(c) ==
    /\ c = [f \in Fields |-> c[f]]
    /\ c.at \in [Kinds -> Nat] /\ IsSeq(c.left)

IsHistory(h) == h = [k \in Kinds |-> h[k]] /\ \A k \in Kinds : IsSeq(h[k])

IsContent(c) == "state" \in DOMAIN c /\ c.state \in CandidateStates

(* The types of the state, the content a call is about to save included. *)
Typed ==
    /\ IsHistory(hist)
    /\ call = [a \in Actors |-> call[a]] /\ \A a \in Actors : IsCall(call[a])
    /\ marker # Nothing => marker \in [Kinds -> Nat]
    /\ candidate # Nothing => IsContent(candidate)
    /\ \A a \in Actors : ~ Done(call[a], "save", "case") => IsContent(call[a].next)

(* The steps a call of each operation can have left. *)
StepsOf(op) ==
    CASE op = "accept"           -> Projections \cup AcceptanceSteps
      [] op = "publish"          -> FreezingSteps \cup {<<"pin", "case">>, <<"validate", "case">>,
                                                        <<"put", "case">>, <<"close", "case">>}
      [] op = "export"           -> FreezingSteps \cup {<<"export", "case">>, <<"advance", "case">>}
      [] op \in {"edit", "reject"} -> DecisionSteps
      [] OTHER                   -> Projections \cup JobSteps

(* What the plan of a call says: an acceptance and a publication make all  *)
(* their steps, in order.                                                  *)
Sound(c) ==
    /\ Plan(c) \subseteq StepsOf(c.op)
    /\ c.op \in {"accept", "publish", "export"} \/ ~ Done(c, "ask", "case") => Sorted(c.left)
    /\ c.op \in {"accept", "publish"} =>
          \A p \in Plan(c), q \in StepsOf(c.op) :
             Rank(p) # 0 /\ Rank(p) < Rank(q) => q \in Plan(c)
    /\ c.op = "accept" => c.who \in Reviewers
    /\ ~ Done(c, "save", "case") /\ c.op # "accept" => c.next.state # "approved"
    /\ \A k \in Kinds : ~ Done(c, "adopt", k) => LegacyLifecycle(c.read.state) \notin Granted

(* Every call's plan is sound, and a generation job only drafts. *)
Planned ==
    /\ \A a \in Actors : Sound(call[a])
    /\ Plan(call["job"]) \subseteq JobSteps /\ call["job"].op \in {"none", "resolve"}

(* Where there must be a Case by then. *)
Begun ==
    /\ candidate # Nothing /\ candidate.state = "approved" => hist["case"] # <<>>
    /\ approvedCase # Nothing => hist["case"] # <<>>
    /\ ~ Done(call["job"], "ask", "case") => hist["case"] # <<>> \/ ~ Done(call["job"], "create", "case")
    /\ call["loop"].op = "accept"
       /\ Plan(call["loop"]) \cap {<<"check", "case">>, <<"save", "case">>, <<"file", "case">>} # {} =>
          hist["case"] # <<>> \/ ~ Done(call["loop"], "import", "case")

(* One person approved these revisions' texts, and is not their author. *)
ApprovedBy(h, ap, k, n, who) ==
    \E x \in ap : /\ x.kind = k /\ x.who = who /\ x.rev \in 1 .. (n - 1)
                  /\ h[k][x.rev].text = h[k][n].text
                  /\ h[k][x.rev].actor # who
Sworn(h, ap, at) == \E who \in Reviewers : \A k \in Kinds : ApprovedBy(h, ap, k, at[k], who)

(* Between the check of a decision and the approval of the Gold. *)
InAccept(c) == c.op = "accept" /\ ~ Done(c, "promote", "gold") /\ Done(c, "check", "case")

(* What an acceptance has written but not yet built upon. *)
Marked(h, c, k) == Done(c, "mark", k) /\ ~ Done(c, "promote", k) => h[k][c.at[k]].life = "reviewed"
Signed(h, ap, c, k) ==
    Done(c, "approve", k) /\ ~ Done(c, "promote", k) =>
        /\ \E x \in ap : x.kind = k /\ x.who = c.who /\ x.rev = c.at[k]
        /\ h[k][c.at[k]].actor # c.who
CasePromoted(h, ap, c) ==
    Done(c, "promote", "case") =>
        /\ c.at["case"] = Len(h["case"]) /\ h["case"][c.at["case"]].life = "approved"
        /\ ApprovedBy(h, ap, "case", c.at["case"], c.who)
GoldOpen(h, c) == \A i \in DOMAIN h["gold"] : i > c.at["gold"] => h["gold"][i].life \notin Granted

(* What an acceptance under way has achieved. *)
Accepts(h, ap, c) ==
    InAccept(c) =>
        /\ Plan(c) \cap Projections = {}
        /\ \A k \in Kinds : c.at[k] \in DOMAIN h[k] /\ Marked(h, c, k) /\ Signed(h, ap, c, k)
        /\ CasePromoted(h, ap, c) /\ GoldOpen(h, c)

(* The current Case and Gold were approved together. *)
Paired(h, ap) ==
    (\A k \in Kinds : h[k] # <<>> /\ h[k][Len(h[k])].life \in Granted) =>
        Sworn(h, ap, [k \in Kinds |-> Len(h[k])])

(* Approved revisions, by one person; and frozen ones, the Gold of the Case. *)
Selected(h, ap, at) ==
    /\ \A k \in Kinds : at[k] \in DOMAIN h[k] /\ h[k][at[k]].life \in Granted
    /\ Sworn(h, ap, at)
AllFrozen(h, at) == /\ \A k \in Kinds : h[k][at[k]].life = "frozen"
                    /\ h["gold"][at["gold"]].pin = at["case"]

(* What a publication under way holds. *)
Publishes(h, ap, c) ==
    /\ c.op \in {"publish", "export"} /\ Done(c, "select", "case") => Selected(h, ap, c.at)
    /\ c.op = "publish" /\ Done(c, "validate", "case") /\ ~ Done(c, "put", "case") =>
          AllFrozen(h, c.at)

(* What is marked as frozen, and what is released. *)
Released ==
    /\ marker # Nothing => Selected(hist, approvals, marker)
    /\ release # Nothing => Selected(hist, approvals, release) /\ AllFrozen(hist, release)

(* A question whose approvals are in the ledger. *)
Reviewed ==
    /\ Planned /\ Begun /\ Released /\ Paired(hist, approvals)
    /\ Accepts(hist, approvals, call["loop"]) /\ Publishes(hist, approvals, call["loop"])

(* A question approved before there was a ledger has no approvals in it,   *)
(* and stays as it is.                                                     *)
Outdated ==
    /\ candidate # Nothing /\ candidate.state = "approved"
    /\ approvals = {} /\ release = Nothing
    /\ call["job"].left = <<>>
    /\ Plan(call["loop"]) \subseteq
          Projections \cup FreezingSteps \cup {<<"export", "case">>, <<"advance", "case">>}

(* The inductive invariant. *)
IInv == Typed /\ (Reviewed \/ Outdated)

-----------------------------------------------------------------------------
(* How a call goes on. *)

(* An actor between calls has nothing left to do. *)
LEMMA IdleIsCall ==
    IsCall(Idle) /\ Idle.op = "none" /\ Idle.left = <<>> /\ Elements(<<>>) = {} /\ Sound(Idle)
<1>1. IsSeq(<<>>) /\ Elements(<<>>) = {}
  BY EmptySeq, LenProperties DEF IsSeq, Elements
<1>2. Idle = [f \in Fields |-> Idle[f]] /\ Idle.op = "none" /\ Idle.left = <<>> /\ Idle.at \in [Kinds -> Nat]
  BY DEF Fields, Idle
<1>3. Sound(Idle)
  BY <1>1, <1>2 DEF Sound, Plan, Done
<1>. QED
  BY <1>1, <1>2, <1>3 DEF IsCall

(* Call c has made its first step. *)
Onward(c, d, at) ==
    \/ d = Idle
    \/ /\ d.op = c.op /\ d.who = c.who /\ d.read = c.read /\ d.next = c.next
       /\ d.at = at /\ d.left = Tail(c.left)

Moves(a, at) ==
    /\ call' = [b \in Actors |-> call'[b]]
    /\ \A b \in Actors \ {a} : call'[b] = call[b]
    /\ IsCall(call'[a]) /\ Onward(call[a], call'[a], at)

(* A call with another plan is the same call. *)
LEMMA PlanChanges ==
    ASSUME NEW c, IsCall(c), NEW left, IsSeq(left), NEW d, d = [c EXCEPT !.left = left]
    PROVE  /\ d.op = c.op /\ d.who = c.who /\ d.read = c.read /\ d.next = c.next
           /\ d.at = c.at /\ d.left = left /\ IsCall(d)
BY DEF IsCall, Fields

(* A call that goes on holds other revisions, or no others. *)
LEMMA CallChanges ==
    ASSUME NEW c, IsCall(c), NEW left, IsSeq(left)
    PROVE  /\ \A at \in [Kinds -> Nat] :
                 LET d == [c EXCEPT !.left = left, !.at = at]
                 IN /\ d.op = c.op /\ d.who = c.who /\ d.read = c.read /\ d.next = c.next
                    /\ d.at = at /\ d.left = left /\ IsCall(d)
           /\ \A k \in Kinds, n \in Nat :
                 LET d == [c EXCEPT !.left = left, !.at[k] = n]
                 IN /\ d.op = c.op /\ d.who = c.who /\ d.read = c.read /\ d.next = c.next
                    /\ d.at = [c.at EXCEPT ![k] = n] /\ d.left = left /\ IsCall(d)
<1>2. ASSUME NEW at \in [Kinds -> Nat], NEW d, d = [c EXCEPT !.left = left, !.at = at]
      PROVE  /\ d.op = c.op /\ d.who = c.who /\ d.read = c.read /\ d.next = c.next
             /\ d.at = at /\ d.left = left /\ IsCall(d)
  BY <1>2 DEF IsCall, Fields
<1>3. ASSUME NEW k \in Kinds, NEW n \in Nat, NEW d, d = [c EXCEPT !.left = left, !.at[k] = n]
      PROVE  /\ d.op = c.op /\ d.who = c.who /\ d.read = c.read /\ d.next = c.next
             /\ d.at = [c.at EXCEPT ![k] = n] /\ d.left = left /\ IsCall(d)
  BY <1>3 DEF IsCall, Fields
<1>. QED
  BY <1>2, <1>3, Zenon

(* An actor's call is replaced, or ended when nothing is left. *)
LEMMA SettleReplaces ==
    ASSUME Typed, NEW a \in Actors, NEW c, IsCall(c), Settle(a, c)
    PROVE  /\ call' = [b \in Actors |-> call'[b]]
           /\ \A b \in Actors \ {a} : call'[b] = call[b]
           /\ IsCall(call'[a])
           /\ call'[a] = Idle \/ call'[a] = c
BY IdleIsCall DEF Settle, Typed

(* One step of a call. *)
LEMMA StepMoves ==
    ASSUME Typed, NEW a \in Actors, Busy(a), NEW at, NEW d, Settle(a, d), IsCall(d),
           d.op = call[a].op, d.who = call[a].who, d.read = call[a].read, d.next = call[a].next,
           d.at = at, d.left = Tail(call[a].left)
    PROVE  Moves(a, at)
<1>1. Onward(call[a], d, at) /\ Onward(call[a], Idle, at)
  BY DEF Onward
<1>. QED
  BY <1>1, SettleReplaces DEF Moves

(* A step that makes the call hold another revision. *)
LEMMA HoldMoves ==
    ASSUME Typed, NEW a \in Actors, Busy(a), NEW k \in Kinds, NEW n \in Nat, Hold(a, k, n)
    PROVE  Moves(a, [call[a].at EXCEPT ![k] = n])
<1>1. IsCall(call[a]) /\ IsSeq(Tail(call[a].left))
  BY TailShrinks DEF Typed, Busy, IsCall
<1>. DEFINE d == [call[a] EXCEPT !.left = Tail(call[a].left), !.at[k] = n]
<1>2. /\ d.op = call[a].op /\ d.who = call[a].who /\ d.read = call[a].read /\ d.next = call[a].next
      /\ d.at = [call[a].at EXCEPT ![k] = n] /\ d.left = Tail(call[a].left) /\ IsCall(d)
  BY <1>1, CallChanges, Zenon
<1>3. Settle(a, d)
  BY DEF Hold
<1>. QED
  BY <1>2, <1>3, StepMoves, Zenon

(* A step that leaves what the call holds. *)
LEMMA ProceedMoves ==
    ASSUME Typed, NEW a \in Actors, Busy(a), Proceed(a)
    PROVE  Moves(a, call[a].at)
<1>1. IsCall(call[a]) /\ IsSeq(Tail(call[a].left))
  BY TailShrinks DEF Typed, Busy, IsCall
<1>. DEFINE d == [call[a] EXCEPT !.left = Tail(call[a].left)]
<1>2. /\ d.op = call[a].op /\ d.who = call[a].who /\ d.read = call[a].read /\ d.next = call[a].next
      /\ d.at = call[a].at /\ d.left = Tail(call[a].left) /\ IsCall(d)
  <2>1. PICK c, l : c = call[a] /\ l = Tail(call[a].left)
    OBVIOUS
  <2>2. PICK e : e = [c EXCEPT !.left = l]
    OBVIOUS
  <2>3. IsCall(c) /\ IsSeq(l)
    BY <1>1, <2>1, Zenon
  <2>4. /\ e.op = c.op /\ e.who = c.who /\ e.read = c.read /\ e.next = c.next
        /\ e.at = c.at /\ e.left = l /\ IsCall(e)
    BY <2>2, <2>3, PlanChanges
  <2>. QED
    BY <2>1, <2>2, <2>4, Zenon
<1>3. Settle(a, d)
  BY DEF Proceed
<1>. QED
  BY <1>2, <1>3, StepMoves, Zenon

(* Select, and the checks of an acceptance, take the current revisions. *)
LEMMA TakeMoves ==
    ASSUME Typed, NEW a \in Actors, Busy(a), NEW at \in [Kinds -> Nat],
           Settle(a, [call[a] EXCEPT !.left = Tail(@), !.at = at])
    PROVE  Moves(a, at)
<1>1. IsCall(call[a]) /\ IsSeq(Tail(call[a].left))
  BY TailShrinks DEF Typed, Busy, IsCall
<1>. DEFINE d == [call[a] EXCEPT !.left = Tail(call[a].left), !.at = at]
<1>2. /\ d.op = call[a].op /\ d.who = call[a].who /\ d.read = call[a].read /\ d.next = call[a].next
      /\ d.at = at /\ d.left = Tail(call[a].left) /\ IsCall(d)
  BY <1>1, CallChanges, Zenon
<1>3. Settle(a, d)
  OBVIOUS
<1>. QED
  BY <1>2, <1>3, StepMoves, Zenon
(* What is left of a plan after a step. *)
LEMMA SoundTail ==
    ASSUME NEW c, NEW d, Sound(c), IsSeq(c.left), c.left # <<>>,
           d.op = c.op, d.who = c.who, d.read = c.read, d.next = c.next, d.left = Tail(c.left)
    PROVE  Sound(d)
<1>1. /\ Plan(d) \subseteq Plan(c) /\ Plan(c) \subseteq Plan(d) \cup {Head(c.left)}
      /\ Sorted(c.left) => /\ Sorted(d.left)
                           /\ Rank(Head(c.left)) # 0 => \A p \in Plan(d) : Rank(Head(c.left)) < Rank(p)
  BY TailShrinks DEF Plan
<1>2. /\ Plan(d) \subseteq StepsOf(d.op)
      /\ d.op = "accept" => d.who \in Reviewers
      /\ ~ Done(d, "save", "case") /\ d.op # "accept" => d.next.state # "approved"
      /\ \A k \in Kinds : ~ Done(d, "adopt", k) => LegacyLifecycle(d.read.state) \notin Granted
      /\ d.op \in {"accept", "publish", "export"} \/ ~ Done(d, "ask", "case") => Sorted(d.left)
  BY <1>1, Zenon DEF Sound, Done
<1>3. ASSUME d.op \in {"accept", "publish"}, NEW p \in Plan(d), NEW q \in StepsOf(d.op),
             Rank(p) # 0, Rank(p) < Rank(q)
      PROVE  q \in Plan(d)
  <2>1. q \in Plan(c) /\ Sorted(c.left)
    BY <1>1, <1>3 DEF Sound
  <2>2. q # Head(c.left)
    <3>1. SUFFICES ASSUME q = Head(c.left) PROVE FALSE
      OBVIOUS
    <3>2. Rank(q) \in Nat /\ Rank(p) \in Nat
      BY RankIsNat
    <3>3. Rank(q) # 0
      BY <1>3, <3>2
    <3>4. Rank(q) < Rank(p)
      BY <1>1, <2>1, <3>1, <3>3
    <3>. QED
      BY <1>3, <3>2, <3>4
  <2>. QED
    BY <1>1, <2>1, <2>2
<1>. QED
  BY <1>2, <1>3 DEF Sound

(* A step takes the first of the plan and keeps the rest. *)
LEMMA PlanShrinks ==
    ASSUME Typed, NEW a \in Actors, Busy(a), NEW at, Moves(a, at)
    PROVE  /\ Plan(call'[a]) \subseteq Plan(call[a])
           /\ Head(call[a].left) \in Plan(call[a])
           /\ call'[a] = Idle => Plan(call'[a]) = {}
           /\ call'[a] # Idle => Plan(call[a]) \subseteq Plan(call'[a]) \cup {Head(call[a].left)}
           /\ Sorted(call[a].left) /\ Rank(Head(call[a].left)) # 0 =>
                 \A p \in Plan(call'[a]) : Rank(Head(call[a].left)) < Rank(p)
           /\ Sound(call[a]) => Sound(call'[a])
<1>1. IsSeq(call[a].left) /\ call[a].left # <<>>
  BY DEF Typed, Busy, IsCall
<1>2. CASE call'[a] = Idle
  BY <1>1, <1>2, IdleIsCall, TailShrinks, Zenon DEF Plan
<1>3. CASE call'[a] # Idle
  <2>1. /\ call'[a].op = call[a].op /\ call'[a].who = call[a].who /\ call'[a].read = call[a].read
        /\ call'[a].next = call[a].next /\ call'[a].left = Tail(call[a].left)
    BY <1>3 DEF Moves, Onward
  <2>2. Sound(call[a]) => Sound(call'[a])
    BY <1>1, <2>1, SoundTail
  <2>. QED
    BY <1>1, <1>3, <2>1, <2>2, TailShrinks, Zenon DEF Plan
<1>. QED
  BY <1>2, <1>3

(* A call that raised, or was cut short. *)
LEMMA RaiseEnds ==
    ASSUME Typed, NEW a \in Actors, call' = [call EXCEPT ![a] = Idle]
    PROVE  /\ call' = [b \in Actors |-> call'[b]]
           /\ \A b \in Actors \ {a} : call'[b] = call[b]
           /\ call'[a] = Idle /\ IsCall(call'[a]) /\ Plan(call'[a]) = {}
           /\ \A at : Moves(a, at)
BY IdleIsCall DEF Typed, Moves, Onward, Plan

-----------------------------------------------------------------------------
(* How histories and approvals grow. *)

(* Revisions and approvals are never taken back. *)
Grows(h, ap, g, aq) ==
    /\ IsHistory(h) /\ IsHistory(g) /\ ap \subseteq aq
    /\ \A k \in Kinds : \A i \in DOMAIN h[k] : i \in DOMAIN g[k] /\ g[k][i] = h[k][i]

(* The length of a history. *)
LEMMA Lengthy ==
    ASSUME NEW h, IsHistory(h), NEW k \in Kinds
    PROVE  /\ Len(h[k]) \in Nat /\ DOMAIN h[k] = 1 .. Len(h[k])
           /\ h[k] = <<>> <=> Len(h[k]) = 0
           /\ h[k] # <<>> <=> Len(h[k]) \in DOMAIN h[k]
<1>1. h[k] \in Seq(Elements(h[k]))
  BY DEF IsHistory, IsSeq
<1>2. /\ Len(h[k]) \in Nat /\ DOMAIN h[k] = 1 .. Len(h[k])
      /\ h[k] = <<>> <=> Len(h[k]) = 0
  BY <1>1, LenProperties, EmptySeq
<1>. QED
  BY <1>2

(* Approvals of a revision, and what was selected or frozen, stay. *)
LEMMA GrowthKeeps ==
    ASSUME NEW h, NEW ap, NEW g, NEW aq, Grows(h, ap, g, aq)
    PROVE  /\ \A k \in Kinds : h[k] # <<>> => g[k] # <<>>
           /\ \A k \in Kinds : \A n, who : n \in DOMAIN h[k] /\ ApprovedBy(h, ap, k, n, who)
                  => ApprovedBy(g, aq, k, n, who)
           /\ \A at : Selected(h, ap, at) => Selected(g, aq, at)
           /\ \A at : Selected(h, ap, at) /\ AllFrozen(h, at) => AllFrozen(g, at)
<1>1. ASSUME NEW k \in Kinds, NEW n, NEW who, n \in DOMAIN h[k], ApprovedBy(h, ap, k, n, who)
      PROVE  ApprovedBy(g, aq, k, n, who)
  <2>1. PICK x \in ap : /\ x.kind = k /\ x.who = who /\ x.rev \in 1 .. (n - 1)
                        /\ h[k][x.rev].text = h[k][n].text
                        /\ h[k][x.rev].actor # who
    BY <1>1 DEF ApprovedBy
  <2>2. x \in aq /\ x.rev \in DOMAIN h[k] /\ n \in DOMAIN h[k]
    BY <1>1, <2>1, Lengthy DEF Grows
  <2>3. g[k][x.rev] = h[k][x.rev] /\ g[k][n] = h[k][n]
    BY <2>2 DEF Grows
  <2>. QED
    BY <2>1, <2>2, <2>3 DEF ApprovedBy
<1>2. ASSUME NEW k \in Kinds, h[k] # <<>> PROVE g[k] # <<>>
  BY <1>2, Lengthy DEF Grows
<1>3. ASSUME NEW at, Selected(h, ap, at) PROVE Selected(g, aq, at)
  <2>1. \A k \in Kinds : at[k] \in DOMAIN g[k] /\ g[k][at[k]].life \in Granted
    BY <1>3 DEF Selected, Grows
  <2>2. Sworn(g, aq, at)
    BY <1>1, <1>3 DEF Selected, Sworn
  <2>. QED
    BY <2>1, <2>2 DEF Selected
<1>4. ASSUME NEW at, Selected(h, ap, at), AllFrozen(h, at) PROVE AllFrozen(g, at)
  BY <1>4 DEF Selected, AllFrozen, Grows, Kinds
<1>. QED
  BY <1>1, <1>2, <1>3, <1>4

(* An approval more is growth. *)
LEMMA StayingGrows ==
    ASSUME NEW h, IsHistory(h), NEW ap, NEW aq, ap \subseteq aq
    PROVE  Grows(h, ap, h, aq)
BY DEF Grows

(* g is h with one revision more. *)
Added(h, g, k, rev) ==
    /\ IsHistory(h) /\ IsHistory(g)
    /\ Len(h[k]) \in Nat /\ DOMAIN h[k] = 1 .. Len(h[k])
    /\ DOMAIN g[k] = 1 .. (Len(h[k]) + 1) /\ Len(g[k]) = Len(h[k]) + 1 /\ g[k] # <<>>
    /\ g[k][Len(h[k]) + 1] = rev
    /\ \A i \in 1 .. Len(h[k]) : g[k][i] = h[k][i]
    /\ \A j \in Kinds \ {k} : g[j] = h[j]

(* A revision appended to one of the histories. *)
LEMMA Additions ==
    ASSUME NEW h, NEW g, NEW k \in Kinds, NEW rev, IsHistory(h),
           g = [h EXCEPT ![k] = Append(@, rev)]
    PROVE  Added(h, g, k, rev)
<1>1. g[k] = Append(h[k], rev) /\ \A j \in Kinds \ {k} : g[j] = h[j]
  BY Zenon DEF IsHistory
<1>2. IsSeq(h[k])
  BY DEF IsHistory
<1>3. /\ IsSeq(g[k]) /\ Len(h[k]) \in Nat /\ DOMAIN h[k] = 1 .. Len(h[k])
      /\ DOMAIN g[k] = 1 .. (Len(h[k]) + 1) /\ Len(g[k]) = Len(h[k]) + 1
      /\ g[k][Len(h[k]) + 1] = rev /\ \A i \in 1 .. Len(h[k]) : g[k][i] = h[k][i]
      /\ g[k] # <<>>
  BY <1>1, <1>2, AppendGrows
<1>4. g = [j \in Kinds |-> g[j]]
  BY DEF IsHistory
<1>5. IsHistory(g)
  BY <1>1, <1>3, <1>4 DEF IsHistory
<1>. QED
  BY <1>1, <1>3, <1>5 DEF Added

(* A revision more is growth. *)
LEMMA AddingGrows ==
    ASSUME NEW h, NEW g, NEW ap, NEW k \in Kinds, NEW rev, Added(h, g, k, rev)
    PROVE  Grows(h, ap, g, ap)
<1>1. \A i \in DOMAIN h[k] : i \in DOMAIN g[k] /\ g[k][i] = h[k][i]
  BY DEF Added
<1>2. \A j \in Kinds \ {k} : g[j] = h[j]
  BY DEF Added
<1>. QED
  BY <1>1, <1>2 DEF Grows, Added

-----------------------------------------------------------------------------
(* What a step of one call leaves of the invariant. *)

(* create_revision writes the next revision, or finds another in its place. *)
LEMMA WriteCases ==
    ASSUME Typed, NEW a \in Actors, Busy(a), NEW k \in Kinds, NEW n \in Nat, NEW rev,
           WriteRevision(a, k, n, rev)
    PROVE  /\ UNCHANGED <<candidate, approvedCase, approvals, marker, release>>
           /\ \/ /\ n = Len(hist[k]) + 1 /\ Added(hist, hist', k, rev)
                 /\ Moves(a, [call[a].at EXCEPT ![k] = Len(hist[k]) + 1])
              \/ Len(hist[k]) >= n /\ hist' = hist /\ call' = [call EXCEPT ![a] = Idle]
<1>1. Len(hist[k]) \in Nat
  BY Lengthy DEF Typed
<1>2. CASE Appending(k, n, rev) /\ Hold(a, k, n)
           /\ UNCHANGED <<fileVars, reviews, approvals, releaseVars, closed, undisturbed, boundVars>>
  <2>1. n = Len(hist[k]) + 1 /\ Added(hist, hist', k, rev)
    BY <1>2, Additions DEF Appending, Typed
  <2>2. Moves(a, [call[a].at EXCEPT ![k] = Len(hist[k]) + 1])
    BY <1>2, <2>1, HoldMoves
  <2>. QED
    BY <1>2, <2>1, <2>2 DEF fileVars, releaseVars
<1>3. CASE PathTaken(k, n) /\ Raise(a)
  BY <1>1, <1>3 DEF PathTaken, Raise, ledgerVars, fileVars, releaseVars
<1>. QED
  BY <1>2, <1>3 DEF WriteRevision

(* A step keeps the types. *)
LEMMA TypedGoesOn ==
    ASSUME Typed, NEW a \in Actors, Busy(a), NEW at, Moves(a, at), IsHistory(hist'),
           marker' = marker \/ marker' \in [Kinds -> Nat],
           candidate' = candidate \/ IsContent(candidate')
    PROVE  Typed'
<1>1. /\ IsHistory(hist)' /\ (marker # Nothing => marker \in [Kinds -> Nat])'
      /\ (candidate # Nothing => IsContent(candidate))'
  BY DEF Typed
<1>2. (call = [b \in Actors |-> call[b]])' /\ \A b \in Actors : IsCall(call'[b])
  BY DEF Moves, Typed
<1>3. ASSUME NEW b \in Actors, ~ Done(call'[b], "save", "case")
      PROVE  IsContent(call'[b].next)
  <2>1. CASE b # a
    BY <1>3, <2>1 DEF Moves, Typed
  <2>2. CASE b = a
    <3>1. call'[a] # Idle /\ ~ Done(call[a], "save", "case")
      BY <1>3, <2>2, PlanShrinks DEF Done
    <3>2. call'[a].next = call[a].next
      BY <3>1 DEF Moves, Onward
    <3>. QED
      BY <2>2, <3>1, <3>2 DEF Typed
  <2>. QED
    BY <2>1, <2>2
<1>. QED
  BY <1>1, <1>2, <1>3 DEF Typed

(* A step keeps plans sound. *)
LEMMA PlannedGoesOn ==
    ASSUME Typed, Planned, NEW a \in Actors, Busy(a), NEW at, Moves(a, at)
    PROVE  Planned'
<1>1. \A b \in Actors : Sound(call'[b])
  BY PlanShrinks DEF Planned, Moves
<1>2. Plan(call'["job"]) \subseteq JobSteps /\ call'["job"].op \in {"none", "resolve"}
  <2>1. CASE a = "job"
    BY <2>1, PlanShrinks, IdleIsCall DEF Planned, Moves, Onward
  <2>2. CASE a # "job"
    BY <2>2 DEF Planned, Moves, Actors
  <2>. QED
    BY <2>1, <2>2
<1>. QED
  BY <1>1, <1>2 DEF Planned

(* A step keeps that there is a Case where there must be one. *)
LEMMA BegunGoesOn ==
    ASSUME Typed, Begun, NEW a \in Actors, Busy(a), NEW at, Moves(a, at),
           hist["case"] # <<>> => hist'["case"] # <<>>,
           candidate' = candidate \/ candidate'.state # "approved" \/ hist'["case"] # <<>>,
           approvedCase' = approvedCase \/ hist'["case"] # <<>>,
           Head(call[a].left) \in {<<"import", "case">>, <<"create", "case">>} =>
              hist'["case"] # <<>> \/ call'[a] = Idle
    PROVE  Begun'
<1>1. SUFFICES ASSUME hist'["case"] = <<>>
               PROVE  Begun'
  BY DEF Begun
<1>2. /\ (candidate # Nothing /\ candidate.state = "approved" => hist["case"] # <<>>)'
      /\ (approvedCase # Nothing => hist["case"] # <<>>)'
  BY <1>1 DEF Begun
<1>3. ASSUME ~ Done(call'["job"], "ask", "case") PROVE ~ Done(call'["job"], "create", "case")
  <2>1. CASE a = "job"
    <3>1. call'["job"] # Idle /\ ~ Done(call["job"], "ask", "case")
      BY <1>3, <2>1, PlanShrinks DEF Done
    <3>2. ~ Done(call["job"], "create", "case") /\ Head(call["job"].left) # <<"create", "case">>
      BY <1>1, <2>1, <3>1 DEF Begun
    <3>. QED
      BY <2>1, <3>1, <3>2, PlanShrinks DEF Done
  <2>2. CASE a # "job"
    BY <1>1, <1>3, <2>2 DEF Begun, Moves, Actors
  <2>. QED
    BY <2>1, <2>2
<1>4. ASSUME call'["loop"].op = "accept",
             Plan(call'["loop"]) \cap {<<"check", "case">>, <<"save", "case">>, <<"file", "case">>} # {}
      PROVE  ~ Done(call'["loop"], "import", "case")
  <2>1. CASE a = "loop"
    <3>1. call'["loop"] # Idle
      BY <1>4, IdleIsCall
    <3>2. call["loop"].op = "accept"
      BY <1>4, <2>1, <3>1 DEF Moves, Onward
    <3>3. Plan(call["loop"]) \cap {<<"check", "case">>, <<"save", "case">>, <<"file", "case">>} # {}
      BY <1>4, <2>1, PlanShrinks
    <3>4. ~ Done(call["loop"], "import", "case") /\ Head(call["loop"].left) # <<"import", "case">>
      BY <1>1, <2>1, <3>1, <3>2, <3>3 DEF Begun
    <3>. QED
      BY <2>1, <3>1, <3>4, PlanShrinks DEF Done
  <2>2. CASE a # "loop"
    BY <1>1, <1>4, <2>2 DEF Begun, Moves, Actors
  <2>. QED
    BY <2>1, <2>2
<1>. QED
  BY <1>2, <1>3, <1>4 DEF Begun

(* Calls end, and nothing else happens. *)
Ends ==
    /\ UNCHANGED <<hist, candidate, approvedCase, approvals, marker, release>>
    /\ call' = [b \in Actors |-> call'[b]]
    /\ \A b \in Actors : call'[b] = call[b] \/ call'[b] = Idle

(* Calls that end, in an error or in a crash, disturb nothing. *)
LEMMA EndingKeeps ==
    ASSUME IInv, Ends
    PROVE  IInv'
<1>1. Plan(Idle) = {}
  BY IdleIsCall DEF Plan
<1>2. Typed'
  BY <1>1, IdleIsCall DEF IInv, Typed, Ends, Done
<1>3. ASSUME Reviewed PROVE Reviewed'
  <2>1. Planned'
    BY <1>1, <1>3, IdleIsCall DEF Reviewed, Planned, Ends, Actors
  <2>2. Begun'
    BY <1>1, <1>3, IdleIsCall DEF Reviewed, Begun, Ends, Actors, Done
  <2>3. Released' /\ Paired(hist, approvals)'
    BY <1>3 DEF Reviewed, Released, Ends
  <2>4. Accepts(hist, approvals, call["loop"])' /\ Publishes(hist, approvals, call["loop"])'
    <3>1. CASE call'["loop"] = call["loop"]
      BY <1>3, <3>1 DEF Reviewed, Ends
    <3>2. CASE call'["loop"] = Idle
      <4>1. Accepts(hist', approvals', Idle) /\ Publishes(hist', approvals', Idle)
        BY IdleIsCall DEF Accepts, Publishes, InAccept
      <4>. QED
        BY <3>2, <4>1
    <3>. QED
      BY <3>1, <3>2 DEF Ends, Actors
  <2>. QED
    BY <2>1, <2>2, <2>3, <2>4 DEF Reviewed
<1>4. ASSUME Outdated PROVE Outdated'
  BY <1>1, <1>4, IdleIsCall DEF Outdated, Ends, Actors
<1>. QED
  BY <1>2, <1>3, <1>4 DEF IInv

(* What remains to be done about a question approved without a ledger. *)
LEMMA OutdatedHeads ==
    ASSUME Typed, Outdated, NEW a \in Actors, Busy(a)
    PROVE  /\ a = "loop"
           /\ Head(call[a].left) \in
                 Projections \cup FreezingSteps \cup {<<"export", "case">>, <<"advance", "case">>}
<1>1. a = "loop" /\ IsSeq(call[a].left)
  BY DEF Outdated, Busy, Actors, Typed, IsCall
<1>. QED
  BY <1>1, TailShrinks DEF Outdated, Busy, Plan

(* It stays as it is. *)
LEMMA OutdatedGoesOn ==
    ASSUME Typed, Outdated, NEW a \in Actors, Busy(a), NEW at, Moves(a, at),
           UNCHANGED <<candidate, approvals, release>>
    PROVE  Outdated'
<1>1. a = "loop"
  BY OutdatedHeads
<1>2. call'["job"] = call["job"] /\ Plan(call'["loop"]) \subseteq Plan(call["loop"])
  BY <1>1, PlanShrinks DEF Moves, Actors
<1>. QED
  BY <1>2 DEF Outdated

-----------------------------------------------------------------------------
(* An acceptance, step by step. *)

(* Writes of others that do not approve leave an acceptance as it is. *)
LEMMA AcceptsUnmoved ==
    ASSUME NEW h, NEW ap, NEW g, NEW aq, NEW c, Grows(h, ap, g, aq), Accepts(h, ap, c),
           \A i \in DOMAIN g["gold"] : i \notin DOMAIN h["gold"] => g["gold"][i].life \notin Granted,
           Len(g["case"]) = Len(h["case"]) \/ h["case"][Len(h["case"])].life # "approved"
    PROVE  Accepts(g, aq, c)
<1>1. SUFFICES ASSUME InAccept(c)
               PROVE  /\ Plan(c) \cap Projections = {}
                      /\ \A k \in Kinds : c.at[k] \in DOMAIN g[k] /\ Marked(g, c, k) /\ Signed(g, aq, c, k)
                      /\ CasePromoted(g, aq, c) /\ GoldOpen(g, c)
  BY DEF Accepts
<1>2. /\ Plan(c) \cap Projections = {}
      /\ \A k \in Kinds : c.at[k] \in DOMAIN h[k] /\ Marked(h, c, k) /\ Signed(h, ap, c, k)
      /\ CasePromoted(h, ap, c) /\ GoldOpen(h, c)
  BY <1>1 DEF Accepts
<1>3. \A k \in Kinds : c.at[k] \in DOMAIN g[k] /\ g[k][c.at[k]] = h[k][c.at[k]]
  BY <1>2 DEF Grows
<1>4. \A k \in Kinds : Marked(g, c, k) /\ Signed(g, aq, c, k)
  BY <1>2, <1>3 DEF Marked, Signed, Grows
<1>5. CasePromoted(g, aq, c)
  <2>1. SUFFICES ASSUME Done(c, "promote", "case")
                 PROVE  /\ c.at["case"] = Len(g["case"]) /\ g["case"][c.at["case"]].life = "approved"
                        /\ ApprovedBy(g, aq, "case", c.at["case"], c.who)
    BY DEF CasePromoted
  <2>2. /\ c.at["case"] = Len(h["case"]) /\ h["case"][c.at["case"]].life = "approved"
        /\ ApprovedBy(h, ap, "case", c.at["case"], c.who)
    BY <1>2, <2>1 DEF CasePromoted
  <2>3. ApprovedBy(g, aq, "case", c.at["case"], c.who)
    BY <1>2, <2>2, GrowthKeeps DEF Kinds
  <2>. QED
    BY <1>3, <2>2, <2>3 DEF Kinds
<1>6. GoldOpen(g, c)
  BY <1>2 DEF GoldOpen, Grows, Kinds
<1>. QED
  BY <1>2, <1>3, <1>4, <1>5, <1>6

(* Writes of others leave a publication as it is. *)
LEMMA PublishesUnmoved ==
    ASSUME NEW h, NEW ap, NEW g, NEW aq, NEW c, Grows(h, ap, g, aq), Publishes(h, ap, c), Sound(c)
    PROVE  Publishes(g, aq, c)
<1>1. c.op \in {"publish", "export"} /\ Done(c, "select", "case") => Selected(g, aq, c.at)
  BY GrowthKeeps DEF Publishes
<1>2. ASSUME c.op = "publish", Done(c, "validate", "case"), ~ Done(c, "put", "case")
      PROVE  AllFrozen(g, c.at)
  <2>1. Done(c, "select", "case")
    <3>1. Rank(<<"select", "case">>) = 1 /\ Rank(<<"validate", "case">>) = 5
      BY Ranks
    <3>2. <<"validate", "case">> \in StepsOf("publish")
      BY DEF StepsOf
    <3>. QED
      BY <1>2, <3>1, <3>2 DEF Sound, Done
  <2>2. Selected(h, ap, c.at) /\ AllFrozen(h, c.at)
    BY <1>2, <2>1 DEF Publishes
  <2>. QED
    BY <2>2, GrowthKeeps
<1>. QED
  BY <1>1, <1>2 DEF Publishes

(* Call d is call c after a step. *)
Follows(c, d) ==
    /\ Sound(c) /\ IsCall(c) /\ c.left # <<>> /\ d.left = Tail(c.left)
    /\ d.op = c.op /\ d.who = c.who

(* The plan one step on. *)
LEMMA PlanFollows ==
    ASSUME NEW c, NEW d, Follows(c, d)
    PROVE  /\ Head(c.left) \in Plan(c) /\ Plan(d) \subseteq Plan(c)
           /\ Plan(c) \subseteq Plan(d) \cup {Head(c.left)}
           /\ Sorted(c.left) /\ Rank(Head(c.left)) # 0 =>
                 \A p \in Plan(d) : Rank(Head(c.left)) < Rank(p)
BY TailShrinks DEF Follows, Plan, IsCall

(* The step at hand comes before those that remain, and nothing is skipped. *)
LEMMA StepOrder ==
    ASSUME NEW c, NEW d, Follows(c, d), c.op \in {"accept", "publish", "export"},
           Rank(Head(c.left)) # 0
    PROVE  /\ Sorted(c.left) /\ Head(c.left) \in Plan(c)
           /\ \A p \in Plan(d) : Rank(Head(c.left)) < Rank(p)
           /\ \A p \in Plan(c) : p = Head(c.left) \/ Rank(Head(c.left)) < Rank(p)
           /\ c.op \in {"accept", "publish"} =>
                 \A q \in StepsOf(c.op) : Rank(Head(c.left)) < Rank(q) => q \in Plan(d)
<1>1. Sound(c)
  BY DEF Follows
<1>2. Sorted(c.left)
  BY <1>1 DEF Sound
<1>3. \A p \in Plan(d) : Rank(Head(c.left)) < Rank(p)
  BY <1>2, PlanFollows
<1>4. Head(c.left) \in Plan(c) /\ Plan(c) \subseteq Plan(d) \cup {Head(c.left)}
  BY PlanFollows
<1>5. ASSUME c.op \in {"accept", "publish"}, NEW q \in StepsOf(c.op), Rank(Head(c.left)) < Rank(q)
      PROVE  q \in Plan(d)
  <2>1. q \in Plan(c)
    BY <1>1, <1>4, <1>5 DEF Sound
  <2>2. q # Head(c.left)
    BY <1>5, RankIsNat
  <2>. QED
    BY <1>4, <2>1, <2>2
<1>. QED
  BY <1>2, <1>3, <1>4, <1>5

(* The ranks of an acceptance. *)
LEMMA AcceptRanks ==
    \A p \in AcceptanceSteps : Rank(p) \in 1 .. 12
BY Ranks DEF AcceptanceSteps

(* Marking comes before approving and promoting. *)
LEMMA LaterRanks ==
    \A k \in Kinds : /\ <<"mark", k>> \in AcceptanceSteps /\ Rank(<<"mark", k>>) \in {4, 5}
                     /\ <<"approve", k>> \in AcceptanceSteps /\ Rank(<<"approve", k>>) > 5
                     /\ <<"promote", k>> \in AcceptanceSteps /\ Rank(<<"promote", k>>) > 5
BY Ranks DEF AcceptanceSteps, Kinds

(* A step of an acceptance has the earlier ones behind it and the later    *)
(* ones ahead.                                                             *)
LEMMA AcceptHead ==
    ASSUME NEW h, NEW ap, NEW c, NEW d, Follows(c, d), InAccept(d), Accepts(h, ap, c)
    PROVE  /\ c.op = "accept"
           /\ Head(c.left) \in AcceptanceSteps
           /\ Head(c.left) # <<"check", "case">> => InAccept(c)
           /\ Rank(Head(c.left)) < 9
           /\ \A q \in AcceptanceSteps : q \in Plan(d) <=> Rank(Head(c.left)) < Rank(q)
           /\ \A q \in AcceptanceSteps : q \in Plan(c) <=> q = Head(c.left) \/ Rank(Head(c.left)) < Rank(q)
           /\ Plan(d) \cap Projections = {}
<1>. DEFINE p == Head(c.left)
<1>1. c.op = "accept" /\ Sorted(c.left) /\ Sound(c)
  BY DEF Follows, InAccept, Sound
<1>2. p \in Projections \cup AcceptanceSteps
  BY <1>1, PlanFollows DEF Sound, StepsOf
<1>3. <<"promote", "gold">> \in Plan(d) /\ <<"check", "case">> \notin Plan(d)
  BY DEF InAccept, Done
<1>4. p # <<"check", "case">> => InAccept(c)
  BY <1>1, <1>3, PlanFollows DEF InAccept, Done
<1>5. p \in AcceptanceSteps
  <2>1. CASE p \in Projections
    <3>1. p # <<"check", "case">>
      BY <2>1 DEF Projections
    <3>. QED
      BY <1>4, <2>1, <3>1, PlanFollows DEF Accepts
  <2>. QED
    BY <1>2, <2>1
<1>6. Rank(p) # 0 /\ Rank(p) \in Nat
  BY <1>5, AcceptRanks
<1>7. \A q \in Plan(d) : Rank(p) < Rank(q)
  BY <1>1, <1>6, PlanFollows
<1>8. Rank(p) < 9
  BY <1>3, <1>7, Ranks
<1>9. ASSUME NEW q \in AcceptanceSteps, Rank(p) < Rank(q) PROVE q \in Plan(d)
  <2>1. q \in StepsOf("accept") /\ p \in Plan(c)
    BY PlanFollows DEF StepsOf
  <2>2. q \in Plan(c)
    BY <1>1, <1>6, <1>9, <2>1 DEF Sound
  <2>3. q # p
    BY <1>6, <1>9
  <2>. QED
    BY <2>2, <2>3, PlanFollows
<1>10. Plan(d) \cap Projections = {}
  BY <1>6, <1>7, ProjectionRanks
<1>11. \A q \in AcceptanceSteps : q \in Plan(d) <=> Rank(p) < Rank(q)
  BY <1>7, <1>9
<1>12. \A q \in AcceptanceSteps : q \in Plan(c) <=> q = p \/ Rank(p) < Rank(q)
  BY <1>11, PlanFollows
<1>. QED
  BY <1>1, <1>4, <1>5, <1>8, <1>10, <1>11, <1>12

(* The check: the call holds the current Case and Gold. *)
LEMMA AcceptCheck ==
    ASSUME NEW h, NEW ap, NEW c, NEW d, Follows(c, d), Accepts(h, ap, c), IsHistory(h),
           Head(c.left) = <<"check", "case">>, \A k \in Kinds : h[k] # <<>> /\ d.at[k] = Len(h[k])
    PROVE  Accepts(h, ap, d)
<1>1. SUFFICES ASSUME InAccept(d)
               PROVE  /\ Plan(d) \cap Projections = {}
                      /\ \A k \in Kinds : d.at[k] \in DOMAIN h[k] /\ Marked(h, d, k) /\ Signed(h, ap, d, k)
                      /\ CasePromoted(h, ap, d) /\ GoldOpen(h, d)
  BY DEF Accepts
<1>2. \A q \in AcceptanceSteps : Rank(q) > 1 => q \in Plan(d)
  BY <1>1, AcceptHead, Ranks
<1>3. ~ Done(d, "promote", "case") /\ \A k \in Kinds : ~ Done(d, "mark", k) /\ ~ Done(d, "approve", k)
  BY <1>2, Ranks DEF AcceptanceSteps, Done, Kinds
<1>4. Plan(d) \cap Projections = {}
  BY <1>1, AcceptHead
<1>5. \A k \in Kinds : d.at[k] \in DOMAIN h[k]
  BY Lengthy
<1>6. GoldOpen(h, d)
  BY Lengthy DEF GoldOpen, Kinds
<1>. QED
  BY <1>3, <1>4, <1>5, <1>6 DEF Marked, Signed, CasePromoted

(* A recorded review. *)
LEMMA AcceptReview ==
    ASSUME NEW h, NEW ap, NEW c, NEW d, Follows(c, d), Accepts(h, ap, c), d.at = c.at,
           NEW k \in Kinds, Head(c.left) = <<"review", k>>
    PROVE  Accepts(h, ap, d)
<1>1. SUFFICES ASSUME InAccept(d) PROVE Accepts(h, ap, d)
  BY DEF Accepts
<1>2. InAccept(c) /\ Plan(d) \cap Projections = {}
  BY <1>1, AcceptHead
<1>3. \A name \in {"mark", "approve", "promote"}, j \in Kinds : Done(d, name, j) <=> Done(c, name, j)
  BY PlanFollows DEF Done
<1>4. \A j \in Kinds : c.at[j] \in DOMAIN h[j] /\ Marked(h, c, j) /\ Signed(h, ap, c, j)
  BY <1>2 DEF Accepts
<1>5. CasePromoted(h, ap, c) /\ GoldOpen(h, c)
  BY <1>2 DEF Accepts
<1>6. \A j \in Kinds : Marked(h, d, j) /\ Signed(h, ap, d, j)
  BY <1>3, <1>4 DEF Marked, Signed, Follows
<1>7. CasePromoted(h, ap, d) /\ GoldOpen(h, d)
  BY <1>3, <1>5 DEF CasePromoted, GoldOpen, Follows, Kinds
<1>. QED
  BY <1>2, <1>4, <1>6, <1>7 DEF Accepts

(* A revision marked as reviewed. *)
LEMMA AcceptMark ==
    ASSUME NEW h, NEW ap, NEW g, NEW c, NEW d, Follows(c, d), Accepts(h, ap, c), IsHistory(h),
           NEW k \in Kinds, NEW rev, Added(h, g, k, rev), rev.life = "reviewed",
           d.at = [c.at EXCEPT ![k] = Len(h[k]) + 1], Head(c.left) = <<"mark", k>>
    PROVE  Accepts(g, ap, d)
<1>1. SUFFICES ASSUME InAccept(d)
               PROVE  /\ Plan(d) \cap Projections = {}
                      /\ \A j \in Kinds : d.at[j] \in DOMAIN g[j] /\ Marked(g, d, j) /\ Signed(g, ap, d, j)
                      /\ CasePromoted(g, ap, d) /\ GoldOpen(g, d)
  BY DEF Accepts
<1>2. InAccept(c) /\ Plan(d) \cap Projections = {}
  BY <1>1, AcceptHead
<1>3. /\ Grows(h, ap, g, ap) /\ g[k][Len(h[k]) + 1] = rev
      /\ DOMAIN g[k] = 1 .. (Len(h[k]) + 1) /\ Len(h[k]) \in Nat
      /\ \A j \in Kinds \ {k} : g[j] = h[j]
  BY AddingGrows DEF Added
<1>4. d.at[k] = Len(h[k]) + 1 /\ \A j \in Kinds \ {k} : d.at[j] = c.at[j]
  BY DEF Follows, IsCall
<1>5. \A j \in Kinds : ~ Done(d, "approve", j) /\ ~ Done(d, "promote", j)
  <2>1. Rank(Head(c.left)) \in {4, 5}
    BY LaterRanks
  <2>2. \A q \in AcceptanceSteps : Rank(q) > 5 => q \in Plan(d)
    BY <1>1, <2>1, AcceptHead, AcceptRanks
  <2>3. \A j \in Kinds : /\ <<"approve", j>> \in AcceptanceSteps /\ Rank(<<"approve", j>>) > 5
                         /\ <<"promote", j>> \in AcceptanceSteps /\ Rank(<<"promote", j>>) > 5
    BY LaterRanks
  <2>. QED
    BY <2>2, <2>3, Zenon DEF Done
<1>6. ~ Done(d, "promote", "case")
  BY <1>5 DEF Kinds
<1>7. \A j \in Kinds : d.at[j] \in DOMAIN g[j]
  BY <1>2, <1>3, <1>4 DEF Accepts
<1>8. ASSUME NEW j \in Kinds PROVE Marked(g, d, j)
  <2>1. CASE j = k
    BY <1>3, <1>4, <2>1 DEF Marked
  <2>2. CASE j # k
    <3>1. Done(d, "mark", j) <=> Done(c, "mark", j)
      BY <2>2, PlanFollows DEF Done
    <3>2. Done(d, "promote", j) <=> Done(c, "promote", j)
      BY PlanFollows DEF Done
    <3>3. Marked(h, c, j)
      BY <1>2 DEF Accepts
    <3>. QED
      BY <1>3, <1>4, <2>2, <3>1, <3>2, <3>3 DEF Marked
  <2>. QED
    BY <2>1, <2>2
<1>9. GoldOpen(g, d)
  <2>1. CASE k = "gold"
    BY <1>3, <1>4, <2>1 DEF GoldOpen
  <2>2. CASE k # "gold"
    <3>1. GoldOpen(h, c)
      BY <1>2 DEF Accepts
    <3>. QED
      BY <1>3, <1>4, <2>2, <3>1 DEF GoldOpen, Kinds
  <2>. QED
    BY <2>1, <2>2
<1>. QED
  BY <1>2, <1>5, <1>6, <1>7, <1>8, <1>9 DEF Signed, CasePromoted

(* An approval, of a revision somebody else has written. *)
LEMMA AcceptApprove ==
    ASSUME NEW h, NEW ap, NEW aq, NEW c, NEW d, Follows(c, d), Accepts(h, ap, c), IsHistory(h),
           NEW k \in Kinds, aq = ap \cup {[kind |-> k, rev |-> c.at[k], who |-> c.who]},
           h[k][c.at[k]].actor # c.who, d.at = c.at, Head(c.left) = <<"approve", k>>
    PROVE  Accepts(h, aq, d)
<1>1. SUFFICES ASSUME InAccept(d) PROVE Accepts(h, aq, d)
  BY DEF Accepts
<1>2. InAccept(c) /\ Plan(d) \cap Projections = {}
  BY <1>1, AcceptHead
<1>3. \A name \in {"mark", "promote"}, j \in Kinds : Done(d, name, j) <=> Done(c, name, j)
  BY PlanFollows DEF Done
<1>4. \A j \in Kinds \ {k} : Done(d, "approve", j) <=> Done(c, "approve", j)
  BY PlanFollows DEF Done
<1>5. \A j \in Kinds : c.at[j] \in DOMAIN h[j] /\ Marked(h, c, j) /\ Signed(h, ap, c, j)
  BY <1>2 DEF Accepts
<1>6. CasePromoted(h, ap, c) /\ GoldOpen(h, c)
  BY <1>2 DEF Accepts
<1>7. \A j \in Kinds : Marked(h, d, j)
  BY <1>3, <1>5 DEF Marked
<1>8. ASSUME NEW j \in Kinds PROVE Signed(h, aq, d, j)
  <2>1. CASE j = k
    <3>1. PICK x : x = [kind |-> k, rev |-> c.at[k], who |-> c.who]
      OBVIOUS
    <3>2. x \in aq /\ x.kind = k /\ x.who = c.who /\ x.rev = c.at[k]
      BY <3>1
    <3>. QED
      BY <2>1, <3>2 DEF Signed, Follows
  <2>2. CASE j # k
    BY <1>3, <1>4, <1>5, <2>2 DEF Signed, Follows
  <2>. QED
    BY <2>1, <2>2
<1>9. CasePromoted(h, aq, d)
  BY <1>3, <1>6 DEF CasePromoted, ApprovedBy, Follows, Kinds
<1>10. GoldOpen(h, d)
  BY <1>6 DEF GoldOpen
<1>. QED
  BY <1>2, <1>5, <1>7, <1>8, <1>9, <1>10 DEF Accepts

(* The approved Case revision has the text that was signed. *)
LEMMA AcceptPromote ==
    ASSUME NEW h, NEW ap, NEW g, NEW c, NEW d, Follows(c, d), Accepts(h, ap, c), IsHistory(h),
           NEW k \in Kinds, k = "case", NEW rev, Added(h, g, k, rev), rev.life = "approved",
           rev.text = h["case"][c.at["case"]].text, c.at["case"] = Len(h["case"]),
           d.at = [c.at EXCEPT !["case"] = Len(h["case"]) + 1], Head(c.left) = <<"promote", "case">>
    PROVE  Accepts(g, ap, d)
<1>1. SUFFICES ASSUME InAccept(d)
               PROVE  /\ Plan(d) \cap Projections = {}
                      /\ \A j \in Kinds : d.at[j] \in DOMAIN g[j] /\ Marked(g, d, j) /\ Signed(g, ap, d, j)
                      /\ CasePromoted(g, ap, d) /\ GoldOpen(g, d)
  BY DEF Accepts
<1>2. InAccept(c) /\ Plan(d) \cap Projections = {}
  BY <1>1, AcceptHead
<1>3. /\ Grows(h, ap, g, ap) /\ g["case"][Len(h["case"]) + 1] = rev
      /\ Len(g["case"]) = Len(h["case"]) + 1
      /\ DOMAIN g["case"] = 1 .. (Len(h["case"]) + 1) /\ Len(h["case"]) \in Nat
      /\ DOMAIN h["case"] = 1 .. Len(h["case"])
      /\ g["gold"] = h["gold"]
  <2>1. /\ Grows(h, ap, g, ap) /\ g[k][Len(h[k]) + 1] = rev
        /\ Len(g[k]) = Len(h[k]) + 1
        /\ DOMAIN g[k] = 1 .. (Len(h[k]) + 1) /\ Len(h[k]) \in Nat
        /\ DOMAIN h[k] = 1 .. Len(h[k])
        /\ \A j \in Kinds \ {k} : g[j] = h[j]
    BY AddingGrows DEF Added
  <2>. QED
    BY <2>1 DEF Kinds
<1>4. d.at["case"] = Len(h["case"]) + 1 /\ d.at["gold"] = c.at["gold"]
  BY DEF Follows, IsCall, Kinds
<1>5. \A j \in Kinds : c.at[j] \in DOMAIN h[j] /\ Marked(h, c, j) /\ Signed(h, ap, c, j)
  BY <1>2 DEF Accepts
<1>6. /\ \A name \in {"mark", "approve"}, j \in Kinds : Done(d, name, j) <=> Done(c, name, j)
      /\ Done(d, "promote", "gold") <=> Done(c, "promote", "gold")
  BY PlanFollows DEF Done
<1>7. Done(d, "promote", "case") /\ ~ Done(c, "promote", "case") /\ Done(c, "approve", "case")
  <2>1. <<"approve", "case">> \in AcceptanceSteps /\ <<"promote", "case">> \in AcceptanceSteps
    BY DEF AcceptanceSteps
  <2>2. Rank(Head(c.left)) = 7 /\ Rank(<<"approve", "case">>) = 6
    BY Ranks, Zenon
  <2>3. <<"promote", "case">> \notin Plan(d)
    BY <1>1, <2>1, <2>2, AcceptHead
  <2>4. <<"promote", "case">> \in Plan(c) /\ <<"approve", "case">> \notin Plan(c)
    BY <1>1, <2>1, <2>2, AcceptHead
  <2>. QED
    BY <2>3, <2>4 DEF Done
<1>8. \A j \in Kinds : d.at[j] \in DOMAIN g[j] /\ Marked(g, d, j) /\ Signed(g, ap, d, j)
  <2>1. d.at["gold"] \in DOMAIN g["gold"] /\ Marked(g, d, "gold") /\ Signed(g, ap, d, "gold")
    BY <1>3, <1>4, <1>5, <1>6 DEF Kinds, Marked, Signed, Follows
  <2>2. d.at["case"] \in DOMAIN g["case"] /\ Marked(g, d, "case") /\ Signed(g, ap, d, "case")
    BY <1>3, <1>4, <1>7 DEF Marked, Signed
  <2>. QED
    BY <2>1, <2>2 DEF Kinds
<1>9. CasePromoted(g, ap, d)
  <2>1. Signed(h, ap, c, "case") /\ c.at["case"] \in DOMAIN h["case"]
    BY <1>5 DEF Kinds
  <2>2. h["case"][c.at["case"]].actor # c.who
    BY <1>7, <2>1 DEF Signed
  <2>3. PICK x \in ap : x.kind = "case" /\ x.who = c.who /\ x.rev = c.at["case"]
    BY <1>7, <2>1 DEF Signed
  <2>4. x.rev \in 1 .. (d.at["case"] - 1) /\ g["case"][x.rev] = h["case"][c.at["case"]]
    BY <1>3, <1>4, <2>1, <2>3 DEF Grows, Kinds
  <2>5. g["case"][d.at["case"]] = rev
    BY <1>3, <1>4
  <2>6. ApprovedBy(g, ap, "case", d.at["case"], d.who)
    BY <2>2, <2>3, <2>4, <2>5 DEF ApprovedBy, Follows
  <2>. QED
    BY <1>3, <1>4, <2>5, <2>6 DEF CasePromoted
<1>10. GoldOpen(g, d)
  <2>1. GoldOpen(h, c)
    BY <1>2 DEF Accepts
  <2>. QED
    BY <1>3, <1>4, <2>1 DEF GoldOpen
<1>. QED
  BY <1>2, <1>8, <1>9, <1>10

-----------------------------------------------------------------------------
(* The current revisions. *)

(* Approvals more leave the pair approved. *)
LEMMA PairedStays ==
    ASSUME NEW h, NEW ap, NEW aq, IsHistory(h), ap \subseteq aq, Paired(h, ap)
    PROVE  Paired(h, aq)
BY DEF Paired, Sworn, ApprovedBy

(* A revision that is not approved leaves no pair of approved ones. *)
LEMMA PairedDraft ==
    ASSUME NEW h, NEW g, NEW ap, NEW k \in Kinds, NEW rev, Added(h, g, k, rev), rev.life \notin Granted
    PROVE  Paired(g, ap)
BY DEF Added, Paired

(* A frozen revision has the text of the approved one before it. *)
LEMMA PairedFreeze ==
    ASSUME NEW h, NEW g, NEW ap, NEW k \in Kinds, NEW rev, Added(h, g, k, rev), Paired(h, ap),
           h[k] # <<>>, h[k][Len(h[k])].life \in Granted, rev.text = h[k][Len(h[k])].text
    PROVE  Paired(g, ap)
<1>1. SUFFICES ASSUME \A j \in Kinds : g[j] # <<>> /\ g[j][Len(g[j])].life \in Granted
               PROVE  Sworn(g, ap, [j \in Kinds |-> Len(g[j])])
  BY DEF Paired
<1>2. \A j \in Kinds : h[j] # <<>> /\ h[j][Len(h[j])].life \in Granted
  BY <1>1 DEF Added
<1>3. PICK who \in Reviewers : \A j \in Kinds : ApprovedBy(h, ap, j, Len(h[j]), who)
  BY <1>2 DEF Paired, Sworn
<1>4. ASSUME NEW j \in Kinds PROVE ApprovedBy(g, ap, j, Len(g[j]), who)
  <2>1. ApprovedBy(h, ap, j, Len(h[j]), who)
    BY <1>3
  <2>2. CASE j # k
    BY <2>1, <2>2 DEF Added, ApprovedBy
  <2>3. CASE j = k
    <3>1. PICK x \in ap : /\ x.kind = k /\ x.who = who /\ x.rev \in 1 .. (Len(h[k]) - 1)
                          /\ h[k][x.rev].text = h[k][Len(h[k])].text
                          /\ h[k][x.rev].actor # who
      BY <2>1, <2>3 DEF ApprovedBy
    <3>2. x.rev \in 1 .. (Len(g[k]) - 1) /\ g[k][x.rev] = h[k][x.rev] /\ g[k][Len(g[k])] = rev
      BY <3>1 DEF Added
    <3>. QED
      BY <2>3, <3>1, <3>2 DEF ApprovedBy
  <2>. QED
    BY <2>2, <2>3
<1>. QED
  BY <1>4 DEF Sworn

(* The Case is approved while the Gold is still reviewed. *)
LEMMA PairedCase ==
    ASSUME NEW h, NEW g, NEW ap, NEW c, NEW d, NEW rev, NEW k \in Kinds, k = "case",
           Added(h, g, k, rev), Follows(c, d), Accepts(h, ap, c),
           c.op = "accept", Head(c.left) = <<"promote", "case">>
    PROVE  Paired(g, ap)
<1>1. Rank(Head(c.left)) = 7
  BY Ranks, Zenon
<1>0. \A p \in Plan(c) : p = Head(c.left) \/ Rank(p) > 7
  <2>1. \A p \in Plan(c) : p = Head(c.left) \/ Rank(Head(c.left)) < Rank(p)
    BY <1>1, StepOrder
  <2>. QED
    BY <1>1, <2>1, RankIsNat
<1>2. InAccept(c)
  <2>1. <<"promote", "gold">> \in StepsOf(c.op) /\ Rank(<<"promote", "gold">>) = 9
    BY Ranks DEF StepsOf, AcceptanceSteps
  <2>2. <<"promote", "gold">> \in Plan(c)
    BY <1>1, <2>1, StepOrder, PlanFollows
  <2>3. <<"check", "case">> \notin Plan(c)
    <3>1. Rank(<<"check", "case">>) = 1 /\ Head(c.left) # <<"check", "case">>
      BY Ranks
    <3>. QED
      BY <1>0, <3>1
  <2>. QED
    BY <2>2, <2>3 DEF InAccept, Done
<1>3. Done(c, "mark", "gold")
  <2>1. Rank(<<"mark", "gold">>) = 5 /\ Head(c.left) # <<"mark", "gold">>
    BY Ranks
  <2>. QED
    BY <1>0, <2>1 DEF Done
<1>4. h["gold"][c.at["gold"]].life = "reviewed" /\ GoldOpen(h, c) /\ c.at["gold"] \in DOMAIN h["gold"]
  BY <1>2, <1>3 DEF Accepts, Marked, InAccept, Kinds
<1>5. g["gold"] = h["gold"]
  BY DEF Added, Kinds
<1>6. SUFFICES ASSUME g["gold"] # <<>>, g["gold"][Len(g["gold"])].life \in Granted
               PROVE  FALSE
  BY DEF Paired, Kinds
<1>7. IsHistory(h) /\ "gold" \in Kinds
  BY DEF Added, Kinds
<1>8. DOMAIN h["gold"] = 1 .. Len(h["gold"]) /\ Len(h["gold"]) \in Nat
  BY <1>7, Lengthy
<1>. QED
  BY <1>4, <1>5, <1>6, <1>8 DEF GoldOpen, Granted

(* The approval of the Gold completes the pair. *)
LEMMA PairedGold ==
    ASSUME NEW h, NEW g, NEW ap, NEW c, NEW d, NEW rev, NEW k \in Kinds, k = "gold",
           Added(h, g, k, rev), Follows(c, d), Accepts(h, ap, c),
           c.op = "accept", Head(c.left) = <<"promote", "gold">>,
           c.at["gold"] = Len(h["gold"]), rev.text = h["gold"][c.at["gold"]].text
    PROVE  Paired(g, ap)
<1>1. ~ Done(c, "promote", "gold") /\ \A p \in Plan(c) : Rank(p) \geq 9
  <2>1. Rank(Head(c.left)) = 9
    BY Ranks, Zenon
  <2>2. \A p \in Plan(c) : Rank(p) \geq 9
    BY <2>1, StepOrder, RankIsNat
  <2>. QED
    BY <2>2, PlanFollows, Zenon DEF Done
<1>2. Done(c, "approve", "gold") /\ Done(c, "promote", "case") /\ Done(c, "check", "case")
  BY <1>1, Ranks DEF Done
<1>3. InAccept(c)
  BY <1>1, <1>2 DEF InAccept
<1>4. /\ c.at["case"] = Len(h["case"]) /\ ApprovedBy(h, ap, "case", c.at["case"], c.who)
      /\ c.at["gold"] \in DOMAIN h["gold"] /\ Signed(h, ap, c, "gold")
  BY <1>2, <1>3 DEF Accepts, CasePromoted, Kinds
<1>5. ApprovedBy(g, ap, "case", Len(g["case"]), c.who)
  <2>1. g["case"] = h["case"]
    BY DEF Added, Kinds
  <2>. QED
    BY <1>4, <2>1 DEF ApprovedBy
<1>6. ApprovedBy(g, ap, "gold", Len(g["gold"]), c.who)
  <2>1. PICK x \in ap : x.kind = "gold" /\ x.who = c.who /\ x.rev = c.at["gold"]
    BY <1>1, <1>2, <1>4 DEF Signed
  <2>2. h["gold"][c.at["gold"]].actor # c.who
    BY <1>1, <1>2, <1>4 DEF Signed
  <2>3. /\ x.rev \in 1 .. (Len(g["gold"]) - 1) /\ g["gold"][x.rev] = h["gold"][x.rev]
        /\ g["gold"][Len(g["gold"])] = rev
    BY <1>4, <2>1 DEF Added
  <2>. QED
    BY <2>1, <2>2, <2>3 DEF ApprovedBy
<1>7. c.who \in Reviewers
  BY DEF Follows, Sound
<1>. QED
  BY <1>5, <1>6, <1>7 DEF Paired, Sworn, Kinds

-----------------------------------------------------------------------------
(* A publication, and an export, step by step. *)

(* The order of the steps of a publication. *)
LEMMA PublishHead ==
    ASSUME NEW c, NEW d, Follows(c, d), c.op \in {"publish", "export"}
    PROVE  /\ Sorted(c.left) /\ Rank(Head(c.left)) \in 1 .. 12
           /\ \A p \in Plan(d) : Rank(Head(c.left)) < Rank(p)
           /\ Rank(Head(c.left)) > 1 => Done(c, "select", "case")
           /\ c.op = "publish" /\ Rank(Head(c.left)) < 5 => ~ Done(d, "validate", "case")
<1>1. Sorted(c.left) /\ Head(c.left) \in StepsOf(c.op)
  BY PlanFollows DEF Follows, Sound
<1>2. Rank(Head(c.left)) \in 1 .. 12
  <2>1. Head(c.left) \in FreezingSteps \cup
           {<<"pin", "case">>, <<"validate", "case">>, <<"put", "case">>, <<"close", "case">>,
            <<"export", "case">>, <<"advance", "case">>}
    BY <1>1 DEF StepsOf
  <2>. QED
    BY <2>1, Ranks DEF FreezingSteps
<1>3. \A p \in Plan(d) : Rank(Head(c.left)) < Rank(p)
  BY <1>1, <1>2, PlanFollows
<1>4. Rank(Head(c.left)) > 1 => Done(c, "select", "case")
  BY <1>2, <1>3, PlanFollows, Ranks DEF Done
<1>5. ASSUME c.op = "publish", Rank(Head(c.left)) < 5
      PROVE  ~ Done(d, "validate", "case")
  <2>1. <<"validate", "case">> \in StepsOf("publish") /\ Rank(<<"validate", "case">>) = 5
    BY Ranks DEF StepsOf
  <2>2. <<"validate", "case">> \in Plan(c)
    BY <1>2, <1>5, <2>1, PlanFollows DEF Follows, Sound
  <2>3. <<"validate", "case">> # Head(c.left)
    BY <1>5, <2>1
  <2>. QED
    BY <2>2, <2>3, PlanFollows DEF Done
<1>. QED
  BY <1>1, <1>2, <1>3, <1>4, <1>5

(* A step of a publication that neither selects nor validates. *)
LEMMA PublishOnward ==
    ASSUME NEW h, NEW ap, NEW c, NEW d, Follows(c, d), Publishes(h, ap, c), d.at = c.at,
           Head(c.left) # <<"select", "case">>, Head(c.left) # <<"validate", "case">>
    PROVE  Publishes(h, ap, d)
<1>1. /\ Done(d, "select", "case") => Done(c, "select", "case")
      /\ Done(d, "validate", "case") => Done(c, "validate", "case")
      /\ ~ Done(d, "put", "case") => ~ Done(c, "put", "case")
      /\ d.op = c.op
  BY PlanFollows DEF Done, Follows
<1>. QED
  BY <1>1 DEF Publishes

(* The selection of approved revisions. *)
LEMMA PublishSelect ==
    ASSUME NEW h, NEW ap, NEW c, NEW d, Follows(c, d), Head(c.left) = <<"select", "case">>,
           Selected(h, ap, d.at)
    PROVE  Publishes(h, ap, d)
<1>1. d.op = c.op
  BY DEF Follows
<1>2. c.op = "publish" => ~ Done(d, "validate", "case")
  BY PublishHead, Ranks
<1>. QED
  BY <1>1, <1>2 DEF Publishes

(* A revision frozen. *)
LEMMA PublishFreeze ==
    ASSUME NEW h, NEW ap, NEW g, NEW c, NEW d, Follows(c, d), Publishes(h, ap, c),
           NEW k \in Kinds, Head(c.left) = <<"freeze", k>>, NEW rev, Added(h, g, k, rev),
           c.at[k] = Len(h[k]), d.at = [c.at EXCEPT ![k] = Len(h[k]) + 1],
           rev.life = "frozen", rev.text = h[k][c.at[k]].text
    PROVE  Publishes(g, ap, d)
<1>1. d.op = c.op /\ IsCall(c)
  BY DEF Follows
<1>2. SUFFICES ASSUME c.op \in {"publish", "export"}
               PROVE  Selected(g, ap, d.at) /\ (c.op = "publish" => ~ Done(d, "validate", "case"))
  BY <1>1 DEF Publishes
<1>3. Rank(<<"freeze", k>>) \in {2, 3}
  BY Ranks DEF Kinds
<1>4. Done(c, "select", "case") /\ (c.op = "publish" => ~ Done(d, "validate", "case"))
  BY <1>2, <1>3, PublishHead
<1>5. Selected(h, ap, c.at)
  BY <1>2, <1>4 DEF Publishes
<1>6. d.at[k] = Len(h[k]) + 1 /\ \A j \in Kinds \ {k} : d.at[j] = c.at[j]
  BY <1>1 DEF IsCall
<1>7. \A j \in Kinds : d.at[j] \in DOMAIN g[j] /\ g[j][d.at[j]].life \in Granted
  <2>1. d.at[k] \in DOMAIN g[k] /\ g[k][d.at[k]] = rev
    BY <1>6 DEF Added
  <2>2. \A j \in Kinds \ {k} : d.at[j] \in DOMAIN g[j] /\ g[j][d.at[j]].life \in Granted
    BY <1>5, <1>6 DEF Added, Selected
  <2>. QED
    BY <2>1, <2>2 DEF Granted
<1>8. Sworn(g, ap, d.at)
  <2>1. PICK who \in Reviewers : \A j \in Kinds : ApprovedBy(h, ap, j, c.at[j], who)
    BY <1>5 DEF Selected, Sworn
  <2>2. ASSUME NEW j \in Kinds PROVE ApprovedBy(g, ap, j, d.at[j], who)
    <3>1. CASE j # k
      <4>1. ApprovedBy(h, ap, j, c.at[j], who) /\ g[j] = h[j] /\ d.at[j] = c.at[j]
        BY <1>6, <2>1, <3>1 DEF Added
      <4>. QED
        BY <4>1 DEF ApprovedBy
    <3>2. CASE j = k
      <4>1. PICK x \in ap : /\ x.kind = k /\ x.who = who /\ x.rev \in 1 .. (c.at[k] - 1)
                            /\ h[k][x.rev].text = h[k][c.at[k]].text
                            /\ h[k][x.rev].actor # who
        BY <2>1 DEF ApprovedBy
      <4>2. x.rev \in 1 .. (d.at[k] - 1) /\ g[k][x.rev] = h[k][x.rev] /\ g[k][d.at[k]] = rev
        BY <1>6, <4>1 DEF Added
      <4>. QED
        BY <3>2, <4>1, <4>2 DEF ApprovedBy
    <3>. QED
      BY <3>1, <3>2
  <2>. QED
    BY <2>1, <2>2 DEF Sworn
<1>. QED
  BY <1>4, <1>7, <1>8 DEF Selected

-----------------------------------------------------------------------------
(* The steps of a call. *)

(* An actor between calls has nothing to account for. *)
LEMMA IdleIsTrivial ==
    \A h, ap : Accepts(h, ap, Idle) /\ Publishes(h, ap, Idle)
BY IdleIsCall DEF Accepts, Publishes, InAccept

(* A call that goes on follows the one before. *)
LEMMA CallFollows ==
    ASSUME Typed, Planned, NEW a \in Actors, Busy(a), NEW at, Moves(a, at), call'[a] # Idle
    PROVE  Follows(call[a], call'[a]) /\ call'[a].at = at
BY DEF Follows, Typed, Planned, Busy, Moves, Onward

(* Only an acceptance, a publication and an export say something of the   *)
(* revisions their call holds.                                             *)
LEMMA OtherCalls ==
    ASSUME NEW c, c.op \notin {"accept", "publish", "export"}
    PROVE  \A h, ap : Accepts(h, ap, c) /\ Publishes(h, ap, c)
BY DEF Accepts, Publishes, InAccept

(* No other step leads into the middle of an acceptance. *)
LEMMA AcceptOther ==
    ASSUME NEW h, NEW ap, NEW c, NEW d, Follows(c, d), Accepts(h, ap, c),
           \A k \in Kinds : Head(c.left) \notin {<<"review", k>>, <<"mark", k>>, <<"approve", k>>},
           Head(c.left) # <<"promote", "case">>, Head(c.left) # <<"check", "case">>
    PROVE  ~ InAccept(d)
<1>1. SUFFICES ASSUME InAccept(d) PROVE FALSE
  OBVIOUS
<1>2. Head(c.left) \in AcceptanceSteps /\ Rank(Head(c.left)) < 9
  BY <1>1, AcceptHead
<1>3. Head(c.left) \in {<<"promote", "gold">>, <<"save", "case">>, <<"file", "case">>, <<"advance", "case">>}
  BY <1>2 DEF AcceptanceSteps, Kinds
<1>. QED
  BY <1>2, <1>3, Ranks

(* A step that leaves ledger and releases alone. *)
LEMMA QuietKeeps ==
    ASSUME IInv, NEW a \in Actors, Busy(a), NEW at, Moves(a, at),
           UNCHANGED <<hist, approvals, marker, release>>,
           \/ call[a].op \notin {"accept", "publish", "export"}
           \/ /\ at = call[a].at
              /\ \A k \in Kinds : Head(call[a].left) \notin {<<"mark", k>>, <<"approve", k>>, <<"promote", k>>}
              /\ Head(call[a].left) \notin {<<"check", "case">>, <<"select", "case">>, <<"validate", "case">>},
           Head(call[a].left) \notin {<<"import", "case">>, <<"create", "case">>},
           candidate' = candidate \/ IsContent(candidate'),
           Reviewed => \/ candidate' = candidate \/ candidate'.state # "approved"
                       \/ hist["case"] # <<>>,
           Reviewed => approvedCase' = approvedCase \/ hist["case"] # <<>>,
           Outdated => candidate' = candidate
    PROVE  IInv'
<1>1. Typed /\ IsHistory(hist) /\ IsHistory(hist')
  BY DEF IInv, Typed
<1>2. Typed'
  BY <1>1, TypedGoesOn
<1>3. Outdated => Outdated'
  BY <1>1, OutdatedGoesOn
<1>4. ASSUME Reviewed PROVE Reviewed'
  <2>1. Planned'
    BY <1>1, <1>4, PlannedGoesOn DEF Reviewed
  <2>2. Begun'
    BY <1>1, <1>4, BegunGoesOn DEF Reviewed
  <2>3. Released' /\ Paired(hist, approvals)'
    BY <1>4 DEF Reviewed, Released
  <2>4. Accepts(hist, approvals, call'["loop"]) /\ Publishes(hist, approvals, call'["loop"])
    <3>1. CASE a # "loop"
      BY <1>4, <3>1 DEF Reviewed, Moves, Actors
    <3>2. CASE a = "loop" /\ call'["loop"] = Idle
      BY <3>2, IdleIsTrivial
    <3>3. CASE a = "loop" /\ call'["loop"] # Idle
      <4>1. Follows(call["loop"], call'["loop"]) /\ call'["loop"].at = at
        BY <1>1, <1>4, <3>3, CallFollows DEF Reviewed
      <4>2. Accepts(hist, approvals, call["loop"]) /\ Publishes(hist, approvals, call["loop"])
        BY <1>4 DEF Reviewed
      <4>3. CASE call["loop"].op \notin {"accept", "publish", "export"}
        <5>1. call'["loop"].op \notin {"accept", "publish", "export"}
          BY <4>1, <4>3 DEF Follows
        <5>. QED
          BY <5>1, OtherCalls
      <4>4. CASE call["loop"].op \in {"accept", "publish", "export"}
        <5>1. /\ call'["loop"].at = call["loop"].at
              /\ \A k \in Kinds : Head(call["loop"].left) \notin {<<"mark", k>>, <<"approve", k>>, <<"promote", k>>}
              /\ Head(call["loop"].left) \notin {<<"check", "case">>, <<"select", "case">>, <<"validate", "case">>}
          BY <3>3, <4>1, <4>4
        <5>2. Publishes(hist, approvals, call'["loop"])
          BY <4>1, <4>2, <5>1, PublishOnward
        <5>3. Accepts(hist, approvals, call'["loop"])
          <6>1. CASE \E k \in Kinds : Head(call["loop"].left) = <<"review", k>>
            BY <4>1, <4>2, <5>1, <6>1, AcceptReview
          <6>2. CASE ~ \E k \in Kinds : Head(call["loop"].left) = <<"review", k>>
            <7>1. ~ InAccept(call'["loop"])
              BY <4>1, <4>2, <5>1, <6>2, AcceptOther DEF Kinds
            <7>. QED
              BY <7>1 DEF Accepts
          <6>. QED
            BY <6>1, <6>2
        <5>. QED
          BY <5>2, <5>3
      <4>. QED
        BY <4>3, <4>4
    <3>. QED
      BY <3>1, <3>2, <3>3
  <2>. QED
    BY <2>1, <2>2, <2>3, <2>4 DEF Reviewed
<1>. QED
  BY <1>2, <1>3, <1>4 DEF IInv

(* A new revision that is not approved. *)
LEMMA DraftKeeps ==
    ASSUME IInv, NEW a \in Actors, Busy(a), NEW k \in Kinds, NEW rev, Added(hist, hist', k, rev),
           Moves(a, [call[a].at EXCEPT ![k] = Len(hist[k]) + 1]),
           UNCHANGED <<candidate, approvedCase, approvals, marker, release>>,
           Head(call[a].left) \in {<<"import", "case">>, <<"create", "case">>} => k = "case",
           Reviewed => rev.life \notin Granted,
           Reviewed /\ a = "job" /\ k = "case" =>
              hist["case"] = <<>> \/ hist["case"][Len(hist["case"])].life # "approved",
           \/ Head(call[a].left) = <<"mark", k>> /\ rev.life = "reviewed"
           \/ Head(call[a].left) \in Projections
           \/ call[a].op \notin {"accept", "publish", "export"}
    PROVE  IInv'
<1>0. Grows(hist, approvals, hist', approvals)
  BY AddingGrows
<1>1. Typed /\ IsHistory(hist) /\ IsHistory(hist')
  BY DEF IInv, Added
<1>2. Typed'
  BY <1>1, TypedGoesOn
<1>3. Outdated => Outdated'
  BY <1>1, OutdatedGoesOn
<1>4. ASSUME Reviewed PROVE Reviewed'
  <2>1. Planned'
    BY <1>1, <1>4, PlannedGoesOn DEF Reviewed
  <2>2. Begun'
    <3>1. hist["case"] # <<>> => hist'["case"] # <<>>
      BY <1>0, GrowthKeeps DEF Kinds
    <3>2. k = "case" => hist'["case"] # <<>>
      BY DEF Added
    <3>. QED
      BY <1>1, <1>4, <3>1, <3>2, BegunGoesOn DEF Reviewed
  <2>3. Released'
    BY <1>0, <1>4, GrowthKeeps DEF Reviewed, Released
  <2>4. Paired(hist', approvals)
    BY <1>4, PairedDraft
  <2>5. Accepts(hist', approvals, call'["loop"]) /\ Publishes(hist', approvals, call'["loop"])
    <3>0. /\ Accepts(hist, approvals, call["loop"]) /\ Publishes(hist, approvals, call["loop"])
          /\ Sound(call["loop"])
      BY <1>4 DEF Reviewed, Planned, Actors
    <3>1. CASE a # "loop"
      <4>1. a = "job" /\ call'["loop"] = call["loop"]
        BY <3>1 DEF Moves, Actors
      <4>2. Publishes(hist', approvals, call["loop"])
        BY <1>0, <3>0, PublishesUnmoved
      <4>3. CASE hist["case"] = <<>>
        <5>1. ~ InAccept(call["loop"])
          <6>1. DOMAIN hist["case"] = {}
            BY <4>3, EmptySeq
          <6>. QED
            BY <3>0, <6>1 DEF Accepts, Kinds
        <5>. QED
          BY <4>1, <4>2, <5>1 DEF Accepts
      <4>4. CASE hist["case"] # <<>>
        <5>1. Len(hist'["case"]) = Len(hist["case"]) \/ hist["case"][Len(hist["case"])].life # "approved"
          <6>1. CASE k = "case"
            BY <1>4, <4>1, <4>4, <6>1
          <6>2. CASE k # "case"
            BY <6>2 DEF Added, Kinds
          <6>. QED
            BY <6>1, <6>2
        <5>2. \A i \in DOMAIN hist'["gold"] : i \notin DOMAIN hist["gold"] => hist'["gold"][i].life \notin Granted
          <6>1. CASE k = "gold"
            BY <1>4, <6>1 DEF Added
          <6>2. CASE k # "gold"
            BY <6>2 DEF Added, Kinds
          <6>. QED
            BY <6>1, <6>2
        <5>3. Accepts(hist', approvals, call["loop"])
          BY <1>0, <3>0, <5>1, <5>2, AcceptsUnmoved
        <5>. QED
          BY <4>1, <4>2, <5>3
      <4>. QED
        BY <4>3, <4>4
    <3>2. CASE a = "loop" /\ call'["loop"] = Idle
      BY <3>2, IdleIsTrivial
    <3>3. CASE a = "loop" /\ call'["loop"] # Idle
      <4>1. /\ Follows(call["loop"], call'["loop"])
            /\ call'["loop"].at = [call["loop"].at EXCEPT ![k] = Len(hist[k]) + 1]
        BY <1>1, <1>4, <3>3, CallFollows DEF Reviewed
      <4>2. call'["loop"].op = call["loop"].op /\ Head(call["loop"].left) \in StepsOf(call["loop"].op)
        BY <3>0, <4>1, PlanFollows DEF Follows, Sound
      <4>3. CASE call["loop"].op \notin {"accept", "publish", "export"}
        BY <4>2, <4>3, OtherCalls
      <4>4. CASE call["loop"].op \in {"publish", "export"}
        BY <3>3, <4>2, <4>4 DEF StepsOf, Projections, FreezingSteps
      <4>5. CASE call["loop"].op = "accept"
        <5>1. Publishes(hist', approvals, call'["loop"])
          BY <4>2, <4>5 DEF Publishes
        <5>2. CASE Head(call["loop"].left) \in Projections
          <6>1. ~ InAccept(call'["loop"])
            BY <3>0, <4>1, <5>2, AcceptHead, ProjectionRanks, AcceptRanks
          <6>. QED
            BY <5>1, <6>1 DEF Accepts
        <5>3. CASE Head(call["loop"].left) = <<"mark", k>> /\ rev.life = "reviewed"
          BY <1>1, <3>0, <4>1, <5>1, <5>3, AcceptMark
        <5>. QED
          BY <3>3, <4>5, <5>2, <5>3
      <4>. QED
        BY <4>3, <4>4, <4>5
    <3>. QED
      BY <3>1, <3>2, <3>3
  <2>. QED
    BY <2>1, <2>2, <2>3, <2>4, <2>5 DEF Reviewed
<1>. QED
  BY <1>2, <1>3, <1>4 DEF IInv

(* The steps of an edit or a rejection, by name. *)
LEMMA DecisionNames ==
    \A p \in DecisionSteps :
       p[1] \in {"import", "adopt", "save", "open", "review", "revise", "propose", "turn down", "branch"}
BY DEF DecisionSteps

(* Who makes the steps of an acceptance, and those of a publication. *)
LEMMA Owners ==
    ASSUME Typed, Planned, NEW a \in Actors, Busy(a)
    PROVE  LET step == Head(call[a].left)
           IN /\ step \in {<<"check", "case">>, <<"file", "case">>} \/
                 (\E k \in Kinds : step \in {<<"mark", k>>, <<"approve", k>>, <<"promote", k>>})
                 => a = "loop" /\ call[a].op = "accept"
              /\ step = <<"select", "case">> \/ (\E k \in Kinds : step = <<"freeze", k>>)
                 => a = "loop" /\ call[a].op \in {"publish", "export"}
              /\ step \in {<<"pin", "case">>, <<"validate", "case">>, <<"put", "case">>, <<"close", "case">>}
                 => a = "loop" /\ call[a].op = "publish"
              /\ step = <<"branch", "gold">> => a = "loop" /\ call[a].op \in {"edit", "reject"}
              /\ a = "job" => step \in JobSteps
<1>. DEFINE step == Head(call[a].left)
<1>1. step \in Plan(call[a]) /\ Sound(call[a])
  BY TailShrinks DEF Typed, Planned, IsCall, Busy, Plan
<1>2. step \in StepsOf(call[a].op)
  BY <1>1 DEF Sound
<1>3. a = "job" => step \in JobSteps
  BY <1>1 DEF Planned
<1>. HIDE DEF step
<1>4. ASSUME step \in {<<"check", "case">>, <<"file", "case">>} \/
             (\E k \in Kinds : step \in {<<"mark", k>>, <<"approve", k>>, <<"promote", k>>})
      PROVE  a = "loop" /\ call[a].op = "accept"
  <2>1. step \in {<<"check", "case">>, <<"file", "case">>, <<"mark", "case">>, <<"approve", "case">>,
                  <<"promote", "case">>, <<"mark", "gold">>, <<"approve", "gold">>, <<"promote", "gold">>}
    BY <1>4 DEF Kinds
  <2>2. /\ step \notin JobSteps /\ step \notin Projections /\ step \notin FreezingSteps
        /\ step \notin DecisionSteps
    <3>1. step \notin JobSteps /\ step \notin Projections /\ step \notin FreezingSteps
      BY <2>1 DEF JobSteps, Projections, FreezingSteps
    <3>2. step[1] \in {"check", "file", "mark", "approve", "promote"}
      BY <2>1
    <3>. QED
      BY <3>1, <3>2, DecisionNames
  <2>3. step \notin StepsOf("publish") /\ step \notin StepsOf("export")
    BY <2>1, <2>2 DEF StepsOf
  <2>. QED
    BY <1>2, <1>3, <2>2, <2>3 DEF StepsOf, Actors
<1>5. ASSUME step = <<"select", "case">> \/ (\E k \in Kinds : step = <<"freeze", k>>)
      PROVE  a = "loop" /\ call[a].op \in {"publish", "export"}
  <2>1. step \in {<<"select", "case">>, <<"freeze", "case">>, <<"freeze", "gold">>}
    BY <1>5 DEF Kinds
  <2>2. /\ step \notin JobSteps /\ step \notin Projections /\ step \notin AcceptanceSteps
        /\ step \notin DecisionSteps
    <3>1. step \notin JobSteps /\ step \notin Projections /\ step \notin AcceptanceSteps
      BY <2>1 DEF JobSteps, Projections, AcceptanceSteps
    <3>2. step[1] \in {"select", "freeze"}
      BY <2>1
    <3>. QED
      BY <3>1, <3>2, DecisionNames
  <2>. QED
    BY <1>2, <1>3, <2>2 DEF StepsOf, Actors
<1>6. ASSUME step \in {<<"pin", "case">>, <<"validate", "case">>, <<"put", "case">>, <<"close", "case">>}
      PROVE  a = "loop" /\ call[a].op = "publish"
  <2>1. /\ step \notin JobSteps /\ step \notin Projections /\ step \notin AcceptanceSteps
        /\ step \notin DecisionSteps /\ step \notin FreezingSteps
    <3>1. /\ step \notin JobSteps /\ step \notin Projections /\ step \notin AcceptanceSteps
          /\ step \notin FreezingSteps
      BY <1>6 DEF JobSteps, Projections, AcceptanceSteps, FreezingSteps
    <3>2. step[1] \in {"pin", "validate", "put", "close"}
      BY <1>6
    <3>. QED
      BY <3>1, <3>2, DecisionNames
  <2>2. step \notin StepsOf("export")
    BY <1>6, <2>1 DEF StepsOf
  <2>. QED
    BY <1>2, <1>3, <2>1, <2>2 DEF StepsOf, Actors
<1>7. ASSUME step = <<"branch", "gold">>
      PROVE  a = "loop" /\ call[a].op \in {"edit", "reject"}
  <2>1. /\ step \notin JobSteps /\ step \notin Projections /\ step \notin AcceptanceSteps
        /\ step \notin FreezingSteps
    BY <1>7 DEF JobSteps, Projections, AcceptanceSteps, FreezingSteps
  <2>2. step \notin StepsOf("export") /\ step \notin StepsOf("publish")
    BY <1>7, <2>1 DEF StepsOf
  <2>. QED
    BY <1>2, <1>3, <2>1, <2>2 DEF StepsOf, Actors
<1>. QED
  BY <1>3, <1>4, <1>5, <1>6, <1>7 DEF step

(* What every step but the projection of a candidate leaves. *)
LEMMA CommonGoesOn ==
    ASSUME IInv, NEW a \in Actors, Busy(a), NEW at, Moves(a, at),
           Grows(hist, approvals, hist', approvals'), UNCHANGED <<candidate, approvedCase>>,
           marker' = marker \/ marker' \in [Kinds -> Nat],
           Head(call[a].left) \notin {<<"import", "case">>, <<"create", "case">>}
    PROVE  /\ Typed' /\ (Reviewed => Planned' /\ Begun')
           /\ UNCHANGED <<approvals, release>> /\ Outdated => Outdated'
<1>1. Typed /\ IsHistory(hist')
  BY DEF IInv, Grows
<1>2. Typed'
  BY <1>1, TypedGoesOn
<1>3. UNCHANGED <<approvals, release>> /\ Outdated => Outdated'
  BY <1>1, OutdatedGoesOn
<1>4. hist["case"] # <<>> => hist'["case"] # <<>>
  BY GrowthKeeps DEF Kinds
<1>5. ASSUME Reviewed PROVE Planned' /\ Begun'
  <2>1. Planned'
    BY <1>1, <1>5, PlannedGoesOn DEF Reviewed
  <2>2. Begun'
    BY <1>1, <1>4, <1>5, BegunGoesOn DEF Reviewed
  <2>. QED
    BY <2>1, <2>2
<1>. QED
  BY <1>2, <1>3, <1>5

(* The check of _formal_accept that the reviewer wrote neither. *)
LEMMA CheckKeeps ==
    ASSUME IInv, NEW a \in Actors, CheckAccept(a)
    PROVE  IInv'
<1>1. /\ Typed /\ IsHistory(hist) /\ Busy(a) /\ Head(call[a].left) = <<"check", "case">>
      /\ UNCHANGED <<hist, approvals, candidate, approvedCase, marker, release>>
  BY DEF IInv, Typed, CheckAccept, StepIs, ledgerVars, fileVars, releaseVars
<1>2. CASE call' = [call EXCEPT ![a] = Idle]
  <2>1. Ends
    BY <1>1, <1>2, RaiseEnds DEF Ends
  <2>. QED
    BY <2>1, EndingKeeps
<1>3. CASE hist["gold"] # <<>> /\ Settle(a, [call[a] EXCEPT !.left = Tail(@), !.at = Lengths])
  <2>1. Lengths \in [Kinds -> Nat]
    BY <1>1, Lengthy DEF Lengths
  <2>2. Moves(a, Lengths)
    BY <1>1, <1>3, <2>1, TakeMoves
  <2>3. ~ Outdated
    <3>1. Head(call[a].left) \notin Projections \cup FreezingSteps \cup {<<"export", "case">>, <<"advance", "case">>}
      BY <1>1 DEF Projections, FreezingSteps
    <3>. QED
      BY <1>1, <3>1, OutdatedHeads
  <2>4. Reviewed /\ Planned
    BY <2>3 DEF IInv, Reviewed
  <2>5. a = "loop" /\ call["loop"].op = "accept"
    BY <1>1, <2>4, Owners
  <2>6. Grows(hist, approvals, hist', approvals')
    BY <1>1, StayingGrows
  <2>7. Typed' /\ Planned' /\ Begun'
    BY <1>1, <2>2, <2>4, <2>6, CommonGoesOn
  <2>8. Released' /\ Paired(hist, approvals)'
    BY <1>1, <2>4 DEF Reviewed, Released
  <2>9. Accepts(hist, approvals, call'["loop"]) /\ Publishes(hist, approvals, call'["loop"])
    <3>1. CASE call'["loop"] = Idle
      BY <3>1, IdleIsTrivial
    <3>2. CASE call'["loop"] # Idle
      <4>1. Follows(call["loop"], call'["loop"]) /\ call'["loop"].at = Lengths
        BY <1>1, <2>2, <2>4, <2>5, <3>2, CallFollows
      <4>2. hist["case"] # <<>>
        <5>1. Rank(Head(call["loop"].left)) = 1
          BY <1>1, <2>5, Ranks, Zenon
        <5>2. Done(call["loop"], "import", "case")
          <6>1. \A p \in Plan(call["loop"]) : Rank(p) \geq 1
            BY <2>5, <4>1, <5>1, StepOrder, RankIsNat
          <6>. QED
            BY <6>1, Ranks DEF Done, Kinds
        <5>3. <<"check", "case">> \in Plan(call["loop"])
          BY <1>1, <2>5, <4>1, PlanFollows
        <5>. QED
          BY <2>4, <2>5, <5>2, <5>3 DEF Reviewed, Begun
      <4>3. \A k \in Kinds : hist[k] # <<>> /\ call'["loop"].at[k] = Len(hist[k])
        BY <1>3, <4>1, <4>2 DEF Kinds, Lengths
      <4>4. Accepts(hist, approvals, call["loop"])
        BY <2>4 DEF Reviewed
      <4>5. Accepts(hist, approvals, call'["loop"])
        BY <1>1, <2>5, <4>1, <4>3, <4>4, AcceptCheck
      <4>6. Publishes(hist, approvals, call'["loop"])
        BY <2>5, <4>1 DEF Publishes, Follows
      <4>. QED
        BY <4>5, <4>6
    <3>. QED
      BY <3>1, <3>2
  <2>. QED
    BY <1>1, <2>7, <2>8, <2>9 DEF IInv, Reviewed
<1>. QED
  BY <1>2, <1>3 DEF CheckAccept

(* A call that fails. *)
LEMMA RaisingKeeps ==
    ASSUME IInv, NEW a \in Actors, call' = [call EXCEPT ![a] = Idle],
           UNCHANGED <<hist, approvals, candidate, approvedCase, marker, release>>
    PROVE  IInv'
<1>1. Ends
  BY RaiseEnds DEF IInv, Ends
<1>. QED
  BY <1>1, EndingKeeps

(* An operation whose condition fails. *)
LEMMA RaiseKeeps ==
    ASSUME IInv, NEW a \in Actors, Raise(a)
    PROVE  IInv'
BY RaisingKeeps DEF Raise, ledgerVars, fileVars, releaseVars

(* The revision after the one held is written, or the call ends. *)
LEMMA SucceedCases ==
    ASSUME IInv, NEW a \in Actors, Busy(a), NEW k \in Kinds, NEW life, NEW actor,
           Succeed(a, k, life, actor)
    PROVE  \/ IInv'
           \/ /\ UNCHANGED <<candidate, approvedCase, approvals, marker, release>>
              /\ call[a].at[k] = Len(hist[k])
              /\ \E pin : Added(hist, hist', k, Revision(life, hist[k][call[a].at[k]].text, actor, pin))
              /\ Moves(a, [call[a].at EXCEPT ![k] = Len(hist[k]) + 1])
<1>1. Typed /\ call[a].at[k] \in Nat /\ Len(hist[k]) \in Nat
  BY Lengthy DEF IInv, Typed, IsCall
<1>2. PICK pin : WriteRevision(a, k, call[a].at[k] + 1, Revision(life, hist[k][call[a].at[k]].text, actor, pin))
  BY DEF Succeed, Target
<1>3. PICK n, rev : /\ n = call[a].at[k] + 1 /\ rev = Revision(life, hist[k][call[a].at[k]].text, actor, pin)
                    /\ WriteRevision(a, k, n, rev)
  BY <1>2
<1>4. n \in Nat /\ call[a].at[k] = n - 1
  BY <1>1, <1>3
<1>5. /\ UNCHANGED <<candidate, approvedCase, approvals, marker, release>>
      /\ \/ /\ n = Len(hist[k]) + 1 /\ Added(hist, hist', k, rev)
            /\ Moves(a, [call[a].at EXCEPT ![k] = Len(hist[k]) + 1])
         \/ Len(hist[k]) >= n /\ hist' = hist /\ call' = [call EXCEPT ![a] = Idle]
  BY <1>1, <1>3, <1>4, WriteCases
<1>6. CASE /\ n = Len(hist[k]) + 1 /\ Added(hist, hist', k, rev)
           /\ Moves(a, [call[a].at EXCEPT ![k] = Len(hist[k]) + 1])
  <2>1. call[a].at[k] = Len(hist[k])
    BY <1>1, <1>4, <1>6
  <2>. QED
    BY <1>3, <1>5, <1>6, <2>1, Zenon
<1>7. CASE hist' = hist /\ call' = [call EXCEPT ![a] = Idle]
  BY <1>5, <1>7, RaisingKeeps
<1>. QED
  BY <1>5, <1>6, <1>7

(* What Revision makes of its arguments. *)
LEMMA RevisionFields ==
    \A life, text, actor, pin :
       /\ Revision(life, text, actor, pin).life = life /\ Revision(life, text, actor, pin).text = text
       /\ Revision(life, text, actor, pin).pin = pin
BY DEF Revision

(* Only an export freezes a question that was approved before the ledger. *)
LEMMA NotOutdated ==
    ASSUME IInv, NEW a \in Actors, Busy(a),
           Head(call[a].left) \notin
              Projections \cup FreezingSteps \cup {<<"export", "case">>, <<"advance", "case">>}
    PROVE  Reviewed /\ Planned /\ ~ Outdated
BY OutdatedHeads DEF IInv, Reviewed

(* The Approval record of approve(). *)
LEMMA ApproveKeeps ==
    ASSUME IInv, NEW a \in Actors, NEW k \in Kinds, Approve(a, k)
    PROVE  IInv'
<1>1. Typed /\ IsHistory(hist) /\ Busy(a) /\ Head(call[a].left) = <<"approve", k>>
  BY DEF IInv, Typed, Approve, StepIs
<1>2. CASE Raise(a)
  BY <1>2, RaiseKeeps
<1>3. CASE /\ call[a].who # Target(a, k).actor
           /\ approvals' = approvals \cup {[kind |-> k, rev |-> call[a].at[k], who |-> call[a].who]}
           /\ Proceed(a)
           /\ UNCHANGED <<hist, reviews, fileVars, releaseVars, closed, undisturbed, boundVars>>
  <2>1. UNCHANGED <<hist, candidate, approvedCase, marker, release>>
    BY <1>3 DEF fileVars, releaseVars
  <2>2. Moves(a, call[a].at)
    BY <1>1, <1>3, ProceedMoves
  <2>3. Reviewed /\ Planned /\ ~ Outdated
    <3>1. Head(call[a].left) \notin Projections \cup FreezingSteps \cup {<<"export", "case">>, <<"advance", "case">>}
      BY <1>1 DEF Projections, FreezingSteps
    <3>. QED
      BY <1>1, <3>1, NotOutdated
  <2>4. a = "loop" /\ call["loop"].op = "accept"
    BY <1>1, <2>3, Owners
  <2>5. Grows(hist, approvals, hist', approvals')
    BY <1>1, <1>3, <2>1, StayingGrows
  <2>6. Typed' /\ Planned' /\ Begun'
    BY <1>1, <2>1, <2>2, <2>3, <2>5, CommonGoesOn
  <2>7. Released'
    BY <2>1, <2>3, <2>5, GrowthKeeps DEF Reviewed, Released
  <2>8. Paired(hist, approvals')
    BY <1>1, <1>3, <2>3, PairedStays DEF Reviewed
  <2>9. Accepts(hist, approvals', call'["loop"]) /\ Publishes(hist, approvals', call'["loop"])
    <3>1. CASE call'["loop"] = Idle
      BY <3>1, IdleIsTrivial
    <3>2. CASE call'["loop"] # Idle
      <4>1. Follows(call["loop"], call'["loop"]) /\ call'["loop"].at = call["loop"].at
        BY <1>1, <2>2, <2>3, <2>4, <3>2, CallFollows
      <4>2. Accepts(hist, approvals, call["loop"])
        BY <2>3 DEF Reviewed
      <4>3. hist[k][call["loop"].at[k]].actor # call["loop"].who
        BY <1>3, <2>4 DEF Target
      <4>4. Accepts(hist, approvals', call'["loop"])
        BY <1>1, <1>3, <2>4, <4>1, <4>2, <4>3, AcceptApprove
      <4>5. Publishes(hist, approvals', call'["loop"])
        BY <2>4, <4>1 DEF Publishes, Follows
      <4>. QED
        BY <4>4, <4>5
    <3>. QED
      BY <3>1, <3>2
  <2>. QED
    BY <2>1, <2>6, <2>7, <2>8, <2>9 DEF IInv, Reviewed
<1>. QED
  BY <1>2, <1>3 DEF Approve

(* The approved revision of approve(). *)
LEMMA PromoteKeeps ==
    ASSUME IInv, NEW a \in Actors, NEW k \in Kinds, Promote(a, k)
    PROVE  IInv'
<1>1. Typed /\ IsHistory(hist) /\ Busy(a) /\ Head(call[a].left) = <<"promote", k>>
  BY DEF IInv, Typed, Promote, StepIs
<1>2. PICK actor : Succeed(a, k, "approved", actor)
  BY DEF Promote
<1>3. SUFFICES ASSUME UNCHANGED <<candidate, approvedCase, approvals, marker, release>>,
                      call[a].at[k] = Len(hist[k]),
                      NEW pin,
                      Added(hist, hist', k, Revision("approved", hist[k][call[a].at[k]].text, actor, pin)),
                      Moves(a, [call[a].at EXCEPT ![k] = Len(hist[k]) + 1])
               PROVE  IInv'
  BY <1>1, <1>2, SucceedCases
<1>4. PICK rev : rev = Revision("approved", hist[k][call[a].at[k]].text, actor, pin)
  OBVIOUS
<1>5. Added(hist, hist', k, rev) /\ rev.life = "approved" /\ rev.text = hist[k][call[a].at[k]].text
  BY <1>3, <1>4, RevisionFields
<1>6. Reviewed /\ Planned /\ ~ Outdated
  <2>1. Head(call[a].left) \notin Projections \cup FreezingSteps \cup {<<"export", "case">>, <<"advance", "case">>}
    BY <1>1 DEF Projections, FreezingSteps
  <2>. QED
    BY <1>1, <2>1, NotOutdated
<1>7. a = "loop" /\ call["loop"].op = "accept"
  BY <1>1, <1>6, Owners
<1>8. Grows(hist, approvals, hist', approvals')
  BY <1>3, <1>5, AddingGrows
<1>9. Typed' /\ Planned' /\ Begun'
  BY <1>1, <1>3, <1>6, <1>8, CommonGoesOn
<1>10. Released'
  BY <1>3, <1>6, <1>8, GrowthKeeps DEF Reviewed, Released
<1>11. Accepts(hist, approvals, call["loop"])
  BY <1>6 DEF Reviewed
<1>12. PICK d : Follows(call["loop"], d) /\ d.at = [call["loop"].at EXCEPT ![k] = Len(hist[k]) + 1]
                /\ (call'["loop"] = Idle \/ call'["loop"] = d)
  <2>1. IsCall(call["loop"]) /\ IsSeq(Tail(call["loop"].left)) /\ call["loop"].left # <<>>
    BY <1>1, <1>7, TailShrinks DEF Typed, Busy, IsCall
  <2>2. PICK d : /\ d.op = call["loop"].op /\ d.who = call["loop"].who /\ d.left = Tail(call["loop"].left)
                 /\ d.at = [call["loop"].at EXCEPT ![k] = Len(hist[k]) + 1]
                 /\ (call'["loop"] = Idle \/ call'["loop"] = d)
    <3>1. CASE call'["loop"] # Idle
      BY <1>3, <1>7, <3>1 DEF Moves, Onward
    <3>2. CASE call'["loop"] = Idle
      <4>1. PICK d : d = [op |-> call["loop"].op, who |-> call["loop"].who, left |-> Tail(call["loop"].left),
                           at |-> [call["loop"].at EXCEPT ![k] = Len(hist[k]) + 1]]
        OBVIOUS
      <4>2. /\ d.op = call["loop"].op /\ d.who = call["loop"].who /\ d.left = Tail(call["loop"].left)
            /\ d.at = [call["loop"].at EXCEPT ![k] = Len(hist[k]) + 1]
        BY <4>1, Zenon
      <4>. QED
        BY <3>2, <4>2, Zenon
    <3>. QED
      BY <3>1, <3>2
  <2>. QED
    BY <1>6, <2>1, <2>2 DEF Follows, Planned, Actors
<1>13. Paired(hist', approvals)
  <2>1. CASE k = "case"
    BY <1>1, <1>5, <1>7, <1>11, <1>12, <2>1, PairedCase
  <2>2. CASE k = "gold"
    BY <1>1, <1>3, <1>5, <1>7, <1>11, <1>12, <2>2, PairedGold
  <2>. QED
    BY <2>1, <2>2 DEF Kinds
<1>14. Accepts(hist', approvals, d)
  <2>1. CASE k = "case"
    BY <1>1, <1>3, <1>5, <1>7, <1>11, <1>12, <2>1, AcceptPromote
  <2>2. CASE k = "gold"
    <3>1. Head(call["loop"].left) = <<"promote", "gold">> /\ Rank(<<"promote", "gold">>) = 9
      BY <1>1, <1>7, <2>2, Ranks
    <3>2. ~ InAccept(d)
      BY <1>11, <1>12, <3>1, AcceptHead
    <3>. QED
      BY <3>2 DEF Accepts
  <2>. QED
    BY <2>1, <2>2 DEF Kinds
<1>15. Accepts(hist', approvals, call'["loop"]) /\ Publishes(hist', approvals, call'["loop"])
  <2>1. Publishes(hist', approvals, d)
    BY <1>7, <1>12 DEF Publishes, Follows
  <2>. QED
    BY <1>12, <1>14, <2>1, IdleIsTrivial
<1>. QED
  BY <1>3, <1>9, <1>10, <1>13, <1>15 DEF IInv, Reviewed

(* The revisions to freeze are chosen (freeze_release). *)
LEMMA SelectKeeps ==
    ASSUME IInv, NEW a \in Actors, Select(a)
    PROVE  IInv'
<1>1. Typed /\ IsHistory(hist) /\ Busy(a) /\ Head(call[a].left) = <<"select", "case">>
  BY DEF IInv, Typed, Select, StepIs
<1>2. CASE Raise(a)
  BY <1>2, RaiseKeeps
<1>3. CASE /\ \A k \in Kinds : hist[k] # <<>> /\ Current(k).life \in {"approved", "frozen"}
           /\ Settle(a, [call[a] EXCEPT !.left = Tail(@), !.at = Lengths])
           /\ UNCHANGED <<ledgerVars, fileVars, releaseVars, closed, undisturbed, boundVars>>
  <2>1. UNCHANGED <<hist, approvals, candidate, approvedCase, marker, release>>
    BY <1>3 DEF fileVars, releaseVars, ledgerVars
  <2>2. Lengths \in [Kinds -> Nat]
    BY <1>1, Lengthy DEF Lengths
  <2>3. Moves(a, Lengths)
    BY <1>1, <1>3, <2>2, TakeMoves
  <2>4. Grows(hist, approvals, hist', approvals')
    BY <1>1, <2>1, StayingGrows
  <2>5. /\ Typed' /\ (Reviewed => Planned' /\ Begun')
        /\ Outdated => Outdated'
    BY <1>1, <2>1, <2>3, <2>4, CommonGoesOn
  <2>6. ASSUME Reviewed PROVE Reviewed'
    <3>1. Planned /\ Paired(hist, approvals)
      BY <2>6 DEF Reviewed
    <3>2. a = "loop" /\ call["loop"].op \in {"publish", "export"}
      BY <1>1, <3>1, Owners
    <3>3. Released' /\ Paired(hist, approvals)'
      BY <2>1, <2>6 DEF Reviewed, Released
    <3>4. Selected(hist, approvals, Lengths)
      <4>1. Sworn(hist, approvals, Lengths)
        BY <1>3, <3>1 DEF Paired, Lengths, Current, Granted
      <4>2. \A k \in Kinds : Lengths[k] \in DOMAIN hist[k] /\ hist[k][Lengths[k]].life \in Granted
        BY <1>1, <1>3, Lengthy DEF Lengths, Current, Granted
      <4>. QED
        BY <4>1, <4>2 DEF Selected
    <3>5. Accepts(hist, approvals, call'["loop"]) /\ Publishes(hist, approvals, call'["loop"])
      <4>1. CASE call'["loop"] = Idle
        BY <4>1, IdleIsTrivial
      <4>2. CASE call'["loop"] # Idle
        <5>1. Follows(call["loop"], call'["loop"]) /\ call'["loop"].at = Lengths
          BY <1>1, <2>3, <3>1, <3>2, <4>2, CallFollows
        <5>2. Publishes(hist, approvals, call'["loop"])
          BY <1>1, <3>2, <3>4, <5>1, PublishSelect
        <5>3. Accepts(hist, approvals, call'["loop"])
          BY <3>2, <5>1 DEF Accepts, InAccept, Follows
        <5>. QED
          BY <5>2, <5>3
      <4>. QED
        BY <4>1, <4>2
    <3>. QED
      BY <2>1, <2>5, <2>6, <3>3, <3>5 DEF Reviewed
  <2>. QED
    BY <2>5, <2>6 DEF IInv
<1>. QED
  BY <1>2, <1>3 DEF Select

(* A revision frozen (freeze_release). *)
LEMMA FreezeKeeps ==
    ASSUME IInv, NEW a \in Actors, NEW k \in Kinds, Freeze(a, k)
    PROVE  IInv'
<1>1. Typed /\ IsHistory(hist) /\ Busy(a) /\ Head(call[a].left) = <<"freeze", k>>
  BY DEF IInv, Typed, Freeze, StepIs
<1>2. CASE Proceed(a) /\ UNCHANGED <<ledgerVars, fileVars, releaseVars, closed, undisturbed, boundVars>>
  <2>1. UNCHANGED <<hist, approvals, candidate, approvedCase, marker, release>>
    BY <1>2 DEF fileVars, releaseVars, ledgerVars
  <2>2. Moves(a, call[a].at)
    BY <1>1, <1>2, ProceedMoves
  <2>3. /\ \A j \in Kinds : Head(call[a].left) \notin {<<"mark", j>>, <<"approve", j>>, <<"promote", j>>}
        /\ Head(call[a].left) \notin {<<"check", "case">>, <<"select", "case">>, <<"validate", "case">>}
        /\ Head(call[a].left) \notin {<<"import", "case">>, <<"create", "case">>}
    BY <1>1
  <2>. QED
    BY <1>1, <2>1, <2>2, <2>3, QuietKeeps
<1>3. CASE Succeed(a, k, "frozen", Target(a, k).actor)
  <2>1. PICK actor : Succeed(a, k, "frozen", actor)
    BY <1>3
  <2>2. SUFFICES ASSUME UNCHANGED <<candidate, approvedCase, approvals, marker, release>>,
                        call[a].at[k] = Len(hist[k]),
                        NEW pin,
                        Added(hist, hist', k, Revision("frozen", hist[k][call[a].at[k]].text, actor, pin)),
                        Moves(a, [call[a].at EXCEPT ![k] = Len(hist[k]) + 1])
                 PROVE  IInv'
    BY <1>1, <2>1, SucceedCases
  <2>3. PICK rev : rev = Revision("frozen", hist[k][call[a].at[k]].text, actor, pin)
    OBVIOUS
  <2>4. Added(hist, hist', k, rev) /\ rev.life = "frozen" /\ rev.text = hist[k][call[a].at[k]].text
    BY <2>2, <2>3, RevisionFields
  <2>5. Grows(hist, approvals, hist', approvals')
    BY <2>2, <2>4, AddingGrows
  <2>6. /\ Typed' /\ (Reviewed => Planned' /\ Begun')
        /\ Outdated => Outdated'
    BY <1>1, <2>2, <2>5, CommonGoesOn
  <2>7. ASSUME Reviewed PROVE Reviewed'
    <3>1. Planned /\ Paired(hist, approvals) /\ Publishes(hist, approvals, call["loop"])
      BY <2>7 DEF Reviewed
    <3>2. a = "loop" /\ call["loop"].op \in {"publish", "export"}
      BY <1>1, <3>1, Owners
    <3>3. Released'
      BY <2>2, <2>5, <2>7, GrowthKeeps DEF Reviewed, Released
    <3>4. Selected(hist, approvals, call["loop"].at)
      <4>1. Sound(call["loop"]) /\ Sorted(call["loop"].left)
        BY <3>1, <3>2 DEF Planned, Sound, Actors
      <4>2. Rank(Head(call["loop"].left)) \in {2, 3}
        BY <1>1, <3>2, Ranks DEF Kinds
      <4>3. Done(call["loop"], "select", "case")
        <5>1. IsSeq(call["loop"].left) /\ call["loop"].left # <<>>
          BY <1>1, <3>2 DEF Typed, IsCall, Busy
        <5>2. /\ Plan(call["loop"]) \subseteq Elements(Tail(call["loop"].left)) \cup {Head(call["loop"].left)}
              /\ \A p \in Elements(Tail(call["loop"].left)) : Rank(Head(call["loop"].left)) < Rank(p)
          BY <4>1, <4>2, <5>1, TailShrinks DEF Plan
        <5>. QED
          BY <4>2, <5>2, Ranks DEF Done
      <4>. QED
        BY <3>1, <3>2, <4>3 DEF Publishes
    <3>5. hist[k] # <<>> /\ hist[k][Len(hist[k])].life \in Granted
      BY <1>1, <2>2, <3>2, <3>4, Lengthy DEF Selected
    <3>6. Paired(hist', approvals)
      BY <2>2, <2>4, <3>1, <3>5, PairedFreeze
    <3>7. Accepts(hist', approvals, call'["loop"]) /\ Publishes(hist', approvals, call'["loop"])
      <4>1. CASE call'["loop"] = Idle
        BY <4>1, IdleIsTrivial
      <4>2. CASE call'["loop"] # Idle
        <5>1. /\ Follows(call["loop"], call'["loop"])
              /\ call'["loop"].at = [call["loop"].at EXCEPT ![k] = Len(hist[k]) + 1]
          BY <1>1, <2>2, <3>1, <3>2, <4>2, CallFollows
        <5>2. Publishes(hist', approvals, call'["loop"])
          BY <1>1, <2>2, <2>4, <3>1, <3>2, <5>1, PublishFreeze
        <5>3. Accepts(hist', approvals, call'["loop"])
          BY <3>2, <5>1 DEF Accepts, InAccept, Follows
        <5>. QED
          BY <5>2, <5>3
      <4>. QED
        BY <4>1, <4>2
    <3>. QED
      BY <2>2, <2>6, <2>7, <3>3, <3>6, <3>7 DEF Reviewed
  <2>. QED
    BY <2>6, <2>7 DEF IInv
<1>. QED
  BY <1>2, <1>3 DEF Freeze

(* The revisions that a publication or an export holds after its choice. *)
LEMMA HeldAreSelected ==
    ASSUME IInv, Reviewed, Busy("loop"), call["loop"].op \in {"publish", "export"},
           Rank(Head(call["loop"].left)) > 1
    PROVE  /\ Selected(hist, approvals, call["loop"].at)
           /\ \A p \in Plan(call["loop"]) : Rank(p) \geq Rank(Head(call["loop"].left))
           /\ Head(call["loop"].left) \in Plan(call["loop"])
<1>1. IsSeq(call["loop"].left) /\ call["loop"].left # <<>>
  BY DEF IInv, Typed, IsCall, Busy, Actors
<1>2. Sorted(call["loop"].left) /\ Publishes(hist, approvals, call["loop"])
  BY DEF Reviewed, Planned, Sound, Actors
<1>3. /\ Plan(call["loop"]) \subseteq Elements(Tail(call["loop"].left)) \cup {Head(call["loop"].left)}
      /\ \A p \in Elements(Tail(call["loop"].left)) : Rank(Head(call["loop"].left)) < Rank(p)
      /\ Head(call["loop"].left) \in Plan(call["loop"])
  BY <1>1, <1>2, TailShrinks, RankIsNat DEF Plan
<1>4. \A p \in Plan(call["loop"]) : Rank(p) \geq Rank(Head(call["loop"].left))
  BY <1>3, RankIsNat
<1>5. Done(call["loop"], "select", "case")
  <2>1. Rank(<<"select", "case">>) = 1 /\ Rank(Head(call["loop"].left)) \in Nat
    BY Ranks, RankIsNat
  <2>2. \A p \in Plan(call["loop"]) : p # <<"select", "case">>
    BY <1>4, <2>1, RankIsNat
  <2>. QED
    BY <2>2 DEF Done
<1>. QED
  BY <1>2, <1>3, <1>4, <1>5 DEF Publishes

(* The marker of a frozen release. *)
LEMMA MarkFrozenKeeps ==
    ASSUME IInv, NEW a \in Actors, MarkFrozen(a)
    PROVE  IInv'
<1>1. Typed /\ IsHistory(hist) /\ Busy(a) /\ Head(call[a].left) = <<"pin", "case">>
  BY DEF IInv, Typed, MarkFrozen, StepIs
<1>2. /\ UNCHANGED <<hist, approvals, candidate, approvedCase, release>> /\ Proceed(a)
      /\ marker' = call[a].at
  BY DEF MarkFrozen, fileVars, ledgerVars
<1>3. Moves(a, call[a].at) /\ call[a].at \in [Kinds -> Nat]
  BY <1>1, <1>2, ProceedMoves DEF Typed, IsCall
<1>4. Reviewed /\ Planned /\ ~ Outdated
  <2>1. Head(call[a].left) \notin Projections \cup FreezingSteps \cup {<<"export", "case">>, <<"advance", "case">>}
    BY <1>1 DEF Projections, FreezingSteps
  <2>. QED
    BY <1>1, <2>1, NotOutdated
<1>5. a = "loop" /\ call["loop"].op = "publish"
  BY <1>1, <1>4, Owners
<1>6. Grows(hist, approvals, hist', approvals')
  BY <1>1, <1>2, StayingGrows
<1>7. Typed' /\ Planned' /\ Begun'
  BY <1>1, <1>2, <1>3, <1>4, <1>6, CommonGoesOn
<1>8. Selected(hist, approvals, call["loop"].at)
  <2>1. Rank(Head(call["loop"].left)) = 4
    BY <1>1, <1>5, Ranks, Zenon
  <2>. QED
    BY <1>1, <1>4, <1>5, <2>1, HeldAreSelected
<1>9. Released' /\ Paired(hist, approvals)'
  BY <1>2, <1>4, <1>5, <1>8 DEF Reviewed, Released
<1>10. Accepts(hist, approvals, call'["loop"]) /\ Publishes(hist, approvals, call'["loop"])
  <2>1. CASE call'["loop"] = Idle
    BY <2>1, IdleIsTrivial
  <2>2. CASE call'["loop"] # Idle
    <3>1. Follows(call["loop"], call'["loop"]) /\ call'["loop"].at = call["loop"].at
      BY <1>1, <1>3, <1>4, <1>5, <2>2, CallFollows
    <3>2. Publishes(hist, approvals, call["loop"]) /\ Head(call["loop"].left) = <<"pin", "case">>
      BY <1>1, <1>4, <1>5 DEF Reviewed
    <3>3. Publishes(hist, approvals, call'["loop"])
      BY <3>1, <3>2, PublishOnward
    <3>4. Accepts(hist, approvals, call'["loop"])
      BY <1>5, <3>1 DEF Accepts, InAccept, Follows
    <3>. QED
      BY <3>3, <3>4
  <2>. QED
    BY <2>1, <2>2
<1>. QED
  BY <1>2, <1>7, <1>9, <1>10 DEF IInv, Reviewed

(* The validation of the frozen revisions (freeze). *)
LEMMA ValidateFrozenKeeps ==
    ASSUME IInv, NEW a \in Actors, ValidateFrozen(a)
    PROVE  IInv'
<1>1. Typed /\ IsHistory(hist) /\ Busy(a) /\ Head(call[a].left) = <<"validate", "case">>
  BY DEF IInv, Typed, ValidateFrozen, StepIs
<1>2. CASE Raise(a)
  BY <1>2, RaiseKeeps
<1>3. CASE /\ Valid(call[a].at, {"frozen"}) /\ Proceed(a)
           /\ UNCHANGED <<ledgerVars, fileVars, releaseVars, closed, undisturbed, boundVars>>
  <2>1. UNCHANGED <<hist, approvals, candidate, approvedCase, marker, release>>
    BY <1>3 DEF fileVars, releaseVars, ledgerVars
  <2>2. Moves(a, call[a].at)
    BY <1>1, <1>3, ProceedMoves
  <2>3. Reviewed /\ Planned /\ ~ Outdated
    <3>1. Head(call[a].left) \notin Projections \cup FreezingSteps \cup {<<"export", "case">>, <<"advance", "case">>}
      BY <1>1 DEF Projections, FreezingSteps
    <3>. QED
      BY <1>1, <3>1, NotOutdated
  <2>4. a = "loop" /\ call["loop"].op = "publish"
    BY <1>1, <2>3, Owners
  <2>5. Grows(hist, approvals, hist', approvals')
    BY <1>1, <2>1, StayingGrows
  <2>6. Typed' /\ Planned' /\ Begun'
    BY <1>1, <2>1, <2>2, <2>3, <2>5, CommonGoesOn
  <2>7. Released' /\ Paired(hist, approvals)'
    BY <2>1, <2>3 DEF Reviewed, Released
  <2>8. Selected(hist, approvals, call["loop"].at)
    <3>1. Rank(Head(call["loop"].left)) = 5
      BY <1>1, <2>4, Ranks, Zenon
    <3>. QED
      BY <1>1, <2>3, <2>4, <3>1, HeldAreSelected
  <2>9. AllFrozen(hist, call["loop"].at)
    BY <1>3, <2>4 DEF Valid, AllFrozen
  <2>10. Accepts(hist, approvals, call'["loop"]) /\ Publishes(hist, approvals, call'["loop"])
    <3>1. CASE call'["loop"] = Idle
      BY <3>1, IdleIsTrivial
    <3>2. CASE call'["loop"] # Idle
      <4>1. Follows(call["loop"], call'["loop"]) /\ call'["loop"].at = call["loop"].at
        BY <1>1, <2>2, <2>3, <2>4, <3>2, CallFollows
      <4>2. Publishes(hist, approvals, call'["loop"])
        BY <2>8, <2>9, <4>1 DEF Publishes
      <4>3. Accepts(hist, approvals, call'["loop"])
        BY <2>4, <4>1 DEF Accepts, InAccept, Follows
      <4>. QED
        BY <4>2, <4>3
    <3>. QED
      BY <3>1, <3>2
  <2>. QED
    BY <2>1, <2>6, <2>7, <2>10 DEF IInv, Reviewed
<1>. QED
  BY <1>2, <1>3 DEF ValidateFrozen

(* The release recorded (releases.put). *)
LEMMA PutReleaseKeeps ==
    ASSUME IInv, NEW a \in Actors, PutRelease(a)
    PROVE  IInv'
<1>1. Typed /\ IsHistory(hist) /\ Busy(a) /\ Head(call[a].left) = <<"put", "case">>
  BY DEF IInv, Typed, PutRelease, StepIs
<1>2. CASE Raise(a)
  BY <1>2, RaiseKeeps
<1>3. CASE /\ release' = call[a].at /\ Proceed(a)
           /\ UNCHANGED <<ledgerVars, fileVars, marker, exported, closed, undisturbed, boundVars>>
  <2>1. UNCHANGED <<hist, approvals, candidate, approvedCase, marker>>
    BY <1>3 DEF fileVars, ledgerVars
  <2>2. Moves(a, call[a].at)
    BY <1>1, <1>3, ProceedMoves
  <2>3. Reviewed /\ Planned /\ ~ Outdated
    <3>1. Head(call[a].left) \notin Projections \cup FreezingSteps \cup {<<"export", "case">>, <<"advance", "case">>}
      BY <1>1 DEF Projections, FreezingSteps
    <3>. QED
      BY <1>1, <3>1, NotOutdated
  <2>4. a = "loop" /\ call["loop"].op = "publish"
    BY <1>1, <2>3, Owners
  <2>5. Grows(hist, approvals, hist', approvals')
    BY <1>1, <2>1, StayingGrows
  <2>6. Typed' /\ Planned' /\ Begun'
    <3>1. Typed'
      BY <1>1, <2>1, <2>2, TypedGoesOn
    <3>2. Planned'
      BY <1>1, <2>2, <2>3, PlannedGoesOn
    <3>3. Begun /\ Head(call[a].left) \notin {<<"import", "case">>, <<"create", "case">>}
      BY <1>1, <2>3 DEF Reviewed
    <3>4. Begun'
      BY <1>1, <2>1, <2>2, <3>3, BegunGoesOn
    <3>. QED
      BY <3>1, <3>2, <3>4
  <2>8. Selected(hist, approvals, call["loop"].at) /\ AllFrozen(hist, call["loop"].at)
    <3>1. Rank(Head(call["loop"].left)) = 6
      BY <1>1, <2>4, Ranks, Zenon
    <3>2. /\ Selected(hist, approvals, call["loop"].at)
          /\ \A p \in Plan(call["loop"]) : Rank(p) \geq 6
          /\ <<"put", "case">> \in Plan(call["loop"])
      BY <1>1, <2>3, <2>4, <3>1, HeldAreSelected
    <3>3. Done(call["loop"], "validate", "case") /\ ~ Done(call["loop"], "put", "case")
      BY <3>2, Ranks DEF Done
    <3>4. Publishes(hist, approvals, call["loop"])
      BY <2>3 DEF Reviewed
    <3>. QED
      BY <2>4, <3>2, <3>3, <3>4 DEF Publishes
  <2>7. Released' /\ Paired(hist, approvals)'
    BY <1>3, <2>1, <2>3, <2>4, <2>8 DEF Reviewed, Released
  <2>10. Accepts(hist, approvals, call'["loop"]) /\ Publishes(hist, approvals, call'["loop"])
    <3>1. CASE call'["loop"] = Idle
      BY <3>1, IdleIsTrivial
    <3>2. CASE call'["loop"] # Idle
      <4>1. Follows(call["loop"], call'["loop"]) /\ call'["loop"].at = call["loop"].at
        BY <1>1, <2>2, <2>3, <2>4, <3>2, CallFollows
      <4>2. Publishes(hist, approvals, call["loop"]) /\ Head(call["loop"].left) = <<"put", "case">>
        BY <1>1, <2>3, <2>4 DEF Reviewed
      <4>3. Publishes(hist, approvals, call'["loop"])
        BY <4>1, <4>2, PublishOnward
      <4>4. Accepts(hist, approvals, call'["loop"])
        BY <2>4, <4>1 DEF Accepts, InAccept, Follows
      <4>. QED
        BY <4>3, <4>4
    <3>. QED
      BY <3>1, <3>2
  <2>. QED
    BY <2>1, <2>6, <2>7, <2>10 DEF IInv, Reviewed
<1>. QED
  BY <1>2, <1>3 DEF PutRelease

-----------------------------------------------------------------------------
(* A call with a new plan. *)

(* Where a call may start that the revisions do not yet bind. *)
Fits(d, a) ==
    /\ Sound(d) /\ (a = "job" => Plan(d) \subseteq JobSteps /\ d.op \in {"none", "resolve"})
    /\ Accepts(hist, approvals, d) /\ Publishes(hist, approvals, d)
    /\ a = "job" /\ ~ Done(d, "ask", "case") => hist["case"] # <<>> \/ ~ Done(d, "create", "case")
    /\ a = "loop" /\ d.op = "accept"
       /\ Plan(d) \cap {<<"check", "case">>, <<"save", "case">>, <<"file", "case">>} # {} =>
          hist["case"] # <<>> \/ ~ Done(d, "import", "case")

(* A call is started, or an answer of the model planned for. *)
LEMMA PlanningKeeps ==
    ASSUME IInv, NEW a \in Actors, NEW d, IsCall(d), call' = [call EXCEPT ![a] = d],
           UNCHANGED <<hist, approvals, candidate, approvedCase, marker, release>>,
           ~ Done(d, "save", "case") => IsContent(d.next),
           Reviewed => Fits(d, a),
           Outdated => a = "loop" /\ Plan(d) \subseteq
              Projections \cup FreezingSteps \cup {<<"export", "case">>, <<"advance", "case">>}
    PROVE  IInv'
<1>1. /\ call' = [b \in Actors |-> call'[b]] /\ call'[a] = d
      /\ \A b \in Actors \ {a} : call'[b] = call[b]
  BY DEF IInv, Typed
<1>2. Typed'
  BY <1>1 DEF IInv, Typed
<1>3. ASSUME Outdated PROVE Outdated'
  BY <1>1, <1>3 DEF Outdated, Actors
<1>4. ASSUME Reviewed PROVE Reviewed'
  <2>1. Fits(d, a)
    BY <1>4
  <2>2. Planned'
    BY <1>1, <1>4, <2>1 DEF Reviewed, Planned, Fits, Actors
  <2>3. Released' /\ Paired(hist, approvals)'
    BY <1>4 DEF Reviewed, Released
  <2>4. Begun'
    <3>1. CASE a = "job"
      BY <1>1, <1>4, <2>1, <3>1 DEF Reviewed, Begun, Fits, Actors
    <3>2. CASE a = "loop"
      BY <1>1, <1>4, <2>1, <3>2 DEF Reviewed, Begun, Fits, Actors
    <3>. QED
      BY <3>1, <3>2 DEF Actors
  <2>5. Accepts(hist, approvals, call'["loop"]) /\ Publishes(hist, approvals, call'["loop"])
    <3>1. CASE a = "loop"
      BY <1>1, <2>1, <3>1 DEF Fits
    <3>2. CASE a # "loop"
      BY <1>1, <1>4, <3>2 DEF Reviewed, Actors
    <3>. QED
      BY <3>1, <3>2
  <2>. QED
    BY <2>2, <2>3, <2>4, <2>5 DEF Reviewed
<1>. QED
  BY <1>2, <1>3, <1>4 DEF IInv

(* The steps that bring the Gold to a decision. *)
LEMMA GoldPlan ==
    ASSUME NEW op \in {"edit", "reject"}
    PROVE  /\ IsSeq(GoldSteps(op))
           /\ Elements(GoldSteps(op)) \subseteq {"open", "review", "revise", "turn down"} \X Kinds
<1>. DEFINE S == {"open", "review", "revise", "turn down"} \X Kinds
<1>1. /\ <<"open", "gold">> \in S /\ <<"review", "gold">> \in S /\ <<"revise", "gold">> \in S
      /\ <<"turn down", "gold">> \in S
  BY DEF Kinds
<1>. HIDE DEF S
<1>2. /\ <<>> \in Seq(S)
      /\ <<<<"revise", "gold">>>> \in Seq(S)
      /\ <<<<"open", "gold">>, <<"review", "gold">>, <<"revise", "gold">>>> \in Seq(S)
      /\ <<<<"open", "gold">>, <<"review", "gold">>, <<"turn down", "gold">>>> \in Seq(S)
  <2>1. ASSUME NEW x \in S, NEW y \in S, NEW z \in S
        PROVE  <<>> \in Seq(S) /\ <<x>> \in Seq(S) /\ <<x, y, z>> \in Seq(S)
    OBVIOUS
  <2>. QED
    BY <1>1, <2>1, Zenon
<1>3. CASE op = "edit" /\ hist["gold"] = <<>>
  <2>1. GoldSteps(op) = <<<<"revise", "gold">>>>
    BY <1>3 DEF GoldSteps
  <2>2. GoldSteps(op) \in Seq(S)
    BY <1>2, <2>1, Zenon
  <2>. QED
    BY <2>2, SeqIsSeq, Zenon DEF S
<1>4. CASE op = "edit" /\ hist["gold"] # <<>>
  <2>1. GoldSteps(op) = <<<<"open", "gold">>, <<"review", "gold">>, <<"revise", "gold">>>>
    BY <1>4 DEF GoldSteps
  <2>2. GoldSteps(op) \in Seq(S)
    BY <1>2, <2>1, Zenon
  <2>. QED
    BY <2>2, SeqIsSeq, Zenon DEF S
<1>5. CASE op = "reject"
  <2>1. GoldSteps(op) \in {<<>>, <<<<"open", "gold">>, <<"review", "gold">>, <<"turn down", "gold">>>>}
    BY <1>5 DEF GoldSteps
  <2>2. GoldSteps(op) \in Seq(S)
    BY <1>2, <2>1, Zenon
  <2>. QED
    BY <2>2, SeqIsSeq, Zenon DEF S
<1>. QED
  BY <1>3, <1>4, <1>5

(* A handler decides what becomes of the Gold. *)
LEMMA BranchKeeps ==
    ASSUME IInv, NEW a \in Actors, BranchOnGold(a)
    PROVE  IInv'
<1>1. /\ Typed /\ Busy(a) /\ Head(call[a].left) = <<"branch", "gold">>
      /\ IsCall(call[a]) /\ IsSeq(call[a].left) /\ call[a].left # <<>>
      /\ UNCHANGED <<hist, approvals, candidate, approvedCase, marker, release>>
  BY DEF IInv, Typed, BranchOnGold, StepIs, Busy, IsCall, fileVars, ledgerVars, releaseVars
<1>2. Reviewed /\ Planned /\ ~ Outdated
  <2>1. Head(call[a].left) \notin Projections \cup FreezingSteps \cup {<<"export", "case">>, <<"advance", "case">>}
    BY <1>1 DEF Projections, FreezingSteps
  <2>. QED
    BY <1>1, <2>1, NotOutdated
<1>3. a = "loop" /\ call[a].op \in {"edit", "reject"}
  BY <1>1, <1>2, Owners
<1>4. PICK l : l = GoldSteps(call[a].op) \o Tail(call[a].left)
  OBVIOUS
<1>5. PICK t : t = Tail(call[a].left)
  OBVIOUS
<1>6. IsSeq(t) /\ Elements(t) \subseteq Plan(call[a])
  BY <1>1, <1>5, TailShrinks DEF Plan
<1>7. /\ IsSeq(l)
      /\ Elements(l) \subseteq ({"open", "review", "revise", "turn down"} \X Kinds) \cup Plan(call[a])
  <2>1. PICK g : g = GoldSteps(call[a].op)
    OBVIOUS
  <2>2. IsSeq(g) /\ Elements(g) \subseteq {"open", "review", "revise", "turn down"} \X Kinds
    BY <1>3, <2>1, GoldPlan
  <2>3. l = g \o t
    BY <1>4, <1>5, <2>1
  <2>4. IsSeq(l) /\ Elements(l) = Elements(g) \cup Elements(t)
    BY <1>6, <2>2, <2>3, ConcatHolds
  <2>. QED
    BY <1>6, <2>2, <2>4, Zenon
<1>8. PICK d : d = [call[a] EXCEPT !.left = l]
  OBVIOUS
<1>9. /\ d.op = call[a].op /\ d.who = call[a].who /\ d.read = call[a].read /\ d.next = call[a].next
      /\ d.left = l /\ IsCall(d)
  <2>1. PICK c : c = call[a]
    OBVIOUS
  <2>2. IsCall(c) /\ IsSeq(l) /\ d = [c EXCEPT !.left = l]
    BY <1>1, <1>7, <1>8, <2>1, Zenon
  <2>3. /\ d.op = c.op /\ d.who = c.who /\ d.read = c.read /\ d.next = c.next
        /\ d.left = l /\ IsCall(d)
    BY <2>2, PlanChanges
  <2>. QED
    BY <2>1, <2>3, Zenon
<1>10. /\ ~ Done(d, "save", "case") => ~ Done(call[a], "save", "case")
       /\ \A k \in Kinds : ~ Done(d, "adopt", k) => ~ Done(call[a], "adopt", k)
  BY <1>7, <1>9 DEF Done, Plan
<1>11. Sound(call[a]) /\ StepsOf(call[a].op) = DecisionSteps
  BY <1>2, <1>3 DEF Planned, StepsOf
<1>12. Plan(d) \subseteq DecisionSteps
  BY <1>7, <1>9, <1>11 DEF Plan, Sound, DecisionSteps
<1>13. Sound(d)
  <2>1. Done(d, "ask", "case")
    BY <1>12, DecisionNames DEF Done
  <2>. QED
    BY <1>3, <1>9, <1>10, <1>11, <1>12, <2>1 DEF Sound
<1>14. Fits(d, a)
  BY <1>3, <1>9, <1>13, OtherCalls DEF Fits
<1>15. ~ Done(d, "save", "case") => IsContent(d.next)
  BY <1>1, <1>9, <1>10 DEF Typed
<1>16. call' = [call EXCEPT ![a] = d] \/ call' = [call EXCEPT ![a] = Idle]
  BY <1>4, <1>8 DEF BranchOnGold, Settle
<1>17. CASE call' = [call EXCEPT ![a] = d]
  BY <1>1, <1>2, <1>9, <1>14, <1>15, <1>17, PlanningKeeps
<1>18. CASE call' = [call EXCEPT ![a] = Idle]
  BY <1>1, <1>18, RaisingKeeps
<1>. QED
  BY <1>16, <1>17, <1>18

-----------------------------------------------------------------------------
(* Steps that leave the ledger alone. *)

(* An acceptance that saves has a Case. *)
LEMMA AcceptedCase ==
    ASSUME IInv, Reviewed, Busy("loop"), call["loop"].op = "accept",
           Head(call["loop"].left) \in {<<"save", "case">>, <<"file", "case">>}
    PROVE  hist["case"] # <<>>
<1>1. IsSeq(call["loop"].left) /\ call["loop"].left # <<>>
  BY DEF IInv, Typed, IsCall, Busy, Actors
<1>2. Sorted(call["loop"].left)
  BY DEF Reviewed, Planned, Sound, Actors
<1>3. Rank(Head(call["loop"].left)) \in {10, 11}
  BY Ranks
<1>4. /\ Plan(call["loop"]) \subseteq Elements(Tail(call["loop"].left)) \cup {Head(call["loop"].left)}
      /\ \A p \in Elements(Tail(call["loop"].left)) : Rank(Head(call["loop"].left)) < Rank(p)
      /\ Head(call["loop"].left) \in Plan(call["loop"])
  BY <1>1, <1>2, <1>3, TailShrinks DEF Plan
<1>5. Done(call["loop"], "import", "case")
  <2>1. Rank(<<"import", "case">>) = 0
    BY Ranks DEF Kinds
  <2>. QED
    BY <1>3, <1>4, <2>1 DEF Done
<1>. QED
  BY <1>4, <1>5 DEF Reviewed, Begun

(* Who drafts, opens and proposes. *)
LEMMA Drafters ==
    ASSUME IInv, NEW a \in Actors, Busy(a), NEW k \in Kinds,
           NEW name \in {"open", "submit", "hold", "propose", "revise", "turn down", "create"},
           Head(call[a].left) = <<name, k>>
    PROVE  /\ Reviewed /\ Planned /\ ~ Outdated
           /\ call[a].op \notin {"accept", "publish", "export"}
           /\ a = "job" => <<name, k>> \in JobSteps
<1>1. Reviewed /\ Planned /\ ~ Outdated
  <2>1. Head(call[a].left) \notin Projections \cup FreezingSteps \cup {<<"export", "case">>, <<"advance", "case">>}
    <3>1. ASSUME NEW p, NEW n \in {"open", "submit", "hold", "propose", "revise", "turn down", "create"},
                 p = <<n, k>>
          PROVE  p \notin Projections \cup FreezingSteps \cup {<<"export", "case">>, <<"advance", "case">>}
      BY <3>1 DEF Projections, FreezingSteps
    <3>. QED
      BY <3>1
  <2>. QED
    BY <2>1, NotOutdated
<1>2. Head(call[a].left) \in StepsOf(call[a].op) /\ (a = "job" => Head(call[a].left) \in JobSteps)
  BY <1>1, TailShrinks DEF IInv, Typed, Planned, IsCall, Busy, Plan, Sound
<1>3. /\ <<name, k>> \notin AcceptanceSteps /\ <<name, k>> \notin FreezingSteps
      /\ <<name, k>> \notin Projections
      /\ <<name, k>> \notin {<<"pin", "case">>, <<"validate", "case">>, <<"put", "case">>, <<"close", "case">>,
                             <<"export", "case">>, <<"advance", "case">>}
  BY DEF AcceptanceSteps, FreezingSteps, Projections
<1>4. /\ <<name, k>> \notin StepsOf("accept") /\ <<name, k>> \notin StepsOf("publish")
      /\ <<name, k>> \notin StepsOf("export")
  BY <1>3 DEF StepsOf
<1>. QED
  BY <1>1, <1>2, <1>4

(* The candidate's file written. *)
LEMMA SaveKeeps ==
    ASSUME IInv, NEW a \in Actors, Save(a)
    PROVE  IInv'
<1>1. /\ Typed /\ Busy(a) /\ Head(call[a].left) = <<"save", "case">>
      /\ UNCHANGED <<hist, approvals, marker, release, approvedCase>>
      /\ Proceed(a) /\ candidate' = call[a].next
  BY DEF IInv, Save, StepIs, ledgerVars, releaseVars
<1>2. Moves(a, call[a].at)
  BY <1>1, ProceedMoves
<1>3. Reviewed /\ Planned /\ ~ Outdated
  <2>1. Head(call[a].left) \notin Projections \cup FreezingSteps \cup {<<"export", "case">>, <<"advance", "case">>}
    BY <1>1 DEF Projections, FreezingSteps
  <2>. QED
    BY <1>1, <2>1, NotOutdated
<1>4. ~ Done(call[a], "save", "case") /\ Sound(call[a])
  BY <1>1, <1>3, TailShrinks DEF Done, Plan, Planned, Typed, IsCall, Busy
<1>5. IsContent(candidate')
  BY <1>1, <1>4 DEF Typed
<1>6. candidate'.state # "approved" \/ hist["case"] # <<>>
  <2>1. CASE call[a].op # "accept"
    BY <1>1, <1>4, <2>1 DEF Sound
  <2>2. CASE call[a].op = "accept"
    <3>1. a = "loop"
      BY <1>3, <2>2 DEF Planned, Actors
    <3>. QED
      BY <1>1, <1>3, <2>2, <3>1, AcceptedCase
  <2>. QED
    BY <2>1, <2>2
<1>7. /\ \A k \in Kinds : Head(call[a].left) \notin {<<"mark", k>>, <<"approve", k>>, <<"promote", k>>}
      /\ Head(call[a].left) \notin {<<"check", "case">>, <<"select", "case">>, <<"validate", "case">>}
      /\ Head(call[a].left) \notin {<<"import", "case">>, <<"create", "case">>}
  BY <1>1
<1>. QED
  BY <1>1, <1>2, <1>3, <1>5, <1>6, <1>7, QuietKeeps

(* The approved case's file written. *)
LEMMA FileKeeps ==
    ASSUME IInv, NEW a \in Actors, FileApproved(a)
    PROVE  IInv'
<1>1. /\ Typed /\ Busy(a) /\ Head(call[a].left) = <<"file", "case">>
      /\ UNCHANGED <<hist, approvals, marker, release, candidate>> /\ Proceed(a)
  BY DEF IInv, FileApproved, StepIs, ledgerVars, releaseVars
<1>2. Moves(a, call[a].at)
  BY <1>1, ProceedMoves
<1>3. Reviewed /\ Planned /\ ~ Outdated
  <2>1. Head(call[a].left) \notin Projections \cup FreezingSteps \cup {<<"export", "case">>, <<"advance", "case">>}
    BY <1>1 DEF Projections, FreezingSteps
  <2>. QED
    BY <1>1, <2>1, NotOutdated
<1>4. a = "loop" /\ call["loop"].op = "accept"
  BY <1>1, <1>3, Owners
<1>5. hist["case"] # <<>>
  BY <1>1, <1>3, <1>4, AcceptedCase
<1>6. /\ \A k \in Kinds : Head(call[a].left) \notin {<<"mark", k>>, <<"approve", k>>, <<"promote", k>>}
      /\ Head(call[a].left) \notin {<<"check", "case">>, <<"select", "case">>, <<"validate", "case">>}
      /\ Head(call[a].left) \notin {<<"import", "case">>, <<"create", "case">>}
  BY <1>1
<1>. QED
  BY <1>1, <1>2, <1>3, <1>5, <1>6, QuietKeeps

(* Steps that change only what the invariant does not speak of. *)
LEMMA IdleStepKeeps ==
    ASSUME IInv, NEW a \in Actors, Busy(a), Proceed(a), NEW k \in Kinds,
           NEW name \in {"advance", "export", "close", "review"}, Head(call[a].left) = <<name, k>>,
           UNCHANGED <<hist, approvals, marker, release, candidate, approvedCase>>
    PROVE  IInv'
<1>1. Moves(a, call[a].at)
  BY ProceedMoves DEF IInv
<1>2. /\ \A j \in Kinds : Head(call[a].left) \notin {<<"mark", j>>, <<"approve", j>>, <<"promote", j>>}
      /\ Head(call[a].left) \notin {<<"check", "case">>, <<"select", "case">>, <<"validate", "case">>}
      /\ Head(call[a].left) \notin {<<"import", "case">>, <<"create", "case">>}
  OBVIOUS
<1>. QED
  BY <1>1, <1>2, QuietKeeps

(* Steps that write neither a revision nor an approval. *)
LEMMA OtherStepsKeep ==
    ASSUME IInv, NEW a \in Actors,
           Advance(a) \/ MarkExported(a) \/ MarkReleased(a) \/ \E k \in Kinds : Review(a, k)
    PROVE  IInv'
<1>1. CASE Advance(a) \/ MarkExported(a) \/ MarkReleased(a)
  <2>1. /\ Busy(a) /\ Proceed(a)
        /\ Head(call[a].left) \in {<<"advance", "case">>, <<"export", "case">>, <<"close", "case">>}
        /\ UNCHANGED <<hist, approvals, marker, release, candidate, approvedCase>>
    BY <1>1 DEF Advance, MarkExported, MarkReleased, StepIs, ledgerVars, fileVars, releaseVars
  <2>2. PICK name \in {"advance", "export", "close", "review"} : Head(call[a].left) = <<name, "case">>
    BY <2>1
  <2>3. "case" \in Kinds
    BY DEF Kinds
  <2>. QED
    BY <2>1, <2>2, <2>3, IdleStepKeeps
<1>2. ASSUME NEW k \in Kinds, Review(a, k) PROVE IInv'
  <2>1. CASE Raise(a)
    BY <2>1, RaiseKeeps
  <2>2. CASE Proceed(a) /\ UNCHANGED <<hist, approvals, fileVars, releaseVars, closed, undisturbed, boundVars>>
    <3>1. /\ Busy(a) /\ Proceed(a) /\ Head(call[a].left) = <<"review", k>>
          /\ UNCHANGED <<hist, approvals, marker, release, candidate, approvedCase>>
      BY <1>2, <2>2 DEF Review, StepIs, fileVars, releaseVars
    <3>. QED
      BY <3>1, IdleStepKeeps
  <2>. QED
    BY <1>2, <2>1, <2>2 DEF Review
<1>. QED
  BY <1>1, <1>2

(* A step that takes the current revision as it is. *)
LEMMA HoldKeeps ==
    ASSUME IInv, NEW a \in Actors, Busy(a), NEW k \in Kinds,
           NEW name \in {"open", "submit", "hold"}, Head(call[a].left) = <<name, k>>,
           HoldCurrent(a, k)
    PROVE  IInv'
<1>1. /\ Typed /\ Hold(a, k, Len(hist[k])) /\ Len(hist[k]) \in Nat
      /\ UNCHANGED <<hist, approvals, marker, release, candidate, approvedCase>>
  BY Lengthy DEF IInv, Typed, HoldCurrent, ledgerVars, fileVars, releaseVars
<1>2. Moves(a, [call[a].at EXCEPT ![k] = Len(hist[k])])
  BY <1>1, HoldMoves
<1>3. call[a].op \notin {"accept", "publish", "export"}
  BY Drafters
<1>4. Head(call[a].left) \notin {<<"import", "case">>, <<"create", "case">>}
  OBVIOUS
<1>. QED
  BY <1>1, <1>2, <1>3, <1>4, QuietKeeps

-----------------------------------------------------------------------------
(* Steps that write a revision that is not approved. *)

(* A revision written that is no approval. *)
LEMMA DraftingKeeps ==
    ASSUME IInv, NEW a \in Actors, Busy(a), NEW k \in Kinds, NEW n \in Nat, NEW rev,
           WriteRevision(a, k, n, rev),
           Head(call[a].left) \in {<<"import", "case">>, <<"create", "case">>} => k = "case",
           Reviewed => rev.life \notin Granted,
           Reviewed /\ a = "job" /\ k = "case" /\ n = Len(hist[k]) + 1 =>
              hist["case"] = <<>> \/ hist["case"][Len(hist["case"])].life # "approved",
           \/ Head(call[a].left) = <<"mark", k>> /\ rev.life = "reviewed"
           \/ Head(call[a].left) \in Projections
           \/ call[a].op \notin {"accept", "publish", "export"}
    PROVE  IInv'
<1>1. Typed
  BY DEF IInv
<1>2. /\ UNCHANGED <<candidate, approvedCase, approvals, marker, release>>
      /\ \/ /\ n = Len(hist[k]) + 1 /\ Added(hist, hist', k, rev)
            /\ Moves(a, [call[a].at EXCEPT ![k] = Len(hist[k]) + 1])
         \/ hist' = hist /\ call' = [call EXCEPT ![a] = Idle]
  BY <1>1, WriteCases
<1>3. CASE hist' = hist /\ call' = [call EXCEPT ![a] = Idle]
  BY <1>2, <1>3, RaisingKeeps
<1>4. CASE /\ n = Len(hist[k]) + 1 /\ Added(hist, hist', k, rev)
           /\ Moves(a, [call[a].at EXCEPT ![k] = Len(hist[k]) + 1])
  BY <1>2, <1>4, DraftKeeps
<1>. QED
  BY <1>2, <1>3, <1>4

(* A candidate's file becomes a Case or a Gold. *)
LEMMA ImportKeeps ==
    ASSUME IInv, NEW a \in Actors, NEW k \in Kinds, Import(a, k)
    PROVE  IInv'
<1>1. Typed /\ Busy(a) /\ Head(call[a].left) = <<"import", k>>
  BY DEF IInv, Import, StepIs
<1>2. PICK rev : rev.life = "draft" /\ WriteRevision(a, k, 1, rev)
  BY RevisionFields DEF Import
<1>3. Head(call[a].left) \in Projections
  <2>1. <<"import", k>> \in Projections
    BY DEF Projections
  <2>. QED
    BY <1>1, <2>1
<1>4. Reviewed => a # "job"
  <2>1. SUFFICES ASSUME Reviewed, a = "job" PROVE FALSE
    OBVIOUS
  <2>2. Head(call[a].left) \in JobSteps
    BY <1>1, <2>1, Owners DEF Reviewed
  <2>. QED
    BY <1>1, <2>2 DEF JobSteps
<1>5. Head(call[a].left) \in {<<"import", "case">>, <<"create", "case">>} => k = "case"
  BY <1>1
<1>6. "draft" \notin Granted
  BY DEF Granted
<1>. QED
  BY <1>1, <1>2, <1>3, <1>4, <1>5, <1>6, DraftingKeeps

(* An imported artifact gets the lifecycle of its candidate. *)
LEMMA AdoptKeeps ==
    ASSUME IInv, NEW a \in Actors, NEW k \in Kinds, Adopt(a, k)
    PROVE  IInv'
<1>1. Typed /\ Busy(a) /\ Head(call[a].left) = <<"adopt", k>> /\ call[a].at[k] \in Nat
  BY DEF IInv, Adopt, StepIs, Typed, IsCall
<1>2. PICK n, rev : /\ n = call[a].at[k] + 1 /\ rev.life = LegacyLifecycle(call[a].read.state)
                    /\ WriteRevision(a, k, n, rev)
  BY RevisionFields DEF Adopt, Succeed
<1>3. Head(call[a].left) \in Projections /\ n \in Nat
  <2>1. <<"adopt", k>> \in Projections
    BY DEF Projections
  <2>. QED
    BY <1>1, <1>2, <2>1
<1>4. Reviewed => a # "job"
  <2>1. SUFFICES ASSUME Reviewed, a = "job" PROVE FALSE
    OBVIOUS
  <2>2. Head(call[a].left) \in JobSteps
    BY <1>1, <2>1, Owners DEF Reviewed
  <2>. QED
    BY <1>1, <2>2 DEF JobSteps
<1>5. Head(call[a].left) \notin {<<"import", "case">>, <<"create", "case">>}
  BY <1>1
<1>6. Reviewed => rev.life \notin Granted
  <2>1. SUFFICES ASSUME Reviewed PROVE rev.life \notin Granted
    OBVIOUS
  <2>2. Sound(call[a]) /\ ~ Done(call[a], "adopt", k)
    BY <1>1, <2>1, TailShrinks DEF Reviewed, Planned, Done, Plan, Typed, IsCall, Busy
  <2>. QED
    BY <1>2, <2>2 DEF Sound
<1>. QED
  BY <1>1, <1>2, <1>3, <1>4, <1>5, <1>6, DraftingKeeps

(* A job creates a Case. *)
LEMMA CreateKeeps ==
    ASSUME IInv, NEW a \in Actors, CreateCase(a)
    PROVE  IInv'
<1>1. Typed /\ Busy(a) /\ Head(call[a].left) = <<"create", "case">> /\ "case" \in Kinds
  BY DEF IInv, CreateCase, StepIs, Kinds
<1>2. PICK rev : rev.life = "draft" /\ WriteRevision(a, "case", 1, rev)
  BY RevisionFields DEF CreateCase
<1>3. call[a].op \notin {"accept", "publish", "export"}
  BY <1>1, Drafters
<1>4. 1 = Len(hist["case"]) + 1 => hist["case"] = <<>>
  BY <1>1, Lengthy DEF Typed
<1>5. "draft" \notin Granted
  BY DEF Granted
<1>. QED
  BY <1>1, <1>2, <1>3, <1>4, <1>5, DraftingKeeps

(* The revision after the current one. *)
LEMMA NextDraftKeeps ==
    ASSUME IInv, NEW a \in Actors, Busy(a), NEW k \in Kinds,
           NEW name \in {"open", "submit", "propose", "revise", "turn down"},
           Head(call[a].left) = <<name, k>>,
           NEW n \in Nat, NEW life \in {"draft", "proposed", "rejected"}, NEW text, NEW actor, NEW pin,
           WriteRevision(a, k, n, Revision(life, text, actor, pin)),
           a = "job" /\ k = "case" => hist["case"][Len(hist["case"])].life # "approved"
    PROVE  IInv'
<1>1. PICK rev : rev.life = life /\ WriteRevision(a, k, n, rev)
  <2>1. Revision(life, text, actor, pin).life = life
    BY DEF Revision
  <2>. QED
    BY <2>1
<1>2. call[a].op \notin {"accept", "publish", "export"}
  BY Drafters
<1>3. life \notin Granted
  BY DEF Granted
<1>4. Head(call[a].left) \notin {<<"import", "case">>, <<"create", "case">>}
  <2>1. ASSUME NEW p, NEW s \in {"open", "submit", "propose", "revise", "turn down"}, p = <<s, k>>
        PROVE  p \notin {<<"import", "case">>, <<"create", "case">>}
    BY <2>1
  <2>. QED
    BY <2>1
<1>. QED
  BY <1>1, <1>2, <1>3, <1>4, DraftingKeeps

(* The current revision taken, a draft proposed first. *)
LEMMA OpenKeeps ==
    ASSUME IInv, NEW a \in Actors, NEW k \in Kinds, Open(a, k)
    PROVE  IInv'
<1>1. /\ Busy(a) /\ Head(call[a].left) = <<"open", k>> /\ Len(hist[k]) + 1 \in Nat
  BY Lengthy DEF IInv, Typed, Open, StepIs
<1>2. CASE HoldCurrent(a, k)
  BY <1>1, <1>2, HoldKeeps
<1>3. CASE Current(k).life = "draft" /\ SucceedCurrent(a, k, "proposed", Current(k).text, Current(k).actor)
  <2>1. PICK text, actor, pin :
           WriteRevision(a, k, Len(hist[k]) + 1, Revision("proposed", text, actor, pin))
    BY <1>3 DEF SucceedCurrent
  <2>2. hist[k][Len(hist[k])].life # "approved"
    BY <1>3 DEF Current
  <2>3. PICK n \in Nat : n = Len(hist[k]) + 1
    BY <1>1
  <2>. QED
    BY <1>1, <2>1, <2>2, <2>3, NextDraftKeeps
<1>. QED
  BY <1>2, <1>3 DEF Open

(* A draft or rejected Case proposed. *)
LEMMA SubmitKeeps ==
    ASSUME IInv, NEW a \in Actors, Submit(a)
    PROVE  IInv'
<1>1. /\ Busy(a) /\ Head(call[a].left) = <<"submit", "case">> /\ Len(hist["case"]) + 1 \in Nat
      /\ "case" \in Kinds
  BY Lengthy DEF IInv, Typed, Submit, StepIs, Kinds
<1>2. CASE HoldCurrent(a, "case")
  BY <1>1, <1>2, HoldKeeps
<1>3. CASE /\ Current("case").life \in {"draft", "rejected"}
           /\ SucceedCurrent(a, "case", "proposed", Current("case").text, Author)
  <2>1. PICK text, actor, pin :
           WriteRevision(a, "case", Len(hist["case"]) + 1, Revision("proposed", text, actor, pin))
    BY <1>3 DEF SucceedCurrent
  <2>2. hist["case"][Len(hist["case"])].life # "approved"
    BY <1>3 DEF Current
  <2>3. PICK n \in Nat : n = Len(hist["case"]) + 1
    BY <1>1
  <2>. QED
    BY <1>1, <2>1, <2>2, <2>3, NextDraftKeeps
<1>. QED
  BY <1>2, <1>3 DEF Submit

(* A proposal written. *)
LEMMA ProposeKeeps ==
    ASSUME IInv, NEW a \in Actors, NEW k \in Kinds, Propose(a, k)
    PROVE  IInv'
<1>1. /\ Busy(a) /\ Head(call[a].left) = <<"propose", k>> /\ Len(hist[k]) + 1 \in Nat
  BY Lengthy DEF IInv, Typed, Propose, StepIs
<1>2. CASE Raise(a)
  BY <1>2, RaiseKeeps
<1>3. CASE /\ Current(k).life \in {"draft", "rejected"}
           /\ SucceedCurrent(a, k, "proposed", Current(k).text, Author)
  <2>1. PICK text, actor, pin :
           WriteRevision(a, k, Len(hist[k]) + 1, Revision("proposed", text, actor, pin))
    BY <1>3 DEF SucceedCurrent
  <2>2. hist[k][Len(hist[k])].life # "approved"
    BY <1>3 DEF Current
  <2>3. PICK n \in Nat : n = Len(hist[k]) + 1
    BY <1>1
  <2>. QED
    BY <1>1, <2>1, <2>2, <2>3, NextDraftKeeps
<1>. QED
  BY <1>2, <1>3 DEF Propose

(* A revised text written. *)
LEMMA ReviseKeeps ==
    ASSUME IInv, NEW a \in Actors, NEW k \in Kinds, Revise(a, k)
    PROVE  IInv'
<1>1. /\ Busy(a) /\ Head(call[a].left) = <<"revise", k>> /\ Len(hist[k]) + 1 \in Nat
  BY Lengthy DEF IInv, Typed, Revise, StepIs
<1>2. CASE Raise(a)
  BY <1>2, RaiseKeeps
<1>3. CASE SucceedCurrent(a, k, "draft", Text(k, call[a].next), Author)
  <2>1. PICK text, actor, pin :
           WriteRevision(a, k, Len(hist[k]) + 1, Revision("draft", text, actor, pin))
    BY <1>3 DEF SucceedCurrent
  <2>2. a = "job" => k # "case"
    <3>1. a = "job" => <<"revise", k>> \in JobSteps
      BY <1>1, Drafters
    <3>2. <<"revise", "case">> \notin JobSteps
      BY DEF JobSteps
    <3>. QED
      BY <3>1, <3>2
  <2>3. PICK n \in Nat : n = Len(hist[k]) + 1
    BY <1>1
  <2>. QED
    BY <1>1, <2>1, <2>2, <2>3, NextDraftKeeps
<1>. QED
  BY <1>2, <1>3 DEF Revise

(* A rejection written. *)
LEMMA TurnDownKeeps ==
    ASSUME IInv, NEW a \in Actors, NEW k \in Kinds, TurnDown(a, k)
    PROVE  IInv'
<1>1. /\ Busy(a) /\ Head(call[a].left) = <<"turn down", k>> /\ call[a].at[k] + 1 \in Nat
  <2>1. call[a].at[k] \in Nat
    BY DEF IInv, Typed, IsCall
  <2>2. Busy(a) /\ Head(call[a].left) = <<"turn down", k>>
    BY DEF TurnDown, StepIs
  <2>3. call[a].at[k] + 1 \in Nat
    BY <2>1
  <2>. QED
    BY <2>2, <2>3, Zenon
<1>2. PICK text, actor, pin :
         WriteRevision(a, k, call[a].at[k] + 1, Revision("rejected", text, actor, pin))
  BY DEF TurnDown, Succeed
<1>3. a # "job"
  <2>1. a = "job" => <<"turn down", k>> \in JobSteps
    BY <1>1, Drafters
  <2>2. <<"turn down", k>> \notin JobSteps
    BY DEF JobSteps
  <2>. QED
    BY <2>1, <2>2
<1>4. PICK n \in Nat : n = call[a].at[k] + 1
  BY <1>1
<1>. QED
  BY <1>1, <1>2, <1>3, <1>4, NextDraftKeeps

(* A revision marked as reviewed. *)
LEMMA MarkKeeps ==
    ASSUME IInv, NEW a \in Actors, NEW k \in Kinds, MarkReviewed(a, k)
    PROVE  IInv'
<1>1. Typed /\ Busy(a) /\ Head(call[a].left) = <<"mark", k>> /\ call[a].at[k] + 1 \in Nat
  BY DEF IInv, Typed, IsCall, MarkReviewed, StepIs
<1>2. CASE Raise(a)
  BY <1>2, RaiseKeeps
<1>3. CASE Succeed(a, k, "reviewed", Target(a, k).actor)
  <2>1. PICK n, rev : n \in Nat /\ rev.life = "reviewed" /\ WriteRevision(a, k, n, rev)
    BY <1>1, <1>3, RevisionFields DEF Succeed
  <2>2. Reviewed => a # "job"
    BY <1>1, Owners DEF Reviewed
  <2>3. "reviewed" \notin Granted
    BY DEF Granted
  <2>4. Head(call[a].left) \notin {<<"import", "case">>, <<"create", "case">>}
    BY <1>1
  <2>. QED
    BY <1>1, <2>1, <2>2, <2>3, <2>4, DraftingKeeps
<1>. QED
  BY <1>2, <1>3 DEF MarkReviewed

-----------------------------------------------------------------------------
(* The plans that calls start with. *)

(* The plan that imports one kind of artifact. *)
ImportPlan(kept, k) ==
    <<<<"import", k>>>> \o (IF kept = "draft" THEN <<>> ELSE <<<<"adopt", k>>>>)

(* It imports, and adopts when the candidate is no draft. *)
LEMMA ImportPlans ==
    ASSUME NEW kept, NEW k \in Kinds
    PROVE  /\ IsSeq(ImportPlan(kept, k)) /\ Elements(ImportPlan(kept, k)) \subseteq Projections
           /\ <<"import", k>> \in Elements(ImportPlan(kept, k))
           /\ \A j \in Kinds : <<"adopt", j>> \in Elements(ImportPlan(kept, k)) => kept # "draft"
<1>. DEFINE S == {<<"import", k>>}
            T == {<<"adopt", k>>}
<1>1. <<<<"import", k>>>> \in Seq(S) /\ <<<<"adopt", k>>>> \in Seq(T)
  OBVIOUS
<1>2. IsSeq(<<<<"import", k>>>>) /\ IsSeq(<<<<"adopt", k>>>>) /\ IsSeq(<<>>) /\ Elements(<<>>) = {}
  BY <1>1, SeqIsSeq, EmptySeq, LenProperties DEF IsSeq, Elements
<1>3. Elements(<<<<"import", k>>>>) = S /\ Elements(<<<<"adopt", k>>>>) = T
  BY DEF Elements
<1>4. CASE kept = "draft"
  <2>1. IsSeq(ImportPlan(kept, k)) /\ Elements(ImportPlan(kept, k)) = S
    <3>1. PICK s : s = <<<<"import", k>>>>
      OBVIOUS
    <3>2. ImportPlan(kept, k) = s \o <<>>
      BY <1>4, <3>1 DEF ImportPlan
    <3>3. IsSeq(s \o <<>>) /\ Elements(s \o <<>>) = Elements(s) \cup Elements(<<>>)
      BY <1>2, <3>1, ConcatHolds
    <3>. QED
      BY <1>2, <1>3, <3>1, <3>2, <3>3
  <2>. QED
    BY <2>1 DEF Projections
<1>5. CASE kept # "draft"
  <2>1. IsSeq(ImportPlan(kept, k)) /\ Elements(ImportPlan(kept, k)) = S \cup T
    <3>1. PICK s, t : s = <<<<"import", k>>>> /\ t = <<<<"adopt", k>>>>
      OBVIOUS
    <3>2. ImportPlan(kept, k) = s \o t
      BY <1>5, <3>1 DEF ImportPlan
    <3>3. IsSeq(s \o t) /\ Elements(s \o t) = Elements(s) \cup Elements(t)
      BY <1>2, <3>1, ConcatHolds
    <3>. QED
      BY <1>3, <3>1, <3>2, <3>3
  <2>. QED
    BY <1>5, <2>1 DEF Projections
<1>. QED
  BY <1>4, <1>5

(* The projection of a candidate, before a Case exists and after. *)
LEMMA ProjectionPlan ==
    ASSUME NEW c
    PROVE  LET s == ProjectionSteps(c)
           IN /\ IsSeq(s) /\ Elements(s) \subseteq Projections /\ Sorted(s)
              /\ hist["case"] # <<>> => Elements(s) = {}
              /\ hist["case"] = <<>> => <<"import", "case">> \in Elements(s)
              /\ \A k \in Kinds : <<"adopt", k>> \in Elements(s) =>
                    hist["case"] = <<>> /\ LegacyLifecycle(c.state) # "draft"
<1>. DEFINE s == ProjectionSteps(c)
            kept == LegacyLifecycle(c.state)
<1>1. IsSeq(<<>>) /\ Elements(<<>>) = {}
  BY EmptySeq, LenProperties DEF IsSeq, Elements
<1>2. s = IF hist["case"] # <<>> THEN <<>>
          ELSE ImportPlan(kept, "case") \o (IF c.a = NoAnswer THEN <<>> ELSE ImportPlan(kept, "gold"))
  BY DEF ProjectionSteps, ImportPlan
<1>. HIDE DEF s, kept
<1>3. PICK u, v : u = ImportPlan(kept, "case") /\ v = IF c.a = NoAnswer THEN <<>> ELSE ImportPlan(kept, "gold")
  OBVIOUS
<1>4. /\ IsSeq(u) /\ Elements(u) \subseteq Projections /\ <<"import", "case">> \in Elements(u)
      /\ \A k \in Kinds : <<"adopt", k>> \in Elements(u) => kept # "draft"
  BY <1>3, ImportPlans DEF Kinds
<1>5. /\ IsSeq(v) /\ Elements(v) \subseteq Projections
      /\ \A k \in Kinds : <<"adopt", k>> \in Elements(v) => kept # "draft"
  <2>1. CASE c.a = NoAnswer
    BY <1>1, <1>3, <2>1
  <2>2. CASE c.a # NoAnswer
    BY <1>3, <2>2, ImportPlans DEF Kinds
  <2>. QED
    BY <2>1, <2>2
<1>6. IsSeq(u \o v) /\ Elements(u \o v) = Elements(u) \cup Elements(v)
  BY <1>4, <1>5, ConcatHolds
<1>7. IsSeq(s) /\ Elements(s) \subseteq Projections
  BY <1>1, <1>2, <1>3, <1>4, <1>5, <1>6
<1>8. Sorted(s)
  BY <1>7, ProjectionRanks DEF Sorted, Elements
<1>9. hist["case"] # <<>> => Elements(s) = {}
  BY <1>1, <1>2
<1>10. hist["case"] = <<>> => s = u \o v
  BY <1>2, <1>3
<1>. QED
  BY <1>4, <1>5, <1>6, <1>7, <1>8, <1>9, <1>10 DEF s, kept

(* A plan that begins with the projection. *)
LEMMA ProjectedPlan ==
    ASSUME NEW c, NEW t, IsSeq(t)
    PROVE  LET s == ProjectionSteps(c) \o t
           IN /\ IsSeq(s) /\ Elements(s) = Elements(ProjectionSteps(c)) \cup Elements(t)
              /\ Elements(s) \subseteq Projections \cup Elements(t)
              /\ Sorted(t) => Sorted(s)
<1>1. PICK p : p = ProjectionSteps(c)
  OBVIOUS
<1>2. IsSeq(p) /\ Elements(p) \subseteq Projections /\ Sorted(p)
  BY <1>1, ProjectionPlan
<1>3. IsSeq(p \o t) /\ Elements(p \o t) = Elements(p) \cup Elements(t)
  BY <1>2, ConcatHolds
<1>4. Sorted(t) => Sorted(p \o t)
  BY <1>2, ConcatHolds, ProjectionRanks
<1>. QED
  BY <1>1, <1>2, <1>3, <1>4

(* A call with nothing to do. *)
LEMMA NoPlan ==
    IsSeq(<<>>) /\ Elements(<<>>) = {} /\ Sorted(<<>>)
BY EmptySeq, LenProperties DEF IsSeq, Elements, Sorted

(* A call with one thing to do. *)
LEMMA SinglePlan ==
    ASSUME NEW step
    PROVE  IsSeq(<<step>>) /\ Elements(<<step>>) = {step} /\ Sorted(<<step>>)
<1>1. PICK s : s = <<step>>
  OBVIOUS
<1>2. s \in Seq({step}) /\ DOMAIN s = {1} /\ s[1] = step
  BY <1>1
<1>3. Elements(s) = {step}
  BY <1>2 DEF Elements
<1>4. IsSeq(s)
  BY <1>2, SeqIsSeq
<1>5. Sorted(s)
  BY <1>2 DEF Sorted
<1>. QED
  BY <1>1, <1>3, <1>4, <1>5

(* The plan of a question that is created, by a handler or a job. *)
LEMMA CreatePlan ==
    LET s == CreateSteps \o <<<<"ask", "case">>>>
    IN /\ IsSeq(CreateSteps)
       /\ Elements(CreateSteps) = {<<"save", "case">>, <<"create", "case">>, <<"advance", "case">>}
       /\ IsSeq(s) /\ Elements(s) = Elements(CreateSteps) \cup {<<"ask", "case">>}
       /\ Sorted(s)
<1>. DEFINE S == {<<"save", "case">>, <<"create", "case">>, <<"advance", "case">>}
<1>1. PICK c, t : c = CreateSteps /\ t = <<<<"ask", "case">>>>
  OBVIOUS
<1>2. IsSeq(c) /\ Len(c) = 3 /\ DOMAIN c = 1 .. 3 /\ Elements(c) = S /\ \A i \in 1 .. 3 : Rank(c[i]) = 9 + i
  <2>1. c \in Seq(S) /\ Len(c) = 3
    BY <1>1 DEF CreateSteps
  <2>2. IsSeq(c) /\ DOMAIN c = 1 .. 3
    BY <2>1, SeqIsSeq, LenProperties
  <2>3. c[1] = <<"save", "case">> /\ c[2] = <<"create", "case">> /\ c[3] = <<"advance", "case">>
    BY <1>1 DEF CreateSteps
  <2>4. Rank(c[1]) = 10 /\ Rank(c[2]) = 11 /\ Rank(c[3]) = 12
    BY <2>3, Ranks, Zenon
  <2>. QED
    BY <2>1, <2>2, <2>3, <2>4 DEF Elements
<1>3. IsSeq(t) /\ Elements(t) = {<<"ask", "case">>} /\ Sorted(t)
  BY <1>1, SinglePlan
<1>4. Sorted(c)
  BY <1>2 DEF Sorted
<1>5. \A p \in Elements(c), q \in Elements(t) : Rank(p) < Rank(q)
  BY <1>2, <1>3, Ranks
<1>6. IsSeq(c \o t) /\ Elements(c \o t) = Elements(c) \cup Elements(t) /\ Sorted(c \o t)
  BY <1>2, <1>3, <1>4, <1>5, ConcatHolds
<1>. QED
  BY <1>1, <1>2, <1>3, <1>6

(* The steps of _record_ledger_resolution. *)
LEMMA ResolvePlan ==
    ASSUME NEW next
    PROVE  /\ IsSeq(ResolveSteps(next)) /\ ResolveSteps(next) # <<>>
           /\ Elements(ResolveSteps(next)) \subseteq JobSteps \ {<<"create", "case">>, <<"ask", "case">>}
<1>. DEFINE S == JobSteps \ {<<"create", "case">>, <<"ask", "case">>}
<1>1. /\ <<"save", "case">> \in S /\ <<"submit", "case">> \in S /\ <<"revise", "gold">> \in S
      /\ <<"propose", "gold">> \in S /\ <<"advance", "case">> \in S /\ <<"hold", "case">> \in S
  BY DEF JobSteps
<1>. HIDE DEF S
<1>2. ASSUME NEW u \in S, NEW v \in S, NEW w \in S, NEW x \in S, NEW y \in S
      PROVE  /\ <<u, v, w, x, y>> \in Seq(S) /\ <<u, v, w, x, y>> # <<>>
             /\ <<u, v, w, x>> \in Seq(S) /\ <<u, v, w, x>> # <<>>
  OBVIOUS
<1>3. \/ ResolveSteps(next) = <<<<"save", "case">>, <<"submit", "case">>, <<"revise", "gold">>,
                                <<"propose", "gold">>, <<"advance", "case">>>>
      \/ ResolveSteps(next) = <<<<"save", "case">>, <<"hold", "case">>, <<"revise", "gold">>,
                                <<"advance", "case">>>>
  BY DEF ResolveSteps
<1>4. ResolveSteps(next) \in Seq(S) /\ ResolveSteps(next) # <<>>
  <2>1. CASE ResolveSteps(next) = <<<<"save", "case">>, <<"submit", "case">>, <<"revise", "gold">>,
                                    <<"propose", "gold">>, <<"advance", "case">>>>
    <3>1. PICK u, v, w, x, y : /\ u = <<"save", "case">> /\ v = <<"submit", "case">> /\ w = <<"revise", "gold">>
                               /\ x = <<"propose", "gold">> /\ y = <<"advance", "case">>
      OBVIOUS
    <3>2. ResolveSteps(next) = <<u, v, w, x, y>> /\ u \in S /\ v \in S /\ w \in S /\ x \in S /\ y \in S
      BY <1>1, <2>1, <3>1, Zenon
    <3>3. <<u, v, w, x, y>> \in Seq(S) /\ <<u, v, w, x, y>> # <<>>
      BY <1>2, <3>2
    <3>. QED
      BY <3>2, <3>3, Zenon
  <2>2. CASE ResolveSteps(next) = <<<<"save", "case">>, <<"hold", "case">>, <<"revise", "gold">>,
                                    <<"advance", "case">>>>
    <3>1. PICK u, v, w, x : /\ u = <<"save", "case">> /\ v = <<"hold", "case">> /\ w = <<"revise", "gold">>
                            /\ x = <<"advance", "case">>
      OBVIOUS
    <3>2. ResolveSteps(next) = <<u, v, w, x>> /\ u \in S /\ v \in S /\ w \in S /\ x \in S
      BY <1>1, <2>2, <3>1, Zenon
    <3>3. <<u, v, w, x>> \in Seq(S) /\ <<u, v, w, x>> # <<>>
      BY <1>2, <3>2
    <3>. QED
      BY <3>2, <3>3, Zenon
  <2>. QED
    BY <1>3, <2>1, <2>2, Zenon
<1>. QED
  BY <1>4, SeqIsSeq, Zenon DEF S

(* The steps of an edit or a rejection but for the projection. *)
Drafting == DecisionSteps \ Projections

(* The steps of _formal_reject. *)
LEMMA RejectPlan ==
    IsSeq(RejectSteps) /\ Elements(RejectSteps) \subseteq Drafting
<1>1. /\ <<"open", "case">> \in Drafting /\ <<"review", "case">> \in Drafting
      /\ <<"turn down", "case">> \in Drafting /\ <<"branch", "gold">> \in Drafting
      /\ <<"save", "case">> \in Drafting
  BY DEF Drafting, DecisionSteps, Projections, Kinds
<1>2. ASSUME NEW S, NEW u \in S, NEW v \in S, NEW w \in S, NEW x \in S, NEW y \in S
      PROVE  <<u, v, w, x, y>> \in Seq(S)
  OBVIOUS
<1>3. RejectSteps \in Seq(Drafting)
  BY <1>1, <1>2, Zenon DEF RejectSteps
<1>. QED
  BY <1>3, SeqIsSeq

(* The steps of _formal_edit. *)
LEMMA EditPlan ==
    ASSUME NEW next
    PROVE  IsSeq(EditSteps(next)) /\ Elements(EditSteps(next)) \subseteq Drafting
<1>1. /\ <<"open", "case">> \in Drafting /\ <<"review", "case">> \in Drafting
      /\ <<"revise", "case">> \in Drafting /\ <<"branch", "gold">> \in Drafting
      /\ <<"save", "case">> \in Drafting /\ <<"propose", "case">> \in Drafting
      /\ <<"propose", "gold">> \in Drafting
  BY DEF Drafting, DecisionSteps, Projections, Kinds
<1>2. ASSUME NEW S, NEW u \in S, NEW v \in S, NEW w \in S, NEW x \in S
      PROVE  <<>> \in Seq(S) /\ <<u>> \in Seq(S) /\ <<u, v>> \in Seq(S) /\ <<u, v, w, x>> \in Seq(S)
  OBVIOUS
<1>3. PICK s, t, u : /\ s = <<<<"save", "case">>, <<"open", "case">>, <<"review", "case">>, <<"revise", "case">>>>
                     /\ t = IF next.a = NoAnswer THEN <<>> ELSE <<<<"branch", "gold">>>>
                     /\ u = IF next.state # "review_required" THEN <<>>
                            ELSE <<<<"propose", "case">>, <<"propose", "gold">>>>
  OBVIOUS
<1>4. s \in Seq(Drafting) /\ t \in Seq(Drafting) /\ u \in Seq(Drafting)
  <2>1. s \in Seq(Drafting)
    BY <1>1, <1>2, <1>3, Zenon
  <2>2. t \in Seq(Drafting)
    BY <1>1, <1>2, <1>3, Zenon
  <2>3. u \in Seq(Drafting)
    BY <1>1, <1>2, <1>3, Zenon
  <2>. QED
    BY <2>1, <2>2, <2>3
<1>5. EditSteps(next) = (s \o t) \o u
  BY <1>3 DEF EditSteps
<1>6. /\ IsSeq(s) /\ IsSeq(t) /\ IsSeq(u)
      /\ Elements(s) \subseteq Drafting /\ Elements(t) \subseteq Drafting
      /\ Elements(u) \subseteq Drafting
  BY <1>4, SeqIsSeq
<1>7. IsSeq(s \o t) /\ Elements(s \o t) \subseteq Drafting
  BY <1>6, ConcatHolds
<1>8. IsSeq((s \o t) \o u) /\ Elements((s \o t) \o u) = Elements(s \o t) \cup Elements(u)
  BY <1>6, <1>7, ConcatHolds
<1>. QED
  BY <1>5, <1>6, <1>7, <1>8

(* The ranks of freezing. *)
LEMMA FreezingRanks ==
    \A p \in FreezingSteps : Rank(p) \in 1 .. 3
BY Ranks DEF FreezingSteps

(* The steps after the choice of the revisions. *)
LEMMA PublishPlan ==
    LET s == <<<<"validate", "case">>, <<"put", "case">>, <<"close", "case">>>>
        t == (FreezeSteps \o <<<<"pin", "case">>>>) \o s
    IN /\ IsSeq(s) /\ Sorted(s)
       /\ Elements(s) = {<<"validate", "case">>, <<"put", "case">>, <<"close", "case">>}
       /\ IsSeq(t) /\ Sorted(t) /\ Elements(t) = StepsOf("publish")
<1>1. PICK s, p : /\ s = <<<<"validate", "case">>, <<"put", "case">>, <<"close", "case">>>>
                  /\ p = <<<<"pin", "case">>>>
  OBVIOUS
<1>. DEFINE S == {<<"validate", "case">>, <<"put", "case">>, <<"close", "case">>}
<1>2. IsSeq(s) /\ DOMAIN s = 1 .. 3 /\ Elements(s) = S /\ \A i \in 1 .. 3 : Rank(s[i]) = 4 + i
  <2>1. s \in Seq(S) /\ Len(s) = 3
    BY <1>1
  <2>2. IsSeq(s) /\ DOMAIN s = 1 .. 3
    BY <2>1, SeqIsSeq, LenProperties
  <2>3. s[1] = <<"validate", "case">> /\ s[2] = <<"put", "case">> /\ s[3] = <<"close", "case">>
    BY <1>1
  <2>4. Rank(s[1]) = 5 /\ Rank(s[2]) = 6 /\ Rank(s[3]) = 7
    BY <2>3, Ranks, Zenon
  <2>. QED
    BY <2>1, <2>2, <2>3, <2>4 DEF Elements
<1>3. Sorted(s)
  BY <1>2 DEF Sorted
<1>4. IsSeq(p) /\ Elements(p) = {<<"pin", "case">>} /\ Sorted(p)
  BY <1>1, SinglePlan
<1>5. PICK f : f = FreezeSteps
  OBVIOUS
<1>6. IsSeq(f) /\ Elements(f) = FreezingSteps /\ Sorted(f)
  BY <1>5, FreezePlan
<1>7. IsSeq(f \o p) /\ Elements(f \o p) = FreezingSteps \cup {<<"pin", "case">>} /\ Sorted(f \o p)
  <2>1. \A x \in Elements(f), y \in Elements(p) : Rank(x) < Rank(y)
    BY <1>4, <1>6, Ranks DEF FreezingSteps
  <2>. QED
    BY <1>4, <1>6, <2>1, ConcatHolds
<1>8. /\ IsSeq((f \o p) \o s) /\ Sorted((f \o p) \o s)
      /\ Elements((f \o p) \o s) = Elements(f \o p) \cup Elements(s)
  <2>1. PICK g : g = f \o p
    OBVIOUS
  <2>2. \A x \in Elements(g), y \in Elements(s) : Rank(x) < Rank(y)
    <3>1. \A x \in Elements(g) : Rank(x) \in 1 .. 4
      <4>1. Rank(<<"pin", "case">>) = 4
        BY Ranks
      <4>2. Elements(g) = FreezingSteps \cup {<<"pin", "case">>}
        BY <1>7, <2>1
      <4>. QED
        BY <4>1, <4>2, FreezingRanks
    <3>2. \A y \in Elements(s) : Rank(y) \in 5 .. 7
      BY <1>2, Ranks
    <3>. QED
      BY <3>1, <3>2
  <2>3. IsSeq(g \o s) /\ Sorted(g \o s) /\ Elements(g \o s) = Elements(g) \cup Elements(s)
    BY <1>2, <1>3, <1>7, <2>1, <2>2, ConcatHolds
  <2>. QED
    BY <2>1, <2>3
<1>9. Elements((f \o p) \o s) = StepsOf("publish")
  BY <1>2, <1>7, <1>8 DEF StepsOf
<1>. QED
  BY <1>1, <1>2, <1>3, <1>5, <1>8, <1>9

(* The plan of an export. *)
LEMMA ExportPlan ==
    ASSUME NEW c
    PROVE  LET t == (ProjectionSteps(c) \o FreezeSteps) \o <<<<"export", "case">>, <<"advance", "case">>>>
           IN /\ IsSeq(t) /\ Sorted(t)
              /\ Elements(t) = Elements(ProjectionSteps(c)) \cup StepsOf("export")
<1>1. PICK s : s = <<<<"export", "case">>, <<"advance", "case">>>>
  OBVIOUS
<1>. DEFINE S == {<<"export", "case">>, <<"advance", "case">>}
<1>2. IsSeq(s) /\ DOMAIN s = 1 .. 2 /\ Elements(s) = S /\ Rank(s[1]) = 4 /\ Rank(s[2]) = 12
  <2>1. s \in Seq(S) /\ Len(s) = 2
    BY <1>1
  <2>2. IsSeq(s) /\ DOMAIN s = 1 .. 2
    BY <2>1, SeqIsSeq, LenProperties
  <2>3. s[1] = <<"export", "case">> /\ s[2] = <<"advance", "case">>
    BY <1>1
  <2>4. Rank(s[1]) = 4 /\ Rank(s[2]) = 12
    BY <2>3, Ranks, Zenon
  <2>5. Elements(s) = {s[1], s[2]}
    BY <2>2 DEF Elements
  <2>. QED
    BY <2>2, <2>3, <2>4, <2>5
<1>3. Sorted(s)
  BY <1>2 DEF Sorted
<1>4. PICK f : f = ProjectionSteps(c) \o FreezeSteps
  OBVIOUS
<1>5. IsSeq(f) /\ Elements(f) = Elements(ProjectionSteps(c)) \cup FreezingSteps /\ Sorted(f)
  BY <1>4, FreezePlan, ProjectedPlan
<1>6. \A x \in Elements(f), y \in Elements(s) : Rank(x) = 0 \/ Rank(x) < Rank(y)
  <2>1. \A x \in Elements(f) : Rank(x) \in 0 .. 3
    <3>1. Elements(f) \subseteq Projections \cup FreezingSteps
      BY <1>5, ProjectionPlan
    <3>2. \A x \in Projections : Rank(x) \in 0 .. 3
      BY ProjectionRanks
    <3>. QED
      BY <3>1, <3>2, FreezingRanks
  <2>2. \A y \in Elements(s) : Rank(y) \in 4 .. 12
    BY <1>2, Ranks
  <2>. QED
    BY <2>1, <2>2
<1>7. IsSeq(f \o s) /\ Sorted(f \o s) /\ Elements(f \o s) = Elements(f) \cup Elements(s)
  BY <1>2, <1>3, <1>5, <1>6, ConcatHolds
<1>8. Elements(f \o s) = Elements(ProjectionSteps(c)) \cup StepsOf("export")
  BY <1>2, <1>5, <1>7 DEF StepsOf
<1>. QED
  BY <1>1, <1>4, <1>7, <1>8

-----------------------------------------------------------------------------
(* The handlers. *)

(* A handler begins: a call, and nothing written yet. *)
LEMMA StartIs ==
    ASSUME NEW op, NEW who, NEW read, NEW next, NEW at \in [Kinds -> Nat], NEW left, IsSeq(left),
           Start(op, who, read, next, at, left)
    PROVE  /\ UNCHANGED <<hist, approvals, candidate, approvedCase, marker, release>>
           /\ \E d : /\ d.op = op /\ d.who = who /\ d.read = read /\ d.next = next /\ d.at = at
                     /\ d.left = left /\ IsCall(d) /\ call' = [call EXCEPT !["loop"] = d]
<1>1. PICK d : d = [op |-> op, who |-> who, read |-> read, next |-> next, at |-> at, left |-> left]
  OBVIOUS
<1>2. /\ d.op = op /\ d.who = who /\ d.read = read /\ d.next = next /\ d.at = at
      /\ d.left = left /\ IsCall(d)
  BY <1>1 DEF IsCall, Fields
<1>3. UNCHANGED <<hist, approvals, candidate, approvedCase, marker, release>>
  BY DEF Start, ledgerVars, fileVars, releaseVars
<1>4. call' = [call EXCEPT !["loop"] = d]
  BY <1>1 DEF Start
<1>. QED
  BY <1>2, <1>3, <1>4

(* A call holds nothing at first. *)
LEMMA OriginIsAt ==
    Origin \in [Kinds -> Nat]
BY DEF Origin

(* No projection claims an approval that the ledger does not have. *)
LEMMA AdoptsLess ==
    ASSUME NEW c, IsContent(c), c.state = "approved" => hist["case"] # <<>>
    PROVE  \A k \in Kinds : <<"adopt", k>> \in Elements(ProjectionSteps(c)) =>
              LegacyLifecycle(c.state) \notin Granted
<1>1. \A k \in Kinds : <<"adopt", k>> \in Elements(ProjectionSteps(c)) => hist["case"] = <<>>
  BY ProjectionPlan
<1>2. c.state # "approved" => LegacyLifecycle(c.state) \notin Granted
  BY DEF IsContent, CandidateStates, LegacyLifecycle, Granted
<1>. QED
  BY <1>1, <1>2

(* A handler that is neither an acceptance nor a publication. *)
LEMMA OtherStartKeeps ==
    ASSUME IInv, NEW d, IsCall(d), call' = [call EXCEPT !["loop"] = d],
           UNCHANGED <<hist, approvals, candidate, approvedCase, marker, release>>,
           d.op \in {"create", "resolve", "reject", "edit"}, Plan(d) \subseteq StepsOf(d.op),
           Done(d, "ask", "case"), IsContent(d.next), d.next.state # "approved",
           Reviewed => \A k \in Kinds : ~ Done(d, "adopt", k) => LegacyLifecycle(d.read.state) \notin Granted,
           Outdated => Plan(d) \subseteq Projections
    PROVE  IInv'
<1>1. "loop" \in Actors
  BY DEF Actors
<1>2. ASSUME Reviewed PROVE Fits(d, "loop")
  <2>1. Sound(d)
    BY <1>2 DEF Sound
  <2>2. Accepts(hist, approvals, d) /\ Publishes(hist, approvals, d)
    BY OtherCalls
  <2>. QED
    BY <2>1, <2>2 DEF Fits
<1>. QED
  BY <1>1, <1>2, PlanningKeeps

(* A draft is a candidate, and not approved. *)
LEMMA DraftIsContent ==
    ASSUME NEW q
    PROVE  IsContent(Draft(q)) /\ Draft(q).state # "approved"
BY DEF IsContent, Draft, CandidateStates

(* What the gates make of an answer is a candidate, and not approved. *)
LEMMA GatedIsContent ==
    ASSUME NEW q, NEW a, NEW next \in Gated(q, a)
    PROVE  IsContent(next) /\ next.state # "approved"
BY DEF IsContent, Gated, CandidateStates

(* A question typed in. *)
LEMMA CreateQuestionKeeps ==
    ASSUME IInv, NEW q, CreateQuestion(q)
    PROVE  IInv'
<1>1. candidate = Nothing /\ Start("create", Author, Nothing, Draft(q), Origin, CreateSteps)
  BY DEF CreateQuestion
<1>2. PICK d : /\ d.op = "create" /\ d.next = Draft(q) /\ d.left = CreateSteps /\ IsCall(d)
               /\ call' = [call EXCEPT !["loop"] = d]
  BY <1>1, StartIs, OriginIsAt, CreatePlan
<1>3. UNCHANGED <<hist, approvals, candidate, approvedCase, marker, release>>
  BY <1>1, StartIs, OriginIsAt, CreatePlan
<1>4. Plan(d) = {<<"save", "case">>, <<"create", "case">>, <<"advance", "case">>}
  BY <1>2, CreatePlan DEF Plan
<1>5. Plan(d) \subseteq StepsOf(d.op)
  BY <1>2, <1>4 DEF StepsOf, JobSteps
<1>6. Done(d, "ask", "case") /\ \A k \in Kinds : Done(d, "adopt", k)
  BY <1>4 DEF Done
<1>7. ~ Outdated
  BY <1>1 DEF Outdated
<1>. QED
  BY <1>2, <1>3, <1>5, <1>6, <1>7, DraftIsContent, OtherStartKeeps

(* The steps of a projection, by name. *)
LEMMA ProjectionNames ==
    \A p \in Projections : p[1] \in {"import", "adopt"}
BY DEF Projections

(* A candidate that is neither new nor approved. *)
LEMMA ProjectedStartKeeps ==
    ASSUME IInv, candidate # Nothing,
           NEW op \in {"resolve", "reject", "edit"}, NEW who, NEW next, NEW steps, IsSeq(steps),
           Elements(steps) \subseteq StepsOf(op) \ ({<<"ask", "case">>} \cup Projections),
           candidate.state = "approved" => Elements(steps) = {},
           IsContent(next), next.state # "approved",
           Start(op, who, candidate, next, Origin, ProjectionSteps(candidate) \o steps)
    PROVE  IInv'
<1>1. PICK l : l = ProjectionSteps(candidate) \o steps
  OBVIOUS
<1>2. /\ IsSeq(l) /\ Elements(l) = Elements(ProjectionSteps(candidate)) \cup Elements(steps)
      /\ Elements(l) \subseteq Projections \cup Elements(steps)
  BY <1>1, ProjectedPlan
<1>3. Start(op, who, candidate, next, Origin, l)
  BY <1>1
<1>4. PICK d : /\ d.op = op /\ d.next = next /\ d.read = candidate /\ d.left = l /\ IsCall(d)
               /\ call' = [call EXCEPT !["loop"] = d]
  BY <1>2, <1>3, StartIs, OriginIsAt
<1>5. UNCHANGED <<hist, approvals, candidate, approvedCase, marker, release>>
  BY <1>2, <1>3, StartIs, OriginIsAt
<1>6. Projections \subseteq StepsOf(op)
  <2>1. Projections \subseteq DecisionSteps
    BY DEF Projections, DecisionSteps
  <2>. QED
    BY <2>1 DEF StepsOf
<1>7. Plan(d) \subseteq StepsOf(d.op)
  BY <1>2, <1>4, <1>6 DEF Plan
<1>8. Done(d, "ask", "case")
  <2>1. <<"ask", "case">> \notin Projections
    BY DEF Projections
  <2>. QED
    BY <1>2, <1>4, <2>1 DEF Done, Plan
<1>9. ASSUME Reviewed, NEW k \in Kinds, ~ Done(d, "adopt", k)
      PROVE  LegacyLifecycle(d.read.state) \notin Granted
  <2>1. IsContent(candidate) /\ (candidate.state = "approved" => hist["case"] # <<>>)
    BY <1>9 DEF IInv, Typed, Reviewed, Begun
  <2>2. <<"adopt", k>> \in Projections
    BY DEF Projections
  <2>3. <<"adopt", k>> \in Elements(ProjectionSteps(candidate))
    BY <1>2, <1>4, <1>9, <2>2 DEF Done, Plan
  <2>. QED
    BY <1>4, <2>1, <2>3, AdoptsLess
<1>10. Outdated => Plan(d) \subseteq Projections
  BY <1>2, <1>4 DEF Outdated, Plan
<1>. QED
  BY <1>4, <1>5, <1>7, <1>8, <1>9, <1>10, OtherStartKeeps

(* Where the steps of drafting belong. *)
LEMMA DraftingSteps ==
    /\ Drafting \subseteq DecisionSteps \ ({<<"ask", "case">>} \cup Projections)
    /\ \A next : Elements(ResolveSteps(next)) \subseteq
                    (Projections \cup JobSteps) \ ({<<"ask", "case">>} \cup Projections)
    /\ StepsOf("reject") = DecisionSteps /\ StepsOf("edit") = DecisionSteps
    /\ StepsOf("resolve") = Projections \cup JobSteps
<1>1. <<"ask", "case">> \notin DecisionSteps
  BY DecisionNames
<1>2. Drafting \subseteq DecisionSteps \ ({<<"ask", "case">>} \cup Projections)
  BY <1>1 DEF Drafting
<1>3. ASSUME NEW p \in JobSteps PROVE p \notin Projections
  BY <1>3 DEF JobSteps, Projections
<1>4. ASSUME NEW next
      PROVE  Elements(ResolveSteps(next)) \subseteq
                (Projections \cup JobSteps) \ ({<<"ask", "case">>} \cup Projections)
  BY <1>3, ResolvePlan
<1>5. /\ StepsOf("reject") = DecisionSteps /\ StepsOf("edit") = DecisionSteps
      /\ StepsOf("resolve") = Projections \cup JobSteps
  BY DEF StepsOf
<1>. QED
  BY <1>2, <1>4, <1>5

(* A question answered. *)
LEMMA ResolveKeeps ==
    ASSUME IInv, NEW a, Resolve(a)
    PROVE  IInv'
<1>1. PICK next \in Gated(candidate.q, a) :
         Start("resolve", Author, candidate, next, Origin,
               ProjectionSteps(candidate) \o
               IF candidate.state \in {"approved", "rejected"} THEN <<>> ELSE ResolveSteps(next))
  BY DEF Resolve
<1>2. PICK steps : steps = IF candidate.state \in {"approved", "rejected"} THEN <<>> ELSE ResolveSteps(next)
  OBVIOUS
<1>3. /\ IsSeq(steps) /\ (candidate.state = "approved" => Elements(steps) = {})
      /\ Elements(steps) \subseteq StepsOf("resolve") \ ({<<"ask", "case">>} \cup Projections)
  BY <1>2, NoPlan, ResolvePlan, DraftingSteps
<1>4. Start("resolve", Author, candidate, next, Origin, ProjectionSteps(candidate) \o steps)
  BY <1>1, <1>2
<1>5. candidate # Nothing /\ IsContent(next) /\ next.state # "approved"
  BY GatedIsContent DEF Resolve
<1>. QED
  BY <1>3, <1>4, <1>5, ProjectedStartKeeps

(* A question rejected. *)
LEMMA RejectKeeps ==
    ASSUME IInv, NEW who, Reject(who)
    PROVE  IInv'
<1>1. PICK next, steps :
         /\ next = [candidate EXCEPT !.state = "rejected"]
         /\ steps = IF candidate.state = "approved" THEN <<>> ELSE RejectSteps
         /\ Start("reject", who, candidate, next, Origin, ProjectionSteps(candidate) \o steps)
  BY DEF Reject
<1>2. candidate # Nothing /\ IsContent(candidate)
  BY DEF Reject, IInv, Typed
<1>3. IsContent(next) /\ next.state # "approved"
  BY <1>1, <1>2 DEF IsContent, CandidateStates
<1>4. /\ IsSeq(steps) /\ (candidate.state = "approved" => Elements(steps) = {})
      /\ Elements(steps) \subseteq StepsOf("reject") \ ({<<"ask", "case">>} \cup Projections)
  BY <1>1, NoPlan, RejectPlan, DraftingSteps
<1>. QED
  BY <1>1, <1>2, <1>3, <1>4, ProjectedStartKeeps

(* A question edited. *)
LEMMA EditKeeps ==
    ASSUME IInv, NEW who, NEW q, NEW a, Edit(who, q, a)
    PROVE  IInv'
<1>1. PICK next \in IF a = NoAnswer THEN {Draft(q)} ELSE Gated(q, a) :
         Start("edit", who, candidate, next, Origin,
               ProjectionSteps(candidate) \o IF candidate.state = "approved" THEN <<>> ELSE EditSteps(next))
  BY DEF Edit
<1>2. PICK steps : steps = IF candidate.state = "approved" THEN <<>> ELSE EditSteps(next)
  OBVIOUS
<1>3. /\ IsSeq(steps) /\ (candidate.state = "approved" => Elements(steps) = {})
      /\ Elements(steps) \subseteq StepsOf("edit") \ ({<<"ask", "case">>} \cup Projections)
  BY <1>2, NoPlan, EditPlan, DraftingSteps
<1>4. Start("edit", who, candidate, next, Origin, ProjectionSteps(candidate) \o steps)
  BY <1>1, <1>2
<1>5. candidate # Nothing /\ IsContent(next) /\ next.state # "approved"
  BY <1>1, GatedIsContent, DraftIsContent DEF Edit
<1>. QED
  BY <1>3, <1>4, <1>5, ProjectedStartKeeps

(* A question accepted (review). *)
LEMMA AcceptKeeps ==
    ASSUME IInv, NEW who \in Acceptors, Accept(who)
    PROVE  IInv'
<1>1. PICK next, steps, l :
         /\ next = [candidate EXCEPT !.state = "approved"]
         /\ steps = IF candidate.state # "review_required" THEN <<>> ELSE AcceptSteps
         /\ l = ProjectionSteps(candidate) \o steps
         /\ Start("accept", who, candidate, next, Origin, l)
  BY DEF Accept
<1>2. candidate # Nothing /\ IsContent(candidate)
  BY DEF Accept, IInv, Typed
<1>3. IsContent(next)
  BY <1>1, <1>2 DEF IsContent, CandidateStates
<1>4. /\ IsSeq(steps) /\ Sorted(steps)
      /\ Elements(steps) = {} \/ Elements(steps) = AcceptanceSteps
      /\ candidate.state = "approved" => Elements(steps) = {}
  BY <1>1, NoPlan, AcceptPlan
<1>5. /\ IsSeq(l) /\ Elements(l) = Elements(ProjectionSteps(candidate)) \cup Elements(steps)
      /\ Sorted(l)
  BY <1>1, <1>4, ProjectedPlan
<1>6. PICK d : /\ d.op = "accept" /\ d.who = who /\ d.next = next /\ d.read = candidate /\ d.left = l
               /\ IsCall(d) /\ call' = [call EXCEPT !["loop"] = d]
  <2>1. PICK op, read : op = "accept" /\ read = candidate
    OBVIOUS
  <2>2. Start(op, who, read, next, Origin, l)
    BY <1>1, <2>1
  <2>3. PICK d : /\ d.op = op /\ d.who = who /\ d.read = read /\ d.next = next /\ d.left = l
                 /\ IsCall(d) /\ call' = [call EXCEPT !["loop"] = d]
    BY <1>5, <2>2, StartIs, OriginIsAt
  <2>. QED
    BY <2>1, <2>3, Zenon
<1>7. UNCHANGED <<hist, approvals, candidate, approvedCase, marker, release>>
  BY <1>1, <1>5, StartIs, OriginIsAt
<1>8. /\ Elements(ProjectionSteps(candidate)) \subseteq Projections
      /\ Plan(d) = Elements(ProjectionSteps(candidate)) \cup Elements(steps)
  BY <1>5, <1>6, ProjectionPlan DEF Plan
<1>9. ASSUME Reviewed PROVE Fits(d, "loop")
  <2>1. Plan(d) \subseteq StepsOf("accept") /\ StepsOf("accept") = Projections \cup AcceptanceSteps
    BY <1>4, <1>8 DEF StepsOf
  <2>2. ASSUME NEW p \in Plan(d), NEW q \in StepsOf("accept"), Rank(p) # 0, Rank(p) < Rank(q)
        PROVE  q \in Plan(d)
    <3>1. p \in Elements(steps)
      BY <1>8, <2>2, ProjectionRanks
    <3>2. q \in AcceptanceSteps
      <4>1. Rank(p) \in Nat
        BY RankIsNat
      <4>. QED
        BY <2>1, <2>2, <4>1, ProjectionRanks
    <3>. QED
      BY <1>4, <1>8, <3>1, <3>2
  <2>3. ASSUME NEW k \in Kinds, ~ Done(d, "adopt", k)
        PROVE  LegacyLifecycle(d.read.state) \notin Granted
    <3>1. candidate.state = "approved" => hist["case"] # <<>>
      BY <1>2, <1>9 DEF Reviewed, Begun
    <3>2. <<"adopt", k>> \notin AcceptanceSteps
      BY DEF AcceptanceSteps
    <3>3. <<"adopt", k>> \in Elements(ProjectionSteps(candidate))
      BY <1>4, <1>8, <2>3, <3>2 DEF Done
    <3>. QED
      BY <1>2, <1>6, <3>1, <3>3, AdoptsLess
  <2>4. Sound(d)
    BY <1>5, <1>6, <2>1, <2>2, <2>3 DEF Sound, Reviewers
  <2>5. Accepts(hist, approvals, d) /\ Publishes(hist, approvals, d)
    <3>1. <<"promote", "gold">> \notin Projections /\ <<"check", "case">> \in AcceptanceSteps
      BY DEF Projections, AcceptanceSteps
    <3>2. ~ InAccept(d)
      BY <1>4, <1>8, <3>1 DEF InAccept, Done
    <3>. QED
      BY <1>6, <3>2 DEF Accepts, Publishes
  <2>6. hist["case"] # <<>> \/ ~ Done(d, "import", "case")
    BY <1>8, ProjectionPlan DEF Done
  <2>. QED
    BY <2>4, <2>5, <2>6 DEF Fits
<1>10. Outdated => Plan(d) \subseteq Projections
  BY <1>4, <1>8 DEF Outdated
<1>11. "loop" \in Actors
  BY DEF Actors
<1>. QED
  BY <1>3, <1>6, <1>7, <1>9, <1>10, <1>11, PlanningKeeps

(* An export begins. *)
LEMMA ExportKeeps ==
    ASSUME IInv, Export
    PROVE  IInv'
<1>1. PICK c, l, op :
         /\ c = [q |-> approvedCase.q, a |-> approvedCase.a, state |-> "approved"] /\ op = "export"
         /\ l = (ProjectionSteps(c) \o FreezeSteps) \o <<<<"export", "case">>, <<"advance", "case">>>>
         /\ Start(op, Author, c, c, Origin, l)
  BY DEF Export
<1>2. approvedCase # Nothing
  BY DEF Export
<1>3. IsSeq(l) /\ Sorted(l) /\ Elements(l) = Elements(ProjectionSteps(c)) \cup StepsOf("export")
  BY <1>1, ExportPlan
<1>4. PICK d : /\ d.op = op /\ d.left = l /\ IsCall(d) /\ call' = [call EXCEPT !["loop"] = d]
  <2>1. PICK who, at : who = Author /\ at = Origin
    OBVIOUS
  <2>2. at \in [Kinds -> Nat] /\ Start(op, who, c, c, at, l)
    BY <1>1, <2>1, OriginIsAt, Zenon
  <2>3. \E d : /\ d.op = op /\ d.who = who /\ d.read = c /\ d.next = c /\ d.at = at
               /\ d.left = l /\ IsCall(d) /\ call' = [call EXCEPT !["loop"] = d]
    BY <1>3, <2>2, StartIs
  <2>. QED
    BY <2>3, Zenon
<1>5. UNCHANGED <<hist, approvals, candidate, approvedCase, marker, release>>
  BY <1>1, <1>3, StartIs, OriginIsAt
<1>6. /\ Plan(d) = Elements(ProjectionSteps(c)) \cup StepsOf("export")
      /\ Elements(ProjectionSteps(c)) \subseteq Projections
  BY <1>3, <1>4, ProjectionPlan DEF Plan
<1>7. /\ <<"select", "case">> \in StepsOf("export") /\ <<"save", "case">> \notin StepsOf("export")
      /\ StepsOf("export") = FreezingSteps \cup {<<"export", "case">>, <<"advance", "case">>}
      /\ \A k \in Kinds : <<"adopt", k>> \notin StepsOf("export")
  BY DEF StepsOf, FreezingSteps
<1>8. <<"save", "case">> \notin Projections
  BY DEF Projections
<1>9. Done(d, "save", "case")
  BY <1>6, <1>7, <1>8 DEF Done
<1>10. ASSUME Reviewed PROVE Fits(d, "loop")
  <2>1. hist["case"] # <<>>
    BY <1>2, <1>10 DEF Reviewed, Begun
  <2>2. Plan(d) = StepsOf("export")
    BY <1>6, <2>1, ProjectionPlan
  <2>3. Sound(d)
    BY <1>1, <1>3, <1>4, <1>7, <1>9, <2>2 DEF Sound, Done
  <2>4. Accepts(hist, approvals, d) /\ Publishes(hist, approvals, d)
    BY <1>1, <1>4, <1>7, <2>2 DEF Accepts, InAccept, Publishes, Done
  <2>. QED
    BY <1>1, <1>4, <2>3, <2>4 DEF Fits
<1>11. Plan(d) \subseteq Projections \cup FreezingSteps \cup {<<"export", "case">>, <<"advance", "case">>}
  BY <1>6, <1>7
<1>12. "loop" \in Actors
  BY DEF Actors
<1>. QED
  BY <1>4, <1>5, <1>9, <1>10, <1>11, <1>12, PlanningKeeps

(* The ranks of a publication. *)
LEMMA PublishRanks ==
    \A p \in StepsOf("publish") : /\ p \in FreezingSteps \cup {<<"pin", "case">>} => Rank(p) \in 1 .. 4
                                  /\ Rank(p) > 4 => p \in {<<"validate", "case">>, <<"put", "case">>, <<"close", "case">>}
<1>1. Rank(<<"pin", "case">>) = 4
  BY Ranks
<1>2. \A p \in FreezingSteps \cup {<<"pin", "case">>} : Rank(p) \in 1 .. 4
  BY <1>1, FreezingRanks
<1>. QED
  BY <1>2 DEF StepsOf

(* A publication begins. *)
LEMMA PublishKeeps ==
    ASSUME IInv, Publish
    PROVE  IInv'
<1>1. PICK at, l, op :
         /\ at = IF marker = Nothing THEN Origin ELSE marker
         /\ l = (IF marker = Nothing THEN FreezeSteps \o <<<<"pin", "case">>>> ELSE <<>>)
                \o <<<<"validate", "case">>, <<"put", "case">>, <<"close", "case">>>>
         /\ op = "publish"
         /\ Start(op, Author, Nothing, Nothing, at, l)
  BY DEF Publish
<1>2. ~ Outdated
  <2>1. approvals # {}
    BY DEF Publish, Valid, LineageApproved, Kinds
  <2>. QED
    BY <2>1 DEF Outdated
<1>3. Reviewed /\ at \in [Kinds -> Nat]
  BY <1>1, <1>2, OriginIsAt DEF IInv, Typed
<1>. DEFINE S == {<<"validate", "case">>, <<"put", "case">>, <<"close", "case">>}
<1>4. IsSeq(l) /\ Sorted(l) /\ Elements(l) = IF marker = Nothing THEN StepsOf("publish") ELSE S
  <2>1. CASE marker = Nothing
    BY <1>1, <2>1, PublishPlan
  <2>2. CASE marker # Nothing
    <3>1. PICK s : s = <<<<"validate", "case">>, <<"put", "case">>, <<"close", "case">>>>
      OBVIOUS
    <3>2. IsSeq(s) /\ Sorted(s) /\ Elements(s) = S
      BY <3>1, PublishPlan
    <3>3. l = <<>> \o s
      BY <1>1, <2>2, <3>1
    <3>4. IsSeq(<<>> \o s) /\ Elements(<<>> \o s) = Elements(s) /\ Sorted(<<>> \o s)
      BY <3>2, NoPlan, ConcatHolds
    <3>. QED
      BY <2>2, <3>2, <3>3, <3>4
  <2>. QED
    BY <2>1, <2>2
<1>5. PICK d : /\ d.op = op /\ d.at = at /\ d.left = l /\ IsCall(d) /\ call' = [call EXCEPT !["loop"] = d]
  <2>1. PICK who, read : who = Author /\ read = Nothing
    OBVIOUS
  <2>2. Start(op, who, read, read, at, l)
    BY <1>1, <2>1, Zenon
  <2>3. \E d : /\ d.op = op /\ d.who = who /\ d.read = read /\ d.next = read /\ d.at = at
               /\ d.left = l /\ IsCall(d) /\ call' = [call EXCEPT !["loop"] = d]
    BY <1>3, <1>4, <2>2, StartIs
  <2>. QED
    BY <2>3, Zenon
<1>6. UNCHANGED <<hist, approvals, candidate, approvedCase, marker, release>>
  BY <1>1, <1>3, <1>4, StartIs
<1>7. Plan(d) = IF marker = Nothing THEN StepsOf("publish") ELSE S
  BY <1>4, <1>5 DEF Plan
<1>8. /\ S \subseteq StepsOf("publish") /\ FreezingSteps \subseteq StepsOf("publish")
      /\ <<"save", "case">> \notin StepsOf("publish") /\ <<"select", "case">> \in StepsOf("publish")
      /\ \A k \in Kinds : <<"adopt", k>> \notin StepsOf("publish")
      /\ <<"validate", "case">> \in S
  BY DEF StepsOf, FreezingSteps
<1>9. Done(d, "save", "case")
  BY <1>7, <1>8 DEF Done
<1>10. Sound(d)
  <2>1. ASSUME NEW p \in Plan(d), NEW q \in StepsOf("publish"), Rank(p) # 0, Rank(p) < Rank(q)
        PROVE  q \in Plan(d)
    <3>1. CASE marker = Nothing
      BY <1>7, <3>1
    <3>2. CASE marker # Nothing
      <4>1. Rank(p) \in 5 .. 7
        BY <1>7, <3>2, Ranks
      <4>2. Rank(q) > 4
        BY <2>1, <4>1, RankIsNat
      <4>. QED
        BY <1>7, <3>2, <4>2, PublishRanks
    <3>. QED
      BY <3>1, <3>2
  <2>. QED
    BY <1>1, <1>4, <1>5, <1>7, <1>8, <1>9, <2>1 DEF Sound, Done
<1>11. Publishes(hist, approvals, d)
  <2>1. ~ Done(d, "validate", "case")
    BY <1>7, <1>8 DEF Done
  <2>2. Done(d, "select", "case") => marker # Nothing
    BY <1>7, <1>8 DEF Done
  <2>3. marker # Nothing => Selected(hist, approvals, d.at)
    BY <1>1, <1>3, <1>5 DEF Reviewed, Released
  <2>. QED
    BY <2>1, <2>2, <2>3 DEF Publishes
<1>12. Fits(d, "loop")
  BY <1>1, <1>5, <1>10, <1>11 DEF Fits, Accepts, InAccept
<1>13. "loop" \in Actors
  BY DEF Actors
<1>. QED
  BY <1>2, <1>5, <1>6, <1>9, <1>12, <1>13, PlanningKeeps

(* A generation job creates a question. *)
LEMMA JobCreatesKeeps ==
    ASSUME IInv, NEW q, JobCreates(q)
    PROVE  IInv'
<1>1. PICK l : l = CreateSteps \o <<<<"ask", "case">>>>
  OBVIOUS
<1>2. /\ IsSeq(l) /\ Sorted(l)
      /\ Elements(l) = {<<"save", "case">>, <<"create", "case">>, <<"advance", "case">>, <<"ask", "case">>}
  BY <1>1, CreatePlan
<1>3. PICK d : d = [Idle EXCEPT !.op = "resolve", !.next = Draft(q), !.left = l]
  OBVIOUS
<1>4. IsCall(d) /\ d.op = "resolve" /\ d.next = Draft(q) /\ d.left = l
  BY <1>2, <1>3, IdleIsCall DEF IsCall, Fields
<1>5. /\ call' = [call EXCEPT !["job"] = d]
      /\ UNCHANGED <<hist, approvals, candidate, approvedCase, marker, release>>
  BY <1>1, <1>3 DEF JobCreates, ledgerVars, fileVars, releaseVars
<1>6. ~ Outdated
  BY DEF JobCreates, Outdated
<1>7. Plan(d) \subseteq JobSteps /\ ~ Done(d, "create", "case") /\ \A k \in Kinds : Done(d, "adopt", k)
  BY <1>2, <1>4 DEF Plan, Done, JobSteps
<1>8. Sound(d)
  BY <1>2, <1>4, <1>7, DraftIsContent DEF Sound, StepsOf
<1>9. Fits(d, "job")
  BY <1>4, <1>7, <1>8, OtherCalls DEF Fits
<1>10. "job" \in Actors
  BY DEF Actors
<1>. QED
  BY <1>4, <1>5, <1>6, <1>9, <1>10, DraftIsContent, PlanningKeeps

(* The model's answer reaches the job. *)
LEMMA JobAnswersKeeps ==
    ASSUME IInv, NEW a, JobAnswers(a)
    PROVE  IInv'
<1>1. UNCHANGED <<hist, approvals, candidate, approvedCase, marker, release>> /\ "job" \in Actors
  BY DEF JobAnswers, ledgerVars, fileVars, releaseVars, Actors
<1>2. CASE call' = [call EXCEPT !["job"] = Idle]
  BY <1>1, <1>2, RaisingKeeps
<1>3. ASSUME NEW next \in Gated(candidate.q, a),
             call' = [call EXCEPT !["job"].read = candidate, !["job"].next = next,
                                  !["job"].left = ProjectionSteps(candidate) \o ResolveSteps(next)]
      PROVE  IInv'
  <2>1. /\ IsCall(call["job"]) /\ IsSeq(call["job"].left) /\ call["job"].left # <<>>
        /\ Head(call["job"].left)[1] = "ask"
        /\ call = [b \in Actors |-> call[b]]
    BY DEF JobAnswers, Asking, Busy, IInv, Typed, IsCall, Actors
  <2>2. Reviewed
    BY <2>1 DEF IInv, Outdated
  <2>3. /\ Sound(call["job"]) /\ call["job"].op \in {"none", "resolve"}
        /\ Plan(call["job"]) \subseteq JobSteps
    BY <2>2 DEF Reviewed, Planned, Actors
  <2>4. hist["case"] # <<>>
    <3>1. PICK p : p = Head(call["job"].left)
      OBVIOUS
    <3>2. p \in Plan(call["job"])
      BY <2>1, <3>1, TailShrinks DEF Plan
    <3>3. p = <<"ask", "case">>
      BY <2>1, <2>3, <3>1, <3>2 DEF JobSteps
    <3>4. ~ Done(call["job"], "ask", "case") /\ Sorted(call["job"].left)
      BY <2>3, <3>2, <3>3 DEF Done, Sound
    <3>5. Rank(p) = 13 /\ Rank(<<"create", "case">>) = 11
      BY <3>3, Ranks
    <3>6. /\ Plan(call["job"]) \subseteq Elements(Tail(call["job"].left)) \cup {p}
          /\ \A x \in Elements(Tail(call["job"].left)) : Rank(p) < Rank(x)
      BY <2>1, <3>1, <3>4, <3>5, TailShrinks DEF Plan
    <3>7. Done(call["job"], "create", "case")
      BY <3>5, <3>6 DEF Done
    <3>. QED
      BY <2>2, <3>4, <3>7 DEF Reviewed, Begun
  <2>5. PICK l : l = ProjectionSteps(candidate) \o ResolveSteps(next)
    OBVIOUS
  <2>6. /\ IsSeq(l)
        /\ Elements(l) \subseteq JobSteps \ {<<"create", "case">>, <<"ask", "case">>}
    <3>1. IsSeq(l) /\ Elements(l) = Elements(ProjectionSteps(candidate)) \cup Elements(ResolveSteps(next))
      BY <2>5, ResolvePlan, ProjectedPlan
    <3>2. Elements(ProjectionSteps(candidate)) = {}
      BY <2>4, ProjectionPlan
    <3>. QED
      BY <3>1, <3>2, ResolvePlan
  <2>7. PICK c, d : c = call["job"] /\ d = call'["job"]
    OBVIOUS
  <2>8. /\ d.op = c.op /\ d.who = c.who /\ d.next = next /\ d.left = l /\ IsCall(d)
        /\ call' = [call EXCEPT !["job"] = d]
    <3>1. d = [c EXCEPT !.read = candidate, !.next = next, !.left = l]
      BY <1>3, <2>1, <2>5, <2>7 DEF Actors
    <3>2. call' = [call EXCEPT !["job"] = d]
      BY <1>3, <2>1, <2>7 DEF Actors
    <3>3. /\ d.op = c.op /\ d.who = c.who /\ d.next = next /\ d.left = l /\ IsCall(d)
      <4>1. IsCall(c)
        BY <2>1, <2>7
      <4>. QED
        BY <2>6, <3>1, <4>1 DEF IsCall, Fields
    <3>. QED
      BY <3>2, <3>3
  <2>9. Plan(d) \subseteq JobSteps \ {<<"create", "case">>, <<"ask", "case">>}
    BY <2>6, <2>8 DEF Plan
  <2>10. d.op \in {"none", "resolve"}
    BY <2>3, <2>7, <2>8
  <2>11. Sound(d)
    <3>1. \A k \in Kinds : Done(d, "adopt", k)
      BY <2>9 DEF Done, JobSteps
    <3>2. Plan(d) \subseteq StepsOf(d.op)
      BY <2>9, <2>10 DEF StepsOf
    <3>3. d.next.state # "approved"
      BY <2>8, GatedIsContent
    <3>. QED
      BY <2>9, <2>10, <3>1, <3>2, <3>3 DEF Sound, Done
  <2>12. Fits(d, "job")
    BY <2>9, <2>10, <2>11, OtherCalls DEF Fits, Done
  <2>13. ~ Outdated
    BY <2>1 DEF Outdated
  <2>14. IsContent(d.next)
    BY <2>8, GatedIsContent
  <2>. QED
    BY <1>1, <2>8, <2>12, <2>13, <2>14, PlanningKeeps
<1>. QED
  BY <1>2, <1>3 DEF JobAnswers

-----------------------------------------------------------------------------
(* The theorem. *)

(* Every handler begins. *)
LEMMA StartsKeep ==
    ASSUME IInv, Handler
    PROVE  IInv'
<1>1. CASE ListDatasets
  <2>1. Ends
    BY <1>1 DEF ListDatasets, Ends, IInv, Typed, ledgerVars, fileVars, releaseVars
  <2>. QED
    BY <2>1, EndingKeeps
<1>2. ASSUME NEW q \in Questions, CreateQuestion(q) \/ JobCreates(q) PROVE IInv'
  BY <1>2, CreateQuestionKeeps, JobCreatesKeeps
<1>3. ASSUME NEW a \in Answers, Resolve(a) \/ JobAnswers(a) PROVE IInv'
  BY <1>3, ResolveKeeps, JobAnswersKeeps
<1>4. ASSUME NEW who \in Acceptors, Accept(who) PROVE IInv'
  BY <1>4, AcceptKeeps
<1>5. ASSUME NEW who \in Editors, Reject(who) PROVE IInv'
  BY <1>5, RejectKeeps
<1>6. ASSUME NEW who \in Editors, NEW q \in Questions, NEW a \in Answers \cup {NoAnswer}, Edit(who, q, a)
      PROVE  IInv'
  BY <1>6, EditKeeps
<1>. QED
  BY <1>1, <1>2, <1>3, <1>4, <1>5, <1>6, ExportKeeps, PublishKeeps DEF Handler

(* Every step of a call on the candidate's and the release's files. *)
LEMMA CallStepKeeps ==
    ASSUME IInv, NEW a \in Actors, CallStep(a)
    PROVE  IInv'
<1>1. CASE HoldCase(a)
  <2>1. Busy(a) /\ Head(call[a].left) = <<"hold", "case">> /\ HoldCurrent(a, "case") /\ "case" \in Kinds
    BY <1>1 DEF HoldCase, StepIs, Kinds
  <2>. QED
    BY <2>1, HoldKeeps
<1>. QED
  BY <1>1, SaveKeeps, CreateKeeps, SubmitKeeps, CheckKeeps, BranchKeeps, FileKeeps, OtherStepsKeep,
     SelectKeeps, MarkFrozenKeeps, ValidateFrozenKeeps, PutReleaseKeeps DEF CallStep

(* Every step of a call on the ledger. *)
LEMMA LedgerStepKeeps ==
    ASSUME IInv, NEW a \in Actors, NEW k \in Kinds, LedgerStep(a, k)
    PROVE  IInv'
BY ImportKeeps, AdoptKeeps, OpenKeeps, ReviseKeeps, OtherStepsKeep, TurnDownKeeps, MarkKeeps,
   ApproveKeeps, PromoteKeeps, FreezeKeeps, ProposeKeeps DEF LedgerStep

(* The initial states, questions from before the ledger included. *)
LEMMA InitHolds ==
    ASSUME Init
    PROVE  IInv
<1>1. \A a \in Actors : call[a] = Idle
  BY DEF Init
<1>2. Plan(Idle) = {}
  BY IdleIsCall DEF Plan
<1>3. candidate # Nothing => IsContent(candidate)
  BY LegacyAssumption DEF Init, IsContent
<1>4. IsHistory(hist)
  BY NoPlan DEF Init, IsHistory
<1>5. Typed
  BY <1>1, <1>2, <1>3, <1>4, IdleIsCall DEF Init, Typed, Done
<1>6. CASE candidate # Nothing /\ candidate.state = "approved"
  <2>1. Outdated
    BY <1>1, <1>2, <1>6, IdleIsCall DEF Init, Outdated, Actors
  <2>. QED
    BY <1>5, <2>1 DEF IInv
<1>7. CASE ~ (candidate # Nothing /\ candidate.state = "approved")
  <2>1. Planned
    BY <1>1, <1>2, IdleIsCall DEF Planned, Actors
  <2>2. Begun
    BY <1>1, <1>2, <1>7, IdleIsCall DEF Init, Begun, Actors, Done
  <2>3. Released /\ Paired(hist, approvals)
    BY DEF Init, Released, Paired, Kinds
  <2>4. Accepts(hist, approvals, call["loop"]) /\ Publishes(hist, approvals, call["loop"])
    BY <1>1, IdleIsTrivial DEF Actors
  <2>. QED
    BY <1>5, <2>1, <2>2, <2>3, <2>4 DEF IInv, Reviewed
<1>. QED
  BY <1>6, <1>7

(* Every step keeps the invariant. *)
LEMMA StepKeeps ==
    ASSUME IInv, [Next]_vars
    PROVE  IInv'
<1>1. CASE Crash
  <2>1. Ends
    BY <1>1 DEF Crash, Ends, ledgerVars, fileVars, releaseVars
  <2>. QED
    BY <2>1, EndingKeeps
<1>2. CASE UNCHANGED vars
  <2>1. Ends
    BY <1>2 DEF vars, Ends, IInv, Typed
  <2>. QED
    BY <2>1, EndingKeeps
<1>. QED
  BY <1>1, <1>2, StartsKeep, CallStepKeeps, LedgerStepKeeps DEF Next

(* The invariant says what the property promises. *)
LEMMA PromiseOfRelease ==
    ASSUME IInv
    PROVE  ReleaseIsApproved
<1>1. SUFFICES ASSUME release # Nothing
               PROVE  /\ \A k \in Kinds : hist[k][release[k]].life = "frozen"
                      /\ hist["gold"][release["gold"]].pin = release["case"]
                      /\ \E who \in Reviewers : \A k \in Kinds :
                            \E x \in approvals :
                               /\ x.kind = k /\ x.who = who /\ x.rev < release[k]
                               /\ hist[k][x.rev].text = hist[k][release[k]].text
                               /\ hist[k][x.rev].actor # who
  BY DEF ReleaseIsApproved
<1>2. Selected(hist, approvals, release) /\ AllFrozen(hist, release) /\ IsHistory(hist)
  BY <1>1 DEF IInv, Outdated, Reviewed, Released, Typed
<1>3. PICK who \in Reviewers : \A k \in Kinds : ApprovedBy(hist, approvals, k, release[k], who)
  BY <1>2 DEF Selected, Sworn
<1>4. ASSUME NEW k \in Kinds
      PROVE  \E x \in approvals :
                /\ x.kind = k /\ x.who = who /\ x.rev < release[k]
                /\ hist[k][x.rev].text = hist[k][release[k]].text
                /\ hist[k][x.rev].actor # who
  <2>1. PICK x \in approvals : /\ x.kind = k /\ x.who = who /\ x.rev \in 1 .. (release[k] - 1)
                               /\ hist[k][x.rev].text = hist[k][release[k]].text
                               /\ hist[k][x.rev].actor # who
    BY <1>3 DEF ApprovedBy
  <2>2. release[k] \in Nat
    BY <1>2, Lengthy DEF Selected
  <2>. QED
    BY <2>1, <2>2
<1>. QED
  BY <1>2, <1>3, <1>4 DEF AllFrozen

(* Whatever the order of requests, the generation job, errors and crashes, *)
(* what releases.put publishes was approved: freeze_release froze a Case   *)
(* and the Gold of that Case, and one reviewer, the author of neither,     *)
(* approved both in review() with the very texts that were frozen.         *)
THEOREM ReleasesAreApproved ==
    Spec => []ReleaseIsApproved
<1>1. Init => IInv
  BY InitHolds
<1>2. IInv /\ [Next]_vars => IInv'
  BY StepKeeps
<1>3. IInv => ReleaseIsApproved
  BY PromiseOfRelease
<1>. QED
  BY <1>1, <1>2, <1>3, PTL DEF Spec

-----------------------------------------------------------------------------
(* That candidate and ledger tell the same story.  A story is what counts  *)
(* of the three places: the candidate, the approved-case file, and of the  *)
(* current Case and Gold whether they are there, their text and what their *)
(* lifecycle counts as (a frozen revision is an approved one).             *)

Counts(life) == IF life = "frozen" THEN "approved" ELSE life

Standing(h) ==
    IF h = <<>> THEN [here |-> FALSE, life |-> "none", text |-> Nothing]
    ELSE [here |-> TRUE, life |-> Counts(h[Len(h)].life), text |-> h[Len(h)].text]

StoryOf(cand, filed, h) ==
    [cand |-> cand, filed |-> filed, case |-> Standing(h["case"]), gold |-> Standing(h["gold"])]
Now == StoryOf(candidate, approvedCase, hist)

(* A story that holds together between two calls. *)
Story(x) ==
    /\ x.cand # Nothing => x.cand \in Contents
    /\ ~ x.case.here => /\ ~ x.gold.here
                        /\ x.filed # Nothing => /\ x.cand # Nothing /\ x.cand.state = "approved"
                                                /\ x.cand.q = x.filed.q /\ x.cand.a = x.filed.a
    /\ x.case.here /\ x.cand # Nothing =>
          /\ x.case.text = x.cand.q /\ x.case.life \in CaseLives(x.cand.state)
          /\ x.gold.here <=> x.cand.a # NoAnswer
          /\ x.gold.here => x.gold.text = x.cand.a /\ x.gold.life \in GoldLives(x.cand.state)

Parts == {"cand", "filed", "case", "gold"}
Keeps(x, y, part) == \A p \in Parts \ {part} : y[p] = x[p]
Same(x, y) == \A p \in Parts : y[p] = x[p]
Writes(x, y, k, life, text) ==
    Keeps(x, y, k) /\ y[k].here /\ y[k].life = life /\ y[k].text = text

(* The steps that no story shows. *)
Silent == {"hold", "review", "approve", "advance", "pin", "export", "validate", "put", "close"}

(* What step <<name, k>> of call c, when it does not raise, makes of a     *)
(* story x; the branch on the Gold stands for all it may lead to.          *)
Does(c, name, k, x, y) ==
    /\ name = "save"   => Keeps(x, y, "cand") /\ y.cand = c.next
    /\ name = "file"   => Keeps(x, y, "filed") /\ y.filed.q = c.next.q /\ y.filed.a = c.next.a
    /\ name = "import" => ~ x[k].here /\ Writes(x, y, k, "draft", Text(k, c.read))
    /\ name = "create" => ~ x[k].here /\ Writes(x, y, k, "draft", c.next.q)
    /\ name = "adopt" /\ x[k].here => Writes(x, y, k, Counts(LegacyLifecycle(c.read.state)), x[k].text)
    /\ name = "open" /\ x[k].here =>
          IF x[k].life = "draft" THEN Writes(x, y, k, "proposed", x[k].text) ELSE Same(x, y)
    /\ name = "submit" /\ x[k].here =>
          IF x[k].life \in {"draft", "rejected"} THEN Writes(x, y, k, "proposed", x[k].text) ELSE Same(x, y)
    /\ name = "propose" /\ x[k].here   => Writes(x, y, k, "proposed", x[k].text)
    /\ name = "revise"                 => Writes(x, y, k, "draft", Text(k, c.next))
    /\ name = "turn down" /\ x[k].here => Writes(x, y, k, "rejected", x[k].text)
    /\ name = "mark" /\ x[k].here      => Writes(x, y, k, "reviewed", x[k].text)
    /\ name = "promote" /\ x[k].here   => Writes(x, y, k, "approved", x[k].text)
    /\ name = "freeze" /\ x[k].here    => Same(x, y) \/ Writes(x, y, k, "approved", x[k].text)
    /\ name = "select" => Same(x, y) /\ \A j \in Kinds : x[j].here /\ x[j].life = "approved"
    /\ name = "branch" =>
          IF c.op = "edit" THEN Writes(x, y, "gold", "draft", c.next.a)
          ELSE IF x.gold.here /\ x.gold.life \in {"draft", "proposed", "reviewed"}
               THEN Writes(x, y, "gold", "rejected", x.gold.text) ELSE Same(x, y)
    /\ name = "check" => Same(x, y) /\ x.gold.here
    /\ name \in Silent \cup {"ask"} => Same(x, y)

(* The stories r[1], r[2], ... that the first n steps of plan l lead to. *)
Runs(c, l, r, n) == \A i \in 1 .. n : Does(c, l[i][1], l[i][2], r[i], r[i + 1])

(* An acceptance may end at its checks without a trace, and the job waits  *)
(* for the model: there too the story has to hold together.                *)
Rests(l, n) == n = Len(l) \/ l[n + 1][1] \in {"check", "ask"}

Leads(c, l, x) ==
    \A n \in 0 .. Len(l) : \A r : Runs(c, l, r, n) /\ r[1] = x /\ Rests(l, n) => Story(r[n + 1])

Reaches(c, l, x, y) == \E r : Runs(c, l, r, Len(l)) /\ r[1] = x /\ r[Len(l) + 1] = y

(* The invariant: where nothing writes, the story holds together, and the  *)
(* steps that are left of a call lead to such a story.                     *)
Contented ==
    /\ candidate # Nothing => candidate \in Contents
    /\ \A a \in Actors : ~ Done(call[a], "save", "case") => call[a].next \in Contents
    /\ Busy("job") /\ Head(call["job"].left) # <<"save", "case">> => candidate # Nothing

Told ==
    undisturbed =>
        /\ ~ (Busy("loop") /\ JobWrites)
        /\ Quiet => Story(Now)
        /\ Busy("loop") => Leads(call["loop"], call["loop"].left, Now)
        /\ JobWrites => Leads(call["job"], call["job"].left, Now)

-----------------------------------------------------------------------------
(* Stories and plans. *)

(* Calls that agree on what a step reads of them lead alike. *)
LEMMA SameCallLeads ==
    ASSUME NEW c, NEW d, c.op = d.op, c.read = d.read, c.next = d.next, NEW l, NEW x, Leads(c, l, x)
    PROVE  Leads(d, l, x)
<1>1. \A name, k, y, z : Does(d, name, k, y, z) => Does(c, name, k, y, z)
  <2>. SUFFICES ASSUME NEW name, NEW k, NEW y, NEW z, Does(d, name, k, y, z)
                PROVE  Does(c, name, k, y, z)
    OBVIOUS
  <2>. QED
    BY DEF Does, Text
<1>2. \A r, n : Runs(d, l, r, n) => Runs(c, l, r, n)
  BY <1>1 DEF Runs
<1>. QED
  BY <1>2 DEF Leads

(* What is left after the first step leads where the plan leads. *)
LEMMA TailLeads ==
    ASSUME NEW c, NEW l, IsSeq(l), l # <<>>, NEW x, NEW y, Leads(c, l, x),
           Does(c, Head(l)[1], Head(l)[2], x, y)
    PROVE  Leads(c, Tail(l), y)
<1>. DEFINE t == Tail(l)
<1>1. /\ Len(l) \in Nat \ {0} /\ Head(l) = l[1] /\ Len(t) = Len(l) - 1
      /\ \A i \in 1 .. (Len(l) - 1) : t[i] = l[i + 1]
  <2>1. PICK S : l \in Seq(S)
    BY DEF IsSeq
  <2>2. Len(l) \in Nat \ {0}
    BY <2>1, EmptySeq
  <2>. QED
    BY <2>1, <2>2, HeadTailProperties
<1>. HIDE DEF t
<1>2. SUFFICES ASSUME NEW n \in 0 .. Len(t), NEW r, Runs(c, t, r, n), r[1] = y, Rests(t, n)
               PROVE  Story(r[n + 1])
  BY DEF Leads, t
<1>. DEFINE q == [i \in 1 .. (n + 2) |-> IF i = 1 THEN x ELSE r[i - 1]]
<1>3. q[1] = x /\ \A i \in 1 .. (n + 1) : q[i + 1] = r[i]
  BY <1>1
<1>. HIDE DEF q
<1>4. ASSUME NEW i \in 1 .. (n + 1) PROVE Does(c, l[i][1], l[i][2], q[i], q[i + 1])
  <2>1. CASE i = 1
    BY <1>1, <1>2, <1>3, <2>1
  <2>2. CASE i # 1
    <3>1. i - 1 \in 1 .. n /\ (i - 1) + 1 = i /\ q[(i - 1) + 1] = r[i - 1] /\ q[i + 1] = r[i]
      BY <1>1, <1>3, <2>2
    <3>2. Does(c, t[i - 1][1], t[i - 1][2], r[i - 1], r[(i - 1) + 1])
      BY <1>2, <3>1 DEF Runs
    <3>3. t[i - 1] = l[i]
      BY <1>1, <3>1
    <3>. QED
      BY <3>1, <3>2, <3>3
  <2>. QED
    BY <2>1, <2>2
<1>5. Runs(c, l, q, n + 1)
  BY <1>4 DEF Runs
<1>6. n + 1 \in 0 .. Len(l) /\ Rests(l, n + 1)
  <2>1. CASE n = Len(t)
    BY <1>1, <2>1 DEF Rests
  <2>2. CASE n # Len(t)
    <3>1. n + 1 \in 1 .. (Len(l) - 1) /\ t[n + 1] = l[(n + 1) + 1]
      BY <1>1, <2>2
    <3>. QED
      BY <1>1, <1>2, <2>2, <3>1 DEF Rests
  <2>. QED
    BY <2>1, <2>2
<1>7. Story(q[(n + 1) + 1])
  BY <1>3, <1>5, <1>6 DEF Leads
<1>8. n + 1 \in 1 .. (n + 1)
  BY <1>1
<1>. QED
  BY <1>3, <1>7, <1>8

(* Where a plan may rest before its first step, the story holds together. *)
LEMMA RestingLeads ==
    ASSUME NEW c, NEW l, IsSeq(l), NEW x, Leads(c, l, x), Rests(l, 0)
    PROVE  Story(x)
<1>1. 0 \in 0 .. Len(l)
  <2>1. PICK S : l \in Seq(S)
    BY DEF IsSeq
  <2>. QED
    BY <2>1
<1>. DEFINE r == [i \in {1} |-> x]
<1>2. r[1] = x /\ Runs(c, l, r, 0)
  BY DEF Runs
<1>. HIDE DEF r
<1>3. Story(r[0 + 1])
  BY <1>1, <1>2 DEF Leads
<1>. QED
  BY <1>2, <1>3

(* A plan in two parts leads where the second leads from what the first    *)
(* reaches.                                                                *)
LEMMA ConcatLeads ==
    ASSUME NEW c, NEW s, NEW t, IsSeq(s), IsSeq(t), NEW x,
           \A i \in DOMAIN s : s[i][1] \notin {"check", "ask"},
           \A y : Reaches(c, s, x, y) => Leads(c, t, y)
    PROVE  Leads(c, s \o t, x)
<1>. DEFINE l == s \o t
<1>1. /\ Len(s) \in Nat /\ Len(t) \in Nat /\ Len(l) = Len(s) + Len(t) /\ DOMAIN s = 1 .. Len(s)
      /\ \A i \in 1 .. Len(s) : l[i] = s[i]
      /\ \A i \in 1 .. Len(t) : l[Len(s) + i] = t[i]
  <2>1. PICK S : s \in Seq(S) /\ t \in Seq(S)
    <3>1. s \in Seq(Elements(s) \cup Elements(t)) /\ t \in Seq(Elements(s) \cup Elements(t))
      BY SeqMonotonic DEF IsSeq
    <3>. QED
      BY <3>1
  <2>2. /\ Len(l) = Len(s) + Len(t) /\ Len(s) \in Nat /\ Len(t) \in Nat /\ DOMAIN s = 1 .. Len(s)
        /\ \A i \in 1 .. Len(s) + Len(t) : l[i] = IF i <= Len(s) THEN s[i] ELSE t[i - Len(s)]
    BY <2>1, ConcatProperties, LenProperties
  <2>. HIDE DEF l
  <2>3. ASSUME NEW i \in 1 .. Len(t) PROVE l[Len(s) + i] = t[i]
    <3>1. Len(s) + i \in 1 .. Len(s) + Len(t) /\ ~ (Len(s) + i <= Len(s)) /\ (Len(s) + i) - Len(s) = i
      BY <2>2
    <3>. QED
      BY <2>2, <3>1
  <2>. QED
    BY <2>2, <2>3
<1>. HIDE DEF l
<1>2. SUFFICES ASSUME NEW n \in 0 .. Len(l), NEW r, Runs(c, l, r, n), r[1] = x, Rests(l, n)
               PROVE  Story(r[n + 1])
  BY DEF Leads, l
<1>3. n >= Len(s)
  <2>1. SUFFICES ASSUME n < Len(s) PROVE FALSE
    BY <1>1
  <2>2. n + 1 \in 1 .. Len(s) /\ n # Len(l)
    BY <1>1, <2>1
  <2>. QED
    BY <1>1, <1>2, <2>2 DEF Rests
<1>4. Reaches(c, s, x, r[Len(s) + 1])
  <2>1. Runs(c, s, r, Len(s))
    BY <1>1, <1>2, <1>3 DEF Runs
  <2>. QED
    BY <1>2, <2>1 DEF Reaches
<1>5. PICK m : m = n - Len(s) /\ m \in 0 .. Len(t) /\ Len(s) + m = n
  BY <1>1, <1>3
<1>. DEFINE q == [i \in 1 .. (m + 1) |-> r[Len(s) + i]]
<1>6. \A i \in 1 .. (m + 1) : q[i] = r[Len(s) + i]
  OBVIOUS
<1>. HIDE DEF q
<1>7. ASSUME NEW i \in 1 .. m PROVE Does(c, t[i][1], t[i][2], q[i], q[i + 1])
  <2>1. /\ Len(s) + i \in 1 .. n /\ i \in 1 .. (m + 1) /\ i + 1 \in 1 .. (m + 1)
        /\ (Len(s) + i) + 1 = Len(s) + (i + 1) /\ i \in 1 .. Len(t)
    BY <1>1, <1>5
  <2>2. Does(c, l[Len(s) + i][1], l[Len(s) + i][2], r[Len(s) + i], r[(Len(s) + i) + 1])
    BY <1>2, <2>1 DEF Runs
  <2>. QED
    BY <1>1, <1>6, <2>1, <2>2
<1>8. Runs(c, t, q, m)
  BY <1>7 DEF Runs
<1>9. 1 \in 1 .. (m + 1) /\ m + 1 \in 1 .. (m + 1) /\ q[1] = r[Len(s) + 1] /\ q[m + 1] = r[n + 1]
  <2>1. 1 \in 1 .. (m + 1) /\ m + 1 \in 1 .. (m + 1) /\ Len(s) + (m + 1) = n + 1
    BY <1>1, <1>5
  <2>. QED
    BY <1>6, <2>1
<1>10. Rests(t, m)
  <2>1. CASE n = Len(l)
    BY <1>1, <1>5, <2>1 DEF Rests
  <2>2. CASE n # Len(l)
    <3>1. m + 1 \in 1 .. Len(t) /\ Len(s) + (m + 1) = n + 1
      <4>1. m # Len(t) /\ m \in Nat /\ Len(t) \in Nat /\ m <= Len(t)
        BY <1>1, <1>5, <2>2
      <4>2. n \in Nat /\ Len(s) \in Nat /\ Len(s) + m = n
        BY <1>1, <1>5
      <4>. QED
        BY <4>1, <4>2
    <3>. QED
      BY <1>1, <1>2, <2>2, <3>1 DEF Rests
  <2>. QED
    BY <2>1, <2>2
<1>11. Leads(c, t, r[Len(s) + 1])
  BY <1>4
<1>12. Story(q[m + 1])
  BY <1>5, <1>8, <1>9, <1>10, <1>11 DEF Leads
<1>. QED
  BY <1>9, <1>12

-----------------------------------------------------------------------------
(* How a step of a call tells the story on. *)

(* The story's part of a kind. *)
LEMMA StoryParts ==
    ASSUME NEW c, NEW f, NEW h
    PROVE  /\ StoryOf(c, f, h).cand = c /\ StoryOf(c, f, h).filed = f
           /\ \A k \in Kinds : StoryOf(c, f, h)[k] = Standing(h[k])
BY DEF StoryOf, Kinds

(* An entity is in the story once it has a revision. *)
LEMMA Standings ==
    ASSUME NEW h
    PROVE  /\ Standing(h).here <=> h # <<>>
           /\ h # <<>> => /\ Standing(h).life = Counts(h[Len(h)].life)
                          /\ Standing(h).text = h[Len(h)].text
BY DEF Standing

(* A revision more is written in the story. *)
LEMMA AddedIsWritten ==
    ASSUME NEW k \in Kinds, NEW rev, Added(hist, hist', k, rev), UNCHANGED <<candidate, approvedCase>>
    PROVE  Writes(Now, Now', k, Counts(rev.life), rev.text)
<1>1. Now'.cand = Now.cand /\ Now'.filed = Now.filed
  BY StoryParts DEF Now
<1>2. \A j \in Kinds : Now[j] = Standing(hist[j]) /\ Now'[j] = Standing(hist'[j])
  BY StoryParts DEF Now
<1>3. \A j \in Kinds \ {k} : Now'[j] = Now[j]
  BY <1>2 DEF Added
<1>4. hist'[k] # <<>> /\ hist'[k][Len(hist'[k])] = rev
  BY DEF Added
<1>5. Now'[k].here /\ Now'[k].life = Counts(rev.life) /\ Now'[k].text = rev.text
  BY <1>2, <1>4, Standings
<1>6. \A p \in Parts \ {k} : p \in {"cand", "filed"} \/ p \in Kinds \ {k}
  BY DEF Parts, Kinds
<1>7. Keeps(Now, Now', k)
  BY <1>1, <1>3, <1>6 DEF Keeps
<1>. QED
  BY <1>5, <1>7 DEF Writes

(* Nothing written, nothing told. *)
LEMMA UnchangedIsSame ==
    ASSUME UNCHANGED <<hist, candidate, approvedCase>>
    PROVE  Same(Now, Now')
BY DEF Same, Now, StoryOf

(* The call makes its first step, and is over when that was the last. *)
Progress(a) ==
    /\ \A b \in Actors \ {a} : call'[b] = call[b]
    /\ IF Tail(call[a].left) = <<>> THEN call'[a] = Idle
       ELSE /\ call'[a].op = call[a].op /\ call'[a].read = call[a].read
            /\ call'[a].next = call[a].next /\ call'[a].left = Tail(call[a].left)

(* A call settles when nothing is left of it. *)
LEMMA SettleProgress ==
    ASSUME Typed, NEW a \in Actors, NEW d, Settle(a, d), IsCall(d),
           d.op = call[a].op, d.read = call[a].read, d.next = call[a].next,
           d.left = Tail(call[a].left)
    PROVE  Progress(a)
BY DEF Settle, Typed, Progress

(* So it is of each kind of step. *)
LEMMA ProceedProgress ==
    ASSUME Typed, NEW a \in Actors, Busy(a), Proceed(a)
    PROVE  Progress(a)
<1>1. PICK c, l : c = call[a] /\ l = Tail(call[a].left)
  OBVIOUS
<1>2. IsCall(c) /\ IsSeq(l)
  BY <1>1, TailShrinks DEF Typed, Busy, IsCall
<1>3. PICK e : e = [c EXCEPT !.left = l]
  OBVIOUS
<1>4. e.op = c.op /\ e.read = c.read /\ e.next = c.next /\ e.left = l /\ IsCall(e)
  BY <1>2, <1>3, PlanChanges
<1>5. Settle(a, e)
  BY <1>1, <1>3 DEF Proceed
<1>. QED
  BY <1>1, <1>4, <1>5, SettleProgress

(* ... of one that takes another revision in hand, ...                     *)
LEMMA HoldProgress ==
    ASSUME Typed, NEW a \in Actors, Busy(a), NEW k \in Kinds, NEW n \in Nat, Hold(a, k, n)
    PROVE  Progress(a)
<1>1. IsCall(call[a]) /\ IsSeq(Tail(call[a].left))
  BY TailShrinks DEF Typed, Busy, IsCall
<1>. DEFINE d == [call[a] EXCEPT !.left = Tail(call[a].left), !.at[k] = n]
<1>2. /\ d.op = call[a].op /\ d.who = call[a].who /\ d.read = call[a].read /\ d.next = call[a].next
      /\ d.at = [call[a].at EXCEPT ![k] = n] /\ d.left = Tail(call[a].left) /\ IsCall(d)
  BY <1>1, CallChanges, Zenon
<1>3. Settle(a, d)
  BY DEF Hold
<1>. HIDE DEF d
<1>. QED
  BY <1>2, <1>3, SettleProgress

(* ... and of one that takes the current revisions.                        *)
LEMMA TakeProgress ==
    ASSUME Typed, NEW a \in Actors, Busy(a), NEW at \in [Kinds -> Nat],
           Settle(a, [call[a] EXCEPT !.left = Tail(@), !.at = at])
    PROVE  Progress(a)
<1>1. IsCall(call[a]) /\ IsSeq(Tail(call[a].left))
  BY TailShrinks DEF Typed, Busy, IsCall
<1>. DEFINE d == [call[a] EXCEPT !.left = Tail(call[a].left), !.at = at]
<1>2. /\ d.op = call[a].op /\ d.who = call[a].who /\ d.read = call[a].read /\ d.next = call[a].next
      /\ d.at = at /\ d.left = Tail(call[a].left) /\ IsCall(d)
  BY <1>1, CallChanges, Zenon
<1>3. Settle(a, d)
  OBVIOUS
<1>. HIDE DEF d
<1>. QED
  BY <1>2, <1>3, SettleProgress

(* What an idle actor has left. *)
LEMMA IdleRests ==
    Idle.left = <<>> /\ ~ (Idle.left # <<>>)
BY DEF Idle

(* The call that goes on leads where it led. *)
LEMMA ToldGoesOn ==
    ASSUME Typed, Told, NEW a \in Actors, Busy(a), Progress(a), undisturbed' = undisturbed,
           Head(call[a].left)[1] # "ask",
           Does(call[a], Head(call[a].left)[1], Head(call[a].left)[2], Now, Now')
    PROVE  Told'
<1>1. SUFFICES ASSUME undisturbed
               PROVE  /\ ~ (Busy("loop") /\ JobWrites)'
                      /\ Quiet' => Story(Now')
                      /\ Busy("loop")' => Leads(call'["loop"], call'["loop"].left, Now')
                      /\ JobWrites' => Leads(call'["job"], call'["job"].left, Now')
  BY DEF Told
<1>2. IsSeq(call[a].left) /\ call[a].left # <<>> /\ IsSeq(Tail(call[a].left))
  BY TailShrinks DEF Typed, Busy, IsCall
<1>3. /\ ~ (Busy("loop") /\ JobWrites) /\ Leads(call[a], call[a].left, Now)
      /\ a = "job" => JobWrites
  BY <1>1 DEF Told, JobWrites, Asking, Actors
<1>4. Leads(call[a], Tail(call[a].left), Now')
  BY <1>2, <1>3, TailLeads
<1>5. CASE Tail(call[a].left) = <<>>
  <2>1. Rests(Tail(call[a].left), 0)
    BY <1>5 DEF Rests
  <2>2. Story(Now')
    BY <1>2, <1>4, <2>1, RestingLeads
  <2>3. call'[a] = Idle /\ call'[a].left = <<>>
    BY <1>5, IdleRests DEF Progress
  <2>4. CASE a = "loop"
    <3>1. call'["job"] = call["job"] /\ ~ Busy("loop")' /\ ~ JobWrites'
      BY <1>3, <2>3, <2>4 DEF Progress, Actors, Busy, JobWrites, Asking
    <3>. QED
      BY <2>2, <3>1
  <2>5. CASE a = "job"
    <3>1. call'["loop"] = call["loop"] /\ ~ Busy("loop")' /\ ~ JobWrites'
      BY <1>3, <2>3, <2>5 DEF Progress, Actors, Busy, JobWrites
    <3>. QED
      BY <2>2, <3>1
  <2>. QED
    BY <2>4, <2>5 DEF Actors
<1>6. CASE Tail(call[a].left) # <<>>
  <2>1. /\ call'[a].op = call[a].op /\ call'[a].read = call[a].read
        /\ call'[a].next = call[a].next /\ call'[a].left = Tail(call[a].left)
    BY <1>6 DEF Progress
  <2>2. Leads(call'[a], call'[a].left, Now')
    BY <1>4, <2>1, SameCallLeads
  <2>3. CASE a = "loop"
    <3>1. call'["job"] = call["job"] /\ Busy("loop")' /\ ~ JobWrites'
      BY <1>3, <1>6, <2>1, <2>3 DEF Progress, Actors, Busy, JobWrites, Asking
    <3>. QED
      BY <2>2, <2>3, <3>1 DEF Quiet
  <2>4. CASE a = "job"
    <3>1. call'["loop"] = call["loop"] /\ ~ Busy("loop")' /\ Busy("job")'
      BY <1>3, <1>6, <2>1, <2>4 DEF Progress, Actors, Busy
    <3>2. ASSUME Quiet' PROVE Story(Now')
      <4>1. Head(call'["job"].left)[1] = "ask"
        BY <3>1, <3>2 DEF Quiet, JobWrites, Asking
      <4>2. Head(call'["job"].left) = call'["job"].left[0 + 1]
        <5>1. PICK S : call'["job"].left \in Seq(S)
          BY <1>2, <2>1, <2>4 DEF IsSeq
        <5>. QED
          BY <5>1
      <4>3. Rests(call'["job"].left, 0)
        BY <4>1, <4>2 DEF Rests
      <4>. QED
        BY <1>2, <2>1, <2>2, <2>4, <4>3, RestingLeads
    <3>. QED
      BY <2>2, <2>4, <3>1, <3>2
  <2>. QED
    BY <2>3, <2>4 DEF Actors
<1>. QED
  BY <1>5, <1>6

(* What a call is about to save is a candidate, before the step and after. *)
LEMMA ContentedGoesOn ==
    ASSUME Typed, Contented, NEW a \in Actors, Busy(a), Progress(a),
           IF Head(call[a].left) = <<"save", "case">> THEN candidate' = call[a].next
           ELSE candidate' = candidate
    PROVE  Contented'
<1>1. /\ IsSeq(call[a].left) /\ call[a].left # <<>> /\ Head(call[a].left) \in Plan(call[a])
      /\ Elements(Tail(call[a].left)) \subseteq Plan(call[a])
  BY TailShrinks DEF Typed, Busy, IsCall, Plan
<1>2. Head(call[a].left) = <<"save", "case">> => candidate' \in Contents
  BY <1>1 DEF Contented, Done
<1>3. candidate' = candidate \/ candidate' \in Contents
  BY <1>2
<1>4. (candidate # Nothing => candidate \in Contents)'
  BY <1>3 DEF Contented
<1>5. ASSUME NEW b \in Actors, ~ Done(call'[b], "save", "case") PROVE call'[b].next \in Contents
  <2>1. CASE b # a
    BY <1>5, <2>1 DEF Progress, Contented
  <2>2. CASE b = a
    <3>1. Tail(call[a].left) # <<>>
      BY <1>5, <2>2, IdleIsCall DEF Progress, Done, Plan
    <3>2. call'[a].next = call[a].next /\ ~ Done(call[a], "save", "case")
      BY <1>1, <1>5, <2>2, <3>1 DEF Progress, Done, Plan
    <3>. QED
      BY <2>2, <3>2 DEF Contented
  <2>. QED
    BY <2>1, <2>2
<1>6. ASSUME Busy("job")' PROVE candidate' # Nothing \/ Head(call'["job"].left) = <<"save", "case">>
  <2>1. CASE a = "job"
    <3>1. candidate' # Nothing
      BY <1>2, <1>3, <2>1, ContentsAssumption DEF Contented
    <3>. QED
      BY <3>1
  <2>2. CASE a # "job"
    <3>1. call'["job"] = call["job"]
      BY <2>2 DEF Progress, Actors
    <3>. QED
      BY <1>3, <1>6, <3>1, ContentsAssumption DEF Contented, Busy
  <2>. QED
    BY <2>1, <2>2
<1>. QED
  BY <1>4, <1>5, <1>6 DEF Contented

(* Calls that end leave nothing to save.                                   *)
LEMMA EndingTells ==
    ASSUME Contented, \A b \in Actors : call'[b] = call[b] \/ call'[b] = Idle,
           candidate' = candidate
    PROVE  Contented'
<1>1. \A b \in Actors : ~ Done(call'[b], "save", "case") => call'[b] = call[b]
  BY IdleIsCall DEF Done, Plan
<1>2. Busy("job")' => call'["job"] = call["job"]
  BY IdleRests DEF Busy, Actors
<1>. QED
  BY <1>1, <1>2 DEF Contented, Busy

(* A step that raises ends its call.                                       *)
LEMMA RaiseTells ==
    ASSUME Typed, Contented, NEW a \in Actors, Raise(a)
    PROVE  Contented' /\ Told'
<1>1. \A b \in Actors : call'[b] = call[b] \/ call'[b] = Idle
  BY DEF Raise, Typed
<1>2. candidate' = candidate
  BY DEF Raise, fileVars
<1>3. Told'
  BY DEF Raise, Told
<1>. QED
  BY <1>1, <1>2, <1>3, EndingTells

(* The first step of a call, by name. *)
LEMMA HeadIs ==
    ASSUME NEW a, NEW name, NEW k, StepIs(a, name, k)
    PROVE  /\ Busy(a) /\ Head(call[a].left) = <<name, k>>
           /\ Head(call[a].left)[1] = name /\ Head(call[a].left)[2] = k
           /\ (name = "save" /\ k = "case") <=> Head(call[a].left) = <<"save", "case">>
BY DEF StepIs

(* A step that tells what Does says of it. *)
LEMMA StepGoesOn ==
    ASSUME Typed, Contented, Told, NEW a \in Actors, NEW name, NEW k, StepIs(a, name, k),
           name \notin {"ask", "save"},
           Progress(a), undisturbed' = undisturbed, candidate' = candidate,
           Does(call[a], name, k, Now, Now')
    PROVE  Contented' /\ Told'
<1>1. /\ Busy(a) /\ Head(call[a].left)[1] = name /\ Head(call[a].left)[2] = k
      /\ Head(call[a].left) # <<"save", "case">>
  BY HeadIs
<1>. QED
  BY <1>1, ContentedGoesOn, ToldGoesOn

(* A step that no story shows. *)
LEMMA SilentTells ==
    ASSUME Typed, Contented, Told, NEW a \in Actors, NEW name \in Silent, NEW k, StepIs(a, name, k),
           Progress(a), UNCHANGED <<undisturbed, hist, candidate, approvedCase>>
    PROVE  Contented' /\ Told'
<1>1. Same(Now, Now')
  BY UnchangedIsSame
<1>2. Does(call[a], name, k, Now, Now')
  BY <1>1 DEF Does, Silent
<1>3. name \notin {"ask", "save"}
  BY DEF Silent
<1>. QED
  BY <1>2, <1>3, StepGoesOn

(* A step that writes a revision, or finds another in its place. *)
LEMMA WriteTells ==
    ASSUME Typed, Contented, Told, NEW a \in Actors, NEW name, NEW k \in Kinds, StepIs(a, name, k),
           name \notin {"ask", "save"}, NEW n \in Nat, NEW rev, WriteRevision(a, k, n, rev),
           n = Len(hist[k]) + 1 /\ Writes(Now, Now', k, Counts(rev.life), rev.text)
              => Does(call[a], name, k, Now, Now')
    PROVE  Contented' /\ Told'
<1>1. CASE PathTaken(k, n) /\ Raise(a)
  BY <1>1, RaiseTells
<1>2. CASE Appending(k, n, rev) /\ Hold(a, k, n)
           /\ UNCHANGED <<fileVars, reviews, approvals, releaseVars, closed, undisturbed, boundVars>>
  <2>1. n = Len(hist[k]) + 1 /\ Added(hist, hist', k, rev)
    BY <1>2, Additions DEF Appending, Typed
  <2>2. UNCHANGED <<candidate, approvedCase, undisturbed>>
    BY <1>2 DEF fileVars
  <2>3. Progress(a)
    BY <1>2, HeadIs, HoldProgress
  <2>. QED
    BY <2>1, <2>2, <2>3, AddedIsWritten, StepGoesOn
<1>. QED
  BY <1>1, <1>2 DEF WriteRevision

(* The number of the next revision is one. *)
LEMMA NextIsNat ==
    ASSUME Typed, NEW a \in Actors, NEW k \in Kinds
    PROVE  Len(hist[k]) + 1 \in Nat /\ call[a].at[k] + 1 \in Nat
<1>1. Len(hist[k]) \in Nat
  BY Lengthy DEF Typed
<1>2. call[a].at[k] \in Nat
  BY DEF Typed, IsCall
<1>. QED
  BY <1>1, <1>2

(* The fields of a revision. *)
LEMMA RevisionIs ==
    ASSUME NEW life, NEW text, NEW actor, NEW pin
    PROVE  Revision(life, text, actor, pin).life = life /\ Revision(life, text, actor, pin).text = text
BY DEF Revision

(* The successor of the revision in hand keeps the text of the current. *)
LEMMA SucceedTells ==
    ASSUME Typed, Contented, Told, NEW a \in Actors, NEW name, NEW k \in Kinds, StepIs(a, name, k),
           name \notin {"ask", "save"}, NEW life, NEW actor, Succeed(a, k, life, actor),
           (Now[k].here => Writes(Now, Now', k, Counts(life), Now[k].text))
              => Does(call[a], name, k, Now, Now')
    PROVE  Contented' /\ Told'
<1>. DEFINE n == call[a].at[k] + 1
            rev == Revision(life, Target(a, k).text, actor, PinOf(a, k))
<1>1. n \in Nat /\ call[a].at[k] \in Nat /\ Len(hist[k]) \in Nat
  BY NextIsNat, Lengthy DEF Typed, IsCall
<1>2. WriteRevision(a, k, n, rev)
  BY DEF Succeed
<1>3. rev.life = life /\ rev.text = Target(a, k).text
  BY RevisionIs
<1>. HIDE DEF rev
<1>4. ASSUME n = Len(hist[k]) + 1, Writes(Now, Now', k, Counts(rev.life), rev.text)
      PROVE  Does(call[a], name, k, Now, Now')
  <2>1. call[a].at[k] = Len(hist[k])
    BY <1>1, <1>4
  <2>2. Now[k] = Standing(hist[k])
    BY StoryParts DEF Now
  <2>3. Now[k].here => Target(a, k).text = Now[k].text
    BY <2>1, <2>2, Standings DEF Target
  <2>. QED
    BY <1>3, <1>4, <2>3
<1>. HIDE DEF n
<1>. QED
  BY <1>1, <1>2, <1>4, WriteTells

(* The successor of the current revision. *)
LEMMA CurrentTells ==
    ASSUME Typed, Contented, Told, NEW a \in Actors, NEW name, NEW k \in Kinds, StepIs(a, name, k),
           name \notin {"ask", "save"}, NEW life, NEW text, NEW actor,
           SucceedCurrent(a, k, life, text, actor),
           Writes(Now, Now', k, Counts(life), text) => Does(call[a], name, k, Now, Now')
    PROVE  Contented' /\ Told'
<1>. DEFINE n == Len(hist[k]) + 1
            rev == Revision(life, text, actor, PinOf(a, k))
<1>1. n \in Nat
  BY NextIsNat
<1>2. WriteRevision(a, k, n, rev)
  BY DEF SucceedCurrent
<1>3. rev.life = life /\ rev.text = text
  BY RevisionIs
<1>. HIDE DEF n, rev
<1>. QED
  BY <1>1, <1>2, <1>3, WriteTells

(* Taking the current revision in hand. *)
LEMMA HoldTells ==
    ASSUME Typed, Contented, Told, NEW a \in Actors, NEW name, NEW k \in Kinds, StepIs(a, name, k),
           name \notin {"ask", "save"}, HoldCurrent(a, k),
           Same(Now, Now') => Does(call[a], name, k, Now, Now')
    PROVE  Contented' /\ Told'
<1>1. Len(hist[k]) \in Nat
  BY Lengthy DEF Typed
<1>2. Progress(a)
  BY <1>1, HeadIs, HoldProgress DEF HoldCurrent
<1>3. UNCHANGED <<hist, candidate, approvedCase, undisturbed>>
  BY DEF HoldCurrent, ledgerVars, fileVars
<1>. QED
  BY <1>2, <1>3, UnchangedIsSame, StepGoesOn

-----------------------------------------------------------------------------
(* The story, step by step. *)

(* The candidate saved. *)
LEMMA SaveTells ==
    ASSUME Typed, Contented, Told, NEW a \in Actors, Save(a)
    PROVE  Contented' /\ Told'
<1>1. /\ Busy(a) /\ Head(call[a].left) = <<"save", "case">>
      /\ Head(call[a].left)[1] = "save" /\ Head(call[a].left)[2] = "case"
      /\ Proceed(a) /\ candidate' = call[a].next
      /\ UNCHANGED <<hist, approvedCase, undisturbed>>
  BY DEF Save, StepIs, ledgerVars
<1>2. Progress(a)
  BY <1>1, ProceedProgress
<1>3. Keeps(Now, Now', "cand") /\ Now'.cand = call[a].next
  BY <1>1 DEF Keeps, Parts, Now, StoryOf
<1>4. Does(call[a], "save", "case", Now, Now')
  BY <1>3 DEF Does, Silent
<1>. QED
  BY <1>1, <1>2, <1>4, ContentedGoesOn, ToldGoesOn

(* The approved case filed. *)
LEMMA FileTells ==
    ASSUME Typed, Contented, Told, NEW a \in Actors, FileApproved(a)
    PROVE  Contented' /\ Told'
<1>1. /\ StepIs(a, "file", "case") /\ Busy(a) /\ Proceed(a)
      /\ approvedCase' = [q |-> call[a].next.q, a |-> call[a].next.a]
      /\ UNCHANGED <<hist, candidate, undisturbed>>
  BY DEF FileApproved, StepIs, ledgerVars
<1>2. Progress(a)
  BY <1>1, ProceedProgress
<1>3. Keeps(Now, Now', "filed") /\ Now'.filed.q = call[a].next.q /\ Now'.filed.a = call[a].next.a
  BY <1>1 DEF Keeps, Parts, Now, StoryOf
<1>4. Does(call[a], "file", "case", Now, Now')
  BY <1>3 DEF Does, Silent
<1>. QED
  BY <1>1, <1>2, <1>4, StepGoesOn

(* A story without a Case or Gold has none of its revisions. *)
LEMMA HereIs ==
    \A k \in Kinds : Now[k].here <=> hist[k] # <<>>
BY StoryParts, Standings DEF Now

(* A candidate projected: its draft, ... *)
LEMMA ImportTells ==
    ASSUME Typed, Contented, Told, NEW a \in Actors, NEW k \in Kinds, Import(a, k)
    PROVE  Contented' /\ Told'
<1>. DEFINE rev == Revision("draft", Text(k, call[a].read), Importer, PinOf(a, k))
<1>1. StepIs(a, "import", k) /\ WriteRevision(a, k, 1, rev)
  BY DEF Import
<1>2. rev.life = "draft" /\ rev.text = Text(k, call[a].read)
  BY RevisionIs
<1>. HIDE DEF rev
<1>3. ASSUME 1 = Len(hist[k]) + 1, Writes(Now, Now', k, Counts(rev.life), rev.text)
      PROVE  Does(call[a], "import", k, Now, Now')
  <2>1. ~ Now[k].here
    BY <1>3, HereIs, Lengthy DEF Typed
  <2>2. Writes(Now, Now', k, "draft", Text(k, call[a].read))
    BY <1>2, <1>3 DEF Counts
  <2>. QED
    BY <2>1, <2>2 DEF Does, Silent
<1>. QED
  BY <1>1, <1>3, WriteTells

(* ... and the lifecycle its state stands for. *)
LEMMA AdoptTells ==
    ASSUME Typed, Contented, Told, NEW a \in Actors, NEW k \in Kinds, Adopt(a, k)
    PROVE  Contented' /\ Told'
<1>. DEFINE life == LegacyLifecycle(call[a].read.state)
<1>1. StepIs(a, "adopt", k) /\ Succeed(a, k, life, Importer)
  BY DEF Adopt
<1>2. (Now[k].here => Writes(Now, Now', k, Counts(life), Now[k].text))
         => Does(call[a], "adopt", k, Now, Now')
  BY DEF Does, Silent
<1>. HIDE DEF life
<1>. QED
  BY <1>1, <1>2, SucceedTells

(* A Case created. *)
LEMMA CreateTells ==
    ASSUME Typed, Contented, Told, NEW a \in Actors, CreateCase(a)
    PROVE  Contented' /\ Told'
<1>. DEFINE rev == Revision("draft", call[a].next.q, Author, 0)
<1>1. StepIs(a, "create", "case") /\ WriteRevision(a, "case", 1, rev) /\ "case" \in Kinds
  BY DEF CreateCase, Kinds
<1>2. rev.life = "draft" /\ rev.text = call[a].next.q
  BY RevisionIs
<1>. HIDE DEF rev
<1>3. ASSUME 1 = Len(hist["case"]) + 1, Writes(Now, Now', "case", Counts(rev.life), rev.text)
      PROVE  Does(call[a], "create", "case", Now, Now')
  <2>1. ~ Now["case"].here
    BY <1>1, <1>3, HereIs, Lengthy DEF Typed
  <2>2. Writes(Now, Now', "case", "draft", call[a].next.q)
    BY <1>2, <1>3 DEF Counts
  <2>. QED
    BY <2>1, <2>2 DEF Does, Silent
<1>. QED
  BY <1>1, <1>3, WriteTells

(* What the current revision counts as. *)
LEMMA CurrentIs ==
    \A k \in Kinds : Now[k].here => /\ hist[k] # <<>> /\ Now[k].text = Current(k).text
                                    /\ Now[k].life = Counts(Current(k).life)
BY StoryParts, Standings DEF Now, Current

(* A draft counts as a draft, and nothing else does; so of the others. *)
LEMMA CountsKeep ==
    \A life : /\ Counts(life) = "draft" <=> life = "draft"
              /\ Counts(life) = "rejected" <=> life = "rejected"
              /\ Counts(life) = "proposed" <=> life = "proposed"
              /\ Counts(life) = "approved" <=> life \in Granted
BY DEF Counts, Granted

(* The revision of a decision opened. *)
LEMMA OpenTells ==
    ASSUME Typed, Contented, Told, NEW a \in Actors, NEW k \in Kinds, Open(a, k)
    PROVE  Contented' /\ Told'
<1>1. StepIs(a, "open", k)
  BY DEF Open
<1>2. CASE Current(k).life = "draft"
  <2>1. SucceedCurrent(a, k, "proposed", Current(k).text, Current(k).actor)
    BY <1>2 DEF Open
  <2>2. ASSUME Writes(Now, Now', k, Counts("proposed"), Current(k).text)
        PROVE  Does(call[a], "open", k, Now, Now')
    BY <1>2, <2>2, CurrentIs DEF Does, Silent, Counts
  <2>. QED
    BY <1>1, <2>1, <2>2, CurrentTells
<1>3. CASE Current(k).life # "draft"
  <2>1. HoldCurrent(a, k)
    BY <1>3 DEF Open
  <2>2. Same(Now, Now') => Does(call[a], "open", k, Now, Now')
    BY <1>3, CurrentIs, CountsKeep DEF Does, Silent
  <2>. QED
    BY <1>1, <2>1, <2>2, HoldTells
<1>. QED
  BY <1>2, <1>3

(* An answered Case submitted. *)
LEMMA SubmitTells ==
    ASSUME Typed, Contented, Told, NEW a \in Actors, Submit(a)
    PROVE  Contented' /\ Told'
<1>1. StepIs(a, "submit", "case") /\ "case" \in Kinds
  BY DEF Submit, Kinds
<1>2. CASE Current("case").life \in {"draft", "rejected"}
  <2>1. SucceedCurrent(a, "case", "proposed", Current("case").text, Author)
    BY <1>2 DEF Submit
  <2>2. ASSUME Writes(Now, Now', "case", Counts("proposed"), Current("case").text)
        PROVE  Does(call[a], "submit", "case", Now, Now')
    BY <1>1, <1>2, <2>2, CurrentIs DEF Does, Silent, Counts
  <2>. QED
    BY <1>1, <2>1, <2>2, CurrentTells
<1>3. CASE Current("case").life \notin {"draft", "rejected"}
  <2>1. HoldCurrent(a, "case")
    BY <1>3 DEF Submit
  <2>2. Same(Now, Now') => Does(call[a], "submit", "case", Now, Now')
    BY <1>1, <1>3, CurrentIs, CountsKeep DEF Does, Silent
  <2>. QED
    BY <1>1, <2>1, <2>2, HoldTells
<1>. QED
  BY <1>2, <1>3

(* A current revision proposed. *)
LEMMA ProposeTells ==
    ASSUME Typed, Contented, Told, NEW a \in Actors, NEW k \in Kinds, Propose(a, k)
    PROVE  Contented' /\ Told'
<1>1. StepIs(a, "propose", k)
  BY DEF Propose
<1>2. CASE Current(k).life \in {"draft", "rejected"}
  <2>1. SucceedCurrent(a, k, "proposed", Current(k).text, Author)
    BY <1>2 DEF Propose
  <2>2. ASSUME Writes(Now, Now', k, Counts("proposed"), Current(k).text)
        PROVE  Does(call[a], "propose", k, Now, Now')
    BY <2>2, CurrentIs DEF Does, Silent, Counts
  <2>. QED
    BY <1>1, <2>1, <2>2, CurrentTells
<1>3. CASE Current(k).life \notin {"draft", "rejected"}
  BY <1>3, RaiseTells DEF Propose
<1>. QED
  BY <1>2, <1>3

(* A Case or Gold revised. *)
LEMMA ReviseTells ==
    ASSUME Typed, Contented, Told, NEW a \in Actors, NEW k \in Kinds, Revise(a, k)
    PROVE  Contented' /\ Told'
<1>1. StepIs(a, "revise", k)
  BY DEF Revise
<1>2. CASE Revisable(k)
  <2>1. SucceedCurrent(a, k, "draft", Text(k, call[a].next), Author)
    BY <1>2 DEF Revise
  <2>2. ASSUME Writes(Now, Now', k, Counts("draft"), Text(k, call[a].next))
        PROVE  Does(call[a], "revise", k, Now, Now')
    BY <2>2 DEF Does, Silent, Counts
  <2>. QED
    BY <1>1, <2>1, <2>2, CurrentTells
<1>3. CASE ~ Revisable(k)
  BY <1>3, RaiseTells DEF Revise
<1>. QED
  BY <1>2, <1>3

(* A revision turned down, marked as reviewed, promoted, or frozen. *)
LEMMA SuccessorTells ==
    ASSUME Typed, Contented, Told, NEW a \in Actors, NEW k \in Kinds,
           TurnDown(a, k) \/ MarkReviewed(a, k) \/ Promote(a, k) \/ Freeze(a, k)
    PROVE  Contented' /\ Told'
<1>1. CASE TurnDown(a, k)
  <2>1. StepIs(a, "turn down", k) /\ Succeed(a, k, "rejected", call[a].who)
    BY <1>1 DEF TurnDown
  <2>2. (Now[k].here => Writes(Now, Now', k, Counts("rejected"), Now[k].text))
           => Does(call[a], "turn down", k, Now, Now')
    BY DEF Does, Silent, Counts
  <2>. QED
    BY <2>1, <2>2, SucceedTells
<1>2. CASE MarkReviewed(a, k)
  <2>1. StepIs(a, "mark", k) /\ (Raise(a) \/ Succeed(a, k, "reviewed", Target(a, k).actor))
    BY <1>2 DEF MarkReviewed
  <2>2. (Now[k].here => Writes(Now, Now', k, Counts("reviewed"), Now[k].text))
           => Does(call[a], "mark", k, Now, Now')
    BY DEF Does, Silent, Counts
  <2>. QED
    BY <2>1, <2>2, SucceedTells, RaiseTells
<1>3. CASE Promote(a, k)
  <2>1. StepIs(a, "promote", k) /\ Succeed(a, k, "approved", Target(a, k).actor)
    BY <1>3 DEF Promote
  <2>2. (Now[k].here => Writes(Now, Now', k, Counts("approved"), Now[k].text))
           => Does(call[a], "promote", k, Now, Now')
    BY DEF Does, Silent, Counts
  <2>. QED
    BY <2>1, <2>2, SucceedTells
<1>4. CASE Freeze(a, k)
  <2>1. StepIs(a, "freeze", k)
    BY <1>4 DEF Freeze
  <2>2. CASE Target(a, k).life = "frozen"
    <3>1. /\ Busy(a) /\ Proceed(a)
          /\ UNCHANGED <<hist, candidate, approvedCase, undisturbed>>
      BY <1>4, <2>2 DEF Freeze, StepIs, ledgerVars, fileVars
    <3>2. Progress(a) /\ Same(Now, Now')
      BY <3>1, ProceedProgress, UnchangedIsSame
    <3>3. Does(call[a], "freeze", k, Now, Now')
      BY <3>2 DEF Does, Silent
    <3>. QED
      BY <2>1, <3>1, <3>2, <3>3, StepGoesOn
  <2>3. CASE Target(a, k).life # "frozen"
    <3>1. Succeed(a, k, "frozen", Target(a, k).actor)
      BY <1>4, <2>3 DEF Freeze
    <3>2. (Now[k].here => Writes(Now, Now', k, Counts("frozen"), Now[k].text))
             => Does(call[a], "freeze", k, Now, Now')
      BY DEF Does, Silent, Counts
    <3>. QED
      BY <2>1, <3>1, <3>2, SucceedTells
  <2>. QED
    BY <2>2, <2>3
<1>. QED
  BY <1>1, <1>2, <1>3, <1>4

(* Steps that no story shows, or that raise. *)
LEMMA SilentStepsTell ==
    ASSUME Typed, Contented, Told, NEW a \in Actors,
           \/ HoldCase(a) \/ Advance(a) \/ MarkFrozen(a) \/ MarkExported(a) \/ ValidateFrozen(a)
           \/ PutRelease(a) \/ MarkReleased(a) \/ \E k \in Kinds : Review(a, k) \/ Approve(a, k)
    PROVE  Contented' /\ Told'
<1>1. ASSUME NEW name \in Silent, NEW k, StepIs(a, name, k), Proceed(a),
             UNCHANGED <<undisturbed, hist, candidate, approvedCase>>
      PROVE  Contented' /\ Told'
  <2>1. Progress(a)
    BY <1>1, ProceedProgress DEF StepIs
  <2>. QED
    BY <1>1, <2>1, SilentTells
<1>2. CASE HoldCase(a)
  <2>1. StepIs(a, "hold", "case") /\ HoldCurrent(a, "case") /\ "case" \in Kinds
    BY <1>2 DEF HoldCase, Kinds
  <2>2. Same(Now, Now') => Does(call[a], "hold", "case", Now, Now')
    BY DEF Does, Silent
  <2>. QED
    BY <2>1, <2>2, HoldTells
<1>3. CASE Advance(a)
  <2>1. /\ StepIs(a, "advance", "case") /\ Proceed(a) /\ "advance" \in Silent
        /\ UNCHANGED <<undisturbed, hist, candidate, approvedCase>>
    BY <1>3 DEF Advance, Silent, ledgerVars, fileVars
  <2>. QED
    BY <1>1, <2>1
<1>4. CASE MarkFrozen(a)
  <2>1. /\ StepIs(a, "pin", "case") /\ Proceed(a) /\ "pin" \in Silent
        /\ UNCHANGED <<undisturbed, hist, candidate, approvedCase>>
    BY <1>4 DEF MarkFrozen, Silent, ledgerVars, fileVars
  <2>. QED
    BY <1>1, <2>1
<1>5. CASE MarkExported(a)
  <2>1. /\ StepIs(a, "export", "case") /\ Proceed(a) /\ "export" \in Silent
        /\ UNCHANGED <<undisturbed, hist, candidate, approvedCase>>
    BY <1>5 DEF MarkExported, Silent, ledgerVars, fileVars
  <2>. QED
    BY <1>1, <2>1
<1>6. CASE ValidateFrozen(a)
  <2>1. \/ Raise(a)
        \/ /\ StepIs(a, "validate", "case") /\ Proceed(a) /\ "validate" \in Silent
           /\ UNCHANGED <<undisturbed, hist, candidate, approvedCase>>
    BY <1>6 DEF ValidateFrozen, Silent, ledgerVars, fileVars
  <2>. QED
    BY <1>1, <2>1, RaiseTells
<1>7. CASE PutRelease(a)
  <2>1. \/ Raise(a)
        \/ /\ StepIs(a, "put", "case") /\ Proceed(a) /\ "put" \in Silent
           /\ UNCHANGED <<undisturbed, hist, candidate, approvedCase>>
    BY <1>7 DEF PutRelease, Silent, ledgerVars, fileVars
  <2>. QED
    BY <1>1, <2>1, RaiseTells
<1>8. CASE MarkReleased(a)
  <2>1. /\ StepIs(a, "close", "case") /\ Proceed(a) /\ "close" \in Silent
        /\ UNCHANGED <<undisturbed, hist, candidate, approvedCase>>
    BY <1>8 DEF MarkReleased, Silent, ledgerVars, fileVars
  <2>. QED
    BY <1>1, <2>1
<1>9. ASSUME NEW k \in Kinds, Review(a, k) PROVE Contented' /\ Told'
  <2>1. \/ Raise(a)
        \/ /\ StepIs(a, "review", k) /\ Proceed(a) /\ "review" \in Silent
           /\ UNCHANGED <<undisturbed, hist, candidate, approvedCase>>
    BY <1>9 DEF Review, Silent, fileVars
  <2>. QED
    BY <1>1, <2>1, RaiseTells
<1>10. ASSUME NEW k \in Kinds, Approve(a, k) PROVE Contented' /\ Told'
  <2>1. \/ Raise(a)
        \/ /\ StepIs(a, "approve", k) /\ Proceed(a) /\ "approve" \in Silent
           /\ UNCHANGED <<undisturbed, hist, candidate, approvedCase>>
    BY <1>10 DEF Approve, Silent, fileVars
  <2>. QED
    BY <1>1, <2>1, RaiseTells
<1>. QED
  BY <1>2, <1>3, <1>4, <1>5, <1>6, <1>7, <1>8, <1>9, <1>10

(* The current revisions taken. *)
LEMMA LengthsAreAt ==
    ASSUME Typed
    PROVE  Lengths \in [Kinds -> Nat]
BY Lengthy DEF Typed, Lengths

(* A freeze that finds both revisions approved. *)
LEMMA SelectTells ==
    ASSUME Typed, Contented, Told, NEW a \in Actors, Select(a)
    PROVE  Contented' /\ Told'
<1>1. StepIs(a, "select", "case") /\ Busy(a)
  BY DEF Select, StepIs
<1>2. CASE \A k \in Kinds : hist[k] # <<>> /\ Current(k).life \in {"approved", "frozen"}
  <2>1. /\ Settle(a, [call[a] EXCEPT !.left = Tail(@), !.at = Lengths])
        /\ UNCHANGED <<hist, candidate, approvedCase, undisturbed>>
    BY <1>2 DEF Select, ledgerVars, fileVars
  <2>2. Progress(a) /\ Same(Now, Now')
    BY <1>1, <2>1, LengthsAreAt, TakeProgress, UnchangedIsSame
  <2>3. \A j \in Kinds : Now[j].here /\ Now[j].life = "approved"
    BY <1>2, HereIs, CurrentIs DEF Counts
  <2>4. Does(call[a], "select", "case", Now, Now')
    BY <2>2, <2>3 DEF Does, Silent
  <2>. QED
    BY <1>1, <2>1, <2>2, <2>4, StepGoesOn
<1>3. CASE ~ \A k \in Kinds : hist[k] # <<>> /\ Current(k).life \in {"approved", "frozen"}
  BY <1>3, RaiseTells DEF Select
<1>. QED
  BY <1>2, <1>3

(* A call that may rest here has left the story in order. *)
LEMMA RestingTells ==
    ASSUME Typed, Contented, Told, NEW a \in Actors, Busy(a), Head(call[a].left)[1] = "check",
           call' = [call EXCEPT ![a] = Idle], UNCHANGED <<hist, candidate, approvedCase, undisturbed>>
    PROVE  Contented' /\ Told'
<1>1. \A b \in Actors : call'[b] = IF b = a THEN Idle ELSE call[b]
  BY DEF Typed
<1>2. Contented'
  BY <1>1, EndingTells
<1>3. Now' = Now
  BY DEF Now, StoryOf
<1>4. ASSUME undisturbed
      PROVE  /\ ~ (Busy("loop") /\ JobWrites)' /\ Story(Now') /\ ~ Busy("loop")' /\ ~ JobWrites'
  <2>1. IsSeq(call[a].left) /\ call[a].left # <<>>
    BY DEF Typed, Busy, IsCall
  <2>2. Head(call[a].left) = call[a].left[0 + 1]
    <3>1. PICK S : call[a].left \in Seq(S)
      BY <2>1 DEF IsSeq
    <3>. QED
      BY <2>1, <3>1
  <2>3. Rests(call[a].left, 0)
    BY <2>2 DEF Rests
  <2>4. /\ ~ (Busy("loop") /\ JobWrites) /\ Leads(call[a], call[a].left, Now)
        /\ a = "job" => JobWrites
    BY <1>4 DEF Told, JobWrites, Asking, Actors
  <2>5. Story(Now)
    BY <2>1, <2>3, <2>4, RestingLeads
  <2>6. ~ Busy("loop")' /\ ~ JobWrites'
    BY <1>1, <2>4, IdleRests DEF Busy, JobWrites, Asking, Actors
  <2>. QED
    BY <1>3, <2>5, <2>6
<1>5. Told'
  BY <1>4 DEF Told
<1>. QED
  BY <1>2, <1>5

(* The checks of an acceptance. *)
LEMMA CheckTells ==
    ASSUME Typed, Contented, Told, NEW a \in Actors, CheckAccept(a)
    PROVE  Contented' /\ Told'
<1>1. /\ StepIs(a, "check", "case") /\ Busy(a) /\ Head(call[a].left)[1] = "check"
      /\ UNCHANGED <<hist, candidate, approvedCase, undisturbed>>
  BY DEF CheckAccept, StepIs, ledgerVars, fileVars
<1>2. CASE hist["gold"] # <<>> /\ Settle(a, [call[a] EXCEPT !.left = Tail(@), !.at = Lengths])
  <2>1. Progress(a) /\ Same(Now, Now')
    BY <1>1, <1>2, LengthsAreAt, TakeProgress, UnchangedIsSame
  <2>2. Now.gold.here
    BY <1>2, HereIs DEF Kinds
  <2>3. Does(call[a], "check", "case", Now, Now')
    BY <2>1, <2>2 DEF Does, Silent
  <2>. QED
    BY <1>1, <2>1, <2>3, StepGoesOn
<1>3. CASE call' = [call EXCEPT ![a] = Idle]
  BY <1>1, <1>3, RestingTells
<1>. QED
  BY <1>2, <1>3 DEF CheckAccept

(* A plan of three steps. *)
LEMMA ThreeRuns ==
    ASSUME NEW c, NEW n, NEW o, NEW p, NEW k, NEW r, NEW l, l = <<<<n, k>>, <<o, k>>, <<p, k>>>>,
           Runs(c, l, r, Len(l))
    PROVE  /\ Does(c, n, k, r[1], r[2]) /\ Does(c, o, k, r[2], r[3]) /\ Does(c, p, k, r[3], r[4])
           /\ Len(l) = 3
BY DEF Runs

(* What a decision may do to the Gold, step by step and at once. *)
LEMMA GoldReaches ==
    ASSUME NEW c, c.op \in {"edit", "reject"}, NEW y, Reaches(c, GoldSteps(c.op), Now, y)
    PROVE  Does(c, "branch", "gold", Now, y)
<1>1. PICK r : Runs(c, GoldSteps(c.op), r, Len(GoldSteps(c.op))) /\ r[1] = Now
               /\ r[Len(GoldSteps(c.op)) + 1] = y
  BY DEF Reaches
<1>2. "gold" \in Kinds /\ "gold" \in Parts
  BY DEF Kinds, Parts
<1>3. (Now["gold"].here <=> hist["gold"] # <<>>) /\ Now.gold = Now["gold"]
  BY <1>2, HereIs
<1>4. CASE c.op = "edit" /\ hist["gold"] = <<>>
  <2>1. GoldSteps(c.op) = <<<<"revise", "gold">>>>
    BY <1>4 DEF GoldSteps
  <2>2. Does(c, "revise", "gold", Now, y)
    BY <1>1, <2>1 DEF Runs
  <2>3. Writes(Now, y, "gold", "draft", c.next.a)
    BY <2>2 DEF Does, Text
  <2>. QED
    BY <1>4, <2>3 DEF Does, Silent
<1>5. CASE c.op = "edit" /\ hist["gold"] # <<>>
  <2>1. GoldSteps(c.op) = <<<<"open", "gold">>, <<"review", "gold">>, <<"revise", "gold">>>>
    BY <1>5 DEF GoldSteps
  <2>2. /\ Does(c, "open", "gold", Now, r[2]) /\ Does(c, "review", "gold", r[2], r[3])
        /\ Does(c, "revise", "gold", r[3], y)
    <3>1. PICK l : l = GoldSteps(c.op)
      OBVIOUS
    <3>2. l = <<<<"open", "gold">>, <<"review", "gold">>, <<"revise", "gold">>>>
      BY <2>1, <3>1
    <3>3. Runs(c, l, r, Len(l)) /\ r[1] = Now /\ r[Len(l) + 1] = y
      BY <1>1, <3>1
    <3>4. /\ Does(c, "open", "gold", r[1], r[2]) /\ Does(c, "review", "gold", r[2], r[3])
          /\ Does(c, "revise", "gold", r[3], r[4]) /\ Len(l) = 3
      BY <3>2, <3>3, ThreeRuns, Zenon
    <3>5. r[4] = y
      <4>1. Len(l) = 3
        BY <3>4, Zenon
      <4>. QED
        BY <3>3, <4>1
    <3>. QED
      BY <3>3, <3>4, <3>5, Zenon
  <2>3. Keeps(Now, r[2], "gold")
    BY <1>3, <1>5, <2>2 DEF Does, Writes, Same, Keeps
  <2>4. Same(r[2], r[3])
    BY <2>2 DEF Does, Silent
  <2>5. Writes(r[3], y, "gold", "draft", c.next.a)
    BY <2>2 DEF Does, Text
  <2>6. Writes(Now, y, "gold", "draft", c.next.a)
    BY <2>3, <2>4, <2>5 DEF Writes, Keeps, Same
  <2>. QED
    BY <1>5, <2>6 DEF Does, Silent
<1>6. CASE c.op = "reject" /\ hist["gold"] # <<>> /\ Current("gold").life \in {"draft", "proposed", "reviewed"}
  <2>1. GoldSteps(c.op) = <<<<"open", "gold">>, <<"review", "gold">>, <<"turn down", "gold">>>>
    BY <1>6 DEF GoldSteps
  <2>2. /\ Does(c, "open", "gold", Now, r[2]) /\ Does(c, "review", "gold", r[2], r[3])
        /\ Does(c, "turn down", "gold", r[3], y)
    <3>1. PICK l : l = GoldSteps(c.op)
      OBVIOUS
    <3>2. l = <<<<"open", "gold">>, <<"review", "gold">>, <<"turn down", "gold">>>>
      BY <2>1, <3>1
    <3>3. Runs(c, l, r, Len(l)) /\ r[1] = Now /\ r[Len(l) + 1] = y
      BY <1>1, <3>1
    <3>4. /\ Does(c, "open", "gold", r[1], r[2]) /\ Does(c, "review", "gold", r[2], r[3])
          /\ Does(c, "turn down", "gold", r[3], r[4]) /\ Len(l) = 3
      BY <3>2, <3>3, ThreeRuns, Zenon
    <3>5. r[4] = y
      <4>1. Len(l) = 3
        BY <3>4, Zenon
      <4>. QED
        BY <3>3, <4>1
    <3>. QED
      BY <3>3, <3>4, <3>5, Zenon
  <2>3. Keeps(Now, r[2], "gold") /\ r[2].gold.here /\ r[2].gold.text = Now.gold.text
    BY <1>2, <1>3, <1>6, <2>2 DEF Does, Writes, Same, Keeps
  <2>4. Same(r[2], r[3]) /\ r[3].gold = r[2].gold
    BY <1>2, <2>2 DEF Does, Silent, Same
  <2>5. Writes(r[3], y, "gold", "rejected", r[3].gold.text)
    BY <2>2, <2>3, <2>4 DEF Does
  <2>6. Writes(Now, y, "gold", "rejected", Now.gold.text)
    BY <2>3, <2>4, <2>5 DEF Writes, Keeps, Same
  <2>7. Now.gold.here /\ Now.gold.life \in {"draft", "proposed", "reviewed"}
    BY <1>2, <1>3, <1>6, CurrentIs DEF Counts
  <2>. QED
    BY <1>6, <2>6, <2>7 DEF Does, Silent
<1>7. CASE c.op = "reject" /\ ~ (hist["gold"] # <<>> /\ Current("gold").life \in {"draft", "proposed", "reviewed"})
  <2>1. GoldSteps(c.op) = <<>>
    BY <1>7 DEF GoldSteps
  <2>2. y = Now
    BY <1>1, <2>1
  <2>3. ~ (Now.gold.here /\ Now.gold.life \in {"draft", "proposed", "reviewed"})
    BY <1>2, <1>3, <1>7, CurrentIs DEF Counts
  <2>. QED
    BY <1>7, <2>2, <2>3 DEF Does, Silent, Same
<1>. QED
  BY <1>4, <1>5, <1>6, <1>7

(* A decision on the Gold, with the steps it leads to put first. *)
LEMMA BranchTells ==
    ASSUME IInv, Contented, Told, NEW a \in Actors, BranchOnGold(a)
    PROVE  Contented' /\ Told'
<1>1. /\ Typed /\ Busy(a) /\ Head(call[a].left) = <<"branch", "gold">>
      /\ Head(call[a].left)[1] = "branch" /\ Head(call[a].left)[2] = "gold"
      /\ IsCall(call[a]) /\ IsSeq(call[a].left) /\ call[a].left # <<>>
      /\ UNCHANGED <<hist, candidate, approvedCase, undisturbed>>
  BY DEF IInv, Typed, BranchOnGold, StepIs, Busy, IsCall, fileVars, ledgerVars
<1>2. Reviewed /\ Planned
  <2>1. Head(call[a].left) \notin Projections \cup FreezingSteps \cup {<<"export", "case">>, <<"advance", "case">>}
    BY <1>1 DEF Projections, FreezingSteps
  <2>. QED
    BY <1>1, <2>1, NotOutdated
<1>3. a = "loop" /\ call[a].op \in {"edit", "reject"}
  BY <1>1, <1>2, Owners
<1>4. PICK c, g, t, l : /\ c = call[a] /\ g = GoldSteps(c.op) /\ t = Tail(c.left) /\ l = g \o t
  OBVIOUS
<1>5. IsSeq(t) /\ Elements(t) \subseteq Plan(c) /\ IsSeq(g)
      /\ Elements(g) \subseteq {"open", "review", "revise", "turn down"} \X Kinds
  BY <1>1, <1>3, <1>4, TailShrinks, GoldPlan DEF Plan
<1>6. IsSeq(l) /\ Elements(l) = Elements(g) \cup Elements(t)
  BY <1>4, <1>5, ConcatHolds
<1>7. PICK d : d = [c EXCEPT !.left = l]
  OBVIOUS
<1>8. d.op = c.op /\ d.read = c.read /\ d.next = c.next /\ d.left = l /\ IsCall(d)
  <2>1. IsCall(c) /\ IsSeq(l) /\ d = [c EXCEPT !.left = l]
    BY <1>1, <1>4, <1>6, <1>7, Zenon
  <2>. QED
    BY <2>1, PlanChanges
<1>9. call' = [call EXCEPT ![a] = IF l = <<>> THEN Idle ELSE d]
  BY <1>1, <1>4, <1>7, <1>8 DEF BranchOnGold, Settle
<1>10. /\ call'["loop"] = IF l = <<>> THEN Idle ELSE d
       /\ call'["job"] = call["job"] /\ c = call["loop"]
  BY <1>1, <1>3, <1>4, <1>9 DEF IInv, Typed, Actors
<1>11. Now' = Now
  BY <1>1 DEF Now, StoryOf
<1>12. Contented'
  <2>1. <<"save", "case">> \notin Elements(g)
    BY <1>5
  <2>2. ASSUME l # <<>>, ~ Done(d, "save", "case") PROVE d.next \in Contents
    <3>1. ~ Done(c, "save", "case")
      BY <1>5, <1>6, <1>8, <2>1, <2>2 DEF Done, Plan
    <3>. QED
      BY <1>8, <1>10, <3>1 DEF Contented, Actors
  <2>3. Done(Idle, "save", "case")
    BY IdleIsCall DEF Done, Plan
  <2>. QED
    BY <1>1, <1>10, <2>2, <2>3 DEF Contented, Actors, Busy
<1>13. ASSUME undisturbed
       PROVE  /\ ~ JobWrites' /\ (l = <<>> => Story(Now'))
              /\ l # <<>> => Leads(d, l, Now')
  <2>1. Leads(c, c.left, Now) /\ ~ JobWrites
    BY <1>1, <1>3, <1>4, <1>13 DEF Told
  <2>2. ASSUME NEW y, Reaches(c, g, Now, y) PROVE Leads(c, t, y)
    <3>1. Does(c, "branch", "gold", Now, y)
      BY <1>3, <1>4, <2>2, GoldReaches
    <3>. QED
      BY <1>1, <1>4, <2>1, <3>1, TailLeads
  <2>3. ASSUME NEW i \in DOMAIN g PROVE g[i][1] \notin {"check", "ask"}
    <3>1. g[i] \in {"open", "review", "revise", "turn down"} \X Kinds
      BY <1>5 DEF Elements
    <3>. QED
      BY <3>1
  <2>4. Leads(c, l, Now)
    BY <1>4, <1>5, <2>2, <2>3, ConcatLeads
  <2>5. Leads(d, l, Now)
    BY <1>8, <2>4, SameCallLeads
  <2>6. l = <<>> => Story(Now)
    BY <1>6, <2>4, RestingLeads DEF Rests
  <2>7. ~ JobWrites'
    BY <1>10, <2>1 DEF JobWrites, Busy, Asking
  <2>. QED
    BY <1>11, <2>5, <2>6, <2>7
<1>14. Told'
  <2>1. SUFFICES ASSUME undisturbed
                 PROVE  /\ ~ (Busy("loop") /\ JobWrites)'
                        /\ Quiet' => Story(Now')
                        /\ Busy("loop")' => Leads(call'["loop"], call'["loop"].left, Now')
                        /\ JobWrites' => Leads(call'["job"], call'["job"].left, Now')
    BY <1>1 DEF Told
  <2>2. CASE l = <<>>
    <3>1. ~ Busy("loop")'
      BY <1>10, <2>2, IdleRests DEF Busy
    <3>. QED
      BY <1>13, <2>1, <2>2, <3>1
  <2>3. CASE l # <<>>
    <3>1. Busy("loop")' /\ call'["loop"] = d /\ d.left = l
      BY <1>8, <1>10, <2>3 DEF Busy
    <3>. QED
      BY <1>13, <2>1, <2>3, <3>1 DEF Quiet
  <2>. QED
    BY <2>2, <2>3
<1>. QED
  BY <1>12, <1>14

(* Nothing happens to the story. *)
LEMMA RemainingTells ==
    ASSUME Contented, Told, UNCHANGED <<hist, candidate, approvedCase, undisturbed, call>>
    PROVE  Contented' /\ Told'
<1>1. Now' = Now
  BY DEF Now, StoryOf
<1>2. Contented'
  BY DEF Contented, Busy
<1>3. Told'
  BY <1>1 DEF Told, Busy, JobWrites, Asking, Quiet
<1>. QED
  BY <1>2, <1>3

(* A crash cuts every call short; what it finds at rest stays a story. *)
LEMMA CrashTells ==
    ASSUME Contented, Told, Crash
    PROVE  Contented' /\ Told'
<1>1. \A a \in Actors : call'[a] = Idle
  BY DEF Crash
<1>2. UNCHANGED <<hist, candidate, approvedCase>>
  BY DEF Crash, ledgerVars, fileVars
<1>3. Contented'
  BY <1>1, <1>2, EndingTells
<1>4. Now' = Now
  BY <1>2 DEF Now, StoryOf
<1>5. undisturbed' => undisturbed /\ Quiet
  BY DEF Crash, Quiet
<1>6. ~ Busy("loop")' /\ ~ JobWrites'
  BY <1>1, IdleRests DEF Busy, JobWrites, Actors
<1>7. Told'
  BY <1>4, <1>5, <1>6 DEF Told
<1>. QED
  BY <1>3, <1>7

-----------------------------------------------------------------------------
(* Where the handlers' plans lead. *)

(* A plan of no steps leads nowhere, ... *)
LEMMA EmptyReaches ==
    ASSUME NEW c, NEW x, NEW y, Reaches(c, <<>>, x, y)
    PROVE  y = x
BY DEF Reaches

(* ... a plan of one step where that step does, ...                        *)
LEMMA SingleReaches ==
    ASSUME NEW c, NEW n, NEW k, NEW x, NEW y, Reaches(c, <<<<n, k>>>>, x, y)
    PROVE  Does(c, n, k, x, y)
BY DEF Reaches, Runs

(* ... and a plan in two parts from where the first part leads.            *)
LEMMA ConcatReaches ==
    ASSUME NEW c, NEW s, NEW t, IsSeq(s), IsSeq(t), NEW x, NEW z, Reaches(c, s \o t, x, z)
    PROVE  \E y : Reaches(c, s, x, y) /\ Reaches(c, t, y, z)
<1>. DEFINE l == s \o t
<1>1. /\ Len(s) \in Nat /\ Len(t) \in Nat /\ Len(l) = Len(s) + Len(t)
      /\ \A i \in 1 .. Len(s) : l[i] = s[i]
      /\ \A i \in 1 .. Len(t) : l[Len(s) + i] = t[i]
  <2>1. PICK S : s \in Seq(S) /\ t \in Seq(S)
    <3>1. s \in Seq(Elements(s) \cup Elements(t)) /\ t \in Seq(Elements(s) \cup Elements(t))
      BY SeqMonotonic DEF IsSeq
    <3>. QED
      BY <3>1
  <2>2. /\ Len(l) = Len(s) + Len(t) /\ Len(s) \in Nat /\ Len(t) \in Nat
        /\ \A i \in 1 .. Len(s) + Len(t) : l[i] = IF i <= Len(s) THEN s[i] ELSE t[i - Len(s)]
    BY <2>1, ConcatProperties, LenProperties
  <2>. HIDE DEF l
  <2>3. ASSUME NEW i \in 1 .. Len(t) PROVE l[Len(s) + i] = t[i]
    <3>1. Len(s) + i \in 1 .. Len(s) + Len(t) /\ ~ (Len(s) + i <= Len(s)) /\ (Len(s) + i) - Len(s) = i
      BY <2>2
    <3>. QED
      BY <2>2, <3>1
  <2>. QED
    BY <2>2, <2>3
<1>2. PICK r : Runs(c, l, r, Len(l)) /\ r[1] = x /\ r[Len(l) + 1] = z
  BY DEF Reaches
<1>. HIDE DEF l
<1>3. Reaches(c, s, x, r[Len(s) + 1])
  <2>1. Runs(c, s, r, Len(s))
    BY <1>1, <1>2 DEF Runs
  <2>. QED
    BY <1>2, <2>1 DEF Reaches
<1>. DEFINE q == [i \in 1 .. (Len(t) + 1) |-> r[Len(s) + i]]
<1>4. \A i \in 1 .. (Len(t) + 1) : q[i] = r[Len(s) + i]
  OBVIOUS
<1>. HIDE DEF q
<1>5. ASSUME NEW i \in 1 .. Len(t) PROVE Does(c, t[i][1], t[i][2], q[i], q[i + 1])
  <2>1. /\ Len(s) + i \in 1 .. Len(l) /\ i \in 1 .. (Len(t) + 1) /\ i + 1 \in 1 .. (Len(t) + 1)
        /\ (Len(s) + i) + 1 = Len(s) + (i + 1)
    BY <1>1
  <2>2. Does(c, l[Len(s) + i][1], l[Len(s) + i][2], r[Len(s) + i], r[(Len(s) + i) + 1])
    BY <1>2, <2>1 DEF Runs
  <2>. QED
    BY <1>1, <1>4, <2>1, <2>2
<1>6. /\ 1 \in 1 .. (Len(t) + 1) /\ Len(t) + 1 \in 1 .. (Len(t) + 1)
      /\ Len(s) + (Len(t) + 1) = Len(l) + 1
  BY <1>1
<1>7. Runs(c, t, q, Len(t)) /\ q[1] = r[Len(s) + 1] /\ q[Len(t) + 1] = z
  BY <1>2, <1>4, <1>5, <1>6 DEF Runs
<1>8. Reaches(c, t, r[Len(s) + 1], z)
  BY <1>7 DEF Reaches
<1>. QED
  BY <1>3, <1>8

(* A plan without a place to rest leads where it reaches. *)
LEMMA PlainLeads ==
    ASSUME NEW c, NEW l, IsSeq(l), NEW x, \A p \in Elements(l) : p[1] \notin {"check", "ask"},
           \A y : Reaches(c, l, x, y) => Story(y)
    PROVE  Leads(c, l, x)
<1>1. Len(l) \in Nat /\ DOMAIN l = 1 .. Len(l)
  <2>1. PICK S : l \in Seq(S)
    BY DEF IsSeq
  <2>. QED
    BY <2>1, LenProperties
<1>2. SUFFICES ASSUME NEW n \in 0 .. Len(l), NEW r, Runs(c, l, r, n), r[1] = x, Rests(l, n)
               PROVE  Story(r[n + 1])
  BY DEF Leads
<1>3. n = Len(l)
  <2>1. SUFFICES ASSUME n # Len(l) PROVE FALSE
    OBVIOUS
  <2>2. n + 1 \in DOMAIN l
    <3>1. PICK m : m = Len(l)
      OBVIOUS
    <3>2. m \in Nat /\ n \in 0 .. m /\ n # m
      BY <1>1, <2>1, <3>1
    <3>3. n + 1 \in 1 .. m
      BY <3>2
    <3>. QED
      BY <1>1, <3>1, <3>3
  <2>. QED
    BY <1>2, <2>1, <2>2 DEF Rests, Elements
<1>4. Reaches(c, l, x, r[n + 1])
  BY <1>2, <1>3 DEF Reaches
<1>. QED
  BY <1>4

(* What a change of one part leaves, part by part. *)
LEMMA PartsAre ==
    ASSUME NEW x, NEW y
    PROVE  /\ Same(x, y) => y.cand = x.cand /\ y.filed = x.filed /\ y.case = x.case /\ y.gold = x.gold
           /\ Keeps(x, y, "cand") => y.case = x.case /\ y.gold = x.gold
           /\ Keeps(x, y, "filed") => y.cand = x.cand /\ y.case = x.case /\ y.gold = x.gold
BY DEF Same, Keeps, Parts

(* What a revision of the Case or of the Gold leaves. *)
LEMMA WritesAre ==
    ASSUME NEW x, NEW y, NEW life, NEW text
    PROVE  /\ Writes(x, y, "case", life, text) =>
                 /\ y.case.here /\ y.case.life = life /\ y.case.text = text
                 /\ y.cand = x.cand /\ y.gold = x.gold
           /\ Writes(x, y, "gold", life, text) =>
                 /\ y.gold.here /\ y.gold.life = life /\ y.gold.text = text
                 /\ y.cand = x.cand /\ y.case = x.case
BY DEF Keeps, Writes, Parts

(* What each step makes of the story, part by part: files and drafts, ... *)
LEMMA DraftsSay ==
    ASSUME NEW c, NEW x, NEW y
    PROVE  /\ Does(c, "save", "case", x, y) => y.cand = c.next /\ y.case = x.case /\ y.gold = x.gold
           /\ Does(c, "file", "case", x, y) => y.cand = x.cand /\ y.case = x.case /\ y.gold = x.gold
           /\ Does(c, "create", "case", x, y) =>
                 /\ ~ x.case.here /\ y.case.here /\ y.case.life = "draft" /\ y.case.text = c.next.q
                 /\ y.cand = x.cand /\ y.gold = x.gold
           /\ Does(c, "revise", "case", x, y) =>
                 /\ y.case.here /\ y.case.life = "draft" /\ y.case.text = c.next.q
                 /\ y.cand = x.cand /\ y.gold = x.gold
           /\ Does(c, "revise", "gold", x, y) =>
                 /\ y.gold.here /\ y.gold.life = "draft" /\ y.gold.text = c.next.a
                 /\ y.cand = x.cand /\ y.case = x.case
<1>1. Does(c, "save", "case", x, y) => Keeps(x, y, "cand") /\ y.cand = c.next
  BY DEF Does
<1>2. Does(c, "file", "case", x, y) => Keeps(x, y, "filed")
  BY DEF Does
<1>3. Does(c, "create", "case", x, y) => ~ x.case.here /\ Writes(x, y, "case", "draft", c.next.q)
  BY DEF Does
<1>4. Does(c, "revise", "case", x, y) => Writes(x, y, "case", "draft", c.next.q)
  BY DEF Does, Text
<1>5. Does(c, "revise", "gold", x, y) => Writes(x, y, "gold", "draft", c.next.a)
  BY DEF Does, Text
<1>. QED
  BY <1>1, <1>2, <1>3, <1>4, <1>5, PartsAre, WritesAre

(* ... the lifecycles of the Case, ... *)
LEMMA CasesSay ==
    ASSUME NEW c, NEW x, NEW y, x.case.here
    PROVE  /\ Does(c, "open", "case", x, y) =>
                 y.case.here /\ y.case.text = x.case.text /\ y.cand = x.cand /\ y.gold = x.gold
           /\ Does(c, "submit", "case", x, y) =>
                 /\ y.case.here /\ y.case.text = x.case.text /\ y.cand = x.cand /\ y.gold = x.gold
                 /\ y.case.life = IF x.case.life \in {"draft", "rejected"} THEN "proposed" ELSE x.case.life
           /\ Does(c, "propose", "case", x, y) =>
                 /\ y.case.here /\ y.case.text = x.case.text /\ y.cand = x.cand /\ y.gold = x.gold
                 /\ y.case.life = "proposed"
           /\ Does(c, "mark", "case", x, y) =>
                 y.case.here /\ y.case.text = x.case.text /\ y.cand = x.cand /\ y.gold = x.gold
           /\ Does(c, "promote", "case", x, y) =>
                 /\ y.case.here /\ y.case.text = x.case.text /\ y.cand = x.cand /\ y.gold = x.gold
                 /\ y.case.life = "approved"
           /\ Does(c, "freeze", "case", x, y) =>
                 /\ y.case.here /\ y.case.text = x.case.text /\ y.cand = x.cand /\ y.gold = x.gold
                 /\ y.case.life \in {x.case.life, "approved"}
<1>1. Does(c, "open", "case", x, y) => Same(x, y) \/ Writes(x, y, "case", "proposed", x.case.text)
  BY DEF Does
<1>2. Does(c, "submit", "case", x, y) =>
         IF x.case.life \in {"draft", "rejected"} THEN Writes(x, y, "case", "proposed", x.case.text)
         ELSE Same(x, y)
  BY DEF Does
<1>3. Does(c, "propose", "case", x, y) => Writes(x, y, "case", "proposed", x.case.text)
  BY DEF Does
<1>4. Does(c, "mark", "case", x, y) => Writes(x, y, "case", "reviewed", x.case.text)
  BY DEF Does
<1>5. Does(c, "promote", "case", x, y) => Writes(x, y, "case", "approved", x.case.text)
  BY DEF Does
<1>6. Does(c, "freeze", "case", x, y) => Same(x, y) \/ Writes(x, y, "case", "approved", x.case.text)
  BY DEF Does
<1>. QED
  BY <1>1, <1>2, <1>3, <1>4, <1>5, <1>6, PartsAre, WritesAre

(* ... a Case turned down, ... *)
LEMMA RejectionSays ==
    \A c, x, y : x.case.here /\ Does(c, "turn down", "case", x, y) =>
                     Writes(x, y, "case", "rejected", x.case.text)
<1>. SUFFICES ASSUME NEW c, NEW x, NEW y
              PROVE  x.case.here /\ Does(c, "turn down", "case", x, y) =>
                        Writes(x, y, "case", "rejected", x.case.text)
  BY Zenon
<1>. QED
  BY DEF Does

(* ... and those of the Gold, ... *)
LEMMA GoldsSay ==
    ASSUME NEW c, NEW x, NEW y
    PROVE  /\ x.gold.here =>
                 /\ \A name \in {"propose", "mark", "promote", "freeze"} :
                       Does(c, name, "gold", x, y) =>
                          /\ y.gold.here /\ y.gold.text = x.gold.text
                          /\ y.cand = x.cand /\ y.case = x.case
                 /\ Does(c, "propose", "gold", x, y) => y.gold.life = "proposed"
                 /\ Does(c, "promote", "gold", x, y) => y.gold.life = "approved"
                 /\ Does(c, "freeze", "gold", x, y) => y.gold.life \in {x.gold.life, "approved"}
           /\ Does(c, "branch", "gold", x, y) /\ c.op = "edit" =>
                 /\ y.gold.here /\ y.gold.life = "draft" /\ y.gold.text = c.next.a
                 /\ y.cand = x.cand /\ y.case = x.case
           /\ Does(c, "branch", "gold", x, y) /\ c.op = "reject" =>
                 /\ y.cand = x.cand /\ y.case = x.case
                 /\ IF x.gold.here /\ x.gold.life \in {"draft", "proposed", "reviewed"}
                    THEN y.gold.here /\ y.gold.life = "rejected" /\ y.gold.text = x.gold.text
                    ELSE y.gold = x.gold
<1>1. x.gold.here =>
         /\ Does(c, "propose", "gold", x, y) => Writes(x, y, "gold", "proposed", x.gold.text)
         /\ Does(c, "mark", "gold", x, y) => Writes(x, y, "gold", "reviewed", x.gold.text)
         /\ Does(c, "promote", "gold", x, y) => Writes(x, y, "gold", "approved", x.gold.text)
         /\ Does(c, "freeze", "gold", x, y) => Same(x, y) \/ Writes(x, y, "gold", "approved", x.gold.text)
  BY DEF Does
<1>2. Does(c, "branch", "gold", x, y) =>
         IF c.op = "edit" THEN Writes(x, y, "gold", "draft", c.next.a)
         ELSE IF x.gold.here /\ x.gold.life \in {"draft", "proposed", "reviewed"}
              THEN Writes(x, y, "gold", "rejected", x.gold.text) ELSE Same(x, y)
  BY DEF Does
<1>. QED
  BY <1>1, <1>2, PartsAre, WritesAre

(* ... and the steps that no story shows. *)
LEMMA SilenceSays ==
    ASSUME NEW c, NEW k, NEW x, NEW y
    PROVE  /\ \A name \in Silent \cup {"ask"} : Does(c, name, k, x, y) => Same(x, y)
           /\ Does(c, "check", k, x, y) => Same(x, y) /\ x.gold.here
           /\ Does(c, "select", k, x, y) =>
                 /\ Same(x, y) /\ x.case.here /\ x.case.life = "approved"
                 /\ x.gold.here /\ x.gold.life = "approved"
BY DEF Does, Kinds

(* A story with the same parts holds together when the other does. *)
LEMMA SameStory ==
    ASSUME NEW x, NEW y, Same(x, y), Story(x)
    PROVE  Story(y)
BY PartsAre DEF Story

(* The stories between the steps of a plan of two steps, ... *)
LEMMA TwoReaches ==
    ASSUME NEW c, NEW m, NEW n, NEW i, NEW j, NEW x, NEW y, Reaches(c, <<<<m, i>>, <<n, j>>>>, x, y)
    PROVE  \E u : Does(c, m, i, x, u) /\ Does(c, n, j, u, y)
<1>1. PICK l : l = <<<<m, i>>, <<n, j>>>>
  OBVIOUS
<1>2. Len(l) = 2 /\ l[1] = <<m, i>> /\ l[2] = <<n, j>>
  BY <1>1
<1>3. PICK r : Runs(c, l, r, Len(l)) /\ r[1] = x /\ r[Len(l) + 1] = y
  BY <1>1 DEF Reaches
<1>4. Does(c, m, i, r[1], r[2]) /\ Does(c, n, j, r[2], r[3])
  BY <1>2, <1>3 DEF Runs
<1>5. r[1] = x /\ r[3] = y
  BY <1>2, <1>3
<1>. QED
  BY <1>4, <1>5

(* ... of three, ... *)
LEMMA ThreeReaches ==
    ASSUME NEW c, NEW m, NEW n, NEW o, NEW i, NEW j, NEW k, NEW x, NEW y,
           Reaches(c, <<<<m, i>>, <<n, j>>, <<o, k>>>>, x, y)
    PROVE  \E u, v : Does(c, m, i, x, u) /\ Does(c, n, j, u, v) /\ Does(c, o, k, v, y)
<1>1. PICK l : l = <<<<m, i>>, <<n, j>>, <<o, k>>>>
  OBVIOUS
<1>2. Len(l) = 3 /\ l[1] = <<m, i>> /\ l[2] = <<n, j>> /\ l[3] = <<o, k>>
  BY <1>1
<1>3. PICK r : Runs(c, l, r, Len(l)) /\ r[1] = x /\ r[Len(l) + 1] = y
  BY <1>1 DEF Reaches
<1>4. Does(c, m, i, r[1], r[2]) /\ Does(c, n, j, r[2], r[3]) /\ Does(c, o, k, r[3], r[4])
  BY <1>2, <1>3 DEF Runs
<1>5. r[1] = x /\ r[4] = y
  BY <1>2, <1>3
<1>. QED
  BY <1>4, <1>5

(* ... of four, ... *)
LEMMA FourReaches ==
    ASSUME NEW c, NEW m, NEW n, NEW o, NEW p, NEW i, NEW j, NEW k, NEW h, NEW x, NEW y,
           Reaches(c, <<<<m, i>>, <<n, j>>, <<o, k>>, <<p, h>>>>, x, y)
    PROVE  \E u, v, w : /\ Does(c, m, i, x, u) /\ Does(c, n, j, u, v)
                        /\ Does(c, o, k, v, w) /\ Does(c, p, h, w, y)
<1>1. PICK l : l = <<<<m, i>>, <<n, j>>, <<o, k>>, <<p, h>>>>
  OBVIOUS
<1>2. Len(l) = 4 /\ l[1] = <<m, i>> /\ l[2] = <<n, j>> /\ l[3] = <<o, k>> /\ l[4] = <<p, h>>
  BY <1>1
<1>3. PICK r : Runs(c, l, r, Len(l)) /\ r[1] = x /\ r[Len(l) + 1] = y
  BY <1>1 DEF Reaches
<1>4. /\ Does(c, m, i, r[1], r[2]) /\ Does(c, n, j, r[2], r[3])
      /\ Does(c, o, k, r[3], r[4]) /\ Does(c, p, h, r[4], r[5])
  BY <1>2, <1>3 DEF Runs
<1>5. r[1] = x /\ r[5] = y
  BY <1>2, <1>3
<1>. QED
  BY <1>4, <1>5

(* ... and of five. *)
LEMMA FiveReaches ==
    ASSUME NEW c, NEW m, NEW n, NEW o, NEW p, NEW q, NEW i, NEW j, NEW k, NEW h, NEW g, NEW x, NEW y,
           Reaches(c, <<<<m, i>>, <<n, j>>, <<o, k>>, <<p, h>>, <<q, g>>>>, x, y)
    PROVE  \E u, v, w, z : /\ Does(c, m, i, x, u) /\ Does(c, n, j, u, v)
                           /\ Does(c, o, k, v, w) /\ Does(c, p, h, w, z) /\ Does(c, q, g, z, y)
<1>1. PICK l : l = <<<<m, i>>, <<n, j>>, <<o, k>>, <<p, h>>, <<q, g>>>>
  OBVIOUS
<1>2. /\ Len(l) = 5 /\ l[1] = <<m, i>> /\ l[2] = <<n, j>> /\ l[3] = <<o, k>> /\ l[4] = <<p, h>>
      /\ l[5] = <<q, g>>
  BY <1>1
<1>3. PICK r : Runs(c, l, r, Len(l)) /\ r[1] = x /\ r[Len(l) + 1] = y
  BY <1>1 DEF Reaches
<1>4. /\ Does(c, m, i, r[1], r[2]) /\ Does(c, n, j, r[2], r[3])
      /\ Does(c, o, k, r[3], r[4]) /\ Does(c, p, h, r[4], r[5]) /\ Does(c, q, g, r[5], r[6])
  BY <1>2, <1>3 DEF Runs
<1>5. r[1] = x /\ r[6] = y
  BY <1>2, <1>3
<1>. QED
  BY <1>4, <1>5

(* One kind of artifact projected. *)
LEMMA ImportReaches ==
    ASSUME NEW d, NEW k \in Kinds, NEW kept, kept = LegacyLifecycle(d.read.state), kept # "frozen",
           NEW x, NEW y, Reaches(d, ImportPlan(kept, k), x, y)
    PROVE  Writes(x, y, k, kept, Text(k, d.read))
<1>1. PICK s, t : s = <<<<"import", k>>>> /\ t = IF kept = "draft" THEN <<>> ELSE <<<<"adopt", k>>>>
  OBVIOUS
<1>2. IsSeq(s) /\ IsSeq(t) /\ ImportPlan(kept, k) = s \o t
  BY <1>1, NoPlan, SinglePlan DEF ImportPlan
<1>3. PICK w : Reaches(d, s, x, w) /\ Reaches(d, t, w, y)
  BY <1>2, ConcatReaches
<1>4. Does(d, "import", k, x, w)
  BY <1>1, <1>3, SingleReaches
<1>5. Writes(x, w, k, "draft", Text(k, d.read))
  BY <1>4 DEF Does
<1>6. CASE kept = "draft"
  BY <1>1, <1>3, <1>5, <1>6, EmptyReaches
<1>7. CASE kept # "draft"
  <2>1. Does(d, "adopt", k, w, y)
    BY <1>1, <1>3, <1>7, SingleReaches
  <2>2. w[k].here /\ w[k].text = Text(k, d.read) /\ Counts(kept) = kept
    BY <1>5 DEF Writes, Counts
  <2>3. Writes(w, y, k, Counts(kept), w[k].text)
    BY <2>1, <2>2 DEF Does
  <2>. QED
    BY <1>5, <2>2, <2>3 DEF Writes, Keeps
<1>. QED
  BY <1>6, <1>7

(* The lifecycle a candidate is projected with goes with its state. *)
LEMMA LegacyLives ==
    ASSUME NEW state \in CandidateStates
    PROVE  /\ LegacyLifecycle(state) # "frozen"
           /\ LegacyLifecycle(state) \in CaseLives(state) /\ LegacyLifecycle(state) \in GoldLives(state)
BY DEF CandidateStates, LegacyLifecycle, CaseLives, GoldLives

(* A candidate, or an approved case, projected on the ledger tells the     *)
(* story the file tells.                                                   *)
LEMMA ProjectedTells ==
    ASSUME Story(Now), NEW d, NEW c, d.read = c,
           hist["case"] = <<>> => /\ candidate # Nothing /\ c.q = candidate.q
                                  /\ c.a = candidate.a /\ c.state = candidate.state,
           NEW y, Reaches(d, ProjectionSteps(c), Now, y)
    PROVE  Story(y) /\ y.case.here /\ y.cand = candidate
<1>1. /\ Now.cand = candidate /\ Now.case = Now["case"] /\ Now.gold = Now["gold"]
      /\ "case" \in Kinds /\ "gold" \in Kinds
  BY StoryParts DEF Now, Kinds
<1>2. CASE hist["case"] # <<>>
  <2>1. ProjectionSteps(c) = <<>>
    BY <1>2 DEF ProjectionSteps
  <2>2. y = Now
    BY <2>1, EmptyReaches
  <2>. QED
    BY <1>1, <1>2, <2>2, HereIs
<1>3. CASE hist["case"] = <<>>
  <2>1. PICK kept : kept = LegacyLifecycle(c.state)
    OBVIOUS
  <2>2. PICK u, v : /\ u = ImportPlan(kept, "case")
                    /\ v = IF c.a = NoAnswer THEN <<>> ELSE ImportPlan(kept, "gold")
    OBVIOUS
  <2>3. ProjectionSteps(c) = u \o v
    BY <1>3, <2>1, <2>2 DEF ProjectionSteps, ImportPlan
  <2>4. IsSeq(u) /\ IsSeq(v)
    BY <1>1, <2>2, NoPlan, ImportPlans
  <2>5. PICK w : Reaches(d, u, Now, w) /\ Reaches(d, v, w, y)
    BY <2>3, <2>4, ConcatReaches
  <2>6. candidate \in Contents /\ candidate.state \in CandidateStates /\ candidate # Nothing
    BY <1>1, <1>3 DEF Story, Contents
  <2>7. /\ kept # "frozen" /\ kept \in CaseLives(candidate.state) /\ kept \in GoldLives(candidate.state)
        /\ kept = LegacyLifecycle(d.read.state)
    BY <1>3, <2>1, <2>6, LegacyLives
  <2>8. Writes(Now, w, "case", kept, Text("case", d.read))
    BY <1>1, <2>2, <2>5, <2>7, ImportReaches
  <2>9. /\ w.cand = candidate /\ w.gold = Now.gold
        /\ w.case.here /\ w.case.life = kept /\ w.case.text = candidate.q
    BY <1>1, <1>3, <2>8, WritesAre DEF Text
  <2>10. ~ Now.gold.here
    BY <1>1, <1>3, HereIs DEF Story
  <2>11. CASE c.a = NoAnswer
    <3>1. y = w
      BY <2>2, <2>5, <2>11, EmptyReaches
    <3>. QED
      BY <1>3, <2>6, <2>7, <2>9, <2>10, <2>11, <3>1 DEF Story
  <2>12. CASE c.a # NoAnswer
    <3>1. Writes(w, y, "gold", kept, Text("gold", d.read))
      BY <1>1, <2>2, <2>5, <2>7, <2>12, ImportReaches
    <3>2. /\ y.cand = candidate /\ y.case = w.case
          /\ y.gold.here /\ y.gold.life = kept /\ y.gold.text = candidate.a
      BY <1>3, <2>9, <3>1, WritesAre DEF Text
    <3>. QED
      BY <1>3, <2>6, <2>7, <2>9, <2>12, <3>2 DEF Story
  <2>. QED
    BY <2>11, <2>12
<1>. QED
  BY <1>2, <1>3

(* A plan that begins with the projection leads where the rest does from   *)
(* the story that the file tells.                                          *)
LEMMA ProjectedLeads ==
    ASSUME Story(Now), NEW d, NEW c, d.read = c,
           hist["case"] = <<>> => /\ candidate # Nothing /\ c.q = candidate.q
                                  /\ c.a = candidate.a /\ c.state = candidate.state,
           NEW t, IsSeq(t),
           \A y : Story(y) /\ y.case.here /\ y.cand = candidate => Leads(d, t, y)
    PROVE  Leads(d, ProjectionSteps(c) \o t, Now)
<1>1. PICK s : s = ProjectionSteps(c)
  OBVIOUS
<1>2. IsSeq(s) /\ Elements(s) \subseteq Projections
  BY <1>1, ProjectionPlan
<1>3. ASSUME NEW i \in DOMAIN s PROVE s[i][1] \notin {"check", "ask"}
  <2>1. s[i] \in Projections
    BY <1>2 DEF Elements
  <2>. QED
    BY <2>1, ProjectionNames
<1>4. ASSUME NEW y, Reaches(d, s, Now, y) PROVE Leads(d, t, y)
  <2>1. Story(y) /\ y.case.here /\ y.cand = candidate
    BY <1>1, <1>4, ProjectedTells
  <2>. QED
    BY <2>1
<1>. QED
  BY <1>1, <1>2, <1>3, <1>4, ConcatLeads

(* A handler with nothing to do leaves the story as it is. *)
LEMMA EmptyLeads ==
    ASSUME NEW c, NEW x, Story(x)
    PROVE  Leads(c, <<>>, x)
<1>1. \A y : Reaches(c, <<>>, x, y) => Story(y)
  BY EmptyReaches
<1>. QED
  BY <1>1, NoPlan, PlainLeads

(* A question created. *)
LEMMA CreateReaches ==
    ASSUME NEW d, NEW q \in Questions, d.next = Draft(q), NEW x, Story(x), NEW y,
           Reaches(d, CreateSteps, x, y)
    PROVE  Story(y)
<1>1. PICK u, v : /\ Does(d, "save", "case", x, u) /\ Does(d, "create", "case", u, v)
                  /\ Does(d, "advance", "case", v, y)
  BY ThreeReaches DEF CreateSteps
<1>2. u.cand = Draft(q) /\ u.case = x.case /\ u.gold = x.gold
  BY <1>1, DraftsSay
<1>3. /\ ~ u.case.here /\ v.case.here /\ v.case.life = "draft" /\ v.case.text = q
      /\ v.cand = u.cand /\ v.gold = u.gold
  BY <1>1, DraftsSay DEF Draft
<1>4. y.cand = v.cand /\ y.case = v.case /\ y.gold = v.gold
  BY <1>1, SilenceSays, PartsAre DEF Silent
<1>5. ~ x.gold.here
  BY <1>2, <1>3 DEF Story
<1>6. Draft(q) \in Contents /\ Draft(q).q = q /\ Draft(q).a = NoAnswer /\ Draft(q).state = "draft"
  BY DEF Draft, Contents, CandidateStates
<1>. QED
  BY <1>2, <1>3, <1>4, <1>5, <1>6 DEF Story, CaseLives

(* ... by a handler, or by a job that then asks for the answer. *)
LEMMA CreateLeads ==
    ASSUME NEW d, NEW q \in Questions, d.next = Draft(q), NEW x, Story(x)
    PROVE  Leads(d, CreateSteps, x) /\ Leads(d, CreateSteps \o <<<<"ask", "case">>>>, x)
<1>1. PICK s, t : s = CreateSteps /\ t = <<<<"ask", "case">>>>
  OBVIOUS
<1>2. /\ IsSeq(s) /\ Elements(s) = {<<"save", "case">>, <<"create", "case">>, <<"advance", "case">>}
      /\ IsSeq(t) /\ Len(t) = 1 /\ t[1] = <<"ask", "case">>
  BY <1>1, CreatePlan, SinglePlan
<1>3. \A p \in Elements(s) : p[1] \notin {"check", "ask"}
  BY <1>2
<1>4. \A y : Reaches(d, s, x, y) => Story(y)
  BY <1>1, CreateReaches
<1>5. ASSUME NEW y, Story(y) PROVE Leads(d, t, y)
  <2>1. SUFFICES ASSUME NEW n \in 0 .. 1, NEW r, Runs(d, t, r, n), r[1] = y PROVE Story(r[n + 1])
    BY <1>2 DEF Leads
  <2>2. CASE n = 0
    BY <1>5, <2>1, <2>2
  <2>3. CASE n = 1
    <3>1. Does(d, "ask", "case", r[1], r[2])
      BY <1>2, <2>1, <2>3 DEF Runs
    <3>2. Same(y, r[2])
      BY <2>1, <3>1, SilenceSays
    <3>. QED
      BY <1>5, <2>3, <3>2, SameStory
  <2>. QED
    BY <2>2, <2>3
<1>6. Leads(d, s, x)
  BY <1>2, <1>3, <1>4, PlainLeads
<1>7. \A i \in DOMAIN s : s[i][1] \notin {"check", "ask"}
  BY <1>3 DEF Elements
<1>8. Leads(d, s \o t, x)
  BY <1>2, <1>4, <1>5, <1>7, ConcatLeads
<1>. QED
  BY <1>1, <1>6, <1>8

(* What the gates make of an answer. *)
LEMMA GatedIs ==
    ASSUME NEW q \in Questions, NEW a \in Answers, NEW next \in Gated(q, a)
    PROVE  /\ next \in Contents /\ next.q = q /\ next.a = a /\ next.a # NoAnswer
           /\ next.state \in {"review_required", "blocked"}
BY ContentsAssumption DEF Gated, Contents, CandidateStates

(* A question answered. *)
LEMMA ResolveLeads ==
    ASSUME NEW d, NEW x, Story(x), x.case.here, x.cand # Nothing,
           x.cand.state \notin {"approved", "rejected"},
           NEW a \in Answers, NEW next \in Gated(x.cand.q, a), d.next = next
    PROVE  Leads(d, ResolveSteps(next), x)
<1>1. /\ x.cand \in Contents /\ x.cand.q \in Questions
      /\ x.cand.state \in {"draft", "blocked", "review_required"}
      /\ x.case.text = x.cand.q /\ x.case.life \in CaseLives(x.cand.state)
  BY DEF Story, Contents, CandidateStates
<1>2. /\ next \in Contents /\ next.q = x.cand.q /\ next.a = a /\ next.a # NoAnswer
      /\ next.state \in {"review_required", "blocked"}
  BY <1>1, GatedIs
<1>3. x.case.life \in {"draft", "proposed"}
  BY <1>1 DEF CaseLives
<1>4. /\ IsSeq(ResolveSteps(next))
      /\ \A p \in Elements(ResolveSteps(next)) : p[1] \notin {"check", "ask"}
  <2>1. \A p \in JobSteps \ {<<"create", "case">>, <<"ask", "case">>} : p[1] \notin {"check", "ask"}
    BY DEF JobSteps
  <2>. QED
    BY <2>1, ResolvePlan
<1>5. ASSUME NEW y, Reaches(d, ResolveSteps(next), x, y) PROVE Story(y)
  <2>1. CASE next.state = "review_required"
    <3>1. Reaches(d, <<<<"save", "case">>, <<"submit", "case">>, <<"revise", "gold">>,
                       <<"propose", "gold">>, <<"advance", "case">>>>, x, y)
      BY <1>5, <2>1 DEF ResolveSteps
    <3>2. PICK u, v, w, z : /\ Does(d, "save", "case", x, u) /\ Does(d, "submit", "case", u, v)
                            /\ Does(d, "revise", "gold", v, w) /\ Does(d, "propose", "gold", w, z)
                            /\ Does(d, "advance", "case", z, y)
      BY <3>1, FiveReaches
    <3>3. u.cand = next /\ u.case = x.case
      BY <3>2, DraftsSay
    <3>4. /\ v.case.here /\ v.case.text = x.case.text /\ v.cand = u.cand
          /\ v.case.life = "proposed"
      BY <1>3, <3>2, <3>3, CasesSay
    <3>5. w.gold.here /\ w.gold.text = a /\ w.cand = v.cand /\ w.case = v.case
      BY <1>2, <3>2, DraftsSay
    <3>6. /\ z.gold.here /\ z.gold.text = a /\ z.cand = v.cand /\ z.case = v.case
          /\ z.gold.life = "proposed"
      BY <3>2, <3>5, GoldsSay
    <3>7. y.cand = z.cand /\ y.case = z.case /\ y.gold = z.gold
      BY <3>2, SilenceSays, PartsAre DEF Silent
    <3>. QED
      BY <1>1, <1>2, <2>1, <3>3, <3>4, <3>6, <3>7 DEF Story, CaseLives, GoldLives
  <2>2. CASE next.state = "blocked"
    <3>1. Reaches(d, <<<<"save", "case">>, <<"hold", "case">>, <<"revise", "gold">>,
                       <<"advance", "case">>>>, x, y)
      BY <1>2, <1>5, <2>2 DEF ResolveSteps
    <3>2. PICK u, v, w : /\ Does(d, "save", "case", x, u) /\ Does(d, "hold", "case", u, v)
                         /\ Does(d, "revise", "gold", v, w) /\ Does(d, "advance", "case", w, y)
      BY <3>1, FourReaches
    <3>3. u.cand = next /\ u.case = x.case
      BY <3>2, DraftsSay
    <3>4. v.cand = u.cand /\ v.case = u.case
      BY <3>2, SilenceSays, PartsAre DEF Silent
    <3>5. /\ w.gold.here /\ w.gold.text = a /\ w.gold.life = "draft"
          /\ w.cand = v.cand /\ w.case = v.case
      BY <1>2, <3>2, DraftsSay
    <3>6. y.cand = w.cand /\ y.case = w.case /\ y.gold = w.gold
      BY <3>2, SilenceSays, PartsAre DEF Silent
    <3>. QED
      BY <1>1, <1>2, <1>3, <2>2, <3>3, <3>4, <3>5, <3>6 DEF Story, CaseLives, GoldLives
  <2>. QED
    BY <1>2, <2>1, <2>2
<1>. QED
  BY <1>4, <1>5, PlainLeads

(* The steps of an acceptance, one by one; it may rest only before its checks. *)
LEMMA AcceptRuns ==
    /\ AcceptSteps[1] = <<"check", "case">> /\ AcceptSteps[2] = <<"review", "case">>
    /\ AcceptSteps[3] = <<"review", "gold">> /\ AcceptSteps[4] = <<"mark", "case">>
    /\ AcceptSteps[5] = <<"mark", "gold">> /\ AcceptSteps[6] = <<"approve", "case">>
    /\ AcceptSteps[7] = <<"promote", "case">> /\ AcceptSteps[8] = <<"approve", "gold">>
    /\ AcceptSteps[9] = <<"promote", "gold">> /\ AcceptSteps[10] = <<"save", "case">>
    /\ AcceptSteps[11] = <<"file", "case">> /\ AcceptSteps[12] = <<"advance", "case">>
    /\ \A n \in 0 .. 12 : Rests(AcceptSteps, n) => n = 0 \/ n = 12
<1>1. /\ AcceptSteps[1] = <<"check", "case">> /\ AcceptSteps[2] = <<"review", "case">>
      /\ AcceptSteps[3] = <<"review", "gold">> /\ AcceptSteps[4] = <<"mark", "case">>
      /\ AcceptSteps[5] = <<"mark", "gold">> /\ AcceptSteps[6] = <<"approve", "case">>
  BY DEF AcceptSteps
<1>2. /\ AcceptSteps[7] = <<"promote", "case">> /\ AcceptSteps[8] = <<"approve", "gold">>
      /\ AcceptSteps[9] = <<"promote", "gold">> /\ AcceptSteps[10] = <<"save", "case">>
      /\ AcceptSteps[11] = <<"file", "case">> /\ AcceptSteps[12] = <<"advance", "case">>
  BY DEF AcceptSteps
<1>3. \A i \in 2 .. 12 : AcceptSteps[i][1] \notin {"check", "ask"}
  <2>1. \A i \in {2, 3, 4, 5, 6, 7} : AcceptSteps[i][1] \notin {"check", "ask"}
    BY <1>1, <1>2
  <2>2. \A i \in {8, 9, 10, 11, 12} : AcceptSteps[i][1] \notin {"check", "ask"}
    BY <1>1, <1>2
  <2>3. \A i \in 2 .. 12 : i \in {2, 3, 4, 5, 6, 7} \/ i \in {8, 9, 10, 11, 12}
    OBVIOUS
  <2>. QED
    BY <2>1, <2>2, <2>3
<1>4. ASSUME NEW n \in 0 .. 12, Rests(AcceptSteps, n), n # 0, n # 12
      PROVE  FALSE
  <2>1. n + 1 \in 2 .. 12
    BY <1>4
  <2>2. AcceptSteps[n + 1][1] \in {"check", "ask"}
    BY <1>4, AcceptPlan DEF Rests
  <2>. QED
    BY <1>3, <2>1, <2>2
<1>. QED
  BY <1>1, <1>2, <1>4

(* A question accepted, or found not to be acceptable. *)
LEMMA AcceptLeads ==
    ASSUME NEW d, NEW x, Story(x), x.case.here, x.cand # Nothing,
           x.cand.state = "review_required",
           d.next = [x.cand EXCEPT !.state = "approved"]
    PROVE  Leads(d, AcceptSteps, x)
<1>1. /\ x.cand \in Contents /\ x.case.text = x.cand.q
      /\ x.gold.here <=> x.cand.a # NoAnswer
      /\ x.gold.here => x.gold.text = x.cand.a
  BY DEF Story
<1>2. /\ d.next \in Contents /\ d.next.q = x.cand.q /\ d.next.a = x.cand.a
      /\ d.next.state = "approved"
  BY <1>1 DEF Contents, CandidateStates
<1>3. SUFFICES ASSUME NEW n \in 0 .. 12, NEW r, Runs(d, AcceptSteps, r, n), r[1] = x, Rests(AcceptSteps, n)
               PROVE  Story(r[n + 1])
  BY AcceptPlan DEF Leads
<1>4. CASE n = 0
  BY <1>3, <1>4
<1>5. CASE n = 12
  <2>1. \A i \in 1 .. 12 : Does(d, AcceptSteps[i][1], AcceptSteps[i][2], r[i], r[i + 1])
    BY <1>3, <1>5 DEF Runs
  <2>2. /\ Does(d, "check", "case", r[1], r[2]) /\ Does(d, "review", "case", r[2], r[3])
        /\ Does(d, "review", "gold", r[3], r[4])
    BY <2>1, AcceptRuns
  <2>3. /\ Does(d, "mark", "case", r[4], r[5]) /\ Does(d, "mark", "gold", r[5], r[6])
        /\ Does(d, "approve", "case", r[6], r[7])
    BY <2>1, AcceptRuns
  <2>4. /\ Does(d, "promote", "case", r[7], r[8]) /\ Does(d, "approve", "gold", r[8], r[9])
        /\ Does(d, "promote", "gold", r[9], r[10])
    BY <2>1, AcceptRuns
  <2>5. /\ Does(d, "save", "case", r[10], r[11]) /\ Does(d, "file", "case", r[11], r[12])
        /\ Does(d, "advance", "case", r[12], r[13])
    BY <2>1, AcceptRuns
  <2>6. Same(r[1], r[2]) /\ r[1].gold.here /\ Same(r[2], r[3]) /\ Same(r[3], r[4])
    BY <2>2, SilenceSays DEF Silent
  <2>7. r[4].case = x.case /\ r[4].gold = x.gold /\ x.gold.here
    BY <1>3, <2>6, PartsAre
  <2>8. /\ r[5].case.here /\ r[5].case.text = x.case.text /\ r[5].gold = x.gold
    BY <2>3, <2>7, CasesSay
  <2>9. /\ r[6].case = r[5].case /\ r[6].gold.here /\ r[6].gold.text = x.gold.text
    BY <2>3, <2>7, <2>8, GoldsSay
  <2>10. r[7].case = r[6].case /\ r[7].gold = r[6].gold
    BY <2>3, SilenceSays, PartsAre DEF Silent
  <2>11. /\ r[8].case.here /\ r[8].case.text = x.case.text /\ r[8].case.life = "approved"
         /\ r[8].gold = r[6].gold
    BY <2>4, <2>8, <2>9, <2>10, CasesSay
  <2>12. r[9].case = r[8].case /\ r[9].gold = r[8].gold
    BY <2>4, SilenceSays, PartsAre DEF Silent
  <2>13. /\ r[10].case = r[8].case /\ r[10].gold.here /\ r[10].gold.text = x.gold.text
         /\ r[10].gold.life = "approved"
    BY <2>4, <2>9, <2>11, <2>12, GoldsSay
  <2>14. /\ r[11].cand = d.next /\ r[11].case = r[10].case /\ r[11].gold = r[10].gold
         /\ r[12].cand = r[11].cand /\ r[12].case = r[11].case /\ r[12].gold = r[11].gold
    BY <2>5, DraftsSay
  <2>15. r[13].cand = r[12].cand /\ r[13].case = r[12].case /\ r[13].gold = r[12].gold
    BY <2>5, SilenceSays, PartsAre DEF Silent
  <2>16. Story(r[13])
    BY <1>1, <1>2, <2>7, <2>11, <2>13, <2>14, <2>15 DEF Story, CaseLives, GoldLives
  <2>. QED
    BY <1>5, <2>16
<1>. QED
  BY <1>3, <1>4, <1>5, AcceptRuns

(* The steps of a rejection, with what the third makes of the Case. *)
LEMMA RejectRuns ==
    ASSUME NEW d, NEW x, NEW y, Reaches(d, RejectSteps, x, y)
    PROVE  \E u, v, w, z :
              /\ Does(d, "open", "case", x, u) /\ Does(d, "review", "case", u, v)
              /\ v.case.here => Writes(v, w, "case", "rejected", v.case.text)
              /\ Does(d, "branch", "gold", w, z) /\ Does(d, "save", "case", z, y)
<1>1. PICK m, n, o, p, q, k, g : /\ m = "open" /\ n = "review" /\ o = "turn down" /\ p = "branch"
                                 /\ q = "save" /\ k = "case" /\ g = "gold"
  OBVIOUS
<1>2. Reaches(d, <<<<m, k>>, <<n, k>>, <<o, k>>, <<p, g>>, <<q, k>>>>, x, y)
  BY <1>1, Zenon DEF RejectSteps
<1>3. PICK u, v, w, z : /\ Does(d, m, k, x, u) /\ Does(d, n, k, u, v)
                        /\ Does(d, o, k, v, w) /\ Does(d, p, g, w, z) /\ Does(d, q, k, z, y)
  BY <1>2, FiveReaches
<1>4. Does(d, "turn down", "case", v, w)
  BY <1>1, <1>3, Zenon
<1>5. v.case.here => Writes(v, w, "case", "rejected", v.case.text)
  BY <1>4, RejectionSays, Zenon
<1>6. /\ Does(d, "open", "case", x, u) /\ Does(d, "review", "case", u, v)
      /\ Does(d, "branch", "gold", w, z) /\ Does(d, "save", "case", z, y)
  BY <1>1, <1>3, Zenon
<1>. QED
  BY <1>5, <1>6

(* A question rejected. *)
LEMMA RejectLeads ==
    ASSUME NEW d, d.op = "reject", NEW x, Story(x), x.case.here, x.cand # Nothing,
           x.cand.state # "approved",
           d.next = [x.cand EXCEPT !.state = "rejected"]
    PROVE  Leads(d, RejectSteps, x)
<1>1. /\ x.cand \in Contents /\ x.case.text = x.cand.q
      /\ x.gold.here <=> x.cand.a # NoAnswer
      /\ x.gold.here => x.gold.text = x.cand.a /\ x.gold.life \in GoldLives(x.cand.state)
      /\ x.cand.state \in {"draft", "review_required", "rejected", "blocked"}
  BY DEF Story, Contents, CandidateStates
<1>2. /\ d.next \in Contents /\ d.next.q = x.cand.q /\ d.next.a = x.cand.a
      /\ d.next.state = "rejected"
  BY <1>1 DEF Contents, CandidateStates
<1>3. IsSeq(RejectSteps) /\ \A p \in Elements(RejectSteps) : p[1] \notin {"check", "ask"}
  <2>1. \A p \in Drafting : p[1] \notin {"check", "ask"}
    BY DEF Drafting, DecisionSteps
  <2>. QED
    BY <2>1, RejectPlan
<1>4. ASSUME NEW y, Reaches(d, RejectSteps, x, y) PROVE Story(y)
  <2>1. PICK u, v, w, z :
           /\ Does(d, "open", "case", x, u) /\ Does(d, "review", "case", u, v)
           /\ v.case.here => Writes(v, w, "case", "rejected", v.case.text)
           /\ Does(d, "branch", "gold", w, z) /\ Does(d, "save", "case", z, y)
    BY <1>4, RejectRuns
  <2>2. Does(d, "open", "case", x, u) /\ Does(d, "review", "case", u, v)
    BY <2>1
  <2>3. u.case.here /\ u.case.text = x.case.text /\ u.gold = x.gold
    BY <2>2, CasesSay
  <2>4. v.case = u.case /\ v.gold = u.gold
    BY <2>2, SilenceSays, PartsAre DEF Silent
  <2>5. w.case.here /\ w.case.text = v.case.text /\ w.gold = v.gold /\ w.case.life = "rejected"
    BY <2>1, <2>3, <2>4, WritesAre
  <2>6. Does(d, "branch", "gold", w, z) /\ Does(d, "save", "case", z, y)
    BY <2>1
  <2>7. /\ z.case = w.case
        /\ IF w.gold.here /\ w.gold.life \in {"draft", "proposed", "reviewed"}
           THEN z.gold.here /\ z.gold.life = "rejected" /\ z.gold.text = w.gold.text
           ELSE z.gold = w.gold
    BY <2>6, GoldsSay
  <2>8. y.cand = d.next /\ y.case = z.case /\ y.gold = z.gold
    BY <2>6, DraftsSay
  <2>9. x.gold.here => x.gold.life \in {"draft", "proposed", "rejected"}
    BY <1>1 DEF GoldLives, CaseLives
  <2>10. (z.gold.here <=> x.gold.here) /\ (z.gold.here => z.gold.text = x.gold.text /\ z.gold.life = "rejected")
    BY <2>3, <2>4, <2>5, <2>7, <2>9
  <2>. QED
    BY <1>1, <1>2, <2>3, <2>4, <2>5, <2>7, <2>8, <2>10 DEF Story, CaseLives, GoldLives
<1>. QED
  BY <1>3, <1>4, PlainLeads

(* An answer edited along with the question is one of the candidate. *)
EditedTo(c, next) ==
    /\ next \in Contents /\ next.state \in {"draft", "review_required", "blocked"}
    /\ next.a = NoAnswer => c.a = NoAnswer /\ next.state = "draft"
    /\ next.a # NoAnswer => next.state # "draft"

(* What an edit makes of a candidate. *)
LEMMA EditIs ==
    ASSUME NEW c, NEW q \in Questions, NEW a \in Answers \cup {NoAnswer}, a = NoAnswer => c.a = NoAnswer,
           NEW next \in IF a = NoAnswer THEN {Draft(q)} ELSE Gated(q, a)
    PROVE  EditedTo(c, next)
<1>1. CASE a = NoAnswer
  <2>1. next = Draft(q)
    BY <1>1
  <2>2. next \in Contents /\ next.a = NoAnswer /\ next.state = "draft"
    BY <2>1 DEF Draft, Contents, CandidateStates
  <2>. QED
    BY <1>1, <2>2 DEF EditedTo
<1>2. CASE a # NoAnswer
  BY <1>2, GatedIs DEF EditedTo
<1>. QED
  BY <1>1, <1>2

(* A question edited. *)
LEMMA EditLeads ==
    ASSUME NEW d, d.op = "edit", NEW x, Story(x), x.case.here, x.cand # Nothing,
           NEW next, EditedTo(x.cand, next), d.next = next
    PROVE  Leads(d, EditSteps(next), x)
<1>1. PICK s, t, u : /\ s = <<<<"save", "case">>, <<"open", "case">>, <<"review", "case">>, <<"revise", "case">>>>
                     /\ t = IF next.a = NoAnswer THEN <<>> ELSE <<<<"branch", "gold">>>>
                     /\ u = IF next.state # "review_required" THEN <<>>
                            ELSE <<<<"propose", "case">>, <<"propose", "gold">>>>
  OBVIOUS
<1>2. EditSteps(next) = (s \o t) \o u
  BY <1>1 DEF EditSteps
<1>3. IsSeq(s) /\ IsSeq(t) /\ IsSeq(u) /\ IsSeq(s \o t)
  <2>1. ASSUME NEW S, NEW f \in S, NEW g \in S, NEW h \in S, NEW k \in S
        PROVE  <<f, g>> \in Seq(S) /\ <<f, g, h, k>> \in Seq(S)
    OBVIOUS
  <2>2. IsSeq(s)
    <3>1. PICK S : S = {<<"save", "case">>, <<"open", "case">>, <<"review", "case">>, <<"revise", "case">>}
      OBVIOUS
    <3>2. s \in Seq(S)
      BY <1>1, <2>1, <3>1
    <3>. QED
      BY <3>2, SeqIsSeq
  <2>3. IsSeq(t)
    BY <1>1, NoPlan, SinglePlan
  <2>4. IsSeq(u)
    <3>1. PICK S : S = {<<"propose", "case">>, <<"propose", "gold">>}
      OBVIOUS
    <3>2. <<<<"propose", "case">>, <<"propose", "gold">>>> \in Seq(S)
      BY <2>1, <3>1
    <3>. QED
      BY <1>1, <3>2, NoPlan, SeqIsSeq
  <2>. QED
    BY <2>2, <2>3, <2>4, ConcatHolds
<1>4. IsSeq(EditSteps(next)) /\ \A p \in Elements(EditSteps(next)) : p[1] \notin {"check", "ask"}
  <2>1. \A p \in Drafting : p[1] \notin {"check", "ask"}
    BY DEF Drafting, DecisionSteps
  <2>. QED
    BY <2>1, EditPlan
<1>5. /\ next \in Contents /\ next.state \in {"draft", "review_required", "blocked"}
      /\ next.a = NoAnswer => ~ x.gold.here /\ next.state = "draft"
      /\ next.a # NoAnswer => next.state # "draft"
  BY DEF EditedTo, Story
<1>6. ASSUME NEW y, Reaches(d, EditSteps(next), x, y) PROVE Story(y)
  <2>1. PICK w : Reaches(d, s \o t, x, w) /\ Reaches(d, u, w, y)
    BY <1>2, <1>3, <1>6, ConcatReaches
  <2>2. PICK v : Reaches(d, s, x, v) /\ Reaches(d, t, v, w)
    BY <1>3, <2>1, ConcatReaches
  <2>3. PICK e, f, g : /\ Does(d, "save", "case", x, e) /\ Does(d, "open", "case", e, f)
                       /\ Does(d, "review", "case", f, g) /\ Does(d, "revise", "case", g, v)
    <3>1. Reaches(d, <<<<"save", "case">>, <<"open", "case">>, <<"review", "case">>, <<"revise", "case">>>>, x, v)
      BY <1>1, <2>2
    <3>. QED
      BY <3>1, FourReaches
  <2>4. e.cand = next /\ e.case = x.case /\ e.gold = x.gold
    BY <2>3, DraftsSay
  <2>5. f.cand = e.cand /\ f.gold = e.gold
    BY <2>3, <2>4, CasesSay
  <2>6. g.cand = f.cand /\ g.gold = f.gold
    BY <2>3, SilenceSays, PartsAre DEF Silent
  <2>7. /\ v.case.here /\ v.case.life = "draft" /\ v.case.text = next.q
        /\ v.cand = next /\ v.gold = x.gold
    BY <2>3, <2>4, <2>5, <2>6, DraftsSay
  <2>8. /\ w.case = v.case /\ w.cand = next
        /\ next.a = NoAnswer => w.gold = x.gold
        /\ next.a # NoAnswer => w.gold.here /\ w.gold.life = "draft" /\ w.gold.text = next.a
    <3>1. CASE next.a = NoAnswer
      BY <1>1, <2>2, <2>7, <3>1, EmptyReaches
    <3>2. CASE next.a # NoAnswer
      <4>1. Does(d, "branch", "gold", v, w)
        BY <1>1, <2>2, <3>2, SingleReaches
      <4>. QED
        BY <2>7, <3>2, <4>1, GoldsSay
    <3>. QED
      BY <3>1, <3>2
  <2>9. CASE next.state # "review_required"
    <3>1. y = w
      BY <1>1, <2>1, <2>9, EmptyReaches
    <3>. QED
      BY <1>5, <2>7, <2>8, <2>9, <3>1 DEF Story, CaseLives, GoldLives
  <2>10. CASE next.state = "review_required"
    <3>1. PICK z : Does(d, "propose", "case", w, z) /\ Does(d, "propose", "gold", z, y)
      <4>1. Reaches(d, <<<<"propose", "case">>, <<"propose", "gold">>>>, w, y)
        BY <1>1, <2>1, <2>10
      <4>. QED
        BY <4>1, TwoReaches
    <3>2. /\ z.case.here /\ z.case.text = next.q /\ z.case.life = "proposed"
          /\ z.cand = next /\ z.gold = w.gold
      BY <2>7, <2>8, <3>1, CasesSay
    <3>3. /\ y.gold.here /\ y.gold.text = next.a /\ y.gold.life = "proposed"
          /\ y.cand = next /\ y.case = z.case
      BY <1>5, <2>8, <2>10, <3>1, <3>2, GoldsSay
    <3>. QED
      BY <1>5, <2>10, <3>2, <3>3 DEF Story, CaseLives, GoldLives
  <2>. QED
    BY <2>9, <2>10
<1>. QED
  BY <1>4, <1>6, PlainLeads

(* Freezing what is approved. *)
LEMMA FreezeReaches ==
    ASSUME NEW d, NEW x, Story(x), NEW y, Reaches(d, FreezeSteps, x, y)
    PROVE  Story(y)
<1>1. PICK u, v : /\ Does(d, "select", "case", x, u) /\ Does(d, "freeze", "case", u, v)
                  /\ Does(d, "freeze", "gold", v, y)
  BY ThreeReaches DEF FreezeSteps
<1>2. /\ u.cand = x.cand /\ u.case = x.case /\ u.gold = x.gold
      /\ x.case.here /\ x.case.life = "approved" /\ x.gold.here /\ x.gold.life = "approved"
  BY <1>1, SilenceSays, PartsAre
<1>3. /\ v.case.here /\ v.case.text = x.case.text /\ v.case.life = "approved"
      /\ v.cand = x.cand /\ v.gold = x.gold
  BY <1>1, <1>2, CasesSay
<1>4. /\ y.gold.here /\ y.gold.text = x.gold.text /\ y.gold.life = "approved"
      /\ y.cand = x.cand /\ y.case = v.case
  BY <1>1, <1>2, <1>3, GoldsSay
<1>. QED
  BY <1>2, <1>3, <1>4 DEF Story

(* Steps that no story shows. *)
LEMMA SilentReaches ==
    ASSUME NEW d, NEW m \in Silent, NEW n \in Silent, NEW o \in Silent, NEW k, NEW x, Story(x), NEW y,
           \/ Reaches(d, <<<<m, k>>>>, x, y) \/ Reaches(d, <<<<m, k>>, <<n, k>>>>, x, y)
           \/ Reaches(d, <<<<m, k>>, <<n, k>>, <<o, k>>>>, x, y)
    PROVE  Story(y)
<1>1. \A u, v : /\ Does(d, m, k, u, v) \/ Does(d, n, k, u, v) \/ Does(d, o, k, u, v)
                /\ Story(u)
                => Story(v)
  BY SilenceSays, SameStory
<1>2. CASE Reaches(d, <<<<m, k>>>>, x, y)
  BY <1>1, <1>2, SingleReaches
<1>3. CASE Reaches(d, <<<<m, k>>, <<n, k>>>>, x, y)
  <2>1. PICK u : Does(d, m, k, x, u) /\ Does(d, n, k, u, y)
    BY <1>3, TwoReaches
  <2>. QED
    BY <1>1, <2>1
<1>4. CASE Reaches(d, <<<<m, k>>, <<n, k>>, <<o, k>>>>, x, y)
  <2>1. PICK u, v : Does(d, m, k, x, u) /\ Does(d, n, k, u, v) /\ Does(d, o, k, v, y)
    BY <1>4, ThreeReaches
  <2>. QED
    BY <1>1, <2>1
<1>. QED
  BY <1>2, <1>3, <1>4

(* A release frozen for the export, projected first. *)
LEMMA ExportLeads ==
    ASSUME Story(Now), NEW d, NEW c, d.read = c,
           hist["case"] = <<>> => /\ candidate # Nothing /\ c.q = candidate.q
                                  /\ c.a = candidate.a /\ c.state = candidate.state
    PROVE  Leads(d, (ProjectionSteps(c) \o FreezeSteps) \o <<<<"export", "case">>, <<"advance", "case">>>>, Now)
<1>1. PICK p, f, s, l : /\ p = ProjectionSteps(c) /\ f = FreezeSteps
                        /\ s = <<<<"export", "case">>, <<"advance", "case">>>> /\ l = (p \o f) \o s
  OBVIOUS
<1>2. IsSeq(l) /\ Elements(l) = Elements(p) \cup StepsOf("export") /\ Elements(p) \subseteq Projections
  BY <1>1, ExportPlan, ProjectionPlan
<1>3. IsSeq(p) /\ IsSeq(f) /\ IsSeq(p \o f) /\ IsSeq(s)
  <2>1. IsSeq(p) /\ IsSeq(f) /\ IsSeq(p \o f)
    BY <1>1, ProjectionPlan, FreezePlan, ConcatHolds
  <2>2. IsSeq(s)
    <3>1. s \in Seq({<<"export", "case">>, <<"advance", "case">>})
      BY <1>1
    <3>. QED
      BY <3>1, SeqIsSeq
  <2>. QED
    BY <2>1, <2>2
<1>4. \A e \in Elements(l) : e[1] \notin {"check", "ask"}
  <2>1. \A e \in StepsOf("export") : e[1] \notin {"check", "ask"}
    BY DEF StepsOf, FreezingSteps
  <2>. QED
    BY <1>2, <2>1, ProjectionNames
<1>5. ASSUME NEW y, Reaches(d, l, Now, y) PROVE Story(y)
  <2>1. PICK v : Reaches(d, p \o f, Now, v) /\ Reaches(d, s, v, y)
    BY <1>1, <1>3, <1>5, ConcatReaches
  <2>2. PICK u : Reaches(d, p, Now, u) /\ Reaches(d, f, u, v)
    BY <1>3, <2>1, ConcatReaches
  <2>3. Story(u)
    BY <1>1, <2>2, ProjectedTells
  <2>4. Story(v)
    BY <1>1, <2>2, <2>3, FreezeReaches
  <2>5. "export" \in Silent /\ "advance" \in Silent
    BY DEF Silent
  <2>6. Reaches(d, <<<<"export", "case">>, <<"advance", "case">>>>, v, y)
    BY <1>1, <2>1
  <2>. QED
    BY <2>4, <2>5, <2>6, SilentReaches
<1>6. Leads(d, l, Now)
  BY <1>2, <1>4, <1>5, PlainLeads
<1>. QED
  BY <1>1, <1>6

(* A publication of what is approved, frozen now or before. *)
LEMMA PublishLeads ==
    ASSUME NEW d, NEW x, Story(x)
    PROVE  LET s == <<<<"validate", "case">>, <<"put", "case">>, <<"close", "case">>>>
           IN /\ Leads(d, s, x)
              /\ Leads(d, (FreezeSteps \o <<<<"pin", "case">>>>) \o s, x)
<1>1. PICK f, p, s, l : /\ f = FreezeSteps /\ p = <<<<"pin", "case">>>>
                        /\ s = <<<<"validate", "case">>, <<"put", "case">>, <<"close", "case">>>>
                        /\ l = (f \o p) \o s
  OBVIOUS
<1>2. /\ IsSeq(s) /\ Elements(s) \subseteq StepsOf("publish")
      /\ IsSeq(l) /\ Elements(l) = StepsOf("publish")
  <2>1. /\ IsSeq(s) /\ Elements(s) = {<<"validate", "case">>, <<"put", "case">>, <<"close", "case">>}
        /\ IsSeq(l) /\ Elements(l) = StepsOf("publish")
    BY <1>1, PublishPlan
  <2>. QED
    BY <2>1 DEF StepsOf
<1>3. IsSeq(f) /\ IsSeq(p) /\ IsSeq(f \o p)
  BY <1>1, FreezePlan, SinglePlan, ConcatHolds
<1>4. \A e \in StepsOf("publish") : e[1] \notin {"check", "ask"}
  BY DEF StepsOf, FreezingSteps
<1>5. "validate" \in Silent /\ "put" \in Silent /\ "close" \in Silent /\ "pin" \in Silent
  BY DEF Silent
<1>6. ASSUME NEW v, Story(v), NEW y, Reaches(d, s, v, y) PROVE Story(y)
  <2>1. Reaches(d, <<<<"validate", "case">>, <<"put", "case">>, <<"close", "case">>>>, v, y)
    BY <1>1, <1>6
  <2>. QED
    BY <1>5, <1>6, <2>1, SilentReaches
<1>7. ASSUME NEW y, Reaches(d, l, x, y) PROVE Story(y)
  <2>1. PICK v : Reaches(d, f \o p, x, v) /\ Reaches(d, s, v, y)
    BY <1>1, <1>2, <1>3, <1>7, ConcatReaches
  <2>2. PICK u : Reaches(d, f, x, u) /\ Reaches(d, p, u, v)
    BY <1>3, <2>1, ConcatReaches
  <2>3. Story(u)
    BY <1>1, <2>2, FreezeReaches
  <2>4. Reaches(d, <<<<"pin", "case">>>>, u, v)
    BY <1>1, <2>2
  <2>5. Story(v)
    BY <1>5, <2>3, <2>4, SilentReaches
  <2>. QED
    BY <1>6, <2>1, <2>5
<1>8. Leads(d, s, x)
  BY <1>2, <1>4, <1>6, PlainLeads
<1>9. Leads(d, l, x)
  BY <1>2, <1>4, <1>7, PlainLeads
<1>. QED
  BY <1>1, <1>8, <1>9

-----------------------------------------------------------------------------
(* The story, handler by handler. *)

(* A handler that starts where nothing else writes, and whose plan leads   *)
(* to a story.                                                             *)
LEMMA StartTells ==
    ASSUME Typed, Contented, Told, NEW op, NEW who, NEW read, NEW next, NEW at \in [Kinds -> Nat],
           NEW left, IsSeq(left), Start(op, who, read, next, at, left),
           <<"save", "case">> \in Elements(left) => next \in Contents,
           \A d : Story(Now) /\ d.op = op /\ d.read = read /\ d.next = next => Leads(d, left, Now)
    PROVE  Contented' /\ Told'
<1>1. UNCHANGED <<hist, candidate, approvedCase>>
  BY DEF Start, fileVars, ledgerVars
<1>2. PICK d : /\ d.op = op /\ d.read = read /\ d.next = next /\ d.left = left
               /\ call' = [call EXCEPT !["loop"] = d]
  BY StartIs
<1>3. /\ call'["loop"] = d /\ call'["job"] = call["job"] /\ left # <<>>
      /\ undisturbed' = (undisturbed /\ ~ JobWrites) /\ ~ Busy("loop")
  BY <1>2 DEF Typed, Start, Actors
<1>4. JobWrites' = JobWrites /\ Busy("loop")' /\ Now' = Now
  BY <1>1, <1>2, <1>3 DEF JobWrites, Busy, Asking, Now, StoryOf
<1>5. Contented'
  <2>1. ~ Done(d, "save", "case") => d.next \in Contents
    BY <1>2 DEF Done, Plan
  <2>. QED
    BY <1>1, <1>3, <2>1 DEF Contented, Actors, Busy
<1>6. ASSUME undisturbed' PROVE ~ JobWrites /\ Leads(d, left, Now)
  <2>1. undisturbed /\ ~ JobWrites /\ Quiet
    BY <1>3, <1>6 DEF Quiet
  <2>2. Story(Now)
    BY <2>1 DEF Told
  <2>. QED
    BY <1>2, <2>1, <2>2
<1>7. Told'
  BY <1>2, <1>3, <1>4, <1>6 DEF Told, Quiet
<1>. QED
  BY <1>5, <1>7

(* A question typed in. *)
LEMMA CreateQuestionTells ==
    ASSUME Typed, Contented, Told, NEW q \in Questions, CreateQuestion(q)
    PROVE  Contented' /\ Told'
<1>1. Start("create", Author, Nothing, Draft(q), Origin, CreateSteps) /\ Origin \in [Kinds -> Nat]
  BY OriginIsAt DEF CreateQuestion
<1>2. IsSeq(CreateSteps) /\ Draft(q) \in Contents
  BY CreatePlan DEF Draft, Contents, CandidateStates
<1>3. \A d : Story(Now) /\ d.next = Draft(q) => Leads(d, CreateSteps, Now)
  BY CreateLeads
<1>. QED
  BY <1>1, <1>2, <1>3, StartTells

(* A handler that starts by projecting the candidate. *)
LEMMA ProjectedStartTells ==
    ASSUME Typed, Contented, Told, candidate # Nothing,
           NEW op, NEW who, NEW next, NEW steps, IsSeq(steps),
           Start(op, who, candidate, next, Origin, ProjectionSteps(candidate) \o steps),
           <<"save", "case">> \in Elements(steps) => next \in Contents,
           \A d, y : d.op = op /\ d.next = next /\ Story(y) /\ y.case.here /\ y.cand = candidate
                        => Leads(d, steps, y)
    PROVE  Contented' /\ Told'
<1>1. PICK l : l = ProjectionSteps(candidate) \o steps
  OBVIOUS
<1>2. IsSeq(l) /\ (<<"save", "case">> \in Elements(l) => <<"save", "case">> \in Elements(steps))
  <2>1. IsSeq(l) /\ Elements(l) \subseteq Projections \cup Elements(steps)
    BY <1>1, ProjectedPlan
  <2>2. <<"save", "case">> \notin Projections
    BY DEF Projections
  <2>. QED
    BY <2>1, <2>2
<1>3. ASSUME NEW d, Story(Now), d.op = op, d.read = candidate, d.next = next PROVE Leads(d, l, Now)
  <2>1. \A y : Story(y) /\ y.case.here /\ y.cand = candidate => Leads(d, steps, y)
    BY <1>3
  <2>. QED
    BY <1>1, <1>3, <2>1, ProjectedLeads
<1>4. Start(op, who, candidate, next, Origin, l)
  BY <1>1
<1>. QED
  BY <1>2, <1>3, <1>4, OriginIsAt, StartTells

(* A question answered. *)
LEMMA ResolveTells ==
    ASSUME Typed, Contented, Told, NEW a \in Answers, Resolve(a)
    PROVE  Contented' /\ Told'
<1>1. PICK next \in Gated(candidate.q, a) :
         Start("resolve", Author, candidate, next, Origin,
               ProjectionSteps(candidate) \o
               IF candidate.state \in {"approved", "rejected"} THEN <<>> ELSE ResolveSteps(next))
  BY DEF Resolve
<1>2. PICK steps : steps = IF candidate.state \in {"approved", "rejected"} THEN <<>> ELSE ResolveSteps(next)
  OBVIOUS
<1>3. Start("resolve", Author, candidate, next, Origin, ProjectionSteps(candidate) \o steps)
  BY <1>1, <1>2
<1>4. IsSeq(steps)
  BY <1>2, NoPlan, ResolvePlan
<1>5. candidate # Nothing /\ candidate.q \in Questions /\ next \in Contents
  <2>1. candidate \in Contents /\ candidate # Nothing
    BY DEF Resolve, Contented
  <2>2. candidate.q \in Questions
    BY <2>1 DEF Contents
  <2>. QED
    BY <2>1, <2>2, GatedIs
<1>6. ASSUME NEW d, NEW y, d.next = next, Story(y), y.case.here, y.cand = candidate
      PROVE  Leads(d, steps, y)
  <2>1. CASE candidate.state \in {"approved", "rejected"}
    BY <1>2, <1>6, <2>1, EmptyLeads
  <2>2. CASE candidate.state \notin {"approved", "rejected"}
    BY <1>2, <1>5, <1>6, <2>2, ResolveLeads
  <2>. QED
    BY <2>1, <2>2
<1>. QED
  BY <1>3, <1>4, <1>5, <1>6, ProjectedStartTells

(* A question accepted. *)
LEMMA AcceptTells ==
    ASSUME Typed, Contented, Told, NEW who, Accept(who)
    PROVE  Contented' /\ Told'
<1>1. PICK next, steps :
         /\ next = [candidate EXCEPT !.state = "approved"]
         /\ steps = IF candidate.state # "review_required" THEN <<>> ELSE AcceptSteps
         /\ Start("accept", who, candidate, next, Origin, ProjectionSteps(candidate) \o steps)
  BY DEF Accept
<1>2. candidate \in Contents /\ candidate # Nothing
  BY DEF Accept, Contented
<1>3. next \in Contents
  BY <1>1, <1>2 DEF Contents, CandidateStates
<1>4. IsSeq(steps)
  BY <1>1, NoPlan, AcceptPlan
<1>5. ASSUME NEW d, NEW y, d.next = next, Story(y), y.case.here, y.cand = candidate
      PROVE  Leads(d, steps, y)
  <2>1. CASE candidate.state # "review_required"
    BY <1>1, <1>5, <2>1, EmptyLeads
  <2>2. CASE candidate.state = "review_required"
    BY <1>1, <1>2, <1>5, <2>2, AcceptLeads
  <2>. QED
    BY <2>1, <2>2
<1>. QED
  BY <1>1, <1>2, <1>3, <1>4, <1>5, ProjectedStartTells

(* A question rejected. *)
LEMMA RejectTells ==
    ASSUME Typed, Contented, Told, NEW who, Reject(who)
    PROVE  Contented' /\ Told'
<1>1. PICK next, steps :
         /\ next = [candidate EXCEPT !.state = "rejected"]
         /\ steps = IF candidate.state = "approved" THEN <<>> ELSE RejectSteps
         /\ Start("reject", who, candidate, next, Origin, ProjectionSteps(candidate) \o steps)
  BY DEF Reject
<1>2. candidate \in Contents /\ candidate # Nothing
  BY DEF Reject, Contented
<1>3. next \in Contents
  BY <1>1, <1>2 DEF Contents, CandidateStates
<1>4. IsSeq(steps)
  BY <1>1, NoPlan, RejectPlan
<1>5. ASSUME NEW d, NEW y, d.op = "reject", d.next = next, Story(y), y.case.here, y.cand = candidate
      PROVE  Leads(d, steps, y)
  <2>1. CASE candidate.state = "approved"
    BY <1>1, <1>5, <2>1, EmptyLeads
  <2>2. CASE candidate.state # "approved"
    BY <1>1, <1>2, <1>5, <2>2, RejectLeads
  <2>. QED
    BY <2>1, <2>2
<1>. QED
  BY <1>1, <1>2, <1>3, <1>4, <1>5, ProjectedStartTells

(* A question edited. *)
LEMMA EditTells ==
    ASSUME Typed, Contented, Told, NEW who, NEW q \in Questions, NEW a \in Answers \cup {NoAnswer},
           Edit(who, q, a)
    PROVE  Contented' /\ Told'
<1>1. PICK next \in IF a = NoAnswer THEN {Draft(q)} ELSE Gated(q, a) :
         Start("edit", who, candidate, next, Origin,
               ProjectionSteps(candidate) \o IF candidate.state = "approved" THEN <<>> ELSE EditSteps(next))
  BY DEF Edit
<1>2. PICK steps : steps = IF candidate.state = "approved" THEN <<>> ELSE EditSteps(next)
  OBVIOUS
<1>3. Start("edit", who, candidate, next, Origin, ProjectionSteps(candidate) \o steps)
  BY <1>1, <1>2
<1>4. candidate # Nothing /\ (a = NoAnswer => candidate.a = NoAnswer)
  BY DEF Edit
<1>5. EditedTo(candidate, next) /\ next \in Contents
  BY <1>4, EditIs DEF EditedTo
<1>6. IsSeq(steps)
  BY <1>2, NoPlan, EditPlan
<1>7. ASSUME NEW d, NEW y, d.op = "edit", d.next = next, Story(y), y.case.here, y.cand = candidate
      PROVE  Leads(d, steps, y)
  <2>1. CASE candidate.state = "approved"
    BY <1>2, <1>7, <2>1, EmptyLeads
  <2>2. CASE candidate.state # "approved"
    BY <1>2, <1>4, <1>5, <1>7, <2>2, EditLeads
  <2>. QED
    BY <2>1, <2>2
<1>. QED
  BY <1>3, <1>4, <1>5, <1>6, <1>7, ProjectedStartTells

(* A release exported. *)
LEMMA ExportTells ==
    ASSUME Typed, Contented, Told, Export
    PROVE  Contented' /\ Told'
<1>1. PICK c, l, op :
         /\ c = [q |-> approvedCase.q, a |-> approvedCase.a, state |-> "approved"] /\ op = "export"
         /\ l = (ProjectionSteps(c) \o FreezeSteps) \o <<<<"export", "case">>, <<"advance", "case">>>>
         /\ Start(op, Author, c, c, Origin, l)
  BY DEF Export
<1>2. approvedCase # Nothing /\ c.q = approvedCase.q /\ c.a = approvedCase.a /\ c.state = "approved"
  BY <1>1 DEF Export
<1>3. IsSeq(l) /\ <<"save", "case">> \notin Elements(l)
  <2>1. /\ IsSeq(l) /\ Elements(l) = Elements(ProjectionSteps(c)) \cup StepsOf("export")
        /\ Elements(ProjectionSteps(c)) \subseteq Projections
    BY <1>1, ExportPlan, ProjectionPlan
  <2>2. <<"save", "case">> \notin Projections /\ <<"save", "case">> \notin StepsOf("export")
    BY DEF Projections, StepsOf, FreezingSteps
  <2>. QED
    BY <2>1, <2>2
<1>4. ASSUME NEW d, Story(Now), d.op = op, d.read = c, d.next = c PROVE Leads(d, l, Now)
  <2>1. ASSUME hist["case"] = <<>>
        PROVE  /\ candidate # Nothing /\ c.q = candidate.q
               /\ c.a = candidate.a /\ c.state = candidate.state
    <3>1. ~ Now.case.here /\ Now.filed = approvedCase /\ Now.cand = candidate
      BY <2>1, HereIs, StoryParts DEF Now, Kinds
    <3>. QED
      BY <1>2, <1>4, <3>1 DEF Story
  <2>. QED
    BY <1>1, <1>4, <2>1, ExportLeads
<1>5. \A d : Story(Now) /\ d.op = op /\ d.read = c /\ d.next = c => Leads(d, l, Now)
  BY <1>4
<1>. QED
  BY <1>1, <1>3, <1>5, OriginIsAt, StartTells

(* A release published. *)
LEMMA PublishTells ==
    ASSUME Typed, Contented, Told, Publish
    PROVE  Contented' /\ Told'
<1>1. PICK at, l, op, read :
         /\ at = IF marker = Nothing THEN Origin ELSE marker
         /\ l = (IF marker = Nothing THEN FreezeSteps \o <<<<"pin", "case">>>> ELSE <<>>)
                \o <<<<"validate", "case">>, <<"put", "case">>, <<"close", "case">>>>
         /\ op = "publish" /\ read = Nothing
         /\ Start(op, Author, read, read, at, l)
  BY DEF Publish
<1>2. PICK s : s = <<<<"validate", "case">>, <<"put", "case">>, <<"close", "case">>>>
  OBVIOUS
<1>3. IsSeq(s) /\ Elements(s) \subseteq StepsOf("publish")
  <2>1. IsSeq(s) /\ Elements(s) = {<<"validate", "case">>, <<"put", "case">>, <<"close", "case">>}
    BY <1>2, PublishPlan
  <2>. QED
    BY <2>1 DEF StepsOf
<1>4. l = (FreezeSteps \o <<<<"pin", "case">>>>) \o s \/ l = s
  <2>1. <<>> \o s = s
    <3>1. PICK S : s \in Seq(S)
      BY <1>3 DEF IsSeq
    <3>. QED
      BY <3>1, ConcatEmptySeq
  <2>2. l = (IF marker = Nothing THEN FreezeSteps \o <<<<"pin", "case">>>> ELSE <<>>) \o s
    BY <1>1, <1>2
  <2>. QED
    BY <2>1, <2>2
<1>5. IsSeq(l) /\ <<"save", "case">> \notin Elements(l)
  <2>1. IsSeq(l) /\ Elements(l) \subseteq StepsOf("publish")
    BY <1>2, <1>3, <1>4, PublishPlan
  <2>2. <<"save", "case">> \notin StepsOf("publish")
    BY DEF StepsOf, FreezingSteps
  <2>. QED
    BY <2>1, <2>2
<1>6. \A d : Story(Now) /\ d.op = op /\ d.read = read /\ d.next = read => Leads(d, l, Now)
  BY <1>2, <1>4, PublishLeads
<1>7. at \in [Kinds -> Nat]
  BY <1>1, OriginIsAt DEF Typed
<1>. QED
  BY <1>1, <1>5, <1>6, <1>7, StartTells

(* The generation job creates its question. *)
LEMMA JobCreatesTells ==
    ASSUME Typed, Contented, Told, NEW q \in Questions, JobCreates(q)
    PROVE  Contented' /\ Told'
<1>1. PICK s, t, l : s = CreateSteps /\ t = <<<<"ask", "case">>>> /\ l = s \o t
  OBVIOUS
<1>2. IsSeq(l) /\ Len(l) # 0 /\ Head(l) = <<"save", "case">>
  <2>1. IsSeq(l)
    BY <1>1, CreatePlan
  <2>2. s \in Seq({s[1], s[2], s[3]}) /\ Len(s) = 3 /\ s[1] = <<"save", "case">>
    BY <1>1 DEF CreateSteps
  <2>3. t \in Seq({t[1]}) /\ Len(t) = 1
    BY <1>1
  <2>4. PICK S : s \in Seq(S) /\ t \in Seq(S)
    <3>1. s \in Seq({s[1], s[2], s[3]} \cup {t[1]}) /\ t \in Seq({s[1], s[2], s[3]} \cup {t[1]})
      BY <2>2, <2>3, SeqMonotonic
    <3>. QED
      BY <3>1
  <2>5. /\ Len(s \o t) = Len(s) + Len(t) /\ s \o t \in Seq(S)
        /\ \A i \in 1 .. Len(s) + Len(t) : (s \o t)[i] = IF i <= Len(s) THEN s[i] ELSE t[i - Len(s)]
    BY <2>4, ConcatProperties
  <2>6. Len(l) = 4 /\ l[1] = s[1]
    BY <1>1, <2>2, <2>3, <2>5
  <2>7. l \in Seq(S)
    BY <1>1, <2>5
  <2>. QED
    BY <2>1, <2>2, <2>6, <2>7
<1>3. PICK d : d = [Idle EXCEPT !.op = "resolve", !.next = Draft(q), !.left = l]
  OBVIOUS
<1>4. d.next = Draft(q) /\ d.left = l
  BY <1>2, <1>3, IdleIsCall DEF IsCall, Fields
<1>5. /\ call' = [call EXCEPT !["job"] = d] /\ ~ Busy("loop") /\ ~ Busy("job")
      /\ UNCHANGED <<hist, candidate, approvedCase, undisturbed>>
  BY <1>1, <1>3 DEF JobCreates, ledgerVars, fileVars
<1>6. call'["job"] = d /\ call'["loop"] = call["loop"]
  BY <1>5 DEF Typed, Actors
<1>7. Now' = Now /\ ~ Busy("loop")' /\ Draft(q) \in Contents
  BY <1>5, <1>6 DEF Now, StoryOf, Busy, Draft, Contents, CandidateStates
<1>8. l # <<>> /\ Head(l)[1] # "ask"
  BY <1>2
<1>9. JobWrites' /\ ~ Quiet'
  BY <1>4, <1>6, <1>8 DEF JobWrites, Busy, Asking, Quiet
<1>10. Contented'
  BY <1>2, <1>4, <1>5, <1>6, <1>7 DEF Contented, Actors
<1>11. ASSUME undisturbed PROVE Leads(d, l, Now)
  <2>1. Story(Now)
    BY <1>5, <1>11 DEF Told, Quiet, JobWrites
  <2>. QED
    BY <1>1, <1>4, <2>1, CreateLeads
<1>12. Told'
  BY <1>4, <1>5, <1>6, <1>7, <1>9, <1>11 DEF Told
<1>. QED
  BY <1>10, <1>12

(* The model's answer reaches the job. *)
LEMMA JobAnswersTells ==
    ASSUME Typed, Contented, Told, NEW a \in Answers, JobAnswers(a)
    PROVE  Contented' /\ Told'
<1>1. /\ Asking /\ Busy("job") /\ ~ JobWrites /\ Head(call["job"].left)[1] = "ask"
      /\ UNCHANGED <<hist, candidate, approvedCase>>
  BY DEF JobAnswers, Asking, JobWrites, ledgerVars, fileVars
<1>2. candidate # Nothing /\ candidate \in Contents
  BY <1>1 DEF Contented
<1>3. Now' = Now
  BY <1>1 DEF Now, StoryOf
<1>4. CASE call' = [call EXCEPT !["job"] = Idle] /\ UNCHANGED undisturbed
  <2>1. call'["job"] = Idle /\ call'["loop"] = call["loop"]
    BY <1>4 DEF Typed, Actors
  <2>2. \A b \in Actors : call'[b] = call[b] \/ call'[b] = Idle
    BY <2>1 DEF Actors
  <2>3. Contented'
    BY <1>1, <2>2, EndingTells
  <2>4. ~ JobWrites' /\ Busy("loop")' = Busy("loop")
    BY <2>1, IdleRests DEF JobWrites, Busy
  <2>5. Told'
    BY <1>1, <1>3, <1>4, <2>1, <2>4 DEF Told, Quiet
  <2>. QED
    BY <2>3, <2>5
<1>5. ASSUME candidate.state \notin {"approved", "rejected"}, NEW next \in Gated(candidate.q, a),
             call' = [call EXCEPT !["job"].read = candidate, !["job"].next = next,
                                  !["job"].left = ProjectionSteps(candidate) \o ResolveSteps(next)],
             undisturbed' = (undisturbed /\ ~ Busy("loop"))
      PROVE  Contented' /\ Told'
  <2>1. PICK l : l = ProjectionSteps(candidate) \o ResolveSteps(next)
    OBVIOUS
  <2>2. IsSeq(l)
    BY <2>1, ResolvePlan, ProjectedPlan
  <2>3. PICK c, d : c = call["job"] /\ d = call'["job"]
    OBVIOUS
  <2>4. call'["loop"] = call["loop"] /\ d.read = candidate /\ d.next = next /\ d.left = l
    <3>1. IsCall(c) /\ call = [b \in Actors |-> call[b]]
      BY <2>3 DEF Typed, Actors
    <3>2. d = [c EXCEPT !.read = candidate, !.next = next, !.left = l]
      BY <1>5, <2>1, <2>3, <3>1 DEF Actors
    <3>3. call'["loop"] = call["loop"]
      BY <1>5, <3>1 DEF Actors
    <3>4. d.read = candidate /\ d.next = next /\ d.left = l
      BY <3>1, <3>2 DEF IsCall, Fields
    <3>. QED
      BY <3>3, <3>4
  <2>5. next \in Contents
    BY <1>2, GatedIs DEF Contents
  <2>6. Contented'
    BY <1>1, <1>2, <2>3, <2>4, <2>5 DEF Contented, Actors
  <2>7. ASSUME undisturbed' PROVE Story(Now) /\ Leads(d, l, Now)
    <3>1. undisturbed /\ Quiet
      BY <1>1, <1>5, <2>7 DEF Quiet
    <3>2. Story(Now)
      BY <3>1 DEF Told
    <3>3. \A y : Story(y) /\ y.case.here /\ y.cand = candidate => Leads(d, ResolveSteps(next), y)
      BY <1>2, <1>5, <2>4, ResolveLeads
    <3>4. IsSeq(ResolveSteps(next))
      BY ResolvePlan
    <3>. QED
      BY <1>2, <2>1, <2>4, <3>2, <3>3, <3>4, ProjectedLeads
  <2>8. undisturbed' => ~ Busy("loop")'
    BY <1>5, <2>4 DEF Busy
  <2>9. Told'
    BY <1>3, <2>3, <2>4, <2>7, <2>8 DEF Told
  <2>. QED
    BY <2>6, <2>9
<1>6. candidate.state \in {"approved", "rejected"} =>
         call' = [call EXCEPT !["job"] = Idle] /\ UNCHANGED undisturbed
  BY DEF JobAnswers
<1>. QED
  BY <1>4, <1>5, <1>6 DEF JobAnswers

-----------------------------------------------------------------------------
(* The invariant of the stories. *)

(* Before the first call there is no ledger, and the approved-case file    *)
(* goes with the candidate. *)
LEMMA InitTells ==
    ASSUME Init
    PROVE  Contented /\ Told
<1>1. /\ \A a \in Actors : call[a] = Idle
      /\ hist = [k \in Kinds |-> <<>>]
      /\ candidate # Nothing => candidate \in Contents
  BY LegacyAssumption DEF Init, Contents
<1>2. ~ Busy("loop") /\ ~ Busy("job") /\ ~ JobWrites
  BY <1>1, IdleRests DEF Busy, JobWrites, Actors
<1>3. Contented
  BY <1>1, <1>2, IdleIsCall DEF Contented, Done, Plan
<1>4. ~ Now.case.here /\ ~ Now.gold.here /\ Now.cand = candidate /\ Now.filed = approvedCase
  <2>1. hist["case"] = <<>> /\ hist["gold"] = <<>>
    BY <1>1 DEF Kinds
  <2>2. Now.case = Standing(<<>>) /\ Now.gold = Standing(<<>>)
    BY <2>1 DEF Now, StoryOf
  <2>. QED
    BY <2>2 DEF Standing, Now, StoryOf
<1>5. approvedCase # Nothing => /\ candidate # Nothing /\ candidate.state = "approved"
                                /\ approvedCase.q = candidate.q /\ approvedCase.a = candidate.a
  BY DEF Init
<1>6. Story(Now)
  BY <1>1, <1>4, <1>5 DEF Story
<1>. QED
  BY <1>2, <1>3, <1>6 DEF Told

(* Every handler starts a call whose plan leads to a story. *)
LEMMA HandlerTells ==
    ASSUME IInv, Contented, Told, Handler
    PROVE  Contented' /\ Told'
<1>. USE DEF IInv
<1>1. CASE \E q \in Questions : CreateQuestion(q) \/ JobCreates(q)
  BY <1>1, CreateQuestionTells, JobCreatesTells
<1>2. CASE \E a \in Answers : Resolve(a) \/ JobAnswers(a)
  BY <1>2, ResolveTells, JobAnswersTells
<1>3. CASE (\E who \in Acceptors : Accept(who)) \/ (\E who \in Editors : Reject(who))
  BY <1>3, AcceptTells, RejectTells
<1>4. CASE \E who \in Editors, q \in Questions, a \in Answers \cup {NoAnswer} : Edit(who, q, a)
  BY <1>4, EditTells
<1>5. CASE Export \/ Publish
  BY <1>5, ExportTells, PublishTells
<1>6. CASE ListDatasets
  BY <1>6, RemainingTells DEF ListDatasets, fileVars, ledgerVars
<1>. QED
  BY <1>1, <1>2, <1>3, <1>4, <1>5, <1>6 DEF Handler

(* Every step of a call goes on with its plan. *)
LEMMA CallStepTells ==
    ASSUME IInv, Contented, Told, NEW a \in Actors, CallStep(a)
    PROVE  Contented' /\ Told'
<1>1. Typed
  BY DEF IInv
<1>. QED
  BY <1>1, SaveTells, CreateTells, SubmitTells, CheckTells, BranchTells, FileTells, SelectTells,
     SilentStepsTell DEF CallStep

(* So does every step on the ledger. *)
LEMMA LedgerStepTells ==
    ASSUME IInv, Contented, Told, NEW a \in Actors, NEW k \in Kinds, LedgerStep(a, k)
    PROVE  Contented' /\ Told'
<1>1. Typed
  BY DEF IInv
<1>. QED
  BY <1>1, ImportTells, AdoptTells, OpenTells, ReviseTells, SuccessorTells, SilentStepsTell,
     ProposeTells DEF LedgerStep

(* Every step keeps the invariant. *)
LEMMA StepTells ==
    ASSUME IInv, Contented, Told, [Next]_vars
    PROVE  Contented' /\ Told'
<1>1. CASE UNCHANGED vars
  BY <1>1, RemainingTells DEF vars
<1>. QED
  BY <1>1, HandlerTells, CallStepTells, LedgerStepTells, CrashTells DEF Next

(* Where nothing writes, the story is the one the property tells. *)
LEMMA PromiseOfStory ==
    ASSUME Contented, Told
    PROVE  LedgerFollowsCandidate
<1>1. SUFFICES ASSUME undisturbed, Quiet, candidate # Nothing, hist["case"] # <<>>
               PROVE  /\ Current("case").text = candidate.q
                      /\ Current("case").life \in CaseLives(candidate.state)
                      /\ (hist["gold"] = <<>>) <=> (candidate.a = NoAnswer)
                      /\ hist["gold"] # <<>> =>
                            /\ Current("gold").text = candidate.a
                            /\ Current("gold").life \in GoldLives(candidate.state)
  BY DEF LedgerFollowsCandidate
<1>2. Story(Now) /\ candidate \in Contents /\ Now.cand = candidate
  BY <1>1 DEF Told, Contented, Now, StoryOf
<1>3. \A k \in Kinds : hist[k] # <<>> => /\ Now[k].here /\ Now[k].text = Current(k).text
                                         /\ Now[k].life = Counts(Current(k).life)
  BY HereIs, CurrentIs
<1>4. /\ Now.case.here /\ Now.case.text = Current("case").text
      /\ Now.case.life = Counts(Current("case").life)
      /\ Now.gold.here <=> hist["gold"] # <<>>
  BY <1>1, <1>3, HereIs DEF Kinds
<1>5. hist["gold"] # <<>> => /\ Now.gold.text = Current("gold").text
                             /\ Now.gold.life = Counts(Current("gold").life)
  BY <1>3 DEF Kinds
<1>6. candidate.state \in CandidateStates
  BY <1>2 DEF Contents
<1>7. \A life : /\ Counts(life) \in CaseLives(candidate.state) => life \in CaseLives(candidate.state)
                /\ Counts(life) \in GoldLives(candidate.state) => life \in GoldLives(candidate.state)
  BY <1>6 DEF Counts, CaseLives, GoldLives, CandidateStates
<1>. QED
  BY <1>1, <1>2, <1>4, <1>5, <1>7 DEF Story

(* Between calls that ran one at a time to their end, the candidate file   *)
(* and the authoring ledger tell the same story: project_candidate and the *)
(* handlers of the workflow leave the texts of the candidate in the        *)
(* current Case and Gold, and lifecycles from which the next decision on   *)
(* the candidate is possible (review, resolve_answer_evidence), for every  *)
(* sequence of requests, job answers, failed steps and crashes that leaves *)
(* no call half done.                                                      *)
THEOREM LedgerAgreesWithCandidate ==
    Spec => []LedgerFollowsCandidate
<1>1. Init => IInv /\ Contented /\ Told
  BY InitHolds, InitTells
<1>2. IInv /\ Contented /\ Told /\ [Next]_vars => (IInv /\ Contented /\ Told)'
  BY StepKeeps, StepTells
<1>3. Contented /\ Told => LedgerFollowsCandidate
  BY PromiseOfStory
<1>. QED
  BY <1>1, <1>2, <1>3, PTL DEF Spec
=============================================================================
