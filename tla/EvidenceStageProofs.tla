------------------------- MODULE EvidenceStageProofs -------------------------
(***************************************************************************)
(* Three properties of a document on its way to a score, for every set of  *)
(* paragraphs and rows, every corpus, chunking, Gold and list of items.    *)
(*                                                                         *)
(* CaptionIsAdjacent rests on IInv, an invariant of the scan: the objects  *)
(* of each kind that captions are about are numbered without a gap, so an  *)
(* id that is given out anew is free; every attached caption belongs to    *)
(* its target; below the caption that waits there are only headings that   *)
(* do not end the wait; and nothing that was read lies below the object a  *)
(* caption could still be attached to.  The records are compared by the    *)
(* fields these facts are about (Alike), which associations, downgrades    *)
(* and the end of the pass do not change.                                  *)
(*                                                                         *)
(* MatchedStays rests on Localized: the status of a Gold in the stage is   *)
(* the match of the list returned so far, over an index that no longer     *)
(* changes.  What a match is made of then grows with the list: a matching  *)
(* item stays, the cells of a table only become more, and a piece added to *)
(* a union without gaps leaves none (ConnectedGrows).                      *)
(*                                                                         *)
(* TopologyIsATiling rests on TInv: as long as a table shows no error, its *)
(* logical cells are disjoint and fill every row up to the width that row  *)
(* was found to have, and the columns a row below may continue belong to   *)
(* cells that end in the last row (Laid).  A physical cell keeps this for  *)
(* the row up to the cursor (Placing, PlaceKeeps), and a closed table is   *)
(* never changed again (SameGrids).                                        *)
(***************************************************************************)
EXTENDS EvidenceStage, FiniteSetTheorems, SequenceTheorems, WellFoundedInduction, TLAPS

\* Objects that captions, targets and headings with figures are made of.
Core == {"block", "section", "figure", "equation", "table"}

\* The canonical objects of a type, but for those inside a table.
Numbered(c, type) == {id \in DOMAIN c : id[1] = type /\ Len(id) = 2}

Counted(c) ==
    \A type \in Core : \E n \in Nat : Numbered(c, type) = {<<type, i>> : i \in 1..n}

IsRecord(id, r) ==
    /\ {"type", "status", "body"} \subseteq DOMAIN r
    /\ id[1] = r.type
    /\ r.type = "block" => {"label", "target"} \subseteq DOMAIN r
    /\ r.type \in {"figure", "table"} => "siblings" \in DOMAIN r
    /\ r.type \in {"block", "section", "figure", "equation"} => Len(id) = 2

Shaped(c, n) == \A id \in DOMAIN c : IsRecord(id, c[id]) /\ c[id].body \in 0..n

\* A heading that holds a figure or an equation.
RichHeadingAt(c, n) ==
    \E h, f \in DOMAIN c : /\ c[h].type = "section" /\ c[f].type \in {"figure", "equation"}
                           /\ c[h].body = n /\ c[f].body = n

\* Only such headings lie below an object.
OnlyHeadingsBelow(c, b, n) ==
    \A id \in DOMAIN c : c[b].body < c[id].body /\ c[id].body < n => RichHeadingAt(c, c[id].body)

IsTarget(c, t) == t \in DOMAIN c /\ c[t].type \in {"figure", "table"} /\ Len(t) = 2

Belongs(c, b, t) ==
    /\ IsTarget(c, t)
    /\ Fits(c[b], c[t])
    /\ OnlyHeadingsBelow(c, b, c[t].body)
    /\ \A id \in DOMAIN c : ~ (c[t].body < c[id].body /\ c[id].body < c[b].body)

Attached(c) ==
    \A b \in DOMAIN c : c[b].type = "block" /\ c[b].target # None => Belongs(c, b, c[b].target)

Waits(c, b, n) ==
    b # None => /\ b \in DOMAIN c /\ c[b].type = "block"
                /\ OnlyHeadingsBelow(c, b, n)

IsLast(c, t) ==
    t # None => IsTarget(c, t) /\ \A id \in DOMAIN c : c[id].body <= c[t].body

Scanned(c, n) == Shaped(c, n) /\ Counted(c) /\ Attached(c)

IInv ==
    /\ read \in Nat
    /\ Scanned(cat, read)
    /\ Waits(cat, pending, read + 1)
    /\ IsLast(cat, last)

-----------------------------------------------------------------------------
(* Changes of records that leave what these facts are about. *)

SameObject(r, s) ==
    /\ DOMAIN s = DOMAIN r
    /\ \A f \in DOMAIN r \cap {"type", "body", "label", "siblings"} : s[f] = r[f]

Alike(c, d) == DOMAIN d = DOMAIN c /\ \A id \in DOMAIN c : SameObject(c[id], d[id])

LEMMA AlikeFields ==
    ASSUME NEW c, NEW n, Shaped(c, n), NEW d, Alike(c, d)
    PROVE  /\ DOMAIN d = DOMAIN c
           /\ \A id \in DOMAIN c : d[id].type = c[id].type /\ d[id].body = c[id].body
           /\ \A id \in DOMAIN c : c[id].type = "block" => d[id].label = c[id].label
           /\ \A id \in DOMAIN c : c[id].type \in {"figure", "table"} =>
                 d[id].siblings = c[id].siblings
  BY DEF Shaped, IsRecord, Alike, SameObject

LEMMA AlikeKeeps ==
    ASSUME NEW c, NEW n, Shaped(c, n), Counted(c), NEW d, Alike(c, d)
    PROVE  /\ Shaped(d, n) /\ Counted(d)
           /\ \A m : RichHeadingAt(c, m) => RichHeadingAt(d, m)
           /\ \A b, m : Waits(c, b, m) => Waits(d, b, m)
           /\ \A t : IsLast(c, t) => IsLast(d, t)
           /\ \A t : \A b \in DOMAIN c : c[b].type = "block" /\ Belongs(c, b, t) => Belongs(d, b, t)
<1>. /\ DOMAIN d = DOMAIN c
     /\ \A id \in DOMAIN c : d[id].type = c[id].type /\ d[id].body = c[id].body
     /\ \A id \in DOMAIN c : c[id].type = "block" => d[id].label = c[id].label
     /\ \A id \in DOMAIN c : c[id].type \in {"figure", "table"} =>
           d[id].siblings = c[id].siblings
  BY AlikeFields
<1>1. Shaped(d, n)
  <2>. SUFFICES ASSUME NEW id \in DOMAIN c PROVE IsRecord(id, d[id]) /\ d[id].body \in 0..n
    BY DEF Shaped
  <2>1. IsRecord(id, c[id]) /\ c[id].body \in 0..n
    BY DEF Shaped
  <2>2. DOMAIN d[id] = DOMAIN c[id]
    BY DEF Alike, SameObject
  <2>. QED
    BY <2>1, <2>2 DEF IsRecord
<1>2. Counted(d)
  BY DEF Counted, Numbered
<1>3. \A m : RichHeadingAt(c, m) => RichHeadingAt(d, m)
  BY DEF RichHeadingAt
<1>4. \A m : \A b \in DOMAIN c : OnlyHeadingsBelow(c, b, m) => OnlyHeadingsBelow(d, b, m)
  BY <1>3 DEF OnlyHeadingsBelow
<1>5. \A b, m : Waits(c, b, m) => Waits(d, b, m)
  BY <1>4 DEF Waits
<1>6. \A t : IsTarget(c, t) => IsTarget(d, t)
  BY DEF IsTarget
<1>7. \A t : IsLast(c, t) => IsLast(d, t)
  BY <1>6 DEF IsLast, IsTarget
<1>8. ASSUME NEW b \in DOMAIN c, NEW t, c[b].type = "block", Belongs(c, b, t)
      PROVE  Belongs(d, b, t)
  <2>1. IsTarget(c, t) /\ IsTarget(d, t)
    BY <1>6, <1>8 DEF Belongs
  <2>2. Fits(d[b], d[t])
    BY <1>8, <2>1 DEF Belongs, Fits, IsTarget
  <2>3. OnlyHeadingsBelow(d, b, d[t].body)
    BY <1>4, <1>8, <2>1 DEF Belongs, IsTarget
  <2>. QED
    BY <1>8, <2>1, <2>2, <2>3 DEF Belongs, IsTarget
<1>. QED
  BY <1>1, <1>2, <1>3, <1>5, <1>7, <1>8

LEMMA AlikeIsTransitive ==
    ASSUME NEW c, NEW d, NEW e, Alike(c, d), Alike(d, e)
    PROVE  Alike(c, e)
  BY DEF Alike, SameObject

(* A catalog that is like one and keeps its captions' targets. *)
LEMMA SameTargetsKeep ==
    ASSUME NEW c, NEW n, Scanned(c, n), NEW d, Alike(c, d),
           \A b \in DOMAIN c : c[b].type = "block" => d[b].target = c[b].target
    PROVE  Scanned(d, n)
<1>1. Shaped(d, n) /\ Counted(d)
  BY AlikeKeeps DEF Scanned
<1>2. Attached(d)
  <2>. SUFFICES ASSUME NEW b \in DOMAIN d, d[b].type = "block", d[b].target # None
                PROVE  Belongs(d, b, d[b].target)
    BY DEF Attached
  <2>1. b \in DOMAIN c /\ c[b].type = "block" /\ d[b].target = c[b].target
    BY AlikeFields DEF Scanned
  <2>2. Belongs(c, b, c[b].target)
    BY <2>1 DEF Scanned, Attached
  <2>. QED
    BY <2>1, <2>2, AlikeKeeps DEF Scanned
<1>. QED
  BY <1>1, <1>2 DEF Scanned

LEMMA DowngradedIsAlike ==
    ASSUME NEW c, NEW n, Shaped(c, n), NEW ids
    PROVE  /\ Alike(c, Downgraded(c, ids))
           /\ \A b \in DOMAIN c : c[b].type = "block" =>
                 Downgraded(c, ids)[b].target = c[b].target
<1>. DEFINE d == Downgraded(c, ids)
<1>1. DOMAIN d = DOMAIN c
  BY DEF Downgraded
<1>2. ASSUME NEW id \in DOMAIN c
      PROVE  /\ SameObject(c[id], d[id])
             /\ c[id].type = "block" => d[id].target = c[id].target
  <2>0. c[id].type = "block" => "target" \in DOMAIN c[id]
    BY DEF Shaped, IsRecord
  <2>1. d[id] = IF id \in ids THEN [c[id] EXCEPT !.status = "partial"] ELSE c[id]
    BY DEF Downgraded
  <2>. HIDE DEF d
  <2>2. CASE id \in ids
    <3>1. d[id] = [f \in DOMAIN c[id] |-> IF f = "status" THEN "partial" ELSE c[id][f]]
      BY <2>1, <2>2
    <3>. QED
      BY <2>0, <3>1 DEF SameObject
  <2>3. CASE id \notin ids
    BY <2>1, <2>3 DEF SameObject
  <2>. QED
    BY <2>2, <2>3
<1>. QED
  BY <1>1, <1>2 DEF Alike

LEMMA UnresolvedKeeps ==
    ASSUME NEW c, NEW n, Scanned(c, n)
    PROVE  /\ Scanned(Unresolved(c), n)
           /\ Alike(c, Unresolved(c))
           /\ \A b \in DOMAIN c : c[b].type = "block" =>
                 Unresolved(c)[b].target = c[b].target
<1>1. CASE pending = None
  BY <1>1 DEF Unresolved, Alike, SameObject
<1>2. CASE pending # None
  <2>. DEFINE ids == {pending, <<"text_span", pending[2]>>}
  <2>1. Unresolved(c) = Downgraded(c, ids)
    BY <1>2 DEF Unresolved
  <2>2. /\ Alike(c, Downgraded(c, ids))
        /\ \A b \in DOMAIN c : c[b].type = "block" =>
              Downgraded(c, ids)[b].target = c[b].target
    BY DowngradedIsAlike DEF Scanned
  <2>3. Scanned(Downgraded(c, ids), n)
    BY <2>2, SameTargetsKeep
  <2>. QED
    BY <2>1, <2>2, <2>3
<1>. QED
  BY <1>1, <1>2

(* A caption attached to the object it belongs to. *)
LEMMA AttachKeeps ==
    ASSUME NEW c, NEW n, Scanned(c, n), NEW b \in DOMAIN c, c[b].type = "block",
           NEW t, Belongs(c, b, t)
    PROVE  /\ Scanned(Attach(c, b, t), n)
           /\ Alike(c, Attach(c, b, t))
<1>. DEFINE d == Attach(c, b, t)
            linked == [c EXCEPT ![b].target = t]
<1>1. t \in DOMAIN c /\ c[t].type \in {"figure", "table"} /\ t # b
  BY DEF Belongs, IsTarget
<1>2. /\ DOMAIN linked = DOMAIN c
      /\ \A id \in DOMAIN c : SameObject(c[id], linked[id])
      /\ \A id \in DOMAIN c : id # b => linked[id] = c[id]
      /\ linked[b].target = t
  <2>1. /\ DOMAIN linked = DOMAIN c
        /\ \A id \in DOMAIN c : id # b => linked[id] = c[id]
        /\ linked[b] = [f \in DOMAIN c[b] |-> IF f = "target" THEN t ELSE c[b][f]]
    OBVIOUS
  <2>2. "target" \in DOMAIN c[b]
    BY DEF Scanned, Shaped, IsRecord
  <2>. HIDE DEF linked
  <2>. QED
    BY <2>1, <2>2 DEF SameObject
<1>3. /\ DOMAIN d = DOMAIN c
      /\ \A id \in DOMAIN c : SameObject(c[id], d[id])
      /\ \A id \in DOMAIN c : id # t => d[id] = linked[id]
  <2>1. CASE c[t].type # "figure"
    <3>1. d = linked
      BY <2>1 DEF Attach
    <3>. HIDE DEF d, linked
    <3>. QED
      BY <1>2, <3>1
  <2>2. CASE c[t].type = "figure"
    <3>. DEFINE number == IF c[b].number = None THEN linked[t].number ELSE c[b].number
                numbered == [f \in DOMAIN linked[t] |->
                                IF f = "number" THEN number
                                ELSE IF f = "caption" THEN b ELSE linked[t][f]]
    <3>1. d = [linked EXCEPT ![t].caption = b,
                             ![t].number = IF c[b].number = None THEN @ ELSE c[b].number]
      BY <2>2 DEF Attach
    <3>. HIDE DEF d, linked
    <3>2. /\ DOMAIN d = DOMAIN linked
          /\ \A id \in DOMAIN linked : id # t => d[id] = linked[id]
      BY <3>1
    <3>3. /\ DOMAIN d[t] = DOMAIN linked[t]
          /\ \A f \in DOMAIN linked[t] : f \notin {"caption", "number"} => d[t][f] = linked[t][f]
      BY <1>1, <1>2, <3>1
    <3>4. SameObject(c[t], d[t])
      BY <1>1, <1>2, <3>3 DEF SameObject
    <3>. QED
      BY <1>2, <3>2, <3>4
  <2>. QED
    BY <2>1, <2>2
<1>4. Alike(c, d)
  BY <1>3 DEF Alike
<1>5. d[b].target = t /\ \A id \in DOMAIN c : id \notin {b, t} => d[id].target = c[id].target
  <2>. HIDE DEF d, linked
  <2>. QED
    BY <1>1, <1>2, <1>3
<1>. HIDE DEF d
<1>6. Shaped(d, n) /\ Counted(d)
  BY <1>4, AlikeKeeps DEF Scanned
<1>7. Attached(d)
  <2>. SUFFICES ASSUME NEW a \in DOMAIN d, d[a].type = "block", d[a].target # None
                PROVE  Belongs(d, a, d[a].target)
    BY DEF Attached
  <2>1. a \in DOMAIN c /\ c[a].type = "block" /\ a # t
    BY <1>1, <1>4, AlikeFields DEF Scanned
  <2>2. Belongs(c, a, d[a].target)
    BY <1>5, <2>1 DEF Scanned, Attached
  <2>. QED
    BY <1>4, <2>1, <2>2, AlikeKeeps DEF Scanned
<1>. QED
  BY <1>4, <1>6, <1>7 DEF Scanned, d

(* The end of the pass changes no caption and no body. *)
LEMMA ResolvedKeeps ==
    ASSUME NEW c, NEW n, Scanned(c, n)
    PROVE  /\ Scanned(Resolved(c), n)
           /\ Alike(c, Resolved(c))
<1>. DEFINE d == Resolved(c)
            references == {id \in DOMAIN c : c[id].type = "reference"}
            linked     == {Referred(c, r) : r \in references}
<1>1. /\ DOMAIN d = DOMAIN c
      /\ \A id \in DOMAIN c :
            d[id] = CASE id \in references /\ Referred(c, id) # None ->
                            [c[id] EXCEPT !.target = Referred(c, id), !.status = "supported"]
                      [] c[id].type = "figure" ->
                            [c[id] EXCEPT !.referenced = id \in linked,
                                          !.eligible = /\ c[id].status = "supported"
                                                       /\ c[id].caption # None
                                                       /\ c[id].number # None
                                                       /\ id \in linked]
                      [] OTHER -> c[id]
  BY DEF Resolved
<1>. HIDE DEF d, linked
<1>2. ASSUME NEW id \in DOMAIN c
      PROVE  /\ SameObject(c[id], d[id])
             /\ c[id].type = "block" => d[id] = c[id]
  <2>1. CASE id \in references /\ Referred(c, id) # None
    <3>1. d[id] = [c[id] EXCEPT !.target = Referred(c, id), !.status = "supported"]
      BY <1>1, <2>1
    <3>2. /\ DOMAIN d[id] = DOMAIN c[id]
          /\ \A f \in DOMAIN c[id] : f \notin {"target", "status"} => d[id][f] = c[id][f]
      BY <3>1
    <3>. QED
      BY <2>1, <3>2 DEF SameObject
  <2>2. CASE c[id].type = "figure"
    <3>. DEFINE v == id \in linked
                w == /\ c[id].status = "supported"
                     /\ c[id].caption # None /\ c[id].number # None
                     /\ id \in linked
    <3>0. id \notin references
      BY <2>2
    <3>1. d[id] = [c[id] EXCEPT !.referenced = v, !.eligible = w]
      BY <1>1, <2>2, <3>0
    <3>. HIDE DEF v, w
    <3>2. /\ DOMAIN d[id] = DOMAIN c[id]
          /\ \A f \in DOMAIN c[id] : f \notin {"referenced", "eligible"} => d[id][f] = c[id][f]
      BY <3>1
    <3>. QED
      BY <2>2, <3>2 DEF SameObject
  <2>3. CASE ~ (id \in references /\ Referred(c, id) # None) /\ c[id].type # "figure"
    <3>1. d[id] = c[id]
      BY <1>1, <2>3
    <3>. QED
      BY <3>1 DEF SameObject
  <2>. QED
    BY <2>1, <2>2, <2>3
<1>3. Alike(c, d)
  BY <1>1, <1>2 DEF Alike
<1>4. Scanned(d, n)
  BY <1>2, <1>3, SameTargetsKeep
<1>. QED
  BY <1>3, <1>4 DEF d

-----------------------------------------------------------------------------
(* The records of one more element of the body. *)

IsElement(f, n) ==
    \A id \in DOMAIN f : /\ IsRecord(id, f[id]) /\ f[id].body = n
                         /\ f[id].type = "block" => f[id].target = None

Succeeds(c, f) ==
    \A type \in Core : \E m, k \in Nat :
        /\ Numbered(c, type) = {<<type, i>> : i \in 1..m}
        /\ Numbered(f, type) = {<<type, m + i>> : i \in 1..k}

(* New objects take the place of none that a caption could be about. *)
LEMMA NewIsFresh ==
    ASSUME NEW c, NEW f, Succeeds(c, f), NEW id \in DOMAIN c, id[1] \in Core, Len(id) = 2
    PROVE  id \notin DOMAIN f
<1>. SUFFICES ASSUME id \in DOMAIN f PROVE FALSE
  OBVIOUS
<1>1. PICK m, k \in Nat : /\ Numbered(c, id[1]) = {<<id[1], i>> : i \in 1..m}
                          /\ Numbered(f, id[1]) = {<<id[1], m + i>> : i \in 1..k}
  BY DEF Succeeds
<1>2. id \in Numbered(c, id[1]) /\ id \in Numbered(f, id[1])
  BY DEF Numbered
<1>3. PICK i \in 1..m : id = <<id[1], i>>
  BY <1>1, <1>2
<1>4. PICK j \in 1..k : id = <<id[1], m + j>>
  BY <1>1, <1>2
<1>5. id[2] = i /\ id[2] = m + j
  BY <1>3, <1>4
<1>. QED
  BY <1>5

LEMMA ElementCounts ==
    ASSUME NEW c, NEW f, Succeeds(c, f)
    PROVE  Counted(f ++ c)
<1>. SUFFICES ASSUME NEW type \in Core
              PROVE  \E n \in Nat : Numbered(f ++ c, type) = {<<type, i>> : i \in 1..n}
  BY DEF Counted
<1>1. PICK m, k \in Nat : /\ Numbered(c, type) = {<<type, i>> : i \in 1..m}
                          /\ Numbered(f, type) = {<<type, m + i>> : i \in 1..k}
  BY DEF Succeeds
<1>2. Numbered(f ++ c, type) = Numbered(f, type) \cup Numbered(c, type)
  BY DEF Numbered, ++
<1>3. {<<type, i>> : i \in 1..(m + k)} =
          {<<type, m + i>> : i \in 1..k} \cup {<<type, i>> : i \in 1..m}
  <2>1. ASSUME NEW i \in 1..(m + k), i \notin 1..m
        PROVE  \E j \in 1..k : <<type, i>> = <<type, m + j>>
    <3>1. i - m \in 1..k /\ m + (i - m) = i
      BY <2>1
    <3>. QED
      BY <3>1
  <2>2. 1..m \subseteq 1..(m + k) /\ \A j \in 1..k : m + j \in 1..(m + k)
    OBVIOUS
  <2>. QED
    BY <2>1, <2>2
<1>4. m + k \in Nat
  OBVIOUS
<1>. QED
  BY <1>1, <1>2, <1>3, <1>4

LEMMA ElementKeeps ==
    ASSUME NEW c, NEW n \in Nat, Scanned(c, n), NEW f, IsElement(f, n + 1), Succeeds(c, f)
    PROVE  /\ Scanned(f ++ c, n + 1)
           /\ \A id \in DOMAIN f : id \in DOMAIN (f ++ c) /\ (f ++ c)[id] = f[id]
           /\ \A id \in DOMAIN (f ++ c) :
                 id \in DOMAIN f \/ (id \in DOMAIN c /\ (f ++ c)[id] = c[id])
           /\ \A b : Waits(c, b, n + 1) => Waits(f ++ c, b, n + 1)
           /\ \A t : IsTarget(c, t) => IsTarget(f ++ c, t) /\ (f ++ c)[t] = c[t]
<1>. DEFINE d == f ++ c
<1>1. /\ DOMAIN d = DOMAIN f \cup DOMAIN c
      /\ \A id \in DOMAIN f : d[id] = f[id]
      /\ \A id \in DOMAIN c : id \notin DOMAIN f => d[id] = c[id]
  BY DEF ++
<1>2. \A id \in DOMAIN c : id[1] \in Core /\ Len(id) = 2 => id \notin DOMAIN f
  BY NewIsFresh
<1>3. Counted(d)
  BY ElementCounts
<1>. HIDE DEF d
<1>4. Shaped(d, n + 1)
  BY <1>1 DEF Scanned, Shaped, IsElement
<1>5. \A id \in DOMAIN c :
          c[id].type \in {"block", "section", "figure", "equation"} => d[id] = c[id]
  BY <1>1, <1>2 DEF Scanned, Shaped, IsRecord, Core
<1>6. \A t : IsTarget(c, t) => IsTarget(d, t) /\ d[t] = c[t]
  BY <1>1, <1>2 DEF Scanned, Shaped, IsRecord, IsTarget, Core
<1>7. \A m : RichHeadingAt(c, m) => RichHeadingAt(d, m)
  BY <1>1, <1>5 DEF RichHeadingAt
<1>8. ASSUME NEW b \in DOMAIN c, c[b].type = "block", NEW m \in 0..(n + 1),
             OnlyHeadingsBelow(c, b, m)
      PROVE  OnlyHeadingsBelow(d, b, m)
  <2>. SUFFICES ASSUME NEW id \in DOMAIN d, d[b].body < d[id].body, d[id].body < m
                PROVE  RichHeadingAt(d, d[id].body)
    BY DEF OnlyHeadingsBelow
  <2>1. d[b] = c[b]
    BY <1>5, <1>8
  <2>2. id \notin DOMAIN f
    BY <1>1 DEF IsElement
  <2>3. id \in DOMAIN c /\ d[id] = c[id]
    BY <1>1, <2>2
  <2>. QED
    BY <1>7, <1>8, <2>1, <2>3 DEF OnlyHeadingsBelow
<1>9. \A b : Waits(c, b, n + 1) => Waits(d, b, n + 1)
  <2>. SUFFICES ASSUME NEW b, b # None, Waits(c, b, n + 1) PROVE Waits(d, b, n + 1)
    BY DEF Waits
  <2>. QED
    BY <1>1, <1>5, <1>8 DEF Waits
<1>10. Attached(d)
  <2>. SUFFICES ASSUME NEW b \in DOMAIN d, d[b].type = "block", d[b].target # None
                PROVE  Belongs(d, b, d[b].target)
    BY DEF Attached
  <2>1. b \notin DOMAIN f
    BY <1>1 DEF IsElement
  <2>2. b \in DOMAIN c /\ d[b] = c[b]
    BY <1>1, <2>1
  <2>. DEFINE t == d[b].target
  <2>3. Belongs(c, b, t)
    BY <2>2 DEF Scanned, Attached
  <2>. HIDE DEF t
  <2>4. IsTarget(c, t) /\ IsTarget(d, t) /\ d[t] = c[t]
    BY <1>6, <2>3 DEF Belongs
  <2>5. c[t].body \in 0..n /\ c[b].body \in 0..n
    BY <2>2, <2>4 DEF IsTarget, Scanned, Shaped
  <2>6. OnlyHeadingsBelow(d, b, d[t].body)
    BY <1>8, <2>2, <2>3, <2>4, <2>5 DEF Belongs
  <2>7. ASSUME NEW id \in DOMAIN d, d[t].body < d[id].body, d[id].body < d[b].body
        PROVE  FALSE
    <3>1. id \notin DOMAIN f
      BY <1>1, <2>2, <2>5, <2>7 DEF IsElement
    <3>2. id \in DOMAIN c /\ d[id] = c[id]
      BY <1>1, <3>1
    <3>. QED
      BY <2>2, <2>3, <2>4, <2>7, <3>2 DEF Belongs
  <2>. QED
    BY <2>2, <2>3, <2>4, <2>6, <2>7 DEF Belongs, t
<1>. QED
  BY <1>1, <1>3, <1>4, <1>6, <1>9, <1>10 DEF Scanned, d

-----------------------------------------------------------------------------
(* What the records of an element are numbered with. *)

LEMMA CountIs ==
    ASSUME Counted(cat), NEW type \in Core
    PROVE  /\ Count(type) \in Nat
           /\ Numbered(cat, type) = {<<type, i>> : i \in 1..Count(type)}
<1>1. PICK n \in Nat : Numbered(cat, type) = {<<type, i>> : i \in 1..n}
  BY DEF Counted
<1>. DEFINE T == {<<type, i>> : i \in 1..n}
            g == [i \in 1..n |-> <<type, i>>]
<1>2. IsFiniteSet(1..n) /\ Cardinality(1..n) = n
  BY FS_Interval
<1>3. g \in Bijection(1..n, T)
  <2>1. g \in [1..n -> T] /\ \A x \in T : \E i \in 1..n : g[i] = x
    OBVIOUS
  <2>2. \A i, j \in 1..n : g[i] = g[j] => i = j
    <3>. SUFFICES ASSUME NEW i \in 1..n, NEW j \in 1..n, <<type, i>> = <<type, j>> PROVE i = j
      OBVIOUS
    <3>. QED
      OBVIOUS
  <2>. QED
    BY <2>1, <2>2 DEF Bijection, Injection, IsInjective, Surjection
<1>4. Cardinality(T) = n
  BY <1>2, <1>3, FS_Bijection DEF ExistsBijection
<1>5. Count(type) = Cardinality(Numbered(cat, type))
  BY DEF Count, Numbered
<1>. QED
  BY <1>1, <1>4, <1>5

(* How many objects of a type an element adds. *)
Adds(f, type, k) == Numbered(f, type) = {<<type, Count(type) + i>> : i \in 1..k}

LEMMA AddingSucceeds ==
    ASSUME Counted(cat), NEW c, DOMAIN c = DOMAIN cat,
           NEW f, \A type \in Core : \E k \in Nat : Adds(f, type, k)
    PROVE  Succeeds(c, f)
<1>. SUFFICES ASSUME NEW type \in Core
              PROVE  \E m, k \in Nat :
                        /\ Numbered(c, type) = {<<type, i>> : i \in 1..m}
                        /\ Numbered(f, type) = {<<type, m + i>> : i \in 1..k}
  BY DEF Succeeds
<1>1. PICK k \in Nat : Adds(f, type, k)
  OBVIOUS
<1>2. Numbered(c, type) = Numbered(cat, type)
  BY DEF Numbered
<1>. QED
  BY <1>1, <1>2, CountIs DEF Adds

LEMMA UnionOfElements ==
    ASSUME NEW f, NEW g, NEW n, IsElement(f, n), IsElement(g, n)
    PROVE  IsElement(f ++ g, n)
  BY DEF IsElement, ++

LEMMA UnionNumbers ==
    ASSUME NEW f, NEW g, NEW type
    PROVE  Numbered(f ++ g, type) = Numbered(f, type) \cup Numbered(g, type)
  BY DEF Numbered, ++

LEMMA OnlyIs ==
    ASSUME NEW id, NEW r
    PROVE  DOMAIN Only(id, r) = {id} /\ Only(id, r)[id] = r
  BY DEF Only

LEMMA FiguresAre ==
    ASSUME read \in Nat, Counted(cat), NEW p \in Paragraphs
    PROVE  /\ IsElement(Figures(p), read + 1)
           /\ Adds(Figures(p), "figure", Len(p.figures))
           /\ \A type \in Core : type # "figure" => Numbered(Figures(p), type) = {}
           /\ \A id \in DOMAIN Figures(p) : Figures(p)[id].type = "figure"
           /\ p.figures # <<>> => DOMAIN Figures(p) # {}
<1>1. DOMAIN p.figures = 1..Len(p.figures) /\ Len(p.figures) \in Nat
  BY ParagraphsAssumption
<1>2. DOMAIN Figures(p) = {<<"figure", Count("figure") + i>> : i \in 1..Len(p.figures)}
  BY <1>1 DEF Figures
<1>3. ASSUME NEW id \in DOMAIN Figures(p)
      PROVE  /\ {"type", "status", "body", "siblings"} \subseteq DOMAIN Figures(p)[id]
             /\ Figures(p)[id].type = "figure" /\ Figures(p)[id].body = read + 1
  BY <1>3 DEF Figures, Position
<1>4. \A id \in DOMAIN Figures(p) : id[1] = "figure" /\ Len(id) = 2
  BY <1>2
<1>5. IsElement(Figures(p), read + 1)
  BY <1>3, <1>4 DEF IsElement, IsRecord
<1>6. Adds(Figures(p), "figure", Len(p.figures))
  BY <1>2, <1>4 DEF Adds, Numbered
<1>7. \A type \in Core : type # "figure" => Numbered(Figures(p), type) = {}
  BY <1>4 DEF Numbered
<1>8. ASSUME p.figures # <<>> PROVE DOMAIN Figures(p) # {}
  <2>1. 1 \in 1..Len(p.figures)
    BY <1>1, <1>8, ParagraphsAssumption
  <2>. QED
    BY <1>2, <2>1
<1>. QED
  BY <1>3, <1>5, <1>6, <1>7, <1>8

LEMMA EquationsAre ==
    ASSUME read \in Nat, Counted(cat), NEW p \in Paragraphs
    PROVE  /\ IsElement(Equations(p), read + 1)
           /\ Adds(Equations(p), "equation", Len(p.math))
           /\ \A type \in Core : type # "equation" => Numbered(Equations(p), type) = {}
           /\ \A id \in DOMAIN Equations(p) : Equations(p)[id].type = "equation"
           /\ p.math # <<>> => DOMAIN Equations(p) # {}
<1>1. DOMAIN p.math = 1..Len(p.math) /\ Len(p.math) \in Nat
  BY ParagraphsAssumption
<1>2. DOMAIN Equations(p) = {<<"equation", Count("equation") + i>> : i \in 1..Len(p.math)}
  BY <1>1 DEF Equations
<1>3. ASSUME NEW id \in DOMAIN Equations(p)
      PROVE  /\ {"type", "status", "body"} \subseteq DOMAIN Equations(p)[id]
             /\ Equations(p)[id].type = "equation" /\ Equations(p)[id].body = read + 1
  BY <1>3 DEF Equations, Position
<1>4. \A id \in DOMAIN Equations(p) : id[1] = "equation" /\ Len(id) = 2
  BY <1>2
<1>5. IsElement(Equations(p), read + 1)
  BY <1>3, <1>4 DEF IsElement, IsRecord
<1>6. Adds(Equations(p), "equation", Len(p.math))
  BY <1>2, <1>4 DEF Adds, Numbered
<1>7. \A type \in Core : type # "equation" => Numbered(Equations(p), type) = {}
  BY <1>4 DEF Numbered
<1>8. ASSUME p.math # <<>> PROVE DOMAIN Equations(p) # {}
  <2>1. 1 \in 1..Len(p.math)
    BY <1>1, <1>8, ParagraphsAssumption
  <2>. QED
    BY <1>2, <2>1
<1>. QED
  BY <1>3, <1>5, <1>6, <1>7, <1>8

LEMMA MentionsAre ==
    ASSUME NEW p
    PROVE  /\ IsElement(Mentions(p), read + 1)
           /\ \A type \in Core : Numbered(Mentions(p), type) = {}
<1>1. \A id \in DOMAIN Mentions(p) :
          /\ {"type", "status", "body"} \subseteq DOMAIN Mentions(p)[id]
          /\ Mentions(p)[id].type = "reference" /\ Mentions(p)[id].body = read + 1
          /\ id[1] = "reference"
  BY DEF Mentions, Position
<1>. QED
  BY <1>1 DEF IsElement, IsRecord, Numbered, Core

LEMMA BlockIs ==
    ASSUME read \in Nat, Counted(cat), NEW p
    PROVE  /\ IsElement(BlockRecords(p), read + 1)
           /\ Adds(BlockRecords(p), "block", 1)
           /\ \A type \in Core : type # "block" => Numbered(BlockRecords(p), type) = {}
           /\ NextId("block") \in DOMAIN BlockRecords(p)
           /\ BlockRecords(p)[NextId("block")] = Block(p)
<1>. DEFINE id   == NextId("block")
            span == <<"text_span", id[2]>>
            text == IF p.text = <<>> THEN <<>>
                    ELSE Only(span, [type |-> "text_span", status |-> "supported",
                                     body |-> Position, block |-> id, value |-> p.text])
<1>1. BlockRecords(p) = Only(id, Block(p)) ++ text
  BY DEF BlockRecords
<1>2. id = <<"block", Count("block") + 1>> /\ id[1] = "block" /\ Len(id) = 2
  BY DEF NextId
<1>3. /\ {"type", "status", "body", "label", "target"} \subseteq DOMAIN Block(p)
      /\ Block(p).type = "block" /\ Block(p).body = read + 1 /\ Block(p).target = None
  BY DEF Block, Position
<1>4. span[1] = "text_span"
  OBVIOUS
<1>. HIDE DEF id, span
<1>. DEFINE block == Only(id, Block(p))
<1>a. DOMAIN block = {id} /\ block[id] = Block(p)
  BY OnlyIs
<1>5. IsElement(block, read + 1)
  <2>. HIDE DEF block
  <2>. QED
    BY <1>2, <1>3, <1>a DEF IsElement, IsRecord
<1>6. IsElement(text, read + 1) /\ DOMAIN text \subseteq {span}
  <2>1. CASE p.text = <<>>
    BY <2>1 DEF IsElement
  <2>2. CASE p.text # <<>>
    <3>. DEFINE r == [type |-> "text_span", status |-> "supported",
                      body |-> Position, block |-> id, value |-> p.text]
    <3>0. text = Only(span, r)
      BY <2>2
    <3>. HIDE DEF text
    <3>1. DOMAIN text = {span} /\ text[span] = r
      <4>. HIDE DEF r
      <4>. QED
        BY <3>0, OnlyIs
    <3>. QED
      BY <1>4, <3>1 DEF IsElement, IsRecord, Position
  <2>. QED
    BY <2>1, <2>2
<1>. HIDE DEF text
<1>7. IsElement(BlockRecords(p), read + 1)
  BY <1>1, <1>5, <1>6, UnionOfElements
<1>8. \A type \in Core : Numbered(text, type) = {}
  BY <1>4, <1>6 DEF Numbered, Core
<1>9. /\ Numbered(block, "block") = {id}
      /\ \A type \in Core : type # "block" => Numbered(block, type) = {}
  <2>. HIDE DEF block
  <2>. QED
    BY <1>2, <1>a DEF Numbered
<1>11. {<<"block", Count("block") + i>> : i \in 1..1} = {id}
  BY <1>2
<1>12. id \in DOMAIN BlockRecords(p) /\ BlockRecords(p)[id] = Block(p)
  BY <1>1, OnlyIs DEF ++
<1>13. \A type : Numbered(BlockRecords(p), type) = Numbered(block, type) \cup Numbered(text, type)
  BY <1>1, UnionNumbers
<1>. HIDE DEF block
<1>. QED
  BY <1>7, <1>8, <1>9, <1>11, <1>12, <1>13 DEF Adds, Core, id

LEMMA RichIs ==
    ASSUME read \in Nat, Counted(cat), NEW p \in Paragraphs
    PROVE  /\ IsElement(RichRecords(p), read + 1)
           /\ Adds(RichRecords(p), "figure", Len(p.figures))
           /\ Adds(RichRecords(p), "equation", Len(p.math))
           /\ \A type \in Core : type \notin {"figure", "equation"} =>
                 Numbered(RichRecords(p), type) = {}
           /\ \A id \in DOMAIN Figures(p) : id \in DOMAIN RichRecords(p)
                                           /\ RichRecords(p)[id] = Figures(p)[id]
           /\ HasRich(p) => \E id \in DOMAIN RichRecords(p) :
                                 RichRecords(p)[id].type \in {"figure", "equation"}
<1>1. RichRecords(p) = (Figures(p) ++ Equations(p)) ++ Mentions(p)
  BY DEF RichRecords
<1>2. IsElement(RichRecords(p), read + 1)
  BY <1>1, FiguresAre, EquationsAre, MentionsAre, UnionOfElements
<1>3. ASSUME NEW type \in Core
      PROVE  Numbered(RichRecords(p), type) =
                 Numbered(Figures(p), type) \cup Numbered(Equations(p), type)
  BY <1>1, UnionNumbers, MentionsAre
<1>4. /\ Adds(RichRecords(p), "figure", Len(p.figures))
      /\ Adds(RichRecords(p), "equation", Len(p.math))
      /\ \A type \in Core : type \notin {"figure", "equation"} =>
            Numbered(RichRecords(p), type) = {}
  BY <1>3, FiguresAre, EquationsAre DEF Adds, Core
<1>5. \A id \in DOMAIN Figures(p) : id \in DOMAIN RichRecords(p)
                                    /\ RichRecords(p)[id] = Figures(p)[id]
  BY <1>1 DEF ++
<1>6. ASSUME HasRich(p)
      PROVE  \E id \in DOMAIN RichRecords(p) :
                 RichRecords(p)[id].type \in {"figure", "equation"}
  <2>1. CASE p.figures # <<>>
    BY <1>5, <2>1, FiguresAre
  <2>2. CASE p.math # <<>>
    <3>1. PICK id \in DOMAIN Equations(p) : TRUE
      BY <2>2, EquationsAre
    <3>2. CASE id \in DOMAIN Figures(p)
      BY <1>5, <3>2, FiguresAre
    <3>3. CASE id \notin DOMAIN Figures(p)
      <4>1. id \in DOMAIN RichRecords(p) /\ RichRecords(p)[id] = Equations(p)[id]
        BY <1>1, <3>1, <3>3 DEF ++
      <4>. QED
        BY <4>1, EquationsAre
    <3>. QED
      BY <3>2, <3>3
  <2>. QED
    BY <1>6, <2>1, <2>2 DEF HasRich
<1>. QED
  BY <1>2, <1>4, <1>5, <1>6

-----------------------------------------------------------------------------
(* The steps of the pass. *)

LEMMA SkipKeeps ==
    ASSUME IInv, NEW p \in Paragraphs, Skip(p)
    PROVE  IInv'
<1>1. read' = read + 1 /\ read' \in Nat /\ UNCHANGED <<cat, pending, last>>
  BY DEF Skip, Read, IInv
<1>2. Scanned(cat, read + 1)
  BY DEF IInv, Scanned, Shaped
<1>3. Waits(cat, pending, read + 2)
  BY DEF IInv, Waits, OnlyHeadingsBelow, Scanned, Shaped
<1>4. IsLast(cat, last)
  BY DEF IInv
<1>5. (read + 1) + 1 = read + 2
  BY DEF IInv
<1>6. Scanned(cat, read') /\ Waits(cat, pending, read' + 1) /\ IsLast(cat, last)
  BY <1>1, <1>2, <1>3, <1>4, <1>5
<1>. QED
  BY <1>1, <1>6 DEF IInv

(* What a step that scans an element leaves: c are the records it found,    *)
(* f those of the element.                                                  *)
LEMMA ElementScanned ==
    ASSUME IInv, NEW c, c \in {cat, Unresolved(cat)},
           NEW f, IsElement(f, read + 1), \A type \in Core : \E k \in Nat : Adds(f, type, k)
    PROVE  /\ Scanned(f ++ c, read + 1)
           /\ \A id \in DOMAIN f : id \in DOMAIN (f ++ c) /\ (f ++ c)[id] = f[id]
           /\ \A id \in DOMAIN (f ++ c) : id \in DOMAIN f \/ (f ++ c)[id].body <= read
           /\ Waits(f ++ c, pending, read + 1)
           /\ last # None => /\ IsTarget(f ++ c, last)
                             /\ \A id \in DOMAIN (f ++ c) :
                                   id \in DOMAIN f \/ (f ++ c)[id].body <= (f ++ c)[last].body
<1>1. /\ Scanned(c, read) /\ DOMAIN c = DOMAIN cat
      /\ Waits(c, pending, read + 1) /\ IsLast(c, last)
  <2>1. CASE c = cat
    BY <2>1 DEF IInv
  <2>2. CASE c = Unresolved(cat)
    <3>1. Scanned(c, read) /\ Alike(cat, c)
      BY <2>2, UnresolvedKeeps DEF IInv
    <3>. QED
      BY <3>1, AlikeKeeps DEF IInv, Alike, Scanned
  <2>. QED
    BY <2>1, <2>2
<1>2. Succeeds(c, f)
  BY <1>1, AddingSucceeds DEF IInv, Scanned
<1>. DEFINE d == f ++ c
<1>3. /\ Scanned(d, read + 1)
      /\ \A id \in DOMAIN f : id \in DOMAIN d /\ d[id] = f[id]
      /\ \A id \in DOMAIN d : id \in DOMAIN f \/ (id \in DOMAIN c /\ d[id] = c[id])
      /\ \A b : Waits(c, b, read + 1) => Waits(d, b, read + 1)
      /\ \A t : IsTarget(c, t) => IsTarget(d, t) /\ d[t] = c[t]
  BY <1>1, <1>2, ElementKeeps DEF IInv
<1>. HIDE DEF d
<1>4. \A id \in DOMAIN d : id \in DOMAIN f \/ d[id].body <= read
  BY <1>1, <1>3 DEF Scanned, Shaped
<1>5. last # None => /\ IsTarget(d, last)
                     /\ \A id \in DOMAIN d : id \in DOMAIN f \/ d[id].body <= d[last].body
  BY <1>1, <1>3 DEF IsLast
<1>. QED
  BY <1>1, <1>3, <1>4, <1>5 DEF d

(* A figure or a table that was just read answers the caption that waits. *)
LEMMA AnswerBelongs ==
    ASSUME NEW c, NEW n \in Nat, Scanned(c, n), Waits(c, pending, n), pending # None,
           NEW t, IsTarget(c, t), c[t].body = n, Fits(c[pending], c[t])
    PROVE  Belongs(c, pending, t)
<1>1. OnlyHeadingsBelow(c, pending, n) /\ pending \in DOMAIN c
  BY DEF Waits
<1>2. c[pending].body <= n /\ c[pending].body \in Int
  BY <1>1 DEF Scanned, Shaped
<1>3. \A id \in DOMAIN c : c[id].body \in 0..n
  BY DEF Scanned, Shaped
<1>. QED
  BY <1>1, <1>3 DEF Belongs

LEMMA AssociateKeeps ==
    ASSUME NEW c, NEW n \in Nat, Scanned(c, n), Waits(c, pending, n),
           NEW t, IsTarget(c, t), c[t].body = n
    PROVE  /\ Scanned(AssociatePending(c, t), n)
           /\ Alike(c, AssociatePending(c, t))
<1>1. CASE pending = None
  BY <1>1 DEF AssociatePending, Alike, SameObject
<1>2. CASE pending # None /\ Fits(c[pending], c[t])
  <2>1. Belongs(c, pending, t)
    BY <1>2, AnswerBelongs
  <2>2. pending \in DOMAIN c /\ c[pending].type = "block"
    BY <1>2 DEF Waits
  <2>. QED
    BY <1>2, <2>1, <2>2, AttachKeeps DEF AssociatePending
<1>3. CASE pending # None /\ ~ Fits(c[pending], c[t])
  BY <1>3, UnresolvedKeeps DEF AssociatePending
<1>. QED
  BY <1>1, <1>2, <1>3

LEMMA AnswerIsLast ==
    ASSUME NEW c, NEW n \in Nat, Scanned(c, n), NEW t, IsTarget(c, t), c[t].body = n
    PROVE  IsLast(c, t)
  BY DEF IsLast, Scanned, Shaped

(* The records of a paragraph that is no heading. *)
LEMMA ParagraphIs ==
    ASSUME read \in Nat, Counted(cat), NEW p \in Paragraphs, NEW f,
           f = RichRecords(p) ++ BlockRecords(p)
    PROVE  /\ IsElement(f, read + 1)
           /\ \A type \in Core : \E k \in Nat : Adds(f, type, k)
           /\ NextId("block") \in DOMAIN f /\ f[NextId("block")] = Block(p)
           /\ \A id \in DOMAIN Figures(p) : id \in DOMAIN f /\ f[id] = Figures(p)[id]
<1>0. Len(p.figures) \in Nat /\ Len(p.math) \in Nat
  BY ParagraphsAssumption
<1>1. IsElement(f, read + 1)
  BY RichIs, BlockIs, UnionOfElements
<1>2. \A type : Numbered(f, type) = Numbered(RichRecords(p), type)
                                   \cup Numbered(BlockRecords(p), type)
  BY UnionNumbers
<1>3. \A type \in Core \ {"figure", "equation", "block"} : Adds(f, type, 0)
  BY <1>2, RichIs, BlockIs DEF Adds
<1>4. Adds(f, "figure", Len(p.figures)) /\ Adds(f, "equation", Len(p.math))
  BY <1>2, RichIs, BlockIs DEF Adds, Core
<1>5. Adds(f, "block", 1)
  BY <1>2, RichIs, BlockIs DEF Adds, Core
<1>6. \A type \in Core : \E k \in Nat : Adds(f, type, k)
  BY <1>0, <1>3, <1>4, <1>5
<1>7. NextId("block")[1] = "block" /\ Len(NextId("block")) = 2
  BY DEF NextId
<1>8. NextId("block") \notin DOMAIN RichRecords(p)
  BY <1>7, RichIs DEF Numbered, Core
<1>9. NextId("block") \in DOMAIN f /\ f[NextId("block")] = Block(p)
  BY <1>8, BlockIs DEF ++
<1>10. \A id \in DOMAIN Figures(p) : id \in DOMAIN f /\ f[id] = Figures(p)[id]
  BY RichIs DEF ++
<1>. QED
  BY <1>1, <1>6, <1>9, <1>10

LEMMA HeadingKeeps ==
    ASSUME IInv, NEW p \in Paragraphs, Heading(p)
    PROVE  IInv'
<1>. DEFINE id   == NextId("section")
            head == [type |-> "section", status |-> "supported", body |-> Position,
                     level |-> p.level, value |-> p.text]
            sec  == Only(id, head)
            rich == RichRecords(p)
            f    == rich ++ sec ++ BlockRecords(p)
            c    == IF EndsWait(p) THEN Unresolved(cat) ELSE cat
<1>1. /\ read' = read + 1 /\ last' = None
      /\ cat' = f ++ c
      /\ pending' = IF EndsWait(p) THEN None ELSE pending
  BY DEF Heading, Read
<1>2. read \in Nat /\ Counted(cat)
  BY DEF IInv, Scanned
<1>3. id = <<"section", Count("section") + 1>> /\ id[1] = "section" /\ Len(id) = 2
  BY DEF NextId
<1>4. /\ {"type", "status", "body"} \subseteq DOMAIN head
      /\ head.type = "section" /\ head.body = read + 1
  BY DEF Position
<1>. HIDE DEF id, head
<1>5. DOMAIN sec = {id} /\ sec[id] = head
  BY OnlyIs
<1>. HIDE DEF sec
<1>6. IsElement(sec, read + 1)
  BY <1>3, <1>4, <1>5 DEF IsElement, IsRecord
<1>7. /\ Numbered(sec, "section") = {id}
      /\ \A type \in Core : type # "section" => Numbered(sec, type) = {}
  BY <1>3, <1>5 DEF Numbered
<1>8. IsElement(f, read + 1)
  BY <1>2, <1>6, RichIs, BlockIs, UnionOfElements
<1>9. \A type : Numbered(f, type) = (Numbered(rich, type) \cup Numbered(sec, type))
                                    \cup Numbered(BlockRecords(p), type)
  BY UnionNumbers
<1>10. \A type \in Core : \E k \in Nat : Adds(f, type, k)
  <2>. HIDE DEF f
  <2>0. Len(p.figures) \in Nat /\ Len(p.math) \in Nat
    BY ParagraphsAssumption
  <2>1. Adds(f, "figure", Len(p.figures)) /\ Adds(f, "equation", Len(p.math))
    BY <1>2, <1>7, <1>9, RichIs, BlockIs DEF Adds, Core
  <2>2. Adds(f, "block", 1)
    BY <1>2, <1>7, <1>9, RichIs, BlockIs DEF Adds, Core
  <2>3. Adds(f, "table", 0)
    BY <1>2, <1>7, <1>9, RichIs, BlockIs DEF Adds, Core
  <2>4. Numbered(f, "section") = {id}
    BY <1>2, <1>7, <1>9, RichIs, BlockIs DEF Core
  <2>5. Adds(f, "section", 1)
    BY <1>3, <2>4 DEF Adds
  <2>. QED
    BY <2>0, <2>1, <2>2, <2>3, <2>5 DEF Core
<1>11. id \in DOMAIN f /\ f[id] = head
  <2>1. id \notin DOMAIN rich
    BY <1>2, <1>3, RichIs DEF Numbered, Core
  <2>2. id \in DOMAIN (rich ++ sec) /\ (rich ++ sec)[id] = head
    BY <1>5, <2>1 DEF ++
  <2>. QED
    BY <2>2 DEF ++
<1>12. ASSUME HasRich(p)
       PROVE  \E h \in DOMAIN f : f[h].type \in {"figure", "equation"}
  <2>1. PICK h \in DOMAIN rich : rich[h].type \in {"figure", "equation"}
    BY <1>2, <1>12, RichIs
  <2>2. h \in DOMAIN (rich ++ sec) /\ (rich ++ sec)[h] = rich[h]
    BY <2>1 DEF ++
  <2>3. h \in DOMAIN f /\ f[h] = rich[h]
    BY <2>2 DEF ++
  <2>. QED
    BY <2>1, <2>3
<1>. HIDE DEF f
<1>13. c \in {cat, Unresolved(cat)}
  OBVIOUS
<1>. DEFINE d == f ++ c
<1>14. /\ Scanned(d, read + 1)
       /\ \A x \in DOMAIN f : x \in DOMAIN d /\ d[x] = f[x]
       /\ \A x \in DOMAIN d : x \in DOMAIN f \/ d[x].body <= read
       /\ Waits(d, pending, read + 1)
  BY <1>8, <1>10, <1>13, ElementScanned
<1>. HIDE DEF d, c
<1>15. Waits(d, pending', (read + 1) + 1)
  <2>1. CASE EndsWait(p)
    BY <1>1, <2>1 DEF Waits
  <2>2. CASE ~ EndsWait(p)
    <3>1. HasRich(p) /\ pending' = pending
      BY <1>1, <2>2 DEF EndsWait
    <3>2. RichHeadingAt(d, read + 1)
      <4>1. PICK h \in DOMAIN f : f[h].type \in {"figure", "equation"}
        BY <1>12, <3>1
      <4>2. f[h].body = read + 1
        BY <1>8 DEF IsElement
      <4>. QED
        BY <1>4, <1>11, <1>14, <4>1, <4>2 DEF RichHeadingAt
    <3>3. ASSUME pending # None
          PROVE  OnlyHeadingsBelow(d, pending, (read + 1) + 1)
      <4>. SUFFICES ASSUME NEW x \in DOMAIN d, d[pending].body < d[x].body,
                           d[x].body < (read + 1) + 1
                    PROVE  RichHeadingAt(d, d[x].body)
        BY DEF OnlyHeadingsBelow
      <4>1. d[x].body \in 0..(read + 1)
        BY <1>14 DEF Scanned, Shaped
      <4>2. CASE d[x].body = read + 1
        BY <3>2, <4>2
      <4>3. CASE d[x].body # read + 1
        <5>1. d[x].body < read + 1
          BY <1>2, <4>1, <4>3
        <5>2. OnlyHeadingsBelow(d, pending, read + 1)
          BY <1>14, <3>3 DEF Waits
        <5>. QED
          BY <5>1, <5>2 DEF OnlyHeadingsBelow
      <4>. QED
        BY <4>2, <4>3
    <3>. QED
      BY <1>14, <3>1, <3>3 DEF Waits
  <2>. QED
    BY <2>1, <2>2
<1>16. cat' = d /\ read' \in Nat /\ IsLast(d, last')
  BY <1>1, <1>2 DEF d, c, IsLast
<1>17. Scanned(d, read') /\ Waits(d, pending', read' + 1)
  BY <1>1, <1>14, <1>15
<1>. QED
  BY <1>16, <1>17 DEF IInv

LEMMA CaptionKeeps ==
    ASSUME IInv, NEW p \in Paragraphs, Caption(p)
    PROVE  IInv'
<1>. DEFINE id    == NextId("block")
            f     == RichRecords(p) ++ BlockRecords(p)
            scan  == f ++ Unresolved(cat)
            above == last # None /\ Fits(scan[id], scan[last])
<1>1. /\ read' = read + 1 /\ last' = None
      /\ cat' = IF above THEN Attach(scan, id, last) ELSE scan
      /\ pending' = IF above THEN None ELSE id
  BY DEF Caption, Read
<1>2. read \in Nat /\ Counted(cat)
  BY DEF IInv, Scanned
<1>3. /\ IsElement(f, read + 1)
      /\ \A type \in Core : \E k \in Nat : Adds(f, type, k)
      /\ id \in DOMAIN f /\ f[id] = Block(p)
  BY <1>2, ParagraphIs
<1>4. Block(p).type = "block" /\ Block(p).body = read + 1
  BY DEF Block, Position
<1>. HIDE DEF f
<1>5. /\ Scanned(scan, read + 1)
      /\ \A x \in DOMAIN f : x \in DOMAIN scan /\ scan[x] = f[x]
      /\ last # None => /\ IsTarget(scan, last)
                        /\ \A x \in DOMAIN scan :
                              x \in DOMAIN f \/ scan[x].body <= scan[last].body
  BY <1>3, ElementScanned
<1>. HIDE DEF scan, id
<1>6. id \in DOMAIN scan /\ scan[id].type = "block" /\ scan[id].body = read + 1
  BY <1>3, <1>4, <1>5
<1>7. \A x \in DOMAIN scan : scan[x].body \in 0..(read + 1)
  BY <1>5 DEF Scanned, Shaped
<1>8. CASE above
  <2>1. OnlyHeadingsBelow(scan, id, scan[last].body)
    <3>1. scan[last].body \in 0..(read + 1)
      BY <1>5, <1>7, <1>8 DEF IsTarget
    <3>. QED
      BY <1>2, <1>6, <1>7, <3>1 DEF OnlyHeadingsBelow
  <2>2. ASSUME NEW x \in DOMAIN scan, scan[last].body < scan[x].body,
               scan[x].body < scan[id].body
        PROVE  FALSE
    <3>1. x \notin DOMAIN f
      BY <1>2, <1>3, <1>5, <1>6, <2>2 DEF IsElement
    <3>2. scan[last].body \in 0..(read + 1)
      BY <1>5, <1>7, <1>8 DEF IsTarget
    <3>. QED
      BY <1>5, <1>7, <1>8, <2>2, <3>1, <3>2
  <2>3. Belongs(scan, id, last)
    BY <1>5, <1>8, <2>1, <2>2 DEF Belongs
  <2>4. Scanned(Attach(scan, id, last), read + 1)
    BY <1>5, <1>6, <2>3, AttachKeeps
  <2>5. Scanned(cat, read)' /\ Waits(cat, pending, read + 1)' /\ IsLast(cat, last)'
    BY <1>1, <1>8, <2>4 DEF Waits, IsLast
  <2>. QED
    BY <1>1, <1>2, <2>5 DEF IInv
<1>9. CASE ~ above
  <2>1. Waits(scan, id, (read + 1) + 1)
    BY <1>2, <1>6, <1>7 DEF Waits, OnlyHeadingsBelow
  <2>2. cat' = scan /\ pending' = id /\ read' = read + 1 /\ last' = None
    BY <1>1, <1>9
  <2>3. Waits(cat', pending', read' + 1) /\ Scanned(cat', read')
    BY <1>5, <2>1, <2>2
  <2>. QED
    BY <1>2, <2>2, <2>3 DEF IInv, IsLast
<1>. QED
  BY <1>8, <1>9

LEMMA ProseKeeps ==
    ASSUME IInv, NEW p \in Paragraphs, Prose(p)
    PROVE  IInv'
<1>. DEFINE figures == [i \in DOMAIN p.figures |-> <<"figure", Count("figure") + i>>]
            f       == RichRecords(p) ++ BlockRecords(p)
            scan    == f ++ cat
<1>1. /\ read' = read + 1 /\ pending' = None
      /\ cat' = IF Len(figures) = 1 THEN AssociatePending(scan, figures[1]) ELSE Unresolved(scan)
      /\ last' = IF figures = <<>> THEN None ELSE Last(figures)
  BY DEF Prose, Read
<1>2. read \in Nat /\ Counted(cat)
  BY DEF IInv, Scanned
<1>3. /\ IsElement(f, read + 1)
      /\ \A type \in Core : \E k \in Nat : Adds(f, type, k)
      /\ \A id \in DOMAIN Figures(p) : id \in DOMAIN f /\ f[id] = Figures(p)[id]
  BY <1>2, ParagraphIs
<1>. HIDE DEF f
<1>4. /\ Scanned(scan, read + 1)
      /\ \A x \in DOMAIN f : x \in DOMAIN scan /\ scan[x] = f[x]
      /\ Waits(scan, pending, read + 1)
  BY <1>3, ElementScanned
<1>. HIDE DEF scan
<1>5. ASSUME NEW i \in DOMAIN p.figures
      PROVE  IsTarget(scan, figures[i]) /\ scan[figures[i]].body = read + 1
  <2>1. figures[i] \in DOMAIN Figures(p) /\ Len(figures[i]) = 2
    BY DEF Figures
  <2>. HIDE DEF figures
  <2>2. scan[figures[i]] = Figures(p)[figures[i]] /\ figures[i] \in DOMAIN scan
    BY <1>3, <1>4, <2>1
  <2>3. Figures(p)[figures[i]].type = "figure" /\ Figures(p)[figures[i]].body = read + 1
    BY <1>2, <2>1, FiguresAre DEF IsElement
  <2>. QED
    BY <2>1, <2>2, <2>3 DEF IsTarget
<1>6. /\ DOMAIN p.figures = 1..Len(p.figures) /\ Len(p.figures) \in Nat
      /\ Len(figures) = Len(p.figures)
      /\ figures = <<>> <=> Len(p.figures) = 0
  <2>1. DOMAIN p.figures = 1..Len(p.figures) /\ Len(p.figures) \in Nat
    BY ParagraphsAssumption
  <2>. DEFINE n == Len(p.figures)
              e(i) == <<"figure", Count("figure") + i>>
  <2>2. figures = [i \in 1..n |-> e(i)]
    BY <2>1
  <2>. HIDE DEF figures, n, e
  <2>3. Len(figures) = n
    BY <2>1, <2>2 DEF n
  <2>4. figures \in Seq({e(i) : i \in 1..n})
    BY <2>1, <2>2 DEF n
  <2>. QED
    BY <2>1, <2>3, <2>4 DEF n
<1>. HIDE DEF figures
<1>7. Scanned(cat', read + 1) /\ Alike(scan, cat')
  <2>1. CASE Len(figures) = 1
    <3>1. IsTarget(scan, figures[1]) /\ scan[figures[1]].body = read + 1
      BY <1>5, <1>6, <2>1
    <3>2. cat' = AssociatePending(scan, figures[1])
      BY <1>1, <2>1
    <3>. QED
      BY <1>2, <1>4, <3>1, <3>2, AssociateKeeps
  <2>2. CASE Len(figures) # 1
    <3>1. cat' = Unresolved(scan)
      BY <1>1, <2>2
    <3>. QED
      BY <1>4, <3>1, UnresolvedKeeps
  <2>. QED
    BY <2>1, <2>2
<1>8. IsLast(cat', last')
  <2>1. CASE figures = <<>>
    BY <1>1, <2>1 DEF IsLast
  <2>2. CASE figures # <<>>
    <3>1. Len(figures) \in DOMAIN p.figures
      BY <1>6, <2>2
    <3>2. last' = figures[Len(figures)]
      BY <1>1, <2>2 DEF Last
    <3>3. IsLast(scan, last')
      BY <1>2, <1>4, <1>5, <3>1, <3>2, AnswerIsLast
    <3>4. Shaped(scan, read + 1) /\ Counted(scan)
      BY <1>4 DEF Scanned
    <3>. QED
      BY <1>7, <3>3, <3>4, AlikeKeeps
  <2>. QED
    BY <2>1, <2>2
<1>9. Scanned(cat', read') /\ Waits(cat', pending', read' + 1) /\ read' \in Nat
  BY <1>1, <1>2, <1>7 DEF Waits
<1>. QED
  BY <1>8, <1>9 DEF IInv

LEMMA FinishKeeps ==
    ASSUME IInv, Finish
    PROVE  IInv'
<1>. DEFINE c == Unresolved(cat)
<1>1. cat' = Resolved(c) /\ pending' = None /\ UNCHANGED <<read, last>>
  BY DEF Finish
<1>2. Scanned(c, read) /\ Alike(cat, c)
  BY UnresolvedKeeps DEF IInv
<1>. HIDE DEF c
<1>3. Scanned(cat', read) /\ Alike(c, cat')
  BY <1>1, <1>2, ResolvedKeeps
<1>4. IsLast(c, last)
  BY <1>2, AlikeKeeps DEF IInv, Scanned
<1>5. IsLast(cat', last)
  BY <1>2, <1>3, <1>4, AlikeKeeps DEF Scanned
<1>6. Waits(cat', pending', read' + 1)
  BY <1>1 DEF Waits
<1>7. Scanned(cat', read') /\ IsLast(cat', last') /\ read' \in Nat
  BY <1>1, <1>3, <1>5 DEF IInv
<1>. QED
  BY <1>6, <1>7 DEF IInv

(* What a table holds is an element of the body without numbered objects. *)
IsInner(f) == \A id \in DOMAIN f : Len(id) # 2

LEMMA InnerIs ==
    ASSUME NEW t
    PROVE  /\ IsElement(NestedRecords(t), read + 1) /\ IsInner(NestedRecords(t))
           /\ IsElement(CellRecords(t), read + 1) /\ IsInner(CellRecords(t))
           /\ IsElement(LogicalRecords(t), read + 1) /\ IsInner(LogicalRecords(t))
           /\ IsElement(RowRecords(t), read + 1) /\ IsInner(RowRecords(t))
<1>1. IsElement(RowRecords(t), read + 1) /\ IsInner(RowRecords(t))
  <2>1. \A id \in DOMAIN RowRecords(t) :
            /\ id[1] = "row" /\ Len(id) = 3
            /\ {"type", "status", "body"} \subseteq DOMAIN RowRecords(t)[id]
            /\ RowRecords(t)[id].type = "row" /\ RowRecords(t)[id].body = read + 1
    BY DEF RowRecords, Position
  <2>. QED
    BY <2>1 DEF IsElement, IsRecord, IsInner
<1>2. IsElement(LogicalRecords(t), read + 1) /\ IsInner(LogicalRecords(t))
  <2>1. \A id \in DOMAIN LogicalRecords(t) :
            /\ id[1] = "logical_cell" /\ Len(id) = 3
            /\ {"type", "status", "body"} \subseteq DOMAIN LogicalRecords(t)[id]
            /\ LogicalRecords(t)[id].type = "logical_cell"
            /\ LogicalRecords(t)[id].body = read + 1
    BY DEF LogicalRecords, Position
  <2>. QED
    BY <2>1 DEF IsElement, IsRecord, IsInner
<1>3. IsElement(CellRecords(t), read + 1) /\ IsInner(CellRecords(t))
  <2>1. \A id \in DOMAIN CellRecords(t) :
            /\ id[1] = "cell" /\ Len(id) = 3
            /\ {"type", "status", "body"} \subseteq DOMAIN CellRecords(t)[id]
            /\ CellRecords(t)[id].type = "cell" /\ CellRecords(t)[id].body = read + 1
    BY DEF CellRecords, Position
  <2>. QED
    BY <2>1 DEF IsElement, IsRecord, IsInner
<1>4. IsElement(NestedRecords(t), read + 1) /\ IsInner(NestedRecords(t))
  <2>. DEFINE tables ==
                  [id \in {<<"table", t, i>> : i \in Nested} |->
                      [type |-> "table", status |-> "supported", body |-> Position,
                       value |-> <<(<<(<<"w">>)>>)>>, rows |-> 1, columns |-> 1,
                       siblings |-> 1, eligible |-> FALSE]]
              cells ==
                  [id \in {<<"cell", t, i, 1>> : i \in Nested} |->
                      [type |-> "cell", status |-> "supported", body |-> Position,
                       table |-> <<"table", t, id[3]>>, row |-> 1, column |-> 1, width |-> 1,
                       merge |-> "none", logical |-> 1, origin |-> id, value |-> <<"w">>]]
  <2>1. NestedRecords(t) = tables ++ cells
    BY DEF NestedRecords
  <2>2. \A id \in DOMAIN tables :
            /\ id[1] = "table" /\ Len(id) = 3
            /\ {"type", "status", "body", "siblings"} \subseteq DOMAIN tables[id]
            /\ tables[id].type = "table" /\ tables[id].body = read + 1
    BY DEF Position
  <2>3. \A id \in DOMAIN cells :
            /\ id[1] = "cell" /\ Len(id) = 4
            /\ {"type", "status", "body"} \subseteq DOMAIN cells[id]
            /\ cells[id].type = "cell" /\ cells[id].body = read + 1
    BY DEF Position
  <2>. HIDE DEF tables, cells
  <2>4. IsElement(tables, read + 1) /\ IsElement(cells, read + 1)
    BY <2>2, <2>3 DEF IsElement, IsRecord
  <2>5. IsInner(tables ++ cells)
    BY <2>2, <2>3 DEF IsInner, ++
  <2>. QED
    BY <2>1, <2>4, <2>5, UnionOfElements
<1>. QED
  BY <1>1, <1>2, <1>3, <1>4

InnerRecords(t) ==
    NestedRecords(t) ++ CellRecords(t) ++ LogicalRecords(t) ++ RowRecords(t)

(* The records of a table that is closed, beside those found before it. *)
LEMMA TableScanned ==
    ASSUME IInv, NEW t, t = Count("table") + 1
    PROVE  LET id   == <<"table", t>>
               f    == InnerRecords(t) ++ Only(id, TableRecord)
               scan == f ++ cat
           IN  /\ id \in DOMAIN f /\ f[id] = TableRecord
               /\ Scanned(scan, read + 1)
               /\ \A x \in DOMAIN f : x \in DOMAIN scan /\ scan[x] = f[x]
               /\ Waits(scan, pending, read + 1)
<1>. DEFINE id    == <<"table", t>>
            inner == InnerRecords(t)
            own   == Only(id, TableRecord)
            f     == inner ++ own
            scan  == f ++ cat
<1>1. read \in Nat /\ Counted(cat)
  BY DEF IInv, Scanned
<1>2. IsElement(inner, read + 1) /\ IsInner(inner)
  <2>. DEFINE a == NestedRecords(t) ++ CellRecords(t)
              b == a ++ LogicalRecords(t)
  <2>1. IsElement(a, read + 1) /\ IsInner(a)
    BY InnerIs, UnionOfElements DEF IsInner, ++
  <2>. HIDE DEF a
  <2>2. IsElement(b, read + 1) /\ IsInner(b)
    BY <2>1, InnerIs, UnionOfElements DEF IsInner, ++
  <2>3. inner = b ++ RowRecords(t)
    BY DEF a, InnerRecords
  <2>. HIDE DEF b, inner
  <2>. QED
    BY <2>2, <2>3, InnerIs, UnionOfElements DEF IsInner, ++
<1>. HIDE DEF inner
<1>3. /\ {"type", "status", "body", "siblings"} \subseteq DOMAIN TableRecord
      /\ TableRecord.type = "table" /\ TableRecord.body = read + 1
  BY DEF TableRecord, Position
<1>4. id[1] = "table" /\ Len(id) = 2
  OBVIOUS
<1>5. DOMAIN own = {id} /\ own[id] = TableRecord
  BY OnlyIs
<1>. HIDE DEF own
<1>6. IsElement(own, read + 1)
  BY <1>3, <1>4, <1>5 DEF IsElement, IsRecord
<1>7. IsElement(f, read + 1)
  BY <1>2, <1>6, UnionOfElements
<1>8. /\ Numbered(f, "table") = {id}
      /\ \A type : type # "table" => Numbered(f, type) = {}
  <2>1. \A type : Numbered(inner, type) = {}
    BY <1>2 DEF Numbered, IsInner
  <2>2. Numbered(own, "table") = {id} /\ \A type : type # "table" => Numbered(own, type) = {}
    BY <1>4, <1>5 DEF Numbered
  <2>. QED
    BY <2>1, <2>2, UnionNumbers
<1>9. \A type \in Core : \E k \in Nat : Adds(f, type, k)
  <2>1. Adds(f, "table", 1)
    BY <1>8 DEF Adds
  <2>2. \A type \in Core : type # "table" => Adds(f, type, 0)
    BY <1>8 DEF Adds
  <2>. QED
    BY <2>1, <2>2
<1>10. id \in DOMAIN f /\ f[id] = TableRecord
  BY <1>2, <1>4, <1>5 DEF ++, IsInner
<1>. HIDE DEF f, id
<1>11. /\ Scanned(scan, read + 1)
       /\ \A x \in DOMAIN f : x \in DOMAIN scan /\ scan[x] = f[x]
       /\ Waits(scan, pending, read + 1)
  BY <1>7, <1>9, ElementScanned
<1>. QED
  BY <1>10, <1>11 DEF f, id, inner, own

LEMMA CloseTableKeeps ==
    ASSUME IInv, CloseTable
    PROVE  IInv'
<1>. DEFINE t    == Count("table") + 1
            id   == <<"table", t>>
            f    == InnerRecords(t) ++ Only(id, TableRecord)
            scan == f ++ cat
<1>1. /\ read' = read + 1 /\ pending' = None /\ last' = id
      /\ cat' = AssociatePending(scan, id)
  BY DEF CloseTable, Read, InnerRecords
<1>2. read \in Nat
  BY DEF IInv
<1>3. TableRecord.type = "table" /\ TableRecord.body = read + 1
  BY DEF TableRecord, Position
<1>4. id[1] = "table" /\ Len(id) = 2
  OBVIOUS
<1>5. /\ id \in DOMAIN f /\ f[id] = TableRecord
       /\ Scanned(scan, read + 1)
       /\ \A x \in DOMAIN f : x \in DOMAIN scan /\ scan[x] = f[x]
       /\ Waits(scan, pending, read + 1)
  <2>. HIDE DEF t
  <2>1. t = Count("table") + 1
    BY DEF t
  <2>. QED
    BY <2>1, TableScanned
<1>. HIDE DEF scan, f, id
<1>6. IsTarget(scan, id) /\ scan[id].body = read + 1
  BY <1>3, <1>4, <1>5 DEF IsTarget
<1>7. Scanned(cat', read + 1) /\ Alike(scan, cat')
  BY <1>1, <1>2, <1>5, <1>6, AssociateKeeps
<1>8. IsLast(cat', id)
  <2>1. IsLast(scan, id) /\ Shaped(scan, read + 1) /\ Counted(scan)
    BY <1>2, <1>5, <1>6, AnswerIsLast DEF Scanned
  <2>. QED
    BY <1>7, <2>1, AlikeKeeps
<1>9. Waits(cat', pending', read' + 1)
  BY <1>1 DEF Waits
<1>10. Scanned(cat', read') /\ IsLast(cat', last') /\ read' \in Nat
  BY <1>1, <1>2, <1>7, <1>8
<1>. QED
  BY <1>9, <1>10 DEF IInv

LEMMA InitHolds ==
    ASSUME CanonInit
    PROVE  IInv
<1>. DEFINE id   == <<"section", 1>>
            head == [type |-> "section", status |-> "supported", body |-> 0,
                     level |-> 0, value |-> <<>>]
<1>1. read = 0 /\ cat = Only(id, head) /\ pending = None /\ last = None
  BY DEF CanonInit
<1>2. id[1] = "section" /\ Len(id) = 2
  OBVIOUS
<1>3. /\ {"type", "status", "body"} \subseteq DOMAIN head
      /\ head.type = "section" /\ head.body = 0
  OBVIOUS
<1>. HIDE DEF head
<1>4. DOMAIN cat = {id} /\ cat[id] = head
  BY <1>1, OnlyIs
<1>5. Counted(cat)
  <2>1. Numbered(cat, "section") = {<<"section", i>> : i \in 1..1}
    BY <1>4 DEF Numbered
  <2>2. \A type \in Core : type # "section" => Numbered(cat, type) = {<<type, i>> : i \in 1..0}
    BY <1>4 DEF Numbered
  <2>. QED
    BY <2>1, <2>2 DEF Counted
<1>. HIDE DEF id
<1>6. Shaped(cat, read) /\ Attached(cat)
  BY <1>1, <1>2, <1>3, <1>4 DEF Shaped, IsRecord, Attached
<1>. QED
  BY <1>1, <1>5, <1>6 DEF IInv, Scanned, Waits, IsLast

LEMMA CanonicalizeKeeps ==
    ASSUME IInv, Canonicalize
    PROVE  IInv'
<1>1. ASSUME NEW p \in Paragraphs, Skip(p) PROVE IInv'
  BY <1>1, SkipKeeps
<1>2. ASSUME NEW p \in Paragraphs, Heading(p) PROVE IInv'
  BY <1>2, HeadingKeeps
<1>3. ASSUME NEW p \in Paragraphs, Caption(p) PROVE IInv'
  BY <1>3, CaptionKeeps
<1>4. ASSUME NEW p \in Paragraphs, Prose(p) PROVE IInv'
  BY <1>4, ProseKeeps
<1>5. ASSUME NEW g \in Grids, OpenTable(g) PROVE IInv'
  <2>1. UNCHANGED <<read, cat, pending, last>>
    BY <1>5 DEF OpenTable
  <2>. QED
    BY <2>1 DEF IInv
<1>6. ASSUME NEW r \in Rows, Row(r) PROVE IInv'
  <2>1. UNCHANGED <<read, cat, pending, last>>
    BY <1>6 DEF Row
  <2>. QED
    BY <2>1 DEF IInv
<1>7. ASSUME CloseTable PROVE IInv'
  BY <1>7, CloseTableKeeps
<1>8. ASSUME Finish PROVE IInv'
  BY <1>8, FinishKeeps
<1>. QED
  BY <1>1, <1>2, <1>3, <1>4, <1>5, <1>6, <1>7, <1>8 DEF Canonicalize

(* Inductive: what the scan has read is shaped, numbered and attached as    *)
(* IInv says, in every reachable state of the pipeline.                     *)
THEOREM Inductive == Spec => []IInv
<1>1. Init => IInv
  BY InitHolds DEF Init
<1>2. IInv /\ [Next]_vars => IInv'
  <2>. SUFFICES ASSUME IInv, [Next]_vars PROVE IInv'
    OBVIOUS
  <2>1. CASE Scan
    BY <2>1, CanonicalizeKeeps DEF Scan
  <2>2. CASE UNCHANGED canonVars
    BY <2>2 DEF canonVars, IInv
  <2>3. (Ingest \/ Load \/ Return \/ UNCHANGED vars) => UNCHANGED canonVars
    BY DEF Ingest, Load, Return, vars
  <2>. QED
    BY <2>1, <2>2, <2>3 DEF Next
<1>. QED
  BY <1>1, <1>2, PTL DEF Spec

LEMMA AttachedIsAdjacent ==
    ASSUME IInv
    PROVE  CaptionIsAdjacent
<1>. SUFFICES ASSUME NEW b \in DOMAIN cat, cat[b].type = "block", cat[b].target # None
              PROVE  LET target  == cat[cat[b].target]
                         between == {id \in DOMAIN cat :
                             \/ cat[b].body < cat[id].body /\ cat[id].body < target.body
                             \/ target.body < cat[id].body /\ cat[id].body < cat[b].body}
                     IN  /\ Fits(cat[b], target)
                         /\ \A id \in between : \E h \in between, f \in between :
                               /\ cat[h].body = cat[id].body /\ cat[f].body = cat[id].body
                               /\ cat[h].type = "section"
                               /\ cat[f].type \in {"figure", "equation"}
                               /\ cat[b].body < cat[id].body
  BY DEF CaptionIsAdjacent
<1>. DEFINE t       == cat[b].target
            between == {id \in DOMAIN cat :
                           \/ cat[b].body < cat[id].body /\ cat[id].body < cat[t].body
                           \/ cat[t].body < cat[id].body /\ cat[id].body < cat[b].body}
<1>1. Belongs(cat, b, t)
  BY DEF IInv, Scanned, Attached
<1>2. ASSUME NEW id \in between
      PROVE  \E h \in between, f \in between :
                /\ cat[h].body = cat[id].body /\ cat[f].body = cat[id].body
                /\ cat[h].type = "section" /\ cat[f].type \in {"figure", "equation"}
                /\ cat[b].body < cat[id].body
  <2>. HIDE DEF t
  <2>1. cat[b].body < cat[id].body /\ cat[id].body < cat[t].body
    BY <1>1, <1>2 DEF Belongs
  <2>2. RichHeadingAt(cat, cat[id].body)
    BY <1>1, <1>2, <2>1 DEF Belongs, OnlyHeadingsBelow
  <2>3. PICK h \in DOMAIN cat, f \in DOMAIN cat :
            /\ cat[h].type = "section" /\ cat[f].type \in {"figure", "equation"}
            /\ cat[h].body = cat[id].body /\ cat[f].body = cat[id].body
    BY <2>2 DEF RichHeadingAt
  <2>4. h \in between /\ f \in between
    BY <2>1, <2>3
  <2>. QED
    BY <2>1, <2>3, <2>4
<1>3. Fits(cat[b], cat[t])
  BY <1>1 DEF Belongs
<1>. QED
  BY <1>2, <1>3

(* CaptionsAreAdjacent: whatever a document holds, a caption is attached    *)
(* only to a figure or a table that its label allows, right above it or    *)
(* below it with nothing but headings in between that hold a figure or an  *)
(* equation.                                                               *)
THEOREM CaptionsAreAdjacent == Spec => []CaptionIsAdjacent
  BY Inductive, AttachedIsAdjacent, PTL

-----------------------------------------------------------------------------
(* What a match is made of, and that it depends on the catalog and the      *)
(* index alone.                                                             *)

Whole(sel, g) ==
    HasFootprint(g) /\ FootprintCells(sel, g) = TableCells(Locator[g].obj)

SomeCells(sel, g) == HasFootprint(g) /\ FootprintCells(sel, g) # {}

Matches(sel, g) ==
    \/ \E i \in DOMAIN sel : MatchEvidence(sel[i], g)
    \/ Whole(sel, g)
    \/ ~ SomeCells(sel, g) /\ WholeFromParts(sel, g)

LEMMA MatchedMatches ==
    ASSUME NEW sel, NEW g
    PROVE  Localize(sel, g).status = "matched" <=> Matches(sel, g)
<1>. DEFINE exact   == {i \in DOMAIN sel : MatchEvidence(sel[i], g)}
            pieces  == {p \in Pieces(sel, g) : p.rank \notin exact}
            unknown == {i \in DOMAIN sel : /\ i \notin exact
                                           /\ PartialPiece(sel[i], g) = None
                                           /\ ReferencesGold(sel[i], g)}
<1>1. Localize(sel, g) =
          IF exact # {} THEN Is("matched", Min(exact))
          ELSE IF Whole(sel, g) THEN Is("matched", FootprintRank(sel, g))
          ELSE IF SomeCells(sel, g) THEN Is("partial", FootprintRank(sel, g))
          ELSE IF WholeFromParts(sel, g) THEN Is("matched", UnionRank(sel, g))
          ELSE IF pieces # {} THEN Is("partial", Max({p.rank : p \in pieces}))
          ELSE IF unknown # {} /\ ~ ProvenMiss(sel, g)
               THEN Is("provenance_missing", Min(unknown))
          ELSE Is("retrieval_missed", 0)
  BY DEF Localize, Whole, SomeCells
<1>2. \A status, rank : Is(status, rank).status = status
  BY DEF Is
<1>3. exact # {} <=> \E i \in DOMAIN sel : MatchEvidence(sel[i], g)
  OBVIOUS
<1>4. "partial" # "matched" /\ "provenance_missing" # "matched" /\ "retrieval_missed" # "matched"
  OBVIOUS
<1>. HIDE DEF exact, pieces, unknown
<1>5. CASE exact # {}
  BY <1>1, <1>2, <1>3, <1>5 DEF Matches
<1>6. CASE exact = {} /\ Whole(sel, g)
  BY <1>1, <1>2, <1>6 DEF Matches
<1>7. CASE exact = {} /\ ~ Whole(sel, g) /\ SomeCells(sel, g)
  BY <1>1, <1>2, <1>3, <1>4, <1>7 DEF Matches
<1>8. CASE exact = {} /\ ~ Whole(sel, g) /\ ~ SomeCells(sel, g)
  BY <1>1, <1>2, <1>3, <1>4, <1>8 DEF Matches
<1>. QED
  BY <1>5, <1>6, <1>7, <1>8

LEMMA IndexReads ==
    ASSUME UNCHANGED <<index, Record>>
    PROVE  /\ \A item, o : EdgesForItem(item, o)' = EdgesForItem(item, o)
           /\ \A item : ObjectsOfRuntime(item)' = ObjectsOfRuntime(item)
           /\ \A o : HasCompleteExtent(o)' = HasCompleteExtent(o)
           /\ \A t : TableCells(t)' = TableCells(t)
           /\ \A t : HasTableFootprint(t)' = HasTableFootprint(t)
           /\ \A x : ObjectsForLocator(x)' = ObjectsForLocator(x)
           /\ \A e : EdgeLocator(e)' = EdgeLocator(e)
           /\ \A e, g : EdgeNames(e, g)' = EdgeNames(e, g)
           /\ \A e, g : EdgeProves(e, g)' = EdgeProves(e, g)
<1>1. \A o : RuntimeEdges(o)' = RuntimeEdges(o)
  BY DEF RuntimeEdges
<1>2. \A item, o : EdgesForItem(item, o)' = EdgesForItem(item, o)
  BY <1>1 DEF EdgesForItem
<1>3. \A item : ObjectsOfRuntime(item)' = ObjectsOfRuntime(item)
  BY DEF ObjectsOfRuntime
<1>4. \A o : HasCompleteExtent(o)' = HasCompleteExtent(o)
  BY DEF HasCompleteExtent
<1>5. \A t : TableCells(t)' = TableCells(t)
  BY DEF TableCells
<1>6. \A t : HasTableFootprint(t)' = HasTableFootprint(t)
  BY <1>1, <1>4, <1>5 DEF HasTableFootprint, HasVerifiedObject
<1>7. \A x : ObjectsForLocator(x)' = ObjectsForLocator(x)
  BY DEF ObjectsForLocator
<1>8. \A e : EdgeLocator(e)' = EdgeLocator(e)
  BY DEF EdgeLocator
<1>9. \A e, g : EdgeNames(e, g)' = EdgeNames(e, g)
  BY <1>8 DEF EdgeNames
<1>10. \A e, g : EdgeProves(e, g)' = EdgeProves(e, g)
  BY <1>9 DEF EdgeProves
<1>. QED
  BY <1>2, <1>3, <1>4, <1>5, <1>6, <1>7, <1>8, <1>9, <1>10

LEMMA EdgeReads ==
    ASSUME UNCHANGED <<index, Record>>
    PROVE  /\ \A item, g : EdgeForGold(item, g)' = EdgeForGold(item, g)
           /\ \A g : TargetObjects(g)' = TargetObjects(g)
           /\ \A g : ExpectedSpan(g)' = ExpectedSpan(g)
<1>1. ASSUME NEW item, NEW g
      PROVE  EdgesForGold(item, g)' = EdgesForGold(item, g)
  <2>. DEFINE claimed == {e \in item.claims : EdgeNames(e, g)}
              trusted == UNION {EdgesForItem(item, o) : o \in ObjectsForLocator(Locator[g])}
  <2>1. claimed' = claimed
    BY IndexReads
  <2>2. {EdgesForItem(item, o) : o \in ObjectsForLocator(Locator[g])}'
            = {EdgesForItem(item, o) : o \in ObjectsForLocator(Locator[g])}
    BY IndexReads
  <2>3. trusted' = trusted
    BY <2>2
  <2>4. EdgesForGold(item, g) = IF claimed # {} THEN claimed ELSE trusted
    BY DEF EdgesForGold
  <2>5. EdgesForGold(item, g)' = IF claimed' # {} THEN claimed' ELSE trusted'
    BY DEF EdgesForGold
  <2>. QED
    BY <2>1, <2>3, <2>4, <2>5
<1>2. \A item, g : EdgeForGold(item, g)' = EdgeForGold(item, g)
  BY <1>1 DEF EdgeForGold
<1>3. \A g : TargetObjects(g)' = TargetObjects(g)
  BY IndexReads DEF TargetObjects
<1>4. \A g : GoldSpan(g)' = GoldSpan(g)
  BY DEF GoldSpan
<1>5. \A g : ExpectedSpan(g)' = ExpectedSpan(g)
  BY <1>3, <1>4 DEF ExpectedSpan
<1>. QED
  BY <1>2, <1>3, <1>5

LEMMA EvidenceReads ==
    ASSUME UNCHANGED <<index, Record>>
    PROVE  \A item, g : MatchEvidence(item, g)' = MatchEvidence(item, g)
<1>1. \A item, t : TableScopeVerified(item, t)' = TableScopeVerified(item, t)
  BY IndexReads DEF TableScopeVerified
<1>2. \A item, g, e : TableItemComplete(item, g, e)' = TableItemComplete(item, g, e)
  BY <1>1 DEF TableItemComplete
<1>3. \A item, g, e : FormalEdgeSupports(item, g, e)' = FormalEdgeSupports(item, g, e)
  BY IndexReads DEF FormalEdgeSupports
<1>4. \A item, g, e : EdgeCoversGold(item, g, e)' = EdgeCoversGold(item, g, e)
  BY <1>2, IndexReads DEF EdgeCoversGold
<1>5. \A item, g : DirectMatch(item, g)' = DirectMatch(item, g)
  BY <1>2, <1>3, <1>4, EdgeReads DEF DirectMatch
<1>. QED
  BY <1>5 DEF MatchEvidence

LEMMA PieceReads ==
    ASSUME UNCHANGED <<index, Record>>
    PROVE  \A item, g : PartialPiece(item, g)' = PartialPiece(item, g)
  BY IndexReads, EdgeReads DEF PartialPiece

LEMMA UnionReads ==
    ASSUME UNCHANGED <<index, Record>>
    PROVE  \A sel, g : WholeFromParts(sel, g)' = WholeFromParts(sel, g)
<1>. SUFFICES ASSUME NEW sel, NEW g PROVE WholeFromParts(sel, g)' = WholeFromParts(sel, g)
  OBVIOUS
<1>1. {j \in DOMAIN sel : PartialPiece(sel[j], g) # None}'
          = {j \in DOMAIN sel : PartialPiece(sel[j], g) # None}
  BY PieceReads
<1>2. \A i \in DOMAIN sel : PartialPiece(sel[i], g)' = PartialPiece(sel[i], g)
  BY PieceReads
<1>3. Pieces(sel, g)' = Pieces(sel, g)
  BY <1>1, <1>2 DEF Pieces
<1>. QED
  BY <1>3, EdgeReads DEF WholeFromParts

LEMMA CellReads ==
    ASSUME UNCHANGED <<index, Record>>
    PROVE  /\ \A sel, g : Whole(sel, g)' = Whole(sel, g)
           /\ \A sel, g : SomeCells(sel, g)' = SomeCells(sel, g)
           /\ \A sel, g : FootprintCells(sel, g)' = FootprintCells(sel, g)
<1>1. \A sel, o : CellItems(sel, o)' = CellItems(sel, o)
  BY IndexReads DEF CellItems
<1>2. \A sel, g : FootprintCells(sel, g)' = FootprintCells(sel, g)
  BY <1>1, IndexReads DEF FootprintCells
<1>3. \A g : HasFootprint(g)' = HasFootprint(g)
  BY IndexReads DEF HasFootprint
<1>. QED
  BY <1>2, <1>3, IndexReads DEF Whole, SomeCells

LEMMA MatchReads ==
    ASSUME UNCHANGED <<index, Record>>
    PROVE  \A sel, g : Matches(sel, g)' = Matches(sel, g)
  BY EvidenceReads, UnionReads, CellReads DEF Matches

\* What a match says of the items of the stage, before and after.
LEMMA MatchStays ==
    ASSUME UNCHANGED <<index, Record, items>>, NEW g
    PROVE  Matches(items, g)' = Matches(items, g)
  BY MatchReads

-----------------------------------------------------------------------------
(* A longer list: what a match of the shorter one becomes. *)

LEMMA LeastOf ==
    ASSUME NEW S \in SUBSET Nat, S # {}
    PROVE  \E n \in S : \A m \in S : n <= m
<1>. DEFINE R == {ss \in Nat \X Nat : ss[1] < ss[2]}
<1>1. IsWellFoundedOn(R, Nat)
  BY NatLessThanWellFounded DEF OpToRel
<1>. HIDE DEF R
<1>2. PICK n \in S : \A m \in S : <<m, n>> \notin R
  BY <1>1, WFMin
<1>3. \A m \in S : ~ (m < n)
  BY <1>2 DEF R
<1>. QED
  BY <1>2, <1>3

ArePieces(P) ==
    \A p \in P : /\ p.rank \in Nat
                 /\ p.span = <<p.span[1], p.span[2]>>
                 /\ p.span[1] \in Nat /\ p.span[2] \in Nat

(* Some piece comes before all others. *)
LEMMA FirstPiece ==
    ASSUME NEW P, ArePieces(P), P # {}
    PROVE  \E q \in P : \A r \in P : ~ PieceBefore(r, q)
<1>1. PICK a \in P : \A r \in P : a.span[1] <= r.span[1]
  <2>. DEFINE S == {r.span[1] : r \in P}
  <2>1. S \in SUBSET Nat /\ S # {}
    BY DEF ArePieces
  <2>2. PICK n \in S : \A m \in S : n <= m
    BY <2>1, LeastOf
  <2>3. \A r \in P : r.span[1] \in S
    OBVIOUS
  <2>. QED
    BY <2>2, <2>3
<1>. DEFINE A == {r \in P : r.span[1] = a.span[1]}
<1>2. PICK b \in A : \A r \in A : b.span[2] <= r.span[2]
  <2>. DEFINE S == {r.span[2] : r \in A}
  <2>1. S \in SUBSET Nat /\ S # {}
    BY DEF ArePieces
  <2>2. PICK n \in S : \A m \in S : n <= m
    BY <2>1, LeastOf
  <2>3. \A r \in A : r.span[2] \in S
    OBVIOUS
  <2>. QED
    BY <2>2, <2>3
<1>. DEFINE B == {r \in A : r.span[2] = b.span[2]}
<1>3. PICK q \in B : \A r \in B : q.rank <= r.rank
  <2>. DEFINE S == {r.rank : r \in B}
  <2>1. S \in SUBSET Nat /\ S # {}
    BY DEF ArePieces
  <2>2. PICK n \in S : \A m \in S : n <= m
    BY <2>1, LeastOf
  <2>3. \A r \in B : r.rank \in S
    OBVIOUS
  <2>. QED
    BY <2>2, <2>3
<1>4. ASSUME NEW r \in P, PieceBefore(r, q) PROVE FALSE
  <2>1. a.span[1] <= r.span[1] /\ q.span[1] = a.span[1] /\ q.span[2] = b.span[2]
    BY <1>1, <1>3
  <2>2. r.span[1] \in Nat /\ r.span[2] \in Nat /\ r.rank \in Nat
    BY DEF ArePieces
  <2>3. q.span[1] \in Nat /\ q.span[2] \in Nat /\ q.rank \in Nat
    BY <1>3 DEF ArePieces
  <2>4. r.span[1] = a.span[1]
    BY <1>4, <2>1, <2>2, <2>3 DEF PieceBefore
  <2>5. b.span[2] <= r.span[2]
    BY <1>2, <2>4
  <2>6. r.span[2] = b.span[2]
    BY <1>4, <2>1, <2>2, <2>3, <2>4, <2>5 DEF PieceBefore
  <2>7. q.rank <= r.rank
    BY <1>3, <2>4, <2>6
  <2>. QED
    BY <1>4, <2>1, <2>2, <2>3, <2>4, <2>6, <2>7 DEF PieceBefore
<1>. QED
  BY <1>3, <1>4

(* One more piece, inside the span and of the last item, leaves no gap. *)
LEMMA ConnectedGrows ==
    ASSUME NEW P, NEW span, Connected(P, span), NEW p, ArePieces(P \cup {p}),
           \A q \in P : q.rank < p.rank,
           span[1] \in Nat, span[2] \in Nat,
           p.span[1] <= p.span[2], p.span[2] <= span[2]
    PROVE  Connected(P \cup {p}, span)
<1>. DEFINE S == {q \in P : p.span[1] <= q.span[2]}
<1>0. /\ p.span[1] \in Nat /\ p.span[2] \in Nat /\ p.rank \in Nat
      /\ p.span = <<p.span[1], p.span[2]>>
  BY DEF ArePieces
<1>1. PICK end \in P : span[2] <= end.span[2]
  BY DEF Connected
<1>2. end.span[2] \in Nat
  BY DEF ArePieces
<1>3. end \in S
  BY <1>0, <1>1, <1>2
<1>4. ArePieces(S)
  BY DEF ArePieces
<1>5. PICK q \in S : \A r \in S : ~ PieceBefore(r, q)
  BY <1>3, <1>4, FirstPiece
<1>6. /\ q.span[1] \in Nat /\ q.span[2] \in Nat /\ q.rank \in Nat
      /\ q.span = <<q.span[1], q.span[2]>>
  BY DEF ArePieces
<1>7. Continues(P \cup {p}, span, p)
  <2>1. CASE PieceBefore(q, p)
    BY <2>1 DEF Continues
  <2>2. CASE ~ PieceBefore(q, p)
    <3>1. p.span[1] <= q.span[1]
      BY <1>0, <1>6, <2>2 DEF PieceBefore
    <3>2. Continues(P, span, q)
      BY DEF Connected
    <3>3. CASE q.span[1] <= span[1]
      BY <1>0, <1>6, <3>1, <3>3 DEF Continues
    <3>4. CASE \E r \in P : PieceBefore(r, q) /\ q.span[1] <= r.span[2]
      <4>1. PICK r \in P : PieceBefore(r, q) /\ q.span[1] <= r.span[2]
        BY <3>4
      <4>2. r.span[2] \in Nat
        BY DEF ArePieces
      <4>3. r \in S
        BY <1>0, <1>6, <3>1, <4>1, <4>2
      <4>. QED
        BY <1>5, <4>1, <4>3
    <3>. QED
      BY <3>2, <3>3, <3>4 DEF Continues
  <2>. QED
    BY <2>1, <2>2
<1>8. \A r \in P : Continues(P \cup {p}, span, r)
  BY DEF Connected, Continues
<1>. QED
  BY <1>1, <1>7, <1>8 DEF Connected

(* What the code checks of a piece. *)
LEMMA PieceIs ==
    ASSUME NEW item, NEW g, PartialPiece(item, g) # None, Locator[g].type # "span"
    PROVE  LET piece == PartialPiece(item, g)
               span  == ExpectedSpan(g)
           IN  /\ piece.obj = Locator[g].obj
               /\ IsSpan(span) /\ IsSpan(piece.span)
               /\ span[1] <= piece.span[1] /\ piece.span[2] <= span[2]
<1>. DEFINE edge     == EdgeForGold(item, g)
            observed == IF item.locator # None /\ item.locator.type = "span"
                        THEN item.locator.span ELSE edge.overlap
<1>1. /\ PartialPiece(item, g) = [obj |-> edge.obj, span |-> observed]
      /\ ExpectedSpan(g) # None /\ IsSpan(ExpectedSpan(g)) /\ IsSpan(observed)
      /\ Holds(ExpectedSpan(g), observed)
      /\ TargetObjects(g) # {} => edge.obj \in TargetObjects(g)
  BY DEF PartialPiece
<1>. HIDE DEF edge, observed
<1>2. TargetObjects(g) # {}
  BY <1>1 DEF ExpectedSpan
<1>3. TargetObjects(g) \subseteq {Locator[g].obj}
  BY DEF TargetObjects, ObjectsForLocator
<1>. QED
  BY <1>1, <1>2, <1>3 DEF Holds

LEMMA PiecesGrow ==
    ASSUME NEW T, NEW sel \in Seq(T), NEW item \in T, NEW g, Locator[g].type # "span",
           WholeFromParts(sel, g)
    PROVE  WholeFromParts(Append(sel, item), g)
<1>. DEFINE n      == Len(sel)
            longer == Append(sel, item)
            span   == ExpectedSpan(g)
            new    == [rank |-> n + 1, obj |-> PartialPiece(item, g).obj,
                       span |-> PartialPiece(item, g).span]
<1>1. /\ n \in Nat /\ DOMAIN sel = 1..n /\ DOMAIN longer = 1..(n + 1)
      /\ \A i \in 1..n : longer[i] = sel[i]
      /\ longer[n + 1] = item
  BY AppendProperties
<1>. HIDE DEF longer, n
<1>2. ASSUME NEW p \in Pieces(longer, g)
      PROVE  /\ p.rank \in 1..(n + 1) /\ p.obj = Locator[g].obj
             /\ IsSpan(p.span) /\ IsSpan(span)
             /\ span[1] <= p.span[1] /\ p.span[2] <= span[2]
  <2>1. PICK i \in DOMAIN longer :
            /\ PartialPiece(longer[i], g) # None
            /\ p = [rank |-> i, obj |-> PartialPiece(longer[i], g).obj,
                    span |-> PartialPiece(longer[i], g).span]
    BY DEF Pieces
  <2>2. p.rank = i /\ p.obj = PartialPiece(longer[i], g).obj
                   /\ p.span = PartialPiece(longer[i], g).span
    BY <2>1
  <2>. QED
    BY <1>1, <2>1, <2>2, PieceIs
<1>3. Pieces(longer, g) = Pieces(sel, g)
                          \cup (IF PartialPiece(item, g) # None THEN {new} ELSE {})
  <2>1. ASSUME NEW p \in Pieces(longer, g)
        PROVE  p \in Pieces(sel, g) \/ (PartialPiece(item, g) # None /\ p = new)
    <3>1. PICK i \in DOMAIN longer :
              /\ PartialPiece(longer[i], g) # None
              /\ p = [rank |-> i, obj |-> PartialPiece(longer[i], g).obj,
                      span |-> PartialPiece(longer[i], g).span]
      BY DEF Pieces
    <3>2. CASE i = n + 1
      BY <1>1, <3>1, <3>2
    <3>3. CASE i \in 1..n
      BY <1>1, <3>1, <3>3 DEF Pieces
    <3>. QED
      BY <1>1, <3>2, <3>3
  <2>2. ASSUME NEW p \in Pieces(sel, g) PROVE p \in Pieces(longer, g)
    <3>1. PICK i \in DOMAIN sel :
              /\ PartialPiece(sel[i], g) # None
              /\ p = [rank |-> i, obj |-> PartialPiece(sel[i], g).obj,
                      span |-> PartialPiece(sel[i], g).span]
      BY DEF Pieces
    <3>2. i \in DOMAIN longer /\ longer[i] = sel[i]
      BY <1>1
    <3>. QED
      BY <3>1, <3>2 DEF Pieces
  <2>3. ASSUME PartialPiece(item, g) # None PROVE new \in Pieces(longer, g)
    <3>1. n + 1 \in DOMAIN longer /\ longer[n + 1] = item
      BY <1>1
    <3>. QED
      BY <2>3, <3>1 DEF Pieces
  <2>. HIDE DEF new
  <2>. QED
    BY <2>1, <2>2, <2>3
<1>4. ArePieces(Pieces(longer, g))
  BY <1>1, <1>2 DEF ArePieces, IsSpan
<1>5. \A p \in Pieces(sel, g) : p.rank \in 1..n
  BY <1>1 DEF Pieces
<1>6. Connected(Pieces(sel, g), span)
  BY DEF WholeFromParts
<1>7. Connected(Pieces(longer, g), span)
  <2>1. CASE PartialPiece(item, g) = None
    BY <1>3, <1>6, <2>1
  <2>2. CASE PartialPiece(item, g) # None
    <3>1. Pieces(longer, g) = Pieces(sel, g) \cup {new} /\ new \in Pieces(longer, g)
      BY <1>3, <2>2
    <3>2. new.rank = n + 1
      OBVIOUS
    <3>. HIDE DEF new, span
    <3>3. /\ IsSpan(new.span) /\ IsSpan(span)
          /\ span[1] <= new.span[1] /\ new.span[2] <= span[2]
      BY <1>2, <3>1
    <3>4. \A p \in Pieces(sel, g) : p.rank < new.rank
      BY <1>1, <1>5, <3>2
    <3>5. /\ span[1] \in Nat /\ span[2] \in Nat
          /\ new.span[1] \in Nat /\ new.span[2] \in Nat
          /\ new.span[1] <= new.span[2]
      BY <3>3 DEF IsSpan
    <3>. QED
      BY <1>4, <1>6, <3>1, <3>3, <3>4, <3>5, ConnectedGrows
  <2>. QED
    BY <2>1, <2>2
<1>. QED
  BY <1>2, <1>7 DEF WholeFromParts, longer

LEMMA MatchGrows ==
    ASSUME NEW T, NEW sel \in Seq(T), NEW item \in T, NEW g, Locator[g].type # "span",
           Matches(sel, g)
    PROVE  LET longer == Append(sel, item)
           IN  Matches(longer, g) \/ (SomeCells(longer, g) /\ ~ Whole(longer, g))
<1>. DEFINE n      == Len(sel)
            longer == Append(sel, item)
<1>. SUFFICES Matches(longer, g) \/ (SomeCells(longer, g) /\ ~ Whole(longer, g))
  OBVIOUS
<1>1. /\ n \in Nat /\ DOMAIN sel = 1..n /\ DOMAIN longer = 1..(n + 1)
      /\ \A i \in 1..n : longer[i] = sel[i]
  BY AppendProperties
<1>2. \A i \in DOMAIN sel : i \in DOMAIN longer /\ longer[i] = sel[i]
  BY <1>1
<1>3. WholeFromParts(sel, g) => WholeFromParts(longer, g)
  BY PiecesGrow
<1>. HIDE DEF longer
<1>4. \A o : CellItems(sel, o) \subseteq CellItems(longer, o)
  BY <1>2 DEF CellItems
<1>5. /\ FootprintCells(sel, g) \subseteq FootprintCells(longer, g)
      /\ FootprintCells(longer, g) \subseteq TableCells(Locator[g].obj)
  BY <1>4 DEF FootprintCells
<1>6. CASE \E i \in DOMAIN sel : MatchEvidence(sel[i], g)
  BY <1>2, <1>6 DEF Matches
<1>7. CASE Whole(sel, g)
  BY <1>5, <1>7 DEF Matches, Whole
<1>8. CASE WholeFromParts(sel, g)
  BY <1>3, <1>8 DEF Matches
<1>. QED
  BY <1>6, <1>7, <1>8 DEF Matches

(* What the localization of the stage rests on. *)
Localized ==
    /\ items \in Seq(ToSet(items))
    /\ Loaded => Ingested
    /\ items # <<>> => Loaded
    /\ \A g \in Golds : loc[g].status = "matched" => Matches(items, g)

LEMMA SeqGrows ==
    ASSUME NEW sel, sel \in Seq(ToSet(sel)), NEW item
    PROVE  /\ sel \in Seq(ToSet(sel) \cup {item})
           /\ Append(sel, item) \in Seq(ToSet(Append(sel, item)))
<1>. DEFINE T == ToSet(sel) \cup {item}
            n == Len(sel)
<1>1. sel \in Seq(T)
  <2>1. n \in Nat /\ DOMAIN sel = 1..n /\ sel \in [1..n -> ToSet(sel)]
    BY LenProperties
  <2>2. sel \in [1..n -> T]
    BY <2>1
  <2>. QED
    BY <2>1, <2>2
<1>2. /\ Append(sel, item) \in Seq(T) /\ DOMAIN Append(sel, item) = 1..(n + 1)
      /\ Len(Append(sel, item)) = n + 1 /\ n + 1 \in Nat
  BY <1>1, AppendProperties
<1>. DEFINE longer == Append(sel, item)
<1>. HIDE DEF longer, n
<1>3. longer = [i \in 1..(n + 1) |-> longer[i]]
  <2>1. longer \in [1..(n + 1) -> T]
    BY <1>2, LenProperties DEF longer
  <2>. QED
    BY <2>1
<1>4. \A i \in 1..(n + 1) : longer[i] \in ToSet(longer)
  BY <1>2 DEF ToSet, longer
<1>5. longer \in [1..(n + 1) -> ToSet(longer)]
  BY <1>3, <1>4
<1>6. longer \in Seq(ToSet(longer))
  BY <1>2, <1>5
<1>. QED
  BY <1>1, <1>6 DEF longer

LEMMA NothingMatches ==
    ASSUME NEW g
    PROVE  ~ Matches(<<>>, g)
<1>1. FootprintCells(<<>>, g) = {}
  BY DEF FootprintCells, CellItems
<1>2. ~ Whole(<<>>, g)
  BY <1>1 DEF Whole, HasFootprint, HasTableFootprint
<1>3. Pieces(<<>>, g) = {}
  BY DEF Pieces
<1>4. ~ WholeFromParts(<<>>, g)
  BY <1>3 DEF WholeFromParts, Connected
<1>. QED
  BY <1>2, <1>4 DEF Matches

(* The step that returns an item localizes the longer list. *)
LEMMA ReturnLocalizes ==
    ASSUME Localized, Return
    PROVE  /\ items' \in Seq(ToSet(items')) /\ items' # <<>>
           /\ UNCHANGED <<index, Record, written>>
           /\ \A g \in Golds : loc'[g].status = "matched" <=> Matches(items', g)
           /\ \A g : Locator[g].type # "span" /\ Matches(items, g) =>
                 Matches(items', g) \/ (SomeCells(items', g) /\ ~ Whole(items', g))
<1>1. PICK item : items' = Append(items, item)
  BY DEF Return
<1>2. /\ items \in Seq(ToSet(items) \cup {item})
      /\ items' \in Seq(ToSet(items'))
  BY <1>1, SeqGrows DEF Localized
<1>3. items' # <<>>
  BY <1>1, <1>2, AppendProperties
<1>4. UNCHANGED <<index, Record, written>>
  BY DEF Return, corpusVars
<1>5. ASSUME NEW g \in Golds PROVE loc'[g].status = "matched" <=> Matches(items', g)
  <2>1. loc'[g] = Localize(items', g)
    BY DEF Return, LocalizeStage
  <2>. QED
    BY <2>1, MatchedMatches
<1>6. ASSUME NEW g, Locator[g].type # "span", Matches(items, g)
      PROVE  Matches(items', g) \/ (SomeCells(items', g) /\ ~ Whole(items', g))
  <2>1. item \in ToSet(items) \cup {item}
    OBVIOUS
  <2>. QED
    BY <1>1, <1>2, <1>6, <2>1, MatchGrows
<1>. QED
  BY <1>2, <1>3, <1>4, <1>5, <1>6

THEOREM LocalizedInductive == Spec => []Localized
<1>1. Init => Localized
  <2>. SUFFICES ASSUME Init PROVE Localized
    OBVIOUS
  <2>1. items = <<>> /\ ~ Loaded /\ items \in Seq(ToSet(items))
    BY DEF Init, Loaded
  <2>2. \A g \in Golds : loc[g].status = "retrieval_missed"
    BY DEF Init, Is
  <2>. QED
    BY <2>1, <2>2 DEF Localized
<1>2. Localized /\ [Next]_vars => Localized'
  <2>. SUFFICES ASSUME Localized, [Next]_vars PROVE Localized'
    OBVIOUS
  <2>1. CASE UNCHANGED <<corpusVars, index, items, loc>>
    <3>1. UNCHANGED <<index, Record, written, items, loc>>
      BY <2>1 DEF corpusVars
    <3>2. \A g \in Golds : loc'[g].status = "matched" => Matches(items, g)'
      BY <3>1, MatchStays DEF Localized
    <3>3. (items \in Seq(ToSet(items)))'
      BY <3>1 DEF Localized
    <3>4. (Loaded => Ingested)' /\ (items # <<>> => Loaded)'
      BY <3>1 DEF Localized, Loaded, Ingested
    <3>. QED
      BY <3>2, <3>3, <3>4 DEF Localized
  <2>2. CASE Ingest \/ Load
    <3>1. items = <<>> /\ UNCHANGED <<items, loc>>
      BY <2>2 DEF Ingest, Load, Localized
    <3>2. (Loaded => Ingested)'
      BY <2>2 DEF Ingest, Load, corpusVars, Localized, Loaded, Ingested
    <3>3. \A g \in Golds : loc[g].status # "matched"
      BY <3>1, NothingMatches DEF Localized
    <3>4. (items \in Seq(ToSet(items)))'
      BY <3>1 DEF Localized
    <3>. QED
      BY <3>1, <3>2, <3>3, <3>4 DEF Localized
  <2>3. CASE Return
    <3>1. /\ items' \in Seq(ToSet(items'))
          /\ UNCHANGED <<index, Record, written>>
          /\ \A g \in Golds : loc'[g].status = "matched" => Matches(items', g)
      BY <2>3, ReturnLocalizes
    <3>2. \A g \in Golds : loc'[g].status = "matched" => Matches(items, g)'
      BY <3>1, MatchReads
    <3>3. (Loaded => Ingested)' /\ Loaded'
      BY <2>3, <3>1 DEF Return, Localized, Loaded, Ingested
    <3>. QED
      BY <3>1, <3>2, <3>3 DEF Localized
  <2>. QED
    BY <2>1, <2>2, <2>3 DEF Next, Scan, vars
<1>. QED
  BY <1>1, <1>2, PTL DEF Spec

(* MatchesStay: for every map, list and Gold object of the catalog, a longer *)
(* list never loses a match, except that of a table which the shorter list  *)
(* had in pieces and of which the longer one holds some cells whole.        *)
THEOREM MatchesStay == Spec => MatchedStays
<1>1. ASSUME Localized, [Next]_vars, Loaded, NEW g \in Catalogued, loc[g].status = "matched"
      PROVE  loc'[g].status = "matched" \/ HoldsSomeCells(g)'
  <2>1. g \in Golds /\ Locator[g].type # "span"
    BY <1>1 DEF Catalogued
  <2>2. CASE Return
    <3>1. /\ UNCHANGED <<index, Record>>
          /\ loc'[g].status = "matched" <=> Matches(items', g)
          /\ Matches(items', g) \/ (SomeCells(items', g) /\ ~ Whole(items', g))
      BY <1>1, <2>1, <2>2, ReturnLocalizes DEF Localized
    <3>2. /\ SomeCells(items', g) = SomeCells(items, g)'
          /\ Whole(items', g) = Whole(items, g)'
      BY <3>1, CellReads
    <3>3. (SomeCells(items, g) /\ ~ Whole(items, g))' => HoldsSomeCells(g)'
      BY DEF SomeCells, Whole, HoldsSomeCells
    <3>. QED
      BY <3>1, <3>2, <3>3
  <2>3. CASE UNCHANGED loc
    BY <1>1, <2>3
  <2>. QED
    BY <1>1, <2>2, <2>3 DEF Next, Scan, Ingest, Load, vars
<1>2. Localized /\ [Next]_vars =>
          [Loaded => \A g \in Catalogued : loc[g].status = "matched" =>
              loc'[g].status = "matched" \/ HoldsSomeCells(g)']_vars
  BY <1>1
<1>. QED
  BY <1>2, LocalizedInductive, PTL DEF Spec, MatchedStays

-----------------------------------------------------------------------------
(* The grid of a table that is read. *)

Covered(L, i, r, c) ==
    /\ L[i].top <= r /\ r <= L[i].bottom
    /\ L[i].column <= c /\ c < L[i].column + L[i].width

IsGrid(L, n) ==
    /\ L \in Seq(ToSet(L))
    /\ \A i \in DOMAIN L :
          /\ {"top", "bottom", "column", "width"} \subseteq DOMAIN L[i]
          /\ L[i].top \in Nat /\ L[i].bottom \in Nat
          /\ L[i].column \in Nat /\ L[i].width \in Nat
          /\ 1 <= L[i].top /\ L[i].top <= L[i].bottom /\ L[i].bottom <= n
          /\ 1 <= L[i].column /\ 1 <= L[i].width

Disjoint(L) ==
    \A i, j \in DOMAIN L : \A r, c \in Nat : Covered(L, i, r, c) /\ Covered(L, j, r, c) => i = j

\* The cells in a row fill it up to a column and do not go beyond.
Fills(L, r, w) ==
    /\ w \in Nat
    /\ \A c \in 1..w : \E i \in DOMAIN L : Covered(L, i, r, c)
    /\ \A i \in DOMAIN L : L[i].top <= r /\ r <= L[i].bottom => L[i].column + L[i].width <= w + 1

\* A physical cell lies where its logical cell does.
Lies(L, cell) ==
    /\ cell.of \in DOMAIN L
    /\ cell.column = L[cell.of].column /\ cell.width = L[cell.of].width
    /\ L[cell.of].top <= cell.row /\ cell.row <= L[cell.of].bottom
    /\ cell.row \in Nat

AreLaid(L, C) == C \in Seq(ToSet(C)) /\ \A k \in DOMAIN C : Lies(L, C[k])

\* A row below may continue the cells of this one.
Continuable(L, active, n) ==
    \A c \in DOMAIN active :
        /\ c \in Nat /\ active[c] \in DOMAIN L
        /\ L[active[c]].bottom = n
        /\ L[active[c]].column <= c /\ c < L[active[c]].column + L[active[c]].width

Tiles(L, C, n) == IsGrid(L, n) /\ Disjoint(L) /\ AreLaid(L, C)

TableFields == {"grid", "rows", "active", "logical", "cells", "errors", "widths", "headers"}

Laid(tb) ==
    /\ DOMAIN tb = TableFields
    /\ tb.rows \in Nat /\ tb.grid \in Nat /\ IsFiniteSet(tb.widths)
    /\ tb.errors = {} =>
          /\ Tiles(tb.logical, tb.cells, tb.rows)
          /\ Continuable(tb.logical, tb.active, tb.rows)
          /\ \A r \in 1..tb.rows : \E w \in tb.widths : Fills(tb.logical, r, w)
          /\ tb.grid > 0 => \A w \in tb.widths : w = tb.grid

\* What placing cells of a row makes of the cells above.
Extends(L, M, n) ==
    /\ DOMAIN L \subseteq DOMAIN M
    /\ \A i \in DOMAIN M :
          IF i \in DOMAIN L
          THEN /\ M[i].top = L[i].top /\ M[i].column = L[i].column /\ M[i].width = L[i].width
               /\ \/ M[i].bottom = L[i].bottom
                  \/ M[i].bottom = n + 1 /\ L[i].bottom = n
          ELSE M[i].top = n + 1

AccFields == {"row", "cursor", "next", "logical", "cells", "errors"}

Placing(acc) ==
    /\ DOMAIN acc = AccFields
    /\ acc.row = table.rows + 1
    /\ table.errors \subseteq acc.errors
    /\ acc.errors = {} =>
          /\ acc.cursor \in Nat /\ acc.cursor >= 1
          /\ Tiles(acc.logical, acc.cells, acc.row)
          /\ Continuable(acc.logical, acc.next, acc.row)
          /\ Extends(table.logical, acc.logical, table.rows)
          /\ Fills(acc.logical, acc.row, acc.cursor - 1)

(* A cell that is placed at the cursor, as a new one or below another. *)
PlacedAt(L, M, N, o, n, cursor, width) ==
    /\ N \in Seq(ToSet(N)) /\ DOMAIN N = DOMAIN M \cup {o}
    /\ \A i \in DOMAIN M : i # o => N[i] = M[i]
    /\ {"top", "bottom", "column", "width"} \subseteq DOMAIN N[o]
    /\ N[o].bottom = n + 1 /\ N[o].column = cursor /\ N[o].width = width
    /\ \/ o \notin DOMAIN M /\ o \notin DOMAIN L /\ N[o].top = n + 1
       \/ /\ o \in DOMAIN L /\ o \in DOMAIN M /\ N[o].top = M[o].top
          /\ M[o].column = cursor /\ M[o].width = width /\ L[o].bottom = n

LEMMA GridGrows ==
    ASSUME NEW n \in Nat, NEW L, NEW M, NEW N, NEW o, NEW cursor \in Nat, NEW width \in Nat,
           cursor >= 1, width >= 1,
           IsGrid(M, n + 1), Disjoint(M), Fills(M, n + 1, cursor - 1), Extends(L, M, n),
           PlacedAt(L, M, N, o, n, cursor, width)
    PROVE  /\ IsGrid(N, n + 1) /\ Disjoint(N)
           /\ Fills(N, n + 1, cursor + width - 1) /\ Extends(L, N, n)
<1>. USE DEF PlacedAt
<1>0. \A i \in DOMAIN M :
          /\ M[i].top \in Nat /\ M[i].bottom \in Nat /\ M[i].column \in Nat /\ M[i].width \in Nat
          /\ 1 <= M[i].top /\ M[i].top <= M[i].bottom /\ M[i].bottom <= n + 1
          /\ 1 <= M[i].column /\ 1 <= M[i].width
  BY DEF IsGrid
<1>1. o \in DOMAIN M => N[o].top <= n /\ N[o].top \in Nat /\ 1 <= N[o].top
  <2>. SUFFICES ASSUME o \in DOMAIN M PROVE N[o].top <= n /\ N[o].top \in Nat /\ 1 <= N[o].top
    OBVIOUS
  <2>1. M[o].bottom = n \/ M[o].bottom = n + 1
    BY DEF Extends
  <2>2. M[o].bottom # n + 1 \/ M[o].column + M[o].width <= cursor
    BY <1>0 DEF Fills
  <2>3. M[o].bottom = n
    BY <1>0, <2>1, <2>2
  <2>. QED
    BY <1>0, <2>3
<1>2. N[o].top \in Nat /\ 1 <= N[o].top /\ N[o].top <= n + 1
  BY <1>1
<1>3. IsGrid(N, n + 1)
  BY <1>2 DEF IsGrid
<1>4. \A i \in DOMAIN M : M[i].top <= n + 1 /\ n + 1 <= M[i].bottom =>
          M[i].column + M[i].width <= cursor
  BY DEF Fills
<1>5. ASSUME NEW i \in DOMAIN N, i # o, NEW r \in Nat, NEW c \in Nat,
             Covered(N, i, r, c), Covered(N, o, r, c)
      PROVE  FALSE
  <2>1. i \in DOMAIN M /\ N[i] = M[i] /\ Covered(M, i, r, c)
    BY <1>5 DEF Covered
  <2>2. r <= n + 1 /\ N[o].top <= r /\ cursor <= c /\ c < cursor + width
    BY <1>5 DEF Covered
  <2>3. CASE r = n + 1
    BY <1>0, <1>4, <2>1, <2>2, <2>3 DEF Covered
  <2>4. CASE r < n + 1
    <3>1. o \in DOMAIN M
      BY <2>2, <2>4
    <3>2. M[o].bottom = n \/ M[o].bottom = n + 1
      BY <3>1 DEF Extends
    <3>3. Covered(M, o, r, c)
      BY <1>0, <2>2, <2>4, <3>1, <3>2 DEF Covered
    <3>. QED
      BY <1>5, <2>1, <3>1, <3>3 DEF Disjoint
  <2>. QED
    BY <2>2, <2>3, <2>4
<1>6. Disjoint(N)
  <2>. SUFFICES ASSUME NEW i \in DOMAIN N, NEW j \in DOMAIN N, NEW r \in Nat, NEW c \in Nat,
                       Covered(N, i, r, c), Covered(N, j, r, c), i # j
                PROVE  FALSE
    BY DEF Disjoint
  <2>1. CASE i = o \/ j = o
    BY <1>5, <2>1
  <2>2. CASE i # o /\ j # o
    BY <2>2 DEF Disjoint, Covered
  <2>. QED
    BY <2>1, <2>2
<1>7. Fills(N, n + 1, cursor + width - 1)
  <2>1. ASSUME NEW c \in 1..(cursor + width - 1) PROVE \E i \in DOMAIN N : Covered(N, i, n + 1, c)
    <3>1. CASE c >= cursor
      BY <1>2, <3>1 DEF Covered
    <3>2. CASE c < cursor
      <4>1. PICK i \in DOMAIN M : Covered(M, i, n + 1, c)
        BY <3>2 DEF Fills
      <4>2. i # o
        BY <1>0, <1>4, <3>2, <4>1 DEF Covered
      <4>. QED
        BY <4>1, <4>2 DEF Covered
    <3>. QED
      BY <3>1, <3>2
  <2>2. ASSUME NEW i \in DOMAIN N, N[i].top <= n + 1, n + 1 <= N[i].bottom
        PROVE  N[i].column + N[i].width <= cursor + width - 1 + 1
    <3>1. CASE i = o
      BY <3>1
    <3>2. CASE i # o
      BY <1>0, <1>4, <2>2, <3>2
    <3>. QED
      BY <3>1, <3>2
  <2>. QED
    BY <2>1, <2>2 DEF Fills
<1>8. Extends(L, N, n)
  BY DEF Extends
<1>. QED
  BY <1>3, <1>6, <1>7, <1>8

(* The cells before it lie where they did. *)
StayIn(M, N) ==
    \A i \in DOMAIN M : /\ i \in DOMAIN N
                        /\ N[i].top = M[i].top /\ M[i].bottom <= N[i].bottom
                        /\ N[i].column = M[i].column /\ N[i].width = M[i].width

LEMMA CellsStay ==
    ASSUME NEW n \in Nat, NEW M, NEW N, IsGrid(M, n + 1), IsGrid(N, n + 1),
           StayIn(M, N),
           NEW C, AreLaid(M, C), NEW cell, Lies(N, cell),
           NEW active, Continuable(M, active, n + 1)
    PROVE  AreLaid(N, Append(C, cell)) /\ Continuable(N, active, n + 1)
<1>. USE DEF StayIn
<1>1. ASSUME NEW k \in DOMAIN C PROVE Lies(N, C[k])
  <2>. DEFINE o == C[k].of
  <2>1. o \in DOMAIN M /\ Lies(M, C[k])
    BY DEF AreLaid, Lies
  <2>2. M[o].bottom \in Nat /\ N[o].bottom \in Nat
    BY <2>1 DEF IsGrid
  <2>. QED
    BY <2>1, <2>2 DEF Lies
<1>2. C \in Seq(ToSet(C))
  BY DEF AreLaid
<1>3. Append(C, cell) \in Seq(ToSet(Append(C, cell))) /\ C \in Seq(ToSet(C) \cup {cell})
  BY <1>2, SeqGrows
<1>4. \A k \in DOMAIN Append(C, cell) : Lies(N, Append(C, cell)[k])
  <2>1. cell \in ToSet(C) \cup {cell}
    OBVIOUS
  <2>2. /\ DOMAIN Append(C, cell) = 1..(Len(C) + 1) /\ DOMAIN C = 1..Len(C) /\ Len(C) \in Nat
        /\ \A k \in 1..Len(C) : Append(C, cell)[k] = C[k]
        /\ Append(C, cell)[Len(C) + 1] = cell
    BY <1>3, <2>1, AppendProperties
  <2>. QED
    BY <1>1, <2>2
<1>5. Continuable(N, active, n + 1)
  BY DEF Continuable, IsGrid
<1>. QED
  BY <1>3, <1>4, <1>5 DEF AreLaid

LEMMA MaxOne ==
    ASSUME NEW x \in Nat
    PROVE  Max({x, 1}) \in Nat /\ Max({x, 1}) >= 1
<1>1. \E m \in {x, 1} : \A y \in {x, 1} : m >= y
  <2>1. CASE x >= 1
    BY <2>1
  <2>2. CASE x < 1
    BY <2>2
  <2>. QED
    BY <2>1, <2>2
<1>2. Max({x, 1}) \in {x, 1} /\ \A y \in {x, 1} : Max({x, 1}) >= y
  BY <1>1 DEF Max
<1>. QED
  BY <1>2

(* What is written of a cell that is placed without an error. *)
PlacedAs(acc, q, width, o, cell) ==
    /\ DOMAIN q = AccFields
    /\ q.row = acc.row /\ q.cursor = acc.cursor + width
    /\ q.cells = Append(acc.cells, [row |-> acc.row, column |-> acc.cursor, width |-> width,
                                    merge |-> cell.merge, text |-> cell.text, of |-> o,
                                    nested |-> cell.nested])
    /\ \/ q.next = acc.next
       \/ q.next = [c \in acc.cursor..(acc.cursor + width - 1) |-> o] ++ acc.next
    /\ \/ /\ o = Len(acc.logical) + 1
          /\ q.logical = Append(acc.logical, [top |-> acc.row, bottom |-> acc.row,
                                   column |-> acc.cursor, width |-> width, text |-> cell.text])
       \/ /\ acc.cursor..(acc.cursor + width - 1) \subseteq DOMAIN table.active
          /\ \A c \in acc.cursor..(acc.cursor + width - 1) : table.active[c] = o
          /\ table.logical[o].width = width
          /\ q.logical = [acc.logical EXCEPT ![o].bottom = acc.row]

LEMMA PlacedIs ==
    ASSUME Laid(table), NEW acc, Placing(acc), NEW cell, cell.span \in Nat,
           PlaceCell(acc, cell).errors = {}
    PROVE  /\ acc.errors = {}
           /\ \E width \in Nat, o \in Nat :
                 width >= 1 /\ PlacedAs(acc, PlaceCell(acc, cell), width, o, cell)
<1>. DEFINE inherits == /\ cell.merge = "continue" /\ cell.span = 0
                        /\ acc.cursor \in DOMAIN table.active
            width    == IF inherits THEN table.logical[table.active[acc.cursor]].width
                        ELSE Max({cell.span, 1})
            covers   == acc.cursor..(acc.cursor + width - 1)
            origins  == {table.active[c] : c \in covers \cap DOMAIN table.active}
            fresh    == Len(acc.logical) + 1
            merges   == cell.merge = "continue"
            wrong    == merges /\ Misplaced(covers, origins, width)
            of       == IF wrong THEN None ELSE IF merges THEN CHOOSE o \in origins : TRUE
                        ELSE fresh
            q        == PlaceCell(acc, cell)
            errors   == acc.errors
                        \cup (IF table.grid > 0 /\ acc.cursor + width - 1 > table.grid
                              THEN {"grid_overflow"} ELSE {})
                        \cup (IF wrong THEN {"orphan"} ELSE {})
            logical  == CASE of = fresh -> Append(acc.logical, [top |-> acc.row,
                                  bottom |-> acc.row, column |-> acc.cursor, width |-> width,
                                  text |-> cell.text])
                          [] of = None -> acc.logical
                          [] OTHER -> [acc.logical EXCEPT ![of].bottom = acc.row]
            next     == IF of = None \/ cell.merge = "none" THEN acc.next
                        ELSE [c \in covers |-> of] ++ acc.next
            cells    == Append(acc.cells, [row |-> acc.row, column |-> acc.cursor,
                                 width |-> width, merge |-> cell.merge, text |-> cell.text,
                                 of |-> of, nested |-> cell.nested])
<1>1. /\ DOMAIN q = AccFields /\ q.row = acc.row /\ q.cursor = acc.cursor + width
      /\ q.errors = errors /\ q.logical = logical /\ q.next = next /\ q.cells = cells
  <2>1. q = [acc EXCEPT !.cursor = acc.cursor + width, !.errors = errors,
                        !.logical = logical, !.next = next, !.cells = cells]
    BY DEF PlaceCell
  <2>2. DOMAIN acc = {"row", "cursor", "next", "logical", "cells", "errors"}
    BY DEF Placing, AccFields
  <2>. HIDE DEF q, width, errors, logical, next, cells
  <2>. QED
    BY <2>1, <2>2 DEF AccFields
<1>2. acc.errors = {} /\ ~ wrong
  <2>1. errors = {}
    BY <1>1
  <2>. HIDE DEF wrong, width
  <2>. QED
    BY <2>1
<1>3. table.errors = {}
  BY <1>2 DEF Placing
<1>4. /\ acc.cursor \in Nat /\ acc.cursor >= 1
      /\ Tiles(acc.logical, acc.cells, acc.row)
      /\ Extends(table.logical, acc.logical, table.rows)
  BY <1>2 DEF Placing
<1>5. /\ Continuable(table.logical, table.active, table.rows)
      /\ IsGrid(table.logical, table.rows)
  BY <1>3 DEF Laid, Tiles
<1>6. width \in Nat /\ width >= 1
  <2>1. CASE inherits
    <3>1. table.active[acc.cursor] \in DOMAIN table.logical
      BY <1>5, <2>1 DEF Continuable
    <3>. QED
      BY <1>5, <2>1, <3>1 DEF IsGrid
  <2>2. CASE ~ inherits
    BY <2>2, MaxOne
  <2>. QED
    BY <2>1, <2>2
<1>7. fresh \in Nat /\ DOMAIN acc.logical = 1..Len(acc.logical)
  <2>1. acc.logical \in Seq(ToSet(acc.logical))
    BY <1>4 DEF Tiles, IsGrid
  <2>. QED
    BY <2>1, LenProperties
<1>. DEFINE cover(w) == acc.cursor..(acc.cursor + w - 1)
<1>8. CASE ~ merges
  <2>0. fresh # None
    BY <1>7, TablesAssumption
  <2>1. of = fresh
    BY <1>8
  <2>. HIDE DEF wrong, width, q, fresh, of
  <2>2. logical = Append(acc.logical, [top |-> acc.row, bottom |-> acc.row,
                           column |-> acc.cursor, width |-> width, text |-> cell.text])
    BY <2>0, <2>1
  <2>3. next = acc.next \/ next = [c \in covers |-> fresh] ++ acc.next
    BY <2>1
  <2>4. cells = Append(acc.cells, [row |-> acc.row, column |-> acc.cursor, width |-> width,
                           merge |-> cell.merge, text |-> cell.text, of |-> fresh,
                           nested |-> cell.nested])
    BY <2>1
  <2>. HIDE DEF logical, next, cells, errors
  <2>5. PlacedAs(acc, q, width, fresh, cell)
    BY <1>1, <2>2, <2>3, <2>4 DEF PlacedAs, fresh
  <2>. QED
    BY <1>2, <1>6, <1>7, <2>5 DEF q
<1>9. CASE merges
  <2>1. ~ Misplaced(covers, origins, width)
    BY <1>2, <1>9
  <2>2. /\ Cardinality(origins) = 1 /\ covers \subseteq DOMAIN table.active
        /\ \A o \in origins : table.logical[o].width = width
    BY <2>1 DEF Misplaced
  <2>3. acc.cursor \in covers
    BY <1>4, <1>6
  <2>4. of = CHOOSE o \in origins : TRUE
    BY <1>2, <1>9
  <2>5. of \in origins /\ origins = {of}
    <3>. HIDE DEF width
    <3>1. table.active[acc.cursor] \in origins
      BY <2>2, <2>3
    <3>. DEFINE held == covers \cap DOMAIN table.active
                g    == [c \in held |-> table.active[c]]
    <3>a. IsFiniteSet(covers)
      <4>1. acc.cursor \in Int /\ acc.cursor + width - 1 \in Int
        BY <1>4, <1>6
      <4>. QED
        BY <4>1, FS_Interval
    <3>b. IsFiniteSet(held)
      BY <3>a, FS_Subset
    <3>c. g \in Surjection(held, origins)
      <4>1. g \in [held -> origins] /\ \A o \in origins : \E c \in held : g[c] = o
        OBVIOUS
      <4>. QED
        BY <4>1 DEF Surjection
    <3>d. IsFiniteSet(origins)
      <4>. HIDE DEF held, origins, g
      <4>. QED
        BY <3>b, <3>c, FS_Surjection
    <3>. HIDE DEF origins, g
    <3>2. of \in origins
      BY <2>4, <3>1
    <3>3. PICK x : origins = {x}
      BY <2>2, <3>d, FS_Singleton
    <3>. QED
      BY <3>2, <3>3
  <2>. HIDE DEF width, wrong
  <2>6. \A c \in covers : table.active[c] = of
    BY <2>2, <2>5
  <2>7. of \in DOMAIN table.logical
    BY <1>5, <2>2, <2>3, <2>6 DEF Continuable
  <2>8. of \in 1..Len(acc.logical) /\ of # fresh /\ of # None /\ of \in Nat
    <3>1. of \in DOMAIN acc.logical
      BY <1>4, <2>7 DEF Extends
    <3>. HIDE DEF of
    <3>2. of \in 1..Len(acc.logical) /\ Len(acc.logical) \in Nat
      <4>1. acc.logical \in Seq(ToSet(acc.logical))
        BY <1>4 DEF Tiles, IsGrid
      <4>. QED
        BY <1>7, <3>1, <4>1, LenProperties
    <3>3. None \notin Nat
      BY TablesAssumption
    <3>. QED
      BY <3>2, <3>3
  <2>. HIDE DEF of, fresh
  <2>9. logical = [acc.logical EXCEPT ![of].bottom = acc.row]
    BY <2>8
  <2>10. next = acc.next \/ next = [c \in covers |-> of] ++ acc.next
    BY <2>8
  <2>11. table.logical[of].width = width
    BY <2>2, <2>5
  <2>. HIDE DEF logical, next, errors, q
  <2>12. PlacedAs(acc, q, width, of, cell)
    BY <1>1, <2>2, <2>6, <2>9, <2>10, <2>11 DEF PlacedAs
  <2>. QED
    BY <1>2, <1>6, <2>8, <2>12 DEF q
<1>. QED
  BY <1>8, <1>9

LEMMA PlacedErrors ==
    ASSUME NEW acc, DOMAIN acc = AccFields, NEW cell
    PROVE  /\ DOMAIN PlaceCell(acc, cell) = AccFields
           /\ PlaceCell(acc, cell).row = acc.row
           /\ acc.errors \subseteq PlaceCell(acc, cell).errors
<1>1. DOMAIN PlaceCell(acc, cell) = DOMAIN acc /\ PlaceCell(acc, cell).row = acc.row
  BY DEF PlaceCell, AccFields
<1>2. acc.errors \subseteq PlaceCell(acc, cell).errors
  BY DEF PlaceCell, AccFields
<1>. QED
  BY <1>1, <1>2

LEMMA PlaceKeeps ==
    ASSUME Laid(table), NEW acc, Placing(acc), NEW cell, cell.span \in Nat
    PROVE  Placing(PlaceCell(acc, cell))
<1>. DEFINE q == PlaceCell(acc, cell)
            n == table.rows
            L == table.logical
            M == acc.logical
            N == q.logical
            cursor == acc.cursor
<1>1. DOMAIN q = AccFields /\ q.row = n + 1 /\ table.errors \subseteq q.errors
  BY PlacedErrors DEF Placing
<1>. SUFFICES ASSUME q.errors = {}
              PROVE  /\ q.cursor \in Nat /\ q.cursor >= 1
                     /\ Tiles(N, q.cells, n + 1)
                     /\ Continuable(N, q.next, n + 1)
                     /\ Extends(L, N, n)
                     /\ Fills(N, n + 1, q.cursor - 1)
  <2>. HIDE DEF q
  <2>. QED
    BY <1>1 DEF Placing, q
<1>2. acc.errors = {} /\ acc.row = n + 1 /\ n \in Nat
  BY PlacedIs DEF Placing, Laid
<1>3. PICK width \in Nat, o \in Nat : width >= 1 /\ PlacedAs(acc, q, width, o, cell)
  BY PlacedIs
<1>. HIDE DEF q
<1>4. /\ cursor \in Nat /\ cursor >= 1
      /\ IsGrid(M, n + 1) /\ Disjoint(M) /\ AreLaid(M, acc.cells)
      /\ Continuable(M, acc.next, n + 1) /\ Extends(L, M, n) /\ Fills(M, n + 1, cursor - 1)
  BY <1>2 DEF Placing, Tiles
<1>5. Continuable(L, table.active, n)
  BY <1>1 DEF Laid
<1>6. M \in Seq(ToSet(M)) /\ DOMAIN M = 1..Len(M) /\ Len(M) \in Nat
  <2>1. M \in Seq(ToSet(M))
    BY <1>4 DEF IsGrid
  <2>. QED
    BY <2>1, LenProperties
<1>. DEFINE covers == cursor..(cursor + width - 1)
<1>7. PlacedAt(L, M, N, o, n, cursor, width)
  <2>. DEFINE new == [top |-> acc.row, bottom |-> acc.row, column |-> cursor, width |-> width,
                      text |-> cell.text]
  <2>1. CASE o = Len(M) + 1 /\ N = Append(M, new)
    <3>1. N \in Seq(ToSet(N)) /\ M \in Seq(ToSet(M) \cup {new})
      BY <1>6, <2>1, SeqGrows
    <3>2. new \in ToSet(M) \cup {new}
      OBVIOUS
    <3>3. /\ DOMAIN N = 1..(Len(M) + 1) /\ N[Len(M) + 1] = new
          /\ \A i \in 1..Len(M) : N[i] = M[i]
      <4>. HIDE DEF new, N, M
      <4>. QED
        BY <3>1, <3>2, <2>1, AppendProperties
    <3>4. o \notin DOMAIN M /\ o \notin DOMAIN L
      BY <1>4, <1>6, <2>1 DEF Extends
    <3>. QED
      BY <1>2, <1>6, <2>1, <3>1, <3>3, <3>4 DEF PlacedAt
  <2>2. CASE /\ covers \subseteq DOMAIN table.active /\ \A c \in covers : table.active[c] = o
             /\ L[o].width = width /\ N = [M EXCEPT ![o].bottom = acc.row]
    <3>1. cursor \in covers /\ cursor + width - 1 \in covers
      BY <1>3, <1>4
    <3>2. /\ o \in DOMAIN L /\ L[o].bottom = n
          /\ L[o].column <= cursor /\ cursor + width - 1 < L[o].column + width
      BY <1>5, <2>2, <3>1 DEF Continuable
    <3>3. /\ o \in DOMAIN M /\ M[o].column = L[o].column /\ M[o].width = width
      BY <1>4, <2>2, <3>2 DEF Extends
    <3>4. /\ {"top", "bottom", "column", "width"} \subseteq DOMAIN M[o]
          /\ M[o].column \in Nat
      BY <1>4, <3>3 DEF IsGrid
    <3>5. M[o].column = cursor
      BY <1>3, <1>4, <3>2, <3>3, <3>4
    <3>6. /\ DOMAIN N = DOMAIN M /\ N[o] = [M[o] EXCEPT !.bottom = acc.row]
          /\ \A i \in DOMAIN M : i # o => N[i] = M[i]
      BY <2>2, <3>3
    <3>7. N \in Seq(ToSet(N))
      <4>1. N \in [1..Len(M) -> ToSet(N)]
        <5>1. \A i \in DOMAIN N : N[i] \in ToSet(N)
          BY DEF ToSet
        <5>2. N = [i \in DOMAIN N |-> N[i]]
          BY <2>2
        <5>. QED
          BY <1>6, <3>6, <5>1, <5>2
      <4>. QED
        BY <1>6, <4>1, IsASeq
    <3>8. /\ N[o].bottom = n + 1 /\ N[o].top = M[o].top
          /\ N[o].column = M[o].column /\ N[o].width = M[o].width
          /\ DOMAIN N[o] = DOMAIN M[o]
      BY <1>2, <3>4, <3>6
    <3>. QED
      BY <3>2, <3>3, <3>4, <3>5, <3>6, <3>7, <3>8 DEF PlacedAt
  <2>. QED
    BY <1>3, <2>1, <2>2 DEF PlacedAs
<1>8. /\ IsGrid(N, n + 1) /\ Disjoint(N)
      /\ Fills(N, n + 1, cursor + width - 1) /\ Extends(L, N, n)
  <2>. HIDE DEF N, M, L, cursor, n
  <2>. QED
    BY <1>2, <1>3, <1>4, <1>7, GridGrows
<1>9. StayIn(M, N)
  <2>. SUFFICES ASSUME NEW i \in DOMAIN M
                PROVE  /\ i \in DOMAIN N
                       /\ N[i].top = M[i].top /\ M[i].bottom <= N[i].bottom
                       /\ N[i].column = M[i].column /\ N[i].width = M[i].width
    BY DEF StayIn
  <2>1. M[i].bottom \in Nat /\ M[i].bottom <= n + 1
    BY <1>4 DEF IsGrid
  <2>. QED
    BY <1>7, <2>1 DEF PlacedAt
<1>. DEFINE item == [row |-> acc.row, column |-> cursor, width |-> width, merge |-> cell.merge,
                     text |-> cell.text, of |-> o, nested |-> cell.nested]
<1>10. Lies(N, item)
  <2>1. o \in DOMAIN N
    BY <1>7 DEF PlacedAt
  <2>2. N[o].top \in Nat /\ N[o].top <= N[o].bottom
    BY <1>8, <2>1 DEF IsGrid
  <2>. QED
    BY <1>2, <1>7, <2>1, <2>2 DEF Lies, PlacedAt
<1>11. AreLaid(N, q.cells) /\ Continuable(N, acc.next, n + 1)
  <2>1. q.cells = Append(acc.cells, item)
    BY <1>3 DEF PlacedAs
  <2>. DEFINE C == acc.cells
              active == acc.next
  <2>2. /\ n \in Nat /\ IsGrid(M, n + 1) /\ IsGrid(N, n + 1) /\ StayIn(M, N)
        /\ AreLaid(M, C) /\ Lies(N, item) /\ Continuable(M, active, n + 1)
    BY <1>2, <1>4, <1>8, <1>9, <1>10
  <2>. HIDE DEF item, N, M, n, C, active
  <2>3. AreLaid(N, Append(C, item)) /\ Continuable(N, active, n + 1)
    BY <2>2, CellsStay
  <2>. QED
    BY <2>1, <2>3 DEF C, active
<1>12. Continuable(N, q.next, n + 1)
  <2>1. CASE q.next = acc.next
    BY <1>11, <2>1
  <2>2. CASE q.next = [c \in covers |-> o] ++ acc.next
    <3>1. /\ DOMAIN q.next = covers \cup DOMAIN acc.next
          /\ \A c \in DOMAIN q.next : q.next[c] = IF c \in covers THEN o ELSE acc.next[c]
      BY <2>2 DEF ++
    <3>2. o \in DOMAIN N
      BY <1>7 DEF PlacedAt
    <3>3. ASSUME NEW c \in covers
          PROVE  /\ c \in Nat /\ N[o].bottom = n + 1
                 /\ N[o].column <= c /\ c < N[o].column + N[o].width
      BY <1>3, <1>4, <1>7 DEF PlacedAt
    <3>. QED
      BY <1>11, <3>1, <3>2, <3>3 DEF Continuable
  <2>. QED
    BY <1>3, <2>1, <2>2 DEF PlacedAs
<1>13. q.cursor = cursor + width
  BY <1>3 DEF PlacedAs
<1>. QED
  BY <1>3, <1>4, <1>8, <1>11, <1>12, <1>13 DEF Tiles

(* The cells of a row are placed one after the other. *)
FirstOfRow(r) ==
    [row |-> table.rows + 1, cursor |-> 1 + r.offset, next |-> <<>>,
     logical |-> table.logical, cells |-> table.cells, errors |-> table.errors]

PlacedCell(f, r, n) == IF n = 0 THEN FirstOfRow(r) ELSE PlaceCell(f[n - 1], r.cells[n])

IsPlaced(f, r, m) == f = [n \in 0..m |-> PlacedCell(f, r, n)]

LEMMA PlacedExists ==
    ASSUME NEW r, NEW m \in Nat
    PROVE  \E f : IsPlaced(f, r, m)
<1>. DEFINE S == {k \in Nat : ~ \E f : IsPlaced(f, r, k)}
<1>1. ASSUME S # {} PROVE FALSE
  <2>1. PICK k \in S : \A j \in S : k <= j
    BY <1>1, LeastOf
  <2>2. CASE k = 0
    <3>. DEFINE f == [n \in 0..0 |-> FirstOfRow(r)]
    <3>1. f = [n \in 0..0 |-> PlacedCell(f, r, n)]
      BY DEF PlacedCell
    <3>. QED
      BY <2>1, <2>2, <3>1 DEF IsPlaced
  <2>3. CASE k # 0
    <3>1. k - 1 \in Nat /\ k - 1 \notin S
      BY <2>1, <2>3
    <3>2. PICK f : IsPlaced(f, r, k - 1)
      BY <3>1
    <3>. DEFINE g == [n \in 0..k |-> IF n = k THEN PlaceCell(f[k - 1], r.cells[k]) ELSE f[n]]
    <3>3. ASSUME NEW n \in 0..k PROVE g[n] = PlacedCell(g, r, n)
      <4>0. k \in Nat
        BY <2>1
      <4>1. CASE n = k
        <5>1. g[n] = PlaceCell(f[n - 1], r.cells[n])
          BY <4>1
        <5>2. g[n - 1] = f[n - 1]
          BY <2>3, <4>0, <4>1
        <5>. HIDE DEF g
        <5>. QED
          BY <2>3, <4>1, <5>1, <5>2 DEF PlacedCell
      <4>2. CASE n # k
        <5>1. n \in 0..(k - 1) /\ g[n] = f[n]
          BY <4>0, <4>2
        <5>2. f[n] = PlacedCell(f, r, n)
          BY <3>2, <5>1 DEF IsPlaced
        <5>3. n # 0 => n - 1 \in 0..(k - 1) /\ g[n - 1] = f[n - 1]
          BY <4>0, <4>2
        <5>. HIDE DEF g
        <5>. QED
          BY <5>1, <5>2, <5>3 DEF PlacedCell
      <4>. QED
        BY <4>1, <4>2
    <3>4. IsPlaced(g, r, k)
      <4>1. g = [n \in 0..k |-> g[n]]
        OBVIOUS
      <4>. HIDE DEF g
      <4>. QED
        BY <3>3, <4>1 DEF IsPlaced
    <3>. QED
      BY <2>1, <3>4
  <2>. QED
    BY <2>2, <2>3
<1>. QED
  BY <1>1

LEMMA PlaceCellsIs ==
    ASSUME NEW r, Len(r.cells) \in Nat
    PROVE  \E f : IsPlaced(f, r, Len(r.cells)) /\ PlaceCells(r) = f[Len(r.cells)]
<1>. DEFINE m == Len(r.cells)
            f == CHOOSE f : IsPlaced(f, r, m)
<1>1. IsPlaced(f, r, m)
  BY PlacedExists
<1>2. PlaceCells(r) = f[m]
  BY DEF PlaceCells, IsPlaced, PlacedCell, FirstOfRow
<1>. QED
  BY <1>1, <1>2

LEMMA StartIsPlacing ==
    ASSUME Laid(table), NEW r, r.offset = 0
    PROVE  Placing(FirstOfRow(r))
<1>. DEFINE n == table.rows
            L == table.logical
<1>1. n \in Nat
  BY DEF Laid
<1>2. ASSUME table.errors = {}
      PROVE  /\ Tiles(L, table.cells, n + 1)
             /\ Continuable(L, <<>>, n + 1)
             /\ Extends(L, L, n)
             /\ Fills(L, n + 1, 0)
  <2>1. IsGrid(L, n) /\ Disjoint(L) /\ AreLaid(L, table.cells)
    BY <1>2 DEF Laid, Tiles
  <2>2. \A i \in DOMAIN L : L[i].bottom \in Nat /\ L[i].bottom <= n
    BY <2>1 DEF IsGrid
  <2>3. IsGrid(L, n + 1)
    BY <1>1, <2>1 DEF IsGrid
  <2>4. Continuable(L, <<>>, n + 1)
    BY DEF Continuable
  <2>5. Extends(L, L, n)
    BY DEF Extends
  <2>6. Fills(L, n + 1, 0)
    BY <1>1, <2>2 DEF Fills
  <2>. QED
    BY <2>1, <2>3, <2>4, <2>5, <2>6 DEF Tiles
<1>3. /\ DOMAIN FirstOfRow(r) = AccFields
      /\ FirstOfRow(r).row = n + 1 /\ FirstOfRow(r).cursor = 1 /\ FirstOfRow(r).next = <<>>
      /\ FirstOfRow(r).logical = L /\ FirstOfRow(r).cells = table.cells
      /\ FirstOfRow(r).errors = table.errors
  BY DEF FirstOfRow, AccFields
<1>. QED
  BY <1>2, <1>3 DEF Placing

LEMMA RowPlaces ==
    ASSUME Laid(table), NEW r \in Rows, r.offset = 0
    PROVE  Placing(PlaceCells(r))
<1>. DEFINE m == Len(r.cells)
<1>1. m \in Nat /\ DOMAIN r.cells = 1..m /\ \A cell \in ToSet(r.cells) : cell.span \in Nat
  <2>1. r.cells \in Seq(ToSet(r.cells)) /\ \A cell \in ToSet(r.cells) : cell.span \in Nat
    BY TablesAssumption
  <2>. QED
    BY <2>1, LenProperties
<1>2. PICK f : IsPlaced(f, r, m) /\ PlaceCells(r) = f[m]
  BY <1>1, PlaceCellsIs
<1>3. \A k \in 0..m : f[k] = PlacedCell(f, r, k)
  BY <1>2 DEF IsPlaced
<1>. DEFINE S == {k \in 0..m : ~ Placing(f[k])}
<1>4. ASSUME S # {} PROVE FALSE
  <2>0. S \in SUBSET Nat
    BY <1>1
  <2>. HIDE DEF S
  <2>1. PICK k \in S : \A j \in S : k <= j
    BY <1>4, <2>0, LeastOf
  <2>. USE DEF S
  <2>2. CASE k = 0
    BY <1>3, <2>1, <2>2, StartIsPlacing DEF PlacedCell
  <2>3. CASE k # 0
    <3>1. k - 1 \in 0..m /\ k \in 1..m /\ Placing(f[k - 1])
      BY <1>1, <2>1, <2>3
    <3>2. r.cells[k] \in ToSet(r.cells)
      BY <1>1, <3>1 DEF ToSet
    <3>3. f[k] = PlaceCell(f[k - 1], r.cells[k])
      BY <1>3, <2>1, <2>3 DEF PlacedCell
    <3>. QED
      BY <1>1, <2>1, <3>1, <3>2, <3>3, PlaceKeeps
  <2>. QED
    BY <2>2, <2>3
<1>. QED
  BY <1>1, <1>2, <1>4

(* A row that is read, and a table that is opened. *)
LEMMA FillsStay ==
    ASSUME NEW n \in Nat, NEW L, NEW N, IsGrid(L, n), IsGrid(N, n + 1), Extends(L, N, n),
           NEW r \in 1..n, NEW w, Fills(L, r, w)
    PROVE  Fills(N, r, w)
<1>1. \A i \in DOMAIN L : /\ i \in DOMAIN N /\ L[i].bottom \in Nat
                          /\ N[i].top = L[i].top /\ N[i].column = L[i].column
                          /\ N[i].width = L[i].width
                          /\ \/ N[i].bottom = L[i].bottom
                             \/ N[i].bottom = n + 1 /\ L[i].bottom = n
  BY DEF IsGrid, Extends
<1>2. ASSUME NEW c \in 1..w PROVE \E i \in DOMAIN N : Covered(N, i, r, c)
  <2>1. PICK i \in DOMAIN L : Covered(L, i, r, c)
    BY DEF Fills
  <2>. QED
    BY <1>1, <2>1 DEF Covered
<1>3. ASSUME NEW i \in DOMAIN N, N[i].top <= r, r <= N[i].bottom
      PROVE  N[i].column + N[i].width <= w + 1
  <2>1. i \in DOMAIN L
    BY <1>3 DEF Extends
  <2>2. L[i].top <= r /\ r <= L[i].bottom
    BY <1>1, <1>3, <2>1
  <2>. QED
    BY <1>1, <2>1, <2>2 DEF Fills
<1>. QED
  BY <1>2, <1>3 DEF Fills

LEMMA RowLays ==
    ASSUME Laid(table), NEW r \in Rows, ReadRow(r)
    PROVE  Laid(table')
<1>. DEFINE n     == table.rows
            acc   == PlaceCells(r)
            width == acc.cursor - 1
            L     == table.logical
            N     == acc.logical
            found == acc.errors
                     \cup (IF r.offset > 0 THEN {"grid_offset"} ELSE {})
                     \cup (IF r.cells = <<>> THEN {"empty_row"} ELSE {})
                     \cup (IF table.grid > 0 /\ width # table.grid THEN {"grid_width"} ELSE {})
<1>1. /\ DOMAIN table' = TableFields
      /\ table'.rows = n + 1 /\ table'.grid = table.grid
      /\ table'.active = acc.next /\ table'.logical = N /\ table'.cells = acc.cells
      /\ table'.widths = table.widths \cup {width}
      /\ table'.errors = found
  <2>. DEFINE headers == IF r.header THEN table.headers \cup {n + 1} ELSE table.headers
  <2>1. table' = [table EXCEPT !.rows = n + 1, !.active = acc.next, !.logical = N,
                               !.cells = acc.cells, !.widths = table.widths \cup {width},
                               !.headers = headers, !.errors = found]
    BY DEF ReadRow
  <2>2. DOMAIN table = {"grid", "rows", "active", "logical", "cells", "errors", "widths",
                        "headers"}
    BY DEF Laid, TableFields
  <2>. HIDE DEF acc, width, found, headers, N, n
  <2>. QED
    BY <2>1, <2>2 DEF TableFields
<1>. HIDE DEF acc
<1>2. n \in Nat /\ table.grid \in Nat /\ IsFiniteSet(table.widths)
  BY DEF Laid
<1>3. IsFiniteSet(table'.widths)
  <2>1. table'.widths = table.widths \cup {width}
    BY <1>1
  <2>. HIDE DEF width
  <2>2. IsFiniteSet(table.widths \cup {width})
    BY <1>2, FS_AddElement
  <2>. QED
    BY <2>1, <2>2
<1>. SUFFICES ASSUME found = {}
              PROVE  /\ Tiles(N, acc.cells, n + 1)
                     /\ Continuable(N, acc.next, n + 1)
                     /\ \A x \in 1..(n + 1) : \E w \in table.widths \cup {width} : Fills(N, x, w)
                     /\ table.grid > 0 => \A w \in table.widths \cup {width} : w = table.grid
  <2>. HIDE DEF found, N, n, width
  <2>. QED
    BY <1>1, <1>2, <1>3 DEF Laid, n
<1>4. /\ acc.errors = {} /\ ~ r.offset > 0
      /\ table.grid > 0 => width = table.grid
  OBVIOUS
<1>5. Placing(acc)
  <2>1. r.offset = 0
    BY <1>4, TablesAssumption
  <2>. QED
    BY <2>1, RowPlaces DEF acc
<1>6. /\ table.errors = {}
      /\ Tiles(N, acc.cells, n + 1) /\ Continuable(N, acc.next, n + 1)
      /\ Extends(L, N, n) /\ Fills(N, n + 1, width)
  BY <1>4, <1>5 DEF Placing
<1>7. /\ IsGrid(L, n)
      /\ \A x \in 1..n : \E w \in table.widths : Fills(L, x, w)
      /\ table.grid > 0 => \A w \in table.widths : w = table.grid
  BY <1>6 DEF Laid, Tiles
<1>8. \A x \in 1..(n + 1) : \E w \in table.widths \cup {width} : Fills(N, x, w)
  <2>. HIDE DEF width, N, L, n
  <2>1. \A x \in 1..n : \E w \in table.widths : Fills(N, x, w)
    BY <1>2, <1>6, <1>7, FillsStay DEF Tiles
  <2>. QED
    BY <1>2, <1>6, <2>1
<1>. QED
  BY <1>4, <1>6, <1>7, <1>8

LEMMA OpenLays ==
    ASSUME NEW g \in Grids, OpenTable(g)
    PROVE  Laid(table')
<1>1. /\ table' = EmptyTable(g) /\ g \in Nat
  BY TablesAssumption DEF OpenTable
<1>. DEFINE tb == EmptyTable(g)
<1>2. /\ DOMAIN tb = TableFields
      /\ tb.rows = 0 /\ tb.grid = g /\ tb.active = <<>> /\ tb.logical = <<>> /\ tb.cells = <<>>
      /\ tb.widths = {}
  BY DEF EmptyTable, TableFields
<1>3. <<>> \in Seq(ToSet(<<>>)) /\ DOMAIN <<>> = {}
  OBVIOUS
<1>4. Tiles(<<>>, <<>>, 0) /\ Continuable(<<>>, <<>>, 0)
  BY <1>3 DEF Tiles, IsGrid, Disjoint, AreLaid, Continuable
<1>5. IsFiniteSet({})
  BY FS_EmptySet
<1>. HIDE DEF tb
<1>6. Laid(tb)
  BY <1>1, <1>2, <1>4, <1>5 DEF Laid
<1>. QED
  BY <1>1, <1>6 DEF tb

(* A table that is closed without an error. *)
LEMMA MaxBelow ==
    ASSUME NEW w \in Nat, NEW S \in SUBSET 0..w, S # {}
    PROVE  Max(S) \in S
<1>. DEFINE T == {w - x : x \in S}
<1>0. \A x \in S : x \in Nat /\ x <= w
  OBVIOUS
<1>1. T \in SUBSET Nat /\ T # {}
  <2>1. \A x \in S : w - x \in Nat
    BY <1>0
  <2>2. \A y \in T : y \in Nat
    BY <2>1
  <2>3. PICK x \in S : TRUE
    OBVIOUS
  <2>4. w - x \in T
    OBVIOUS
  <2>. QED
    BY <2>2, <2>4
<1>2. PICK m \in T : \A y \in T : m <= y
  BY <1>1, LeastOf
<1>3. PICK x \in S : m = w - x
  BY <1>2
<1>4. \A y \in S : x >= y
  <2>. SUFFICES ASSUME NEW y \in S PROVE x >= y
    OBVIOUS
  <2>1. w - y \in T
    OBVIOUS
  <2>2. w - x <= w - y /\ x \in Nat /\ y \in Nat
    BY <1>0, <1>2, <1>3, <2>1
  <2>. QED
    BY <2>2
<1>. QED
  BY <1>4 DEF Max

LEMMA ClosedIsFull ==
    ASSUME Laid(table), TopologyErrors = {}
    PROVE  /\ Tiles(table.logical, table.cells, table.rows)
           /\ \A r \in 1..table.rows, k \in 1..ColumnCount :
                 \E i \in DOMAIN table.logical : Covered(table.logical, i, r, k)
<1>. DEFINE L == table.logical
            n == table.rows
<1>1. /\ table.errors = {}
      /\ table.grid = 0 => ~ Merged /\ Cardinality(table.widths) = 1
  BY DEF TopologyErrors
<1>2. /\ Tiles(L, table.cells, n) /\ n \in Nat /\ table.grid \in Nat /\ IsFiniteSet(table.widths)
      /\ \A r \in 1..n : \E w \in table.widths : Fills(L, r, w)
      /\ table.grid > 0 => \A w \in table.widths : w = table.grid
  BY <1>1 DEF Laid
<1>3. ASSUME NEW r \in 1..n, NEW k \in 1..ColumnCount
      PROVE  \E i \in DOMAIN L : Covered(L, i, r, k)
  <2>1. PICK w \in table.widths : Fills(L, r, w)
    BY <1>2
  <2>2. w \in Nat
    BY <2>1 DEF Fills
  <2>3. CASE table.grid > 0
    <3>1. ColumnCount = w
      BY <1>2, <2>3 DEF ColumnCount
    <3>. QED
      BY <2>1, <3>1 DEF Fills
  <2>4. CASE ~ table.grid > 0
    <3>1. PICK x : table.widths = {x}
      <4>1. Cardinality(table.widths) = 1
        BY <1>1, <1>2, <2>4
      <4>. QED
        BY <1>2, <4>1, FS_Singleton
    <3>. DEFINE ends == {table.cells[i].column + table.cells[i].width - 1 :
                            i \in DOMAIN table.cells}
    <3>2. ends \subseteq 0..w
      <4>. SUFFICES ASSUME NEW i \in DOMAIN table.cells
                    PROVE  table.cells[i].column + table.cells[i].width - 1 \in 0..w
        OBVIOUS
      <4>. DEFINE cell == table.cells[i]
                  o == cell.of
      <4>1. Lies(L, cell)
        BY <1>2 DEF Tiles, AreLaid
      <4>. HIDE DEF cell
      <4>2. /\ L[o].column \in Nat /\ L[o].width \in Nat /\ 1 <= L[o].column /\ 1 <= L[o].width
            /\ L[o].top \in Nat /\ L[o].bottom \in Nat /\ 1 <= L[o].top /\ L[o].bottom <= n
        BY <1>2, <4>1 DEF Lies, Tiles, IsGrid
      <4>3. cell.row \in 1..n
        BY <1>2, <4>1, <4>2 DEF Lies
      <4>4. Fills(L, cell.row, w)
        BY <1>2, <2>1, <3>1, <4>3
      <4>5. L[o].column + L[o].width <= w + 1
        BY <4>1, <4>4 DEF Lies, Fills
      <4>6. cell.column = L[o].column /\ cell.width = L[o].width
        BY <4>1 DEF Lies
      <4>. QED
        BY <2>2, <4>2, <4>5, <4>6 DEF cell
    <3>3. ColumnCount = Max({0} \cup ends)
      BY <1>2, <2>4 DEF ColumnCount
    <3>. HIDE DEF ends
    <3>4. Max({0} \cup ends) \in 0..w
      <4>1. {0} \cup ends \in SUBSET 0..w
        BY <2>2, <3>2
      <4>. QED
        BY <2>2, <4>1, MaxBelow
    <3>5. k \in 1..w
      BY <2>2, <3>3, <3>4
    <3>. QED
      BY <2>1, <3>5 DEF Fills
  <2>. QED
    BY <2>3, <2>4
<1>. QED
  BY <1>2, <1>3

-----------------------------------------------------------------------------
(* The tables of a catalog. *)

GridKinds == {"table", "logical_cell", "cell"}

Grid(c) == {id \in DOMAIN c : c[id].type \in GridKinds}

OnCell(c, l, r, k) ==
    /\ c[l].row <= r /\ r <= c[l].bottom
    /\ c[l].column <= k /\ k < c[l].column + c[l].width

Parts(c, t) == {id \in Grid(c) : c[id].type = "logical_cell" /\ c[id].table = t}

TiledTable(c, t) ==
    /\ \A r \in 1..c[t].rows, k \in 1..c[t].columns :
          Cardinality({l \in Parts(c, t) : OnCell(c, l, r, k)}) = 1
    /\ \A id \in Grid(c) : c[id].type = "cell" /\ c[id].table = t =>
          /\ <<"logical_cell", t[2], c[id].logical>> \in Grid(c)
          /\ \A k \in c[id].column..(c[id].column + c[id].width - 1) :
                OnCell(c, <<"logical_cell", t[2], c[id].logical>>, c[id].row, k)

IsComplete(c, t) == c[t].type = "table" /\ Len(t) = 2 /\ c[t].status = "supported"

\* What is in a table names it, but for the cell of a nested one.
NamesItsTable(c, id) ==
    /\ <<"table", id[2]>> \in Grid(c)
    /\ c[id].type # "table" => c[id].table = <<"table", id[2]>> \/ Len(c[id].table) # 2

Tiled(c) ==
    /\ \A id \in Grid(c) : NamesItsTable(c, id)
    /\ \A t \in Grid(c) : IsComplete(c, t) => TiledTable(c, t)

SameGrids(c, d) == Grid(d) = Grid(c) /\ \A id \in Grid(c) : d[id] = c[id]

LEMMA SameGridsKeep ==
    ASSUME NEW c, NEW d, SameGrids(c, d), Tiled(c)
    PROVE  Tiled(d)
<1>1. Grid(d) = Grid(c) /\ \A id \in Grid(c) : d[id] = c[id]
  BY DEF SameGrids
<1>2. \A id \in Grid(d) : NamesItsTable(d, id)
  BY <1>1 DEF Tiled, NamesItsTable
<1>3. ASSUME NEW t \in Grid(d), IsComplete(d, t) PROVE TiledTable(d, t)
  <2>1. TiledTable(c, t)
    BY <1>1, <1>3 DEF Tiled, IsComplete
  <2>2. Parts(d, t) = Parts(c, t)
    BY <1>1 DEF Parts
  <2>3. \A r, k : \A l \in Grid(c) : OnCell(d, l, r, k) <=> OnCell(c, l, r, k)
    BY <1>1 DEF OnCell
  <2>4. \A r, k : {l \in Parts(d, t) : OnCell(d, l, r, k)}
                  = {l \in Parts(c, t) : OnCell(c, l, r, k)}
    BY <2>2, <2>3 DEF Parts
  <2>. QED
    BY <1>1, <2>1, <2>3, <2>4 DEF TiledTable
<1>. QED
  BY <1>2, <1>3 DEF Tiled

LEMMA SameGridsCompose ==
    ASSUME NEW c, NEW d, NEW e, SameGrids(c, d), SameGrids(d, e)
    PROVE  SameGrids(c, e)
  BY DEF SameGrids

LEMMA AlikeGrids ==
    ASSUME NEW c, NEW n, Shaped(c, n), NEW d, Alike(c, d),
           \A id \in DOMAIN c : c[id].type \in GridKinds => d[id] = c[id]
    PROVE  SameGrids(c, d)
<1>1. DOMAIN d = DOMAIN c /\ \A id \in DOMAIN c : d[id].type = c[id].type
  BY AlikeFields
<1>. QED
  BY <1>1 DEF SameGrids, Grid

LEMMA UnresolvedGrids ==
    ASSUME NEW c, NEW n, Scanned(c, n), NEW m, Waits(c, pending, m)
    PROVE  SameGrids(c, Unresolved(c))
<1>1. Alike(c, Unresolved(c))
  BY UnresolvedKeeps
<1>2. ASSUME NEW id \in DOMAIN c, c[id].type \in GridKinds
      PROVE  Unresolved(c)[id] = c[id]
  <2>1. CASE pending = None
    BY <2>1 DEF Unresolved
  <2>2. CASE pending # None
    <3>1. id[1] = c[id].type
      BY DEF Scanned, Shaped, IsRecord
    <3>2. id # pending /\ id # <<"text_span", pending[2]>>
      BY <1>2, <2>2, <3>1 DEF Waits, GridKinds
    <3>. QED
      BY <2>2, <3>2 DEF Unresolved, Downgraded
  <2>. QED
    BY <2>1, <2>2
<1>. QED
  BY <1>1, <1>2, AlikeGrids DEF Scanned

LEMMA AttachGrids ==
    ASSUME NEW c, NEW n, Scanned(c, n), NEW b \in DOMAIN c, c[b].type = "block", NEW t
    PROVE  SameGrids(c, Attach(c, b, t))
<1>. DEFINE linked == [c EXCEPT ![b].target = t]
            d      == Attach(c, b, t)
<1>1. \A id \in DOMAIN c : "type" \in DOMAIN c[id]
  BY DEF Scanned, Shaped, IsRecord
<1>2. /\ DOMAIN linked = DOMAIN c
      /\ \A id \in DOMAIN c : linked[id].type = c[id].type /\ "type" \in DOMAIN linked[id]
      /\ \A id \in DOMAIN c : id # b => linked[id] = c[id]
  BY <1>1
<1>. HIDE DEF linked
<1>3. /\ DOMAIN d = DOMAIN c
      /\ \A id \in DOMAIN c : d[id].type = c[id].type
      /\ \A id \in DOMAIN c : c[id].type \in GridKinds => d[id] = c[id]
  <2>1. CASE c[t].type # "figure"
    <3>1. d = linked
      BY <2>1 DEF Attach, linked
    <3>. HIDE DEF d
    <3>. QED
      BY <1>2, <3>1 DEF GridKinds
  <2>2. CASE c[t].type = "figure"
    <3>. DEFINE number == IF c[b].number = None THEN linked[t].number ELSE c[b].number
    <3>1. d = [linked EXCEPT ![t].caption = b,
                             ![t].number = IF c[b].number = None THEN @ ELSE c[b].number]
      BY <2>2 DEF Attach, linked
    <3>. HIDE DEF d
    <3>2. /\ DOMAIN d = DOMAIN linked
          /\ \A id \in DOMAIN linked : id # t => d[id] = linked[id]
      BY <3>1
    <3>3. \A id \in DOMAIN linked : d[id].type = linked[id].type
      BY <1>2, <3>1
    <3>. QED
      BY <1>2, <2>2, <3>2, <3>3 DEF GridKinds
  <2>. QED
    BY <2>1, <2>2
<1>. QED
  BY <1>3 DEF SameGrids, Grid

LEMMA AssociateGrids ==
    ASSUME NEW c, NEW n, Scanned(c, n), NEW m, Waits(c, pending, m), NEW t
    PROVE  SameGrids(c, AssociatePending(c, t))
<1>1. CASE pending = None
  BY <1>1 DEF AssociatePending, SameGrids
<1>2. CASE pending # None /\ Fits(c[pending], c[t])
  <2>1. pending \in DOMAIN c /\ c[pending].type = "block"
    BY <1>2 DEF Waits
  <2>. QED
    BY <1>2, <2>1, AttachGrids DEF AssociatePending
<1>3. CASE pending # None /\ ~ Fits(c[pending], c[t])
  BY <1>3, UnresolvedGrids DEF AssociatePending
<1>. QED
  BY <1>1, <1>2, <1>3

LEMMA ResolvedGrids ==
    ASSUME NEW c, NEW n, Scanned(c, n)
    PROVE  SameGrids(c, Resolved(c))
<1>1. Alike(c, Resolved(c))
  BY ResolvedKeeps
<1>2. ASSUME NEW id \in DOMAIN c, c[id].type \in GridKinds
      PROVE  Resolved(c)[id] = c[id]
  <2>1. c[id].type # "figure" /\ c[id].type # "reference"
    BY <1>2 DEF GridKinds
  <2>. QED
    BY <2>1 DEF Resolved
<1>. QED
  BY <1>1, <1>2, AlikeGrids DEF Scanned

(* Records of a paragraph are no part of a table. *)
IsPlain(f) == \A id \in DOMAIN f : f[id].type \notin GridKinds /\ id[1] \notin GridKinds

LEMMA PlainUnion ==
    ASSUME NEW f, NEW g, IsPlain(f), IsPlain(g)
    PROVE  IsPlain(f ++ g)
  BY DEF IsPlain, ++

LEMMA PlainGrids ==
    ASSUME NEW c, NEW n, Scanned(c, n), NEW f, IsPlain(f)
    PROVE  SameGrids(c, f ++ c)
<1>1. \A id \in DOMAIN c : id[1] = c[id].type
  BY DEF Scanned, Shaped, IsRecord
<1>2. \A id \in Grid(c) : id \notin DOMAIN f
  BY <1>1 DEF IsPlain, Grid
<1>. QED
  BY <1>2 DEF SameGrids, Grid, IsPlain, ++

LEMMA OnlyPlain ==
    ASSUME NEW id, NEW r, id[1] \notin GridKinds, r.type \notin GridKinds
    PROVE  IsPlain(Only(id, r))
<1>1. DOMAIN Only(id, r) = {id} /\ Only(id, r)[id] = r
  BY OnlyIs
<1>. QED
  BY <1>1 DEF IsPlain

LEMMA ParagraphIsPlain ==
    ASSUME NEW p \in Paragraphs
    PROVE  IsPlain(RichRecords(p)) /\ IsPlain(BlockRecords(p))
<1>. USE DEF GridKinds
<1>1. IsPlain(Figures(p))
  BY DEF IsPlain, Figures
<1>2. IsPlain(Equations(p))
  BY DEF IsPlain, Equations
<1>3. IsPlain(Mentions(p))
  BY DEF IsPlain, Mentions
<1>4. IsPlain(RichRecords(p))
  BY <1>1, <1>2, <1>3, PlainUnion DEF RichRecords
<1>5. IsPlain(Only(NextId("block"), Block(p)))
  <2>1. NextId("block")[1] = "block" /\ Block(p).type = "block"
    BY DEF NextId, Block
  <2>. QED
    BY <2>1, OnlyPlain
<1>. DEFINE span == <<"text_span", NextId("block")[2]>>
            r    == [type |-> "text_span", status |-> "supported", body |-> Position,
                     block |-> NextId("block"), value |-> p.text]
            text == IF p.text = <<>> THEN <<>> ELSE Only(span, r)
<1>6. IsPlain(text)
  <2>1. span[1] = "text_span" /\ r.type = "text_span"
    OBVIOUS
  <2>2. IsPlain(Only(span, r))
    <3>. HIDE DEF span, r
    <3>. QED
      BY <2>1, OnlyPlain
  <2>3. IsPlain(<<>>)
    BY DEF IsPlain
  <2>. QED
    BY <2>2, <2>3
<1>7. BlockRecords(p) = Only(NextId("block"), Block(p)) ++ text
  BY DEF BlockRecords
<1>. HIDE DEF text
<1>. QED
  BY <1>4, <1>5, <1>6, <1>7, PlainUnion

(* What a step makes of the tables that were read before it. *)
LEMMA FoundGrids ==
    ASSUME IInv, NEW c, c \in {cat, Unresolved(cat)}, NEW f, IsPlain(f)
    PROVE  SameGrids(cat, f ++ c)
<1>1. SameGrids(cat, c)
  BY UnresolvedGrids DEF IInv, SameGrids
<1>2. Scanned(c, read)
  BY UnresolvedKeeps DEF IInv
<1>3. SameGrids(c, f ++ c)
  BY <1>2, PlainGrids
<1>. QED
  BY <1>1, <1>3, SameGridsCompose

LEMMA HeadingGrids ==
    ASSUME IInv, NEW p \in Paragraphs, Heading(p)
    PROVE  SameGrids(cat, cat')
<1>. DEFINE id   == NextId("section")
            head == [type |-> "section", status |-> "supported", body |-> Position,
                     level |-> p.level, value |-> p.text]
            sec  == Only(id, head)
            f    == RichRecords(p) ++ sec ++ BlockRecords(p)
            c    == IF EndsWait(p) THEN Unresolved(cat) ELSE cat
<1>1. cat' = f ++ c
  BY DEF Heading
<1>2. IsPlain(sec)
  <2>1. id[1] \notin GridKinds /\ head.type \notin GridKinds
    BY DEF NextId, GridKinds
  <2>. HIDE DEF id, head
  <2>. QED
    BY <2>1, OnlyPlain
<1>. HIDE DEF sec
<1>3. IsPlain(f)
  BY <1>2, ParagraphIsPlain, PlainUnion
<1>4. c \in {cat, Unresolved(cat)}
  OBVIOUS
<1>. HIDE DEF f, c
<1>. QED
  BY <1>1, <1>3, <1>4, FoundGrids

LEMMA CaptionGrids ==
    ASSUME IInv, NEW p \in Paragraphs, Caption(p)
    PROVE  SameGrids(cat, cat')
<1>. DEFINE id    == NextId("block")
            f     == RichRecords(p) ++ BlockRecords(p)
            scan  == f ++ Unresolved(cat)
            above == last # None /\ Fits(scan[id], scan[last])
<1>1. cat' = IF above THEN Attach(scan, id, last) ELSE scan
  BY DEF Caption
<1>2. read \in Nat /\ Counted(cat)
  BY DEF IInv, Scanned
<1>3. /\ IsElement(f, read + 1)
      /\ \A type \in Core : \E k \in Nat : Adds(f, type, k)
      /\ id \in DOMAIN f /\ f[id] = Block(p)
  BY <1>2, ParagraphIs
<1>4. IsPlain(f)
  BY ParagraphIsPlain, PlainUnion
<1>. HIDE DEF f, id
<1>5. SameGrids(cat, scan)
  BY <1>4, FoundGrids
<1>6. /\ Scanned(scan, read + 1)
      /\ id \in DOMAIN scan /\ scan[id].type = "block"
  BY <1>3, ElementScanned DEF Block
<1>. HIDE DEF scan
<1>7. SameGrids(scan, cat')
  BY <1>1, <1>6, AttachGrids DEF SameGrids
<1>. QED
  BY <1>5, <1>7, SameGridsCompose

LEMMA ProseGrids ==
    ASSUME IInv, NEW p \in Paragraphs, Prose(p)
    PROVE  SameGrids(cat, cat')
<1>. DEFINE figures == [i \in DOMAIN p.figures |-> <<"figure", Count("figure") + i>>]
            f       == RichRecords(p) ++ BlockRecords(p)
            scan    == f ++ cat
<1>1. cat' = IF Len(figures) = 1 THEN AssociatePending(scan, figures[1]) ELSE Unresolved(scan)
  BY DEF Prose
<1>2. read \in Nat /\ Counted(cat)
  BY DEF IInv, Scanned
<1>3. /\ IsElement(f, read + 1)
      /\ \A type \in Core : \E k \in Nat : Adds(f, type, k)
  BY <1>2, ParagraphIs
<1>4. IsPlain(f)
  BY ParagraphIsPlain, PlainUnion
<1>. HIDE DEF f, figures
<1>5. SameGrids(cat, scan)
  BY <1>4, FoundGrids
<1>6. Scanned(scan, read + 1) /\ Waits(scan, pending, read + 1)
  BY <1>3, ElementScanned
<1>. HIDE DEF scan
<1>7. SameGrids(scan, cat')
  BY <1>1, <1>6, AssociateGrids, UnresolvedGrids
<1>. QED
  BY <1>5, <1>7, SameGridsCompose

LEMMA FinishGrids ==
    ASSUME IInv, Finish
    PROVE  SameGrids(cat, cat')
<1>1. cat' = Resolved(Unresolved(cat))
  BY DEF Finish
<1>2. SameGrids(cat, Unresolved(cat)) /\ Scanned(Unresolved(cat), read)
  BY UnresolvedGrids, UnresolvedKeeps DEF IInv
<1>3. SameGrids(Unresolved(cat), cat')
  BY <1>1, <1>2, ResolvedGrids
<1>. QED
  BY <1>2, <1>3, SameGridsCompose

(* The records of a table that is closed. *)
IsInside(g, t) ==
    \A id \in DOMAIN g :
        /\ id[2] = t /\ id[1] = g[id].type
        /\ g[id].type = "table" => Len(id) # 2
        /\ g[id].type \in {"logical_cell", "cell"} =>
              g[id].table = <<"table", t>> \/ Len(g[id].table) # 2

LEMMA InsideUnion ==
    ASSUME NEW f, NEW g, NEW t, IsInside(f, t), IsInside(g, t)
    PROVE  IsInside(f ++ g, t)
  BY DEF IsInside, ++

LEMMA NestedAre ==
    ASSUME NEW t
    PROVE  /\ IsInside(NestedRecords(t), t)
           /\ \A id \in DOMAIN NestedRecords(t) :
                 /\ id[1] \in {"table", "cell"}
                 /\ id[1] = "cell" => Len(NestedRecords(t)[id].table) # 2
<1>. DEFINE tables ==
                [id \in {<<"table", t, i>> : i \in Nested} |->
                    [type |-> "table", status |-> "supported", body |-> Position,
                     value |-> <<(<<(<<"w">>)>>)>>, rows |-> 1, columns |-> 1,
                     siblings |-> 1, eligible |-> FALSE]]
            cells ==
                [id \in {<<"cell", t, i, 1>> : i \in Nested} |->
                    [type |-> "cell", status |-> "supported", body |-> Position,
                     table |-> <<"table", t, id[3]>>, row |-> 1, column |-> 1, width |-> 1,
                     merge |-> "none", logical |-> 1, origin |-> id, value |-> <<"w">>]]
<1>1. NestedRecords(t) = tables ++ cells
  BY DEF NestedRecords
<1>2. \A id \in DOMAIN tables : /\ id[1] = "table" /\ id[2] = t /\ Len(id) = 3
                                /\ tables[id].type = "table"
  OBVIOUS
<1>3. \A id \in DOMAIN cells : /\ id[1] = "cell" /\ id[2] = t
                               /\ cells[id].type = "cell"
                               /\ cells[id].table = <<"table", t, id[3]>>
  OBVIOUS
<1>4. \A x : Len(<<"table", t, x>>) = 3
  OBVIOUS
<1>. HIDE DEF tables, cells
<1>5. IsInside(tables, t) /\ IsInside(cells, t)
  BY <1>2, <1>3, <1>4 DEF IsInside
<1>6. \A id \in DOMAIN (tables ++ cells) :
          /\ id[1] \in {"table", "cell"}
          /\ id[1] = "cell" => Len((tables ++ cells)[id].table) # 2
  BY <1>2, <1>3, <1>4 DEF ++
<1>. QED
  BY <1>1, <1>5, <1>6, InsideUnion

LEMMA InnerRecordsAre ==
    ASSUME NEW t
    PROVE  /\ IsInside(InnerRecords(t), t)
           /\ \A id \in DOMAIN InnerRecords(t) : InnerRecords(t)[id].type = "logical_cell" =>
                 /\ id \in DOMAIN LogicalRecords(t)
                 /\ InnerRecords(t)[id] = LogicalRecords(t)[id]
           /\ \A id \in DOMAIN LogicalRecords(t) :
                 /\ id \in DOMAIN InnerRecords(t)
                 /\ InnerRecords(t)[id] = LogicalRecords(t)[id]
           /\ \A id \in DOMAIN InnerRecords(t) :
                 InnerRecords(t)[id].type = "cell" /\ Len(InnerRecords(t)[id].table) = 2 =>
                 /\ id \in DOMAIN CellRecords(t)
                 /\ InnerRecords(t)[id] = CellRecords(t)[id]
<1>1. \A id \in DOMAIN CellRecords(t) :
          /\ id[1] = "cell" /\ id[2] = t /\ CellRecords(t)[id].type = "cell"
          /\ CellRecords(t)[id].table = <<"table", t>>
  BY DEF CellRecords
<1>2. \A id \in DOMAIN LogicalRecords(t) :
          /\ id[1] = "logical_cell" /\ id[2] = t /\ LogicalRecords(t)[id].type = "logical_cell"
          /\ LogicalRecords(t)[id].table = <<"table", t>>
  BY DEF LogicalRecords
<1>3. \A id \in DOMAIN RowRecords(t) :
          id[1] = "row" /\ id[2] = t /\ RowRecords(t)[id].type = "row"
  BY DEF RowRecords
<1>4. IsInside(CellRecords(t), t) /\ IsInside(LogicalRecords(t), t) /\ IsInside(RowRecords(t), t)
  BY <1>1, <1>2, <1>3 DEF IsInside
<1>5. IsInside(InnerRecords(t), t)
  BY <1>4, NestedAre, InsideUnion DEF InnerRecords
<1>6. ASSUME NEW id \in DOMAIN InnerRecords(t)
      PROVE  \/ /\ id \in DOMAIN NestedRecords(t)
                /\ InnerRecords(t)[id] = NestedRecords(t)[id]
             \/ id \in DOMAIN CellRecords(t) /\ InnerRecords(t)[id] = CellRecords(t)[id]
             \/ id \in DOMAIN LogicalRecords(t) /\ InnerRecords(t)[id] = LogicalRecords(t)[id]
             \/ id \in DOMAIN RowRecords(t) /\ InnerRecords(t)[id] = RowRecords(t)[id]
  BY DEF InnerRecords, ++
<1>7. \A id \in DOMAIN NestedRecords(t) :
          /\ id[1] \in {"table", "cell"} /\ NestedRecords(t)[id].type = id[1]
          /\ id[1] = "cell" => Len(NestedRecords(t)[id].table) # 2
  BY NestedAre DEF IsInside
<1>8. ASSUME NEW id \in DOMAIN LogicalRecords(t)
      PROVE  id \in DOMAIN InnerRecords(t) /\ InnerRecords(t)[id] = LogicalRecords(t)[id]
  <2>1. id \notin DOMAIN NestedRecords(t) /\ id \notin DOMAIN CellRecords(t)
    BY <1>1, <1>2, <1>7
  <2>. QED
    BY <2>1 DEF InnerRecords, ++
<1>9. ASSUME NEW id \in DOMAIN InnerRecords(t), InnerRecords(t)[id].type = "logical_cell"
      PROVE  id \in DOMAIN LogicalRecords(t) /\ InnerRecords(t)[id] = LogicalRecords(t)[id]
  BY <1>1, <1>3, <1>6, <1>7, <1>9
<1>10. ASSUME NEW id \in DOMAIN InnerRecords(t), InnerRecords(t)[id].type = "cell",
              Len(InnerRecords(t)[id].table) = 2
       PROVE  id \in DOMAIN CellRecords(t) /\ InnerRecords(t)[id] = CellRecords(t)[id]
  BY <1>2, <1>3, <1>6, <1>7, <1>10
<1>. QED
  BY <1>5, <1>8, <1>9, <1>10

LEMMA ClosedTiles ==
    ASSUME Laid(table), NEW t, NEW d,
           d[<<"table", t>>] = TableRecord, IsComplete(d, <<"table", t>>),
           Parts(d, <<"table", t>>) = DOMAIN LogicalRecords(t),
           \A id \in DOMAIN LogicalRecords(t) : d[id] = LogicalRecords(t)[id],
           \A id \in Grid(d) : d[id].type = "cell" /\ d[id].table = <<"table", t>> =>
               id \in DOMAIN CellRecords(t) /\ d[id] = CellRecords(t)[id]
    PROVE  TiledTable(d, <<"table", t>>)
<1>. DEFINE L == table.logical
            own == <<"table", t>>
<1>1. TableRecord.status = TableStatus /\ TableRecord.rows = table.rows
      /\ TableRecord.columns = ColumnCount
  BY DEF TableRecord
<1>2. TopologyErrors = {}
  <2>1. TableStatus = "supported"
    BY <1>1 DEF IsComplete
  <2>. QED
    BY <2>1 DEF TableStatus
<1>3. /\ IsGrid(L, table.rows) /\ Disjoint(L) /\ AreLaid(L, table.cells)
      /\ \A r \in 1..table.rows, k \in 1..ColumnCount : \E i \in DOMAIN L : Covered(L, i, r, k)
  BY <1>2, ClosedIsFull DEF Tiles
<1>4. DOMAIN LogicalRecords(t) = {<<"logical_cell", t, i>> : i \in DOMAIN L}
  BY DEF LogicalRecords
<1>5. ASSUME NEW i \in DOMAIN L
      PROVE  /\ <<"logical_cell", t, i>> \in Parts(d, own)
             /\ \A r, k : OnCell(d, <<"logical_cell", t, i>>, r, k) <=> Covered(L, i, r, k)
  <2>. DEFINE l == <<"logical_cell", t, i>>
  <2>1. l \in DOMAIN LogicalRecords(t)
    BY <1>4
  <2>2. /\ LogicalRecords(t)[l].row = L[i].top /\ LogicalRecords(t)[l].bottom = L[i].bottom
        /\ LogicalRecords(t)[l].column = L[i].column /\ LogicalRecords(t)[l].width = L[i].width
    BY DEF LogicalRecords
  <2>. HIDE DEF l
  <2>3. /\ d[l].row = L[i].top /\ d[l].bottom = L[i].bottom
        /\ d[l].column = L[i].column /\ d[l].width = L[i].width
    BY <2>1, <2>2
  <2>4. \A r, k : OnCell(d, l, r, k) <=> Covered(L, i, r, k)
    BY <2>3 DEF OnCell, Covered
  <2>. QED
    BY <2>1, <2>4 DEF l
<1>6. ASSUME NEW r \in 1..table.rows, NEW k \in 1..ColumnCount
      PROVE  Cardinality({l \in Parts(d, own) : OnCell(d, l, r, k)}) = 1
  <2>1. PICK i \in DOMAIN L : Covered(L, i, r, k)
    BY <1>3
  <2>2. r \in Nat /\ k \in Nat
    OBVIOUS
  <2>3. ASSUME NEW l \in Parts(d, own), OnCell(d, l, r, k) PROVE l = <<"logical_cell", t, i>>
    <3>1. PICK j \in DOMAIN L : l = <<"logical_cell", t, j>>
      BY <1>4
    <3>2. Covered(L, j, r, k)
      BY <1>5, <2>3, <3>1
    <3>. QED
      BY <1>3, <2>1, <2>2, <3>1, <3>2 DEF Disjoint
  <2>4. {l \in Parts(d, own) : OnCell(d, l, r, k)} = {<<"logical_cell", t, i>>}
    BY <1>5, <2>1, <2>3
  <2>. QED
    BY <2>4, FS_Singleton
<1>7. ASSUME NEW id \in Grid(d), d[id].type = "cell", d[id].table = own
      PROVE  /\ <<"logical_cell", own[2], d[id].logical>> \in Grid(d)
             /\ \A k \in d[id].column..(d[id].column + d[id].width - 1) :
                   OnCell(d, <<"logical_cell", own[2], d[id].logical>>, d[id].row, k)
  <2>1. PICK i \in DOMAIN table.cells : id = <<"cell", t, i>>
    <3>1. id \in DOMAIN CellRecords(t)
      BY <1>7
    <3>. QED
      BY <3>1 DEF CellRecords
  <2>. DEFINE cell == table.cells[i]
              o    == cell.of
  <2>2. /\ d[id].logical = o /\ d[id].row = cell.row
        /\ d[id].column = cell.column /\ d[id].width = cell.width
    <3>1. d[id] = CellRecords(t)[id] /\ id \in DOMAIN CellRecords(t)
      BY <1>7
    <3>2. id[3] = i
      BY <2>1
    <3>3. CellRecords(t)[id].logical = table.cells[id[3]].of
      BY <3>1 DEF CellRecords
    <3>4. /\ CellRecords(t)[id].row = table.cells[id[3]].row
          /\ CellRecords(t)[id].column = table.cells[id[3]].column
          /\ CellRecords(t)[id].width = table.cells[id[3]].width
      BY <3>1 DEF CellRecords
    <3>. QED
      BY <3>1, <3>2, <3>3, <3>4
  <2>. HIDE DEF cell
  <2>3. Lies(L, cell)
    BY <1>3 DEF AreLaid, cell
  <2>4. o \in DOMAIN L
    BY <2>3 DEF Lies
  <2>5. L[o].column \in Nat /\ L[o].width \in Nat
    BY <1>3, <2>4 DEF IsGrid
  <2>6. ASSUME NEW k \in cell.column..(cell.column + cell.width - 1)
        PROVE  Covered(L, o, cell.row, k)
    BY <2>3, <2>5 DEF Lies, Covered
  <2>7. own[2] = t
    OBVIOUS
  <2>. QED
    BY <1>5, <2>2, <2>4, <2>6, <2>7 DEF Parts
<1>. QED
  BY <1>1, <1>6, <1>7 DEF TiledTable

LEMMA CloseTableTiles ==
    ASSUME IInv, Tiled(cat), Laid(table), CloseTable
    PROVE  Tiled(cat')
<1>. DEFINE t    == Count("table") + 1
            id   == <<"table", t>>
            own  == Only(id, TableRecord)
            f    == InnerRecords(t) ++ own
            scan == f ++ cat
<1>1. cat' = AssociatePending(scan, id)
  BY DEF CloseTable, InnerRecords
<1>0. Scanned(scan, read + 1) /\ Waits(scan, pending, read + 1)
  <2>. HIDE DEF t
  <2>1. t = Count("table") + 1
    BY DEF t
  <2>. QED
    BY <2>1, TableScanned
<1>2. read \in Nat /\ Counted(cat) /\ Scanned(cat, read)
  BY DEF IInv, Scanned
<1>3. Count("table") \in Nat /\ Numbered(cat, "table") = {<<"table", i>> : i \in 1..Count("table")}
  BY <1>2, CountIs DEF Core
<1>4. id \notin DOMAIN cat
  <2>1. id[1] = "table" /\ Len(id) = 2
    OBVIOUS
  <2>2. \A i \in 1..Count("table") : <<"table", i>> # id
    BY <1>3
  <2>. HIDE DEF id
  <2>. QED
    BY <1>3, <2>1, <2>2 DEF Numbered
<1>5. id[1] = "table" /\ id[2] = t /\ Len(id) = 2
  OBVIOUS
<1>6. DOMAIN own = {id} /\ own[id] = TableRecord /\ TableRecord.type = "table"
  BY OnlyIs DEF TableRecord
<1>. HIDE DEF own, t
<1>7. /\ IsInside(InnerRecords(t), t)
      /\ id \notin DOMAIN InnerRecords(t)
  <2>1. IsInside(InnerRecords(t), t)
    BY InnerRecordsAre
  <2>. QED
    BY <1>5, <2>1 DEF IsInside
<1>8. /\ id \in DOMAIN f /\ f[id] = TableRecord
      /\ \A x \in DOMAIN InnerRecords(t) : x \in DOMAIN f /\ f[x] = InnerRecords(t)[x]
      /\ \A x \in DOMAIN f : x # id => x \in DOMAIN InnerRecords(t)
  BY <1>6, <1>7 DEF ++
<1>. HIDE DEF f
<1>9. \A x \in Grid(cat) : x \notin DOMAIN f
  <2>1. \A x \in Grid(cat) : x[2] # t
    BY <1>4 DEF Tiled, NamesItsTable, Grid
  <2>2. \A x \in DOMAIN f : x[2] = t
    BY <1>5, <1>7, <1>8 DEF IsInside
  <2>. QED
    BY <2>1, <2>2
<1>10. /\ \A x \in DOMAIN f : x \in DOMAIN scan /\ scan[x] = f[x]
       /\ \A x \in Grid(cat) : x \in Grid(scan) /\ scan[x] = cat[x]
       /\ \A x \in Grid(scan) : x \in DOMAIN f \/ x \in Grid(cat)
  BY <1>9 DEF Grid, ++
<1>. HIDE DEF scan
<1>11. id \in Grid(scan) /\ scan[id] = TableRecord
  BY <1>6, <1>8, <1>10 DEF Grid, GridKinds
<1>12. ASSUME NEW x \in Grid(scan) PROVE NamesItsTable(scan, x)
  <2>1. CASE x \in Grid(cat)
    BY <1>10, <2>1 DEF Tiled, NamesItsTable
  <2>2. CASE x = id
    BY <1>5, <1>6, <1>11, <2>2 DEF NamesItsTable
  <2>3. CASE x \in DOMAIN InnerRecords(t)
    <3>1. /\ x[2] = t /\ scan[x] = InnerRecords(t)[x]
      BY <1>7, <1>8, <1>10, <2>3 DEF IsInside
    <3>2. scan[x].type \in {"logical_cell", "cell"} =>
              scan[x].table = id \/ Len(scan[x].table) # 2
      BY <1>7, <2>3, <3>1 DEF IsInside
    <3>. QED
      BY <1>11, <3>1, <3>2 DEF NamesItsTable, Grid, GridKinds
  <2>. QED
    BY <1>8, <1>10, <2>1, <2>2, <2>3
<1>13. ASSUME NEW x \in Grid(cat) PROVE cat[x].type # "table" => cat[x].table # id
  BY <1>4, <1>5 DEF Tiled, NamesItsTable, Grid
<1>14. ASSUME NEW x \in Grid(cat), IsComplete(scan, x) PROVE TiledTable(scan, x)
  <2>1. scan[x] = cat[x] /\ x # id /\ Len(x) = 2
    BY <1>4, <1>10, <1>14 DEF IsComplete, Grid
  <2>2. TiledTable(cat, x)
    BY <1>14, <2>1 DEF Tiled, IsComplete
  <2>3. ASSUME NEW y \in Grid(scan), scan[y].type # "table", scan[y].table = x
        PROVE  y \in Grid(cat)
    <3>1. y # id
      BY <1>6, <1>11, <2>3
    <3>2. y \in DOMAIN InnerRecords(t) => scan[y] = InnerRecords(t)[y]
      BY <1>8, <1>10
    <3>3. scan[y].type \in {"logical_cell", "cell"}
      BY <2>3 DEF Grid, GridKinds
    <3>. QED
      BY <1>7, <1>8, <1>10, <2>1, <2>3, <3>1, <3>2, <3>3 DEF IsInside
  <2>4. Parts(scan, x) = Parts(cat, x)
    BY <1>10, <2>3 DEF Parts
  <2>5. \A r, k : \A l \in Grid(cat) : OnCell(scan, l, r, k) <=> OnCell(cat, l, r, k)
    BY <1>10 DEF OnCell
  <2>6. \A r, k : {l \in Parts(scan, x) : OnCell(scan, l, r, k)}
                  = {l \in Parts(cat, x) : OnCell(cat, l, r, k)}
    BY <2>4, <2>5 DEF Parts
  <2>. QED
    BY <1>10, <2>1, <2>2, <2>3, <2>5, <2>6 DEF TiledTable
<1>15. ASSUME IsComplete(scan, id) PROVE TiledTable(scan, id)
  <2>1. ASSUME NEW x \in Grid(scan), scan[x].type # "table", scan[x].table = id
        PROVE  x \in DOMAIN InnerRecords(t) /\ scan[x] = InnerRecords(t)[x]
    <3>1. x \notin Grid(cat)
      BY <1>10, <1>13, <2>1
    <3>2. x # id
      BY <1>6, <1>11, <2>1
    <3>. QED
      BY <1>8, <1>10, <3>1, <3>2
  <2>2. ASSUME NEW x \in DOMAIN LogicalRecords(t)
        PROVE  /\ x \in Grid(scan) /\ scan[x] = LogicalRecords(t)[x]
               /\ scan[x].type = "logical_cell" /\ scan[x].table = id
    <3>1. scan[x] = LogicalRecords(t)[x] /\ x \in DOMAIN scan
      BY <1>8, <1>10, InnerRecordsAre
    <3>2. LogicalRecords(t)[x].type = "logical_cell" /\ LogicalRecords(t)[x].table = id
      BY DEF LogicalRecords
    <3>. QED
      BY <3>1, <3>2 DEF Grid, GridKinds
  <2>3. Parts(scan, id) = DOMAIN LogicalRecords(t)
    <3>1. \A x \in Parts(scan, id) : x \in DOMAIN LogicalRecords(t)
      BY <2>1, InnerRecordsAre DEF Parts
    <3>2. \A x \in DOMAIN LogicalRecords(t) : x \in Parts(scan, id)
      BY <2>2 DEF Parts
    <3>. QED
      BY <3>1, <3>2
  <2>4. \A x \in Grid(scan) : scan[x].type = "cell" /\ scan[x].table = id =>
            x \in DOMAIN CellRecords(t) /\ scan[x] = CellRecords(t)[x]
    <3>1. Len(id) = 2
      BY <1>5
    <3>2. \A x \in DOMAIN InnerRecords(t) :
              InnerRecords(t)[x].type = "cell" /\ Len(InnerRecords(t)[x].table) = 2 =>
              x \in DOMAIN CellRecords(t) /\ InnerRecords(t)[x] = CellRecords(t)[x]
      BY InnerRecordsAre
    <3>. HIDE DEF id
    <3>. QED
      BY <2>1, <3>1, <3>2
  <2>. QED
    BY <1>11, <1>15, <2>2, <2>3, <2>4, ClosedTiles
<1>16. Tiled(scan)
  <2>1. ASSUME NEW x \in Grid(scan), IsComplete(scan, x) PROVE TiledTable(scan, x)
    <3>1. x \in DOMAIN InnerRecords(t) => ~ IsComplete(scan, x)
      BY <1>7, <1>8, <1>10 DEF IsInside, IsComplete
    <3>. QED
      BY <1>8, <1>10, <1>14, <1>15, <2>1, <3>1
  <2>. QED
    BY <1>12, <2>1 DEF Tiled
<1>17. SameGrids(scan, cat')
  BY <1>0, <1>1, AssociateGrids
<1>. QED
  BY <1>16, <1>17, SameGridsKeep

(* The tables that were read and the one that is read. *)
TInv ==
    /\ IInv
    /\ Tiled(cat)
    /\ table # None => Laid(table)

LEMMA InitTiles ==
    ASSUME CanonInit
    PROVE  TInv
<1>. DEFINE id   == <<"section", 1>>
            head == [type |-> "section", status |-> "supported", body |-> 0,
                     level |-> 0, value |-> <<>>]
<1>1. cat = Only(id, head) /\ table = None
  BY DEF CanonInit
<1>2. head.type = "section"
  OBVIOUS
<1>. HIDE DEF id, head
<1>3. Grid(cat) = {}
  <2>1. DOMAIN cat = {id} /\ cat[id] = head
    BY <1>1, OnlyIs
  <2>. QED
    BY <1>2, <2>1 DEF Grid, GridKinds
<1>. QED
  BY <1>1, <1>3, InitHolds DEF TInv, Tiled

LEMMA CanonicalizeTiles ==
    ASSUME TInv, Canonicalize
    PROVE  TInv'
<1>1. IInv /\ IInv' /\ Tiled(cat)
  BY CanonicalizeKeeps DEF TInv
<1>2. ASSUME SameGrids(cat, cat'), table' = table PROVE TInv'
  BY <1>1, <1>2, SameGridsKeep DEF TInv
<1>3. ASSUME cat' = cat, Laid(table') PROVE TInv'
  BY <1>1, <1>3 DEF TInv
<1>4. ASSUME NEW p \in Paragraphs, Skip(p) PROVE TInv'
  BY <1>2, <1>4 DEF Skip, SameGrids
<1>5. ASSUME NEW p \in Paragraphs, Heading(p) PROVE TInv'
  <2>1. table' = table
    BY <1>5 DEF Heading
  <2>. QED
    BY <1>1, <1>2, <1>5, <2>1, HeadingGrids
<1>6. ASSUME NEW p \in Paragraphs, Caption(p) PROVE TInv'
  <2>1. table' = table
    BY <1>6 DEF Caption
  <2>. QED
    BY <1>1, <1>2, <1>6, <2>1, CaptionGrids
<1>7. ASSUME NEW p \in Paragraphs, Prose(p) PROVE TInv'
  <2>1. table' = table
    BY <1>7 DEF Prose
  <2>. QED
    BY <1>1, <1>2, <1>7, <2>1, ProseGrids
<1>8. ASSUME NEW g \in Grids, OpenTable(g) PROVE TInv'
  <2>1. cat' = cat
    BY <1>8 DEF OpenTable
  <2>. QED
    BY <1>3, <1>8, <2>1, OpenLays
<1>9. ASSUME InTable, NEW r \in Rows, Row(r) PROVE TInv'
  <2>1. cat' = cat /\ ReadRow(r)
    BY <1>9 DEF Row
  <2>2. Laid(table)
    BY <1>9 DEF InTable, TInv
  <2>. QED
    BY <1>3, <1>9, <2>1, <2>2, RowLays
<1>10. ASSUME InTable, CloseTable PROVE TInv'
  <2>1. Laid(table)
    BY <1>10 DEF InTable, TInv
  <2>2. Tiled(cat')
    BY <1>1, <1>10, <2>1, CloseTableTiles
  <2>3. table' = None
    BY <1>10 DEF CloseTable
  <2>. QED
    BY <1>1, <2>2, <2>3 DEF TInv
<1>11. ASSUME Finish PROVE TInv'
  <2>1. table' = table
    BY <1>11 DEF Finish
  <2>. QED
    BY <1>1, <1>2, <1>11, <2>1, FinishGrids
<1>. QED
  BY <1>4, <1>5, <1>6, <1>7, <1>8, <1>9, <1>10, <1>11 DEF Canonicalize

(* TilesInductive: in every reachable state of the pipeline, the complete   *)
(* tables of the catalog are tiled, and so is, as far as its rows were read *)
(* without an error, the grid of the table that is read.                   *)
THEOREM TilesInductive == Spec => []TInv
<1>1. Init => TInv
  BY InitTiles DEF Init
<1>2. TInv /\ [Next]_vars => TInv'
  <2>. SUFFICES ASSUME TInv, [Next]_vars PROVE TInv'
    OBVIOUS
  <2>1. CASE Scan
    BY <2>1, CanonicalizeTiles DEF Scan
  <2>2. CASE UNCHANGED canonVars
    BY <2>2 DEF canonVars, TInv, IInv
  <2>3. (Ingest \/ Load \/ Return \/ UNCHANGED vars) => UNCHANGED canonVars
    BY DEF Ingest, Load, Return, vars
  <2>. QED
    BY <2>1, <2>2, <2>3 DEF Next
<1>. QED
  BY <1>1, <1>2, PTL DEF Spec

LEMMA TiledIsATiling ==
    ASSUME Tiled(cat)
    PROVE  TopologyIsATiling
<1>1. ASSUME NEW t \in DOMAIN cat, cat[t].type = "table", Len(t) = 2,
             cat[t].status = "supported"
      PROVE  /\ \A r \in 1..cat[t].rows, c \in 1..cat[t].columns :
                   Cardinality({l \in Parts(cat, t) : OnCell(cat, l, r, c)}) = 1
             /\ \A id \in DOMAIN cat : cat[id].type = "cell" /\ cat[id].table = t =>
                   \A c \in cat[id].column..(cat[id].column + cat[id].width - 1) :
                       OnCell(cat, <<"logical_cell", t[2], cat[id].logical>>, cat[id].row, c)
  <2>1. TiledTable(cat, t)
    BY <1>1 DEF Tiled, Grid, GridKinds, IsComplete
  <2>2. \A id \in DOMAIN cat : cat[id].type = "cell" => id \in Grid(cat)
    BY DEF Grid, GridKinds
  <2>. QED
    BY <2>1, <2>2 DEF TiledTable
<1>2. \A t : Parts(cat, t) = {id \in DOMAIN cat : cat[id].type = "logical_cell"
                                                  /\ cat[id].table = t}
  BY DEF Parts, Grid, GridKinds
<1>. QED
  BY <1>1, <1>2 DEF TopologyIsATiling, OnCell

(* TablesAreTiled: for any rows, spans and merges, however the grid was     *)
(* declared, a table is complete only if its logical cells cover every      *)
(* coordinate of the grid exactly once and hold its physical cells.         *)
THEOREM TablesAreTiled == Spec => []TopologyIsATiling
<1>1. TInv => TopologyIsATiling
  BY TiledIsATiling DEF TInv
<1>. QED
  BY <1>1, TilesInductive, PTL

=============================================================================
