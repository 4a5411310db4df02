--------------------------- MODULE SemanticMergeProofs ---------------------------
(***************************************************************************)
(* Merges of semantic content, for all contents and all edited trees. The  *)
(* proofs follow the merge:                                                *)
(*                                                                         *)
(*   - the comparison of the sides (prepareMerge) is that of a three-way   *)
(*     merge, slot by slot, and does not depend on which side is the       *)
(*     source;                                                             *)
(*   - a path belongs to one class of the comparison, which settles what   *)
(*     is collected there (FramesWithoutConflict, FramesOfConflict);       *)
(*   - the nodes of the outcome are the frames that hang below the root of *)
(*     their tree (NodesFromFrames), and keep their paths when the root is *)
(*     one of the content (UnmovedNodes).                                  *)
(*                                                                         *)
(* The inductive invariant, MergeInv, says only that the content is an     *)
(* outcome of the decision: a merge is one step, and what is hard about it *)
(* is in that step.                                                        *)
(***************************************************************************)
EXTENDS SemanticMerge, SequenceTheorems, TLAPS
LOCAL INSTANCE SequencesExt

MergeSides == [base: Contents, source: Contents, target: Contents]

\* The same merge with the branches exchanged.
Exchanged(x) == [x EXCEPT !.source = x.target, !.target = x.source]

\* A node that is there differs from the mark of one that is not.
LEMMA NodesThere ==
    ASSUME NEW x \in MergeSides, NEW p
    PROVE  /\ Has(x.base, p) <=> At(x.base, p) # Gone
           /\ Has(x.source, p) <=> At(x.source, p) # Gone
           /\ Has(x.target, p) <=> At(x.target, p) # Gone
<1>1. x.base \in Contents /\ x.source \in Contents /\ x.target \in Contents
  BY DEF MergeSides
<1>2. \A c \in Contents : \A q \in DOMAIN c.nodes : c.nodes[q] # Gone
  BY MergeAssumption DEF MergeAssumption
<1> QED
  BY <1>1, <1>2 DEF Has, At

\* The comparison of two nodes that are there on all sides is the slot-wise one.
LEMMA ChangedSlots ==
    ASSUME NEW x, NEW p, Has(x.base, p), Has(x.source, p), Has(x.target, p)
    PROVE  ChangedApart(x, p) <=> \E k \in DOMAIN At(x.base, p) :
                                     Distinct(At(x.base, p)[k], At(x.source, p)[k],
                                              At(x.target, p)[k])
BY DEF ChangedApart, SlotConflicts, Distinct

\* The case analyses of prepareMerge find exactly the nodes and slots that both
\* sides changed differently.
LEMMA ConflictsClash ==
    ASSUME NEW x \in MergeSides, NEW p
    PROVE  ChangedApart(x, p) \/ (Has(x.base, p) /\ EditedAndDeleted(x, p))
           <=> Clash(At(x.base, p), At(x.source, p), At(x.target, p))
<1>1. /\ Has(x.base, p) <=> At(x.base, p) # Gone
      /\ Has(x.source, p) <=> At(x.source, p) # Gone
      /\ Has(x.target, p) <=> At(x.target, p) # Gone
  BY NodesThere
<1>2. CASE Has(x.base, p) /\ Has(x.source, p) /\ Has(x.target, p)
  BY <1>1, <1>2, ChangedSlots DEF EditedAndDeleted, Clash
<1>3. CASE ~(Has(x.base, p) /\ Has(x.source, p) /\ Has(x.target, p))
  <2>1. Clash(At(x.base, p), At(x.source, p), At(x.target, p))
        <=> Distinct(At(x.base, p), At(x.source, p), At(x.target, p))
    BY <1>1, <1>3 DEF Clash
  <2> QED
    BY <1>1, <1>3, <2>1 DEF ChangedApart, EditedAndDeleted, Distinct
<1> QED
  BY <1>2, <1>3

\* The nodes of one path have the same slots on all sides.
LEMMA SlotsOfOnePath ==
    ASSUME NEW x \in MergeSides, NEW p, Has(x.base, p), Has(x.source, p), Has(x.target, p)
    PROVE  /\ At(x.source, p) = [k \in DOMAIN At(x.base, p) |-> At(x.source, p)[k]]
           /\ At(x.target, p) = [k \in DOMAIN At(x.base, p) |-> At(x.target, p)[k]]
           /\ At(x.base, p) = [k \in DOMAIN At(x.base, p) |-> At(x.base, p)[k]]
<1>1. /\ x.base \in Contents /\ x.source \in Contents /\ x.target \in Contents
      /\ p \in DOMAIN x.base.nodes /\ p \in DOMAIN x.source.nodes /\ p \in DOMAIN x.target.nodes
  BY DEF MergeSides, Has
<1>2. /\ At(x.base, p) = x.base.nodes[p]
      /\ At(x.source, p) = x.source.nodes[p]
      /\ At(x.target, p) = x.target.nodes[p]
  BY <1>1 DEF At
<1>3. ASSUME NEW c \in Contents, p \in DOMAIN c.nodes
      PROVE  c.nodes[p] = [k \in DOMAIN x.base.nodes[p] |-> c.nodes[p][k]]
  <2>1. \A e, d \in Contents : \A q \in DOMAIN e.nodes \cap DOMAIN d.nodes :
           e.nodes[q] = [k \in DOMAIN d.nodes[q] |-> e.nodes[q][k]]
    BY MergeAssumption, Zenon DEF MergeAssumption
  <2>2. p \in DOMAIN c.nodes \cap DOMAIN x.base.nodes
    BY <1>1, <1>3
  <2> QED
    BY <1>1, <2>1, <2>2
<1> QED
  BY <1>1, <1>2, <1>3

\* What is picked for a node that is kept takes each slot from the side that changed it
\* (executeMerge, mergeNonConflicting).
THEOREM PickedIsThreeWay ==
    ASSUME NEW x \in MergeSides, NEW p \in AutoKept(x), Has(x.base, p)
    PROVE  Picked(x, p) = [k \in DOMAIN At(x.base, p) |->
                              ThreeWay(At(x.base, p)[k], At(x.source, p)[k], At(x.target, p)[k])]
<1> DEFINE b == At(x.base, p)
           s == At(x.source, p)
           t == At(x.target, p)
<1>1. Has(x.source, p) /\ Has(x.target, p) /\ ~ChangedApart(x, p)
  BY DEF AutoKept, Has
<1>2. \A k \in DOMAIN b : ~Distinct(b[k], s[k], t[k])
  BY <1>1, ChangedSlots
<1>3. /\ s = [k \in DOMAIN b |-> s[k]]
      /\ t = [k \in DOMAIN b |-> t[k]]
      /\ b = [k \in DOMAIN b |-> b[k]]
  BY <1>1, SlotsOfOnePath
<1>4. Picked(x, p) = CASE s = t -> s
                       [] s # t /\ s # b /\ t = b -> s
                       [] s # t /\ s = b /\ t # b -> t
                       [] OTHER -> [k \in DOMAIN b |-> IF s[k] # b[k] THEN s[k] ELSE t[k]]
  BY DEF Picked, MergeSlots
<1> HIDE DEF b, s, t
<1>5. CASE s = t
  <2>1. Picked(x, p) = s
    BY <1>4, <1>5
  <2>2. \A k \in DOMAIN b : ThreeWay(b[k], s[k], t[k]) = s[k]
    BY <1>5 DEF ThreeWay
  <2> QED
    BY <1>3, <2>1, <2>2 DEF b, s, t
<1>6. CASE s # t /\ s # b /\ t = b
  <2>1. Picked(x, p) = s
    BY <1>4, <1>6
  <2>2. \A k \in DOMAIN b : ThreeWay(b[k], s[k], t[k]) = s[k]
    BY <1>6 DEF ThreeWay
  <2> QED
    BY <1>3, <2>1, <2>2 DEF b, s, t
<1>7. CASE s # t /\ s = b /\ t # b
  <2>1. Picked(x, p) = t
    BY <1>4, <1>7
  <2>2. \A k \in DOMAIN b : ThreeWay(b[k], s[k], t[k]) = t[k]
    BY <1>7 DEF ThreeWay
  <2> QED
    BY <1>3, <2>1, <2>2 DEF b, s, t
<1>8. CASE s # t /\ s # b /\ t # b
  BY <1>4, <1>8 DEF ThreeWay, b, s, t
<1> QED
  BY <1>5, <1>6, <1>7, <1>8

\* Which branch is the source makes no difference to what conflicts, to what is kept and
\* to what is picked for it, nor to the relations, and mirrored decisions are decisions:
\* the part of SidesAreInterchangeable that comes before the frames.
THEOREM ComparisonIsSymmetric ==
    ASSUME NEW x \in MergeSides
    PROVE  /\ ConflictsOf(Exchanged(x)) = ConflictsOf(x)
           /\ AutoKept(Exchanged(x)) = AutoKept(x)
           /\ \A p \in AutoKept(x) : Picked(Exchanged(x), p) = Picked(x, p)
           /\ \A d \in DecisionsFor(x) :
                 /\ Mirrored(d) \in DecisionsFor(Exchanged(x))
                 /\ MergedRelations(Exchanged(x), Mirrored(d)) = MergedRelations(x, d)
<1> DEFINE y == Exchanged(x)
<1>1. /\ y \in MergeSides
      /\ y.base = x.base /\ y.source = x.target /\ y.target = x.source
  BY DEF Exchanged, MergeSides
<1> HIDE DEF y
<1>2. PathsOf(y) = PathsOf(x)
  BY <1>1 DEF PathsOf
<1>3. \A p : ChangedApart(y, p) <=> ChangedApart(x, p)
  <2> TAKE p
  <2>1. SlotConflicts(At(y.base, p), At(y.source, p), At(y.target, p))
        = SlotConflicts(At(x.base, p), At(x.source, p), At(x.target, p))
    BY <1>1 DEF SlotConflicts
  <2> QED
    BY <1>1, <2>1 DEF ChangedApart
<1>4. \A p : Has(y.base, p) /\ EditedAndDeleted(y, p) <=> Has(x.base, p) /\ EditedAndDeleted(x, p)
  BY <1>1 DEF EditedAndDeleted
<1>5. ConflictsOf(y) = ConflictsOf(x)
  BY <1>2, <1>3, <1>4 DEF ConflictsOf
<1>6. AutoKept(y) = AutoKept(x)
  BY <1>1, <1>3 DEF AutoKept
<1>7. ASSUME NEW p \in AutoKept(x) PROVE Picked(y, p) = Picked(x, p)
  <2>1. Has(x.source, p) /\ Has(x.target, p) /\ ~ChangedApart(x, p)
    BY DEF AutoKept, Has
  <2>2. CASE ~Has(x.base, p)
    <3>1. At(x.source, p) = At(x.target, p)
      BY <2>1, <2>2 DEF ChangedApart
    <3> QED
      BY <1>1, <2>2, <3>1 DEF Picked
  <2>3. CASE Has(x.base, p)
    <3>1. \A k \in DOMAIN At(x.base, p) :
             ThreeWay(At(y.base, p)[k], At(y.source, p)[k], At(y.target, p)[k])
             = ThreeWay(At(x.base, p)[k], At(x.source, p)[k], At(x.target, p)[k])
      BY <1>1, <2>1, <2>3, ChangedSlots DEF Distinct, ThreeWay
    <3>2. Picked(x, p) = [k \in DOMAIN At(x.base, p) |->
             ThreeWay(At(x.base, p)[k], At(x.source, p)[k], At(x.target, p)[k])]
      BY <2>3, PickedIsThreeWay
    <3>3. Picked(y, p) = [k \in DOMAIN At(y.base, p) |->
             ThreeWay(At(y.base, p)[k], At(y.source, p)[k], At(y.target, p)[k])]
      BY <1>1, <1>6, <2>3, PickedIsThreeWay
    <3> QED
      BY <1>1, <3>1, <3>2, <3>3
  <2> QED
    BY <2>2, <2>3
<1>8. ASSUME NEW d \in DecisionsFor(x)
      PROVE  /\ Mirrored(d) \in DecisionsFor(y)
             /\ MergedRelations(y, Mirrored(d)) = MergedRelations(x, d)
  <2>1. /\ Mirrored(d).relationsSource = d.relationsTarget
        /\ Mirrored(d).relationsTarget = d.relationsSource
    BY DEF Mirrored
  <2>2. MergedRelations(y, Mirrored(d)) = MergedRelations(x, d)
    BY <1>1, <2>1 DEF MergedRelations, RelationsOnlyIn
  <2> DEFINE resolutions(z) ==
               {f \in [ConflictsOf(z) -> {"source", "target", "both", "edit"}] :
                  \A p \in DOMAIN f : f[p] = "edit" => p \in DOMAIN EditTree}
             kept(z) == SUBSET OnlyIn(z, z.source, z.target)
             gained(z) == SUBSET OnlyIn(z, z.target, z.source)
             relations(z, one, other) ==
                 IF RelationsOnlyIn(z, one, other) = {} THEN {TRUE} ELSE BOOLEAN
  <2>3. \A z : DecisionsFor(z) =
             [resolve: resolutions(z), keepSource: kept(z), keepTarget: gained(z),
              relationsSource: relations(z, z.source, z.target),
              relationsTarget: relations(z, z.target, z.source)]
    BY DEF DecisionsFor
  <2>4. /\ kept(y) = gained(x) /\ gained(y) = kept(x)
        /\ relations(y, y.source, y.target) = relations(x, x.target, x.source)
        /\ relations(y, y.target, y.source) = relations(x, x.source, x.target)
    BY <1>1 DEF OnlyIn, RelationsOnlyIn
  <2>5. resolutions(y) = resolutions(x)
    BY <1>5
  <2>6. Mirrored(d).resolve \in resolutions(x)
    <3>1. d.resolve \in resolutions(x)
      BY <2>3
    <3>2. Mirrored(d).resolve = [p \in DOMAIN d.resolve |->
                                   CASE d.resolve[p] = "source" -> "target"
                                     [] d.resolve[p] = "target" -> "source"
                                     [] OTHER -> d.resolve[p]]
      BY DEF Mirrored
    <3> QED
      BY <3>1, <3>2
  <2> HIDE DEF resolutions, kept, gained, relations
  <2>7. /\ d.keepSource \in kept(x) /\ d.keepTarget \in gained(x)
        /\ d.relationsSource \in relations(x, x.source, x.target)
        /\ d.relationsTarget \in relations(x, x.target, x.source)
    BY <2>3
  <2>8. Mirrored(d) = [resolve |-> Mirrored(d).resolve,
                       keepSource |-> d.keepTarget, keepTarget |-> d.keepSource,
                       relationsSource |-> d.relationsTarget,
                       relationsTarget |-> d.relationsSource]
    BY DEF Mirrored
  <2>9. Mirrored(d) \in DecisionsFor(y)
    <3>1. DecisionsFor(y) =
             [resolve: resolutions(x), keepSource: gained(x), keepTarget: kept(x),
              relationsSource: relations(x, x.target, x.source),
              relationsTarget: relations(x, x.source, x.target)]
      BY <2>3, <2>4, <2>5
    <3> QED
      BY <2>6, <2>7, <2>8, <3>1
  <2> QED
    BY <2>2, <2>9
<1> QED
  BY <1>5, <1>6, <1>7, <1>8 DEF y

\* What appending a node leaves at a path that has none, or one.
LEMMA AppendedFrames ==
    ASSUME NEW a, NEW b
    PROVE  Append(<<>>, b) = <<b>> /\ Append(<<a>>, b) = <<a, b>>
<1> DEFINE S == {a, b}
<1>1. Append(<<>>, b) \in Seq(S) /\ Len(Append(<<>>, b)) = 1 /\ Append(<<>>, b)[1] = b
  <2>1. <<>> \in Seq(S) /\ Len(<<>>) = 0 /\ b \in S
    OBVIOUS
  <2> QED
    BY <2>1, AppendProperties
<1>2. /\ Append(<<a>>, b) \in Seq(S) /\ Len(Append(<<a>>, b)) = 2
      /\ Append(<<a>>, b)[1] = a /\ Append(<<a>>, b)[2] = b
  <2>1. <<a>> \in Seq(S) /\ Len(<<a>>) = 1 /\ <<a>>[1] = a /\ b \in S
    OBVIOUS
  <2> QED
    BY <2>1, AppendProperties
<1>3. /\ <<b>> \in Seq(S) /\ Len(<<b>>) = 1 /\ <<b>>[1] = b
      /\ <<a, b>> \in Seq(S) /\ Len(<<a, b>>) = 2 /\ <<a, b>>[1] = a /\ <<a, b>>[2] = b
  OBVIOUS
<1> HIDE DEF S
<1>4. Append(<<>>, b) = <<b>>
  <2>1. \A i \in 1..1 : Append(<<>>, b)[i] = <<b>>[i]
    BY <1>1
  <2> QED
    BY <1>1, <1>3, <2>1, SeqEqual
<1>5. Append(<<a>>, b) = <<a, b>>
  <2>1. \A i \in 1..2 : i = 1 \/ i = 2
    OBVIOUS
  <2>2. \A i \in 1..2 : Append(<<a>>, b)[i] = <<a, b>>[i]
    BY <1>2, <2>1
  <2> QED
    BY <1>2, <1>3, <2>2, SeqEqual
<1> QED
  BY <1>4, <1>5

\* A path is cut into paths.
LEMMA PathParts ==
    ASSUME NEW p, IsPath(p)
    PROVE  /\ Len(p) \in Nat \ {0}
           /\ SubSeq(p, 1, Len(p)) = p
           /\ SubSeq(p, 1, 1) = <<p[1]>>
           /\ Len(p) = 1 => p = <<p[1]>>
           /\ \A n \in 1..Len(p) : SubSeq(p, n, Len(p)) # <<>>
           /\ IsPrefix(<<p[1]>>, p)
<1> DEFINE S == {p[i] : i \in DOMAIN p}
<1>1. p \in Seq(S) /\ p # <<>>
  BY DEF IsPath
<1> HIDE DEF S
<1>2. Len(p) \in Nat /\ DOMAIN p = 1..Len(p) /\ Len(p) # 0
  BY <1>1
<1>3. SubSeq(p, 1, Len(p)) = p
  BY <1>1, SubSeqFull
<1>4. /\ SubSeq(p, 1, 1) \in Seq(S) /\ Len(SubSeq(p, 1, 1)) = 1 /\ SubSeq(p, 1, 1)[1] = p[1]
      /\ p[1] \in S
  <2>1. p[1] \in S
    BY <1>1, <1>2
  <2>2. \A i \in 1..1 : p[i] \in S
    BY <2>1
  <2>3. /\ SubSeq(p, 1, 1) \in Seq(S)
        /\ Len(SubSeq(p, 1, 1)) = 1
        /\ \A i \in 1..1 : SubSeq(p, 1, 1)[i] = p[i]
    BY <2>2, SubSeqProperties
  <2> QED
    BY <2>1, <2>3
<1>5. /\ <<p[1]>> \in Seq(S) /\ Len(<<p[1]>>) = 1 /\ <<p[1]>>[1] = p[1]
  BY <1>4
<1>6. SubSeq(p, 1, 1) = <<p[1]>>
  <2>1. \A i \in 1..1 : SubSeq(p, 1, 1)[i] = <<p[1]>>[i]
    BY <1>4, <1>5
  <2> QED
    BY <1>4, <1>5, <2>1, SeqEqual
<1>7. Len(p) = 1 => p = <<p[1]>>
  BY <1>3, <1>6
<1>8. ASSUME NEW n \in 1..Len(p) PROVE SubSeq(p, n, Len(p)) # <<>>
  <2>1. n \in Nat /\ 1 <= n /\ n <= Len(p)
    BY <1>2
  <2>2. \A i \in n..Len(p) : p[i] \in S
    BY <1>1, <1>2, <2>1
  <2>3. Len(SubSeq(p, n, Len(p))) = Len(p) - n + 1
    BY <1>2, <2>1, <2>2, SubSeqProperties
  <2>4. Len(SubSeq(p, n, Len(p))) # 0
    BY <1>2, <2>1, <2>3
  <2>5. Len(<<>>) = 0
    OBVIOUS
  <2> QED
    BY <2>4, <2>5, Zenon
<1>9. IsPrefix(<<p[1]>>, p)
  <2>1. SubSeq(<<p[1]>>, 1, 1) = <<p[1]>>
    <3>1. SubSeq(<<p[1]>>, 1, Len(<<p[1]>>)) = <<p[1]>>
      BY <1>5, SubSeqFull
    <3> QED
      BY <1>5, <3>1
  <2> QED
    BY <1>2, <1>5, <1>6, <2>1 DEF IsPrefix
<1> QED
  BY <1>2, <1>3, <1>6, <1>7, <1>8, <1>9

\* The steps by which a path collects what it has.
LEMMA PushedFrames ==
    ASSUME NEW node, NEW p
    PROVE  /\ Push([frames |-> <<>>, edited |-> FALSE], node).frames
                = (IF node = Gone THEN <<>> ELSE <<node>>)
           /\ \A a : Push([frames |-> <<a>>, edited |-> FALSE], node).frames
                = (IF node = Gone THEN <<a>> ELSE <<a, node>>)
           /\ \A a : Push([frames |-> <<a>>, edited |-> TRUE], node)
                = (IF node = Gone THEN [frames |-> <<a>>, edited |-> TRUE]
                   ELSE [frames |-> <<node>>, edited |-> FALSE])
           /\ Push([frames |-> <<>>, edited |-> FALSE], node)
                = (IF node = Gone THEN [frames |-> <<>>, edited |-> FALSE]
                   ELSE [frames |-> <<node>>, edited |-> FALSE])
           /\ \A here : PushEdited(here, p)
                = (IF p \in DOMAIN EditTree THEN [frames |-> <<EditTree[p]>>, edited |-> TRUE]
                   ELSE here)
<1>1. Append(<<>>, node) = <<node>> /\ \A a : Append(<<a>>, node) = <<a, node>>
  BY AppendedFrames
<1>2. Push([frames |-> <<>>, edited |-> FALSE], node)
        = (IF node = Gone THEN [frames |-> <<>>, edited |-> FALSE]
           ELSE [frames |-> <<node>>, edited |-> FALSE])
  BY <1>1 DEF Push, PushResolved
<1>3. ASSUME NEW a
      PROVE  /\ Push([frames |-> <<a>>, edited |-> FALSE], node).frames
                  = (IF node = Gone THEN <<a>> ELSE <<a, node>>)
             /\ Push([frames |-> <<a>>, edited |-> TRUE], node)
                  = (IF node = Gone THEN [frames |-> <<a>>, edited |-> TRUE]
                     ELSE [frames |-> <<node>>, edited |-> FALSE])
  <2>1. Append(<<a>>, node) = <<a, node>>
    BY <1>1
  <2> QED
    BY <2>1 DEF Push, PushResolved
<1>4. \A here : PushEdited(here, p)
        = (IF p \in DOMAIN EditTree THEN [frames |-> <<EditTree[p]>>, edited |-> TRUE] ELSE here)
  BY DEF PushEdited
<1>5. Push([frames |-> <<>>, edited |-> FALSE], node).frames
        = (IF node = Gone THEN <<>> ELSE <<node>>)
  BY <1>2
<1> QED
  BY <1>2, <1>3, <1>4, <1>5

\* An edit of a node above has put one at the path.
EditedHere(d, p) == EditedAbove(d, p) /\ p \in DOMAIN EditTree

\* The comparison sorts a path into at most one class: it conflicts, it is kept, or it is
\* on one side only.
LEMMA ClassesApart ==
    ASSUME NEW x \in MergeSides, NEW p
    PROVE  /\ p \in ConflictsOf(x) =>
                 /\ p \notin AutoKept(x)
                 /\ p \notin OnlyIn(x, x.source, x.target)
                 /\ p \notin OnlyIn(x, x.target, x.source)
           /\ p \in AutoKept(x) =>
                 /\ p \notin OnlyIn(x, x.source, x.target)
                 /\ p \notin OnlyIn(x, x.target, x.source)
           /\ p \in OnlyIn(x, x.source, x.target) => p \notin OnlyIn(x, x.target, x.source)
BY DEF ConflictsOf, AutoKept, OnlyIn, EditedAndDeleted, ChangedApart, Has

\* What is collected at a path that does not conflict.
LEMMA FramesWithoutConflict ==
    ASSUME NEW x \in MergeSides, NEW d \in DecisionsFor(x), NEW p, p \notin ConflictsOf(x)
    PROVE  FramesAt(x, d, p) =
              IF p \in d.keepSource THEN <<At(x.source, p)>>
              ELSE IF p \in d.keepTarget THEN <<At(x.target, p)>>
              ELSE IF EditedHere(d, p) THEN <<EditTree[p]>>
              ELSE IF p \in AutoKept(x) THEN <<Picked(x, p)>> ELSE <<>>
<1> DEFINE c == Collected(x, p)
           e == IF EditedAbove(d, p) THEN PushEdited(c, p) ELSE c
           s == IF p \in d.keepSource THEN Push(e, At(x.source, p)) ELSE e
           t == IF p \in d.keepTarget THEN Push(s, At(x.target, p)) ELSE s
<1>1. FramesAt(x, d, p) = t.frames
  BY DEF FramesAt
<1>2. c = [frames |-> IF p \in AutoKept(x) THEN <<Picked(x, p)>> ELSE <<>>, edited |-> FALSE]
  BY DEF Collected
<1>3. e = IF EditedHere(d, p) THEN [frames |-> <<EditTree[p]>>, edited |-> TRUE] ELSE c
  BY PushedFrames DEF EditedHere
<1>4. /\ d.keepSource \subseteq OnlyIn(x, x.source, x.target)
      /\ d.keepTarget \subseteq OnlyIn(x, x.target, x.source)
  BY DEF DecisionsFor
<1>5. /\ p \in d.keepSource => At(x.source, p) # Gone /\ p \notin d.keepTarget /\ p \notin AutoKept(x)
      /\ p \in d.keepTarget => At(x.target, p) # Gone /\ p \notin AutoKept(x)
  <2>1. /\ p \in d.keepSource => Has(x.source, p)
        /\ p \in d.keepTarget => Has(x.target, p)
    BY <1>4 DEF OnlyIn, Has
  <2> QED
    BY <1>4, <2>1, NodesThere, ClassesApart
<1> HIDE DEF c, e
<1>6. CASE p \in d.keepSource
  <2>1. s = [frames |-> <<At(x.source, p)>>, edited |-> FALSE]
    <3>1. s = Push(e, At(x.source, p))
      BY <1>6
    <3>2. e = [frames |-> <<EditTree[p]>>, edited |-> TRUE] \/ e = [frames |-> <<>>, edited |-> FALSE]
      BY <1>2, <1>3, <1>5, <1>6
    <3> QED
      BY <1>5, <1>6, <3>1, <3>2, PushedFrames
  <2>2. t = s
    BY <1>5, <1>6
  <2> HIDE DEF s, t
  <2> QED
    BY <1>1, <1>6, <2>1, <2>2
<1>7. CASE p \in d.keepTarget
  <2>1. s = e
    BY <1>5, <1>7
  <2>2. t = [frames |-> <<At(x.target, p)>>, edited |-> FALSE]
    <3>1. t = Push(e, At(x.target, p))
      BY <1>7, <2>1
    <3>2. e = [frames |-> <<EditTree[p]>>, edited |-> TRUE] \/ e = [frames |-> <<>>, edited |-> FALSE]
      BY <1>2, <1>3, <1>5, <1>7
    <3> QED
      BY <1>5, <1>7, <3>1, <3>2, PushedFrames
  <2> HIDE DEF s, t
  <2>3. p \notin d.keepSource
    BY <1>5, <1>7
  <2> QED
    BY <1>1, <1>7, <2>2, <2>3
<1>8. CASE p \notin d.keepSource /\ p \notin d.keepTarget
  <2>1. t = e
    BY <1>8
  <2> HIDE DEF s, t
  <2> QED
    BY <1>1, <1>2, <1>3, <1>8, <2>1
<1> QED
  BY <1>6, <1>7, <1>8

\* What is collected at a path that conflicts.
LEMMA FramesOfConflict ==
    ASSUME NEW x \in MergeSides, NEW d \in DecisionsFor(x), NEW p \in ConflictsOf(x)
    PROVE  LET a == At(x.source, p)
               b == At(x.target, p)
               above == IF EditedHere(d, p) THEN <<EditTree[p]>> ELSE <<>>
           IN  /\ d.resolve[p] \in {"source", "target", "both", "edit"}
               /\ a # Gone \/ b # Gone
               /\ d.resolve[p] = "edit" => p \in DOMAIN EditTree
               /\ FramesAt(x, d, p) =
                     CASE d.resolve[p] = "source" -> IF a = Gone THEN above ELSE <<a>>
                       [] d.resolve[p] = "target" -> IF b = Gone THEN above ELSE <<b>>
                       [] d.resolve[p] = "both" ->
                             IF a = Gone THEN <<b>> ELSE IF b = Gone THEN <<a>> ELSE <<a, b>>
                       [] d.resolve[p] = "edit" -> <<EditTree[p]>>
<1> DEFINE a == At(x.source, p)
           b == At(x.target, p)
           above == IF EditedHere(d, p) THEN <<EditTree[p]>> ELSE <<>>
           e == IF EditedAbove(d, p) THEN PushEdited(Collected(x, p), p) ELSE Collected(x, p)
<1>1. /\ p \notin AutoKept(x)
      /\ p \notin OnlyIn(x, x.source, x.target)
      /\ p \notin OnlyIn(x, x.target, x.source)
  BY ClassesApart
<1>2. p \notin d.keepSource /\ p \notin d.keepTarget
  BY <1>1 DEF DecisionsFor
<1>3. /\ d.resolve[p] \in {"source", "target", "both", "edit"}
      /\ d.resolve[p] = "edit" => p \in DOMAIN EditTree
  BY DEF DecisionsFor
<1>4. a # Gone \/ b # Gone
  <2>1. Has(x.source, p) \/ Has(x.target, p)
    BY DEF ConflictsOf, ChangedApart, EditedAndDeleted
  <2> QED
    BY <2>1, NodesThere
<1>5. FramesAt(x, d, p) = Resolve(e, x, p, d.resolve[p]).frames
  BY <1>2 DEF FramesAt
<1>6. e = IF EditedHere(d, p) THEN [frames |-> <<EditTree[p]>>, edited |-> TRUE]
          ELSE [frames |-> <<>>, edited |-> FALSE]
  BY <1>1, PushedFrames DEF EditedHere, Collected
<1>7. e.frames = above
  BY <1>6
<1>8. ASSUME NEW node
      PROVE  Push(e, node) = IF node = Gone THEN e ELSE [frames |-> <<node>>, edited |-> FALSE]
  BY <1>6, PushedFrames
<1> HIDE DEF e, above
<1>9. ASSUME d.resolve[p] = "source"
      PROVE  FramesAt(x, d, p) = IF a = Gone THEN above ELSE <<a>>
  <2>1. Resolve(e, x, p, d.resolve[p]) = Push(e, a)
    BY <1>9 DEF Resolve
  <2> HIDE DEF a
  <2> QED
    BY <1>5, <1>7, <1>8, <1>9, <2>1
<1>10. ASSUME d.resolve[p] = "target"
       PROVE  FramesAt(x, d, p) = IF b = Gone THEN above ELSE <<b>>
  <2>1. Resolve(e, x, p, d.resolve[p]) = Push(e, b)
    BY <1>10 DEF Resolve
  <2> HIDE DEF b
  <2> QED
    BY <1>5, <1>7, <1>8, <1>10, <2>1
<1>11. ASSUME d.resolve[p] = "both"
       PROVE  FramesAt(x, d, p) =
                 IF a = Gone THEN <<b>> ELSE IF b = Gone THEN <<a>> ELSE <<a, b>>
  <2>1. Resolve(e, x, p, d.resolve[p]) = Push(Push(e, a), b)
    BY <1>11 DEF Resolve
  <2> HIDE DEF a, b
  <2>2. CASE a = Gone
    <3>1. Push(e, a) = e
      BY <1>8, <2>2
    <3>2. Push(e, b) = [frames |-> <<b>>, edited |-> FALSE]
      BY <1>4, <1>8, <2>2
    <3>3. FramesAt(x, d, p) = <<b>>
      BY <1>5, <2>1, <3>1, <3>2
    <3> QED
      BY <2>2, <3>3
  <2>3. CASE a # Gone
    <3>1. Push(e, a) = [frames |-> <<a>>, edited |-> FALSE]
      BY <1>8, <2>3
    <3>2. Push([frames |-> <<a>>, edited |-> FALSE], b).frames
          = (IF b = Gone THEN <<a>> ELSE <<a, b>>)
      BY PushedFrames
    <3>3. FramesAt(x, d, p) = IF b = Gone THEN <<a>> ELSE <<a, b>>
      BY <1>5, <2>1, <3>1, <3>2
    <3> QED
      BY <2>3, <3>3
  <2> QED
    BY <2>2, <2>3
<1>12. ASSUME d.resolve[p] = "edit" PROVE FramesAt(x, d, p) = <<EditTree[p]>>
  <2>1. Resolve(e, x, p, d.resolve[p]) = PushEdited(e, p)
    BY <1>12 DEF Resolve
  <2>2. PushEdited(e, p) = [frames |-> <<EditTree[p]>>, edited |-> TRUE]
    BY <1>3, <1>12, PushedFrames
  <2> QED
    BY <1>5, <1>12, <2>1, <2>2
<1>13. FramesAt(x, d, p) =
          CASE d.resolve[p] = "source" -> IF a = Gone THEN above ELSE <<a>>
            [] d.resolve[p] = "target" -> IF b = Gone THEN above ELSE <<b>>
            [] d.resolve[p] = "both" ->
                  IF a = Gone THEN <<b>> ELSE IF b = Gone THEN <<a>> ELSE <<a, b>>
            [] d.resolve[p] = "edit" -> <<EditTree[p]>>
  <2> HIDE DEF a, b
  <2>1. CASE d.resolve[p] = "source"
    BY <1>9, <2>1
  <2>2. CASE d.resolve[p] = "target"
    BY <1>10, <2>2
  <2>3. CASE d.resolve[p] = "both"
    BY <1>11, <2>3
  <2>4. CASE d.resolve[p] = "edit"
    BY <1>12, <2>4
  <2> QED
    BY <1>3, <2>1, <2>2, <2>3, <2>4
<1> QED
  BY <1>3, <1>4, <1>13 DEF a, b, above

\* Two nodes are collected at a path only if both sides were asked for there.
LEMMA FramesPerPath ==
    ASSUME NEW x \in MergeSides, NEW d \in DecisionsFor(x), NEW p
    PROVE  /\ DOMAIN FramesAt(x, d, p) \subseteq 1..2
           /\ ~(p \in ConflictsOf(x) /\ d.resolve[p] = "both") => DOMAIN FramesAt(x, d, p) \subseteq {1}
<1>1. /\ DOMAIN <<>> = {} 
      /\ \A a : DOMAIN <<a>> = {1}
      /\ \A a, b : DOMAIN <<a, b>> = 1..2
  OBVIOUS
<1>2. CASE p \notin ConflictsOf(x)
  <2>1. FramesAt(x, d, p) = <<>> \/ \E a : FramesAt(x, d, p) = <<a>>
    BY <1>2, FramesWithoutConflict
  <2> QED
    BY <1>1, <1>2, <2>1
<1>3. CASE p \in ConflictsOf(x)
  <2> DEFINE a == At(x.source, p)
             b == At(x.target, p)
             above == IF EditedHere(d, p) THEN <<EditTree[p]>> ELSE <<>>
  <2>1. /\ d.resolve[p] \in {"source", "target", "both", "edit"}
        /\ FramesAt(x, d, p) =
              CASE d.resolve[p] = "source" -> IF a = Gone THEN above ELSE <<a>>
                [] d.resolve[p] = "target" -> IF b = Gone THEN above ELSE <<b>>
                [] d.resolve[p] = "both" ->
                      IF a = Gone THEN <<b>> ELSE IF b = Gone THEN <<a>> ELSE <<a, b>>
                [] d.resolve[p] = "edit" -> <<EditTree[p]>>
    BY <1>3, FramesOfConflict
  <2>2. DOMAIN above \subseteq {1}
    BY <1>1
  <2> HIDE DEF a, b, above
  <2>3. CASE d.resolve[p] = "source"
    BY <1>1, <2>1, <2>2, <2>3
  <2>4. CASE d.resolve[p] = "target"
    BY <1>1, <2>1, <2>2, <2>4
  <2>5. CASE d.resolve[p] = "both"
    <3>1. FramesAt(x, d, p) \in {<<a>>, <<b>>, <<a, b>>}
      BY <2>1, <2>5
    <3>2. DOMAIN FramesAt(x, d, p) \subseteq 1..2
      BY <1>1, <3>1
    <3> QED
      BY <1>3, <2>5, <3>2
  <2>6. CASE d.resolve[p] = "edit"
    BY <1>1, <2>1, <2>6
  <2> QED
    BY <2>1, <2>3, <2>4, <2>5, <2>6
<1> QED
  BY <1>2, <1>3

\* Every path at which something may be collected is a path.
LEMMA PathsArePaths ==
    ASSUME NEW x \in MergeSides, NEW d, NEW p \in DOMAIN FramesOf(x, d)
    PROVE  IsPath(p)
<1>1. x.base \in Contents /\ x.source \in Contents /\ x.target \in Contents
  BY DEF MergeSides
<1>2. /\ \A c \in Contents : \A q \in DOMAIN c.nodes : IsPath(q)
      /\ \A q \in DOMAIN EditTree : IsPath(q)
  BY MergeAssumption DEF MergeAssumption
<1> QED
  BY <1>1, <1>2 DEF FramesOf, PathsOf

\* The node that a frame of path p becomes in the tree with root top.
NodeAt(frames, top, p, i) ==
    [path |-> SubSeq(p, Len(top), Len(p)), slots |-> frames[p][i], copy |-> i,
     moved |-> Len(top) > 1]

\* The nodes that can be built from frames: each tree has one of its shallowest frames
\* as root, and the frames that hang below it.
BuiltFrom(nodes, frames) ==
    \E tops : /\ \A p \in Filled(frames) : tops[p[1]] \in RootsOf(frames, p[1])
              /\ \A m : m \in nodes <=>
                    \E p \in Filled(frames) :
                       \E i \in Attached(frames, tops[p[1]], p) :
                          m = NodeAt(frames, tops[p[1]], p, i)

\* The nodes of the outcome are the frames that hang below the root of their tree.
LEMMA NodesFromFrames ==
    ASSUME NEW x, NEW d, NEW o \in OutcomesOf(x, d)
    PROVE  BuiltFrom(o.nodes, FramesOf(x, d))
<1> DEFINE frames == FramesOf(x, d)
           keys == {p[1] : p \in Filled(frames)}
<1>1. PICK tops \in [keys -> Filled(frames)] :
         /\ \A k \in keys : tops[k] \in RootsOf(frames, k)
         /\ o.nodes = UNION {TreeNodes(frames, tops[k]) : k \in keys}
  <2> DEFINE choices == {f \in [keys -> Filled(frames)] :
                           \A k \in keys : f[k] \in RootsOf(frames, k)}
  <2>1. OutcomesOf(x, d) = {[nodes |-> UNION {TreeNodes(frames, top[k]) : k \in keys},
                             relations |-> MergedRelations(x, d)] : top \in choices}
    BY DEF OutcomesOf
  <2>2. PICK top \in choices :
           o = [nodes |-> UNION {TreeNodes(frames, top[k]) : k \in keys},
                relations |-> MergedRelations(x, d)]
    BY <2>1
  <2> QED
    BY <2>2
<1>2. \A p \in Filled(frames) : p[1] \in keys /\ tops[p[1]] \in RootsOf(frames, p[1])
  BY <1>1
<1>3. \A k \in keys : tops[k][1] = k
  BY <1>1 DEF RootsOf
<1> HIDE DEF frames
<1>4. ASSUME NEW m, NEW top
      PROVE  m \in TreeNodes(frames, top) <=>
             \E p \in Filled(frames) :
                p[1] = top[1] /\ \E i \in Attached(frames, top, p) : m = NodeAt(frames, top, p, i)
  <2> DEFINE group == {q \in Filled(frames) : q[1] = top[1]}
             at(p) == {NodeAt(frames, top, p, i) : i \in Attached(frames, top, p)}
  <2>1. TreeNodes(frames, top) = UNION {at(p) : p \in group}
    BY DEF TreeNodes, NodeAt
  <2>2. \A p : m \in at(p) <=> \E i \in Attached(frames, top, p) : m = NodeAt(frames, top, p, i)
    OBVIOUS
  <2> HIDE DEF at
  <2>3. m \in TreeNodes(frames, top) <=> \E p \in group : m \in at(p)
    BY <2>1
  <2> QED
    BY <2>2, <2>3
<1>5. ASSUME NEW m
      PROVE  m \in o.nodes <=> \E p \in Filled(frames) :
                                  \E i \in Attached(frames, tops[p[1]], p) :
                                     m = NodeAt(frames, tops[p[1]], p, i)
  <2>1. m \in o.nodes <=> \E k \in keys : m \in TreeNodes(frames, tops[k])
    BY <1>1
  <2>2. ASSUME NEW k \in keys, m \in TreeNodes(frames, tops[k])
        PROVE  \E p \in Filled(frames) : \E i \in Attached(frames, tops[p[1]], p) :
                                            m = NodeAt(frames, tops[p[1]], p, i)
    <3>1. PICK p \in Filled(frames) :
             p[1] = tops[k][1] /\ \E i \in Attached(frames, tops[k], p) :
                                     m = NodeAt(frames, tops[k], p, i)
      BY <1>4, <2>2
    <3>2. p[1] = k
      BY <1>3, <3>1
    <3> QED
      BY <3>1, <3>2
  <2>3. ASSUME NEW p \in Filled(frames),
               \E i \in Attached(frames, tops[p[1]], p) : m = NodeAt(frames, tops[p[1]], p, i)
        PROVE  \E k \in keys : m \in TreeNodes(frames, tops[k])
    <3>1. p[1] \in keys /\ p[1] = tops[p[1]][1]
      BY <1>2, <1>3
    <3>2. m \in TreeNodes(frames, tops[p[1]])
      BY <1>4, <2>3, <3>1
    <3> QED
      BY <3>1, <3>2
  <2> QED
    BY <2>1, <2>2, <2>3
<1> QED
  BY <1>2, <1>5 DEF frames, BuiltFrom

\* A node hangs below the root of its tree.
LEMMA RootsAbove ==
    ASSUME NEW x \in MergeSides, NEW d, NEW p \in Filled(FramesOf(x, d)),
           NEW top \in RootsOf(FramesOf(x, d), p[1]), NEW i \in Attached(FramesOf(x, d), top, p)
    PROVE  IsPath(p) /\ IsPath(top) /\ Len(top) \in 1..Len(p)
<1>1. p \in DOMAIN FramesOf(x, d) /\ top \in DOMAIN FramesOf(x, d)
  BY DEF Filled, RootsOf
<1>2. IsPath(p) /\ IsPath(top)
  BY <1>1, PathsArePaths
<1>3. Len(p) \in Nat \ {0} /\ Len(top) \in Nat \ {0}
  BY <1>2, PathParts
<1>4. top = p \/ IsPrefix(top, p)
  BY DEF Attached
<1>5. Len(top) <= Len(p)
  BY <1>3, <1>4 DEF IsPrefix
<1> QED
  BY <1>2, <1>3, <1>5

\* A tree that has kept its root keeps the paths of its nodes.
LEMMA UnmovedNodes ==
    ASSUME NEW x \in MergeSides, NEW d \in DecisionsFor(x),
           NEW p \in Filled(FramesOf(x, d)), NEW top \in RootsOf(FramesOf(x, d), p[1]),
           NEW i \in Attached(FramesOf(x, d), top, p)
    PROVE  /\ NodeAt(FramesOf(x, d), top, p, i).path # <<>>
           /\ i \in 1..2
           /\ ~NodeAt(FramesOf(x, d), top, p, i).moved =>
                 /\ NodeAt(FramesOf(x, d), top, p, i).path = p
                 /\ i # 1 => p \in ConflictsOf(x) /\ d.resolve[p] = "both"
<1> DEFINE frames == FramesOf(x, d)
           m == NodeAt(frames, top, p, i)
<1>1. /\ p \in DOMAIN frames /\ top \in DOMAIN frames /\ top[1] = p[1]
      /\ frames[p] = FramesAt(x, d, p)
  BY DEF Filled, RootsOf, FramesOf
<1>2. IsPath(p) /\ IsPath(top) /\ Len(top) \in 1..Len(p)
  BY RootsAbove
<1> HIDE DEF frames
<1>3. m.path = SubSeq(p, Len(top), Len(p)) /\ m.moved = (Len(top) > 1)
  BY DEF NodeAt
<1>4. Len(p) \in Nat \ {0} /\ Len(top) \in Nat \ {0}
  BY <1>2, PathParts
<1>5. top = p \/ i \in DOMAIN frames[p]
  BY DEF Attached, frames
<1>7. m.path # <<>>
  <2>1. \A n \in 1..Len(p) : SubSeq(p, n, Len(p)) # <<>>
    BY <1>2, PathParts
  <2>2. SubSeq(p, Len(top), Len(p)) # <<>>
    BY <1>2, <2>1
  <2> QED
    BY <1>3, <2>2, Zenon
<1>8. i = 1 \/ i \in DOMAIN FramesAt(x, d, p)
  BY <1>1, <1>5 DEF Attached, frames
<1>9. i \in 1..2 /\ (i # 1 => p \in ConflictsOf(x) /\ d.resolve[p] = "both")
  BY <1>8, FramesPerPath
<1>10. ~m.moved => m.path = p
  <2> SUFFICES ASSUME ~m.moved PROVE m.path = p
    OBVIOUS
  <2>1. ~(Len(top) > 1)
    BY <1>3, Zenon
  <2>2. Len(top) = 1
    <3>1. \A n \in Nat \ {0} : ~(n > 1) => n = 1
      OBVIOUS
    <3> QED
      BY <1>4, <2>1, <3>1, Zenon
  <2> QED
    BY <1>2, <1>3, <2>2, PathParts
<1> QED
  BY <1>7, <1>9, <1>10 DEF frames

\* A merge that has been executed follows one of the decisions that its sides admit.
MergeInv ==
    /\ sides = Nothing \/ sides \in MergeSides
    /\ decision = Nothing <=> merged = Nothing
    /\ decision # Nothing => /\ sides \in MergeSides
                             /\ decision \in DecisionsFor(sides)
                             /\ merged \in OutcomesOf(sides, decision)

\* Nothing that is read, decided or merged looks like the absence of it.
LEMMA SomethingIsNotNothing ==
    /\ Nothing \notin MergeSides
    /\ \A x : Nothing \notin DecisionsFor(x)
    /\ \A x, d : Nothing \notin OutcomesOf(x, d)
<1>1. DOMAIN Nothing = {"done"}
  BY DEF Nothing
<1>2. Nothing \notin MergeSides
  BY <1>1 DEF MergeSides
<1>3. ASSUME NEW x, NEW d \in DecisionsFor(x) PROVE DOMAIN d # {"done"}
  <2>1. "resolve" \in DOMAIN d
    BY DEF DecisionsFor
  <2> QED
    BY <2>1
<1>4. ASSUME NEW x, NEW d, NEW o \in OutcomesOf(x, d) PROVE DOMAIN o # {"done"}
  <2>1. "nodes" \in DOMAIN o
    <3>1. \A n, r : "nodes" \in DOMAIN [nodes |-> n, relations |-> r]
      OBVIOUS
    <3> QED
      BY <3>1, Zenon DEF OutcomesOf
  <2> QED
    BY <2>1
<1> QED
  BY <1>1, <1>2, <1>3, <1>4

\* The inductive invariant: the content of a merge is an outcome of its decision.
LEMMA MergeInvHolds == MergeSpec => []MergeInv
<1>1. MergeInit => MergeInv
  BY DEF MergeInit, MergeInv
<1>2. MergeInv /\ [MergeNext]_mergeVars => MergeInv'
  <2> SUFFICES ASSUME MergeInv, [MergeNext]_mergeVars PROVE MergeInv'
    OBVIOUS
  <2>1. ASSUME NEW b \in Contents, NEW s \in Contents, NEW t \in Contents, ReadSides(b, s, t)
        PROVE  MergeInv'
    <3>1. sides = Nothing /\ sides' = [base |-> b, source |-> s, target |-> t]
          /\ decision' = decision /\ merged' = merged
      BY <2>1 DEF ReadSides
    <3>2. sides' \in MergeSides
      BY <3>1 DEF MergeSides
    <3>3. decision = Nothing /\ merged = Nothing
      BY <3>1, SomethingIsNotNothing DEF MergeInv
    <3> QED
      BY <3>1, <3>2, <3>3 DEF MergeInv
  <2>2. CASE ExecuteMerge
    <3>1. sides \in MergeSides /\ sides' = sides
      BY <2>2 DEF ExecuteMerge, MergeInv
    <3>2. decision' \in DecisionsFor(sides) /\ merged' \in OutcomesOf(sides, decision')
      BY <2>2 DEF ExecuteMerge
    <3>3. decision' # Nothing /\ merged' # Nothing
      BY <3>2, SomethingIsNotNothing
    <3> QED
      BY <3>1, <3>2, <3>3 DEF MergeInv
  <2>3. CASE UNCHANGED mergeVars
    BY <2>3 DEF mergeVars, MergeInv
  <2> QED
    BY <2>1, <2>2, <2>3 DEF MergeNext
<1> QED
  BY <1>1, <1>2, PTL DEF MergeSpec

\* A merge is of three contents, its outcome comes with the decision that gave it, and
\* its nodes have paths (executeMerge, unflattenToTrees).
THEOREM MergeTypes == MergeSpec => []MergeTypeOK
<1>1. MergeInv => MergeTypeOK
  <2> SUFFICES ASSUME MergeInv PROVE MergeTypeOK
    OBVIOUS
  <2>1. sides = Nothing \/ sides \in [base: Contents, source: Contents, target: Contents]
    BY DEF MergeInv, MergeSides
  <2>2. decision = Nothing <=> merged = Nothing
    BY DEF MergeInv
  <2>3. ASSUME merged # Nothing, NEW m \in merged.nodes PROVE m.path # <<>> /\ m.copy \in 1..2
    <3>1. /\ sides \in MergeSides /\ decision \in DecisionsFor(sides)
          /\ merged \in OutcomesOf(sides, decision)
      BY <2>2, <2>3 DEF MergeInv
    <3> DEFINE frames == FramesOf(sides, decision)
    <3>2. PICK tops : /\ \A p \in Filled(frames) : tops[p[1]] \in RootsOf(frames, p[1])
                      /\ \A n : n \in merged.nodes <=>
                            \E p \in Filled(frames) : \E i \in Attached(frames, tops[p[1]], p) :
                               n = NodeAt(frames, tops[p[1]], p, i)
      <4>1. BuiltFrom(merged.nodes, frames)
        BY <3>1, NodesFromFrames
      <4> QED
        BY <4>1 DEF BuiltFrom
    <3>3. PICK p \in Filled(frames) : \E i \in Attached(frames, tops[p[1]], p) :
                                         m = NodeAt(frames, tops[p[1]], p, i)
      BY <2>3, <3>2
    <3>4. PICK i \in Attached(frames, tops[p[1]], p) : m = NodeAt(frames, tops[p[1]], p, i)
      BY <3>3
    <3>5. m.path # <<>> /\ i \in 1..2
      BY <3>1, <3>2, <3>4, UnmovedNodes
    <3>6. m.copy = i
      BY <3>4 DEF NodeAt
    <3> QED
      BY <3>5, <3>6
  <2> QED
    BY <2>1, <2>2, <2>3 DEF MergeTypeOK
<1> QED
  BY <1>1, MergeInvHolds, PTL

\* In any merge, of any contents and with any edited tree, a path names two nodes only if
\* both sides were asked for there (pushEditedFrames, pushResolvedFrame).
THEOREM OneNodePerPath == MergeSpec => []PathsStayUnique
<1>1. MergeInv => PathsStayUnique
  <2> SUFFICES ASSUME MergeInv, merged # Nothing, NEW m \in merged.nodes, NEW n \in merged.nodes,
                      m.path = n.path, m # n, ~m.moved, ~n.moved
               PROVE  m.path \in DOMAIN decision.resolve /\ decision.resolve[m.path] = "both"
    BY DEF PathsStayUnique
  <2>1. /\ sides \in MergeSides /\ decision \in DecisionsFor(sides)
        /\ merged \in OutcomesOf(sides, decision)
    BY DEF MergeInv
  <2> DEFINE frames == FramesOf(sides, decision)
  <2>2. PICK tops : /\ \A p \in Filled(frames) : tops[p[1]] \in RootsOf(frames, p[1])
                    /\ \A k : k \in merged.nodes <=>
                          \E p \in Filled(frames) : \E i \in Attached(frames, tops[p[1]], p) :
                             k = NodeAt(frames, tops[p[1]], p, i)
    <3>1. BuiltFrom(merged.nodes, frames)
      BY <2>1, NodesFromFrames
    <3> QED
      BY <3>1 DEF BuiltFrom
  <2>3. ASSUME NEW k \in merged.nodes, ~k.moved
        PROVE  \E p \in Filled(frames) : \E i \in Attached(frames, tops[p[1]], p) :
                  /\ k = NodeAt(frames, tops[p[1]], p, i) /\ k.path = p
                  /\ i \in 1..2
                  /\ i # 1 => p \in ConflictsOf(sides) /\ decision.resolve[p] = "both"
    <3>1. PICK p \in Filled(frames) : \E i \in Attached(frames, tops[p[1]], p) :
                                         k = NodeAt(frames, tops[p[1]], p, i)
      BY <2>2
    <3>2. PICK i \in Attached(frames, tops[p[1]], p) : k = NodeAt(frames, tops[p[1]], p, i)
      BY <3>1
    <3>3. tops[p[1]] \in RootsOf(frames, p[1])
      BY <2>2
    <3>4. /\ k.path = p /\ i \in 1..2
          /\ i # 1 => p \in ConflictsOf(sides) /\ decision.resolve[p] = "both"
      BY <2>1, <2>3, <3>2, <3>3, UnmovedNodes
    <3> QED
      BY <3>2, <3>4
  <2>4. PICK p \in Filled(frames) : \E i \in Attached(frames, tops[p[1]], p) :
           /\ m = NodeAt(frames, tops[p[1]], p, i) /\ m.path = p
           /\ i \in 1..2
           /\ i # 1 => p \in ConflictsOf(sides) /\ decision.resolve[p] = "both"
    BY <2>3
  <2>5. PICK i \in 1..2 : /\ m = NodeAt(frames, tops[p[1]], p, i)
                          /\ i # 1 => p \in ConflictsOf(sides) /\ decision.resolve[p] = "both"
    BY <2>4
  <2>6. PICK q \in Filled(frames) : \E j \in Attached(frames, tops[q[1]], q) :
           /\ n = NodeAt(frames, tops[q[1]], q, j) /\ n.path = q
           /\ j \in 1..2
           /\ j # 1 => q \in ConflictsOf(sides) /\ decision.resolve[q] = "both"
    BY <2>3
  <2>7. PICK j \in 1..2 : /\ n = NodeAt(frames, tops[q[1]], q, j)
                          /\ j # 1 => q \in ConflictsOf(sides) /\ decision.resolve[q] = "both"
    BY <2>6
  <2> HIDE DEF frames
  <2>8. m.path = p /\ q = p
    BY <2>4, <2>6
  <2>9. i # j
    BY <2>5, <2>7, <2>8
  <2>10. p \in ConflictsOf(sides) /\ decision.resolve[p] = "both"
    BY <2>5, <2>7, <2>8, <2>9
  <2>11. DOMAIN decision.resolve = ConflictsOf(sides)
    BY <2>1 DEF DecisionsFor
  <2> QED
    BY <2>8, <2>10, <2>11
<1> QED
  BY <1>1, MergeInvHolds, PTL

\* Whichever branch is the source, mirrored decisions collect the same at each path,
\* unless both sides are asked for, which has an order.
LEMMA FramesAreSymmetric ==
    ASSUME NEW x \in MergeSides, NEW d \in DecisionsFor(x),
           \A q \in DOMAIN d.resolve : d.resolve[q] \in {"source", "target", "edit"}
    PROVE  FramesOf(Exchanged(x), Mirrored(d)) = FramesOf(x, d)
<1> DEFINE y == Exchanged(x)
           e == Mirrored(d)
<1>1. /\ y \in MergeSides
      /\ y.base = x.base /\ y.source = x.target /\ y.target = x.source
  BY DEF Exchanged, MergeSides
<1>2. /\ ConflictsOf(y) = ConflictsOf(x)
      /\ AutoKept(y) = AutoKept(x)
      /\ \A p \in AutoKept(x) : Picked(y, p) = Picked(x, p)
      /\ e \in DecisionsFor(y)
  BY ComparisonIsSymmetric
<1>3. /\ e.keepSource = d.keepTarget /\ e.keepTarget = d.keepSource
      /\ e.resolve = [p \in DOMAIN d.resolve |->
                        CASE d.resolve[p] = "source" -> "target"
                          [] d.resolve[p] = "target" -> "source"
                          [] OTHER -> d.resolve[p]]
  BY DEF Mirrored
<1>4. DOMAIN d.resolve = ConflictsOf(x)
  BY DEF DecisionsFor
<1>5. ASSUME NEW p \in ConflictsOf(x)
      PROVE  /\ d.resolve[p] \in {"source", "target", "edit"}
             /\ d.resolve[p] = "source" <=> e.resolve[p] = "target"
             /\ d.resolve[p] = "target" <=> e.resolve[p] = "source"
             /\ d.resolve[p] = "edit" <=> e.resolve[p] = "edit"
  <2>1. d.resolve[p] \in {"source", "target", "edit"}
    BY <1>4
  <2>2. e.resolve[p] = CASE d.resolve[p] = "source" -> "target"
                         [] d.resolve[p] = "target" -> "source"
                         [] OTHER -> d.resolve[p]
    BY <1>3, <1>4
  <2> QED
    BY <2>1, <2>2
<1> HIDE DEF y, e
<1>6. \A p : EditedHere(e, p) <=> EditedHere(d, p)
  <2>1. DOMAIN e.resolve = DOMAIN d.resolve
    BY <1>3
  <2> QED
    BY <1>4, <1>5, <2>1 DEF EditedHere, EditedAbove
<1>7. ASSUME NEW p, p \notin ConflictsOf(x) PROVE FramesAt(y, e, p) = FramesAt(x, d, p)
  <2>1. FramesAt(x, d, p) = IF p \in d.keepSource THEN <<At(x.source, p)>>
                            ELSE IF p \in d.keepTarget THEN <<At(x.target, p)>>
                            ELSE IF EditedHere(d, p) THEN <<EditTree[p]>>
                            ELSE IF p \in AutoKept(x) THEN <<Picked(x, p)>> ELSE <<>>
    BY <1>7, FramesWithoutConflict
  <2>2. FramesAt(y, e, p) = IF p \in e.keepSource THEN <<At(y.source, p)>>
                            ELSE IF p \in e.keepTarget THEN <<At(y.target, p)>>
                            ELSE IF EditedHere(e, p) THEN <<EditTree[p]>>
                            ELSE IF p \in AutoKept(y) THEN <<Picked(y, p)>> ELSE <<>>
    BY <1>1, <1>2, <1>7, FramesWithoutConflict
  <2>3. ~(p \in d.keepSource /\ p \in d.keepTarget)
    <3>1. /\ d.keepSource \subseteq OnlyIn(x, x.source, x.target)
          /\ d.keepTarget \subseteq OnlyIn(x, x.target, x.source)
      BY DEF DecisionsFor
    <3> QED
      BY <3>1, ClassesApart
  <2> QED
    BY <1>1, <1>2, <1>3, <1>6, <2>1, <2>2, <2>3
<1>8. ASSUME NEW p \in ConflictsOf(x) PROVE FramesAt(y, e, p) = FramesAt(x, d, p)
  <2> DEFINE above == IF EditedHere(d, p) THEN <<EditTree[p]>> ELSE <<>>
  <2>1. FramesAt(x, d, p) =
           CASE d.resolve[p] = "source" -> IF At(x.source, p) = Gone THEN above ELSE <<At(x.source, p)>>
             [] d.resolve[p] = "target" -> IF At(x.target, p) = Gone THEN above ELSE <<At(x.target, p)>>
             [] d.resolve[p] = "both" ->
                   IF At(x.source, p) = Gone THEN <<At(x.target, p)>>
                   ELSE IF At(x.target, p) = Gone THEN <<At(x.source, p)>>
                   ELSE <<At(x.source, p), At(x.target, p)>>
             [] d.resolve[p] = "edit" -> <<EditTree[p]>>
    BY FramesOfConflict
  <2>2. FramesAt(y, e, p) =
           CASE e.resolve[p] = "source" -> IF At(y.source, p) = Gone THEN above ELSE <<At(y.source, p)>>
             [] e.resolve[p] = "target" -> IF At(y.target, p) = Gone THEN above ELSE <<At(y.target, p)>>
             [] e.resolve[p] = "both" ->
                   IF At(y.source, p) = Gone THEN <<At(y.target, p)>>
                   ELSE IF At(y.target, p) = Gone THEN <<At(y.source, p)>>
                   ELSE <<At(y.source, p), At(y.target, p)>>
             [] e.resolve[p] = "edit" -> <<EditTree[p]>>
    <3>1. above = IF EditedHere(e, p) THEN <<EditTree[p]>> ELSE <<>>
      BY <1>6
    <3> HIDE DEF above
    <3> QED
      BY <1>1, <1>2, <3>1, FramesOfConflict
  <2> HIDE DEF above
  <2>3. CASE d.resolve[p] = "source"
    <3>1. e.resolve[p] = "target"
      BY <1>5, <2>3
    <3> QED
      BY <1>1, <2>1, <2>2, <2>3, <3>1
  <2>4. CASE d.resolve[p] = "target"
    <3>1. e.resolve[p] = "source"
      BY <1>5, <2>4
    <3> QED
      BY <1>1, <2>1, <2>2, <2>4, <3>1
  <2>5. CASE d.resolve[p] = "edit"
    <3>1. e.resolve[p] = "edit"
      BY <1>5, <2>5
    <3> QED
      BY <2>1, <2>2, <2>5, <3>1
  <2> QED
    BY <1>5, <2>3, <2>4, <2>5
<1>9. PathsOf(y) = PathsOf(x)
  BY <1>1 DEF PathsOf
<1>10. FramesOf(y, e) = FramesOf(x, d)
  BY <1>7, <1>8, <1>9 DEF FramesOf
<1> QED
  BY <1>10 DEF y, e

\* Merging the other way, with mirrored decisions, can give the same content
\* (prepareMerge, executeMerge).
THEOREM SidesInterchange == MergeSpec => []SidesAreInterchangeable
<1>1. MergeInv => SidesAreInterchangeable
  <2> SUFFICES ASSUME MergeInv, merged # Nothing, Takes({"source", "target", "edit"})
               PROVE  /\ Mirrored(decision) \in DecisionsFor(Exchanged(sides))
                      /\ merged \in OutcomesOf(Exchanged(sides), Mirrored(decision))
    BY DEF SidesAreInterchangeable, Exchanged
  <2>1. /\ sides \in MergeSides /\ decision \in DecisionsFor(sides)
        /\ merged \in OutcomesOf(sides, decision)
    BY DEF MergeInv
  <2>2. /\ Mirrored(decision) \in DecisionsFor(Exchanged(sides))
        /\ MergedRelations(Exchanged(sides), Mirrored(decision)) = MergedRelations(sides, decision)
    BY <2>1, ComparisonIsSymmetric
  <2>3. FramesOf(Exchanged(sides), Mirrored(decision)) = FramesOf(sides, decision)
    BY <2>1, FramesAreSymmetric DEF Takes
  <2>4. OutcomesOf(Exchanged(sides), Mirrored(decision)) = OutcomesOf(sides, decision)
    BY <2>2, <2>3 DEF OutcomesOf
  <2> QED
    BY <2>1, <2>2, <2>4
<1> QED
  BY <1>1, MergeInvHolds, PTL

\* The conflicts of a merge are the clashes of its sides.
LEMMA ConflictsAreClashes ==
    ASSUME NEW x \in MergeSides
    PROVE  ConflictsOf(x) = {p \in PathsOf(x) : Clash(At(x.base, p), At(x.source, p), At(x.target, p))}
BY ConflictsClash DEF ConflictsOf

\* What a three-way merge picks for a node is a node.
LEMMA PickedIsThere ==
    ASSUME NEW x \in MergeSides, NEW p \in AutoKept(x)
    PROVE  Picked(x, p) # Gone
<1> DEFINE b == At(x.base, p)
           s == At(x.source, p)
           t == At(x.target, p)
<1>1. Has(x.source, p) /\ Has(x.target, p) /\ ~ChangedApart(x, p)
  BY DEF AutoKept, Has
<1>2. s # Gone /\ t # Gone
  BY <1>1, NodesThere
<1>3. CASE ~Has(x.base, p)
  BY <1>2, <1>3 DEF Picked
<1>4. CASE Has(x.base, p)
  <2>1. Picked(x, p) = [k \in DOMAIN b |-> ThreeWay(b[k], s[k], t[k])]
    BY <1>4, PickedIsThreeWay
  <2>2. /\ s = [k \in DOMAIN b |-> s[k]]
        /\ t = [k \in DOMAIN b |-> t[k]]
    BY <1>1, <1>4, SlotsOfOnePath
  <2> HIDE DEF b, s, t
  <2> SUFFICES ASSUME Picked(x, p) = Gone PROVE FALSE
    OBVIOUS
  <2>3. DOMAIN b = {"gone"} /\ ThreeWay(b["gone"], s["gone"], t["gone"]) = TRUE
    <3>1. DOMAIN Gone = {"gone"} /\ Gone["gone"] = TRUE
      BY DEF Gone
    <3>2. DOMAIN b = {"gone"}
      BY <2>1, <3>1
    <3>3. Picked(x, p)["gone"] = ThreeWay(b["gone"], s["gone"], t["gone"])
      BY <2>1, <3>2
    <3> QED
      BY <3>1, <3>2, <3>3
  <2>4. s["gone"] = TRUE \/ t["gone"] = TRUE
    BY <2>3 DEF ThreeWay
  <2>5. ASSUME NEW f, f = [k \in {"gone"} |-> f[k]], f["gone"] = TRUE PROVE f = Gone
    <3>1. Gone = [k \in {"gone"} |-> ThreeWay(b[k], s[k], t[k])]
      BY <2>1, <2>3
    <3>2. \A k \in {"gone"} : f[k] = ThreeWay(b[k], s[k], t[k])
      BY <2>3, <2>5
    <3> QED
      BY <2>5, <3>1, <3>2
  <2>6. s = Gone \/ t = Gone
    BY <2>2, <2>3, <2>4, <2>5
  <2> QED
    BY <1>2, <2>6
<1> QED
  BY <1>3, <1>4

\* Where no edit is asked for, a path collects what the three-way reference wants there.
LEMMA FrameIsWanted ==
    ASSUME sides \in MergeSides, decision \in DecisionsFor(sides), Takes({"source", "target"}),
           NEW p
    PROVE  FramesAt(sides, decision, p) = IF Wanted(p) = Gone THEN <<>> ELSE <<Wanted(p)>>
<1> DEFINE b == At(sides.base, p)
           s == At(sides.source, p)
           t == At(sides.target, p)
           slots == [k \in DOMAIN b |-> ThreeWay(b[k], s[k], t[k])]
<1>1. /\ Has(sides.base, p) <=> b # Gone
      /\ Has(sides.source, p) <=> s # Gone
      /\ Has(sides.target, p) <=> t # Gone
  BY NodesThere
<1>2. DOMAIN decision.resolve = ConflictsOf(sides)
  BY DEF DecisionsFor
<1>3. ~EditedHere(decision, p)
  BY DEF EditedHere, EditedAbove, Takes
<1>4. p \in ConflictsOf(sides) <=> Clash(b, s, t)
  <2>1. ASSUME p \notin PathsOf(sides) PROVE ~Clash(b, s, t)
    <3>1. b = Gone /\ s = Gone /\ t = Gone
      BY <2>1 DEF PathsOf, At
    <3> QED
      BY <3>1 DEF Clash, Distinct
  <2> QED
    BY <2>1, ConflictsAreClashes
<1>5. Wanted(p) = IF Clash(b, s, t) THEN (IF decision.resolve[p] = "source" THEN s ELSE t)
                  ELSE IF Gone \notin {b, s, t} THEN slots
                  ELSE IF s # t /\ b = Gone /\ p \notin decision.keepSource \cup decision.keepTarget
                       THEN Gone
                  ELSE ThreeWay(b, s, t)
  BY DEF Wanted
<1>6. CASE Clash(b, s, t)
  <2>1. p \in ConflictsOf(sides) /\ decision.resolve[p] \in {"source", "target"}
    BY <1>2, <1>4, <1>6 DEF Takes
  <2>2. FramesAt(sides, decision, p) =
           CASE decision.resolve[p] = "source" -> IF s = Gone THEN <<>> ELSE <<s>>
             [] decision.resolve[p] = "target" -> IF t = Gone THEN <<>> ELSE <<t>>
             [] decision.resolve[p] = "both" ->
                   IF s = Gone THEN <<t>> ELSE IF t = Gone THEN <<s>> ELSE <<s, t>>
             [] decision.resolve[p] = "edit" -> <<EditTree[p]>>
    BY <1>3, <2>1, FramesOfConflict
  <2>3. Wanted(p) = IF decision.resolve[p] = "source" THEN s ELSE t
    BY <1>5, <1>6
  <2> HIDE DEF b, s, t, slots
  <2>4. CASE decision.resolve[p] = "source"
    BY <2>2, <2>3, <2>4
  <2>5. CASE decision.resolve[p] = "target"
    BY <2>2, <2>3, <2>5
  <2> QED
    BY <2>1, <2>4, <2>5
<1>7. CASE ~Clash(b, s, t)
  <2>1. FramesAt(sides, decision, p) = IF p \in decision.keepSource THEN <<s>>
                                       ELSE IF p \in decision.keepTarget THEN <<t>>
                                       ELSE IF p \in AutoKept(sides) THEN <<Picked(sides, p)>> ELSE <<>>
    BY <1>3, <1>4, <1>7, FramesWithoutConflict
  <2>2. /\ decision.keepSource \subseteq OnlyIn(sides, sides.source, sides.target)
        /\ decision.keepTarget \subseteq OnlyIn(sides, sides.target, sides.source)
    BY DEF DecisionsFor
  <2>3. /\ p \in decision.keepSource => s # Gone /\ t = Gone /\ b = Gone
        /\ p \in decision.keepTarget => t # Gone /\ s = Gone /\ b = Gone
    BY <1>1, <2>2 DEF OnlyIn, Has
  <2>4. p \in AutoKept(sides) <=> s # Gone /\ t # Gone
    <3>1. ~ChangedApart(sides, p)
      BY <1>7, ConflictsClash
    <3> QED
      BY <1>1, <3>1 DEF AutoKept, Has
  <2>5. p \in AutoKept(sides) => Picked(sides, p) # Gone
    BY PickedIsThere
  <2>6. CASE b # Gone /\ s # Gone /\ t # Gone
    <3>1. Picked(sides, p) = slots
      BY <1>1, <2>4, <2>6, PickedIsThreeWay
    <3>2. Wanted(p) = slots
      BY <1>5, <1>7, <2>6
    <3> HIDE DEF b, s, t, slots
    <3> QED
      BY <2>1, <2>3, <2>4, <2>5, <2>6, <3>1, <3>2
  <2>7. CASE b = Gone /\ s # Gone /\ t # Gone
    <3>1. Clash(b, s, t) <=> Distinct(b, s, t)
      BY <2>7 DEF Clash
    <3>2. s = t
      BY <1>7, <2>7, <3>1 DEF Distinct
    <3>3. Picked(sides, p) = s
      BY <3>2 DEF Picked
    <3>4. Wanted(p) = s
      BY <1>5, <1>7, <2>7, <3>2 DEF ThreeWay
    <3> HIDE DEF b, s, t, slots
    <3> QED
      BY <2>1, <2>3, <2>4, <2>7, <3>3, <3>4
  <2>8. CASE s = Gone \/ t = Gone
    <3>1. Clash(b, s, t) <=> Distinct(b, s, t)
      BY <2>8 DEF Clash
    <3>2. Wanted(p) = IF s # t /\ b = Gone /\ p \notin decision.keepSource \cup decision.keepTarget
                      THEN Gone ELSE ThreeWay(b, s, t)
      BY <1>5, <1>7, <2>8
    <3> HIDE DEF b, s, t, slots
    <3> QED
      BY <1>7, <2>1, <2>3, <2>4, <2>8, <3>1, <3>2 DEF Distinct, ThreeWay
  <2> QED
    BY <2>6, <2>7, <2>8
<1> QED
  BY <1>6, <1>7

\* A path from which something is wanted collects just that.
LEMMA WantedIsFilled ==
    ASSUME sides \in MergeSides, decision \in DecisionsFor(sides), Takes({"source", "target"}),
           NEW q
    PROVE  /\ Wanted(q) # Gone => /\ q \in PathsOf(sides)
                                  /\ q \in Filled(FramesOf(sides, decision))
                                  /\ FramesOf(sides, decision)[q] = <<Wanted(q)>>
           /\ q \in Filled(FramesOf(sides, decision)) => Wanted(q) # Gone
<1> DEFINE frames == FramesOf(sides, decision)
<1>1. ASSUME Wanted(q) # Gone
      PROVE  q \in PathsOf(sides) /\ q \in Filled(frames) /\ frames[q] = <<Wanted(q)>>
  <2>1. q \in PathsOf(sides)
    <3> SUFFICES ASSUME q \notin PathsOf(sides) PROVE Wanted(q) = Gone
      BY <1>1
    <3>1. At(sides.base, q) = Gone /\ At(sides.source, q) = Gone /\ At(sides.target, q) = Gone
      BY DEF PathsOf, At
    <3> QED
      BY <3>1 DEF Wanted, Clash, Distinct, ThreeWay
  <2>2. q \in DOMAIN frames /\ frames[q] = FramesAt(sides, decision, q)
    BY <2>1 DEF FramesOf
  <2>3. FramesAt(sides, decision, q) = <<Wanted(q)>>
    BY <1>1, FrameIsWanted
  <2>4. <<Wanted(q)>> # <<>>
    OBVIOUS
  <2> QED
    BY <2>1, <2>2, <2>3, <2>4 DEF Filled
<1>2. ASSUME q \in Filled(frames) PROVE Wanted(q) # Gone
  <2>1. frames[q] = FramesAt(sides, decision, q) /\ frames[q] # <<>>
    BY <1>2 DEF Filled, FramesOf
  <2> QED
    BY <2>1, FrameIsWanted
<1> QED
  BY <1>1, <1>2

\* A tree whose root is wanted under its own key keeps it.
LEMMA WantedRootStays ==
    ASSUME sides \in MergeSides, decision \in DecisionsFor(sides), Takes({"source", "target"}),
           NEW key, Wanted(<<key>>) # Gone, NEW top \in RootsOf(FramesOf(sides, decision), key)
    PROVE  top = <<key>> /\ Len(top) = 1
<1>1. top \in DOMAIN FramesOf(sides, decision) /\ top[1] = key
  BY DEF RootsOf, Filled
<1>2. IsPath(top)
  BY <1>1, PathsArePaths
<1>3. Len(top) \in Nat \ {0}
  BY <1>2, PathParts
<1>4. <<key>> \in Filled(FramesOf(sides, decision))
  BY WantedIsFilled
<1>5. <<key>>[1] = key /\ Len(<<key>>) = 1
  OBVIOUS
<1>6. Len(top) <= Len(<<key>>)
  BY <1>4, <1>5 DEF RootsOf
<1>7. Len(top) = 1
  <2>1. \A n \in Nat \ {0} : n <= 1 => n = 1
    OBVIOUS
  <2> QED
    BY <1>3, <1>5, <1>6, <2>1
<1> QED
  BY <1>1, <1>2, <1>7, PathParts

\* Where the ancestors of a path all stay, its tree keeps its root, and all that was
\* collected at the path hangs below it.
LEMMA WantedIsAttached ==
    ASSUME sides \in MergeSides, decision \in DecisionsFor(sides), Takes({"source", "target"}),
           NEW p \in PathsOf(sides), Wanted(p) # Gone,
           \A n \in 1..(Len(p) - 1) : Wanted(SubSeq(p, 1, n)) # Gone,
           NEW top \in RootsOf(FramesOf(sides, decision), p[1])
    PROVE  /\ Len(top) = 1
           /\ Attached(FramesOf(sides, decision), top, p) = {1}
<1> DEFINE frames == FramesOf(sides, decision)
<1>1. top \in Filled(frames) /\ top \in DOMAIN frames /\ top[1] = p[1]
  BY DEF RootsOf, Filled
<1>2. p \in DOMAIN frames
  BY DEF FramesOf
<1>3. IsPath(p) /\ IsPath(top)
  BY <1>1, <1>2, PathsArePaths
<1>4. Len(p) \in Nat \ {0} /\ Len(top) \in Nat \ {0}
  BY <1>3, PathParts
<1>5. ASSUME NEW q, Wanted(q) # Gone
      PROVE  q \in Filled(frames) /\ frames[q] = <<Wanted(q)>>
  BY <1>5, WantedIsFilled
<1>6. \A n \in 1..Len(p) : Wanted(SubSeq(p, 1, n)) # Gone
  <2> TAKE n \in 1..Len(p)
  <2>1. CASE n = Len(p)
    BY <1>3, <2>1, PathParts
  <2>2. CASE n # Len(p)
    <3>1. n \in 1..(Len(p) - 1)
      BY <1>4, <2>2
    <3> QED
      BY <3>1
  <2> QED
    BY <2>1, <2>2
<1>7. SubSeq(p, 1, 1) = <<p[1]>>
  BY <1>3, PathParts
<1>8. Wanted(<<p[1]>>) # Gone
  <2>1. 1 \in 1..Len(p)
    BY <1>4
  <2>2. Wanted(SubSeq(p, 1, 1)) # Gone
    BY <1>6, <2>1
  <2> QED
    BY <1>7, <2>2
<1>9. Len(top) = 1
  BY <1>8, WantedRootStays
<1>10. top = <<p[1]>>
  BY <1>8, WantedRootStays
<1>11. IsPrefix(top, p)
  BY <1>3, <1>10, PathParts
<1>12. Len(frames[top]) = 1
  <2>1. Wanted(top) # Gone
    BY <1>8, <1>10
  <2>2. frames[top] = <<Wanted(top)>>
    BY <1>5, <2>1
  <2> QED
    BY <2>2
<1>13. \A n \in Len(top)..Len(p) : frames[SubSeq(p, 1, n)] # <<>>
  <2> TAKE n \in Len(top)..Len(p)
  <2>1. n \in 1..Len(p)
    BY <1>9
  <2>2. frames[SubSeq(p, 1, n)] = <<Wanted(SubSeq(p, 1, n))>>
    BY <1>5, <1>6, <2>1
  <2> QED
    BY <2>2
<1>14. DOMAIN frames[p] = {1}
  <2>1. frames[p] = <<Wanted(p)>>
    BY <1>5
  <2> QED
    BY <2>1
<1> HIDE DEF frames
<1>15. Attached(frames, top, p) = {1}
  BY <1>11, <1>12, <1>13, <1>14 DEF Attached
<1> QED
  BY <1>9, <1>15 DEF frames

\* What either side changed and the other did not is in the merge, the conflicts are
\* exactly the clashes and go the way the reviewer decided, and nothing else is in it
\* (prepareMerge, executeMerge, unflattenToTrees).
THEOREM MergeIsThreeWay == MergeSpec => []MergeTakesEachChange
<1>1. MergeInv => MergeTakesEachChange
  <2> SUFFICES ASSUME MergeInv, merged # Nothing PROVE MergeTakesEachChange
    BY DEF MergeTakesEachChange
  <2>1. /\ sides \in MergeSides /\ decision \in DecisionsFor(sides)
        /\ merged \in OutcomesOf(sides, decision)
    BY DEF MergeInv
  <2>2. DOMAIN decision.resolve =
           {p \in PathsOf(sides) : Clash(At(sides.base, p), At(sides.source, p),
                                         At(sides.target, p))}
    <3>1. DOMAIN decision.resolve = ConflictsOf(sides)
      BY <2>1 DEF DecisionsFor
    <3> QED
      BY <2>1, <3>1, ConflictsAreClashes
  <2>3. ASSUME Takes({"source", "target"}), NEW p \in PathsOf(sides),
               \A n \in 1..(Len(p) - 1) : Wanted(SubSeq(p, 1, n)) # Gone
        PROVE  {m.slots : m \in {k \in merged.nodes : k.path = p /\ ~k.moved}}
                  = {Wanted(p)} \ {Gone}
    <3> DEFINE frames == FramesOf(sides, decision)
    <3>1. PICK tops : /\ \A q \in Filled(frames) : tops[q[1]] \in RootsOf(frames, q[1])
                      /\ \A m : m \in merged.nodes <=>
                            \E q \in Filled(frames) : \E i \in Attached(frames, tops[q[1]], q) :
                               m = NodeAt(frames, tops[q[1]], q, i)
      <4>1. BuiltFrom(merged.nodes, frames)
        BY <2>1, NodesFromFrames
      <4> QED
        BY <4>1 DEF BuiltFrom
    <3>2. FramesAt(sides, decision, p) = IF Wanted(p) = Gone THEN <<>> ELSE <<Wanted(p)>>
      BY <2>1, <2>3, FrameIsWanted
    <3>3. p \in DOMAIN frames /\ frames[p] = FramesAt(sides, decision, p)
      BY DEF FramesOf
    <3>4. p \in Filled(frames) <=> Wanted(p) # Gone
      <4>1. \A a : <<a>> # <<>>
        OBVIOUS
      <4>2. p \in Filled(frames) <=> FramesAt(sides, decision, p) # <<>>
        BY <3>3 DEF Filled
      <4> QED
        BY <3>2, <4>1, <4>2
    <3>5. ASSUME NEW m \in merged.nodes, m.path = p, ~m.moved
          PROVE  p \in Filled(frames) /\ \E i \in Attached(frames, tops[p[1]], p) :
                                            m = NodeAt(frames, tops[p[1]], p, i)
      <4>1. PICK q \in Filled(frames) : \E i \in Attached(frames, tops[q[1]], q) :
                                           m = NodeAt(frames, tops[q[1]], q, i)
        BY <3>1
      <4>2. PICK i \in Attached(frames, tops[q[1]], q) : m = NodeAt(frames, tops[q[1]], q, i)
        BY <4>1
      <4>3. tops[q[1]] \in RootsOf(frames, q[1])
        BY <3>1
      <4>4. m.path = q
        BY <2>1, <3>5, <4>2, <4>3, UnmovedNodes
      <4> QED
        BY <3>5, <4>1, <4>4
    <3>6. CASE Wanted(p) = Gone
      <4>1. {k \in merged.nodes : k.path = p /\ ~k.moved} = {}
        BY <3>4, <3>5, <3>6
      <4> QED
        BY <3>6, <4>1
    <3>7. CASE Wanted(p) # Gone
      <4> DEFINE top == tops[p[1]]
                 node == NodeAt(frames, top, p, 1)
      <4>1. p \in Filled(frames) /\ top \in RootsOf(frames, p[1])
        BY <3>1, <3>4, <3>7
      <4>2. Len(top) = 1 /\ Attached(frames, top, p) = {1}
        BY <2>1, <2>3, <3>7, <4>1, WantedIsAttached
      <4>3. frames[p] = <<Wanted(p)>>
        BY <3>2, <3>3, <3>7
      <4> HIDE DEF frames, top
      <4>4. node.slots = Wanted(p) /\ node.path = p /\ ~node.moved
        <5>1. /\ node.slots = frames[p][1]
              /\ node.path = SubSeq(p, 1, Len(p))
              /\ node.moved = (1 > 1)
          BY <4>2 DEF NodeAt
        <5>2. IsPath(p)
          BY <2>1, <3>3, PathsArePaths DEF frames
        <5>3. SubSeq(p, 1, Len(p)) = p
          BY <5>2, PathParts
        <5>4. ~(1 > 1)
          OBVIOUS
        <5>5. ~node.moved
          BY <5>1, <5>4, Zenon
        <5>6. frames[p][1] = Wanted(p)
          BY <4>3
        <5> QED
          BY <5>1, <5>3, <5>5, <5>6
      <4>5. node \in merged.nodes
        BY <3>1, <4>1, <4>2 DEF top
      <4>6. ASSUME NEW m \in merged.nodes, m.path = p, ~m.moved PROVE m = node
        BY <3>5, <4>2, <4>6 DEF top
      <4> HIDE DEF node
      <4>7. {k \in merged.nodes : k.path = p /\ ~k.moved} = {node}
        BY <4>4, <4>5, <4>6
      <4> QED
        BY <3>7, <4>4, <4>7
    <3> QED
      BY <3>6, <3>7
  <2>4. ASSUME Takes({"source", "target"}), NEW m \in merged.nodes
        PROVE  \E p \in PathsOf(sides) :
                  /\ m.slots = Wanted(p) /\ Wanted(p) # Gone
                  /\ \E n \in 1..Len(p) : m.path = SubSeq(p, n, Len(p)) /\ (m.moved <=> n > 1)
                  /\ m.moved => Wanted(<<p[1]>>) = Gone
    <3> DEFINE frames == FramesOf(sides, decision)
    <3>1. PICK tops : /\ \A q \in Filled(frames) : tops[q[1]] \in RootsOf(frames, q[1])
                      /\ \A k : k \in merged.nodes <=>
                            \E q \in Filled(frames) : \E i \in Attached(frames, tops[q[1]], q) :
                               k = NodeAt(frames, tops[q[1]], q, i)
      <4>1. BuiltFrom(merged.nodes, frames)
        BY <2>1, NodesFromFrames
      <4> QED
        BY <4>1 DEF BuiltFrom
    <3>2. PICK p \in Filled(frames) : \E i \in Attached(frames, tops[p[1]], p) :
                                         m = NodeAt(frames, tops[p[1]], p, i)
      BY <3>1
    <3> DEFINE top == tops[p[1]]
    <3>3. PICK i \in Attached(frames, top, p) : m = NodeAt(frames, top, p, i)
      BY <3>2
    <3>4. top \in RootsOf(frames, p[1])
      BY <3>1
    <3>5. p \in PathsOf(sides) /\ Wanted(p) # Gone /\ frames[p] = <<Wanted(p)>>
      BY <2>1, <2>4, WantedIsFilled
    <3>6. p \in DOMAIN frames /\ frames[p] = FramesAt(sides, decision, p)
      BY DEF Filled, FramesOf
    <3>7. i = 1
      <4>1. i = 1 \/ i \in DOMAIN frames[p]
        BY <3>3 DEF Attached
      <4>2. DOMAIN <<Wanted(p)>> = {1}
        OBVIOUS
      <4> QED
        BY <3>5, <4>1, <4>2
    <3>8. Len(top) \in 1..Len(p)
      BY <2>1, <3>3, <3>4, RootsAbove
    <3> HIDE DEF frames, top
    <3>9. m.slots = frames[p][1] /\ m.path = SubSeq(p, Len(top), Len(p))
      BY <3>3, <3>7 DEF NodeAt
    <3>10. m.moved = (Len(top) > 1)
      BY <3>3 DEF NodeAt
    <3>11. m.slots = Wanted(p)
      <4>1. <<Wanted(p)>>[1] = Wanted(p)
        OBVIOUS
      <4> QED
        BY <3>5, <3>9, <4>1
    <3>12. m.moved <=> Len(top) > 1
      BY <3>10, Zenon
    <3>13. ASSUME Wanted(<<p[1]>>) # Gone PROVE ~m.moved
      <4>1. Len(top) = 1
        BY <2>1, <2>4, <3>4, <3>13, WantedRootStays DEF frames
      <4>2. ~(1 > 1)
        OBVIOUS
      <4> QED
        BY <3>10, <4>1, <4>2, Zenon
    <3> QED
      BY <3>5, <3>8, <3>9, <3>11, <3>12, <3>13, Zenon
  <2> QED
    BY <2>2, <2>3, <2>4, Zenon DEF MergeTakesEachChange
<1> QED
  BY <1>1, MergeInvHolds, PTL
==================================================================================
