------------------------------ MODULE SemanticMerge ------------------------------
(***************************************************************************)
(* The three-way merge of semantic content (packages/core/src/semantic/    *)
(* merge.ts, tree.ts), which a merge of two branches executes with the     *)
(* decisions of a reviewer (the semantic merge driver checks that they     *)
(* fit the prepared comparison).                                           *)
(*                                                                         *)
(* A node is named by its path, a sequence of keys; its type is the last   *)
(* one, so two nodes of one path have one type. The content of a commit    *)
(* has the nodes of its trees and relations. A slot that a node does not   *)
(* have holds Unset. The order of siblings is left out: where it decides   *)
(* which node becomes a root, any may.                                     *)
(***************************************************************************)
EXTENDS Naturals, Sequences, FiniteSets
LOCAL INSTANCE SequencesExt

CONSTANTS
    Contents,   \* what base, source and target may hold
    EditTree    \* the nodes that a reviewer may put at and below a conflict

Gone == [gone |-> TRUE]     \* in place of the slots of a node that is not there

IsPath(p) == p # <<>> /\ p \in Seq({p[i] : i \in DOMAIN p})

\* A content has the parents of its nodes, and its nodes of one path have one
\* type and with it the same slots.
ASSUME MergeAssumption ==
    /\ \A c \in Contents : \A p \in DOMAIN c.nodes :
          /\ IsPath(p)
          /\ Len(p) > 1 => Front(p) \in DOMAIN c.nodes
          /\ c.nodes[p] # Gone
    /\ \A p \in DOMAIN EditTree : IsPath(p)
    /\ \A c, d \in Contents : \A p \in DOMAIN c.nodes \cap DOMAIN d.nodes :
          c.nodes[p] = [k \in DOMAIN d.nodes[p] |-> c.nodes[p][k]]

VARIABLES
    sides,      \* the base, source and target of a merge
    decision,   \* what the reviewer has decided
    merged      \* the outcome

mergeVars == <<sides, decision, merged>>

Nothing == [done |-> FALSE]

\* flattenTrees: the slots of the node with a path.
At(content, p) == IF p \in DOMAIN content.nodes THEN content.nodes[p] ELSE Gone
Has(content, p) == p \in DOMAIN content.nodes
PathsOf(x) == DOMAIN x.base.nodes \cup DOMAIN x.source.nodes \cup DOMAIN x.target.nodes

(***************************************************************************)
(* prepareMerge.                                                           *)
(***************************************************************************)
\* findSlotConflicts, for nodes that all three sides have.
SlotConflicts_AnyChange(b, s, t) == {k \in DOMAIN b : s[k] # t[k] /\ s[k] # b[k]}
                                        \* fault: only source is compared with base
SlotConflicts(b, s, t) == {k \in DOMAIN b : s[k] # t[k] /\ s[k] # b[k] /\ t[k] # b[k]}

\* A node that one side has and the other does not, against the base.
EditedAndDeleted_ByTarget(x, p) ==      \* fault: a deletion by source is not compared
    Has(x.source, p) /\ ~Has(x.target, p) /\ At(x.source, p) # At(x.base, p)
EditedAndDeleted(x, p) ==
    \/ Has(x.source, p) /\ ~Has(x.target, p) /\ At(x.source, p) # At(x.base, p)
    \/ ~Has(x.source, p) /\ Has(x.target, p) /\ At(x.target, p) # At(x.base, p)

ChangedApart(x, p) ==
    /\ Has(x.source, p) /\ Has(x.target, p)
    /\ At(x.source, p) # At(x.target, p)
    /\ Has(x.base, p) =>
          /\ At(x.source, p) # At(x.base, p)
          /\ At(x.target, p) # At(x.base, p)
          /\ SlotConflicts(At(x.base, p), At(x.source, p), At(x.target, p)) # {}

ConflictsOf(x) ==
    {p \in PathsOf(x) : ChangedApart(x, p) \/ (Has(x.base, p) /\ EditedAndDeleted(x, p))}

AutoKept(x) == {p \in DOMAIN x.source.nodes \cap DOMAIN x.target.nodes : ~ChangedApart(x, p)}

OnlyIn(x, one, other) == DOMAIN one.nodes \ (DOMAIN other.nodes \cup DOMAIN x.base.nodes)
RelationsOnlyIn(x, one, other) == one.relations \ (other.relations \cup x.base.relations)

(***************************************************************************)
(* executeMerge: the frames collected at each path.                        *)
(***************************************************************************)
\* mergeNonConflicting.
MergeSlots(b, s, t) == [k \in DOMAIN b |-> IF s[k] # b[k] THEN s[k] ELSE t[k]]

Picked(x, p) ==
    LET b == At(x.base, p)
        s == At(x.source, p)
        t == At(x.target, p)
    IN  CASE s = t \/ ~Has(x.base, p) -> s
          [] s # t /\ Has(x.base, p) /\ s # b /\ t = b -> s
          [] s # t /\ Has(x.base, p) /\ s = b /\ t # b -> t
          [] OTHER -> MergeSlots(b, s, t)

\* frames: what is collected at a path. edited: an edit has put it there.
Collected(x, p) ==
    [frames |-> IF p \in AutoKept(x) THEN <<Picked(x, p)>> ELSE <<>>, edited |-> FALSE]

\* pushResolvedFrame: a side replaces what an edit has put at the path.
PushResolved_Beside(here, node) ==      \* fault: the edited frame stays
    [here EXCEPT !.frames = Append(@, node)]
PushResolved(here, node) ==
    [frames |-> IF here.edited THEN <<node>> ELSE Append(here.frames, node), edited |-> FALSE]

Push(here, node) == IF node = Gone THEN here ELSE PushResolved(here, node)

\* pushEditedFrames, with flattenEditedTreeAtPath: the edited tree replaces what
\* has been collected at its paths.
PushEdited(here, p) ==
    IF p \in DOMAIN EditTree THEN [frames |-> <<EditTree[p]>>, edited |-> TRUE] ELSE here

Resolve(here, x, p, resolution) ==
    CASE resolution = "source" -> Push(here, At(x.source, p))
      [] resolution = "target" -> Push(here, At(x.target, p))
      [] resolution = "both" -> Push(Push(here, At(x.source, p)), At(x.target, p))
      [] resolution = "edit" -> PushEdited(here, p)

EditedAbove(d, p) == \E q \in DOMAIN d.resolve : d.resolve[q] = "edit" /\ IsStrictPrefix(q, p)

\* What is collected at a path is changed by the decisions on it and by the
\* edits above it. Conflicts are resolved in the order of their depth, so the
\* edits above come first; what is kept of either side comes last.
FramesAt(x, d, p) ==
    LET edited == IF EditedAbove(d, p) THEN PushEdited(Collected(x, p), p) ELSE Collected(x, p)
        resolved == IF p \in ConflictsOf(x) THEN Resolve(edited, x, p, d.resolve[p]) ELSE edited
        withSource == IF p \in d.keepSource THEN Push(resolved, At(x.source, p)) ELSE resolved
        withTarget == IF p \in d.keepTarget THEN Push(withSource, At(x.target, p)) ELSE withSource
    IN  withTarget.frames

FramesOf(x, d) == [p \in PathsOf(x) \cup DOMAIN EditTree |-> FramesAt(x, d, p)]

(***************************************************************************)
(* unflattenToTrees: the frames of one first key make one tree. The first  *)
(* of the shallowest is its root, under its own key; a frame hangs below   *)
(* the last frame that has the path of its parent, or nowhere.             *)
(***************************************************************************)
Filled(frames) == {p \in DOMAIN frames : frames[p] # <<>>}

RootsOf(frames, key) ==
    LET group == {p \in Filled(frames) : p[1] = key}
    IN  {p \in group : \A q \in group : Len(p) <= Len(q)}

\* The frames of path p that end up in the tree with root top.
Attached(frames, top, p) ==
    IF p = top THEN {1}
    ELSE IF /\ IsPrefix(top, p)
            /\ Len(frames[top]) = 1
            /\ \A n \in Len(top)..Len(p) : frames[SubSeq(p, 1, n)] # <<>>
         THEN DOMAIN frames[p] ELSE {}

\* A node of the outcome; moved when its tree has lost its root.
TreeNodes(frames, top) ==
    UNION {{[path |-> SubSeq(p, Len(top), Len(p)), slots |-> frames[p][i], copy |-> i,
             moved |-> Len(top) > 1] : i \in Attached(frames, top, p)}
           : p \in {q \in Filled(frames) : q[1] = top[1]}}

MergedRelations(x, d) ==
    (x.source.relations \cap x.target.relations)
    \cup (IF d.relationsSource THEN RelationsOnlyIn(x, x.source, x.target) ELSE {})
    \cup (IF d.relationsTarget THEN RelationsOnlyIn(x, x.target, x.source) ELSE {})

\* The contents that executeMerge can return.
OutcomesOf(x, d) ==
    LET frames == FramesOf(x, d)
        keys == {p[1] : p \in Filled(frames)}
        tops == {f \in [keys -> Filled(frames)] : \A k \in keys : f[k] \in RootsOf(frames, k)}
    IN  {[nodes |-> UNION {TreeNodes(frames, top[k]) : k \in keys},
          relations |-> MergedRelations(x, d)] : top \in tops}

(***************************************************************************)
(* One merge: the sides are read, the reviewer decides, it is executed.    *)
(***************************************************************************)
\* validateDecisionAgainstPrepared: a resolution for every conflict, and kept
\* paths that only one side has. A choice that changes nothing is left out.
DecisionsFor(x) ==
    [resolve: {f \in [ConflictsOf(x) -> {"source", "target", "both", "edit"}] :
                 \A p \in DOMAIN f : f[p] = "edit" => p \in DOMAIN EditTree},
     keepSource: SUBSET OnlyIn(x, x.source, x.target),
     keepTarget: SUBSET OnlyIn(x, x.target, x.source),
     relationsSource: IF RelationsOnlyIn(x, x.source, x.target) = {} THEN {TRUE} ELSE BOOLEAN,
     relationsTarget: IF RelationsOnlyIn(x, x.target, x.source) = {} THEN {TRUE} ELSE BOOLEAN]

MergeTypeOK ==
    /\ sides = Nothing \/ sides \in [base: Contents, source: Contents, target: Contents]
    /\ decision = Nothing <=> merged = Nothing
    /\ merged # Nothing =>
          \A m \in merged.nodes : m.path # <<>> /\ m.copy \in 1..2

MergeInit == sides = Nothing /\ decision = Nothing /\ merged = Nothing

ReadSides(b, s, t) ==
    /\ sides = Nothing
    /\ sides' = [base |-> b, source |-> s, target |-> t]
    /\ UNCHANGED <<decision, merged>>

ExecuteMerge ==
    /\ sides # Nothing /\ merged = Nothing
    /\ \E d \in DecisionsFor(sides) :
          /\ decision' = d
          /\ merged' \in OutcomesOf(sides, d)
    /\ UNCHANGED sides

MergeNext ==
    \/ \E b, s, t \in Contents : ReadSides(b, s, t)
    \/ ExecuteMerge

MergeSpec == MergeInit /\ [][MergeNext]_mergeVars

(***************************************************************************)
(* Properties.                                                             *)
(***************************************************************************)
Takes(resolutions) == \A p \in DOMAIN decision.resolve : decision.resolve[p] \in resolutions

\* The three-way reference: what one side has not changed is taken from the
\* other. Two different changes of one slot, or of a node that is missing on
\* some side, clash.
ThreeWay(b, s, t) == IF s = b THEN t ELSE s
Distinct(b, s, t) == b # s /\ s # t /\ t # b
Clash(b, s, t) ==
    IF Gone \in {b, s, t} THEN Distinct(b, s, t)
    ELSE \E k \in DOMAIN b : Distinct(b[k], s[k], t[k])

Wanted(p) ==
    LET b == At(sides.base, p)
        s == At(sides.source, p)
        t == At(sides.target, p)
    IN  IF Clash(b, s, t) THEN (IF decision.resolve[p] = "source" THEN s ELSE t)
        ELSE IF Gone \notin {b, s, t} THEN [k \in DOMAIN b |-> ThreeWay(b[k], s[k], t[k])]
        ELSE IF s # t /\ b = Gone /\ p \notin decision.keepSource \cup decision.keepTarget
             THEN Gone
        ELSE ThreeWay(b, s, t)

\* What one side has changed and the other has not is in the merge, what both
\* have changed alike too; the conflicts are exactly the clashes, and each goes
\* the way the reviewer decided (the case analyses of prepareMerge and
\* executeMerge, against a reference that compares slot by slot). Every node
\* whose ancestors all stay is at its path. Below one that goes, unflattenToTrees
\* drops or moves what was kept, and moves it only if the root is what goes; no
\* node comes from anywhere else.
MergeTakesEachChange ==
    merged # Nothing =>
        /\ DOMAIN decision.resolve =
              {p \in PathsOf(sides) : Clash(At(sides.base, p), At(sides.source, p),
                                            At(sides.target, p))}
        /\ Takes({"source", "target"}) =>
              /\ \A p \in PathsOf(sides) :
                    (\A n \in 1..(Len(p) - 1) : Wanted(SubSeq(p, 1, n)) # Gone)
                    => {m.slots : m \in {k \in merged.nodes : k.path = p /\ ~k.moved}}
                         = {Wanted(p)} \ {Gone}
              /\ \A m \in merged.nodes : \E p \in PathsOf(sides) :
                    /\ m.slots = Wanted(p) /\ Wanted(p) # Gone
                    /\ \E n \in 1..Len(p) : m.path = SubSeq(p, n, Len(p)) /\ (m.moved <=> n > 1)
                    /\ m.moved => Wanted(<<p[1]>>) = Gone

\* Which branch is the source makes no difference to the content: with the
\* decisions mirrored, merging the other way is the same. (Only "both" has an
\* order.)
Mirrored(d) ==
    [resolve |-> [p \in DOMAIN d.resolve |->
                    CASE d.resolve[p] = "source" -> "target"
                      [] d.resolve[p] = "target" -> "source"
                      [] OTHER -> d.resolve[p]],
     keepSource |-> d.keepTarget, keepTarget |-> d.keepSource,
     relationsSource |-> d.relationsTarget, relationsTarget |-> d.relationsSource]
SidesAreInterchangeable ==
    merged # Nothing /\ Takes({"source", "target", "edit"})
    => LET swapped == [sides EXCEPT !.source = sides.target, !.target = sides.source]
       IN  /\ Mirrored(decision) \in DecisionsFor(swapped)
           /\ merged \in OutcomesOf(swapped, Mirrored(decision))

\* However edits of a node overlap the decisions about the nodes below it and
\* what is kept there, a path of the outcome names one node, unless both sides
\* were asked for at that path (pushEditedFrames, pushResolvedFrame; the test
\* "does not duplicate edited descendants selected later from either side").
PathsStayUnique ==
    merged # Nothing =>
        \A m, n \in merged.nodes :
            m.path = n.path /\ m # n /\ ~m.moved /\ ~n.moved
            => m.path \in DOMAIN decision.resolve /\ decision.resolve[m.path] = "both"
===================================================================================
