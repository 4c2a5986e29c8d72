------------------------- MODULE LagRegisterRefinement -------------------------
(***************************************************************************)
(* The LagRegister implements LagAnchors: the refinement mapping keeps of  *)
(* each entry whether it exists, whether it has a lag, and the lag's       *)
(* offset and offset_timestamp.                                            *)
(***************************************************************************)
EXTENDS LagRegister

CONSTANTS Absent, NoLag

\* The anchor of an entry of lag_by_topic_partition.
AnchorOf(e) ==
    IF e = Nil THEN Absent
    ELSE IF e.lag = Nil THEN NoLag
    ELSE [offset |-> e.lag.offset, offsetTs |-> e.lag.offsetTs]

GroupAnchors(gl) == [tp \in TPs |-> AnchorOf(gl[tp])]

AnchorsOf(reg) == [g \in Groups |-> IF reg[g] = Nil THEN Nil ELSE GroupAnchors(reg[g])]

anchorsBar == AnchorsOf(lagByGroup)

LA == INSTANCE LagAnchors WITH anchors <- anchorsBar

\* The two abstract entry states are distinct and no anchor, and a group's
\* anchors are not Nil (NilAssumption says the same of the register).
ASSUME RefinementAssumption ==
    /\ Absent # NoLag
    /\ Absent \notin LA!Anchor
    /\ NoLag \notin LA!Anchor
    /\ Nil \notin [TPs -> LA!EntryState]

\* Every step of the reconciler (imports, retains, refreshes, commits,
\* GroupMetadata) and of its environment is a step of LagAnchors or leaves
\* the anchors alone: no handler but process_offset_commit alters a
\* committed offset or its timestamp, and entries only appear empty.
Refinement == LA!Spec
=============================================================================
