------------------------------ MODULE LagAnchors ------------------------------
(***************************************************************************)
(* What the LagRegister promises about the commits it holds, abstracted    *)
(* from owners, lag estimates and the reconciler's steps.  Per known group *)
(* and topic partition there is no entry (Absent), an entry with no lag    *)
(* yet (NoLag), or the anchor of the last commit: its offset and           *)
(* offset_timestamp.                                                       *)
(*                                                                         *)
(*  - only a commit sets an anchor, and only in a known group;             *)
(*  - a group appears with entries that have no lag;                       *)
(*  - an existing group's entries may be removed, and an absent one may    *)
(*    come back without a lag, but an anchor is never altered otherwise;   *)
(*  - groups may be forgotten.                                             *)
(***************************************************************************)
EXTENDS Naturals

CONSTANTS Groups, TPs, Nil, Absent, NoLag

VARIABLE anchors

Anchor == [offset : Nat, offsetTs : Nat]
EntryState == Anchor \cup {Absent, NoLag}

TypeOK == anchors \in [Groups -> [TPs -> EntryState] \cup {Nil}]

Init == anchors = [g \in Groups |-> Nil]

\* A commit to (g, tp) replaces its entry by a new anchor.
Commit(g, tp) ==
    /\ anchors[g] # Nil
    /\ anchors'[g] \in [TPs -> EntryState]
    /\ anchors'[g][tp] \in Anchor
    /\ anchors' = [anchors EXCEPT ![g][tp] = anchors'[g][tp]]

\* An unknown group appears, with the entries of T and no lags.
Open(g, T) ==
    /\ anchors[g] = Nil
    /\ anchors' = [anchors EXCEPT ![g] = [tp \in TPs |-> IF tp \in T THEN NoLag ELSE Absent]]

\* A known group keeps, drops or (when absent) re-creates empty each entry.
Reshape(g) ==
    /\ anchors[g] # Nil
    /\ anchors'[g] \in [TPs -> EntryState]
    /\ \A tp \in TPs :
           \/ anchors'[g][tp] \in {anchors[g][tp], Absent}
           \/ anchors[g][tp] = Absent /\ anchors'[g][tp] = NoLag
    /\ anchors' = [anchors EXCEPT ![g] = anchors'[g]]

\* The groups of S are forgotten.
Close(S) == anchors' = [g \in Groups |-> IF g \in S THEN Nil ELSE anchors[g]]

Next ==
    \/ \E g \in Groups, tp \in TPs : Commit(g, tp)
    \/ \E g \in Groups, T \in SUBSET TPs : Open(g, T)
    \/ \E g \in Groups : Reshape(g)
    \/ \E S \in SUBSET Groups : Close(S)

Spec == Init /\ [][Next]_anchors
=============================================================================
