---------------------------- MODULE MCLagRegister ----------------------------
(* A small instance of LagRegister for TLC: two partitions, two members, a  *)
(* group g1 that listings add, reassign and remove, a group g2 that no      *)
(* listing names (commits for it are for an unknown group), and two        *)
(* GroupMetadata events.                                                    *)
EXTENDS LagRegister, TLC

CONSTANTS g1, g2, p1, p2, m1, m2

MCGroups == {g1, g2}
MCTPs == {p1, p2}
MCMembers == {m1, m2}

\* No groups; g1 with m1 owning both partitions; g1 with the partitions split.
MCListings ==
    { [g \in Groups |-> Nil],
      [g \in Groups |-> IF g = g1 THEN [m \in Members |-> IF m = m1 THEN {p1, p2} ELSE {}]
                        ELSE Nil],
      [g \in Groups |-> IF g = g1 THEN [m \in Members |-> IF m = m1 THEN {p1} ELSE {p2}]
                        ELSE Nil] }

\* g1 idle (no members); g1 rebalanced onto m2 for p1 only.
MCMetadatas ==
    { [group |-> g1, members |-> [m \in {} |-> [assigned |-> {}, owned |-> {}]]],
      [group |-> g1, members |-> (m2 :> [assigned |-> {p1}, owned |-> {}])] }
=============================================================================
