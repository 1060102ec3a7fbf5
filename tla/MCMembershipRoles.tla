------------------------- MODULE MCMembershipRoles -------------------------
(***************************************************************************)
(* Instances of MembershipRoles for TLC: two levels, two roles, and either *)
(* a role for each level or one role for both.                             *)
(***************************************************************************)
EXTENDS MembershipRoles

CONSTANTS member, board, roleA, roleB

MCAll == {Consumer, Reconcile, Command}

\* The consumer alone under everything the world does; the two loops under what
\* they race about; the unlink command beside both, as links end and are made
\* again; and, for the race, the two loops under changes of membership.
MCAlone == [actors |-> {Consumer}, outside |-> AllOutside, changes |-> 3]
MCLoops == [actors |-> {Consumer, Reconcile}, outside |-> {"membership", "link", "map"}, changes |-> 2]
MCTogether == [actors |-> MCAll, outside |-> {"link"}, changes |-> 2]
MCScenes == {MCAlone, MCLoops, MCTogether}
MCRace == {[actors |-> {Consumer, Reconcile}, outside |-> {"membership"}, changes |-> 2]}

MCLevels == {member, board}
MCRoles == {roleA, roleB}
MCEach == (member :> roleA) @@ (board :> roleB)
MCBoth == [l \in MCLevels |-> roleA]
MCOutside == AllOutside
=============================================================================
