------------------------------ MODULE MCRoutine ------------------------------
(***************************************************************************)
(* Routine for TLC.  The default branch is 1, 5, or 7: below 5, 4 merges   *)
(* the head 2 and changes the policy, which 5 breaks; 7 is a merge whose   *)
(* second parent 6 was branched from 1, so that 1 is nearer to it than 4.  *)
(* The pull request is 2, 3 on top of it, or 6, which has the tree of 1,   *)
(* after a forced push.                                                    *)
(***************************************************************************)
EXTENDS Routine

MCParents == <<{}, {1}, {2}, {1, 2}, {4}, {1}, {5, 6}>>
MCTrees == <<"a", "b", "c", "b", "d", "a", "d">>
MCPolicies ==
    [c \in Commits |->
        [active |-> c # 5, allowed |-> {"code", "release"},
         protected |-> IF c >= 4 THEN {"release"} ELSE {}]]

Marker(h, o, r) == <<[head |-> h, operation |-> o, repeats |-> r]>>

MCBodies ==
    {<<>>, Marker(2, "code", FALSE), Marker(2, "release", FALSE), Marker(3, "release", FALSE),
     Marker(0, "code", FALSE), Marker(3, "code", TRUE), Marker(6, "code", FALSE)}

MCBaseDeepenings == <<1, 1>>
MCParentDeepenings == <<1>>
=============================================================================
