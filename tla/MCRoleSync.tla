----------------------------- MODULE MCRoleSync -----------------------------
(* Instances of RoleSync for TLC. *)
EXTENDS RoleSync, TLC

CONSTANTS u1, u2, u3

Blank(u)  == [usrNo |-> u, op |-> ""]
Preset(u) == [usrNo |-> u, op |-> "preset"]

(* Versions of one role's list, among them what a file can hold besides: nobody,
   a person named twice, a person that arrives with an op. *)
OverlapLists ==
    {<<>>, <<Preset(u1), Blank(u2)>>, <<Blank(u2), Blank(u2), Blank(u3)>>}

(* The lists of small roles; those that never converge are among them. *)
RoleLists ==
    {<<>>, <<Blank(u1)>>, <<Blank(u2), Blank(u1)>>, <<Preset(u1), Blank(u2)>>,
     <<Blank(u1), Blank(u1), Blank(u2)>>}

RepeatedList == {<<Blank(u1), Blank(u1)>>}

Symmetry == Permutations(Procs)
=============================================================================
