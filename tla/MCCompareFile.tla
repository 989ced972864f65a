--------------------------- MODULE MCCompareFile ---------------------------
(* Instances of CompareFile for TLC. *)
EXTENDS CompareFile, MCUserMatch

FileOf(r, list) == [role |-> r, people |-> list]

(* Two files for two roles; the same person in both, in two departments; a
   file of nobody; two files for one role; a file for no role; two people
   of one name. *)
MCRuns ==
    LET ann(dept) == Psn("a", "Ann", dept)
        bob(dept) == Psn("b", "Bob", dept)
        annPadded == Psn("a_", "Ann", "d02")
        annToo(dept) == Psn("c", "Ann", dept)
    IN  {<<FileOf("r1", <<ann("d1"), bob("d1")>>)>>,
         <<FileOf("r1", <<bob("d2")>>), FileOf("r2", <<annPadded>>)>>,
         <<FileOf("r1", <<ann("d1")>>), FileOf("r2", <<ann("d2"), bob("d1")>>)>>,
         <<FileOf("r1", <<ann("d1")>>), FileOf("r1", <<bob("d1")>>)>>,
         <<FileOf("r2", <<>>), FileOf("r1", <<ann("d1")>>)>>,
         <<FileOf("r1", <<ann("d1")>>), FileOf(NoRole, <<bob("d1")>>)>>,
         <<FileOf("r1", <<annToo("d1")>>), FileOf("r2", <<ann("d2")>>)>>}

MCTables == OwnedTables \cup NamesakeTables

MCLists == {PeopleOf(run) : run \in MCRuns}

(* doreuserrole: empty; everybody in every role; the rows of two deleted users. *)
MCGrants ==
    {[r \in Roles |-> [u \in UsrNos |-> IF u \in old THEN 1 ELSE 0]] :
        old \in {{}, {1, 2}, {2, 3}}}
=============================================================================
