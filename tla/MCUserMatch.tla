---------------------------- MODULE MCUserMatch ----------------------------
(* Instances of UserMatch for TLC.  "a_" is the id "a" followed by a space,
   "d02" the department "d2" with a leading zero in its id. *)
EXTENDS UserMatch, TLC

MCIds  == {"", "a", "a_", "b", "c"}
MCTrim == [x \in MCIds |-> IF x = "a_" THEN "a" ELSE x]

MCNumeric == [x \in {"d1", "d2", "d02"} |-> IF x = "d02" THEN "d2" ELSE x]

Psn(id, name, dept) == [dept |-> dept, name |-> name, sysId |-> id]

(* Each id has one owner: a is Ann and b is Bob.  The last list names Ann in
   two departments, as two files of one run do. *)
OwnedLists ==
    {<<Psn("a", "Ann", "d1"), Psn("b", "Bob", "d1")>>,
     <<Psn("b", "Bob", "d2"), Psn("a_", "Ann", "d02")>>,
     <<Psn("a", "Ann", "d1"), Psn("a", "Ann", "d2")>>}

RowOf(name, ids) ==
    [usrNo : {IF name = "Ann" THEN 1 ELSE 2}, name : {name}, sso : ids,
     dept : {"d1", "d2", Null}]

NoName == [dept |-> "d1", usrNo |-> 1, name |-> Null, sso |-> "a"]

(* doreuser with at most one row for each of them, filled in or not. *)
OwnedTables ==
    LET ann == RowOf("Ann", {"", "a", Null}) \cup {NoName}
        bob == RowOf("Bob", {"", "b"})
    IN  {<<>>} \cup {<<x>> : x \in ann \cup bob}
               \cup {<<x, y>> : x \in ann, y \in bob}

(* Two runs of the race: one list names Ann twice, as two files of a run do. *)
RaceLists ==
    {<<Psn("a", "Ann", "d1"), Psn("b", "Bob", "d1")>>,
     <<Psn("b", "Bob", "d2"), Psn("a_", "Ann", "d02"), Psn("a", "Ann", "d1")>>}

(* A few of them, without NULL. *)
PlainTables ==
    LET ann(id, dept) ==
            [dept |-> dept, usrNo |-> 1, name |-> "Ann", sso |-> id]
    IN  {<<>>, <<ann("a", "d2")>>, <<ann("", "d1")>>}

(* A second Ann, with the id c, and the first: one of them in doreuser, or both. *)
NamesakeTables ==
    LET row(n, id, dept) == [dept |-> dept, usrNo |-> n, name |-> "Ann", sso |-> id]
    IN  {<<row(1, "c", "d2")>>} \cup {<<row(1, "a_", "d1"), row(2, id, "d2")>> : id \in {"", "c"}}

Symmetry == Permutations(Procs)
=============================================================================
