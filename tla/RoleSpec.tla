------------------------------ MODULE RoleSpec ------------------------------
(***************************************************************************)
(* What synchronising a role promises, whatever statements it is made of:  *)
(* a run first revokes people that are not on its list, then grants people *)
(* that are, and reports success only when the members are the list.       *)
(* RoleSync implements this module.                                        *)
(***************************************************************************)
CONSTANTS Procs, Roles, People

VARIABLES
    members,  \* members[r]: the people an application sees in role r
    run,      \* what each process is doing
    of,       \* the role of its run
    target,   \* the people on its list
    clean     \* nobody has written the role with another list in mind

vars == <<members, run, of, target, clean>>

Busy == {"revoking", "granting"}

Init ==
    /\ members \in [Roles -> SUBSET People]
    /\ run = [p \in Procs |-> "off"]
    /\ of \in [Procs -> Roles]
    /\ target = [p \in Procs |-> {}]
    /\ clean = [p \in Procs |-> TRUE]

(* Creating the users of a list can bring rows of theirs back to life that an
   earlier user of the same number left in any role. *)
Begin(p, r, list) ==
    /\ run[p] \notin Busy
    /\ \/ run' = [run EXCEPT ![p] = "revoking"]
       \/ list = {} /\ run' = [run EXCEPT ![p] = "off"]
    /\ of' = [of EXCEPT ![p] = r]
    /\ target' = [target EXCEPT ![p] = list]
    /\ \/ clean' = [clean EXCEPT ![p] = TRUE] /\ UNCHANGED members
       \/ /\ clean' = [q \in Procs |-> q = p]
          /\ members' \in [Roles -> SUBSET People]
          /\ \A s \in Roles : /\ members[s] \subseteq members'[s]
                              /\ members'[s] \subseteq members[s] \cup list

(* What p's write does to the other runs on its role. *)
Disturb(p) ==
    [q \in Procs |->
        IF q = p \/ of[q] # of[p] THEN clean[q]
        ELSE clean[q] /\ clean[p] /\ target[q] = target[p]]

(* Only somebody who is not on the list is revoked; "after" is the phase the
   run is left in: the same, or "failed". *)
Revoke(p, u, after) ==
    /\ run[p] = "revoking" /\ after \in {"revoking", "failed"}
    /\ u \notin target[p]
    /\ members' = [members EXCEPT ![of[p]] = @ \ {u}]
    /\ run' = [run EXCEPT ![p] = after]
    /\ clean' = Disturb(p)
    /\ UNCHANGED <<of, target>>

(* No grant before the last outsider is gone. *)
TurnToGranting(p) ==
    /\ run[p] = "revoking"
    /\ clean[p] => members[of[p]] \subseteq target[p]
    /\ run' = [run EXCEPT ![p] = "granting"]
    /\ UNCHANGED <<members, of, target, clean>>

(* A grant can be without effect only if somebody else deleted the user. *)
Grant(p, u, after) ==
    /\ run[p] = "granting" /\ after \in {"granting", "failed"}
    /\ u \in target[p]
    /\ \/ members' = [members EXCEPT ![of[p]] = @ \cup {u}]
       \/ ~clean[p] /\ UNCHANGED members
    /\ run' = [run EXCEPT ![p] = after]
    /\ clean' = Disturb(p)
    /\ UNCHANGED <<of, target>>

(* Success is claimed only of a role that is exactly the list. *)
Succeed(p) ==
    /\ run[p] = "granting"
    /\ members[of[p]] = target[p]
    /\ run' = [run EXCEPT ![p] = "done"]
    /\ UNCHANGED <<members, of, target, clean>>

Fail(p) ==
    /\ run[p] \in Busy
    /\ run' = [run EXCEPT ![p] = "failed"]
    /\ UNCHANGED <<members, of, target, clean>>

(* Other applications write one role, or delete or restore a user. *)
Outside ==
    /\ members' \in [Roles -> SUBSET People]
    /\ \/ \E r \in Roles :
             /\ \A s \in Roles \ {r} : members'[s] = members[s]
             /\ clean' = [q \in Procs |-> clean[q] /\ of[q] # r]
       \/ clean' = [q \in Procs |-> FALSE]
    /\ UNCHANGED <<run, of, target>>

Next ==
    \/ Outside
    \/ \E p \in Procs :
          \/ \E r \in Roles, list \in SUBSET People : Begin(p, r, list)
          \/ \E u \in People, after \in {"revoking", "granting", "failed"} :
                Revoke(p, u, after) \/ Grant(p, u, after)
          \/ TurnToGranting(p) \/ Succeed(p) \/ Fail(p)

Spec == Init /\ [][Next]_vars
=============================================================================
