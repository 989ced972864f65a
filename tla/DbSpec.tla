------------------------------- MODULE DbSpec -------------------------------
(***************************************************************************)
(* What the program relies on when it hands a statement to its sql.DB:     *)
(* the statement takes effect at most once, only after it was handed over, *)
(* and it did if the call succeeded.  A call that failed says nothing: the *)
(* statement may have taken effect, may never do so, or may still do so    *)
(* while later ones are answered.                                          *)
(***************************************************************************)
EXTENDS Naturals

CONSTANT Stmts   \* the statements

VARIABLES
    call,     \* call[s]: "none", "open" while it is running, its outcome then
    effects   \* effects[s]: how often the server executed s

vars == <<call, effects>>

Outcomes == {"ok", "error"}

Init ==
    /\ call = [s \in Stmts |-> "none"]
    /\ effects = [s \in Stmts |-> 0]

(* One statement at a time: the program is sequential. *)
Hand(s) ==
    /\ call[s] = "none"
    /\ \A t \in Stmts : call[t] # "open"
    /\ call' = [call EXCEPT ![s] = "open"]
    /\ UNCHANGED effects

TakeEffect(s) ==
    /\ call[s] \in {"open", "error"}
    /\ effects[s] = 0
    /\ effects' = [effects EXCEPT ![s] = 1]
    /\ UNCHANGED call

Succeed(s) ==
    /\ call[s] = "open"
    /\ effects[s] = 1
    /\ call' = [call EXCEPT ![s] = "ok"]
    /\ UNCHANGED effects

Fail(s) ==
    /\ call[s] = "open"
    /\ call' = [call EXCEPT ![s] = "error"]
    /\ UNCHANGED effects

Next == \E s \in Stmts : Hand(s) \/ TakeEffect(s) \/ Succeed(s) \/ Fail(s)

Spec == Init /\ [][Next]_vars
=============================================================================
