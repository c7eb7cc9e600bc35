------------------------------ MODULE Landing ------------------------------
(***************************************************************************)
(* What `pup merge` promises about one session: a commit lands only on the  *)
(* commit it was checked against, straight after which the target is that   *)
(* commit; a commit is published only once checked; and a run records the   *)
(* session merged only once it has landed or published a commit of its. No  *)
(* run lands on an earlier one's verdict. Others may move the target at any *)
(* time, to commits of their own.                                           *)
(*                                                                          *)
(* Nothing of the gate is here: no lock, no worktree, no steps, no crash.   *)
(* Module MergeGate implements this.                                        *)
(***************************************************************************)
EXTENDS Naturals

CONSTANTS Commit, Root

VARIABLES
    known,    \* the commits that exist
    tip,      \* the commit the target names
    checked,  \* <<commit, base>>: this run's stages passed on the one, over the other
    landed,   \* the commits this run has landed on the target, or published
    merged    \* the session reads merged

vars == <<known, tip, checked, landed, merged>>

Init ==
    /\ known = {Root}
    /\ tip = Root
    /\ checked = {}
    /\ landed = {}
    /\ merged = FALSE

Make ==
    /\ \E c \in Commit \ known : known' = known \cup {c}
    /\ UNCHANGED <<tip, checked, landed, merged>>

Move ==
    /\ \E c \in Commit \ known : known' = known \cup {c} /\ tip' = c
    /\ UNCHANGED <<checked, landed, merged>>

Check ==
    /\ \E c, b \in known : checked' = checked \cup {<<c, b>>}
    /\ UNCHANGED <<known, tip, landed, merged>>

\* A landing uses its verdict up.
Land ==
    /\ \E c \in known : /\ <<c, tip>> \in checked
                        /\ tip' = c
                        /\ landed' = landed \cup {c}
    /\ checked' = {}
    /\ UNCHANGED <<known, merged>>

Publish ==
    /\ \E p \in checked : landed' = landed \cup {p[1]}
    /\ checked' = {}
    /\ UNCHANGED <<known, tip, merged>>

Merge ==
    /\ landed # {}
    /\ merged' = TRUE
    /\ UNCHANGED <<known, tip, checked, landed>>

\* A verdict and a landing are good for the run they are of.
End ==
    /\ checked' = {}
    /\ landed' = {}
    /\ UNCHANGED <<known, tip, merged>>

Next == Make \/ Move \/ Check \/ Land \/ Publish \/ Merge \/ End

Spec == Init /\ [][Next]_vars
=============================================================================
