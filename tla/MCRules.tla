------------------------------ MODULE MCRules ------------------------------
(***************************************************************************)
(* An instance of Rules.                                                    *)
(***************************************************************************)
EXTENDS Rules

\* One thread over two fix rounds, or two over one
Rounds == {[threads |-> 1, rounds |-> 2], [threads |-> 2, rounds |-> 1]}

\* Texts of the tracked path, and with it one kind of path or content at a time
\* that has no sum of its own
Worktrees == {[code |-> {"made", "forged", "gone"}, claude |-> {}, odd |-> {}],
              [code |-> {}, claude |-> Large, odd |-> {}],
              [code |-> {}, claude |-> Special, odd |-> {}],
              [code |-> {}, claude |-> Unreadable, odd |-> {}],
              [code |-> {}, claude |-> {}, odd |-> {"made", "forged"}]}
=============================================================================
