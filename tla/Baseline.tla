------------------------------ MODULE Baseline ------------------------------
(***************************************************************************)
(* The debt bar of a project: what pup init and pup audit measure and store *)
(* (init.service.ts, audit.service.ts), what a gate judges a branch against *)
(* (debt.service.ts) and ratchets it to (merge-gate.service.ts). Two        *)
(* adapters share the figure of dead exports, and a tool of either may be   *)
(* missing when it is measured. A gate holds the merge lock; an audit,      *)
(* which takes minutes, does not.                                           *)
(***************************************************************************)
EXTENDS Subject, Integers, FiniteSets, FiniteSetsExt

CONSTANTS
    MaxDup,     \* bound: duplicated lines
    MaxUpsets   \* bound: tools that go or come back, and changes of the rule

ASSUME BaselineAssumption == {MaxDup, MaxUpsets} \subseteq Nat

VARIABLES
    main,       \* the debt on the target: its dead exports and duplicated lines
    works,      \* the adapters whose tool runs
    bar,        \* projects.baseline, or NoBar
    gate,       \* a gate that has measured its branch, or NoGate
    audit,      \* an audit that has measured the checkout, or NoAudit
    known,      \* history: what the bar held and the target still has
    raced,      \* history: a gate and an audit overlapped
    upsets      \* bound: what MaxUpsets counts

baselineVars == <<main, works, bar, gate, audit, known, raced, upsets>>

Adapter == {"ts", "py"}
Owner == [e \in {"x", "y"} |-> IF e = "x" THEN "ts" ELSE "py"]
Export == DOMAIN Owner
\* mergeDuplication: one figure for the repository, whichever adapter counted
Debt == [dead : SUBSET Export, dup : 0 .. MaxDup]

\* A bar has no figure of dead exports when no adapter measured any. Its
\* duplicated lines were counted by this version's rule or by another's.
Bar == [dead : SUBSET Export, hasDead : BOOLEAN, dup : 0 .. MaxDup, rule : BOOLEAN,
        gaps : SUBSET Adapter]
NoBar == [dead |-> {}, hasDead |-> FALSE, dup |-> 0, rule |-> FALSE, gaps |-> Adapter]
NoGate == [on |-> FALSE]
NoAudit == [on |-> FALSE]

BaselineTypeOK ==
    /\ main \in Debt /\ works \subseteq Adapter
    /\ bar \in Bar
    /\ gate.on => gate.bar \in Bar /\ gate.found \in Bar /\ gate.branch \in Debt /\ gate.fresh \subseteq Export
    /\ audit.on => audit.previous \in Bar /\ audit.found \in Bar /\ audit.by \in {"operator", "land"}
    /\ known \subseteq Export /\ raced \in BOOLEAN /\ upsets \in 0 .. MaxUpsets

BaselineStart ==
    /\ main = [dead |-> {}, dup |-> 0]
    /\ bar = NoBar /\ gate = NoGate /\ audit = NoAudit /\ known = {} /\ raced = FALSE
    /\ upsets = 0

BaselineInit == given = "baseline" /\ works \in SUBSET Adapter /\ BaselineStart
BaselineRests == works = {} /\ BaselineStart
-----------------------------------------------------------------------------
\* measureStaticDebt: the adapters that measured, flattened; the others' gaps
Measured(debt) ==
    [dead |-> {e \in debt.dead : Owner[e] \in works}, hasDead |-> works # {}, dup |-> debt.dup,
     rule |-> TRUE, gaps |-> Adapter \ works]

\* pup init: what it measures is the bar
InitProject ==
    /\ bar' = Measured(main) /\ known' = bar'.dead
    /\ raced' = (raced \/ gate.on \/ audit.on)
    /\ UNCHANGED <<main, works, gate, audit, upsets>>
-----------------------------------------------------------------------------
(* The gate.                                                                *)

\* judgeDeadCode: the exports the bar does not hold, whichever adapter found them
Fresh(old, found) == IF old.hasDead /\ found.hasDead THEN found.dead \ old.dead ELSE {}

\* judgeDuplication: a figure counted by another rule is not compared
comparableRule(old) == old.rule
DupRose(old, found) == comparableRule(old) /\ found.dup > old.dup

\* measureBranch, judgeDebt and the refusal of what nobody accepts: a gate that
\* goes on has its flags accepted
GateDebt ==
    /\ ~gate.on
    /\ \E branch \in Debt :
          gate' = [on |-> TRUE, branch |-> branch, bar |-> bar, found |-> Measured(branch),
                   fresh |-> Fresh(bar, Measured(branch)), dupRose |-> DupRose(bar, Measured(branch))]
    /\ raced' = (raced \/ audit.on)
    /\ UNCHANGED <<main, works, bar, audit, known, upsets>>

\* Only a list every adapter had its share in
RatchetsDead(found) == found.hasDead /\ found.gaps = {}

\* MUTANT: the lines are ratcheted to, by whatever rule the bar counts
RatchetsDup_Always(old) == TRUE

\* Only by the same rule, or where there is no figure
RatchetsDup(old) == comparableRule(old) \/ old = NoBar

\* What the merge stores: the bar the gate read, with the metrics it could compare
Ratcheted(old, found) ==
    [old EXCEPT !.dead = IF RatchetsDead(found) THEN found.dead ELSE @,
                !.hasDead = @ \/ RatchetsDead(found),
                !.dup = IF RatchetsDup(old) THEN found.dup ELSE @,
                !.rule = @ \/ RatchetsDup(old)]

\* A plain merge ratchets a bar that is there; one that opens a pull request
\* leaves that to the audit of its land
Merge ==
    /\ gate.on /\ gate' = NoGate
    /\ main' = gate.branch
    /\ bar' \in {bar, IF gate.bar = NoBar THEN bar ELSE Ratcheted(gate.bar, gate.found)}
    /\ known' = (known \cup bar'.dead) \cap gate.branch.dead
    /\ UNCHANGED <<works, audit, raced, upsets>>

\* Refused, rejected, interrupted
GateEnds == gate.on /\ gate' = NoGate /\ UNCHANGED <<main, works, bar, audit, known, raced, upsets>>
-----------------------------------------------------------------------------
(* The audit.                                                               *)

\* auditProject: the bar as it starts, and what it measures in the main checkout
Audit(by) ==
    /\ ~audit.on
    /\ audit' = [on |-> TRUE, by |-> by, previous |-> bar, found |-> Measured(main)]
    /\ raced' = (raced \/ gate.on)
    /\ UNCHANGED <<main, works, bar, gate, known, upsets>>

\* isNewGap: a gap the stored bar did not record at its own capture
NewGaps(old, found) == IF old = NoBar THEN {} ELSE found.gaps \ old.gaps

\* compareDebt: the exports are counted, the lines compared by the same rule
Regressed(old, found) ==
    /\ old # NoBar
    /\ \/ old.hasDead /\ found.hasDead /\ Cardinality(found.dead) > Cardinality(old.dead)
       \/ comparableRule(old) /\ found.dup > old.dup

\* onRegression 'keep'
held(by, old, found) == by = "land" /\ Regressed(old, found)

\* judgeAudit, persistBaseline
AuditEnds ==
    /\ audit.on /\ audit' = NoAudit
    /\ bar' = IF NewGaps(audit.previous, audit.found) = {}
                    /\ ~held(audit.by, audit.previous, audit.found)
              THEN audit.found ELSE bar
    /\ known' = ((known \cup bar'.dead) \cap main.dead)
                    \ {e \in Export : e \notin bar'.dead /\ Owner[e] \in bar.gaps}
    /\ UNCHANGED <<main, works, gate, raced, upsets>>
-----------------------------------------------------------------------------
\* A tool is installed or goes, or a new version of pup counts lines anew
Upset ==
    /\ upsets < MaxUpsets /\ upsets' = upsets + 1
    /\ \/ \E a \in Adapter : works' = SymDiff(works, {a}) /\ UNCHANGED bar
       \/ bar # NoBar /\ bar' = [bar EXCEPT !.rule = FALSE] /\ UNCHANGED works
    /\ UNCHANGED <<main, gate, audit, known, raced>>

\* Of a gate and an audit at once only the start is followed: what each does to
\* the other's bar is not among the properties
BaselineNext ==
    /\ ~raced
    /\ \/ InitProject \/ GateDebt \/ Merge \/ GateEnds \/ AuditEnds \/ Upset
       \/ \E by \in {"operator", "land"} : Audit(by)
-----------------------------------------------------------------------------
(* Properties.                                                              *)

Barred == subject = "baseline"

\* What a session is flagged for is new: an export the bar has held since it
\* came to the target is not charged to a later branch, whichever tools were
\* missing in between (judgeDeadCode's carries, isNewGap). A gap the bar still
\* records after a gate filled it in, and an audit beside a gate, break this.
KnownIsNotFlaggedAgain == Barred /\ gate.on /\ ~raced => gate.fresh \cap known = {}

\* The bar never takes more duplicated lines than it allowed unless somebody
\* was told: the gate's flag was accepted, or the operator measured it; or the
\* bar was of another rule, which an audit replaces (judgeDuplication,
\* judgeAudit). An audit beside a gate breaks this too.
BarRisesOnlyTold ==
    [][Barred /\ bar # NoBar /\ bar'.dup > bar.dup =>
          \/ raced
          \/ gate.on /\ ~gate'.on /\ gate.dupRose
          \/ audit.on /\ ~audit'.on /\ (audit.by = "operator" \/ ~bar.rule)
          \/ UNCHANGED <<gate, audit>>]_<<subject, given, baselineVars>>

\* Debt is judged once: what the bar knew is nobody's new debt, and the bar does
\* not rise untold (judgeDeadCode, judgeDuplication, judgeAudit).
DebtIsJudgedOnce == []KnownIsNotFlaggedAgain /\ BarRisesOnlyTold
=============================================================================
