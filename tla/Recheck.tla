------------------------------ MODULE Recheck ------------------------------
(***************************************************************************)
(* The scope of a task while its session works: the hooks that              *)
(* profile-compiler.service.ts writes for its window. One decides an Edit   *)
(* before it is made. Another reads the worktree before and after every     *)
(* Bash call, since no pattern over a command knows what it will write.     *)
(* Calls run in parallel, leave processes behind, and merge the target.     *)
(* Each script is a step of its own; how long its reads may take is         *)
(* HookClock's.                                                             *)
(***************************************************************************)
EXTENDS Subject, Integers

CONSTANTS
    Calls,      \* the session's Bash calls, numbered as they begin
    MaxChurn,   \* bound: what else moves: commits, merges, what troubles the hooks
    Makes       \* bound: what the calls of a session make of each path

\* Outside the task's scope: a tracked file; one of .claude/, untracked and
\* ignored; and an untracked one whose name holds a control character.
Path == {"code", "claude", "odd"}

\* Contents the check gives one sum: too large to hash and of one size, no
\* regular file (a link here or there, a fifo), and such as cannot be read.
Large == {"large1", "large2"}
Special == {"link1", "link2"}
Unreadable == {"shut1", "shut2"}

\* Contents: HEAD's when the session began; one it made up, and marker lines around
\* it; no file; the target's; a conflict's marker lines with both sides, and both
\* without them; and those above.
Content == {"base", "made", "forged", "gone", "tip", "marked", "both"} \cup Large \cup Special \cup Unreadable

\* The tip's text is the target's, whoever writes it
ASSUME RecheckAssumption ==
    /\ MaxChurn \in Nat /\ Calls \subseteq Nat \ {0}
    /\ Makes \subseteq [Path -> SUBSET (Content \ {"tip"})]

VARIABLES
    content,    \* each path's; "base" for one that is not there
    head,       \* what HEAD holds of the tracked one
    merging,    \* MERGE_HEAD is the tip of the target
    conflict,   \* the index holds the tracked one's conflict
    trouble,    \* what keeps the hooks from reading the worktree
    call,       \* each call: where it is, its snapshot, the contents it began on;
                \* history of one that is over: both, while its account needs them
    churn,      \* bound: what MaxChurn counts
    by,         \* history: the call that made each path differ
    said,       \* history: the contents the session was told of
    astray      \* history: the calls that left their scope, or had it moved

hookVars == <<trouble, call>>
historyVars == <<by, said, astray>>
recheckVars == <<content, head, merging, conflict, hookVars, churn, historyVars>>

\* The sums that tell nothing of a content, and the hashes
OneSum == {"large", "special", "unreadable", "unhashable", "deleted"}
Sum == OneSum \cup Content
\* The git pointers name another repository, or there are more dirty paths than
\* are checked, or than the deadline leaves time for
Trouble == {"none", "pointers", "crowd"}

NoSnapshot == {<<"none", "none">>}

RecheckTypeOK ==
    /\ content \in [Path -> Content] /\ head \in Content
    /\ {merging, conflict} \subseteq BOOLEAN
    /\ \A c \in Calls :
          /\ call[c].at \in {"none", "runs", "left", "silent", "told", "cut"}
          /\ call[c].snapshot \in {NoSnapshot} \cup SUBSET (Path \X Sum)
          /\ call[c].began \in [Path -> Content]
    /\ trouble \in Trouble
    /\ churn \in 0 .. MaxChurn
    /\ by \in [Path -> Calls \cup {0, -1}]
    /\ said \subseteq Path \X Content /\ astray \subseteq Calls

Nobody == 0     \* the target, or git
AnEdit == -1
Base == [p \in Path |-> "base"]
NoCall == [at |-> "none", snapshot |-> NoSnapshot, began |-> Base]

RecheckStart(t) ==
    /\ content = [Base EXCEPT !["code"] = head] /\ merging = FALSE /\ conflict = FALSE
    /\ trouble = t
    /\ call = [c \in Calls |-> NoCall] /\ churn = 0
    /\ by = [p \in Path |-> Nobody] /\ said = {} /\ astray = {}

\* The branch may hold a commit out of the scope the task has by now, of what a call
\* before it made, a removal among that
RecheckInit ==
    /\ given \in Makes /\ head \in {"base"} \cup ({"made", "gone"} \cap given["code"])
    /\ RecheckStart("none")
RecheckRests == head = "base" /\ RecheckStart("crowd")
-----------------------------------------------------------------------------
(* What a check reads.                                                      *)

\* git status, and the ignored files under .claude/
Listed == Path

\* A path in conflict is listed whatever it holds
Dirty == {p \in Path : IF p = "code" THEN content[p] # head \/ conflict ELSE content[p] # "base"}

\* The branch removed what the target changed: git says DU of the path, and has
\* it differ from the tip, whatever is there
Removed == conflict /\ head = "gone"

\* MUTANT: a path is known by its name
fingerprint_Name(p) == "base"

\* The hash of its bytes; but one word for a name that holds a control character,
\* a D in what git says of it, no regular file, too many bytes, or none to read
fingerprint(p) ==
    CASE p = "odd" -> "unhashable"
      [] p = "code" /\ (content[p] = "gone" \/ Removed) -> "deleted"
      [] content[p] \in Special -> "special"
      [] content[p] \in Large -> "large"
      [] content[p] \in Unreadable -> "unreadable"
      [] OTHER -> content[p]

\* A tracked path with the merged tip's content, while that merge is in progress
FromTarget == IF merging /\ content["code"] = "tip" /\ ~Removed THEN {"code"} ELSE {}

Outside == (Dirty \cap Listed) \ FromTarget
out_of_scope == {<<p, fingerprint(p)>> : p \in Outside}

\* pinned_worktree, the cap on the paths, and the deadline
Readable == trouble = "none"
-----------------------------------------------------------------------------
(* A Bash call.                                                             *)

Acts(c) == call[c].at \in {"runs", "left"}
Running == {c \in Calls : call[c].at = "runs"}

\* One for each tool-use id
SnapshotOf(d, c) == d = c

\* Before it runs: the snapshot, which a check that cannot read leaves out
PreBash(c) ==
    /\ call[c].at = "none" /\ \A d \in Calls : d < c => call[d].at # "none"
    /\ call' = [d \in Calls |->
          [at |-> IF d = c THEN "runs" ELSE call[d].at,
           snapshot |-> IF ~SnapshotOf(d, c) THEN call[d].snapshot
                        ELSE IF Readable THEN out_of_scope ELSE NoSnapshot,
           began |-> IF d = c THEN content ELSE call[d].began]]
    /\ astray' = IF Readable THEN astray ELSE astray \cup {c}
    /\ UNCHANGED <<content, head, merging, conflict, trouble, churn, by, said>>

\* Its snapshot is removed. What it began on, and what that held, matter to the
\* account of what it made and is still there.
Over(c, at) ==
    [call EXCEPT ![c] = IF at # "left" /\ \E p \in Path : by[p] = c THEN [@ EXCEPT !.at = at]
                        ELSE [NoCall EXCEPT !.at = at]]

\* It is refused for what is new, and when it cannot be checked
Refused(new) == new # {} \/ ~Readable

\* The paths whose new lines are printed; an unreadable tree is said to be that.
\* A process may be left in the background.
Told(c, new) ==
    /\ \/ call' = Over(c, IF Refused(new) THEN "told" ELSE "silent") /\ UNCHANGED astray
       \/ call' = Over(c, "left") /\ astray' = astray \cup {c}
    /\ said' = said \cup {<<p, content[p]>> : p \in
                  IF ~Refused(new) THEN {}
                  ELSE IF Readable THEN {q \in Outside : <<q, fingerprint(q)>> \in new}
                  ELSE Path}
    /\ UNCHANGED <<content, head, merging, conflict, trouble, churn, by>>

\* After it, passed or failed: whatever its snapshot does not hold
PostBash(c) ==
    /\ call[c].at = "runs"
    /\ LET new == out_of_scope \ (IF call[c].snapshot = NoSnapshot THEN {} ELSE call[c].snapshot)
       IN Told(c, new)

\* TaskOutput, of what a call left: no snapshot, so everything is new
PostTaskOutput(c) == call[c].at = "left" /\ Told(c, out_of_scope)

\* The window dies before the hook runs
CutShort(c) ==
    /\ Acts(c) /\ call' = [call EXCEPT ![c] = [NoCall EXCEPT !.at = "cut"]]
    /\ by' = [p \in Path |-> IF by[p] = c THEN Nobody ELSE by[p]]
    /\ astray' = astray \ {c}
    /\ UNCHANGED <<content, head, merging, conflict, trouble, churn, said>>
-----------------------------------------------------------------------------
(* What a call does. It is a running one's doing, or a process's that was   *)
(* left in the background.                                                  *)

Churn == churn < MaxChurn /\ churn' = churn + 1
Beside(c) == astray' = astray \cup (Running \ {c})
Write(c) ==
    /\ Acts(c)
    /\ \E p \in Path, v \in Content :
          /\ v \in {"base"} \cup given[p] /\ content[p] # v
          /\ content' = [content EXCEPT ![p] = v]
          /\ by' = [by EXCEPT ![p] = c]
          /\ said' = {s \in said : s[1] # p}
    /\ astray' = astray \cup Running
    /\ UNCHANGED <<head, merging, conflict, hookVars, churn>>

\* What a commit holds is on no call's account: the gate audits it
Commits ==
    /\ head' = content["code"] /\ by' = [by EXCEPT !["code"] = Nobody]
    /\ said' = {s \in said : s[1] # "code"}

\* git commit, of a conflict too; or git reset, which takes back what the branch
\* committed
MoveHead(c) ==
    /\ Acts(c) /\ Churn /\ ~merging
    /\ \/ Commits /\ Beside(c)
       \/ /\ head # "base" /\ head' = "base" /\ astray' = astray \cup Running
          /\ by' = [by EXCEPT !["code"] = c] /\ said' = {s \in said : s[1] # "code"}
    /\ conflict' = FALSE
    /\ UNCHANGED <<content, merging, hookVars>>

\* git merge <the target>: what the branch left alone is the target's, what it
\* committed is a conflict, with the target's text where it removed the file
MergeTarget(c) ==
    /\ Acts(c) /\ Churn /\ ~merging /\ content["code"] = head /\ head # "tip"
    /\ merging' = TRUE
    /\ conflict' = (head # "base")
    /\ content' = [content EXCEPT !["code"] = IF head \in {"base", "gone"} THEN "tip" ELSE "marked"]
    /\ by' = [by EXCEPT !["code"] = Nobody]
    /\ IF head = "base" THEN Beside(c) ELSE astray' = astray \cup Running
    /\ UNCHANGED <<head, hookVars, said>>

\* It is concluded or aborted
EndMerge(c) ==
    /\ Acts(c) /\ merging /\ merging' = FALSE /\ conflict' = FALSE
    /\ \/ Commits /\ UNCHANGED content
       \/ content' = [content EXCEPT !["code"] = head] /\ UNCHANGED <<head, by, said>>
    /\ Beside(c)
    /\ UNCHANGED <<hookVars, churn>>

\* Another session lands: MERGE_HEAD is no tip any more
TargetMoves ==
    /\ merging /\ merging' = FALSE
    /\ astray' = astray \cup Running
    /\ UNCHANGED <<content, head, conflict, hookVars, churn, by, said>>

\* The pointers are rewritten or restored; files come and go, or a fifo
Tamper ==
    /\ Churn
    /\ trouble' \in Trouble \ {trouble}
    /\ astray' = astray \cup Running
    /\ UNCHANGED <<content, head, merging, conflict, call, by, said>>
-----------------------------------------------------------------------------
(* An Edit out of scope.                                                    *)

\* One side of a conflict's block, the other, or both
resolutions(old) ==
    CASE old = "marked" -> {head, "tip", "both"}
      [] old = "forged" -> {"made"}
      [] OTHER -> {}

\* resolves_conflict: while the target is merged in, over the conflict that made.
\* The hook and the tool are one step. A side of the old text is no call's.
Edit ==
    /\ trouble # "pointers" /\ merging /\ conflict
    /\ LET old == content["code"]
       IN \E new \in resolutions(old) :
             /\ content' = [content EXCEPT !["code"] = new]
             /\ by' = [by EXCEPT !["code"] = IF old = "marked" /\ new \notin {head, "tip", "both"}
                                             THEN AnEdit ELSE Nobody]
             /\ said' = {s \in said : s[1] # "code"}
    /\ astray' = astray \cup Running
    /\ UNCHANGED <<head, merging, conflict, hookVars, churn>>

RecheckNext ==
    \/ \E c \in Calls :
          \/ PreBash(c) \/ PostBash(c) \/ PostTaskOutput(c) \/ CutShort(c)
          \/ Write(c) \/ MoveHead(c) \/ MergeTarget(c) \/ EndMerge(c)
    \/ TargetMoves \/ Tamper \/ Edit
-----------------------------------------------------------------------------
(* Properties.                                                              *)

Rechecks == subject = "recheck"

KeptItsSum(p, snapshot) == fingerprint(p) \in OneSum /\ <<p, fingerprint(p)>> \in snapshot

\* What a call made of a path outside its scope, and is there once the call was
\* checked, was said: whichever calls ran beside it, whatever was dirty before
\* it, and whether or not the worktree could be read. Excepted are a content the
\* call began on, a path that was dirty before it and kept a sum that tells nothing
\* (too large, no regular file, unreadable, a name with a control character, a D
\* of git's), and what a background process wrote that nobody has read the output
\* of; and no Edit puts a text of its own there (bash-recheck.sh, scope-enforce.sh).
NoWriteGoesUnsaid ==
    Rechecks => \A p \in Dirty \ FromTarget :
        /\ by[p] # AnEdit
        /\ by[p] \in Calls /\ call[by[p]].at \in {"silent", "told"} =>
              \/ <<p, content[p]>> \in said
              \/ content[p] = call[by[p]].began[p]
              \/ KeptItsSum(p, call[by[p]].snapshot)

\* A call is not refused for what the merge of the target brought in, nor for
\* what was dirty before it: only for leaving its scope itself, for a move of
\* the worktree beside it, or when a check of it could not read (FromTarget).
MergingInIsNoViolation ==
    Rechecks => \A c \in Calls \ astray : call[c].at # "told"

\* A call is told of what it wrote outside its scope, and of nothing else.
CallsAreToldTheirOwn == NoWriteGoesUnsaid /\ MergingInIsNoViolation
=============================================================================
