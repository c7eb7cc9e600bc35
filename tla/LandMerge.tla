----------------------------- MODULE LandMerge -----------------------------
(***************************************************************************)
(* What `pup land` takes for the landing of a pull request, and what it     *)
(* clears up (land.service.ts): whether the commit GitHub says merged it is *)
(* a merge, a squash or a rebase of exactly the pinned content, and which   *)
(* commit it went onto; then the worktree and the branch, the `landed`      *)
(* event, and the steer of the sessions whose files it changed. A commit is *)
(* the content it leaves: the version of each file.                         *)
(***************************************************************************)
EXTENDS Subject, Integers, Sequences, SequencesExt, FiniteSets

CONSTANTS
    Files,     \* the files
    Peers,     \* the other running sessions
    MaxCalls,  \* bound: runs of `pup land`
    MaxOwn,    \* bound: commits of the pinned branch
    MaxLanded  \* bound: commits GitHub put on the target for the PR

ASSUME LandMergeAssumption ==
    IsFiniteSet(Files) /\ IsFiniteSet(Peers) /\ {MaxCalls, MaxOwn, MaxLanded} \subseteq Nat

VARIABLES
    landing,   \* where the run of `pup land` is, or "idle"
    calls,     \* how many runs there were
    worktree,  \* git's registration of the session's: "there", "locked" or "gone"
    branchAt,  \* the branch: "pin", "past" it, "inside" it or "gone"
    event,     \* the `landed` event is written
    tookFrom,  \* the commit the landing went onto, as a place on the target, or 0
    toSteer,   \* the peers the run has yet to look at
    steered,   \* the peers that were steered
    unreached, \* history: those no steer reached
    overlapsTold       \* history: a run looked at every peer

landVars == <<landing, calls, worktree, branchAt, event, tookFrom, toSteer, steered, unreached, overlapsTold>>

\* Version 0 is the fork's, 1 the session's, 2 the target's
Version == 0 .. 2
FileTree == [Files -> Version]
Fork == [f \in Files |-> 0]
Of(versions) == [Files -> versions]

\* The target in first-parent order from the fork: what it had, then what GitHub
\* put there; the PR's commits; and whether the last is a merge of them.
Target == <<Fork>> \o given.had \o given.put
Own == given.own

LandMergeTypeOK ==
    /\ landing \in {"idle", "locked", "branch", "event", "steer"} /\ calls \in 0 .. MaxCalls
    /\ worktree \in {"there", "locked", "gone"} /\ branchAt \in {"pin", "past", "inside", "gone"}
    /\ event \in BOOLEAN /\ tookFrom \in Nat
    /\ toSteer \subseteq Peers /\ steered \subseteq Peers
    /\ unreached \subseteq Peers /\ overlapsTold \in BOOLEAN

LandMergeRests ==
    /\ landing = "idle" /\ calls = 0 /\ worktree = "gone" /\ branchAt = "gone"
    /\ event = FALSE /\ tookFrom = 0 /\ toSteer = {} /\ steered = {}
    /\ unreached = {} /\ overlapsTold = FALSE

Chain ==
    [own : UNION {[1 .. n -> Of({0, 1})] : n \in 1 .. MaxOwn},
     had : {<<>>} \cup {<<c>> : c \in Of({0, 2})},
     put : UNION {[1 .. n -> FileTree] : n \in 1 .. MaxLanded},
     isMerge : BOOLEAN,
     overlap : {[p \in Peers |-> "apart"]}]

\* A PR of one commit that was squashed
Squash(overlap) ==
    LET all == [f \in Files |-> 1]
    IN [own |-> <<all>>, had |-> <<>>, put |-> <<all>>, isMerge |-> FALSE, overlap |-> overlap]

\* Whatever GitHub put on the target, tree by tree; or whatever the gate left of
\* the session, and whichever sessions it overlaps
LandMergeInit ==
    /\ landing = "idle" /\ calls = 0 /\ event = FALSE /\ tookFrom = 0
    /\ \/ given \in Chain /\ worktree = "gone" /\ branchAt = "gone"
       \/ /\ given \in {Squash(overlap) : overlap \in [Peers -> {"overlaps", "apart", "unreadable"}]}
          /\ worktree \in {"there", "locked", "gone"} /\ branchAt \in {"pin", "inside", "gone"}
    /\ toSteer = {} /\ steered = {} /\ unreached = {} /\ overlapsTold = FALSE
-----------------------------------------------------------------------------
(* mergedOnto.                                                              *)

Conflict == [f \in Files |-> 3]

\* git merge-tree: a file changed on one side takes it, on both is a conflict
MergeTree(base, head) ==
    IF \E f \in Files : Fork[f] \notin {base[f], head[f]} /\ base[f] # head[f] THEN Conflict
    ELSE [f \in Files |-> IF head[f] = Fork[f] THEN base[f] ELSE head[f]]

\* The commit so many first parents down the merge commit
Parent(down) == Target[Len(Target) - down]

\* Each of the heads, merged into the commit below them, is a commit of the target
replays(heads) ==
    /\ Len(heads) < Len(Target)
    /\ \A at \in DOMAIN heads :
          MergeTree(Parent(Len(heads)), heads[at]) = Parent(Len(heads) - at)

\* The pinned commits the merge commit lacks
Lacked == IF given.isMerge THEN <<>> ELSE Own

shapes == IF Len(Lacked) > 1 THEN <<Lacked, <<Last(Own)>>>> ELSE <<<<Last(Own)>>>>

\* Its place on the target, or 0
mergedOnto ==
    LET fits == {i \in DOMAIN shapes : replays(shapes[i])}
    IN IF fits = {} THEN 0 ELSE Len(Target) - Len(shapes[Min(fits)])
-----------------------------------------------------------------------------
(* pup land.                                                                *)

\* Under the lock: the landing is taken, or refused
TakeLanding ==
    /\ landing = "idle" /\ ~event /\ calls < MaxCalls
    /\ calls' = calls + 1
    /\ IF mergedOnto = 0 THEN UNCHANGED <<landing, tookFrom>>
       ELSE landing' = "locked" /\ tookFrom' = mergedOnto
    /\ UNCHANGED <<worktree, branchAt, event, toSteer, steered, unreached, overlapsTold>>

\* tearDown: the worktree. One the session locked is kept, and its branch with it.
RemoveWorktree ==
    /\ landing = "locked"
    /\ worktree' = IF worktree = "there" THEN "gone" ELSE worktree
    /\ landing' = IF worktree = "locked" THEN "event" ELSE "branch"
    /\ UNCHANGED <<calls, branchAt, event, tookFrom, toSteer, steered, unreached, overlapsTold>>

\* MUTANT: the branch goes whatever it holds
isHeld_Always == TRUE

\* The pin or the target holds every commit of the branch
isHeld == branchAt \in {"pin", "inside"}

\* The branch, as it was read
DeleteBranch ==
    /\ landing = "branch"
    /\ branchAt' = IF isHeld THEN "gone" ELSE branchAt
    /\ landing' = "event"
    /\ UNCHANGED <<calls, worktree, event, tookFrom, toSteer, steered, unreached, overlapsTold>>

\* The lock's last write
AppendLanded ==
    /\ landing = "event"
    /\ event' = TRUE /\ landing' = "steer" /\ toSteer' = Peers
    /\ UNCHANGED <<calls, worktree, branchAt, tookFrom, steered, unreached, overlapsTold>>

\* The files that differ from the commit the landing went onto
landedFiles == {f \in Files : Target[tookFrom][f] # Parent(0)[f]}

\* A peer that cannot be read or steered is passed over
afterPeer(p, fails) == toSteer \ {p}

\* steerOverlappingSessions
Steer ==
    /\ landing = "steer"
    /\ \/ /\ toSteer = {} \/ landedFiles = {}
          /\ landing' = "idle" /\ overlapsTold' = TRUE
          /\ UNCHANGED <<toSteer, steered, unreached>>
       \/ /\ landedFiles # {}
          /\ \E p \in toSteer, fails \in BOOLEAN :
                /\ fails => given.overlap[p] # "apart"
                /\ given.overlap[p] = "unreadable" => fails
                /\ toSteer' = afterPeer(p, fails)
                /\ steered' = IF ~fails /\ given.overlap[p] = "overlaps" THEN steered \cup {p}
                              ELSE steered
                /\ unreached' = IF fails THEN unreached \cup {p} ELSE unreached
          /\ UNCHANGED <<landing, overlapsTold>>
    /\ UNCHANGED <<calls, worktree, branchAt, event, tookFrom>>

\* The run is killed
LandKilled ==
    /\ landing # "idle" /\ calls < MaxCalls
    /\ landing' = "idle" /\ toSteer' = {}
    /\ UNCHANGED <<calls, worktree, branchAt, event, tookFrom, steered, unreached, overlapsTold>>

\* Someone commits in the worktree the gate could not remove
CommitPast ==
    /\ worktree # "gone" /\ branchAt \in {"pin", "inside"}
    /\ branchAt' = "past"
    /\ UNCHANGED <<landing, calls, worktree, event, tookFrom, toSteer, steered, unreached, overlapsTold>>

LandMergeNext ==
    \/ TakeLanding \/ RemoveWorktree \/ DeleteBranch \/ AppendLanded \/ Steer
    \/ LandKilled \/ CommitPast
-----------------------------------------------------------------------------
(* Properties.                                                              *)

LandOf == subject = "landmerge"

\* A landing that is taken put nothing on the target but the pinned content: each
\* commit from the one it went onto is what the PR's commits make of that one,
\* so no commit of someone else's hides behind a last one that undoes it
\* (mergedOnto).
LandedIsThePin ==
    LandOf /\ tookFrom # 0 =>
        \A i \in tookFrom + 1 .. Len(Target), f \in Files :
            Target[i][f] # Target[tookFrom][f] => \E c \in DOMAIN Own : Own[c][f] = Target[i][f]

\* What GitHub makes of the PR on a commit of the target, by each of its buttons
ByButton(base) ==
    {<<MergeTree(base, Last(Own))>>}
        \cup (IF given.isMerge THEN {} ELSE {[i \in DOMAIN Own |-> MergeTree(base, Own[i])]})

\* An untouched merge, squash or rebase without a conflict is never refused, and
\* the sessions whose files it changed are those of the whole PR, not of its last
\* commit alone (mergedOnto, steerOverlappingSessions).
ButtonIsTaken ==
    LET base == Last(<<Fork>> \o given.had)
    IN LandOf /\ given.put \in ByButton(base) /\ (\A i \in DOMAIN given.put : given.put[i] # Conflict) =>
        /\ mergedOnto # 0
        /\ tookFrom # 0 => {f \in Files : base[f] # Parent(0)[f]} \subseteq landedFiles

\* No commit is lost to a landing: a commit past the pin keeps its branch,
\* whenever it came and however often the land is run again (tearDown).
PastIsKept ==
    [][branchAt = "past" => branchAt' = "past"]_landVars

\* A landed PR is told to each session it overlaps, and one that cannot be told
\* keeps no other from being told (steerOverlappingSessions).
OverlapsAreTold ==
    LandOf /\ overlapsTold /\ landedFiles # {} =>
        \A p \in Peers : given.overlap[p] = "overlaps" => p \in steered \cup unreached

\* `pup land` takes every honest landing of the pin and no other, keeps what is
\* past it and tells who is beside it (landSession).
LandingIsThePins ==
    []LandedIsThePin /\ []ButtonIsTaken /\ []OverlapsAreTold /\ PastIsKept
=============================================================================
