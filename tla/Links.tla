------------------------------- MODULE Links -------------------------------
(***************************************************************************)
(* The committed symlinks of a branch, as the gate judges them before any   *)
(* stage runs (merge-gate.service.ts): refuseEscapingLinks vets the gate's  *)
(* checkout, linkEnvironment then puts the main checkout's packages in it,  *)
(* and the diff-size split asks which paths a link reaches (readBranchTree).*)
(* None of them asks the file system where a link leads: Node's             *)
(* realpathSync joins each target by its spelling, and a target that does   *)
(* not resolve is read by its spelling alone. Here they meet a file system  *)
(* that walks it.                                                           *)
(***************************************************************************)
EXTENDS Subject, Integers, Sequences, SequencesExt, FiniteSets

CONSTANTS
    MaxTarget  \* bound: segments of a link's target

ASSUME MaxTargetAssumption == MaxTarget \in Nat \ {0}

VARIABLES
    vetted,     \* the links refuseEscapingLinks has passed
    cutCheckout    \* "cut", "refused" or "linked": with its environment in it

linksVars == <<vetted, cutCheckout>>

\* The checkout holds a directory d with a file f and a link k, and a link l;
\* m is its node_modules, which nobody committed, and m/e a package there.
L == <<"l">>
K == <<"d", "k">>
File == <<"d", "f">>
Segment == {"..", "d", "f", "l", "k", "m", "e"}
Targets(n) == UNION {[1 .. i -> Segment] : i \in 1 .. n}

\* A link's place in the file system: a path from the checkout's root, or
\* outside of it, or in the environment the gate made.
OutsideCheckout == <<"outside">>
Environment == <<"environment">>
Missing == <<"missing">>

LinksTypeOK ==
    /\ DOMAIN given = {L, K}
    /\ vetted \subseteq DOMAIN given /\ cutCheckout \in {"cut", "refused", "linked"}

\* Absolute targets are those of one segment "/"
LinksInit ==
    /\ \E tl \in Targets(MaxTarget) \cup {<<"/">>}, tk \in Targets(MaxTarget - 1) :
          given = [link \in {L, K} |-> IF link = L THEN tl ELSE tk]
    /\ vetted = {} /\ cutCheckout = "cut"

LinksRests == vetted = {} /\ cutCheckout = "refused"
-----------------------------------------------------------------------------
(* The file system (external).                                              *)

Dirs(linked) == {<<>>, <<"d">>} \cup (IF linked THEN {<<"m">>} ELSE {})

\* A walk: where it is, and the path it has ahead of it.
Place == {<<>>, <<"d">>, <<"m">>, File, OutsideCheckout, Environment, Missing}
Ends(place) == [at |-> place, path |-> <<>>]

\* It goes a segment on, or through a link; a step past the checkout's root, or
\* out of a package, leaves the checkout.
Goes(walk, linked) ==
    LET seg == Head(walk.path)
        next == Append(walk.at, seg)
        To(place) == [at |-> place, path |-> Tail(walk.path)]
    IN IF walk.path = <<>> THEN walk
       ELSE IF seg = "/" THEN Ends(OutsideCheckout)
       ELSE IF walk.at = Environment THEN IF seg = ".." THEN Ends(OutsideCheckout) ELSE To(Environment)
       ELSE IF walk.at \notin Dirs(linked) THEN Ends(Missing)
       ELSE IF seg = ".." THEN IF walk.at = <<>> THEN Ends(OutsideCheckout) ELSE To(Front(walk.at))
       ELSE IF next \in DOMAIN given THEN [at |-> walk.at, path |-> given[next] \o Tail(walk.path)]
       ELSE IF next \in Dirs(linked) \cup {File} THEN To(next)
       ELSE IF next = <<"m", "e">> THEN To(Environment)
       ELSE Ends(Missing)

Walk(link, linked) ==
    LET walk[n \in Nat] == IF n = 0 THEN [at |-> Front(link), path |-> given[link]]
                           ELSE Goes(walk[n - 1], linked)
    IN walk

\* The place a link leads to. A walk that goes on longer than any that ends is a
\* loop, and does not resolve.
Longest == MaxTarget * (MaxTarget + 1)

LeadsTo(link, linked) ==
    LET end == Walk(link, linked)[Longest]
    IN IF end.path = <<>> THEN end.at ELSE Missing

\* path.join of a link's directory and its target: a path, by its spelling
Spelt(at, seg) ==
    IF at = OutsideCheckout \/ (seg = ".." /\ at = <<>>) \/ seg = "/" THEN OutsideCheckout
    ELSE IF seg = ".." THEN Front(at) ELSE Append(at, seg)

Spelling(link) ==
    LET to[n \in 0 .. Len(given[link])] == IF n = 0 THEN Front(link) ELSE Spelt(to[n - 1], given[link][n])
    IN to

Joined(link) == Spelling(link)[Len(given[link])]

\* fs.realpathSync (external): at a link that resolves, the link's target joined
\* to its directory stands for it, and the walk starts over. No ".." is left in
\* what it walks, and nothing comes back from outside by name.
Reads(walk) ==
    LET next == Append(walk.at, Head(walk.path))
    IN IF walk.path = <<>> \/ next \notin DOMAIN given THEN Goes(walk, FALSE)
       ELSE IF LeadsTo(next, FALSE) = Missing THEN Ends(Missing)
       ELSE IF Joined(next) = OutsideCheckout THEN Ends(OutsideCheckout)
       ELSE [at |-> <<>>, path |-> Joined(next) \o Tail(walk.path)]

Reading(link) ==
    LET read[n \in Nat] == IF n = 0 THEN [at |-> Front(link), path |-> <<Last(link)>>]
                           ELSE Reads(read[n - 1])
    IN read

realpathSync(link) == Reading(link)[Longest]

\* MUTANT: a target is read by its spelling alone
climbsPastName_Never(target) == FALSE

\* A ".." after a name climbs from wherever that name resolves, some day
climbsPastName(target) ==
    \E i, j \in DOMAIN target : i < j /\ target[i] # ".." /\ target[j] = ".."
-----------------------------------------------------------------------------
(* The gate's own reading.                                                  *)

\* refuseEscapingLinks, of one link. A reading that never ends passes nothing
escapes(link) ==
    LET real == realpathSync(link)
    IN IF real.at # Missing THEN real.path # <<>> \/ real.at = OutsideCheckout
       ELSE climbsPastName(given[link]) \/ Joined(link) = OutsideCheckout

Vet(link) ==
    /\ cutCheckout = "cut" /\ link \in DOMAIN given \ vetted /\ (link = L => K \in vetted)
    /\ IF escapes(link) THEN cutCheckout' = "refused" /\ UNCHANGED vetted
       ELSE vetted' = vetted \cup {link} /\ UNCHANGED cutCheckout

\* linkEnvironment
LinkEnvironment ==
    /\ cutCheckout = "cut" /\ vetted = DOMAIN given /\ cutCheckout' = "linked"
    /\ UNCHANGED vetted

\* readBranchTree's linked: what a link lands on and what is under it; anything,
\* when its spelling does not tell
reaches(link, path) ==
    Joined(link) = OutsideCheckout \/ climbsPastName(given[link]) \/ IsPrefix(Joined(link), path)

linked(path) == \E link \in DOMAIN given : reaches(link, path)

LinksNext == LinkEnvironment \/ \E link \in DOMAIN given : Vet(link)
-----------------------------------------------------------------------------
(* Properties.                                                              *)

Linking == subject = "links"

\* A target climbs past a link where a ".." comes after one: what is above the
\* place a link leads to is not what its spelling says.
climbsPastLink(link) ==
    \E i, j \in DOMAIN given[link] :
        i < j /\ given[link][j] = ".." /\ Spelling(link)[i] \in DOMAIN given

\* No committed link reaches outside a checkout the stages run in: what
\* refuseEscapingLinks is for.
NoneReachesOutside ==
    Linking /\ cutCheckout = "linked" => \A link \in DOMAIN given : LeadsTo(link, TRUE) # OutsideCheckout

\* Neither a link nor a chain of them reaches outside, nor climbs out of a package
\* the gate put there after it had vetted them, but where a target climbs past
\* another committed link.
NoLinkEscapes == Linking /\ (\A link \in DOMAIN given : ~climbsPastLink(link)) => NoneReachesOutside

\* A file that a link, or a chain of them, gives a second name is never taken
\* for a test or a document that only its own name can load (diffSizeKind).
LinkedFileIsSource ==
    Linking /\ cutCheckout = "cut" =>
        \A link \in DOMAIN given :
            LET place == LeadsTo(link, FALSE)
            IN place \notin {Missing, OutsideCheckout} /\ IsPrefix(place, File) => linked(File)

\* What the gate decides of a link by its spelling is true of where it leads.
LinksAreWhatTheyReach == NoLinkEscapes /\ LinkedFileIsSource
=============================================================================
