---------------------------- MODULE ReviewProofs ---------------------------
(***************************************************************************)
(* What the parts that a branch goes through keep: what the links of the     *)
(* gate's checkout reach, how its pull request is reviewed, answered and    *)
(* landed, what a call is told of its scope, and what the inbox shows.      *)
(* RulesProofs draws the theorems.                                          *)
(***************************************************************************)
EXTENDS Links, CiReview, Answers, LandMerge, Recheck, Inbox, NaturalsInduction, WellFoundedInduction,
        SequenceTheorems, FiniteSetTheorems, TLAPS

\* A set of numbers with a bound has a greatest one.
LEMMA GreatestExists ==
    ASSUME NEW n \in Nat, NEW S \in SUBSET (1 .. n), S # {}
    PROVE  \E m \in S : \A d \in S : d <= m
<1> DEFINE back == {n - c : c \in S}
<1>1. back \subseteq Nat /\ back # {}
  <2>1. \A c \in S : n - c \in Nat
    OBVIOUS
  <2>2. PICK c \in S : TRUE
    OBVIOUS
  <2>3. n - c \in back
    OBVIOUS
  <2> QED BY <2>1, <2>3
<1>2. PICK x \in back : \A y \in back : ~ <<y, x>> \in OpToRel(<, Nat)
  <2> HIDE DEF back
  <2> QED BY <1>1, NatLessThanWellFounded, WFMin, Zenon
<1>3. \A y \in back : ~ (y < x)
  BY <1>1, <1>2 DEF OpToRel
<1>4. PICK m \in S : x = n - m
  OBVIOUS
<1>5. ASSUME NEW d \in S PROVE d <= m
  <2>1. ~ (n - d < n - m)
    BY <1>3, <1>4
  <2> QED BY <2>1
<1> QED BY <1>5

LEMMA AppendIs ==
    ASSUME NEW S, NEW s \in Seq(S), NEW e \in S
    PROVE  /\ Append(s, e) \in Seq(S) /\ Len(Append(s, e)) = Len(s) + 1
           /\ DOMAIN Append(s, e) = 1 .. Len(s) + 1 /\ DOMAIN s = 1 .. Len(s) /\ Len(s) \in Nat
           /\ Append(s, e)[Len(s) + 1] = e /\ \A i \in 1 .. Len(s) : Append(s, e)[i] = s[i]
  OBVIOUS
-----------------------------------------------------------------------------
(* LandMerge.                                                               *)

\* A landing as the gate, GitHub and the target can have left it: the PR has a
\* commit, what the target had is one of others at most, and GitHub put one there.
GivenOK ==
    /\ Own \in Seq(Of({0, 1})) /\ Len(Own) >= 1
    /\ given.had \in Seq(Of({0, 2})) /\ Len(given.had) <= 1
    /\ given.put \in Seq(FileTree) /\ Len(given.put) >= 1

IsTold(p) == given.overlap[p] = "overlaps" => p \in steered \cup unreached

LandInv ==
    /\ GivenOK /\ tookFrom \in {0, mergedOnto} /\ toSteer \subseteq Peers
    /\ landing = "steer" \/ overlapsTold => event
    /\ landing = "steer" => \A p \in Peers \ toSteer : IsTold(p)
    /\ overlapsTold => landedFiles = {} \/ \A p \in Peers : IsTold(p)

LEMMA LandInvInit == LandMergeInit => LandInv
<1> SUFFICES ASSUME LandMergeInit PROVE LandInv
  OBVIOUS
<1>1. CASE given \in Chain
  <2>1. /\ \E n \in 1 .. MaxOwn : Own \in [1 .. n -> Of({0, 1})]
        /\ \E n \in 1 .. MaxLanded : given.put \in [1 .. n -> FileTree]
        /\ given.had = <<>> \/ \E c \in Of({0, 2}) : given.had = <<c>>
    BY <1>1 DEF Chain, Own
  <2>2. ASSUME NEW n \in Nat \ {0}, NEW S, NEW q \in [1 .. n -> S]
        PROVE  q \in Seq(S) /\ Len(q) >= 1
    OBVIOUS
  <2>3. Own \in Seq(Of({0, 1})) /\ Len(Own) >= 1
    <3>1. PICK n \in 1 .. MaxOwn : Own \in [1 .. n -> Of({0, 1})]
      BY <2>1
    <3>2. n \in Nat \ {0}
      BY LandMergeAssumption
    <3> QED BY <2>2, <3>1, <3>2
  <2>4. given.put \in Seq(FileTree) /\ Len(given.put) >= 1
    <3>1. PICK n \in 1 .. MaxLanded : given.put \in [1 .. n -> FileTree]
      BY <2>1
    <3>2. n \in Nat \ {0}
      BY LandMergeAssumption
    <3> QED BY <2>2, <3>1, <3>2
  <2>5. given.had \in Seq(Of({0, 2})) /\ Len(given.had) <= 1
    <3> DEFINE Trees == Of({0, 2})
    <3>1. given.had = <<>> \/ \E c \in Trees : given.had = <<c>>
      BY <2>1
    <3> HIDE DEF Trees
    <3>2. CASE given.had = <<>>
      BY <3>2 DEF Trees
    <3>3. CASE \E c \in Trees : given.had = <<c>>
      BY <3>3 DEF Trees
    <3> QED BY <3>1, <3>2, <3>3
  <2>6. GivenOK
    BY <2>3, <2>4, <2>5 DEF GivenOK
  <2> QED BY <2>6 DEF LandMergeInit, LandInv
<1>2. CASE \E overlap : given = Squash(overlap)
  <2>1. [f \in Files |-> 1] \in Of({0, 1}) /\ [f \in Files |-> 1] \in FileTree
    BY DEF Of, FileTree, Version
  <2>2. GivenOK
    BY <1>2, <2>1 DEF GivenOK, Squash, Own
  <2> QED BY <2>2 DEF LandMergeInit, LandInv
<1> QED BY <1>1, <1>2 DEF LandMergeInit

\* The commits of the target, and the one it had before GitHub's.
LEMMA TargetIs ==
    ASSUME GivenOK
    PROVE  /\ Target \in Seq(FileTree) /\ Len(Target) = 1 + Len(given.had) + Len(given.put)
           /\ Target[1 + Len(given.had)] = Last(<<Fork>> \o given.had)
           /\ \A i \in 1 .. Len(given.put) : Target[1 + Len(given.had) + i] = given.put[i]
           /\ Target[1] = Fork
           /\ given.had # <<>> => Target[2] = given.had[1] /\ Target[2] \in Of({0, 2})
<1>1. Fork \in FileTree /\ Of({0, 2}) \subseteq FileTree
  BY DEF Fork, FileTree, Of, Version
<1>2. given.had \in Seq(FileTree) /\ given.put \in Seq(FileTree) /\ <<Fork>> \in Seq(FileTree)
  <2>1. given.had \in Seq(FileTree)
    <3> HIDE DEF Of
    <3> QED BY <1>1, SeqMonotonic DEF GivenOK
  <2> QED BY <1>1, <2>1 DEF GivenOK
<1> DEFINE before == <<Fork>> \o given.had
<1>3. before \in Seq(FileTree) /\ Len(before) = 1 + Len(given.had) /\ before[1] = Fork
      /\ (given.had # <<>> => before[2] = given.had[1])
  BY <1>2 DEF GivenOK
<1>4. Target = before \o given.put
  BY DEF Target
<1> DEFINE fork == 1 + Len(given.had)
<1>5. Target \in Seq(FileTree) /\ Len(Target) = fork + Len(given.put)
      /\ (\A i \in 1 .. fork : Target[i] = before[i])
      /\ (\A i \in 1 .. Len(given.put) : Target[fork + i] = given.put[i])
  <2>1. Len(before) = fork /\ before \in Seq(FileTree) /\ given.put \in Seq(FileTree) /\ Target = before \o given.put
    BY <1>2, <1>3, <1>4
  <2> HIDE DEF before, fork
  <2>2. fork \in Nat /\ Len(given.put) \in Nat
    BY <2>1
  <2>3. Target \in Seq(FileTree) /\ Len(Target) = fork + Len(given.put)
    BY <2>1, ConcatProperties, Zenon
  <2>4. \A i \in 1 .. fork : Target[i] = before[i]
    BY <2>1, <2>2
  <2>5. \A i \in 1 .. Len(given.put) : Target[fork + i] = given.put[i]
    BY <2>1, <2>2
  <2> QED BY <2>3, <2>4, <2>5
<1>6. Last(before) = before[fork] /\ fork \in Nat /\ fork >= 1
  BY <1>3 DEF Last, GivenOK
<1>7. Target[1] = Fork /\ Target[fork] = before[fork]
  <2>1. 1 \in 1 .. fork /\ fork \in 1 .. fork
    BY <1>6
  <2> HIDE DEF fork, before
  <2> QED BY <1>3, <1>5, <2>1
<1>8. given.had # <<>> => Target[2] = given.had[1] /\ Target[2] \in Of({0, 2})
  <2> SUFFICES ASSUME given.had # <<>> PROVE Target[2] = given.had[1] /\ Target[2] \in Of({0, 2})
    OBVIOUS
  <2>1. fork = 2 /\ given.had[1] \in Of({0, 2})
    BY DEF GivenOK
  <2> QED BY <1>3, <1>7, <2>1
<1> QED BY <1>5, <1>6, <1>7, <1>8

\* A head that replays onto a commit leaves nothing that neither of the two holds.
LEMMA MergeTreeIs ==
    ASSUME NEW base \in FileTree, NEW ours \in FileTree, NEW made \in FileTree,
           MergeTree(base, ours) = made, NEW f \in Files
    PROVE  made[f] = IF ours[f] = Fork[f] THEN base[f] ELSE ours[f]
<1>1. MergeTree(base, ours) # Conflict
  BY DEF Conflict, FileTree, Version
<1>2. made = [g \in Files |-> IF ours[g] = Fork[g] THEN base[g] ELSE ours[g]]
  BY <1>1 DEF MergeTree
<1> QED BY <1>2

\* The first of the shapes that replays is the one the landing is taken for.
LEMMA MergedOntoIs ==
    ASSUME GivenOK
    PROVE  /\ \A i \in DOMAIN shapes : /\ shapes[i] \in Seq(Of({0, 1})) /\ Len(shapes[i]) >= 1
                                       /\ \A at \in DOMAIN shapes[i] : \E c \in DOMAIN Own : shapes[i][at] = Own[c]
           /\ mergedOnto # 0 => \E i \in DOMAIN shapes :
                  /\ replays(shapes[i]) /\ mergedOnto = Len(Target) - Len(shapes[i])
                  /\ \A j \in DOMAIN shapes : replays(shapes[j]) => i <= j
           /\ (\E i \in DOMAIN shapes : replays(shapes[i])) => mergedOnto # 0
<1>1. Last(Own) = Own[Len(Own)] /\ Len(Own) \in DOMAIN Own /\ Last(Own) \in Of({0, 1})
  BY DEF Last, GivenOK
<1>2. shapes = <<Own, <<Last(Own)>>>> \/ shapes = <<<<Last(Own)>>>>
  BY DEF shapes, Lacked
<1>3. \A i \in DOMAIN shapes : shapes[i] = Own \/ shapes[i] = <<Last(Own)>>
  BY <1>2
<1>4. DOMAIN shapes \in {1 .. 1, 1 .. 2}
  BY <1>2
<1>5. ASSUME NEW i \in DOMAIN shapes
      PROVE  /\ shapes[i] \in Seq(Of({0, 1})) /\ Len(shapes[i]) >= 1
             /\ \A at \in DOMAIN shapes[i] : \E c \in DOMAIN Own : shapes[i][at] = Own[c]
  <2>1. CASE shapes[i] = Own
    BY <2>1 DEF GivenOK
  <2>2. CASE shapes[i] = <<Last(Own)>>
    BY <1>1, <2>2
  <2> QED BY <1>3, <2>1, <2>2
<1> DEFINE fits == {i \in DOMAIN shapes : replays(shapes[i])}
<1>6. mergedOnto = IF fits = {} THEN 0 ELSE Len(Target) - Len(shapes[Min(fits)])
  BY DEF mergedOnto
<1>7. fits # {} => Min(fits) \in fits /\ \A j \in fits : Min(fits) <= j
  <2>1. fits \subseteq 1 .. 2
    BY <1>4
  <2>2. fits # {} => \E i \in fits : \A j \in fits : i <= j
    <3> HIDE DEF fits
    <3>1. CASE 1 \in fits
      BY <2>1, <3>1
    <3>2. CASE 1 \notin fits /\ fits # {}
      <4>1. \A i \in fits : i = 2
        BY <2>1, <3>2
      <4> QED BY <3>2, <4>1
    <3> QED BY <3>1, <3>2
  <2> HIDE DEF fits
  <2> QED BY <2>2 DEF Min
<1>8. ASSUME NEW i \in DOMAIN shapes, replays(shapes[i])
      PROVE  Len(Target) - Len(shapes[i]) # 0
  BY <1>5, <1>8, TargetIs DEF replays
<1> HIDE DEF fits
<1>9. \A i : i \in fits <=> i \in DOMAIN shapes /\ replays(shapes[i])
  BY DEF fits
<1> QED BY <1>5, <1>6, <1>7, <1>8, <1>9

\* A shape that replays leaves, commit by commit, the fork's file or its own.
LEMMA ReplayIs ==
    ASSUME GivenOK, NEW heads \in Seq(Of({0, 1})), Len(heads) >= 1, replays(heads)
    PROVE  /\ Len(heads) \in 1 .. Len(Target) - 1 /\ Len(Target) \in Nat
           /\ \A at \in 1 .. Len(heads), f \in Files :
                 Target[Len(Target) - Len(heads) + at][f] =
                     IF heads[at][f] = Fork[f] THEN Target[Len(Target) - Len(heads)][f] ELSE heads[at][f]
<1>1. Target \in Seq(FileTree)
  BY TargetIs
<1>2. Len(heads) \in 1 .. Len(Target) - 1 /\ Len(Target) \in Nat
  BY <1>1 DEF replays
<1>3. ASSUME NEW at \in 1 .. Len(heads), NEW f \in Files
      PROVE  Target[Len(Target) - Len(heads) + at][f] =
                 IF heads[at][f] = Fork[f] THEN Target[Len(Target) - Len(heads)][f] ELSE heads[at][f]
  <2>1. PICK onto, to : onto = Len(Target) - Len(heads) /\ to = onto + at
    OBVIOUS
  <2>2. onto \in DOMAIN Target /\ to \in DOMAIN Target
    BY <1>1, <1>2, <2>1
  <2>3. Parent(Len(heads)) = Target[onto] /\ Parent(Len(heads) - at) = Target[to]
    <3>1. Len(Target) - (Len(heads) - at) = to
      BY <1>2, <2>1
    <3> QED BY <2>1, <3>1 DEF Parent
  <2>4. MergeTree(Target[onto], heads[at]) = Target[to]
    BY <2>3 DEF replays
  <2>5. Target[onto] \in FileTree /\ Target[to] \in FileTree
    BY <1>1, <2>2
  <2>6. heads[at] \in FileTree
    BY DEF Of, FileTree, Version
  <2>7. Target[to][f] = IF heads[at][f] = Fork[f] THEN Target[onto][f] ELSE heads[at][f]
    BY <2>4, <2>5, <2>6, MergeTreeIs
  <2> QED BY <2>1, <2>7
<1> QED BY <1>2, <1>3

LEMMA LandedSuffices ==
    ASSUME LandOf => LandInv
    PROVE  LandedIsThePin
<1> SUFFICES ASSUME LandOf, tookFrom # 0, NEW i \in tookFrom + 1 .. Len(Target), NEW f \in Files,
                    Target[i][f] # Target[tookFrom][f]
             PROVE  \E c \in DOMAIN Own : Own[c][f] = Target[i][f]
  BY DEF LandedIsThePin
<1>1. GivenOK /\ tookFrom = mergedOnto
  BY DEF LandInv
<1>2. PICK j \in DOMAIN shapes : replays(shapes[j]) /\ tookFrom = Len(Target) - Len(shapes[j])
  BY <1>1, MergedOntoIs
<1>3. PICK heads : heads = shapes[j]
  OBVIOUS
<1>4. /\ heads \in Seq(Of({0, 1})) /\ Len(heads) >= 1 /\ replays(heads)
      /\ \A at \in DOMAIN heads : \E c \in DOMAIN Own : heads[at] = Own[c]
  BY <1>1, <1>2, <1>3, MergedOntoIs
<1>5. PICK n : n = Len(Target)
  OBVIOUS
<1>6. /\ Len(heads) \in 1 .. n - 1 /\ n \in Nat
      /\ \A at \in 1 .. Len(heads) :
            Target[n - Len(heads) + at][f] =
                IF heads[at][f] = Fork[f] THEN Target[n - Len(heads)][f] ELSE heads[at][f]
  BY <1>1, <1>4, <1>5, ReplayIs
<1>7. PICK at : at = i - tookFrom
  OBVIOUS
<1>8. tookFrom = n - Len(heads) /\ at \in 1 .. Len(heads) /\ n - Len(heads) + at = i
  BY <1>2, <1>3, <1>5, <1>6, <1>7
<1>9. Target[i][f] = heads[at][f]
  BY <1>6, <1>8
<1> QED BY <1>4, <1>8, <1>9

\* GitHub's own buttons are never refused, and go onto what the target had.
LEMMA ButtonSuffices ==
    ASSUME LandOf => LandInv
    PROVE  ButtonIsTaken
<1> DEFINE base == Last(<<Fork>> \o given.had)
<1> SUFFICES ASSUME LandOf, given.put \in ByButton(base)
             PROVE  /\ mergedOnto # 0
                    /\ tookFrom # 0 => {f \in Files : base[f] # Parent(0)[f]} \subseteq landedFiles
  BY DEF ButtonIsTaken
<1>1. GivenOK /\ tookFrom \in {0, mergedOnto}
  BY DEF LandInv
<1>2. PICK n, fork, k : n = Len(Target) /\ fork = 1 + Len(given.had) /\ k = Len(Own)
  OBVIOUS
<1>3. /\ fork \in 1 .. 2 /\ k \in Nat /\ k >= 1 /\ n \in Nat /\ n = fork + Len(given.put) /\ Len(given.put) \in Nat
      /\ Target[fork] = base
      /\ \A i \in 1 .. Len(given.put) : Target[fork + i] = given.put[i]
  <2>1. Len(given.had) \in 0 .. 1 /\ Len(given.put) \in Nat /\ Len(Own) \in Nat /\ Len(Own) >= 1
    BY <1>1 DEF GivenOK
  <2>2. /\ Len(Target) = 1 + Len(given.had) + Len(given.put)
        /\ Target[1 + Len(given.had)] = base
        /\ \A i \in 1 .. Len(given.put) : Target[1 + Len(given.had) + i] = given.put[i]
    BY <1>1, TargetIs
  <2>3. /\ Target[fork] = base
        /\ \A i \in 1 .. Len(given.put) : Target[fork + i] = given.put[i]
    BY <1>2, <2>2, Zenon
  <2>4. /\ fork \in 1 .. 2 /\ k \in Nat /\ k >= 1 /\ n \in Nat /\ n = fork + Len(given.put)
        /\ Len(given.put) \in Nat
    <3>1. PICK h, m : h = Len(given.had) /\ m = Len(given.put)
      OBVIOUS
    <3>2. h \in 0 .. 1 /\ m \in Nat /\ fork = 1 + h /\ n = 1 + h + m
      BY <1>2, <2>1, <2>2, <3>1
    <3>3. k \in Nat /\ k >= 1
      BY <1>2, <2>1
    <3>4. fork \in 1 .. 2 /\ n \in Nat /\ n = fork + m
      BY <3>2
    <3> QED BY <2>1, <3>1, <3>3, <3>4, Zenon
  <2> QED BY <2>3, <2>4
<1> HIDE DEF base
<1>4. Last(Own) = Own[k]
  BY <1>2 DEF Last
<1>5. \/ shapes = <<Own, <<Own[k]>>>> /\ k > 1
      \/ shapes = <<<<Own[k]>>>> /\ (k = 1 \/ given.isMerge)
  BY <1>1, <1>2, <1>3, <1>4 DEF shapes, Lacked
<1>6. ASSUME given.put = <<MergeTree(base, Own[k])>>
      PROVE  replays(<<Own[k]>>) /\ n = fork + 1
  <2>1. Len(given.put) = 1 /\ n = fork + 1
    BY <1>3, <1>6
  <2>2. Target[n] = MergeTree(base, Own[k]) /\ Target[n - 1] = base /\ Len(Target) > 1
    <3>1. Target[fork + 1] = given.put[1]
      BY <1>3, <2>1
    <3> QED BY <1>2, <1>3, <1>6, <2>1, <3>1
  <2>3. Parent(1) = base /\ Parent(1 - 1) = MergeTree(base, Own[k])
    <3>1. Len(Target) - 1 = n - 1 /\ Len(Target) - (1 - 1) = n
      BY <1>2, <1>3
    <3> QED BY <2>2, <3>1 DEF Parent
  <2> QED BY <2>1, <2>2, <2>3 DEF replays
<1>7. ASSUME given.put = [i \in DOMAIN Own |-> MergeTree(base, Own[i])]
      PROVE  replays(Own) /\ n = fork + k
  <2>1. DOMAIN Own = 1 .. k
    BY <1>1, <1>2 DEF GivenOK
  <2>2. Len(given.put) = k /\ n = fork + k
    BY <1>1, <1>2, <1>3, <1>7, <2>1 DEF GivenOK
  <2>3. Len(Own) < Len(Target)
    BY <1>2, <1>3, <2>2
  <2>4. ASSUME NEW at \in 1 .. k PROVE MergeTree(Parent(Len(Own)), Own[at]) = Parent(Len(Own) - at)
    <3>1. Len(Target) - Len(Own) = fork /\ Len(Target) - (Len(Own) - at) = fork + at
      BY <1>2, <1>3, <2>2
    <3>2. Parent(Len(Own)) = base /\ Parent(Len(Own) - at) = given.put[at]
      BY <1>3, <2>2, <3>1 DEF Parent
    <3> QED BY <1>7, <2>1, <3>2
  <2> QED BY <2>1, <2>2, <2>3, <2>4 DEF replays
<1>8. CASE given.put = <<MergeTree(base, Own[k])>>
  <2>1. replays(<<Own[k]>>) /\ n = fork + 1
    BY <1>6, <1>8
  <2>2. \E i \in DOMAIN shapes : shapes[i] = <<Own[k]>>
    <3>1. CASE shapes = <<Own, <<Own[k]>>>>
      <4>1. 2 \in DOMAIN shapes /\ shapes[2] = <<Own[k]>>
        BY <3>1
      <4> QED BY <4>1
    <3>2. CASE shapes = <<<<Own[k]>>>>
      <4>1. 1 \in DOMAIN shapes /\ shapes[1] = <<Own[k]>>
        BY <3>2
      <4> QED BY <4>1
    <3> QED BY <1>5, <3>1, <3>2
  <2>3. mergedOnto # 0
    BY <1>1, <2>1, <2>2, MergedOntoIs
  <2>4. PICK i \in DOMAIN shapes : replays(shapes[i]) /\ mergedOnto = n - Len(shapes[i])
    BY <1>1, <1>2, <2>3, MergedOntoIs
  <2>5. CASE shapes[i] = <<Own[k]>>
    <3>1. mergedOnto = fork
      BY <1>3, <2>1, <2>4, <2>5
    <3> QED BY <1>1, <1>3, <2>3, <3>1 DEF landedFiles
  <2>6. CASE shapes[i] = Own
    <3>1. Own \in Seq(Of({0, 1})) /\ Len(Own) >= 1 /\ replays(Own)
      BY <1>1, <2>4, <2>6 DEF GivenOK
    <3>2. k \in 1 .. n - 1 /\ \A at \in 1 .. k, f \in Files :
             Target[n - k + at][f] = IF Own[at][f] = Fork[f] THEN Target[n - k][f] ELSE Own[at][f]
      BY <1>1, <1>2, <3>1, ReplayIs
    <3>3. CASE k = 1
      BY <1>1, <1>2, <1>3, <2>1, <2>3, <2>4, <2>6, <3>3 DEF landedFiles
    <3>4. CASE k = 2 /\ fork = 2
      <4>1. Target[1] = Fork /\ Target[2] \in Of({0, 2})
        <5>1. given.had # <<>>
          BY <1>2, <3>4
        <5> QED BY <1>1, <5>1, TargetIs
      <4>2. ASSUME NEW f \in Files PROVE Target[2][f] = Target[1][f]
        <5>1. Target[2][f] = IF Own[1][f] = Fork[f] THEN Target[1][f] ELSE Own[1][f]
          BY <1>3, <2>1, <3>2, <3>4
        <5>2. Target[1][f] = 0 /\ Target[2][f] \in {0, 2} /\ Own[1][f] \in {0, 1}
          <6>1. Own[1] \in Of({0, 1})
            BY <1>1 DEF GivenOK
          <6>2. Own[1][f] \in {0, 1} /\ Target[2][f] \in {0, 2}
            BY <4>1, <6>1 DEF Of
          <6>3. Fork[f] = 0
            BY DEF Fork
          <6> QED BY <4>1, <6>2, <6>3
        <5> QED BY <5>1, <5>2
      <4>3. mergedOnto = 1
        <5>1. Len(shapes[i]) = 2 /\ n = 3
          BY <1>2, <2>1, <2>6, <3>4
        <5> QED BY <2>4, <5>1
      <4>4. Target[fork] = base
        BY <1>3
      <4> QED BY <1>1, <2>3, <3>4, <4>2, <4>3, <4>4 DEF landedFiles
    <3>5. k = 1 \/ (k = 2 /\ fork = 2)
      BY <1>3, <2>1, <3>2
    <3> QED BY <3>3, <3>4, <3>5
  <2>7. shapes[i] = <<Own[k]>> \/ shapes[i] = Own
    BY <1>5
  <2> QED BY <2>5, <2>6, <2>7
<1>9. CASE given.put = [i \in DOMAIN Own |-> MergeTree(base, Own[i])] /\ ~given.isMerge
  <2>1. replays(Own) /\ n = fork + k
    BY <1>7, <1>9
  <2>2. CASE k = 1
    <3>1. DOMAIN Own = 1 .. 1
      <4>1. DOMAIN Own = 1 .. Len(Own)
        BY <1>1 DEF GivenOK
      <4> QED BY <1>2, <2>2, <4>1
    <3>2. given.put = <<MergeTree(base, Own[k])>>
      BY <1>9, <2>2, <3>1
    <3> QED BY <1>8, <3>2
  <2>3. CASE k # 1
    <3>1. shapes = <<Own, <<Own[k]>>>>
      BY <1>5, <1>9, <2>3
    <3>2. 1 \in DOMAIN shapes /\ shapes[1] = Own /\ DOMAIN shapes = 1 .. 2
      BY <3>1
    <3>3. mergedOnto # 0
      BY <1>1, <2>1, <3>2, MergedOntoIs
    <3>4. PICK i \in DOMAIN shapes : mergedOnto = n - Len(shapes[i]) /\ i <= 1
      BY <1>1, <1>2, <2>1, <3>2, <3>3, MergedOntoIs
    <3>5. mergedOnto = fork
      <4>1. i = 1
        BY <3>2, <3>4
      <4>2. Len(shapes[i]) = k
        BY <1>2, <3>2, <4>1
      <4> QED BY <1>3, <2>1, <3>4, <4>2
    <3> QED BY <1>1, <1>3, <3>3, <3>5 DEF landedFiles
  <2> QED BY <2>2, <2>3
<1>10. given.put \in ByButton(base)
  OBVIOUS
<1> QED BY <1>4, <1>8, <1>9, <1>10 DEF ByButton

\* What a landing is given stays, and so what it is taken for.
LEMMA GivenStays ==
    ASSUME given' = given
    PROVE  GivenOK' = GivenOK /\ mergedOnto' = mergedOnto /\ Target' = Target
  BY DEF GivenOK, mergedOnto, shapes, replays, Target, Own, Lacked, MergeTree, Parent

\* No step of a landing, of a kill of it or of who commits beside it breaks this.
LEMMA LandKeeps ==
    ASSUME LandInv, LandMergeNext, given' = given
    PROVE  LandInv' /\ (branchAt = "past" => branchAt' = "past")
<1>1. GivenOK' = GivenOK /\ mergedOnto' = mergedOnto /\ Target' = Target
  BY GivenStays
<1>2. CASE TakeLanding
  <2>1. ~event /\ event' = event /\ landing = "idle" /\ landing' \in {"idle", "locked"} /\ overlapsTold' = overlapsTold
        /\ tookFrom' \in {tookFrom, mergedOnto} /\ toSteer' = toSteer /\ branchAt' = branchAt
    BY <1>2 DEF TakeLanding
  <2> QED BY <1>1, <2>1 DEF LandInv
<1>3. CASE RemoveWorktree \/ DeleteBranch \/ CommitPast
  <2>1. /\ landing' \in {"branch", "event", landing}
        /\ UNCHANGED <<event, tookFrom, toSteer, steered, unreached, overlapsTold>>
        /\ branchAt = "past" => branchAt' = "past"
    BY <1>3 DEF RemoveWorktree, DeleteBranch, CommitPast, isHeld
  <2>2. landedFiles' = landedFiles
    BY <1>1, <2>1 DEF landedFiles, Parent
  <2> QED BY <1>1, <2>1, <2>2 DEF LandInv, IsTold
<1>4. CASE AppendLanded
  <2>1. /\ event' = TRUE /\ landing' = "steer" /\ toSteer' = Peers
        /\ UNCHANGED <<branchAt, tookFrom, steered, unreached, overlapsTold>>
    BY <1>4 DEF AppendLanded
  <2>2. landedFiles' = landedFiles
    BY <1>1, <2>1 DEF landedFiles, Parent
  <2> QED BY <1>1, <2>1, <2>2 DEF LandInv, IsTold
<1>5. CASE LandKilled
  <2>1. /\ landing' = "idle" /\ toSteer' = {}
        /\ UNCHANGED <<branchAt, event, tookFrom, steered, unreached, overlapsTold>>
    BY <1>5 DEF LandKilled
  <2>2. landedFiles' = landedFiles
    BY <1>1, <2>1 DEF landedFiles, Parent
  <2> QED BY <1>1, <2>1, <2>2 DEF LandInv, IsTold
<1>6. CASE Steer
  <2>1. landing = "steer" /\ UNCHANGED <<branchAt, event, tookFrom>> /\ event
    BY <1>6 DEF Steer, LandInv
  <2>2. landedFiles' = landedFiles
    BY <1>1, <2>1 DEF landedFiles, Parent
  <2>3. CASE (toSteer = {} \/ landedFiles = {}) /\ landing' = "idle" /\ UNCHANGED <<toSteer, steered, unreached>>
    BY <1>1, <2>1, <2>2, <2>3 DEF LandInv, IsTold
  <2>4. CASE \E p \in toSteer, fails \in BOOLEAN :
                /\ fails => given.overlap[p] # "apart"
                /\ given.overlap[p] = "unreadable" => fails
                /\ toSteer' = afterPeer(p, fails)
                /\ steered' = IF ~fails /\ given.overlap[p] = "overlaps" THEN steered \cup {p}
                              ELSE steered
                /\ unreached' = IF fails THEN unreached \cup {p} ELSE unreached
                /\ UNCHANGED <<landing, overlapsTold>>
    <3>1. PICK p \in toSteer : /\ toSteer' = toSteer \ {p} /\ UNCHANGED <<landing, overlapsTold>>
                               /\ steered \subseteq steered' /\ unreached \subseteq unreached'
                               /\ given.overlap[p] = "overlaps" => p \in steered' \cup unreached'
      BY <2>4 DEF afterPeer
    <3>2. \A q : IsTold(q) => IsTold(q)'
      BY <3>1 DEF IsTold
    <3>3. IsTold(p)'
      BY <3>1 DEF IsTold
    <3> QED BY <1>1, <2>1, <2>2, <3>1, <3>2, <3>3 DEF LandInv
  <2> QED BY <1>6, <2>3, <2>4 DEF Steer
<1> QED BY <1>2, <1>3, <1>4, <1>5, <1>6 DEF LandMergeNext

LEMMA MergedOntoTyped == ASSUME GivenOK PROVE mergedOnto \in Nat
<1>1. CASE mergedOnto = 0
  BY <1>1
<1>2. CASE mergedOnto # 0
  <2>1. PICK i \in DOMAIN shapes : replays(shapes[i]) /\ mergedOnto = Len(Target) - Len(shapes[i])
    BY <1>2, MergedOntoIs
  <2>2. shapes[i] \in Seq(Of({0, 1})) /\ Len(shapes[i]) >= 1
    BY MergedOntoIs
  <2>3. Len(shapes[i]) \in 1 .. Len(Target) - 1 /\ Len(Target) \in Nat
    BY <2>1, <2>2, ReplayIs
  <2> QED BY <2>1, <2>3
<1> QED BY <1>1, <1>2

LEMMA LandMergeTyped == ASSUME LandMergeInit PROVE LandMergeTypeOK
<1>1. worktree \in {"there", "locked", "gone"} /\ branchAt \in {"pin", "inside", "gone"}
  BY DEF LandMergeInit
<1>2. 0 \in 0 .. MaxCalls
  BY LandMergeAssumption
<1> QED BY <1>1, <1>2 DEF LandMergeInit, LandMergeTypeOK

LEMMA LandMergeTypeKept ==
    ASSUME LandInv, LandMergeTypeOK, LandMergeNext
    PROVE  LandMergeTypeOK'
<1>1. tookFrom' \in Nat
  <2>1. mergedOnto \in Nat /\ tookFrom \in Nat
    BY MergedOntoTyped DEF LandInv, LandMergeTypeOK
  <2>2. tookFrom' \in {tookFrom, mergedOnto}
    BY DEF LandMergeNext, TakeLanding, RemoveWorktree, DeleteBranch, AppendLanded, Steer, LandKilled, CommitPast
  <2> QED BY <2>1, <2>2
<1>2. calls' \in 0 .. MaxCalls
  BY LandMergeAssumption DEF LandMergeTypeOK, LandMergeNext, TakeLanding, RemoveWorktree, DeleteBranch, AppendLanded,
         Steer, LandKilled, CommitPast
<1>3. /\ landing' \in {"idle", "locked", "branch", "event", "steer"} /\ worktree' \in {"there", "locked", "gone"}
      /\ branchAt' \in {"pin", "past", "inside", "gone"} /\ event' \in BOOLEAN
  BY DEF LandMergeTypeOK, LandMergeNext, TakeLanding, RemoveWorktree, DeleteBranch, AppendLanded, Steer, LandKilled,
         CommitPast
<1>4. /\ toSteer' \subseteq Peers /\ steered' \subseteq Peers /\ unreached' \subseteq Peers /\ overlapsTold' \in BOOLEAN
  BY DEF LandMergeTypeOK, LandMergeNext, TakeLanding, RemoveWorktree, DeleteBranch, AppendLanded, Steer, afterPeer,
         LandKilled, CommitPast
<1> QED BY <1>1, <1>2, <1>3, <1>4 DEF LandMergeTypeOK
-----------------------------------------------------------------------------
(* CiReview.                                                                *)

Begun == {"review", "post", "each", "body", "status", "record"}

\* The commits of a PR: each was made on an older one, or on none.
CommitsOK ==
    /\ commits \in Seq([parent : Nat, kind : {"code", "prose"}])
    /\ \A c \in DOMAIN commits : commits[c].parent < c
    /\ pull \in [head : Nat, pin : Nat] /\ pull.head \in DOMAIN commits
    /\ prior \in 0 .. Len(commits)

ReviewRun ==
    [place : Begun, trigger : Trigger, waited : BOOLEAN, sha : Nat, partial : BOOLEAN,
     reads : SUBSET Nat, verdict : BOOLEAN, found : BOOLEAN, anchored : SUBSET Finding,
     isPosted : BOOLEAN]
StartingRun == [place : {"start"}, trigger : Trigger, waited : BOOLEAN]

CiRunOK ==
    /\ ciRun \in {IdleRun} \cup StartingRun \cup ReviewRun
    /\ pendingRun \in Trigger \cup {"none"}
    /\ ciRun.place \in Begun => ciRun.sha \in 0 .. Len(commits)
    /\ reviews \in Seq([on : Nat, body : BOOLEAN, threads : SUBSET Finding])
    /\ unsaid \in BOOLEAN /\ posted \in BOOLEAN

\* What was read: up to the newest record, by a run under way, and of a clean head.
ReadOK ==
    /\ ~unsaid => Ancestors(prior) \subseteq read
    /\ ciRun.place \in Begun /\ ciRun.sha # 0 =>
          Ancestors(ciRun.sha) \subseteq ciRun.reads \cup Ancestors(prior)
    /\ ciRun.place = "record" /\ ciRun.verdict =>
          IF ciRun.isPosted THEN ciRun.partial \/ ciRun.reads \subseteq read ELSE unsaid
    /\ headStatus.word = "clean" /\ ~unsaid => Ancestors(pull.head) \subseteq read

\* What the status of the head says, and whether a comment asks for another.
StatusOK ==
    /\ headStatus.state = "SUCCESS" => posted
    /\ ciRun.place = "status" /\ ciRun.isPosted /\ ciRun.sha = pull.head => posted
    /\ ciRun.place \notin {"idle", "record"} /\ ciRun.trigger # "push" /\ ~ciRun.waited =>
          headStatus = NoStatus \/ asked

\* What was anchored is among the threads pup reads, one call at a time or at once.
ShownOK ==
    /\ shown \subseteq openThreads
    /\ ciRun.place \in {"review", "post"} => ~ciRun.isPosted
    /\ ciRun.place \in {"each", "body"} /\ ciRun.isPosted =>
          reviews # <<>> /\ ~Last(reviews).body /\ Last(reviews).on = ciRun.sha

ReviewInv == CommitsOK /\ CiRunOK /\ ReadOK /\ StatusOK /\ ShownOK

\* No commit is before the first, and a new one leaves the past of the others.
LEMMA NoneBefore == Ancestors(0) = {}
<1>1. HoldsParents({})
  BY DEF HoldsParents
<1> QED BY <1>1 DEF Ancestors

LEMMA PastStays ==
    ASSUME CommitsOK, NEW new \in [parent : Nat, kind : {"code", "prose"}], new.parent <= Len(commits),
           commits' = Append(commits, new), NEW c \in 0 .. Len(commits)
    PROVE  Ancestors(c)' = Ancestors(c)
<1>1. PICK n : n = Len(commits)
  OBVIOUS
<1>2. /\ n \in Nat /\ DOMAIN commits = 1 .. n /\ DOMAIN commits' = 1 .. n + 1
      /\ \A d \in 1 .. n : commits'[d] = commits[d]
      /\ \A d \in 1 .. n : commits[d].parent \in Nat /\ commits[d].parent < d
  <2>1. commits \in Seq([parent : Nat, kind : {"code", "prose"}])
    BY DEF CommitsOK
  <2>2. n \in Nat /\ DOMAIN commits = 1 .. n
    BY <1>1, <2>1
  <2>3. DOMAIN commits' = 1 .. n + 1 /\ \A d \in 1 .. n : commits'[d] = commits[d]
    BY <1>1, <2>1
  <2>4. ASSUME NEW d \in 1 .. n PROVE commits[d].parent \in Nat /\ commits[d].parent < d
    <3>1. commits[d] \in [parent : Nat, kind : {"code", "prose"}]
      BY <1>1, <2>1, ElementOfSeq
    <3> QED BY <2>2, <3>1 DEF CommitsOK
  <2> QED BY <2>2, <2>3, <2>4
<1>3. ASSUME NEW past \in SUBSET (1 .. n)
      PROVE  HoldsParents(past)' <=> HoldsParents(past)
  BY <1>2 DEF HoldsParents
<1>4. ASSUME NEW past \in SUBSET (1 .. n + 1), HoldsParents(past)'
      PROVE  HoldsParents(past \cap (1 .. n))
  BY <1>2, <1>4 DEF HoldsParents
<1>5. HoldsParents(1 .. n)
  BY <1>2 DEF HoldsParents
<1>6. Ancestors(c) =
         {a \in 1 .. n : \A past \in SUBSET (1 .. n) : HoldsParents(past) /\ c \in past \cup {0} => a \in past}
  BY <1>2 DEF Ancestors
<1>7. Ancestors(c)' =
         {a \in 1 .. n + 1 : \A past \in SUBSET (1 .. n + 1) :
             HoldsParents(past)' /\ c \in past \cup {0} => a \in past}
  BY <1>2 DEF Ancestors
<1>8. ASSUME NEW a \in Ancestors(c)' PROVE a \in Ancestors(c)
  <2>1. \A past \in SUBSET (1 .. n) : HoldsParents(past) /\ c \in past \cup {0} => a \in past
    BY <1>2, <1>3, <1>7
  <2>2. a \in 1 .. n
    BY <1>1, <1>2, <1>5, <2>1
  <2> QED BY <1>6, <2>1, <2>2
<1>9. ASSUME NEW a \in Ancestors(c) PROVE a \in Ancestors(c)'
  <2>1. a \in 1 .. n /\ a \in 1 .. n + 1
    BY <1>2, <1>6
  <2>2. ASSUME NEW past \in SUBSET (1 .. n + 1), HoldsParents(past)', c \in past \cup {0}
        PROVE  a \in past
    <3>1. c \in (past \cap (1 .. n)) \cup {0}
      BY <1>1, <1>2, <2>2
    <3> QED BY <1>4, <1>6, <2>2, <3>1
  <2> QED BY <1>7, <2>1, <2>2
<1> QED BY <1>8, <1>9

\* The pasts of the newest record, of the head and of what a run reviews, while
\* no commit comes.
LEMMA PastsAre ==
    ASSUME commits' = commits, NEW p, NEW h, NEW c, p = prior', h = pull'.head, c = ciRun'.sha
    PROVE  /\ Ancestors(prior)' = Ancestors(p)
           /\ Ancestors(pull.head)' = Ancestors(h)
           /\ Ancestors(ciRun.sha)' = Ancestors(c)
  BY DEF Ancestors, HoldsParents

\* A run past its preflight has all that one has.
LEMMA RunIsBegun ==
    ASSUME CiRunOK, ciRun.place \in Begun
    PROVE  ciRun \in ReviewRun
  BY DEF CiRunOK, Begun, IdleRun, StartingRun

\* What comes after a run that ends has waited, and is at its start.
LEMMA EndedRun ==
    ASSUME CiRunOK, RunEnded
    PROVE  /\ ciRun' \in {IdleRun} \cup StartingRun /\ pendingRun' \in Trigger \cup {"none"}
           /\ ciRun'.place \in {"idle", "start"}
           /\ ciRun'.place = "start" => ciRun'.waited
  BY DEF CiRunOK, RunEnded, IdleRun, StartingRun

\* A review that is posted is read with those without a body before it.
LEMMA PostedIsRead ==
    ASSUME NEW on \in Nat, NEW body \in BOOLEAN, NEW threads \in SUBSET Finding,
           reviews \in Seq([on : Nat, body : BOOLEAN, threads : SUBSET Finding]),
           Reviewed(on, body, threads)
    PROVE  /\ reviews' \in Seq([on : Nat, body : BOOLEAN, threads : SUBSET Finding])
           /\ reviews' # <<>> /\ Last(reviews') = [on |-> on, body |-> body, threads |-> threads]
           /\ threads \subseteq openThreads'
           /\ reviews # <<>> /\ ~Last(reviews).body /\ Last(reviews).on = on => openThreads \subseteq openThreads'
<1> DEFINE R == [on : Nat, body : BOOLEAN, threads : SUBSET Finding]
           new == [on |-> on, body |-> body, threads |-> threads]
           kept == IF reviews # <<>> /\ Last(reviews).body THEN <<>> ELSE reviews
<1>1. new \in R /\ kept \in Seq(R) /\ reviews' = Append(kept, new)
  BY DEF Reviewed
<1>2. PICK n \in Nat : n = Len(kept)
  BY <1>1
<1>3. /\ reviews' \in Seq(R) /\ Len(reviews') = n + 1 /\ reviews'[n + 1] = new
      /\ DOMAIN reviews' = 1 .. n + 1 /\ \A i \in 1 .. n : reviews'[i] = kept[i]
  <2> HIDE DEF new, kept, R
  <2> QED BY <1>1, <1>2
<1>4. reviews' # <<>> /\ Last(reviews') = new
  BY <1>3 DEF Last
<1>5. n + 1 \in newestReviewRun'
  BY <1>2, <1>3 DEF newestReviewRun
<1>6. threads \subseteq openThreads'
  <2>1. reviews'[n + 1].threads = threads
    BY <1>3
  <2> HIDE DEF new, kept, R
  <2> QED BY <1>5, <2>1 DEF openThreads
<1>7. ASSUME reviews # <<>>, ~Last(reviews).body, Last(reviews).on = on
      PROVE  openThreads \subseteq openThreads'
  <2>1. kept = reviews /\ n = Len(reviews) /\ n > 0 /\ ~reviews[n].body /\ reviews[n].on = on
        /\ DOMAIN reviews = 1 .. n
    BY <1>2, <1>7 DEF Last
  <2>2. \A i \in 1 .. n : reviews'[i] = reviews[i]
    BY <1>3, <2>1
  <2>3. \A i \in newestReviewRun : i \in newestReviewRun' /\ i \in 1 .. n
    <3> TAKE i \in newestReviewRun
    <3>1. i \in 1 .. n
      BY <2>1 DEF newestReviewRun
    <3>2. \A j \in i .. n : ~reviews[j].body /\ reviews[j].on = on
      BY <2>1 DEF newestReviewRun
    <3>3. \A j \in i .. n + 1 : j = n + 1 \/ (~reviews'[j].body /\ reviews'[j].on = on)
      BY <2>2, <3>1, <3>2
    <3>4. reviews'[n + 1].on = on
      BY <1>3
    <3> HIDE DEF new, kept, R
    <3> QED BY <1>3, <3>1, <3>3, <3>4 DEF newestReviewRun
  <2> HIDE DEF new, kept, R
  <2> QED BY <2>2, <2>3 DEF openThreads
<1> QED BY <1>3, <1>4, <1>6, <1>7

LEMMA ReviewInvInit == CiReviewInit => ReviewInv
<1> SUFFICES ASSUME CiReviewInit PROVE ReviewInv
  OBVIOUS
<1>1. CommitsOK
  BY DEF CiReviewInit, CommitsOK
<1>2. CiRunOK
  <2>1. ciRun \in StartingRun /\ ciRun.place \notin Begun
    BY DEF CiReviewInit, StartingRun, Trigger, Begun
  <2>2. reviews \in Seq([on : Nat, body : BOOLEAN, threads : SUBSET Finding])
    BY DEF CiReviewInit
  <2> QED BY <2>1, <2>2 DEF CiReviewInit, CiRunOK
<1>3. ReadOK
  BY NoneBefore DEF CiReviewInit, ReadOK, Begun, NoStatus
<1>4. StatusOK
  BY DEF CiReviewInit, StatusOK, NoStatus
<1>5. ShownOK
  BY DEF CiReviewInit, ShownOK
<1> QED BY <1>1, <1>2, <1>3, <1>4, <1>5 DEF ReviewInv

\* A run ends: it is recorded, refused or lost.
LEMMA EndKeeps ==
    ASSUME ReviewInv, RunEnded, UNCHANGED <<prVars, reviews, posted, read, shown, unsaid>>,
           NEW p \in 0 .. Len(commits), prior' = p, ~unsaid => Ancestors(p) \subseteq read,
           UNCHANGED <<headStatus, asked>> \/ (headStatus'.state = "PENDING" /\ headStatus'.word = "comment-only")
    PROVE  ReviewInv'
<1>1. /\ ciRun' \in {IdleRun} \cup StartingRun /\ pendingRun' \in Trigger \cup {"none"}
      /\ ciRun'.place \in {"idle", "start"} /\ (ciRun'.place = "start" => ciRun'.waited)
  BY EndedRun DEF ReviewInv
<1>2. CommitsOK'
  BY DEF ReviewInv, CommitsOK, prVars
<1>3. CiRunOK'
  BY <1>1 DEF ReviewInv, CiRunOK, Begun
<1>4. ReadOK'
  <2>1. PICK h, c : h = pull'.head /\ c = ciRun'.sha
    OBVIOUS
  <2>2. Ancestors(prior)' = Ancestors(p) /\ Ancestors(pull.head)' = Ancestors(h) /\ h = pull.head
    BY <2>1, PastsAre DEF prVars
  <2> QED BY <1>1, <2>2 DEF ReviewInv, ReadOK, Begun
<1>5. StatusOK'
  BY <1>1 DEF ReviewInv, StatusOK
<1>6. ShownOK'
  BY <1>1 DEF ReviewInv, ShownOK, openThreads, newestReviewRun
<1> QED BY <1>2, <1>3, <1>4, <1>5, <1>6 DEF ReviewInv

LEMMA PushKeeps == ReviewInv /\ Push => ReviewInv'
<1> SUFFICES ASSUME ReviewInv, Push PROVE ReviewInv'
  OBVIOUS
<1>1. PICK n : n = Len(commits)
  OBVIOUS
<1>2. commits \in Seq([parent : Nat, kind : {"code", "prose"}]) /\ n \in Nat /\ DOMAIN commits = 1 .. n
  BY <1>1 DEF ReviewInv, CommitsOK
<1>3. PICK new \in [parent : Nat, kind : {"code", "prose"}] : new.parent <= n /\ commits' = Append(commits, new)
  <2>1. PICK kind \in {"code", "prose"}, parent \in {pull.head, commits[pull.head].parent} :
           commits' = Append(commits, [parent |-> parent, kind |-> kind])
    BY DEF Push
  <2>2. pull.head \in 1 .. n /\ commits[pull.head] \in [parent : Nat, kind : {"code", "prose"}]
        /\ commits[pull.head].parent < pull.head
    BY <1>1, <1>2, ElementOfSeq DEF ReviewInv, CommitsOK
  <2>3. parent \in Nat /\ parent <= n
    BY <1>2, <2>2
  <2> QED BY <2>1, <2>3
<1>4. commits' \in Seq([parent : Nat, kind : {"code", "prose"}]) /\ Len(commits') = n + 1
      /\ DOMAIN commits' = 1 .. n + 1 /\ commits'[n + 1] = new /\ \A d \in 1 .. n : commits'[d] = commits[d]
  BY <1>1, <1>2, <1>3
<1>5. pull' \in [head : Nat, pin : Nat] /\ pull'.head = n + 1
  <2>1. PICK pin \in {pull.pin, n + 1} : pull' = [head |-> n + 1, pin |-> pin]
    BY <1>4 DEF Push
  <2>2. pull.pin \in Nat
    BY DEF ReviewInv, CommitsOK
  <2> QED BY <1>2, <2>1, <2>2
<1>6. /\ UNCHANGED <<reviews, prior, read, shown, unsaid>> /\ headStatus' = NoStatus /\ asked' = FALSE
      /\ posted' = FALSE /\ Triggered("push")
  BY DEF Push
<1>7. \/ ciRun' \in StartingRun /\ ciRun'.trigger = "push" /\ pendingRun' = pendingRun
      \/ ciRun' = ciRun /\ pendingRun' = "push"
  <2>1. PICK first : first = [place |-> "start", trigger |-> "push", waited |-> FALSE]
    OBVIOUS
  <2>2. first \in StartingRun /\ first.trigger = "push"
    BY <2>1 DEF StartingRun, Trigger
  <2>3. (ciRun' = first /\ pendingRun' = pendingRun) \/ (ciRun' = ciRun /\ pendingRun' = "push")
    BY <1>6, <2>1 DEF Triggered
  <2> QED BY <2>2, <2>3
<1>8. CommitsOK'
  <2>1. prior' \in 0 .. n + 1
    BY <1>1, <1>2, <1>6 DEF ReviewInv, CommitsOK
  <2>2. \A c \in 1 .. n + 1 : commits'[c].parent < c
    <3> TAKE c \in 1 .. n + 1
    <3>1. CASE c = n + 1
      BY <1>2, <1>3, <1>4, <3>1
    <3>2. CASE c \in 1 .. n
      BY <1>2, <1>4, <3>2 DEF ReviewInv, CommitsOK
    <3> QED BY <1>2, <3>1, <3>2
  <2> QED BY <1>2, <1>4, <1>5, <2>1, <2>2 DEF CommitsOK
<1>9. CiRunOK'
  <2>1. ciRun'.place \in Begun => ciRun' = ciRun
    BY <1>7 DEF StartingRun, Begun
  <2>2. ciRun.place \in Begun => ciRun.sha \in 0 .. n
    BY <1>1 DEF ReviewInv, CiRunOK
  <2>3. ciRun'.place \in Begun => ciRun'.sha \in 0 .. n + 1
    BY <1>2, <2>1, <2>2
  <2>4. ciRun' \in {IdleRun} \cup StartingRun \cup ReviewRun /\ pendingRun' \in Trigger \cup {"none"}
    BY <1>7 DEF ReviewInv, CiRunOK, Trigger
  <2> QED BY <1>4, <1>6, <2>3, <2>4 DEF ReviewInv, CiRunOK
<1>10. ReadOK'
  <2>1. PICK p : p = prior
    OBVIOUS
  <2>2. Ancestors(prior)' = Ancestors(p)
    <3>1. Ancestors(prior)' = Ancestors(p)'
      BY <1>6, <2>1 DEF Ancestors
    <3>2. p \in 0 .. Len(commits)
      BY <2>1 DEF ReviewInv, CommitsOK
    <3> QED BY <1>1, <1>3, <3>1, <3>2, PastStays DEF ReviewInv
  <2>3. CASE ciRun'.place \notin Begun
    BY <1>6, <2>1, <2>2, <2>3 DEF ReviewInv, ReadOK, NoStatus, Begun
  <2>4. CASE ciRun' = ciRun /\ ciRun.place \in Begun
    <3>1. PICK c : c = ciRun.sha
      OBVIOUS
    <3>2. Ancestors(ciRun.sha)' = Ancestors(c)
      <4>1. Ancestors(ciRun.sha)' = Ancestors(c)'
        BY <2>4, <3>1 DEF Ancestors
      <4>2. c \in 0 .. Len(commits)
        BY <2>4, <3>1 DEF ReviewInv, CiRunOK
      <4> QED BY <1>1, <1>3, <4>1, <4>2, PastStays DEF ReviewInv
    <3> QED BY <1>6, <2>1, <2>2, <2>4, <3>1, <3>2 DEF ReviewInv, ReadOK, NoStatus
  <2> QED BY <1>7, <2>3, <2>4 DEF StartingRun, Begun
<1>11. StatusOK'
  <2>1. ciRun'.place = "status" => ciRun'.sha # n + 1
    <3>1. ciRun'.place = "status" => ciRun' = ciRun
      BY <1>7 DEF StartingRun
    <3>2. ciRun.place = "status" => ciRun.sha \in 0 .. n
      BY <1>1 DEF ReviewInv, CiRunOK, Begun
    <3> QED BY <1>2, <3>1, <3>2
  <2> QED BY <1>5, <1>6, <2>1 DEF StatusOK, NoStatus
<1>12. ShownOK'
  BY <1>6, <1>7 DEF ReviewInv, ShownOK, openThreads, newestReviewRun, StartingRun
<1> QED BY <1>8, <1>9, <1>10, <1>11, <1>12 DEF ReviewInv

\* A comment asks again: of the run that starts, or of the one that waits.
LEMMA CommentKeeps == ReviewInv /\ Comment => ReviewInv'
<1> SUFFICES ASSUME ReviewInv, Comment PROVE ReviewInv'
  OBVIOUS
<1>1. /\ UNCHANGED <<prVars, reviews, headStatus, prior, posted, read, shown, unsaid>>
      /\ asked' = (headStatus # NoStatus)
  BY DEF Comment
<1>2. PICK trigger \in {"comment", "full", "partial"} : Triggered(trigger)
  BY DEF Comment
<1>3. [place |-> "start", trigger |-> trigger, waited |-> FALSE] \in StartingRun /\ trigger \in Trigger
  BY DEF StartingRun, Trigger
<1>4. \/ ciRun' \in StartingRun /\ pendingRun' = pendingRun
      \/ ciRun' = ciRun /\ pendingRun' \in Trigger
  BY <1>2, <1>3 DEF Triggered
<1>5. CommitsOK'
  BY <1>1 DEF ReviewInv, CommitsOK, prVars
<1>6. CiRunOK'
  <2>1. ciRun'.place \in Begun => ciRun' = ciRun
    BY <1>4 DEF StartingRun, Begun
  <2> QED BY <1>1, <1>4, <2>1 DEF ReviewInv, CiRunOK, prVars
<1>7. ReadOK'
  <2>1. PICK p, h, c : p = prior' /\ h = pull'.head /\ c = ciRun'.sha
    OBVIOUS
  <2>2. /\ Ancestors(prior)' = Ancestors(p) /\ Ancestors(pull.head)' = Ancestors(h)
        /\ Ancestors(ciRun.sha)' = Ancestors(c) /\ p = prior /\ h = pull.head
    BY <1>1, <2>1, PastsAre DEF prVars
  <2>3. CASE ciRun' \in StartingRun
    BY <1>1, <2>2, <2>3 DEF ReviewInv, ReadOK, StartingRun, Begun
  <2>4. CASE ciRun' = ciRun
    BY <1>1, <2>1, <2>2, <2>4 DEF ReviewInv, ReadOK
  <2> QED BY <1>4, <2>3, <2>4
<1>8. StatusOK'
  BY <1>1, <1>4 DEF ReviewInv, StatusOK, StartingRun, prVars
<1>9. ShownOK'
  BY <1>1, <1>4 DEF ReviewInv, ShownOK, openThreads, newestReviewRun, StartingRun
<1> QED BY <1>5, <1>6, <1>7, <1>8, <1>9 DEF ReviewInv

\* The preflight reads anew, reads on from the newest record, or ends the run.
LEMMA PreflightKeeps == ReviewInv /\ Preflight => ReviewInv'
<1> SUFFICES ASSUME ReviewInv, Preflight PROVE ReviewInv'
  OBVIOUS
<1>1. UNCHANGED <<prVars, reviews, prior, posted, read, shown, unsaid>> /\ ciRun.place = "start"
  BY DEF Preflight
<1>2. PICK p : p = prior
  OBVIOUS
<1>3. p \in 0 .. Len(commits) /\ prior' = p /\ (~unsaid => Ancestors(p) \subseteq read)
  BY <1>1, <1>2 DEF ReviewInv, CommitsOK, ReadOK
<1>4. CASE RunEnded /\ (UNCHANGED <<headStatus, asked>> \/ markNotReviewed)
  <2>1. \/ UNCHANGED <<headStatus, asked>>
        \/ headStatus'.state = "PENDING" /\ headStatus'.word = "comment-only"
    BY <1>4 DEF markNotReviewed, setCommitStatus
  <2> QED BY <1>1, <1>3, <1>4, <2>1, EndKeeps
<1>5. CASE /\ \E reads \in {Ancestors(pull.head), Delta} : ciRun' = Run("review", pull.head, reads)
           /\ UNCHANGED <<pendingRun, headStatus, asked>>
  <2>1. PICK h : h = pull.head
    OBVIOUS
  <2>2. h \in Nat /\ h \in 0 .. Len(commits) /\ DOMAIN commits \subseteq Nat
    BY <2>1 DEF ReviewInv, CommitsOK
  <2>3. PICK reads : /\ reads \in {Ancestors(h), Ancestors(h) \ Ancestors(p)}
                     /\ ciRun' = Run("review", h, reads)
    BY <1>2, <1>5, <2>1 DEF Delta
  <2>4. reads \in SUBSET Nat
    BY <2>2, <2>3 DEF Ancestors
  <2>5. ciRun \in StartingRun
    BY <1>1 DEF ReviewInv, CiRunOK, IdleRun, ReviewRun, Begun
  <2>6. /\ ciRun' \in ReviewRun /\ ciRun'.place = "review" /\ ciRun'.sha = h /\ ciRun'.reads = reads
        /\ ciRun'.trigger = ciRun.trigger /\ ciRun'.waited = ciRun.waited /\ ciRun'.isPosted = FALSE
    BY <2>2, <2>3, <2>4, <2>5 DEF Run, ReviewRun, StartingRun, Begun
  <2>7. CommitsOK'
    BY <1>1 DEF ReviewInv, CommitsOK, prVars
  <2>8. CiRunOK'
    BY <1>1, <1>5, <2>2, <2>6 DEF ReviewInv, CiRunOK, prVars
  <2>9. ReadOK'
    <3>1. Ancestors(prior)' = Ancestors(p) /\ Ancestors(pull.head)' = Ancestors(h) /\ Ancestors(ciRun.sha)' = Ancestors(h)
      BY <1>1, <1>3, <2>1, <2>6, PastsAre DEF prVars
    <3>2. Ancestors(h) \subseteq reads \cup Ancestors(p)
      BY <2>3
    <3> QED BY <1>1, <1>2, <1>3, <1>5, <2>1, <2>6, <3>1, <3>2 DEF ReviewInv, ReadOK
  <2>10. StatusOK'
    BY <1>1, <1>5, <2>6 DEF ReviewInv, StatusOK, prVars
  <2>11. ShownOK'
    BY <1>1, <2>6 DEF ReviewInv, ShownOK, openThreads, newestReviewRun
  <2> QED BY <2>7, <2>8, <2>9, <2>10, <2>11 DEF ReviewInv
<1> QED BY <1>4, <1>5 DEF Preflight

\* A run goes on to its review, its posts or its status, and keeps what it reads.
LEMMA RunGoesOn ==
    ASSUME ReviewInv, NEW new \in ReviewRun, ciRun' = new,
           ciRun.place \in {"review", "post", "each", "body"}, new.place \in {"post", "each", "body", "status"},
           new.sha = ciRun.sha, new.reads = ciRun.reads, new.trigger = ciRun.trigger, new.waited = ciRun.waited,
           UNCHANGED <<prVars, headStatus, asked, pendingRun, prior, read, unsaid>>,
           posted' = posted \/ posted' = (posted \/ ciRun.sha = pull.head),
           reviews' \in Seq([on : Nat, body : BOOLEAN, threads : SUBSET Finding]),
           new.place = "status" /\ new.isPosted /\ new.sha = pull.head => posted',
           ShownOK'
    PROVE  ReviewInv'
<1>1. CommitsOK'
  BY DEF ReviewInv, CommitsOK, prVars
<1>2. CiRunOK'
  <2>1. posted' \in BOOLEAN /\ unsaid' \in BOOLEAN /\ pendingRun' \in Trigger \cup {"none"}
    BY DEF ReviewInv, CiRunOK
  <2>2. ciRun.sha \in 0 .. Len(commits)
    BY DEF ReviewInv, CiRunOK, Begun
  <2> QED BY <2>1, <2>2 DEF CiRunOK, prVars
<1>3. ReadOK'
  <2>1. PICK p, h, c : p = prior' /\ h = pull'.head /\ c = ciRun'.sha
    OBVIOUS
  <2>2. /\ Ancestors(prior)' = Ancestors(p) /\ Ancestors(pull.head)' = Ancestors(h)
        /\ Ancestors(ciRun.sha)' = Ancestors(c) /\ p = prior /\ h = pull.head /\ c = ciRun.sha
    BY <2>1, PastsAre DEF prVars
  <2> QED BY <2>1, <2>2 DEF ReviewInv, ReadOK, Begun
<1>4. StatusOK'
  BY DEF ReviewInv, StatusOK, prVars
<1> QED BY <1>1, <1>2, <1>3, <1>4 DEF ReviewInv

LEMMA PreflightFailsKeeps == ReviewInv /\ PreflightFails => ReviewInv'
<1> SUFFICES ASSUME ReviewInv, PreflightFails PROVE ReviewInv'
  OBVIOUS
<1>1. /\ UNCHANGED <<prVars, githubVars, pendingRun, prior, posted, read, shown, unsaid>>
      /\ ciRun.place = "start" /\ ciRun' = Run("post", 0, {})
  BY DEF PreflightFails
<1>2. ciRun \in StartingRun
  BY <1>1 DEF ReviewInv, CiRunOK, IdleRun, ReviewRun, Begun
<1>3. /\ ciRun' \in ReviewRun /\ ciRun'.place = "post" /\ ciRun'.sha = 0 /\ ciRun'.isPosted = FALSE
      /\ ciRun'.trigger = ciRun.trigger /\ ciRun'.waited = ciRun.waited
  BY <1>1, <1>2 DEF Run, ReviewRun, StartingRun, Begun
<1>4. CommitsOK'
  BY <1>1 DEF ReviewInv, CommitsOK, prVars
<1>5. CiRunOK'
  <2>1. 0 \in 0 .. Len(commits)
    BY DEF ReviewInv, CommitsOK
  <2> QED BY <1>1, <1>3, <2>1 DEF ReviewInv, CiRunOK, prVars, githubVars
<1>6. ReadOK'
  <2>1. PICK p, h, c : p = prior' /\ h = pull'.head /\ c = ciRun'.sha
    OBVIOUS
  <2>2. /\ Ancestors(prior)' = Ancestors(p) /\ Ancestors(pull.head)' = Ancestors(h)
        /\ p = prior /\ h = pull.head
    BY <1>1, <2>1, PastsAre DEF prVars
  <2> QED BY <1>1, <1>3, <2>2 DEF ReviewInv, ReadOK, githubVars
<1>7. StatusOK'
  BY <1>1, <1>3 DEF ReviewInv, StatusOK, prVars, githubVars
<1>8. ShownOK'
  BY <1>1, <1>3 DEF ReviewInv, ShownOK, openThreads, newestReviewRun, githubVars
<1> QED BY <1>4, <1>5, <1>6, <1>7, <1>8 DEF ReviewInv

LEMMA ReviewKeeps == ReviewInv /\ Review => ReviewInv'
<1> SUFFICES ASSUME ReviewInv, Review PROVE ReviewInv'
  OBVIOUS
<1>1. /\ UNCHANGED <<prVars, githubVars, pendingRun, prior, posted, read, shown, unsaid>>
      /\ ciRun.place = "review"
  BY DEF Review
<1>2. ciRun \in ReviewRun /\ ciRun.isPosted = FALSE
  BY <1>1, RunIsBegun DEF ReviewInv, Begun, ShownOK, ReviewRun
<1>3. PICK verdict \in BOOLEAN, found \in BOOLEAN, n \in 0 .. MaxFindings :
         ciRun' = [ciRun EXCEPT !.place = "post", !.verdict = verdict, !.found = found, !.anchored = 1 .. n]
  BY DEF Review
<1> DEFINE new == [ciRun EXCEPT !.place = "post", !.verdict = verdict, !.found = found, !.anchored = 1 .. n]
<1>4. /\ new \in ReviewRun /\ new.place = "post" /\ new.sha = ciRun.sha /\ new.reads = ciRun.reads
      /\ new.trigger = ciRun.trigger /\ new.waited = ciRun.waited /\ new.isPosted = FALSE
  <2>1. 1 .. n \in SUBSET Finding
    BY CiReviewAssumption DEF Finding
  <2> QED BY <1>2, <2>1 DEF ReviewRun, Begun
<1>5. ShownOK'
  BY <1>1, <1>3, <1>4 DEF ReviewInv, ShownOK, openThreads, newestReviewRun, githubVars
<1>6. reviews' \in Seq([on : Nat, body : BOOLEAN, threads : SUBSET Finding])
  BY <1>1 DEF ReviewInv, CiRunOK, githubVars
<1> HIDE DEF new
<1>7. ciRun' = new
  BY <1>3 DEF new
<1> QED BY <1>1, <1>4, <1>5, <1>6, <1>7, RunGoesOn DEF githubVars

LEMMA PostReviewKeeps == ReviewInv /\ PostReview => ReviewInv'
<1> SUFFICES ASSUME ReviewInv, PostReview PROVE ReviewInv'
  OBVIOUS
<1>1. /\ UNCHANGED <<prVars, headStatus, asked, pendingRun, prior, read, unsaid>> /\ ciRun.place = "post"
      /\ shown' = ciRun.anchored /\ posted' = (posted \/ ciRun.sha = pull.head)
      /\ ciRun' = [ciRun EXCEPT !.place = "status", !.isPosted = TRUE]
      /\ Reviewed(pull.head, TRUE, ciRun.anchored)
  BY DEF PostReview
<1>2. ciRun \in ReviewRun
  BY <1>1, RunIsBegun DEF ReviewInv, Begun
<1> DEFINE new == [ciRun EXCEPT !.place = "status", !.isPosted = TRUE]
<1>3. /\ new \in ReviewRun /\ new.place = "status" /\ new.sha = ciRun.sha /\ new.reads = ciRun.reads
      /\ new.trigger = ciRun.trigger /\ new.waited = ciRun.waited /\ new.isPosted = TRUE
  BY <1>2 DEF ReviewRun, Begun
<1>4. PICK h, threads : h = pull.head /\ threads = ciRun.anchored
  OBVIOUS
<1>5. h \in Nat /\ threads \in SUBSET Finding
  BY <1>2, <1>4 DEF ReviewInv, CommitsOK, ReviewRun
<1>6. reviews' \in Seq([on : Nat, body : BOOLEAN, threads : SUBSET Finding]) /\ threads \subseteq openThreads'
  <2>1. Reviewed(h, TRUE, threads)
    BY <1>1, <1>4
  <2> QED BY <1>5, <2>1, PostedIsRead DEF ReviewInv, CiRunOK
<1> HIDE DEF new
<1>7. ciRun' = new
  BY <1>1 DEF new
<1>8. ShownOK'
  BY <1>1, <1>3, <1>4, <1>6, <1>7 DEF ShownOK
<1> QED BY <1>1, <1>3, <1>6, <1>7, <1>8, RunGoesOn

LEMMA PostFailsKeeps == ReviewInv /\ PostFails => ReviewInv'
<1> SUFFICES ASSUME ReviewInv, PostFails PROVE ReviewInv'
  OBVIOUS
<1>1. /\ UNCHANGED <<prVars, githubVars, pendingRun, prior, posted, read, shown, unsaid>> /\ ciRun.place = "post"
      /\ ciRun' = [ciRun EXCEPT !.place = "each"]
  BY DEF PostFails
<1>2. ciRun \in ReviewRun /\ ciRun.isPosted = FALSE
  BY <1>1, RunIsBegun DEF ReviewInv, Begun, ShownOK, ReviewRun
<1> DEFINE new == [ciRun EXCEPT !.place = "each"]
<1>3. /\ new \in ReviewRun /\ new.place = "each" /\ new.sha = ciRun.sha /\ new.reads = ciRun.reads
      /\ new.trigger = ciRun.trigger /\ new.waited = ciRun.waited /\ new.isPosted = FALSE
  BY <1>2 DEF ReviewRun, Begun
<1>4. reviews' \in Seq([on : Nat, body : BOOLEAN, threads : SUBSET Finding])
  BY <1>1 DEF ReviewInv, CiRunOK, githubVars
<1> HIDE DEF new
<1>5. ciRun' = new
  BY <1>1 DEF new
<1>6. ShownOK'
  BY <1>1, <1>3, <1>5 DEF ReviewInv, ShownOK, openThreads, newestReviewRun, githubVars
<1> QED BY <1>1, <1>3, <1>4, <1>5, <1>6, RunGoesOn DEF githubVars

\* Comments are accepted one at a time, each on the reviewed head: the last of them
\* is read with those before it.
LEMMA PostEachKeeps == ReviewInv /\ PostEach => ReviewInv'
<1> SUFFICES ASSUME ReviewInv, PostEach PROVE ReviewInv'
  OBVIOUS
<1>1. UNCHANGED <<prVars, headStatus, asked, pendingRun, prior, posted, read, unsaid>> /\ ciRun.place = "each"
  BY DEF PostEach
<1>2. ciRun \in ReviewRun
  BY <1>1, RunIsBegun DEF ReviewInv, Begun
<1>3. reviews \in Seq([on : Nat, body : BOOLEAN, threads : SUBSET Finding])
  BY DEF ReviewInv, CiRunOK
<1>4. CASE ciRun' = [ciRun EXCEPT !.place = "body"] /\ UNCHANGED <<reviews, shown>>
  <2> DEFINE new == [ciRun EXCEPT !.place = "body"]
  <2>1. /\ new \in ReviewRun /\ new.place = "body" /\ new.sha = ciRun.sha /\ new.reads = ciRun.reads
        /\ new.trigger = ciRun.trigger /\ new.waited = ciRun.waited /\ new.isPosted = ciRun.isPosted
    BY <1>2 DEF ReviewRun, Begun
  <2>2. ciRun' = new
    BY <1>4
  <2> HIDE DEF new
  <2>3. ShownOK'
    BY <1>1, <1>4, <2>1, <2>2 DEF ReviewInv, ShownOK, openThreads, newestReviewRun
  <2> QED BY <1>1, <1>3, <1>4, <2>1, <2>2, <2>3, RunGoesOn
<1>5. CASE /\ ciRun.anchored # {}
           /\ Reviewed(ciRun.sha, FALSE, {Min(ciRun.anchored)})
           /\ ciRun' = [ciRun EXCEPT !.anchored = @ \ {Min(@)}, !.isPosted = TRUE]
           /\ shown' = (IF ciRun.isPosted THEN shown ELSE {}) \cup {Min(ciRun.anchored)}
  <2>1. PICK c, rest, least : c = ciRun.sha /\ rest = ciRun.anchored /\ least = Min(ciRun.anchored)
    OBVIOUS
  <2>2. rest \in SUBSET Finding /\ rest # {} /\ c \in Nat
    BY <1>2, <1>5, <2>1 DEF ReviewRun
  <2>3. least \in Finding
    <3>1. rest \subseteq Nat
      BY <2>2 DEF Finding
    <3>2. PICK m \in rest : \A y \in rest : m <= y
      <4>1. PICK m \in rest : \A y \in rest : ~ <<y, m>> \in OpToRel(<, Nat)
        BY <2>2, <3>1, NatLessThanWellFounded, WFMin, Zenon
      <4>2. \A y \in rest : ~ (y < m)
        BY <3>1, <4>1 DEF OpToRel
      <4> QED BY <3>1, <4>2
    <3>3. least \in rest
      BY <2>1, <3>2 DEF Min
    <3> QED BY <2>2, <3>3
  <2> DEFINE new == [ciRun EXCEPT !.anchored = rest \ {least}, !.isPosted = TRUE]
  <2>4. /\ new \in ReviewRun /\ new.place = "each" /\ new.sha = ciRun.sha /\ new.reads = ciRun.reads
        /\ new.trigger = ciRun.trigger /\ new.waited = ciRun.waited /\ new.isPosted = TRUE
    BY <1>1, <1>2, <2>2 DEF ReviewRun, Begun
  <2>5. ciRun' = new
    BY <1>2, <1>5, <2>1 DEF ReviewRun
  <2> HIDE DEF new
  <2>6. /\ reviews' \in Seq([on : Nat, body : BOOLEAN, threads : SUBSET Finding])
        /\ reviews' # <<>> /\ Last(reviews') = [on |-> c, body |-> FALSE, threads |-> {least}]
        /\ {least} \subseteq openThreads'
        /\ reviews # <<>> /\ ~Last(reviews).body /\ Last(reviews).on = c => openThreads \subseteq openThreads'
    <3>1. Reviewed(c, FALSE, {least})
      BY <1>5, <2>1
    <3> QED BY <1>3, <2>2, <2>3, <3>1, PostedIsRead
  <2>7. ShownOK'
    <3>1. shown' = (IF ciRun.isPosted THEN shown ELSE {}) \cup {least}
      BY <1>5, <2>1
    <3>2. shown \subseteq openThreads
          /\ (ciRun.isPosted => reviews # <<>> /\ ~Last(reviews).body /\ Last(reviews).on = c)
      BY <1>1, <2>1 DEF ReviewInv, ShownOK
    <3>3. shown' \subseteq openThreads'
      BY <2>6, <3>1, <3>2
    <3>4. ciRun'.place = "each" /\ ciRun'.sha = c /\ ~Last(reviews').body /\ Last(reviews').on = c
      BY <2>1, <2>4, <2>5, <2>6
    <3> QED BY <2>6, <3>3, <3>4 DEF ShownOK
  <2> QED BY <1>1, <2>4, <2>5, <2>6, <2>7, RunGoesOn
<1> QED BY <1>4, <1>5 DEF PostEach

LEMMA PostBodyKeeps == ReviewInv /\ PostBody => ReviewInv'
<1> SUFFICES ASSUME ReviewInv, PostBody PROVE ReviewInv'
  OBVIOUS
<1>1. UNCHANGED <<prVars, headStatus, asked, pendingRun, prior, read, unsaid>> /\ ciRun.place = "body"
  BY DEF PostBody
<1>2. PICK fails \in BOOLEAN :
         /\ IF fails THEN UNCHANGED <<reviews, shown, posted>>
            ELSE /\ posted' = (posted \/ ciRun.sha = pull.head)
                 /\ Reviewed(pull.head, TRUE, {})
                 /\ shown' = IF ciRun.isPosted /\ pull.head = ciRun.sha THEN shown ELSE {}
         /\ ciRun' = [ciRun EXCEPT !.place = "status", !.isPosted = ~fails]
  BY DEF PostBody
<1>3. ciRun \in ReviewRun
  BY <1>1, RunIsBegun DEF ReviewInv, Begun
<1> DEFINE new == [ciRun EXCEPT !.place = "status", !.isPosted = ~fails]
<1>4. /\ new \in ReviewRun /\ new.place = "status" /\ new.sha = ciRun.sha /\ new.reads = ciRun.reads
      /\ new.trigger = ciRun.trigger /\ new.waited = ciRun.waited /\ new.isPosted = ~fails
  BY <1>3 DEF ReviewRun, Begun
<1>5. ciRun' = new
  BY <1>2
<1> HIDE DEF new
<1>6. /\ reviews' \in Seq([on : Nat, body : BOOLEAN, threads : SUBSET Finding])
      /\ shown' \subseteq openThreads'
  <2>1. CASE fails
    BY <1>2, <2>1 DEF ReviewInv, CiRunOK, ShownOK, openThreads, newestReviewRun
  <2>2. CASE ~fails
    <3>1. PICK h : h = pull.head
      OBVIOUS
    <3>2. h \in Nat /\ Reviewed(h, TRUE, {})
      BY <1>2, <2>2, <3>1 DEF ReviewInv, CommitsOK
    <3>3. /\ reviews' \in Seq([on : Nat, body : BOOLEAN, threads : SUBSET Finding])
          /\ reviews # <<>> /\ ~Last(reviews).body /\ Last(reviews).on = h => openThreads \subseteq openThreads'
      BY <3>2, PostedIsRead DEF ReviewInv, CiRunOK
    <3>4. shown' = IF ciRun.isPosted /\ h = ciRun.sha THEN shown ELSE {}
      BY <1>2, <2>2, <3>1
    <3> QED BY <1>1, <3>3, <3>4 DEF ReviewInv, ShownOK
  <2> QED BY <2>1, <2>2
<1>7. ShownOK'
  BY <1>4, <1>5, <1>6 DEF ShownOK
<1>8. /\ posted' = posted \/ posted' = (posted \/ ciRun.sha = pull.head)
      /\ new.isPosted /\ new.sha = pull.head => posted'
  BY <1>2, <1>4
<1> QED BY <1>1, <1>4, <1>5, <1>6, <1>7, <1>8, RunGoesOn

\* A status that is clean follows a review that was posted and read what it was to.
LEMMA SetStatusKeeps == ReviewInv /\ SetStatus => ReviewInv'
<1> SUFFICES ASSUME ReviewInv, SetStatus PROVE ReviewInv'
  OBVIOUS
<1>1. /\ UNCHANGED <<prVars, reviews, pendingRun, prior, posted, shown>> /\ ciRun.place = "status"
      /\ read' = read \cup (IF ciRun.verdict /\ ciRun.isPosted /\ ~ciRun.partial THEN ciRun.reads ELSE {})
      /\ unsaid' = (unsaid \/ (ciRun.verdict /\ ~ciRun.isPosted))
      /\ ciRun' = [ciRun EXCEPT !.place = "record"]
  BY DEF SetStatus
<1>2. ciRun \in ReviewRun
  BY <1>1, RunIsBegun DEF ReviewInv, Begun
<1>3. /\ ciRun' \in ReviewRun /\ ciRun'.place = "record" /\ ciRun'.sha = ciRun.sha /\ ciRun'.reads = ciRun.reads
      /\ ciRun'.verdict = ciRun.verdict /\ ciRun'.isPosted = ciRun.isPosted /\ ciRun'.partial = ciRun.partial
  BY <1>1, <1>2 DEF ReviewRun, Begun
<1>4. \/ headStatus' = headStatus
      \/ ciRun.sha # 0 /\ ciRun.sha = pull.head /\ headStatus' = Outcome
  BY DEF SetStatus, setCommitStatus
<1>5. /\ Outcome.state = "SUCCESS" => ciRun.isPosted
      /\ Outcome.word = "clean" => ciRun.verdict /\ ciRun.isPosted /\ ~ciRun.partial
  BY DEF Outcome, failed
<1>6. CommitsOK'
  BY <1>1 DEF ReviewInv, CommitsOK, prVars
<1>7. CiRunOK'
  <2>1. unsaid' \in BOOLEAN
    BY <1>1, <1>2 DEF ReviewInv, CiRunOK, ReviewRun
  <2>2. ciRun.sha \in 0 .. Len(commits)
    BY <1>1 DEF ReviewInv, CiRunOK, Begun
  <2> QED BY <1>1, <1>3, <2>1, <2>2 DEF ReviewInv, CiRunOK, prVars
<1>8. ReadOK'
  <2>1. PICK p, h, c : p = prior' /\ h = pull'.head /\ c = ciRun'.sha
    OBVIOUS
  <2>2. /\ Ancestors(prior)' = Ancestors(p) /\ Ancestors(pull.head)' = Ancestors(h)
        /\ Ancestors(ciRun.sha)' = Ancestors(c) /\ p = prior /\ h = pull.head /\ c = ciRun.sha
    BY <1>1, <1>3, <2>1, PastsAre DEF prVars
  <2>3. /\ ~unsaid => Ancestors(p) \subseteq read
        /\ c # 0 => Ancestors(c) \subseteq ciRun.reads \cup Ancestors(p)
        /\ headStatus.word = "clean" /\ ~unsaid => Ancestors(h) \subseteq read
    BY <1>1, <2>2 DEF ReviewInv, ReadOK, Begun
  <2>4. ~unsaid' => Ancestors(p) \subseteq read'
    BY <1>1, <2>3
  <2>5. ciRun.verdict => IF ciRun.isPosted THEN ciRun.partial \/ ciRun.reads \subseteq read' ELSE unsaid'
    BY <1>1
  <2>6. headStatus'.word = "clean" /\ ~unsaid' => Ancestors(h) \subseteq read'
    <3>1. CASE headStatus' = headStatus
      BY <1>1, <2>3, <3>1
    <3>2. CASE c # 0 /\ c = h /\ headStatus' = Outcome
      BY <1>1, <1>5, <2>3, <3>2
    <3> QED BY <1>4, <2>2, <3>1, <3>2
  <2> QED BY <1>3, <2>1, <2>2, <2>3, <2>4, <2>5, <2>6 DEF ReadOK
<1>9. StatusOK'
  BY <1>1, <1>3, <1>4, <1>5 DEF ReviewInv, StatusOK
<1>10. ShownOK'
  BY <1>1, <1>3 DEF ReviewInv, ShownOK, openThreads, newestReviewRun
<1> QED BY <1>6, <1>7, <1>8, <1>9, <1>10 DEF ReviewInv

LEMMA RecordKeeps == ReviewInv /\ Record => ReviewInv'
<1> SUFFICES ASSUME ReviewInv, Record PROVE ReviewInv'
  OBVIOUS
<1>1. /\ UNCHANGED <<prVars, reviews, headStatus, asked, posted, read, shown, unsaid>>
      /\ ciRun.place = "record" /\ prior' \in priorRecords /\ RunEnded
  BY DEF Record, githubVars
<1>2. PICK p : p = prior'
  OBVIOUS
<1>3. p \in 0 .. Len(commits) /\ (~unsaid => Ancestors(p) \subseteq read)
  <2>1. PICK was, c : was = prior /\ c = ciRun.sha
    OBVIOUS
  <2>2. was \in 0 .. Len(commits) /\ (~unsaid => Ancestors(was) \subseteq read)
    BY <2>1 DEF ReviewInv, CommitsOK, ReadOK
  <2>3. CASE p = was
    BY <2>2, <2>3
  <2>4. CASE p = c /\ complete
    <3>1. c \in 0 .. Len(commits) /\ c # 0 /\ Ancestors(c) \subseteq ciRun.reads \cup Ancestors(was)
      BY <1>1, <2>1, <2>4 DEF ReviewInv, CiRunOK, ReadOK, Begun, complete
    <3>2. ~unsaid => ciRun.reads \subseteq read
      BY <1>1, <2>4 DEF ReviewInv, ReadOK, complete
    <3> QED BY <2>2, <2>4, <3>1, <3>2
  <2> QED BY <1>1, <1>2, <2>1, <2>3, <2>4 DEF priorRecords
<1> QED BY <1>1, <1>2, <1>3, EndKeeps

\* A run that is lost leaves what was said.
LEMMA RunLostKeeps == ReviewInv /\ RunLost => ReviewInv'
<1> SUFFICES ASSUME ReviewInv, RunLost PROVE ReviewInv'
  OBVIOUS
<1>1. UNCHANGED <<prVars, reviews, headStatus, asked, prior, posted, read, shown, unsaid>> /\ RunEnded
  BY DEF RunLost, githubVars
<1>2. PICK p : p = prior
  OBVIOUS
<1>3. p \in 0 .. Len(commits) /\ prior' = p /\ (~unsaid => Ancestors(p) \subseteq read)
  BY <1>1, <1>2 DEF ReviewInv, CommitsOK, ReadOK
<1> QED BY <1>1, <1>3, EndKeeps

\* A finding that is edited is none the less one that was shown.
LEMMA EditFindingKeeps == ReviewInv /\ EditFinding => ReviewInv'
<1> SUFFICES ASSUME ReviewInv, EditFinding PROVE ReviewInv'
  OBVIOUS
<1>1. UNCHANGED <<prVars, reviews, headStatus, asked, ciVars>>
  BY DEF EditFinding
<1>2. UNCHANGED <<pull, commits, ciRun, pendingRun, prior, posted, read, shown, unsaid>>
  BY <1>1 DEF prVars, ciVars
<1>3. PICK p, h, c : p = prior /\ h = pull.head /\ c = ciRun.sha
  OBVIOUS
<1>4. /\ Ancestors(prior)' = Ancestors(p) /\ Ancestors(pull.head)' = Ancestors(h)
      /\ Ancestors(ciRun.sha)' = Ancestors(c)
  BY <1>2, <1>3, PastsAre
<1>5. CommitsOK' /\ CiRunOK' /\ StatusOK'
  BY <1>1, <1>2 DEF ReviewInv, CommitsOK, CiRunOK, StatusOK
<1>6. ReadOK'
  BY <1>1, <1>2, <1>3, <1>4 DEF ReviewInv, ReadOK
<1>7. ShownOK'
  BY <1>1, <1>2 DEF ReviewInv, ShownOK, openThreads, newestReviewRun
<1> QED BY <1>5, <1>6, <1>7 DEF ReviewInv

LEMMA ReviewSuffices == ASSUME Reviewing => ReviewInv PROVE WaitIsTrue
<1> SUFFICES ASSUME Reviewing, ReviewInv PROVE WaitIsTrue
  BY DEF WaitIsTrue, ReadyIsRead, StatusHasItsReview, AnswerIsTheLastWord, NamedStepIsTaken,
         RoundGetsTheWholeRun
<1>1. ReadyIsRead
  BY DEF ReadyIsRead, ReviewInv, ReadOK, reviewDigest
<1>2. StatusHasItsReview
  BY DEF StatusHasItsReview, ReviewInv, StatusOK
<1>3. AnswerIsTheLastWord
  <2>1. headStatus = NoStatus \/ asked => reviewDigest \in {"re-gate", "waits"}
    BY DEF reviewDigest, isRereviewAsked, NoStatus
  <2> QED BY <2>1 DEF AnswerIsTheLastWord, ReviewInv, StatusOK
<1>4. 0 \notin openThreads
  <2>1. \A i \in DOMAIN reviews : reviews[i].threads \subseteq Finding
    <3> TAKE i \in DOMAIN reviews
    <3>1. reviews \in Seq([on : Nat, body : BOOLEAN, threads : SUBSET Finding])
      BY DEF ReviewInv, CiRunOK
    <3>2. i \in 1 .. Len(reviews)
      BY <3>1
    <3>3. reviews[i] \in [on : Nat, body : BOOLEAN, threads : SUBSET Finding]
      BY <3>1, <3>2, ElementOfSeq
    <3> QED BY <3>3
  <2>2. 0 \notin Finding
    BY DEF Finding
  <2> QED BY <2>1, <2>2 DEF openThreads, newestReviewRun
<1>5. reviewDigest = "fix" => /\ openThreads # {}
                             /\ reviewVerdict = IF isTrusted THEN openThreads ELSE {0}
  BY DEF reviewDigest, reviewVerdict
<1>6. reviewDigest \in {"ready", "read the PR"} => openThreads = {}
  BY DEF reviewDigest
<1>7. reviewDigest = "ready" => reviewVerdict = openThreads
  BY <1>6 DEF reviewDigest, reviewVerdict, isTrusted
<1>8. NamedStepIsTaken
  <2>1. reviewVerdict = {0} \/ reviewVerdict \cap untrusted = {}
    BY DEF reviewVerdict, isTrusted
  <2>2. openThreads # {0}
    BY <1>4
  <2> QED BY <1>5, <1>6, <1>7, <2>1, <2>2 DEF NamedStepIsTaken
<1>9. RoundGetsTheWholeRun
  BY <1>5, <1>6 DEF RoundGetsTheWholeRun, ReviewInv, ShownOK
<1> QED BY <1>1, <1>2, <1>3, <1>8, <1>9 DEF WaitIsTrue

\* A review in the bounds: what a run read and anchored is of a head it knows.
CiBounded ==
    /\ Len(commits) <= MaxPushes /\ pull.pin \in DOMAIN commits
    /\ \A i \in DOMAIN reviews : reviews[i].on \in Commit
    /\ ciRun.place \in Begun =>
          /\ ciRun.reads \subseteq DOMAIN commits
          /\ ciRun.place = "review" \/ ciRun.anchored # {} => ciRun.sha # 0
    /\ headStatus \in [state : {"none", "PENDING", "SUCCESS", "FAILURE"}, word : StatusWord \cup {"none"}]
    /\ asked \in BOOLEAN /\ read \subseteq Commit /\ untrusted \subseteq Finding
    /\ mishaps \in 0 .. MaxMishaps /\ comments \in 0 .. MaxComments

LEMMA SeqOfElements ==
    ASSUME NEW S, NEW T, NEW s \in Seq(S), \A i \in 1 .. Len(s) : s[i] \in T
    PROVE  s \in Seq(T)
  OBVIOUS

LEMMA CommitsAreBounded ==
    ASSUME CommitsOK, CiBounded
    PROVE  /\ Len(commits) \in Nat /\ DOMAIN commits = 1 .. Len(commits) /\ DOMAIN commits \subseteq Commit
           /\ \A c \in DOMAIN commits : commits[c].parent \in 0 .. MaxPushes /\ commits[c].kind \in {"code", "prose"}
<1>1. commits \in Seq([parent : Nat, kind : {"code", "prose"}])
  BY DEF CommitsOK
<1>2. Len(commits) \in Nat /\ DOMAIN commits = 1 .. Len(commits)
  BY <1>1
<1>3. DOMAIN commits \subseteq Commit
  BY <1>2, CiReviewAssumption DEF CiBounded, Commit
<1>4. ASSUME NEW c \in DOMAIN commits PROVE commits[c].parent \in 0 .. MaxPushes /\ commits[c].kind \in {"code", "prose"}
  <2>1. commits[c] \in [parent : Nat, kind : {"code", "prose"}]
    BY <1>1, <1>2, ElementOfSeq
  <2>2. c \in 1 .. MaxPushes
    BY <1>3 DEF Commit
  <2>3. commits[c].parent < c
    BY DEF CommitsOK
  <2> QED BY <2>1, <2>2, <2>3, CiReviewAssumption
<1> QED BY <1>2, <1>3, <1>4

LEMMA CiReviewTypedBy == ASSUME ReviewInv, CiBounded PROVE CiReviewTypeOK
<1>1. Len(commits) \in Nat /\ DOMAIN commits = 1 .. Len(commits) /\ DOMAIN commits \subseteq Commit
  BY CommitsAreBounded DEF ReviewInv
<1>2. {pull.head, pull.pin} \subseteq DOMAIN commits /\ prior \in 0 .. MaxPushes
  <2>1. pull.head \in DOMAIN commits /\ prior \in 0 .. Len(commits) /\ Len(commits) <= MaxPushes
    BY DEF ReviewInv, CommitsOK, CiBounded
  <2> QED BY <1>1, <2>1, CiReviewAssumption DEF CiBounded
<1>3. commits \in Seq([parent : 0 .. MaxPushes, kind : {"code", "prose"}])
  <2>1. ASSUME NEW c \in 1 .. Len(commits) PROVE commits[c] \in [parent : 0 .. MaxPushes, kind : {"code", "prose"}]
    <3>1. commits[c] \in [parent : Nat, kind : {"code", "prose"}]
      <4>1. commits \in Seq([parent : Nat, kind : {"code", "prose"}])
        BY DEF ReviewInv, CommitsOK
      <4> QED BY <1>1, <4>1, ElementOfSeq
    <3>2. commits[c].parent \in 0 .. MaxPushes
      BY <1>1, CommitsAreBounded DEF ReviewInv
    <3> QED BY <3>1, <3>2
  <2>2. commits \in Seq([parent : Nat, kind : {"code", "prose"}])
    BY DEF ReviewInv, CommitsOK
  <2> QED BY <2>1, <2>2, SeqOfElements
<1>4. reviews \in Seq([on : Commit, body : BOOLEAN, threads : SUBSET Finding])
  <2>1. reviews \in Seq([on : Nat, body : BOOLEAN, threads : SUBSET Finding])
    BY DEF ReviewInv, CiRunOK
  <2>2. ASSUME NEW i \in 1 .. Len(reviews) PROVE reviews[i] \in [on : Commit, body : BOOLEAN, threads : SUBSET Finding]
    <3>1. reviews[i] \in [on : Nat, body : BOOLEAN, threads : SUBSET Finding]
      BY <2>1, ElementOfSeq
    <3>2. i \in DOMAIN reviews
      BY <2>1
    <3> QED BY <3>1, <3>2 DEF CiBounded
  <2> QED BY <2>1, <2>2, SeqOfElements
<1>5. shown \subseteq Finding
  <2>1. \A i \in DOMAIN reviews : reviews[i].threads \subseteq Finding
    <3> TAKE i \in DOMAIN reviews
    <3>1. i \in 1 .. Len(reviews)
      BY <1>4
    <3>2. reviews[i] \in [on : Commit, body : BOOLEAN, threads : SUBSET Finding]
      BY <1>4, <3>1, ElementOfSeq
    <3> QED BY <3>2
  <2> QED BY <2>1 DEF ReviewInv, ShownOK, openThreads, newestReviewRun
<1>6. ciRun.place \in {"idle", "start", "review", "post", "each", "body", "status", "record"}
  BY DEF ReviewInv, CiRunOK, IdleRun, StartingRun, ReviewRun, Begun
<1>7. unsaid \in BOOLEAN /\ posted \in BOOLEAN /\ pendingRun \in Trigger \cup {"none"}
  BY DEF ReviewInv, CiRunOK
<1> QED BY <1>2, <1>3, <1>4, <1>5, <1>6, <1>7 DEF CiReviewTypeOK, CiBounded

LEMMA CiReviewTyped == ASSUME CiReviewInit PROVE CiBounded
<1>1. 0 \in 0 .. MaxMishaps /\ 0 \in 0 .. MaxComments /\ 1 <= MaxPushes
  BY CiReviewAssumption
<1>2. Len(commits) = 1 /\ DOMAIN commits = {1} /\ reviews = <<>> /\ ciRun.place = "start"
  BY DEF CiReviewInit
<1>3. pull.pin \in DOMAIN commits /\ ciRun.place \notin Begun /\ read = {} /\ asked = FALSE /\ untrusted = {}
  BY <1>2 DEF CiReviewInit, Begun
<1>4. headStatus \in [state : {"none", "PENDING", "SUCCESS", "FAILURE"}, word : StatusWord \cup {"none"}]
  BY DEF CiReviewInit, NoStatus
<1>5. mishaps \in 0 .. MaxMishaps /\ comments \in 0 .. MaxComments
  BY <1>1 DEF CiReviewInit
<1>6. Len(commits) <= MaxPushes /\ read \subseteq Commit /\ asked \in BOOLEAN
  BY <1>1, <1>2, <1>3
<1>7. \A i \in DOMAIN reviews : reviews[i].on \in Commit
  BY <1>2
<1> QED BY <1>3, <1>4, <1>5, <1>6, <1>7 DEF CiBounded

LEMMA ReviewedInBounds ==
    ASSUME ReviewInv, CiBounded, NEW on \in Commit, NEW body, NEW threads, Reviewed(on, body, threads)
    PROVE  \A i \in DOMAIN reviews' : reviews'[i].on \in Commit
<1> DEFINE kept == IF reviews # <<>> /\ Last(reviews).body THEN <<>> ELSE reviews
           new == [on |-> on, body |-> body, threads |-> threads]
<1>1. reviews \in Seq([on : Nat, body : BOOLEAN, threads : SUBSET Finding])
  BY DEF ReviewInv, CiRunOK
<1>2. PICK S : kept \in Seq(S) /\ new \in S
  <2> DEFINE S == [on : Nat, body : BOOLEAN, threads : SUBSET Finding]
  <2>1. kept \in Seq(S)
    BY <1>1
  <2> HIDE DEF S, kept, new
  <2>2. kept \in Seq(S \cup {new})
    BY <2>1
  <2> QED BY <2>2
<1>3. \A i \in DOMAIN kept : kept[i].on \in Commit
  BY DEF CiBounded
<1>4. new.on \in Commit /\ reviews' = Append(kept, new)
  BY DEF Reviewed
<1> HIDE DEF kept, new
<1>5. \A i \in DOMAIN Append(kept, new) : Append(kept, new)[i] \in {new} \cup {kept[j] : j \in DOMAIN kept}
  BY <1>2, AppendIs
<1> QED BY <1>3, <1>4, <1>5

LEMMA CiReviewTypeKept == ASSUME ReviewInv, CiBounded, CiReviewNext PROVE CiBounded'
<1>1. /\ Len(commits) \in Nat /\ DOMAIN commits = 1 .. Len(commits) /\ DOMAIN commits \subseteq Commit
      /\ pull.head \in DOMAIN commits /\ pull.head # 0 /\ prior \in 0 .. Len(commits)
  BY CommitsAreBounded DEF ReviewInv, CommitsOK
<1>2. \A c : Ancestors(c) \subseteq DOMAIN commits
  BY DEF Ancestors
<1>3. UNCHANGED prVars \/ Push
  BY DEF CiReviewNext, Comment, Preflight, PreflightFails, RunLost, Review, PostReview, PostFails, PostEach, PostBody,
         SetStatus, Record, EditFinding
<1>4. /\ Len(commits') <= MaxPushes /\ pull'.pin \in DOMAIN commits' /\ DOMAIN commits \subseteq DOMAIN commits'
  <2>1. CASE UNCHANGED prVars
    BY <2>1 DEF prVars, CiBounded
  <2>2. CASE Push
    <3>1. PICK one : commits' = Append(commits, one) /\ one \in [parent : Nat, kind : {"code", "prose"}]
      <4>1. pull.head \in Nat /\ commits[pull.head].parent \in Nat
        BY <1>1, CommitsAreBounded DEF ReviewInv
      <4> QED BY <2>2, <4>1 DEF Push
    <3>2. /\ Len(commits') = Len(commits) + 1 /\ DOMAIN commits' = 1 .. Len(commits) + 1
      BY <3>1, AppendIs DEF ReviewInv, CommitsOK
    <3>3. pull'.pin \in {pull.pin, Len(commits')} /\ Len(commits) < MaxPushes
      BY <2>2 DEF Push
    <3>4. pull.pin \in DOMAIN commits
      BY DEF CiBounded
    <3> QED BY <1>1, <3>2, <3>3, <3>4, CiReviewAssumption
  <2> QED BY <1>3, <2>1, <2>2
<1>5. ciRun.place \in Begun => ciRun.sha \in 0 .. Len(commits) /\ ciRun \in ReviewRun
  BY RunIsBegun DEF ReviewInv, CiRunOK
<1>6. \A i \in DOMAIN reviews' : reviews'[i].on \in Commit
  <2>1. CASE UNCHANGED reviews
    BY <2>1 DEF CiBounded
  <2>2. CASE PostReview \/ PostBody
    <3>1. pull.head \in Commit
      BY <1>1
    <3>2. UNCHANGED reviews \/ \E body, threads : Reviewed(pull.head, body, threads)
      BY <2>2 DEF PostReview, PostBody
    <3> QED BY <2>1, <3>1, <3>2, ReviewedInBounds
  <2>3. CASE PostEach
    <3>1. UNCHANGED reviews \/ (ciRun.anchored # {} /\ \E body, threads : Reviewed(ciRun.sha, body, threads))
      BY <2>3 DEF PostEach
    <3>2. CASE ciRun.anchored # {} /\ \E body, threads : Reviewed(ciRun.sha, body, threads)
      <4>1. ciRun.sha \in Commit
        BY <1>1, <1>5, <2>3, <3>2 DEF PostEach, CiBounded, Begun
      <4> QED BY <3>2, <4>1, ReviewedInBounds
    <3> QED BY <2>1, <3>1, <3>2
  <2> QED BY <2>1, <2>2, <2>3
          DEF CiReviewNext, Push, Comment, Preflight, PreflightFails, RunLost, Review, PostFails, SetStatus, Record,
              EditFinding, githubVars
<1>7. ciRun'.place \in Begun =>
          /\ ciRun'.reads \subseteq DOMAIN commits'
          /\ ciRun'.place = "review" \/ ciRun'.anchored # {} => ciRun'.sha # 0
  <2>1. CASE UNCHANGED ciRun \/ ciRun'.place \notin Begun
    BY <1>4, <2>1 DEF CiBounded
  <2>2. CASE Preflight
    <3>1. ciRun'.place \notin Begun \/ \E reads \in {Ancestors(pull.head), Delta} : ciRun' = Run("review", pull.head, reads)
      <4>1. RunEnded => ciRun'.place \notin Begun
        BY EndedRun DEF ReviewInv, Begun
      <4> QED BY <2>2, <4>1 DEF Preflight
    <3>2. \A reads \in {Ancestors(pull.head), Delta} : reads \subseteq DOMAIN commits
      BY <1>2 DEF Delta
    <3> QED BY <1>1, <1>4, <2>1, <3>1, <3>2 DEF Run
  <2>3. CASE PreflightFails
    BY <2>3 DEF PreflightFails, Run
  <2>4. CASE RunLost \/ Record
    BY <2>1, <2>4, EndedRun DEF RunLost, Record, ReviewInv, Begun
  <2>5. CASE Push \/ Comment
    <3>1. UNCHANGED ciRun \/ ciRun'.place = "start"
      BY <2>5 DEF Push, Comment, Triggered
    <3> QED BY <2>1, <3>1 DEF Begun
  <2>6. CASE Review \/ PostReview \/ PostFails \/ PostEach \/ PostBody \/ SetStatus
    <3>1. ciRun \in ReviewRun /\ ciRun.place \in Begun
      BY <1>5, <2>6 DEF Review, PostReview, PostFails, PostEach, PostBody, SetStatus, Begun
    <3>2. /\ ciRun'.sha = ciRun.sha /\ ciRun'.reads = ciRun.reads /\ ciRun'.place # "review"
          /\ ciRun'.anchored \subseteq ciRun.anchored \/ ciRun.place = "review"
      <4>1. CASE Review
        BY <3>1, <4>1 DEF Review, ReviewRun
      <4>2. CASE PostReview \/ PostFails
        BY <3>1, <4>2 DEF PostReview, PostFails, ReviewRun
      <4>3. CASE PostEach \/ PostBody \/ SetStatus
        BY <3>1, <4>3 DEF PostEach, PostBody, SetStatus, ReviewRun
      <4> QED BY <2>6, <4>1, <4>2, <4>3
    <3> QED BY <1>4, <3>1, <3>2 DEF CiBounded
  <2>7. CASE EditFinding
    BY <2>1, <2>7 DEF EditFinding, ciVars
  <2> QED BY <2>1, <2>2, <2>3, <2>4, <2>5, <2>6, <2>7 DEF CiReviewNext
<1>8. /\ headStatus' \in [state : {"none", "PENDING", "SUCCESS", "FAILURE"}, word : StatusWord \cup {"none"}]
      /\ asked' \in BOOLEAN
  <2>1. /\ asked' \in {asked, TRUE, FALSE}
        /\ headStatus' \in {headStatus, NoStatus, [state |-> "PENDING", word |-> "comment-only"], Outcome}
    BY DEF CiReviewNext, Push, Comment, Preflight, PreflightFails, RunLost, Review, PostReview, PostFails, PostEach,
           PostBody, SetStatus, Record, EditFinding, markNotReviewed, setCommitStatus, githubVars
  <2>2. Outcome \in [state : {"none", "PENDING", "SUCCESS", "FAILURE"}, word : StatusWord \cup {"none"}]
    BY DEF Outcome, StatusWord
  <2>3. NoStatus \in [state : {"none", "PENDING", "SUCCESS", "FAILURE"}, word : StatusWord \cup {"none"}]
    BY DEF NoStatus
  <2>4. [state |-> "PENDING", word |-> "comment-only"]
            \in [state : {"none", "PENDING", "SUCCESS", "FAILURE"}, word : StatusWord \cup {"none"}]
    BY DEF StatusWord
  <2>5. asked' \in BOOLEAN
    BY <2>1 DEF CiBounded
  <2> QED BY <2>1, <2>2, <2>3, <2>4, <2>5 DEF CiBounded
<1>9. read' \subseteq Commit
  <2>1. UNCHANGED read \/ (SetStatus /\ read' \subseteq read \cup ciRun.reads)
    BY DEF CiReviewNext, Push, Comment, Preflight, PreflightFails, RunLost, Review, PostReview, PostFails, PostEach,
           PostBody, SetStatus, Record, EditFinding, ciVars
  <2> QED BY <1>1, <2>1 DEF CiBounded, SetStatus, Begun
<1>10. mishaps' \in 0 .. MaxMishaps /\ comments' \in 0 .. MaxComments
  <2>1. UNCHANGED mishaps \/ (mishaps < MaxMishaps /\ mishaps' = mishaps + 1)
    BY DEF CiReviewNext, Push, Comment, Preflight, PreflightFails, RunLost, Review, PostReview, PostFails, PostEach,
           PostBody, SetStatus, Record, EditFinding, Mishap, MaybeMishap, markNotReviewed, setCommitStatus
  <2>2. UNCHANGED comments \/ (comments < MaxComments /\ comments' = comments + 1)
    BY DEF CiReviewNext, Push, Comment, Preflight, PreflightFails, RunLost, Review, PostReview, PostFails, PostEach,
           PostBody, SetStatus, Record, EditFinding
  <2> QED BY <2>1, <2>2, CiReviewAssumption, SMTT(30) DEF CiBounded
<1>11. untrusted' \subseteq Finding
  <2>1. CASE EditFinding
    <3>1. PICK i \in DOMAIN reviews :
             \E finding \in reviews[i].threads : untrusted' = untrusted \cup {finding}
      BY <2>1 DEF EditFinding
    <3>2. reviews[i] \in [on : Nat, body : BOOLEAN, threads : SUBSET Finding]
      <4>1. reviews \in Seq([on : Nat, body : BOOLEAN, threads : SUBSET Finding])
        BY DEF ReviewInv, CiRunOK
      <4>2. i \in 1 .. Len(reviews)
        BY <3>1, <4>1
      <4> QED BY <4>1, <4>2, ElementOfSeq
    <3> QED BY <3>1, <3>2 DEF CiBounded
  <2>2. CASE ~EditFinding
    <3>1. untrusted' \subseteq untrusted
      BY <2>2 DEF CiReviewNext, Push, Comment, Preflight, PreflightFails, RunLost, Review, PostReview, PostFails,
             PostEach, PostBody, SetStatus, Record, Reviewed, markNotReviewed, setCommitStatus, githubVars
    <3> QED BY <3>1 DEF CiBounded
  <2> QED BY <2>1, <2>2
<1> QED BY <1>4, <1>6, <1>7, <1>8, <1>9, <1>10, <1>11 DEF CiBounded
-----------------------------------------------------------------------------
(* Inbox.                                                                   *)

LogWord ==
    {"none", "running", "awaiting-review", "refused", "rejected", "cap", "unreached", "merged", "killed",
     "killed, stalled"}
LogEvent ==
    ({"question", "steer", "turn_died", "session_done", "fix_round", "landed", "gate_result"} \X LogWord)
        \cup ({"merge"} \X (Gated \cup {0}))

\* What a log says: its newest event of some types, and what the inbox reads off it.
NewestIn(logged, types) ==
    LET found == {i \in DOMAIN logged : logged[i][1] \in types}
    IN IF found = {} THEN NoEvent ELSE logged[Max(found)]
Blocking == {<<"gate_result", "cap">>, <<"gate_result", "unreached">>}
BlockIn(logged) ==
    LET found == {i \in DOMAIN logged : logged[i] \in Blocking}
    IN IF found = {} THEN "none" ELSE logged[Max(found)][2]
Fails(e) == e \in {<<"gate_result", "rejected">>, <<"gate_result", "killed, stalled">>} \/ e[1] = "turn_died"
Opens(e) == e[1] = "merge" /\ e[2] # 0

Says(logged) ==
    LET merge == NewestIn(logged, {"merge", "landed"})
    IN [asks |-> NewestIn(logged, {"question", "steer"})[1] = "question",
        refused |-> NewestIn(logged, {"steer", "session_done", "gate_result"}) = <<"gate_result", "refused">>,
        pr |-> IF merge[1] = "merge" THEN merge[2] ELSE 0,
        round |-> NewestIn(logged, {"fix_round", "merge", "landed"})[1] = "fix_round",
        block |-> BlockIn(logged),
        failed |-> \E i \in DOMAIN logged : Fails(logged[i]),
        opened |-> Cardinality({i \in DOMAIN logged : Opens(logged[i])})]

SaysAfter(says, e) ==
    [asks |-> IF e[1] \in {"question", "steer"} THEN e[1] = "question" ELSE says.asks,
     refused |-> IF e[1] \in {"steer", "session_done", "gate_result"} THEN e = <<"gate_result", "refused">>
                 ELSE says.refused,
     pr |-> IF e[1] = "merge" THEN e[2] ELSE IF e[1] = "landed" THEN 0 ELSE says.pr,
     round |-> IF e[1] \in {"fix_round", "merge", "landed"} THEN e[1] = "fix_round" ELSE says.round,
     block |-> IF e \in Blocking THEN e[2] ELSE says.block,
     failed |-> says.failed \/ Fails(e),
     opened |-> IF Opens(e) THEN says.opened + 1 ELSE says.opened]

SaysRecord ==
    [asks : BOOLEAN, refused : BOOLEAN, pr : Gated \cup {0}, round : BOOLEAN,
     block : {"none", "cap", "unreached"}, failed : BOOLEAN, opened : Nat]
RowState == {"running", "awaiting-review", "blocked", "rejected", "merged", "killed", "relaunched"}
TipRecord == [others : Int, holds : SUBSET Gated]

InboxOK ==
    /\ rowState \in RowState
    /\ eventLog \in Seq(LogEvent) /\ Says(eventLog) \in SaysRecord
    /\ targetAt \in TipRecord
    /\ cache \in [Gated -> [landed : BOOLEAN, tip : TipRecord]]
    /\ pinned \in Gated \cup {0}
    /\ {unanswered, bumped, standing, silent, conductor} \subseteq BOOLEAN

\* A question stands until somebody types, and a refusal until work or a steer.
AsksOK(says) ==
    /\ says.asks => unanswered
    /\ unanswered /\ ~bumped => says.asks
    /\ standing <=> says.refused
    /\ standing => rowState = "awaiting-review"

\* The pull request that the log says is open, and the one that is.
PrOK(says) ==
    /\ says.pr <= says.opened
    /\ rowState # "merged" /\ says.pr # 0 => says.round
    /\ says.pr # 0 /\ "rewound" \notin odd => pinned # 0 \/ says.pr \in targetAt.holds
    /\ pinned # 0 => says.pr <= pinned
    /\ "cut" \notin odd => (pinned # 0 => says.pr = pinned) /\ \A n \in targetAt.holds : n <= says.opened
    /\ odd \cap {"cut", "rewound"} = {} /\ pinned # 0 => pinned \notin targetAt.holds

\* What git said of a commit is so until the target is set back.
CacheOK ==
    \A n \in Gated :
        /\ cache[n].landed /\ "rewound" \notin odd => n \in targetAt.holds
        /\ n \notin cache[n].tip.holds

\* What the log says of the window is what happened to it.
WoundsOK(says) ==
    /\ "blocked" \notin wounds => says.block = "none"
    /\ "failed" \in wounds /\ rowState # "merged" /\ ~says.round => says.failed
    /\ says.failed /\ says.block = "none" => "failed" \in wounds
    /\ rowState = "blocked" => says.block = why
    /\ rowState = "killed" => ~says.round

InboxInv ==
    InboxOK /\ AsksOK(Says(eventLog)) /\ PrOK(Says(eventLog)) /\ CacheOK /\ WoundsOK(Says(eventLog))

LEMMA NewestAfter ==
    ASSUME NEW logged \in Seq(LogEvent), NEW e \in LogEvent, NEW types
    PROVE  NewestIn(Append(logged, e), types) = IF e[1] \in types THEN e ELSE NewestIn(logged, types)
<1> DEFINE n == Len(logged)
           longer == Append(logged, e)
           found == {i \in DOMAIN logged : logged[i][1] \in types}
           foundNow == {i \in DOMAIN longer : longer[i][1] \in types}
<1>1. n \in Nat /\ DOMAIN logged = 1 .. n /\ DOMAIN longer = 1 .. n + 1 /\ longer[n + 1] = e
      /\ \A i \in 1 .. n : longer[i] = logged[i]
  OBVIOUS
<1> HIDE DEF n, longer
<1>2. CASE e[1] \in types
  <2>1. n + 1 \in foundNow /\ \A i \in foundNow : n + 1 >= i /\ i \in Int
    BY <1>1, <1>2
  <2>2. Max(foundNow) = n + 1
    <3> HIDE DEF foundNow
    <3> QED BY <1>1, <2>1 DEF Max
  <2> QED BY <1>1, <1>2, <2>1, <2>2 DEF NewestIn, longer
<1>3. CASE e[1] \notin types
  <2>1. foundNow = found
    BY <1>1, <1>3
  <2>2. found # {} => Max(found) \in found
    <3>1. found \in SUBSET (1 .. n)
      BY <1>1
    <3>2. found # {} => \E i \in found : \A j \in found : j <= i
      <4> HIDE DEF found
      <4> QED BY <1>1, <3>1, GreatestExists
    <3> HIDE DEF found
    <3> QED BY <1>1, <3>1, <3>2 DEF Max
  <2>3. found # {} => longer[Max(found)] = logged[Max(found)]
    BY <1>1, <2>2
  <2>4. NewestIn(longer, types) = IF foundNow = {} THEN NoEvent ELSE longer[Max(foundNow)]
    BY DEF NewestIn
  <2>5. NewestIn(logged, types) = IF found = {} THEN NoEvent ELSE logged[Max(found)]
    BY DEF NewestIn
  <2> HIDE DEF found, foundNow
  <2> QED BY <1>3, <2>1, <2>3, <2>4, <2>5 DEF longer
<1> QED BY <1>2, <1>3

LEMMA BlockAfter ==
    ASSUME NEW logged \in Seq(LogEvent), NEW e \in LogEvent
    PROVE  BlockIn(Append(logged, e)) = IF e \in Blocking THEN e[2] ELSE BlockIn(logged)
<1> DEFINE n == Len(logged)
           longer == Append(logged, e)
           found == {i \in DOMAIN logged : logged[i] \in Blocking}
           foundNow == {i \in DOMAIN longer : longer[i] \in Blocking}
<1>1. n \in Nat /\ DOMAIN logged = 1 .. n /\ DOMAIN longer = 1 .. n + 1 /\ longer[n + 1] = e
      /\ \A i \in 1 .. n : longer[i] = logged[i]
  OBVIOUS
<1> HIDE DEF n, longer
<1>2. CASE e \in Blocking
  <2>1. n + 1 \in foundNow /\ \A i \in foundNow : n + 1 >= i /\ i \in Int
    BY <1>1, <1>2
  <2>2. Max(foundNow) = n + 1
    <3> HIDE DEF foundNow
    <3> QED BY <1>1, <2>1 DEF Max
  <2> QED BY <1>1, <1>2, <2>1, <2>2 DEF BlockIn, longer
<1>3. CASE e \notin Blocking
  <2>1. foundNow = found
    BY <1>1, <1>3
  <2>2. found # {} => Max(found) \in found
    <3>1. found \in SUBSET (1 .. n)
      BY <1>1
    <3>2. found # {} => \E i \in found : \A j \in found : j <= i
      <4> HIDE DEF found
      <4> QED BY <1>1, <3>1, GreatestExists
    <3> HIDE DEF found
    <3> QED BY <1>1, <3>1, <3>2 DEF Max
  <2>3. found # {} => longer[Max(found)] = logged[Max(found)]
    BY <1>1, <2>2
  <2>4. BlockIn(longer) = IF foundNow = {} THEN "none" ELSE longer[Max(foundNow)][2]
    BY DEF BlockIn
  <2>5. BlockIn(logged) = IF found = {} THEN "none" ELSE logged[Max(found)][2]
    BY SMTT(30) DEF BlockIn
  <2> HIDE DEF found, foundNow
  <2> QED BY <1>3, <2>1, <2>3, <2>4, <2>5 DEF longer
<1> QED BY <1>2, <1>3

LEMMA SaysMore ==
    ASSUME NEW logged \in Seq(LogEvent), NEW e \in LogEvent
    PROVE  Says(Append(logged, e)) = SaysAfter(Says(logged), e)
<1> DEFINE longer == Append(logged, e)
<1>1. PICK n \in Nat : n = Len(logged)
  OBVIOUS
<1>2. /\ DOMAIN logged = 1 .. n /\ DOMAIN longer = 1 .. n + 1 /\ longer[n + 1] = e
      /\ \A i \in 1 .. n : longer[i] = logged[i]
  BY <1>1
<1>3. \A types : NewestIn(longer, types) = IF e[1] \in types THEN e ELSE NewestIn(logged, types)
  BY NewestAfter
<1>4. BlockIn(longer) = IF e \in Blocking THEN e[2] ELSE BlockIn(logged)
  BY BlockAfter
<1> HIDE DEF longer
<1>5. (\E i \in DOMAIN longer : Fails(longer[i])) <=> (\E i \in DOMAIN logged : Fails(logged[i])) \/ Fails(e)
  <2>1. ASSUME NEW i \in DOMAIN longer, Fails(longer[i])
        PROVE  (\E j \in DOMAIN logged : Fails(logged[j])) \/ Fails(e)
    <3>1. i = n + 1 \/ i \in 1 .. n
      BY <1>2
    <3>2. longer[i] = e \/ (i \in DOMAIN logged /\ longer[i] = logged[i])
      BY <1>2, <3>1
    <3> QED BY <2>1, <3>2
  <2>2. ASSUME NEW i \in DOMAIN logged, Fails(logged[i])
        PROVE  \E j \in DOMAIN longer : Fails(longer[j])
    <3>1. i \in DOMAIN longer /\ longer[i] = logged[i]
      BY <1>2
    <3> QED BY <2>2, <3>1
  <2>3. ASSUME Fails(e) PROVE \E j \in DOMAIN longer : Fails(longer[j])
    <3>1. n + 1 \in DOMAIN longer /\ longer[n + 1] = e
      BY <1>2
    <3> QED BY <2>3, <3>1
  <2> QED BY <2>1, <2>2, <2>3
<1>6. Cardinality({i \in DOMAIN longer : Opens(longer[i])}) =
         IF Opens(e) THEN Cardinality({i \in DOMAIN logged : Opens(logged[i])}) + 1
         ELSE Cardinality({i \in DOMAIN logged : Opens(logged[i])})
  <2> DEFINE were == {i \in DOMAIN logged : Opens(logged[i])}
  <2>1. IsFiniteSet(were) /\ n + 1 \notin were
    <3>1. were \subseteq 1 .. n
      BY <1>2
    <3>2. IsFiniteSet(1 .. n)
      BY FS_Interval
    <3> QED BY <3>1, <3>2, FS_Subset
  <2>2. {i \in DOMAIN longer : Opens(longer[i])} = IF Opens(e) THEN were \cup {n + 1} ELSE were
    <3>1. \A i \in DOMAIN longer : i = n + 1 \/ i \in 1 .. n
      BY <1>2
    <3>2. \A i \in DOMAIN longer : Opens(longer[i]) <=> (i = n + 1 /\ Opens(e)) \/ i \in were
      BY <1>2, <3>1
    <3>3. n + 1 \in DOMAIN longer /\ were \subseteq DOMAIN longer
      BY <1>2
    <3> HIDE DEF were
    <3> QED BY <3>2, <3>3
  <2> HIDE DEF were
  <2>3. Cardinality(were \cup {n + 1}) = Cardinality(were) + 1
    BY <2>1, FS_AddElement
  <2>4. Cardinality({i \in DOMAIN longer : Opens(longer[i])}) =
           IF Opens(e) THEN Cardinality(were) + 1 ELSE Cardinality(were)
    BY <2>2, <2>3
  <2> QED BY <2>4 DEF were
<1> DEFINE was == Says(logged)
<1>7. /\ Says(longer).asks = SaysAfter(was, e).asks
      /\ Says(longer).refused = SaysAfter(was, e).refused
      /\ Says(longer).pr = SaysAfter(was, e).pr
      /\ Says(longer).round = SaysAfter(was, e).round
      /\ Says(longer).block = SaysAfter(was, e).block
  <2>1. Says(longer).asks = SaysAfter(was, e).asks
    BY <1>3 DEF Says, SaysAfter
  <2>2. Says(longer).refused = SaysAfter(was, e).refused
    BY <1>3 DEF Says, SaysAfter
  <2>3. Says(longer).pr = SaysAfter(was, e).pr
    BY <1>3 DEF Says, SaysAfter
  <2>4. Says(longer).round = SaysAfter(was, e).round
    BY <1>3 DEF Says, SaysAfter
  <2>5. Says(longer).block = SaysAfter(was, e).block
    BY <1>4 DEF Says, SaysAfter
  <2> QED BY <2>1, <2>2, <2>3, <2>4, <2>5
<1>8. /\ Says(longer).failed = SaysAfter(was, e).failed
      /\ Says(longer).opened = SaysAfter(was, e).opened
  BY <1>5, <1>6 DEF Says, SaysAfter
<1> QED BY <1>7, <1>8, Zenon DEF Says, SaysAfter, longer

\* The inbox's readings are those of the log.
LEMMA ReadsTheLog ==
    /\ openQuestion <=> Says(eventLog).asks
    /\ newestGateRefused <=> Says(eventLog).refused
    /\ openPullRequest = Says(eventLog).pr
    /\ InRound <=> Says(eventLog).round
    /\ blockedReason = Says(eventLog).block
    /\ (\E i \in DOMAIN eventLog : Fails(eventLog[i])) <=> Says(eventLog).failed
    /\ Cardinality({i \in DOMAIN eventLog : eventLog[i][1] = "merge" /\ eventLog[i][2] # 0}) = Says(eventLog).opened
  BY DEF Says, openQuestion, newestGateRefused, openPullRequest, InRound, blockedReason, blocks,
         newest, NewestIn, BlockIn, Blocking, Opens

\* What each event changes of that.
LEMMA EachSays ==
    ASSUME NEW says \in SaysRecord, NEW word \in LogWord
    PROVE  /\ SaysAfter(says, <<"question", word>>) =
                 [asks |-> TRUE, refused |-> says.refused, pr |-> says.pr, round |-> says.round,
                  block |-> says.block, failed |-> says.failed, opened |-> says.opened]
           /\ SaysAfter(says, <<"steer", word>>) =
                 [asks |-> FALSE, refused |-> FALSE, pr |-> says.pr, round |-> says.round,
                  block |-> says.block, failed |-> says.failed, opened |-> says.opened]
           /\ SaysAfter(says, <<"turn_died", word>>) =
                 [asks |-> says.asks, refused |-> says.refused, pr |-> says.pr, round |-> says.round,
                  block |-> says.block, failed |-> TRUE, opened |-> says.opened]
           /\ SaysAfter(says, <<"session_done", word>>) =
                 [asks |-> says.asks, refused |-> FALSE, pr |-> says.pr, round |-> says.round,
                  block |-> says.block, failed |-> says.failed, opened |-> says.opened]
           /\ SaysAfter(says, <<"fix_round", word>>) =
                 [asks |-> says.asks, refused |-> says.refused, pr |-> says.pr, round |-> TRUE,
                  block |-> says.block, failed |-> says.failed, opened |-> says.opened]
           /\ SaysAfter(says, <<"landed", word>>) =
                 [asks |-> says.asks, refused |-> says.refused, pr |-> 0, round |-> FALSE,
                  block |-> says.block, failed |-> says.failed, opened |-> says.opened]
<1>1. SaysAfter(says, <<"question", word>>) =
                 [asks |-> TRUE, refused |-> says.refused, pr |-> says.pr, round |-> says.round,
                  block |-> says.block, failed |-> says.failed, opened |-> says.opened]
  BY DEF SaysAfter, SaysRecord, LogWord, Blocking, Fails, Opens
<1>2. SaysAfter(says, <<"steer", word>>) =
                 [asks |-> FALSE, refused |-> FALSE, pr |-> says.pr, round |-> says.round,
                  block |-> says.block, failed |-> says.failed, opened |-> says.opened]
  BY DEF SaysAfter, SaysRecord, LogWord, Blocking, Fails, Opens
<1>3. SaysAfter(says, <<"turn_died", word>>) =
                 [asks |-> says.asks, refused |-> says.refused, pr |-> says.pr, round |-> says.round,
                  block |-> says.block, failed |-> TRUE, opened |-> says.opened]
  BY DEF SaysAfter, SaysRecord, LogWord, Blocking, Fails, Opens
<1>4. SaysAfter(says, <<"session_done", word>>) =
                 [asks |-> says.asks, refused |-> FALSE, pr |-> says.pr, round |-> says.round,
                  block |-> says.block, failed |-> says.failed, opened |-> says.opened]
  BY DEF SaysAfter, SaysRecord, LogWord, Blocking, Fails, Opens
<1>5. SaysAfter(says, <<"fix_round", word>>) =
                 [asks |-> says.asks, refused |-> says.refused, pr |-> says.pr, round |-> TRUE,
                  block |-> says.block, failed |-> says.failed, opened |-> says.opened]
  BY DEF SaysAfter, SaysRecord, LogWord, Blocking, Fails, Opens
<1>6. SaysAfter(says, <<"landed", word>>) =
                 [asks |-> says.asks, refused |-> says.refused, pr |-> 0, round |-> FALSE,
                  block |-> says.block, failed |-> says.failed, opened |-> says.opened]
  BY DEF SaysAfter, SaysRecord, LogWord, Blocking, Fails, Opens
<1> QED BY <1>1, <1>2, <1>3, <1>4, <1>5, <1>6

LEMMA GateSays ==
    ASSUME NEW says \in SaysRecord
    PROVE  /\ \A word \in {"refused"} : SaysAfter(says, <<"gate_result", word>>) =
                 [asks |-> says.asks, refused |-> TRUE, pr |-> says.pr, round |-> says.round,
                  block |-> says.block, failed |-> says.failed, opened |-> says.opened]
           /\ \A word \in {"cap", "unreached"} : SaysAfter(says, <<"gate_result", word>>) =
                 [asks |-> says.asks, refused |-> FALSE, pr |-> says.pr, round |-> says.round,
                  block |-> word, failed |-> says.failed, opened |-> says.opened]
           /\ \A word \in {"rejected", "killed, stalled"} : SaysAfter(says, <<"gate_result", word>>) =
                 [asks |-> says.asks, refused |-> FALSE, pr |-> says.pr, round |-> says.round,
                  block |-> says.block, failed |-> TRUE, opened |-> says.opened]
           /\ \A word \in {"running", "awaiting-review", "merged", "killed"} : SaysAfter(says, <<"gate_result", word>>) =
                 [asks |-> says.asks, refused |-> FALSE, pr |-> says.pr, round |-> says.round,
                  block |-> says.block, failed |-> says.failed, opened |-> says.opened]
<1>1. ASSUME NEW word \in {"refused"}
      PROVE  SaysAfter(says, <<"gate_result", word>>) =
                 [asks |-> says.asks, refused |-> TRUE, pr |-> says.pr, round |-> says.round,
                  block |-> says.block, failed |-> says.failed, opened |-> says.opened]
  BY DEF SaysAfter, SaysRecord, Blocking, Fails, Opens
<1>2. ASSUME NEW word \in {"cap", "unreached"}
      PROVE  SaysAfter(says, <<"gate_result", word>>) =
                 [asks |-> says.asks, refused |-> FALSE, pr |-> says.pr, round |-> says.round,
                  block |-> word, failed |-> says.failed, opened |-> says.opened]
  BY DEF SaysAfter, SaysRecord, Blocking, Fails, Opens
<1>3. ASSUME NEW word \in {"rejected", "killed, stalled"}
      PROVE  SaysAfter(says, <<"gate_result", word>>) =
                 [asks |-> says.asks, refused |-> FALSE, pr |-> says.pr, round |-> says.round,
                  block |-> says.block, failed |-> TRUE, opened |-> says.opened]
  BY DEF SaysAfter, SaysRecord, Blocking, Fails, Opens
<1>4. ASSUME NEW word \in {"running", "awaiting-review", "merged", "killed"}
      PROVE  SaysAfter(says, <<"gate_result", word>>) =
                 [asks |-> says.asks, refused |-> FALSE, pr |-> says.pr, round |-> says.round,
                  block |-> says.block, failed |-> says.failed, opened |-> says.opened]
  BY DEF SaysAfter, SaysRecord, Blocking, Fails, Opens
<1> QED BY <1>1, <1>2, <1>3, <1>4

LEMMA MergeSays ==
    ASSUME NEW says \in SaysRecord, NEW n \in Gated \cup {0}
    PROVE  /\ n = 0 => SaysAfter(says, <<"merge", n>>) =
                 [asks |-> says.asks, refused |-> says.refused, pr |-> 0, round |-> FALSE,
                  block |-> says.block, failed |-> says.failed, opened |-> says.opened]
           /\ n # 0 => SaysAfter(says, <<"merge", n>>) =
                 [asks |-> says.asks, refused |-> says.refused, pr |-> n, round |-> FALSE,
                  block |-> says.block, failed |-> says.failed, opened |-> says.opened + 1]
<1>1. CASE n = 0
  BY <1>1 DEF SaysAfter, SaysRecord, Blocking, Fails, Opens
<1>2. CASE n # 0
  BY <1>2 DEF SaysAfter, SaysRecord, Blocking, Fails, Opens
<1> QED BY <1>1, <1>2

LEMMA SaysTyped ==
    ASSUME NEW says \in SaysRecord, NEW e \in LogEvent
    PROVE  SaysAfter(says, e) \in SaysRecord
<1> DEFINE now == SaysAfter(says, e)
<1>1. /\ says.asks \in BOOLEAN /\ says.refused \in BOOLEAN /\ says.pr \in Gated \cup {0} /\ says.round \in BOOLEAN
      /\ says.block \in {"none", "cap", "unreached"} /\ says.failed \in BOOLEAN /\ says.opened \in Nat
  BY DEF SaysRecord
<1>2. now.asks \in BOOLEAN /\ now.refused \in BOOLEAN /\ now.round \in BOOLEAN /\ now.failed \in BOOLEAN
  <2>1. now.asks \in BOOLEAN
    BY <1>1 DEF SaysAfter
  <2>2. now.refused \in BOOLEAN
    BY <1>1 DEF SaysAfter
  <2>3. now.round \in BOOLEAN
    BY <1>1 DEF SaysAfter
  <2>4. now.failed \in BOOLEAN
    BY <1>1 DEF SaysAfter
  <2> QED BY <2>1, <2>2, <2>3, <2>4
<1>3. now.pr \in Gated \cup {0}
  BY <1>1 DEF SaysAfter, LogEvent
<1>4. now.block \in {"none", "cap", "unreached"}
  BY <1>1 DEF SaysAfter, Blocking
<1>5. now.opened \in Nat
  BY <1>1 DEF SaysAfter
<1> QED BY <1>2, <1>3, <1>4, <1>5 DEF SaysAfter, SaysRecord

\* One event is logged, or two, or three.
LEMMA LogsOne ==
    ASSUME InboxOK, NEW a \in LogEvent, eventLog' = eventLog \o <<a>>
    PROVE  /\ eventLog' \in Seq(LogEvent) /\ Says(eventLog') \in SaysRecord
           /\ Says(eventLog') = SaysAfter(Says(eventLog), a)
<1>1. eventLog \in Seq(LogEvent) /\ Says(eventLog) \in SaysRecord
  BY DEF InboxOK
<1>2. eventLog' = Append(eventLog, a) /\ eventLog' \in Seq(LogEvent)
  BY <1>1
<1>3. Says(eventLog') = SaysAfter(Says(eventLog), a)
  BY <1>1, <1>2, SaysMore
<1> QED BY <1>1, <1>2, <1>3, SaysTyped

LEMMA LogsTwo ==
    ASSUME InboxOK, NEW a \in LogEvent, NEW b \in LogEvent,
           eventLog' \in {eventLog \o <<a, b>>, eventLog \o (<<a>> \o <<b>>)}
    PROVE  /\ eventLog' \in Seq(LogEvent) /\ Says(eventLog') \in SaysRecord
           /\ Says(eventLog') = SaysAfter(SaysAfter(Says(eventLog), a), b)
<1>1. eventLog \in Seq(LogEvent) /\ Says(eventLog) \in SaysRecord
  BY DEF InboxOK
<1>2. Append(eventLog, a) \in Seq(LogEvent) /\ eventLog' = Append(Append(eventLog, a), b)
      /\ eventLog' \in Seq(LogEvent)
  <2>1. CASE eventLog' = eventLog \o <<a, b>>
    BY <1>1, <2>1
  <2>2. CASE eventLog' = eventLog \o (<<a>> \o <<b>>)
    BY <1>1, <2>2
  <2> QED BY <2>1, <2>2
<1>3. Says(eventLog') = SaysAfter(SaysAfter(Says(eventLog), a), b)
  BY <1>1, <1>2, SaysMore
<1> QED BY <1>1, <1>2, <1>3, SaysTyped

LEMMA LogsThree ==
    ASSUME InboxOK, NEW a \in LogEvent, NEW b \in LogEvent, NEW c \in LogEvent,
           eventLog' = eventLog \o (<<a>> \o <<b, c>>)
    PROVE  /\ eventLog' \in Seq(LogEvent) /\ Says(eventLog') \in SaysRecord
           /\ Says(eventLog') = SaysAfter(SaysAfter(SaysAfter(Says(eventLog), a), b), c)
<1>1. eventLog \in Seq(LogEvent) /\ Says(eventLog) \in SaysRecord
  BY DEF InboxOK
<1>2. Append(eventLog, a) \in Seq(LogEvent) /\ Append(Append(eventLog, a), b) \in Seq(LogEvent)
  BY <1>1
<1>3. eventLog' = Append(Append(Append(eventLog, a), b), c) /\ eventLog' \in Seq(LogEvent)
  <2>1. eventLog' = Append(eventLog, a) \o <<b, c>>
    BY <1>1
  <2>2. \A s \in Seq(LogEvent) : s \o <<b, c>> = Append(Append(s, b), c)
    OBVIOUS
  <2>3. eventLog' = Append(Append(Append(eventLog, a), b), c)
    BY <1>2, <2>1, <2>2
  <2> QED BY <1>2, <2>3
<1>4. Says(eventLog') = SaysAfter(SaysAfter(SaysAfter(Says(eventLog), a), b), c)
  <2>1. Says(Append(eventLog, a)) = SaysAfter(Says(eventLog), a)
    BY <1>1, SaysMore
  <2>2. Says(Append(Append(eventLog, a), b)) = SaysAfter(Says(Append(eventLog, a)), b)
    BY <1>2, SaysMore
  <2>3. Says(Append(Append(Append(eventLog, a), b), c)) = SaysAfter(Says(Append(Append(eventLog, a), b)), c)
    BY <1>2, SaysMore
  <2> QED BY <1>3, <2>1, <2>2, <2>3
<1>5. SaysAfter(Says(eventLog), a) \in SaysRecord
  BY <1>1, SaysTyped
<1>6. SaysAfter(SaysAfter(Says(eventLog), a), b) \in SaysRecord
  BY <1>5, SaysTyped
<1>7. Says(eventLog') \in SaysRecord
  BY <1>4, <1>6, SaysTyped
<1> QED BY <1>3, <1>4, <1>7

\* The tip holds what it held, or was set back, and nobody looked.
LEMMA CacheKept ==
    ASSUME CacheOK, cache' = cache, odd \subseteq odd',
           targetAt.holds \subseteq targetAt'.holds \/ "rewound" \in odd'
    PROVE  CacheOK'
  BY DEF CacheOK

\* Somebody types.
LEMMA SteerKeeps == InboxInv /\ SteerSession => InboxInv'
<1> SUFFICES ASSUME InboxInv, SteerSession PROVE InboxInv'
  OBVIOUS
<1>1. /\ UNCHANGED <<rowState, silent, conductor, targetAt, cache, why, wounds, pinned, odd>>
      /\ unanswered' = FALSE /\ bumped' = FALSE /\ standing' = FALSE
      /\ eventLog' = eventLog \o <<<<"steer", "none">>>>
  BY DEF SteerSession, Moves, Logs, worldVars
<1>2. PICK was \in SaysRecord : was = Says(eventLog)
  BY DEF InboxInv, InboxOK
<1>3. PICK now \in SaysRecord :
         /\ now = Says(eventLog') /\ eventLog' \in Seq(LogEvent)
         /\ now = [asks |-> FALSE, refused |-> FALSE, pr |-> was.pr, round |-> was.round,
                   block |-> was.block, failed |-> was.failed, opened |-> was.opened]
  <2>1. "none" \in LogWord /\ <<"steer", "none">> \in LogEvent
    BY DEF LogWord, LogEvent
  <2>2. eventLog' \in Seq(LogEvent) /\ Says(eventLog') \in SaysRecord
        /\ Says(eventLog') = SaysAfter(was, <<"steer", "none">>)
    BY <1>1, <1>2, <2>1, LogsOne DEF InboxInv
  <2>3. SaysAfter(was, <<"steer", "none">>) =
       [asks |-> FALSE, refused |-> FALSE, pr |-> was.pr, round |-> was.round,
        block |-> was.block, failed |-> was.failed, opened |-> was.opened]
    BY <2>1, EachSays
  <2> QED BY <2>2, <2>3
<1>4. InboxOK'
  BY <1>1, <1>2, <1>3 DEF InboxInv, InboxOK
<1>5. AsksOK(now)'
  BY <1>1, <1>2, <1>3 DEF InboxInv, AsksOK
<1>6. PrOK(now)'
  BY <1>1, <1>2, <1>3 DEF InboxInv, PrOK
<1>7. CacheOK'
  BY <1>1, <1>2, <1>3, CacheKept DEF InboxInv
<1>8. WoundsOK(now)'
  BY <1>1, <1>2, <1>3 DEF InboxInv, WoundsOK
<1> QED BY <1>3, <1>4, <1>5, <1>6, <1>7, <1>8 DEF InboxInv, AsksOK, PrOK, WoundsOK

LEMMA AskKeeps == InboxInv /\ AskOperator => InboxInv'
<1> SUFFICES ASSUME InboxInv, AskOperator PROVE InboxInv'
  OBVIOUS
<1>1. /\ UNCHANGED <<rowState, silent, conductor, targetAt, cache, standing, why, wounds, pinned, odd>>
      /\ unanswered' = TRUE /\ bumped' = FALSE /\ eventLog' = eventLog \o <<<<"question", "none">>>>
  BY DEF AskOperator, Moves, Logs, worldVars
<1>2. PICK was \in SaysRecord : was = Says(eventLog)
  BY DEF InboxInv, InboxOK
<1>3. PICK now \in SaysRecord :
         /\ now = Says(eventLog') /\ eventLog' \in Seq(LogEvent)
         /\ now = [asks |-> TRUE, refused |-> was.refused, pr |-> was.pr, round |-> was.round,
                   block |-> was.block, failed |-> was.failed, opened |-> was.opened]
  <2>1. "none" \in LogWord /\ <<"question", "none">> \in LogEvent
    BY DEF LogWord, LogEvent
  <2>2. eventLog' \in Seq(LogEvent) /\ Says(eventLog') \in SaysRecord
        /\ Says(eventLog') = SaysAfter(was, <<"question", "none">>)
    BY <1>1, <1>2, <2>1, LogsOne DEF InboxInv
  <2>3. SaysAfter(was, <<"question", "none">>) =
       [asks |-> TRUE, refused |-> was.refused, pr |-> was.pr, round |-> was.round,
        block |-> was.block, failed |-> was.failed, opened |-> was.opened]
    BY <2>1, EachSays
  <2> QED BY <2>2, <2>3
<1>4. InboxOK'
  BY <1>1, <1>2, <1>3 DEF InboxInv, InboxOK
<1>5. AsksOK(now)'
  BY <1>1, <1>2, <1>3 DEF InboxInv, AsksOK
<1>6. PrOK(now)'
  BY <1>1, <1>2, <1>3 DEF InboxInv, PrOK
<1>7. CacheOK'
  BY <1>1, <1>2, <1>3, CacheKept DEF InboxInv
<1>8. WoundsOK(now)'
  BY <1>1, <1>2, <1>3 DEF InboxInv, WoundsOK
<1> QED BY <1>3, <1>4, <1>5, <1>6, <1>7, <1>8 DEF InboxInv, AsksOK, PrOK, WoundsOK

LEMMA HandoffRequestKeeps == InboxInv /\ requestHandoff => InboxInv'
<1> SUFFICES ASSUME InboxInv, requestHandoff PROVE InboxInv'
  OBVIOUS
<1>1. /\ UNCHANGED <<rowState, silent, conductor, targetAt, cache, unanswered, standing, why, wounds, pinned, odd>>
      /\ rowState = "running" /\ bumped' = TRUE /\ eventLog' = eventLog \o <<<<"steer", "none">>>>
  BY DEF requestHandoff, Moves, Logs, worldVars
<1>2. PICK was \in SaysRecord : was = Says(eventLog)
  BY DEF InboxInv, InboxOK
<1>3. PICK now \in SaysRecord :
         /\ now = Says(eventLog') /\ eventLog' \in Seq(LogEvent)
         /\ now = [asks |-> FALSE, refused |-> FALSE, pr |-> was.pr, round |-> was.round,
                   block |-> was.block, failed |-> was.failed, opened |-> was.opened]
  <2>1. "none" \in LogWord /\ <<"steer", "none">> \in LogEvent
    BY DEF LogWord, LogEvent
  <2>2. eventLog' \in Seq(LogEvent) /\ Says(eventLog') \in SaysRecord
        /\ Says(eventLog') = SaysAfter(was, <<"steer", "none">>)
    BY <1>1, <1>2, <2>1, LogsOne DEF InboxInv
  <2>3. SaysAfter(was, <<"steer", "none">>) =
       [asks |-> FALSE, refused |-> FALSE, pr |-> was.pr, round |-> was.round,
        block |-> was.block, failed |-> was.failed, opened |-> was.opened]
    BY <2>1, EachSays
  <2> QED BY <2>2, <2>3
<1>4. InboxOK'
  BY <1>1, <1>2, <1>3 DEF InboxInv, InboxOK
<1>5. AsksOK(now)'
  BY <1>1, <1>2, <1>3 DEF InboxInv, AsksOK
<1>6. PrOK(now)'
  BY <1>1, <1>2, <1>3 DEF InboxInv, PrOK
<1>7. CacheOK'
  BY <1>1, <1>2, <1>3, CacheKept DEF InboxInv
<1>8. WoundsOK(now)'
  BY <1>1, <1>2, <1>3 DEF InboxInv, WoundsOK
<1> QED BY <1>3, <1>4, <1>5, <1>6, <1>7, <1>8 DEF InboxInv, AsksOK, PrOK, WoundsOK

LEMMA RefuseKeeps == InboxInv /\ Refuse => InboxInv'
<1> SUFFICES ASSUME InboxInv, Refuse PROVE InboxInv'
  OBVIOUS
<1>1. /\ UNCHANGED <<rowState, silent, conductor, targetAt, cache, unanswered, bumped, why, wounds, pinned, odd>>
      /\ rowState = "awaiting-review" /\ standing' = TRUE
      /\ eventLog' = eventLog \o <<<<"gate_result", "refused">>>>
  BY DEF Refuse, Moves, Logs, worldVars, GateResult
<1>2. PICK was \in SaysRecord : was = Says(eventLog)
  BY DEF InboxInv, InboxOK
<1>3. PICK now \in SaysRecord :
         /\ now = Says(eventLog') /\ eventLog' \in Seq(LogEvent)
         /\ now = [asks |-> was.asks, refused |-> TRUE, pr |-> was.pr, round |-> was.round,
                   block |-> was.block, failed |-> was.failed, opened |-> was.opened]
  <2>1. "refused" \in LogWord /\ <<"gate_result", "refused">> \in LogEvent
    BY DEF LogWord, LogEvent
  <2>2. eventLog' \in Seq(LogEvent) /\ Says(eventLog') \in SaysRecord
        /\ Says(eventLog') = SaysAfter(was, <<"gate_result", "refused">>)
    BY <1>1, <1>2, <2>1, LogsOne DEF InboxInv
  <2>3. SaysAfter(was, <<"gate_result", "refused">>) =
       [asks |-> was.asks, refused |-> TRUE, pr |-> was.pr, round |-> was.round,
        block |-> was.block, failed |-> was.failed, opened |-> was.opened]
    BY <2>1, GateSays
  <2> QED BY <2>2, <2>3
<1>4. InboxOK'
  BY <1>1, <1>2, <1>3 DEF InboxInv, InboxOK
<1>5. AsksOK(now)'
  BY <1>1, <1>2, <1>3 DEF InboxInv, AsksOK
<1>6. PrOK(now)'
  BY <1>1, <1>2, <1>3 DEF InboxInv, PrOK
<1>7. CacheOK'
  BY <1>1, <1>2, <1>3, CacheKept DEF InboxInv
<1>8. WoundsOK(now)'
  BY <1>1, <1>2, <1>3 DEF InboxInv, WoundsOK
<1> QED BY <1>3, <1>4, <1>5, <1>6, <1>7, <1>8 DEF InboxInv, AsksOK, PrOK, WoundsOK

LEMMA UnblockKeeps == InboxInv /\ UnblockSession => InboxInv'
<1> SUFFICES ASSUME InboxInv, UnblockSession PROVE InboxInv'
  OBVIOUS
<1>1. /\ UNCHANGED <<silent, conductor, targetAt, cache, unanswered, bumped, standing, wounds, pinned, odd>>
      /\ rowState = "blocked" /\ rowState' = "running" /\ why' = "none"
      /\ eventLog' = eventLog \o <<<<"gate_result", "running">>>>
  BY DEF UnblockSession, Moves, Logs, worldVars, GateResult
<1>2. PICK was \in SaysRecord : was = Says(eventLog)
  BY DEF InboxInv, InboxOK
<1>3. PICK now \in SaysRecord :
         /\ now = Says(eventLog') /\ eventLog' \in Seq(LogEvent)
         /\ now = [asks |-> was.asks, refused |-> FALSE, pr |-> was.pr, round |-> was.round,
                   block |-> was.block, failed |-> was.failed, opened |-> was.opened]
  <2>1. "running" \in LogWord /\ <<"gate_result", "running">> \in LogEvent
    BY DEF LogWord, LogEvent
  <2>2. eventLog' \in Seq(LogEvent) /\ Says(eventLog') \in SaysRecord
        /\ Says(eventLog') = SaysAfter(was, <<"gate_result", "running">>)
    BY <1>1, <1>2, <2>1, LogsOne DEF InboxInv
  <2>3. SaysAfter(was, <<"gate_result", "running">>) =
       [asks |-> was.asks, refused |-> FALSE, pr |-> was.pr, round |-> was.round,
        block |-> was.block, failed |-> was.failed, opened |-> was.opened]
    BY <2>1, GateSays
  <2> QED BY <2>2, <2>3
<1>4. InboxOK'
  BY <1>1, <1>2, <1>3 DEF InboxInv, InboxOK, RowState
<1>5. AsksOK(now)'
  BY <1>1, <1>2, <1>3 DEF InboxInv, AsksOK
<1>6. PrOK(now)'
  BY <1>1, <1>2, <1>3 DEF InboxInv, PrOK
<1>7. CacheOK'
  BY <1>1, <1>2, <1>3, CacheKept DEF InboxInv
<1>8. WoundsOK(now)'
  BY <1>1, <1>2, <1>3 DEF InboxInv, WoundsOK
<1> QED BY <1>3, <1>4, <1>5, <1>6, <1>7, <1>8 DEF InboxInv, AsksOK, PrOK, WoundsOK

LEMMA FixKeeps == InboxInv /\ Fix => InboxInv'
<1> SUFFICES ASSUME InboxInv, Fix PROVE InboxInv'
  OBVIOUS
<1>1. /\ UNCHANGED <<silent, conductor, targetAt, cache, unanswered, bumped, standing, why, wounds, pinned, odd>>
      /\ rowState = "merged" /\ rowState' = "running"
      /\ eventLog' = eventLog \o <<<<"gate_result", "running">>, <<"fix_round", "none">>>>
  BY DEF Fix, Moves, Logs, worldVars, truthVars, GateResult
<1>2. PICK was \in SaysRecord : was = Says(eventLog)
  BY DEF InboxInv, InboxOK
<1>3. PICK now \in SaysRecord :
         /\ now = Says(eventLog') /\ eventLog' \in Seq(LogEvent)
         /\ now = [asks |-> was.asks, refused |-> FALSE, pr |-> was.pr, round |-> TRUE,
                   block |-> was.block, failed |-> was.failed, opened |-> was.opened]
  <2>1. "none" \in LogWord /\ "running" \in LogWord /\ <<"gate_result", "running">> \in LogEvent
        /\ <<"fix_round", "none">> \in LogEvent
    BY DEF LogWord, LogEvent
  <2>2. eventLog' \in Seq(LogEvent) /\ Says(eventLog') \in SaysRecord
        /\ Says(eventLog') = SaysAfter(SaysAfter(was, <<"gate_result", "running">>), <<"fix_round", "none">>)
    BY <1>1, <1>2, <2>1, LogsTwo DEF InboxInv
  <2>3. PICK then \in SaysRecord : /\ then = SaysAfter(was, <<"gate_result", "running">>)
                   /\ then = [asks |-> was.asks, refused |-> FALSE, pr |-> was.pr, round |-> was.round,
                         block |-> was.block, failed |-> was.failed, opened |-> was.opened]
    BY <2>1, GateSays, SaysTyped
  <2>4. then.asks = was.asks /\ then.refused = FALSE /\ then.pr = was.pr
        /\ then.round = was.round /\ then.block = was.block /\ then.failed = was.failed /\ then.opened = was.opened
    BY <2>3
  <2>5. SaysAfter(then, <<"fix_round", "none">>) =
       [asks |-> then.asks, refused |-> then.refused, pr |-> then.pr, round |-> TRUE,
        block |-> then.block, failed |-> then.failed, opened |-> then.opened]
    BY <2>1, EachSays
  <2>6. SaysAfter(then, <<"fix_round", "none">>) =
       [asks |-> was.asks, refused |-> FALSE, pr |-> was.pr, round |-> TRUE,
        block |-> was.block, failed |-> was.failed, opened |-> was.opened]
    BY <2>4, <2>5
  <2> QED BY <2>2, <2>3, <2>6
<1>4. InboxOK'
  BY <1>1, <1>2, <1>3 DEF InboxInv, InboxOK, RowState
<1>5. AsksOK(now)'
  BY <1>1, <1>2, <1>3 DEF InboxInv, AsksOK
<1>6. PrOK(now)'
  BY <1>1, <1>2, <1>3 DEF InboxInv, PrOK
<1>7. CacheOK'
  BY <1>1, <1>2, <1>3, CacheKept DEF InboxInv
<1>8. WoundsOK(now)'
  BY <1>1, <1>2, <1>3 DEF InboxInv, WoundsOK
<1> QED BY <1>3, <1>4, <1>5, <1>6, <1>7, <1>8 DEF InboxInv, AsksOK, PrOK, WoundsOK

LEMMA ResumeKeeps ==
    ASSUME InboxInv, NEW delivered \in BOOLEAN, Resume(delivered)
    PROVE  InboxInv'
<1>1. CASE delivered
  <2>1. /\ UNCHANGED <<rowState, silent, conductor, targetAt, cache, unanswered, standing, why, pinned, odd>>
        /\ rowState = "running" /\ wounds' = wounds \cup {"failed"} /\ bumped' = TRUE
        /\ eventLog' = eventLog \o (<<<<"turn_died", "none">>>> \o <<<<"steer", "none">>>>)
    BY <1>1 DEF Resume, Moves, Logs, worldVars
  <2>2. PICK was \in SaysRecord : was = Says(eventLog)
    BY DEF InboxInv, InboxOK
  <2>3. PICK now \in SaysRecord :
           /\ now = Says(eventLog') /\ eventLog' \in Seq(LogEvent)
           /\ now = [asks |-> FALSE, refused |-> FALSE, pr |-> was.pr, round |-> was.round,
                     block |-> was.block, failed |-> TRUE, opened |-> was.opened]
    <3>1. "none" \in LogWord /\ <<"turn_died", "none">> \in LogEvent /\ <<"steer", "none">> \in LogEvent
      BY DEF LogWord, LogEvent
    <3>2. eventLog' \in Seq(LogEvent) /\ Says(eventLog') \in SaysRecord
          /\ Says(eventLog') = SaysAfter(SaysAfter(was, <<"turn_died", "none">>), <<"steer", "none">>)
      BY <2>1, <2>2, <3>1, LogsTwo DEF InboxInv
    <3>3. PICK then \in SaysRecord : /\ then = SaysAfter(was, <<"turn_died", "none">>)
                     /\ then = [asks |-> was.asks, refused |-> was.refused, pr |-> was.pr, round |-> was.round,
                           block |-> was.block, failed |-> TRUE, opened |-> was.opened]
      BY <3>1, EachSays, SaysTyped
    <3>4. then.asks = was.asks /\ then.refused = was.refused /\ then.pr = was.pr
          /\ then.round = was.round /\ then.block = was.block /\ then.failed = TRUE /\ then.opened = was.opened
      BY <3>3
    <3>5. SaysAfter(then, <<"steer", "none">>) =
         [asks |-> FALSE, refused |-> FALSE, pr |-> then.pr, round |-> then.round,
          block |-> then.block, failed |-> then.failed, opened |-> then.opened]
      BY <3>1, EachSays
    <3>6. SaysAfter(then, <<"steer", "none">>) =
         [asks |-> FALSE, refused |-> FALSE, pr |-> was.pr, round |-> was.round,
          block |-> was.block, failed |-> TRUE, opened |-> was.opened]
      BY <3>4, <3>5
    <3> QED BY <3>2, <3>3, <3>6
  <2>4. InboxOK'
    BY <2>1, <2>2, <2>3 DEF InboxInv, InboxOK
  <2>5. AsksOK(now)'
    BY <2>1, <2>2, <2>3 DEF InboxInv, AsksOK
  <2>6. PrOK(now)'
    BY <2>1, <2>2, <2>3 DEF InboxInv, PrOK
  <2>7. CacheOK'
    BY <2>1, <2>2, <2>3, CacheKept DEF InboxInv
  <2>8. WoundsOK(now)'
    BY <2>1, <2>2, <2>3 DEF InboxInv, WoundsOK
  <2> QED BY <2>3, <2>4, <2>5, <2>6, <2>7, <2>8 DEF InboxInv, AsksOK, PrOK, WoundsOK
<1>2. CASE ~delivered
  <2>1. /\ UNCHANGED <<rowState, silent, conductor, targetAt, cache, unanswered, standing, why, pinned, odd>>
        /\ rowState = "running" /\ wounds' = wounds \cup {"failed"} /\ bumped' = bumped
        /\ eventLog' = eventLog \o <<<<"turn_died", "none">>>>
    BY <1>2 DEF Resume, Moves, Logs, worldVars, InboxInv, InboxOK
  <2>2. PICK was \in SaysRecord : was = Says(eventLog)
    BY DEF InboxInv, InboxOK
  <2>3. PICK now \in SaysRecord :
           /\ now = Says(eventLog') /\ eventLog' \in Seq(LogEvent)
           /\ now = [asks |-> was.asks, refused |-> was.refused, pr |-> was.pr, round |-> was.round,
                     block |-> was.block, failed |-> TRUE, opened |-> was.opened]
    <3>1. "none" \in LogWord /\ <<"turn_died", "none">> \in LogEvent
      BY DEF LogWord, LogEvent
    <3>2. eventLog' \in Seq(LogEvent) /\ Says(eventLog') \in SaysRecord
          /\ Says(eventLog') = SaysAfter(was, <<"turn_died", "none">>)
      BY <2>1, <2>2, <3>1, LogsOne DEF InboxInv
    <3>3. SaysAfter(was, <<"turn_died", "none">>) =
         [asks |-> was.asks, refused |-> was.refused, pr |-> was.pr, round |-> was.round,
          block |-> was.block, failed |-> TRUE, opened |-> was.opened]
      BY <3>1, EachSays
    <3> QED BY <3>2, <3>3
  <2>4. InboxOK'
    BY <2>1, <2>2, <2>3 DEF InboxInv, InboxOK
  <2>5. AsksOK(now)'
    BY <2>1, <2>2, <2>3 DEF InboxInv, AsksOK
  <2>6. PrOK(now)'
    BY <2>1, <2>2, <2>3 DEF InboxInv, PrOK
  <2>7. CacheOK'
    BY <2>1, <2>2, <2>3, CacheKept DEF InboxInv
  <2>8. WoundsOK(now)'
    BY <2>1, <2>2, <2>3 DEF InboxInv, WoundsOK
  <2> QED BY <2>3, <2>4, <2>5, <2>6, <2>7, <2>8 DEF InboxInv, AsksOK, PrOK, WoundsOK
<1> QED BY <1>1, <1>2

LEMMA DoneKeeps ==
    ASSUME InboxInv, Done
    PROVE  InboxInv'
<1>1. CASE rowState = "running"
  <2>1. /\ UNCHANGED <<silent, conductor, targetAt, cache, unanswered, bumped, why, wounds, pinned, odd>>
        /\ rowState = "running" /\ rowState' = "awaiting-review" /\ standing' = FALSE
        /\ eventLog' = eventLog \o (<<<<"session_done", "none">>>> \o <<<<"gate_result", "awaiting-review">>>>)
    BY <1>1 DEF Done, Moves, Logs, worldVars, GateResult
  <2>2. PICK was \in SaysRecord : was = Says(eventLog)
    BY DEF InboxInv, InboxOK
  <2>3. PICK now \in SaysRecord :
           /\ now = Says(eventLog') /\ eventLog' \in Seq(LogEvent)
           /\ now = [asks |-> was.asks, refused |-> FALSE, pr |-> was.pr, round |-> was.round,
                     block |-> was.block, failed |-> was.failed, opened |-> was.opened]
    <3>1. "awaiting-review" \in LogWord /\ "none" \in LogWord /\ <<"session_done", "none">> \in LogEvent
          /\ <<"gate_result", "awaiting-review">> \in LogEvent
      BY DEF LogWord, LogEvent
    <3>2. eventLog' \in Seq(LogEvent) /\ Says(eventLog') \in SaysRecord
          /\ Says(eventLog') = SaysAfter(SaysAfter(was, <<"session_done", "none">>), <<"gate_result", "awaiting-review">>)
      BY <2>1, <2>2, <3>1, LogsTwo DEF InboxInv
    <3>3. PICK then \in SaysRecord : /\ then = SaysAfter(was, <<"session_done", "none">>)
                     /\ then = [asks |-> was.asks, refused |-> FALSE, pr |-> was.pr, round |-> was.round,
                           block |-> was.block, failed |-> was.failed, opened |-> was.opened]
      BY <3>1, EachSays, SaysTyped
    <3>4. then.asks = was.asks /\ then.refused = FALSE /\ then.pr = was.pr
          /\ then.round = was.round /\ then.block = was.block /\ then.failed = was.failed
          /\ then.opened = was.opened
      BY <3>3
    <3>5. SaysAfter(then, <<"gate_result", "awaiting-review">>) =
         [asks |-> then.asks, refused |-> FALSE, pr |-> then.pr, round |-> then.round,
          block |-> then.block, failed |-> then.failed, opened |-> then.opened]
      BY <3>1, GateSays
    <3>6. SaysAfter(then, <<"gate_result", "awaiting-review">>) =
         [asks |-> was.asks, refused |-> FALSE, pr |-> was.pr, round |-> was.round,
          block |-> was.block, failed |-> was.failed, opened |-> was.opened]
      BY <3>4, <3>5
    <3> QED BY <3>2, <3>3, <3>6
  <2>4. InboxOK'
    BY <2>1, <2>2, <2>3 DEF InboxInv, InboxOK, RowState
  <2>5. AsksOK(now)'
    BY <2>1, <2>2, <2>3 DEF InboxInv, AsksOK
  <2>6. PrOK(now)'
    BY <2>1, <2>2, <2>3 DEF InboxInv, PrOK
  <2>7. CacheOK'
    BY <2>1, <2>2, <2>3, CacheKept DEF InboxInv
  <2>8. WoundsOK(now)'
    BY <2>1, <2>2, <2>3 DEF InboxInv, WoundsOK
  <2> QED BY <2>3, <2>4, <2>5, <2>6, <2>7, <2>8 DEF InboxInv, AsksOK, PrOK, WoundsOK
<1>2. CASE rowState # "running"
  <2>1. /\ UNCHANGED <<rowState, silent, conductor, targetAt, cache, unanswered, bumped, why, wounds, pinned, odd>>
        /\ standing' = FALSE
        /\ eventLog' = eventLog \o <<<<"session_done", "none">>>>
    BY <1>2 DEF Done, Moves, Logs, worldVars, GateResult
  <2>2. PICK was \in SaysRecord : was = Says(eventLog)
    BY DEF InboxInv, InboxOK
  <2>3. PICK now \in SaysRecord :
           /\ now = Says(eventLog') /\ eventLog' \in Seq(LogEvent)
           /\ now = [asks |-> was.asks, refused |-> FALSE, pr |-> was.pr, round |-> was.round,
                     block |-> was.block, failed |-> was.failed, opened |-> was.opened]
    <3>1. "none" \in LogWord /\ <<"session_done", "none">> \in LogEvent
      BY DEF LogWord, LogEvent
    <3>2. eventLog' \in Seq(LogEvent) /\ Says(eventLog') \in SaysRecord
          /\ Says(eventLog') = SaysAfter(was, <<"session_done", "none">>)
      BY <2>1, <2>2, <3>1, LogsOne DEF InboxInv
    <3>3. SaysAfter(was, <<"session_done", "none">>) =
         [asks |-> was.asks, refused |-> FALSE, pr |-> was.pr, round |-> was.round,
          block |-> was.block, failed |-> was.failed, opened |-> was.opened]
      BY <3>1, EachSays
    <3> QED BY <3>2, <3>3
  <2>9. /\ now.asks = was.asks /\ now.refused = FALSE /\ now.pr = was.pr /\ now.round = was.round
        /\ now.block = was.block /\ now.failed = was.failed /\ now.opened = was.opened
    BY <2>3
  <2>4. InboxOK'
    BY <2>1, <2>2, <2>3 DEF InboxInv, InboxOK
  <2>5. AsksOK(now)'
    BY <2>1, <2>2, <2>3 DEF InboxInv, AsksOK
  <2>6. PrOK(now)'
    BY <2>1, <2>2, <2>9 DEF InboxInv, PrOK
  <2>7. CacheOK'
    BY <2>1, <2>2, <2>3, CacheKept DEF InboxInv
  <2>8. WoundsOK(now)'
    BY <2>1, <2>2, <2>9 DEF InboxInv, WoundsOK
  <2> QED BY <2>3, <2>4, <2>5, <2>6, <2>7, <2>8 DEF InboxInv, AsksOK, PrOK, WoundsOK
<1> QED BY <1>1, <1>2

\* The gate rejects, blocks or sends back, or is cut in between.
LEMMA RejectKeeps ==
    ASSUME InboxInv, NEW to \in {"running", "cap", "unreached", "cut"}, RejectOrBlock(to)
    PROVE  InboxInv'
<1>1. CASE to = "cap"
  <2>1. /\ UNCHANGED <<silent, conductor, targetAt, cache, pinned>>
        /\ rowState = "awaiting-review" /\ rowState' = "blocked" /\ why' = "cap"
        /\ wounds' = wounds \cup {"blocked"}
        /\ unanswered' = unanswered /\ bumped' = bumped /\ odd' = odd /\ standing' = FALSE
        /\ eventLog' = eventLog \o (<<<<"gate_result", "rejected">>>> \o <<<<"gate_result", "cap">>>>)
    BY <1>1 DEF RejectOrBlock, Moves, Logs, worldVars, GateResult, InboxInv, InboxOK
  <2>2. PICK was \in SaysRecord : was = Says(eventLog)
    BY DEF InboxInv, InboxOK
  <2>3. PICK now \in SaysRecord :
           /\ now = Says(eventLog') /\ eventLog' \in Seq(LogEvent)
           /\ now = [asks |-> was.asks, refused |-> FALSE, pr |-> was.pr, round |-> was.round,
                     block |-> "cap", failed |-> TRUE, opened |-> was.opened]
    <3>1. "cap" \in LogWord /\ "rejected" \in LogWord /\ <<"gate_result", "rejected">> \in LogEvent
          /\ <<"gate_result", "cap">> \in LogEvent
      BY DEF LogWord, LogEvent
    <3>2. eventLog' \in Seq(LogEvent) /\ Says(eventLog') \in SaysRecord
          /\ Says(eventLog') = SaysAfter(SaysAfter(was, <<"gate_result", "rejected">>), <<"gate_result", "cap">>)
      BY <2>1, <2>2, <3>1, LogsTwo DEF InboxInv
    <3>3. PICK then \in SaysRecord : /\ then = SaysAfter(was, <<"gate_result", "rejected">>)
                     /\ then = [asks |-> was.asks, refused |-> FALSE, pr |-> was.pr, round |-> was.round,
                           block |-> was.block, failed |-> TRUE, opened |-> was.opened]
      BY <3>1, GateSays, SaysTyped
    <3>4. then.asks = was.asks /\ then.refused = FALSE /\ then.pr = was.pr
          /\ then.round = was.round /\ then.block = was.block /\ then.failed = TRUE /\ then.opened = was.opened
      BY <3>3
    <3>5. SaysAfter(then, <<"gate_result", "cap">>) =
         [asks |-> then.asks, refused |-> FALSE, pr |-> then.pr, round |-> then.round,
          block |-> "cap", failed |-> then.failed, opened |-> then.opened]
      BY <3>1, GateSays
    <3>6. SaysAfter(then, <<"gate_result", "cap">>) =
         [asks |-> was.asks, refused |-> FALSE, pr |-> was.pr, round |-> was.round,
          block |-> "cap", failed |-> TRUE, opened |-> was.opened]
      BY <3>4, <3>5
    <3> QED BY <3>2, <3>3, <3>6
  <2>4. InboxOK'
    BY <2>1, <2>2, <2>3 DEF InboxInv, InboxOK, RowState
  <2>5. AsksOK(now)'
    BY <2>1, <2>2, <2>3 DEF InboxInv, AsksOK
  <2>6. PrOK(now)'
    BY <2>1, <2>2, <2>3 DEF InboxInv, PrOK
  <2>7. CacheOK'
    BY <2>1, <2>2, <2>3, CacheKept DEF InboxInv
  <2>8. WoundsOK(now)'
    BY <2>1, <2>2, <2>3 DEF InboxInv, WoundsOK
  <2> QED BY <2>3, <2>4, <2>5, <2>6, <2>7, <2>8 DEF InboxInv, AsksOK, PrOK, WoundsOK
<1>2. CASE to = "unreached"
  <2>1. /\ UNCHANGED <<silent, conductor, targetAt, cache, pinned>>
        /\ rowState = "awaiting-review" /\ rowState' = "blocked" /\ why' = "unreached"
        /\ wounds' = wounds \cup {"blocked"}
        /\ unanswered' = unanswered /\ bumped' = bumped /\ odd' = odd /\ standing' = FALSE
        /\ eventLog' = eventLog \o (<<<<"gate_result", "rejected">>>> \o <<<<"gate_result", "unreached">>>>)
    BY <1>2 DEF RejectOrBlock, Moves, Logs, worldVars, GateResult, InboxInv, InboxOK
  <2>2. PICK was \in SaysRecord : was = Says(eventLog)
    BY DEF InboxInv, InboxOK
  <2>3. PICK now \in SaysRecord :
           /\ now = Says(eventLog') /\ eventLog' \in Seq(LogEvent)
           /\ now = [asks |-> was.asks, refused |-> FALSE, pr |-> was.pr, round |-> was.round,
                     block |-> "unreached", failed |-> TRUE, opened |-> was.opened]
    <3>1. "rejected" \in LogWord /\ "unreached" \in LogWord /\ <<"gate_result", "rejected">> \in LogEvent
          /\ <<"gate_result", "unreached">> \in LogEvent
      BY DEF LogWord, LogEvent
    <3>2. eventLog' \in Seq(LogEvent) /\ Says(eventLog') \in SaysRecord
          /\ Says(eventLog') = SaysAfter(SaysAfter(was, <<"gate_result", "rejected">>), <<"gate_result", "unreached">>)
      BY <2>1, <2>2, <3>1, LogsTwo DEF InboxInv
    <3>3. PICK then \in SaysRecord : /\ then = SaysAfter(was, <<"gate_result", "rejected">>)
                     /\ then = [asks |-> was.asks, refused |-> FALSE, pr |-> was.pr, round |-> was.round,
                           block |-> was.block, failed |-> TRUE, opened |-> was.opened]
      BY <3>1, GateSays, SaysTyped
    <3>4. then.asks = was.asks /\ then.refused = FALSE /\ then.pr = was.pr
          /\ then.round = was.round /\ then.block = was.block /\ then.failed = TRUE /\ then.opened = was.opened
      BY <3>3
    <3>5. SaysAfter(then, <<"gate_result", "unreached">>) =
         [asks |-> then.asks, refused |-> FALSE, pr |-> then.pr, round |-> then.round,
          block |-> "unreached", failed |-> then.failed, opened |-> then.opened]
      BY <3>1, GateSays
    <3>6. SaysAfter(then, <<"gate_result", "unreached">>) =
         [asks |-> was.asks, refused |-> FALSE, pr |-> was.pr, round |-> was.round,
          block |-> "unreached", failed |-> TRUE, opened |-> was.opened]
      BY <3>4, <3>5
    <3> QED BY <3>2, <3>3, <3>6
  <2>4. InboxOK'
    BY <2>1, <2>2, <2>3 DEF InboxInv, InboxOK, RowState
  <2>5. AsksOK(now)'
    BY <2>1, <2>2, <2>3 DEF InboxInv, AsksOK
  <2>6. PrOK(now)'
    BY <2>1, <2>2, <2>3 DEF InboxInv, PrOK
  <2>7. CacheOK'
    BY <2>1, <2>2, <2>3, CacheKept DEF InboxInv
  <2>8. WoundsOK(now)'
    BY <2>1, <2>2, <2>3 DEF InboxInv, WoundsOK
  <2> QED BY <2>3, <2>4, <2>5, <2>6, <2>7, <2>8 DEF InboxInv, AsksOK, PrOK, WoundsOK
<1>3. CASE to = "running"
  <2>1. /\ UNCHANGED <<silent, conductor, targetAt, cache, pinned>>
        /\ rowState = "awaiting-review" /\ rowState' = "running" /\ why' = why /\ wounds' = wounds \cup {"failed"}
        /\ unanswered' = FALSE /\ bumped' = FALSE /\ odd' = odd /\ standing' = FALSE
        /\ eventLog' = eventLog \o (<<<<"gate_result", "rejected">>>> \o <<<<"steer", "none">>, <<"gate_result", "running">>>>)
    BY <1>3 DEF RejectOrBlock, Moves, Logs, worldVars, GateResult
  <2>2. PICK was \in SaysRecord : was = Says(eventLog)
    BY DEF InboxInv, InboxOK
  <2>3. PICK now \in SaysRecord :
           /\ now = Says(eventLog') /\ eventLog' \in Seq(LogEvent)
           /\ now = [asks |-> FALSE, refused |-> FALSE, pr |-> was.pr, round |-> was.round,
                     block |-> was.block, failed |-> TRUE, opened |-> was.opened]
    <3>1. "none" \in LogWord /\ "rejected" \in LogWord /\ "running" \in LogWord
          /\ <<"gate_result", "rejected">> \in LogEvent /\ <<"steer", "none">> \in LogEvent
          /\ <<"gate_result", "running">> \in LogEvent
      BY DEF LogWord, LogEvent
    <3>2. eventLog' \in Seq(LogEvent) /\ Says(eventLog') \in SaysRecord
          /\ Says(eventLog') = SaysAfter(SaysAfter(SaysAfter(was, <<"gate_result", "rejected">>), <<"steer", "none">>), <<"gate_result", "running">>)
      BY <2>1, <2>2, <3>1, LogsThree DEF InboxInv
    <3>3. PICK then \in SaysRecord : /\ then = SaysAfter(was, <<"gate_result", "rejected">>)
                     /\ then = [asks |-> was.asks, refused |-> FALSE, pr |-> was.pr, round |-> was.round,
                           block |-> was.block, failed |-> TRUE, opened |-> was.opened]
      BY <3>1, GateSays, SaysTyped
    <3>4. then.asks = was.asks /\ then.refused = FALSE /\ then.pr = was.pr
          /\ then.round = was.round /\ then.block = was.block /\ then.failed = TRUE /\ then.opened = was.opened
      BY <3>3
    <3>5. PICK next \in SaysRecord : /\ next = SaysAfter(then, <<"steer", "none">>)
                     /\ next = [asks |-> FALSE, refused |-> FALSE, pr |-> then.pr, round |-> then.round,
                           block |-> then.block, failed |-> then.failed, opened |-> then.opened]
      BY <3>1, EachSays, SaysTyped
    <3>6. next.asks = FALSE /\ next.refused = FALSE /\ next.pr = was.pr
          /\ next.round = was.round /\ next.block = was.block /\ next.failed = TRUE /\ next.opened = was.opened
      BY <3>5, <3>4
    <3>7. SaysAfter(next, <<"gate_result", "running">>) =
         [asks |-> next.asks, refused |-> FALSE, pr |-> next.pr, round |-> next.round,
          block |-> next.block, failed |-> next.failed, opened |-> next.opened]
      BY <3>1, GateSays
    <3>8. SaysAfter(next, <<"gate_result", "running">>) =
         [asks |-> FALSE, refused |-> FALSE, pr |-> was.pr, round |-> was.round,
          block |-> was.block, failed |-> TRUE, opened |-> was.opened]
      BY <3>6, <3>7
    <3> QED BY <3>2, <3>3, <3>5, <3>8
  <2>4. InboxOK'
    BY <2>1, <2>2, <2>3 DEF InboxInv, InboxOK, RowState
  <2>5. AsksOK(now)'
    BY <2>1, <2>2, <2>3 DEF InboxInv, AsksOK
  <2>6. PrOK(now)'
    BY <2>1, <2>2, <2>3 DEF InboxInv, PrOK
  <2>7. CacheOK'
    BY <2>1, <2>2, <2>3, CacheKept DEF InboxInv
  <2>8. WoundsOK(now)'
    BY <2>1, <2>2, <2>3 DEF InboxInv, WoundsOK
  <2> QED BY <2>3, <2>4, <2>5, <2>6, <2>7, <2>8 DEF InboxInv, AsksOK, PrOK, WoundsOK
<1>4. CASE to = "cut"
  <2>1. /\ UNCHANGED <<silent, conductor, targetAt, cache, pinned>>
        /\ rowState = "awaiting-review" /\ rowState' = "rejected" /\ why' = why /\ wounds' = wounds \cup {"failed"}
        /\ unanswered' = unanswered /\ bumped' = bumped /\ odd' = odd \cup {"cut"} /\ standing' = FALSE
        /\ eventLog' = eventLog \o <<<<"gate_result", "rejected">>>>
    BY <1>4 DEF RejectOrBlock, Moves, Logs, worldVars, GateResult, InboxInv, InboxOK
  <2>2. PICK was \in SaysRecord : was = Says(eventLog)
    BY DEF InboxInv, InboxOK
  <2>3. PICK now \in SaysRecord :
           /\ now = Says(eventLog') /\ eventLog' \in Seq(LogEvent)
           /\ now = [asks |-> was.asks, refused |-> FALSE, pr |-> was.pr, round |-> was.round,
                     block |-> was.block, failed |-> TRUE, opened |-> was.opened]
    <3>1. "rejected" \in LogWord /\ <<"gate_result", "rejected">> \in LogEvent
      BY DEF LogWord, LogEvent
    <3>2. eventLog' \in Seq(LogEvent) /\ Says(eventLog') \in SaysRecord
          /\ Says(eventLog') = SaysAfter(was, <<"gate_result", "rejected">>)
      BY <2>1, <2>2, <3>1, LogsOne DEF InboxInv
    <3>3. SaysAfter(was, <<"gate_result", "rejected">>) =
         [asks |-> was.asks, refused |-> FALSE, pr |-> was.pr, round |-> was.round,
          block |-> was.block, failed |-> TRUE, opened |-> was.opened]
      BY <3>1, GateSays
    <3> QED BY <3>2, <3>3
  <2>4. InboxOK'
    BY <2>1, <2>2, <2>3 DEF InboxInv, InboxOK, RowState
  <2>5. AsksOK(now)'
    BY <2>1, <2>2, <2>3 DEF InboxInv, AsksOK
  <2>6. PrOK(now)'
    BY <2>1, <2>2, <2>3 DEF InboxInv, PrOK
  <2>7. CacheOK'
    BY <2>1, <2>2, <2>3, CacheKept DEF InboxInv
  <2>8. WoundsOK(now)'
    BY <2>1, <2>2, <2>3 DEF InboxInv, WoundsOK
  <2> QED BY <2>3, <2>4, <2>5, <2>6, <2>7, <2>8 DEF InboxInv, AsksOK, PrOK, WoundsOK
<1> QED BY <1>1, <1>2, <1>3, <1>4

\* What logs nothing.
LEMMA TurnsKeep == InboxInv /\ (Hook \/ Ages \/ ConductorTurns) => InboxInv'
<1> SUFFICES ASSUME InboxInv, (Hook \/ Ages \/ ConductorTurns) PROVE InboxInv'
  OBVIOUS
<1>1. /\ UNCHANGED <<rowState, targetAt, cache, unanswered, bumped, standing, why, wounds, pinned, odd>>
      /\ eventLog' = eventLog /\ {silent', conductor'} \subseteq BOOLEAN
  BY DEF Hook, Ages, ConductorTurns, Moves, storeVars, truthVars, InboxInv, InboxOK
<1>2. PICK was \in SaysRecord : was = Says(eventLog)
  BY DEF InboxInv, InboxOK
<1>3. PICK now : now = Says(eventLog') /\ now = was /\ eventLog' = eventLog
  BY <1>1, <1>2
<1>4. InboxOK'
  BY <1>1, <1>2, <1>3 DEF InboxInv, InboxOK
<1>5. AsksOK(now)'
  BY <1>1, <1>2, <1>3 DEF InboxInv, AsksOK
<1>6. PrOK(now)'
  BY <1>1, <1>2, <1>3 DEF InboxInv, PrOK
<1>7. CacheOK'
  BY <1>1, <1>2, <1>3, CacheKept DEF InboxInv
<1>8. WoundsOK(now)'
  BY <1>1, <1>2, <1>3 DEF InboxInv, WoundsOK
<1> QED BY <1>3, <1>4, <1>5, <1>6, <1>7, <1>8 DEF InboxInv, AsksOK, PrOK, WoundsOK

LEMMA LaunchKeeps == InboxInv /\ LaunchAgain => InboxInv'
<1> SUFFICES ASSUME InboxInv, LaunchAgain PROVE InboxInv'
  OBVIOUS
<1>1. /\ UNCHANGED <<eventLog, silent, conductor, targetAt, cache, unanswered, bumped, standing, why, wounds, pinned, odd>>
      /\ rowState = "killed" /\ rowState' = "relaunched"
  BY DEF LaunchAgain, Moves, worldVars, truthVars
<1>2. PICK was \in SaysRecord : was = Says(eventLog)
  BY DEF InboxInv, InboxOK
<1>3. PICK now : now = Says(eventLog') /\ now = was /\ eventLog' = eventLog
  BY <1>1, <1>2
<1>4. InboxOK'
  BY <1>1, <1>2, <1>3 DEF InboxInv, InboxOK, RowState
<1>5. AsksOK(now)'
  BY <1>1, <1>2, <1>3 DEF InboxInv, AsksOK
<1>6. PrOK(now)'
  BY <1>1, <1>2, <1>3 DEF InboxInv, PrOK
<1>7. CacheOK'
  BY <1>1, <1>2, <1>3, CacheKept DEF InboxInv
<1>8. WoundsOK(now)'
  BY <1>1, <1>2, <1>3 DEF InboxInv, WoundsOK
<1> QED BY <1>3, <1>4, <1>5, <1>6, <1>7, <1>8 DEF InboxInv, AsksOK, PrOK, WoundsOK

LEMMA PullKeeps == InboxInv /\ Pull => InboxInv'
<1> SUFFICES ASSUME InboxInv, Pull PROVE InboxInv'
  OBVIOUS
<1>1. /\ UNCHANGED <<rowState, eventLog, silent, conductor, cache, unanswered, bumped, standing, why, wounds, odd>>
      /\ rowState = "merged" /\ pinned # 0 /\ pinned' = 0
      /\ targetAt' = [targetAt EXCEPT !.holds = @ \cup 1 .. pinned]
      /\ targetAt'.others = targetAt.others /\ targetAt'.holds = targetAt.holds \cup 1 .. pinned
  BY DEF Pull, Moves, storeVars, InboxInv, InboxOK, TipRecord
<1>2. PICK was \in SaysRecord : was = Says(eventLog)
  BY DEF InboxInv, InboxOK
<1>3. PICK now : now = Says(eventLog') /\ now = was /\ eventLog' = eventLog
  BY <1>1, <1>2
<1>4. InboxOK'
  <2>1. targetAt \in TipRecord /\ pinned \in Gated \cup {0} /\ 1 .. pinned \subseteq Gated
    BY DEF InboxInv, InboxOK, Gated
  <2>2. targetAt' \in TipRecord
    BY <1>1, <2>1 DEF TipRecord
  <2> QED BY <1>1, <1>2, <1>3, <2>2 DEF InboxInv, InboxOK
<1>5. AsksOK(now)'
  BY <1>1, <1>2, <1>3 DEF InboxInv, AsksOK
<1>6. PrOK(now)'
  <2>1. now.pr = was.pr /\ now.round = was.round /\ now.opened = was.opened
    BY <1>3
  <2>2. was.pr \in Nat /\ was.opened \in Nat /\ pinned \in Nat /\ targetAt.holds \subseteq 1 .. 2
    BY <1>1 DEF InboxInv, InboxOK, SaysRecord, TipRecord, Gated
  <2>3. PrOK(was)
    BY <1>2 DEF InboxInv
  <2> QED BY <1>1, <1>2, <2>1, <2>2, <2>3 DEF PrOK
<1>7. CacheOK'
  BY <1>1, <1>2, <1>3, CacheKept DEF InboxInv
<1>8. WoundsOK(now)'
  BY <1>1, <1>2, <1>3 DEF InboxInv, WoundsOK
<1> QED BY <1>3, <1>4, <1>5, <1>6, <1>7, <1>8 DEF InboxInv, AsksOK, PrOK, WoundsOK

LEMMA OthersKeep == InboxInv /\ Others => InboxInv'
<1> SUFFICES ASSUME InboxInv, Others PROVE InboxInv'
  OBVIOUS
<1>1. /\ UNCHANGED <<rowState, eventLog, silent, conductor, cache, unanswered, bumped, standing, why, wounds, pinned, odd>>
      /\ targetAt' = [targetAt EXCEPT !.others = @ + 1] /\ targetAt'.holds = targetAt.holds
  BY DEF Others, Moves, storeVars, truthVars, InboxInv, InboxOK, TipRecord
<1>2. PICK was \in SaysRecord : was = Says(eventLog)
  BY DEF InboxInv, InboxOK
<1>3. PICK now : now = Says(eventLog') /\ now = was /\ eventLog' = eventLog
  BY <1>1, <1>2
<1>4. InboxOK'
  <2>1. targetAt' \in TipRecord
    BY <1>1 DEF InboxInv, InboxOK, TipRecord
  <2> QED BY <1>1, <1>2, <1>3, <2>1 DEF InboxInv, InboxOK
<1>5. AsksOK(now)'
  BY <1>1, <1>2, <1>3 DEF InboxInv, AsksOK
<1>6. PrOK(now)'
  BY <1>1, <1>2, <1>3 DEF InboxInv, PrOK
<1>7. CacheOK'
  BY <1>1, <1>2, <1>3, CacheKept DEF InboxInv
<1>8. WoundsOK(now)'
  BY <1>1, <1>2, <1>3 DEF InboxInv, WoundsOK
<1> QED BY <1>3, <1>4, <1>5, <1>6, <1>7, <1>8 DEF InboxInv, AsksOK, PrOK, WoundsOK

LEMMA RewindKeeps == InboxInv /\ Rewind => InboxInv'
<1> SUFFICES ASSUME InboxInv, Rewind PROVE InboxInv'
  OBVIOUS
<1>1. /\ UNCHANGED <<rowState, eventLog, silent, conductor, cache, unanswered, bumped, standing, why, wounds, pinned>>
      /\ odd' = odd \cup {"rewound"} /\ targetAt'.holds \subseteq targetAt.holds /\ targetAt' \in TipRecord
  BY DEF Rewind, Moves, storeVars, InboxInv, InboxOK, TipRecord
<1>2. PICK was \in SaysRecord : was = Says(eventLog)
  BY DEF InboxInv, InboxOK
<1>3. PICK now : now = Says(eventLog') /\ now = was /\ eventLog' = eventLog
  BY <1>1, <1>2
<1>4. InboxOK'
  BY <1>1, <1>2, <1>3 DEF InboxInv, InboxOK
<1>5. AsksOK(now)'
  BY <1>1, <1>2, <1>3 DEF InboxInv, AsksOK
<1>6. PrOK(now)'
  BY <1>1, <1>2, <1>3 DEF InboxInv, PrOK
<1>7. CacheOK'
  BY <1>1, <1>2, <1>3, CacheKept DEF InboxInv
<1>8. WoundsOK(now)'
  BY <1>1, <1>2, <1>3 DEF InboxInv, WoundsOK
<1> QED BY <1>3, <1>4, <1>5, <1>6, <1>7, <1>8 DEF InboxInv, AsksOK, PrOK, WoundsOK

\* The pull request lands, or the session is merged or killed.
LEMMA LandedKeeps ==
    ASSUME InboxInv, NEW asIs \in BOOLEAN, Land(asIs)
    PROVE  InboxInv'
<1>1. CASE asIs
  <2>1. /\ UNCHANGED <<rowState, silent, conductor, cache, unanswered, bumped, standing, why, wounds, odd>>
        /\ rowState = "merged" /\ pinned # 0 /\ pinned' = 0 /\ targetAt' \in TipRecord
        /\ targetAt'.holds = targetAt.holds \cup 1 .. pinned
        /\ eventLog' = eventLog \o <<<<"landed", "none">>>>
    BY <1>1 DEF Land, Moves, Logs, InboxInv, InboxOK, TipRecord, Gated
  <2>2. PICK was \in SaysRecord : was = Says(eventLog)
    BY DEF InboxInv, InboxOK
  <2>3. PICK now \in SaysRecord :
           /\ now = Says(eventLog') /\ eventLog' \in Seq(LogEvent)
           /\ now = [asks |-> was.asks, refused |-> was.refused, pr |-> 0, round |-> FALSE,
                     block |-> was.block, failed |-> was.failed, opened |-> was.opened]
    <3>1. "none" \in LogWord /\ <<"landed", "none">> \in LogEvent
      BY DEF LogWord, LogEvent
    <3>2. eventLog' \in Seq(LogEvent) /\ Says(eventLog') \in SaysRecord
          /\ Says(eventLog') = SaysAfter(was, <<"landed", "none">>)
      BY <2>1, <2>2, <3>1, LogsOne DEF InboxInv
    <3>3. SaysAfter(was, <<"landed", "none">>) =
         [asks |-> was.asks, refused |-> was.refused, pr |-> 0, round |-> FALSE,
          block |-> was.block, failed |-> was.failed, opened |-> was.opened]
      BY <3>1, EachSays
    <3> QED BY <3>2, <3>3
  <2>4. InboxOK'
    BY <2>1, <2>2, <2>3 DEF InboxInv, InboxOK
  <2>5. AsksOK(now)'
    BY <2>1, <2>2, <2>3 DEF InboxInv, AsksOK
  <2>6. PrOK(now)'
    <3>1. now.pr = 0 /\ now.round = FALSE /\ now.opened = was.opened
      BY <2>3
    <3>2. was.pr \in Nat /\ was.opened \in Nat /\ pinned \in Nat /\ targetAt.holds \subseteq 1 .. 2
      BY <2>1 DEF InboxInv, InboxOK, SaysRecord, TipRecord, Gated
    <3>3. PrOK(was)
      BY <2>2 DEF InboxInv
    <3> QED BY <2>1, <2>2, <3>1, <3>2, <3>3 DEF PrOK
  <2>7. CacheOK'
    BY <2>1, <2>2, <2>3, CacheKept DEF InboxInv
  <2>8. WoundsOK(now)'
    BY <2>1, <2>2, <2>3 DEF InboxInv, WoundsOK
  <2> QED BY <2>3, <2>4, <2>5, <2>6, <2>7, <2>8 DEF InboxInv, AsksOK, PrOK, WoundsOK
<1>2. CASE ~asIs
  <2>1. /\ UNCHANGED <<rowState, silent, conductor, cache, unanswered, bumped, standing, why, wounds, odd>>
        /\ rowState = "merged" /\ pinned # 0 /\ pinned' = 0 /\ targetAt' \in TipRecord
        /\ targetAt'.holds = targetAt.holds
        /\ eventLog' = eventLog \o <<<<"landed", "none">>>>
    BY <1>2 DEF Land, Moves, Logs, InboxInv, InboxOK, TipRecord, Gated
  <2>2. PICK was \in SaysRecord : was = Says(eventLog)
    BY DEF InboxInv, InboxOK
  <2>3. PICK now \in SaysRecord :
           /\ now = Says(eventLog') /\ eventLog' \in Seq(LogEvent)
           /\ now = [asks |-> was.asks, refused |-> was.refused, pr |-> 0, round |-> FALSE,
                     block |-> was.block, failed |-> was.failed, opened |-> was.opened]
    <3>1. "none" \in LogWord /\ <<"landed", "none">> \in LogEvent
      BY DEF LogWord, LogEvent
    <3>2. eventLog' \in Seq(LogEvent) /\ Says(eventLog') \in SaysRecord
          /\ Says(eventLog') = SaysAfter(was, <<"landed", "none">>)
      BY <2>1, <2>2, <3>1, LogsOne DEF InboxInv
    <3>3. SaysAfter(was, <<"landed", "none">>) =
         [asks |-> was.asks, refused |-> was.refused, pr |-> 0, round |-> FALSE,
          block |-> was.block, failed |-> was.failed, opened |-> was.opened]
      BY <3>1, EachSays
    <3> QED BY <3>2, <3>3
  <2>4. InboxOK'
    BY <2>1, <2>2, <2>3 DEF InboxInv, InboxOK
  <2>5. AsksOK(now)'
    BY <2>1, <2>2, <2>3 DEF InboxInv, AsksOK
  <2>6. PrOK(now)'
    <3>1. now.pr = 0 /\ now.round = FALSE /\ now.opened = was.opened
      BY <2>3
    <3>2. was.pr \in Nat /\ was.opened \in Nat /\ pinned \in Nat /\ targetAt.holds \subseteq 1 .. 2
      BY <2>1 DEF InboxInv, InboxOK, SaysRecord, TipRecord, Gated
    <3>3. PrOK(was)
      BY <2>2 DEF InboxInv
    <3> QED BY <2>1, <2>2, <3>1, <3>2, <3>3 DEF PrOK
  <2>7. CacheOK'
    BY <2>1, <2>2, <2>3, CacheKept DEF InboxInv
  <2>8. WoundsOK(now)'
    BY <2>1, <2>2, <2>3 DEF InboxInv, WoundsOK
  <2> QED BY <2>3, <2>4, <2>5, <2>6, <2>7, <2>8 DEF InboxInv, AsksOK, PrOK, WoundsOK
<1> QED BY <1>1, <1>2

LEMMA MergeKeeps ==
    ASSUME InboxInv, NEW n \in Gated \cup {0}, NEW recorded \in BOOLEAN, MergeSession(n, recorded)
    PROVE  InboxInv'
<1>1. CASE recorded /\ n # 0
  <2>1. /\ UNCHANGED <<silent, conductor, targetAt, cache, unanswered, bumped, why, wounds>>
        /\ rowState = "awaiting-review" /\ rowState' = "merged" /\ pinned' = n /\ standing' = FALSE /\ odd' = odd
        /\ n \in Gated /\ n = 1 + Says(eventLog).opened
        /\ eventLog' = eventLog \o (<<<<"gate_result", "merged">>>> \o <<<<"merge", n>>>>)
    BY <1>1, ReadsTheLog DEF MergeSession, Moves, Logs, worldVars, GateResult
  <2>2. PICK was \in SaysRecord : was = Says(eventLog)
    BY DEF InboxInv, InboxOK
  <2>3. PICK now \in SaysRecord :
           /\ now = Says(eventLog') /\ eventLog' \in Seq(LogEvent)
           /\ now = [asks |-> was.asks, refused |-> FALSE, pr |-> n, round |-> FALSE,
                     block |-> was.block, failed |-> was.failed, opened |-> was.opened + 1]
    <3>1. "merged" \in LogWord /\ <<"gate_result", "merged">> \in LogEvent /\ <<"merge", n>> \in LogEvent
      BY <1>1 DEF LogWord, LogEvent
    <3>2. eventLog' \in Seq(LogEvent) /\ Says(eventLog') \in SaysRecord
          /\ Says(eventLog') = SaysAfter(SaysAfter(was, <<"gate_result", "merged">>), <<"merge", n>>)
      BY <2>1, <2>2, <3>1, LogsTwo DEF InboxInv
    <3>3. PICK then \in SaysRecord : /\ then = SaysAfter(was, <<"gate_result", "merged">>)
                     /\ then = [asks |-> was.asks, refused |-> FALSE, pr |-> was.pr, round |-> was.round,
                           block |-> was.block, failed |-> was.failed, opened |-> was.opened]
      BY <3>1, GateSays, SaysTyped
    <3>4. then.asks = was.asks /\ then.refused = FALSE /\ then.pr = was.pr
          /\ then.round = was.round /\ then.block = was.block /\ then.failed = was.failed
          /\ then.opened = was.opened
      BY <3>3
    <3>5. SaysAfter(then, <<"merge", n>>) =
         [asks |-> then.asks, refused |-> then.refused, pr |-> n, round |-> FALSE,
          block |-> then.block, failed |-> then.failed, opened |-> then.opened + 1]
      BY <3>1, <1>1, MergeSays
    <3>6. SaysAfter(then, <<"merge", n>>) =
         [asks |-> was.asks, refused |-> FALSE, pr |-> n, round |-> FALSE,
          block |-> was.block, failed |-> was.failed, opened |-> was.opened + 1]
      BY <3>4, <3>5
    <3> QED BY <3>2, <3>3, <3>6
  <2>4. InboxOK'
    BY <2>1, <2>2, <2>3 DEF InboxInv, InboxOK, RowState
  <2>5. AsksOK(now)'
    BY <2>1, <2>2, <2>3 DEF InboxInv, AsksOK
  <2>6. PrOK(now)'
    <3>1. now.pr = n /\ now.round = FALSE /\ now.opened = was.opened + 1
      BY <2>3
    <3>2. was.pr \in Nat /\ was.opened \in Nat /\ pinned \in Nat /\ targetAt.holds \subseteq 1 .. 2 /\ n \in Nat
      BY <2>1 DEF InboxInv, InboxOK, SaysRecord, TipRecord, Gated
    <3>3. PrOK(was)
      BY <2>2 DEF InboxInv
    <3>4. "cut" \notin odd => n \notin targetAt.holds /\ \A i \in targetAt.holds : i <= now.opened
      <4>1. "cut" \notin odd => \A i \in targetAt.holds : i <= was.opened
        BY <3>3 DEF PrOK
      <4>2. n = was.opened + 1
        BY <2>1, <2>2, <3>2
      <4>3. \A i \in 1 .. 2 : i <= was.opened => i # n /\ i <= now.opened
        BY <3>1, <3>2, <4>2
      <4> QED BY <3>2, <4>1, <4>3
    <3> QED BY <3>4, <2>1, <2>2, <3>1, <3>2, <3>3 DEF PrOK
  <2>7. CacheOK'
    BY <2>1, <2>2, <2>3, CacheKept DEF InboxInv
  <2>8. WoundsOK(now)'
    BY <2>1, <2>2, <2>3 DEF InboxInv, WoundsOK
  <2> QED BY <2>3, <2>4, <2>5, <2>6, <2>7, <2>8 DEF InboxInv, AsksOK, PrOK, WoundsOK
<1>2. CASE recorded /\ n = 0
  <2>1. /\ UNCHANGED <<silent, conductor, targetAt, cache, unanswered, bumped, why, wounds>>
        /\ rowState = "awaiting-review" /\ rowState' = "merged" /\ pinned' = n /\ standing' = FALSE /\ odd' = odd
        /\ n = 0 /\ ~Says(eventLog).round
        /\ eventLog' = eventLog \o (<<<<"gate_result", "merged">>>> \o <<<<"merge", 0>>>>)
    BY <1>2, ReadsTheLog DEF MergeSession, Moves, Logs, worldVars, GateResult
  <2>2. PICK was \in SaysRecord : was = Says(eventLog)
    BY DEF InboxInv, InboxOK
  <2>3. PICK now \in SaysRecord :
           /\ now = Says(eventLog') /\ eventLog' \in Seq(LogEvent)
           /\ now = [asks |-> was.asks, refused |-> FALSE, pr |-> 0, round |-> FALSE,
                     block |-> was.block, failed |-> was.failed, opened |-> was.opened]
    <3>1. "merged" \in LogWord /\ <<"gate_result", "merged">> \in LogEvent /\ <<"merge", 0>> \in LogEvent
      BY DEF LogWord, LogEvent
    <3>2. eventLog' \in Seq(LogEvent) /\ Says(eventLog') \in SaysRecord
          /\ Says(eventLog') = SaysAfter(SaysAfter(was, <<"gate_result", "merged">>), <<"merge", 0>>)
      BY <2>1, <2>2, <3>1, LogsTwo DEF InboxInv
    <3>3. PICK then \in SaysRecord : /\ then = SaysAfter(was, <<"gate_result", "merged">>)
                     /\ then = [asks |-> was.asks, refused |-> FALSE, pr |-> was.pr, round |-> was.round,
                           block |-> was.block, failed |-> was.failed, opened |-> was.opened]
      BY <3>1, GateSays, SaysTyped
    <3>4. then.asks = was.asks /\ then.refused = FALSE /\ then.pr = was.pr
          /\ then.round = was.round /\ then.block = was.block /\ then.failed = was.failed
          /\ then.opened = was.opened
      BY <3>3
    <3>5. SaysAfter(then, <<"merge", 0>>) =
         [asks |-> then.asks, refused |-> then.refused, pr |-> 0, round |-> FALSE,
          block |-> then.block, failed |-> then.failed, opened |-> then.opened]
      BY <3>1, MergeSays
    <3>6. SaysAfter(then, <<"merge", 0>>) =
         [asks |-> was.asks, refused |-> FALSE, pr |-> 0, round |-> FALSE,
          block |-> was.block, failed |-> was.failed, opened |-> was.opened]
      BY <3>4, <3>5
    <3> QED BY <3>2, <3>3, <3>6
  <2>4. InboxOK'
    BY <2>1, <2>2, <2>3 DEF InboxInv, InboxOK, RowState
  <2>5. AsksOK(now)'
    BY <2>1, <2>2, <2>3 DEF InboxInv, AsksOK
  <2>6. PrOK(now)'
    <3>1. now.pr = 0 /\ now.round = FALSE /\ now.opened = was.opened
      BY <2>3
    <3>2. was.pr \in Nat /\ was.opened \in Nat /\ pinned \in Nat /\ targetAt.holds \subseteq 1 .. 2
      BY <2>1 DEF InboxInv, InboxOK, SaysRecord, TipRecord, Gated
    <3>3. PrOK(was)
      BY <2>2 DEF InboxInv
    <3> QED BY <2>1, <2>2, <3>1, <3>2, <3>3 DEF PrOK
  <2>7. CacheOK'
    BY <2>1, <2>2, <2>3, CacheKept DEF InboxInv
  <2>8. WoundsOK(now)'
    BY <2>1, <2>2, <2>3 DEF InboxInv, WoundsOK
  <2> QED BY <2>3, <2>4, <2>5, <2>6, <2>7, <2>8 DEF InboxInv, AsksOK, PrOK, WoundsOK
<1>3. CASE ~recorded /\ n # 0
  <2>1. /\ UNCHANGED <<silent, conductor, targetAt, cache, unanswered, bumped, why, wounds>>
        /\ rowState = "awaiting-review" /\ rowState' = "merged" /\ pinned' = n /\ standing' = FALSE
        /\ odd' = odd \cup {"cut"}
        /\ n \in Gated /\ n = 1 + Says(eventLog).opened
        /\ eventLog' = eventLog \o <<<<"gate_result", "merged">>>>
    BY <1>3, ReadsTheLog DEF MergeSession, Moves, Logs, worldVars, GateResult
  <2>2. PICK was \in SaysRecord : was = Says(eventLog)
    BY DEF InboxInv, InboxOK
  <2>3. PICK now \in SaysRecord :
           /\ now = Says(eventLog') /\ eventLog' \in Seq(LogEvent)
           /\ now = [asks |-> was.asks, refused |-> FALSE, pr |-> was.pr, round |-> was.round,
                     block |-> was.block, failed |-> was.failed, opened |-> was.opened]
    <3>1. "merged" \in LogWord /\ <<"gate_result", "merged">> \in LogEvent
      BY DEF LogWord, LogEvent
    <3>2. eventLog' \in Seq(LogEvent) /\ Says(eventLog') \in SaysRecord
          /\ Says(eventLog') = SaysAfter(was, <<"gate_result", "merged">>)
      BY <2>1, <2>2, <3>1, LogsOne DEF InboxInv
    <3>3. SaysAfter(was, <<"gate_result", "merged">>) =
         [asks |-> was.asks, refused |-> FALSE, pr |-> was.pr, round |-> was.round,
          block |-> was.block, failed |-> was.failed, opened |-> was.opened]
      BY <3>1, GateSays
    <3> QED BY <3>2, <3>3
  <2>4. InboxOK'
    BY <2>1, <2>2, <2>3 DEF InboxInv, InboxOK, RowState
  <2>5. AsksOK(now)'
    BY <2>1, <2>2, <2>3 DEF InboxInv, AsksOK
  <2>6. PrOK(now)'
    <3>1. now.pr = was.pr /\ now.round = was.round /\ now.opened = was.opened
      BY <2>3
    <3>2. was.pr \in Nat /\ was.opened \in Nat /\ pinned \in Nat /\ targetAt.holds \subseteq 1 .. 2 /\ n \in Nat
      BY <2>1 DEF InboxInv, InboxOK, SaysRecord, TipRecord, Gated
    <3>3. PrOK(was)
      BY <2>2 DEF InboxInv
    <3> QED BY <2>1, <2>2, <3>1, <3>2, <3>3 DEF PrOK
  <2>7. CacheOK'
    BY <2>1, <2>2, <2>3, CacheKept DEF InboxInv
  <2>8. WoundsOK(now)'
    BY <2>1, <2>2, <2>3 DEF InboxInv, WoundsOK
  <2> QED BY <2>3, <2>4, <2>5, <2>6, <2>7, <2>8 DEF InboxInv, AsksOK, PrOK, WoundsOK
<1>4. CASE ~recorded /\ n = 0
  <2>1. /\ UNCHANGED <<silent, conductor, targetAt, cache, unanswered, bumped, why, wounds>>
        /\ rowState = "awaiting-review" /\ rowState' = "merged" /\ pinned' = n /\ standing' = FALSE
        /\ odd' = odd \cup {"cut"}
        /\ n = 0 /\ ~Says(eventLog).round
        /\ eventLog' = eventLog \o <<<<"gate_result", "merged">>>>
    BY <1>4, ReadsTheLog DEF MergeSession, Moves, Logs, worldVars, GateResult
  <2>2. PICK was \in SaysRecord : was = Says(eventLog)
    BY DEF InboxInv, InboxOK
  <2>3. PICK now \in SaysRecord :
           /\ now = Says(eventLog') /\ eventLog' \in Seq(LogEvent)
           /\ now = [asks |-> was.asks, refused |-> FALSE, pr |-> was.pr, round |-> was.round,
                     block |-> was.block, failed |-> was.failed, opened |-> was.opened]
    <3>1. "merged" \in LogWord /\ <<"gate_result", "merged">> \in LogEvent
      BY DEF LogWord, LogEvent
    <3>2. eventLog' \in Seq(LogEvent) /\ Says(eventLog') \in SaysRecord
          /\ Says(eventLog') = SaysAfter(was, <<"gate_result", "merged">>)
      BY <2>1, <2>2, <3>1, LogsOne DEF InboxInv
    <3>3. SaysAfter(was, <<"gate_result", "merged">>) =
         [asks |-> was.asks, refused |-> FALSE, pr |-> was.pr, round |-> was.round,
          block |-> was.block, failed |-> was.failed, opened |-> was.opened]
      BY <3>1, GateSays
    <3> QED BY <3>2, <3>3
  <2>4. InboxOK'
    BY <2>1, <2>2, <2>3 DEF InboxInv, InboxOK, RowState
  <2>5. AsksOK(now)'
    BY <2>1, <2>2, <2>3 DEF InboxInv, AsksOK
  <2>6. PrOK(now)'
    <3>1. now.pr = was.pr /\ now.round = was.round /\ now.opened = was.opened
      BY <2>3
    <3>2. was.pr \in Nat /\ was.opened \in Nat /\ pinned \in Nat /\ targetAt.holds \subseteq 1 .. 2 /\ n \in Nat
      BY <2>1 DEF InboxInv, InboxOK, SaysRecord, TipRecord, Gated
    <3>3. PrOK(was)
      BY <2>2 DEF InboxInv
    <3> QED BY <2>1, <2>2, <3>1, <3>2, <3>3 DEF PrOK
  <2>7. CacheOK'
    BY <2>1, <2>2, <2>3, CacheKept DEF InboxInv
  <2>8. WoundsOK(now)'
    BY <2>1, <2>2, <2>3 DEF InboxInv, WoundsOK
  <2> QED BY <2>3, <2>4, <2>5, <2>6, <2>7, <2>8 DEF InboxInv, AsksOK, PrOK, WoundsOK
<1> QED BY <1>1, <1>2, <1>3, <1>4

LEMMA KillKeeps ==
    ASSUME InboxInv, KillSession
    PROVE  InboxInv'
<1>1. CASE InRound
  <2>1. /\ UNCHANGED <<silent, conductor, targetAt, cache, unanswered, bumped, why, pinned, odd>>
        /\ rowState \notin {"merged", "killed"} /\ rowState' = "merged" /\ standing' = FALSE
        /\ wounds' \in {wounds, wounds \cup {"failed"}}
        /\ Says(eventLog).round
        /\ eventLog' = eventLog \o <<<<"gate_result", "merged">>>>
    BY <1>1, ReadsTheLog DEF KillSession, Live, Moves, Logs, worldVars, GateResult
  <2>2. PICK was \in SaysRecord : was = Says(eventLog)
    BY DEF InboxInv, InboxOK
  <2>3. PICK now \in SaysRecord :
           /\ now = Says(eventLog') /\ eventLog' \in Seq(LogEvent)
           /\ now = [asks |-> was.asks, refused |-> FALSE, pr |-> was.pr, round |-> was.round,
                     block |-> was.block, failed |-> was.failed, opened |-> was.opened]
    <3>1. "merged" \in LogWord /\ <<"gate_result", "merged">> \in LogEvent
      BY DEF LogWord, LogEvent
    <3>2. eventLog' \in Seq(LogEvent) /\ Says(eventLog') \in SaysRecord
          /\ Says(eventLog') = SaysAfter(was, <<"gate_result", "merged">>)
      BY <2>1, <2>2, <3>1, LogsOne DEF InboxInv
    <3>3. SaysAfter(was, <<"gate_result", "merged">>) =
         [asks |-> was.asks, refused |-> FALSE, pr |-> was.pr, round |-> was.round,
          block |-> was.block, failed |-> was.failed, opened |-> was.opened]
      BY <3>1, GateSays
    <3> QED BY <3>2, <3>3
  <2>4. InboxOK'
    BY <2>1, <2>2, <2>3 DEF InboxInv, InboxOK, RowState
  <2>5. AsksOK(now)'
    BY <2>1, <2>2, <2>3 DEF InboxInv, AsksOK
  <2>6. PrOK(now)'
    <3>1. now.pr = was.pr /\ now.round = was.round /\ now.opened = was.opened
      BY <2>3
    <3>2. was.pr \in Nat /\ was.opened \in Nat /\ pinned \in Nat /\ targetAt.holds \subseteq 1 .. 2
      BY <2>1 DEF InboxInv, InboxOK, SaysRecord, TipRecord, Gated
    <3>3. PrOK(was)
      BY <2>2 DEF InboxInv
    <3> QED BY <2>1, <2>2, <3>1, <3>2, <3>3 DEF PrOK
  <2>7. CacheOK'
    BY <2>1, <2>2, <2>3, CacheKept DEF InboxInv
  <2>8. WoundsOK(now)'
    BY <2>1, <2>2, <2>3 DEF InboxInv, WoundsOK
  <2> QED BY <2>3, <2>4, <2>5, <2>6, <2>7, <2>8 DEF InboxInv, AsksOK, PrOK, WoundsOK
<1>2. CASE ~InRound /\ rowState = "running" /\ silent
  <2>1. /\ UNCHANGED <<silent, conductor, targetAt, cache, unanswered, bumped, why, pinned, odd>>
        /\ rowState \notin {"merged", "killed"} /\ rowState' = "killed" /\ standing' = FALSE
        /\ wounds' = wounds \cup {"failed"}
        /\ ~Says(eventLog).round
        /\ eventLog' = eventLog \o <<<<"gate_result", "killed, stalled">>>>
    BY <1>2, ReadsTheLog DEF KillSession, Live, Moves, Logs, worldVars, GateResult
  <2>2. PICK was \in SaysRecord : was = Says(eventLog)
    BY DEF InboxInv, InboxOK
  <2>3. PICK now \in SaysRecord :
           /\ now = Says(eventLog') /\ eventLog' \in Seq(LogEvent)
           /\ now = [asks |-> was.asks, refused |-> FALSE, pr |-> was.pr, round |-> was.round,
                     block |-> was.block, failed |-> TRUE, opened |-> was.opened]
    <3>1. "killed, stalled" \in LogWord /\ <<"gate_result", "killed, stalled">> \in LogEvent
      BY DEF LogWord, LogEvent
    <3>2. eventLog' \in Seq(LogEvent) /\ Says(eventLog') \in SaysRecord
          /\ Says(eventLog') = SaysAfter(was, <<"gate_result", "killed, stalled">>)
      BY <2>1, <2>2, <3>1, LogsOne DEF InboxInv
    <3>3. SaysAfter(was, <<"gate_result", "killed, stalled">>) =
         [asks |-> was.asks, refused |-> FALSE, pr |-> was.pr, round |-> was.round,
          block |-> was.block, failed |-> TRUE, opened |-> was.opened]
      BY <3>1, GateSays
    <3> QED BY <3>2, <3>3
  <2>9. /\ now.asks = was.asks /\ now.refused = FALSE /\ now.pr = was.pr /\ now.round = was.round
        /\ now.block = was.block /\ now.failed = TRUE /\ now.opened = was.opened
    BY <2>3
  <2>4. InboxOK'
    BY <2>1, <2>2, <2>3 DEF InboxInv, InboxOK, RowState
  <2>5. AsksOK(now)'
    BY <2>1, <2>2, <2>9 DEF InboxInv, AsksOK
  <2>6. PrOK(now)'
    BY <2>1, <2>2, <2>9 DEF InboxInv, PrOK
  <2>7. CacheOK'
    BY <2>1, <2>2, <2>3, CacheKept DEF InboxInv
  <2>8. WoundsOK(now)'
    BY <2>1, <2>2, <2>9 DEF InboxInv, WoundsOK
  <2> QED BY <2>3, <2>4, <2>5, <2>6, <2>7, <2>8 DEF InboxInv, AsksOK, PrOK, WoundsOK
<1>3. CASE ~InRound /\ ~(rowState = "running" /\ silent)
  <2>1. /\ UNCHANGED <<silent, conductor, targetAt, cache, unanswered, bumped, why, pinned, odd>>
        /\ rowState \notin {"merged", "killed"} /\ rowState' = "killed" /\ standing' = FALSE /\ wounds' = wounds
        /\ ~Says(eventLog).round
        /\ eventLog' = eventLog \o <<<<"gate_result", "killed">>>>
    BY <1>3, ReadsTheLog DEF KillSession, Live, Moves, Logs, worldVars, GateResult
  <2>2. PICK was \in SaysRecord : was = Says(eventLog)
    BY DEF InboxInv, InboxOK
  <2>3. PICK now \in SaysRecord :
           /\ now = Says(eventLog') /\ eventLog' \in Seq(LogEvent)
           /\ now = [asks |-> was.asks, refused |-> FALSE, pr |-> was.pr, round |-> was.round,
                     block |-> was.block, failed |-> was.failed, opened |-> was.opened]
    <3>1. "killed" \in LogWord /\ <<"gate_result", "killed">> \in LogEvent
      BY DEF LogWord, LogEvent
    <3>2. eventLog' \in Seq(LogEvent) /\ Says(eventLog') \in SaysRecord
          /\ Says(eventLog') = SaysAfter(was, <<"gate_result", "killed">>)
      BY <2>1, <2>2, <3>1, LogsOne DEF InboxInv
    <3>3. SaysAfter(was, <<"gate_result", "killed">>) =
         [asks |-> was.asks, refused |-> FALSE, pr |-> was.pr, round |-> was.round,
          block |-> was.block, failed |-> was.failed, opened |-> was.opened]
      BY <3>1, GateSays
    <3> QED BY <3>2, <3>3
  <2>4. InboxOK'
    BY <2>1, <2>2, <2>3 DEF InboxInv, InboxOK, RowState
  <2>5. AsksOK(now)'
    BY <2>1, <2>2, <2>3 DEF InboxInv, AsksOK
  <2>6. PrOK(now)'
    BY <2>1, <2>2, <2>3 DEF InboxInv, PrOK
  <2>7. CacheOK'
    BY <2>1, <2>2, <2>3, CacheKept DEF InboxInv
  <2>8. WoundsOK(now)'
    BY <2>1, <2>2, <2>3 DEF InboxInv, WoundsOK
  <2> QED BY <2>3, <2>4, <2>5, <2>6, <2>7, <2>8 DEF InboxInv, AsksOK, PrOK, WoundsOK
<1> QED BY <1>1, <1>2, <1>3

\* A look logs nothing: what it keeps of a commit is what git said of it.
LEMMA LookKeeps ==
    ASSUME InboxInv, NEW inTime \in BOOLEAN, Look(inTime)
    PROVE  InboxInv'
<1>1. /\ UNCHANGED <<rowState, silent, conductor, targetAt, unanswered, bumped, standing, why, wounds, pinned, odd>>
      /\ eventLog' = eventLog /\ cache' = remembered(dashboardSession.pr, inTime)
  BY DEF Look, storeVars, worldVars, truthVars
<1>2. PICK was \in SaysRecord : was = Says(eventLog)
  BY DEF InboxInv, InboxOK
<1>3. PICK n \in Gated \cup {0} : n = dashboardSession.pr
  <2>1. openPullRequest \in Gated \cup {0}
    BY <1>2, ReadsTheLog DEF SaysRecord
  <2> QED BY <2>1 DEF dashboardSession
<1>4. \/ cache' = cache
      \/ n # 0 /\ n \in targetAt.holds /\ cache' = [cache EXCEPT ![n] = [landed |-> TRUE, tip |-> NoTip]]
      \/ n # 0 /\ n \notin targetAt.holds /\ cache' = [cache EXCEPT ![n] = [landed |-> FALSE, tip |-> targetAt]]
  BY <1>1, <1>3 DEF remembered, isLanded
<1>5. cache' \in [Gated -> [landed : BOOLEAN, tip : TipRecord]] /\ CacheOK'
  <2>1. cache \in [Gated -> [landed : BOOLEAN, tip : TipRecord]] /\ CacheOK /\ targetAt \in TipRecord
    BY DEF InboxInv, InboxOK
  <2>2. NoTip \in TipRecord /\ NoTip.holds = {}
    BY DEF NoTip, TipRecord
  <2>3. CASE cache' = cache
    BY <1>1, <2>1, <2>3 DEF CacheOK
  <2>4. CASE n # 0 /\ n \in targetAt.holds /\ cache' = [cache EXCEPT ![n] = [landed |-> TRUE, tip |-> NoTip]]
    <3>1. [landed |-> TRUE, tip |-> NoTip] \in [landed : BOOLEAN, tip : TipRecord]
      BY <2>2
    <3>2. cache' \in [Gated -> [landed : BOOLEAN, tip : TipRecord]]
      BY <1>3, <2>1, <2>4, <3>1
    <3>3. \A m \in Gated : IF m = n THEN cache'[m].landed = TRUE /\ cache'[m].tip = NoTip ELSE cache'[m] = cache[m]
      BY <2>1, <2>4
    <3> QED BY <1>1, <2>1, <2>2, <2>4, <3>2, <3>3 DEF CacheOK
  <2>5. CASE n # 0 /\ n \notin targetAt.holds /\ cache' = [cache EXCEPT ![n] = [landed |-> FALSE, tip |-> targetAt]]
    <3>1. [landed |-> FALSE, tip |-> targetAt] \in [landed : BOOLEAN, tip : TipRecord]
      BY <2>1
    <3>2. cache' \in [Gated -> [landed : BOOLEAN, tip : TipRecord]]
      BY <1>3, <2>1, <2>5, <3>1
    <3>3. \A m \in Gated :
              IF m = n THEN cache'[m].landed = FALSE /\ cache'[m].tip = targetAt ELSE cache'[m] = cache[m]
      BY <2>1, <2>5
    <3> QED BY <1>1, <2>1, <2>5, <3>2, <3>3 DEF CacheOK
  <2> QED BY <1>4, <2>3, <2>4, <2>5
<1>6. InboxOK'
  BY <1>1, <1>5 DEF InboxInv, InboxOK
<1>7. AsksOK(was)'
  BY <1>1, <1>2 DEF InboxInv, AsksOK
<1>8. PrOK(was)'
  BY <1>1, <1>2 DEF InboxInv, PrOK
<1>9. WoundsOK(was)'
  BY <1>1, <1>2 DEF InboxInv, WoundsOK
<1>10. was = Says(eventLog')
  BY <1>1, <1>2
<1> QED BY <1>5, <1>6, <1>7, <1>8, <1>9, <1>10 DEF InboxInv, AsksOK, PrOK, WoundsOK

\* What the last look said is so until something moves.
LineOK ==
    line # "unread" =>
        /\ "cut" \notin odd =>
            /\ rowState = "running" /\ unanswered /\ ~bumped => line = "question"
            /\ rowState = "running" /\ silent => line \in {"question", "stalled"}
            /\ rowState = "blocked" => line = "blocked"
            /\ rowState = "awaiting-review" /\ (standing \/ ~conductor) => line = "awaiting-review"
            /\ rowState = "merged" /\ pinned # 0 /\ "rewound" \notin odd => line = "pr-open"
            /\ rowState = "killed" /\ given = "top" /\ wounds = {"failed"} => line = "top-rung"
        /\ line = "question" => unanswered
        /\ line = "awaiting-review" => standing \/ ~conductor
        /\ line = "pr-open" /\ "rewound" \notin odd => pinned # 0 /\ openPullRequest \notin targetAt.holds
        /\ line = "top-rung" => "failed" \in wounds

LEMMA LookTells ==
    ASSUME InboxInv, NEW inTime \in BOOLEAN, Look(inTime), given' = given
    PROVE  LineOK'
<1>1. PICK was \in SaysRecord : was = Says(eventLog)
  BY DEF InboxInv, InboxOK
<1>2. AsksOK(was) /\ PrOK(was) /\ CacheOK /\ WoundsOK(was)
  BY <1>1 DEF InboxInv
<1>3. PICK need : need = needOf(inTime)
  OBVIOUS
<1>4. /\ UNCHANGED <<rowState, eventLog, silent, conductor, targetAt, unanswered, bumped, standing, why, wounds, pinned, odd>>
      /\ line' # "unread" => line' = need /\ (need = "pr-open" => inTime)
      /\ given' = given
  BY <1>3 DEF Look, storeVars, worldVars, truthVars
<1>5. openPullRequest' = was.pr
  <2>1. openPullRequest' = openPullRequest
    BY <1>4 DEF openPullRequest, newest
  <2> QED BY <1>1, <2>1, ReadsTheLog
<1>6. PICK top \in BOOLEAN : top = topRungFailure
  BY DEF topRungFailure
<1>7. top <=> rowState = "killed" /\ given = "top" /\ was.block = "none" /\ was.failed
  <2>1. (\E i \in DOMAIN eventLog : eventLog[i] = <<"gate_result", "rejected">> \/ eventLog[i][1] = "turn_died")
           \/ <<"gate_result", "killed, stalled">> \in Range(eventLog)
        <=> \E i \in DOMAIN eventLog : Fails(eventLog[i])
    BY DEF Fails, Range
  <2> QED BY <1>1, <1>6, <2>1, ReadsTheLog DEF topRungFailure
<1>8. PICK landed \in BOOLEAN : was.pr # 0 => landed = isLanded(was.pr, inTime)
  <2>1. CASE was.pr = 0
    BY <2>1
  <2>2. CASE was.pr # 0
    <3>1. was.pr \in Gated /\ cache \in [Gated -> [landed : BOOLEAN, tip : TipRecord]]
      BY <2>2 DEF SaysRecord, InboxInv, InboxOK
    <3>2. cache[was.pr].landed \in BOOLEAN
      BY <3>1
    <3>3. isLanded(was.pr, inTime) \in BOOLEAN
      BY <3>2 DEF isLanded
    <3> QED BY <3>3
  <2> QED BY <2>1, <2>2
<1>9. need = IF rowState = "running" /\ was.asks THEN "question"
             ELSE IF rowState = "blocked" THEN "blocked"
             ELSE IF top THEN "top-rung"
             ELSE IF rowState = "running" /\ silent THEN "stalled"
             ELSE IF rowState = "awaiting-review" /\ (was.refused \/ ~conductor) THEN "awaiting-review"
             ELSE IF rowState = "merged" /\ was.pr # 0 /\ ~landed THEN "pr-open"
             ELSE "none"
  <2>1. /\ dashboardSession.question <=> rowState = "running" /\ was.asks
        /\ dashboardSession.stalled <=> rowState = "running" /\ silent
        /\ dashboardSession.review <=> rowState = "awaiting-review" /\ (was.refused \/ ~conductor)
        /\ dashboardSession.pr = IF rowState = "merged" THEN was.pr ELSE 0
    BY <1>1, ReadsTheLog DEF dashboardSession, isOperators
  <2> QED BY <1>3, <1>6, <1>8, <2>1 DEF needOf
<1>10. was.pr # 0 => (landed /\ "rewound" \notin odd => was.pr \in targetAt.holds)
                     /\ (~landed /\ inTime => was.pr \notin targetAt.holds)
  <2>1. was.pr \in Gated \cup {0}
    BY DEF SaysRecord
  <2>2. was.pr # 0 => (cache[was.pr].landed /\ "rewound" \notin odd => was.pr \in targetAt.holds)
                      /\ was.pr \notin cache[was.pr].tip.holds
    BY <1>2, <2>1 DEF CacheOK
  <2> QED BY <1>8, <2>2 DEF isLanded, knownLanding
<1>11. CASE line' = "unread"
  BY <1>11 DEF LineOK
<1>12. CASE line' # "unread"
  <2>1. line' = need /\ (need = "pr-open" => inTime)
    BY <1>4, <1>12
  <2>2. "cut" \notin odd =>
            /\ rowState = "running" /\ unanswered /\ ~bumped => need = "question"
            /\ rowState = "running" /\ silent => need \in {"question", "stalled"}
            /\ rowState = "blocked" => need = "blocked"
            /\ rowState = "awaiting-review" /\ (standing \/ ~conductor) => need = "awaiting-review"
    BY <1>2, <1>7, <1>9 DEF AsksOK
  <2>3. "cut" \notin odd /\ "rewound" \notin odd /\ rowState = "merged" /\ pinned # 0 => need = "pr-open"
    <3> SUFFICES ASSUME "cut" \notin odd, "rewound" \notin odd, rowState = "merged", pinned # 0
                 PROVE  need = "pr-open"
      OBVIOUS
    <3>1. was.pr = pinned /\ pinned \notin targetAt.holds
      BY <1>2 DEF PrOK
    <3>2. was.pr # 0 /\ ~landed
      BY <1>10, <3>1
    <3> QED BY <1>7, <1>9, <3>2
  <2>4. rowState = "killed" /\ given = "top" /\ wounds = {"failed"} => need = "top-rung"
    BY <1>2, <1>7, <1>9 DEF WoundsOK
  <2>5. /\ need = "question" => unanswered
        /\ need = "awaiting-review" => standing \/ ~conductor
        /\ need = "top-rung" => "failed" \in wounds
    <3>1. need = "question" => unanswered
      BY <1>2, <1>9 DEF AsksOK
    <3>2. need = "awaiting-review" => standing \/ ~conductor
      BY <1>2, <1>9 DEF AsksOK
    <3>3. need = "top-rung" => "failed" \in wounds
      BY <1>2, <1>7, <1>9 DEF WoundsOK
    <3> QED BY <3>1, <3>2, <3>3
  <2>6. need = "pr-open" /\ "rewound" \notin odd => pinned # 0 /\ was.pr \notin targetAt.holds
    <3>1. need = "pr-open" => was.pr # 0 /\ ~landed
      BY <1>9
    <3> QED BY <1>2, <1>10, <2>1, <3>1 DEF PrOK
  <2>7. /\ UNCHANGED <<rowState, silent, conductor, unanswered, bumped, standing, wounds, pinned, odd, given>>
        /\ targetAt' = targetAt
    BY <1>4
  <2>8. "cut" \notin odd' =>
            /\ rowState' = "running" /\ unanswered' /\ ~bumped' => line' = "question"
            /\ rowState' = "running" /\ silent' => line' \in {"question", "stalled"}
            /\ rowState' = "blocked" => line' = "blocked"
            /\ rowState' = "awaiting-review" /\ (standing' \/ ~conductor') => line' = "awaiting-review"
    BY <2>1, <2>2, <2>7
  <2>9. "cut" \notin odd' =>
            /\ rowState' = "merged" /\ pinned' # 0 /\ "rewound" \notin odd' => line' = "pr-open"
            /\ rowState' = "killed" /\ given' = "top" /\ wounds' = {"failed"} => line' = "top-rung"
    BY <2>1, <2>3, <2>4, <2>7
  <2>10. /\ line' = "question" => unanswered'
         /\ line' = "awaiting-review" => standing' \/ ~conductor'
         /\ line' = "top-rung" => "failed" \in wounds'
    BY <2>1, <2>5, <2>7
  <2>11. line' = "pr-open" /\ "rewound" \notin odd' => pinned' # 0 /\ openPullRequest' \notin targetAt'.holds
    BY <1>5, <2>1, <2>6, <2>7
  <2> QED BY <2>8, <2>9, <2>10, <2>11 DEF LineOK
<1> QED BY <1>11, <1>12

\* An empty log says nothing, and a first event what it says.
LEMMA SaysNothing ==
    /\ <<>> \in Seq(LogEvent)
    /\ Says(<<>>).asks = FALSE /\ Says(<<>>).refused = FALSE /\ Says(<<>>).pr = 0 /\ Says(<<>>).round = FALSE
    /\ Says(<<>>).block = "none" /\ Says(<<>>).failed = FALSE /\ Says(<<>>).opened = 0
    /\ Says(<<>>) \in SaysRecord
<1>1. \A types : NewestIn(<<>>, types) = NoEvent
  BY DEF NewestIn
<1>2. BlockIn(<<>>) = "none"
  BY DEF BlockIn
<1>3. ~ \E i \in DOMAIN <<>> : Fails(<<>>[i])
  OBVIOUS
<1>4. Cardinality({i \in DOMAIN <<>> : Opens(<<>>[i])}) = 0
  <2>1. {i \in DOMAIN <<>> : Opens(<<>>[i])} = {}
    OBVIOUS
  <2> QED BY <2>1, FS_EmptySet
<1>5. NoEvent[1] = "none" /\ NoEvent # <<"gate_result", "refused">>
  BY DEF NoEvent
<1>6. /\ Says(<<>>).asks = FALSE /\ Says(<<>>).refused = FALSE /\ Says(<<>>).pr = 0 /\ Says(<<>>).round = FALSE
      /\ Says(<<>>).block = "none" /\ Says(<<>>).failed = FALSE /\ Says(<<>>).opened = 0
  BY <1>1, <1>2, <1>3, <1>4, <1>5 DEF Says
<1>7. Says(<<>>) \in SaysRecord
  BY <1>6 DEF Says, SaysRecord, Gated
<1> QED BY <1>6, <1>7

LEMMA InboxInvInit == InboxInit => InboxInv /\ LineOK
<1> SUFFICES ASSUME InboxInit PROVE InboxInv /\ LineOK
  OBVIOUS
<1>1. /\ targetAt = [others |-> 0, holds |-> {}] /\ cache = [n \in Gated |-> Unasked]
      /\ unanswered = FALSE /\ bumped = FALSE /\ standing = FALSE /\ why = "none" /\ odd = {}
      /\ silent = FALSE /\ conductor = FALSE /\ line = "unread"
  BY DEF InboxInit, InboxStart
<1>2. \/ rowState = "running" /\ eventLog = <<>> /\ pinned = 0 /\ wounds = {}
      \/ rowState = "merged" /\ eventLog = <<<<"merge", 1>>>> /\ pinned = 1 /\ wounds = {}
      \/ rowState = "running" /\ eventLog = <<<<"gate_result", "cap">>>> /\ pinned = 0 /\ wounds = {"blocked"}
  BY DEF InboxInit, InboxStart
<1>3. targetAt \in TipRecord /\ cache \in [Gated -> [landed : BOOLEAN, tip : TipRecord]] /\ CacheOK
  <2>1. NoTip \in TipRecord /\ NoTip.holds = {} /\ targetAt \in TipRecord
    BY <1>1 DEF NoTip, TipRecord
  <2>2. Unasked \in [landed : BOOLEAN, tip : TipRecord] /\ Unasked.landed = FALSE /\ Unasked.tip = NoTip
    BY <2>1 DEF Unasked
  <2> QED BY <1>1, <2>1, <2>2 DEF CacheOK
<1>4. PICK says \in SaysRecord :
         /\ says = Says(eventLog) /\ eventLog \in Seq(LogEvent)
         /\ ~says.asks /\ ~says.refused /\ ~says.round /\ ~says.failed
         /\ \/ rowState = "running" /\ pinned = 0 /\ wounds = {} /\ says.pr = 0 /\ says.opened = 0 /\ says.block = "none"
            \/ rowState = "merged" /\ pinned = 1 /\ wounds = {} /\ says.pr = 1 /\ says.opened = 1 /\ says.block = "none"
            \/ /\ rowState = "running" /\ pinned = 0 /\ wounds = {"blocked"}
               /\ says.pr = 0 /\ says.opened = 0 /\ says.block = "cap"
  <2>1. PICK none \in SaysRecord :
           /\ none = Says(<<>>)
           /\ ~none.asks /\ ~none.refused /\ none.pr = 0 /\ ~none.round /\ none.block = "none" /\ ~none.failed
           /\ none.opened = 0
    BY SaysNothing
  <2>2. CASE eventLog = <<>>
    BY <1>2, <2>1, <2>2, SaysNothing
  <2>3. CASE eventLog = <<<<"merge", 1>>>>
    <3>1. <<"merge", 1>> \in LogEvent /\ eventLog = Append(<<>>, <<"merge", 1>>) /\ eventLog \in Seq(LogEvent)
      BY <2>3 DEF LogEvent, Gated
    <3>2. Says(eventLog) = SaysAfter(none, <<"merge", 1>>)
      BY <2>1, <3>1, SaysNothing, SaysMore
    <3>3. Says(eventLog) = [asks |-> none.asks, refused |-> none.refused, pr |-> 1, round |-> FALSE,
                            block |-> none.block, failed |-> none.failed, opened |-> none.opened + 1]
      <4>1. 1 \in Gated \cup {0} /\ 1 # 0
        BY DEF Gated
      <4> QED BY <3>2, <4>1, MergeSays
    <3>4. Says(eventLog) \in SaysRecord
      BY <3>1, <3>2, SaysTyped
    <3>5. PICK says \in SaysRecord : says = Says(eventLog)
      BY <3>4
    <3>6. /\ ~says.asks /\ ~says.refused /\ ~says.round /\ ~says.failed
          /\ says.pr = 1 /\ says.opened = 1 /\ says.block = "none"
      BY <2>1, <3>3, <3>5
    <3>7. rowState = "merged" /\ pinned = 1 /\ wounds = {}
      BY <1>2, <2>3
    <3> QED BY <3>1, <3>5, <3>6, <3>7
  <2>4. CASE eventLog = <<<<"gate_result", "cap">>>>
    <3>1. <<"gate_result", "cap">> \in LogEvent /\ eventLog = Append(<<>>, <<"gate_result", "cap">>)
          /\ eventLog \in Seq(LogEvent)
      <4>1. "cap" \in LogWord
        BY DEF LogWord
      <4>2. <<"gate_result", "cap">> \in LogEvent
        BY <4>1 DEF LogEvent
      <4> QED BY <2>4, <4>2
    <3>2. Says(eventLog) = SaysAfter(none, <<"gate_result", "cap">>)
      BY <2>1, <3>1, SaysNothing, SaysMore
    <3>3. Says(eventLog) = [asks |-> none.asks, refused |-> FALSE, pr |-> none.pr, round |-> none.round,
                            block |-> "cap", failed |-> none.failed, opened |-> none.opened]
      BY <3>2, GateSays
    <3>4. Says(eventLog) \in SaysRecord
      BY <3>1, <3>2, SaysTyped
    <3>5. PICK says \in SaysRecord : says = Says(eventLog)
      BY <3>4
    <3>6. /\ ~says.asks /\ ~says.refused /\ ~says.round /\ ~says.failed
          /\ says.pr = 0 /\ says.opened = 0 /\ says.block = "cap"
      BY <2>1, <3>3, <3>5
    <3>7. rowState = "running" /\ pinned = 0 /\ wounds = {"blocked"}
      BY <1>2, <2>4
    <3> QED BY <3>1, <3>5, <3>6, <3>7
  <2> QED BY <1>2, <2>2, <2>3, <2>4
<1>5. InboxOK
  <2>1. rowState \in RowState /\ pinned \in Gated \cup {0}
    BY <1>2 DEF RowState, Gated
  <2>2. Says(eventLog) \in SaysRecord /\ eventLog \in Seq(LogEvent)
    BY <1>4
  <2> QED BY <1>1, <1>3, <2>1, <2>2 DEF InboxOK
<1>6. AsksOK(says)
  BY <1>1, <1>4 DEF AsksOK
<1>7. PrOK(says)
  <2>1. targetAt.holds = {}
    BY <1>1
  <2> QED BY <1>1, <1>4, <2>1 DEF PrOK
<1>8. WoundsOK(says)
  BY <1>1, <1>4 DEF WoundsOK
<1>9. LineOK
  BY <1>1 DEF LineOK
<1> QED BY <1>3, <1>4, <1>5, <1>6, <1>7, <1>8, <1>9 DEF InboxInv

LEMMA InboxSuffices ==
    ASSUME subject = "inbox" => InboxInv /\ LineOK PROVE InboxIsTrue
<1>1. subject = "inbox" => (rowState = "blocked" => blockedReason = why)
  BY ReadsTheLog DEF InboxInv, WoundsOK
<1>2. NobodyWaitsUnseen
  BY DEF NobodyWaitsUnseen, LookedAt, LineOK
<1>3. NothingSettledIsSeen
  BY DEF NothingSettledIsSeen, LookedAt, LineOK
<1> QED BY <1>1, <1>2, <1>3 DEF InboxIsTrue, BlockIsTold

\* The inbox in its bounds.
InboxBounded ==
    /\ Len(eventLog) <= MaxLogged + Before
    /\ targetAt \in Tip /\ cache \in [Gated -> [landed : BOOLEAN, tip : Tip \cup {NoTip}]]
    /\ line \in Kind \cup {"none", "unread"} /\ why \in {"none", "cap", "unreached"}
    /\ wounds \subseteq {"failed", "blocked"} /\ odd \subseteq {"cut", "rewound"}

LEMMA InboxTypedBy == ASSUME InboxInv, InboxBounded PROVE InboxTypeOK
  BY DEF InboxInv, InboxOK, RowState, CacheOK, InboxBounded, InboxTypeOK

\* What a command adds to the log.
Added(a, b, c) == {<<a>>, <<a, b>>, <<a>> \o <<>>, <<a>> \o <<b>>, <<a>> \o <<b, c>>}

LEMMA LogIsBounded ==
    ASSUME InboxInv, InboxBounded, Before' = Before, Before \in Nat, NEW a, NEW b, NEW c,
           NEW logged \in Added(a, b, c), Logs(logged)
    PROVE  Len(eventLog') <= MaxLogged + Before'
<1>1. PICK S : eventLog \in Seq(S) /\ logged \in Seq(S)
  <2> DEFINE S == LogEvent \cup {a, b, c}
  <2>1. eventLog \in Seq(S)
    <3>1. eventLog \in Seq(LogEvent)
      BY DEF InboxInv, InboxOK
    <3> HIDE DEF S
    <3>2. LogEvent \subseteq S
      BY DEF S
    <3> QED BY <3>1, <3>2
  <2>2. a \in S /\ b \in S /\ c \in S
    OBVIOUS
  <2> HIDE DEF S
  <2>3. logged \in Seq(S)
    <3>1. <<a>> \in Seq(S) /\ <<b>> \in Seq(S) /\ <<a, b>> \in Seq(S) /\ <<b, c>> \in Seq(S) /\ <<>> \in Seq(S)
      BY <2>2
    <3>2. <<a>> \o <<>> \in Seq(S) /\ <<a>> \o <<b>> \in Seq(S) /\ <<a>> \o <<b, c>> \in Seq(S)
      BY <3>1
    <3> QED BY <3>1, <3>2 DEF Added
  <2> QED BY <2>1, <2>3
<1>2. eventLog' = eventLog \o logged /\ Len(eventLog) + Len(logged) <= MaxLogged + Before
  BY DEF Logs
<1>3. Len(eventLog') = Len(eventLog) + Len(logged)
  BY <1>1, <1>2
<1> QED BY <1>2, <1>3

LEMMA LogPartsAre ==
    ASSUME InboxNext
    PROVE  UNCHANGED eventLog \/ \E a, b, c : \E logged \in Added(a, b, c) : Logs(logged)
<1>1. ASSUME NEW a, NEW b, NEW c
      PROVE  /\ Logs(<<a>>) \/ Logs(<<a, b>>) \/ Logs(<<a>> \o <<>>) \/ Logs(<<a>> \o <<b>>) \/ Logs(<<a>> \o <<b, c>>)
                => \E x, y, z : \E logged \in Added(x, y, z) : Logs(logged)
  BY DEF Added
<1>2. CASE AskOperator \/ SteerSession \/ requestHandoff \/ Refuse \/ UnblockSession \/ KillSession
  BY <1>1, <1>2 DEF AskOperator, SteerSession, requestHandoff, Refuse, UnblockSession, KillSession
<1>3. CASE (\E asIs \in BOOLEAN : Land(asIs)) \/ Fix
  BY <1>1, <1>3 DEF Land, Fix
<1>4. ASSUME NEW delivered \in BOOLEAN, Resume(delivered)
      PROVE  \E x, y, z : \E logged \in Added(x, y, z) : Logs(logged)
  BY <1>1, <1>4 DEF Resume
<1>5. CASE Done
  BY <1>1, <1>5 DEF Done
<1>6. ASSUME NEW to \in {"running", "cap", "unreached", "cut"}, RejectOrBlock(to)
      PROVE  \E x, y, z : \E logged \in Added(x, y, z) : Logs(logged)
  <2>1. CASE to = "running"
    BY <1>1, <1>6, <2>1 DEF RejectOrBlock
  <2>2. CASE to = "cut"
    BY <1>1, <1>6, <2>2 DEF RejectOrBlock
  <2>3. CASE to \in {"cap", "unreached"}
    BY <1>1, <1>6, <2>3 DEF RejectOrBlock
  <2> QED BY <2>1, <2>2, <2>3
<1>7. ASSUME NEW n \in Gated \cup {0}, NEW recorded \in BOOLEAN, MergeSession(n, recorded)
      PROVE  \E x, y, z : \E logged \in Added(x, y, z) : Logs(logged)
  BY <1>1, <1>7 DEF MergeSession
<1> QED BY <1>2, <1>3, <1>4, <1>5, <1>6, <1>7
        DEF InboxNext, Look, Hook, Ages, ConductorTurns, LaunchAgain, Pull, Others, Rewind, storeVars

LEMMA InboxTyped == ASSUME InboxInit PROVE InboxBounded
<1> USE InboxAssumption
<1>1. PICK it, logged, pr, hurt :
        /\ InboxStart(it, logged, pr, hurt) /\ hurt \in {{}, {"blocked"}}
        /\ Len(logged) = 0 \/ (given \in {"merged", "lifted"} /\ Len(logged) = 1)
  BY DEF InboxInit
<1>2. Len(eventLog) <= MaxLogged + Before
  <2>1. eventLog = logged /\ MaxLogged \in Nat
    BY <1>1 DEF InboxStart
  <2>2. Before \in Nat /\ (given \in {"merged", "lifted"} => Before = 1)
    BY DEF Before
  <2>3. Len(eventLog) = 0 \/ (Before = 1 /\ Len(eventLog) = 1)
    BY <1>1, <2>1, <2>2
  <2>4. \A n, m \in Nat : \A size : (size = 0 \/ (m = 1 /\ size = 1)) => size <= n + m
    OBVIOUS
  <2> QED BY <2>1, <2>2, <2>3, <2>4, Zenon
<1>3. targetAt \in Tip
  BY <1>1 DEF InboxStart, Tip
<1>4. cache \in [Gated -> [landed : BOOLEAN, tip : Tip \cup {NoTip}]]
  BY <1>1 DEF InboxStart, Unasked
<1>5. /\ line \in Kind \cup {"none", "unread"} /\ why \in {"none", "cap", "unreached"}
      /\ wounds \subseteq {"failed", "blocked"} /\ odd \subseteq {"cut", "rewound"}
  BY <1>1 DEF InboxStart
<1> QED BY <1>2, <1>3, <1>4, <1>5 DEF InboxBounded

LEMMA InboxTypeKept ==
    ASSUME InboxInv, InboxBounded, InboxNext, given' = given
    PROVE  InboxBounded'
<1> USE InboxAssumption
<1>1. CASE \E inTime \in BOOLEAN : Look(inTime)
  <2>1. PICK inTime \in BOOLEAN : Look(inTime)
    BY <1>1
  <2>2. UNCHANGED <<eventLog, targetAt, why, wounds, odd>> /\ Before' = Before
    BY <2>1 DEF Look, storeVars, worldVars, truthVars, Before
  <2>3. line' \in Kind \cup {"none", "unread"}
    <3>1. needOf(inTime) \in Kind \cup {"none"}
      BY DEF needOf, Kind
    <3> QED BY <2>1, <3>1 DEF Look
  <2>4. cache' \in [Gated -> [landed : BOOLEAN, tip : Tip \cup {NoTip}]]
    <3>1. cache' = remembered(dashboardSession.pr, inTime)
      BY <2>1 DEF Look
    <3>2. [landed |-> TRUE, tip |-> NoTip] \in [landed : BOOLEAN, tip : Tip \cup {NoTip}]
          /\ [landed |-> FALSE, tip |-> targetAt] \in [landed : BOOLEAN, tip : Tip \cup {NoTip}]
      BY DEF InboxBounded
    <3> QED BY <3>1, <3>2 DEF remembered, InboxBounded
  <2> QED BY <2>2, <2>3, <2>4 DEF InboxBounded
<1>2. CASE ~ \E inTime \in BOOLEAN : Look(inTime)
  <2>1. line' = "unread" /\ UNCHANGED cache /\ Before' = Before
    BY <1>2 DEF InboxNext, AskOperator, SteerSession, requestHandoff, Done, Hook, Ages, ConductorTurns, Resume, Refuse,
           RejectOrBlock, MergeSession, Fix, UnblockSession, KillSession, LaunchAgain, Land, Pull, Others, Rewind, Moves,
           Before
  <2>2. Len(eventLog') <= MaxLogged + Before'
    <3>1. Before \in Nat
      BY DEF Before
    <3>2. CASE UNCHANGED eventLog
      BY <2>1, <3>2 DEF InboxBounded
    <3> QED BY <2>1, <3>1, <3>2, LogPartsAre, LogIsBounded
  <2>3. targetAt' \in Tip
    <3>1. CASE UNCHANGED targetAt
      BY <3>1 DEF InboxBounded
    <3>2. CASE (\E asIs \in BOOLEAN : Land(asIs)) \/ Pull
      <4>1. targetAt' = targetAt \/ targetAt' = [targetAt EXCEPT !.holds = @ \cup 1 .. pinned]
        BY <3>2 DEF Land, Pull
      <4>2. pinned \in Gated \cup {0} => 1 .. pinned \subseteq Gated
        BY DEF Gated
      <4>3. targetAt \in Tip /\ pinned \in Gated \cup {0}
        BY DEF InboxBounded, InboxInv, InboxOK
      <4> QED BY <4>1, <4>2, <4>3 DEF Tip
    <3>3. CASE Others \/ Rewind
      BY <3>3 DEF Others, Rewind, InboxBounded, Tip
    <3> QED BY <1>2, <3>1, <3>2, <3>3
            DEF InboxNext, AskOperator, SteerSession, requestHandoff, Done, Hook, Ages, ConductorTurns, Resume, Refuse,
                RejectOrBlock, MergeSession, Fix, UnblockSession, KillSession, LaunchAgain, worldVars
  <2>4. why' \in {"none", "cap", "unreached"}
    BY <1>2 DEF InboxNext, AskOperator, SteerSession, requestHandoff, Done, Hook, Ages, ConductorTurns, Resume, Refuse,
           RejectOrBlock, MergeSession, Fix, UnblockSession, KillSession, LaunchAgain, Land, Pull, Others, Rewind,
           truthVars, InboxBounded
  <2>5. wounds' \subseteq {"failed", "blocked"} /\ odd' \subseteq {"cut", "rewound"}
    BY <1>2 DEF InboxNext, AskOperator, SteerSession, requestHandoff, Done, Hook, Ages, ConductorTurns, Resume, Refuse,
           RejectOrBlock, MergeSession, Fix, UnblockSession, KillSession, LaunchAgain, Land, Pull, Others, Rewind,
           truthVars, InboxBounded
  <2> QED BY <2>1, <2>2, <2>3, <2>4, <2>5 DEF InboxBounded
<1> QED BY <1>1, <1>2
-----------------------------------------------------------------------------
(* Recheck.                                                                 *)

CallRecord == [at : {"none", "runs", "left", "silent", "told", "cut"},
               snapshot : {NoSnapshot} \cup SUBSET (Path \X Sum), began : [Path -> Content]]

RecheckOK ==
    /\ content \in [Path -> Content] /\ head \in Content
    /\ call \in [Calls -> CallRecord]
    /\ by \in [Path -> Calls \cup {Nobody}]

\* A snapshot holds what its call began on, in so far as a sum tells.
IsOfItsStart(one) ==
    one.snapshot # NoSnapshot =>
        \A p \in Path, x \in Sum \ OneSum : <<p, x>> \in one.snapshot => x = one.began[p]

\* A call that kept to its scope, undisturbed, has before it what it began on.
IsUndisturbed(one) ==
    /\ one.at \notin {"left", "told"}
    /\ one.at = "runs" => Readable /\ one.snapshot # NoSnapshot /\ out_of_scope \subseteq one.snapshot

\* While a merge is in progress the tip is the target's, and not the branch's.
MergeIsTheTargets == merging => head # "tip" /\ (content["code"] = "tip" => by["code"] = Nobody)

\* What a checked call made of a path is said, or is as it found it.
IsSaid(p) ==
    by[p] \in Calls /\ call[by[p]].at \in {"silent", "told"} =>
          \/ <<p, content[p]>> \in said
          \/ content[p] = call[by[p]].began[p]
          \/ KeptItsSum(p, call[by[p]].snapshot)

RecheckInv ==
    /\ RecheckOK
    /\ \A c \in Calls : IsOfItsStart(call[c]) /\ (c \notin astray => IsUndisturbed(call[c]))
    /\ MergeIsTheTargets
    /\ \A p \in Dirty \ FromTarget : IsSaid(p)

LEMMA CallsAreNumbers == Nobody \notin Calls /\ AnEdit \notin Calls
  BY RecheckAssumption DEF Nobody, AnEdit

LEMMA OutsideIs == Outside = Dirty \ FromTarget /\ Outside \subseteq Path
  BY DEF Outside, Listed, Dirty

\* A sum is a hash, which is a content's own, or tells nothing.
LEMMA FingerprintTells ==
    ASSUME NEW p \in Path, content[p] \in Content
    PROVE  /\ fingerprint(p) \in Sum
           /\ fingerprint(p) \in OneSum \/ fingerprint(p) = content[p]
<1>1. CASE p = "odd"
  BY <1>1 DEF fingerprint, Sum, OneSum
<1>2. CASE p = "code" /\ (content[p] = "gone" \/ Removed)
  BY <1>2 DEF fingerprint, Sum, OneSum
<1>3. CASE p # "odd" /\ ~(p = "code" /\ (content[p] = "gone" \/ Removed))
  <2>1. CASE content[p] \in Special
    BY <1>3, <2>1 DEF fingerprint, Sum, OneSum
  <2>2. CASE content[p] \in Large /\ content[p] \notin Special
    BY <1>3, <2>2 DEF fingerprint, Sum, OneSum
  <2>3. CASE content[p] \in Unreadable /\ content[p] \notin Special \cup Large
    BY <1>3, <2>3 DEF fingerprint, Sum, OneSum
  <2>4. CASE content[p] \notin Special \cup Large \cup Unreadable
    <3>1. fingerprint(p) = content[p]
      BY <1>3, <2>4 DEF fingerprint
    <3> QED BY <3>1 DEF Sum
  <2> QED BY <2>1, <2>2, <2>3, <2>4
<1> QED BY <1>1, <1>2, <1>3

\* No path but the tracked one has its sum from what git says of it.
LEMMA SumStays ==
    ASSUME NEW p \in Path, p # "code" \/ Removed' = Removed, content'[p] = content[p]
    PROVE  fingerprint(p)' = fingerprint(p)
  BY DEF fingerprint

LEMMA OutOfScopeIs ==
    ASSUME content \in [Path -> Content]
    PROVE  /\ out_of_scope \in SUBSET (Path \X Sum) /\ out_of_scope # NoSnapshot
           /\ \A p \in Path, x \in Sum \ OneSum : <<p, x>> \in out_of_scope => x = content[p]
<1>1. \A p \in Outside : content[p] \in Content /\ fingerprint(p) \in Sum
  BY OutsideIs, FingerprintTells
<1>2. out_of_scope \in SUBSET (Path \X Sum)
  BY <1>1, OutsideIs DEF out_of_scope
<1>3. <<"none", "none">> \notin out_of_scope
  BY OutsideIs DEF out_of_scope, Path
<1>4. out_of_scope # NoSnapshot
  BY <1>3 DEF NoSnapshot
<1>5. ASSUME NEW p \in Path, NEW x \in Sum \ OneSum, <<p, x>> \in out_of_scope PROVE x = content[p]
  <2>1. x = fingerprint(p)
    BY <1>5 DEF out_of_scope
  <2> QED BY <1>5, <2>1, FingerprintTells
<1> QED BY <1>2, <1>4, <1>5

\* What a check reads is of the worktree and of git, and no history of the calls.
LEMMA ReadsStay ==
    ASSUME UNCHANGED <<content, head, merging, conflict, trouble>>
    PROVE  /\ out_of_scope' = out_of_scope /\ Dirty' = Dirty /\ FromTarget' = FromTarget
           /\ Readable' = Readable /\ \A p : fingerprint(p)' = fingerprint(p)
<1>1. Removed' = Removed
  BY DEF Removed
<1>2. \A p : fingerprint(p)' = fingerprint(p)
  BY <1>1 DEF fingerprint
<1>3. Dirty' = Dirty /\ FromTarget' = FromTarget /\ Readable' = Readable
  BY <1>1 DEF Dirty, FromTarget, Readable
<1>4. Outside' = Outside
  BY <1>3 DEF Outside, Listed
<1> QED BY <1>2, <1>3, <1>4 DEF out_of_scope

LEMMA RecheckInvInit == RecheckInit => RecheckInv
<1> SUFFICES ASSUME RecheckInit PROVE RecheckInv
  OBVIOUS
<1>1. /\ content = [Base EXCEPT !["code"] = head] /\ merging = FALSE /\ head \in {"base", "made", "gone"}
      /\ call = [c \in Calls |-> NoCall] /\ by = [p \in Path |-> Nobody]
  BY DEF RecheckInit, RecheckStart
<1>2. Base \in [Path -> Content] /\ NoCall \in CallRecord
  BY DEF Base, NoCall, CallRecord, Content
<1>3. RecheckOK
  BY <1>1, <1>2 DEF RecheckOK, Content
<1>4. \A c \in Calls : IsOfItsStart(call[c]) /\ IsUndisturbed(call[c])
  BY <1>1 DEF NoCall, IsOfItsStart, IsUndisturbed
<1>5. \A p \in Dirty \ FromTarget : IsSaid(p)
  BY <1>1, CallsAreNumbers DEF Dirty, IsSaid
<1> QED BY <1>1, <1>3, <1>4, <1>5 DEF RecheckInv, MergeIsTheTargets

LEMMA PreBashKeeps ==
    ASSUME RecheckInv, NEW c \in Calls, PreBash(c)
    PROVE  RecheckInv'
<1>1. UNCHANGED <<content, head, merging, conflict, trouble, by, said>>
  BY DEF PreBash
<1>2. out_of_scope' = out_of_scope /\ Dirty' = Dirty /\ FromTarget' = FromTarget /\ Readable' = Readable
      /\ \A p : fingerprint(p)' = fingerprint(p)
  BY <1>1, ReadsStay
<1>3. PICK snapshot : snapshot = IF Readable THEN out_of_scope ELSE NoSnapshot
  OBVIOUS
<1>4. call' = [d \in Calls |-> [at |-> IF d = c THEN "runs" ELSE call[d].at,
                                snapshot |-> IF d = c THEN snapshot ELSE call[d].snapshot,
                                began |-> IF d = c THEN content ELSE call[d].began]]
  BY <1>3 DEF PreBash, SnapshotOf
<1>5. content \in [Path -> Content] /\ call \in [Calls -> CallRecord]
  BY DEF RecheckInv, RecheckOK
<1>6. snapshot \in {NoSnapshot} \cup SUBSET (Path \X Sum)
  BY <1>3, <1>5, OutOfScopeIs
<1>7. ASSUME NEW d \in Calls
      PROVE  /\ call'[d].at = IF d = c THEN "runs" ELSE call[d].at
             /\ call'[d].snapshot = IF d = c THEN snapshot ELSE call[d].snapshot
             /\ call'[d].began = IF d = c THEN content ELSE call[d].began
  BY <1>4
<1>8. call' \in [Calls -> CallRecord]
  BY <1>4, <1>5, <1>6 DEF CallRecord
<1>9. RecheckOK'
  BY <1>1, <1>8 DEF RecheckInv, RecheckOK
<1>10. ASSUME NEW d \in Calls PROVE IsOfItsStart(call[d])'
  <2>1. CASE d = c
    BY <1>3, <1>5, <1>7, <2>1, OutOfScopeIs DEF IsOfItsStart
  <2>2. CASE d # c
    BY <1>7, <2>2 DEF IsOfItsStart, RecheckInv
  <2> QED BY <2>1, <2>2
<1>11. ASSUME NEW d \in Calls, d \notin astray' PROVE IsUndisturbed(call[d])'
  <2>1. CASE d = c
    <3>1. Readable
      BY <1>11, <2>1 DEF PreBash
    <3> QED BY <1>2, <1>3, <1>5, <1>7, <2>1, <3>1, OutOfScopeIs DEF IsUndisturbed
  <2>2. CASE d # c
    <3>1. d \notin astray
      BY <1>11, <2>2 DEF PreBash
    <3> QED BY <1>2, <1>7, <2>2, <3>1 DEF IsUndisturbed, RecheckInv
  <2> QED BY <2>1, <2>2
<1>12. ASSUME NEW p \in (Dirty \ FromTarget)' PROVE IsSaid(p)'
  <2>1. p \in Dirty \ FromTarget /\ p \in Path
    BY <1>2 DEF Dirty
  <2>2. IsSaid(p)
    BY <2>1 DEF RecheckInv
  <2>3. by'[p] = by[p] /\ content'[p] = content[p] /\ said' = said
    BY <1>1
  <2>4. ASSUME by[p] \in Calls, call'[by[p]].at \in {"silent", "told"} PROVE by[p] # c
    BY <1>7, <2>4
  <2> QED BY <1>2, <1>7, <2>2, <2>3, <2>4 DEF IsSaid, KeptItsSum
<1> QED BY <1>1, <1>9, <1>10, <1>11, <1>12 DEF RecheckInv, MergeIsTheTargets

\* What a check of a call leaves of it.
LEMMA OverIs ==
    ASSUME RecheckOK, NEW c \in Calls, NEW at \in {"left", "silent", "told"}
    PROVE  /\ Over(c, at) \in [Calls -> CallRecord]
           /\ Over(c, at)[c].at = at
           /\ IsOfItsStart(call[c]) => IsOfItsStart(Over(c, at)[c])
           /\ at # "left" /\ (\E p \in Path : by[p] = c) =>
                 /\ Over(c, at)[c].began = call[c].began
                 /\ Over(c, at)[c].snapshot = call[c].snapshot
           /\ \A d \in Calls \ {c} : Over(c, at)[d] = call[d]
<1>1. call \in [Calls -> CallRecord] /\ Base \in [Path -> Content]
  BY DEF RecheckOK, Base, Content
<1>2. PICK one : one = IF at # "left" /\ \E p \in Path : by[p] = c THEN [call[c] EXCEPT !.at = at]
                       ELSE [NoCall EXCEPT !.at = at]
  OBVIOUS
<1>3. Over(c, at) = [call EXCEPT ![c] = one]
  BY <1>1, <1>2 DEF Over
<1>4. one \in CallRecord /\ one.at = at
  BY <1>1, <1>2 DEF CallRecord, NoCall
<1>5. one.snapshot = NoSnapshot \/ (one.snapshot = call[c].snapshot /\ one.began = call[c].began)
  BY <1>1, <1>2 DEF CallRecord, NoCall
<1>6. at # "left" /\ (\E p \in Path : by[p] = c) => one.began = call[c].began /\ one.snapshot = call[c].snapshot
  BY <1>1, <1>2 DEF CallRecord
<1>7. Over(c, at)[c] = one /\ \A d \in Calls \ {c} : Over(c, at)[d] = call[d]
  BY <1>1, <1>3
<1>8. IsOfItsStart(call[c]) => IsOfItsStart(one)
  BY <1>5 DEF IsOfItsStart
<1> QED BY <1>1, <1>3, <1>4, <1>6, <1>7, <1>8

LEMMA ToldKeeps ==
    ASSUME RecheckInv, NEW c \in Calls, NEW new, Told(c, new), new \subseteq out_of_scope,
           new # {} \/ ~Readable => c \in astray,
           Readable => \A p \in Outside : by[p] = c =>
                          \/ <<p, fingerprint(p)>> \in new
                          \/ content[p] = call[c].began[p]
                          \/ KeptItsSum(p, call[c].snapshot)
    PROVE  RecheckInv'
<1>1. UNCHANGED <<content, head, merging, conflict, trouble, by>>
  BY DEF Told
<1>2. out_of_scope' = out_of_scope /\ Dirty' = Dirty /\ FromTarget' = FromTarget /\ Readable' = Readable
      /\ \A p : fingerprint(p)' = fingerprint(p)
  BY <1>1, ReadsStay
<1>3. RecheckOK /\ content \in [Path -> Content] /\ call \in [Calls -> CallRecord]
  BY DEF RecheckInv, RecheckOK
<1>4. PICK at \in {"left", "silent", "told"} :
        /\ call' = Over(c, at) /\ astray' = (IF at = "left" THEN astray \cup {c} ELSE astray)
        /\ at = "told" => Refused(new)
  BY DEF Told
<1>5. /\ call' \in [Calls -> CallRecord]
      /\ call'[c].at = at /\ IsOfItsStart(call'[c])
      /\ at # "left" /\ (\E p \in Path : by[p] = c) =>
            call'[c].began = call[c].began /\ call'[c].snapshot = call[c].snapshot
      /\ \A d \in Calls \ {c} : call'[d] = call[d]
  BY <1>3, <1>4, OverIs DEF RecheckInv
<1>6. RecheckOK'
  BY <1>1, <1>5 DEF RecheckInv, RecheckOK
<1>7. ASSUME NEW d \in Calls PROVE IsOfItsStart(call[d])' /\ (d \notin astray' => IsUndisturbed(call[d])')
  <2>1. CASE d = c
    <3>1. d \notin astray' => at = "silent"
      BY <1>4, <2>1 DEF Refused
    <3> QED BY <1>5, <2>1, <3>1 DEF IsOfItsStart, IsUndisturbed
  <2>2. CASE d # c
    <3>1. call'[d] = call[d] /\ (d \notin astray' => d \notin astray)
      BY <1>4, <1>5, <2>2
    <3> QED BY <1>2, <3>1 DEF IsOfItsStart, IsUndisturbed, RecheckInv
  <2> QED BY <2>1, <2>2
<1>8. ASSUME NEW p \in (Dirty \ FromTarget)', by'[p] \in Calls, call'[by'[p]].at \in {"silent", "told"}
      PROVE  \/ <<p, content'[p]>> \in said'
             \/ content'[p] = call'[by'[p]].began[p]
             \/ KeptItsSum(p, call'[by'[p]].snapshot)
  <2>1. /\ p \in Outside /\ p \in Path /\ content'[p] = content[p] /\ by'[p] = by[p]
        /\ \A snapshot : KeptItsSum(p, snapshot)' <=> KeptItsSum(p, snapshot)
    BY <1>1, <1>2, OutsideIs DEF KeptItsSum
  <2>2. said \subseteq said'
    BY DEF Told
  <2>3. CASE by[p] = c
    <3>1. at # "left" /\ call'[c].began = call[c].began /\ call'[c].snapshot = call[c].snapshot
      BY <1>5, <1>8, <2>1, <2>3
    <3>2. CASE Readable /\ <<p, fingerprint(p)>> \in new
      <4>1. <<p, content[p]>> \in said'
        BY <2>1, <3>2 DEF Told, Refused
      <4> QED BY <2>1, <4>1
    <3>3. CASE Readable /\ (content[p] = call[c].began[p] \/ KeptItsSum(p, call[c].snapshot))
      BY <2>1, <2>3, <3>1, <3>3
    <3>4. CASE ~Readable
      <4>1. <<p, content[p]>> \in said'
        BY <2>1, <3>4 DEF Told, Refused
      <4> QED BY <2>1, <4>1
    <3> QED BY <2>1, <2>3, <3>2, <3>3, <3>4
  <2>4. CASE by[p] # c
    <3>1. call'[by[p]] = call[by[p]] /\ IsSaid(p)
      BY <1>5, <1>8, <2>1, <2>4, OutsideIs DEF RecheckInv
    <3>2. \/ <<p, content[p]>> \in said
          \/ content[p] = call[by[p]].began[p]
          \/ KeptItsSum(p, call[by[p]].snapshot)
      BY <1>8, <2>1, <3>1 DEF IsSaid
    <3> QED BY <2>1, <2>2, <3>1, <3>2
  <2> QED BY <2>3, <2>4
<1>9. \A p \in (Dirty \ FromTarget)' : IsSaid(p)'
  BY <1>2, <1>8 DEF IsSaid, KeptItsSum
<1> QED BY <1>1, <1>6, <1>7, <1>9 DEF RecheckInv, MergeIsTheTargets

LEMMA PostBashKeeps ==
    ASSUME RecheckInv, NEW c \in Calls, PostBash(c)
    PROVE  RecheckInv'
<1>1. PICK new : new = out_of_scope \ (IF call[c].snapshot = NoSnapshot THEN {} ELSE call[c].snapshot)
  OBVIOUS
<1>2. Told(c, new) /\ call[c].at = "runs" /\ new \subseteq out_of_scope
  BY <1>1 DEF PostBash
<1>3. new # {} \/ ~Readable => c \in astray
  BY <1>1, <1>2 DEF RecheckInv, IsUndisturbed
<1>4. content \in [Path -> Content]
  BY DEF RecheckInv, RecheckOK
<1>5. ASSUME NEW p \in Outside, <<p, fingerprint(p)>> \notin new
      PROVE  content[p] = call[c].began[p] \/ KeptItsSum(p, call[c].snapshot)
  <2>1. p \in Path /\ content[p] \in Content
    BY <1>4, OutsideIs
  <2>2. fingerprint(p) \in Sum /\ (fingerprint(p) \in OneSum \/ fingerprint(p) = content[p])
    BY <2>1, FingerprintTells
  <2>3. <<p, fingerprint(p)>> \in out_of_scope
    BY DEF out_of_scope
  <2>4. call[c].snapshot # NoSnapshot /\ <<p, fingerprint(p)>> \in call[c].snapshot
    BY <1>1, <1>5, <2>3
  <2>5. CASE fingerprint(p) \in OneSum
    BY <2>4, <2>5 DEF KeptItsSum
  <2>6. CASE fingerprint(p) \notin OneSum
    BY <2>1, <2>2, <2>4, <2>6 DEF RecheckInv, IsOfItsStart
  <2> QED BY <2>5, <2>6
<1> QED BY <1>2, <1>3, <1>5, ToldKeeps

LEMMA PostTaskOutputKeeps ==
    ASSUME RecheckInv, NEW c \in Calls, PostTaskOutput(c)
    PROVE  RecheckInv'
<1>1. Told(c, out_of_scope) /\ call[c].at = "left"
  BY DEF PostTaskOutput
<1>2. c \in astray
  BY <1>1 DEF RecheckInv, IsUndisturbed
<1>3. \A p \in Outside : <<p, fingerprint(p)>> \in out_of_scope
  BY DEF out_of_scope
<1> QED BY <1>1, <1>2, <1>3, ToldKeeps

LEMMA CutShortKeeps ==
    ASSUME RecheckInv, NEW c \in Calls, CutShort(c)
    PROVE  RecheckInv'
<1>1. UNCHANGED <<content, head, merging, conflict, trouble, said>> /\ astray' = astray \ {c}
  BY DEF CutShort
<1>2. out_of_scope' = out_of_scope /\ Dirty' = Dirty /\ FromTarget' = FromTarget /\ Readable' = Readable
      /\ \A p : fingerprint(p)' = fingerprint(p)
  BY <1>1, ReadsStay
<1>3. call \in [Calls -> CallRecord] /\ by \in [Path -> Calls \cup {Nobody}]
  BY DEF RecheckInv, RecheckOK
<1>4. [NoCall EXCEPT !.at = "cut"] \in CallRecord
  BY DEF NoCall, CallRecord, Base, Content
<1>5. /\ call' \in [Calls -> CallRecord] /\ call'[c].at = "cut" /\ call'[c].snapshot = NoSnapshot
      /\ \A d \in Calls \ {c} : call'[d] = call[d]
  BY <1>3, <1>4 DEF CutShort, NoCall
<1>6. /\ by' \in [Path -> Calls \cup {Nobody}]
      /\ \A p \in Path : by'[p] = Nobody \/ (by'[p] = by[p] /\ by[p] # c)
  BY <1>3 DEF CutShort
<1>7. RecheckOK'
  BY <1>1, <1>5, <1>6 DEF RecheckInv, RecheckOK
<1>8. ASSUME NEW d \in Calls PROVE IsOfItsStart(call[d])' /\ (d \notin astray' => IsUndisturbed(call[d])')
  <2>1. CASE d = c
    BY <1>5, <2>1 DEF IsOfItsStart, IsUndisturbed
  <2>2. CASE d # c
    BY <1>1, <1>2, <1>5, <2>2 DEF IsOfItsStart, IsUndisturbed, RecheckInv
  <2> QED BY <2>1, <2>2
<1>9. MergeIsTheTargets'
  BY <1>1, <1>6 DEF RecheckInv, MergeIsTheTargets, Path
<1>10. ASSUME NEW p \in (Dirty \ FromTarget)' PROVE IsSaid(p)'
  <2>1. p \in Path /\ IsSaid(p)
    BY <1>2 DEF RecheckInv, Dirty
  <2>2. CASE by'[p] = Nobody
    BY <2>2, CallsAreNumbers DEF IsSaid
  <2>3. CASE by'[p] = by[p] /\ by[p] # c
    BY <1>1, <1>2, <1>5, <2>1, <2>3 DEF IsSaid, KeptItsSum
  <2> QED BY <1>6, <2>1, <2>2, <2>3
<1> QED BY <1>7, <1>8, <1>9, <1>10 DEF RecheckInv

\* A step of no hook: what it does to a path is nobody's, or a call's that is
\* not over, and who ran beside it is astray unless it brought nothing in.
LEMMA MoveKeeps ==
    ASSUME RecheckInv, RecheckOK', call' = call, MergeIsTheTargets', astray \subseteq astray',
           \A d \in Running \ astray' : Readable' = Readable /\ out_of_scope' \subseteq out_of_scope,
           \A p \in (Dirty \ FromTarget)' :
              \/ by'[p] = Nobody
              \/ by'[p] \in Calls /\ Acts(by'[p])
              \/ /\ p \in Dirty \ FromTarget /\ by'[p] = by[p] /\ content'[p] = content[p]
                 /\ p # "code" \/ Removed' = Removed
                 /\ <<p, content[p]>> \in said => <<p, content[p]>> \in said'
    PROVE  RecheckInv'
<1>1. ASSUME NEW d \in Calls PROVE IsOfItsStart(call[d])' /\ (d \notin astray' => IsUndisturbed(call[d])')
  <2>1. IsOfItsStart(call[d]) /\ (d \notin astray => IsUndisturbed(call[d]))
    BY DEF RecheckInv
  <2>2. IsOfItsStart(call[d])'
    BY <2>1 DEF IsOfItsStart
  <2>3. d \notin astray' => IsUndisturbed(call[d])'
    BY <2>1 DEF IsUndisturbed, Running
  <2> QED BY <2>2, <2>3
<1>2. ASSUME NEW p \in (Dirty \ FromTarget)' PROVE IsSaid(p)'
  <2>1. CASE by'[p] = Nobody
    BY <2>1, CallsAreNumbers DEF IsSaid
  <2>2. CASE by'[p] \in Calls /\ Acts(by'[p])
    BY <2>2 DEF IsSaid, Acts
  <2>3. CASE /\ p \in Dirty \ FromTarget /\ by'[p] = by[p] /\ content'[p] = content[p]
             /\ p # "code" \/ Removed' = Removed
             /\ <<p, content[p]>> \in said => <<p, content[p]>> \in said'
    <3>1. IsSaid(p) /\ p \in Path
      BY <2>3 DEF RecheckInv, Dirty
    <3>2. fingerprint(p)' = fingerprint(p)
      BY <2>3, <3>1, SumStays
    <3> QED BY <2>3, <3>1, <3>2 DEF IsSaid, KeptItsSum
  <2> QED BY <2>1, <2>2, <2>3
<1> QED BY <1>1, <1>2 DEF RecheckInv

\* What a commit, a reset or a merge says of the other path stays said.
LEMMA SaidOfOthers ==
    ASSUME NEW q, said' = {s \in said : s[1] # q}, NEW p, p # q
    PROVE  \A x : <<p, x>> \in said => <<p, x>> \in said'
  OBVIOUS

LEMMA WriteKeeps ==
    ASSUME RecheckInv, given \in Makes, NEW c \in Calls, Write(c)
    PROVE  RecheckInv'
<1>1. /\ Acts(c) /\ astray' = astray \cup Running
      /\ UNCHANGED <<head, merging, conflict, trouble, call, churn>>
  BY DEF Write, hookVars
<1>2. PICK p \in Path : \E v \in {"base"} \cup given[p] :
        /\ content' = [content EXCEPT ![p] = v] /\ by' = [by EXCEPT ![p] = c]
        /\ said' = {s \in said : s[1] # p}
  BY DEF Write
<1>3. PICK v \in {"base"} \cup given[p] :
        /\ content' = [content EXCEPT ![p] = v] /\ by' = [by EXCEPT ![p] = c]
        /\ said' = {s \in said : s[1] # p}
  BY <1>2
<1>4. v \in Content /\ (p = "code" => v # "tip")
  BY RecheckAssumption DEF Content
<1>5. RecheckOK
  BY DEF RecheckInv
<1>6. /\ RecheckOK' /\ content'[p] = v /\ by'[p] = c
      /\ \A q \in Path \ {p} : content'[q] = content[q] /\ by'[q] = by[q]
  BY <1>1, <1>3, <1>4, <1>5 DEF RecheckOK
<1>7. MergeIsTheTargets'
  BY <1>1, <1>4, <1>6 DEF RecheckInv, MergeIsTheTargets, Path
<1>8. ASSUME NEW q \in (Dirty \ FromTarget)', q # p
      PROVE  /\ q \in Dirty \ FromTarget /\ by'[q] = by[q] /\ content'[q] = content[q]
             /\ Removed' = Removed
  <2>1. q \in Path
    BY DEF Dirty
  <2>2. Removed' = Removed
    BY <1>1 DEF Removed
  <2> QED BY <1>1, <1>6, <1>8, <2>1, <2>2 DEF Dirty, FromTarget
<1>9. \A q : q # p => \A x : <<q, x>> \in said => <<q, x>> \in said'
  BY <1>3, SaidOfOthers
<1>10. ASSUME NEW q \in (Dirty \ FromTarget)'
      PROVE  \/ by'[q] \in Calls /\ Acts(by'[q])
             \/ /\ q \in Dirty \ FromTarget /\ by'[q] = by[q] /\ content'[q] = content[q]
                /\ q # "code" \/ Removed' = Removed
                /\ <<q, content[q]>> \in said => <<q, content[q]>> \in said'
  BY <1>1, <1>6, <1>8, <1>9
<1> QED BY <1>1, <1>6, <1>7, <1>10, MoveKeeps

LEMMA MoveHeadKeeps ==
    ASSUME RecheckInv, NEW c \in Calls, MoveHead(c)
    PROVE  RecheckInv'
<1>1. Acts(c) /\ ~merging /\ ~conflict' /\ UNCHANGED <<content, merging, trouble, call>>
  BY DEF MoveHead, hookVars
<1>2. head' \in Content /\ said' = {s \in said : s[1] # "code"} /\ astray \subseteq astray'
  BY DEF MoveHead, Commits, Beside, RecheckInv, RecheckOK, Path, Content
<1>3. PICK who \in {Nobody, c} : by' = [by EXCEPT !["code"] = who]
  BY DEF MoveHead, Commits
<1>4. RecheckOK' /\ by'["code"] = who /\ \A q \in Path \ {"code"} : by'[q] = by[q]
  BY <1>1, <1>2, <1>3 DEF RecheckInv, RecheckOK, Path
<1>5. Readable' = Readable
  BY <1>1 DEF Readable
<1>6. ASSUME NEW d \in Running \ astray' PROVE out_of_scope' \subseteq out_of_scope
  <2>1. head' = content["code"]
    BY <1>6 DEF MoveHead, Commits
  <2>2. Dirty' \subseteq Dirty \ {"code"} /\ FromTarget = {}
    BY <1>1, <2>1 DEF Dirty, FromTarget
  <2>3. ASSUME NEW q \in Outside' PROVE q \in Outside /\ fingerprint(q)' = fingerprint(q)
    <3>1. q \in Dirty \ {"code"} /\ q \in Path
      BY <2>2 DEF Outside, Dirty
    <3> QED BY <1>1, <2>2, <3>1, OutsideIs, SumStays
  <2> QED BY <2>3 DEF out_of_scope
<1>7. ASSUME NEW q \in (Dirty \ FromTarget)'
      PROVE  \/ by'[q] = Nobody
             \/ by'[q] \in Calls /\ Acts(by'[q])
             \/ /\ q \in Dirty \ FromTarget /\ by'[q] = by[q] /\ content'[q] = content[q]
                /\ q # "code" \/ Removed' = Removed
                /\ <<q, content[q]>> \in said => <<q, content[q]>> \in said'
  <2>1. CASE q = "code"
    <3>1. by'[q] = who
      BY <1>4, <2>1
    <3>2. CASE who = Nobody
      BY <3>1, <3>2
    <3>3. CASE who = c
      <4>1. by'[q] = c
        BY <3>1, <3>3
      <4>2. Acts(by'[q])
        BY <1>1, <4>1 DEF Acts
      <4> QED BY <4>1, <4>2
    <3> QED BY <3>2, <3>3
  <2>2. CASE q # "code"
    <3>1. q \in Dirty \ FromTarget /\ q \in Path
      BY <1>1, <2>2 DEF Dirty, FromTarget
    <3>2. \A x : <<q, x>> \in said => <<q, x>> \in said'
      BY <1>2, <2>2, SaidOfOthers
    <3> QED BY <1>1, <1>4, <2>2, <3>1, <3>2
  <2> QED BY <2>1, <2>2
<1> QED BY <1>1, <1>2, <1>4, <1>5, <1>6, <1>7, MoveKeeps DEF MergeIsTheTargets

LEMMA MergeTargetKeeps ==
    ASSUME RecheckInv, NEW c \in Calls, MergeTarget(c)
    PROVE  RecheckInv'
<1>1. /\ content["code"] = head /\ head # "tip" /\ ~merging /\ merging'
      /\ UNCHANGED <<head, trouble, call, said>> /\ by' = [by EXCEPT !["code"] = Nobody]
      /\ content' = [content EXCEPT !["code"] = IF head \in {"base", "gone"} THEN "tip" ELSE "marked"]
      /\ conflict' = (head # "base") /\ astray \subseteq astray'
  BY DEF MergeTarget, hookVars, Beside
<1>2. /\ RecheckOK' /\ by'["code"] = Nobody
      /\ content'["code"] = (IF head \in {"base", "gone"} THEN "tip" ELSE "marked")
      /\ \A q \in Path \ {"code"} : by'[q] = by[q] /\ content'[q] = content[q]
  BY <1>1 DEF RecheckInv, RecheckOK, Path, Content
<1>3. Readable' = Readable
  BY <1>1 DEF Readable
<1>4. ASSUME NEW q \in Dirty', q # "code"
      PROVE  q \in Path /\ q \in Dirty \ FromTarget /\ by'[q] = by[q] /\ content'[q] = content[q]
  BY <1>1, <1>2, <1>4 DEF Dirty, FromTarget
<1>5. ASSUME NEW d \in Running \ astray' PROVE out_of_scope' \subseteq out_of_scope
  <2>1. head = "base"
    BY <1>5 DEF MergeTarget
  <2>2. FromTarget' = {"code"}
    BY <1>1, <1>2, <2>1 DEF FromTarget, Removed
  <2>3. ASSUME NEW q \in Outside' PROVE q \in Outside /\ fingerprint(q)' = fingerprint(q)
    <3>1. q # "code" /\ q \in Dirty'
      BY <2>2 DEF Outside
    <3> QED BY <1>4, <3>1, OutsideIs, SumStays
  <2> QED BY <2>3 DEF out_of_scope
<1>6. ASSUME NEW q \in (Dirty \ FromTarget)'
      PROVE  \/ by'[q] = Nobody
             \/ /\ q \in Dirty \ FromTarget /\ by'[q] = by[q] /\ content'[q] = content[q] /\ said' = said
                /\ q # "code"
  BY <1>1, <1>2, <1>4
<1> QED BY <1>1, <1>2, <1>3, <1>5, <1>6, MoveKeeps DEF MergeIsTheTargets

LEMMA EndMergeKeeps ==
    ASSUME RecheckInv, NEW c \in Calls, EndMerge(c)
    PROVE  RecheckInv'
<1>1. /\ ~merging' /\ ~conflict' /\ astray \subseteq astray' /\ UNCHANGED <<trouble, call>>
      /\ said' = said \/ said' = {s \in said : s[1] # "code"}
  BY DEF EndMerge, hookVars, Beside, Commits
<1>2. RecheckOK' /\ content'["code"] = head' /\ \A q \in Path \ {"code"} : content'[q] = content[q] /\ by'[q] = by[q]
  <2>1. RecheckOK /\ call' = call
    BY <1>1 DEF RecheckInv
  <2>2. CASE UNCHANGED content /\ head' = content["code"] /\ by' = [by EXCEPT !["code"] = Nobody]
    BY <2>1, <2>2 DEF RecheckOK, Path
  <2>3. CASE content' = [content EXCEPT !["code"] = head] /\ UNCHANGED <<head, by>>
    BY <2>1, <2>3 DEF RecheckOK, Path
  <2> QED BY <2>2, <2>3 DEF EndMerge, Commits
<1>3. Dirty' \subseteq Dirty \ {"code"} /\ Dirty \subseteq Path /\ FromTarget \subseteq {"code"}
  BY <1>1, <1>2 DEF Dirty, FromTarget
<1>4. ASSUME NEW q \in Outside' PROVE q \in Outside /\ fingerprint(q)' = fingerprint(q)
  <2>1. q \in Dirty \ {"code"} /\ q \in Path
    BY <1>3 DEF Outside
  <2> QED BY <1>2, <1>3, <2>1, OutsideIs, SumStays
<1>5. out_of_scope' \subseteq out_of_scope /\ Readable' = Readable
  BY <1>1, <1>4 DEF out_of_scope, Readable
<1>6. \A q : q # "code" => \A x : <<q, x>> \in said => <<q, x>> \in said'
  BY <1>1, SaidOfOthers
<1>7. ASSUME NEW q \in (Dirty \ FromTarget)'
      PROVE  /\ q \in Dirty \ FromTarget /\ by'[q] = by[q] /\ content'[q] = content[q] /\ q # "code"
             /\ <<q, content[q]>> \in said => <<q, content[q]>> \in said'
  BY <1>2, <1>3, <1>6
<1> QED BY <1>1, <1>2, <1>5, <1>7, MoveKeeps DEF MergeIsTheTargets

LEMMA TargetMovesKeeps == RecheckInv /\ TargetMoves => RecheckInv'
<1> SUFFICES ASSUME RecheckInv, TargetMoves PROVE RecheckInv'
  OBVIOUS
<1>1. /\ merging /\ ~merging' /\ astray' = astray \cup Running
      /\ UNCHANGED <<content, head, conflict, trouble, call, by, said>>
  BY DEF TargetMoves, hookVars
<1>2. RecheckOK'
  BY <1>1 DEF RecheckInv, RecheckOK
<1>3. ASSUME NEW q \in (Dirty \ FromTarget)' PROVE by[q] = Nobody \/ q \in Dirty \ FromTarget
  <2>1. q \in Dirty
    BY <1>1 DEF Dirty
  <2>2. q \in FromTarget => by[q] = Nobody
    BY <1>1 DEF FromTarget, RecheckInv, MergeIsTheTargets
  <2> QED BY <2>1, <2>2
<1>4. MergeIsTheTargets' /\ Removed' = Removed
  BY <1>1 DEF MergeIsTheTargets, Removed
<1> QED BY <1>1, <1>2, <1>3, <1>4, MoveKeeps

LEMMA TamperKeeps == RecheckInv /\ Tamper => RecheckInv'
<1> SUFFICES ASSUME RecheckInv, Tamper PROVE RecheckInv'
  OBVIOUS
<1>1. astray' = astray \cup Running /\ UNCHANGED <<content, head, merging, conflict, call, by, said>>
  BY DEF Tamper
<1>2. RecheckOK' /\ MergeIsTheTargets'
  BY <1>1 DEF RecheckInv, RecheckOK, MergeIsTheTargets
<1>3. Dirty' = Dirty /\ FromTarget' = FromTarget /\ Removed' = Removed
  BY <1>1 DEF Dirty, FromTarget, Removed
<1> QED BY <1>1, <1>2, <1>3, MoveKeeps

LEMMA EditKeeps == RecheckInv /\ Edit => RecheckInv'
<1> SUFFICES ASSUME RecheckInv, Edit PROVE RecheckInv'
  OBVIOUS
<1>1. astray' = astray \cup Running /\ UNCHANGED <<head, merging, conflict, trouble, call>>
  BY DEF Edit, hookVars
<1>2. PICK new \in resolutions(content["code"]) :
        /\ content' = [content EXCEPT !["code"] = new] /\ said' = {s \in said : s[1] # "code"}
        /\ by' = [by EXCEPT !["code"] = IF content["code"] = "marked" /\ new \notin {head, "tip", "both"}
                                         THEN AnEdit ELSE Nobody]
  BY DEF Edit
<1>3. RecheckOK
  BY DEF RecheckInv
<1>4. new \in Content /\ (content["code"] = "marked" => new \in {head, "tip", "both"})
  BY <1>3 DEF resolutions, RecheckOK, Content
<1>5. by' = [by EXCEPT !["code"] = Nobody]
  BY <1>2, <1>4
<1>6. RecheckOK' /\ by'["code"] = Nobody /\ \A q \in Path \ {"code"} : by'[q] = by[q] /\ content'[q] = content[q]
  BY <1>1, <1>2, <1>3, <1>4, <1>5 DEF RecheckOK, Path
<1>7. MergeIsTheTargets'
  BY <1>1, <1>6 DEF RecheckInv, MergeIsTheTargets
<1>8. \A q : q # "code" => \A x : <<q, x>> \in said => <<q, x>> \in said'
  BY <1>2, SaidOfOthers
<1>9. ASSUME NEW q \in (Dirty \ FromTarget)'
      PROVE  \/ by'[q] = Nobody
             \/ /\ q \in Dirty \ FromTarget /\ by'[q] = by[q] /\ content'[q] = content[q]
                /\ q # "code" \/ Removed' = Removed
                /\ <<q, content[q]>> \in said => <<q, content[q]>> \in said'
  <2>1. CASE q = "code"
    BY <1>6, <2>1
  <2>2. CASE q # "code"
    BY <1>1, <1>6, <1>8, <2>2 DEF Dirty, FromTarget
  <2> QED BY <2>1, <2>2
<1> QED BY <1>1, <1>6, <1>7, <1>9, MoveKeeps

LEMMA RecheckKeeps ==
    ASSUME RecheckInv, given \in Makes, RecheckNext
    PROVE  RecheckInv'
  BY PreBashKeeps, PostBashKeeps, PostTaskOutputKeeps, CutShortKeeps, WriteKeeps, MoveHeadKeeps,
     MergeTargetKeeps, EndMergeKeeps, TargetMovesKeeps, TamperKeeps, EditKeeps
  DEF RecheckNext

LEMMA RecheckTyped == ASSUME RecheckInit PROVE RecheckTypeOK
<1>1. content \in [Path -> Content] /\ head \in Content
  BY RecheckInvInit DEF RecheckInv, RecheckOK
<1>2. \A c \in Calls : call[c] = NoCall
  BY DEF RecheckInit, RecheckStart
<1>3. NoCall.at = "none" /\ NoCall.snapshot = NoSnapshot /\ NoCall.began \in [Path -> Content]
  BY DEF NoCall, Base, Content
<1>4. by \in [Path -> Calls \cup {0, -1}] /\ churn \in 0 .. MaxChurn /\ trouble \in Trouble
  BY RecheckAssumption DEF RecheckInit, RecheckStart, Nobody, Trouble
<1> QED BY <1>1, <1>2, <1>3, <1>4 DEF RecheckInit, RecheckStart, RecheckTypeOK

LEMMA RecheckTypeKept ==
    ASSUME RecheckInv, RecheckTypeOK, given \in Makes, RecheckNext
    PROVE  RecheckTypeOK'
<1>1. RecheckOK'
  BY RecheckKeeps DEF RecheckInv
<1>2. {merging', conflict'} \subseteq BOOLEAN /\ trouble' \in Trouble
  BY DEF RecheckTypeOK, RecheckNext, PreBash, PostBash, PostTaskOutput, Told, CutShort, Write, MoveHead, MergeTarget,
         EndMerge, TargetMoves, Tamper, Edit, hookVars
<1>3. churn' \in 0 .. MaxChurn
  <2>1. UNCHANGED churn \/ Churn
    BY DEF RecheckNext, PreBash, PostBash, PostTaskOutput, Told, CutShort, Write, MoveHead, MergeTarget,
           EndMerge, TargetMoves, Tamper, Edit
  <2> QED BY <2>1, RecheckAssumption DEF RecheckTypeOK, Churn
<1>4. astray' \subseteq Calls
  <2>1. CASE \E c \in Calls : PreBash(c) \/ PostBash(c) \/ PostTaskOutput(c) \/ CutShort(c)
    BY <2>1 DEF RecheckTypeOK, PreBash, PostBash, PostTaskOutput, Told, CutShort
  <2>2. CASE \E c \in Calls : Write(c) \/ MoveHead(c) \/ MergeTarget(c) \/ EndMerge(c)
    BY <2>2 DEF RecheckTypeOK, Write, MoveHead, MergeTarget, EndMerge, Beside, Running
  <2>3. CASE TargetMoves \/ Tamper \/ Edit
    BY <2>3 DEF RecheckTypeOK, TargetMoves, Tamper, Edit, Running
  <2> QED BY <2>1, <2>2, <2>3 DEF RecheckNext
<1>5. said' \subseteq Path \X Content
  <2>1. \A p \in Path : content[p] \in Content
    BY DEF RecheckInv, RecheckOK
  <2>2. Outside \subseteq Path
    BY OutsideIs
  <2>3. ASSUME NEW c \in Calls, NEW new, Told(c, new) PROVE said' \subseteq Path \X Content
    <3>1. PICK paths \in SUBSET Path : said' = said \cup {<<p, content[p]>> : p \in paths}
      <4>1. {q \in Outside : <<q, fingerprint(q)>> \in new} \subseteq Path
        BY <2>2
      <4> QED BY <2>3, <4>1 DEF Told
    <3> QED BY <2>1, <3>1 DEF RecheckTypeOK
  <2>4. \A c \in Calls : PostBash(c) \/ PostTaskOutput(c) => \E new : Told(c, new)
    BY DEF PostBash, PostTaskOutput
  <2>5. said' \subseteq said \/ \E c \in Calls : PostBash(c) \/ PostTaskOutput(c)
    BY DEF RecheckNext, PreBash, CutShort, Write, MoveHead, Commits, MergeTarget,
           EndMerge, TargetMoves, Tamper, Edit
  <2> QED BY <2>3, <2>4, <2>5 DEF RecheckTypeOK
<1>6. \A c \in Calls : /\ call'[c].at \in {"none", "runs", "left", "silent", "told", "cut"}
                       /\ call'[c].snapshot \in {NoSnapshot} \cup SUBSET (Path \X Sum)
                       /\ call'[c].began \in [Path -> Content]
  BY <1>1 DEF RecheckOK, CallRecord
<1>7. by' \in [Path -> Calls \cup {0, -1}]
  BY <1>1 DEF RecheckOK, Nobody
<1> QED BY <1>1, <1>2, <1>3, <1>4, <1>5, <1>6, <1>7 DEF RecheckTypeOK, RecheckOK
-----------------------------------------------------------------------------
(* Answers.                                                                 *)

PostRecord == [sha : Nat, verdict : Verdict]
Summary == [sha : Nat, addressed : Nat]
Branch == [sha : Nat, files : ThreadContent]

BranchOK ==
    /\ given.threads \in 0 .. Threads
    /\ tip \in Branch /\ gated \in Branch /\ own \subseteq Thread
    /\ target \in [Thread -> SUBSET {"target"}]
    /\ gated.sha <= tip.sha /\ (tip.sha = gated.sha => tip = gated) /\ (~inRound => tip = gated)
    /\ review.threads \subseteq Thread /\ prEvents \in Seq(Event)

\* What pup posted is of a head it has pinned, and of each one it posted once.
IsOncePerHead(posts) ==
    /\ \A i \in DOMAIN posts : posts[i].sha <= gated.sha
    /\ \A i, j \in DOMAIN posts : posts[i].sha = posts[j].sha => i = j

PostsOK ==
    /\ replies \in [Thread -> Seq(PostRecord)] /\ summed \in Seq(Summary) /\ resolved \subseteq Thread
    /\ IsOncePerHead(summed) /\ \A t \in Thread : IsOncePerHead(replies[t])

\* The events of a round, up to one of them: its start, and summaries.
IsRound(n) ==
    /\ n \in DOMAIN prEvents /\ prEvents[1].type = "fix_round" /\ prEvents[1].threads \subseteq Thread
    /\ prEvents[1].start \in Branch
    /\ \A i \in 2 .. n : prEvents[i].type = "session_done" /\ prEvents[i].says \in [Thread -> Word]

\* What the branch has beyond the round's start is the worker's own, or the target's.
IsOwned(began, f) ==
    /\ (f \in own) <=> (("worker" \in tip.files[f]) # ("worker" \in began[f]))
    /\ tip.files[f] \subseteq began[f] \cup target[f] \cup {"worker"}
    /\ began[f] \subseteq tip.files[f] \cup {"worker"}

RoundOK ==
    inRound => /\ IsRound(Len(prEvents)) /\ prEvents[1].start = gated /\ answers = {}
               /\ \A f \in Thread : IsOwned(gated.files, f)

\* The worker's last word on a thread
IsFixed(t) ==
    \E i \in DOMAIN prEvents :
        /\ prEvents[i].type = "session_done" /\ prEvents[i].says[t] = "fixed"
        /\ \A j \in i + 1 .. Len(prEvents) :
              prEvents[j].type = "session_done" => prEvents[j].says[t] = "nothing"

IsUnmarked(posts) == ~isMarked(posts, gated.sha)

\* Nothing was posted of a head that changed a file, and the change is the worker's.
ReadsRight(c) ==
    /\ answers = {c} /\ c.target \in ThreadContent
    /\ \A f \in filesTheRoundChanged(prEvents[1].start, c.target) :
          f \in own /\ IsUnmarked(summed) /\ \A t \in Thread : IsUnmarked(replies[t])

RepliesRight(c) ==
    /\ c.thread \in Thread /\ c.verdict \in Verdict /\ IsUnmarked(replies[c.thread])
    /\ \A other \in answers : other.call = "reply" /\ other.thread = c.thread => other = c

ResolvesRight(c) == c.thread \in Thread /\ c.thread \in own /\ IsFixed(c.thread)

\* What a summary counts is done, or is still to be done before it.
IsDone(t, sha) ==
    t \in resolved /\ \E j \in DOMAIN replies[t] : replies[t][j] = [sha |-> sha, verdict |-> "addressed"]
IsUnderWay(t) ==
    /\ t \in resolved \/ [call |-> "resolve", thread |-> t] \in answers
    /\ \/ \E j \in DOMAIN replies[t] : replies[t][j] = [sha |-> gated.sha, verdict |-> "addressed"]
       \/ [call |-> "reply", thread |-> t, verdict |-> "addressed"] \in answers

SumsRight(c) ==
    /\ IsUnmarked(summed) /\ \A other \in answers : other.call = "comment" => other = c
    /\ c.addressed \in Nat
    /\ \E addressed \in SUBSET Thread :
          c.addressed = Cardinality(addressed) /\ \A t \in addressed : IsUnderWay(t)

CallOK(c) ==
    CASE c.call = "read" -> ReadsRight(c)
      [] c.call = "reply" -> RepliesRight(c)
      [] c.call = "resolve" -> ResolvesRight(c)
      [] c.call = "comment" -> SumsRight(c)
      [] OTHER -> FALSE

AnsweringOK ==
    answers # {} =>
        /\ ~inRound /\ Len(prEvents) >= 2 /\ IsRound(Len(prEvents) - 1)
        /\ prEvents[Len(prEvents)].type = "merge"
        /\ \A c \in answers : CallOK(c)

AnswersInv == BranchOK /\ PostsOK /\ RoundOK /\ AnsweringOK /\ SummaryIsTrue

LEMMA GivenThreads == ASSUME BranchOK PROVE 1 .. given.threads \subseteq Thread
  BY AnswersAssumption DEF BranchOK, Thread

LEMMA MaxIs ==
    ASSUME NEW S \in SUBSET Int, NEW m \in S, \A d \in S : d <= m
    PROVE  Max(S) = m
<1>1. \A y \in S : m >= y
  OBVIOUS
<1>2. \A x \in S : (\A y \in S : x >= y) => x = m
  BY <1>1
<1> QED BY <1>1, <1>2 DEF Max

LEMMA PostsAre ==
    ASSUME PostsOK, BranchOK
    PROVE  /\ \A t \in Thread : \A i \in DOMAIN replies[t] : replies[t][i].sha \in Nat
           /\ \A i \in DOMAIN summed : summed[i].sha \in Nat /\ summed[i].addressed \in Nat
           /\ gated.sha \in Nat
<1>1. gated.sha \in Nat
  BY DEF BranchOK, Branch
<1>2. ASSUME NEW t \in Thread, NEW i \in DOMAIN replies[t] PROVE replies[t][i] \in PostRecord
  <2>1. replies[t] \in Seq(PostRecord)
    BY DEF PostsOK
  <2> QED BY <2>1, ElementOfSeq
<1>3. ASSUME NEW i \in DOMAIN summed PROVE summed[i] \in Summary
  BY ElementOfSeq DEF PostsOK
<1> QED BY <1>1, <1>2, <1>3 DEF PostRecord, Summary

\* What is posted stands, while the pin's number does not fall.
LEMMA PostsStay ==
    ASSUME PostsOK, SummaryIsTrue, BranchOK, BranchOK', UNCHANGED <<replies, resolved, summed>>,
           gated.sha <= gated'.sha
    PROVE  PostsOK' /\ SummaryIsTrue'
<1>1. gated.sha \in Nat /\ gated'.sha \in Nat
  BY DEF BranchOK, Branch
<1>2. ASSUME NEW posts, \A i \in DOMAIN posts : posts[i].sha \in Nat, IsOncePerHead(posts)
      PROVE  /\ \A i \in DOMAIN posts : posts[i].sha <= gated'.sha
             /\ \A i, j \in DOMAIN posts : posts[i].sha = posts[j].sha => i = j
  BY <1>1, <1>2 DEF IsOncePerHead
<1>3. IsOncePerHead(summed)'
  BY <1>2, PostsAre DEF PostsOK, IsOncePerHead
<1>4. ASSUME NEW t \in Thread PROVE IsOncePerHead(replies[t])'
  BY <1>2, PostsAre DEF PostsOK, IsOncePerHead
<1>5. PostsOK'
  BY <1>3, <1>4 DEF PostsOK
<1>6. SummaryIsTrue'
  BY DEF SummaryIsTrue
<1> QED BY <1>5, <1>6

LEMMA AnswersInvInit == AnswersInit => AnswersInv
<1> SUFFICES ASSUME AnswersInit PROVE AnswersInv
  OBVIOUS
<1>1. /\ given \in Instances /\ tip = [sha |-> 1, files |-> NoContent] /\ gated = tip
      /\ target = NoContent /\ own = {} /\ replies = [t \in Thread |-> <<>>] /\ resolved = {}
      /\ summed = <<>> /\ review = [on |-> 0, threads |-> {}] /\ prEvents = <<>> /\ inRound = FALSE
      /\ answers = {}
  BY DEF AnswersInit, AnswersRests
<1>2. given.threads \in 0 .. Threads
  BY <1>1, AnswersAssumption
<1>3. NoContent \in ThreadContent /\ NoContent \in [Thread -> SUBSET {"target"}]
  BY DEF NoContent, ThreadContent
<1>4. BranchOK
  BY <1>1, <1>2, <1>3 DEF BranchOK, Branch
<1>5. PostsOK
  BY <1>1 DEF PostsOK, IsOncePerHead
<1>6. RoundOK /\ AnsweringOK /\ SummaryIsTrue
  BY <1>1 DEF RoundOK, AnsweringOK, SummaryIsTrue
<1> QED BY <1>4, <1>5, <1>6 DEF AnswersInv

LEMMA CommitKeeps ==
    ASSUME AnswersInv, given' = given, WorkerCommits
    PROVE  AnswersInv'
<1>1. /\ inRound /\ answers = {}
      /\ UNCHANGED <<target, gated, replies, resolved, summed, review, prEvents, inRound, answers>>
  BY DEF WorkerCommits, onGitHub
<1>2. BranchOK /\ PostsOK /\ RoundOK /\ SummaryIsTrue
  BY DEF AnswersInv
<1>3. /\ tip.sha \in Nat /\ tip.files \in ThreadContent /\ gated \in Branch /\ gated.sha \in Nat
      /\ own \subseteq Thread /\ gated.sha <= tip.sha /\ given.threads \in 0 .. Threads
      /\ target \in [Thread -> SUBSET {"target"}]
  BY <1>2 DEF BranchOK, Branch
<1>4. PICK f \in Thread :
        \/ /\ tip' = [sha |-> tip.sha + 1, files |-> [tip.files EXCEPT ![f] = Toggled(@, "worker")]]
           /\ own' = Toggled(own, f)
        \/ /\ tip' = [sha |-> tip.sha + 1, files |-> [tip.files EXCEPT ![f] = @ \cup target[f]]]
           /\ own' = own
  BY <1>2, GivenThreads DEF WorkerCommits
<1>5. PICK new : new = IF own' = own THEN tip.files[f] \cup target[f] ELSE Toggled(tip.files[f], "worker")
  OBVIOUS
<1>6. own' # own => own' = Toggled(own, f)
  BY <1>4
<1>7. Toggled(own, f) # own /\ Toggled(own, f) \subseteq Thread
  BY <1>3 DEF Toggled
<1>8. tip' = [sha |-> tip.sha + 1, files |-> [tip.files EXCEPT ![f] = new]]
  BY <1>4, <1>5, <1>7
<1>9. new \in SUBSET {"worker", "target"}
  BY <1>3, <1>5 DEF Toggled, ThreadContent
<1>10. [tip.files EXCEPT ![f] = new] \in ThreadContent
  BY <1>3, <1>9 DEF ThreadContent
<1>11. tip' \in Branch /\ tip'.sha = tip.sha + 1 /\ tip'.files = [tip.files EXCEPT ![f] = new]
  BY <1>3, <1>8, <1>10 DEF Branch
<1>12. tip'.files[f] = new /\ \A g \in Thread \ {f} : tip'.files[g] = tip.files[g]
  BY <1>3, <1>11 DEF ThreadContent
<1>13. BranchOK'
  BY <1>1, <1>2, <1>3, <1>6, <1>7, <1>11 DEF BranchOK
<1>14. ASSUME NEW g \in Thread PROVE IsOwned(gated.files, g)'
  <2>1. IsOwned(gated.files, g)
    BY <1>1, <1>2 DEF RoundOK
  <2>2. CASE g # f
    <3>1. (g \in own') <=> (g \in own)
      BY <1>6, <2>2 DEF Toggled
    <3> QED BY <1>1, <1>12, <2>1, <2>2, <3>1 DEF IsOwned
  <2>3. CASE g = f /\ own' = own
    BY <1>1, <1>3, <1>5, <1>12, <2>1, <2>3 DEF IsOwned
  <2>4. CASE g = f /\ own' # own
    BY <1>1, <1>5, <1>6, <1>12, <2>1, <2>4 DEF IsOwned, Toggled
  <2> QED BY <2>2, <2>3, <2>4
<1>15. RoundOK'
  BY <1>1, <1>2, <1>14 DEF RoundOK, IsRound
<1>16. PostsOK' /\ SummaryIsTrue'
  BY <1>1, <1>2, <1>3, <1>13, PostsStay
<1>17. AnsweringOK'
  BY <1>1 DEF AnsweringOK
<1> QED BY <1>13, <1>15, <1>16, <1>17 DEF AnswersInv

\* A call to come is judged by the round, the pin and what is posted.
LEMMA CallStays ==
    ASSUME AnsweringOK, RoundOK,
           UNCHANGED <<gated, own, replies, resolved, summed, prEvents, inRound, answers>>
    PROVE  AnsweringOK'
<1>1. \A c \in answers : CallOK(c) <=> CallOK(c)'
  BY DEF CallOK, ReadsRight, RepliesRight, ResolvesRight, SumsRight, IsUnderWay, IsFixed, IsUnmarked, isMarked,
         filesTheRoundChanged
<1> QED BY <1>1 DEF AnsweringOK, IsRound

LEMMA TargetAdvancesKeeps ==
    ASSUME AnswersInv, given' = given, TargetAdvances
    PROVE  AnswersInv'
<1>1. UNCHANGED <<tip, gated, own, replies, resolved, summed, review, prEvents, inRound, answers>>
  BY DEF TargetAdvances, onGitHub
<1>2. BranchOK /\ PostsOK /\ RoundOK /\ SummaryIsTrue /\ AnsweringOK
  BY DEF AnswersInv
<1>3. target \in [Thread -> SUBSET {"target"}] /\ given.threads \in 0 .. Threads /\ gated.sha \in Nat
  BY <1>2 DEF BranchOK, Branch
<1>4. PICK f \in Thread : target' = [target EXCEPT ![f] = {"target"}]
  BY <1>2, GivenThreads DEF TargetAdvances
<1>5. /\ target' \in [Thread -> SUBSET {"target"}]
      /\ \A g \in Thread : target[g] \subseteq target'[g]
  BY <1>3, <1>4
<1>6. BranchOK'
  BY <1>1, <1>2, <1>5 DEF BranchOK
<1>7. RoundOK'
  BY <1>1, <1>2, <1>5 DEF RoundOK, IsRound, IsOwned
<1>8. PostsOK' /\ SummaryIsTrue'
  BY <1>1, <1>2, <1>3, <1>6, PostsStay
<1>9. AnsweringOK'
  BY <1>1, <1>2, CallStays
<1> QED BY <1>6, <1>7, <1>8, <1>9 DEF AnswersInv

LEMMA BotReviewsKeeps ==
    ASSUME AnswersInv, given' = given, BotReviews
    PROVE  AnswersInv'
<1>1. UNCHANGED <<tip, target, gated, own, replies, resolved, summed, prEvents, inRound, answers>>
  BY DEF BotReviews, onGitHub, gitVars
<1>2. BranchOK /\ PostsOK /\ RoundOK /\ SummaryIsTrue /\ AnsweringOK
  BY DEF AnswersInv
<1>3. given.threads \in 0 .. Threads /\ gated.sha \in Nat
  BY <1>2 DEF BranchOK, Branch
<1>4. review'.threads \subseteq Thread
  <2>1. \E threads \in SUBSET (1 .. given.threads) : review'.threads = threads
    BY DEF BotReviews
  <2> QED BY <1>2, <2>1, GivenThreads
<1>5. BranchOK'
  BY <1>1, <1>2, <1>4 DEF BranchOK
<1>6. RoundOK'
  BY <1>1, <1>2 DEF RoundOK, IsRound, IsOwned
<1>7. PostsOK' /\ SummaryIsTrue'
  BY <1>1, <1>2, <1>3, <1>5, PostsStay
<1>8. AnsweringOK'
  BY <1>1, <1>2, CallStays
<1> QED BY <1>5, <1>6, <1>7, <1>8 DEF AnswersInv

LEMMA StartRoundKeeps ==
    ASSUME AnswersInv, given' = given, StartRound
    PROVE  AnswersInv'
<1>1. /\ answers = {} /\ inRound' = TRUE /\ tip' = gated /\ own' = {}
      /\ UNCHANGED <<target, gated, replies, resolved, summed, review, answers>>
  BY DEF StartRound, onGitHub
<1>2. BranchOK /\ PostsOK /\ SummaryIsTrue
  BY DEF AnswersInv
<1>3. gated \in Branch /\ gated.sha \in Nat /\ review.threads \subseteq Thread /\ gated.files \in ThreadContent
  BY <1>2 DEF BranchOK, Branch
<1>4. PICK e \in Event :
        e = [type |-> "fix_round", start |-> gated, threads |-> review.threads \ resolved] /\ prEvents' = <<e>>
  BY <1>3 DEF StartRound, Event, Branch
<1>5. prEvents' \in Seq(Event) /\ Len(prEvents') = 1 /\ prEvents'[1] = e
  BY <1>4
<1>6. BranchOK'
  BY <1>1, <1>2, <1>3, <1>5 DEF BranchOK
<1>7. IsRound(Len(prEvents))' /\ prEvents'[1].start = gated
  BY <1>3, <1>4, <1>5 DEF IsRound
<1>8. RoundOK'
  BY <1>1, <1>7 DEF RoundOK, IsOwned
<1>9. PostsOK' /\ SummaryIsTrue'
  BY <1>1, <1>2, <1>3, <1>6, PostsStay
<1>10. AnsweringOK'
  BY <1>1 DEF AnsweringOK
<1> QED BY <1>6, <1>8, <1>9, <1>10 DEF AnswersInv

LEMMA SessionDoneKeeps ==
    ASSUME AnswersInv, given' = given, SessionDone
    PROVE  AnswersInv'
<1>1. /\ answers = {} /\ inRound
      /\ UNCHANGED <<tip, target, gated, own, replies, resolved, summed, review, inRound, answers>>
  BY DEF SessionDone, onGitHub, gitVars
<1>2. BranchOK /\ PostsOK /\ RoundOK /\ SummaryIsTrue /\ IsRound(Len(prEvents)) /\ prEvents \in Seq(Event)
  BY <1>1 DEF AnswersInv, RoundOK, BranchOK
<1>3. PICK word \in Word :
        \E t : prEvents' = Append(prEvents, [type |-> "session_done",
                                             says |-> [u \in Thread |-> IF u = t THEN word ELSE "nothing"]])
  BY DEF SessionDone
<1>4. PICK says \in [Thread -> Word] : prEvents' = Append(prEvents, [type |-> "session_done", says |-> says])
  <2>1. \A t : [u \in Thread |-> IF u = t THEN word ELSE "nothing"] \in [Thread -> Word]
    BY DEF Word
  <2> QED BY <1>3, <2>1
<1>5. PICK e \in Event : e = [type |-> "session_done", says |-> says]
  BY DEF Event
<1>6. prEvents' = Append(prEvents, e) /\ e.type = "session_done" /\ e.says = says
  BY <1>3, <1>4, <1>5
<1>7. /\ prEvents' \in Seq(Event) /\ Len(prEvents') = Len(prEvents) + 1 /\ Len(prEvents) \in Nat
      /\ DOMAIN prEvents' = 1 .. Len(prEvents) + 1 /\ DOMAIN prEvents = 1 .. Len(prEvents)
      /\ prEvents'[Len(prEvents) + 1] = e /\ \A i \in 1 .. Len(prEvents) : prEvents'[i] = prEvents[i]
  BY <1>2, <1>6, AppendIs
<1>8. BranchOK'
  BY <1>1, <1>2, <1>7 DEF BranchOK
<1>9. IsRound(Len(prEvents))' /\ prEvents'[1] = prEvents[1]
  BY <1>2, <1>6, <1>7 DEF IsRound
<1>10. RoundOK'
  BY <1>1, <1>2, <1>9 DEF RoundOK, IsOwned
<1>11. PostsOK' /\ SummaryIsTrue'
  BY <1>1, <1>2, <1>8, PostsStay, PostsAre
<1>12. AnsweringOK'
  BY <1>1 DEF AnsweringOK
<1> QED BY <1>8, <1>10, <1>11, <1>12 DEF AnswersInv

LEMMA KillRoundKeeps ==
    ASSUME AnswersInv, given' = given, KillRound
    PROVE  AnswersInv'
<1>1. /\ answers = {} /\ inRound' = FALSE /\ tip' = gated /\ own' = {}
      /\ UNCHANGED <<target, gated, replies, resolved, summed, review, prEvents, answers>>
  BY DEF KillRound, onGitHub
<1>2. BranchOK /\ PostsOK /\ SummaryIsTrue /\ gated.sha \in Nat
  BY DEF AnswersInv, BranchOK, Branch
<1>3. BranchOK'
  BY <1>1, <1>2 DEF BranchOK
<1>4. PostsOK' /\ SummaryIsTrue'
  BY <1>1, <1>2, <1>3, PostsStay
<1> QED BY <1>1, <1>3, <1>4 DEF AnswersInv, RoundOK, AnsweringOK

LEMMA PinnedIs ==
    ASSUME NEW branch \in Branch, target \in [Thread -> SUBSET {"target"}]
    PROVE  /\ Pinned(branch) \in Branch /\ Pinned(branch).files = Merged(branch.files, target)
           /\ Pinned(branch) = branch \/ Pinned(branch).sha = branch.sha + 1
           /\ branch.sha \in Nat
<1>1. branch.sha \in Nat /\ branch.files \in ThreadContent
  BY DEF Branch
<1>2. PICK files \in ThreadContent : files = Merged(branch.files, target)
  BY <1>1 DEF Merged, ThreadContent
<1>3. Pinned(branch) = IF files = branch.files THEN branch ELSE [sha |-> branch.sha + 1, files |-> files]
  BY <1>2 DEF Pinned
<1>4. CASE files = branch.files
  BY <1>1, <1>2, <1>3, <1>4
<1>5. CASE files # branch.files
  BY <1>1, <1>2, <1>3, <1>5 DEF Branch
<1> QED BY <1>4, <1>5

\* The pin of a branch that is not behind the pin there is.
LEMMA RecordedKeeps ==
    ASSUME AnswersInv, given' = given, NEW branch \in {tip, gated}, Recorded(branch), inRound' = FALSE,
           answers = {}, UNCHANGED <<target, own, replies, resolved, summed, review>>
    PROVE  /\ BranchOK' /\ PostsOK' /\ SummaryIsTrue' /\ RoundOK'
           /\ gated' = Pinned(branch)
           /\ Len(prEvents') = Len(prEvents) + 1 /\ prEvents'[Len(prEvents) + 1].type = "merge"
           /\ DOMAIN prEvents' = 1 .. Len(prEvents) + 1 /\ DOMAIN prEvents = 1 .. Len(prEvents)
           /\ \A i \in 1 .. Len(prEvents) : prEvents'[i] = prEvents[i]
<1>1. BranchOK /\ PostsOK /\ SummaryIsTrue
  BY DEF AnswersInv
<1>2. /\ branch \in Branch /\ target \in [Thread -> SUBSET {"target"}] /\ prEvents \in Seq(Event)
      /\ gated.sha <= branch.sha /\ gated.sha \in Nat /\ branch.sha \in Nat
  BY <1>1 DEF BranchOK, Branch
<1>3. PICK pin \in Branch : pin = Pinned(branch) /\ (pin = branch \/ pin.sha = branch.sha + 1)
  BY <1>2, PinnedIs
<1>4. pin.sha \in Nat
  BY DEF Branch
<1>5. tip' = pin /\ gated' = pin /\ prEvents' = Append(prEvents, [type |-> "merge", sha |-> pin.sha])
  BY <1>3 DEF Recorded
<1>6. PICK e \in Event : e = [type |-> "merge", sha |-> pin.sha]
  BY <1>4 DEF Event
<1>7. e.type = "merge"
  BY <1>6
<1>8. /\ prEvents' \in Seq(Event) /\ Len(prEvents') = Len(prEvents) + 1
      /\ DOMAIN prEvents' = 1 .. Len(prEvents) + 1 /\ DOMAIN prEvents = 1 .. Len(prEvents)
      /\ prEvents'[Len(prEvents) + 1] = e /\ \A i \in 1 .. Len(prEvents) : prEvents'[i] = prEvents[i]
  BY <1>2, <1>5, <1>6, AppendIs
<1>9. gated.sha <= pin.sha
  BY <1>2, <1>3, <1>4
<1>10. BranchOK'
  BY <1>1, <1>4, <1>5, <1>8 DEF BranchOK
<1>11. PostsOK' /\ SummaryIsTrue'
  BY <1>1, <1>5, <1>9, <1>10, PostsStay
<1>12. RoundOK'
  BY DEF RoundOK
<1> QED BY <1>3, <1>5, <1>7, <1>8, <1>10, <1>11, <1>12

LEMMA ReGateKeeps ==
    ASSUME AnswersInv, given' = given, ReGate
    PROVE  AnswersInv'
<1>1. /\ Recorded(gated) /\ inRound' = FALSE /\ answers = {} /\ answers' = {}
      /\ UNCHANGED <<target, own, replies, resolved, summed, review>>
  BY DEF ReGate, onGitHub, AnswersInv, BranchOK
<1>2. BranchOK' /\ PostsOK' /\ SummaryIsTrue' /\ RoundOK'
  BY <1>1, RecordedKeeps
<1> QED BY <1>1, <1>2 DEF AnswersInv, AnsweringOK

LEMMA GateRoundKeeps ==
    ASSUME AnswersInv, given' = given, GateRound
    PROVE  AnswersInv'
<1>1. /\ Recorded(tip) /\ inRound /\ inRound' = FALSE /\ answers = {}
      /\ answers' = {[call |-> "read", target |-> target]}
      /\ UNCHANGED <<target, own, replies, resolved, summed, review>>
  BY DEF GateRound, onGitHub
<1>2. /\ BranchOK' /\ PostsOK' /\ SummaryIsTrue' /\ RoundOK' /\ gated' = Pinned(tip)
      /\ Len(prEvents') = Len(prEvents) + 1 /\ prEvents'[Len(prEvents) + 1].type = "merge"
      /\ DOMAIN prEvents' = 1 .. Len(prEvents) + 1 /\ DOMAIN prEvents = 1 .. Len(prEvents)
      /\ \A i \in 1 .. Len(prEvents) : prEvents'[i] = prEvents[i]
  BY <1>1, RecordedKeeps
<1>3. /\ BranchOK /\ PostsOK /\ tip \in Branch /\ gated \in Branch /\ target \in [Thread -> SUBSET {"target"}]
      /\ IsRound(Len(prEvents)) /\ prEvents[1].start = gated /\ \A f \in Thread : IsOwned(gated.files, f)
      /\ gated.sha <= tip.sha /\ (tip.sha = gated.sha => tip = gated)
  BY <1>1 DEF AnswersInv, BranchOK, RoundOK
<1>4. /\ gated.sha \in Nat /\ tip.sha \in Nat /\ gated.files \in ThreadContent /\ tip.files \in ThreadContent
  BY <1>3 DEF Branch
<1>5. /\ gated'.files = Merged(tip.files, target) /\ (gated' = tip \/ gated'.sha = tip.sha + 1)
  BY <1>2, <1>3, PinnedIs
<1>6. Len(prEvents) \in Nat \ {0} /\ 1 \in DOMAIN prEvents
  BY <1>2, <1>3 DEF IsRound
<1>7. prEvents'[1] = prEvents[1] /\ IsRound(Len(prEvents) - 1)'
  BY <1>2, <1>3, <1>6 DEF IsRound
<1>8. ASSUME NEW f \in Thread, gated'.files[f] # Merged(gated.files, target)[f]
      PROVE  f \in own /\ gated.sha < gated'.sha
  <2>1. Merged(gated.files, target)[f] = gated.files[f] \cup target[f] /\ gated'.files[f] = tip.files[f] \cup target[f]
    BY <1>5 DEF Merged
  <2>2. f \in own
    <3>1. IsOwned(gated.files, f) /\ tip.files[f] \subseteq {"worker", "target"} /\ gated.files[f] \subseteq {"worker", "target"}
      BY <1>3, <1>4 DEF ThreadContent
    <3> QED BY <1>8, <2>1, <3>1 DEF IsOwned
  <2>3. gated'.sha # gated.sha
    <3> SUFFICES ASSUME gated'.sha = gated.sha PROVE FALSE
      OBVIOUS
    <3>1. tip = gated /\ gated' = tip
      BY <1>3, <1>4, <1>5
    <3> QED BY <1>8, <2>1, <3>1
  <2> QED BY <1>3, <1>4, <1>5, <2>2, <2>3
<1>9. ASSUME gated.sha < gated'.sha
       PROVE  IsUnmarked(summed)' /\ \A t \in Thread : IsUnmarked(replies[t])'
  <2>1. gated'.sha \in Nat
    BY <1>2 DEF BranchOK, Branch
  <2>2. /\ \A i \in DOMAIN summed : summed[i].sha <= gated.sha /\ summed[i].sha \in Nat
        /\ \A t \in Thread : \A i \in DOMAIN replies[t] : replies[t][i].sha <= gated.sha /\ replies[t][i].sha \in Nat
    BY <1>3, PostsAre DEF PostsOK, IsOncePerHead
  <2>3. /\ \A i \in DOMAIN summed : summed[i].sha # gated'.sha
        /\ \A t \in Thread : \A i \in DOMAIN replies[t] : replies[t][i].sha # gated'.sha
    BY <1>4, <1>9, <2>1, <2>2
  <2> QED BY <1>1, <2>3 DEF IsUnmarked, isMarked
<1>10. PICK c : c = [call |-> "read", target |-> target]
  OBVIOUS
<1>11. c.call = "read" /\ c.target = target /\ answers' = {c}
  BY <1>1, <1>10
<1>12. target \in ThreadContent
  BY <1>3 DEF ThreadContent
<1>13. ASSUME NEW f \in filesTheRoundChanged(prEvents[1].start, target)'
       PROVE  f \in own' /\ IsUnmarked(summed)' /\ \A t \in Thread : IsUnmarked(replies[t])'
  <2>1. f \in Thread /\ gated'.files[f] # Merged(gated.files, target)[f]
    BY <1>1, <1>3, <1>7 DEF filesTheRoundChanged, Merged
  <2> QED BY <1>1, <1>8, <1>9, <2>1
<1>14. ReadsRight(c)'
  BY <1>1, <1>7, <1>11, <1>12, <1>13 DEF ReadsRight
<1>15. AnsweringOK'
  BY <1>1, <1>2, <1>6, <1>7, <1>11, <1>14 DEF AnsweringOK, CallOK
<1> QED BY <1>2, <1>15 DEF AnswersInv

\* What a summary of the round comes to for a thread.
SummariesOfRound == Summaries(1)
VerdictOn(t, onTarget) ==
    threadVerdict(threadAnswers(SummariesOfRound, t), t \in filesTheRoundChanged(prEvents[1].start, onTarget))
AddressedOf(onTarget) == {t \in prEvents[1].threads : VerdictOn(t, onTarget) = "addressed"}

LEMMA RoundIsTheFirst ==
    ASSUME prEvents \in Seq(Event), Len(prEvents) >= 2, IsRound(Len(prEvents) - 1),
           prEvents[Len(prEvents)].type = "merge"
    PROVE  /\ roundTheNewestMergeEnded = 1
           /\ SummariesOfRound = 2 .. Len(prEvents) - 1
<1> DEFINE n == Len(prEvents)
           kinds == {"fix_round", "merge"}
<1>1. n \in Nat /\ n >= 2 /\ DOMAIN prEvents = 1 .. n
  OBVIOUS
<1>2. prEvents[1].type = "fix_round" /\ prEvents[n].type = "merge" /\ \A i \in 2 .. n - 1 : prEvents[i].type = "session_done"
  BY DEF IsRound
<1> HIDE DEF n
<1>3. {i \in DOMAIN prEvents : prEvents[i].type \in kinds} \cup {0} = {0, 1, n}
  <2>1. ASSUME NEW i \in DOMAIN prEvents, prEvents[i].type \in kinds PROVE i \in {1, n}
    <3>1. i \notin 2 .. n - 1
      BY <1>2, <2>1
    <3> QED BY <1>1, <3>1
  <2> QED BY <1>1, <1>2, <2>1
<1>4. NewestOf(kinds) = n
  <2>1. Max({0, 1, n}) = n
    <3>1. {0, 1, n} \in SUBSET Int /\ n \in {0, 1, n} /\ \A d \in {0, 1, n} : d <= n
      BY <1>1
    <3> HIDE DEF n
    <3> QED BY <3>1, MaxIs
  <2> QED BY <1>3, <2>1, Zenon DEF NewestOf
<1>5. {i \in 1 .. n - 1 : prEvents[i].type \in kinds} \cup {0} = {0, 1}
  <2>1. ASSUME NEW i \in 1 .. n - 1, prEvents[i].type \in kinds PROVE i = 1
    <3>1. i \notin 2 .. n - 1
      BY <1>2, <2>1
    <3> QED BY <1>1, <3>1
  <2> QED BY <1>1, <1>2, <2>1
<1>6. Max({i \in 1 .. n - 1 : prEvents[i].type \in kinds} \cup {0}) = 1
  <2>1. Max({0, 1}) = 1
    <3>1. {0, 1} \in SUBSET Int /\ 1 \in {0, 1} /\ \A d \in {0, 1} : d <= 1
      OBVIOUS
    <3> QED BY <3>1, MaxIs
  <2> QED BY <1>5, <2>1
<1>7. roundTheNewestMergeEnded = 1
  BY <1>2, <1>4, <1>6 DEF roundTheNewestMergeEnded
<1>8. SummariesOfRound = 2 .. n - 1
  BY <1>1, <1>2 DEF SummariesOfRound, Summaries
<1> QED BY <1>7, <1>8 DEF n

LEMMA VerdictIs ==
    ASSUME prEvents \in Seq(Event), Len(prEvents) >= 2, IsRound(Len(prEvents) - 1),
           prEvents[Len(prEvents)].type = "merge", NEW t \in Thread, NEW onTarget
    PROVE  /\ VerdictOn(t, onTarget) \in Verdict
           /\ VerdictOn(t, onTarget) = "addressed" =>
                 IsFixed(t) /\ t \in filesTheRoundChanged(prEvents[1].start, onTarget)
<1>1. PICK n \in Nat : n = Len(prEvents) /\ n >= 2 /\ DOMAIN prEvents = 1 .. n /\ SummariesOfRound = 2 .. n - 1
  BY RoundIsTheFirst
<1>2. \A i \in 2 .. n - 1 : prEvents[i].type = "session_done" /\ prEvents[i].says[t] \in Word
  BY <1>1 DEF IsRound
<1>3. prEvents[1].type = "fix_round" /\ prEvents[n].type = "merge"
  BY <1>1 DEF IsRound
<1>4. PICK naming \in SUBSET (1 .. n) : naming = {i \in SummariesOfRound : prEvents[i].says[t] # "nothing"}
  <2>1. SummariesOfRound \subseteq 1 .. n
    BY <1>1
  <2> QED BY <2>1
<1>5. CASE naming = {}
  <2>1. threadAnswers(SummariesOfRound, t) = "unanswered"
    BY <1>4, <1>5 DEF threadAnswers
  <2> QED BY <2>1 DEF VerdictOn, threadVerdict, Verdict
<1>6. CASE naming # {}
  <2>1. PICK m \in naming : \A d \in naming : d <= m
    BY <1>1, <1>6, GreatestExists
  <2>2. Max(naming) = m
    BY <2>1, MaxIs
  <2>3. m \in 2 .. n - 1 /\ prEvents[m].says[t] \in Word \ {"nothing"} /\ prEvents[m].type = "session_done"
    BY <1>1, <1>2, <1>4, <2>1
  <2>4. threadAnswers(SummariesOfRound, t) =
          IF prEvents[m].says[t] = "named" THEN "unanswered" ELSE prEvents[m].says[t]
    BY <1>4, <1>6, <2>2 DEF threadAnswers
  <2>5. ASSUME prEvents[m].says[t] = "fixed" PROVE IsFixed(t)
    <3>1. ASSUME NEW j \in m + 1 .. n, prEvents[j].type = "session_done" PROVE prEvents[j].says[t] = "nothing"
      <4>1. j # n /\ j \in 2 .. n - 1
        BY <1>3, <2>3, <3>1
      <4>2. j \notin naming
        BY <2>1, <2>3
      <4> QED BY <1>1, <1>4, <4>1, <4>2
    <3> QED BY <1>1, <2>3, <2>5, <3>1 DEF IsFixed
  <2> QED BY <2>3, <2>4, <2>5 DEF VerdictOn, threadVerdict, Verdict, Word
<1> QED BY <1>5, <1>6

LEMMA ReadKeeps ==
    ASSUME AnswersInv, given' = given, NEW c \in answers, Read(c)
    PROVE  AnswersInv'
<1>1. /\ c.call = "read" /\ answers' = (IF roundTheNewestMergeEnded = 0 THEN {} ELSE CallsFor(c.target))
      /\ UNCHANGED <<tip, target, gated, own, replies, resolved, summed, review, prEvents, inRound>>
  BY DEF Read, onGitHub, gitVars
<1>2. /\ BranchOK /\ PostsOK /\ RoundOK /\ SummaryIsTrue /\ AnsweringOK /\ CallOK(c)
      /\ ~inRound /\ Len(prEvents) >= 2 /\ IsRound(Len(prEvents) - 1)
      /\ prEvents[Len(prEvents)].type = "merge" /\ prEvents \in Seq(Event)
  BY DEF AnswersInv, AnsweringOK, BranchOK
<1>3. ReadsRight(c)
  BY <1>1, <1>2 DEF CallOK
<1>4. PICK onTarget : onTarget = c.target
  OBVIOUS
<1>5. roundTheNewestMergeEnded = 1
  BY <1>2, RoundIsTheFirst
<1>6. prEvents[1].threads \subseteq Thread
  BY <1>2 DEF IsRound
<1>7. \A t \in Thread : /\ VerdictOn(t, onTarget) \in Verdict
                        /\ VerdictOn(t, onTarget) = "addressed" =>
                              IsFixed(t) /\ t \in filesTheRoundChanged(prEvents[1].start, onTarget)
  BY <1>2, VerdictIs
<1>8. PICK addressed \in SUBSET Thread : addressed = AddressedOf(onTarget)
  BY <1>6 DEF AddressedOf
<1>9. PICK unmarked \in SUBSET Thread : unmarked = {t \in prEvents[1].threads : IsUnmarked(replies[t])}
  BY <1>6
<1>10. answers' = {[call |-> "reply", thread |-> t, verdict |-> VerdictOn(t, onTarget)] : t \in unmarked}
                    \cup {[call |-> "resolve", thread |-> t] : t \in addressed \ resolved}
                    \cup (IF isMarked(summed, gated.sha) THEN {}
                          ELSE {[call |-> "comment", addressed |-> Cardinality(addressed)]})
  BY <1>1, <1>4, <1>5, <1>8, <1>9
  DEF CallsFor, AddressedOf, VerdictOn, SummariesOfRound, IsUnmarked
<1>11. ASSUME NEW t \in addressed
       PROVE  /\ t \in own /\ IsFixed(t) /\ VerdictOn(t, onTarget) = "addressed" /\ t \in unmarked
              /\ IsUnmarked(summed) /\ t \in prEvents[1].threads
  <2>1. t \in prEvents[1].threads /\ VerdictOn(t, onTarget) = "addressed" /\ t \in Thread
    BY <1>8 DEF AddressedOf
  <2>2. t \in filesTheRoundChanged(prEvents[1].start, onTarget) /\ IsFixed(t)
    BY <1>7, <2>1
  <2>3. t \in own /\ IsUnmarked(summed) /\ \A u \in Thread : IsUnmarked(replies[u])
    BY <1>3, <1>4, <2>2 DEF ReadsRight
  <2> QED BY <1>9, <2>1, <2>2, <2>3
<1>12. ASSUME NEW d \in answers'
       PROVE  \/ /\ d.call = "reply" /\ d.thread \in unmarked
                 /\ d = [call |-> "reply", thread |-> d.thread, verdict |-> VerdictOn(d.thread, onTarget)]
              \/ d.call = "resolve" /\ d.thread \in addressed \ resolved
              \/ /\ d.call = "comment" /\ ~isMarked(summed, gated.sha)
                 /\ d = [call |-> "comment", addressed |-> Cardinality(addressed)]
  BY <1>10
<1>13. ASSUME NEW d \in answers', d.call = "reply" PROVE RepliesRight(d)'
  <2>1. /\ d.thread \in unmarked
        /\ d = [call |-> "reply", thread |-> d.thread, verdict |-> VerdictOn(d.thread, onTarget)]
    BY <1>12, <1>13
  <2>2. d.verdict = VerdictOn(d.thread, onTarget)
    BY <2>1
  <2>3. ASSUME NEW other \in answers', other.call = "reply", other.thread = d.thread PROVE other = d
    BY <1>12, <2>1, <2>3
  <2>4. d.thread \in Thread /\ d.verdict \in Verdict /\ IsUnmarked(replies[d.thread])
    BY <1>7, <1>9, <2>1, <2>2
  <2> QED BY <1>1, <2>3, <2>4 DEF RepliesRight, IsUnmarked
<1>14. ASSUME NEW d \in answers', d.call = "resolve" PROVE ResolvesRight(d)'
  <2>1. d.thread \in addressed
    BY <1>12, <1>14
  <2>2. d.thread \in Thread /\ d.thread \in own /\ IsFixed(d.thread)
    BY <1>11, <2>1
  <2> QED BY <1>1, <2>2 DEF ResolvesRight, IsFixed
<1>15. ASSUME NEW d \in answers', d.call = "comment" PROVE SumsRight(d)'
  <2>1. ~isMarked(summed, gated.sha) /\ d = [call |-> "comment", addressed |-> Cardinality(addressed)]
    BY <1>12, <1>15
  <2>2. d.addressed = Cardinality(addressed) /\ Cardinality(addressed) \in Nat
    <3>1. IsFiniteSet(addressed)
      <4>1. Threads \in Nat
        BY AnswersAssumption
      <4>2. IsFiniteSet(Thread)
        BY <4>1, FS_Interval DEF Thread
      <4> QED BY <4>2, FS_Subset
    <3> QED BY <2>1, <3>1, FS_CardinalityType
  <2>3. \A other \in answers' : other.call = "comment" => other = d
    BY <1>12, <2>1
  <2>4. ASSUME NEW t \in addressed PROVE IsUnderWay(t)'
    <3>1. t \in resolved \/ [call |-> "resolve", thread |-> t] \in answers'
      BY <1>10
    <3>2. [call |-> "reply", thread |-> t, verdict |-> "addressed"] \in answers'
      BY <1>10, <1>11
    <3> QED BY <1>1, <3>1, <3>2 DEF IsUnderWay
  <2> QED BY <1>1, <2>1, <2>2, <2>3, <2>4 DEF SumsRight, IsUnmarked
<1>16. \A d \in answers' : CallOK(d)'
  BY <1>12, <1>13, <1>14, <1>15 DEF CallOK
<1>17. AnsweringOK'
  BY <1>1, <1>2, <1>16 DEF AnsweringOK, IsRound
<1>18. BranchOK' /\ RoundOK'
  BY <1>1, <1>2 DEF BranchOK, RoundOK
<1>19. PostsOK' /\ SummaryIsTrue'
  BY <1>1, <1>2, <1>18, PostsStay, PostsAre
<1> QED BY <1>17, <1>18, <1>19 DEF AnswersInv

LEMMA ThreadsAreFinite == Threads \in Nat /\ IsFiniteSet(Thread)
<1>1. Threads \in Nat
  BY AnswersAssumption
<1> QED BY <1>1, FS_Interval DEF Thread

\* A summary stays true while what it counts stays done.
LEMMA SumsStay ==
    ASSUME SummaryIsTrue, resolved' \subseteq Thread, \A t \in Thread, x \in Nat : IsDone(t, x) => IsDone(t, x)',
           PostsOK, BranchOK, NEW i \in DOMAIN summed, summed'[i] = summed[i]
    PROVE  summed'[i].addressed <=
             Cardinality({t \in resolved' : \E j \in DOMAIN replies'[t] :
                             replies'[t][j] = [sha |-> summed'[i].sha, verdict |-> "addressed"]})
<1>1. PICK sha \in Nat : sha = summed[i].sha
  BY PostsAre
<1>2. PICK before : before = {t \in resolved : \E j \in DOMAIN replies[t] :
                                  replies[t][j] = [sha |-> sha, verdict |-> "addressed"]}
  OBVIOUS
<1>3. PICK after : after = {t \in resolved' : \E j \in DOMAIN replies'[t] :
                                replies'[t][j] = [sha |-> sha, verdict |-> "addressed"]}
  OBVIOUS
<1>4. before \subseteq after /\ after \subseteq Thread
  <2>1. \A t \in before : t \in Thread /\ IsDone(t, sha)
    BY <1>2 DEF IsDone, PostsOK
  <2> QED BY <1>3, <2>1 DEF IsDone
<1>5. IsFiniteSet(after) /\ IsFiniteSet(before)
  BY <1>4, ThreadsAreFinite, FS_Subset
<1>6. Cardinality(before) <= Cardinality(after) /\ Cardinality(before) \in Nat /\ Cardinality(after) \in Nat
  BY <1>4, <1>5, FS_Subset, FS_CardinalityType
<1>7. summed[i].addressed <= Cardinality(before)
  BY <1>1, <1>2 DEF SummaryIsTrue
<1> QED BY <1>1, <1>3, <1>6, <1>7, PostsAre

\* What is to be done is done, or still to be done, once a call is answered.
LEMMA PostedKeeps ==
    ASSUME AnswersInv, given' = given, NEW c \in answers, c.call # "read", IsNext(c), Posted(c),
           answers' \in {answers \ {c}, {}},
           UNCHANGED <<tip, target, gated, own, review, prEvents, inRound>>
    PROVE  AnswersInv'
<1>1. /\ BranchOK /\ PostsOK /\ RoundOK /\ SummaryIsTrue /\ AnsweringOK
      /\ ~inRound /\ Len(prEvents) >= 2 /\ IsRound(Len(prEvents) - 1)
      /\ prEvents[Len(prEvents)].type = "merge" /\ \A d \in answers : CallOK(d)
      /\ replies \in [Thread -> Seq(PostRecord)] /\ summed \in Seq(Summary) /\ resolved \subseteq Thread
      /\ gated.sha \in Nat
  BY DEF AnswersInv, AnsweringOK, PostsOK, BranchOK, Branch
<1>2. BranchOK' /\ RoundOK'
  BY <1>1 DEF BranchOK, RoundOK
<1>3. ASSUME PostsOK', SummaryIsTrue', \A d \in answers \ {c} : d \in answers' => CallOK(d)' PROVE AnswersInv'
  BY <1>1, <1>2, <1>3 DEF AnswersInv, AnsweringOK, IsRound
<1>4. CallOK(c)
  BY <1>1
<1>5. ASSUME NEW d \in answers PROVE d.call # "read"
  <2> SUFFICES ASSUME d.call = "read" PROVE FALSE
    OBVIOUS
  <2>1. answers = {d}
    BY <1>1 DEF CallOK, ReadsRight
  <2> QED BY <2>1
<1>6. ASSUME NEW d \in answers, d.call = "resolve" PROVE ResolvesRight(d)'
  <2>1. ResolvesRight(d)
    BY <1>1, <1>6 DEF CallOK
  <2> QED BY <2>1 DEF ResolvesRight, IsFixed
<1>7. CASE c.call = "reply"
  <2>1. RepliesRight(c) /\ UNCHANGED <<resolved, summed>>
    BY <1>4, <1>7 DEF CallOK, Posted
  <2>2. PICK t \in Thread, e \in PostRecord :
          /\ t = c.thread /\ e = [sha |-> gated.sha, verdict |-> c.verdict]
          /\ replies' = [replies EXCEPT ![t] = Append(@, e)]
    BY <1>1, <1>7, <2>1 DEF RepliesRight, Posted, PostRecord
  <2>3. /\ replies' \in [Thread -> Seq(PostRecord)]
        /\ replies'[t] = Append(replies[t], e) /\ \A u \in Thread \ {t} : replies'[u] = replies[u]
    BY <1>1, <2>2
  <2>4. PICK n \in Nat : /\ n = Len(replies[t]) /\ DOMAIN replies[t] = 1 .. n /\ DOMAIN replies'[t] = 1 .. n + 1
                         /\ replies'[t][n + 1] = e /\ \A i \in 1 .. n : replies'[t][i] = replies[t][i]
    BY <1>1, <2>2, <2>3, AppendIs
  <2>5. e.sha = gated.sha /\ \A i \in 1 .. n : replies[t][i].sha # gated.sha
    BY <2>1, <2>2, <2>4 DEF RepliesRight, IsUnmarked, isMarked
  <2>6. IsOncePerHead(replies[t])'
    <3>1. IsOncePerHead(replies[t])
      BY <1>1 DEF PostsOK
    <3>2. \A i \in 1 .. n : replies'[t][i] = replies[t][i] /\ replies[t][i].sha # gated.sha /\ replies[t][i].sha <= gated.sha
      BY <2>4, <2>5, <3>1 DEF IsOncePerHead
    <3>3. \A i \in DOMAIN replies'[t] : replies'[t][i].sha <= gated.sha
      BY <1>1, <2>4, <2>5, <3>2
    <3>4. \A i, j \in DOMAIN replies'[t] : replies'[t][i].sha = replies'[t][j].sha => i = j
      BY <2>4, <2>5, <3>1, <3>2, SMTT(30) DEF IsOncePerHead
    <3> QED BY <3>3, <3>4 DEF IsOncePerHead
  <2>7. PostsOK'
    BY <1>1, <2>1, <2>3, <2>6 DEF PostsOK, IsOncePerHead
  <2>8. \A u \in Thread : \A i \in DOMAIN replies[u] : i \in DOMAIN replies'[u] /\ replies'[u][i] = replies[u][i]
    <3>1. \A i \in DOMAIN replies[t] : i \in DOMAIN replies'[t] /\ replies'[t][i] = replies[t][i]
      BY <2>4, SMTT(30)
    <3> QED BY <2>3, <3>1
  <2>9. \A u \in Thread, x \in Nat : IsDone(u, x) => IsDone(u, x)'
    BY <2>1, <2>8 DEF IsDone
  <2>10. SummaryIsTrue'
    <3>1. DOMAIN summed' = DOMAIN summed /\ resolved' \subseteq Thread
      BY <1>1, <2>1
    <3> QED BY <1>1, <2>1, <2>9, <3>1, SumsStay DEF SummaryIsTrue
  <2>11. ASSUME answers' = answers \ {c}, NEW d \in answers', d.call = "reply" PROVE RepliesRight(d)'
    <3>1. RepliesRight(d) /\ d \in answers /\ d # c
      BY <1>1, <2>11 DEF CallOK
    <3>2. d.thread # t
      BY <1>7, <2>2, <3>1 DEF RepliesRight
    <3>3. d.thread \in Thread /\ replies'[d.thread] = replies[d.thread]
      BY <2>3, <3>1, <3>2 DEF RepliesRight
    <3> QED BY <2>11, <3>1, <3>3 DEF RepliesRight, IsUnmarked, isMarked
  <2>12. ASSUME answers' = answers \ {c}, NEW d \in answers', d.call = "comment" PROVE SumsRight(d)'
    <3>1. SumsRight(d)
      BY <1>1, <2>12 DEF CallOK
    <3>2. PICK addressed \in SUBSET Thread : d.addressed = Cardinality(addressed) /\ \A u \in addressed : IsUnderWay(u)
      BY <3>1 DEF SumsRight
    <3>3. ASSUME NEW u \in addressed PROVE IsUnderWay(u)'
      <4>1. IsUnderWay(u) /\ u \in Thread
        BY <3>2
      <4>2. u \in resolved' \/ [call |-> "resolve", thread |-> u] \in answers'
        BY <1>7, <2>1, <2>12, <4>1 DEF IsUnderWay
      <4>3. CASE \E j \in DOMAIN replies[u] : replies[u][j] = [sha |-> gated.sha, verdict |-> "addressed"]
        BY <2>8, <4>1, <4>2, <4>3 DEF IsUnderWay
      <4>4. CASE c = [call |-> "reply", thread |-> u, verdict |-> "addressed"]
        <5>1. u = t /\ e = [sha |-> gated.sha, verdict |-> "addressed"]
          BY <2>2, <4>4
        <5> QED BY <2>4, <4>2, <5>1 DEF IsUnderWay
      <4>5. CASE [call |-> "reply", thread |-> u, verdict |-> "addressed"] \in answers \ {c}
        BY <2>12, <4>2, <4>5 DEF IsUnderWay
      <4> QED BY <4>1, <4>3, <4>4, <4>5 DEF IsUnderWay
    <3> QED BY <2>1, <2>12, <3>1, <3>2, <3>3 DEF SumsRight, IsUnmarked, isMarked
  <2>13. ASSUME NEW d \in answers', d \in answers \ {c} PROVE CallOK(d)'
    <3>1. answers' = answers \ {c}
      BY <2>13
    <3>2. d.call \in {"reply", "resolve", "comment"}
      BY <1>1, <1>5, <2>13 DEF CallOK
    <3> QED BY <1>6, <2>11, <2>12, <2>13, <3>1, <3>2 DEF CallOK
  <2> QED BY <1>3, <2>7, <2>10, <2>13
<1>8. CASE c.call = "resolve"
  <2>1. ResolvesRight(c) /\ UNCHANGED <<replies, summed>> /\ resolved' = resolved \cup {c.thread}
    BY <1>4, <1>8 DEF CallOK, Posted
  <2>2. resolved' \subseteq Thread
    BY <1>1, <2>1 DEF ResolvesRight
  <2>3. PostsOK'
    BY <1>1, <2>1, <2>2 DEF PostsOK, IsOncePerHead
  <2>4. \A u \in Thread, x \in Nat : IsDone(u, x) => IsDone(u, x)'
    BY <2>1 DEF IsDone
  <2>5. SummaryIsTrue'
    BY <1>1, <2>1, <2>2, <2>4, SumsStay DEF SummaryIsTrue
  <2>6. ASSUME answers' = answers \ {c}, NEW d \in answers', d.call = "reply" PROVE RepliesRight(d)'
    <3>1. RepliesRight(d)
      BY <1>1, <2>6 DEF CallOK
    <3> QED BY <2>1, <2>6, <3>1 DEF RepliesRight, IsUnmarked, isMarked
  <2>7. ASSUME answers' = answers \ {c}, NEW d \in answers', d.call = "comment" PROVE SumsRight(d)'
    <3>1. SumsRight(d)
      BY <1>1, <2>7 DEF CallOK
    <3>2. PICK addressed \in SUBSET Thread : d.addressed = Cardinality(addressed) /\ \A u \in addressed : IsUnderWay(u)
      BY <3>1 DEF SumsRight
    <3>3. ASSUME NEW u \in addressed PROVE IsUnderWay(u)'
      <4>1. IsUnderWay(u)
        BY <3>2
      <4>2. u \in resolved' \/ [call |-> "resolve", thread |-> u] \in answers'
        BY <2>1, <2>7, <4>1 DEF IsUnderWay
      <4>3. [call |-> "reply", thread |-> u, verdict |-> "addressed"] # c
        BY <1>8
      <4> QED BY <2>1, <2>7, <4>1, <4>2, <4>3 DEF IsUnderWay
    <3> QED BY <2>1, <2>7, <3>1, <3>2, <3>3 DEF SumsRight, IsUnmarked, isMarked
  <2>8. ASSUME NEW d \in answers', d \in answers \ {c} PROVE CallOK(d)'
    <3>1. answers' = answers \ {c}
      BY <2>8
    <3>2. d.call \in {"reply", "resolve", "comment"}
      BY <1>1, <1>5, <2>8 DEF CallOK
    <3> QED BY <1>6, <2>6, <2>7, <2>8, <3>1, <3>2 DEF CallOK
  <2> QED BY <1>3, <2>3, <2>5, <2>8
<1>9. CASE c.call = "comment"
  <2>1. SumsRight(c) /\ UNCHANGED <<replies, resolved>>
    BY <1>4, <1>9 DEF CallOK, Posted
  <2>2. PICK e \in Summary : e = [sha |-> gated.sha, addressed |-> c.addressed] /\ summed' = Append(summed, e)
    BY <1>1, <1>9, <2>1 DEF SumsRight, Posted, Summary
  <2>3. ASSUME NEW d \in answers PROVE d = c
    <3>1. Turn(c) = 2 * Threads + 1 /\ Turn(c) <= Turn(d)
      BY <1>9 DEF Turn, IsNext
    <3>2. ASSUME d.thread \in Thread, d.call \in {"reply", "resolve"} PROVE FALSE
      <4>1. d.thread \in Nat /\ d.thread <= Threads /\ Threads \in Nat
        BY <3>2, ThreadsAreFinite DEF Thread
      <4>2. Turn(d) <= 2 * d.thread /\ Turn(d) \in Int
        BY <3>2, <4>1 DEF Turn
      <4> QED BY <3>1, <4>1, <4>2
    <3>3. CallOK(d)
      BY <1>1
    <3>4. d.call = "comment"
      BY <1>5, <3>2, <3>3 DEF CallOK, RepliesRight, ResolvesRight
    <3> QED BY <2>1, <3>4 DEF SumsRight
  <2>4. PICK n \in Nat : /\ n = Len(summed) /\ DOMAIN summed = 1 .. n /\ DOMAIN summed' = 1 .. n + 1
                         /\ summed'[n + 1] = e /\ \A i \in 1 .. n : summed'[i] = summed[i]
                         /\ summed' \in Seq(Summary)
    BY <1>1, <2>2, AppendIs
  <2>5. e.sha = gated.sha /\ e.addressed = c.addressed /\ \A i \in 1 .. n : summed[i].sha # gated.sha
    BY <2>1, <2>2, <2>4 DEF SumsRight, IsUnmarked, isMarked
  <2>6. IsOncePerHead(summed)'
    <3>1. IsOncePerHead(summed)
      BY <1>1 DEF PostsOK
    <3>2. \A i \in 1 .. n : summed'[i] = summed[i] /\ summed[i].sha # gated.sha /\ summed[i].sha <= gated.sha
      BY <2>4, <2>5, <3>1 DEF IsOncePerHead
    <3>3. \A i \in DOMAIN summed' : summed'[i].sha <= gated.sha
      BY <1>1, <2>4, <2>5, <3>2
    <3>4. \A i, j \in DOMAIN summed' : summed'[i].sha = summed'[j].sha => i = j
      BY <2>4, <2>5, <3>1, <3>2 DEF IsOncePerHead
    <3> QED BY <3>3, <3>4 DEF IsOncePerHead
  <2>7. PostsOK'
    BY <1>1, <2>1, <2>4, <2>6 DEF PostsOK, IsOncePerHead
  <2>8. \A u \in Thread, x \in Nat : IsDone(u, x) => IsDone(u, x)'
    BY <2>1 DEF IsDone
  <2>9. PICK addressed \in SUBSET Thread : c.addressed = Cardinality(addressed) /\ \A u \in addressed : IsUnderWay(u)
    BY <2>1 DEF SumsRight
  <2>10. PICK done : done = {t \in resolved : \E j \in DOMAIN replies[t] :
                                replies[t][j] = [sha |-> gated.sha, verdict |-> "addressed"]}
    OBVIOUS
  <2>11. addressed \subseteq done
    <3>1. ASSUME NEW u \in addressed PROVE u \in done
      <4>1. IsUnderWay(u)
        BY <2>9
      <4>2. [call |-> "resolve", thread |-> u] \notin answers /\ [call |-> "reply", thread |-> u, verdict |-> "addressed"] \notin answers
        BY <1>9, <2>3
      <4> QED BY <2>10, <4>1, <4>2 DEF IsUnderWay
    <3> QED BY <3>1
  <2>12. Cardinality(addressed) <= Cardinality(done)
    <3>1. done \subseteq Thread
      BY <1>1, <2>10
    <3>2. IsFiniteSet(done)
      BY <3>1, ThreadsAreFinite, FS_Subset
    <3> QED BY <2>11, <3>2, FS_Subset
  <2>13. SummaryIsTrue'
    <3> SUFFICES ASSUME NEW i \in DOMAIN summed'
                 PROVE  summed'[i].addressed <=
                          Cardinality({t \in resolved' : \E j \in DOMAIN replies'[t] :
                              replies'[t][j] = [sha |-> summed'[i].sha, verdict |-> "addressed"]})
      BY DEF SummaryIsTrue
    <3>1. CASE i = n + 1
      <4>1. summed'[i].sha = gated.sha /\ summed'[i].addressed = Cardinality(addressed)
        BY <2>4, <2>5, <2>9, <3>1
      <4>2. done = {t \in resolved' : \E j \in DOMAIN replies'[t] :
                       replies'[t][j] = [sha |-> summed'[i].sha, verdict |-> "addressed"]}
        BY <2>1, <2>10, <4>1
      <4> QED BY <2>12, <4>1, <4>2
    <3>2. CASE i # n + 1
      <4>1. i \in DOMAIN summed /\ summed'[i] = summed[i] /\ resolved' \subseteq Thread
        BY <1>1, <2>1, <2>4, <3>2
      <4> QED BY <1>1, <2>8, <4>1, SumsStay
    <3> QED BY <3>1, <3>2
  <2> QED BY <1>3, <2>3, <2>7, <2>13
<1> QED BY <1>4, <1>5, <1>7, <1>8, <1>9 DEF CallOK

LEMMA PostKeeps ==
    ASSUME AnswersInv, given' = given, NEW c \in answers, Post(c)
    PROVE  AnswersInv'
  BY PostedKeeps DEF Post, gitVars

LEMMA CutOffKeeps ==
    ASSUME AnswersInv, given' = given, NEW c \in answers, CutOff(c)
    PROVE  AnswersInv'
<1>1. answers' = {} /\ UNCHANGED <<tip, target, gated, own, review, prEvents, inRound>>
  BY DEF CutOff, afterCut, gitVars
<1>2. CASE c.call # "read" /\ IsNext(c) /\ Posted(c)
  BY <1>1, <1>2, PostedKeeps
<1>3. CASE UNCHANGED <<replies, resolved, summed>>
  <2>1. BranchOK /\ PostsOK /\ SummaryIsTrue /\ AnsweringOK
    BY DEF AnswersInv
  <2>2. BranchOK' /\ ~inRound
    BY <1>1, <2>1 DEF BranchOK, AnsweringOK
  <2>3. PostsOK' /\ SummaryIsTrue'
    BY <1>1, <1>3, <2>1, <2>2, PostsStay, PostsAre
  <2> QED BY <1>1, <2>2, <2>3 DEF AnswersInv, RoundOK, AnsweringOK
<1> QED BY <1>2, <1>3 DEF CutOff, onGitHub

LEMMA AnswersKeeps ==
    ASSUME AnswersInv, given' = given, AnswersNext
    PROVE  AnswersInv'
  BY CommitKeeps, TargetAdvancesKeeps, BotReviewsKeeps, StartRoundKeeps, SessionDoneKeeps, KillRoundKeeps,
     GateRoundKeeps, ReGateKeeps, ReadKeeps, PostKeeps, CutOffKeeps
  DEF AnswersNext

\* A thread is resolved by a call that the round has earned.
LEMMA ResolvedByACall ==
    ASSUME AnswersInv, AnswersNext, NEW t \in resolved' \ resolved
    PROVE  t \in own /\ IsFixed(t)
<1>1. \E c \in answers : c.call # "read" /\ Posted(c)
  BY DEF AnswersNext, WorkerCommits, TargetAdvances, BotReviews, StartRound, SessionDone, KillRound,
         GateRound, ReGate, Read, Post, CutOff, onGitHub
<1>2. PICK c \in answers : c.call = "resolve" /\ t = c.thread
  BY <1>1 DEF Posted
<1>3. ResolvesRight(c)
  BY <1>2 DEF AnswersInv, AnsweringOK, CallOK
<1> QED BY <1>2, <1>3 DEF ResolvesRight

\* Beyond what the answers keep, the review and the bounds.
AnswersBounded ==
    /\ AnswersInv /\ review \in [on : Nat, threads : SUBSET Thread]
    /\ rounds \in Nat /\ {inRound, cut} \subseteq BOOLEAN

LEMMA AnswersTypedBy == ASSUME AnswersBounded PROVE AnswersTypeOK
<1>1. \A next \in answers : next.call \in {"read", "reply", "resolve", "comment"}
  BY DEF AnswersBounded, AnswersInv, AnsweringOK, CallOK
<1>2. target \in ThreadContent
  BY DEF AnswersBounded, AnswersInv, BranchOK, ThreadContent
<1> QED BY <1>1, <1>2 DEF AnswersBounded, AnswersInv, BranchOK, PostsOK, AnswersTypeOK, Branch, PostRecord, Summary

LEMMA AnswersTyped == ASSUME AnswersInit PROVE AnswersBounded
  BY AnswersInvInit DEF AnswersBounded, AnswersInit, AnswersRests

LEMMA AnswersTypeKept ==
    ASSUME AnswersBounded, AnswersNext, given' = given
    PROVE  AnswersBounded'
<1>1. AnswersInv'
  BY AnswersKeeps DEF AnswersBounded
<1>2. review' \in [on : Nat, threads : SUBSET Thread]
  <2>1. CASE UNCHANGED review
    BY <2>1 DEF AnswersBounded
  <2>2. CASE BotReviews
    <3>1. 1 .. given.threads \subseteq Thread /\ gated.sha \in Nat
      BY GivenThreads DEF AnswersBounded, AnswersInv, BranchOK, Branch
    <3> QED BY <2>2, <3>1 DEF BotReviews
  <2> QED BY <2>1, <2>2
          DEF AnswersNext, WorkerCommits, TargetAdvances, StartRound, SessionDone, KillRound, GateRound, ReGate,
              Read, Post, CutOff
<1>3. {inRound', cut'} \subseteq {inRound, cut, TRUE, FALSE} /\ rounds' \in {rounds, rounds + 1}
  BY DEF AnswersNext, WorkerCommits, TargetAdvances, BotReviews, StartRound, SessionDone, KillRound, GateRound, ReGate,
         Read, Post, CutOff
<1>4. rounds' \in Nat /\ {inRound', cut'} \subseteq BOOLEAN
  <2>1. rounds \in Nat /\ inRound \in BOOLEAN /\ cut \in BOOLEAN
    BY DEF AnswersBounded
  <2>2. rounds + 1 \in Nat
    BY <2>1
  <2> QED BY <1>3, <2>1, <2>2
<1> QED BY <1>1, <1>2, <1>4 DEF AnswersBounded
-----------------------------------------------------------------------------
(* Links: counting.                                                         *)

\* What holds of nought and of the next of each number it holds of holds of all.
LEMMA CountsUp ==
    ASSUME NEW S, 0 \in S, \A n \in Nat : n \in S => n + 1 \in S
    PROVE  \A n \in Nat : n \in S
<1> SUFFICES ASSUME Nat \ S # {} PROVE FALSE
  OBVIOUS
<1>1. PICK m \in Nat \ S : \A y \in Nat \ S : ~ <<y, m>> \in OpToRel(<, Nat)
  BY NatLessThanWellFounded, WFMin, Zenon
<1>2. \A y \in Nat \ S : ~ (y < m)
  BY <1>1 DEF OpToRel
<1>3. m \in Nat /\ m \notin S
  OBVIOUS
<1>4. m # 0
  BY <1>3
<1>5. PICK n \in Nat : m = n + 1
  <2>1. m - 1 \in Nat /\ m = (m - 1) + 1
    BY <1>3, <1>4
  <2> QED BY <2>1
<1>6. n \in S
  BY <1>2, <1>5
<1> QED BY <1>3, <1>5, <1>6

\* A step that is a function, taken again and again from a start.
IsIteration(f, S, s, g) == f \in [Nat -> S] /\ f[0] = s /\ \A n \in Nat : f[n + 1] = g[<<f[n], n>>]

LEMMA Iterates ==
    ASSUME NEW S, NEW s \in S, NEW g \in [S \X Nat -> S]
    PROVE  \E f : IsIteration(f, S, s, g)
<1> DEFINE IsRun(h, n) == /\ h \in [0 .. n -> S] /\ h[0] = s
                          /\ \A i \in 0 .. n : i + 1 \in 0 .. n => h[i + 1] = g[<<h[i], i>>]
<1>1. ASSUME NEW n \in Nat, NEW m \in Nat, NEW h, NEW k, IsRun(h, n), IsRun(k, m)
      PROVE  \A i \in Nat : i \in 0 .. n /\ i \in 0 .. m => h[i] = k[i]
  <2> DEFINE same == {i \in Nat : i \in 0 .. n /\ i \in 0 .. m => h[i] = k[i]}
  <2>1. 0 \in same
    BY <1>1
  <2>2. ASSUME NEW i \in Nat, i \in same PROVE i + 1 \in same
    <3> SUFFICES ASSUME i + 1 \in 0 .. n, i + 1 \in 0 .. m PROVE h[i + 1] = k[i + 1]
      OBVIOUS
    <3>1. i \in 0 .. n /\ i \in 0 .. m
      OBVIOUS
    <3>2. h[i] = k[i]
      BY <2>2, <3>1
    <3> QED BY <1>1, <3>1, <3>2
  <2>3. \A i \in Nat : i \in same
    <3> HIDE DEF same
    <3> QED BY <2>1, <2>2, CountsUp
  <2> QED BY <2>3
<1>2. \A n \in Nat : \E h : IsRun(h, n)
  <2> DEFINE has == {n \in Nat : \E h : IsRun(h, n)}
  <2>1. 0 \in has
    <3>1. IsRun([i \in 0 .. 0 |-> s], 0)
      OBVIOUS
    <3> QED BY <3>1
  <2>2. ASSUME NEW n \in Nat, n \in has PROVE n + 1 \in has
    <3>1. PICK h : IsRun(h, n)
      BY <2>2
    <3>2. PICK k : k = [i \in 0 .. n + 1 |-> IF i = n + 1 THEN g[<<h[n], n>>] ELSE h[i]]
      OBVIOUS
    <3>3. g[<<h[n], n>>] \in S
      BY <3>1
    <3>4. k \in [0 .. n + 1 -> S] /\ k[0] = s /\ k[n + 1] = g[<<h[n], n>>] /\ \A i \in 0 .. n : k[i] = h[i]
      BY <3>1, <3>2, <3>3
    <3>5. ASSUME NEW i \in 0 .. n + 1, i + 1 \in 0 .. n + 1 PROVE k[i + 1] = g[<<k[i], i>>]
      <4>1. CASE i = n
        BY <3>4, <4>1
      <4>2. CASE i # n
        <5>1. i \in 0 .. n /\ i + 1 \in 0 .. n
          BY <3>5, <4>2
        <5> QED BY <3>1, <3>4, <5>1
      <4> QED BY <4>1, <4>2
    <3>6. IsRun(k, n + 1)
      BY <3>4, <3>5
    <3> QED BY <3>6
  <2>3. \A n \in Nat : n \in has
    <3> HIDE DEF has
    <3> QED BY <2>1, <2>2, CountsUp
  <2> QED BY <2>3
<1> DEFINE run(n) == CHOOSE h : IsRun(h, n)
           f == [n \in Nat |-> run(n)[n]]
<1>3. \A n \in Nat : IsRun(run(n), n)
  BY <1>2
<1>4. f \in [Nat -> S] /\ f[0] = s
  <2> HIDE DEF run
  <2>1. ASSUME NEW n \in Nat PROVE run(n)[n] \in S
    BY <1>3
  <2>2. run(0)[0] = s
    BY <1>3
  <2> QED BY <2>1, <2>2
<1>5. ASSUME NEW n \in Nat PROVE f[n + 1] = g[<<f[n], n>>]
  <2> HIDE DEF run
  <2>1. IsRun(run(n), n) /\ IsRun(run(n + 1), n + 1)
    BY <1>3
  <2>2. run(n + 1)[n] = run(n)[n]
    <3> HIDE DEF IsRun
    <3> QED BY <1>1, <2>1
  <2>3. run(n + 1)[n + 1] = g[<<run(n + 1)[n], n>>]
    BY <2>1
  <2> QED BY <2>2, <2>3
<1> QED
  <2> HIDE DEF f
  <2> QED BY <1>4, <1>5 DEF IsIteration
-----------------------------------------------------------------------------
(* Links: how a walk goes.                                                  *)

Segments == Segment \cup {"/"}
Name == Segment \ {".."}

\* A walk that left the checkout, or found nothing, is over.
Walker == {w \in [at : Place, path : Seq(Segments)] : w.at \in {Missing, OutsideCheckout} => w.path = <<>>}

LinksGiven == DOMAIN given = {L, K} /\ \A x \in {L, K} : given[x] \in Seq(Segments) /\ given[x] # <<>>

LEMMA PathIs ==
    ASSUME NEW S, NEW p \in Seq(S), p # <<>>
    PROVE  Head(p) \in S /\ Tail(p) \in Seq(S) /\ p = <<Head(p)>> \o Tail(p) /\ Head(p) = p[1]
  BY HeadTailProperties

LEMMA PathsJoin ==
    ASSUME NEW S, NEW p \in Seq(S), NEW q \in Seq(S)
    PROVE  /\ p \o q \in Seq(S) /\ <<>> \o p = p /\ p \o <<>> = p
           /\ p # <<>> => p \o q # <<>> /\ Head(p \o q) = Head(p) /\ Tail(p \o q) = Tail(p) \o q
  OBVIOUS

LEMMA JoinedOn ==
    ASSUME NEW S
    PROVE  \A p, q \in Seq(S) : p # <<>> => p \o q # <<>> /\ Head(p \o q) = Head(p) /\ Tail(p \o q) = Tail(p) \o q
  BY PathsJoin

\* The places there are, and where a step from one leads.
LEMMA PlacesAre ==
    /\ L = <<"l">> /\ K = <<"d", "k">> /\ File = <<"d", "f">> /\ L # K
    /\ Front(L) = <<>> /\ Front(K) = <<"d">> /\ Front(<<"d">>) = <<>> /\ Front(<<"m">>) = <<>>
    /\ \A seg : Append(<<>>, seg) = <<seg>>
    /\ \A dir, seg : Append(<<dir>>, seg) = <<dir, seg>>
<1>1. L = <<"l">> /\ K = <<"d", "k">> /\ File = <<"d", "f">> /\ L # K
  BY DEF L, K, File
<1>2. Front(L) = <<>> /\ Front(<<"d">>) = <<>> /\ Front(<<"m">>) = <<>>
  BY DEF L, Front
<1>3. Front(K) = <<"d">>
  <2> DEFINE k == <<"d", "k">>
             front == SubSeq(k, 1, 1)
  <2>1. Front(K) = front
    BY DEF K, Front
  <2>2. front \in Seq({"d", "k"}) /\ Len(front) = 1 /\ front[1] = "d"
    <3>1. k[1] = "d" /\ \A i \in 1 .. 1 : k[i] \in {"d", "k"}
      OBVIOUS
    <3> HIDE DEF k
    <3>2. /\ front \in Seq({"d", "k"}) /\ Len(front) = IF 1 <= 1 THEN 1 - 1 + 1 ELSE 0
          /\ \A i \in 1 .. 1 - 1 + 1 : front[i] = k[1 + i - 1]
      BY <3>1, SubSeqProperties
    <3> HIDE DEF front
    <3> QED BY <3>1, <3>2
  <2>3. <<"d">> \in Seq({"d", "k"}) /\ Len(<<"d">>) = 1 /\ <<"d">>[1] = "d"
    OBVIOUS
  <2>4. front = <<"d">>
    <3> HIDE DEF front
    <3>1. \A i \in 1 .. Len(front) : front[i] = <<"d">>[i]
      BY <2>2, <2>3
    <3> QED BY <2>2, <2>3, <3>1, SeqEqual
  <2> QED BY <2>1, <2>4
<1>4. \A seg : Append(<<>>, seg) = <<seg>>
  OBVIOUS
<1>5. ASSUME NEW dir, NEW seg PROVE Append(<<dir>>, seg) = <<dir, seg>>
  <2> DEFINE S == {dir, seg}
             path == Append(<<dir>>, seg)
  <2>1. <<dir>> \in Seq(S) /\ Len(<<dir>>) = 1 /\ <<dir>>[1] = dir /\ seg \in S
    OBVIOUS
  <2>2. path \in Seq(S) /\ Len(path) = 2 /\ path[1] = dir /\ path[2] = seg
    BY <2>1, AppendProperties
  <2>3. <<dir, seg>> \in Seq(S) /\ Len(<<dir, seg>>) = 2 /\ <<dir, seg>>[1] = dir /\ <<dir, seg>>[2] = seg
    OBVIOUS
  <2> HIDE DEF S, path
  <2>4. \A i \in 1 .. Len(path) : path[i] = <<dir, seg>>[i]
    BY <2>2, <2>3
  <2>5. path = <<dir, seg>>
    BY <2>2, <2>3, <2>4, SeqEqual
  <2> QED BY <2>5 DEF path
<1> QED BY <1>1, <1>2, <1>3, <1>4, <1>5

LEMMA ShortPaths ==
    /\ \A c : <<c>> \o <<>> = <<c>> /\ SubSeq(<<c>>, 1, 1) = <<c>>
    /\ \A a, b : <<a>> \o <<b>> = <<a, b>>
<1>1. ASSUME NEW c PROVE <<c>> \o <<>> = <<c>> /\ SubSeq(<<c>>, 1, 1) = <<c>>
  <2>0. <<c>> \in Seq({c}) /\ Len(<<c>>) = 1
    OBVIOUS
  <2>1. PICK p \in Seq({c}) : p = <<c>> /\ Len(p) = 1
    BY <2>0
  <2>2. p \o <<>> = p
    BY ConcatEmptySeq
  <2>3. SubSeq(p, 1, Len(p)) = p
    BY SubSeqFull
  <2> QED BY <2>1, <2>2, <2>3
<1>2. ASSUME NEW a, NEW b PROVE <<a>> \o <<b>> = <<a, b>>
  <2>0. <<a>> \in Seq({a, b})
    OBVIOUS
  <2>1. PICK p \in Seq({a, b}) : p = <<a>>
    BY <2>0
  <2>2. b \in {a, b}
    OBVIOUS
  <2>3. Append(p, b) = p \o <<b>>
    BY <2>2, AppendIsConcat
  <2> QED BY <2>1, <2>3, PlacesAre
<1> QED BY <1>1, <1>2

LEMMA GoesTyped ==
    ASSUME LinksGiven, NEW env \in BOOLEAN, NEW w \in Walker
    PROVE  Goes(w, env) \in Walker
<1>1. w \in [at : Place, path : Seq(Segments)] /\ w.at \in Place /\ w.path \in Seq(Segments)
  BY DEF Walker
<1>2. ASSUME NEW p \in Place PROVE Ends(p) \in Walker
  BY <1>2 DEF Walker, Ends
<1>3. ASSUME NEW p \in Place \ {Missing, OutsideCheckout}, NEW q \in Seq(Segments) PROVE [at |-> p, path |-> q] \in Walker
  BY <1>3 DEF Walker
<1>4. /\ Environment \in Place \ {Missing, OutsideCheckout} /\ Missing \in Place /\ OutsideCheckout \in Place
      /\ <<>> \in Place \ {Missing, OutsideCheckout} /\ <<"d">> \in Place \ {Missing, OutsideCheckout}
      /\ <<"m">> \in Place \ {Missing, OutsideCheckout} /\ File \in Place \ {Missing, OutsideCheckout}
  BY DEF Place, Environment, Missing, OutsideCheckout, File
<1>5. Dirs(env) \subseteq {<<>>, <<"d">>, <<"m">>}
  BY DEF Dirs
<1>6. CASE w.path = <<>>
  BY <1>6 DEF Goes
<1>7. CASE w.path # <<>>
  <2>1. Tail(w.path) \in Seq(Segments)
    BY <1>1, <1>7, PathIs
  <2>2. ASSUME w.at \in Dirs(env) PROVE w.at = <<>> \/ Front(w.at) = <<>>
    BY <1>5, <2>2, PlacesAre
  <2>3. ASSUME NEW x \in DOMAIN given PROVE given[x] \o Tail(w.path) \in Seq(Segments)
    BY <2>1, <2>3, PathsJoin DEF LinksGiven
  <2>4. \A p \in Dirs(env) \cup {File} : p \in Place \ {Missing, OutsideCheckout}
    BY <1>4, <1>5
  <2> QED BY <1>2, <1>3, <1>4, <1>7, <2>1, <2>2, <2>3, <2>4 DEF Goes
<1> QED BY <1>6, <1>7

Outset(x) == [at |-> Front(x), path |-> given[x]]

LEMMA WalkIs ==
    ASSUME LinksGiven, NEW env \in BOOLEAN, NEW x \in {L, K}
    PROVE  /\ Walk(x, env) \in [Nat -> Walker] /\ Walk(x, env)[0] = Outset(x)
           /\ \A n \in Nat : Walk(x, env)[n + 1] = Goes(Walk(x, env)[n], env)
<1>1. Outset(x) \in Walker
  <2>1. Front(x) \in {<<>>, <<"d">>}
    BY PlacesAre
  <2>2. {<<>>, <<"d">>} \subseteq Place \ {Missing, OutsideCheckout}
    BY DEF Place, Missing, OutsideCheckout
  <2> QED BY <2>1, <2>2 DEF Outset, Walker, LinksGiven
<1>2. PICK g \in [Walker \X Nat -> Walker] : \A w \in Walker, n \in Nat : g[<<w, n>>] = Goes(w, env)
  <2>1. [p \in Walker \X Nat |-> Goes(p[1], env)] \in [Walker \X Nat -> Walker]
    BY GoesTyped
  <2>2. \A w \in Walker, n \in Nat : [p \in Walker \X Nat |-> Goes(p[1], env)][<<w, n>>] = Goes(w, env)
    OBVIOUS
  <2> QED BY <2>1, <2>2
<1>3. PICK f \in [Nat -> Walker] : f[0] = Outset(x) /\ \A n \in Nat : f[n + 1] = g[<<f[n], n>>]
  <2>1. PICK s \in Walker : s = Outset(x)
    BY <1>1
  <2>2. PICK f : IsIteration(f, Walker, s, g)
    BY Iterates
  <2> QED BY <2>1, <2>2 DEF IsIteration
<1>4. \A n \in Nat : f[n + 1] = Goes(f[n], env)
  BY <1>2, <1>3
<1>5. f = [n \in Nat |-> IF n = 0 THEN Outset(x) ELSE Goes(f[n - 1], env)]
  <2>1. ASSUME NEW n \in Nat PROVE f[n] = IF n = 0 THEN Outset(x) ELSE Goes(f[n - 1], env)
    <3>1. CASE n = 0
      BY <1>3, <3>1
    <3>2. CASE n # 0
      <4>1. n - 1 \in Nat /\ (n - 1) + 1 = n
        BY <3>2
      <4>2. f[n] = Goes(f[n - 1], env)
        BY <1>4, <4>1
      <4> QED BY <3>2, <4>2
    <3> QED BY <3>1, <3>2
  <2> QED BY <1>3, <2>1
<1>6. Walk(x, env) = CHOOSE h : h = [n \in Nat |-> IF n = 0 THEN Outset(x) ELSE Goes(h[n - 1], env)]
  BY DEF Walk, Outset
<1>7. Walk(x, env) = [n \in Nat |-> IF n = 0 THEN Outset(x) ELSE Goes(Walk(x, env)[n - 1], env)]
  BY <1>5, <1>6
<1>8. PICK h : h = Walk(x, env)
  OBVIOUS
<1>9. h = [n \in Nat |-> IF n = 0 THEN Outset(x) ELSE Goes(h[n - 1], env)]
  BY <1>7, <1>8
<1>10. h[0] = Outset(x) /\ \A n \in Nat : h[n + 1] = Goes(h[n], env)
  <2>1. \A n \in Nat : h[n] = IF n = 0 THEN Outset(x) ELSE Goes(h[n - 1], env)
    BY <1>9, Zenon
  <2>2. \A n \in Nat : n + 1 \in Nat /\ n + 1 # 0 /\ (n + 1) - 1 = n
    OBVIOUS
  <2> QED BY <2>1, <2>2
<1>11. \A n \in Nat : h[n] \in Walker
  <2> DEFINE ok == {n \in Nat : h[n] \in Walker}
  <2>1. 0 \in ok
    BY <1>1, <1>10
  <2>2. \A n \in Nat : n \in ok => n + 1 \in ok
    BY <1>10, GoesTyped
  <2>3. \A n \in Nat : n \in ok
    <3> HIDE DEF ok
    <3> QED BY <2>1, <2>2, CountsUp
  <2> QED BY <2>3
<1> QED BY <1>8, <1>9, <1>10, <1>11

\* A walk that is over stays where it is.
LEMMA OverStays ==
    ASSUME LinksGiven, NEW env \in BOOLEAN, NEW x \in {L, K}, NEW n \in Nat, Walk(x, env)[n].path = <<>>
    PROVE  \A m \in Nat : Walk(x, env)[n + m] = Walk(x, env)[n]
<1> DEFINE over == {m \in Nat : Walk(x, env)[n + m] = Walk(x, env)[n]}
<1>1. 0 \in over
  OBVIOUS
<1>2. ASSUME NEW m \in Nat, m \in over PROVE m + 1 \in over
  <2>1. Walk(x, env)[n + m] = Walk(x, env)[n]
    BY <1>2
  <2>2. PICK k \in Nat : k = n + m /\ k + 1 = n + (m + 1)
    OBVIOUS
  <2>3. Walk(x, env)[k + 1] = Goes(Walk(x, env)[k], env)
    BY WalkIs
  <2>4. Goes(Walk(x, env)[n], env) = Walk(x, env)[n]
    BY DEF Goes
  <2> QED BY <2>1, <2>2, <2>3, <2>4
<1>3. \A m \in Nat : m \in over
  <2> HIDE DEF over
  <2> QED BY <1>1, <1>2, CountsUp
<1> QED BY <1>3

\* The environment adds to what a walk finds, and changes nothing that was found.
LEMMA FoundStays ==
    ASSUME LinksGiven, NEW x \in {L, K}
    PROVE  \A n \in Nat : Walk(x, FALSE)[n].at = Missing \/ Walk(x, FALSE)[n] = Walk(x, TRUE)[n]
<1> DEFINE same == {n \in Nat : Walk(x, FALSE)[n].at = Missing \/ Walk(x, FALSE)[n] = Walk(x, TRUE)[n]}
<1>1. 0 \in same
  BY WalkIs
<1>2. ASSUME NEW w \in Walker PROVE Goes(w, FALSE).at = Missing \/ Goes(w, FALSE) = Goes(w, TRUE)
  <2>1. Dirs(TRUE) = Dirs(FALSE) \cup {<<"m">>} /\ Dirs(FALSE) = {<<>>, <<"d">>}
    BY DEF Dirs
  <2>2. Ends(Missing).at = Missing
    BY DEF Ends
  <2>3. Environment \notin Dirs(TRUE)
    BY DEF Dirs, Environment
  <2>4. CASE w.path = <<>>
    BY <2>4 DEF Goes
  <2>5. CASE w.path # <<>> /\ w.at = Environment
    BY <2>5 DEF Goes
  <2>6. CASE w.path # <<>> /\ w.at # Environment /\ w.at \notin Dirs(FALSE)
    BY <2>2, <2>6 DEF Goes
  <2>7. CASE w.path # <<>> /\ w.at # Environment /\ w.at \in Dirs(FALSE)
    <3> DEFINE seg == Head(w.path)
               next == Append(w.at, seg)
    <3>1. <<"m">> # <<"m", "e">>
      OBVIOUS
    <3>2. w.at \in Dirs(TRUE)
      BY <2>1, <2>7
    <3>3. CASE seg \in {"/", ".."}
      BY <2>7, <3>2, <3>3 DEF Goes
    <3>4. CASE seg \notin {"/", ".."} /\ next \in DOMAIN given
      BY <2>7, <3>2, <3>4 DEF Goes
    <3>5. CASE seg \notin {"/", ".."} /\ next \notin DOMAIN given /\ next = <<"m">> /\ next \notin Dirs(FALSE) \cup {File}
      <4>1. Goes(w, FALSE) = Ends(Missing)
        BY <2>7, <3>1, <3>5 DEF Goes
      <4> QED BY <2>2, <4>1
    <3>6. CASE seg \notin {"/", ".."} /\ next \notin DOMAIN given /\ (next # <<"m">> \/ next \in Dirs(FALSE) \cup {File})
      <4>1. next \in Dirs(TRUE) \cup {File} <=> next \in Dirs(FALSE) \cup {File}
        BY <2>1, <3>6
      <4> HIDE DEF next, seg
      <4> QED BY <2>7, <3>2, <3>6, <4>1 DEF Goes, next, seg
    <3> QED BY <3>3, <3>4, <3>5, <3>6
  <2> QED BY <2>4, <2>5, <2>6, <2>7
<1>3. ASSUME NEW w \in Walker, w.at = Missing PROVE Goes(w, FALSE) = w
  BY <1>3 DEF Goes, Walker
<1>4. ASSUME NEW n \in Nat, n \in same PROVE n + 1 \in same
  <2>1. PICK w \in Walker : w = Walk(x, FALSE)[n] /\ Walk(x, FALSE)[n + 1] = Goes(w, FALSE)
    BY WalkIs
  <2>2. PICK v \in Walker : v = Walk(x, TRUE)[n] /\ Walk(x, TRUE)[n + 1] = Goes(v, TRUE)
    BY WalkIs
  <2>3. w.at = Missing \/ w = v
    BY <1>4, <2>1, <2>2
  <2>4. Walk(x, FALSE)[n + 1].at = Missing \/ Walk(x, FALSE)[n + 1] = Walk(x, TRUE)[n + 1]
    BY <1>2, <1>3, <2>1, <2>2, <2>3
  <2>5. n + 1 \in Nat
    OBVIOUS
  <2> QED BY <2>4, <2>5, Zenon
<1>5. \A n \in Nat : n \in same
  <2> HIDE DEF same
  <2> QED BY <1>1, <1>4, CountsUp
<1> QED BY <1>5

IsFound(x) == LeadsTo(x, FALSE) \notin {Missing, OutsideCheckout}

\* A link that leads to a place of the checkout's never leaves it on its way.
LEMMA FoundIsInside ==
    ASSUME LinksGiven, NEW x \in {L, K}, IsFound(x)
    PROVE  \A n \in Nat : Walk(x, TRUE)[n].at # OutsideCheckout
<1>1. Longest \in Nat
  BY MaxTargetAssumption DEF Longest
<1>2. PICK end : end = Walk(x, FALSE)[Longest]
  OBVIOUS
<1>3. end.path = <<>> /\ end.at \notin {Missing, OutsideCheckout}
  BY <1>2 DEF IsFound, LeadsTo
<1>4. Walk(x, TRUE)[Longest] = end
  BY <1>1, <1>2, <1>3, FoundStays
<1>5. ASSUME NEW n \in Nat, Walk(x, TRUE)[n].at = OutsideCheckout PROVE FALSE
  <2>1. Walk(x, TRUE)[n].path = <<>>
    <3>1. Walk(x, TRUE)[n] \in Walker
      BY WalkIs
    <3> QED BY <1>5, <3>1 DEF Walker
  <2>2. CASE n <= Longest
    <3>1. Longest - n \in Nat /\ n + (Longest - n) = Longest
      BY <1>1, <2>2
    <3>2. Walk(x, TRUE)[n + (Longest - n)] = Walk(x, TRUE)[n]
      BY <2>1, <3>1, OverStays
    <3> QED BY <1>3, <1>4, <1>5, <3>1, <3>2
  <2>3. CASE ~(n <= Longest)
    <3>1. n - Longest \in Nat /\ Longest + (n - Longest) = n
      BY <1>1, <2>3
    <3>2. Walk(x, TRUE)[Longest + (n - Longest)] = Walk(x, TRUE)[Longest]
      BY <1>1, <1>3, <1>4, <3>1, OverStays
    <3> QED BY <1>3, <1>4, <1>5, <3>1, <3>2
  <2> QED BY <2>2, <2>3
<1> QED BY <1>5

\* The spellings of a target's beginnings, from its directory on.
IsSpelling(to, dir, t) ==
    /\ to[0] = dir
    /\ \A n \in Nat : n + 1 \in DOMAIN t => to[n + 1] = Spelt(to[n], t[n + 1])

LEMMA SpellingIs ==
    ASSUME LinksGiven, NEW x \in {L, K}
    PROVE  /\ IsSpelling(Spelling(x), Front(x), given[x])
           /\ \A n \in 0 .. Len(given[x]) : Spelling(x)[n] \in Seq(Segments) \cup {OutsideCheckout}
<1>1. PICK t \in Seq(Segments) : t = given[x]
  BY DEF LinksGiven
<1>2. PICK dir : dir = Front(x)
  OBVIOUS
<1>3. PICK len \in Nat : len = Len(t) /\ DOMAIN t = 1 .. len /\ \A n \in 1 .. len : t[n] \in Segments
  BY ElementOfSeq
<1> DEFINE Spellings == Seq(Segments) \cup {OutsideCheckout}
<1>4. dir \in Spellings
  <2>1. dir = <<>> \/ dir = <<"d">>
    BY <1>2, PlacesAre
  <2>2. "d" \in Segments
    BY DEF Segments, Segment
  <2>3. <<>> \in Spellings /\ <<"d">> \in Spellings
    BY <2>2
  <2> QED BY <2>1, <2>3
<1>5. ASSUME NEW at \in Spellings, NEW seg \in Segments PROVE Spelt(at, seg) \in Spellings
  <2>1. OutsideCheckout \in Spellings
    OBVIOUS
  <2>2. ASSUME at # OutsideCheckout PROVE Append(at, seg) \in Spellings
    BY <1>5, <2>2
  <2>3. ASSUME at # OutsideCheckout, at # <<>> PROVE Front(at) \in Spellings
    BY <1>5, <2>3 DEF Front
  <2> QED BY <2>1, <2>2, <2>3 DEF Spelt
<1> HIDE DEF Spellings
<1>6. PICK g \in [Spellings \X Nat -> Spellings] :
        \A at \in Spellings, n \in Nat : n + 1 \in 1 .. len => g[<<at, n>>] = Spelt(at, t[n + 1])
  <2> DEFINE h == [p \in Spellings \X Nat |-> IF p[2] + 1 \in 1 .. len THEN Spelt(p[1], t[p[2] + 1]) ELSE p[1]]
  <2>1. ASSUME NEW at \in Spellings, NEW n \in Nat, n + 1 \in 1 .. len PROVE Spelt(at, t[n + 1]) \in Spellings
    <3>1. t[n + 1] \in Segments
      BY <1>3, <2>1
    <3> QED BY <1>5, <3>1
  <2>2. \A p \in Spellings \X Nat : p[1] \in Spellings /\ p[2] \in Nat
    OBVIOUS
  <2>3. h \in [Spellings \X Nat -> Spellings]
    BY <2>1, <2>2
  <2>4. \A at \in Spellings, n \in Nat : n + 1 \in 1 .. len => h[<<at, n>>] = Spelt(at, t[n + 1])
    OBVIOUS
  <2> QED BY <2>3, <2>4
<1>7. PICK f : IsIteration(f, Spellings, dir, g)
  BY <1>4, Iterates
<1>8. f \in [Nat -> Spellings] /\ f[0] = dir /\ \A n \in Nat : n + 1 \in 1 .. len => f[n + 1] = Spelt(f[n], t[n + 1])
  BY <1>6, <1>7 DEF IsIteration
<1> DEFINE Is(h) == h = [n \in 0 .. len |-> IF n = 0 THEN dir ELSE Spelt(h[n - 1], t[n])]
<1>9. Is([n \in 0 .. len |-> f[n]])
  <2> DEFINE h == [n \in 0 .. len |-> f[n]]
  <2>1. ASSUME NEW n \in 0 .. len PROVE h[n] = IF n = 0 THEN dir ELSE Spelt(h[n - 1], t[n])
    <3>1. CASE n = 0
      BY <1>8, <3>1
    <3>2. CASE n # 0
      <4>1. PICK m \in Nat : m + 1 = n /\ n - 1 = m /\ m \in 0 .. len /\ n \in 1 .. len
        <5>1. n - 1 \in Nat /\ (n - 1) + 1 = n /\ n - 1 \in 0 .. len /\ n \in 1 .. len
          BY <3>2
        <5> QED BY <5>1
      <4>2. h[n] = f[n] /\ h[m] = f[m] /\ f[n] = Spelt(f[m], t[n])
        BY <1>8, <4>1
      <4> QED BY <3>2, <4>1, <4>2
    <3> QED BY <3>1, <3>2
  <2> QED BY <2>1
<1>10. PICK to : to = CHOOSE h : Is(h)
  OBVIOUS
<1>11. Is(to)
  BY <1>9, <1>10
<1>12. Spelling(x) = to
  BY <1>1, <1>2, <1>3, <1>10 DEF Spelling
<1>13. \A n \in 0 .. len : to[n] \in Spellings
  <2>1. \A n \in 0 .. len : to[n] = IF n = 0 THEN dir ELSE Spelt(to[n - 1], t[n])
    BY <1>11, Zenon
  <2> DEFINE in == {n \in Nat : n \in 0 .. len => to[n] \in Spellings}
  <2>2. 0 \in in
    BY <1>4, <2>1
  <2>3. ASSUME NEW n \in Nat, n \in in PROVE n + 1 \in in
    <3> SUFFICES ASSUME n + 1 \in 0 .. len PROVE to[n + 1] \in Spellings
      OBVIOUS
    <3>1. n + 1 # 0 /\ (n + 1) - 1 = n /\ n \in 0 .. len /\ n + 1 \in 1 .. len
      OBVIOUS
    <3>2. to[n] \in Spellings /\ t[n + 1] \in Segments
      BY <1>3, <2>3, <3>1
    <3>3. to[n + 1] = Spelt(to[n], t[n + 1])
      BY <2>1, <3>1
    <3> QED BY <1>5, <3>2, <3>3
  <2>4. \A n \in Nat : n \in in
    <3> HIDE DEF in
    <3> QED BY <2>2, <2>3, CountsUp
  <2>5. \A n \in 0 .. len : n \in Nat
    OBVIOUS
  <2> QED BY <2>4, <2>5
<1>14. IsSpelling(to, dir, t)
  <2>1. \A n \in 0 .. len : to[n] = IF n = 0 THEN dir ELSE Spelt(to[n - 1], t[n])
    BY <1>11, Zenon
  <2>2. to[0] = dir
    BY <2>1
  <2>3. ASSUME NEW n \in Nat, n + 1 \in DOMAIN t PROVE to[n + 1] = Spelt(to[n], t[n + 1])
    <3>1. n + 1 \in 0 .. len /\ n + 1 # 0 /\ (n + 1) - 1 = n
      BY <1>3, <2>3
    <3> QED BY <2>1, <3>1
  <2> QED BY <2>2, <2>3 DEF IsSpelling
<1> QED BY <1>1, <1>2, <1>3, <1>12, <1>13, <1>14 DEF Spellings

\* A spelling that has left stays out.
LEMMA OutStays ==
    ASSUME NEW t \in Seq(Segments), NEW dir, NEW to, IsSpelling(to, dir, t), NEW j \in 0 .. Len(t), to[j] = OutsideCheckout
    PROVE  to[Len(t)] = OutsideCheckout
<1>1. PICK len \in Nat : len = Len(t) /\ DOMAIN t = 1 .. len
  OBVIOUS
<1> DEFINE out == {m \in Nat : j + m \in 0 .. len => to[j + m] = OutsideCheckout}
<1>2. 0 \in out
  OBVIOUS
<1>3. ASSUME NEW m \in Nat, m \in out PROVE m + 1 \in out
  <2> SUFFICES ASSUME j + (m + 1) \in 0 .. len PROVE to[j + (m + 1)] = OutsideCheckout
    OBVIOUS
  <2>1. PICK i \in Nat : i = j + m /\ i + 1 = j + (m + 1) /\ i \in 0 .. len /\ i + 1 \in 1 .. len
    BY <1>1
  <2>2. to[i] = OutsideCheckout
    BY <1>3, <2>1
  <2>3. to[i + 1] = Spelt(to[i], t[i + 1])
    BY <1>1, <2>1 DEF IsSpelling
  <2>4. to[i + 1] = OutsideCheckout
    BY <2>2, <2>3 DEF Spelt
  <2> QED BY <2>1, <2>4
<1>4. \A m \in Nat : m \in out
  <2> HIDE DEF out
  <2> QED BY <1>2, <1>3, CountsUp
<1>5. PICK m \in Nat : j + m = len
  <2>1. len - j \in Nat /\ j + (len - j) = len
    BY <1>1
  <2> QED BY <2>1
<1>6. j + m \in 0 .. len
  BY <1>5
<1>7. to[j + m] = OutsideCheckout
  BY <1>4, <1>6
<1> QED BY <1>1, <1>5, <1>7

\* Names are added to a spelling as they stand.
LEMMA NamesAreAdded ==
    ASSUME NEW t \in Seq(Segments), NEW dir, NEW to, IsSpelling(to, dir, t), NEW j \in 0 .. Len(t),
           to[j] \in Seq(Name), \A i \in DOMAIN t : i > j => t[i] \in Name
    PROVE  SubSeq(t, j + 1, Len(t)) \in Seq(Name) /\ to[Len(t)] = to[j] \o SubSeq(t, j + 1, Len(t))
<1>1. PICK len \in Nat : len = Len(t) /\ DOMAIN t = 1 .. len /\ j \in 0 .. len
  OBVIOUS
<1>2. PICK base \in Seq(Name) : base = to[j]
  OBVIOUS
<1>3. ASSUME NEW n \in 0 .. len PROVE SubSeq(t, j + 1, n) \in Seq(Name)
  <2>1. j + 1 \in Int /\ n \in Int /\ \A i \in j + 1 .. n : t[i] \in Name
    BY <1>1
  <2> QED BY <2>1, SubSeqProperties
<1> DEFINE as == {m \in Nat : j + m \in 0 .. len => to[j + m] = base \o SubSeq(t, j + 1, j + m)}
<1>4. 0 \in as
  <2>1. SubSeq(t, j + 1, j + 0) = <<>>
    <3>1. j + 1 \in Int /\ j + 0 \in Int /\ j + 0 < j + 1
      BY <1>1
    <3> QED BY <3>1, SubSeqEmpty
  <2>2. base \o <<>> = base /\ j + 0 = j
    BY <1>1, ConcatEmptySeq
  <2> QED BY <1>2, <2>1, <2>2
<1>5. ASSUME NEW m \in Nat, m \in as PROVE m + 1 \in as
  <2>0. m + 1 \in Nat
    OBVIOUS
  <2> SUFFICES ASSUME j + (m + 1) \in 0 .. len PROVE to[j + (m + 1)] = base \o SubSeq(t, j + 1, j + (m + 1))
    BY <2>0, Zenon
  <2>1. PICK i \in Nat : /\ i = j + m /\ i + 1 = j + (m + 1) /\ i \in 0 .. len /\ i + 1 \in 1 .. len /\ i + 1 > j
                         /\ j + 1 \in 1 .. len /\ i + 1 \in j + 1 .. len /\ (i + 1) - 1 = i
    BY <1>1
  <2>2. PICK sub \in Seq(Name) : sub = SubSeq(t, j + 1, i)
    BY <1>3, <2>1
  <2>3. to[i] = base \o sub
    BY <1>5, <2>1, <2>2
  <2>4. PICK seg \in Name : seg = t[i + 1]
    BY <1>1, <2>1
  <2>5. to[i + 1] = Spelt(base \o sub, seg)
    BY <1>1, <2>1, <2>3, <2>4 DEF IsSpelling
  <2>6. base \o sub \in Seq(Name) /\ base \o sub # OutsideCheckout
    <3>1. base \o sub \in Seq(Name)
      BY ConcatProperties
    <3>2. "outside" \notin Name
      BY DEF Name, Segment
    <3>3. OutsideCheckout[1] = "outside" /\ Len(OutsideCheckout) = 1
      BY DEF OutsideCheckout
    <3>4. ASSUME base \o sub = OutsideCheckout PROVE FALSE
      <4>1. PICK p \in Seq(Name) : p = OutsideCheckout
        BY <3>1, <3>4
      <4>2. Len(p) = 1 /\ 1 \in 1 .. 1
        BY <3>3, <4>1
      <4>3. p[1] \in Name
        BY <4>2, ElementOfSeq
      <4> QED BY <3>2, <3>3, <4>1, <4>3
    <3> QED BY <3>1, <3>4
  <2>7. seg \notin {"..", "/"}
    BY DEF Name, Segment
  <2>8. to[i + 1] = Append(base \o sub, seg)
    BY <2>5, <2>6, <2>7 DEF Spelt
  <2>9. Append(base \o sub, seg) = base \o (sub \o <<seg>>)
    <3>1. <<seg>> \in Seq(Name)
      OBVIOUS
    <3>2. Append(base \o sub, seg) = (base \o sub) \o <<seg>>
      BY <2>6, AppendIsConcat
    <3> QED BY <3>1, <3>2, ConcatAssociative
  <2>10. SubSeq(t, j + 1, i + 1) = sub \o <<seg>>
    <3>1. SubSeq(t, j + 1, i + 1) = SubSeq(t, j + 1, (i + 1) - 1) \o <<t[i + 1]>>
      BY <1>1, <2>1, SubSeqRecursiveSecond
    <3> QED BY <2>1, <2>2, <2>4, <3>1
  <2> QED BY <2>1, <2>8, <2>9, <2>10
<1>6. \A m \in Nat : m \in as
  <2> HIDE DEF as
  <2> QED BY <1>4, <1>5, CountsUp
<1>7. PICK m \in Nat : j + m = len /\ j + m \in 0 .. len
  <2>1. len - j \in Nat /\ j + (len - j) = len
    BY <1>1
  <2> QED BY <2>1
<1>8. to[j + m] = base \o SubSeq(t, j + 1, j + m)
  BY <1>6, <1>7
<1> QED BY <1>1, <1>2, <1>3, <1>7, <1>8

\* A target that climbs past no name, and stays inside by its spelling, is names
\* below its directory, or for the link in d after a single climb out of it.
IsBelow(x) ==
    \/ given[x] \in Seq(Name) /\ Joined(x) = Front(x) \o given[x]
    \/ /\ x = K
       /\ \E names \in Seq(Name) : given[x] = <<"..">> \o names /\ Joined(x) = names

LEMMA SpeltInside ==
    ASSUME LinksGiven, NEW x \in {L, K}, ~climbsPastName(given[x]), Joined(x) # OutsideCheckout
    PROVE  IsBelow(x)
<1>1. PICK t \in Seq(Segments) : t = given[x] /\ t # <<>>
  BY DEF LinksGiven
<1>2. PICK len \in Nat : len = Len(t) /\ DOMAIN t = 1 .. len /\ 1 \in 1 .. len /\ \A n \in 1 .. len : t[n] \in Segments
  <2>1. Len(t) \in Nat \ {0} /\ DOMAIN t = 1 .. Len(t) /\ \A n \in 1 .. Len(t) : t[n] \in Segments
    BY <1>1, EmptySeq, LenProperties, ElementOfSeq
  <2>2. 1 \in 1 .. Len(t)
    BY <2>1
  <2>3. PICK len : len = Len(t)
    OBVIOUS
  <2> QED BY <2>1, <2>2, <2>3
<1>3. PICK dir \in {<<>>, <<"d">>} : dir = Front(x) /\ (x = L => dir = <<>>) /\ (x = K => dir = <<"d">>)
  BY PlacesAre
<1>4. PICK to : IsSpelling(to, dir, t) /\ to[len] # OutsideCheckout /\ to[len] = Joined(x)
  BY <1>1, <1>2, <1>3, SpellingIs DEF Joined
<1>5. to[0] = dir /\ \A n \in Nat : n + 1 \in 1 .. len => to[n + 1] = Spelt(to[n], t[n + 1])
  BY <1>2, <1>4 DEF IsSpelling
<1>6. \A n \in 0 .. len : to[n] # OutsideCheckout
  BY <1>2, <1>4, OutStays
<1>7. \A i, j \in 1 .. len : i < j /\ t[i] # ".." => t[j] # ".."
  BY <1>1, <1>2 DEF climbsPastName
<1>8. \A n \in 1 .. len : t[n] # "/"
  <2>1. ASSUME NEW n \in 1 .. len, t[n] = "/" PROVE FALSE
    <3>1. PICK m \in Nat : m + 1 = n /\ n \in 0 .. len
      <4>1. n - 1 \in Nat /\ (n - 1) + 1 = n /\ n \in 0 .. len
        OBVIOUS
      <4> QED BY <4>1
    <3>2. to[n] = Spelt(to[m], t[n])
      BY <1>5, <3>1
    <3>3. to[n] = OutsideCheckout
      BY <2>1, <3>2 DEF Spelt
    <3> QED BY <1>6, <3>1, <3>3
  <2> QED BY <2>1
<1>9. \A n \in 1 .. len : t[n] # ".." => t[n] \in Name
  BY <1>2, <1>8 DEF Name, Segments
<1>10. "d" \in Name
  BY DEF Name, Segment
<1>11. dir \in Seq(Name)
  <2>1. <<>> \in Seq(Name) /\ <<"d">> \in Seq(Name)
    BY <1>10
  <2> QED BY <2>1
<1>12. to[1] = Spelt(dir, t[1])
  <2>1. 0 \in Nat /\ 0 + 1 = 1
    OBVIOUS
  <2> QED BY <1>2, <1>5, <2>1
<1>13. CASE t[1] # ".."
  <2>1. \A i \in DOMAIN t : i > 0 => t[i] \in Name
    BY <1>2, <1>7, <1>9, <1>13
  <2>2. 0 \in 0 .. Len(t) /\ to[0] \in Seq(Name) /\ 0 + 1 = 1
    BY <1>2, <1>5, <1>11
  <2>3. SubSeq(t, 0 + 1, Len(t)) \in Seq(Name) /\ to[Len(t)] = to[0] \o SubSeq(t, 0 + 1, Len(t))
    BY <1>4, <2>1, <2>2, NamesAreAdded
  <2>4. SubSeq(t, 0 + 1, Len(t)) = t
    BY <2>2, SubSeqFull
  <2> QED BY <1>1, <1>2, <1>3, <1>4, <1>5, <2>3, <2>4 DEF IsBelow
<1>14. CASE t[1] = ".."
  <2>1. dir # <<>>
    BY <1>2, <1>6, <1>12, <1>14 DEF Spelt
  <2>2. dir = <<"d">> /\ x = K /\ dir # OutsideCheckout
    BY <1>3, <2>1 DEF OutsideCheckout
  <2>3. to[1] = <<>>
    BY <1>12, <1>14, <2>2, PlacesAre DEF Spelt
  <2>4. ASSUME 2 \in 1 .. len PROVE t[2] # ".."
    <3>1. to[2] = Spelt(to[1], t[2])
      <4>1. 1 \in Nat /\ 1 + 1 = 2
        OBVIOUS
      <4> QED BY <1>5, <2>4, <4>1
    <3>2. to[2] # OutsideCheckout
      BY <1>6, <2>4
    <3> QED BY <2>3, <3>1, <3>2 DEF Spelt
  <2>5. ASSUME NEW i \in 1 .. len, i > 1 PROVE t[i] \in Name
    <3>1. CASE i = 2
      BY <1>9, <2>4, <3>1
    <3>2. CASE i # 2
      <4>1. 2 \in 1 .. len /\ 2 < i
        BY <2>5, <3>2
      <4> QED BY <1>7, <1>9, <2>4, <4>1
    <3> QED BY <3>1, <3>2
  <2>6. 1 \in 0 .. Len(t) /\ to[1] \in Seq(Name) /\ 1 + 1 = 2
    BY <1>2, <2>3
  <2>7. SubSeq(t, 1 + 1, Len(t)) \in Seq(Name) /\ to[Len(t)] = to[1] \o SubSeq(t, 1 + 1, Len(t))
    BY <1>2, <1>4, <2>5, <2>6, NamesAreAdded
  <2>8. PICK names \in Seq(Name) : names = SubSeq(t, 2, Len(t)) /\ to[Len(t)] = names
    <3>1. <<>> \o SubSeq(t, 2, Len(t)) = SubSeq(t, 2, Len(t))
      BY <2>6, <2>7, ConcatEmptySeq
    <3> QED BY <2>3, <2>6, <2>7, <3>1
  <2>9. t = <<"..">> \o names
    <3>1. Tail(t) = names
      BY <1>1, <2>8, TailIsSubSeq
    <3> QED BY <1>1, <1>14, <3>1, PathIs
  <2> QED BY <1>1, <1>2, <1>4, <2>2, <2>8, <2>9 DEF IsBelow
<1> QED BY <1>13, <1>14

\* A walk with more path ahead of it goes the same way, and has that yet to go.
LEMMA GoesAlong ==
    ASSUME LinksGiven, NEW env \in BOOLEAN, NEW v \in Walker, NEW w \in Walker, NEW rest \in Seq(Segments),
           w.at = v.at, w.path = v.path \o rest, v.path # <<>>
    PROVE  \/ Goes(v, env).at \in {Missing, OutsideCheckout} /\ Goes(w, env) = Goes(v, env)
           \/ Goes(w, env).at = Goes(v, env).at /\ Goes(w, env).path = Goes(v, env).path \o rest
<1>1. v.path \in Seq(Segments) /\ w.path # <<>> /\ Head(w.path) = Head(v.path) /\ Tail(w.path) = Tail(v.path) \o rest
      /\ Tail(v.path) \in Seq(Segments)
  <2>1. PICK p \in Seq(Segments) : p = v.path /\ p # <<>>
    BY DEF Walker
  <2>2. p \o rest # <<>> /\ Head(p \o rest) = Head(p) /\ Tail(p \o rest) = Tail(p) \o rest
    BY <2>1, JoinedOn
  <2>3. Tail(p) \in Seq(Segments)
    BY <2>1, PathIs
  <2> QED BY <2>1, <2>2, <2>3
<1>2. \A p \in {Missing, OutsideCheckout} : Ends(p).at = p
  BY DEF Ends
<1>3. ASSUME NEW x \in DOMAIN given PROVE given[x] \o Tail(w.path) = (given[x] \o Tail(v.path)) \o rest
  <2>1. PICK t \in Seq(Segments) : t = given[x]
    BY <1>3 DEF LinksGiven
  <2>2. PICK p \in Seq(Segments) : p = Tail(v.path)
    BY <1>1
  <2>3. (t \o p) \o rest = t \o (p \o rest)
    BY ConcatAssociative
  <2> QED BY <1>1, <2>1, <2>2, <2>3
<1> DEFINE seg == Head(v.path)
           next == Append(v.at, seg)
<1>4. CASE \/ seg = "/"
           \/ seg # "/" /\ v.at = Environment /\ seg = ".."
           \/ seg # "/" /\ v.at # Environment /\ v.at \notin Dirs(env)
           \/ seg = ".." /\ v.at # Environment /\ v.at \in Dirs(env) /\ v.at = <<>>
           \/ /\ seg \notin {"/", ".."} /\ v.at # Environment /\ v.at \in Dirs(env)
              /\ next \notin DOMAIN given /\ next \notin Dirs(env) \cup {File} /\ next # <<"m", "e">>
  <2>1. Goes(v, env) \in {Ends(Missing), Ends(OutsideCheckout)} /\ Goes(w, env) = Goes(v, env)
    BY <1>1, <1>4 DEF Goes
  <2> QED BY <1>2, <2>1
<1>5. CASE seg \notin {"/", ".."} /\ v.at = Environment
  BY <1>1, <1>5 DEF Goes
<1>6. CASE seg = ".." /\ v.at # Environment /\ v.at \in Dirs(env) /\ v.at # <<>>
  BY <1>1, <1>6 DEF Goes
<1>7. CASE seg \notin {"/", ".."} /\ v.at # Environment /\ v.at \in Dirs(env) /\ next \in DOMAIN given
  <2>1. Goes(v, env) = [at |-> v.at, path |-> given[next] \o Tail(v.path)]
    BY <1>7 DEF Goes
  <2>2. Goes(w, env) = [at |-> v.at, path |-> given[next] \o Tail(w.path)]
    BY <1>1, <1>7 DEF Goes
  <2>3. given[next] \o Tail(w.path) = (given[next] \o Tail(v.path)) \o rest
    BY <1>3, <1>7
  <2>4. PICK here, gone, all : here = v.at /\ gone = given[next] \o Tail(v.path) /\ all = given[next] \o Tail(w.path)
    OBVIOUS
  <2>5. Goes(v, env) = [at |-> here, path |-> gone] /\ Goes(w, env) = [at |-> here, path |-> all] /\ all = gone \o rest
    BY <2>1, <2>2, <2>3, <2>4, Zenon
  <2> HIDE DEF next
  <2> QED BY <2>5
<1>8. CASE /\ seg \notin {"/", ".."} /\ v.at # Environment /\ v.at \in Dirs(env)
           /\ next \notin DOMAIN given /\ (next \in Dirs(env) \cup {File} \/ next = <<"m", "e">>)
  <2>1. PICK p : p = IF next \in Dirs(env) \cup {File} THEN next ELSE Environment
    OBVIOUS
  <2>2. Goes(v, env) = [at |-> p, path |-> Tail(v.path)]
    BY <1>8, <2>1 DEF Goes
  <2>3. Goes(w, env) = [at |-> p, path |-> Tail(w.path)]
    BY <1>1, <1>8, <2>1 DEF Goes
  <2>4. PICK gone, all : gone = Tail(v.path) /\ all = Tail(w.path) /\ all = gone \o rest
    BY <1>1, Zenon
  <2>5. Goes(v, env) = [at |-> p, path |-> gone] /\ Goes(w, env) = [at |-> p, path |-> all]
    BY <2>2, <2>3, <2>4, Zenon
  <2> QED BY <2>4, <2>5
<1> HIDE DEF seg, next
<1> QED BY <1>4, <1>5, <1>6, <1>7, <1>8

-----------------------------------------------------------------------------
(* Links: how realpathSync reads.                                           *)

LEMMA LastsAre == Last(L) = "l" /\ Last(K) = "k"
<1>1. Len(<<"l">>) = 1 /\ <<"l">>[1] = "l" /\ Len(<<"d", "k">>) = 2 /\ <<"d", "k">>[2] = "k"
  OBVIOUS
<1> QED BY <1>1, PlacesAre DEF Last

LEMMA ReadsTyped ==
    ASSUME LinksGiven, NEW w \in Walker
    PROVE  Reads(w) \in Walker
<1>1. w.at \in Place /\ w.path \in Seq(Segments)
  BY DEF Walker
<1>2. Goes(w, FALSE) \in Walker
  BY GoesTyped
<1>3. ASSUME NEW p \in Place PROVE Ends(p) \in Walker
  BY <1>3 DEF Walker, Ends
<1>4. {Missing, OutsideCheckout} \subseteq Place
  BY DEF Place
<1>5. ASSUME NEW x \in DOMAIN given, Joined(x) # OutsideCheckout, w.path # <<>>
      PROVE  [at |-> <<>>, path |-> Joined(x) \o Tail(w.path)] \in Walker
  <2>1. x \in {L, K}
    BY <1>5 DEF LinksGiven
  <2>2. PICK t \in Seq(Segments) : t = given[x]
    BY <2>1 DEF LinksGiven
  <2>3. Len(t) \in 0 .. Len(t)
    OBVIOUS
  <2>4. Joined(x) \in Seq(Segments)
    BY <1>5, <2>1, <2>2, <2>3, SpellingIs DEF Joined
  <2>5. Tail(w.path) \in Seq(Segments)
    BY <1>1, <1>5, PathIs
  <2>6. Joined(x) \o Tail(w.path) \in Seq(Segments)
    BY <2>4, <2>5, PathsJoin
  <2>7. <<>> \in Place \ {Missing, OutsideCheckout}
    BY DEF Place, Missing, OutsideCheckout
  <2> QED BY <2>6, <2>7 DEF Walker
<1> QED BY <1>2, <1>3, <1>4, <1>5 DEF Reads

LEMMA ReadingIs ==
    ASSUME LinksGiven, NEW x \in {L, K}
    PROVE  /\ Reading(x) \in [Nat -> Walker] /\ Reading(x)[0] = [at |-> Front(x), path |-> <<Last(x)>>]
           /\ \A n \in Nat : Reading(x)[n + 1] = Reads(Reading(x)[n])
<1>1. PICK first \in Walker : first = [at |-> Front(x), path |-> <<Last(x)>>]
  <2>1. Front(x) \in {<<>>, <<"d">>}
    BY PlacesAre
  <2>2. {<<>>, <<"d">>} \subseteq Place \ {Missing, OutsideCheckout}
    BY DEF Place, Missing, OutsideCheckout
  <2>3. Last(x) \in {"l", "k"}
    BY LastsAre
  <2>4. <<Last(x)>> \in Seq(Segments)
    BY <2>3 DEF Segments, Segment
  <2> QED BY <2>1, <2>2, <2>4 DEF Walker
<1>2. PICK g \in [Walker \X Nat -> Walker] : \A w \in Walker, n \in Nat : g[<<w, n>>] = Reads(w)
  <2>1. [p \in Walker \X Nat |-> Reads(p[1])] \in [Walker \X Nat -> Walker]
    BY ReadsTyped
  <2>2. \A w \in Walker, n \in Nat : [p \in Walker \X Nat |-> Reads(p[1])][<<w, n>>] = Reads(w)
    OBVIOUS
  <2> QED BY <2>1, <2>2
<1>3. PICK f \in [Nat -> Walker] : f[0] = first /\ \A n \in Nat : f[n + 1] = Reads(f[n])
  <2>1. PICK f : IsIteration(f, Walker, first, g)
    BY Iterates
  <2>2. f \in [Nat -> Walker] /\ f[0] = first /\ \A n \in Nat : f[n + 1] = g[<<f[n], n>>]
    BY <2>1 DEF IsIteration
  <2>3. \A n \in Nat : f[n + 1] = Reads(f[n])
    BY <1>2, <2>2
  <2> QED BY <2>2, <2>3
<1> DEFINE Is(h) == h = [n \in Nat |-> IF n = 0 THEN first ELSE Reads(h[n - 1])]
<1>4. Is(f)
  <2>1. ASSUME NEW n \in Nat PROVE f[n] = IF n = 0 THEN first ELSE Reads(f[n - 1])
    <3>1. CASE n = 0
      BY <1>3, <3>1
    <3>2. CASE n # 0
      <4>1. n - 1 \in Nat /\ (n - 1) + 1 = n
        BY <3>2
      <4>2. f[n] = Reads(f[n - 1])
        BY <1>3, <4>1
      <4> QED BY <3>2, <4>2
    <3> QED BY <3>1, <3>2
  <2> QED BY <1>3, <2>1
<1>5. PICK h : h = CHOOSE k : Is(k)
  OBVIOUS
<1>6. h = Reading(x)
  BY <1>1, <1>5 DEF Reading
<1>7. Is(h)
  BY <1>4, <1>5
<1>8. h[0] = first /\ \A n \in Nat : h[n + 1] = Reads(h[n])
  <2>1. \A n \in Nat : h[n] = IF n = 0 THEN first ELSE Reads(h[n - 1])
    BY <1>7, Zenon
  <2>2. \A n \in Nat : n + 1 \in Nat /\ n + 1 # 0 /\ (n + 1) - 1 = n
    OBVIOUS
  <2> QED BY <2>1, <2>2
<1>9. \A n \in Nat : h[n] \in Walker
  <2> DEFINE ok == {n \in Nat : h[n] \in Walker}
  <2>1. 0 \in ok
    BY <1>8
  <2>2. \A n \in Nat : n \in ok => n + 1 \in ok
    BY <1>8, ReadsTyped
  <2>3. \A n \in Nat : n \in ok
    <3> HIDE DEF ok
    <3> QED BY <2>1, <2>2, CountsUp
  <2> QED BY <2>3
<1>10. h \in [Nat -> Walker]
  <2>1. DOMAIN h = Nat /\ h = [n \in DOMAIN h |-> h[n]]
    BY <1>7
  <2> QED BY <1>9, <2>1
<1> QED BY <1>1, <1>6, <1>8, <1>10

\* A link that does not resolve is read as nothing, and one that leaves by its
\* spelling as outside.
LEMMA ReadsEnd ==
    ASSUME LinksGiven, NEW x \in {L, K}, NEW p \in {Missing, OutsideCheckout},
           Reads([at |-> Front(x), path |-> <<Last(x)>>]) = Ends(p)
    PROVE  realpathSync(x) = Ends(p)
<1>1. Longest \in Nat /\ Longest >= 1
  <2>1. MaxTarget \in Nat /\ MaxTarget >= 1
    BY MaxTargetAssumption
  <2>2. PICK m \in Nat : m = MaxTarget * MaxTarget
    BY <2>1
  <2>3. Longest = MaxTarget * MaxTarget + MaxTarget
    BY <2>1 DEF Longest
  <2> QED BY <2>1, <2>2, <2>3
<1> DEFINE over == {m \in Nat : Reading(x)[m + 1] = Ends(p)}
<1>2. 0 \in over
  <2>1. Reading(x)[0 + 1] = Reads(Reading(x)[0])
    BY ReadingIs
  <2> QED BY <2>1, ReadingIs
<1>3. ASSUME NEW m \in Nat, m \in over PROVE m + 1 \in over
  <2>1. PICK n \in Nat : n = m + 1
    OBVIOUS
  <2>2. Reading(x)[n + 1] = Reads(Reading(x)[n]) /\ Reading(x)[n] = Ends(p)
    BY <1>3, <2>1, ReadingIs
  <2>3. Ends(p).path = <<>>
    BY DEF Ends
  <2>4. Reads(Ends(p)) = Ends(p)
    BY <2>3 DEF Reads, Goes
  <2> QED BY <2>1, <2>2, <2>4
<1>4. \A m \in Nat : m \in over
  <2> HIDE DEF over
  <2> QED BY <1>2, <1>3, CountsUp
<1>5. PICK m \in Nat : m + 1 = Longest
  <2>1. Longest - 1 \in Nat /\ (Longest - 1) + 1 = Longest
    BY <1>1
  <2> QED BY <2>1
<1>6. Reading(x)[m + 1] = Ends(p)
  BY <1>4
<1> QED BY <1>5, <1>6 DEF realpathSync

\* A link that was passed stays inside by its spelling, and is read by that alone
\* only where it climbs past no name.
LEMMA PassedIs ==
    ASSUME LinksGiven, NEW x \in {L, K}, ~escapes(x)
    PROVE  Joined(x) # OutsideCheckout /\ (LeadsTo(x, FALSE) = Missing => IsBelow(x))
<1>1. PICK first : first = [at |-> Front(x), path |-> <<Last(x)>>]
  OBVIOUS
<1>2. first.at = Front(x) /\ first.path = <<Last(x)>>
  BY <1>1
<1>3. first.path # <<>> /\ Append(first.at, Head(first.path)) = x
  <2>1. PICK c : c = Last(x) /\ first.path = <<c>>
    BY <1>2
  <2>2. <<c>> # <<>> /\ Head(<<c>>) = c
    OBVIOUS
  <2>3. Append(first.at, c) = x
    BY <1>2, <2>1, LastsAre, PlacesAre
  <2> QED BY <2>1, <2>2, <2>3
<1>4. x \in DOMAIN given
  BY DEF LinksGiven
<1>5. \A p : Ends(p).at = p
  BY DEF Ends
<1>6. Missing # OutsideCheckout
  BY DEF Missing, OutsideCheckout
<1>7. CASE LeadsTo(x, FALSE) = Missing
  <2>1. Reads(first) = Ends(Missing)
    BY <1>3, <1>4, <1>7 DEF Reads
  <2>2. realpathSync(x) = Ends(Missing)
    BY <1>1, <2>1, ReadsEnd
  <2>3. ~climbsPastName(given[x]) /\ Joined(x) # OutsideCheckout
    BY <1>5, <2>2 DEF escapes
  <2> QED BY <2>3, SpeltInside
<1>8. CASE LeadsTo(x, FALSE) # Missing /\ Joined(x) = OutsideCheckout
  <2>1. Reads(first) = Ends(OutsideCheckout)
    BY <1>3, <1>4, <1>8 DEF Reads
  <2>2. realpathSync(x) = Ends(OutsideCheckout)
    BY <1>1, <2>1, ReadsEnd
  <2> QED BY <1>5, <1>6, <2>2 DEF escapes
<1> QED BY <1>7, <1>8
-----------------------------------------------------------------------------
(* Links: a walk along spellings that stay inside.                          *)

\* A link is met in the directory it is in.
LEMMA MetInItsPlace ==
    ASSUME NEW next \in {L, K}, NEW dir \in {<<>>, <<"d">>, <<"m">>}, NEW seg, next = Append(dir, seg)
    PROVE  Front(next) = dir
<1>1. next = Append(dir, seg)
  OBVIOUS
<1>2. CASE dir = <<>>
  <2>1. next = <<seg>>
    BY <1>1, <1>2, PlacesAre
  <2>2. next # K
    <3>1. Len(<<seg>>) = 1 /\ Len(<<"d", "k">>) = 2
      OBVIOUS
    <3> QED BY <2>1, <3>1, PlacesAre
  <2> QED BY <1>1, <1>2, <2>2, PlacesAre
<1>3. CASE \E c \in {"d", "m"} : dir = <<c>>
  <2>1. PICK c \in {"d", "m"} : dir = <<c>>
    BY <1>3
  <2>2. next = <<c, seg>>
    BY <1>1, <2>1, PlacesAre
  <2>3. next # L
    <3>1. Len(<<c, seg>>) = 2 /\ Len(<<"l">>) = 1
      OBVIOUS
    <3> QED BY <2>2, <3>1, PlacesAre
  <2>4. c = "d"
    BY <1>1, <2>2, <2>3, PlacesAre
  <2> QED BY <1>1, <2>1, <2>3, <2>4, PlacesAre
<1> QED BY <1>2, <1>3

\* What is left of a target after its first segments.
IsLeft(p, t, j) == Len(p) = Len(t) - j /\ \A i \in 1 .. Len(p) : p[i] = t[j + i]

\* Where a walk may be: among names alone, or where the spelling of a target says
\* that as much of it leads, with no link on the way there.
Along(x, j, p, rest, w) ==
    /\ p \in Seq(Segments) /\ rest \in Seq(Name) /\ w.path = p \o rest
    /\ j \in 0 .. Len(given[x]) /\ IsLeft(p, given[x], j) /\ w.at = Spelling(x)[j]
    /\ w.at \in Dirs(FALSE) \cup {File}

AsSpelt(w) ==
    \/ w.at # OutsideCheckout /\ w.path \in Seq(Name)
    \/ \E x \in {L, K}, j \in Nat, p \in Seq(Segments), rest \in Seq(Name) : Along(x, j, p, rest, w)

LEMMA AlongFromStart ==
    ASSUME LinksGiven, NEW x \in {L, K}, NEW rest \in Seq(Name)
    PROVE  AsSpelt([at |-> Front(x), path |-> given[x] \o rest])
<1>0. ASSUME NEW v, NEW p, NEW q, v = [at |-> p, path |-> q] PROVE v.at = p /\ v.path = q
  BY <1>0
<1>1. PICK w : w = [at |-> Front(x), path |-> given[x] \o rest] /\ w.at = Front(x) /\ w.path = given[x] \o rest
  <2>1. PICK w : w = [at |-> Front(x), path |-> given[x] \o rest]
    OBVIOUS
  <2> QED BY <1>0, <2>1
<1>2. PICK t \in Seq(Segments) : t = given[x]
  BY DEF LinksGiven
<1>3. IsLeft(t, t, 0) /\ 0 \in 0 .. Len(t)
  BY DEF IsLeft
<1>4. Spelling(x)[0] = Front(x)
  BY SpellingIs DEF IsSpelling
<1>5. Front(x) \in Dirs(FALSE) \cup {File}
  BY PlacesAre DEF Dirs
<1>6. Along(x, 0, t, rest, w)
  BY <1>1, <1>2, <1>3, <1>4, <1>5 DEF Along
<1>7. AsSpelt(w)
  BY <1>2, <1>6 DEF AsSpelt
<1> QED BY <1>1, <1>7

LEMMA AsSpeltStep ==
    ASSUME LinksGiven, \A y \in {L, K} : Joined(y) # OutsideCheckout /\ ~climbsPastLink(y), NEW w \in Walker, AsSpelt(w)
    PROVE  AsSpelt(Goes(w, FALSE))
<1>0. ASSUME NEW v, NEW p, NEW q, v = [at |-> p, path |-> q] PROVE v.at = p /\ v.path = q
  BY <1>0
<1>1. Dirs(FALSE) = {<<>>, <<"d">>}
  BY DEF Dirs
<1>2. /\ Missing # OutsideCheckout /\ Environment # OutsideCheckout /\ File # OutsideCheckout
      /\ <<>> # OutsideCheckout /\ <<"d">> # OutsideCheckout
      /\ Environment \notin Dirs(FALSE) \cup {File} /\ File \notin Dirs(FALSE)
  <2>1. Len(<<"d", "f">>) = 2 /\ Len(<<"environment">>) = 1 /\ Len(<<"d">>) = 1 /\ Len(<<"outside">>) = 1 /\ Len(<<>>) = 0
    OBVIOUS
  <2>2. File # Environment /\ File # <<"d">> /\ File # OutsideCheckout /\ File # <<>>
    BY <2>1 DEF File, Environment, OutsideCheckout
  <2> QED BY <1>1, <2>2 DEF Missing, Environment, OutsideCheckout
<1>3. \A p, q : p # OutsideCheckout /\ q \in Seq(Name) => AsSpelt([at |-> p, path |-> q])
  BY DEF AsSpelt
<1>4. AsSpelt(Ends(Missing))
  <2>1. <<>> \in Seq(Name)
    OBVIOUS
  <2> QED BY <1>2, <1>3, <2>1 DEF Ends
<1>5. CASE w.path = <<>>
  BY <1>5 DEF Goes
<1>6. CASE w.path # <<>> /\ w.at # OutsideCheckout /\ w.path \in Seq(Name)
  <2>1. PICK seg \in Name, rest \in Seq(Name) : seg = Head(w.path) /\ rest = Tail(w.path)
    BY <1>6, PathIs
  <2>2. seg \notin {"..", "/"}
    BY DEF Name, Segment
  <2>3. PICK next : next = Append(w.at, seg)
    OBVIOUS
  <2>4. CASE w.at = Environment
    <3>1. Goes(w, FALSE) = [at |-> Environment, path |-> rest]
      BY <1>6, <2>1, <2>2, <2>4 DEF Goes
    <3> QED BY <1>2, <1>3, <3>1
  <2>5. CASE w.at # Environment /\ w.at \notin Dirs(FALSE)
    <3>1. Goes(w, FALSE) = Ends(Missing)
      BY <1>6, <2>1, <2>2, <2>5 DEF Goes
    <3> QED BY <1>4, <3>1
  <2>6. CASE w.at \in Dirs(FALSE) /\ next \in DOMAIN given
    <3>1. Goes(w, FALSE) = [at |-> w.at, path |-> given[next] \o rest]
      BY <1>2, <1>6, <2>1, <2>2, <2>3, <2>6 DEF Goes
    <3>2. next \in {L, K}
      BY <2>6 DEF LinksGiven
    <3>3. Front(next) = w.at
      <4>1. PICK dir \in {<<>>, <<"d">>, <<"m">>} : dir = w.at
        BY <1>1, <2>6
      <4>2. next = Append(dir, seg)
        BY <2>3, <4>1
      <4> QED BY <3>2, <4>1, <4>2, MetInItsPlace
    <3>4. AsSpelt([at |-> Front(next), path |-> given[next] \o rest])
      BY <3>2, AlongFromStart
    <3> QED BY <3>1, <3>3, <3>4
  <2>7. CASE w.at \in Dirs(FALSE) /\ next \notin DOMAIN given /\ next \in Dirs(FALSE) \cup {File}
    <3>1. Goes(w, FALSE) = [at |-> next, path |-> rest]
      BY <1>2, <1>6, <2>1, <2>2, <2>3, <2>7 DEF Goes
    <3> QED BY <1>1, <1>2, <1>3, <2>7, <3>1
  <2>8. CASE w.at \in Dirs(FALSE) /\ next \notin DOMAIN given /\ next \notin Dirs(FALSE) \cup {File}
    <3>1. Goes(w, FALSE) \in {[at |-> Environment, path |-> rest], Ends(Missing)}
      BY <1>2, <1>6, <2>1, <2>2, <2>3, <2>8 DEF Goes
    <3> QED BY <1>2, <1>3, <1>4, <3>1
  <2> QED BY <2>4, <2>5, <2>6, <2>7, <2>8
<1>7. CASE /\ w.path # <<>> /\ w.path \notin Seq(Name)
           /\ \E x \in {L, K}, j \in Nat, p \in Seq(Segments), rest \in Seq(Name) : Along(x, j, p, rest, w)
  <2>1. PICK x \in {L, K}, j \in Nat, p \in Seq(Segments), rest \in Seq(Name) : Along(x, j, p, rest, w)
    BY <1>7
  <2>2. PICK t \in Seq(Segments) : t = given[x]
    BY DEF LinksGiven
  <2>3. PICK to : to = Spelling(x)
    OBVIOUS
  <2>4. /\ w.path = p \o rest /\ j \in 0 .. Len(t) /\ IsLeft(p, t, j) /\ w.at = to[j]
        /\ w.at \in Dirs(FALSE) \cup {File}
    BY <2>1, <2>2, <2>3 DEF Along
  <2>5. p # <<>>
    <3>1. <<>> \o rest = rest
      BY PathsJoin
    <3> QED BY <1>7, <2>4, <3>1
  <2>6. rest \in Seq(Segments)
    <3>1. Name \subseteq Segments
      BY DEF Name, Segments
    <3> QED BY <3>1, SeqMonotonic
  <2>7. PICK seg \in Segments, left \in Seq(Segments) :
           /\ seg = Head(p) /\ left = Tail(p) /\ seg = p[1] /\ Head(w.path) = seg /\ Tail(w.path) = left \o rest
    <3>1. Head(p) \in Segments /\ Tail(p) \in Seq(Segments) /\ Head(p) = p[1]
      BY <2>5, PathIs
    <3>2. Head(p \o rest) = Head(p) /\ Tail(p \o rest) = Tail(p) \o rest
      BY <2>5, <2>6, PathsJoin
    <3> QED BY <2>4, <3>1, <3>2
  <2>8. Len(p) \in Nat \ {0} /\ Len(p) = Len(t) - j /\ Len(t) \in Nat /\ \A i \in 1 .. Len(p) : p[i] = t[j + i]
    BY <2>4, <2>5, EmptySeq DEF IsLeft
  <2>9. seg = t[j + 1] /\ j + 1 \in 1 .. Len(t) /\ j + 1 \in 0 .. Len(t) /\ j + 1 \in Nat /\ j + 1 \in DOMAIN t
    BY <2>7, <2>8
  <2>10. IsLeft(left, t, j + 1)
    <3>1. Len(left) = Len(p) - 1 /\ \A i \in 1 .. Len(left) : left[i] = p[i + 1]
      BY <2>5, <2>7, HeadTailProperties
    <3>2. ASSUME NEW i \in 1 .. Len(left) PROVE left[i] = t[(j + 1) + i]
      <4>1. i + 1 \in 1 .. Len(p) /\ j + (i + 1) = (j + 1) + i
        BY <2>8, <3>1
      <4> QED BY <2>8, <3>1, <4>1
    <3>3. Len(left) = Len(t) - (j + 1)
      BY <2>8, <3>1
    <3> QED BY <3>2, <3>3 DEF IsLeft
  <2>11. IsSpelling(to, Front(x), t) /\ Joined(x) = to[Len(t)]
    BY <2>2, <2>3, SpellingIs DEF Joined
  <2>12. \A i \in 0 .. Len(t) : to[i] # OutsideCheckout
    BY <2>11, OutStays
  <2>13. to[j + 1] = Spelt(w.at, seg)
    BY <2>4, <2>9, <2>11 DEF IsSpelling
  <2>14. Spelt(w.at, seg) # OutsideCheckout
    BY <2>9, <2>12, <2>13
  <2>15. seg # "/" /\ w.at # OutsideCheckout /\ ~(seg = ".." /\ w.at = <<>>) /\ w.at # Environment
    BY <1>1, <1>2, <2>4, <2>14 DEF Spelt
  <2>16. ASSUME NEW q, q \in Dirs(FALSE) \cup {File}, q = to[j + 1], Goes(w, FALSE) = [at |-> q, path |-> left \o rest]
         PROVE  AsSpelt(Goes(w, FALSE))
    <3>1. PICK v : v = Goes(w, FALSE) /\ v.at = q /\ v.path = left \o rest
      BY <1>0, <2>16
    <3>2. Along(x, j + 1, left, rest, v)
      BY <2>2, <2>3, <2>9, <2>10, <2>16, <3>1 DEF Along
    <3> QED BY <2>9, <3>1, <3>2 DEF AsSpelt
  <2>17. CASE w.at = File
    <3>1. Goes(w, FALSE) = Ends(Missing)
      BY <1>2, <1>7, <2>7, <2>15, <2>17 DEF Goes
    <3> QED BY <1>4, <3>1
  <2>18. CASE w.at \in Dirs(FALSE) /\ seg = ".."
    <3>1. w.at = <<"d">> /\ Front(w.at) = <<>>
      BY <1>1, <2>15, <2>18, PlacesAre
    <3>2. Goes(w, FALSE) = [at |-> <<>>, path |-> left \o rest]
      BY <1>7, <2>7, <2>15, <2>18, <3>1 DEF Goes
    <3>3. to[j + 1] = <<>>
      BY <2>13, <2>15, <2>18, <3>1 DEF Spelt
    <3> QED BY <1>1, <2>16, <3>2, <3>3
  <2>19. CASE w.at \in Dirs(FALSE) /\ seg # ".."
    <3>1. PICK next : next = Append(w.at, seg) /\ to[j + 1] = next
      BY <2>13, <2>15, <2>19 DEF Spelt
    <3>2. CASE next \in DOMAIN given
      <4>1. PICK tail \in Seq(Name) : tail = left \o rest
        <5>1. \A i \in 1 .. Len(left) : left[i] \in Name
          <6> SUFFICES ASSUME NEW i \in 1 .. Len(left) PROVE left[i] \in Name
            OBVIOUS
          <6>1. PICK n \in Nat : n = (j + 1) + i /\ left[i] = t[n] /\ n \in 1 .. Len(t) /\ j + 1 < n
            <7>1. Len(left) = Len(t) - (j + 1) /\ left[i] = t[(j + 1) + i]
              BY <2>10 DEF IsLeft
            <7>2. (j + 1) + i \in Nat /\ (j + 1) + i \in 1 .. Len(t) /\ j + 1 < (j + 1) + i
              BY <2>8, <2>9, <7>1
            <7> QED BY <7>1, <7>2
          <6>2. t[n] # ".."
            <7>1. j + 1 \in DOMAIN t /\ n \in DOMAIN t
              BY <2>9, <6>1
            <7>2. Spelling(x)[j + 1] \in DOMAIN given
              BY <2>3, <3>1, <3>2
            <7>3. ~climbsPastLink(x)
              OBVIOUS
            <7> QED BY <2>2, <6>1, <7>1, <7>2, <7>3 DEF climbsPastLink
          <6>3. t[n] # "/"
            <7>1. PICK m \in Nat : m + 1 = n /\ n \in 0 .. Len(t) /\ n \in DOMAIN t
              <8>1. n - 1 \in Nat /\ (n - 1) + 1 = n /\ n \in 0 .. Len(t) /\ n \in DOMAIN t
                BY <6>1
              <8> QED BY <8>1
            <7>2. to[n] = Spelt(to[m], t[n])
              BY <2>11, <7>1 DEF IsSpelling
            <7> QED BY <2>12, <7>1, <7>2 DEF Spelt
          <6>4. t[n] \in Segments
            BY <6>1, ElementOfSeq
          <6> QED BY <6>1, <6>2, <6>3, <6>4 DEF Name, Segments
        <5>2. left \in Seq(Name)
          BY <5>1
        <5> QED BY <5>2, ConcatProperties
      <4>2. Goes(w, FALSE) = [at |-> w.at, path |-> given[next] \o tail]
        BY <1>7, <2>7, <2>15, <2>19, <3>1, <3>2, <4>1 DEF Goes
      <4>3. next \in {L, K} /\ Front(next) = w.at
        <5>1. PICK dir \in {<<>>, <<"d">>, <<"m">>} : dir = w.at
          BY <1>1, <2>19
        <5>2. next \in {L, K} /\ next = Append(dir, seg)
          BY <3>1, <3>2, <5>1 DEF LinksGiven
        <5> QED BY <5>1, <5>2, MetInItsPlace
      <4>4. AsSpelt([at |-> Front(next), path |-> given[next] \o tail])
        BY <4>3, AlongFromStart
      <4> QED BY <4>2, <4>3, <4>4
    <3>3. CASE next \notin DOMAIN given /\ next \in Dirs(FALSE) \cup {File}
      <4>1. Goes(w, FALSE) = [at |-> next, path |-> left \o rest]
        BY <1>7, <2>7, <2>15, <2>19, <3>1, <3>3 DEF Goes
      <4> QED BY <2>16, <3>1, <3>3, <4>1
    <3>4. CASE next \notin DOMAIN given /\ next \notin Dirs(FALSE) \cup {File}
      <4>1. next # <<"m", "e">>
        <5>1. <<seg>> # <<"m", "e">>
          <6>1. Len(<<seg>>) = 1 /\ Len(<<"m", "e">>) = 2
            OBVIOUS
          <6> QED BY <6>1
        <5>2. <<"d", seg>> # <<"m", "e">>
          <6>1. <<"d", seg>>[1] = "d" /\ <<"m", "e">>[1] = "m"
            OBVIOUS
          <6> QED BY <6>1
        <5>3. w.at = <<>> \/ w.at = <<"d">>
          BY <1>1, <2>19
        <5>4. next = <<seg>> \/ next = <<"d", seg>>
          BY <3>1, <5>3, PlacesAre
        <5> QED BY <5>1, <5>2, <5>4
      <4>2. Goes(w, FALSE) = Ends(Missing)
        BY <1>7, <2>7, <2>15, <2>19, <3>1, <3>4, <4>1 DEF Goes
      <4> QED BY <1>4, <4>2
    <3> QED BY <3>2, <3>3, <3>4
  <2>20. w.at = File \/ (w.at \in Dirs(FALSE) /\ (seg = ".." \/ seg # ".."))
    BY <2>4
  <2> QED BY <2>17, <2>18, <2>19, <2>20
<1> DEFINE onItsWay == \E x \in {L, K}, j \in Nat, p \in Seq(Segments), rest \in Seq(Name) : Along(x, j, p, rest, w)
<1>8. w.at # OutsideCheckout /\ (w.path \in Seq(Name) \/ onItsWay)
  <2>1. onItsWay => w.at \in Dirs(FALSE) \cup {File}
    BY DEF Along
  <2>2. (w.at # OutsideCheckout /\ w.path \in Seq(Name)) \/ onItsWay
    BY DEF AsSpelt
  <2> HIDE DEF onItsWay
  <2> QED BY <1>1, <1>2, <2>1, <2>2
<1>9. \/ w.path # <<>> /\ w.at # OutsideCheckout /\ w.path \in Seq(Name)
      \/ w.path # <<>> /\ w.path \notin Seq(Name) /\ onItsWay
      \/ w.path = <<>>
  <2> HIDE DEF onItsWay
  <2> QED BY <1>8
<1> QED BY <1>5, <1>6, <1>7, <1>9, Zenon

\* Where no target leaves by its spelling, and none climbs past a link, no link
\* leads outside.
LEMMA SpeltStays ==
    ASSUME LinksGiven, \A y \in {L, K} : Joined(y) # OutsideCheckout /\ ~climbsPastLink(y), NEW x \in {L, K}
    PROVE  LeadsTo(x, FALSE) # OutsideCheckout
<1> DEFINE in == {n \in Nat : AsSpelt(Walk(x, FALSE)[n])}
<1>1. 0 \in in
  <2>1. <<>> \in Seq(Name) /\ given[x] \o <<>> = given[x]
    <3>1. PICK t \in Seq(Segments) : t = given[x]
      BY DEF LinksGiven
    <3> QED BY <3>1
  <2>2. AsSpelt([at |-> Front(x), path |-> given[x] \o <<>>])
    BY <2>1, AlongFromStart
  <2>3. AsSpelt(Outset(x))
    BY <2>1, <2>2 DEF Outset
  <2> QED BY <2>3, WalkIs
<1>2. ASSUME NEW n \in Nat, n \in in PROVE n + 1 \in in
  <2>1. PICK w \in Walker : w = Walk(x, FALSE)[n] /\ Walk(x, FALSE)[n + 1] = Goes(w, FALSE)
    BY WalkIs
  <2>2. AsSpelt(Goes(w, FALSE))
    BY <1>2, <2>1, AsSpeltStep
  <2>3. n + 1 \in Nat
    OBVIOUS
  <2> QED BY <2>1, <2>2, <2>3, Zenon
<1>3. \A n \in Nat : n \in in
  <2> HIDE DEF in
  <2> QED BY <1>1, <1>2, CountsUp
<1>4. Longest \in Nat
  BY MaxTargetAssumption DEF Longest
<1>5. PICK end : end = Walk(x, FALSE)[Longest] /\ AsSpelt(end)
  BY <1>3, <1>4
<1>6. /\ \A p \in Dirs(FALSE) \cup {File} : p # OutsideCheckout
      /\ Missing # OutsideCheckout
  <2>1. Len(<<"d", "f">>) = 2 /\ Len(<<"outside">>) = 1 /\ Len(<<>>) = 0
    OBVIOUS
  <2> QED BY <2>1 DEF Dirs, File, Missing, OutsideCheckout
<1>7. end.at # OutsideCheckout
  BY <1>5, <1>6 DEF AsSpelt, Along
<1> QED BY <1>5, <1>6, <1>7 DEF LeadsTo
-----------------------------------------------------------------------------
(* What the gate has passed does not leave.                                 *)

\* Where a walk may be, once every link was passed: it has names alone ahead of
\* it, or a climb out of d before them, or is on its way along a link that was
\* found inside, with names after it.
Stays(w) ==
    /\ w.at # OutsideCheckout
    /\ \/ w.path \in Seq(Name)
       \/ w.at = <<"d">> /\ \E names \in Seq(Name) : w.path = <<"..">> \o names
       \/ \E x \in {L, K}, n \in Nat, rest \in Seq(Name) :
             /\ IsFound(x) /\ w.at = Walk(x, TRUE)[n].at
             /\ w.path = Walk(x, TRUE)[n].path \o rest

\* A walk that meets a link, with names ahead of it.
LEMMA LinkStays ==
    ASSUME LinksGiven, NEW x \in {L, K}, IsFound(x) \/ IsBelow(x), NEW rest \in Seq(Name)
    PROVE  Stays([at |-> Front(x), path |-> given[x] \o rest])
<1>1. Front(x) \in {<<>>, <<"d">>} /\ Front(x) # OutsideCheckout
  <2>1. Front(x) \in {<<>>, <<"d">>}
    BY PlacesAre
  <2>2. <<>> # OutsideCheckout /\ <<"d">> # OutsideCheckout
    BY DEF OutsideCheckout
  <2> QED BY <2>1, <2>2
<1>2. CASE IsFound(x)
  <2>1. Walk(x, TRUE)[0] = Outset(x)
    BY WalkIs
  <2>2. Walk(x, TRUE)[0].at = Front(x) /\ Walk(x, TRUE)[0].path = given[x] /\ 0 \in Nat
    <3>1. Outset(x).at = Front(x) /\ Outset(x).path = given[x]
      BY Zenon DEF Outset
    <3>2. 0 \in Nat
      OBVIOUS
    <3> QED BY <2>1, <3>1, <3>2, Zenon
  <2> DEFINE w == [at |-> Front(x), path |-> given[x] \o rest]
  <2>3. w.at = Front(x) /\ w.path = given[x] \o rest
    OBVIOUS
  <2> HIDE DEF w
  <2>4. \E y \in {L, K}, n \in Nat, r \in Seq(Name) :
           IsFound(y) /\ w.at = Walk(y, TRUE)[n].at /\ w.path = Walk(y, TRUE)[n].path \o r
    BY <1>2, <2>2, <2>3, Zenon
  <2>5. Stays(w)
    BY <1>1, <2>3, <2>4 DEF Stays
  <2> QED BY <2>5 DEF w
<1>3. CASE given[x] \in Seq(Name)
  <2>1. given[x] \o rest \in Seq(Name)
    BY <1>3, ConcatProperties
  <2> QED BY <1>1, <2>1 DEF Stays
<1>4. CASE x = K /\ \E names \in Seq(Name) : given[x] = <<"..">> \o names
  <2>1. PICK names \in Seq(Name) : given[x] = <<"..">> \o names
    BY <1>4
  <2>2. names \o rest \in Seq(Name) /\ given[x] \o rest = <<"..">> \o (names \o rest)
    <3>1. Name \subseteq Segments /\ ".." \in Segments
      BY DEF Name, Segments, Segment
    <3>2. <<"..">> \in Seq(Segments) /\ names \in Seq(Segments) /\ rest \in Seq(Segments)
      BY <3>1, SeqMonotonic
    <3>3. names \o rest \in Seq(Name)
      BY ConcatProperties
    <3> QED BY <2>1, <3>2, <3>3, ConcatAssociative
  <2>3. Front(x) = <<"d">>
    BY <1>4, PlacesAre
  <2> QED BY <1>1, <2>2, <2>3 DEF Stays
<1> QED BY <1>2, <1>3, <1>4 DEF IsBelow

\* The next place of a walk that has a name ahead of it.
LEMMA StaysStep ==
    ASSUME LinksGiven, \A x \in {L, K} : IsFound(x) \/ IsBelow(x), NEW w \in Walker, Stays(w)
    PROVE  Stays(Goes(w, TRUE))
<1>1. <<>> \in Seq(Name) /\ Missing # OutsideCheckout /\ Environment # OutsideCheckout
  BY DEF Missing, OutsideCheckout, Environment
<1>2. Stays(Ends(Missing))
  <2>1. Ends(Missing).at = Missing /\ Ends(Missing).path = <<>>
    BY DEF Ends
  <2> QED BY <1>1, <2>1 DEF Stays
<1>3. \A p, rest : p # OutsideCheckout /\ rest \in Seq(Name) => Stays([at |-> p, path |-> rest])
  BY DEF Stays
<1>4. \A p \in Dirs(TRUE) \cup {File} : p # OutsideCheckout
  BY DEF Dirs, File, OutsideCheckout
<1>5. Dirs(TRUE) = {<<>>, <<"d">>, <<"m">>} /\ Environment \notin Dirs(TRUE)
  BY DEF Dirs, Environment
<1>6. CASE w.path \in Seq(Name)
  <2>1. CASE w.path = <<>>
    BY <2>1 DEF Goes
  <2>2. CASE w.path # <<>>
    <3>1. PICK seg \in Name, rest \in Seq(Name) : seg = Head(w.path) /\ rest = Tail(w.path)
      BY <1>6, <2>2, PathIs
    <3>2. seg \notin {"..", "/"}
      BY DEF Name, Segment
    <3>3. PICK next : next = Append(w.at, seg)
      OBVIOUS
    <3>4. CASE w.at = Environment
      <4>1. Goes(w, TRUE) = [at |-> Environment, path |-> rest]
        BY <2>2, <3>1, <3>2, <3>4 DEF Goes
      <4> QED BY <1>1, <1>3, <4>1
    <3>5. CASE w.at # Environment /\ w.at \notin Dirs(TRUE)
      <4>1. Goes(w, TRUE) = Ends(Missing)
        BY <2>2, <3>1, <3>2, <3>5 DEF Goes
      <4> QED BY <1>2, <4>1
    <3>6. CASE w.at \in Dirs(TRUE) /\ next \in DOMAIN given
      <4>1. Goes(w, TRUE) = [at |-> w.at, path |-> given[next] \o rest]
        BY <1>5, <2>2, <3>1, <3>2, <3>3, <3>6 DEF Goes
      <4>2. next \in {L, K}
        BY <3>6 DEF LinksGiven
      <4>3. Front(next) = w.at
        <5>1. w.at = <<>> \/ \E dir \in {"d", "m"} : w.at = <<dir>>
          BY <1>5, <3>6
        <5>2. CASE w.at = <<>>
          <6>1. next = <<seg>>
            BY <3>3, <5>2
          <6>2. next # K
            <7>1. Len(<<seg>>) = 1 /\ Len(<<"d", "k">>) = 2
              OBVIOUS
            <7> QED BY <6>1, <7>1, PlacesAre
          <6> QED BY <4>2, <5>2, <6>2, PlacesAre
        <5>3. CASE \E dir \in {"d", "m"} : w.at = <<dir>>
          <6>1. PICK dir \in {"d", "m"} : w.at = <<dir>>
            BY <5>3
          <6>2. next = <<dir, seg>>
            BY <3>3, <6>1, PlacesAre
          <6>3. next # L
            <7>1. Len(<<dir, seg>>) = 2 /\ Len(<<"l">>) = 1
              OBVIOUS
            <7> QED BY <6>2, <7>1, PlacesAre
          <6>4. dir = "d"
            BY <4>2, <6>2, <6>3, PlacesAre
          <6> QED BY <4>2, <6>1, <6>3, <6>4, PlacesAre
        <5> QED BY <5>1, <5>2, <5>3
      <4>4. Stays([at |-> Front(next), path |-> given[next] \o rest])
        BY <4>2, LinkStays
      <4> QED BY <4>1, <4>3, <4>4
    <3>7. CASE w.at \in Dirs(TRUE) /\ next \notin DOMAIN given /\ next \in Dirs(TRUE) \cup {File}
      <4>1. Goes(w, TRUE) = [at |-> next, path |-> rest]
        BY <1>5, <2>2, <3>1, <3>2, <3>3, <3>7 DEF Goes
      <4> QED BY <1>3, <1>4, <3>7, <4>1
    <3>8. CASE w.at \in Dirs(TRUE) /\ next \notin DOMAIN given /\ next \notin Dirs(TRUE) \cup {File}
      <4>1. Goes(w, TRUE) \in {[at |-> Environment, path |-> rest], Ends(Missing)}
        BY <1>5, <2>2, <3>1, <3>2, <3>3, <3>8 DEF Goes
      <4> QED BY <1>1, <1>2, <1>3, <4>1
    <3> QED BY <3>4, <3>5, <3>6, <3>7, <3>8
  <2> QED BY <2>1, <2>2
<1>7. CASE w.at = <<"d">> /\ \E names \in Seq(Name) : w.path = <<"..">> \o names
  <2>1. PICK names \in Seq(Name) : w.path = <<"..">> \o names
    BY <1>7
  <2>2. w.path # <<>> /\ Head(w.path) = ".." /\ Tail(w.path) = names
    BY <2>1
  <2>3. <<"d">> # Environment /\ <<"d">> \in Dirs(TRUE) /\ <<"d">> # <<>> /\ Front(<<"d">>) = <<>>
    BY <1>5, PlacesAre
  <2>4. Goes(w, TRUE) = [at |-> <<>>, path |-> names]
    BY <1>7, <2>2, <2>3 DEF Goes
  <2>5. <<>> # OutsideCheckout
    BY DEF OutsideCheckout
  <2> QED BY <1>3, <2>4, <2>5
<1>8. CASE /\ w.path \notin Seq(Name)
           /\ \E x \in {L, K}, n \in Nat, rest \in Seq(Name) :
                 IsFound(x) /\ w.at = Walk(x, TRUE)[n].at /\ w.path = Walk(x, TRUE)[n].path \o rest
  <2>1. PICK x \in {L, K}, n \in Nat, names \in Seq(Name) :
           IsFound(x) /\ w.at = Walk(x, TRUE)[n].at /\ w.path = Walk(x, TRUE)[n].path \o names
    BY <1>8
  <2>2. PICK v \in Walker : v = Walk(x, TRUE)[n] /\ Walk(x, TRUE)[n + 1] = Goes(v, TRUE)
    BY <2>1, WalkIs
  <2>3. v.path # <<>>
    <3>1. <<>> \o names = names
      BY <2>1, PathsJoin
    <3> QED BY <1>8, <2>1, <2>2, <3>1
  <2>4. names \in Seq(Segments)
    <3>1. Name \subseteq Segments
      BY DEF Name, Segments
    <3> QED BY <3>1, SeqMonotonic
  <2>5. Goes(v, TRUE).at # OutsideCheckout
    <3>1. n + 1 \in Nat
      OBVIOUS
    <3> QED BY <2>1, <2>2, <3>1, FoundIsInside
  <2>6. \/ Goes(v, TRUE).at \in {Missing, OutsideCheckout} /\ Goes(w, TRUE) = Goes(v, TRUE)
        \/ Goes(w, TRUE).at = Goes(v, TRUE).at /\ Goes(w, TRUE).path = Goes(v, TRUE).path \o names
    BY <2>1, <2>2, <2>3, <2>4, GoesAlong
  <2>7. CASE Goes(v, TRUE).at \in {Missing, OutsideCheckout} /\ Goes(w, TRUE) = Goes(v, TRUE)
    <3>1. Goes(v, TRUE) \in Walker
      BY GoesTyped
    <3>2. Goes(v, TRUE).path = <<>>
      BY <2>7, <3>1 DEF Walker
    <3> QED BY <1>1, <2>5, <2>7, <3>2 DEF Stays
  <2>8. CASE Goes(w, TRUE).at = Goes(v, TRUE).at /\ Goes(w, TRUE).path = Goes(v, TRUE).path \o names
    <3>1. PICK m \in Nat : m = n + 1
      OBVIOUS
    <3>2. IsFound(x) /\ Goes(w, TRUE).at = Walk(x, TRUE)[m].at /\ Goes(w, TRUE).path = Walk(x, TRUE)[m].path \o names
      BY <2>1, <2>2, <2>8, <3>1
    <3>3. \E y \in {L, K}, i \in Nat, r \in Seq(Name) :
             IsFound(y) /\ Goes(w, TRUE).at = Walk(y, TRUE)[i].at /\ Goes(w, TRUE).path = Walk(y, TRUE)[i].path \o r
      BY <3>2, Zenon
    <3> QED BY <2>5, <2>8, <3>3 DEF Stays
  <2> QED BY <2>6, <2>7, <2>8
<1> QED BY <1>6, <1>7, <1>8 DEF Stays

\* A link of such a checkout never leads out of it, with the environment the gate
\* added or without.
LEMMA PassedStays ==
    ASSUME LinksGiven, \A y \in {L, K} : IsFound(y) \/ IsBelow(y), NEW x \in {L, K}
    PROVE  LeadsTo(x, TRUE) # OutsideCheckout
<1> DEFINE in == {n \in Nat : Stays(Walk(x, TRUE)[n])}
<1>1. 0 \in in
  <2>1. <<>> \in Seq(Name) /\ given[x] \o <<>> = given[x]
    <3>1. PICK t \in Seq(Segments) : t = given[x]
      BY DEF LinksGiven
    <3> QED BY <3>1
  <2>2. Stays([at |-> Front(x), path |-> given[x] \o <<>>])
    BY <2>1, LinkStays
  <2>3. Stays(Outset(x))
    BY <2>1, <2>2 DEF Outset
  <2> QED BY <2>3, WalkIs
<1>2. ASSUME NEW n \in Nat, n \in in PROVE n + 1 \in in
  <2>1. PICK w \in Walker : w = Walk(x, TRUE)[n] /\ Walk(x, TRUE)[n + 1] = Goes(w, TRUE)
    BY WalkIs
  <2>2. Stays(Goes(w, TRUE))
    BY <1>2, <2>1, StaysStep
  <2>3. n + 1 \in Nat
    OBVIOUS
  <2> QED BY <2>1, <2>2, <2>3, Zenon
<1>3. \A n \in Nat : n \in in
  <2> HIDE DEF in
  <2> QED BY <1>1, <1>2, CountsUp
<1>4. Longest \in Nat
  BY MaxTargetAssumption DEF Longest
<1>5. Walk(x, TRUE)[Longest].at # OutsideCheckout
  BY <1>3, <1>4 DEF Stays
<1>6. Missing # OutsideCheckout
  BY DEF Missing, OutsideCheckout
<1> QED BY <1>5, <1>6 DEF LeadsTo
-----------------------------------------------------------------------------
(* What no link reaches by its spelling, none leads to.                     *)

\* The names that lead to a directory of File's, or to it: from the root, from d.
ToFile == {<<>>, <<"d">>, File}
ToFileInD == {<<>>, <<"f">>}

\* Where a walk may be that is not on its way to File.
Away(w) ==
    \/ w.at = <<>> /\ w.path \in Seq(Name) \ ToFile
    \/ w.at = <<"d">> /\ w.path \in Seq(Name) \ ToFileInD
    \/ w.at = <<"d">> /\ \E names \in Seq(Name) \ ToFile : w.path = <<"..">> \o names
    \/ w.at = File /\ w.path \in Seq(Name) \ {<<>>}
    \/ w.at \in {Missing, OutsideCheckout}

\* More names after some do not bring a walk there that those keep away.
LEMMA NamesKeepAway ==
    ASSUME NEW t \in Seq(Name), NEW rest \in Seq(Name)
    PROVE  /\ t \notin ToFile => t \o rest \in Seq(Name) \ ToFile
           /\ t \notin ToFileInD => t \o rest \in Seq(Name) \ ToFileInD
<1>1. t \o rest \in Seq(Name) /\ Len(t \o rest) = Len(t) + Len(rest) /\ Len(t) \in Nat /\ Len(rest) \in Nat
  BY ConcatProperties
<1>2. \A i \in 1 .. Len(t) : (t \o rest)[i] = t[i]
  BY ConcatProperties
<1>3. Len(t) = 0 => t = <<>>
  BY EmptySeq
<1>4. ASSUME NEW a, Len(t) = 1, t[1] = a PROVE t = <<a>>
  BY <1>4
<1>5. ASSUME NEW a, NEW b, Len(t) = 2, t[1] = a, t[2] = b PROVE t = <<a, b>>
  BY <1>5
<1>6. ASSUME NEW a, t \o rest = <<a>> PROVE t = <<>> \/ t = <<a>>
  <2>1. Len(<<a>>) = 1 /\ <<a>>[1] = a
    OBVIOUS
  <2>2. Len(t) = 0 \/ Len(t) = 1
    <3>1. PICK m, n \in Nat : m = Len(t) /\ n = Len(rest) /\ m + n = Len(t \o rest)
      BY <1>1
    <3>2. m + n = 1
      BY <1>6, <2>1, <3>1
    <3>3. m = 0 \/ m = 1
      BY <3>2
    <3> QED BY <3>1, <3>3
  <2>3. ASSUME Len(t) = 1 PROVE t[1] = a
    BY <1>2, <1>6, <2>1, <2>3
  <2> QED BY <1>3, <1>4, <2>2, <2>3
<1>7. ASSUME NEW a, NEW b, t \o rest = <<a, b>> PROVE t = <<>> \/ t = <<a>> \/ t = <<a, b>>
  <2>1. Len(<<a, b>>) = 2 /\ <<a, b>>[1] = a /\ <<a, b>>[2] = b
    OBVIOUS
  <2>2. Len(t) = 0 \/ Len(t) = 1 \/ Len(t) = 2
    <3>1. PICK m, n \in Nat : m = Len(t) /\ n = Len(rest) /\ m + n = Len(t \o rest)
      BY <1>1
    <3>2. m + n = 2
      BY <1>7, <2>1, <3>1
    <3>3. m = 0 \/ m = 1 \/ m = 2
      BY <3>2
    <3> QED BY <3>1, <3>3
  <2>3. ASSUME Len(t) = 1 \/ Len(t) = 2 PROVE t[1] = a
    BY <1>2, <1>7, <2>1, <2>3
  <2>4. ASSUME Len(t) = 2 PROVE t[2] = b
    BY <1>2, <1>7, <2>1, <2>4
  <2> QED BY <1>3, <1>4, <1>5, <2>2, <2>3, <2>4
<1>8. ASSUME t \o rest = <<>> PROVE t = <<>>
  <2>1. Len(t) = 0
    BY <1>1, <1>8
  <2> QED BY <1>3, <2>1
<1> QED BY <1>1, <1>6, <1>7, <1>8, PlacesAre DEF ToFile, ToFileInD

\* A link whose spelling does not reach File.
IsAway(x) ==
    \/ x = L /\ given[x] \in Seq(Name) \ ToFile
    \/ x = K /\ given[x] \in Seq(Name) \ ToFileInD
    \/ x = K /\ \E names \in Seq(Name) \ ToFile : given[x] = <<"..">> \o names

LEMMA AwayFromStart ==
    ASSUME NEW x \in {L, K}, IsAway(x), NEW rest \in Seq(Name)
    PROVE  Away([at |-> Front(x), path |-> given[x] \o rest])
<1>1. CASE x = L /\ given[x] \in Seq(Name) \ ToFile
  <2>1. given[x] \o rest \in Seq(Name) \ ToFile
    BY <1>1, NamesKeepAway
  <2>2. Front(x) = <<>>
    BY <1>1, PlacesAre
  <2> QED BY <2>1, <2>2 DEF Away
<1>2. CASE x = K /\ given[x] \in Seq(Name) \ ToFileInD
  <2>1. given[x] \o rest \in Seq(Name) \ ToFileInD
    BY <1>2, NamesKeepAway
  <2>2. Front(x) = <<"d">>
    BY <1>2, PlacesAre
  <2> QED BY <2>1, <2>2 DEF Away
<1>3. CASE x = K /\ \E names \in Seq(Name) \ ToFile : given[x] = <<"..">> \o names
  <2>1. PICK names \in Seq(Name) \ ToFile : given[x] = <<"..">> \o names
    BY <1>3
  <2>2. names \o rest \in Seq(Name) \ ToFile
    BY NamesKeepAway
  <2>3. given[x] \o rest = <<"..">> \o (names \o rest)
    <3>1. Name \subseteq Segments /\ ".." \in Segments
      BY DEF Name, Segments, Segment
    <3>2. <<"..">> \in Seq(Segments) /\ names \in Seq(Segments) /\ rest \in Seq(Segments)
      BY <3>1, SeqMonotonic
    <3> QED BY <2>1, <3>2, ConcatAssociative
  <2>4. Front(x) = <<"d">>
    BY <1>3, PlacesAre
  <2> QED BY <2>2, <2>3, <2>4 DEF Away
<1> QED BY <1>1, <1>2, <1>3 DEF IsAway

LEMMA AwayStep ==
    ASSUME LinksGiven, \A x \in {L, K} : IsAway(x), NEW w \in Walker, Away(w)
    PROVE  Away(Goes(w, FALSE))
<1>0. ASSUME NEW v, NEW p, NEW q, v = [at |-> p, path |-> q] PROVE v.at = p /\ v.path = q
  BY <1>0
<1>1. Dirs(FALSE) = {<<>>, <<"d">>}
  BY DEF Dirs
<1>2. /\ Missing \notin {<<>>, <<"d">>, File, Environment} /\ <<>> \notin {Environment, File} /\ <<"d">> \notin {Environment, File}
      /\ File # Environment
  <2>1. File # Environment /\ File # <<"d">> /\ Missing # File
    <3>1. Len(<<"d", "f">>) = 2 /\ Len(<<"environment">>) = 1 /\ Len(<<"d">>) = 1 /\ Len(<<"missing">>) = 1
      OBVIOUS
    <3> QED BY <3>1 DEF File, Environment, Missing
  <2> QED BY <2>1 DEF Missing, Environment, File
<1>3. Away(Ends(Missing))
  BY DEF Away, Ends
<1>4. CASE w.at = <<>> /\ w.path \in Seq(Name) \ ToFile
  <2>1. w.path # <<>>
    BY <1>4 DEF ToFile
  <2>2. PICK seg \in Name, rest \in Seq(Name) : seg = Head(w.path) /\ rest = Tail(w.path) /\ w.path = <<seg>> \o rest
    BY <1>4, <2>1, PathIs
  <2>3. seg \notin {"..", "/"}
    BY DEF Name, Segment
  <2>4. PICK next : next = Append(w.at, seg) /\ next = <<seg>>
    BY <1>4, PlacesAre
  <2>5. next # K /\ next # File /\ next # <<"m", "e">>
    <3>1. Len(<<seg>>) = 1 /\ Len(<<"d", "k">>) = 2 /\ Len(<<"d", "f">>) = 2 /\ Len(<<"m", "e">>) = 2
      OBVIOUS
    <3> QED BY <2>4, <3>1, PlacesAre
  <2>6. CASE next \in DOMAIN given
    <3>1. next = L
      BY <2>5, <2>6 DEF LinksGiven
    <3>2. Goes(w, FALSE) = [at |-> Front(L), path |-> given[L] \o rest]
      BY <1>1, <1>2, <1>4, <2>1, <2>2, <2>3, <2>4, <2>6, <3>1, PlacesAre DEF Goes
    <3> QED BY <3>2, AwayFromStart
  <2>7. CASE next \notin DOMAIN given /\ next \in Dirs(FALSE)
    <3>1. next = <<"d">> /\ seg = "d"
      <4>1. <<seg>> # <<>> /\ <<seg>>[1] = seg /\ <<"d">>[1] = "d"
        OBVIOUS
      <4>2. next = <<"d">>
        BY <1>1, <2>4, <2>7, <4>1
      <4> QED BY <2>4, <4>1, <4>2
    <3>2. Goes(w, FALSE) = [at |-> <<"d">>, path |-> rest]
      BY <1>1, <1>2, <1>4, <2>1, <2>2, <2>3, <2>4, <2>7, <3>1 DEF Goes
    <3>3. rest \notin ToFileInD
      <4>1. <<"d">> \o <<>> = <<"d">> /\ <<"d">> \o <<"f">> = File
        BY ShortPaths, PlacesAre
      <4>2. w.path = <<"d">> \o rest /\ w.path # <<"d">> /\ w.path # File
        BY <1>4, <2>2, <3>1 DEF ToFile
      <4>3. rest # <<>> /\ rest # <<"f">>
        BY <4>1, <4>2, Zenon
      <4> QED BY <4>3 DEF ToFileInD
    <3>4. Goes(w, FALSE).at = <<"d">> /\ Goes(w, FALSE).path = rest
      BY <1>0, <3>2
    <3> QED BY <2>2, <3>3, <3>4 DEF Away
  <2>8. CASE next \notin DOMAIN given /\ next \notin Dirs(FALSE)
    <3>1. Goes(w, FALSE) = Ends(Missing)
      BY <1>1, <1>2, <1>4, <2>1, <2>2, <2>3, <2>4, <2>5, <2>8 DEF Goes
    <3> QED BY <1>3, <3>1
  <2> QED BY <2>6, <2>7, <2>8
<1>5. CASE w.at = <<"d">> /\ w.path \in Seq(Name) \ ToFileInD
  <2>1. w.path # <<>>
    BY <1>5 DEF ToFileInD
  <2>2. PICK seg \in Name, rest \in Seq(Name) : seg = Head(w.path) /\ rest = Tail(w.path) /\ w.path = <<seg>> \o rest
    <3>1. PICK p \in Seq(Name) : p = w.path /\ p # <<>>
      BY <1>5, <2>1
    <3>2. Head(p) \in Name /\ Tail(p) \in Seq(Name) /\ p = <<Head(p)>> \o Tail(p)
      BY <3>1, PathIs
    <3> QED BY <3>1, <3>2, Zenon
  <2>3. seg \notin {"..", "/"}
    BY DEF Name, Segment
  <2>4. PICK next : next = Append(w.at, seg) /\ next = <<"d", seg>>
    BY <1>5, PlacesAre
  <2>5. next # L /\ next \notin Dirs(FALSE) /\ next # <<"m", "e">>
    <3>1. Len(<<"d", seg>>) = 2 /\ Len(<<"l">>) = 1 /\ Len(<<"d">>) = 1 /\ Len(<<>>) = 0
      OBVIOUS
    <3>2. <<"d", seg>>[1] = "d" /\ <<"m", "e">>[1] = "m"
      OBVIOUS
    <3>3. next # L /\ next # <<>> /\ next # <<"d">>
      BY <2>4, <3>1, PlacesAre
    <3>4. next # <<"m", "e">>
      BY <2>4, <3>2
    <3> QED BY <1>1, <3>3, <3>4
  <2>6. CASE next \in DOMAIN given
    <3>1. next = K
      BY <2>5, <2>6 DEF LinksGiven
    <3>2. Goes(w, FALSE) = [at |-> Front(K), path |-> given[K] \o rest]
      BY <1>1, <1>2, <1>5, <2>1, <2>2, <2>3, <2>4, <2>6, <3>1, PlacesAre DEF Goes
    <3> QED BY <3>2, AwayFromStart
  <2>7. CASE next \notin DOMAIN given /\ next = File
    <3>1. seg = "f"
      BY <2>4, <2>7 DEF File
    <3>2. Goes(w, FALSE) = [at |-> File, path |-> rest]
      BY <1>1, <1>2, <1>5, <2>1, <2>2, <2>3, <2>4, <2>7 DEF Goes
    <3>3. rest # <<>>
      <4>1. <<"f">> \o <<>> = <<"f">>
        BY ShortPaths
      <4>2. w.path = <<"f">> \o rest /\ w.path # <<"f">>
        BY <1>5, <2>2, <3>1 DEF ToFileInD
      <4> QED BY <4>1, <4>2
    <3>4. Goes(w, FALSE).at = File /\ Goes(w, FALSE).path = rest
      BY <1>0, <3>2
    <3> QED BY <2>2, <3>3, <3>4 DEF Away
  <2>8. CASE next \notin DOMAIN given /\ next # File
    <3>1. Goes(w, FALSE) = Ends(Missing)
      BY <1>1, <1>2, <1>5, <2>1, <2>2, <2>3, <2>4, <2>5, <2>8 DEF Goes
    <3> QED BY <1>3, <3>1
  <2> QED BY <2>6, <2>7, <2>8
<1>6. CASE w.at = <<"d">> /\ \E names \in Seq(Name) \ ToFile : w.path = <<"..">> \o names
  <2>1. PICK names \in Seq(Name) \ ToFile : w.path = <<"..">> \o names
    BY <1>6
  <2>2. w.path # <<>> /\ Head(w.path) = ".." /\ Tail(w.path) = names
    BY <2>1
  <2>3. <<"d">> # Environment /\ <<"d">> \in Dirs(FALSE) /\ <<"d">> # <<>> /\ Front(<<"d">>) = <<>>
    BY <1>1, <1>2, PlacesAre
  <2>4. Goes(w, FALSE) = [at |-> <<>>, path |-> names]
    BY <1>6, <2>2, <2>3 DEF Goes
  <2>5. Goes(w, FALSE).at = <<>> /\ Goes(w, FALSE).path = names
    BY <1>0, <2>4
  <2> QED BY <2>1, <2>5 DEF Away
<1>7. CASE w.at = File /\ w.path \in Seq(Name) \ {<<>>}
  <2>1. Head(w.path) \in Name /\ "/" \notin Name
    BY <1>7, PathIs DEF Name, Segment
  <2>2. w.at \notin Dirs(FALSE) /\ w.at # Environment
    BY <1>1, <1>2, <1>7
  <2>3. Goes(w, FALSE) = Ends(Missing)
    BY <1>7, <2>1, <2>2 DEF Goes
  <2> QED BY <1>3, <2>3
<1>8. CASE w.at \in {Missing, OutsideCheckout}
  <2>1. Goes(w, FALSE) = w
    BY <1>8 DEF Goes, Walker
  <2> QED BY <2>1
<1> QED BY <1>4, <1>5, <1>6, <1>7, <1>8 DEF Away

\* The places that lead to File by the path of File.
LEMMA LeadsToFile ==
    /\ \A p \in ToFile : IsPrefix(p, File)
    /\ ~IsPrefix(<<"m">>, File) /\ ~IsPrefix(Environment, File)
<1>1. PICK f \in Seq({"d", "f"}) : f = File /\ Len(f) = 2 /\ f[1] = "d" /\ f[2] = "f"
  <2>1. <<"d", "f">> \in Seq({"d", "f"}) /\ Len(<<"d", "f">>) = 2 /\ <<"d", "f">>[1] = "d" /\ <<"d", "f">>[2] = "f"
    OBVIOUS
  <2> QED BY <2>1, PlacesAre
<1>2. SubSeq(f, 1, 2) = f
  BY <1>1, SubSeqFull
<1>3. SubSeq(f, 1, 0) = <<>> /\ SubSeq(<<>>, 1, 0) = <<>>
  OBVIOUS
<1>4. \A c : SubSeq(<<c>>, 1, 1) = <<c>>
  BY ShortPaths
<1>5. SubSeq(f, 1, 1) = <<"d">>
  <2>2. PICK s : s = SubSeq(f, 1, 1)
    OBVIOUS
  <2>3. /\ s \in Seq({"d", "f"}) /\ Len(s) = IF 1 <= 1 THEN 1 - 1 + 1 ELSE 0
        /\ \A i \in 1 .. 1 - 1 + 1 : s[i] = f[1 + i - 1]
    <3>1. \A i \in 1 .. 1 : f[i] \in {"d", "f"}
      BY <1>1
    <3> QED BY <2>2, <3>1, SubSeqProperties
  <2>4. Len(s) = 1 /\ s[1] = "d"
    BY <1>1, <2>3
  <2>5. <<"d">> \in Seq({"d", "f"}) /\ Len(<<"d">>) = 1 /\ <<"d">>[1] = "d"
    OBVIOUS
  <2>6. \A i \in 1 .. Len(s) : s[i] = <<"d">>[i]
    BY <2>4, <2>5
  <2>7. s = <<"d">>
    BY <2>3, <2>4, <2>5, <2>6, SeqEqual
  <2> QED BY <2>2, <2>7
<1>6. IsPrefix(<<>>, f)
  BY <1>1, <1>3 DEF IsPrefix
<1>7. IsPrefix(<<"d">>, f)
  BY <1>1, <1>4, <1>5 DEF IsPrefix
<1>8. IsPrefix(f, f)
  BY <1>1 DEF IsPrefix
<1>9. ASSUME NEW c, c # "d" PROVE ~IsPrefix(<<c>>, f)
  <2>1. Len(<<c>>) = 1 /\ <<c>> # <<"d">>
    BY <1>9
  <2> QED BY <1>4, <1>5, <2>1 DEF IsPrefix
<1> QED BY <1>1, <1>6, <1>7, <1>8, <1>9 DEF ToFile, Environment

\* A file that a link gives a second name is one that some link's spelling reaches.
LEMMA ReachedIsLinked ==
    ASSUME LinksGiven, NEW x \in {L, K}, LeadsTo(x, FALSE) \notin {Missing, OutsideCheckout},
           IsPrefix(LeadsTo(x, FALSE), File)
    PROVE  linked(File)
<1> SUFFICES ASSUME ~linked(File) PROVE FALSE
  OBVIOUS
<1>1. ASSUME NEW y \in {L, K} PROVE IsAway(y)
  <2>1. y \in DOMAIN given
    BY <1>1 DEF LinksGiven
  <2>2. Joined(y) # OutsideCheckout /\ ~climbsPastName(given[y]) /\ ~IsPrefix(Joined(y), File)
    BY <2>1 DEF linked, reaches
  <2>3. Joined(y) \notin ToFile
    BY <2>2, LeadsToFile
  <2>4. IsBelow(y)
    BY <1>1, <2>2, SpeltInside
  <2>5. CASE y = L
    <3>1. given[y] \in Seq(Name) /\ Joined(y) = <<>> \o given[y]
      BY <2>4, <2>5, PlacesAre DEF IsBelow
    <3>2. Joined(y) = given[y]
      BY <3>1, PathsJoin
    <3> QED BY <2>3, <2>5, <3>1, <3>2 DEF IsAway
  <2>6. CASE y = K /\ given[y] \in Seq(Name) /\ Joined(y) = Front(y) \o given[y]
    <3>1. Joined(y) = <<"d">> \o given[y]
      BY <2>6, PlacesAre
    <3>2. <<"d">> \o <<>> = <<"d">> /\ <<"d">> \o <<"f">> = File
      BY ShortPaths, PlacesAre
    <3>3. given[y] \notin ToFileInD
      BY <2>3, <3>1, <3>2 DEF ToFile, ToFileInD
    <3> QED BY <2>6, <3>3 DEF IsAway
  <2>7. CASE y = K /\ \E names \in Seq(Name) : given[y] = <<"..">> \o names /\ Joined(y) = names
    BY <2>3, <2>7 DEF IsAway
  <2> QED BY <1>1, <2>4, <2>5, <2>6, <2>7 DEF IsBelow
<1> DEFINE away == {n \in Nat : Away(Walk(x, FALSE)[n])}
<1>2. 0 \in away
  <2>1. <<>> \in Seq(Name) /\ given[x] \o <<>> = given[x]
    <3>1. PICK t \in Seq(Segments) : t = given[x]
      BY DEF LinksGiven
    <3> QED BY <3>1
  <2>2. Away([at |-> Front(x), path |-> given[x] \o <<>>])
    BY <1>1, <2>1, AwayFromStart
  <2>3. Away(Outset(x))
    BY <2>1, <2>2 DEF Outset
  <2> QED BY <2>3, WalkIs
<1>3. ASSUME NEW n \in Nat, n \in away PROVE n + 1 \in away
  <2>1. PICK w \in Walker : w = Walk(x, FALSE)[n] /\ Walk(x, FALSE)[n + 1] = Goes(w, FALSE)
    BY WalkIs
  <2>2. Away(Goes(w, FALSE))
    BY <1>1, <1>3, <2>1, AwayStep
  <2>3. n + 1 \in Nat
    OBVIOUS
  <2> QED BY <2>1, <2>2, <2>3, Zenon
<1>4. \A n \in Nat : n \in away
  <2> HIDE DEF away
  <2> QED BY <1>2, <1>3, CountsUp
<1>5. Longest \in Nat
  BY MaxTargetAssumption DEF Longest
<1>6. PICK end \in Walker : end = Walk(x, FALSE)[Longest]
  BY <1>5, WalkIs
<1>7. end.path = <<>> /\ end.at = LeadsTo(x, FALSE)
  BY <1>6 DEF LeadsTo
<1>8. Away(end)
  BY <1>4, <1>5, <1>6
<1>9. end.at \in {Missing, OutsideCheckout}
  <2>1. ASSUME NEW names \in Seq(Name) PROVE <<"..">> \o names # <<>>
    BY <2>1
  <2> QED BY <1>7, <1>8, <2>1 DEF Away, ToFile, ToFileInD
<1> QED BY <1>7, <1>9
-----------------------------------------------------------------------------
(* What the vetting keeps.                                                  *)

\* Whoever the gate has passed does not escape, and an environment is put only
\* where it passed every link.
LinksInv ==
    /\ LinksGiven /\ vetted \subseteq {L, K}
    /\ \A x \in vetted : ~escapes(x)
    /\ cutCheckout = "linked" => vetted = {L, K}

LEMMA LinksInvInit == LinksInit => LinksInv
<1> SUFFICES ASSUME LinksInit PROVE LinksInv
  OBVIOUS
<1>1. PICK tl \in Targets(MaxTarget) \cup {<<"/">>}, tk \in Targets(MaxTarget - 1) :
         given = [link \in {L, K} |-> IF link = L THEN tl ELSE tk]
  BY DEF LinksInit
<1>2. ASSUME NEW n \in Nat, NEW t \in Targets(n) PROVE t \in Seq(Segments) /\ t # <<>>
  <2>1. PICK i \in 1 .. n : t \in [1 .. i -> Segment]
    BY <1>2 DEF Targets
  <2>2. t \in Seq(Segment) /\ Len(t) = i /\ i > 0
    BY <2>1
  <2>3. Segment \subseteq Segments
    BY DEF Segments
  <2>4. t \in Seq(Segments)
    BY <2>2, <2>3, SeqMonotonic
  <2> QED BY <2>2, <2>4
<1>3. <<"/">> \in Seq(Segments) /\ <<"/">> # <<>>
  <2>1. "/" \in Segments
    BY DEF Segments
  <2> QED BY <2>1
<1>4. MaxTarget \in Nat /\ MaxTarget - 1 \in Nat
  BY MaxTargetAssumption
<1>5. tl \in Seq(Segments) /\ tl # <<>> /\ tk \in Seq(Segments) /\ tk # <<>>
  BY <1>2, <1>3, <1>4
<1>6. LinksGiven
  BY <1>1, <1>5, PlacesAre DEF LinksGiven
<1> QED BY <1>6 DEF LinksInit, LinksInv

LEMMA LinksInvKept ==
    ASSUME LinksInv, LinksNext \/ UNCHANGED linksVars, given' = given
    PROVE  LinksInv'
<1>1. LinksGiven'
  BY DEF LinksInv, LinksGiven
<1>2. \A x \in {L, K} : escapes(x)' <=> escapes(x)
  BY DEF escapes, realpathSync, Reading, Reads, LeadsTo, Walk, Goes, Joined, Spelling, climbsPastName, Spelt
<1>3. DOMAIN given = {L, K}
  BY DEF LinksInv, LinksGiven
<1>4. CASE UNCHANGED linksVars
  BY <1>1, <1>2, <1>4 DEF LinksInv, linksVars
<1>5. CASE LinkEnvironment
  BY <1>1, <1>2, <1>3, <1>5 DEF LinksInv, LinkEnvironment
<1>6. ASSUME NEW link \in DOMAIN given, Vet(link) PROVE LinksInv'
  <2>1. CASE escapes(link)
    BY <1>1, <1>2, <1>6, <2>1 DEF LinksInv, Vet
  <2>2. CASE ~escapes(link)
    BY <1>1, <1>2, <1>3, <1>6, <2>2 DEF LinksInv, Vet
  <2> QED BY <2>1, <2>2
<1> QED BY <1>4, <1>5, <1>6 DEF LinksNext

LEMMA LinksSuffice == LinksInv => LinksAreWhatTheyReach
<1> SUFFICES ASSUME LinksInv PROVE LinksAreWhatTheyReach
  OBVIOUS
<1>1. LinksGiven /\ DOMAIN given = {L, K}
  BY DEF LinksInv, LinksGiven
<1>2. NoLinkEscapes
  <2> SUFFICES ASSUME \A y \in {L, K} : ~climbsPastLink(y), cutCheckout = "linked", NEW link \in {L, K}
               PROVE  LeadsTo(link, TRUE) # OutsideCheckout
    BY <1>1 DEF NoLinkEscapes, NoneReachesOutside
  <2>1. \A y \in {L, K} : ~escapes(y)
    BY DEF LinksInv
  <2>2. \A y \in {L, K} : Joined(y) # OutsideCheckout /\ (LeadsTo(y, FALSE) = Missing => IsBelow(y))
    BY <1>1, <2>1, PassedIs
  <2>3. \A y \in {L, K} : LeadsTo(y, FALSE) # OutsideCheckout
    BY <1>1, <2>2, SpeltStays
  <2>4. \A y \in {L, K} : IsFound(y) \/ IsBelow(y)
    BY <2>2, <2>3 DEF IsFound
  <2> QED BY <1>1, <2>4, PassedStays
<1>3. LinkedFileIsSource
  <2> SUFFICES ASSUME NEW link \in {L, K}, LeadsTo(link, FALSE) \notin {Missing, OutsideCheckout},
                      IsPrefix(LeadsTo(link, FALSE), File)
               PROVE  linked(File)
    BY <1>1, Zenon DEF LinkedFileIsSource
  <2> QED BY <1>1, ReachedIsLinked
<1> QED BY <1>2, <1>3 DEF LinksAreWhatTheyReach
=============================================================================
