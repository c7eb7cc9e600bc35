---------------------------- MODULE RulesProofs ----------------------------
(***************************************************************************)
(* What holds in every behaviour of Rules, whatever its parts and however   *)
(* long it runs. Each part is taken alone: it is the subject, or it rests.  *)
(***************************************************************************)
EXTENDS Rules, ReviewProofs
-----------------------------------------------------------------------------
(* Handoff.                                                                 *)

Documents == Doc \cup {NoDoc}

RunRecord == [at : RunPlace, hard : BOOLEAN, doc : Documents, asked : Nat,
              index : Int, pane : Nat, crossed : BOOLEAN]

\* The state that the promises of a run are about.
RunsOK ==
    /\ run \in [Respawns -> RunRecord]
    /\ log \in Seq(Doc \cup {Asked}) /\ file \in Documents /\ told \in 0 .. MaxDocs
    /\ opened \in Nat \ {0} /\ window \in 0 .. opened /\ tree \in Nat /\ waited \subseteq Respawns

\* A run that asked knows which request is its own.
IsAsked(i) == i # 0 => i \in DOMAIN log /\ log[i] = Asked

\* A document that answers: signalled after a request, and after the run's own.
IsAnswer(asks, doc) ==
    \E i, j \in DOMAIN log : i < j /\ asks <= i /\ log[i] = Asked /\ log[j] = doc
IsAnswered(one) == ~one.hard /\ one.at \in {"kills"} \cup Relaunching => IsAnswer(one.asked, one.doc)

\* Nobody works between the end of the old window and the opening of the new one.
IsStill(one, open) ==
    one.at \in {"verifies", "launches"} /\ ~one.crossed =>
        /\ open = 0
        /\ one.at = "launches" /\ one.index # -1 => one.index = tree

\* Who had only waited when the session left waits still, or was refused.
Stuck ==
    /\ waited # {} => row # "running"
    /\ \A r \in waited : run[r].at \in Waiting \cup {"refused", "failed"}

HandoffInv ==
    /\ RunsOK /\ Stuck
    /\ \A r \in Respawns : IsAsked(run[r].asked) /\ IsAnswered(run[r]) /\ IsStill(run[r], window)

LEMMA HandoffInvInit == HandoffInit => HandoffInv
  BY HandoffAssumption
  DEF HandoffInit, HandoffStart, HandoffInv, RunsOK, IsAsked, IsAnswered, IsStill, Stuck, RunRecord,
      NewRun, RunPlace, Relaunching, Documents, Doc, Forged, NoDoc, Waiting, Asked

\* A ready document was signalled after every request there is.
LEMMA ReadyIsSignalled ==
    ASSUME RunsOK, NEW doc, doc # NoDoc, doc = signalledHash
    PROVE  /\ \E j \in DOMAIN log : /\ log[j] = doc
                                    /\ \A i \in DOMAIN log : log[i] = Asked => i < j
           /\ \E i \in DOMAIN log : log[i] = Asked
<1> DEFINE asks == {i \in DOMAIN log : log[i] = Asked}
           after == {i \in DOMAIN log : log[i] # Asked /\ \A j \in asks : j < i}
<1>1. asks # {} /\ after # {} /\ doc = log[CHOOSE i \in after : \A j \in after : j <= i]
  BY DEF signalledHash
<1>2. Len(log) \in Nat /\ after \in SUBSET (1 .. Len(log))
  BY DEF RunsOK
<1>3. \E i \in after : \A j \in after : j <= i
  <2> HIDE DEF after
  <2> QED BY <1>1, <1>2, GreatestExists
<1>4. PICK k \in after : doc = log[k]
  <2> HIDE DEF after
  <2> QED BY <1>1, <1>3, Zenon
<1> QED BY <1>1, <1>4

\* A run that goes on to an allowed place keeps every promise of the others.
LEMMA RunMoves ==
    ASSUME HandoffInv, NEW r \in Respawns, NEW new \in RunRecord, run' = [run EXCEPT ![r] = new],
           UNCHANGED <<row, opened, tree, log, told, waited>>, window' \in {0, window},
           file' \in Documents, IsAsked(new.asked), IsAnswered(new),
           IsStill(new, window'),
           r \in waited => new.at \in Waiting \cup {"refused", "failed"}
    PROVE  HandoffInv'
<1>1. RunsOK'
  BY DEF HandoffInv, RunsOK
<1>2. \A q \in Respawns : run'[q] = IF q = r THEN new ELSE run[q]
  BY DEF HandoffInv, RunsOK
<1>3. Stuck'
  BY <1>2 DEF HandoffInv, RunsOK, Stuck
<1>4. ASSUME NEW q \in Respawns PROVE (IsAsked(run[q].asked) /\ IsAnswered(run[q]) /\ IsStill(run[q], window))'
  <2>1. IsAsked(run'[q].asked) /\ IsAnswered(run'[q]) /\ IsStill(run'[q], window')
    BY <1>2 DEF HandoffInv, IsStill
  <2> QED BY <2>1 DEF IsAsked, IsAnswered, IsAnswer, IsStill
<1> QED BY <1>1, <1>3, <1>4 DEF HandoffInv

\* The log only grows, so what was asked and answered stays so.
LEMMA LogGrows ==
    ASSUME HandoffInv, NEW e \in Doc \cup {Asked}, log' = Append(log, e)
    PROVE  /\ log' \in Seq(Doc \cup {Asked}) /\ Len(log') = Len(log) + 1 /\ log'[Len(log')] = e
           /\ \A i : IsAsked(i) => IsAsked(i)'
           /\ \A asks \in Nat : \A doc : IsAnswer(asks, doc) => IsAnswer(asks, doc)'
<1>1. log \in Seq(Doc \cup {Asked})
  BY DEF HandoffInv, RunsOK
<1>2. /\ log' \in Seq(Doc \cup {Asked}) /\ Len(log') = Len(log) + 1 /\ log'[Len(log')] = e
      /\ \A i \in DOMAIN log : i \in DOMAIN log' /\ log'[i] = log[i]
  BY <1>1
<1> QED BY <1>2 DEF IsAsked, IsAnswer

\* What a run that is over promises: nothing.
LEMMA StopKeeps ==
    ASSUME HandoffInv, NEW r \in Respawns, NEW place \in {"refused", "failed"}, Stops(r, place),
           UNCHANGED <<sessionVars, log, tree, waited>>, file' \in Documents
    PROVE  HandoffInv'
<1> DEFINE new == [NewRun EXCEPT !.at = place]
<1>1. /\ NewRun \in RunRecord /\ new \in RunRecord /\ new.at = place /\ new.asked = 0
  <2>1. NewRun \in RunRecord /\ NewRun.asked = 0
    BY DEF NewRun, RunRecord, RunPlace, Documents, NoDoc
  <2>2. place \in RunPlace
    BY DEF RunPlace
  <2> QED BY <2>1, <2>2 DEF RunRecord
<1>5. IsAsked(new.asked) /\ IsAnswered(new) /\ IsStill(new, window')
  BY <1>1 DEF IsAsked, IsAnswered, IsStill, Relaunching
<1>2. run' = [run EXCEPT ![r] = new]
  BY DEF Stops
<1> HIDE DEF new
<1>6. UNCHANGED <<row, window, opened, tree, log, told, waited>>
  BY DEF sessionVars
<1>7. r \in waited => new.at \in Waiting \cup {"refused", "failed"}
  BY <1>1
<1>8. PICK n : n = new
  OBVIOUS
<1> HIDE DEF new
<1>9. /\ n \in RunRecord /\ run' = [run EXCEPT ![r] = n] /\ IsAsked(n.asked) /\ IsAnswered(n) /\ IsStill(n, window')
      /\ r \in waited => n.at \in Waiting \cup {"refused", "failed"}
  BY <1>1, <1>2, <1>5, <1>7, <1>8
<1> QED BY <1>6, <1>9, RunMoves

\* A run goes on to a place where it promises what it did before, or nothing yet.
LEMMA GoKeeps ==
    ASSUME HandoffInv, NEW r \in Respawns, NEW place \in RunPlace, RunGoes(r, place),
           UNCHANGED <<row, opened, tree, log, told, waited>>, file' \in Documents,
           window' \in {0, window},
           \/ place \in Waiting
           \/ place \in {"verifies", "kicks", "done"} /\ run[r].at \in {"kills"} \cup Relaunching
                 /\ (place = "verifies" => window' = 0)
    PROVE  HandoffInv'
<1> DEFINE new == [run[r] EXCEPT !.at = place]
<1>1. run[r] \in RunRecord /\ run' = [run EXCEPT ![r] = new]
  BY DEF HandoffInv, RunsOK, RunGoes
<1>2. new \in RunRecord /\ new.at = place /\ new.asked = run[r].asked /\ new.hard = run[r].hard /\ new.doc = run[r].doc
  BY <1>1 DEF RunRecord
<1> HIDE DEF new
<1>3. IsAsked(run[r].asked) /\ IsAnswered(run[r])
  BY DEF HandoffInv
<1>4. IsAnswered(new)
  BY <1>2, <1>3 DEF IsAnswered, Waiting, Relaunching
<1>5. r \in waited => new.at \in Waiting \cup {"refused", "failed"}
  BY <1>2 DEF HandoffInv, Stuck, Waiting, Relaunching
<1>6. IsStill(new, window')
  <2>1. place # "launches" /\ (place = "verifies" => window' = 0)
    BY DEF Waiting
  <2> QED BY <1>2, <2>1 DEF IsStill
<1>7. PICK n : n = new
  OBVIOUS
<1>8. /\ n \in RunRecord /\ run' = [run EXCEPT ![r] = n] /\ IsAsked(n.asked) /\ IsAnswered(n) /\ IsStill(n, window')
      /\ r \in waited => n.at \in Waiting \cup {"refused", "failed"}
  BY <1>1, <1>2, <1>3, <1>4, <1>5, <1>6, <1>7
<1> QED BY <1>8, RunMoves

\* What the launch of one window promises of all of them.
LEMMA RunKeeps ==
    ASSUME HandoffInv, NEW r \in Respawns, RunStep(r)
    PROVE  HandoffInv'
<1> USE DEF sessionVars
<1>0. run[r] \in RunRecord /\ file \in Documents /\ window \in Nat /\ opened \in Nat /\ tree \in Nat
  BY DEF HandoffInv, RunsOK
<1>1. CASE \E hard \in BOOLEAN, place \in {"asks", "relaunches"} : Enters(r, hard, place)
  <2>1. PICK hard \in BOOLEAN, place \in {"asks", "relaunches"} : Enters(r, hard, place)
    BY <1>1
  <2>2. PICK n : n = [run[r] EXCEPT !.hard = hard, !.at = place]
    OBVIOUS
  <2>3. n \in RunRecord /\ n.at = place /\ n.asked = run[r].asked
    BY <1>0, <2>2 DEF RunRecord, RunPlace
  <2>4. run' = [run EXCEPT ![r] = n]
    BY <1>0, <2>1, <2>2 DEF Enters, HandoffInv, RunsOK, RunRecord
  <2>5. IsAsked(n.asked)
    BY <2>3 DEF HandoffInv
  <2>6. IsAnswered(n) /\ IsStill(n, window')
    BY <2>3 DEF IsAnswered, IsStill, Relaunching
  <2>7. n.at \in Waiting \cup {"refused", "failed"}
    BY <2>3 DEF Waiting
  <2>8. UNCHANGED <<row, window, opened, tree, log, told, waited, file>>
    BY <2>1 DEF Enters
  <2> QED BY <1>0, <2>3, <2>4, <2>5, <2>6, <2>7, <2>8, RunMoves
<1>2. CASE Begin(r) \/ BeginHard(r)
  BY <1>1, <1>2 DEF Begin, BeginHard
<1>3. CASE Ask(r)
  <2>1. CASE requireRunning(r)
    BY <1>3, <2>1, GoKeeps DEF Ask, Documents, RunPlace, Waiting
  <2>2. CASE ~requireRunning(r)
    BY <1>0, <1>3, <2>2, StopKeeps DEF Ask
  <2> QED BY <2>1, <2>2
<1>4. CASE SteerRequest(r)
  <2>1. CASE RunGoes(r, "appends")
    BY <1>0, <1>4, <2>1, GoKeeps DEF SteerRequest, RunPlace, Waiting
  <2>2. CASE Stops(r, "refused")
    BY <1>0, <1>4, <2>2, StopKeeps DEF SteerRequest
  <2> QED BY <1>4, <2>1, <2>2 DEF SteerRequest
<1>5. CASE Await(r)
  <2>1. CASE RunGoes(r, "relaunches")
    BY <1>0, <1>5, <2>1, GoKeeps DEF Await, RunPlace, Waiting
  <2>2. CASE Stops(r, "refused")
    BY <1>0, <1>5, <2>2, StopKeeps DEF Await
  <2> QED BY <1>5, <2>1, <2>2 DEF Await
<1>6. CASE KillOld(r)
  <2>1. RunGoes(r, "verifies") /\ window' = 0 /\ run[r].at \in {"kills"} \cup Relaunching
    BY <1>6 DEF KillOld, killTmux
  <2> QED BY <1>0, <1>6, <2>1, GoKeeps DEF KillOld, RunPlace
<1>7. CASE StorePaneOf(r)
  <2>1. RunGoes(r, "kicks") /\ run[r].at \in {"kills"} \cup Relaunching
    BY <1>7 DEF StorePaneOf, Relaunching
  <2> QED BY <1>0, <1>7, <2>1, GoKeeps DEF StorePaneOf, RunPlace
<1>8. CASE AppendAsk(r)
  <2>1. Asked \in Doc \cup {Asked} /\ log' = Append(log, Asked) /\ UNCHANGED <<sessionVars, file, tree, waited>>
    BY <1>8 DEF AppendAsk
  <2>2. PICK n : n = [run[r] EXCEPT !.at = "awaits", !.asked = Len(log')]
    OBVIOUS
  <2>3. /\ log' \in Seq(Doc \cup {Asked}) /\ Len(log') = Len(log) + 1 /\ log'[Len(log')] = Asked
        /\ \A i : IsAsked(i) => IsAsked(i)'
        /\ \A asks \in Nat : \A doc : IsAnswer(asks, doc) => IsAnswer(asks, doc)'
    BY <2>1, LogGrows
  <2>4. Len(log') \in Nat /\ Len(log') \in DOMAIN log'
    BY <2>3 DEF HandoffInv, RunsOK
  <2>5. n \in RunRecord /\ n.at = "awaits" /\ n.asked = Len(log')
    BY <1>0, <2>2, <2>4 DEF RunRecord, RunPlace
  <2>6. run' = [run EXCEPT ![r] = n]
    BY <1>0, <1>8, <2>2 DEF AppendAsk, HandoffInv, RunsOK, RunRecord
  <2>7. RunsOK'
    BY <2>1, <2>3, <2>5, <2>6 DEF HandoffInv, RunsOK
  <2>8. \A q \in Respawns : run'[q] = IF q = r THEN n ELSE run[q]
    BY <2>6 DEF HandoffInv, RunsOK
  <2>9. Stuck'
    BY <2>1, <2>5, <2>8 DEF HandoffInv, RunsOK, Stuck, Waiting
  <2>10. ASSUME NEW q \in Respawns
         PROVE  (IsAsked(run[q].asked) /\ IsAnswered(run[q]) /\ IsStill(run[q], window))'
    <3>1. CASE q = r
      <4>1. run'[q].at = "awaits" /\ run'[q].asked = Len(log')
        BY <2>5, <2>8, <3>1
      <4> QED BY <2>3, <2>4, <4>1 DEF IsAsked, IsAnswered, IsStill, Relaunching
    <3>2. CASE q # r
      <4>1. run'[q] = run[q] /\ run[q] \in RunRecord
        BY <2>8, <3>2 DEF HandoffInv, RunsOK
      <4>2. IsAsked(run[q].asked) /\ IsAnswered(run[q]) /\ IsStill(run[q], window)
        BY DEF HandoffInv
      <4>3. IsAsked(run[q].asked)' /\ IsStill(run[q], window)'
        BY <2>1, <2>3, <4>1, <4>2 DEF IsStill
      <4>4. IsAnswered(run[q])'
        BY <2>3, <4>1, <4>2 DEF IsAnswered, RunRecord
      <4> QED BY <4>3, <4>4
    <3> QED BY <3>1, <3>2
  <2> QED BY <2>7, <2>9, <2>10 DEF HandoffInv
<1>9. CASE CheckRelaunch(r)
  <2>1. CASE Stops(r, "refused")
    BY <1>0, <1>9, <2>1, StopKeeps DEF CheckRelaunch
  <2>2. CASE ~Stops(r, "refused")
    <3>1. /\ run[r].at = "relaunches" /\ requireRunning(r) /\ (run[r].hard \/ sameDocument(file))
          /\ UNCHANGED <<sessionVars, file, log, tree, waited>>
      BY <1>9, <2>2 DEF CheckRelaunch
    <3>2. PICK n : n = [run[r] EXCEPT !.at = "kills", !.doc = IF run[r].hard THEN NoDoc ELSE file]
      OBVIOUS
    <3>3. n \in RunRecord /\ n.at = "kills" /\ n.asked = run[r].asked /\ n.hard = run[r].hard /\ (~n.hard => n.doc = file)
      BY <1>0, <3>2 DEF RunRecord, RunPlace, Documents
    <3>4. run' = [run EXCEPT ![r] = n]
      BY <1>0, <1>9, <2>2, <3>2 DEF CheckRelaunch, HandoffInv, RunsOK, RunRecord
    <3>5. r \notin waited
      BY <3>1 DEF requireRunning, HandoffInv, Stuck
    <3>6. IsAsked(n.asked) /\ n.asked \in Nat
      BY <3>3 DEF HandoffInv, RunRecord
    <3>7. IsAnswered(n)
      <4> SUFFICES ASSUME ~n.hard PROVE IsAnswer(n.asked, n.doc)
        BY DEF IsAnswered
      <4>1. n.doc # NoDoc /\ n.doc = signalledHash
        BY <3>1, <3>3 DEF sameDocument
      <4>2. PICK j \in DOMAIN log : log[j] = n.doc /\ \A i \in DOMAIN log : log[i] = Asked => i < j
        BY <4>1, ReadyIsSignalled DEF HandoffInv
      <4>3. PICK i \in DOMAIN log : log[i] = Asked
        BY <4>1, ReadyIsSignalled DEF HandoffInv
      <4>4. CASE n.asked = 0
        BY <4>2, <4>3, <4>4 DEF IsAnswer, HandoffInv, RunsOK
      <4>5. CASE n.asked # 0
        BY <3>6, <4>2, <4>5 DEF IsAnswer, IsAsked
      <4> QED BY <4>4, <4>5
    <3>8. IsStill(n, window')
      BY <3>3 DEF IsStill
    <3> QED BY <1>0, <3>1, <3>3, <3>4, <3>5, <3>6, <3>7, <3>8, RunMoves
  <2> QED BY <2>1, <2>2
<1>10. CASE graphForRespawn(r)
  <2>1. CASE Stops(r, "failed")
    BY <1>0, <1>10, <2>1, StopKeeps DEF graphForRespawn
  <2>2. CASE ~Stops(r, "failed")
    <3>1. PICK index \in {-1, tree} : run' = [run EXCEPT ![r].at = "launches", ![r].index = index]
      BY <1>10, <2>2 DEF graphForRespawn
    <3>2. run[r].at = "verifies" /\ UNCHANGED <<sessionVars, file, log, tree, waited>>
      BY <1>10 DEF graphForRespawn
    <3>3. PICK n : n = [run[r] EXCEPT !.at = "launches", !.index = index]
      OBVIOUS
    <3>4. n \in RunRecord
      <4>1. index \in Int /\ "launches" \in RunPlace
        BY <1>0 DEF RunPlace
      <4> QED BY <1>0, <3>3, <4>1 DEF RunRecord
    <3>5. /\ n.at = "launches" /\ n.asked = run[r].asked /\ n.hard = run[r].hard /\ n.doc = run[r].doc
          /\ n.crossed = run[r].crossed /\ n.index = index
      BY <1>0, <3>3 DEF RunRecord
    <3>6. run' = [run EXCEPT ![r] = n]
      BY <1>0, <3>1, <3>3 DEF HandoffInv, RunsOK, RunRecord
    <3>7. IsAsked(run[r].asked) /\ IsAnswered(run[r]) /\ IsStill(run[r], window)
      BY DEF HandoffInv
    <3>8. IsAsked(n.asked) /\ IsAnswered(n)
      BY <3>2, <3>5, <3>7 DEF IsAnswered, Relaunching
    <3>9. IsStill(n, window')
      BY <3>1, <3>2, <3>5, <3>7 DEF IsStill
    <3>10. r \notin waited
      BY <3>2 DEF HandoffInv, Stuck, Waiting
    <3> QED BY <1>0, <3>2, <3>4, <3>6, <3>8, <3>9, <3>10, RunMoves
  <2> QED BY <2>1, <2>2
<1>11. CASE OpenSuccessor(r)
  <2>1. CASE Stops(r, "failed") /\ UNCHANGED <<window, opened>>
    BY <1>0, <1>11, <2>1, StopKeeps DEF OpenSuccessor
  <2>2. CASE ~(Stops(r, "failed") /\ UNCHANGED <<window, opened>>)
    <3>1. /\ run[r].at = "launches" /\ opened' = opened + 1 /\ window' = opened'
          /\ UNCHANGED <<row, rowPane, told, file, log, tree, waited>>
          /\ run' = [q \in Respawns |->
                        IF q = r THEN [run[r] EXCEPT !.at = "stores", !.pane = opened', !.index = -1,
                                                     !.crossed = FALSE]
                        ELSE [run[q] EXCEPT !.crossed = @ \/ run[q].at \in {"verifies", "launches"}]]
      BY <1>11, <2>2 DEF OpenSuccessor
    <3>2. ASSUME NEW q \in Respawns
          PROVE  /\ run'[q] \in RunRecord /\ run'[q].asked = run[q].asked /\ run'[q].doc = run[q].doc
                 /\ run'[q].hard = run[q].hard
                 /\ run'[q].at = IF q = r THEN "stores" ELSE run[q].at
                 /\ q # r /\ run[q].at \in {"verifies", "launches"} => run'[q].crossed
      <4>1. run[q] \in RunRecord
        BY DEF HandoffInv, RunsOK
      <4>2. CASE q = r
        <5>1. opened' \in Nat /\ -1 \in Int /\ "stores" \in RunPlace
          BY <1>0, <3>1 DEF RunPlace
        <5>2. run'[q] = [run[q] EXCEPT !.at = "stores", !.pane = opened', !.index = -1, !.crossed = FALSE]
          BY <3>1, <4>2
        <5> QED BY <4>1, <4>2, <5>1, <5>2 DEF RunRecord
      <4>3. CASE q # r
        <5>1. run'[q] = [run[q] EXCEPT !.crossed = @ \/ run[q].at \in {"verifies", "launches"}]
          BY <3>1, <4>3
        <5>2. PICK crossed \in BOOLEAN : crossed = (run[q].crossed \/ run[q].at \in {"verifies", "launches"})
          BY Zenon
        <5>3. run'[q] = [run[q] EXCEPT !.crossed = crossed]
          BY <5>1, <5>2, Zenon
        <5>4. run[q].at \in {"verifies", "launches"} => crossed
          BY <5>2
        <5> QED BY <4>1, <4>3, <5>3, <5>4 DEF RunRecord
      <4> QED BY <4>2, <4>3
    <3>3. RunsOK'
      BY <3>1, <3>2 DEF HandoffInv, RunsOK
    <3>4. Stuck'
      BY <3>1, <3>2 DEF HandoffInv, RunsOK, Stuck, Waiting
    <3>5. ASSUME NEW q \in Respawns
          PROVE  (IsAsked(run[q].asked) /\ IsAnswered(run[q]) /\ IsStill(run[q], window))'
      <4>1. IsAsked(run[q].asked) /\ IsAnswered(run[q])
        BY DEF HandoffInv
      <4>2. IsAsked(run[q].asked)'
        BY <3>1, <3>2, <4>1 DEF IsAsked
      <4>3. IsAnswered(run[q])'
        <5>1. run'[q].at \in {"kills"} \cup Relaunching => run[q].at \in {"kills"} \cup Relaunching
          BY <3>1, <3>2 DEF Relaunching
        <5> QED BY <3>1, <3>2, <4>1, <5>1 DEF IsAnswered, IsAnswer
      <4>4. IsStill(run[q], window)'
        <5>1. ~(run'[q].at \in {"verifies", "launches"} /\ ~run'[q].crossed)
          BY <3>2
        <5> QED BY <5>1 DEF IsStill
      <4> QED BY <4>2, <4>3, <4>4
    <3> QED BY <3>3, <3>4, <3>5 DEF HandoffInv
  <2> QED BY <2>1, <2>2
<1>12. CASE Kick(r)
  <2>1. CASE Stops(r, "failed")
    BY <1>0, <1>12, <2>1, StopKeeps DEF Kick
  <2>2. CASE ~Stops(r, "failed")
    <3>1. run' = [run EXCEPT ![r].at = "done", ![r].doc = run[r].doc, ![r].pane = 0]
      BY <1>12, <2>2 DEF Kick, handedOver
    <3>2. run[r].at = "kicks" /\ UNCHANGED <<sessionVars, file, log, tree, waited>>
      BY <1>12 DEF Kick
    <3>3. PICK n : n = [run[r] EXCEPT !.at = "done", !.doc = run[r].doc, !.pane = 0]
      OBVIOUS
    <3>4. n \in RunRecord /\ n.at = "done" /\ n.asked = run[r].asked /\ n.hard = run[r].hard /\ n.doc = run[r].doc
      BY <1>0, <3>3 DEF RunRecord, RunPlace
    <3>5. run' = [run EXCEPT ![r] = n]
      BY <1>0, <3>1, <3>3 DEF HandoffInv, RunsOK, RunRecord
    <3>6. IsAsked(run[r].asked) /\ IsAnswered(run[r])
      BY DEF HandoffInv
    <3>7. IsAsked(n.asked) /\ IsAnswered(n) /\ IsStill(n, window')
      BY <3>2, <3>4, <3>6 DEF IsAnswered, IsStill, Relaunching
    <3>8. r \notin waited
      BY <3>2 DEF HandoffInv, Stuck, Waiting
    <3> QED BY <1>0, <3>2, <3>4, <3>5, <3>7, <3>8, RunMoves
  <2> QED BY <2>1, <2>2
<1> QED BY <1>2, <1>3, <1>4, <1>5, <1>6, <1>7, <1>8, <1>9, <1>10, <1>11, <1>12 DEF RunStep

\* No step of a run, of the session or of anybody else breaks what the runs promise.
LEMMA HandoffKeeps ==
    ASSUME HandoffInv, HandoffNext
    PROVE  HandoffInv'
<1> USE DEF sessionVars
<1>1. CASE \E r \in Respawns : RunStep(r)
  BY <1>1, RunKeeps
<1>2. CASE \E r \in Respawns : RunDies(r)
  <2>1. PICK r \in Respawns : RunDies(r)
    BY <1>2
  <2> QED BY <2>1, StopKeeps DEF RunDies, HandoffInv, RunsOK
<1>3. CASE WriteHandoff
  <2>1. told' \in 0 .. MaxDocs /\ file' \in Documents
    BY <1>3, HandoffAssumption DEF WriteHandoff, HandoffInv, RunsOK, Documents, Doc, Forged
  <2>2. UNCHANGED <<row, rowPane, window, opened, log, tree, run, waited>>
    BY <1>3 DEF WriteHandoff
  <2> QED BY <2>1, <2>2 DEF HandoffInv, RunsOK, Stuck, IsAsked, IsAnswered, IsAnswer, IsStill
<1>4. CASE markHandoffReady
  <2>1. file \in Doc \cup {Asked} /\ log' = Append(log, file) /\ UNCHANGED <<sessionVars, file, tree, run, waited>>
    BY <1>4 DEF markHandoffReady, HandoffInv, RunsOK, Documents
  <2>2. /\ log' \in Seq(Doc \cup {Asked}) /\ \A i : IsAsked(i) => IsAsked(i)'
        /\ \A asks \in Nat : \A doc : IsAnswer(asks, doc) => IsAnswer(asks, doc)'
    BY <2>1, LogGrows
  <2>3. RunsOK' /\ Stuck'
    BY <2>1, <2>2 DEF HandoffInv, RunsOK, Stuck
  <2>4. ASSUME NEW q \in Respawns
        PROVE  (IsAsked(run[q].asked) /\ IsAnswered(run[q]) /\ IsStill(run[q], window))'
    <3>1. run'[q] = run[q] /\ run[q].asked \in Nat
      BY <2>1 DEF HandoffInv, RunsOK, RunRecord
    <3>2. IsAsked(run[q].asked) /\ IsAnswered(run[q]) /\ IsStill(run[q], window)
      BY DEF HandoffInv
    <3>3. IsAsked(run[q].asked)' /\ IsAnswered(run[q])'
      BY <2>2, <3>1, <3>2 DEF IsAnswered
    <3>4. IsStill(run[q], window)'
      BY <2>1, <3>1, <3>2 DEF IsStill
    <3> QED BY <3>3, <3>4
  <2> QED BY <2>3, <2>4 DEF HandoffInv
<1>5. CASE Replace
  <2>1. file' \in Documents
    BY <1>5, HandoffAssumption DEF Replace, HandoffInv, RunsOK, Documents, Doc, Forged
  <2>2. UNCHANGED <<sessionVars, log, tree, run, waited>>
    BY <1>5 DEF Replace
  <2> QED BY <2>1, <2>2 DEF HandoffInv, RunsOK, Stuck, IsAsked, IsAnswered, IsAnswer, IsStill
<1>6. CASE Work
  <2>1. window # 0 /\ tree' = tree + 1 /\ UNCHANGED <<sessionVars, file, log, run, waited>>
    BY <1>6 DEF Work
  <2> QED BY <2>1 DEF HandoffInv, RunsOK, Stuck, IsAsked, IsAnswered, IsAnswer, IsStill
<1>7. CASE Leave
  <2>1. /\ row' # "running" /\ window' \in {0, window} /\ opened' = opened
        /\ UNCHANGED <<told, file, log, tree, run>>
        /\ waited' \subseteq Respawns
        /\ \A r \in waited' : r \in waited \/ run[r].at \in Waiting
    BY <1>7 DEF Leave, HandoffInv, RunsOK
  <2>2. RunsOK' /\ Stuck'
    BY <2>1 DEF HandoffInv, RunsOK, Stuck
  <2> QED BY <2>1, <2>2 DEF HandoffInv, IsAsked, IsAnswered, IsAnswer, IsStill
<1> QED BY <1>1, <1>2, <1>3, <1>4, <1>5, <1>6, <1>7 DEF HandoffNext

\* What the runs promise is the window that the signal was for.
LEMMA HandoffInvSuffices ==
    ASSUME HandsOff => HandoffInv
    PROVE  WindowIsAsSignalled
<1> SUFFICES ASSUME HandsOff PROVE WindowIsAsSignalled
  BY DEF WindowIsAsSignalled, KickoffIsTheAnswer, GraphIsOfWhatItFinds, WaitingOpensNothing
<1>1. KickoffIsTheAnswer
  BY DEF KickoffIsTheAnswer, HandoffInv, IsAnswered, IsAnswer, Softly
<1>2. GraphIsOfWhatItFinds
  BY DEF GraphIsOfWhatItFinds, HandoffInv, IsStill
<1>3. WaitingOpensNothing
  BY DEF WaitingOpensNothing, HandoffInv, Stuck, Waiting, Relaunching
<1> QED BY <1>1, <1>2, <1>3 DEF WindowIsAsSignalled

\* A window that `pup respawn` or `pup kill --respawn` opens is the one the session
\* signalled for: its words, its worktree and a session that runs, however many
\* runs are under way and whoever swaps the document (session-handoff.service.ts).
THEOREM WindowIsAsSignalledHolds == Spec => []WindowIsAsSignalled
<1>1. Init => (HandsOff => HandoffInv)
  BY HandoffInvInit DEF Init, HandsOff
<1>2. ASSUME HandsOff => HandoffInv, [Next]_<<subject, given, partVars>>
      PROVE  (HandsOff => HandoffInv)'
  <2> SUFFICES ASSUME HandsOff' PROVE HandoffInv'
    OBVIOUS
  <2>1. HandsOff /\ HandoffInv
    BY <1>2 DEF HandsOff, Next
  <2>2. HandoffNext \/ UNCHANGED handoffVars
    BY <1>2, <2>1 DEF Next, HandsOff, partVars
  <2>3. CASE UNCHANGED handoffVars
    BY <2>1, <2>3
    DEF handoffVars, sessionVars, HandoffInv, RunsOK, Stuck, IsAsked, IsAnswered, IsAnswer, IsStill
  <2> QED BY <2>1, <2>2, <2>3, HandoffKeeps
<1>3. (HandsOff => HandoffInv) => WindowIsAsSignalled
  BY HandoffInvSuffices
<1> QED BY <1>1, <1>2, <1>3, PTL DEF Spec
-----------------------------------------------------------------------------
(* Conductor.                                                               *)

StartRecord == [at : StartPlace, graph : Nat, targetTip : Nat]

StartsOK ==
    /\ start \in [1 .. Starts -> StartRecord] /\ targetTip \in Nat /\ Starts \in Nat
    /\ conductorWindow \in [by : 0 .. Starts, graph : Nat, told : SUBSET (1 .. Starts)]
    /\ checkout \in [dir : {"absent", "half", "cut"}, at : Nat]
    /\ admin \in {"none", "kept", "locked"}

Alone == \A s, t \in 1 .. Starts : StartRuns(s) /\ StartRuns(t) => s = t

AfterCap == {"graph", "prune", "add", "cut", "index", "close", "open", "kickoff", "undo", "radar"}

\* How far a start that runs alone has come, with its cut, its cap and its window.
CutIsOwn(s) ==
    /\ start[s].at \in {"prune", "add"} => checkout.dir = "absent"
    /\ start[s].at = "add" => admin # "kept"
    /\ start[s].at \in {"cut", "index"} => checkout.at = start[s].targetTip
WindowIsOwn(s) ==
    /\ start[s].at \in AfterCap => capFile = s
    /\ start[s].at = "open" => conductorWindow = Closed
    /\ start[s].at = "kickoff" =>
          conductorWindow = Closed \/ (conductorWindow.by = s /\ conductorWindow.told = {})
    /\ start[s].at = "radar" =>
          conductorWindow = Closed \/ (conductorWindow.by = s /\ conductorWindow.told = {s})

\* Between two starts, the window that stands is whole.
WholeWindow ==
    Quiescent /\ conductorWindow # Closed =>
        conductorWindow.told = {conductorWindow.by} /\ capFile = conductorWindow.by

ConductorInv ==
    /\ StartsOK
    /\ ~beside => /\ Alone /\ \A s \in 1 .. Starts : CutIsOwn(s) /\ WindowIsOwn(s)
                  /\ ~killed => WholeWindow

LEMMA ConductorInvInit == ConductorInit => ConductorInv
<1> SUFFICES ASSUME ConductorInit PROVE ConductorInv
  OBVIOUS
<1> USE ConductorAssumption DEF ConductorInit, ConductorRests
<1>1. StartsOK
  BY DEF StartsOK, StartRecord, StartPlace, Closed
<1>2. \A s \in 1 .. Starts : start[s].at = "idle"
  OBVIOUS
<1> QED BY <1>1, <1>2 DEF ConductorInv, Alone, StartRuns, CutIsOwn, WindowIsOwn, AfterCap, WholeWindow

\* A start that goes on alone, with its cut, its cap and its window its own.
LEMMA StartMoves ==
    ASSUME ConductorInv, NEW s \in 1 .. Starts, NEW new \in StartRecord,
           start' = [start EXCEPT ![s] = new], StartsOK',
           ~beside' => ~beside /\ \A t \in 1 .. Starts : StartRuns(t) => t = s,
           ~beside' => (CutIsOwn(s) /\ WindowIsOwn(s))',
           ~beside' /\ ~killed' /\ new.at \in {"idle", "up", "refused", "dead"} => WholeWindow'
    PROVE  ConductorInv'
<1>1. \A t \in 1 .. Starts : start'[t] = IF t = s THEN new ELSE start[t]
  BY DEF ConductorInv, StartsOK
<1>2. SUFFICES ASSUME ~beside' PROVE (Alone /\ (\A t \in 1 .. Starts : CutIsOwn(t) /\ WindowIsOwn(t)) /\ (~killed => WholeWindow))'
  BY DEF ConductorInv
<1>3. Starts' = Starts
  OBVIOUS
<1>4. \A t \in 1 .. Starts : StartRuns(t)' => t = s
  BY <1>1, <1>2 DEF StartRuns
<1>5. Alone'
  BY <1>4 DEF Alone
<1>6. ASSUME NEW t \in 1 .. Starts, t # s PROVE (CutIsOwn(t) /\ WindowIsOwn(t))'
  <2>1. start'[t].at \in {"idle", "up", "refused", "dead"}
    BY <1>4, <1>6 DEF StartRuns
  <2> QED BY <2>1 DEF CutIsOwn, WindowIsOwn, AfterCap
<1>7. ASSUME ~killed' PROVE WholeWindow'
  <2>1. CASE Quiescent'
    <3>1. new.at \in {"idle", "up", "refused", "dead"}
      BY <1>1, <2>1 DEF Quiescent, StartRuns
    <3> QED BY <1>2, <1>7, <3>1
  <2>2. CASE ~Quiescent'
    BY <2>2 DEF WholeWindow
  <2> QED BY <2>1, <2>2
<1> QED BY <1>2, <1>5, <1>6, <1>7

\* A start goes on to a place, and takes what it had with it.
LEMMA GoesOn ==
    ASSUME ConductorInv, NEW s \in 1 .. Starts, NEW place \in StartPlace, StartGoes(s, place)
    PROVE  \E new \in StartRecord :
              /\ new.at = place /\ new.graph = start[s].graph /\ new.targetTip = start[s].targetTip
              /\ start' = [start EXCEPT ![s] = new] /\ start'[s] = new
              /\ start' \in [1 .. Starts -> StartRecord]
<1>1. start \in [1 .. Starts -> StartRecord] /\ start[s] \in StartRecord
  BY DEF ConductorInv, StartsOK
<1>2. PICK new : new = [start[s] EXCEPT !.at = place]
  OBVIOUS
<1>3. new \in StartRecord /\ new.at = place /\ new.graph = start[s].graph /\ new.targetTip = start[s].targetTip
  BY <1>1, <1>2 DEF StartRecord
<1>4. start' = [start EXCEPT ![s] = new]
  BY <1>2 DEF StartGoes
<1> QED BY <1>1, <1>3, <1>4

\* Nor does any step of a start that is under way break that.
LEMMA StartKeeps ==
    ASSUME ConductorInv, NEW s \in 1 .. Starts,
           \/ Compile(s) \/ WriteCap(s) \/ Refreshed(s) \/ Recut(s) \/ Prune(s)
           \/ AddRefused(s) \/ Add(s) \/ Cut(s) \/ Index(s) \/ Close(s) \/ OpenWindow(s)
           \/ Kickoff(s) \/ Undo(s) \/ Radar(s) \/ StartDies(s)
    PROVE  ConductorInv'
<1> DEFINE Single == \A t \in 1 .. Starts : StartRuns(t) => t = s
<1>1. StartsOK /\ start[s] \in StartRecord
  BY DEF ConductorInv, StartsOK
<1>2. ~beside /\ StartRuns(s) => Single
  BY DEF ConductorInv, Alone
<1>3. ~beside => CutIsOwn(s) /\ WindowIsOwn(s)
  BY DEF ConductorInv
<1>4. CASE Compile(s)
  <2>1. StartGoes(s, "cap") /\ "cap" \in StartPlace
    BY <1>4 DEF Compile, StartPlace
  <2>2. PICK new \in StartRecord :
           /\ new.at = "cap" /\ new.graph = start[s].graph /\ new.targetTip = start[s].targetTip
           /\ start' = [start EXCEPT ![s] = new] /\ start'[s] = new
           /\ start' \in [1 .. Starts -> StartRecord]
    BY <2>1, GoesOn
  <2>3. StartsOK'
    BY <1>1, <1>4, <2>2 DEF Compile, StartsOK
  <2>4. ~beside' => ~beside /\ Single
    BY <1>2, <1>4 DEF Compile, At, StartRuns
  <2>5. ~beside' => (CutIsOwn(s) /\ WindowIsOwn(s))'
    BY <1>3, <1>4, <2>2, <2>4 DEF Compile, At, CutIsOwn, WindowIsOwn, AfterCap
  <2>6. ~beside' /\ ~killed' /\ new.at \in {"idle", "up", "refused", "dead"} => WholeWindow'
    BY <2>2
  <2> QED BY <2>2, <2>3, <2>4, <2>5, <2>6, StartMoves
<1>5. CASE Prune(s)
  <2>1. StartGoes(s, "add") /\ "add" \in StartPlace
    BY <1>5 DEF Prune, StartPlace
  <2>2. PICK new \in StartRecord :
           /\ new.at = "add" /\ new.graph = start[s].graph /\ new.targetTip = start[s].targetTip
           /\ start' = [start EXCEPT ![s] = new] /\ start'[s] = new
           /\ start' \in [1 .. Starts -> StartRecord]
    BY <2>1, GoesOn
  <2>3. StartsOK'
    BY <1>1, <1>5, <2>2 DEF Prune, StartsOK
  <2>4. ~beside' => ~beside /\ Single
    BY <1>2, <1>5 DEF Prune, At, StartRuns
  <2>5. ~beside' => (CutIsOwn(s) /\ WindowIsOwn(s))'
    BY <1>3, <1>5, <2>2, <2>4 DEF Prune, At, CutIsOwn, WindowIsOwn, AfterCap
  <2>6. ~beside' /\ ~killed' /\ new.at \in {"idle", "up", "refused", "dead"} => WholeWindow'
    BY <2>2
  <2> QED BY <2>2, <2>3, <2>4, <2>5, <2>6, StartMoves
<1>6. CASE AddRefused(s)
  <2>1. StartGoes(s, "close") /\ "close" \in StartPlace
    BY <1>6 DEF AddRefused, StartPlace
  <2>2. PICK new \in StartRecord :
           /\ new.at = "close" /\ new.graph = start[s].graph /\ new.targetTip = start[s].targetTip
           /\ start' = [start EXCEPT ![s] = new] /\ start'[s] = new
           /\ start' \in [1 .. Starts -> StartRecord]
    BY <2>1, GoesOn
  <2>3. StartsOK'
    BY <1>1, <1>6, <2>2 DEF AddRefused, StartsOK
  <2>4. ~beside' => ~beside /\ Single
    BY <1>2, <1>6 DEF AddRefused, At, StartRuns
  <2>5. ~beside' => (CutIsOwn(s) /\ WindowIsOwn(s))'
    BY <1>3, <1>6, <2>2, <2>4 DEF AddRefused, At, CutIsOwn, WindowIsOwn, AfterCap
  <2>6. ~beside' /\ ~killed' /\ new.at \in {"idle", "up", "refused", "dead"} => WholeWindow'
    BY <2>2
  <2> QED BY <2>2, <2>3, <2>4, <2>5, <2>6, StartMoves
<1>7. CASE Add(s)
  <2>1. StartGoes(s, "cut") /\ "cut" \in StartPlace
    BY <1>7 DEF Add, StartPlace
  <2>2. PICK new \in StartRecord :
           /\ new.at = "cut" /\ new.graph = start[s].graph /\ new.targetTip = start[s].targetTip
           /\ start' = [start EXCEPT ![s] = new] /\ start'[s] = new
           /\ start' \in [1 .. Starts -> StartRecord]
    BY <2>1, GoesOn
  <2>3. StartsOK'
    BY <1>1, <1>7, <2>2 DEF Add, StartsOK, StartRecord
  <2>4. ~beside' => ~beside /\ Single
    BY <1>2, <1>7 DEF Add, At, StartRuns
  <2>5. ~beside' => (CutIsOwn(s) /\ WindowIsOwn(s))'
    BY <1>3, <1>7, <2>2, <2>4 DEF Add, At, CutIsOwn, WindowIsOwn, AfterCap
  <2>6. ~beside' /\ ~killed' /\ new.at \in {"idle", "up", "refused", "dead"} => WholeWindow'
    BY <2>2
  <2> QED BY <2>2, <2>3, <2>4, <2>5, <2>6, StartMoves
<1>8. CASE Close(s)
  <2>1. StartGoes(s, "open") /\ "open" \in StartPlace
    BY <1>8 DEF Close, StartPlace
  <2>2. PICK new \in StartRecord :
           /\ new.at = "open" /\ new.graph = start[s].graph /\ new.targetTip = start[s].targetTip
           /\ start' = [start EXCEPT ![s] = new] /\ start'[s] = new
           /\ start' \in [1 .. Starts -> StartRecord]
    BY <2>1, GoesOn
  <2>3. StartsOK'
    BY <1>1, <1>8, <2>2 DEF Close, StartsOK, Closed
  <2>4. ~beside' => ~beside /\ Single
    BY <1>2, <1>8 DEF Close, At, StartRuns
  <2>5. ~beside' => (CutIsOwn(s) /\ WindowIsOwn(s))'
    BY <1>3, <1>8, <2>2, <2>4 DEF Close, At, CutIsOwn, WindowIsOwn, AfterCap, Closed
  <2>6. ~beside' /\ ~killed' /\ new.at \in {"idle", "up", "refused", "dead"} => WholeWindow'
    BY <2>2
  <2> QED BY <2>2, <2>3, <2>4, <2>5, <2>6, StartMoves
<1>9. CASE OpenWindow(s)
  <2>1. Opened \in StartRecord /\ Opened.at = "kickoff"
    BY DEF Opened, StartRecord, StartPlace
  <2>2. PICK new \in StartRecord :
           /\ new.at = "kickoff"
           /\ start' = [start EXCEPT ![s] = new] /\ start'[s] = new
           /\ start' \in [1 .. Starts -> StartRecord]
    BY <1>1, <1>9, <2>1 DEF OpenWindow, StartsOK
  <2>3. StartsOK'
    BY <1>1, <1>9, <2>2 DEF OpenWindow, StartsOK, StartRecord
  <2>4. ~beside' => ~beside /\ Single
    BY <1>2, <1>9 DEF OpenWindow, At, StartRuns
  <2>5. ~beside' => (CutIsOwn(s) /\ WindowIsOwn(s))'
    BY <1>3, <1>9, <2>2, <2>4 DEF OpenWindow, At, CutIsOwn, WindowIsOwn, AfterCap, Closed
  <2>6. ~beside' /\ ~killed' /\ new.at \in {"idle", "up", "refused", "dead"} => WholeWindow'
    BY <2>2
  <2> QED BY <2>2, <2>3, <2>4, <2>5, <2>6, StartMoves
<1>10. CASE Undo(s)
  <2>1. StartGoes(s, "refused") /\ "refused" \in StartPlace
    BY <1>10 DEF Undo, StartPlace
  <2>2. PICK new \in StartRecord :
           /\ new.at = "refused" /\ new.graph = start[s].graph /\ new.targetTip = start[s].targetTip
           /\ start' = [start EXCEPT ![s] = new] /\ start'[s] = new
           /\ start' \in [1 .. Starts -> StartRecord]
    BY <2>1, GoesOn
  <2>3. StartsOK'
    BY <1>1, <1>10, <2>2 DEF Undo, StartsOK, RolledBack, Closed
  <2>4. ~beside' => ~beside /\ Single
    BY <1>2, <1>10 DEF Undo, At, StartRuns
  <2>5. ~beside' => (CutIsOwn(s) /\ WindowIsOwn(s))'
    BY <1>3, <1>10, <2>2, <2>4 DEF Undo, At, CutIsOwn, WindowIsOwn, AfterCap, RolledBack, Closed
  <2>6. ~beside' /\ ~killed' /\ new.at \in {"idle", "up", "refused", "dead"} => WholeWindow'
    BY <1>3, <1>10, <2>2, <2>4 DEF Undo, At, WindowIsOwn, AfterCap, WholeWindow, RolledBack, Closed
  <2> QED BY <2>2, <2>3, <2>4, <2>5, <2>6, StartMoves
<1>11. CASE Radar(s)
  <2>1. StartGoes(s, "up") /\ "up" \in StartPlace
    BY <1>11 DEF Radar, StartPlace
  <2>2. PICK new \in StartRecord :
           /\ new.at = "up" /\ new.graph = start[s].graph /\ new.targetTip = start[s].targetTip
           /\ start' = [start EXCEPT ![s] = new] /\ start'[s] = new
           /\ start' \in [1 .. Starts -> StartRecord]
    BY <2>1, GoesOn
  <2>3. StartsOK'
    BY <1>1, <1>11, <2>2 DEF Radar, StartsOK
  <2>4. ~beside' => ~beside /\ Single
    BY <1>2, <1>11 DEF Radar, At, StartRuns
  <2>5. ~beside' => (CutIsOwn(s) /\ WindowIsOwn(s))'
    BY <1>3, <1>11, <2>2, <2>4 DEF Radar, At, CutIsOwn, WindowIsOwn, AfterCap
  <2>6. ~beside' /\ ~killed' /\ new.at \in {"idle", "up", "refused", "dead"} => WholeWindow'
    BY <1>3, <1>11, <2>2, <2>4 DEF Radar, At, WindowIsOwn, AfterCap, WholeWindow
  <2> QED BY <2>2, <2>3, <2>4, <2>5, <2>6, StartMoves
<1>12. CASE StartDies(s)
  <2>1. StartGoes(s, "dead") /\ "dead" \in StartPlace
    BY <1>12 DEF StartDies, StartPlace
  <2>2. PICK new \in StartRecord :
           /\ new.at = "dead" /\ new.graph = start[s].graph /\ new.targetTip = start[s].targetTip
           /\ start' = [start EXCEPT ![s] = new] /\ start'[s] = new
           /\ start' \in [1 .. Starts -> StartRecord]
    BY <2>1, GoesOn
  <2>3. StartsOK'
    BY <1>1, <1>12, <2>2 DEF StartDies, StartsOK
  <2>4. ~beside' => ~beside /\ Single
    BY <1>2, <1>12 DEF StartDies, At, StartRuns
  <2>5. ~beside' => (CutIsOwn(s) /\ WindowIsOwn(s))'
    BY <1>3, <1>12, <2>2, <2>4 DEF StartDies, At, CutIsOwn, WindowIsOwn, AfterCap
  <2>6. ~beside' /\ ~killed' /\ new.at \in {"idle", "up", "refused", "dead"} => WholeWindow'
    BY <1>3, <1>12, <2>2, <2>4 DEF StartDies, At, WindowIsOwn, AfterCap, WholeWindow
  <2> QED BY <2>2, <2>3, <2>4, <2>5, <2>6, StartMoves
<1>13. CASE WriteCap(s)
  <2>0. PICK place \in codegraphBinary : StartGoes(s, place)
    BY <1>13 DEF WriteCap
  <2>1. place \in StartPlace /\ place \in {"graph", "close"}
    BY DEF StartPlace, codegraphBinary
  <2>2. PICK new \in StartRecord :
           /\ new.at = place /\ new.graph = start[s].graph /\ new.targetTip = start[s].targetTip
           /\ start' = [start EXCEPT ![s] = new] /\ start'[s] = new
           /\ start' \in [1 .. Starts -> StartRecord]
    BY <2>0, <2>1, GoesOn
  <2>3. StartsOK'
    BY <1>1, <1>13, <2>2 DEF WriteCap, StartsOK, StartRecord
  <2>4. ~beside' => ~beside /\ Single
    BY <1>2, <1>13 DEF WriteCap, At, StartRuns
  <2>5. ~beside' => (CutIsOwn(s) /\ WindowIsOwn(s))'
    BY <1>3, <1>13, <2>1, <2>2, <2>4 DEF WriteCap, At, CutIsOwn, WindowIsOwn, AfterCap, CapWritten
  <2> QED BY <2>1, <2>2, <2>3, <2>4, <2>5, StartMoves
<1>14. CASE Refreshed(s)
  <2>1. PICK new : new = [at |-> "index", graph |-> 0, targetTip |-> targetTip]
    OBVIOUS
  <2>2. /\ new \in StartRecord /\ new.at = "index" /\ new.targetTip = targetTip
      /\ start' = [start EXCEPT ![s] = new] /\ start'[s] = new
      /\ start' \in [1 .. Starts -> StartRecord]
    BY <1>1, <1>14, <2>1 DEF Refreshed, StartsOK, StartRecord, StartPlace
  <2>3. StartsOK'
    BY <1>1, <1>14, <2>2 DEF Refreshed, StartsOK, StartRecord, Detached
  <2>4. ~beside' => ~beside /\ Single
    BY <1>2, <1>14 DEF Refreshed, At, StartRuns
  <2>5. ~beside' => (CutIsOwn(s) /\ WindowIsOwn(s))'
    BY <1>3, <1>14, <2>2, <2>4 DEF Refreshed, At, CutIsOwn, WindowIsOwn, AfterCap, Detached
  <2> QED BY <2>2, <2>3, <2>4, <2>5, StartMoves
<1>15. CASE Recut(s)
  <2>1. PICK new : new = [at |-> "prune", graph |-> 0, targetTip |-> targetTip]
    OBVIOUS
  <2>2. /\ new \in StartRecord /\ new.at = "prune" /\ new.targetTip = targetTip
      /\ start' = [start EXCEPT ![s] = new] /\ start'[s] = new
      /\ start' \in [1 .. Starts -> StartRecord]
    BY <1>1, <1>15, <2>1 DEF Recut, StartsOK, StartRecord, StartPlace
  <2>3. StartsOK'
    BY <1>1, <1>15, <2>2 DEF Recut, StartsOK, StartRecord, Dropped
  <2>4. ~beside' => ~beside /\ Single
    BY <1>2, <1>15 DEF Recut, At, StartRuns
  <2>5. ~beside' => (CutIsOwn(s) /\ WindowIsOwn(s))'
    BY <1>3, <1>15, <2>2, <2>4 DEF Recut, At, CutIsOwn, WindowIsOwn, AfterCap, Dropped
  <2> QED BY <2>2, <2>3, <2>4, <2>5, StartMoves
<1>16. CASE Index(s)
  <2>0. PICK graph \in {0, checkout.at} :
           start' = [start EXCEPT ![s] = [at |-> "close", graph |-> graph, targetTip |-> start[s].targetTip]]
    BY <1>1, <1>16 DEF Index, StartsOK
  <2>1. PICK new : new = [at |-> "close", graph |-> graph, targetTip |-> start[s].targetTip]
    OBVIOUS
  <2>2. /\ new \in StartRecord /\ new.at = "close" /\ new.targetTip = start[s].targetTip
        /\ start' = [start EXCEPT ![s] = new] /\ start'[s] = new
        /\ start' \in [1 .. Starts -> StartRecord]
    <3>1. graph \in Nat
      BY <1>1 DEF StartsOK
    <3> QED BY <1>1, <2>0, <2>1, <3>1 DEF StartsOK, StartRecord, StartPlace
  <2>3. StartsOK'
    BY <1>1, <1>16, <2>2 DEF Index, StartsOK, StartRecord
  <2>4. ~beside' => ~beside /\ Single
    BY <1>2, <1>16 DEF Index, At, StartRuns
  <2>5. ~beside' => (CutIsOwn(s) /\ WindowIsOwn(s))'
    BY <1>3, <1>16, <2>2, <2>4 DEF Index, At, CutIsOwn, WindowIsOwn, AfterCap
  <2> QED BY <2>2, <2>3, <2>4, <2>5, StartMoves
<1>17. CASE Cut(s) /\ admin = "locked"
  <2>1. admin = "locked" /\ admin' = "kept" /\ UNCHANGED <<checkout, start>> /\ start[s].at = "cut"
    BY <1>17 DEF Cut, At, StartGoes
  <2>2. UNCHANGED <<targetTip, conductorWindow, capFile, killed, beside>>
    BY <1>17 DEF Cut
  <2>3. ~beside => \A t \in 1 .. Starts : t # s => ~StartRuns(t)
    BY <1>2, <2>1 DEF StartRuns
  <2>4. ASSUME ~beside, NEW t \in 1 .. Starts PROVE CutIsOwn(t)'
    BY <1>3, <2>1, <2>3, <2>4 DEF CutIsOwn, StartRuns
  <2> QED BY <2>1, <2>2, <2>4
          DEF ConductorInv, StartsOK, Alone, StartRuns, WindowIsOwn, WholeWindow, Quiescent
<1>18. CASE Cut(s) /\ admin = "kept"
  <2>1. StartGoes(s, "index") /\ "index" \in StartPlace
    BY <1>18 DEF Cut, StartPlace, codegraphBinary
  <2>2. PICK new \in StartRecord :
           /\ new.at = "index" /\ new.graph = start[s].graph /\ new.targetTip = start[s].targetTip
           /\ start' = [start EXCEPT ![s] = new] /\ start'[s] = new
           /\ start' \in [1 .. Starts -> StartRecord]
    BY <2>1, GoesOn
  <2>3. StartsOK'
    BY <1>1, <1>18, <2>2 DEF Cut, StartsOK, StartRecord
  <2>4. ~beside' => ~beside /\ Single
    BY <1>2, <1>18 DEF Cut, At, StartRuns
  <2>5. ~beside' => (CutIsOwn(s) /\ WindowIsOwn(s))'
    <3>1. /\ start[s].at = "cut" /\ start'[s].at = "index" /\ start'[s].targetTip = start[s].targetTip
          /\ checkout'.at = checkout.at /\ UNCHANGED <<capFile, conductorWindow>>
      BY <1>1, <1>18, <2>2 DEF Cut, At, StartsOK
    <3> QED BY <1>3, <2>4, <3>1 DEF CutIsOwn, WindowIsOwn, AfterCap
  <2> QED BY <2>2, <2>3, <2>4, <2>5, StartMoves
<1>19. CASE /\ Kickoff(s) /\ StartGoes(s, "radar")
            /\ conductorWindow' = [conductorWindow EXCEPT !.told = @ \cup {s}]
  <2>1. StartGoes(s, "radar") /\ "radar" \in StartPlace
    BY <1>19 DEF Kickoff, StartPlace, codegraphBinary
  <2>2. PICK new \in StartRecord :
           /\ new.at = "radar" /\ new.graph = start[s].graph /\ new.targetTip = start[s].targetTip
           /\ start' = [start EXCEPT ![s] = new] /\ start'[s] = new
           /\ start' \in [1 .. Starts -> StartRecord]
    BY <2>1, GoesOn
  <2>3. StartsOK'
    BY <1>1, <1>19, <2>2 DEF Kickoff, StartsOK, StartRecord, Closed
  <2>4. ~beside' => ~beside /\ Single
    BY <1>2, <1>19 DEF Kickoff, At, StartRuns
  <2>5. ~beside' => (CutIsOwn(s) /\ WindowIsOwn(s))'
    BY <1>3, <1>19, <2>2, <2>4 DEF Kickoff, At, CutIsOwn, WindowIsOwn, AfterCap, Closed
  <2> QED BY <2>2, <2>3, <2>4, <2>5, StartMoves
<1>20. CASE Kickoff(s) /\ StartGoes(s, "undo")
  <2>1. StartGoes(s, "undo") /\ "undo" \in StartPlace
    BY <1>20 DEF Kickoff, StartPlace, codegraphBinary
  <2>2. PICK new \in StartRecord :
           /\ new.at = "undo" /\ new.graph = start[s].graph /\ new.targetTip = start[s].targetTip
           /\ start' = [start EXCEPT ![s] = new] /\ start'[s] = new
           /\ start' \in [1 .. Starts -> StartRecord]
    BY <2>1, GoesOn
  <2>3. StartsOK'
    BY <1>1, <1>20, <2>2, SMTT(30) DEF Kickoff, StartsOK, StartRecord, Closed
  <2>4. ~beside' => ~beside /\ Single
    BY <1>2, <1>20 DEF Kickoff, At, StartRuns
  <2>5. ~beside' => (CutIsOwn(s) /\ WindowIsOwn(s))'
    BY <1>3, <1>20, <2>2, <2>4 DEF Kickoff, At, CutIsOwn, WindowIsOwn, AfterCap, Closed
  <2> QED BY <2>2, <2>3, <2>4, <2>5, StartMoves
<1>21. /\ Cut(s) => admin = "locked" \/ admin = "kept"
       /\ Kickoff(s) => \/ StartGoes(s, "radar") /\ conductorWindow' = [conductorWindow EXCEPT !.told = @ \cup {s}]
                        \/ StartGoes(s, "undo")
  BY DEF Cut, Kickoff
<1> QED BY <1>4, <1>5, <1>6, <1>7, <1>8, <1>9, <1>10, <1>11, <1>12, <1>13, <1>14, <1>15, <1>16, <1>17,
           <1>18, <1>19, <1>20, <1>21

\* Nor does a stop, a cleared directory or the time that passes.
LEMMA ConductorKeeps ==
    ASSUME ConductorInv, ConductorNext
    PROVE  ConductorInv'
<1>1. CASE Stop
  <2>1. conductorWindow' = Closed /\ UNCHANGED <<targetTip, checkout, admin, capFile, start, killed, beside>>
    BY <1>1 DEF Stop
  <2>2. StartsOK'
    BY <2>1 DEF ConductorInv, StartsOK, Closed
  <2>3. WholeWindow'
    BY <2>1 DEF WholeWindow
  <2>4. ASSUME NEW s \in 1 .. Starts, CutIsOwn(s), WindowIsOwn(s) PROVE (CutIsOwn(s) /\ WindowIsOwn(s))'
    <3>1. CutIsOwn(s)'
      BY <2>1, <2>4 DEF CutIsOwn
    <3>2. conductorWindow' = Closed /\ start'[s].at = start[s].at /\ capFile' = capFile
      BY <2>1
    <3>3. start[s].at \in AfterCap => capFile = s
      BY <2>4 DEF WindowIsOwn
    <3>4. /\ start'[s].at \in AfterCap => capFile' = s
          /\ start'[s].at = "open" => conductorWindow' = Closed
          /\ start'[s].at = "kickoff" => conductorWindow' = Closed
          /\ start'[s].at = "radar" => conductorWindow' = Closed
      BY <3>2, <3>3
    <3> QED BY <3>1, <3>4 DEF WindowIsOwn
  <2>5. Alone => Alone'
    BY <2>1 DEF Alone, StartRuns
  <2> QED BY <2>1, <2>2, <2>3, <2>4, <2>5 DEF ConductorInv
<1>2. CASE Clear
  <2>1. /\ checkout' = [dir |-> "absent", at |-> 0]
        /\ UNCHANGED <<targetTip, admin, capFile, conductorWindow, start, killed, beside>>
        /\ \A s \in 1 .. Starts : ~StartRuns(s)
    BY <1>2 DEF Clear
  <2>2. StartsOK'
    BY <2>1 DEF ConductorInv, StartsOK
  <2>3. \A s \in 1 .. Starts : CutIsOwn(s)'
    BY <2>1 DEF StartRuns, CutIsOwn
  <2> QED BY <2>1, <2>2, <2>3
          DEF ConductorInv, Alone, StartRuns, WindowIsOwn, WholeWindow, Quiescent
<1>3. CASE MergeMovesTip \/ RadarSteps
  <2>1. /\ targetTip' \in {targetTip, targetTip + 1}
        /\ UNCHANGED <<checkout, admin, capFile, conductorWindow, start, killed, beside>>
    BY <1>3 DEF MergeMovesTip, RadarSteps, ScanOverlaps, Watches, RadarEnds, IntervalPasses
  <2> QED BY <2>1 DEF ConductorInv, StartsOK, Alone, StartRuns, CutIsOwn, WindowIsOwn, WholeWindow, Quiescent
<1> QED BY <1>1, <1>2, <1>3, StartKeeps DEF ConductorNext

LEMMA ConductorRestKeeps ==
    ASSUME ConductorInv, UNCHANGED conductorVars
    PROVE  ConductorInv'
  BY DEF conductorVars, ConductorInv, StartsOK, Alone, StartRuns, CutIsOwn, WindowIsOwn, WholeWindow, Quiescent

\* No radar that ran, and no scan, is older than the newest beat; so a start that finds
\* the beat fresh and starts none has one, or one gone no longer than a beat stands.
BeatStands == {radarBeat, radarGone} \subseteq 0 .. Stale /\ radarGone <= radarBeat

LEMMA BeatStandsInit == ASSUME ConductorInit PROVE BeatStands
BY ConductorAssumption DEF ConductorInit, ConductorRests, BeatStands, Stale

LEMMA BeatStandsKept ==
    ASSUME BeatStands, ConductorNext \/ UNCHANGED conductorVars
    PROVE  /\ BeatStands'
           /\ \A t \in 1 .. Starts : Radar(t) => radarUp' \/ radarGone <= StaleSweeps
<1>1. /\ StaleSweeps \in Nat /\ radarGone <= radarBeat
      /\ radarBeat \in 0 .. StaleSweeps + 1 /\ radarGone \in 0 .. StaleSweeps + 1
  BY ConductorAssumption DEF BeatStands, Stale
<1> SUFFICES /\ radarBeat' \in 0 .. StaleSweeps + 1 /\ radarGone' \in 0 .. StaleSweeps + 1
             /\ radarGone' <= radarBeat'
             /\ \A t \in 1 .. Starts : Radar(t) => radarUp' \/ radarGone <= StaleSweeps
  BY DEF BeatStands, Stale
<1>2. ASSUME NEW t \in 1 .. Starts, Radar(t)
      PROVE  /\ radarBeat' \in 0 .. StaleSweeps + 1 /\ radarGone' \in 0 .. StaleSweeps + 1
             /\ radarGone' <= radarBeat' /\ (radarUp' \/ radarGone <= StaleSweeps)
  <2>1. radarBeat' = radarBeat /\ radarGone' \in {0, radarGone} /\ (radarUp' \/ radarBeat <= StaleSweeps)
    BY <1>2 DEF Radar, Sweeping
  <2> QED BY <1>1, <2>1
<1>3. ASSUME RadarSteps
      PROVE  /\ radarBeat' \in 0 .. StaleSweeps + 1 /\ radarGone' \in 0 .. StaleSweeps + 1
             /\ radarGone' <= radarBeat'
  <2>1. CASE ScanOverlaps \/ Watches \/ RadarEnds
    BY <1>1, <2>1 DEF ScanOverlaps, Watches, RadarEnds
  <2>2. CASE IntervalPasses
    BY <1>1, <2>2 DEF IntervalPasses, Stale
  <2> QED BY <1>3, <2>1, <2>2 DEF RadarSteps
<1>4. ASSUME UNCHANGED radarVars
      PROVE  radarBeat' = radarBeat /\ radarGone' = radarGone
  BY <1>4 DEF radarVars
<1>5. ASSUME NEW t \in 1 .. Starts,
             \/ Compile(t) \/ WriteCap(t) \/ Refreshed(t) \/ Recut(t) \/ Prune(t) \/ AddRefused(t)
             \/ Add(t) \/ Cut(t) \/ Index(t) \/ Close(t) \/ OpenWindow(t) \/ Kickoff(t) \/ Undo(t)
             \/ StartDies(t)
      PROVE  UNCHANGED radarVars
  BY <1>5 DEF Compile, WriteCap, Refreshed, Recut, Prune, AddRefused, Add, Cut, Index, Close, OpenWindow,
              Kickoff, Undo, StartDies
<1>6. ASSUME Stop \/ Clear \/ MergeMovesTip \/ UNCHANGED conductorVars
      PROVE  UNCHANGED radarVars
  BY <1>6 DEF Stop, Clear, MergeMovesTip, conductorVars
<1>7. CASE UNCHANGED radarVars
  <2>1. \A t \in 1 .. Starts : Radar(t) => radarUp' \/ radarGone <= StaleSweeps
    BY <1>2
  <2> QED BY <1>1, <1>4, <1>7, <2>1
<1>8. CASE RadarSteps
  <2>1. \A t \in 1 .. Starts : Radar(t) => radarUp' \/ radarGone <= StaleSweeps
    BY <1>2
  <2> QED BY <1>3, <1>8, <2>1
<1>9. CASE \E t \in 1 .. Starts : Radar(t)
  BY <1>2, <1>9
<1> QED BY <1>5, <1>6, <1>7, <1>8, <1>9 DEF ConductorNext

\* A step of a start changes the graph of no other, takes up none but its target's,
\* gives up on one only over a lock, and is up only by its last one.
LEMMA StartStepIsWhole ==
    ASSUME ConductorInv, ConductorNext, NEW s \in 1 .. Starts
    PROVE  /\ ~beside /\ start'[s].graph # start[s].graph => start'[s].graph \in {0, start[s].targetTip}
           /\ ~beside /\ start[s].at = "add" /\ start'[s].at = "close" => admin = "locked"
           /\ start[s].at = "radar" /\ start'[s].at = "up" => Radar(s)
<1>1. start \in [1 .. Starts -> StartRecord] /\ start[s] \in StartRecord
  BY DEF ConductorInv, StartsOK
<1>2. ~beside => CutIsOwn(s)
  BY DEF ConductorInv
<1>3. CASE UNCHANGED start
  BY <1>3
<1>4. ASSUME NEW t \in 1 .. Starts, NEW place \in StartPlace, StartGoes(t, place)
      PROVE  start'[s].graph = start[s].graph /\ start'[s].at = IF s = t THEN place ELSE start[s].at
  BY <1>1, <1>4 DEF StartGoes, StartRecord
<1>5. ASSUME NEW t \in 1 .. Starts,
             \/ Compile(t) \/ WriteCap(t) \/ Prune(t) \/ Add(t)
             \/ Close(t) \/ Kickoff(t) \/ Undo(t) \/ StartDies(t)
      PROVE  \E place \in StartPlace \ {"up"} : StartGoes(t, place) /\ ~(At(t, "add") /\ place = "close")
  BY <1>5
  DEF Compile, WriteCap, codegraphBinary, Prune, Add, Close, Kickoff, Undo, StartDies, At, StartPlace
<1>6. ASSUME NEW t \in 1 .. Starts, AddRefused(t)
      PROVE  /\ StartGoes(t, "close") /\ "close" \in StartPlace
             /\ ~beside => admin = "locked" \/ s # t
  BY <1>2, <1>6 DEF AddRefused, At, StartPlace, CutIsOwn, ConductorInv, StartsOK
<1>7. ASSUME NEW t \in 1 .. Starts, Radar(t)
      PROVE  StartGoes(t, "up") /\ "up" \in StartPlace
  BY <1>7 DEF Radar, StartPlace
<1>8. ASSUME NEW t \in 1 .. Starts, Refreshed(t) \/ Recut(t) \/ Index(t) \/ OpenWindow(t)
      PROVE  /\ ~beside /\ start'[s].graph # start[s].graph => start'[s].graph \in {0, start[s].targetTip}
             /\ start'[s].at # start[s].at => start[s].at \notin {"add", "radar"}
  <2>1. CASE Refreshed(t) \/ Recut(t)
    <3>1. start[t].at = "graph" /\ \E place \in StartPlace :
             start' = [start EXCEPT ![t] = [at |-> place, graph |-> 0, targetTip |-> targetTip]]
      BY <2>1, Zenon DEF Refreshed, Recut, At, StartPlace
    <3> QED BY <1>1, <3>1
  <2>2. CASE Index(t)
    <3>1. PICK graph \in {0, checkout.at} :
             start' = [start EXCEPT ![t] = [at |-> "close", graph |-> graph, targetTip |-> start[t].targetTip]]
      BY <1>1, <2>2 DEF Index
    <3>2. start[t].at = "index" /\ (s = t /\ ~beside => checkout.at = start[s].targetTip)
      BY <1>2, <2>2 DEF Index, At, CutIsOwn
    <3> QED BY <1>1, <3>1, <3>2
  <2>3. CASE OpenWindow(t)
    <3>1. start[t].at = "open" /\ start' = [start EXCEPT ![t] = Opened] /\ Opened.graph = 0
      BY <2>3 DEF OpenWindow, At, Opened
    <3> QED BY <1>1, <3>1
  <2> QED BY <1>8, <2>1, <2>2, <2>3
<1>9. ASSUME NEW t \in 1 .. Starts, Cut(t)
      PROVE  UNCHANGED start \/ (StartGoes(t, "index") /\ At(t, "cut"))
  BY <1>9 DEF Cut
<1>10. CASE Stop \/ Clear \/ MergeMovesTip \/ RadarSteps
  BY <1>3, <1>10 DEF Stop, Clear, MergeMovesTip, RadarSteps, ScanOverlaps, Watches, RadarEnds, IntervalPasses
<1>11. CASE \E t \in 1 .. Starts :
              \/ Compile(t) \/ WriteCap(t) \/ Prune(t) \/ Add(t)
              \/ Close(t) \/ Kickoff(t) \/ Undo(t) \/ StartDies(t)
  <2>1. PICK t \in 1 .. Starts, place \in StartPlace \ {"up"} :
           StartGoes(t, place) /\ ~(At(t, "add") /\ place = "close")
    BY <1>5, <1>11
  <2>2. start'[s].graph = start[s].graph /\ start'[s].at = IF s = t THEN place ELSE start[s].at
    BY <1>4, <2>1
  <2> QED BY <2>1, <2>2 DEF At
<1>12. CASE \E t \in 1 .. Starts : AddRefused(t) \/ Radar(t) \/ Cut(t)
  <2>1. PICK t \in 1 .. Starts : AddRefused(t) \/ Radar(t) \/ Cut(t)
    BY <1>12
  <2>2. CASE AddRefused(t)
    <3>1. start'[s].graph = start[s].graph /\ start'[s].at = IF s = t THEN "close" ELSE start[s].at
      BY <1>4, <1>6, <2>2
    <3> QED BY <1>6, <2>2, <3>1
  <2>3. CASE Radar(t)
    <3>1. start'[s].graph = start[s].graph /\ start'[s].at = IF s = t THEN "up" ELSE start[s].at
      BY <1>4, <1>7, <2>3
    <3> QED BY <1>7, <2>3, <3>1
  <2>4. CASE Cut(t)
    <3>1. CASE StartGoes(t, "index") /\ At(t, "cut")
      <4>1. start'[s].graph = start[s].graph /\ start'[s].at = IF s = t THEN "index" ELSE start[s].at
        BY <1>4, <3>1 DEF StartPlace
      <4> QED BY <4>1
    <3> QED BY <1>3, <1>9, <2>4, <3>1
  <2> QED BY <2>1, <2>2, <2>3, <2>4
<1>13. CASE \E t \in 1 .. Starts : Refreshed(t) \/ Recut(t) \/ Index(t) \/ OpenWindow(t)
  BY <1>8, <1>13
<1> QED BY <1>10, <1>11, <1>12, <1>13, <1>3 DEF ConductorNext

\* However the starts, stops and rollbacks before it ended, a start that runs alone
\* leaves a conductor that was told what it is held to, over a graph of the target,
\* with a radar beside it, or one gone for less than its beat stands
\* (startConductor).
THEOREM StartIsWholeHolds == Spec => StartIsWhole
<1>1. Init => (Conducts => ConductorInv /\ BeatStands)
  BY ConductorInvInit, BeatStandsInit DEF Init, Conducts
<1>2. (Conducts => ConductorInv /\ BeatStands) /\ [Next]_<<subject, given, partVars>>
          => (Conducts => ConductorInv /\ BeatStands)'
  <2> SUFFICES ASSUME Conducts => ConductorInv /\ BeatStands, [Next]_<<subject, given, partVars>>, Conducts'
               PROVE  (ConductorInv /\ BeatStands)'
    OBVIOUS
  <2>1. Conducts /\ ConductorInv /\ BeatStands
    BY DEF Conducts, Next
  <2>2. ConductorNext \/ UNCHANGED conductorVars
    BY <2>1 DEF Next, Conducts, partVars
  <2> QED BY <2>1, <2>2, ConductorKeeps, ConductorRestKeeps, BeatStandsKept
<1>3. (Conducts => ConductorInv /\ BeatStands)' => (NoUntoldConductor' /\ CapIsAsTold')
  <2> SUFFICES ASSUME (Conducts => ConductorInv /\ BeatStands)' PROVE NoUntoldConductor' /\ CapIsAsTold'
    OBVIOUS
  <2> QED BY DEF ConductorInv, WholeWindow, NoUntoldConductor, CapIsAsTold
<1>4. ASSUME Conducts => ConductorInv /\ BeatStands, [Next]_<<subject, given, partVars>>
      PROVE  /\ [(Conducts /\ ~beside) => \A s \in 1 .. Starts :
                    start'[s].graph # start[s].graph => start'[s].graph \in {0, start[s].targetTip}]_conductorVars
             /\ [\A s \in 1 .. Starts :
                    (Conducts /\ ~beside /\ start[s].at = "add" /\ start'[s].at = "close")
                    => admin = "locked"]_conductorVars
             /\ [\A s \in 1 .. Starts :
                    (Conducts /\ start[s].at = "radar" /\ start'[s].at = "up") =>
                        radarUp' \/ radarGone <= StaleSweeps]_conductorVars
  <2>1. CASE Conducts
    <3>1. ConductorNext \/ UNCHANGED conductorVars
      BY <1>4, <2>1 DEF Next, Conducts, partVars
    <3>2. CASE ConductorNext
      <4>1. \A s \in 1 .. Starts : Radar(s) => radarUp' \/ radarGone <= StaleSweeps
        BY <1>4, <2>1, <3>2, BeatStandsKept
      <4> QED BY <1>4, <2>1, <3>2, <4>1, StartStepIsWhole
    <3> QED BY <3>1, <3>2
  <2> QED BY <2>1
<1>5. Spec => [](Conducts => ConductorInv /\ BeatStands)
  BY <1>1, <1>2, PTL DEF Spec
<1>6. Spec => [][NoUntoldConductor' /\ CapIsAsTold']_conductorVars
  BY <1>2, <1>3, <1>5, PTL DEF Spec
<1>7. Spec => GraphIsOfTheTip /\ OnlyALockIsFinal /\ StartedWithARadar
  BY <1>4, <1>5, PTL DEF Spec, GraphIsOfTheTip, OnlyALockIsFinal, StartedWithARadar
<1> QED BY <1>6, <1>7 DEF StartIsWhole
-----------------------------------------------------------------------------
(* Baseline.                                                                *)

DebtRecord == [dead : SUBSET Export, dup : Int]
BarRecord == [dead : SUBSET Export, hasDead : BOOLEAN, dup : Int, rule : BOOLEAN, gaps : SUBSET Adapter]

\* A bar that was read is the bar, but that the rule it was counted by may have gone.
IsStillBar(old) ==
    /\ old.dead = bar.dead /\ old.hasDead = bar.hasDead /\ old.dup = bar.dup /\ old.gaps = bar.gaps
    /\ bar.rule => old.rule

\* A measurement lacks only what an adapter that did not run would have found.
IsMeasured(found, debt) ==
    found.dead \subseteq debt.dead /\ \A e \in debt.dead \ found.dead : Owner[e] \in found.gaps

BarsOK ==
    /\ main \in DebtRecord /\ works \subseteq Adapter /\ bar \in BarRecord /\ known \subseteq Export
    /\ gate.on => /\ gate.bar \in BarRecord /\ gate.found \in BarRecord /\ gate.branch \in DebtRecord
                  /\ gate.dupRose <=> DupRose(gate.bar, gate.found)
                  /\ IsMeasured(gate.found, gate.branch)
    /\ audit.on => /\ audit.previous \in BarRecord /\ audit.found \in BarRecord
                   /\ audit.by \in {"operator", "land"}

\* Until a gate and an audit meet, each still has the bar it read.
AloneOK ==
    /\ known \subseteq bar.dead
    /\ gate.on => ~audit.on /\ IsStillBar(gate.bar) /\ gate.fresh \cap known = {}
    /\ audit.on => /\ IsStillBar(audit.previous) /\ (audit.previous = NoBar => bar = NoBar)
                   /\ IsMeasured(audit.found, main)

BaselineInv == BarsOK /\ (~raced => AloneOK)

LEMMA MeasuredIs ==
    ASSUME NEW debt \in DebtRecord, works \subseteq Adapter
    PROVE  /\ Measured(debt) \in BarRecord /\ IsMeasured(Measured(debt), debt)
           /\ Measured(debt).gaps = {} => Measured(debt).dead = debt.dead
<1>1. debt.dead \subseteq Export /\ debt.dup \in Int
  BY DEF DebtRecord
<1>2. \A e \in Export : Owner[e] \in Adapter
  BY DEF Export, Owner, Adapter
<1>3. Measured(debt) \in BarRecord
  BY <1>1 DEF Measured, BarRecord
<1>4. IsMeasured(Measured(debt), debt)
  BY <1>1, <1>2 DEF Measured, IsMeasured
<1>5. Measured(debt).gaps = {} => Measured(debt).dead = debt.dead
  BY <1>1, <1>4 DEF IsMeasured
<1> QED BY <1>3, <1>4, <1>5

LEMMA BaselineInvInit == BaselineInit => BaselineInv
  BY DEF BaselineInit, BaselineStart, BaselineInv, BarsOK, AloneOK, DebtRecord, BarRecord, NoBar, NoGate, NoAudit

LEMMA InitProjectKeeps == BaselineInv /\ ~raced /\ InitProject => BaselineInv'
<1> SUFFICES ASSUME BaselineInv, ~raced, InitProject PROVE BaselineInv'
  OBVIOUS
<1>1. bar' \in BarRecord /\ known' = bar'.dead
  BY MeasuredIs DEF BaselineInv, BarsOK, InitProject
<1>2. known' \subseteq Export
  BY <1>1 DEF BarRecord
<1>3. BarsOK'
  BY <1>1, <1>2 DEF BaselineInv, BarsOK, InitProject, IsMeasured, DupRose, comparableRule
<1>4. ~raced' => AloneOK'
  BY <1>1 DEF InitProject, AloneOK
<1> QED BY <1>3, <1>4 DEF BaselineInv

LEMMA GateDebtKeeps == BaselineInv /\ ~raced /\ GateDebt => BaselineInv'
<1> SUFFICES ASSUME BaselineInv, ~raced, GateDebt PROVE BaselineInv'
  OBVIOUS
<1>1. UNCHANGED <<main, works, bar, audit, known, upsets>> /\ raced' = (raced \/ audit.on)
  BY DEF GateDebt
<1>2. PICK branch \in Debt :
        gate' = [on |-> TRUE, branch |-> branch, bar |-> bar, found |-> Measured(branch),
                 fresh |-> Fresh(bar, Measured(branch)), dupRose |-> DupRose(bar, Measured(branch))]
  BY DEF GateDebt
<1>3. branch \in DebtRecord
  BY BaselineAssumption DEF Debt, DebtRecord
<1>4. PICK found \in BarRecord : found = Measured(branch) /\ IsMeasured(found, branch)
  BY <1>3, MeasuredIs DEF BaselineInv, BarsOK
<1>5. /\ gate'.branch = branch /\ gate'.bar = bar /\ gate'.found = found /\ gate'.on
      /\ gate'.fresh = Fresh(bar, found) /\ gate'.dupRose = DupRose(bar, found)
  BY <1>2, <1>4
<1>6. BarsOK'
  BY <1>1, <1>3, <1>4, <1>5 DEF BaselineInv, BarsOK, IsMeasured, DupRose, comparableRule
<1>7. gate'.fresh \cap known = {}
  BY <1>5 DEF Fresh, BaselineInv, AloneOK
<1>8. ~raced' => AloneOK'
  BY <1>1, <1>5, <1>7 DEF BaselineInv, AloneOK, IsStillBar
<1> QED BY <1>6, <1>8 DEF BaselineInv

LEMMA RatchetedIs ==
    ASSUME NEW old \in BarRecord, NEW found \in BarRecord
    PROVE  /\ Ratcheted(old, found) \in BarRecord
           /\ Ratcheted(old, found).dead = IF RatchetsDead(found) THEN found.dead ELSE old.dead
           /\ Ratcheted(old, found).dup = IF RatchetsDup(old) THEN found.dup ELSE old.dup
  BY DEF Ratcheted, BarRecord

LEMMA MergeKeepsBar == BaselineInv /\ ~raced /\ Merge => BaselineInv'
<1> SUFFICES ASSUME BaselineInv, ~raced, Merge PROVE BaselineInv'
  OBVIOUS
<1>1. /\ gate.on /\ gate' = NoGate /\ main' = gate.branch /\ UNCHANGED <<works, audit, raced, upsets>>
      /\ known' = (known \cup bar'.dead) \cap gate.branch.dead
  BY DEF Merge
<1>2. /\ gate.bar \in BarRecord /\ gate.found \in BarRecord /\ gate.branch \in DebtRecord
      /\ IsMeasured(gate.found, gate.branch) /\ ~audit.on /\ IsStillBar(gate.bar)
      /\ known \subseteq bar.dead /\ bar \in BarRecord /\ works \subseteq Adapter
  BY <1>1 DEF BaselineInv, BarsOK, AloneOK
<1>3. bar' = bar \/ bar' = Ratcheted(gate.bar, gate.found)
  BY DEF Merge
<1>4. bar' \in BarRecord
  BY <1>2, <1>3, RatchetedIs
<1>5. known' \subseteq bar'.dead
  <2>1. CASE bar' = bar
    BY <1>1, <1>2, <2>1
  <2>2. CASE bar' = Ratcheted(gate.bar, gate.found)
    <3>1. CASE RatchetsDead(gate.found)
      <4>1. gate.found.dead = gate.branch.dead
        BY <1>2, <3>1 DEF RatchetsDead, IsMeasured
      <4> QED BY <1>1, <1>2, <2>2, <3>1, <4>1, RatchetedIs
    <3>2. CASE ~RatchetsDead(gate.found)
      BY <1>1, <1>2, <2>2, <3>2, RatchetedIs DEF IsStillBar
    <3> QED BY <3>1, <3>2
  <2> QED BY <1>3, <2>1, <2>2
<1>6. known' \subseteq Export
  BY <1>4, <1>5 DEF BarRecord
<1>7. ~gate'.on /\ ~audit'.on
  BY <1>1, <1>2 DEF NoGate
<1>8. BarsOK'
  BY <1>1, <1>2, <1>4, <1>6, <1>7 DEF BarsOK
<1>9. AloneOK'
  BY <1>5, <1>7 DEF AloneOK
<1> QED BY <1>8, <1>9 DEF BaselineInv

LEMMA GateEndsKeeps == BaselineInv /\ GateEnds => BaselineInv'
  BY DEF BaselineInv, GateEnds, NoGate, BarsOK, AloneOK, IsStillBar, IsMeasured

LEMMA AuditKeeps ==
    ASSUME BaselineInv, ~raced, NEW who \in {"operator", "land"}, Audit(who)
    PROVE  BaselineInv'
<1>1. UNCHANGED <<main, works, bar, gate, known, upsets>> /\ raced' = (raced \/ gate.on)
  BY DEF Audit
<1>2. PICK found \in BarRecord : found = Measured(main) /\ IsMeasured(found, main)
  BY MeasuredIs DEF BaselineInv, BarsOK
<1>3. audit'.on /\ audit'.by = who /\ audit'.previous = bar /\ audit'.found = found
  BY <1>2 DEF Audit
<1>4. BarsOK'
  BY <1>1, <1>2, <1>3 DEF BaselineInv, BarsOK, IsMeasured, DupRose, comparableRule
<1>5. ~raced' => AloneOK'
  BY <1>1, <1>2, <1>3 DEF BaselineInv, AloneOK, IsStillBar, IsMeasured
<1> QED BY <1>4, <1>5 DEF BaselineInv

LEMMA AuditEndsKeeps == BaselineInv /\ ~raced /\ AuditEnds => BaselineInv'
<1> SUFFICES ASSUME BaselineInv, ~raced, AuditEnds PROVE BaselineInv'
  OBVIOUS
<1>1. /\ audit.on /\ audit' = NoAudit /\ UNCHANGED <<main, works, gate, raced, upsets>>
      /\ known' = ((known \cup bar'.dead) \cap main.dead)
                      \ {e \in Export : e \notin bar'.dead /\ Owner[e] \in bar.gaps}
  BY DEF AuditEnds
<1>2. /\ audit.previous \in BarRecord /\ audit.found \in BarRecord /\ IsStillBar(audit.previous)
      /\ (audit.previous = NoBar => bar = NoBar) /\ IsMeasured(audit.found, main) /\ ~gate.on
      /\ known \subseteq bar.dead /\ bar \in BarRecord /\ main \in DebtRecord /\ works \subseteq Adapter
  BY <1>1 DEF BaselineInv, BarsOK, AloneOK
<1>3. bar' = bar \/ (bar' = audit.found /\ NewGaps(audit.previous, audit.found) = {})
  BY DEF AuditEnds
<1>4. bar' \in BarRecord
  BY <1>2, <1>3
<1>5. known' \subseteq bar'.dead
  <2>1. CASE bar' = bar
    BY <1>1, <1>2, <2>1
  <2>2. CASE bar' = audit.found /\ NewGaps(audit.previous, audit.found) = {}
    <3>1. audit.found.gaps \subseteq bar.gaps
      <4>1. CASE audit.previous = NoBar
        BY <1>2, <4>1 DEF NoBar, BarRecord
      <4>2. CASE audit.previous # NoBar
        BY <1>2, <2>2, <4>2 DEF NewGaps, IsStillBar
      <4> QED BY <4>1, <4>2
    <3>2. main.dead \subseteq Export
      BY <1>2 DEF DebtRecord
    <3>3. \A e \in main.dead \ bar'.dead : Owner[e] \in bar.gaps
      BY <1>2, <2>2, <3>1 DEF IsMeasured
    <3> QED BY <1>1, <3>2, <3>3
  <2> QED BY <1>3, <2>1, <2>2
<1>6. known' \subseteq Export
  BY <1>4, <1>5 DEF BarRecord
<1>7. ~gate'.on /\ ~audit'.on
  BY <1>1, <1>2 DEF NoAudit
<1>8. BarsOK'
  BY <1>1, <1>2, <1>4, <1>6, <1>7 DEF BarsOK
<1>9. AloneOK'
  BY <1>5, <1>7 DEF AloneOK
<1> QED BY <1>8, <1>9 DEF BaselineInv

LEMMA UpsetKeeps == BaselineInv /\ Upset => BaselineInv'
<1> SUFFICES ASSUME BaselineInv, Upset PROVE BaselineInv'
  OBVIOUS
<1>1. UNCHANGED <<main, gate, audit, known, raced>>
  BY DEF Upset
<1>2. works' \subseteq Adapter
  BY DEF Upset, BaselineInv, BarsOK, SymDiff, Adapter
<1>3. /\ bar' \in BarRecord /\ bar'.dead = bar.dead /\ bar'.hasDead = bar.hasDead /\ bar'.dup = bar.dup
      /\ bar'.gaps = bar.gaps /\ (bar'.rule => bar.rule)
  BY DEF Upset, BaselineInv, BarsOK, BarRecord
<1>4. bar' = bar \/ bar # NoBar
  BY DEF Upset
<1>5. BarsOK'
  BY <1>1, <1>2, <1>3 DEF BaselineInv, BarsOK, IsMeasured, DupRose, comparableRule
<1>6. ~raced => AloneOK'
  BY <1>1, <1>3, <1>4 DEF BaselineInv, AloneOK, IsStillBar, IsMeasured
<1> QED BY <1>1, <1>5, <1>6 DEF BaselineInv

\* A step of Baseline keeps the invariant, and raises the bar only told.
LEMMA BaselineKeeps ==
    ASSUME BaselineInv, BaselineNext
    PROVE  BaselineInv'
  BY InitProjectKeeps, GateDebtKeeps, MergeKeepsBar, GateEndsKeeps, AuditKeeps, AuditEndsKeeps, UpsetKeeps
  DEF BaselineNext

Rises ==
    bar # NoBar /\ bar'.dup > bar.dup =>
          \/ raced
          \/ gate.on /\ ~gate'.on /\ gate.dupRose
          \/ audit.on /\ ~audit'.on /\ (audit.by = "operator" \/ ~bar.rule)
          \/ UNCHANGED <<gate, audit>>

LEMMA RisesTold == ASSUME BaselineInv, BaselineNext PROVE Rises
<1> SUFFICES ASSUME bar # NoBar, bar'.dup > bar.dup, ~raced PROVE Rises
  BY DEF Rises
<1>1. AloneOK /\ BarsOK
  BY DEF BaselineInv
<1>2. CASE InitProject \/ Upset
  BY <1>2 DEF Rises, InitProject, Upset
<1>3. CASE GateDebt \/ GateEnds \/ \E who \in {"operator", "land"} : Audit(who)
  <2>1. bar' = bar
    BY <1>3 DEF GateDebt, GateEnds, Audit
  <2>2. bar.dup \in Int
    BY <1>1 DEF BarsOK, BarRecord
  <2> QED BY <2>1, <2>2
<1>4. CASE Merge
  <2>1. /\ gate.on /\ ~gate'.on /\ gate.bar \in BarRecord /\ gate.found \in BarRecord /\ IsStillBar(gate.bar)
        /\ gate.dupRose <=> DupRose(gate.bar, gate.found)
        /\ bar \in BarRecord
    BY <1>1, <1>4 DEF AloneOK, BarsOK, Merge, NoGate
  <2>2. bar.dup \in Int /\ gate.bar.dup = bar.dup
    BY <2>1 DEF BarRecord, IsStillBar
  <2>3. gate.bar # NoBar /\ bar' = Ratcheted(gate.bar, gate.found)
    BY <1>4, <2>2 DEF Merge
  <2>4. bar'.dup = IF RatchetsDup(gate.bar) THEN gate.found.dup ELSE gate.bar.dup
    BY <2>1, <2>3, RatchetedIs
  <2>5. RatchetsDup(gate.bar) /\ gate.found.dup > gate.bar.dup
    BY <2>2, <2>4
  <2>6. DupRose(gate.bar, gate.found)
    BY <2>3, <2>5 DEF RatchetsDup, DupRose
  <2> QED BY <2>1, <2>6 DEF Rises
<1>5. CASE AuditEnds
  <2>1. /\ audit.on /\ ~audit'.on /\ audit.previous \in BarRecord /\ IsStillBar(audit.previous)
        /\ (audit.previous = NoBar => bar = NoBar) /\ bar \in BarRecord
        /\ audit.by \in {"operator", "land"}
    BY <1>1, <1>5 DEF AloneOK, BarsOK, AuditEnds, NoAudit
  <2>2. bar.dup \in Int /\ audit.previous.dup = bar.dup /\ audit.previous # NoBar
    BY <2>1 DEF BarRecord, IsStillBar
  <2>3. bar' = audit.found /\ ~held(audit.by, audit.previous, audit.found)
    BY <1>5, <2>2 DEF AuditEnds
  <2>4. ASSUME audit.by = "land" PROVE ~bar.rule
    <3>1. ~Regressed(audit.previous, audit.found)
      BY <2>3, <2>4 DEF held
    <3>2. audit.found.dup > audit.previous.dup
      BY <2>2, <2>3
    <3>3. ~comparableRule(audit.previous)
      BY <2>2, <3>1, <3>2 DEF Regressed
    <3> QED BY <2>1, <3>3 DEF comparableRule, IsStillBar
  <2> QED BY <2>1, <2>4 DEF Rises
<1> QED BY <1>2, <1>3, <1>4, <1>5 DEF BaselineNext

\* For any debt and any tools that come and go: what the bar knew is flagged on
\* nobody again, and it rises only where somebody was told (judgeDeadCode,
\* judgeDuplication, judgeAudit).
THEOREM DebtIsJudgedOnceHolds == Spec => DebtIsJudgedOnce
<1> DEFINE Inv == Barred => BaselineInv
<1>1. Init => Inv
  BY BaselineInvInit DEF Init, Barred
<1>2. ASSUME Inv, [Next]_<<subject, given, partVars>>
      PROVE  Inv' /\ [Barred /\ bar # NoBar /\ bar'.dup > bar.dup =>
                        \/ raced
                        \/ gate.on /\ ~gate'.on /\ gate.dupRose
                        \/ audit.on /\ ~audit'.on /\ (audit.by = "operator" \/ ~bar.rule)
                        \/ UNCHANGED <<gate, audit>>]_<<subject, given, baselineVars>>
  <2>1. CASE Barred
    <3>1. subject' = subject /\ given' = given /\ (BaselineNext \/ UNCHANGED baselineVars)
      BY <1>2, <2>1 DEF Next, Barred, partVars
    <3>2. BaselineInv
      BY <1>2, <2>1
    <3>3. CASE BaselineNext
      BY <3>2, <3>3, BaselineKeeps, RisesTold DEF Rises
    <3>4. CASE UNCHANGED baselineVars
      <4>1. UNCHANGED <<main, works, bar, gate, audit, known, raced, upsets>>
        BY <3>4 DEF baselineVars
      <4>2. BaselineInv'
        BY <3>2, <4>1 DEF BaselineInv, BarsOK, AloneOK, IsStillBar, IsMeasured, DupRose, comparableRule
      <4> QED BY <3>1, <3>4, <4>2
    <3> QED BY <3>1, <3>3, <3>4
  <2>2. CASE ~Barred
    BY <1>2, <2>2 DEF Next, Barred, partVars
  <2> QED BY <2>1, <2>2
<1>3. Inv => KnownIsNotFlaggedAgain
  BY DEF KnownIsNotFlaggedAgain, BaselineInv, AloneOK
<1> HIDE DEF Inv
<1> QED BY <1>1, <1>2, <1>3, PTL DEF Spec, DebtIsJudgedOnce, BarRisesOnlyTold
-----------------------------------------------------------------------------
(* Routing.                                                                 *)

Tried == {"rejected", "turn_died"}

\* The events of the window that is up, or was last.
Mine == sinceOpened(events, ofRounds(events))
Met(kinds) == \E i \in Mine : events[i] \in kinds

\* A round begins with its own respawn; one that was undone is followed by
\* another round's, by the time its session runs again.
RoundsOK ==
    /\ \A i \in DOMAIN events : events[i] = "fix_round" => i + 1 \in respawns(events)
    /\ state # "merged" =>
          \A i \in respawns(events) \ ofRounds(events) : \E j \in ofRounds(events) : i < j

\* The log says what happened: to the window, unless a command was cut between
\* its route and its event, and to the rounds.
RoutingInv ==
    /\ RoutingTypeOK /\ RoundsOK
    /\ roundRan <=> roundOpened(events)
    /\ repeats <=> roundRepeated(events)
    /\ ~torn => hit = IF Met({"blocked"}) THEN "block" ELSE IF Met(Tried) THEN "failure" ELSE "nothing"

\* Which respawn begins a round.
IsOpening(l, i) == i \in respawns(l) /\ i - 1 \in DOMAIN l /\ l[i - 1] = "fix_round"

\* A log whose rounds each begin with a respawn.
Paired(l) == l \in Seq(EventType) /\ \A i \in DOMAIN l : l[i] = "fix_round" => i + 1 \in respawns(l)

LEMMA OpeningIsNext ==
    ASSUME NEW l, Paired(l), NEW i \in DOMAIN l
    PROVE  opensRound(l, i) <=> IsOpening(l, i)
<1>1. Len(l) \in Nat /\ DOMAIN l = 1 .. Len(l) /\ i \in 1 .. Len(l)
  BY DEF Paired
<1>2. ASSUME opensRound(l, i) PROVE IsOpening(l, i)
  <2>1. PICK j \in 1 .. i - 1 : /\ l[j] = "fix_round"
                                /\ \A k \in j + 1 .. i - 1 : l[k] \notin {"respawn", "undelivered", "merge"}
    BY <1>2 DEF opensRound
  <2>5. j \in DOMAIN l
    BY <1>1, <2>1
  <2>2. j \in Int /\ l[j + 1] \in {"respawn", "undelivered"}
    BY <1>1, <2>1, <2>5 DEF Paired, respawns
  <2>3. j + 1 \notin j + 1 .. i - 1
    BY <2>1, <2>2
  <2>4. j = i - 1
    BY <1>1, <2>1, <2>3
  <2> QED BY <1>1, <1>2, <2>1, <2>5, <2>4 DEF opensRound, IsOpening
<1>3. ASSUME IsOpening(l, i) PROVE opensRound(l, i)
  <2>1. i - 1 \in 1 .. i - 1 /\ \A k \in (i - 1) + 1 .. i - 1 : FALSE
    BY <1>1, <1>3 DEF IsOpening
  <2> QED BY <1>3, <2>1 DEF opensRound, IsOpening
<1> QED BY <1>2, <1>3

\* What a longer log adds, in whatever its new events are.
LEMMA LongerLog ==
    ASSUME NEW l, Paired(l), NEW new \in Seq(EventType), Paired(l \o new)
    PROVE  /\ Len(l) \in Nat /\ Len(new) \in Nat
           /\ DOMAIN l = 1 .. Len(l) /\ DOMAIN (l \o new) = 1 .. Len(l) + Len(new)
           /\ \A i \in 1 .. Len(l) : (l \o new)[i] = l[i]
           /\ \A i \in 1 .. Len(new) : (l \o new)[Len(l) + i] = new[i]
           /\ \A i \in 1 .. Len(l) : /\ i \in respawns(l \o new) <=> i \in respawns(l)
                                     /\ opensRound(l \o new, i) <=> opensRound(l, i)
                                     /\ i \in ofRounds(l \o new) <=> i \in ofRounds(l)
                                     /\ ranRound(l \o new, i) <=> ranRound(l, i)
<1>1. /\ Len(l) \in Nat /\ Len(new) \in Nat
      /\ DOMAIN l = 1 .. Len(l) /\ DOMAIN (l \o new) = 1 .. Len(l) + Len(new)
      /\ \A i \in 1 .. Len(l) : (l \o new)[i] = l[i]
      /\ \A i \in 1 .. Len(new) : (l \o new)[Len(l) + i] = new[i]
  <2>1. l \in Seq(EventType)
    BY DEF Paired
  <2> QED BY <2>1
<1>2. \A i \in 1 .. Len(l) : i \in DOMAIN (l \o new)
  BY <1>1
<1>3. \A i \in 1 .. Len(l) : i \in respawns(l \o new) <=> i \in respawns(l)
  BY <1>1, <1>2 DEF respawns
<1>4. \A i \in 1 .. Len(l) : IsOpening(l \o new, i) <=> IsOpening(l, i)
  <2> SUFFICES ASSUME NEW i \in 1 .. Len(l) PROVE IsOpening(l \o new, i) <=> IsOpening(l, i)
    OBVIOUS
  <2>1. i - 1 \in DOMAIN (l \o new) <=> i - 1 \in DOMAIN l
    BY <1>1
  <2>2. i - 1 \in DOMAIN l => (l \o new)[i - 1] = l[i - 1]
    BY <1>1
  <2> QED BY <1>3, <2>1, <2>2 DEF IsOpening
<1>5. \A i \in 1 .. Len(l) : opensRound(l \o new, i) <=> opensRound(l, i)
  BY <1>1, <1>2, <1>4, OpeningIsNext
<1>6. \A i \in 1 .. Len(l) : /\ i \in ofRounds(l \o new) <=> i \in ofRounds(l)
                             /\ ranRound(l \o new, i) <=> ranRound(l, i)
  BY <1>1, <1>3, <1>5 DEF ofRounds, ranRound
<1> QED BY <1>1, <1>3, <1>5, <1>6

\* With no window opened in what is new, it is all of the window that is up.
LEMMA MineGrows ==
    ASSUME NEW l, Paired(l), NEW new \in Seq(EventType), Paired(l \o new),
           \A i \in 1 .. Len(new) : Len(l) + i \notin ofRounds(l \o new)
    PROVE  sinceOpened(l \o new, ofRounds(l \o new)) =
              sinceOpened(l, ofRounds(l)) \cup {Len(l) + i : i \in 1 .. Len(new)}
<1> DEFINE all == l \o new
           n == Len(l)
           k == Len(new)
<1>1. /\ n \in Nat /\ k \in Nat /\ DOMAIN l = 1 .. n /\ DOMAIN all = 1 .. n + k
      /\ \A i \in 1 .. n : i \in ofRounds(all) <=> i \in ofRounds(l)
  BY LongerLog
<1>2. ofRounds(l) \subseteq 1 .. n /\ ofRounds(all) \subseteq 1 .. n + k
  BY <1>1 DEF ofRounds, respawns
<1>3. \A i \in ofRounds(all) : i \in 1 .. n
  <2> SUFFICES ASSUME NEW i \in ofRounds(all), i \notin 1 .. n PROVE FALSE
    OBVIOUS
  <2>1. i - n \in 1 .. k /\ n + (i - n) = i
    BY <1>1, <1>2
  <2> QED BY <2>1
<1>4. ofRounds(all) = ofRounds(l)
  BY <1>1, <1>2, <1>3
<1> HIDE DEF all, n, k
<1>5. ASSUME NEW i \in sinceOpened(all, ofRounds(all))
      PROVE  i \in sinceOpened(l, ofRounds(l)) \cup {n + c : c \in 1 .. k}
  <2>1. i \in 1 .. n + k /\ \A j \in ofRounds(l) : j < i
    BY <1>1, <1>4 DEF sinceOpened
  <2>2. CASE i \in 1 .. n
    BY <1>1, <2>1, <2>2 DEF sinceOpened
  <2>3. CASE i \notin 1 .. n
    <3>1. i - n \in 1 .. k /\ n + (i - n) = i
      BY <1>1, <2>1, <2>3
    <3> QED BY <3>1
  <2> QED BY <2>2, <2>3
<1>6. ASSUME NEW i \in sinceOpened(l, ofRounds(l)) PROVE i \in sinceOpened(all, ofRounds(all))
  <2>1. i \in 1 .. n /\ \A j \in ofRounds(l) : j < i
    BY <1>1 DEF sinceOpened
  <2>2. i \in 1 .. n + k
    BY <1>1, <2>1
  <2> QED BY <1>1, <1>4, <2>1, <2>2 DEF sinceOpened
<1>7. ASSUME NEW c \in 1 .. k PROVE n + c \in sinceOpened(all, ofRounds(all))
  <2>1. n + c \in 1 .. n + k /\ \A j \in 1 .. n : j < n + c
    BY <1>1
  <2> QED BY <1>1, <1>2, <1>4, <2>1 DEF sinceOpened
<1>8. sinceOpened(all, ofRounds(all)) = sinceOpened(l, ofRounds(l)) \cup {n + c : c \in 1 .. k}
  BY <1>5, <1>6, <1>7
<1> QED BY <1>8 DEF all, n, k

\* A window opened by the last event has met nothing yet.
LEMMA MineEnds ==
    ASSUME NEW l \in Seq(EventType), Len(l) \in ofRounds(l)
    PROVE  sinceOpened(l, ofRounds(l)) = {}
<1>1. Len(l) \in Nat /\ DOMAIN l = 1 .. Len(l)
  OBVIOUS
<1>2. \A i \in 1 .. Len(l) : ~(Len(l) < i)
  BY <1>1
<1> QED BY <1>1, <1>2 DEF sinceOpened

\* With no round's window and no merge in what is new, the rounds are as they were.
LEMMA RoundsStay ==
    ASSUME NEW l, Paired(l), NEW new \in Seq(EventType), Paired(l \o new),
           \A i \in 1 .. Len(new) : ~ranRound(l \o new, Len(l) + i) /\ new[i] # "merge"
    PROVE  /\ roundOpened(l \o new) <=> roundOpened(l)
           /\ roundRepeated(l \o new) <=> roundRepeated(l)
<1> DEFINE all == l \o new
           n == Len(l)
           k == Len(new)
<1>1. /\ n \in Nat /\ k \in Nat /\ DOMAIN l = 1 .. n /\ DOMAIN all = 1 .. n + k
      /\ \A i \in 1 .. n : all[i] = l[i]
      /\ \A i \in 1 .. k : all[n + i] = new[i]
      /\ \A i \in 1 .. n : ranRound(all, i) <=> ranRound(l, i)
  BY LongerLog
<1>2. \A i \in 1 .. k : ~ranRound(all, n + i) /\ all[n + i] # "merge"
  BY <1>1
<1> HIDE DEF all, n, k
<1>3. ASSUME NEW i \in 1 .. n + k, i \notin 1 .. n PROVE ~ranRound(all, i) /\ all[i] # "merge"
  <2>1. i - n \in 1 .. k /\ n + (i - n) = i
    BY <1>1, <1>3
  <2> QED BY <1>2, <2>1
<1>4. 1 .. n \subseteq 1 .. n + k
  BY <1>1
<1>5. roundOpened(all) <=> roundOpened(l)
  BY <1>1, <1>3, <1>4 DEF roundOpened
<1>6. roundRepeated(all) <=> roundRepeated(l)
  BY <1>1, <1>3, <1>4 DEF roundRepeated
<1> QED BY <1>5, <1>6 DEF all

\* What adds no round leaves the pairing.
LEMMA StaysPaired ==
    ASSUME NEW l, Paired(l), NEW new \in Seq(EventType),
           \A i \in 1 .. Len(new) : new[i] = "fix_round" => i < Len(new) /\ new[i + 1] \in {"respawn", "undelivered"}
    PROVE  Paired(l \o new)
<1> DEFINE all == l \o new
           n == Len(l)
           k == Len(new)
<1>1. /\ n \in Nat /\ k \in Nat /\ DOMAIN l = 1 .. n /\ DOMAIN all = 1 .. n + k
      /\ \A i \in 1 .. n : all[i] = l[i]
      /\ \A i \in 1 .. k : all[n + i] = new[i]
      /\ all \in Seq(EventType)
  <2>1. l \in Seq(EventType)
    BY DEF Paired
  <2> QED BY <2>1
<1>2. \A i \in 1 .. k : all[n + i] = "fix_round" => i + 1 \in 1 .. k /\ all[n + (i + 1)] \in {"respawn", "undelivered"}
  <2> SUFFICES ASSUME NEW i \in 1 .. k, all[n + i] = "fix_round"
               PROVE  i + 1 \in 1 .. k /\ all[n + (i + 1)] \in {"respawn", "undelivered"}
    OBVIOUS
  <2>1. i < k /\ new[i + 1] \in {"respawn", "undelivered"}
    BY <1>1
  <2>2. i + 1 \in 1 .. k
    BY <1>1, <2>1
  <2> QED BY <1>1, <2>1, <2>2
<1> HIDE DEF all, n, k
<1>3. ASSUME NEW i \in 1 .. n + k, all[i] = "fix_round" PROVE i + 1 \in respawns(all)
  <2>1. CASE i \in 1 .. n
    <3>1. i + 1 \in respawns(l)
      BY <1>1, <1>3, <2>1 DEF Paired
    <3>2. i + 1 \in 1 .. n /\ l[i + 1] \in {"respawn", "undelivered"}
      BY <1>1, <3>1 DEF respawns
    <3>3. i + 1 \in 1 .. n + k
      BY <1>1, <3>2
    <3> QED BY <1>1, <3>2, <3>3 DEF respawns
  <2>2. CASE i \notin 1 .. n
    <3>1. i - n \in 1 .. k /\ n + (i - n) = i /\ n + ((i - n) + 1) = i + 1
      BY <1>1, <1>3, <2>2
    <3>2. (i - n) + 1 \in 1 .. k /\ all[n + ((i - n) + 1)] \in {"respawn", "undelivered"}
      BY <1>2, <1>3, <3>1
    <3>3. i + 1 \in 1 .. n + k /\ all[i + 1] \in {"respawn", "undelivered"}
      BY <1>1, <3>1, <3>2
    <3> QED BY <1>1, <3>3 DEF respawns
  <2> QED BY <2>1, <2>2
<1>4. Paired(all)
  BY <1>1, <1>3 DEF Paired
<1> QED BY <1>4 DEF all

\* What a log says of the window and of the rounds, against what is remembered.
TellsHit(l, what) ==
    LET mine == sinceOpened(l, ofRounds(l))
    IN what = IF \E i \in mine : l[i] = "blocked" THEN "block"
              ELSE IF \E i \in mine : l[i] \in Tried THEN "failure" ELSE "nothing"
TellsRounds(l, ran, again) == (ran <=> roundOpened(l)) /\ (again <=> roundRepeated(l))
HasRestarted(l) == \A i \in respawns(l) \ ofRounds(l) : \E j \in ofRounds(l) : i < j

\* An event that opens no window and ends no round.
LEMMA PlainEvents ==
    ASSUME NEW l, Paired(l), NEW new \in Seq({"rejected", "blocked", "turn_died"})
    PROVE  /\ Paired(l \o new)
           /\ roundOpened(l \o new) <=> roundOpened(l)
           /\ roundRepeated(l \o new) <=> roundRepeated(l)
           /\ HasRestarted(l) => HasRestarted(l \o new)
           /\ sinceOpened(l \o new, ofRounds(l \o new)) =
                 sinceOpened(l, ofRounds(l)) \cup {Len(l) + i : i \in 1 .. Len(new)}
<1>1. new \in Seq(EventType) /\ \A i \in 1 .. Len(new) : new[i] \in {"rejected", "blocked", "turn_died"}
  BY DEF EventType
<1>2. Paired(l \o new)
  <2>1. \A i \in 1 .. Len(new) : new[i] # "fix_round"
    BY <1>1
  <2> QED BY <1>1, <2>1, StaysPaired
<1>3. /\ \A i \in 1 .. Len(new) : (l \o new)[Len(l) + i] = new[i]
      /\ DOMAIN l = 1 .. Len(l) /\ DOMAIN (l \o new) = 1 .. Len(l) + Len(new)
      /\ Len(l) \in Nat /\ Len(new) \in Nat
      /\ \A i \in 1 .. Len(l) : /\ i \in respawns(l \o new) <=> i \in respawns(l)
                                /\ i \in ofRounds(l \o new) <=> i \in ofRounds(l)
  BY <1>1, <1>2, LongerLog
<1>4. \A i \in 1 .. Len(new) : Len(l) + i \notin respawns(l \o new)
  BY <1>1, <1>3 DEF respawns
<1>5. \A i \in 1 .. Len(new) : ~ranRound(l \o new, Len(l) + i) /\ new[i] # "merge" /\ Len(l) + i \notin ofRounds(l \o new)
  BY <1>1, <1>4 DEF ranRound, opensRound, ofRounds
<1>6. /\ roundOpened(l \o new) <=> roundOpened(l)
      /\ roundRepeated(l \o new) <=> roundRepeated(l)
  BY <1>1, <1>2, <1>5, RoundsStay
<1>7. sinceOpened(l \o new, ofRounds(l \o new)) =
         sinceOpened(l, ofRounds(l)) \cup {Len(l) + i : i \in 1 .. Len(new)}
  BY <1>1, <1>2, <1>5, MineGrows
<1>8. ASSUME HasRestarted(l), NEW i \in respawns(l \o new) \ ofRounds(l \o new)
      PROVE  \E j \in ofRounds(l \o new) : i < j
  <2>1. i \in 1 .. Len(l)
    <3>1. i \in 1 .. Len(l) + Len(new)
      BY <1>3, <1>8 DEF respawns
    <3>2. i \notin 1 .. Len(l) => i - Len(l) \in 1 .. Len(new) /\ Len(l) + (i - Len(l)) = i
      BY <1>3, <3>1
    <3> QED BY <1>4, <1>8, <3>2
  <2>2. PICK j \in ofRounds(l) : i < j
    BY <1>3, <1>8, <2>1 DEF HasRestarted
  <2>3. j \in 1 .. Len(l)
    BY <1>3, <2>2 DEF ofRounds, respawns
  <2> QED BY <1>3, <2>2, <2>3
<1> QED BY <1>2, <1>6, <1>7, <1>8 DEF HasRestarted

\* A merge ends the round that is open.
LEMMA MergeEvent ==
    ASSUME NEW l, Paired(l)
    PROVE  /\ Paired(l \o <<"merge">>)
           /\ ~roundOpened(l \o <<"merge">>)
           /\ roundRepeated(l \o <<"merge">>) <=> roundRepeated(l) \/ roundOpened(l)
           /\ sinceOpened(l \o <<"merge">>, ofRounds(l \o <<"merge">>)) =
                 sinceOpened(l, ofRounds(l)) \cup {Len(l) + 1}
<1> DEFINE new == <<"merge">>
           all == l \o new
           n == Len(l)
<1>1. new \in Seq(EventType) /\ Len(new) = 1 /\ new[1] = "merge"
  BY DEF EventType
<1>2. Paired(all)
  <2>1. \A i \in 1 .. Len(new) : new[i] # "fix_round"
    BY <1>1
  <2> QED BY <1>1, <2>1, StaysPaired
<1>13. /\ n \in Nat /\ DOMAIN l = 1 .. n /\ DOMAIN all = 1 .. n + Len(new)
       /\ \A i \in 1 .. n : all[i] = l[i]
       /\ \A i \in 1 .. Len(new) : all[n + i] = new[i]
       /\ \A i \in 1 .. n : ranRound(all, i) <=> ranRound(l, i)
  BY <1>1, <1>2, LongerLog
<1>3. /\ n \in Nat /\ DOMAIN l = 1 .. n /\ DOMAIN all = 1 .. n + 1
      /\ \A i \in 1 .. n : all[i] = l[i]
      /\ all[n + 1] = "merge"
      /\ \A i \in 1 .. n : ranRound(all, i) <=> ranRound(l, i)
  BY <1>1, <1>13
<1>4. n + 1 \notin respawns(all) /\ \A i \in 1 .. Len(new) : i = 1
  BY <1>1, <1>3 DEF respawns
<1>5. n + 1 \notin ofRounds(all) /\ ~ranRound(all, n + 1)
  BY <1>4 DEF ranRound, opensRound, ofRounds
<1>6. sinceOpened(all, ofRounds(all)) = sinceOpened(l, ofRounds(l)) \cup {n + i : i \in 1 .. Len(new)}
  BY <1>1, <1>2, <1>4, <1>5, MineGrows
<1>7. {n + i : i \in 1 .. Len(new)} = {n + 1}
  BY <1>1, <1>4
<1> HIDE DEF all, new, n
<1>8. /\ \A i \in 1 .. n + 1 : i \in 1 .. n \/ i = n + 1
      /\ \A i \in 1 .. n : i < n + 1 /\ ~(n + 1 < i)
      /\ n + 1 \in 1 .. n + 1 /\ 1 .. n \subseteq 1 .. n + 1
  BY <1>3
<1>9. ~roundOpened(all)
  <2> SUFFICES ASSUME NEW i \in 1 .. n + 1, ranRound(all, i), \A m \in 1 .. n + 1 : all[m] = "merge" => m < i PROVE FALSE
    BY <1>3 DEF roundOpened
  <2>1. n + 1 < i
    BY <1>3, <1>8
  <2> QED BY <1>3, <2>1
<1>10. ASSUME roundRepeated(all) PROVE roundRepeated(l) \/ roundOpened(l)
  <2>1. PICK i \in 1 .. n + 1 : ranRound(all, i)
    BY <1>3, <1>10 DEF roundRepeated
  <2>2. i \in 1 .. n /\ ranRound(l, i) /\ l[i] = "respawn"
    BY <1>3, <1>5, <1>8, <2>1 DEF ranRound
  <2>3. SUFFICES ASSUME NEW m \in 1 .. n, l[m] = "merge", ~(m < i) PROVE i < m
    BY <1>3, <2>2 DEF roundRepeated, roundOpened
  <2>4. m # i
    BY <2>2, <2>3
  <2> QED BY <1>3, <2>2, <2>3, <2>4
<1>11. ASSUME roundRepeated(l) PROVE roundRepeated(all)
  BY <1>3, <1>8, <1>11 DEF roundRepeated
<1>12. ASSUME roundOpened(l) PROVE roundRepeated(all)
  BY <1>3, <1>8, <1>12 DEF roundRepeated, roundOpened
<1> QED BY <1>2, <1>6, <1>7, <1>9, <1>10, <1>11, <1>12 DEF all, new, n

\* A respawn of a session at work begins no round, so its window is the newest.
LEMMA RespawnEvent ==
    ASSUME NEW l, Paired(l), NEW r \in {"respawn", "undelivered"}
    PROVE  /\ Paired(l \o <<r>>)
           /\ roundOpened(l \o <<r>>) <=> roundOpened(l)
           /\ roundRepeated(l \o <<r>>) <=> roundRepeated(l)
           /\ HasRestarted(l) => HasRestarted(l \o <<r>>)
           /\ sinceOpened(l \o <<r>>, ofRounds(l \o <<r>>)) = {}
<1> DEFINE new == <<r>>
           all == l \o new
           n == Len(l)
<1>1. new \in Seq(EventType) /\ Len(new) = 1 /\ new[1] = r /\ \A i \in 1 .. Len(new) : i = 1
  BY DEF EventType
<1>2. Paired(all)
  <2>1. \A i \in 1 .. Len(new) : new[i] # "fix_round"
    BY <1>1
  <2> QED BY <1>1, <2>1, StaysPaired
<1> HIDE DEF new
<1>13. /\ n \in Nat /\ DOMAIN l = 1 .. n /\ DOMAIN all = 1 .. n + Len(new)
       /\ \A i \in 1 .. n : all[i] = l[i]
       /\ \A i \in 1 .. Len(new) : all[n + i] = new[i]
       /\ \A i \in 1 .. n : i \in respawns(all) <=> i \in respawns(l)
       /\ \A i \in 1 .. n : i \in ofRounds(all) <=> i \in ofRounds(l)
       /\ \A i \in 1 .. n : ranRound(all, i) <=> ranRound(l, i)
  BY <1>1, <1>2, LongerLog
<1>3. /\ n \in Nat /\ DOMAIN l = 1 .. n /\ DOMAIN all = 1 .. n + 1
      /\ \A i \in 1 .. n : all[i] = l[i]
      /\ all[n + 1] = r
      /\ \A i \in 1 .. n : /\ i \in respawns(all) <=> i \in respawns(l)
                           /\ i \in ofRounds(all) <=> i \in ofRounds(l)
  BY <1>1, <1>13
<1>4. n + 1 \in respawns(all) /\ n + 1 \in DOMAIN all
  BY <1>3 DEF respawns
<1>5. ~IsOpening(all, n + 1)
  <2> SUFFICES ASSUME n \in DOMAIN all, all[n] = "fix_round" PROVE FALSE
    BY <1>3 DEF IsOpening
  <2>1. n \in 1 .. n /\ l[n] = "fix_round"
    BY <1>3
  <2>2. n + 1 \in 1 .. n
    BY <1>3, <2>1 DEF Paired, respawns
  <2> QED BY <1>3, <2>2
<1>6. ~opensRound(all, n + 1)
  BY <1>2, <1>4, <1>5, OpeningIsNext
<1>7. n + 1 \in ofRounds(all) /\ ~ranRound(all, n + 1)
  BY <1>4, <1>6 DEF ofRounds, ranRound
<1>8. /\ roundOpened(all) <=> roundOpened(l)
      /\ roundRepeated(all) <=> roundRepeated(l)
  BY <1>1, <1>2, <1>7, RoundsStay
<1>9. sinceOpened(all, ofRounds(all)) = {}
  <2>1. all \in Seq(EventType) /\ Len(all) = n + 1
    BY <1>1, <1>2, <1>3 DEF Paired
  <2> QED BY <1>7, <2>1, MineEnds
<1>10. HasRestarted(all)
  <2> SUFFICES ASSUME NEW i \in respawns(all) \ ofRounds(all) PROVE \E j \in ofRounds(all) : i < j
    BY DEF HasRestarted
  <2>1. i \in 1 .. n + 1 /\ i # n + 1
    BY <1>3, <1>7 DEF respawns
  <2>2. i < n + 1
    BY <1>3, <2>1
  <2> QED BY <1>7, <2>2
<1> QED BY <1>2, <1>8, <1>9, <1>10 DEF all, new, n

\* A round's window is its own respawn's, and one that is undone leaves the window
\* that was.
LEMMA FixRoundEvent ==
    ASSUME NEW l, Paired(l), NEW r \in {"respawn", "undelivered"}
    PROVE  LET all == l \o <<"fix_round", r>>
           IN /\ Paired(all)
              /\ roundRepeated(all) <=> roundRepeated(l)
              /\ r = "respawn" => /\ roundOpened(all) /\ HasRestarted(all)
                                  /\ sinceOpened(all, ofRounds(all)) = {}
              /\ r = "undelivered" => /\ roundOpened(all) <=> roundOpened(l)
                                      /\ sinceOpened(all, ofRounds(all)) =
                                           sinceOpened(l, ofRounds(l)) \cup {Len(l) + 1, Len(l) + 2}
<1> DEFINE new == <<"fix_round", r>>
           all == l \o new
           n == Len(l)
<1>1. new \in Seq(EventType) /\ Len(new) = 2 /\ new[1] = "fix_round" /\ new[2] = r
  BY DEF EventType
<1>2. \A i \in 1 .. Len(new) : i = 1 \/ i = 2
  BY <1>1
<1>3. Paired(all)
  <2> SUFFICES ASSUME NEW i \in 1 .. Len(new), new[i] = "fix_round"
               PROVE  i < Len(new) /\ new[i + 1] \in {"respawn", "undelivered"}
    BY <1>1, StaysPaired
  <2>1. i = 1
    BY <1>1, <1>2
  <2>2. 1 + 1 = 2 /\ 1 < 2
    OBVIOUS
  <2> QED BY <1>1, <2>1, <2>2
<1>4. /\ n \in Nat /\ DOMAIN l = 1 .. n /\ DOMAIN all = 1 .. n + Len(new)
      /\ \A i \in 1 .. n : all[i] = l[i]
      /\ \A i \in 1 .. Len(new) : all[n + i] = new[i]
      /\ \A i \in 1 .. n : i \in respawns(all) <=> i \in respawns(l)
      /\ \A i \in 1 .. n : i \in ofRounds(all) <=> i \in ofRounds(l)
      /\ \A i \in 1 .. n : ranRound(all, i) <=> ranRound(l, i)
  BY <1>1, <1>3, LongerLog, ZenonT(30)
<1>5. /\ DOMAIN all = 1 .. n + 2 /\ all[n + 1] = "fix_round" /\ all[n + 2] = r
      /\ all \in Seq(EventType) /\ Len(all) = n + 2
  BY <1>1, <1>3, <1>4 DEF Paired
<1>6. n + 1 \notin respawns(all) /\ n + 2 \in respawns(all) /\ n + 2 \in DOMAIN all
  BY <1>4, <1>5 DEF respawns
<1>7. opensRound(all, n + 2)
  <2>1. (n + 2) - 1 = n + 1 /\ n + 1 \in DOMAIN all
    BY <1>4, <1>5
  <2>2. IsOpening(all, n + 2)
    BY <1>5, <1>6, <2>1 DEF IsOpening
  <2> QED BY <1>3, <1>6, <2>2, OpeningIsNext
<1>8. /\ n + 1 \notin ofRounds(all) /\ ~ranRound(all, n + 1)
      /\ n + 2 \in ofRounds(all) <=> r = "respawn"
      /\ ranRound(all, n + 2) <=> r = "respawn"
  BY <1>5, <1>6, <1>7 DEF ofRounds, ranRound, opensRound
<1>9. /\ \A i \in 1 .. n + 2 : i \in 1 .. n \/ i = n + 1 \/ i = n + 2
      /\ \A i \in 1 .. n + 2 : ~(n + 2 < i)
      /\ \A i \in 1 .. n : i < n + 2
      /\ n + 2 \in 1 .. n + 2 /\ 1 .. n \subseteq 1 .. n + 2 /\ n + 1 < n + 2
  BY <1>4
<1>10. ASSUME r = "undelivered"
       PROVE  /\ roundOpened(all) <=> roundOpened(l)
              /\ roundRepeated(all) <=> roundRepeated(l)
              /\ sinceOpened(all, ofRounds(all)) = sinceOpened(l, ofRounds(l)) \cup {n + 1, n + 2}
  <2>1. \A i \in 1 .. Len(new) : ~ranRound(all, n + i) /\ new[i] # "merge" /\ n + i \notin ofRounds(all)
    <3>1. r # "respawn"
      BY <1>10
    <3>2. new[1] # "merge" /\ new[2] # "merge"
      BY <1>1
    <3> QED BY <1>2, <1>8, <3>1, <3>2
  <2>2. sinceOpened(all, ofRounds(all)) = sinceOpened(l, ofRounds(l)) \cup {n + i : i \in 1 .. Len(new)}
    BY <1>1, <1>3, <2>1, MineGrows
  <2>3. {n + i : i \in 1 .. Len(new)} = {n + 1, n + 2}
    <3>1. 1 \in 1 .. Len(new) /\ 2 \in 1 .. Len(new)
      BY <1>1
    <3> QED BY <1>2, <3>1
  <2>4. /\ roundOpened(all) <=> roundOpened(l)
        /\ roundRepeated(all) <=> roundRepeated(l)
    BY <1>1, <1>3, <2>1, RoundsStay
  <2> QED BY <2>2, <2>3, <2>4
<1>11. ASSUME r = "respawn"
       PROVE  sinceOpened(all, ofRounds(all)) = {} /\ HasRestarted(all)
  <2>1. sinceOpened(all, ofRounds(all)) = {}
    BY <1>5, <1>8, <1>11, MineEnds
  <2>2. ASSUME NEW i \in respawns(all) \ ofRounds(all) PROVE i < n + 2
    <3>1. i \in 1 .. n + 2 /\ i # n + 2
      BY <1>5, <1>8, <1>11 DEF respawns
    <3> QED BY <1>6, <1>9, <2>2, <3>1
  <2> QED BY <1>8, <1>11, <2>1, <2>2 DEF HasRestarted
<1> HIDE DEF all, new, n
<1>12. ASSUME r = "respawn" PROVE roundOpened(all)
  <2>1. \A m \in 1 .. n + 2 : all[m] = "merge" => m \in 1 .. n
    BY <1>5, <1>9, <1>12
  <2> QED BY <1>5, <1>8, <1>9, <1>12, <2>1 DEF roundOpened
<1>13. ASSUME r = "respawn" PROVE roundRepeated(all) <=> roundRepeated(l)
  <2>1. ASSUME roundRepeated(all) PROVE roundRepeated(l)
    <3>1. PICK i \in 1 .. n + 2, m \in 1 .. n + 2 : ranRound(all, i) /\ all[m] = "merge" /\ i < m
      BY <1>5, <2>1 DEF roundRepeated
    <3>2. m \in 1 .. n
      BY <1>5, <1>9, <1>13, <3>1
    <3>3. i \in 1 .. n
      BY <1>4, <3>1, <3>2
    <3> QED BY <1>4, <3>1, <3>2, <3>3 DEF roundRepeated
  <2>2. ASSUME roundRepeated(l) PROVE roundRepeated(all)
    BY <1>4, <1>5, <1>9, <2>2 DEF roundRepeated
  <2> QED BY <2>1, <2>2
<1> QED BY <1>3, <1>10, <1>11, <1>12, <1>13 DEF all, new, n

\* A window's events, with others, meet what the others meet too.
LEMMA TellsMore ==
    ASSUME NEW l, NEW all, NEW mine, NEW more, NEW what,
           sinceOpened(l, ofRounds(l)) = mine, sinceOpened(all, ofRounds(all)) = mine \cup more,
           \A i \in mine : all[i] = l[i],
           TellsHit(l, what)
    PROVE  TellsHit(all, IF \E i \in more : all[i] = "blocked" THEN "block"
                         ELSE IF \E i \in more : all[i] \in Tried
                              THEN IF what = "nothing" THEN "failure" ELSE what
                              ELSE what)
<1>1. /\ (\E i \in mine \cup more : all[i] = "blocked") <=> (\E i \in mine : l[i] = "blocked") \/ \E i \in more : all[i] = "blocked"
      /\ (\E i \in mine \cup more : all[i] \in Tried) <=> (\E i \in mine : l[i] \in Tried) \/ \E i \in more : all[i] \in Tried
  OBVIOUS
<1> DEFINE wasBlocked == \E i \in mine : l[i] = "blocked"
           isBlocked == \E i \in more : all[i] = "blocked"
           wasTried == \E i \in mine : l[i] \in Tried
           isTried == \E i \in more : all[i] \in Tried
<1>2. what = IF wasBlocked THEN "block" ELSE IF wasTried THEN "failure" ELSE "nothing"
  BY DEF TellsHit
<1>3. SUFFICES (IF isBlocked THEN "block" ELSE IF isTried THEN IF what = "nothing" THEN "failure" ELSE what ELSE what) =
               IF wasBlocked \/ isBlocked THEN "block" ELSE IF wasTried \/ isTried THEN "failure" ELSE "nothing"
  BY <1>1 DEF TellsHit
<1> HIDE DEF wasBlocked, isBlocked, wasTried, isTried
<1>4. CASE isBlocked
  BY <1>4
<1>5. CASE ~isBlocked /\ wasBlocked
  BY <1>2, <1>5
<1>6. CASE ~isBlocked /\ ~wasBlocked
  BY <1>2, <1>6
<1> QED BY <1>4, <1>5, <1>6

LEMMA RoutingInvInit == ASSUME RoutingInit PROVE RoutingInv
<1>1. DOMAIN events = {} /\ Top \in Nat
  BY DEF RoutingInit, RoutingRests, Top
<1>2. RoutingTypeOK
  <2>1. events \in Seq(EventType)
    BY DEF RoutingInit, RoutingRests
  <2>2. rung \in 0 .. Top
    BY <1>1 DEF RoutingInit, RoutingRests
  <2> QED BY <2>1, <2>2 DEF RoutingInit, RoutingRests, RoutingTypeOK
<1>3. RoundsOK
  BY <1>1 DEF RoundsOK, respawns
<1>4. ~roundOpened(events) /\ ~roundRepeated(events) /\ Mine = {}
  BY <1>1 DEF roundOpened, roundRepeated, Mine, sinceOpened
<1> QED BY <1>2, <1>3, <1>4 DEF RoutingInv, RoutingInit, RoutingRests, Met

\* The invariant, as the lemmas on a log have it.
LEMMA RoutingInvSays ==
    RoutingInv <=> /\ RoutingTypeOK /\ Paired(events)
                   /\ state # "merged" => HasRestarted(events)
                   /\ TellsRounds(events, roundRan, repeats)
                   /\ ~torn => TellsHit(events, hit)
<1>1. RoutingTypeOK => (RoundsOK <=> Paired(events) /\ (state # "merged" => HasRestarted(events)))
  BY DEF RoundsOK, Paired, HasRestarted, RoutingTypeOK
<1>2. Met({"blocked"}) <=> \E i \in Mine : events[i] = "blocked"
  BY DEF Met
<1>3. TellsHit(events, hit) <=>
         hit = IF Met({"blocked"}) THEN "block" ELSE IF Met(Tried) THEN "failure" ELSE "nothing"
  BY <1>2 DEF TellsHit, Met, Mine
<1> QED BY <1>1, <1>3 DEF RoutingInv, TellsRounds

RoutingInvAfter ==
    /\ Paired(events')
    /\ state' # "merged" => HasRestarted(events')
    /\ TellsRounds(events', roundRan', repeats')
    /\ ~torn' => TellsHit(events', hit')

RouteTypes ==
    /\ rung \in 0 .. Top /\ Top \in {1, 3}
    /\ reason \in ClimbReason \cup {"none"}

LEMMA RoutesTyped == ASSUME RoutingTypeOK PROVE RouteTypes
  BY DEF RoutingTypeOK, RouteTypes, Top

\* A route recorded names a rung there is, and why.
LEMMA RecordRouteTyped ==
    ASSUME RouteTypes, NEW f \in ClimbReason \cup {"none", "blocked"}, RecordRoute(f)
    PROVE  rung' \in 0 .. Top /\ reason' \in ClimbReason \cup {"none"}
<1>1. reason' \in ClimbReason \cup {"none"}
  BY DEF RecordRoute, climbs, RouteTypes
<1>2. rung' \in 0 .. Top
  <2>1. CASE climbs(f) /\ rung < Top
    BY <2>1 DEF RecordRoute, RouteTypes
  <2>2. CASE ~(climbs(f) /\ rung < Top)
    BY <2>2 DEF RecordRoute, RouteTypes
  <2> QED BY <2>1, <2>2
<1> QED BY <1>1, <1>2

\* What a window ran into, whatever the log and the openings.
LEMMA RanIntoIs ==
    ASSUME NEW l, NEW openings, NEW stalledAtEnd \in BOOLEAN
    PROVE  LET mine == sinceOpened(l, openings)
               failure == ranInto(l, openings, stalledAtEnd)
           IN /\ failure \in ClimbReason \cup {"none", "blocked"}
              /\ climbs(failure) <=> /\ ~\E i \in mine : l[i] = "blocked"
                                     /\ (\E i \in mine : l[i] \in Tried) \/ stalledAtEnd
<1> DEFINE mine == sinceOpened(l, openings)
           failures == {i \in mine : l[i] \in {"rejected", "turn_died"}}
           isBlocked == \E i \in mine : l[i] = "blocked"
           first == failureOf(l[CHOOSE i \in failures : \A j \in failures : i <= j])
           failure == ranInto(l, openings, stalledAtEnd)
<1>1. failure = CASE isBlocked -> "blocked"
                  [] ~isBlocked /\ failures # {} -> first
                  [] OTHER -> IF stalledAtEnd THEN "stall" ELSE "none"
  BY DEF ranInto
<1>2. first \in {"turn-death", "gate-rejection"}
  BY DEF failureOf
<1>3. failures # {} <=> \E i \in mine : l[i] \in Tried
  BY DEF Tried
<1>4. SUFFICES /\ failure \in ClimbReason \cup {"none", "blocked"}
               /\ climbs(failure) <=> ~isBlocked /\ (failures # {} \/ stalledAtEnd)
  BY <1>3
<1> HIDE DEF failures, isBlocked, first, failure
<1>5. CASE isBlocked
  BY <1>1, <1>5 DEF climbs
<1>6. CASE ~isBlocked /\ failures # {}
  BY <1>1, <1>2, <1>6 DEF climbs, ClimbReason
<1>7. CASE ~isBlocked /\ failures = {}
  BY <1>1, <1>7 DEF climbs, ClimbReason
<1> QED BY <1>5, <1>6, <1>7

\* A window's failure, as it is remembered: out of a merge, no window that was
\* undone is the newest.
LEMMA WindowFailureIs ==
    ASSUME RoutingInv, state # "merged"
    PROVE  /\ windowFailure(events, quiet) \in ClimbReason \cup {"none", "blocked"}
           /\ ~torn => (climbs(windowFailure(events, quiet)) <=> hit = "failure" \/ (hit = "nothing" /\ quiet))
<1>1. HasRestarted(events) /\ quiet \in BOOLEAN /\ events \in Seq(EventType)
  BY RoutingInvSays DEF RoutingTypeOK
<1>2. DOMAIN events \subseteq Int
  BY <1>1
<1>3. sinceOpened(events, respawns(events)) = sinceOpened(events, ofRounds(events))
  <2>1. ofRounds(events) \subseteq respawns(events) /\ respawns(events) \subseteq DOMAIN events
    BY DEF ofRounds, respawns
  <2>2. ASSUME NEW i \in sinceOpened(events, ofRounds(events)), NEW j \in respawns(events) PROVE j < i
    <3>1. CASE j \in ofRounds(events)
      BY <2>2, <3>1 DEF sinceOpened
    <3>2. CASE j \notin ofRounds(events)
      <4>1. PICK k \in ofRounds(events) : j < k
        BY <1>1, <3>2 DEF HasRestarted
      <4>2. k < i /\ i \in Int /\ j \in Int /\ k \in Int
        BY <1>2, <2>1, <4>1 DEF sinceOpened
      <4> QED BY <4>1, <4>2
    <3> QED BY <3>1, <3>2
  <2> QED BY <2>1, <2>2 DEF sinceOpened
<1>4. /\ windowFailure(events, quiet) \in ClimbReason \cup {"none", "blocked"}
      /\ climbs(windowFailure(events, quiet)) <=>
            /\ ~\E i \in Mine : events[i] = "blocked"
            /\ (\E i \in Mine : events[i] \in Tried) \/ quiet
  BY <1>1, <1>3, RanIntoIs DEF windowFailure, Mine
<1>5. ~torn => TellsHit(events, hit)
  BY RoutingInvSays
<1>6. ~torn => (climbs(windowFailure(events, quiet)) <=> hit = "failure" \/ (hit = "nothing" /\ quiet))
  BY <1>4, <1>5 DEF TellsHit, Mine
<1> QED BY <1>4, <1>6

\* A round's failure, as it is remembered.
LEMMA FixRoundFailureIs ==
    ASSUME RoutingInv
    PROVE  /\ fixRoundFailure(events) \in ClimbReason \cup {"none", "blocked"}
           /\ ~torn => (climbs(fixRoundFailure(events)) <=> IF roundRan THEN hit = "failure" ELSE repeats)
<1>1. /\ ranInto(events, ofRounds(events), FALSE) \in ClimbReason \cup {"none", "blocked"}
      /\ climbs(ranInto(events, ofRounds(events), FALSE)) <=>
            /\ ~\E i \in Mine : events[i] = "blocked"
            /\ \E i \in Mine : events[i] \in Tried
  BY RanIntoIs DEF Mine
<1>2. /\ roundRan <=> roundOpened(events)
      /\ repeats <=> roundRepeated(events)
      /\ ~torn => TellsHit(events, hit)
  BY RoutingInvSays DEF TellsRounds
<1>3. CASE roundOpened(events)
  <2>1. fixRoundFailure(events) = ranInto(events, ofRounds(events), FALSE)
    BY <1>3 DEF fixRoundFailure
  <2>2. ~torn => (climbs(fixRoundFailure(events)) <=> hit = "failure")
    BY <1>1, <1>2, <2>1 DEF TellsHit, Mine
  <2> QED BY <1>1, <1>2, <1>3, <2>1, <2>2
<1>4. CASE ~roundOpened(events)
  <2>1. fixRoundFailure(events) = IF roundRepeated(events) THEN "repeat-fix-round" ELSE "none"
    BY <1>4 DEF fixRoundFailure
  <2>2. climbs(fixRoundFailure(events)) <=> roundRepeated(events)
    BY <2>1 DEF climbs
  <2> QED BY <1>2, <1>4, <2>1, <2>2 DEF ClimbReason
<1> QED BY <1>3, <1>4

EventsTyped == events' \in Seq(EventType)

\* The invariant after a step, from what the lemmas have of its log.
LEMMA RoutingInvFrom ==
    ASSUME RoutingInvAfter, Top' = Top,
           rung' \in 0 .. Top, reason' \in ClimbReason \cup {"none"},
           state' \in {"running", "blocked", "killed", "merged"}, quiet' \in BOOLEAN,
           hit' \in {"nothing", "failure", "block"}, {roundRan', repeats', torn'} \subseteq BOOLEAN
    PROVE  RoutingInv'
<1>1. RoutingTypeOK'
  BY DEF RoutingTypeOK, RoutingInvAfter, Paired
<1>2. events' \in Seq(EventType) /\ (RoundsOK' <=> Paired(events') /\ (state' # "merged" => HasRestarted(events')))
  BY DEF RoundsOK, Paired, HasRestarted, RoutingInvAfter
<1>3. TellsHit(events', hit') <=>
         hit' = IF \E i \in Mine' : events'[i] = "blocked" THEN "block"
                ELSE IF \E i \in Mine' : events'[i] \in Tried THEN "failure" ELSE "nothing"
  BY DEF TellsHit, Mine
<1>4. (\E i \in Mine' : events'[i] \in {"blocked"}) <=> \E i \in Mine' : events'[i] = "blocked"
  OBVIOUS
<1> QED BY <1>1, <1>2, <1>3, <1>4 DEF RoutingInv, RoutingInvAfter, TellsRounds, Met

LEMMA RoutingInvStep == ASSUME RoutingInv, RoutingNext, Top' = Top PROVE RoutingInv'
<1>1. /\ RoutingTypeOK /\ Paired(events)
      /\ state # "merged" => HasRestarted(events)
      /\ TellsRounds(events, roundRan, repeats)
      /\ ~torn => TellsHit(events, hit)
  BY RoutingInvSays
<1>2. /\ state \in {"running", "blocked", "killed", "merged"} /\ quiet \in BOOLEAN
      /\ hit \in {"nothing", "failure", "block"} /\ {roundRan, repeats, torn} \subseteq BOOLEAN
      /\ rung \in 0 .. Top /\ reason \in ClimbReason \cup {"none"} /\ RouteTypes
      /\ events \in Seq(EventType) /\ Len(events) \in Nat /\ DOMAIN events = 1 .. Len(events)
  BY <1>1, RoutesTyped DEF RoutingTypeOK
<1>3. ASSUME NEW who \in By, Relaunch(who) PROVE RoutingInv'
  <2>1. /\ events' = <<>> /\ state' = "running" /\ roundRan' = FALSE /\ repeats' = FALSE
        /\ hit' = "nothing" /\ quiet' = FALSE /\ torn' = torn
        /\ RecordRoute(windowFailure(events, quiet)) /\ state # "merged"
    BY <1>3 DEF Relaunch, WindowOpens
  <2>2. rung' \in 0 .. Top /\ reason' \in ClimbReason \cup {"none"}
    BY <1>2, <2>1, WindowFailureIs, RecordRouteTyped
  <2>3. DOMAIN events' = {} /\ events' \in Seq(EventType)
    BY <2>1
  <2>4. Paired(events') /\ HasRestarted(events')
    BY <2>3 DEF Paired, HasRestarted, respawns
  <2>5. TellsRounds(events', roundRan', repeats') /\ TellsHit(events', hit')
    BY <2>1, <2>3 DEF TellsRounds, TellsHit, roundOpened, roundRepeated, sinceOpened
  <2>6. RoutingInvAfter
    BY <2>4, <2>5 DEF RoutingInvAfter
  <2> QED BY <1>2, <2>1, <2>2, <2>6, RoutingInvFrom
<1>4. ASSUME NEW who \in By, NEW isDelivered \in BOOLEAN, Respawn(who, isDelivered) PROVE RoutingInv'
  <2>1. /\ state = "running" /\ RecordRoute(windowFailure(events, quiet))
        /\ events' = events \o Respawned(isDelivered)
        /\ hit' = "nothing" /\ quiet' = FALSE /\ UNCHANGED <<state, roundRan, repeats, torn>>
    BY <1>4 DEF Respawn, WindowOpens, Log
  <2>2. rung' \in 0 .. Top /\ reason' \in ClimbReason \cup {"none"}
    BY <1>2, <2>1, WindowFailureIs, RecordRouteTyped
  <2>3. PICK r \in {"respawn", "undelivered"} : Respawned(isDelivered) = <<r>>
    BY DEF Respawned
  <2>4. /\ Paired(events') /\ HasRestarted(events')
        /\ roundOpened(events') <=> roundOpened(events)
        /\ roundRepeated(events') <=> roundRepeated(events)
        /\ sinceOpened(events', ofRounds(events')) = {}
    BY <1>1, <2>1, <2>3, RespawnEvent
  <2>5. TellsRounds(events', roundRan', repeats') /\ TellsHit(events', hit')
    BY <1>1, <2>1, <2>4 DEF TellsRounds, TellsHit
  <2>6. RoutingInvAfter
    BY <2>4, <2>5 DEF RoutingInvAfter
  <2> QED BY <1>2, <2>1, <2>2, <2>6, RoutingInvFrom
<1>5. ASSUME RespawnDies PROVE RoutingInv'
  <2>1. /\ state = "running" /\ RecordRoute(windowFailure(events, quiet))
        /\ torn' = TRUE /\ hit' = "nothing" /\ quiet' = FALSE /\ UNCHANGED <<events, state, roundRan, repeats>>
    BY <1>5 DEF RespawnDies, WindowOpens
  <2>2. rung' \in 0 .. Top /\ reason' \in ClimbReason \cup {"none"}
    BY <1>2, <2>1, WindowFailureIs, RecordRouteTyped
  <2>3. RoutingInvAfter
    BY <1>1, <2>1 DEF RoutingInvAfter
  <2> QED BY <1>2, <2>1, <2>2, <2>3, RoutingInvFrom
<1>6. ASSUME NEW who \in By, FixRound(who) PROVE RoutingInv'
  <2>1. /\ state = "merged" /\ RecordRoute(fixRoundFailure(events))
        /\ events' = events \o <<"fix_round", "respawn">>
        /\ state' = "running" /\ roundRan' = TRUE
        /\ hit' = "nothing" /\ quiet' = FALSE /\ UNCHANGED <<repeats, torn>>
    BY <1>6 DEF FixRound, WindowOpens, Log
  <2>2. rung' \in 0 .. Top /\ reason' \in ClimbReason \cup {"none"}
    BY <1>2, <2>1, FixRoundFailureIs, RecordRouteTyped
  <2>4. /\ Paired(events') /\ HasRestarted(events') /\ roundOpened(events')
        /\ roundRepeated(events') <=> roundRepeated(events)
        /\ sinceOpened(events', ofRounds(events')) = {}
    BY <1>1, <2>1, FixRoundEvent
  <2>5. TellsRounds(events', roundRan', repeats') /\ TellsHit(events', hit')
    BY <1>1, <2>1, <2>4 DEF TellsRounds, TellsHit
  <2>6. RoutingInvAfter
    BY <2>4, <2>5 DEF RoutingInvAfter
  <2> QED BY <1>2, <2>1, <2>2, <2>6, RoutingInvFrom
<1>7. ASSUME NEW who \in By, FixRoundUndone(who) PROVE RoutingInv'
  <2>1. /\ state = "merged" /\ events' = events \o <<"fix_round", "undelivered">>
        /\ UNCHANGED <<rung, reason, state, quiet, hit, roundRan, repeats, torn>>
    BY <1>7 DEF FixRoundUndone, Log
  <2>2. /\ Paired(events')
        /\ roundRepeated(events') <=> roundRepeated(events)
        /\ roundOpened(events') <=> roundOpened(events)
        /\ sinceOpened(events', ofRounds(events')) = Mine \cup {Len(events) + 1, Len(events) + 2}
    BY <1>1, <2>1, FixRoundEvent DEF Mine
  <2>3. \A i \in Mine : events'[i] = events[i]
    <3>1. Mine \subseteq 1 .. Len(events)
      BY <1>2 DEF Mine, sinceOpened
    <3> QED BY <1>2, <2>1, <3>1
  <2>4. events'[Len(events) + 1] = "fix_round" /\ events'[Len(events) + 2] = "undelivered"
    BY <1>2, <2>1
  <2>5. ~torn' => TellsHit(events', hit')
    <3> DEFINE more == {Len(events) + 1, Len(events) + 2}
    <3>1. /\ sinceOpened(events', ofRounds(events')) = Mine \cup more
          /\ ~\E i \in more : events'[i] = "blocked"
          /\ ~\E i \in more : events'[i] \in Tried
      BY <2>2, <2>4 DEF Tried
    <3>2. sinceOpened(events, ofRounds(events)) = Mine
      BY DEF Mine
    <3> HIDE DEF more
    <3>3. ASSUME ~torn
          PROVE  TellsHit(events', IF \E i \in more : events'[i] = "blocked" THEN "block"
                                   ELSE IF \E i \in more : events'[i] \in Tried
                                        THEN IF hit = "nothing" THEN "failure" ELSE hit
                                        ELSE hit)
      BY <1>1, <2>3, <3>1, <3>2, <3>3, TellsMore
    <3> QED BY <2>1, <3>1, <3>3
  <2>6. RoutingInvAfter
    BY <1>1, <2>1, <2>2, <2>5 DEF RoutingInvAfter, TellsRounds
  <2> QED BY <1>2, <2>1, <2>6, RoutingInvFrom
<1>8. ASSUME Kill \/ Unblock \/ Quieten PROVE RoutingInv'
  <2>1. /\ UNCHANGED <<events, rung, reason, hit, roundRan, repeats, torn>>
        /\ quiet' \in BOOLEAN /\ state' \in {"running", "blocked", "killed", "merged"} /\ state # "merged"
    BY <1>2, <1>8 DEF Kill, Unblock, Quieten
  <2>2. RoutingInvAfter
    BY <1>1, <2>1 DEF RoutingInvAfter
  <2> QED BY <1>2, <2>1, <2>2, RoutingInvFrom
<1>9. ASSUME Reject \/ TurnDied \/ Park PROVE RoutingInv'
  <2>1. PICK new \in {<<"rejected">>, <<"turn_died">>, <<"rejected", "blocked">>} :
           /\ events' = events \o new /\ state = "running" /\ state' \in {"running", "blocked"}
           /\ hit' = IF new = <<"rejected", "blocked">> THEN "block"
                     ELSE IF hit = "nothing" THEN "failure" ELSE hit
           /\ UNCHANGED <<rung, reason, quiet, roundRan, repeats, torn>>
    BY <1>9 DEF Reject, TurnDied, Park, Log
  <2>2. new \in Seq({"rejected", "blocked", "turn_died"})
    BY <2>1
  <2>3. /\ Paired(events') /\ HasRestarted(events')
        /\ roundOpened(events') <=> roundOpened(events)
        /\ roundRepeated(events') <=> roundRepeated(events)
        /\ sinceOpened(events', ofRounds(events')) = Mine \cup {Len(events) + i : i \in 1 .. Len(new)}
    BY <1>1, <2>1, <2>2, PlainEvents DEF Mine
  <2> DEFINE more == {Len(events) + i : i \in 1 .. Len(new)}
  <2>4. \A i \in Mine : events'[i] = events[i]
    <3>1. Mine \subseteq 1 .. Len(events)
      BY <1>2 DEF Mine, sinceOpened
    <3> QED BY <1>2, <2>1, <2>2, <3>1
  <2>5. /\ (\E i \in more : events'[i] = "blocked") <=> new = <<"rejected", "blocked">>
        /\ \E i \in more : events'[i] \in Tried
    <3>1. \A i \in 1 .. Len(new) : events'[Len(events) + i] = new[i]
      BY <1>2, <2>1, <2>2
    <3>2. new[1] \in Tried /\ 1 \in 1 .. Len(new)
      BY <2>1 DEF Tried
    <3>3. (\E i \in 1 .. Len(new) : new[i] = "blocked") <=> new = <<"rejected", "blocked">>
      <4>1. CASE new = <<"rejected", "blocked">>
        BY <4>1
      <4>2. CASE new # <<"rejected", "blocked">>
        <5>1. Len(new) = 1 /\ new[1] # "blocked" /\ \A i \in 1 .. Len(new) : i = 1
          BY <2>1, <4>2
        <5> QED BY <4>2, <5>1
      <4> QED BY <4>1, <4>2
    <3> QED BY <3>1, <3>2, <3>3
  <2> HIDE DEF more
  <2>6. ~torn' => TellsHit(events', hit')
    <3>1. sinceOpened(events', ofRounds(events')) = Mine \cup more
      BY <2>3 DEF more
    <3>2. sinceOpened(events, ofRounds(events)) = Mine
      BY DEF Mine
    <3>3. ASSUME ~torn
          PROVE  TellsHit(events', IF \E i \in more : events'[i] = "blocked" THEN "block"
                                   ELSE IF hit = "nothing" THEN "failure" ELSE hit)
      BY <1>1, <2>4, <2>5, <3>1, <3>2, <3>3, TellsMore
    <3> QED BY <2>1, <2>5, <3>3
  <2>7. RoutingInvAfter
    BY <1>1, <2>1, <2>3, <2>6 DEF RoutingInvAfter, TellsRounds
  <2>8. hit' \in {"nothing", "failure", "block"}
    BY <1>2, <2>1
  <2> QED BY <1>2, <2>1, <2>7, <2>8, RoutingInvFrom
<1>10. ASSUME MergePr PROVE RoutingInv'
  <2>1. /\ state = "running" /\ events' = events \o <<"merge">>
        /\ state' = "merged" /\ repeats' = (repeats \/ roundRan) /\ roundRan' = FALSE
        /\ UNCHANGED <<rung, reason, quiet, hit, torn>>
    BY <1>10 DEF MergePr, Log
  <2>2. /\ Paired(events') /\ ~roundOpened(events')
        /\ roundRepeated(events') <=> roundRepeated(events) \/ roundOpened(events)
        /\ sinceOpened(events', ofRounds(events')) = Mine \cup {Len(events) + 1}
    BY <1>1, <2>1, MergeEvent DEF Mine
  <2>3. \A i \in Mine : events'[i] = events[i]
    <3>1. Mine \subseteq 1 .. Len(events)
      BY <1>2 DEF Mine, sinceOpened
    <3> QED BY <1>2, <2>1, <3>1
  <2>4. events'[Len(events) + 1] = "merge"
    BY <1>2, <2>1
  <2>5. ~torn' => TellsHit(events', hit')
    <3> DEFINE more == {Len(events) + 1}
    <3>1. /\ sinceOpened(events', ofRounds(events')) = Mine \cup more
          /\ ~\E i \in more : events'[i] = "blocked"
          /\ ~\E i \in more : events'[i] \in Tried
      BY <2>2, <2>4 DEF Tried
    <3>2. sinceOpened(events, ofRounds(events)) = Mine
      BY DEF Mine
    <3> HIDE DEF more
    <3>3. ASSUME ~torn
          PROVE  TellsHit(events', IF \E i \in more : events'[i] = "blocked" THEN "block"
                                   ELSE IF \E i \in more : events'[i] \in Tried
                                        THEN IF hit = "nothing" THEN "failure" ELSE hit
                                        ELSE hit)
      BY <1>1, <2>3, <3>1, <3>2, <3>3, TellsMore
    <3> QED BY <2>1, <3>1, <3>3
  <2>6. TellsRounds(events', roundRan', repeats')
    BY <1>1, <2>1, <2>2 DEF TellsRounds
  <2>7. RoutingInvAfter
    BY <2>1, <2>2, <2>5, <2>6 DEF RoutingInvAfter
  <2> QED BY <1>2, <2>1, <2>7, RoutingInvFrom
<1> QED BY <1>3, <1>4, <1>5, <1>6, <1>7, <1>8, <1>9, <1>10 DEF RoutingNext

PaysOnce ==
    (~torn /\ (\/ state = "killed" /\ state' = "running"
               \/ events' \in {Append(events, "respawn"), Append(events, "undelivered")})) =>
        rung' - rung = IF (hit = "failure" \/ (hit = "nothing" /\ quiet)) /\ rung < Top
                       THEN 1 ELSE 0
PaysForRounds ==
    (~torn /\ state = "merged" /\ state' = "running") =>
        rung' - rung = IF (IF roundRan THEN hit = "failure" ELSE repeats) /\ rung < Top
                       THEN 1 ELSE 0
LeavesTop ==
    (~torn /\ rung = Top) => \A who \in By \ {"operator"} :
        /\ state = "killed" /\ hit = "failure" => ~Relaunch(who)
        /\ state = "merged" /\ repeats /\ ~roundRan => ~FixRound(who)

\* A route recorded climbs by one, or not at all.
LEMMA RecordRouteClimbs ==
    ASSUME RouteTypes, NEW f, RecordRoute(f)
    PROVE  rung' - rung = IF climbs(f) /\ rung < Top THEN 1 ELSE 0
<1>1. rung \in Int
  BY DEF RouteTypes
<1>2. CASE climbs(f) /\ rung < Top
  BY <1>1, <1>2 DEF RecordRoute
<1>3. CASE ~(climbs(f) /\ rung < Top)
  <2>1. rung' = rung
    BY <1>3 DEF RecordRoute
  <2> QED BY <1>1, <1>3, <2>1
<1> QED BY <1>2, <1>3

\* The only events that are a respawn alone are a respawn's.
LEMMA RespawnsAlone ==
    ASSUME RoutingNext, events \in Seq(EventType),
           events' \in {Append(events, "respawn"), Append(events, "undelivered")}
    PROVE  state = "killed" \/ \E who \in By, isDelivered \in BOOLEAN : Respawn(who, isDelivered)
<1>1. Len(events) \in Nat /\ Len(events') = Len(events) + 1
      /\ events'[Len(events) + 1] \in {"respawn", "undelivered"}
  OBVIOUS
<1>2. ASSUME UNCHANGED events PROVE FALSE
  BY <1>1, <1>2
<1>3. ASSUME NEW r \in {"rejected", "turn_died", "merge"}, events' = events \o <<r>> PROVE FALSE
  <2>1. events'[Len(events) + 1] = r
    BY <1>1, <1>3
  <2> QED BY <1>1, <2>1
<1>4. ASSUME NEW r, NEW s, events' = events \o <<r, s>> PROVE FALSE
  <2>1. Len(<<r, s>>) = 2 /\ <<r, s>> \in Seq({r, s})
    OBVIOUS
  <2>2. Len(events') = Len(events) + 2
    BY <1>4, <2>1
  <2> QED BY <1>1, <2>2
<1>5. CASE \E who \in By : Relaunch(who)
  BY <1>5 DEF Relaunch
<1>6. CASE \E who \in By : FixRound(who) \/ FixRoundUndone(who)
  BY <1>4, <1>6 DEF FixRound, FixRoundUndone, Log
<1>7. CASE RespawnDies \/ Kill \/ Unblock \/ Quieten
  BY <1>2, <1>7 DEF RespawnDies, Kill, Unblock, Quieten
<1>8. CASE Reject \/ TurnDied \/ Park \/ MergePr
  BY <1>3, <1>4, <1>8 DEF Reject, TurnDied, Park, MergePr, Log
<1> QED BY <1>5, <1>6, <1>7, <1>8 DEF RoutingNext

LEMMA RungsPaid == ASSUME RoutingInv, RoutingNext PROVE PaysOnce /\ PaysForRounds /\ LeavesTop
<1>1. RouteTypes /\ events \in Seq(EventType) /\ Top = Top
  BY RoutingInvSays, RoutesTyped DEF RoutingTypeOK
<1>2. PaysOnce
  <2> SUFFICES ASSUME ~torn, \/ state = "killed" /\ state' = "running"
                             \/ events' \in {Append(events, "respawn"), Append(events, "undelivered")}
               PROVE  rung' - rung = IF (hit = "failure" \/ (hit = "nothing" /\ quiet)) /\ rung < Top
                                     THEN 1 ELSE 0
    BY DEF PaysOnce
  <2>1. \/ \E who \in By, isDelivered \in BOOLEAN : Respawn(who, isDelivered)
        \/ state = "killed"
    BY <1>1, RespawnsAlone
  <2>2. ASSUME state = "killed", \A who \in By : ~Relaunch(who) PROVE FALSE
    <3>1. state' # "running" /\ UNCHANGED events
      BY <2>2 DEF RoutingNext, FixRound, FixRoundUndone, Respawn, RespawnDies, Kill, Reject, TurnDied, Park,
                  Unblock, MergePr, Quieten
    <3>2. events' # Append(events, "respawn") /\ events' # Append(events, "undelivered")
      <4>1. Len(events) \in Nat /\ Len(Append(events, "respawn")) = Len(events) + 1 /\ Len(Append(events, "undelivered")) = Len(events) + 1
        BY <1>1
      <4> QED BY <3>1, <4>1
    <3> QED BY <3>1, <3>2
  <2>3. state # "merged" /\ RecordRoute(windowFailure(events, quiet))
    BY <2>1, <2>2 DEF Relaunch, Respawn
  <2> QED BY <1>1, <2>3, WindowFailureIs, RecordRouteClimbs
<1>3. PaysForRounds
  <2> SUFFICES ASSUME ~torn, state = "merged", state' = "running"
               PROVE  rung' - rung = IF (IF roundRan THEN hit = "failure" ELSE repeats) /\ rung < Top
                                     THEN 1 ELSE 0
    BY DEF PaysForRounds
  <2>1. PICK who \in By : FixRound(who)
    BY DEF RoutingNext, Relaunch, FixRoundUndone, Respawn, RespawnDies, Kill, Reject, TurnDied, Park,
           Unblock, MergePr, Quieten
  <2>2. RecordRoute(fixRoundFailure(events))
    BY <2>1 DEF FixRound
  <2> QED BY <1>1, <2>2, FixRoundFailureIs, RecordRouteClimbs
<1>4. LeavesTop
  <2> SUFFICES ASSUME ~torn, rung = Top, NEW who \in By \ {"operator"}
               PROVE  /\ state = "killed" /\ hit = "failure" => ~Relaunch(who)
                      /\ state = "merged" /\ repeats /\ ~roundRan => ~FixRound(who)
    BY DEF LeavesTop
  <2>1. ASSUME state = "killed", hit = "failure", Relaunch(who) PROVE FALSE
    <3>1. topReached(windowFailure(events, quiet))
      BY <2>1, WindowFailureIs DEF topReached
    <3> QED BY <2>1, <3>1 DEF Relaunch, decides
  <2>2. ASSUME state = "merged", repeats, ~roundRan, FixRound(who) PROVE FALSE
    <3>1. topReached(fixRoundFailure(events))
      BY <2>2, FixRoundFailureIs DEF topReached
    <3> QED BY <2>2, <3>1 DEF FixRound, decides
  <2> QED BY <2>1, <2>2
<1> QED BY <1>2, <1>3, <1>4

LEMMA RoutingInvHolds == Spec => [](Routes => RoutingInv /\ given \in Tiers)
<1> DEFINE Inv == Routes => RoutingInv /\ given \in Tiers
<1>1. Init => Inv
  <2> SUFFICES ASSUME Init, Routes PROVE RoutingInv /\ given \in Tiers
    OBVIOUS
  <2>1. RoutingInit
    BY DEF Init, Routes
  <2> QED BY <2>1, RoutingInvInit DEF RoutingInit
<1>2. Inv /\ [Next]_<<subject, given, partVars>> => Inv'
  <2> SUFFICES ASSUME Inv, [Next]_<<subject, given, partVars>>, Routes' PROVE (RoutingInv /\ given \in Tiers)'
    OBVIOUS
  <2>1. UNCHANGED <<subject, given>> /\ Routes /\ RoutingInv /\ Top' = Top
    BY DEF Next, Routes, Top
  <2>2. CASE RoutingNext
    BY <2>1, <2>2, RoutingInvStep
  <2>3. CASE UNCHANGED routingVars
    <3>1. RoutingTypeOK'
      BY <2>1, <2>3 DEF RoutingInv, RoutingTypeOK, routingVars
    <3>2. RoundsOK' <=> RoundsOK
      BY <2>3 DEF RoundsOK, routingVars
    <3>3. Mine' = Mine
      BY <2>3 DEF Mine, routingVars
    <3> QED BY <2>1, <2>3, <3>1, <3>2, <3>3 DEF RoutingInv, routingVars, Met
  <2> QED BY <2>1, <2>2, <2>3 DEF Next, Routes, partVars, routingVars
<1> QED BY <1>1, <1>2, PTL DEF Spec

\* For any log of any length: a rung is paid for by the window or the round it
\* is about, once, and the top one is the operator's to repeat (nextWindowRoute).
THEOREM RungsAreEarnedHolds == Spec => RungsAreEarned
<1> DEFINE Inv == Routes => RoutingInv /\ given \in Tiers
           OnceStep == (Routes /\ ~torn /\ (\/ state = "killed" /\ state' = "running"
                                            \/ events' \in {Append(events, "respawn"),
                                                            Append(events, "undelivered")})) =>
                          rung' - rung = IF (hit = "failure" \/ (hit = "nothing" /\ quiet)) /\ rung < Top
                                         THEN 1 ELSE 0
           RoundStep == (Routes /\ ~torn /\ state = "merged" /\ state' = "running") =>
                          rung' - rung = IF (IF roundRan THEN hit = "failure" ELSE repeats) /\ rung < Top
                                         THEN 1 ELSE 0
           TopStep == (Routes /\ ~torn /\ rung = Top) => \A who \in By \ {"operator"} :
                          /\ state = "killed" /\ hit = "failure" => ~Relaunch(who)
                          /\ state = "merged" /\ repeats /\ ~roundRan => ~FixRound(who)
<1>1. Inv /\ [Next]_<<subject, given, partVars>> =>
          [OnceStep]_routingVars /\ [RoundStep]_routingVars /\ [TopStep]_routingVars
  <2> SUFFICES ASSUME Inv, [Next]_<<subject, given, partVars>>, ~(UNCHANGED routingVars), Routes
               PROVE  PaysOnce /\ PaysForRounds /\ LeavesTop
    BY DEF PaysOnce, PaysForRounds, LeavesTop
  <2>1. RoutingNext
    BY DEF Next, Routes, partVars, routingVars
  <2> QED BY <2>1, RungsPaid
<1>2. Spec => []Inv
  BY RoutingInvHolds
<1> HIDE DEF Inv
<1>4. Spec => OneFailureOneRung
  BY <1>1, <1>2, PTL DEF Spec, OneFailureOneRung
<1>5. Spec => RoundsClimbOnRepeats
  BY <1>1, <1>2, PTL DEF Spec, RoundsClimbOnRepeats
<1>6. Spec => TopRungIsTheOperators
  BY <1>1, <1>2, PTL DEF Spec, TopRungIsTheOperators
<1> QED BY <1>4, <1>5, <1>6 DEF RungsAreEarned
-----------------------------------------------------------------------------
(* The parts of a review, and the inbox.                                   *)

LEMMA LandInvHolds == Spec => [](LandOf => LandInv) /\ PastIsKept
<1> DEFINE Inv == LandOf => LandInv
<1>1. Init => Inv
  BY LandInvInit DEF Init, LandOf
<1>2. ASSUME Inv, [Next]_<<subject, given, partVars>>
      PROVE  Inv' /\ [branchAt = "past" => branchAt' = "past"]_landVars
  <2>1. CASE LandOf
    <3>1. given' = given /\ (LandMergeNext \/ UNCHANGED landVars)
      BY <1>2, <2>1 DEF Next, LandOf, partVars
    <3>2. CASE LandMergeNext
      BY <1>2, <2>1, <3>1, <3>2, LandKeeps
    <3>3. CASE UNCHANGED landVars
      <4>1. UNCHANGED <<landing, event, tookFrom, toSteer, steered, unreached, overlapsTold>>
        BY <3>3 DEF landVars
      <4>2. LandInv'
        <5>1. GivenOK' = GivenOK /\ mergedOnto' = mergedOnto /\ Target' = Target
          BY <3>1, GivenStays
        <5>2. landedFiles' = landedFiles
          BY <4>1, <5>1 DEF landedFiles, Parent
        <5> QED BY <1>2, <2>1, <3>1, <4>1, <5>1, <5>2 DEF LandInv, IsTold
      <4> QED BY <3>3, <4>2
    <3> QED BY <3>1, <3>2, <3>3
  <2>2. CASE ~LandOf
    <3>1. ~LandOf' /\ UNCHANGED landVars
      BY <1>2, <2>2 DEF Next, LandOf, partVars
    <3> QED BY <3>1
  <2> QED BY <2>1, <2>2
<1> QED BY <1>1, <1>2, PTL DEF Spec, PastIsKept

\* `pup land` takes every honest landing of the pin and no other, keeps what is
\* past it and tells who is beside it (landSession).
THEOREM LandingIsThePinsHolds == Spec => LandingIsThePins
<1>1. (LandOf => LandInv) => LandedIsThePin /\ ButtonIsTaken /\ OverlapsAreTold
  BY LandedSuffices, ButtonSuffices DEF LandInv, OverlapsAreTold, IsTold
<1> QED BY <1>1, LandInvHolds, PTL DEF LandingIsThePins

LEMMA ReviewInvHolds == Spec => [](Reviewing => ReviewInv)
<1> DEFINE Inv == Reviewing => ReviewInv
<1>1. Init => Inv
  BY ReviewInvInit DEF Init, Reviewing
<1>2. ASSUME Inv, [Next]_<<subject, given, partVars>>
      PROVE  Inv'
  <2> SUFFICES ASSUME Reviewing' PROVE ReviewInv'
    OBVIOUS
  <2>1. Reviewing /\ (CiReviewNext \/ UNCHANGED reviewVars)
    BY <1>2 DEF Next, Reviewing, partVars
  <2>2. ReviewInv
    BY <1>2, <2>1
  <2>3. CASE CiReviewNext
    BY <2>2, <2>3, PushKeeps, CommentKeeps, PreflightKeeps, PreflightFailsKeeps, RunLostKeeps, ReviewKeeps,
       PostReviewKeeps, PostFailsKeeps, PostEachKeeps, PostBodyKeeps, SetStatusKeeps, RecordKeeps,
       EditFindingKeeps
       DEF CiReviewNext
  <2>4. CASE UNCHANGED reviewVars
    <3>1. UNCHANGED <<pull, commits, reviews, headStatus, asked, ciRun, pendingRun, prior, posted, read, shown, unsaid>>
      BY <2>4 DEF reviewVars, prVars, githubVars, ciVars
    <3>2. CommitsOK' /\ CiRunOK' /\ StatusOK'
      BY <2>2, <3>1 DEF ReviewInv, CommitsOK, CiRunOK, StatusOK
    <3>3. ReadOK'
      BY <2>2, <3>1 DEF ReviewInv, ReadOK, Ancestors, HoldsParents
    <3>4. ShownOK'
      BY <2>2, <3>1 DEF ReviewInv, ShownOK, openThreads, newestReviewRun
    <3> QED BY <3>2, <3>3, <3>4 DEF ReviewInv
  <2> QED BY <2>1, <2>3, <2>4
<1> QED BY <1>1, <1>2, PTL DEF Spec

\* `pup ci wait` says of a head only what is true of the reviews that were given,
\* whatever was pushed, asked, lost or posted in part meanwhile (reviewDigest).
THEOREM WaitIsTrueHolds == Spec => []WaitIsTrue
<1>1. (Reviewing => ReviewInv) => WaitIsTrue
  BY ReviewSuffices
<1> QED BY <1>1, ReviewInvHolds, PTL

LEMMA InboxInvHolds == Spec => [](subject = "inbox" => InboxInv /\ LineOK)
<1> DEFINE Inv == subject = "inbox" => InboxInv /\ LineOK
<1>1. Init => Inv
  BY InboxInvInit DEF Init
<1>2. ASSUME Inv, [Next]_<<subject, given, partVars>>
      PROVE  Inv'
  <2> SUFFICES ASSUME subject' = "inbox" PROVE InboxInv' /\ LineOK'
    OBVIOUS
  <2>1. subject = "inbox" /\ given' = given /\ (InboxNext \/ UNCHANGED inboxVars)
    BY <1>2 DEF Next, partVars
  <2>2. InboxInv /\ LineOK
    BY <1>2, <2>1
  <2>3. CASE \E inTime \in BOOLEAN : Look(inTime)
    BY <2>1, <2>2, <2>3, LookKeeps, LookTells
  <2>4. CASE UNCHANGED inboxVars
    <3>1. UNCHANGED <<rowState, eventLog, silent, conductor, targetAt, cache, line, unanswered, bumped, standing, why, wounds,
                      pinned, odd>>
      BY <2>4 DEF inboxVars, storeVars, worldVars, seenVars, truthVars
    <3>2. PICK was : was = Says(eventLog)
      OBVIOUS
    <3>3. was = Says(eventLog') /\ InboxOK' /\ AsksOK(was)' /\ PrOK(was)' /\ CacheOK' /\ WoundsOK(was)'
      <4>1. was = Says(eventLog')
        BY <3>1, <3>2
      <4>2. InboxOK' /\ CacheOK'
        BY <2>2, <3>1 DEF InboxInv, InboxOK, CacheOK
      <4>3. AsksOK(was)' /\ WoundsOK(was)'
        BY <2>2, <3>1, <3>2 DEF InboxInv, AsksOK, WoundsOK
      <4>4. PrOK(was)'
        BY <2>2, <3>1, <3>2 DEF InboxInv, PrOK
      <4> QED BY <4>1, <4>2, <4>3, <4>4
    <3>4. InboxInv'
      BY <3>3 DEF InboxInv, AsksOK, PrOK, WoundsOK
    <3>5. LineOK'
      BY <2>1, <2>2, <3>1 DEF LineOK, openPullRequest, newest
    <3> QED BY <3>4, <3>5
  <2>5. ASSUME InboxNext, ~ \E inTime \in BOOLEAN : Look(inTime) PROVE InboxInv'
    <3>1. CASE AskOperator \/ SteerSession \/ requestHandoff \/ Done \/ Hook \/ Ages \/ ConductorTurns
      BY <2>2, <3>1, AskKeeps, SteerKeeps, HandoffRequestKeeps, DoneKeeps, TurnsKeep
    <3>2. CASE (\E delivered \in BOOLEAN : Resume(delivered)) \/ Refuse
               \/ \E to \in {"running", "cap", "unreached", "cut"} : RejectOrBlock(to)
      BY <2>2, <3>2, ResumeKeeps, RefuseKeeps, RejectKeeps
    <3>3. CASE (\E n \in Gated \cup {0}, recorded \in BOOLEAN : MergeSession(n, recorded))
               \/ Fix \/ UnblockSession \/ KillSession \/ LaunchAgain
      BY <2>2, <3>3, MergeKeeps, FixKeeps, UnblockKeeps, KillKeeps, LaunchKeeps
    <3>4. CASE (\E asIs \in BOOLEAN : Land(asIs)) \/ Pull \/ Others \/ Rewind
      BY <2>2, <3>4, LandedKeeps, PullKeeps, OthersKeep, RewindKeeps
    <3> QED BY <2>5, <3>1, <3>2, <3>3, <3>4 DEF InboxNext
  <2>6. ASSUME InboxNext, ~ \E inTime \in BOOLEAN : Look(inTime) PROVE line' = "unread"
    BY <2>6 DEF InboxNext, AskOperator, SteerSession, requestHandoff, Done, Hook, Ages, ConductorTurns, Resume,
       Refuse, RejectOrBlock, MergeSession, Fix, UnblockSession, KillSession, LaunchAgain, Land, Pull, Others, Rewind, Moves
  <2>7. line' = "unread" => LineOK'
    BY DEF LineOK
  <2> QED BY <2>1, <2>3, <2>4, <2>5, <2>6, <2>7
<1> QED BY <1>1, <1>2, PTL DEF Spec

\* The inbox lists whoever waits on the operator, nobody else, and says why, however
\* long the log and wherever the target has moved (needsYou, blockedReason).
THEOREM InboxIsTrueHolds == Spec => []InboxIsTrue
<1>1. (subject = "inbox" => InboxInv /\ LineOK) => InboxIsTrue
  BY InboxSuffices
<1> QED BY <1>1, InboxInvHolds, PTL

LEMMA RecheckInvHolds == Spec => [](Rechecks => RecheckInv /\ given \in Makes)
<1> DEFINE Inv == Rechecks => RecheckInv /\ given \in Makes
<1>1. Init => Inv
  BY RecheckInvInit DEF Init, Rechecks, RecheckInit
<1>2. ASSUME Inv, [Next]_<<subject, given, partVars>> PROVE Inv'
  <2>1. CASE Rechecks
    <3>1. RecheckNext \/ UNCHANGED recheckVars
      BY <1>2, <2>1 DEF Next, Rechecks, partVars
    <3>2. RecheckInv /\ given \in Makes /\ given' = given /\ subject' = subject
      BY <1>2, <2>1 DEF Next
    <3>3. CASE UNCHANGED recheckVars
      <4>1. UNCHANGED <<content, head, merging, conflict, trouble, call, by, said, astray>>
        BY <3>3 DEF recheckVars, hookVars, historyVars
      <4>2. /\ Dirty' = Dirty /\ FromTarget' = FromTarget /\ Readable' = Readable
            /\ out_of_scope' = out_of_scope
        BY <4>1, ReadsStay
      <4>3. Removed' = Removed
        BY <4>1 DEF Removed
      <4>4. RecheckOK' /\ MergeIsTheTargets'
        BY <3>2, <4>1 DEF RecheckInv, RecheckOK, MergeIsTheTargets
      <4> QED BY <3>2, <4>1, <4>2, <4>3, <4>4, MoveKeeps
    <3> QED BY <3>1, <3>2, <3>3, RecheckKeeps
  <2>2. CASE ~Rechecks
    BY <1>2, <2>2 DEF Next, Rechecks, partVars
  <2> QED BY <2>1, <2>2
<1> QED BY <1>1, <1>2, PTL DEF Spec

\* For any calls beside each other, whatever they make and however long they run: a
\* write outside the scope is said to the call that made it, but where the path was
\* dirty before and kept a sum that tells nothing of it; and a call that kept to its
\* scope, undisturbed, is told of none (bash-recheck.sh, scope-enforce.sh).
THEOREM CallsAreToldTheirOwnHolds == Spec => []CallsAreToldTheirOwn
<1>1. (Rechecks => RecheckInv /\ given \in Makes) => CallsAreToldTheirOwn
  <2> SUFFICES ASSUME RecheckInv PROVE CallsAreToldTheirOwn
    BY DEF CallsAreToldTheirOwn, NoWriteGoesUnsaid, MergingInIsNoViolation
  <2>1. ASSUME NEW p \in Dirty \ FromTarget PROVE by[p] # AnEdit /\ IsSaid(p)
    <3>1. p \in Path /\ IsSaid(p)
      BY DEF RecheckInv, Dirty
    <3> QED BY <3>1, CallsAreNumbers DEF RecheckInv, RecheckOK, Nobody, AnEdit
  <2>2. \A c \in Calls \ astray : call[c].at # "told"
    BY DEF RecheckInv, IsUndisturbed
  <2> QED BY <2>1, <2>2 DEF CallsAreToldTheirOwn, NoWriteGoesUnsaid, MergingInIsNoViolation, IsSaid
<1> QED BY <1>1, RecheckInvHolds, PTL

LEMMA LinksInvHolds == Spec => [](subject = "links" => LinksInv)
<1>1. Init => (subject = "links" => LinksInv)
  BY LinksInvInit DEF Init
<1>2. ASSUME subject = "links" => LinksInv, [Next]_<<subject, given, partVars>>
      PROVE  (subject = "links" => LinksInv)'
  <2>1. subject' = subject /\ given' = given
    BY <1>2 DEF Next
  <2>2. CASE subject = "links"
    <3>1. LinksNext \/ UNCHANGED linksVars
      BY <1>2, <2>2 DEF Next, partVars
    <3>2. LinksInv'
      BY <1>2, <2>1, <2>2, <3>1, LinksInvKept
    <3> QED BY <3>2
  <2>3. CASE subject # "links"
    BY <2>1, <2>3
  <2> QED BY <2>2, <2>3
<1> QED BY <1>1, <1>2, PTL DEF Spec

\* For links with targets of any length: what the gate passes by where realpathSync
\* says that it leads, or when that does not resolve by its spelling, does not leave
\* the checkout, not even through a package put in it afterwards, where no target
\* climbs past another committed link (one that does may leave); a file that a link
\* gives a second name is not taken for one without; and each call is told its own
\* writes, where the path's sum tells (refuseEscapingLinks, readBranchTree,
\* bash-recheck.sh).
THEOREM BranchOwnsItsFilesHolds == Spec => []BranchOwnsItsFiles
<1>1. (subject = "links" => LinksInv) => LinksAreWhatTheyReach
  <2>1. subject # "links" => LinksAreWhatTheyReach
    BY DEF LinksAreWhatTheyReach, NoLinkEscapes, NoneReachesOutside, LinkedFileIsSource, Linking
  <2> QED BY <2>1, LinksSuffice
<1>2. LinksAreWhatTheyReach /\ CallsAreToldTheirOwn => BranchOwnsItsFiles
  BY DEF BranchOwnsItsFiles
<1> QED BY <1>1, <1>2, LinksInvHolds, CallsAreToldTheirOwnHolds, PTL

\* What the answers keep, and that nothing is posted while they rest.
AnswersKept ==
    IF subject = "answers" THEN AnswersInv
    ELSE replies = [t \in Thread |-> <<>>] /\ resolved = {} /\ summed = <<>>

LEMMA AnswersInvHolds == Spec => []AnswersKept /\ ResolvedIsEarned
<1> USE DEF AnswersKept
<1>1. Init => AnswersKept
  BY AnswersInvInit DEF Init, AnswersRests
<1>2. ASSUME AnswersKept, [Next]_<<subject, given, partVars>>
      PROVE  /\ AnswersKept'
             /\ [\A t \in resolved' \ resolved :
                    /\ t \in own
                    /\ \E i \in DOMAIN prEvents :
                          /\ prEvents[i].type = "session_done" /\ prEvents[i].says[t] = "fixed"
                          /\ \A j \in i + 1 .. Len(prEvents) :
                                prEvents[j].type = "session_done" => prEvents[j].says[t] = "nothing"]_answersVars
  <2>1. subject' = subject /\ given' = given
    BY <1>2 DEF Next
  <2>2. CASE subject = "answers" /\ AnswersNext
    <3>1. AnswersInv
      BY <1>2, <2>2
    <3>2. AnswersInv' /\ \A t \in resolved' \ resolved : t \in own /\ IsFixed(t)
      BY <2>1, <2>2, <3>1, AnswersKeeps, ResolvedByACall
    <3> QED BY <2>1, <2>2, <3>2 DEF IsFixed
  <2>3. CASE UNCHANGED answersVars
    <3>1. UNCHANGED <<tip, target, gated, own, replies, resolved, summed, review, prEvents, inRound, answers>>
      BY <2>3 DEF answersVars, gitVars, onGitHub
    <3>2. ASSUME AnswersInv PROVE AnswersInv'
      <4>1. BranchOK /\ PostsOK /\ RoundOK /\ SummaryIsTrue /\ AnsweringOK
        BY <3>2 DEF AnswersInv
      <4>2. BranchOK' /\ RoundOK'
        BY <2>1, <3>1, <4>1 DEF BranchOK, RoundOK, IsRound, IsOwned
      <4>3. PostsOK' /\ SummaryIsTrue'
        BY <3>1, <4>1, <4>2, PostsStay, PostsAre
      <4>4. AnsweringOK'
        BY <3>1, <4>1, CallStays
      <4> QED BY <4>2, <4>3, <4>4 DEF AnswersInv
    <3> QED BY <1>2, <2>1, <2>3, <3>1, <3>2
  <2>4. (subject = "answers" /\ AnswersNext) \/ UNCHANGED answersVars
    BY <1>2 DEF Next, partVars
  <2> QED BY <2>2, <2>3, <2>4
<1> HIDE DEF AnswersKept
<1> QED BY <1>1, <1>2, PTL DEF Spec, ResolvedIsEarned

\* For any threads, rounds, summaries and cuts: what was posted of a round is so,
\* and was posted once (answerFixRoundThreads).
THEOREM AnswersAreTrueHolds == Spec => AnswersAreTrue
<1>1. AnswersKept => AnsweredOncePerHead
  <2> SUFFICES ASSUME AnswersKept, NEW posts \in {summed} \cup {replies[t] : t \in Thread},
                      NEW i \in DOMAIN posts, NEW j \in DOMAIN posts, posts[i].sha = posts[j].sha
               PROVE  i = j
    BY DEF AnsweredOncePerHead
  <2>1. CASE subject = "answers"
    <3>1. PostsOK
      BY <2>1 DEF AnswersKept, AnswersInv
    <3> QED BY <3>1 DEF PostsOK, IsOncePerHead
  <2>2. CASE subject # "answers"
    <3>1. posts = <<>>
      BY <2>2 DEF AnswersKept
    <3> QED BY <3>1
  <2> QED BY <2>1, <2>2
<1>2. AnswersKept => SummaryIsTrue
  <2>1. CASE subject = "answers"
    BY <2>1 DEF AnswersKept, AnswersInv
  <2>2. CASE subject # "answers"
    BY <2>2 DEF AnswersKept, SummaryIsTrue
  <2> QED BY <2>1, <2>2
<1> QED BY <1>1, <1>2, AnswersInvHolds, PTL DEF AnswersAreTrue
-----------------------------------------------------------------------------
(* The types of the parts.                                                  *)

LEMMA ConductorTyped == ASSUME ConductorInit PROVE ConductorTypeOK
<1> USE ConductorAssumption DEF ConductorInit, ConductorRests
<1>1. 0 \in 0 .. Starts /\ 0 \in 0 .. MaxTips /\ 1 \in 1 .. MaxTips /\ 0 \in 0 .. MaxKills
  OBVIOUS
<1>2. start \in [1 .. Starts -> [at : StartPlace, graph : 0 .. MaxTips, targetTip : 0 .. MaxTips]]
  BY <1>1 DEF StartPlace
<1>3. conductorWindow \in [by : 0 .. Starts, graph : 0 .. MaxTips, told : SUBSET (1 .. Starts)]
  BY <1>1 DEF Closed
<1>4. Stale \in 0 .. Stale
  BY DEF Stale
<1> QED BY <1>1, <1>2, <1>3, <1>4 DEF ConductorTypeOK

StartTyped == [at : StartPlace, graph : 0 .. MaxTips, targetTip : 0 .. MaxTips]

\* One start's step.
LEMMA StartTypesKept ==
    ASSUME ConductorTypeOK, NEW s \in 1 .. Starts, NEW one \in StartTyped, start' = [start EXCEPT ![s] = one]
    PROVE  start' \in [1 .. Starts -> StartTyped]
BY DEF ConductorTypeOK, StartTyped

LEMMA StartPlacesKept ==
    ASSUME ConductorTypeOK, NEW s \in 1 .. Starts, NEW place \in StartPlace, StartGoes(s, place)
    PROVE  start' \in [1 .. Starts -> StartTyped]
<1>1. start[s] \in StartTyped /\ start' = [start EXCEPT ![s] = [start[s] EXCEPT !.at = place]]
  BY DEF ConductorTypeOK, StartTyped, StartGoes
<1>2. [start[s] EXCEPT !.at = place] \in StartTyped
  BY <1>1 DEF StartTyped
<1> QED BY <1>1, <1>2, StartTypesKept

LEMMA ConductorTypeKept == ASSUME ConductorTypeOK, ConductorNext PROVE ConductorTypeOK'
<1> USE ConductorAssumption
<1>1. /\ targetTip \in 1 .. MaxTips /\ checkout \in [dir : {"absent", "half", "cut"}, at : 0 .. MaxTips]
      /\ admin \in {"none", "kept", "locked"} /\ {profile, capFile} \subseteq 0 .. Starts
      /\ conductorWindow \in [by : 0 .. Starts, graph : 0 .. MaxTips, told : SUBSET (1 .. Starts)]
      /\ start \in [1 .. Starts -> StartTyped]
      /\ {radarUp, killed, beside} \subseteq BOOLEAN /\ kills \in 0 .. MaxKills
      /\ {radarBeat, radarGone} \subseteq 0 .. Stale
  BY DEF ConductorTypeOK, StartTyped
<1>2. 1 .. Starts \subseteq 0 .. Starts /\ 1 .. MaxTips \subseteq 0 .. MaxTips /\ 0 \in 0 .. Starts /\ 0 \in 0 .. MaxTips
  OBVIOUS
<1>3. Closed \in [by : 0 .. Starts, graph : 0 .. MaxTips, told : SUBSET (1 .. Starts)]
  BY <1>2 DEF Closed
<1>4. SUFFICES /\ targetTip' \in 1 .. MaxTips /\ checkout' \in [dir : {"absent", "half", "cut"}, at : 0 .. MaxTips]
               /\ admin' \in {"none", "kept", "locked"} /\ {profile', capFile'} \subseteq 0 .. Starts
               /\ conductorWindow' \in [by : 0 .. Starts, graph : 0 .. MaxTips, told : SUBSET (1 .. Starts)]
               /\ start' \in [1 .. Starts -> StartTyped]
               /\ {radarUp', killed', beside'} \subseteq BOOLEAN /\ kills' \in 0 .. MaxKills
               /\ {radarBeat', radarGone'} \subseteq 0 .. Stale
  BY DEF ConductorTypeOK, StartTyped
<1>5. ASSUME NEW s \in 1 .. Starts, Compile(s) \/ WriteCap(s) \/ AddRefused(s) \/ Close(s) \/ Undo(s)
      PROVE  <1>4!1
  <2>1. PICK place \in StartPlace : StartGoes(s, place)
    BY <1>5 DEF Compile, WriteCap, AddRefused, Close, Undo, codegraphBinary, StartPlace
  <2>2. start' \in [1 .. Starts -> StartTyped]
    BY <2>1, StartPlacesKept
  <2> QED BY <1>1, <1>2, <1>3, <1>5, <2>2
          DEF Compile, WriteCap, AddRefused, Close, Undo, CapWritten, RolledBack, radarVars
<1>6. ASSUME NEW s \in 1 .. Starts, Refreshed(s) \/ Recut(s) \/ Index(s) PROVE <1>4!1
  <2>1. start[s] \in StartTyped
    BY <1>1
  <2>2. PICK one \in StartTyped : start' = [start EXCEPT ![s] = one]
    <3>1. CASE Refreshed(s) \/ Recut(s)
      <4>1. \A place \in {"index", "prune"} : [at |-> place, graph |-> 0, targetTip |-> targetTip] \in StartTyped
        BY <1>1, <1>2 DEF StartTyped, StartPlace
      <4> QED BY <3>1, <4>1 DEF Refreshed, Recut
    <3>2. CASE Index(s)
      <4>1. PICK graph \in {0, checkout.at} :
               start' = [start EXCEPT ![s] = [at |-> "close", graph |-> graph, targetTip |-> start[s].targetTip]]
        BY <3>2 DEF Index
      <4>2. [at |-> "close", graph |-> graph, targetTip |-> start[s].targetTip] \in StartTyped
        BY <1>1, <1>2, <2>1, <4>1 DEF StartTyped, StartPlace
      <4> QED BY <4>1, <4>2
    <3> QED BY <1>6, <3>1, <3>2
  <2>3. start' \in [1 .. Starts -> StartTyped]
    BY <2>2, StartTypesKept
  <2>4. checkout' \in [dir : {"absent", "half", "cut"}, at : 0 .. MaxTips]
    BY <1>1, <1>2, <1>6 DEF Refreshed, Recut, Index, Detached, Dropped
  <2> QED BY <1>1, <1>6, <2>3, <2>4 DEF Refreshed, Recut, Index, radarVars
<1>7. ASSUME NEW s \in 1 .. Starts, Prune(s) \/ Add(s) \/ Cut(s) PROVE <1>4!1
  <2>1. start[s] \in StartTyped /\ start[s].targetTip \in 0 .. MaxTips
    BY <1>1 DEF StartTyped
  <2>2. UNCHANGED start \/ \E place \in StartPlace : StartGoes(s, place)
    BY <1>7 DEF Prune, Add, Cut, StartPlace
  <2>3. start' \in [1 .. Starts -> StartTyped]
    BY <1>1, <2>2, StartPlacesKept
  <2>4. checkout' \in [dir : {"absent", "half", "cut"}, at : 0 .. MaxTips]
    BY <1>1, <1>2, <1>7, <2>1, SMTT(30) DEF Prune, Add, Cut
  <2>5. admin' \in {"none", "kept", "locked"}
    BY <1>1, <1>7 DEF Prune, Add, Cut
  <2> QED BY <1>1, <1>7, <2>3, <2>4, <2>5 DEF Prune, Add, Cut, radarVars
<1>8. ASSUME NEW s \in 1 .. Starts, OpenWindow(s) \/ Kickoff(s) \/ StartDies(s) PROVE <1>4!1
  <2>1. start[s] \in StartTyped /\ start[s].graph \in 0 .. MaxTips
    BY <1>1 DEF StartTyped
  <2>2. Opened \in StartTyped
    BY <1>2 DEF Opened, StartTyped, StartPlace
  <2>3. start' \in [1 .. Starts -> StartTyped]
    <3>1. CASE OpenWindow(s)
      BY <2>2, <3>1, StartTypesKept DEF OpenWindow
    <3>2. CASE Kickoff(s) \/ StartDies(s)
      <4>1. PICK place \in StartPlace : StartGoes(s, place)
        BY <3>2 DEF Kickoff, StartDies, StartPlace
      <4> QED BY <4>1, StartPlacesKept
    <3> QED BY <1>8, <3>1, <3>2
  <2>4. conductorWindow' \in [by : 0 .. Starts, graph : 0 .. MaxTips, told : SUBSET (1 .. Starts)]
    BY <1>1, <1>2, <1>8, <2>1 DEF OpenWindow, Kickoff, StartDies
  <2>5. kills' \in 0 .. MaxKills
    BY <1>1, <1>8 DEF OpenWindow, Kickoff, StartDies
  <2> QED BY <1>1, <1>8, <2>3, <2>4, <2>5 DEF OpenWindow, Kickoff, StartDies, radarVars
<1>9. ASSUME Stop \/ Clear \/ MergeMovesTip PROVE <1>4!1
  <2>1. /\ UNCHANGED <<admin, profile, capFile, start, radarVars, killed, beside>>
        /\ checkout' \in {checkout, [dir |-> "absent", at |-> 0]} /\ conductorWindow' \in {conductorWindow, Closed}
    BY <1>1, <1>9 DEF Stop, Clear, MergeMovesTip
  <2>2. kills' \in 0 .. MaxKills /\ targetTip' \in 1 .. MaxTips
    BY <1>1, <1>9 DEF Stop, Clear, MergeMovesTip
  <2> QED BY <1>1, <1>2, <1>3, <2>1, <2>2 DEF radarVars
<1>10. ASSUME RadarSteps PROVE <1>4!1
  <2>1. UNCHANGED <<targetTip, checkout, admin, profile, capFile, conductorWindow, start, kills, killed, beside>>
    BY <1>10 DEF RadarSteps, ScanOverlaps, Watches, RadarEnds, IntervalPasses
  <2>2. /\ StaleSweeps \in Nat /\ Stale = StaleSweeps + 1
        /\ radarBeat \in 0 .. Stale /\ radarGone \in 0 .. Stale /\ radarUp \in BOOLEAN
        /\ 0 \in 0 .. Stale
    BY <1>1 DEF Stale
  <2>3. radarUp' \in BOOLEAN /\ radarBeat' \in 0 .. Stale /\ radarGone' \in 0 .. Stale
    <3>1. CASE ScanOverlaps \/ Watches \/ RadarEnds
      <4>1. radarUp' \in BOOLEAN
        BY <2>2, <3>1, Zenon DEF ScanOverlaps, Watches, RadarEnds
      <4>2. radarBeat' \in {0, radarBeat} /\ radarGone' \in {0, radarGone}
        BY <3>1, Zenon DEF ScanOverlaps, Watches, RadarEnds
      <4> QED BY <2>2, <4>1, <4>2
    <3>2. CASE IntervalPasses
      BY <2>2, <3>2 DEF IntervalPasses
    <3> QED BY <1>10, <3>1, <3>2 DEF RadarSteps
  <2> QED BY <1>1, <2>1, <2>3
<1>11. ASSUME NEW s \in 1 .. Starts, Radar(s) PROVE <1>4!1
  <2>1. StartGoes(s, "up") /\ "up" \in StartPlace
    BY <1>11 DEF Radar, StartPlace
  <2>2. start' \in [1 .. Starts -> StartTyped]
    BY <2>1, StartPlacesKept
  <2>3. radarUp' \in BOOLEAN /\ {radarBeat', radarGone'} \subseteq 0 .. Stale
    BY <1>1, <1>11 DEF Radar, Stale, Sweeping
  <2> QED BY <1>1, <1>11, <2>2, <2>3 DEF Radar
<1> QED BY <1>5, <1>6, <1>7, <1>8, <1>9, <1>10, <1>11 DEF ConductorNext

LEMMA BaselineTyped == ASSUME BaselineInit PROVE BaselineTypeOK
<1>1. 0 \in 0 .. MaxDup /\ 0 \in 0 .. MaxUpsets
  BY BaselineAssumption
<1>2. main \in Debt /\ bar \in Bar
  BY <1>1 DEF BaselineInit, BaselineStart, Debt, Bar, NoBar
<1> QED BY <1>1, <1>2 DEF BaselineInit, BaselineStart, BaselineTypeOK, NoGate, NoAudit

LEMMA MeasuredTyped == ASSUME NEW debt \in Debt PROVE Measured(debt) \in Bar
BY DEF Debt, Measured, Bar

LEMMA BaselineTypeKept == ASSUME BaselineTypeOK, BaselineNext PROVE BaselineTypeOK'
<1>1. /\ main \in Debt /\ works \subseteq Adapter /\ bar \in Bar
      /\ gate.on => gate.bar \in Bar /\ gate.found \in Bar /\ gate.branch \in Debt /\ gate.fresh \subseteq Export
      /\ audit.on => audit.previous \in Bar /\ audit.found \in Bar /\ audit.by \in {"operator", "land"}
      /\ known \subseteq Export /\ raced \in BOOLEAN /\ upsets \in 0 .. MaxUpsets
  BY DEF BaselineTypeOK
<1>2. \A b \in Bar : b.dead \subseteq Export
  BY DEF Bar
<1>3. CASE InitProject
  <2>1. bar' \in Bar
    BY <1>1, <1>3, MeasuredTyped DEF InitProject
  <2>2. raced' \in BOOLEAN
    BY <1>3 DEF InitProject
  <2> QED BY <1>1, <1>2, <1>3, <2>1, <2>2 DEF BaselineTypeOK, InitProject
<1>4. CASE GateDebt
  <2>1. PICK branch \in Debt :
           gate' = [on |-> TRUE, branch |-> branch, bar |-> bar, found |-> Measured(branch),
                    fresh |-> Fresh(bar, Measured(branch)), dupRose |-> DupRose(bar, Measured(branch))]
    BY <1>4 DEF GateDebt
  <2>2. Measured(branch) \in Bar /\ Fresh(bar, Measured(branch)) \subseteq Export
    BY <1>2, MeasuredTyped DEF Fresh
  <2>3. gate'.bar \in Bar /\ gate'.found \in Bar /\ gate'.branch \in Debt /\ gate'.fresh \subseteq Export
    BY <1>1, <2>1, <2>2
  <2>4. raced' \in BOOLEAN
    BY <1>4 DEF GateDebt
  <2> QED BY <1>1, <1>4, <2>3, <2>4 DEF BaselineTypeOK, GateDebt
<1>5. CASE Merge
  <2>1. gate.bar \in Bar /\ gate.found \in Bar /\ gate.branch \in Debt /\ ~gate'.on
    BY <1>1, <1>5, SMTT(30) DEF Merge, NoGate
  <2>2. Ratcheted(gate.bar, gate.found) \in Bar
    BY <2>1 DEF Bar, Ratcheted, RatchetsDup, RatchetsDead, comparableRule
  <2>3. bar' \in Bar
    BY <1>1, <1>5, <2>2 DEF Merge
  <2>4. main' \in Debt /\ known' \subseteq Export
    BY <1>1, <1>2, <1>5, <2>1, <2>3 DEF Merge
  <2> QED BY <1>1, <1>5, <2>1, <2>3, <2>4 DEF BaselineTypeOK, Merge
<1>6. CASE GateEnds
  BY <1>1, <1>6 DEF BaselineTypeOK, GateEnds, NoGate
<1>7. ASSUME NEW who \in {"operator", "land"}, Audit(who) PROVE BaselineTypeOK'
  <2>1. audit' = [on |-> TRUE, by |-> who, previous |-> bar, found |-> Measured(main)] /\ Measured(main) \in Bar
    BY <1>1, <1>7, MeasuredTyped DEF Audit
  <2>2. audit'.previous \in Bar /\ audit'.found \in Bar /\ audit'.by \in {"operator", "land"}
    BY <1>1, <2>1
  <2>3. raced' \in BOOLEAN
    BY <1>7 DEF Audit
  <2> QED BY <1>1, <1>7, <2>2, <2>3 DEF BaselineTypeOK, Audit
<1>8. CASE AuditEnds
  <2>1. bar' \in Bar /\ ~audit'.on
    BY <1>1, <1>8 DEF AuditEnds, NoAudit
  <2>2. known' \subseteq Export
    BY <1>1, <1>2, <1>8, <2>1 DEF AuditEnds
  <2> QED BY <1>1, <1>8, <2>1, <2>2 DEF BaselineTypeOK, AuditEnds
<1>9. CASE Upset
  <2>1. upsets' \in 0 .. MaxUpsets
    BY <1>1, <1>9, BaselineAssumption DEF Upset
  <2>2. works' \subseteq Adapter /\ bar' \in Bar
    <3>1. [bar EXCEPT !.rule = FALSE] \in Bar
      BY <1>1 DEF Bar
    <3>2. \A a \in Adapter : SymDiff(works, {a}) \subseteq Adapter
      BY <1>1 DEF SymDiff
    <3> QED BY <1>1, <1>9, <3>1, <3>2 DEF Upset
  <2> QED BY <1>1, <1>9, <2>1, <2>2 DEF BaselineTypeOK, Upset
<1> QED BY <1>3, <1>4, <1>5, <1>6, <1>7, <1>8, <1>9 DEF BaselineNext

LEMMA LinksTyped == ASSUME LinksInit PROVE LinksTypeOK
BY DEF LinksInit, LinksTypeOK

LEMMA LinksTypeKept ==
    ASSUME LinksTypeOK, LinksNext, given' = given
    PROVE  LinksTypeOK'
BY DEF LinksTypeOK, LinksNext, LinkEnvironment, Vet

\* A handoff's run in the bounds, with so many windows open.
HandoffRun(n) == [at : RunPlace, hard : BOOLEAN, doc : Documents, asked : 0 .. MaxEvents,
                  index : -1 .. MaxWork, pane : 0 .. n, crossed : BOOLEAN]

\* The runs that may have opened a window: each opens one.
Launched == {"stores", "kicks"} \cup Ended
Launches == {r \in Respawns : run[r].at \in Launched}

HandoffBounded == HandoffTypeOK /\ opened <= 1 + Cardinality(Launches)

LEMMA HandoffTyped == ASSUME HandoffInit PROVE HandoffBounded
<1>1. 0 \in 0 .. MaxEvents /\ 0 \in 0 .. MaxWork /\ -1 \in -1 .. MaxWork /\ 0 \in 0 .. MaxDocs
  BY HandoffAssumption
<1>2. NewRun \in HandoffRun(1)
  BY <1>1 DEF NewRun, HandoffRun, RunPlace, Documents
<1>3. IsFiniteSet(Respawns) /\ Launches \subseteq Respawns
  BY HandoffAssumption DEF Launches
<1>4. Cardinality(Respawns) \in Nat /\ Cardinality(Launches) \in Nat
  BY <1>3, FS_CardinalityType, FS_Subset
<1>5. run \in [Respawns -> HandoffRun(1)] /\ opened = 1
  BY <1>2 DEF HandoffInit, HandoffStart
<1>6. run \in [Respawns -> HandoffRun(opened)]
  BY <1>5
<1>7. log = <<>> /\ log \in Seq(Doc \cup {Asked}) /\ Len(log) <= MaxEvents
  BY <1>1 DEF HandoffInit, HandoffStart
<1>8. opened \in 1 .. 1 + Cardinality(Respawns) /\ {rowPane, window} \subseteq 0 .. opened
  BY <1>4, <1>5 DEF HandoffInit, HandoffStart
<1>9. row \in {"running", "ended", "round"} /\ told \in 0 .. MaxDocs /\ tree \in 0 .. MaxWork /\ waited \subseteq Respawns
      /\ file \in Doc \cup {NoDoc}
  BY <1>1 DEF HandoffInit, HandoffStart
<1> QED BY <1>4, <1>5, <1>6, <1>7, <1>8, <1>9 DEF HandoffTypeOK, HandoffBounded, HandoffRun, Documents

LEMMA LaunchesGrow ==
    ASSUME NEW s \in SUBSET Respawns, NEW t \in SUBSET Respawns, s \subseteq t
    PROVE  /\ Cardinality(s) \in Nat /\ Cardinality(t) \in Nat /\ Cardinality(Respawns) \in Nat
           /\ Cardinality(s) <= Cardinality(t) /\ Cardinality(t) <= Cardinality(Respawns)
           /\ \A r \in t \ s : Cardinality(s) + 1 <= Cardinality(t)
<1>1. IsFiniteSet(Respawns)
  BY HandoffAssumption
<1>2. IsFiniteSet(s) /\ IsFiniteSet(t)
  BY <1>1, FS_Subset
<1>3. /\ Cardinality(s) \in Nat /\ Cardinality(t) \in Nat /\ Cardinality(Respawns) \in Nat
      /\ Cardinality(s) <= Cardinality(t) /\ Cardinality(t) <= Cardinality(Respawns)
  BY <1>1, <1>2, FS_CardinalityType, FS_Subset
<1>4. ASSUME NEW r \in t \ s PROVE Cardinality(s) + 1 <= Cardinality(t)
  <2>1. Cardinality(s \cup {r}) = Cardinality(s) + 1
    BY <1>2, FS_AddElement
  <2>2. s \cup {r} \in SUBSET t
    OBVIOUS
  <2>3. Cardinality(s \cup {r}) <= Cardinality(t)
    BY <1>2, <2>2, FS_Subset
  <2> QED BY <2>1, <2>3
<1> QED BY <1>3, <1>4

\* A step of one run, which opens nothing.
LEMMA RunTypeKept ==
    ASSUME HandoffBounded, opened' = opened, NEW r \in Respawns, NEW one \in HandoffRun(opened),
           run' = [run EXCEPT ![r] = one], run[r].at \in Launched => one.at \in Launched
    PROVE  /\ run' \in [Respawns -> HandoffRun(opened)]
           /\ opened' <= 1 + Cardinality(Launches')
<1>1. run \in [Respawns -> HandoffRun(opened)] /\ opened \in Nat
  BY DEF HandoffBounded, HandoffTypeOK, HandoffRun, Documents
<1>2. run' \in [Respawns -> HandoffRun(opened)]
  BY <1>1
<1>3. Launches \subseteq Launches' /\ Launches \in SUBSET Respawns /\ Launches' \in SUBSET Respawns
  BY <1>1 DEF Launches
<1> QED BY <1>1, <1>2, <1>3, LaunchesGrow DEF HandoffBounded

LEMMA RunStepTyped ==
    ASSUME HandoffBounded, NEW r \in Respawns, RunStep(r) \/ RunDies(r), opened' = opened
    PROVE  \E one \in HandoffRun(opened) :
               run' = [run EXCEPT ![r] = one] /\ (run[r].at \in Launched => one.at \in Launched)
<1>1. /\ run \in [Respawns -> HandoffRun(opened)] /\ opened \in Nat \ {0} /\ file \in Documents
      /\ tree \in 0 .. MaxWork /\ log \in Seq(Doc \cup {Asked}) /\ Len(log) <= MaxEvents
  BY DEF HandoffBounded, HandoffTypeOK, HandoffRun, Documents
<1>2. run[r] \in HandoffRun(opened)
  BY <1>1
<1>3. ASSUME NEW place \in RunPlace PROVE [run[r] EXCEPT !.at = place] \in HandoffRun(opened)
  BY <1>2 DEF HandoffRun
<1>4. ASSUME NEW place \in RunPlace PROVE [NewRun EXCEPT !.at = place] \in HandoffRun(opened)
  <2>1. 0 \in 0 .. MaxEvents /\ -1 \in -1 .. MaxWork /\ 0 \in 0 .. opened
    BY <1>1, HandoffAssumption
  <2> QED BY <2>1 DEF HandoffRun, NewRun, Documents
<1>5. ASSUME NEW place \in RunPlace, RunGoes(r, place), run[r].at \in Launched => place \in Launched
      PROVE  \E one \in HandoffRun(opened) :
                 run' = [run EXCEPT ![r] = one] /\ (run[r].at \in Launched => one.at \in Launched)
  <2>1. run' = [run EXCEPT ![r] = [run[r] EXCEPT !.at = place]]
    BY <1>1, <1>5 DEF RunGoes
  <2>2. [run[r] EXCEPT !.at = place].at = place
    BY <1>2 DEF HandoffRun
  <2> QED BY <1>3, <1>5, <2>1, <2>2
<1>6. ASSUME NEW place \in Ended, Stops(r, place)
      PROVE  \E one \in HandoffRun(opened) :
                 run' = [run EXCEPT ![r] = one] /\ (run[r].at \in Launched => one.at \in Launched)
  <2>1. place \in RunPlace /\ [NewRun EXCEPT !.at = place].at \in Launched
    BY DEF Ended, RunPlace, NewRun, Launched
  <2> QED BY <1>4, <1>6, <2>1 DEF Stops
<1>7. ASSUME NEW hard \in BOOLEAN, NEW place \in {"relaunches", "asks"}, Enters(r, hard, place)
      PROVE  \E one \in HandoffRun(opened) :
                 run' = [run EXCEPT ![r] = one] /\ (run[r].at \in Launched => one.at \in Launched)
  <2> DEFINE one == [run[r] EXCEPT !.hard = hard, !.at = place]
  <2>1. run' = [run EXCEPT ![r] = one]
    BY <1>1, <1>7 DEF Enters
  <2>2. one \in HandoffRun(opened)
    BY <1>2 DEF HandoffRun, RunPlace
  <2>3. run[r].at \notin Launched
    BY <1>7 DEF Enters, Launched, Ended
  <2> QED BY <2>1, <2>2, <2>3
<1>8. CASE Begin(r) \/ BeginHard(r)
  BY <1>7, <1>8 DEF Begin, BeginHard
<1>9. CASE Ask(r) \/ SteerRequest(r) \/ Await(r) \/ KillOld(r) \/ StorePaneOf(r) \/ RunDies(r)
  <2>1. \/ \E place \in {"steers", "appends", "relaunches", "verifies", "kicks"} :
               RunGoes(r, place) /\ (run[r].at \in Launched => place \in Launched)
        \/ \E place \in {"refused", "failed"} : Stops(r, place)
    BY <1>9 DEF Ask, SteerRequest, Await, KillOld, StorePaneOf, RunDies, Launched, Ended
  <2> QED BY <1>5, <1>6, <2>1 DEF RunPlace, Ended
<1>10. CASE AppendAsk(r)
  <2> DEFINE one == [run[r] EXCEPT !.at = "awaits", !.asked = Len(log')]
  <2>0. log' = Append(log, Asked) /\ Len(log) < MaxEvents /\ run[r].at = "appends" /\ run' = [run EXCEPT ![r] = one]
    BY <1>10 DEF AppendAsk
  <2>1. Len(log') \in 0 .. MaxEvents
    BY <1>1, <2>0, HandoffAssumption
  <2>2. one \in HandoffRun(opened)
    BY <1>2, <2>1 DEF HandoffRun, RunPlace
  <2> QED BY <2>0, <2>2 DEF Launched, Ended
<1>11. CASE CheckRelaunch(r)
  <2> DEFINE doc == IF run[r].hard THEN NoDoc ELSE file
             one == [run[r] EXCEPT !.at = "kills", !.doc = doc]
  <2>1. one \in HandoffRun(opened)
    BY <1>1, <1>2 DEF HandoffRun, RunPlace, Documents
  <2>2. run[r].at = "relaunches" /\ (run' = [run EXCEPT ![r] = one] \/ Stops(r, "refused"))
    BY <1>1, <1>11 DEF CheckRelaunch
  <2> QED BY <1>6, <2>1, <2>2 DEF Launched, Ended
<1>12. CASE graphForRespawn(r)
  <2>1. ASSUME NEW index \in {-1, tree} PROVE [run[r] EXCEPT !.at = "launches", !.index = index] \in HandoffRun(opened)
    <3>1. index \in -1 .. MaxWork
      BY <1>1, HandoffAssumption
    <3> QED BY <1>2, <3>1 DEF HandoffRun, RunPlace
  <2>2. /\ run[r].at = "verifies"
        /\ \/ \E index \in {-1, tree} : run' = [run EXCEPT ![r] = [run[r] EXCEPT !.at = "launches", !.index = index]]
           \/ Stops(r, "failed")
    BY <1>1, <1>12 DEF graphForRespawn
  <2> QED BY <1>6, <2>1, <2>2 DEF Launched, Ended
<1>13. CASE OpenSuccessor(r)
  BY <1>1, <1>6, <1>13 DEF OpenSuccessor, Ended
<1>14. CASE Kick(r)
  <2> DEFINE one == [run[r] EXCEPT !.at = "done", !.doc = handedOver(r), !.pane = 0]
  <2>1. one \in HandoffRun(opened) /\ one.at = "done"
    <3>1. 0 \in 0 .. opened
      BY <1>1
    <3> QED BY <1>2, <3>1 DEF HandoffRun, RunPlace, handedOver
  <2>2. run' = [run EXCEPT ![r] = one] \/ Stops(r, "failed")
    BY <1>1, <1>14 DEF Kick
  <2> QED BY <1>6, <2>1, <2>2 DEF Launched, Ended
<1> QED BY <1>8, <1>9, <1>10, <1>11, <1>12, <1>13, <1>14 DEF RunStep

LEMMA OpenTypeKept ==
    ASSUME HandoffBounded, NEW r \in Respawns, OpenSuccessor(r), opened' # opened
    PROVE  /\ opened' = opened + 1 /\ window' = opened'
           /\ run' \in [Respawns -> HandoffRun(opened')]
           /\ opened' <= 1 + Cardinality(Launches')
<1>1. run \in [Respawns -> HandoffRun(opened)] /\ opened \in Nat
  BY DEF HandoffBounded, HandoffTypeOK, HandoffRun, Documents
<1>2. /\ run[r].at = "launches" /\ opened' = opened + 1 /\ window' = opened'
      /\ run' = [q \in Respawns |->
                    IF q = r THEN [run[r] EXCEPT !.at = "stores", !.pane = opened', !.index = -1, !.crossed = FALSE]
                    ELSE [run[q] EXCEPT !.crossed = @ \/ run[q].at \in {"verifies", "launches"}]]
  BY DEF OpenSuccessor
<1>3. HandoffRun(opened) \subseteq HandoffRun(opened')
  <2>1. 0 .. opened \subseteq 0 .. opened'
    BY <1>1, <1>2
  <2> QED BY <2>1 DEF HandoffRun
<1>4. [run[r] EXCEPT !.at = "stores", !.pane = opened', !.index = -1, !.crossed = FALSE] \in HandoffRun(opened')
  <2>1. run[r] \in HandoffRun(opened') /\ opened' \in 0 .. opened' /\ -1 \in -1 .. MaxWork
    BY <1>1, <1>2, <1>3, HandoffAssumption
  <2> QED BY <2>1 DEF HandoffRun, RunPlace
<1>5. ASSUME NEW q \in Respawns
      PROVE  [run[q] EXCEPT !.crossed = @ \/ run[q].at \in {"verifies", "launches"}] \in HandoffRun(opened')
  <2>1. run[q] \in HandoffRun(opened')
    BY <1>1, <1>3
  <2> QED BY <2>1 DEF HandoffRun
<1>6. run' \in [Respawns -> HandoffRun(opened')]
  BY <1>2, <1>4, <1>5
<1>7. r \in Launches' /\ r \notin Launches /\ Launches \subseteq Launches' /\ Launches \in SUBSET Respawns
      /\ Launches' \in SUBSET Respawns
  <2>1. run'[r].at = "stores"
    BY <1>1, <1>2 DEF HandoffRun
  <2>2. \A q \in Respawns \ {r} : run'[q].at = run[q].at
    BY <1>1, <1>2 DEF HandoffRun
  <2> QED BY <1>2, <2>1, <2>2 DEF Launches, Launched, Ended
<1>8. Cardinality(Launches) + 1 <= Cardinality(Launches')
  BY <1>7, LaunchesGrow
<1>9. Cardinality(Launches) \in Nat /\ Cardinality(Launches') \in Nat
  BY <1>7, LaunchesGrow
<1> QED BY <1>1, <1>2, <1>6, <1>8, <1>9 DEF HandoffBounded

LEMMA HandoffTypeKept == ASSUME HandoffBounded, HandoffNext PROVE HandoffBounded'
<1> USE HandoffAssumption
<1>1. /\ run \in [Respawns -> HandoffRun(opened)] /\ opened \in Nat \ {0} /\ file \in Documents
      /\ row \in {"running", "ended", "round"} /\ {rowPane, window} \subseteq 0 .. opened /\ told \in 0 .. MaxDocs
      /\ tree \in 0 .. MaxWork /\ log \in Seq(Doc \cup {Asked}) /\ Len(log) <= MaxEvents /\ waited \subseteq Respawns
  BY DEF HandoffBounded, HandoffTypeOK, HandoffRun, Documents
<1>2. /\ run' \in [Respawns -> HandoffRun(opened')] /\ opened' <= 1 + Cardinality(Launches')
      /\ opened' = opened \/ (opened' = opened + 1 /\ window' = opened')
  <2>1. CASE opened' = opened
    <3>1. CASE UNCHANGED run
      <4>1. Launches' = Launches
        BY <3>1 DEF Launches
      <4> QED BY <1>1, <2>1, <3>1, <4>1 DEF HandoffBounded
    <3>2. ASSUME NEW r \in Respawns, RunStep(r) \/ RunDies(r)
          PROVE  run' \in [Respawns -> HandoffRun(opened')] /\ opened' <= 1 + Cardinality(Launches')
      <4>1. PICK one \in HandoffRun(opened) :
               run' = [run EXCEPT ![r] = one] /\ (run[r].at \in Launched => one.at \in Launched)
        BY <2>1, <3>2, RunStepTyped
      <4> QED BY <2>1, <4>1, RunTypeKept
    <3> QED BY <2>1, <3>1, <3>2 DEF HandoffNext, WriteHandoff, markHandoffReady, Replace, Work, Leave
  <2>2. CASE opened' # opened
    <3>1. PICK r \in Respawns : OpenSuccessor(r)
      BY <2>2, ZenonT(30) DEF HandoffNext, RunStep, RunDies, Begin, BeginHard, Enters, Ask, SteerRequest, AppendAsk, Await,
             CheckRelaunch, KillOld, graphForRespawn, StorePaneOf, Kick, WriteHandoff, markHandoffReady, Replace,
             Work, Leave, sessionVars
    <3> QED BY <2>2, <3>1, OpenTypeKept, SMTT(30)
  <2> QED BY <2>1, <2>2
<1>3. opened' \in 1 .. 1 + Cardinality(Respawns)
  <2>1. Launches' \in SUBSET Respawns
    BY DEF Launches
  <2>2. Cardinality(Launches') <= Cardinality(Respawns) /\ Cardinality(Launches') \in Nat /\ Cardinality(Respawns) \in Nat
    BY <2>1, LaunchesGrow
  <2> QED BY <1>1, <1>2, <2>2, SMTT(30)
<1>4. ASSUME NEW r \in Respawns, RunStep(r) \/ RunDies(r)
      PROVE  /\ UNCHANGED <<row, told, tree, waited>>
             /\ file' \in {file, NoDoc} /\ rowPane' \in {rowPane, run[r].pane} /\ window' \in {window, 0, opened'}
             /\ UNCHANGED log \/ (log' = Append(log, Asked) /\ Len(log) < MaxEvents)
  BY <1>4 DEF RunStep, RunDies, Begin, BeginHard, Enters, Ask, SteerRequest, AppendAsk, Await, CheckRelaunch, KillOld,
              killTmux, graphForRespawn, OpenSuccessor, StorePaneOf, Kick, sessionVars
<1>5. CASE \E r \in Respawns : RunStep(r) \/ RunDies(r)
  <2>1. PICK r \in Respawns : RunStep(r) \/ RunDies(r)
    BY <1>5
  <2>2. run[r].pane \in 0 .. opened
    BY <1>1 DEF HandoffRun
  <2>3. {rowPane', window'} \subseteq 0 .. opened'
    BY <1>1, <1>2, <1>4, <2>1, <2>2, SMTT(30)
  <2>4. log' \in Seq(Doc \cup {Asked}) /\ Len(log') <= MaxEvents
    <3>1. UNCHANGED log \/ (log' = Append(log, Asked) /\ Len(log) < MaxEvents)
      BY <1>4, <2>1
    <3>2. CASE log' = Append(log, Asked) /\ Len(log) < MaxEvents
      BY <1>1, <3>2, AppendIs
    <3> QED BY <1>1, <3>1, <3>2
  <2>5. /\ row' \in {"running", "ended", "round"} /\ told' \in 0 .. MaxDocs /\ tree' \in 0 .. MaxWork
        /\ waited' \subseteq Respawns /\ file' \in Documents
    BY <1>1, <1>4, <2>1 DEF Documents
  <2> QED BY <1>2, <1>3, <2>3, <2>4, <2>5 DEF HandoffBounded, HandoffTypeOK, HandoffRun, Documents
<1>6. CASE WriteHandoff \/ Replace
  <2>1. /\ UNCHANGED <<row, rowPane, window, opened, log, tree, run, waited>> /\ Launches' = Launches
        /\ UNCHANGED told \/ (told < MaxDocs /\ told' = told + 1)
        /\ file' \in {NoDoc, told'} \cup (Forged .. told)
    BY <1>6 DEF WriteHandoff, Replace, sessionVars, Launches
  <2>2. told' \in 0 .. MaxDocs
    BY <1>1, <2>1
  <2>3. file' \in Documents
    BY <1>1, <2>1, <2>2 DEF Documents, Doc, Forged
  <2> QED BY <1>1, <1>2, <1>3, <2>1, <2>2, <2>3 DEF HandoffBounded, HandoffTypeOK, HandoffRun, Documents
<1>7. CASE markHandoffReady
  <2>1. /\ UNCHANGED <<row, rowPane, window, opened, told, file, tree, run, waited>>
        /\ file # NoDoc /\ log' = Append(log, file) /\ Len(log) < MaxEvents
    BY <1>7 DEF markHandoffReady, sessionVars
  <2>2. log' \in Seq(Doc \cup {Asked}) /\ Len(log') <= MaxEvents
    BY <1>1, <2>1 DEF Documents
  <2> QED BY <1>1, <1>2, <1>3, <2>1, <2>2 DEF HandoffBounded, HandoffTypeOK, HandoffRun, Documents
<1>8. CASE Work
  <2>1. UNCHANGED <<row, rowPane, window, opened, told, file, log, run, waited>> /\ tree' \in 0 .. MaxWork
    BY <1>1, <1>8 DEF Work, sessionVars
  <2> QED BY <1>1, <1>2, <1>3, <2>1 DEF HandoffBounded, HandoffTypeOK, HandoffRun, Documents
<1>9. CASE Leave
  <2>1. /\ UNCHANGED <<rowPane, opened, told, file, log, tree, run>> /\ window' \in {0, window}
        /\ row' \in {"ended", "round"} /\ waited' \subseteq Respawns
    BY <1>1, <1>9 DEF Leave
  <2> QED BY <1>1, <1>2, <1>3, <2>1 DEF HandoffBounded, HandoffTypeOK, HandoffRun, Documents
<1> QED BY <1>5, <1>6, <1>7, <1>8, <1>9 DEF HandoffNext

\* What the theorems above keep of a part, and each part in its bounds.
PartsKept ==
    /\ (Reviewing => ReviewInv) /\ (LandOf => LandInv) /\ (Rechecks => RecheckInv /\ given \in Makes)
    /\ (subject = "inbox" => InboxInv /\ LineOK) /\ (Routes => RoutingInv /\ given \in Tiers)
    /\ AnswersKept

PartsTyped ==
    /\ subject \in PartNames
    /\ Conducts => ConductorTypeOK
    /\ Barred => BaselineTypeOK
    /\ subject = "links" => LinksTypeOK
    /\ Reviewing => CiBounded
    /\ subject = "answers" => AnswersBounded
    /\ LandOf => LandMergeTypeOK
    /\ HandsOff => HandoffBounded
    /\ Rechecks => RecheckTypeOK
    /\ subject = "inbox" => InboxBounded

LEMMA PartsTypedInit == Init => PartsTyped
<1> SUFFICES ASSUME Init PROVE PartsTyped
  OBVIOUS
<1>1. subject \in PartNames
  BY PartsAssumption DEF Init
<1>2. /\ Conducts => ConductorTypeOK
      /\ Barred => BaselineTypeOK
      /\ subject = "links" => LinksTypeOK
  BY ConductorTyped, BaselineTyped, LinksTyped DEF Init, Conducts, Barred
<1>3. /\ Reviewing => CiBounded
      /\ subject = "answers" => AnswersBounded
      /\ LandOf => LandMergeTypeOK
  BY CiReviewTyped, AnswersTyped, LandMergeTyped DEF Init, Reviewing, LandOf
<1>4. /\ HandsOff => HandoffBounded
      /\ Rechecks => RecheckTypeOK
      /\ subject = "inbox" => InboxBounded
  BY HandoffTyped, RecheckTyped, InboxTyped DEF Init, HandsOff, Rechecks
<1> QED BY <1>1, <1>2, <1>3, <1>4 DEF PartsTyped

LEMMA PartsTypeKept ==
    ASSUME PartsKept, PartsTyped, [Next]_<<subject, given, partVars>>, PartsKept'
    PROVE  PartsTyped'
<1>1. subject' = subject /\ given' = given
  BY DEF Next
<1>2. Conducts => ConductorTypeOK'
  <2> SUFFICES ASSUME Conducts PROVE ConductorTypeOK'
    OBVIOUS
  <2>1. ConductorTypeOK /\ (ConductorNext \/ UNCHANGED conductorVars)
    BY DEF PartsTyped, Next, Conducts, partVars
  <2>2. CASE UNCHANGED conductorVars
    BY <2>1, <2>2 DEF conductorVars, radarVars, ConductorTypeOK
  <2> QED BY <2>1, <2>2, ConductorTypeKept
<1>3. Barred => BaselineTypeOK'
  <2> SUFFICES ASSUME Barred PROVE BaselineTypeOK'
    OBVIOUS
  <2>1. BaselineTypeOK /\ (BaselineNext \/ UNCHANGED baselineVars)
    BY DEF PartsTyped, Next, Barred, partVars
  <2>2. CASE UNCHANGED baselineVars
    BY <2>1, <2>2 DEF baselineVars, BaselineTypeOK
  <2> QED BY <2>1, <2>2, BaselineTypeKept
<1>4. subject = "links" => LinksTypeOK'
  <2> SUFFICES ASSUME subject = "links" PROVE LinksTypeOK'
    OBVIOUS
  <2>1. LinksTypeOK /\ (LinksNext \/ UNCHANGED linksVars)
    BY DEF PartsTyped, Next, partVars
  <2>2. CASE UNCHANGED linksVars
    BY <1>1, <2>1, <2>2 DEF linksVars, LinksTypeOK
  <2> QED BY <1>1, <2>1, <2>2, LinksTypeKept
<1>5. Reviewing => CiBounded'
  <2> SUFFICES ASSUME Reviewing PROVE CiBounded'
    OBVIOUS
  <2>1. ReviewInv /\ CiBounded /\ (CiReviewNext \/ UNCHANGED reviewVars)
    BY DEF PartsKept, PartsTyped, Next, Reviewing, partVars
  <2>2. CASE UNCHANGED reviewVars
    BY <2>1, <2>2 DEF reviewVars, prVars, githubVars, ciVars, CiBounded
  <2> QED BY <2>1, <2>2, CiReviewTypeKept
<1>6. subject = "answers" => AnswersBounded'
  <2> SUFFICES ASSUME subject = "answers" PROVE AnswersBounded'
    OBVIOUS
  <2>1. AnswersBounded /\ (AnswersNext \/ UNCHANGED answersVars)
    BY DEF PartsTyped, Next, partVars
  <2>2. CASE UNCHANGED answersVars
    <3>1. AnswersInv'
      BY <1>1 DEF PartsKept, AnswersKept
    <3> QED BY <2>1, <2>2, <3>1 DEF answersVars, AnswersBounded
  <2> QED BY <1>1, <2>1, <2>2, AnswersTypeKept
<1>7. LandOf => LandMergeTypeOK'
  <2> SUFFICES ASSUME LandOf PROVE LandMergeTypeOK'
    OBVIOUS
  <2>1. LandInv /\ LandMergeTypeOK /\ (LandMergeNext \/ UNCHANGED landVars)
    BY DEF PartsKept, PartsTyped, Next, LandOf, partVars
  <2>2. CASE UNCHANGED landVars
    BY <2>1, <2>2 DEF landVars, LandMergeTypeOK
  <2> QED BY <2>1, <2>2, LandMergeTypeKept
<1>8. HandsOff => HandoffBounded'
  <2> SUFFICES ASSUME HandsOff PROVE HandoffBounded'
    OBVIOUS
  <2>1. HandoffBounded /\ (HandoffNext \/ UNCHANGED handoffVars)
    BY DEF PartsTyped, Next, HandsOff, partVars
  <2>2. CASE UNCHANGED handoffVars
    BY <2>1, <2>2 DEF handoffVars, sessionVars, HandoffBounded, HandoffTypeOK, Launches
  <2> QED BY <2>1, <2>2, HandoffTypeKept
<1>9. Rechecks => RecheckTypeOK'
  <2> SUFFICES ASSUME Rechecks PROVE RecheckTypeOK'
    OBVIOUS
  <2>1. RecheckInv /\ given \in Makes /\ RecheckTypeOK /\ (RecheckNext \/ UNCHANGED recheckVars)
    BY DEF PartsKept, PartsTyped, Next, Rechecks, partVars
  <2>2. CASE UNCHANGED recheckVars
    BY <2>1, <2>2 DEF recheckVars, hookVars, historyVars, RecheckTypeOK
  <2> QED BY <2>1, <2>2, RecheckTypeKept
<1>10. subject = "inbox" => InboxBounded'
  <2> SUFFICES ASSUME subject = "inbox" PROVE InboxBounded'
    OBVIOUS
  <2>1. InboxInv /\ InboxBounded /\ (InboxNext \/ UNCHANGED inboxVars)
    BY DEF PartsKept, PartsTyped, Next, partVars
  <2>2. CASE UNCHANGED inboxVars
    BY <1>1, <2>1, <2>2 DEF inboxVars, storeVars, worldVars, seenVars, truthVars, InboxBounded, Before
  <2> QED BY <1>1, <2>1, <2>2, InboxTypeKept
<1>11. subject' \in PartNames
  BY <1>1 DEF PartsTyped
<1> QED BY <1>1, <1>2, <1>3, <1>4, <1>5, <1>6, <1>7, <1>8, <1>9, <1>10, <1>11
        DEF PartsTyped, Conducts, Barred, Reviewing, LandOf, HandsOff, Rechecks

\* Every part's variables stay in their types and under their bounds, for any fleet,
\* log and run of commands: a window, a head or a log entry is one that was made.
THEOREM TypeCorrect == Spec => []RulesTypeOK
<1>1. Spec => []PartsKept
  BY ReviewInvHolds, LandInvHolds, RecheckInvHolds, InboxInvHolds, RoutingInvHolds, AnswersInvHolds, PTL
  DEF PartsKept
<1>2. PartsKept /\ PartsTyped => RulesTypeOK
  <2> SUFFICES ASSUME PartsKept, PartsTyped PROVE RulesTypeOK
    OBVIOUS
  <2>1. subject = "routing" => RoutingTypeOK
    BY DEF PartsKept, Routes, RoutingInv
  <2>2. subject = "cireview" => CiReviewTypeOK
    BY CiReviewTypedBy DEF PartsKept, PartsTyped, Reviewing
  <2>3. subject = "answers" => AnswersTypeOK
    BY AnswersTypedBy DEF PartsTyped
  <2>4. subject = "handoff" => HandoffTypeOK
    BY DEF PartsTyped, HandsOff, HandoffBounded
  <2>5. subject = "inbox" => InboxTypeOK
    BY InboxTypedBy DEF PartsKept, PartsTyped
  <2>6. /\ subject \in PartNames
        /\ subject = "conductor" => ConductorTypeOK
        /\ subject = "baseline" => BaselineTypeOK
        /\ subject = "links" => LinksTypeOK
        /\ subject = "landmerge" => LandMergeTypeOK
        /\ subject = "recheck" => RecheckTypeOK
    BY DEF PartsTyped, Conducts, Barred, LandOf, Rechecks
  <2> QED BY <2>1, <2>2, <2>3, <2>4, <2>5, <2>6, Zenon DEF PartNames, RulesTypeOK
<1> QED BY <1>1, <1>2, PartsTypedInit, PartsTypeKept, PTL DEF Spec
=============================================================================
