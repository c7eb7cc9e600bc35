------------------------------- MODULE Rules --------------------------------
(***************************************************************************)
(* The parts of pup that decide from a record: the rung of a launch, the    *)
(* conductor that is told, the debt that is the bar, the links that are     *)
(* followed, the review, the answers and the landing of a pull request, a   *)
(* handoff, the scope of a call and the needs-you inbox. They share no      *)
(* state, so each is followed with the others at rest.                      *)
(***************************************************************************)
EXTENDS Routing, Conductor, Baseline, Links, CiReview, Answers,
        LandMerge, Handoff, Recheck, Inbox

CONSTANTS
    Parts  \* the parts a run looks at

PartNames == {"routing", "conductor", "baseline", "links", "cireview",
              "answers", "landmerge", "handoff", "recheck", "inbox"}

ASSUME PartsAssumption == Parts \subseteq PartNames

partVars == <<routingVars, conductorVars, baselineVars, linksVars, reviewVars,
              answersVars, landVars, handoffVars, recheckVars, inboxVars>>

\* One part begins, the others rest
Init ==
    /\ subject \in Parts
    /\ IF subject = "routing" THEN RoutingInit ELSE RoutingRests
    /\ IF subject = "conductor" THEN ConductorInit ELSE ConductorRests
    /\ IF subject = "baseline" THEN BaselineInit ELSE BaselineRests
    /\ IF subject = "links" THEN LinksInit ELSE LinksRests
    /\ IF subject = "cireview" THEN CiReviewInit ELSE CiReviewRests
    /\ IF subject = "answers" THEN AnswersInit ELSE AnswersRests
    /\ IF subject = "landmerge" THEN LandMergeInit ELSE LandMergeRests
    /\ IF subject = "handoff" THEN HandoffInit ELSE HandoffRests
    /\ IF subject = "recheck" THEN RecheckInit ELSE RecheckRests
    /\ IF subject = "inbox" THEN InboxInit ELSE InboxRests

Next ==
    /\ UNCHANGED <<subject, given>>
    /\ IF subject = "routing" THEN RoutingNext ELSE UNCHANGED routingVars
    /\ IF subject = "conductor" THEN ConductorNext ELSE UNCHANGED conductorVars
    /\ IF subject = "baseline" THEN BaselineNext ELSE UNCHANGED baselineVars
    /\ IF subject = "links" THEN LinksNext ELSE UNCHANGED linksVars
    /\ IF subject = "cireview" THEN CiReviewNext ELSE UNCHANGED reviewVars
    /\ IF subject = "answers" THEN AnswersNext ELSE UNCHANGED answersVars
    /\ IF subject = "landmerge" THEN LandMergeNext ELSE UNCHANGED landVars
    /\ IF subject = "handoff" THEN HandoffNext ELSE UNCHANGED handoffVars
    /\ IF subject = "recheck" THEN RecheckNext ELSE UNCHANGED recheckVars
    /\ IF subject = "inbox" THEN InboxNext ELSE UNCHANGED inboxVars

Spec == Init /\ [][Next]_<<subject, given, partVars>>
-----------------------------------------------------------------------------
\* What the gate and the hooks take for the branch's own files is the branch's:
\* over the links of the gate's checkout, and over the writes of a Bash call
\* (linkEnvironment, readBranchTree, the scope recheck).
BranchOwnsItsFiles == LinksAreWhatTheyReach /\ CallsAreToldTheirOwn

\* The values each part's variables take, while it is the subject.
RulesTypeOK ==
    CASE subject = "routing" -> RoutingTypeOK
      [] subject = "conductor" -> ConductorTypeOK
      [] subject = "baseline" -> BaselineTypeOK
      [] subject = "links" -> LinksTypeOK
      [] subject = "cireview" -> CiReviewTypeOK
      [] subject = "answers" -> AnswersTypeOK
      [] subject = "landmerge" -> LandMergeTypeOK
      [] subject = "handoff" -> HandoffTypeOK
      [] subject = "recheck" -> RecheckTypeOK
      [] subject = "inbox" -> InboxTypeOK
=============================================================================
