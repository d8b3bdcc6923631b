------------------------ MODULE GitOpsPromotionProofs ------------------------
(***************************************************************************)
(* Proofs about GitOpsPromotion, for any number of pushes, reruns,         *)
(* dispatched builds and promotions, and lost artifacts.                   *)
(***************************************************************************)
EXTENDS GitOpsPromotion, TLAPS

\* The parts of TypeOK that the steps change separately.
BuildType ==
  /\ pushed \in 0 .. MaxPushes /\ building \in 0 .. MaxPushes
  /\ valuesAt \in [Commits -> Pairs]
  /\ todo \in [Commits -> SUBSET Services] /\ files \in [Commits -> SUBSET Services]
  /\ outputs \in [Commits -> {NoPair} \cup {PairOf(c) : c \in Commits}]
  /\ attested \subseteq Services \X Commits

GroupType ==
  /\ promoting \in Promotions \cup {Idle} /\ waiting \in Promotions \cup {Idle}
  /\ opened \in BOOLEAN
  /\ opened => promoting # Idle

ProposalType == \A p \in proposals : p.promotion \in Promotions /\ p.checked \in BOOLEAN

SpentType ==
  spent \in [reruns : 0 .. MaxReruns, manual : 0 .. MaxManual, expired : 0 .. MaxExpired]

StagingType == main \in Pairs /\ mixed \in BOOLEAN

TypeInv == StagingType /\ BuildType /\ GroupType /\ ProposalType /\ SpentType

LEMMA TypeInvImplies == TypeInv => TypeOK
  BY DEF TypeInv, StagingType, BuildType, GroupType, ProposalType, SpentType, TypeOK

LEMMA PairOfType ==
  ASSUME NEW c \in 0 .. MaxPushes
  PROVE  PairOf(c) \in Pairs
  BY DEF PairOf, Pairs

(* Nobody is called by nobody: the idle place is not a promotion. *)
LEMMA IdleIsNoPromotion == \A p \in Promotions : p # Idle
<1>1. \A p \in Promotions : p.by <= MaxPushes
  BY PushAssumption DEF Promotions, Operator, Commits
<1>2. Idle.by = MaxPushes + 1
  BY DEF Idle
<1>3. QED BY <1>1, <1>2, PushAssumption DEF Promotions, Operator, Commits

(* A counter that is spent stays within its bound. *)
LEMMA SpendType ==
  ASSUME SpentType,
         \/ Spend("reruns", MaxReruns) \/ Spend("manual", MaxManual)
         \/ Spend("expired", MaxExpired) \/ UNCHANGED spent
  PROVE  SpentType'
  BY PromotionBounds DEF Spend, SpentType

(* Whether a run is cancelled or not, the group stays a group. *)
LEMMA CancelType ==
  ASSUME GroupType, CancelBuild
  PROVE  GroupType'
<1>1. CASE building = 0
  BY <1>1 DEF CancelBuild, groupVars, GroupType
<1>2. CASE building # 0
  <2>1. promoting' = (IF promoting.by = building THEN Idle ELSE promoting)
    BY <1>2 DEF CancelBuild, Leave
  <2>2. waiting' = (IF waiting.by = building THEN Idle ELSE waiting)
    BY <1>2 DEF CancelBuild, Leave
  <2>3. opened' = (opened /\ promoting.by # building)
    BY <1>2 DEF CancelBuild, Leave
  <2>4. promoting' \in Promotions \cup {Idle} /\ waiting' \in Promotions \cup {Idle}
    BY <2>1, <2>2 DEF GroupType
  <2>5. opened' \in BOOLEAN
    BY <2>3
  <2>6. opened' => promoting' # Idle
    BY <2>1, <2>3 DEF GroupType
  <2>7. QED BY <2>4, <2>5, <2>6 DEF GroupType
<1>3. QED BY <1>1, <1>2

LEMMA EnterType ==
  ASSUME GroupType, NEW p \in Promotions, Enter(p)
  PROVE  GroupType'
  BY IdleIsNoPromotion DEF Enter, GroupType

(* A pull request is its promotion and whether its checks ran. *)
LEMMA ProposalFields ==
  ASSUME NEW p \in Promotions, NEW b \in BOOLEAN,
         NEW q, q = [promotion |-> p, checked |-> b]
  PROVE  q.promotion \in Promotions /\ q.checked \in BOOLEAN
<1>1. q.promotion = p /\ q.checked = b
  BY ZenonT(20)
<1>2. QED BY <1>1, Zenon

(* The inductive form of the type invariant: only a promotion opens a pull request. *)
LEMMA TypeInvariant == Spec => []TypeInv
<1> USE PushAssumption, PromotionBounds
<1>1. Init => TypeInv
  <2> SUFFICES ASSUME Init PROVE TypeInv
    OBVIOUS
  <2>1. PairOf(0) \in Pairs
    BY PairOfType
  <2>2. StagingType
    BY <2>1 DEF Init, StagingInit, StagingType
  <2>3. BuildType
    BY <2>1 DEF Init, BuildType
  <2>4. GroupType
    BY DEF Init, GroupType
  <2>5. ProposalType /\ SpentType
    BY DEF Init, ProposalType, SpentType
  <2>6. QED BY <2>2, <2>3, <2>4, <2>5 DEF TypeInv
<1>2. TypeInv /\ [Next]_vars => TypeInv'
  <2> SUFFICES ASSUME TypeInv, [Next]_vars PROVE TypeInv'
    OBVIOUS
  <2> USE DEF TypeInv, buildVars, groupVars
  <2>s. UNCHANGED stagingVars => StagingType'
    BY DEF StagingType, stagingVars
  <2>1. ASSUME Push PROVE TypeInv'
    <3>1. pushed + 1 \in Commits /\ pushed + 1 \in 0 .. MaxPushes
      BY <2>1 DEF Push, BuildType, Commits
    <3>2. BuildType'
      BY <2>1, <3>1 DEF Push, BuildType, StagingType
    <3>3. GroupType'
      BY <2>1, CancelType DEF Push
    <3>4. QED BY <2>s, <2>1, <3>2, <3>3 DEF Push, ProposalType, SpentType
  <2>2. ASSUME NEW c \in Commits, Rerun(c) PROVE TypeInv'
    <3>1. BuildType'
      BY <2>2 DEF Rerun, BuildType, Commits
    <3>2. GroupType'
      BY <2>2, CancelType DEF Rerun
    <3>3. SpentType'
      BY <2>2, SpendType DEF Rerun
    <3>4. QED BY <2>s, <2>2, <3>1, <3>2, <3>3 DEF Rerun, ProposalType
  <2>3. ASSUME DispatchBuild PROVE TypeInv'
    <3>1. GroupType'
      BY <2>3, CancelType DEF DispatchBuild
    <3>2. SpentType'
      BY <2>3, SpendType DEF DispatchBuild
    <3>3. pushed \in Commits
      BY <2>3 DEF DispatchBuild, BuildType, Commits
    <3>4. PICK built \in SUBSET Services : attested' = attested \cup (built \X {pushed})
      BY <2>3 DEF DispatchBuild
    <3>5. attested' \subseteq Services \X Commits
      BY <3>3, <3>4 DEF BuildType
    <3>6. BuildType'
      BY <2>3, <3>5 DEF DispatchBuild, BuildType
    <3>7. QED BY <2>s, <2>3, <3>1, <3>2, <3>6 DEF DispatchBuild, ProposalType
  <2>4. ASSUME NEW s \in Services, JobSucceeds(s) PROVE TypeInv'
    BY <2>s, <2>4 DEF JobSucceeds, BuildType, GroupType, ProposalType, SpentType, Commits
  <2>5. ASSUME JobFails PROVE TypeInv'
    BY <2>s, <2>5 DEF JobFails, BuildType, GroupType, ProposalType, SpentType
  <2>6. ASSUME NEW c \in Commits, NEW s \in Services, ArtifactExpires(c, s) PROVE TypeInv'
    <3>1. SpentType'
      BY <2>6, SpendType DEF ArtifactExpires
    <3>2. QED BY <2>s, <2>6, <3>1 DEF ArtifactExpires, BuildType, GroupType, ProposalType
  <2>7. ASSUME Collect PROVE TypeInv'
    <3>1. building \in Commits
      BY <2>7 DEF Collect, Collecting, BuildType, Commits
    <3>2. QED BY <2>s, <2>7, <3>1 DEF Collect, BuildType, GroupType, ProposalType, SpentType
  <2>8. ASSUME CollectRaises PROVE TypeInv'
    BY <2>s, <2>8 DEF CollectRaises, BuildType, GroupType, ProposalType, SpentType
  <2>9. ASSUME CallPromotion PROVE TypeInv'
    <3> DEFINE p == [pair |-> outputs[building], base |-> CheckOut(building), by |-> building]
    <3>1. building \in Commits
      BY <2>9 DEF CallPromotion, BuildType, Commits
    <3>2. \E c \in Commits : outputs[building] = PairOf(c)
      BY <2>9, <3>1 DEF CallPromotion, BuildType
    <3>3. outputs[building] \in Pairs
      BY <3>2, PairOfType DEF Commits
    <3>4. p \in Promotions
      BY <3>1, <3>3 DEF CheckOut, Promotions, BuildType
    <3>5. Enter(p)
      BY <2>9 DEF CallPromotion
    <3>6. GroupType'
      BY <3>4, <3>5, EnterType
    <3>7. QED BY <2>s, <2>9, <3>6 DEF CallPromotion, BuildType, ProposalType, SpentType
  <2>10. ASSUME NEW pair \in [Services -> 1 .. pushed], DispatchPromotion(pair)
         PROVE  TypeInv'
    <3> DEFINE p == [pair |-> pair, base |-> main, by |-> Operator]
    <3>1. pair \in Pairs
      BY DEF Pairs, BuildType
    <3>2. p \in Promotions
      BY <3>1 DEF Promotions, StagingType
    <3>3. GroupType'
      BY <2>10, <3>2, EnterType DEF DispatchPromotion
    <3>4. SpentType'
      BY <2>10, SpendType DEF DispatchPromotion
    <3>5. BuildType'
      BY <2>10 DEF DispatchPromotion, BuildType
    <3>6. StagingType'
      BY <2>10 DEF DispatchPromotion, StagingType, FromOneCommit
    <3>7. QED BY <2>10, <3>3, <3>4, <3>5, <3>6 DEF DispatchPromotion, ProposalType
  <2>11. ASSUME PromotionStarts PROVE TypeInv'
    BY <2>s, <2>11 DEF PromotionStarts, BuildType, GroupType, ProposalType, SpentType
  <2>12. ASSUME PromotionGivesUp PROVE TypeInv'
    <3>1. BuildType'
      BY <2>12 DEF PromotionGivesUp, EndPromotion, BuildType
    <3>2. GroupType'
      BY <2>12 DEF PromotionGivesUp, EndPromotion, GroupType
    <3>3. QED BY <2>s, <2>12, <3>1, <3>2
          DEF PromotionGivesUp, EndPromotion, ProposalType, SpentType
  <2>13. ASSUME OpenProposal PROVE TypeInv'
    <3>1. GroupType' /\ promoting \in Promotions
      BY <2>13 DEF OpenProposal, GroupType
    <3>2. \A q \in proposals' : q \in proposals \/ q = [promotion |-> promoting, checked |-> FALSE]
      BY <2>13 DEF OpenProposal
    <3>3. ProposalType'
      BY <3>1, <3>2, ProposalFields, Zenon DEF ProposalType
    <3>4. QED BY <2>s, <2>13, <3>1, <3>3 DEF OpenProposal, BuildType, SpentType
  <2>14. ASSUME DispatchChecks PROVE TypeInv'
    <3>1. promoting \in Promotions
      BY <2>14 DEF DispatchChecks, GroupType
    <3>2. \A q \in proposals' : q \in proposals \/ q = [promotion |-> promoting, checked |-> TRUE]
      BY <2>14 DEF DispatchChecks
    <3>3. ProposalType'
      BY <3>1, <3>2, ProposalFields, Zenon DEF ProposalType
    <3>4. BuildType'
      BY <2>14 DEF DispatchChecks, EndPromotion, BuildType
    <3>5. GroupType'
      BY <2>14 DEF DispatchChecks, EndPromotion, GroupType
    <3>6. QED BY <2>s, <2>14, <3>3, <3>4, <3>5 DEF DispatchChecks, EndPromotion, SpentType
  <2>15. ASSUME NEW p \in proposals, Merge(p) PROVE TypeInv'
    <3>1. StagingType'
      BY <2>15 DEF Merge, ProposalType, Pairs, Promotions, StagingType
    <3>2. QED BY <2>15, <3>1 DEF Merge, BuildType, GroupType, ProposalType, SpentType
  <2>16. ASSUME UNCHANGED vars PROVE TypeInv'
    BY <2>s, <2>16 DEF vars, BuildType, GroupType, ProposalType, SpentType
  <2>17. QED
    BY <2>1, <2>2, <2>3, <2>4, <2>5, <2>6, <2>7, <2>8, <2>9, <2>10, <2>11, <2>12, <2>13,
       <2>14, <2>15, <2>16
       DEF Next, WorkflowStep, PeopleAndTime
<1>3. QED BY <1>1, <1>2, PTL DEF Spec

(* Every variable keeps its type; in particular what a run hands on is nothing or a
   pair of one commit. *)
THEOREM TypeCorrect == Spec => []TypeOK
BY TypeInvariant, TypeInvImplies, PTL
-----------------------------------------------------------------------------
LEMMA PairOfDigest ==
  ASSUME NEW c
  PROVE  /\ PairOf(c) = [s \in Services |-> c] /\ FromOneCommit(PairOf(c))
         /\ \A s \in Services : PairOf(c)[s] = c
  BY DEF PairOf, FromOneCommit

(* Nothing takes back that digests were mixed. *)
LEMMA MixedStays ==
  ASSUME [Next]_vars
  PROVE  mixed => mixed'
<1>1. CASE WorkflowStep
  BY <1>1 DEF WorkflowStep, JobSucceeds, Collect, CollectRaises, CallPromotion,
              PromotionStarts, PromotionGivesUp, EndPromotion, OpenProposal,
              DispatchChecks, stagingVars
<1>2. CASE PeopleAndTime
  BY <1>2 DEF PeopleAndTime, Push, Rerun, DispatchBuild, JobFails, DispatchPromotion,
              ArtifactExpires, Merge, stagingVars
<1>3. CASE UNCHANGED vars
  BY <1>3 DEF vars, stagingVars
<1>4. QED BY <1>1, <1>2, <1>3 DEF Next

(* What is sound stays so as commits are pushed, and as digests get mixed. *)
LEMMA SoundStays ==
  ASSUME pushed \in Nat, pushed' \in Nat, pushed <= pushed', mixed => mixed'
  PROVE  \A p : Sound(p, pushed) => Sound(p, pushed)'
<1>1. 0 .. pushed \subseteq 0 .. pushed' /\ 1 .. pushed \subseteq 1 .. pushed'
  OBVIOUS
<1>2. QED BY <1>1 DEF Sound, FromOneCommit

(* A step that brings nothing new into the group, and does not go back on commits or
   attestations, keeps its shape; the same for the pull requests. *)
LEMMA GroupStays ==
  ASSUME GroupShape, pushed \in Nat, pushed' \in Nat, pushed <= pushed', mixed => mixed',
         attested \subseteq attested',
         promoting' \in {promoting, waiting, Idle}, waiting' \in {promoting, waiting, Idle},
         opened' => opened /\ promoting' = promoting
  PROVE  GroupShape'
<1>1. \A p : Sound(p, pushed) => Sound(p, pushed)'
  BY SoundStays
<1>2. \A p \in {promoting', waiting'} : p # Idle => Sound(p, pushed)'
  BY <1>1 DEF GroupShape
<1>3. opened' => promoting' # Idle /\ \A s \in Services : <<s, promoting'.pair[s]>> \in attested'
  BY DEF GroupShape, Verified
<1>4. QED BY <1>2, <1>3 DEF GroupShape, Verified

LEMMA ProposalsStay ==
  ASSUME ProposalShape, pushed \in Nat, pushed' \in Nat, pushed <= pushed', mixed => mixed',
         attested \subseteq attested', proposals' \subseteq proposals
  PROVE  ProposalShape'
<1>1. \A p : Sound(p, pushed) => Sound(p, pushed)'
  BY SoundStays
<1>2. QED BY <1>1 DEF ProposalShape, Verified

(* A cancelled run only takes promotions out of the group. *)
LEMMA CancelLeaves ==
  ASSUME CancelBuild
  PROVE  /\ promoting' \in {promoting, Idle} /\ waiting' \in {waiting, Idle}
         /\ opened' => opened /\ promoting' = promoting
  BY DEF CancelBuild, Leave, groupVars

(* Who enters an orderly group leaves it so. *)
LEMMA EnterShape ==
  ASSUME GroupShape, pushed \in Nat, mixed => mixed',
         NEW p, Sound(p, pushed)', Enter(p), UNCHANGED <<pushed, attested>>
  PROVE  GroupShape'
<1>1. \A q : Sound(q, pushed) => Sound(q, pushed)'
  BY SoundStays
<1>2. \A q \in {promoting', waiting'} : q # Idle => Sound(q, pushed)'
  BY <1>1 DEF GroupShape, Enter
<1>3. opened' = opened /\ (opened => promoting' = promoting)
  BY DEF Enter, GroupShape
<1>4. QED BY <1>2, <1>3 DEF GroupShape, Verified

(* Git's merge takes each line from one of the two sides. *)
LEMMA MergeTakesLines ==
  ASSUME NEW q \in proposals, Merge(q)
  PROVE  /\ main' = [s \in Services |-> main'[s]]
         /\ \A s \in Services : main'[s] = IF main[s] = q.promotion.base[s]
                                        THEN q.promotion.pair[s] ELSE main[s]
  BY DEF Merge

(* Of sides that are whole it makes a whole. *)
LEMMA MergeIsWhole ==
  ASSUME NEW q \in proposals, Merge(q), TreeShape, Sound(q.promotion, pushed), ~mixed
  PROVE  FromOneCommit(main')
<1>1. /\ \A s, t \in Services : main[s] = main[t]
      /\ \A s, t \in Services : q.promotion.base[s] = q.promotion.base[t]
      /\ \A s, t \in Services : q.promotion.pair[s] = q.promotion.pair[t]
  BY DEF TreeShape, Sound, FromOneCommit
<1>2. \A s, t \in Services : main'[s] = main'[t]
  BY <1>1, MergeTakesLines
<1>3. DOMAIN main' = Services
  BY MergeTakesLines
<1>4. QED BY <1>2, <1>3 DEF FromOneCommit
-----------------------------------------------------------------------------
(* The inductive invariant: commits, builds, the promotion group, the pull requests
   and main agree through every order of pushes, cancellations, reruns and merges. *)
LEMMA SafetyInvariant == Spec => [](TypeInv /\ IInv)
<1> USE PushAssumption, PromotionBounds
<1> DEFINE Safe == TreeShape /\ BuildShape /\ GroupShape /\ ProposalShape /\ MainIsAttested
<1>1. Init => Safe
  <2> SUFFICES ASSUME Init PROVE Safe
    OBVIOUS
  <2>1. TreeShape
    BY PairOfDigest DEF Init, StagingInit, TreeShape
  <2>2. BuildShape
    BY DEF Init, BuildShape
  <2>3. GroupShape /\ ProposalShape
    BY DEF Init, GroupShape, ProposalShape
  <2>4. MainIsAttested
    BY PairOfDigest DEF Init, StagingInit, MainIsAttested
  <2>5. QED BY <2>1, <2>2, <2>3, <2>4
<1>2. TypeInv /\ TypeInv' /\ Safe /\ [Next]_vars => Safe'
  <2> SUFFICES ASSUME TypeInv, TypeInv', Safe, [Next]_vars PROVE Safe'
    OBVIOUS
  <2> USE DEF buildVars, groupVars
  <2>0. /\ pushed \in Nat /\ pushed' \in Nat /\ pushed <= MaxPushes
        /\ mixed => mixed'
    BY MixedStays DEF TypeInv, BuildType
  <2> DEFINE SameGroup == /\ promoting' \in {promoting, waiting, Idle}
                          /\ waiting' \in {promoting, waiting, Idle}
                          /\ opened' => opened /\ promoting' = promoting
  <2>a. UNCHANGED <<main, pushed, valuesAt>> => TreeShape'
    BY <2>0 DEF TreeShape
  <2>b. UNCHANGED <<pushed, outputs>> /\ building' \in {0, building} => BuildShape'
    BY <2>0 DEF BuildShape
  <2>c. SameGroup /\ pushed <= pushed' /\ attested \subseteq attested' => GroupShape'
    BY <2>0, GroupStays
  <2>d. pushed <= pushed' /\ attested \subseteq attested' /\ proposals' \subseteq proposals
        => ProposalShape'
    BY <2>0, ProposalsStay
  <2>e. UNCHANGED main /\ attested \subseteq attested' => MainIsAttested'
    BY DEF MainIsAttested
  <2>f. pushed' = pushed => pushed <= pushed'
    BY <2>0
  <2>g. CancelBuild => SameGroup
    BY CancelLeaves
  <2>h. pushed <= pushed' => \A p : Sound(p, pushed) => Sound(p, pushed)'
    BY <2>0, SoundStays
  <2> HIDE DEF SameGroup
  <2> USE DEF stagingVars
  <2>1. ASSUME Push PROVE Safe'
    <3>1. pushed' = pushed + 1 /\ valuesAt' = [valuesAt EXCEPT ![pushed + 1] = main]
          /\ building' = pushed + 1 /\ UNCHANGED <<main, outputs, attested, proposals>>
      BY <2>1 DEF Push
    <3>2. pushed <= pushed' /\ pushed + 1 \in Commits
      BY <3>1, <2>0, <2>1 DEF Push, Commits
    <3>3. \A c \in 1 .. pushed' : \/ c = pushed + 1 /\ valuesAt'[c] = main
                                  \/ c \in 1 .. pushed /\ valuesAt'[c] = valuesAt[c]
      BY <2>0, <3>1, <3>2 DEF TypeInv, BuildType, Commits
    <3>4. main \in [Services -> 0 .. pushed'] /\ \A s \in Services : main[s] < pushed + 1
      BY <2>0, <3>1 DEF TreeShape
    <3>5. TreeShape'
      <4>1. \A c \in 1 .. pushed' : \A s \in Services : valuesAt'[c][s] < c
        BY <3>3, <3>4 DEF TreeShape
      <4>2. ASSUME ~mixed'
            PROVE  FromOneCommit(main) /\ \A c \in 1 .. pushed' : FromOneCommit(valuesAt'[c])
        <5>1. ~mixed
          BY <2>0, <4>2
        <5>2. QED BY <3>3, <5>1 DEF TreeShape
      <4>3. QED BY <3>1, <3>4, <4>1, <4>2 DEF TreeShape
    <3>6. BuildShape'
      BY <2>0, <3>1 DEF BuildShape, TypeInv, BuildType, Commits
    <3>7. SameGroup
      BY <2>1, <2>g DEF Push
    <3>8. QED BY <2>c, <2>d, <2>e, <3>1, <3>2, <3>5, <3>6, <3>7
  <2>2. ASSUME NEW c \in Commits, Rerun(c) PROVE Safe'
    <3>1. UNCHANGED <<pushed, main, valuesAt, attested, proposals>> /\ SameGroup
      BY <2>2, <2>g DEF Rerun
    <3>2. BuildShape'
      BY <2>0, <2>2 DEF Rerun, BuildShape, TypeInv, BuildType, Commits
    <3>3. QED BY <2>a, <2>c, <2>d, <2>e, <2>f, <3>1, <3>2
  <2>3. ASSUME DispatchBuild PROVE Safe'
    <3>0. PICK built \in SUBSET Services : attested' = attested \cup (built \X {pushed})
      BY <2>3 DEF DispatchBuild
    <3>1. UNCHANGED <<pushed, main, valuesAt, outputs, proposals>>
          /\ building' = 0 /\ SameGroup /\ attested \subseteq attested'
      BY <2>3, <2>g, <3>0 DEF DispatchBuild
    <3>2. QED BY <2>a, <2>b, <2>c, <2>d, <2>e, <2>f, <3>1
  <2>4. ASSUME NEW s \in Services, JobSucceeds(s) PROVE Safe'
    <3>1. UNCHANGED <<pushed, main, valuesAt, building, outputs, proposals>>
          /\ attested \subseteq attested' /\ SameGroup
      BY <2>4 DEF JobSucceeds, SameGroup
    <3>2. QED BY <2>a, <2>b, <2>c, <2>d, <2>e, <2>f, <3>1
  <2>5. ASSUME JobFails \/ CollectRaises PROVE Safe'
    <3>1. UNCHANGED <<pushed, main, valuesAt, outputs, attested, proposals>>
          /\ building' = 0 /\ SameGroup
      BY <2>5 DEF JobFails, CollectRaises, SameGroup
    <3>2. QED BY <2>a, <2>b, <2>c, <2>d, <2>e, <2>f, <3>1
  <2>6. ASSUME NEW c \in Commits, NEW s \in Services, ArtifactExpires(c, s) PROVE Safe'
    <3>1. UNCHANGED <<pushed, main, valuesAt, building, outputs, attested, proposals>>
          /\ SameGroup
      BY <2>6 DEF ArtifactExpires, SameGroup
    <3>2. QED BY <2>a, <2>b, <2>c, <2>d, <2>e, <2>f, <3>1
  <2>7. ASSUME Collect PROVE Safe'
    <3>1. UNCHANGED <<pushed, main, valuesAt, building, attested, proposals>> /\ SameGroup
      BY <2>7 DEF Collect, SameGroup
    <3>2. building <= pushed /\ outputs' = [outputs EXCEPT ![building] = PairOf(building)]
      BY <2>7 DEF Collect, BuildShape
    <3>3. BuildShape'
      BY <3>1, <3>2 DEF BuildShape, TypeInv, BuildType
    <3>4. QED BY <2>a, <2>c, <2>d, <2>e, <2>f, <3>1, <3>3
  <2>8. ASSUME CallPromotion PROVE Safe'
    <3>0. PICK p : p = [pair |-> outputs[building], base |-> CheckOut(building),
                        by |-> building]
      OBVIOUS
    <3>1. building \in 1 .. pushed /\ building \in Commits
      BY <2>0, <2>8 DEF CallPromotion, BuildShape, TypeInv, BuildType, Commits
    <3>2. p.pair = PairOf(building) /\ p.by = building /\ p.base = valuesAt[building]
      BY <2>8, <3>0, <3>1 DEF CallPromotion, BuildShape, CheckOut
    <3>3. p.pair \in [Services -> 1 .. pushed] /\ FromOneCommit(p.pair)
      BY <3>1, <3>2, PairOfDigest
    <3>4. /\ \A s \in Services : p.base[s] < building
          /\ ~mixed => FromOneCommit(p.base)
      BY <3>1, <3>2 DEF TreeShape
    <3>5. p.base \in [Services -> 0 .. pushed]
      <4>1. p.base \in [Services -> 0 .. MaxPushes]
        BY <3>1, <3>2 DEF TypeInv, BuildType, Pairs
      <4>2. \A s \in Services : p.base[s] \in 0 .. pushed
        BY <2>0, <3>1, <3>4, <4>1
      <4>3. QED BY <4>1, <4>2
    <3>6. Sound(p, pushed)
      BY <3>2, <3>3, <3>4, <3>5 DEF Sound
    <3>7. Enter(p) /\ UNCHANGED <<buildVars, main, proposals>>
      BY <2>8, <3>0 DEF CallPromotion
    <3>8. Sound(p, pushed)'
      BY <2>f, <2>h, <3>6, <3>7
    <3>9. GroupShape'
      BY <2>0, <3>7, <3>8, EnterShape
    <3>10. QED BY <2>a, <2>b, <2>d, <2>e, <2>f, <3>7, <3>9
  <2>9. ASSUME NEW pair \in [Services -> 1 .. pushed], DispatchPromotion(pair) PROVE Safe'
    <3>0. PICK p : p = [pair |-> pair, base |-> main, by |-> Operator]
      OBVIOUS
    <3>1. Enter(p) /\ UNCHANGED <<pushed, valuesAt, outputs, attested, main, proposals>>
          /\ building' \in {0, building} /\ mixed' = (mixed \/ ~FromOneCommit(pair))
      BY <2>9, <3>0 DEF DispatchPromotion
    <3>2. p.pair = pair /\ p.base = main /\ p.by = Operator
      BY <3>0
    <3>3. ~mixed' => FromOneCommit(pair) /\ FromOneCommit(main)
      BY <3>1 DEF TreeShape
    <3>4. pair \in [Services -> 1 .. pushed'] /\ main \in [Services -> 0 .. pushed']
      BY <3>1 DEF TreeShape
    <3>5. Sound(p, pushed)'
      BY <3>2, <3>3, <3>4 DEF Sound
    <3>6. GroupShape'
      BY <2>0, <3>1, <3>5, EnterShape
    <3>7. QED BY <2>a, <2>b, <2>d, <2>e, <2>f, <3>1, <3>6
  <2>10. ASSUME PromotionStarts PROVE Safe'
    <3>1. UNCHANGED <<pushed, main, valuesAt, building, outputs, attested, proposals>>
          /\ SameGroup
      BY <2>10 DEF PromotionStarts, SameGroup, GroupShape
    <3>2. QED BY <2>a, <2>b, <2>c, <2>d, <2>e, <2>f, <3>1
  <2>11. ASSUME PromotionGivesUp PROVE Safe'
    <3>1. UNCHANGED <<pushed, main, valuesAt, outputs, attested, proposals>>
          /\ building' \in {0, building} /\ SameGroup
      BY <2>11 DEF PromotionGivesUp, EndPromotion, SameGroup
    <3>2. QED BY <2>a, <2>b, <2>c, <2>d, <2>e, <2>f, <3>1
  <2>12. ASSUME OpenProposal PROVE Safe'
    <3>1. UNCHANGED <<pushed, main, valuesAt, building, outputs, attested, promoting, waiting>>
          /\ promoting # Idle /\ Verified(promoting.pair)
      BY <2>12 DEF OpenProposal
    <3>2. GroupShape'
      BY <2>f, <2>h, <3>1 DEF GroupShape, Verified
    <3>3. \A q \in proposals' : q \in proposals \/ q.promotion = promoting
      BY <2>12 DEF OpenProposal
    <3>4. ProposalShape'
      BY <2>f, <2>h, <3>1, <3>3 DEF ProposalShape, GroupShape, Verified
    <3>5. QED BY <2>a, <2>b, <2>e, <3>1, <3>2, <3>4
  <2>13. ASSUME DispatchChecks PROVE Safe'
    <3>1. UNCHANGED <<pushed, main, valuesAt, outputs, attested>>
          /\ building' \in {0, building} /\ SameGroup
      BY <2>13 DEF DispatchChecks, EndPromotion, SameGroup
    <3>2. \A q \in proposals' : q \in proposals \/ q.promotion = promoting
      BY <2>13 DEF DispatchChecks
    <3>3. Sound(promoting, pushed) /\ Verified(promoting.pair)
      BY <2>13 DEF DispatchChecks, GroupShape
    <3>4. ProposalShape'
      BY <2>f, <2>h, <3>1, <3>2, <3>3 DEF ProposalShape, Verified
    <3>5. QED BY <2>a, <2>b, <2>c, <2>e, <2>f, <3>1, <3>4
  <2>14. ASSUME NEW q \in proposals, Merge(q) PROVE Safe'
    <3>1. UNCHANGED <<pushed, valuesAt, building, outputs, attested>> /\ SameGroup
          /\ proposals' \subseteq proposals
      BY <2>14 DEF Merge, SameGroup
    <3>2. Sound(q.promotion, pushed) /\ Verified(q.promotion.pair)
      BY DEF ProposalShape
    <3>3. \A s \in Services : main'[s] \in {main[s], q.promotion.pair[s]}
      BY <2>14, MergeTakesLines
    <3>4. main' \in [Services -> 0 .. pushed]
      <4>1. \A s \in Services : main[s] \in 0 .. pushed /\ q.promotion.pair[s] \in 1 .. pushed
        BY <3>2 DEF TreeShape, Sound
      <4>2. \A s \in Services : main'[s] \in 0 .. pushed
        BY <2>0, <3>3, <4>1
      <4>3. QED BY <2>14, <4>2, MergeTakesLines
    <3>5. mixed' = mixed /\ (~mixed => FromOneCommit(main'))
      BY <2>14, <3>2, MergeIsWhole DEF Merge
    <3>6. TreeShape'
      BY <3>1, <3>4, <3>5 DEF TreeShape
    <3>7. MainIsAttested'
      BY <3>1, <3>2, <3>3 DEF MainIsAttested, Verified
    <3>8. QED BY <2>b, <2>c, <2>d, <2>f, <3>1, <3>6, <3>7
  <2>15. ASSUME UNCHANGED vars PROVE Safe'
    <3>1. UNCHANGED <<pushed, main, valuesAt, building, outputs, attested, proposals>>
          /\ SameGroup
      BY <2>15 DEF vars, SameGroup
    <3>2. QED BY <2>a, <2>b, <2>c, <2>d, <2>e, <2>f, <3>1
  <2>16. QED
    BY <2>1, <2>2, <2>3, <2>4, <2>5, <2>6, <2>7, <2>8, <2>9, <2>10, <2>11, <2>12, <2>13,
       <2>14, <2>15
       DEF Next, WorkflowStep, PeopleAndTime
<1>3. TypeInv /\ Safe => TypeInv /\ IInv
  BY TypeInvImplies DEF IInv
<1>4. QED BY <1>1, <1>2, <1>3, TypeInvariant, PTL DEF Spec
-----------------------------------------------------------------------------
(* However the builds, promotions and merges interleave, no build collects or proposes
   images of two commits, and main holds none before an operator asks for such a pair.
   (collect_image_digests, the promotion's edit, git's merge) *)
THEOREM OnePairOneCommit == Spec => []PairFromOneCommit
<1>1. FromOneCommit(NoPair)
  BY DEF NoPair, FromOneCommit
<1>2. TypeInv /\ IInv => PairFromOneCommit
  <2> SUFFICES ASSUME TypeInv, IInv PROVE PairFromOneCommit
    OBVIOUS
  <2>1. ASSUME NEW c \in Commits PROVE FromOneCommit(outputs[c])
    BY <1>1, PairOfDigest DEF TypeInv, BuildType
  <2>2. ASSUME NEW q \in proposals, q.promotion.by # Operator
        PROVE  FromOneCommit(q.promotion.pair)
    BY <2>2, PairOfDigest DEF IInv, ProposalShape, Sound
  <2>3. ~mixed => FromOneCommit(main)
    BY DEF IInv, TreeShape
  <2>4. QED BY <2>1, <2>2, <2>3 DEF PairFromOneCommit
<1>3. QED BY <1>2, SafetyInvariant, PTL

(* What main asks staging to run was scanned and attested.
   (Verify image build provenance attestations) *)
THEOREM DesiredIsAttested == Spec => []MainIsAttested
<1>1. TypeInv /\ IInv => MainIsAttested
  BY DEF IInv
<1>2. QED BY <1>1, SafetyInvariant, PTL

(* Only a merge moves main, and only a merge takes away a pull request whose checks
   ran. *)
LEMMA OnlyMergeMoves ==
  ASSUME [Next]_vars
  PROVE  /\ main' = main \/ \E q \in proposals : Merge(q)
         /\ \A p \in proposals \ proposals' : p.checked => Merge(p)
<1> DEFINE Unchecked == [promotion |-> promoting, checked |-> FALSE]
           Others == main' = main /\ \A p \in proposals \ proposals' : p = Unchecked
<1>1. CASE WorkflowStep
  <2>1. Others
    BY <1>1 DEF WorkflowStep, JobSucceeds, Collect, CollectRaises, CallPromotion,
                PromotionStarts, PromotionGivesUp, EndPromotion, OpenProposal,
                DispatchChecks, stagingVars
  <2>2. QED BY <2>1
<1>2. CASE PeopleAndTime /\ ~\E q \in proposals : Merge(q)
  BY <1>2 DEF PeopleAndTime, Push, Rerun, DispatchBuild, JobFails, DispatchPromotion,
              ArtifactExpires, stagingVars
<1>3. ASSUME NEW q \in proposals, Merge(q)
      PROVE  \A p \in proposals \ proposals' : p = q
  BY <1>3 DEF Merge
<1>4. CASE UNCHANGED vars
  BY <1>4 DEF vars, stagingVars
<1>5. QED BY <1>1, <1>2, <1>3, <1>4 DEF Next

(* The pull request of a build, whatever it is merged into, leaves the images of its
   commit on main and replaces none of a newer one.
   (the checkout of the run's own commit, git's merge) *)
THEOREM BuildsOnlyAdvance == Spec => AutomaticPromotionAdvances
<1> USE PushAssumption
<1> DEFINE Advances == \A p \in proposals \ proposals' :
                         (p.checked /\ p.promotion.by # Operator)
                           => /\ main' = PairOf(p.promotion.by)
                              /\ \A s \in Services : main[s] <= main'[s]
<1>1. TypeInv /\ IInv /\ [Next]_vars => Advances
  <2> SUFFICES ASSUME TypeInv, IInv, [Next]_vars,
                      NEW p \in proposals \ proposals',
                      p.checked, p.promotion.by # Operator
               PROVE  /\ main' = PairOf(p.promotion.by)
                      /\ \A s \in Services : main[s] <= main'[s]
    OBVIOUS
  <2> DEFINE by == p.promotion.by
  <2>1. Merge(p) /\ Sound(p.promotion, pushed)
    BY OnlyMergeMoves DEF IInv, ProposalShape
  <2>2. by \in Nat
    BY DEF TypeInv, ProposalType, Promotions, Operator, Commits
  <2>3. \A s \in Services : p.promotion.pair[s] = by /\ p.promotion.base[s] < by
                           /\ p.promotion.base[s] \in Nat
    BY <2>1, PairOfDigest DEF Sound
  <2>4. \A s \in Services : main[s] = p.promotion.base[s] \/ main[s] = by
    BY <2>1, <2>2, <2>3 DEF Merge, Mergeable
  <2>5. \A s \in Services : main'[s] = by /\ main[s] <= by
    BY <2>1, <2>2, <2>3, <2>4, MergeTakesLines
  <2>6. main' = PairOf(by)
    BY <2>1, <2>5, MergeTakesLines DEF PairOf
  <2>7. QED BY <2>5, <2>6
<1>2. TypeInv /\ IInv /\ [Next]_vars => [Advances]_vars
  BY <1>1
<1>3. QED BY <1>2, SafetyInvariant, PTL DEF Spec, AutomaticPromotionAdvances

(* The workflows keep the promise the deployment is built on: main starts at what
   staging ran and moves to the whole pair of one commit, up to the first time an
   operator mixes two; a line only ever changes to the image of a commit. *)
THEOREM PromotionImplementsStaging == Spec => StagingSpec
<1> USE PushAssumption
<1>1. Init => StagingInit
  BY DEF Init
<1>2. TypeInv /\ TypeInv' /\ IInv /\ [Next]_vars => [StagingNext]_stagingVars
  <2> SUFFICES ASSUME TypeInv, TypeInv', IInv, [Next]_vars, stagingVars' # stagingVars
               PROVE  StagingNext
    OBVIOUS
  <2>1. CASE main' = main
    <3>1. mixed' # mixed /\ mixed \in BOOLEAN /\ mixed' \in BOOLEAN
      BY <2>1 DEF stagingVars, TypeInv, StagingType
    <3>2. ~mixed /\ mixed' = TRUE
      BY <3>1, MixedStays
    <3>3. QED BY <2>1, <3>2 DEF StagingNext, Mixed
  <2>2. CASE main' # main
    <3>1. PICK q \in proposals : Merge(q)
      BY <2>2, OnlyMergeMoves
    <3>2. Sound(q.promotion, pushed) /\ UNCHANGED mixed
      BY <3>1 DEF IInv, ProposalShape, Merge
    <3>3. /\ main' \in Pairs /\ main \in Pairs
          /\ \A s \in Services : q.promotion.pair[s] \in Commits
      BY <3>2 DEF TypeInv, StagingType, BuildType, Sound, Commits
    <3>4. \A s \in Services : main'[s] # main[s] => main'[s] = q.promotion.pair[s]
      BY <3>1, MergeTakesLines
    <3>5. CASE mixed
      BY <2>2, <3>2, <3>3, <3>4, <3>5 DEF StagingNext, PromotedAnything
    <3>6. CASE ~mixed
      <4>1. FromOneCommit(main')
        BY <3>1, <3>2, <3>6, MergeIsWhole DEF IInv
      <4>2. PICK s \in Services : main'[s] # main[s]
        BY <2>2, <3>3 DEF Pairs
      <4>3. main'[s] \in Commits
        BY <3>3, <3>4, <4>2
      <4>4. main' = PairOf(main'[s])
        BY <3>3, <4>1 DEF FromOneCommit, PairOf, Pairs
      <4>5. Promoted(main'[s])
        BY <2>2, <3>2, <4>4 DEF Promoted
      <4>6. QED BY <4>3, <4>5 DEF StagingNext
    <3>7. QED BY <3>5, <3>6
  <2>3. QED BY <2>1, <2>2
<1>3. QED BY <1>1, <1>2, TypeInvariant, SafetyInvariant, PTL DEF Spec, StagingSpec
=============================================================================
