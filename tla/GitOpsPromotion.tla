--------------------------- MODULE GitOpsPromotion ---------------------------
(***************************************************************************)
(* From a push to a merged staging promotion: build-and-publish.yml with   *)
(* its collector scripts/collect_image_digests.py, and gitops-deploy.yml,  *)
(* which the build calls and an operator may dispatch.                     *)
(*                                                                         *)
(* Builds of main share a concurrency group in which a newer one cancels   *)
(* the one in progress, its promotion included.  Promotions share another, *)
(* in which one runs and one waits.  A promotion writes its pair into the  *)
(* values file of the commit it checked out; git merges that file line by  *)
(* line.  GitHub and git are modelled from how the workflows use them.     *)
(***************************************************************************)
EXTENDS StagingState

CONSTANTS
  MaxReruns,   \* bound on re-runs and dispatches of the build
  MaxManual,   \* bound on promotions an operator dispatches
  MaxExpired   \* bound on artifacts that expire

ASSUME PromotionBounds ==
  MaxReruns \in Nat /\ MaxManual \in Nat /\ MaxExpired \in Nat

NoPair == [s \in {} |-> 0]
Operator == 0   \* a promotion no build asked for

\* A promotion: its pair, the values of the commit it checks out, who asked for it.
Promotions == [pair : Pairs, base : Pairs, by : {Operator} \cup Commits]
Idle == [by |-> MaxPushes + 1]

VARIABLES
  pushed,     \* commits pushed to main so far
  valuesAt,   \* the digests of main in the tree of each commit
  building,   \* commit whose run holds the build group, 0 for none
  todo,       \* jobs of each commit's run that have not succeeded
  files,      \* digest files among the artifacts of that run
  outputs,    \* its collected pair
  attested,   \* images with provenance, as [service, digest]
  promoting,  \* the promotion that runs
  opened,     \* it has opened its pull request
  waiting,    \* the promotion that waits for the group
  proposals,  \* pull requests: promotions with or without their checks
  spent       \* the counters of the bounds

buildVars == <<pushed, valuesAt, building, todo, files, outputs, attested>>
groupVars == <<promoting, opened, waiting>>
vars == <<buildVars, groupVars, stagingVars, proposals, spent>>

TypeOK ==
  /\ main \in Pairs /\ mixed \in BOOLEAN
  /\ pushed \in 0 .. MaxPushes /\ valuesAt \in [Commits -> Pairs]
  /\ building \in 0 .. MaxPushes
  /\ todo \in [Commits -> SUBSET Services] /\ files \in [Commits -> SUBSET Services]
  /\ outputs \in [Commits -> {NoPair} \cup {PairOf(c) : c \in Commits}]
  /\ attested \subseteq Services \X Commits
  /\ promoting \in Promotions \cup {Idle} /\ waiting \in Promotions \cup {Idle}
  /\ opened \in BOOLEAN
  /\ \A p \in proposals : p.promotion \in Promotions /\ p.checked \in BOOLEAN
  /\ spent \in [reruns : 0 .. MaxReruns, manual : 0 .. MaxManual, expired : 0 .. MaxExpired]

Init ==
  /\ StagingInit
  /\ pushed = 0 /\ valuesAt = [c \in Commits |-> PairOf(0)]
  /\ building = 0
  /\ todo = [c \in Commits |-> Services] /\ files = [c \in Commits |-> {}]
  /\ outputs = [c \in Commits |-> NoPair] /\ attested = {}
  /\ promoting = Idle /\ opened = FALSE /\ waiting = Idle /\ proposals = {}
  /\ spent = [reruns |-> 0, manual |-> 0, expired |-> 0]

Spend(counter, max) ==
  /\ spent[counter] < max
  /\ spent' = [spent EXCEPT ![counter] = @ + 1]

\* A cancelled run leaves both places of the promotion group.
Leave(c) ==
  /\ promoting' = IF promoting.by = c THEN Idle ELSE promoting
  /\ opened' = (opened /\ promoting.by # c)
  /\ waiting' = IF waiting.by = c THEN Idle ELSE waiting

\* The run that holds the build group is over, or another one cancels it.
CancelBuild == IF building = 0 THEN UNCHANGED groupVars ELSE Leave(building)
-----------------------------------------------------------------------------
Push ==
  /\ pushed < MaxPushes
  /\ pushed' = pushed + 1 /\ building' = pushed + 1
  /\ valuesAt' = [valuesAt EXCEPT ![pushed + 1] = main]
  /\ CancelBuild
  /\ UNCHANGED <<stagingVars, todo, files, outputs, attested, proposals, spent>>

\* Re-run all jobs, which drops what the run had, or only those that failed.
Rerun(c) ==
  /\ c <= pushed /\ c # building /\ Spend("reruns", MaxReruns)
  /\ building' = c /\ CancelBuild
  /\ \/ /\ todo' = [todo EXCEPT ![c] = Services]
        /\ files' = [files EXCEPT ![c] = {}] /\ outputs' = [outputs EXCEPT ![c] = NoPair]
     \/ UNCHANGED <<todo, files, outputs>>
  /\ UNCHANGED <<pushed, stagingVars, valuesAt, attested, proposals>>

\* A dispatched build of main takes the group and attests what it builds; it collects
\* nothing and promotes nothing.
DispatchBuild ==
  /\ pushed > 0 /\ Spend("reruns", MaxReruns)
  /\ building' = 0 /\ CancelBuild
  /\ \E built \in SUBSET Services : attested' = attested \cup (built \X {pushed})
  /\ UNCHANGED <<pushed, stagingVars, valuesAt, todo, files, outputs, proposals>>

\* A matrix job ends: image scanned and attested, digest file uploaded.
JobSucceeds(s) ==
  /\ building # 0 /\ s \in todo[building]
  /\ todo' = [todo EXCEPT ![building] = @ \ {s}]
  /\ files' = [files EXCEPT ![building] = @ \cup {s}]
  /\ attested' = attested \cup {<<s, building>>}
  /\ UNCHANGED <<pushed, stagingVars, valuesAt, building, outputs, groupVars, proposals, spent>>

\* A job fails; fail-fast cancels the other, and nothing that needs them runs.
JobFails ==
  /\ building # 0 /\ todo[building] # {}
  /\ building' = 0
  /\ UNCHANGED <<pushed, stagingVars, valuesAt, todo, files, outputs, attested, groupVars,
                 proposals, spent>>

\* Retention ends, or somebody deletes the artifact.
ArtifactExpires(c, s) ==
  /\ s \in files[c] /\ Spend("expired", MaxExpired)
  /\ files' = [files EXCEPT ![c] = @ \ {s}]
  /\ UNCHANGED <<pushed, stagingVars, valuesAt, building, todo, outputs, attested, groupVars,
                 proposals>>

Collecting == building # 0 /\ todo[building] = {} /\ outputs[building] = NoPair

\* Mutant: a missing file is looked for in the runs of other commits.
CollectLatest ==
  /\ Collecting
  /\ \E pair \in [Services -> Commits] :
       /\ \A s \in Services : s \in files[pair[s]]
       /\ outputs' = [outputs EXCEPT ![building] = pair]
  /\ UNCHANGED <<pushed, stagingVars, valuesAt, building, todo, files, attested, groupVars,
                 proposals, spent>>

\* Mutant: what is there is handed on.
CollectPartial ==
  /\ Collecting
  /\ outputs' = [outputs EXCEPT ![building] = [s \in files[building] |-> building]]
  /\ UNCHANGED <<pushed, stagingVars, valuesAt, building, todo, files, attested, groupVars,
                 proposals, spent>>

\* collect_image_digests finds exactly the two files of this run.
Collect ==
  /\ Collecting /\ files[building] = Services
  /\ outputs' = [outputs EXCEPT ![building] = PairOf(building)]
  /\ UNCHANGED <<pushed, stagingVars, valuesAt, building, todo, files, attested, groupVars,
                 proposals, spent>>

\* It raises, and main ends the job and with it the run.
CollectRaises ==
  /\ Collecting /\ files[building] # Services
  /\ building' = 0
  /\ UNCHANGED <<pushed, stagingVars, valuesAt, todo, files, outputs, attested, groupVars,
                 proposals, spent>>
-----------------------------------------------------------------------------
\* The group runs one promotion; one more waits, in the place of any that did.
Enter(p) ==
  IF promoting = Idle THEN promoting' = p /\ UNCHANGED <<opened, waiting>>
                      ELSE waiting' = p /\ UNCHANGED <<promoting, opened>>

\* Mutant: the tree the promotion edits is the head of main.
CheckOutHead(c) == main

\* actions/checkout: the commit the build run was started for.
CheckOut(c) == valuesAt[c]

\* promote-staging calls the promotion with the collector's outputs.
CallPromotion ==
  /\ building # 0 /\ outputs[building] # NoPair
  /\ building \notin {promoting.by, waiting.by}
  /\ Enter([pair |-> outputs[building], base |-> CheckOut(building), by |-> building])
  /\ UNCHANGED <<buildVars, stagingVars, proposals, spent>>

\* An operator dispatches any two digests on the head of main: nothing asks whether
\* one commit made both.  A build whose promotion waited is over.
DispatchPromotion(pair) ==
  /\ Spend("manual", MaxManual)
  /\ Enter([pair |-> pair, base |-> main, by |-> Operator])
  /\ mixed' = (mixed \/ ~FromOneCommit(pair))
  /\ building' = IF promoting # Idle /\ waiting.by = building THEN 0 ELSE building
  /\ UNCHANGED <<pushed, valuesAt, todo, files, outputs, attested, main, proposals>>

\* Mutant: the called workflow also waits for the build group.
StartsAfterBuild ==
  /\ promoting = Idle /\ waiting # Idle /\ building = 0
  /\ promoting' = waiting /\ waiting' = Idle
  /\ UNCHANGED <<buildVars, opened, stagingVars, proposals, spent>>

PromotionStarts ==
  /\ promoting = Idle /\ waiting # Idle
  /\ promoting' = waiting /\ waiting' = Idle
  /\ UNCHANGED <<buildVars, opened, stagingVars, proposals, spent>>

\* The promotion ends, and the build that called it.
EndPromotion ==
  /\ promoting' = Idle /\ opened' = FALSE
  /\ building' = IF promoting.by = building THEN 0 ELSE building
  /\ UNCHANGED <<waiting, pushed, valuesAt, todo, files, outputs, attested, stagingVars, spent>>

\* Mutant: only the caller's word is taken.
WellFormed(pair) == pair \in Pairs

\* gh attestation verify on both images.
Verified(pair) == \A s \in Services : <<s, pair[s]>> \in attested

\* A step fails, or the values file already holds the pair.
PromotionGivesUp ==
  /\ promoting # Idle
  /\ UNCHANGED proposals
  /\ EndPromotion

\* Mutant: only the digest of the API is written.
OpenApiOnly ==
  /\ promoting # Idle /\ ~opened
  /\ Verified(promoting.pair) /\ promoting.pair # promoting.base
  /\ opened' = TRUE
  /\ LET p == [promoting EXCEPT !.pair["tracking-worker"] = promoting.base["tracking-worker"]]
     IN  /\ promoting' = p
         /\ proposals' = proposals \cup {[promotion |-> p, checked |-> FALSE]}
  /\ UNCHANGED <<buildVars, waiting, stagingVars, spent>>

\* Both images verified, the branch is pushed and the pull request opened.
OpenProposal ==
  /\ promoting # Idle /\ ~opened
  /\ Verified(promoting.pair) /\ promoting.pair # promoting.base
  /\ opened' = TRUE
  /\ proposals' = proposals \cup {[promotion |-> promoting, checked |-> FALSE]}
  /\ UNCHANGED <<buildVars, promoting, waiting, stagingVars, spent>>

\* The required checks are dispatched on the branch; nobody else runs them.
DispatchChecks ==
  /\ opened
  /\ LET p == [promotion |-> promoting, checked |-> FALSE]
     IN  proposals' = (proposals \ {p}) \cup {[p EXCEPT !.checked = TRUE]}
  /\ EndPromotion

\* A line only one side changed merges; a line both changed must agree.
Mergeable(p) ==
  \A s \in Services : main[s] \in {p.base[s], p.pair[s]} \/ p.pair[s] = p.base[s]

\* A reviewer merges a proposal whose checks ran.
Merge(p) ==
  /\ p.checked /\ Mergeable(p.promotion)
  /\ main' = [s \in Services |->
                IF main[s] = p.promotion.base[s] THEN p.promotion.pair[s] ELSE main[s]]
  /\ proposals' = proposals \ {p}
  /\ UNCHANGED <<mixed, buildVars, groupVars, spent>>

WorkflowStep ==
  \/ \E s \in Services : JobSucceeds(s)
  \/ Collect \/ CollectRaises \/ CallPromotion
  \/ PromotionStarts \/ PromotionGivesUp \/ OpenProposal \/ DispatchChecks

PeopleAndTime ==
  \/ Push \/ DispatchBuild \/ JobFails
  \/ \E c \in Commits : Rerun(c)
  \/ \E pair \in [Services -> 1 .. pushed] : DispatchPromotion(pair)
  \/ \E c \in Commits, s \in Services : ArtifactExpires(c, s)
  \/ \E p \in proposals : Merge(p)

Next == WorkflowStep \/ PeopleAndTime

\* Jobs and steps that are due run; nobody has to push, rerun, review or merge.
Fairness == WF_vars(WorkflowStep)

Spec == Init /\ [][Next]_vars /\ Fairness
-----------------------------------------------------------------------------
(* Whatever pairs images of two commits is an operator's: no build collects or proposes
   such a pair, and merges in any order, reruns, lost artifacts and redeploys of one
   build make none on main.  (collect_image_digests, the promotion's edit, git's merge) *)
PairFromOneCommit ==
  /\ \A c \in Commits : FromOneCommit(outputs[c])
  /\ \A p \in proposals : p.promotion.by # Operator => FromOneCommit(p.promotion.pair)
  /\ ~mixed => FromOneCommit(main)

(* Staging's desired state only holds images that were scanned and attested, or what
   it started from; a rerun, or an operator who asks for images of a build that failed
   its scan, does not change that.  (Verify image build provenance attestations) *)
MainIsAttested == \A s \in Services : main[s] # 0 => <<s, main[s]>> \in attested

(* Only an operator takes staging back or mixes it: whoever's values it is merged into,
   the proposal of a build, however late its review or its rerun, leaves both images
   of its commit there and replaces none of a newer one.
   (the checkout of the run's own commit, git's merge) *)
AutomaticPromotionAdvances ==
  [][\A p \in proposals \ proposals' :
       (p.checked /\ p.promotion.by # Operator)
         => /\ main' = PairOf(p.promotion.by)
            /\ \A s \in Services : main[s] <= main'[s]]_vars

(* The two concurrency groups never wait for each other: every run is over at some
   time.  (concurrency of both workflows) *)
NoRunIsStuck == []<>(building = 0 /\ promoting = Idle /\ waiting = Idle)
-----------------------------------------------------------------------------
(* The inductive invariant behind the safety properties: *)

\* A promotion is about images of the first n commits, and that of a build about its
\* own, written over what older commits had put there.
Sound(p, n) ==
  /\ p.pair \in [Services -> 1 .. n] /\ p.base \in [Services -> 0 .. n]
  /\ ~mixed => FromOneCommit(p.pair) /\ FromOneCommit(p.base)
  /\ p.by # Operator => p.pair = PairOf(p.by) /\ \A s \in Services : p.base[s] < p.by

\* The trees of the commits are older than the commits.
TreeShape ==
  /\ main \in [Services -> 0 .. pushed]
  /\ \A c \in 1 .. pushed : \A s \in Services : valuesAt[c][s] < c
  /\ ~mixed => FromOneCommit(main) /\ \A c \in 1 .. pushed : FromOneCommit(valuesAt[c])

\* A run hands on what it built itself.
BuildShape ==
  /\ building <= pushed
  /\ \A c \in Commits : outputs[c] # NoPair => c <= pushed /\ outputs[c] = PairOf(c)

\* What is in the group is sound, and verified before it is opened.
GroupShape ==
  /\ \A p \in {promoting, waiting} : p # Idle => Sound(p, pushed)
  /\ opened => promoting # Idle /\ Verified(promoting.pair)

ProposalShape ==
  \A q \in proposals : Sound(q.promotion, pushed) /\ Verified(q.promotion.pair)

IInv ==
  /\ TypeOK /\ TreeShape /\ BuildShape /\ GroupShape /\ ProposalShape /\ MainIsAttested
=============================================================================
