----------------------------- MODULE StagingState -----------------------------
(***************************************************************************)
(* What the promotions owe to whoever deploys staging: the image digests   *)
(* of values-staging.yaml on main.  They change as a pair built from one   *)
(* commit as long as no operator asks for digests of two, which            *)
(* gitops-deploy.yml accepts; from then on nothing is promised but that a  *)
(* line changes to the image of some commit.                               *)
(*                                                                         *)
(* Commits are numbered in the order of main; 0 stands for what staging    *)
(* ran before.  The digest of an image is the commit it was built from:    *)
(* rebuilds of a commit are not told apart.                                *)
(***************************************************************************)
EXTENDS Naturals

CONSTANT MaxPushes   \* bound on pushes that touch a service

ASSUME PushAssumption == MaxPushes \in Nat \ {0}

VARIABLES
  main,    \* digests in values-staging.yaml on main
  mixed    \* an operator has asked for digests of two commits

stagingVars == <<main, mixed>>

Services == {"shipment-api", "tracking-worker"}   \* EXPECTED_FILES
Commits == 1 .. MaxPushes
Pairs == [Services -> 0 .. MaxPushes]
PairOf(c) == [s \in Services |-> c]
FromOneCommit(pair) == \A s, t \in DOMAIN pair : pair[s] = pair[t]

StagingInit == main = PairOf(0) /\ mixed = FALSE

\* The promotion of a build, or of both digests of one, is merged.
Promoted(c) == main # PairOf(c) /\ main' = PairOf(c) /\ UNCHANGED mixed

\* Digests of two commits are asked for.
Mixed == ~mixed /\ mixed' = TRUE /\ UNCHANGED main

\* Something is merged after that.
PromotedAnything ==
  /\ mixed /\ UNCHANGED mixed
  /\ main' \in Pairs /\ main' # main
  /\ \A s \in Services : main'[s] # main[s] => main'[s] \in Commits

StagingNext == (\E c \in Commits : Promoted(c)) \/ Mixed \/ PromotedAnything

StagingSpec == StagingInit /\ [][StagingNext]_stagingVars
=============================================================================
