---------------------------- MODULE EvaluationMC ----------------------------
(***************************************************************************)
(* Values for the constants of Evaluation: one account owns every goal,    *)
(* and the first day has two instants.                                     *)
(*                                                                         *)
(* A behaviour spends its bounds on one of two focuses: on consent that    *)
(* comes and goes, with at most one change of a goal, or on the changes of *)
(* one goal around its captures, in a single participation.                *)
(***************************************************************************)
EXTENDS Evaluation, TLC

CONSTANT TheGoal

VARIABLE focus

MCOwnerOf == [g \in Goals |-> CHOOSE u \in Users : TRUE]

LongFirstDay == [n \in Instants |-> IF n = 0 THEN 0 ELSE n - 1]

Slots == Permutations(Reqs)

OnConsent == edits' <= 1

OnCards ==
  /\ now' <= 2 /\ joins' <= 1
  /\ \A g \in Goals \ {TheGoal} : goal'[g] = goal[g]
  /\ \A r \in Reqs : req'[r] # NoRequest =>
                       req'[r].goal = TheGoal /\ req'[r].kind # "withdraw"

MCInit == Init /\ focus \in {"consent", "cards"}

MCNext ==
  /\ Next
  /\ focus' = focus
  /\ IF focus = "consent" THEN OnConsent ELSE OnCards

MCSpec == MCInit /\ [][MCNext]_<<vars, focus>>
=============================================================================
