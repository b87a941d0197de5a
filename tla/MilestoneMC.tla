---------------------------- MODULE MilestoneMC -----------------------------
(***************************************************************************)
(* Values for the constants of Milestone: one account owns every goal.     *)
(* A behaviour is either about the episodes and fits of one participation  *)
(* over days of one instant each, or about consent that is given,          *)
(* withdrawn and given again while the clock passes its retention, with    *)
(* two instants to a day, or about a coefficient whose sources are         *)
(* corrected before it is compared with: one request at a time, from a day *)
(* on that is recorded and a participation that has just begun.            *)
(***************************************************************************)
EXTENDS Milestone, TLC

CONSTANT Foci       \* the kinds of behaviour a run looks at

VARIABLE focus

MCOwnerOf == [g \in Goals |-> CHOOSE u \in Users : TRUE]

EveryInstant == [n \in Instants |-> n]

HalfDays == [n \in Instants |-> n \div 2]

Slots == Permutations(Reqs)

Consents == INSTANCE Milestone WITH
  Kinds <- {"join", "withdraw", "capture", "fit"}, Retention <- 2, DayOf <- HalfDays,
  MaxJoins <- 2, MaxConsent <- 3, MaxFits <- 1, MaxEdits <- 1

Corrections == INSTANCE Milestone WITH MaxNow <- 1, MaxFits <- 1, MaxEdits <- 3

OneAtATime == \A r, s \in Reqs : pc'[r] # "idle" /\ pc'[s] # "idle" => r = s

Begun ==
  LET g == CHOOSE g \in Goals : TRUE IN
  /\ now = 0 /\ joins = 1 /\ edits = 1
  /\ goal = [h \in Goals |-> [rev |-> 0, arev |-> 0, consent |-> IF h = g THEN 1 ELSE 0,
                             recs |-> [NoRecords EXCEPT ![0] = "DONE"]]]
  /\ part = [u \in Users |-> [id |-> 1, goal |-> g, joined |-> 0, expires |-> Retention, gen |-> 0]]
  /\ spent = {[goal |-> g, consent |-> 0, by |-> "join", ticket |-> 1]}
  /\ forecasts = {} /\ artifact = [h \in Goals |-> None]
  /\ pc = [r \in Reqs |-> "idle"] /\ req = [r \in Reqs |-> NoRequest]
  /\ seen = [r \in Reqs |-> Nothing] /\ memo = [r \in Reqs |-> Nothing]

MCInit == focus \in Foci /\ IF focus = "correct" THEN Begun ELSE Init

MCNext ==
  /\ UNCHANGED focus
  /\ \/ focus = "fit" /\ Next
     \/ focus = "consent" /\ Consents!Next
     \/ focus = "correct" /\ Corrections!Next /\ OneAtATime

MCSpec == MCInit /\ [][MCNext]_<<vars, focus>>
=============================================================================
