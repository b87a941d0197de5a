---------------------------- MODULE OperationsMC ----------------------------
(***************************************************************************)
(* The operation of the API's processes: migrating and checking the        *)
(* database, installing the demonstration, starting and stopping the       *)
(* container and the function.  They share no state that a property reads, *)
(* so a behaviour is of one of the four.                                   *)
(***************************************************************************)
EXTENDS Migration, DemoSeed, Serving, TLC

CONSTANTS m2, m3, k1

VARIABLE part

MCCheckout ==
  (m2 :> (1 :> "crlf" @@ 2 :> "lf" @@ 3 :> "lf")) @@ (m3 :> (1 :> "lf" @@ 2 :> "edited"))
  @@ (k1 :> (1 :> "lf" @@ 2 :> "lf"))

MCTarget == (m2 :> "all") @@ (m3 :> "app")

Init ==
  /\ part \in {"migration", "seed", "container", "function"}
  /\ MigrationInit /\ SeedInit /\ ServingInit

Next ==
  /\ part' = part
  /\ \/ /\ part = "migration" /\ MigrationNext
        /\ UNCHANGED <<seedVars, containerVars, functionVars>>
     \/ /\ part = "seed" /\ SeedNext
        /\ UNCHANGED <<migrationVars, containerVars, functionVars>>
     \/ /\ part = "container" /\ ContainerNext
        /\ UNCHANGED <<migrationVars, seedVars, functionVars>>
     \/ /\ part = "function" /\ FunctionNext
        /\ UNCHANGED <<migrationVars, seedVars, containerVars>>

Spec == Init /\ [][Next]_<<part, migrationVars, seedVars, containerVars, functionVars>>
=============================================================================
