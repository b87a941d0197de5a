----------------------------- MODULE CreateFormMC ---------------------------
(***************************************************************************)
(* The form of a new goal as CreateForm has it, and the fields of a goal's *)
(* form: a behaviour is of one of the two.  Users, keys and slots are      *)
(* interchangeable.                                                        *)
(***************************************************************************)
EXTENDS CreateForm, GoalFieldsMC, TLC

VARIABLE part

Interchangeable ==
  Permutations(Users) \union Permutations(Keys) \union Permutations(Slots)

\* The part that is not looked at rests in one state.
BothInit ==
  /\ part \in {"upset", "kinds", "fields"}
  /\ Init
  /\ FieldsInit /\ (part # "fields" => mode = "create" /\ values = EmptyValues)

\* All upsets with bodies the contract takes, or one upset with any.
Bounded ==
  /\ part = "upset" => (form' # None => (form'.body # None => form'.body.kind # "unsound"))
  /\ part = "kinds" => upsets' <= 1

BothNext ==
  /\ part' = part
  /\ \/ part # "fields" /\ Next /\ Bounded /\ UNCHANGED fieldVars
     \/ part = "fields" /\ FieldsNext /\ UNCHANGED vars

FormsSpec == BothInit /\ [][BothNext]_<<part, vars, fieldVars>>
=============================================================================
