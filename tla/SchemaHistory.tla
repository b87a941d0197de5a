--------------------------- MODULE SchemaHistory ---------------------------
(***************************************************************************)
(* What migrating a database promises, whoever does it and however often   *)
(* it fails: the tables of the authentication come first, every numbered   *)
(* file runs once, after the files that precede it in the checkout it is   *)
(* taken from, and its row in schema_migrations says what was run.         *)
(*                                                                         *)
(* A checkout is a function from its files, numbered in name order, to     *)
(* their texts.                                                            *)
(***************************************************************************)
EXTENDS Naturals

CONSTANTS
  Files,       \* numbers of the files in apps/api/migrations
  Checkouts,   \* the checkouts that are deployed
  Unapplied    \* no row

VARIABLES
  auth,        \* the tables of the authentication exist
  history,     \* schema_migrations: [Files -> text or Unapplied]
  runs         \* how often the file's SQL has been committed

schemaVars == <<auth, history, runs>>

SchemaInit ==
  /\ auth = FALSE
  /\ history = [f \in Files |-> Unapplied]
  /\ runs = [f \in Files |-> 0]

CreateAuth ==
  /\ auth' = TRUE
  /\ UNCHANGED <<history, runs>>

Apply(c, f) ==
  /\ auth
  /\ f \in DOMAIN c /\ history[f] = Unapplied
  /\ \A g \in DOMAIN c : g < f => history[g] # Unapplied
  /\ history' = [history EXCEPT ![f] = c[f]]
  /\ runs' = [runs EXCEPT ![f] = @ + 1]
  /\ UNCHANGED auth

SchemaNext == CreateAuth \/ \E c \in Checkouts : \E f \in DOMAIN c : Apply(c, f)

SchemaSpec == SchemaInit /\ [][SchemaNext]_schemaVars
=============================================================================
