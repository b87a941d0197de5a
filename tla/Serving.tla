------------------------------ MODULE Serving ------------------------------
(***************************************************************************)
(* The life of the two deployments, from their start to their end.         *)
(*                                                                         *)
(* The container (container-start.ts, server.ts, auth/background.ts):      *)
(* migrates, serves, and on a signal closes the listener, waits for the    *)
(* work that outlives its answer and gives the connections back, within a  *)
(* deadline.  A handler whose client has gone goes on: closing the         *)
(* listener waits for connections, not for handlers.                       *)
(*                                                                         *)
(* The function (vercel.ts): the first request starts the application and  *)
(* the others share the start; a start that fails gives its pools back.    *)
(***************************************************************************)

CONSTANTS
  Requests,    \* HTTP requests
  Starts,      \* starts of the function
  NoStart      \* pending is undefined

VARIABLES
  phase,       \* where the container's process is
  pools,       \* [{"app", "auth"} -> "none", "open", "ending" or "ended"]
  inFlight,    \* [Requests -> [pc, client, holds, task, cut]], the container's
  starts,      \* [Starts -> the state of initialize()]
  pending,     \* the start the function's requests share
  calls        \* [Requests -> [pc, start]], the function's

containerVars == <<phase, pools, inFlight>>
functionVars == <<starts, pending, calls>>

ASSUME ServingAssumption == NoStart \notin Starts

Pools == {"app", "auth"}

ServingInit ==
  /\ phase = "migrating"
  /\ pools = [p \in Pools |-> "none"]
  /\ inFlight = [r \in Requests |->
       [pc |-> "none", client |-> TRUE, holds |-> "none", task |-> "none", cut |-> FALSE]]
  /\ starts = [n \in Starts |-> "none"]
  /\ pending = NoStart
  /\ calls = [r \in Requests |-> [pc |-> "none", start |-> NoStart]]

-----------------------------------------------------------------------------
(* The container.                                                           *)

Exits == {"exit 0", "exit 1", "signal"}
Closing == {"closing", "draining", "pool.end", "authPool.end"}
Alive == phase \notin Exits

(* The listener opens after the migrations have succeeded.                  *)
Listen ==
  /\ phase = "migrating"
  /\ phase' = "serving" /\ pools' = [p \in Pools |-> "open"]
  /\ UNCHANGED inFlight

(* A migration or the configuration fails, or a signal ends the process.    *)
StartFails ==
  /\ phase = "migrating"
  /\ phase' \in {"exit 1", "signal"}
  /\ UNCHANGED <<pools, inFlight>>

Arrive(r) ==
  /\ phase = "serving" /\ inFlight[r].pc = "none"
  /\ inFlight' = [inFlight EXCEPT ![r].pc = "running"]
  /\ UNCHANGED <<phase, pools>>

Running(r) == Alive /\ inFlight[r].pc = "running"

(* pool.connect of a handler: a transaction, or one statement.              *)
Connect(r, p) ==
  /\ Running(r) /\ inFlight[r].holds = "none"
  /\ inFlight' = IF pools[p] = "open" THEN [inFlight EXCEPT ![r].holds = p]
                 ELSE [inFlight EXCEPT ![r].cut = TRUE]
  /\ UNCHANGED <<phase, pools>>

Release(r) ==
  /\ Alive /\ inFlight[r].holds # "none"
  /\ inFlight' = [inFlight EXCEPT ![r].holds = "none"]
  /\ UNCHANGED <<phase, pools>>

(* background.run: expired rows of the rate limit, a mail.                  *)
HandOver(r) ==
  /\ Running(r) /\ inFlight[r].task = "none"
  /\ inFlight' = [inFlight EXCEPT
       ![r].task = IF inFlight[r].client THEN "pending" ELSE "orphan"]
  /\ UNCHANGED <<phase, pools>>

(* What a task does with the database it does over the pool of the          *)
(* authentication; it ends whether that succeeds or not.                    *)
TaskEnds(r) ==
  /\ Alive /\ inFlight[r].task \in {"pending", "orphan"}
  /\ inFlight' = [inFlight EXCEPT ![r].task =
       IF @ = "pending" /\ pools["auth"] # "open" THEN "lost" ELSE "ended"]
  /\ UNCHANGED <<phase, pools>>

Answer(r) ==
  /\ Running(r) /\ inFlight[r].holds = "none"
  /\ inFlight' = [inFlight EXCEPT ![r].pc = "answered"]
  /\ UNCHANGED <<phase, pools>>

ClientLeaves(r) ==
  /\ Running(r) /\ inFlight[r].client
  /\ inFlight' = [inFlight EXCEPT ![r].client = FALSE]
  /\ UNCHANGED <<phase, pools>>

(* SIGTERM or SIGINT; further ones change nothing.                          *)
Signal ==
  /\ phase = "serving"
  /\ phase' = "closing"
  /\ UNCHANGED <<pools, inFlight>>

(* app.close: no connection is left.                                        *)
Close ==
  /\ phase = "closing"
  /\ \A r \in Requests : inFlight[r].pc = "running" => ~inFlight[r].client
  /\ phase' = "draining"
  /\ UNCHANGED <<pools, inFlight>>

(* Mutant: nothing waits for the tasks.                                     *)
DrainedAtOnce == TRUE

(* background.drain: it looks again after what it has waited for.           *)
Drained == \A r \in Requests : inFlight[r].task \notin {"pending", "orphan"}

Drain ==
  /\ phase = "draining" /\ Drained
  /\ phase' = "pool.end" /\ pools' = [pools EXCEPT !["app"] = "ending"]
  /\ UNCHANGED inFlight

(* pool.end waits for the connections that are out.                         *)
Idle(p) == \A r \in Requests : inFlight[r].holds # p

EndPool ==
  /\ phase = "pool.end" /\ Idle("app")
  /\ phase' = "authPool.end"
  /\ pools' = [pools EXCEPT !["app"] = "ended", !["auth"] = "ending"]
  /\ UNCHANGED inFlight

EndAuthPool ==
  /\ phase = "authPool.end" /\ Idle("auth")
  /\ phase' = "exit 0" /\ pools' = [pools EXCEPT !["auth"] = "ended"]
  /\ UNCHANGED inFlight

(* The deadline of the shutdown, or an error in it.                         *)
Deadline ==
  /\ phase \in Closing
  /\ phase' = "exit 1"
  /\ UNCHANGED <<pools, inFlight>>

ContainerNext ==
  \/ Listen \/ StartFails \/ Signal \/ Close \/ Drain \/ EndPool \/ EndAuthPool \/ Deadline
  \/ \E r \in Requests :
       \/ Arrive(r) \/ Release(r) \/ HandOver(r) \/ TaskEnds(r) \/ Answer(r)
       \/ ClientLeaves(r) \/ \E p \in Pools : Connect(r, p)

-----------------------------------------------------------------------------
(* The function.                                                            *)

Await(r, n) == calls' = [calls EXCEPT ![r] = [pc |-> "awaiting", start |-> n]]

Share(r) ==
  /\ calls[r].pc = "none" /\ pending # NoStart
  /\ Await(r, pending)
  /\ UNCHANGED <<starts, pending>>

StartFor(r, n) ==
  /\ calls[r].pc = "none" /\ pending = NoStart
  /\ starts[n] = "none"
  /\ Await(r, n)
  /\ starts' = [starts EXCEPT ![n] = "starting"]
  /\ pending' = n

Ready(n) ==
  /\ starts[n] = "starting"
  /\ starts' = [starts EXCEPT ![n] = "ready"]
  /\ UNCHANGED <<pending, calls>>

(* initialize fails and closes what it has opened.                          *)
StartThrows(n) ==
  /\ starts[n] = "starting"
  /\ starts' = [starts EXCEPT ![n] = "closing"]
  /\ UNCHANGED <<pending, calls>>

(* Its promise rejects, and all that await it go on before anything else.   *)
Forget(n) == IF pending = n THEN NoStart ELSE pending

StartRejects(n) ==
  /\ starts[n] = "closing"
  /\ starts' = [starts EXCEPT ![n] = "failed"]
  /\ pending' = Forget(n)
  /\ calls' = [r \in Requests |-> IF calls[r].pc = "awaiting" /\ calls[r].start = n
                                  THEN [calls[r] EXCEPT !.pc = "503"] ELSE calls[r]]

Serve(r) ==
  /\ calls[r].pc = "awaiting" /\ starts[calls[r].start] = "ready"
  /\ calls' = [calls EXCEPT ![r].pc = "served"]
  /\ UNCHANGED <<starts, pending>>

FunctionNext ==
  \/ \E r \in Requests : Share(r) \/ Serve(r) \/ \E n \in Starts : StartFor(r, n)
  \/ \E n \in Starts : Ready(n) \/ StartThrows(n) \/ StartRejects(n)

(* The two deployments share nothing.                                       *)
ServingNext == \/ ContainerNext /\ UNCHANGED functionVars
               \/ FunctionNext /\ UNCHANGED containerVars

ServingSpec == ServingInit /\ [][ServingNext]_<<containerVars, functionVars>>

-----------------------------------------------------------------------------
(* A request whose client waits never finds a pool ended, a task handed     *)
(* over for one is done with the database before it is gone, and a process  *)
(* that exits with 0 has left nothing undone of either.                     *)
WorkEndsBeforeThePools ==
  \A r \in Requests :
    /\ inFlight[r].cut => ~inFlight[r].client
    /\ inFlight[r].task # "lost"
    /\ phase = "exit 0" => /\ inFlight[r].holds = "none" /\ inFlight[r].task # "pending"
                           /\ inFlight[r].pc = "running" => ~inFlight[r].client

(* One application of the function has connections at a time, and no        *)
(* request is sent to one that has failed.                                  *)
OneStartIsAlive ==
  /\ \A m, n \in Starts : {starts[m], starts[n]} \subseteq {"starting", "closing", "ready"} => m = n
  /\ pending # NoStart => starts[pending] # "failed"

(* The deployments end their connections after their work, and not before   *)
(* (server.ts, vercel.ts).                                                  *)
PoolsAreSound == WorkEndsBeforeThePools /\ OneStartIsAlive
=============================================================================
