--------------------------- MODULE MaintenanceSwitch ----------------------------
(***************************************************************************)
(* Turning the maintenance page on and off from a workstation              *)
(* (cli_tools/maintenance: main.py).                                       *)
(*                                                                         *)
(* The page is served by one Deployment behind a route per scope: global,  *)
(* or one product.  Operators serialise by creating a ConfigMap, which is  *)
(* never taken over: the lock of an operator that died is removed by hand. *)
(* A kubectl command may fail, or fail to say that it took effect; an      *)
(* operator may be killed at any step.  Other writers respect the lock.    *)
(***************************************************************************)
EXTENDS Naturals, FiniteSets

CONSTANTS
  Operators,
  Products,
  Images,     (* images Base may approve                                    *)
  MaxOps,     (* bound: commands                                            *)
  MaxEdits,   (* bound: changes by Base, the cluster and other writers      *)
  None

Backend == [image : Images, owned : BOOLEAN, ready : BOOLEAN]
SwitchAssumption ==
  {MaxOps, MaxEdits} \subseteq Nat /\ None \notin Operators \cup Images \cup Backend

VARIABLES
  lock,        (* maintenance-operation-lock: who created it, or None       *)
  approved,    (* the image in Base's contract                              *)
  deployment,  (* the backend, or None                                      *)
  routes,      (* the scopes whose route exists                             *)
  foreign,     (* of these, the ones somebody else manages                  *)
  alien,       (* does a route elsewhere refer to the backend?              *)
  served,      (* the products whose host answers with the page             *)
  op,          (* each operator: step, scope and what it read               *)
  ops, edits

vars == <<lock, approved, deployment, routes, foreign, alien, served, op, ops, edits>>
cluster == <<approved, deployment, routes, foreign, alien, served, edits>>

Global == "global"
Scopes == Products \cup {Global}
Idle == [step |-> "idle", command |-> "on", scope |-> Global, route |-> FALSE, image |-> None,
         pending |-> {}, maintained |-> {}]

Operation ==
  [step : {"idle", "contract", "look", "backend", "ready", "route", "remove", "inventory",
           "verify", "idleness", "grace", "recheck", "delete", "release", "dead"},
   command : {"on", "off"}, scope : Scopes,
   route : BOOLEAN,              (* was the scope's route there?             *)
   image : Images \cup {None},   (* Base's image, as it was read             *)
   pending : SUBSET Products,    (* hosts still to be verified               *)
   maintained : SUBSET Products] (* those that have to show the page         *)

TypeOK ==
  /\ lock \in Operators \cup {None} /\ approved \in Images
  /\ deployment \in Backend \cup {None}
  /\ routes \subseteq Scopes /\ foreign \subseteq routes /\ alien \in BOOLEAN
  /\ served \subseteq Products
  /\ op \in [Operators -> Operation]
  /\ ops \in 0..MaxOps /\ edits \in 0..MaxEdits

-----------------------------------------------------------------------------
At(o, step) == op[o].step = step
To(o, step) == op' = [op EXCEPT ![o].step = step]
Release(o) == To(o, "release")                (* the finally of "execute"    *)
Unheld == UNCHANGED <<lock, ops>>
Hosts(scope) == IF scope = Global THEN Products ELSE {scope}

(* A kubectl command: its effect and the next step, or it fails, before or  *)
(* after the effect.                                                         *)
Command(o, effect, unchanged, next) ==
  \/ effect /\ next
  \/ effect /\ Release(o)
  \/ unchanged /\ Release(o)

(* Creating the lock is the whole acquisition.  It comes before the "try":  *)
(* when its answer is lost, nobody deletes it.                               *)
Acquire(o, command, scope) ==
  /\ At(o, "idle") /\ ops < MaxOps /\ ops' = ops + 1 /\ UNCHANGED cluster
  /\ lock = None /\ lock' = o
  /\ \/ op' = [op EXCEPT ![o] = [Idle EXCEPT !.step = "contract", !.command = command, !.scope = scope]]
     \/ op' = [op EXCEPT ![o] = [Idle EXCEPT !.step = "dead"]]

Contract(o) ==
  /\ At(o, "contract") /\ Unheld /\ UNCHANGED cluster
  /\ \/ op' = [op EXCEPT ![o].image = approved, ![o].step = "look"]
     \/ Release(o)

(* "on" and "off" first read the scope's route; neither touches a route     *)
(* that somebody else manages.                                               *)
Look(o) ==
  /\ At(o, "look") /\ Unheld /\ UNCHANGED cluster
  /\ \/ /\ op[o].scope \notin foreign
        /\ op' = [op EXCEPT ![o].route = op[o].scope \in routes,
                    ![o].step = IF op[o].command = "on" THEN "backend"
                                ELSE IF op[o].scope \in routes THEN "remove" ELSE "inventory"]
     \/ Release(o)

(* on: the backend is reused as it is, or created from Base's manifest.     *)
UseBackend(o) ==
  /\ At(o, "backend") /\ deployment # None /\ Unheld /\ UNCHANGED cluster
  /\ \/ deployment.owned /\ deployment.image = op[o].image /\ To(o, "ready")
     \/ Release(o)
CreateBackend(o) ==
  /\ At(o, "backend") /\ deployment = None /\ Unheld
  /\ UNCHANGED <<approved, routes, foreign, alien, served, edits>>
  /\ Command(o, deployment' = [image |-> op[o].image, owned |-> TRUE, ready |-> FALSE],
             UNCHANGED deployment, To(o, "ready"))

(* on: a ready endpoint, and only then the route.                            *)
Ready(o) ==
  /\ At(o, "ready") /\ Unheld /\ UNCHANGED cluster
  /\ \/ deployment # None /\ deployment.ready /\ To(o, "route")
     \/ Release(o)
Verify(o, hosts, maintained, step) ==
  op' = [op EXCEPT ![o].pending = hosts, ![o].maintained = maintained, ![o].step = step]
CreateRoute(o) ==
  LET scope == op[o].scope
  IN /\ At(o, "route") /\ Unheld /\ UNCHANGED <<approved, deployment, foreign, alien, served, edits>>
     /\ IF op[o].route THEN UNCHANGED routes /\ Verify(o, Hosts(scope), Hosts(scope), "verify")
        ELSE Command(o, routes' = routes \cup {scope}, UNCHANGED routes,
                     Verify(o, Hosts(scope), Hosts(scope), "verify"))

(* off: only the route that was read is deleted.                             *)
RemoveRoute(o) ==
  /\ At(o, "remove") /\ Unheld /\ UNCHANGED <<approved, deployment, foreign, alien, served, edits>>
  /\ Command(o, op[o].scope \in routes \ foreign /\ routes' = routes \ {op[o].scope},
             UNCHANGED routes, To(o, "inventory"))

(* Only the routes of the maintenance namespace.                             *)
ReferencesHere == [known |-> routes, unknown |-> FALSE]

(* off: what still refers to the backend, in every namespace.                *)
References == [known |-> routes, unknown |-> alien]
NoReferences == References.known = {} /\ ~References.unknown
Inventory(o) ==
  LET remaining == References.known
  IN /\ At(o, "inventory") /\ Unheld /\ UNCHANGED cluster
     /\ \/ /\ ~References.unknown /\ op[o].scope \notin remaining
           /\ IF remaining # {}
              THEN Verify(o, Hosts(op[o].scope), UNION {Hosts(s) : s \in remaining}, "verify")
              ELSE Verify(o, Products, {}, "idleness")
        \/ Release(o)

(* A host is asked until it answers as it should, and then not again; when  *)
(* the time is up the command fails.                                         *)
Next3 == [verify |-> "release", idleness |-> "grace", grace |-> "recheck"]
VerifyHost(o, host) ==
  /\ op[o].step \in DOMAIN Next3 /\ host \in op[o].pending
  /\ (host \in op[o].maintained <=> host \in served)
  /\ op' = [op EXCEPT ![o].pending = @ \ {host}] /\ Unheld /\ UNCHANGED cluster
Verified(o) ==
  /\ op[o].step \in DOMAIN Next3 /\ Unheld /\ UNCHANGED cluster
  /\ \/ /\ op[o].pending = {}
        /\ IF At(o, "idleness") THEN Verify(o, Products, {}, "grace")
           ELSE To(o, Next3[op[o].step])
     \/ op[o].pending # {} /\ Release(o)

(* off: after a second inventory an idle backend goes, if it is ours.        *)
Recheck(o) ==
  /\ At(o, "recheck") /\ Unheld /\ UNCHANGED cluster
  /\ \/ NoReferences /\ To(o, IF deployment = None THEN "release" ELSE "delete")
     \/ Release(o)
DeleteBackend(o) ==
  /\ At(o, "delete") /\ Unheld /\ UNCHANGED <<approved, routes, foreign, alien, served, edits>>
  /\ Command(o, deployment # None /\ deployment.owned /\ deployment' = None,
             UNCHANGED deployment, Release(o))

(* The operator deletes the lock it created; when that fails the lock stays. *)
Unlock(o) ==
  /\ At(o, "release") /\ UNCHANGED <<cluster, ops>>
  /\ op' = [op EXCEPT ![o] = Idle]
  /\ \/ lock = o /\ lock' = None
     \/ UNCHANGED lock

Kill(o) ==
  /\ op[o].step \notin {"idle", "dead"} /\ op' = [op EXCEPT ![o] = [Idle EXCEPT !.step = "dead"]]
  /\ UNCHANGED <<cluster, lock, ops>>

-----------------------------------------------------------------------------
(* By hand: a lock whose owner is dead, or has gone away without it.         *)
ClearLock ==
  /\ lock # None /\ op[lock].step \in {"idle", "dead"}
  /\ op' = [op EXCEPT ![lock] = Idle] /\ lock' = None /\ UNCHANGED <<cluster, ops>>

(* The proxy catches up with the routes.                                     *)
Converge(p) ==
  /\ served' = IF deployment # None /\ deployment.ready /\ {p, Global} \cap routes # {}
               THEN served \cup {p} ELSE served \ {p}
  /\ served' # served
  /\ UNCHANGED <<lock, approved, deployment, routes, foreign, alien, op, ops, edits>>

Edit == edits < MaxEdits /\ edits' = edits + 1 /\ UNCHANGED <<lock, served, op, ops>>
Approve(i) == Edit /\ i # approved /\ approved' = i /\ UNCHANGED <<deployment, routes, foreign, alien>>
TurnReady ==
  /\ deployment # None /\ deployment' = [deployment EXCEPT !.ready = ~@]
  /\ UNCHANGED <<lock, approved, routes, foreign, alien, served, op, ops>>
  /\ edits' = (IF deployment.ready THEN edits + 1 ELSE edits) /\ edits' <= MaxEdits
(* Others write only while nobody holds the lock.                            *)
OtherBackend ==
  /\ Edit /\ lock = None /\ deployment = None /\ UNCHANGED <<approved, routes, foreign, alien>>
  /\ \E i \in Images : deployment' = [image |-> i, owned |-> FALSE, ready |-> TRUE]
OtherRoute(s) ==
  /\ Edit /\ lock = None /\ deployment # None /\ s \notin routes
  /\ routes' = routes \cup {s} /\ foreign' = foreign \cup {s}
  /\ UNCHANGED <<approved, deployment, alien>>
AlienRoute ==
  /\ Edit /\ lock = None /\ (alien \/ deployment # None) /\ alien' = ~alien
  /\ UNCHANGED <<approved, deployment, routes, foreign>>

Init ==
  /\ lock = None /\ approved \in Images /\ deployment = None
  /\ routes = {} /\ foreign = {} /\ alien = FALSE /\ served = {}
  /\ op = [o \in Operators |-> Idle] /\ ops = 0 /\ edits = 0

Next ==
  \/ \E o \in Operators :
       \/ \E command \in {"on", "off"}, s \in Scopes : Acquire(o, command, s)
       \/ Contract(o) \/ Look(o) \/ UseBackend(o) \/ CreateBackend(o) \/ Ready(o)
       \/ CreateRoute(o) \/ RemoveRoute(o) \/ Inventory(o)
       \/ \E h \in Products : VerifyHost(o, h)
       \/ Verified(o) \/ Recheck(o) \/ DeleteBackend(o) \/ Unlock(o) \/ Kill(o)
  \/ ClearLock \/ \E p \in Products : Converge(p)
  \/ \E i \in Images : Approve(i)
  \/ TurnReady \/ OtherBackend \/ \E s \in Scopes : OtherRoute(s)
  \/ AlienRoute

Spec == Init /\ [][Next]_vars

-----------------------------------------------------------------------------
(* However commands fail, operators die and locks are cleared by hand: what *)
(* a route refers to is there, be the route of this command, of another     *)
(* scope, of another writer or in another namespace.                         *)
BackendStands == routes # {} \/ alien => deployment # None

-----------------------------------------------------------------------------
(* Why it does: who is at work holds the lock, an operator about to create  *)
(* a route knows of the backend, and one about to delete the backend that   *)
(* nothing refers to it; nobody else can change that under the lock.  Base's *)
(* image was read before it is needed.                                       *)
WorkersHold == \A o \in Operators : op[o].step \notin {"idle", "dead"} => lock = o
StepsStand ==
  \A o \in Operators :
    /\ At(o, "route") => deployment # None
    /\ At(o, "delete") => NoReferences
    /\ op[o].step \in {"look", "backend"} => op[o].image \in Images
IInv == TypeOK /\ WorkersHold /\ StepsStand /\ BackendStands
=============================================================================
