----------------------------- MODULE KeycloakRealm -----------------------------
(***************************************************************************)
(* The Jobs that reconcile a Keycloak realm (api/keycloak.py and the        *)
(* scripts keycloak/upsert_realm.py, upsert_realm_roles.py,                 *)
(* upsert_composite_roles.py, upsert_oidc_client.py and upsert_user.py).    *)
(*                                                                         *)
(* The Base and each add-on run their own Jobs against one realm, at the    *)
(* same time.  A Job first ensures its objects (the realm, clients, roles,  *)
(* groups, users, audience mappers), then the links it declares from a      *)
(* holder to a child: a composite role or a group to a role, a user to a    *)
(* group, a service account to a role.  It removes only links that it owns. *)
(***************************************************************************)
EXTENDS Naturals

CONSTANTS
  Jobs, Objects,
  Kind,       (* object |-> "realm", "client", "user", "role", "clientRole", *)
              (*   "group" or "mapper"                                      *)
  Declares,   (* Job |-> the objects it ensures                             *)
  Owns,       (* Job |-> the links it adds and removes                      *)
  Adds,       (* Job |-> the links that it only adds                        *)
  MaxRuns,    (* bound: runs of Jobs                                        *)
  MaxEdits    (* bound: changes by administrators                           *)

Pairs == Objects \X Objects
RealmAssumption ==
  /\ Kind \in [Objects -> {"realm", "client", "user", "role", "clientRole", "group", "mapper"}]
  /\ Declares \in [Jobs -> SUBSET Objects]
  /\ Owns \in [Jobs -> SUBSET Pairs] /\ Adds \in [Jobs -> SUBSET Pairs]
  /\ \A i, j \in Jobs : i # j => Owns[i] \cap (Owns[j] \cup Adds[j]) = {}
  /\ \A j \in Jobs : \A p \in Owns[j] : Kind[p[1]] \notin {"client", "user"}
  /\ {MaxRuns, MaxEdits} \subseteq Nat

VARIABLES
  objects, links,   (* in Keycloak                                          *)
  want,             (* Job |-> the links that its configuration declares    *)
  run, told,
  touched,          (* history: Job |-> its links that administrators have  *)
                    (*   changed since it began                             *)
  runs, edits

vars == <<objects, links, want, run, told, touched, runs, edits>>
worldVars == <<want, touched, edits>>

Idle == [step |-> "idle", todo |-> {}, at |-> {}, seen |-> {}]

Runs ==
  [step : {"idle", "ensure", "links", "remove", "add", "check"},
   todo : SUBSET Objects,               (* objects, then holders, still to do *)
   at : SUBSET Objects,                 (* the holder it is at                *)
   seen : SUBSET (Objects \cup Pairs)]  (* what the Job read last             *)

TypeOK ==
  /\ objects \subseteq Objects /\ links \subseteq Pairs
  /\ want \in [Jobs -> SUBSET Pairs] /\ touched \in [Jobs -> SUBSET Pairs]
  /\ run \in [Jobs -> Runs]
  /\ told \in [Jobs -> {"nothing", "done", "failed"}] /\ runs \in 0..MaxRuns /\ edits \in 0..MaxEdits

-----------------------------------------------------------------------------
At(j, step) == run[j].step = step
Set(j, r) == run' = [run EXCEPT ![j] = r] /\ UNCHANGED <<told, runs>>
To(j, step) == Set(j, [run[j] EXCEPT !.step = step])
End(j, word) == run' = [run EXCEPT ![j] = Idle] /\ told' = [told EXCEPT ![j] = word] /\ UNCHANGED runs

(* The links that a Job sees to.                                            *)
Mine(j) == Owns[j] \cup Adds[j]
Roles == {o \in Objects : Kind[o] \in {"role", "clientRole"}}

(* The Job starts with its configuration, some of what it owns, and lists   *)
(* the realm's roles.                                                       *)
Start(j, w) ==
  /\ At(j, "idle") /\ runs < MaxRuns /\ runs' = runs + 1
  /\ run' = [run EXCEPT ![j] = [Idle EXCEPT !.step = "ensure", !.todo = Declares[j], !.seen = Roles \cap objects]]
  /\ told' = [told EXCEPT ![j] = "nothing"]
  /\ want' = [want EXCEPT ![j] = w \cup Adds[j]]
  /\ touched' = [touched EXCEPT ![j] = {}]
  /\ UNCHANGED <<objects, links, edits>>

(* A request without the status that was expected ends the Job.             *)
Fails(j) ==
  /\ ~At(j, "idle") /\ End(j, "failed")
  /\ UNCHANGED <<objects, links, worldVars>>

-----------------------------------------------------------------------------
(* The objects.                                                             *)
Ensures(j, o, kinds) == At(j, "ensure") /\ o \in run[j].todo /\ Kind[o] \in kinds
Passes(j, o) == Set(j, [run[j] EXCEPT !.todo = @ \ {o}])

(* Looked up, and updated or created as needed: nobody deletes them, and    *)
(* losing a race to create one is a failure.                                *)
Put(j, o) ==
  /\ objects' = objects \cup {o} /\ UNCHANGED <<links, worldVars>>
  /\ Passes(j, o) \/ End(j, "failed")

UpsertClient(j, o) == Ensures(j, o, {"realm", "client"}) /\ Put(j, o)
UpsertUser(j, o) == Ensures(j, o, {"user"}) /\ Put(j, o)

(* A role that was listed at the start is skipped; 409 when another Job has *)
(* created it since.                                                        *)
CreateRole(j, o) ==
  /\ Ensures(j, o, {"role", "clientRole"})
  /\ CASE o \in run[j].seen -> Passes(j, o) /\ UNCHANGED <<objects, links, worldVars>>
       [] o \in objects \ run[j].seen -> End(j, "failed") /\ UNCHANGED <<objects, links, worldVars>>
       [] OTHER -> Put(j, o)

(* Another Job may create the same group or mapper meanwhile: the conflict  *)
(* is accepted when it is found then.                                       *)
FindOrCreateGroup(j, o) == Ensures(j, o, {"group"}) /\ Put(j, o)
AddMapper(j, o) == Ensures(j, o, {"mapper"}) /\ Put(j, o)

Holders(j) == {p[1] : p \in Mine(j)}

(* The roles are listed again, and all of them must be there.               *)
Ensured(j) ==
  /\ At(j, "ensure") /\ run[j].todo = {}
  /\ IF Declares[j] \subseteq objects
     THEN Set(j, [Idle EXCEPT !.step = "links", !.todo = Holders(j)])
     ELSE End(j, "failed")
  /\ UNCHANGED <<objects, links, worldVars>>

-----------------------------------------------------------------------------
(* The links, holder by holder.                                             *)
Holds(h, pairs) == {p \in pairs : p[1] = h}
Children(h, j) == {p[2] : p \in Holds(h, Mine(j))}
Takes(j, h, kinds, childKinds) ==
  /\ At(j, "links") /\ h \in run[j].todo /\ Kind[h] \in kinds
  /\ \A o \in Children(h, j) : Kind[o] \in childKinds

Reads(j, h, step, seen) ==
  /\ IF {h} \cup Children(h, j) \subseteq objects
     THEN Set(j, [step |-> step, todo |-> run[j].todo \ {h}, at |-> {h}, seen |-> seen])
     ELSE End(j, "failed")
  /\ UNCHANGED <<objects, links, worldVars>>

(* Composites of realm roles and the roles of groups are read before they   *)
(* are changed, as are the composites of client roles, whose parent a slow  *)
(* Keycloak may not show yet (Fails, or the action is delayed).             *)
ReadComposites(j, h) == Takes(j, h, {"role"}, {"role"}) /\ Reads(j, h, "remove", Holds(h, links))
ReadGroupRoles(j, h) ==
  Takes(j, h, {"group"}, {"role", "clientRole"}) /\ Reads(j, h, "remove", Holds(h, links))
ReadClientComposites(j, h) ==
  /\ Takes(j, h, {"role"}, {"clientRole"}) /\ h \in objects
  /\ Reads(j, h, "remove", Holds(h, links))

(* A service account and a user are given theirs without a look.            *)
FindAccount(j, h) == Takes(j, h, {"client"}, {"role", "clientRole"}) /\ Reads(j, h, "add", {})
FindMemberships(j, h) == Takes(j, h, {"user"}, {"group"}) /\ Reads(j, h, "add", {})

(* Mutant: whatever is not declared is removed, also when it is another's.  *)
StaleOfAll(j) == run[j].seen \ want[j]
Stale(j) == (run[j].seen \cap Owns[j]) \ want[j]
Missing(j) == (UNION {Holds(h, want[j]) : h \in run[j].at}) \ run[j].seen

RemoveStale(j) ==
  /\ At(j, "remove") /\ links' = links \ Stale(j)
  /\ To(j, "add") \/ End(j, "failed")
  /\ UNCHANGED <<objects, worldVars>>

(* One by one, or in one request: a failure may leave some of them.         *)
AddMissing(j) ==
  /\ At(j, "add")
  /\ \/ links' = links \cup Missing(j) /\ To(j, "check")
     \/ \E part \in SUBSET Missing(j) : links' = links \cup part /\ End(j, "failed")
  /\ UNCHANGED <<objects, worldVars>>

(* Composites of client roles must be exactly those declared, a service     *)
(* account must have them; the others are not read again.                   *)
Converged(j, h) ==
  LET now == Holds(h, links) \cap Mine(j)
  IN CASE Kind[h] = "client" -> Holds(h, want[j]) \subseteq now
       [] Kind[h] = "role" /\ (\E o \in Children(h, j) : Kind[o] = "clientRole") ->
            now = Holds(h, want[j])
       [] OTHER -> TRUE

Check(j, h) ==
  /\ At(j, "check") /\ h \in run[j].at
  /\ IF Converged(j, h) THEN Set(j, [Idle EXCEPT !.step = "links", !.todo = run[j].todo])
     ELSE End(j, "failed")
  /\ UNCHANGED <<objects, links, worldVars>>

Done(j) ==
  /\ At(j, "links") /\ run[j].todo = {} /\ End(j, "done")
  /\ UNCHANGED <<objects, links, worldVars>>

-----------------------------------------------------------------------------
(* Administrators add and remove links.                                     *)
EditLink(p) ==
  /\ edits < MaxEdits /\ edits' = edits + 1 /\ {p[1], p[2]} \subseteq objects
  /\ links' = (links \ {p}) \cup ({p} \ links) /\ touched' = [j \in Jobs |-> touched[j] \cup (Mine(j) \cap {p})]
  /\ UNCHANGED <<objects, want, run, told, runs>>

-----------------------------------------------------------------------------
(* An empty Keycloak, or one that earlier runs have worked on.              *)
Init ==
  /\ \/ objects = {} /\ links = {}
     \/ objects = Objects /\ links \in {{}, UNION {Mine(j) : j \in Jobs}}
  /\ want = [j \in Jobs |-> {}] /\ touched = [j \in Jobs |-> {}] /\ run = [j \in Jobs |-> Idle]
  /\ told = [j \in Jobs |-> "nothing"] /\ runs = 0 /\ edits = 0

Next ==
  \/ \E j \in Jobs :
       \/ \E w \in SUBSET Owns[j] : Start(j, w)
       \/ Ensured(j) \/ RemoveStale(j) \/ AddMissing(j) \/ Done(j) \/ Fails(j)
       \/ \E o \in run[j].todo \cup run[j].at :
            \/ UpsertClient(j, o) \/ UpsertUser(j, o) \/ CreateRole(j, o) \/ FindOrCreateGroup(j, o) \/ AddMapper(j, o)
            \/ ReadComposites(j, o) \/ ReadGroupRoles(j, o) \/ ReadClientComposites(j, o)
            \/ FindAccount(j, o) \/ FindMemberships(j, o) \/ Check(j, o)
  \/ \E p \in UNION {Mine(j) : j \in Jobs} : EditLink(p)

Spec == Init /\ [][Next]_vars

-----------------------------------------------------------------------------
(* What a Job reported done stands: of the links that it owns, those exist  *)
(* that it declared, and those it only adds exist, whichever Jobs of others *)
(* read, removed and added links of the same holders meanwhile, failed half *)
(* way or are still running.  Links that administrators changed are the     *)
(* exception until the Job runs again (upsert_realm_role_composites_api,    *)
(* upsert_composite_roles_api, upsert_groups_api).                          *)
OwnedStand ==
  \A j \in Jobs : told[j] = "done" =>
    \A p \in Mine(j) \ touched[j] : (p \in links) = (p \in want[j])

-----------------------------------------------------------------------------
(* The inductive invariant: how far a Job at work is with each of its links *)
(* that no administrator has changed.                                       *)
Untouched(j) == Mine(j) \ touched[j]
Settled(j, p) == p \in links <=> p \in want[j]

WantsOwn ==
  \A j \in Jobs :
    /\ want[j] \subseteq Mine(j)
    /\ At(j, "idle") \/ told[j] = "nothing"
    /\ ~At(j, "idle") \/ told[j] = "done" => Adds[j] \subseteq want[j]

HoldersDone ==
  \A j \in Jobs : run[j].step \in {"links", "remove", "add", "check"} =>
    \A p \in Untouched(j) : p[1] \notin run[j].todo \cup run[j].at => Settled(j, p)

HolderUnderway ==
  \A j \in Jobs : \A p \in Untouched(j) : p[1] \in run[j].at =>
    /\ At(j, "remove") =>
         /\ p \in run[j].seen => p \in links
         /\ p \in Owns[j] \cap links => p \in run[j].seen
    /\ At(j, "add") =>
         /\ p \in Owns[j] \cap links => p \in want[j]
         /\ p \in run[j].seen \cap want[j] => p \in links
    /\ At(j, "check") => Settled(j, p)

AtHolder ==
  \A j \in Jobs :
    /\ run[j].step \in {"ensure", "links"} => run[j].at = {}
    /\ \A h, g \in run[j].at : h = g

IInv == TypeOK /\ WantsOwn /\ HoldersDone /\ HolderUnderway /\ AtHolder /\ OwnedStand
===============================================================================
