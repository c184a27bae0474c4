---------------------------- MODULE ActiveDirectory ----------------------------
(***************************************************************************)
(* Reconciliation of the Active Directory provider of Keycloak             *)
(* (api/keycloak_active_directory.py, keycloak/upsert_active_directory.py).*)
(*                                                                         *)
(* The group mappers of an enabled provider decide which directory groups  *)
(* grant access.  Each Job run is given a configuration: none, a list of   *)
(* groups for one legacy mapper, or a mapper for each mapped target.  A    *)
(* request may fail before or after it took effect, and a run may be       *)
(* killed between any two.                                                 *)
(***************************************************************************)
EXTENDS Naturals

CONSTANTS
  Targets,    (* parents that groups can be mapped to                       *)
  Sources,    (* directory groups, and approved lists of a legacy mapper    *)
  MaxRuns,    (* bound: runs                                                *)
  MaxEdits,   (* bound: changes by administrators                           *)
  None

DirectoryAssumption ==
  None \notin Sources /\ "legacy" \notin Targets /\ {MaxRuns, MaxEdits} \subseteq Nat

VARIABLES
  provider,   (* the managed user-storage provider                          *)
  mapper,     (* its group mappers: name |-> source, None: no such mapper   *)
  manual,     (* somebody else's group mapper overlaps /access              *)
  config,     (* the configuration of the run                               *)
  run, told,
  touched,    (* history: administrators changed a mapper since the provider closed *)
  runs, edits

vars == <<provider, mapper, manual, config, run, told, touched, runs, edits>>
keycloakVars == <<provider, mapper>>
worldVars == <<manual, config, touched, edits>>

Names == Targets \cup {"legacy"}

Injections ==
  {f \in [Targets -> Sources] : \A t, u \in Targets : f[t] = f[u] => t = u}

(* "approved groups", or "approved group: T" for each target T.             *)
Configs ==
  {[n \in Names |-> IF n = "legacy" THEN s ELSE None] : s \in Sources} \cup
  {[n \in Names |-> IF n \in T THEN f[n] ELSE None] :
     T \in (SUBSET Targets) \ {{}}, f \in Injections}
Off == [n \in Names |-> None]

IsMapping(c) == \E t \in Targets : c[t] # None

Absent == [exists |-> FALSE, subtype |-> "none", enabled |-> FALSE]
Idle == [step |-> "idle", seen |-> Absent, gated |-> FALSE, todo |-> {}]

TypeOK ==
  /\ provider \in [exists : BOOLEAN, subtype : {"none", "managed", "pending"}, enabled : BOOLEAN]
  /\ mapper \in [Names -> Sources \cup {None}] /\ manual \in BOOLEAN
  /\ config \in Configs \cup {Off}
  /\ run \in [step : {"idle", "read", "off", "verify", "owned", "provider", "delete", "upsert",
                      "sync", "groups", "remaining", "activate", "close"},
              seen : [exists : BOOLEAN, subtype : {"none", "managed", "pending"},
                      enabled : BOOLEAN],        (* the provider as it was read            *)
              gated : BOOLEAN,                   (* mapping_transition                     *)
              todo : SUBSET Names]               (* mappers still to handle                *)
  /\ told \in {"nothing", "disabled", "enabled", "failed", "review"}
  /\ touched \in BOOLEAN /\ runs \in 0..MaxRuns /\ edits \in 0..MaxEdits

-----------------------------------------------------------------------------
At(step) == run.step = step
To(step) == run' = [run EXCEPT !.step = step] /\ UNCHANGED <<told, runs>>
Then(step, todo) == run' = [run EXCEPT !.step = step, !.todo = todo] /\ UNCHANGED <<told, runs>>
End(word) == run' = Idle /\ told' = word /\ UNCHANGED runs

(* Only a failed activation is undone; the run fails either way.            *)
Fails ==
  CASE At("activate") -> To("close")
    [] At("close") -> End("review")
    [] OTHER -> End("failed")

(* A write, with its readback: done and seen, done but unseen, or not done. *)
Write(p, m, next) ==
  \/ provider' = p /\ mapper' = m /\ (next \/ Fails)
  \/ UNCHANGED keycloakVars /\ Fails

Declared == {n \in Names : config[n] # None}
Present == {n \in Names : mapper[n] # None}

-----------------------------------------------------------------------------
Start(c) ==
  /\ At("idle") /\ runs < MaxRuns /\ runs' = runs + 1
  /\ config' = c /\ run' = [Idle EXCEPT !.step = "read"] /\ told' = "nothing"
  /\ UNCHANGED <<keycloakVars, manual, touched, edits>>

ReadProvider ==
  /\ At("read")
  /\ IF config # Off
     THEN run' = [run EXCEPT !.step = "verify", !.seen = provider] /\ UNCHANGED <<told, runs>>
     ELSE IF provider.enabled
          THEN run' = [run EXCEPT !.step = "off", !.seen = provider] /\ UNCHANGED <<told, runs>>
          ELSE End("disabled")
  /\ UNCHANGED <<keycloakVars, worldVars>>

(* The provider as it was read, but disabled.                               *)
SwitchOff ==
  /\ At("off")
  /\ Write([run.seen EXCEPT !.enabled = FALSE], mapper, End("disabled"))
  /\ UNCHANGED worldVars

(* The target groups exist, and the directory answers.                      *)
Verify ==
  /\ At("verify") /\ (To("owned") \/ End("failed"))
  /\ UNCHANGED <<keycloakVars, worldVars>>

(* Mutant: only the configuration decides whether the provider is closed.   *)
TransitionByConfig(owned) == IsMapping(config)

(* mapping_transition.                                                      *)
Transition(owned) ==
  IsMapping(config) \/ run.seen.subtype = "pending" \/ owned \ {"legacy"} # {}

(* _owned_group_mappers: a foreign mapper that overlaps stops the run.      *)
ReadOwned ==
  /\ At("owned")
  /\ LET owned == IF run.seen.exists THEN Present ELSE {}
     IN IF manual /\ run.seen.exists /\ Transition(owned) THEN End("failed")
        ELSE /\ run' = [run EXCEPT !.step = "provider", !.gated = Transition(owned),
                                   !.todo = owned \ Declared]
             /\ UNCHANGED <<told, runs>>
  /\ UNCHANGED <<keycloakVars, worldVars>>

(* In a transition the provider is closed before its mappers change.        *)
Closed == [exists |-> TRUE, subtype |-> "pending", enabled |-> FALSE]

WriteProvider ==
  /\ At("provider")
  /\ Write(IF run.gated THEN Closed
           ELSE [exists |-> TRUE, subtype |-> run.seen.subtype, enabled |-> TRUE],
           mapper, To("delete"))
  /\ UNCHANGED <<manual, config, edits>>
  /\ touched' = (touched /\ provider' # Closed)

Delete(n) ==
  /\ At("delete") /\ n \in run.todo
  /\ Write(provider, [mapper EXCEPT ![n] = None], Then("delete", run.todo \ {n}))
  /\ UNCHANGED worldVars

Deleted ==
  /\ At("delete") /\ run.todo = {} /\ Then("upsert", Declared)
  /\ UNCHANGED <<keycloakVars, worldVars>>

Upsert(n) ==
  /\ At("upsert") /\ n \in run.todo
  /\ Write(provider, [mapper EXCEPT ![n] = config[n]], Then("upsert", run.todo \ {n}))
  /\ UNCHANGED worldVars

Upserted ==
  /\ At("upsert") /\ run.todo = {} /\ Then("sync", Declared)
  /\ UNCHANGED <<keycloakVars, worldVars>>

(* The directory's groups are synchronised; in a transition the mapper is   *)
(* read again.                                                              *)
Sync(n) ==
  /\ At("sync") /\ n \in run.todo
  /\ IF run.gated /\ mapper[n] # config[n] THEN End("failed") ELSE Then("sync", run.todo \ {n})
  /\ UNCHANGED <<keycloakVars, worldVars>>

(* The groups that the sync created or bound are those that were approved.  *)
VerifyGroups ==
  /\ At("sync") /\ run.todo = {}
  /\ \/ IF run.gated THEN To("remaining") ELSE End("enabled")
     \/ End("failed")
  /\ UNCHANGED <<keycloakVars, worldVars>>

Remaining ==
  /\ At("remaining")
  /\ IF Present = Declared /\ ~manual THEN To("activate") ELSE End("failed")
  /\ UNCHANGED <<keycloakVars, worldVars>>

Activate ==
  /\ At("activate")
  /\ Write([exists |-> TRUE, subtype |-> "managed", enabled |-> TRUE], mapper, End("enabled"))
  /\ UNCHANGED worldVars

(* The failed activation is undone, and the run fails.                      *)
Close ==
  /\ At("close") /\ Write(Closed, mapper, End("failed"))
  /\ UNCHANGED worldVars

Killed ==
  /\ ~At("idle") /\ End("failed")
  /\ UNCHANGED <<keycloakVars, worldVars>>

(* Administrators change a mapper of the provider, or add their own.        *)
ChangeMapper(n, s) ==
  /\ provider.exists /\ edits < MaxEdits /\ edits' = edits + 1
  /\ mapper[n] # s /\ mapper' = [mapper EXCEPT ![n] = s] /\ touched' = TRUE
  /\ UNCHANGED <<provider, manual, config, run, told, runs>>

ChangeManual ==
  /\ provider.exists /\ edits < MaxEdits /\ edits' = edits + 1 /\ manual' = ~manual
  /\ touched' = TRUE
  /\ UNCHANGED <<keycloakVars, config, run, told, runs>>

-----------------------------------------------------------------------------
Init ==
  /\ provider = Absent /\ mapper = Off /\ manual = FALSE /\ config = Off
  /\ run = Idle /\ told = "nothing" /\ touched = FALSE /\ runs = 0 /\ edits = 0

Next ==
  \/ \E c \in Configs \cup {Off} : Start(c)
  \/ ReadProvider \/ SwitchOff \/ Verify \/ ReadOwned \/ WriteProvider
  \/ Deleted \/ Upserted \/ VerifyGroups \/ Remaining \/ Activate \/ Close \/ Killed
  \/ \E n \in Names : Delete(n) \/ Upsert(n) \/ Sync(n)
  \/ \E n \in Names, s \in Sources \cup {None} : ChangeMapper(n, s)
  \/ ChangeManual

Spec == Init /\ [][Next]_vars

-----------------------------------------------------------------------------
(* "Never expose a partially replaced grant set": whichever runs, of        *)
(* whatever configurations, failed or were killed at whatever step, the     *)
(* mappers of an enabled provider are those of one configuration or none,   *)
(* and those of this very run once it reports success.  Administrators who  *)
(* changed mappers themselves are the exception until a run has closed the  *)
(* provider (reconcile_active_directory).                                   *)
GrantsAreWhole ==
  ~touched =>
    /\ provider.enabled => mapper \in Configs \cup {Off}
    /\ told = "enabled" => provider.enabled /\ mapper = config

-----------------------------------------------------------------------------
(* The inductive invariant.  A provider that is not pending has whole       *)
(* mappers, and only a run without a transition, which touches nothing but  *)
(* the legacy mapper, changes them under such a one.                        *)
AsRead ==
  /\ At("idle") \/ told = "nothing"
  /\ run.step \in {"idle", "read", "off"} \/ config # Off
  /\ run.step \in {"off", "verify", "owned", "provider"} => run.seen = provider
  /\ ~provider.exists => provider = Absent /\ mapper = Off
  /\ provider.subtype = "pending" => ~provider.enabled

Writing == {"delete", "upsert", "sync", "remaining", "activate"}
OnlyLegacy(m) == \A t \in Targets : m[t] = None

Gated ==
  /\ run.step \in Writing => provider.exists
  /\ run.step \in Writing /\ run.gated => provider = Closed
  /\ run.step \in {"remaining", "activate", "close"} => run.gated
  /\ At("close") => provider.exists
  /\ At("provider") /\ ~run.gated => provider.subtype # "pending"
  /\ run.step \in Writing /\ ~run.gated => provider.enabled
  /\ run.step \in Writing \cup {"provider"} /\ ~run.gated =>
       OnlyLegacy(config) /\ (touched \/ OnlyLegacy(mapper))

Caught ==
  ~touched =>
    /\ At("upsert") => \A n \in Declared \ run.todo : mapper[n] = config[n]
    /\ run.step \in {"sync", "remaining"} => \A n \in Declared : mapper[n] = config[n]
    /\ run.step \in {"activate", "close"} => mapper = config
    /\ provider.subtype # "pending" => mapper \in Configs \cup {Off}
    /\ told = "enabled" => provider.enabled /\ mapper = config

IInv == TypeOK /\ AsRead /\ Gated /\ Caught
===============================================================================
