----------------------------- MODULE ScopedClient -----------------------------
(***************************************************************************)
(* Reconciliation of one Keycloak client whose tokens may carry approved   *)
(* roles only: keycloak/scoped_oidc.py (a browser client) and              *)
(* keycloak/scoped_service.py (a machine identity).                        *)
(*                                                                         *)
(* What a token can carry is the grant, in parts; a part is exactly as     *)
(* approved, "less" or "more".  Administrators change any of it between    *)
(* any two requests.  A request may fail before or after it took effect.   *)
(***************************************************************************)
EXTENDS Naturals, Sequences

CONSTANTS
  MaxRuns,    (* bound: runs of the job                                     *)
  MaxEdits    (* bound: changes by administrators                           *)

ScopedAssumption == MaxRuns \in Nat /\ MaxEdits \in Nat

VARIABLES
  kind,       (* which of the two                                           *)
  client,     (* the client, but for its grant                              *)
  grant,      (* part |-> value                                             *)
  run,        (* the run in progress                                        *)
  told,       (* how the last run ended                                     *)
  touched,    (* history: what administrators changed since the run began   *)
  runs, edits

vars == <<kind, client, grant, run, told, touched, runs, edits>>
keycloakVars == <<client, grant>>
worldVars == <<kind, touched, edits>>

Values == {"exact", "less", "more"}

(* client: flows and fullScopeAllowed; shared: the attached identity scopes *)
(* of a browser client, the groups of a service account.                    *)
Parts(k) ==
  {"client", "scopes", "roles", "mappers", "composite", "shared"}
    \cup (IF k = "service" THEN {"account"} ELSE {})

(* check_state and check read the parts in this order.                      *)
Order(k) ==
  IF k = "oidc" THEN <<"client", "mappers", "roles", "composite", "scopes", "shared">>
  ELSE <<"client", "scopes", "mappers", "roles", "composite", "shared", "account">>

(* The parts corrected by requests of their own, and a look at the groups.  *)
EditOrder(k) ==
  IF k = "oidc" THEN <<"scopes", "roles", "mappers">>
  ELSE <<"scopes", "shared", "roles", "account", "mappers">>

Idle == [step |-> "idle", found |-> FALSE, todo |-> <<>>, then |-> "idle"]

Clients == [exists : BOOLEAN, owned : BOOLEAN, enabled : BOOLEAN, secret : BOOLEAN]
Runs ==
  [step : {"idle", "lookup", "prerequisites", "check", "disable", "disabled", "create",
           "put", "edit", "recheck", "enable", "confirm", "close"},
   found : BOOLEAN,          (* the client was there at the start           *)
   todo : Seq(Parts(kind)),  (* parts still to read or to correct           *)
   then : {"idle", "prerequisites", "put", "drift", "outage"}]

TypeOK ==
  /\ kind \in {"oidc", "service"} /\ grant \in [Parts(kind) -> Values]
  /\ client \in Clients /\ run \in Runs
  /\ told \in {"nothing", "verified", "refused", "drift", "outage"}
  /\ touched \subseteq Parts(kind) \cup {"enabled", "secret"}
  /\ runs \in 0..MaxRuns /\ edits \in 0..MaxEdits

-----------------------------------------------------------------------------
At(step) == run.step = step
To(step) == run' = [run EXCEPT !.step = step] /\ UNCHANGED <<told, runs>>
Then(step, todo) == run' = [run EXCEPT !.step = step, !.todo = todo] /\ UNCHANGED <<told, runs>>
End(word) == run' = Idle /\ told' = word /\ UNCHANGED runs

(* disable(), and what follows it.                                          *)
DisableThen(next) ==
  run' = [run EXCEPT !.step = "disable", !.then = next] /\ UNCHANGED <<told, runs>>

CloseAfter(word) ==
  run' = [run EXCEPT !.step = "close", !.then = word] /\ UNCHANGED <<told, runs>>

(* A request or a readback fails: only the activation is undone.            *)
Outage == IF run.step \in {"enable", "confirm"} THEN CloseAfter("outage") ELSE End("outage")

(* A write takes effect and is answered, or its answer is lost, or nothing  *)
(* arrives.                                                                 *)
Write(c, g, next) ==
  \/ client' = c /\ grant' = g /\ (next \/ Outage)
  \/ UNCHANGED keycloakVars /\ Outage

-----------------------------------------------------------------------------
Start ==
  /\ At("idle") /\ runs < MaxRuns /\ runs' = runs + 1
  /\ run' = [Idle EXCEPT !.step = "lookup"] /\ told' = "nothing" /\ touched' = {}
  /\ UNCHANGED <<kind, keycloakVars, edits>>

(* The owner and the secret of a machine identity; a browser client of full *)
(* scope is disabled first.                                                 *)
Lookup ==
  /\ At("lookup")
  /\ IF kind = "service" /\ client.exists /\ ~(client.owned /\ client.secret)
     THEN End("refused")
     ELSE /\ run' = [run EXCEPT !.found = client.exists, !.then = "prerequisites",
                       !.step = IF kind = "oidc" /\ client.exists /\ grant["client"] = "more"
                                THEN "disable" ELSE "prerequisites"]
          /\ UNCHANGED <<told, runs>>
  /\ UNCHANGED <<keycloakVars, worldVars>>

(* An approved role that is composite, or a shared scope that broadens,     *)
(* stops the run; the client is disabled if it carries it.                  *)
Carries(part) ==
  \/ kind = "service"
  \/ part = "composite" /\ (grant["roles"] # "less" \/ grant["client"] = "more")
  \/ part = "shared" /\ grant["scopes"] # "less"

(* Mutant: a role that became composite is only reported.                   *)
PrerequisitesReported ==
  /\ At("prerequisites")
  /\ \/ grant["composite"] = "more" /\ End("drift")
     \/ /\ kind = "oidc" /\ grant["shared"] # "exact"
        /\ IF run.found /\ Carries("shared") THEN DisableThen("drift") ELSE End("drift")
     \/ /\ grant["composite"] # "more" /\ (kind = "oidc" => grant["shared"] = "exact")
        /\ IF run.found THEN Then("check", Order(kind)) ELSE To("create")
  /\ UNCHANGED <<keycloakVars, worldVars>>

Prerequisites ==
  /\ At("prerequisites")
  /\ \/ /\ grant["composite"] = "more"
        /\ IF run.found /\ Carries("composite") THEN DisableThen("drift") ELSE End("drift")
     \/ /\ kind = "oidc" /\ grant["shared"] # "exact"
        /\ IF run.found /\ Carries("shared") THEN DisableThen("drift") ELSE End("drift")
     \/ /\ grant["composite"] # "more" /\ (kind = "oidc" => grant["shared"] = "exact")
        /\ IF run.found THEN Then("check", Order(kind)) ELSE To("create")
  /\ UNCHANGED <<keycloakVars, worldVars>>

-----------------------------------------------------------------------------
(* check_state and check read one part after the other.                     *)
Matches(part, enabled) ==
  grant[part] = "exact" /\ (part = "client" => client.secret /\ client.enabled = enabled)

Drifted ==
  \/ /\ At("check")
     /\ DisableThen(IF kind = "service" /\ Head(run.todo) = "shared" THEN "drift" ELSE "put")
  \/ /\ At("recheck")
     /\ IF kind = "service" /\ Head(run.todo) = "shared" THEN DisableThen("drift") ELSE End("drift")
  \/ At("confirm") /\ CloseAfter("drift")

AllRead ==
  \/ At("check") /\ End("verified")
  \/ At("recheck") /\ To("enable")
  \/ At("confirm") /\ End("verified")

ReadPart ==
  /\ run.step \in {"check", "recheck", "confirm"}
  /\ IF ~Matches(Head(run.todo), ~At("recheck")) THEN Drifted
     ELSE IF Len(run.todo) = 1 THEN AllRead
     ELSE Then(run.step, Tail(run.todo))
  /\ UNCHANGED <<keycloakVars, worldVars>>

ReadFails ==
  /\ run.step \notin {"idle", "edit"} /\ Outage
  /\ UNCHANGED <<keycloakVars, worldVars>>

Disable ==
  /\ At("disable")
  /\ Write([client EXCEPT !.enabled = FALSE], grant, To("disabled"))
  /\ UNCHANGED worldVars

(* The readback.                                                            *)
Disabled ==
  /\ At("disabled")
  /\ IF client.enabled THEN End("outage")
     ELSE IF run.then \in {"drift", "outage"} THEN End(run.then)
     ELSE To(run.then)
  /\ UNCHANGED <<keycloakVars, worldVars>>

-----------------------------------------------------------------------------
(* A client is created disabled, with what Keycloak attaches by itself.     *)
Create ==
  /\ At("create")
  /\ IF client.exists THEN End("outage") /\ UNCHANGED keycloakVars
     ELSE Write([exists |-> TRUE, owned |-> kind = "service", enabled |-> FALSE, secret |-> TRUE],
                [grant EXCEPT !["client"] = "exact", !["scopes"] = "more",
                              !["roles"] = "less", !["mappers"] = "less"],
                To("put"))
  /\ UNCHANGED worldVars

(* The secret of a machine identity is never sent again.                    *)
Put ==
  /\ At("put")
  /\ Write([client EXCEPT !.enabled = FALSE, !.secret = kind = "oidc" \/ @],
           [grant EXCEPT !["client"] = "exact"],
           Then("edit", EditOrder(kind)))
  /\ UNCHANGED worldVars

(* Stale entries are deleted and missing ones added, each by a request; an  *)
(* unknown mapper of a browser client stops the run.                        *)
Edit ==
  /\ At("edit")
  /\ LET part == Head(run.todo)
     IN \/ /\ grant[part] = "exact" /\ UNCHANGED keycloakVars
           /\ IF Len(run.todo) = 1 THEN Then("recheck", Order(kind))
              ELSE Then("edit", Tail(run.todo))
        \/ /\ part = "shared" /\ grant[part] # "exact" /\ DisableThen("drift")
           /\ UNCHANGED keycloakVars
        \/ /\ part = "mappers" /\ kind = "oidc" /\ grant[part] = "more" /\ End("drift")
           /\ UNCHANGED keycloakVars
        \/ /\ part # "shared" /\ grant[part] = "more"
           /\ \E v \in {"exact", "less"} : Write(client, [grant EXCEPT ![part] = v], To("edit"))
        \/ /\ part # "shared" /\ grant[part] = "less"
           /\ Write(client, [grant EXCEPT ![part] = "exact"], To("edit"))
  /\ UNCHANGED worldVars

(* scoped_oidc reads back the client alone, scoped_service everything.      *)
Enable ==
  /\ At("enable")
  /\ Write([client EXCEPT !.enabled = TRUE], grant,
           Then("confirm", IF kind = "oidc" THEN <<"client">> ELSE Order(kind)))
  /\ UNCHANGED worldVars

(* scoped_oidc reads the closing back.                                      *)
Close ==
  /\ At("close")
  /\ Write([client EXCEPT !.enabled = FALSE], grant,
           IF kind = "oidc" THEN To("disabled") ELSE End(run.then))
  /\ UNCHANGED worldVars

Killed ==
  /\ ~At("idle") /\ End("outage")
  /\ UNCHANGED <<keycloakVars, worldVars>>

-----------------------------------------------------------------------------
(* Administrators.                                                          *)

Touch(what) ==
  /\ edits < MaxEdits /\ edits' = edits + 1
  /\ touched' = IF At("idle") THEN touched ELSE touched \cup {what}
  /\ UNCHANGED <<kind, run, told, runs>>

ChangeGrant(part, value) ==
  /\ client.exists \/ part = "composite"
  /\ grant[part] # value /\ grant' = [grant EXCEPT ![part] = value]
  /\ Touch(part) /\ UNCHANGED client

ChangeClient(what) ==
  /\ client.exists /\ client' = [client EXCEPT ![what] = ~@]
  /\ Touch(what) /\ UNCHANGED grant

CreateOther ==
  /\ ~client.exists
  /\ client' = [exists |-> TRUE, owned |-> FALSE, enabled |-> TRUE, secret |-> FALSE]
  /\ grant' = [grant EXCEPT !["client"] = "more"]
  /\ Touch("enabled")

-----------------------------------------------------------------------------
Init ==
  /\ kind \in {"oidc", "service"}
  /\ client = [exists |-> FALSE, owned |-> FALSE, enabled |-> FALSE, secret |-> FALSE]
  /\ grant = [p \in Parts(kind) |-> "exact"]
  /\ run = Idle /\ told = "nothing" /\ touched = {} /\ runs = 0 /\ edits = 0

Next ==
  \/ Start \/ Lookup \/ Prerequisites \/ ReadFails \/ Disable \/ Disabled
  \/ ReadPart \/ Edit \/ Create \/ Put \/ Enable \/ Close \/ Killed
  \/ \E part \in Parts(kind), v \in Values : ChangeGrant(part, v)
  \/ \E what \in {"enabled", "secret"} : ChangeClient(what)
  \/ CreateOther

Spec == Init /\ [][Next]_vars

-----------------------------------------------------------------------------
(* Whatever fails and whatever administrators do meanwhile, the job opens   *)
(* the client only when every part is as approved, but for what they have   *)
(* changed since the run began; it changes a grant only while the client is *)
(* disabled, unless they enabled it; a run that ends on proven drift leaves *)
(* it disabled if it carries the drift; and "verified" is said of an        *)
(* enabled client with exactly the approved grant (the same exceptions).    *)
(* A machine identity of another owner stays as it is.                      *)
FailsClosedStep ==
  LET asApproved == \A p \in Parts(kind) : grant[p] = "exact" \/ p \in touched
  IN edits' = edits =>
       /\ ~client.enabled /\ client'.enabled => asApproved
       /\ grant' # grant => ~client'.enabled \/ "enabled" \in touched
       /\ told # "drift" /\ told' = "drift" =>
            \/ ~client'.enabled \/ "enabled" \in touched
            \/ \E p \in {"composite", "shared"} : grant[p] # "exact" /\ ~Carries(p)
            \/ ~run.found
       /\ told # "verified" /\ told' = "verified" =>
            asApproved /\ (client.enabled \/ "enabled" \in touched)
       /\ kind = "service" /\ client.exists /\ ~client.owned => UNCHANGED keycloakVars

FailsClosed == [][FailsClosedStep]_vars

-----------------------------------------------------------------------------
(* The inductive invariant: what a run knows of the client and its grant at *)
(* each of its steps, but for what administrators have changed since.       *)
AsApproved(part) == grant[part] = "exact" \/ part \in touched
Opened == client.enabled \/ "enabled" \in touched
Shut == ~client.enabled \/ "enabled" \in touched
Listed(todo) == {todo[i] : i \in DOMAIN todo}
AllButListed(todo) == \A part \in Parts(kind) \ Listed(todo) : AsApproved(part)

ReadsTell ==
  /\ run.step \in {"check", "edit", "recheck", "confirm"} => run.todo # <<>>
  /\ run.step \in {"check", "recheck"} => AllButListed(run.todo)
  /\ At("check") => "client" \in Listed(run.todo) \/ Opened
  /\ run.step \in {"edit", "recheck"} => Shut
  /\ run.step \in {"enable", "confirm"} => AllButListed(<<>>)
  /\ At("confirm") => Opened

Continues ==
  /\ run.step \in {"disable", "disabled"} => run.then # "idle"
  /\ At("close") => run.then \in {"drift", "outage"}

Stands(c) == c.exists /\ (kind = "service" => c.owned)
ClientStands ==
  run.found \/ run.step \notin {"idle", "lookup", "prerequisites", "create"} => Stands(client)

IInv == TypeOK /\ ReadsTell /\ Continues /\ ClientStands
===============================================================================
