---------------------------- MODULE GatewayObserve ----------------------------
(***************************************************************************)
(* The run that samples every serving gateway replica and publishes one    *)
(* status document (src/k8s_stack_tooling/agentgateway_observe.py: observe *)
(* and KubernetesObserver.membership and publish).                         *)
(*                                                                         *)
(* Replicas, policies, trust and configuration change while a run looks at *)
(* them one after the other, and runs overlap.  A resourceVersion that a   *)
(* run holds is one bit per object: nothing was written since it was read. *)
(* A config dump is the set of policy markers it shows on the expected     *)
(* listeners and routes, {} if one of these is missing or differs.         *)
(***************************************************************************)
EXTENDS FiniteSets

CONSTANTS
  Runs,       (* observation Jobs                                           *)
  Pods,       (* gateway replicas                                           *)
  Revisions,  (* policy revisions                                           *)
  Signers,    (* inspection signers, and the roots that vouch for them      *)
  Scenarios,  (* which runs there are, whether the inventory has a forward  *)
              (* proxy, and what changes in the surroundings                *)
  None

Endpoints == {"api", "proxy"}
State == {"unknown", "available", "unavailable"}
Snapshot == [run : Runs, catalog : Revisions, applied : Revisions \cup {None},
             state : [Endpoints -> State], signers : SUBSET Pods]

ObserveAssumption ==
  /\ Scenarios \subseteq [runs : SUBSET Runs, proxy : BOOLEAN,
                          changing : SUBSET {"catalog", "inventory", "trust", "policy", "health",
                                             "signer", "members"}]
  /\ None \notin Revisions \cup Signers
  /\ None \notin Snapshot

VARIABLES
  scenario,   (* the scenario, chosen in the beginning                      *)
  catalog,    (* policy revision of the catalog                             *)
  inventory,  (* policy revision of the observation inventory               *)
  trust,      (* roots of the current trust version, {} while unreadable    *)
  serving,    (* serving[s]: replicas behind Service s                      *)
  loaded,     (* loaded[p]: what p's config dump shows                      *)
  healthy,    (* replicas that answer their readiness probe                 *)
  signer,     (* signer[p]: who signs p's inspection certificates           *)
  status,     (* the status document, None before the first                 *)
  pc,         (* next step of each run                                      *)
  expected,   (* expected[r]: the revision r read from the inventory        *)
  current,    (* current[r]: objects not written since r read them          *)
  before,     (* before[r]: r's first membership                            *)
  roots,      (* roots[r]: the roots r verifies with, None if it read none  *)
  unsampled,  (* unsampled[r]: replicas r has still to sample               *)
  revisions,  (* revisions[r]: what r's samples have proved                 *)
  ready,      (* ready[r]: every sampled replica was ready                  *)
  verified,   (* verified[r]: replicas whose signer r has verified          *)
  snapshot,   (* snapshot[r]: the document r is going to publish            *)
  (* history, for the properties only: *)
  witness,    (* witness[r]: what was the case since r started              *)
  atEnd,      (* atEnd[r]: replicas that served at r's second membership    *)
  earlier     (* earlier[r]: runs that had started before r                 *)

gatewayVars == <<serving, loaded, healthy, signer>>
HasProxy == scenario.proxy
Services == IF HasProxy THEN {"api", "proxy"} ELSE {"api"}

inputVars == <<scenario, catalog, inventory, trust>>
sampleVars == <<before, roots, unsampled, revisions, ready, verified>>
historyVars == <<atEnd, earlier>>
vars == <<inputVars, gatewayVars, status, pc, expected, current, sampleVars, snapshot,
          witness, historyVars>>

Objects == {"inventory", "status", "catalog", "trust"}
Witness == [loaded : SUBSET Pods, ready : SUBSET Pods, signed : SUBSET Pods, inputs : BOOLEAN]
Fallible == {"compare", "members", "proxyMembers", "again", "proxyAgain", "retrust", "conclude"}
Sampling == Fallible \cup {"trust", "next", "config", "signer"}
Steps == {"inventory", "previous", "catalog", "start"} \cup Sampling
         \cup {"recatalog", "reinventory", "publish", "done", "failed"}

TypeOK ==
  /\ scenario \in Scenarios
  /\ catalog \in Revisions /\ inventory \in Revisions /\ trust \subseteq Signers
  /\ serving \in [Services -> SUBSET Pods]
  /\ loaded \in [Pods -> SUBSET Revisions]
  /\ healthy \subseteq Pods
  /\ signer \in [Pods -> Signers \cup {None}]
  /\ status \in Snapshot \cup {None}
  /\ pc \in [Runs -> Steps]
  /\ expected \in [Runs -> Revisions \cup {None}]
  /\ current \in [Runs -> SUBSET Objects]
  /\ before \in [Runs -> [Services -> SUBSET Pods]]
  /\ roots \in [Runs -> (SUBSET Signers) \cup {None}]
  /\ unsampled \in [Runs -> SUBSET Pods]
  /\ revisions \in [Runs -> SUBSET (Revisions \cup {None})]
  /\ ready \in [Runs -> BOOLEAN]
  /\ verified \in [Runs -> SUBSET Pods]
  /\ snapshot \in [Runs -> Snapshot \cup {None}]
  /\ witness \in [Runs -> Witness]
  /\ atEnd \in [Runs -> SUBSET Pods] /\ earlier \in [Runs -> SUBSET Runs]

Nobody == [s \in Services |-> {}]
Unseen == [loaded |-> {}, ready |-> {}, signed |-> {}, inputs |-> FALSE]
Members(view) == UNION {view[s] : s \in Services}

Init ==
  /\ scenario \in Scenarios
  /\ catalog \in Revisions /\ inventory = catalog /\ trust = Signers
  /\ serving = [s \in Services |-> Pods]
  /\ loaded = [p \in Pods |-> {catalog}]
  /\ healthy = Pods
  /\ \E c \in Signers : signer = [p \in Pods |-> c]
  /\ status = None
  /\ pc = [r \in Runs |-> "inventory"]
  /\ expected = [r \in Runs |-> None]
  /\ current = [r \in Runs |-> {}]
  /\ before = [r \in Runs |-> Nobody]
  /\ roots = [r \in Runs |-> None]
  /\ unsampled = [r \in Runs |-> {}]
  /\ revisions = [r \in Runs |-> {}]
  /\ ready = [r \in Runs |-> TRUE]
  /\ verified = [r \in Runs |-> {}]
  /\ snapshot = [r \in Runs |-> None]
  /\ witness = [r \in Runs |-> Unseen]
  /\ atEnd = [r \in Runs |-> {}] /\ earlier = [r \in Runs |-> {}]

-----------------------------------------------------------------------------
(* The surroundings.                                                       *)

(* What is the case now, seen with what r has read.                        *)
Present(r) ==
  [loaded |-> {p \in Pods : loaded[p] = {expected[r]}},
   ready |-> healthy,
   signed |-> {p \in Pods : signer[p] \in trust},
   inputs |-> inventory = expected[r] /\ catalog = snapshot[r].catalog]

Watch ==
  witness' = [r \in Runs |->
    IF pc[r] \notin Sampling THEN witness[r]
    ELSE [loaded |-> witness[r].loaded \cup Present(r)'.loaded,
          ready |-> witness[r].ready \cup Present(r)'.ready,
          signed |-> witness[r].signed \cup Present(r)'.signed,
          inputs |-> witness[r].inputs \/ Present(r)'.inputs]]

(* Writing an object makes every copy of it stale.                         *)
Written(o) == current' = [r \in Runs |-> current[r] \ {o}]

Outside == UNCHANGED <<status, pc, expected, sampleVars, snapshot, historyVars>>

UpdateInput ==
  /\ \/ /\ "catalog" \in scenario.changing
        /\ catalog' \in Revisions /\ Written("catalog")
        /\ UNCHANGED <<scenario, inventory, trust>>
     \/ /\ "inventory" \in scenario.changing
        /\ inventory' \in Revisions /\ Written("inventory")
        /\ UNCHANGED <<scenario, catalog, trust>>
     \/ /\ "trust" \in scenario.changing
        /\ trust' \in SUBSET Signers /\ Written("trust")
        /\ UNCHANGED <<scenario, catalog, inventory>>
  /\ UNCHANGED gatewayVars /\ Outside
  /\ Watch

ChangeReplica(p) ==
  /\ \/ /\ "policy" \in scenario.changing
        /\ \E m \in SUBSET Revisions : loaded' = [loaded EXCEPT ![p] = m]
        /\ UNCHANGED <<healthy, signer>>
     \/ /\ "health" \in scenario.changing
        /\ healthy' = IF p \in healthy THEN healthy \ {p} ELSE healthy \cup {p}
        /\ UNCHANGED <<loaded, signer>>
     \/ /\ "signer" \in scenario.changing
        /\ \E c \in Signers \cup {None} : signer' = [signer EXCEPT ![p] = c]
        /\ UNCHANGED <<loaded, healthy>>
  /\ UNCHANGED <<inputVars, serving, current>> /\ Outside
  /\ Watch

ChangeService(s, p) ==
  /\ "members" \in scenario.changing
  /\ serving' = [serving EXCEPT ![s] = IF p \in @ THEN @ \ {p} ELSE @ \cup {p}]
  /\ UNCHANGED <<inputVars, loaded, healthy, signer, current, witness>> /\ Outside

-----------------------------------------------------------------------------
(* Reading.                                                                *)

Goto(r, from, to) == pc[r] = from /\ pc' = [pc EXCEPT ![r] = to]
Hold(r, o) == current' = [current EXCEPT ![r] = @ \cup {o}]
World == UNCHANGED <<inputVars, gatewayVars>>
Note(v, r, x) == [v EXCEPT ![r] = x]

ReadInventory(r) ==
  /\ Goto(r, "inventory", "previous")
  /\ expected' = Note(expected, r, inventory)
  /\ Hold(r, "inventory")
  /\ World /\ UNCHANGED <<status, sampleVars, snapshot, witness, historyVars>>

ReadPrevious(r) ==
  /\ Goto(r, "previous", "catalog")
  /\ Hold(r, "status")
  /\ World /\ UNCHANGED <<status, expected, sampleVars, snapshot, witness, historyVars>>

Blank(r, revision) ==
  [run |-> r, catalog |-> revision, applied |-> None,
   state |-> [e \in Endpoints |-> "unknown"], signers |-> {}]

ReadCatalog(r) ==
  /\ Goto(r, "catalog", "start")
  /\ Hold(r, "catalog")
  /\ snapshot' = Note(snapshot, r, Blank(r, catalog))
  /\ World /\ UNCHANGED <<status, expected, sampleVars, witness, historyVars>>

(* observed_at is taken.                                                   *)
StartObservation(r) ==
  /\ Goto(r, "start", "compare")
  /\ witness' = Note(witness, r, Present(r))
  /\ earlier' = Note(earlier, r, {q \in Runs \ {r} : pc[q] \notin
                                    {"inventory", "previous", "catalog", "start"}})
  /\ World /\ UNCHANGED <<status, expected, current, sampleVars, snapshot, atEnd>>

Quiet == World /\ UNCHANGED <<status, expected, witness, earlier>>

CompareInputs(r) ==
  /\ Goto(r, "compare", "members")
  /\ expected[r] = snapshot[r].catalog
  /\ Quiet /\ UNCHANGED <<current, sampleVars, snapshot, atEnd>>

-----------------------------------------------------------------------------
(* Membership, Service after Service.                                      *)

FirstMembers(r, s, from, to) ==
  /\ Goto(r, from, to)
  /\ serving[s] # {}
  /\ before' = [before EXCEPT ![r][s] = serving[s]]
  /\ unsampled' = [unsampled EXCEPT ![r] = @ \cup serving[s]]
  /\ Quiet /\ UNCHANGED <<current, roots, revisions, ready, verified, snapshot, atEnd>>

ReadMembers(r) ==
  \/ FirstMembers(r, "api", "members", IF HasProxy THEN "proxyMembers" ELSE "next")
  \/ HasProxy /\ FirstMembers(r, "proxy", "proxyMembers", "trust")

ReadTrust(r) ==
  /\ Goto(r, "trust", "next")
  /\ \/ roots' = Note(roots, r, trust) /\ Hold(r, "trust")
     \/ UNCHANGED <<roots, current>>
  /\ Quiet
  /\ UNCHANGED <<before, unsampled, revisions, ready, verified, snapshot, atEnd>>

(* As if equal numbers of replicas meant equal replicas.                   *)
SameMembersCounted(r, s) == Cardinality(serving[s]) = Cardinality(before[r][s])

SameMembers(r, s) == serving[s] = before[r][s]

SecondMembers(r, s, from, to) ==
  /\ Goto(r, from, to)
  /\ serving[s] # {} /\ SameMembers(r, s)
  /\ atEnd' = [atEnd EXCEPT ![r] = @ \cup serving[s]]
  /\ Quiet /\ UNCHANGED <<current, sampleVars, snapshot>>

ReadMembersAgain(r) ==
  \/ SecondMembers(r, "api", "again", IF HasProxy THEN "proxyAgain" ELSE "retrust")
  \/ HasProxy /\ SecondMembers(r, "proxy", "proxyAgain", "retrust")

-----------------------------------------------------------------------------
(* Samples of one replica after the other, in the order of their uids: its *)
(* readiness, its config dump, its signer.                                 *)

Sampled(r) == CHOOSE p \in unsampled[r] : TRUE
Leave(r) == unsampled' = [unsampled EXCEPT ![r] = @ \ {Sampled(r)}]

SampleStep(r) == Quiet /\ UNCHANGED <<current, before, roots, snapshot, atEnd>>

SampleReady(r) ==
  /\ Goto(r, "next", "config")
  /\ unsampled[r] # {}
  /\ ready' = [ready EXCEPT ![r] = @ /\ Sampled(r) \in healthy]
  /\ UNCHANGED <<unsampled, revisions, verified>> /\ SampleStep(r)

(* The one revision a set consists of.                                     *)
OnlyRevision(S) == IF \E v \in Revisions : S = {v} THEN CHOOSE v \in Revisions : S = {v} ELSE None

RuntimeRevision(p) == OnlyRevision(loaded[p])

(* A replica that does not answer proves nothing.                          *)
SampleConfig(r) ==
  /\ Goto(r, "config", IF HasProxy THEN "signer" ELSE "next")
  /\ \E v \in {RuntimeRevision(Sampled(r)), None} : revisions' = [revisions EXCEPT ![r] = @ \cup {v}]
  /\ IF HasProxy THEN UNCHANGED unsampled ELSE Leave(r)
  /\ UNCHANGED <<ready, verified>> /\ SampleStep(r)

SignerVerifies(r, p) == roots[r] # None /\ signer[p] \in roots[r]

SampleSigner(r) ==
  /\ Goto(r, "signer", "next")
  /\ \/ /\ SignerVerifies(r, Sampled(r))
        /\ verified' = [verified EXCEPT ![r] = @ \cup {Sampled(r)}]
     \/ UNCHANGED verified
  /\ Leave(r)
  /\ UNCHANGED <<revisions, ready>> /\ SampleStep(r)

EndSamples(r) ==
  /\ Goto(r, "next", "again")
  /\ unsampled[r] = {}
  /\ UNCHANGED <<unsampled, revisions, ready, verified>> /\ SampleStep(r)

-----------------------------------------------------------------------------
(* The conclusion.                                                         *)

(* What could not be read is not compared; nothing was verified with it.   *)
TrustStood(r) == roots[r] = None \/ "trust" \in current[r]

RecheckTrust(r) ==
  /\ Goto(r, "retrust", "conclude")
  /\ TrustStood(r)
  /\ Quiet /\ UNCHANGED <<current, sampleVars, snapshot, atEnd>>

Proved(r) == OnlyRevision(revisions[r])

Judged(r, e) ==
  IF Proved(r) = None \/ Proved(r) # expected[r] THEN "unknown"
  ELSE IF e = "proxy" /\ HasProxy /\ verified[r] # Members(before[r]) THEN "unknown"
  ELSE IF ready[r] THEN "available" ELSE "unavailable"

Conclude(r) ==
  /\ Goto(r, "conclude", "recatalog")
  /\ snapshot' = [snapshot EXCEPT ![r] =
       [@ EXCEPT !.applied = Proved(r), !.state = [e \in Endpoints |-> Judged(r, e)],
                 !.signers = verified[r]]]
  /\ Quiet /\ UNCHANGED <<current, sampleVars, atEnd>>

(* Any difference, ambiguity or failure up to here leaves all unknown.     *)
Inconclusive(r) ==
  /\ pc[r] \in Fallible /\ pc' = [pc EXCEPT ![r] = "recatalog"]
  /\ Quiet /\ UNCHANGED <<current, sampleVars, snapshot, atEnd>>

InputStood(r, o) == o \in current[r]

RecheckInput(r) ==
  /\ \/ Goto(r, "recatalog", "reinventory") /\ InputStood(r, "catalog")
     \/ Goto(r, "reinventory", "publish") /\ InputStood(r, "inventory")
  /\ Quiet /\ UNCHANGED <<current, sampleVars, snapshot, atEnd>>

(* As if the patch carried no resourceVersion.                             *)
MayPatchAnyway(r) == TRUE

MayPatch(r) == "status" \in current[r]

(* The answer to an accepted patch may be lost.                            *)
Publish(r) ==
  /\ \E end \in {"done", "failed"} : Goto(r, "publish", end)
  /\ MayPatch(r)
  /\ status' = snapshot[r]
  /\ Written("status")
  /\ World /\ UNCHANGED <<expected, sampleVars, snapshot, witness, historyVars>>

(* A read fails, the recheck finds a change, the deadline passes, or the   *)
(* process dies.                                                           *)
Fail(r) ==
  /\ pc[r] \notin {"done", "failed"} /\ pc' = [pc EXCEPT ![r] = "failed"]
  /\ Quiet /\ UNCHANGED <<current, sampleVars, snapshot, atEnd>>

-----------------------------------------------------------------------------
Surroundings ==
  \/ UpdateInput
  \/ \E p \in Pods : ChangeReplica(p) \/ \E s \in Services : ChangeService(s, p)

Run(r) ==
  \/ ReadInventory(r)
  \/ ReadPrevious(r)
  \/ ReadCatalog(r)
  \/ StartObservation(r)
  \/ CompareInputs(r)
  \/ ReadMembers(r)
  \/ ReadTrust(r)
  \/ SampleReady(r)
  \/ SampleConfig(r)
  \/ SampleSigner(r)
  \/ EndSamples(r)
  \/ ReadMembersAgain(r)
  \/ RecheckTrust(r)
  \/ Conclude(r)
  \/ Inconclusive(r)
  \/ RecheckInput(r)
  \/ Publish(r)
  \/ Fail(r)

Next == Surroundings \/ \E r \in scenario.runs : Run(r)

Spec == Init /\ [][Next]_vars

-----------------------------------------------------------------------------
Published(r) == status' # status /\ status' = snapshot[r]

(* "unknown on incomplete evidence": a status that calls an endpoint       *)
(* available comes from a run during which every replica that served at    *)
(* its second membership did load the catalog's policy and was ready.  A   *)
(* signer is published as verified only if, while the run looked, the      *)
(* replica presented it and the current roots vouched for it.  And it      *)
(* speaks of one state of its inputs: at some moment of the run catalog    *)
(* and inventory were, together, the ones it used.  Overlapping runs do    *)
(* not bring back an older observation: what replaces a status was started *)
(* after it.                                                               *)
StatusIsWitnessedStep ==
  /\ \A r \in Runs :
       Published(r) =>
         /\ (\E e \in Endpoints : status'.state[e] = "available") =>
              /\ status'.applied = status'.catalog
              /\ atEnd[r] # {} /\ atEnd[r] \subseteq witness[r].loaded \cap witness[r].ready
         /\ status'.signers \subseteq witness[r].signed
         /\ witness[r].inputs
  /\ status # None /\ status' # status => status.run \in earlier[status'.run]

StatusIsWitnessed == [][StatusIsWitnessedStep]_status

-----------------------------------------------------------------------------
(* The inductive invariant: what each run knows of what it looks at, and    *)
(* what the history remembers of it.                                        *)
Before == {"inventory", "previous", "catalog", "start"}
Early == Before \cup {"compare", "members", "proxyMembers", "trust"}
Judging == {"recatalog", "reinventory", "publish"}
Final == {"done", "failed"}

(* A copy that is current is the object.                                    *)
ReadsStand(r) ==
  /\ "inventory" \in current[r] => inventory = expected[r]
  /\ "catalog" \in current[r] => catalog = snapshot[r].catalog
  /\ "trust" \in current[r] => trust = roots[r]

(* A run's document is its own, and of the revision it expects.             *)
OwnDocument(r) ==
  /\ snapshot[r] # None => snapshot[r].run = r
  /\ pc[r] \in {"start"} \cup Sampling \cup Judging => snapshot[r] # None
  /\ pc[r] \notin {"inventory"} \cup Final => expected[r] # None
  /\ pc[r] \in Sampling \ {"compare"} => expected[r] = snapshot[r].catalog

(* While a run samples, the history has whatever is the case.               *)
Watched(r) ==
  pc[r] \in Sampling =>
    /\ Present(r).loaded \subseteq witness[r].loaded
    /\ Present(r).ready \subseteq witness[r].ready
    /\ Present(r).signed \subseteq witness[r].signed
    /\ Present(r).inputs => witness[r].inputs

(* A sample that proves the expected revision is of a replica that had it.  *)
Evident(r, p) == p \in witness[r].loaded \/ \E v \in revisions[r] : v # expected[r]
IsReady(r, p) == ready[r] => p \in witness[r].ready

Samples(r) ==
  /\ pc[r] \in Early => Members(before[r]) \subseteq unsampled[r]
  /\ pc[r] \in Sampling =>
       \A p \in Members(before[r]) \ unsampled[r] : Evident(r, p) /\ IsReady(r, p)
  /\ pc[r] \in {"config", "signer"} => unsampled[r] # {} /\ IsReady(r, Sampled(r))
  /\ pc[r] = "signer" => Evident(r, Sampled(r))
  /\ pc[r] \in {"again", "proxyAgain", "retrust", "conclude"} => unsampled[r] = {}

(* The replicas that serve in the end are among those that were sampled.    *)
SecondLook(r) ==
  /\ pc[r] \in Early \cup {"next", "config", "signer", "again"} => atEnd[r] = {}
  /\ pc[r] \in Sampling => atEnd[r] \subseteq Members(before[r])
  /\ pc[r] \in {"proxyAgain", "retrust", "conclude"} => atEnd[r] # {}

(* Signers are verified with roots that were current, if they still are.    *)
Signed(r) ==
  /\ roots[r] = None => verified[r] = {}
  /\ pc[r] \in Early => verified[r] = {}
  /\ pc[r] \in Sampling /\ "trust" \in current[r] => verified[r] \subseteq witness[r].signed
  /\ pc[r] = "conclude" => verified[r] \subseteq witness[r].signed

(* The document claims nothing at first, and then what was the case.        *)
Claims(r) ==
  /\ pc[r] \in {"start"} \cup Sampling =>
       /\ \A e \in Endpoints : snapshot[r].state[e] # "available"
       /\ snapshot[r].signers = {}
  /\ pc[r] \in Judging =>
       /\ (\E e \in Endpoints : snapshot[r].state[e] = "available") =>
            /\ snapshot[r].applied = snapshot[r].catalog
            /\ atEnd[r] # {} /\ atEnd[r] \subseteq witness[r].loaded \cap witness[r].ready
       /\ snapshot[r].signers \subseteq witness[r].signed

(* Inputs that still stand stood together when the run began.               *)
InputsMet(r) ==
  /\ pc[r] = "recatalog" /\ {"catalog", "inventory"} \subseteq current[r] => witness[r].inputs
  /\ pc[r] = "reinventory" /\ "inventory" \in current[r] => witness[r].inputs
  /\ pc[r] = "publish" => witness[r].inputs

(* A status is of a run that has ended, and one that still stands is of a   *)
(* run that had started before.                                             *)
StatusEnded == status # None => pc[status.run] \in Final
StatusEarlier(r) ==
  pc[r] \in Sampling \cup Judging /\ "status" \in current[r] /\ status # None =>
    status.run \in earlier[r]

Knows(r) ==
  /\ ReadsStand(r) /\ OwnDocument(r) /\ Watched(r) /\ Samples(r) /\ SecondLook(r) /\ Signed(r)
  /\ Claims(r) /\ InputsMet(r) /\ StatusEarlier(r)

IInv == TypeOK /\ StatusEnded /\ \A r \in Runs : Knows(r)
=============================================================================
