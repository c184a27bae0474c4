---------------------------- MODULE MCCluster ----------------------------
(* The Jobs and commands that change the cluster, Keycloak and OpenBao, each *)
(* in its own surroundings.  They share no state: a behaviour is one of a   *)
(* single component, and the components take turns in the same variables.   *)
EXTENDS Integers, TLC

CONSTANTS x1, x2, y1, y2,   (* two of a kind each: callers, operators, groups; revisions, *)
                            (* products, inputs                                           *)
          o1, o2, g1, g2,   (* runs of the observation; replicas and images               *)
          Fixed, None

(* What the components with proofs are given: the proofs are about any of it. *)
CONSTANTS
  Callers, SnapshotNames, NameOf, Inputs, MaxWait, MaxAttempts,      (* snapshot Jobs     *)
  Observations, Replicas, Policies, ProxySigners, ObservedScenarios, (* the gateway       *)
  Operators, SwitchProducts, Images, SwitchOps, SwitchEdits,         (* maintenance page  *)
  DatabaseJobs, ProductOf, DatabaseRuns,                  (* the database                 *)
  NativeRuns, NativeEdits, InspectionRuns,                (* temporary Pods               *)
  Targets, Sources, DirectoryRuns, DirectoryEdits,        (* the directory's provider     *)
  RealmJobs, RealmObjects, KindOf, DeclaredBy, OwnedBy, AddedBy, RealmRuns, RealmEdits,
                                                          (* the realm's Jobs             *)
  OnboardingGroups, OnboardingOps, OnboardingEdits,       (* people and their groups      *)
  ScopedRuns, ScopedEdits,                                (* a client of a closed scope   *)
  SelectedRecords, FieldRecords, FieldKinds, FieldSources, TypedInputs, CredentialRuns,
                                                          (* credentials of add-ons       *)
  Purposes, Digests, Slots, MaxChanges, RolloutRuns       (* credential rollouts          *)

(* Callers that use one name, and a user for each Job of the database.        *)
OneName == [c \in {x1, x2} |-> "name"]
OwnUser == [j \in {x1, x2} |-> j]

(* Of a gateway: one run among replicas, proxies and inputs, of which two    *)
(* or three change; two overlapping runs.                                    *)
Scenarios ==
  {[runs |-> {o1}, proxy |-> FALSE, changing |-> {"policy", "health"}],
   [runs |-> {o1}, proxy |-> FALSE, changing |-> {"policy", "members"}],
   [runs |-> {o1}, proxy |-> FALSE, changing |-> {"health", "members"}],
   [runs |-> {o1}, proxy |-> TRUE, changing |-> {"signer", "trust"}],
   [runs |-> {o1}, proxy |-> FALSE, changing |-> {"catalog", "inventory", "policy"}],
   [runs |-> {o1, o2}, proxy |-> FALSE, changing |-> {}]}

(* Of a realm: Base and an add-on, each with roles for one group, a client  *)
(* with its mapper, a person, and the Job that grants a client's role.      *)
Kind == [user |-> "role", app |-> "role", admins |-> "group", account |-> "client",
         ann |-> "user", aud |-> "mapper", realm |-> "realm", view |-> "clientRole"]
Declares == [base |-> {"realm", "user", "admins"}, addon |-> {"app", "admins"},
             client |-> {"account", "aud", "view"}, person |-> {"ann"}, composite |-> {}]
Owns == [base |-> {<<"admins", "user">>}, addon |-> {<<"admins", "app">>, <<"user", "app">>},
         client |-> {}, person |-> {}, composite |-> {<<"user", "view">>}]
Adds == [base |-> {}, addon |-> {}, client |-> {<<"account", "user">>},
         person |-> {<<"ann", "admins">>}, composite |-> {}]

(* Of an add-on's credentials: a key with a digest beside it and a copy in  *)
(* another record, and a typed password with its digest before it.          *)
InOrder == <<"a", "b">>
RecordOf == [key |-> "a", digest |-> "a", password |-> "b", copy |-> "b", mark |-> "a",
             empty |-> "b"]
FieldKind == [key |-> "made", digest |-> "derived", password |-> "supplied",
              copy |-> "derived", mark |-> "derived", empty |-> "literal"]
Source == [digest |-> "key", copy |-> "key", mark |-> "password"]

VARIABLES
  part,   (* the component at work *)
  s1, s2, s3, s4, s5, s6, s7, s8, s9, s10, s11, s12, s13, s14, s15, s16, s17, s18, s19, s20,
  s21, s22   (* its state *)

vars == <<part, s1, s2, s3, s4, s5, s6, s7, s8, s9, s10, s11, s12, s13, s14, s15, s16, s17, s18,
  s19, s20, s21, s22>>

Job ==
  INSTANCE SnapshotJob WITH
    Names <- SnapshotNames, Absent <- None,
    snapshot <- s1, job <- s2, status <- s3, pods <- s4, edited <- s5, pc <- s6,
    unverified <- s7, result <- s8, late <- s9, waitLeft <- s10, waited <- s11, listed <- s12,
    summary <- s13, removed <- s14

Observe ==
  INSTANCE GatewayObserve WITH
    Runs <- Observations, Pods <- Replicas, Revisions <- Policies, Signers <- ProxySigners,
    Scenarios <- ObservedScenarios,
    scenario <- s1, catalog <- s2, inventory <- s3, trust <- s4, serving <- s5, loaded <- s6,
    healthy <- s7, signer <- s8, status <- s9, pc <- s10, expected <- s11, current <- s12,
    before <- s13, roots <- s14, unsampled <- s15, revisions <- s16, ready <- s17,
    verified <- s18, snapshot <- s19, witness <- s20, atEnd <- s21, earlier <- s22

Scoped ==
  INSTANCE ScopedClient WITH
    MaxRuns <- ScopedRuns, MaxEdits <- ScopedEdits,
    kind <- s1, client <- s2, grant <- s3, run <- s4, told <- s5, touched <- s6, runs <- s7,
    edits <- s8

Directory ==
  INSTANCE ActiveDirectory WITH
    MaxRuns <- DirectoryRuns, MaxEdits <- DirectoryEdits,
    provider <- s1, mapper <- s2, manual <- s3, config <- s4, run <- s5, told <- s6,
    touched <- s7, runs <- s8, edits <- s9

Realm ==
  INSTANCE KeycloakRealm WITH
    Jobs <- RealmJobs, Objects <- RealmObjects, Kind <- KindOf, Declares <- DeclaredBy,
    Owns <- OwnedBy, Adds <- AddedBy, MaxRuns <- RealmRuns, MaxEdits <- RealmEdits,
    objects <- s1, links <- s2, want <- s3, run <- s4, told <- s5, touched <- s6, runs <- s7,
    edits <- s8

Onboarding ==
  INSTANCE UserOnboarding WITH
    Groups <- OnboardingGroups, MaxOps <- OnboardingOps, MaxEdits <- OnboardingEdits,
    realm <- s1, account <- s2, late <- s3, token <- s4, cli <- s5, plan <- s6, reply <- s7,
    report <- s8, done <- s9, ops <- s10, edits <- s11

Maintenance ==
  INSTANCE MaintenanceSwitch WITH
    Products <- SwitchProducts, MaxOps <- SwitchOps, MaxEdits <- SwitchEdits,
    lock <- s1, approved <- s2, deployment <- s3, routes <- s4, foreign <- s5, alien <- s6,
    served <- s7, op <- s8, ops <- s9, edits <- s10

Native ==
  INSTANCE NativePreparation WITH
    MaxRuns <- NativeRuns, MaxEdits <- NativeEdits,
    pod <- s1, policy <- s2, allows <- s3, space <- s4, late <- s5, bared <- s6, run <- s7,
    told <- s8, edits <- s9

Keys ==
  INSTANCE CredentialWrites WITH
    Order <- SelectedRecords, RecordOf <- FieldRecords, Kind <- FieldKinds,
    Source <- FieldSources, Inputs <- TypedInputs, Fixed <- Fixed, MaxRuns <- CredentialRuns,
    stored <- s1, version <- s2, run <- s3, runs <- s4

Database ==
  INSTANCE DatabaseProvisioning WITH
    Jobs <- DatabaseJobs, Product <- ProductOf, MaxRuns <- DatabaseRuns,
    lock <- s1, elevated <- s2, identity <- s3, job <- s4, told <- s5, runs <- s6, left <- s7,
    lost <- s8

Inspection ==
  INSTANCE DirectoryInspection WITH
    MaxRuns <- InspectionRuns,
    pod <- s1, policy <- s2, worker <- s3, late <- s4, run <- s5, told <- s6, named <- s7,
    unanswered <- s8, cut <- s9

Rollout ==
  INSTANCE CredentialRollout WITH
    MaxRuns <- RolloutRuns,
    kind <- s1, workload <- s2, seen <- s3, pods <- s4, status <- s5, want <- s6, step <- s7,
    told <- s8, runs <- s9

ASSUME JobAssumption == Job!CallerAssumption
ASSUME SwitchAssumption == Maintenance!SwitchAssumption
ASSUME DatabaseAssumption == Database!ProvisioningAssumption
ASSUME NativeAssumption == Native!NativeAssumption
ASSUME InspectionAssumption == Inspection!InspectionAssumption
ASSUME ScopedAssumption == Scoped!ScopedAssumption
ASSUME DirectoryAssumption == Directory!DirectoryAssumption
ASSUME RealmAssumption == Realm!RealmAssumption
ASSUME OnboardingAssumption == Onboarding!OnboardingAssumption
ASSUME RolloutAssumption == Rollout!RolloutAssumption
ASSUME ObserveAssumption == Observe!ObserveAssumption
ASSUME CredentialAssumption == Keys!CredentialAssumption

MCSymmetry == Permutations({x1, x2})

Init ==
  \/ /\ part = "job" /\ Job!Init
     /\ s15 = None /\ s16 = None /\ s17 = None /\ s18 = None /\ s19 = None
        /\ s20 = None /\ s21 = None /\ s22 = None
  \/ part = "observe" /\ Observe!Init
  \/ /\ part = "scoped" /\ Scoped!Init
     /\ s9 = None /\ s10 = None /\ s11 = None /\ s12 = None /\ s13 = None /\ s14 = None
        /\ s15 = None /\ s16 = None /\ s17 = None /\ s18 = None /\ s19 = None /\ s20 = None
        /\ s21 = None /\ s22 = None
  \/ /\ part = "directory" /\ Directory!Init
     /\ s10 = None /\ s11 = None /\ s12 = None /\ s13 = None /\ s14 = None /\ s15 = None
        /\ s16 = None /\ s17 = None /\ s18 = None /\ s19 = None /\ s20 = None /\ s21 = None
        /\ s22 = None
  \/ /\ part = "realm" /\ Realm!Init
     /\ s9 = None /\ s10 = None /\ s11 = None /\ s12 = None /\ s13 = None /\ s14 = None
        /\ s15 = None /\ s16 = None /\ s17 = None /\ s18 = None /\ s19 = None /\ s20 = None
        /\ s21 = None /\ s22 = None
  \/ /\ part = "onboarding" /\ Onboarding!Init
     /\ s12 = None /\ s13 = None /\ s14 = None /\ s15 = None /\ s16 = None /\ s17 = None
        /\ s18 = None /\ s19 = None /\ s20 = None /\ s21 = None /\ s22 = None
  \/ /\ part = "maintenance" /\ Maintenance!Init
     /\ s11 = None /\ s12 = None /\ s13 = None /\ s14 = None /\ s15 = None /\ s16 = None
        /\ s17 = None /\ s18 = None /\ s19 = None /\ s20 = None /\ s21 = None /\ s22 = None
  \/ /\ part = "native" /\ Native!Init
     /\ s10 = None /\ s11 = None /\ s12 = None /\ s13 = None /\ s14 = None /\ s15 = None
        /\ s16 = None /\ s17 = None /\ s18 = None /\ s19 = None /\ s20 = None /\ s21 = None
        /\ s22 = None
  \/ /\ part = "credentials" /\ Keys!Init
     /\ s5 = None /\ s6 = None /\ s7 = None /\ s8 = None /\ s9 = None /\ s10 = None
        /\ s11 = None /\ s12 = None /\ s13 = None /\ s14 = None /\ s15 = None /\ s16 = None
        /\ s17 = None /\ s18 = None /\ s19 = None /\ s20 = None /\ s21 = None /\ s22 = None
  \/ /\ part = "database" /\ Database!Init
     /\ s9 = None /\ s10 = None /\ s11 = None /\ s12 = None /\ s13 = None /\ s14 = None
        /\ s15 = None /\ s16 = None /\ s17 = None /\ s18 = None /\ s19 = None /\ s20 = None
        /\ s21 = None /\ s22 = None
  \/ /\ part = "inspection" /\ Inspection!Init
     /\ s10 = None /\ s11 = None /\ s12 = None /\ s13 = None /\ s14 = None /\ s15 = None
        /\ s16 = None /\ s17 = None /\ s18 = None /\ s19 = None /\ s20 = None /\ s21 = None
        /\ s22 = None
  \/ /\ part = "rollout" /\ Rollout!Init
     /\ s10 = None /\ s11 = None /\ s12 = None /\ s13 = None /\ s14 = None /\ s15 = None
        /\ s16 = None /\ s17 = None /\ s18 = None /\ s19 = None /\ s20 = None /\ s21 = None
        /\ s22 = None

Next ==
  /\ UNCHANGED part
  /\ \/ part = "job" /\ Job!Next /\ UNCHANGED <<s15, s16, s17, s18, s19, s20, s21, s22>>
     \/ part = "observe" /\ Observe!Next
     \/ /\ part = "scoped" /\ Scoped!Next
        /\ UNCHANGED <<s9, s10, s11, s12, s13, s14, s15, s16, s17, s18, s19, s20, s21, s22>>
     \/ /\ part = "directory" /\ Directory!Next
        /\ UNCHANGED <<s10, s11, s12, s13, s14, s15, s16, s17, s18, s19, s20, s21, s22>>
     \/ /\ part = "realm" /\ Realm!Next
        /\ UNCHANGED <<s9, s10, s11, s12, s13, s14, s15, s16, s17, s18, s19, s20, s21, s22>>
     \/ /\ part = "onboarding" /\ Onboarding!Next
        /\ UNCHANGED <<s12, s13, s14, s15, s16, s17, s18, s19, s20, s21, s22>>
     \/ /\ part = "maintenance" /\ Maintenance!Next
        /\ UNCHANGED <<s11, s12, s13, s14, s15, s16, s17, s18, s19, s20, s21, s22>>
     \/ /\ part = "native" /\ Native!Next
        /\ UNCHANGED <<s10, s11, s12, s13, s14, s15, s16, s17, s18, s19, s20, s21, s22>>
     \/ /\ part = "credentials" /\ Keys!Next
        /\ UNCHANGED <<s5, s6, s7, s8, s9, s10, s11, s12, s13, s14, s15, s16, s17, s18, s19, s20, s21, s22>>
     \/ /\ part = "database" /\ Database!Next
        /\ UNCHANGED <<s9, s10, s11, s12, s13, s14, s15, s16, s17, s18, s19, s20, s21, s22>>
     \/ /\ part = "inspection" /\ Inspection!Next
        /\ UNCHANGED <<s10, s11, s12, s13, s14, s15, s16, s17, s18, s19, s20, s21, s22>>
     \/ /\ part = "rollout" /\ Rollout!Next
        /\ UNCHANGED <<s10, s11, s12, s13, s14, s15, s16, s17, s18, s19, s20, s21, s22>>

Spec == Init /\ [][Next]_vars

-----------------------------------------------------------------------------
TypeOK ==
  /\ part = "job" => Job!TypeOK
  /\ part = "observe" => Observe!TypeOK
  /\ part = "scoped" => Scoped!TypeOK
  /\ part = "directory" => Directory!TypeOK
  /\ part = "realm" => Realm!TypeOK
  /\ part = "onboarding" => Onboarding!TypeOK
  /\ part = "maintenance" => Maintenance!TypeOK
  /\ part = "native" => Native!TypeOK
  /\ part = "credentials" => Keys!TypeOK
  /\ part = "database" => Database!TypeOK
  /\ part = "inspection" => Inspection!TypeOK
  /\ part = "rollout" => Rollout!TypeOK

(* The properties of the components, as they state them.                    *)
AnswersAreTrue ==
  part = "job" => Job!JobReadsOwnSnapshot /\ Job!AnswersAreTrue
StatusIsWitnessed == [][part = "observe" => Observe!StatusIsWitnessedStep]_vars
FailsClosed == [][part = "scoped" => Scoped!FailsClosedStep]_vars
GrantsAreWhole == part = "directory" => Directory!GrantsAreWhole
OwnedStand == part = "realm" => Realm!OwnedStand
ReportIsTrue == part = "onboarding" => Onboarding!ReportIsTrue
BackendStands == part = "maintenance" => Maintenance!BackendStands
PodsAreConfined ==
  /\ part = "native" => Native!PodNeverBare
  /\ part = "inspection" => Inspection!WorkerConfined /\ Inspection!LeftoversNamed
KeysStand == [][part = "credentials" => Keys!KeysStandStep]_vars
InstanceIsGuarded == [][part = "database" => Database!InstanceIsGuardedStep]_vars
ReadyMeansRolled == [][part = "rollout" => Rollout!ReadyMeansRolledStep]_vars
=============================================================================
