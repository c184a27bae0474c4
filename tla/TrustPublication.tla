--------------------------- MODULE TrustPublication ---------------------------
(***************************************************************************)
(* Publication of the public inspection roots                              *)
(* (src/k8s_stack_tooling/agentgateway_trust.py): publish with its stage,  *)
(* stage --initialize and promote operations, and the replica barrier.     *)
(*                                                                         *)
(* The target ConfigMap is the archive.  An inventory, and the snapshot    *)
(* built from it, is an entry: the version (the digest of the ordered      *)
(* roots) and the transition states, which may change under one version.   *)
(* The identity a write carries (uid and resourceVersion) is one bit per   *)
(* publisher, "nothing was written since I read"; so is the revision of    *)
(* the inventory.                                                          *)
(***************************************************************************)
EXTENDS Integers, Sequences, FiniteSets

CONSTANTS
  Publishers,   (* publication Jobs                                         *)
  Promoters,    (* those that run "promote"; the others run "stage"         *)
  Initializers, (* those that run "stage --initialize"                      *)
  Versions,     (* bundle versions                                          *)
  States,       (* transition states of a bundle's certificates             *)
  MaxVersions,  (* MAX_VERSIONS                                             *)
  MaxAttempts,  (* attempts of publish; a scenario may grant fewer          *)
  Pods,         (* uids of the Studio pods                                  *)
  Replicas,     (* spec.replicas of the Studio Deployment                   *)
  Scenarios,    (* which Jobs run, with how many attempts, which versions   *)
                (* and states are reviewed, which versions have a root that *)
                (* may expire, which pods there are, and whether Studio is  *)
                (* ready only with its required version mounted ("gated")   *)
  None

ASSUME PublisherAssumption ==
  /\ Promoters \subseteq Publishers
  /\ Initializers \subseteq Publishers \ Promoters
  /\ None \notin Versions
  /\ MaxVersions \in Nat \ {0} /\ MaxAttempts \in Nat \ {0}
  /\ Replicas \in Nat
  /\ Scenarios \subseteq [publishers : SUBSET Publishers, attempts : 1..MaxAttempts,
                          versions : SUBSET Versions, states : SUBSET States,
                          expirable : SUBSET Versions, pods : SUBSET Pods, gated : BOOLEAN]

VARIABLES
  scenario,   (* the scenario, chosen in the beginning                      *)
  archive,    (* the target ConfigMap                                       *)
  inventory,  (* the reviewed inventory                                     *)
  expired,    (* versions that are no longer currently valid                *)
  floor,      (* required version in the Studio Deployment                  *)
  pod,        (* the Studio pods                                            *)
  pc,         (* next step of each publisher                                *)
  attempts,   (* attempts[p]: attempts left, the running one included       *)
  candidate,  (* candidate[p]: the snapshot built in this attempt           *)
  reviewed,   (* reviewed[p]: the inventory is still the one p read         *)
  existing,   (* existing[p]: the archive p read in this attempt            *)
  fresh,      (* fresh[p]: existing[p] has the current uid and revision     *)
  desired,    (* desired[p]: the archive p is about to write                *)
  members,    (* members[p]: replicas found by the first membership check   *)
  unverified  (* unverified[p]: replicas p has still to download from       *)

studioVars == <<floor, pod>>
inputVars == <<scenario, inventory, expired>>
readVars == <<candidate, existing>>
barrierVars == <<members, unverified>>
vars == <<archive, inputVars, studioVars, pc, attempts, readVars, reviewed, fresh,
          desired, barrierVars>>

Entry == [version : Versions, state : States]
Archive == [entries : UNION {[1..n -> Entry] : n \in 1..MaxVersions}, current : Versions]
Pod == [phase : {"unborn", "running", "terminating", "gone"},
        floor : Versions \cup {None}, mount : SUBSET Versions]
Ended == {"done", "failed"}
Steps == {"inventory", "archive", "decide", "deployment", "pods", "endpoints", "download",
          "recheck", "write", "observe", "conflict"}

Retained(a) == {a.entries[i].version : i \in DOMAIN a.entries}

(* validate_publication: what every reader of the ConfigMap insists on.    *)
Valid(a) ==
  /\ \A i, j \in DOMAIN a.entries : a.entries[i].version = a.entries[j].version => i = j
  /\ a.current \in Retained(a)

TypeOK ==
  /\ scenario \in Scenarios
  /\ archive \in Archive \cup {None} /\ (archive # None => Valid(archive))
  /\ inventory \in Entry
  /\ expired \subseteq Versions
  /\ floor \in Versions \cup {None}
  /\ pod \in [Pods -> Pod]
  /\ pc \in [Publishers -> Steps \cup Ended]
  /\ attempts \in [Publishers -> 0..MaxAttempts]
  /\ candidate \in [Publishers -> Entry \cup {None}]
  /\ reviewed \in [Publishers -> BOOLEAN]
  /\ existing \in [Publishers -> Archive \cup {None}]
  /\ fresh \in [Publishers -> BOOLEAN]
  /\ desired \in [Publishers -> Archive \cup {None}]
  /\ members \in [Publishers -> SUBSET Pods]
  /\ unverified \in [Publishers -> SUBSET Pods]

-----------------------------------------------------------------------------
(* The archive.                                                            *)

Newest(a) == a.entries[Len(a.entries)].version

(* As if the limit counted the versions before the new one.                *)
FullLater(a) == Len(a.entries) > MaxVersions

Full(a) == Len(a.entries) >= MaxVersions

(* stage_snapshot: a retained version only takes over the new states.      *)
StageSnapshot(a, c) ==
  IF a = None THEN [entries |-> <<c>>, current |-> c.version]
  ELSE [a EXCEPT !.entries =
          IF c.version \in Retained(a)
          THEN [i \in DOMAIN @ |-> IF @[i].version = c.version THEN c ELSE @[i]]
          ELSE Append(@, c)]

Staged(a, c) == \E i \in DOMAIN a.entries : a.entries[i] = c

(* An accepted write gives the ConfigMap a new resourceVersion.            *)
Store(a) == archive' = a /\ fresh' = [p \in Publishers |-> FALSE]

Reviewable == [version : scenario.versions, state : scenario.states]

(* A Job starts with the archive and the inventory that earlier ones left. *)
Init ==
  /\ scenario \in Scenarios
  /\ archive \in {None} \cup {a \in Archive : Valid(a) /\ \A i \in DOMAIN a.entries :
                                                        a.entries[i] \in Reviewable}
  /\ inventory \in Reviewable
  /\ expired = {}
  /\ floor = None
  /\ pod = [d \in Pods |-> [phase |-> "unborn", floor |-> None, mount |-> {}]]
  /\ pc = [p \in Publishers |-> "inventory"]
  /\ attempts = [p \in Publishers |-> scenario.attempts]
  /\ candidate = [p \in Publishers |-> None]
  /\ reviewed = [p \in Publishers |-> FALSE]
  /\ existing = [p \in Publishers |-> None]
  /\ fresh = [p \in Publishers |-> FALSE]
  /\ desired = [p \in Publishers |-> None]
  /\ members = [p \in Publishers |-> {}]
  /\ unverified = [p \in Publishers |-> {}]

-----------------------------------------------------------------------------
(* The surroundings: reviewers, time, the chart and Studio.                *)

Review ==
  /\ inventory' \in Reviewable \ {inventory}
  /\ reviewed' = [p \in Publishers |-> FALSE]
  /\ UNCHANGED <<scenario, archive, expired, studioVars, pc, attempts, readVars, fresh, desired,
                 barrierVars>>

Expire ==
  \E v \in scenario.expirable \ expired :
    /\ expired' = expired \cup {v}
    /\ UNCHANGED <<scenario, archive, inventory, studioVars, pc, attempts, readVars, reviewed, fresh,
                   desired, barrierVars>>

(* Somebody changes labels or annotations of the ConfigMap.                *)
TouchArchive ==
  /\ archive # None
  /\ Store(archive)
  /\ UNCHANGED <<inputVars, studioVars, pc, attempts, readVars, reviewed, desired, barrierVars>>

LoseArchive ==
  /\ archive # None
  /\ Store(None)
  /\ UNCHANGED <<inputVars, studioVars, pc, attempts, readVars, reviewed, desired, barrierVars>>

(* The operator requires a version added later than the one required.      *)
RaiseFloor ==
  /\ archive # None
  /\ \E i \in DOMAIN archive.entries :
       /\ \A j \in DOMAIN archive.entries : archive.entries[j].version = floor => j < i
       /\ floor' = archive.entries[i].version
  /\ UNCHANGED <<archive, inputVars, pod, pc, attempts, readVars, reviewed, fresh, desired,
                 barrierVars>>

StudioStep == UNCHANGED <<archive, inputVars, floor, pc, attempts, readVars, reviewed, fresh,
                          desired, barrierVars>>

Running == {d \in Pods : pod[d].phase = "running"}

(* A new pod mounts the ConfigMap from a cache that may lag behind.        *)
StartPod(d) ==
  /\ pod[d].phase = "unborn"
  /\ archive # None /\ Cardinality(Running) < Replicas
  /\ \E n \in 1..Len(archive.entries) :
       pod' = [pod EXCEPT ![d] =
         [phase |-> "running", floor |-> floor,
          mount |-> {archive.entries[i].version : i \in 1..n}]]
  /\ StudioStep

SyncMount(d) ==
  /\ pod[d].phase \in {"running", "terminating"}
  /\ archive # None
  /\ pod' = [pod EXCEPT ![d].mount = Retained(archive)]
  /\ StudioStep

StopPod(d) ==
  /\ \/ pod[d].phase = "running" /\ pod' = [pod EXCEPT ![d].phase = "terminating"]
     \/ pod[d].phase = "terminating" /\ pod' = [pod EXCEPT ![d].phase = "gone"]
  /\ StudioStep

Ready(d) ==
  /\ pod[d].phase \in {"running", "terminating"}
  /\ scenario.gated => pod[d].floor \in pod[d].mount \cup {None}

ReadyPods == {d \in Pods : Ready(d)}

-----------------------------------------------------------------------------
(* One attempt of publish.                                                 *)

Goto(p, from, to) == pc[p] = from /\ pc' = [pc EXCEPT ![p] = to]

(* candidate_snapshot: every selected root must be currently valid.        *)
ReadInventory(p) ==
  /\ Goto(p, "inventory", "archive")
  /\ inventory.version \notin expired
  /\ candidate' = [candidate EXCEPT ![p] = inventory]
  /\ reviewed' = [reviewed EXCEPT ![p] = TRUE]
  /\ UNCHANGED <<archive, inputVars, studioVars, attempts, existing, fresh, desired, barrierVars>>

ReadArchive(p) ==
  /\ Goto(p, "archive", "decide")
  /\ existing' = [existing EXCEPT ![p] = archive]
  /\ fresh' = [fresh EXCEPT ![p] = archive # None]
  /\ UNCHANGED <<archive, inputVars, studioVars, attempts, candidate, reviewed, desired, barrierVars>>

(* A missing archive is created by --initialize only, and --initialize     *)
(* accepts no other archive than the one it would create.                  *)
MayWrite(p) ==
  IF existing[p] = None THEN p \in Initializers
  ELSE p \in Initializers =>
         Len(existing[p].entries) = 1 /\ existing[p].current = candidate[p].version

(* A promotion needs a staged candidate, a new version needs room.         *)
Selectable(p) ==
  IF p \in Promoters THEN existing[p] # None /\ Staged(existing[p], candidate[p])
  ELSE existing[p] # None /\ Full(existing[p]) => candidate[p].version \in Retained(existing[p])

DecideStage(p) ==
  /\ Goto(p, "decide", "recheck")
  /\ p \notin Promoters /\ MayWrite(p) /\ Selectable(p)
  /\ desired' = [desired EXCEPT ![p] = StageSnapshot(existing[p], candidate[p])]
  /\ UNCHANGED <<archive, inputVars, studioVars, attempts, readVars, reviewed, fresh, barrierVars>>

DecidePromote(p) ==
  /\ Goto(p, "decide", "deployment")
  /\ p \in Promoters /\ MayWrite(p) /\ Selectable(p)
  /\ desired' = [desired EXCEPT ![p] = [existing[p] EXCEPT !.current = candidate[p].version]]
  /\ members' = [members EXCEPT ![p] = {}]
  /\ UNCHANGED <<archive, inputVars, studioVars, attempts, readVars, reviewed, fresh, unverified>>

(* The barrier, first and second time: replicas, download, replicas.       *)
BarrierStep(p) == UNCHANGED <<archive, inputVars, studioVars, attempts, readVars, reviewed,
                              fresh, desired>>

(* As if the floor had to be the version that is promoted.                 *)
RequiredIsCandidate(p) == candidate[p].version

Required(p) == Newest(existing[p])

CheckDeployment(p) ==
  /\ Goto(p, "deployment", "pods")
  /\ floor = Required(p)
  /\ Cardinality(Running) = Replicas
  /\ BarrierStep(p) /\ UNCHANGED barrierVars

CheckPods(p) ==
  /\ Goto(p, "pods", "endpoints")
  /\ Cardinality(ReadyPods) = Replicas /\ Replicas > 0
  /\ \A d \in ReadyPods : pod[d].phase = "running" /\ pod[d].floor = Required(p)
  /\ members[p] \in {{}, ReadyPods}
  /\ members' = [members EXCEPT ![p] = ReadyPods]
  /\ unverified' = [unverified EXCEPT ![p] = IF members[p] = {} THEN ReadyPods ELSE {}]
  /\ BarrierStep(p)

(* The endpoints that serve are exactly the pods just listed.              *)
CheckEndpoints(p) ==
  /\ Goto(p, "endpoints", IF unverified[p] = {} THEN "recheck" ELSE "download")
  /\ ReadyPods = members[p]
  /\ BarrierStep(p) /\ UNCHANGED barrierVars

Download(p) ==
  /\ pc[p] = "download"
  /\ \E d \in unverified[p] :
       /\ pod[d].phase \in {"running", "terminating"}
       /\ Retained(existing[p]) \subseteq pod[d].mount
       /\ unverified' = [unverified EXCEPT ![p] = @ \ {d}]
       /\ pc' = [pc EXCEPT ![p] = IF unverified[p] = {d} THEN "deployment" ELSE @]
  /\ BarrierStep(p) /\ UNCHANGED members

(* The inventory is the reviewed one and no root expired meanwhile.        *)
Recheck(p) ==
  /\ Goto(p, "recheck", IF existing[p] = desired[p] THEN "observe" ELSE "write")
  /\ reviewed[p] /\ candidate[p].version \notin expired
  /\ UNCHANGED <<archive, inputVars, studioVars, attempts, readVars, reviewed, fresh, desired,
                 barrierVars>>

(* What an attempt worked out dies with it.                                *)
EndAttempt(p) ==
  /\ candidate' = [candidate EXCEPT ![p] = None]
  /\ existing' = [existing EXCEPT ![p] = None]
  /\ desired' = [desired EXCEPT ![p] = None]
  /\ reviewed' = [reviewed EXCEPT ![p] = FALSE]
  /\ members' = [members EXCEPT ![p] = {}]
  /\ unverified' = [unverified EXCEPT ![p] = {}]
  /\ UNCHANGED <<inputVars, studioVars>>

LeaveArchive(p) == archive' = archive /\ fresh' = [fresh EXCEPT ![p] = FALSE]

WriteStep(p) == UNCHANGED <<inputVars, studioVars, attempts, readVars, reviewed, desired,
                            barrierVars>>

(* As if the write carried no uid and resourceVersion.                     *)
AcceptableAlways(p) == archive # None \/ existing[p] = None

(* A create needs the name to be free, a replace the object that was read. *)
Acceptable(p) == IF existing[p] = None THEN archive = None ELSE fresh[p]

WriteAccepted(p) ==
  /\ Goto(p, "write", "observe")
  /\ Acceptable(p)
  /\ Store(desired[p])
  /\ WriteStep(p)

WriteConflict(p) ==
  /\ Goto(p, "write", "conflict")
  /\ ~Acceptable(p) /\ archive # None
  /\ LeaveArchive(p) /\ WriteStep(p)

ObserveDesired(p) ==
  /\ Goto(p, "observe", "done")
  /\ archive = desired[p]
  /\ LeaveArchive(p) /\ EndAttempt(p) /\ UNCHANGED attempts

ObserveOther(p) ==
  /\ Goto(p, "observe", "conflict")
  /\ archive # desired[p]
  /\ LeaveArchive(p) /\ WriteStep(p)

(* As if conflicts were retried without a limit.                           *)
RetryForever(p) ==
  /\ Goto(p, "conflict", "inventory")
  /\ LeaveArchive(p) /\ EndAttempt(p) /\ UNCHANGED attempts

Retry(p) ==
  /\ Goto(p, "conflict", IF attempts[p] > 1 THEN "inventory" ELSE "failed")
  /\ attempts' = [attempts EXCEPT ![p] = @ - 1]
  /\ LeaveArchive(p) /\ EndAttempt(p)

(* Every check above that does not hold, and every API error but a         *)
(* conflict, ends the Job.                                                 *)
Refused(p) ==
  \/ pc[p] = "decide" /\ ~(MayWrite(p) /\ Selectable(p))
  \/ pc[p] \in Steps \ {"decide", "conflict"}

Fail(p) ==
  /\ Refused(p)
  /\ pc' = [pc EXCEPT ![p] = "failed"]
  /\ LeaveArchive(p) /\ EndAttempt(p) /\ UNCHANGED attempts

(* The write was applied, its answer is lost.                              *)
WriteUnanswered(p) ==
  /\ Goto(p, "write", "failed")
  /\ Acceptable(p)
  /\ Store(desired[p])
  /\ EndAttempt(p) /\ UNCHANGED attempts

-----------------------------------------------------------------------------
Barrier(p) ==
  \/ CheckDeployment(p)
  \/ CheckPods(p)
  \/ CheckEndpoints(p)
  \/ Download(p)

Publish(p) ==
  \/ ReadInventory(p)
  \/ ReadArchive(p)
  \/ DecideStage(p)
  \/ DecidePromote(p)
  \/ Barrier(p)
  \/ Recheck(p)
  \/ WriteAccepted(p)
  \/ WriteConflict(p)
  \/ WriteUnanswered(p)
  \/ ObserveDesired(p)
  \/ ObserveOther(p)
  \/ Retry(p)
  \/ Fail(p)

Studio == \E d \in scenario.pods : StartPod(d) \/ SyncMount(d) \/ StopPod(d)

Surroundings ==
  \/ Review
  \/ Expire
  \/ TouchArchive
  \/ LoseArchive
  \/ RaiseFloor
  \/ Studio

Next == Surroundings \/ \E p \in scenario.publishers : Publish(p)

Spec == Init /\ [][Next]_vars

-----------------------------------------------------------------------------
(* "The command never prunes history": no writer, however stale its read,  *)
(* removes or reorders a retained version; it only adds at the end.        *)
(* "Normal operations cannot silently recreate a lost archive": only the   *)
(* explicit one does.                                                      *)
HistoryAppendOnly ==
  [][ /\ archive # None /\ archive' # None =>
           /\ Len(archive.entries) <= Len(archive'.entries)
           /\ \A i \in DOMAIN archive.entries :
                archive'.entries[i].version = archive.entries[i].version
      /\ archive = None /\ archive' # None =>
           \E p \in Initializers : /\ pc[p] = "write"
                                   /\ archive' = StageSnapshot(None, candidate[p]) ]_archive

(* The promise to the workstations: at the moment current moves, every     *)
(* replica that serves, also one started after the barrier, has every      *)
(* retained version, provided Studio honours its required version.         *)
PromotedIsServed ==
  [][ scenario.gated /\ archive # None /\ archive' # None /\ archive'.current # archive.current =>
        \A d \in ReadyPods : Retained(archive') \subseteq pod[d].mount ]_vars

(* A Job ends although other writers keep changing the ConfigMap: whatever *)
(* it does uses up an attempt, a step of the attempt or a replica.         *)
Position(p) ==
  CASE pc[p] = "inventory" -> 13
    [] pc[p] = "archive" -> 12
    [] pc[p] = "decide" -> 11
    [] pc[p] = "deployment" -> IF members[p] = {} THEN 10 ELSE 6
    [] pc[p] = "pods" -> IF members[p] = {} THEN 9 ELSE 5
    [] pc[p] = "endpoints" -> IF unverified[p] # {} THEN 8 ELSE 4
    [] pc[p] = "download" -> 7
    [] pc[p] = "recheck" -> 3
    [] pc[p] = "write" -> 2
    [] pc[p] = "observe" -> 1
    [] OTHER -> 0

Before(m, n) == \E i \in DOMAIN m : m[i] < n[i] /\ \A j \in 1..i - 1 : m[j] = n[j]
Remaining(p) == <<attempts[p], Position(p), Cardinality(unverified[p])>>

JobsEnd ==
  [][ \A p \in Publishers :
        pc'[p] \notin Ended /\ <<pc[p], unverified[p], attempts[p]>>' #
                               <<pc[p], unverified[p], attempts[p]>> =>
          Before(Remaining(p)', Remaining(p)) ]_vars
=============================================================================
