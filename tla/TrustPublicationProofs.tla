------------------------ MODULE TrustPublicationProofs ------------------------
(* Proofs about TrustPublication, for any Jobs, versions and pods, any     *)
(* limit of the archive and any set of scenarios.                          *)
EXTENDS TrustPublication, FiniteSetTheorems, TLAPS

Barriers == {"deployment", "pods", "endpoints", "download"}

(***************************************************************************)
(* The inductive invariant                                                 *)
(***************************************************************************)
(* A Job that runs has an attempt left, and from its inventory on a        *)
(* candidate.                                                              *)
AttemptsLeft == \A p \in Publishers : pc[p] \notin Ended => attempts[p] > 0

CandidateRead ==
  \A p \in Publishers : pc[p] \in Steps \ {"inventory"} => candidate[p] \in Entry

(* What was read was valid, and is the archive as long as nobody wrote.    *)
ReadsAreValid == \A p \in Publishers : existing[p] # None => Valid(existing[p])

FreshIsCurrent == \A p \in Publishers : fresh[p] => existing[p] = archive /\ archive # None

(* What is about to be written follows from what was read.                 *)
DesiredFollows ==
  \A p \in Publishers :
    /\ pc[p] \in Barriers => p \in Promoters
    /\ pc[p] \in Barriers \cup {"recheck", "write"} =>
         /\ MayWrite(p) /\ Selectable(p)
         /\ desired[p] = IF p \in Promoters
                         THEN [existing[p] EXCEPT !.current = candidate[p].version]
                         ELSE StageSnapshot(existing[p], candidate[p])

(* Finitely many pods were ever started, and the barrier looks at these.   *)
Born == {d \in Pods : pod[d].phase # "unborn"}

MembersWereBorn ==
  /\ IsFiniteSet(Born)
  /\ \A p \in Publishers :
       /\ unverified[p] \subseteq members[p] /\ members[p] \subseteq Born
       /\ pc[p] \in {"inventory", "archive", "decide"} => members[p] = {}
       /\ pc[p] \in {"deployment", "pods"} => unverified[p] = {}

(* While the archive is what a promoter read, the floor that it found      *)
(* cannot be raised; what it downloaded stays mounted; and after the last  *)
(* check no pod is ready without every retained version, also not one that *)
(* was started since.                                                      *)
PastDeployment(p) ==
  \/ pc[p] \in {"pods", "endpoints", "download"}
  \/ pc[p] \in {"recheck", "write"} /\ p \in Promoters
  \/ pc[p] = "deployment" /\ members[p] # {}

FloorHeld == \A p \in Publishers : fresh[p] /\ PastDeployment(p) => floor = Required(p)

Serves(p, d) == Retained(existing[p]) \subseteq pod[d].mount

DownloadsStand ==
  \A p \in Publishers :
    fresh[p] /\ pc[p] \in Barriers => \A d \in members[p] \ unverified[p] : Serves(p, d)

ServedWhenReady ==
  \A p \in Promoters :
    scenario.gated /\ fresh[p] /\ pc[p] \in {"recheck", "write"} =>
      \A d \in ReadyPods : Serves(p, d)

IInv ==
  /\ TypeOK /\ AttemptsLeft /\ CandidateRead /\ ReadsAreValid /\ FreshIsCurrent
  /\ DesiredFollows /\ MembersWereBorn /\ FloorHeld /\ DownloadsStand /\ ServedWhenReady
(***************************************************************************)
(* The archive                                                             *)
(***************************************************************************)
LEMMA EntriesType ==
  ASSUME NEW a \in Archive
  PROVE  /\ a.entries \in Seq(Entry) /\ Len(a.entries) \in 1..MaxVersions
         /\ DOMAIN a.entries = 1..Len(a.entries)
         /\ \A i \in 1..Len(a.entries) : a.entries[i] \in Entry /\ a.entries[i].version \in Versions
         /\ a.current \in Versions
<1>1. PICK n \in 1..MaxVersions : a.entries \in [1..n -> Entry]
  BY DEF Archive
<1>2. n \in Nat
  BY <1>1, PublisherAssumption
<1>3. a.entries \in Seq(Entry) /\ Len(a.entries) = n
  BY <1>1, <1>2
<1> QED
  BY <1>1, <1>3 DEF Archive, Entry

(* An archive is made of a sequence of entries and one of their versions.  *)
LEMMA ArchiveOf ==
  ASSUME NEW s \in Seq(Entry), Len(s) \in 1..MaxVersions, NEW v \in Versions
  PROVE  [entries |-> s, current |-> v] \in Archive
<1>1. s \in [1..Len(s) -> Entry]
  OBVIOUS
<1> QED
  BY <1>1 DEF Archive

(* A write only appends, and what it writes is valid.                      *)
Extends(b, a) ==
  /\ Len(a.entries) <= Len(b.entries)
  /\ \A i \in DOMAIN a.entries : b.entries[i].version = a.entries[i].version

(* The first archive.                                                      *)
LEMMA StagedFirst ==
  ASSUME NEW c \in Entry
  PROVE  StageSnapshot(None, c) \in Archive /\ Valid(StageSnapshot(None, c))
<1> DEFINE b == [entries |-> <<c>>, current |-> c.version]
<1>1. StageSnapshot(None, c) = b
  BY DEF StageSnapshot
<1>2. <<c>> \in Seq(Entry) /\ Len(<<c>>) = 1 /\ c.version \in Versions
  BY DEF Entry
<1>3. b \in Archive
  <2>1. Len(<<c>>) \in 1..MaxVersions
    BY <1>2, PublisherAssumption
  <2> QED
    BY ONLY <1>2, <2>1, ArchiveOf
<1>4. Valid(b)
  <2>1. DOMAIN b.entries = {1} /\ b.entries[1] = c /\ b.current = c.version
    BY <1>2
  <2> HIDE DEF b
  <2> QED
    BY <2>1 DEF Valid, Retained
<1> QED
  BY <1>1, <1>3, <1>4

(* A retained version takes over the new states.                           *)
LEMMA StagedAgain ==
  ASSUME NEW a \in Archive, a # None, Valid(a), NEW c \in Entry, c.version \in Retained(a)
  PROVE  LET b == StageSnapshot(a, c)
         IN  /\ b \in Archive /\ Valid(b) /\ Extends(b, a)
             /\ b.current = a.current
<1> DEFINE s == [i \in DOMAIN a.entries |-> IF a.entries[i].version = c.version THEN c ELSE a.entries[i]]
           b == StageSnapshot(a, c)
<1>1. b = [a EXCEPT !.entries = s]
  BY DEF StageSnapshot
<1>2. a = [entries |-> a.entries, current |-> a.current]
  BY DEF Archive
<1>3. b = [entries |-> s, current |-> a.current]
  BY <1>1, <1>2
<1>4. s \in Seq(Entry) /\ Len(s) = Len(a.entries) /\ DOMAIN s = DOMAIN a.entries
  BY EntriesType
<1>5. \A i \in DOMAIN s : s[i].version = a.entries[i].version
  BY EntriesType
<1>6. b \in Archive
  BY <1>3, <1>4, EntriesType, ArchiveOf
<1>7. b.entries = s /\ b.current = a.current
  BY <1>3
<1> HIDE DEF s, b
<1>8. Valid(b)
  BY <1>4, <1>5, <1>7 DEF Valid, Retained
<1>9. Extends(b, a)
  BY <1>4, <1>5, <1>7, EntriesType DEF Extends
<1> QED
  BY <1>6, <1>7, <1>8, <1>9 DEF b

(* A new version comes last, if there is room.                             *)
LEMMA StagedNew ==
  ASSUME NEW a \in Archive, a # None, Valid(a), NEW c \in Entry,
         c.version \notin Retained(a), ~Full(a)
  PROVE  LET b == StageSnapshot(a, c)
         IN  /\ b \in Archive /\ Valid(b) /\ Extends(b, a)
             /\ b.current = a.current
<1> DEFINE s == Append(a.entries, c)
           b == StageSnapshot(a, c)
<1>1. b = [a EXCEPT !.entries = s]
  BY DEF StageSnapshot
<1>2. a = [entries |-> a.entries, current |-> a.current]
  BY DEF Archive
<1>3. b = [entries |-> s, current |-> a.current]
  BY <1>1, <1>2
<1>4. /\ s \in Seq(Entry) /\ Len(s) = Len(a.entries) + 1 /\ DOMAIN s = 1..Len(a.entries) + 1
      /\ s[Len(a.entries) + 1] = c
      /\ \A i \in 1..Len(a.entries) : s[i] = a.entries[i]
  BY EntriesType
<1>5. Len(s) \in 1..MaxVersions
  BY <1>4, EntriesType, PublisherAssumption DEF Full
<1>6. b \in Archive
  BY <1>3, <1>4, <1>5, EntriesType, ArchiveOf
<1>7. b.entries = s /\ b.current = a.current
  BY <1>3
<1>8. \A i \in 1..Len(a.entries) : a.entries[i].version # c.version
  BY EntriesType DEF Retained
<1> HIDE DEF s, b
<1>9. Valid(b)
  <2>1. \A i \in DOMAIN s : IF i \in 1..Len(a.entries) THEN s[i] = a.entries[i]
                             ELSE i = Len(a.entries) + 1 /\ s[i] = c
    BY <1>4, EntriesType
  <2>2. \A i, j \in DOMAIN s : s[i].version = s[j].version => i = j
    BY <1>8, <2>1, EntriesType DEF Valid
  <2>3. \E i \in DOMAIN s : s[i].version = a.current
    <3>1. PICK i \in DOMAIN a.entries : a.entries[i].version = a.current
      BY DEF Valid, Retained
    <3>2. i \in DOMAIN s /\ s[i] = a.entries[i]
      BY <1>4, <3>1, EntriesType
    <3> QED
      BY <3>1, <3>2
  <2> QED
    BY <1>7, <2>2, <2>3 DEF Valid, Retained
<1>10. Extends(b, a)
  BY <1>4, <1>7, EntriesType DEF Extends
<1> QED
  BY <1>6, <1>7, <1>9, <1>10 DEF b

(* A promotion moves current to a retained version.                        *)
LEMMA PromotedType ==
  ASSUME NEW a \in Archive, Valid(a), NEW c \in Entry, Staged(a, c)
  PROVE  LET b == [a EXCEPT !.current = c.version]
         IN  b \in Archive /\ Valid(b) /\ Extends(b, a) /\ b.entries = a.entries
<1> DEFINE b == [a EXCEPT !.current = c.version]
<1>1. c.version \in Retained(a) /\ c.version \in Versions
  BY DEF Staged, Retained, Entry
<1>2. b = [entries |-> a.entries, current |-> c.version]
  BY DEF Archive
<1>3. b \in Archive
  BY <1>1, <1>2, EntriesType, ArchiveOf
<1>4. b.entries = a.entries /\ b.current = c.version
  BY <1>2
<1> HIDE DEF b
<1>5. Valid(b)
  BY <1>1, <1>4 DEF Valid, Retained
<1>6. Extends(b, a)
  BY <1>4, EntriesType DEF Extends
<1> QED
  BY <1>3, <1>4, <1>5, <1>6 DEF b
(***************************************************************************)
(* What is written                                                         *)
(***************************************************************************)
LEMMA DecisionType ==
  ASSUME TypeOK, ReadsAreValid, NEW p \in Publishers, candidate[p] \in Entry,
         MayWrite(p), Selectable(p)
  PROVE  LET b == IF p \in Promoters
                  THEN [existing[p] EXCEPT !.current = candidate[p].version]
                  ELSE StageSnapshot(existing[p], candidate[p])
         IN  /\ b \in Archive /\ Valid(b)
             /\ existing[p] # None =>
                  /\ Extends(b, existing[p])
                  /\ IF p \in Promoters THEN b.entries = existing[p].entries
                     ELSE b.current = existing[p].current
             /\ existing[p] = None => p \in Initializers \ Promoters
<1>1. CASE existing[p] = None
  BY <1>1, StagedFirst DEF Selectable, MayWrite
<1>2. CASE existing[p] # None /\ p \in Promoters
  <2>1. existing[p] \in Archive /\ Valid(existing[p]) /\ Staged(existing[p], candidate[p])
    BY <1>2 DEF TypeOK, ReadsAreValid, Selectable
  <2> QED
    BY <1>2, <2>1, PromotedType
<1>3. CASE existing[p] # None /\ p \notin Promoters
  <2>1. existing[p] \in Archive /\ Valid(existing[p])
    BY <1>3 DEF TypeOK, ReadsAreValid
  <2>2. CASE candidate[p].version \in Retained(existing[p])
    BY <1>3, <2>1, <2>2, StagedAgain
  <2>3. CASE candidate[p].version \notin Retained(existing[p])
    <3>1. ~Full(existing[p])
      BY <1>3, <2>3 DEF Selectable
    <3> QED
      BY <1>3, <2>1, <2>3, <3>1, StagedNew
  <2> QED
    BY <2>2, <2>3
<1> QED
  BY <1>1, <1>2, <1>3

(* An accepted write appends to the archive, and only a promoter's moves   *)
(* current; or the initializer creates it.                                 *)
LEMMA WriteFollows ==
  ASSUME IInv, NEW p \in Publishers, pc[p] = "write", Acceptable(p)
  PROVE  /\ desired[p] \in Archive /\ Valid(desired[p])
         /\ archive # None =>
              /\ fresh[p] /\ existing[p] = archive
              /\ Extends(desired[p], archive)
              /\ IF p \in Promoters THEN desired[p].entries = archive.entries
                 ELSE desired[p].current = archive.current
         /\ archive = None =>
              p \in Initializers /\ desired[p] = StageSnapshot(None, candidate[p])
<1>1. candidate[p] \in Entry
  BY DEF IInv, CandidateRead, Steps
<1>2. /\ MayWrite(p) /\ Selectable(p)
      /\ desired[p] = IF p \in Promoters
                      THEN [existing[p] EXCEPT !.current = candidate[p].version]
                      ELSE StageSnapshot(existing[p], candidate[p])
  BY DEF IInv, DesiredFollows
<1>3. /\ desired[p] \in Archive /\ Valid(desired[p])
      /\ existing[p] # None =>
           /\ Extends(desired[p], existing[p])
           /\ IF p \in Promoters THEN desired[p].entries = existing[p].entries
              ELSE desired[p].current = existing[p].current
      /\ existing[p] = None => p \in Initializers \ Promoters
  BY <1>1, <1>2, DecisionType DEF IInv
<1>4. IF archive = None THEN existing[p] = None ELSE fresh[p] /\ existing[p] = archive
  BY DEF IInv, FreshIsCurrent, Acceptable
<1> QED
  BY <1>2, <1>3, <1>4

(***************************************************************************)
(* Types                                                                   *)
(***************************************************************************)
LEMMA InitTypes == Init => TypeOK
<1> SUFFICES ASSUME Init PROVE TypeOK
  OBVIOUS
<1>1. scenario.versions \subseteq Versions /\ scenario.states \subseteq States
      /\ scenario.attempts \in 0..MaxAttempts
  BY PublisherAssumption DEF Init
<1>2. inventory \in Entry
  BY <1>1 DEF Init, Reviewable, Entry
<1> QED
  BY <1>1, <1>2 DEF Init, TypeOK, Pod, Steps

LEMMA SurroundingTypes == IInv /\ Surroundings => TypeOK'
<1> SUFFICES ASSUME IInv, Surroundings PROVE TypeOK'
  OBVIOUS
<1> USE DEF IInv, TypeOK, inputVars, studioVars, readVars, barrierVars
<1>1. CASE Review
  <2>1. inventory' \in Entry
    BY <1>1, PublisherAssumption DEF Review, Reviewable, Entry
  <2> QED
    BY <1>1, <2>1 DEF Review
<1>2. CASE Expire
  <2>1. expired' \subseteq Versions
    BY <1>2, PublisherAssumption DEF Expire
  <2> QED
    BY <1>2, <2>1 DEF Expire
<1>3. CASE TouchArchive
  BY <1>3 DEF TouchArchive, Store
<1>4. CASE LoseArchive
  BY <1>4 DEF LoseArchive, Store
<1>5. CASE RaiseFloor
  <2>1. floor' \in Versions
    BY <1>5, EntriesType DEF RaiseFloor
  <2> QED
    BY <1>5, <2>1 DEF RaiseFloor
<1>6. CASE Studio
  <2> PICK d \in Pods : StartPod(d) \/ SyncMount(d) \/ StopPod(d)
    BY <1>6, PublisherAssumption DEF Studio
  <2> USE DEF StudioStep
  <2>1. CASE StartPod(d)
    <3>1. PICK n \in 1..Len(archive.entries) :
            pod' = [pod EXCEPT ![d] =
              [phase |-> "running", floor |-> floor,
               mount |-> {archive.entries[i].version : i \in 1..n}]]
      BY <2>1 DEF StartPod
    <3>2. {archive.entries[i].version : i \in 1..n} \subseteq Versions
      BY <2>1, EntriesType DEF StartPod
    <3>3. pod' \in [Pods -> Pod]
      BY <3>1, <3>2 DEF Pod
    <3> QED
      BY <2>1, <3>3 DEF StartPod
  <2>2. CASE SyncMount(d)
    <3>1. Retained(archive) \subseteq Versions
      BY <2>2, EntriesType DEF SyncMount, Retained
    <3>2. pod' \in [Pods -> Pod]
      BY <2>2, <3>1 DEF SyncMount, Pod
    <3> QED
      BY <2>2, <3>2 DEF SyncMount
  <2>3. CASE StopPod(d)
    <3>1. pod' \in [Pods -> Pod]
      <4>1. pod[d] \in Pod /\ pod \in [Pods -> Pod]
        BY DEF TypeOK
      <4>2. PICK q \in {"terminating", "gone"} : pod' = [pod EXCEPT ![d].phase = q]
        BY <2>3 DEF StopPod
      <4>3. [pod[d] EXCEPT !.phase = q] \in Pod
        BY ONLY <4>1, q \in {"terminating", "gone"} DEF Pod
      <4> QED BY <4>1, <4>2, <4>3
    <3> QED
      BY <2>3, <3>1 DEF StopPod
  <2> QED
    BY <2>1, <2>2, <2>3
<1> QED
  BY <1>1, <1>2, <1>3, <1>4, <1>5, <1>6 DEF Surroundings

LEMMA PublishTypes == ASSUME IInv, NEW p \in Publishers, Publish(p) PROVE TypeOK'
<1> USE DEF IInv, TypeOK, inputVars, studioVars, readVars, barrierVars, Goto, Steps, Ended
<1>1. CASE ReadInventory(p)
  BY <1>1 DEF ReadInventory
<1>2. CASE ReadArchive(p)
  BY <1>2 DEF ReadArchive
<1>3. CASE DecideStage(p)
  <2>1. candidate[p] \in Entry
    BY <1>3 DEF DecideStage, CandidateRead
  <2>2. StageSnapshot(existing[p], candidate[p]) \in Archive
    BY <1>3, <2>1, DecisionType DEF DecideStage
  <2> QED
    BY <1>3, <2>2 DEF DecideStage
<1>4. CASE DecidePromote(p)
  <2>1. candidate[p] \in Entry
    BY <1>4 DEF DecidePromote, CandidateRead
  <2>2. [existing[p] EXCEPT !.current = candidate[p].version] \in Archive
    BY <1>4, <2>1, DecisionType DEF DecidePromote
  <2> QED
    BY <1>4, <2>2 DEF DecidePromote
<1>5. CASE Barrier(p)
  <2>1. ReadyPods \subseteq Pods
    BY DEF ReadyPods
  <2> QED
    BY <1>5, <2>1 DEF Barrier, BarrierStep, CheckDeployment, CheckPods, CheckEndpoints, Download
<1>6. CASE Recheck(p)
  BY <1>6 DEF Recheck
<1>7. CASE WriteAccepted(p) \/ WriteUnanswered(p)
  <2>1. desired[p] \in Archive /\ Valid(desired[p])
    BY <1>7, WriteFollows DEF WriteAccepted, WriteUnanswered
  <2>2. CASE WriteAccepted(p)
    BY <2>1, <2>2 DEF WriteAccepted, Store, WriteStep
  <2>3. CASE WriteUnanswered(p)
    BY <2>1, <2>3 DEF WriteUnanswered, Store, EndAttempt
  <2> QED
    BY <1>7, <2>2, <2>3
<1>8. CASE WriteConflict(p) \/ ObserveOther(p)
  BY <1>8 DEF WriteConflict, ObserveOther, LeaveArchive, WriteStep
<1>9. CASE ObserveDesired(p) \/ Fail(p)
  BY <1>9 DEF ObserveDesired, Fail, LeaveArchive, EndAttempt
<1>10. CASE Retry(p)
  <2>1. attempts'[p] \in 0..MaxAttempts
    BY <1>10, PublisherAssumption DEF Retry, AttemptsLeft
  <2> QED
    BY <1>10, <2>1 DEF Retry, LeaveArchive, EndAttempt
<1> QED
  BY <1>1, <1>2, <1>3, <1>4, <1>5, <1>6, <1>7, <1>8, <1>9, <1>10 DEF Publish
(***************************************************************************)
(* Who changes what                                                        *)
(***************************************************************************)
(* A Job's step leaves what the other Jobs hold; when the archive changes, *)
(* no copy of it is fresh any more.                                        *)
LEMMA PublishFrame ==
  ASSUME IInv, NEW p \in Publishers, Publish(p)
  PROVE  /\ UNCHANGED <<inputVars, studioVars>>
         /\ \A q \in Publishers \ {p} :
              /\ UNCHANGED <<pc[q], attempts[q], candidate[q], existing[q], desired[q],
                            members[q], unverified[q]>>
              /\ fresh'[q] => fresh[q]
         /\ archive' = archive \/ \A q \in Publishers : ~fresh'[q]
<1> USE DEF IInv, TypeOK, inputVars, studioVars, readVars, barrierVars, Goto
<1>1. CASE ReadInventory(p) \/ ReadArchive(p)
  BY <1>1 DEF ReadInventory, ReadArchive
<1>2. CASE DecideStage(p) \/ DecidePromote(p) \/ Recheck(p)
  BY <1>2 DEF DecideStage, DecidePromote, Recheck
<1>3. CASE Barrier(p)
  BY <1>3 DEF Barrier, BarrierStep, CheckDeployment, CheckPods, CheckEndpoints, Download
<1>4. CASE WriteAccepted(p) \/ WriteConflict(p) \/ ObserveOther(p)
  BY <1>4 DEF WriteAccepted, WriteConflict, ObserveOther, Store, LeaveArchive, WriteStep
<1>5. CASE WriteUnanswered(p)
  BY <1>5 DEF WriteUnanswered, Store, EndAttempt
<1>6. CASE ObserveDesired(p) \/ Retry(p) \/ Fail(p)
  BY <1>6 DEF ObserveDesired, Retry, Fail, LeaveArchive, EndAttempt
<1> QED
  BY <1>1, <1>2, <1>3, <1>4, <1>5, <1>6 DEF Publish

(* The surroundings leave what the Jobs hold.                              *)
LEMMA SurroundingFrame ==
  ASSUME IInv, Surroundings
  PROVE  /\ UNCHANGED <<scenario, pc, attempts, candidate, existing, desired, members, unverified>>
         /\ \A p \in Publishers : fresh'[p] => fresh[p] /\ archive' = archive
BY DEF Surroundings, Review, Expire, TouchArchive, LoseArchive, RaiseFloor, Studio, StartPod,
       SyncMount, StopPod, StudioStep, Store, IInv, TypeOK, inputVars, studioVars, readVars,
       barrierVars

(***************************************************************************)
(* What Jobs hold                                                          *)
(***************************************************************************)
Holdings == AttemptsLeft /\ CandidateRead /\ ReadsAreValid /\ FreshIsCurrent

LEMMA HoldingsStep ==
  ASSUME IInv, NEW p \in Publishers, Publish(p), TypeOK'
  PROVE  Holdings'
<1> DEFINE Holds(q) ==
      /\ pc[q] \notin Ended => attempts[q] > 0
      /\ pc[q] \in Steps \ {"inventory"} => candidate[q] \in Entry
      /\ existing[q] # None => Valid(existing[q])
      /\ fresh[q] => existing[q] = archive /\ archive # None
<1>1. \A q \in Publishers : Holds(q)
  BY DEF IInv, AttemptsLeft, CandidateRead, ReadsAreValid, FreshIsCurrent
<1>2. \A q \in Publishers \ {p} : Holds(q)'
  BY <1>1, PublishFrame
<1>3. Holds(p)'
  <2> USE DEF IInv, TypeOK, inputVars, studioVars, readVars, barrierVars, Goto, Steps, Ended
  <2>1. CASE ReadInventory(p)
    BY <1>1, <2>1 DEF ReadInventory
  <2>2. CASE ReadArchive(p)
    BY <1>1, <2>2 DEF ReadArchive
  <2>3. CASE DecideStage(p) \/ DecidePromote(p) \/ Recheck(p)
    BY <1>1, <2>3 DEF DecideStage, DecidePromote, Recheck
  <2>4. CASE Barrier(p)
    BY <1>1, <2>4 DEF Barrier, BarrierStep, CheckDeployment, CheckPods, CheckEndpoints, Download
  <2>5. CASE WriteAccepted(p) \/ WriteConflict(p) \/ ObserveOther(p)
    BY <1>1, <2>5 DEF WriteAccepted, WriteConflict, ObserveOther, Store, LeaveArchive, WriteStep
  <2>6. CASE WriteUnanswered(p)
    BY <1>1, <2>6 DEF WriteUnanswered, Store, EndAttempt
  <2>7. CASE ObserveDesired(p) \/ Fail(p)
    BY <1>1, <2>7 DEF ObserveDesired, Fail, LeaveArchive, EndAttempt
  <2>8. CASE Retry(p)
    BY <1>1, <2>8 DEF Retry, LeaveArchive, EndAttempt
  <2> QED
    BY <2>1, <2>2, <2>3, <2>4, <2>5, <2>6, <2>7, <2>8 DEF Publish
<1>4. \A q \in Publishers : Holds(q)'
  BY <1>2, <1>3
<1> QED
  BY <1>4 DEF Holdings, AttemptsLeft, CandidateRead, ReadsAreValid, FreshIsCurrent

(* Only a decision makes something to be written.                          *)
LEMMA DesiredStep ==
  ASSUME IInv, NEW p \in Publishers, Publish(p)
  PROVE  DesiredFollows'
<1> DEFINE Follows(q) ==
      /\ pc[q] \in Barriers => q \in Promoters
      /\ pc[q] \in Barriers \cup {"recheck", "write"} =>
           /\ MayWrite(q) /\ Selectable(q)
           /\ desired[q] = IF q \in Promoters
                           THEN [existing[q] EXCEPT !.current = candidate[q].version]
                           ELSE StageSnapshot(existing[q], candidate[q])
<1>1. \A q \in Publishers : Follows(q)
  BY DEF IInv, DesiredFollows
<1>2. \A q \in Publishers \ {p} : Follows(q)'
  BY <1>1, PublishFrame DEF MayWrite, Selectable
<1>3. Follows(p)'
  <2> USE DEF IInv, TypeOK, inputVars, studioVars, readVars, barrierVars, Goto, Steps, Ended,
              Barriers, MayWrite, Selectable
  <2>1. CASE ReadInventory(p) \/ ReadArchive(p)
    BY <2>1 DEF ReadInventory, ReadArchive
  <2>2. CASE DecideStage(p) \/ DecidePromote(p)
    BY <2>2 DEF DecideStage, DecidePromote
  <2>3. CASE Barrier(p) \/ Recheck(p)
    BY <1>1, <2>3
       DEF Barrier, BarrierStep, CheckDeployment, CheckPods, CheckEndpoints, Download, Recheck
  <2>4. CASE WriteAccepted(p) \/ WriteConflict(p) \/ ObserveOther(p)
    BY <2>4 DEF WriteAccepted, WriteConflict, ObserveOther
  <2>5. CASE WriteUnanswered(p) \/ ObserveDesired(p) \/ Retry(p) \/ Fail(p)
    BY <2>5 DEF WriteUnanswered, ObserveDesired, Retry, Fail
  <2> QED
    BY <2>1, <2>2, <2>3, <2>4, <2>5 DEF Publish
<1> QED
  BY <1>2, <1>3 DEF DesiredFollows
(***************************************************************************)
(* The replica barrier                                                     *)
(***************************************************************************)
(* Pods are started one at a time and never unborn again.                  *)
LEMMA PodsStep ==
  ASSUME IInv, Surroundings
  PROVE  /\ Born \subseteq Born' /\ IsFiniteSet(Born')
         /\ \A d \in Born : pod'[d].floor = pod[d].floor
<1> USE DEF IInv, TypeOK, Born
<1>1. CASE Studio
  <2> PICK d \in Pods : StartPod(d) \/ SyncMount(d) \/ StopPod(d)
    BY <1>1, PublisherAssumption DEF Studio
  <2>1. CASE StartPod(d)
    <3>1. pod'[d].phase = "running" /\ \A e \in Pods \ {d} : pod'[e] = pod[e]
      BY <2>1 DEF StartPod
    <3>2. Born' = Born \cup {d} /\ d \notin Born
      BY <2>1, <3>1 DEF StartPod
    <3>3. \A e \in Born : pod'[e].floor = pod[e].floor
      BY <3>1, <3>2
    <3> HIDE DEF Born
    <3>4. IsFiniteSet(Born \cup {d})
      BY FS_AddElement DEF MembersWereBorn
    <3> QED
      BY <3>2, <3>3, <3>4
  <2>2. CASE SyncMount(d) \/ StopPod(d)
    <3>1. /\ pod'[d].phase # "unborn" /\ pod[d].phase # "unborn"
          /\ pod'[d].floor = pod[d].floor
          /\ \A e \in Pods \ {d} : pod'[e] = pod[e]
      BY <2>2 DEF SyncMount, StopPod, Pod
    <3>2. Born' = Born
      BY <3>1
    <3> QED
      BY <3>1, <3>2 DEF MembersWereBorn
  <2> QED
    BY <2>1, <2>2
<1>2. CASE Review \/ Expire \/ TouchArchive \/ LoseArchive \/ RaiseFloor
  <2>1. UNCHANGED pod
    BY <1>2 DEF Review, Expire, TouchArchive, LoseArchive, RaiseFloor, studioVars
  <2> QED
    BY <2>1 DEF MembersWereBorn
<1> QED
  BY <1>1, <1>2 DEF Surroundings

LEMMA MembersStep ==
  ASSUME IInv, NEW p \in Publishers, Publish(p)
  PROVE  MembersWereBorn'
<1>1. UNCHANGED pod
  BY PublishFrame DEF studioVars
<1>2. Born' = Born
  BY <1>1 DEF Born
<1> DEFINE Listed(q) ==
      /\ unverified[q] \subseteq members[q] /\ members[q] \subseteq Born
      /\ pc[q] \in {"inventory", "archive", "decide"} => members[q] = {}
      /\ pc[q] \in {"deployment", "pods"} => unverified[q] = {}
<1>3. \A q \in Publishers : Listed(q)
  BY DEF IInv, MembersWereBorn
<1>4. Listed(p)'
  <2> USE <1>2 DEF IInv, TypeOK, inputVars, studioVars, readVars, barrierVars, Goto, Steps, Ended
  <2>1. CASE ReadInventory(p) \/ ReadArchive(p) \/ DecideStage(p) \/ Recheck(p)
    BY <1>3, <2>1 DEF ReadInventory, ReadArchive, DecideStage, Recheck
  <2>2. CASE DecidePromote(p)
    BY <1>3, <2>2 DEF DecidePromote
  <2>3. CASE Barrier(p)
    <3>1. ReadyPods \subseteq Born
      BY DEF ReadyPods, Ready, Born
    <3> QED
      BY <1>3, <2>3, <3>1
         DEF Barrier, BarrierStep, CheckDeployment, CheckPods, CheckEndpoints, Download
  <2>4. CASE WriteAccepted(p) \/ WriteConflict(p) \/ ObserveOther(p)
    BY <1>3, <2>4 DEF WriteAccepted, WriteConflict, ObserveOther, WriteStep
  <2>5. CASE WriteUnanswered(p) \/ ObserveDesired(p) \/ Retry(p) \/ Fail(p)
    BY <2>5 DEF WriteUnanswered, ObserveDesired, Retry, Fail, EndAttempt
  <2> QED
    BY <2>1, <2>2, <2>3, <2>4, <2>5 DEF Publish
<1> QED
  BY <1>2, <1>3, <1>4, PublishFrame DEF IInv, MembersWereBorn
(* Nobody raises the floor above the newest version.                       *)
LEMMA FloorStep ==
  ASSUME IInv, Surroundings, TypeOK'
  PROVE  FloorHeld'
<1> SUFFICES ASSUME NEW p \in Publishers, fresh'[p], PastDeployment(p)'
             PROVE  floor' = Required(p)'
  BY DEF FloorHeld
<1>1. fresh[p] /\ archive' = archive /\ PastDeployment(p) /\ Required(p)' = Required(p)
  BY SurroundingFrame DEF PastDeployment, Required, Newest
<1>2. existing[p] = archive /\ archive \in Archive /\ Valid(archive)
  BY <1>1 DEF IInv, FreshIsCurrent, TypeOK
<1>3. floor = archive.entries[Len(archive.entries)].version
  BY <1>1, <1>2 DEF IInv, FloorHeld, Required, Newest
<1>4. ~RaiseFloor
  BY <1>2, <1>3, EntriesType DEF RaiseFloor
<1>5. floor' = floor
  BY <1>4 DEF Surroundings, Review, Expire, TouchArchive, LoseArchive, Studio, StartPod,
              SyncMount, StopPod, StudioStep, studioVars
<1> QED
  BY <1>1, <1>5 DEF IInv, FloorHeld

(* A pod that was started from this archive and mounts the newest version  *)
(* mounts all of them.                                                     *)
LEMMA PrefixWithNewest ==
  ASSUME NEW a \in Archive, Valid(a), NEW n \in 1..Len(a.entries),
         Newest(a) \in {a.entries[i].version : i \in 1..n}
  PROVE  Retained(a) \subseteq {a.entries[i].version : i \in 1..n}
<1>1. PICK i \in 1..n : a.entries[i].version = a.entries[Len(a.entries)].version
  BY DEF Newest
<1>2. i = Len(a.entries) /\ n = Len(a.entries)
  BY <1>1, EntriesType DEF Valid
<1> QED
  BY <1>2, EntriesType DEF Retained

(* What a pod does: it is started without serving yet, or with everything; *)
(* or what it mounts is the archive as it is; or it ends.                  *)
LEMMA PodStep ==
  ASSUME IInv, Surroundings, TypeOK', archive # None, archive' = archive, NEW d \in Pods
  PROVE  /\ d \in Born /\ Retained(archive) \subseteq pod[d].mount
              => Retained(archive) \subseteq pod'[d].mount
         /\ scenario.gated /\ floor = Newest(archive) /\ Ready(d)' =>
              \/ Ready(d) /\ pod'[d].mount = pod[d].mount
              \/ Retained(archive) \subseteq pod'[d].mount
<1>1. CASE Studio
  <2> PICK e \in Pods : StartPod(e) \/ SyncMount(e) \/ StopPod(e)
    BY <1>1, PublisherAssumption DEF Studio, IInv, TypeOK
  <2>1. CASE e # d
    BY <2>1 DEF StartPod, SyncMount, StopPod, StudioStep, inputVars, Ready, IInv, TypeOK
  <2>2. CASE e = d /\ StartPod(e)
    <3>1. PICK n \in 1..Len(archive.entries) :
            pod'[d] = [phase |-> "running", floor |-> floor,
                       mount |-> {archive.entries[i].version : i \in 1..n}]
      BY <2>2 DEF StartPod, IInv, TypeOK
    <3>2. d \notin Born /\ scenario' = scenario
      BY <2>2 DEF StartPod, Born, StudioStep, inputVars
    <3>3. ASSUME scenario.gated, floor = Newest(archive), Ready(d)'
          PROVE  Retained(archive) \subseteq pod'[d].mount
      <4>1. archive \in Archive /\ Valid(archive) /\ floor \in Versions
        BY <3>3, EntriesType DEF IInv, TypeOK, Newest
      <4>2. floor # None
        BY <4>1, PublisherAssumption
      <4>3. Newest(archive) \in {archive.entries[i].version : i \in 1..n}
        BY <3>1, <3>2, <3>3, <4>2 DEF Ready
      <4> QED
        BY <3>1, <4>1, <4>3, PrefixWithNewest
    <3> QED
      BY <3>2, <3>3
  <2>3. CASE e = d /\ SyncMount(e)
    BY <2>3 DEF SyncMount, IInv, TypeOK, Pod
  <2>4. CASE e = d /\ StopPod(e)
    BY <2>4 DEF StopPod, StudioStep, inputVars, Ready, IInv, TypeOK, Pod
  <2> QED
    BY <2>1, <2>2, <2>3, <2>4
<1>2. CASE Review \/ Expire \/ TouchArchive \/ LoseArchive \/ RaiseFloor
  BY <1>2 DEF Review, Expire, TouchArchive, LoseArchive, RaiseFloor, studioVars, inputVars, Ready
<1> QED
  BY <1>1, <1>2 DEF Surroundings
LEMMA ServiceStands ==
  ASSUME IInv, Surroundings, TypeOK'
  PROVE  DownloadsStand' /\ ServedWhenReady'
<1>1. DownloadsStand'
  <2> SUFFICES ASSUME NEW p \in Publishers, fresh'[p], pc'[p] \in Barriers,
                      NEW d \in members'[p] \ unverified'[p]
               PROVE  Serves(p, d)'
    BY DEF DownloadsStand
  <2>1. /\ fresh[p] /\ archive' = archive /\ pc[p] \in Barriers
        /\ d \in members[p] \ unverified[p] /\ existing'[p] = existing[p]
    BY SurroundingFrame
  <2>2. existing[p] = archive /\ archive # None
    BY <2>1 DEF IInv, FreshIsCurrent
  <2>3. d \in Born /\ d \in Pods
    BY <2>1 DEF IInv, MembersWereBorn, Born
  <2>4. Retained(archive) \subseteq pod[d].mount
    BY <2>1, <2>2 DEF IInv, DownloadsStand, Serves
  <2> QED
    BY <2>1, <2>2, <2>3, <2>4, PodStep DEF Serves
<1>2. ServedWhenReady'
  <2> SUFFICES ASSUME NEW p \in Promoters, scenario'.gated, fresh'[p], pc'[p] \in {"recheck", "write"},
                      NEW d \in ReadyPods'
               PROVE  Serves(p, d)'
    BY DEF ServedWhenReady
  <2>0. p \in Publishers
    BY PublisherAssumption
  <2>1. /\ fresh[p] /\ archive' = archive /\ pc[p] \in {"recheck", "write"}
        /\ scenario.gated /\ existing'[p] = existing[p]
    BY <2>0, SurroundingFrame
  <2>2. existing[p] = archive /\ archive # None
    BY <2>0, <2>1 DEF IInv, FreshIsCurrent
  <2>3. d \in Pods /\ Ready(d)'
    BY DEF ReadyPods
  <2>4. floor = Newest(archive)
    BY <2>0, <2>1, <2>2 DEF IInv, FloorHeld, PastDeployment, Required
  <2>5. CASE Ready(d) /\ pod'[d].mount = pod[d].mount
    <3>1. Serves(p, d)
      BY <2>1, <2>3, <2>5 DEF IInv, ServedWhenReady, ReadyPods
    <3> QED
      BY <2>1, <2>5, <3>1 DEF Serves
  <2>6. CASE Retained(archive) \subseteq pod'[d].mount
    BY <2>1, <2>2, <2>6 DEF Serves
  <2> QED
    BY <2>1, <2>2, <2>3, <2>4, <2>5, <2>6, PodStep
<1> QED
  BY <1>1, <1>2

(* What a Job's own step does to the barrier: it finds the floor, lists    *)
(* the pods that are ready, and passes once it has downloaded from these.  *)
LEMMA BarrierProgress ==
  ASSUME IInv, NEW p \in Publishers, Publish(p), fresh'[p]
  PROVE  /\ PastDeployment(p)' => floor = Required(p)'
         /\ pc'[p] \in Barriers =>
              \A d \in members'[p] \ unverified'[p] : Serves(p, d)'
         /\ p \in Promoters /\ scenario.gated /\ pc'[p] \in {"recheck", "write"} =>
              \A d \in ReadyPods : Serves(p, d)'
<1> USE DEF PastDeployment, Barriers, Serves, Required, Goto
<1>1. CASE ReadInventory(p) \/ ReadArchive(p)
  <2>1. pc'[p] \in {"archive", "decide"}
    BY <1>1 DEF ReadInventory, ReadArchive, IInv, TypeOK
  <2> QED
    BY <2>1
<1>2. CASE DecideStage(p)
  <2>1. pc'[p] = "recheck" /\ p \notin Promoters
    BY <1>2 DEF DecideStage, IInv, TypeOK
  <2> QED
    BY <2>1
<1>3. CASE DecidePromote(p)
  <2>1. pc'[p] = "deployment" /\ members'[p] = {}
    BY <1>3 DEF DecidePromote, IInv, TypeOK
  <2> QED
    BY <2>1
<1>4. CASE Barrier(p)
  <2> USE DEF Barrier, BarrierStep, IInv, TypeOK, inputVars, studioVars, readVars, barrierVars
  <2>1. fresh[p] /\ UNCHANGED <<existing, pod, floor, archive>>
    BY <1>4 DEF CheckDeployment, CheckPods, CheckEndpoints, Download
  <2>2. CASE CheckDeployment(p)
    BY <2>1, <2>2 DEF CheckDeployment, DownloadsStand
  <2>3. CASE CheckPods(p)
    <3>1. CASE members[p] = {}
      <4>1. pc'[p] = "endpoints" /\ members'[p] = ReadyPods /\ unverified'[p] = ReadyPods
        BY <2>3, <3>1 DEF CheckPods
      <4> QED
        BY <2>1, <2>3, <4>1 DEF CheckPods, FloorHeld
    <3>2. CASE members[p] # {}
      <4>1. pc'[p] = "endpoints" /\ members'[p] = members[p] /\ unverified'[p] = {}
        BY <2>3, <3>2 DEF CheckPods
      <4>2. unverified[p] = {}
        BY <2>3, <3>2 DEF CheckPods, MembersWereBorn
      <4> QED
        BY <2>1, <2>3, <4>1, <4>2 DEF CheckPods, FloorHeld, DownloadsStand
    <3> QED
      BY <3>1, <3>2
  <2>4. CASE CheckEndpoints(p)
    BY <2>1, <2>4 DEF CheckEndpoints, FloorHeld, DownloadsStand
  <2>5. CASE Download(p)
    BY <2>1, <2>5 DEF Download, FloorHeld, DownloadsStand
  <2> QED
    BY <1>4, <2>2, <2>3, <2>4, <2>5
<1>5. CASE Recheck(p)
  BY <1>5 DEF Recheck, IInv, TypeOK, FloorHeld, ServedWhenReady, inputVars, studioVars, readVars,
              barrierVars, ReadyPods, Ready
<1>6. CASE WriteAccepted(p) \/ WriteConflict(p) \/ ObserveOther(p)
  <2>1. pc'[p] \in {"observe", "conflict"}
    BY <1>6 DEF WriteAccepted, WriteConflict, ObserveOther, IInv, TypeOK
  <2> QED
    BY <2>1
<1>7. CASE WriteUnanswered(p) \/ ObserveDesired(p) \/ Retry(p) \/ Fail(p)
  <2>1. pc'[p] \in {"inventory", "done", "failed"}
    BY <1>7 DEF WriteUnanswered, ObserveDesired, Retry, Fail, IInv, TypeOK
  <2> QED
    BY <2>1
<1> QED
  BY <1>1, <1>2, <1>3, <1>4, <1>5, <1>6, <1>7 DEF Publish
LEMMA BarrierStepInv ==
  ASSUME IInv, NEW p \in Publishers, Publish(p)
  PROVE  FloorHeld' /\ DownloadsStand' /\ ServedWhenReady'
<1>1. ASSUME NEW q \in Publishers \ {p}, fresh'[q]
      PROVE  /\ PastDeployment(q)' => floor' = Required(q)'
             /\ pc'[q] \in Barriers =>
                  \A d \in members'[q] \ unverified'[q] : Serves(q, d)'
             /\ q \in Promoters /\ scenario'.gated /\ pc'[q] \in {"recheck", "write"} =>
                  \A d \in ReadyPods' : Serves(q, d)'
  <2>1. /\ fresh[q] /\ UNCHANGED <<scenario, floor, pod>>
        /\ UNCHANGED <<pc[q], existing[q], members[q], unverified[q]>>
    BY <1>1, PublishFrame DEF inputVars, studioVars
  <2>2. UNCHANGED ReadyPods
    BY <2>1 DEF ReadyPods, Ready
  <2> QED
    BY <2>1, <2>2 DEF IInv, FloorHeld, DownloadsStand, ServedWhenReady, PastDeployment, Required,
                      Serves
<1>2. UNCHANGED <<scenario, floor, pod>>
  BY PublishFrame DEF inputVars, studioVars
<1>3. UNCHANGED ReadyPods
  BY <1>2 DEF ReadyPods, Ready
<1>4. FloorHeld'
  BY <1>1, <1>2, BarrierProgress DEF FloorHeld
<1>5. DownloadsStand'
  BY <1>1, BarrierProgress DEF DownloadsStand
<1>6. ServedWhenReady'
  BY <1>1, <1>2, <1>3, BarrierProgress, PublisherAssumption DEF ServedWhenReady
<1> QED
  BY <1>4, <1>5, <1>6

(***************************************************************************)
(* The invariant                                                           *)
(***************************************************************************)
LEMMA InitInv == Init => IInv
<1> SUFFICES ASSUME Init PROVE IInv
  OBVIOUS
<1>1. TypeOK
  BY InitTypes
<1>2. AttemptsLeft /\ CandidateRead /\ ReadsAreValid /\ FreshIsCurrent
  BY PublisherAssumption DEF Init, AttemptsLeft, CandidateRead, ReadsAreValid, FreshIsCurrent, Steps
<1>3. DesiredFollows /\ FloorHeld /\ DownloadsStand /\ ServedWhenReady
  BY PublisherAssumption
     DEF Init, DesiredFollows, FloorHeld, DownloadsStand, ServedWhenReady, Barriers
<1>4. MembersWereBorn
  <2>1. Born = {}
    BY DEF Init, Born
  <2> QED
    BY <2>1, FS_EmptySet DEF Init, MembersWereBorn
<1> QED
  BY <1>1, <1>2, <1>3, <1>4 DEF IInv

LEMMA SurroundingsInv == IInv /\ Surroundings => IInv'
<1> SUFFICES ASSUME IInv, Surroundings PROVE IInv'
  OBVIOUS
<1>1. TypeOK'
  BY SurroundingTypes
<1>2. AttemptsLeft' /\ CandidateRead' /\ ReadsAreValid' /\ FreshIsCurrent'
  BY SurroundingFrame DEF IInv, AttemptsLeft, CandidateRead, ReadsAreValid, FreshIsCurrent
<1>3. DesiredFollows'
  BY SurroundingFrame DEF IInv, DesiredFollows, MayWrite, Selectable
<1>4. MembersWereBorn'
  BY SurroundingFrame, PodsStep DEF IInv, MembersWereBorn
<1>5. FloorHeld' /\ DownloadsStand' /\ ServedWhenReady'
  BY <1>1, FloorStep, ServiceStands
<1> QED
  BY <1>1, <1>2, <1>3, <1>4, <1>5 DEF IInv

LEMMA PublishInv == ASSUME IInv, NEW p \in Publishers, Publish(p) PROVE IInv'
<1>1. TypeOK'
  BY PublishTypes
<1>2. Holdings'
  BY <1>1, HoldingsStep
<1> QED
  BY <1>1, <1>2, DesiredStep, MembersStep, BarrierStepInv DEF IInv, Holdings

LEMMA StutterInv == IInv /\ UNCHANGED vars => IInv'
BY DEF IInv, TypeOK, AttemptsLeft, CandidateRead, ReadsAreValid, FreshIsCurrent, DesiredFollows,
       MembersWereBorn, Born, FloorHeld, DownloadsStand, ServedWhenReady, MayWrite, Selectable,
       PastDeployment, Required, Serves, ReadyPods, Ready,
       vars, inputVars, studioVars, readVars, barrierVars

LEMMA StepInv == IInv /\ [Next]_vars => IInv'
<1> SUFFICES ASSUME IInv, [Next]_vars PROVE IInv'
  OBVIOUS
<1>1. scenario.publishers \subseteq Publishers
  BY PublisherAssumption DEF IInv, TypeOK
<1> QED
  BY <1>1, SurroundingsInv, PublishInv, StutterInv DEF Next

LEMMA Invariance == Spec => []IInv
BY InitInv, StepInv, PTL DEF Spec

(***************************************************************************)
(* What follows                                                            *)
(***************************************************************************)
(* Types, and with them that the published archive is always one that its  *)
(* readers accept: at most MaxVersions entries, no version twice, and      *)
(* current among them.                                                     *)
THEOREM ArchiveIsValid == Spec => []TypeOK
<1>1. IInv => TypeOK
  BY DEF IInv
<1> QED
  BY <1>1, Invariance, PTL

(* A step changes the archive to what a Job has decided to write, or loses *)
(* it.                                                                     *)
LEMMA ArchiveChanges ==
  ASSUME IInv, [Next]_vars, archive' # archive, archive' # None
  PROVE  \E p \in Publishers : pc[p] = "write" /\ Acceptable(p) /\ archive' = desired[p]
<1>1. ~Surroundings
  BY DEF Surroundings, Review, Expire, TouchArchive, LoseArchive, RaiseFloor, Studio, StartPod,
         SyncMount, StopPod, StudioStep, Store
<1>2. PICK p \in Publishers : Publish(p)
  BY <1>1, PublisherAssumption DEF Next, vars, IInv, TypeOK
<1>3. WriteAccepted(p) \/ WriteUnanswered(p)
  BY <1>2 DEF Publish, ReadInventory, ReadArchive, DecideStage, DecidePromote, Barrier,
              BarrierStep, CheckDeployment, CheckPods, CheckEndpoints, Download, Recheck,
              WriteConflict, ObserveDesired, ObserveOther, Retry, Fail, LeaveArchive
<1> QED
  BY <1>3 DEF WriteAccepted, WriteUnanswered, Store, Goto

(* No writer, however stale its read, removes or reorders a retained       *)
(* version, and a lost archive is recreated only by the explicit           *)
(* initialization: because a write is accepted only if its copy is still   *)
(* the archive.                                                            *)
THEOREM HistoryIsKept == Spec => HistoryAppendOnly
<1> DEFINE Kept ==
      /\ archive # None /\ archive' # None =>
           /\ Len(archive.entries) <= Len(archive'.entries)
           /\ \A i \in DOMAIN archive.entries :
                archive'.entries[i].version = archive.entries[i].version
      /\ archive = None /\ archive' # None =>
           \E p \in Initializers : /\ pc[p] = "write"
                                   /\ archive' = StageSnapshot(None, candidate[p])
<1>1. IInv /\ [Next]_vars => [Kept]_archive
  <2> SUFFICES ASSUME IInv, [Next]_vars, archive' # archive, archive' # None PROVE Kept
    OBVIOUS
  <2>1. PICK p \in Publishers : pc[p] = "write" /\ Acceptable(p) /\ archive' = desired[p]
    BY ArchiveChanges
  <2> QED
    BY <2>1, WriteFollows DEF Extends
<1> QED
  BY <1>1, Invariance, PTL DEF Spec, HistoryAppendOnly

(* When current moves, every replica that serves has every retained        *)
(* version, also one that was started after the barrier.                   *)
THEOREM PromotionIsServed == Spec => PromotedIsServed
<1> DEFINE Served ==
      scenario.gated /\ archive # None /\ archive' # None /\ archive'.current # archive.current =>
        \A d \in ReadyPods : Retained(archive') \subseteq pod[d].mount
<1>1. IInv /\ [Next]_vars => [Served]_vars
  <2> SUFFICES ASSUME IInv, [Next]_vars, scenario.gated, archive # None, archive' # None,
                      archive'.current # archive.current, NEW d \in ReadyPods
               PROVE  Retained(archive') \subseteq pod[d].mount
    OBVIOUS
  <2>1. PICK p \in Publishers : pc[p] = "write" /\ Acceptable(p) /\ archive' = desired[p]
    BY ArchiveChanges
  <2>2. p \in Promoters /\ fresh[p] /\ existing[p] = archive /\ archive'.entries = archive.entries
    BY <2>1, WriteFollows
  <2>3. Serves(p, d)
    BY <2>1, <2>2 DEF IInv, ServedWhenReady
  <2> QED
    BY <2>2, <2>3 DEF Serves, Retained
<1> QED
  BY <1>1, Invariance, PTL DEF Spec, PromotedIsServed

(* Lexicographic order of what remains.                                    *)
LEMMA BeforeBy ==
  ASSUME NEW a \in Int, NEW b \in Int, NEW c, NEW x \in Int, NEW y \in Int, NEW z,
         \/ a < x
         \/ a = x /\ b < y
         \/ a = x /\ b = y /\ c < z
  PROVE  Before(<<a, b, c>>, <<x, y, z>>)
<1> DEFINE m == <<a, b, c>>
           n == <<x, y, z>>
<1>1. /\ DOMAIN m = 1..3 /\ m[1] = a /\ m[2] = b /\ m[3] = c
      /\ n[1] = x /\ n[2] = y /\ n[3] = z
  OBVIOUS
<1> HIDE DEF m, n
<1>2. Before(m, n)
  <2>1. CASE a < x
    <3>1. m[1] < n[1] /\ \A j \in 1..1 - 1 : m[j] = n[j]
      BY <1>1, <2>1
    <3> QED
      BY <1>1, <3>1 DEF Before
  <2>2. CASE a = x /\ b < y
    <3>1. m[2] < n[2] /\ \A j \in 1..2 - 1 : m[j] = n[j]
      BY <1>1, <2>2
    <3> QED
      BY <1>1, <3>1 DEF Before
  <2>3. CASE a = x /\ b = y /\ c < z
    <3>1. m[3] < n[3] /\ \A j \in 1..3 - 1 : m[j] = n[j]
      BY <1>1, <2>3
    <3> QED
      BY <1>1, <3>1 DEF Before
  <2> QED
    BY <2>1, <2>2, <2>3
<1> QED
  BY <1>2 DEF m, n
(* The position at each step of a Job, now and next.                       *)
LEMMA PositionNow ==
  ASSUME NEW p
  PROVE  /\ pc[p] = "inventory" => Position(p) = 13
         /\ pc[p] = "archive" => Position(p) = 12
         /\ pc[p] = "decide" => Position(p) = 11
         /\ pc[p] = "recheck" => Position(p) = 3
         /\ pc[p] = "write" => Position(p) = 2
         /\ pc[p] = "observe" => Position(p) = 1
         /\ pc[p] = "conflict" => Position(p) = 0
         /\ pc[p] = "download" => Position(p) = 7
         /\ pc[p] = "deployment" => Position(p) = IF members[p] = {} THEN 10 ELSE 6
         /\ pc[p] = "pods" => Position(p) = IF members[p] = {} THEN 9 ELSE 5
         /\ pc[p] = "endpoints" => Position(p) = IF unverified[p] # {} THEN 8 ELSE 4
         /\ pc[p] \in Ended => Position(p) = 0
BY DEF Position, Ended

LEMMA PositionNext ==
  ASSUME NEW p
  PROVE  /\ pc'[p] = "inventory" => Position(p)' = 13
         /\ pc'[p] = "archive" => Position(p)' = 12
         /\ pc'[p] = "decide" => Position(p)' = 11
         /\ pc'[p] = "recheck" => Position(p)' = 3
         /\ pc'[p] = "write" => Position(p)' = 2
         /\ pc'[p] = "observe" => Position(p)' = 1
         /\ pc'[p] = "conflict" => Position(p)' = 0
         /\ pc'[p] = "download" => Position(p)' = 7
         /\ pc'[p] = "deployment" => Position(p)' = IF members'[p] = {} THEN 10 ELSE 6
         /\ pc'[p] = "pods" => Position(p)' = IF members'[p] = {} THEN 9 ELSE 5
         /\ pc'[p] = "endpoints" => Position(p)' = IF unverified'[p] # {} THEN 8 ELSE 4
         /\ pc'[p] \in Ended => Position(p)' = 0
BY DEF Position, Ended

(* A Job's step takes it further in its attempt, downloads from one more   *)
(* replica, or uses up the attempt.                                        *)
LEMMA StepsLeft ==
  ASSUME IInv, NEW p \in Publishers, Publish(p), pc'[p] \notin Ended
  PROVE  Before(Remaining(p)', Remaining(p))
<1> DEFINE a == attempts[p]
           b == Position(p)
           c == Cardinality(unverified[p])
<1>1. a \in Int /\ a' \in Int /\ b \in Int /\ b' \in Int
  <2>1. TypeOK /\ TypeOK'
    BY PublishTypes DEF IInv
  <2>2. pc[p] \in Steps \cup Ended /\ pc'[p] \in Steps \cup Ended
    BY <2>1 DEF TypeOK
  <2>3. a \in Int /\ a' \in Int
    BY <2>1, PublisherAssumption DEF TypeOK
  <2> HIDE DEF a, b, c
  <2>4. Position(p) \in Int
    BY <2>2, PositionNow DEF Steps
  <2>5. Position(p)' \in Int
    BY <2>2, PositionNext DEF Steps
  <2> QED
    BY <2>3, <2>4, <2>5 DEF b
<1> HIDE DEF b
<1> USE DEF Goto, Ended, inputVars, studioVars, readVars, barrierVars
<1>2. a' < a \/ (a' = a /\ (b' < b \/ (b' = b /\ c' < c)))
  <2>0. TypeOK
    BY DEF IInv
  <2>1. CASE ReadInventory(p) \/ ReadArchive(p) \/ Recheck(p)
    <3>1. /\ attempts' = attempts
          /\ \/ pc[p] = "inventory" /\ pc'[p] = "archive"
             \/ pc[p] = "archive" /\ pc'[p] = "decide"
             \/ pc[p] = "recheck" /\ pc'[p] \in {"write", "observe"}
      BY <2>0, <2>1 DEF TypeOK, ReadInventory, ReadArchive, Recheck
    <3> QED
      BY <3>1, PositionNow, PositionNext DEF b
  <2>2. CASE DecideStage(p) \/ DecidePromote(p)
    <3>1. attempts' = attempts /\ pc[p] = "decide" /\ pc'[p] \in {"recheck", "deployment"}
      BY <2>0, <2>2 DEF TypeOK, DecideStage, DecidePromote
    <3> QED
      BY <3>1, PositionNow, PositionNext DEF b
  <2>3. CASE CheckDeployment(p) \/ CheckPods(p) \/ CheckEndpoints(p)
    <3>1. /\ attempts' = attempts
          /\ \/ /\ pc[p] = "deployment" /\ pc'[p] = "pods"
                /\ members' = members
             \/ /\ pc[p] = "pods" /\ pc'[p] = "endpoints"
                /\ members[p] # {} => unverified'[p] = {}
             \/ /\ pc[p] = "endpoints"
                /\ pc'[p] = IF unverified[p] = {} THEN "recheck" ELSE "download"
      BY <2>0, <2>3 DEF TypeOK, BarrierStep, CheckDeployment, CheckPods, CheckEndpoints
    <3> QED
      BY <3>1, PositionNow, PositionNext DEF b
  <2>4. CASE Download(p)
    <3>1. PICK d \in unverified[p] :
            /\ unverified' = [unverified EXCEPT ![p] = @ \ {d}]
            /\ pc' = [pc EXCEPT ![p] = IF unverified[p] = {d} THEN "deployment" ELSE @]
      BY <2>4 DEF Download
    <3>2. a' = a /\ members'[p] = members[p] /\ pc[p] = "download"
      BY <2>4 DEF Download, BarrierStep
    <3>3. CASE unverified[p] = {d}
      <4>1. pc'[p] = "deployment" /\ members'[p] # {}
        BY <2>0, <3>1, <3>2, <3>3 DEF IInv, TypeOK, MembersWereBorn
      <4> QED
        BY <3>2, <4>1, PositionNow, PositionNext DEF b
    <3>4. CASE unverified[p] # {d}
      <4>1. pc'[p] = "download"
        BY <2>0, <3>1, <3>2, <3>4 DEF TypeOK
      <4>2. b' = b
        BY <3>2, <4>1, PositionNow, PositionNext DEF b
      <4>3. IsFiniteSet(unverified[p])
        <5>1. IsFiniteSet(Born) /\ unverified[p] \subseteq Born
          BY DEF IInv, MembersWereBorn
        <5> QED
          BY <5>1, FS_Subset
      <4>4. c \in Nat /\ Cardinality(unverified[p] \ {d}) = c - 1
        BY <4>3, FS_RemoveElement, FS_CardinalityType
      <4>5. c' = c - 1
        BY <2>0, <3>1, <4>4 DEF TypeOK
      <4> QED
        BY <3>2, <4>2, <4>4, <4>5
    <3> QED
      BY <3>3, <3>4
  <2>5. CASE WriteAccepted(p) \/ WriteConflict(p) \/ ObserveOther(p)
    <3>1. /\ attempts' = attempts
          /\ \/ pc[p] = "write" /\ pc'[p] \in {"observe", "conflict"}
             \/ pc[p] = "observe" /\ pc'[p] = "conflict"
      BY <2>0, <2>5 DEF TypeOK, WriteAccepted, WriteConflict, ObserveOther, WriteStep
    <3> QED
      BY <3>1, PositionNow, PositionNext DEF b
  <2>6. CASE WriteUnanswered(p) \/ ObserveDesired(p) \/ Fail(p)
    BY <2>0, <2>6 DEF TypeOK, WriteUnanswered, ObserveDesired, Fail
  <2>7. CASE Retry(p)
    <3>1. a' = a - 1
      BY <2>0, <2>7 DEF TypeOK, Retry
    <3> QED
      BY <1>1, <3>1
  <2> QED
    BY <2>1, <2>2, <2>3, <2>4, <2>5, <2>6, <2>7 DEF Publish, Barrier
<1> HIDE DEF a, b, c
<1>3. Before(<<a', b', c'>>, <<a, b, c>>)
  BY <1>1, <1>2, BeforeBy
<1> QED
  BY <1>3 DEF Remaining, a, b, c

(* A Job ends although others keep changing the ConfigMap: everything it   *)
(* does, and nothing that others do, lowers what remains of it, and what   *)
(* remains cannot be lowered for ever.                                     *)
THEOREM EveryJobEnds == Spec => JobsEnd
<1> DEFINE Done(p) ==
      pc'[p] \notin Ended /\ <<pc[p], unverified[p], attempts[p]>>' #
                             <<pc[p], unverified[p], attempts[p]>> =>
        Before(Remaining(p)', Remaining(p))
<1>1. IInv /\ [Next]_vars => [\A p \in Publishers : Done(p)]_vars
  <2> SUFFICES ASSUME IInv, Next, NEW p \in Publishers, pc'[p] \notin Ended,
                      <<pc[p], unverified[p], attempts[p]>>' # <<pc[p], unverified[p], attempts[p]>>
               PROVE  Before(Remaining(p)', Remaining(p))
    BY DEF vars
  <2>1. ~Surroundings
    BY SurroundingFrame
  <2>2. PICK q \in Publishers : Publish(q)
    BY <2>1, PublisherAssumption DEF Next, IInv, TypeOK
  <2>3. p = q
    BY <2>2, PublishFrame
  <2> QED
    BY <2>2, <2>3, StepsLeft
<1> QED
  BY <1>1, Invariance, PTL DEF Spec, JobsEnd
=============================================================================
