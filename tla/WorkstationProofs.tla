--------------------------- MODULE WorkstationProofs ---------------------------
(* Proofs about the operator's command-line tools, for any number of         *)
(* operators, callers, models, recipes, prices and commits.  A behaviour is  *)
(* one of a single tool, so they are kept side by side.                      *)
EXTENDS MCWorkstation, Sequences, FiniteSetTheorems, WellFoundedInduction, TLAPS

-----------------------------------------------------------------------------
(* The acquisition of an add-on's source: s1 the tag's revision, s2 the     *)
(* shared directory, s3 each caller, s4 the answers, s5 and s6 the bounds.  *)

(* No caller and no directory: nobody has been given anything.              *)
LEMMA AcquisitionInit == Acquisition!Init => Acquisition!IInv
  BY AcquisitionAssumption
    DEF Acquisition!AcquisitionAssumption, Acquisition!Init, Acquisition!IInv,
     Acquisition!TypeOK, Acquisition!OneFills, Acquisition!Filling, Acquisition!SourcesAreWhole,
     Acquisition!Idle, Acquisition!At

(* A caller that goes on to anything but filling changes nothing.            *)
LEMMA SourceCallerKeeps ==
  ASSUME Acquisition!IInv, NEW c \in Callers,
         NEW x \in [step : {"idle", "look", "resolve", "status", "fetch", "publish"},
                    revision : Revisions \cup {None}, left : SUBSET Entries],
         x.step \in {"status", "publish"} => x.revision \in Revisions,
         x.step = "publish" => x.left = Entries,
         s3' = [s3 EXCEPT ![c] = x],
         UNCHANGED <<s1, s2, s4, s6>>, s5' \in 0..SourceOps
  PROVE  Acquisition!IInv'
<1>1. Acquisition!TypeOK'
  BY DEF Acquisition!IInv, Acquisition!TypeOK
<1>2. s3'[c] = x /\ \A d \in Callers \ {c} : s3'[d] = s3[d]
  BY DEF Acquisition!IInv, Acquisition!TypeOK
<1>3. Acquisition!OneFills' /\ Acquisition!Filling'
  BY <1>2 DEF Acquisition!IInv, Acquisition!OneFills, Acquisition!Filling, Acquisition!At
<1>4. Acquisition!SourcesAreWhole'
  BY DEF Acquisition!IInv, Acquisition!SourcesAreWhole
<1> QED BY <1>1, <1>3, <1>4 DEF Acquisition!IInv

(* An error, or the end of the process.                                      *)
LEMMA SourceRefuseKeeps ==
  ASSUME Acquisition!IInv, NEW c \in Callers, Acquisition!Refuse(c), Acquisition!Reads
  PROVE  Acquisition!IInv'
<1>1. Acquisition!Idle \in [step : {"idle", "look", "resolve", "status", "fetch", "publish"},
                revision : Revisions \cup {None}, left : SUBSET Entries]
  BY DEF Acquisition!Idle
<1> QED BY <1>1, SourceCallerKeeps
          DEF Acquisition!IInv, Acquisition!TypeOK, Acquisition!Refuse, Acquisition!End,
           Acquisition!Reads, Acquisition!Idle

(* What is answered is what every entry is.                                  *)
LEMMA SourceAnswerKeeps ==
  ASSUME Acquisition!IInv, NEW c \in Callers, s3[c].revision \in Revisions, s2 # None,
         \A e \in Entries : s2[e] \in {s3[c].revision, "spoiled"},
         Acquisition!Answer(c), UNCHANGED <<s1, s2, s5, s6>>
  PROVE  Acquisition!IInv'
<1>1. Acquisition!Idle \in [step : {"idle", "look", "resolve", "status", "fetch", "publish"},
                revision : Revisions \cup {None}, left : SUBSET Entries]
  BY DEF Acquisition!Idle
<1>2. s3' = [s3 EXCEPT ![c] = Acquisition!Idle]
  BY DEF Acquisition!Answer, Acquisition!End
<1>3. s3'[c] = Acquisition!Idle /\ \A d \in Callers \ {c} : s3'[d] = s3[d]
  BY <1>2 DEF Acquisition!IInv, Acquisition!TypeOK
<1>4. Acquisition!TypeOK'
  BY <1>1, <1>2 DEF Acquisition!IInv, Acquisition!TypeOK, Acquisition!Answer
<1>5. Acquisition!OneFills' /\ Acquisition!Filling'
  BY <1>3
    DEF Acquisition!IInv, Acquisition!OneFills, Acquisition!Filling, Acquisition!At,
     Acquisition!Idle
<1>6. Acquisition!SourcesAreWhole'
  BY DEF Acquisition!IInv, Acquisition!SourcesAreWhole, Acquisition!Answer
<1> QED BY <1>4, <1>5, <1>6 DEF Acquisition!IInv

(* A caller begins with the revision of the tag as it stands.               *)
LEMMA SourceStartKeeps ==
  ASSUME Acquisition!IInv, NEW c \in Callers, Acquisition!Start(c)
  PROVE  Acquisition!IInv'
<1>1. PICK x : x = [s3[c] EXCEPT !.step = "look"]
  OBVIOUS
<1>2. s3[c] \in [step : {"idle", "look", "resolve", "status", "fetch", "publish", "move"},
                     revision : Revisions \cup {None}, left : SUBSET Entries]
  BY DEF Acquisition!IInv, Acquisition!TypeOK
<1>3. x.step = "look" /\ x \in [step : {"idle", "look", "resolve", "status", "fetch", "publish"},
                                revision : Revisions \cup {None}, left : SUBSET Entries]
  BY <1>1, <1>2
<1>4. s3' = [s3 EXCEPT ![c] = x]
  BY <1>1 DEF Acquisition!Start, Acquisition!To
<1>5. s5' \in 0..SourceOps
  BY AcquisitionAssumption
    DEF Acquisition!AcquisitionAssumption, Acquisition!Start, Acquisition!IInv,
     Acquisition!TypeOK
<1> QED BY <1>3, <1>4, <1>5, SourceCallerKeeps DEF Acquisition!Start

(* A directory that is there is compared; without one a checkout is made.   *)
LEMMA SourceLookKeeps ==
  ASSUME Acquisition!IInv, NEW c \in Callers, Acquisition!Look(c)
  PROVE  Acquisition!IInv'
<1>1. PICK to \in {"fetch", "resolve"} : Acquisition!To(c, to)
  BY DEF Acquisition!Look
<1>2. PICK x : x = [s3[c] EXCEPT !.step = to]
  OBVIOUS
<1>3. s3[c] \in [step : {"idle", "look", "resolve", "status", "fetch", "publish", "move"},
                     revision : Revisions \cup {None}, left : SUBSET Entries]
  BY DEF Acquisition!IInv, Acquisition!TypeOK
<1>4. x.step = to /\ x \in [step : {"idle", "look", "resolve", "status", "fetch", "publish"},
                            revision : Revisions \cup {None}, left : SUBSET Entries]
  BY <1>2, <1>3
<1>5. s3' = [s3 EXCEPT ![c] = x]
  BY <1>1, <1>2 DEF Acquisition!To
<1> QED BY <1>4, <1>5, SourceCallerKeeps
          DEF Acquisition!Look, Acquisition!Reads, Acquisition!IInv, Acquisition!TypeOK

(* The revision that the directory is expected to have.                     *)
LEMMA SourceResolveKeeps ==
  ASSUME Acquisition!IInv, NEW c \in Callers, Acquisition!Resolve(c)
  PROVE  Acquisition!IInv'
<1>1. CASE Acquisition!End(c)
  BY <1>1, SourceRefuseKeeps DEF Acquisition!Resolve, Acquisition!Refuse
<1>2. CASE /\ s2 # None /\ s2[Git] \in Revisions
           /\ s3' = [s3 EXCEPT ![c].revision = s2[Git], ![c].step = "status"]
  <2>1. PICK x : x = [[s3[c] EXCEPT !.revision = s2[Git]] EXCEPT !.step = "status"]
    OBVIOUS
  <2>2. s3[c] \in [step : {"idle", "look", "resolve", "status", "fetch", "publish", "move"},
                       revision : Revisions \cup {None}, left : SUBSET Entries]
    BY DEF Acquisition!IInv, Acquisition!TypeOK
  <2>3. /\ x.step = "status" /\ x.revision = s2[Git]
        /\ x \in [step : {"idle", "look", "resolve", "status", "fetch", "publish"},
                  revision : Revisions \cup {None}, left : SUBSET Entries]
    BY <1>2, <2>1, <2>2
  <2>4. s3' = [s3 EXCEPT ![c] = x]
    BY <1>2, <2>1 DEF Acquisition!IInv, Acquisition!TypeOK
  <2> QED BY <1>2, <2>3, <2>4, SourceCallerKeeps
            DEF Acquisition!Resolve, Acquisition!Reads, Acquisition!IInv, Acquisition!TypeOK
<1> QED BY <1>1, <1>2 DEF Acquisition!Resolve

(* A clean directory of the revision is given to the caller.                *)
LEMMA SourceStatusKeeps ==
  ASSUME Acquisition!IInv, NEW c \in Callers, Acquisition!Status(c)
  PROVE  Acquisition!IInv'
<1>1. CASE Acquisition!Refuse(c)
  BY <1>1, SourceRefuseKeeps DEF Acquisition!Status
<1>2. CASE s2 # None /\ (\A e \in Entries : s2[e] = s3[c].revision) /\ Acquisition!Answer(c)
  <2>1. s3[c].revision \in Revisions
    BY DEF Acquisition!IInv, Acquisition!Filling, Acquisition!Status, Acquisition!At
  <2> QED BY <1>2, <2>1, SourceAnswerKeeps DEF Acquisition!Status, Acquisition!Reads
<1> QED BY <1>1, <1>2 DEF Acquisition!Status

(* What is fetched is verified before anybody can see it.                    *)
LEMMA SourceFetchKeeps ==
  ASSUME Acquisition!IInv, NEW c \in Callers, Acquisition!Fetch(c)
  PROVE  Acquisition!IInv'
<1>1. CASE Acquisition!End(c)
  BY <1>1, SourceRefuseKeeps DEF Acquisition!Fetch, Acquisition!Refuse
<1>2. CASE s3' = [s3 EXCEPT ![c] = [step |-> "publish", revision |-> s1, left |-> Entries]]
  <2>1. PICK x : x = [step |-> "publish", revision |-> s1, left |-> Entries]
    OBVIOUS
  <2>2. s1 \in Revisions
    BY DEF Acquisition!IInv, Acquisition!TypeOK
  <2>3. /\ x.step = "publish" /\ x.revision = s1 /\ x.left = Entries
        /\ x \in [step : {"idle", "look", "resolve", "status", "fetch", "publish"},
                  revision : Revisions \cup {None}, left : SUBSET Entries]
    BY <2>1, <2>2
  <2> QED BY <1>2, <2>1, <2>2, <2>3, SourceCallerKeeps
            DEF Acquisition!Fetch, Acquisition!Reads, Acquisition!IInv, Acquisition!TypeOK
<1> QED BY <1>1, <1>2 DEF Acquisition!Fetch

(* Whoever creates the directory is alone with it.                           *)
LEMMA SourcePublishKeeps ==
  ASSUME Acquisition!IInv, NEW c \in Callers, Acquisition!Publish(c)
  PROVE  Acquisition!IInv'
<1>1. CASE Acquisition!Refuse(c) /\ UNCHANGED s2
  BY <1>1, SourceRefuseKeeps DEF Acquisition!Publish, Acquisition!Reads
<1>2. CASE s2 = None /\ Acquisition!Create /\ Acquisition!To(c, "move")
  <2>1. s3[c] \in [step : {"idle", "look", "resolve", "status", "fetch", "publish", "move"},
                       revision : Revisions \cup {None}, left : SUBSET Entries]
        /\ s3[c].revision \in Revisions /\ Acquisition!At(c, "publish")
    BY DEF Acquisition!IInv, Acquisition!TypeOK, Acquisition!Publish, Acquisition!Filling,
       Acquisition!At
  <2>2. PICK x : x = [s3[c] EXCEPT !.step = "move"]
    OBVIOUS
  <2>3. /\ x.step = "move" /\ x.revision = s3[c].revision /\ x.left = s3[c].left
        /\ x \in [step : {"idle", "look", "resolve", "status", "fetch", "publish", "move"},
                  revision : Revisions \cup {None}, left : SUBSET Entries]
    BY <2>1, <2>2
  <2>4. s3' = [s3 EXCEPT ![c] = x] /\ s3'[c] = x
        /\ \A d \in Callers \ {c} : s3'[d] = s3[d]
    BY <1>2, <2>2 DEF Acquisition!To, Acquisition!IInv, Acquisition!TypeOK
  <2>5. x.left = Entries
    BY <2>1, <2>3 DEF Acquisition!IInv, Acquisition!Filling
  <2>6. Acquisition!TypeOK'
    BY <1>2, <2>3, <2>4
      DEF Acquisition!IInv, Acquisition!TypeOK, Acquisition!Publish, Acquisition!Create
  <2>7. \A d \in Callers : ~Acquisition!At(d, "move")
    BY <1>2 DEF Acquisition!IInv, Acquisition!Filling
  <2>8. s2' # None /\ (\A e \in Entries : s2'[e] = "missing") /\ s4' = {}
    BY <1>2, AcquisitionAssumption DEF Acquisition!Create, Acquisition!AcquisitionAssumption
  <2>9. Acquisition!OneFills' /\ Acquisition!Filling'
    BY <2>1, <2>3, <2>4, <2>5, <2>7, <2>8
      DEF Acquisition!OneFills, Acquisition!Filling, Acquisition!At, Acquisition!IInv
  <2> QED BY <2>6, <2>8, <2>9 DEF Acquisition!IInv, Acquisition!SourcesAreWhole
<1> QED BY <1>1, <1>2 DEF Acquisition!Publish

(* While an entry is missing nobody has been given the source.               *)
LEMMA SourceMoveKeeps ==
  ASSUME Acquisition!IInv, NEW c \in Callers, Acquisition!Move(c)
  PROVE  Acquisition!IInv'
<1>1. /\ Acquisition!At(c, "move") /\ s3[c].revision \in Revisions /\ s2 # None
      /\ \A e \in Entries : IF e \in s3[c].left THEN s2[e] = "missing"
                            ELSE s2[e] \in {s3[c].revision, "spoiled"}
  BY DEF Acquisition!Move, Acquisition!IInv, Acquisition!Filling, Acquisition!At
<1>2. CASE s3[c].left = {} /\ Acquisition!Answer(c) /\ UNCHANGED s2
  BY <1>1, <1>2, SourceAnswerKeeps DEF Acquisition!Move
<1>3. CASE s3[c].left # {} /\ Acquisition!Refuse(c) /\ UNCHANGED s2
  BY <1>3, SourceRefuseKeeps DEF Acquisition!Move, Acquisition!Reads
<1>4. ASSUME NEW e \in s3[c].left,
             s3' = [s3 EXCEPT ![c].left = @ \ {e}],
             s2' = [s2 EXCEPT ![e] = s3[c].revision], UNCHANGED s4
      PROVE  Acquisition!IInv'
  <2>1. s3[c] \in [step : {"idle", "look", "resolve", "status", "fetch", "publish", "move"},
                       revision : Revisions \cup {None}, left : SUBSET Entries]
        /\ s2 \in [Entries -> Revisions \cup {"missing", "spoiled"}] /\ e \in Entries
    BY <1>1 DEF Acquisition!IInv, Acquisition!TypeOK
  <2>2. PICK x : x = [s3[c] EXCEPT !.left = @ \ {e}]
    OBVIOUS
  <2>3. /\ x.step = "move" /\ x.revision = s3[c].revision /\ x.left = s3[c].left \ {e}
        /\ x \in [step : {"idle", "look", "resolve", "status", "fetch", "publish", "move"},
                  revision : Revisions \cup {None}, left : SUBSET Entries]
    BY <1>1, <2>1, <2>2 DEF Acquisition!At
  <2>4. s3' = [s3 EXCEPT ![c] = x] /\ s3'[c] = x
        /\ \A d \in Callers \ {c} : s3'[d] = s3[d]
    BY <1>4, <2>2 DEF Acquisition!IInv, Acquisition!TypeOK
  <2>5. s2' \in [Entries -> Revisions \cup {"missing", "spoiled"}] /\ s2' # None
        /\ s2'[e] = s3[c].revision /\ \A f \in Entries \ {e} : s2'[f] = s2[f]
    BY <1>1, <1>4, <2>1, AcquisitionAssumption DEF Acquisition!AcquisitionAssumption
  <2>6. Acquisition!TypeOK'
    BY <1>4, <2>3, <2>4, <2>5 DEF Acquisition!IInv, Acquisition!TypeOK, Acquisition!Move
  <2>7. \A d \in Callers \ {c} : ~Acquisition!At(d, "move")
    BY <1>1 DEF Acquisition!IInv, Acquisition!OneFills
  <2>8. Acquisition!OneFills' /\ Acquisition!Filling'
    BY <1>1, <2>1, <2>3, <2>4, <2>5, <2>7
      DEF Acquisition!OneFills, Acquisition!Filling, Acquisition!At, Acquisition!IInv
  <2>9. s4 = {}
    BY <1>1, <2>1, AcquisitionAssumption
      DEF Acquisition!AcquisitionAssumption, Acquisition!IInv, Acquisition!SourcesAreWhole,
       Acquisition!TypeOK
  <2> QED BY <1>4, <2>6, <2>8, <2>9 DEF Acquisition!IInv, Acquisition!SourcesAreWhole
<1> QED BY <1>2, <1>3, <1>4 DEF Acquisition!Move

(* A caller that is killed leaves the directory as it is.                   *)
LEMMA SourceCrashKeeps ==
  ASSUME Acquisition!IInv, NEW c \in Callers, Acquisition!Crash(c)
  PROVE  Acquisition!IInv'
  BY SourceRefuseKeeps DEF Acquisition!Crash

(* The publisher moves the tag: no directory changes.                       *)
LEMMA SourceMoveTagKeeps == ASSUME Acquisition!IInv, Acquisition!MoveTag PROVE Acquisition!IInv'
<1>1. Acquisition!TypeOK'
  BY AcquisitionAssumption
    DEF Acquisition!AcquisitionAssumption, Acquisition!MoveTag, Acquisition!Edit,
     Acquisition!IInv, Acquisition!TypeOK
<1> QED BY <1>1
          DEF Acquisition!MoveTag, Acquisition!Edit, Acquisition!IInv, Acquisition!OneFills,
           Acquisition!Filling, Acquisition!SourcesAreWhole, Acquisition!At

(* What the operator spoils is spoiled, and not missing.                     *)
LEMMA SourceSpoilKeeps == ASSUME Acquisition!IInv, Acquisition!Spoil PROVE Acquisition!IInv'
<1>1. PICK e \in Entries : s2[e] # "missing" /\ s2' = [s2 EXCEPT ![e] = "spoiled"]
  BY DEF Acquisition!Spoil
<1>2. s2 \in [Entries -> Revisions \cup {"missing", "spoiled"}]
  BY DEF Acquisition!Spoil, Acquisition!IInv, Acquisition!TypeOK
<1>3. s2' \in [Entries -> Revisions \cup {"missing", "spoiled"}] /\ s2' # None
      /\ s2'[e] = "spoiled" /\ \A f \in Entries \ {e} : s2'[f] = s2[f]
  BY <1>1, <1>2, AcquisitionAssumption DEF Acquisition!AcquisitionAssumption
<1>4. Acquisition!TypeOK'
  BY <1>3, AcquisitionAssumption
    DEF Acquisition!AcquisitionAssumption, Acquisition!Spoil, Acquisition!Edit, Acquisition!IInv,
     Acquisition!TypeOK
<1>5. Acquisition!OneFills' /\ Acquisition!Filling'
  BY <1>1, <1>3
    DEF Acquisition!Spoil, Acquisition!Edit, Acquisition!OneFills, Acquisition!Filling,
     Acquisition!At, Acquisition!IInv
<1>6. Acquisition!SourcesAreWhole'
  BY <1>3 DEF Acquisition!Spoil, Acquisition!Edit, Acquisition!SourcesAreWhole, Acquisition!IInv
<1> QED BY <1>4, <1>5, <1>6 DEF Acquisition!IInv

(* Somebody removes the directory while nobody fills it.                    *)
LEMMA SourceRemoveKeeps == ASSUME Acquisition!IInv, Acquisition!Remove PROVE Acquisition!IInv'
<1>1. Acquisition!TypeOK'
  BY AcquisitionAssumption
    DEF Acquisition!AcquisitionAssumption, Acquisition!Remove, Acquisition!Edit,
     Acquisition!IInv, Acquisition!TypeOK
<1> QED BY <1>1
          DEF Acquisition!Remove, Acquisition!Edit, Acquisition!IInv, Acquisition!OneFills,
           Acquisition!Filling, Acquisition!SourcesAreWhole, Acquisition!At

(* Every step of the callers and of what surrounds them.                    *)
LEMMA AcquisitionNext == ASSUME Acquisition!IInv, Acquisition!Next PROVE Acquisition!IInv'
  BY SourceStartKeeps, SourceLookKeeps, SourceResolveKeeps, SourceStatusKeeps, SourceFetchKeeps,
     SourcePublishKeeps, SourceMoveKeeps, SourceCrashKeeps, SourceMoveTagKeeps, SourceSpoilKeeps,
     SourceRemoveKeeps DEF Acquisition!Next

-----------------------------------------------------------------------------
(* The models on disk and on a target: s1 the queue, s2 the inventory, s3   *)
(* the disk, s4 the branch's head, s5 the target, s6 the step, s7 what is   *)
(* still to be done, s8 the failures, s9 the inventory as it was read, s10  *)
(* the revision, s11 whether the run is guided, s12 what was sent.          *)

(* The tool's cardinality, and finite sets, are the library's.               *)
LEMMA StoreCounts ==
  \A S : /\ Store!IsFiniteSet(S) <=> IsFiniteSet(S)
         /\ Store!Cardinality(S) = Cardinality(S)
  BY DEF Store!IsFiniteSet, IsFiniteSet, Store!Cardinality, Cardinality

(* A set made a sequence keeps its elements, and gains none.                 *)
LEMMA StoreSetToSeqTells ==
  ASSUME NEW S, S \subseteq Selections
  PROVE  /\ Store!SetToSeq(S) \in Seq(Selections) /\ Store!Range(Store!SetToSeq(S)) = S
         /\ S # {} => Store!SetToSeq(S) # <<>>
<1>1. PICK n : n = Cardinality(S)
  OBVIOUS
<1>2. IsFiniteSet(S)
  BY FS_Subset, StoreAssumption, StoreCounts DEF Store!StoreAssumption
<1>3. n \in Nat /\ ExistsBijection(1..n, S)
  BY <1>1, <1>2, FS_CardinalityType
<1>4. PICK f : f = Store!SetToSeq(S)
  OBVIOUS
<1>5. f \in [1..n -> S] /\ Store!IsInjective(f)
  <2>1. \E g \in [1..n -> S] : Store!IsInjective(g)
    BY <1>3 DEF ExistsBijection, Bijection, Injection, IsInjective,
           Store!IsInjective
  <2>2. f = CHOOSE g \in [1..n -> S] : Store!IsInjective(g)
    BY <1>1, <1>4, StoreCounts DEF Store!SetToSeq
  <2> QED BY <2>1, <2>2
<1>6. f \in Injection(1..n, S)
  BY <1>5 DEF Injection, IsInjective, Store!IsInjective
<1>7. Cardinality(1..n) = n
  BY <1>3, FS_Interval
<1>8. f \in Surjection(1..n, S)
  BY <1>1, <1>2, <1>6, <1>7, FS_Injection
<1>9. \A s \in S : \E i \in 1..n : f[i] = s
  BY <1>8 DEF Surjection
<1>10. f \in Seq(Selections) /\ Len(f) = n
  BY <1>3, <1>5
<1>11. Store!Range(f) = S
  BY <1>5, <1>9 DEF Store!Range
<1>12. S # {} => f # <<>>
  BY <1>9, <1>10, <1>3
<1> QED BY <1>4, <1>10, <1>11, <1>12

(* The first and the rest of what is still to be done.                       *)
LEMMA StoreTodoTells ==
  ASSUME NEW q \in Seq(Selections), q # <<>>
  PROVE  /\ Head(q) \in Store!Range(q) /\ Head(q) \in Selections
         /\ Tail(q) \in Seq(Selections) /\ Store!Range(q) = {Head(q)} \cup Store!Range(Tail(q))
         /\ Len(q) # 1 => Tail(q) # <<>> /\ Head(Tail(q)) = q[2]
<1>1. Len(q) \in Nat \ {0} /\ DOMAIN q = 1..Len(q)
  OBVIOUS
<1>2. Head(q) = q[1] /\ q[1] \in Selections /\ Tail(q) \in Seq(Selections)
      /\ Len(Tail(q)) = Len(q) - 1 /\ \A i \in 1..(Len(q) - 1) : Tail(q)[i] = q[i + 1]
  BY <1>1
<1>3. DOMAIN Tail(q) = 1..(Len(q) - 1)
  BY <1>2
<1>4. Store!Range(q) \subseteq {Head(q)} \cup Store!Range(Tail(q))
  <2> SUFFICES ASSUME NEW i \in 1..Len(q), i # 1 PROVE q[i] \in Store!Range(Tail(q))
    BY <1>1, <1>2 DEF Store!Range
  <2>1. i - 1 \in 1..(Len(q) - 1) /\ Tail(q)[i - 1] = q[i]
    BY <1>1, <1>2
  <2> QED BY <1>3, <2>1 DEF Store!Range
<1>5. {Head(q)} \cup Store!Range(Tail(q)) \subseteq Store!Range(q)
  <2>1. Head(q) \in Store!Range(q)
    BY <1>1, <1>2 DEF Store!Range
  <2>2. ASSUME NEW i \in 1..(Len(q) - 1) PROVE Tail(q)[i] \in Store!Range(q)
    <3>1. i + 1 \in 1..Len(q) /\ Tail(q)[i] = q[i + 1]
      BY <1>1, <1>2
    <3> QED BY <1>1, <3>1 DEF Store!Range
  <2> QED BY <1>3, <2>1, <2>2 DEF Store!Range
<1>6. Len(q) # 1 => Tail(q) # <<>> /\ Head(Tail(q)) = q[2]
  <2> SUFFICES ASSUME Len(q) # 1 PROVE Tail(q) # <<>> /\ Head(Tail(q)) = q[2]
    OBVIOUS
  <2>1. Len(Tail(q)) # 0 /\ 1 \in 1..(Len(q) - 1)
    BY <1>1, <1>2
  <2>2. PICK t : t = Tail(q)
    OBVIOUS
  <2>3. t[1] = q[1 + 1] /\ t \in Seq(Selections) /\ Len(t) # 0
    BY <1>2, <2>1, <2>2
  <2>4. t # <<>> /\ Head(t) = t[1]
    BY <2>3
  <2> QED BY <2>2, <2>3, <2>4
<1> QED BY <1>2, <1>4, <1>5, <1>6

(* No download and no upload, and any model may already be there.           *)
LEMMA StoreInit == Store!Init => Store!IInv
<1> SUFFICES ASSUME Store!Init PROVE Store!IInv OBVIOUS
<1>0. <<>> \in Seq(Selections)
      /\ [s \in Selections |-> None] \in [Selections -> Revisions \cup {None}]
      /\ [a \in Store!Artifacts |-> "absent"] \in [Store!Artifacts -> Store!Content]
  BY DEF Store!Content
<1>1. Store!TypeOK
  BY <1>0 DEF Store!Init, Store!TypeOK, Store!Content
<1>2. Store!TargetIsWhole /\ Store!Downloading /\ Store!Resolved /\ Store!Uploading
  BY DEF Store!Init, Store!TargetIsWhole, Store!Downloading, Store!Resolved, Store!Uploading
<1> QED BY <1>1, <1>2 DEF Store!IInv

(* What an operation knows.                                                  *)
LEMMA StoreWorkTells ==
  ASSUME Store!IInv, s6 # "idle", s7 # <<>>
  PROVE  /\ Store!Cur \in Selections /\ Store!Cur \in Store!Range(s7)
         /\ Tail(s7) \in Seq(Selections)
         /\ Store!Range(s7) = {Store!Cur} \cup Store!Range(Tail(s7))
         /\ Len(s7) # 1 => Tail(s7) # <<>> /\ Head(Tail(s7)) = s7[2]
         /\ s10 \in Revisions => Store!Artifact \in Store!Artifacts
<1>1. s7 \in Seq(Selections)
  BY DEF Store!IInv, Store!TypeOK
<1> QED BY <1>1, StoreTodoTells DEF Store!Cur, Store!Artifact, Store!Artifacts

(* Nothing that is under way.                                                *)
LEMMA StoreIdleKeeps ==
  ASSUME Store!IInv, Store!Idle, UNCHANGED <<s2, s3, Store!outsideVars>>, s1' \subseteq Selections
  PROVE  Store!IInv'
<1>0. <<>> \in Seq(Selections)
      /\ [s \in Selections |-> None] \in [Selections -> Revisions \cup {None}]
  OBVIOUS
<1>1. Store!TypeOK'
  BY <1>0 DEF Store!IInv, Store!TypeOK, Store!Idle, Store!outsideVars, Store!Content
<1>2. Store!TargetIsWhole' /\ Store!Downloading' /\ Store!Resolved' /\ Store!Uploading'
  BY DEF Store!IInv, Store!TargetIsWhole, Store!Downloading, Store!Resolved, Store!Uploading,
     Store!Idle, Store!outsideVars
<1> QED BY <1>1, <1>2 DEF Store!IInv

(* The operator selects what is downloaded.                                 *)
LEMMA StoreSelectDownloadsKeeps ==
  ASSUME Store!IInv, NEW chosen \in SUBSET Selections, Store!SelectDownloads(chosen)
  PROVE  Store!IInv'
<1>1. Store!TypeOK'
  BY DEF Store!IInv, Store!TypeOK, Store!SelectDownloads, Store!outsideVars, Store!workVars
<1>2. Store!TargetIsWhole' /\ Store!Downloading' /\ Store!Resolved' /\ Store!Uploading'
  BY DEF Store!IInv, Store!TargetIsWhole, Store!Downloading, Store!Resolved, Store!Uploading,
     Store!SelectDownloads, Store!outsideVars, Store!workVars
<1> QED BY <1>1, <1>2 DEF Store!IInv

(* A download begins with the whole queue still to be done.                  *)
LEMMA StoreBeginDownloadKeeps ==
  ASSUME Store!IInv, NEW selected \in SUBSET Selections, NEW direct \in BOOLEAN,
         Store!BeginDownload(selected, direct)
  PROVE  Store!IInv'
<1>1. s7' \in Seq(Selections) /\ Store!Range(s7') = selected
  BY StoreSetToSeqTells DEF Store!BeginDownload
<1>2. Store!TypeOK'
  BY <1>1 DEF Store!IInv, Store!TypeOK, Store!BeginDownload, Store!storeVars, Store!outsideVars
<1>3. Store!TargetIsWhole' /\ Store!Resolved' /\ Store!Uploading'
  BY DEF Store!IInv, Store!TargetIsWhole, Store!Resolved, Store!Uploading, Store!BeginDownload,
     Store!storeVars, Store!outsideVars
<1>4. Store!Downloading'
  <2>1. s9' = s2' /\ s1' = s1 /\ s8' = {}
        /\ (~s11' => selected = s1)
    BY DEF Store!BeginDownload, Store!storeVars
  <2> QED BY <1>1, <2>1 DEF Store!Downloading
<1> QED BY <1>2, <1>3, <1>4 DEF Store!IInv

(* One selection less to be done: it failed, or is listed.                   *)
LEMMA StoreSelectionFailsKeeps == ASSUME Store!IInv, Store!SelectionFails PROVE Store!IInv'
<1>1. s6 # "idle" /\ s7 # <<>> /\ s8' = s8 \cup {Store!Cur} /\ s7' = Tail(s7)
      /\ s6' = "resolve" /\ s10' = None
      /\ UNCHANGED <<Store!storeVars, Store!outsideVars, s9, s11, s12>>
  BY DEF Store!SelectionFails, Store!NextSelection
<1>2. Store!TypeOK'
  BY <1>1, StoreWorkTells DEF Store!IInv, Store!TypeOK, Store!storeVars, Store!outsideVars
<1>3. Store!TargetIsWhole' /\ Store!Resolved' /\ Store!Uploading'
  BY <1>1
    DEF Store!IInv, Store!TargetIsWhole, Store!Resolved, Store!Uploading, Store!storeVars,
     Store!outsideVars
<1>4. Store!Downloading'
  <2>1. s9 = s2
        /\ (~s11 => s1 \subseteq s8 \cup Store!Range(s7) \cup {s \in Selections : s2[s] # None})
    BY DEF Store!IInv, Store!Downloading, Store!SelectionFails
  <2> QED BY <1>1, <2>1, StoreWorkTells DEF Store!Downloading, Store!storeVars
<1> QED BY <1>2, <1>3, <1>4 DEF Store!IInv

(* A download that goes on with its selection: the store may change, the     *)
(* queue, the inventory and what is left to do may not.                      *)
LEMMA StoreDownloadGoesOn ==
  ASSUME Store!IInv, s6 \in {"resolve", "load", "fetch", "publish"}, s7 # <<>>,
         UNCHANGED <<s1, s2, Store!outsideVars, s7, s8, s9, s11, s12>>,
         s6' \in {"load", "fetch", "publish", "list"}, s10' \in Revisions,
         s3' \in [Store!Artifacts -> Store!Content],
         s6' = "list" => s3'[<<Store!Cur, s10'>>] # "absent"
  PROVE  Store!IInv'
<1>1. Store!TypeOK'
  BY DEF Store!IInv, Store!TypeOK, Store!outsideVars
<1>2. Store!TargetIsWhole' /\ Store!Resolved' /\ Store!Uploading'
  BY DEF Store!IInv, Store!TargetIsWhole, Store!Resolved, Store!Uploading, Store!outsideVars,
     Store!Artifact, Store!Cur
<1>3. Store!Downloading'
  BY DEF Store!IInv, Store!Downloading
<1> QED BY <1>1, <1>2, <1>3 DEF Store!IInv

(* The revision is the pinned one, or the one that the branch has.          *)
LEMMA StoreResolveRevisionKeeps == ASSUME Store!IInv, Store!ResolveRevision PROVE Store!IInv'
<1>1. s6 = "resolve" /\ s7 # <<>> /\ Store!Cur \in Catalog /\ s6' = "load"
      /\ UNCHANGED <<s1, s2, s3, Store!outsideVars, s7, s8, s9, s11, s12>>
  BY DEF Store!ResolveRevision, Store!storeVars
<1>2. s10' \in Revisions
  <2>1. CASE Store!Cur \in Pinned
    BY <2>1, StoreAssumption DEF Store!ResolveRevision, Store!StoreAssumption
  <2>2. CASE Store!Cur \notin Pinned
    BY <1>1, <2>2 DEF Store!ResolveRevision, Store!IInv, Store!TypeOK
  <2> QED BY <2>1, <2>2
<1>3. s3' \in [Store!Artifacts -> Store!Content]
  BY <1>1 DEF Store!IInv, Store!TypeOK
<1> QED BY <1>1, <1>2, <1>3, StoreDownloadGoesOn

(* What is fetched stays apart until it is published locally.               *)
LEMMA StoreFetchesKeep ==
  ASSUME Store!IInv, Store!LoadValid \/ Store!Fetch \/ Store!PublishLocally PROVE Store!IInv'
<1>1. s6 \in {"load", "fetch", "publish"}
      /\ UNCHANGED <<s1, s2, Store!outsideVars, s7, s8, s9, s10, s11, s12>>
  BY DEF Store!LoadValid, Store!Fetch, Store!PublishLocally, Store!storeVars
<1>2. s7 # <<>> /\ s10 \in Revisions /\ s10' \in Revisions
  BY <1>1 DEF Store!IInv, Store!Resolved
<1>3. Store!Artifact \in Store!Artifacts /\ s3 \in [Store!Artifacts -> Store!Content]
      /\ {"absent", "good"} \subseteq Store!Content
  BY <1>1, <1>2, StoreWorkTells DEF Store!IInv, Store!TypeOK, Store!Content
<1>4. CASE Store!LoadValid
  <2>1. CASE s3[Store!Artifact] = "good"
    BY <1>1, <1>2, <1>3, <1>4, <2>1, StoreDownloadGoesOn DEF Store!LoadValid, Store!Artifact
  <2>2. CASE s3[Store!Artifact] # "good"
    BY <1>1, <1>2, <1>3, <1>4, <2>2, StoreDownloadGoesOn DEF Store!LoadValid
  <2> QED BY <2>1, <2>2
<1>5. CASE Store!Fetch
  BY <1>1, <1>2, <1>3, <1>5, StoreDownloadGoesOn DEF Store!Fetch, Store!storeVars
<1>6. CASE Store!PublishLocally
  <2>1. s3' = [s3 EXCEPT ![Store!Artifact] = "good"] /\ s6' = "list"
    BY <1>6 DEF Store!PublishLocally
  <2>2. s3'[<<Store!Cur, s10'>>] # "absent" /\ s3' \in [Store!Artifacts -> Store!Content]
    BY <1>1, <1>3, <2>1 DEF Store!Artifact
  <2> QED BY <1>1, <1>2, <2>1, <2>2, StoreDownloadGoesOn
<1> QED BY <1>4, <1>5, <1>6

(* The inventory gains the model when its directory is there.               *)
LEMMA StoreWriteInstalledKeeps == ASSUME Store!IInv, Store!WriteInstalled PROVE Store!IInv'
<1>1. /\ s6 = "list" /\ s9' = [s9 EXCEPT ![Store!Cur] = s10] /\ s2' = s9'
      /\ s7' = Tail(s7) /\ s6' = "resolve" /\ s10' = None
      /\ UNCHANGED <<s1, s3, Store!outsideVars, s8, s11, s12>>
  BY DEF Store!WriteInstalled, Store!NextSelection
<1>2. s7 # <<>> /\ s10 \in Revisions /\ s10 # None
  BY <1>1, StoreAssumption DEF Store!IInv, Store!Resolved, Store!StoreAssumption
<1>3. Store!Cur \in Selections /\ Tail(s7) \in Seq(Selections)
      /\ Store!Range(s7) = {Store!Cur} \cup Store!Range(Tail(s7))
  BY <1>1, <1>2, StoreWorkTells
<1>4. Store!TypeOK'
  BY <1>1, <1>2, <1>3 DEF Store!IInv, Store!TypeOK, Store!outsideVars
<1>5. Store!TargetIsWhole' /\ Store!Resolved' /\ Store!Uploading'
  BY <1>1 DEF Store!IInv, Store!TargetIsWhole, Store!Resolved, Store!Uploading, Store!outsideVars
<1>6. Store!Downloading'
  <2>1. /\ s9 = s2 /\ s2 \in [Selections -> Revisions \cup {None}]
        /\ ~s11 => s1 \subseteq s8 \cup Store!Range(s7)
                                      \cup {s \in Selections : s2[s] # None}
    BY <1>1 DEF Store!IInv, Store!Downloading, Store!TypeOK
  <2>2. \A s \in Selections : s2[s] # None \/ s = Store!Cur => s2'[s] # None
    BY <1>1, <1>2, <2>1
  <2>3. ~s11 => s1 \subseteq s8 \cup Store!Range(Tail(s7))
                                    \cup {s \in Selections : s2'[s] # None}
    BY <1>3, <2>1, <2>2
  <2> QED BY <1>1, <2>3 DEF Store!Downloading
<1> QED BY <1>4, <1>5, <1>6 DEF Store!IInv

(* An upload of what is listed.                                              *)
LEMMA StoreBeginUploadKeeps ==
  ASSUME Store!IInv, NEW chosen \in SUBSET Selections, Store!BeginUpload(chosen) PROVE Store!IInv'
<1>1. s7' \in Seq(Selections) /\ Store!Range(s7') = chosen /\ s7' # <<>>
  BY StoreSetToSeqTells DEF Store!BeginUpload
<1>2. Store!TypeOK'
  BY <1>1 DEF Store!IInv, Store!TypeOK, Store!BeginUpload, Store!storeVars, Store!outsideVars
<1>3. Store!TargetIsWhole' /\ Store!Resolved' /\ Store!Downloading'
  BY DEF Store!IInv, Store!TargetIsWhole, Store!Resolved, Store!Downloading, Store!BeginUpload,
     Store!storeVars, Store!outsideVars
<1>4. Store!Uploading'
  BY <1>1 DEF Store!Uploading, Store!BeginUpload
<1> QED BY <1>2, <1>3, <1>4 DEF Store!IInv

(* The artifact that is sent is of the revision of the listing.             *)
LEMMA StorePrepareKeeps == ASSUME Store!IInv, Store!Prepare PROVE Store!IInv'
<1>1. s6 = "prepare" /\ s6' = "present" /\ s10' = s9[Store!Cur]
      /\ UNCHANGED <<Store!storeVars, Store!outsideVars, s7, s8, s9, s11, s12>>
  BY DEF Store!Prepare
<1>2. s7 # <<>> /\ \A s \in Store!Range(s7) : s9[s] # None
  BY <1>1 DEF Store!IInv, Store!Uploading
<1>3. s9[Store!Cur] \in Revisions \cup {None}
  BY <1>1, <1>2, StoreWorkTells DEF Store!IInv, Store!TypeOK
<1>4. Store!TypeOK'
  BY <1>1, <1>3 DEF Store!IInv, Store!TypeOK, Store!storeVars, Store!outsideVars
<1>5. Store!TargetIsWhole' /\ Store!Resolved' /\ Store!Downloading'
  BY <1>1
    DEF Store!IInv, Store!TargetIsWhole, Store!Resolved, Store!Downloading, Store!outsideVars
<1>6. Store!Uploading'
  BY <1>1, <1>2 DEF Store!Uploading, Store!Cur
<1> QED BY <1>4, <1>5, <1>6 DEF Store!IInv

(* The artifact that is sent next is listed, as are those after it.          *)
LEMMA StoreSendsNext ==
  ASSUME Store!IInv, s6 \in {"present", "receive"},
         s7' = Tail(s7), s6' = (IF Len(s7) = 1 THEN "idle" ELSE "present"),
         s10' = IF Len(s7) = 1 THEN None ELSE s9[s7[2]],
         UNCHANGED <<Store!storeVars, s4, s8, s9, s11>>,
         s5' \in [Store!Artifacts -> Store!Content], Store!TargetIsWhole', s12' \in Store!Content
  PROVE  Store!IInv'
<1>1. s7 # <<>> /\ \A s \in Store!Range(s7) : s9[s] # None
  BY DEF Store!IInv, Store!Uploading
<1>2. /\ Tail(s7) \in Seq(Selections) /\ Store!Range(s7) = {Store!Cur} \cup Store!Range(Tail(s7))
      /\ Len(s7) # 1 => Tail(s7) # <<>> /\ Head(Tail(s7)) = s7[2]
  BY <1>1, StoreWorkTells
<1>3. Len(s7) # 1 => s7[2] \in Selections
  BY <1>2
<1>4. Store!TypeOK'
  BY <1>2, <1>3 DEF Store!IInv, Store!TypeOK, Store!storeVars
<1>5. Store!Resolved' /\ Store!Downloading'
  BY DEF Store!Resolved, Store!Downloading
<1>6. Store!Uploading'
  BY <1>1, <1>2 DEF Store!Uploading, Store!Cur
<1> QED BY <1>4, <1>5, <1>6 DEF Store!IInv

(* A target that has the artifact is not sent it again.                     *)
LEMMA StorePresentKeeps == ASSUME Store!IInv, Store!Present PROVE Store!IInv'
<1>1. s6 = "present" /\ UNCHANGED <<Store!storeVars, Store!outsideVars, s8, s9, s11>>
  BY DEF Store!Present
<1>2. s5 \in [Store!Artifacts -> Store!Content] /\ Store!TargetIsWhole /\ s12 \in Store!Content
  BY DEF Store!IInv, Store!TypeOK
<1>3. CASE s5[Store!Artifact] = "absent"
  <2>1. s6' = "receive" /\ s12' = s3[Store!Artifact] /\ UNCHANGED <<s7, s10>>
    BY <1>3 DEF Store!Present
  <2>2. s7 # <<>> /\ (\A s \in Store!Range(s7) : s9[s] # None) /\ s10 = s9[Store!Cur]
    BY <1>1 DEF Store!IInv, Store!Uploading
  <2>3. Store!Cur \in Selections /\ Store!Cur \in Store!Range(s7)
    BY <1>1, <2>2, StoreWorkTells
  <2>4. Store!Artifact \in Store!Artifacts
    BY <1>1, <2>2, <2>3, StoreWorkTells DEF Store!IInv, Store!TypeOK
  <2>5. s3[Store!Artifact] \in Store!Content
    BY <2>4 DEF Store!IInv, Store!TypeOK
  <2>6. Store!TypeOK'
    BY <1>1, <2>1, <2>5 DEF Store!IInv, Store!TypeOK, Store!storeVars, Store!outsideVars
  <2>7. Store!TargetIsWhole' /\ Store!Resolved' /\ Store!Downloading' /\ Store!Uploading'
    BY <1>1, <1>2, <2>1, <2>2
      DEF Store!TargetIsWhole, Store!Resolved, Store!Downloading, Store!Uploading, Store!Cur,
       Store!outsideVars
  <2> QED BY <2>6, <2>7 DEF Store!IInv
<1>4. CASE s5[Store!Artifact] # "absent"
  <2>1. Store!TargetIsWhole'
    BY <1>1, <1>2 DEF Store!TargetIsWhole, Store!outsideVars
  <2>2. /\ s7' = Tail(s7) /\ s6' = (IF Len(s7) = 1 THEN "idle" ELSE "present")
        /\ s10' = IF Len(s7) = 1 THEN None ELSE s9[s7[2]]
        /\ s12' = s12
    BY <1>4 DEF Store!Present
  <2> QED BY <1>1, <1>2, <2>1, <2>2, StoreSendsNext DEF Store!outsideVars
<1> QED BY <1>3, <1>4

(* Only checksums that agree make the directory an artifact.                 *)
LEMMA StoreReceiveKeeps == ASSUME Store!IInv, Store!Receive PROVE Store!IInv'
<1>1. s5' = [s5 EXCEPT ![Store!Artifact] = "good"]
  BY DEF Store!Receive
<1>2. s5' \in [Store!Artifacts -> Store!Content] /\ Store!TargetIsWhole'
  BY <1>1 DEF Store!IInv, Store!TypeOK, Store!TargetIsWhole, Store!Content
<1>3. s12' \in Store!Content
  BY DEF Store!Receive, Store!Content
<1> QED BY <1>2, <1>3, StoreSendsNext DEF Store!Receive

(* The drive, and the repositories.                                          *)
LEMMA StoreOutsideKeeps ==
  ASSUME Store!IInv,
         \/ \E a \in Store!Artifacts : Store!DriveDamages(a)
         \/ \E s \in Selections, r \in Revisions : Store!BranchMoves(s, r)
  PROVE  Store!IInv'
<1>1. UNCHANGED <<s1, s2, s5, Store!workVars>>
  BY DEF Store!DriveDamages, Store!BranchMoves, Store!storeVars, Store!outsideVars
<1>2. s4' \in [Catalog \ Pinned -> Revisions] /\ s3' \in [Store!Artifacts -> Store!Content]
  BY DEF Store!DriveDamages, Store!BranchMoves, Store!storeVars, Store!outsideVars, Store!IInv,
     Store!TypeOK, Store!Content
<1>3. \A a \in Store!Artifacts : s3[a] # "absent" => s3'[a] # "absent"
  BY DEF Store!DriveDamages, Store!BranchMoves, Store!storeVars, Store!IInv, Store!TypeOK
<1>4. Store!TypeOK'
  BY <1>1, <1>2 DEF Store!IInv, Store!TypeOK, Store!workVars
<1>5. Store!TargetIsWhole' /\ Store!Downloading' /\ Store!Uploading'
  BY <1>1
    DEF Store!IInv, Store!TargetIsWhole, Store!Downloading, Store!Uploading, Store!workVars,
     Store!Cur
<1>6. Store!Resolved'
  <2>1. s6 = "list" => Store!Artifact \in Store!Artifacts
    BY StoreWorkTells DEF Store!IInv, Store!Resolved
  <2> QED BY <1>1, <1>3, <2>1
            DEF Store!IInv, Store!Resolved, Store!workVars, Store!Artifact, Store!Cur
<1> QED BY <1>4, <1>5, <1>6 DEF Store!IInv

(* Every step keeps the invariant.                                           *)
LEMMA StoreNext == ASSUME Store!IInv, Store!Next PROVE Store!IInv'
<1>1. ASSUME NEW chosen \in SUBSET Selections,
             Store!SelectDownloads(chosen) \/ Store!BeginUpload(chosen)
      PROVE  Store!IInv'
  BY <1>1, StoreSelectDownloadsKeeps, StoreBeginUploadKeeps
<1>2. ASSUME NEW selected \in SUBSET Selections, NEW direct \in BOOLEAN,
             Store!BeginDownload(selected, direct)
      PROVE  Store!IInv'
  BY <1>2, StoreBeginDownloadKeeps
<1>3. CASE Store!FinishDownload \/ Store!Interrupted
  BY <1>3, StoreIdleKeeps
    DEF Store!FinishDownload, Store!Interrupted, Store!storeVars, Store!IInv, Store!TypeOK
<1> QED BY <1>1, <1>2, <1>3, StoreSelectionFailsKeeps, StoreResolveRevisionKeeps,
           StoreFetchesKeep, StoreWriteInstalledKeeps, StorePrepareKeeps, StorePresentKeeps,
           StoreReceiveKeeps, StoreOutsideKeeps DEF Store!Next

(* The queue loses only what is listed, and what becomes listed is there.    *)
LEMMA StoreStep ==
  ASSUME Store!IInv, Store!IInv', Store!Next
  PROVE  Store!ModelsAreWholeStep
<1>1. Store!TargetIsWhole'
  BY DEF Store!IInv
<1>2. ASSUME s6 # "idle", NEW s \in s1 \ s1' PROVE s2'[s] # None
  <2>1. Store!FinishDownload
    BY <1>2
      DEF Store!Next, Store!SelectDownloads, Store!BeginUpload, Store!BeginDownload,
       Store!SelectionFails, Store!ResolveRevision, Store!LoadValid, Store!Fetch,
       Store!PublishLocally, Store!WriteInstalled, Store!Prepare, Store!Present, Store!Receive,
       Store!Interrupted, Store!DriveDamages, Store!BranchMoves, Store!storeVars
  <2>2. /\ s6 = "resolve" /\ s7 = <<>> /\ s1' = (IF s11 THEN s1 ELSE s8)
        /\ s2' = s2
    BY <2>1 DEF Store!FinishDownload
  <2>3. Store!Range(s7) = {}
    BY <2>2 DEF Store!Range
  <2> QED BY <1>2, <2>2, <2>3 DEF Store!IInv, Store!Downloading
<1>3. ASSUME NEW s \in Selections, s2'[s] # s2[s]
      PROVE  s3[<<s, s2'[s]>>] # "absent"
  <2>1. Store!WriteInstalled
    BY <1>3
      DEF Store!Next, Store!SelectDownloads, Store!BeginUpload, Store!BeginDownload,
       Store!SelectionFails, Store!ResolveRevision, Store!LoadValid, Store!Fetch,
       Store!PublishLocally, Store!FinishDownload, Store!Prepare, Store!Present, Store!Receive,
       Store!Interrupted, Store!DriveDamages, Store!BranchMoves, Store!storeVars
  <2>2. /\ s6 = "list" /\ s2' = [s9 EXCEPT ![Store!Cur] = s10]
    BY <2>1 DEF Store!WriteInstalled
  <2>3. s9 = s2 /\ s2 \in [Selections -> Revisions \cup {None}]
        /\ s3[Store!Artifact] # "absent"
    BY <2>2 DEF Store!IInv, Store!Downloading, Store!Resolved, Store!TypeOK
  <2>4. s = Store!Cur /\ s2'[s] = s10
    BY <1>3, <2>2, <2>3
  <2> QED BY <2>3, <2>4 DEF Store!Artifact
<1> QED BY <1>1, <1>2, <1>3 DEF Store!ModelsAreWholeStep

-----------------------------------------------------------------------------
(* The OpenRouter catalog: s1 the vendor's list, s2 the three files, s3     *)
(* their copies, s4 the files before the run, s5 the run, s6 its answer, s7 *)
(* and s8 the bounds.                                                       *)

(* The tool's cardinality, and finite sets, are the library's.               *)
LEMMA SyncCounts ==
  \A S : /\ Sync!IsFiniteSet(S) <=> IsFiniteSet(S)
         /\ Sync!Cardinality(S) = Cardinality(S)
  BY DEF Sync!IsFiniteSet, IsFiniteSet, Sync!Cardinality, Cardinality

(* The three files, in writing order.                                        *)
LEMMA SyncFilesTell ==
  /\ \A k \in 1..3 : Sync!Files[k] \in Sync!Names
  /\ \A f \in Sync!Names : \E k \in 1..3 : f = Sync!Files[k]
  /\ \A j, k \in 1..3 : Sync!Files[j] = Sync!Files[k] => j = k
  /\ Sync!Files[1] = "policy" /\ Sync!Files[2] = "catalog" /\ Sync!Files[3] = "pricing"
<1>1. Sync!Files[1] = "policy" /\ Sync!Files[2] = "catalog" /\ Sync!Files[3] = "pricing"
  BY DEF Sync!Files
<1>2. \A k \in 1..3 : k = 1 \/ k = 2 \/ k = 3
  OBVIOUS
<1> QED BY <1>1, <1>2 DEF Sync!Names

(* The bounds are numbers, and the models are finitely many.                *)
LEMMA SyncBoundsTell ==
  /\ SyncRuns \in Nat /\ SyncEdits \in Nat /\ MaxPages \in Nat \ {0} /\ Sync!IsFiniteSet(Models)
  BY SyncAssumption DEF Sync!SyncAssumption

(* Two states of the files are one when they agree on each file.            *)
LEMMA SyncSameFiles ==
  ASSUME NEW g \in [Sync!Names -> Sync!Content \cup {None}],
         NEW h \in [Sync!Names -> Sync!Content \cup {None}],
         \A f \in Sync!Names : g[f] = h[f]
  PROVE  g = h
  OBVIOUS

(* No copies are copies of the three files.                                 *)
LEMMA SyncBlankTells == Sync!Blank \in [Sync!Names -> Sync!Content \cup {None}]
  BY DEF Sync!Blank

(* A list is a sequence of different models.                                 *)
LEMMA SyncListingTells ==
  ASSUME NEW l \in Sync!Listings
  PROVE  /\ Len(l) \in 0..Sync!Cardinality(Models) /\ DOMAIN l = 1..Len(l) /\ Len(l) \in Nat
         /\ \A k \in 1..Len(l) : l[k] \in Models
<1>0. Sync!Cardinality(Models) \in Nat
  BY SyncAssumption, FS_CardinalityType, SyncCounts DEF Sync!SyncAssumption
<1>1. PICK n \in 0..Sync!Cardinality(Models) : l \in [1..n -> Models]
  BY DEF Sync!Listings
<1>2. n \in Nat
  BY <1>0
<1>3. Len(l) = n
  BY <1>1, <1>2
<1> QED BY <1>1, <1>2, <1>3

(* A run, and the files.                                                     *)
LEMMA SyncRunTells ==
  ASSUME Sync!IInv
  PROVE  /\ s5 \in Sync!Run /\ s1 \in Sync!Listings
         /\ s2 \in [Sync!Names -> Sync!Content \cup {None}]
         /\ s4 \in [Sync!Names -> Sync!Content \cup {None}]
         /\ s3 \in [Sync!Names -> Sync!Content \cup {None}]
         /\ s6 \in {"none", "same", "written", "error", "interrupt", "rollback failed", "killed"}
         /\ s7 \in 0..SyncRuns /\ s8 \in 0..SyncEdits
  BY DEF Sync!IInv, Sync!TypeOK

(* A run that has ended, with what it generated.                             *)
LEMMA SyncIdleTells ==
  ASSUME NEW fresh \in [Sync!Names -> Sync!Content \cup {None}]
  PROVE  /\ [Sync!Idle EXCEPT !.fresh = fresh] \in Sync!Run
         /\ [Sync!Idle EXCEPT !.fresh = fresh].step = "idle"
         /\ [Sync!Idle EXCEPT !.fresh = fresh].fresh = fresh
         /\ [Sync!Idle EXCEPT !.fresh = fresh].failed = FALSE
<1>1. PICK x : x = [Sync!Idle EXCEPT !.fresh = fresh]
  OBVIOUS
<1>2. x = [step |-> "idle", mode |-> "check", chosen |-> {}, seen |-> {}, total |-> None,
           page |-> 1, fresh |-> fresh, at |-> 0, failed |-> FALSE, cause |-> "none"]
  BY <1>1 DEF Sync!Idle
<1>3. 1 \in 1..(MaxPages + 1) /\ 0 \in 0..3
  BY SyncBoundsTell
<1>4. x \in Sync!Run
  BY <1>2, <1>3 DEF Sync!Run
<1>5. x.step = "idle" /\ x.fresh = fresh /\ x.failed = FALSE
  BY <1>2
<1> QED BY <1>1, <1>4, <1>5

(* A run that ends leaves whole files, or those of before.                  *)
LEMMA SyncEndKeeps ==
  ASSUME Sync!IInv, NEW answer, Sync!End(answer), UNCHANGED Sync!outside,
         answer \in {"none", "same", "written", "error", "interrupt", "rollback failed",
         "killed"},
         s2' \in [Sync!Names -> Sync!Content \cup {None}],
         s4' \in [Sync!Names -> Sync!Content \cup {None}],
         s3' \in [Sync!Names -> Sync!Content \cup {None}],
         answer = "written" => s2' = s5.fresh,
         answer = "error" => s4' \in {Sync!Blank, s2'},
         answer = "interrupt" => s4' = Sync!Blank \/ s2' \in {s4', s5.fresh},
         answer = "rollback failed" =>
           \A f \in Sync!Names : s2'[f] = s4'[f] \/ s3'[f] = s4'[f],
         answer = "killed" => \A f \in Sync!Names : s2'[f] \in {s4'[f], s5.fresh[f]}
  PROVE  Sync!IInv'
<1>1. s5.fresh \in [Sync!Names -> Sync!Content \cup {None}]
  BY SyncRunTells DEF Sync!Run
<1>2. /\ s5' \in Sync!Run /\ s5'.step = "idle" /\ s5'.fresh = s5.fresh /\ s5'.failed = FALSE
      /\ s6' = answer
  BY <1>1, SyncIdleTells DEF Sync!End
<1>3. Sync!TypeOK'
  BY <1>2, SyncRunTells DEF Sync!TypeOK, Sync!outside
<1>4. Sync!Begun' /\ Sync!Untouched' /\ Sync!Replacing' /\ Sync!Undoing'
  BY <1>2 DEF Sync!At, Sync!Begun, Sync!Untouched, Sync!Replacing, Sync!Undoing
<1>5. Sync!WholeOrUntouched'
  BY <1>2 DEF Sync!WholeOrUntouched
<1> QED BY <1>3, <1>4, <1>5 DEF Sync!IInv

(* A run that has not begun to write.                                        *)
LEMMA SyncEarlyKeeps ==
  ASSUME Sync!IInv, s5' \in Sync!Run,
         s5'.step \in {"fetch", "choose", "generate", "write"}
         \/ (s5'.step = "clean" /\ s5'.mode = "check"),
         s5'.step = "write" => s5'.mode # "check",
         s5'.at = 0, s5'.failed = FALSE, s4' = Sync!Blank,
         s1' \in Sync!Listings,
         s2' \in [Sync!Names -> Sync!Content \cup {None}],
         s3' \in [Sync!Names -> Sync!Content \cup {None}],
         s6' \in {"none", "same", "written", "error", "interrupt", "rollback failed", "killed"},
         s7' \in 0..SyncRuns, s8' \in 0..SyncEdits
  PROVE  Sync!IInv'
<1>1. Sync!TypeOK'
  BY SyncBlankTells DEF Sync!TypeOK
<1>2. Sync!Begun' /\ Sync!Untouched' /\ Sync!Replacing' /\ Sync!Undoing' /\ Sync!WholeOrUntouched'
  BY DEF Sync!At, Sync!Begun, Sync!Untouched, Sync!Replacing, Sync!Undoing,
     Sync!WholeOrUntouched, Sync!Writing
<1> QED BY <1>1, <1>2 DEF Sync!IInv

(* Before the first run nothing has been touched.                           *)
LEMMA SyncInit == Sync!Init => Sync!IInv
<1> SUFFICES ASSUME Sync!Init PROVE Sync!IInv OBVIOUS
<1>1. PICK m \in SUBSET Models,
           earlier \in {Sync!Blank, Sync!Generated({}, "none"), Sync!Generated({}, "refreshed")} :
        s2 = [earlier EXCEPT !["policy"] = [models |-> m, metadata |-> "none"]]
  BY DEF Sync!Init
<1>2. [models |-> m, metadata |-> "none"] \in Sync!Content
      /\ Sync!Generated({}, "none") \in [Sync!Names -> Sync!Content \cup {None}]
      /\ Sync!Generated({}, "refreshed") \in [Sync!Names -> Sync!Content \cup {None}]
  BY DEF Sync!Content, Sync!Generated
<1>3. earlier \in [Sync!Names -> Sync!Content \cup {None}]
  BY <1>2, SyncBlankTells
<1>4. s2 \in [Sync!Names -> Sync!Content \cup {None}]
  BY <1>1, <1>2, <1>3
<1>5. 1 \in 1..(MaxPages + 1) /\ 0 \in 0..3
  BY SyncBoundsTell
<1>6. s5 \in Sync!Run /\ s5.step = "idle" /\ s5.failed = FALSE
  BY <1>5, SyncBlankTells DEF Sync!Init, Sync!Idle, Sync!Run
<1>7. Sync!TypeOK
  BY <1>4, <1>6, SyncBlankTells, SyncBoundsTell DEF Sync!Init, Sync!TypeOK
<1>8. s6 = "none"
  BY DEF Sync!Init
<1> QED BY <1>6, <1>7, <1>8
          DEF Sync!IInv, Sync!At, Sync!Begun, Sync!Untouched, Sync!Replacing, Sync!Undoing,
           Sync!WholeOrUntouched

(* A run begins with nothing of the catalog.                                *)
LEMMA SyncStartKeeps ==
  ASSUME Sync!IInv, NEW mode \in {"check", "write", "select"}, Sync!Start(mode) PROVE Sync!IInv'
<1>1. s2["policy"] \in Sync!Content
  BY SyncRunTells DEF Sync!Start, Sync!Names
<1>2. PICK models : models = s2["policy"].models
  OBVIOUS
<1>3. PICK x : x = [Sync!Idle EXCEPT !.step = "fetch", !.mode = mode, !.chosen = models]
  OBVIOUS
<1>4. x = [step |-> "fetch", mode |-> mode, chosen |-> models, seen |-> {}, total |-> None,
           page |-> 1, fresh |-> Sync!Blank, at |-> 0, failed |-> FALSE, cause |-> "none"]
  BY <1>3 DEF Sync!Idle
<1>5. models \in SUBSET Models /\ 1 \in 1..(MaxPages + 1) /\ 0 \in 0..3
  BY <1>1, <1>2, SyncBoundsTell DEF Sync!Content
<1>6. x \in Sync!Run /\ x.step = "fetch" /\ x.at = 0 /\ x.failed = FALSE
  BY <1>4, <1>5, SyncBlankTells DEF Sync!Run
<1>7. s7 \in 0..SyncRuns /\ SyncRuns \in Nat
  BY SyncRunTells, SyncBoundsTell
<1>8. /\ s5' = x /\ s6' = "none" /\ s3' = Sync!Blank /\ s4' = Sync!Blank
      /\ UNCHANGED <<s1, s2, s8>> /\ s7' \in 0..SyncRuns
  BY <1>2, <1>3, <1>7 DEF Sync!Start
<1> QED BY <1>6, <1>8, SyncRunTells, SyncBlankTells, SyncEarlyKeeps

(* What a run before its first write has at stake: nothing.                  *)
LEMMA SyncEarlyTells ==
  ASSUME Sync!IInv,
         s5.step \in {"fetch", "choose", "generate", "write"}
         \/ (Sync!At("clean") /\ ~Sync!Writing)
  PROVE  s4 = Sync!Blank /\ s5.at = 0 /\ s5.failed = FALSE
<1>1. s5.failed \in BOOLEAN
  BY SyncRunTells DEF Sync!Run
<1> QED BY <1>1 DEF Sync!IInv, Sync!Begun, Sync!Untouched, Sync!At

(* A page of the catalog changes no file.                                   *)
LEMMA SyncFetchPageKeeps == ASSUME Sync!IInv, Sync!FetchPage PROVE Sync!IInv'
<1>1. s5.step = "fetch" /\ UNCHANGED <<Sync!outside, s2, s3, s4>>
  BY DEF Sync!FetchPage, Sync!At, Sync!Keep
<1>2. s4 = Sync!Blank /\ s5.at = 0 /\ s5.failed = FALSE
  BY <1>1, SyncEarlyTells
<1>3. PICK seen : seen = s5.seen \cup {s1[k] : k \in {s5.page} \cap 1..Len(s1)}
  OBVIOUS
<1>4. PICK to : to = IF s5.page < Len(s1) THEN "fetch"
                     ELSE IF s5.mode = "select" THEN "choose" ELSE "generate"
  OBVIOUS
<1>5. CASE Sync!End("error")
  BY <1>1, <1>2, <1>5, SyncRunTells, SyncEndKeeps
<1>6. CASE /\ s5.page <= MaxPages /\ s6' = s6
           /\ s5' = [s5 EXCEPT !.seen = seen, !.total = Len(s1), !.page = @ + 1, !.step = to]
  <2>1. seen \in SUBSET Models
    <3>1. \A k \in 1..Len(s1) : s1[k] \in Models
      BY SyncRunTells, SyncListingTells
    <3>2. s5.seen \in SUBSET Models
      BY SyncRunTells DEF Sync!Run
    <3> QED BY <1>3, <3>1, <3>2
  <2>2. Len(s1) \in 0..Sync!Cardinality(Models) /\ s5.page + 1 \in 1..(MaxPages + 1)
    <3>1. Len(s1) \in 0..Sync!Cardinality(Models)
      BY SyncRunTells, SyncListingTells
    <3>2. s5.page \in 1..(MaxPages + 1)
      BY SyncRunTells DEF Sync!Run
    <3> QED BY <1>6, <3>1, <3>2, SyncBoundsTell
  <2>3. to \in {"fetch", "choose", "generate"}
    BY <1>4
  <2>4. s5' \in Sync!Run /\ s5'.step = to /\ s5'.at = 0 /\ s5'.failed = FALSE
    BY <1>2, <1>6, <2>1, <2>2, <2>3, SyncRunTells DEF Sync!Run
  <2> QED BY <1>1, <1>2, <1>6, <2>3, <2>4, SyncRunTells, SyncEarlyKeeps DEF Sync!outside
<1>7. s5.page \in Nat /\ Len(s1) \in Nat
  <2>1. s5.page \in 1..(MaxPages + 1)
    BY SyncRunTells DEF Sync!Run
  <2>2. Len(s1) \in Nat
    BY SyncRunTells, SyncListingTells
  <2> QED BY <2>1, <2>2, SyncBoundsTell
<1>8. (s5.page >= Len(s1)) <=> ~(s5.page < Len(s1))
  BY <1>7
<1>9. \/ Sync!End("error")
      \/ /\ s5.page <= MaxPages /\ s6' = s6
         /\ s5' = [s5 EXCEPT !.seen = seen, !.total = Len(s1), !.page = @ + 1,
                       !.step = IF ~(s5.page >= Len(s1)) THEN "fetch"
                                ELSE IF s5.mode = "select" THEN "choose" ELSE "generate"]
  BY <1>3 DEF Sync!FetchPage
<1> QED BY <1>4, <1>5, <1>6, <1>8, <1>9

(* The models that the operator chooses.                                    *)
LEMMA SyncChooseKeeps ==
  ASSUME Sync!IInv, NEW models \in SUBSET Models, Sync!Choose(models)
  PROVE  Sync!IInv'
<1>1. s5.step = "choose" /\ UNCHANGED <<Sync!outside, s2, s3, s4, s6>>
      /\ s5' = [s5 EXCEPT !.chosen = models, !.step = "generate"]
  BY DEF Sync!Choose, Sync!At, Sync!Keep
<1>2. s4 = Sync!Blank /\ s5.at = 0 /\ s5.failed = FALSE
  BY <1>1, SyncEarlyTells
<1>3. s5' \in Sync!Run /\ s5'.step = "generate" /\ s5'.at = 0 /\ s5'.failed = FALSE
  BY <1>1, <1>2, SyncRunTells DEF Sync!Run
<1> QED BY <1>1, <1>2, <1>3, SyncRunTells, SyncEarlyKeeps DEF Sync!outside

(* The three files are generated in memory.                                 *)
LEMMA SyncGenerateKeeps ==
  ASSUME Sync!IInv, NEW refresh \in BOOLEAN, Sync!Generate(refresh)
  PROVE  Sync!IInv'
<1>1. PICK to, fresh :
        /\ to = IF s5.mode = "check" THEN "clean" ELSE "write"
        /\ fresh = Sync!Generated(s5.chosen, IF refresh THEN "refreshed" ELSE Sync!KeptMetadata)
  OBVIOUS
<1>2. s5.step = "generate" /\ UNCHANGED <<Sync!outside, s2, s3, s4, s6>>
      /\ s5' = [s5 EXCEPT !.step = to, !.fresh = fresh]
  BY <1>1 DEF Sync!Generate, Sync!At, Sync!Keep
<1>3. s4 = Sync!Blank /\ s5.at = 0 /\ s5.failed = FALSE
  BY <1>2, SyncEarlyTells
<1>4. Sync!KeptMetadata \in {"none", "refreshed"}
  BY SyncRunTells DEF Sync!KeptMetadata, Sync!Content, Sync!Names
<1>5. fresh \in [Sync!Names -> Sync!Content \cup {None}]
  BY <1>1, <1>4, SyncRunTells DEF Sync!Generated, Sync!Content, Sync!Run
<1>6. s5' \in Sync!Run /\ s5'.step = to /\ s5'.at = 0 /\ s5'.failed = FALSE /\ s5'.mode = s5.mode
      /\ to \in {"clean", "write"} /\ (to = "clean" <=> s5.mode = "check")
  <2>1. s5 \in Sync!Run /\ to \in {"clean", "write"} /\ (to = "clean" <=> s5.mode = "check")
    BY <1>1, SyncRunTells
  <2> QED BY ONLY <1>2, <1>3, <1>5, <2>1 DEF Sync!Run
<1> QED BY <1>2, <1>3, <1>6, SyncRunTells, SyncEarlyKeeps DEF Sync!outside

(* A failure before the first write, and a comparison, leave all as it is.   *)
LEMMA SyncGiveUpKeeps == ASSUME Sync!IInv, Sync!GiveUp \/ Sync!Compare PROVE Sync!IInv'
<1>1. UNCHANGED <<Sync!outside, s2, s3, s4>>
  BY DEF Sync!GiveUp, Sync!Compare, Sync!Keep
<1>2. s5.step \in {"fetch", "choose", "generate"} \/ (Sync!At("clean") /\ ~Sync!Writing)
  BY DEF Sync!GiveUp, Sync!Compare, Sync!At, Sync!Writing
<1>3. s4 = Sync!Blank
  BY <1>2, SyncEarlyTells
<1>4. Sync!End("error") \/ Sync!End("interrupt") \/ Sync!End("same")
  BY DEF Sync!GiveUp, Sync!Compare
<1> QED BY <1>1, <1>3, <1>4, SyncRunTells, SyncEndKeeps

(* A run that is writing, or putting back.                                   *)
LEMMA SyncWorkKeeps ==
  ASSUME Sync!IInv, s5' \in Sync!Run,
         s5'.step \in {"next", "replace", "undo", "clean"}, s5'.mode # "check",
         s5'.failed => s5'.step = "undo", UNCHANGED <<Sync!outside, s6>>,
         s2' \in [Sync!Names -> Sync!Content \cup {None}],
         s4' \in [Sync!Names -> Sync!Content \cup {None}],
         s3' \in [Sync!Names -> Sync!Content \cup {None}], Sync!Replacing', Sync!Undoing'
  PROVE  Sync!IInv'
<1>1. Sync!TypeOK'
  BY SyncRunTells DEF Sync!TypeOK, Sync!outside
<1>2. Sync!Begun' /\ Sync!Untouched' /\ Sync!WholeOrUntouched'
  BY DEF Sync!At, Sync!Begun, Sync!Untouched, Sync!WholeOrUntouched, Sync!Writing
<1> QED BY <1>1, <1>2 DEF Sync!IInv

(* A run that turns to undoing has replaced what it counts.                 *)
LEMMA SyncUndoTells ==
  ASSUME Sync!IInv, NEW cause \in {"error", "interrupt"}, Sync!Undo(cause)
  PROVE  /\ s5' \in Sync!Run /\ s5'.step = "undo" /\ s5'.at = s5.at /\ s5'.fresh = s5.fresh
         /\ s5'.failed = s5.failed /\ s5'.mode = s5.mode /\ s6' = s6
  BY SyncRunTells DEF Sync!Undo, Sync!Run

(* Three copies are made before anything is replaced.                       *)
LEMMA SyncStageAndCopyKeeps == ASSUME Sync!IInv, Sync!StageAndCopy PROVE Sync!IInv'
<1>1. s5.step = "write" /\ s4' = s2 /\ UNCHANGED <<Sync!outside, s2>>
  BY DEF Sync!StageAndCopy, Sync!At
<1>2. s5.at = 0 /\ s5.failed = FALSE /\ s5.mode # "check"
  BY <1>1, SyncEarlyTells DEF Sync!IInv, Sync!Begun, Sync!Writing
<1>3. CASE s3' = s2 /\ s5' = [s5 EXCEPT !.step = "next"] /\ UNCHANGED s6
  <2>1. s5' \in Sync!Run /\ s5'.step = "next" /\ s5'.at = 0 /\ s5'.failed = FALSE
        /\ s5'.mode # "check"
    BY <1>2, <1>3, SyncRunTells DEF Sync!Run
  <2>2. Sync!Replacing'
    BY <1>1, <1>3, <2>1, SyncFilesTell
      DEF Sync!Replacing, Sync!At, Sync!Copied, Sync!Old, Sync!New
  <2>3. Sync!Undoing'
    BY <2>1 DEF Sync!Undoing, Sync!At
  <2> QED BY <1>1, <1>3, <2>1, <2>2, <2>3, SyncRunTells, SyncWorkKeeps
<1>4. ASSUME NEW cause \in {"error", "interrupt"}, s3' = Sync!Blank, Sync!Undo(cause)
      PROVE  Sync!IInv'
  <2>1. /\ s5' \in Sync!Run /\ s5'.step = "undo" /\ s5'.at = 0 /\ s5'.failed = FALSE /\ s6' = s6
        /\ s5'.mode # "check"
    BY <1>2, <1>4, SyncUndoTells
  <2>2. Sync!Replacing'
    BY <2>1 DEF Sync!Replacing, Sync!At
  <2>3. Sync!Undoing'
    BY <1>1, <2>1 DEF Sync!Undoing, Sync!At, Sync!Old
  <2> QED BY <1>1, <1>4, <2>1, <2>2, <2>3, SyncRunTells, SyncBlankTells, SyncWorkKeeps
<1> QED BY <1>3, <1>4 DEF Sync!StageAndCopy

(* The next file is counted before it is replaced.                          *)
LEMMA SyncNoteNextKeeps == ASSUME Sync!IInv, Sync!NoteNext PROVE Sync!IInv'
<1>1. s5.step = "next" /\ UNCHANGED <<Sync!outside, s2, s3, s4, s6>> /\ s5.failed = FALSE
      /\ s5.mode # "check" /\ s5 \in Sync!Run
  BY SyncRunTells DEF Sync!NoteNext, Sync!At, Sync!IInv, Sync!Begun, Sync!Run, Sync!Writing
<1>2. /\ \A f \in Sync!Names : Sync!Copied(f)
      /\ \A k \in 1..3 : IF k <= s5.at THEN Sync!New(Sync!Files[k]) ELSE Sync!Old(Sync!Files[k])
  BY <1>1 DEF Sync!IInv, Sync!Replacing, Sync!At
<1>3. s5.at \in 0..3
  BY <1>1 DEF Sync!Run
<1>4. CASE s5.at < 3
  <2>1. PICK n : n = s5.at + 1
    OBVIOUS
  <2>2. s5' = [s5 EXCEPT !.at = n, !.step = "replace"] /\ n \in 0..3
    BY <1>3, <1>4, <2>1 DEF Sync!NoteNext
  <2>3. s5' \in Sync!Run /\ s5'.step = "replace" /\ s5'.at = n /\ s5'.fresh = s5.fresh
        /\ s5'.failed = FALSE /\ s5'.mode # "check"
    BY <1>1, <2>2 DEF Sync!Run
  <2>4. Sync!Replacing' /\ Sync!Undoing'
    BY <1>1, <1>2, <1>3, <2>1, <2>3
      DEF Sync!Replacing, Sync!Undoing, Sync!At, Sync!Copied, Sync!New, Sync!Old
  <2> QED BY <1>1, <2>3, <2>4, SyncRunTells, SyncWorkKeeps
<1>5. CASE ~(s5.at < 3)
  <2>1. s5.at = 3 /\ s5' = [s5 EXCEPT !.step = "clean"]
    BY <1>3, <1>5 DEF Sync!NoteNext
  <2>2. s5' \in Sync!Run /\ s5'.step = "clean" /\ s5'.fresh = s5.fresh
        /\ s5'.failed = FALSE /\ s5'.mode # "check"
    BY <1>1, <2>1 DEF Sync!Run
  <2>3. \A k \in 1..3 : Sync!New(Sync!Files[k])
    BY <1>2, <2>1
  <2>4. Sync!Replacing' /\ Sync!Undoing'
    BY <1>1, <2>2, <2>3, SyncFilesTell DEF Sync!Replacing, Sync!Undoing, Sync!At, Sync!New
  <2> QED BY <1>1, <2>2, <2>4, SyncRunTells, SyncWorkKeeps
<1> QED BY <1>4, <1>5

(* One file is replaced, in one step.                                       *)
LEMMA SyncReplaceKeeps == ASSUME Sync!IInv, Sync!Replace PROVE Sync!IInv'
<1>1. s5.step = "replace" /\ UNCHANGED <<Sync!outside, s3, s4, s6>> /\ s5.failed = FALSE
      /\ s5.mode # "check" /\ s5 \in Sync!Run /\ s2' = Sync!Replaced
      /\ s5' = [s5 EXCEPT !.step = "next"]
  BY SyncRunTells DEF Sync!Replace, Sync!At, Sync!IInv, Sync!Begun, Sync!Run, Sync!Writing
<1>2. /\ \A f \in Sync!Names : Sync!Copied(f)
      /\ s5.at > 0
      /\ \A k \in 1..3 : IF k < s5.at THEN Sync!New(Sync!Files[k]) ELSE Sync!Old(Sync!Files[k])
  BY <1>1 DEF Sync!IInv, Sync!Replacing, Sync!At
<1>3. s5.at \in 1..3 /\ s5.fresh \in [Sync!Names -> Sync!Content \cup {None}]
  BY <1>1, <1>2 DEF Sync!Run
<1>4. s5' \in Sync!Run /\ s5'.step = "next" /\ s5'.at = s5.at /\ s5'.fresh = s5.fresh
      /\ s5'.failed = FALSE /\ s5'.mode # "check"
  BY <1>1 DEF Sync!Run
<1>5. PICK f : f = Sync!Files[s5.at]
  OBVIOUS
<1>6. f \in Sync!Names /\ s2' = [s2 EXCEPT ![f] = s5.fresh[f]]
  BY <1>1, <1>3, <1>5, SyncFilesTell DEF Sync!Replaced
<1>7. /\ s2' \in [Sync!Names -> Sync!Content \cup {None}] /\ s2'[f] = s5.fresh[f]
      /\ \A g \in Sync!Names \ {f} : s2'[g] = s2[g]
  BY <1>3, <1>6, SyncRunTells
<1>8. \A k \in 1..3 : IF k <= s5.at THEN Sync!New(Sync!Files[k])' ELSE Sync!Old(Sync!Files[k])'
  <2> SUFFICES ASSUME NEW k \in 1..3 PROVE IF k <= s5.at THEN Sync!New(Sync!Files[k])'
                        ELSE Sync!Old(Sync!Files[k])'
    OBVIOUS
  <2>1. Sync!Files[k] \in Sync!Names /\ Sync!Files[k]' = Sync!Files[k]
        /\ (Sync!Files[k] = f => k = s5.at)
    BY <1>3, <1>5, SyncFilesTell DEF Sync!Files
  <2>2. CASE k = s5.at
    BY <1>3, <1>4, <1>5, <1>7, <2>1, <2>2 DEF Sync!New
  <2>3. CASE k # s5.at
    <3>1. s2'[Sync!Files[k]] = s2[Sync!Files[k]]
      BY <1>7, <2>1, <2>3
    <3>2. IF k < s5.at THEN Sync!New(Sync!Files[k]) ELSE Sync!Old(Sync!Files[k])
      BY <1>2
    <3> QED BY <1>1, <1>3, <1>4, <2>1, <2>3, <3>1, <3>2 DEF Sync!New, Sync!Old
  <2> QED BY <2>2, <2>3
<1>9. Sync!Replacing'
  <2>1. \A g \in Sync!Names : Sync!Copied(g)'
    BY <1>1, <1>2 DEF Sync!Copied
  <2> QED BY <1>4, <1>8, <2>1 DEF Sync!Replacing, Sync!At
<1>10. Sync!Undoing'
  BY <1>4 DEF Sync!Undoing, Sync!At
<1> QED BY <1>1, <1>4, <1>7, <1>9, <1>10, SyncRunTells, SyncWorkKeeps

(* Whatever fails, of what was replaced there is a copy.                     *)
LEMMA SyncFailKeeps == ASSUME Sync!IInv, Sync!Fail PROVE Sync!IInv'
<1>1. PICK cause \in {"error", "interrupt"} : Sync!Undo(cause)
  BY DEF Sync!Fail
<1>2. s5.step \in {"next", "replace"} /\ UNCHANGED <<Sync!outside, s2, s3, s4>>
      /\ s5.failed = FALSE /\ s5.mode # "check" /\ s5 \in Sync!Run
  BY SyncRunTells DEF Sync!Fail, Sync!At, Sync!IInv, Sync!Begun, Sync!Run, Sync!Writing
<1>3. /\ s5' \in Sync!Run /\ s5'.step = "undo" /\ s5'.at = s5.at /\ s5'.fresh = s5.fresh
      /\ s5'.failed = s5.failed /\ s5'.mode = s5.mode /\ s6' = s6
  BY <1>1, SyncUndoTells
<1>4. \A f \in Sync!Names : Sync!Copied(f)
  BY <1>2 DEF Sync!IInv, Sync!Replacing, Sync!At
<1>5. s5.at \in 0..3
  BY <1>2 DEF Sync!Run
<1>6. \A k \in 1..3 : IF k <= s5.at THEN Sync!Old(Sync!Files[k])
      \/ Sync!New(Sync!Files[k]) ELSE Sync!Old(Sync!Files[k])
  BY <1>2, <1>5 DEF Sync!IInv, Sync!Replacing, Sync!At
<1>7. Sync!Undoing'
  <2> SUFFICES ASSUME NEW k \in 1..3
               PROVE  IF k <= s5.at THEN Sync!Copied(Sync!Files[k])'
                      /\ (Sync!Old(Sync!Files[k])' \/ Sync!New(Sync!Files[k])')
                      ELSE Sync!Old(Sync!Files[k])'
    BY <1>3 DEF Sync!Undoing
  <2>1. Sync!Copied(Sync!Files[k])
        /\ (IF k <= s5.at THEN Sync!Old(Sync!Files[k])
           \/ Sync!New(Sync!Files[k]) ELSE Sync!Old(Sync!Files[k]))
    BY <1>4, <1>6, SyncFilesTell
  <2> QED BY <1>2, <1>3, <2>1 DEF Sync!Copied, Sync!Old, Sync!New, Sync!Files
<1>8. Sync!Replacing'
  BY <1>3 DEF Sync!Replacing, Sync!At
<1> QED BY <1>2, <1>3, <1>7, <1>8, SyncRunTells, SyncWorkKeeps

(* A file is what it was, or its copy stays where it is.                     *)
LEMMA SyncPutBackKeeps == ASSUME Sync!IInv, Sync!PutBack PROVE Sync!IInv'
<1>1. s5.step = "undo" /\ s5.at > 0 /\ UNCHANGED <<Sync!outside, s4, s6>>
      /\ s5.mode # "check" /\ s5 \in Sync!Run
  BY SyncRunTells DEF Sync!PutBack, Sync!At, Sync!IInv, Sync!Begun, Sync!Writing
<1>2. s5.at \in 1..3
  BY <1>1 DEF Sync!Run
<1>3. PICK f : f = Sync!Files[s5.at]
  OBVIOUS
<1>4. f \in Sync!Names /\ \A k \in 1..3 : Sync!Files[k] \in Sync!Names
        /\ (Sync!Files[k] = f => k = s5.at)
  BY <1>2, <1>3, SyncFilesTell
<1>5. \A k \in 1..3 :
        IF k <= s5.at THEN Sync!Copied(Sync!Files[k])
        /\ (Sync!Old(Sync!Files[k]) \/ Sync!New(Sync!Files[k]))
        ELSE Sync!Old(Sync!Files[k])
        \/ (s5.failed /\ Sync!Copied(Sync!Files[k]) /\ Sync!New(Sync!Files[k]))
  BY <1>1 DEF Sync!IInv, Sync!Undoing, Sync!At
<1>6. PICK n : n = s5.at - 1
  OBVIOUS
<1>7. n \in 0..3 /\ \A k \in 1..3 : k <= n <=> k <= s5.at /\ k # s5.at
  BY <1>2, <1>6
<1>8. CASE /\ s2' = [s2 EXCEPT ![f] = s3[f]] /\ s3' = [s3 EXCEPT ![f] = None]
           /\ s5' = [s5 EXCEPT !.at = @ - 1]
  <2>1. s5' = [s5 EXCEPT !.at = n]
    BY <1>6, <1>8
  <2>2. s5' \in Sync!Run /\ s5'.step = "undo" /\ s5'.at = n /\ s5'.fresh = s5.fresh
        /\ s5'.failed = s5.failed /\ s5'.mode # "check"
    BY <1>1, <1>7, <2>1 DEF Sync!Run
  <2>3. /\ s2' \in [Sync!Names -> Sync!Content \cup {None}]
        /\ s3' \in [Sync!Names -> Sync!Content \cup {None}]
        /\ s2'[f] = s3[f]
        /\ \A g \in Sync!Names \ {f} : s2'[g] = s2[g] /\ s3'[g] = s3[g]
    BY <1>4, <1>8, SyncRunTells
  <2>4. Sync!Undoing'
    <3> SUFFICES ASSUME NEW k \in 1..3
                 PROVE  IF k <= n THEN Sync!Copied(Sync!Files[k])'
                        /\ (Sync!Old(Sync!Files[k])' \/ Sync!New(Sync!Files[k])')
                        ELSE \/ Sync!Old(Sync!Files[k])'
                             \/ (s5.failed /\ Sync!Copied(Sync!Files[k])'
                                /\ Sync!New(Sync!Files[k])')
      BY <2>2 DEF Sync!Undoing
    <3>1. CASE k = s5.at
      <4>1. Sync!Copied(f) /\ Sync!Files[k] = f
        BY <1>2, <1>3, <1>5, <3>1
      <4> QED BY <1>1, <1>7, <2>3, <3>1, <4>1 DEF Sync!Copied, Sync!Old, Sync!Files
    <3>2. CASE k # s5.at
      <4>1. s2'[Sync!Files[k]] = s2[Sync!Files[k]] /\ s3'[Sync!Files[k]] = s3[Sync!Files[k]]
        BY <1>4, <2>3, <3>2
      <4> QED BY <1>1, <1>5, <1>7, <2>2, <3>2, <4>1
                DEF Sync!Copied, Sync!Old, Sync!New, Sync!Files
    <3> QED BY <3>1, <3>2
  <2>5. Sync!Replacing'
    BY <2>2 DEF Sync!Replacing, Sync!At
  <2>6. s5.failed => s5'.step = "undo"
    BY <2>2
  <2> QED BY <1>1, <2>2, <2>3, <2>4, <2>5, SyncRunTells, SyncWorkKeeps
<1>9. CASE s5' = [s5 EXCEPT !.at = @ - 1, !.failed = TRUE] /\ UNCHANGED <<s2, s3>>
  <2>1. s5' = [s5 EXCEPT !.at = n, !.failed = TRUE]
    BY <1>6, <1>9
  <2>2. s5' \in Sync!Run /\ s5'.step = "undo" /\ s5'.at = n /\ s5'.fresh = s5.fresh
        /\ s5'.failed = TRUE /\ s5'.mode # "check"
    BY <1>1, <1>7, <2>1 DEF Sync!Run
  <2>3. Sync!Undoing'
    <3> SUFFICES ASSUME NEW k \in 1..3
                 PROVE  IF k <= n THEN Sync!Copied(Sync!Files[k])'
                        /\ (Sync!Old(Sync!Files[k])' \/ Sync!New(Sync!Files[k])')
                        ELSE Sync!Old(Sync!Files[k])'
                        \/ (Sync!Copied(Sync!Files[k])' /\ Sync!New(Sync!Files[k])')
      BY <2>2 DEF Sync!Undoing
    <3> QED BY <1>1, <1>5, <1>7, <1>9, <2>2 DEF Sync!Copied, Sync!Old, Sync!New, Sync!Files
  <2>4. Sync!Replacing'
    BY <2>2 DEF Sync!Replacing, Sync!At
  <2> QED BY <1>1, <1>9, <2>2, <2>3, <2>4, SyncRunTells, SyncWorkKeeps
<1> QED BY <1>3, <1>8, <1>9 DEF Sync!PutBack

(* All are undone: what remains is what was before.                         *)
LEMMA SyncUndoneKeeps == ASSUME Sync!IInv, Sync!Undone PROVE Sync!IInv'
<1>1. s5.step = "undo" /\ s5.at = 0 /\ UNCHANGED <<Sync!outside, s2, s4>>
  BY DEF Sync!Undone, Sync!At
<1>2. \A k \in 1..3 : Sync!Old(Sync!Files[k]) \/ (s5.failed /\ Sync!Copied(Sync!Files[k]))
  BY <1>1 DEF Sync!IInv, Sync!Undoing, Sync!At
<1>3. \A f \in Sync!Names : Sync!Old(f) \/ (s5.failed /\ Sync!Copied(f))
  BY <1>2, SyncFilesTell
<1>4. CASE s5.failed
  <2>1. Sync!End("rollback failed") /\ UNCHANGED s3
    BY <1>4 DEF Sync!Undone
  <2> QED BY <1>1, <1>3, <2>1, SyncRunTells, SyncEndKeeps DEF Sync!Old, Sync!Copied
<1>5. CASE ~s5.failed
  <2>1. Sync!End(s5.cause) /\ s3' = Sync!Blank
    BY <1>5 DEF Sync!Undone
  <2>2. s2 = s4
    BY <1>3, <1>5, SyncRunTells, SyncSameFiles DEF Sync!Old
  <2>3. s5.cause \in {"none", "error", "interrupt"}
    BY SyncRunTells DEF Sync!Run
  <2> QED BY <1>1, <2>1, <2>2, <2>3, SyncRunTells, SyncBlankTells, SyncEndKeeps
<1> QED BY <1>4, <1>5

(* The copies go, whatever came of the run.                                 *)
LEMMA SyncCleanKeeps == ASSUME Sync!IInv, Sync!Clean PROVE Sync!IInv'
<1>1. Sync!At("clean") /\ Sync!Writing /\ UNCHANGED <<Sync!outside, s2, s4>>
  BY DEF Sync!Clean
<1>2. s5.fresh \in [Sync!Names -> Sync!Content \cup {None}]
      /\ \A f \in Sync!Names : s2[f] = s5.fresh[f]
  BY <1>1, SyncRunTells DEF Sync!Run, Sync!IInv, Sync!Replacing, Sync!New
<1>3. s2 = s5.fresh
  BY <1>2, SyncRunTells, SyncSameFiles
<1> QED BY <1>1, <1>3, SyncRunTells, SyncBlankTells, SyncEndKeeps DEF Sync!Clean

(* A run that is killed leaves each file whole, as it was or new.            *)
LEMMA SyncKillKeeps == ASSUME Sync!IInv, Sync!Kill PROVE Sync!IInv'
<1>1. s5.step \in {"write", "next", "replace", "undo", "clean"} /\ Sync!Writing
      /\ Sync!End("killed") /\ UNCHANGED <<Sync!outside, s2, s3>>
      /\ s4' = (IF s5.step = "write" THEN s2 ELSE s4)
  BY DEF Sync!Kill, Sync!At
<1>2. CASE s5.step = "write"
  BY <1>1, <1>2, SyncRunTells, SyncEndKeeps
<1>3. CASE s5.step # "write"
  <2>1. \A k \in 1..3 : Sync!Old(Sync!Files[k]) \/ Sync!New(Sync!Files[k])
    BY <1>1, <1>3, SyncFilesTell DEF Sync!IInv, Sync!Replacing, Sync!Undoing, Sync!At
  <2>2. \A f \in Sync!Names : Sync!Old(f) \/ Sync!New(f)
    BY <2>1, SyncFilesTell
  <2> QED BY <1>1, <1>3, <2>2, SyncRunTells, SyncEndKeeps DEF Sync!Old, Sync!New
<1> QED BY <1>2, <1>3

(* The vendor's list may change at any time, the files until the run writes. *)
LEMMA SyncVendorEditKeeps ==
  ASSUME Sync!IInv, NEW l \in Sync!Listings, Sync!VendorEdit(l)
  PROVE  Sync!IInv'
<1>0. s8 \in 0..SyncEdits /\ SyncEdits \in Nat
  BY SyncRunTells, SyncBoundsTell
<1>1. s1' = l /\ UNCHANGED <<s2, s3, s4, s5, s6, s7>> /\ s8' \in 0..SyncEdits
  BY <1>0 DEF Sync!VendorEdit
<1>2. Sync!TypeOK'
  BY <1>1, SyncRunTells DEF Sync!TypeOK
<1>3. Sync!Begun' /\ Sync!Untouched' /\ Sync!Replacing' /\ Sync!Undoing' /\ Sync!WholeOrUntouched'
  BY <1>1
    DEF Sync!IInv, Sync!Begun, Sync!Untouched, Sync!Replacing, Sync!Undoing,
     Sync!WholeOrUntouched, Sync!At, Sync!Old, Sync!New, Sync!Copied, Sync!Writing
<1> QED BY <1>2, <1>3 DEF Sync!IInv

(* Somebody else edits a file while no run is at work.                      *)
LEMMA SyncFileEditKeeps ==
  ASSUME Sync!IInv, NEW f \in Sync!Names, NEW c \in Sync!Content, Sync!FileEdit(f, c)
  PROVE  Sync!IInv'
<1>0. s8 \in 0..SyncEdits /\ SyncEdits \in Nat /\ s2 \in [Sync!Names -> Sync!Content \cup {None}]
  BY SyncRunTells, SyncBoundsTell
<1>1. /\ s5.step \in {"idle", "fetch", "choose"} /\ s6' = "none" /\ s3' = Sync!Blank
      /\ s4' = Sync!Blank /\ UNCHANGED <<s1, s5, s7>> /\ s8' \in 0..SyncEdits
      /\ s2' \in [Sync!Names -> Sync!Content \cup {None}]
  BY <1>0 DEF Sync!FileEdit
<1>2. Sync!TypeOK'
  BY <1>1, SyncRunTells, SyncBlankTells DEF Sync!TypeOK
<1>3. Sync!Begun' /\ Sync!Untouched' /\ Sync!Replacing' /\ Sync!Undoing' /\ Sync!WholeOrUntouched'
  BY <1>1
    DEF Sync!IInv, Sync!Begun, Sync!Untouched, Sync!Replacing, Sync!Undoing,
     Sync!WholeOrUntouched, Sync!At, Sync!Writing
<1> QED BY <1>2, <1>3 DEF Sync!IInv

(* Every step keeps the invariant: putting back does not break off.         *)
LEMMA SyncNext == ASSUME Sync!IInv, Sync!Next PROVE Sync!IInv'
<1>1. ASSUME NEW mode \in {"check", "write", "select"}, Sync!Start(mode) PROVE Sync!IInv'
  BY <1>1, SyncStartKeeps
<1>2. ASSUME NEW models \in SUBSET Models, Sync!Choose(models) PROVE Sync!IInv'
  BY <1>2, SyncChooseKeeps
<1>3. ASSUME NEW refresh \in BOOLEAN, Sync!Generate(refresh) PROVE Sync!IInv'
  BY <1>3, SyncGenerateKeeps
<1>4. ASSUME NEW l \in Sync!Listings, Sync!VendorEdit(l) PROVE Sync!IInv'
  BY <1>4, SyncVendorEditKeeps
<1>5. ASSUME NEW f \in Sync!Names, NEW c \in Sync!Content, Sync!FileEdit(f, c) PROVE Sync!IInv'
  BY <1>5, SyncFileEditKeeps
<1>6. ~Sync!UndoInterrupted
  BY DEF Sync!UndoInterrupted
<1> QED BY <1>1, <1>2, <1>3, <1>4, <1>5, <1>6, SyncFetchPageKeeps, SyncGiveUpKeeps,
           SyncStageAndCopyKeeps, SyncNoteNextKeeps, SyncReplaceKeeps, SyncFailKeeps,
           SyncPutBackKeeps, SyncUndoneKeeps, SyncCleanKeeps, SyncKillKeeps DEF Sync!Next

-----------------------------------------------------------------------------
(* Release notes: s1 the commits, s2 the branch's head, s3 whether the      *)
(* release PR is open, s4 the worktrees, s5 the session, s6 the bound, s7   *)
(* the last answer.                                                         *)

(* Two commits, and nobody works on them.                                    *)
LEMMA NotesInit == Notes!Init => Notes!IInv
<1> SUFFICES ASSUME Notes!Init PROVE Notes!IInv OBVIOUS
<1>1. PICK text \in Texts : s1 = <<[parent |-> 0, text |-> text], [parent |-> 1, text |-> text]>>
  BY DEF Notes!Init
<1>2. [parent |-> 0, text |-> text] \in [parent : 0..NotesCommits, text : Texts]
      /\ [parent |-> 1, text |-> text] \in [parent : 0..NotesCommits, text : Texts]
      /\ 2 \in Notes!Ids
  BY NotesAssumption DEF Notes!NotesAssumption, Notes!Ids
<1>3. s1 \in Notes!Log /\ Len(s1) = 2
  BY <1>1, <1>2 DEF Notes!Log
<1>4. Notes!NoTree \in Notes!Worktree /\ Notes!NoSession \in Notes!Session /\ 0 \in 0..NotesEdits
  BY NotesAssumption
    DEF Notes!NotesAssumption, Notes!NoTree, Notes!NoSession, Notes!Worktree, Notes!Session
<1>5. Notes!TypeOK
  BY <1>2, <1>3, <1>4 DEF Notes!Init, Notes!TypeOK
<1>6. \A c \in 1..Len(s1) : s1[c].parent < c
  BY <1>1, <1>3
<1> QED BY <1>3, <1>5, <1>6
          DEF Notes!Init, Notes!IInv, Notes!Logged, Notes!Underway, Notes!Reviewed,
           Notes!NoSession, Notes!NoTree

(* What a command may go on to.                                              *)
LEMMA NotesSessionKeeps ==
  ASSUME Notes!IInv, NEW x \in Notes!Session, s5' = x, UNCHANGED <<s1, s3>>,
         s2' \in Notes!Ids, s2' <= Len(s1), s6' \in 0..NotesEdits,
         s7' \in {"nothing", "updated", "passed"},
         s4' \in [Notes!Ids -> Notes!Worktree],
         \A b \in Notes!Ids : s4'[b].commit <= Len(s1)
           /\ (s4'[b].commit = 0 => s4'[b] = Notes!NoTree),
         x.base <= Len(s1), x.head <= Len(s1), x.base = 0 <=> x = Notes!NoSession,
         x.step = "idle" => x = Notes!NoSession,
         x.step \notin {"idle", "validate", "validated"} =>
           s4'[x.base].commit # 0 /\ x.head # 0,
         x.step \in {"correct", "add", "commit"} => x.head = x.base,
         x.step \in {"format", "formatted", "upload", "guard"} /\ x.head # x.base =>
           s1[x.head].text = x.preview,
         x.step \in {"rescan", "push"} => s1[x.head].text = x.preview
  PROVE  Notes!IInv'
<1>1. Notes!TypeOK'
  BY DEF Notes!IInv, Notes!TypeOK
<1>2. Notes!Underway' /\ Notes!Reviewed'
  BY DEF Notes!Underway, Notes!Reviewed, Notes!T, Notes!TextOf
<1>3. \A c \in 1..Len(s1) : s1[c].parent < c
  BY DEF Notes!IInv, Notes!Logged
<1>4. Notes!Logged'
  BY <1>3 DEF Notes!Logged
<1> QED BY <1>1, <1>2, <1>4 DEF Notes!IInv

(* A command that has ended, or that others see nothing of.                  *)
LEMMA NotesGiveUpKeeps ==
  ASSUME Notes!IInv, s5' = Notes!NoSession, UNCHANGED <<s1, Notes!remoteVars, s6>>,
         s7' \in {"nothing", "updated", "passed"},
         s4' \in [Notes!Ids -> Notes!Worktree],
         \A b \in Notes!Ids : s4'[b].commit <= Len(s1)
           /\ (s4'[b].commit = 0 => s4'[b] = Notes!NoTree)
  PROVE  Notes!IInv'
<1>1. Notes!NoSession \in Notes!Session /\ Notes!NoSession.step = "idle"
      /\ Notes!NoSession.base = 0
      /\ Notes!NoSession.head = 0
  BY NotesAssumption DEF Notes!NotesAssumption, Notes!NoSession, Notes!Session
<1> QED BY <1>1, NotesSessionKeeps
          DEF Notes!remoteVars, Notes!IInv, Notes!TypeOK, Notes!Logged, Notes!Ids

(* Only the session has moved on.                                            *)
LEMMA NotesMovesKeep ==
  ASSUME Notes!IInv, NEW x \in Notes!Session, s5' = x, UNCHANGED <<s1, Notes!remoteVars, s6, s7>>,
         s4' \in [Notes!Ids -> Notes!Worktree],
         \A b \in Notes!Ids : s4'[b].commit = s4[b].commit
           /\ (s4[b].commit = 0 => s4'[b] = s4[b]),
         s5.base # 0, x.base = s5.base, x.head <= Len(s1),
         x.step # "idle",
         x.step \notin {"validate", "validated"} => Notes!T.commit # 0 /\ x.head # 0,
         x.step \in {"correct", "add", "commit"} => x.head = x.base,
         x.step \in {"format", "formatted", "upload", "guard"} /\ x.head # x.base =>
           s1[x.head].text = x.preview,
         x.step \in {"rescan", "push"} => s1[x.head].text = x.preview
  PROVE  Notes!IInv'
<1>1. s5.base \in Notes!Ids /\ x.base # 0 /\ Notes!NoSession.step = "idle"
  BY DEF Notes!IInv, Notes!TypeOK, Notes!Session, Notes!Ids, Notes!NoSession
<1> QED BY <1>1, NotesSessionKeeps
          DEF Notes!remoteVars, Notes!IInv, Notes!TypeOK, Notes!Logged, Notes!Underway, Notes!T

(* A command that is not idle has a base.                                    *)
LEMMA NotesAtWork ==
  ASSUME Notes!IInv, s5.step # "idle"
  PROVE  /\ s5 \in Notes!Session /\ s5.base # 0 /\ s5.base \in Notes!Ids
         /\ Notes!T \in Notes!Worktree /\ s5.base <= Len(s1) /\ s5.head <= Len(s1)
         /\ Notes!T.commit <= Len(s1) /\ s4 \in [Notes!Ids -> Notes!Worktree]
         /\ \A b \in Notes!Ids : s4[b].commit <= Len(s1)
         /\ s5.step \notin {"idle", "validate", "validated"} =>
              Notes!T.commit # 0 /\ s5.head # 0
         /\ Len(s1) \in Nat
<1>1. s5 \in Notes!Session /\ s5.base # 0
  BY DEF Notes!IInv, Notes!TypeOK, Notes!Underway, Notes!NoSession
<1>2. s5.base \in Notes!Ids
  BY <1>1 DEF Notes!Session, Notes!Ids
<1> QED BY <1>1, <1>2
          DEF Notes!IInv, Notes!TypeOK, Notes!Logged, Notes!Underway, Notes!T, Notes!Ids

(* What a sequence has at one of its places is one of its elements.         *)
LEMMA ElementOf == ASSUME NEW S, NEW s \in Seq(S), NEW n \in 1..Len(s) PROVE s[n] \in S
  OBVIOUS

(* The operator selects the release PR: the session has its head.           *)
LEMMA NotesSelectKeeps ==
  ASSUME Notes!IInv, NEW check \in BOOLEAN, Notes!Select(check)
  PROVE  Notes!IInv'
<1>1. s2 \in Notes!Ids /\ s2 <= Len(s1) /\ s4 \in [Notes!Ids -> Notes!Worktree]
      /\ s1 \in Notes!Log
      /\ Len(s1) \in Notes!Ids
  BY DEF Notes!IInv, Notes!TypeOK, Notes!Logged
<1>2. PICK w : w = IF s4[s2] = Notes!NoTree
                   THEN [Notes!NoTree EXCEPT !.commit = s2, !.files = Notes!TextOf(s2)]
                   ELSE s4[s2]
  OBVIOUS
<1>3. w \in Notes!Worktree /\ w.commit <= Len(s1) /\ w.commit # 0
  <2>1. CASE s4[s2] = Notes!NoTree
    <3>1. w = [commit |-> s2, files |-> Notes!TextOf(s2), index |-> None, stray |-> FALSE]
      BY <1>2, <2>1 DEF Notes!NoTree
    <3>2. Notes!TextOf(s2) \in Texts
      <4>1. s2 \in 1..Len(s1)
        BY <1>1 DEF Notes!Ids
      <4>2. s1 \in Seq([parent : 0..NotesCommits, text : Texts])
        BY <1>1 DEF Notes!Log
      <4>3. s1[s2] \in [parent : 0..NotesCommits, text : Texts]
        BY <4>1, <4>2, ElementOf
      <4> QED BY <4>3 DEF Notes!TextOf
    <3> QED BY <1>1, <3>1, <3>2 DEF Notes!Worktree, Notes!Ids
  <2>2. CASE s4[s2] # Notes!NoTree
    BY <1>1, <1>2, <2>2 DEF Notes!IInv, Notes!Logged
  <2> QED BY <2>1, <2>2
<1>4. PICK x : x = [Notes!NoSession EXCEPT !.base = s2, !.check = check, !.head = w.commit,
                         !.step = IF check THEN "correct"
                                  ELSE IF w.commit = s2 THEN "notes" ELSE "offer"]
  OBVIOUS
<1>5. s5' = x /\ s4' = [s4 EXCEPT ![s2] = w] /\ (check => w.commit = s2)
  BY <1>2, <1>4 DEF Notes!Select
<1>6. /\ x.base = s2 /\ x.head = w.commit /\ x.check = check
      /\ x.step = IF check THEN "correct" ELSE IF w.commit = s2 THEN "notes" ELSE "offer"
      /\ x \in Notes!Session
  <2>1. PICK to : to = IF check THEN "correct" ELSE IF w.commit = s2 THEN "notes" ELSE "offer"
    OBVIOUS
  <2>2. x = [step |-> to, check |-> check, base |-> s2, before |-> None, preview |-> None,
             head |-> w.commit, snapshot |-> None]
    BY <1>4, <2>1 DEF Notes!NoSession
  <2>3. s2 \in 0..NotesCommits /\ w.commit \in 0..NotesCommits
    BY <1>1, <1>3 DEF Notes!Ids, Notes!Worktree
  <2> QED BY <2>1, <2>2, <2>3 DEF Notes!Session
<1>7. s4' \in [Notes!Ids -> Notes!Worktree] /\ s4'[s2] = w
      /\ \A b \in Notes!Ids : s4'[b].commit <= Len(s1)
         /\ (s4'[b].commit = 0 => s4'[b] = Notes!NoTree)
  BY <1>1, <1>3, <1>5 DEF Notes!IInv, Notes!Logged
<1>8. s6' \in 0..NotesEdits
  BY NotesAssumption DEF Notes!NotesAssumption, Notes!Select, Notes!IInv, Notes!TypeOK
<1>9. Notes!NoSession.base = 0 /\ s2 # 0
  BY <1>1 DEF Notes!NoSession, Notes!Ids
<1> QED BY <1>1, <1>3, <1>5, <1>6, <1>7, <1>8, <1>9, NotesSessionKeeps
          DEF Notes!Select, Notes!remoteVars

(* The notes of the worktree are read before the prompts.                   *)
LEMMA NotesReadNotesKeeps == ASSUME Notes!IInv, Notes!ReadNotes PROVE Notes!IInv'
<1>1. PICK x : x = [s5 EXCEPT !.step = "draft", !.before = Notes!T.files]
  OBVIOUS
<1>2. s5.step = "notes" /\ s5' = x
  BY <1>1 DEF Notes!ReadNotes, Notes!At
<1>3. /\ x \in Notes!Session /\ x.step = "draft" /\ x.base = s5.base /\ x.head = s5.head
  BY <1>1, <1>2, NotesAtWork DEF Notes!Session, Notes!Worktree
<1> QED BY <1>2, <1>3, NotesAtWork, NotesMovesKeep DEF Notes!ReadNotes

(* Text that is written into the worktree of the session.                    *)
LEMMA NotesWriteTells ==
  ASSUME Notes!IInv, s5.step \notin {"idle", "validate", "validated"}, NEW text \in Texts,
         Notes!Write(text)
  PROVE  /\ s4' \in [Notes!Ids -> Notes!Worktree]
         /\ \A b \in Notes!Ids : s4'[b].commit = s4[b].commit
            /\ (s4[b].commit = 0 => s4'[b] = s4[b])
<1>1. PICK w : w = [s4[s5.base] EXCEPT !.files = text]
  OBVIOUS
<1>2. s4' = [s4 EXCEPT ![s5.base] = w]
  BY <1>1, NotesAtWork DEF Notes!Write
<1>3. w \in Notes!Worktree /\ w.commit = s4[s5.base].commit
  BY <1>1, NotesAtWork DEF Notes!Worktree, Notes!T
<1> QED BY <1>2, <1>3, NotesAtWork DEF Notes!T

(* An edited draft is written to the files.                                 *)
LEMMA NotesSaveDraftKeeps ==
  ASSUME Notes!IInv, NEW text \in Texts, Notes!SaveDraft(text)
  PROVE  Notes!IInv'
<1>1. PICK x : x = [s5 EXCEPT !.step = "offer"]
  OBVIOUS
<1>2. s5.step = "draft" /\ s5' = x
  BY <1>1 DEF Notes!SaveDraft, Notes!At, Notes!To
<1>3. /\ x \in Notes!Session /\ x.step = "offer" /\ x.base = s5.base /\ x.head = s5.head
  BY <1>1, <1>2, NotesAtWork DEF Notes!Session
<1>4. /\ s4' \in [Notes!Ids -> Notes!Worktree]
      /\ \A b \in Notes!Ids : s4'[b].commit = s4[b].commit /\ (s4[b].commit = 0 => s4'[b] = s4[b])
  BY <1>2, NotesWriteTells DEF Notes!SaveDraft
<1> QED BY <1>2, <1>3, <1>4, NotesAtWork, NotesMovesKeep DEF Notes!SaveDraft

(* A correction is written to the files.                                    *)
LEMMA NotesCorrectKeeps ==
  ASSUME Notes!IInv, NEW text \in Texts, Notes!Correct(text)
  PROVE  Notes!IInv'
<1>1. PICK x : x = [s5 EXCEPT !.step = "format", !.preview = text]
  OBVIOUS
<1>2. s5.step = "correct" /\ s5' = x
  BY <1>1 DEF Notes!Correct, Notes!At
<1>3. /\ x \in Notes!Session /\ x.step = "format" /\ x.base = s5.base /\ x.head = s5.head
  BY <1>1, <1>2, NotesAtWork DEF Notes!Session
<1>4. /\ s4' \in [Notes!Ids -> Notes!Worktree]
      /\ \A b \in Notes!Ids : s4'[b].commit = s4[b].commit /\ (s4[b].commit = 0 => s4'[b] = s4[b])
  BY <1>2, NotesWriteTells DEF Notes!Correct
<1>5. s5.head = s5.base
  BY <1>2 DEF Notes!IInv, Notes!Reviewed
<1> QED BY <1>2, <1>3, <1>4, <1>5, NotesAtWork, NotesMovesKeep DEF Notes!Correct

(* A pending commit is clean, so that what is shown is its text.             *)
LEMMA NotesOfferKeeps == ASSUME Notes!IInv, Notes!Offer PROVE Notes!IInv'
<1>1. PICK x : x = [s5 EXCEPT !.preview = Notes!T.files, !.head = Notes!T.commit,
                                   !.step = IF s5.check THEN "upload" ELSE "format"]
  OBVIOUS
<1>2. s5.step = "offer" /\ s5' = x
  BY <1>1 DEF Notes!Offer, Notes!At
<1>3. /\ x \in Notes!Session /\ x.step \in {"upload", "format"} /\ x.base = s5.base
      /\ x.head = Notes!T.commit /\ x.preview = Notes!T.files
  BY <1>1, <1>2, NotesAtWork DEF Notes!Session, Notes!Worktree
<1>4. x.head # x.base => s1[x.head].text = x.preview
  BY <1>3 DEF Notes!Offer, Notes!PendingOrBase, Notes!Clean, Notes!TextOf
<1> QED BY <1>2, <1>3, <1>4, NotesAtWork, NotesMovesKeep DEF Notes!Offer

(* The hooks write a text of their own.                                     *)
LEMMA NotesRunHooksKeeps ==
  ASSUME Notes!IInv, NEW text \in Texts, Notes!RunHooks(text)
  PROVE  Notes!IInv'
<1>1. PICK x : x = [s5 EXCEPT !.step = "formatted", !.before = Notes!T.files]
  OBVIOUS
<1>2. s5.step = "format" /\ s5' = x
  BY <1>1 DEF Notes!RunHooks, Notes!At
<1>3. /\ x \in Notes!Session /\ x.step = "formatted" /\ x.base = s5.base
      /\ x.head = s5.head /\ x.preview = s5.preview
  BY <1>1, <1>2, NotesAtWork DEF Notes!Session, Notes!Worktree
<1>4. /\ s4' \in [Notes!Ids -> Notes!Worktree]
      /\ \A b \in Notes!Ids : s4'[b].commit = s4[b].commit /\ (s4[b].commit = 0 => s4'[b] = s4[b])
  BY <1>2, NotesWriteTells DEF Notes!RunHooks
<1>5. s5.head # s5.base => s1[s5.head].text = s5.preview
  BY <1>2 DEF Notes!IInv, Notes!Reviewed, Notes!TextOf
<1> QED BY <1>2, <1>3, <1>4, <1>5, NotesAtWork, NotesMovesKeep DEF Notes!RunHooks

(* Formatting that changed the notes is offered again.                      *)
LEMMA NotesFormattedKeeps == ASSUME Notes!IInv, Notes!Formatted PROVE Notes!IInv'
<1>1. PICK p, to : /\ p = IF Notes!T.files = s5.before THEN s5.preview ELSE Notes!T.files
                   /\ to = IF ~s5.check THEN "upload"
                           ELSE IF Notes!T.files
                             = Notes!TextOf(s5.base) THEN "validate" ELSE "offer"
  OBVIOUS
<1>2. PICK x : x = [s5 EXCEPT !.preview = p, !.step = to]
  OBVIOUS
<1>3. s5.step = "formatted" /\ s5' = x
  BY <1>1, <1>2 DEF Notes!Formatted, Notes!At
<1>4. p \in Texts \cup {None} /\ to \in {"upload", "validate", "offer"}
  BY <1>1, <1>3, NotesAtWork DEF Notes!Session, Notes!Worktree
<1>5. /\ x \in Notes!Session /\ x.step \in {"upload", "validate", "offer"} /\ x.base = s5.base
      /\ x.head = s5.head /\ x.preview = p
  BY <1>2, <1>3, <1>4, NotesAtWork DEF Notes!Session
<1>6. s5.head # s5.base => s1[s5.head].text = p
  BY <1>1, <1>3 DEF Notes!IInv, Notes!Reviewed, Notes!TextOf, Notes!Formatted
<1> QED BY <1>3, <1>5, <1>6, NotesAtWork, NotesMovesKeep DEF Notes!Formatted

(* The upload begins from the files as they are.                            *)
LEMMA NotesUploadChecksKeeps == ASSUME Notes!IInv, Notes!UploadChecks PROVE Notes!IInv'
<1>1. PICK x : x = [s5 EXCEPT !.step = "guard", !.snapshot = Notes!T.files]
  OBVIOUS
<1>2. s5.step = "upload" /\ s5' = x
  BY <1>1 DEF Notes!UploadChecks, Notes!At
<1>3. /\ x \in Notes!Session /\ x.step = "guard" /\ x.base = s5.base
      /\ x.head = s5.head /\ x.preview = s5.preview
  BY <1>1, <1>2, NotesAtWork DEF Notes!Session, Notes!Worktree
<1>4. s5.head # s5.base => s1[s5.head].text = s5.preview
  BY <1>2 DEF Notes!IInv, Notes!Reviewed, Notes!TextOf
<1> QED BY <1>2, <1>3, <1>4, NotesAtWork, NotesMovesKeep DEF Notes!UploadChecks

(* The files are the ones the upload began from.                            *)
LEMMA NotesGuardedKeeps == ASSUME Notes!IInv, Notes!Guarded PROVE Notes!IInv'
<1>1. PICK to : to = IF s5.head = s5.base THEN "add" ELSE "rescan"
  OBVIOUS
<1>2. PICK x : x = [s5 EXCEPT !.step = to]
  OBVIOUS
<1>3. s5.step = "guard" /\ s5' = x
  BY <1>1, <1>2 DEF Notes!Guarded, Notes!At, Notes!To
<1>4. /\ x \in Notes!Session /\ x.step = to /\ x.base = s5.base
      /\ x.head = s5.head /\ x.preview = s5.preview
  BY <1>1, <1>2, <1>3, NotesAtWork DEF Notes!Session
<1>5. s5.head # s5.base => s1[s5.head].text = s5.preview
  BY <1>3 DEF Notes!IInv, Notes!Reviewed, Notes!TextOf
<1> QED BY <1>1, <1>3, <1>4, <1>5, NotesAtWork, NotesMovesKeep DEF Notes!Guarded

(* The change that was accepted is staged.                                  *)
LEMMA NotesAddKeeps == ASSUME Notes!IInv, Notes!Add PROVE Notes!IInv'
<1>1. s5.step = "add"
  BY DEF Notes!Add, Notes!At
<1>2. PICK w : w = [s4[s5.base] EXCEPT !.index = Notes!T.files]
  OBVIOUS
<1>3. s4' = [s4 EXCEPT ![s5.base] = w]
  BY <1>1, <1>2, NotesAtWork DEF Notes!Add
<1>4. w \in Notes!Worktree /\ w.commit = s4[s5.base].commit
  BY <1>1, <1>2, NotesAtWork DEF Notes!Worktree, Notes!T
<1>5. /\ s4' \in [Notes!Ids -> Notes!Worktree]
      /\ \A b \in Notes!Ids : s4'[b].commit = s4[b].commit /\ (s4[b].commit = 0 => s4'[b] = s4[b])
  BY <1>1, <1>3, <1>4, NotesAtWork DEF Notes!T
<1>6. CASE Notes!T.files = s5.preview
  <2>1. PICK x : x = [s5 EXCEPT !.step = "commit"]
    OBVIOUS
  <2>2. s5' = x
    BY <1>6, <2>1 DEF Notes!Add, Notes!To
  <2>3. x \in Notes!Session /\ x.step = "commit" /\ x.base = s5.base /\ x.head = s5.head
    BY <1>1, <2>1, NotesAtWork DEF Notes!Session
  <2>4. s5.head = s5.base
    BY <1>1 DEF Notes!IInv, Notes!Reviewed
  <2> QED BY <1>1, <1>5, <2>2, <2>3, <2>4, NotesAtWork, NotesMovesKeep DEF Notes!Add
<1>7. CASE Notes!T.files # s5.preview
  <2>1. s5' = Notes!NoSession /\ s7 \in {"nothing", "updated", "passed"}
    BY <1>7 DEF Notes!Add, Notes!IInv, Notes!TypeOK
  <2>2. \A b \in Notes!Ids : s4'[b].commit <= Len(s1)
          /\ (s4'[b].commit = 0 => s4'[b] = Notes!NoTree)
    BY <1>5 DEF Notes!IInv, Notes!Logged
  <2> QED BY <1>5, <2>1, <2>2, NotesGiveUpKeeps DEF Notes!Add
<1> QED BY <1>6, <1>7

(* One commit more: what was written of the earlier ones stands.             *)
LEMMA NotesAppendTells ==
  ASSUME Notes!IInv, NEW p \in 0..NotesCommits, NEW text \in Texts, Len(s1) < NotesCommits,
         s1' = Append(s1, [parent |-> p, text |-> text])
  PROVE  /\ s1' \in Notes!Log /\ Len(s1)' = Len(s1) + 1 /\ Len(s1)' \in Notes!Ids
         /\ \A c \in 1..Len(s1) : s1'[c] = s1[c]
         /\ s1'[Len(s1) + 1] = [parent |-> p, text |-> text]
<1>1. s1 \in Seq([parent : 0..NotesCommits, text : Texts]) /\ Len(s1) \in 1..NotesCommits
  BY DEF Notes!IInv, Notes!TypeOK, Notes!Log, Notes!Ids
<1>2. [parent |-> p, text |-> text] \in [parent : 0..NotesCommits, text : Texts]
  OBVIOUS
<1> QED BY <1>1, <1>2, NotesAssumption DEF Notes!Log, Notes!Ids, Notes!NotesAssumption

(* A commit takes nothing from the others, nor from the reviewed text.       *)
LEMMA NotesCommitKeeps ==
  ASSUME Notes!IInv, NEW p \in 0..NotesCommits, p <= Len(s1), NEW text \in Texts,
         Len(s1) < NotesCommits,
         s1' = Append(s1, [parent |-> p, text |-> text]),
         s2' \in Notes!Ids, s2' <= Len(s1) + 1, s3' \in BOOLEAN, s6' \in 0..NotesEdits,
         s7' \in {"nothing", "updated", "passed"},
         s4' \in [Notes!Ids -> Notes!Worktree],
         \A b \in Notes!Ids : \/ s4'[b] = s4[b]
                              \/ s4[b] # Notes!NoTree /\ s4'[b].commit = Len(s1) + 1,
         NEW x \in Notes!Session, s5' = x, x.base = s5.base, x.head = s5.head,
         \/ x = s5
         \/ s5.base # 0 /\ s5.step = "commit" /\ x.step = "committed"
  PROVE  Notes!IInv'
<1>0. /\ s1' \in Notes!Log /\ Len(s1') = Len(s1) + 1 /\ Len(s1') \in Notes!Ids /\ Len(s1) \in Nat
      /\ \A c \in 1..Len(s1) : s1'[c] = s1[c]
      /\ s1'[Len(s1) + 1].parent = p
  BY NotesAppendTells DEF Notes!IInv, Notes!TypeOK, Notes!Ids
<1>1. Notes!TypeOK'
  BY <1>0 DEF Notes!TypeOK
<1>2. /\ s5 \in Notes!Session /\ s5.base \in 0..NotesCommits /\ s5.head \in 0..NotesCommits
      /\ s5.base <= Len(s1) /\ s5.head <= Len(s1)
  BY DEF Notes!IInv, Notes!TypeOK, Notes!Logged, Notes!Session
<1>3. \A b \in Notes!Ids : /\ s4[b].commit \in 0..NotesCommits /\ s4[b].commit <= Len(s1)
                           /\ s4[b].commit = 0 => s4[b] = Notes!NoTree
  BY DEF Notes!IInv, Notes!TypeOK, Notes!Logged, Notes!Worktree
<1>4. Notes!Logged'
  <2>1. \A c \in 1..Len(s1') : s1'[c].parent < c
    BY <1>0 DEF Notes!IInv, Notes!Logged
  <2> QED BY <1>0, <1>2, <1>3, <2>1 DEF Notes!Logged
<1>5. /\ s5.base = 0 <=> s5 = Notes!NoSession
      /\ s5.step \notin {"idle", "validate", "validated"} =>
           s4[s5.base].commit # 0 /\ s5.head # 0
      /\ s5.step = "idle" => s5 = Notes!NoSession
  BY DEF Notes!IInv, Notes!Underway, Notes!T
<1>6. \A b \in Notes!Ids : s4[b].commit # 0 => s4'[b].commit # 0
  BY <1>0, <1>3
<1>7. Notes!NoSession.step = "idle" /\ Notes!NoSession.base = 0
  BY DEF Notes!NoSession
<1>8. s5.base # 0 => s5.base \in Notes!Ids
  BY <1>2 DEF Notes!Ids
<1>9. Notes!Underway'
  BY <1>5, <1>6, <1>7, <1>8 DEF Notes!Underway, Notes!T
<1>10. Notes!Reviewed'
  <2>1. s5.step \notin {"idle", "validate", "validated"} =>
          s1'[s5.head] = s1[s5.head]
    BY <1>0, <1>2, <1>5
  <2>2. Notes!Reviewed
    BY DEF Notes!IInv
  <2> QED BY <2>1, <2>2 DEF Notes!Reviewed, Notes!TextOf
<1> QED BY <1>1, <1>4, <1>9, <1>10 DEF Notes!IInv

(* A commit, and what the hooks made of it.                                 *)
LEMMA NotesCommitsKeep ==
  ASSUME Notes!IInv, NEW hooked \in Texts, Notes!Commit(hooked)
  PROVE  Notes!IInv'
<1>1. s5.step = "commit"
  BY DEF Notes!Commit, Notes!At
<1>2. PICK w : w = [s4[s5.base] EXCEPT !.commit = Len(s1) + 1, !.index = None]
  OBVIOUS
<1>3. s4' = [s4 EXCEPT ![s5.base] = w]
  BY <1>1, <1>2, NotesAtWork DEF Notes!Commit
<1>4. Len(s1) + 1 \in 0..NotesCommits
  BY <1>1, NotesAtWork, NotesAssumption DEF Notes!Commit, Notes!NotesAssumption
<1>5. w \in Notes!Worktree /\ w.commit = Len(s1) + 1
  BY <1>1, <1>2, <1>4, NotesAtWork DEF Notes!Worktree, Notes!T
<1>6. s4[s5.base] # Notes!NoTree
  BY <1>1, NotesAtWork DEF Notes!T, Notes!NoTree
<1>7. /\ s4' \in [Notes!Ids -> Notes!Worktree]
      /\ \A b \in Notes!Ids : \/ s4'[b] = s4[b]
                              \/ s4[b] # Notes!NoTree /\ s4'[b].commit = Len(s1) + 1
  BY <1>1, <1>3, <1>5, <1>6, NotesAtWork DEF Notes!T
<1>8. PICK x : x = [s5 EXCEPT !.step = "committed"]
  OBVIOUS
<1>9. s5' = x /\ x \in Notes!Session /\ x.base = s5.base /\ x.head = s5.head
      /\ x.step = "committed"
  BY <1>1, <1>8, NotesAtWork DEF Notes!Commit, Notes!To, Notes!Session
<1>10. PICK p : p = Notes!T.commit
  OBVIOUS
<1>11. p \in 0..NotesCommits /\ p <= Len(s1)
  BY <1>1, <1>10, NotesAtWork DEF Notes!Worktree
<1>12. /\ s2' \in Notes!Ids /\ s2' <= Len(s1) + 1 /\ s3' \in BOOLEAN /\ s6' \in 0..NotesEdits
       /\ s7' \in {"nothing", "updated", "passed"}
  BY DEF Notes!Commit, Notes!remoteVars, Notes!IInv, Notes!TypeOK, Notes!Logged, Notes!Ids
<1>13. Len(s1) < NotesCommits /\ s1' = Append(s1, [parent |-> p, text |-> hooked])
  BY <1>10 DEF Notes!Commit
<1>14. s5.base # 0
  BY <1>1, NotesAtWork
<1> QED BY <1>1, <1>7, <1>9, <1>11, <1>12, <1>13, <1>14, NotesCommitKeeps

(* The tree of the new commit is compared with the reviewed one.             *)
LEMMA NotesCommittedKeeps == ASSUME Notes!IInv, Notes!Committed PROVE Notes!IInv'
<1>1. PICK x : x = [s5 EXCEPT !.step = "rescan", !.head = Notes!T.commit]
  OBVIOUS
<1>2. s5.step = "committed" /\ s5' = x
  BY <1>1 DEF Notes!Committed, Notes!At
<1>3. /\ x \in Notes!Session /\ x.step = "rescan" /\ x.base = s5.base
      /\ x.head = Notes!T.commit /\ x.preview = s5.preview
  BY <1>1, <1>2, NotesAtWork DEF Notes!Session, Notes!Worktree
<1>4. s1[x.head].text = x.preview
  BY <1>3 DEF Notes!Committed, Notes!TextOf
<1> QED BY <1>2, <1>3, <1>4, NotesAtWork, NotesMovesKeep DEF Notes!Committed

(* What was committed is what was accepted.                                 *)
LEMMA NotesRescannedKeeps == ASSUME Notes!IInv, Notes!Rescanned PROVE Notes!IInv'
<1>1. PICK x : x = [s5 EXCEPT !.step = "push"]
  OBVIOUS
<1>2. s5.step = "rescan" /\ s5' = x
  BY <1>1 DEF Notes!Rescanned, Notes!At, Notes!To
<1>3. /\ x \in Notes!Session /\ x.step = "push" /\ x.base = s5.base
      /\ x.head = s5.head /\ x.preview = s5.preview
  BY <1>1, <1>2, NotesAtWork DEF Notes!Session
<1>4. s1[s5.head].text = s5.preview
  BY <1>2 DEF Notes!IInv, Notes!Reviewed, Notes!TextOf
<1> QED BY <1>2, <1>3, <1>4, NotesAtWork, NotesMovesKeep DEF Notes!Rescanned

(* The commit is pushed when the branch is where it was.                    *)
LEMMA NotesPushKeeps == ASSUME Notes!IInv, Notes!Push PROVE Notes!IInv'
<1>1. s5.step = "push" /\ UNCHANGED <<s1, s3, s4, s6>> /\ s2' = s5.head
      /\ s7' = "updated"
  BY DEF Notes!Push, Notes!At
<1>2. s5.head \in Notes!Ids /\ s5.head <= Len(s1) /\ s5.head # 0
  BY <1>1, NotesAtWork DEF Notes!Session, Notes!Ids
<1>3. PICK x : x = IF s5.check
                   THEN [Notes!NoSession EXCEPT !.step = "validate", !.check = TRUE,
                   !.base = s5.head]
                   ELSE Notes!NoSession
  OBVIOUS
<1>4. CASE s5.check
  <2>1. x = [step |-> "validate", check |-> TRUE, base |-> s5.head, before |-> None,
             preview |-> None, head |-> 0, snapshot |-> None]
    BY <1>3, <1>4 DEF Notes!NoSession
  <2>2. x \in Notes!Session /\ x.step = "validate" /\ x.base = s5.head /\ x.head = 0
    BY <1>2, <2>1, NotesAssumption DEF Notes!Session, Notes!Ids, Notes!NotesAssumption
  <2>3. s5' = x /\ x # Notes!NoSession
    BY <1>2, <1>3, <2>2 DEF Notes!Push, Notes!NoSession
  <2> QED BY <1>1, <1>2, <2>2, <2>3, NotesSessionKeeps DEF Notes!IInv, Notes!TypeOK, Notes!Logged
<1>5. CASE ~s5.check
  <2>1. x = Notes!NoSession /\ s5' = x /\ x.step = "idle" /\ x.base = 0 /\ x.head = 0
        /\ x \in Notes!Session
    BY <1>3, <1>5, NotesAssumption
      DEF Notes!Push, Notes!NoSession, Notes!Session, Notes!NotesAssumption
  <2> QED BY <1>1, <1>2, <2>1, NotesSessionKeeps DEF Notes!IInv, Notes!TypeOK, Notes!Logged
<1> QED BY <1>4, <1>5

(* A check changes nothing.                                                 *)
LEMMA NotesValidateKeeps ==
  ASSUME Notes!IInv,
         Notes!Validate("validate", "validated") \/ Notes!Validate("validated", "idle")
  PROVE  Notes!IInv'
<1>1. CASE Notes!Validate("validate", "validated")
  <2>1. PICK x : x = [s5 EXCEPT !.step = "validated"]
    OBVIOUS
  <2>2. s5.step = "validate" /\ s5' = x /\ UNCHANGED s7
    BY <1>1, <2>1 DEF Notes!Validate, Notes!At, Notes!To
  <2>3. x \in Notes!Session /\ x.step = "validated" /\ x.base = s5.base /\ x.head = s5.head
    BY <2>1, <2>2, NotesAtWork DEF Notes!Session
  <2> QED BY <1>1, <2>2, <2>3, NotesAtWork, NotesMovesKeep DEF Notes!Validate
<1>2. CASE Notes!Validate("validated", "idle")
  <2>1. s5' = Notes!NoSession /\ s7' = "passed" /\ UNCHANGED <<s1, Notes!remoteVars, s4, s6>>
    BY <1>2 DEF Notes!Validate
  <2> QED BY <2>1, NotesGiveUpKeeps DEF Notes!IInv, Notes!TypeOK, Notes!Logged
<1> QED BY <1>1, <1>2

(* Other people's work moves neither the session nor its reviewed text.      *)
LEMMA NotesOthersKeep ==
  ASSUME Notes!IInv, Notes!Disturb, UNCHANGED s1, s2' \in Notes!Ids, s2' <= Len(s1),
         s3' \in BOOLEAN,
         s4' \in [Notes!Ids -> Notes!Worktree],
         \A b \in Notes!Ids : s4'[b].commit = s4[b].commit /\ (s4[b].commit = 0 => s4'[b] = s4[b])
  PROVE  Notes!IInv'
<1>1. s6' \in 0..NotesEdits /\ UNCHANGED <<s5, s7>>
  BY NotesAssumption DEF Notes!NotesAssumption, Notes!Disturb, Notes!IInv, Notes!TypeOK
<1>2. Notes!TypeOK'
  BY <1>1 DEF Notes!IInv, Notes!TypeOK
<1>3. Notes!Logged' /\ Notes!Reviewed'
  BY <1>1 DEF Notes!IInv, Notes!Logged, Notes!Reviewed, Notes!TextOf
<1>4. s5.base # 0 => s5.base \in Notes!Ids
  BY DEF Notes!IInv, Notes!TypeOK, Notes!Session, Notes!Ids
<1>5. Notes!Underway'
  BY <1>1, <1>4 DEF Notes!IInv, Notes!Underway, Notes!T, Notes!NoSession
<1> QED BY <1>2, <1>3, <1>5 DEF Notes!IInv

(* Somebody edits, or stages, in a worktree.                                *)
LEMMA NotesEditWorktreeKeeps ==
  ASSUME Notes!IInv, NEW b \in Notes!Ids, NEW text \in Texts, Notes!EditWorktree(b, text)
  PROVE  Notes!IInv'
<1>1. s4[b] \in Notes!Worktree /\ s4 \in [Notes!Ids -> Notes!Worktree] /\ s4[b].commit # 0
  BY DEF Notes!IInv, Notes!TypeOK, Notes!Logged, Notes!EditWorktree
<1>2. PICK w : /\ s4' = [s4 EXCEPT ![b] = w]
               /\ \/ w = [s4[b] EXCEPT !.files = text]
                  \/ w = [s4[b] EXCEPT !.index = s4[b].files]
                  \/ w = [s4[b] EXCEPT !.index = None]
                  \/ w = [s4[b] EXCEPT !.stray = ~s4[b].stray]
  BY DEF Notes!EditWorktree
<1>3. w \in Notes!Worktree /\ w.commit = s4[b].commit
  BY <1>1, <1>2 DEF Notes!Worktree
<1>4. /\ s4' \in [Notes!Ids -> Notes!Worktree]
      /\ \A c \in Notes!Ids : s4'[c].commit = s4[c].commit /\ (s4[c].commit = 0 => s4'[c] = s4[c])
  BY <1>1, <1>2, <1>3
<1>5. Notes!Disturb /\ UNCHANGED <<s1, s2, s3>>
  BY DEF Notes!EditWorktree, Notes!remoteVars
<1> QED BY <1>4, <1>5, NotesOthersKeep DEF Notes!IInv, Notes!TypeOK, Notes!Logged

(* Somebody commits by hand, in a worktree of another commit.               *)
LEMMA NotesCommitByHandKeeps ==
  ASSUME Notes!IInv, NEW b \in Notes!Ids, Notes!CommitByHand(b)
  PROVE  Notes!IInv'
<1>1. s4[b] \in Notes!Worktree /\ s4 \in [Notes!Ids -> Notes!Worktree] /\ s4[b] # Notes!NoTree
      /\ Len(s1) < NotesCommits /\ Len(s1) \in Notes!Ids
  BY DEF Notes!IInv, Notes!TypeOK, Notes!CommitByHand
<1>2. PICK w : w = [s4[b] EXCEPT !.commit = Len(s1) + 1, !.index = None]
  OBVIOUS
<1>3. s4' = [s4 EXCEPT ![b] = w]
  BY <1>1, <1>2 DEF Notes!CommitByHand
<1>4. Len(s1) + 1 \in 0..NotesCommits
  BY <1>1, NotesAssumption DEF Notes!NotesAssumption, Notes!Ids
<1>5. w \in Notes!Worktree /\ w.commit = Len(s1) + 1
  BY <1>1, <1>2, <1>4 DEF Notes!Worktree
<1>6. /\ s4' \in [Notes!Ids -> Notes!Worktree]
      /\ \A c \in Notes!Ids : \/ s4'[c] = s4[c]
                              \/ s4[c] # Notes!NoTree /\ s4'[c].commit = Len(s1) + 1
  BY <1>1, <1>3, <1>5
<1>7. PICK p, text : p = s4[b].commit /\ text = s4[b].index
  OBVIOUS
<1>8. p \in 0..NotesCommits /\ p <= Len(s1) /\ text \in Texts
      /\ s1' = Append(s1, [parent |-> p, text |-> text])
  BY <1>1, <1>7 DEF Notes!Worktree, Notes!CommitByHand, Notes!IInv, Notes!Logged
<1>9. /\ s2' \in Notes!Ids /\ s2' <= Len(s1) + 1 /\ s3' \in BOOLEAN /\ s6' \in 0..NotesEdits
      /\ s7' \in {"nothing", "updated", "passed"}
      /\ s5 \in Notes!Session /\ s5' = s5
  BY <1>1, NotesAssumption
    DEF Notes!NotesAssumption, Notes!CommitByHand, Notes!Disturb, Notes!remoteVars, Notes!IInv,
     Notes!TypeOK, Notes!Logged, Notes!Ids
<1> QED BY <1>1, <1>6, <1>8, <1>9, NotesCommitKeeps

(* Somebody else pushes to the branch.                                      *)
LEMMA NotesBranchMovesKeeps ==
  ASSUME Notes!IInv, NEW text \in Texts, Notes!BranchMoves(text)
  PROVE  Notes!IInv'
<1>0. /\ Notes!Disturb /\ UNCHANGED s4 /\ s4 \in [Notes!Ids -> Notes!Worktree]
      /\ s5 \in Notes!Session
      /\ s1 \in Seq([parent : 0..NotesCommits, text : Texts])
      /\ s2 \in Notes!Ids /\ s2 <= Len(s1) /\ Len(s1) \in Notes!Ids /\ s3 \in BOOLEAN
      /\ s5' = s5 /\ s6' \in 0..NotesEdits /\ s7' \in {"nothing", "updated", "passed"}
  BY NotesAssumption
    DEF Notes!NotesAssumption, Notes!BranchMoves, Notes!Disturb, Notes!IInv, Notes!TypeOK,
     Notes!Logged, Notes!Log
<1>1. CASE /\ Len(s1) < NotesCommits /\ s1' = Append(s1, [parent |-> s2, text |-> text])
           /\ s2' = Len(s1) + 1 /\ UNCHANGED s3
  <2>1. s2 \in 0..NotesCommits /\ s2' \in Notes!Ids /\ s2' <= Len(s1) + 1
    BY <1>0, <1>1, NotesAssumption DEF Notes!Ids, Notes!NotesAssumption
  <2> QED BY <1>0, <1>1, <2>1, NotesCommitKeeps
<1>2. CASE s1[s2].parent # 0 /\ s2' = s1[s2].parent /\ UNCHANGED <<s1, s3>>
  <2>0. s2 \in 1..Len(s1)
    BY <1>0 DEF Notes!Ids
  <2>1. s1[s2] \in [parent : 0..NotesCommits, text : Texts]
    BY <1>0, <2>0, ElementOf
  <2>2. s2' \in Notes!Ids /\ s2' <= Len(s1)
    BY <1>0, <1>2, <2>1 DEF Notes!Ids, Notes!IInv, Notes!Logged
  <2> QED BY <1>0, <1>2, <2>2, NotesOthersKeep
<1>3. CASE s3' = ~s3 /\ UNCHANGED <<s1, s2>>
  BY <1>0, <1>3, NotesOthersKeep
<1> QED BY <1>1, <1>2, <1>3 DEF Notes!BranchMoves

(* Every step of the commands, and of other people, keeps the invariant.     *)
LEMMA NotesNext == ASSUME Notes!IInv, Notes!Next PROVE Notes!IInv'
<1>1. ASSUME NEW check \in BOOLEAN, Notes!Select(check) PROVE Notes!IInv'
  BY <1>1, NotesSelectKeeps
<1>2. CASE Notes!ReadNotes \/ Notes!Offer \/ Notes!Formatted \/ Notes!UploadChecks
           \/ Notes!Guarded
  BY <1>2, NotesReadNotesKeeps, NotesOfferKeeps, NotesFormattedKeeps, NotesUploadChecksKeeps,
     NotesGuardedKeeps
<1>3. CASE Notes!Add \/ Notes!Committed \/ Notes!Rescanned \/ Notes!Push
  BY <1>3, NotesAddKeeps, NotesCommittedKeeps, NotesRescannedKeeps, NotesPushKeeps
<1>4. CASE Notes!Validate("validate", "validated") \/ Notes!Validate("validated", "idle")
  BY <1>4, NotesValidateKeeps
<1>5. CASE Notes!GiveUp
  BY <1>5, NotesGiveUpKeeps DEF Notes!GiveUp, Notes!IInv, Notes!TypeOK, Notes!Logged
<1>6. ASSUME NEW text \in Texts,
             \/ Notes!SaveDraft(text) \/ Notes!Correct(text) \/ Notes!RunHooks(text)
             \/ Notes!Commit(text)
             \/ Notes!BranchMoves(text)
      PROVE  Notes!IInv'
  BY <1>6, NotesSaveDraftKeeps, NotesCorrectKeeps, NotesRunHooksKeeps, NotesCommitsKeep,
     NotesBranchMovesKeeps
<1>7. ASSUME NEW text \in Texts, NEW b \in Notes!Ids, Notes!EditWorktree(b, text)
      PROVE  Notes!IInv'
  BY <1>7, NotesEditWorktreeKeeps
<1>8. ASSUME NEW b \in Notes!Ids, Notes!CommitByHand(b) PROVE Notes!IInv'
  BY <1>8, NotesCommitByHandKeeps
<1> QED BY <1>1, <1>2, <1>3, <1>4, <1>5, <1>6, <1>7, <1>8 DEF Notes!Next

(* Only Push ends with "updated", and what it pushes is what was reviewed.   *)
LEMMA NotesStep == ASSUME Notes!IInv, Notes!Next PROVE Notes!PushedIsReviewedStep
<1> SUFFICES ASSUME s7 # "updated", s7' = "updated"
             PROVE  /\ Notes!TextOf(s2') = s5.preview /\ s1[s2'].parent = s2
                    /\ s2 = s5.base /\ s2' = s5.head
  BY DEF Notes!PushedIsReviewedStep
<1>1. Notes!Push
  BY DEF Notes!Next, Notes!Select, Notes!ReadNotes, Notes!Offer, Notes!Formatted,
     Notes!UploadChecks, Notes!Guarded, Notes!Add, Notes!Committed, Notes!Rescanned,
     Notes!Validate, Notes!GiveUp, Notes!SaveDraft, Notes!Correct, Notes!RunHooks, Notes!Commit,
     Notes!BranchMoves, Notes!EditWorktree, Notes!CommitByHand, Notes!Disturb
<1>2. /\ s5.step = "push" /\ s1[s5.head].parent = s5.base
      /\ s2 = s5.base /\ s2' = s5.head
  BY <1>1 DEF Notes!Push, Notes!Advertised, Notes!At
<1>3. s1[s5.head].text = s5.preview
  BY <1>2 DEF Notes!IInv, Notes!Reviewed, Notes!TextOf
<1> QED BY <1>2, <1>3 DEF Notes!TextOf

-----------------------------------------------------------------------------
(* The releases of the Python packages: s1 the branch's tip, s2 its checks, *)
(* s3 the tags, s4 the workflow, s5 the assets, s6 the operators' clones,   *)
(* s7 their runs, s8 what they were told, s9 the bound, s10 the approvals.  *)

(* Before the first command.                                                 *)
LEMMA PythonInit == Python!Init => Python!IInv
<1>1. Python!NoRun \in Python!Runs /\ Python!NoRun.step = "idle"
  BY PythonAssumption
    DEF Python!NoRun, Python!Runs, Python!Targets, Python!Commits, Python!PythonAssumption
<1> QED
  BY <1>1, PythonAssumption
    DEF Python!Init, Python!IInv, Python!TypeOK, Python!Checked, Python!Targets, Python!Commits,
     Python!PythonAssumption

(* What the others have checked stands: tags come and go in no clone of      *)
(* theirs, assets stay, and nobody takes back a confirmation.                *)
LEMMA PythonOperatorKeeps ==
  ASSUME Python!IInv, NEW p \in Operators, NEW x \in Python!Runs, s7' = [s7 EXCEPT ![p] = x],
         UNCHANGED <<Python!branchVars, s5>>,
         s3' \in [Python!Targets -> Python!Objects \cup {None}],
         s4' \in [Python!Targets -> {"none", "running", "success", "failure"}],
         NEW w \in [Python!Targets -> Python!Objects \cup {None}], s6' = [s6 EXCEPT ![p] = w],
         s8' \in [Operators -> SUBSET Python!Targets], s9' \in 0..PythonRuns,
         s10' \subseteq Operators \X Python!Targets \X Python!Commits, s10 \subseteq s10',
         x.step \in {"confirm", "again", "tag", "push"} => Python!SdkPublished(x.target),
         x.step \in {"again", "tag", "push"} => <<p, x.target, x.commit>> \in s10',
         x.step = "push" => w[x.target] # None /\ w[x.target][2] = x.commit
  PROVE  Python!IInv'
<1>1. Python!TypeOK'
  BY DEF Python!IInv, Python!TypeOK, Python!branchVars
<1>2. ASSUME NEW q \in Operators PROVE Python!Checked(q)'
  <2>1. CASE q = p
    <3>1. s7'[p] = x /\ s6'[p] = w
      BY DEF Python!IInv, Python!TypeOK
    <3> QED BY <2>1, <3>1 DEF Python!Checked, Python!SdkPublished, Python!Target, Python!Local
  <2>2. CASE q # p
    <3>1. s7'[q] = s7[q] /\ s6'[q] = s6[q]
      BY <2>2 DEF Python!IInv, Python!TypeOK
    <3>2. Python!Checked(q)
      BY DEF Python!IInv
    <3> QED BY <3>1, <3>2 DEF Python!Checked, Python!SdkPublished, Python!Target, Python!Local
  <2> QED BY <2>1, <2>2
<1> QED BY <1>1, <1>2 DEF Python!IInv

(* A run goes on by one step, and the clone stays as it is.                  *)
LEMMA PythonStepTells ==
  ASSUME Python!IInv, NEW p \in Operators, NEW from, NEW to, Python!Step(p, from, to),
         from # "idle",
         to \in {"remote", "check", "confirm", "again", "tag", "push", "object", "workflow",
         "assets"}
  PROVE  \E x \in Python!Runs : /\ s7' = [s7 EXCEPT ![p] = x] /\ x.step = to /\ s7[p].step = from
                                /\ x.target = Python!Target(p) /\ x.commit = s7[p].commit
<1>1. s7[p] \in Python!Runs
  BY DEF Python!IInv, Python!TypeOK
<1>2. PICK x : x = [s7[p] EXCEPT !.step = to]
  OBVIOUS
<1>3. x \in Python!Runs /\ x.step = to /\ x.target = s7[p].target /\ x.commit = s7[p].commit
  BY <1>1, <1>2 DEF Python!Runs
<1>4. s7' = [s7 EXCEPT ![p] = x] /\ s7[p].step = from
  BY <1>2 DEF Python!Step
<1> QED BY <1>3, <1>4 DEF Python!Target

(* What stays.                                                               *)
LEMMA PythonStaysTells ==
  ASSUME Python!IInv, NEW p \in Operators
  PROVE  /\ s7[p] \in Python!Runs /\ s6[p] \in [Python!Targets -> Python!Objects \cup {None}]
         /\ s6 = [s6 EXCEPT ![p] = s6[p]] /\ Python!Target(p) \in Python!Targets
         /\ s7[p].commit \in Python!Commits /\ Python!Checked(p)
         /\ s3 \in [Python!Targets -> Python!Objects \cup {None}]
         /\ s4 \in [Python!Targets -> {"none", "running", "success", "failure"}]
         /\ s8 \in [Operators -> SUBSET Python!Targets] /\ s9 \in 0..PythonRuns
         /\ s10 \subseteq Operators \X Python!Targets \X Python!Commits
<1>1. s7[p] \in Python!Runs
  BY DEF Python!IInv, Python!TypeOK
<1>2. Python!Target(p) \in Python!Targets /\ s7[p].commit \in Python!Commits
  BY <1>1 DEF Python!Runs, Python!Target
<1> QED BY <1>1, <1>2 DEF Python!IInv, Python!TypeOK

(* A run starts with what its clone has checked out.                        *)
LEMMA PythonStartKeeps ==
  ASSUME Python!IInv, NEW p \in Operators, NEW t \in Python!Targets, NEW c \in Python!Commits,
         Python!Start(p, t, c)
  PROVE  Python!IInv'
<1>1. PICK verify \in BOOLEAN :
        s7' = [s7 EXCEPT ![p] = [step |-> "checkout", verify |-> verify, target |-> t,
        commit |-> c]]
  BY DEF Python!Start
<1>2. PICK x : x = [step |-> "checkout", verify |-> verify, target |-> t, commit |-> c]
  OBVIOUS
<1>3. x \in Python!Runs /\ x.step = "checkout" /\ s7' = [s7 EXCEPT ![p] = x]
  BY <1>1, <1>2 DEF Python!Runs
<1>4. s9' \in 0..PythonRuns /\ s8' \in [Operators -> SUBSET Python!Targets]
  BY PythonStaysTells, PythonAssumption DEF Python!Start, Python!PythonAssumption
<1>5. UNCHANGED <<Python!branchVars, s5, s3, s4, s6, s10>>
  BY DEF Python!Start, Python!githubVars, Python!remoteVars
<1> QED BY <1>3, <1>4, <1>5, PythonStaysTells, PythonOperatorKeeps

(* The checkout is one of the default branch.                               *)
LEMMA PythonReviewedCheckoutKeeps ==
  ASSUME Python!IInv, NEW p \in Operators, Python!ReviewedCheckout(p)
  PROVE  Python!IInv'
<1>1. PICK to : to = IF s7[p].verify THEN "object" ELSE "remote"
  OBVIOUS
<1>2. Python!Step(p, "checkout", to)
  BY <1>1 DEF Python!ReviewedCheckout
<1>3. PICK x \in Python!Runs : s7' = [s7 EXCEPT ![p] = x] /\ x.step = to
  BY <1>1, <1>2, PythonStepTells
<1>4. PICK w : w = [t \in Python!Targets |-> IF s3[t] = None THEN s6[p][t] ELSE s3[t]]
  OBVIOUS
<1>5. s6' = [s6 EXCEPT ![p] = w] /\ w \in [Python!Targets -> Python!Objects \cup {None}]
  BY <1>4, PythonStaysTells DEF Python!ReviewedCheckout
<1>6. UNCHANGED <<Python!branchVars, s5, s3, s4, s8, s9, s10>>
  BY DEF Python!ReviewedCheckout, Python!githubVars, Python!remoteVars
<1> QED BY <1>1, <1>3, <1>5, <1>6, PythonStaysTells, PythonOperatorKeeps

(* No tag of another commit stands at the remote.                           *)
LEMMA PythonNotTaggedKeeps ==
  ASSUME Python!IInv, NEW p \in Operators,
         Python!NotTagged(p, "remote", "check") \/ Python!NotTagged(p, "again", "tag")
  PROVE  Python!IInv'
<1>1. UNCHANGED <<Python!branchVars, s5, s3, s4, s6, s8, s9, s10>>
  BY DEF Python!NotTagged, Python!githubVars, Python!remoteVars
<1>2. CASE Python!NotTagged(p, "remote", "check")
  <2>1. PICK x \in Python!Runs : s7' = [s7 EXCEPT ![p] = x] /\ x.step = "check"
    BY <1>2, PythonStepTells DEF Python!NotTagged
  <2> QED BY <1>1, <2>1, PythonStaysTells, PythonOperatorKeeps
<1>3. CASE Python!NotTagged(p, "again", "tag")
  <2>1. PICK x \in Python!Runs : /\ s7' = [s7 EXCEPT ![p] = x] /\ x.step = "tag"
                                 /\ s7[p].step = "again" /\ x.target = Python!Target(p)
                                 /\ x.commit = s7[p].commit
    BY <1>3, PythonStepTells DEF Python!NotTagged
  <2>2. Python!SdkPublished(x.target) /\ <<p, x.target, x.commit>> \in s10
    BY <2>1, PythonStaysTells DEF Python!Checked
  <2> QED BY <1>1, <2>1, <2>2, PythonStaysTells, PythonOperatorKeeps
<1> QED BY <1>2, <1>3

(* The SDK of the release is published when the checks pass.                *)
LEMMA PythonCheckPythonKeeps ==
  ASSUME Python!IInv, NEW p \in Operators, Python!CheckPython(p)
  PROVE  Python!IInv'
<1>1. UNCHANGED <<Python!branchVars, s5, s3, s4, s6, s8, s9, s10>>
  BY DEF Python!CheckPython, Python!githubVars, Python!remoteVars
<1>2. PICK x \in Python!Runs : s7' = [s7 EXCEPT ![p] = x] /\ x.step = "confirm"
      /\ x.target = Python!Target(p)
  BY PythonStepTells DEF Python!CheckPython
<1>3. Python!SdkPublished(x.target)
  BY <1>2 DEF Python!CheckPython
<1> QED BY <1>1, <1>2, <1>3, PythonStaysTells, PythonOperatorKeeps

(* The operator approves the very commit, and it is noted.                  *)
LEMMA PythonConfirmKeeps ==
  ASSUME Python!IInv, NEW p \in Operators, Python!Confirm(p)
  PROVE  Python!IInv'
<1>1. UNCHANGED <<Python!branchVars, s5, s3, s4, s6, s8, s9>>
  BY DEF Python!Confirm, Python!githubVars, Python!remoteVars
<1>2. PICK x \in Python!Runs : /\ s7' = [s7 EXCEPT ![p] = x] /\ x.step = "again"
                               /\ s7[p].step = "confirm" /\ x.target = Python!Target(p)
                               /\ x.commit = s7[p].commit
  BY PythonStepTells DEF Python!Confirm
<1>3. Python!SdkPublished(x.target)
  BY <1>2, PythonStaysTells DEF Python!Checked
<1>4. s10' = s10 \cup {<<p, x.target, x.commit>>}
  BY <1>2 DEF Python!Confirm
<1>5. <<p, x.target, x.commit>> \in Operators \X Python!Targets \X Python!Commits
  BY <1>2 DEF Python!Runs
<1> QED BY <1>1, <1>2, <1>3, <1>4, <1>5, PythonStaysTells, PythonOperatorKeeps

(* What is pushed next targets the reviewed commit, whoever signed it when.  *)
LEMMA PythonSignOrReuseKeeps ==
  ASSUME Python!IInv, NEW p \in Operators, Python!SignOrReuse(p)
  PROVE  Python!IInv'
<1>1. UNCHANGED <<Python!branchVars, s5, s3, s4, s8, s9, s10>>
  BY DEF Python!SignOrReuse, Python!githubVars, Python!remoteVars
<1>2. PICK x \in Python!Runs : /\ s7' = [s7 EXCEPT ![p] = x] /\ x.step = "push"
                               /\ s7[p].step = "tag" /\ x.target = Python!Target(p)
                               /\ x.commit = s7[p].commit
  BY PythonStepTells DEF Python!SignOrReuse
<1>3. Python!SdkPublished(x.target) /\ <<p, x.target, x.commit>> \in s10
  BY <1>2, PythonStaysTells DEF Python!Checked
<1>4. CASE Python!Local(p) = None
           /\ s6' = [s6 EXCEPT ![p][Python!Target(p)] = <<p, s7[p].commit>>]
  <2>1. PICK w : w = [s6[p] EXCEPT ![Python!Target(p)] = <<p, s7[p].commit>>]
    OBVIOUS
  <2>2. s6' = [s6 EXCEPT ![p] = w]
    BY <1>4, <2>1, PythonStaysTells
  <2>3. <<p, s7[p].commit>> \in Python!Objects
    BY PythonStaysTells DEF Python!Objects
  <2>4. w \in [Python!Targets -> Python!Objects \cup {None}] /\ w[x.target] = <<p, s7[p].commit>>
    BY <1>2, <2>1, <2>3, PythonStaysTells
  <2>5. w[x.target] # None /\ w[x.target][2] = x.commit
    BY <1>2, <2>3, <2>4, PythonAssumption DEF Python!PythonAssumption
  <2> QED BY <1>1, <1>2, <1>3, <2>2, <2>4, <2>5, PythonStaysTells, PythonOperatorKeeps
<1>5. CASE Python!Local(p) # None /\ Python!Local(p)[2] = s7[p].commit /\ UNCHANGED s6
  BY <1>1, <1>2, <1>3, <1>5, PythonStaysTells, PythonOperatorKeeps DEF Python!Local
<1> QED BY <1>4, <1>5 DEF Python!SignOrReuse

(* A run that has ended.                                                     *)
LEMMA PythonStopKeeps ==
  ASSUME Python!IInv, NEW p \in Operators, Python!Stop(p),
         UNCHANGED <<Python!branchVars, s5, s6, s10>>,
         s3' \in [Python!Targets -> Python!Objects \cup {None}],
         s4' \in [Python!Targets -> {"none", "running", "success", "failure"}],
         s8' \in [Operators -> SUBSET Python!Targets], s9' \in 0..PythonRuns
  PROVE  Python!IInv'
<1>1. Python!NoRun \in Python!Runs /\ Python!NoRun.step = "idle"
  BY PythonAssumption
    DEF Python!NoRun, Python!Runs, Python!Targets, Python!Commits, Python!PythonAssumption
<1> QED BY <1>1, PythonStaysTells, PythonOperatorKeeps DEF Python!Stop

(* The tag that is pushed is the one of the approved commit.                *)
LEMMA PythonPushKeeps ==
  ASSUME Python!IInv, NEW p \in Operators, Python!Push(p)
  PROVE  Python!IInv'
<1>1. Python!Local(p) \in Python!Objects \cup {None}
  BY PythonStaysTells DEF Python!Local
<1> QED BY <1>1, PythonStaysTells, PythonStopKeeps DEF Python!Push

(* A verification looks, and changes nothing.                               *)
LEMMA PythonVerifyKeeps ==
  ASSUME Python!IInv, NEW p \in Operators, Python!VerifyTag(p) \/ Python!VerifyWorkflow(p)
  PROVE  Python!IInv'
<1>1. UNCHANGED <<Python!branchVars, s5, s3, s4, s6, s8, s9, s10>>
  BY DEF Python!VerifyTag, Python!VerifyWorkflow, Python!githubVars, Python!remoteVars
<1>2. PICK x \in Python!Runs : s7' = [s7 EXCEPT ![p] = x] /\ x.step \in {"workflow", "assets"}
  BY PythonStepTells DEF Python!VerifyTag, Python!VerifyWorkflow
<1> QED BY <1>1, <1>2, PythonStaysTells, PythonOperatorKeeps

(* A run that ends says what it found.                                      *)
LEMMA PythonEndKeeps ==
  ASSUME Python!IInv, NEW p \in Operators, Python!VerifyAssets(p) \/ Python!GiveUp(p)
  PROVE  Python!IInv'
<1>1. Python!Stop(p) /\ UNCHANGED <<Python!branchVars, s5, s3, s4, s6, s9, s10>>
  BY DEF Python!VerifyAssets, Python!GiveUp, Python!githubVars, Python!remoteVars
<1>2. s8' \in [Operators -> SUBSET Python!Targets]
  BY PythonStaysTells DEF Python!VerifyAssets, Python!GiveUp
<1> QED BY <1>1, <1>2, PythonStaysTells, PythonStopKeeps

(* GitHub adds commits, checks and assets, and takes none of these back.     *)
LEMMA PythonGitHubKeeps ==
  ASSUME Python!IInv,
         \/ Python!BranchAdvances
         \/ \E c \in Python!Commits : Python!CiRuns(c)
         \/ \E t \in Python!Targets : Python!WorkflowRuns(t)
  PROVE  Python!IInv'
<1>1. UNCHANGED <<Python!operatorVars, s3>> /\ (s5["tooling"] => s5'["tooling"])
  BY DEF Python!BranchAdvances, Python!CiRuns, Python!WorkflowRuns, Python!remoteVars,
     Python!branchVars, Python!IInv, Python!TypeOK, Python!Targets
<1>2. Python!TypeOK'
  <2>1. s1' \in Python!Commits
    BY PythonAssumption
      DEF Python!BranchAdvances, Python!CiRuns, Python!WorkflowRuns, Python!branchVars,
       Python!IInv, Python!TypeOK, Python!Commits, Python!PythonAssumption
  <2>2. s2' \in [Python!Commits -> {"pending", "success", "failure"}]
    BY DEF Python!BranchAdvances, Python!CiRuns, Python!WorkflowRuns, Python!branchVars,
       Python!IInv, Python!TypeOK
  <2>3. /\ s4' \in [Python!Targets -> {"none", "running", "success", "failure"}]
        /\ s5' \in [Python!Targets -> BOOLEAN]
    BY DEF Python!BranchAdvances, Python!CiRuns, Python!WorkflowRuns, Python!remoteVars,
       Python!IInv, Python!TypeOK
  <2> QED BY <1>1, <2>1, <2>2, <2>3 DEF Python!IInv, Python!TypeOK, Python!operatorVars
<1>3. \A p \in Operators : Python!Checked(p)'
  BY <1>1
    DEF Python!IInv, Python!Checked, Python!SdkPublished, Python!Target, Python!Local,
     Python!operatorVars
<1> QED BY <1>2, <1>3 DEF Python!IInv

(* Every step keeps the invariant.                                           *)
LEMMA PythonNext == ASSUME Python!IInv, Python!Next PROVE Python!IInv'
<1>1. ASSUME NEW p \in Operators, NEW t \in Python!Targets, NEW c \in Python!Commits,
             Python!Start(p, t, c)
      PROVE  Python!IInv'
  BY <1>1, PythonStartKeeps
<1>2. ASSUME NEW p \in Operators,
             \/ Python!ReviewedCheckout(p) \/ Python!NotTagged(p, "remote", "check")
             \/ Python!CheckPython(p)
             \/ Python!Confirm(p) \/ Python!NotTagged(p, "again", "tag")
             \/ Python!SignOrReuse(p) \/ Python!Push(p)
             \/ Python!VerifyTag(p) \/ Python!VerifyWorkflow(p) \/ Python!VerifyAssets(p)
             \/ Python!GiveUp(p)
      PROVE  Python!IInv'
  BY <1>2, PythonReviewedCheckoutKeeps, PythonNotTaggedKeeps, PythonCheckPythonKeeps,
     PythonConfirmKeeps, PythonSignOrReuseKeeps, PythonPushKeeps, PythonVerifyKeeps,
     PythonEndKeeps
<1> QED BY <1>1, <1>2, PythonGitHubKeeps DEF Python!Next

(* Only Push changes a remote tag, and its run has earned it.                *)
LEMMA PythonStep == ASSUME Python!IInv, Python!Next PROVE Python!TagsAreEarnedStep
<1> SUFFICES ASSUME NEW t \in Python!Targets, s3'[t] # s3[t]
             PROVE  /\ s3[t] = None /\ s3'[t] # None
                    /\ \E p \in Operators : /\ s3'[t] = s6[p][t]
                                            /\ <<p, t, s3'[t][2]>> \in s10
                                            /\ s7[p].commit = s3'[t][2]
                    /\ t = "setup" => s5["tooling"]
  BY DEF Python!TagsAreEarnedStep
<1>1. PICK p \in Operators : Python!Push(p)
  BY DEF Python!Next, Python!Start, Python!ReviewedCheckout, Python!NotTagged,
     Python!CheckPython, Python!Confirm, Python!SignOrReuse, Python!VerifyTag,
     Python!VerifyWorkflow, Python!VerifyAssets, Python!GiveUp, Python!BranchAdvances,
     Python!CiRuns, Python!WorkflowRuns, Python!githubVars, Python!remoteVars
<1>2. /\ s7[p].step = "push" /\ Python!Remote(p) \in {None, Python!Local(p)}
      /\ s3' = [s3 EXCEPT ![Python!Target(p)] = Python!Local(p)]
  BY <1>1 DEF Python!Push
<1>3. t = Python!Target(p) /\ s3'[t] = s6[p][t] /\ s3[t] = None
  BY <1>2, PythonStaysTells DEF Python!Local, Python!Remote
<1> QED BY <1>2, <1>3, PythonStaysTells DEF Python!Checked, Python!SdkPublished, Python!Local

-----------------------------------------------------------------------------
(* The release of the platform: s1 the branch's tip, s2 the merge of the    *)
(* release PR, s3 the PR, s4 the checks, s5 and s6 the workflows that       *)
(* prepare and stage, s7 the final tag, s8 who dispatched, s9 and s10 the   *)
(* workflows that verify and publish, s11 the release, s12 the operators'   *)
(* tags, s13 their runs, s14 what they were told, s15 the bound, s16 the    *)
(* approvals.                                                               *)

(* No run: what is left of one that has ended.                              *)
LEMMA ReleaseNoRunTells ==
  /\ Release!NoRun \in Release!Runs
  /\ Release!NoRun.step = "idle" /\ Release!NoRun.command = "none"
  BY ReleaseAssumption DEF Release!NoRun, Release!Runs

(* No release PR, or an open one whose checks passed.                        *)
LEMMA ReleaseInit == Release!Init => Release!IInv
<1> SUFFICES ASSUME Release!Init PROVE Release!IInv OBVIOUS
<1>1. \A p \in Operators : s13[p] = Release!NoRun /\ s12[p] = None /\ s14[p] = "nothing"
  BY DEF Release!Init
<1>2. Release!TypeOK
  BY ReleaseNoRunTells, ReleaseAssumption
    DEF Release!Init, Release!TypeOK, Release!Advice, Release!Commits,
     Release!ReleaseAssumption
<1>3. \A p \in Operators : Release!CommandFits(p) /\ Release!Established(p) /\ Release!Verified(p)
  BY <1>1, ReleaseNoRunTells
    DEF Release!CommandFits, Release!Established, Release!Verified
<1> QED BY <1>2, <1>3 DEF Release!IInv, Release!Init, Release!Published

(* What the step of one operator leaves to the others.                       *)
LEMMA ReleaseOperatorKeeps ==
  ASSUME Release!IInv, NEW p \in Operators, s13' \in [Operators -> Release!Runs],
         UNCHANGED <<s1, s2, s3, s4, s7, Release!workflowVars>>, s5' \in 0..2,
         s6' \in Release!Objects \cup {None}, s8' \subseteq Release!Objects,
         s12' \in [Operators -> Release!Objects \cup {None}],
         s14' \in [Operators -> Release!Advice],
         s15' \in 0..ReleaseRuns, s16' \subseteq Release!Objects, s16 \subseteq s16',
         \A q \in Operators \ {p} :
           s13'[q] = s13[q] /\ s12'[q] = s12[q] /\ s14'[q] = s14[q],
         Release!CommandFits(p)', Release!Established(p)', Release!Verified(p)'
  PROVE  Release!IInv'
<1>1. Release!TypeOK'
  BY DEF Release!IInv, Release!TypeOK, Release!workflowVars
<1>2. ASSUME NEW q \in Operators \ {p}
      PROVE  (Release!CommandFits(q) /\ Release!Established(q) /\ Release!Verified(q))'
  <2>1. s13'[q] = s13[q] /\ s12'[q] = s12[q] /\ s14'[q] = s14[q]
    OBVIOUS
  <2>2. Release!CommandFits(q) /\ Release!Established(q) /\ Release!Verified(q)
    BY DEF Release!IInv
  <2> QED BY <2>1, <2>2
            DEF Release!CommandFits, Release!Established, Release!Verified, Release!Holds,
             Release!Target, Release!Published, Release!workflowVars
<1>3. (s2 # 0 => s3 = "merged")' /\ (Release!Published => s10 \in {"success", "expired"})'
  BY DEF Release!IInv, Release!Published, Release!workflowVars
<1> QED BY <1>1, <1>2, <1>3 DEF Release!IInv

(* A run, and what is known of it.                                           *)
LEMMA ReleaseRunTells ==
  ASSUME Release!IInv, NEW p \in Operators
  PROVE  /\ s13 \in [Operators -> Release!Runs] /\ s13[p] \in Release!Runs
         /\ s12 \in [Operators -> Release!Objects \cup {None}]
         /\ s12[p] \in Release!Objects \cup {None}
         /\ s14 \in [Operators -> Release!Advice] /\ s15 \in 0..ReleaseRuns
         /\ s16 \subseteq Release!Objects /\ s5 \in 0..2
         /\ s6 \in Release!Objects \cup {None} /\ s8 \subseteq Release!Objects
         /\ s1 \in Release!Commits /\ s7 \in Release!Objects \cup {None}
         /\ Release!CommandFits(p) /\ Release!Established(p) /\ Release!Verified(p)
  BY DEF Release!IInv, Release!TypeOK

(* A run that goes on keeps its command and its checkout.                   *)
LEMMA ReleaseGotoTells ==
  ASSUME Release!IInv, NEW p \in Operators,
         NEW to \in {"gate", "refs", "check", "confirm", "again", "sign", "stage", "push",
                     "dispatch", "tag", "evidence", "release", "preview", "answer", "inspect",
                     "advise"},
         Release!Goto(p, to)
  PROVE  /\ s13' \in [Operators -> Release!Runs] /\ s14' = s14 /\ s15' = s15
         /\ s13'[p].step = to /\ s13'[p].command = s13[p].command
         /\ s13'[p].checkout = s13[p].checkout /\ s13'[p].passed = s13[p].passed
         /\ \A q \in Operators \ {p} : s13'[q] = s13[q]
<1>1. PICK x : x = [s13[p] EXCEPT !.step = to]
  OBVIOUS
<1>2. /\ x \in Release!Runs /\ x.step = to /\ x.command = s13[p].command
      /\ x.checkout = s13[p].checkout /\ x.passed = s13[p].passed
  BY <1>1, ReleaseRunTells DEF Release!Runs
<1>3. s13' = [s13 EXCEPT ![p] = x]
  BY <1>1 DEF Release!Goto
<1> QED BY <1>2, <1>3, ReleaseRunTells DEF Release!Goto

(* A run that has ended keeps what it verified.                              *)
LEMMA ReleaseEndKeeps ==
  ASSUME Release!IInv, NEW p \in Operators, NEW word \in Release!Advice, Release!End(p, word),
         UNCHANGED <<s1, s2, s3, s4, Release!tagVars, Release!workflowVars, s12, s16>>,
         s5' \in 0..2,
         word = "verified" => Release!Holds(p) /\ s9 = "success" /\ Release!Published
  PROVE  Release!IInv'
<1>1. /\ s13' = [s13 EXCEPT ![p] = Release!NoRun] /\ s14' = [s14 EXCEPT ![p] = word]
      /\ UNCHANGED s15
  BY DEF Release!End
<1>2. s13'[p] = Release!NoRun /\ s13' \in [Operators -> Release!Runs] /\ s14'[p] = word
  BY <1>1, ReleaseRunTells, ReleaseNoRunTells
<1>3. Release!CommandFits(p)' /\ Release!Established(p)' /\ Release!Verified(p)'
  BY <1>2, ReleaseNoRunTells
    DEF Release!CommandFits, Release!Established, Release!Verified, Release!Holds,
     Release!Published, Release!tagVars, Release!workflowVars
<1>4. s14' \in [Operators -> Release!Advice]
      /\ \A q \in Operators \ {p} : s13'[q] = s13[q] /\ s12'[q] = s12[q] /\ s14'[q] = s14[q]
  BY <1>1, ReleaseRunTells
<1> QED BY <1>1, <1>2, <1>3, <1>4, ReleaseRunTells, ReleaseOperatorKeeps DEF Release!tagVars

(* A command starts with nothing known, and takes back what was reported.    *)
LEMMA ReleaseStartKeeps ==
  ASSUME Release!IInv, NEW p \in Operators, NEW c \in Release!Commits \cup {None},
         NEW confirm \in Release!Commits \cup {None},
         \/ Release!Start(p, "prepare", "fetch", c, confirm)
         \/ Release!Start(p, "publish", "fetch", c, confirm)
         \/ Release!Start(p, "status", "inspect", c, confirm)
         \/ Release!Start(p, "continue", "inspect", c, confirm)
  PROVE  Release!IInv'
<1>1. PICK command \in {"prepare", "publish", "status", "continue"},
      first \in {"fetch", "inspect"} :
        /\ Release!Start(p, command, first, c, confirm)
        /\ first = "fetch" => command \in {"prepare", "publish"}
  OBVIOUS
<1>2. PICK x : x = [Release!NoRun EXCEPT !.step = first, !.command = command, !.reviewed = c,
                                 !.phrase = confirm]
  OBVIOUS
<1>3. x = [step |-> first, command |-> command, checkout |-> None, reviewed |-> c,
           phrase |-> confirm, passed |-> None, attempt |-> 0]
  BY <1>2 DEF Release!NoRun
<1>4. x \in Release!Runs /\ x.step = first /\ x.command = command
  BY <1>1, <1>3 DEF Release!Runs
<1>5. s13' = [s13 EXCEPT ![p] = x] /\ s14' = [s14 EXCEPT ![p] = "nothing"]
      /\ UNCHANGED <<Release!githubVars, s12, s16>> /\ s15' \in 0..ReleaseRuns
  BY <1>1, <1>2, ReleaseRunTells, ReleaseAssumption DEF Release!Start, Release!ReleaseAssumption
<1>6. s13' \in [Operators -> Release!Runs] /\ s13'[p] = x /\ s14'[p] = "nothing"
      /\ s14' \in [Operators -> Release!Advice]
      /\ \A q \in Operators \ {p} : s13'[q] = s13[q] /\ s12'[q] = s12[q] /\ s14'[q] = s14[q]
  BY <1>4, <1>5, ReleaseRunTells DEF Release!Advice
<1>7. Release!CommandFits(p)' /\ Release!Established(p)' /\ Release!Verified(p)'
  BY <1>1, <1>4, <1>6 DEF Release!CommandFits, Release!Established, Release!Verified
<1> QED BY <1>5, <1>6, <1>7, ReleaseRunTells, ReleaseOperatorKeeps
          DEF Release!githubVars, Release!prVars, Release!tagVars

(* The fetch brings the final tag along, to a clone that held no other.      *)
LEMMA ReleaseReleaseCheckoutKeeps ==
  ASSUME Release!IInv, NEW p \in Operators, Release!ReleaseCheckout(p)
  PROVE  Release!IInv'
<1>1. PICK to : to = IF s13[p].command = "prepare" THEN "preview" ELSE "gate"
  OBVIOUS
<1>2. PICK x : x = [s13[p] EXCEPT !.checkout = s1, !.step = to]
  OBVIOUS
<1>3. x \in Release!Runs /\ x.step = to /\ x.command = s13[p].command
  <2>1. s13[p] \in Release!Runs /\ s1 \in Release!Commits /\ to \in {"preview", "gate"}
    BY <1>1, ReleaseRunTells
  <2> QED BY ONLY <1>2, <2>1 DEF Release!Runs
<1>4. s13' = [s13 EXCEPT ![p] = x]
  BY <1>1, <1>2, ReleaseRunTells DEF Release!ReleaseCheckout
<1>5. /\ s13[p].step = "fetch" /\ UNCHANGED <<Release!githubVars, s14, s15, s16>>
      /\ s12' = [s12 EXCEPT ![p] = IF s7 = None THEN s12[p] ELSE s7]
  BY ReleaseRunTells DEF Release!ReleaseCheckout
<1>6. s13' \in [Operators -> Release!Runs] /\ s13'[p] = x
      /\ s12' \in [Operators -> Release!Objects \cup {None}]
      /\ \A q \in Operators \ {p} : s13'[q] = s13[q] /\ s12'[q] = s12[q] /\ s14'[q] = s14[q]
  BY <1>3, <1>4, <1>5, ReleaseRunTells
<1>7. s14'[p] = "nothing"
  BY <1>5, ReleaseRunTells DEF Release!Verified
<1>8. Release!CommandFits(p)' /\ Release!Established(p)' /\ Release!Verified(p)'
  BY <1>1, <1>3, <1>5, <1>6, <1>7, ReleaseRunTells
    DEF Release!CommandFits, Release!Established, Release!Verified
<1> QED BY <1>5, <1>6, <1>8, ReleaseRunTells, ReleaseOperatorKeeps
          DEF Release!githubVars, Release!prVars, Release!tagVars

(* A stale target: everything is validated anew.                             *)
LEMMA ReleaseStaleKeeps ==
  ASSUME Release!IInv, NEW p \in Operators, Release!Stale(p)
  PROVE  Release!IInv'
<1>1. PICK x : x = [s13[p] EXCEPT !.step = "fetch", !.attempt = s13[p].attempt + 1,
                                  !.passed = None, !.checkout = None]
  OBVIOUS
<1>2. s13[p].attempt < 2 /\ s13[p].step \in {"gate", "preview", "answer", "again", "stage"}
      /\ UNCHANGED <<Release!githubVars, s12, s14, s15, s16>>
  BY DEF Release!Stale
<1>3. x \in Release!Runs /\ x.step = "fetch" /\ x.command = s13[p].command
  <2>1. s13[p].attempt + 1 \in 0..2
    BY <1>2, ReleaseRunTells DEF Release!Runs
  <2>2. s13[p] \in Release!Runs
    BY ReleaseRunTells
  <2> QED BY ONLY <1>1, <2>1, <2>2 DEF Release!Runs
<1>4. s13' = [s13 EXCEPT ![p] = x]
  BY <1>1, ReleaseRunTells DEF Release!Stale, Release!Revalidate
<1>5. s13' \in [Operators -> Release!Runs] /\ s13'[p] = x
      /\ \A q \in Operators \ {p} : s13'[q] = s13[q] /\ s12'[q] = s12[q] /\ s14'[q] = s14[q]
  BY <1>2, <1>3, <1>4, ReleaseRunTells
<1>6. s14'[p] = "nothing" /\ s13[p].command \in {"prepare", "publish"}
  BY <1>2, ReleaseRunTells DEF Release!Verified, Release!CommandFits
<1>7. Release!CommandFits(p)' /\ Release!Established(p)' /\ Release!Verified(p)'
  BY <1>3, <1>5, <1>6 DEF Release!CommandFits, Release!Established, Release!Verified
<1> QED BY <1>2, <1>5, <1>7, ReleaseRunTells, ReleaseOperatorKeeps
          DEF Release!githubVars, Release!prVars, Release!tagVars

(* A run that goes on, in the clone as it is: what is to be known at the     *)
(* next step was known, or has just been seen.                               *)
LEMMA ReleaseStepKeeps ==
  ASSUME Release!IInv, NEW p \in Operators,
         NEW to \in {"gate", "refs", "check", "again", "sign", "stage", "push", "dispatch",
                     "tag", "evidence", "release", "answer", "advise"},
         s13[p].step # "idle", Release!Goto(p, to),
         UNCHANGED <<Release!prVars, s7, Release!workflowVars, s12>>,
         s6' \in Release!Objects \cup {None}, s8' \subseteq Release!Objects,
         s16' \subseteq Release!Objects, s16 \subseteq s16',
         to = "answer" => s13[p].command = "prepare",
         to \in {"gate", "refs", "check", "again", "sign", "stage", "push", "dispatch"} =>
           s13[p].command = "publish",
         to \in {"refs", "check", "again", "sign", "stage", "push"} => Release!Target(p),
         to \in {"again", "sign", "stage", "push", "dispatch"} => <<p, s13[p].checkout>> \in s16',
         to \in {"stage", "push", "dispatch"} => s12[p] = <<p, s13[p].checkout>>,
         to = "tag" /\ s13[p].command # "publish" => Release!Holds(p),
         to \in {"evidence", "release"} => Release!Holds(p),
         to = "release" => s9 = "success"
  PROVE  Release!IInv'
<1>1. /\ s13' \in [Operators -> Release!Runs] /\ s14' = s14 /\ s15' = s15
      /\ s13'[p].step = to /\ s13'[p].command = s13[p].command
      /\ s13'[p].checkout = s13[p].checkout
      /\ \A q \in Operators \ {p} : s13'[q] = s13[q]
  BY ReleaseGotoTells
<1>2. UNCHANGED <<s1, s2, s3, s4, s5, s7, s9, s12>>
  BY DEF Release!prVars, Release!workflowVars
<1>3. s14[p] = "nothing"
  BY ReleaseRunTells DEF Release!Verified
<1>4. Release!CommandFits(p)'
  BY <1>1 DEF Release!CommandFits
<1>5. Release!Established(p)'
  BY <1>1, <1>2 DEF Release!Established, Release!Target, Release!Holds
<1>6. Release!Verified(p)'
  BY <1>1, <1>3 DEF Release!Verified
<1> QED BY <1>1, <1>2, <1>4, <1>5, <1>6, ReleaseRunTells, ReleaseOperatorKeeps DEF Release!prVars

(* The steps that only look: what they see is what the next step relies on.  *)
LEMMA ReleaseLooksKeep ==
  ASSUME Release!IInv, NEW p \in Operators,
         \/ Release!Preview(p) \/ Release!Gate(p) \/ Release!NoTagYet(p) \/ Release!Again(p)
         \/ Release!Stage(p)
         \/ Release!WaitForTag(p) \/ Release!WorkflowsVerified(p)
  PROVE  Release!IInv'
<1>0. Release!CommandFits(p) /\ Release!Established(p) /\ s6 \in Release!Objects \cup {None}
      /\ s8 \subseteq Release!Objects /\ s16 \subseteq Release!Objects
  BY ReleaseRunTells
<1>1. UNCHANGED <<Release!prVars, s7, Release!workflowVars, s12, s6, s8, s16>>
  BY DEF Release!Preview, Release!Gate, Release!NoTagYet, Release!Again, Release!Stage,
     Release!WaitForTag, Release!WorkflowsVerified, Release!githubVars, Release!tagVars
<1>2. CASE Release!Preview(p)
  <2>1. s13[p].step = "preview" /\ Release!Goto(p, "answer")
    BY <1>2 DEF Release!Preview, Release!Step
  <2> QED BY <1>0, <1>1, <2>1, ReleaseStepKeeps DEF Release!CommandFits
<1>3. CASE Release!Gate(p)
  <2>1. s13[p].step = "gate" /\ Release!Goto(p, "refs") /\ Release!Target(p)
    BY <1>3 DEF Release!Gate, Release!Step, Release!MergedAndGreen, Release!Target
  <2> QED BY <1>0, <1>1, <2>1, ReleaseStepKeeps DEF Release!CommandFits
<1>4. CASE Release!NoTagYet(p)
  <2>1. s13[p].step = "refs" /\ Release!Goto(p, "check")
    BY <1>4 DEF Release!NoTagYet, Release!Step
  <2>2. s13[p].command = "publish" /\ Release!Target(p)
    BY <1>0, <2>1 DEF Release!CommandFits, Release!Established
  <2> QED BY <1>0, <1>1, <2>1, <2>2, ReleaseStepKeeps
<1>5. CASE Release!Again(p)
  <2>1. s13[p].step = "again" /\ Release!Goto(p, "sign")
    BY <1>5 DEF Release!Again, Release!Step
  <2>2. s13[p].command = "publish" /\ Release!Target(p) /\ <<p, s13[p].checkout>> \in s16
    BY <1>0, <2>1 DEF Release!CommandFits, Release!Established
  <2> QED BY <1>0, <1>1, <2>1, <2>2, ReleaseStepKeeps
<1>6. CASE Release!Stage(p)
  <2>1. s13[p].step = "stage" /\ Release!Goto(p, "push")
    BY <1>6 DEF Release!Stage, Release!Step
  <2>2. s13[p].command = "publish" /\ Release!Target(p) /\ <<p, s13[p].checkout>> \in s16
        /\ s12[p] = <<p, s13[p].checkout>>
    BY <1>0, <2>1 DEF Release!CommandFits, Release!Established
  <2> QED BY <1>0, <1>1, <2>1, <2>2, ReleaseStepKeeps
<1>7. CASE Release!WaitForTag(p)
  <2>1. s13[p].step = "tag" /\ Release!Goto(p, "evidence") /\ s7 # None
        /\ (s13[p].command = "publish" => s7 = s12[p])
    BY <1>7 DEF Release!WaitForTag, Release!Step
  <2>2. Release!Holds(p)
    BY <1>0, <2>1 DEF Release!Established, Release!Holds
  <2> QED BY <1>0, <1>1, <2>1, <2>2, ReleaseStepKeeps
<1>8. CASE Release!WorkflowsVerified(p)
  <2>1. s13[p].step = "evidence" /\ Release!Goto(p, "release") /\ s9 = "success"
    BY <1>8 DEF Release!WorkflowsVerified, Release!Step
  <2>2. Release!Holds(p)
    BY <1>0, <2>1 DEF Release!Established
  <2> QED BY <1>0, <1>1, <2>1, <2>2, ReleaseStepKeeps
<1> QED BY <1>2, <1>3, <1>4, <1>5, <1>6, <1>7, <1>8

(* The checks passed on the checkout.                                        *)
LEMMA ReleaseChecksKeeps ==
  ASSUME Release!IInv, NEW p \in Operators, Release!Checks(p)
  PROVE  Release!IInv'
<1>1. PICK x : x = [s13[p] EXCEPT !.step = "confirm", !.passed = s13[p].checkout]
  OBVIOUS
<1>2. /\ x \in Release!Runs /\ x.step = "confirm" /\ x.command = s13[p].command
      /\ x.checkout = s13[p].checkout /\ x.passed = s13[p].checkout
  BY <1>1, ReleaseRunTells DEF Release!Runs
<1>3. s13' = [s13 EXCEPT ![p] = x]
  BY <1>1, ReleaseRunTells DEF Release!Checks
<1>4. s13[p].step = "check" /\ UNCHANGED <<Release!githubVars, s12, s14, s15, s16>>
  BY DEF Release!Checks
<1>5. s13' \in [Operators -> Release!Runs] /\ s13'[p] = x
      /\ \A q \in Operators \ {p} : s13'[q] = s13[q] /\ s12'[q] = s12[q] /\ s14'[q] = s14[q]
  BY <1>2, <1>3, <1>4, ReleaseRunTells
<1>6. s14'[p] = "nothing" /\ s13[p].command = "publish" /\ Release!Target(p)
  BY <1>4, ReleaseRunTells DEF Release!Verified, Release!CommandFits, Release!Established
<1>7. Release!CommandFits(p)' /\ Release!Established(p)' /\ Release!Verified(p)'
  BY <1>2, <1>4, <1>5, <1>6
    DEF Release!CommandFits, Release!Established, Release!Verified, Release!Target,
     Release!githubVars, Release!prVars
<1> QED BY <1>4, <1>5, <1>7, ReleaseRunTells, ReleaseOperatorKeeps
          DEF Release!githubVars, Release!prVars, Release!tagVars

(* The operator confirms the commit on which the checks passed.              *)
LEMMA ReleaseConfirmKeeps ==
  ASSUME Release!IInv, NEW p \in Operators, Release!Confirm(p)
  PROVE  Release!IInv'
<1>1. s13[p].step = "confirm" /\ Release!Goto(p, "again") /\ UNCHANGED <<Release!githubVars, s12>>
      /\ s16' = s16 \cup ({<<p, s13[p].checkout>>} \cap {<<p, s13[p].passed>>})
  BY DEF Release!Confirm, Release!Step
<1>2. s13[p].command = "publish" /\ Release!Target(p) /\ s13[p].passed = s13[p].checkout
  BY <1>1, ReleaseRunTells DEF Release!CommandFits, Release!Established
<1>3. s13[p].checkout \in Release!Commits /\ <<p, s13[p].checkout>> \in Release!Objects
  <2>1. s2 \in Release!Commits
    BY ReleaseAssumption
      DEF Release!IInv, Release!TypeOK, Release!Commits, Release!ReleaseAssumption
  <2> QED BY <1>2, <2>1 DEF Release!Target, Release!Objects
<1>4. s16' = s16 \cup {<<p, s13[p].checkout>>}
  BY <1>1, <1>2
<1> QED BY <1>1, <1>2, <1>3, <1>4, ReleaseRunTells, ReleaseStepKeeps
          DEF Release!githubVars, Release!tagVars

(* Signed for the checkout, in the operator's own name.                      *)
LEMMA ReleaseSignKeeps ==
  ASSUME Release!IInv, NEW p \in Operators, Release!Sign(p)
  PROVE  Release!IInv'
<1>1. s13[p].step = "sign" /\ Release!Goto(p, "stage") /\ UNCHANGED <<Release!githubVars, s16>>
      /\ s12' = [s12 EXCEPT ![p] = <<p, s13[p].checkout>>]
  BY DEF Release!Sign, Release!Step
<1>2. s13[p].command = "publish" /\ Release!Target(p) /\ <<p, s13[p].checkout>> \in s16
      /\ s14[p] = "nothing"
  BY <1>1, ReleaseRunTells DEF Release!CommandFits, Release!Established, Release!Verified
<1>3. <<p, s13[p].checkout>> \in Release!Objects
  BY <1>2, ReleaseRunTells
<1>4. /\ s13' \in [Operators -> Release!Runs] /\ s14' = s14 /\ s15' = s15
      /\ s13'[p].step = "stage" /\ s13'[p].command = s13[p].command
      /\ s13'[p].checkout = s13[p].checkout
      /\ \A q \in Operators \ {p} : s13'[q] = s13[q]
  BY <1>1, ReleaseGotoTells
<1>5. s12' \in [Operators -> Release!Objects \cup {None}] /\ s12'[p] = <<p, s13[p].checkout>>
      /\ \A q \in Operators \ {p} : s12'[q] = s12[q]
  BY <1>1, <1>3, ReleaseRunTells
<1>6. Release!CommandFits(p)' /\ Release!Established(p)' /\ Release!Verified(p)'
  BY <1>1, <1>2, <1>4, <1>5
    DEF Release!CommandFits, Release!Established, Release!Verified, Release!Target,
     Release!githubVars, Release!prVars
<1> QED BY <1>1, <1>4, <1>5, <1>6, ReleaseRunTells, ReleaseOperatorKeeps
          DEF Release!githubVars, Release!prVars, Release!tagVars

(* The signed tag is staged, and the creation workflow is asked.             *)
LEMMA ReleasePushKeeps ==
  ASSUME Release!IInv, NEW p \in Operators, Release!Push(p) \/ Release!Dispatch(p)
  PROVE  Release!IInv'
<1>1. CASE Release!Push(p)
  <2>1. s13[p].step = "push" /\ Release!Goto(p, "dispatch") /\ s6' = s12[p]
        /\ UNCHANGED <<Release!prVars, s7, s8, Release!workflowVars, s12, s16>>
    BY <1>1 DEF Release!Push, Release!Step
  <2>2. s13[p].command = "publish" /\ s12[p] = <<p, s13[p].checkout>>
        /\ <<p, s13[p].checkout>> \in s16
    BY <2>1, ReleaseRunTells DEF Release!CommandFits, Release!Established
  <2> QED BY <2>1, <2>2, ReleaseRunTells, ReleaseStepKeeps
<1>2. CASE Release!Dispatch(p)
  <2>1. s13[p].step = "dispatch" /\ Release!Goto(p, "tag") /\ s8' = s8 \cup {s12[p]}
        /\ UNCHANGED <<Release!prVars, s6, s7, Release!workflowVars, s12, s16>>
    BY <1>2 DEF Release!Dispatch, Release!Step
  <2>2. s13[p].command = "publish" /\ s12[p] = <<p, s13[p].checkout>>
        /\ <<p, s13[p].checkout>> \in s16
    BY <2>1, ReleaseRunTells DEF Release!CommandFits, Release!Established
  <2>3. s12[p] \in Release!Objects
    BY <2>2, ReleaseRunTells
  <2> QED BY <2>1, <2>2, <2>3, ReleaseRunTells, ReleaseStepKeeps
<1> QED BY <1>1, <1>2

(* Of the tags at the remote one tells what is still to be done.            *)
LEMMA ReleaseInspectRefsKeeps ==
  ASSUME Release!IInv, NEW p \in Operators, Release!InspectRefs(p)
  PROVE  Release!IInv'
<1>1. s13[p].step = "inspect" /\ Release!Agree(p) /\ UNCHANGED <<Release!githubVars, s12, s16>>
  BY DEF Release!InspectRefs
<1>2. CASE s13[p].command = "continue" /\ s7 # None
  <2>1. Release!Goto(p, "tag") /\ Release!Holds(p)
    BY <1>1, <1>2 DEF Release!InspectRefs, Release!Agree, Release!Holds
  <2> QED BY <1>1, <2>1, ReleaseRunTells, ReleaseStepKeeps DEF Release!githubVars, Release!tagVars
<1>3. CASE ~(s13[p].command = "continue" /\ s7 # None)
  <2>1. Release!Goto(p, "advise")
    BY <1>1, <1>3 DEF Release!InspectRefs
  <2> QED BY <1>1, <2>1, ReleaseRunTells, ReleaseStepKeeps DEF Release!githubVars, Release!tagVars
<1> QED BY <1>2, <1>3

(* A run that advises, or gives up, has changed nothing.                    *)
LEMMA ReleaseAdviseKeeps ==
  ASSUME Release!IInv, NEW p \in Operators, Release!Advise(p) \/ Release!GiveUp(p)
  PROVE  Release!IInv'
<1>1. CASE Release!Advise(p)
  <2>1. PICK word : word = Release!NextAction(p)
    OBVIOUS
  <2>2. word \in Release!Advice /\ word # "verified"
    BY <2>1 DEF Release!NextAction, Release!Advice
  <2> QED BY <1>1, <2>1, <2>2, ReleaseRunTells, ReleaseEndKeeps
            DEF Release!Advise, Release!githubVars, Release!prVars
<1>2. CASE Release!GiveUp(p)
  BY <1>2, ReleaseRunTells, ReleaseEndKeeps
    DEF Release!GiveUp, Release!githubVars, Release!prVars, Release!Advice
<1> QED BY <1>1, <1>2

(* The workflow that prepares a release is started by hand.                 *)
LEMMA ReleaseDispatchPreparationKeeps ==
  ASSUME Release!IInv, NEW p \in Operators, Release!DispatchPreparation(p) PROVE Release!IInv'
<1>1. s5' \in 0..2
  BY ReleaseRunTells DEF Release!DispatchPreparation
<1>2. Release!End(p, "dispatched") /\ "dispatched" \in Release!Advice
      /\ UNCHANGED <<s1, s2, s3, s4, Release!tagVars, Release!workflowVars, s12, s16>>
  BY DEF Release!DispatchPreparation, Release!Advice
<1> QED BY <1>1, <1>2, ReleaseEndKeeps

(* The publication was seen, of the tag the operator holds.                  *)
LEMMA ReleaseReleaseSeenKeeps ==
  ASSUME Release!IInv, NEW p \in Operators, Release!ReleaseSeen(p)
  PROVE  Release!IInv'
<1>1. Release!Holds(p) /\ s9 = "success" /\ Release!Published
  BY ReleaseRunTells DEF Release!ReleaseSeen, Release!Established
<1>2. Release!End(p, "verified") /\ "verified" \in Release!Advice
      /\ UNCHANGED <<Release!githubVars, s12, s16>>
  BY DEF Release!ReleaseSeen, Release!Advice
<1> QED BY <1>1, <1>2, ReleaseRunTells, ReleaseEndKeeps DEF Release!githubVars, Release!prVars

(* A tag that is fetched apart comes to a clone without one.                 *)
LEMMA ReleaseFetchTagKeeps ==
  ASSUME Release!IInv, NEW p \in Operators, Release!FetchTag(p)
  PROVE  Release!IInv'
<1>1. /\ s13[p] = Release!NoRun /\ s12[p] = None /\ s7 # None
      /\ s12' = [s12 EXCEPT ![p] = s7]
      /\ UNCHANGED <<Release!githubVars, s13, s14, s15, s16>>
  BY DEF Release!FetchTag
<1>2. s12' \in [Operators -> Release!Objects \cup {None}]
      /\ \A q \in Operators \ {p} : s12'[q] = s12[q]
  BY <1>1, ReleaseRunTells
<1>3. s14[p] # "verified"
  BY <1>1, ReleaseRunTells DEF Release!Verified, Release!Holds
<1>4. Release!CommandFits(p)' /\ Release!Established(p)' /\ Release!Verified(p)'
  BY <1>1, <1>3, ReleaseNoRunTells
    DEF Release!CommandFits, Release!Established, Release!Verified
<1> QED BY <1>1, <1>2, <1>4, ReleaseRunTells, ReleaseOperatorKeeps
          DEF Release!githubVars, Release!prVars, Release!tagVars

(* GitHub merges the PR once, and takes back no tag, no verification and no  *)
(* publication.                                                              *)
LEMMA ReleaseGitHubKeeps ==
  ASSUME Release!IInv,
         \/ Release!BranchAdvances \/ Release!PreparationEnds \/ Release!Review
         \/ Release!WorkflowProgress
         \/ \E o \in Release!Objects : Release!TagCreated(o)
  PROVE  Release!IInv'
<1>1. UNCHANGED Release!operatorVars
  BY DEF Release!BranchAdvances, Release!PreparationEnds, Release!Review,
     Release!WorkflowProgress, Release!TagCreated
<1>2. /\ s2 # 0 => UNCHANGED s2
      /\ s7 # None => UNCHANGED s7
      /\ s9 = "success" => s9' = "success" \/ s7 = None
      /\ Release!Published => Release!Published'
      /\ (s2 # 0 => s3 = "merged")'
  <2>1. s2 # 0 => s3 = "merged"
    BY DEF Release!IInv
  <2>2. CASE Release!BranchAdvances \/ Release!PreparationEnds
    BY <2>1, <2>2
      DEF Release!BranchAdvances, Release!PreparationEnds, Release!tagVars, Release!workflowVars,
       Release!Published
  <2>3. CASE Release!Review
    BY <2>1, <2>3 DEF Release!Review, Release!tagVars, Release!workflowVars, Release!Published
  <2>4. CASE Release!WorkflowProgress
    <3>1. UNCHANGED <<s2, s3, s7>>
      BY <2>4 DEF Release!WorkflowProgress, Release!prVars, Release!tagVars
    <3>2. s9 = "success" => s9' = "success"
      BY <2>4 DEF Release!WorkflowProgress
    <3>3. Release!Published => Release!Published'
      BY <2>4 DEF Release!WorkflowProgress, Release!Published, Release!IInv
    <3> QED BY <2>1, <3>1, <3>2, <3>3
  <2>5. CASE \E o \in Release!Objects : Release!TagCreated(o)
    BY <2>1, <2>5 DEF Release!TagCreated, Release!prVars, Release!Published
  <2> QED BY <2>2, <2>3, <2>4, <2>5
<1>3. Release!TypeOK'
  <2>1. s1' \in Release!Commits /\ s2' \in 0..s1'
    BY ReleaseAssumption
      DEF Release!BranchAdvances, Release!PreparationEnds, Release!Review,
       Release!WorkflowProgress, Release!TagCreated, Release!prVars, Release!IInv,
       Release!TypeOK, Release!Commits, Release!ReleaseAssumption
  <2>2. /\ s3' \in {"none", "draft", "open", "merged", "closed"}
        /\ s4' \in {"none", "pending", "success", "failure"} /\ s5' \in 0..2
    BY DEF Release!BranchAdvances, Release!PreparationEnds, Release!Review,
       Release!WorkflowProgress, Release!TagCreated, Release!prVars, Release!IInv, Release!TypeOK
  <2>3. s6' \in Release!Objects \cup {None} /\ s7' \in Release!Objects \cup {None}
        /\ s8' \subseteq Release!Objects
    BY DEF Release!BranchAdvances, Release!PreparationEnds, Release!Review,
       Release!WorkflowProgress, Release!TagCreated, Release!tagVars, Release!IInv,
       Release!TypeOK
  <2>4. /\ s9' \in {"none", "pending", "success", "failure"}
        /\ s10' \in {"none", "running", "success", "failure", "expired"}
        /\ s11' \in {"missing", "draft", "published"}
    BY DEF Release!BranchAdvances, Release!PreparationEnds, Release!Review,
       Release!WorkflowProgress, Release!TagCreated, Release!workflowVars, Release!IInv,
       Release!TypeOK
  <2> QED BY <1>1, <2>1, <2>2, <2>3, <2>4 DEF Release!operatorVars, Release!IInv, Release!TypeOK
<1>4. ASSUME NEW p \in Operators
      PROVE  (Release!CommandFits(p) /\ Release!Established(p) /\ Release!Verified(p))'
  <2>1. Release!CommandFits(p) /\ Release!Established(p) /\ Release!Verified(p)
    BY ReleaseRunTells
  <2>2. Release!Target(p) => Release!Target(p)'
    BY <1>1, <1>2 DEF Release!Target, Release!operatorVars
  <2>3. Release!Holds(p) => Release!Holds(p)'
    BY <1>1, <1>2 DEF Release!Holds, Release!operatorVars
  <2>4. Release!Holds(p) /\ s9 = "success" => s9' = "success"
    BY <1>2 DEF Release!Holds
  <2> QED BY <1>1, <1>2, <2>1, <2>2, <2>3, <2>4
            DEF Release!CommandFits, Release!Established, Release!Verified, Release!operatorVars
<1>5. (Release!Published => s10 \in {"success", "expired"})'
  <2>1. Release!Published => s10 \in {"success", "expired"}
    BY DEF Release!IInv
  <2>2. CASE Release!WorkflowProgress
    BY <2>1, <2>2 DEF Release!WorkflowProgress, Release!Published
  <2>3. CASE ~Release!WorkflowProgress
    BY <2>1, <2>3
      DEF Release!Published, Release!BranchAdvances, Release!PreparationEnds, Release!Review,
       Release!TagCreated, Release!workflowVars
  <2> QED BY <2>2, <2>3
<1> QED BY <1>2, <1>3, <1>4, <1>5 DEF Release!IInv

(* Every step keeps the invariant.                                           *)
LEMMA ReleaseNext == ASSUME Release!IInv, Release!Next PROVE Release!IInv'
<1>1. ASSUME NEW p \in Operators,
             Release!Prepare(p) \/ Release!Inspection(p) \/ Release!Publish(p)
      PROVE  Release!IInv'
  BY <1>1, ReleaseStartKeeps, ReleaseRunTells
    DEF Release!Prepare, Release!Inspection, Release!Publish
<1>2. ASSUME NEW p \in Operators,
             \/ Release!ReleaseCheckout(p) \/ Release!Stale(p) \/ Release!GiveUp(p)
             \/ Release!Preview(p) \/ Release!DispatchPreparation(p)
             \/ Release!Gate(p) \/ Release!NoTagYet(p) \/ Release!Checks(p)
             \/ Release!Confirm(p) \/ Release!Again(p) \/ Release!Sign(p)
             \/ Release!Stage(p) \/ Release!Push(p) \/ Release!Dispatch(p)
             \/ Release!WaitForTag(p) \/ Release!WorkflowsVerified(p) \/ Release!ReleaseSeen(p)
             \/ Release!InspectRefs(p) \/ Release!Advise(p) \/ Release!FetchTag(p)
      PROVE  Release!IInv'
  BY <1>2, ReleaseReleaseCheckoutKeeps, ReleaseStaleKeeps, ReleaseAdviseKeeps, ReleaseLooksKeep,
     ReleaseDispatchPreparationKeeps, ReleaseChecksKeeps, ReleaseConfirmKeeps, ReleaseSignKeeps,
     ReleasePushKeeps, ReleaseReleaseSeenKeeps, ReleaseInspectRefsKeeps, ReleaseFetchTagKeeps
<1> QED BY <1>1, <1>2, ReleaseGitHubKeeps DEF Release!Next

(* Only Push stages a tag, and its run has earned it.                        *)
LEMMA ReleaseStep ==
  ASSUME Release!IInv, Release!IInv', Release!Next
  PROVE  Release!ReleasesAreAuthorisedStep
<1>1. ASSUME s6' # s6
      PROVE  s6 = None /\ s6' \in s16 /\ s6'[2] = s2
  <2>1. PICK p \in Operators : Release!Push(p)
    BY <1>1
      DEF Release!Next, Release!Prepare, Release!Inspection, Release!Publish,
       Release!Start, Release!ReleaseCheckout, Release!Stale, Release!GiveUp, Release!Preview,
       Release!DispatchPreparation, Release!Gate, Release!NoTagYet, Release!Checks,
       Release!Confirm, Release!Again, Release!Sign, Release!Stage, Release!Dispatch,
       Release!WaitForTag, Release!WorkflowsVerified, Release!ReleaseSeen, Release!InspectRefs,
       Release!Advise, Release!FetchTag, Release!BranchAdvances, Release!PreparationEnds,
       Release!Review, Release!WorkflowProgress, Release!TagCreated, Release!githubVars,
       Release!tagVars
  <2>2. s13[p].step = "push" /\ s6 = None /\ s6' = s12[p]
    BY <2>1 DEF Release!Push, Release!Step
  <2>3. <<p, s13[p].checkout>> \in s16 /\ s12[p] = <<p, s13[p].checkout>>
        /\ s13[p].checkout = s2
    BY <2>2, ReleaseRunTells DEF Release!Established, Release!Target
  <2> QED BY <2>2, <2>3
<1>2. Release!VerifiedIsPublished'
  BY DEF Release!IInv, Release!Verified, Release!Holds, Release!VerifiedIsPublished
<1> QED BY <1>1, <1>2 DEF Release!ReleasesAreAuthorisedStep

-----------------------------------------------------------------------------
(* The runtime activation: s1 the saved choices, s2 the options, s3 the      *)
(* receipts, s4 the local models, s5 the target's bundles, s6 its links, s7  *)
(* its containers, s8 the step, s9 the operation, s10 the last answer, s11   *)
(* the bound.                                                                *)

(* The tool's cardinality, and finite sets, are the library's.               *)
LEMMA RuntimeCounts ==
  \A S : /\ Runtime!IsFiniteSet(S) <=> IsFiniteSet(S)
         /\ Runtime!Cardinality(S) = Cardinality(S)
  BY DEF Runtime!IsFiniteSet, IsFiniteSet, Runtime!Cardinality, Cardinality

(* A set made a sequence keeps its elements, gains none and repeats none.    *)
LEMMA RuntimeSetToSeqTells ==
  ASSUME NEW S, S \subseteq Aliases
  PROVE  /\ Runtime!SetToSeq(S) \in Seq(Aliases) /\ Runtime!Range(Runtime!SetToSeq(S)) = S
         /\ \A i, j \in 1..Len(Runtime!SetToSeq(S)) :
              Runtime!SetToSeq(S)[i] = Runtime!SetToSeq(S)[j] => i = j
<1>1. PICK n : n = Cardinality(S)
  OBVIOUS
<1>2. IsFiniteSet(S)
  BY FS_Subset, RuntimeAssumption, RuntimeCounts DEF Runtime!RuntimeAssumption
<1>3. n \in Nat /\ ExistsBijection(1..n, S)
  BY <1>1, <1>2, FS_CardinalityType
<1>4. PICK f : f = Runtime!SetToSeq(S)
  OBVIOUS
<1>5. f \in [1..n -> S] /\ Runtime!IsInjective(f)
  <2>1. \E g \in [1..n -> S] : Runtime!IsInjective(g)
    BY <1>3 DEF ExistsBijection, Bijection, Injection, IsInjective,
           Runtime!IsInjective
  <2>2. f = CHOOSE g \in [1..n -> S] : Runtime!IsInjective(g)
    BY <1>1, <1>4, RuntimeCounts DEF Runtime!SetToSeq
  <2> QED BY <2>1, <2>2
<1>6. f \in Injection(1..n, S)
  BY <1>5 DEF Injection, IsInjective, Runtime!IsInjective
<1>7. Cardinality(1..n) = n
  BY <1>3, FS_Interval
<1>8. f \in Surjection(1..n, S)
  BY <1>1, <1>2, <1>6, <1>7, FS_Injection
<1>9. \A s \in S : \E i \in 1..n : f[i] = s
  BY <1>8 DEF Surjection
<1>10. f \in Seq(Aliases) /\ Len(f) = n
  BY <1>3, <1>5
<1>11. Runtime!Range(f) = S
  BY <1>5, <1>9 DEF Runtime!Range
<1>12. \A i, j \in 1..n : f[i] = f[j] => i = j
  BY <1>5 DEF Runtime!IsInjective
<1> QED BY <1>4, <1>10, <1>11, <1>12

(* The first and the rest of a sequence of aliases.                          *)
LEMMA RuntimeHeadTells ==
  ASSUME NEW s \in Seq(Aliases), s # <<>>
  PROVE  /\ Len(s) \in Nat \ {0} /\ Head(s) = s[1] /\ Head(s) \in Aliases
         /\ Head(s) \in Runtime!Range(s)
         /\ Tail(s) \in Seq(Aliases) /\ Len(Tail(s)) = Len(s) - 1
         /\ \A i \in 1..(Len(s) - 1) : Tail(s)[i] = s[i + 1]
         /\ Runtime!Range(Tail(s)) \subseteq Runtime!Range(s)
         /\ (\A i, j \in 1..Len(s) : s[i] = s[j] => i = j) =>
              /\ Head(s) \notin Runtime!Range(Tail(s))
              /\ \A i, j \in 1..Len(Tail(s)) : Tail(s)[i] = Tail(s)[j] => i = j
<1>1. Len(s) \in Nat \ {0} /\ DOMAIN s = 1..Len(s)
  OBVIOUS
<1>2. /\ Head(s) = s[1] /\ s[1] \in Aliases /\ Tail(s) \in Seq(Aliases)
      /\ Len(Tail(s)) = Len(s) - 1 /\ \A i \in 1..(Len(s) - 1) : Tail(s)[i] = s[i + 1]
  BY <1>1
<1>3. DOMAIN Tail(s) = 1..(Len(s) - 1)
  BY <1>2
<1>4. \A i \in 1..(Len(s) - 1) : i + 1 \in 1..Len(s)
  BY <1>1
<1>5. Runtime!Range(Tail(s)) \subseteq Runtime!Range(s)
  BY <1>1, <1>2, <1>3, <1>4 DEF Runtime!Range
<1>6. Head(s) \in Runtime!Range(s)
  BY <1>1, <1>2 DEF Runtime!Range
<1>7. ASSUME \A i, j \in 1..Len(s) : s[i] = s[j] => i = j
      PROVE  /\ Head(s) \notin Runtime!Range(Tail(s))
             /\ \A i, j \in 1..Len(Tail(s)) : Tail(s)[i] = Tail(s)[j] => i = j
  <2>1. \A i \in 1..(Len(s) - 1) : i + 1 # 1 /\ 1 \in 1..Len(s)
    BY <1>1
  <2>2. \A i \in 1..(Len(s) - 1) : Tail(s)[i] # s[1]
    BY <1>2, <1>4, <1>7, <2>1
  <2>3. Head(s) \notin Runtime!Range(Tail(s))
    BY <1>2, <1>3, <2>2 DEF Runtime!Range
  <2>4. \A i, j \in 1..(Len(s) - 1) : i + 1 = j + 1 => i = j
    BY <1>1
  <2>5. \A i, j \in 1..(Len(s) - 1) : Tail(s)[i] = Tail(s)[j] => i = j
    BY <1>2, <1>4, <1>7, <2>4
  <2> QED BY <1>2, <2>3, <2>5
<1> QED BY <1>1, <1>2, <1>5, <1>6, <1>7

(* What a sequence of aliases has.                                           *)
LEMMA RuntimeRangeTells ==
  ASSUME NEW s \in Seq(Aliases)
  PROVE  /\ Runtime!Range(s) \subseteq Aliases /\ Len(s) \in Nat
         /\ \A i \in 1..Len(s) : s[i] \in Aliases /\ s[i] \in Runtime!Range(s)
  BY DEF Runtime!Range

(* A sequence to which an alias is appended.                                 *)
LEMMA RuntimeAppendTells ==
  ASSUME NEW s \in Seq(Aliases), NEW a \in Aliases
  PROVE  Append(s, a) \in Seq(Aliases)
         /\ Runtime!Range(Append(s, a)) \subseteq Runtime!Range(s) \cup {a}
<1>1. /\ Append(s, a) \in Seq(Aliases) /\ Len(Append(s, a)) = Len(s) + 1
      /\ \A i \in 1..Len(s) : Append(s, a)[i] = s[i]
      /\ Append(s, a)[Len(s) + 1] = a /\ Len(s) \in Nat
  OBVIOUS
<1>2. DOMAIN Append(s, a) = 1..(Len(s) + 1) /\ DOMAIN s = 1..Len(s)
  BY <1>1
<1>3. \A i \in 1..(Len(s) + 1) : i \in 1..Len(s) \/ i = Len(s) + 1
  BY <1>1
<1> QED BY <1>1, <1>2, <1>3 DEF Runtime!Range

(* A sequence from its end, and with one alias before it.                    *)
LEMMA RuntimeReverseTells ==
  ASSUME NEW s \in Seq(Aliases), NEW a \in Aliases
  PROVE  /\ Runtime!Reverse(s) \in Seq(Aliases)
         /\ Runtime!Range(Runtime!Reverse(s)) \subseteq Runtime!Range(s)
         /\ s # <<>> => Runtime!Reverse(s) # <<>>
         /\ <<a>> \o Runtime!Reverse(s) \in Seq(Aliases) /\ <<a>> \o Runtime!Reverse(s) # <<>>
         /\ Runtime!Range(<<a>> \o Runtime!Reverse(s)) \subseteq Runtime!Range(s) \cup {a}
<1>1. Len(s) \in Nat /\ DOMAIN s = 1..Len(s) /\ \A i \in 1..Len(s) : s[i] \in Aliases
  OBVIOUS
<1>2. PICK q : q = Runtime!Reverse(s)
  OBVIOUS
<1>3. q = [i \in 1..Len(s) |-> s[(Len(s) - i) + 1]]
  BY <1>2 DEF Runtime!Reverse
<1>4. \A i \in 1..Len(s) : (Len(s) - i) + 1 \in 1..Len(s)
  BY <1>1
<1>5. q \in [1..Len(s) -> Aliases]
  BY <1>1, <1>3, <1>4
<1>6. q \in Seq(Aliases) /\ Len(q) = Len(s)
  BY <1>1, <1>5
<1>7. Runtime!Range(q) \subseteq Runtime!Range(s)
  BY <1>1, <1>3, <1>4 DEF Runtime!Range
<1>8. s # <<>> => q # <<>>
  BY <1>1, <1>6
<1>9. PICK p : p = <<a>> \o q
  OBVIOUS
<1>10. /\ p \in Seq(Aliases) /\ Len(p) = 1 + Len(q)
       /\ \A i \in 1..(1 + Len(q)) : p[i] = IF i = 1 THEN a ELSE q[i - 1]
  BY <1>6, <1>9
<1>11. \A i \in 1..(1 + Len(q)) : i = 1 \/ i - 1 \in 1..Len(q)
  BY <1>6
<1>12. DOMAIN p = 1..(1 + Len(q)) /\ DOMAIN q = 1..Len(q)
  BY <1>6, <1>10
<1>13. Runtime!Range(p) \subseteq Runtime!Range(q) \cup {a}
  BY <1>10, <1>11, <1>12 DEF Runtime!Range
<1>14. p # <<>>
  BY <1>6, <1>10
<1> QED BY <1>2, <1>6, <1>7, <1>8, <1>9, <1>10, <1>13, <1>14

(* What the snapshots of saved choices are.                                  *)
LEMMA RuntimeSnapshotTells ==
  ASSUME Runtime!TypeOK, NEW o \in [Aliases -> Options]
  PROVE  /\ \A a \in Aliases : Runtime!Snapshot(s1[a], o[a]) \in Runtime!Snapshots
         /\ \A as : Runtime!Confirmed(as, o)
              \in [Aliases -> Runtime!Snapshots \cup {Untracked, Unconfirmed}]
         /\ \A as : Runtime!Remembered(as, o)
              \in [Aliases -> Runtime!Snapshots \cup {Untracked, Unconfirmed}]
<1>1. ASSUME NEW a \in Aliases PROVE Runtime!Snapshot(s1[a], o[a]) \in Runtime!Snapshots
  <2>1. s1[a].rec \in Recipes /\ o[a] \in Options
    BY DEF Runtime!TypeOK, Runtime!Deployments
  <2> QED BY <2>1 DEF Runtime!Snapshot, Runtime!Snapshots, Runtime!Off
<1> QED BY <1>1 DEF Runtime!Confirmed, Runtime!Remembered, Runtime!TypeOK

(* What runs of an alias are its own services.                               *)
LEMMA RuntimeRunningTells ==
  \A a \in Aliases : /\ Runtime!Running(a) \subseteq Runtime!Of(a)
    /\ Runtime!Of(a) \subseteq Recipes
                     /\ \A r \in Runtime!Of(a) : AliasOf[r] = a
  BY DEF Runtime!Running, Runtime!Of

(* A service that was recreated runs, alone, with its own model.             *)
LEMMA RuntimeRecreatedTells ==
  ASSUME Runtime!TypeOK, Runtime!OneService, NEW r \in Recipes, NEW o \in Options,
         NEW image \in {"older", "current", "rollback"}, Runtime!Recreated(r, o, image)
  PROVE  /\ s7' \in [Recipes -> Runtime!Containers] /\ Runtime!OneService'
         /\ \A s \in Recipes \ {r} : s7'[s] = s7[s]
         /\ Runtime!Running(AliasOf[r])' = {r} /\ Runtime!HasOwnModel(r)'
         /\ s7'[r].state = "healthy"
         /\ s7'[r].opt = (IF r \in Tuned THEN o ELSE None)
         /\ s7'[r].loaded = s6[AliasOf[r]] /\ Runtime!ActiveIdentity(AliasOf[r]) = r
<1> DEFINE x == Runtime!Started(r, o, image)
<1>1. AliasOf[r] \in Aliases
  BY RuntimeAssumption DEF Runtime!RuntimeAssumption
<1>2. s6[AliasOf[r]] \in Runtime!Links /\ s7' = [s7 EXCEPT ![r] = x]
  BY <1>1 DEF Runtime!TypeOK, Runtime!Recreated
<1>3. x \in Runtime!Containers
  BY <1>2 DEF Runtime!Started, Runtime!Containers
<1>4. s7' \in [Recipes -> Runtime!Containers] /\ s7'[r] = x
      /\ \A s \in Recipes \ {r} : s7'[s] = s7[s]
  BY <1>2, <1>3 DEF Runtime!TypeOK
<1>5. /\ x.state = "healthy" /\ x.loaded = s6[AliasOf[r]]
      /\ x.opt = (IF r \in Tuned THEN o ELSE None)
  BY DEF Runtime!Started
<1>6. s6[AliasOf[r]] # None /\ s6[AliasOf[r]][1] = r
  BY RuntimeAssumption
    DEF Runtime!Recreated, Runtime!Fits, Runtime!ActiveIdentity, Runtime!RuntimeAssumption
<1>7. Runtime!HasOwnModel(r)'
  BY <1>4, <1>5, <1>6 DEF Runtime!HasOwnModel
<1>8. Runtime!Running(AliasOf[r])' = {r}
  BY <1>4, <1>5, <1>1 DEF Runtime!Running, Runtime!Of, Runtime!Recreated, Runtime!Fits
<1>9. Runtime!OneService'
  <2>1. \A a \in Aliases : a # AliasOf[r] => Runtime!Running(a)' = Runtime!Running(a)
    BY <1>4 DEF Runtime!Running, Runtime!Of
  <2>2. \A a \in Aliases : \A s, t \in Runtime!Running(a)' : s = t
    BY <2>1, <1>8 DEF Runtime!OneService
  <2>3. \A s \in Recipes : s7'[s].state = "healthy" => Runtime!HasOwnModel(s)'
    BY <1>4, <1>7 DEF Runtime!OneService, Runtime!HasOwnModel
  <2> QED BY <2>2, <2>3 DEF Runtime!OneService
<1> QED BY <1>4, <1>5, <1>6, <1>7, <1>8, <1>9 DEF Runtime!Recreated, Runtime!Fits

(* One that could not be recreated may run, then alone, or may not.          *)
LEMMA RuntimeNotRecreatedTells ==
  ASSUME Runtime!TypeOK, Runtime!OneService, NEW r \in Recipes, NEW o \in Options,
         NEW image \in {"older", "current", "rollback"}, Runtime!NotRecreated(r, o, image)
  PROVE  /\ s7' \in [Recipes -> Runtime!Containers] /\ Runtime!OneService'
         /\ \A s \in Recipes \ {r} : s7'[s] = s7[s]
<1> DEFINE x == [Runtime!Started(r, o, image) EXCEPT !.state = "up"]
<1>1. AliasOf[r] \in Aliases
  BY RuntimeAssumption DEF Runtime!RuntimeAssumption
<1>2. s6[AliasOf[r]] \in Runtime!Links /\ s7 \in [Recipes -> Runtime!Containers]
  BY <1>1 DEF Runtime!TypeOK
<1>3. x \in Runtime!Containers /\ x.state = "up"
  <2>1. Runtime!Started(r, o, image) \in Runtime!Containers
    BY <1>2 DEF Runtime!Started, Runtime!Containers
  <2> QED BY <2>1 DEF Runtime!Containers
<1>4. CASE UNCHANGED s7
  BY <1>2, <1>4 DEF Runtime!OneService, Runtime!Running, Runtime!HasOwnModel
<1>5. CASE s7' = [s7 EXCEPT ![r].state = "stopped"]
  <2>1. /\ s7' \in [Recipes -> Runtime!Containers] /\ s7'[r].state = "stopped"
        /\ \A s \in Recipes \ {r} : s7'[s] = s7[s]
    BY <1>2, <1>5 DEF Runtime!Containers
  <2>2. \A a \in Aliases : Runtime!Running(a)' \subseteq Runtime!Running(a)
    BY <2>1 DEF Runtime!Running, Runtime!Of
  <2>3. Runtime!OneService'
    BY <2>1, <2>2 DEF Runtime!OneService, Runtime!HasOwnModel
  <2> QED BY <2>1, <2>3
<1>6. CASE Runtime!Running(AliasOf[r]) \subseteq {r} /\ s7' = [s7 EXCEPT ![r] = x]
  <2>1. /\ s7' \in [Recipes -> Runtime!Containers] /\ s7'[r] = x
        /\ \A s \in Recipes \ {r} : s7'[s] = s7[s]
    BY <1>2, <1>3, <1>6
  <2>2. \A a \in Aliases : a # AliasOf[r] => Runtime!Running(a)' = Runtime!Running(a)
    BY <2>1 DEF Runtime!Running, Runtime!Of
  <2>3. Runtime!Running(AliasOf[r])' \subseteq {r}
    BY <2>1, <1>6 DEF Runtime!Running, Runtime!Of
  <2>4. s7'[r].state = "up"
    BY <2>1, <1>3
  <2>5. \A a \in Aliases : \A s, t \in Runtime!Running(a)' : s = t
    BY <2>2, <2>3 DEF Runtime!OneService
  <2>6. \A s \in Recipes : s7'[s].state = "healthy" => Runtime!HasOwnModel(s)'
    <3> HIDE DEF x
    <3> QED BY <2>1, <2>4 DEF Runtime!OneService, Runtime!HasOwnModel
  <2>7. Runtime!OneService'
    BY <2>5, <2>6 DEF Runtime!OneService
  <2> QED BY <2>1, <2>7
<1> QED BY <1>4, <1>5, <1>6 DEF Runtime!NotRecreated

(* A service that was resumed runs, alone, with its own model: with the one  *)
(* that is linked, or with the one it has.                                   *)
LEMMA RuntimeResumedTells ==
  ASSUME Runtime!TypeOK, Runtime!OneService, NEW r \in Recipes, NEW o \in Options,
         Runtime!Resumed(r, o)
  PROVE  /\ s7' \in [Recipes -> Runtime!Containers] /\ Runtime!OneService'
         /\ \A s \in Recipes \ {r} : s7'[s] = s7[s]
         /\ Runtime!Running(AliasOf[r])' = {r} /\ s7'[r].state = "healthy"
         /\ s7'[r].loaded = s6[AliasOf[r]]
            \/ (r \in Runtime!Running(AliasOf[r]) /\ s7'[r].loaded = s7[r].loaded)
<1>1. CASE r \in Runtime!Running(AliasOf[r]) /\ Runtime!SettingsMatch(r, o)
           /\ s7[r].image = "current"
  <2>1. /\ Runtime!HasOwnModel(r) /\ Runtime!Running(AliasOf[r]) \subseteq {r}
        /\ s7' = [s7 EXCEPT ![r].state = "healthy"]
    BY <1>1 DEF Runtime!Resumed
  <2>2. /\ s7' \in [Recipes -> Runtime!Containers] /\ s7'[r].state = "healthy"
        /\ s7'[r].loaded = s7[r].loaded /\ \A s \in Recipes \ {r} : s7'[s] = s7[s]
    BY <2>1 DEF Runtime!TypeOK, Runtime!Containers
  <2>3. Runtime!Running(AliasOf[r])' = {r}
    BY <1>1, <2>1, <2>2 DEF Runtime!Running, Runtime!Of
  <2>4. \A a \in Aliases : a # AliasOf[r] => Runtime!Running(a)' = Runtime!Running(a)
    BY <2>2 DEF Runtime!Running, Runtime!Of
  <2>5. Runtime!OneService'
    BY <2>1, <2>2, <2>3, <2>4 DEF Runtime!OneService, Runtime!HasOwnModel
  <2> QED BY <1>1, <2>2, <2>3, <2>5
<1>2. CASE ~(r \in Runtime!Running(AliasOf[r]) /\ Runtime!SettingsMatch(r, o)
           /\ s7[r].image = "current")
  BY <1>2, RuntimeRecreatedTells DEF Runtime!Resumed
<1> QED BY <1>1, <1>2

(* Services that were stopped; the others stay as they are.                  *)
LEMMA RuntimeStoppedTells ==
  ASSUME Runtime!TypeOK, Runtime!OneService, NEW rs, s7' = Runtime!Stopped(rs)
  PROVE  /\ s7' \in [Recipes -> Runtime!Containers] /\ Runtime!OneService'
         /\ \A s \in Recipes \ rs : s7'[s] = s7[s]
         /\ \A s \in Recipes : s7'[s].loaded = s7[s].loaded
         /\ \A a \in Aliases : Runtime!Running(a)' = Runtime!Running(a) \ rs
<1>1. ASSUME NEW s \in Recipes
      PROVE  /\ s7'[s] \in Runtime!Containers /\ s7'[s].loaded = s7[s].loaded
             /\ s \in rs => s7'[s].state \notin {"up", "healthy"}
             /\ s \notin rs => s7'[s] = s7[s]
  BY DEF Runtime!Stopped, Runtime!TypeOK, Runtime!Containers
<1>2. s7' \in [Recipes -> Runtime!Containers]
  BY <1>1 DEF Runtime!Stopped
<1>3. \A a \in Aliases : Runtime!Running(a)' = Runtime!Running(a) \ rs
  BY <1>1 DEF Runtime!Running, Runtime!Of
<1>4. Runtime!OneService'
  BY <1>1, <1>3 DEF Runtime!OneService, Runtime!HasOwnModel
<1> QED BY <1>1, <1>2, <1>3, <1>4

(* An alias of which no service changed is as it was.                        *)
LEMMA RuntimeOthersStay ==
  ASSUME NEW c \in Aliases, NEW a \in Aliases \ {c},
         \A s \in Recipes \ Runtime!Of(c) : s7'[s] = s7[s]
  PROVE  /\ Runtime!Running(a)' = Runtime!Running(a)
         /\ \A s \in Runtime!Running(a) : s7'[s] = s7[s]
<1>1. \A s \in Runtime!Of(a) : s \in Recipes \ Runtime!Of(c)
  BY DEF Runtime!Of
<1> QED BY <1>1 DEF Runtime!Running, Runtime!Of

(* What a new operation starts from.                                         *)
LEMMA RuntimeNewJobTells ==
  ASSUME Runtime!TypeOK, NEW t \in Seq(Aliases), NEW d \in Seq(Aliases), Aliases # {}
  PROVE  /\ Runtime!NoJob \in Runtime!Jobs /\ Runtime!NoJob.before = <<>> /\ s1 # <<>>
         /\ \A x : x \in {[Runtime!NewJob EXCEPT !.todo = t],
                          [Runtime!NewJob EXCEPT !.guided = TRUE, !.todo = t],
                          [Runtime!NewJob EXCEPT !.todo = t, !.redo = d]} =>
              /\ x \in Runtime!Jobs /\ x.before = s1 /\ x.option = s2
              /\ x.todo = t /\ x.done = <<>> /\ x.off = {} /\ x.seen = [a \in Aliases |-> {}]
              /\ x.redo \in {<<>>, d} /\ (x.guided => x.redo = <<>>)
         /\ \A x : x \in {[Runtime!NewJob EXCEPT !.todo = t], [Runtime!NewJob EXCEPT !.todo = t,
            !.redo = d]} => ~x.guided
         /\ [Runtime!NewJob EXCEPT !.todo = t].redo = <<>>
<1>1. s1 # <<>>
  <2>1. PICK a \in Aliases : TRUE
    OBVIOUS
  <2>2. DOMAIN s1 = Aliases
    BY DEF Runtime!TypeOK, Runtime!Deployments
  <2>3. DOMAIN <<>> = {}
    OBVIOUS
  <2> QED BY <2>1, <2>2, <2>3
<1>2. PICK e, p : e = [a \in Aliases |-> {}] /\ p = [r \in Recipes |-> None]
  OBVIOUS
<1>3. e \in [Aliases -> SUBSET Recipes] /\ p \in [Recipes -> Runtime!Links]
  BY <1>2 DEF Runtime!Links
<1>4. PICK b, o : b = s1 /\ o = s2 /\ b \in Runtime!Deployments /\ o \in [Aliases -> Options]
  BY DEF Runtime!TypeOK
<1>5. <<>> \in Seq(Aliases) /\ None \in Runtime!Links
  BY DEF Runtime!Links
<1>6. PICK n : n = Runtime!NoJob
  OBVIOUS
<1>7. n = [guided |-> FALSE, before |-> <<>>, option |-> <<>>, todo |-> <<>>, done |-> <<>>,
           off |-> {}, unsent |-> {}, seen |-> e, ran |-> p, was |-> None, redo |-> <<>>]
  BY <1>2, <1>6 DEF Runtime!NoJob
<1>8. n \in Runtime!Jobs /\ n.before = <<>>
  BY <1>3, <1>5, <1>7 DEF Runtime!Jobs
<1>9. PICK w : w = Runtime!NewJob
  OBVIOUS
<1>10. w = [n EXCEPT !.before = b, !.option = o]
  BY <1>4, <1>6, <1>9 DEF Runtime!NewJob
<1>11. w = [guided |-> FALSE, before |-> b, option |-> o, todo |-> <<>>, done |-> <<>>,
            off |-> {}, unsent |-> {}, seen |-> e, ran |-> p, was |-> None, redo |-> <<>>]
  BY <1>7, <1>10
<1>12. ASSUME NEW x, x = [w EXCEPT !.todo = t]
       PROVE  /\ x \in Runtime!Jobs /\ x.before = b /\ x.option = o /\ x.todo = t
              /\ x.done = <<>> /\ x.off = {}
              /\ x.seen = e /\ x.redo = <<>> /\ ~x.guided
  <2>1. x = [guided |-> FALSE, before |-> b, option |-> o, todo |-> t, done |-> <<>>,
             off |-> {}, unsent |-> {}, seen |-> e, ran |-> p, was |-> None, redo |-> <<>>]
    BY <1>11, <1>12
  <2> QED BY <1>3, <1>4, <1>5, <2>1 DEF Runtime!Jobs
<1>13. ASSUME NEW x, x = [w EXCEPT !.guided = TRUE, !.todo = t]
       PROVE  /\ x \in Runtime!Jobs /\ x.before = b /\ x.option = o /\ x.todo = t
              /\ x.done = <<>> /\ x.off = {}
              /\ x.seen = e /\ x.redo = <<>>
  <2>1. x = [guided |-> TRUE, before |-> b, option |-> o, todo |-> t, done |-> <<>>,
             off |-> {}, unsent |-> {}, seen |-> e, ran |-> p, was |-> None, redo |-> <<>>]
    BY <1>11, <1>13
  <2> QED BY <1>3, <1>4, <1>5, <2>1 DEF Runtime!Jobs
<1>14. ASSUME NEW x, x = [w EXCEPT !.todo = t, !.redo = d]
       PROVE  /\ x \in Runtime!Jobs /\ x.before = b /\ x.option = o /\ x.todo = t
              /\ x.done = <<>> /\ x.off = {}
              /\ x.seen = e /\ x.redo = d /\ ~x.guided
  <2>1. x = [guided |-> FALSE, before |-> b, option |-> o, todo |-> t, done |-> <<>>,
             off |-> {}, unsent |-> {}, seen |-> e, ran |-> p, was |-> None, redo |-> d]
    BY <1>11, <1>14
  <2> QED BY <1>3, <1>4, <1>5, <2>1 DEF Runtime!Jobs
<1>15. Runtime!NoJob \in Runtime!Jobs /\ Runtime!NoJob.before = <<>>
  BY <1>6, <1>8
<1>16. ASSUME NEW x, x \in {[w EXCEPT !.todo = t], [w EXCEPT !.guided = TRUE, !.todo = t],
                            [w EXCEPT !.todo = t, !.redo = d]}
       PROVE  /\ x \in Runtime!Jobs /\ x.before = b /\ x.option = o /\ x.todo = t
              /\ x.done = <<>> /\ x.off = {}
              /\ x.seen = e /\ x.redo \in {<<>>, d} /\ (x.guided => x.redo = <<>>)
  <2>1. CASE x = [w EXCEPT !.todo = t]
    BY <1>12, <2>1
  <2>2. CASE x = [w EXCEPT !.guided = TRUE, !.todo = t]
    BY <1>13, <2>2
  <2>3. CASE x = [w EXCEPT !.todo = t, !.redo = d]
    BY <1>14, <2>3
  <2> QED BY <1>16, <2>1, <2>2, <2>3
<1>17. \A x : x \in {[w EXCEPT !.todo = t], [w EXCEPT !.todo = t, !.redo = d]} => ~x.guided
  BY <1>12, <1>14
<1>18. [w EXCEPT !.todo = t].redo = <<>>
  BY <1>12
<1> QED BY <1>1, <1>2, <1>4, <1>9, <1>15, <1>16, <1>17, <1>18

(* An operation that ends leaves nothing underway.                           *)
LEMMA RuntimeEndKeeps ==
  ASSUME Runtime!TypeOK', s8' = "idle", s9' = Runtime!NoJob, Runtime!OneService',
         Runtime!RestoredMeansBefore',
         \A a \in Aliases : s1'[a].rec \in Runtime!Of(a)
  PROVE  Runtime!IInv'
<1>1. PICK e : e = [a \in Aliases |-> {}]
  OBVIOUS
<1>2. /\ s9'.todo = <<>> /\ s9'.done = <<>> /\ s9'.redo = <<>> /\ s9'.off = {}
      /\ s9'.seen = e /\ ~s9'.guided
  BY <1>1 DEF Runtime!NoJob
<1>3. Runtime!Range(<<>>) = {}
  BY DEF Runtime!Range
<1>4. Runtime!OwnChoices'
  BY DEF Runtime!OwnChoices
<1>5. Runtime!Underway'
  BY <1>2, <1>3 DEF Runtime!Underway, Runtime!Activating, Runtime!AtService
<1>6. Runtime!Confirming'
  BY DEF Runtime!Confirming
<1>7. Len(s9'.todo) = 0
  BY <1>2
<1>8. \A a \in Aliases : s9'.seen[a] = {}
  BY <1>1, <1>2
<1>9. Runtime!Rollback'
  BY <1>2, <1>7, <1>8 DEF Runtime!Rollback, Runtime!Activating, Runtime!AtService
<1> QED BY <1>4, <1>5, <1>6, <1>9 DEF Runtime!IInv

(* An operation that begins: its plan or its update is underway.             *)
LEMMA RuntimeBeginKeeps ==
  ASSUME Runtime!IInv, Runtime!TypeOK', Runtime!Begin, s8' \in {"plan", "update"},
         \A a \in Aliases : s1'[a].rec \in Runtime!Of(a), s9'.before = s1, s9'.option = s2,
         s9'.done = <<>>, s9'.off = {}, s9'.seen = [a \in Aliases |-> {}],
         s9'.guided => s9'.redo = <<>>, \A a \in Runtime!Range(s9'.redo) : s1'[a].on,
         s8' = "update" => /\ ~s9'.guided /\ \A a \in Runtime!Range(s9'.todo) : s1'[a].on
                           /\ \A i, j \in 1..Len(s9'.todo) : s9'.todo[i] = s9'.todo[j] => i = j
  PROVE  Runtime!IInv'
<1>1. Runtime!Range(<<>>) = {}
  BY DEF Runtime!Range
<1>2. UNCHANGED s7 /\ s10'.what = "nothing"
  BY DEF Runtime!Begin, Runtime!targetVars, Runtime!Silent
<1>3. Runtime!OwnChoices'
  BY DEF Runtime!IInv, Runtime!OwnChoices
<1>4. Runtime!OneService'
  BY <1>2 DEF Runtime!IInv, Runtime!OneService, Runtime!Running, Runtime!HasOwnModel
<1>5. Runtime!Underway'
  <2>1. s9'.option \in [Aliases -> Options]
    BY DEF Runtime!IInv, Runtime!TypeOK
  <2> QED BY <1>1, <2>1 DEF Runtime!Underway, Runtime!Activating, Runtime!AtService
<1>6. Runtime!Confirming'
  BY <1>1 DEF Runtime!Confirming
<1>7. \A a \in Aliases : s9'.seen[a] = {}
  OBVIOUS
<1>8. Runtime!Rollback'
  BY <1>7 DEF Runtime!Rollback, Runtime!Activating, Runtime!AtService
<1>9. Runtime!RestoredMeansBefore'
  BY <1>2 DEF Runtime!RestoredMeansBefore
<1> QED BY <1>3, <1>4, <1>5, <1>6, <1>8, <1>9 DEF Runtime!IInv

(* A step inside an operation leaves what the operation read, and what was   *)
(* said of the last one is no longer claimed.                                *)
LEMMA RuntimeInsideTells ==
  ASSUME Runtime!IInv, s8 # "idle", s8' # "idle", UNCHANGED s1, s9'.before = s9.before
  PROVE  Runtime!OwnChoices' /\ Runtime!RestoredMeansBefore'
  BY DEF Runtime!IInv, Runtime!OwnChoices, Runtime!RestoredMeansBefore

(* Services that do not change keep to the invariant.                        *)
LEMMA RuntimeServicesStay ==
  ASSUME Runtime!OneService, UNCHANGED s7
  PROVE  Runtime!OneService' /\ \A a \in Aliases : Runtime!Running(a)' = Runtime!Running(a)
  BY DEF Runtime!OneService, Runtime!Running, Runtime!HasOwnModel

(* What is live stays so while its alias is left alone.                      *)
LEMMA RuntimeLiveStays ==
  ASSUME NEW a \in Aliases, Runtime!TypeOK, s1[a].rec \in Runtime!Of(a), UNCHANGED <<s1, s2>>,
         s6'[a] = s6[a], \A s \in Runtime!Of(a) : s7'[s] = s7[s], Runtime!Confirmable(a)
  PROVE  Runtime!Confirmable(a)'
<1>1. Runtime!Running(a)' = Runtime!Running(a)
  BY DEF Runtime!Running, Runtime!Of
<1>2. PICK x : x = Runtime!Snapshot(s1[a], s2[a])
  OBVIOUS
<1>3. Runtime!Snapshot(s1[a], s2[a])' = x
  BY <1>2
<1>4. x.on => x.rec \in Runtime!Of(a)
  BY <1>2 DEF Runtime!Snapshot, Runtime!Off
<1>5. Runtime!Live(a, x)
  BY <1>2 DEF Runtime!Confirmable
<1>6. Runtime!Live(a, x)'
  <2>1. CASE x.on
    BY <1>1, <1>4, <1>5, <2>1 DEF Runtime!Live, Runtime!HasOwnModel, Runtime!ActiveIdentity
  <2>2. CASE ~x.on
    BY <1>1, <1>5, <2>2 DEF Runtime!Live
  <2> QED BY <2>1, <2>2
<1> QED BY <1>3, <1>6 DEF Runtime!Confirmable

(* A saved recipe that was recreated is live.                                *)
LEMMA RuntimeRecreatedLive ==
  ASSUME Runtime!TypeOK, Runtime!OneService, NEW a \in Aliases, NEW o \in Options, s1[a].on,
         s1[a].rec \in Runtime!Of(a), NEW image \in {"older", "current", "rollback"},
         Runtime!Recreated(s1[a].rec, o, image), UNCHANGED <<s1, s6>>
  PROVE  Runtime!Live(a, Runtime!Snapshot(s1[a], o))'
<1>1. PICK r \in Recipes : r = s1[a].rec /\ AliasOf[r] = a
  BY DEF Runtime!Of
<1>2. /\ Runtime!Running(AliasOf[r])' = {r} /\ Runtime!HasOwnModel(r)' /\ s7'[r].state = "healthy"
      /\ s7'[r].opt = (IF r \in Tuned THEN o ELSE None) /\ Runtime!ActiveIdentity(AliasOf[r]) = r
  <2>1. Runtime!Recreated(r, o, image)
    BY <1>1
  <2>2. Runtime!TypeOK /\ Runtime!OneService /\ r \in Recipes /\ o \in Options
        /\ image \in {"older", "current", "rollback"}
    OBVIOUS
  <2> HIDE <1>1
  <2>3. Runtime!Running(AliasOf[r])' = {r}
    BY ONLY RuntimeAssumption, <2>1, <2>2, RuntimeRecreatedTells
  <2>4. Runtime!HasOwnModel(r)'
    BY ONLY RuntimeAssumption, <2>1, <2>2, RuntimeRecreatedTells
  <2>5. s7'[r].state = "healthy"
    BY ONLY RuntimeAssumption, <2>1, <2>2, RuntimeRecreatedTells
  <2>6. s7'[r].opt = (IF r \in Tuned THEN o ELSE None)
    BY ONLY RuntimeAssumption, <2>1, <2>2, RuntimeRecreatedTells
  <2>7. Runtime!ActiveIdentity(AliasOf[r]) = r
    BY ONLY RuntimeAssumption, <2>1, <2>2, RuntimeRecreatedTells
  <2> QED BY <2>3, <2>4, <2>5, <2>6, <2>7
<1>3. Runtime!ActiveIdentity(a)' = r
  BY <1>1, <1>2 DEF Runtime!ActiveIdentity
<1>4. PICK x : x = Runtime!Snapshot(s1[a], o)
  OBVIOUS
<1>5. Runtime!Snapshot(s1[a], o)' = x
  BY <1>4
<1>6. x.on /\ x.rec = r /\ x.opt = (IF r \in Tuned THEN o ELSE None)
  BY <1>1, <1>4 DEF Runtime!Snapshot
<1>7. Runtime!Live(a, x)'
  BY <1>1, <1>2, <1>3, <1>6 DEF Runtime!Live
<1> QED BY <1>5, <1>7

(* The alias an operation is at, and the recipe it wants there.              *)
LEMMA RuntimeAtCur ==
  ASSUME Runtime!IInv, s8 \in Runtime!Activating, s9.todo # <<>>
  PROVE  /\ Runtime!Cur \in Aliases /\ Runtime!Wanted \in Runtime!Of(Runtime!Cur)
         /\ Runtime!Wanted \in Recipes /\ AliasOf[Runtime!Wanted] = Runtime!Cur
         /\ s2[Runtime!Cur] \in Options /\ s1[Runtime!Cur].on /\ Runtime!Cur = s9.todo[1]
         /\ s9.todo \in Seq(Aliases) /\ Len(s9.todo) \in Nat \ {0}
<1>1. s9.todo \in Seq(Aliases)
  BY DEF Runtime!IInv, Runtime!TypeOK, Runtime!Jobs
<1>2. /\ Runtime!Cur \in Aliases /\ Runtime!Cur \in Runtime!Range(s9.todo)
      /\ Runtime!Cur = s9.todo[1]
      /\ Len(s9.todo) \in Nat \ {0}
  BY <1>1, RuntimeHeadTells DEF Runtime!Cur
<1>3. Runtime!Wanted \in Runtime!Of(Runtime!Cur) /\ s1[Runtime!Cur].on
  BY <1>2 DEF Runtime!IInv, Runtime!OwnChoices, Runtime!Underway, Runtime!Wanted
<1>4. Runtime!Wanted \in Recipes /\ AliasOf[Runtime!Wanted] = Runtime!Cur
  BY <1>3 DEF Runtime!Of
<1>5. s2[Runtime!Cur] \in Options
  BY <1>2 DEF Runtime!IInv, Runtime!TypeOK
<1> QED BY <1>1, <1>2, <1>3, <1>4, <1>5

(* What the raising of an error leaves.                                      *)
LEMMA RuntimeRaiseKeeps ==
  ASSUME Runtime!IInv, s8 # "idle", Runtime!Raise, Runtime!TypeOK', Runtime!OneService',
         UNCHANGED <<s2>>,
         s8' = "idle" => Runtime!RestoredMeansBefore'
  PROVE  Runtime!IInv'
<1>1. \A a \in Aliases : s1'[a].rec \in Runtime!Of(a)
  BY DEF Runtime!IInv, Runtime!OwnChoices, Runtime!Raise
<1>2. CASE s9.redo = <<>>
  BY <1>1, <1>2, RuntimeEndKeeps DEF Runtime!Raise
<1>3. CASE s9.redo # <<>>
  <2>1. s8' = "mark" /\ UNCHANGED <<s9, s1>>
    BY <1>3 DEF Runtime!Raise, Runtime!IInv, Runtime!Underway
  <2>2. Runtime!OwnChoices' /\ Runtime!RestoredMeansBefore'
    BY <2>1, RuntimeInsideTells
  <2>3. Runtime!Underway'
    BY <1>3, <2>1 DEF Runtime!IInv, Runtime!Underway, Runtime!Activating, Runtime!AtService
  <2>4. Runtime!Confirming'
    BY <2>1 DEF Runtime!Confirming
  <2>5. Runtime!Rollback'
    BY <2>1 DEF Runtime!IInv, Runtime!Rollback, Runtime!Activating, Runtime!AtService
  <2> QED BY <2>2, <2>3, <2>4, <2>5 DEF Runtime!IInv
<1> QED BY <1>2, <1>3

(* An operation that begins keeps the types.                                 *)
LEMMA RuntimeBeginTyped ==
  ASSUME Runtime!IInv, Runtime!Begin, s1' \in Runtime!Deployments, s2' \in [Aliases -> Options],
         s3' \in [Aliases -> Runtime!Snapshots \cup {Untracked, Unconfirmed}],
         s4' \in [Recipes -> Versions], s8' \in {"idle", "plan", "update"},
         s9' \in Runtime!Jobs, s8' = "idle" <=> s9'.before = <<>>
  PROVE  Runtime!TypeOK'
<1>1. UNCHANGED <<s5, s6, s7>> /\ s11' = s11 + 1 /\ s11 < RuntimeOps
  BY DEF Runtime!Begin, Runtime!targetVars
<1>2. s11' \in 0..RuntimeOps
  BY <1>1, RuntimeAssumption DEF Runtime!RuntimeAssumption, Runtime!IInv, Runtime!TypeOK
<1> QED BY <1>1, <1>2 DEF Runtime!IInv, Runtime!TypeOK

(* No operation is a job too.                                                *)
LEMMA RuntimeNoJobTells == Runtime!NoJob \in Runtime!Jobs /\ Runtime!NoJob.before = <<>>
<1>1. PICK e, p : e = [a \in Aliases |-> {}] /\ p = [r \in Recipes |-> None]
  OBVIOUS
<1>2. e \in [Aliases -> SUBSET Recipes] /\ p \in [Recipes -> Runtime!Links]
      /\ None \in Runtime!Links
  BY <1>1 DEF Runtime!Links
<1>3. PICK n : n = Runtime!NoJob
  OBVIOUS
<1>4. n = [guided |-> FALSE, before |-> <<>>, option |-> <<>>, todo |-> <<>>, done |-> <<>>,
           off |-> {}, unsent |-> {}, seen |-> e, ran |-> p, was |-> None, redo |-> <<>>]
  BY <1>1, <1>3 DEF Runtime!NoJob
<1>5. <<>> \in Seq(Aliases)
  OBVIOUS
<1> QED BY <1>2, <1>3, <1>4, <1>5 DEF Runtime!Jobs

(* An edit that is not applied now.                                          *)
LEMMA RuntimePostponedKeeps ==
  ASSUME Runtime!IInv, Runtime!Begin, Runtime!Postponed, s1' \in Runtime!Deployments,
         s2' \in [Aliases -> Options],
         s3' \in [Aliases -> Runtime!Snapshots \cup {Untracked, Unconfirmed}],
         s4' \in [Recipes -> Versions], \A a \in Aliases : s1'[a].rec \in Runtime!Of(a)
  PROVE  Runtime!IInv'
<1>1. s8' = "idle" /\ s9' = Runtime!NoJob
  BY DEF Runtime!Postponed
<1>2. Runtime!TypeOK'
  BY <1>1, RuntimeBeginTyped, RuntimeNoJobTells
<1>3. UNCHANGED s7 /\ s10'.what = "nothing"
  BY DEF Runtime!Begin, Runtime!targetVars, Runtime!Silent
<1>4. Runtime!OneService'
  BY <1>3, RuntimeServicesStay DEF Runtime!IInv
<1>5. Runtime!RestoredMeansBefore'
  BY <1>3 DEF Runtime!RestoredMeansBefore
<1> QED BY <1>1, <1>2, <1>4, <1>5, RuntimeEndKeeps

(* One that is applied now, or something else that is provisioned.           *)
LEMMA RuntimeProvisionKeeps ==
  ASSUME Runtime!IInv, Runtime!Begin, s1' \in Runtime!Deployments, s2' \in [Aliases -> Options],
         s3' \in [Aliases -> Runtime!Snapshots \cup {Untracked, Unconfirmed}],
         s4' \in [Recipes -> Versions], \A a \in Aliases : s1'[a].rec \in Runtime!Of(a),
         Aliases # {}, NEW t \in Seq(Aliases), NEW d \in Seq(Aliases),
         \A a \in Runtime!Range(d) : s1'[a].on, s8' = "plan",
         s9' \in {[Runtime!NewJob EXCEPT !.todo = t], [Runtime!NewJob EXCEPT !.guided = TRUE,
         !.todo = t],
                   [Runtime!NewJob EXCEPT !.todo = t, !.redo = d]}
  PROVE  Runtime!IInv'
<1>1. Runtime!TypeOK
  BY DEF Runtime!IInv
<1>2. /\ s9' \in Runtime!Jobs /\ s9'.before = s1 /\ s9'.option = s2 /\ s9'.done = <<>>
      /\ s9'.off = {} /\ s9'.seen = [a \in Aliases |-> {}] /\ s9'.redo \in {<<>>, d}
      /\ s9'.guided => s9'.redo = <<>>
      /\ s1 # <<>>
  <2>1. \A x : x \in {[Runtime!NewJob EXCEPT !.todo = t],
        [Runtime!NewJob EXCEPT !.guided = TRUE, !.todo = t],
                       [Runtime!NewJob EXCEPT !.todo = t, !.redo = d]} =>
          /\ x \in Runtime!Jobs /\ x.before = s1 /\ x.option = s2
          /\ x.todo = t /\ x.done = <<>> /\ x.off = {} /\ x.seen = [a \in Aliases |-> {}]
          /\ x.redo \in {<<>>, d} /\ (x.guided => x.redo = <<>>)
    BY ONLY <1>1, Aliases # {}, t \in Seq(Aliases), d \in Seq(Aliases), RuntimeNewJobTells
  <2>2. s1 # <<>>
    BY <1>1, RuntimeNewJobTells
  <2> QED BY <2>1, <2>2
<1>3. Runtime!TypeOK'
  BY <1>2, RuntimeBeginTyped
<1>4. \A a \in Runtime!Range(s9'.redo) : s1'[a].on
  <2>1. Runtime!Range(<<>>) = {}
    BY DEF Runtime!Range
  <2> QED BY <1>2, <2>1
<1> QED BY <1>2, <1>3, <1>4, RuntimeBeginKeeps

(* What a choice of a recipe of the alias makes of the deployment.           *)
LEMMA RuntimeChosenTells ==
  ASSUME Runtime!IInv, NEW a \in Aliases, NEW r \in Runtime!Of(a), NEW on \in BOOLEAN,
         s1' = [s1 EXCEPT ![a] = [rec |-> r, on |-> on]]
  PROVE  s1' \in Runtime!Deployments /\ \A b \in Aliases : s1'[b].rec \in Runtime!Of(b)
<1>1. [rec |-> r, on |-> on] \in [rec : Recipes, on : BOOLEAN]
  BY DEF Runtime!Of
<1>2. s1' \in Runtime!Deployments /\ s1'[a] = [rec |-> r, on |-> on]
  BY <1>1 DEF Runtime!IInv, Runtime!TypeOK, Runtime!Deployments
<1>3. \A b \in Aliases : b # a => s1'[b] = s1[b]
  BY DEF Runtime!IInv, Runtime!TypeOK, Runtime!Deployments
<1> QED BY <1>2, <1>3 DEF Runtime!IInv, Runtime!OwnChoices

(* One alias to be activated.                                                *)
LEMMA RuntimeOneToDo ==
  ASSUME NEW a \in Aliases
  PROVE  Runtime!SetToSeq({a}) \in Seq(Aliases) /\ <<a>> \in Seq(Aliases)
  BY RuntimeSetToSeqTells

(* A recipe of the alias is chosen, enabled or not.                          *)
LEMMA RuntimeAssignKeeps ==
  ASSUME Runtime!IInv, NEW a \in Aliases, NEW r \in Recipes, NEW on \in BOOLEAN,
         Runtime!Assign(a, r, on)
  PROVE  Runtime!IInv'
<1>1. /\ Runtime!Begin /\ r \in Runtime!Of(a) /\ s1' = [s1 EXCEPT ![a] = [rec |-> r, on |-> on]]
      /\ s3' = Runtime!Remembered({a}, s2) /\ UNCHANGED <<s2, s4>>
      /\ Runtime!Postponed \/ Runtime!Provision({a})
  BY DEF Runtime!Assign
<1>2. s1' \in Runtime!Deployments /\ \A b \in Aliases : s1'[b].rec \in Runtime!Of(b)
  BY <1>1, RuntimeChosenTells
<1>3. /\ s3' \in [Aliases -> Runtime!Snapshots \cup {Untracked, Unconfirmed}]
      /\ s2' \in [Aliases -> Options] /\ s4' \in [Recipes -> Versions]
  <2>1. Runtime!TypeOK /\ s2 \in [Aliases -> Options] /\ s4 \in [Recipes -> Versions]
    BY DEF Runtime!IInv, Runtime!TypeOK
  <2> QED BY <1>1, <2>1, RuntimeSnapshotTells
<1>4. CASE Runtime!Postponed
  BY <1>1, <1>2, <1>3, <1>4, RuntimePostponedKeeps
<1>5. CASE Runtime!Provision({a})
  <2>1. PICK t \in Seq(Aliases) : t = Runtime!SetToSeq({a})
    BY RuntimeOneToDo
  <2>2. s8' = "plan" /\ s9' = [Runtime!NewJob EXCEPT !.todo = t]
    BY <1>5, <2>1 DEF Runtime!Provision
  <2>3. <<>> \in Seq(Aliases) /\ Runtime!Range(<<>>) = {}
    BY DEF Runtime!Range
  <2> QED BY <1>1, <1>2, <1>3, <2>2, <2>3, RuntimeProvisionKeeps
<1> QED BY <1>1, <1>4, <1>5

(* The service of an alias is enabled, or disabled.                          *)
LEMMA RuntimeToggleServiceKeeps ==
  ASSUME Runtime!IInv, NEW a \in Aliases, Runtime!ToggleService(a)
  PROVE  Runtime!IInv'
<1>1. /\ Runtime!Begin /\ s1' = [s1 EXCEPT ![a].on = ~@]
      /\ s3' = Runtime!Remembered({a}, s2) /\ UNCHANGED <<s2, s4>>
      /\ Runtime!Postponed \/ Runtime!Provision({a})
  BY DEF Runtime!ToggleService
<1>2. s1' \in Runtime!Deployments /\ \A b \in Aliases : s1'[b].rec \in Runtime!Of(b)
  <2>1. s1 \in Runtime!Deployments /\ \A b \in Aliases : s1[b].rec \in Runtime!Of(b)
    BY DEF Runtime!IInv, Runtime!TypeOK, Runtime!OwnChoices
  <2>2. s1' \in Runtime!Deployments /\ \A b \in Aliases : s1'[b].rec = s1[b].rec
    BY <1>1, <2>1 DEF Runtime!Deployments
  <2> QED BY <2>1, <2>2
<1>3. /\ s3' \in [Aliases -> Runtime!Snapshots \cup {Untracked, Unconfirmed}]
      /\ s2' \in [Aliases -> Options] /\ s4' \in [Recipes -> Versions]
  <2>1. Runtime!TypeOK /\ s2 \in [Aliases -> Options] /\ s4 \in [Recipes -> Versions]
    BY DEF Runtime!IInv, Runtime!TypeOK
  <2> QED BY <1>1, <2>1, RuntimeSnapshotTells
<1>4. CASE Runtime!Postponed
  BY <1>1, <1>2, <1>3, <1>4, RuntimePostponedKeeps
<1>5. CASE Runtime!Provision({a})
  <2>1. PICK t \in Seq(Aliases) : t = Runtime!SetToSeq({a})
    BY RuntimeOneToDo
  <2>2. s8' = "plan" /\ s9' = [Runtime!NewJob EXCEPT !.todo = t]
    BY <1>5, <2>1 DEF Runtime!Provision
  <2>3. <<>> \in Seq(Aliases) /\ Runtime!Range(<<>>) = {}
    BY DEF Runtime!Range
  <2> QED BY <1>1, <1>2, <1>3, <2>2, <2>3, RuntimeProvisionKeeps
<1> QED BY <1>1, <1>4, <1>5

(* A guided choice, with the model downloaded anew.                          *)
LEMMA RuntimeGuidedKeeps ==
  ASSUME Runtime!IInv, NEW a \in Aliases, NEW r \in Recipes, Runtime!Guided(a, r)
  PROVE  Runtime!IInv'
<1>1. /\ Runtime!Begin /\ r \in Runtime!Of(a) /\ UNCHANGED s2
      /\ \E v \in Versions : s4' = [s4 EXCEPT ![r] = v]
  BY DEF Runtime!Guided
<1>2. Runtime!TypeOK /\ s2 \in [Aliases -> Options] /\ s4 \in [Recipes -> Versions]
  BY DEF Runtime!IInv, Runtime!TypeOK
<1>3. s4' \in [Recipes -> Versions]
  BY <1>1, <1>2
<1>4. CASE Runtime!Postponed /\ UNCHANGED <<s1, s3>>
  <2>1. /\ s1 \in Runtime!Deployments /\ \A b \in Aliases : s1[b].rec \in Runtime!Of(b)
        /\ s3 \in [Aliases -> Runtime!Snapshots \cup {Untracked, Unconfirmed}]
    BY DEF Runtime!IInv, Runtime!TypeOK, Runtime!OwnChoices
  <2>2. /\ s1' \in Runtime!Deployments /\ \A b \in Aliases : s1'[b].rec \in Runtime!Of(b)
        /\ s3' \in [Aliases -> Runtime!Snapshots \cup {Untracked, Unconfirmed}]
        /\ s2' \in [Aliases -> Options]
    BY <1>1, <1>2, <1>4, <2>1
  <2> QED BY <1>1, <1>3, <1>4, <2>2, RuntimePostponedKeeps
<1>5. CASE /\ s1' = [s1 EXCEPT ![a] = [rec |-> r, on |-> TRUE]]
           /\ s3' = Runtime!Remembered({a}, s2)
           /\ s8' = "plan" /\ s9' = [Runtime!NewJob EXCEPT !.guided = TRUE, !.todo = <<a>>]
  <2>1. s1' \in Runtime!Deployments /\ \A b \in Aliases : s1'[b].rec \in Runtime!Of(b)
    BY <1>1, <1>5, RuntimeChosenTells
  <2>2. /\ s3' \in [Aliases -> Runtime!Snapshots \cup {Untracked, Unconfirmed}]
        /\ s2' \in [Aliases -> Options]
    BY <1>1, <1>2, <1>5, RuntimeSnapshotTells
  <2>3. PICK t \in Seq(Aliases) : t = <<a>>
    BY RuntimeOneToDo
  <2>4. s8' = "plan" /\ s9' = [Runtime!NewJob EXCEPT !.guided = TRUE, !.todo = t]
    BY <1>5, <2>3
  <2>5. <<>> \in Seq(Aliases) /\ Runtime!Range(<<>>) = {}
    BY DEF Runtime!Range
  <2> QED BY <1>1, <1>3, <2>1, <2>2, <2>4, <2>5, RuntimeProvisionKeeps
<1> QED BY <1>4, <1>5 DEF Runtime!Guided

(* An option is saved, and perhaps applied to the services that wait for     *)
(* it.                                                                       *)
LEMMA RuntimeSaveOptionKeeps ==
  ASSUME Runtime!IInv, NEW group \in SUBSET Aliases, NEW o \in Options,
         NEW remembered \in [Aliases -> Runtime!Snapshots \cup {Untracked, Unconfirmed}],
         NEW undo,
         Runtime!SaveOption(group, o, remembered, undo)
  PROVE  Runtime!IInv'
<1>1. PICK targets : targets = {a \in group : /\ s1[a].on /\ s1[a].rec \in Tuned
                                              /\ remembered[a] # Runtime!Snapshot(s1[a], o)}
  OBVIOUS
<1>2. /\ Runtime!Begin /\ s2' = [a \in Aliases |-> IF a \in group THEN o ELSE s2[a]]
      /\ s3' = remembered /\ UNCHANGED <<s1, s4>>
      /\ \/ Runtime!Postponed
         \/ /\ targets # {} /\ s8' = "plan"
            /\ s9' = [Runtime!NewJob EXCEPT !.todo = Runtime!SetToSeq(targets),
               !.redo = Runtime!SetToSeq(targets \cap undo)]
  BY <1>1 DEF Runtime!SaveOption
<1>3. /\ s1 \in Runtime!Deployments /\ s4 \in [Recipes -> Versions] /\ s2 \in [Aliases -> Options]
      /\ \A a \in Aliases : s1[a].rec \in Runtime!Of(a)
  BY DEF Runtime!IInv, Runtime!TypeOK, Runtime!OwnChoices
<1>4. /\ s1' \in Runtime!Deployments /\ s4' \in [Recipes -> Versions]
      /\ s2' \in [Aliases -> Options] /\ \A a \in Aliases : s1'[a].rec \in Runtime!Of(a)
      /\ s3' \in [Aliases -> Runtime!Snapshots \cup {Untracked, Unconfirmed}]
  BY <1>2, <1>3
<1>5. CASE Runtime!Postponed
  BY <1>2, <1>4, <1>5, RuntimePostponedKeeps
<1>6. CASE /\ targets # {} /\ s8' = "plan"
           /\ s9' = [Runtime!NewJob EXCEPT !.todo = Runtime!SetToSeq(targets),
              !.redo = Runtime!SetToSeq(targets \cap undo)]
  <2>1. targets \subseteq Aliases /\ targets \cap undo \subseteq Aliases /\ Aliases # {}
    BY <1>1, <1>6
  <2>2. PICK t \in Seq(Aliases) : t = Runtime!SetToSeq(targets)
    BY <2>1, RuntimeSetToSeqTells
  <2>3. PICK d \in Seq(Aliases) : d = Runtime!SetToSeq(targets \cap undo)
        /\ Runtime!Range(d) = targets \cap undo
    BY <2>1, RuntimeSetToSeqTells
  <2>4. \A a \in Runtime!Range(d) : s1'[a].on
    BY <1>1, <1>2, <2>3
  <2>5. s8' = "plan" /\ s9' = [Runtime!NewJob EXCEPT !.todo = t, !.redo = d]
    BY <1>6, <2>2, <2>3
  <2> QED BY <1>2, <1>4, <2>1, <2>4, <2>5, RuntimeProvisionKeeps
<1> QED BY <1>2, <1>5, <1>6

(* Either menu saves an option.                                              *)
LEMMA RuntimeConfigurationKeeps ==
  ASSUME Runtime!IInv, NEW group \in Groups, NEW o \in Options,
         Runtime!RuntimeConfiguration(group, o) \/ Runtime!LlmConfiguration(group, o)
  PROVE  Runtime!IInv'
<1>1. group \in SUBSET Aliases
  BY RuntimeAssumption DEF Runtime!RuntimeAssumption
<1>2. Runtime!TypeOK /\ s2 \in [Aliases -> Options]
  BY DEF Runtime!IInv, Runtime!TypeOK
<1>3. \A as : Runtime!Remembered(as, s2)
        \in [Aliases -> Runtime!Snapshots \cup {Untracked, Unconfirmed}]
  BY <1>2, RuntimeSnapshotTells
<1>4. CASE Runtime!RuntimeConfiguration(group, o)
  <2>1. PICK m \in [Aliases -> Runtime!Snapshots \cup {Untracked, Unconfirmed}] : m
          = Runtime!Remembered(Aliases, s2)
    BY <1>3
  <2>2. Runtime!SaveOption(group, o, m, group)
    BY <1>4, <2>1 DEF Runtime!RuntimeConfiguration
  <2> QED BY <1>1, <2>2, RuntimeSaveOptionKeeps
<1>5. CASE Runtime!LlmConfiguration(group, o)
  <2>1. PICK m \in [Aliases -> Runtime!Snapshots \cup {Untracked, Unconfirmed}] : m
          = Runtime!Remembered(group, s2)
    BY <1>3
  <2>2. PICK u : u = {a \in group : s1[a].rec \in Runtime!Running(a)}
    OBVIOUS
  <2>3. Runtime!SaveOption(group, o, m, u)
    BY <1>5, <2>1, <2>2 DEF Runtime!LlmConfiguration
  <2> QED BY <1>1, <2>3, RuntimeSaveOptionKeeps
<1> QED BY <1>4, <1>5

(* What is pending is applied.                                               *)
LEMMA RuntimeApplyAssignmentsKeeps ==
  ASSUME Runtime!IInv, Runtime!ApplyAssignments
  PROVE  Runtime!IInv'
<1>1. Runtime!Begin /\ Runtime!Pending # {} /\ Runtime!Provision(Runtime!Pending)
      /\ UNCHANGED <<s1, s2, s3, s4>>
  BY DEF Runtime!ApplyAssignments
<1>2. PICK s : s = Runtime!Pending
  OBVIOUS
<1>3. s \subseteq Aliases /\ Aliases # {}
  BY <1>1, <1>2 DEF Runtime!Pending
<1>4. PICK t \in Seq(Aliases) : t = Runtime!SetToSeq(s)
  BY <1>3, RuntimeSetToSeqTells
<1>5. s8' = "plan" /\ s9' = [Runtime!NewJob EXCEPT !.todo = t]
  BY <1>1, <1>2, <1>4 DEF Runtime!Provision
<1>6. <<>> \in Seq(Aliases) /\ Runtime!Range(<<>>) = {}
  BY DEF Runtime!Range
<1>7. /\ s1 \in Runtime!Deployments /\ s4 \in [Recipes -> Versions] /\ s2 \in [Aliases -> Options]
      /\ s3 \in [Aliases -> Runtime!Snapshots \cup {Untracked, Unconfirmed}]
      /\ \A a \in Aliases : s1[a].rec \in Runtime!Of(a)
  BY DEF Runtime!IInv, Runtime!TypeOK, Runtime!OwnChoices
<1>8. /\ s1' \in Runtime!Deployments /\ s4' \in [Recipes -> Versions]
      /\ s2' \in [Aliases -> Options] /\ \A a \in Aliases : s1'[a].rec \in Runtime!Of(a)
      /\ s3' \in [Aliases -> Runtime!Snapshots \cup {Untracked, Unconfirmed}]
  BY <1>1, <1>7
<1> QED BY <1>1, <1>3, <1>5, <1>6, <1>8, RuntimeProvisionKeeps

(* The running services of a family are to get another image.                *)
LEMMA RuntimeRuntimeUpdateKeeps ==
  ASSUME Runtime!IInv, NEW family \in Families, Runtime!RuntimeUpdate(family)
  PROVE  Runtime!IInv'
<1>1. PICK affected : affected = {a \in Aliases : /\ s1[a].on /\ s1[a].rec \in family
                                                  /\ s1[a].rec \in Runtime!Running(a)}
  OBVIOUS
<1>2. /\ Runtime!Begin /\ affected # {} /\ UNCHANGED <<s1, s2, s3, s4>>
      /\ s8' = "update" /\ s9' = [Runtime!NewJob EXCEPT !.todo = Runtime!SetToSeq(affected)]
  BY <1>1 DEF Runtime!RuntimeUpdate
<1>3. PICK t \in Seq(Aliases) : /\ t = Runtime!SetToSeq(affected) /\ Runtime!Range(t) = affected
                                /\ \A i, j \in 1..Len(t) : t[i] = t[j] => i = j
  BY <1>1, RuntimeSetToSeqTells
<1>4. s9' = [Runtime!NewJob EXCEPT !.todo = t]
  BY <1>2, <1>3
<1>5. Runtime!TypeOK /\ Aliases # {} /\ <<>> \in Seq(Aliases)
  BY <1>1, <1>2 DEF Runtime!IInv
<1>6. /\ s9' \in Runtime!Jobs /\ s9'.before = s1 /\ s9'.option = s2 /\ s9'.done = <<>>
      /\ s9'.off = {} /\ s9'.seen = [a \in Aliases |-> {}] /\ s9'.redo = <<>>
      /\ s9'.todo = t /\ ~s9'.guided /\ s1 # <<>>
  BY <1>4, <1>5, RuntimeNewJobTells
<1>7. /\ s1 \in Runtime!Deployments /\ s4 \in [Recipes -> Versions] /\ s2 \in [Aliases -> Options]
      /\ s3 \in [Aliases -> Runtime!Snapshots \cup {Untracked, Unconfirmed}]
      /\ \A a \in Aliases : s1[a].rec \in Runtime!Of(a)
  BY DEF Runtime!IInv, Runtime!TypeOK, Runtime!OwnChoices
<1>8. /\ s1' \in Runtime!Deployments /\ s4' \in [Recipes -> Versions]
      /\ s2' \in [Aliases -> Options] /\ \A a \in Aliases : s1'[a].rec \in Runtime!Of(a)
      /\ s3' \in [Aliases -> Runtime!Snapshots \cup {Untracked, Unconfirmed}]
  BY <1>2, <1>7
<1>9. Runtime!TypeOK'
  BY <1>2, <1>6, <1>8, RuntimeBeginTyped
<1>10. \A a \in Runtime!Range(s9'.redo) : s1'[a].on
  <2>1. Runtime!Range(<<>>) = {}
    BY DEF Runtime!Range
  <2> QED BY <1>6, <2>1
<1>11. \A a \in Runtime!Range(s9'.todo) : s1'[a].on
  BY <1>1, <1>2, <1>3, <1>6
<1> QED BY <1>2, <1>3, <1>6, <1>8, <1>9, <1>10, <1>11, RuntimeBeginKeeps

(* An operation that goes on has a job still.                                *)
LEMMA RuntimeJobStays ==
  ASSUME Runtime!IInv, s8 # "idle", UNCHANGED s9
  PROVE  /\ s9' \in Runtime!Jobs /\ s9'.before # <<>> /\ s9.before \in Runtime!Deployments
         /\ s9.todo \in Seq(Aliases) /\ s9.done \in Seq(Aliases) /\ s9.redo \in Seq(Aliases)
  BY DEF Runtime!IInv, Runtime!TypeOK, Runtime!Jobs

(* A service that is activated keeps the other aliases as they were seen.    *)
LEMMA RuntimeRestUntouched ==
  ASSUME Runtime!IInv, s8 \in Runtime!AtService, UNCHANGED s9,
         \A s \in Recipes \ Runtime!Of(Runtime!Cur) : s7'[s] = s7[s]
  PROVE  \A a \in Runtime!Range(Tail(s9.todo)) : Runtime!Untouched(a)'
<1>1. s8 \in Runtime!Activating /\ s9.todo # <<>>
  BY DEF Runtime!IInv, Runtime!Underway, Runtime!Activating
<1>2. PICK c \in Aliases : c = Runtime!Cur
  BY <1>1, RuntimeAtCur
<1>3. /\ Runtime!Range(Tail(s9.todo)) \subseteq Aliases /\ c \notin Runtime!Range(Tail(s9.todo))
  <2>1. s9.todo \in Seq(Aliases)
    BY <1>1, RuntimeAtCur
  <2>2. \A i, j \in 1..Len(s9.todo) : s9.todo[i] = s9.todo[j] => i = j
    BY <1>1 DEF Runtime!IInv, Runtime!Rollback
  <2>3. PICK s : s = s9.todo
    OBVIOUS
  <2>4. /\ Runtime!Range(Tail(s)) \subseteq Runtime!Range(s)
        /\ Head(s) \notin Runtime!Range(Tail(s)) /\ Runtime!Range(s) \subseteq Aliases
    BY <1>1, <2>1, <2>2, <2>3, RuntimeHeadTells, RuntimeRangeTells
  <2> QED BY <1>2, <2>3, <2>4 DEF Runtime!Cur
<1>4. ASSUME NEW a \in Runtime!Range(Tail(s9.todo)) PROVE Runtime!Untouched(a)'
  <2>1. a \in Aliases \ {c} /\ Runtime!Untouched(a)
    BY <1>3 DEF Runtime!IInv, Runtime!Rollback
  <2>2. \A s \in Recipes \ Runtime!Of(c) : s7'[s] = s7[s]
    BY <1>2
  <2>3. Runtime!Running(a)' = Runtime!Running(a) /\ \A s \in Runtime!Running(a) : s7'[s] = s7[s]
    BY <1>2, <2>1, <2>2, RuntimeOthersStay
  <2> QED BY <2>1, <2>3 DEF Runtime!Untouched
<1> QED BY <1>4

(* A step of the activation of a service, or of its rollback.                *)
LEMMA RuntimeServingKeeps ==
  ASSUME Runtime!IInv, s8 \in Runtime!AtService, s8' \in Runtime!AtService \ {"stop"},
         UNCHANGED <<s1, s2, s9>>,
         Runtime!TypeOK', Runtime!OneService', NEW c \in Aliases, c = Runtime!Cur,
         \A s \in Recipes \ Runtime!Of(c) : s7'[s] = s7[s], Runtime!Serving(c)'
  PROVE  Runtime!IInv'
<1>1. s8 # "idle" /\ s8' # "idle" /\ s8 \in Runtime!Activating /\ s8' \in Runtime!Activating
  BY DEF Runtime!AtService, Runtime!Activating
<1>2. Runtime!OwnChoices' /\ Runtime!RestoredMeansBefore'
  BY <1>1, RuntimeInsideTells
<1>3. Runtime!Underway'
  <2>1. s8' \notin {"idle", "plan", "update", "mark", "remake", "unmark", "revert"}
    BY DEF Runtime!AtService
  <2> QED BY <1>1, <2>1 DEF Runtime!IInv, Runtime!Underway
<1>4. Runtime!Confirming'
  BY DEF Runtime!Confirming, Runtime!AtService
<1>5. \A a \in Runtime!Range(Tail(s9.todo)) : Runtime!Untouched(a)'
  BY RuntimeRestUntouched
<1>6. Runtime!Cur' = c
  BY DEF Runtime!Cur
<1>7. \A a \in Aliases : a = Runtime!Cur' => Runtime!Serving(a)'
  BY <1>6
<1>8. s8' \notin {"send", "read", "stop"}
  BY DEF Runtime!AtService
<1>9. Runtime!Rollback'
  BY <1>1, <1>5, <1>7, <1>8 DEF Runtime!IInv, Runtime!Rollback
<1> QED BY <1>2, <1>3, <1>4, <1>9 DEF Runtime!IInv

(* The other services of the alias are stopped.                              *)
LEMMA RuntimeStopAlternativesKeeps ==
  ASSUME Runtime!IInv, Runtime!StopAlternatives
  PROVE  Runtime!IInv'
<1>1. /\ s8 = "stop" /\ s8' = "link"
      /\ s7' = Runtime!Stopped(Runtime!Of(Runtime!Cur) \ {Runtime!Wanted})
      /\ UNCHANGED <<s1, s2, s4, s3, s5, s6, s9, s10, s11>>
  BY DEF Runtime!StopAlternatives, Runtime!localVars
<1>2. s8 \in Runtime!AtService /\ s8' \in Runtime!AtService \ {"stop"}
      /\ s8 \in Runtime!Activating /\ s9.todo # <<>>
  BY <1>1 DEF Runtime!AtService, Runtime!Activating, Runtime!IInv, Runtime!Underway
<1>3. PICK c \in Aliases, w \in Recipes : c = Runtime!Cur /\ w = Runtime!Wanted
      /\ w \in Runtime!Of(c)
  BY <1>2, RuntimeAtCur
<1>4. PICK rs : rs = Runtime!Of(c) \ {w}
  OBVIOUS
<1>5. /\ s7' \in [Recipes -> Runtime!Containers] /\ Runtime!OneService'
      /\ \A s \in Recipes \ rs : s7'[s] = s7[s]
      /\ \A a \in Aliases : Runtime!Running(a)' = Runtime!Running(a) \ rs
  <2>1. Runtime!TypeOK /\ Runtime!OneService /\ s7' = Runtime!Stopped(rs)
    BY <1>1, <1>3, <1>4 DEF Runtime!IInv
  <2> QED BY <2>1, RuntimeStoppedTells
<1>6. Runtime!TypeOK'
  BY <1>1, <1>5 DEF Runtime!IInv, Runtime!TypeOK
<1>7. Runtime!Serving(c)'
  <2>1. Runtime!Serving(c)
    BY <1>2, <1>3 DEF Runtime!IInv, Runtime!Rollback
  <2>2. s6'[c] = s9'.was
    BY <1>1, <2>1 DEF Runtime!Serving
  <2>3. Runtime!Running(c)' \subseteq {w}
    BY <1>4, <1>5, RuntimeRunningTells
  <2>4. s1'[c].rec = w
    BY <1>1, <1>3 DEF Runtime!Wanted
  <2> QED BY <1>1, <2>2, <2>3, <2>4 DEF Runtime!Serving
<1>8. \A s \in Recipes \ Runtime!Of(c) : s7'[s] = s7[s]
  BY <1>4, <1>5
<1> QED BY <1>1, <1>2, <1>3, <1>5, <1>6, <1>7, <1>8, RuntimeServingKeeps

(* The new model is linked.                                                  *)
LEMMA RuntimeActivateKeeps ==
  ASSUME Runtime!IInv, Runtime!Activate
  PROVE  Runtime!IInv'
<1>1. /\ s8 = "link" /\ s8' = "start" /\ <<Runtime!Wanted, s4[Runtime!Wanted]>> \in s5
      /\ s6' = [s6 EXCEPT ![Runtime!Cur] = <<Runtime!Wanted, s4[Runtime!Wanted]>>]
      /\ UNCHANGED <<s1, s2, s4, s3, s5, s7, s9, s10, s11>>
  BY DEF Runtime!Activate, Runtime!localVars
<1>2. s8 \in Runtime!AtService /\ s8' \in Runtime!AtService \ {"stop"}
      /\ s8 \in Runtime!Activating /\ s9.todo # <<>>
  BY <1>1 DEF Runtime!AtService, Runtime!Activating, Runtime!IInv, Runtime!Underway
<1>3. PICK c \in Aliases : c = Runtime!Cur
  BY <1>2, RuntimeAtCur
<1>4. Runtime!TypeOK'
  <2>1. s6' \in [Aliases -> Runtime!Links]
    BY <1>1, <1>3 DEF Runtime!IInv, Runtime!TypeOK, Runtime!Links
  <2> QED BY <1>1, <2>1 DEF Runtime!IInv, Runtime!TypeOK
<1>5. Runtime!OneService' /\ \A a \in Aliases : Runtime!Running(a)' = Runtime!Running(a)
  BY <1>1, RuntimeServicesStay DEF Runtime!IInv
<1>6. Runtime!Serving(c)'
  <2>1. Runtime!Running(c) \subseteq {s1[c].rec}
    BY <1>1, <1>2, <1>3 DEF Runtime!IInv, Runtime!Rollback, Runtime!Serving
  <2>2. Runtime!Running(c)' \subseteq {s1'[c].rec}
    BY <1>1, <1>5, <2>1
  <2> QED BY <1>1, <2>2 DEF Runtime!Serving
<1> QED BY <1>1, <1>2, <1>3, <1>4, <1>5, <1>6, RuntimeServingKeeps

(* The new service is healthy, with the model that is linked.                *)
LEMMA RuntimeStartKeeps ==
  ASSUME Runtime!IInv, Runtime!Start
  PROVE  Runtime!IInv'
<1>1. /\ s8 = "start" /\ s8' = "record"
      /\ Runtime!Recreated(Runtime!Wanted, s2[Runtime!Cur], "current")
      /\ UNCHANGED <<s1, s2, s4, s3, s5, s6, s9, s10, s11>>
  BY DEF Runtime!Start, Runtime!localVars
<1>2. s8 \in Runtime!AtService /\ s8' \in Runtime!AtService \ {"stop"}
      /\ s8 \in Runtime!Activating /\ s9.todo # <<>>
  BY <1>1 DEF Runtime!AtService, Runtime!Activating, Runtime!IInv, Runtime!Underway
<1>3. PICK c \in Aliases, w \in Recipes, o \in Options :
        /\ c = Runtime!Cur /\ w = Runtime!Wanted /\ w \in Runtime!Of(c) /\ o = s2[c]
        /\ s1[c].on /\ w = s1[c].rec
  BY <1>2, RuntimeAtCur DEF Runtime!Wanted
<1>4. Runtime!Recreated(w, o, "current") /\ Runtime!TypeOK /\ Runtime!OneService
  BY <1>1, <1>3 DEF Runtime!IInv
<1>5. s7' \in [Recipes -> Runtime!Containers] /\ Runtime!OneService'
      /\ \A s \in Recipes \ {w} : s7'[s] = s7[s]
  BY ONLY RuntimeAssumption, <1>4, w \in Recipes, o \in Options, RuntimeRecreatedTells
<1>6. Runtime!TypeOK'
  BY <1>1, <1>5 DEF Runtime!IInv, Runtime!TypeOK
<1>7. Runtime!Serving(c)'
  <2>1. Runtime!Live(c, Runtime!Snapshot(s1[c], o))'
    <3>1. Runtime!Recreated(s1[c].rec, o, "current") /\ s1[c].rec \in Runtime!Of(c)
      BY <1>3, <1>4
    <3> QED BY <1>1, <1>3, <1>4, <3>1, RuntimeRecreatedLive
  <2>2. Runtime!Confirmable(c)'
    BY <1>1, <1>3, <2>1 DEF Runtime!Confirmable
  <2> QED BY <1>1, <2>2 DEF Runtime!Serving
<1>8. \A s \in Recipes \ Runtime!Of(c) : s7'[s] = s7[s]
  BY <1>3, <1>5
<1> QED BY <1>1, <1>2, <1>3, <1>5, <1>6, <1>7, <1>8, RuntimeServingKeeps

(* What still runs of the alias, but for the new service, ran before.        *)
LEMMA RuntimeActivationFailsKeeps ==
  ASSUME Runtime!IInv, Runtime!ActivationFails
  PROVE  Runtime!IInv'
<1>1. /\ s8 \in {"stop", "link", "start"} /\ s8' = "undoStop"
      /\ IF s8 = "start"
           THEN Runtime!NotRecreated(Runtime!Wanted, s2[Runtime!Cur], "current") ELSE UNCHANGED s7
      /\ UNCHANGED <<s1, s2, s4, s3, s5, s6, s9, s10, s11>>
  BY DEF Runtime!ActivationFails, Runtime!localVars
<1>2. s8 \in Runtime!AtService /\ s8' \in Runtime!AtService \ {"stop"}
      /\ s8 \in Runtime!Activating /\ s9.todo # <<>>
  BY <1>1 DEF Runtime!AtService, Runtime!Activating, Runtime!IInv, Runtime!Underway
<1>3. PICK c \in Aliases, w \in Recipes, o \in Options :
        c = Runtime!Cur /\ w = Runtime!Wanted /\ w \in Runtime!Of(c) /\ o = s2[c] /\ w = s1[c].rec
  BY <1>2, RuntimeAtCur DEF Runtime!Wanted
<1>4. Runtime!TypeOK /\ Runtime!OneService /\ Runtime!Serving(c)
  BY <1>2, <1>3 DEF Runtime!IInv, Runtime!Rollback
<1>5. /\ s7' \in [Recipes -> Runtime!Containers] /\ Runtime!OneService'
      /\ \A s \in Recipes \ {w} : s7'[s] = s7[s]
  <2>1. CASE s8 = "start"
    <3>1. Runtime!NotRecreated(w, o, "current")
      BY <1>1, <1>3, <2>1
    <3> QED BY ONLY RuntimeAssumption, <1>4, <3>1, w \in Recipes, o \in Options,
               RuntimeNotRecreatedTells
  <2>2. CASE s8 # "start"
    BY <1>1, <1>4, <2>2, RuntimeServicesStay DEF Runtime!TypeOK
  <2> QED BY <2>1, <2>2
<1>6. Runtime!TypeOK'
  BY <1>1, <1>5 DEF Runtime!IInv, Runtime!TypeOK
<1>7. Runtime!Leftover(c)'
  <2>1. \A s \in Runtime!Running(c)' \ {w} : s \in Runtime!Running(c) \ {w} /\ s7'[s] = s7[s]
    BY <1>5 DEF Runtime!Running, Runtime!Of
  <2>2. CASE s8 = "stop"
    <3>1. Runtime!Untouched(c)
      <4>1. c \in Runtime!Range(s9.todo)
        <5>1. s9.todo \in Seq(Aliases)
          BY <1>2, RuntimeAtCur
        <5>2. PICK s : s = s9.todo
          OBVIOUS
        <5> QED BY <1>2, <1>3, <5>1, <5>2, RuntimeHeadTells DEF Runtime!Cur
      <4> QED BY <2>2, <4>1 DEF Runtime!IInv, Runtime!Rollback
    <3> QED BY <1>1, <1>3, <2>1, <3>1 DEF Runtime!Leftover, Runtime!Untouched
  <2>3. CASE s8 # "stop"
    <3>1. Runtime!Running(c) \subseteq {w}
      BY <1>1, <1>3, <1>4, <2>3 DEF Runtime!Serving
    <3>2. Runtime!Running(c)' \ {w} = {}
      BY <2>1, <3>1
    <3> QED BY <1>1, <1>3, <3>2 DEF Runtime!Leftover
  <2> QED BY <2>2, <2>3
<1>8. Runtime!Serving(c)'
  BY <1>1, <1>7 DEF Runtime!Serving
<1>9. \A s \in Recipes \ Runtime!Of(c) : s7'[s] = s7[s]
  BY <1>3, <1>5
<1> QED BY <1>1, <1>2, <1>3, <1>5, <1>6, <1>8, <1>9, RuntimeServingKeeps

(* The new service is stopped again.                                         *)
LEMMA RuntimeUndoStopKeeps ==
  ASSUME Runtime!IInv, Runtime!UndoStop
  PROVE  Runtime!IInv'
<1>1. /\ s8 = "undoStop" /\ s8' = "undoLink" /\ s7' = Runtime!Stopped({Runtime!Wanted})
      /\ UNCHANGED <<s1, s2, s4, s3, s5, s6, s9, s10, s11>>
  BY DEF Runtime!UndoStop, Runtime!localVars
<1>2. s8 \in Runtime!AtService /\ s8' \in Runtime!AtService \ {"stop"}
      /\ s8 \in Runtime!Activating /\ s9.todo # <<>>
  BY <1>1 DEF Runtime!AtService, Runtime!Activating, Runtime!IInv, Runtime!Underway
<1>3. PICK c \in Aliases, w \in Recipes : c = Runtime!Cur /\ w = Runtime!Wanted
      /\ w \in Runtime!Of(c) /\ w = s1[c].rec
  BY <1>2, RuntimeAtCur DEF Runtime!Wanted
<1>4. Runtime!TypeOK /\ Runtime!OneService /\ Runtime!Serving(c) /\ s7' = Runtime!Stopped({w})
  BY <1>1, <1>2, <1>3 DEF Runtime!IInv, Runtime!Rollback
<1>5. /\ s7' \in [Recipes -> Runtime!Containers] /\ Runtime!OneService'
      /\ \A s \in Recipes \ {w} : s7'[s] = s7[s]
      /\ \A a \in Aliases : Runtime!Running(a)' = Runtime!Running(a) \ {w}
  BY <1>4, RuntimeStoppedTells
<1>6. Runtime!TypeOK'
  BY <1>1, <1>5 DEF Runtime!IInv, Runtime!TypeOK
<1>7. Runtime!Leftover(c)' /\ s1'[c].rec \notin Runtime!Running(c)'
  <2>1. Runtime!Leftover(c) /\ Runtime!Running(c)' = Runtime!Running(c) \ {w}
    BY <1>1, <1>4, <1>5 DEF Runtime!Serving
  <2>2. \A s \in Runtime!Running(c) : s \in Recipes
    BY RuntimeRunningTells
  <2>3. Runtime!Leftover(c)'
    BY <1>1, <1>3, <1>5, <2>1, <2>2 DEF Runtime!Leftover
  <2> QED BY <1>1, <1>3, <2>1, <2>3
<1>8. Runtime!Serving(c)'
  BY <1>1, <1>7 DEF Runtime!Serving
<1>9. \A s \in Recipes \ Runtime!Of(c) : s7'[s] = s7[s]
  BY <1>3, <1>5
<1> QED BY <1>1, <1>2, <1>3, <1>5, <1>6, <1>8, <1>9, RuntimeServingKeeps

(* The link is the one it was.                                               *)
LEMMA RuntimeUndoLinkKeeps ==
  ASSUME Runtime!IInv, Runtime!UndoLink
  PROVE  Runtime!IInv'
<1>1. /\ s8 = "undoLink" /\ s8' = "undoStart" /\ s6' = [s6 EXCEPT ![Runtime!Cur] = s9.was]
      /\ UNCHANGED <<s1, s2, s4, s3, s5, s7, s9, s10, s11>>
  BY DEF Runtime!UndoLink, Runtime!localVars
<1>2. s8 \in Runtime!AtService /\ s8' \in Runtime!AtService \ {"stop"}
      /\ s8 \in Runtime!Activating /\ s9.todo # <<>>
  BY <1>1 DEF Runtime!AtService, Runtime!Activating, Runtime!IInv, Runtime!Underway
<1>3. PICK c \in Aliases : c = Runtime!Cur
  BY <1>2, RuntimeAtCur
<1>4. Runtime!TypeOK /\ Runtime!OneService /\ Runtime!Serving(c)
  BY <1>2, <1>3 DEF Runtime!IInv, Runtime!Rollback
<1>5. s6' \in [Aliases -> Runtime!Links] /\ s6'[c] = s9.was
  <2>1. s9.was \in Runtime!Links /\ s6 \in [Aliases -> Runtime!Links]
    BY <1>4 DEF Runtime!TypeOK, Runtime!Jobs
  <2> QED BY <1>1, <1>3, <2>1
<1>6. Runtime!TypeOK'
  BY <1>1, <1>5 DEF Runtime!IInv, Runtime!TypeOK
<1>7. Runtime!OneService' /\ \A a \in Aliases : Runtime!Running(a)' = Runtime!Running(a)
  BY <1>1, RuntimeServicesStay DEF Runtime!IInv
<1>8. Runtime!Leftover(c)' /\ s1'[c].rec \notin Runtime!Running(c)'
  BY <1>1, <1>4, <1>7 DEF Runtime!Serving, Runtime!Leftover
<1>9. Runtime!Serving(c)'
  BY <1>1, <1>5, <1>8 DEF Runtime!Serving
<1> QED BY <1>1, <1>2, <1>3, <1>6, <1>7, <1>9, RuntimeServingKeeps

(* The plan notes what runs, and confirms only what is unchanged.            *)
LEMMA RuntimePlanKeeps ==
  ASSUME Runtime!IInv, Runtime!Plan
  PROVE  Runtime!IInv' /\ Runtime!ReceiptsEarnedStep
<1>1. PICK as, changed, disabled :
        /\ as = Runtime!Range(s9.todo) /\ changed = {a \in as : s1[a].on /\ ~Runtime!Unchanged(a)}
        /\ disabled = {a \in as : ~s1[a].on /\ Runtime!Running(a) # {}}
  OBVIOUS
<1>2. /\ s8 = "plan" /\ s8' = "send"
      /\ s3' = Runtime!Confirmed(as \ (changed \cup disabled), s2)
      /\ s9' = [s9 EXCEPT !.todo = Runtime!SetToSeq(changed), !.off = disabled,
         !.unsent = changed,
                            !.seen = [a \in Aliases |-> Runtime!Running(a)],
                            !.ran = [r \in Recipes |-> s7[r].loaded]]
      /\ UNCHANGED <<s1, s2, s4, s5, s6, s7, s10, s11>>
  BY <1>1 DEF Runtime!Plan, Runtime!localVars, Runtime!targetVars
<1>3. /\ Runtime!TypeOK /\ Runtime!OneService /\ s9 \in Runtime!Jobs
      /\ s9.todo \in Seq(Aliases) /\ s9.done = <<>>
      /\ s9.before # <<>>
  BY <1>2 DEF Runtime!IInv, Runtime!TypeOK, Runtime!Jobs, Runtime!Underway
<1>4. as \subseteq Aliases /\ changed \subseteq Aliases /\ disabled \subseteq Aliases
  BY <1>1, <1>3, RuntimeRangeTells
<1>5. PICK t \in Seq(Aliases) : /\ t = Runtime!SetToSeq(changed) /\ Runtime!Range(t) = changed
                                /\ \A i, j \in 1..Len(t) : t[i] = t[j] => i = j
  BY <1>4, RuntimeSetToSeqTells
<1>6. PICK e, p : e = [a \in Aliases |-> Runtime!Running(a)]
      /\ p = [r \in Recipes |-> s7[r].loaded]
  OBVIOUS
<1>7. e \in [Aliases -> SUBSET Recipes] /\ p \in [Recipes -> Runtime!Links]
  <2>1. \A a \in Aliases : Runtime!Running(a) \in SUBSET Recipes
    BY RuntimeRunningTells
  <2>2. \A r \in Recipes : s7[r].loaded \in Runtime!Links
    BY <1>3 DEF Runtime!TypeOK, Runtime!Containers
  <2> QED BY <1>6, <2>1, <2>2
<1>8. PICK x : x = [s9 EXCEPT !.todo = t, !.off = disabled, !.unsent = changed, !.seen = e,
               !.ran = p]
  OBVIOUS
<1>9. /\ x \in Runtime!Jobs /\ x.before = s9.before /\ x.option = s9.option /\ x.todo = t
      /\ x.done = s9.done /\ x.off = disabled /\ x.seen = e /\ x.ran = p /\ x.redo = s9.redo
      /\ x.guided = s9.guided
  BY <1>3, <1>4, <1>7, <1>8 DEF Runtime!Jobs
<1>10. s9' = x
  BY <1>2, <1>5, <1>6, <1>8
<1>11. Runtime!TypeOK'
  <2>1. s3' \in [Aliases -> Runtime!Snapshots \cup {Untracked, Unconfirmed}]
    BY <1>2, <1>3, RuntimeSnapshotTells DEF Runtime!TypeOK
  <2> QED BY <1>2, <1>3, <1>9, <1>10, <2>1 DEF Runtime!TypeOK
<1>12. Runtime!OwnChoices' /\ Runtime!RestoredMeansBefore'
  BY <1>2, <1>9, <1>10, RuntimeInsideTells
<1>13. Runtime!OneService' /\ \A a \in Aliases : Runtime!Running(a)' = Runtime!Running(a)
  BY <1>2, <1>3, RuntimeServicesStay
<1>14. Runtime!Underway'
  <2>1. /\ s9.option \in [Aliases -> Options] /\ \A a \in Runtime!Range(s9.redo) : s1[a].on
        /\ s9.guided => s9.redo = <<>>
    BY <1>2 DEF Runtime!IInv, Runtime!Underway
  <2>2. Runtime!Range(<<>>) = {}
    BY DEF Runtime!Range
  <2>3. \A a \in changed : s1[a].on
    BY <1>1
  <2>4. \A a \in disabled : ~s1[a].on
    BY <1>1
  <2> QED BY <1>2, <1>3, <1>5, <1>9, <1>10, <2>1, <2>2, <2>3, <2>4
            DEF Runtime!Underway, Runtime!Activating, Runtime!AtService
<1>15. Runtime!Confirming'
  BY <1>2 DEF Runtime!Confirming
<1>16. Runtime!Rollback'
  <2>1. \A a \in Aliases : x.seen[a] = Runtime!Running(a)
          /\ Runtime!Running(a) \subseteq Runtime!Of(a)
    BY <1>6, <1>9, RuntimeRunningTells
  <2>2. \A a \in Aliases : \A r, s \in Runtime!Running(a) : r = s
    BY <1>3 DEF Runtime!OneService
  <2>3. \A a \in Aliases : Runtime!Untouched(a)'
    <3>1. \A r \in Recipes : x.ran[r] = s7[r].loaded
      BY <1>6, <1>9
    <3>2. \A a \in Aliases : \A r \in Runtime!Running(a) : r \in Recipes
      BY RuntimeRunningTells
    <3> QED BY <1>2, <1>10, <1>13, <2>1, <3>1, <3>2 DEF Runtime!Untouched
  <2>4. \A i, j \in 1..Len(s9'.todo) : s9'.todo[i] = s9'.todo[j] => i = j
    BY <1>5, <1>9, <1>10
  <2>5. Runtime!Range(s9'.todo) \subseteq Aliases
    BY <1>4, <1>5, <1>9, <1>10
  <2>6. \A a \in Aliases : s9'.seen[a] \subseteq Runtime!Of(a) /\ \A r, s \in s9'.seen[a] : r = s
    BY <1>10, <2>1, <2>2
  <2> QED BY <1>2, <2>3, <2>4, <2>5, <2>6 DEF Runtime!Rollback, Runtime!AtService
<1>17. Runtime!ReceiptsEarnedStep
  <2>1. ASSUME NEW a \in Aliases, s3'[a] # s3[a] PROVE Runtime!Live(a, s3[a])'
    <3>1. a \in as /\ a \notin changed /\ a \notin disabled
          /\ s3'[a] = Runtime!Snapshot(s1[a], s2[a])
      BY <1>2, <2>1 DEF Runtime!Confirmed
    <3>2. PICK y : y = Runtime!Snapshot(s1[a], s2[a])
      OBVIOUS
    <3>3. Runtime!Live(a, y)
      <4>1. CASE s1[a].on
        <5>1. Runtime!Unchanged(a)
          BY <1>1, <3>1, <4>1
        <5>2. PICK r : r = s1[a].rec
          OBVIOUS
        <5>3. /\ Runtime!Running(a) = {r} /\ s7[r].state = "healthy"
              /\ Runtime!SettingsMatch(r, s2[a])
              /\ Runtime!ActiveIdentity(a) = r
          BY <5>1, <5>2 DEF Runtime!Unchanged
        <5>4. r \in Recipes
          BY <5>3, RuntimeRunningTells
        <5>5. Runtime!HasOwnModel(r)
          BY <1>3, <5>3, <5>4 DEF Runtime!OneService
        <5>6. y.on /\ y.rec = r /\ y.opt = (IF r \in Tuned THEN s2[a] ELSE None)
          BY <3>2, <4>1, <5>2 DEF Runtime!Snapshot
        <5> QED BY <5>3, <5>5, <5>6 DEF Runtime!Live, Runtime!SettingsMatch
      <4>2. CASE ~s1[a].on
        <5>1. Runtime!Running(a) = {}
          BY <1>1, <3>1, <4>2
        <5>2. ~y.on
          BY <3>2, <4>2 DEF Runtime!Snapshot, Runtime!Off
        <5> QED BY <5>1, <5>2 DEF Runtime!Live
      <4> QED BY <4>1, <4>2
    <3>4. Runtime!Live(a, y)'
      BY <1>2, <1>13, <3>3 DEF Runtime!Live, Runtime!HasOwnModel, Runtime!ActiveIdentity
    <3>5. s3'[a] = y
      BY <3>1, <3>2
    <3> QED BY <3>4, <3>5
              DEF Runtime!Live, Runtime!HasOwnModel, Runtime!ActiveIdentity, Runtime!Running
  <2> QED BY <2>1 DEF Runtime!ReceiptsEarnedStep
<1> QED BY <1>11, <1>12, <1>13, <1>14, <1>15, <1>16, <1>17 DEF Runtime!IInv

(* A bundle is sent.                                                         *)
LEMMA RuntimeTransferKeeps ==
  ASSUME Runtime!IInv, Runtime!Transfer
  PROVE  Runtime!IInv'
<1>1. /\ s8 = "send" /\ UNCHANGED <<s1, s2, s4, s3, s6, s7, s10, s11>>
      /\ \/ s8' = "read" /\ UNCHANGED <<s5, s9>>
         \/ \E a \in s9.unsent : /\ s5' = s5 \cup {<<s1[a].rec, s4[s1[a].rec]>>}
                                 /\ s9' = [s9 EXCEPT !.unsent = @ \ {a}]
                                 /\ UNCHANGED s8
  BY DEF Runtime!Transfer, Runtime!localVars
<1>2. /\ Runtime!TypeOK /\ Runtime!OneService /\ s9 \in Runtime!Jobs /\ s9.before # <<>>
      /\ s9.todo \in Seq(Aliases)
  BY <1>1 DEF Runtime!IInv, Runtime!TypeOK, Runtime!Jobs
<1>3. /\ s9' \in Runtime!Jobs /\ s9'.before = s9.before /\ s9'.option = s9.option
      /\ s9'.todo = s9.todo /\ s9'.done = s9.done /\ s9'.off = s9.off
      /\ s9'.seen = s9.seen /\ s9'.ran = s9.ran /\ s9'.redo = s9.redo
      /\ s9'.guided = s9.guided /\ s5' \subseteq Runtime!Bundles /\ s8' \in {"send", "read"}
  <2>1. CASE s8' = "read" /\ UNCHANGED <<s5, s9>>
    BY <1>2, <2>1 DEF Runtime!TypeOK
  <2>2. CASE \E a \in s9.unsent : /\ s5' = s5 \cup {<<s1[a].rec, s4[s1[a].rec]>>}
                                  /\ s9' = [s9 EXCEPT !.unsent = @ \ {a}]
                                  /\ UNCHANGED s8
    <3>1. PICK a \in s9.unsent : /\ s5' = s5 \cup {<<s1[a].rec, s4[s1[a].rec]>>}
                                 /\ s9' = [s9 EXCEPT !.unsent = @ \ {a}] /\ UNCHANGED s8
      BY <2>2
    <3>2. a \in Aliases /\ s1[a].rec \in Recipes
      BY <1>2 DEF Runtime!Jobs, Runtime!TypeOK, Runtime!Deployments
    <3>3. <<s1[a].rec, s4[s1[a].rec]>> \in Runtime!Bundles
      BY <1>2, <3>2 DEF Runtime!TypeOK, Runtime!Bundles
    <3>4. s5' \subseteq Runtime!Bundles
      BY <1>2, <3>1, <3>3 DEF Runtime!TypeOK
    <3>5. /\ s9' \in Runtime!Jobs /\ s9'.before = s9.before /\ s9'.option = s9.option
          /\ s9'.todo = s9.todo /\ s9'.done = s9.done /\ s9'.off = s9.off
          /\ s9'.seen = s9.seen /\ s9'.ran = s9.ran /\ s9'.redo = s9.redo
          /\ s9'.guided = s9.guided
      BY <1>2, <3>1 DEF Runtime!Jobs
    <3> QED BY <1>1, <3>1, <3>4, <3>5
  <2> QED BY <1>1, <2>1, <2>2
<1>4. Runtime!TypeOK'
  BY <1>1, <1>2, <1>3 DEF Runtime!TypeOK
<1>5. Runtime!OwnChoices' /\ Runtime!RestoredMeansBefore'
  BY <1>1, <1>3, RuntimeInsideTells
<1>6. Runtime!OneService' /\ \A a \in Aliases : Runtime!Running(a)' = Runtime!Running(a)
  BY <1>1, <1>2, RuntimeServicesStay
<1>7. Runtime!Underway'
  BY <1>1, <1>3 DEF Runtime!IInv, Runtime!Underway, Runtime!Activating, Runtime!AtService
<1>8. Runtime!Confirming'
  BY <1>3 DEF Runtime!Confirming
<1>9. Runtime!Rollback'
  <2>1. \A a \in Runtime!Range(s9.todo) : a \in Aliases /\ Runtime!Untouched(a)
    BY <1>1, <1>2, RuntimeRangeTells DEF Runtime!IInv, Runtime!Rollback
  <2>2. \A a \in Runtime!Range(s9.todo) : Runtime!Untouched(a)'
    BY <1>1, <1>3, <1>6, <2>1 DEF Runtime!Untouched
  <2>3. s8 \in Runtime!Activating /\ s8' \notin Runtime!AtService
    BY <1>1, <1>3 DEF Runtime!Activating, Runtime!AtService
  <2> QED BY <1>3, <2>2, <2>3 DEF Runtime!IInv, Runtime!Rollback
<1> QED BY <1>4, <1>5, <1>6, <1>7, <1>8, <1>9 DEF Runtime!IInv

(* The link is read before the activation changes it.                        *)
LEMMA RuntimeReadActiveKeeps ==
  ASSUME Runtime!IInv, Runtime!ReadActive
  PROVE  Runtime!IInv'
<1>1. /\ s8 = "read" /\ s9.todo # <<>> /\ s8' = "stop"
      /\ s9' = [s9 EXCEPT !.was = s6[Runtime!Cur]]
      /\ UNCHANGED <<s1, s2, s4, s3, s5, s6, s7, s10, s11>>
  BY DEF Runtime!ReadActive, Runtime!localVars, Runtime!targetVars
<1>2. s8 \in Runtime!Activating /\ s8' \in Runtime!Activating
  BY <1>1 DEF Runtime!Activating, Runtime!AtService
<1>3. PICK c \in Aliases : c = Runtime!Cur
  BY <1>1, <1>2, RuntimeAtCur
<1>4. /\ Runtime!TypeOK /\ Runtime!OneService /\ s9 \in Runtime!Jobs /\ s9.before # <<>>
      /\ s9.todo \in Seq(Aliases)
      /\ s6[c] \in Runtime!Links
  BY <1>1, <1>3 DEF Runtime!IInv, Runtime!TypeOK, Runtime!Jobs
<1>5. /\ s9' \in Runtime!Jobs /\ s9'.before = s9.before /\ s9'.option = s9.option
      /\ s9'.todo = s9.todo /\ s9'.done = s9.done /\ s9'.off = s9.off
      /\ s9'.seen = s9.seen /\ s9'.ran = s9.ran /\ s9'.redo = s9.redo
      /\ s9'.guided = s9.guided /\ s9'.was = s6[c]
  BY <1>1, <1>3, <1>4 DEF Runtime!Jobs
<1>6. Runtime!TypeOK'
  BY <1>1, <1>4, <1>5 DEF Runtime!TypeOK
<1>7. Runtime!OwnChoices' /\ Runtime!RestoredMeansBefore'
  BY <1>1, <1>5, RuntimeInsideTells
<1>8. Runtime!OneService' /\ \A a \in Aliases : Runtime!Running(a)' = Runtime!Running(a)
  BY <1>1, <1>4, RuntimeServicesStay
<1>9. Runtime!Underway'
  BY <1>1, <1>2, <1>5 DEF Runtime!IInv, Runtime!Underway
<1>10. Runtime!Confirming'
  BY <1>1 DEF Runtime!Confirming
<1>11. Runtime!Rollback'
  <2>1. \A a \in Runtime!Range(s9.todo) : a \in Aliases /\ Runtime!Untouched(a)
    BY <1>1, <1>4, RuntimeRangeTells DEF Runtime!IInv, Runtime!Rollback
  <2>2. \A a \in Runtime!Range(s9.todo) : Runtime!Untouched(a)'
    BY <1>1, <1>5, <1>8, <2>1 DEF Runtime!Untouched
  <2>3. Runtime!Range(Tail(s9.todo)) \subseteq Runtime!Range(s9.todo)
    <3>1. PICK s : s = s9.todo
      OBVIOUS
    <3> QED BY <1>1, <1>4, <3>1, RuntimeHeadTells
  <2>4. Runtime!Cur' = c
    BY <1>3, <1>5 DEF Runtime!Cur
  <2>5. Runtime!Serving(c)'
    BY <1>1, <1>5 DEF Runtime!Serving
  <2> QED BY <1>1, <1>2, <1>5, <2>2, <2>3, <2>4, <2>5 DEF Runtime!IInv, Runtime!Rollback
<1> QED BY <1>6, <1>7, <1>8, <1>9, <1>10, <1>11 DEF Runtime!IInv

(* The service that was started is confirmed.                                *)
LEMMA RuntimeRecordAppliedKeeps ==
  ASSUME Runtime!IInv, Runtime!RecordApplied
  PROVE  Runtime!IInv' /\ Runtime!ReceiptsEarnedStep
<1>1. /\ s8 = "record" /\ s8' = "read" /\ s3' = Runtime!Confirmed({Runtime!Cur}, s2)
      /\ s9' = [s9 EXCEPT !.todo = Tail(@), !.done = Append(@, Runtime!Cur)]
      /\ UNCHANGED <<s1, s2, s4, s5, s6, s7, s10, s11>>
  BY DEF Runtime!RecordApplied, Runtime!localVars, Runtime!targetVars
<1>2. s8 \in Runtime!AtService /\ s8 \in Runtime!Activating /\ s8' \in Runtime!Activating
      /\ s9.todo # <<>>
  BY <1>1 DEF Runtime!AtService, Runtime!Activating, Runtime!IInv, Runtime!Underway
<1>3. PICK c \in Aliases : c = Runtime!Cur
  BY <1>2, RuntimeAtCur
<1>4. /\ Runtime!TypeOK /\ Runtime!OneService /\ s9 \in Runtime!Jobs /\ s9.before # <<>>
      /\ s9.todo \in Seq(Aliases)
      /\ s9.done \in Seq(Aliases) /\ Runtime!Serving(c) /\ s2 \in [Aliases -> Options]
  BY <1>1, <1>2, <1>3 DEF Runtime!IInv, Runtime!TypeOK, Runtime!Jobs, Runtime!Rollback
<1>5. PICK s, d : s = s9.todo /\ d = s9.done
  OBVIOUS
<1>6. \A i, j \in 1..Len(s) : s[i] = s[j] => i = j
  BY <1>2, <1>5 DEF Runtime!IInv, Runtime!Rollback
<1>7. /\ Tail(s) \in Seq(Aliases) /\ Runtime!Range(Tail(s)) \subseteq Runtime!Range(s)
      /\ c \in Runtime!Range(s)
      /\ \A i, j \in 1..Len(Tail(s)) : Tail(s)[i] = Tail(s)[j] => i = j
  BY <1>2, <1>3, <1>4, <1>5, <1>6, RuntimeHeadTells DEF Runtime!Cur
<1>8. Append(d, c) \in Seq(Aliases)
      /\ Runtime!Range(Append(d, c)) \subseteq Runtime!Range(d) \cup {c}
  BY <1>4, <1>5, RuntimeAppendTells
<1>9. /\ s9' \in Runtime!Jobs /\ s9'.before = s9.before /\ s9'.option = s9.option
      /\ s9'.todo = Tail(s) /\ s9'.done = Append(d, c) /\ s9'.off = s9.off
      /\ s9'.seen = s9.seen /\ s9'.ran = s9.ran /\ s9'.redo = s9.redo
      /\ s9'.guided = s9.guided
  <2>1. PICK u, v : u = Tail(s) /\ v = Append(d, c) /\ u \in Seq(Aliases) /\ v \in Seq(Aliases)
    BY <1>7, <1>8
  <2>2. s9' = [s9 EXCEPT !.todo = u, !.done = v]
    BY <1>1, <1>3, <1>5, <2>1
  <2>3. /\ s9' \in Runtime!Jobs /\ s9'.before = s9.before /\ s9'.option = s9.option
        /\ s9'.todo = u /\ s9'.done = v /\ s9'.off = s9.off
        /\ s9'.seen = s9.seen /\ s9'.ran = s9.ran /\ s9'.redo = s9.redo
        /\ s9'.guided = s9.guided
    BY <1>4, <2>1, <2>2 DEF Runtime!Jobs
  <2> QED BY <2>1, <2>3
<1>10. Runtime!TypeOK'
  <2>1. s3' \in [Aliases -> Runtime!Snapshots \cup {Untracked, Unconfirmed}]
    BY <1>1, <1>4, RuntimeSnapshotTells
  <2> QED BY <1>1, <1>4, <1>9, <2>1 DEF Runtime!TypeOK
<1>11. Runtime!OwnChoices' /\ Runtime!RestoredMeansBefore'
  BY <1>1, <1>9, RuntimeInsideTells
<1>12. Runtime!OneService' /\ \A a \in Aliases : Runtime!Running(a)' = Runtime!Running(a)
  BY <1>1, <1>4, RuntimeServicesStay
<1>13. Runtime!Underway'
  <2>1. \A a \in Runtime!Range(s) \cup Runtime!Range(d) : s1[a].on
    BY <1>2, <1>5 DEF Runtime!IInv, Runtime!Underway
  <2>2. \A a \in Runtime!Range(Tail(s)) \cup Runtime!Range(Append(d, c)) : s1'[a].on
    BY <1>1, <1>7, <1>8, <2>1
  <2> QED BY <1>1, <1>2, <1>9, <2>2 DEF Runtime!IInv, Runtime!Underway, Runtime!AtService
<1>14. Runtime!Confirming'
  BY <1>1 DEF Runtime!Confirming
<1>15. Runtime!Rollback'
  <2>1. \A a \in Runtime!Range(Tail(s)) : a \in Aliases /\ Runtime!Untouched(a)
    BY <1>2, <1>4, <1>5, <1>7, RuntimeRangeTells DEF Runtime!IInv, Runtime!Rollback
  <2>2. \A a \in Runtime!Range(Tail(s)) : Runtime!Untouched(a)'
    BY <1>1, <1>9, <1>12, <2>1 DEF Runtime!Untouched
  <2>3. PICK u : u = Tail(s)
    OBVIOUS
  <2>4. /\ s9'.todo = u /\ \A i, j \in 1..Len(u) : u[i] = u[j] => i = j
        /\ \A a \in Runtime!Range(u) : Runtime!Untouched(a)'
    BY <1>7, <1>9, <2>2, <2>3
  <2>5. \A a \in Aliases : s9'.seen[a] \subseteq Runtime!Of(a) /\ \A p, q \in s9'.seen[a] : p = q
    BY <1>9 DEF Runtime!IInv, Runtime!Rollback
  <2>6. \A i, j \in 1..Len(s9'.todo) : s9'.todo[i] = s9'.todo[j] => i = j
    BY <2>4
  <2>7. \A a \in Runtime!Range(s9'.todo) : Runtime!Untouched(a)'
    BY <2>4
  <2>8. s8' \notin Runtime!AtService
    BY <1>1 DEF Runtime!AtService
  <2> QED BY <2>5, <2>6, <2>7, <2>8 DEF Runtime!Rollback
<1>16. Runtime!ReceiptsEarnedStep
  <2>1. ASSUME NEW a \in Aliases, s3'[a] # s3[a] PROVE Runtime!Live(a, s3[a])'
    <3>1. a = c
      BY <1>1, <1>3, <2>1 DEF Runtime!Confirmed
    <3>2. PICK y : y = Runtime!Snapshot(s1[c], s2[c])
      OBVIOUS
    <3>3. s3'[c] = y
      BY <1>1, <1>3, <3>2 DEF Runtime!Confirmed
    <3>4. Runtime!Live(c, y)
      BY <1>1, <1>4, <3>2 DEF Runtime!Serving, Runtime!Confirmable
    <3>5. Runtime!Live(c, y)'
      BY <1>1, <1>12, <3>4 DEF Runtime!Live, Runtime!HasOwnModel, Runtime!ActiveIdentity
    <3> QED BY <3>1, <3>3, <3>5
              DEF Runtime!Live, Runtime!HasOwnModel, Runtime!ActiveIdentity, Runtime!Running
  <2> QED BY <2>1 DEF Runtime!ReceiptsEarnedStep
<1> QED BY <1>10, <1>11, <1>12, <1>13, <1>14, <1>15, <1>16 DEF Runtime!IInv

(* A disabled service is stopped.                                            *)
LEMMA RuntimeStopDisabledKeeps ==
  ASSUME Runtime!IInv, NEW a \in Aliases, Runtime!StopDisabled(a)
  PROVE  Runtime!IInv'
<1>1. /\ s8 = "read" /\ s9.todo = <<>> /\ s7' = Runtime!Stopped(Runtime!Of(a))
      /\ UNCHANGED <<s1, s2, s4, s3, s5, s6, s8, s9, s10, s11>>
  BY DEF Runtime!StopDisabled, Runtime!localVars
<1>2. Runtime!TypeOK /\ Runtime!OneService
  BY DEF Runtime!IInv
<1>3. s7' \in [Recipes -> Runtime!Containers] /\ Runtime!OneService'
  BY <1>1, <1>2, RuntimeStoppedTells
<1>4. Runtime!TypeOK'
  BY <1>1, <1>2, <1>3 DEF Runtime!TypeOK
<1>5. Runtime!OwnChoices' /\ Runtime!RestoredMeansBefore'
  BY <1>1, RuntimeInsideTells
<1>6. Runtime!Underway'
  BY <1>1 DEF Runtime!IInv, Runtime!Underway
<1>7. Runtime!Confirming'
  BY <1>1 DEF Runtime!Confirming
<1>8. Runtime!Rollback'
  <2>1. Runtime!Range(s9'.todo) = {}
    BY <1>1 DEF Runtime!Range
  <2> QED BY <1>1, <2>1 DEF Runtime!IInv, Runtime!Rollback, Runtime!AtService
<1> QED BY <1>3, <1>4, <1>5, <1>6, <1>7, <1>8 DEF Runtime!IInv

(* A disabled service that does not run is confirmed.                        *)
LEMMA RuntimeRecordDisabledKeeps ==
  ASSUME Runtime!IInv, NEW a \in Aliases, Runtime!RecordDisabled(a)
  PROVE  Runtime!IInv' /\ Runtime!ReceiptsEarnedStep
<1>1. /\ s8 = "read" /\ s9.todo = <<>> /\ a \in s9.off /\ Runtime!Running(a) = {}
      /\ s3' = Runtime!Confirmed({a}, s2) /\ s9' = [s9 EXCEPT !.off = @ \ {a}]
      /\ UNCHANGED <<s1, s2, s4, s5, s6, s7, s8, s10, s11>>
  BY DEF Runtime!RecordDisabled, Runtime!localVars, Runtime!targetVars
<1>2. /\ Runtime!TypeOK /\ Runtime!OneService /\ s9 \in Runtime!Jobs /\ s9.before # <<>>
      /\ s2 \in [Aliases -> Options] /\ ~s1[a].on
  BY <1>1 DEF Runtime!IInv, Runtime!TypeOK, Runtime!Underway
<1>3. /\ s9' \in Runtime!Jobs /\ s9'.before = s9.before /\ s9'.option = s9.option
      /\ s9'.todo = s9.todo /\ s9'.done = s9.done /\ s9'.off = s9.off \ {a}
      /\ s9'.seen = s9.seen /\ s9'.ran = s9.ran /\ s9'.redo = s9.redo
      /\ s9'.guided = s9.guided
  BY <1>1, <1>2 DEF Runtime!Jobs
<1>4. Runtime!TypeOK'
  <2>1. s3' \in [Aliases -> Runtime!Snapshots \cup {Untracked, Unconfirmed}]
    BY <1>1, <1>2, RuntimeSnapshotTells
  <2> QED BY <1>1, <1>2, <1>3, <2>1 DEF Runtime!TypeOK
<1>5. Runtime!OwnChoices' /\ Runtime!RestoredMeansBefore'
  BY <1>1, <1>3, RuntimeInsideTells
<1>6. Runtime!OneService' /\ Runtime!Running(a)' = Runtime!Running(a)
  BY <1>1, <1>2, RuntimeServicesStay
<1>7. Runtime!Underway'
  BY <1>1, <1>3 DEF Runtime!IInv, Runtime!Underway
<1>8. Runtime!Confirming'
  BY <1>1 DEF Runtime!Confirming
<1>9. Runtime!Rollback'
  <2>1. Runtime!Range(s9'.todo) = {}
    BY <1>1, <1>3 DEF Runtime!Range
  <2> QED BY <1>1, <1>3, <2>1 DEF Runtime!IInv, Runtime!Rollback, Runtime!AtService
<1>10. Runtime!ReceiptsEarnedStep
  <2>1. ASSUME NEW b \in Aliases, s3'[b] # s3[b] PROVE Runtime!Live(b, s3[b])'
    <3>1. b = a
      BY <1>1, <2>1 DEF Runtime!Confirmed
    <3>2. PICK y : y = Runtime!Snapshot(s1[a], s2[a])
      OBVIOUS
    <3>3. s3'[a] = y
      BY <1>1, <3>2 DEF Runtime!Confirmed
    <3>4. ~y.on
      BY <1>2, <3>2 DEF Runtime!Snapshot, Runtime!Off
    <3>5. Runtime!Running(a)' = {}
      BY <1>1, <1>6
    <3> QED BY <3>1, <3>3, <3>4, <3>5 DEF Runtime!Live, Runtime!Running
  <2> QED BY <2>1 DEF Runtime!ReceiptsEarnedStep
<1> QED BY <1>4, <1>5, <1>6, <1>7, <1>8, <1>9, <1>10 DEF Runtime!IInv

(* An operation that ends and changes no service.                            *)
LEMMA RuntimeQuietEnd ==
  ASSUME Runtime!IInv, s8' = "idle", s9' = Runtime!NoJob, s10'.what # "restored",
         UNCHANGED <<s1, s2, s4, s5, s6, s7, s11>>,
         s3' \in [Aliases -> Runtime!Snapshots \cup {Untracked, Unconfirmed}]
  PROVE  Runtime!IInv'
<1>1. Runtime!TypeOK'
  BY RuntimeNoJobTells DEF Runtime!IInv, Runtime!TypeOK
<1>2. Runtime!OneService'
  BY RuntimeServicesStay DEF Runtime!IInv
<1>3. Runtime!RestoredMeansBefore'
  BY DEF Runtime!RestoredMeansBefore
<1>4. \A a \in Aliases : s1'[a].rec \in Runtime!Of(a)
  BY DEF Runtime!IInv, Runtime!OwnChoices
<1> QED BY <1>1, <1>2, <1>3, <1>4, RuntimeEndKeeps

(* All is applied, or the terminal is closed.                                *)
LEMMA RuntimeProvisionedKeeps ==
  ASSUME Runtime!IInv, Runtime!Provisioned \/ Runtime!Killed
  PROVE  Runtime!IInv'
<1>1. /\ s8' = "idle" /\ s9' = Runtime!NoJob /\ s10'.what # "restored"
      /\ UNCHANGED <<s1, s2, s4, s3, s5, s6, s7, s11>>
  BY DEF Runtime!Provisioned, Runtime!Killed, Runtime!Ended, Runtime!Silent, Runtime!localVars,
     Runtime!targetVars
<1>2. s3' \in [Aliases -> Runtime!Snapshots \cup {Untracked, Unconfirmed}]
  BY <1>1 DEF Runtime!IInv, Runtime!TypeOK
<1> QED BY <1>1, <1>2, RuntimeQuietEnd

(* An error keeps the types too.                                             *)
LEMMA RuntimeRaiseTyped ==
  ASSUME Runtime!IInv, s8 # "idle", Runtime!Raise, UNCHANGED <<s2, s3, s4, s5, s6, s11>>,
         s7' \in [Recipes -> Runtime!Containers]
  PROVE  Runtime!TypeOK'
<1>1. /\ s9 \in Runtime!Jobs /\ s9.before \in Runtime!Deployments
      /\ s1 \in Runtime!Deployments /\ s9.before # <<>>
  BY DEF Runtime!IInv, Runtime!TypeOK, Runtime!Jobs
<1>2. s1' \in Runtime!Deployments
  BY <1>1 DEF Runtime!Raise
<1>3. s9' \in Runtime!Jobs /\ s8' \in {"idle", "mark"} /\ (s8' = "idle" <=> s9'.before = <<>>)
  BY <1>1, RuntimeNoJobTells DEF Runtime!Raise
<1> QED BY <1>2, <1>3 DEF Runtime!IInv, Runtime!TypeOK

(* An error outside of an activation.                                        *)
LEMMA RuntimeProvisionFailsKeeps ==
  ASSUME Runtime!IInv, Runtime!ProvisionFails
  PROVE  Runtime!IInv'
<1>1. /\ s8 # "idle" /\ Runtime!Raise /\ s10'.what = "failed"
      /\ UNCHANGED <<s2, s3, s4, s5, s6, s7, s11>>
  BY DEF Runtime!ProvisionFails, Runtime!Ended, Runtime!Silent, Runtime!targetVars
<1>2. Runtime!OneService'
  BY <1>1, RuntimeServicesStay DEF Runtime!IInv
<1>3. Runtime!TypeOK'
  <2>1. s7' \in [Recipes -> Runtime!Containers]
    BY <1>1 DEF Runtime!IInv, Runtime!TypeOK
  <2> QED BY <1>1, <2>1, RuntimeRaiseTyped
<1>4. Runtime!RestoredMeansBefore'
  BY <1>1 DEF Runtime!RestoredMeansBefore
<1> QED BY <1>1, <1>2, <1>3, <1>4, RuntimeRaiseKeeps

(* The previous service is back: it runs alone, healthy, on the model that   *)
(* is linked or on the one it has had all along.                             *)
LEMMA RuntimeUndoStartKeeps ==
  ASSUME Runtime!IInv, Runtime!UndoStart
  PROVE  Runtime!IInv'
<1>1. /\ s8 = "undoStart" /\ Runtime!Raise /\ UNCHANGED <<s2, s3, s4, s5, s6, s11>>
      /\ IF s9.seen[Runtime!Cur] = {} THEN UNCHANGED s7
         ELSE \E r \in s9.seen[Runtime!Cur] : Runtime!Resumed(r, s2[Runtime!Cur])
      /\ s10' = [what |-> "restored", alias |-> Runtime!Cur, was |-> s9.was,
         seen |-> s9.seen[Runtime!Cur],
                  ran |-> s9.ran]
  BY DEF Runtime!UndoStart
<1>2. s8 \in Runtime!AtService /\ s8 \in Runtime!Activating /\ s9.todo # <<>> /\ s8 # "idle"
  BY <1>1 DEF Runtime!AtService, Runtime!Activating, Runtime!IInv, Runtime!Underway
<1>3. PICK c \in Aliases, w \in Recipes, o \in Options :
        c = Runtime!Cur /\ w = Runtime!Wanted /\ w \in Runtime!Of(c) /\ o = s2[c] /\ w = s1[c].rec
  BY <1>2, RuntimeAtCur DEF Runtime!Wanted
<1>4. PICK seen, ran, was : seen = s9.seen[c] /\ ran = s9.ran /\ was = s9.was
  OBVIOUS
<1>5. /\ Runtime!TypeOK /\ Runtime!OneService /\ s6[c] = was /\ Runtime!Leftover(c)
      /\ w \notin Runtime!Running(c)
      /\ seen \subseteq Runtime!Of(c) /\ \A r, s \in seen : r = s
  BY <1>1, <1>2, <1>3, <1>4 DEF Runtime!IInv, Runtime!Rollback, Runtime!Serving
<1>6. \A s \in Runtime!Running(c) : s \in seen /\ s7[s].loaded = ran[s]
  BY <1>3, <1>4, <1>5 DEF Runtime!Leftover
<1>7. /\ s7' \in [Recipes -> Runtime!Containers] /\ Runtime!OneService'
      /\ Runtime!Running(c)' = seen
      /\ \A r \in seen : s7'[r].state = "healthy" /\ s7'[r].loaded \in {was, ran[r]}
  <2>1. CASE seen = {}
    <3>1. UNCHANGED s7
      BY <1>1, <1>3, <1>4, <2>1
    <3>2. Runtime!OneService' /\ Runtime!Running(c)' = Runtime!Running(c)
      BY <1>5, <3>1, RuntimeServicesStay
    <3>3. Runtime!Running(c) = {}
      BY <1>6, <2>1
    <3> QED BY <1>5, <2>1, <3>1, <3>2, <3>3 DEF Runtime!TypeOK
  <2>2. CASE seen # {}
    <3>1. PICK r \in seen : Runtime!Resumed(r, o)
      BY <1>1, <1>3, <1>4, <2>2
    <3>2. r \in Recipes /\ AliasOf[r] = c /\ seen = {r}
      BY <1>5 DEF Runtime!Of
    <3>3. /\ s7' \in [Recipes -> Runtime!Containers] /\ Runtime!OneService'
          /\ Runtime!Running(AliasOf[r])' = {r} /\ s7'[r].state = "healthy"
          /\ \/ s7'[r].loaded = s6[AliasOf[r]]
             \/ r \in Runtime!Running(AliasOf[r]) /\ s7'[r].loaded = s7[r].loaded
      BY ONLY RuntimeAssumption, <1>5, <3>1, <3>2, o \in Options, RuntimeResumedTells
    <3>4. Runtime!Running(c)' = {r}
      BY <3>2, <3>3
    <3>5. s7'[r].loaded \in {was, ran[r]}
      BY <1>5, <1>6, <3>2, <3>3
    <3> QED BY <3>2, <3>3, <3>4, <3>5
  <2> QED BY <2>1, <2>2
<1>8. Runtime!TypeOK'
  BY <1>1, <1>2, <1>7, RuntimeRaiseTyped
<1>9. Runtime!RestoredMeansBefore'
  <2>1. s10'.alias = c /\ s10'.was = was /\ s10'.seen = seen /\ s10'.ran = ran
    BY <1>1, <1>3, <1>4
  <2>2. Runtime!Running(s10.alias)' = Runtime!Running(c)'
    BY <2>1 DEF Runtime!Running
  <2> QED BY <1>1, <1>5, <1>7, <2>1, <2>2 DEF Runtime!RestoredMeansBefore
<1> QED BY <1>1, <1>2, <1>7, <1>8, <1>9, RuntimeRaiseKeeps

(* The rollback fails too.                                                   *)
LEMMA RuntimeUndoFailsKeeps ==
  ASSUME Runtime!IInv, Runtime!UndoFails
  PROVE  Runtime!IInv'
<1>1. /\ s8 \in {"undoStop", "undoLink", "undoStart"} /\ Runtime!Raise /\ s10'.what = "failed"
      /\ UNCHANGED <<s2, s3, s4, s5, s6, s11>>
      /\ \/ UNCHANGED s7
         \/ \E r \in s9.seen[Runtime!Cur] : Runtime!NotRecreated(r, s2[Runtime!Cur], "current")
  BY DEF Runtime!UndoFails, Runtime!Ended, Runtime!Silent
<1>2. s8 \in Runtime!AtService /\ s8 \in Runtime!Activating /\ s9.todo # <<>> /\ s8 # "idle"
  BY <1>1 DEF Runtime!AtService, Runtime!Activating, Runtime!IInv, Runtime!Underway
<1>3. PICK c \in Aliases, o \in Options : c = Runtime!Cur /\ o = s2[c]
  BY <1>2, RuntimeAtCur
<1>4. Runtime!TypeOK /\ Runtime!OneService /\ s9.seen[c] \subseteq Runtime!Of(c)
  BY DEF Runtime!IInv, Runtime!Rollback
<1>5. s7' \in [Recipes -> Runtime!Containers] /\ Runtime!OneService'
  <2>1. CASE UNCHANGED s7
    BY <1>4, <2>1, RuntimeServicesStay DEF Runtime!TypeOK
  <2>2. CASE \E r \in s9.seen[Runtime!Cur] : Runtime!NotRecreated(r, s2[Runtime!Cur], "current")
    <3>1. PICK r \in s9.seen[c] : Runtime!NotRecreated(r, o, "current")
      BY <1>3, <2>2
    <3>2. r \in Recipes
      BY <1>4 DEF Runtime!Of
    <3> QED BY ONLY RuntimeAssumption, <1>4, <3>1, <3>2, o \in Options, RuntimeNotRecreatedTells
  <2> QED BY <1>1, <2>1, <2>2
<1>6. Runtime!TypeOK'
  BY <1>1, <1>2, <1>5, RuntimeRaiseTyped
<1>7. Runtime!RestoredMeansBefore'
  BY <1>1 DEF Runtime!RestoredMeansBefore
<1> QED BY <1>1, <1>2, <1>5, <1>6, <1>7, RuntimeRaiseKeeps

(* The alias whose service is put back with another option or image.         *)
LEMMA RuntimeAtRedo ==
  ASSUME Runtime!IInv, s8 \in {"mark", "remake", "unmark", "revert"}
  PROVE  /\ s9.redo # <<>> /\ Head(s9.redo) \in Aliases /\ s1[Head(s9.redo)].on
         /\ s1[Head(s9.redo)].rec \in Runtime!Of(Head(s9.redo))
         /\ s1[Head(s9.redo)].rec \in Recipes
         /\ Tail(s9.redo) \in Seq(Aliases)
         /\ Runtime!Range(Tail(s9.redo)) \subseteq Runtime!Range(s9.redo)
         /\ Len(s9.redo) \in Nat \ {0} /\ Len(Tail(s9.redo)) = Len(s9.redo) - 1
         /\ s9.option[Head(s9.redo)] \in Options /\ s2[Head(s9.redo)] \in Options
         /\ s9.option \in [Aliases -> Options] /\ s2 \in [Aliases -> Options]
<1>1. /\ s9.redo \in Seq(Aliases) /\ s9.redo # <<>> /\ s9.option \in [Aliases -> Options]
      /\ s2 \in [Aliases -> Options] /\ \A a \in Runtime!Range(s9.redo) : s1[a].on
      /\ \A a \in Aliases : s1[a].rec \in Runtime!Of(a)
  BY DEF Runtime!IInv, Runtime!TypeOK, Runtime!Jobs, Runtime!Underway, Runtime!OwnChoices
<1>2. PICK s : s = s9.redo
  OBVIOUS
<1>3. /\ Head(s) \in Aliases /\ Head(s) \in Runtime!Range(s) /\ Tail(s) \in Seq(Aliases)
      /\ Len(s) \in Nat \ {0} /\ Len(Tail(s)) = Len(s) - 1
      /\ Runtime!Range(Tail(s)) \subseteq Runtime!Range(s)
  BY <1>1, <1>2, RuntimeHeadTells
<1>4. PICK a \in Aliases : a = Head(s)
  BY <1>3
<1>5. s1[a].on /\ s1[a].rec \in Runtime!Of(a) /\ s9.option[a] \in Options /\ s2[a] \in Options
  BY <1>1, <1>2, <1>3, <1>4
<1>6. s1[a].rec \in Recipes
  BY <1>5 DEF Runtime!Of
<1> QED BY <1>1, <1>2, <1>3, <1>4, <1>5, <1>6

(* A receipt that is marked unconfirmed.                                     *)
LEMMA RuntimeMarkKeeps ==
  ASSUME Runtime!IInv, Runtime!MarkUnconfirmed \/ Runtime!RevertMark
  PROVE  Runtime!IInv' /\ Runtime!ReceiptsEarnedStep
<1>1. /\ \/ s8 = "mark" /\ s8' = "remake"
         \/ s8 = "unmark" /\ s8' = "revert"
      /\ s3' = [s3 EXCEPT ![Head(s9.redo)] = Unconfirmed]
      /\ UNCHANGED <<s1, s2, s4, s5, s6, s7, s9, s10, s11>>
  BY DEF Runtime!MarkUnconfirmed, Runtime!RevertMark, Runtime!localVars, Runtime!targetVars
<1>2. PICK a \in Aliases : a = Head(s9.redo)
  BY <1>1, RuntimeAtRedo
<1>3. Runtime!TypeOK /\ Runtime!OneService
  BY DEF Runtime!IInv
<1>4. Runtime!TypeOK'
  <2>1. s3' \in [Aliases -> Runtime!Snapshots \cup {Untracked, Unconfirmed}]
    BY <1>1, <1>2, <1>3 DEF Runtime!TypeOK
  <2> QED BY <1>1, <1>3, <2>1 DEF Runtime!TypeOK
<1>5. Runtime!OwnChoices' /\ Runtime!RestoredMeansBefore'
  BY <1>1, RuntimeInsideTells
<1>6. Runtime!OneService'
  BY <1>1, <1>3, RuntimeServicesStay
<1>7. Runtime!Underway'
  BY <1>1 DEF Runtime!IInv, Runtime!Underway, Runtime!Activating, Runtime!AtService
<1>8. Runtime!Confirming'
  BY <1>1 DEF Runtime!Confirming
<1>9. Runtime!Rollback'
  BY <1>1 DEF Runtime!IInv, Runtime!Rollback, Runtime!Activating, Runtime!AtService
<1>10. Runtime!ReceiptsEarnedStep
  <2>1. \A b \in Aliases : s3'[b] # s3[b] => s3'[b] = Unconfirmed
    BY <1>1, <1>3 DEF Runtime!TypeOK
  <2> QED BY <2>1 DEF Runtime!ReceiptsEarnedStep
<1> QED BY <1>4, <1>5, <1>6, <1>7, <1>8, <1>9, <1>10 DEF Runtime!IInv

(* A job of which the first service to be put back is done.                  *)
LEMMA RuntimeRedoneTells ==
  ASSUME s9 \in Runtime!Jobs, NEW u \in Seq(Aliases), s9' = [s9 EXCEPT !.redo = u]
  PROVE  /\ s9' \in Runtime!Jobs /\ s9'.before = s9.before /\ s9'.option = s9.option
         /\ s9'.todo = s9.todo /\ s9'.done = s9.done /\ s9'.off = s9.off
         /\ s9'.seen = s9.seen /\ s9'.ran = s9.ran /\ s9'.redo = u
         /\ s9'.guided = s9.guided
  BY DEF Runtime!Jobs

(* A service that was put back: its receipt says what runs, and the next one *)
(* follows, or the operation ends.                                           *)
LEMMA RuntimePutBackKeeps ==
  ASSUME Runtime!IInv, s8 \in {"remake", "revert"}, s8' \in {"idle", "mark", "unmark"},
         s8' = "unmark" => s8 = "revert",
         NEW a \in Aliases, a = Head(s9.redo), NEW os \in [Aliases -> Options],
         NEW image \in {"older", "current", "rollback"},
         Runtime!Recreated(s1[a].rec, os[a], image), s3' = Runtime!Confirmed({a}, os),
         \/ s8' = "idle" /\ s9' = Runtime!NoJob /\ s10'.what # "restored"
         \/ /\ s8' # "idle" /\ Len(s9.redo) # 1 /\ s9' = [s9 EXCEPT !.redo = Tail(@)]
            /\ UNCHANGED s10,
         UNCHANGED <<s1, s2, s4, s5, s6, s11>>
  PROVE  Runtime!IInv' /\ Runtime!ReceiptsEarnedStep
<1>1. Runtime!TypeOK /\ Runtime!OneService /\ s9 \in Runtime!Jobs /\ s9.before # <<>>
      /\ s8 # "idle"
  BY DEF Runtime!IInv, Runtime!TypeOK
<1>2. PICK r \in Recipes, o \in Options : r = s1[a].rec /\ o = os[a] /\ s1[a].on
      /\ r \in Runtime!Of(a)
  BY RuntimeAtRedo
<1>3. Runtime!Recreated(r, o, image)
  BY <1>2
<1>4. s7' \in [Recipes -> Runtime!Containers] /\ Runtime!OneService'
  BY ONLY RuntimeAssumption, <1>1, <1>3, r \in Recipes, o \in Options, image \in {"older",
     "current", "rollback"}, RuntimeRecreatedTells
<1>5. s3' \in [Aliases -> Runtime!Snapshots \cup {Untracked, Unconfirmed}]
  BY <1>1, RuntimeSnapshotTells
<1>6. Runtime!ReceiptsEarnedStep
  <2>1. Runtime!Live(a, Runtime!Snapshot(s1[a], o))'
    BY <1>1, <1>2, <1>3, RuntimeRecreatedLive
  <2>2. PICK y : y = Runtime!Snapshot(s1[a], o)
    OBVIOUS
  <2>3. Runtime!Live(a, y)'
    BY <2>1, <2>2
  <2>4. ASSUME NEW b \in Aliases, s3'[b] # s3[b] PROVE Runtime!Live(b, s3[b])'
    <3>1. b = a
      BY <2>4 DEF Runtime!Confirmed
    <3>2. s3'[a] = y
      BY <1>2, <2>2 DEF Runtime!Confirmed
    <3> QED BY <2>3, <3>1, <3>2
              DEF Runtime!Live, Runtime!HasOwnModel, Runtime!ActiveIdentity, Runtime!Running
  <2> QED BY <2>4 DEF Runtime!ReceiptsEarnedStep
<1>7. CASE s8' = "idle" /\ s9' = Runtime!NoJob /\ s10'.what # "restored"
  <2>1. Runtime!TypeOK'
    BY <1>1, <1>4, <1>5, <1>7, RuntimeNoJobTells DEF Runtime!TypeOK
  <2>2. Runtime!RestoredMeansBefore'
    BY <1>7 DEF Runtime!RestoredMeansBefore
  <2>3. \A b \in Aliases : s1'[b].rec \in Runtime!Of(b)
    BY DEF Runtime!IInv, Runtime!OwnChoices
  <2> QED BY <1>4, <1>6, <1>7, <2>1, <2>2, <2>3, RuntimeEndKeeps
<1>8. CASE /\ s8' # "idle" /\ Len(s9.redo) # 1 /\ s9' = [s9 EXCEPT !.redo = Tail(@)]
           /\ UNCHANGED s10
  <2>1. PICK u \in Seq(Aliases) : /\ u = Tail(s9.redo)
        /\ Runtime!Range(u) \subseteq Runtime!Range(s9.redo)
                                  /\ Len(u) = Len(s9.redo) - 1 /\ Len(s9.redo) \in Nat \ {0}
    BY RuntimeAtRedo
  <2>2. s9' = [s9 EXCEPT !.redo = u]
    BY <1>8, <2>1
  <2>3. /\ s9' \in Runtime!Jobs /\ s9'.before = s9.before /\ s9'.option = s9.option
        /\ s9'.todo = s9.todo /\ s9'.done = s9.done /\ s9'.off = s9.off
        /\ s9'.seen = s9.seen /\ s9'.ran = s9.ran /\ s9'.redo = u
        /\ s9'.guided = s9.guided
    BY <1>1, <2>2, RuntimeRedoneTells
  <2>4. u # <<>>
    <3>1. Len(u) # 0
      BY <1>8, <2>1
    <3> QED BY <3>1
  <2>5. Runtime!TypeOK'
    BY <1>1, <1>4, <1>5, <1>8, <2>3 DEF Runtime!TypeOK
  <2>6. Runtime!OwnChoices' /\ Runtime!RestoredMeansBefore'
    BY <1>1, <1>8, <2>3, RuntimeInsideTells
  <2>7. Runtime!Underway'
    <3>1. s8' \in {"mark", "unmark"}
      BY <1>8
    <3>2. \A b \in Runtime!Range(u) : s1'[b].on
      BY <2>1 DEF Runtime!IInv, Runtime!Underway
    <3>3. s8' = "unmark" => s10'.what = "failed"
      BY <1>8 DEF Runtime!IInv, Runtime!Underway
    <3>4. s9.guided => s9.redo = <<>>
      BY DEF Runtime!IInv, Runtime!Underway
    <3>5. ~s9.guided
      BY <3>4, RuntimeAtRedo
    <3> QED BY <1>1, <2>3, <2>4, <3>1, <3>2, <3>3, <3>5
              DEF Runtime!IInv, Runtime!Underway, Runtime!Activating, Runtime!AtService
  <2>8. Runtime!Confirming'
    BY DEF Runtime!Confirming
  <2>9. Runtime!Rollback'
    BY <1>8, <2>3 DEF Runtime!IInv, Runtime!Rollback, Runtime!Activating, Runtime!AtService
  <2> QED BY <1>4, <1>6, <2>5, <2>6, <2>7, <2>8, <2>9 DEF Runtime!IInv
<1> QED BY <1>7, <1>8

(* A service has its previous option again.                                  *)
LEMMA RuntimeRemakeKeeps ==
  ASSUME Runtime!IInv, Runtime!Remake
  PROVE  Runtime!IInv' /\ Runtime!ReceiptsEarnedStep
<1>1. s8 = "remake" /\ UNCHANGED <<s1, s2, s4, s5, s6, s11>>
  BY DEF Runtime!Remake, Runtime!localVars
<1>2. PICK a \in Aliases : a = Head(s9.redo)
  BY <1>1, RuntimeAtRedo
<1>3. PICK os \in [Aliases -> Options] : os = s9.option
  BY <1>1, RuntimeAtRedo
<1>4. Runtime!Recreated(s1[a].rec, os[a], "current") /\ s3' = Runtime!Confirmed({a}, os)
  BY <1>2, <1>3 DEF Runtime!Remake
<1>5. \/ s8' = "idle" /\ s9' = Runtime!NoJob /\ s10'.what # "restored"
      \/ /\ s8' = "mark" /\ Len(s9.redo) # 1 /\ s9' = [s9 EXCEPT !.redo = Tail(@)]
         /\ UNCHANGED s10
  BY DEF Runtime!Remake, Runtime!Ended, Runtime!Silent
<1>6. /\ \/ s8' = "idle" /\ s9' = Runtime!NoJob /\ s10'.what # "restored"
         \/ /\ s8' # "idle" /\ Len(s9.redo) # 1 /\ s9' = [s9 EXCEPT !.redo = Tail(@)]
            /\ UNCHANGED s10
      /\ s8' \in {"idle", "mark", "unmark"} /\ (s8' = "unmark" => s8 = "revert")
  BY <1>5
<1> QED BY <1>1, <1>2, <1>4, <1>6, RuntimePutBackKeeps

(* A service has its previous image again.                                   *)
LEMMA RuntimeRevertServiceKeeps ==
  ASSUME Runtime!IInv, Runtime!RevertService
  PROVE  Runtime!IInv' /\ Runtime!ReceiptsEarnedStep
<1>1. s8 = "revert" /\ UNCHANGED <<s1, s2, s4, s5, s6, s10, s11>>
  BY DEF Runtime!RevertService, Runtime!localVars
<1>2. PICK a \in Aliases : a = Head(s9.redo)
  BY <1>1, RuntimeAtRedo
<1>3. PICK os \in [Aliases -> Options] : os = s2
  BY <1>1, RuntimeAtRedo
<1>4. Runtime!Recreated(s1[a].rec, os[a], "rollback") /\ s3' = Runtime!Confirmed({a}, os)
  BY <1>2, <1>3 DEF Runtime!RevertService
<1>5. s10.what = "failed"
  BY <1>1 DEF Runtime!IInv, Runtime!Underway
<1>6. /\ \/ s8' = "idle" /\ s9' = Runtime!NoJob /\ s10'.what # "restored"
         \/ /\ s8' # "idle" /\ Len(s9.redo) # 1 /\ s9' = [s9 EXCEPT !.redo = Tail(@)]
            /\ UNCHANGED s10
      /\ s8' \in {"idle", "mark", "unmark"} /\ (s8' = "unmark" => s8 = "revert")
  BY <1>1, <1>5 DEF Runtime!RevertService
<1> QED BY <1>1, <1>2, <1>4, <1>6, RuntimePutBackKeeps

(* An operation that ends with a service it could not put back.              *)
LEMMA RuntimePutBackFails ==
  ASSUME Runtime!IInv, s8 \in {"remake", "revert"}, s8' = "idle", s9' = Runtime!NoJob,
         s10'.what # "restored", UNCHANGED <<s1, s2, s4, s3, s5, s6, s11>>,
         NEW r \in Recipes, NEW o \in Options, NEW image \in {"older", "current", "rollback"},
         Runtime!NotRecreated(r, o, image) \/ Runtime!Recreated(r, o, image)
  PROVE  Runtime!IInv'
<1>1. Runtime!TypeOK /\ Runtime!OneService
  BY DEF Runtime!IInv
<1>2. s7' \in [Recipes -> Runtime!Containers] /\ Runtime!OneService'
  <2>1. CASE Runtime!NotRecreated(r, o, image)
    BY ONLY RuntimeAssumption, <1>1, <2>1, r \in Recipes, o \in Options, image \in {"older",
       "current", "rollback"}, RuntimeNotRecreatedTells
  <2>2. CASE Runtime!Recreated(r, o, image)
    BY ONLY RuntimeAssumption, <1>1, <2>2, r \in Recipes, o \in Options, image \in {"older",
       "current", "rollback"}, RuntimeRecreatedTells
  <2> QED BY <2>1, <2>2
<1>3. Runtime!TypeOK'
  BY <1>1, <1>2, RuntimeNoJobTells DEF Runtime!TypeOK
<1>4. Runtime!RestoredMeansBefore'
  BY DEF Runtime!RestoredMeansBefore
<1>5. \A b \in Aliases : s1'[b].rec \in Runtime!Of(b)
  BY DEF Runtime!IInv, Runtime!OwnChoices
<1> QED BY <1>2, <1>3, <1>4, <1>5, RuntimeEndKeeps

(* A service that does not get its option back.                              *)
LEMMA RuntimeRemakeFailsKeeps ==
  ASSUME Runtime!IInv, Runtime!RemakeFails
  PROVE  Runtime!IInv'
<1>1. /\ s8 = "remake" /\ s8' = "idle" /\ s9' = Runtime!NoJob /\ s10'.what # "restored"
      /\ UNCHANGED <<s1, s2, s4, s3, s5, s6, s11>>
  BY DEF Runtime!RemakeFails, Runtime!localVars, Runtime!Ended, Runtime!Silent
<1>2. PICK a \in Aliases : a = Head(s9.redo)
  BY <1>1, RuntimeAtRedo
<1>3. PICK r \in Recipes, o \in Options : r = s1[a].rec /\ o = s9.option[a]
  BY <1>1, <1>2, RuntimeAtRedo
<1>4. Runtime!NotRecreated(r, o, "current") \/ Runtime!Recreated(r, o, "current")
  BY <1>2, <1>3 DEF Runtime!RemakeFails
<1> QED BY <1>1, <1>4, RuntimePutBackFails

(* A service that does not get its image back.                               *)
LEMMA RuntimeRevertFailsKeeps ==
  ASSUME Runtime!IInv, Runtime!RevertFails
  PROVE  Runtime!IInv'
<1>1. /\ s8 = "revert" /\ s8' = "idle" /\ s9' = Runtime!NoJob
      /\ UNCHANGED <<s1, s2, s4, s3, s5, s6, s10, s11>>
  BY DEF Runtime!RevertFails, Runtime!localVars
<1>2. s10'.what # "restored"
  BY <1>1 DEF Runtime!IInv, Runtime!Underway
<1>3. PICK a \in Aliases : a = Head(s9.redo)
  BY <1>1, RuntimeAtRedo
<1>4. PICK r \in Recipes, o \in Options : r = s1[a].rec /\ o = s2[a]
  BY <1>1, <1>3, RuntimeAtRedo
<1>5. Runtime!NotRecreated(r, o, "rollback")
  BY <1>3, <1>4 DEF Runtime!RevertFails
<1> QED BY <1>1, <1>2, <1>5, RuntimePutBackFails

(* One service is recreated; when all are, they are confirmed.               *)
LEMMA RuntimeUpdateServiceKeeps ==
  ASSUME Runtime!IInv, Runtime!UpdateService
  PROVE  Runtime!IInv' /\ Runtime!ReceiptsEarnedStep
<1>1. s8 = "update" /\ UNCHANGED <<s1, s2, s4, s5, s6, s11>>
  BY DEF Runtime!UpdateService, Runtime!localVars
<1>2. /\ Runtime!TypeOK /\ Runtime!OneService /\ s9 \in Runtime!Jobs /\ s9.before # <<>>
      /\ s9.done \in Seq(Aliases)
      /\ s9.todo \in Seq(Aliases) /\ s2 \in [Aliases -> Options]
      /\ s8 \in Runtime!Activating
  BY <1>1 DEF Runtime!IInv, Runtime!TypeOK, Runtime!Jobs, Runtime!Activating
<1>3. PICK d : d = s9.done
  OBVIOUS
<1>4. \A a \in Runtime!Range(d) : a \in Aliases /\ Runtime!Confirmable(a)
  BY <1>1, <1>2, <1>3, RuntimeRangeTells DEF Runtime!IInv, Runtime!Confirming
<1>5. CASE s9.todo = <<>>
  <2>1. /\ s3' = Runtime!Confirmed(Runtime!Range(d), s2) /\ s8' = "idle" /\ s9' = Runtime!NoJob
        /\ s10'.what # "restored" /\ UNCHANGED s7
    BY <1>3, <1>5 DEF Runtime!UpdateService, Runtime!Ended, Runtime!Silent
  <2>2. s3' \in [Aliases -> Runtime!Snapshots \cup {Untracked, Unconfirmed}]
    BY <1>2, <2>1, RuntimeSnapshotTells
  <2>3. Runtime!IInv'
    BY <1>1, <2>1, <2>2, RuntimeQuietEnd
  <2>4. ASSUME NEW a \in Aliases, s3'[a] # s3[a] PROVE Runtime!Live(a, s3[a])'
    <3>1. a \in Runtime!Range(d) /\ s3'[a] = Runtime!Snapshot(s1[a], s2[a])
      BY <2>1, <2>4 DEF Runtime!Confirmed
    <3>2. PICK y : y = Runtime!Snapshot(s1[a], s2[a])
      OBVIOUS
    <3>3. Runtime!Live(a, y)
      BY <1>4, <3>1, <3>2 DEF Runtime!Confirmable
    <3>4. Runtime!Live(a, y)'
      BY <1>1, <2>1, <3>3
        DEF Runtime!Live, Runtime!HasOwnModel, Runtime!ActiveIdentity, Runtime!Running
    <3>5. s3'[a] = y
      BY <3>1, <3>2
    <3> QED BY <3>4, <3>5
              DEF Runtime!Live, Runtime!HasOwnModel, Runtime!ActiveIdentity, Runtime!Running
  <2> QED BY <2>3, <2>4 DEF Runtime!ReceiptsEarnedStep
<1>6. CASE s9.todo # <<>>
  <2>1. /\ Runtime!Recreated(Runtime!Wanted, s2[Runtime!Cur], "current")
        /\ s9' = [s9 EXCEPT !.todo = Tail(@), !.done = Append(@, Runtime!Cur)]
        /\ UNCHANGED <<s3, s8, s10>>
    BY <1>6 DEF Runtime!UpdateService
  <2>2. PICK c \in Aliases, w \in Recipes, o \in Options :
          /\ c = Runtime!Cur /\ w = Runtime!Wanted /\ w \in Runtime!Of(c) /\ o = s2[c]
          /\ s1[c].on /\ w = s1[c].rec
          /\ AliasOf[w] = c
    BY <1>2, <1>6, RuntimeAtCur DEF Runtime!Wanted
  <2>3. Runtime!Recreated(w, o, "current")
    BY <2>1, <2>2
  <2>4. /\ s7' \in [Recipes -> Runtime!Containers] /\ Runtime!OneService'
        /\ \A s \in Recipes \ {w} : s7'[s] = s7[s]
    BY ONLY RuntimeAssumption, <1>2, <2>3, w \in Recipes, o \in Options, RuntimeRecreatedTells
  <2>5. PICK s : s = s9.todo
    OBVIOUS
  <2>6. \A i, j \in 1..Len(s) : s[i] = s[j] => i = j
    BY <1>2, <2>5 DEF Runtime!IInv, Runtime!Rollback
  <2>7. /\ Tail(s) \in Seq(Aliases) /\ Runtime!Range(Tail(s)) \subseteq Runtime!Range(s)
        /\ c \in Runtime!Range(s)
        /\ \A i, j \in 1..Len(Tail(s)) : Tail(s)[i] = Tail(s)[j] => i = j
    BY <1>2, <1>6, <2>2, <2>5, <2>6, RuntimeHeadTells DEF Runtime!Cur
  <2>8. Append(d, c) \in Seq(Aliases)
        /\ Runtime!Range(Append(d, c)) \subseteq Runtime!Range(d) \cup {c}
    BY <1>2, <1>3, RuntimeAppendTells
  <2>9. PICK u, v : u = Tail(s) /\ v = Append(d, c) /\ u \in Seq(Aliases) /\ v \in Seq(Aliases)
    BY <2>7, <2>8
  <2>10. s9' = [s9 EXCEPT !.todo = u, !.done = v]
    BY <1>3, <2>1, <2>2, <2>5, <2>9
  <2>11. /\ s9' \in Runtime!Jobs /\ s9'.before = s9.before /\ s9'.option = s9.option
         /\ s9'.todo = u /\ s9'.done = v /\ s9'.off = s9.off
         /\ s9'.seen = s9.seen /\ s9'.ran = s9.ran /\ s9'.redo = s9.redo
         /\ s9'.guided = s9.guided
    BY <1>2, <2>9, <2>10 DEF Runtime!Jobs
  <2>12. Runtime!TypeOK'
    BY <1>1, <1>2, <2>1, <2>4, <2>11 DEF Runtime!TypeOK
  <2>13. Runtime!OwnChoices' /\ Runtime!RestoredMeansBefore'
    BY <1>1, <2>1, <2>11, RuntimeInsideTells
  <2>14. Runtime!Underway'
    <3>1. \A a \in Runtime!Range(s) \cup Runtime!Range(d) : s1[a].on
      BY <1>2, <1>3, <2>5 DEF Runtime!IInv, Runtime!Underway
    <3>2. \A a \in Runtime!Range(u) \cup Runtime!Range(v) : s1'[a].on
      BY <1>1, <2>7, <2>8, <2>9, <3>1
    <3> QED BY <1>1, <2>1, <2>11, <3>2 DEF Runtime!IInv, Runtime!Underway, Runtime!AtService
  <2>15. Runtime!Confirming'
    <3>1. Runtime!Confirmable(c)'
      <4>1. Runtime!Recreated(s1[c].rec, o, "current") /\ s1[c].rec \in Runtime!Of(c)
        BY <2>2, <2>3
      <4>2. Runtime!Live(c, Runtime!Snapshot(s1[c], o))'
        BY <1>1, <1>2, <2>2, <4>1, RuntimeRecreatedLive
      <4> QED BY <1>1, <2>2, <4>2 DEF Runtime!Confirmable
    <3>2. ASSUME NEW a \in Runtime!Range(v) PROVE Runtime!Confirmable(a)'
      <4>1. CASE a = c
        BY <3>1, <4>1
      <4>2. CASE a # c
        <5>1. a \in Aliases /\ Runtime!Confirmable(a) /\ s1[a].rec \in Runtime!Of(a)
          BY <1>4, <2>8, <2>9, <4>2 DEF Runtime!IInv, Runtime!OwnChoices
        <5>2. \A x \in Runtime!Of(a) : s7'[x] = s7[x]
          BY <2>2, <2>4, <4>2 DEF Runtime!Of
        <5> QED BY <1>1, <1>2, <5>1, <5>2, RuntimeLiveStays
      <4> QED BY <4>1, <4>2
    <3> QED BY <2>11, <3>2 DEF Runtime!Confirming
  <2>16. Runtime!Rollback'
    <3>1. \A a \in Aliases : s9'.seen[a] \subseteq Runtime!Of(a)
            /\ \A p, q \in s9'.seen[a] : p = q
      BY <2>11 DEF Runtime!IInv, Runtime!Rollback
    <3>2. \A i, j \in 1..Len(s9'.todo) : s9'.todo[i] = s9'.todo[j] => i = j
      <4>1. s9'.todo = Tail(s)
        BY ONLY <2>9, <2>11
      <4>2. \A i, j \in 1..Len(Tail(s)) : Tail(s)[i] = Tail(s)[j] => i = j
        BY ONLY <2>7
      <4> QED BY ONLY <4>1, <4>2
    <3>3. s8' \notin Runtime!AtService /\ s8' \notin {"send", "read", "stop"}
      BY <1>1, <2>1 DEF Runtime!AtService
    <3> QED BY <3>1, <3>2, <3>3 DEF Runtime!Rollback
  <2>17. Runtime!ReceiptsEarnedStep
    BY <2>1 DEF Runtime!ReceiptsEarnedStep
  <2> QED BY <2>4, <2>12, <2>13, <2>14, <2>15, <2>16, <2>17 DEF Runtime!IInv
<1> QED BY <1>5, <1>6

(* A failure: the services that were recreated are to be put back.           *)
LEMMA RuntimeUpdateFailsKeeps ==
  ASSUME Runtime!IInv, Runtime!UpdateFails
  PROVE  Runtime!IInv'
<1>1. /\ s8 = "update" /\ s9.todo # <<>> /\ s8' = "unmark" /\ s10'.what = "failed"
      /\ UNCHANGED <<s1, s2, s4, s3, s5, s6, s11>>
  BY DEF Runtime!UpdateFails, Runtime!Ended, Runtime!Silent, Runtime!localVars
<1>2. /\ Runtime!TypeOK /\ Runtime!OneService /\ s9 \in Runtime!Jobs /\ s9.before # <<>>
      /\ s9.done \in Seq(Aliases)
      /\ s8 \in Runtime!Activating
  BY <1>1 DEF Runtime!IInv, Runtime!TypeOK, Runtime!Jobs, Runtime!Activating
<1>3. PICK c \in Aliases, w \in Recipes, o \in Options :
        c = Runtime!Cur /\ w = Runtime!Wanted /\ o = s2[c] /\ s1[c].on
  BY <1>1, <1>2, RuntimeAtCur
<1>4. PICK d : d = s9.done
  OBVIOUS
<1>5. /\ Runtime!Reverse(d) \in Seq(Aliases)
      /\ Runtime!Range(Runtime!Reverse(d)) \subseteq Runtime!Range(d)
      /\ d # <<>> => Runtime!Reverse(d) # <<>>
      /\ <<c>> \o Runtime!Reverse(d) \in Seq(Aliases) /\ <<c>> \o Runtime!Reverse(d) # <<>>
      /\ Runtime!Range(<<c>> \o Runtime!Reverse(d)) \subseteq Runtime!Range(d) \cup {c}
  BY <1>2, <1>4, RuntimeReverseTells
<1>6. /\ s7' \in [Recipes -> Runtime!Containers] /\ Runtime!OneService'
      /\ \E u \in Seq(Aliases) : /\ s9' = [s9 EXCEPT !.redo = u] /\ u # <<>>
                                 /\ Runtime!Range(u) \subseteq Runtime!Range(d) \cup {c}
  <2>1. CASE /\ Runtime!NotRecreated(Runtime!Wanted, s2[Runtime!Cur], "current")
             /\ s9' = [s9 EXCEPT !.redo = <<Runtime!Cur>> \o Runtime!Reverse(s9.done)]
    <3>1. Runtime!NotRecreated(w, o, "current")
      BY <1>3, <2>1
    <3>2. s7' \in [Recipes -> Runtime!Containers] /\ Runtime!OneService'
      BY ONLY RuntimeAssumption, <1>2, <3>1, w \in Recipes, o \in Options,
         RuntimeNotRecreatedTells
    <3>3. s9' = [s9 EXCEPT !.redo = <<c>> \o Runtime!Reverse(d)]
      BY <1>3, <1>4, <2>1
    <3> QED BY <1>5, <3>2, <3>3
  <2>2. CASE s9.done # <<>> /\ UNCHANGED s7 /\ s9' = [s9 EXCEPT !.redo = Runtime!Reverse(s9.done)]
    <3>1. s7' \in [Recipes -> Runtime!Containers] /\ Runtime!OneService'
      BY <1>2, <2>2, RuntimeServicesStay DEF Runtime!TypeOK
    <3>2. s9' = [s9 EXCEPT !.redo = Runtime!Reverse(d)] /\ d # <<>>
      BY <1>4, <2>2
    <3> QED BY <1>5, <3>1, <3>2
  <2> QED BY <2>1, <2>2 DEF Runtime!UpdateFails
<1>7. PICK u \in Seq(Aliases) : /\ s9' = [s9 EXCEPT !.redo = u] /\ u # <<>>
                                /\ Runtime!Range(u) \subseteq Runtime!Range(d) \cup {c}
  BY <1>6
<1>8. /\ s9' \in Runtime!Jobs /\ s9'.before = s9.before /\ s9'.option = s9.option
      /\ s9'.todo = s9.todo /\ s9'.done = s9.done /\ s9'.off = s9.off
      /\ s9'.seen = s9.seen /\ s9'.ran = s9.ran /\ s9'.redo = u
      /\ s9'.guided = s9.guided
  BY <1>2, <1>7, RuntimeRedoneTells
<1>9. Runtime!TypeOK'
  BY <1>1, <1>2, <1>6, <1>8 DEF Runtime!TypeOK
<1>10. Runtime!OwnChoices' /\ Runtime!RestoredMeansBefore'
  BY <1>1, <1>8, RuntimeInsideTells
<1>11. Runtime!Underway'
  <2>1. \A a \in Runtime!Range(u) : s1'[a].on
    <3>1. \A a \in Runtime!Range(d) : s1[a].on
      BY <1>2, <1>4 DEF Runtime!IInv, Runtime!Underway
    <3> QED BY <1>1, <1>3, <1>7, <3>1
  <2>2. ~s9.guided /\ s9.option \in [Aliases -> Options]
    BY <1>1 DEF Runtime!IInv, Runtime!Underway
  <2>3. \A a \in s9.off : ~s1[a].on
    BY DEF Runtime!IInv, Runtime!Underway
  <2> QED BY <1>1, <1>7, <1>8, <2>1, <2>2, <2>3
            DEF Runtime!Underway, Runtime!Activating, Runtime!AtService
<1>12. Runtime!Confirming'
  BY <1>1 DEF Runtime!Confirming
<1>13. Runtime!Rollback'
  BY <1>1, <1>8 DEF Runtime!IInv, Runtime!Rollback, Runtime!Activating, Runtime!AtService
<1> QED BY <1>6, <1>9, <1>10, <1>11, <1>12, <1>13 DEF Runtime!IInv

(* The invariant holds at the start.                                         *)
LEMMA RuntimeInit == Runtime!Init => Runtime!IInv
<1> SUFFICES ASSUME Runtime!Init PROVE Runtime!IInv
  OBVIOUS
<1>1. /\ s1 \in [Aliases -> [rec : Recipes, on : {TRUE}]]
      /\ \A a \in Aliases : s1[a].rec \in Runtime!Of(a)
      /\ \E o \in Options : s2 = [a \in Aliases |-> o]
      /\ s3 = [a \in Aliases |-> Untracked]
      /\ \E v \in Versions : s4 = [r \in Recipes |-> v]
      /\ s5 = {<<r, s4[r]>> : r \in Recipes}
      /\ s6 = [a \in Aliases |-> <<s1[a].rec, s4[s1[a].rec]>>]
      /\ s8 = "idle" /\ s9 = Runtime!NoJob /\ s10 = Runtime!Silent /\ s11 = 0
  BY DEF Runtime!Init
<1>2. PICK up \in SUBSET Aliases :
        s7 = [r \in Recipes |->
                IF AliasOf[r] \in up /\ s1[AliasOf[r]].rec = r
                THEN Runtime!Started(r, s2[AliasOf[r]], "older") ELSE Runtime!Absent]
  BY DEF Runtime!Init
<1>3. /\ s1 \in Runtime!Deployments /\ s2 \in [Aliases -> Options] /\ s4 \in [Recipes -> Versions]
      /\ s5 \subseteq Runtime!Bundles
  <2>1. s1 \in Runtime!Deployments
    BY <1>1 DEF Runtime!Deployments
  <2>2. s2 \in [Aliases -> Options] /\ s4 \in [Recipes -> Versions]
    BY <1>1
  <2>3. s5 \subseteq Runtime!Bundles
    BY <1>1, <2>2 DEF Runtime!Bundles
  <2> QED BY <2>1, <2>2, <2>3
<1>4. s6 \in [Aliases -> Runtime!Links] /\ \A a \in Aliases : s6[a] # None /\ s6[a][1] = s1[a].rec
  <2>1. \A a \in Aliases : s1[a].rec \in Recipes
    BY <1>3 DEF Runtime!Deployments
  <2>2. \A a \in Aliases : <<s1[a].rec, s4[s1[a].rec]>> \in Runtime!Bundles
    BY <1>3, <2>1 DEF Runtime!Bundles
  <2>3. \A a \in Aliases : s6[a] \in Runtime!Bundles /\ s6[a][1] = s1[a].rec
    BY <1>1, <2>2
  <2> QED BY <1>1, <2>2, <2>3, RuntimeAssumption DEF Runtime!Links, Runtime!RuntimeAssumption
<1>5. ASSUME NEW r \in Recipes
      PROVE  /\ s7[r] \in Runtime!Containers
             /\ s7[r].state \in {"up", "healthy"} => r = s1[AliasOf[r]].rec
             /\ s7[r].state = "healthy" => Runtime!HasOwnModel(r)
  <2>1. AliasOf[r] \in Aliases /\ s2[AliasOf[r]] \in Options /\ s6[AliasOf[r]] \in Runtime!Links
    BY <1>3, <1>4, RuntimeAssumption DEF Runtime!RuntimeAssumption
  <2>2. CASE AliasOf[r] \in up /\ s1[AliasOf[r]].rec = r
    <3>1. s7[r] = Runtime!Started(r, s2[AliasOf[r]], "older")
      BY <1>2, <2>2
    <3>2. s7[r] \in Runtime!Containers /\ s7[r].loaded = s6[AliasOf[r]]
      BY <2>1, <3>1 DEF Runtime!Started, Runtime!Containers
    <3> QED BY <1>4, <2>1, <2>2, <3>2 DEF Runtime!HasOwnModel
  <2>3. CASE ~(AliasOf[r] \in up /\ s1[AliasOf[r]].rec = r)
    <3>1. s7[r] = Runtime!Absent
      BY <1>2, <2>3
    <3> QED BY <3>1 DEF Runtime!Absent, Runtime!Containers, Runtime!Links
  <2> QED BY <2>2, <2>3
<1>6. s7 \in [Recipes -> Runtime!Containers]
  BY <1>2, <1>5
<1>7. Runtime!OneService
  BY <1>5 DEF Runtime!OneService, Runtime!Running, Runtime!Of
<1>8. s3 \in [Aliases -> Runtime!Snapshots \cup {Untracked, Unconfirmed}]
  BY <1>1
<1>9. Runtime!TypeOK
  BY <1>1, <1>3, <1>4, <1>6, <1>8, RuntimeNoJobTells, RuntimeAssumption
    DEF Runtime!TypeOK, Runtime!RuntimeAssumption
<1>10. PICK e : e = [a \in Aliases |-> {}]
  OBVIOUS
<1>11. /\ s9.todo = <<>> /\ s9.done = <<>> /\ s9.redo = <<>> /\ s9.off = {} /\ s9.seen = e
       /\ ~s9.guided
  BY <1>1, <1>10 DEF Runtime!NoJob
<1>12. Runtime!Range(<<>>) = {}
  BY DEF Runtime!Range
<1>13. Runtime!OwnChoices
  BY <1>1 DEF Runtime!OwnChoices
<1>14. Runtime!Underway
  BY <1>1, <1>11, <1>12 DEF Runtime!Underway, Runtime!Activating, Runtime!AtService
<1>15. Runtime!Confirming
  BY <1>1 DEF Runtime!Confirming
<1>16. Runtime!Rollback
  BY <1>1, <1>10, <1>11 DEF Runtime!Rollback, Runtime!Activating, Runtime!AtService
<1>17. Runtime!RestoredMeansBefore
  BY <1>1 DEF Runtime!RestoredMeansBefore, Runtime!Silent
<1> QED BY <1>7, <1>9, <1>13, <1>14, <1>15, <1>16, <1>17 DEF Runtime!IInv

(* Every step keeps the invariant, and earns the receipts it writes.         *)
LEMMA RuntimeNext == Runtime!IInv /\ Runtime!Next => Runtime!IInv' /\ Runtime!ReceiptsEarnedStep
<1> SUFFICES ASSUME Runtime!IInv, Runtime!Next PROVE Runtime!IInv' /\ Runtime!ReceiptsEarnedStep
  OBVIOUS
<1>1. CASE \/ \E a \in Aliases, r \in Recipes, on \in BOOLEAN : Runtime!Assign(a, r, on)
           \/ \E a \in Aliases : Runtime!ToggleService(a)
           \/ \E a \in Aliases, r \in Recipes : Runtime!Guided(a, r)
           \/ \E g \in Groups,
              o \in Options : Runtime!RuntimeConfiguration(g, o) \/ Runtime!LlmConfiguration(g, o)
           \/ \E f \in Families : Runtime!RuntimeUpdate(f)
           \/ Runtime!ApplyAssignments
  <2>1. Runtime!IInv'
    BY <1>1, RuntimeAssignKeeps, RuntimeToggleServiceKeeps, RuntimeGuidedKeeps,
       RuntimeConfigurationKeeps, RuntimeRuntimeUpdateKeeps, RuntimeApplyAssignmentsKeeps
  <2>2. s8 = "idle"
    BY <1>1
      DEF Runtime!Assign, Runtime!ToggleService, Runtime!Guided, Runtime!RuntimeConfiguration,
       Runtime!LlmConfiguration, Runtime!SaveOption, Runtime!RuntimeUpdate,
       Runtime!ApplyAssignments, Runtime!Begin
  <2> QED BY <2>1, <2>2 DEF Runtime!ReceiptsEarnedStep
<1>2. CASE \/ Runtime!Transfer \/ Runtime!ReadActive \/ Runtime!StopAlternatives
           \/ Runtime!Activate \/ Runtime!Start \/ Runtime!Provisioned
           \/ Runtime!ProvisionFails \/ Runtime!ActivationFails \/ Runtime!UndoStop
           \/ Runtime!UndoLink \/ Runtime!UndoStart \/ Runtime!UndoFails
           \/ Runtime!RemakeFails \/ Runtime!UpdateFails \/ Runtime!RevertFails \/ Runtime!Killed
           \/ \E a \in Aliases : Runtime!StopDisabled(a)
  <2>1. Runtime!IInv'
    BY <1>2, RuntimeTransferKeeps, RuntimeReadActiveKeeps, RuntimeStopAlternativesKeeps,
       RuntimeActivateKeeps, RuntimeStartKeeps, RuntimeProvisionedKeeps,
       RuntimeProvisionFailsKeeps, RuntimeActivationFailsKeeps, RuntimeUndoStopKeeps,
       RuntimeUndoLinkKeeps, RuntimeUndoStartKeeps, RuntimeUndoFailsKeeps,
       RuntimeRemakeFailsKeeps, RuntimeUpdateFailsKeeps, RuntimeRevertFailsKeeps,
       RuntimeStopDisabledKeeps
  <2>2. UNCHANGED s3
    BY <1>2
      DEF Runtime!Transfer, Runtime!ReadActive, Runtime!StopAlternatives, Runtime!Activate,
       Runtime!Start, Runtime!Provisioned, Runtime!ProvisionFails, Runtime!ActivationFails,
       Runtime!UndoStop, Runtime!UndoLink, Runtime!UndoStart, Runtime!UndoFails,
       Runtime!RemakeFails, Runtime!UpdateFails, Runtime!RevertFails, Runtime!Killed,
       Runtime!StopDisabled
  <2> QED BY <2>1, <2>2 DEF Runtime!ReceiptsEarnedStep
<1>3. CASE \/ Runtime!Plan \/ Runtime!RecordApplied \/ Runtime!MarkUnconfirmed
           \/ Runtime!RevertMark \/ Runtime!Remake \/ Runtime!RevertService
           \/ Runtime!UpdateService \/ \E a \in Aliases : Runtime!RecordDisabled(a)
  BY <1>3, RuntimePlanKeeps, RuntimeRecordAppliedKeeps, RuntimeMarkKeeps, RuntimeRemakeKeeps,
     RuntimeRevertServiceKeeps, RuntimeUpdateServiceKeeps, RuntimeRecordDisabledKeeps
<1> QED BY <1>1, <1>2, <1>3 DEF Runtime!Next

-----------------------------------------------------------------------------
(* What a model costs: s1 the base prices, s2 the overrides, s3 a negotiated *)
(* schedule, s4 the overrides taken, s5 the tiers, s6 the step, s7 how far   *)
(* the loop is, s8 whether requests are priced.  What the fold over the      *)
(* overrides gives is shown by its closed form Laid, by way of a least       *)
(* position at which they would differ.                                      *)

(* A set of naturals has a least element.                                    *)
LEMMA PricingLeast ==
  ASSUME NEW S \in SUBSET Nat, S # {}
  PROVE  Pricing!Min(S) \in S /\ \A k \in S : Pricing!Min(S) <= k
<1>0. PICK R : R = OpToRel(<, Nat)
  OBVIOUS
<1>1. PICK m \in S : \A k \in S : ~ (<<k, m>> \in R)
  BY <1>0, WFMin, NatLessThanWellFounded
<1>2. ASSUME NEW k \in S
      PROVE  m <= k
  <2>1. k \in Nat /\ m \in Nat
    OBVIOUS
  <2>2. k < m => <<k, m>> \in R
    BY <1>0, <2>1 DEF OpToRel
  <2>. QED
    BY <1>1, <2>1, <2>2
<1>. QED
  BY <1>2 DEF Pricing!Min

(* And a set of positions a last one.                                        *)
LEMMA PricingLast ==
  ASSUME NEW n \in Nat, NEW S \in SUBSET (1..n), S # {}
  PROVE  Pricing!Max(S) \in S /\ \A k \in S : k <= Pricing!Max(S)
<1>. DEFINE T == {n - k : k \in S}
<1>0. \A k \in S : k \in 1..n /\ n - k \in Nat
  OBVIOUS
<1>1. T \in SUBSET Nat /\ T # {}
  BY <1>0
<1>2. Pricing!Min(T) \in T /\ \A k \in T : Pricing!Min(T) <= k
  BY <1>1, PricingLeast
<1>3. PICK m \in S : Pricing!Min(T) = n - m
  BY <1>2
<1>4. ASSUME NEW k \in S
      PROVE  m >= k
  <2>1. n - m <= n - k
    BY <1>2, <1>3
  <2>. QED
    BY <1>0, <2>1
<1>. QED
  BY <1>4 DEF Pricing!Max

(* The last of a set of positions with which it ends.                        *)
LEMMA PricingMax ==
  ASSUME NEW n \in Nat, NEW S \in SUBSET (1..n), NEW m \in S, \A k \in S : k <= m
  PROVE  Pricing!Max(S) = m
<1>1. Pricing!Max(S) \in S /\ m <= Pricing!Max(S)
  BY PricingLast
<1>2. Pricing!Max(S) <= m /\ Pricing!Max(S) \in 1..n /\ m \in 1..n
  BY <1>1
<1>. QED
  BY <1>1, <1>2

(* Without an override the base stands.                                      *)
LEMMA PricingNone ==
  ASSUME NEW b \in Pricing!Listed, NEW q, NEW s, NEW n, \A k \in s : ~Pricing!Applies(q[k], n)
  PROVE  Pricing!Laid(b, q, s, n) = b
<1>1. \A f \in Pricing!Fields : Pricing!Setters(q, s, n, f) = {}
  BY DEF Pricing!Setters
<1>. QED
  BY <1>1 DEF Pricing!Laid, Pricing!Listed

(* The override with the last position is laid over the others.              *)
LEMMA PricingStep ==
  ASSUME NEW b, NEW q \in Seq(Pricing!Override), NEW n \in Nat,
         NEW s \in SUBSET (1..Len(q)), NEW m \in s, \A k \in s : k <= m
  PROVE  Pricing!Laid(b, q, s, n) =
           IF Pricing!Applies(q[m], n)
             THEN Pricing!Updated(Pricing!Laid(b, q, s \ {m}, n), q[m])
             ELSE Pricing!Laid(b, q, s \ {m}, n)
<1>. DEFINE A(f) == Pricing!Setters(q, s, n, f)
            B(f) == Pricing!Setters(q, s \ {m}, n, f)
<1>1. ASSUME NEW f \in Pricing!Fields, ~Pricing!Applies(q[m], n) \/ q[m].set[f] = None
      PROVE  A(f) = B(f)
  BY <1>1 DEF Pricing!Setters
<1>2. ASSUME NEW f \in Pricing!Fields, Pricing!Applies(q[m], n), q[m].set[f] # None
      PROVE  A(f) # {} /\ Pricing!Max(A(f)) = m
  <2>1. m \in A(f) /\ A(f) \in SUBSET (1..Len(q)) /\ \A k \in A(f) : k <= m
    BY <1>2 DEF Pricing!Setters
  <2>. QED
    BY <2>1, PricingMax, Len(q) \in Nat
<1>3. CASE ~Pricing!Applies(q[m], n)
  BY <1>1, <1>3 DEF Pricing!Laid
<1>4. CASE Pricing!Applies(q[m], n)
  <2>1. ASSUME NEW f \in Pricing!Fields
        PROVE  Pricing!Laid(b, q, s, n)[f] =
                 IF q[m].set[f] = None THEN Pricing!Laid(b, q, s \ {m}, n)[f]
                                       ELSE q[m].set[f]
    BY <1>1, <1>2, <1>4 DEF Pricing!Laid
  <2>2. Pricing!Updated(Pricing!Laid(b, q, s \ {m}, n), q[m]) =
          [f \in Pricing!Fields |->
             IF q[m].set[f] = None THEN Pricing!Laid(b, q, s \ {m}, n)[f] ELSE q[m].set[f]]
    BY DEF Pricing!Updated
  <2>3. Pricing!Laid(b, q, s, n) = [f \in Pricing!Fields |-> Pricing!Laid(b, q, s, n)[f]]
    BY DEF Pricing!Laid
  <2>. QED
    BY <1>4, <2>1, <2>2, <2>3
<1>. QED
  BY <1>3, <1>4

(* The loop over the overrides computes this.                                *)
LEMMA PricingFold ==
  ASSUME NEW t \in Nat, s1 \in Pricing!Listed, s4 \in Seq(Pricing!Override)
  PROVE  Pricing!Effective(t) = Pricing!Laid(s1, s4, DOMAIN s4, t)
<1>. DEFINE D == DOMAIN s4
            Put(x, y) == IF Pricing!Applies(x, t) THEN Pricing!Updated(y, x) ELSE y
            Def(g) == [s \in SUBSET D |->
                         IF s = {} THEN s1
                         ELSE Put(s4[Pricing!Max(s)], g[s \ {Pricing!Max(s)}])]
            h == [s \in SUBSET D |-> Pricing!Laid(s1, s4, s, t)]
            g == CHOOSE x : x = Def(x)
<1>1. Pricing!Effective(t) = g[D]
  BY DEF Pricing!Effective, Pricing!Applies, Pricing!FoldLeft, Pricing!MapThenFoldSet
<1>2. D = 1..Len(s4) /\ Len(s4) \in Nat
  OBVIOUS
<1>3. h = Def(h)
  <2>1. ASSUME NEW s \in SUBSET D
        PROVE  h[s] = Def(h)[s]
    <3>1. CASE s = {}
      BY <3>1, PricingNone
    <3>2. CASE s # {}
      <4>1. Pricing!Max(s) \in s /\ \A k \in s : k <= Pricing!Max(s)
        BY <1>2, <3>2, PricingLast
      <4>2. Pricing!Laid(s1, s4, s, t)
              = Put(s4[Pricing!Max(s)], Pricing!Laid(s1, s4, s \ {Pricing!Max(s)}, t))
        <5>1. s \in SUBSET (1..Len(s4))
          BY <1>2
        <5>2. PICK m \in s : m = Pricing!Max(s)
          BY <4>1
        <5>3. \A k \in s : k <= m
          BY <4>1, <5>2
        <5>4. PICK b, q : b = s1 /\ q = s4
          OBVIOUS
        <5>5. q \in Seq(Pricing!Override) /\ s \in SUBSET (1..Len(q))
          BY <5>1, <5>4
        <5>6. Pricing!Laid(b, q, s, t) =
                IF Pricing!Applies(q[m], t)
                  THEN Pricing!Updated(Pricing!Laid(b, q, s \ {m}, t), q[m])
                  ELSE Pricing!Laid(b, q, s \ {m}, t)
          BY ONLY PricingStep, <5>3, <5>5, m \in s, t \in Nat
        <5>. QED
          BY <5>2, <5>4, <5>6
      <4>. QED
        BY <3>2, <4>2
    <3>. QED
      BY <3>1, <3>2
  <2>. QED
    BY <2>1
<1>4. g = Def(g)
  BY <1>3
<1>. HIDE DEF g
<1>5. ASSUME NEW k \in 0..Len(s4), \A j \in 0..Len(s4) : j < k => g[1..j] = h[1..j]
      PROVE  g[1..k] = h[1..k]
  <2>1. 1..k \in SUBSET D
    BY <1>2
  <2>2. CASE k = 0
    <3>1. 1..k = {}
      BY <2>2
    <3>2. g[1..k] = s1
      BY <1>4, <2>1, <3>1
    <3>3. h[1..k] = s1
      BY <1>3, <2>1, <3>1
    <3>. QED
      BY <3>2, <3>3
  <2>3. CASE k # 0
    <3>1. 1..k # {} /\ Pricing!Max(1..k) = k /\ (1..k) \ {k} = 1..(k - 1)
      <4>1. k \in Nat /\ k \in 1..k /\ \A j \in 1..k : j <= k
        BY <2>3
      <4>2. Pricing!Max(1..k) = k
        BY <4>1, PricingMax
      <4>3. (1..k) \ {k} = 1..(k - 1)
        BY <4>1
      <4>. QED
        BY <4>1, <4>2, <4>3
    <3>2. g[1..k] = Put(s4[k], g[1..(k - 1)])
      BY <1>4, <2>1, <3>1
    <3>3. h[1..k] = Put(s4[k], h[1..(k - 1)])
      BY <1>3, <2>1, <3>1
    <3>4. g[1..(k - 1)] = h[1..(k - 1)]
      <4>1. k - 1 \in 0..Len(s4) /\ k - 1 < k
        BY <1>2, <2>3
      <4>. QED
        BY <1>5, <4>1
    <3>. QED
      BY <3>2, <3>3, <3>4
  <2>. QED
    BY <2>2, <2>3
<1>. HIDE DEF h
<1>6. \A k \in 0..Len(s4) : g[1..k] = h[1..k]
  <2>. DEFINE W == {k \in 0..Len(s4) : g[1..k] # h[1..k]}
  <2>1. CASE W # {}
    <3>1. Pricing!Min(W) \in W /\ \A k \in W : Pricing!Min(W) <= k
      <4>1. W \in SUBSET Nat
        OBVIOUS
      <4>. QED
        BY <2>1, <4>1, PricingLeast
    <3>2. \A j \in 0..Len(s4) : j < Pricing!Min(W) => g[1..j] = h[1..j]
      BY <1>2, <3>1
    <3>3. g[1..Pricing!Min(W)] = h[1..Pricing!Min(W)]
      BY <1>5, <3>1, <3>2
    <3>. QED
      BY <3>1, <3>3
  <2>. QED
    BY <2>1
<1>7. g[D] = h[D]
  BY <1>2, <1>6
<1>. QED
  BY <1>1, <1>7 DEF h

(* Two sequences have the same elements at the positions s.                  *)
PricingAgree(q, p, s) == \A k \in s : p[k] = q[k]

(* Only the overrides at these positions count.                              *)
LEMMA PricingSame ==
  ASSUME NEW b, NEW q \in Seq(Pricing!Override), NEW p, NEW n, NEW s \in SUBSET (1..Len(q)),
         PricingAgree(q, p, s)
  PROVE  Pricing!Laid(b, p, s, n) = Pricing!Laid(b, q, s, n)
<1>1. ASSUME NEW f \in Pricing!Fields
      PROVE  /\ Pricing!Setters(q, s, n, f) = Pricing!Setters(p, s, n, f)
             /\ Pricing!Setters(q, s, n, f) # {} => Pricing!Max(Pricing!Setters(q, s, n, f)) \in s
  <2>1. Pricing!Setters(q, s, n, f) = Pricing!Setters(p, s, n, f)
    BY DEF PricingAgree, Pricing!Setters
  <2>2. PICK z : z = Len(q)
    OBVIOUS
  <2>3. z \in Nat /\ s \in SUBSET (1..z)
    BY <2>2
  <2>4. Pricing!Setters(q, s, n, f) \in SUBSET (1..z) /\ Pricing!Setters(q, s, n, f) \subseteq s
    BY <2>3 DEF Pricing!Setters
  <2>. QED
    BY <2>1, <2>3, <2>4, PricingLast
<1>2. ASSUME NEW f \in Pricing!Fields
      PROVE  Pricing!Laid(b, q, s, n)[f] = Pricing!Laid(b, p, s, n)[f]
  BY <1>1 DEF PricingAgree, Pricing!Laid
<1>. QED
  BY <1>2 DEF Pricing!Laid

(* What is added at the end does not count among those before it.           *)
LEMMA PricingAppend ==
  ASSUME NEW b, NEW p \in Seq(Pricing!Override), NEW o \in Pricing!Override, NEW n
  PROVE  Pricing!Laid(b, Append(p, o), DOMAIN p, n) = Pricing!Laid(b, p, DOMAIN p, n)
<1>1. DOMAIN p \in SUBSET (1..Len(p))
  OBVIOUS
<1>2. PricingAgree(p, Append(p, o), DOMAIN p)
  BY DEF PricingAgree
<1>. QED
  BY <1>1, <1>2, PricingSame

(* It is a listing again.                                                    *)
LEMMA PricingListed ==
  ASSUME NEW b \in Pricing!Listed, NEW q \in Seq(Pricing!Override),
         NEW s \in SUBSET (1..Len(q)), NEW n
  PROVE  Pricing!Laid(b, q, s, n) \in Pricing!Listed
<1>1. ASSUME NEW f \in Pricing!Fields
      PROVE  Pricing!Laid(b, q, s, n)[f] \in Prices \cup {None}
  <2>0. PICK z : z = Len(q)
    OBVIOUS
  <2>1. Pricing!Setters(q, s, n, f) \in SUBSET (1..z)
    BY <2>0 DEF Pricing!Setters
  <2>2. z \in Nat /\ \A k \in 1..z : q[k] \in Pricing!Override
    BY <2>0
  <2>3. Pricing!Setters(q, s, n, f) # {} => Pricing!Max(Pricing!Setters(q, s, n, f)) \in 1..z
    BY <2>1, <2>2, PricingLast
  <2>4. Pricing!Setters(q, s, n, f) # {} =>
          q[Pricing!Max(Pricing!Setters(q, s, n, f))] \in Pricing!Override
    BY <2>2, <2>3
  <2>. QED
    BY <2>4 DEF Pricing!Laid, Pricing!Listed, Pricing!Override
<1>. QED
  BY <1>1 DEF Pricing!Laid, Pricing!Listed

(* An override without a price changes nothing.                              *)
LEMMA PricingSilent ==
  ASSUME NEW b, NEW q, NEW s, NEW n, NEW o, \A f \in Pricing!Fields : o.set[f] = None
  PROVE  Pricing!Updated(Pricing!Laid(b, q, s, n), o) = Pricing!Laid(b, q, s, n)
BY DEF Pricing!Updated, Pricing!Laid

(* The overrides taken once o has been read.                                  *)
PricingTakenOn(p, o) == IF \A f \in Pricing!Fields : o.set[f] = None THEN p ELSE Append(p, o)

(* Reading one more override, taken or passed over.                          *)
LEMMA PricingRead ==
  ASSUME NEW b, NEW q \in Seq(Pricing!Override), NEW p \in Seq(Pricing!Override),
         NEW k \in DOMAIN q,
         NEW n \in Nat, NEW r,
         Pricing!Laid(b, p, DOMAIN p, n) = Pricing!Laid(b, q, 1..(k - 1), n),
         r = PricingTakenOn(p, q[k])
  PROVE  Pricing!Laid(b, r, DOMAIN r, n) = Pricing!Laid(b, q, 1..k, n)
<1>. DEFINE o == q[k]
            old == Pricing!Laid(b, q, 1..(k - 1), n)
<1>1. Pricing!Laid(b, q, 1..k, n) = IF Pricing!Applies(o, n) THEN Pricing!Updated(old, o) ELSE old
  <2>1. k \in Nat /\ k \in 1..k /\ 1..k \in SUBSET (1..Len(q)) /\ \A j \in 1..k : j <= k
    OBVIOUS
  <2>2. (1..k) \ {k} = 1..(k - 1)
    BY <2>1
  <2>. QED
    BY <2>1, <2>2, PricingStep
<1>2. CASE \A f \in Pricing!Fields : o.set[f] = None
  <2>1. Pricing!Updated(old, o) = old
    BY <1>2, PricingSilent
  <2>. QED
    BY <1>1, <1>2, <2>1 DEF PricingTakenOn
<1>3. CASE ~ \A f \in Pricing!Fields : o.set[f] = None
  <2>1. PICK m : m = Len(p) + 1
    OBVIOUS
  <2>2. r = Append(p, o) /\ o \in Pricing!Override
    BY <1>3 DEF PricingTakenOn
  <2>3. r \in Seq(Pricing!Override) /\ Len(r) = m /\ m \in Nat /\ r[m] = o
    BY <2>1, <2>2
  <2>4. DOMAIN r = 1..m
    BY <2>3
  <2>5. DOMAIN p = (1..m) \ {m}
    <3>1. DOMAIN p = 1..Len(p) /\ Len(p) \in Nat
      OBVIOUS
    <3>. QED
      BY <2>1, <3>1
  <2>6. \A j \in DOMAIN p : r[j] = p[j]
    BY <2>1, <2>2
  <2>7. Pricing!Laid(b, r, DOMAIN p, n) = Pricing!Laid(b, p, DOMAIN p, n)
    BY <2>2, PricingAppend
  <2>8. 1..m \in SUBSET (1..Len(r)) /\ m \in 1..m /\ \A j \in 1..m : j <= m
    BY <2>1, <2>3
  <2>9. Pricing!Laid(b, r, 1..m, n)
          = IF Pricing!Applies(r[m], n)
            THEN Pricing!Updated(Pricing!Laid(b, r, (1..m) \ {m}, n), r[m])
            ELSE Pricing!Laid(b, r, (1..m) \ {m}, n)
    BY ONLY <2>3, <2>8, PricingStep, n \in Nat
  <2>. QED
    BY <1>1, <2>3, <2>4, <2>5, <2>7, <2>9
<1>. QED
  BY <1>2, <1>3

(* A sequence of tiers is typed.                                             *)
LEMMA PricingTiers ==
  ASSUME NEW x \in Pricing!Tiers, NEW k \in DOMAIN x
  PROVE  x[k].over \in Thresholds \cup {0} /\ DOMAIN x[k].rates = Rates
<1>1. x[k] \in [over : Thresholds \cup {0}, rates : {Pricing!RatesOf(l) : l \in Pricing!Listed}]
  <2>1. PICK E : E = [over : Thresholds \cup {0},
                 rates : {Pricing!RatesOf(l) : l \in Pricing!Listed}]
    OBVIOUS
  <2>2. x \in Seq(E)
    BY <2>1 DEF Pricing!Tiers
  <2>3. x[k] \in E
    BY <2>2
  <2>. QED
    BY <2>1, <2>3
<1>. QED
  BY <1>1 DEF Pricing!RatesOf

(* The tier of the threshold o at the prices l.                              *)
PricingTierOf(o, l) == [over |-> o, rates |-> Pricing!RatesOf(l)]

(* Two sequences of tiers with one more.                                     *)
LEMMA PricingGrows ==
  ASSUME NEW x \in Pricing!Tiers, NEW o \in Thresholds \cup {0}, NEW l \in Pricing!Listed
  PROVE  /\ Append(x, PricingTierOf(o, l)) \in Pricing!Tiers
         /\ Len(Append(x, PricingTierOf(o, l))) = Len(x) + 1 /\ Len(x) \in Nat
         /\ \A k \in 1..Len(x) : Append(x, PricingTierOf(o, l))[k] = x[k]
         /\ Append(x, PricingTierOf(o, l))[Len(x) + 1].over = o
         /\ Append(x, PricingTierOf(o, l))[Len(x) + 1].rates = Pricing!RatesOf(l)
<1>0. PICK y : y = Append(x, PricingTierOf(o, l))
  OBVIOUS
<1>1. PICK e : e = PricingTierOf(o, l)
  OBVIOUS
<1>2. /\ e \in [over : Thresholds \cup {0}, rates : {Pricing!RatesOf(i) : i \in Pricing!Listed}]
      /\ e.over = o /\ e.rates = Pricing!RatesOf(l)
  BY <1>1 DEF PricingTierOf
<1>3. PICK E : E = [over : Thresholds \cup {0},
               rates : {Pricing!RatesOf(i) : i \in Pricing!Listed}]
  OBVIOUS
<1>4. x \in Seq(E) /\ e \in E /\ y = Append(x, e)
  BY <1>0, <1>1, <1>2, <1>3 DEF Pricing!Tiers
<1>5. y \in Seq(E) /\ Len(y) = Len(x) + 1 /\ Len(x) \in Nat /\ y[Len(x) + 1] = e
  BY <1>4
<1>6. \A k \in 1..Len(x) : y[k] = x[k]
  BY <1>4
<1>. QED
  BY <1>0, <1>2, <1>3, <1>5, <1>6 DEF Pricing!Tiers

(* The invariant holds at the beginning.                                     *)
LEMMA PricingInit == Pricing!Init => Pricing!IInv
<1>. SUFFICES ASSUME Pricing!Init
              PROVE  Pricing!IInv
  OBVIOUS
<1>1. s1 \in Pricing!Listed /\ s8 \in BOOLEAN /\ s4 = <<>> /\ s7 = 1 /\ s4 \in Seq(Pricing!Override)
  BY DEF Pricing!Init
<1>2. 1 \in 1..(MaxOverrides + 1)
  BY PricingAssumption DEF Pricing!PricingAssumption
<1>3. CASE s6 = "base"
  <2>1. PICK n \in 0..MaxOverrides : s2 \in [1..n -> Pricing!Override]
    BY <1>3 DEF Pricing!Init
  <2>2. s2 \in Seq(Pricing!Override) /\ Len(s2) = n /\ n <= MaxOverrides
    BY <2>1, PricingAssumption DEF Pricing!PricingAssumption
  <2>3. s3 = None /\ s5 = <<>>
    BY <1>3 DEF Pricing!Init
  <2>4. Pricing!TypeOK /\ s5 \in Pricing!Tiers
    BY <1>1, <1>2, <1>3, <2>2, <2>3 DEF Pricing!TypeOK, Pricing!Tiers
  <2>5. ASSUME NEW i \in Sizes \cup Thresholds
        PROVE  Pricing!Laid(s1, s4, DOMAIN s4, i) = Pricing!Laid(s1, s2, 1..(s7 - 1), i)
    <3>1. DOMAIN s4 = {} /\ 1..(s7 - 1) = {}
      BY <1>1
    <3>. QED
      BY <1>1, <3>1, PricingNone
  <2>6. s7 <= Len(s2) + 1
    BY <1>1, <2>2
  <2>7. Pricing!Reading
    BY <2>2, <2>3, <2>5, <2>6 DEF Pricing!Reading
  <2>. QED
    BY <1>1, <1>3, <2>4, <2>7
      DEF Pricing!IInv, Pricing!Expressible, Pricing!Building, Pricing!Negotiating,
       Pricing!BilledAsListed
<1>4. CASE s6 = "negotiated"
  <2>1. PICK n \in 0..MaxOverrides : s3 \in [1..n -> Thresholds]
    BY <1>4 DEF Pricing!Init
  <2>2. s3 \in Seq(Thresholds) /\ Len(s3) = n /\ n <= MaxOverrides
    BY <2>1, PricingAssumption DEF Pricing!PricingAssumption
  <2>3. s2 = <<>> /\ s5 = <<[over |-> 0, rates |-> Pricing!RatesOf(s1)]>>
    BY <1>4 DEF Pricing!Init
  <2>4. Len(s5) = 1 /\ s5 \in Pricing!Tiers
    BY <1>1, <2>3 DEF Pricing!Tiers
  <2>5. \A k \in DOMAIN s5 : s5[k].over \in Thresholds \cup {0} /\ DOMAIN s5[k].rates = Rates
    BY <2>4, PricingTiers
  <2>6. s2 \in Seq(Pricing!Override)
    BY <2>3
  <2>7. Pricing!TypeOK
    BY <1>1, <1>2, <1>4, <2>2, <2>5, <2>6 DEF Pricing!TypeOK
  <2>8. Pricing!Negotiating
    BY <1>1, <2>2, <2>4 DEF Pricing!Negotiating, Pricing!Increasing
  <2>. QED
    BY <1>4, <2>4, <2>7, <2>8
      DEF Pricing!IInv, Pricing!Expressible, Pricing!Building, Pricing!Reading,
       Pricing!BilledAsListed
<1>. QED
  BY <1>3, <1>4 DEF Pricing!Init

(* An override is read.                                                      *)
LEMMA PricingReadOverride == Pricing!IInv /\ Pricing!ReadOverride => Pricing!IInv'
<1>. SUFFICES ASSUME Pricing!IInv, Pricing!ReadOverride
              PROVE  Pricing!IInv'
  OBVIOUS
<1>. DEFINE o == s2[s7]
<1>1. Pricing!TypeOK /\ s5 \in Pricing!Tiers /\ Pricing!Reading /\ Pricing!Building
      /\ Pricing!Expressible
  BY DEF Pricing!IInv
<1>2. /\ s1 \in Pricing!Listed /\ s2 \in Seq(Pricing!Override) /\ s4 \in Seq(Pricing!Override)
      /\ s7 \in 1..(MaxOverrides + 1) /\ MaxOverrides \in Nat
  BY <1>1, PricingAssumption DEF Pricing!TypeOK, Pricing!PricingAssumption
<1>3. s6 = "override" /\ s7 <= Len(s2) /\ s7 \in DOMAIN s2 /\ Len(s2) \in Nat
  BY <1>2 DEF Pricing!ReadOverride
<1>4. s1' = s1 /\ s2' = s2 /\ s3' = s3 /\ s8' = s8
  BY DEF Pricing!ReadOverride, Pricing!Listing
<1>5. s5' = s5
  BY DEF Pricing!ReadOverride, Pricing!Refuse
<1>6. o \in Pricing!Override
  BY <1>2, <1>3
<1>7. CASE ~o.plain
  <2>1. s6' = "refused" /\ s4' = s4 /\ s7' = s7
    BY <1>7 DEF Pricing!ReadOverride, Pricing!Refuse
  <2>2. Pricing!TypeOK'
    BY <1>1, <1>4, <1>5, <2>1 DEF Pricing!TypeOK
  <2>3. Pricing!BilledAsListed'
    BY <1>3, <1>4, <1>7, <2>1 DEF Pricing!BilledAsListed, Pricing!Inexpressible
  <2>. QED
    BY <1>1, <1>5, <2>1, <2>2, <2>3
      DEF Pricing!IInv, Pricing!Reading, Pricing!Expressible, Pricing!Building,
       Pricing!Negotiating, Pricing!Tiers
<1>8. CASE o.plain
  <2>1. /\ s4' = IF \A f \in Pricing!Fields : o.set[f] = None THEN s4 ELSE Append(s4, o)
        /\ s7' = s7 + 1 /\ s6' = s6
    BY <1>8 DEF Pricing!ReadOverride
  <2>2. s4' \in Seq(Pricing!Override) /\ s7' \in 1..(MaxOverrides + 1)
    <3>1. Len(s2) <= MaxOverrides
      BY <1>1, <1>3 DEF Pricing!Reading
    <3>2. s7' \in 1..(MaxOverrides + 1)
      BY <1>2, <1>3, <2>1, <3>1
    <3>3. Append(s4, o) \in Seq(Pricing!Override)
      BY <1>2, <1>6
    <3>. QED
      BY <1>2, <2>1, <3>2, <3>3
  <2>3. Pricing!TypeOK'
    BY <1>1, <1>4, <1>5, <2>1, <2>2 DEF Pricing!TypeOK
  <2>4. ASSUME NEW n \in Sizes \cup Thresholds
        PROVE  Pricing!Laid(s1', s4', DOMAIN s4', n) = Pricing!Laid(s1', s2', 1..(s7' - 1), n)
    <3>1. n \in Nat
      BY PricingAssumption DEF Pricing!PricingAssumption
    <3>2. Pricing!Laid(s1, s4, DOMAIN s4, n) = Pricing!Laid(s1, s2, 1..(s7 - 1), n)
      BY <1>1, <1>3 DEF Pricing!Reading
    <3>3. PICK r, b, q, k, p : r = s4' /\ b = s1 /\ q = s2 /\ k = s7 /\ p = s4
      OBVIOUS
    <3>4. Pricing!Laid(b, r, DOMAIN r, n) = Pricing!Laid(b, q, 1..k, n)
      <4>1. q \in Seq(Pricing!Override) /\ p \in Seq(Pricing!Override) /\ k \in DOMAIN q
        BY <1>2, <1>3, <3>3
      <4>2. Pricing!Laid(b, p, DOMAIN p, n) = Pricing!Laid(b, q, 1..(k - 1), n)
        BY <3>2, <3>3
      <4>3. r = PricingTakenOn(p, q[k])
        BY <2>1, <3>3 DEF PricingTakenOn
      <4>. QED
        BY ONLY <3>1, <4>1, <4>2, <4>3, PricingRead
    <3>5. s7' - 1 = s7
      BY <1>2, <2>1
    <3>. QED
      BY <1>4, <3>3, <3>4, <3>5
  <2>5. Pricing!Reading'
    <3>1. s7' <= Len(s2) + 1
      BY <1>2, <1>3, <2>1
    <3>. QED
      BY <1>1, <1>3, <1>4, <2>1, <2>4, <3>1 DEF Pricing!Reading
  <2>6. Pricing!Building'
    <3>1. s5 # <<>> /\ s5[1] = [over |-> 0, rates |-> Pricing!RatesOf(s1)] /\ Len(s5) = 1
      BY <1>1, <1>3 DEF Pricing!Building
    <3>. QED
      BY <1>4, <1>5, <3>1 DEF Pricing!Building, Pricing!Increasing
  <2>7. Pricing!Expressible'
    <3>1. ~s8 /\ \A k \in 1..(s7 - 1) : s2[k].plain
      BY <1>1, <1>3 DEF Pricing!Expressible
    <3>2. \A k \in 1..(s7' - 1) : k \in 1..(s7 - 1) \/ k = s7
      BY <1>2, <2>1
    <3>3. \A k \in 1..(s7' - 1) : s2[k].plain
      BY <1>8, <3>1, <3>2
    <3>. QED
      BY <1>3, <1>4, <2>1, <3>1, <3>3 DEF Pricing!Expressible
  <2>. QED
    BY <1>1, <1>3, <1>5, <2>1, <2>3, <2>5, <2>6, <2>7
      DEF Pricing!IInv, Pricing!Negotiating, Pricing!BilledAsListed, Pricing!Tiers
<1>. QED
  BY <1>7, <1>8

(* The base rates are computed.                                              *)
LEMMA PricingBase == Pricing!IInv /\ Pricing!Base => Pricing!IInv'
<1>. SUFFICES ASSUME Pricing!IInv, Pricing!Base
              PROVE  Pricing!IInv'
  OBVIOUS
<1>1. Pricing!TypeOK /\ s5 \in Pricing!Tiers /\ Pricing!Reading /\ Pricing!Expressible
  BY DEF Pricing!IInv
<1>2. s6 = "base" /\ s1 \in Pricing!Listed
  BY <1>1 DEF Pricing!Base, Pricing!TypeOK
<1>3. /\ s8' = s8 /\ s1' = s1 /\ s2' = s2 /\ s3' = s3 /\ s4' = s4
      /\ s7' = s7
  BY DEF Pricing!Base, Pricing!Listing, Pricing!Refuse
<1>4. CASE s8 \/ Pricing!Refuses(s1)
  <2>1. s6' = "refused" /\ s5' = s5
    BY <1>4 DEF Pricing!Base, Pricing!Refuse
  <2>2. Pricing!TypeOK'
    BY <1>1, <1>3, <2>1 DEF Pricing!TypeOK
  <2>3. s8' \/ Pricing!Refuses(s1')
    BY <1>3, <1>4
  <2>4. Pricing!BilledAsListed'
    BY <2>1, <2>3 DEF Pricing!BilledAsListed, Pricing!Inexpressible
  <2>. QED
    BY <1>1, <2>1, <2>2, <2>4
      DEF Pricing!IInv, Pricing!Reading, Pricing!Expressible, Pricing!Building,
       Pricing!Negotiating, Pricing!Tiers
<1>5. CASE ~s8 /\ ~Pricing!Refuses(s1)
  <2>1. s5' = <<[over |-> 0, rates |-> Pricing!RatesOf(s1)]>> /\ s6' = "override"
    BY <1>5 DEF Pricing!Base
  <2>2. s5' \in Pricing!Tiers /\ Len(s5') = 1
    BY <1>2, <2>1 DEF Pricing!Tiers
  <2>3. ASSUME NEW k \in DOMAIN s5'
        PROVE  s5'[k].over \in Thresholds \cup {0} /\ DOMAIN s5'[k].rates = Rates
    BY <2>2, PricingTiers
  <2>4. Pricing!TypeOK'
    BY <1>1, <1>3, <2>1, <2>3 DEF Pricing!TypeOK
  <2>5. Pricing!Reading'
    BY <1>1, <1>2, <1>3, <2>1 DEF Pricing!Reading
  <2>6. Pricing!Building'
    BY <1>2, <1>3, <2>1, <2>2 DEF Pricing!Building, Pricing!Increasing
  <2>7. Pricing!Expressible'
    <3>1. s7' = 1 /\ ~s8'
      BY <1>1, <1>2, <1>3, <1>5 DEF Pricing!Expressible
    <3>2. 1..(s7' - 1) = {}
      BY <3>1
    <3>. QED
      BY <2>1, <3>1, <3>2 DEF Pricing!Expressible
  <2>. QED
    BY <2>1, <2>2, <2>4, <2>5, <2>6, <2>7
      DEF Pricing!IInv, Pricing!Negotiating, Pricing!BilledAsListed, Pricing!Tiers
<1>. QED
  BY <1>4, <1>5

(* Tiers that are of the thresholds taken, each right for its own, are right *)
(* for every size once there is one of each threshold.                       *)
LEMMA PricingDone ==
  ASSUME Pricing!IInv, Pricing!Gathered, Pricing!Left = {}, NEW n \in Nat
  PROVE  Pricing!RatesOf(Pricing!Laid(s1, s4, DOMAIN s4, n)) = Pricing!TierAt(n).rates
<1>. DEFINE K == {k \in DOMAIN s5 : s5[k].over <= n}
            D == DOMAIN s4
<1>1. Pricing!TypeOK /\ s5 \in Pricing!Tiers /\ Pricing!Building
  BY DEF Pricing!IInv
<1>2. s5 # <<>> /\ s5[1] = [over |-> 0, rates |-> Pricing!RatesOf(s1)] /\ Pricing!Increasing
  BY <1>1 DEF Pricing!Building, Pricing!Gathered
<1>3. /\ s1 \in Pricing!Listed /\ s4 \in Seq(Pricing!Override)
      /\ Len(s5) \in Nat /\ DOMAIN s5 = 1..Len(s5) /\ 1 \in DOMAIN s5
  BY <1>1, <1>2 DEF Pricing!TypeOK, Pricing!Tiers
<1>4. PICK m : m = Pricing!Max(K)
  OBVIOUS
<1>5. m \in K /\ (\A k \in K : k <= m) /\ m \in 1..Len(s5)
  <2>1. 1 \in K /\ K \in SUBSET (1..Len(s5))
    BY <1>2, <1>3
  <2>2. Pricing!Max(K) \in K /\ \A k \in K : k <= Pricing!Max(K)
    BY <1>3, <2>1, PricingLast
  <2>. QED
    BY <1>4, <2>1, <2>2
<1>6. \A k \in DOMAIN s5 : s5[k].over \in Nat
  <2>1. Thresholds \cup {0} \subseteq Nat
    BY PricingAssumption DEF Pricing!PricingAssumption
  <2>2. \A k \in DOMAIN s5 : s5[k].over \in Thresholds \cup {0}
    BY <1>1, PricingTiers
  <2>. QED
    BY <2>1, <2>2
<1>7. \A j \in D : s4[j].from \in Nat
  <2>1. \A j \in D : s4[j] \in Pricing!Override
    BY <1>3
  <2>. QED
    BY <2>1, PricingAssumption DEF Pricing!Override, Pricing!PricingAssumption
<1>8. ASSUME NEW j \in D
      PROVE  \E k \in 2..Len(s5) : s5[k].over = s4[j].from
  <2>1. s4[j].from \in {s4[i].from : i \in DOMAIN s4}
    OBVIOUS
  <2>. QED
    BY <2>1 DEF Pricing!Left
<1>9. Pricing!TierAt(n) = s5[m]
  BY <1>4 DEF Pricing!TierAt
<1>10. CASE m = 1
  <2>1. ASSUME NEW j \in D
        PROVE  ~Pricing!Applies(s4[j], n)
    <3>1. PICK k \in 2..Len(s5) : s5[k].over = s4[j].from
      BY <1>8
    <3>2. ~(s5[k].over <= n)
      BY <1>3, <1>5, <1>10, <3>1
    <3>. QED
      BY <3>1, <3>2 DEF Pricing!Applies
  <2>2. Pricing!Laid(s1, s4, D, n) = s1
    BY <1>3, <2>1, PricingNone
  <2>. QED
    BY <1>2, <1>9, <1>10, <2>2
<1>11. CASE m # 1
  <2>1. m \in 2..Len(s5) /\ s5[m].over <= n
    BY <1>5, <1>11
  <2>2. PICK t : t = s5[m].over
    OBVIOUS
  <2>3. t \in Nat /\ t <= n
    BY <1>3, <1>6, <2>1, <2>2
  <2>4. s5[m].rates = Pricing!RatesOf(Pricing!Laid(s1, s4, D, t))
    BY <1>1, <2>1, <2>2 DEF Pricing!Building, Pricing!Gathered
  <2>5. ASSUME NEW j \in D
        PROVE  Pricing!Applies(s4[j], n) <=> Pricing!Applies(s4[j], t)
    <3>1. PICK k \in 2..Len(s5) : s5[k].over = s4[j].from
      BY <1>8
    <3>2. k \in DOMAIN s5 /\ k \in Nat /\ m \in Nat
      BY <1>3, <2>1
    <3>3. s5[k].over <= n => s5[k].over <= t
      <4>1. SUFFICES ASSUME s5[k].over <= n
                     PROVE  s5[k].over <= t
        OBVIOUS
      <4>2. k <= m
        BY <1>5, <3>2, <4>1
      <4>3. k = m \/ k < m
        BY <3>2, <4>2
      <4>4. k < m => s5[k].over < s5[m].over
        BY <1>2, <2>1 DEF Pricing!Increasing
      <4>. QED
        BY <1>6, <2>2, <2>3, <3>2, <4>3, <4>4
    <3>4. s5[k].over <= t => s5[k].over <= n
      BY <1>6, <2>3, <3>2
    <3>. QED
      BY <3>1, <3>3, <3>4 DEF Pricing!Applies
  <2>6. \A f \in Pricing!Fields : Pricing!Setters(s4, D, n, f) = Pricing!Setters(s4, D, t, f)
    BY <2>5 DEF Pricing!Setters
  <2>7. Pricing!Laid(s1, s4, D, n) = Pricing!Laid(s1, s4, D, t)
    BY <2>6 DEF Pricing!Laid
  <2>. QED
    BY <1>9, <2>4, <2>7
<1>. QED
  BY <1>10, <1>11

(* What has been taken comes to what is asked.                               *)
LEMMA PricingAsked ==
  ASSUME Pricing!IInv, Pricing!Gathered, NEW n \in Sizes \cup Thresholds
  PROVE  Pricing!Asked(n) = Pricing!Laid(s1, s4, DOMAIN s4, n)
<1>1. Pricing!TypeOK /\ Pricing!Reading
  BY DEF Pricing!IInv
<1>2. s2 \in Seq(Pricing!Override) /\ s7 = Len(s2) + 1
  BY <1>1 DEF Pricing!TypeOK, Pricing!Gathered
<1>3. 1..(s7 - 1) = DOMAIN s2
  BY <1>2
<1>. QED
  BY <1>1, <1>3 DEF Pricing!Reading, Pricing!Asked, Pricing!Gathered

(* Where the thresholds do not decrease, the last override that reaches down *)
(* to a size is one of those with the highest threshold.                     *)
LEMMA PricingInherits ==
  ASSUME s2 \in Seq(Pricing!Override), Pricing!Ascending, NEW n \in Nat
  PROVE  Pricing!Inherited(n) = Pricing!Asked(n)
<1>1. ASSUME NEW S \in SUBSET (DOMAIN s2), S # {}
      PROVE  Pricing!Max(Pricing!Highest(S)) = Pricing!Max(S)
  <2>1. Len(s2) \in Nat /\ DOMAIN s2 = 1..Len(s2) /\ S \in SUBSET (1..Len(s2))
    OBVIOUS
  <2>2. Pricing!Max(S) \in S /\ \A k \in S : k <= Pricing!Max(S)
    BY ONLY <1>1, <2>1, PricingLast
  <2>3. PICK m : m = Pricing!Max(S)
    OBVIOUS
  <2>4. m \in S /\ \A k \in S : k <= m
    BY ONLY <2>2, <2>3
  <2>5. \A k \in DOMAIN s2 : k \in Nat /\ s2[k].from \in Nat
    <3>1. Thresholds \subseteq Nat
      BY PricingAssumption DEF Pricing!PricingAssumption
    <3>2. \A k \in DOMAIN s2 : k \in Nat /\ s2[k] \in Pricing!Override
      BY <2>1
    <3>3. \A o \in Pricing!Override : o.from \in Nat
      BY ONLY <3>1 DEF Pricing!Override
    <3>. QED
      BY ONLY <3>2, <3>3
  <2>6. \A k \in S : s2[k].from <= s2[m].from
    BY <2>4, <2>5 DEF Pricing!Ascending
  <2>7. m \in Pricing!Highest(S) /\ Pricing!Highest(S) \in SUBSET S
    BY <2>4, <2>6 DEF Pricing!Highest
  <2>8. Pricing!Highest(S) \in SUBSET (1..Len(s2)) /\ \A k \in Pricing!Highest(S) : k <= m
    BY ONLY <2>1, <2>4, <2>7
  <2>9. Pricing!Max(Pricing!Highest(S)) = m
    BY ONLY <2>1, <2>7, <2>8, PricingMax
  <2>. QED
    BY <2>3, <2>9
<1>2. \A f \in Pricing!Fields :
        Pricing!Setters(s2, DOMAIN s2, n, f) \in SUBSET (DOMAIN s2)
  BY DEF Pricing!Setters
<1>. QED
  BY <1>1, <1>2 DEF Pricing!Inherited, Pricing!Asked, Pricing!Laid

(* The schedule is complete.                                                 *)
LEMMA PricingFinish == Pricing!IInv /\ Pricing!Finish => Pricing!IInv'
<1>. SUFFICES ASSUME Pricing!IInv, Pricing!Finish
              PROVE  Pricing!IInv'
  OBVIOUS
<1>1. Pricing!TypeOK /\ s5 \in Pricing!Tiers /\ Pricing!Building /\ Pricing!Negotiating
      /\ Pricing!Expressible
  BY DEF Pricing!IInv
<1>2. /\ s8' = s8 /\ s1' = s1 /\ s2' = s2 /\ s3' = s3 /\ s4' = s4
      /\ s7' = s7 /\ s5' = s5 /\ s6' = "done"
  BY DEF Pricing!Finish, Pricing!Listing
<1>3. Pricing!TypeOK'
  BY <1>1, <1>2 DEF Pricing!TypeOK
<1>4. Pricing!BilledAsListed'
  <2>1. CASE Pricing!Gathered /\ Pricing!Left = {}
    <3>1. Pricing!Increasing'
      BY <1>1, <1>2, <2>1 DEF Pricing!Building, Pricing!Increasing, Pricing!Gathered
    <3>2. ASSUME NEW n \in Sizes
          PROVE  Pricing!TierAt(n)'.rates = Pricing!RatesOf(Pricing!Asked(n)')
      <4>1. n \in Nat
        BY PricingAssumption DEF Pricing!PricingAssumption
      <4>2. Pricing!TierAt(n).rates = Pricing!RatesOf(Pricing!Asked(n))
        BY <2>1, <4>1, PricingDone, PricingAsked
      <4>3. Pricing!TierAt(n)' = Pricing!TierAt(n) /\ Pricing!Asked(n)' = Pricing!Asked(n)
        BY <1>2 DEF Pricing!TierAt, Pricing!Asked
      <4>. QED
        BY <4>2, <4>3
    <3>3. \A n \in Sizes : (Pricing!TierAt(n).rates = Pricing!RatesOf(Pricing!Asked(n)))'
      BY <3>2
    <3>4. ~Pricing!Inexpressible'
      <4>1. s2 \in Seq(Pricing!Override) /\ s7 = Len(s2) + 1 /\ s6 = "override"
        BY <1>1, <2>1 DEF Pricing!TypeOK, Pricing!Gathered
      <4>2. DOMAIN s2 = 1..(s7 - 1)
        BY <4>1
      <4>. QED
        BY <1>1, <1>2, <4>1, <4>2 DEF Pricing!Expressible, Pricing!Inexpressible
    <3>5. ASSUME Pricing!Ascending', NEW n \in Sizes
          PROVE  Pricing!TierAt(n)'.rates = Pricing!RatesOf(Pricing!Inherited(n)')
      <4>1. n \in Nat /\ s2 \in Seq(Pricing!Override)
        BY <1>1, PricingAssumption DEF Pricing!PricingAssumption, Pricing!TypeOK
      <4>2. Pricing!Ascending
        BY <1>2, <3>5 DEF Pricing!Ascending
      <4>3. Pricing!Inherited(n)' = Pricing!Inherited(n) /\ Pricing!Asked(n)' = Pricing!Asked(n)
        BY <1>2 DEF Pricing!Inherited, Pricing!Highest, Pricing!Asked
      <4>. QED
        BY <3>2, <4>1, <4>2, <4>3, PricingInherits
    <3>6. Pricing!Ascending' =>
            \A n \in Sizes : (Pricing!TierAt(n).rates = Pricing!RatesOf(Pricing!Inherited(n)))'
      BY <3>5
    <3>. QED
      BY <1>2, <3>1, <3>3, <3>4, <3>6 DEF Pricing!BilledAsListed
  <2>2. CASE s6 = "negotiated"
    <3>1. Pricing!Increasing'
      BY <1>1, <1>2, <2>2 DEF Pricing!Negotiating, Pricing!Increasing
    <3>2. s3' # None
      BY <1>1, <1>2, <2>2, PricingAssumption DEF Pricing!Negotiating, Pricing!PricingAssumption
    <3>. QED
      BY <1>2, <3>1, <3>2 DEF Pricing!BilledAsListed
  <2>. QED
    BY <2>1, <2>2 DEF Pricing!Finish
<1>. QED
  BY <1>1, <1>2, <1>3, <1>4
    DEF Pricing!IInv, Pricing!Reading, Pricing!Expressible, Pricing!Building,
     Pricing!Negotiating, Pricing!Tiers

(* A negotiated tier is taken over.                                          *)
LEMMA PricingReadTier == Pricing!IInv /\ Pricing!ReadTier => Pricing!IInv'
<1>. SUFFICES ASSUME Pricing!IInv, Pricing!ReadTier
              PROVE  Pricing!IInv'
  OBVIOUS
<1>1. Pricing!TypeOK /\ s5 \in Pricing!Tiers /\ Pricing!Negotiating
  BY DEF Pricing!IInv
<1>2. /\ s8' = s8 /\ s1' = s1 /\ s2' = s2 /\ s3' = s3 /\ s4' = s4
  BY DEF Pricing!ReadTier, Pricing!Listing, Pricing!Refuse
<1>3. /\ s6 = "negotiated" /\ s1 \in Pricing!Listed /\ s3 \in Seq(Thresholds)
      /\ Len(s3) <= MaxOverrides /\ s7 \in 1..(MaxOverrides + 1) /\ s7 <= Len(s3)
      /\ Len(s5) = s7 /\ Pricing!Increasing /\ MaxOverrides \in Nat /\ Len(s3) \in Nat
  BY <1>1, PricingAssumption
    DEF Pricing!ReadTier, Pricing!TypeOK, Pricing!Negotiating, Pricing!PricingAssumption
<1>4. s3 # None
  BY <1>3, PricingAssumption DEF Pricing!PricingAssumption
<1>5. CASE s7 > 1 /\ s3[s7] <= s3[s7 - 1]
  <2>1. s6' = "refused" /\ s5' = s5 /\ s7' = s7
    BY <1>5 DEF Pricing!ReadTier, Pricing!Refuse
  <2>2. Pricing!TypeOK'
    BY <1>1, <1>2, <2>1 DEF Pricing!TypeOK
  <2>. QED
    BY <1>1, <1>2, <1>4, <2>1, <2>2
      DEF Pricing!IInv, Pricing!Reading, Pricing!Expressible, Pricing!Building, Pricing!Negotiating,
       Pricing!BilledAsListed, Pricing!Tiers
<1>6. CASE ~(s7 > 1 /\ s3[s7] <= s3[s7 - 1])
  <2>1. /\ s5' = Append(s5, [over |-> s3[s7], rates |-> Pricing!RatesOf(s1)])
        /\ s7' = s7 + 1 /\ s6' = s6
    BY <1>6 DEF Pricing!ReadTier
  <2>2. /\ s5' \in Pricing!Tiers /\ Len(s5') = s7 + 1
        /\ \A k \in 1..s7 : s5'[k] = s5[k]
        /\ s5'[s7 + 1].over = s3[s7]
    <3>1. s3[s7] \in Thresholds \cup {0}
      BY <1>3
    <3>2. s5' = Append(s5, PricingTierOf(s3[s7], s1))
      BY <2>1 DEF PricingTierOf
    <3>. QED
      BY <1>1, <1>3, <3>1, <3>2, PricingGrows
  <2>3. ASSUME NEW k \in DOMAIN s5'
        PROVE  s5'[k].over \in Thresholds \cup {0} /\ DOMAIN s5'[k].rates = Rates
    BY <2>2, PricingTiers
  <2>4. s7' \in 1..(MaxOverrides + 1) /\ s7' <= Len(s3) + 1
    BY <1>3, <2>1
  <2>5. Pricing!TypeOK'
    BY <1>1, <1>2, <2>1, <2>3, <2>4 DEF Pricing!TypeOK
  <2>6. ASSUME NEW k \in 2..(s7 + 1)
        PROVE  s5'[k].over = s3[k - 1]
    <3>1. CASE k <= s7
      <4>1. k \in 2..Len(s5) /\ k \in 1..s7
        BY <1>3, <3>1
      <4>. QED
        BY <1>1, <1>3, <2>2, <4>1 DEF Pricing!Negotiating
    <3>2. CASE ~(k <= s7)
      <4>1. k = s7 + 1 /\ k - 1 = s7
        BY <1>3, <3>2
      <4>. QED
        BY <2>2, <4>1
    <3>. QED
      BY <3>1, <3>2
  <2>7. ASSUME NEW j \in 2..(s7 + 1), NEW k \in 2..(s7 + 1), j < k
        PROVE  s5'[j].over < s5'[k].over
    <3>1. j \in 2..s7
      BY <1>3, <2>7
    <3>2. s5'[j].over = s5[j].over /\ s5[j].over = s3[j - 1]
      BY <1>1, <1>3, <2>2, <3>1 DEF Pricing!Negotiating
    <3>3. CASE k <= s7
      <4>1. k \in 2..s7
        BY <1>3, <3>3
      <4>2. s5'[k].over = s5[k].over
        BY <1>3, <2>2, <4>1
      <4>. QED
        BY <1>3, <2>7, <3>1, <3>2, <4>1, <4>2 DEF Pricing!Increasing
    <3>4. CASE ~(k <= s7)
      <4>1. k = s7 + 1 /\ s7 > 1 /\ s7 \in 2..s7
        BY <1>3, <3>1, <3>4
      <4>2. /\ s3[j - 1] \in Nat /\ s3[s7 - 1] \in Nat /\ s3[s7] \in Nat
            /\ ~(s3[s7] <= s3[s7 - 1])
        <5>1. Thresholds \subseteq Nat
          BY PricingAssumption DEF Pricing!PricingAssumption
        <5>2. j - 1 \in 1..Len(s3) /\ s7 - 1 \in 1..Len(s3) /\ s7 \in 1..Len(s3)
          BY <1>3, <3>1, <4>1
        <5>3. \A i \in 1..Len(s3) : s3[i] \in Nat
          <6>1. \A i \in 1..Len(s3) : s3[i] \in Thresholds
            BY <1>3
          <6>. QED
            BY <5>1, <6>1
        <5>. QED
          BY <1>6, <4>1, <5>2, <5>3
      <4>3. s5[s7].over = s3[s7 - 1]
        BY <1>1, <1>3, <4>1 DEF Pricing!Negotiating
      <4>4. j = s7 \/ s5[j].over < s5[s7].over
        BY <1>3, <3>1, <4>1 DEF Pricing!Increasing
      <4>. QED
        BY <2>2, <3>2, <4>1, <4>2, <4>3, <4>4
    <3>. QED
      BY <3>3, <3>4
  <2>8. Pricing!Increasing'
    BY <2>2, <2>7 DEF Pricing!Increasing
  <2>9. Pricing!Negotiating'
    BY <1>2, <1>3, <2>1, <2>2, <2>4, <2>6, <2>8 DEF Pricing!Negotiating
  <2>. QED
    BY <1>3, <2>1, <2>2, <2>5, <2>9
      DEF Pricing!IInv, Pricing!Reading, Pricing!Expressible, Pricing!Building,
       Pricing!BilledAsListed, Pricing!Tiers
<1>. QED
  BY <1>5, <1>6

(* The tier of the next threshold is built.                                  *)
LEMMA PricingBuildTier == Pricing!IInv /\ Pricing!BuildTier => Pricing!IInv'
<1>. SUFFICES ASSUME Pricing!IInv, Pricing!BuildTier
              PROVE  Pricing!IInv'
  OBVIOUS
<1>. DEFINE D == DOMAIN s4
            Froms == {s4[j].from : j \in DOMAIN s4}
<1>1. Pricing!TypeOK /\ s5 \in Pricing!Tiers /\ Pricing!Reading /\ Pricing!Building
      /\ Pricing!Expressible
  BY DEF Pricing!IInv
<1>2. /\ s8' = s8 /\ s1' = s1 /\ s2' = s2 /\ s3' = s3 /\ s4' = s4
      /\ s7' = s7
  BY DEF Pricing!BuildTier, Pricing!Listing, Pricing!Refuse
<1>3. /\ Pricing!Gathered /\ s1 \in Pricing!Listed /\ s4 \in Seq(Pricing!Override) /\ s3 = None
      /\ s5 # <<>> /\ Len(s5) \in Nat /\ Len(s5) >= 1 /\ DOMAIN s5 = 1..Len(s5)
      /\ s5[1] = [over |-> 0, rates |-> Pricing!RatesOf(s1)] /\ Pricing!Increasing
  BY <1>1
    DEF Pricing!BuildTier, Pricing!Gathered, Pricing!TypeOK, Pricing!Building, Pricing!Reading,
     Pricing!Tiers
<1>4. Thresholds \subseteq Nat
  BY PricingAssumption DEF Pricing!PricingAssumption
<1>5. Froms \subseteq Thresholds
  <2>1. \A j \in D : s4[j] \in Pricing!Override
    BY <1>3
  <2>. QED
    BY <2>1 DEF Pricing!Override
<1>6. Pricing!Left \in SUBSET Nat /\ Pricing!Left # {} /\ Pricing!Left \subseteq Froms
  BY <1>4, <1>5 DEF Pricing!Left, Pricing!BuildTier
<1>7. PICK t : t = Pricing!Min(Pricing!Left)
  OBVIOUS
<1>8. t \in Pricing!Left /\ t \in Nat /\ t \in Thresholds /\ t \in Froms
      /\ \A u \in Pricing!Left : t <= u
  BY <1>5, <1>6, <1>7, PricingLeast
<1>9. PICK l : l = Pricing!Effective(t)
  OBVIOUS
<1>10. l = Pricing!Laid(s1, s4, D, t) /\ l = Pricing!Asked(t)
  BY <1>3, <1>8, <1>9, PricingFold, PricingAsked
<1>11. l \in Pricing!Listed
  <2>1. D \in SUBSET (1..Len(s4))
    BY <1>3
  <2>. QED
    BY <1>3, <1>10, <2>1, PricingListed
<1>12. CASE Pricing!Refuses(l)
  <2>1. s6' = "refused" /\ s5' = s5
    BY <1>7, <1>9, <1>12 DEF Pricing!BuildTier, Pricing!Refuse
  <2>2. Pricing!TypeOK'
    BY <1>1, <1>2, <2>1 DEF Pricing!TypeOK
  <2>3. Pricing!Asked(t)' = l
    BY <1>2, <1>10 DEF Pricing!Asked
  <2>4. \E n \in Thresholds \cup {0} : Pricing!Refuses(Pricing!Asked(n)')
    BY <1>8, <1>12, <2>3
  <2>5. Pricing!BilledAsListed'
    BY <2>1, <2>4 DEF Pricing!BilledAsListed
  <2>. QED
    BY <1>1, <2>1, <2>2, <2>5
      DEF Pricing!IInv, Pricing!Reading, Pricing!Expressible, Pricing!Building,
       Pricing!Negotiating, Pricing!Tiers
<1>13. CASE ~Pricing!Refuses(l)
  <2>1. s5' = Append(s5, PricingTierOf(t, l)) /\ s6' = s6
    BY <1>7, <1>9, <1>13 DEF Pricing!BuildTier, PricingTierOf
  <2>2. /\ s5' \in Pricing!Tiers /\ Len(s5') = Len(s5) + 1
        /\ \A k \in 1..Len(s5) : s5'[k] = s5[k]
        /\ s5'[Len(s5) + 1].over = t /\ s5'[Len(s5) + 1].rates = Pricing!RatesOf(l)
    <3>1. t \in Thresholds \cup {0}
      BY <1>8
    <3>. QED
      BY <1>1, <1>11, <2>1, <3>1, PricingGrows
  <2>3. PICK z : z = Len(s5)
    OBVIOUS
  <2>4. z \in Nat /\ z >= 1 /\ Len(s5') = z + 1 /\ DOMAIN s5' = 1..(z + 1)
    BY <1>3, <2>2, <2>3 DEF Pricing!Tiers
  <2>5. ASSUME NEW k \in DOMAIN s5'
        PROVE  s5'[k].over \in Thresholds \cup {0} /\ DOMAIN s5'[k].rates = Rates
    BY <2>2, PricingTiers
  <2>6. Pricing!TypeOK'
    BY <1>1, <1>2, <2>1, <2>5 DEF Pricing!TypeOK
  <2>7. Pricing!Reading'
    BY <1>1, <1>2, <1>3, <2>1 DEF Pricing!Reading, Pricing!Gathered
  <2>8. ASSUME NEW k \in 2..(z + 1)
        PROVE  \/ k \in 2..z /\ s5'[k] = s5[k] /\ s5[k].over < t
               \/ k = z + 1 /\ s5'[k].over = t /\ s5'[k].rates = Pricing!RatesOf(l)
    <3>1. CASE k <= z
      <4>1. k \in 2..Len(s5) /\ k \in 1..Len(s5)
        BY <2>3, <2>4, <3>1
      <4>2. \A u \in Pricing!Left : s5[k].over < u
        BY <1>1, <1>3, <4>1 DEF Pricing!Building, Pricing!Gathered
      <4>. QED
        BY <1>8, <2>2, <2>3, <4>1, <4>2
    <3>2. CASE ~(k <= z)
      <4>1. k = z + 1
        BY <2>4, <3>2
      <4>. QED
        BY <2>2, <2>3, <4>1
    <3>. QED
      BY <3>1, <3>2
  <2>9. Pricing!Increasing'
    <3>1. ASSUME NEW j \in 2..(z + 1), NEW k \in 2..(z + 1), j < k
          PROVE  s5'[j].over < s5'[k].over
      <4>1. j \in 2..z
        BY <2>4, <3>1
      <4>2. s5'[j] = s5[j] /\ s5[j].over < t
        BY <2>4, <2>8, <4>1
      <4>3. CASE k = z + 1
        BY <2>2, <2>3, <4>2, <4>3
      <4>4. CASE k # z + 1
        <5>1. k \in 2..z /\ s5'[k] = s5[k]
          BY <2>8, <4>4
        <5>. QED
          BY <1>3, <2>3, <3>1, <4>1, <4>2, <5>1 DEF Pricing!Increasing
      <4>. QED
        BY <4>3, <4>4
    <3>. QED
      BY <2>4, <3>1 DEF Pricing!Increasing
  <2>10. ASSUME NEW u \in Pricing!Left'
         PROVE  u \in Pricing!Left /\ t < u
    <3>1. u \in Froms /\ u \notin {s5'[k].over : k \in 2..(z + 1)}
      BY <1>2, <2>4 DEF Pricing!Left
    <3>2. \A k \in 2..Len(s5) : k \in 2..(z + 1) /\ s5'[k] = s5[k]
      BY <2>2, <2>3, <2>4
    <3>3. u \notin {s5[k].over : k \in 2..Len(s5)}
      BY <3>1, <3>2
    <3>4. u \in Pricing!Left
      BY <3>1, <3>3 DEF Pricing!Left
    <3>5. u # t
      <4>1. z + 1 \in 2..(z + 1) /\ s5'[z + 1].over = t
        BY <2>2, <2>3, <2>4
      <4>. QED
        BY <3>1, <4>1
    <3>6. u \in Nat /\ t <= u
      BY <1>6, <1>8, <3>4
    <3>. QED
      BY <1>8, <3>4, <3>5, <3>6
  <2>11. ASSUME NEW k \in 2..(z + 1)
         PROVE  /\ s5'[k].over \in Froms
                /\ s5'[k].rates = Pricing!RatesOf(Pricing!Laid(s1, s4, D, s5'[k].over))
                /\ \A u \in Pricing!Left' : s5'[k].over < u
    <3>1. CASE k = z + 1
      <4>1. s5'[k].over = t /\ s5'[k].rates = Pricing!RatesOf(l)
        BY <2>2, <2>3, <3>1
      <4>. QED
        BY <1>8, <1>10, <2>10, <4>1
    <3>2. CASE k # z + 1
      <4>1. k \in 2..Len(s5) /\ s5'[k] = s5[k]
        BY <2>3, <2>8, <3>2
      <4>2. /\ s5[k].over \in Froms
            /\ s5[k].rates = Pricing!RatesOf(Pricing!Laid(s1, s4, D, s5[k].over))
            /\ \A u \in Pricing!Left : s5[k].over < u
        BY <1>1, <1>3, <4>1 DEF Pricing!Building, Pricing!Gathered
      <4>. QED
        BY <2>10, <4>1, <4>2
    <3>. QED
      BY <3>1, <3>2
  <2>12. s5' # <<>> /\ s5'[1] = [over |-> 0, rates |-> Pricing!RatesOf(s1)]
    <3>1. 1 \in 1..Len(s5)
      BY <2>3, <2>4
    <3>2. s5' # <<>>
      BY <2>4
    <3>. QED
      BY <1>3, <2>2, <3>1, <3>2
  <2>13. s6 = "override" /\ s7 = Len(s2) + 1 /\ ~(s7 <= Len(s2))
    <3>1. s2 \in Seq(Pricing!Override)
      BY <1>1 DEF Pricing!TypeOK
    <3>. QED
      BY <1>3, <3>1 DEF Pricing!Gathered
  <2>14. Pricing!Building'
    BY <1>2, <2>1, <2>4, <2>9, <2>11, <2>12, <2>13 DEF Pricing!Building
  <2>15. Pricing!Expressible'
    BY <1>1, <1>2, <2>1 DEF Pricing!Expressible
  <2>. QED
    BY <2>1, <2>2, <2>6, <2>7, <2>13, <2>14, <2>15
      DEF Pricing!IInv, Pricing!Negotiating, Pricing!BilledAsListed, Pricing!Tiers
<1>. QED
  BY <1>12, <1>13

(* No step takes the invariant away.                                         *)
LEMMA PricingNext == Pricing!IInv /\ Pricing!Next => Pricing!IInv'
BY PricingReadOverride, PricingBase, PricingBuildTier, PricingReadTier, PricingFinish
  DEF Pricing!Next

-----------------------------------------------------------------------------
(* Whichever tool is in use has its invariant.                               *)
IInv ==
  /\ tool = "runtime" => Runtime!IInv
  /\ tool = "store" => Store!IInv
  /\ tool = "release" => Release!IInv
  /\ tool = "notes" => Notes!IInv
  /\ tool = "python" => Python!IInv
  /\ tool = "sync" => Sync!IInv
  /\ tool = "pricing" => Pricing!IInv
  /\ tool = "sources" => Acquisition!IInv

(* What stays the same keeps its invariant.  The store's.                    *)
LEMMA StoreStays ==
  ASSUME Store!IInv, UNCHANGED vars
  PROVE  Store!IInv'
  BY DEF vars, Store!IInv, Store!TypeOK, Store!Cur, Store!Artifact, Store!TargetIsWhole,
     Store!Downloading, Store!Resolved, Store!Uploading

(* The platform release's.                                                   *)
LEMMA ReleaseStays ==
  ASSUME Release!IInv, UNCHANGED vars
  PROVE  Release!IInv'
  BY DEF vars, Release!IInv, Release!TypeOK, Release!Published, Release!Target, Release!Holds,
     Release!CommandFits, Release!Established, Release!Verified

(* The release notes'.                                                       *)
LEMMA NotesStays ==
  ASSUME Notes!IInv, UNCHANGED vars
  PROVE  Notes!IInv'
  BY DEF vars, Notes!IInv, Notes!TypeOK, Notes!T, Notes!TextOf, Notes!Logged, Notes!Underway,
     Notes!Reviewed

(* The Python releases'.                                                     *)
LEMMA PythonStays ==
  ASSUME Python!IInv, UNCHANGED vars
  PROVE  Python!IInv'
  BY DEF vars, Python!IInv, Python!TypeOK, Python!Target, Python!Local, Python!SdkPublished,
     Python!Checked

(* The catalog synchronisation's.                                            *)
LEMMA SyncStays ==
  ASSUME Sync!IInv, UNCHANGED vars
  PROVE  Sync!IInv'
<1>1. UNCHANGED <<s1, s2, s3, s4, s5, s6, s7, s8>>
  BY DEF vars
<1>2. Sync!TypeOK' /\ Sync!Begun' /\ Sync!Untouched'
  BY <1>1 DEF Sync!IInv, Sync!TypeOK, Sync!At, Sync!Writing, Sync!Begun, Sync!Untouched
<1>3. Sync!Replacing'
  BY <1>1 DEF Sync!IInv, Sync!At, Sync!Writing, Sync!Old, Sync!New, Sync!Copied, Sync!Replacing
<1>4. Sync!Undoing'
  BY <1>1 DEF Sync!IInv, Sync!At, Sync!Old, Sync!New, Sync!Copied, Sync!Undoing
<1>5. Sync!WholeOrUntouched'
  BY <1>1 DEF Sync!IInv, Sync!At, Sync!WholeOrUntouched
<1> QED BY <1>2, <1>3, <1>4, <1>5 DEF Sync!IInv

(* The acquired sources'.                                                    *)
LEMMA AcquisitionStays ==
  ASSUME Acquisition!IInv, UNCHANGED vars
  PROVE  Acquisition!IInv'
  BY DEF vars, Acquisition!IInv, Acquisition!TypeOK, Acquisition!At,
     Acquisition!SourcesAreWhole, Acquisition!OneFills, Acquisition!Filling

(* The runtime activation's.                                                 *)
LEMMA RuntimeStays ==
  ASSUME Runtime!IInv, UNCHANGED vars
  PROVE  Runtime!IInv'
<1>1. UNCHANGED <<s1, s2, s3, s4, s5, s6, s7, s8, s9, s10, s11>>
  BY DEF vars
<1>2. Runtime!TypeOK' /\ Runtime!OwnChoices' /\ Runtime!Underway'
  BY <1>1 DEF Runtime!IInv, Runtime!TypeOK, Runtime!OwnChoices, Runtime!Underway
<1>3. Runtime!OneService' /\ \A a \in Aliases : Runtime!Running(a)' = Runtime!Running(a)
  BY <1>1, RuntimeServicesStay DEF Runtime!IInv
<1>4. \A a \in Aliases : Runtime!Confirmable(a) => Runtime!Confirmable(a)'
  BY <1>1
    DEF Runtime!Confirmable, Runtime!Live, Runtime!Running, Runtime!HasOwnModel,
     Runtime!ActiveIdentity
<1>5. Runtime!Confirming'
  BY <1>1, RuntimeRangeTells, <1>4
    DEF Runtime!IInv, Runtime!Confirming, Runtime!TypeOK, Runtime!Jobs
<1>6. \A a \in Aliases : Runtime!Serving(a) => Runtime!Serving(a)'
  BY <1>1, <1>3, <1>4 DEF Runtime!Serving, Runtime!Leftover
<1>7. \A a : Runtime!Untouched(a) => Runtime!Untouched(a)'
  BY <1>1 DEF Runtime!Untouched, Runtime!Running
<1>8. Runtime!Cur' = Runtime!Cur
  BY <1>1 DEF Runtime!Cur
<1>9. Runtime!Rollback'
  BY <1>1, <1>6, <1>7, <1>8 DEF Runtime!IInv, Runtime!Rollback
<1>10. Runtime!RestoredMeansBefore'
  BY <1>1 DEF Runtime!IInv, Runtime!RestoredMeansBefore, Runtime!Running
<1> QED BY <1>2, <1>3, <1>5, <1>9, <1>10 DEF Runtime!IInv

(* The prices'.                                                              *)
LEMMA PricingStays ==
  ASSUME Pricing!IInv, UNCHANGED vars
  PROVE  Pricing!IInv'
<1>1. UNCHANGED <<s1, s2, s3, s4, s5, s6, s7, s8>>
  BY DEF vars
<1>2. \A n \in Sizes : Pricing!TierAt(n)' = Pricing!TierAt(n)
  BY <1>1 DEF Pricing!TierAt
<1>3. \A n \in Thresholds \cup {0} \cup Sizes : Pricing!Asked(n)' = Pricing!Asked(n)
  BY <1>1 DEF Pricing!Asked
<1>4. Pricing!TypeOK' /\ Pricing!Reading' /\ Pricing!Expressible' /\ Pricing!Negotiating'
      /\ Pricing!Increasing' = Pricing!Increasing
  BY <1>1
    DEF Pricing!IInv, Pricing!TypeOK, Pricing!Reading, Pricing!Expressible, Pricing!Negotiating,
     Pricing!Increasing
<1>5. Pricing!Left' = Pricing!Left
  BY <1>1 DEF Pricing!Left
<1>6. Pricing!Building'
  BY <1>1, <1>4, <1>5 DEF Pricing!IInv, Pricing!Building
<1>7. \A n \in Sizes : Pricing!Inherited(n)' = Pricing!Inherited(n)
  BY <1>1 DEF Pricing!Inherited, Pricing!Highest
<1>8. Pricing!Ascending' = Pricing!Ascending
  BY <1>1 DEF Pricing!Ascending
<1>9. Pricing!BilledAsListed'
  BY <1>1, <1>2, <1>3, <1>4, <1>7, <1>8
    DEF Pricing!IInv, Pricing!BilledAsListed, Pricing!Inexpressible
<1> QED BY <1>1, <1>4, <1>6, <1>9 DEF Pricing!IInv, Pricing!Tiers

(* Every tool begins with its invariant.                                     *)
LEMMA WorkstationInit == Init => IInv
  BY RuntimeInit, StoreInit, ReleaseInit, NotesInit, PythonInit, SyncInit, PricingInit,
     AcquisitionInit
    DEF Init, IInv

(* Every step is one of the tool in use.                                     *)
LEMMA WorkstationSteps ==
  ASSUME Next
  PROVE  /\ tool' = tool
         /\ tool = "runtime" => Runtime!Next
         /\ tool = "store" => Store!Next
         /\ tool = "release" => Release!Next
         /\ tool = "notes" => Notes!Next
         /\ tool = "python" => Python!Next
         /\ tool = "sync" => Sync!Next
         /\ tool = "pricing" => Pricing!Next
         /\ tool = "sources" => Acquisition!Next
  BY DEF Next

(* Every step keeps the invariant of the tool in use.                        *)
LEMMA WorkstationNext == ASSUME IInv, Next PROVE IInv'
  BY WorkstationSteps, RuntimeNext, StoreNext, ReleaseNext, NotesNext, PythonNext, SyncNext,
     PricingNext, AcquisitionNext DEF IInv

-----------------------------------------------------------------------------
(* The invariants of the tools hold of every behaviour.                      *)
THEOREM WorkstationInvariant == Spec => []IInv
<1>1. IInv /\ [Next]_vars => IInv'
  BY WorkstationNext, RuntimeStays, StoreStays, ReleaseStays, NotesStays, PythonStays, SyncStays,
     PricingStays, AcquisitionStays DEF IInv, vars
<1> QED BY WorkstationInit, <1>1, PTL DEF Spec

(* The types hold of every behaviour, whichever tool is in use.              *)
THEOREM WorkstationTypes == Spec => []TypeOK
<1>1. IInv => TypeOK
  BY DEF IInv, TypeOK, Runtime!IInv, Store!IInv, Release!IInv, Notes!IInv, Python!IInv,
     Sync!IInv, Pricing!IInv, Acquisition!IInv
<1> QED BY WorkstationInvariant, <1>1, PTL

(* A target never has an artifact but whole, the queue of downloads loses    *)
(* only what is installed, and what becomes installed is on the disk; a      *)
(* directory of an add-on's source is, for whoever was given it, the checkout *)
(* of one revision, however many callers share it and wherever one stops.    *)
THEOREM WholeCopies == Spec => CopiesAreWhole
<1>1. ASSUME IInv, IInv', Next
      PROVE  /\ tool = "store" => Store!ModelsAreWholeStep
             /\ tool = "sources" => Acquisition!SourcesAreWhole'
  <2>1. tool = "store" => Store!ModelsAreWholeStep
    BY <1>1, WorkstationSteps, StoreStep DEF IInv
  <2>2. tool = "sources" => Acquisition!SourcesAreWhole'
    BY <1>1, WorkstationSteps DEF IInv, Acquisition!IInv
  <2> QED BY <2>1, <2>2
<1>2. IInv /\ IInv' /\ [Next]_vars
      => [/\ tool = "store" => Store!ModelsAreWholeStep
          /\ tool = "sources" => Acquisition!SourcesAreWhole']_vars
  BY <1>1
<1> QED BY WorkstationInvariant, <1>2, PTL DEF Spec, CopiesAreWhole

(* A release and a tag of a package are made of the very commit that its     *)
(* checks passed for and that one operator approved, whoever else runs the   *)
(* same commands, and however often one is started again.                    *)
THEOREM AuthorisedReleases == Spec => ReleasesAreAuthorised
<1>1. ASSUME IInv, IInv', Next
      PROVE  /\ tool = "release" => Release!ReleasesAreAuthorisedStep
             /\ tool = "python" => Python!TagsAreEarnedStep
  BY <1>1, WorkstationSteps, ReleaseStep, PythonStep DEF IInv
<1>2. IInv /\ IInv' /\ [Next]_vars
      => [/\ tool = "release" => Release!ReleasesAreAuthorisedStep
          /\ tool = "python" => Python!TagsAreEarnedStep]_vars
  BY <1>1
<1> QED BY WorkstationInvariant, <1>2, PTL DEF Spec, ReleasesAreAuthorised

(* What finish-notes pushes has the text that the operator accepted, on the  *)
(* commit that was selected, whatever hooks and others do in between.        *)
THEOREM ReviewedNotes == Spec => PushedIsReviewed
<1>1. ASSUME IInv, Next PROVE tool = "notes" => Notes!PushedIsReviewedStep
  BY <1>1, WorkstationSteps, NotesStep DEF IInv
<1>2. IInv /\ [Next]_vars => [tool = "notes" => Notes!PushedIsReviewedStep]_vars
  BY <1>1
<1> QED BY WorkstationInvariant, <1>2, PTL DEF Spec, PushedIsReviewed

(* Between two runs of the catalog's command its files are the new ones, all *)
(* three, or those of before, unless the run reported what it left behind or *)
(* was killed, or Ctrl-C came while it was putting them back (UndoBreaks,    *)
(* which is FALSE here).                                                     *)
THEOREM WholeCatalogs == Spec => []WholeOrUntouched
<1>1. IInv => WholeOrUntouched
  BY DEF IInv, Sync!IInv, WholeOrUntouched
<1> QED BY WorkstationInvariant, <1>1, PTL

(* A finished schedule bills a prompt of every size, other than a threshold, *)
(* what the vendor's list asks for it with the overrides in the order of the *)
(* list (and so what the README has it ask, if the thresholds do not         *)
(* decrease), and leaves out nothing that it cannot express; and a model is  *)
(* refused only for what the list really says.                               *)
THEOREM BilledSchedules == Spec => []BilledAsListed
<1>1. IInv => BilledAsListed
  BY DEF IInv, Pricing!IInv, BilledAsListed
<1> QED BY WorkstationInvariant, <1>1, PTL

(* A rollback that is reported as done gave the alias its link back, and of  *)
(* its services those that ran before run, healthy, each on the model that   *)
(* is linked or on the one it has had all along.                             *)
THEOREM RestoredServices == Spec => []RestoredMeansBefore
<1>1. IInv => RestoredMeansBefore
  BY DEF IInv, Runtime!IInv, RestoredMeansBefore
<1> QED BY WorkstationInvariant, <1>1, PTL

(* A receipt is written only of what the target runs: a change that is not   *)
(* live stays pending, whatever fails or is interrupted.                     *)
THEOREM EarnedReceipts == Spec => ReceiptsEarned
<1>1. ASSUME IInv, Next PROVE tool = "runtime" => Runtime!ReceiptsEarnedStep
  BY <1>1, WorkstationSteps, RuntimeNext DEF IInv
<1>2. IInv /\ [Next]_vars => [tool = "runtime" => Runtime!ReceiptsEarnedStep]_vars
  BY <1>1
<1> QED BY WorkstationInvariant, <1>2, PTL DEF Spec, ReceiptsEarned
===============================================================================
