------------------------ MODULE OpenBaoBootstrapProofs ------------------------
(* Proofs about OpenBaoBootstrap, for any number of terminals, any        *)
(* selections of passwords, and any number of faults.                      *)
EXTENDS OpenBaoBootstrap, FiniteSetTheorems, TLAPS

(***************************************************************************)
(* The inductive invariant                                                 *)
(***************************************************************************)
(* Who prepares credentials does so alone, and every step belongs to the   *)
(* commands that reach it.                                                 *)
Preparing(o) == command[o] \in {"bootstrap", "reconcile"}

PreparersAlone == \A x, y \in Operators : Preparing(x) /\ Preparing(y) => x = y

BootstrapSteps == {"write_new", "create_seal", "inspect", "initialize", "record", "packages",
                   "seeded", "complete"}
PreparerSteps == {"endpoint", "stage", "deliver", "store", "list", "lookup", "expel", "handover"}

Belongs(o) ==
  /\ pc[o] = "idle" <=> command[o] = None
  /\ pc[o] # "idle" => selection[o] \in Selections
  /\ pc[o] \in BootstrapSteps => command[o] = "bootstrap"
  /\ pc[o] \in PreparerSteps => Preparing(o)
  /\ pc[o] = "accessors" => command[o] = "verify"

StepsBelong == \A o \in Operators : Belongs(o)

(* The file comes before the static seal, that before OpenBao, and OpenBao *)
(* with the first token; the packages are made of what the file has        *)
(* recorded.                                                               *)
Begun(k) == k.material \/ k.checkpoint # "seal-created"

SealFirst ==
  /\ sealSecret => seal \in Kit
  /\ initialized => sealSecret /\ minted >= 1
  /\ packages # {} => seal \in Kit /\ Begun(seal)

(* What a terminal at a step can rely on.                                  *)
AllStored(o) == \A p \in selection[o] : stored[p] # 0

Initialized(o) ==
  /\ seal \in Kit /\ seal.checkpoint # "seal-created"
  /\ command[o] = "bootstrap" => seal.checkpoint \in {"initialized", "seeded"}
  /\ command[o] = "reconcile" => seal.checkpoint = "complete"

Deliverable(o) ==
  IF seal.pending = NothingPending THEN AllStored(o)
  ELSE seal.bound = selection[o] /\ seal.acknowledged

Follows(o) ==
  /\ pc[o] = "write_new" => seal = None /\ ~sealSecret
  /\ pc[o] \in {"create_seal", "endpoint", "inspect"} => seal \in Kit
  /\ pc[o] = "endpoint" /\ command[o] = "reconcile" => seal.checkpoint = "complete"
  /\ pc[o] = "inspect" => sealSecret
  /\ pc[o] \in {"initialize", "record"} =>
       /\ seal \in Kit /\ seal.checkpoint = "seal-created" /\ ~seal.material
       /\ sealSecret /\ initialized = (pc[o] = "record")
  /\ pc[o] = "packages" => seal \in Kit /\ seal.material /\ initialized
  /\ pc[o] \in {"start_root", "first_share", "second_share"} \cup (PreparerSteps \ {"endpoint"}) =>
       Initialized(o)
  /\ pc[o] = "deliver" => seal.pending # NothingPending /\ seal.bound = selection[o]
  /\ pc[o] \in {"store", "list", "lookup", "expel", "handover"} => Deliverable(o)
  /\ pc[o] \in {"list", "lookup", "expel", "handover"} => Unstored = {}
  /\ pc[o] = "seeded" =>
       /\ seal \in Kit /\ seal.checkpoint = "initialized"
       /\ seal.pending = NothingPending /\ AllStored(o)
  /\ fate[o] => pc[o] \in {"revoke", "complete"}
  /\ pc[o] = "complete" \/ (pc[o] = "revoke" /\ fate[o] /\ command[o] = "bootstrap") =>
       seal \in Kit /\ seal.checkpoint = "seeded"

StepsFollow == \A o \in Operators : Follows(o)

(* A pending value belongs to a password that is not stored yet, or is     *)
(* stored with this value; what the selection asks for is one or the other;*)
(* the acknowledgement covers all of them.                                 *)
PendingStands ==
  HasKit =>
    /\ seal.pending # NothingPending =>
         /\ seal.bound \in Selections
         /\ \A p \in seal.bound : seal.pending[p] # 0 \/ stored[p] # 0
    /\ \A p \in PendingPasswords : /\ stored[p] \in {0, seal.pending[p]}
                                   /\ seal.acknowledged => seal.pending[p] \in saved[p]

(* What was shown is the value that is pending or stored.                  *)
ShownStands ==
  \A p \in Passwords :
    /\ saved[p] \subseteq shown[p]
    /\ \A v \in shown[p] : stored[p] = v \/ (HasKit /\ seal.pending[p] = v)
    /\ stored[p] # 0 => stored[p] \in saved[p]

(* From the listing on, the tokens that live are the terminal's own, the   *)
(* listed ones it has still to revoke, and those minted since.             *)
Listing(o) ==
  /\ listed[o] <= minted
  /\ pc[o] \in {"lookup", "expel"} =>
       \A t \in roots : t > listed[o] \/ t = root[o] \/ t \in others[o]
  /\ pc[o] \in {"handover", "seeded"} \/ (pc[o] = "revoke" /\ fate[o] /\ command[o] = "bootstrap") =>
       \A t \in roots : t > listed[o] \/ t = root[o]
  /\ pc[o] = "complete" => \A t \in roots : t > listed[o]

TokensListed == \A o \in Operators : Listing(o)

IInv ==
  /\ TypeOK /\ RecordsAgree /\ PreparersAlone /\ StepsBelong /\ SealFirst /\ StepsFollow
  /\ PendingStands /\ ShownStands /\ TokensListed
Step(o) == Launch(o) \/ GenerateRoot(o) \/ Prepare(o) \/ Fail(o) \/ Crash(o)

(***************************************************************************)
(* The seal file                                                           *)
(***************************************************************************)
LEMMA PasswordsOf == \A s \in Selections : s \subseteq Passwords /\ Base \subseteq s
BY BootstrapAssumption DEF Passwords

LEMMA KitFields ==
  ASSUME NEW k \in Kit
  PROVE  /\ k.checkpoint \in Checkpoints /\ k.material \in BOOLEAN
         /\ k.pending \in [Passwords -> 0..MaxValues]
         /\ k.bound \in Selections \cup {None} /\ k.acknowledged \in BOOLEAN
         /\ k.material => k.checkpoint = "seal-created"
         /\ k.pending = NothingPending => ~k.acknowledged /\ k.bound = None
         /\ k.pending # NothingPending => k.checkpoint \in {"initialized", "complete"}
BY DEF Kit

KitRecord == [checkpoint : Checkpoints, material : BOOLEAN, pending : [Passwords -> 0..MaxValues],
              bound : Selections \cup {None}, acknowledged : BOOLEAN]

LEMMA KitOf ==
  ASSUME NEW k \in KitRecord,
         k.material => k.checkpoint = "seal-created",
         k.pending = NothingPending => ~k.acknowledged /\ k.bound = None,
         k.pending # NothingPending => k.checkpoint \in {"initialized", "complete"}
  PROVE  k \in Kit
BY DEF Kit, KitRecord

LEMMA NothingType == NothingPending \in [Passwords -> 0..MaxValues]
BY BootstrapAssumption DEF NothingPending

LEMMA NewKitType ==
  NewKit \in Kit /\ NewKit.checkpoint = "seal-created" /\ ~NewKit.material /\ NewKit.pending = NothingPending
<1>1. NewKit \in KitRecord
  BY NothingType DEF NewKit, Checkpoints, KitRecord
<1>2. /\ NewKit.checkpoint = "seal-created" /\ ~NewKit.material /\ NewKit.pending = NothingPending
      /\ ~NewKit.acknowledged /\ NewKit.bound = None
  BY DEF NewKit
<1> QED
  BY <1>1, <1>2, KitOf

LEMMA KitOrNone == TypeOK => (HasKit <=> seal \in Kit)
BY AbsenceAssumption DEF TypeOK, HasKit

LEMMA PendingMeans ==
  ASSUME seal \in Kit
  PROVE  seal.pending = NothingPending <=> PendingPasswords = {}
<1>1. seal.pending \in [Passwords -> 0..MaxValues]
  BY KitFields
<1> QED
  BY <1>1 DEF PendingPasswords, NothingPending
(***************************************************************************)
(* What the steps that write the seal file leave in it                     *)
(***************************************************************************)
Holds(k, c, m, f, b, a) ==
  /\ k \in Kit /\ k.checkpoint = c /\ k.material = m
  /\ k.pending = f /\ k.bound = b /\ k.acknowledged = a

LEMMA RecordWrites ==
  ASSUME IInv, NEW o \in Operators, Record(o)
  PROVE  /\ seal \in Kit /\ seal.checkpoint = "seal-created"
         /\ Holds(seal', "seal-created", TRUE, seal.pending, seal.bound, seal.acknowledged)
<1>1. seal \in Kit /\ seal.checkpoint = "seal-created"
  BY DEF Record, Goto, IInv, StepsFollow, Follows
<1>2. seal' = [seal EXCEPT !.material = TRUE]
  BY DEF Record
<1>3. /\ seal' \in KitRecord /\ seal'.checkpoint = "seal-created" /\ seal'.material
      /\ seal'.pending = seal.pending /\ seal'.bound = seal.bound
      /\ seal'.acknowledged = seal.acknowledged
  BY <1>1, <1>2 DEF Kit, KitRecord
<1> QED
  BY <1>1, <1>3, KitFields, KitOf DEF Holds

LEMMA PackagedWrites ==
  ASSUME IInv, NEW o \in Operators, Packaged(o)
  PROVE  /\ seal \in Kit /\ seal.material /\ seal.pending = NothingPending
         /\ Holds(seal', "initialized", FALSE, seal.pending, seal.bound, seal.acknowledged)
<1>1. seal \in Kit /\ seal.material /\ seal.pending = NothingPending
  BY KitFields DEF Packaged, Goto, IInv, StepsFollow, Follows
<1>2. seal' = [seal EXCEPT !.checkpoint = "initialized", !.material = FALSE]
  BY DEF Packaged
<1>3. /\ seal' \in KitRecord /\ seal'.checkpoint = "initialized" /\ seal'.material = FALSE
      /\ seal'.pending = seal.pending /\ seal'.bound = seal.bound
      /\ seal'.acknowledged = seal.acknowledged
  BY <1>1, <1>2 DEF Kit, KitRecord, Checkpoints
<1> QED
  BY <1>1, <1>3, KitFields, KitOf DEF Holds

LEMMA StageWrites ==
  ASSUME IInv, NEW o \in Operators, Stage(o)
  PROVE  /\ seal \in Kit /\ seal.pending = NothingPending /\ Planned(o) \subseteq Passwords
         /\ Planned(o) # {} /\ generated + 1 \in 1..MaxValues
         /\ Holds(seal', seal.checkpoint, seal.material,
                  [p \in Passwords |-> IF p \in Planned(o) THEN generated + 1 ELSE 0],
                  selection[o], FALSE)
         /\ seal'.pending # NothingPending
<1> DEFINE f == [p \in Passwords |-> IF p \in Planned(o) THEN generated + 1 ELSE 0]
<1>1. seal \in Kit /\ seal.pending = NothingPending /\ Initialized(o)
  <2>1. seal \in Kit /\ Initialized(o)
    BY DEF Stage, Work, Goto, IInv, StepsFollow, Follows, Initialized, PreparerSteps
  <2> QED
    BY <2>1, PendingMeans DEF Stage
<1>2. selection[o] \in Selections /\ selection[o] \subseteq Passwords
  BY PasswordsOf DEF Stage, Work, Goto, IInv, StepsBelong, Belongs
<1>3. Planned(o) \subseteq Passwords /\ Planned(o) # {} /\ generated + 1 \in 1..MaxValues
  BY <1>2, BootstrapAssumption DEF Stage, Planned, IInv, TypeOK
<1>4. f \in [Passwords -> 0..MaxValues] /\ f # NothingPending
  <2>1. generated + 1 \in 0..MaxValues /\ 0 \in 0..MaxValues /\ generated + 1 # 0
    BY <1>3, BootstrapAssumption
  <2>2. f \in [Passwords -> 0..MaxValues]
    BY <2>1
  <2>3. PICK p \in Passwords : p \in Planned(o)
    BY <1>3
  <2>4. f[p] = generated + 1 /\ NothingPending[p] = 0
    BY <2>3 DEF NothingPending
  <2> QED
    BY <2>1, <2>2, <2>4
<1>5. seal' = [seal EXCEPT !.pending = f, !.bound = selection[o], !.acknowledged = FALSE]
  BY DEF Stage, Staged
<1> HIDE DEF f
<1>6. /\ seal' \in KitRecord /\ seal'.checkpoint = seal.checkpoint /\ seal'.material = seal.material
      /\ seal'.pending = f /\ seal'.bound = selection[o] /\ seal'.acknowledged = FALSE
  BY <1>1, <1>2, <1>4, <1>5 DEF Kit, KitRecord
<1>7. seal.checkpoint \in {"initialized", "complete"}
  BY DEF Stage
<1>8. seal' \in Kit
  BY <1>1, <1>4, <1>6, <1>7, KitFields, KitOf
<1> QED
  BY <1>1, <1>3, <1>4, <1>6, <1>8 DEF Holds, f

LEMMA AcknowledgeWrites ==
  ASSUME IInv, NEW o \in Operators, Acknowledge(o)
  PROVE  /\ seal \in Kit /\ seal.pending # NothingPending
         /\ Holds(seal', seal.checkpoint, seal.material, seal.pending, seal.bound, TRUE)
<1>1. seal \in Kit /\ seal.pending # NothingPending
  BY DEF Acknowledge, Work, Goto, IInv, StepsFollow, Follows, Initialized, PreparerSteps
<1>2. seal' = [seal EXCEPT !.acknowledged = TRUE]
  BY DEF Acknowledge
<1>3. /\ seal' \in KitRecord /\ seal'.checkpoint = seal.checkpoint /\ seal'.material = seal.material
      /\ seal'.pending = seal.pending /\ seal'.bound = seal.bound /\ seal'.acknowledged = TRUE
  BY <1>1, <1>2 DEF Kit, KitRecord
<1> QED
  BY <1>1, <1>3, KitFields, KitOf DEF Holds

(* What was pending is delivered when all of it is stored.                 *)
LEMMA DeliveredIs ==
  ASSUME seal \in Kit
  PROVE  Holds(Delivered, seal.checkpoint, seal.material, NothingPending, None, FALSE)
<1>1. /\ Delivered \in KitRecord /\ Delivered.checkpoint = seal.checkpoint
      /\ Delivered.material = seal.material /\ Delivered.pending = NothingPending
      /\ Delivered.bound = None /\ Delivered.acknowledged = FALSE
  BY NothingType DEF Delivered, Kit, KitRecord
<1> QED
  BY <1>1, KitFields, KitOf DEF Holds

LEMMA HandoverWrites ==
  ASSUME IInv, NEW o \in Operators, Handover(o)
  PROVE  /\ seal \in Kit /\ Initialized(o) /\ Persisted
         /\ Holds(seal', seal.checkpoint, seal.material, NothingPending, None, FALSE)
<1>1. seal \in Kit /\ Initialized(o) /\ Unstored = {}
  BY DEF Handover, Goto, Dismiss, IInv, StepsFollow, Follows, Initialized, PreparerSteps
<1>2. Persisted
  BY <1>1, KitOrNone, KitFields DEF Persisted, IInv, TypeOK, PendingStands, Unstored, PendingPasswords
<1>3. seal' = IF PendingPasswords = {} THEN seal ELSE Delivered
  BY <1>2 DEF Handover
<1>4. CASE PendingPasswords = {}
  <2>1. seal' = seal /\ seal.pending = NothingPending
    BY <1>1, <1>3, <1>4, PendingMeans
  <2> QED
    BY <1>1, <1>2, <2>1, KitFields DEF Holds
<1>5. CASE PendingPasswords # {}
  BY <1>1, <1>2, <1>3, <1>5, DeliveredIs
<1> QED
  BY <1>4, <1>5

LEMMA SeededWrites ==
  ASSUME IInv, NEW o \in Operators, Seeded(o)
  PROVE  /\ seal \in Kit /\ seal.checkpoint = "initialized" /\ seal.pending = NothingPending
         /\ Holds(seal', "seeded", FALSE, NothingPending, None, FALSE)
<1>1. seal \in Kit /\ seal.checkpoint = "initialized" /\ seal.pending = NothingPending
  BY DEF Seeded, Goto, IInv, StepsFollow, Follows
<1>2. Holds(Delivered, "initialized", FALSE, NothingPending, None, FALSE)
  BY <1>1, DeliveredIs, KitFields
<1>3. seal' = [Delivered EXCEPT !.checkpoint = "seeded"]
  BY DEF Seeded
<1> HIDE DEF Delivered
<1>4. /\ seal' \in KitRecord /\ seal'.checkpoint = "seeded" /\ seal'.material = FALSE
      /\ seal'.pending = NothingPending /\ seal'.bound = None /\ seal'.acknowledged = FALSE
  BY <1>2, <1>3 DEF Holds, Kit, KitRecord, Checkpoints
<1> QED
  BY <1>1, <1>4, KitOf DEF Holds

LEMMA CompleteWrites ==
  ASSUME IInv, NEW o \in Operators, Complete(o)
  PROVE  /\ seal \in Kit /\ seal.checkpoint = "seeded"
         /\ Holds(seal', "complete", FALSE, seal.pending, seal.bound, seal.acknowledged)
<1>1. seal \in Kit /\ seal.checkpoint = "seeded"
  BY DEF Complete, IInv, StepsFollow, Follows
<1>2. seal' = [seal EXCEPT !.checkpoint = "complete"]
  BY DEF Complete
<1>3. /\ seal' \in KitRecord /\ seal'.checkpoint = "complete" /\ seal'.material = seal.material
      /\ seal'.pending = seal.pending /\ seal'.bound = seal.bound
      /\ seal'.acknowledged = seal.acknowledged
  BY <1>1, <1>2 DEF Kit, KitRecord, Checkpoints
<1> QED
  BY <1>1, <1>3, KitFields, KitOf DEF Holds
(***************************************************************************)
(* Frames                                                                  *)
(***************************************************************************)
(* The steps that change neither files, nor OpenBao's contents, nor what a *)
(* human saw.                                                              *)
SameWorld == UNCHANGED <<seal, packages, sealSecret, initialized, stored, generated, shown, saved>>

Quiet(o) ==
  \/ \E c \in Commands, s \in Selections : Start(o, c, s)
  \/ Load(o) \/ LoadRefused(o) \/ WaitEndpoint(o) \/ EndpointTimeout(o)
  \/ Inspect(o) \/ InspectRefused(o) \/ GenerateRoot(o) \/ InspectAccessors(o)
  \/ StageNothing(o) \/ StageRefused(o) \/ StoreEnds(o)
  \/ List(o) \/ Lookup(o) \/ Relist(o) \/ Expel(o) \/ Expelled(o)
  \/ RevokeSelf(o) \/ RevokeAndEnd(o) \/ RevokeRefused(o) \/ Fail(o) \/ Crash(o)

Writes(o) ==
  \/ WriteNew(o) \/ TearSealFile(o) \/ CreateSeal(o) \/ Initialize(o) \/ Record(o)
  \/ WritePackage(o) \/ Packaged(o) \/ Stage(o) \/ Show(o) \/ Acknowledge(o) \/ Store(o)
  \/ Handover(o) \/ Seeded(o) \/ Complete(o)

LEMMA StepCases == ASSUME NEW o \in Operators, Step(o) PROVE Quiet(o) \/ Writes(o)
BY DEF Step, Launch, Prepare, Quiet, Writes

LEMMA QuietFrame == ASSUME NEW o \in Operators, Quiet(o) PROVE SameWorld
<1>1. CASE \E c \in Commands, s \in Selections : Start(o, c, s)
  BY <1>1 DEF Start, SameFiles, SameBao, SameRest, remoteVars, historyVars, SameWorld
<1>2. CASE GenerateRoot(o)
  BY <1>2 DEF GenerateRoot, StartRoot, StartRootRefused, FirstShare, SecondShare, ShareRejected,
     ShareUnanswered, Cancel, SameFiles, SameBao, SameRest, remoteVars, historyVars, SameWorld
<1>3. CASE \/ Load(o) \/ LoadRefused(o) \/ WaitEndpoint(o) \/ EndpointTimeout(o)
           \/ Inspect(o) \/ InspectRefused(o) \/ InspectAccessors(o)
           \/ StageNothing(o) \/ StageRefused(o) \/ StoreEnds(o)
  BY <1>3 DEF Load, LoadRefused, WaitEndpoint, EndpointTimeout, Inspect, InspectRefused,
     InspectAccessors, StageNothing, StageRefused, StoreEnds, SameFiles, SameBao, SameRest,
     remoteVars, historyVars, SameWorld
<1>4. CASE \/ List(o) \/ Lookup(o) \/ Relist(o) \/ Expel(o) \/ Expelled(o)
           \/ RevokeSelf(o) \/ RevokeAndEnd(o) \/ RevokeRefused(o) \/ Fail(o) \/ Crash(o)
  BY <1>4 DEF List, Lookup, Relist, Expel, Expelled, RevokeSelf, RevokeAndEnd, RevokeRefused, Fail,
     Crash, SameFiles, SameBao, SameRest, remoteVars, historyVars, SameWorld
<1> QED
  BY <1>1, <1>2, <1>3, <1>4 DEF Quiet

(* Only who prepares credentials writes.                                   *)
LEMMA WritersPrepare == ASSUME IInv, NEW o \in Operators, Writes(o) PROVE Preparing(o)
<1>1. pc[o] \in BootstrapSteps \cup PreparerSteps
  BY DEF Writes, WriteNew, TearSealFile, CreateSeal, Initialize, Record, WritePackage, Packaged,
     Stage, Show, Acknowledge, Store, Handover, Seeded, Complete, Goto, Work, BootstrapSteps,
     PreparerSteps, Dismiss
<1> QED
  BY <1>1 DEF IInv, StepsBelong, Belongs, Preparing

(* A step at one terminal is not a step at another.                        *)
SameAt(x) == /\ pc'[x] = pc[x] /\ command'[x] = command[x] /\ selection'[x] = selection[x]
             /\ root'[x] = root[x] /\ others'[x] = others[x] /\ fate'[x] = fate[x]
             /\ listed'[x] = listed[x]

LEMMA OthersFrame ==
  ASSUME TypeOK, NEW o \in Operators, Step(o), NEW x \in Operators, x # o
  PROVE  SameAt(x)
<1>0. /\ DOMAIN pc = Operators /\ DOMAIN command = Operators /\ DOMAIN selection = Operators
      /\ DOMAIN root = Operators /\ DOMAIN others = Operators /\ DOMAIN fate = Operators
      /\ DOMAIN listed = Operators
  BY DEF TypeOK
<1>1. CASE Launch(o)
  BY <1>0, <1>1 DEF Launch, Start, Load, LoadRefused, WriteNew, TearSealFile, CreateSeal,
     WaitEndpoint, EndpointTimeout, Inspect, InspectRefused, Initialize, Record, WritePackage,
     Packaged, Goto, End, localVars, SameAt
<1>2. CASE GenerateRoot(o)
  BY <1>0, <1>2 DEF GenerateRoot, StartRoot, StartRootRefused, FirstShare, SecondShare,
     ShareRejected, ShareUnanswered, Cancel, Goto, End, localVars, SameAt
<1>3. CASE \/ InspectAccessors(o) \/ Stage(o) \/ StageNothing(o) \/ StageRefused(o) \/ Show(o)
           \/ Acknowledge(o) \/ Store(o) \/ StoreEnds(o)
  BY <1>0, <1>3 DEF InspectAccessors, Stage, StageNothing, StageRefused, Show, Acknowledge, Store,
     StoreEnds, Goto, Work, Dismiss, localVars, SameAt
<1>4. CASE \/ List(o) \/ Lookup(o) \/ Relist(o) \/ Expel(o) \/ Expelled(o)
           \/ Handover(o) \/ Seeded(o)
  BY <1>0, <1>4 DEF List, Lookup, Relist, Expel, Expelled, Handover, Seeded,
     Goto, Work, Dismiss, localVars, SameAt
<1>5. CASE \/ RevokeSelf(o) \/ RevokeAndEnd(o) \/ RevokeRefused(o) \/ Complete(o)
           \/ Fail(o) \/ Crash(o)
  BY <1>0, <1>5 DEF RevokeSelf, RevokeAndEnd, RevokeRefused, Complete, Fail, Crash,
     Goto, End, Dismiss, localVars, SameAt
<1> QED
  BY <1>1, <1>2, <1>3, <1>4, <1>5 DEF Step, Prepare
(***************************************************************************)
(* Types                                                                   *)
(***************************************************************************)
FileTypes == seal \in {None, Torn} \cup Kit /\ packages \subseteq Shares
BaoTypes ==
  /\ sealSecret \in BOOLEAN /\ initialized \in BOOLEAN
  /\ stored \in [Passwords -> 0..MaxValues]
  /\ generated \in 0..MaxValues
TokenTypes ==
  /\ attempt \in {None} \cup [by : Operators, given : 0..1]
  /\ minted \in 0..MaxTokens /\ roots \subseteq 1..minted
  /\ faults \in 0..MaxFaults
StepTypes == pc \in [Operators -> Steps] /\ command \in [Operators -> Commands \cup {None}]
             /\ selection \in [Operators -> Selections \cup {None}]
HeldTypes ==
  /\ root \in [Operators -> 0..MaxTokens]
  /\ others \in [Operators -> SUBSET Tokens]
  /\ fate \in [Operators -> BOOLEAN]
  /\ listed \in [Operators -> 0..MaxTokens]
HistoryTypes ==
  /\ shown \in [Passwords -> SUBSET (1..MaxValues)]
  /\ saved \in [Passwords -> SUBSET (1..MaxValues)]
  /\ lost \in BOOLEAN
  /\ refusal \in Earned \cup Unearned

LEMMA TypeParts ==
  TypeOK <=> FileTypes /\ BaoTypes /\ TokenTypes /\ StepTypes /\ HeldTypes /\ HistoryTypes
BY DEF TypeOK, FileTypes, BaoTypes, TokenTypes, StepTypes, HeldTypes, HistoryTypes

LEMMA FileTypesStep == ASSUME IInv, NEW o \in Operators, Step(o) PROVE FileTypes'
<1>0. seal \in {None, Torn} \cup Kit /\ packages \subseteq Shares
  BY DEF IInv, TypeOK
<1>1. CASE Quiet(o)
  BY <1>0, <1>1, QuietFrame DEF SameWorld, FileTypes
<1>2. CASE WriteNew(o) \/ TearSealFile(o)
  BY <1>0, <1>2, NewKitType DEF WriteNew, TearSealFile, FileTypes
<1>3. CASE CreateSeal(o) \/ Initialize(o) \/ Show(o) \/ Store(o)
  BY <1>0, <1>3 DEF CreateSeal, Initialize, Show, Store, SameFiles, FileTypes
<1>4. CASE WritePackage(o)
  BY <1>0, <1>4 DEF WritePackage, FileTypes
<1>5. CASE Record(o)
  BY <1>0, <1>5, RecordWrites DEF Holds, Record, FileTypes
<1>6. CASE Packaged(o)
  BY <1>0, <1>6, PackagedWrites DEF Holds, Packaged, FileTypes
<1>7. CASE Stage(o)
  BY <1>0, <1>7, StageWrites DEF Holds, Stage, FileTypes
<1>8. CASE Acknowledge(o)
  BY <1>0, <1>8, AcknowledgeWrites DEF Holds, Acknowledge, FileTypes
<1>9. CASE Handover(o)
  BY <1>0, <1>9, HandoverWrites DEF Holds, Handover, FileTypes
<1>10. CASE Seeded(o)
  BY <1>0, <1>10, SeededWrites DEF Holds, Seeded, FileTypes
<1>11. CASE Complete(o)
  BY <1>0, <1>11, CompleteWrites DEF Holds, Complete, FileTypes
<1> QED
  BY <1>1, <1>2, <1>3, <1>4, <1>5, <1>6, <1>7, <1>8, <1>9, <1>10, <1>11, StepCases DEF Writes

LEMMA BaoTypesStep == ASSUME IInv, NEW o \in Operators, Step(o) PROVE BaoTypes'
<1>0. BaoTypes
  BY TypeParts DEF IInv
<1>1. CASE Quiet(o)
  BY <1>0, <1>1, QuietFrame DEF SameWorld, BaoTypes
<1>2. CASE CreateSeal(o) \/ Initialize(o)
  BY <1>0, <1>2 DEF CreateSeal, Initialize, SameRest, BaoTypes
<1>3. CASE Stage(o)
  <2>1. generated + 1 \in 1..MaxValues
    BY <1>3, StageWrites
  <2>2. generated + 1 \in 0..MaxValues
    BY <2>1, BootstrapAssumption
  <2> QED
    BY <1>0, <1>3, <2>2 DEF Stage, SameBao, remoteVars, BaoTypes
<1>4. CASE Store(o)
  <2>1. seal \in Kit
    BY <1>4 DEF Store, IInv, StepsFollow, Follows, Initialized, PreparerSteps
  <2>2. PICK p \in Passwords : stored' = [stored EXCEPT ![p] = seal.pending[p]]
    BY <1>4 DEF Store, Unstored, PendingPasswords
  <2>3. seal.pending[p] \in 0..MaxValues
    BY <2>1, KitFields
  <2> QED
    BY <1>0, <1>4, <2>2, <2>3 DEF Store, SameRest, BaoTypes
<1>5. CASE WriteNew(o) \/ TearSealFile(o) \/ Record(o) \/ WritePackage(o) \/ Packaged(o) \/ Show(o)
           \/ Acknowledge(o) \/ Handover(o) \/ Seeded(o) \/ Complete(o)
  BY <1>0, <1>5 DEF WriteNew, TearSealFile, Record, WritePackage, Packaged, Show, Acknowledge,
     Handover, Seeded, Complete, SameBao, SameRest, remoteVars, BaoTypes
<1> QED
  BY <1>1, <1>2, <1>3, <1>4, <1>5, StepCases DEF Writes

(* Tokens are minted in turn.                                              *)
LEMMA MintTypes == ASSUME TypeOK, Mint PROVE minted' \in 0..MaxTokens /\ roots' \subseteq 1..minted'
BY BootstrapAssumption DEF Mint, TypeOK

LEMMA TokenTypesStep == ASSUME IInv, NEW o \in Operators, Step(o) PROVE TokenTypes'
<1>0. TokenTypes /\ TypeOK
  BY TypeParts DEF IInv
<1>1. /\ [by |-> o, given |-> 0] \in [by : Operators, given : 0..1]
      /\ [by |-> o, given |-> 1] \in [by : Operators, given : 0..1]
  OBVIOUS
<1>2. Fault => faults' \in 0..MaxFaults
  BY <1>0, BootstrapAssumption DEF Fault, TokenTypes
<1>3. CASE StartRoot(o) \/ FirstShare(o)
  BY <1>0, <1>1, <1>3 DEF StartRoot, FirstShare, SameRest, TokenTypes
<1>4. CASE SecondShare(o) \/ ShareUnanswered(o) \/ Cancel(o) \/ Initialize(o)
  BY <1>0, <1>2, <1>4, MintTypes DEF SecondShare, ShareUnanswered, Cancel, Initialize, SameRest,
     tokenVars, TokenTypes
<1>5. CASE Launch(o) /\ ~Initialize(o)
  BY <1>0, <1>2, <1>5 DEF Launch, Start, Load, LoadRefused, WriteNew, TearSealFile, CreateSeal,
     WaitEndpoint, EndpointTimeout, Inspect, InspectRefused, Record, WritePackage,
     Packaged, SameBao, SameRest, tokenVars, TokenTypes
<1>6. CASE StartRootRefused(o) \/ ShareRejected(o)
  BY <1>0, <1>6 DEF StartRootRefused, ShareRejected, SameBao, SameRest, tokenVars, TokenTypes
<1>7. CASE Prepare(o)
  BY <1>0, <1>7 DEF Prepare, InspectAccessors, Stage, StageNothing, StageRefused, Show, Acknowledge,
     Store, StoreEnds, List, Lookup, Relist, Expel, Expelled, Handover, Seeded, RevokeSelf,
     RevokeAndEnd, RevokeRefused, Complete, SameBao, SameRest, tokenVars, TokenTypes
<1>8. CASE Fail(o) \/ Crash(o)
  BY <1>0, <1>2, <1>8 DEF Fail, Crash, SameBao, tokenVars, TokenTypes
<1> QED
  BY <1>3, <1>4, <1>5, <1>6, <1>7, <1>8 DEF Step, GenerateRoot
LEMMA NextStep ==
  /\ \A o \in Operators : AfterHandover(o) \in Steps /\ AfterLoad(o) \in Steps
  /\ AfterInspect \in Steps
BY DEF AfterHandover, AfterLoad, AfterInspect, Steps, Guarded

LEMMA StepTypesStep == ASSUME IInv, NEW o \in Operators, Step(o) PROVE StepTypes'
<1>0. StepTypes
  BY TypeParts DEF IInv
<1> USE DEF StepTypes
<1>1. ASSUME NEW r, End(o, r) PROVE StepTypes'
  BY <1>0, <1>1 DEF End, Steps
<1>2. CASE \E c \in Commands, s \in Selections : Start(o, c, s)
  <2>1. PICK c \in Commands, s \in Selections : Start(o, c, s)
    BY <1>2
  <2> QED
    BY <1>0, <2>1 DEF Start, Goto, Steps
<1>3. CASE \/ LoadRefused(o) \/ TearSealFile(o) \/ EndpointTimeout(o) \/ InspectRefused(o)
           \/ StartRootRefused(o) \/ Cancel(o) \/ RevokeAndEnd(o) \/ RevokeRefused(o)
           \/ Complete(o) \/ Crash(o)
  BY <1>1, <1>3 DEF LoadRefused, TearSealFile, EndpointTimeout, InspectRefused, StartRootRefused,
     Cancel, RevokeAndEnd, RevokeRefused, Complete, Crash
<1>4. CASE \/ Load(o) \/ WriteNew(o) \/ CreateSeal(o) \/ WaitEndpoint(o) \/ Inspect(o)
           \/ Initialize(o) \/ Record(o) \/ WritePackage(o) \/ Packaged(o)
  BY <1>0, <1>4, NextStep DEF Load, WriteNew, CreateSeal, WaitEndpoint, Inspect, Initialize, Record,
     WritePackage, Packaged, Goto, localVars, Steps, Guarded
<1>5. CASE \/ StartRoot(o) \/ FirstShare(o) \/ SecondShare(o) \/ ShareRejected(o)
           \/ ShareUnanswered(o)
  BY <1>0, <1>5 DEF StartRoot, FirstShare, SecondShare, ShareRejected, ShareUnanswered, Goto,
     localVars, Steps, Guarded
<1>6. CASE \/ InspectAccessors(o) \/ Stage(o) \/ StageNothing(o) \/ StageRefused(o) \/ Show(o)
           \/ Acknowledge(o) \/ Store(o) \/ StoreEnds(o) \/ Fail(o)
  BY <1>0, <1>6 DEF InspectAccessors, Stage, StageNothing, StageRefused, Show, Acknowledge, Store,
     StoreEnds, Fail, Goto, Work, Dismiss, localVars, Steps, Guarded
<1>7. CASE \/ List(o) \/ Lookup(o) \/ Relist(o) \/ Expel(o) \/ Expelled(o)
           \/ Seeded(o) \/ RevokeSelf(o)
  BY <1>0, <1>7 DEF List, Lookup, Relist, Expel, Expelled, Seeded, RevokeSelf, Goto,
     Work, Dismiss, localVars, Steps, Guarded
<1>8. CASE Handover(o)
  BY <1>0, <1>8, NextStep DEF Handover, Goto, Dismiss, Steps
<1> QED
  BY <1>2, <1>3, <1>4, <1>5, <1>6, <1>7, <1>8 DEF Step, Launch, GenerateRoot, Prepare
LEMMA HeldTypesStep == ASSUME IInv, NEW o \in Operators, Step(o) PROVE HeldTypes'
<1>0. /\ HeldTypes /\ minted \in 0..MaxTokens /\ minted' \in 0..MaxTokens
      /\ roots \subseteq Tokens /\ MaxTokens \in Nat
  <2>1. HeldTypes /\ minted \in 0..MaxTokens /\ roots \subseteq 1..minted
    BY TypeParts DEF IInv, TypeOK
  <2>2. minted' \in 0..MaxTokens
    BY TokenTypesStep DEF TokenTypes
  <2> QED
    BY <2>1, <2>2, BootstrapAssumption DEF Tokens
<1> USE DEF HeldTypes
<1>1. ASSUME NEW r, End(o, r) PROVE HeldTypes'
  BY <1>0, <1>1 DEF End
<1>2. CASE UNCHANGED <<root, others, fate, listed>>
  BY <1>0, <1>2
<1>3. CASE \/ LoadRefused(o) \/ TearSealFile(o) \/ EndpointTimeout(o) \/ InspectRefused(o)
           \/ StartRootRefused(o) \/ Cancel(o) \/ RevokeAndEnd(o) \/ RevokeRefused(o)
           \/ Complete(o) \/ Crash(o)
  BY <1>1, <1>3 DEF LoadRefused, TearSealFile, EndpointTimeout, InspectRefused, StartRootRefused,
     Cancel, RevokeAndEnd, RevokeRefused, Complete, Crash
<1>4. CASE Inspect(o)
  <2>1. AfterInspect = "packages" => InitialToken \in 0..MaxTokens
    <3>1. AfterInspect = "packages" => initialized
      BY DEF AfterInspect
    <3>2. initialized => minted >= 1
      BY DEF IInv, SealFirst
    <3> QED
      BY <1>0, <3>1, <3>2 DEF InitialToken
  <2> QED
    BY <1>0, <1>4, <2>1 DEF Inspect
<1>5. CASE Initialize(o) \/ SecondShare(o)
  BY <1>0, <1>5 DEF Initialize, SecondShare, Mint
<1>6. CASE InspectAccessors(o) \/ Handover(o) \/ Seeded(o)
  BY <1>0, <1>6 DEF InspectAccessors, Handover, Seeded
<1>7. CASE List(o)
  BY <1>0, <1>7 DEF List
<1>8. CASE Expel(o)
  BY <1>0, <1>8 DEF Expel
<1>9. CASE (\E c \in Commands, s \in Selections : Start(o, c, s)) \/ ShareRejected(o)
           \/ ShareUnanswered(o) \/ StartRoot(o) \/ FirstShare(o) \/ Load(o) \/ WriteNew(o)
           \/ CreateSeal(o) \/ WaitEndpoint(o) \/ Record(o) \/ WritePackage(o) \/ Packaged(o)
  BY <1>2, <1>9 DEF Start, ShareRejected, ShareUnanswered, StartRoot, FirstShare, Load, WriteNew,
     CreateSeal, WaitEndpoint, Record, WritePackage, Packaged, localVars
<1>10. CASE \/ Stage(o) \/ StageNothing(o) \/ StageRefused(o) \/ Show(o) \/ Acknowledge(o)
            \/ Store(o) \/ StoreEnds(o) \/ Lookup(o) \/ Relist(o) \/ Expelled(o)
            \/ RevokeSelf(o) \/ Fail(o)
  BY <1>2, <1>10 DEF Stage, StageNothing, StageRefused, Show, Acknowledge, Store, StoreEnds, Lookup,
     Relist, Expelled, RevokeSelf, Fail, localVars
<1> QED
  BY <1>3, <1>4, <1>5, <1>6, <1>7, <1>8, <1>9, <1>10 DEF Step, Launch, GenerateRoot, Prepare

LEMMA RefusalsKnown ==
  /\ \A o \in Operators : LoadRefusal(o) \in Earned \cup Unearned
  /\ InspectRefusal \in Earned \cup Unearned
BY DEF LoadRefusal, InspectRefusal, Earned, Reasons, Unearned

LEMMA HistoryTypesStep == ASSUME IInv, NEW o \in Operators, Step(o) PROVE HistoryTypes'
<1>0. /\ shown \in [Passwords -> SUBSET (1..MaxValues)]
      /\ saved \in [Passwords -> SUBSET (1..MaxValues)]
      /\ lost \in BOOLEAN /\ refusal \in Earned \cup Unearned
  BY DEF IInv, TypeOK
<1>1. refusal' \in Earned \cup Unearned
  <2>1. CASE Launch(o)
    BY <1>0, <2>1, RefusalsKnown DEF Launch, Start, Load, LoadRefused, WriteNew, TearSealFile,
       CreateSeal, WaitEndpoint, EndpointTimeout, Inspect, InspectRefused, Initialize, Record,
       WritePackage, Packaged, End, Earned, Reasons, Unearned
  <2>2. CASE GenerateRoot(o)
    BY <1>0, <2>2 DEF GenerateRoot, StartRoot, StartRootRefused, FirstShare, SecondShare,
       ShareRejected, ShareUnanswered, Cancel, End, Earned, Reasons, Unearned
  <2>3. CASE Prepare(o)
    BY <1>0, <2>3 DEF Prepare, InspectAccessors, Stage, StageNothing, StageRefused, Show,
       Acknowledge, Store, StoreEnds, List, Lookup, Relist, Expel, Expelled, Handover, Seeded,
       RevokeSelf, RevokeAndEnd, RevokeRefused, Complete, Dismiss, End, Earned, Reasons, Unearned
  <2>4. CASE Fail(o) \/ Crash(o)
    BY <1>0, <2>4 DEF Fail, Crash, Dismiss, End, Earned, Reasons, Unearned
  <2> QED
    BY <2>1, <2>2, <2>3, <2>4 DEF Step
<1>2. lost' \in BOOLEAN
  <2>1. CASE Crash(o)
    BY <2>1 DEF Crash
  <2>2. CASE Quiet(o) /\ ~Crash(o)
    BY <1>0, <2>2 DEF Quiet, GenerateRoot, Start, Load, LoadRefused, WaitEndpoint, EndpointTimeout,
       Inspect, InspectRefused, StartRoot, StartRootRefused, FirstShare, SecondShare,
       ShareRejected, ShareUnanswered, Cancel, InspectAccessors, StageNothing, StageRefused,
       StoreEnds, List, Lookup, Relist, Expel, Expelled, RevokeSelf, RevokeAndEnd, RevokeRefused,
       Fail, SameRest, historyVars
  <2>3. CASE Writes(o)
    BY <1>0, <2>3 DEF Writes, WriteNew, TearSealFile, CreateSeal, Initialize, Record, WritePackage,
       Packaged, Stage, Show, Acknowledge, Store, Handover, Seeded, Complete, SameRest, historyVars
  <2> QED
    BY <2>1, <2>2, <2>3, StepCases
<1>3. /\ shown' \in [Passwords -> SUBSET (1..MaxValues)]
      /\ saved' \in [Passwords -> SUBSET (1..MaxValues)]
  <2>1. CASE Quiet(o)
    BY <1>0, <2>1, QuietFrame DEF SameWorld
  <2>2. CASE Writes(o) /\ ~Show(o) /\ ~Acknowledge(o)
    BY <1>0, <2>2 DEF Writes, WriteNew, TearSealFile, CreateSeal, Initialize, Record, WritePackage,
       Packaged, Stage, Store, Handover, Seeded, Complete, SameRest, historyVars
  <2>3. CASE Show(o) \/ Acknowledge(o)
    <3>1. seal \in Kit
      BY <2>3 DEF Show, Acknowledge, Work, Goto, IInv, StepsFollow, Follows, Initialized, PreparerSteps
    <3>2. seal.pending \in [Passwords -> 0..MaxValues]
      BY <3>1, KitFields
    <3>3. \A p \in Passwords : ShownTo(p) \subseteq 1..MaxValues
      BY <3>2, BootstrapAssumption DEF ShownTo
    <3>4. \A p \in Passwords : /\ shown[p] \cup ShownTo(p) \in SUBSET (1..MaxValues)
                               /\ saved[p] \cup ShownTo(p) \in SUBSET (1..MaxValues)
      BY <1>0, <3>3
    <3> QED
      BY <1>0, <2>3, <3>4 DEF Show, Acknowledge
  <2> QED
    BY <2>1, <2>2, <2>3, StepCases
<1> QED
  BY <1>1, <1>2, <1>3 DEF HistoryTypes

LEMMA TypeStep == ASSUME IInv, NEW o \in Operators, Step(o) PROVE TypeOK'
<1>1. /\ FileTypes' /\ BaoTypes' /\ TokenTypes' /\ StepTypes' /\ HeldTypes' /\ HistoryTypes'
  BY FileTypesStep, BaoTypesStep, TokenTypesStep, StepTypesStep, HeldTypesStep, HistoryTypesStep
<1> QED
  BY <1>1 DEF TypeOK, FileTypes, BaoTypes, TokenTypes, StepTypes, HeldTypes, HistoryTypes
(***************************************************************************)
(* What never goes back                                                    *)
(***************************************************************************)
Further(k, l) ==
  /\ l \in Kit
  /\ k.checkpoint # "seal-created" => l.checkpoint # "seal-created"
  /\ Begun(k) => Begun(l)

LEMMA FileAdvances ==
  ASSUME IInv, NEW o \in Operators, Step(o), seal \in Kit
  PROVE  Further(seal, seal')
<1>1. CASE Quiet(o)
  BY <1>1, QuietFrame DEF SameWorld, Further, Begun
<1>2. CASE CreateSeal(o) \/ Initialize(o) \/ Show(o) \/ Store(o) \/ WritePackage(o)
  BY <1>2 DEF CreateSeal, Initialize, Show, Store, SameFiles, WritePackage, Further, Begun
<1>3. ~WriteNew(o) /\ ~TearSealFile(o)
  BY AbsenceAssumption DEF WriteNew, Goto, TearSealFile, IInv, StepsFollow, Follows
<1>4. CASE Record(o) \/ Packaged(o)
  BY <1>4, RecordWrites, PackagedWrites DEF Holds, Further, Begun
<1>5. CASE Stage(o) \/ Acknowledge(o)
  BY <1>5, StageWrites, AcknowledgeWrites DEF Holds, Further, Begun
<1>6. CASE Handover(o) \/ Seeded(o) \/ Complete(o)
  BY <1>6, HandoverWrites, SeededWrites, CompleteWrites DEF Holds, Further, Begun
<1> QED
  BY <1>1, <1>2, <1>3, <1>4, <1>5, <1>6, StepCases DEF Writes

LEMMA BaoAdvances ==
  ASSUME IInv, NEW o \in Operators, Step(o)
  PROVE  /\ sealSecret => sealSecret'
         /\ initialized => initialized'
         /\ packages \subseteq packages'
         /\ \A p \in Passwords : stored[p] # 0 => stored'[p] = stored[p]
         /\ minted <= minted'
<1>1. minted <= minted'
  <2>1. minted \in Nat
    BY BootstrapAssumption DEF IInv, TypeOK
  <2>2. CASE Mint
    BY <2>1, <2>2 DEF Mint
  <2>3. CASE UNCHANGED minted
    BY <2>1, <2>3
  <2>4. Launch(o) => Mint \/ UNCHANGED minted
    BY DEF Launch, Start, Load, LoadRefused, WriteNew, TearSealFile, CreateSeal, WaitEndpoint,
       EndpointTimeout, Inspect, InspectRefused, Initialize, Record, WritePackage, Packaged,
       SameBao, tokenVars
  <2>5. GenerateRoot(o) => Mint \/ UNCHANGED minted
    BY DEF GenerateRoot, StartRoot, StartRootRefused, FirstShare, SecondShare, ShareRejected,
       ShareUnanswered, Cancel, SameBao, tokenVars
  <2>6. Prepare(o) \/ Fail(o) \/ Crash(o) => Mint \/ UNCHANGED minted
    BY DEF Prepare, InspectAccessors, Stage, StageNothing, StageRefused, Show, Acknowledge, Store,
       StoreEnds, List, Lookup, Relist, Expel, Expelled, Handover, Seeded, RevokeSelf,
       RevokeAndEnd, RevokeRefused, Complete, Fail, Crash, SameBao, tokenVars
  <2> QED
    BY <2>2, <2>3, <2>4, <2>5, <2>6 DEF Step
<1>2. /\ sealSecret => sealSecret'
      /\ initialized => initialized'
      /\ packages \subseteq packages'
  <2>1. CASE Quiet(o)
    BY <2>1, QuietFrame DEF SameWorld
  <2>2. CASE Writes(o)
    <3>1. CASE CreateSeal(o) \/ Initialize(o) \/ Store(o) \/ Show(o)
      BY <3>1 DEF CreateSeal, Initialize, Store, Show, SameFiles, SameBao, remoteVars
    <3>2. CASE WritePackage(o)
      BY <3>2 DEF WritePackage, SameBao, remoteVars
    <3>3. CASE WriteNew(o) \/ TearSealFile(o) \/ Record(o) \/ Packaged(o)
      BY <3>3 DEF WriteNew, TearSealFile, Record, Packaged, SameBao, remoteVars
    <3>4. CASE Stage(o) \/ Acknowledge(o)
      BY <3>4 DEF Stage, Acknowledge, SameBao, remoteVars
    <3>5. CASE Handover(o) \/ Seeded(o) \/ Complete(o)
      <4>1. SameBao /\ UNCHANGED packages
        BY <3>5 DEF Handover, Seeded, Complete
      <4> QED
        BY <4>1 DEF SameBao, remoteVars
    <3> QED
      BY <2>2, <3>1, <3>2, <3>3, <3>4, <3>5 DEF Writes
  <2> QED
    BY <2>1, <2>2, StepCases
<1>3. ASSUME NEW p \in Passwords, stored[p] # 0 PROVE stored'[p] = stored[p]
  <2>1. CASE Store(o)
    <3>1. DOMAIN stored = Passwords
      BY DEF IInv, TypeOK
    <3>2. PICK q \in Unstored : stored' = [stored EXCEPT ![q] = seal.pending[q]]
      BY <2>1 DEF Store
    <3>3. q # p
      BY <1>3 DEF Unstored
    <3> QED
      BY <3>1, <3>2, <3>3
  <2>2. CASE Quiet(o)
    BY <2>2, QuietFrame DEF SameWorld
  <2>3. CASE Writes(o) /\ ~Store(o)
    BY <2>3 DEF Writes, WriteNew, TearSealFile, CreateSeal, Initialize, Record, WritePackage,
       Packaged, Stage, Show, Acknowledge, Handover, Seeded, Complete, SameBao, remoteVars
  <2> QED
    BY <2>1, <2>2, <2>3, StepCases
<1> QED
  BY <1>1, <1>2, <1>3

LEMMA LossStands == ASSUME NEW o \in Operators, Step(o), lost PROVE lost'
BY DEF Step, Launch, GenerateRoot, Prepare, Start, Load, LoadRefused, WriteNew, TearSealFile,
   CreateSeal, WaitEndpoint, EndpointTimeout, Inspect, InspectRefused, Initialize, Record,
   WritePackage, Packaged, StartRoot, StartRootRefused, FirstShare, SecondShare, ShareRejected,
   ShareUnanswered, Cancel, InspectAccessors, Stage, StageNothing, StageRefused, Show, Acknowledge,
   Store, StoreEnds, List, Lookup, Relist, Expel, Expelled, Handover, Seeded, RevokeSelf,
   RevokeAndEnd, RevokeRefused, Complete, Fail, Crash, SameRest, historyVars

(***************************************************************************)
(* Who runs what                                                           *)
(***************************************************************************)
LEMMA AloneStep == ASSUME IInv, NEW o \in Operators, Step(o) PROVE PreparersAlone'
<1>0. StepTypes /\ PreparersAlone
  BY TypeParts DEF IInv
<1>1. CASE \E c \in Commands, s \in Selections : Start(o, c, s)
  <2>1. PICK c \in Commands, s \in Selections : Start(o, c, s)
    BY <1>1
  <2>2. command' = [command EXCEPT ![o] = c]
    BY <2>1 DEF Start
  <2>3. c # "verify" => \A x \in Operators : ~Preparing(x)
    BY <2>1, AbsenceAssumption DEF Start, Preparing, Commands
  <2> QED
    BY <1>0, <2>2, <2>3 DEF PreparersAlone, Preparing, StepTypes
<1>2. CASE ~(\E c \in Commands, s \in Selections : Start(o, c, s))
  <2>1. command'[o] \in {command[o], None}
    BY <1>0, <1>2 DEF Step, Launch, GenerateRoot, Prepare, Load, LoadRefused, WriteNew,
       TearSealFile, CreateSeal, WaitEndpoint, EndpointTimeout, Inspect, InspectRefused, Initialize,
       Record, WritePackage, Packaged, StartRoot, StartRootRefused, FirstShare, SecondShare,
       ShareRejected, ShareUnanswered, Cancel, InspectAccessors, Stage, StageNothing, StageRefused,
       Show, Acknowledge, Store, StoreEnds, List, Lookup, Relist, Expel, Expelled, Handover, Seeded,
       RevokeSelf, RevokeAndEnd, RevokeRefused, Complete, Fail, Crash, End, localVars, StepTypes
  <2>2. \A x \in Operators : command'[x] \in {command[x], None}
    BY <2>1, OthersFrame DEF IInv, SameAt
  <2>3. \A x \in Operators : Preparing(x)' => Preparing(x)
    BY <2>2, AbsenceAssumption DEF Preparing, Commands
  <2> QED
    BY <1>0, <2>3 DEF PreparersAlone
<1> QED
  BY <1>1, <1>2

LEMMA BelongStep == ASSUME IInv, NEW o \in Operators, Step(o) PROVE StepsBelong'
<1>0. /\ DOMAIN pc = Operators /\ DOMAIN command = Operators /\ DOMAIN selection = Operators
      /\ command[o] \in Commands \cup {None} /\ Belongs(o)
  BY DEF IInv, StepsBelong, TypeOK
<1>1. ASSUME NEW x \in Operators, x # o PROVE Belongs(x)'
  <2>1. SameAt(x) /\ Belongs(x)
    BY <1>1, OthersFrame DEF IInv, StepsBelong
  <2> QED
    BY <2>1 DEF SameAt, Belongs, Preparing
<1>. SUFFICES Belongs(o)'
  BY <1>1 DEF StepsBelong
<1> USE DEF Belongs, Preparing, BootstrapSteps, PreparerSteps
<1>2. ASSUME NEW r, End(o, r) PROVE Belongs(o)'
  BY <1>0, <1>2 DEF End
<1>3. CASE \/ LoadRefused(o) \/ TearSealFile(o) \/ EndpointTimeout(o) \/ InspectRefused(o)
           \/ StartRootRefused(o) \/ Cancel(o) \/ RevokeAndEnd(o) \/ RevokeRefused(o)
           \/ Complete(o) \/ Crash(o)
  BY <1>2, <1>3 DEF LoadRefused, TearSealFile, EndpointTimeout, InspectRefused, StartRootRefused,
     Cancel, RevokeAndEnd, RevokeRefused, Complete, Crash
<1>4. CASE \E c \in Commands, s \in Selections : Start(o, c, s)
  BY <1>0, <1>4, AbsenceAssumption DEF Start, Goto
<1>5. CASE Load(o)
  <2>1. /\ command[o] = "verify" => AfterLoad(o) = "start_root"
        /\ command[o] = "reconcile" => AfterLoad(o) = "endpoint"
        /\ AfterLoad(o) \in {"start_root", "endpoint", "write_new"}
    <3>1. None # "no seal file"
      BY AbsenceAssumption DEF Reasons
    <3>2. command[o] = "reconcile" => seal # None
      <4>1. seal = None /\ command[o] = "reconcile" => LoadRefusal(o) = "no seal file"
        BY AbsenceAssumption DEF LoadRefusal
      <4> QED
        BY <1>5, <3>1, <4>1 DEF Load
    <3> QED
      BY <3>2 DEF AfterLoad
  <2>2. command[o] \in Commands /\ command[o] # None
    BY <1>0, <1>5, AbsenceAssumption DEF Load, Goto
  <2> QED
    BY <1>0, <1>5, <2>1, <2>2 DEF Load, Goto, localVars, Commands
<1>6. CASE Inspect(o)
  BY <1>0, <1>6 DEF Inspect, AfterInspect, Goto
<1>7. CASE WriteNew(o) \/ CreateSeal(o) \/ WaitEndpoint(o) \/ Initialize(o) \/ Record(o)
           \/ WritePackage(o) \/ Packaged(o)
  BY <1>0, <1>7 DEF WriteNew, CreateSeal, WaitEndpoint, Initialize, Record,
     WritePackage, Packaged, Goto, localVars
<1>8. CASE \/ StartRoot(o) \/ FirstShare(o) \/ ShareRejected(o) \/ ShareUnanswered(o)
  BY <1>0, <1>8 DEF StartRoot, FirstShare, ShareRejected, ShareUnanswered, Goto, localVars
<1>9. CASE SecondShare(o)
  <2>1. command[o] \in {"bootstrap", "reconcile", "verify"}
    BY <1>0, <1>9 DEF SecondShare, Goto, Commands
  <2> QED
    BY <1>0, <1>9, <2>1 DEF SecondShare, Goto
<1>10. CASE \/ InspectAccessors(o) \/ Stage(o) \/ StageNothing(o) \/ StageRefused(o) \/ Show(o)
            \/ Acknowledge(o) \/ Store(o) \/ StoreEnds(o)
  BY <1>0, <1>10 DEF InspectAccessors, Stage, StageNothing, StageRefused, Show, Acknowledge, Store,
     StoreEnds, Goto, Work, Dismiss, localVars
<1>11. CASE \/ List(o) \/ Lookup(o) \/ Relist(o) \/ Expel(o) \/ Expelled(o)
            \/ Seeded(o) \/ RevokeSelf(o) \/ Fail(o)
  BY <1>0, <1>11 DEF List, Lookup, Relist, Expel, Expelled, Seeded, RevokeSelf, Fail, Goto,
     Work, Dismiss, localVars, Guarded
<1>12. CASE Handover(o)
  BY <1>0, <1>12 DEF Handover, AfterHandover, Goto, Dismiss
<1> QED
  BY <1>1, <1>3, <1>4, <1>5, <1>6, <1>7, <1>8, <1>9, <1>10, <1>11, <1>12
  DEF Step, Launch, GenerateRoot, Prepare, StepsBelong
(***************************************************************************)
(* What a step can rely on                                                 *)
(***************************************************************************)
LEMMA SecretFrame ==
  ASSUME NEW o \in Operators, Step(o)
  PROVE  CreateSeal(o) \/ UNCHANGED sealSecret
<1>1. CASE Quiet(o)
  BY <1>1, QuietFrame DEF SameWorld
<1>2. CASE WriteNew(o) \/ TearSealFile(o) \/ Record(o) \/ WritePackage(o) \/ Packaged(o) \/ Show(o)
  BY <1>2 DEF WriteNew, TearSealFile, Record, WritePackage, Packaged, Show, SameBao, remoteVars
<1>3. CASE Stage(o) \/ Acknowledge(o) \/ Handover(o) \/ Seeded(o) \/ Complete(o)
  <2>1. SameBao
    BY <1>3 DEF Stage, Acknowledge, Handover, Seeded, Complete
  <2> QED
    BY <2>1 DEF SameBao, remoteVars
<1>4. CASE Initialize(o) \/ Store(o)
  BY <1>4 DEF Initialize, Store
<1> QED
  BY <1>1, <1>2, <1>3, <1>4, StepCases DEF Writes

LEMMA InitializedFrame ==
  ASSUME NEW o \in Operators, Step(o)
  PROVE  Initialize(o) \/ UNCHANGED initialized
<1>1. CASE Quiet(o)
  BY <1>1, QuietFrame DEF SameWorld
<1>2. CASE WriteNew(o) \/ TearSealFile(o) \/ Record(o) \/ WritePackage(o) \/ Packaged(o) \/ Show(o)
  BY <1>2 DEF WriteNew, TearSealFile, Record, WritePackage, Packaged, Show, SameBao, remoteVars
<1>3. CASE Stage(o) \/ Acknowledge(o) \/ Handover(o) \/ Seeded(o) \/ Complete(o)
  <2>1. SameBao
    BY <1>3 DEF Stage, Acknowledge, Handover, Seeded, Complete
  <2> QED
    BY <2>1 DEF SameBao, remoteVars
<1>4. CASE CreateSeal(o) \/ Store(o)
  BY <1>4 DEF CreateSeal, Store
<1> QED
  BY <1>1, <1>2, <1>3, <1>4, StepCases DEF Writes

LEMMA PackagesFrame ==
  ASSUME NEW o \in Operators, Step(o)
  PROVE  WritePackage(o) \/ UNCHANGED packages
<1>1. CASE Quiet(o)
  BY <1>1, QuietFrame DEF SameWorld
<1>2. CASE WriteNew(o) \/ TearSealFile(o) \/ CreateSeal(o) \/ Initialize(o) \/ Record(o)
           \/ Packaged(o) \/ Store(o) \/ Show(o)
  BY <1>2 DEF WriteNew, TearSealFile, CreateSeal, Initialize, Record, Packaged, Store, Show, SameFiles
<1>3. CASE Stage(o) \/ Acknowledge(o)
  BY <1>3 DEF Stage, Acknowledge
<1>4. CASE Handover(o) \/ Seeded(o) \/ Complete(o)
  BY <1>4 DEF Handover, Seeded, Complete
<1> QED
  BY <1>1, <1>2, <1>3, <1>4, StepCases DEF Writes

LEMMA SealFirstStep == ASSUME IInv, NEW o \in Operators, Step(o) PROVE SealFirst'
<1>0. SealFirst /\ TypeOK
  BY DEF IInv
<1>1. ASSUME sealSecret' PROVE seal' \in Kit
  <2>1. seal \in Kit
    BY <1>0, <1>1, SecretFrame DEF SealFirst, CreateSeal, Goto, IInv, StepsFollow, Follows
  <2> QED
    BY <2>1, FileAdvances DEF Further
<1>2. ASSUME initialized' PROVE sealSecret' /\ minted' >= 1
  <2>1. CASE Initialize(o)
    <3>1. sealSecret'
      BY <2>1, BaoAdvances DEF Initialize, Goto, IInv, StepsFollow, Follows
    <3>2. minted' >= 1
      BY <1>0, <2>1, BootstrapAssumption DEF Initialize, Mint, TypeOK
    <3> QED
      BY <3>1, <3>2
  <2>2. CASE UNCHANGED initialized
    <3>1. sealSecret /\ minted >= 1
      BY <1>0, <1>2, <2>2 DEF SealFirst
    <3>2. minted \in Nat /\ minted' \in Nat
      BY <1>0, TypeStep, BootstrapAssumption DEF TypeOK
    <3> QED
      BY <3>1, <3>2, BaoAdvances
  <2> QED
    BY <2>1, <2>2, InitializedFrame
<1>3. ASSUME packages' # {} PROVE seal' \in Kit /\ Begun(seal')
  <2>1. seal \in Kit /\ Begun(seal)
    <3>1. CASE packages # {}
      BY <1>0, <3>1 DEF SealFirst
    <3>2. CASE WritePackage(o)
      BY <3>2 DEF WritePackage, IInv, StepsFollow, Follows, Begun
    <3> QED
      BY <1>3, <3>1, <3>2, PackagesFrame
  <2> QED
    BY <2>1, FileAdvances DEF Further
<1> QED
  BY <1>1, <1>2, <1>3 DEF SealFirst

(* Nothing changes at another terminal that it relies on: either nobody    *)
(* wrote, or the terminal does not prepare.                                *)
LEMMA FollowsElsewhere ==
  ASSUME IInv, NEW o \in Operators, Step(o), NEW x \in Operators, x # o
  PROVE  Follows(x)'
<1>0. SameAt(x) /\ Follows(x) /\ Belongs(x)
  BY OthersFrame DEF IInv, StepsFollow, StepsBelong
<1>1. CASE Quiet(o)
  <2>1. SameWorld
    BY <1>1, QuietFrame
  <2> QED
    BY <1>0, <2>1 DEF SameAt, SameWorld, Follows, Initialized, Deliverable, AllStored, Unstored,
       PendingPasswords
<1>2. CASE Writes(o)
  <2>1. ~Preparing(x)
    BY <1>2, WritersPrepare DEF IInv, PreparersAlone
  <2>2. /\ pc[x] \notin BootstrapSteps \cup PreparerSteps
        /\ command[x] # "bootstrap" /\ command[x] # "reconcile"
    BY <1>0, <2>1 DEF Belongs, Preparing
  <2>3. pc[x] \in {"start_root", "first_share", "second_share"} => Initialized(x)'
    <3>1. ASSUME seal \in Kit /\ seal.checkpoint # "seal-created"
          PROVE  seal' \in Kit /\ seal'.checkpoint # "seal-created"
      BY <3>1, FileAdvances DEF Further
    <3> QED
      BY <1>0, <2>2, <3>1 DEF SameAt, Follows, Initialized
  <2> QED
    BY <1>0, <2>2, <2>3 DEF SameAt, Follows, BootstrapSteps, PreparerSteps
<1> QED
  BY <1>1, <1>2, StepCases

(* A terminal that leaves the guarded part is at a step without premises.  *)
LEMMA FollowsNothing ==
  ASSUME NEW o \in Operators, pc'[o] \in {"idle", "load", "cancel"}, ~fate'[o]
  PROVE  Follows(o)'
BY DEF Follows, PreparerSteps

LEMMA FollowsDismissal ==
  ASSUME NEW o \in Operators, pc'[o] = "revoke", ~fate'[o]
  PROVE  Follows(o)'
BY DEF Follows, PreparerSteps

LEMMA FollowsEnd ==
  ASSUME TypeOK, NEW o \in Operators, NEW r, End(o, r)
  PROVE  Follows(o)'
BY FollowsNothing DEF TypeOK, End

LEMMA FollowsLaunch ==
  ASSUME IInv, NEW o \in Operators, Launch(o)
  PROVE  Follows(o)'
<1>0. /\ DOMAIN pc = Operators /\ DOMAIN command = Operators /\ DOMAIN fate = Operators
      /\ Follows(o) /\ Belongs(o) /\ command[o] \in Commands \cup {None} /\ TypeOK
      /\ seal \in {None, Torn} \cup Kit
  BY DEF IInv, StepsBelong, StepsFollow, TypeOK
<1>1. CASE LoadRefused(o) \/ TearSealFile(o) \/ EndpointTimeout(o) \/ InspectRefused(o)
  BY <1>0, <1>1, FollowsEnd DEF LoadRefused, TearSealFile, EndpointTimeout, InspectRefused
<1>2. ASSUME NEW c \in Commands, NEW s \in Selections, Start(o, c, s) PROVE Follows(o)'
  BY <1>0, <1>2, FollowsNothing DEF Start, Goto, Follows
<1>3. CASE Load(o)
  <2>1. pc'[o] = AfterLoad(o) /\ ~fate'[o] /\ UNCHANGED <<seal, sealSecret, command>>
    BY <1>0, <1>3 DEF Load, Goto, localVars, SameFiles, SameBao, remoteVars, Follows
  <2>2. command[o] \in {"bootstrap", "reconcile", "verify"}
    BY <1>0, <1>3 DEF Load, Goto, Belongs, Commands
  <2>3. /\ None # "no seal file" /\ None # "unreadable" /\ None # "foreign seal"
        /\ None # "not complete" /\ None \notin Kit
    BY AbsenceAssumption DEF Reasons, Unearned
  <2>4. LoadRefusal(o) = None
    BY <1>3 DEF Load
  <2>5. CASE command[o] = "verify"
    <3>1. seal # None
      BY <2>3, <2>4, <2>5 DEF LoadRefusal
    <3>2. seal \in Kit
      BY <2>3, <2>4, <2>5, <3>1 DEF LoadRefusal
    <3>3. seal.checkpoint # "seal-created"
      BY <2>3, <2>4, <2>5, <3>1, <3>2 DEF LoadRefusal
    <3>4. AfterLoad(o) = "start_root"
      BY <2>5 DEF AfterLoad
    <3> QED
      BY <2>1, <2>5, <3>2, <3>3, <3>4 DEF Follows, Initialized, PreparerSteps
  <2>6. CASE command[o] # "verify" /\ seal = None
    <3>1. command[o] = "bootstrap" /\ ~sealSecret
      BY <2>2, <2>3, <2>4, <2>6 DEF LoadRefusal
    <3>2. AfterLoad(o) = "write_new"
      BY <2>6 DEF AfterLoad
    <3> QED
      BY <2>1, <2>6, <3>1, <3>2 DEF Follows, PreparerSteps
  <2>7. CASE command[o] # "verify" /\ seal # None
    <3>1. seal \in Kit
      BY <2>3, <2>4, <2>7 DEF LoadRefusal
    <3>2. command[o] = "reconcile" => seal.checkpoint = "complete"
      BY <2>3, <2>4, <2>7, <3>1 DEF LoadRefusal
    <3>3. AfterLoad(o) = "endpoint"
      BY <2>7 DEF AfterLoad
    <3> QED
      BY <2>1, <3>1, <3>2, <3>3 DEF Follows, PreparerSteps
  <2> QED
    BY <2>5, <2>6, <2>7
<1>4. CASE WriteNew(o)
  BY <1>0, <1>4, NewKitType DEF WriteNew, Goto, localVars, Follows, PreparerSteps
<1>5. CASE CreateSeal(o)
  <2>1. command[o] = "bootstrap"
    BY <1>0, <1>5 DEF CreateSeal, Goto, Belongs, BootstrapSteps
  <2> QED
    BY <1>0, <1>5, <2>1 DEF CreateSeal, Goto, localVars, SameFiles, Follows, PreparerSteps
<1>6. CASE WaitEndpoint(o)
  <2>1. Preparing(o)
    BY <1>0, <1>6 DEF WaitEndpoint, Goto, Belongs, PreparerSteps
  <2> QED
    BY <1>0, <1>6, <2>1 DEF WaitEndpoint, Goto, localVars, SameFiles, SameBao, remoteVars, Follows,
       PreparerSteps, Preparing, Initialized
<1>7. CASE Inspect(o)
  <2>1. /\ pc'[o] = AfterInspect /\ ~fate'[o] /\ UNCHANGED <<seal, sealSecret, initialized, command>>
        /\ seal \in Kit /\ sealSecret /\ command[o] = "bootstrap"
    BY <1>0, <1>7 DEF Inspect, Goto, SameFiles, SameBao, remoteVars, Follows, Belongs, BootstrapSteps
  <2>2. /\ None # "file ahead of OpenBao" /\ None # "escalation" /\ None # "already complete"
    BY AbsenceAssumption DEF Reasons, Unearned
  <2>3. InspectRefusal = None
    BY <1>7 DEF Inspect
  <2>4. CASE ~initialized
    <3>1. seal.checkpoint = "seal-created" /\ ~seal.material
      BY <2>2, <2>3, <2>4 DEF InspectRefusal
    <3>2. AfterInspect = "initialize"
      BY <2>4 DEF AfterInspect
    <3> QED
      BY <1>0, <2>1, <2>4, <3>1, <3>2 DEF Follows, PreparerSteps, TypeOK
  <2>5. CASE initialized /\ seal.checkpoint = "seal-created"
    <3>1. seal.material
      BY <2>2, <2>3, <2>5 DEF InspectRefusal
    <3>2. AfterInspect = "packages"
      BY <2>5 DEF AfterInspect
    <3> QED
      BY <2>1, <2>5, <3>1, <3>2 DEF Follows, PreparerSteps
  <2>6. CASE initialized /\ seal.checkpoint # "seal-created"
    <3>1. seal.checkpoint # "complete"
      BY <2>2, <2>3, <2>6 DEF InspectRefusal
    <3>2. AfterInspect = "start_root"
      BY <2>6 DEF AfterInspect
    <3>3. seal.checkpoint \in {"initialized", "seeded"}
      BY <2>1, <2>6, <3>1, KitFields DEF Checkpoints
    <3> QED
      BY <2>1, <2>6, <3>2, <3>3 DEF Follows, PreparerSteps, Initialized
  <2> QED
    BY <2>4, <2>5, <2>6
<1>8. CASE Initialize(o)
  BY <1>0, <1>8 DEF Initialize, Goto, SameFiles, Follows, PreparerSteps
<1>9. CASE Record(o)
  BY <1>0, <1>9, RecordWrites DEF Record, Goto, localVars, SameBao, remoteVars, Holds, Follows,
     PreparerSteps
<1>10. CASE WritePackage(o)
  BY <1>0, <1>10 DEF WritePackage, localVars, SameBao, remoteVars, Follows, PreparerSteps
<1>11. CASE Packaged(o)
  <2>1. command[o] = "bootstrap"
    BY <1>0, <1>11 DEF Packaged, Goto, Belongs, BootstrapSteps
  <2> QED
    BY <1>0, <1>11, <2>1, PackagedWrites DEF Packaged, Goto, localVars, Holds, Follows,
       PreparerSteps, Initialized
<1> QED
  BY <1>1, <1>2, <1>3, <1>4, <1>5, <1>6, <1>7, <1>8, <1>9, <1>10, <1>11 DEF Launch
LEMMA FollowsGenerateRoot ==
  ASSUME IInv, NEW o \in Operators, GenerateRoot(o)
  PROVE  Follows(o)'
<1>0. /\ DOMAIN pc = Operators /\ Follows(o) /\ Belongs(o) /\ TypeOK
      /\ command[o] \in Commands \cup {None}
  BY DEF IInv, StepsBelong, StepsFollow, TypeOK
<1>1. CASE StartRootRefused(o) \/ Cancel(o)
  BY <1>0, <1>1, FollowsEnd DEF StartRootRefused, Cancel
<1>2. CASE ShareRejected(o) \/ ShareUnanswered(o)
  BY <1>0, <1>2, FollowsNothing DEF ShareRejected, ShareUnanswered, localVars, Follows
<1>3. CASE StartRoot(o) \/ FirstShare(o)
  <2>1. /\ pc'[o] \in {"first_share", "second_share"} /\ ~fate'[o] /\ Initialized(o)
        /\ UNCHANGED <<seal, command>>
    BY <1>0, <1>3 DEF StartRoot, FirstShare, Goto, localVars, SameFiles, Follows
  <2> QED
    BY <2>1 DEF Follows, Initialized, PreparerSteps
<1>4. CASE SecondShare(o)
  <2>1. /\ pc'[o] \in {"accessors", "stage"} /\ ~fate'[o] /\ Initialized(o)
        /\ UNCHANGED <<seal, command>>
    BY <1>0, <1>4 DEF SecondShare, Goto, SameFiles, Follows
  <2> QED
    BY <2>1 DEF Follows, Initialized, PreparerSteps
<1> QED
  BY <1>1, <1>2, <1>3, <1>4 DEF GenerateRoot

(* With the shares in hand: staging and delivery.                          *)
LEMMA FollowsDelivery ==
  ASSUME IInv, NEW o \in Operators,
         Stage(o) \/ StageNothing(o) \/ StageRefused(o) \/ Show(o) \/ Acknowledge(o)
  PROVE  Follows(o)'
<1>0. /\ DOMAIN pc = Operators /\ Follows(o) /\ Belongs(o) /\ TypeOK
  BY DEF IInv, StepsBelong, StepsFollow, TypeOK
<1>1. /\ pc[o] \in {"stage", "deliver"} /\ ~fate'[o] /\ Initialized(o)
      /\ UNCHANGED <<command, selection>>
  BY <1>0 DEF Stage, StageNothing, StageRefused, Show, Acknowledge, Work, Goto, localVars, Follows,
     PreparerSteps
<1>2. CASE StageRefused(o)
  BY <1>0, <1>1, <1>2, FollowsDismissal DEF StageRefused, Dismiss
<1>3. CASE Stage(o)
  <2>1. pc'[o] = "deliver"
    BY <1>0, <1>3 DEF Stage, Work, Goto
  <2>2. Initialized(o)'
    BY <1>1, <1>3, StageWrites DEF Holds, Initialized
  <2>3. seal'.pending # NothingPending /\ seal'.bound = selection'[o]
    BY <1>1, <1>3, StageWrites DEF Holds
  <2> QED
    BY <1>1, <2>1, <2>2, <2>3 DEF Follows, PreparerSteps
<1>4. CASE StageNothing(o) \/ Show(o)
  <2>1. UNCHANGED <<seal, stored>>
    BY <1>4 DEF StageNothing, Show, SameFiles, SameBao, remoteVars
  <2>2. Initialized(o)'
    BY <1>1, <2>1 DEF Initialized
  <2>3. CASE pc'[o] = "deliver"
    <3>1. seal.pending # NothingPending /\ seal.bound = selection[o]
      <4>1. CASE Show(o)
        BY <1>0, <4>1 DEF Show, Follows
      <4>2. CASE StageNothing(o)
        BY <1>0, <1>1, <2>3, <4>2, PendingMeans DEF StageNothing, Goto, Initialized
      <4> QED
        BY <1>4, <4>1, <4>2
    <3> QED
      BY <1>1, <2>1, <2>2, <2>3, <3>1 DEF Follows, PreparerSteps
  <2>4. CASE StageNothing(o) /\ pc'[o] # "deliver"
    <3>1. pc'[o] = "store"
      BY <1>0, <2>4 DEF StageNothing, Goto
    <3>2. Deliverable(o)
      <4>1. CASE PendingPasswords # {} /\ seal.bound = selection[o]
        <5>1. seal.acknowledged
          BY <1>0, <2>4, <4>1 DEF StageNothing, Goto
        <5> QED
          BY <1>1, <4>1, <5>1, PendingMeans DEF Initialized, Deliverable
      <4>2. CASE PendingPasswords = {} /\ Planned(o) = {}
        BY <1>1, <4>2, PendingMeans DEF Initialized, Deliverable, AllStored, Planned
      <4> QED
        BY <2>4, <4>1, <4>2 DEF StageNothing
    <3>3. Deliverable(o)'
      BY <1>1, <2>1, <3>2 DEF Deliverable, AllStored
    <3> QED
      BY <1>1, <2>2, <3>1, <3>3 DEF Follows, PreparerSteps
  <2> QED
    BY <1>0, <1>4, <2>3, <2>4 DEF Show
<1>5. CASE Acknowledge(o)
  <2>1. pc'[o] = "store" /\ seal.bound = selection[o]
    BY <1>0, <1>5 DEF Acknowledge, Work, Goto, Follows
  <2>2. Initialized(o)'
    BY <1>1, <1>5, AcknowledgeWrites DEF Holds, Initialized
  <2>3. Deliverable(o)'
    BY <1>1, <1>5, <2>1, AcknowledgeWrites DEF Holds, Deliverable
  <2> QED
    BY <1>1, <2>1, <2>2, <2>3 DEF Follows, PreparerSteps
<1> QED
  BY <1>2, <1>3, <1>4, <1>5

LEMMA StoreFrame ==
  ASSUME IInv, NEW o \in Operators, Step(o), selection[o] \in Selections, AllStored(o),
         UNCHANGED selection
  PROVE  AllStored(o)'
<1>1. \A p \in selection[o] : p \in Passwords /\ stored[p] # 0
  BY PasswordsOf DEF AllStored
<1>2. \A p \in selection[o] : stored'[p] # 0
  BY <1>1, BaoAdvances
<1> QED
  BY <1>2 DEF AllStored

(* Storing, and then making sure that nobody else holds a root token.      *)
LEMMA FollowsStoring ==
  ASSUME IInv, NEW o \in Operators, Step(o),
         \/ Store(o) \/ StoreEnds(o)
         \/ List(o) \/ Lookup(o) \/ Relist(o) \/ Expel(o) \/ Expelled(o)
  PROVE  Follows(o)'
<1>0. /\ DOMAIN pc = Operators /\ Follows(o) /\ Belongs(o) /\ TypeOK
  BY DEF IInv, StepsBelong, StepsFollow, TypeOK
<1>1. /\ pc[o] \in {"store", "list", "lookup", "expel"} /\ ~fate'[o]
      /\ UNCHANGED <<seal, command, selection>>
  BY <1>0 DEF Store, StoreEnds, List, Lookup, Relist, Expel, Expelled, Work, Goto, localVars, Follows,
     SameFiles
<1>2. Initialized(o) /\ Deliverable(o)
  BY <1>0, <1>1 DEF Follows, PreparerSteps
<1>3. Initialized(o)'
  BY <1>1, <1>2 DEF Initialized
<1>4. Deliverable(o)'
  <2>1. selection[o] \in Selections
    BY <1>0, <1>1 DEF Belongs
  <2>2. AllStored(o) => AllStored(o)'
    BY <1>1, <2>1, StoreFrame
  <2> QED
    BY <1>1, <1>2, <2>2 DEF Deliverable
<1>5. CASE Store(o)
  <2>1. pc'[o] = "store"
    BY <1>5 DEF Store
  <2> QED
    BY <1>1, <1>3, <1>4, <2>1 DEF Follows, PreparerSteps
<1>6. CASE ~Store(o)
  <2>1. UNCHANGED stored
    BY <1>6 DEF StoreEnds, List, Lookup, Relist, Expel, Expelled, SameBao, remoteVars
  <2>2. CASE pc'[o] = "revoke"
    BY <1>1, <2>2, FollowsDismissal
  <2>3. CASE pc'[o] # "revoke"
    <3>1. pc'[o] \in {"list", "lookup", "expel", "handover"}
      BY <1>0, <1>1, <1>6, <2>3 DEF StoreEnds, List, Lookup, Relist, Expel, Expelled, Work, Goto,
         Dismiss
    <3>2. Unstored = {}
      <4>1. CASE StoreEnds(o)
        BY <1>0, <2>3, <4>1 DEF StoreEnds, Dismiss
      <4>2. CASE ~StoreEnds(o)
        BY <1>0, <1>6, <4>2 DEF List, Lookup, Relist, Expel, Expelled, Work, Goto, Follows
      <4> QED
        BY <4>1, <4>2
    <3>3. Unstored' = {}
      BY <1>1, <2>1, <3>2 DEF Unstored, PendingPasswords
    <3> QED
      BY <1>1, <1>3, <1>4, <3>1, <3>3 DEF Follows, PreparerSteps
  <2> QED
    BY <2>2, <2>3
<1> QED
  BY <1>5, <1>6

(* What was delivered is stored.                                           *)
LEMMA DeliveredIsStored ==
  ASSUME IInv, NEW o \in Operators, pc[o] = "handover"
  PROVE  AllStored(o) /\ selection[o] \in Selections
<1>1. selection[o] \in Selections /\ selection[o] \subseteq Passwords
  BY PasswordsOf DEF IInv, StepsBelong, Belongs
<1>2. seal \in Kit /\ Deliverable(o) /\ Unstored = {}
  BY DEF IInv, StepsFollow, Follows, PreparerSteps, Initialized
<1>3. CASE seal.pending = NothingPending
  BY <1>1, <1>2, <1>3 DEF Deliverable
<1>4. CASE seal.pending # NothingPending
  <2>1. seal.bound = selection[o]
    BY <1>2, <1>4 DEF Deliverable
  <2>2. \A p \in selection[o] : seal.pending[p] # 0 \/ stored[p] # 0
    BY <1>2, <1>4, <2>1, KitOrNone DEF IInv, PendingStands
  <2>3. \A p \in selection[o] : stored[p] # 0
    BY <1>1, <1>2, <2>2 DEF Unstored, PendingPasswords
  <2> QED
    BY <1>1, <2>3 DEF AllStored
<1> QED
  BY <1>3, <1>4

LEMMA FollowsEnding ==
  ASSUME IInv, NEW o \in Operators, Step(o),
         \/ InspectAccessors(o) \/ Handover(o) \/ Seeded(o) \/ RevokeSelf(o) \/ RevokeAndEnd(o)
         \/ RevokeRefused(o) \/ Complete(o) \/ Fail(o) \/ Crash(o)
  PROVE  Follows(o)'
<1>0. /\ DOMAIN pc = Operators /\ DOMAIN fate = Operators /\ Follows(o) /\ Belongs(o) /\ TypeOK
  BY DEF IInv, StepsBelong, StepsFollow, TypeOK
<1>1. CASE RevokeAndEnd(o) \/ RevokeRefused(o) \/ Complete(o) \/ Crash(o)
  BY <1>0, <1>1, FollowsEnd DEF RevokeAndEnd, RevokeRefused, Complete, Crash
<1>2. CASE Fail(o)
  BY <1>0, <1>2, FollowsDismissal DEF Fail, Dismiss, Guarded, localVars, Follows
<1>3. CASE InspectAccessors(o)
  BY <1>0, <1>3 DEF InspectAccessors, Work, Goto, Belongs, Follows, PreparerSteps
<1>4. CASE RevokeSelf(o)
  BY <1>0, <1>4 DEF RevokeSelf, Goto, localVars, SameFiles, Follows, PreparerSteps
<1>5. CASE Seeded(o)
  BY <1>0, <1>5, SeededWrites DEF Seeded, Goto, Holds, Follows, PreparerSteps
<1>6. CASE Handover(o)
  <2>1. /\ pc[o] = "handover" /\ pc'[o] = AfterHandover(o)
        /\ fate'[o] = (AfterHandover(o) = "revoke")
        /\ UNCHANGED <<command, selection, stored>>
    BY <1>0, <1>6, HandoverWrites DEF Handover, Goto, SameBao, remoteVars
  <2>2. Initialized(o) /\ Holds(seal', seal.checkpoint, seal.material, NothingPending, None, FALSE)
    BY <1>6, HandoverWrites
  <2>3. AllStored(o)'
    BY <2>1, DeliveredIsStored DEF AllStored
  <2>4. CASE AfterHandover(o) = "seeded"
    <3>1. seal.checkpoint = "initialized"
      BY <2>4 DEF AfterHandover
    <3> QED
      BY <2>1, <2>2, <2>3, <2>4, <3>1 DEF Holds, Follows, PreparerSteps
  <2>5. CASE AfterHandover(o) = "revoke"
    <3>1. command[o] = "bootstrap" => seal.checkpoint = "seeded"
      BY <2>2, <2>5 DEF AfterHandover, Initialized
    <3> QED
      BY <2>1, <2>2, <2>5, <3>1 DEF Holds, Follows, PreparerSteps
  <2> QED
    BY <2>4, <2>5 DEF AfterHandover
<1> QED
  BY <1>1, <1>2, <1>3, <1>4, <1>5, <1>6

LEMMA FollowsStep == ASSUME IInv, NEW o \in Operators, Step(o) PROVE StepsFollow'
<1>1. \A x \in Operators : x # o => Follows(x)'
  BY FollowsElsewhere
<1>2. Follows(o)'
  BY FollowsLaunch, FollowsGenerateRoot, FollowsDelivery, FollowsStoring, FollowsEnding
  DEF Step, Prepare
<1> QED
  BY <1>1, <1>2 DEF StepsFollow
(***************************************************************************)
(* Passwords                                                               *)
(***************************************************************************)
(* The steps that touch no password, in the file, in OpenBao or shown.     *)
LEMMA PasswordFrame ==
  ASSUME IInv, NEW o \in Operators, Step(o), seal \in Kit,
         ~Stage(o), ~Show(o), ~Acknowledge(o), ~Store(o), ~Handover(o), ~Seeded(o)
  PROVE  /\ UNCHANGED <<stored, shown, saved>>
         /\ seal' \in Kit /\ seal'.pending = seal.pending /\ seal'.bound = seal.bound
         /\ seal'.acknowledged = seal.acknowledged
<1>1. CASE Quiet(o)
  BY <1>1, QuietFrame DEF SameWorld
<1>2. CASE CreateSeal(o) \/ Initialize(o) \/ WritePackage(o)
  BY <1>2 DEF CreateSeal, Initialize, WritePackage, SameFiles, SameBao, SameRest, remoteVars,
     historyVars
<1>3. CASE Record(o) \/ Packaged(o)
  BY <1>3, RecordWrites, PackagedWrites DEF Record, Packaged, SameBao, SameRest, remoteVars,
     historyVars, Holds
<1>4. CASE Complete(o)
  <2>1. SameBao /\ SameRest
    BY <1>4 DEF Complete
  <2> QED
    BY <1>4, <2>1, CompleteWrites DEF SameBao, SameRest, remoteVars, historyVars, Holds
<1>5. ~WriteNew(o) /\ ~TearSealFile(o)
  BY AbsenceAssumption DEF WriteNew, Goto, TearSealFile, IInv, StepsFollow, Follows
<1> QED
  BY <1>1, <1>2, <1>3, <1>4, <1>5, StepCases DEF Writes

LEMMA NoFileYet ==
  ASSUME IInv, NEW o \in Operators, Step(o), seal \notin Kit
  PROVE  /\ UNCHANGED <<stored, shown, saved>>
         /\ seal' \in Kit => seal' = NewKit
<1>1. CASE Quiet(o)
  BY <1>1, QuietFrame DEF SameWorld
<1>2. CASE Writes(o)
  <2>1. WriteNew(o) \/ TearSealFile(o)
    BY <1>2 DEF Writes, CreateSeal, Initialize, Record, WritePackage, Packaged, Stage, Show,
       Acknowledge, Store, Handover, Seeded, Complete, Goto, Work, Dismiss, IInv, StepsFollow,
       Follows, Initialized, PreparerSteps
  <2> QED
    BY <2>1, AbsenceAssumption DEF WriteNew, TearSealFile, SameBao, SameRest, remoteVars, historyVars
<1> QED
  BY <1>1, <1>2, StepCases

(* What one terminal's steps do to the password they concern.              *)
LEMMA StoreWrites ==
  ASSUME IInv, NEW o \in Operators, Store(o)
  PROVE  /\ seal \in Kit /\ seal.acknowledged /\ UNCHANGED <<seal, shown, saved>>
         /\ \E q \in PendingPasswords : /\ stored[q] = 0
                                        /\ stored' = [stored EXCEPT ![q] = seal.pending[q]]
<1>1. seal \in Kit /\ Deliverable(o)
  BY DEF Store, IInv, StepsFollow, Follows, Initialized, PreparerSteps
<1>2. PICK q \in Unstored : stored' = [stored EXCEPT ![q] = seal.pending[q]]
  BY DEF Store
<1>3. q \in PendingPasswords /\ stored[q] = 0
  BY DEF Unstored
<1>4. seal.acknowledged
  BY <1>1, <1>3, PendingMeans DEF Deliverable
<1>5. UNCHANGED <<seal, shown, saved>>
  BY DEF Store, SameFiles, SameRest, historyVars
<1> QED
  BY <1>1, <1>2, <1>3, <1>4, <1>5

LEMMA KitPending ==
  ASSUME seal \in Kit, NEW p \in Passwords
  PROVE  /\ seal.pending[p] \in 0..MaxValues
         /\ seal.pending = NothingPending => seal.pending[p] = 0
BY KitFields DEF NothingPending

LEMMA PendingStep == ASSUME IInv, NEW o \in Operators, Step(o) PROVE PendingStands'
<1>0. /\ TypeOK /\ TypeOK' /\ PendingStands /\ DOMAIN stored = Passwords
      /\ stored \in [Passwords -> 0..MaxValues]
  BY TypeStep DEF IInv, TypeOK
<1>1. HasKit' => seal' \in Kit
  BY <1>0 DEF TypeOK, HasKit
<1>2. seal \in Kit => HasKit
  BY <1>0, KitOrNone
<1>3. CASE seal \notin Kit
  <2>1. HasKit' => seal'.pending = NothingPending
    BY <1>1, <1>3, NoFileYet, NewKitType
  <2>2. HasKit' => \A p \in Passwords : seal'.pending[p] = 0
    BY <2>1 DEF NothingPending
  <2> QED
    BY <2>1, <2>2 DEF PendingStands, PendingPasswords
<1>4. CASE seal \in Kit /\ ~Stage(o) /\ ~Show(o) /\ ~Acknowledge(o) /\ ~Store(o) /\ ~Handover(o)
           /\ ~Seeded(o)
  BY <1>0, <1>2, <1>4, PasswordFrame DEF PendingStands, PendingPasswords
<1>5. CASE Stage(o)
  <2>1. UNCHANGED <<stored, saved>>
    BY <1>5 DEF Stage, SameBao, remoteVars, historyVars
  <2>2. selection[o] \in Selections
    BY <1>5 DEF Stage, Work, Goto, IInv, StepsBelong, Belongs
  <2>3. /\ seal'.pending = [p \in Passwords |-> IF p \in Planned(o) THEN generated + 1 ELSE 0]
        /\ seal'.bound = selection[o] /\ seal'.acknowledged = FALSE
        /\ generated + 1 # 0 /\ Planned(o) \subseteq Passwords
    <3>1. generated + 1 \in 1..MaxValues
      BY <1>5, StageWrites
    <3>2. generated + 1 # 0
      BY <3>1, BootstrapAssumption
    <3> QED
      BY <1>5, <3>2, StageWrites DEF Holds
  <2>4. \A p \in selection[o] : p \in Passwords /\ (p \in Planned(o) \/ stored[p] # 0)
    BY <2>2, PasswordsOf DEF Planned
  <2>5. \A p \in PendingPasswords' : p \in Planned(o)
    BY <2>3 DEF PendingPasswords
  <2>6. \A p \in Planned(o) : stored[p] = 0
    BY DEF Planned
  <2>7. \A p \in selection[o] : seal'.pending[p] # 0 \/ stored'[p] # 0
    BY <2>1, <2>3, <2>4
  <2> QED
    BY <2>1, <2>2, <2>3, <2>5, <2>6, <2>7 DEF PendingStands
<1>6. CASE Show(o)
  BY <1>0, <1>6 DEF Show, SameFiles, SameBao, remoteVars, PendingStands, PendingPasswords, HasKit
<1>7. CASE Acknowledge(o)
  <2>1. /\ UNCHANGED stored /\ \A p \in Passwords : saved'[p] = saved[p] \cup ShownTo(p)
    BY <1>7 DEF Acknowledge, SameBao, remoteVars
  <2>2. /\ seal \in Kit /\ seal'.pending = seal.pending /\ seal'.bound = seal.bound
    BY <1>7, AcknowledgeWrites DEF Holds
  <2> QED
    BY <1>0, <1>2, <2>1, <2>2 DEF PendingStands, PendingPasswords, ShownTo
<1>8. CASE Store(o)
  <2>1. seal \in Kit /\ UNCHANGED <<seal, saved>>
    BY <1>8, StoreWrites
  <2>2. PICK q \in PendingPasswords : stored[q] = 0 /\ stored' = [stored EXCEPT ![q] = seal.pending[q]]
    BY <1>8, StoreWrites
  <2>3. stored'[q] = seal.pending[q] /\ \A p \in Passwords : p # q => stored'[p] = stored[p]
    BY <1>0, <2>2 DEF PendingPasswords
  <2>4. seal.pending[q] # 0
    BY DEF PendingPasswords
  <2>5. seal.pending # NothingPending => seal.bound \in Selections /\ seal.bound \subseteq Passwords
    BY <1>0, <1>2, <2>1, PasswordsOf DEF PendingStands
  <2> QED
    BY <1>0, <1>2, <2>1, <2>3, <2>4, <2>5 DEF PendingStands, PendingPasswords
<1>9. CASE Handover(o) \/ Seeded(o)
  <2>1. seal'.pending = NothingPending
    BY <1>9, HandoverWrites, SeededWrites DEF Holds
  <2>2. \A p \in Passwords : seal'.pending[p] = 0
    BY <2>1 DEF NothingPending
  <2> QED
    BY <2>1, <2>2 DEF PendingStands, PendingPasswords
<1> QED
  BY <1>3, <1>4, <1>5, <1>6, <1>7, <1>8, <1>9

LEMMA ShownStep == ASSUME IInv, NEW o \in Operators, Step(o) PROVE ShownStands'
<1>0. /\ TypeOK /\ TypeOK' /\ ShownStands /\ PendingStands /\ DOMAIN stored = Passwords
      /\ \A p \in Passwords : \A v \in shown[p] : v # 0
  BY TypeStep DEF IInv, TypeOK
<1>1. seal \in Kit <=> HasKit
  BY <1>0, KitOrNone
<1>2. seal' \in Kit <=> HasKit'
  BY <1>0, AbsenceAssumption DEF TypeOK, HasKit
<1>3. CASE seal \notin Kit
  BY <1>0, <1>1, <1>3, NoFileYet DEF ShownStands
<1>4. CASE seal \in Kit /\ ~Stage(o) /\ ~Show(o) /\ ~Acknowledge(o) /\ ~Store(o) /\ ~Handover(o)
           /\ ~Seeded(o)
  BY <1>0, <1>1, <1>2, <1>4, PasswordFrame DEF ShownStands
<1>5. CASE Stage(o) \/ Seeded(o)
  <2>1. seal \in Kit /\ seal.pending = NothingPending
    BY <1>5, StageWrites, SeededWrites
  <2>2. UNCHANGED <<stored, shown, saved>>
    <3>1. SameBao /\ UNCHANGED historyVars
      BY <1>5 DEF Stage, Seeded, SameRest
    <3> QED
      BY <3>1 DEF SameBao, remoteVars, historyVars
  <2>3. \A p \in Passwords : \A v \in shown[p] : stored[p] = v
    BY <1>0, <2>1, KitPending DEF ShownStands
  <2> QED
    BY <1>0, <2>2, <2>3 DEF ShownStands
<1>6. CASE Show(o)
  <2>1. /\ UNCHANGED <<seal, stored, saved>>
        /\ \A p \in Passwords : shown'[p] = shown[p] \cup ShownTo(p)
    BY <1>6 DEF Show, SameFiles, SameBao, remoteVars
  <2>2. seal \in Kit
    BY <1>6 DEF Show, IInv, StepsFollow, Follows, Initialized, PreparerSteps
  <2> QED
    BY <1>0, <1>1, <1>2, <2>1, <2>2 DEF ShownStands, ShownTo
<1>7. CASE Acknowledge(o)
  <2>1. /\ UNCHANGED <<stored, shown>>
        /\ \A p \in Passwords : /\ saved'[p] = saved[p] \cup ShownTo(p)
                                /\ ShownTo(p) \subseteq shown[p]
    BY <1>7 DEF Acknowledge, SameBao, remoteVars
  <2>2. seal \in Kit /\ seal' \in Kit /\ seal'.pending = seal.pending
    BY <1>7, AcknowledgeWrites DEF Holds
  <2> QED
    BY <1>0, <1>1, <1>2, <2>1, <2>2 DEF ShownStands
<1>8. CASE Store(o)
  <2>1. seal \in Kit /\ seal.acknowledged /\ UNCHANGED <<seal, shown, saved>>
    BY <1>8, StoreWrites
  <2>2. PICK q \in PendingPasswords : stored[q] = 0 /\ stored' = [stored EXCEPT ![q] = seal.pending[q]]
    BY <1>8, StoreWrites
  <2>3. q \in Passwords /\ seal.pending[q] \in saved[q]
    BY <1>0, <1>1, <2>1, <2>2 DEF PendingStands, PendingPasswords
  <2>4. stored'[q] = seal.pending[q] /\ \A p \in Passwords : p # q => stored'[p] = stored[p]
    BY <1>0, <2>2, <2>3
  <2>5. \A v \in shown[q] : seal.pending[q] = v
    BY <1>0, <2>2, <2>3 DEF ShownStands
  <2> QED
    BY <1>0, <1>1, <1>2, <2>1, <2>3, <2>4, <2>5 DEF ShownStands
<1>9. CASE Handover(o)
  <2>1. Persisted
    BY <1>9, HandoverWrites
  <2>2. UNCHANGED <<stored, shown, saved>>
    <3>1. SameBao /\ SameRest
      BY <1>9 DEF Handover
    <3> QED
      BY <3>1 DEF SameBao, SameRest, remoteVars, historyVars
  <2>3. \A p \in Passwords : \A v \in shown[p] : stored[p] = v
    BY <1>0, <2>1 DEF ShownStands, Persisted, PendingPasswords
  <2> QED
    BY <1>0, <2>2, <2>3 DEF ShownStands
<1> QED
  BY <1>3, <1>4, <1>5, <1>6, <1>7, <1>8, <1>9

(* What was shown is one value.                                            *)
LEMMA ShownOnce ==
  ASSUME IInv
  PROVE  SavedPasswordsStand
<1> SUFFICES ASSUME NEW p \in Passwords
             PROVE  /\ Cardinality(shown[p]) <= 1
                    /\ stored[p] # 0 => stored[p] \in saved[p]
                    /\ \A v \in saved[p] : stored[p] = v \/ (HasKit /\ seal.pending[p] = v)
  BY DEF SavedPasswordsStand
<1>0. TypeOK /\ ShownStands /\ PendingStands /\ \A v \in shown[p] : v # 0
  BY DEF IInv, TypeOK
<1>1. ASSUME NEW v \in shown[p], NEW w \in shown[p] PROVE v = w
  <2>1. ASSUME HasKit, seal.pending[p] # 0 PROVE stored[p] \in {0, seal.pending[p]}
    BY <1>0, <2>1 DEF PendingStands, PendingPasswords
  <2> QED
    BY <1>0, <2>1 DEF ShownStands
<1>2. Cardinality(shown[p]) <= 1
  <2>1. CASE shown[p] = {}
    BY <2>1, FS_EmptySet
  <2>2. CASE shown[p] # {}
    <3>1. PICK v \in shown[p] : TRUE
      BY <2>2
    <3>2. shown[p] = {v}
      BY <1>1, <3>1
    <3>3. Cardinality({v}) = 1
      BY FS_Singleton
    <3> QED
      BY <3>2, <3>3
  <2> QED
    BY <2>1, <2>2
<1> QED
  BY <1>0, <1>2 DEF ShownStands
(***************************************************************************)
(* Root tokens                                                             *)
(***************************************************************************)
LEMMA TokensGrow ==
  ASSUME IInv, NEW o \in Operators, Step(o)
  PROVE  \A t \in roots' : t \in roots \/ t > minted
<1>0. minted \in Nat
  BY BootstrapAssumption DEF IInv, TypeOK
<1>1. CASE Mint
  BY <1>0, <1>1 DEF Mint
<1>2. CASE roots' \subseteq roots
  BY <1>2
<1>3. Launch(o) => Mint \/ roots' \subseteq roots
  BY DEF Launch, Start, Load, LoadRefused, WriteNew, TearSealFile, CreateSeal, WaitEndpoint,
     EndpointTimeout, Inspect, InspectRefused, Initialize, Record, WritePackage, Packaged,
     SameBao, tokenVars
<1>4. GenerateRoot(o) => Mint \/ roots' \subseteq roots
  BY DEF GenerateRoot, StartRoot, StartRootRefused, FirstShare, SecondShare, ShareRejected,
     ShareUnanswered, Cancel, SameBao, tokenVars
<1>5. Expel(o) \/ RevokeSelf(o) \/ RevokeAndEnd(o) => roots' \subseteq roots
  BY DEF Expel, RevokeSelf, RevokeAndEnd
<1>6. (Prepare(o) /\ ~Expel(o) /\ ~RevokeSelf(o) /\ ~RevokeAndEnd(o)) \/ Fail(o) \/ Crash(o) =>
        roots' \subseteq roots
  BY DEF Prepare, InspectAccessors, Stage, StageNothing, StageRefused, Show, Acknowledge, Store,
     StoreEnds, List, Lookup, Relist, Expelled, Handover, Seeded,
     RevokeRefused, Complete, Fail, Crash, SameBao, tokenVars
<1> QED
  BY <1>1, <1>2, <1>3, <1>4, <1>5, <1>6 DEF Step

LEMMA ListingElsewhere ==
  ASSUME IInv, NEW o \in Operators, Step(o), NEW x \in Operators, x # o
  PROVE  Listing(x)'
<1>1. SameAt(x) /\ Listing(x)
  BY OthersFrame DEF IInv, TokensListed
<1>2. listed[x] \in Nat /\ minted \in Nat /\ minted' \in Nat /\ minted <= minted'
  BY BaoAdvances, TypeStep, BootstrapAssumption DEF IInv, TypeOK
<1>3. roots' \subseteq Nat
  BY TypeStep, BootstrapAssumption DEF TypeOK
<1>4. \A t \in roots' : t \in roots \/ t > listed[x]
  <2>1. listed[x] <= minted
    BY <1>1 DEF Listing
  <2>2. ASSUME NEW t \in roots', t > minted PROVE t > listed[x]
    BY <1>2, <1>3, <2>1, <2>2
  <2> QED
    BY <2>2, TokensGrow
<1>5. listed'[x] <= minted'
  BY <1>1, <1>2 DEF Listing, SameAt
<1> QED
  BY <1>1, <1>4, <1>5 DEF Listing, SameAt

(* Before the listing a terminal knows nothing.                            *)
LEMMA ListingNothing ==
  ASSUME IInv, NEW o \in Operators, Step(o), listed'[o] \in {0, listed[o]},
         \/ pc'[o] \notin {"lookup", "expel", "handover", "seeded", "revoke", "complete"}
         \/ pc'[o] = "revoke" /\ (~fate'[o] \/ command'[o] # "bootstrap")
  PROVE  Listing(o)'
<1>1. listed[o] <= minted
  BY DEF IInv, TokensListed, Listing
<1>2. listed[o] \in Nat /\ minted \in Nat /\ minted' \in Nat /\ minted <= minted'
  BY BaoAdvances, TypeStep, BootstrapAssumption DEF IInv, TypeOK
<1>3. listed'[o] <= minted'
  BY <1>1, <1>2
<1> QED
  BY <1>3 DEF Listing

LEMMA ListingStep == ASSUME IInv, NEW o \in Operators, Step(o) PROVE TokensListed'
<1>0. /\ DOMAIN pc = Operators /\ DOMAIN command = Operators /\ DOMAIN listed = Operators
      /\ DOMAIN others = Operators /\ DOMAIN fate = Operators
      /\ Listing(o) /\ Belongs(o) /\ Follows(o) /\ minted \in Nat /\ listed[o] \in Nat
      /\ roots \subseteq Nat
  BY BootstrapAssumption DEF IInv, TypeOK, TokensListed, StepsBelong, StepsFollow
<1>. SUFFICES Listing(o)'
  BY ListingElsewhere DEF TokensListed
<1>1. ASSUME NEW r, End(o, r) PROVE Listing(o)'
  BY <1>0, <1>1, ListingNothing DEF End
<1>2. CASE \/ LoadRefused(o) \/ TearSealFile(o) \/ EndpointTimeout(o) \/ InspectRefused(o)
           \/ StartRootRefused(o) \/ Cancel(o) \/ RevokeAndEnd(o) \/ RevokeRefused(o)
           \/ Complete(o) \/ Crash(o)
  BY <1>1, <1>2 DEF LoadRefused, TearSealFile, EndpointTimeout, InspectRefused, StartRootRefused,
     Cancel, RevokeAndEnd, RevokeRefused, Complete, Crash
<1>3. CASE (\E c \in Commands, s \in Selections : Start(o, c, s)) \/ WriteNew(o) \/ CreateSeal(o)
           \/ Initialize(o) \/ Record(o) \/ WritePackage(o) \/ Packaged(o)
  BY <1>0, <1>3, ListingNothing DEF Start, WriteNew, CreateSeal, Initialize, Record,
     WritePackage, Packaged, Goto, localVars
<1>4. CASE Load(o) \/ WaitEndpoint(o) \/ Inspect(o)
  BY <1>0, <1>4, ListingNothing DEF Load, AfterLoad, WaitEndpoint, Inspect, AfterInspect, Goto,
     localVars
<1>5. CASE \/ StartRoot(o) \/ FirstShare(o) \/ SecondShare(o) \/ ShareRejected(o)
           \/ ShareUnanswered(o)
  BY <1>0, <1>5, ListingNothing DEF StartRoot, FirstShare, SecondShare, ShareRejected,
     ShareUnanswered, Goto, localVars
<1>6. CASE \/ Stage(o) \/ StageNothing(o) \/ Show(o) \/ Acknowledge(o) \/ Store(o)
  BY <1>0, <1>6, ListingNothing DEF Stage, StageNothing, Show, Acknowledge, Store, Goto, Work,
     localVars
<1>7. CASE StageRefused(o) \/ StoreEnds(o) \/ Fail(o) \/ Relist(o)
  <2>1. UNCHANGED <<listed, fate>> /\ ~fate[o]
    BY <1>0, <1>7 DEF StageRefused, StoreEnds, Fail, Relist, localVars, Follows, Guarded
  <2>2. pc'[o] \in {"revoke", "list"}
    BY <1>0, <1>7 DEF StageRefused, StoreEnds, Fail, Relist, Dismiss, Goto
  <2> QED
    BY <2>1, <2>2, ListingNothing
<1>8. CASE InspectAccessors(o)
  <2>1. command'[o] = "verify" /\ pc'[o] = "revoke" /\ UNCHANGED listed
    BY <1>0, <1>8 DEF InspectAccessors, Work, Goto, Belongs
  <2> QED
    BY <2>1, ListingNothing
<1>9. CASE List(o)
  BY <1>0, <1>9 DEF List, Work, Goto, SameBao, tokenVars, Listing
<1>10. CASE Lookup(o)
  BY <1>0, <1>10 DEF Lookup, Work, Goto, SameBao, tokenVars, localVars, Listing
<1>11. CASE Expel(o)
  <2>1. pc[o] = "expel" /\ ~fate'[o] /\ UNCHANGED <<root, listed, minted>>
    BY <1>0, <1>11 DEF Expel, Follows
  <2>2. CASE pc'[o] = "revoke"
    BY <2>1, <2>2, ListingNothing
  <2>3. CASE pc'[o] # "revoke"
    <3>1. PICK t \in others[o] : /\ roots' = roots \ {t} /\ others' = [others EXCEPT ![o] = @ \ {t}]
                                 /\ UNCHANGED pc
      BY <1>0, <1>11, <2>3 DEF Expel, Dismiss
    <3> QED
      BY <1>0, <2>1, <3>1 DEF Listing
  <2> QED
    BY <2>2, <2>3
<1>12. CASE Expelled(o)
  <2>1. ~fate'[o]
    BY <1>0, <1>12 DEF Expelled, Work, Goto, localVars, Follows
  <2> QED
    BY <1>0, <1>12, <2>1 DEF Expelled, Work, Goto, SameBao, tokenVars, localVars, Listing
<1>13. CASE Handover(o)
  <2>1. /\ pc[o] = "handover" /\ pc'[o] \in {"seeded", "revoke"}
        /\ UNCHANGED <<roots, root, listed, minted>>
    BY <1>0, <1>13, HandoverWrites DEF Handover, AfterHandover, Goto, SameBao, tokenVars
  <2> QED
    BY <1>0, <2>1 DEF Listing
<1>14. CASE Seeded(o)
  <2>1. pc[o] = "seeded" /\ pc'[o] = "revoke" /\ UNCHANGED <<roots, root, listed, minted>>
    BY <1>0, <1>14 DEF Seeded, Goto, SameBao, tokenVars
  <2> QED
    BY <1>0, <2>1 DEF Listing
<1>15. CASE RevokeSelf(o)
  <2>1. /\ pc[o] = "revoke" /\ pc'[o] = "complete" /\ fate[o] /\ command[o] = "bootstrap"
        /\ roots' = roots \ {root[o]} /\ UNCHANGED <<listed, minted>>
    BY <1>0, <1>15 DEF RevokeSelf, Goto, localVars
  <2> QED
    BY <1>0, <2>1 DEF Listing
<1> QED
  BY <1>2, <1>3, <1>4, <1>5, <1>6, <1>7, <1>8, <1>9, <1>10, <1>11, <1>12, <1>13, <1>14, <1>15
  DEF Step, Launch, GenerateRoot, Prepare
(***************************************************************************)
(* Recovery                                                                *)
(***************************************************************************)
LEMMA MaterialStands ==
  ASSUME IInv, NEW o \in Operators, Step(o), initialized, seal \in Kit, seal.material
  PROVE  (seal' \in Kit /\ seal'.material) \/ packages = Shares
<1>1. CASE Quiet(o)
  BY <1>1, QuietFrame DEF SameWorld
<1>2. CASE CreateSeal(o) \/ Initialize(o) \/ Show(o) \/ Store(o) \/ WritePackage(o)
  BY <1>2 DEF CreateSeal, Initialize, Show, Store, SameFiles, WritePackage
<1>3. ~WriteNew(o) /\ ~TearSealFile(o)
  BY AbsenceAssumption DEF WriteNew, Goto, TearSealFile, IInv, StepsFollow, Follows
<1>4. CASE Record(o)
  BY <1>4, RecordWrites DEF Holds
<1>5. CASE Packaged(o)
  BY <1>5 DEF Packaged, AllPackaged
<1>6. CASE Stage(o) \/ Acknowledge(o) \/ Handover(o)
  BY <1>6, StageWrites, AcknowledgeWrites, HandoverWrites DEF Holds
<1>7. ~Seeded(o) /\ ~Complete(o)
  BY SeededWrites, CompleteWrites, KitFields
<1> QED
  BY <1>1, <1>2, <1>3, <1>4, <1>5, <1>6, <1>7, StepCases DEF Writes

(* Whoever has the answer records it, or takes it along.                   *)
LEMMA RecordingStep ==
  ASSUME IInv, NEW o \in Operators, Step(o), NEW x \in Operators, pc[x] = "record"
  PROVE  pc'[x] = "record" \/ (seal' \in Kit /\ seal'.material) \/ lost'
<1>1. CASE x # o
  BY <1>1, OthersFrame DEF IInv, SameAt
<1>2. CASE x = o
  <2>1. Record(o) \/ Crash(o)
    <3>1. Launch(o) => Record(o)
      BY <1>2 DEF Launch, Start, Load, LoadRefused, WriteNew, TearSealFile, CreateSeal, WaitEndpoint,
         EndpointTimeout, Inspect, InspectRefused, Initialize, WritePackage, Packaged, Goto
    <3>2. ~GenerateRoot(o)
      BY <1>2 DEF GenerateRoot, StartRoot, StartRootRefused, FirstShare, SecondShare, ShareRejected,
         ShareUnanswered, Cancel, Goto
    <3>3. ~Prepare(o) /\ ~Fail(o)
      BY <1>2 DEF Prepare, InspectAccessors, Stage, StageNothing, StageRefused, Show, Acknowledge,
         Store, StoreEnds, List, Lookup, Relist, Expel, Expelled, Handover, Seeded, RevokeSelf,
         RevokeAndEnd, RevokeRefused, Complete, Fail, Guarded, Goto, Work
    <3> QED
      BY <3>1, <3>2, <3>3 DEF Step
  <2> QED
    BY <1>2, <2>1, RecordWrites DEF Crash, Holds
<1> QED
  BY <1>1, <1>2

LEMMA SharesStep == ASSUME IInv, NEW o \in Operators, Step(o) PROVE SharesRecoverable'
<1>0. TypeOK /\ TypeOK' /\ SharesRecoverable /\ DOMAIN pc = Operators
  BY TypeStep DEF IInv, RecordsAgree, TypeOK
<1>1. seal' \in Kit => HasKit'
  BY <1>0, AbsenceAssumption DEF TypeOK, HasKit
<1>2. CASE Initialize(o)
  BY <1>0, <1>2 DEF Initialize, Goto, SharesRecoverable
<1>3. CASE UNCHANGED initialized /\ initialized
  <2>1. CASE packages = Shares
    BY <1>0, <2>1, BaoAdvances DEF TypeOK, SharesRecoverable
  <2>2. CASE HasKit /\ seal.material
    BY <1>0, <1>1, <1>3, <2>1, <2>2, KitOrNone, MaterialStands DEF SharesRecoverable
  <2>3. CASE \E x \in Operators : pc[x] = "record"
    BY <1>1, <2>3, RecordingStep DEF SharesRecoverable
  <2>4. CASE lost
    BY <2>4, LossStands DEF SharesRecoverable
  <2> QED
    BY <1>0, <1>3, <2>1, <2>2, <2>3, <2>4 DEF SharesRecoverable
<1> QED
  BY <1>2, <1>3, InitializedFrame DEF SharesRecoverable

LEMMA EarnedStep == ASSUME IInv, NEW o \in Operators, Step(o) PROVE CheckpointsEarned'
<1>0. TypeOK /\ TypeOK' /\ CheckpointsEarned
  BY TypeStep DEF IInv, RecordsAgree
<1>1. HasKit' => seal' \in Kit
  BY <1>0 DEF TypeOK, HasKit
<1>2. seal \in Kit => HasKit
  BY <1>0, KitOrNone
<1>3. /\ initialized => initialized' /\ (packages = Shares => packages' = Shares)
      /\ \A s \in Selections : (\A p \in s : stored[p] # 0) => \A p \in s : stored'[p] # 0
  BY <1>0, BaoAdvances, PasswordsOf DEF TypeOK
<1>4. CASE seal \notin Kit
  BY <1>1, <1>4, NoFileYet, NewKitType DEF CheckpointsEarned
<1>5. ASSUME seal \in Kit, seal' \in Kit, seal'.checkpoint = seal.checkpoint,
             seal'.material = seal.material
      PROVE  CheckpointsEarned'
  BY <1>0, <1>2, <1>3, <1>5 DEF CheckpointsEarned
<1>6. CASE Quiet(o)
  BY <1>0, <1>6, QuietFrame DEF SameWorld, CheckpointsEarned, HasKit
<1>7. CASE Writes(o) /\ seal \in Kit
  <2>1. CASE CreateSeal(o) \/ Initialize(o) \/ Show(o) \/ Store(o) \/ WritePackage(o)
    BY <1>5, <1>7, <2>1 DEF CreateSeal, Initialize, Show, Store, SameFiles, WritePackage
  <2>2. ~WriteNew(o) /\ ~TearSealFile(o)
    BY <1>7, AbsenceAssumption DEF WriteNew, Goto, TearSealFile, IInv, StepsFollow, Follows
  <2>3. CASE Record(o)
    <3>1. initialized
      BY <2>3 DEF Record, Goto, IInv, StepsFollow, Follows
    <3> QED
      BY <1>3, <2>3, <3>1, RecordWrites DEF Holds, CheckpointsEarned
  <2>4. CASE Packaged(o)
    <3>1. initialized /\ packages = Shares
      BY <2>4 DEF Packaged, AllPackaged, Goto, IInv, StepsFollow, Follows
    <3> QED
      BY <1>3, <2>4, <3>1, PackagedWrites DEF Holds, CheckpointsEarned
  <2>5. CASE Stage(o) \/ Acknowledge(o) \/ Handover(o)
    BY <1>5, <1>7, <2>5, StageWrites, AcknowledgeWrites, HandoverWrites DEF Holds
  <2>6. CASE Seeded(o)
    <3>1. seal.checkpoint = "initialized" /\ Holds(seal', "seeded", FALSE, NothingPending, None, FALSE)
      BY <2>6, SeededWrites
    <3>2. initialized' /\ packages' = Shares
      BY <1>0, <1>2, <1>3, <1>7, <3>1 DEF CheckpointsEarned
    <3>3. selection[o] \in Selections /\ \A p \in selection[o] : stored[p] # 0
      BY <2>6 DEF Seeded, Goto, IInv, StepsFollow, StepsBelong, Follows, Belongs, AllStored
    <3>4. \E s \in Selections : \A p \in s : stored'[p] # 0
      BY <1>3, <3>3
    <3> QED
      BY <3>1, <3>2, <3>4 DEF Holds, CheckpointsEarned
  <2>7. CASE Complete(o)
    <3>1. seal.checkpoint = "seeded"
      BY <2>7, CompleteWrites
    <3>2. initialized' /\ packages' = Shares /\ \E s \in Selections : \A p \in s : stored'[p] # 0
      BY <1>0, <1>2, <1>3, <1>7, <3>1 DEF CheckpointsEarned
    <3> QED
      BY <2>7, <3>2, CompleteWrites DEF Holds, CheckpointsEarned
  <2> QED
    BY <1>7, <2>1, <2>2, <2>3, <2>4, <2>5, <2>6, <2>7 DEF Writes
<1> QED
  BY <1>4, <1>6, <1>7, StepCases

(* A refusal that would say that the records contradict each other never   *)
(* meets its condition.                                                    *)
LEMMA RefusalStep == ASSUME IInv, NEW o \in Operators, Step(o) PROVE RefusalsAreEarned'
<1>0. /\ TypeOK /\ CheckpointsEarned /\ SharesRecoverable /\ RefusalsAreEarned /\ SealFirst
      /\ Belongs(o) /\ Follows(o)
  BY DEF IInv, RecordsAgree, StepsBelong, StepsFollow
<1>1. CASE refusal' = refusal
  BY <1>0, <1>1, LossStands DEF RefusalsAreEarned
<1>2. CASE refusal' \in Earned
  BY <1>2 DEF RefusalsAreEarned
<1>3. CASE LoadRefused(o)
  <2>1. refusal' = LoadRefusal(o)
    BY <1>3 DEF LoadRefused, End
  <2>2. ~(seal = None /\ sealSecret)
    BY <1>0, AbsenceAssumption DEF SealFirst
  <2>3. LoadRefusal(o) \in Earned
    BY <2>2 DEF LoadRefusal, Earned, Reasons
  <2> QED
    BY <1>2, <2>1, <2>3
<1>4. CASE InspectRefused(o)
  <2>1. refusal' = InspectRefusal /\ lost' = lost
    BY <1>4 DEF InspectRefused, End, SameRest, historyVars
  <2>2. seal \in Kit /\ HasKit /\ pc[o] = "inspect" /\ command[o] = "bootstrap"
    BY <1>0, <1>4, KitOrNone DEF InspectRefused, Follows, Belongs, BootstrapSteps
  <2>3. ~initialized => seal.checkpoint = "seal-created" /\ ~seal.material
    BY <1>0, <2>2 DEF CheckpointsEarned
  <2>4. initialized /\ seal.checkpoint = "seal-created" /\ ~seal.material => lost
    <3>1. SUFFICES ASSUME initialized, seal.checkpoint = "seal-created", ~seal.material PROVE lost
      OBVIOUS
    <3>2. packages # Shares
      BY <1>0, <3>1 DEF SealFirst, Begun, Shares
    <3>3. ASSUME NEW x \in Operators, pc[x] = "record" PROVE FALSE
      <4>1. command[x] = "bootstrap"
        BY <3>3 DEF IInv, StepsBelong, Belongs, BootstrapSteps
      <4> QED
        BY <2>2, <3>3, <4>1 DEF IInv, PreparersAlone, Preparing
    <3> QED
      BY <1>0, <3>1, <3>2, <3>3 DEF SharesRecoverable
  <2>5. CASE initialized /\ seal.checkpoint = "seal-created" /\ ~seal.material
    <3>1. InspectRefusal = "escalation"
      BY <2>5 DEF InspectRefusal
    <3> QED
      BY <2>1, <2>4, <2>5, <3>1 DEF RefusalsAreEarned
  <2>6. CASE ~(initialized /\ seal.checkpoint = "seal-created" /\ ~seal.material)
    <3>1. InspectRefusal \in Earned
      BY <2>3, <2>6 DEF InspectRefusal, Earned, Reasons
    <3> QED
      BY <1>2, <2>1, <3>1
  <2> QED
    BY <2>5, <2>6
<1>5. CASE StartRootRefused(o)
  <2>1. Initialized(o) /\ HasKit
    BY <1>0, <1>5, KitOrNone DEF StartRootRefused, Follows, Initialized
  <2>2. packages = Shares
    BY <1>0, <2>1 DEF Initialized, CheckpointsEarned
  <2>3. {1, 2} \subseteq packages
    BY <2>2 DEF Shares
  <2> QED
    BY <1>2, <1>5, <2>3 DEF StartRootRefused, End, Earned, Reasons
<1>6. CASE StoreEnds(o)
  <2>1. Initialized(o) /\ Deliverable(o) /\ HasKit /\ selection[o] \in Selections
    BY <1>0, <1>6, KitOrNone DEF StoreEnds, Follows, Belongs, Initialized, PreparerSteps
  <2>2. Missing = {}
    <3>1. Base \subseteq selection[o] /\ selection[o] \subseteq Passwords
      BY <2>1, PasswordsOf
    <3>2. CASE seal.pending = NothingPending
      BY <2>1, <3>1, <3>2 DEF Deliverable, AllStored, Missing
    <3>3. CASE seal.pending # NothingPending
      BY <2>1, <3>1, <3>3 DEF Deliverable, Missing, IInv, PendingStands
    <3> QED
      BY <3>2, <3>3
  <2>3. Differing = {}
    BY <2>1 DEF Differing, IInv, PendingStands
  <2> QED
    BY <1>1, <1>6, <2>2, <2>3 DEF StoreEnds
<1>7. CASE Handover(o)
  BY <1>1, <1>7, HandoverWrites DEF Handover
<1>8. CASE Launch(o) /\ ~LoadRefused(o) /\ ~InspectRefused(o)
  BY <1>1, <1>2, <1>8 DEF Launch, Start, Load, WriteNew, TearSealFile, CreateSeal, WaitEndpoint,
     EndpointTimeout, Inspect, Initialize, Record, WritePackage, Packaged, End, Earned, Reasons
<1>9. CASE GenerateRoot(o) /\ ~StartRootRefused(o)
  BY <1>1, <1>2, <1>9 DEF GenerateRoot, StartRoot, FirstShare, SecondShare, ShareRejected,
     ShareUnanswered, Cancel, End, Earned, Reasons
<1>10. CASE Prepare(o) /\ ~StoreEnds(o) /\ ~Handover(o)
  BY <1>1, <1>2, <1>10 DEF Prepare, InspectAccessors, Stage, StageNothing, StageRefused, Show,
     Acknowledge, Store, List, Lookup, Relist, Expel, Expelled, Seeded, RevokeSelf, RevokeAndEnd,
     RevokeRefused, Complete, Dismiss, End, Earned, Reasons
<1>11. CASE Fail(o) \/ Crash(o)
  BY <1>1, <1>2, <1>11 DEF Fail, Crash, Dismiss, End, Earned
<1> QED
  BY <1>3, <1>4, <1>5, <1>6, <1>7, <1>8, <1>9, <1>10, <1>11 DEF Step

(***************************************************************************)
(* The invariant holds                                                     *)
(***************************************************************************)
LEMMA InitInv == Init => IInv
<1> SUFFICES ASSUME Init PROVE IInv
  OBVIOUS
<1>1. TypeOK
  <2>1. FileTypes /\ StepTypes
    BY DEF Init, FileTypes, StepTypes, Steps
  <2>0. 0 \in 0..MaxValues /\ 0 \in 0..MaxTokens
    BY BootstrapAssumption
  <2>2. BaoTypes /\ HeldTypes
    <3>1. BaoTypes
      BY <2>0 DEF Init, BaoTypes
    <3>2. HeldTypes
      BY <2>0 DEF Init, HeldTypes
    <3> QED
      BY <3>1, <3>2
  <2>3. TokenTypes
    BY BootstrapAssumption DEF Init, TokenTypes
  <2>4. HistoryTypes
    BY DEF Init, HistoryTypes, Earned
  <2> QED
    BY <2>1, <2>2, <2>3, <2>4, TypeParts
<1>2. seal = None /\ ~HasKit /\ seal \notin Kit
  BY AbsenceAssumption DEF Init, HasKit
<1>3. RecordsAgree
  BY <1>2 DEF Init, RecordsAgree, SharesRecoverable, CheckpointsEarned, RefusalsAreEarned, Earned
<1>4. PreparersAlone /\ StepsBelong
  BY AbsenceAssumption DEF Init, PreparersAlone, Preparing, StepsBelong, Belongs, BootstrapSteps,
     PreparerSteps, Commands
<1>5. SealFirst /\ StepsFollow
  BY <1>2 DEF Init, SealFirst, StepsFollow, Follows, PreparerSteps
<1>6. PendingStands /\ ShownStands /\ TokensListed
  BY <1>2 DEF Init, PendingStands, ShownStands, TokensListed, Listing
<1> QED
  BY <1>1, <1>3, <1>4, <1>5, <1>6 DEF IInv

LEMMA StepInv == IInv /\ [Next]_vars => IInv'
<1> SUFFICES ASSUME IInv, [Next]_vars PROVE IInv'
  OBVIOUS
<1>1. CASE Next
  <2>1. PICK o \in Operators : Step(o)
    BY <1>1 DEF Next, Step
  <2>2. SharesRecoverable' /\ CheckpointsEarned' /\ RefusalsAreEarned'
    BY <2>1, SharesStep, EarnedStep, RefusalStep
  <2> QED
    BY <2>1, <2>2, TypeStep, AloneStep, BelongStep, SealFirstStep, FollowsStep, PendingStep, ShownStep,
       ListingStep DEF IInv, RecordsAgree
<1>2. CASE UNCHANGED vars
  <2>1. TypeOK'
    BY <1>2 DEF IInv, TypeOK, vars, remoteVars, tokenVars, localVars, historyVars
  <2>2. RecordsAgree'
    BY <1>2 DEF IInv, RecordsAgree, SharesRecoverable, CheckpointsEarned, RefusalsAreEarned,
       HasKit, vars, remoteVars, tokenVars, localVars, historyVars
  <2>3. PreparersAlone' /\ StepsBelong' /\ SealFirst'
    BY <1>2 DEF IInv, PreparersAlone, Preparing, StepsBelong, Belongs, SealFirst, vars, remoteVars,
       tokenVars, localVars, historyVars
  <2>4. StepsFollow'
    BY <1>2 DEF IInv, StepsFollow, Follows, Initialized, Deliverable, AllStored, Unstored,
       PendingPasswords, vars, remoteVars, tokenVars, localVars, historyVars
  <2>5. PendingStands' /\ ShownStands' /\ TokensListed'
    BY <1>2 DEF IInv, PendingStands, PendingPasswords, ShownStands, HasKit, TokensListed, Listing,
       vars, remoteVars, tokenVars, localVars, historyVars
  <2> QED
    BY <2>1, <2>2, <2>3, <2>4, <2>5 DEF IInv
<1> QED
  BY <1>1, <1>2

LEMMA Invariance == Spec => []IInv
BY InitInv, StepInv, PTL DEF Spec

(***************************************************************************)
(* Theorems                                                                *)
(***************************************************************************)
(* Every record the commands leave behind is one that load accepts, or is  *)
(* missing or torn.                                                        *)
THEOREM RecordsAreValid == Spec => []TypeOK
<1>1. IInv => TypeOK
  BY DEF IInv
<1> QED
  BY <1>1, Invariance, PTL

(* While nobody prepares, the records are those of a clean workstation, or  *)
(* stuck with nothing at stake, or such that a bootstrap goes on from them. *)
LEMMA LeftoversAre == IInv => LeftoversResume
<1> SUFFICES ASSUME IInv, \A o \in Operators : command[o] \in {None, "verify"} PROVE LeftoversResume
  BY DEF LeftoversResume
<1>0. TypeOK /\ CheckpointsEarned /\ SharesRecoverable /\ SealFirst /\ PendingStands
  BY DEF IInv, RecordsAgree
<1>1. HasKit <=> seal \in Kit
  BY <1>0, KitOrNone
<1>2. initialized => sealSecret /\ HasKit
  BY <1>0, <1>1 DEF SealFirst
<1>3. packages # {} => initialized
  BY <1>0, <1>1 DEF SealFirst, CheckpointsEarned, Begun
<1>4. CASE ~sealSecret
  BY <1>2, <1>3, <1>4 DEF LeftoversResume, HasKit, StuckUnsealed
<1>5. CASE sealSecret
  <2>1. HasKit
    BY <1>0, <1>1, <1>5 DEF SealFirst
  <2>2. InspectRefusal \in {None, "already complete"} \/ (InspectRefusal = "escalation" /\ lost)
    <3>1. ~(~initialized /\ (seal.checkpoint # "seal-created" \/ seal.material))
      BY <1>0, <2>1 DEF CheckpointsEarned
    <3>2. ASSUME initialized, seal.checkpoint = "seal-created", ~seal.material PROVE lost
      <4>1. packages # Shares
        BY <1>0, <3>2 DEF SealFirst, Begun, Shares
      <4>2. \A o \in Operators : pc[o] # "record"
        BY AbsenceAssumption DEF IInv, StepsBelong, Belongs, BootstrapSteps
      <4> QED
        BY <1>0, <3>2, <4>1, <4>2 DEF SharesRecoverable
    <3>3. CASE initialized /\ seal.checkpoint = "seal-created" /\ ~seal.material
      BY <3>1, <3>2, <3>3 DEF InspectRefusal
    <3>4. CASE ~(initialized /\ seal.checkpoint = "seal-created" /\ ~seal.material)
      BY <3>1, <3>4 DEF InspectRefusal
    <3> QED
      BY <3>3, <3>4
  <2>3. seal.checkpoint # "seal-created" => {1, 2} \subseteq packages
    BY <1>0, <2>1 DEF CheckpointsEarned, Shares
  <2>4. seal.checkpoint = "seeded" => \E s \in Selections : \A p \in s : stored[p] # 0
    BY <1>0, <2>1 DEF CheckpointsEarned
  <2>5. ASSUME PendingPasswords # {} PROVE seal.bound \in Selections /\ Missing = {} /\ Differing = {}
    <3>1. seal.pending # NothingPending
      BY <2>5 DEF PendingPasswords, NothingPending
    <3>2. seal.bound \in Selections /\ \A p \in seal.bound : seal.pending[p] # 0 \/ stored[p] # 0
      BY <1>0, <2>1, <3>1 DEF PendingStands
    <3>3. Missing = {}
      BY <3>2, PasswordsOf DEF Missing
    <3>4. Differing = {}
      BY <1>0, <2>1 DEF PendingStands, Differing
    <3> QED
      BY <3>2, <3>3, <3>4
  <2> QED
    BY <1>5, <2>1, <2>2, <2>3, <2>4, <2>5 DEF LeftoversResume, SelectionResumes
<1> QED
  BY <1>4, <1>5

(* Whatever crashes, fails or is retried: the recovery shares are never    *)
(* lost unless the answer to the initialization was, the checkpoint in the *)
(* seal file never claims more than is done, and a bootstrap that finds    *)
(* the static seal stored has nothing to refuse in the records that were   *)
(* left, but another selection than theirs.  Before the static seal a      *)
(* killed command may leave a file that has to be cleared by hand, when    *)
(* OpenBao was not initialized yet.                                        *)
THEOREM BootstrapResumes == Spec => []ResumableOnceSealed
<1>1. IInv => ResumableOnceSealed
  BY LeftoversAre DEF IInv, ResumableOnceSealed
<1> QED
  BY <1>1, Invariance, PTL

(* A password has one value ever shown to a human, OpenBao holds only      *)
(* acknowledged values, and an acknowledged value is stored or still to be *)
(* stored.                                                                 *)
THEOREM PasswordsStand == Spec => []SavedPasswordsStand
<1>1. IInv => SavedPasswordsStand
  BY ShownOnce
<1> QED
  BY <1>1, Invariance, PTL

(* When the bootstrap completes, every root token that lives was minted    *)
(* after it listed them.                                                   *)
THEOREM RootsAreGone == Spec => NoRootRetained
<1> DEFINE Gone == \A o \in Operators :
                     pc[o] = "complete" /\ pc'[o] = "idle" /\ HasKit /\ seal'.checkpoint = "complete" =>
                       \A t \in roots : t > listed[o]
<1>1. IInv => Gone
  BY DEF IInv, TokensListed, Listing
<1>2. Spec => [][Gone]_vars
  <2>1. IInv /\ [Next]_vars => [Gone]_vars
    BY <1>1
  <2> HIDE DEF Gone
  <2> QED
    BY <2>1, Invariance, PTL DEF Spec
<1> QED
  BY <1>2 DEF NoRootRetained
=============================================================================
