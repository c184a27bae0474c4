-------------------------- MODULE OpenBaoAccessProofs --------------------------
(***************************************************************************)
(* Proofs about OpenBaoAccess: for any roles, records and selections, and  *)
(* wherever runs are interrupted, grants stay owned, retries go through,   *)
(* a completed run leaves exactly what is selected, and grants move in     *)
(* order.                                                                  *)
(*                                                                         *)
(* GrantsAreOwned alone is not inductive: that completing a run may forget *)
(* the previous ownership rests on what each earlier step of the run has   *)
(* done.  The inductive invariant says so step by step.                    *)
(***************************************************************************)
EXTENDS OpenBaoAccess, TLAPS

(***************************************************************************)
(* The inductive invariant                                                 *)
(***************************************************************************)
Treated == Present(previous) \cup Present(intended)
Paths(r) == IF intended[r] # None THEN intended[r].records ELSE {}
BaseOf(r) == IF r \in BaseRoles THEN OnlyBase ELSE None

(* Identities are told apart: each belongs to one role, remembered or      *)
(* planned, and all have been drawn.                                       *)
OwnedIdentities == \A r \in Present(owned) : owned[r].policy \in used

PlannedIdentities ==
  pc # "idle" =>
    /\ \A r \in Treated : Wanted(r) \in used
    /\ \A r, q \in Treated : Wanted(r) = Wanted(q) => r = q
    /\ \A r \in Present(previous) : previous[r].policy = Wanted(r)

(* What the record says at each step of a run.                             *)
RecordFollows ==
  /\ pc = "remember" => owned = previous
  /\ pc \in Steps \ {"idle", "remember"} => owned = Union

(* Until policies are written nothing is granted that was not before.      *)
NothingNew ==
  pc \in {"remember", "base", "validate", "shrink", "remove"} => OwnedIn(previous)

(* Progress of each loop.                                                  *)
BaseReset ==
  /\ pc = "base" => todo \subseteq BaseRoles /\ \A r \in BaseRoles \ todo : attached[r] # None
  /\ pc \in Steps \ {"idle", "remember", "base"} => \A r \in BaseRoles : attached[r] # None

Shrinking ==
  /\ pc = "shrink" =>
       /\ todo \subseteq Present(previous)
       /\ \A r \in Present(previous) \ todo : policies[previous[r].policy] \subseteq Paths(r)
  /\ pc \in {"remove", "grant", "attach", "complete"} =>
       \A r \in Present(previous) : policies[previous[r].policy] \subseteq Paths(r)

Removing ==
  LET obsolete == Present(previous) \ Present(intended)
  IN /\ pc = "remove" =>
          todo \subseteq obsolete /\ \A r \in obsolete \ todo : attached[r] = BaseOf(r)
     /\ pc \in {"grant", "attach", "complete"} => \A r \in obsolete : attached[r] = BaseOf(r)

Granting ==
  /\ pc \in {"grant", "attach", "complete"} =>
       /\ todo \subseteq Present(intended)
       /\ \A r \in Present(intended) \ todo :
            /\ policies[intended[r].policy] = intended[r].records
            /\ r # current => attached[r] = intended[r].policy
  /\ pc = "attach" => current \in Present(intended) \ todo
  /\ pc \in Steps \ {"attach"} => pc = "idle" \/ current = None
  /\ pc = "complete" => todo = {}

Completed == (done => pc = "idle") /\ CompletedExactly

IInv ==
  /\ TypeOK /\ GrantsAreOwned /\ RetriesGoThrough
  /\ OwnedIdentities /\ PlannedIdentities /\ RecordFollows /\ NothingNew
  /\ BaseReset /\ Shrinking /\ Removing /\ Granting /\ Completed

(***************************************************************************)
(* What the operators give                                                 *)
(***************************************************************************)
(* The union names one reader for every treated role, with its identity,   *)
(* and forgets no path.                                                    *)
LEMMA UnionShape ==
  ASSUME TypeOK,
         \A r \in Present(previous) : previous[r].policy = Wanted(r)
  PROVE  /\ Union \in Ownership
         /\ Present(Union) = Treated
         /\ \A r \in Treated : Union[r].policy = Wanted(r)
         /\ \A r \in Present(previous) : previous[r].records \subseteq Union[r].records
         /\ \A r \in Present(intended) : intended[r].records \subseteq Union[r].records
<1>1. \A r \in Roles : /\ previous[r] # None => previous[r] \in Readers
                       /\ intended[r] # None => intended[r] \in Readers
  BY DEF TypeOK, Ownership
<1>2. \A r \in Present(intended) :
        /\ Union[r] \in Readers
        /\ Union[r].policy = intended[r].policy
        /\ intended[r].records \subseteq Union[r].records
        /\ previous[r] # None => previous[r].records \subseteq Union[r].records
  BY <1>1 DEF Union, Present, Readers
<1>3. \A r \in Roles \ Present(intended) : Union[r] = previous[r]
  BY DEF Union, Present
<1>4. None \notin Readers
  BY AccessAssumption DEF Readers
<1>5. Union \in Ownership
  <2>1. \A r \in Roles : Union[r] \in Readers \cup {None}
    BY <1>1, <1>2, <1>3 DEF Present
  <2>2. Union = [r \in Roles |-> Union[r]]
    BY DEF Union
  <2> QED
    BY <2>1, <2>2 DEF Ownership
<1>6. Present(Union) = Treated
  BY <1>2, <1>3, <1>4 DEF Treated, Present
<1>7. \A r \in Treated : Union[r].policy = Wanted(r)
  BY <1>2, <1>3 DEF Treated, Present, Wanted
<1> QED
  BY <1>2, <1>3, <1>5, <1>6, <1>7 DEF Present

(* What is owned before a run is owned in the union, too.                  *)
LEMMA OwnedInUnion ==
  ASSUME TypeOK, OwnedIn(previous),
         \A r \in Present(previous) : previous[r].policy = Wanted(r)
  PROVE  OwnedIn(Union)
<1>1. \A r \in Present(previous) :
        /\ r \in Present(Union) /\ Union[r].policy = previous[r].policy
        /\ previous[r].records \subseteq Union[r].records
  BY UnionShape DEF Treated
<1> QED
  BY <1>1 DEF OwnedIn, Present

(* The identities in the record belong to one role each.                   *)
LEMMA UnionDistinct ==
  ASSUME TypeOK, PlannedIdentities, pc # "idle"
  PROVE  /\ \A r, q \in Present(Union) : Union[r].policy = Union[q].policy => r = q
         /\ \A r, q \in Present(intended) : intended[r].policy = intended[q].policy => r = q
         /\ \A r, q \in Present(previous) : previous[r].policy = previous[q].policy => r = q
         /\ \A r \in Present(previous), q \in Present(intended) :
              previous[r].policy = intended[q].policy => r = q
BY UnionShape DEF PlannedIdentities, Treated, Present, Wanted

(* A role that fits is never refused.                                      *)
LEMMA OwnedFits ==
  ASSUME TypeOK, NEW o, OwnedIn(o), NEW r \in Roles, NEW policy,
         o[r] # None => policy = o[r].policy
  PROVE  LiveRoleFits(r, policy, o[r] # None)
BY DEF TypeOK, OwnedIn, LiveRoleFits

(***************************************************************************)
(* The invariant is inductive                                              *)
(***************************************************************************)
LEMMA InitInv == Init => IInv
<1> SUFFICES ASSUME Init PROVE IInv
  OBVIOUS
<1>1. TypeOK
  BY AccessAssumption DEF Init, TypeOK, Nothing, Ownership, Steps, Present
<1>2. GrantsAreOwned
  BY AccessAssumption DEF Init, GrantsAreOwned, OwnedIn, Nothing, Present
<1>3. /\ RetriesGoThrough /\ OwnedIdentities /\ PlannedIdentities /\ RecordFollows
      /\ NothingNew /\ BaseReset /\ Shrinking /\ Removing /\ Granting /\ Completed
  BY DEF Init, Nothing, Present, Steps, RetriesGoThrough, OwnedIdentities, PlannedIdentities,
         RecordFollows, NothingNew, BaseReset, Shrinking, Removing, Granting, Completed,
         CompletedExactly
<1> QED
  BY <1>1, <1>2, <1>3 DEF IInv

(* A plan keeps every identity it finds and draws new ones for the rest.   *)
LEMMA PlanStep ==
  ASSUME IInv, NEW selection \in [Roles -> SUBSET Records], PlanAccess(selection)
  PROVE  IInv'
<1> DEFINE activated == {r \in Roles : selection[r] # {} /\ owned[r] = None}
<1>1. PICK fresh \in [activated -> Policies \ used] :
        /\ \A r, q \in activated : fresh[r] = fresh[q] => r = q
        /\ intended' = Selected(selection, fresh)
        /\ used' = used \cup {fresh[r] : r \in activated}
  BY DEF PlanAccess
<1>2. /\ pc = "idle" /\ previous' = owned /\ done' = FALSE /\ todo' = {} /\ current' = None
      /\ owned' = owned /\ policies' = policies /\ attached' = attached /\ deleted' = deleted
  BY DEF PlanAccess, live
<1>3. /\ TypeOK /\ OwnedIn(owned) /\ ~refused /\ OwnedIdentities
  BY DEF IInv, GrantsAreOwned, RetriesGoThrough
<1>4. \A r \in Roles : owned[r] # None => owned[r] \in Readers
  BY <1>3 DEF TypeOK, Ownership
<1>5. \A r \in Roles :
        /\ selection[r] = {} => intended'[r] = None
        /\ selection[r] # {} =>
             intended'[r] = [policy |-> IF owned[r] # None THEN owned[r].policy ELSE fresh[r],
                             records |-> selection[r]]
  <2>1. intended' = Selected(selection, fresh)
    BY <1>1
  <2> QED
    BY <2>1 DEF Selected
<1>6. \A r \in Roles : selection[r] # {} =>
        /\ intended'[r] \in Readers
        /\ owned[r] # None => intended'[r].policy = owned[r].policy
        /\ owned[r] = None => r \in activated /\ intended'[r].policy = fresh[r]
  <2> SUFFICES ASSUME NEW r \in Roles, selection[r] # {}
               PROVE  /\ intended'[r] \in Readers
                      /\ owned[r] # None => intended'[r].policy = owned[r].policy
                      /\ owned[r] = None => r \in activated /\ intended'[r].policy = fresh[r]
    OBVIOUS
  <2> DEFINE policy == IF owned[r] # None THEN owned[r].policy ELSE fresh[r]
  <2>1. intended'[r] = [policy |-> policy, records |-> selection[r]]
    BY <1>5
  <2>2. owned[r] = None => r \in activated
    OBVIOUS
  <2>3. policy \in Policies
    BY <1>1, <1>4, <2>2 DEF Readers
  <2>4. owned[r] # None => policy = owned[r].policy
    OBVIOUS
  <2>5. owned[r] = None => policy = fresh[r]
    OBVIOUS
  <2>6. selection[r] \in (SUBSET Records) \ {{}}
    OBVIOUS
  <2> HIDE DEF policy
  <2> QED
    BY <2>1, <2>2, <2>3, <2>4, <2>5, <2>6 DEF Readers
<1>7. intended' \in Ownership
  <2>1. \A r \in Roles : intended'[r] \in Readers \cup {None}
    BY <1>5, <1>6
  <2>2. intended' = [r \in Roles |-> intended'[r]]
    BY <1>1 DEF Selected
  <2> QED
    BY <2>1, <2>2 DEF Ownership
<1>8. \A r \in Roles :
        /\ intended'[r] # None /\ owned[r] # None => intended'[r].policy = owned[r].policy
        /\ intended'[r] # None /\ owned[r] = None =>
             r \in activated /\ intended'[r].policy = fresh[r]
  BY <1>5, <1>6
<1>9. \A r \in Roles : owned[r] # None => Wanted(r)' = owned[r].policy
  BY <1>2, <1>8 DEF Wanted
<1>10. \A r \in Roles : intended'[r] # None /\ owned[r] = None =>
         r \in activated /\ Wanted(r)' = fresh[r]
  BY <1>8 DEF Wanted
<1>11. Treated' = {r \in Roles : owned[r] # None \/ intended'[r] # None}
  BY <1>2 DEF Treated, Present
<1>12. \A r \in Roles : owned[r] # None => owned[r].policy \in used
  BY <1>3 DEF OwnedIdentities, Present
<1>13. \A r \in activated : fresh[r] \in Policies \ used
  BY <1>1
<1>14. PlannedIdentities'
  <2>1. \A r \in Treated' : Wanted(r)' \in used'
    BY <1>1, <1>9, <1>10, <1>11, <1>12
  <2>2. \A r, q \in Treated' : Wanted(r)' = Wanted(q)' => r = q
    <3> SUFFICES ASSUME NEW r \in Treated', NEW q \in Treated', Wanted(r)' = Wanted(q)'
                 PROVE  r = q
      OBVIOUS
    <3>1. CASE owned[r] # None /\ owned[q] # None
      BY <3>1, <1>3, <1>9, <1>11 DEF TypeOK, Present
    <3>2. CASE owned[r] = None /\ owned[q] = None
      BY <3>2, <1>1, <1>10, <1>11
    <3>3. CASE owned[r] # None /\ owned[q] = None
      BY <3>3, <1>9, <1>10, <1>11, <1>12, <1>13
    <3>4. CASE owned[r] = None /\ owned[q] # None
      BY <3>4, <1>9, <1>10, <1>11, <1>12, <1>13
    <3> QED
      BY <3>1, <3>2, <3>3, <3>4
  <2>3. \A r \in Present(previous)' : previous'[r].policy = Wanted(r)'
    BY <1>2, <1>9 DEF Present
  <2> QED
    BY <2>1, <2>2, <2>3 DEF PlannedIdentities
<1>15. \A r \in Present(previous') \cup Present(intended') :
         LiveRoleFits(r, Wanted(r)', r \in Present(previous'))
  BY <1>2, <1>3, <1>9, <1>11 DEF TypeOK, OwnedIn, LiveRoleFits, Present
<1>16. pc' = "remember" /\ refused' = FALSE
  BY <1>15 DEF PlanAccess
<1>17. TypeOK'
  <2>1. used' \subseteq Policies /\ deleted' \subseteq used'
    BY <1>1, <1>2, <1>3, <1>13 DEF TypeOK
  <2> QED
    BY <2>1, <1>2, <1>3, <1>7, <1>16 DEF TypeOK, Steps, Present
<1>18. OwnedIn(owned)'
  BY <1>2, <1>3 DEF OwnedIn, Present
<1>19. OwnedIdentities'
  BY <1>1, <1>2, <1>3 DEF OwnedIdentities, Present
<1>20. NothingNew'
  BY <1>2, <1>18 DEF NothingNew, OwnedIn, Present
<1>21. /\ RetriesGoThrough' /\ RecordFollows' /\ BaseReset'
       /\ Shrinking' /\ Removing' /\ Granting' /\ Completed'
  BY <1>2, <1>16 DEF RetriesGoThrough, RecordFollows, BaseReset, Shrinking, Removing, Granting,
                     Completed, CompletedExactly, Steps
<1> QED
  BY <1>14, <1>17, <1>18, <1>19, <1>20, <1>21 DEF IInv, GrantsAreOwned

(* The parts of the invariant that only speak of the plan and of identities *)
(* hold on while none of them changes.                                     *)
LEMMA PlanStands ==
  ASSUME IInv, UNCHANGED <<previous, intended, used>>, pc # "idle",
         owned' = owned \/ owned' = Union \/ owned' = intended
  PROVE  OwnedIdentities' /\ PlannedIdentities' /\ Treated' = Treated
<1>1. TypeOK /\ PlannedIdentities /\ OwnedIdentities
  BY DEF IInv
<1>2. PlannedIdentities' /\ Treated' = Treated
  BY <1>1 DEF PlannedIdentities, Treated, Present, Wanted
<1>3. CASE owned' = owned
  BY <1>1, <1>2, <1>3 DEF OwnedIdentities, Present
<1>4. CASE owned' = Union
  BY <1>1, <1>2, <1>4, UnionShape DEF OwnedIdentities, PlannedIdentities, Present
<1>5. CASE owned' = intended
  BY <1>1, <1>2, <1>5 DEF OwnedIdentities, PlannedIdentities, Treated, Present, Wanted
<1> QED
  BY <1>2, <1>3, <1>4, <1>5

LEMMA RememberStep ==
  ASSUME IInv, Remember
  PROVE  IInv'
<1>1. /\ pc = "remember" /\ pc' = "base" /\ owned' = Union /\ todo' = BaseRoles
      /\ UNCHANGED <<policies, attached, previous, intended, current, refused, used, deleted, done>>
  BY DEF Remember, live
<1>2. /\ TypeOK /\ PlannedIdentities /\ OwnedIn(previous) /\ Granting
      /\ \A r \in Present(previous) : previous[r].policy = Wanted(r)
  BY <1>1 DEF IInv, NothingNew, PlannedIdentities
<1>3. OwnedIdentities' /\ PlannedIdentities'
  BY <1>1, PlanStands
<1>4. TypeOK'
  BY <1>1, <1>2, UnionShape, UnionDistinct, AccessAssumption DEF TypeOK, Steps, Present
<1>5. OwnedIn(Union)
  BY <1>2, OwnedInUnion
<1>6. GrantsAreOwned'
  BY <1>1, <1>5 DEF GrantsAreOwned, OwnedIn, Present
<1>7. NothingNew'
  BY <1>1, <1>2 DEF NothingNew, OwnedIn, Present
<1>8. RecordFollows'
  BY <1>1 DEF RecordFollows, Union
<1>9. /\ RetriesGoThrough' /\ BaseReset' /\ Shrinking' /\ Removing' /\ Granting' /\ Completed'
  BY <1>1, <1>2 DEF IInv, RetriesGoThrough, BaseReset, Shrinking, Removing, Granting, Completed,
                    CompletedExactly, Steps
<1> QED
  BY <1>3, <1>4, <1>6, <1>7, <1>8, <1>9 DEF IInv

(* Resetting a Base role detaches a policy; it attaches none.              *)
LEMMA BaseStep ==
  ASSUME IInv, ReconcileBase
  PROVE  IInv'
<1>1. /\ pc = "base" /\ pc' \in {"base", "validate"}
      /\ UNCHANGED <<owned, policies, previous, intended, current, refused, used, deleted, done>>
  BY DEF ReconcileBase
<1>2. /\ TypeOK /\ OwnedIn(previous) /\ OwnedIn(owned) /\ BaseReset /\ owned = Union
  BY <1>1 DEF IInv, NothingNew, GrantsAreOwned, RecordFollows, Steps
<1>3. todo \subseteq BaseRoles /\ \A r \in BaseRoles \ todo : attached[r] # None
  BY <1>1, <1>2 DEF BaseReset
<1>4. OwnedIdentities' /\ PlannedIdentities'
  BY <1>1, PlanStands
<1>5. /\ todo' \subseteq BaseRoles /\ \A r \in BaseRoles \ todo' : attached'[r] # None
      /\ pc' = "validate" => todo' = {}
      /\ attached' \in [Roles -> Policies \cup {None, OnlyBase}]
      /\ \A r \in Roles : attached'[r] \in Policies => attached'[r] = attached[r]
      /\ \A r \in Roles : attached'[r] = OnlyBase => r \in BaseRoles
  <2>1. CASE todo = {}
    BY <2>1, <1>1, <1>2, <1>3 DEF ReconcileBase, TypeOK
  <2>2. CASE todo # {}
    <3>1. PICK r \in todo : /\ attached' = [attached EXCEPT ![r] = OnlyBase]
                            /\ todo' = todo \ {r} /\ pc' = pc
      BY <2>2 DEF ReconcileBase
    <3> QED
      BY <3>1, <1>1, <1>2, <1>3, AccessAssumption DEF TypeOK
  <2> QED
    BY <2>1, <2>2
<1>6. TypeOK'
  BY <1>1, <1>2, <1>5, AccessAssumption DEF TypeOK, Steps, Present
<1>7. OwnedIn(previous)' /\ OwnedIn(owned)'
  BY <1>1, <1>2, <1>5 DEF OwnedIn, Present
<1>8. BaseReset'
  BY <1>1, <1>5 DEF BaseReset
<1>9. RecordFollows'
  BY <1>1, <1>2 DEF RecordFollows, Union
<1>10. /\ RetriesGoThrough' /\ Shrinking' /\ Removing' /\ Granting' /\ Completed'
  BY <1>1 DEF IInv, RetriesGoThrough, Shrinking, Removing, Granting, Completed, CompletedExactly,
              Steps
<1> QED
  BY <1>4, <1>6, <1>7, <1>8, <1>9, <1>10 DEF IInv, GrantsAreOwned, NothingNew

(* Every live role that the run meets is as the record says.               *)
LEMMA RunsOfOwnersFit ==
  ASSUME IInv, pc # "idle", pc # "remember",
         NEW r \in Treated
  PROVE  LiveRoleFits(r, Wanted(r), TRUE)
<1>1. TypeOK /\ OwnedIn(Union) /\ r \in Present(Union) /\ Union[r].policy = Wanted(r)
  BY UnionShape DEF IInv, GrantsAreOwned, RecordFollows, PlannedIdentities, TypeOK
<1> QED
  BY <1>1 DEF TypeOK, OwnedIn, LiveRoleFits, Present

LEMMA ValidateStep ==
  ASSUME IInv, ValidateRoles
  PROVE  IInv'
<1>1. pc = "validate"
  BY DEF ValidateRoles, Phase
<1>2. \A r \in Present(previous) \cup Present(intended) : LiveRoleFits(r, Wanted(r), TRUE)
  BY <1>1, RunsOfOwnersFit DEF Treated
<1>3. /\ pc' = "shrink" /\ todo' = Present(previous)
      /\ UNCHANGED <<owned, policies, attached, previous, intended, current, refused, used, deleted, done>>
  BY <1>2 DEF ValidateRoles, Phase, live
<1>4. TypeOK'
  BY <1>1, <1>3 DEF IInv, TypeOK, Steps, Present
<1>5. GrantsAreOwned' /\ NothingNew' /\ RecordFollows' /\ Shrinking'
  BY <1>1, <1>3 DEF IInv, GrantsAreOwned, NothingNew, OwnedIn, RecordFollows, Union, Steps,
                    Shrinking, Present
<1>6. OwnedIdentities' /\ PlannedIdentities'
  BY <1>1, <1>3, PlanStands
<1>7. RetriesGoThrough' /\ BaseReset' /\ Removing' /\ Granting' /\ Completed'
  BY <1>1, <1>3 DEF IInv, RetriesGoThrough, BaseReset, Removing, Granting, Completed,
                    CompletedExactly, Steps
<1> QED
  BY <1>4, <1>5, <1>6, <1>7 DEF IInv

(* A shrunk policy grants only what stays selected, and touches no other.  *)
LEMMA ShrinkStep ==
  ASSUME IInv, Shrink
  PROVE  IInv'
<1>1. /\ pc = "shrink" /\ pc' = "shrink"
      /\ UNCHANGED <<owned, attached, previous, intended, current, refused, used, done>>
  BY DEF Shrink
<1>2. /\ TypeOK /\ OwnedIn(previous) /\ OwnedIn(owned) /\ Shrinking /\ PlannedIdentities
  BY <1>1 DEF IInv, NothingNew, GrantsAreOwned
<1>3. PICK r \in todo :
        /\ todo' = todo \ {r}
        /\ IF Retained(r) = previous[r].records
           THEN UNCHANGED <<policies, deleted>>
           ELSE /\ policies' = [policies EXCEPT ![previous[r].policy] = Retained(r)]
                /\ deleted' = IF intended[r] = None /\ attached[r] = previous[r].policy
                              THEN deleted \cup {previous[r].policy} ELSE deleted
  BY DEF Shrink
<1>4. r \in Present(previous) /\ r \in Roles /\ previous[r] \in Readers
  BY <1>1, <1>2, <1>3 DEF Shrinking, Present, TypeOK, Ownership
<1>5. previous[r].policy \in Policies /\ previous[r].policy \in used
  BY <1>1, <1>2, <1>4 DEF PlannedIdentities, Treated, Readers
<1>6. policies[previous[r].policy] \subseteq previous[r].records
  BY <1>1, <1>2, <1>4, <1>5, UnionDistinct DEF OwnedIn
<1>7. /\ policies' \in [Policies -> SUBSET Records]
      /\ policies'[previous[r].policy] \subseteq Paths(r)
      /\ \A p \in Policies : policies'[p] \subseteq policies[p] \/ p = previous[r].policy
      /\ policies'[previous[r].policy] \subseteq previous[r].records
      /\ Retained(r) \subseteq previous[r].records
      /\ \A p \in Policies \ {previous[r].policy} : policies'[p] = policies[p]
  <2>1. CASE Retained(r) = previous[r].records
    <3>1. policies' = policies
      BY <2>1, <1>3
    <3>2. previous[r].records \subseteq Paths(r)
      BY <2>1, <1>4 DEF Retained, Paths, Readers
    <3> QED
      BY <3>1, <3>2, <2>1, <1>2, <1>6 DEF TypeOK
  <2>2. CASE Retained(r) # previous[r].records
    <3>1. policies' = [policies EXCEPT ![previous[r].policy] = Retained(r)]
      BY <2>2, <1>3
    <3>2. Retained(r) \subseteq Paths(r) /\ Retained(r) \subseteq previous[r].records
      BY DEF Retained, Paths
    <3>3. previous[r].records \subseteq Records
      BY <1>4 DEF Readers
    <3> QED
      BY <3>1, <3>2, <3>3, <1>2, <1>5 DEF TypeOK
  <2> QED
    BY <2>1, <2>2
<1>8. TypeOK'
  <2>1. deleted' \subseteq used
    BY <1>2, <1>3, <1>5 DEF TypeOK
  <2> QED
    BY <2>1, <1>1, <1>2, <1>3, <1>7 DEF TypeOK, Steps, Present
<1>9. OwnedIn(previous)'
  BY <1>1, <1>2, <1>4, <1>5, <1>7 DEF OwnedIn, Present
<1>10. GrantsAreOwned'
  <2>1. \A q \in Present(previous) :
          /\ q \in Present(owned) /\ owned[q].policy = previous[q].policy
          /\ previous[q].records \subseteq owned[q].records
    BY <1>1, <1>2, UnionShape DEF IInv, RecordFollows, PlannedIdentities, Treated, Steps
  <2> QED
    BY <2>1, <1>1, <1>9 DEF GrantsAreOwned, OwnedIn, Present
<1>11. Shrinking'
  <2>1. todo' \subseteq Present(previous)
    BY <1>1, <1>2, <1>3 DEF Shrinking
  <2>2. ASSUME NEW q \in Present(previous) \ todo'
        PROVE  policies'[previous[q].policy] \subseteq Paths(q)
    <3>1. CASE q = r
      BY <3>1, <1>7
    <3>2. CASE q # r
      <4>1. policies[previous[q].policy] \subseteq Paths(q)
        BY <3>2, <1>1, <1>2, <1>3 DEF Shrinking
      <4>2. previous[q].policy # previous[r].policy
        BY <3>2, <1>1, <1>2, <1>4, UnionDistinct
      <4>3. previous[q].policy \in Policies
        BY <1>2 DEF TypeOK, Ownership, Present, Readers
      <4> QED
        BY <4>1, <4>2, <4>3, <1>7
    <3> QED
      BY <3>1, <3>2
  <2>3. \A q \in Roles : Paths(q)' = Paths(q)
    BY <1>1 DEF Paths
  <2>4. Present(previous)' = Present(previous)
    BY <1>1 DEF Present
  <2>5. \A q \in Present(previous) : q \in Roles
    BY DEF Present
  <2> QED
    BY <2>1, <2>2, <2>3, <2>4, <2>5, <1>1 DEF Shrinking
<1>12. OwnedIdentities' /\ PlannedIdentities'
  BY <1>1, PlanStands
<1>13. RecordFollows'
  BY <1>1 DEF IInv, RecordFollows, Union, Steps
<1>14. RetriesGoThrough' /\ BaseReset' /\ Removing' /\ Granting' /\ Completed'
  BY <1>1 DEF IInv, RetriesGoThrough, BaseReset, Removing, Granting, Completed, CompletedExactly,
              Steps
<1> QED
  BY <1>1, <1>8, <1>9, <1>10, <1>11, <1>12, <1>13, <1>14 DEF IInv, NothingNew

(* Between two loops only the step changes, and what is left to treat.     *)
LEMMA PhaseStep ==
  ASSUME IInv, Shrunk \/ Removed \/ Granted
  PROVE  IInv'
<1>1. /\ \/ pc = "shrink" /\ pc' = "remove" /\ todo' = Present(previous) \ Present(intended)
         \/ pc = "remove" /\ pc' = "grant" /\ todo' = Present(intended)
         \/ pc = "grant" /\ pc' = "complete" /\ todo' = {}
      /\ todo = {}
      /\ UNCHANGED <<owned, policies, attached, previous, intended, current, refused, used, deleted, done>>
  BY DEF Shrunk, Removed, Granted, Phase, live
<1>2. TypeOK /\ OwnedIn(owned)
  BY DEF IInv, GrantsAreOwned
<1>3. TypeOK'
  BY <1>1, <1>2 DEF TypeOK, Steps, Present
<1>4. GrantsAreOwned' /\ NothingNew' /\ RecordFollows'
  BY <1>1 DEF IInv, GrantsAreOwned, NothingNew, OwnedIn, RecordFollows, Union, Steps, Present
<1>5. OwnedIdentities' /\ PlannedIdentities'
  BY <1>1, PlanStands
<1>6. Shrinking'
  BY <1>1 DEF IInv, Shrinking, Present, Paths
<1>7. Removing'
  BY <1>1 DEF IInv, Removing, Present, BaseOf
<1>8. Granting'
  BY <1>1 DEF IInv, Granting, Present, Steps
<1>9. RetriesGoThrough' /\ BaseReset' /\ Completed'
  BY <1>1 DEF IInv, RetriesGoThrough, BaseReset, Completed, CompletedExactly, Steps
<1> QED
  BY <1>3, <1>4, <1>5, <1>6, <1>7, <1>8, <1>9 DEF IInv

LEMMA RemoveStep ==
  ASSUME IInv, RemoveRole
  PROVE  IInv'
<1>1. pc = "remove"
  BY DEF RemoveRole
<1>2. /\ TypeOK /\ OwnedIn(owned) /\ OwnedIn(previous) /\ Removing /\ PlannedIdentities
  BY <1>1 DEF IInv, NothingNew, GrantsAreOwned
<1>3. \A r \in todo : /\ r \in Present(previous) \ Present(intended) /\ r \in Roles
                      /\ LiveRoleFits(r, previous[r].policy, TRUE)
  <2>1. \A r \in todo : r \in Present(previous) /\ r \in Roles /\ r \notin Present(intended)
    BY <1>1, <1>2 DEF Removing, Present
  <2>2. \A r \in todo : LiveRoleFits(r, Wanted(r), TRUE)
    BY <2>1, <1>1, RunsOfOwnersFit DEF Treated
  <2> QED
    BY <2>1, <2>2, <1>1, <1>2 DEF PlannedIdentities
<1>4. PICK r \in todo :
        /\ attached' = [attached EXCEPT ![r] = BaseOf(r)]
        /\ todo' = todo \ {r}
        /\ UNCHANGED <<owned, policies, pc, previous, intended, current>>
        /\ UNCHANGED <<refused, used, deleted, done>>
  BY <1>3 DEF RemoveRole, BaseOf
<1>5. /\ attached' \in [Roles -> Policies \cup {None, OnlyBase}]
      /\ \A q \in Roles : attached'[q] \in Policies => attached'[q] = attached[q]
      /\ \A q \in Roles : attached'[q] = OnlyBase => q \in BaseRoles
      /\ attached'[r] = BaseOf(r)
      /\ \A q \in Roles \ {r} : attached'[q] = attached[q]
  BY <1>2, <1>3, <1>4, AccessAssumption DEF TypeOK, BaseOf
<1>6. TypeOK'
  BY <1>2, <1>4, <1>5, AccessAssumption DEF TypeOK, Steps, Present
<1>7. OwnedIn(owned)' /\ OwnedIn(previous)'
  BY <1>2, <1>4, <1>5 DEF OwnedIn, Present
<1>8. OwnedIdentities' /\ PlannedIdentities'
  BY <1>1, <1>4, PlanStands
<1>9. RecordFollows'
  BY <1>1, <1>4 DEF IInv, RecordFollows, Union, Steps
<1>10. BaseReset'
  BY <1>1, <1>4, <1>5, AccessAssumption DEF IInv, BaseReset, BaseOf, Steps
<1>11. Removing'
  BY <1>1, <1>2, <1>3, <1>4, <1>5 DEF Removing, BaseOf, Present
<1>12. RetriesGoThrough' /\ Shrinking' /\ Granting' /\ Completed'
  BY <1>1, <1>4 DEF IInv, RetriesGoThrough, Shrinking, Paths, Present, Granting, Completed,
                    CompletedExactly, Steps
<1> QED
  BY <1>1, <1>4, <1>6, <1>7, <1>8, <1>9, <1>10, <1>11, <1>12 DEF IInv, GrantsAreOwned, NothingNew

(* The record already allows what a selected policy is now given.          *)
LEMMA WriteStep ==
  ASSUME IInv, WritePolicy
  PROVE  IInv'
<1>1. /\ pc = "grant" /\ pc' = "attach"
      /\ UNCHANGED <<owned, attached, previous, intended, refused, used, deleted, done>>
  BY DEF WritePolicy
<1>2. /\ TypeOK /\ OwnedIn(owned) /\ Granting /\ Shrinking /\ PlannedIdentities /\ owned = Union
      /\ current = None
  BY <1>1 DEF IInv, GrantsAreOwned, RecordFollows, Granting, Steps
<1>3. PICK r \in todo :
        /\ policies' = [policies EXCEPT ![intended[r].policy] = intended[r].records]
        /\ todo' = todo \ {r} /\ current' = r
  BY DEF WritePolicy
<1>4. r \in Present(intended) /\ r \in Roles /\ intended[r] \in Readers
  BY <1>1, <1>2, <1>3 DEF Granting, Present, TypeOK, Ownership
<1>5. intended[r].policy \in Policies /\ intended[r].records \subseteq Records
  BY <1>4 DEF Readers
<1>6. /\ policies' \in [Policies -> SUBSET Records]
      /\ policies'[intended[r].policy] = intended[r].records
      /\ \A p \in Policies \ {intended[r].policy} : policies'[p] = policies[p]
  BY <1>2, <1>3, <1>5 DEF TypeOK
<1>7. TypeOK'
  BY <1>1, <1>2, <1>3, <1>4, <1>6 DEF TypeOK, Steps, Present
<1>8. /\ r \in Present(owned) /\ owned[r].policy = intended[r].policy
      /\ intended[r].records \subseteq owned[r].records
  BY <1>1, <1>2, <1>4, UnionShape DEF PlannedIdentities, Treated, Present, Wanted
<1>9. GrantsAreOwned'
  BY <1>1, <1>2, <1>6, <1>8 DEF GrantsAreOwned, OwnedIn, Present
<1>10. OwnedIdentities' /\ PlannedIdentities'
  BY <1>1, PlanStands
<1>11. Shrinking'
  <2>1. ASSUME NEW q \in Present(previous)
        PROVE  policies'[previous[q].policy] \subseteq Paths(q)
    <3>1. previous[q].policy \in Policies
      BY <1>2 DEF TypeOK, Ownership, Present, Readers
    <3>2. policies[previous[q].policy] \subseteq Paths(q)
      BY <1>1, <1>2 DEF Shrinking
    <3>3. CASE previous[q].policy = intended[r].policy
      BY <3>3, <1>1, <1>2, <1>4, <1>6, UnionDistinct DEF Paths, Present
    <3>4. CASE previous[q].policy # intended[r].policy
      BY <3>1, <3>2, <3>4, <1>6
    <3> QED
      BY <3>3, <3>4
  <2> QED
    BY <2>1, <1>1 DEF Shrinking, Paths, Present
<1>12. Granting'
  <2>1. ASSUME NEW q \in Present(intended) \ todo'
        PROVE  /\ policies'[intended[q].policy] = intended[q].records
               /\ q # r => attached[q] = intended[q].policy
    <3>1. CASE q = r
      BY <3>1, <1>6
    <3>2. CASE q # r
      <4>1. /\ policies[intended[q].policy] = intended[q].records
            /\ attached[q] = intended[q].policy
        BY <3>2, <1>1, <1>2, <1>3, AccessAssumption DEF Granting, Present, TypeOK
      <4>2. intended[q].policy # intended[r].policy
        BY <3>2, <1>1, <1>2, <1>4, UnionDistinct
      <4>3. intended[q].policy \in Policies
        BY <1>2 DEF TypeOK, Ownership, Present, Readers
      <4> QED
        BY <4>1, <4>2, <4>3, <1>6
    <3> QED
      BY <3>1, <3>2
  <2> QED
    BY <2>1, <1>1, <1>2, <1>3, <1>4 DEF Granting, Present, Steps
<1>13. RecordFollows' /\ RetriesGoThrough' /\ NothingNew' /\ BaseReset' /\ Removing' /\ Completed'
  BY <1>1 DEF IInv, RecordFollows, Union, RetriesGoThrough, NothingNew, BaseReset, Removing, BaseOf,
              Present, Completed, CompletedExactly, Steps
<1> QED
  BY <1>7, <1>9, <1>10, <1>11, <1>12, <1>13 DEF IInv

LEMMA AttachStep ==
  ASSUME IInv, AttachPolicy
  PROVE  IInv'
<1>1. pc = "attach"
  BY DEF AttachPolicy
<1>2. /\ TypeOK /\ OwnedIn(owned) /\ Granting /\ Removing /\ PlannedIdentities /\ owned = Union
  BY <1>1 DEF IInv, GrantsAreOwned, RecordFollows, Steps
<1>3. /\ current \in Present(intended) \ todo /\ current \in Roles
      /\ intended[current] \in Readers
  BY <1>1, <1>2 DEF Granting, Present, TypeOK, Ownership
<1>4. LiveRoleFits(current, intended[current].policy, TRUE)
  <2>1. Wanted(current) = intended[current].policy
    BY <1>3 DEF Wanted, Present
  <2>2. LiveRoleFits(current, Wanted(current), TRUE)
    BY <1>1, <1>3, RunsOfOwnersFit DEF Treated
  <2> QED
    BY <2>1, <2>2
<1>5. /\ pc' = "grant" /\ current' = None
      /\ attached' = [attached EXCEPT ![current] = intended[current].policy]
      /\ UNCHANGED <<owned, policies, previous, intended, todo, refused, used, deleted, done>>
  BY <1>4 DEF AttachPolicy
<1>6. /\ attached' \in [Roles -> Policies \cup {None, OnlyBase}]
      /\ attached'[current] = intended[current].policy
      /\ intended[current].policy \in Policies
      /\ \A q \in Roles \ {current} : attached'[q] = attached[q]
  BY <1>2, <1>3, <1>5 DEF TypeOK, Readers
<1>7. TypeOK'
  BY <1>2, <1>5, <1>6, AccessAssumption DEF TypeOK, Steps, Present
<1>8. /\ owned[current] # None /\ owned[current].policy = intended[current].policy
  BY <1>1, <1>2, <1>3, UnionShape DEF PlannedIdentities, Treated, Present, Wanted
<1>9. GrantsAreOwned'
  BY <1>2, <1>5, <1>6, <1>8 DEF GrantsAreOwned, OwnedIn, Present
<1>10. OwnedIdentities' /\ PlannedIdentities'
  BY <1>1, <1>5, PlanStands
<1>11. BaseReset'
  BY <1>1, <1>5, <1>6, AccessAssumption DEF IInv, BaseReset, TypeOK, Steps
<1>12. Removing'
  BY <1>1, <1>2, <1>3, <1>5, <1>6 DEF Removing, BaseOf, Present
<1>13. Granting'
  BY <1>1, <1>2, <1>3, <1>5, <1>6, AccessAssumption DEF Granting, Present, Steps
<1>14. RecordFollows' /\ RetriesGoThrough' /\ NothingNew' /\ Shrinking' /\ Completed'
  BY <1>1, <1>5 DEF IInv, RecordFollows, Union, RetriesGoThrough, NothingNew, Shrinking, Paths,
                    Present, Completed, CompletedExactly, Steps
<1> QED
  BY <1>7, <1>9, <1>10, <1>11, <1>12, <1>13, <1>14 DEF IInv

(* The previous ownership may be forgotten: it grants nothing any more.    *)
LEMMA CompleteStep ==
  ASSUME IInv, CompleteAccess
  PROVE  IInv'
<1>1. /\ pc = "complete" /\ pc' = "idle" /\ owned' = intended /\ done' = TRUE
      /\ UNCHANGED <<policies, attached, previous, intended, todo, current, refused, used, deleted>>
  BY DEF CompleteAccess, live, run
<1>2. /\ TypeOK /\ OwnedIn(Union) /\ PlannedIdentities
  BY <1>1 DEF IInv, GrantsAreOwned, RecordFollows, Steps
<1>3. \A r \in Present(intended) : /\ policies[intended[r].policy] = intended[r].records
                                 /\ attached[r] = intended[r].policy
                                 /\ intended[r] \in Readers
  BY <1>1, AccessAssumption DEF IInv, Granting, Steps, Present, TypeOK, Ownership
<1>4. \A r \in Present(previous) \ Present(intended) :
        policies[previous[r].policy] = {} /\ attached[r] = BaseOf(r)
  BY <1>1 DEF IInv, Shrinking, Removing, Paths, Present
<1>5. \A r \in Treated :
        /\ r \in Present(Union)
        /\ r \in Present(intended) => Union[r].policy = intended[r].policy
        /\ r \notin Present(intended) => Union[r].policy = previous[r].policy
  BY <1>1, <1>2, UnionShape DEF PlannedIdentities, Treated, Present, Wanted
<1>6. Present(Union) = Treated
  BY <1>1, <1>2, UnionShape DEF PlannedIdentities
<1>7. OwnedIn(intended)
  <2>1. ASSUME NEW p \in Policies, policies[p] # {}
        PROVE  \E r \in Present(intended) :
                 intended[r].policy = p /\ policies[p] \subseteq intended[r].records
    <3>1. PICK r \in Treated : Union[r].policy = p
      BY <2>1, <1>2, <1>6 DEF OwnedIn
    <3>2. r \in Present(intended)
      BY <2>1, <3>1, <1>4, <1>5 DEF Treated
    <3> QED
      BY <3>1, <3>2, <1>3, <1>5
  <2>2. ASSUME NEW r \in Roles, attached[r] \in Policies
        PROVE  intended[r] # None /\ intended[r].policy = attached[r]
    <3>1. r \in Treated
      BY <2>2, <1>2, <1>6 DEF OwnedIn, Present
    <3>2. r \in Present(intended)
      BY <2>2, <3>1, <1>4, AccessAssumption DEF Treated, BaseOf
    <3> QED
      BY <3>2, <1>3 DEF Present
  <2> QED
    BY <2>1, <2>2 DEF OwnedIn
<1>8. GrantsAreOwned'
  BY <1>1, <1>7 DEF GrantsAreOwned, OwnedIn, Present
<1>9. TypeOK'
  BY <1>1, <1>2, UnionDistinct DEF TypeOK, Steps, Present
<1>10. OwnedIdentities'
  BY <1>1, PlanStands
<1>11. CompletedExactly'
  <2>1. ASSUME NEW r \in Roles, intended[r] = None
        PROVE  attached[r] = BaseOf(r)
    <3>1. CASE previous[r] # None
      BY <2>1, <3>1, <1>4 DEF Present
    <3>2. CASE previous[r] = None
      <4>1. attached[r] \notin Policies
        BY <2>1, <3>2, <1>2, <1>6 DEF OwnedIn, Treated, Present
      <4>2. r \in BaseRoles => attached[r] # None
        BY <1>1 DEF IInv, BaseReset, Steps
      <4> QED
        BY <4>1, <4>2, <1>2 DEF TypeOK, BaseOf
    <3> QED
      BY <3>1, <3>2
  <2> QED
    BY <2>1, <1>1, <1>3 DEF CompletedExactly, BaseOf, Present
<1>12. /\ PlannedIdentities' /\ RecordFollows' /\ RetriesGoThrough' /\ NothingNew'
       /\ BaseReset' /\ Shrinking' /\ Removing' /\ Granting' /\ (done => pc = "idle")'
  BY <1>1 DEF IInv, PlannedIdentities, RecordFollows, RetriesGoThrough, NothingNew, BaseReset,
              Shrinking, Removing, Granting, Steps
<1> QED
  BY <1>8, <1>9, <1>10, <1>11, <1>12 DEF IInv, Completed

LEMMA InterruptStep ==
  ASSUME IInv, Interrupt
  PROVE  IInv'
<1>1. /\ pc # "idle" /\ pc' = "idle"
      /\ UNCHANGED <<owned, policies, attached, previous, intended, todo, current, refused, used,
                     deleted, done>>
  BY DEF Interrupt, live, run
<1>2. ~done
  BY <1>1 DEF IInv, Completed
<1>3. TypeOK' /\ GrantsAreOwned' /\ OwnedIdentities'
  BY <1>1 DEF IInv, TypeOK, Steps, GrantsAreOwned, OwnedIn, OwnedIdentities, Present
<1>4. /\ PlannedIdentities' /\ RecordFollows' /\ RetriesGoThrough' /\ NothingNew' /\ BaseReset'
      /\ Shrinking' /\ Removing' /\ Granting' /\ Completed'
  BY <1>1, <1>2 DEF IInv, PlannedIdentities, RecordFollows, RetriesGoThrough, NothingNew, BaseReset,
                    Shrinking, Removing, Granting, Completed, CompletedExactly, Steps
<1> QED
  BY <1>3, <1>4 DEF IInv

LEMMA StutterStep ==
  ASSUME IInv, UNCHANGED vars
  PROVE  IInv'
<1>1. TypeOK' /\ GrantsAreOwned' /\ OwnedIdentities' /\ PlannedIdentities'
  BY DEF IInv, vars, live, run, TypeOK, GrantsAreOwned, OwnedIn, OwnedIdentities,
         PlannedIdentities, Treated, Present, Wanted
<1>2. RecordFollows' /\ RetriesGoThrough' /\ NothingNew' /\ BaseReset'
  BY DEF IInv, vars, live, run, RecordFollows, Union, RetriesGoThrough, NothingNew, OwnedIn,
         Present, BaseReset
<1>3. Shrinking' /\ Removing' /\ Granting' /\ Completed'
  BY DEF IInv, vars, live, run, Shrinking, Paths, Present, Removing, BaseOf, Granting, Completed,
         CompletedExactly
<1> QED
  BY <1>1, <1>2, <1>3 DEF IInv

LEMMA NextInv == IInv /\ [Next]_vars => IInv'
<1> SUFFICES ASSUME IInv, [Next]_vars PROVE IInv'
  OBVIOUS
<1>1. CASE \E selection \in [Roles -> SUBSET Records] : PlanAccess(selection)
  BY <1>1, PlanStep
<1>2. CASE Remember
  BY <1>2, RememberStep
<1>3. CASE ReconcileBase
  BY <1>3, BaseStep
<1>4. CASE ValidateRoles
  BY <1>4, ValidateStep
<1>5. CASE Shrink
  BY <1>5, ShrinkStep
<1>6. CASE Shrunk \/ Removed \/ Granted
  BY <1>6, PhaseStep
<1>7. CASE RemoveRole
  BY <1>7, RemoveStep
<1>8. CASE WritePolicy
  BY <1>8, WriteStep
<1>9. CASE AttachPolicy
  BY <1>9, AttachStep
<1>10. CASE CompleteAccess
  BY <1>10, CompleteStep
<1>11. CASE Interrupt
  BY <1>11, InterruptStep
<1>12. CASE UNCHANGED vars
  BY <1>12, StutterStep
<1> QED
  BY <1>1, <1>2, <1>3, <1>4, <1>5, <1>6, <1>7, <1>8, <1>9, <1>10, <1>11, <1>12 DEF Next

LEMMA Invariance == Spec => []IInv
<1> QED
  BY InitInv, NextInv, PTL DEF Spec

(***************************************************************************)
(* Theorems                                                                *)
(***************************************************************************)
(* Every reachable state is well typed; in particular no two roles ever    *)
(* share a policy identity in the record.                                  *)
THEOREM TypeCorrect == Spec => []TypeOK
<1> QED
  BY Invariance, PTL DEF IInv

(* Whatever a policy grants or a role gives is in the record, wherever the *)
(* runs before were interrupted (access.py, plan_access: "Remember policy  *)
(* identities before writes").                                             *)
THEOREM GrantsStayOwned == Spec => []GrantsAreOwned
<1> QED
  BY Invariance, PTL DEF IInv

(* No run takes a role that earlier runs left for a foreign one ("so an    *)
(* interrupted run can simply retry").                                     *)
THEOREM InterruptedRunsRetry == Spec => []RetriesGoThrough
<1> QED
  BY Invariance, PTL DEF IInv

(* A run that completes leaves exactly the selected grants (complete_access: *)
(* "Forget obsolete ownership only after all grant changes have succeeded"). *)
THEOREM CompletedRunsAreExact == Spec => []CompletedExactly
<1>1. IInv => CompletedExactly
  BY DEF IInv, Completed
<1> QED
  BY <1>1, Invariance, PTL

(* The changes that a step makes to policies and attachments.              *)
LEMMA NoGrantMoves ==
  ASSUME IInv, NEW r \in Present(previous), UNCHANGED <<policies, attached>>
  PROVE  InOrder(r)
BY DEF InOrder

(* Obsolete paths go before roles change, and a reader that stays selected *)
(* keeps its paths and its attachment (apply_access: "Shrink all obsolete  *)
(* grants before changing roles; preserve records and active identities"). *)
THEOREM ObsoleteGrantsGoFirst == Spec => GrantsMoveInOrder
<1>1. ASSUME IInv, [Next]_vars, NEW r \in Present(previous)
      PROVE  InOrder(r)
  <2> USE <1>1
  <2>1. TypeOK /\ r \in Roles /\ previous[r] \in Readers /\ previous[r].policy \in Policies
    BY DEF IInv, TypeOK, Ownership, Present, Readers
  <2>2. CASE UNCHANGED <<policies, attached>>
    BY <2>2, NoGrantMoves
  <2>3. CASE ReconcileBase
    <3>1. pc = "base" /\ policies' = policies
      BY <2>3 DEF ReconcileBase
    <3>2. attached' = attached \/ \E q \in todo : attached' = [attached EXCEPT ![q] = OnlyBase]
      BY <2>3 DEF ReconcileBase
    <3>3. todo \subseteq BaseRoles
      BY <3>1 DEF IInv, BaseReset
    <3> QED
      BY <2>1, <3>1, <3>2, <3>3 DEF InOrder, TypeOK
  <2>4. CASE Shrink
    <3>1. pc = "shrink" /\ attached' = attached
      BY <2>4 DEF Shrink
    <3>2. PICK q \in todo :
            \/ policies' = policies
            \/ policies' = [policies EXCEPT ![previous[q].policy] = Retained(q)]
      BY <2>4 DEF Shrink
    <3>3. q \in Present(previous)
      BY <3>1, <3>2 DEF IInv, Shrinking
    <3>4. CASE policies' = policies
      BY <3>1, <3>4, NoGrantMoves
    <3>5. CASE policies' = [policies EXCEPT ![previous[q].policy] = Retained(q)] /\ q = r
      <4>1. policies[previous[r].policy] \subseteq previous[r].records
        BY <2>1, <3>1, UnionDistinct DEF IInv, NothingNew, OwnedIn
      <4>2. policies'[previous[r].policy] = Retained(r)
        BY <2>1, <3>5 DEF TypeOK
      <4> QED
        BY <3>1, <4>1, <4>2 DEF InOrder, Retained
    <3>6. CASE policies' = [policies EXCEPT ![previous[q].policy] = Retained(q)] /\ q # r
      <4>1. previous[q].policy # previous[r].policy
        BY <3>1, <3>3, <3>6, UnionDistinct DEF IInv
      <4>2. policies'[previous[r].policy] = policies[previous[r].policy]
        BY <2>1, <3>6, <4>1 DEF TypeOK
      <4> QED
        BY <3>1, <4>2 DEF InOrder
    <3> QED
      BY <3>2, <3>4, <3>5, <3>6
  <2>5. CASE RemoveRole
    <3>1. pc = "remove" /\ policies' = policies
      BY <2>5 DEF RemoveRole, Refuse, live
    <3>2. attached' = attached \/ \E q \in todo : \E v : attached' = [attached EXCEPT ![q] = v]
      BY <2>5 DEF RemoveRole, Refuse, live
    <3>3. \A q \in todo : intended[q] = None
      BY <3>1 DEF IInv, Removing, Present
    <3>4. policies[previous[r].policy] \subseteq Paths(r)
      BY <3>1 DEF IInv, Shrinking
    <3> QED
      BY <2>1, <3>1, <3>2, <3>3, <3>4 DEF InOrder, Paths, TypeOK
  <2>6. CASE WritePolicy
    <3>1. pc = "grant" /\ attached' = attached
      BY <2>6 DEF WritePolicy
    <3>2. PICK q \in todo : policies' = [policies EXCEPT ![intended[q].policy] = intended[q].records]
      BY <2>6 DEF WritePolicy
    <3>3. q \in Present(intended)
      BY <3>1, <3>2 DEF IInv, Granting
    <3>4. CASE intended[q].policy = previous[r].policy
      <4>1. q = r
        BY <3>1, <3>3, <3>4, UnionDistinct DEF IInv
      <4>2. policies'[previous[r].policy] = intended[r].records
        BY <2>1, <3>2, <3>4, <4>1 DEF TypeOK
      <4> QED
        BY <3>1, <4>2 DEF InOrder
    <3>5. CASE intended[q].policy # previous[r].policy
      <4>1. policies'[previous[r].policy] = policies[previous[r].policy]
        BY <2>1, <3>2, <3>5 DEF TypeOK
      <4> QED
        BY <3>1, <4>1 DEF InOrder
    <3> QED
      BY <3>4, <3>5
  <2>7. CASE AttachPolicy
    <3>1. pc = "attach" /\ policies' = policies
      BY <2>7 DEF AttachPolicy, Refuse, live
    <3>2. \/ attached' = attached
          \/ attached' = [attached EXCEPT ![current] = intended[current].policy]
      BY <2>7 DEF AttachPolicy, Refuse, live
    <3>3. current \in Present(intended)
      BY <3>1 DEF IInv, Granting
    <3>4. policies[previous[r].policy] \subseteq Paths(r)
      BY <3>1 DEF IInv, Shrinking
    <3>5. current = r => intended[current].policy = previous[r].policy
      BY <3>1, <3>3 DEF IInv, PlannedIdentities, Treated, Present, Wanted
    <3> QED
      BY <2>1, <3>1, <3>2, <3>3, <3>4, <3>5 DEF InOrder, Paths, TypeOK
  <2>8. CASE \E selection \in [Roles -> SUBSET Records] : PlanAccess(selection)
    BY <2>2, <2>8 DEF PlanAccess, live
  <2>9. CASE Remember \/ ValidateRoles \/ Shrunk \/ Removed \/ Granted \/ CompleteAccess \/ Interrupt
    BY <2>2, <2>9 DEF Remember, ValidateRoles, Refuse, Shrunk, Removed, Granted, CompleteAccess,
                      Interrupt, live
  <2>10. CASE UNCHANGED vars
    BY <2>2, <2>10 DEF vars, live
  <2> QED
    BY <2>3, <2>4, <2>5, <2>6, <2>7, <2>8, <2>9, <2>10 DEF Next
<1>2. IInv /\ [Next]_vars => [\A r \in Present(previous) : InOrder(r)]_vars
  BY <1>1
<1> QED
  BY <1>2, Invariance, PTL DEF Spec, GrantsMoveInOrder
=============================================================================
