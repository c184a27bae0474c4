----------------------------- MODULE OpenBaoAccess -----------------------------
(***************************************************************************)
(* Add-on reader grants of stack-setup                                     *)
(* (src/cli_tools/openbao_stack_setup: access.py, and the Base roles that  *)
(* reconcile.py rewrites between its plan and its application).            *)
(*                                                                         *)
(* A reader is a Kubernetes role of OpenBao with a policy of its own that  *)
(* grants exact record paths.  Which policy belongs to which role is kept  *)
(* in the reconciliation record.  A run may die at any request; the next   *)
(* one may have another selection.  Runs do not overlap.  Policies are     *)
(* evaluated at each request, so that what a policy grants is what every   *)
(* token with it can read.  The service account a role is bound to does    *)
(* not change; the refusal of a role that is active under another one      *)
(* (access.py:57-58), which writes nothing, is left out.                   *)
(***************************************************************************)
EXTENDS FiniteSets

CONSTANTS
  Roles,      (* reader roles that some selection may name                  *)
  BaseRoles,  (* those that Base reconciliation owns                        *)
  Records,    (* record paths                                               *)
  Policies,   (* policy identities; each is drawn at random once            *)
  None,
  OnlyBase    (* the attachments of a Base role without add-on              *)

ASSUME AccessAssumption ==
  /\ BaseRoles \subseteq Roles /\ None \notin Roles
  /\ None \notin Policies /\ OnlyBase \notin Policies \cup {None}
  /\ None \notin [policy : Policies, records : SUBSET Records]

VARIABLES
  owned,      (* owned[r]: the policy and the paths remembered for role r   *)
  policies,   (* policies[p]: the paths that policy p grants                *)
  attached,   (* attached[r]: the add-on policy of the live role            *)
  pc,         (* next step of the run                                       *)
  previous,   (* the ownership that the run found                           *)
  intended,   (* the readers that it wants                                  *)
  todo,       (* the roles still to treat in this step                      *)
  current,    (* the role that has its policy but not yet its attachment    *)
  refused,    (* the last run stopped at a conflict                         *)
  (* history, for the properties only: *)
  used,       (* identities ever drawn                                      *)
  deleted,    (* policies that were deleted while a role gave them          *)
  done        (* the last run completed                                     *)

live == <<policies, attached>>
run == <<previous, intended, todo, current>>
vars == <<owned, live, pc, run, refused, used, deleted, done>>

Readers == [policy : Policies, records : (SUBSET Records) \ {{}}]
Ownership == [Roles -> Readers \cup {None}]
Steps == {"idle", "remember", "base", "validate", "shrink", "remove", "grant", "attach",
          "complete"}

Nothing == [r \in Roles |-> None]
Present(o) == {r \in Roles : o[r] # None}

TypeOK ==
  /\ owned \in Ownership /\ previous \in Ownership /\ intended \in Ownership
  /\ policies \in [Policies -> SUBSET Records]
  /\ attached \in [Roles -> Policies \cup {None, OnlyBase}]
  /\ \A r \in Roles : attached[r] = OnlyBase => r \in BaseRoles
  /\ pc \in Steps /\ todo \subseteq Roles /\ current \in Roles \cup {None}
  /\ used \subseteq Policies /\ deleted \subseteq used
  /\ refused \in BOOLEAN /\ done \in BOOLEAN
  /\ \A r, q \in Present(owned) : owned[r].policy = owned[q].policy => r = q

Init ==
  /\ owned = Nothing /\ policies = [p \in Policies |-> {}] /\ attached = Nothing
  /\ pc = "idle" /\ previous = Nothing /\ intended = Nothing /\ todo = {}
  /\ current = None /\ refused = FALSE /\ used = {} /\ deleted = {} /\ done = FALSE

(***************************************************************************)
(* Planning                                                                *)
(***************************************************************************)
(* What the role may look like: Base, or with the policy it should have.   *)
LiveRoleFits(r, policy, mine) ==
  \/ attached[r] = None
  \/ attached[r] = OnlyBase
  \/ mine /\ attached[r] = policy

Wanted(r) == IF intended[r] # None THEN intended[r].policy ELSE previous[r].policy

Selected(selection, fresh) ==
  [r \in Roles |->
     IF selection[r] = {} THEN None
     ELSE [policy |-> IF owned[r] # None THEN owned[r].policy ELSE fresh[r],
           records |-> selection[r]]]

Refuse ==
  /\ pc' = "idle" /\ refused' = TRUE
  /\ UNCHANGED <<owned, live, run, used, deleted, done>>

PlanAccess(selection) ==
  LET activated == {r \in Roles : selection[r] # {} /\ owned[r] = None}
  IN /\ pc = "idle"
     /\ \E fresh \in [activated -> Policies \ used] :
          /\ \A r, q \in activated : fresh[r] = fresh[q] => r = q
          /\ intended' = Selected(selection, fresh)
          /\ used' = used \cup {fresh[r] : r \in activated}
     /\ previous' = owned
     /\ IF \A r \in Present(previous') \cup Present(intended') :
             LiveRoleFits(r, Wanted(r)', r \in Present(previous'))
        THEN pc' = "remember" /\ refused' = FALSE
        ELSE pc' = "idle" /\ refused' = TRUE
     /\ done' = FALSE
     /\ todo' = {} /\ current' = None
     /\ UNCHANGED <<owned, live, deleted>>

(* As if the record remembered only what is selected now.                  *)
SelectionOnly == [r \in Roles |-> IF intended[r] # None THEN intended[r] ELSE previous[r]]

(* The union of what was granted and what will be.                         *)
Union ==
  [r \in Roles |->
     IF intended[r] = None THEN previous[r]
     ELSE [policy |-> intended[r].policy,
           records |-> intended[r].records
                       \cup (IF previous[r] # None THEN previous[r].records ELSE {})]]

(* As if ownership were only recorded at the end.                          *)
RememberLater ==
  /\ pc = "remember" /\ pc' = "base"
  /\ todo' = BaseRoles
  /\ UNCHANGED <<owned, live, previous, intended, current, refused, used, deleted, done>>

Remember ==
  /\ pc = "remember" /\ pc' = "base"
  /\ owned' = Union
  /\ todo' = BaseRoles
  /\ UNCHANGED <<live, previous, intended, current, refused, used, deleted, done>>

(* Base reconciliation gives its roles their Base policies, and no others. *)
ReconcileBase ==
  /\ pc = "base"
  /\ IF todo = {}
     THEN pc' = "validate" /\ UNCHANGED <<attached, todo>>
     ELSE \E r \in todo : /\ attached' = [attached EXCEPT ![r] = OnlyBase]
                          /\ todo' = todo \ {r} /\ UNCHANGED pc
  /\ UNCHANGED <<owned, policies, previous, intended, current, refused, used, deleted, done>>

(***************************************************************************)
(* Application                                                             *)
(***************************************************************************)
Phase(from, to, roles) ==
  /\ pc = from /\ todo = {} /\ pc' = to /\ todo' = roles

ValidateRoles ==
  /\ IF \A r \in Present(previous) \cup Present(intended) : LiveRoleFits(r, Wanted(r), TRUE)
     THEN /\ Phase("validate", "shrink", Present(previous))
          /\ UNCHANGED <<owned, live, previous, intended, current, refused, used, deleted, done>>
     ELSE pc = "validate" /\ Refuse

Retained(r) ==
  IF intended[r] = None THEN {} ELSE previous[r].records \cap intended[r].records

(* A policy without a reader is deleted, one with fewer paths rewritten.   *)
Shrink ==
  /\ pc = "shrink"
  /\ \E r \in todo :
       /\ todo' = todo \ {r}
       /\ IF Retained(r) = previous[r].records
          THEN UNCHANGED <<policies, deleted>>
          ELSE /\ policies' = [policies EXCEPT ![previous[r].policy] = Retained(r)]
               /\ deleted' = IF intended[r] = None /\ attached[r] = previous[r].policy
                             THEN deleted \cup {previous[r].policy} ELSE deleted
  /\ UNCHANGED <<owned, attached, pc, previous, intended, current, refused, used, done>>

Shrunk ==
  /\ Phase("shrink", "remove", Present(previous) \ Present(intended))
  /\ UNCHANGED <<owned, live, previous, intended, current, refused, used, deleted, done>>

(* As if a deselected role lost its policy only.                           *)
LeaveRole ==
  /\ pc = "remove"
  /\ \E r \in todo : todo' = todo \ {r}
  /\ UNCHANGED <<owned, live, pc, previous, intended, current, refused, used, deleted, done>>

RemoveRole ==
  /\ pc = "remove"
  /\ \E r \in todo :
       IF LiveRoleFits(r, previous[r].policy, TRUE)
       THEN /\ attached' = [attached EXCEPT ![r] = IF r \in BaseRoles THEN OnlyBase ELSE None]
            /\ todo' = todo \ {r}
            /\ UNCHANGED <<owned, policies, pc, previous, intended, current>>
            /\ UNCHANGED <<refused, used, deleted, done>>
       ELSE Refuse

Removed ==
  /\ Phase("remove", "grant", Present(intended))
  /\ UNCHANGED <<owned, live, previous, intended, current, refused, used, deleted, done>>

(* The policy first: an attempt before this one may not have written it.   *)
WritePolicy ==
  /\ pc = "grant" /\ pc' = "attach"
  /\ \E r \in todo : /\ policies' = [policies EXCEPT ![intended[r].policy] = intended[r].records]
                     /\ todo' = todo \ {r} /\ current' = r
  /\ UNCHANGED <<owned, attached, previous, intended, refused, used, deleted, done>>

AttachPolicy ==
  /\ pc = "attach"
  /\ IF LiveRoleFits(current, intended[current].policy, TRUE)
     THEN /\ pc' = "grant" /\ current' = None
          /\ attached' = [attached EXCEPT ![current] = intended[current].policy]
          /\ UNCHANGED <<owned, policies, previous, intended, todo, refused, used, deleted, done>>
     ELSE Refuse

Granted ==
  /\ Phase("grant", "complete", {})
  /\ UNCHANGED <<owned, live, previous, intended, current, refused, used, deleted, done>>

CompleteAccess ==
  /\ pc = "complete" /\ pc' = "idle"
  /\ owned' = intended
  /\ done' = TRUE
  /\ UNCHANGED <<live, run, refused, used, deleted>>

(* The process dies, or a request fails.                                   *)
Interrupt ==
  /\ pc # "idle" /\ pc' = "idle"
  /\ UNCHANGED <<owned, live, run, refused, used, deleted, done>>

Next ==
  \/ \E selection \in [Roles -> SUBSET Records] : PlanAccess(selection)
  \/ Remember \/ ReconcileBase \/ ValidateRoles
  \/ Shrink \/ Shrunk \/ RemoveRole \/ Removed
  \/ WritePolicy \/ AttachPolicy \/ Granted \/ CompleteAccess
  \/ Interrupt

Spec == Init /\ [][Next]_vars

(***************************************************************************)
(* Properties                                                              *)
(***************************************************************************)
(* No grant is ever out of reach of the next run: whatever a policy grants *)
(* is remembered for a role that owns the policy, and whatever is attached *)
(* to a role is the policy it owns (access.py: "Remember policy identities *)
(* before writes").                                                        *)
OwnedIn(o) ==
  /\ \A p \in Policies : policies[p] # {} =>
       \E r \in Present(o) : o[r].policy = p /\ policies[p] \subseteq o[r].records
  /\ \A r \in Roles : attached[r] \in Policies => o[r] # None /\ o[r].policy = attached[r]

GrantsAreOwned == OwnedIn(owned)

(* "... so an interrupted run can simply retry": wherever runs were        *)
(* interrupted and whatever the next selection is, no run takes the roles  *)
(* it finds for foreign ones.                                              *)
RetriesGoThrough == ~refused

(* After a completed run every selected reader, and no other, is attached  *)
(* to a policy with exactly its paths, and nothing else grants anything.   *)
CompletedExactly ==
  done =>
    \A r \in Roles :
      IF intended[r] # None
      THEN attached[r] = intended[r].policy /\ policies[attached[r]] = intended[r].records
      ELSE attached[r] = IF r \in BaseRoles THEN OnlyBase ELSE None

(* "Shrink all obsolete grants before changing roles; preserve records and *)
(* active identities": when the run changes a role, tokens issued before   *)
(* cannot read anything that is not selected; and a reader that stays      *)
(* selected never loses a path nor, unless Base resets its role, its       *)
(* attachment.                                                             *)
InOrder(r) ==
  LET p == previous[r].policy
      wanted == IF intended[r] # None THEN intended[r].records ELSE {}
  IN /\ attached' # attached /\ pc # "base" => policies[p] \subseteq wanted
     /\ policies[p] \cap wanted \subseteq policies'[p]
     /\ wanted # {} /\ attached[r] = p /\ r \notin BaseRoles => attached'[r] = p

GrantsMoveInOrder == [][ \A r \in Present(previous) : InOrder(r) ]_vars

(* What the code says of a policy identity: "never recycled"; the test     *)
(* says "reactivation cannot revive policy".  A policy that was deleted    *)
(* with its reader grants nothing again to the tokens that still carry it. *)
NeverRevived == \A p \in deleted : policies[p] = {}
=============================================================================
