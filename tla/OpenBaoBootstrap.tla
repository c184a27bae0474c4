---------------------------- MODULE OpenBaoBootstrap ----------------------------
(***************************************************************************)
(* stack-setup bootstrap, reconcile and recovery verify                    *)
(* (src/cli_tools/openbao_stack_setup: main.py with recovery.py, custody.py*)
(* and client.py): the one-time initialization of OpenBao, the custody of  *)
(* its recovery shares, the delivery of generated human passwords, and the *)
(* root tokens that are alive meanwhile.                                   *)
(*                                                                         *)
(* The command may die between any two steps.  What survives is the seal   *)
(* file, the custodian packages and what OpenBao and the cluster hold; the *)
(* next command has to find its way from there.  A step that fails after   *)
(* its request took effect is the step followed by Crash or Fail.          *)
(***************************************************************************)
EXTENDS Naturals, FiniteSets

CONSTANTS
  Operators,    (* terminals at which a command may run                     *)
  Selections,   (* verified selections, each the human passwords it asks for*)
  Base,         (* the passwords every selection asks for                   *)
  MaxTokens,    (* bound on root tokens ever minted                         *)
  MaxValues,    (* bound on generated passwords                             *)
  MaxFaults,    (* bound on crashes, failures and lost answers              *)
  None, Torn

Passwords == UNION Selections

ASSUME BootstrapAssumption ==
  /\ \A s \in Selections : Base \subseteq s
  /\ MaxTokens \in Nat /\ MaxValues \in Nat /\ MaxFaults \in Nat
  /\ None \notin Selections \cup Operators /\ Torn # None

VARIABLES
  seal,         (* the seal file: None, Torn or a kit                       *)
  packages,     (* numbers of the custodian packages on disk                *)
  sealSecret,   (* the cluster has the static seal                          *)
  initialized,  (* OpenBao is initialized                                   *)
  attempt,      (* OpenBao's root generation in progress, None if none      *)
  roots,        (* live root tokens                                         *)
  minted,       (* root tokens minted so far                                *)
  stored,       (* stored[p]: password p in OpenBao, 0 if absent            *)
  pc,           (* next step at each terminal                               *)
  command,      (* the command that runs there                              *)
  selection,    (* the selection it was given                               *)
  root,         (* the root token it holds, 0 if none                       *)
  others,       (* the root tokens it has found and not revoked             *)
  fate,         (* its work succeeded                                       *)
  generated,    (* passwords generated so far                               *)
  faults,       (* faults so far                                            *)
  (* history, for the properties only: *)
  listed,       (* tokens minted when the terminal last listed accessors    *)
  shown,        (* shown[p]: values of p that were displayed                *)
  saved,        (* saved[p]: values of p that were acknowledged             *)
  lost,         (* the initialization response was lost                     *)
  refusal       (* why the last command was refused                         *)

remoteVars == <<sealSecret, initialized, stored>>
tokenVars == <<attempt, roots, minted>>
localVars == <<command, selection, root, others, fate, listed>>
historyVars == <<shown, saved, lost>>
vars == <<seal, packages, remoteVars, tokenVars, pc, localVars, generated, faults, historyVars,
          refusal>>

Shares == 1..3
Tokens == 1..MaxTokens
InitialToken == 1
Checkpoints == {"seal-created", "initialized", "seeded", "complete"}
NothingPending == [p \in Passwords |-> 0]
(* What load accepts of a file.                                            *)
Kit ==
  { k \in [checkpoint : Checkpoints, material : BOOLEAN, pending : [Passwords -> 0..MaxValues],
           bound : Selections \cup {None}, acknowledged : BOOLEAN] :
      /\ k.material => k.checkpoint = "seal-created"
      /\ k.pending = NothingPending => ~k.acknowledged /\ k.bound = None
      /\ k.pending # NothingPending => k.checkpoint \in {"initialized", "complete"} }
Commands == {"bootstrap", "reconcile", "verify"}
(* The steps under the try whose finally revokes the root token.           *)
Guarded == {"stage", "deliver", "store", "list", "lookup", "expel", "handover", "seeded",
            "accessors"}
Steps == Guarded \cup {"idle", "load", "write_new", "create_seal", "endpoint", "inspect",
                       "initialize", "record", "packages", "start_root", "first_share",
                       "second_share", "cancel", "revoke", "complete"}
(* Refusals by what happened before, some of which last (StuckUnsealed) ...*)
Reasons == {"no seal file", "unreadable", "no endpoint", "already complete", "not complete",
            "attempt active", "definitions changed", "cannot stage", "cancelled",
            "token revoked"}
Earned == {None} \cup Reasons
(* ... and those that only say that its records contradict each other.     *)
Unearned == {"foreign seal", "file ahead of OpenBao", "escalation", "packages missing",
             "password missing", "password differs", "password not persisted"}

(* What is not there is none of the things that are there.                 *)
ASSUME AbsenceAssumption ==
  /\ None \notin Kit /\ Torn \notin Kit /\ None \notin Commands
  /\ None \notin Reasons \cup Unearned

TypeOK ==
  /\ seal \in {None, Torn} \cup Kit
  /\ packages \subseteq Shares
  /\ sealSecret \in BOOLEAN /\ initialized \in BOOLEAN
  /\ attempt \in {None} \cup [by : Operators, given : 0..1]
  /\ minted \in 0..MaxTokens /\ roots \subseteq 1..minted
  /\ stored \in [Passwords -> 0..MaxValues]
  /\ pc \in [Operators -> Steps]
  /\ command \in [Operators -> Commands \cup {None}]
  /\ selection \in [Operators -> Selections \cup {None}]
  /\ root \in [Operators -> 0..MaxTokens]
  /\ others \in [Operators -> SUBSET Tokens]
  /\ fate \in [Operators -> BOOLEAN]
  /\ generated \in 0..MaxValues /\ faults \in 0..MaxFaults
  /\ listed \in [Operators -> 0..MaxTokens]
  /\ shown \in [Passwords -> SUBSET (1..MaxValues)]
  /\ saved \in [Passwords -> SUBSET (1..MaxValues)]
  /\ lost \in BOOLEAN
  /\ refusal \in Earned \cup Unearned

HasKit == seal \notin {None, Torn}
PendingPasswords == {p \in Passwords : seal.pending[p] # 0}

NewKit == [checkpoint |-> "seal-created", material |-> FALSE, pending |-> NothingPending,
           bound |-> None, acknowledged |-> FALSE]

Init ==
  /\ seal = None /\ packages = {} /\ sealSecret = FALSE /\ initialized = FALSE
  /\ attempt = None /\ roots = {} /\ minted = 0
  /\ stored = [p \in Passwords |-> 0]
  /\ pc = [o \in Operators |-> "idle"]
  /\ command = [o \in Operators |-> None] /\ selection = [o \in Operators |-> None]
  /\ root = [o \in Operators |-> 0] /\ others = [o \in Operators |-> {}]
  /\ fate = [o \in Operators |-> FALSE] /\ listed = [o \in Operators |-> 0]
  /\ generated = 0 /\ faults = 0
  /\ shown = [p \in Passwords |-> {}] /\ saved = [p \in Passwords |-> {}]
  /\ lost = FALSE /\ refusal = None

Goto(o, from, to) == pc[o] = from /\ pc' = [pc EXCEPT ![o] = to]

(* The command is over and its memory gone.                                *)
End(o, why) ==
  /\ pc' = [pc EXCEPT ![o] = "idle"]
  /\ command' = [command EXCEPT ![o] = None] /\ selection' = [selection EXCEPT ![o] = None]
  /\ root' = [root EXCEPT ![o] = 0] /\ others' = [others EXCEPT ![o] = {}]
  /\ fate' = [fate EXCEPT ![o] = FALSE] /\ listed' = [listed EXCEPT ![o] = 0]
  /\ refusal' = why

Fault == faults < MaxFaults /\ faults' = faults + 1

(* Steps that leave OpenBao, the cluster or the files as they are.         *)
SameFiles == UNCHANGED <<seal, packages>>
SameBao == UNCHANGED <<remoteVars, tokenVars>>
SameRest == UNCHANGED <<generated, faults, historyVars>>

(***************************************************************************)
(* Starting a command                                                      *)
(***************************************************************************)
(* Whoever prepares credentials is stopped before another one starts;      *)
(* recovery verify may run at any time.                                    *)
Start(o, c, s) ==
  /\ Goto(o, "idle", "load")
  /\ c # "verify" => \A x \in Operators : command[x] \in {None, "verify"}
  /\ command' = [command EXCEPT ![o] = c]
  /\ selection' = [selection EXCEPT ![o] = s]
  /\ refusal' = None
  /\ SameFiles /\ SameBao /\ SameRest /\ UNCHANGED <<root, others, fate, listed>>

LoadRefusal(o) ==
  CASE seal = None /\ command[o] # "bootstrap" -> "no seal file"
    [] seal = None /\ command[o] = "bootstrap" /\ sealSecret -> "foreign seal"
    [] seal # None /\ seal \notin Kit -> "unreadable"
    [] seal \in Kit /\ command[o] = "reconcile" /\ seal.checkpoint # "complete" -> "not complete"
    [] seal \in Kit /\ command[o] = "verify" /\ seal.checkpoint = "seal-created" -> "not complete"
    [] OTHER -> None

AfterLoad(o) ==
  CASE command[o] = "verify" -> "start_root"
    [] command[o] # "verify" /\ seal = None -> "write_new"
    [] OTHER -> "endpoint"

Load(o) ==
  /\ LoadRefusal(o) = None
  /\ Goto(o, "load", AfterLoad(o))
  /\ SameFiles /\ SameBao /\ SameRest /\ UNCHANGED <<localVars, refusal>>

LoadRefused(o) ==
  /\ pc[o] = "load" /\ LoadRefusal(o) # None
  /\ End(o, LoadRefusal(o))
  /\ SameFiles /\ SameBao /\ SameRest

(***************************************************************************)
(* Seal and initialization                                                 *)
(***************************************************************************)
WriteNew(o) ==
  /\ Goto(o, "write_new", "create_seal")
  /\ seal' = NewKit
  /\ SameBao /\ SameRest /\ UNCHANGED <<packages, localVars, refusal>>

(* The first version of the file is written in place: a crash may leave    *)
(* part of it.                                                             *)
TearSealFile(o) ==
  /\ pc[o] = "write_new" /\ Fault
  /\ seal = None /\ seal' = Torn
  /\ End(o, None)
  /\ SameBao /\ UNCHANGED <<packages, generated, historyVars>>

CreateSeal(o) ==
  /\ Goto(o, "create_seal", "endpoint")
  /\ ~sealSecret /\ sealSecret' = TRUE
  /\ SameFiles /\ SameRest
  /\ UNCHANGED <<initialized, stored, tokenVars, localVars, refusal>>

(* OpenBao's Pod needs the static seal.                                    *)
WaitEndpoint(o) ==
  /\ Goto(o, "endpoint", IF command[o] = "bootstrap" THEN "inspect" ELSE "start_root")
  /\ sealSecret
  /\ SameFiles /\ SameBao /\ SameRest /\ UNCHANGED <<localVars, refusal>>

EndpointTimeout(o) ==
  /\ pc[o] = "endpoint" /\ ~sealSecret
  /\ End(o, "no endpoint")
  /\ SameFiles /\ SameBao /\ SameRest

InspectRefusal ==
  CASE ~initialized /\ (seal.checkpoint # "seal-created" \/ seal.material) ->
         "file ahead of OpenBao"
    [] initialized /\ seal.checkpoint = "seal-created" /\ ~seal.material -> "escalation"
    [] initialized /\ seal.checkpoint = "complete" -> "already complete"
    [] OTHER -> None

AfterInspect ==
  CASE ~initialized -> "initialize"
    [] initialized /\ seal.checkpoint = "seal-created" -> "packages"
    [] OTHER -> "start_root"

Inspect(o) ==
  /\ pc[o] = "inspect" /\ InspectRefusal = None
  /\ Goto(o, "inspect", AfterInspect)
  /\ root' = [root EXCEPT ![o] = IF AfterInspect = "packages" THEN InitialToken ELSE 0]
  /\ SameFiles /\ SameBao /\ SameRest
  /\ UNCHANGED <<command, selection, others, fate, listed, refusal>>

InspectRefused(o) ==
  /\ pc[o] = "inspect" /\ InspectRefusal # None
  /\ End(o, InspectRefusal)
  /\ SameFiles /\ SameBao /\ SameRest

Mint == minted < MaxTokens /\ minted' = minted + 1 /\ roots' = roots \cup {minted + 1}

Initialize(o) ==
  /\ Goto(o, "initialize", "record")
  /\ ~initialized /\ initialized' = TRUE
  /\ Mint /\ root' = [root EXCEPT ![o] = minted + 1]
  /\ SameFiles /\ SameRest
  /\ UNCHANGED <<sealSecret, stored, attempt, command, selection, others, fate, listed, refusal>>

Record(o) ==
  /\ Goto(o, "record", "packages")
  /\ seal' = [seal EXCEPT !.material = TRUE]
  /\ SameBao /\ SameRest /\ UNCHANGED <<packages, localVars, refusal>>

WritePackage(o) ==
  /\ pc[o] = "packages"
  /\ \E i \in Shares \ packages : /\ \A j \in Shares \ packages : i <= j
                                  /\ packages' = packages \cup {i}
  /\ SameBao /\ SameRest /\ UNCHANGED <<seal, pc, localVars, refusal>>

(* As if two packages were enough, since two recover.                      *)
EnoughPackages == Cardinality(packages) >= 2

AllPackaged == packages = Shares

(* All packages decrypt to distinct shares: the file forgets them.         *)
Packaged(o) ==
  /\ AllPackaged
  /\ Goto(o, "packages", "stage")
  /\ seal' = [seal EXCEPT !.checkpoint = "initialized", !.material = FALSE]
  /\ SameBao /\ SameRest /\ UNCHANGED <<packages, localVars, refusal>>

(***************************************************************************)
(* A temporary root token from two recovery shares                         *)
(***************************************************************************)
StartRoot(o) ==
  /\ Goto(o, "start_root", "first_share")
  /\ {1, 2} \subseteq packages
  /\ attempt = None /\ attempt' = [by |-> o, given |-> 0]
  /\ SameFiles /\ SameRest /\ UNCHANGED <<remoteVars, roots, minted, localVars, refusal>>

(* A generation that somebody left active is not cancelled.                *)
StartRootRefused(o) ==
  /\ pc[o] = "start_root"
  /\ ~({1, 2} \subseteq packages) \/ attempt # None
  /\ End(o, IF {1, 2} \subseteq packages THEN "attempt active" ELSE "packages missing")
  /\ SameFiles /\ SameBao /\ SameRest

FirstShare(o) ==
  /\ Goto(o, "first_share", "second_share")
  /\ attempt = [by |-> o, given |-> 0] /\ attempt' = [by |-> o, given |-> 1]
  /\ SameFiles /\ SameRest /\ UNCHANGED <<remoteVars, roots, minted, localVars, refusal>>

SecondShare(o) ==
  /\ Goto(o, "second_share", IF command[o] = "verify" THEN "accessors" ELSE "stage")
  /\ attempt = [by |-> o, given |-> 1] /\ attempt' = None
  /\ Mint /\ root' = [root EXCEPT ![o] = minted + 1]
  /\ SameFiles /\ SameRest
  /\ UNCHANGED <<remoteVars, command, selection, others, fate, listed, refusal>>

(* The generation is gone or somebody else's.                              *)
ShareRejected(o) ==
  /\ \/ pc[o] = "first_share" /\ attempt # [by |-> o, given |-> 0]
     \/ pc[o] = "second_share" /\ attempt # [by |-> o, given |-> 1]
  /\ pc' = [pc EXCEPT ![o] = "cancel"]
  /\ SameFiles /\ SameBao /\ SameRest /\ UNCHANGED <<localVars, refusal>>

(* The answer to a share is lost, the token that it completed unknown.     *)
ShareUnanswered(o) ==
  /\ pc[o] \in {"first_share", "second_share"} /\ Fault
  /\ pc' = [pc EXCEPT ![o] = "cancel"]
  /\ \/ UNCHANGED tokenVars
     \/ pc[o] = "second_share" /\ attempt = [by |-> o, given |-> 1] /\ Mint /\ attempt' = None
  /\ SameFiles /\ UNCHANGED <<remoteVars, localVars, generated, historyVars, refusal>>

(* The deletion names no generation: it ends whichever is active.          *)
Cancel(o) ==
  /\ pc[o] = "cancel"
  /\ attempt' = None
  /\ End(o, "cancelled")
  /\ SameFiles /\ SameRest /\ UNCHANGED <<remoteVars, roots, minted>>

(***************************************************************************)
(* Work done with the root token                                           *)
(***************************************************************************)
Authorized(o) == root[o] \in roots

Work(o, from, to) == Goto(o, from, to) /\ Authorized(o)

Dismiss(o, why) ==
  /\ pc' = [pc EXCEPT ![o] = "revoke"]
  /\ refusal' = why

(* A request fails, the operator declines, or the token is no longer good. *)
Fail(o) ==
  /\ pc[o] \in Guarded
  /\ Dismiss(o, refusal)
  /\ IF Authorized(o) THEN Fault ELSE UNCHANGED faults
  /\ SameFiles /\ SameBao /\ UNCHANGED <<localVars, generated, historyVars>>

InspectAccessors(o) ==
  /\ Work(o, "accessors", "revoke")
  /\ fate' = [fate EXCEPT ![o] = TRUE]
  /\ SameFiles /\ SameBao /\ SameRest
  /\ UNCHANGED <<command, selection, root, others, listed, refusal>>

Planned(o) == {p \in selection[o] : stored[p] = 0}

(* As if the staged values were not bound to their selection.              *)
StagedUnbound(o) ==
  [seal EXCEPT !.pending = [p \in Passwords |-> IF p \in Planned(o) THEN generated + 1 ELSE 0],
               !.bound = None, !.acknowledged = FALSE]

Staged(o) ==
  [seal EXCEPT !.pending = [p \in Passwords |-> IF p \in Planned(o) THEN generated + 1 ELSE 0],
               !.bound = selection[o], !.acknowledged = FALSE]

(* As if an acknowledged value were made anew when it is not yet stored.   *)
StageFreshly(o) ==
  /\ Work(o, "stage", "deliver")
  /\ Planned(o) # {}
  /\ generated < MaxValues /\ generated' = generated + 1
  /\ seal' = Staged(o)
  /\ SameBao /\ UNCHANGED <<packages, localVars, faults, historyVars, refusal>>

(* Generated values are durable before anybody sees them.                  *)
Stage(o) ==
  /\ Work(o, "stage", "deliver")
  /\ PendingPasswords = {} /\ Planned(o) # {}
  /\ seal.checkpoint \in {"initialized", "complete"}
  /\ generated < MaxValues /\ generated' = generated + 1
  /\ seal' = Staged(o)
  /\ SameBao /\ UNCHANGED <<packages, localVars, faults, historyVars, refusal>>

(* Values that an earlier command staged, or none are needed.              *)
StageNothing(o) ==
  /\ pc[o] = "stage" /\ Authorized(o)
  /\ \/ /\ PendingPasswords # {} /\ seal.bound = selection[o]
        /\ Goto(o, "stage", IF seal.acknowledged THEN "store" ELSE "deliver")
     \/ PendingPasswords = {} /\ Planned(o) = {} /\ Goto(o, "stage", "store")
  /\ SameFiles /\ SameBao /\ SameRest /\ UNCHANGED <<localVars, refusal>>

StageRefused(o) ==
  /\ pc[o] = "stage" /\ Authorized(o)
  /\ \/ PendingPasswords # {} /\ seal.bound # selection[o] /\ Dismiss(o, "definitions changed")
     \/ /\ PendingPasswords = {} /\ Planned(o) # {} /\ seal.checkpoint = "seeded"
        /\ Dismiss(o, "cannot stage")
  /\ SameFiles /\ SameBao /\ SameRest /\ UNCHANGED localVars

ShownTo(p) == IF seal.pending[p] # 0 THEN {seal.pending[p]} ELSE {}

Show(o) ==
  /\ pc[o] = "deliver"
  /\ shown' = [p \in Passwords |-> shown[p] \cup ShownTo(p)]
  /\ shown' # shown
  /\ SameFiles /\ SameBao /\ UNCHANGED <<pc, localVars, generated, faults, saved, lost, refusal>>

Acknowledge(o) ==
  /\ Work(o, "deliver", "store")
  /\ \A p \in Passwords : ShownTo(p) \subseteq shown[p]
  /\ seal' = [seal EXCEPT !.acknowledged = TRUE]
  /\ saved' = [p \in Passwords |-> saved[p] \cup ShownTo(p)]
  /\ SameBao /\ UNCHANGED <<packages, localVars, generated, faults, shown, lost, refusal>>

Missing == {p \in Base : seal.pending[p] = 0 /\ stored[p] = 0}
Differing == {p \in PendingPasswords : stored[p] \notin {0, seal.pending[p]}}
Unstored == {p \in PendingPasswords : stored[p] = 0}

(* The catalog stores the base passwords, the rest follow.                 *)
Store(o) ==
  /\ pc[o] = "store" /\ Authorized(o)
  /\ Missing = {} /\ Differing = {}
  /\ \E p \in Unstored : /\ p \in Base \/ Unstored \cap Base = {}
                         /\ stored' = [stored EXCEPT ![p] = seal.pending[p]]
  /\ SameFiles /\ SameRest
  /\ UNCHANGED <<sealSecret, initialized, tokenVars, pc, localVars, refusal>>

(* As if nothing but the catalog stored passwords.                         *)
StoreCatalog(o) ==
  /\ pc[o] = "store" /\ Authorized(o)
  /\ Missing = {} /\ Differing = {} /\ Unstored \cap Base = {} /\ Goto(o, "store", "list")
  /\ SameFiles /\ SameBao /\ SameRest /\ UNCHANGED <<localVars, refusal>>

(* All is stored, or OpenBao and the file contradict each other.           *)
StoreEnds(o) ==
  /\ pc[o] = "store" /\ Authorized(o)
  /\ CASE Missing # {} -> Dismiss(o, "password missing")
       [] Missing = {} /\ Differing # {} -> Dismiss(o, "password differs")
       [] OTHER -> Unstored = {} /\ Goto(o, "store", "list") /\ UNCHANGED refusal
  /\ SameFiles /\ SameBao /\ SameRest /\ UNCHANGED localVars

(***************************************************************************)
(* Revoking every other root token                                         *)
(***************************************************************************)
List(o) ==
  /\ Work(o, "list", "lookup")
  /\ others' = [others EXCEPT ![o] = roots \ {root[o]}]
  /\ listed' = [listed EXCEPT ![o] = minted]
  /\ SameFiles /\ SameBao /\ SameRest /\ UNCHANGED <<command, selection, root, fate, refusal>>

Lookup(o) ==
  /\ Work(o, "lookup", "expel")
  /\ others[o] \subseteq roots
  /\ SameFiles /\ SameBao /\ SameRest /\ UNCHANGED <<localVars, refusal>>

(* A listed token is gone: tidy, then list again or give up.               *)
Relist(o) ==
  /\ pc[o] = "lookup" /\ Authorized(o)
  /\ ~(others[o] \subseteq roots)
  /\ \/ pc' = [pc EXCEPT ![o] = "list"] /\ UNCHANGED refusal
     \/ Dismiss(o, refusal)
  /\ SameFiles /\ SameBao /\ SameRest /\ UNCHANGED localVars

Expel(o) ==
  /\ pc[o] = "expel" /\ Authorized(o)
  /\ \E t \in others[o] : IF t \in roots
                          THEN /\ roots' = roots \ {t}
                               /\ others' = [others EXCEPT ![o] = @ \ {t}]
                               /\ UNCHANGED <<pc, refusal>>
                          ELSE /\ Dismiss(o, refusal)
                               /\ UNCHANGED <<roots, others>>
  /\ SameFiles /\ SameRest
  /\ UNCHANGED <<remoteVars, attempt, minted, command, selection, root, fate, listed>>

Expelled(o) ==
  /\ Work(o, "expel", "handover")
  /\ others[o] = {}
  /\ SameFiles /\ SameBao /\ SameRest /\ UNCHANGED <<localVars, refusal>>

(***************************************************************************)
(* Checkpoints                                                             *)
(***************************************************************************)
Persisted == \A p \in PendingPasswords : stored[p] = seal.pending[p]

(* As if the acknowledgement outlived the passwords.                       *)
StillAcknowledged == [seal EXCEPT !.pending = NothingPending, !.bound = None]

Delivered == [seal EXCEPT !.pending = NothingPending, !.bound = None, !.acknowledged = FALSE]

AfterHandover(o) ==
  IF command[o] = "bootstrap" /\ seal.checkpoint = "initialized" THEN "seeded" ELSE "revoke"

Handover(o) ==
  /\ pc[o] = "handover" /\ Authorized(o)
  /\ IF Persisted
     THEN /\ Goto(o, "handover", AfterHandover(o))
          /\ seal' = IF PendingPasswords = {} THEN seal ELSE Delivered
          /\ fate' = [fate EXCEPT ![o] = AfterHandover(o) = "revoke"]
          /\ UNCHANGED refusal
     ELSE Dismiss(o, "password not persisted") /\ UNCHANGED <<seal, fate>>
  /\ SameBao /\ SameRest
  /\ UNCHANGED <<packages, command, selection, root, others, listed>>

Seeded(o) ==
  /\ Goto(o, "seeded", "revoke")
  /\ seal' = [Delivered EXCEPT !.checkpoint = "seeded"]
  /\ fate' = [fate EXCEPT ![o] = TRUE]
  /\ SameBao /\ SameRest
  /\ UNCHANGED <<packages, command, selection, root, others, listed, refusal>>

(* As if the command completed whatever came of its work.                  *)
RevokeAnyway(o) ==
  /\ Goto(o, "revoke", "complete")
  /\ Authorized(o) /\ roots' = roots \ {root[o]}
  /\ command[o] = "bootstrap"
  /\ SameFiles /\ SameRest
  /\ UNCHANGED <<remoteVars, attempt, minted, localVars, refusal>>

(* As if a command that is about to complete had nothing left to revoke.   *)
RevokeNothing(o) ==
  /\ Goto(o, "revoke", "complete")
  /\ fate[o] /\ command[o] = "bootstrap"
  /\ SameFiles /\ SameBao /\ SameRest /\ UNCHANGED <<localVars, refusal>>

RevokeSelf(o) ==
  /\ Goto(o, "revoke", "complete")
  /\ Authorized(o) /\ roots' = roots \ {root[o]}
  /\ fate[o] /\ command[o] = "bootstrap"
  /\ SameFiles /\ SameRest
  /\ UNCHANGED <<remoteVars, attempt, minted, localVars, refusal>>

(* Revoked, and the command has failed or has nothing else to do.          *)
RevokeAndEnd(o) ==
  /\ pc[o] = "revoke"
  /\ Authorized(o) /\ roots' = roots \ {root[o]}
  /\ (~fate[o] \/ command[o] # "bootstrap")
  /\ End(o, refusal)
  /\ SameFiles /\ SameRest /\ UNCHANGED <<remoteVars, attempt, minted>>

RevokeRefused(o) ==
  /\ pc[o] = "revoke" /\ ~Authorized(o)
  /\ End(o, IF fate[o] THEN "token revoked" ELSE refusal)
  /\ SameFiles /\ SameBao /\ SameRest

Complete(o) ==
  /\ pc[o] = "complete"
  /\ seal' = [seal EXCEPT !.checkpoint = "complete"]
  /\ End(o, None)
  /\ SameBao /\ SameRest /\ UNCHANGED packages

(* The process dies, or a request outside the try fails.                   *)
Crash(o) ==
  /\ pc[o] # "idle" /\ Fault
  /\ lost' = (lost \/ pc[o] = "record")
  /\ End(o, None)
  /\ SameFiles /\ SameBao /\ UNCHANGED <<generated, shown, saved>>

Launch(o) ==
  \/ \E c \in Commands, s \in Selections : Start(o, c, s)
  \/ Load(o) \/ LoadRefused(o)
  \/ WriteNew(o) \/ TearSealFile(o) \/ CreateSeal(o) \/ WaitEndpoint(o) \/ EndpointTimeout(o)
  \/ Inspect(o) \/ InspectRefused(o)
  \/ Initialize(o) \/ Record(o) \/ WritePackage(o) \/ Packaged(o)

GenerateRoot(o) ==
  \/ StartRoot(o) \/ StartRootRefused(o) \/ FirstShare(o) \/ SecondShare(o)
  \/ ShareRejected(o) \/ ShareUnanswered(o) \/ Cancel(o)

Prepare(o) ==
  \/ InspectAccessors(o)
  \/ Stage(o) \/ StageNothing(o) \/ StageRefused(o) \/ Show(o) \/ Acknowledge(o)
  \/ Store(o) \/ StoreEnds(o)
  \/ List(o) \/ Lookup(o) \/ Relist(o) \/ Expel(o) \/ Expelled(o)
  \/ Handover(o) \/ Seeded(o)
  \/ RevokeSelf(o) \/ RevokeAndEnd(o) \/ RevokeRefused(o) \/ Complete(o)

Next == \E o \in Operators : Launch(o) \/ GenerateRoot(o) \/ Prepare(o) \/ Fail(o) \/ Crash(o)

Spec == Init /\ [][Next]_vars

(***************************************************************************)
(* Properties                                                              *)
(***************************************************************************)
(* Whoever holds the recovery shares: an initialized OpenBao is never left *)
(* without them.  Either the seal file has the encrypted shares with the   *)
(* keys to them, or all packages are on disk, or the command that asked    *)
(* for them is still about to write them down; unless the answer was lost  *)
(* (main.py: the order of update, packages and checkpoint in _bootstrap).  *)
SharesRecoverable ==
  initialized => \/ packages = Shares
                 \/ HasKit /\ seal.material
                 \/ \E o \in Operators : pc[o] = "record"
                 \/ lost

(* "OpenBao bootstrap completed; no root token was retained": when the     *)
(* checkpoint becomes complete, the only live root tokens are those minted *)
(* since the bootstrap listed them.  The initialization token, tokens of   *)
(* crashed commands and tokens whose answer was lost are all revoked.      *)
NoRootRetained ==
  [][ \A o \in Operators :
        pc[o] = "complete" /\ pc'[o] = "idle" /\ HasKit /\ seal'.checkpoint = "complete" =>
          \A t \in roots : t > listed[o] ]_vars

(* What a human saw is what holds: a password is displayed with one value  *)
(* ever, whatever crashes between staging and storing; OpenBao has only    *)
(* acknowledged values; an acknowledged value is stored or still pending.  *)
SavedPasswordsStand ==
  \A p \in Passwords :
    /\ Cardinality(shown[p]) <= 1
    /\ stored[p] # 0 => stored[p] \in saved[p]
    /\ \A v \in saved[p] : stored[p] = v \/ (HasKit /\ seal.pending[p] = v)

(* The checkpoint in the seal file never runs ahead of what it stands for. *)
CheckpointsEarned ==
  HasKit =>
    /\ seal.material => initialized
    /\ seal.checkpoint # "seal-created" => initialized /\ packages = Shares
    /\ seal.checkpoint \in {"seeded", "complete"} =>
         \E s \in Selections : \A p \in s : stored[p] # 0

(* A command that follows crashes and failures is never refused because    *)
(* the records contradict each other; it is sent to escalation only when   *)
(* the initialization response was lost.                                   *)
RefusalsAreEarned == refusal \in Earned \/ (refusal = "escalation" /\ lost)

RecordsAgree == SharesRecoverable /\ CheckpointsEarned /\ RefusalsAreEarned

(* Leftovers that no later command takes up: the first write of the seal   *)
(* file was torn ("unreadable"), or the command ended between that write   *)
(* and create_seal (main.py:330-332), which no other branch calls, so that *)
(* OpenBao never starts ("no endpoint").  Somebody has to clear the file.  *)
StuckUnsealed == seal = Torn \/ (HasKit /\ ~sealSecret)

(* A bootstrap that is given the selection of what is staged, or, from     *)
(* "seeded" on, one whose passwords are stored, has nothing to refuse.     *)
SelectionResumes ==
  /\ PendingPasswords # {} => seal.bound \in Selections /\ Missing = {} /\ Differing = {}
  /\ seal.checkpoint = "seeded" => \E s \in Selections : \A p \in s : stored[p] # 0

(* What a bootstrap finds that starts after whatever ended before it: a    *)
(* clean workstation; or leftovers it is stuck with, from before OpenBao   *)
(* was initialized, so that no share is at stake; or, once the static seal *)
(* is stored, records it goes on from, unless the initialization response  *)
(* was lost.  A root generation that a killed command left active ("attempt *)
(* active") is in OpenBao's hands, not in the records: it has to be        *)
(* cancelled first.                                                        *)
LeftoversResume ==
  (\A o \in Operators : command[o] \in {None, "verify"}) =>
    \/ seal = None /\ ~sealSecret /\ ~initialized /\ packages = {}
    \/ StuckUnsealed /\ ~sealSecret /\ ~initialized /\ packages = {}
    \/ /\ HasKit /\ sealSecret
       /\ InspectRefusal \in {None, "already complete"} \/ (InspectRefusal = "escalation" /\ lost)
       /\ seal.checkpoint # "seal-created" => {1, 2} \subseteq packages
       /\ SelectionResumes

(* Whatever crashes, fails or is retried: no share is lost, the checkpoint *)
(* is earned, the records never contradict each other, and once the static *)
(* seal is stored a bootstrap with the same selection goes on from them.   *)
ResumableOnceSealed == RecordsAgree /\ LeftoversResume
=============================================================================
