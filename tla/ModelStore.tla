------------------------------ MODULE ModelStore ------------------------------
(***************************************************************************)
(* The model downloader and the upload of its artifacts                    *)
(* (cli_tools/inference_runtime_manager): the queue, the local store with  *)
(* its inventory (downloader/), and the transfer of a verified artifact to *)
(* the target's model volume (installer/upload.py, worker.py).             *)
(*                                                                         *)
(* An artifact is a selection at a resolved revision.  Its directory holds *)
(* the published content ("good") or something else ("bad"): the drive may *)
(* damage it at any moment.  A staging directory that an interruption      *)
(* leaves behind is never read again, and is not modelled.                 *)
(***************************************************************************)
EXTENDS Sequences, FiniteSets, SequencesExt

CONSTANTS
  Selections,  (* model variants of the catalogs, former ones included      *)
  Catalog,     (* variants in the current catalog                           *)
  Pinned,      (* variants with an exact revision in the catalog            *)
  Revisions,   (* commits of a repository                                   *)
  None

StoreAssumption ==
  /\ IsFiniteSet(Selections) /\ Catalog \subseteq Selections /\ Pinned \subseteq Catalog
  /\ Revisions # {} /\ None \notin Revisions

VARIABLES
  queue,      (* download.yaml                                              *)
  inventory,  (* installed.yaml: the revision listed for a variant          *)
  disk,       (* the artifact directories                                   *)
  head,       (* head[s]: the commit the branch of a variant names upstream     *)
  target,     (* artifacts published on the target, and their content       *)
  step,       (* next step of the operation, "idle" when there is none      *)
  todo,       (* selections still to be synchronized or uploaded            *)
  failed,     (* selections that failed                                     *)
  listing,    (* the inventory as the download read and extended it         *)
  revision,   (* resolved revision of the first of todo                     *)
  guided,     (* download_selections, which leaves the queue alone          *)
  sent        (* content the worker received into its staging directory     *)

storeVars == <<queue, inventory, disk>>
outsideVars == <<head, target>>
workVars == <<step, todo, failed, listing, revision, guided, sent>>
vars == <<queue, inventory, disk, head, target, step, todo, failed, listing, revision, guided, sent>>

Artifacts == Selections \X Revisions
Content == {"absent", "good", "bad"}

TypeOK ==
  /\ queue \subseteq Selections
  /\ inventory \in [Selections -> Revisions \cup {None}]
  /\ disk \in [Artifacts -> Content] /\ target \in [Artifacts -> Content]
  /\ head \in [Catalog \ Pinned -> Revisions]
  /\ step \in {"idle", "resolve", "load", "fetch", "publish", "list", "prepare", "present", "receive"}
  /\ todo \in Seq(Selections) /\ failed \subseteq Selections
  /\ listing \in [Selections -> Revisions \cup {None}]
  /\ revision \in Revisions \cup {None}
  /\ guided \in BOOLEAN /\ sent \in Content

Cur == Head(todo)
Artifact == <<Cur, revision>>

Idle ==
  /\ step' = "idle" /\ todo' = <<>> /\ failed' = {} /\ guided' = FALSE
  /\ listing' = [s \in Selections |-> None] /\ revision' = None /\ sent' = "absent"

-----------------------------------------------------------------------------
(* select_downloads, select_models and add_to_download_queue: the queue is  *)
(* replaced as a whole, once its obsolete entries were dropped with consent.*)
SelectDownloads(chosen) ==
  /\ step = "idle" /\ chosen \subseteq Catalog /\ queue' = chosen
  /\ UNCHANGED <<inventory, disk, outsideVars, workVars>>

(* _download_queue and download_selections, for an authenticated user.      *)
BeginDownload(selected, direct) ==
  /\ step = "idle" /\ selected # {}
  /\ IF direct THEN selected \subseteq Catalog /\ Cardinality(selected) = 1 ELSE selected = queue
  /\ step' = "resolve" /\ todo' = SetToSeq(selected) /\ guided' = direct
  /\ failed' = {} /\ listing' = inventory
  /\ UNCHANGED <<storeVars, outsideVars, revision, sent>>

NextSelection ==
  /\ todo' = Tail(todo) /\ step' = "resolve" /\ revision' = None

(* A selection that fails stays in the queue, and the next one is tried.    *)
(* That the message after both files were written fails (main.py:228) is     *)
(* left out: the selection would be listed and counted as failed.            *)
SelectionFails ==
  /\ step \in {"resolve", "load", "fetch", "publish", "list"} /\ todo # <<>>
  /\ failed' = failed \cup {Cur} /\ NextSelection
  /\ UNCHANGED <<storeVars, outsideVars, listing, guided, sent>>

ResolveRevision ==
  /\ step = "resolve" /\ todo # <<>> /\ Cur \in Catalog
  /\ revision' = IF Cur \in Pinned THEN CHOOSE r \in Revisions : TRUE ELSE head[Cur]
  /\ step' = "load"
  /\ UNCHANGED <<storeVars, outsideVars, todo, failed, listing, guided, sent>>

(* A directory that does not verify is removed, even one that is listed.    *)
LoadValid ==
  /\ step = "load"
  /\ IF disk[Artifact] = "good"
     THEN step' = "list" /\ UNCHANGED disk
     ELSE step' = "fetch" /\ disk' = [disk EXCEPT ![Artifact] = "absent"]
  /\ UNCHANGED <<queue, inventory, outsideVars, todo, failed, listing, revision, guided, sent>>

(* Download and verification in a staging directory of its own.             *)
Fetch ==
  /\ step = "fetch" /\ step' = "publish"
  /\ UNCHANGED <<storeVars, outsideVars, todo, failed, listing, revision, guided, sent>>

PublishLocally ==
  /\ step = "publish" /\ step' = "list"
  /\ disk' = [disk EXCEPT ![Artifact] = "good"]
  /\ UNCHANGED <<queue, inventory, outsideVars, todo, failed, listing, revision, guided, sent>>

(* Mutant: the queue is emptied whatever failed.                            *)
FinishDownloadForgetsFailures ==
  /\ step = "resolve" /\ todo = <<>>
  /\ queue' = IF guided THEN queue ELSE {}
  /\ Idle
  /\ UNCHANGED <<inventory, disk, outsideVars>>

WriteInstalled ==
  /\ step = "list"
  /\ listing' = [listing EXCEPT ![Cur] = revision]
  /\ inventory' = listing'
  /\ NextSelection
  /\ UNCHANGED <<queue, disk, outsideVars, failed, guided, sent>>

FinishDownload ==
  /\ step = "resolve" /\ todo = <<>>
  /\ queue' = IF guided THEN queue ELSE failed
  /\ Idle
  /\ UNCHANGED <<inventory, disk, outsideVars>>

-----------------------------------------------------------------------------
(* upload_models, and the transfer of provision: every artifact is verified *)
(* before the first one is sent.                                            *)
BeginUpload(chosen) ==
  /\ step = "idle" /\ chosen # {}
  /\ \A s \in chosen : inventory[s] # None
  /\ step' = "prepare" /\ todo' = SetToSeq(chosen) /\ listing' = inventory
  /\ UNCHANGED <<storeVars, outsideVars, failed, revision, guided, sent>>

ArtifactIsValid(s) ==
  /\ s \in Catalog
  /\ s \in Pinned => listing[s] = CHOOSE r \in Revisions : TRUE
  /\ disk[<<s, listing[s]>>] = "good"

Prepare ==
  /\ step = "prepare" /\ \A s \in Range(todo) : ArtifactIsValid(s)
  /\ step' = "present" /\ revision' = listing[Cur]
  /\ UNCHANGED <<storeVars, outsideVars, todo, failed, listing, guided, sent>>

(* A verified bundle is not sent again; another one with its name is kept.  *)
Present ==
  /\ step = "present"
  /\ IF target[Artifact] = "absent"
     THEN step' = "receive" /\ sent' = disk[Artifact] /\ UNCHANGED <<todo, revision>>
     ELSE /\ UNCHANGED sent
          /\ step' = (IF Len(todo) = 1 THEN "idle" ELSE "present")
          /\ todo' = Tail(todo)
          /\ revision' = IF Len(todo) = 1 THEN None ELSE listing[todo[2]]
  /\ UNCHANGED <<storeVars, outsideVars, failed, listing, guided>>

(* Mutant: the received files are renamed without comparing checksums.      *)
ReceiveUnverified ==
  /\ step = "receive"
  /\ target' = [target EXCEPT ![Artifact] = sent]
  /\ sent' = "absent" /\ todo' = Tail(todo)
  /\ step' = (IF Len(todo) = 1 THEN "idle" ELSE "present")
  /\ revision' = IF Len(todo) = 1 THEN None ELSE listing[todo[2]]
  /\ UNCHANGED <<storeVars, head, failed, listing, guided>>

(* The staging directory is renamed when every checksum of it agrees.       *)
Receive ==
  /\ step = "receive" /\ sent = "good"
  /\ target' = [target EXCEPT ![Artifact] = sent]
  /\ sent' = "absent" /\ todo' = Tail(todo)
  /\ step' = (IF Len(todo) = 1 THEN "idle" ELSE "present")
  /\ revision' = IF Len(todo) = 1 THEN None ELSE listing[todo[2]]
  /\ UNCHANGED <<storeVars, head, failed, listing, guided>>

-----------------------------------------------------------------------------
(* Ctrl-C, an error of the upload, or the end of the process.               *)
Interrupted ==
  /\ step # "idle" /\ Idle
  /\ UNCHANGED <<storeVars, outsideVars>>

DriveDamages(a) ==
  /\ disk[a] = "good" /\ disk' = [disk EXCEPT ![a] = "bad"]
  /\ UNCHANGED <<queue, inventory, outsideVars, workVars>>

BranchMoves(s, r) ==
  /\ s \in DOMAIN head /\ head' = [head EXCEPT ![s] = r]
  /\ UNCHANGED <<storeVars, target, workVars>>

Init ==
  /\ queue \in SUBSET Selections /\ inventory = [s \in Selections |-> None]
  /\ disk = [a \in Artifacts |-> "absent"] /\ target = [a \in Artifacts |-> "absent"]
  /\ head \in [Catalog \ Pinned -> Revisions]
  /\ step = "idle" /\ todo = <<>> /\ failed = {} /\ guided = FALSE
  /\ listing = inventory /\ revision = None /\ sent = "absent"

Next ==
  \/ \E chosen \in SUBSET Selections : SelectDownloads(chosen) \/ BeginUpload(chosen)
  \/ \E selected \in SUBSET Selections, direct \in BOOLEAN : BeginDownload(selected, direct)
  \/ SelectionFails \/ ResolveRevision \/ LoadValid \/ Fetch \/ PublishLocally
  \/ WriteInstalled \/ FinishDownload
  \/ Prepare \/ Present \/ Receive
  \/ Interrupted
  \/ \E a \in Artifacts : DriveDamages(a)
  \/ \E s \in Selections, r \in Revisions : BranchMoves(s, r)

Spec == Init /\ [][Next]_vars

-----------------------------------------------------------------------------
(* What stands on the target under an artifact's name is the artifact,      *)
(* whatever the drive did between the check and the transfer, and wherever  *)
(* an interruption fell.                                                    *)
TargetIsWhole == \A a \in Artifacts : target[a] # "bad"

(* The target stays whole; a download takes a selection out of the queue    *)
(* only when the inventory lists it, through failures of others and         *)
(* interruptions in between; and what the inventory lists was once whole:   *)
(* it is there, damaged since, or removed by the download that found the    *)
(* damage.                                                                  *)
ModelsAreWholeStep ==
  /\ TargetIsWhole'
  /\ step # "idle" => \A s \in queue \ queue' : inventory'[s] # None
  /\ \A s \in Selections :
       inventory'[s] # inventory[s] => disk[<<s, inventory'[s]>>] # "absent"

ModelsAreWhole == [][ModelsAreWholeStep]_vars

-----------------------------------------------------------------------------
(* The inductive invariant: what a download still has to do, and what an    *)
(* upload has left to send.                                                 *)
Downloading ==
  step \in {"resolve", "load", "fetch", "publish", "list"} =>
    /\ listing = inventory
    /\ ~guided => queue \subseteq failed \cup Range(todo) \cup {s \in Selections : inventory[s] # None}

Resolved ==
  /\ step \in {"load", "fetch", "publish", "list"} => todo # <<>> /\ revision \in Revisions
  /\ step = "list" => disk[Artifact] # "absent"

Uploading ==
  /\ step \in {"prepare", "present", "receive"} =>
       todo # <<>> /\ \A s \in Range(todo) : listing[s] # None
  /\ step \in {"present", "receive"} => revision = listing[Cur]

IInv == TypeOK /\ TargetIsWhole /\ Downloading /\ Resolved /\ Uploading
=============================================================================
