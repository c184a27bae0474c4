----------------------------- MODULE ReleaseNotes -----------------------------
(***************************************************************************)
(* Notes and corrections of an open release PR                             *)
(* (cli_tools/platform_release/notes.py, upload.py, push_hook.py and check *)
(* in main.py): the operator edits the release files in a worktree of      *)
(* their own, and one evidence-only commit is pushed to the PR's branch.   *)
(*                                                                         *)
(* Anyone may edit the worktree, and push to or rewind the branch, between *)
(* any two steps.  A text stands for the five release files together.  Any *)
(* command may fail or be interrupted: GiveUp leaves everything in place.  *)
(***************************************************************************)
EXTENDS Naturals, Sequences

CONSTANTS
  Texts,
  MaxCommits,  (* bound: commits                                            *)
  MaxEdits,    (* bound: edits, moves of the branch, commands               *)
  None

NotesAssumption == MaxCommits \in Nat \ {0, 1} /\ MaxEdits \in Nat /\ None \notin Texts

VARIABLES
  log,       (* the commits, each with its parent (0: none) and its text    *)
  head,      (* head of the PR's branch                                     *)
  open,      (* the PR is open                                              *)
  tree,      (* the editable worktree of a PR head                          *)
  session,   (* the command in progress                                     *)
  edits, answer

vars == <<log, head, open, tree, session, edits, answer>>
remoteVars == <<head, open>>

Ids == 1..MaxCommits

NoTree == [commit |-> 0, files |-> None, index |-> None, stray |-> FALSE]
NoSession ==
  [step |-> "idle", check |-> FALSE, base |-> 0, before |-> None, preview |-> None,
   head |-> 0, snapshot |-> None]

Log == Seq([parent : 0..MaxCommits, text : Texts])
Worktree ==
  [commit : 0..MaxCommits,          (* HEAD, 0: no worktree                      *)
   files : Texts \cup {None},
   index : Texts \cup {None},       (* None: nothing is staged                   *)
   stray : BOOLEAN]                 (* edits of other files                      *)
Session ==
  [step : {"idle", "notes", "draft", "correct", "offer", "format", "formatted", "upload",
           "guard", "add", "commit", "committed", "rescan", "push", "validate", "validated"},
   check : BOOLEAN,                 (* check, not finish-notes                   *)
   base : 0..MaxCommits,            (* PR head that was selected                 *)
   before : Texts \cup {None},      (* files before the prompts, or the hooks    *)
   preview : Texts \cup {None},     (* the change the operator accepted          *)
   head : 0..MaxCommits,            (* commit to be pushed                       *)
   snapshot : Texts \cup {None}]    (* files when the upload began               *)

TypeOK ==
  /\ log \in Log /\ Len(log) \in Ids
  /\ head \in Ids /\ open \in BOOLEAN /\ edits \in 0..MaxEdits
  /\ tree \in [Ids -> Worktree] /\ session \in Session
  /\ answer \in {"nothing", "updated", "passed"}

-----------------------------------------------------------------------------
T == tree[session.base]
TextOf(c) == log[c].text

(* _check_pr_head.                                                          *)
HeadStays == open /\ head = session.base

(* _gate: the worktree and the PR are those of the session.                 *)
Gated == T.commit = session.head /\ HeadStays

Clean(w) == w.index = None /\ ~w.stray /\ w.files = TextOf(w.commit)

(* notes_head: the PR head, or one clean commit on it.                      *)
PendingOrBase(b, w) == w.commit = b \/ (log[w.commit].parent = b /\ Clean(w))

(* _unchanged.                                                              *)
Unchanged == ~T.stray /\ T.files = session.snapshot /\ T.files = session.preview

At(step) == session.step = step
To(step) == session' = [session EXCEPT !.step = step]

Write(text) == tree' = [tree EXCEPT ![session.base].files = text]

-----------------------------------------------------------------------------
(* _select_check_pr and editable_checkout; check requires a worktree that   *)
(* no notes session has touched.                                            *)
Select(check) ==
  /\ session = NoSession /\ open /\ edits < MaxEdits /\ edits' = edits + 1
  /\ LET w == IF tree[head] = NoTree
              THEN [NoTree EXCEPT !.commit = head, !.files = TextOf(head)]
              ELSE tree[head]
     IN /\ PendingOrBase(head, w)
        /\ check => w.commit = head /\ Clean(w)
        /\ tree' = [tree EXCEPT ![head] = w]
        /\ session' = [NoSession EXCEPT !.base = head, !.check = check, !.head = w.commit,
                         !.step = IF check THEN "correct"
                                  ELSE IF w.commit = head THEN "notes" ELSE "offer"]
  /\ answer' = "nothing"
  /\ UNCHANGED <<log, remoteVars>>

(* finish_notes reads the files, and asks.                                  *)
ReadNotes ==
  /\ At("notes") /\ ~T.stray /\ T.commit = session.base
  /\ session' = [session EXCEPT !.step = "draft", !.before = T.files]
  /\ UNCHANGED <<log, remoteVars, tree, edits, answer>>

SaveDraft(text) ==
  /\ At("draft") /\ HeadStays /\ ~T.stray
  /\ T.files = session.before /\ T.commit = session.base
  /\ Write(text) /\ To("offer")
  /\ UNCHANGED <<log, remoteVars, edits, answer>>

(* check_updates: the generated files are brought up to date.               *)
Correct(text) ==
  /\ At("correct") /\ HeadStays /\ T.commit = session.base /\ Clean(T)
  /\ Write(text)
  /\ session' = [session EXCEPT !.step = "format", !.preview = text]
  /\ UNCHANGED <<log, remoteVars, edits, answer>>

(* offer_upload: the operator accepts the change that is shown.             *)
Offer ==
  /\ At("offer") /\ T.index = None /\ PendingOrBase(session.base, T)
  /\ T.files # TextOf(session.base) \/ T.stray
  /\ session' = [session EXCEPT !.preview = T.files, !.head = T.commit,
                                !.step = IF session.check THEN "upload" ELSE "format"]
  /\ UNCHANGED <<log, remoteVars, tree, edits, answer>>

-----------------------------------------------------------------------------
(* _format_for_upload: the hooks may rewrite the files, never a pending     *)
(* commit; what they changed is accepted anew, now or by the offer of check.*)

RunHooks(text) ==
  /\ At("format") /\ ~T.stray
  /\ Write(text)
  /\ session' = [session EXCEPT !.step = "formatted", !.before = T.files]
  /\ UNCHANGED <<log, remoteVars, edits, answer>>

Formatted ==
  /\ At("formatted") /\ ~T.stray /\ T.index = None
  /\ T.files = session.before \/ session.head = session.base
  /\ session' =
       [session EXCEPT
          !.preview = IF T.files = session.before THEN @ ELSE T.files,
          !.step = IF ~session.check THEN "upload"
                   ELSE IF T.files = TextOf(session.base) THEN "validate" ELSE "offer"]
  /\ UNCHANGED <<log, remoteVars, tree, edits, answer>>

-----------------------------------------------------------------------------
(* _upload and _commit.                                                     *)

UploadChecks ==
  /\ At("upload")
  /\ session' = [session EXCEPT !.step = "guard", !.snapshot = T.files]
  /\ UNCHANGED <<log, remoteVars, tree, edits, answer>>

Guarded ==
  /\ At("guard") /\ Gated /\ Unchanged
  /\ To(IF session.head = session.base THEN "add" ELSE "rescan")
  /\ UNCHANGED <<log, remoteVars, tree, edits, answer>>

(* What is staged by now need not be what was accepted, and then stays so.  *)
Add ==
  /\ At("add") /\ ~T.stray /\ T.index = None /\ T.files # TextOf(session.base)
  /\ tree' = [tree EXCEPT ![session.base].index = T.files]
  /\ IF T.files = session.preview THEN To("commit") ELSE session' = NoSession
  /\ UNCHANGED <<log, remoteVars, edits, answer>>

(* The commit takes the index as it is by then, which hooks may change.     *)
Commit(hooked) ==
  /\ At("commit") /\ Gated /\ ~T.stray
  /\ T.index = session.preview /\ T.files = T.index
  /\ Len(log) < MaxCommits
  /\ log' = Append(log, [parent |-> T.commit, text |-> hooked])
  /\ tree' = [tree EXCEPT ![session.base].commit = Len(log) + 1, ![session.base].index = None]
  /\ To("committed")
  /\ UNCHANGED <<remoteVars, edits, answer>>

(* Mutant: the tree of the commit is not compared with the reviewed one.    *)
CommittedAnyTree ==
  /\ At("committed")
  /\ session' = [session EXCEPT !.step = "push", !.head = T.commit]
  /\ UNCHANGED <<log, remoteVars, tree, edits, answer>>

Committed ==
  /\ At("committed")
  /\ T.commit # session.base /\ PendingOrBase(session.base, T)
  /\ TextOf(T.commit) = session.preview
  /\ session' = [session EXCEPT !.step = "rescan", !.head = T.commit]
  /\ UNCHANGED <<log, remoteVars, tree, edits, answer>>

Rescanned ==
  /\ At("rescan") /\ Unchanged /\ Clean(T) /\ Gated
  /\ To("push")
  /\ UNCHANGED <<log, remoteVars, tree, edits, answer>>

(* push_hook.py: the branch the push replaces is the one selected.          *)
Advertised == head = session.base

(* _push: one commit on the selected head, compared and swapped.            *)
Push ==
  /\ At("push") /\ log[session.head].parent = session.base /\ Advertised
  /\ head' = session.head /\ answer' = "updated"
  /\ session' = IF session.check
                THEN [NoSession EXCEPT !.step = "validate", !.check = TRUE, !.base = session.head]
                ELSE NoSession
  /\ UNCHANGED <<log, open, tree, edits>>

-----------------------------------------------------------------------------
(* check_release, on an immutable checkout of the selected head.            *)

Validate(from, to) ==
  /\ At(from) /\ HeadStays
  /\ IF to = "idle" THEN session' = NoSession /\ answer' = "passed"
     ELSE To(to) /\ UNCHANGED answer
  /\ UNCHANGED <<log, remoteVars, tree, edits>>

GiveUp ==
  /\ session # NoSession /\ session' = NoSession
  /\ UNCHANGED <<log, remoteVars, tree, edits, answer>>

-----------------------------------------------------------------------------
(* Other people, and other programs.                                        *)

Disturb == edits < MaxEdits /\ edits' = edits + 1 /\ UNCHANGED <<session, answer>>

EditWorktree(b, text) ==
  /\ Disturb /\ tree[b] # NoTree
  /\ \/ tree' = [tree EXCEPT ![b].files = text]
     \/ /\ tree[b].files # TextOf(tree[b].commit)
        /\ tree' = [tree EXCEPT ![b].index = tree[b].files]
     \/ tree' = [tree EXCEPT ![b].index = None]
     \/ tree' = [tree EXCEPT ![b].stray = ~@]
  /\ UNCHANGED <<log, remoteVars>>

CommitByHand(b) ==
  /\ Disturb /\ tree[b] # NoTree /\ tree[b].index # None /\ Len(log) < MaxCommits
  /\ log' = Append(log, [parent |-> tree[b].commit, text |-> tree[b].index])
  /\ tree' = [tree EXCEPT ![b].commit = Len(log) + 1, ![b].index = None]
  /\ UNCHANGED remoteVars

BranchMoves(text) ==
  /\ Disturb
  /\ \/ /\ Len(log) < MaxCommits /\ log' = Append(log, [parent |-> head, text |-> text])
        /\ head' = Len(log) + 1 /\ UNCHANGED open
     \/ log[head].parent # 0 /\ head' = log[head].parent /\ UNCHANGED <<log, open>>
     \/ open' = ~open /\ UNCHANGED <<log, head>>
  /\ UNCHANGED tree

-----------------------------------------------------------------------------
Init ==
  /\ \E text \in Texts :
       log = <<[parent |-> 0, text |-> text], [parent |-> 1, text |-> text]>>
  /\ head = 2 /\ open = TRUE
  /\ tree = [c \in Ids |-> NoTree]
  /\ session = NoSession /\ edits = 0 /\ answer = "nothing"

Next ==
  \/ \E check \in BOOLEAN : Select(check)
  \/ ReadNotes \/ Offer \/ Formatted \/ UploadChecks \/ Guarded \/ Add \/ Committed \/ Rescanned
  \/ Push \/ Validate("validate", "validated") \/ Validate("validated", "idle") \/ GiveUp
  \/ \E text \in Texts :
       \/ SaveDraft(text) \/ Correct(text) \/ RunHooks(text) \/ Commit(text) \/ BranchMoves(text)
       \/ \E b \in Ids : EditWorktree(b, text)
  \/ \E b \in Ids : CommitByHand(b)

Spec == Init /\ [][Next]_vars

-----------------------------------------------------------------------------
(* A push carries exactly the text the operator accepted, in one commit on  *)
(* the head the operator selected, which is the head it replaces: neither   *)
(* hooks nor edits slip anything in, and nobody's commit is lost or comes   *)
(* back (_upload, _commit, _push, push_hook.main).                          *)
PushedIsReviewedStep ==
  answer # "updated" /\ answer' = "updated" =>
    /\ TextOf(head') = session.preview /\ log[head'].parent = head
    /\ head = session.base /\ head' = session.head

PushedIsReviewed == [][PushedIsReviewedStep]_vars

-----------------------------------------------------------------------------
(* The inductive invariant: the commit that is to be pushed has the text    *)
(* that was accepted, whoever made it.                                      *)
Logged ==
  /\ head <= Len(log) /\ session.base <= Len(log) /\ session.head <= Len(log)
  /\ \A b \in Ids : tree[b].commit <= Len(log) /\ (tree[b].commit = 0 => tree[b] = NoTree)
  /\ \A c \in 1..Len(log) : log[c].parent < c

Underway ==
  /\ session.base = 0 <=> session = NoSession
  /\ session.step \notin {"idle", "validate", "validated"} =>
       T.commit # 0 /\ session.head # 0
  /\ session.step = "idle" => session = NoSession

Reviewed ==
  /\ session.step \in {"correct", "add", "commit"} => session.head = session.base
  /\ session.step \in {"format", "formatted", "upload", "guard"} /\ session.head # session.base =>
       TextOf(session.head) = session.preview
  /\ session.step \in {"rescan", "push"} => TextOf(session.head) = session.preview

IInv == TypeOK /\ Logged /\ Underway /\ Reviewed
===============================================================================
