--------------------------- MODULE SourceAcquisition ----------------------------
(***************************************************************************)
(* The cache of add-on sources (addons: acquisition.py, git.py).           *)
(*                                                                         *)
(* A selected source has one cache directory.  Whoever finds it verifies   *)
(* it; whoever does not fetches into a temporary directory beside it,      *)
(* verifies that, creates the directory, which must not exist, and moves   *)
(* one entry after the other into it.  Several callers may do so at once,  *)
(* any may die, a tag may be moved in between, and the operator may spoil  *)
(* or remove a cache by hand.  Signatures and the content of a source      *)
(* (_verify_source) are left out: a revision stands for all of it.         *)
(***************************************************************************)
EXTENDS Naturals

CONSTANTS
  Callers,
  Revisions,
  Entries,    (* of a checkout: .git and the files                          *)
  Git,        (* of these, .git                                             *)
  MaxOps,     (* bound: calls                                               *)
  MaxEdits,   (* bound: moves of the tag, and changes of the cache by hand  *)
  None

AcquisitionAssumption ==
  /\ Git \in Entries /\ {None, "missing", "spoiled"} \cap Revisions = {}
  /\ None \notin [Entries -> Revisions \cup {"missing", "spoiled"}]
  /\ {MaxOps, MaxEdits} \subseteq Nat

VARIABLES
  remote,     (* what the tag names                                         *)
  cache,      (* the directory: of which revision each entry is, or None    *)
  caller,     (* each caller's step, the revision it resolved and what it   *)
              (* has not moved yet                                          *)
  answers,    (* revisions returned since the directory was created         *)
  ops, edits

vars == <<remote, cache, caller, answers, ops, edits>>
Idle == [step |-> "idle", revision |-> None, left |-> {}]

TypeOK ==
  /\ remote \in Revisions /\ answers \subseteq Revisions
  /\ cache = None \/ cache \in [Entries -> Revisions \cup {"missing", "spoiled"}]
  /\ caller \in [Callers -> [step : {"idle", "look", "resolve", "status", "fetch", "publish", "move"},
                             revision : Revisions \cup {None}, left : SUBSET Entries]]
  /\ ops \in 0..MaxOps /\ edits \in 0..MaxEdits

-----------------------------------------------------------------------------
At(c, step) == caller[c].step = step
To(c, step) == caller' = [caller EXCEPT ![c].step = step]
(* An answer, an error, or the end of the process: the temporary directory   *)
(* is nothing that anybody else looks at.                                    *)
End(c) == caller' = [caller EXCEPT ![c] = Idle]
Refuse(c) == End(c) /\ UNCHANGED answers
Answer(c) == End(c) /\ answers' = answers \cup {caller[c].revision}
Reads == UNCHANGED <<remote, cache, ops, edits>>

Start(c) ==
  /\ At(c, "idle") /\ ops < MaxOps /\ ops' = ops + 1 /\ To(c, "look")
  /\ UNCHANGED <<remote, cache, answers, edits>>
Look(c) ==
  /\ At(c, "look") /\ Reads /\ UNCHANGED answers
  /\ To(c, IF cache = None THEN "fetch" ELSE "resolve")

(* An existing directory: its Git data, the revision it resolves to, and     *)
(* then whether the checkout is exactly that.                                *)
Resolve(c) ==
  /\ At(c, "resolve") /\ Reads /\ UNCHANGED answers
  /\ \/ /\ cache # None /\ cache[Git] \in Revisions
        /\ caller' = [caller EXCEPT ![c].revision = cache[Git], ![c].step = "status"]
     \/ End(c)
StatusOfGit(c) ==     (* as if a checkout that lacks files were accepted     *)
  /\ At(c, "status") /\ Reads
  /\ \/ cache # None /\ cache[Git] = caller[c].revision /\ Answer(c)
     \/ Refuse(c)
Status(c) ==
  /\ At(c, "status") /\ Reads
  /\ \/ cache # None /\ (\A e \in Entries : cache[e] = caller[c].revision) /\ Answer(c)
     \/ Refuse(c)

(* A new one: fetched, checked out and verified before anybody can see it.   *)
Fetch(c) ==
  /\ At(c, "fetch") /\ Reads /\ UNCHANGED answers
  /\ \/ caller' = [caller EXCEPT ![c] = [step |-> "publish", revision |-> remote, left |-> Entries]]
     \/ End(c)
Create == cache' = [e \in Entries |-> "missing"] /\ answers' = {}
PublishOver(c) ==     (* as if mkdir accepted a directory that exists        *)
  /\ At(c, "publish") /\ To(c, "move") /\ UNCHANGED <<remote, ops, edits>>
  /\ IF cache = None THEN Create ELSE UNCHANGED <<cache, answers>>
Publish(c) ==
  /\ At(c, "publish") /\ UNCHANGED <<remote, ops, edits>>
  /\ \/ cache = None /\ Create /\ To(c, "move")
     \/ Refuse(c) /\ UNCHANGED cache
Move(c) ==
  /\ At(c, "move") /\ UNCHANGED <<remote, ops, edits>>
  /\ \/ caller[c].left = {} /\ Answer(c) /\ UNCHANGED cache
     \/ \E e \in caller[c].left :
          /\ caller' = [caller EXCEPT ![c].left = @ \ {e}]
          /\ cache' = [cache EXCEPT ![e] = caller[c].revision]
          /\ UNCHANGED answers
     \/ caller[c].left # {} /\ Refuse(c) /\ UNCHANGED cache
Crash(c) == ~At(c, "idle") /\ Refuse(c) /\ Reads

-----------------------------------------------------------------------------
(* The tag is moved; the operator changes a cache, or removes one that       *)
(* nobody is filling.                                                        *)
Edit == edits < MaxEdits /\ edits' = edits + 1 /\ UNCHANGED <<caller, ops>>
MoveTag == Edit /\ remote' \in Revisions \ {remote} /\ UNCHANGED <<cache, answers>>
Spoil ==
  /\ Edit /\ cache # None /\ UNCHANGED <<remote, answers>>
  /\ \E e \in Entries : cache[e] # "missing" /\ cache' = [cache EXCEPT ![e] = "spoiled"]
Remove ==
  /\ Edit /\ cache # None /\ (\A c \in Callers : ~At(c, "move"))
  /\ cache' = None /\ answers' = {} /\ UNCHANGED remote

Init ==
  /\ remote \in Revisions /\ cache = None /\ caller = [c \in Callers |-> Idle] /\ answers = {}
  /\ ops = 0 /\ edits = 0

Next ==
  \/ \E c \in Callers :
       \/ Start(c) \/ Look(c) \/ Resolve(c) \/ Status(c) \/ Fetch(c) \/ Publish(c) \/ Move(c)
       \/ Crash(c)
  \/ MoveTag \/ Spoil \/ Remove

Spec == Init /\ [][Next]_vars

-----------------------------------------------------------------------------
(* Whoever was given a source finds all of it in the directory, of the one  *)
(* revision that all were given, except for what the operator spoiled.       *)
SourcesAreWhole ==
  \A r \in answers : cache # None /\ \A e \in Entries : cache[e] \in {r, "spoiled"}

(* The inductive invariant: one caller at a time fills the directory, and    *)
(* nothing but what it has moved is there.                                   *)
OneFills == \A c, d \in Callers : At(c, "move") /\ At(d, "move") => c = d
Filling ==
  \A c \in Callers :
    /\ caller[c].step \in {"status", "publish", "move"} => caller[c].revision \in Revisions
    /\ At(c, "publish") => caller[c].left = Entries
    /\ At(c, "move") =>
         /\ cache # None
         /\ \A e \in Entries :
              IF e \in caller[c].left THEN cache[e] = "missing"
              ELSE cache[e] \in {caller[c].revision, "spoiled"}

IInv == TypeOK /\ OneFills /\ Filling /\ SourcesAreWhole
=============================================================================
