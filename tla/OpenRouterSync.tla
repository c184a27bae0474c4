---------------------------- MODULE OpenRouterSync -----------------------------
(***************************************************************************)
(* The synchronisation of the OpenRouter catalog (cli_tools/               *)
(* openrouter_catalog_sync: sync.py, main.py, metadata.py).                *)
(*                                                                         *)
(* One run reads the policy and every page of the vendor's list, which may *)
(* change between two pages, may let the operator choose, and generates    *)
(* three files that must agree: the policy itself, the catalog and the     *)
(* prices.  They are staged, the old ones are copied, and then they are    *)
(* replaced one after another; a failure or Ctrl-C puts back what was      *)
(* replaced.  A page holds one model here.  A run may also be killed.      *)
(***************************************************************************)
EXTENDS Naturals, Sequences, FiniteSets

CONSTANTS
  Models,       (* what the vendor may list                                 *)
  Fit,          (* those that are compatible                                *)
  Twins,        (* models with one public name between them                 *)
  Custom,       (* models the policy prices itself (customPricing)          *)
  MaxPages,     (* MAX_PAGES                                                *)
  MaxRuns,      (* bound: runs of the command                               *)
  MaxEdits,     (* bound: changes by the vendor and by others to the files  *)
  UndoBreaks,   (* may Ctrl-C come while replaced files are put back?       *)
  None

SyncAssumption ==
  /\ UNION {Fit, Twins, Custom} \subseteq Models /\ None \notin Models
  /\ IsFiniteSet(Models) /\ MaxPages \in Nat \ {0} /\ {MaxRuns, MaxEdits} \subseteq Nat
  /\ UndoBreaks \in BOOLEAN

VARIABLES
  listing,    (* the vendor's list, in its order                            *)
  file,       (* the three files: None where there is none                  *)
  spare,      (* the copies of the old ones that are on the disk            *)
  before,     (* history: the files when this run began to write            *)
  run,        (* the command: its step and what it has gathered             *)
  told,       (* what the last run ended with                               *)
  runs, edits

vars == <<listing, file, spare, before, run, told, runs, edits>>
outside == <<listing, runs, edits>>

Files == <<"policy", "catalog", "pricing">>           (* in writing order   *)
Names == {"policy", "catalog", "pricing"}
Content == [models : SUBSET Models, metadata : {"none", "refreshed"}]
Blank == [f \in Names |-> None]
Listings ==
  UNION {{l \in [1..n -> Models] : \A i, j \in 1..n : l[i] = l[j] => i = j}
           : n \in 0..Cardinality(Models)}

Idle == [step |-> "idle", mode |-> "check", chosen |-> {}, seen |-> {}, total |-> None,
         page |-> 1, fresh |-> Blank, at |-> 0, failed |-> FALSE, cause |-> "none"]

Run ==
  [step : {"idle", "fetch", "choose", "generate", "write", "next", "replace",
           "undo", "clean"},
   mode : {"check", "write", "select"},
   chosen : SUBSET Models,                   (* selected_models    *)
   seen : SUBSET Models,                     (* model_ids          *)
   total : 0..Cardinality(Models) \cup {None},   (* expected_total *)
   page : 1..(MaxPages + 1),
   fresh : [Names -> Content \cup {None}],   (* GeneratedFiles     *)
   at : 0..3,            (* files in "replaced", or left to undo   *)
   failed : BOOLEAN,     (* a file could not be put back           *)
   cause : {"none", "error", "interrupt"}]

TypeOK ==
  /\ listing \in Listings
  /\ {file, before, spare} \subseteq [Names -> Content \cup {None}]
  /\ run \in Run
  /\ told \in {"none", "same", "written", "error", "interrupt", "rollback failed", "killed"}
  /\ runs \in 0..MaxRuns /\ edits \in 0..MaxEdits

-----------------------------------------------------------------------------
(* From the policy to the generated files: nothing is written yet, and any  *)
(* failure, or Ctrl-C, ends the run.                                         *)
At(step) == run.step = step
End(answer) == run' = [Idle EXCEPT !.fresh = run.fresh] /\ told' = answer
Keep == UNCHANGED <<outside, file, spare, before>>

(* validate_paths, load_policy.                                              *)
Start(mode) ==
  /\ At("idle") /\ runs < MaxRuns /\ runs' = runs + 1 /\ file["policy"] # None
  /\ run' = [Idle EXCEPT !.step = "fetch", !.mode = mode, !.chosen = file["policy"].models]
  /\ told' = "none" /\ spare' = Blank /\ before' = Blank
  /\ UNCHANGED <<listing, file, edits>>

(* _add_page_records: no model comes twice, nor beyond the total.            *)
RecordsFit(data) ==
  data \cap run.seen = {} /\ Cardinality(run.seen \cup data) <= Len(listing)

(* One page: the total may not change between pages, and the last page      *)
(* has to complete it.                                                       *)
FetchPage ==
  LET data == {listing[k] : k \in {run.page} \cap 1..Len(listing)}
      seen == run.seen \cup data
      last == run.page >= Len(listing)
  IN /\ At("fetch")
     /\ IF /\ run.page <= MaxPages
           /\ run.total \in {None, Len(listing)}
           /\ RecordsFit(data) /\ (last => Cardinality(seen) = Len(listing))
        THEN /\ told' = told
             /\ run' = [run EXCEPT !.seen = seen, !.total = Len(listing), !.page = @ + 1,
                          !.step = IF ~last THEN "fetch"
                                   ELSE IF run.mode = "select" THEN "choose" ELSE "generate"]
        ELSE End("error")
     /\ Keep

(* The compatible models, and those that were chosen and are not any more.  *)
Compatible == run.seen \cap Fit
Choices == Compatible \cup run.chosen
Choose(models) ==
  /\ At("choose") /\ models \subseteq Choices
  /\ run' = [run EXCEPT !.chosen = models, !.step = "generate"]
  /\ UNCHANGED told /\ Keep

(* generate refuses what the list or the policy does not support; the       *)
(* metadata another tool left in the catalog is kept, or refreshed.         *)
Supported(models) ==
  /\ models \subseteq Compatible
  /\ Cardinality(models \cap Twins) <= 1 /\ models \cap Custom = {}
KeptMetadata == IF file["catalog"] = None THEN "none" ELSE file["catalog"].metadata
Generated(models, metadata) ==
  [f \in Names |-> [models |-> models, metadata |-> IF f = "catalog" THEN metadata ELSE "none"]]
Generate(refresh) ==
  /\ At("generate") /\ Supported(run.chosen)
  /\ run' = [run EXCEPT !.step = IF run.mode = "check" THEN "clean" ELSE "write",
                !.fresh = Generated(run.chosen, IF refresh THEN "refreshed" ELSE KeptMetadata)]
  /\ UNCHANGED told /\ Keep

(* A page that does not arrive, an answer that is not understood, a choice  *)
(* that is cancelled, a selection that is not supported, Ctrl-C.            *)
GiveUp ==
  \/ At("fetch") /\ End("error") /\ Keep
  \/ At("choose") /\ End("error") /\ Keep
  \/ At("generate") /\ ~Supported(run.chosen) /\ End("error") /\ Keep
  \/ run.step \in {"fetch", "generate"} /\ End("interrupt") /\ Keep

(* check_files: --check writes nothing.                                      *)
Compare ==
  /\ At("clean") /\ run.mode = "check"
  /\ End(IF file = run.fresh THEN "same" ELSE "error") /\ Keep

-----------------------------------------------------------------------------
(* write_files: all three are staged and the old ones copied; each file is  *)
(* noted in "replaced" before it is replaced.                                *)
Writing == run.mode # "check"
Undo(cause) == run' = [run EXCEPT !.step = "undo", !.cause = cause] /\ UNCHANGED told

StageAndCopy ==
  /\ At("write") /\ before' = file /\ UNCHANGED <<outside, file>>
  /\ \/ spare' = file /\ run' = [run EXCEPT !.step = "next"] /\ UNCHANGED told
     \/ \E cause \in {"error", "interrupt"} : spare' = Blank /\ Undo(cause)

NoteNext ==
  /\ At("next") /\ UNCHANGED <<outside, file, spare, before, told>>
  /\ run' = IF run.at < 3 THEN [run EXCEPT !.at = @ + 1, !.step = "replace"]
            ELSE [run EXCEPT !.step = "clean"]

Replaced == [file EXCEPT ![Files[run.at]] = run.fresh[Files[run.at]]]
Replace ==
  /\ At("replace") /\ UNCHANGED <<outside, spare, before, told>>
  /\ file' = Replaced /\ run' = [run EXCEPT !.step = "next"]

(* Ctrl-C is not caught: what was replaced stays, and no copy is kept.       *)
FailUncaught ==
  \/ At("replace") /\ Undo("error") /\ UNCHANGED <<outside, file, spare, before>>
  \/ /\ run.step \in {"next", "replace"} /\ End("interrupt") /\ spare' = Blank
     /\ UNCHANGED <<outside, file, before>>

(* A replacement that fails leaves the file; Ctrl-C comes between any two.  *)
Fail ==
  /\ \/ At("replace") /\ Undo("error")
     \/ run.step \in {"next", "replace"} /\ Undo("interrupt")
  /\ UNCHANGED <<outside, file, spare, before>>

(* _rollback_outputs, the last file first: what there was is moved back     *)
(* from its copy, and a file that is new is removed.  A failure is noted,   *)
(* the others are still put back, and the copies then stay.                 *)
PutBack ==
  LET f == Files[run.at]
  IN /\ At("undo") /\ run.at > 0 /\ UNCHANGED <<outside, before, told>>
     /\ \/ /\ file' = [file EXCEPT ![f] = spare[f]] /\ spare' = [spare EXCEPT ![f] = None]
           /\ run' = [run EXCEPT !.at = @ - 1]
        \/ /\ run' = [run EXCEPT !.at = @ - 1, !.failed = TRUE]
           /\ UNCHANGED <<file, spare>>

Undone ==
  /\ At("undo") /\ run.at = 0 /\ UNCHANGED <<outside, file, before>>
  /\ IF run.failed THEN End("rollback failed") /\ UNCHANGED spare
     ELSE End(run.cause) /\ spare' = Blank

(* Ctrl-C while files are put back: the rest is not, and no copy is kept.   *)
UndoInterrupted ==
  /\ UndoBreaks /\ At("undo")
  /\ End("interrupt") /\ spare' = Blank /\ UNCHANGED <<outside, file, before>>

(* The finally of a write that went through, and Ctrl-C in it.              *)
Clean ==
  /\ At("clean") /\ Writing /\ UNCHANGED <<outside, file, before>>
  /\ \/ End("written") /\ spare' = Blank
     \/ End("interrupt") /\ UNCHANGED spare

Kill ==
  /\ run.step \in {"write", "next", "replace", "undo", "clean"} /\ Writing
  /\ before' = (IF At("write") THEN file ELSE before)
  /\ End("killed") /\ UNCHANGED <<outside, file, spare>>

-----------------------------------------------------------------------------
(* The vendor lists other models, or in another order; the policy is edited *)
(* and the catalog's metadata refreshed before the run writes.              *)
VendorEdit(l) ==
  /\ edits < MaxEdits /\ edits' = edits + 1
  /\ listing' = l /\ l # listing
  /\ UNCHANGED <<file, spare, before, run, told, runs>>
FileEdit(f, c) ==
  /\ edits < MaxEdits /\ edits' = edits + 1 /\ run.step \in {"idle", "fetch", "choose"}
  /\ f # "pricing" /\ c # file[f] /\ (f = "policy" => c.metadata = "none")
  /\ (f = "catalog" => file[f] # None /\ c.models = file[f].models)
  /\ file' = [file EXCEPT ![f] = c] /\ told' = "none" /\ spare' = Blank /\ before' = Blank
  /\ UNCHANGED <<listing, run, runs>>

Init ==
  /\ listing \in Listings /\ spare = Blank /\ before = Blank
  /\ \E m \in SUBSET Models, earlier \in {Blank, Generated({}, "none"), Generated({}, "refreshed")} :
       file = [earlier EXCEPT !["policy"] = [models |-> m, metadata |-> "none"]]
  /\ run = Idle /\ told = "none" /\ runs = 0 /\ edits = 0

Next ==
  \/ \E mode \in {"check", "write", "select"} : Start(mode)
  \/ FetchPage \/ \E models \in SUBSET Models : Choose(models)
  \/ \E refresh \in BOOLEAN : Generate(refresh)
  \/ GiveUp \/ Compare
  \/ StageAndCopy \/ NoteNext \/ Replace \/ Fail \/ PutBack \/ Undone \/ UndoInterrupted
  \/ Clean \/ Kill
  \/ /\ edits < MaxEdits
     /\ \/ \E l \in Listings : VendorEdit(l)
        \/ \E f \in Names, c \in Content : FileEdit(f, c)

Spec == Init /\ [][Next]_vars

-----------------------------------------------------------------------------
(* When the command has ended, the three files are those of one generation  *)
(* if it says so, and otherwise what they were: even if they could not all  *)
(* be put back, each is what it was or its copy is kept.  Only a run that   *)
(* was killed, or interrupted in its very last step, leaves new files       *)
(* without saying so, and then each is whole.                               *)
WholeOrUntouched ==
  At("idle") =>
    /\ told = "written" => file = run.fresh
    /\ told = "error" => before \in {Blank, file}
    /\ told = "interrupt" => before = Blank \/ file \in {before, run.fresh}
    /\ told = "rollback failed" =>
         \A f \in Names : file[f] = before[f] \/ spare[f] = before[f]
    /\ told = "killed" => \A f \in Names : file[f] \in {before[f], run.fresh[f]}

(* "Ctrl-C or terminal cancellation leaves all three files unchanged"       *)
(* (README.md:81-82 of the tool), for a Ctrl-C at any time.                 *)
CancelLeavesFiles == At("idle") /\ told = "interrupt" => before \in {Blank, file}

-----------------------------------------------------------------------------
(* The inductive invariant: what has been replaced, and what the copies     *)
(* still hold, file after file.                                             *)
Old(f) == file[f] = before[f]
New(f) == file[f] = run.fresh[f]
Copied(f) == spare[f] = before[f]

Begun ==
  /\ run.failed => At("undo")
  /\ run.step \in {"write", "next", "replace", "undo"} => Writing

Untouched ==
  run.step \in {"fetch", "choose", "generate", "write"} \/ (At("clean") /\ ~Writing) =>
    before = Blank /\ run.at = 0

Replacing ==
  /\ run.step \in {"next", "replace"} => \A f \in Names : Copied(f)
  /\ At("next") => \A k \in 1..3 : IF k <= run.at THEN New(Files[k]) ELSE Old(Files[k])
  /\ At("replace") => /\ run.at > 0
                     /\ \A k \in 1..3 : IF k < run.at THEN New(Files[k]) ELSE Old(Files[k])
  /\ At("clean") /\ Writing => \A f \in Names : New(f)

Undoing ==
  At("undo") =>
    \A k \in 1..3 :
      IF k <= run.at THEN Copied(Files[k]) /\ (Old(Files[k]) \/ New(Files[k]))
      ELSE Old(Files[k]) \/ (run.failed /\ Copied(Files[k]) /\ New(Files[k]))

IInv == TypeOK /\ Begun /\ Untouched /\ Replacing /\ Undoing /\ WholeOrUntouched
=============================================================================
