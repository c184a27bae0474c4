---------------------------- MODULE MCWorkstation ----------------------------
(* The operator's command-line tools.  They share no state: a behaviour is  *)
(* one of a single tool, and the tools take turns in the same variables.    *)
EXTENDS Integers, TLC

CONSTANTS a1, a2, a3, r1, r2, r3, r4,   (* aliases or models, recipes or rates      *)
          m1, m2, m3, h1, h2,           (* selections and their revisions          *)
          v1, v2,                       (* versions of a recipe's model            *)
          e1, e2,                       (* two of a kind: options, callers, texts  *)
          None, Untracked, Unconfirmed

(* What the tools are given: the proofs are about any of it.                  *)
CONSTANTS
  Aliases, Recipes, AliasOf, Tuned, Options, Groups,          (* runtime activation     *)
  LlmGroups, Families, Versions, RuntimeOps,
  Selections, Catalog, Pinned, Revisions,                     (* the model downloader   *)
  Operators, LastCommit, ReleaseRuns, PythonRuns,             (* the two releases       *)
  Texts, NotesCommits, NotesEdits,                            (* release notes          *)
  Models, Fit, Twins, Custom, MaxPages, SyncRuns, SyncEdits,  (* the OpenRouter catalog *)
  Rates, Sources, Prices, Thresholds, Sizes, MaxOverrides,    (* what a model costs     *)
  Callers, Entries, Git, SourceOps, SourceEdits               (* acquired sources       *)

VARIABLES
  tool,   (* the tool in use *)
  s1, s2, s3, s4, s5, s6, s7, s8, s9, s10, s11, s12, s13, s14, s15, s16   (* its state *)

vars == <<tool, s1, s2, s3, s4, s5, s6, s7, s8, s9, s10, s11, s12, s13, s14, s15, s16>>

Runtime ==
  INSTANCE RuntimeActivation WITH
    MaxOps <- RuntimeOps,
    saved <- s1, option <- s2, receipts <- s3, stock <- s4, held <- s5, link <- s6, box <- s7,
    pc <- s8, job <- s9, told <- s10, ops <- s11

Store ==
  INSTANCE ModelStore WITH
    queue <- s1, inventory <- s2, disk <- s3, head <- s4, target <- s5, step <- s6, todo <- s7,
    failed <- s8, listing <- s9, revision <- s10, guided <- s11, sent <- s12

Release ==
  INSTANCE ReleasePublication WITH
    MaxRuns <- ReleaseRuns,
    tip <- s1, merge <- s2, pr <- s3, ci <- s4, preparing <- s5, staging <- s6, final <- s7,
    dispatched <- s8, verifying <- s9, publishing <- s10, release <- s11, local <- s12,
    run <- s13, told <- s14, started <- s15, approvals <- s16

Notes ==
  INSTANCE ReleaseNotes WITH
    MaxCommits <- NotesCommits, MaxEdits <- NotesEdits,
    log <- s1, head <- s2, open <- s3, tree <- s4, session <- s5, edits <- s6, answer <- s7

Python ==
  INSTANCE PythonRelease WITH
    MaxRuns <- PythonRuns,
    tip <- s1, ci <- s2, tag <- s3, workflow <- s4, assets <- s5, clone <- s6, run <- s7,
    told <- s8, started <- s9, approvals <- s10

Sync ==
  INSTANCE OpenRouterSync WITH
    MaxRuns <- SyncRuns, MaxEdits <- SyncEdits, UndoBreaks <- FALSE,
    listing <- s1, file <- s2, spare <- s3, before <- s4, run <- s5, told <- s6, runs <- s7,
    edits <- s8

Pricing ==
  INSTANCE ModelPricing WITH
    base <- s1, overrides <- s2, schedule <- s3, taken <- s4, tiers <- s5, step <- s6, at <- s7,
    request <- s8

Acquisition ==
  INSTANCE SourceAcquisition WITH
    MaxOps <- SourceOps, MaxEdits <- SourceEdits,
    remote <- s1, cache <- s2, caller <- s3, answers <- s4, ops <- s5, edits <- s6

ASSUME RuntimeAssumption == Runtime!RuntimeAssumption
ASSUME StoreAssumption == Store!StoreAssumption
ASSUME ReleaseAssumption == Release!ReleaseAssumption
ASSUME NotesAssumption == Notes!NotesAssumption
ASSUME PythonAssumption == Python!PythonAssumption
ASSUME SyncAssumption == Sync!SyncAssumption
ASSUME PricingAssumption == Pricing!PricingAssumption
ASSUME AcquisitionAssumption == Acquisition!AcquisitionAssumption

MCSources == r1 :> {r2, r3}
MCPrices == {-1, 4, 15}
MCAliasOf == r1 :> a1 @@ r2 :> a1 @@ r3 :> a2 @@ r4 :> a3

MCSymmetry == Permutations({e1, e2}) \cup Permutations({v1, v2})

Init ==
  \/ /\ tool = "runtime" /\ Runtime!Init
     /\ s12 = None /\ s13 = None /\ s14 = None /\ s15 = None /\ s16 = None
  \/ tool = "store" /\ Store!Init /\ s13 = None /\ s14 = None /\ s15 = None /\ s16 = None
  \/ tool = "release" /\ Release!Init
  \/ /\ tool = "notes" /\ Notes!Init
     /\ s8 = None /\ s9 = None /\ s10 = None /\ s11 = None /\ s12 = None /\ s13 = None
        /\ s14 = None /\ s15 = None /\ s16 = None
  \/ /\ tool = "python" /\ Python!Init
     /\ s11 = None /\ s12 = None /\ s13 = None /\ s14 = None /\ s15 = None /\ s16 = None
  \/ /\ tool = "sync" /\ Sync!Init
     /\ s9 = None /\ s10 = None /\ s11 = None /\ s12 = None /\ s13 = None /\ s14 = None
        /\ s15 = None /\ s16 = None
  \/ /\ tool = "pricing" /\ Pricing!Init
     /\ s9 = None /\ s10 = None /\ s11 = None /\ s12 = None /\ s13 = None
        /\ s14 = None /\ s15 = None /\ s16 = None
  \/ /\ tool = "sources" /\ Acquisition!Init
     /\ s7 = None /\ s8 = None /\ s9 = None /\ s10 = None /\ s11 = None /\ s12 = None
        /\ s13 = None /\ s14 = None /\ s15 = None /\ s16 = None

Next ==
  /\ UNCHANGED tool
  /\ \/ tool = "runtime" /\ Runtime!Next /\ UNCHANGED <<s12, s13, s14, s15, s16>>
     \/ tool = "store" /\ Store!Next /\ UNCHANGED <<s13, s14, s15, s16>>
     \/ tool = "release" /\ Release!Next
     \/ tool = "notes" /\ Notes!Next /\ UNCHANGED <<s8, s9, s10, s11, s12, s13, s14, s15, s16>>
     \/ tool = "python" /\ Python!Next /\ UNCHANGED <<s11, s12, s13, s14, s15, s16>>
     \/ tool = "sync" /\ Sync!Next /\ UNCHANGED <<s9, s10, s11, s12, s13, s14, s15, s16>>
     \/ /\ tool = "pricing" /\ Pricing!Next
        /\ UNCHANGED <<s9, s10, s11, s12, s13, s14, s15, s16>>
     \/ /\ tool = "sources" /\ Acquisition!Next
        /\ UNCHANGED <<s7, s8, s9, s10, s11, s12, s13, s14, s15, s16>>

Spec == Init /\ [][Next]_vars

-----------------------------------------------------------------------------
TypeOK ==
  /\ tool = "runtime" => Runtime!TypeOK
  /\ tool = "store" => Store!TypeOK
  /\ tool = "release" => Release!TypeOK
  /\ tool = "notes" => Notes!TypeOK
  /\ tool = "python" => Python!TypeOK
  /\ tool = "sync" => Sync!TypeOK
  /\ tool = "pricing" => Pricing!TypeOK
  /\ tool = "sources" => Acquisition!TypeOK

(* The properties of the components, as they state them.                    *)
RestoredMeansBefore == tool = "runtime" => Runtime!RestoredMeansBefore
ReceiptsEarned == [][tool = "runtime" => Runtime!ReceiptsEarnedStep]_vars
CopiesAreWhole ==
  [][ /\ tool = "store" => Store!ModelsAreWholeStep
      /\ tool = "sources" => Acquisition!SourcesAreWhole' ]_vars
ReleasesAreAuthorised ==
  [][ /\ tool = "release" => Release!ReleasesAreAuthorisedStep
      /\ tool = "python" => Python!TagsAreEarnedStep ]_vars
PushedIsReviewed == [][tool = "notes" => Notes!PushedIsReviewedStep]_vars
WholeOrUntouched == tool = "sync" => Sync!WholeOrUntouched
BilledAsListed == tool = "pricing" => Pricing!BilledAsListed
=============================================================================
