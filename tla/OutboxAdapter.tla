---------------------------- MODULE OutboxAdapter ----------------------------
(***************************************************************************)
(* The worker that turns failure logs in OpenSearch into GlitchTip events  *)
(* (src/k8s_stack_tooling/opensearch_glitchtip: run, deliver_due, State,   *)
(* Transport).  It polls each scope's log in windows, commits what it      *)
(* found to an SQLite outbox together with the scope's cursor, and sends   *)
(* the outbox with retries.                                                *)
(*                                                                         *)
(* Time is counted in the smallest window that can still be split.  What a *)
(* payload says is decided by the reporting policy in force when it was    *)
(* queued, so the policy stands for it.                                    *)
(***************************************************************************)
EXTENDS Integers, FiniteSets

CONSTANTS
  LastScope,    (* the scopes are 1..LastScope, in the order of the file    *)
  Records,      (* failure records                                          *)
  ScopeOf,      (* ScopeOf[r]: the one scope that selects r                 *)
  TimeOf,       (* TimeOf[r]: the @timestamp of r                           *)
  Horizon,      (* the clock stops here                                     *)
  Window,       (* the five minutes of one window and of one catch-up       *)
  Overlap,      (* overlap_seconds                                          *)
  Settle,       (* settle_seconds                                           *)
  MaxRecords,   (* MAX_RECORDS of one window                                *)
  MaxPending,   (* MAX_PENDING                                              *)
  MaxSegments,  (* windows committed for a scope in one cycle               *)
  Policies,     (* reporting policies                                       *)
  DefaultPolicy,
  LogOnly,      (* LogOnly[q]: records the policy q excludes                *)
  Faults,       (* which of "crash", "source" and "sink" may fail           *)
  None

Scopes == 1..LastScope

ASSUME RecordAssumption ==
  /\ LastScope \in Nat /\ MaxPending \in Nat
  /\ ScopeOf \in [Records -> Scopes] /\ TimeOf \in [Records -> 0..Horizon]
  /\ Horizon \in Nat /\ Overlap \in Nat /\ Settle \in Nat /\ MaxSegments \in Nat
  /\ Window \in Nat \ {0} /\ MaxRecords \in Nat \ {0} /\ MaxPending >= MaxRecords
  /\ DefaultPolicy \in Policies /\ None \notin Policies
  /\ LogOnly \in [Policies -> SUBSET Records]

ASSUME FiniteRecords == IsFiniteSet(Records)

VARIABLES
  now,        (* the time                                                   *)
  indexed,    (* records that a search can find                             *)
  policyFile, (* the mounted policy, None while it is unreadable or invalid *)
  cursor,     (* durable: cursor[s], the end of what was committed          *)
  outbox,     (* durable: what is known of each occurrence                  *)
  saved,      (* durable: the policy that was activated last                *)
  received,   (* received[r]: payloads GlitchTip accepted for r's event id  *)
  pc,         (* next step of the worker                                    *)
  policy,     (* the active policy                                          *)
  backoff,    (* records whose next attempt lies ahead                      *)
  sending,    (* the record being delivered, and whether one was            *)
  polled,     (* the scopes are polled, not only about to be                *)
  scope,      (* the scope being polled                                     *)
  lower, upper, target, segments,  (* the local variables of run            *)
  found       (* what the last search returned                              *)

worldVars == <<now, indexed, policyFile>>
stateVars == <<cursor, outbox, saved>>
deliverVars == <<sending, polled>>
windowVars == <<scope, lower, upper, target, segments, found>>
vars == <<worldVars, stateVars, received, pc, policy, backoff, deliverVars, windowVars>>

Occurrence == [status : {"pending"}, payload : Policies]
              \cup [status : {"unknown", "delivered", "excluded"}, payload : {None}]
Unknown == [status |-> "unknown", payload |-> None]

TypeOK ==
  /\ now \in 0..Horizon
  /\ indexed \subseteq Records
  /\ policyFile \in Policies \cup {None}
  /\ cursor \in [Scopes -> 0..Horizon]
  /\ outbox \in [Records -> Occurrence]
  /\ saved \in Policies
  /\ received \in [Records -> SUBSET Policies]
  /\ pc \in {"down", "reload", "activate", "deliver", "acknowledge", "defer", "scope",
             "segment", "enqueue", "sleep"}
  /\ policy \in Policies
  /\ backoff \subseteq Records
  /\ sending \in Records \cup {None}
  /\ pc \in {"acknowledge", "defer"} => sending \in Records
  /\ polled \in BOOLEAN
  /\ scope \in 1..LastScope + 1
  /\ lower \in 0..Horizon /\ upper \in 0..Horizon /\ target \in 0..Horizon
  /\ segments \in 0..MaxSegments
  /\ found \subseteq Records

Init ==
  /\ now = 0
  /\ indexed = {}
  /\ policyFile \in Policies \cup {None}
  /\ cursor = [s \in Scopes |-> 0]
  /\ outbox = [r \in Records |-> Unknown]
  /\ saved = DefaultPolicy
  /\ received = [r \in Records |-> {}]
  /\ pc = "down"
  /\ policy = DefaultPolicy
  /\ backoff = {}
  /\ sending = None
  /\ polled = FALSE
  /\ scope = 1
  /\ lower = 0 /\ upper = 0 /\ target = 0 /\ segments = 0
  /\ found = {}

Pending == {r \in Records : outbox[r].status = "pending"}
Due == Pending \ backoff

Smaller(a, b) == IF a < b THEN a ELSE b
Larger(a, b) == IF a < b THEN b ELSE a
Goto(from, to) == pc = from /\ pc' = to

-----------------------------------------------------------------------------
(* The surroundings.                                                       *)

Tick ==
  /\ now < Horizon
  /\ now' = now + 1
  /\ UNCHANGED <<indexed, policyFile, stateVars, received, pc, policy, backoff, deliverVars,
                 windowVars>>

(* A record becomes searchable at its time or, at the latest, as much later *)
(* as the settle time and the overlap allow for; or it is never logged.    *)
Index(r) ==
  /\ r \notin indexed
  /\ TimeOf[r] <= now /\ now <= TimeOf[r] + Settle + Overlap
  /\ indexed' = indexed \cup {r}
  /\ UNCHANGED <<now, policyFile, stateVars, received, pc, policy, backoff, deliverVars, windowVars>>

EditPolicy ==
  /\ policyFile' \in (Policies \cup {None}) \ {policyFile}
  /\ UNCHANGED <<now, indexed, stateVars, received, pc, policy, backoff, deliverVars, windowVars>>

BackoffOver(r) ==
  /\ r \in backoff
  /\ backoff' = backoff \ {r}
  /\ UNCHANGED <<worldVars, stateVars, received, pc, policy, deliverVars, windowVars>>

-----------------------------------------------------------------------------
(* Start, stop and policy.                                                 *)

ForgetWindow ==
  /\ scope' = 1 /\ lower' = 0 /\ upper' = 0 /\ target' = 0 /\ segments' = 0 /\ found' = {}

(* The process dies, or is told to stop, between any two steps.            *)
Crash ==
  /\ "crash" \in Faults
  /\ pc # "down" /\ pc' = "down"
  /\ sending' = None /\ polled' = FALSE /\ ForgetWindow
  /\ policy' = DefaultPolicy
  /\ UNCHANGED <<worldVars, stateVars, received, backoff>>

(* The saved policy serves until a valid file replaces it.                 *)
Start ==
  /\ Goto("down", "reload")
  /\ policy' = saved
  /\ UNCHANGED <<worldVars, stateVars, received, backoff, deliverVars, windowVars>>

PolicyStep == UNCHANGED <<worldVars, cursor, outbox, received, backoff, deliverVars, windowVars>>

CommitPolicy ==
  /\ Goto("reload", "activate")
  /\ policyFile # None
  /\ saved' = policyFile
  /\ UNCHANGED policy /\ PolicyStep

ActivatePolicy ==
  /\ Goto("activate", "deliver")
  /\ policy' = saved
  /\ UNCHANGED saved /\ PolicyStep

RejectPolicy ==
  /\ Goto("reload", "deliver")
  /\ policyFile = None
  /\ UNCHANGED <<saved, policy>> /\ PolicyStep

-----------------------------------------------------------------------------
(* deliver_due, before and after the scopes are polled.                    *)

DeliverStep == UNCHANGED <<worldVars, cursor, saved, policy, polled, windowVars>>

Send(r, answer) ==
  /\ Goto("deliver", answer)
  /\ r \in Due
  /\ sending' = r
  /\ UNCHANGED <<outbox, backoff>> /\ DeliverStep

Accept(r) == received' = [received EXCEPT ![r] = @ \cup {outbox[r].payload}]

Deliver(r) == Send(r, "acknowledge") /\ Accept(r)

(* The event was refused, or accepted without a matching answer.           *)
DeliverFails(r) ==
  /\ "sink" \in Faults
  /\ Send(r, "defer")
  /\ Accept(r) \/ UNCHANGED received

Acknowledge ==
  /\ Goto("acknowledge", "deliver")
  /\ outbox' = [outbox EXCEPT ![sending] = [status |-> "delivered", payload |-> None]]
  /\ UNCHANGED <<received, backoff, sending>> /\ DeliverStep

(* As if a failed delivery were given up.                                  *)
DeferGivesUp ==
  /\ Goto("defer", "deliver")
  /\ outbox' = [outbox EXCEPT ![sending] = [status |-> "excluded", payload |-> None]]
  /\ UNCHANGED <<received, backoff, sending>> /\ DeliverStep

Defer ==
  /\ Goto("defer", "deliver")
  /\ backoff' = backoff \cup {sending}
  /\ UNCHANGED <<received, outbox, sending>> /\ DeliverStep

(* Nothing is due, or the time of the cycle is up after some attempt.      *)
EndDelivery ==
  /\ Goto("deliver", IF polled THEN "sleep" ELSE "scope")
  /\ Due = {} \/ sending # None
  /\ sending' = None
  /\ polled' = ~polled
  /\ UNCHANGED <<worldVars, stateVars, received, policy, backoff, windowVars>>

Sleep ==
  /\ Goto("sleep", "reload")
  /\ UNCHANGED <<worldVars, stateVars, received, policy, backoff, deliverVars, windowVars>>

-----------------------------------------------------------------------------
(* Polling.                                                                *)

PollStep == UNCHANGED <<worldVars, saved, received, policy, backoff, deliverVars>>
SameState == UNCHANGED <<cursor, outbox>>

(* As if the check forgot that a window adds up to MAX_RECORDS.            *)
OutboxFullLater == Cardinality(Pending) > MaxPending

OutboxFull == Cardinality(Pending) > MaxPending - MaxRecords

WindowStart(s) == Larger(0, cursor[s] - Overlap)

(* As if the newest records were polled at once.                           *)
WindowTargetUnsettled(s) == Smaller(now, cursor[s] + Window)

(* As if a cycle were five minutes from where its windows start.           *)
WindowTargetFromStart(s) == Smaller(now - Settle, WindowStart(s) + Window)

WindowTarget(s) == Smaller(now - Settle, cursor[s] + Window)

Clip(t) == Smaller(target, t + Window)

PollScope ==
  /\ Goto("scope", "segment")
  /\ scope \in Scopes /\ ~OutboxFull
  /\ WindowTarget(scope) > WindowStart(scope)
  /\ lower' = WindowStart(scope)
  /\ target' = WindowTarget(scope)
  /\ upper' = Smaller(WindowTarget(scope), WindowStart(scope) + Window)
  /\ segments' = 0
  /\ UNCHANGED <<scope, found>> /\ PollStep /\ SameState

SkipScope ==
  /\ Goto("scope", "scope")
  /\ scope \in Scopes /\ ~OutboxFull
  /\ WindowTarget(scope) <= WindowStart(scope)
  /\ scope' = scope + 1
  /\ UNCHANGED <<lower, upper, target, segments, found>> /\ PollStep /\ SameState

(* All scopes were polled, or the outbox limit stalls the rest.            *)
EndPoll ==
  /\ Goto("scope", "deliver")
  /\ scope \notin Scopes \/ OutboxFull
  /\ ForgetWindow /\ PollStep /\ SameState

Population == {r \in indexed : ScopeOf[r] = scope /\ lower <= TimeOf[r] /\ TimeOf[r] < upper}

MaySearch == lower < target /\ segments < MaxSegments /\ ~OutboxFull

Search ==
  /\ Goto("segment", "enqueue")
  /\ MaySearch
  /\ Cardinality(Population) <= MaxRecords
  /\ found' = Population
  /\ UNCHANGED <<scope, lower, upper, target, segments>> /\ PollStep /\ SameState

SplitWindow ==
  /\ Goto("segment", "segment")
  /\ MaySearch
  /\ Cardinality(Population) > MaxRecords /\ upper - lower > 1
  /\ upper' = lower + (upper - lower) \div 2
  /\ UNCHANGED <<scope, lower, target, segments, found>> /\ PollStep /\ SameState

LeaveScope ==
  /\ Goto("segment", "scope")
  /\ scope' = scope + 1
  /\ lower' = 0 /\ upper' = 0 /\ target' = 0 /\ segments' = 0 /\ found' = {}
  /\ PollStep /\ SameState

(* The target is reached, or the work or outbox limit, or a window that    *)
(* cannot be split any more.                                               *)
EndScope ==
  /\ \/ ~MaySearch
     \/ Cardinality(Population) > MaxRecords /\ upper - lower <= 1
  /\ LeaveScope

SearchFails ==
  /\ "source" \in Faults
  /\ MaySearch
  /\ LeaveScope

Decision(r) ==
  IF r \in LogOnly[policy] THEN [status |-> "excluded", payload |-> None]
  ELSE [status |-> "pending", payload |-> policy]

(* As if an exclusion left no trace.                                       *)
RecordedForgetful(o, r) ==
  IF o.status \in {"unknown", "excluded"} THEN Decision(r) ELSE o

(* As if a record found again were queued afresh.                          *)
RecordedAfresh(o, r) ==
  IF o.status \in {"unknown", "pending"} THEN Decision(r) ELSE o

(* A known occurrence keeps its decision and its payload.                  *)
Recorded(o, r) == IF o.status = "unknown" THEN Decision(r) ELSE o

(* One transaction: all records of the window and the cursor.              *)
Enqueue ==
  /\ Goto("enqueue", "segment")
  /\ outbox' = [r \in Records |-> IF r \in found THEN Recorded(outbox[r], r) ELSE outbox[r]]
  /\ cursor' = [cursor EXCEPT ![scope] = Larger(@, upper)]
  /\ segments' = segments + 1
  /\ lower' = upper
  /\ upper' = Clip(upper)
  /\ found' = {}
  /\ UNCHANGED <<scope, target>> /\ PollStep

-----------------------------------------------------------------------------
World == Tick \/ EditPolicy \/ \E r \in Records : Index(r) \/ BackoffOver(r)

Reload == CommitPolicy \/ ActivatePolicy \/ RejectPolicy

Delivery ==
  \/ \E r \in Records : Deliver(r) \/ DeliverFails(r)
  \/ Acknowledge
  \/ Defer
  \/ EndDelivery

Polling ==
  \/ PollScope
  \/ SkipScope
  \/ EndPoll
  \/ Search
  \/ SplitWindow
  \/ EndScope
  \/ SearchFails
  \/ Enqueue

Worker == Start \/ Reload \/ Delivery \/ Sleep \/ Polling

Next == World \/ Crash \/ Worker

(* The worker runs, time passes, a backoff ends, and GlitchTip does not    *)
(* refuse the same record for ever.                                        *)
Fairness ==
  /\ WF_vars(Worker) /\ WF_vars(Tick)
  /\ \A r \in Records : WF_vars(BackoffOver(r)) /\ SF_vars(Deliver(r))

Spec == Init /\ [][Next]_vars
FairSpec == Spec /\ Fairness

-----------------------------------------------------------------------------
(* A record that became searchable within the settle time and the overlap  *)
(* is known before the windows have moved beyond its time for good,        *)
(* whatever crashes, failed searches and limits come between.              *)
NothingPassedOver ==
  \A r \in indexed :
    TimeOf[r] < cursor[ScopeOf[r]] - Overlap => outbox[r].status # "unknown"

(* "Immutable payloads": every copy of an event that GlitchTip ever gets   *)
(* says the same, also after retries, crashes and policy changes.          *)
OneEventPerOccurrence ==
  \A r \in Records : /\ \A p, q \in received[r] : p = q
                     /\ outbox[r].status = "delivered" => received[r] # {}

(* "Configuration changes cannot replay history": what was excluded once,  *)
(* or delivered, stays so under every later policy.                        *)
DecisionsAreFinal ==
  [][ \A r \in Records :
        outbox[r].status \in {"delivered", "excluded"} => outbox'[r] = outbox[r] ]_outbox

(* MAX_PENDING is a limit although it is checked before a window only.     *)
PendingBounded == Cardinality(Pending) <= MaxPending

(* "Keep the last good one on error": the policy in force is the one saved *)
(* last, also across restarts with a broken file.                          *)
PolicySurvives == pc \notin {"down", "activate"} => policy = saved

(* The inductive strengthening: the windows of the running cycle end       *)
(* before the settled time, ...                                            *)
WindowsSettled ==
  /\ \A s \in Scopes : cursor[s] = 0 \/ cursor[s] <= now - Settle
  /\ pc \in {"segment", "enqueue"} =>
       /\ scope \in Scopes
       /\ lower <= upper /\ upper <= target /\ target <= now - Settle
  /\ pc = "enqueue" => segments < MaxSegments

(* ... what they left behind became searchable after they were searched,   *)
(* ...                                                                     *)
LeftBehindIsLate ==
  pc \in {"segment", "enqueue"} =>
    \A r \in indexed :
      /\ ScopeOf[r] = scope /\ outbox[r].status = "unknown"
      /\ TimeOf[r] < lower \/ (pc = "enqueue" /\ TimeOf[r] < upper /\ r \notin found)
      => TimeOf[r] >= target - Overlap

(* ... and GlitchTip has nothing but what the outbox holds or held.        *)
Ledger ==
  /\ \A r \in Records :
       /\ outbox[r].status \in {"unknown", "excluded"} => received[r] = {}
       /\ outbox[r].status = "pending" => received[r] \subseteq {outbox[r].payload}
       /\ outbox[r].status = "delivered" => \E q \in Policies : received[r] = {q}
  /\ pc \in {"acknowledge", "defer"} => sending \in Pending
  /\ pc = "acknowledge" => received[sending] # {}

WindowInv == TypeOK /\ WindowsSettled /\ LeftBehindIsLate /\ NothingPassedOver

(* Every queued occurrence is delivered in the end.                        *)
EventuallyDelivered ==
  \A r \in Records : outbox[r].status = "pending" ~> outbox[r].status = "delivered"

(* "Subsequent cycles move forward from committed progress": every scope   *)
(* catches up with the clock.                                              *)
CatchesUp == \A s \in Scopes : <>(cursor[s] >= Horizon - Settle)
=============================================================================
