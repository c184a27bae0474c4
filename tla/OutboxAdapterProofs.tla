------------------------- MODULE OutboxAdapterProofs -------------------------
(* Proofs about OutboxAdapter, for any scopes, records and policies and    *)
(* any window, overlap, settle time and limits.                            *)
EXTENDS OutboxAdapter, FiniteSetTheorems, TLAPS

LEMMA FirstValues == 1 \in 1..LastScope + 1 /\ 0 \in 0..MaxSegments /\ 0 \in 0..Horizon
BY RecordAssumption

LEMMA StillSettled ==
  \A t, n, m, d \in Int : t <= n - d /\ n <= m => t <= m - d
OBVIOUS

(* A window starts at or after the beginning and ends at the settled time. *)
LEMMA WindowBounds ==
  ASSUME TypeOK, NEW s \in Scopes, WindowTarget(s) > WindowStart(s)
  PROVE  /\ WindowStart(s) \in 0..Horizon /\ WindowTarget(s) \in 0..Horizon
         /\ WindowTarget(s) <= now - Settle
         /\ Smaller(WindowTarget(s), WindowStart(s) + Window) \in 0..Horizon
         /\ WindowStart(s) <= Smaller(WindowTarget(s), WindowStart(s) + Window)
         /\ Smaller(WindowTarget(s), WindowStart(s) + Window) <= WindowTarget(s)
BY RecordAssumption DEF TypeOK, WindowTarget, WindowStart, Smaller, Larger

LEMMA RecordedType ==
  ASSUME TypeOK, NEW r \in Records
  PROVE  Recorded(outbox[r], r) \in Occurrence /\ Recorded(outbox[r], r).status # "unknown"
<1>1. Decision(r) \in Occurrence /\ Decision(r).status # "unknown"
  BY DEF TypeOK, Decision, Occurrence
<1> QED
  BY <1>1 DEF TypeOK, Recorded

LEMMA InitWindow == Init => WindowInv
<1> SUFFICES ASSUME Init PROVE WindowInv
  OBVIOUS
<1>1. Unknown \in Occurrence
  BY DEF Unknown, Occurrence
<1>2. TypeOK
  <2>1. outbox \in [Records -> Occurrence] /\ received \in [Records -> SUBSET Policies]
    BY <1>1 DEF Init
  <2>2. cursor \in [Scopes -> 0..Horizon]
    BY FirstValues DEF Init
  <2> QED
    BY <2>1, <2>2, FirstValues, RecordAssumption DEF Init, TypeOK
<1>3. WindowsSettled /\ LeftBehindIsLate /\ NothingPassedOver
  BY DEF Init, WindowsSettled, LeftBehindIsLate, NothingPassedOver
<1> QED
  BY <1>2, <1>3 DEF WindowInv

(* The types alone are not inductive: that a window ends before the clock  *)
(* does needs the settled target.                                          *)
LEMMA TypeStep == TypeOK /\ WindowsSettled /\ [Next]_vars => TypeOK'
<1> SUFFICES ASSUME TypeOK, WindowsSettled, [Next]_vars PROVE TypeOK'
  OBVIOUS
<1> USE RecordAssumption DEF TypeOK, Goto, worldVars, stateVars, deliverVars, windowVars
<1>1. CASE World
  <2>1. CASE Tick \/ EditPolicy
    BY <2>1 DEF Tick, EditPolicy
  <2>2. ASSUME NEW r \in Records, Index(r) PROVE TypeOK'
    BY <2>2 DEF Index
  <2>3. ASSUME NEW r \in Records, BackoffOver(r) PROVE TypeOK'
    BY <2>3 DEF BackoffOver
  <2> QED
    BY <1>1, <2>1, <2>2, <2>3 DEF World
<1>2. CASE Crash
  BY <1>2, FirstValues DEF Crash, ForgetWindow
<1>3. CASE Start
  BY <1>3 DEF Start
<1>4. CASE Reload
  BY <1>4 DEF Reload, CommitPolicy, ActivatePolicy, RejectPolicy, PolicyStep
<1>5. CASE Delivery
  <2> USE DEF DeliverStep
  <2>1. ASSUME NEW r \in Records, Deliver(r) \/ DeliverFails(r) PROVE TypeOK'
    <3>1. CASE UNCHANGED received
      BY <2>1, <3>1 DEF Deliver, DeliverFails, Send
    <3>2. CASE Accept(r)
      <4>1. outbox[r].status = "pending" /\ outbox[r] \in Occurrence
        BY <2>1 DEF Deliver, DeliverFails, Send, Due, Pending
      <4>2. outbox[r].payload \in Policies
        BY <4>1 DEF Occurrence
      <4>3. received' \in [Records -> SUBSET Policies]
        BY <3>2, <4>2 DEF Accept
      <4> QED
        BY <2>1, <4>3 DEF Deliver, DeliverFails, Send
    <3> QED
      BY <2>1, <3>1, <3>2 DEF Deliver, DeliverFails
  <2>2. CASE Acknowledge
    <3>1. [status |-> "delivered", payload |-> None] \in Occurrence
      BY DEF Occurrence
    <3> QED
      BY <2>2, <3>1 DEF Acknowledge
  <2>3. CASE Defer
    BY <2>3 DEF Defer
  <2>4. CASE EndDelivery
    BY <2>4 DEF EndDelivery
  <2> QED
    BY <1>5, <2>1, <2>2, <2>3, <2>4 DEF Delivery
<1>6. CASE Sleep
  BY <1>6 DEF Sleep
<1>7. CASE Polling
  <2> USE DEF PollStep, SameState
  <2>1. CASE PollScope
    BY <2>1, WindowBounds DEF PollScope
  <2>2. CASE SkipScope
    BY <2>2 DEF SkipScope, Scopes
  <2>3. CASE EndPoll
    BY <2>3 DEF EndPoll, ForgetWindow, Scopes
  <2>4. CASE Search
    BY <2>4 DEF Search, Population
  <2>5. CASE SplitWindow
    BY <2>5 DEF SplitWindow
  <2>6. CASE EndScope \/ SearchFails
    BY <2>6 DEF EndScope, SearchFails, LeaveScope, WindowsSettled, Scopes
  <2>7. CASE Enqueue
    <3>1. outbox' \in [Records -> Occurrence]
      BY <2>7, RecordedType DEF Enqueue
    <3>2. segments' \in 0..MaxSegments
      BY <2>7 DEF Enqueue, WindowsSettled
    <3>3. upper' \in 0..Horizon
      BY <2>7 DEF Enqueue, Clip, Smaller
    <3>4. \A n \in 0..Horizon : Larger(n, upper) \in 0..Horizon
      BY DEF Larger
    <3>5. cursor' \in [Scopes -> 0..Horizon]
      BY <2>7, <3>4 DEF Enqueue
    <3> QED
      BY <2>7, <3>1, <3>2, <3>3, <3>5 DEF Enqueue
  <2> QED
    BY <1>7, <2>1, <2>2, <2>3, <2>4, <2>5, <2>6, <2>7 DEF Polling
<1>8. CASE UNCHANGED vars
  BY <1>8 DEF vars
<1> QED
  BY <1>1, <1>2, <1>3, <1>4, <1>5, <1>6, <1>7, <1>8 DEF Next, Worker

-----------------------------------------------------------------------------
(* The windows.                                                            *)

Windows == WindowsSettled /\ LeftBehindIsLate /\ NothingPassedOver

(* A step that neither searches nor moves a cursor disturbs nothing.       *)
LEMMA QuietStep ==
  ASSUME WindowInv, TypeOK', now <= now',
         UNCHANGED <<indexed, cursor>>,
         \/ pc' \notin {"segment", "enqueue"}
         \/ pc' = pc /\ UNCHANGED windowVars,
         \A r \in Records : outbox'[r].status = "unknown" => outbox[r].status = "unknown"
  PROVE  Windows'
<1> USE RecordAssumption DEF WindowInv, TypeOK
<1>1. WindowsSettled'
  <2>1. now \in Int /\ now' \in Int /\ Settle \in Int /\ target \in Int
    OBVIOUS
  <2>2. \A s \in Scopes : cursor[s] \in Int
    OBVIOUS
  <2>3. \A s \in Scopes : cursor'[s] = 0 \/ cursor'[s] <= now' - Settle
    BY <2>1, <2>2 DEF WindowsSettled
  <2>4. CASE pc' \notin {"segment", "enqueue"}
    BY <2>3, <2>4 DEF WindowsSettled
  <2>5. CASE pc' = pc /\ UNCHANGED windowVars
    <3>1. scope' = scope /\ lower' = lower /\ upper' = upper /\ target' = target
          /\ segments' = segments
      BY <2>5 DEF windowVars
    <3>2. target <= now - Settle => target <= now' - Settle
      BY <2>1, StillSettled
    <3> QED
      BY <2>3, <2>5, <3>1, <3>2 DEF WindowsSettled
  <2> QED
    BY <2>4, <2>5
<1>2. LeftBehindIsLate'
  BY DEF LeftBehindIsLate, windowVars
<1>3. NothingPassedOver'
  BY DEF NothingPassedOver
<1> QED
  BY <1>1, <1>2, <1>3 DEF Windows

(* A record that only now becomes searchable is not older than the end of  *)
(* the settled time less the overlap, which no window has passed.          *)
LEMMA IndexWindows ==
  ASSUME WindowInv, NEW r \in Records, Index(r)
  PROVE  Windows'
<1> USE RecordAssumption DEF WindowInv, TypeOK, Index, stateVars, windowVars
<1>1. TimeOf[r] >= now - Settle - Overlap
  OBVIOUS
<1>2. WindowsSettled'
  BY DEF WindowsSettled
<1>3. LeftBehindIsLate'
  BY <1>1 DEF LeftBehindIsLate, WindowsSettled
<1>4. NothingPassedOver'
  BY <1>1 DEF NothingPassedOver, WindowsSettled
<1> QED
  BY <1>2, <1>3, <1>4 DEF Windows

LEMMA PollScopeWindows ==
  ASSUME WindowInv, TypeOK', PollScope
  PROVE  Windows'
<1> USE RecordAssumption DEF WindowInv, TypeOK, PollScope, Goto, PollStep, SameState, worldVars
<1>1. WindowsSettled'
  BY WindowBounds DEF WindowsSettled
<1>2. LeftBehindIsLate'
  <2> SUFFICES ASSUME NEW r \in indexed, ScopeOf[r] = scope, outbox[r].status = "unknown",
                      TimeOf[r] < WindowStart(scope)
               PROVE  FALSE
    BY DEF LeftBehindIsLate
  <2>1. WindowStart(scope) = cursor[scope] - Overlap
    BY DEF WindowStart, Larger
  <2> QED
    BY <2>1 DEF NothingPassedOver
<1>3. NothingPassedOver'
  BY DEF NothingPassedOver
<1> QED
  BY <1>1, <1>2, <1>3 DEF Windows

LEMMA SearchWindows ==
  ASSUME WindowInv, TypeOK', Search \/ SplitWindow
  PROVE  Windows'
<1> USE RecordAssumption DEF WindowInv, TypeOK, Goto, PollStep, SameState, worldVars
<1>1. WindowsSettled'
  <2>1. CASE Search
    BY <2>1 DEF Search, WindowsSettled, MaySearch
  <2>2. CASE SplitWindow
    BY <2>2 DEF SplitWindow, WindowsSettled, MaySearch
  <2> QED
    BY <2>1, <2>2
<1>2. LeftBehindIsLate'
  BY DEF Search, SplitWindow, LeftBehindIsLate, Population
<1>3. NothingPassedOver'
  BY DEF Search, SplitWindow, NothingPassedOver
<1> QED
  BY <1>1, <1>2, <1>3 DEF Windows

LEMMA EnqueueWindows ==
  ASSUME WindowInv, TypeOK', Enqueue
  PROVE  Windows'
<1> USE RecordAssumption DEF WindowInv, TypeOK, Enqueue, Goto, PollStep, worldVars
<1>1. scope \in Scopes /\ lower <= upper /\ upper <= target /\ target <= now - Settle
  BY DEF WindowsSettled
<1>2. cursor'[scope] = Larger(cursor[scope], upper)
      /\ \A s \in Scopes : s # scope => cursor'[s] = cursor[s]
  BY <1>1
<1>3. ASSUME NEW r \in Records, outbox'[r].status = "unknown"
      PROVE  outbox[r].status = "unknown" /\ r \notin found
  BY <1>3, RecordedType DEF Recorded
<1>4. WindowsSettled'
  BY <1>1, <1>2 DEF WindowsSettled, Larger, Smaller, Clip
<1>5. LeftBehindIsLate'
  BY <1>1, <1>3 DEF LeftBehindIsLate
<1>6. NothingPassedOver'
  <2> SUFFICES ASSUME NEW r \in indexed, outbox'[r].status = "unknown",
                      TimeOf[r] < cursor'[ScopeOf[r]] - Overlap
               PROVE  FALSE
    BY DEF NothingPassedOver
  <2>1. r \in Records /\ outbox[r].status = "unknown" /\ r \notin found
    BY <1>3
  <2>2. TimeOf[r] >= cursor[ScopeOf[r]] - Overlap
    BY <2>1 DEF NothingPassedOver
  <2>3. ScopeOf[r] = scope /\ cursor'[scope] = upper /\ TimeOf[r] < upper - Overlap
    BY <1>2, <2>1, <2>2 DEF Larger
  <2>4. TimeOf[r] < upper /\ TimeOf[r] < target - Overlap
    BY <1>1, <2>1, <2>3
  <2> QED
    BY <2>1, <2>3, <2>4 DEF LeftBehindIsLate
<1> QED
  BY <1>4, <1>5, <1>6 DEF Windows

LEMMA WindowStep == WindowInv /\ [Next]_vars => WindowInv'
<1> SUFFICES ASSUME WindowInv, [Next]_vars PROVE Windows' /\ TypeOK'
  BY DEF WindowInv, Windows
<1>1. TypeOK'
  BY TypeStep DEF WindowInv
<1>2. now \in Int
  BY DEF WindowInv, TypeOK
<1> USE DEF Goto, worldVars, stateVars, deliverVars
<1>3. CASE World
  <2>1. CASE \E r \in Records : Index(r)
    BY <1>1, <2>1, IndexWindows
  <2>2. CASE Tick \/ EditPolicy \/ \E r \in Records : BackoffOver(r)
    BY <1>1, <1>2, <2>2, QuietStep DEF Tick, EditPolicy, BackoffOver
  <2> QED
    BY <1>3, <2>1, <2>2 DEF World
<1>4. CASE Crash \/ Start \/ Reload \/ Sleep
  BY <1>1, <1>2, <1>4, QuietStep DEF Crash, Start, Reload, CommitPolicy, ActivatePolicy,
       RejectPolicy, PolicyStep, Sleep
<1>5. CASE Delivery
  <2>1. CASE Acknowledge
    <3>1. \A r \in Records : outbox'[r].status = "unknown" => outbox[r].status = "unknown"
      BY <2>1 DEF Acknowledge, WindowInv, TypeOK
    <3> QED
      BY <1>1, <1>2, <2>1, <3>1, QuietStep DEF Acknowledge, DeliverStep
  <2>2. CASE ~Acknowledge
    BY <1>1, <1>2, <1>5, <2>2, QuietStep DEF Delivery, Deliver, DeliverFails, Send, DeliverStep,
         Defer, EndDelivery
  <2> QED
    BY <2>1, <2>2
<1>6. CASE Polling
  <2>1. CASE SkipScope \/ EndPoll \/ EndScope \/ SearchFails
    BY <1>1, <1>2, <2>1, QuietStep DEF SkipScope, EndPoll, EndScope, SearchFails, LeaveScope,
         PollStep, SameState
  <2> QED
    BY <1>1, <1>6, <2>1, PollScopeWindows, SearchWindows, EnqueueWindows DEF Polling
<1>7. CASE UNCHANGED vars
  BY <1>1, <1>2, <1>7, QuietStep DEF vars
<1> QED
  BY <1>1, <1>3, <1>4, <1>5, <1>6, <1>7 DEF Next, Worker

(* Every reachable state is well typed.                                    *)
THEOREM TypeCorrect == Spec => []TypeOK
<1>1. WindowInv => TypeOK
  BY DEF WindowInv
<1> QED
  BY <1>1, InitWindow, WindowStep, PTL DEF Spec

(* No failure record that becomes searchable within the settle time and    *)
(* the overlap is passed over by the cursor, whatever crashes, failed      *)
(* searches, splits and limits come between.                               *)
THEOREM NeverPassesOver == Spec => []NothingPassedOver
<1>1. WindowInv => NothingPassedOver
  BY DEF WindowInv
<1> QED
  BY <1>1, InitWindow, WindowStep, PTL DEF Spec

-----------------------------------------------------------------------------
(* The ledger.                                                             *)

Books == Ledger /\ PolicySurvives

LEMMA InitBooks == Init => Books
BY DEF Init, Books, Ledger, PolicySurvives, Unknown

(* Only a pending occurrence is being delivered.                           *)
LEMMA SendingIsPending ==
  ASSUME TypeOK, Ledger, pc \in {"acknowledge", "defer"}
  PROVE  sending \in Records /\ outbox[sending].status = "pending"
         /\ outbox[sending].payload \in Policies
BY DEF TypeOK, Ledger, Pending, Occurrence

LEMMA SendBooks ==
  ASSUME TypeOK, Books, NEW r \in Records, Deliver(r) \/ DeliverFails(r)
  PROVE  Books'
<1> USE DEF Deliver, DeliverFails, Send, Goto, DeliverStep, Books
<1>1. outbox[r].status = "pending" /\ outbox' = outbox /\ sending' = r
  BY DEF Due, Pending
<1>2. received[r] \subseteq {outbox[r].payload}
  BY <1>1 DEF Ledger
<1>3. CASE UNCHANGED received
  <2>1. pc' = "acknowledge" => received[r] # {}
    BY <1>3 DEF TypeOK, Accept
  <2>2. \A q \in Records : q \in Pending' <=> q \in Pending
    BY <1>1 DEF Pending
  <2>3. Ledger'
    BY <1>1, <1>3, <2>1, <2>2 DEF Ledger, Due
  <2>4. PolicySurvives'
    BY DEF PolicySurvives
  <2> QED BY <2>3, <2>4
<1>4. CASE Accept(r)
  <2>1. /\ received'[r] \subseteq {outbox[r].payload} /\ received'[r] # {}
        /\ \A q \in Records : q # r => received'[q] = received[q]
    BY <1>2, <1>4 DEF Accept, TypeOK
  <2> QED
    BY <1>1, <2>1 DEF Ledger, PolicySurvives, Pending
<1> QED
  BY <1>3, <1>4

(* An acknowledged event is recorded as the one payload GlitchTip got.     *)
LEMMA AcknowledgeBooks ==
  ASSUME TypeOK, Books, Acknowledge
  PROVE  Books'
<1> USE DEF Acknowledge, Goto, DeliverStep, Books
<1>1. /\ sending \in Records /\ outbox[sending].status = "pending"
      /\ outbox[sending].payload \in Policies
  BY SendingIsPending
<1>2. received[sending] = {outbox[sending].payload}
  BY <1>1 DEF Ledger
<1>3. /\ outbox'[sending].status = "delivered"
      /\ \A r \in Records : r # sending => outbox'[r] = outbox[r]
  BY <1>1 DEF TypeOK
<1> QED
  BY <1>1, <1>2, <1>3 DEF Ledger, PolicySurvives

LEMMA EnqueueBooks ==
  ASSUME TypeOK, Books, Enqueue
  PROVE  Books'
<1> USE DEF Enqueue, Goto, PollStep, Books
<1>1. ASSUME NEW r \in Records
      PROVE  \/ outbox'[r] = outbox[r]
             \/ outbox[r].status = "unknown" /\ outbox'[r].status \in {"pending", "excluded"}
  BY DEF Recorded, Decision
<1> QED
  BY <1>1 DEF Ledger, PolicySurvives

LEMMA BooksStep == TypeOK /\ Books /\ [Next]_vars => Books'
<1> SUFFICES ASSUME TypeOK, Books, [Next]_vars PROVE Books'
  OBVIOUS
<1> USE DEF Goto, worldVars, stateVars, deliverVars
<1>1. CASE World \/ Crash \/ Start \/ Reload \/ Sleep \/ UNCHANGED vars
  BY <1>1 DEF World, Tick, Index, EditPolicy, BackoffOver, Crash, Start, Reload, CommitPolicy,
       ActivatePolicy, RejectPolicy, PolicyStep, Sleep, vars, Books, Ledger, PolicySurvives,
       Pending
<1>2. CASE Defer \/ EndDelivery
  BY <1>2 DEF Defer, EndDelivery, DeliverStep, Books, Ledger, PolicySurvives, Pending
<1>3. CASE PollScope \/ SkipScope \/ EndPoll \/ Search \/ SplitWindow \/ EndScope \/ SearchFails
  BY <1>3 DEF PollScope, SkipScope, EndPoll, Search, SplitWindow, EndScope, SearchFails,
       LeaveScope, PollStep, SameState, Books, Ledger, PolicySurvives, Pending
<1> QED
  BY <1>1, <1>2, <1>3, SendBooks, AcknowledgeBooks, EnqueueBooks
     DEF Next, Worker, Delivery, Polling

LEMMA BooksAreKept == Spec => []Books
<1>1. TypeOK /\ Books /\ [Next]_vars => Books'
  BY BooksStep
<1> QED
  BY <1>1, InitBooks, TypeCorrect, PTL DEF Spec

(* Whatever GlitchTip gets of an occurrence, and however often, it is the  *)
(* one payload queued first.                                               *)
THEOREM ImmutablePayloads == Spec => []OneEventPerOccurrence
<1>1. TypeOK /\ Books => OneEventPerOccurrence
  <2> SUFFICES ASSUME TypeOK, Ledger, NEW r \in Records
               PROVE  /\ \A p, q \in received[r] : p = q
                      /\ outbox[r].status = "delivered" => received[r] # {}
    BY DEF Books, OneEventPerOccurrence
  <2>1. outbox[r].status \in {"unknown", "pending", "delivered", "excluded"}
    BY DEF TypeOK, Occurrence
  <2> QED
    BY <2>1 DEF Ledger
<1> QED
  BY <1>1, TypeCorrect, BooksAreKept, PTL

(* The policy in force is the one saved last.                              *)
THEOREM LastGoodPolicy == Spec => []PolicySurvives
<1>1. Books => PolicySurvives
  BY DEF Books
<1> QED
  BY <1>1, BooksAreKept, PTL

(* What was delivered or excluded once is never reconsidered.              *)
THEOREM DecisionsStand == Spec => DecisionsAreFinal
<1> DEFINE Final == \A r \in Records :
             outbox[r].status \in {"delivered", "excluded"} => outbox'[r] = outbox[r]
<1>1. TypeOK /\ Books /\ [Next]_vars => [Final]_outbox
  <2> SUFFICES ASSUME TypeOK, Ledger, [Next]_vars, outbox' # outbox,
                      NEW r \in Records, outbox[r].status \in {"delivered", "excluded"}
               PROVE  outbox'[r] = outbox[r]
    BY DEF Books
  <2> USE DEF worldVars, stateVars, SameState
  <2>1. CASE Acknowledge
    BY <2>1, SendingIsPending DEF Acknowledge, Goto, TypeOK
  <2>2. CASE Enqueue
    BY <2>2 DEF Enqueue, Recorded
  <2>3. CASE ~Acknowledge /\ ~Enqueue
    BY <2>3 DEF Next, World, Tick, Index, EditPolicy, BackoffOver, Crash, Worker, Start,
         Reload, CommitPolicy, ActivatePolicy, RejectPolicy, PolicyStep, Delivery, Deliver,
         DeliverFails, Send, Defer, EndDelivery, Sleep, Polling, PollScope, SkipScope, EndPoll,
         Search, SplitWindow, EndScope, SearchFails, LeaveScope, vars
  <2> QED
    BY <2>1, <2>2, <2>3
<1> QED
  BY <1>1, TypeCorrect, BooksAreKept, PTL DEF Spec, DecisionsAreFinal

-----------------------------------------------------------------------------
(* The outbox limit.                                                       *)

(* A window that was searched found room for all of its records.           *)
Room ==
  /\ PendingBounded
  /\ pc = "enqueue" =>
       Cardinality(found) <= MaxRecords /\ Cardinality(Pending) <= MaxPending - MaxRecords

LEMMA RecordSets ==
  ASSUME NEW S \in SUBSET Records, NEW T \in SUBSET Records
  PROVE  /\ Cardinality(S) \in Nat
         /\ Cardinality(S \cup T) <= Cardinality(S) + Cardinality(T)
         /\ S \subseteq T => Cardinality(S) <= Cardinality(T)
<1>1. IsFiniteSet(S) /\ IsFiniteSet(T)
  BY FiniteRecords, FS_Subset
<1>2. Cardinality(S) \in Nat /\ Cardinality(T) \in Nat /\ Cardinality(S \cap T) \in Nat
  BY <1>1, FS_CardinalityType, FS_Subset
<1>3. Cardinality(S \cup T) = Cardinality(S) + Cardinality(T) - Cardinality(S \cap T)
  BY <1>1, FS_Union
<1>4. S \subseteq T => Cardinality(S) <= Cardinality(T)
  BY <1>1, FS_Subset
<1> QED
  BY <1>2, <1>3, <1>4

LEMMA InitRoom == Init => Room
<1> SUFFICES ASSUME Init PROVE Room
  OBVIOUS
<1>1. Pending = {} /\ pc # "enqueue"
  BY DEF Init, Pending, Unknown
<1> QED
  BY <1>1, FS_EmptySet, RecordAssumption DEF Room, PendingBounded

(* The outbox grows by a committed window only.                            *)
LEMMA ShrinkingRoom ==
  ASSUME Room, Pending' \subseteq Pending,
         pc' # "enqueue" \/ (pc' = pc /\ found' = found)
  PROVE  Room'
<1>1. Pending \in SUBSET Records /\ Pending' \in SUBSET Records
  BY DEF Pending
<1>2. /\ Cardinality(Pending) \in Nat /\ Cardinality(Pending') \in Nat
      /\ Cardinality(Pending') <= Cardinality(Pending)
  BY <1>1, RecordSets
<1> QED
  BY <1>2, RecordAssumption DEF Room, PendingBounded

LEMMA SearchRoom ==
  ASSUME TypeOK, Room, Search
  PROVE  Room'
<1>1. Pending' = Pending /\ Pending \in SUBSET Records
  BY DEF Search, PollStep, SameState, Pending
<1>2. Cardinality(Pending) \in Nat
  BY <1>1, RecordSets
<1>3. Cardinality(Pending) <= MaxPending - MaxRecords
  BY <1>2, RecordAssumption DEF Search, MaySearch, OutboxFull
<1> QED
  BY <1>1, <1>3 DEF Search, Room, PendingBounded

LEMMA EnqueueRoom ==
  ASSUME TypeOK, Room, Enqueue
  PROVE  Room'
<1>1. Pending \in SUBSET Records /\ found \in SUBSET Records /\ Pending' \in SUBSET Records
  BY DEF TypeOK, Pending
<1>2. Pending' \subseteq Pending \cup found
  BY DEF Enqueue, Pending
<1>3. /\ Cardinality(Pending') <= Cardinality(Pending \cup found)
      /\ Cardinality(Pending \cup found) <= Cardinality(Pending) + Cardinality(found)
  BY <1>1, <1>2, RecordSets
<1>4. /\ Cardinality(Pending') \in Nat /\ Cardinality(Pending) \in Nat
      /\ Cardinality(found) \in Nat /\ Cardinality(Pending \cup found) \in Nat
  <2>1. Pending \cup found \in SUBSET Records
    BY <1>1
  <2> QED
    BY <1>1, <2>1, RecordSets
<1>5. Cardinality(found) <= MaxRecords /\ Cardinality(Pending) <= MaxPending - MaxRecords
  BY DEF Room, Enqueue, Goto
<1> QED
  BY <1>3, <1>4, <1>5, RecordAssumption DEF Room, PendingBounded, Enqueue, Goto

LEMMA RoomStep == TypeOK /\ Room /\ [Next]_vars => Room'
<1> SUFFICES ASSUME TypeOK, Room, [Next]_vars PROVE Room'
  OBVIOUS
<1> USE DEF Goto, worldVars, stateVars, windowVars
<1>1. CASE Search \/ Enqueue
  BY <1>1, SearchRoom, EnqueueRoom
<1>2. CASE Acknowledge
  <2>1. Pending' \subseteq Pending
    BY <1>2 DEF Acknowledge, Pending, TypeOK
  <2> QED
    BY <1>2, <2>1, ShrinkingRoom DEF Acknowledge
<1>3. CASE UNCHANGED outbox
  <2>1. Pending' = Pending
    BY <1>3 DEF Pending
  <2>2. CASE ~Search /\ ~Enqueue
    <3>1. pc' # "enqueue" \/ (pc' = pc /\ found' = found)
      BY <2>2 DEF Next, World, Tick, Index, EditPolicy, BackoffOver, Crash, Worker, Start,
           Reload, CommitPolicy, ActivatePolicy, RejectPolicy, Delivery, Deliver, DeliverFails,
           Send, Acknowledge, Defer, EndDelivery, Sleep, Polling, PollScope, SkipScope, EndPoll,
           SplitWindow, EndScope, SearchFails, LeaveScope, vars
    <3> QED
      BY <2>1, <3>1, ShrinkingRoom
  <2> QED
    BY <1>1, <2>2
<1>4. ~Search /\ ~Enqueue /\ ~Acknowledge => UNCHANGED outbox
  BY DEF Next, World, Tick, Index, EditPolicy, BackoffOver, Crash, Worker, Start, Reload,
       CommitPolicy, ActivatePolicy, RejectPolicy, PolicyStep, Delivery, Deliver, DeliverFails,
       Send, Defer, EndDelivery, Sleep, Polling, PollScope, SkipScope, EndPoll, SplitWindow,
       EndScope, SearchFails, LeaveScope, SameState, vars
<1> QED
  BY <1>1, <1>2, <1>3, <1>4

(* MAX_PENDING is never exceeded.                                          *)
THEOREM OutboxBounded == Spec => []PendingBounded
<1>1. Room => PendingBounded
  BY DEF Room
<1>2. TypeOK /\ Room /\ [Next]_vars => Room'
  BY RoomStep
<1> QED
  BY <1>1, <1>2, InitRoom, TypeCorrect, PTL DEF Spec
=============================================================================
