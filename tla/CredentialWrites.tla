---- MODULE CredentialWrites ----
(***************************************************************************)
(* The credentials of the selected add-ons (openbao_stack_setup):          *)
(* `plan_credentials` reads every record of the setups, resolves every     *)
(* field and turns the differences into whole-record writes by dependency  *)
(* level; `apply_credentials` performs them under the KV store's           *)
(* check-and-set and stops without rollback.  Two operators may run at     *)
(* once, a run may die anywhere, and the next run starts from what the     *)
(* last one left.                                                          *)
(*                                                                         *)
(* A value is a member of a small set: what a run generates is named by    *)
(* the run, and a digest of a value by the value itself, because the only  *)
(* thing told apart is which source a stored field came from.  The         *)
(* constraints a value is checked against are left out: every value here   *)
(* satisfies them.  Two operators who type different values for one        *)
(* supplied field can leave a copy of the first beside the second, which   *)
(* the next run refuses; nothing is stated of such pairs.                  *)
(***************************************************************************)
EXTENDS Integers, Sequences, FiniteSets

CONSTANTS
  Operators,  \* people who run the setup
  Order,      \* the selected records, in the order they are declared and sorted
  RecordOf,   \* field -> its record
  Kind,       \* field -> how its value comes about
  Source,     \* a derived field -> the field it is taken from
  Inputs,     \* values an operator may type
  Fixed,      \* the value of a literal
  MaxRuns,    \* bound: runs of one operator
  None        \* no value

Fields == DOMAIN RecordOf
Records == {Order[i] : i \in DOMAIN Order}
OfKind(k) == {f \in Fields : Kind[f] = k}

CredentialAssumption ==
  /\ MaxRuns \in Nat
  /\ Order \in Seq(Records) /\ RecordOf \in [Fields -> Records] /\ IsFiniteSet(Fields)
  /\ Kind \in [Fields -> {"made", "supplied", "derived", "literal"}]
  /\ Source \in [OfKind("derived") -> Fields]
  \* _field_levels refuses a catalog whose references are cyclic
  /\ \A S \in SUBSET Fields : S # {} => \E f \in S : Kind[f] = "derived" => Source[f] \notin S

VARIABLES
  stored,   \* field -> its value in OpenBao
  version,  \* record -> the version of its last write, 0 when there is none
  run,      \* operator -> the run under way
  runs      \* operator -> runs begun

vars == <<stored, version, run, runs>>

Values == (Operators \X (1..MaxRuns)) \cup Inputs \cup {Fixed}
Steps == {"idle", "ask", "read", "check", "write", "verify"}
Told == {"", "applied", "conflict", "snapshot changed", "failed"}

(* No value of any field, and no write of any record.                      *)
Nothing == [f \in Fields |-> None]
Unwritten == [r \in Records |-> 0]

Idle(told) == [step |-> "idle", at |-> 1, asks |-> FALSE, typed |-> None, seen |-> Nothing,
               versions |-> Unwritten, writes |-> {}, told |-> told]

(* What _field_levels computes: a field stands one level above its source. *)
Level[f \in Fields] == IF Kind[f] = "derived" THEN 1 + Level[Source[f]] ELSE 0

(***************************************************************************)
(* The plan of a run, from what it read: `seen` and `versions`.            *)
(***************************************************************************)
Fresh(o) == <<o, runs[o]>>

(* A typed value replaces the stored one, a stored value stands, and only  *)
(* what is missing is made.                                                *)
Own(o, f) ==
  CASE Kind[f] = "literal" -> Fixed
    [] Kind[f] = "supplied" -> IF run[o].typed # None THEN run[o].typed ELSE run[o].seen[f]
    [] Kind[f] = "made" -> IF run[o].seen[f] # None THEN run[o].seen[f] ELSE Fresh(o)

(* What is derived is taken from its source, as far as that goes back.     *)
Resolved(o) ==
  LET value[f \in Fields] == IF Kind[f] = "derived" THEN value[Source[f]] ELSE Own(o, f)
  IN value

(* A stored literal or derived value that is not the one it should be is   *)
(* refused, never replaced.                                                *)
Conflict(o) == \E f \in OfKind("literal") \cup OfKind("derived") :
                 run[o].seen[f] \notin {None, Resolved(o)[f]}

(* The writes are ordered by level, then by record.                        *)
Place(r) == CHOOSE i \in DOMAIN Order : Order[i] = r

Earlier(p, q) ==
  \/ p.level < q.level
  \/ p.level = q.level /\ Place(p.record) < Place(q.record)

(* The levels at which something of a record changes.                      *)
Changed(o, r) == {Level[f] : f \in {f \in Fields : RecordOf[f] = r /\ run[o].seen[f] # Resolved(o)[f]}}

(* The version a record has before the plan's write at a level.            *)
Base(o, r, level) == run[o].versions[r] + Cardinality({k \in Changed(o, r) : k < level})

(* What is written then: the whole record, as far as it is resolved.       *)
Whole(o, r, level) ==
  [f \in Fields |-> IF RecordOf[f] # r THEN None
                    ELSE IF Level[f] <= level THEN Resolved(o)[f] ELSE run[o].seen[f]]

Writes(o) ==
  UNION {{[level |-> l, record |-> r, values |-> Whole(o, r, l), cas |-> Base(o, r, l)] :
            l \in Changed(o, r)} : r \in Records}

(***************************************************************************)
(* A run.                                                                  *)
(***************************************************************************)
Become(o, r) == run' = [run EXCEPT ![o] = r]
Goto(o, step) == Become(o, [run[o] EXCEPT !.step = step, !.at = 1])
End(o, told) == Become(o, Idle(told))

(* The operator names the input group to be replaced, or does not.         *)
Begin(o) ==
  /\ run[o].step = "idle" /\ runs[o] < MaxRuns
  /\ \E asks \in BOOLEAN : Become(o, [Idle("") EXCEPT !.step = "ask", !.asks = asks])
  /\ runs' = [runs EXCEPT ![o] = @ + 1]
  /\ UNCHANGED <<stored, version>>

(* The group is asked for when it was named or one of its fields is        *)
(* missing; these reads come before those of the plan, but nothing         *)
(* removes a record, so the plan has a typed or a stored value.            *)
Ask(o) ==
  /\ run[o].step = "ask"
  /\ \/ /\ run[o].asks \/ \E f \in OfKind("supplied") : stored[f] = None
        /\ OfKind("supplied") # {}
        /\ \E v \in Inputs : Become(o, [run[o] EXCEPT !.step = "read", !.typed = v])
     \/ /\ ~run[o].asks /\ \A f \in OfKind("supplied") : stored[f] # None
        /\ Goto(o, "read")
     \/ OfKind("supplied") = {} /\ Goto(o, "read")
  /\ UNCHANGED <<stored, version, runs>>

Reading(o) == Order[run[o].at]
Advance(o) == [run[o] EXCEPT !.at = @ + 1]

(* One record read, the whole of it with its version.                      *)
Read(o) ==
  /\ run[o].step = "read" /\ run[o].at <= Len(Order)
  /\ Become(o, [Advance(o) EXCEPT
       !.seen = [f \in Fields |-> IF RecordOf[f] = Reading(o) THEN stored[f] ELSE @[f]],
       !.versions[Reading(o)] = version[Reading(o)]])
  /\ UNCHANGED <<stored, version, runs>>

(* The whole set is read: it is planned before anything is written.        *)
Plan(o) ==
  /\ run[o].step = "read" /\ run[o].at > Len(Order)
  /\ \/ Conflict(o) /\ End(o, "conflict")
     \/ ~Conflict(o) /\ Become(o, [Idle("") EXCEPT !.step = "check",
                         !.versions = run[o].versions, !.writes = Writes(o)])
  /\ UNCHANGED <<stored, version, runs>>

(* _check_versions, before the writes and after them: the version a record *)
(* should have is the one that was read, or that its last write left.      *)
Check(o) ==
  /\ run[o].step \in {"check", "verify"} /\ run[o].at <= Len(Order)
  /\ \/ version[Reading(o)] = run[o].versions[Reading(o)] /\ Become(o, Advance(o))
     \/ version[Reading(o)] # run[o].versions[Reading(o)] /\ End(o, "snapshot changed")
  /\ UNCHANGED <<stored, version, runs>>

Checked(o) ==
  /\ run[o].at > Len(Order)
  /\ \/ run[o].step = "check" /\ Goto(o, "write")
     \/ run[o].step = "verify" /\ End(o, "applied")
  /\ UNCHANGED <<stored, version, runs>>

(* OpenBao takes a write only at the version the writer names.             *)
AcceptedBlindly(w) == TRUE

Accepted(w) == version[w.record] = w.cas

(* The next write in the order of the plan.  An answer that is lost ends   *)
(* the run, with the write made.                                           *)
Write(o) ==
  /\ run[o].step = "write"
  /\ \E w \in run[o].writes :
       /\ \A v \in run[o].writes \ {w} : Earlier(w, v)
       /\ \/ /\ Accepted(w)
             /\ stored' = [f \in Fields |-> IF RecordOf[f] = w.record THEN w.values[f] ELSE stored[f]]
             /\ version' = [version EXCEPT ![w.record] = @ + 1]
             /\ \/ Become(o, [run[o] EXCEPT !.writes = @ \ {w}, !.versions[w.record] = w.cas + 1])
                \/ End(o, "failed")
          \/ ~Accepted(w) /\ End(o, "failed") /\ UNCHANGED <<stored, version>>
  /\ UNCHANGED runs

Written(o) ==
  /\ run[o].step = "write" /\ run[o].writes = {}
  /\ Goto(o, "verify")
  /\ UNCHANGED <<stored, version, runs>>

(* A request fails before it takes effect, the operator interrupts, or the *)
(* token is revoked by the run of another.                                 *)
Fail(o) ==
  /\ run[o].step # "idle" /\ End(o, "failed")
  /\ UNCHANGED <<stored, version, runs>>

Init ==
  /\ stored = Nothing /\ version = Unwritten
  /\ run = [o \in Operators |-> Idle("")] /\ runs = [o \in Operators |-> 0]

Act(o) ==
  \/ Begin(o) \/ Ask(o) \/ Read(o) \/ Plan(o) \/ Check(o)
  \/ Checked(o) \/ Write(o) \/ Written(o) \/ Fail(o)

Next == \E o \in Operators : Act(o)

Spec == Init /\ [][Next]_vars

(***************************************************************************)
(* Properties.                                                             *)
(***************************************************************************)
Planned == [level : Nat, record : Records, cas : Nat, values : [Fields -> Values \cup {None}]]
Session == [step : Steps, at : Nat \ {0}, asks : BOOLEAN, typed : Inputs \cup {None},
            seen : [Fields -> Values \cup {None}], versions : [Records -> Nat],
            writes : SUBSET Planned, told : Told]

(* Types of the variables (SecretRecord, CredentialWrite, CredentialPlan). *)
TypeOK ==
  /\ stored \in [Fields -> Values \cup {None}]
  /\ version \in [Records -> Nat]
  /\ runs \in [Operators -> 0..MaxRuns]
  /\ run \in [Operators -> Session]

Made(f) == Kind[f] = "made"

(* A key that was once stored stands: no run, retry or second operator     *)
(* generates it anew, and what is stored of it elsewhere, as a copy or a   *)
(* digest, is always that of the stored key.  A run that dies between two  *)
(* writes therefore leaves what the next one completes (apply_credentials, *)
(* _resolve_field, _writes).                                               *)
KeysStandStep ==
  /\ \A f \in OfKind("made") : stored[f] # None => stored'[f] = stored[f]
  /\ \A f \in OfKind("derived") :
       Made(Source[f]) /\ stored'[f] # None => stored'[f] = stored'[Source[f]]

KeysStand == [][KeysStandStep]_vars

(***************************************************************************)
(* The inductive invariant.                                                *)
(***************************************************************************)
CopyOfMade(f) == Kind[f] = "derived" /\ Made(Source[f])

Copies == \A f \in Fields : CopyOfMade(f) /\ stored[f] # None => stored[f] = stored[Source[f]]

(* A record whose version is still the one that was read has the key that  *)
(* was read, if any; a key that was read stands, and so does the source of *)
(* a copy that was read.                                                   *)
HasRead(o, r) == \E i \in DOMAIN Order : i < run[o].at /\ Order[i] = r

ReadsStand(o) ==
  run[o].step \in {"ask", "read"} =>
    /\ \A r \in Records : run[o].versions[r] <= version[r]
    /\ \A f \in Fields :
         /\ Made(f) => run[o].seen[f] \in {None, stored[f]}
         /\ CopyOfMade(f) => run[o].seen[f] \in {None, stored[Source[f]]}
         /\ Made(f) /\ HasRead(o, RecordOf[f])
            /\ run[o].versions[RecordOf[f]] = version[RecordOf[f]] => run[o].seen[f] = stored[f]

(* Each write left names the version that the ones before it of its record *)
(* lead to.                                                                *)
Before(o, w) == {v \in run[o].writes : v.record = w.record /\ v.level < w.level}
Chained(o) ==
  /\ \A r \in Records : run[o].versions[r] <= version[r]
  /\ \A w \in run[o].writes :
       /\ IsFiniteSet(Before(o, w))
       /\ w.cas = run[o].versions[w.record] + Cardinality(Before(o, w))
       /\ \A v \in run[o].writes : v.record = w.record /\ v.level = w.level => v = w

(* All writes of a record have the same keys, those that are stored if its *)
(* version is still the expected one.                                      *)
KeysAgree(o) ==
  \A w \in run[o].writes : \A f \in Fields : Made(f) /\ RecordOf[f] = w.record =>
    /\ run[o].versions[w.record] = version[w.record] => stored[f] \in {None, w.values[f]}
    /\ \A v \in run[o].writes : v.record = w.record => v.values[f] = w.values[f]

(* A copy that is to be written is of the key beside it, of the stored one *)
(* or of the one that is written first.                                    *)
CopiesFollow(o) ==
  \A w \in run[o].writes : \A f \in Fields :
    CopyOfMade(f) /\ RecordOf[f] = w.record /\ w.values[f] # None =>
      \/ RecordOf[Source[f]] = w.record /\ w.values[Source[f]] = w.values[f]
      \/ RecordOf[Source[f]] # w.record /\ stored[Source[f]] = w.values[f]
      \/ /\ RecordOf[Source[f]] # w.record
         /\ \E v \in run[o].writes : /\ v.record = RecordOf[Source[f]] /\ v.level < w.level
                                     /\ v.values[Source[f]] = w.values[f]

PlanStands(o) == run[o].step \in {"check", "write"} => Chained(o) /\ KeysAgree(o) /\ CopiesFollow(o)

Begun(o) == run[o].step # "idle" => runs[o] > 0

IInv ==
  /\ TypeOK /\ Copies
  /\ \A o \in Operators : Begun(o) /\ ReadsStand(o) /\ PlanStands(o)
====
