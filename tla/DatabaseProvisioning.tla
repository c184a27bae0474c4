-------------------------- MODULE DatabaseProvisioning --------------------------
(***************************************************************************)
(* Provisioning a product's user in the shared DocumentDB instance         *)
(* (postgres: provision.sh and provision.js).                              *)
(*                                                                         *)
(* A Job's shell starts a psql session that holds an instance-wide lock    *)
(* and, below it, runs the script again; that child lends operations_admin *)
(* two privileges, creates the user with them and takes them back, in a    *)
(* trap if it does not get that far.  Any statement may fail or lose its   *)
(* answer, the shell may be told to stop, the container may be killed, and *)
(* the session with the lock may be lost.  What a killed client had sent   *)
(* is done, or dropped, when it is gone.  Passwords, the roles' attributes *)
(* and the database's CONNECT privilege are left out.                      *)
(***************************************************************************)
EXTENDS Naturals, FiniteSets

CONSTANTS
  Jobs,
  Product,     (* Job |-> its product's user                                *)
  MaxRuns,     (* bound: runs of Jobs                                       *)
  None

Products == {Product[j] : j \in Jobs}
Granters == {"admin", "owner"}    (* operations_admin and documentdb         *)
ProvisioningAssumption ==
  None \notin Jobs /\ (\A g \in SUBSET Granters : g # None) /\ MaxRuns \in Nat

VARIABLES
  lock,        (* whose session holds the advisory lock                     *)
  elevated,    (* what operations_admin was lent: CREATEROLE, ADMIN OPTION  *)
  identity,    (* a user: who granted it documentdb_admin_role, or None     *)
  job,         (* each Job's container                                      *)
  told,        (* what its last run ended with                              *)
  runs,        (* how many there were                                       *)
  left,        (* history: Jobs killed while elevated, or refused a revoke  *)
  lost         (* history: was a session with the lock lost?                *)

vars == <<lock, elevated, identity, job, told, runs, left, lost>>
database == <<lock, elevated, identity>>

(* The steps during which the trap that revokes is set.                      *)
Clean == {"cleanAdmin", "cleanCreate"}
Armed == {"alter", "grant", "inventory", "mutate", "regrant", "revokeAdmin", "revokeCreate"}
           \cup Clean
Container ==
  [step : {"idle", "locking", "pid", "cancel", "identity", "preflight", "verify", "probe"}
            \cup Armed,
   stop : {"no", "touched", "sent"},   (* the shell's trap                    *)
   pid : BOOLEAN, term : BOOLEAN,      (* the child's file and signal         *)
   exists : BOOLEAN,                   (* DOCUMENTDB_ROLE_EXISTS              *)
   refused : BOOLEAN]                  (* did a revocation fail?              *)
Idle == [step |-> "idle", stop |-> "no", pid |-> FALSE, term |-> FALSE, exists |-> FALSE,
         refused |-> FALSE]

TypeOK ==
  /\ lock \in Jobs \cup {None} /\ elevated \subseteq {"createrole", "admin"}
  /\ identity \in [Products -> {None} \cup SUBSET Granters]
  /\ job \in [Jobs -> Container]
  /\ told \in [Jobs -> {"none", "verified", "failed", "unrevoked"}]
  /\ runs \in 0..MaxRuns /\ left \subseteq Jobs /\ lost \in BOOLEAN

-----------------------------------------------------------------------------
At(j, step) == job[j].step = step
To(j, step) == job' = [job EXCEPT ![j].step = step]
(* A signal is heard when the command under way has returned.                *)
Go(j, step) == At(j, step) /\ ~job[j].term

(* The child ends, and with it the session.                                 *)
End(j, answer) ==
  /\ job' = [job EXCEPT ![j] = Idle]
  /\ told' = [told EXCEPT ![j] = IF job[j].stop # "no" /\ answer = "verified"
                                 THEN "failed" ELSE answer]
  /\ lock' = IF lock = j THEN None ELSE lock
FailUntrapped(j) ==   (* as if the trap were set after the first grant       *)
  IF job[j].step \in Armed \ {"alter", "grant"}
    THEN To(j, "cleanAdmin") /\ UNCHANGED <<lock, told>>
  ELSE End(j, "failed")
(* A command failed: the shell ends here, after its trap.                    *)
Fail(j) ==
  IF job[j].step \in Armed THEN To(j, "cleanAdmin") /\ UNCHANGED <<lock, told>>
  ELSE End(j, "failed")
Silent == UNCHANGED <<lock, told>>
Still == UNCHANGED <<elevated, identity, runs, left, lost>>

Start(j) ==
  /\ At(j, "idle") /\ runs < MaxRuns /\ runs' = runs + 1
  /\ To(j, "locking") /\ told' = [told EXCEPT ![j] = "none"]
  /\ UNCHANGED <<database, left, lost>>
TakeLock(j) ==
  /\ At(j, "locking") /\ lock = None /\ lock' = j /\ To(j, "pid") /\ UNCHANGED told /\ Still
NoLock(j) == At(j, "locking") /\ End(j, "failed") /\ Still

(* The child makes itself known before it looks whether it is wanted.        *)
WritePid(j) ==
  /\ At(j, "pid") /\ job' = [job EXCEPT ![j].pid = TRUE, ![j].step = "cancel"] /\ Silent /\ Still
SeeNothing(j) ==      (* as if it did not look                              *)
  Go(j, "cancel") /\ Still /\ To(j, "identity") /\ Silent
SeeCancel(j) ==
  /\ Go(j, "cancel") /\ Still
  /\ IF job[j].stop = "no" THEN To(j, "identity") /\ Silent ELSE End(j, "failed")

(* An existing user must have the product's membership from the owner alone. *)
CheckIdentity(j) ==
  LET it == identity[Product[j]]
  IN /\ Go(j, "identity") /\ Still
     /\ \/ /\ it \in {None, {"owner"}, {}}
           /\ job' = [job EXCEPT ![j].exists = it # None, ![j].step = "preflight"] /\ Silent
        \/ Fail(j)

(* provision.js lists the users that have the membership: no other product's, *)
(* and the product's own exactly if its role was found.                      *)
Listed(p) == identity[p] \notin {None, {}}
InventoryOfOwn(j) ==  (* as if only its own user were looked for             *)
  Listed(Product[j]) = job[j].exists
InventoryFits(j) ==
  /\ \A p \in Products \ {Product[j]} : ~Listed(p)
  /\ Listed(Product[j]) = job[j].exists
Preflight(j) ==
  /\ Go(j, "preflight") /\ Still
  /\ (InventoryFits(j) /\ To(j, "alter") /\ Silent) \/ Fail(j)

-----------------------------------------------------------------------------
Lend(j, step, privilege, next) ==
  /\ Go(j, step) /\ UNCHANGED <<identity, runs, left, lost>>
  /\ \/ elevated' = elevated \cup {privilege} /\ (To(j, next) \/ To(j, "cleanAdmin")) /\ Silent
     \/ UNCHANGED elevated /\ Fail(j)
Alter(j) == Lend(j, "alter", "createrole", "grant")
Grant(j) == Lend(j, "grant", "admin", "inventory")

Inventory(j) ==
  /\ Go(j, "inventory") /\ Still
  /\ (InventoryFits(j) /\ To(j, "mutate") /\ Silent) \/ Fail(j)
Mutate(j) ==
  LET p == Product[j]
      created == /\ identity[p] = None /\ elevated = {"createrole", "admin"}
                 /\ identity' = [identity EXCEPT ![p] = {"admin"}]
  IN /\ Go(j, "mutate") /\ UNCHANGED <<elevated, runs, left, lost>>
     /\ \/ (created \/ (job[j].exists /\ UNCHANGED identity)) /\ To(j, "regrant") /\ Silent
        \/ (created \/ UNCHANGED identity) /\ Fail(j)
Regrant(j) ==
  LET p == Product[j]
      granted == identity' = [identity EXCEPT ![p] = @ \cup {"owner"}]
  IN /\ Go(j, "regrant") /\ UNCHANGED <<elevated, runs, left, lost>>
     /\ \/ identity[p] # None /\ granted /\ (To(j, "revokeAdmin") \/ To(j, "cleanAdmin")) /\ Silent
        \/ UNCHANGED identity /\ Fail(j)

(* revoke_authorization, in the flow of the script and again in its trap:    *)
(* both statements are tried.  CASCADE takes what operations_admin granted.  *)
Elevate(now) == elevated' = now /\ left' = (IF now = {} THEN {} ELSE left)
RevokeAdmin(j) ==
  /\ Go(j, "revokeAdmin") \/ At(j, "cleanAdmin")
  /\ LET next == IF At(j, "cleanAdmin") THEN "cleanCreate" ELSE "revokeCreate"
         gone == /\ Elevate(elevated \ {"admin"})
                 /\ identity' = [p \in Products |->
                      IF identity[p] = None THEN None ELSE identity[p] \ {"admin"}]
     IN \/ gone /\ job' = [job EXCEPT ![j].step = next, ![j].refused = FALSE]
        \/ /\ gone \/ UNCHANGED <<elevated, identity, left>>
           /\ job' = [job EXCEPT ![j].step = next, ![j].refused = TRUE]
  /\ Silent /\ UNCHANGED <<runs, lost>>
RevokeCreate(j) ==
  LET gone == Elevate(elevated \ {"createrole"})
      kept == UNCHANGED elevated
  IN /\ Go(j, "revokeCreate") /\ UNCHANGED <<identity, runs, lost>>
     /\ \/ gone /\ ~job[j].refused /\ To(j, "verify") /\ Silent
        \/ gone /\ Fail(j)
        \/ kept /\ UNCHANGED left /\ Fail(j)
CleanCreate(j) ==
  /\ At(j, "cleanCreate") /\ UNCHANGED <<identity, runs, lost>>
  /\ \/ Elevate(elevated \ {"createrole"}) /\ ~job[j].refused /\ End(j, "failed")
     \/ /\ elevated' \in {elevated, elevated \ {"createrole"}} /\ left' = left \cup {j}
        /\ End(j, "unrevoked")

Verify(j) ==
  /\ Go(j, "verify") /\ Still
  /\ (elevated = {} /\ identity[Product[j]] = {"owner"} /\ To(j, "probe") /\ Silent) \/ Fail(j)
Probe(j) == Go(j, "probe") /\ Still /\ (End(j, "verified") \/ Fail(j))

-----------------------------------------------------------------------------
(* The shell is told to stop: it leaves word, signals the child it knows of  *)
(* and waits for the session.                                                *)
Stop(j) ==
  /\ ~At(j, "idle") /\ job[j].stop = "no" /\ job' = [job EXCEPT ![j].stop = "touched"]
  /\ Silent /\ Still
SendTerm(j) ==
  /\ job[j].stop = "touched"
  /\ job' = [job EXCEPT ![j].stop = "sent",
                        ![j].term = job[j].pid /\ job[j].step \notin Clean]
  /\ Silent /\ Still
HearTerm(j) ==
  /\ job[j].term /\ job[j].step \notin Clean /\ Still
  /\ IF job[j].step \in Armed
       THEN job' = [job EXCEPT ![j].step = "cleanAdmin", ![j].term = FALSE] /\ Silent
       ELSE End(j, "failed")

(* The container is killed; its session ends when the server notices.        *)
Kill(j) ==
  /\ ~At(j, "idle") /\ End(j, "none") /\ UNCHANGED <<elevated, identity, runs, lost>>
  /\ left' = IF job[j].step \in Armed THEN left \cup {j} ELSE left
LoseSession ==
  /\ lock # None /\ lock' = None /\ lost' = TRUE
  /\ UNCHANGED <<elevated, identity, job, told, runs, left>>

Init ==
  /\ lock = None /\ elevated = {} /\ identity = [p \in Products |-> None]
  /\ job = [j \in Jobs |-> Idle] /\ told = [j \in Jobs |-> "none"] /\ runs = 0
  /\ left = {} /\ lost = FALSE

Next ==
  \/ \E j \in Jobs :
       \/ Start(j) \/ TakeLock(j) \/ NoLock(j) \/ WritePid(j) \/ SeeCancel(j) \/ CheckIdentity(j)
       \/ Preflight(j) \/ Alter(j) \/ Grant(j) \/ Inventory(j) \/ Mutate(j) \/ Regrant(j)
       \/ RevokeAdmin(j) \/ RevokeCreate(j) \/ CleanCreate(j) \/ Verify(j) \/ Probe(j)
       \/ Stop(j) \/ SendTerm(j) \/ HearTerm(j) \/ Kill(j)
  \/ LoseSession

Spec == Init /\ [][Next]_vars

-----------------------------------------------------------------------------
(* The lent privileges stand only while a child is there to take them back, *)
(* unless one was killed in between or its revocation was refused.           *)
ElevationEnds ==
  elevated # {} => left # {} \/ \E j \in Jobs : job[j].step \in Armed

(* As long as the lock holds, one product's user at most has the membership  *)
(* (one without it may stand beside, left by an interrupted Job), and what   *)
(* was verified is granted by the owner and by none else.                    *)
OneConsumer ==
  ~lost =>
    /\ Cardinality({p \in Products : Listed(p)}) <= 1
    /\ \A j \in Jobs : told[j] = "verified" => identity[Product[j]] = {"owner"}

(* A Job that was told to stop before its child looked lends nothing.        *)
StopIsHeardStep ==
  \A j \in Jobs : job[j].stop = "sent" /\ At(j, "preflight") => job'[j].step # "alter"

InstanceIsGuardedStep == ElevationEnds' /\ OneConsumer' /\ StopIsHeardStep

-----------------------------------------------------------------------------
(* Why it is.  A privilege that stands has a child that will still take it  *)
(* back, be it because the first attempt was refused.                        *)
LentIsTaken ==
  /\ "admin" \in elevated => left # {} \/ \E j \in Jobs :
       \/ job[j].step \in {"inventory", "mutate", "regrant", "revokeAdmin", "cleanAdmin"}
       \/ job[j].step \in {"revokeCreate", "cleanCreate"} /\ job[j].refused
  /\ "createrole" \in elevated => left # {} \/ \E j \in Jobs : job[j].step \in Armed \ {"alter"}

(* While the lock holds, who is past it holds it; who changes a user has    *)
(* seen no other, and what it verified is still so.                          *)
HolderKnows ==
  ~lost =>
    /\ \A j \in Jobs : job[j].step \notin {"idle", "locking"} => lock = j
    /\ \A j \in Jobs : job[j].step \in {"mutate", "regrant"} =>
         \A p \in Products \ {Product[j]} : ~Listed(p)
    /\ \A j \in Jobs : At(j, "probe") \/ told[j] = "verified" => identity[Product[j]] = {"owner"}
    /\ \A p, q \in Products : Listed(p) /\ Listed(q) => p = q

(* A child that was not told to stop when it looked can be signalled.       *)
SignalArrives ==
  \A j \in Jobs :
    /\ job[j].step \in {"cancel", "identity", "preflight"} => job[j].pid
    /\ job[j].step \in {"identity", "preflight"} /\ job[j].stop = "sent" => job[j].term

IInv == TypeOK /\ LentIsTaken /\ HolderKnows /\ SignalArrives
=============================================================================
