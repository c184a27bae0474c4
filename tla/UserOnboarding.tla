---------------------------- MODULE UserOnboarding -----------------------------
(***************************************************************************)
(* The operator's onboarding of local Keycloak users (cli_tools/           *)
(* keycloak_users: main.py, client.py, auth.py).                           *)
(*                                                                         *)
(* A session signs in, reads a catalog of the realm, lets the operator     *)
(* choose and confirm, reads everything again and then sends independent   *)
(* writes, each once: the account, its memberships, one e-mail.  A request *)
(* may be refused, be lost before or after it took effect, or take effect  *)
(* long after it was given up; Ctrl-C ends any of it.  What was reached is *)
(* reported.  One username is considered.                                  *)
(***************************************************************************)
EXTENDS Naturals

CONSTANTS
  Groups,     (* access groups                                              *)
  MaxOps,     (* bound: sessions                                            *)
  MaxEdits,   (* bound: changes by administrators, and accounts             *)
  None

OnboardingAssumption ==
  /\ {None, "create", "email", "prevalidation", "complete"} \cap Groups = {}
  /\ None \notin Nat /\ {MaxOps, MaxEdits} \subseteq Nat
  /\ None \notin [id : Nat, enabled : BOOLEAN, groups : SUBSET Groups]

VARIABLES
  realm,      (* what the catalog shows: groups, whether local accounts may *)
              (* be created, whether mail is set up, who may manage users   *)
  account,    (* the account of the username, or None                       *)
  late,       (* writes that were given up and may still take effect        *)
  token,      (* the session's: "live", "old" or "none"                     *)
  cli,        (* the session: its step and what it has read                 *)
  plan,       (* what the operator confirmed; its user has the memberships  *)
              (* that were read, none before                                *)
  reply,      (* of the write under way                                     *)
  report,     (* Progress                                                   *)
  done,       (* history: the writes of this session that took effect       *)
  ops, edits

vars == <<realm, account, late, token, cli, plan, reply, report, done, ops, edits>>
serverVars == <<realm, account, late, done, edits>>

Realms == [groups : SUBSET Groups, open : BOOLEAN, smtp : BOOLEAN]
Ids == 1..(MaxOps + MaxEdits + 1)
Accounts == [id : Ids, enabled : BOOLEAN, groups : SUBSET Groups]
Writes == {"create", "email"} \cup Groups   (* a group: the membership      *)

NoPlan == [op |-> "create", catalog |-> None, user |-> None, groups |-> {}, mail |-> FALSE]
Fresh == [stage |-> "prevalidation", outcome |-> "none", id |-> None, accepted |-> {}, mail |-> "not attempted"]
Idle == [step |-> "idle", todo |-> {}, id |-> None]

Requests == [what : Writes, id : Ids \cup {None}, op : 0..MaxOps]
Sessions ==
  [step : {"idle", "doctor", "choose", "catalog", "identity", "memberships", "write", "sent"},
   todo : SUBSET Writes,          (* writes still to send                     *)
   id : Ids \cup {None}]          (* the id in the answer                     *)
Plans ==
  [op : {"create", "resume", "send"}, catalog : Realms \cup {None}, user : Accounts \cup {None},
   groups : SUBSET Groups, mail : BOOLEAN]
Reports ==
  [stage : Writes \cup {"prevalidation", "complete"},
   outcome : {"none", "not attempted", "not submitted", "rejected", "outcome unknown"},
   id : Ids \cup {None}, accepted : SUBSET Groups,
   mail : {"not attempted", "not submitted", "rejected", "outcome unknown", "accepted"}]

TypeOK ==
  /\ realm \in Realms /\ account \in Accounts \cup {None} /\ late \subseteq Requests
  /\ token \in {"live", "old", "none"} /\ cli \in Sessions /\ plan \in Plans
  /\ reply \in {"none", "ok", "malformed", "unreached", "refused", "error", "lost"}
  /\ report \in Reports /\ done \subseteq Writes /\ ops \in 0..MaxOps /\ edits \in 0..MaxEdits

-----------------------------------------------------------------------------
(* The session, up to the operator's confirmation.                          *)
At(step) == cli.step = step
To(step) == cli' = [cli EXCEPT !.step = step]
Stop == cli' = Idle /\ token' = "none" /\ UNCHANGED <<plan, reply, report>>

(* A verified token with the authority to manage users.                     *)
Login(op) ==
  /\ At("idle") /\ ops < MaxOps /\ ops' = ops + 1
  /\ token' = "live" /\ cli' = [Idle EXCEPT !.step = "doctor"]
  /\ plan' = [NoPlan EXCEPT !.op = op] /\ report' = Fresh /\ reply' = "none" /\ done' = {}
  /\ UNCHANGED <<realm, account, late, edits>>

(* The token runs out; the next request refreshes it first, and a refresh   *)
(* that fails, or shows that the authority is gone, ends every later one.   *)
Expire ==
  /\ token = "live" /\ token' = "old"
  /\ UNCHANGED <<serverVars, cli, plan, reply, report, ops>>
Authorised == token # "none" /\ token' \in (IF token = "old" THEN {"live"} ELSE {token})
Unauthorised == token # "live" /\ token' = "none"

Doctor ==
  /\ At("doctor") /\ Authorised
  /\ plan' = [plan EXCEPT !.catalog = realm] /\ To("choose")
  /\ UNCHANGED <<serverVars, reply, report, ops>>

(* The account as its representation shows it, without its memberships.     *)
Bare(a) == IF a = None THEN None ELSE [a EXCEPT !.groups = {}]

(* The operator names the account, which a new one must not be and others   *)
(* must, chooses and confirms.                                              *)
Choose(groups, mail) ==
  /\ At("choose") /\ Authorised
  /\ groups \subseteq plan.catalog.groups /\ mail => plan.catalog.smtp
  /\ IF plan.op = "create" THEN plan.catalog.open ELSE account # None
  /\ plan.op = "send" => groups = {} /\ mail
  /\ plan' = [plan EXCEPT !.groups = groups, !.mail = mail,
                          !.user = IF plan.op = "create" THEN None ELSE Bare(account)]
  /\ To("catalog")
  /\ UNCHANGED <<serverVars, reply, report, ops>>

(* Any failure, refusal or Ctrl-C before the writes.                        *)
GiveUp ==
  /\ cli.step \in {"doctor", "choose", "catalog", "identity", "memberships"} /\ Stop
  /\ UNCHANGED <<serverVars, ops>>

-----------------------------------------------------------------------------
(* The catalog is read again, and must be the one that was confirmed.       *)
Prevalidate ==
  /\ At("catalog") /\ Authorised /\ realm = plan.catalog /\ To("identity")
  /\ UNCHANGED <<serverVars, plan, reply, report, ops>>

(* The writes to come: memberships, and the e-mail if it was asked for.      *)
Begin(writes) ==
  cli' = [Idle EXCEPT !.step = "write",
                      !.todo = writes \cup (IF plan.mail THEN {"email"} ELSE {})]

(* A new account must still be missing.                                      *)
CheckNew ==
  /\ At("identity") /\ Authorised /\ plan.op = "create" /\ account = None
  /\ Begin(plan.groups \cup {"create"})
  /\ UNCHANGED <<serverVars, plan, reply, report, ops>>

(* The representation of an existing one must be as it was confirmed; its    *)
(* memberships are no part of it.                                            *)
CheckIdentity ==
  /\ At("identity") /\ Authorised /\ plan.op # "create"
  /\ account # None /\ Bare(account) = plan.user
  /\ plan.mail => account.enabled
  /\ report' = [report EXCEPT !.id = account.id] /\ To("memberships")
  /\ UNCHANGED <<serverVars, plan, reply, ops>>

(* They are read by themselves, as they are by then, and those that are      *)
(* there already are not added.                                              *)
ReadMemberships ==
  /\ At("memberships") /\ Authorised /\ account # None /\ account.id = report.id
  /\ plan' = [plan EXCEPT !.user.groups = account.groups]
  /\ Begin(plan.groups \ account.groups)
  /\ UNCHANGED <<serverVars, reply, report, ops>>

(* The account first, then the memberships, then the e-mail.                *)
IsNext(w) ==
  /\ w \in cli.todo
  /\ w # "create" => "create" \notin cli.todo
  /\ w = "email" => cli.todo = {"email"}

(* The server: what a write needs, and what it does.                        *)
Takes(w, id) ==
  CASE w = "create" -> account = None
    [] w = "email" -> account # None /\ account.id = id /\ account.enabled
    [] OTHER -> w \in realm.groups /\ account # None /\ account.id = id
NextId == ops + edits + 1
Effect(w) ==
  CASE w = "create" -> [id |-> NextId, enabled |-> TRUE, groups |-> {}]
    [] w = "email" -> account
    [] OTHER -> [account EXCEPT !.groups = @ \cup {w}]

(* The request is sent once.  It is answered; or the connection is never    *)
(* made; or the answer is an error or none, and the write has taken effect, *)
(* has not, or will.                                                        *)
Send(w) ==
  /\ At("write") /\ IsNext(w) /\ Authorised
  /\ cli' = [cli EXCEPT !.step = "sent", !.id = NextId]
  /\ report' = [report EXCEPT !.stage = w, !.outcome = "not attempted"]
  /\ \/ /\ reply' = "unreached" /\ UNCHANGED <<account, late, done>>
     \/ /\ Takes(w, report.id) /\ account' = Effect(w) /\ done' = done \cup {w}
        /\ reply' \in {"ok", "error", "lost"} \cup (IF w = "create" THEN {"malformed"} ELSE {})
        /\ UNCHANGED late
     \/ ~Takes(w, report.id) /\ reply' = "refused" /\ UNCHANGED <<account, late, done>>
     \/ /\ reply' \in {"error", "lost"} /\ UNCHANGED <<account, done>>
        /\ late' \in {late, late \cup {[what |-> w, id |-> report.id, op |-> ops]}}
  /\ UNCHANGED <<realm, plan, ops, edits>>

(* The token could not be verified: the write is not sent.                  *)
SendFails(w) ==
  /\ At("write") /\ IsNext(w) /\ (Unauthorised \/ UNCHANGED token) /\ cli' = Idle
  /\ report' = [report EXCEPT !.stage = w, !.outcome = "not attempted"]
  /\ UNCHANGED <<serverVars, plan, reply, ops>>

(* Mutant: a server error counts as a refusal.                              *)
OutcomeOfStatus ==
  CASE reply = "unreached" -> "not submitted"
    [] reply \in {"refused", "error"} -> "rejected"
    [] OTHER -> "outcome unknown"

(* What the answer tells.                                                   *)
Outcome ==
  CASE reply = "unreached" -> "not submitted"
    [] reply = "refused" -> "rejected"
    [] OTHER -> "outcome unknown"

Accepted ==
  /\ At("sent") /\ reply = "ok" /\ UNCHANGED token
  /\ cli' = [Idle EXCEPT !.step = "write", !.todo = cli.todo \ {report.stage}]
  /\ report' = CASE report.stage = "create" -> [report EXCEPT !.outcome = "none", !.id = cli.id]
                 [] report.stage = "email" -> [report EXCEPT !.outcome = "none", !.mail = "accepted"]
                 [] OTHER -> [report EXCEPT !.outcome = "none", !.accepted = @ \cup {report.stage}]
  /\ UNCHANGED <<serverVars, plan, reply, ops>>

Stopped(outcome) ==
  /\ cli' = Idle /\ token' = "none"
  /\ report' = [report EXCEPT !.outcome = outcome,
                              !.mail = IF report.stage = "email" THEN outcome ELSE @]
  /\ UNCHANGED <<serverVars, plan, reply, ops>>

(* The first write that is not accepted is the last.                        *)
NotAccepted == At("sent") /\ reply # "ok" /\ Stopped(Outcome)

(* Ctrl-C while a write is under way: it counts as submitted.               *)
Interrupted == At("sent") /\ Stopped("outcome unknown")

Complete ==
  /\ At("write") /\ cli.todo = {} /\ cli' = Idle /\ token' = "none"
  /\ report' = [report EXCEPT !.stage = "complete"]
  /\ UNCHANGED <<serverVars, plan, reply, ops>>

-----------------------------------------------------------------------------
(* The server gets to a request long after it was given up, or never.       *)
Land(e) ==
  /\ e \in late /\ late' = late \ {e}
  /\ IF Takes(e.what, e.id)
     THEN account' = Effect(e.what) /\ done' = IF e.op = ops THEN done \cup {e.what} ELSE done
     ELSE UNCHANGED <<account, done>>
  /\ UNCHANGED <<realm, token, cli, plan, reply, report, ops, edits>>

(* Administrators change the realm, or create, change or delete the account. *)
ChangeRealm(r) ==
  /\ edits < MaxEdits /\ edits' = edits + 1 /\ r # realm /\ realm' = r
  /\ UNCHANGED <<account, late, token, cli, plan, reply, report, done, ops>>

ChangeAccount(a) ==
  /\ edits < MaxEdits /\ edits' = edits + 1 /\ account' = a /\ a # account
  /\ UNCHANGED <<realm, late, token, cli, plan, reply, report, done, ops>>

-----------------------------------------------------------------------------
Init ==
  /\ realm = [groups |-> Groups, open |-> TRUE, smtp |-> TRUE] /\ account = None /\ late = {}
  /\ token = "none" /\ cli = Idle /\ plan = NoPlan /\ reply = "none" /\ report = Fresh
  /\ done = {} /\ ops = 0 /\ edits = 0

Next ==
  \/ \E op \in {"create", "resume", "send"} : Login(op)
  \/ \E groups \in SUBSET Groups, mail \in BOOLEAN : Choose(groups, mail)
  \/ Expire \/ Doctor \/ GiveUp \/ Prevalidate
  \/ CheckNew \/ CheckIdentity \/ ReadMemberships
  \/ \E w \in Writes : Send(w) \/ SendFails(w)
  \/ Accepted \/ NotAccepted \/ Interrupted \/ Complete
  \/ \E e \in late : Land(e)
  \/ \E r \in Realms : ChangeRealm(r)
  \/ \E a \in {[id |-> NextId, enabled |-> TRUE, groups |-> {}], None} : ChangeAccount(a)
  \/ \E b \in BOOLEAN, gs \in SUBSET Groups :
       account # None /\ ChangeAccount([account EXCEPT !.enabled = b, !.groups = gs])

Spec == Init /\ [][Next]_vars

-----------------------------------------------------------------------------
(* "Exact client-observed stages": when a session has ended, its report is  *)
(* true of the server, so that the operator may act on it.  A write said to *)
(* be not attempted, not submitted or rejected has not taken effect and     *)
(* never will; one said to be accepted has; a write after the one that      *)
(* ended it was not made; and after a complete session every group that was *)
(* confirmed was given by it, or had been there when it read the memberships *)
(* (Progress, Accounts.resume, Accounts.write, Connection.request).          *)
Refused == {"not attempted", "not submitted", "rejected"}
Pending == {e.what : e \in {f \in late : f.op = ops}}
Made == done \cup Pending
Known == report.accepted \cup (IF report.mail = "accepted" THEN {"email"} ELSE {})
               \cup (IF plan.op = "create" /\ report.id # None THEN {"create"} ELSE {})
Doubtful == IF report.outcome = "outcome unknown" THEN {report.stage} ELSE {}
ReportIsTrue ==
  At("idle") /\ ops > 0 =>
    /\ Known \subseteq done /\ Made \subseteq Known \cup Doubtful
    /\ report.outcome \in Refused => report.stage \notin Made
    /\ report.mail \in Refused => "email" \notin Made
    /\ report.stage = "complete" =>
         plan.groups \subseteq done \cup (IF plan.user = None THEN {} ELSE plan.user.groups)

-----------------------------------------------------------------------------
(* The inductive invariant: what is known of the writes at every step of a  *)
(* session, so that it may end at any of them.                              *)
NoneAhead == \A e \in late : e.op <= ops

NothingYet ==
  cli.step \in {"doctor", "choose", "catalog", "identity", "memberships"} =>
    /\ Made = {} /\ report.stage = "prevalidation" /\ report.outcome = "none"
    /\ report.accepted = {} /\ report.mail = "not attempted"
    /\ report.id # None <=> At("memberships")
    /\ cli.step \in {"catalog", "identity", "memberships"} =>
         (plan.op = "create" <=> plan.user = None)
    /\ At("memberships") => plan.op # "create"

Underway ==
  cli.step \in {"write", "sent"} =>
    /\ Known \subseteq done
    /\ Made \subseteq Known \cup (IF At("sent") THEN {report.stage} ELSE {})
    /\ cli.todo \cap Known = {}
    /\ "create" \in cli.todo => plan.op = "create" /\ report.id = None
    /\ report.mail \in {"not attempted", "accepted"}
    /\ plan.groups \subseteq
         done \cup cli.todo \cup (IF plan.user = None THEN {} ELSE plan.user.groups)
    /\ At("write") => report.outcome = "none"

Answered ==
  At("sent") =>
    /\ report.stage \in cli.todo /\ cli.id # None
    /\ reply = "ok" => report.stage \in done
    /\ reply \in {"unreached", "refused"} => report.stage \notin Made

IInv == TypeOK /\ NoneAhead /\ NothingYet /\ Underway /\ Answered /\ ReportIsTrue
===============================================================================
