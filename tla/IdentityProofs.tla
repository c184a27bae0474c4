--------------------------- MODULE IdentityProofs ---------------------------
(* Proofs about the components of MCCluster that keep identities and their    *)
(* credentials: the provider of the directory, the people that are onboarded, *)
(* the Jobs that reconcile a realm, a client of a closed scope, and the       *)
(* credentials of add-ons; for any number of targets and sources, of groups,  *)
(* of Jobs, objects and links, of operators, records and fields, and of runs. *)
(* Each has an inductive invariant of its own, the IInv of its module; a      *)
(* behaviour is one of a single component, so they are kept side by side.  A  *)
(* lemma named after an action states that the action keeps the invariant of  *)
(* its component.  The variables have the names that MCCluster gives them.    *)
EXTENDS ClusterProofs, Sequences, WellFoundedInduction

-----------------------------------------------------------------------------
(* The directory's provider: s1 the provider, s2 and s3 its mappers, s4 the *)
(* declared ones, s5 the run, s6 its answer, s7 whether administrators      *)
(* changed mappers, s8 and s9 the bounds.                                   *)

(* Configurations are mappers, and so is any choice of a legacy one.        *)
LEMMA ConfigsAreMappers ==
  Directory!Configs \cup {Directory!Off} \subseteq [Directory!Names -> Sources \cup {None}]
<1>1. \A f \in Directory!Injections, t \in Targets : f[t] \in Sources
  BY DEF Directory!Injections
<1>2. ASSUME NEW T \in SUBSET Targets, NEW f \in Directory!Injections
      PROVE  [n \in Directory!Names |-> IF n \in T THEN f[n] ELSE None]
               \in [Directory!Names -> Sources \cup {None}]
  BY <1>1
<1>3. ASSUME NEW s \in Sources
      PROVE  [n \in Directory!Names |-> IF n = "legacy" THEN s ELSE None]
               \in [Directory!Names -> Sources \cup {None}]
  OBVIOUS
<1>4. Directory!Off \in [Directory!Names -> Sources \cup {None}]
  BY DEF Directory!Off
<1> QED BY <1>2, <1>3, <1>4 DEF Directory!Configs

(* A legacy mapper alone is a whole configuration, and so is none.          *)
LEMMA LegacyIsWhole ==
  ASSUME NEW m \in [Directory!Names -> Sources \cup {None}], Directory!OnlyLegacy(m)
  PROVE  m \in Directory!Configs \cup {Directory!Off}
<1>1. \A n \in Directory!Names : n # "legacy" => m[n] = None
  BY DEF Directory!OnlyLegacy, Directory!Names
<1>2. CASE m["legacy"] = None
  <2>1. m = [n \in Directory!Names |-> None]
    BY <1>1, <1>2
  <2> QED BY <2>1 DEF Directory!Off
<1>3. CASE m["legacy"] # None
  <2>1. "legacy" \in Directory!Names
    BY DEF Directory!Names
  <2>2. m["legacy"] \in Sources
    BY <1>3, <2>1
  <2>3. m = [n \in Directory!Names |-> IF n = "legacy" THEN m["legacy"] ELSE None]
    BY <1>1, <2>1
  <2> QED BY <2>2, <2>3 DEF Directory!Configs
<1> QED BY <1>2, <1>3

(* The provider is there whole, disabled, or not at all.                    *)
LEMMA DirectoryInit == Directory!Init => Directory!IInv
<1> SUFFICES ASSUME Directory!Init PROVE Directory!IInv OBVIOUS
<1>1. 0 \in 0..DirectoryRuns /\ 0 \in 0..DirectoryEdits
  BY DirectoryAssumption DEF Directory!DirectoryAssumption
<1>2. Directory!Off \in [Directory!Names -> Sources \cup {None}]
  BY ConfigsAreMappers
<1>3. Directory!TypeOK
  BY <1>1, <1>2 DEF Directory!Init, Directory!TypeOK, Directory!Idle, Directory!Absent
<1>4. Directory!AsRead /\ Directory!Gated /\ Directory!Caught
  BY DEF Directory!Init, Directory!Idle, Directory!Absent, Directory!AsRead, Directory!Gated,
     Directory!Caught, Directory!At, Directory!Writing
<1> QED BY <1>3, <1>4 DEF Directory!IInv

(* The record of a run of the reconciler.                                    *)
DirectoryRun ==
  [step : {"idle", "read", "off", "verify", "owned", "provider", "delete", "upsert", "sync",
           "groups", "remaining", "activate", "close"},
   seen : [exists : BOOLEAN, subtype : {"none", "managed", "pending"}, enabled : BOOLEAN],
   gated : BOOLEAN, todo : SUBSET Directory!Names]

LEMMA DirectoryRunTells ==
  ASSUME Directory!IInv
  PROVE  /\ s5 \in DirectoryRun
         /\ s1 \in [exists : BOOLEAN, subtype : {"none", "managed", "pending"}, enabled : BOOLEAN]
  BY DEF Directory!IInv, Directory!TypeOK, DirectoryRun

(* What the end of a run leaves.                                            *)
LEMMA DirectoryEndKeeps ==
  ASSUME Directory!IInv, NEW word, Directory!End(word), UNCHANGED <<s1, s2, s3, s4, s7, s9>>,
         word \in {"disabled", "failed", "review"}
  PROVE  Directory!IInv'
<1>1. s5' = Directory!Idle /\ s6' = word /\ s8' = s8
  BY DEF Directory!End
<1>2. s5'.step = "idle"
  BY <1>1 DEF Directory!Idle
<1>3. Directory!TypeOK'
  BY <1>1 DEF Directory!IInv, Directory!TypeOK, Directory!Idle, Directory!Absent
<1>4. Directory!AsRead' /\ Directory!Gated'
  BY <1>2 DEF Directory!IInv, Directory!AsRead, Directory!Gated, Directory!At, Directory!Writing
<1>5. Directory!Caught'
  BY <1>1, <1>2 DEF Directory!IInv, Directory!Caught, Directory!At
<1> QED BY <1>3, <1>4, <1>5 DEF Directory!IInv

(* A run starts with its own configuration and is told nothing.             *)
LEMMA DirectoryStartKeeps ==
  ASSUME Directory!IInv, NEW c \in Directory!Configs \cup {Directory!Off}, Directory!Start(c)
  PROVE  Directory!IInv'
<1>1. s5' = [step |-> "read", seen |-> Directory!Absent, gated |-> FALSE, todo |-> {}]
  BY DEF Directory!Start, Directory!Idle
<1>2. s8' \in 0..DirectoryRuns
  BY DirectoryAssumption
    DEF Directory!IInv, Directory!TypeOK, Directory!Start, Directory!DirectoryAssumption
<1>6. /\ UNCHANGED <<s1, s2, s3, s7, s9>> /\ s6' = "nothing"
      /\ s4' = c
  BY DEF Directory!Start, Directory!keycloakVars
<1>3. Directory!TypeOK'
  BY <1>1, <1>2, <1>6 DEF Directory!IInv, Directory!TypeOK, Directory!Absent
<1>4. Directory!AsRead' /\ Directory!Gated'
  BY <1>1
    DEF Directory!IInv, Directory!AsRead, Directory!Gated, Directory!At, Directory!Writing,
     Directory!Start, Directory!keycloakVars
<1>5. Directory!Caught'
  BY <1>1
    DEF Directory!IInv, Directory!Caught, Directory!At, Directory!Start, Directory!keycloakVars
<1> QED BY <1>3, <1>4, <1>5 DEF Directory!IInv

(* What is read of the provider is what it is.                              *)
LEMMA DirectoryReadProviderKeeps ==
  ASSUME Directory!IInv, Directory!ReadProvider
  PROVE  Directory!IInv'
<1>1. CASE Directory!End("disabled")
  BY <1>1, DirectoryEndKeeps
    DEF Directory!ReadProvider, Directory!keycloakVars, Directory!worldVars
<1>2. CASE /\ UNCHANGED <<s6, s8>>
           /\ \/ s5' = [s5 EXCEPT !.step = "verify", !.seen = s1] /\ s4 # Directory!Off
              \/ s5' = [s5 EXCEPT !.step = "off", !.seen = s1]
  <2>1. /\ s5'.step \in {"verify", "off"} /\ s5'.seen = s1
        /\ s5'.step = "verify" => s4 # Directory!Off
    BY ONLY <1>2, DirectoryRunTells, Directory!IInv DEF DirectoryRun
  <2>2. Directory!TypeOK'
    <3>1. s5' \in DirectoryRun
      BY ONLY <1>2, DirectoryRunTells, Directory!IInv DEF DirectoryRun
    <3>2. UNCHANGED <<s1, s2, s3, s4, s7, s9>>
      BY DEF Directory!ReadProvider, Directory!keycloakVars, Directory!worldVars
    <3> QED BY <1>2, <3>1, <3>2 DEF Directory!IInv, Directory!TypeOK, DirectoryRun
  <2>3. Directory!AsRead'
    BY <1>2, <2>1
      DEF Directory!IInv, Directory!AsRead, Directory!At, Directory!ReadProvider,
       Directory!keycloakVars, Directory!worldVars
  <2>4. Directory!Gated' /\ Directory!Caught'
    BY <1>2, <2>1
      DEF Directory!IInv, Directory!Gated, Directory!Caught, Directory!At, Directory!Writing,
       Directory!ReadProvider, Directory!keycloakVars, Directory!worldVars
  <2> QED BY <2>2, <2>3, <2>4 DEF Directory!IInv
<1> QED BY <1>1, <1>2 DEF Directory!ReadProvider

(* Disabling a provider exposes nothing.                                    *)
LEMMA DirectorySwitchOffKeeps == ASSUME Directory!IInv, Directory!SwitchOff PROVE Directory!IInv'
<1>1. UNCHANGED <<s2, s3, s4, s7, s9>>
  BY DEF Directory!SwitchOff, Directory!worldVars, Directory!Write, Directory!keycloakVars
<1>2. s1' = s1 \/ s1' = [s1 EXCEPT !.enabled = FALSE]
  BY DEF Directory!SwitchOff, Directory!Write, Directory!keycloakVars, Directory!IInv,
     Directory!AsRead, Directory!At
<1>3. Directory!End("disabled") \/ Directory!End("failed")
  BY DEF Directory!SwitchOff, Directory!Write, Directory!Fails, Directory!At
<1>4. s5' = Directory!Idle /\ s6' \in {"disabled", "failed"} /\ s8' = s8
  BY <1>3 DEF Directory!End
<1>5. s5'.step = "idle"
  BY <1>4 DEF Directory!Idle
<1>6. /\ s1' \in [exists : BOOLEAN, subtype : {"none", "managed", "pending"}, enabled : BOOLEAN]
      /\ s1'.exists = s1.exists /\ s1'.subtype = s1.subtype
      /\ s1'.enabled => s1.enabled
  BY <1>2 DEF Directory!IInv, Directory!TypeOK
<1>7. Directory!TypeOK'
  BY <1>1, <1>4, <1>6 DEF Directory!IInv, Directory!TypeOK, Directory!Idle, Directory!Absent
<1>8. ~s1.exists => s1' = Directory!Absent
  BY <1>2 DEF Directory!IInv, Directory!AsRead, Directory!Absent
<1>9. Directory!AsRead'
  BY <1>1, <1>4, <1>5, <1>6, <1>8 DEF Directory!IInv, Directory!AsRead, Directory!At
<1>10. Directory!Gated' /\ Directory!Caught'
  BY <1>1, <1>4, <1>5, <1>6
    DEF Directory!IInv, Directory!Gated, Directory!Caught, Directory!At, Directory!Writing
<1> QED BY <1>7, <1>9, <1>10 DEF Directory!IInv

(* The checks change nothing.                                               *)
LEMMA DirectoryVerifyKeeps == ASSUME Directory!IInv, Directory!Verify PROVE Directory!IInv'
<1>1. CASE Directory!End("failed")
  BY <1>1, DirectoryEndKeeps DEF Directory!Verify, Directory!keycloakVars, Directory!worldVars
<1>2. CASE Directory!To("owned")
  <2>1. s5' = [s5 EXCEPT !.step = "owned"] /\ UNCHANGED <<s6, s8>>
    BY <1>2 DEF Directory!To
  <2>2. s5'.step = "owned" /\ s5'.seen = s5.seen
    BY <2>1 DEF Directory!IInv, Directory!TypeOK
  <2>3. Directory!TypeOK'
    BY <2>1
      DEF Directory!IInv, Directory!TypeOK, Directory!Verify, Directory!keycloakVars,
       Directory!worldVars
  <2>4. Directory!AsRead'
    BY <2>1, <2>2
      DEF Directory!IInv, Directory!AsRead, Directory!At, Directory!Verify,
       Directory!keycloakVars, Directory!worldVars
  <2>5. Directory!Gated' /\ Directory!Caught'
    BY <2>1, <2>2
      DEF Directory!IInv, Directory!Gated, Directory!Caught, Directory!At, Directory!Writing,
       Directory!Verify, Directory!keycloakVars, Directory!worldVars
  <2> QED BY <2>3, <2>4, <2>5 DEF Directory!IInv
<1> QED BY <1>1, <1>2 DEF Directory!Verify

(* Without a transition there are none but legacy mappers.                  *)
LEMMA NoTransition ==
  ASSUME Directory!IInv, NEW owned, owned = IF s5.seen.exists THEN Directory!Present ELSE {},
         Directory!At("owned"),
         ~Directory!Transition(owned)
  PROVE  s1.subtype # "pending" /\ Directory!OnlyLegacy(s4) /\ Directory!OnlyLegacy(s2)
<1>1. s5.seen = s1
  BY DEF Directory!IInv, Directory!AsRead, Directory!At
<1>2. s1.subtype # "pending" /\ owned \subseteq {"legacy"}
  BY <1>1 DEF Directory!Transition
<1>3. Directory!OnlyLegacy(s4)
  BY DEF Directory!Transition, Directory!IsMapping, Directory!OnlyLegacy
<1>4. CASE s1.exists
  <2>1. \A n \in Directory!Names : n # "legacy" => s2[n] = None
    BY <1>1, <1>2, <1>4 DEF Directory!Present
  <2> QED BY <1>2, <1>3, <2>1, DirectoryAssumption
            DEF Directory!OnlyLegacy, Directory!Names, Directory!DirectoryAssumption
<1>5. CASE ~s1.exists
  <2>1. s2 = Directory!Off
    BY <1>5 DEF Directory!IInv, Directory!AsRead
  <2> QED BY <1>2, <1>3, <2>1 DEF Directory!OnlyLegacy, Directory!Off, Directory!Names
<1> QED BY <1>4, <1>5

(* Whether a transition is due is decided by what is there.                 *)
LEMMA DirectoryReadOwnedKeeps == ASSUME Directory!IInv, Directory!ReadOwned PROVE Directory!IInv'
<1> DEFINE owned == IF s5.seen.exists THEN Directory!Present ELSE {}
<1>1. CASE Directory!End("failed")
  BY <1>1, DirectoryEndKeeps DEF Directory!ReadOwned, Directory!keycloakVars, Directory!worldVars
<1>2. CASE ~Directory!End("failed")
  <2>1. /\ Directory!At("owned") /\ UNCHANGED <<s1, s2, s3, s4, s7, s9, s6, s8>>
        /\ s5' = [s5 EXCEPT !.step = "provider", !.gated = Directory!Transition(owned),
                              !.todo = owned \ Directory!Declared]
    BY <1>2 DEF Directory!ReadOwned, Directory!keycloakVars, Directory!worldVars
  <2>2. owned \ Directory!Declared \in SUBSET Directory!Names
    BY DEF Directory!Present
  <2>3. Directory!Transition(owned) \in BOOLEAN
    BY DEF Directory!Transition, Directory!IsMapping
  <2>4. s5'.step = "provider" /\ s5'.seen = s5.seen /\ s5'.gated = Directory!Transition(owned)
    BY ONLY <2>1, DirectoryRunTells, Directory!IInv DEF DirectoryRun
  <2>5. Directory!TypeOK'
    <3>1. s5' \in DirectoryRun
      BY ONLY <2>1, <2>2, <2>3, DirectoryRunTells, Directory!IInv DEF DirectoryRun
    <3> QED BY <2>1, <3>1 DEF Directory!IInv, Directory!TypeOK, DirectoryRun
  <2>6. ~s5'.gated => s1.subtype # "pending" /\ Directory!OnlyLegacy(s4)
          /\ Directory!OnlyLegacy(s2)
    BY <2>1, <2>4, NoTransition
  <2>7. Directory!AsRead'
    BY <2>1, <2>4 DEF Directory!IInv, Directory!AsRead, Directory!At
  <2>8. Directory!Gated'
    BY <2>1, <2>4, <2>6 DEF Directory!Gated, Directory!At, Directory!Writing, Directory!OnlyLegacy
  <2>9. Directory!Caught'
    BY <2>1, <2>4 DEF Directory!IInv, Directory!Caught, Directory!At
  <2> QED BY <2>5, <2>7, <2>8, <2>9 DEF Directory!IInv
<1> QED BY <1>1, <1>2

(* In a transition the provider is closed before a mapper changes; without one*)
(* the mappers are whole as they stand.                                     *)
LEMMA DirectoryWriteProviderKeeps ==
  ASSUME Directory!IInv, Directory!WriteProvider
  PROVE  Directory!IInv'
<1>1. /\ Directory!At("provider") /\ UNCHANGED <<s3, s4, s9, s8>> /\ s5.seen = s1
      /\ s2' = s2 /\ s7' = (s7 /\ s1' # Directory!Closed)
  BY DEF Directory!WriteProvider, Directory!Write, Directory!keycloakVars, Directory!IInv,
     Directory!AsRead, Directory!To, Directory!Fails, Directory!End, Directory!At
<1>2. /\ Directory!Closed
           \in [exists : BOOLEAN, subtype : {"none", "managed", "pending"}, enabled : BOOLEAN]
      /\ Directory!Closed.exists /\ Directory!Closed.subtype = "pending"
      /\ ~Directory!Closed.enabled
  BY DEF Directory!Closed
<1> DEFINE Open == [exists |-> TRUE, subtype |-> s1.subtype, enabled |-> TRUE]
<1>3. /\ Open \in [exists : BOOLEAN, subtype : {"none", "managed", "pending"}, enabled : BOOLEAN]
      /\ Open.exists /\ Open.subtype = s1.subtype /\ Open.enabled
  BY DEF Directory!IInv, Directory!TypeOK
<1>4. s1' \in {s1, IF s5.gated THEN Directory!Closed ELSE Open}
  BY <1>1 DEF Directory!WriteProvider, Directory!Write, Directory!keycloakVars
<1>5. /\ ~s5.gated => /\ s1.subtype # "pending" /\ Directory!OnlyLegacy(s4)
                      /\ s7 \/ Directory!OnlyLegacy(s2)
      /\ s6 = "nothing" /\ s4 # Directory!Off
  BY <1>1 DEF Directory!IInv, Directory!Gated, Directory!AsRead, Directory!At, Directory!Writing
<1>6. ~s7' /\ s1'.subtype # "pending" => s2 \in Directory!Configs \cup {Directory!Off}
  <2>1. ~s7 /\ s1.subtype # "pending" => s2 \in Directory!Configs \cup {Directory!Off}
    BY DEF Directory!IInv, Directory!Caught
  <2> QED BY <1>1, <1>2, <1>3, <1>4, <2>1
<1>7. CASE Directory!To("delete") /\ s1' = IF s5.gated THEN Directory!Closed ELSE Open
  <2>1. s5' = [s5 EXCEPT !.step = "delete"] /\ s6' = s6
    BY <1>7 DEF Directory!To
  <2>2. s5'.step = "delete" /\ s5'.gated = s5.gated
    BY <2>1 DEF Directory!IInv, Directory!TypeOK
  <2>3. Directory!TypeOK'
    BY <1>1, <1>2, <1>3, <1>7, <2>1 DEF Directory!IInv, Directory!TypeOK
  <2>4. Directory!AsRead'
    BY <1>1, <1>2, <1>3, <1>5, <1>7, <2>1, <2>2 DEF Directory!AsRead, Directory!At
  <2>5. Directory!Gated'
    BY <1>1, <1>2, <1>3, <1>5, <1>7, <2>2
      DEF Directory!Gated, Directory!At, Directory!Writing, Directory!OnlyLegacy
  <2>6. Directory!Caught'
    BY <1>1, <1>5, <1>6, <2>1, <2>2 DEF Directory!Caught, Directory!At
  <2> QED BY <2>3, <2>4, <2>5, <2>6 DEF Directory!IInv
<1>8. CASE Directory!Fails
  <2>1. s5' = Directory!Idle /\ s6' = "failed"
    BY <1>1, <1>8 DEF Directory!Fails, Directory!At, Directory!End
  <2>2. s5'.step = "idle"
    BY <2>1 DEF Directory!Idle
  <2>3. Directory!TypeOK'
    BY <1>1, <1>2, <1>3, <1>4, <2>1
      DEF Directory!IInv, Directory!TypeOK, Directory!Idle, Directory!Absent
  <2>4. Directory!AsRead'
    BY <1>1, <1>2, <1>3, <1>4, <1>5, <2>2 DEF Directory!IInv, Directory!AsRead, Directory!At
  <2>5. Directory!Gated'
    BY <2>2 DEF Directory!Gated, Directory!At, Directory!Writing
  <2>6. Directory!Caught'
    BY <1>1, <1>6, <2>1, <2>2 DEF Directory!Caught, Directory!At
  <2> QED BY <2>3, <2>4, <2>5, <2>6 DEF Directory!IInv
<1> QED BY <1>1, <1>7, <1>8 DEF Directory!WriteProvider, Directory!Write

(* While mappers change, so does nothing else.                              *)
LEMMA DirectoryStepKeeps ==
  ASSUME Directory!IInv, UNCHANGED <<s1, s3, s4, s7, s9, s6, s8>>,
         s2' \in [Directory!Names -> Sources \cup {None}],
         s5.step \in {"delete", "upsert"}, NEW s \in {s5.step, "upsert", "sync"},
         NEW t \in SUBSET Directory!Names, s5' = [s5 EXCEPT !.step = s, !.todo = t],
         ~s5.gated /\ Directory!OnlyLegacy(s2) => Directory!OnlyLegacy(s2'),
         s = "upsert" /\ ~s7 => \A n \in Directory!Declared \ t : s2'[n] = s4[n],
         s = "sync" /\ ~s7 => \A n \in Directory!Declared : s2'[n] = s4[n]
  PROVE  Directory!IInv'
<1>2. s5' = [step |-> s, seen |-> s5.seen, gated |-> s5.gated, todo |-> t]
  BY DEF Directory!IInv, Directory!TypeOK
<1>3. Directory!TypeOK'
  BY <1>2 DEF Directory!IInv, Directory!TypeOK
<1>4. s1.exists /\ (s5.gated => s1 = Directory!Closed)
      /\ (~s5.gated => Directory!OnlyLegacy(s4) /\ s1.enabled /\ (s7 \/ Directory!OnlyLegacy(s2)))
  BY DEF Directory!IInv, Directory!Gated, Directory!Writing
<1>5. Directory!AsRead'
  BY <1>2, <1>4 DEF Directory!IInv, Directory!AsRead, Directory!At
<1>6. Directory!Gated'
  BY <1>2, <1>4 DEF Directory!Gated, Directory!At, Directory!Writing, Directory!OnlyLegacy
<1>7. ~s7' /\ s1'.subtype # "pending" => s2' \in Directory!Configs \cup {Directory!Off}
  <2>1. Directory!Closed.subtype = "pending"
    BY DEF Directory!Closed
  <2> QED BY <1>4, <2>1, LegacyIsWhole
<1>8. s6' # "enabled"
  BY DEF Directory!IInv, Directory!AsRead, Directory!At
<1>9. Directory!Declared' = Directory!Declared
  BY DEF Directory!Declared
<1>10. Directory!Caught'
  BY <1>2, <1>7, <1>8, <1>9 DEF Directory!Caught, Directory!At
<1> QED BY <1>3, <1>5, <1>6, <1>10 DEF Directory!IInv

(* A run that fails among its mappers.                                      *)
LEMMA DirectoryFailKeeps ==
  ASSUME Directory!IInv, UNCHANGED <<s1, s3, s4, s7, s9, s8>>,
         s2' \in [Directory!Names -> Sources \cup {None}],
         s5.step \in {"delete", "upsert"}, s5' = Directory!Idle, s6' = "failed",
         ~s5.gated /\ Directory!OnlyLegacy(s2) => Directory!OnlyLegacy(s2')
  PROVE  Directory!IInv'
<1>1. s5'.step = "idle"
  BY DEF Directory!Idle
<1>2. Directory!TypeOK'
  BY DEF Directory!IInv, Directory!TypeOK, Directory!Idle, Directory!Absent
<1>3. s1.exists /\ (s5.gated => s1 = Directory!Closed)
      /\ (~s5.gated => s7 \/ Directory!OnlyLegacy(s2))
  BY DEF Directory!IInv, Directory!Gated, Directory!Writing
<1>4. Directory!AsRead' /\ Directory!Gated'
  BY <1>1, <1>3
    DEF Directory!IInv, Directory!AsRead, Directory!Gated, Directory!At, Directory!Writing
<1>5. Directory!Closed.subtype = "pending"
  BY DEF Directory!Closed
<1>6. Directory!Caught'
  BY <1>1, <1>3, <1>5, LegacyIsWhole DEF Directory!Caught, Directory!At
<1> QED BY <1>2, <1>4, <1>6 DEF Directory!IInv

(* Only mappers of a closed provider go, or the legacy one.                 *)
LEMMA DirectoryDeleteKeeps ==
  ASSUME Directory!IInv, NEW n \in Directory!Names, Directory!Delete(n)
  PROVE  Directory!IInv'
<1>1. Directory!At("delete") /\ UNCHANGED <<s1, s3, s4, s7, s9>>
      /\ s2' \in {s2, [s2 EXCEPT ![n] = None]}
  BY DEF Directory!Delete, Directory!Write, Directory!worldVars, Directory!keycloakVars
<1>2. s2' \in [Directory!Names -> Sources \cup {None}]
      /\ (Directory!OnlyLegacy(s2) => Directory!OnlyLegacy(s2'))
  BY <1>1 DEF Directory!IInv, Directory!TypeOK, Directory!OnlyLegacy, Directory!Names
<1>3. CASE Directory!Then("delete", s5.todo \ {n})
  <2>1. s5' = [s5 EXCEPT !.step = "delete", !.todo = s5.todo \ {n}] /\ UNCHANGED <<s6, s8>>
    BY <1>3 DEF Directory!Then
  <2>2. s5.todo \ {n} \in SUBSET Directory!Names /\ s5.step = "delete"
    BY <1>1 DEF Directory!IInv, Directory!TypeOK, Directory!At
  <2> QED BY <1>1, <1>2, <2>1, <2>2, DirectoryStepKeeps
<1>4. CASE Directory!Fails
  <2>1. s5' = Directory!Idle /\ s6' = "failed" /\ s8' = s8
    BY <1>1, <1>4 DEF Directory!Fails, Directory!At, Directory!End
  <2> QED BY <1>1, <1>2, <2>1, DirectoryFailKeeps DEF Directory!At
<1> QED BY <1>1, <1>3, <1>4 DEF Directory!Delete, Directory!Write

(* Nothing is left but what was declared.                                   *)
LEMMA DirectoryDeletedKeeps == ASSUME Directory!IInv, Directory!Deleted PROVE Directory!IInv'
<1>1. /\ Directory!At("delete") /\ UNCHANGED <<s1, s2, s3, s4, s7, s9, s6, s8>>
      /\ s5' = [s5 EXCEPT !.step = "upsert", !.todo = Directory!Declared]
  BY DEF Directory!Deleted, Directory!Then, Directory!worldVars, Directory!keycloakVars
<1>2. Directory!Declared \in SUBSET Directory!Names
  BY DEF Directory!Declared
<1>3. s2' \in [Directory!Names -> Sources \cup {None}]
  BY <1>1 DEF Directory!IInv, Directory!TypeOK
<1> QED BY <1>1, <1>2, <1>3, DirectoryStepKeeps DEF Directory!At

(* One mapper more is as it was declared.                                   *)
LEMMA DirectoryUpsertKeeps ==
  ASSUME Directory!IInv, NEW n \in Directory!Names, Directory!Upsert(n)
  PROVE  Directory!IInv'
<1>1. Directory!At("upsert") /\ UNCHANGED <<s1, s3, s4, s7, s9>>
      /\ s2' \in {s2, [s2 EXCEPT ![n] = s4[n]]}
  BY DEF Directory!Upsert, Directory!Write, Directory!worldVars, Directory!keycloakVars
<1>2. s4 \in [Directory!Names -> Sources \cup {None}]
  BY ConfigsAreMappers DEF Directory!IInv, Directory!TypeOK
<1>3. /\ s2' \in [Directory!Names -> Sources \cup {None}]
      /\ Directory!OnlyLegacy(s4) /\ Directory!OnlyLegacy(s2) => Directory!OnlyLegacy(s2')
  BY <1>1, <1>2 DEF Directory!IInv, Directory!TypeOK, Directory!OnlyLegacy, Directory!Names
<1>4. ~s5.gated => Directory!OnlyLegacy(s4)
  BY <1>1 DEF Directory!IInv, Directory!Gated, Directory!At, Directory!Writing
<1>5. CASE /\ Directory!Then("upsert", s5.todo \ {n})
           /\ s2' = [s2 EXCEPT ![n] = s4[n]]
  <2>1. s5' = [s5 EXCEPT !.step = "upsert", !.todo = s5.todo \ {n}] /\ UNCHANGED <<s6, s8>>
    BY <1>5 DEF Directory!Then
  <2>2. s5.todo \ {n} \in SUBSET Directory!Names /\ s5.step = "upsert"
        /\ s2 \in [Directory!Names -> Sources \cup {None}]
    BY <1>1 DEF Directory!IInv, Directory!TypeOK, Directory!At
  <2>4. ~s7 => \A k \in Directory!Declared \ s5.todo : s2[k] = s4[k]
    BY <1>1 DEF Directory!IInv, Directory!Caught
  <2>5. ~s7 => \A k \in Directory!Declared \ (s5.todo \ {n}) : s2'[k] = s4[k]
    BY <1>5, <2>2, <2>4 DEF Directory!Declared
  <2> QED BY <1>1, <1>3, <1>4, <2>1, <2>2, <2>5, DirectoryStepKeeps
<1>6. CASE Directory!Fails
  <2>1. s5' = Directory!Idle /\ s6' = "failed" /\ s8' = s8
    BY <1>1, <1>6 DEF Directory!Fails, Directory!At, Directory!End
  <2> QED BY <1>1, <1>3, <1>4, <2>1, DirectoryFailKeeps DEF Directory!At
<1> QED BY <1>1, <1>5, <1>6 DEF Directory!Upsert, Directory!Write

(* All mappers are as they were declared.                                   *)
LEMMA DirectoryUpsertedKeeps == ASSUME Directory!IInv, Directory!Upserted PROVE Directory!IInv'
<1>1. /\ Directory!At("upsert") /\ UNCHANGED <<s1, s2, s3, s4, s7, s9, s6, s8>>
      /\ s5.todo = {} /\ s5' = [s5 EXCEPT !.step = "sync", !.todo = Directory!Declared]
  BY DEF Directory!Upserted, Directory!Then, Directory!worldVars, Directory!keycloakVars
<1>2. Directory!Declared \in SUBSET Directory!Names
  BY DEF Directory!Declared
<1>3. s2' \in [Directory!Names -> Sources \cup {None}]
  BY <1>1 DEF Directory!IInv, Directory!TypeOK
<1>4. ~s7 => \A k \in Directory!Declared \ s5.todo : s2[k] = s4[k]
  BY <1>1 DEF Directory!IInv, Directory!Caught
<1> QED BY <1>1, <1>2, <1>3, <1>4, DirectoryStepKeeps DEF Directory!At

(* Steps of a run that change nothing else.                                 *)
LEMMA DirectoryPassKeeps ==
  ASSUME Directory!IInv, UNCHANGED <<s1, s2, s3, s4, s7, s9, s6, s8>>,
         NEW s \in {"sync", "remaining", "activate", "close"}, NEW t \in SUBSET Directory!Names,
         s5' = [s5 EXCEPT !.step = s, !.todo = t],
         s5.step \in {"sync", "remaining", "activate"},
         s = "sync" => s5.step = "sync",
         s = "remaining" => s5.step = "sync" /\ s5.gated,
         s = "activate" => s5.step = "remaining" /\ (s7 \/ s2 = s4),
         s = "close" => s5.step = "activate"
  PROVE  Directory!IInv'
<1>1. s5' \in [step : {s}, seen : {s5.seen}, gated : {s5.gated}, todo : SUBSET Directory!Names]
  BY DEF Directory!IInv, Directory!TypeOK
<1>2. Directory!TypeOK'
  BY <1>1 DEF Directory!IInv, Directory!TypeOK
<1>3. Directory!AsRead'
  BY <1>1 DEF Directory!IInv, Directory!AsRead, Directory!At
<1>4. Directory!Gated'
  BY <1>1
    DEF Directory!IInv, Directory!Gated, Directory!At, Directory!Writing, Directory!OnlyLegacy
<1>5. Directory!Declared' = Directory!Declared
  BY DEF Directory!Declared
<1>6. Directory!Caught'
  BY <1>1, <1>5 DEF Directory!IInv, Directory!Caught, Directory!At
<1> QED BY <1>2, <1>3, <1>4, <1>6 DEF Directory!IInv

(* A synchronisation changes no mapper.                                     *)
LEMMA DirectorySyncKeeps ==
  ASSUME Directory!IInv, NEW n \in Directory!Names, Directory!Sync(n)
  PROVE  Directory!IInv'
<1>1. CASE Directory!End("failed")
  BY <1>1, DirectoryEndKeeps DEF Directory!Sync, Directory!keycloakVars, Directory!worldVars
<1>2. CASE Directory!Then("sync", s5.todo \ {n})
  <2>1. s5' = [s5 EXCEPT !.step = "sync", !.todo = s5.todo \ {n}] /\ UNCHANGED <<s6, s8>>
    BY <1>2 DEF Directory!Then
  <2>2. s5.todo \ {n} \in SUBSET Directory!Names /\ s5.step = "sync"
    BY DEF Directory!Sync, Directory!IInv, Directory!TypeOK, Directory!At
  <2> QED BY <2>1, <2>2, DirectoryPassKeeps
            DEF Directory!Sync, Directory!keycloakVars, Directory!worldVars
<1> QED BY <1>1, <1>2 DEF Directory!Sync

(* A mapper that has what was declared and nothing else is the declared one. *)
LEMMA DeclaredIsAll ==
  ASSUME Directory!TypeOK, \A n \in Directory!Declared : s2[n] = s4[n],
         Directory!Present = Directory!Declared
  PROVE  s2 = s4
<1>1. s4 \in [Directory!Names -> Sources \cup {None}]
      /\ s2 \in [Directory!Names -> Sources \cup {None}]
  BY ConfigsAreMappers DEF Directory!TypeOK
<1>2. \A n \in Directory!Names : s2[n] = s4[n]
  BY DEF Directory!Present, Directory!Declared
<1> QED BY <1>1, <1>2

(* The declared mappers have been read again; nothing changes.              *)
LEMMA DirectoryVerifyGroupsKeeps ==
  ASSUME Directory!IInv, Directory!VerifyGroups
  PROVE  Directory!IInv'
<1>1. Directory!At("sync") /\ UNCHANGED <<s1, s2, s3, s4, s7, s9>>
  BY DEF Directory!VerifyGroups, Directory!keycloakVars, Directory!worldVars
<1>2. CASE Directory!End("failed")
  BY <1>1, <1>2, DirectoryEndKeeps
<1>3. CASE s5.gated /\ Directory!To("remaining")
  <2>1. s5' = [s5 EXCEPT !.step = "remaining", !.todo = s5.todo] /\ UNCHANGED <<s6, s8>>
    BY <1>3 DEF Directory!To, Directory!IInv, Directory!TypeOK
  <2>2. s5.todo \in SUBSET Directory!Names
    BY DEF Directory!IInv, Directory!TypeOK
  <2> QED BY <1>1, <1>3, <2>1, <2>2, DirectoryPassKeeps DEF Directory!At
<1>4. CASE ~s5.gated /\ Directory!End("enabled")
  <2>1. s1.enabled /\ s1.exists /\ Directory!OnlyLegacy(s4) /\ (s7 \/ Directory!OnlyLegacy(s2))
    BY <1>1, <1>4 DEF Directory!IInv, Directory!Gated, Directory!At, Directory!Writing
  <2>2. ~s7 => \A n \in Directory!Declared : s2[n] = s4[n]
    BY <1>1 DEF Directory!IInv, Directory!Caught, Directory!At
  <2>3. ~s7 => s2 = s4
    <3> SUFFICES ASSUME ~s7 PROVE Directory!Present = Directory!Declared
      BY <2>2, DeclaredIsAll DEF Directory!IInv
    <3>1. s4 \in [Directory!Names -> Sources \cup {None}]
          /\ s2 \in [Directory!Names -> Sources \cup {None}]
      BY ConfigsAreMappers DEF Directory!IInv, Directory!TypeOK
    <3>2. Directory!Declared \subseteq {"legacy"} /\ Directory!Present \subseteq {"legacy"}
      BY <2>1 DEF Directory!Declared, Directory!Present, Directory!OnlyLegacy, Directory!Names
    <3>3. s4 # Directory!Off
      BY <1>1 DEF Directory!IInv, Directory!AsRead, Directory!At
    <3>4. "legacy" \in Directory!Declared
      <4>1. ASSUME s4["legacy"] = None PROVE \A n \in Directory!Names : s4[n] = None
        BY <2>1, <4>1 DEF Directory!OnlyLegacy, Directory!Names
      <4>2. s4["legacy"] # None
        BY <3>1, <3>3, <4>1 DEF Directory!Off
      <4> QED BY <4>2 DEF Directory!Declared, Directory!Names
    <3>5. "legacy" \in Directory!Present
      <4>1. s2["legacy"] = s4["legacy"]
        BY <2>2, <3>4
      <4> QED BY <3>4, <4>1 DEF Directory!Present, Directory!Declared
    <3>6. Directory!Declared = {"legacy"} /\ Directory!Present = {"legacy"}
      BY <3>2, <3>4, <3>5
    <3> QED BY <3>6
  <2>4. s5' = Directory!Idle /\ s6' = "enabled" /\ s8' = s8 /\ Directory!Idle.step = "idle"
    BY <1>4 DEF Directory!End, Directory!Idle
  <2>5. Directory!TypeOK'
    BY <1>1, <2>4 DEF Directory!IInv, Directory!TypeOK, Directory!Idle, Directory!Absent
  <2>6. Directory!AsRead' /\ Directory!Gated'
    BY <1>1, <2>4
      DEF Directory!IInv, Directory!AsRead, Directory!Gated, Directory!At, Directory!Writing
  <2>7. Directory!Caught'
    BY <1>1, <2>1, <2>3, <2>4 DEF Directory!IInv, Directory!Caught, Directory!At
  <2> QED BY <2>5, <2>6, <2>7 DEF Directory!IInv
<1> QED BY <1>2, <1>3, <1>4 DEF Directory!VerifyGroups

(* With nothing but the declared mappers, they are the configuration.       *)
LEMMA DirectoryRemainingKeeps == ASSUME Directory!IInv, Directory!Remaining PROVE Directory!IInv'
<1>1. Directory!At("remaining") /\ UNCHANGED <<s1, s2, s3, s4, s7, s9>>
  BY DEF Directory!Remaining, Directory!keycloakVars, Directory!worldVars
<1>2. CASE Directory!End("failed")
  BY <1>1, <1>2, DirectoryEndKeeps
<1>3. CASE Directory!Present = Directory!Declared /\ Directory!To("activate")
  <2>1. s5' = [s5 EXCEPT !.step = "activate", !.todo = s5.todo] /\ UNCHANGED <<s6, s8>>
    BY <1>3 DEF Directory!To, Directory!IInv, Directory!TypeOK
  <2>2. s5.todo \in SUBSET Directory!Names
    BY DEF Directory!IInv, Directory!TypeOK
  <2>3. ~s7 => \A n \in Directory!Declared : s2[n] = s4[n]
    BY <1>1 DEF Directory!IInv, Directory!Caught, Directory!At
  <2>4. s7 \/ s2 = s4
    BY <1>3, <2>3, DeclaredIsAll DEF Directory!IInv
  <2> QED BY <1>1, <2>1, <2>2, <2>4, DirectoryPassKeeps DEF Directory!At
<1> QED BY <1>2, <1>3 DEF Directory!Remaining

(* The provider is activated, or its activation is undone.                  *)
LEMMA DirectoryLastKeeps ==
  ASSUME Directory!IInv, UNCHANGED <<s2, s3, s4, s7, s9, s8>>,
         s5.step \in {"activate", "close"},
         NEW s \in {"idle", "close"},
         s5' = IF s = "idle" THEN Directory!Idle ELSE [s5 EXCEPT !.step = s],
         s6' \in {"nothing", "enabled", "failed", "review"},
         s = "close" => s6' = "nothing",
         s1' \in {s1, Directory!Closed, [exists |-> TRUE, subtype |-> "managed",
         enabled |-> TRUE]},
         s6' = "enabled" => s1'.enabled
  PROVE  Directory!IInv'
<1>1. /\ s1' \in [exists : BOOLEAN, subtype : {"none", "managed", "pending"}, enabled : BOOLEAN]
      /\ s1'.exists /\ (s1'.subtype = "pending" => ~s1'.enabled)
  <2>1. s1.exists /\ (s1.subtype = "pending" => ~s1.enabled)
    BY DEF Directory!IInv, Directory!AsRead, Directory!Gated, Directory!At, Directory!Writing
  <2>2. s1 \in [exists : BOOLEAN, subtype : {"none", "managed", "pending"}, enabled : BOOLEAN]
    BY DEF Directory!IInv, Directory!TypeOK
  <2>3. CASE s1' = s1
    BY <2>1, <2>2, <2>3
  <2>4. CASE s1' = Directory!Closed
    BY <2>4 DEF Directory!Closed
  <2>5. CASE s1' = [exists |-> TRUE, subtype |-> "managed", enabled |-> TRUE]
    BY <2>5
  <2> QED BY <2>3, <2>4, <2>5
<1>2. s5' \in {Directory!Idle,
               [step |-> "close", seen |-> s5.seen, gated |-> s5.gated,
      todo |-> s5.todo]}
      /\ s5'.step = s
  BY DEF Directory!IInv, Directory!TypeOK, Directory!Idle
<1>3. Directory!TypeOK'
  BY <1>1, <1>2 DEF Directory!IInv, Directory!TypeOK, Directory!Idle, Directory!Absent
<1>4. Directory!AsRead'
  BY <1>1, <1>2 DEF Directory!IInv, Directory!AsRead, Directory!At
<1>5. s5.gated /\ (s = "close" => s5'.gated = s5.gated)
  BY <1>2 DEF Directory!IInv, Directory!Gated, Directory!Idle
<1>6. Directory!Gated'
  BY <1>1, <1>2, <1>5 DEF Directory!Gated, Directory!At, Directory!Writing
<1>7. ~s7 => s2 = s4
  BY DEF Directory!IInv, Directory!Caught
<1>8. s4 \in Directory!Configs \cup {Directory!Off}
  BY DEF Directory!IInv, Directory!TypeOK
<1>9. Directory!Caught'
  BY <1>2, <1>7, <1>8 DEF Directory!Caught, Directory!At
<1> QED BY <1>3, <1>4, <1>6, <1>9 DEF Directory!IInv

(* The provider is enabled with the configuration whole.                    *)
LEMMA DirectoryActivateKeeps == ASSUME Directory!IInv, Directory!Activate PROVE Directory!IInv'
<1>1. /\ Directory!At("activate") /\ UNCHANGED <<s2, s3, s4, s7, s9>>
      /\ s6 = "nothing"
  BY DEF Directory!Activate, Directory!Write, Directory!keycloakVars, Directory!worldVars,
     Directory!IInv, Directory!AsRead, Directory!At
<1> DEFINE Active == [exists |-> TRUE, subtype |-> "managed", enabled |-> TRUE]
<1>2. CASE s1' = Active /\ Directory!End("enabled")
  BY <1>1, <1>2, DirectoryLastKeeps DEF Directory!End, Directory!At
<1>3. CASE s1' \in {s1, Active} /\ Directory!To("close")
  BY <1>1, <1>3, DirectoryLastKeeps DEF Directory!To, Directory!At
<1>4. Directory!Fails => Directory!To("close")
  BY <1>1 DEF Directory!Fails, Directory!At
<1> QED BY <1>2, <1>3, <1>4 DEF Directory!Activate, Directory!Write, Directory!keycloakVars

(* A provider that is closed exposes nothing.                               *)
LEMMA DirectoryCloseKeeps == ASSUME Directory!IInv, Directory!Close PROVE Directory!IInv'
<1>1. Directory!At("close") /\ UNCHANGED <<s2, s3, s4, s7, s9>>
      /\ s1' \in {s1, Directory!Closed}
  BY DEF Directory!Close, Directory!Write, Directory!keycloakVars, Directory!worldVars
<1>2. CASE Directory!End("failed")
  BY <1>1, <1>2, DirectoryLastKeeps DEF Directory!End, Directory!At
<1>3. CASE Directory!End("review")
  BY <1>1, <1>3, DirectoryLastKeeps DEF Directory!End, Directory!At
<1>4. Directory!Fails => Directory!End("review")
  BY <1>1 DEF Directory!Fails, Directory!At
<1> QED BY <1>2, <1>3, <1>4 DEF Directory!Close, Directory!Write

(* A run may end at any step, and claims nothing then.                      *)
LEMMA DirectoryKilledKeeps == ASSUME Directory!IInv, Directory!Killed PROVE Directory!IInv'
  BY DirectoryEndKeeps DEF Directory!Killed, Directory!keycloakVars, Directory!worldVars

(* Administrators: nothing is claimed until the provider is closed again.   *)
LEMMA DirectoryTouchedKeeps ==
  ASSUME Directory!IInv, s1.exists, UNCHANGED <<s1, s4, s5, s6, s8>>, s7' = TRUE,
         s2' \in [Directory!Names -> Sources \cup {None}], s3' \in BOOLEAN, s9 < DirectoryEdits,
         s9' = s9 + 1
  PROVE  Directory!IInv'
<1>1. s9' \in 0..DirectoryEdits
  BY DirectoryAssumption DEF Directory!DirectoryAssumption, Directory!IInv, Directory!TypeOK
<1>2. Directory!TypeOK'
  BY <1>1 DEF Directory!IInv, Directory!TypeOK
<1>3. Directory!AsRead' /\ Directory!Gated' /\ Directory!Caught'
  BY DEF Directory!IInv, Directory!AsRead, Directory!Gated, Directory!Caught, Directory!At,
     Directory!Writing, Directory!OnlyLegacy
<1> QED BY <1>2, <1>3 DEF Directory!IInv

(* A mapper changed by hand is the administrator's.                         *)
LEMMA DirectoryChangeMapperKeeps ==
  ASSUME Directory!IInv, NEW n \in Directory!Names, NEW s \in Sources \cup {None},
         Directory!ChangeMapper(n, s)
  PROVE  Directory!IInv'
  BY DirectoryTouchedKeeps DEF Directory!ChangeMapper, Directory!IInv, Directory!TypeOK

(* Mappers of their own are none of the run's.                              *)
LEMMA DirectoryChangeManualKeeps ==
  ASSUME Directory!IInv, Directory!ChangeManual
  PROVE  Directory!IInv'
  BY DirectoryTouchedKeeps
    DEF Directory!ChangeManual, Directory!keycloakVars, Directory!IInv, Directory!TypeOK

(* Every step of the directory's runs and administrators.                   *)
LEMMA DirectoryNext == ASSUME Directory!IInv, Directory!Next PROVE Directory!IInv'
  BY DirectoryStartKeeps, DirectoryReadProviderKeeps, DirectorySwitchOffKeeps,
     DirectoryVerifyKeeps, DirectoryReadOwnedKeeps, DirectoryWriteProviderKeeps,
     DirectoryDeleteKeeps, DirectoryDeletedKeeps, DirectoryUpsertKeeps, DirectoryUpsertedKeeps,
     DirectorySyncKeeps, DirectoryVerifyGroupsKeeps, DirectoryRemainingKeeps,
     DirectoryActivateKeeps, DirectoryCloseKeeps, DirectoryKilledKeeps,
     DirectoryChangeMapperKeeps, DirectoryChangeManualKeeps DEF Directory!Next

(* What the invariant says of an enabled provider.                          *)
LEMMA DirectoryHolds == Directory!IInv => Directory!GrantsAreWhole
  BY DEF Directory!IInv, Directory!AsRead, Directory!Caught, Directory!GrantsAreWhole

-----------------------------------------------------------------------------
(* The onboarding of people: s1 the realm, s2 the account, s3 writes on     *)
(* their way, s4 the token, s5 the session, s6 its plan, s7 the answer it   *)
(* has, s8 its report, s9 what was done, s10 and s11 the bounds.            *)

(* What has been made of the session's writes, or may be.                   *)
LEMMA MadeIs ==
  \A w : w \in Onboarding!Made <=> w \in s9 \/ \E e \in s3 : e.op = s10 /\ e.what = w
  BY DEF Onboarding!Made, Onboarding!Pending

(* A write that is none of the groups'.                                     *)
LEMMA NoGroup ==
  /\ None \notin OnboardingGroups /\ "create" \notin OnboardingGroups
  /\ "email" \notin OnboardingGroups
  /\ "prevalidation" \notin OnboardingGroups /\ "complete" \notin OnboardingGroups
  /\ None \notin Onboarding!Ids /\ OnboardingOps \in Nat /\ OnboardingEdits \in Nat
  BY OnboardingAssumption DEF Onboarding!OnboardingAssumption, Onboarding!Ids

(* Nor is an account.                                                       *)
LEMMA NoAccount == None \notin Onboarding!Accounts
<1>1. Onboarding!Ids \subseteq Nat
  BY NoGroup DEF Onboarding!Ids
<1> QED BY <1>1, OnboardingAssumption
          DEF Onboarding!OnboardingAssumption, Onboarding!Accounts

(* The records that a session begins with.                                  *)
LEMMA OnboardingRecords ==
  /\ Onboarding!Idle \in Onboarding!Sessions /\ Onboarding!Idle.step = "idle"
  /\ Onboarding!Idle.todo = {} /\ Onboarding!Idle.id = None
  /\ Onboarding!NoPlan \in Onboarding!Plans /\ Onboarding!Fresh \in Onboarding!Reports
  /\ Onboarding!Fresh
       = [stage |-> "prevalidation", outcome |-> "none", id |-> None, accepted |-> {},
              mail |-> "not attempted"]
  BY DEF Onboarding!Idle, Onboarding!Sessions, Onboarding!NoPlan, Onboarding!Plans,
     Onboarding!Fresh, Onboarding!Reports

(* Before the first session nothing was done or reported.                   *)
LEMMA OnboardingInit == Onboarding!Init => Onboarding!IInv
<1> SUFFICES ASSUME Onboarding!Init PROVE Onboarding!IInv OBVIOUS
<1>1. Onboarding!TypeOK
  <2>1. s1 \in Onboarding!Realms
    BY DEF Onboarding!Init, Onboarding!Realms
  <2>2. 0 \in 0..OnboardingOps /\ 0 \in 0..OnboardingEdits
    BY NoGroup
  <2>3. /\ s2 = None /\ s3 = {} /\ s4 = "none" /\ s5 = Onboarding!Idle /\ s6 = Onboarding!NoPlan
        /\ s7 = "none" /\ s8 = Onboarding!Fresh /\ s9 = {} /\ s10 = 0 /\ s11 = 0
    BY DEF Onboarding!Init
  <2> QED BY <2>1, <2>2, <2>3, OnboardingRecords DEF Onboarding!TypeOK
<1>2. Onboarding!NoneAhead /\ Onboarding!NothingYet /\ Onboarding!Underway
      /\ Onboarding!Answered /\ Onboarding!ReportIsTrue
  BY DEF Onboarding!Init, Onboarding!NoneAhead, Onboarding!NothingYet, Onboarding!Underway,
     Onboarding!Answered, Onboarding!ReportIsTrue, Onboarding!At, Onboarding!Idle
<1> QED BY <1>1, <1>2 DEF Onboarding!IInv

(* Ids are given in the order of what happens.                              *)
LEMMA NextIdIsId == ASSUME Onboarding!TypeOK PROVE Onboarding!NextId \in Onboarding!Ids
<1>1. s10 \in 0..OnboardingOps /\ s11 \in 0..OnboardingEdits
  BY DEF Onboarding!TypeOK
<1> QED BY <1>1, NoGroup DEF Onboarding!NextId, Onboarding!Ids

(* A step before the writes, or beside them.                                *)
LEMMA OnboardingAsideKeeps ==
  ASSUME Onboarding!IInv, UNCHANGED <<s3, s9, s10, s8, s7>>, Onboarding!TypeOK',
         \/ UNCHANGED <<s5, s6>>
         \/ /\ s5.step \in {"idle", "doctor", "choose", "catalog", "identity"}
            /\ s5.step # "idle" /\ s5'.step \in {"idle", "choose", "catalog", "identity"}
            /\ s5'.step \in {"catalog", "identity"} => (s6'.op = "create" <=> s6'.user = None)
  PROVE  Onboarding!IInv'
<1>1. Onboarding!Made' = Onboarding!Made
  BY DEF Onboarding!Made, Onboarding!Pending
<1>2. Onboarding!NoneAhead'
  BY DEF Onboarding!IInv, Onboarding!NoneAhead
<1>3. CASE UNCHANGED <<s5, s6>>
  <2>1. Onboarding!Known' = Onboarding!Known /\ Onboarding!Doubtful' = Onboarding!Doubtful
    BY <1>3 DEF Onboarding!Known, Onboarding!Doubtful
  <2>2. Onboarding!NothingYet' /\ Onboarding!Underway' /\ Onboarding!Answered'
    BY <1>1, <1>3, <2>1
      DEF Onboarding!IInv, Onboarding!NothingYet, Onboarding!Underway, Onboarding!Answered,
       Onboarding!At
  <2>3. Onboarding!ReportIsTrue'
    BY <1>1, <1>3, <2>1
      DEF Onboarding!IInv, Onboarding!ReportIsTrue, Onboarding!At, Onboarding!Refused
  <2> QED BY <1>2, <2>2, <2>3 DEF Onboarding!IInv
<1>4. CASE /\ s5.step \in {"doctor", "choose", "catalog", "identity"}
           /\ s5'.step \in {"idle", "choose", "catalog", "identity"}
           /\ s5'.step \in {"catalog", "identity"} => (s6'.op = "create" <=> s6'.user = None)
  <2>1. /\ Onboarding!Made' = {} /\ s9' = {} /\ s8.id = None /\ s8.accepted = {}
        /\ s8.mail = "not attempted" /\ s8.stage = "prevalidation" /\ s8.outcome = "none"
    BY <1>1, <1>4 DEF Onboarding!IInv, Onboarding!NothingYet, Onboarding!Made, Onboarding!At
  <2>2. Onboarding!NothingYet' /\ Onboarding!Underway' /\ Onboarding!Answered'
    BY <1>4, <2>1
      DEF Onboarding!NothingYet, Onboarding!Underway, Onboarding!Answered, Onboarding!At
  <2>5. /\ s8'.accepted = {} /\ s8'.mail = "not attempted" /\ s8'.id = None
        /\ s8'.stage = "prevalidation" /\ s8'.outcome = "none"
    BY <2>1
  <2>3. Onboarding!Known' = {}
    BY <2>5 DEF Onboarding!Known
  <2>4. Onboarding!ReportIsTrue'
    BY <2>1, <2>3, <2>5 DEF Onboarding!ReportIsTrue, Onboarding!Refused
  <2> QED BY <1>2, <2>2, <2>4 DEF Onboarding!IInv
<1> QED BY <1>3, <1>4

(* A new session has done nothing; what is still on its way is an earlier one's.*)
LEMMA OnboardingLoginKeeps ==
  ASSUME Onboarding!IInv, NEW op \in {"create", "resume", "send"}, Onboarding!Login(op)
  PROVE  Onboarding!IInv'
<1>1. /\ s10 \in Nat /\ s10' = s10 + 1 /\ s10' \in 0..OnboardingOps /\ s3' = s3 /\ s9' = {}
      /\ s8' = Onboarding!Fresh /\ s7' = "none"
      /\ s5' = [Onboarding!Idle EXCEPT !.step = "doctor"]
      /\ s6' = [Onboarding!NoPlan EXCEPT !.op = op] /\ s4' = "live"
      /\ UNCHANGED <<s1, s2, s11>>
  <2>1. s10 \in 0..OnboardingOps
    BY DEF Onboarding!IInv, Onboarding!TypeOK
  <2> QED BY <2>1, NoGroup DEF Onboarding!Login
<1>2. s5' = [step |-> "doctor", todo |-> {}, id |-> None]
      /\ s6' = [op |-> op, catalog |-> None, user |-> None, groups |-> {}, mail |-> FALSE]
  BY <1>1 DEF Onboarding!Idle, Onboarding!NoPlan
<1>3. Onboarding!TypeOK'
  <2>1. s5' \in Onboarding!Sessions /\ s6' \in Onboarding!Plans
    BY <1>2 DEF Onboarding!Sessions, Onboarding!Plans
  <2> QED BY <1>1, <2>1, OnboardingRecords DEF Onboarding!IInv, Onboarding!TypeOK
<1>4. \A e \in s3 : e.op \in Nat /\ e.op <= s10
  <2>1. s3 \subseteq Onboarding!Requests
    BY DEF Onboarding!IInv, Onboarding!TypeOK
  <2> QED BY <2>1 DEF Onboarding!Requests, Onboarding!IInv, Onboarding!NoneAhead
<1>5. Onboarding!NoneAhead'
  BY <1>1, <1>4 DEF Onboarding!NoneAhead
<1>6. Onboarding!Made' = {}
  BY <1>1, <1>4 DEF Onboarding!Made, Onboarding!Pending
<1>8. /\ s8'.id = None /\ s8'.accepted = {} /\ s8'.mail = "not attempted"
      /\ s8'.stage = "prevalidation" /\ s8'.outcome = "none"
  BY <1>1, OnboardingRecords
<1>7. Onboarding!NothingYet' /\ Onboarding!Underway' /\ Onboarding!Answered'
      /\ Onboarding!ReportIsTrue'
  BY <1>2, <1>6, <1>8
    DEF Onboarding!NothingYet, Onboarding!Underway, Onboarding!Answered, Onboarding!ReportIsTrue,
     Onboarding!At
<1> QED BY <1>3, <1>5, <1>7 DEF Onboarding!IInv

(* A token that expires changes nothing else.                               *)
LEMMA OnboardingExpireKeeps == ASSUME Onboarding!IInv, Onboarding!Expire PROVE Onboarding!IInv'
  BY OnboardingAsideKeeps
    DEF Onboarding!Expire, Onboarding!serverVars, Onboarding!IInv, Onboarding!TypeOK

(* A session is somewhere else.                                             *)
LEMMA Elsewhere ==
  ASSUME Onboarding!TypeOK, NEW step \in {"choose", "catalog", "identity"}, Onboarding!To(step)
  PROVE  s5' \in Onboarding!Sessions /\ s5'.step = step
  BY DEF Onboarding!TypeOK, Onboarding!To, Onboarding!Sessions

(* The checks before the choice write nothing.                              *)
LEMMA OnboardingDoctorKeeps == ASSUME Onboarding!IInv, Onboarding!Doctor PROVE Onboarding!IInv'
<1>1. /\ Onboarding!At("doctor") /\ UNCHANGED <<Onboarding!serverVars, s7, s8, s10>>
      /\ s6' = [s6 EXCEPT !.catalog = s1] /\ Onboarding!To("choose")
      /\ s4' \in {"live", "old", "none"}
  BY DEF Onboarding!Doctor, Onboarding!Authorised, Onboarding!IInv, Onboarding!TypeOK
<1>3. s6' \in Onboarding!Plans
  BY <1>1 DEF Onboarding!IInv, Onboarding!TypeOK, Onboarding!Plans
<1>2. Onboarding!TypeOK' /\ s5'.step = "choose"
  BY <1>1, <1>3, Elsewhere DEF Onboarding!IInv, Onboarding!TypeOK, Onboarding!serverVars
<1> QED BY <1>1, <1>2, OnboardingAsideKeeps DEF Onboarding!At, Onboarding!serverVars

(* A representation is an account, without memberships.                     *)
LEMMA BareIs ==
  ASSUME NEW a \in Onboarding!Accounts, a # None
  PROVE  /\ Onboarding!Bare(a) \in Onboarding!Accounts /\ Onboarding!Bare(a).id = a.id
         /\ Onboarding!Bare(a) # None
  BY NoAccount DEF Onboarding!Bare, Onboarding!Accounts

(* The choice of groups writes nothing.                                     *)
LEMMA OnboardingChooseKeeps ==
  ASSUME Onboarding!IInv, NEW groups \in SUBSET OnboardingGroups, NEW mail \in BOOLEAN,
         Onboarding!Choose(groups, mail)
  PROVE  Onboarding!IInv'
<1>1. /\ Onboarding!At("choose") /\ UNCHANGED <<Onboarding!serverVars, s7, s8, s10>>
      /\ s6' = [s6 EXCEPT !.groups = groups, !.mail = mail,
                              !.user = IF s6.op = "create" THEN None ELSE Onboarding!Bare(s2)]
      /\ Onboarding!To("catalog") /\ (s6.op # "create" => s2 # None)
      /\ s4' \in {"live", "old", "none"}
  BY DEF Onboarding!Choose, Onboarding!Authorised, Onboarding!IInv, Onboarding!TypeOK
<1>4. s6.op # "create" => Onboarding!Bare(s2) \in Onboarding!Accounts /\ Onboarding!Bare(s2) # None
  BY <1>1, BareIs DEF Onboarding!IInv, Onboarding!TypeOK
<1>3. s6' \in Onboarding!Plans /\ (s6'.op = "create" <=> s6'.user = None)
  BY <1>1, <1>4 DEF Onboarding!IInv, Onboarding!TypeOK, Onboarding!Plans
<1>2. Onboarding!TypeOK' /\ s5'.step = "catalog"
  BY <1>1, <1>3, Elsewhere DEF Onboarding!IInv, Onboarding!TypeOK, Onboarding!serverVars
<1> QED BY <1>1, <1>2, <1>3, OnboardingAsideKeeps DEF Onboarding!At, Onboarding!serverVars

(* A session that is given up has written nothing.                          *)
LEMMA OnboardingGiveUpKeeps == ASSUME Onboarding!IInv, Onboarding!GiveUp PROVE Onboarding!IInv'
<1>1. Onboarding!TypeOK' /\ s5'.step = "idle"
  BY OnboardingRecords
    DEF Onboarding!GiveUp, Onboarding!Stop, Onboarding!IInv, Onboarding!TypeOK,
     Onboarding!serverVars
<1>2. CASE s5.step # "memberships"
  BY <1>1, <1>2, OnboardingAsideKeeps
    DEF Onboarding!GiveUp, Onboarding!Stop, Onboarding!serverVars
<1>3. CASE s5.step = "memberships"
  <2>1. UNCHANGED <<Onboarding!serverVars, s6, s7, s8, s10>>
    BY DEF Onboarding!GiveUp, Onboarding!Stop
  <2>2. /\ Onboarding!Made = {} /\ s6.op # "create" /\ s8.accepted = {}
        /\ s8.mail = "not attempted" /\ s8.stage = "prevalidation" /\ s8.outcome = "none"
    BY <1>3 DEF Onboarding!IInv, Onboarding!NothingYet, Onboarding!At
  <2>4. Onboarding!Made' = {} /\ Onboarding!Known' = {}
    BY <2>1, <2>2
      DEF Onboarding!Made, Onboarding!Pending, Onboarding!Known, Onboarding!serverVars
  <2>5. Onboarding!NothingYet' /\ Onboarding!Underway' /\ Onboarding!Answered'
    BY <1>1 DEF Onboarding!NothingYet, Onboarding!Underway, Onboarding!Answered, Onboarding!At
  <2>6. Onboarding!ReportIsTrue'
    BY <2>1, <2>2, <2>4 DEF Onboarding!ReportIsTrue, Onboarding!Refused
  <2>7. Onboarding!NoneAhead'
    BY <2>1 DEF Onboarding!IInv, Onboarding!NoneAhead, Onboarding!serverVars
  <2> QED BY <1>1, <2>5, <2>6, <2>7 DEF Onboarding!IInv
<1> QED BY <1>2, <1>3

(* The catalog is read.                                                     *)
LEMMA OnboardingPrevalidateKeeps ==
  ASSUME Onboarding!IInv, Onboarding!Prevalidate
  PROVE  Onboarding!IInv'
<1>1. /\ Onboarding!At("catalog") /\ UNCHANGED <<Onboarding!serverVars, s6, s7, s8, s10>>
      /\ Onboarding!To("identity") /\ s4' \in {"live", "old", "none"}
  BY DEF Onboarding!Prevalidate, Onboarding!Authorised, Onboarding!IInv, Onboarding!TypeOK
<1>2. Onboarding!TypeOK' /\ s5'.step = "identity"
  BY <1>1, Elsewhere DEF Onboarding!IInv, Onboarding!TypeOK, Onboarding!serverVars
<1>3. s6'.op = "create" <=> s6'.user = None
  BY <1>1 DEF Onboarding!IInv, Onboarding!NothingYet, Onboarding!At
<1> QED BY <1>1, <1>2, <1>3, OnboardingAsideKeeps DEF Onboarding!At, Onboarding!serverVars

(* What begins the writes: nothing was made yet, and of the groups that were *)
(* confirmed those that are not among the writes are there already.          *)
LEMMA OnboardingBegins ==
  ASSUME Onboarding!IInv, NEW writes \in SUBSET Onboarding!Writes, Onboarding!Begin(writes),
         s5.step \in {"identity", "memberships"}, UNCHANGED Onboarding!serverVars,
         s8' = s8, UNCHANGED <<s7, s10>>,
         s4' \in {"live", "old", "none"}, s6' \in Onboarding!Plans, s6'.op = s6.op,
         s6'.groups = s6.groups, s6'.mail = s6.mail,
         "create" \in writes => s6.op = "create", "email" \notin writes,
         s6.groups \subseteq
           writes \cup (IF s6'.user = None THEN {} ELSE s6'.user.groups)
  PROVE  Onboarding!IInv'
<1> DEFINE todo == writes \cup (IF s6.mail THEN {"email"} ELSE {})
<1>1. /\ Onboarding!Made = {} /\ s8.accepted = {} /\ s8.mail = "not attempted"
      /\ s8.outcome = "none"
      /\ s6.op = "create" => s8.id = None
  BY DEF Onboarding!IInv, Onboarding!NothingYet, Onboarding!At
<1>2. s5' = [step |-> "write", todo |-> todo, id |-> None]
  BY DEF Onboarding!Begin, Onboarding!Idle
<1>3. /\ s8'.accepted = {} /\ s8'.mail = "not attempted" /\ s8'.outcome = "none"
      /\ s8'.id = s8.id
  BY <1>1
<1>4. todo \in SUBSET Onboarding!Writes
  BY DEF Onboarding!Writes
<1>5. Onboarding!TypeOK'
  <2>1. s5' \in Onboarding!Sessions
    BY <1>2, <1>4 DEF Onboarding!Sessions
  <2> QED BY <2>1 DEF Onboarding!IInv, Onboarding!TypeOK, Onboarding!serverVars
<1>6. Onboarding!Made' = {}
  BY <1>1 DEF Onboarding!Made, Onboarding!Pending, Onboarding!serverVars
<1>7. Onboarding!Known' = {}
  BY <1>1, <1>3 DEF Onboarding!Known
<1>8. Onboarding!Underway'
  <2>1. s5'.step = "write" /\ s5'.todo = todo
    BY <1>2
  <2>2. "create" \in todo => s6'.op = "create" /\ s8'.id = None
    BY <1>1, <1>3
  <2>3. s6'.groups \subseteq todo \cup (IF s6'.user = None THEN {} ELSE s6'.user.groups)
    OBVIOUS
  <2> QED BY <1>3, <1>6, <1>7, <2>1, <2>2, <2>3 DEF Onboarding!Underway, Onboarding!At
<1>9. Onboarding!NoneAhead' /\ Onboarding!NothingYet' /\ Onboarding!Answered'
      /\ Onboarding!ReportIsTrue'
  BY <1>2
    DEF Onboarding!IInv, Onboarding!NoneAhead, Onboarding!NothingYet, Onboarding!Answered,
     Onboarding!ReportIsTrue, Onboarding!At, Onboarding!serverVars
<1> QED BY <1>5, <1>8, <1>9 DEF Onboarding!IInv

(* Of a new account everything is still to be written.                      *)
LEMMA OnboardingCheckNewKeeps ==
  ASSUME Onboarding!IInv, Onboarding!CheckNew
  PROVE  Onboarding!IInv'
<1>1. /\ s5.step = "identity" /\ UNCHANGED <<Onboarding!serverVars, s6, s7, s8, s10>>
      /\ s6.op = "create" /\ Onboarding!Begin(s6.groups \cup {"create"})
      /\ s4' \in {"live", "old", "none"} /\ s6 \in Onboarding!Plans
  BY DEF Onboarding!CheckNew, Onboarding!Authorised, Onboarding!IInv, Onboarding!TypeOK,
     Onboarding!At
<1>2. s6.groups \subseteq OnboardingGroups
  BY <1>1 DEF Onboarding!Plans
<1>3. /\ s6.groups \cup {"create"} \in SUBSET Onboarding!Writes
      /\ "email" \notin s6.groups \cup {"create"}
  BY <1>2, NoGroup DEF Onboarding!Writes
<1> QED BY <1>1, <1>3, OnboardingBegins

(* Of an existing one the memberships that it lacks.                        *)
LEMMA OnboardingReadMembershipsKeeps ==
  ASSUME Onboarding!IInv, Onboarding!ReadMemberships
  PROVE  Onboarding!IInv'
<1>1. /\ s5.step = "memberships" /\ UNCHANGED <<Onboarding!serverVars, s7, s8, s10>>
      /\ Onboarding!Begin(s6.groups \ s2.groups) /\ s2 # None
      /\ s6' = [s6 EXCEPT !.user.groups = s2.groups]
      /\ s4' \in {"live", "old", "none"} /\ s6 \in Onboarding!Plans
      /\ s2 \in Onboarding!Accounts
  BY DEF Onboarding!ReadMemberships, Onboarding!Authorised, Onboarding!IInv, Onboarding!TypeOK,
     Onboarding!At
<1>2. s6.user # None /\ s6.op # "create"
  BY <1>1 DEF Onboarding!IInv, Onboarding!NothingYet, Onboarding!At
<1>3. s6.user \in Onboarding!Accounts /\ s6.groups \subseteq OnboardingGroups
      /\ s2.groups \subseteq OnboardingGroups
  BY <1>1, <1>2 DEF Onboarding!Plans, Onboarding!Accounts
<1> DEFINE u == [s6.user EXCEPT !.groups = s2.groups]
<1>4. u \in Onboarding!Accounts /\ u.groups = s2.groups
  BY <1>3 DEF Onboarding!Accounts
<1>5. /\ s6' \in Onboarding!Plans /\ s6'.user = u /\ s6'.op = s6.op
      /\ s6'.groups = s6.groups /\ s6'.mail = s6.mail
  BY <1>1, <1>4 DEF Onboarding!Plans
<1>6. /\ s6.groups \ s2.groups \in SUBSET Onboarding!Writes
      /\ "email" \notin s6.groups \ s2.groups /\ "create" \notin s6.groups \ s2.groups
  BY <1>3, NoGroup DEF Onboarding!Writes
<1>7. u # None
  BY <1>4, NoAccount
<1>8. s6.groups \subseteq
        (s6.groups \ s2.groups) \cup (IF s6'.user = None THEN {} ELSE s6'.user.groups)
  BY <1>4, <1>5, <1>7
<1> QED BY <1>1, <1>2, <1>5, <1>6, <1>8, OnboardingBegins

(* The representation is read; nothing is written.                          *)
LEMMA OnboardingCheckIdentityKeeps ==
  ASSUME Onboarding!IInv, Onboarding!CheckIdentity
  PROVE  Onboarding!IInv'
<1>1. /\ s5.step = "identity" /\ UNCHANGED <<Onboarding!serverVars, s6, s7, s10>>
      /\ s5' = [s5 EXCEPT !.step = "memberships"] /\ s8' = [s8 EXCEPT !.id = s2.id]
      /\ s6.op # "create" /\ s4' \in {"live", "old", "none"} /\ s2 \in Onboarding!Accounts
  BY DEF Onboarding!CheckIdentity, Onboarding!Authorised, Onboarding!IInv, Onboarding!TypeOK,
     Onboarding!At, Onboarding!To
<1>2. /\ Onboarding!Made = {} /\ s8.accepted = {} /\ s8.mail = "not attempted"
      /\ s8.stage = "prevalidation" /\ s8.outcome = "none" /\ s8 \in Onboarding!Reports
      /\ (s6.op = "create" <=> s6.user = None)
  BY <1>1 DEF Onboarding!IInv, Onboarding!NothingYet, Onboarding!At, Onboarding!TypeOK
<1>3. /\ s5' \in Onboarding!Sessions /\ s5'.step = "memberships"
      /\ s2.id \in Onboarding!Ids /\ s2.id # None
  BY <1>1, NoGroup DEF Onboarding!IInv, Onboarding!TypeOK, Onboarding!Sessions,
     Onboarding!Accounts
<1>4. /\ s8' \in Onboarding!Reports /\ s8'.id = s2.id /\ s8'.accepted = {}
      /\ s8'.mail = "not attempted" /\ s8'.stage = "prevalidation" /\ s8'.outcome = "none"
  BY <1>1, <1>2, <1>3 DEF Onboarding!Reports
<1>5. Onboarding!TypeOK'
  BY <1>1, <1>3, <1>4 DEF Onboarding!IInv, Onboarding!TypeOK, Onboarding!serverVars
<1>6. Onboarding!Made' = {}
  BY <1>1, <1>2 DEF Onboarding!Made, Onboarding!Pending, Onboarding!serverVars
<1>7. Onboarding!NothingYet'
  BY <1>1, <1>2, <1>3, <1>4, <1>6 DEF Onboarding!NothingYet, Onboarding!At
<1>8. Onboarding!NoneAhead' /\ Onboarding!Underway' /\ Onboarding!Answered'
      /\ Onboarding!ReportIsTrue'
  BY <1>1, <1>3
    DEF Onboarding!IInv, Onboarding!NoneAhead, Onboarding!Underway, Onboarding!Answered,
     Onboarding!ReportIsTrue, Onboarding!At, Onboarding!serverVars
<1> QED BY <1>5, <1>7, <1>8 DEF Onboarding!IInv

(* The answer of a write that was sent.                                     *)
LEMMA OnboardingSendKeeps ==
  ASSUME Onboarding!IInv, NEW w \in Onboarding!Writes, Onboarding!Send(w)
  PROVE  Onboarding!IInv'
<1>1. /\ Onboarding!At("write") /\ UNCHANGED <<s1, s6, s10, s11>> /\ Onboarding!IsNext(w)
      /\ s5' = [s5 EXCEPT !.step = "sent", !.id = Onboarding!NextId]
      /\ s8' = [s8 EXCEPT !.stage = w, !.outcome = "not attempted"]
      /\ s4' \in {"live", "old", "none"}
  BY DEF Onboarding!Send, Onboarding!Authorised, Onboarding!IInv, Onboarding!TypeOK
<1>2. s5 \in Onboarding!Sessions /\ s8 \in Onboarding!Reports
      /\ Onboarding!NextId \in Onboarding!Ids
  BY NextIdIsId DEF Onboarding!IInv, Onboarding!TypeOK
<1>3. /\ s5' \in Onboarding!Sessions /\ s5'.step = "sent" /\ s5'.todo = s5.todo
      /\ s5'.id = Onboarding!NextId
      /\ s8' \in Onboarding!Reports /\ s8'.stage = w /\ s8'.outcome = "not attempted"
      /\ s8'.id = s8.id /\ s8'.accepted = s8.accepted /\ s8'.mail = s8.mail
  BY <1>1, <1>2 DEF Onboarding!Sessions, Onboarding!Reports
<1>4. /\ Onboarding!Known \subseteq s9 /\ Onboarding!Made \subseteq Onboarding!Known
      /\ s5.todo \cap Onboarding!Known = {} /\ w \in s5.todo
      /\ "create" \in s5.todo => s6.op = "create" /\ s8.id = None
      /\ s8.mail \in {"not attempted", "accepted"}
      /\ s6.groups \subseteq
           s9 \cup s5.todo \cup (IF s6.user = None THEN {} ELSE s6.user.groups)
  BY <1>1 DEF Onboarding!IInv, Onboarding!Underway, Onboarding!IsNext, Onboarding!At
<1>5. Onboarding!Known' = Onboarding!Known
  BY <1>1, <1>3 DEF Onboarding!Known
<1> DEFINE e == [what |-> w, id |-> s8.id, op |-> s10]
<1>6. /\ s9' \in {s9, s9 \cup {w}} /\ s3' \in {s3, s3 \cup {e}}
      /\ s7' \in {"ok", "malformed", "unreached", "refused", "error", "lost"}
      /\ s7' = "ok" => w \in s9'
      /\ s7' \in {"unreached", "refused"} => s9' = s9 /\ s3' = s3
  BY DEF Onboarding!Send
<1>7. e \in Onboarding!Requests /\ e.op = s10 /\ e.what = w /\ s10 \in Nat
  <2>1. s10 \in 0..OnboardingOps /\ s8.id \in Onboarding!Ids \cup {None}
    BY <1>2 DEF Onboarding!IInv, Onboarding!TypeOK, Onboarding!Reports
  <2> QED BY <2>1, NoGroup DEF Onboarding!Requests
<1>8. Onboarding!Made \subseteq Onboarding!Made'
      /\ Onboarding!Made' \subseteq Onboarding!Made \cup {w}
      /\ (s9' = s9 /\ s3' = s3 => Onboarding!Made' = Onboarding!Made)
  BY <1>1, <1>6, <1>7 DEF Onboarding!Made, Onboarding!Pending
<1>9. s2' \in Onboarding!Accounts \cup {None}
  <2>1. s2 \in Onboarding!Accounts \cup {None}
    BY DEF Onboarding!IInv, Onboarding!TypeOK
  <2>2. CASE UNCHANGED s2
    BY <2>1, <2>2
  <2>3. CASE Onboarding!Takes(w, s8.id) /\ s2' = Onboarding!Effect(w)
    <3>1. CASE w = "create"
      BY <1>2, <2>3, <3>1 DEF Onboarding!Effect, Onboarding!Accounts
    <3>2. CASE w = "email"
      BY <2>1, <2>3, <3>2 DEF Onboarding!Effect
    <3>3. CASE w \in OnboardingGroups
      <4>1. s2' = [s2 EXCEPT !.groups = s2.groups \cup {w}] /\ s2 # None
        BY <2>3, <3>3, NoGroup DEF Onboarding!Effect, Onboarding!Takes
      <4> QED BY <2>1, <3>3, <4>1 DEF Onboarding!Accounts
    <3> QED BY <3>1, <3>2, <3>3 DEF Onboarding!Writes
  <2> QED BY <2>2, <2>3 DEF Onboarding!Send
<1>10. Onboarding!TypeOK'
  BY <1>1, <1>3, <1>6, <1>7, <1>9 DEF Onboarding!IInv, Onboarding!TypeOK
<1>11. Onboarding!NoneAhead'
  BY <1>1, <1>6, <1>7 DEF Onboarding!IInv, Onboarding!NoneAhead
<1>12. Onboarding!Underway'
  BY <1>1, <1>3, <1>4, <1>5, <1>6, <1>8 DEF Onboarding!Underway, Onboarding!At
<1>13. Onboarding!Answered'
  <2>1. w \notin Onboarding!Made /\ Onboarding!NextId # None
    BY <1>2, <1>4, NoGroup
  <2> QED BY <1>3, <1>4, <1>6, <1>8, <2>1 DEF Onboarding!Answered, Onboarding!At
<1>14. Onboarding!NothingYet' /\ Onboarding!ReportIsTrue'
  BY <1>3 DEF Onboarding!NothingYet, Onboarding!ReportIsTrue, Onboarding!At
<1> QED BY <1>10, <1>11, <1>12, <1>13, <1>14 DEF Onboarding!IInv

(* A session that ends, with a report of the write it ends at.              *)
LEMMA OnboardingEndKeeps ==
  ASSUME Onboarding!IInv, UNCHANGED <<s3, s9, s6, s10>>, Onboarding!TypeOK', s5'.step = "idle",
         s8'.id = s8.id, s8'.accepted = s8.accepted,
         Onboarding!Known = Onboarding!Known', Onboarding!Known \subseteq s9,
         Onboarding!Made \subseteq Onboarding!Known \cup Onboarding!Doubtful',
         s8'.outcome \in Onboarding!Refused => s8'.stage \notin Onboarding!Made,
         s8'.mail \in Onboarding!Refused => "email" \notin Onboarding!Made,
         s8'.stage = "complete" =>
           s6.groups \subseteq s9 \cup (IF s6.user = None THEN {} ELSE s6.user.groups)
  PROVE  Onboarding!IInv'
<1>1. Onboarding!Made' = Onboarding!Made
  BY DEF Onboarding!Made, Onboarding!Pending
<1>2. Onboarding!NoneAhead'
  BY DEF Onboarding!IInv, Onboarding!NoneAhead
<1>3. Onboarding!NothingYet' /\ Onboarding!Underway' /\ Onboarding!Answered'
  BY DEF Onboarding!NothingYet, Onboarding!Underway, Onboarding!Answered, Onboarding!At
<1>4. Onboarding!ReportIsTrue'
  BY <1>1 DEF Onboarding!ReportIsTrue, Onboarding!Refused
<1> QED BY <1>2, <1>3, <1>4 DEF Onboarding!IInv

(* A write that was not sent is not made.                                   *)
LEMMA OnboardingSendFailsKeeps ==
  ASSUME Onboarding!IInv, NEW w \in Onboarding!Writes, Onboarding!SendFails(w)
  PROVE  Onboarding!IInv'
<1>1. /\ Onboarding!At("write") /\ UNCHANGED <<Onboarding!serverVars, s6, s7, s10>>
      /\ w \in s5.todo /\ s5' = Onboarding!Idle
      /\ s8' = [s8 EXCEPT !.stage = w, !.outcome = "not attempted"]
      /\ s4' \in {"live", "old", "none"}
  BY DEF Onboarding!SendFails, Onboarding!Unauthorised, Onboarding!IsNext, Onboarding!IInv,
     Onboarding!TypeOK
<1>2. s8 \in Onboarding!Reports
  BY DEF Onboarding!IInv, Onboarding!TypeOK
<1>3. /\ s8' \in Onboarding!Reports /\ s8'.stage = w /\ s8'.outcome = "not attempted"
      /\ s8'.id = s8.id /\ s8'.accepted = s8.accepted /\ s8'.mail = s8.mail
  BY <1>1, <1>2 DEF Onboarding!Reports
<1>4. Onboarding!TypeOK'
  BY <1>1, <1>3, OnboardingRecords DEF Onboarding!IInv, Onboarding!TypeOK, Onboarding!serverVars
<1>5. /\ Onboarding!Known \subseteq s9 /\ Onboarding!Made \subseteq Onboarding!Known
      /\ s5.todo \cap Onboarding!Known = {}
      /\ s8.mail \in {"not attempted", "accepted"}
  BY <1>1 DEF Onboarding!IInv, Onboarding!Underway, Onboarding!At
<1>6. Onboarding!Known' = Onboarding!Known
  BY <1>1, <1>3 DEF Onboarding!Known
<1>7. w # "complete"
  BY NoGroup DEF Onboarding!Writes
<1>8. "email" \in Onboarding!Known => s8.mail = "accepted"
  BY <1>2, NoGroup DEF Onboarding!Known, Onboarding!Reports
<1> QED BY <1>1, <1>3, <1>4, <1>5, <1>6, <1>7, <1>8, OnboardingRecords, OnboardingEndKeeps
          DEF Onboarding!Refused, Onboarding!serverVars

(* A session without writes left has made all of them.                      *)
LEMMA OnboardingCompleteKeeps ==
  ASSUME Onboarding!IInv, Onboarding!Complete
  PROVE  Onboarding!IInv'
<1>1. /\ Onboarding!At("write") /\ UNCHANGED <<Onboarding!serverVars, s6, s7, s10>>
      /\ s5.todo = {} /\ s5' = Onboarding!Idle
      /\ s8' = [s8 EXCEPT !.stage = "complete"] /\ s4' = "none"
  BY DEF Onboarding!Complete
<1>2. s8 \in Onboarding!Reports
  BY DEF Onboarding!IInv, Onboarding!TypeOK
<1>3. /\ s8' \in Onboarding!Reports /\ s8'.stage = "complete" /\ s8'.outcome = s8.outcome
      /\ s8'.id = s8.id /\ s8'.accepted = s8.accepted /\ s8'.mail = s8.mail
  BY <1>1, <1>2 DEF Onboarding!Reports
<1>4. Onboarding!TypeOK'
  BY <1>1, <1>3, OnboardingRecords DEF Onboarding!IInv, Onboarding!TypeOK, Onboarding!serverVars
<1>5. /\ Onboarding!Known \subseteq s9 /\ Onboarding!Made \subseteq Onboarding!Known
      /\ s8.outcome = "none"
      /\ s6.groups \subseteq s9 \cup (IF s6.user = None THEN {} ELSE s6.user.groups)
      /\ s8.mail \in {"not attempted", "accepted"}
  BY <1>1 DEF Onboarding!IInv, Onboarding!Underway, Onboarding!At
<1>6. Onboarding!Known' = Onboarding!Known
  BY <1>1, <1>3 DEF Onboarding!Known
<1>8. "email" \in Onboarding!Known => s8.mail = "accepted"
  BY <1>2, NoGroup DEF Onboarding!Known, Onboarding!Reports
<1> QED BY <1>1, <1>3, <1>4, <1>5, <1>6, <1>8, OnboardingRecords, OnboardingEndKeeps
          DEF Onboarding!Refused, Onboarding!serverVars

(* A session that stops at an answer, or before one.                        *)
LEMMA OnboardingStoppedKeeps ==
  ASSUME Onboarding!IInv, Onboarding!At("sent"),
         NEW outcome \in {"not submitted", "rejected", "outcome unknown"},
         Onboarding!Stopped(outcome),
         outcome # "outcome unknown" => s7 \in {"unreached", "refused"}
  PROVE  Onboarding!IInv'
<1>1. /\ UNCHANGED <<Onboarding!serverVars, s6, s7, s10>> /\ s5' = Onboarding!Idle /\ s4' = "none"
      /\ s8' = [s8 EXCEPT !.outcome = outcome,
                                  !.mail = IF s8.stage = "email" THEN outcome ELSE @]
  BY DEF Onboarding!Stopped
<1>2. s8 \in Onboarding!Reports
  BY DEF Onboarding!IInv, Onboarding!TypeOK
<1>3. /\ s8' \in Onboarding!Reports /\ s8'.stage = s8.stage /\ s8'.outcome = outcome
      /\ s8'.id = s8.id /\ s8'.accepted = s8.accepted
      /\ s8'.mail = IF s8.stage = "email" THEN outcome ELSE s8.mail
  BY <1>1, <1>2 DEF Onboarding!Reports
<1>4. Onboarding!TypeOK'
  BY <1>1, <1>3, OnboardingRecords DEF Onboarding!IInv, Onboarding!TypeOK, Onboarding!serverVars
<1>5. /\ Onboarding!Known \subseteq s9
      /\ Onboarding!Made \subseteq Onboarding!Known \cup {s8.stage}
      /\ s5.todo \cap Onboarding!Known = {} /\ s8.mail \in {"not attempted", "accepted"}
  BY DEF Onboarding!IInv, Onboarding!Underway, Onboarding!At
<1>6. /\ s8.stage \in s5.todo
      /\ s7 \in {"unreached", "refused"} => s8.stage \notin Onboarding!Made
  BY DEF Onboarding!IInv, Onboarding!Answered
<1>7. s8.stage \in Onboarding!Writes /\ s8.stage # "complete"
  <2>1. s5.todo \subseteq Onboarding!Writes
    BY DEF Onboarding!IInv, Onboarding!TypeOK, Onboarding!Sessions
  <2> QED BY <1>6, <2>1, NoGroup DEF Onboarding!Writes
<1>8. "email" \in Onboarding!Known <=> s8.mail = "accepted"
  BY <1>2, NoGroup DEF Onboarding!Known, Onboarding!Reports
<1>9. Onboarding!Known' = Onboarding!Known
  <2>1. s8'.mail = "accepted" <=> s8.mail = "accepted"
    BY <1>3, <1>5, <1>6, <1>8
  <2> QED BY <1>1, <1>3, <2>1 DEF Onboarding!Known
<1>10. Onboarding!Made \subseteq Onboarding!Known \cup Onboarding!Doubtful'
  BY <1>3, <1>5, <1>6 DEF Onboarding!Doubtful
<1> QED BY <1>1, <1>3, <1>4, <1>5, <1>6, <1>7, <1>8, <1>9, <1>10, OnboardingRecords,
           OnboardingEndKeeps DEF Onboarding!Refused, Onboarding!serverVars

(* An answer other than the expected ends the session at that write.        *)
LEMMA OnboardingNotAcceptedKeeps ==
  ASSUME Onboarding!IInv, Onboarding!NotAccepted
  PROVE  Onboarding!IInv'
<1>1. /\ Onboarding!Outcome \in {"not submitted", "rejected", "outcome unknown"}
      /\ Onboarding!Outcome # "outcome unknown" => s7 \in {"unreached", "refused"}
  BY DEF Onboarding!Outcome
<1> QED BY <1>1, OnboardingStoppedKeeps DEF Onboarding!NotAccepted

(* So does an interruption, with an unknown outcome.                        *)
LEMMA OnboardingInterruptedKeeps ==
  ASSUME Onboarding!IInv, Onboarding!Interrupted
  PROVE  Onboarding!IInv'
  BY OnboardingStoppedKeeps DEF Onboarding!Interrupted

(* An accepted write is known, and one less is to be made.                  *)
LEMMA OnboardingAcceptedKeeps ==
  ASSUME Onboarding!IInv, Onboarding!Accepted
  PROVE  Onboarding!IInv'
<1> DEFINE w == s8.stage
<1>1. /\ Onboarding!At("sent") /\ s7 = "ok"
      /\ UNCHANGED <<Onboarding!serverVars, s6, s7, s10, s4>>
      /\ s5' = [Onboarding!Idle EXCEPT !.step = "write", !.todo = s5.todo \ {w}]
  BY DEF Onboarding!Accepted
<1>2. s8 \in Onboarding!Reports /\ s5 \in Onboarding!Sessions
  BY DEF Onboarding!IInv, Onboarding!TypeOK
<1>3. s5' = [step |-> "write", todo |-> s5.todo \ {w}, id |-> None]
  BY <1>1 DEF Onboarding!Idle
<1>4. /\ Onboarding!Known \subseteq s9 /\ Onboarding!Made \subseteq Onboarding!Known \cup {w}
      /\ s5.todo \cap Onboarding!Known = {}
      /\ "create" \in s5.todo => s6.op = "create" /\ s8.id = None
      /\ s8.mail \in {"not attempted", "accepted"}
      /\ s6.groups \subseteq
           s9 \cup s5.todo \cup (IF s6.user = None THEN {} ELSE s6.user.groups)
  BY <1>1 DEF Onboarding!IInv, Onboarding!Underway, Onboarding!At
<1>5. w \in s5.todo /\ w \in s9 /\ s5.id # None /\ s5.todo \subseteq Onboarding!Writes
  BY <1>1, <1>2 DEF Onboarding!IInv, Onboarding!Answered, Onboarding!Sessions
<1>6. /\ s8' \in Onboarding!Reports /\ s8'.outcome = "none"
      /\ s8'.id = IF w = "create" THEN s5.id ELSE s8.id
      /\ s8'.mail = IF w = "email" THEN "accepted" ELSE s8.mail
      /\ s8'.accepted = IF w \in OnboardingGroups THEN s8.accepted \cup {w} ELSE s8.accepted
  <2>1. CASE w = "create"
    BY <1>2, <2>1, NoGroup DEF Onboarding!Accepted, Onboarding!Reports, Onboarding!Sessions
  <2>2. CASE w = "email"
    BY <1>2, <2>2, NoGroup DEF Onboarding!Accepted, Onboarding!Reports
  <2>3. CASE w \in OnboardingGroups
    <3>1. s8' = [s8 EXCEPT !.outcome = "none", !.accepted = s8.accepted \cup {w}]
      BY <2>3, NoGroup DEF Onboarding!Accepted
    <3> QED BY <1>2, <2>3, <3>1, NoGroup DEF Onboarding!Reports
  <2> QED BY <1>5, <2>1, <2>2, <2>3 DEF Onboarding!Writes
<1>7. Onboarding!Known' = Onboarding!Known \cup {w}
  <2>1. CASE w = "create"
    BY <1>1, <1>4, <1>5, <1>6, <2>1, NoGroup DEF Onboarding!Known
  <2>2. CASE w = "email"
    BY <1>1, <1>6, <2>2, NoGroup DEF Onboarding!Known
  <2>3. CASE w \in OnboardingGroups
    BY <1>1, <1>6, <2>3, NoGroup DEF Onboarding!Known
  <2> QED BY <1>5, <2>1, <2>2, <2>3 DEF Onboarding!Writes
<1>8. Onboarding!TypeOK'
  <2>1. s5' \in Onboarding!Sessions
    BY <1>3, <1>5 DEF Onboarding!Sessions
  <2> QED BY <1>1, <1>6, <2>1 DEF Onboarding!IInv, Onboarding!TypeOK, Onboarding!serverVars
<1>9. Onboarding!Made' = Onboarding!Made /\ s9' = s9 /\ s6' = s6
  BY <1>1 DEF Onboarding!Made, Onboarding!Pending, Onboarding!serverVars
<1>10. Onboarding!Underway'
  BY <1>3, <1>4, <1>5, <1>6, <1>7, <1>9 DEF Onboarding!Underway, Onboarding!At
<1>11. Onboarding!NoneAhead' /\ Onboarding!NothingYet' /\ Onboarding!Answered'
       /\ Onboarding!ReportIsTrue'
  BY <1>1, <1>3
    DEF Onboarding!IInv, Onboarding!NoneAhead, Onboarding!NothingYet, Onboarding!Answered,
     Onboarding!ReportIsTrue, Onboarding!At, Onboarding!serverVars
<1> QED BY <1>8, <1>10, <1>11 DEF Onboarding!IInv

(* The session's writes land one by one, and no more of them are made.      *)
LEMMA OnboardingLandKeeps ==
  ASSUME Onboarding!IInv, NEW e \in s3, Onboarding!Land(e)
  PROVE  Onboarding!IInv'
<1>1. /\ s3' = s3 \ {e} /\ UNCHANGED <<s1, s4, s5, s6, s7, s8, s10, s11>>
      /\ s9' \in {s9, IF e.op = s10 THEN s9 \cup {e.what} ELSE s9}
  BY DEF Onboarding!Land
<1>2. e \in Onboarding!Requests /\ s3 \subseteq Onboarding!Requests
      /\ Onboarding!NextId \in Onboarding!Ids
  BY NextIdIsId DEF Onboarding!IInv, Onboarding!TypeOK
<1>3. s9 \subseteq s9' /\ Onboarding!Made' \subseteq Onboarding!Made
  BY <1>1 DEF Onboarding!Made, Onboarding!Pending
<1>4. s2' \in Onboarding!Accounts \cup {None}
  <2>1. s2 \in Onboarding!Accounts \cup {None} /\ e.what \in Onboarding!Writes
    BY <1>2 DEF Onboarding!IInv, Onboarding!TypeOK, Onboarding!Requests
  <2>2. CASE UNCHANGED s2
    BY <2>1, <2>2
  <2>3. CASE Onboarding!Takes(e.what, e.id) /\ s2' = Onboarding!Effect(e.what)
    <3>1. CASE e.what = "create"
      BY <1>2, <2>3, <3>1 DEF Onboarding!Effect, Onboarding!Accounts
    <3>2. CASE e.what = "email"
      BY <2>1, <2>3, <3>2 DEF Onboarding!Effect
    <3>3. CASE e.what \in OnboardingGroups
      <4>1. s2' = [s2 EXCEPT !.groups = s2.groups \cup {e.what}] /\ s2 # None
        BY <2>3, <3>3, NoGroup DEF Onboarding!Effect, Onboarding!Takes
      <4> QED BY <2>1, <3>3, <4>1 DEF Onboarding!Accounts
    <3> QED BY <2>1, <3>1, <3>2, <3>3 DEF Onboarding!Writes
  <2> QED BY <2>2, <2>3 DEF Onboarding!Land
<1>5. Onboarding!TypeOK'
  <2>1. s9' \subseteq Onboarding!Writes
    BY <1>1, <1>2 DEF Onboarding!IInv, Onboarding!TypeOK, Onboarding!Requests
  <2> QED BY <1>1, <1>4, <2>1 DEF Onboarding!IInv, Onboarding!TypeOK
<1>6. Onboarding!Known' = Onboarding!Known /\ Onboarding!Doubtful' = Onboarding!Doubtful
  BY <1>1 DEF Onboarding!Known, Onboarding!Doubtful
<1>7. Onboarding!NoneAhead' /\ Onboarding!NothingYet'
  <2>1. Onboarding!NoneAhead'
    BY <1>1 DEF Onboarding!IInv, Onboarding!NoneAhead
  <2>2. Onboarding!NothingYet'
    BY <1>1, <1>3 DEF Onboarding!IInv, Onboarding!NothingYet, Onboarding!At
  <2> QED BY <2>1, <2>2
<1>8. Onboarding!Underway' /\ Onboarding!Answered'
  BY <1>1, <1>3, <1>6 DEF Onboarding!IInv, Onboarding!Underway, Onboarding!Answered, Onboarding!At
<1>9. Onboarding!ReportIsTrue'
  BY <1>1, <1>3, <1>6
    DEF Onboarding!IInv, Onboarding!ReportIsTrue, Onboarding!At, Onboarding!Refused
<1> QED BY <1>5, <1>7, <1>8, <1>9 DEF Onboarding!IInv

(* The realm's settings are no write of the session.                        *)
LEMMA OnboardingChangeRealmKeeps ==
  ASSUME Onboarding!IInv, NEW r \in Onboarding!Realms, Onboarding!ChangeRealm(r)
  PROVE  Onboarding!IInv'
<1>1. s11' \in 0..OnboardingEdits
  <2>1. s11 \in 0..OnboardingEdits
    BY DEF Onboarding!IInv, Onboarding!TypeOK
  <2> QED BY <2>1, NoGroup DEF Onboarding!ChangeRealm
<1>2. Onboarding!TypeOK'
  BY <1>1 DEF Onboarding!ChangeRealm, Onboarding!IInv, Onboarding!TypeOK
<1> QED BY <1>2, OnboardingAsideKeeps DEF Onboarding!ChangeRealm

(* Nor is what administrators do with the account.                          *)
LEMMA OnboardingChangeAccountKeeps ==
  ASSUME Onboarding!IInv, NEW a \in Onboarding!Accounts \cup {None}, Onboarding!ChangeAccount(a)
  PROVE  Onboarding!IInv'
<1>1. s11' \in 0..OnboardingEdits
  <2>1. s11 \in 0..OnboardingEdits
    BY DEF Onboarding!IInv, Onboarding!TypeOK
  <2> QED BY <2>1, NoGroup DEF Onboarding!ChangeAccount
<1>2. Onboarding!TypeOK'
  BY <1>1 DEF Onboarding!ChangeAccount, Onboarding!IInv, Onboarding!TypeOK
<1> QED BY <1>2, OnboardingAsideKeeps DEF Onboarding!ChangeAccount

(* Every step of the sessions, the server and the administrators.           *)
LEMMA OnboardingNext == ASSUME Onboarding!IInv, Onboarding!Next PROVE Onboarding!IInv'
<1>1. s2 \in Onboarding!Accounts \cup {None} /\ Onboarding!NextId \in Onboarding!Ids
  BY NextIdIsId DEF Onboarding!IInv, Onboarding!TypeOK
<1>2. [id |-> Onboarding!NextId, enabled |-> TRUE, groups |-> {}] \in Onboarding!Accounts
  BY <1>1 DEF Onboarding!Accounts
<1>3. ASSUME NEW b \in BOOLEAN, NEW gs \in SUBSET OnboardingGroups, s2 # None
      PROVE  [s2 EXCEPT !.enabled = b, !.groups = gs] \in Onboarding!Accounts
  BY <1>1, <1>3 DEF Onboarding!Accounts
<1> QED BY <1>2, <1>3, OnboardingLoginKeeps, OnboardingExpireKeeps, OnboardingDoctorKeeps,
           OnboardingChooseKeeps, OnboardingGiveUpKeeps, OnboardingPrevalidateKeeps,
           OnboardingCheckNewKeeps, OnboardingCheckIdentityKeeps,
           OnboardingReadMembershipsKeeps, OnboardingSendKeeps, OnboardingSendFailsKeeps,
           OnboardingAcceptedKeeps, OnboardingNotAcceptedKeeps, OnboardingInterruptedKeeps,
           OnboardingCompleteKeeps, OnboardingLandKeeps, OnboardingChangeRealmKeeps,
           OnboardingChangeAccountKeeps DEF Onboarding!Next

-----------------------------------------------------------------------------
(* A realm's Jobs: s1 objects, s2 links, s3 the links wanted, s4 the Jobs,  *)
(* s5 their answers, s6 links that administrators changed, s7 and s8 the    *)
(* bounds.                                                                  *)

(* A link that a Job sees to is removed by no other, and added by another   *)
(* only where both only add it.                                             *)
LEMMA OwnLinks ==
  ASSUME NEW i \in RealmJobs, NEW j \in RealmJobs, i # j, NEW p
  PROVE  /\ p \in OwnedBy[j] => p \notin Realm!Mine(i)
         /\ p \in Realm!Mine(j) /\ p \in Realm!Mine(i) => p \in AddedBy[i] /\ p \notin OwnedBy[i]
<1>1. OwnedBy[j] \cap (OwnedBy[i] \cup AddedBy[i]) = {}
      /\ OwnedBy[i] \cap (OwnedBy[j] \cup AddedBy[j]) = {}
  BY RealmAssumption DEF Realm!RealmAssumption
<1> QED BY <1>1 DEF Realm!Mine

(* A Job's links are links, and their holders are objects.                  *)
LEMMA MinePairs ==
  ASSUME NEW j \in RealmJobs
  PROVE  Realm!Mine(j) \subseteq Realm!Pairs /\ Realm!Holders(j) \subseteq RealmObjects
<1>1. Realm!Mine(j) \subseteq Realm!Pairs
  BY RealmAssumption DEF Realm!RealmAssumption, Realm!Mine
<1> QED BY <1>1 DEF Realm!Holders, Realm!Pairs

(* What is left of another Job's progress by a step of Job j.               *)
LEMMA RealmOthersKeep ==
  ASSUME Realm!IInv, NEW j \in RealmJobs, NEW i \in RealmJobs, i # j,
         s2 \ s2' \subseteq OwnedBy[j],
         s2' \ s2 \subseteq Realm!Mine(j), UNCHANGED <<s3, s6>>, s4'[i] = s4[i],
         s5'[i] = s5[i]
  PROVE  /\ s4[i].step \in {"links", "remove", "add", "check"} =>
              \A p \in Realm!Untouched(i) : p[1] \notin s4[i].todo \cup s4[i].at =>
                Realm!Settled(i, p)'
         /\ \A p \in Realm!Untouched(i) : p[1] \in s4[i].at =>
              /\ Realm!At(i, "remove") =>
                   /\ p \in s4[i].seen => p \in s2'
                   /\ p \in OwnedBy[i] \cap s2' => p \in s4[i].seen
              /\ Realm!At(i, "add") =>
                   /\ p \in OwnedBy[i] \cap s2' => p \in s3[i]
                   /\ p \in s4[i].seen \cap s3[i] => p \in s2'
              /\ Realm!At(i, "check") => Realm!Settled(i, p)'
         /\ s5[i] = "done" => \A p \in Realm!Untouched(i) : Realm!Settled(i, p)'
<1>1. ASSUME NEW p \in Realm!Mine(i)
      PROVE  /\ p \in s2 => p \in s2'
             /\ p \in s2' => p \in s2 \/ (p \in AddedBy[i] /\ p \notin OwnedBy[i])
  BY <1>1, OwnLinks
<1>2. ~Realm!At(i, "idle") \/ s5[i] = "done" => AddedBy[i] \subseteq s3[i]
  BY DEF Realm!IInv, Realm!WantsOwn
<1>3. Realm!Untouched(i) \subseteq Realm!Mine(i)
  BY DEF Realm!Untouched
<1>4. ASSUME NEW p \in Realm!Untouched(i), Realm!Settled(i, p),
             ~Realm!At(i, "idle") \/ s5[i] = "done"
      PROVE  Realm!Settled(i, p)'
  BY <1>1, <1>2, <1>3, <1>4 DEF Realm!Settled
<1>5. s4[i].step \in {"links", "remove", "add", "check"} =>
        \A p \in Realm!Untouched(i) : p[1] \notin s4[i].todo \cup s4[i].at => Realm!Settled(i, p)'
  BY <1>4 DEF Realm!IInv, Realm!HoldersDone, Realm!At
<1>6. s5[i] = "done" => \A p \in Realm!Untouched(i) : Realm!Settled(i, p)'
  BY <1>4 DEF Realm!IInv, Realm!OwnedStand, Realm!Untouched, Realm!Settled
<1>7. ASSUME NEW p \in Realm!Untouched(i), p[1] \in s4[i].at
      PROVE  /\ Realm!At(i, "remove") =>
                  /\ p \in s4[i].seen => p \in s2'
                  /\ p \in OwnedBy[i] \cap s2' => p \in s4[i].seen
             /\ Realm!At(i, "add") =>
                  /\ p \in OwnedBy[i] \cap s2' => p \in s3[i]
                  /\ p \in s4[i].seen \cap s3[i] => p \in s2'
             /\ Realm!At(i, "check") => Realm!Settled(i, p)'
  <2>1. p \in Realm!Mine(i)
    BY <1>3
  <2>2. /\ Realm!At(i, "remove") =>
             /\ p \in s4[i].seen => p \in s2
             /\ p \in OwnedBy[i] \cap s2 => p \in s4[i].seen
        /\ Realm!At(i, "add") =>
             /\ p \in OwnedBy[i] \cap s2 => p \in s3[i]
             /\ p \in s4[i].seen \cap s3[i] => p \in s2
        /\ Realm!At(i, "check") => Realm!Settled(i, p)
    BY <1>7 DEF Realm!IInv, Realm!HolderUnderway
  <2> QED BY <1>1, <1>4, <2>1, <2>2 DEF Realm!At
<1> QED BY <1>5, <1>6, <1>7

(* A step of one Job, with the progress that it makes.                      *)
LEMMA RealmStepKeeps ==
  ASSUME Realm!IInv, NEW j \in RealmJobs, NEW r \in Realm!Runs, s4' = [s4 EXCEPT ![j] = r],
         s2' \subseteq Realm!Pairs, s2 \ s2' \subseteq OwnedBy[j],
         s2' \ s2 \subseteq Realm!Mine(j),
         UNCHANGED <<s3, s6, s8, s7>>, s1' \subseteq RealmObjects,
         NEW word \in {"nothing", "done", "failed"}, s5' = [s5 EXCEPT ![j] = word],
         r.step = "idle" \/ word = "nothing",
         r.step # "idle" \/ word = "done" => ~Realm!At(j, "idle"),
         r.step \in {"ensure", "links"} => r.at = {}, \A h, g \in r.at : h = g,
         \A p \in Realm!Untouched(j) :
           /\ r.step \in {"links", "remove", "add", "check"} /\ p[1] \notin r.todo \cup r.at =>
                Realm!Settled(j, p)'
           /\ word = "done" => Realm!Settled(j, p)'
           /\ p[1] \in r.at =>
                /\ r.step = "remove" =>
                     /\ p \in r.seen => p \in s2'
                     /\ p \in OwnedBy[j] \cap s2' => p \in r.seen
                /\ r.step = "add" =>
                     /\ p \in OwnedBy[j] \cap s2' => p \in s3[j]
                     /\ p \in r.seen \cap s3[j] => p \in s2'
                /\ r.step = "check" => Realm!Settled(j, p)'
  PROVE  Realm!IInv'
<1>1. s4 \in [RealmJobs -> Realm!Runs] /\ s5 \in [RealmJobs -> {"nothing", "done", "failed"}]
  BY DEF Realm!IInv, Realm!TypeOK
<1>2. s4'[j] = r /\ s5'[j] = word
      /\ \A i \in RealmJobs : i # j => s4'[i] = s4[i] /\ s5'[i] = s5[i]
  BY <1>1
<1>3. Realm!TypeOK'
  BY <1>1 DEF Realm!IInv, Realm!TypeOK
<1>4. Realm!Untouched(j)' = Realm!Untouched(j)
      /\ \A i \in RealmJobs : Realm!Untouched(i)' = Realm!Untouched(i)
  BY DEF Realm!Untouched, Realm!Mine
<1>5. Realm!WantsOwn'
  BY <1>2 DEF Realm!IInv, Realm!WantsOwn, Realm!At, Realm!Mine
<1>6. Realm!HoldersDone'
  <2>1. ASSUME NEW i \in RealmJobs, i # j, s4'[i].step \in {"links", "remove", "add", "check"},
               NEW p \in Realm!Untouched(i), p[1] \notin s4'[i].todo \cup s4'[i].at
        PROVE  Realm!Settled(i, p)'
    <3>1. s4'[i] = s4[i] /\ s5'[i] = s5[i]
      BY <1>2, <2>1
    <3> QED BY <2>1, <3>1, RealmOthersKeep
  <2> QED BY <1>2, <1>4, <2>1 DEF Realm!HoldersDone
<1>7. Realm!HolderUnderway'
  <2>1. ASSUME NEW i \in RealmJobs, i # j, NEW p \in Realm!Untouched(i), p[1] \in s4'[i].at
        PROVE  /\ Realm!At(i, "remove")' =>
                    /\ p \in s4'[i].seen => p \in s2'
                    /\ p \in OwnedBy[i] \cap s2' => p \in s4'[i].seen
               /\ Realm!At(i, "add")' =>
                    /\ p \in OwnedBy[i] \cap s2' => p \in s3'[i]
                    /\ p \in s4'[i].seen \cap s3'[i] => p \in s2'
               /\ Realm!At(i, "check")' => Realm!Settled(i, p)'
    <3>1. s4'[i] = s4[i] /\ s5'[i] = s5[i]
      BY <1>2, <2>1
    <3> QED BY <2>1, <3>1, RealmOthersKeep DEF Realm!At
  <2> QED BY <1>2, <1>4, <2>1 DEF Realm!HolderUnderway, Realm!At
<1>8. Realm!AtHolder'
  BY <1>2 DEF Realm!IInv, Realm!AtHolder
<1>9. Realm!OwnedStand'
  <2>1. ASSUME NEW i \in RealmJobs, s5'[i] = "done", NEW p \in Realm!Untouched(i)
        PROVE  Realm!Settled(i, p)'
    <3>1. CASE i = j
      BY <1>2, <2>1, <3>1
    <3>2. CASE i # j
      <4>1. s4'[i] = s4[i] /\ s5'[i] = s5[i]
        BY <1>2, <3>2
      <4> QED BY <2>1, <3>2, <4>1, RealmOthersKeep
    <3> QED BY <3>1, <3>2
  <2> QED BY <1>4, <2>1 DEF Realm!OwnedStand, Realm!Untouched, Realm!Settled, Realm!Mine
<1> QED BY <1>3, <1>5, <1>6, <1>7, <1>8, <1>9 DEF Realm!IInv

(* No Job has begun.                                                        *)
LEMMA RealmInit == Realm!Init => Realm!IInv
<1> SUFFICES ASSUME Realm!Init PROVE Realm!IInv OBVIOUS
<1>1. Realm!Idle \in Realm!Runs /\ Realm!Idle.step = "idle" /\ Realm!Idle.at = {}
  BY DEF Realm!Idle, Realm!Runs
<1>2. 0 \in 0..RealmRuns /\ 0 \in 0..RealmEdits
  BY RealmAssumption DEF Realm!RealmAssumption
<1>3. s1 \subseteq RealmObjects /\ s2 \subseteq Realm!Pairs
  BY MinePairs DEF Realm!Init
<1>4. /\ s3 = [j \in RealmJobs |-> {}] /\ s6 = [j \in RealmJobs |-> {}]
      /\ s4 = [j \in RealmJobs |-> Realm!Idle]
      /\ s5 = [j \in RealmJobs |-> "nothing"] /\ s7 = 0 /\ s8 = 0
  BY DEF Realm!Init
<1>5. Realm!TypeOK
  BY <1>1, <1>2, <1>3, <1>4 DEF Realm!TypeOK
<1>6. Realm!WantsOwn /\ Realm!HoldersDone /\ Realm!HolderUnderway /\ Realm!AtHolder
      /\ Realm!OwnedStand
  BY <1>1, <1>4
    DEF Realm!WantsOwn, Realm!HoldersDone, Realm!HolderUnderway, Realm!AtHolder,
     Realm!OwnedStand, Realm!At
<1> QED BY <1>5, <1>6 DEF Realm!IInv

(* A Job starts with its configuration and is told nothing.                 *)
LEMMA RealmStartKeeps ==
  ASSUME Realm!IInv, NEW j \in RealmJobs, NEW w \in SUBSET OwnedBy[j], Realm!Start(j, w)
  PROVE  Realm!IInv'
<1>0. PICK r : r = [Realm!Idle EXCEPT !.step = "ensure", !.todo = DeclaredBy[j],
               !.seen = Realm!Roles \cap s1]
  OBVIOUS
<1>1. /\ s4 \in [RealmJobs -> Realm!Runs] /\ s5 \in [RealmJobs -> {"nothing", "done", "failed"}]
      /\ s3 \in [RealmJobs -> SUBSET Realm!Pairs] /\ s6 \in [RealmJobs -> SUBSET Realm!Pairs]
      /\ s7 \in 0..RealmRuns
  BY DEF Realm!IInv, Realm!TypeOK
<1>2. /\ Realm!At(j, "idle") /\ s7 < RealmRuns /\ s7' = s7 + 1 /\ s4' = [s4 EXCEPT ![j] = r]
      /\ s5' = [s5 EXCEPT ![j] = "nothing"] /\ s3' = [s3 EXCEPT ![j] = w \cup AddedBy[j]]
      /\ s6' = [s6 EXCEPT ![j] = {}] /\ UNCHANGED <<s1, s2, s8>>
  BY <1>0 DEF Realm!Start
<1>3. r \in Realm!Runs /\ r.step = "ensure" /\ r.at = {}
  BY <1>0, RealmAssumption DEF Realm!RealmAssumption, Realm!Idle, Realm!Runs, Realm!Roles
<1>4. w \cup AddedBy[j] \subseteq Realm!Mine(j) /\ w \cup AddedBy[j] \in SUBSET Realm!Pairs
  BY MinePairs DEF Realm!Mine
<1>5. s7' \in 0..RealmRuns
  BY <1>1, <1>2, RealmAssumption DEF Realm!RealmAssumption
<1>6. Realm!TypeOK'
  BY <1>1, <1>2, <1>3, <1>4, <1>5 DEF Realm!IInv, Realm!TypeOK
<1>7. /\ s4'[j] = r /\ s5'[j] = "nothing" /\ s3'[j] = w \cup AddedBy[j]
      /\ \A i \in RealmJobs : i # j => /\ s4'[i] = s4[i] /\ s5'[i] = s5[i]
                                       /\ s3'[i] = s3[i] /\ s6'[i] = s6[i]
  BY <1>1, <1>2
<1>8. Realm!WantsOwn'
  BY <1>3, <1>4, <1>7 DEF Realm!IInv, Realm!WantsOwn, Realm!At, Realm!Mine
<1>9. \A i \in RealmJobs : i # j => /\ Realm!Untouched(i)' = Realm!Untouched(i)
                                    /\ \A p : Realm!Settled(i, p)' <=> Realm!Settled(i, p)
  BY <1>2, <1>7 DEF Realm!Untouched, Realm!Mine, Realm!Settled
<1>10. Realm!HoldersDone'
  BY <1>3, <1>7, <1>9 DEF Realm!IInv, Realm!HoldersDone
<1>11. Realm!HolderUnderway'
  BY <1>2, <1>3, <1>7, <1>9 DEF Realm!IInv, Realm!HolderUnderway, Realm!At
<1>12. Realm!AtHolder'
  BY <1>3, <1>7 DEF Realm!IInv, Realm!AtHolder
<1>13. Realm!OwnedStand'
  BY <1>2, <1>7 DEF Realm!IInv, Realm!OwnedStand, Realm!Mine
<1> QED BY <1>6, <1>8, <1>10, <1>11, <1>12, <1>13 DEF Realm!IInv

(* A Job that ends without success claims nothing.                          *)
LEMMA RealmEndKeeps ==
  ASSUME Realm!IInv, NEW j \in RealmJobs, ~Realm!At(j, "idle"), Realm!End(j, "failed"),
         s2' \subseteq Realm!Pairs, s2 \ s2' \subseteq OwnedBy[j],
         s2' \ s2 \subseteq Realm!Mine(j),
         UNCHANGED <<s3, s6, s8>>, s1' \subseteq RealmObjects
  PROVE  Realm!IInv'
<1>1. Realm!Idle \in Realm!Runs /\ Realm!Idle.step = "idle" /\ Realm!Idle.at = {}
  BY DEF Realm!Idle, Realm!Runs
<1>2. s4' = [s4 EXCEPT ![j] = Realm!Idle] /\ s5' = [s5 EXCEPT ![j] = "failed"] /\ s7' = s7
  BY DEF Realm!End
<1> QED BY <1>1, <1>2, RealmStepKeeps

(* A Job that goes on has been told nothing.                                *)
LEMMA StillUntold ==
  ASSUME Realm!IInv, NEW j \in RealmJobs, ~Realm!At(j, "idle"), UNCHANGED s5
  PROVE  s5' = [s5 EXCEPT ![j] = "nothing"]
  BY DEF Realm!IInv, Realm!TypeOK, Realm!WantsOwn

(* A request that failed.                                                   *)
LEMMA RealmFailsKeeps == ASSUME Realm!IInv, NEW j \in RealmJobs, Realm!Fails(j) PROVE Realm!IInv'
<1>1. s2' = s2 /\ s1' = s1 /\ s2 \subseteq Realm!Pairs /\ s1 \subseteq RealmObjects
  BY DEF Realm!Fails, Realm!IInv, Realm!TypeOK
<1> QED BY <1>1, RealmEndKeeps DEF Realm!Fails, Realm!worldVars

(* An object after the other.                                               *)
LEMMA RealmEnsureKeeps ==
  ASSUME Realm!IInv, NEW j \in RealmJobs, NEW o, Realm!At(j, "ensure"), Realm!Passes(j, o),
         UNCHANGED <<s2, Realm!worldVars>>,
         s1' \subseteq RealmObjects
  PROVE  Realm!IInv'
<1>1. s4 \in [RealmJobs -> Realm!Runs] /\ s4[j].at = {} /\ s4[j].step = "ensure"
  BY DEF Realm!IInv, Realm!TypeOK, Realm!AtHolder, Realm!At
<1>2. PICK r : r = [s4[j] EXCEPT !.todo = s4[j].todo \ {o}]
  OBVIOUS
<1>3. r \in Realm!Runs /\ r.step = "ensure" /\ r.at = {}
  BY <1>1, <1>2 DEF Realm!Runs
<1>4. s4' = [s4 EXCEPT ![j] = r] /\ UNCHANGED <<s5, s7>>
  BY <1>2 DEF Realm!Passes, Realm!Set
<1>5. s5' = [s5 EXCEPT ![j] = "nothing"]
  BY <1>4, StillUntold DEF Realm!At
<1>6. s2' = s2 /\ s2 \subseteq Realm!Pairs
  BY DEF Realm!IInv, Realm!TypeOK
<1> QED BY <1>1, <1>3, <1>4, <1>5, <1>6, RealmStepKeeps DEF Realm!At, Realm!worldVars

(* An object that is there afterwards, or a failure.                        *)
LEMMA RealmPutKeeps ==
  ASSUME Realm!IInv, NEW j \in RealmJobs, NEW o \in RealmObjects, Realm!At(j, "ensure"),
         Realm!Put(j, o)
  PROVE  Realm!IInv'
<1>1. /\ s1' \subseteq RealmObjects /\ UNCHANGED <<s2, Realm!worldVars>>
      /\ s2 \subseteq Realm!Pairs
      /\ s2' \subseteq Realm!Pairs
  BY DEF Realm!Put, Realm!IInv, Realm!TypeOK
<1>2. CASE Realm!Passes(j, o)
  BY <1>1, <1>2, RealmEnsureKeeps
<1>3. CASE Realm!End(j, "failed")
  BY <1>1, <1>3, RealmEndKeeps DEF Realm!At, Realm!worldVars
<1> QED BY <1>2, <1>3 DEF Realm!Put

(* A role that was listed is skipped; one created since is a conflict.      *)
LEMMA RealmCreateRoleKeeps ==
  ASSUME Realm!IInv, NEW j \in RealmJobs, NEW o \in RealmObjects, Realm!CreateRole(j, o)
  PROVE  Realm!IInv'
<1>1. Realm!At(j, "ensure") /\ s2 \subseteq Realm!Pairs /\ s1 \subseteq RealmObjects
  BY DEF Realm!CreateRole, Realm!Ensures, Realm!IInv, Realm!TypeOK
<1>2. CASE o \in s4[j].seen
  <2>1. Realm!Passes(j, o) /\ UNCHANGED <<s1, s2, Realm!worldVars>>
    BY <1>2 DEF Realm!CreateRole
  <2> QED BY <1>1, <2>1, RealmEnsureKeeps
<1>3. CASE o \in s1 \ s4[j].seen
  <2>1. Realm!End(j, "failed") /\ UNCHANGED <<s1, s2, Realm!worldVars>>
    BY <1>3 DEF Realm!CreateRole
  <2> QED BY <1>1, <2>1, RealmEndKeeps DEF Realm!At, Realm!worldVars
<1>4. CASE o \notin s4[j].seen /\ o \notin s1 \ s4[j].seen
  <2>1. Realm!Put(j, o)
    BY <1>4 DEF Realm!CreateRole
  <2> QED BY <1>1, <2>1, RealmPutKeeps
<1> QED BY <1>2, <1>3, <1>4

(* With the objects ensured, every holder is still to do.                   *)
LEMMA RealmEnsuredKeeps ==
  ASSUME Realm!IInv, NEW j \in RealmJobs, Realm!Ensured(j)
  PROVE  Realm!IInv'
<1>1. /\ Realm!At(j, "ensure") /\ s2 \subseteq Realm!Pairs /\ s1 \subseteq RealmObjects
      /\ UNCHANGED <<s1, s2, Realm!worldVars>>
  BY DEF Realm!Ensured, Realm!IInv, Realm!TypeOK
<1>2. CASE Realm!End(j, "failed")
  BY <1>1, <1>2, RealmEndKeeps DEF Realm!At, Realm!worldVars
<1>3. CASE Realm!Set(j, [Realm!Idle EXCEPT !.step = "links", !.todo = Realm!Holders(j)])
  <2>5. PICK r : r = [Realm!Idle EXCEPT !.step = "links", !.todo = Realm!Holders(j)]
    OBVIOUS
  <2>1. s4' = [s4 EXCEPT ![j] = r] /\ UNCHANGED <<s5, s7>>
    BY <1>3, <2>5 DEF Realm!Set
  <2>2. r \in Realm!Runs /\ r.step = "links" /\ r.at = {} /\ r.todo = Realm!Holders(j)
    BY MinePairs, <2>5 DEF Realm!Idle, Realm!Runs
  <2>3. s5' = [s5 EXCEPT ![j] = "nothing"]
    BY <1>1, <2>1, StillUntold DEF Realm!At
  <2>4. \A p \in Realm!Untouched(j) : p[1] \in r.todo
    BY <2>2 DEF Realm!Untouched, Realm!Holders
  <2> QED BY <1>1, <2>1, <2>2, <2>3, <2>4, RealmStepKeeps DEF Realm!At, Realm!worldVars
<1> QED BY <1>2, <1>3 DEF Realm!Ensured

(* A holder is taken: what is read of it is what there is.                  *)
LEMMA RealmReadsKeeps ==
  ASSUME Realm!IInv, NEW j \in RealmJobs, NEW h \in RealmObjects, Realm!At(j, "links"),
         NEW step, NEW seen,
         Realm!Reads(j, h, step, seen),
         \/ step = "remove" /\ seen = Realm!Holds(h, s2)
         \/ step = "add" /\ seen = {} /\ \A p \in OwnedBy[j] : p[1] # h
  PROVE  Realm!IInv'
<1>1. /\ s2 \subseteq Realm!Pairs /\ s1 \subseteq RealmObjects /\ s4 \in [RealmJobs -> Realm!Runs]
      /\ UNCHANGED <<s1, s2, Realm!worldVars>>
  BY DEF Realm!Reads, Realm!IInv, Realm!TypeOK
<1>2. CASE Realm!End(j, "failed")
  BY <1>1, <1>2, RealmEndKeeps DEF Realm!At, Realm!worldVars
<1>3. CASE Realm!Set(j, [step |-> step, todo |-> s4[j].todo \ {h}, at |-> {h}, seen |-> seen])
  <2> DEFINE r == [step |-> step, todo |-> s4[j].todo \ {h}, at |-> {h}, seen |-> seen]
  <2>1. s4' = [s4 EXCEPT ![j] = r] /\ UNCHANGED <<s5, s7>>
    BY <1>3 DEF Realm!Set
  <2>2. seen \subseteq s2
    BY DEF Realm!Holds
  <2>3. r \in Realm!Runs /\ r.step = step /\ r.at = {h} /\ r.todo = s4[j].todo \ {h}
        /\ r.seen = seen
    BY <1>1, <2>2 DEF Realm!Runs
  <2>4. s5' = [s5 EXCEPT ![j] = "nothing"]
    BY <1>1, <2>1, StillUntold DEF Realm!At
  <2>5. \A p \in Realm!Untouched(j) : p[1] \notin r.todo \cup r.at => Realm!Settled(j, p)'
    <3>1. \A p \in Realm!Untouched(j) : p[1] \notin s4[j].todo \cup s4[j].at =>
            Realm!Settled(j, p)
      BY DEF Realm!IInv, Realm!HoldersDone, Realm!At
    <3>2. s4[j].at = {}
      BY DEF Realm!IInv, Realm!AtHolder, Realm!At
    <3> QED BY <1>1, <2>3, <3>1, <3>2 DEF Realm!Settled, Realm!worldVars
  <2>6. \A p \in Realm!Untouched(j) : p[1] = h =>
          /\ r.step = "remove" =>
               /\ p \in r.seen => p \in s2'
               /\ p \in OwnedBy[j] \cap s2' => p \in r.seen
          /\ r.step = "add" =>
               /\ p \in OwnedBy[j] \cap s2' => p \in s3[j]
               /\ p \in r.seen \cap s3[j] => p \in s2'
    BY <1>1, <2>3 DEF Realm!Holds
  <2> HIDE DEF r
  <2> QED BY <1>1, <2>1, <2>3, <2>4, <2>5, <2>6, RealmStepKeeps DEF Realm!At, Realm!worldVars
<1> QED BY <1>2, <1>3 DEF Realm!Reads

(* Owned links are of roles and groups, which are read before they change.  *)
LEMMA RealmTakenKeeps ==
  ASSUME Realm!IInv, NEW j \in RealmJobs, NEW h \in RealmObjects,
         \/ Realm!ReadComposites(j, h) \/ Realm!ReadGroupRoles(j, h)
         \/ Realm!ReadClientComposites(j, h)
         \/ Realm!FindAccount(j, h) \/ Realm!FindMemberships(j, h)
  PROVE  Realm!IInv'
<1>1. Realm!At(j, "links")
  BY DEF Realm!ReadComposites, Realm!ReadGroupRoles, Realm!ReadClientComposites,
     Realm!FindAccount, Realm!FindMemberships, Realm!Takes
<1>2. CASE Realm!ReadComposites(j, h) \/ Realm!ReadGroupRoles(j, h)
           \/ Realm!ReadClientComposites(j, h)
  <2>1. Realm!Reads(j, h, "remove", Realm!Holds(h, s2))
    BY <1>2 DEF Realm!ReadComposites, Realm!ReadGroupRoles, Realm!ReadClientComposites
  <2> QED BY <1>1, <2>1, RealmReadsKeeps
<1>3. CASE Realm!FindAccount(j, h) \/ Realm!FindMemberships(j, h)
  <2>1. Realm!Reads(j, h, "add", {}) /\ KindOf[h] \in {"client", "user"}
    BY <1>3 DEF Realm!FindAccount, Realm!FindMemberships, Realm!Takes
  <2>2. \A p \in OwnedBy[j] : p[1] # h
    BY <2>1, RealmAssumption DEF Realm!RealmAssumption
  <2> QED BY <1>1, <2>1, <2>2, RealmReadsKeeps
<1> QED BY <1>2, <1>3

(* The links that were read and are no longer wanted go, and none that is.  *)
LEMMA RealmRemoveStaleKeeps ==
  ASSUME Realm!IInv, NEW j \in RealmJobs, Realm!RemoveStale(j)
  PROVE  Realm!IInv'
<1>1. /\ Realm!At(j, "remove") /\ s2' = s2 \ Realm!Stale(j) /\ UNCHANGED <<s1, Realm!worldVars>>
      /\ s2' \subseteq Realm!Pairs /\ s1 \subseteq RealmObjects
      /\ s4 \in [RealmJobs -> Realm!Runs]
      /\ s2 \ s2' \subseteq OwnedBy[j] /\ s2' \ s2 \subseteq Realm!Mine(j)
  BY DEF Realm!RemoveStale, Realm!Stale, Realm!IInv, Realm!TypeOK
<1>2. CASE Realm!End(j, "failed")
  BY <1>1, <1>2, RealmEndKeeps DEF Realm!At, Realm!worldVars
<1>3. CASE Realm!To(j, "add")
  <2>1. PICK r : r = [s4[j] EXCEPT !.step = "add"]
    OBVIOUS
  <2>2. s4' = [s4 EXCEPT ![j] = r] /\ UNCHANGED <<s5, s7>>
    BY <1>3, <2>1 DEF Realm!To, Realm!Set
  <2>3. r \in Realm!Runs /\ r.step = "add" /\ r.at = s4[j].at /\ r.todo = s4[j].todo
        /\ r.seen = s4[j].seen
    BY <1>1, <2>1 DEF Realm!Runs
  <2>8. \A h, g \in r.at : h = g
    BY <2>3 DEF Realm!IInv, Realm!AtHolder
  <2>4. s5' = [s5 EXCEPT ![j] = "nothing"]
    BY <1>1, <2>2, StillUntold DEF Realm!At
  <2>5. \A p \in Realm!Untouched(j) : p[1] \notin r.todo \cup r.at => Realm!Settled(j, p)'
    <3>1. \A p \in Realm!Untouched(j) : p[1] \notin s4[j].todo \cup s4[j].at =>
            Realm!Settled(j, p)
      BY <1>1 DEF Realm!IInv, Realm!HoldersDone, Realm!At
    <3> QED BY <1>1, <2>3, <3>1 DEF Realm!Settled, Realm!Stale, Realm!worldVars
  <2>6. \A p \in Realm!Untouched(j) : p[1] \in r.at =>
          /\ p \in OwnedBy[j] \cap s2' => p \in s3[j]
          /\ p \in r.seen \cap s3[j] => p \in s2'
    <3>1. \A p \in Realm!Untouched(j) : p[1] \in s4[j].at =>
            /\ p \in s4[j].seen => p \in s2
            /\ p \in OwnedBy[j] \cap s2 => p \in s4[j].seen
      BY <1>1 DEF Realm!IInv, Realm!HolderUnderway
    <3> QED BY <1>1, <2>3, <3>1 DEF Realm!Stale
  <2> QED BY <1>1, <2>8, <2>2, <2>3, <2>4, <2>5, <2>6, RealmStepKeeps
            DEF Realm!At, Realm!worldVars
<1> QED BY <1>2, <1>3 DEF Realm!RemoveStale

(* Whatever is wanted of this holder is there then.                         *)
LEMMA RealmAddMissingKeeps ==
  ASSUME Realm!IInv, NEW j \in RealmJobs, Realm!AddMissing(j)
  PROVE  Realm!IInv'
<1>1. /\ Realm!At(j, "add") /\ UNCHANGED <<s1, Realm!worldVars>> /\ s2 \subseteq Realm!Pairs
      /\ s1 \subseteq RealmObjects /\ s4 \in [RealmJobs -> Realm!Runs]
  BY DEF Realm!AddMissing, Realm!IInv, Realm!TypeOK
<1>2. Realm!Missing(j) \subseteq s3[j] /\ s3[j] \subseteq Realm!Mine(j)
      /\ Realm!Mine(j) \subseteq Realm!Pairs
  BY MinePairs DEF Realm!Missing, Realm!Holds, Realm!IInv, Realm!WantsOwn
<1>3. CASE \E some \in SUBSET Realm!Missing(j) : s2' = s2 \cup some /\ Realm!End(j, "failed")
  BY <1>1, <1>2, <1>3, RealmEndKeeps DEF Realm!At, Realm!worldVars
<1>4. CASE s2' = s2 \cup Realm!Missing(j) /\ Realm!To(j, "check")
  <2>1. PICK r : r = [s4[j] EXCEPT !.step = "check"]
    OBVIOUS
  <2>2. s4' = [s4 EXCEPT ![j] = r] /\ UNCHANGED <<s5, s7>>
    BY <1>4, <2>1 DEF Realm!To, Realm!Set
  <2>3. r \in Realm!Runs /\ r.step = "check" /\ r.at = s4[j].at /\ r.todo = s4[j].todo
        /\ r.seen = s4[j].seen
    BY <1>1, <2>1 DEF Realm!Runs
  <2>8. \A h, g \in r.at : h = g
    BY <2>3 DEF Realm!IInv, Realm!AtHolder
  <2>4. s5' = [s5 EXCEPT ![j] = "nothing"]
    BY <1>1, <2>2, StillUntold DEF Realm!At
  <2>5. \A p \in Realm!Untouched(j) : p[1] \notin r.todo \cup r.at => Realm!Settled(j, p)'
    <3>1. \A p \in Realm!Untouched(j) : p[1] \notin s4[j].todo \cup s4[j].at =>
            Realm!Settled(j, p)
      BY <1>1 DEF Realm!IInv, Realm!HoldersDone, Realm!At
    <3> QED BY <1>1, <1>2, <1>4, <2>3, <3>1 DEF Realm!Settled, Realm!worldVars
  <2>6. \A p \in Realm!Untouched(j) : p[1] \in r.at => Realm!Settled(j, p)'
    <3> SUFFICES ASSUME NEW p \in Realm!Untouched(j), p[1] \in s4[j].at PROVE Realm!Settled(j, p)'
      BY <2>3
    <3>1. /\ p \in OwnedBy[j] \cap s2 => p \in s3[j]
          /\ p \in s4[j].seen \cap s3[j] => p \in s2
      BY <1>1 DEF Realm!IInv, Realm!HolderUnderway
    <3>2. AddedBy[j] \subseteq s3[j] /\ p \in OwnedBy[j] \cup AddedBy[j]
      BY <1>1 DEF Realm!IInv, Realm!WantsOwn, Realm!At, Realm!Untouched, Realm!Mine
    <3>3. ASSUME p \in s3[j], p \notin s4[j].seen PROVE p \in s2'
      <4>1. p \in Realm!Holds(p[1], s3[j])
        BY <3>3 DEF Realm!Holds
      <4> DEFINE all == UNION {Realm!Holds(h, s3[j]) : h \in s4[j].at}
      <4>2. p \in all
        BY <4>1
      <4>3. Realm!Missing(j) = all \ s4[j].seen
        BY DEF Realm!Missing
      <4> HIDE DEF all
      <4>4. p \in Realm!Missing(j)
        BY <3>3, <4>2, <4>3
      <4> QED BY <1>4, <4>4
    <3> QED BY <1>1, <1>2, <1>4, <3>1, <3>2, <3>3 DEF Realm!Settled, Realm!worldVars
  <2>7. s2' \subseteq Realm!Pairs /\ s2 \ s2' \subseteq OwnedBy[j]
        /\ s2' \ s2 \subseteq Realm!Mine(j)
    BY <1>1, <1>2, <1>4
  <2> QED BY <1>1, <2>8, <2>2, <2>3, <2>4, <2>5, <2>6, <2>7, RealmStepKeeps
            DEF Realm!At, Realm!worldVars
<1> QED BY <1>3, <1>4 DEF Realm!AddMissing

(* A holder more is done.                                                   *)
LEMMA RealmCheckKeeps ==
  ASSUME Realm!IInv, NEW j \in RealmJobs, NEW h \in RealmObjects, Realm!Check(j, h)
  PROVE  Realm!IInv'
<1>1. /\ Realm!At(j, "check") /\ h \in s4[j].at /\ UNCHANGED <<s1, s2, Realm!worldVars>>
      /\ s2 \subseteq Realm!Pairs /\ s1 \subseteq RealmObjects /\ s4 \in [RealmJobs -> Realm!Runs]
  BY DEF Realm!Check, Realm!IInv, Realm!TypeOK
<1>2. CASE Realm!End(j, "failed")
  BY <1>1, <1>2, RealmEndKeeps DEF Realm!At, Realm!worldVars
<1>3. CASE Realm!Set(j, [Realm!Idle EXCEPT !.step = "links", !.todo = s4[j].todo])
  <2>1. PICK r : r = [Realm!Idle EXCEPT !.step = "links", !.todo = s4[j].todo]
    OBVIOUS
  <2>2. s4' = [s4 EXCEPT ![j] = r] /\ UNCHANGED <<s5, s7>>
    BY <1>3, <2>1 DEF Realm!Set
  <2>3. r \in Realm!Runs /\ r.step = "links" /\ r.at = {} /\ r.todo = s4[j].todo
    BY <1>1, <2>1 DEF Realm!Idle, Realm!Runs
  <2>4. s5' = [s5 EXCEPT ![j] = "nothing"]
    BY <1>1, <2>2, StillUntold DEF Realm!At
  <2>5. \A p \in Realm!Untouched(j) : p[1] \notin s4[j].todo \cup s4[j].at => Realm!Settled(j, p)
    BY <1>1 DEF Realm!IInv, Realm!HoldersDone, Realm!At
  <2>6. \A p \in Realm!Untouched(j) : p[1] \in s4[j].at => Realm!Settled(j, p)
    BY <1>1 DEF Realm!IInv, Realm!HolderUnderway
  <2>7. \A p \in Realm!Untouched(j) : p[1] \notin r.todo \cup r.at => Realm!Settled(j, p)'
    BY <1>1, <2>3, <2>5, <2>6 DEF Realm!Settled, Realm!worldVars
  <2> QED BY <1>1, <2>2, <2>3, <2>4, <2>7, RealmStepKeeps DEF Realm!At, Realm!worldVars
<1> QED BY <1>2, <1>3 DEF Realm!Check

(* When no holder is left the Job's links are as it wants them.             *)
LEMMA RealmDoneKeeps == ASSUME Realm!IInv, NEW j \in RealmJobs, Realm!Done(j) PROVE Realm!IInv'
<1>1. /\ Realm!At(j, "links") /\ s4[j].todo = {} /\ UNCHANGED <<s1, s2, Realm!worldVars>>
      /\ s2 \subseteq Realm!Pairs /\ s1 \subseteq RealmObjects
      /\ s4' = [s4 EXCEPT ![j] = Realm!Idle] /\ s5' = [s5 EXCEPT ![j] = "done"] /\ s7' = s7
  BY DEF Realm!Done, Realm!End, Realm!IInv, Realm!TypeOK
<1>2. Realm!Idle \in Realm!Runs /\ Realm!Idle.step = "idle" /\ Realm!Idle.at = {}
  BY DEF Realm!Idle, Realm!Runs
<1>3. s4[j].at = {}
  BY <1>1 DEF Realm!IInv, Realm!AtHolder, Realm!At
<1>4. \A p \in Realm!Untouched(j) : Realm!Settled(j, p)
  BY <1>1, <1>3 DEF Realm!IInv, Realm!HoldersDone, Realm!At
<1>5. \A p \in Realm!Untouched(j) : Realm!Settled(j, p)'
  BY <1>1, <1>4 DEF Realm!Settled, Realm!worldVars
<1> QED BY <1>1, <1>2, <1>5, RealmStepKeeps DEF Realm!At, Realm!worldVars

(* A link that an administrator changed is no longer spoken for.            *)
LEMMA RealmEditLinkKeeps ==
  ASSUME Realm!IInv, NEW p \in UNION {Realm!Mine(j) : j \in RealmJobs}, Realm!EditLink(p)
  PROVE  Realm!IInv'
<1>1. /\ s8 < RealmEdits /\ s8' = s8 + 1
      /\ s2' = (s2 \ {p}) \cup ({p} \ s2)
      /\ s6' = [j \in RealmJobs |-> s6[j] \cup (Realm!Mine(j) \cap {p})]
      /\ UNCHANGED <<s1, s3, s4, s5, s7>>
  BY DEF Realm!EditLink
<1>2. p \in Realm!Pairs /\ \A j \in RealmJobs : Realm!Mine(j) \subseteq Realm!Pairs
  BY MinePairs
<1>3. s8' \in 0..RealmEdits
  <2>1. s8 \in 0..RealmEdits
    BY DEF Realm!IInv, Realm!TypeOK
  <2> QED BY <1>1, <2>1, RealmAssumption DEF Realm!RealmAssumption
<1>4. Realm!TypeOK'
  BY <1>1, <1>2, <1>3 DEF Realm!IInv, Realm!TypeOK
<1>5. ASSUME NEW j \in RealmJobs, NEW q \in Realm!Untouched(j)'
      PROVE  q \in Realm!Untouched(j) /\ (q \in s2' <=> q \in s2)
  BY <1>1 DEF Realm!Untouched, Realm!Mine
<1>6. Realm!WantsOwn'
  BY <1>1 DEF Realm!IInv, Realm!WantsOwn, Realm!At, Realm!Mine
<1>7. Realm!HoldersDone'
  BY <1>1, <1>5 DEF Realm!IInv, Realm!HoldersDone, Realm!Settled
<1>8. Realm!HolderUnderway'
  BY <1>1, <1>5 DEF Realm!IInv, Realm!HolderUnderway, Realm!Settled, Realm!At
<1>9. Realm!AtHolder'
  BY <1>1 DEF Realm!IInv, Realm!AtHolder
<1>10. Realm!OwnedStand'
  BY <1>1, <1>5 DEF Realm!IInv, Realm!OwnedStand, Realm!Untouched, Realm!Mine
<1> QED BY <1>4, <1>6, <1>7, <1>8, <1>9, <1>10 DEF Realm!IInv

(* Every step of the Jobs and administrators.                               *)
LEMMA RealmNext == ASSUME Realm!IInv, Realm!Next PROVE Realm!IInv'
<1>2. ASSUME NEW j \in RealmJobs, NEW w \in SUBSET OwnedBy[j], Realm!Start(j, w) PROVE Realm!IInv'
  BY <1>2, RealmStartKeeps
<1>3. ASSUME NEW j \in RealmJobs,
             Realm!Ensured(j) \/ Realm!RemoveStale(j) \/ Realm!AddMissing(j) \/ Realm!Done(j)
             \/ Realm!Fails(j)
      PROVE  Realm!IInv'
  BY <1>3, RealmEnsuredKeeps, RealmRemoveStaleKeeps, RealmAddMissingKeeps, RealmDoneKeeps,
     RealmFailsKeeps
<1>4. ASSUME NEW j \in RealmJobs, NEW o \in s4[j].todo \cup s4[j].at,
             \/ Realm!UpsertClient(j, o) \/ Realm!UpsertUser(j, o) \/ Realm!CreateRole(j, o)
             \/ Realm!FindOrCreateGroup(j, o) \/ Realm!AddMapper(j, o)
             \/ Realm!ReadComposites(j, o) \/ Realm!ReadGroupRoles(j, o)
             \/ Realm!ReadClientComposites(j, o)
             \/ Realm!FindAccount(j, o) \/ Realm!FindMemberships(j, o) \/ Realm!Check(j, o)
      PROVE  Realm!IInv'
  <2>1. s4[j] \in Realm!Runs
    BY DEF Realm!IInv, Realm!TypeOK
  <2>2. o \in RealmObjects
    BY <2>1 DEF Realm!Runs
  <2>3. CASE \/ Realm!UpsertClient(j, o) \/ Realm!UpsertUser(j, o)
             \/ Realm!FindOrCreateGroup(j, o) \/ Realm!AddMapper(j, o)
    <3>1. Realm!At(j, "ensure") /\ Realm!Put(j, o)
      BY <2>3
        DEF Realm!UpsertClient, Realm!UpsertUser, Realm!FindOrCreateGroup, Realm!AddMapper,
         Realm!Ensures
    <3> QED BY <2>2, <3>1, RealmPutKeeps
  <2>4. CASE Realm!CreateRole(j, o)
    BY <2>2, <2>4, RealmCreateRoleKeeps
  <2>5. CASE \/ Realm!ReadComposites(j, o) \/ Realm!ReadGroupRoles(j, o)
             \/ Realm!ReadClientComposites(j, o)
             \/ Realm!FindAccount(j, o) \/ Realm!FindMemberships(j, o)
    BY <2>2, <2>5, RealmTakenKeeps
  <2>6. CASE Realm!Check(j, o)
    BY <2>2, <2>6, RealmCheckKeeps
  <2> QED BY <1>4, <2>3, <2>4, <2>5, <2>6
<1>5. ASSUME NEW p \in UNION {Realm!Mine(j) : j \in RealmJobs}, Realm!EditLink(p)
      PROVE  Realm!IInv'
  BY <1>5, RealmEditLinkKeeps
<1> QED BY <1>2, <1>3, <1>4, <1>5 DEF Realm!Next

-----------------------------------------------------------------------------
(* A client of a closed scope: s1 its kind, s2 the client, s3 its grant, s4 *)
(* the run, s5 its answer, s6 what administrators have touched since, s7    *)
(* and s8 the bounds.                                                       *)

(* A step of a run, with what it comes to know.                             *)
LEMMA ScopedStepKeeps ==
  ASSUME Scoped!IInv, NEW r \in Scoped!Runs, s4' = r, UNCHANGED Scoped!worldVars,
         s2' \in Scoped!Clients,
         s3' \in [Scoped!Parts(s1) -> Scoped!Values], s7' \in 0..ScopedRuns,
         s5' \in {"nothing", "verified", "refused", "drift", "outage"},
         r.step \in {"check", "edit", "recheck", "confirm"} => r.todo # <<>>,
         r.step \in {"check", "recheck"} => Scoped!AllButListed(r.todo)',
         r.step = "check" => "client" \in Scoped!Listed(r.todo) \/ Scoped!Opened',
         r.step \in {"edit", "recheck"} => Scoped!Shut', r.step = "confirm" => Scoped!Opened',
         r.step \in {"enable", "confirm"} => Scoped!AllButListed(<<>>)',
         r.step \in {"disable", "disabled"} => r.then # "idle",
         r.step = "close" => r.then \in {"drift", "outage"},
         r.found \/ r.step \notin {"idle", "lookup", "prerequisites", "create"} =>
           Scoped!Stands(s2')
  PROVE  Scoped!IInv'
<1>1. s1' = s1 /\ s6' = s6 /\ s8' = s8
  BY DEF Scoped!worldVars
<1>2. Scoped!TypeOK'
  <2>1. Scoped!Runs' = Scoped!Runs /\ Scoped!Parts(s1)' = Scoped!Parts(s1)
    BY <1>1 DEF Scoped!Runs
  <2> QED BY <1>1, <2>1 DEF Scoped!IInv, Scoped!TypeOK
<1>3. Scoped!ReadsTell'
  BY DEF Scoped!ReadsTell, Scoped!At
<1>4. Scoped!Continues'
  BY DEF Scoped!Continues, Scoped!At
<1>5. Scoped!ClientStands'
  BY <1>1 DEF Scoped!ClientStands, Scoped!Stands
<1> QED BY <1>2, <1>3, <1>4, <1>5 DEF Scoped!IInv

(* Before the first run nothing is known.                                   *)
LEMMA ScopedInit == Scoped!Init => Scoped!IInv
<1> SUFFICES ASSUME Scoped!Init PROVE Scoped!IInv OBVIOUS
<1>1. Scoped!Idle \in Scoped!Runs /\ Scoped!Idle.step = "idle" /\ ~Scoped!Idle.found
  BY DEF Scoped!Idle, Scoped!Runs
<1>2. 0 \in 0..ScopedRuns /\ 0 \in 0..ScopedEdits
  BY ScopedAssumption DEF Scoped!ScopedAssumption
<1>3. Scoped!TypeOK
  BY <1>1, <1>2 DEF Scoped!Init, Scoped!TypeOK, Scoped!Clients, Scoped!Values
<1> QED BY <1>1, <1>3
          DEF Scoped!Init, Scoped!IInv, Scoped!ReadsTell, Scoped!Continues, Scoped!ClientStands,
           Scoped!At

(* The end of a run claims nothing.                                         *)
LEMMA ScopedEndKeeps ==
  ASSUME Scoped!IInv, NEW word \in {"verified", "refused", "drift", "outage"}, Scoped!End(word),
         UNCHANGED Scoped!worldVars, s2' \in Scoped!Clients,
         s3' \in [Scoped!Parts(s1) -> Scoped!Values]
  PROVE  Scoped!IInv'
<1>1. Scoped!Idle \in Scoped!Runs /\ Scoped!Idle.step = "idle" /\ ~Scoped!Idle.found
  BY DEF Scoped!Idle, Scoped!Runs
<1>2. s4' = Scoped!Idle /\ s5' = word /\ s7' = s7
  BY DEF Scoped!End
<1>3. s7 \in 0..ScopedRuns
  BY DEF Scoped!IInv, Scoped!TypeOK
<1> QED BY <1>1, <1>2, <1>3, ScopedStepKeeps

(* The client is closed after all, or a request fails.                      *)
LEMMA ScopedCloseAfterKeeps ==
  ASSUME Scoped!IInv, NEW word \in {"drift", "outage"}, Scoped!CloseAfter(word),
         UNCHANGED Scoped!worldVars,
         s2' \in Scoped!Clients, s3' \in [Scoped!Parts(s1) -> Scoped!Values],
         s2'.exists = s2.exists, s2'.owned = s2.owned,
         s4.step \in {"enable", "confirm"}
  PROVE  Scoped!IInv'
<1>1. /\ s4 \in Scoped!Runs /\ s7 \in 0..ScopedRuns
      /\ s5 \in {"nothing", "verified", "refused", "drift", "outage"}
  BY DEF Scoped!IInv, Scoped!TypeOK
<1>2. PICK r : r = [s4 EXCEPT !.step = "close", !.then = word]
  OBVIOUS
<1>3. r \in Scoped!Runs /\ r.step = "close" /\ r.then = word /\ r.found = s4.found
  BY <1>1, <1>2 DEF Scoped!Runs
<1>4. s4' = r /\ s5' = s5 /\ s7' = s7
  BY <1>2 DEF Scoped!CloseAfter
<1>5. Scoped!Stands(s2')
  BY DEF Scoped!IInv, Scoped!ClientStands, Scoped!Stands
<1> QED BY <1>1, <1>3, <1>4, <1>5, ScopedStepKeeps

(* Either way of failing.                                                   *)
LEMMA ScopedOutageKeeps ==
  ASSUME Scoped!IInv, Scoped!Outage, UNCHANGED Scoped!worldVars, s2' \in Scoped!Clients,
         s3' \in [Scoped!Parts(s1) -> Scoped!Values],
         s4.step \in {"enable", "confirm"} =>
           s2'.exists = s2.exists /\ s2'.owned = s2.owned
  PROVE  Scoped!IInv'
<1>1. CASE s4.step \in {"enable", "confirm"}
  BY <1>1, ScopedCloseAfterKeeps DEF Scoped!Outage
<1>2. CASE s4.step \notin {"enable", "confirm"}
  BY <1>2, ScopedEndKeeps DEF Scoped!Outage
<1> QED BY <1>1, <1>2

(* The client is disabled next.                                             *)
LEMMA ScopedDisableThenKeeps ==
  ASSUME Scoped!IInv, NEW next \in {"prerequisites", "put", "drift", "outage"},
         Scoped!DisableThen(next),
         UNCHANGED <<Scoped!keycloakVars, Scoped!worldVars>>,
         s4.found \/ s4.step \notin {"idle", "lookup", "prerequisites", "create"}
  PROVE  Scoped!IInv'
<1>1. /\ s4 \in Scoped!Runs /\ s7 \in 0..ScopedRuns /\ s2 \in Scoped!Clients
      /\ s3 \in [Scoped!Parts(s1) -> Scoped!Values] /\ UNCHANGED <<s2, s3, Scoped!worldVars>>
      /\ s5 \in {"nothing", "verified", "refused", "drift", "outage"}
  BY DEF Scoped!IInv, Scoped!TypeOK, Scoped!keycloakVars
<1>2. PICK r : r = [s4 EXCEPT !.step = "disable", !.then = next]
  OBVIOUS
<1>3. r \in Scoped!Runs /\ r.step = "disable" /\ r.then = next /\ r.found = s4.found
  BY <1>1, <1>2 DEF Scoped!Runs
<1>4. s4' = r /\ s5' = s5 /\ s7' = s7
  BY <1>2 DEF Scoped!DisableThen
<1>5. Scoped!Stands(s2')
  BY <1>1 DEF Scoped!IInv, Scoped!ClientStands, Scoped!Stands
<1> QED BY <1>1, <1>3, <1>4, <1>5, ScopedStepKeeps

(* A run starts and knows nothing; what is touched is counted from here.    *)
LEMMA ScopedStartKeeps == ASSUME Scoped!IInv, Scoped!Start PROVE Scoped!IInv'
<1>1. PICK r : r = [Scoped!Idle EXCEPT !.step = "lookup"]
  OBVIOUS
<1>2. r \in Scoped!Runs /\ r.step = "lookup" /\ ~r.found
  <2>1. <<>> \in Seq(Scoped!Parts(s1))
    OBVIOUS
  <2> QED BY <1>1, <2>1 DEF Scoped!Idle, Scoped!Runs
<1>3. /\ s4' = r /\ s5' = "nothing" /\ s6' = {} /\ s7' = s7 + 1 /\ s7 < ScopedRuns
      /\ UNCHANGED <<s1, s2, s3, s8>>
  BY <1>1 DEF Scoped!Start, Scoped!keycloakVars
<1>4. s7' \in 0..ScopedRuns
  <2>1. s7 \in 0..ScopedRuns
    BY DEF Scoped!IInv, Scoped!TypeOK
  <2> QED BY <1>3, <2>1, ScopedAssumption DEF Scoped!ScopedAssumption
<1>5. Scoped!TypeOK'
  <2>1. Scoped!Runs' = Scoped!Runs /\ Scoped!Parts(s1)' = Scoped!Parts(s1)
    BY <1>3 DEF Scoped!Runs
  <2> QED BY <1>2, <1>3, <1>4, <2>1 DEF Scoped!IInv, Scoped!TypeOK
<1> QED BY <1>2, <1>3, <1>5
          DEF Scoped!IInv, Scoped!ReadsTell, Scoped!Continues, Scoped!ClientStands, Scoped!At

(* A run finds a client of its own, or none, or it is refused.              *)
LEMMA ScopedLookupKeeps == ASSUME Scoped!IInv, Scoped!Lookup PROVE Scoped!IInv'
<1>1. /\ s4 \in Scoped!Runs /\ s7 \in 0..ScopedRuns /\ s2 \in Scoped!Clients
      /\ s3 \in [Scoped!Parts(s1) -> Scoped!Values] /\ UNCHANGED <<s2, s3, Scoped!worldVars>>
      /\ s5 \in {"nothing", "verified", "refused", "drift", "outage"}
  BY DEF Scoped!IInv, Scoped!TypeOK, Scoped!Lookup, Scoped!keycloakVars
<1>2. CASE s1 = "service" /\ s2.exists /\ ~(s2.owned /\ s2.secret)
  <2>1. Scoped!End("refused")
    BY <1>2 DEF Scoped!Lookup
  <2> QED BY <1>1, <2>1, ScopedEndKeeps
<1>3. CASE ~(s1 = "service" /\ s2.exists /\ ~(s2.owned /\ s2.secret))
  <2>1. PICK s \in {"disable", "prerequisites"} :
          /\ s4' = [s4 EXCEPT !.found = s2.exists, !.then = "prerequisites", !.step = s]
          /\ s = "disable" => s1 = "oidc" /\ s2.exists
          /\ UNCHANGED <<s5, s7>>
    BY <1>3 DEF Scoped!Lookup
  <2>2. PICK r : r = [s4 EXCEPT !.found = s2.exists, !.then = "prerequisites", !.step = s]
    OBVIOUS
  <2>3. s2.exists \in BOOLEAN
    BY <1>1 DEF Scoped!Clients
  <2>4. r \in Scoped!Runs /\ r.step = s /\ r.then = "prerequisites" /\ r.found = s2.exists
    BY <1>1, <2>2, <2>3 DEF Scoped!Runs
  <2> QED BY <1>1, <1>3, <2>1, <2>2, <2>4, ScopedStepKeeps DEF Scoped!Stands
<1> QED BY <1>2, <1>3

(* Every part is in the order, and each order has a first.                  *)
LEMMA Orders ==
  ASSUME s1 \in {"oidc", "service"}
  PROVE  /\ Scoped!Order(s1) \in Seq(Scoped!Parts(s1)) /\ Scoped!Order(s1) # <<>>
         /\ Scoped!EditOrder(s1) \in Seq(Scoped!Parts(s1)) /\ Scoped!EditOrder(s1) # <<>>
         /\ \A one \in Scoped!Parts(s1) : \E i \in DOMAIN Scoped!Order(s1) : Scoped!Order(s1)[i]
            = one
         /\ <<"client">> \in Seq(Scoped!Parts(s1))
<1>1. {"client", "scopes", "roles", "mappers", "composite", "shared"} \subseteq Scoped!Parts(s1)
  BY DEF Scoped!Parts
<1>2. CASE s1 = "service"
  <2> DEFINE o == <<"client", "scopes", "mappers", "roles", "composite", "shared", "account">>
             e == <<"scopes", "shared", "roles", "account", "mappers">>
  <2>1. Scoped!Order(s1) = o /\ Scoped!EditOrder(s1) = e
    BY <1>2 DEF Scoped!Order, Scoped!EditOrder
  <2>2. "account" \in Scoped!Parts(s1)
    BY <1>2 DEF Scoped!Parts
  <2>3. o \in Seq(Scoped!Parts(s1)) /\ e \in Seq(Scoped!Parts(s1)) /\ o # <<>> /\ e # <<>>
    BY <1>1, <2>2
  <2>4. /\ DOMAIN o = 1..7 /\ o[1] = "client" /\ o[2] = "scopes" /\ o[3] = "mappers"
        /\ o[4] = "roles" /\ o[5] = "composite" /\ o[6] = "shared" /\ o[7] = "account"
    OBVIOUS
  <2> HIDE DEF o, e
  <2>5. \A one \in Scoped!Parts(s1) : \E i \in DOMAIN o : o[i] = one
    BY <1>2, <2>4 DEF Scoped!Parts
  <2> QED BY <1>1, <2>1, <2>3, <2>5
<1>3. CASE s1 = "oidc"
  <2> DEFINE o == <<"client", "mappers", "roles", "composite", "scopes", "shared">>
             e == <<"scopes", "roles", "mappers">>
  <2>1. Scoped!Order(s1) = o /\ Scoped!EditOrder(s1) = e
    BY <1>3 DEF Scoped!Order, Scoped!EditOrder
  <2>3. o \in Seq(Scoped!Parts(s1)) /\ e \in Seq(Scoped!Parts(s1)) /\ o # <<>> /\ e # <<>>
    BY <1>1
  <2>4. /\ DOMAIN o = 1..6 /\ o[1] = "client" /\ o[2] = "mappers" /\ o[3] = "roles"
        /\ o[4] = "composite" /\ o[5] = "scopes" /\ o[6] = "shared"
    OBVIOUS
  <2> HIDE DEF o, e
  <2>5. \A one \in Scoped!Parts(s1) : \E i \in DOMAIN o : o[i] = one
    BY <1>3, <2>4 DEF Scoped!Parts
  <2> QED BY <1>1, <2>1, <2>3, <2>5
<1> QED BY <1>2, <1>3

(* The run goes on at another step, or to a list of parts.                  *)
LEMMA ScopedMoveKeeps ==
  ASSUME Scoped!IInv,
         NEW s \in {"prerequisites", "put", "create", "disabled", "enable", "confirm", "check",
                         "edit", "recheck"},
         NEW todo \in Seq(Scoped!Parts(s1)),
         Scoped!Then(s, todo) \/ (Scoped!To(s) /\ todo = s4.todo),
         UNCHANGED Scoped!worldVars, s2' \in Scoped!Clients,
         s3' \in [Scoped!Parts(s1) -> Scoped!Values],
         s \in {"check", "edit", "recheck", "confirm"} => todo # <<>>,
         s \in {"check", "recheck"} => Scoped!AllButListed(todo)',
         s = "check" => "client" \in Scoped!Listed(todo) \/ Scoped!Opened',
         s \in {"edit", "recheck"} => Scoped!Shut', s = "confirm" => Scoped!Opened',
         s \in {"enable", "confirm"} => Scoped!AllButListed(<<>>)',
         s = "disabled" => s4.then # "idle",
         s4.found \/ s \notin {"prerequisites", "create"} => Scoped!Stands(s2')
  PROVE  Scoped!IInv'
<1>1. /\ s4 \in Scoped!Runs /\ s7 \in 0..ScopedRuns
      /\ s5 \in {"nothing", "verified", "refused", "drift", "outage"}
  BY DEF Scoped!IInv, Scoped!TypeOK
<1>2. PICK r : /\ r \in Scoped!Runs /\ r.step = s /\ r.todo = todo /\ r.found = s4.found
               /\ r.then = s4.then /\ s4' = r /\ UNCHANGED <<s5, s7>>
  <2>1. CASE Scoped!Then(s, todo)
    <3>1. PICK r : r = [s4 EXCEPT !.step = s, !.todo = todo]
      OBVIOUS
    <3>2. s4' = r /\ UNCHANGED <<s5, s7>>
      BY <2>1, <3>1 DEF Scoped!Then
    <3>3. r \in Scoped!Runs /\ r.step = s /\ r.todo = todo /\ r.found = s4.found
          /\ r.then = s4.then
      BY <1>1, <3>1 DEF Scoped!Runs
    <3> QED BY <3>2, <3>3
  <2>2. CASE Scoped!To(s) /\ todo = s4.todo
    <3>1. PICK r : r = [s4 EXCEPT !.step = s]
      OBVIOUS
    <3> QED BY <1>1, <2>2, <3>1 DEF Scoped!To, Scoped!Runs
  <2> QED BY <2>1, <2>2
<1>3. /\ r.step \in {"check", "edit", "recheck", "confirm"} => r.todo # <<>>
      /\ r.step \in {"check", "recheck"} => Scoped!AllButListed(r.todo)'
      /\ r.step = "check" => "client" \in Scoped!Listed(r.todo) \/ Scoped!Opened'
  BY <1>2
<1>4. /\ r.step \in {"edit", "recheck"} => Scoped!Shut'
      /\ r.step \in {"enable", "confirm"} => Scoped!AllButListed(<<>>)'
      /\ r.step = "confirm" => Scoped!Opened'
      /\ r.step \in {"disable", "disabled"} => r.then # "idle"
      /\ r.step = "close" => r.then \in {"drift", "outage"}
  BY <1>2
<1>5. r.found \/ r.step \notin {"idle", "lookup", "prerequisites", "create"} => Scoped!Stands(s2')
  BY <1>2
<1>6. s4' = r /\ s7' = s7 /\ s5' = s5 /\ UNCHANGED Scoped!worldVars
  BY <1>2
<1> QED BY <1>1, <1>2, <1>3, <1>4, <1>5, <1>6, ScopedStepKeeps

(* Every part is still to be read.                                          *)
LEMMA ScopedPrerequisitesKeeps == ASSUME Scoped!IInv, Scoped!Prerequisites PROVE Scoped!IInv'
<1>1. /\ s4 \in Scoped!Runs /\ s2' \in Scoped!Clients
      /\ s3' \in [Scoped!Parts(s1) -> Scoped!Values]
      /\ s4.todo \in Seq(Scoped!Parts(s1))
      /\ UNCHANGED <<s2, s3, Scoped!worldVars, Scoped!keycloakVars>> /\ s1 \in {"oidc", "service"}
      /\ s1' = s1 /\ s4.found \in BOOLEAN
  BY DEF Scoped!IInv, Scoped!TypeOK, Scoped!Prerequisites, Scoped!keycloakVars, Scoped!worldVars,
     Scoped!Runs
<1>2. \/ Scoped!End("drift") \/ (s4.found /\ Scoped!DisableThen("drift"))
      \/ (s4.found /\ Scoped!Then("check", Scoped!Order(s1))) \/ Scoped!To("create")
  <2>1. PICK found \in BOOLEAN : s4.found = found
    BY <1>1
  <2> QED BY <2>1 DEF Scoped!Prerequisites
<1>3. CASE Scoped!End("drift")
  BY <1>1, <1>3, ScopedEndKeeps
<1>4. CASE s4.found /\ Scoped!DisableThen("drift")
  BY <1>1, <1>4, ScopedDisableThenKeeps
<1>5. s4.found => Scoped!Stands(s2')
  BY <1>1 DEF Scoped!IInv, Scoped!ClientStands, Scoped!Stands
<1>6. CASE s4.found /\ Scoped!Then("check", Scoped!Order(s1))
  <2>1. /\ Scoped!Order(s1) \in Seq(Scoped!Parts(s1)) /\ Scoped!Order(s1) # <<>>
        /\ \A one \in Scoped!Parts(s1) : one \in Scoped!Listed(Scoped!Order(s1))
    BY <1>1, Orders DEF Scoped!Listed
  <2>2. Scoped!AllButListed(Scoped!Order(s1))'
    BY <1>1, <2>1 DEF Scoped!AllButListed
  <2>3. "client" \in Scoped!Listed(Scoped!Order(s1))
    BY <2>1 DEF Scoped!Parts
  <2> QED BY <1>1, <1>5, <1>6, <2>1, <2>2, <2>3, ScopedMoveKeeps
<1>7. CASE Scoped!To("create")
  BY <1>1, <1>5, <1>7, ScopedMoveKeeps
<1> QED BY <1>2, <1>3, <1>4, <1>6, <1>7

(* The head of a list, and the rest.                                        *)
LEMMA HeadAndTail ==
  ASSUME NEW S, NEW q \in Seq(S), q # <<>>
  PROVE  /\ Head(q) \in S /\ Tail(q) \in Seq(S)
         /\ Scoped!Listed(q) \subseteq {Head(q)} \cup Scoped!Listed(Tail(q))
         /\ Len(q) # 1 => Tail(q) # <<>>
         /\ Len(q) = 1 => Scoped!Listed(q) \subseteq {Head(q)}
<1>1. Len(q) \in Nat /\ Len(q) # 0 /\ DOMAIN q = 1..Len(q) /\ Head(q) = q[1] /\ Head(q) \in S
  OBVIOUS
<1>2. Tail(q) \in Seq(S) /\ Len(Tail(q)) = Len(q) - 1 /\ DOMAIN Tail(q) = 1..(Len(q) - 1)
      /\ \A k \in 1..(Len(q) - 1) : Tail(q)[k] = q[k + 1]
  BY <1>1
<1>3. ASSUME NEW i \in DOMAIN q, i # 1 PROVE \E k \in DOMAIN Tail(q) : Tail(q)[k] = q[i]
  <2>1. i - 1 \in 1..(Len(q) - 1) /\ (i - 1) + 1 = i
    BY <1>1, <1>3
  <2> QED BY <1>2, <2>1
<1>4. Scoped!Listed(q) \subseteq {Head(q)} \cup Scoped!Listed(Tail(q))
  BY <1>1, <1>3 DEF Scoped!Listed
<1>5. Len(q) = 1 => Scoped!Listed(q) \subseteq {Head(q)}
  BY <1>1 DEF Scoped!Listed
<1>6. Len(q) # 1 => Tail(q) # <<>>
  <2>1. Len(<<>>) = 0 /\ (Len(q) # 1 => Len(Tail(q)) # 0)
    BY <1>1, <1>2
  <2> QED BY <2>1
<1> QED BY <1>1, <1>2, <1>4, <1>5, <1>6

(* A part that matched is as approved until it is touched, and one less is left.*)
LEMMA ScopedReadPartKeeps == ASSUME Scoped!IInv, Scoped!ReadPart PROVE Scoped!IInv'
<1>1. /\ s4 \in Scoped!Runs /\ s2' \in Scoped!Clients
      /\ s3' \in [Scoped!Parts(s1) -> Scoped!Values]
      /\ UNCHANGED <<s2, s3, Scoped!worldVars, Scoped!keycloakVars>>
      /\ s4.step \in {"check", "recheck", "confirm"} /\ s1' = s1 /\ s6' = s6
  BY DEF Scoped!IInv, Scoped!TypeOK, Scoped!ReadPart, Scoped!keycloakVars, Scoped!worldVars
<1>2. PICK q \in Seq(Scoped!Parts(s1)) : q = s4.todo
  BY <1>1 DEF Scoped!Runs
<1>3. PICK h, t : h = Head(q) /\ t = Tail(q)
  OBVIOUS
<1>4. q # <<>>
  BY <1>1, <1>2 DEF Scoped!IInv, Scoped!ReadsTell
<1>5. /\ t \in Seq(Scoped!Parts(s1)) /\ Scoped!Listed(q) \subseteq {h} \cup Scoped!Listed(t)
      /\ (Len(q) # 1 => t # <<>>) /\ (Len(q) = 1 => Scoped!Listed(q) \subseteq {h})
  BY <1>3, <1>4, HeadAndTail
<1>6. Scoped!Stands(s2')
  BY <1>1 DEF Scoped!IInv, Scoped!ClientStands, Scoped!Stands
<1>7. \/ Scoped!Drifted
      \/ Scoped!Matches(h, ~Scoped!At("recheck")) /\ Scoped!AllRead /\ Len(q) = 1
      \/ Scoped!Matches(h, ~Scoped!At("recheck")) /\ Scoped!Then(s4.step, t) /\ Len(q) # 1
  BY <1>2, <1>3 DEF Scoped!ReadPart
<1>8. CASE Scoped!Drifted
  <2>1. \/ \E next \in {"drift", "put"} : Scoped!DisableThen(next)
        \/ Scoped!End("drift") \/ (s4.step = "confirm" /\ Scoped!CloseAfter("drift"))
    BY <1>8 DEF Scoped!Drifted, Scoped!At
  <2>2. CASE \E next \in {"drift", "put"} : Scoped!DisableThen(next)
    BY <1>1, <2>2, ScopedDisableThenKeeps
  <2>3. CASE Scoped!End("drift")
    BY <1>1, <2>3, ScopedEndKeeps
  <2>4. CASE s4.step = "confirm" /\ Scoped!CloseAfter("drift")
    BY <1>1, <2>4, ScopedCloseAfterKeeps
  <2> QED BY <2>1, <2>2, <2>3, <2>4
<1>9. ASSUME Scoped!Matches(h, ~Scoped!At("recheck"))
      PROVE  /\ Scoped!AllButListed(q) => Scoped!AllButListed(t)'
             /\ Scoped!AllButListed(q) /\ Len(q) = 1 => Scoped!AllButListed(<<>>)'
             /\ Scoped!At("check") => "client" \in Scoped!Listed(t) \/ Scoped!Opened'
  <2>1. s3[h] = "exact" /\ (Scoped!At("check") /\ h = "client" => s2.enabled)
    BY <1>1, <1>9 DEF Scoped!Matches, Scoped!At, Scoped!Clients
  <2>2. Scoped!Listed(<<>>) = {}
    BY DEF Scoped!Listed
  <2>3. \A one \in Scoped!Parts(s1) : Scoped!AsApproved(one) \/ one = h => Scoped!AsApproved(one)'
    BY <1>1, <2>1 DEF Scoped!AsApproved
  <2>4. Scoped!At("check") => "client" \in Scoped!Listed(t) \/ Scoped!Opened'
    BY <1>1, <1>2, <1>5, <2>1 DEF Scoped!IInv, Scoped!ReadsTell, Scoped!Opened
  <2>5. Scoped!AllButListed(q) => Scoped!AllButListed(t)'
    BY <1>1, <1>5, <2>3 DEF Scoped!AllButListed
  <2>6. Scoped!AllButListed(q) /\ Len(q) = 1 => Scoped!AllButListed(<<>>)'
    BY <1>1, <1>5, <2>2, <2>3 DEF Scoped!AllButListed
  <2> QED BY <2>4, <2>5, <2>6
<1>10. CASE Scoped!Matches(h, ~Scoped!At("recheck")) /\ Scoped!AllRead /\ Len(q) = 1
  <2>1. CASE Scoped!End("verified")
    BY <1>1, <2>1, ScopedEndKeeps
  <2>2. CASE Scoped!At("recheck") /\ Scoped!To("enable")
    <3>1. Scoped!AllButListed(q)
      BY <1>2, <2>2 DEF Scoped!IInv, Scoped!ReadsTell, Scoped!At
    <3>2. Scoped!AllButListed(<<>>)'
      BY <1>9, <1>10, <3>1
    <3> QED BY <1>1, <1>2, <1>6, <2>2, <3>2, ScopedMoveKeeps
  <2> QED BY <1>10, <2>1, <2>2 DEF Scoped!AllRead
<1>11. CASE Scoped!Matches(h, ~Scoped!At("recheck")) /\ Scoped!Then(s4.step, t) /\ Len(q) # 1
  <2>1. CASE s4.step = "check"
    <3>1. Scoped!AllButListed(q)
      BY <1>2, <2>1 DEF Scoped!IInv, Scoped!ReadsTell
    <3>2. Scoped!AllButListed(t)' /\ ("client" \in Scoped!Listed(t) \/ Scoped!Opened')
      BY <1>9, <1>11, <2>1, <3>1 DEF Scoped!At
    <3>3. Scoped!Then("check", t)
      BY <1>11, <2>1
    <3> QED BY <1>1, <1>5, <1>6, <1>11, <3>2, <3>3, ScopedMoveKeeps
  <2>2. CASE s4.step = "recheck"
    <3>1. Scoped!AllButListed(q) /\ Scoped!Shut'
      BY <1>1, <1>2, <2>2 DEF Scoped!IInv, Scoped!ReadsTell, Scoped!Shut
    <3>2. Scoped!AllButListed(t)'
      BY <1>9, <1>11, <3>1
    <3>3. Scoped!Then("recheck", t)
      BY <1>11, <2>2
    <3> QED BY <1>1, <1>5, <1>6, <1>11, <3>1, <3>2, <3>3, ScopedMoveKeeps
  <2>3. CASE s4.step = "confirm"
    <3>1. Scoped!AllButListed(<<>>)' /\ Scoped!Opened'
      BY <1>1, <2>3
        DEF Scoped!IInv, Scoped!ReadsTell, Scoped!At, Scoped!Opened, Scoped!AllButListed,
         Scoped!AsApproved
    <3>2. Scoped!Then("confirm", t)
      BY <1>11, <2>3
    <3> QED BY <1>1, <1>5, <1>6, <1>11, <3>1, <3>2, ScopedMoveKeeps
  <2> QED BY <1>1, <2>1, <2>2, <2>3
<1> QED BY <1>7, <1>8, <1>10, <1>11

(* A read that fails.                                                       *)
LEMMA ScopedReadFailsKeeps == ASSUME Scoped!IInv, Scoped!ReadFails PROVE Scoped!IInv'
<1>1. /\ s2' \in Scoped!Clients /\ s3' \in [Scoped!Parts(s1) -> Scoped!Values] /\ s2' = s2
      /\ UNCHANGED Scoped!worldVars /\ Scoped!Outage
  BY DEF Scoped!IInv, Scoped!TypeOK, Scoped!ReadFails, Scoped!keycloakVars
<1> QED BY <1>1, ScopedOutageKeeps

(* The client without its activation.                                       *)
LEMMA ClosedClient ==
  ASSUME s2 \in Scoped!Clients, NEW c, c = [s2 EXCEPT !.enabled = FALSE]
  PROVE  c \in Scoped!Clients /\ c.exists = s2.exists /\ c.owned = s2.owned /\ ~c.enabled
  BY DEF Scoped!Clients

(* The client is disabled, or the run fails.                                *)
LEMMA ScopedDisableKeeps == ASSUME Scoped!IInv, Scoped!Disable PROVE Scoped!IInv'
<1>1. /\ s4 \in Scoped!Runs /\ s2 \in Scoped!Clients /\ s3 \in [Scoped!Parts(s1) -> Scoped!Values]
      /\ Scoped!At("disable") /\ UNCHANGED Scoped!worldVars /\ s4.todo \in Seq(Scoped!Parts(s1))
  BY DEF Scoped!IInv, Scoped!TypeOK, Scoped!Disable, Scoped!Runs
<1>2. PICK c : c = [s2 EXCEPT !.enabled = FALSE]
  OBVIOUS
<1>3. c \in Scoped!Clients /\ c.exists = s2.exists /\ c.owned = s2.owned
  BY <1>1, <1>2, ClosedClient
<1>4. \/ s2' = c /\ s3' = s3 /\ (Scoped!To("disabled") \/ Scoped!Outage)
      \/ s2' = s2 /\ s3' = s3 /\ Scoped!Outage
  BY <1>2 DEF Scoped!Disable, Scoped!Write, Scoped!keycloakVars
<1>5. CASE Scoped!Outage
  BY <1>1, <1>3, <1>4, <1>5, ScopedOutageKeeps
<1>6. CASE s2' = c /\ s3' = s3 /\ Scoped!To("disabled")
  <2>1. Scoped!Stands(s2') /\ s4.then # "idle"
    BY <1>1, <1>3, <1>6
      DEF Scoped!IInv, Scoped!ClientStands, Scoped!Continues, Scoped!Stands, Scoped!At
  <2> QED BY <1>1, <1>3, <1>6, <2>1, ScopedMoveKeeps
<1> QED BY <1>4, <1>5, <1>6

(* The readback decides how the run goes on.                                *)
LEMMA ScopedDisabledKeeps == ASSUME Scoped!IInv, Scoped!Disabled PROVE Scoped!IInv'
<1>1. /\ s4 \in Scoped!Runs /\ s2' \in Scoped!Clients
      /\ s3' \in [Scoped!Parts(s1) -> Scoped!Values]
      /\ Scoped!At("disabled") /\ UNCHANGED <<s2, s3, Scoped!worldVars>>
      /\ s4.todo \in Seq(Scoped!Parts(s1))
      /\ s4.then \in {"idle", "prerequisites", "put", "drift", "outage"}
  BY DEF Scoped!IInv, Scoped!TypeOK, Scoped!Disabled, Scoped!Runs, Scoped!keycloakVars
<1>2. s4.then # "idle" /\ Scoped!Stands(s2')
  BY <1>1 DEF Scoped!IInv, Scoped!Continues, Scoped!ClientStands, Scoped!Stands, Scoped!At
<1>3. \/ Scoped!End("outage")
      \/ s4.then \in {"drift", "outage"} /\ Scoped!End(s4.then)
      \/ s4.then \in {"prerequisites", "put"} /\ Scoped!To(s4.then)
  BY <1>1, <1>2 DEF Scoped!Disabled
<1>4. CASE Scoped!End("outage")
  BY <1>1, <1>4, ScopedEndKeeps
<1>5. CASE s4.then \in {"drift", "outage"} /\ Scoped!End(s4.then)
  BY <1>1, <1>5, ScopedEndKeeps
<1>6. CASE s4.then \in {"prerequisites", "put"} /\ Scoped!To(s4.then)
  BY <1>1, <1>2, <1>6, ScopedMoveKeeps
<1> QED BY <1>3, <1>4, <1>5, <1>6

(* A client is created disabled and owned, with its defaults still to correct.*)
LEMMA ScopedCreateKeeps == ASSUME Scoped!IInv, Scoped!Create PROVE Scoped!IInv'
<1>1. /\ s4 \in Scoped!Runs /\ s2 \in Scoped!Clients /\ s3 \in [Scoped!Parts(s1) -> Scoped!Values]
      /\ Scoped!At("create") /\ UNCHANGED Scoped!worldVars /\ s4.todo \in Seq(Scoped!Parts(s1))
      /\ s1 \in {"oidc", "service"}
  BY DEF Scoped!IInv, Scoped!TypeOK, Scoped!Create, Scoped!Runs
<1>2. PICK c, g :
      /\ c = [exists |-> TRUE, owned |-> s1 = "service", enabled |-> FALSE, secret |-> TRUE]
                  /\ g = [s3 EXCEPT !["client"] = "exact", !["scopes"] = "more",
                                       !["roles"] = "less", !["mappers"] = "less"]
  OBVIOUS
<1>3. c \in Scoped!Clients /\ g \in [Scoped!Parts(s1) -> Scoped!Values] /\ Scoped!Stands(c)
  BY <1>1, <1>2 DEF Scoped!Clients, Scoped!Values, Scoped!Stands
<1>4. \/ s2' = s2 /\ s3' = s3 /\ (Scoped!End("outage") \/ Scoped!Outage)
      \/ s2' = c /\ s3' = g /\ (Scoped!To("put") \/ Scoped!Outage)
  BY <1>2 DEF Scoped!Create, Scoped!Write, Scoped!keycloakVars
<1>5. Scoped!Outage => Scoped!End("outage")
  BY <1>1 DEF Scoped!Outage, Scoped!At
<1>6. CASE Scoped!End("outage")
  BY <1>1, <1>3, <1>4, <1>6, ScopedEndKeeps
<1>7. CASE s2' = c /\ s3' = g /\ Scoped!To("put")
  BY <1>1, <1>3, <1>7, ScopedMoveKeeps
<1> QED BY <1>4, <1>5, <1>6, <1>7

(* The client is put disabled, and its parts are corrected after that.      *)
LEMMA ScopedPutKeeps == ASSUME Scoped!IInv, Scoped!Put PROVE Scoped!IInv'
<1>1. /\ s4 \in Scoped!Runs /\ s2 \in Scoped!Clients /\ s3 \in [Scoped!Parts(s1) -> Scoped!Values]
      /\ Scoped!At("put") /\ UNCHANGED Scoped!worldVars /\ s1 \in {"oidc", "service"}
  BY DEF Scoped!IInv, Scoped!TypeOK, Scoped!Put
<1>2. PICK c, g : /\ c = [s2 EXCEPT !.enabled = FALSE, !.secret = s1 = "oidc" \/ s2.secret]
                  /\ g = [s3 EXCEPT !["client"] = "exact"]
  OBVIOUS
<1>3. c \in Scoped!Clients /\ g \in [Scoped!Parts(s1) -> Scoped!Values] /\ ~c.enabled
      /\ c.exists = s2.exists /\ c.owned = s2.owned
  BY <1>1, <1>2 DEF Scoped!Clients, Scoped!Values
<1>4. \/ s2' = s2 /\ s3' = s3 /\ Scoped!Outage
      \/ s2' = c /\ s3' = g /\ (Scoped!Then("edit", Scoped!EditOrder(s1)) \/ Scoped!Outage)
  BY <1>2 DEF Scoped!Put, Scoped!Write, Scoped!keycloakVars
<1>5. Scoped!Outage => Scoped!End("outage")
  BY <1>1 DEF Scoped!Outage, Scoped!At
<1>6. CASE Scoped!End("outage")
  BY <1>1, <1>3, <1>4, <1>6, ScopedEndKeeps
<1>7. CASE s2' = c /\ s3' = g /\ Scoped!Then("edit", Scoped!EditOrder(s1))
  <2>1. Scoped!Stands(s2') /\ Scoped!Shut'
    BY <1>1, <1>3, <1>7
      DEF Scoped!IInv, Scoped!ClientStands, Scoped!Stands, Scoped!At, Scoped!Shut
  <2>2. Scoped!EditOrder(s1) \in Seq(Scoped!Parts(s1)) /\ Scoped!EditOrder(s1) # <<>>
    BY <1>1, Orders
  <2> QED BY <1>1, <1>3, <1>7, <2>1, <2>2, ScopedMoveKeeps
<1> QED BY <1>4, <1>5, <1>6, <1>7

(* A part is corrected while the client is shut; the whole is read again last.*)
LEMMA ScopedEditKeeps == ASSUME Scoped!IInv, Scoped!Edit PROVE Scoped!IInv'
<1>1. /\ s4 \in Scoped!Runs /\ s2 \in Scoped!Clients /\ s3 \in [Scoped!Parts(s1) -> Scoped!Values]
      /\ Scoped!At("edit") /\ UNCHANGED Scoped!worldVars /\ s1' = s1 /\ s6' = s6
      /\ s1 \in {"oidc", "service"}
  BY DEF Scoped!IInv, Scoped!TypeOK, Scoped!Edit, Scoped!worldVars
<1>2. PICK q \in Seq(Scoped!Parts(s1)) : q = s4.todo
  BY <1>1 DEF Scoped!Runs
<1>3. PICK h, t : h = Head(q) /\ t = Tail(q)
  OBVIOUS
<1>4. q # <<>> /\ Scoped!Shut /\ Scoped!Stands(s2)
  BY <1>1, <1>2 DEF Scoped!IInv, Scoped!ReadsTell, Scoped!ClientStands, Scoped!At
<1>5. h \in Scoped!Parts(s1) /\ t \in Seq(Scoped!Parts(s1)) /\ (Len(q) # 1 => t # <<>>)
  BY <1>3, <1>4, HeadAndTail
<1>6. /\ s2' = s2
      /\ s3' = s3 \/ \E v \in Scoped!Values : s3' = [s3 EXCEPT ![h] = v]
      /\ \/ Len(q) = 1 /\ Scoped!Then("recheck", Scoped!Order(s1)) /\ s3' = s3
         \/ Len(q) # 1 /\ Scoped!Then("edit", t)
         \/ s3' = s3 /\ Scoped!DisableThen("drift")
         \/ Scoped!End("drift") \/ Scoped!To("edit") \/ Scoped!Outage
  BY <1>2, <1>3 DEF Scoped!Edit, Scoped!Write, Scoped!keycloakVars, Scoped!Values
<1>7. /\ s2' \in Scoped!Clients /\ Scoped!Stands(s2') /\ Scoped!Shut'
      /\ s3' \in [Scoped!Parts(s1) -> Scoped!Values]
  BY <1>1, <1>4, <1>6 DEF Scoped!Stands, Scoped!Shut
<1>8. Scoped!Outage => Scoped!End("outage")
  BY <1>1 DEF Scoped!Outage, Scoped!At
<1>9. CASE Scoped!End("drift") \/ Scoped!End("outage")
  BY <1>1, <1>7, <1>9, ScopedEndKeeps
<1>10. CASE Scoped!To("edit")
  BY <1>1, <1>2, <1>4, <1>7, <1>10, ScopedMoveKeeps
<1>11. CASE Len(q) # 1 /\ Scoped!Then("edit", t)
  BY <1>1, <1>5, <1>7, <1>11, ScopedMoveKeeps
<1>12. CASE s3' = s3 /\ Scoped!DisableThen("drift")
  <2>1. UNCHANGED <<Scoped!keycloakVars, Scoped!worldVars>> /\ s4.step = "edit"
    BY <1>1, <1>6, <1>12 DEF Scoped!keycloakVars, Scoped!At
  <2> QED BY <1>12, <2>1, ScopedDisableThenKeeps
<1>13. CASE Scoped!Then("recheck", Scoped!Order(s1))
  <2>1. /\ Scoped!Order(s1) \in Seq(Scoped!Parts(s1)) /\ Scoped!Order(s1) # <<>>
        /\ \A one \in Scoped!Parts(s1) : one \in Scoped!Listed(Scoped!Order(s1))
    BY <1>1, Orders DEF Scoped!Listed
  <2>2. PICK all : all = Scoped!Order(s1)
    OBVIOUS
  <2>3. Scoped!AllButListed(all)'
    BY <1>1, <2>1, <2>2 DEF Scoped!AllButListed
  <2> QED BY <1>1, <1>7, <1>13, <2>1, <2>2, <2>3, ScopedMoveKeeps
<1> QED BY <1>6, <1>8, <1>9, <1>10, <1>11, <1>12, <1>13

(* The client is opened with every part read, and is confirmed next.        *)
LEMMA ScopedEnableKeeps == ASSUME Scoped!IInv, Scoped!Enable PROVE Scoped!IInv'
<1>1. /\ s4 \in Scoped!Runs /\ s2 \in Scoped!Clients /\ s3 \in [Scoped!Parts(s1) -> Scoped!Values]
      /\ Scoped!At("enable") /\ UNCHANGED Scoped!worldVars /\ s1' = s1 /\ s6' = s6
      /\ s1 \in {"oidc", "service"}
  BY DEF Scoped!IInv, Scoped!TypeOK, Scoped!Enable, Scoped!worldVars
<1>2. PICK c, q : /\ c = [s2 EXCEPT !.enabled = TRUE]
                  /\ q = (IF s1 = "oidc" THEN <<"client">> ELSE Scoped!Order(s1))
  OBVIOUS
<1>3. c \in Scoped!Clients /\ c.exists = s2.exists /\ c.owned = s2.owned /\ c.enabled
  BY <1>1, <1>2 DEF Scoped!Clients
<1>4. \/ s2' = s2 /\ s3' = s3 /\ Scoped!Outage
      \/ s2' = c /\ s3' = s3 /\ (Scoped!Then("confirm", q) \/ Scoped!Outage)
  BY <1>2 DEF Scoped!Enable, Scoped!Write, Scoped!keycloakVars
<1>5. CASE Scoped!Outage
  BY <1>1, <1>3, <1>4, <1>5, ScopedOutageKeeps
<1>6. CASE s2' = c /\ s3' = s3 /\ Scoped!Then("confirm", q)
  <2>1. q \in Seq(Scoped!Parts(s1)) /\ q # <<>>
    BY <1>1, <1>2, Orders
  <2>2. Scoped!Stands(s2') /\ Scoped!Opened'
    BY <1>1, <1>3, <1>6
      DEF Scoped!IInv, Scoped!ClientStands, Scoped!Stands, Scoped!At, Scoped!Opened
  <2>3. Scoped!AllButListed(<<>>)'
    BY <1>1, <1>6
      DEF Scoped!IInv, Scoped!ReadsTell, Scoped!At, Scoped!AllButListed, Scoped!AsApproved
  <2> QED BY <1>1, <1>3, <1>6, <2>1, <2>2, <2>3, ScopedMoveKeeps
<1> QED BY <1>4, <1>5, <1>6

(* The client is closed after all.                                          *)
LEMMA ScopedCloseKeeps == ASSUME Scoped!IInv, Scoped!Close PROVE Scoped!IInv'
<1>1. /\ s4 \in Scoped!Runs /\ s2 \in Scoped!Clients /\ s3 \in [Scoped!Parts(s1) -> Scoped!Values]
      /\ Scoped!At("close") /\ UNCHANGED Scoped!worldVars /\ s4.todo \in Seq(Scoped!Parts(s1))
  BY DEF Scoped!IInv, Scoped!TypeOK, Scoped!Close, Scoped!Runs
<1>2. PICK c : c = [s2 EXCEPT !.enabled = FALSE]
  OBVIOUS
<1>3. c \in Scoped!Clients /\ c.exists = s2.exists /\ c.owned = s2.owned
  BY <1>1, <1>2, ClosedClient
<1>4. s4.then \in {"drift", "outage"}
  BY <1>1 DEF Scoped!IInv, Scoped!Continues
<1>5. Scoped!Outage => Scoped!End("outage")
  BY <1>1 DEF Scoped!Outage, Scoped!At
<1>6. \/ s2' \in {s2, c} /\ s3' = s3 /\ (Scoped!End(s4.then) \/ Scoped!End("outage"))
      \/ s2' = c /\ s3' = s3 /\ Scoped!To("disabled")
  BY <1>2, <1>5 DEF Scoped!Close, Scoped!Write, Scoped!keycloakVars
<1>7. CASE s2' \in {s2, c} /\ s3' = s3 /\ (Scoped!End(s4.then) \/ Scoped!End("outage"))
  BY <1>1, <1>3, <1>4, <1>7, ScopedEndKeeps
<1>8. CASE s2' = c /\ s3' = s3 /\ Scoped!To("disabled")
  <2>1. Scoped!Stands(s2') /\ s4.then # "idle"
    BY <1>1, <1>3, <1>4, <1>8 DEF Scoped!IInv, Scoped!ClientStands, Scoped!Stands, Scoped!At
  <2> QED BY <1>1, <1>3, <1>8, <2>1, ScopedMoveKeeps
<1> QED BY <1>6, <1>7, <1>8

(* A run may end at any step.                                               *)
LEMMA ScopedKilledKeeps == ASSUME Scoped!IInv, Scoped!Killed PROVE Scoped!IInv'
<1>1. s2' \in Scoped!Clients /\ s3' \in [Scoped!Parts(s1) -> Scoped!Values]
      /\ UNCHANGED Scoped!worldVars
  BY DEF Scoped!IInv, Scoped!TypeOK, Scoped!Killed, Scoped!keycloakVars
<1> QED BY <1>1, ScopedEndKeeps DEF Scoped!Killed

(* What administrators change is theirs.                                    *)
LEMMA ScopedTouchedKeeps ==
  ASSUME Scoped!IInv, NEW what \in Scoped!Parts(s1) \cup {"enabled", "secret"},
         Scoped!Touch(what),
         s2' \in Scoped!Clients, s3' \in [Scoped!Parts(s1) -> Scoped!Values],
         s4.step \in {"check", "edit", "recheck", "enable", "confirm"} =>
           /\ \A one \in Scoped!Parts(s1) : Scoped!AsApproved(one) => Scoped!AsApproved(one)'
           /\ (Scoped!Opened => Scoped!Opened') /\ (Scoped!Shut => Scoped!Shut'),
         s4.found \/ s4.step \notin {"idle", "lookup", "prerequisites", "create"} =>
           Scoped!Stands(s2')
  PROVE  Scoped!IInv'
<1>1. /\ s8 < ScopedEdits /\ s8' = s8 + 1 /\ s6' \in {s6, s6 \cup {what}}
      /\ UNCHANGED <<s1, s4, s5, s7>>
  BY DEF Scoped!Touch
<1>2. s8' \in 0..ScopedEdits
  <2>1. s8 \in 0..ScopedEdits
    BY DEF Scoped!IInv, Scoped!TypeOK
  <2> QED BY <1>1, <2>1, ScopedAssumption DEF Scoped!ScopedAssumption
<1>3. Scoped!TypeOK'
  <2>1. Scoped!Runs' = Scoped!Runs /\ Scoped!Parts(s1)' = Scoped!Parts(s1)
    BY <1>1 DEF Scoped!Runs
  <2> QED BY <1>1, <1>2, <2>1 DEF Scoped!IInv, Scoped!TypeOK
<1>4. \A q : (\A one \in Scoped!Parts(s1) : Scoped!AsApproved(one) => Scoped!AsApproved(one)') =>
             (Scoped!AllButListed(q) =>
               \A one \in Scoped!Parts(s1) \ Scoped!Listed(q) : Scoped!AsApproved(one)')
  BY DEF Scoped!AllButListed
<1>5. s4.step \in {"check", "recheck"} => Scoped!AllButListed(s4.todo)'
  BY <1>1, <1>4 DEF Scoped!IInv, Scoped!ReadsTell, Scoped!AllButListed
<1>6. s4.step \in {"enable", "confirm"} => Scoped!AllButListed(<<>>)'
  BY <1>1, <1>4 DEF Scoped!IInv, Scoped!ReadsTell, Scoped!AllButListed
<1>7. Scoped!ReadsTell'
  BY <1>1, <1>5, <1>6 DEF Scoped!IInv, Scoped!ReadsTell, Scoped!At
<1>8. Scoped!Continues' /\ Scoped!ClientStands'
  BY <1>1 DEF Scoped!IInv, Scoped!Continues, Scoped!ClientStands, Scoped!At, Scoped!Stands
<1> QED BY <1>3, <1>7, <1>8 DEF Scoped!IInv

(* A part of the grant.                                                     *)
LEMMA ScopedChangeGrantKeeps ==
  ASSUME Scoped!IInv, NEW one \in Scoped!Parts(s1), NEW value \in Scoped!Values,
         Scoped!ChangeGrant(one, value)
  PROVE  Scoped!IInv'
<1>1. /\ s2' = s2 /\ s2 \in Scoped!Clients /\ s3 \in [Scoped!Parts(s1) -> Scoped!Values]
      /\ s3' = [s3 EXCEPT ![one] = value] /\ Scoped!Touch(one) /\ s1' = s1
      /\ (s4.step # "idle" => s6' = s6 \cup {one})
  BY DEF Scoped!IInv, Scoped!TypeOK, Scoped!ChangeGrant, Scoped!Touch, Scoped!At
<1>2. s4.step # "idle" =>
        \A p \in Scoped!Parts(s1) : Scoped!AsApproved(p) => Scoped!AsApproved(p)'
  BY <1>1 DEF Scoped!AsApproved
<1>3. s4.step # "idle" => (Scoped!Opened => Scoped!Opened') /\ (Scoped!Shut => Scoped!Shut')
  BY <1>1 DEF Scoped!Opened, Scoped!Shut
<1>4. s4.found \/ s4.step \notin {"idle", "lookup", "prerequisites", "create"} =>
        Scoped!Stands(s2')
  BY <1>1 DEF Scoped!IInv, Scoped!ClientStands, Scoped!Stands
<1>5. s3' \in [Scoped!Parts(s1) -> Scoped!Values]
  BY <1>1
<1> QED BY <1>1, <1>2, <1>3, <1>4, <1>5, ScopedTouchedKeeps

(* The client's activation or secret.                                       *)
LEMMA ScopedChangeClientKeeps ==
  ASSUME Scoped!IInv, NEW what \in {"enabled", "secret"}, Scoped!ChangeClient(what)
  PROVE  Scoped!IInv'
<1>1. /\ s2 \in Scoped!Clients /\ s2' = [s2 EXCEPT ![what] = ~s2[what]]
      /\ s3' = s3 /\ s3 \in [Scoped!Parts(s1) -> Scoped!Values] /\ Scoped!Touch(what) /\ s1' = s1
      /\ (s4.step # "idle" => s6' = s6 \cup {what})
  BY DEF Scoped!IInv, Scoped!TypeOK, Scoped!ChangeClient, Scoped!Touch, Scoped!At
<1>2. /\ s2' \in Scoped!Clients /\ s2'.exists = s2.exists /\ s2'.owned = s2.owned
      /\ (what = "secret" => s2'.enabled = s2.enabled)
  <2>1. CASE what = "enabled"
    BY <1>1, <2>1 DEF Scoped!Clients
  <2>2. CASE what = "secret"
    BY <1>1, <2>2 DEF Scoped!Clients
  <2> QED BY <2>1, <2>2
<1>3. s4.step # "idle" =>
        \A p \in Scoped!Parts(s1) : Scoped!AsApproved(p) => Scoped!AsApproved(p)'
  BY <1>1 DEF Scoped!AsApproved
<1>4. s4.step # "idle" => (Scoped!Opened => Scoped!Opened') /\ (Scoped!Shut => Scoped!Shut')
  BY <1>1, <1>2 DEF Scoped!Opened, Scoped!Shut
<1>5. s4.found \/ s4.step \notin {"idle", "lookup", "prerequisites", "create"} =>
        Scoped!Stands(s2')
  BY <1>1, <1>2 DEF Scoped!IInv, Scoped!ClientStands, Scoped!Stands
<1> QED BY <1>1, <1>2, <1>3, <1>4, <1>5, ScopedTouchedKeeps

(* A client that another creates: no run has found one.                     *)
LEMMA ScopedCreateOtherKeeps == ASSUME Scoped!IInv, Scoped!CreateOther PROVE Scoped!IInv'
<1>1. /\ ~s2.exists /\ Scoped!Touch("enabled") /\ s3 \in [Scoped!Parts(s1) -> Scoped!Values]
      /\ s2' = [exists |-> TRUE, owned |-> FALSE, enabled |-> TRUE, secret |-> FALSE]
      /\ s3' = [s3 EXCEPT !["client"] = "more"]
  BY DEF Scoped!IInv, Scoped!TypeOK, Scoped!CreateOther
<1>2. s2' \in Scoped!Clients /\ s3' \in [Scoped!Parts(s1) -> Scoped!Values]
  BY <1>1 DEF Scoped!Clients, Scoped!Values
<1>3. ~s4.found /\ s4.step \in {"idle", "lookup", "prerequisites", "create"}
  BY <1>1 DEF Scoped!IInv, Scoped!ClientStands, Scoped!Stands
<1> QED BY <1>1, <1>2, <1>3, ScopedTouchedKeeps

(* Every step of the runs and administrators.                               *)
LEMMA ScopedNext == ASSUME Scoped!IInv, Scoped!Next PROVE Scoped!IInv'
  BY ScopedStartKeeps, ScopedLookupKeeps, ScopedPrerequisitesKeeps, ScopedReadFailsKeeps,
     ScopedDisableKeeps, ScopedDisabledKeeps, ScopedReadPartKeeps, ScopedEditKeeps,
     ScopedCreateKeeps, ScopedPutKeeps, ScopedEnableKeeps, ScopedCloseKeeps, ScopedKilledKeeps,
     ScopedChangeGrantKeeps, ScopedChangeClientKeeps, ScopedCreateOtherKeeps DEF Scoped!Next

(* A step that changes nothing in Keycloak opens nothing and alters no      *)
(* grant: what it may say of the client remains.                            *)
LEMMA QuietStep ==
  ASSUME s2' = s2, s3' = s3,
         s5 # "drift" /\ s5' = "drift" =>
           \/ ~s2.enabled \/ "enabled" \in s6
           \/ \E p \in {"composite", "shared"} : s3[p] # "exact" /\ ~Scoped!Carries(p)
           \/ ~s4.found,
         s5 # "verified" /\ s5' = "verified" =>
           /\ \A p \in Scoped!Parts(s1) : s3[p] = "exact" \/ p \in s6
           /\ s2.enabled \/ "enabled" \in s6
  PROVE  Scoped!FailsClosedStep
  BY DEF Scoped!FailsClosedStep, Scoped!keycloakVars

(* A step that writes to a client that stands, and leaves its grant.        *)
LEMMA WritingStep ==
  ASSUME Scoped!Stands(s2), s5' = s5 \/ s5' = "outage" \/ ~s2'.enabled,
         s5' # "verified" \/ s5' = s5,
         ~s2.enabled /\ s2'.enabled =>
           \A p \in Scoped!Parts(s1) : s3[p] = "exact" \/ p \in s6,
         s3' # s3 => ~s2'.enabled \/ "enabled" \in s6,
         s5' = "drift" => s5' = s5 \/ ~s2'.enabled
  PROVE  Scoped!FailsClosedStep
  BY DEF Scoped!FailsClosedStep, Scoped!Stands

(* The steps of a run that write nothing.                                   *)
LEMMA RunFailsClosed ==
  ASSUME Scoped!IInv,
         \/ Scoped!Start \/ Scoped!Lookup \/ Scoped!Prerequisites \/ Scoped!ReadFails
         \/ Scoped!Disabled \/ Scoped!ReadPart \/ Scoped!Killed
  PROVE  Scoped!FailsClosedStep
<1>1. /\ s4 \in Scoped!Runs /\ s2 \in Scoped!Clients
      /\ s4.then \in {"idle", "prerequisites", "put", "drift", "outage"}
  BY DEF Scoped!IInv, Scoped!TypeOK, Scoped!Runs
<1>2. CASE Scoped!Start \/ Scoped!Lookup \/ Scoped!ReadFails \/ Scoped!Killed
  <2>1. s2' = s2 /\ s3' = s3
    BY <1>2 DEF Scoped!Start, Scoped!Lookup, Scoped!ReadFails, Scoped!Killed, Scoped!keycloakVars
  <2>2. s5' = s5 \/ s5' \in {"nothing", "refused", "outage"}
    BY <1>2
      DEF Scoped!Start, Scoped!Lookup, Scoped!ReadFails, Scoped!Killed, Scoped!End,
       Scoped!Outage, Scoped!CloseAfter
  <2> QED BY <2>1, <2>2, QuietStep
<1>3. CASE Scoped!Prerequisites
  <2>1. s2' = s2 /\ s3' = s3
    BY <1>3 DEF Scoped!Prerequisites, Scoped!keycloakVars
  <2>2. \/ s5' = s5
        \/ /\ s5' = "drift"
           /\ \/ s3["composite"] # "exact" /\ ~(s4.found /\ Scoped!Carries("composite"))
              \/ s3["shared"] # "exact" /\ ~(s4.found /\ Scoped!Carries("shared"))
    BY <1>3 DEF Scoped!Prerequisites, Scoped!End, Scoped!DisableThen, Scoped!Then, Scoped!To
  <2> QED BY <2>1, <2>2, QuietStep
<1>4. CASE Scoped!Disabled
  <2>1. s2' = s2 /\ s3' = s3
    BY <1>4 DEF Scoped!Disabled, Scoped!keycloakVars
  <2>2. s5' = s5 \/ s5' = "outage" \/ (s5' = "drift" /\ ~s2.enabled)
    BY <1>1, <1>4 DEF Scoped!Disabled, Scoped!End, Scoped!To
  <2> QED BY <2>1, <2>2, QuietStep
<1>5. CASE Scoped!ReadPart
  <2>1. /\ s2' = s2 /\ s3' = s3
        /\ s4.step \in {"check", "recheck", "confirm"}
    BY <1>5 DEF Scoped!ReadPart, Scoped!keycloakVars
  <2>2. PICK q \in Seq(Scoped!Parts(s1)) : q = s4.todo
    BY <1>1 DEF Scoped!Runs
  <2>3. PICK h : h = Head(q)
    OBVIOUS
  <2>4. q # <<>>
    BY <2>1, <2>2 DEF Scoped!IInv, Scoped!ReadsTell
  <2>5. Len(q) = 1 => Scoped!Listed(q) \subseteq {h}
    BY <2>3, <2>4, HeadAndTail
  <2>6. \/ Scoped!Drifted
        \/ Scoped!Matches(h, ~Scoped!At("recheck")) /\ Scoped!AllRead /\ Len(q) = 1
        \/ Scoped!Then(s4.step, Tail(q))
    BY <1>5, <2>2, <2>3 DEF Scoped!ReadPart
  <2>7. CASE Scoped!Drifted
    <3>1. s5' = s5 \/ (s5' = "drift" /\ s4.step = "recheck")
      BY <2>7 DEF Scoped!Drifted, Scoped!End, Scoped!DisableThen, Scoped!CloseAfter, Scoped!At
    <3>2. s4.step = "recheck" => Scoped!Shut
      BY DEF Scoped!IInv, Scoped!ReadsTell
    <3> QED BY <2>1, <3>1, <3>2, QuietStep DEF Scoped!Shut
  <2>8. CASE Scoped!Matches(h, ~Scoped!At("recheck")) /\ Scoped!AllRead /\ Len(q) = 1
    <3>1. s5' = s5 \/ (s5' = "verified" /\ s4.step \in {"check", "confirm"})
      BY <2>8 DEF Scoped!AllRead, Scoped!End, Scoped!To, Scoped!At
    <3>2. s3[h] = "exact" /\ (s4.step = "check" /\ h = "client" => s2.enabled)
      BY <1>1, <2>8 DEF Scoped!Matches, Scoped!At, Scoped!Clients
    <3>3. s4.step = "check" =>
            Scoped!AllButListed(q) /\ ("client" \in Scoped!Listed(q) \/ Scoped!Opened)
      BY <2>2 DEF Scoped!IInv, Scoped!ReadsTell, Scoped!At
    <3>4. s4.step = "confirm" =>
            (\A p \in Scoped!Parts(s1) : Scoped!AsApproved(p)) /\ Scoped!Opened
      BY DEF Scoped!IInv, Scoped!ReadsTell, Scoped!AllButListed, Scoped!Listed, Scoped!At
    <3>5. s5' = s5 \/ ((\A p \in Scoped!Parts(s1) : Scoped!AsApproved(p)) /\ Scoped!Opened)
      BY <2>5, <2>8, <3>1, <3>2, <3>3, <3>4
        DEF Scoped!AllButListed, Scoped!AsApproved, Scoped!Opened
    <3> QED BY <2>1, <3>1, <3>5, QuietStep DEF Scoped!AsApproved, Scoped!Opened
  <2>9. CASE Scoped!Then(s4.step, Tail(q))
    BY <2>1, <2>9, QuietStep DEF Scoped!Then
  <2> QED BY <2>6, <2>7, <2>8, <2>9
<1> QED BY <1>2, <1>3, <1>4, <1>5

(* The writes to a client that stands.                                      *)
LEMMA WriteFailsClosed ==
  ASSUME Scoped!IInv, Scoped!Disable \/ Scoped!Put \/ Scoped!Edit \/ Scoped!Enable \/ Scoped!Close
  PROVE  Scoped!FailsClosedStep
<1>1. /\ s2 \in Scoped!Clients /\ s4.step \in {"disable", "put", "edit", "enable", "close"}
  BY DEF Scoped!IInv, Scoped!TypeOK, Scoped!Disable, Scoped!Put, Scoped!Edit, Scoped!Enable,
     Scoped!Close, Scoped!At
<1>2. Scoped!Stands(s2)
  BY <1>1 DEF Scoped!IInv, Scoped!ClientStands
<1>3. CASE Scoped!Disable \/ Scoped!Put
  <2>1. s2' = s2 \/ ~s2'.enabled
    BY <1>1, <1>3
      DEF Scoped!Disable, Scoped!Put, Scoped!Write, Scoped!keycloakVars, Scoped!Clients
  <2>2. s5' = s5 \/ s5' = "outage"
    BY <1>3
      DEF Scoped!Disable, Scoped!Put, Scoped!Write, Scoped!To, Scoped!Then, Scoped!Outage,
       Scoped!End, Scoped!CloseAfter
  <2>3. s3' = s3 \/ ~s2'.enabled
    BY <1>1, <1>3
      DEF Scoped!Disable, Scoped!Put, Scoped!Write, Scoped!keycloakVars, Scoped!Clients
  <2> QED BY <1>2, <2>1, <2>2, <2>3, WritingStep
<1>4. CASE Scoped!Enable
  <2>1. s3' = s3 /\ (s5' = s5 \/ s5' = "outage")
    BY <1>4
      DEF Scoped!Enable, Scoped!Write, Scoped!keycloakVars, Scoped!Then, Scoped!Outage,
       Scoped!End, Scoped!CloseAfter
  <2>2. \A p \in Scoped!Parts(s1) : s3[p] = "exact" \/ p \in s6
    BY <1>4
      DEF Scoped!Enable, Scoped!At, Scoped!IInv, Scoped!ReadsTell, Scoped!AllButListed,
       Scoped!Listed, Scoped!AsApproved
  <2> QED BY <1>2, <2>1, <2>2, WritingStep
<1>5. CASE Scoped!Edit
  <2>1. s2' = s2 /\ Scoped!Shut
    BY <1>5
      DEF Scoped!Edit, Scoped!Write, Scoped!keycloakVars, Scoped!IInv, Scoped!ReadsTell,
       Scoped!At
  <2>2. s5' = s5 \/ s5' \in {"outage", "drift"}
    BY <1>5
      DEF Scoped!Edit, Scoped!Write, Scoped!To, Scoped!Then, Scoped!Outage, Scoped!End,
       Scoped!CloseAfter, Scoped!DisableThen
  <2> QED BY <1>2, <2>1, <2>2 DEF Scoped!FailsClosedStep, Scoped!Stands, Scoped!Shut
<1>6. CASE Scoped!Close
  <2>1. s4.then \in {"drift", "outage"}
    BY <1>6 DEF Scoped!Close, Scoped!IInv, Scoped!Continues
  <2>2. s3' = s3 /\ (s2' = s2 \/ ~s2'.enabled)
    BY <1>1, <1>6 DEF Scoped!Close, Scoped!Write, Scoped!keycloakVars, Scoped!Clients
  <2>3. s5' = s5 \/ s5' = "outage" \/ (s5' = "drift" /\ ~s2'.enabled)
    BY <1>1, <1>6, <2>1
      DEF Scoped!Close, Scoped!Write, Scoped!To, Scoped!Outage, Scoped!End, Scoped!CloseAfter,
       Scoped!At, Scoped!Clients
  <2> QED BY <1>2, <2>2, <2>3, WritingStep
<1> QED BY <1>3, <1>4, <1>5, <1>6

(* The creation.                                                            *)
LEMMA CreateFailsClosed == ASSUME Scoped!IInv, Scoped!Create PROVE Scoped!FailsClosedStep
<1>1. s2 \in Scoped!Clients
  BY DEF Scoped!IInv, Scoped!TypeOK
<1>2. s5' = s5 \/ s5' = "outage"
  BY DEF Scoped!Create, Scoped!Write, Scoped!To, Scoped!Outage, Scoped!End, Scoped!CloseAfter
<1>3. (s2' = s2 /\ s3' = s3) \/ (~s2.exists /\ ~s2'.enabled)
  BY <1>1 DEF Scoped!Create, Scoped!Write, Scoped!keycloakVars, Scoped!Clients
<1> QED BY <1>2, <1>3 DEF Scoped!FailsClosedStep, Scoped!keycloakVars

(* Administrators may do as they like.                                      *)
LEMMA ScopedIsClosed == ASSUME Scoped!IInv, Scoped!Next PROVE Scoped!FailsClosedStep
<1>1. CASE \/ \E one \in Scoped!Parts(s1), v \in Scoped!Values : Scoped!ChangeGrant(one, v)
           \/ \E what \in {"enabled", "secret"} : Scoped!ChangeClient(what)
           \/ Scoped!CreateOther
  <2>1. s8 \in Nat /\ s8' = s8 + 1
    BY <1>1
      DEF Scoped!IInv, Scoped!TypeOK, Scoped!ChangeGrant, Scoped!ChangeClient,
       Scoped!CreateOther, Scoped!Touch
  <2> QED BY <2>1 DEF Scoped!FailsClosedStep
<1> QED BY <1>1, RunFailsClosed, WriteFailsClosed, CreateFailsClosed DEF Scoped!Next

-----------------------------------------------------------------------------
(* The credentials of the selected add-ons: s1 the values that are stored,  *)
(* s2 the versions of their records; of an operator s3 the run under way,   *)
(* s4 the runs begun.                                                       *)

(* A set of naturals has a least element.                                    *)
LEMMA CredentialLeast ==
  ASSUME NEW S \in SUBSET Nat, S # {}
  PROVE  \E m \in S : \A k \in S : m <= k
<1>0. PICK R : R = OpToRel(<, Nat)
  OBVIOUS
<1>1. PICK m \in S : \A k \in S : ~ (<<k, m>> \in R)
  BY <1>0, WFMin, NatLessThanWellFounded
<1>2. ASSUME NEW k \in S
      PROVE  m <= k
  <2>1. k \in Nat /\ m \in Nat
    OBVIOUS
  <2>2. k < m => <<k, m>> \in R
    BY <1>0, <2>1 DEF OpToRel
  <2>. QED
    BY <1>1, <2>1, <2>2
<1>. QED
  BY <1>2

(* The sizes that the module speaks of are those of the library.             *)
LEMMA CredentialSizes ==
  \A S : /\ Keys!IsFiniteSet(S) <=> IsFiniteSet(S)
         /\ Keys!Cardinality(S) = Cardinality(S)
  BY DEF Keys!IsFiniteSet, IsFiniteSet, Keys!Cardinality, Cardinality

(* What is computed along the references exists, since they are not cyclic:  *)
(* a largest part of the fields on which it does is all of them.             *)
LEMMA CredentialRecursion ==
  ASSUME NEW V, NEW b \in [Keys!Fields -> V], NEW s \in [V -> V]
  PROVE  \E g \in [Keys!Fields -> V] :
           g = [f \in Keys!Fields |->
             IF FieldKinds[f] = "derived" THEN s[g[FieldSources[f]]] ELSE b[f]]
<1>. DEFINE D(f) == FieldKinds[f] = "derived"
            Solves(A, g) == \A f \in A : g[f] = IF D(f) THEN s[g[FieldSources[f]]] ELSE b[f]
            Closed(A) == \A f \in A : D(f) => FieldSources[f] \in A
            Good == {A \in SUBSET Keys!Fields : Closed(A) /\ \E g \in [A -> V] : Solves(A, g)}
            Rest(A) == Cardinality(Keys!Fields) - Cardinality(A)
            Sizes == {Rest(A) : A \in Good}
<1>1. {} \in Good
  <2>1. [f \in {} |-> s] \in [{} -> V]
    OBVIOUS
  <2>. QED
    BY <2>1
<1>2. /\ IsFiniteSet(Keys!Fields) /\ Cardinality(Keys!Fields) \in Nat
      /\ \A A \in SUBSET Keys!Fields : /\ IsFiniteSet(A) /\ Cardinality(A) \in Nat
                                       /\ Cardinality(A) <= Cardinality(Keys!Fields)
  BY CredentialAssumption, CredentialSizes, FS_Subset, FS_CardinalityType
  DEF Keys!CredentialAssumption
<1>3. PICK A \in Good : \A B \in Good : Rest(A) <= Rest(B)
  <2>0. ASSUME NEW B \in Good
        PROVE  Rest(B) \in Nat
    <3>1. Cardinality(B) \in Nat /\ Cardinality(B) <= Cardinality(Keys!Fields)
      BY <1>2
    <3>. QED
      BY <1>2, <3>1
  <2>1. Sizes \in SUBSET Nat /\ Sizes # {}
    <3>1. \A k \in Sizes : \E B \in Good : k = Rest(B)
      OBVIOUS
    <3>2. Sizes # {}
      <4>. HIDE DEF Good, Rest
      <4>1. Rest({}) \in Sizes
        BY <1>1
      <4>. QED
        BY <4>1
    <3>. HIDE DEF Sizes, Good, Rest
    <3>. QED
      BY <2>0, <3>1, <3>2
  <2>2. PICK m \in Sizes : \A k \in Sizes : m <= k
    BY <2>1, CredentialLeast
  <2>. QED
    BY <2>2
<1>4. Closed(A) /\ A \in SUBSET Keys!Fields
  BY <1>3
<1>5. PICK g \in [A -> V] : Solves(A, g)
  BY <1>3
<1>6. A = Keys!Fields
  <2>1. SUFFICES ASSUME A # Keys!Fields
                 PROVE  FALSE
    OBVIOUS
  <2>2. PICK f \in Keys!Fields \ A : D(f) => FieldSources[f] \notin Keys!Fields \ A
    BY <1>4, <2>1, CredentialAssumption DEF Keys!CredentialAssumption
  <2>3. D(f) => FieldSources[f] \in A
    BY <2>2, CredentialAssumption DEF Keys!CredentialAssumption, Keys!OfKind
  <2>. DEFINE c == IF D(f) THEN s[g[FieldSources[f]]] ELSE b[f]
              B == A \cup {f}
              h == [x \in B |-> IF x = f THEN c ELSE g[x]]
  <2>4. c \in V
    BY <1>5, <2>2, <2>3
  <2>5. h \in [B -> V]
    BY <1>5, <2>4
  <2>6. Closed(B)
    BY <1>4, <2>3
  <2>7. \A x \in A : h[x] = g[x]
    BY <2>2
  <2>8. h[f] = c
    OBVIOUS
  <2>9. Solves(B, h)
    <3>1. ASSUME NEW x \in A
          PROVE  h[x] = IF D(x) THEN s[h[FieldSources[x]]] ELSE b[x]
      <4>1. D(x) => h[FieldSources[x]] = g[FieldSources[x]]
        BY <1>4, <2>7
      <4>. QED
        BY <1>5, <2>7, <4>1
    <3>2. h[f] = IF D(f) THEN s[h[FieldSources[f]]] ELSE b[f]
      BY <2>3, <2>7, <2>8
    <3>. QED
      BY <3>1, <3>2
  <2>10. B \in Good
    BY <1>4, <2>2, <2>5, <2>6, <2>9
  <2>11. Cardinality(B) = Cardinality(A) + 1
    BY <1>2, <1>4, <2>2, FS_AddElement
  <2>12. Rest(A) <= Rest(B)
    BY <1>3, <2>10
  <2>13. Cardinality(A) \in Nat /\ Cardinality(Keys!Fields) \in Nat
    BY <1>2, <1>4
  <2>. QED
    BY <2>11, <2>12, <2>13
<1>7. g = [f \in Keys!Fields |-> IF D(f) THEN s[g[FieldSources[f]]] ELSE b[f]]
  BY <1>5, <1>6
<1>. QED
  BY <1>5, <1>6, <1>7

(* A field stands one level above its source.                                *)
LEMMA CredentialLevel ==
  /\ Keys!Level \in [Keys!Fields -> Nat]
  /\ \A f \in Keys!Fields : Keys!Level[f] =
       IF FieldKinds[f] = "derived" THEN 1 + Keys!Level[FieldSources[f]] ELSE 0
<1>. DEFINE Def(g) == [f \in Keys!Fields |->
       IF FieldKinds[f] = "derived" THEN 1 + g[FieldSources[f]] ELSE 0]
<1>1. PICK b : b = [f \in Keys!Fields |-> 0]
  OBVIOUS
<1>2. PICK s : s = [n \in Nat |-> 1 + n]
  OBVIOUS
<1>3. b \in [Keys!Fields -> Nat] /\ s \in [Nat -> Nat]
  BY <1>1, <1>2
<1>4. PICK g \in [Keys!Fields -> Nat] :
        g = [f \in Keys!Fields |->
          IF FieldKinds[f] = "derived" THEN s[g[FieldSources[f]]] ELSE b[f]]
  BY <1>3, CredentialRecursion
<1>5. g = Def(g)
  <2>1. ASSUME NEW f \in Keys!Fields
        PROVE  (IF FieldKinds[f] = "derived" THEN s[g[FieldSources[f]]] ELSE b[f]) = Def(g)[f]
    <3>1. FieldKinds[f] = "derived" => g[FieldSources[f]] \in Nat
      BY <1>4, CredentialAssumption DEF Keys!CredentialAssumption, Keys!OfKind
    <3>. QED
      BY <1>1, <1>2, <3>1
  <2>. QED
    BY <1>4, <2>1
<1>. DEFINE L == CHOOSE x : x = Def(x)
<1>6. L = Def(L)
  BY <1>5
<1>7. Keys!Level = L
  BY DEF Keys!Level
<1>8. Keys!Level = Def(Keys!Level)
  BY <1>6, <1>7
<1>. HIDE DEF L
<1>9. \A f \in Keys!Fields : Keys!Level[f] =
        IF FieldKinds[f] = "derived" THEN 1 + Keys!Level[FieldSources[f]] ELSE 0
  BY <1>8
<1>10. Keys!Level \in [Keys!Fields -> Nat]
  <2>. DEFINE Bad == {f \in Keys!Fields : Keys!Level[f] \notin Nat}
  <2>1. CASE Bad # {}
    <3>1. PICK f \in Bad : FieldKinds[f] = "derived" => FieldSources[f] \notin Bad
      BY <2>1, CredentialAssumption DEF Keys!CredentialAssumption
    <3>2. FieldKinds[f] = "derived" => Keys!Level[FieldSources[f]] \in Nat
      BY <3>1, CredentialAssumption DEF Keys!CredentialAssumption, Keys!OfKind
    <3>. QED
      BY <1>9, <3>1, <3>2
  <2>2. CASE Bad = {}
    BY <1>8, <2>2
  <2>. QED
    BY <2>1, <2>2
<1>. QED
  BY <1>9, <1>10

(* A derived field comes to what its source does.                            *)
LEMMA CredentialResolved ==
  ASSUME Keys!TypeOK, NEW o \in Operators, s4[o] > 0
  PROVE  /\ Keys!Resolved(o) \in [Keys!Fields -> Keys!Values \cup {None}]
         /\ \A f \in Keys!Fields :
              Keys!Resolved(o)[f] =
                IF FieldKinds[f] = "derived" THEN Keys!Resolved(o)[FieldSources[f]]
                ELSE Keys!Own(o, f)
<1>. DEFINE V == Keys!Values \cup {None}
            Def(g) == [f \in Keys!Fields |->
              IF FieldKinds[f] = "derived" THEN g[FieldSources[f]] ELSE Keys!Own(o, f)]
<1>1. \A f \in Keys!Fields : FieldKinds[f] # "derived" => Keys!Own(o, f) \in V
  <2>1. s3[o] \in Keys!Session /\ s4[o] \in 1..CredentialRuns
    BY DEF Keys!TypeOK
  <2>2. Keys!Fresh(o) \in Keys!Values /\ Fixed \in Keys!Values
        /\ TypedInputs \subseteq Keys!Values
    BY <2>1 DEF Keys!Fresh, Keys!Values
  <2>3. s3[o].typed \in TypedInputs \cup {None} /\ s3[o].seen \in [Keys!Fields -> V]
    BY <2>1 DEF Keys!Session
  <2>. QED
    BY <2>2, <2>3, CredentialAssumption DEF Keys!Own, Keys!CredentialAssumption
<1>2. PICK b : b = [f \in Keys!Fields |->
                 IF FieldKinds[f] = "derived" THEN None ELSE Keys!Own(o, f)]
  OBVIOUS
<1>3. PICK s : s = [v \in V |-> v]
  OBVIOUS
<1>4. b \in [Keys!Fields -> V] /\ s \in [V -> V]
  BY <1>1, <1>2, <1>3
<1>5. PICK g \in [Keys!Fields -> V] :
        g = [f \in Keys!Fields |->
          IF FieldKinds[f] = "derived" THEN s[g[FieldSources[f]]] ELSE b[f]]
  BY <1>4, CredentialRecursion
<1>6. g = Def(g)
  <2>1. ASSUME NEW f \in Keys!Fields
        PROVE  (IF FieldKinds[f] = "derived" THEN s[g[FieldSources[f]]] ELSE b[f]) = Def(g)[f]
    <3>1. FieldKinds[f] = "derived" => g[FieldSources[f]] \in V
      BY <1>5, CredentialAssumption DEF Keys!CredentialAssumption, Keys!OfKind
    <3>. QED
      BY <1>2, <1>3, <3>1
  <2>. QED
    BY <1>5, <2>1
<1>. DEFINE R == CHOOSE x : x = Def(x)
<1>7. R = Def(R)
  BY <1>6
<1>8. Keys!Resolved(o) = R
  BY DEF Keys!Resolved
<1>9. Keys!Resolved(o) = Def(Keys!Resolved(o))
  BY <1>7, <1>8
<1>. HIDE DEF R
<1>10. \A f \in Keys!Fields :
         Keys!Resolved(o)[f] =
           IF FieldKinds[f] = "derived" THEN Keys!Resolved(o)[FieldSources[f]] ELSE Keys!Own(o, f)
  BY <1>9
<1>11. Keys!Resolved(o) \in [Keys!Fields -> V]
  <2>. DEFINE Bad == {f \in Keys!Fields : Keys!Resolved(o)[f] \notin V}
  <2>1. CASE Bad # {}
    <3>1. PICK f \in Bad : FieldKinds[f] = "derived" => FieldSources[f] \notin Bad
      BY <2>1, CredentialAssumption DEF Keys!CredentialAssumption
    <3>2. FieldKinds[f] = "derived" => Keys!Resolved(o)[FieldSources[f]] \in V
      BY <3>1, CredentialAssumption DEF Keys!CredentialAssumption, Keys!OfKind
    <3>. QED
      BY <1>1, <1>10, <3>1, <3>2
  <2>2. CASE Bad = {}
    BY <1>9, <2>2
  <2>. QED
    BY <2>1, <2>2
<1>. QED
  BY <1>10, <1>11

(* What is stored grows: keys stand, and a record changes with its version.  *)
Grown ==
  /\ \A r \in Keys!Records : s2[r] <= s2'[r]
  /\ \A f \in Keys!Fields : Keys!Made(f) /\ s1[f] # None => s1'[f] = s1[f]
  /\ \A f \in Keys!Fields : s2'[FieldRecords[f]] = s2[FieldRecords[f]] => s1'[f] = s1[f]

(* What a run has read stands while others write.                            *)
LEMMA CredentialReadsKeep ==
  ASSUME Keys!TypeOK, Keys!TypeOK', NEW o \in Operators, Grown, s3[o].step \in {"ask", "read"},
         Keys!ReadsStand(o),
         s3'[o].seen = s3[o].seen, s3'[o].versions = s3[o].versions,
         \A r : Keys!HasRead(o, r)' => Keys!HasRead(o, r)
  PROVE  Keys!ReadsStand(o)'
<1>. DEFINE v == s3[o].versions
            seen == s3[o].seen
<1>1. v \in [Keys!Records -> Nat] /\ s2 \in [Keys!Records -> Nat] /\ s2' \in [Keys!Records -> Nat]
  BY DEF Keys!TypeOK, Keys!Session
<1>2. ASSUME NEW r \in Keys!Records
      PROVE  v[r] <= s2'[r] /\ (v[r] = s2'[r] => s2'[r] = s2[r])
  <2>1. v[r] \in Nat /\ s2[r] \in Nat /\ s2'[r] \in Nat
    BY <1>1
  <2>2. v[r] <= s2[r] /\ s2[r] <= s2'[r]
    BY DEF Keys!ReadsStand, Grown
  <2>. QED
    BY <2>1, <2>2
<1>3. ASSUME NEW f \in Keys!Fields
      PROVE  /\ Keys!Made(f) => seen[f] \in {None, s1'[f]}
             /\ Keys!CopyOfMade(f) => seen[f] \in {None, s1'[FieldSources[f]]}
             /\ Keys!Made(f) /\ Keys!HasRead(o, FieldRecords[f])
                /\ v[FieldRecords[f]] = s2'[FieldRecords[f]]
                  => seen[f] = s1'[f]
  <2>1. FieldRecords[f] \in Keys!Records
        /\ (FieldKinds[f] = "derived" => FieldSources[f] \in Keys!Fields)
    BY CredentialAssumption DEF Keys!CredentialAssumption, Keys!OfKind
  <2>2. Keys!Made(f) => seen[f] \in {None, s1'[f]}
    BY DEF Keys!ReadsStand, Grown
  <2>3. Keys!CopyOfMade(f) => seen[f] \in {None, s1'[FieldSources[f]]}
    BY <2>1 DEF Keys!ReadsStand, Grown, Keys!CopyOfMade
  <2>4. Keys!Made(f) /\ Keys!HasRead(o, FieldRecords[f])
        /\ v[FieldRecords[f]] = s2'[FieldRecords[f]]
          => seen[f] = s1'[f]
    BY <1>2, <2>1 DEF Keys!ReadsStand, Grown
  <2>. QED
    BY <2>2, <2>3, <2>4
<1>. QED
  BY <1>2, <1>3 DEF Keys!ReadsStand

(* And so does what it has planned.                                          *)
LEMMA CredentialPlanKeeps ==
  ASSUME Keys!TypeOK, Keys!TypeOK', NEW o \in Operators, Grown, s3[o].step \in {"check", "write"},
         Keys!PlanStands(o), s3'[o].writes = s3[o].writes, s3'[o].versions = s3[o].versions
  PROVE  Keys!PlanStands(o)'
<1>. DEFINE v == s3[o].versions
            W == s3[o].writes
<1>1. /\ v \in [Keys!Records -> Nat] /\ s2 \in [Keys!Records -> Nat]
      /\ s2' \in [Keys!Records -> Nat]
      /\ W \in SUBSET Keys!Planned
  BY DEF Keys!TypeOK, Keys!Session
<1>2. Keys!Chained(o) /\ Keys!KeysAgree(o) /\ Keys!CopiesFollow(o)
  BY DEF Keys!PlanStands
<1>3. ASSUME NEW r \in Keys!Records
      PROVE  v[r] <= s2'[r] /\ (v[r] = s2'[r] => s2'[r] = s2[r])
  <2>1. v[r] \in Nat /\ s2[r] \in Nat /\ s2'[r] \in Nat
    BY <1>1
  <2>2. v[r] <= s2[r] /\ s2[r] <= s2'[r]
    BY <1>2 DEF Keys!Chained, Grown
  <2>. QED
    BY <2>1, <2>2
<1>4. \A w : Keys!Before(o, w)' = Keys!Before(o, w)
  BY DEF Keys!Before
<1>5. Keys!Chained(o)'
  BY <1>2, <1>3, <1>4 DEF Keys!Chained
<1>6. \A w \in W : w.record \in Keys!Records
  BY <1>1 DEF Keys!Planned
<1>7. Keys!KeysAgree(o)'
  <2>1. ASSUME NEW w \in W, NEW f \in Keys!Fields, Keys!Made(f), FieldRecords[f] = w.record
        PROVE  /\ v[w.record] = s2'[w.record] => s1'[f] \in {None, w.values[f]}
               /\ \A u \in W : u.record = w.record => u.values[f] = w.values[f]
    <3>1. v[w.record] = s2'[w.record] => s2'[w.record] = s2[w.record]
      BY <1>3, <1>6
    <3>2. s2'[FieldRecords[f]] = s2[FieldRecords[f]] => s1'[f] = s1[f]
      BY DEF Grown
    <3>. QED
      BY <1>2, <2>1, <3>1, <3>2 DEF Keys!KeysAgree
  <2>. QED
    BY <2>1 DEF Keys!KeysAgree
<1>8. Keys!CopiesFollow(o)'
  <2>1. ASSUME NEW w \in W, NEW f \in Keys!Fields, Keys!CopyOfMade(f), FieldRecords[f] = w.record,
               w.values[f] # None
        PROVE  s1[FieldSources[f]] = w.values[f] => s1'[FieldSources[f]] = w.values[f]
    <3>1. FieldSources[f] \in Keys!Fields /\ Keys!Made(FieldSources[f])
      BY <2>1, CredentialAssumption DEF Keys!CredentialAssumption, Keys!OfKind, Keys!CopyOfMade
    <3>. QED
      BY <2>1, <3>1 DEF Grown
  <2>. QED
    BY <1>2, <2>1 DEF Keys!CopiesFollow
<1>. QED
  BY <1>5, <1>7, <1>8 DEF Keys!PlanStands

(* The run of one operator: the others keep what they have.                  *)
LEMMA CredentialKeeps ==
  ASSUME Keys!IInv, Keys!TypeOK', Keys!Copies', Grown, NEW o \in Operators, NEW x,
         s3' = [s3 EXCEPT ![o] = x],
         \A p \in Operators \ {o} : s4'[p] = s4[p],
         Keys!Begun(o)', Keys!ReadsStand(o)', Keys!PlanStands(o)'
  PROVE  Keys!IInv'
<1>1. ASSUME NEW p \in Operators
      PROVE  Keys!Begun(p)' /\ Keys!ReadsStand(p)' /\ Keys!PlanStands(p)'
  <2>1. CASE p # o
    <3>1. s3'[p] = s3[p] /\ s4'[p] = s4[p]
      BY <2>1 DEF Keys!IInv, Keys!TypeOK
    <3>2. Keys!TypeOK /\ Keys!Begun(p) /\ Keys!ReadsStand(p) /\ Keys!PlanStands(p)
      BY DEF Keys!IInv
    <3>3. Keys!Begun(p)'
      BY <3>1, <3>2 DEF Keys!Begun
    <3>4. Keys!ReadsStand(p)'
      <4>1. CASE s3[p].step \in {"ask", "read"}
        <5>1. \A r : Keys!HasRead(p, r)' => Keys!HasRead(p, r)
          BY <3>1 DEF Keys!HasRead
        <5>. QED
          BY <3>1, <3>2, <4>1, <5>1, CredentialReadsKeep
      <4>2. CASE s3[p].step \notin {"ask", "read"}
        BY <3>1, <4>2 DEF Keys!ReadsStand
      <4>. QED
        BY <4>1, <4>2
    <3>5. Keys!PlanStands(p)'
      <4>1. CASE s3[p].step \in {"check", "write"}
        BY <3>1, <3>2, <4>1, CredentialPlanKeeps
      <4>2. CASE s3[p].step \notin {"check", "write"}
        BY <3>1, <4>2 DEF Keys!PlanStands
      <4>. QED
        BY <4>1, <4>2
    <3>. QED
      BY <3>3, <3>4, <3>5
  <2>. QED
    BY <2>1
<1>. QED
  BY <1>1 DEF Keys!IInv

(* A step that writes nothing.                                               *)
LEMMA CredentialQuiet ==
  ASSUME Keys!IInv, NEW o \in Operators, NEW x \in Keys!Session, s3' = [s3 EXCEPT ![o] = x],
         UNCHANGED <<s1, s2>>, s4' \in [Operators -> 0..CredentialRuns],
         \A p \in Operators \ {o} : s4'[p] = s4[p],
         Keys!Begun(o)', Keys!ReadsStand(o)', Keys!PlanStands(o)'
  PROVE  Keys!IInv'
<1>1. Keys!TypeOK'
  BY DEF Keys!IInv, Keys!TypeOK
<1>2. Keys!Copies'
  BY DEF Keys!IInv, Keys!Copies
<1>3. Grown
  <2>1. \A r \in Keys!Records : s2[r] \in Nat
    BY DEF Keys!IInv, Keys!TypeOK
  <2>. QED
    BY <2>1 DEF Grown
<1>. QED
  BY <1>1, <1>2, <1>3, CredentialKeeps

(* A run has ended, or has made its writes.                                  *)
LEMMA CredentialOver ==
  ASSUME NEW o \in Operators, s3'[o].step \in {"idle", "verify"}
  PROVE  Keys!ReadsStand(o)' /\ Keys!PlanStands(o)'
BY DEF Keys!ReadsStand, Keys!PlanStands

(* While nothing is written, what is stored stands.                          *)
LEMMA CredentialStill ==
  ASSUME Keys!IInv, UNCHANGED <<s1, s2>>
  PROVE  Keys!KeysStandStep
BY DEF Keys!IInv, Keys!Copies, Keys!CopyOfMade, Keys!KeysStandStep, Keys!OfKind

(* An ended run is one of those there are.                                   *)
LEMMA CredentialIdle ==
  ASSUME NEW told \in Keys!Told
  PROVE  Keys!Idle(told) \in Keys!Session /\ Keys!Idle(told).step = "idle"
BY DEF Keys!Idle, Keys!Session, Keys!Steps, Keys!Unwritten, Keys!Nothing, Keys!Values

(* It ends without writing.                                                  *)
LEMMA CredentialEnd ==
  ASSUME Keys!IInv, NEW o \in Operators, NEW told \in Keys!Told, Keys!End(o, told),
         UNCHANGED <<s1, s2, s4>>
  PROVE  Keys!IInv'
<1>1. PICK x \in Keys!Session : x = Keys!Idle(told)
  BY CredentialIdle
<1>2. s3' = [s3 EXCEPT ![o] = x] /\ x.step = "idle"
  BY <1>1, CredentialIdle DEF Keys!End, Keys!Become
<1>3. s3'[o] = x
  BY <1>2 DEF Keys!IInv, Keys!TypeOK
<1>4. Keys!ReadsStand(o)' /\ Keys!PlanStands(o)'
  BY <1>2, <1>3, CredentialOver
<1>5. Keys!Begun(o)'
  BY <1>2, <1>3 DEF Keys!Begun
<1>6. s4' \in [Operators -> 0..CredentialRuns]
  BY DEF Keys!IInv, Keys!TypeOK
<1>. QED
  BY <1>2, <1>4, <1>5, <1>6, CredentialQuiet

(* A run begins: it has read nothing.                                        *)
LEMMA CredentialBegin == ASSUME Keys!IInv, NEW o \in Operators, Keys!Begin(o) PROVE Keys!IInv'
<1>1. PICK asks \in BOOLEAN :
        s3' = [s3 EXCEPT ![o] = [Keys!Idle("") EXCEPT !.step = "ask", !.asks = asks]]
  BY DEF Keys!Begin, Keys!Become
<1>2. PICK x : x = [Keys!Idle("") EXCEPT !.step = "ask", !.asks = asks]
  OBVIOUS
<1>3. x \in Keys!Session /\ x.step = "ask" /\ x.at = 1 /\ x.seen = Keys!Nothing
      /\ x.versions = Keys!Unwritten
  <2>1. Keys!Idle("") \in Keys!Session /\ "ask" \in Keys!Steps
    BY CredentialIdle DEF Keys!Told, Keys!Steps
  <2>2. x \in Keys!Session
    BY <1>2, <2>1 DEF Keys!Session
  <2>. QED
    BY <1>2, <2>2 DEF Keys!Idle
<1>4. s3'[o] = x
  BY <1>1, <1>2 DEF Keys!IInv, Keys!TypeOK
<1>5. Keys!ReadsStand(o)' /\ Keys!PlanStands(o)'
  <2>1. \A r : ~Keys!HasRead(o, r)'
    <3>1. \A i \in DOMAIN SelectedRecords : i \in Nat \ {0}
      BY CredentialAssumption DEF Keys!CredentialAssumption
    <3>. QED
      BY <1>3, <1>4, <3>1 DEF Keys!HasRead
  <2>2. \A r \in Keys!Records : x.versions[r] <= s2'[r]
    <3>1. \A r \in Keys!Records : s2'[r] \in Nat /\ s2'[r] = s2[r]
      BY DEF Keys!IInv, Keys!TypeOK, Keys!Begin
    <3>. QED
      BY <1>3, <3>1 DEF Keys!Unwritten
  <2>3. \A f \in Keys!Fields : x.seen[f] = None
    BY <1>3 DEF Keys!Nothing
  <2>. QED
    BY <1>3, <1>4, <2>1, <2>2, <2>3 DEF Keys!ReadsStand, Keys!PlanStands
<1>6. s4[o] \in Nat /\ s4[o] < CredentialRuns /\ CredentialRuns \in Nat
      /\ s4' = [s4 EXCEPT ![o] = @ + 1]
  BY CredentialAssumption DEF Keys!Begin, Keys!IInv, Keys!TypeOK, Keys!CredentialAssumption
<1>7. /\ s4' \in [Operators -> 0..CredentialRuns] /\ s4'[o] > 0
      /\ \A p \in Operators \ {o} : s4'[p] = s4[p]
  BY <1>6 DEF Keys!IInv, Keys!TypeOK
<1>8. UNCHANGED <<s1, s2>>
  BY DEF Keys!Begin
<1>9. Keys!Begun(o)'
  BY <1>7 DEF Keys!Begun
<1>. QED
  BY <1>1, <1>2, <1>3, <1>5, <1>7, <1>8, <1>9, CredentialQuiet

(* Nothing that a run has read changes when the operator types.              *)
LEMMA CredentialAsk == ASSUME Keys!IInv, NEW o \in Operators, Keys!Ask(o) PROVE Keys!IInv'
<1>1. s3[o] \in Keys!Session /\ s3 \in [Operators -> Keys!Session] /\ s3[o].step = "ask"
  BY DEF Keys!IInv, Keys!TypeOK, Keys!Ask
<1>2. PICK x : /\ x \in {[s3[o] EXCEPT !.step = "read", !.typed = v] : v \in TypedInputs}
                          \cup {[s3[o] EXCEPT !.step = "read", !.at = 1]}
               /\ s3' = [s3 EXCEPT ![o] = x]
  BY DEF Keys!Ask, Keys!Become, Keys!Goto
<1>3. /\ x \in Keys!Session /\ x.step = "read" /\ x.seen = s3[o].seen
      /\ x.versions = s3[o].versions
      /\ x.at \in {1, s3[o].at}
  <2>1. "read" \in Keys!Steps /\ 1 \in Nat \ {0}
    BY DEF Keys!Steps
  <2>2. CASE \E v \in TypedInputs : x = [s3[o] EXCEPT !.step = "read", !.typed = v]
    <3>1. PICK v \in TypedInputs : x = [s3[o] EXCEPT !.step = "read", !.typed = v]
      BY <2>2
    <3>2. x.typed \in TypedInputs \cup {None}
      BY ONLY <1>1, <3>1, v \in TypedInputs DEF Keys!Session
    <3> QED BY ONLY <1>1, <2>1, <3>1, v \in TypedInputs DEF Keys!Session
  <2>3. CASE x = [s3[o] EXCEPT !.step = "read", !.at = 1]
    BY <1>1, <2>1, <2>3 DEF Keys!Session
  <2>. QED
    BY <1>2, <2>2, <2>3
<1>4. s3'[o] = x
  BY <1>1, <1>2
<1>5. UNCHANGED <<s1, s2, s4>>
  BY DEF Keys!Ask
<1>6. \A r : Keys!HasRead(o, r)' => Keys!HasRead(o, r)
  <2>1. \A i \in DOMAIN SelectedRecords : i \in Nat \ {0}
    BY CredentialAssumption DEF Keys!CredentialAssumption
  <2>2. s3[o].at \in Nat
    BY <1>1 DEF Keys!Session
  <2>3. \A i \in DOMAIN SelectedRecords : i < x.at => i < s3[o].at
    BY <1>3, <2>1, <2>2
  <2>. QED
    BY <1>4, <2>3 DEF Keys!HasRead
<1>7. Keys!TypeOK /\ Keys!TypeOK'
  BY <1>2, <1>3, <1>5 DEF Keys!IInv, Keys!TypeOK
<1>8. Grown
  BY <1>5, <1>7 DEF Grown, Keys!TypeOK
<1>9. Keys!ReadsStand(o)'
  BY <1>1, <1>3, <1>4, <1>6, <1>7, <1>8, CredentialReadsKeep DEF Keys!IInv
<1>10. Keys!PlanStands(o)' /\ Keys!Begun(o)'
  BY <1>1, <1>3, <1>4, <1>5 DEF Keys!PlanStands, Keys!Begun, Keys!IInv
<1>11. s4' \in [Operators -> 0..CredentialRuns] /\ \A p \in Operators \ {o} : s4'[p] = s4[p]
  BY <1>5 DEF Keys!IInv, Keys!TypeOK
<1>. QED
  BY <1>2, <1>3, <1>5, <1>9, <1>10, <1>11, CredentialQuiet

(* One more record is read.                                                  *)
LEMMA CredentialRead == ASSUME Keys!IInv, NEW o \in Operators, Keys!Read(o) PROVE Keys!IInv'
<1>. DEFINE at == s3[o].at
            r0 == Keys!Reading(o)
            seen == s3[o].seen
            v == s3[o].versions
            x == [s3[o] EXCEPT !.at = at + 1,
                    !.seen = [f \in Keys!Fields |->
                      IF FieldRecords[f] = r0 THEN s1[f] ELSE seen[f]],
                    !.versions = [v EXCEPT ![r0] = s2[r0]]]
<1>1. /\ s3[o] \in Keys!Session /\ s3 \in [Operators -> Keys!Session] /\ s3[o].step = "read"
      /\ at <= Len(SelectedRecords) /\ UNCHANGED <<s1, s2, s4>>
  BY DEF Keys!IInv, Keys!TypeOK, Keys!Read
<1>2. at \in Nat \ {0} /\ seen \in [Keys!Fields -> Keys!Values \cup {None}]
      /\ v \in [Keys!Records -> Nat]
  BY <1>1 DEF Keys!Session
<1>3. r0 \in Keys!Records /\ at \in DOMAIN SelectedRecords /\ SelectedRecords[at] = r0
  BY <1>1, <1>2, CredentialAssumption DEF Keys!Reading, Keys!CredentialAssumption, Keys!Records
<1>4. s3' = [s3 EXCEPT ![o] = x]
  BY DEF Keys!Read, Keys!Become, Keys!Advance
<1>5. /\ s1 \in [Keys!Fields -> Keys!Values \cup {None}] /\ s2 \in [Keys!Records -> Nat]
      /\ FieldRecords \in [Keys!Fields -> Keys!Records]
  BY CredentialAssumption DEF Keys!IInv, Keys!TypeOK, Keys!CredentialAssumption
<1>6. /\ x.step = "read" /\ x.at = at + 1
      /\ \A f \in Keys!Fields : x.seen[f] = IF FieldRecords[f] = r0 THEN s1[f] ELSE seen[f]
      /\ \A r \in Keys!Records : x.versions[r] = IF r = r0 THEN s2[r0] ELSE v[r]
  BY <1>1, <1>2, <1>3 DEF Keys!Session
<1>7. x \in Keys!Session
  <2>1. [f \in Keys!Fields |-> IF FieldRecords[f] = r0 THEN s1[f] ELSE seen[f]]
          \in [Keys!Fields -> Keys!Values \cup {None}]
    BY <1>2, <1>5
  <2>2. [v EXCEPT ![r0] = s2[r0]] \in [Keys!Records -> Nat]
    BY <1>2, <1>3, <1>5
  <2>3. PICK S \in [Keys!Fields -> Keys!Values \cup {None}] :
          S = [f \in Keys!Fields |-> IF FieldRecords[f] = r0 THEN s1[f] ELSE seen[f]]
    BY <2>1
  <2>4. PICK V \in [Keys!Records -> Nat] : V = [v EXCEPT ![r0] = s2[r0]]
    BY <2>2
  <2>5. PICK n \in Nat \ {0} : n = at + 1
    BY <1>2
  <2>6. x = [s3[o] EXCEPT !.at = n, !.seen = S, !.versions = V]
    BY <2>3, <2>4, <2>5
  <2>. HIDE DEF x
  <2>. QED
    BY <1>1, <2>6 DEF Keys!Session
<1>. HIDE DEF x
<1>8. s3'[o] = x
  BY <1>1, <1>4
<1>9. Keys!ReadsStand(o) /\ Keys!Copies /\ Keys!Begun(o)
  BY DEF Keys!IInv
<1>10. \A r \in Keys!Records : x.versions[r] <= s2'[r]
  <2>1. \A r \in Keys!Records : v[r] <= s2[r] /\ s2[r] \in Nat /\ s2'[r] = s2[r]
    BY <1>1, <1>5, <1>9 DEF Keys!ReadsStand
  <2>2. \A n \in Nat : n <= n
    OBVIOUS
  <2>. QED
    BY <1>3, <1>6, <2>1, <2>2
<1>11. \A r \in Keys!Records \ {r0} : Keys!HasRead(o, r)' => Keys!HasRead(o, r)
  <2>1. \A i \in DOMAIN SelectedRecords : i \in Nat
    BY CredentialAssumption DEF Keys!CredentialAssumption
  <2>2. \A i \in DOMAIN SelectedRecords : i < at + 1 /\ SelectedRecords[i] # r0 => i < at
    BY <1>2, <1>3, <2>1
  <2>. QED
    BY <1>6, <1>8, <2>2 DEF Keys!HasRead
<1>12. ASSUME NEW f \in Keys!Fields
       PROVE  /\ Keys!Made(f) => x.seen[f] \in {None, s1'[f]}
              /\ Keys!CopyOfMade(f) => x.seen[f] \in {None, s1'[FieldSources[f]]}
              /\ Keys!Made(f) /\ Keys!HasRead(o, FieldRecords[f])'
                 /\ x.versions[FieldRecords[f]] = s2'[FieldRecords[f]]
                   => x.seen[f] = s1'[f]
  <2>1. CASE FieldRecords[f] = r0
    <3>1. x.seen[f] = s1[f]
      BY <1>6, <2>1
    <3>2. Keys!CopyOfMade(f) => s1[f] \in {None, s1[FieldSources[f]]}
      BY <1>9 DEF Keys!Copies
    <3>. QED
      BY <1>1, <3>1, <3>2
  <2>2. CASE FieldRecords[f] # r0
    <3>1. x.seen[f] = seen[f] /\ FieldRecords[f] \in Keys!Records \ {r0}
      BY <1>5, <1>6, <2>2
    <3>2. x.versions[FieldRecords[f]] = v[FieldRecords[f]]
      BY <1>6, <3>1
    <3>3. Keys!HasRead(o, FieldRecords[f])' => Keys!HasRead(o, FieldRecords[f])
      BY <1>11, <3>1
    <3>. QED
      BY <1>1, <1>9, <3>1, <3>2, <3>3 DEF Keys!ReadsStand
  <2>. QED
    BY <2>1, <2>2
<1>13. Keys!ReadsStand(o)'
  BY <1>8, <1>10, <1>12 DEF Keys!ReadsStand, Keys!HasRead
<1>14. Keys!PlanStands(o)' /\ Keys!Begun(o)'
  BY <1>1, <1>6, <1>8, <1>9 DEF Keys!PlanStands, Keys!Begun
<1>15. s4' \in [Operators -> 0..CredentialRuns] /\ \A p \in Operators \ {o} : s4'[p] = s4[p]
  BY <1>1 DEF Keys!IInv, Keys!TypeOK
<1>. QED
  BY <1>1, <1>4, <1>7, <1>13, <1>14, <1>15, CredentialQuiet

(* What a run knows when it has read everything and nothing conflicts.       *)
LEMMA CredentialKnown ==
  ASSUME Keys!IInv, NEW o \in Operators, s3[o].step = "read", s3[o].at > Len(SelectedRecords),
         ~Keys!Conflict(o),
         NEW f \in Keys!Fields
  PROVE  /\ Keys!Made(f) => /\ s3[o].seen[f] \in {None, Keys!Resolved(o)[f]} /\ Keys!Level[f] = 0
                            /\ s3[o].seen[f] \in {None, s1[f]}
                            /\ s3[o].versions[FieldRecords[f]] = s2[FieldRecords[f]]
                                 => s1[f] = s3[o].seen[f]
         /\ Keys!CopyOfMade(f) => /\ s3[o].seen[f] \in {None, Keys!Resolved(o)[f]}
                                  /\ Keys!Level[f] = 1
                                  /\ Keys!Resolved(o)[f] = Keys!Resolved(o)[FieldSources[f]]
                                  /\ s3[o].seen[f] \in {None, s1[FieldSources[f]]}
<1>1. Keys!TypeOK /\ s4[o] > 0 /\ Keys!ReadsStand(o)
  BY DEF Keys!IInv, Keys!Begun
<1>2. FieldRecords[f] \in Keys!Records
      /\ (FieldKinds[f] = "derived" => FieldSources[f] \in Keys!Fields)
  BY CredentialAssumption DEF Keys!CredentialAssumption, Keys!OfKind
<1>3. Keys!HasRead(o, FieldRecords[f])
  <2>1. SelectedRecords \in Seq(Keys!Records)
    BY CredentialAssumption DEF Keys!CredentialAssumption
  <2>2. PICK i \in DOMAIN SelectedRecords : SelectedRecords[i] = FieldRecords[f]
    BY <1>2 DEF Keys!Records
  <2>3. s3[o].at \in Nat
    BY <1>1 DEF Keys!TypeOK, Keys!Session
  <2>4. i < s3[o].at
    BY <2>1, <2>2, <2>3
  <2>. QED
    BY <2>2, <2>4 DEF Keys!HasRead
<1>4. /\ Keys!Level[f] = IF FieldKinds[f] = "derived" THEN 1 + Keys!Level[FieldSources[f]] ELSE 0
      /\ FieldKinds[f] = "derived" =>
           Keys!Level[FieldSources[f]] =
             IF FieldKinds[FieldSources[f]] = "derived"
             THEN 1 + Keys!Level[FieldSources[FieldSources[f]]] ELSE 0
  BY <1>2, CredentialLevel
<1>5. Keys!Resolved(o)[f] =
        IF FieldKinds[f] = "derived" THEN Keys!Resolved(o)[FieldSources[f]] ELSE Keys!Own(o, f)
  BY <1>1, CredentialResolved
<1>6. CASE Keys!Made(f)
  <2>1. s3[o].seen[f] \in {None, Keys!Resolved(o)[f]}
    BY <1>5, <1>6 DEF Keys!Made, Keys!Own
  <2>2. Keys!Level[f] = 0
    BY <1>4, <1>6 DEF Keys!Made
  <2>3. ~Keys!CopyOfMade(f)
    BY <1>6 DEF Keys!Made, Keys!CopyOfMade
  <2>. QED
    BY <1>1, <1>3, <1>6, <2>1, <2>2, <2>3 DEF Keys!ReadsStand
<1>7. CASE Keys!CopyOfMade(f)
  <2>1. FieldKinds[f] = "derived" /\ FieldKinds[FieldSources[f]] = "made"
    BY <1>7 DEF Keys!CopyOfMade, Keys!Made
  <2>2. s3[o].seen[f] \in {None, Keys!Resolved(o)[f]}
    BY <2>1 DEF Keys!Conflict, Keys!OfKind
  <2>3. Keys!Level[f] = 1
    BY <1>4, <2>1
  <2>. QED
    BY <1>1, <1>5, <1>7, <2>1, <2>2, <2>3 DEF Keys!ReadsStand, Keys!Made
<1>. QED
  BY <1>6, <1>7

(* The levels at which a record changes are finitely many.                   *)
LEMMA CredentialChanged ==
  ASSUME NEW o, NEW r
  PROVE  IsFiniteSet(Keys!Changed(o, r)) /\ Keys!Changed(o, r) \in SUBSET Nat
<1>. DEFINE F == {f \in Keys!Fields : FieldRecords[f] = r /\ s3[o].seen[f] # Keys!Resolved(o)[f]}
            h == [f \in F |-> Keys!Level[f]]
<1>1. IsFiniteSet(F)
  BY CredentialAssumption, CredentialSizes, FS_Subset DEF Keys!CredentialAssumption
<1>2. Keys!Changed(o, r) = {Keys!Level[f] : f \in F}
  BY DEF Keys!Changed
<1>3. h \in Surjection(F, Keys!Changed(o, r))
  BY <1>2 DEF Surjection
<1>4. IsFiniteSet(Keys!Changed(o, r))
  BY <1>1, <1>3, FS_Surjection
<1>5. Keys!Changed(o, r) \in SUBSET Nat
  BY <1>2, CredentialLevel
<1>. QED
  BY <1>4, <1>5

(* A write of the plan, at one level of one record.                          *)
Planning(o, r, l) ==
  [level |-> l, record |-> r, values |-> Keys!Whole(o, r, l), cas |-> Keys!Base(o, r, l)]

(* The plan has one write of each record at each level at which it changes.  *)
LEMMA CredentialPlanning ==
  ASSUME NEW o, NEW w
  PROVE  w \in Keys!Writes(o) <=> \E r \in Keys!Records : \E l \in Keys!Changed(o, r) :
           w = Planning(o, r, l)
BY DEF Keys!Writes, Planning

(* The writes of a record before one are as many as the levels below it.     *)
LevelsBelow(o, r, l) == {k \in Keys!Changed(o, r) : k < l}
WritesBelow(o, r, l) == {v \in Keys!Writes(o) : v.record = r /\ v.level < l}

LEMMA CredentialBelow ==
  ASSUME NEW o, NEW r \in Keys!Records, NEW l \in Keys!Changed(o, r)
  PROVE  /\ IsFiniteSet(WritesBelow(o, r, l))
         /\ Cardinality(WritesBelow(o, r, l)) = Cardinality(LevelsBelow(o, r, l))
<1>. DEFINE K == {k \in Keys!Changed(o, r) : k < l}
            B == {v \in Keys!Writes(o) : v.record = r /\ v.level < l}
            h == [k \in K |-> Planning(o, r, k)]
<1>1. IsFiniteSet(K)
  BY CredentialChanged, FS_Subset
<1>2. \A k \in K : /\ Planning(o, r, k) \in B
                   /\ Planning(o, r, k).level = k
  <2>1. ASSUME NEW k \in K
        PROVE  Planning(o, r, k) \in B /\ Planning(o, r, k).level = k
    <3>1. Planning(o, r, k).level = k /\ Planning(o, r, k).record = r
      BY DEF Planning
    <3>2. Planning(o, r, k) \in Keys!Writes(o)
      BY CredentialPlanning
    <3>. QED
      BY <3>1, <3>2
  <2>. QED
    BY <2>1
<1>3. \A b \in B : \E k \in K : b = Planning(o, r, k)
  <2>1. ASSUME NEW b \in B
        PROVE  \E k \in K : b = Planning(o, r, k)
    <3>0. PICK q \in Keys!Records : \E k \in Keys!Changed(o, q) : b = Planning(o, q, k)
      BY CredentialPlanning
    <3>1. PICK k \in Keys!Changed(o, q) : b = Planning(o, q, k)
      BY <3>0
    <3>2. b.record = q /\ b.level = k
      BY <3>1 DEF Planning
    <3>. QED
      BY <3>1, <3>2
  <2>. QED
    BY <2>1
<1>4. h \in [K -> B] /\ \A k \in K : h[k].level = k
  BY <1>2
<1>5. h \in Injection(K, B)
  BY <1>4 DEF Injection, IsInjective
<1>6. h \in Surjection(K, B)
  BY <1>3, <1>4 DEF Surjection
<1>7. ExistsBijection(K, B)
  BY <1>5, <1>6 DEF ExistsBijection, Bijection
<1>8. IsFiniteSet(B) /\ Cardinality(B) = Cardinality(K)
  BY <1>1, <1>7, FS_Bijection
<1>. QED
  BY <1>8 DEF LevelsBelow, WritesBelow

(* The plan stands when it is made.                                          *)
LEMMA CredentialPlanned ==
  ASSUME Keys!IInv, NEW o \in Operators, s3[o].step = "read", s3[o].at > Len(SelectedRecords),
         ~Keys!Conflict(o),
         UNCHANGED <<s1, s2, s4>>, s3'[o].writes = Keys!Writes(o),
         s3'[o].versions = s3[o].versions
  PROVE  Keys!Writes(o) \in SUBSET Keys!Planned /\ Keys!PlanStands(o)'
<1>. DEFINE v == s3[o].versions
            seen == s3[o].seen
            R == Keys!Resolved(o)
            W == Keys!Writes(o)
<1>1. Keys!TypeOK /\ s4[o] > 0 /\ Keys!ReadsStand(o)
  BY DEF Keys!IInv, Keys!Begun
<1>2. /\ v \in [Keys!Records -> Nat] /\ seen \in [Keys!Fields -> Keys!Values \cup {None}]
      /\ R \in [Keys!Fields -> Keys!Values \cup {None}]
      /\ FieldRecords \in [Keys!Fields -> Keys!Records]
      /\ Keys!Level \in [Keys!Fields -> Nat]
  BY <1>1, CredentialResolved, CredentialLevel, CredentialAssumption
    DEF Keys!TypeOK, Keys!Session, Keys!CredentialAssumption
<1>3. ASSUME NEW r \in Keys!Records, NEW l \in Keys!Changed(o, r)
      PROVE  /\ l \in Nat /\ Keys!Base(o, r, l) \in Nat
             /\ Keys!Base(o, r, l) = v[r] + Cardinality({k \in Keys!Changed(o, r) : k < l})
  <2>1. Cardinality({k \in Keys!Changed(o, r) : k < l}) \in Nat
    BY CredentialChanged, FS_Subset, FS_CardinalityType
  <2>2. l \in Nat
    BY CredentialChanged
  <2>. QED
    BY <1>2, <2>1, <2>2, CredentialSizes DEF Keys!Base
<1>4. ASSUME NEW w \in W
      PROVE  \E r \in Keys!Records : \E l \in Keys!Changed(o, r) :
               /\ w = Planning(o, r, l) /\ w.record = r /\ w.level = l
               /\ w.values = Keys!Whole(o, r, l) /\ w.cas = Keys!Base(o, r, l)
  <2>0. PICK r \in Keys!Records : \E l \in Keys!Changed(o, r) : w = Planning(o, r, l)
    BY CredentialPlanning
  <2>1. PICK l \in Keys!Changed(o, r) : w = Planning(o, r, l)
    BY <2>0
  <2>. QED
    BY <2>1 DEF Planning
<1>5. \A r, l : \A f \in Keys!Fields :
        Keys!Whole(o, r, l)[f]
          = IF FieldRecords[f] # r THEN None ELSE IF Keys!Level[f] <= l THEN R[f] ELSE seen[f]
  BY DEF Keys!Whole
<1>6. W \in SUBSET Keys!Planned
  <2>1. ASSUME NEW w \in W
        PROVE  w \in Keys!Planned
    <3>0. PICK r \in Keys!Records : \E l \in Keys!Changed(o, r) : w = Planning(o, r, l)
      BY <1>4
    <3>1. PICK l \in Keys!Changed(o, r) : w = Planning(o, r, l)
      BY <3>0
    <3>2. l \in Nat /\ Keys!Base(o, r, l) \in Nat
      BY <1>3
    <3>3. Keys!Whole(o, r, l) \in [Keys!Fields -> Keys!Values \cup {None}]
      BY <1>2 DEF Keys!Whole
    <3>. QED
      BY <3>1, <3>2, <3>3 DEF Keys!Planned, Planning
  <2>. QED
    BY <2>1
<1>7. Keys!Chained(o)'
  <2>1. ASSUME NEW w \in W
        PROVE  /\ IsFiniteSet(Keys!Before(o, w)')
               /\ w.cas = v[w.record] + Cardinality(Keys!Before(o, w)')
               /\ \A u \in W : u.record = w.record /\ u.level = w.level => u = w
    <3>0. PICK r \in Keys!Records : \E l \in Keys!Changed(o, r) : w = Planning(o, r, l)
            /\ w.record = r /\ w.level = l /\ w.cas = Keys!Base(o, r, l)
      BY <1>4
    <3>1. PICK l \in Keys!Changed(o, r) : w = Planning(o, r, l) /\ w.record = r
          /\ w.level = l /\ w.cas = Keys!Base(o, r, l)
      BY <3>0
    <3>2. Keys!Before(o, w)' = {u \in Keys!Writes(o) : u.record = r /\ u.level < l}
      BY <3>1 DEF Keys!Before
    <3>3. /\ IsFiniteSet(Keys!Before(o, w)')
          /\ Cardinality(Keys!Before(o, w)') = Cardinality({k \in Keys!Changed(o, r) : k < l})
      <4>1. /\ IsFiniteSet(WritesBelow(o, r, l))
            /\ Cardinality(WritesBelow(o, r, l)) = Cardinality(LevelsBelow(o, r, l))
        BY CredentialBelow
      <4>2. WritesBelow(o, r, l) = Keys!Before(o, w)'
        BY <3>2 DEF WritesBelow
      <4>. QED
        BY <4>1, <4>2 DEF LevelsBelow
    <3>4. \A u \in W : u.record = w.record /\ u.level = w.level => u = w
      BY <1>4, <3>1
    <3>. QED
      BY <1>3, <3>1, <3>3, <3>4
  <2>2. \A r \in Keys!Records : v[r] <= s2'[r]
    BY <1>1 DEF Keys!ReadsStand
  <2>. QED
    BY <2>1, <2>2, CredentialSizes DEF Keys!Chained
<1>8. ASSUME NEW f \in Keys!Fields, Keys!Made(f)
      PROVE  /\ Keys!Level[f] = 0
             /\ v[FieldRecords[f]] = s2[FieldRecords[f]] => s1[f] \in {None, R[f]}
             /\ \A w \in W : w.record = FieldRecords[f] => w.values[f] = R[f]
  <2>1. /\ Keys!Level[f] = 0 /\ seen[f] \in {None, R[f]}
        /\ v[FieldRecords[f]] = s2[FieldRecords[f]] => s1[f] = seen[f]
    BY <1>8, CredentialKnown
  <2>2. ASSUME NEW w \in W, w.record = FieldRecords[f]
        PROVE  w.values[f] = R[f]
    <3>0. PICK r \in Keys!Records : \E l \in Keys!Changed(o, r) : w.record = r
            /\ w.values = Keys!Whole(o, r, l)
      BY <1>4
    <3>1. PICK l \in Keys!Changed(o, r) : w.record = r /\ w.values = Keys!Whole(o, r, l)
      BY <3>0
    <3>2. l \in Nat
      BY <1>3
    <3>3. Keys!Whole(o, r, l)[f]
            = IF FieldRecords[f] # r THEN None ELSE IF Keys!Level[f] <= l THEN R[f] ELSE seen[f]
      BY <1>5
    <3>4. Keys!Level[f] <= l
      BY <2>1, <3>2
    <3>. QED
      BY <2>2, <3>1, <3>3, <3>4
  <2>. QED
    BY <2>1, <2>2
<1>9. Keys!KeysAgree(o)'
  BY <1>8 DEF Keys!KeysAgree
<1>10. ASSUME NEW w \in W, NEW f \in Keys!Fields, Keys!CopyOfMade(f),
              FieldRecords[f] = w.record, w.values[f] # None
       PROVE  \/ FieldRecords[FieldSources[f]] = w.record
                 /\ w.values[FieldSources[f]] = w.values[f]
              \/ FieldRecords[FieldSources[f]] # w.record /\ s1[FieldSources[f]] = w.values[f]
              \/ /\ FieldRecords[FieldSources[f]] # w.record
                 /\ \E u \in W : /\ u.record = FieldRecords[FieldSources[f]] /\ u.level < w.level
                                 /\ u.values[FieldSources[f]] = w.values[f]
  <2>0. PICK r \in Keys!Records : \E l \in Keys!Changed(o, r) : w.record = r /\ w.level = l
          /\ w.values = Keys!Whole(o, r, l)
    BY <1>4
  <2>1. PICK l \in Keys!Changed(o, r) : w.record = r /\ w.level = l
        /\ w.values = Keys!Whole(o, r, l)
    BY <2>0
  <2>2. PICK s : s = FieldSources[f]
    OBVIOUS
  <2>3. s \in Keys!Fields /\ Keys!Made(s)
    BY <1>10, <2>2, CredentialAssumption
      DEF Keys!CopyOfMade, Keys!CredentialAssumption, Keys!OfKind
  <2>4. seen[f] \in {None, R[f]} /\ R[f] = R[s] /\ Keys!Level[f] = 1 /\ seen[f] \in {None, s1[s]}
    BY <1>10, <2>2, CredentialKnown
  <2>5. Keys!Level[s] = 0 /\ seen[s] \in {None, s1[s]}
    BY <2>3, CredentialKnown
  <2>6. w.values[f] = IF 1 <= l THEN R[f] ELSE seen[f]
    BY <1>5, <1>10, <2>1, <2>4
  <2>7. w.values[f] = R[s]
    BY <1>10, <2>4, <2>6
  <2>8. CASE FieldRecords[s] = r
    BY <1>8, <2>1, <2>2, <2>3, <2>7, <2>8
  <2>9. CASE FieldRecords[s] # r /\ ~(1 <= l)
    BY <1>10, <2>1, <2>2, <2>4, <2>6, <2>9
  <2>10. CASE FieldRecords[s] # r /\ 1 <= l /\ seen[s] = R[s]
    BY <1>10, <2>1, <2>2, <2>5, <2>7, <2>10
  <2>11. CASE FieldRecords[s] # r /\ 1 <= l /\ seen[s] # R[s]
    <3>1. FieldRecords[s] \in Keys!Records /\ 0 \in Keys!Changed(o, FieldRecords[s])
      BY <1>2, <2>3, <2>5, <2>11 DEF Keys!Changed
    <3>2. PICK u : u = Planning(o, FieldRecords[s], 0)
      OBVIOUS
    <3>3. u \in W /\ u.record = FieldRecords[s] /\ u.level = 0
      BY <3>1, <3>2, CredentialPlanning DEF Planning
    <3>4. u.values[s] = R[s]
      BY <1>8, <2>3, <3>3
    <3>5. u.level < w.level
      <4>1. l \in Nat
        BY <1>3
      <4>. QED
        BY <2>1, <2>11, <3>3, <4>1
    <3>. QED
      BY <2>1, <2>2, <2>7, <2>11, <3>3, <3>4, <3>5
  <2>. QED
    BY <2>8, <2>9, <2>10, <2>11
<1>11. Keys!CopiesFollow(o)'
  BY <1>10 DEF Keys!CopiesFollow
<1>. QED
  BY <1>6, <1>7, <1>9, <1>11 DEF Keys!PlanStands

(* A plan is made of what was read, or refused.                              *)
LEMMA CredentialPlan == ASSUME Keys!IInv, NEW o \in Operators, Keys!Plan(o) PROVE Keys!IInv'
<1>1. UNCHANGED <<s1, s2, s4>> /\ s3[o].step = "read" /\ s3[o].at > Len(SelectedRecords)
  BY DEF Keys!Plan
<1>2. CASE Keys!Conflict(o)
  <2>1. Keys!End(o, "conflict") /\ "conflict" \in Keys!Told
    BY <1>2 DEF Keys!Plan, Keys!Told
  <2>. QED
    BY <1>1, <2>1, CredentialEnd
<1>3. CASE ~Keys!Conflict(o)
  <2>. DEFINE x == [Keys!Idle("") EXCEPT !.step = "check", !.versions = s3[o].versions,
       !.writes = Keys!Writes(o)]
  <2>1. s3' = [s3 EXCEPT ![o] = x]
    BY <1>3 DEF Keys!Plan, Keys!Become
  <2>2. x.step = "check" /\ x.writes = Keys!Writes(o) /\ x.versions = s3[o].versions
    BY DEF Keys!Idle
  <2>3. x = [Keys!Idle("") EXCEPT !.step = "check", !.versions = s3[o].versions,
        !.writes = Keys!Writes(o)]
    OBVIOUS
  <2>. HIDE DEF x
  <2>4. s3'[o] = x
    BY <2>1 DEF Keys!IInv, Keys!TypeOK
  <2>5. Keys!Writes(o) \in SUBSET Keys!Planned /\ Keys!PlanStands(o)'
    BY <1>1, <1>3, <2>2, <2>4, CredentialPlanned
  <2>6. x \in Keys!Session
    <3>1. s3[o].versions \in [Keys!Records -> Nat]
      BY DEF Keys!IInv, Keys!TypeOK, Keys!Session
    <3>2. Keys!Idle("") \in Keys!Session
      BY CredentialIdle DEF Keys!Told
    <3>. QED
      BY <2>3, <2>5, <3>1, <3>2 DEF Keys!Session, Keys!Steps
  <2>7. Keys!ReadsStand(o)' /\ Keys!Begun(o)'
    BY <1>1, <2>2, <2>4 DEF Keys!ReadsStand, Keys!Begun, Keys!IInv
  <2>8. s4' \in [Operators -> 0..CredentialRuns] /\ \A p \in Operators \ {o} : s4'[p] = s4[p]
    BY <1>1 DEF Keys!IInv, Keys!TypeOK
  <2>. QED
    BY <1>1, <2>1, <2>5, <2>6, <2>7, <2>8, CredentialQuiet
<1>. QED
  BY <1>2, <1>3

(* A version is compared: nothing is written.                                *)
LEMMA CredentialCheck == ASSUME Keys!IInv, NEW o \in Operators, Keys!Check(o) PROVE Keys!IInv'
<1>1. UNCHANGED <<s1, s2, s4>> /\ s3[o].step \in {"check", "verify"}
  BY DEF Keys!Check
<1>2. CASE Keys!End(o, "snapshot changed")
  BY <1>1, <1>2, CredentialEnd DEF Keys!Told
<1>3. CASE Keys!Become(o, Keys!Advance(o))
  <2>1. s3[o] \in Keys!Session /\ s3[o].at \in Nat \ {0} /\ s3 \in [Operators -> Keys!Session]
    BY DEF Keys!IInv, Keys!TypeOK, Keys!Session
  <2>2. PICK x : x = [s3[o] EXCEPT !.at = s3[o].at + 1]
    OBVIOUS
  <2>3. x \in Keys!Session
    BY <2>1, <2>2 DEF Keys!Session
  <2>4. x.step = s3[o].step /\ x.writes = s3[o].writes /\ x.versions = s3[o].versions
    BY <2>1, <2>2 DEF Keys!Session
  <2>5. s3' = [s3 EXCEPT ![o] = x]
    BY <1>3, <2>2 DEF Keys!Become, Keys!Advance
  <2>6. s3'[o] = x
    BY <2>1, <2>5
  <2>7. Keys!TypeOK /\ Keys!TypeOK'
    BY <1>1, <2>1, <2>3, <2>5 DEF Keys!IInv, Keys!TypeOK
  <2>8. Grown
    BY <1>1, <2>7 DEF Grown, Keys!TypeOK
  <2>9. Keys!PlanStands(o)'
    <3>1. CASE s3[o].step = "check"
      BY <2>4, <2>6, <2>7, <2>8, <3>1, CredentialPlanKeeps DEF Keys!IInv
    <3>2. CASE s3[o].step = "verify"
      BY <2>4, <2>6, <3>2 DEF Keys!PlanStands
    <3>. QED
      BY <1>1, <3>1, <3>2
  <2>10. Keys!ReadsStand(o)'
    BY <1>1, <2>4, <2>6 DEF Keys!ReadsStand
  <2>11. Keys!Begun(o)'
    BY <1>1, <2>4, <2>6 DEF Keys!Begun, Keys!IInv
  <2>12. s4' \in [Operators -> 0..CredentialRuns] /\ \A p \in Operators \ {o} : s4'[p] = s4[p]
    BY <1>1 DEF Keys!IInv, Keys!TypeOK
  <2>. QED
    BY <1>1, <2>3, <2>5, <2>9, <2>10, <2>11, <2>12, CredentialQuiet
<1>. QED
  BY <1>2, <1>3 DEF Keys!Check

(* A run that goes on, with what it has planned or with nothing left of it.  *)
LEMMA CredentialGoto ==
  ASSUME Keys!IInv, NEW o \in Operators, NEW from \in Keys!Steps, NEW to \in Keys!Steps,
         s3[o].step = from,
         UNCHANGED <<s1, s2, s4>>, Keys!Goto(o, to),
         \/ from = "check" /\ to = "write"
         \/ from = "write" /\ to = "verify"
  PROVE  Keys!IInv'
<1>1. s3[o] \in Keys!Session /\ s3 \in [Operators -> Keys!Session] /\ Keys!TypeOK
  BY DEF Keys!IInv, Keys!TypeOK
<1>2. PICK x : x = [s3[o] EXCEPT !.step = to, !.at = 1]
  OBVIOUS
<1>3. x \in Keys!Session /\ x.step = to /\ x.writes = s3[o].writes /\ x.versions = s3[o].versions
  <2>1. 1 \in Nat \ {0}
    OBVIOUS
  <2>. QED
    BY <1>1, <1>2, <2>1 DEF Keys!Session
<1>4. s3' = [s3 EXCEPT ![o] = x]
  BY <1>2 DEF Keys!Goto, Keys!Become
<1>5. s3'[o] = x
  BY <1>1, <1>4
<1>6. Keys!TypeOK'
  BY <1>1, <1>3, <1>4 DEF Keys!TypeOK
<1>7. Grown
  BY <1>1 DEF Grown, Keys!TypeOK
<1>8. Keys!ReadsStand(o)' /\ Keys!PlanStands(o)'
  <2>1. CASE from = "check"
    <3>1. Keys!PlanStands(o)'
      BY <1>1, <1>3, <1>5, <1>6, <1>7, <2>1, CredentialPlanKeeps DEF Keys!IInv
    <3>2. Keys!ReadsStand(o)'
      BY <1>3, <1>5, <2>1 DEF Keys!ReadsStand
    <3>. QED
      BY <3>1, <3>2
  <2>2. CASE from = "write"
    BY <1>3, <1>5, <2>2, CredentialOver
  <2>. QED
    BY <2>1, <2>2
<1>9. Keys!Begun(o)'
  BY <1>3, <1>5 DEF Keys!Begun, Keys!IInv
<1>10. s4' \in [Operators -> 0..CredentialRuns] /\ \A p \in Operators \ {o} : s4'[p] = s4[p]
  BY <1>1 DEF Keys!TypeOK
<1>. QED
  BY <1>3, <1>4, <1>8, <1>9, <1>10, CredentialQuiet

(* A check has come to its end: the writes begin, or the run is over.        *)
LEMMA CredentialChecked == ASSUME Keys!IInv, NEW o \in Operators, Keys!Checked(o) PROVE Keys!IInv'
<1>1. UNCHANGED <<s1, s2, s4>>
  BY DEF Keys!Checked
<1>2. CASE s3[o].step = "check" /\ Keys!Goto(o, "write")
  BY <1>1, <1>2, CredentialGoto DEF Keys!Steps
<1>3. CASE s3[o].step = "verify" /\ Keys!End(o, "applied")
  BY <1>1, <1>3, CredentialEnd DEF Keys!Told
<1>. QED
  BY <1>2, <1>3 DEF Keys!Checked

(* Every write is made.                                                      *)
LEMMA CredentialWritten == ASSUME Keys!IInv, NEW o \in Operators, Keys!Written(o) PROVE Keys!IInv'
BY CredentialGoto DEF Keys!Written, Keys!Steps

(* A run that fails leaves what it has written.                              *)
LEMMA CredentialFail == ASSUME Keys!IInv, NEW o \in Operators, Keys!Fail(o) PROVE Keys!IInv'
BY CredentialEnd DEF Keys!Fail, Keys!Told

(* A write that is accepted: it is the first that is left of its record, so  *)
(* the version is the one the run expects, and the keys are the stored ones. *)
LEMMA CredentialAccepted ==
  ASSUME Keys!IInv, NEW o \in Operators, s3[o].step = "write", NEW w \in s3[o].writes,
         \A v \in s3[o].writes \ {w} : Keys!Earlier(w, v), Keys!Accepted(w),
         s1' = [f \in Keys!Fields |-> IF FieldRecords[f] = w.record THEN w.values[f] ELSE s1[f]],
         s2' = [s2 EXCEPT ![w.record] = @ + 1]
  PROVE  /\ w \in Keys!Planned
         /\ \A v \in s3[o].writes : v.record = w.record /\ v # w => v.level > w.level
         /\ s3[o].versions[w.record] = s2[w.record] /\ w.cas = s2[w.record]
         /\ s1' \in [Keys!Fields -> Keys!Values \cup {None}] /\ s2' \in [Keys!Records -> Nat]
         /\ Grown /\ Keys!Copies'
         /\ \A f \in Keys!Fields : Keys!CopyOfMade(f) /\ FieldRecords[f] = w.record
            /\ w.values[f] # None =>
              \/ FieldRecords[FieldSources[f]] = w.record
                 /\ w.values[FieldSources[f]] = w.values[f]
              \/ FieldRecords[FieldSources[f]] # w.record /\ s1[FieldSources[f]] = w.values[f]
<1>. DEFINE v == s3[o].versions
            W == s3[o].writes
            r == w.record
<1>1. /\ Keys!TypeOK /\ Keys!Copies /\ Keys!Chained(o) /\ Keys!KeysAgree(o)
      /\ Keys!CopiesFollow(o)
  BY DEF Keys!IInv, Keys!PlanStands
<1>2. /\ v \in [Keys!Records -> Nat] /\ W \in SUBSET Keys!Planned
      /\ s1 \in [Keys!Fields -> Keys!Values \cup {None}] /\ s2 \in [Keys!Records -> Nat]
      /\ FieldRecords \in [Keys!Fields -> Keys!Records]
  BY <1>1, CredentialAssumption DEF Keys!TypeOK, Keys!Session, Keys!CredentialAssumption
<1>3. w \in Keys!Planned /\ r \in Keys!Records /\ w.level \in Nat /\ w.cas \in Nat
      /\ w.values \in [Keys!Fields -> Keys!Values \cup {None}]
  BY <1>2 DEF Keys!Planned
<1>4. ASSUME NEW u \in W, u # w
      PROVE  w.level <= u.level /\ (u.record = r => u.level > w.level)
  <2>1. u.level \in Nat /\ Keys!Earlier(w, u)
    BY <1>2, <1>4 DEF Keys!Planned
  <2>2. w.level <= u.level
    BY <1>3, <2>1 DEF Keys!Earlier
  <2>3. u.record = r => u.level # w.level
    BY <1>1, <1>4 DEF Keys!Chained
  <2>. QED
    BY <1>3, <2>1, <2>2, <2>3
<1>5. Keys!Before(o, w) = {}
  <2>1. ASSUME NEW u \in W, u.record = r, u.level < w.level
        PROVE  FALSE
    <3>1. u # w /\ u.level \in Nat
      BY <1>2, <1>3, <2>1 DEF Keys!Planned
    <3>. QED
      BY <1>3, <1>4, <2>1, <3>1
  <2>. QED
    BY <2>1 DEF Keys!Before
<1>6. v[r] = s2[r] /\ w.cas = s2[r]
  <2>1. Cardinality(Keys!Before(o, w)) = 0
    BY <1>5, FS_EmptySet
  <2>2. w.cas = v[r] + Cardinality(Keys!Before(o, w))
    BY <1>1, CredentialSizes DEF Keys!Chained
  <2>3. v[r] \in Nat
    BY <1>2, <1>3
  <2>. QED
    BY <2>1, <2>2, <2>3 DEF Keys!Accepted
<1>7. \A f \in Keys!Fields : s1'[f] = IF FieldRecords[f] = r THEN w.values[f] ELSE s1[f]
  OBVIOUS
<1>8. \A q \in Keys!Records : s2'[q] = IF q = r THEN s2[q] + 1 ELSE s2[q]
  BY <1>2
<1>9. ASSUME NEW f \in Keys!Fields, Keys!Made(f), s1[f] # None
      PROVE  s1'[f] = s1[f]
  <2>1. FieldRecords[f] = r => s1[f] \in {None, w.values[f]}
    BY <1>1, <1>6, <1>9 DEF Keys!KeysAgree
  <2>. QED
    BY <1>7, <1>9, <2>1
<1>10. Grown
  <2>1. \A q \in Keys!Records : s2[q] \in Nat
    BY <1>2
  <2>2. \A q \in Keys!Records : s2[q] <= s2'[q]
    BY <1>8, <2>1
  <2>3. ASSUME NEW f \in Keys!Fields, s2'[FieldRecords[f]] = s2[FieldRecords[f]]
        PROVE  s1'[f] = s1[f]
    <3>1. FieldRecords[f] \in Keys!Records
      BY <1>2
    <3>2. FieldRecords[f] # r
      BY <1>8, <2>1, <2>3, <3>1
    <3>. QED
      BY <1>7, <3>2
  <2>. QED
    BY <1>9, <2>2, <2>3 DEF Grown
<1>11. ASSUME NEW f \in Keys!Fields, Keys!CopyOfMade(f), FieldRecords[f] = r, w.values[f] # None
       PROVE  \/ FieldRecords[FieldSources[f]] = r /\ w.values[FieldSources[f]] = w.values[f]
              \/ FieldRecords[FieldSources[f]] # r /\ s1[FieldSources[f]] = w.values[f]
  <2>1. ~\E u \in W : u.level < w.level
    <3>1. ASSUME NEW u \in W, u.level < w.level
          PROVE  FALSE
      <4>1. u # w /\ u.level \in Nat
        BY <1>2, <1>3, <3>1 DEF Keys!Planned
      <4>. QED
        BY <1>3, <1>4, <3>1, <4>1
    <3>. QED
      BY <3>1
  <2>. QED
    BY <1>1, <1>11, <2>1 DEF Keys!CopiesFollow
<1>12. Keys!Copies'
  <2>1. ASSUME NEW f \in Keys!Fields, Keys!CopyOfMade(f), s1'[f] # None
        PROVE  s1'[f] = s1'[FieldSources[f]]
    <3>1. PICK s : s = FieldSources[f]
      OBVIOUS
    <3>2. s \in Keys!Fields /\ Keys!Made(s)
      BY <2>1, <3>1, CredentialAssumption
        DEF Keys!CopyOfMade, Keys!CredentialAssumption, Keys!OfKind
    <3>3. CASE FieldRecords[f] = r
      <4>1. s1'[f] = w.values[f]
        BY <1>7, <3>3
      <4>2. CASE FieldRecords[s] = r
        BY <1>7, <1>11, <2>1, <3>1, <3>2, <3>3, <4>1, <4>2
      <4>3. CASE FieldRecords[s] # r
        BY <1>7, <1>11, <2>1, <3>1, <3>2, <3>3, <4>1, <4>3
      <4>. QED
        BY <4>2, <4>3
    <3>4. CASE FieldRecords[f] # r
      <4>1. s1'[f] = s1[f]
        BY <1>7, <3>4
      <4>2. s1[f] = s1[s]
        BY <1>1, <2>1, <3>1, <4>1 DEF Keys!Copies
      <4>3. s1'[s] = s1[s]
        BY <1>9, <2>1, <3>2, <4>1, <4>2
      <4>. QED
        BY <3>1, <4>1, <4>2, <4>3
    <3>. QED
      BY <3>3, <3>4
  <2>. QED
    BY <2>1 DEF Keys!Copies
<1>13. s1' \in [Keys!Fields -> Keys!Values \cup {None}] /\ s2' \in [Keys!Records -> Nat]
  BY <1>2, <1>3
<1>. QED
  BY <1>3, <1>4, <1>6, <1>10, <1>11, <1>12, <1>13

(* What is left of the plan stands when its first write is made.             *)
LEMMA CredentialLeft ==
  ASSUME Keys!IInv, NEW o \in Operators, s3[o].step = "write", NEW w \in s3[o].writes,
         \A v \in s3[o].writes \ {w} : Keys!Earlier(w, v), Keys!Accepted(w),
         s1' = [f \in Keys!Fields |-> IF FieldRecords[f] = w.record THEN w.values[f] ELSE s1[f]],
         s2' = [s2 EXCEPT ![w.record] = @ + 1],
         s3'[o].step = "write", s3'[o].writes = s3[o].writes \ {w},
         s3'[o].versions = [s3[o].versions EXCEPT ![w.record] = w.cas + 1]
  PROVE  Keys!PlanStands(o)'
<1>. DEFINE v == s3[o].versions
            v1 == s3'[o].versions
            W == s3[o].writes
            r == w.record
<1>1. /\ Keys!TypeOK /\ Keys!Chained(o) /\ Keys!KeysAgree(o) /\ Keys!CopiesFollow(o)
  BY DEF Keys!IInv, Keys!PlanStands
<1>2. /\ v \in [Keys!Records -> Nat] /\ W \in SUBSET Keys!Planned /\ s2 \in [Keys!Records -> Nat]
      /\ FieldRecords \in [Keys!Fields -> Keys!Records]
  BY <1>1, CredentialAssumption DEF Keys!TypeOK, Keys!Session, Keys!CredentialAssumption
<1>3. /\ w \in Keys!Planned
      /\ \A u \in W : u.record = r /\ u # w => u.level > w.level
      /\ v[r] = s2[r] /\ w.cas = s2[r] /\ Grown
      /\ \A f \in Keys!Fields : Keys!CopyOfMade(f) /\ FieldRecords[f] = r /\ w.values[f] # None =>
           \/ FieldRecords[FieldSources[f]] = r /\ w.values[FieldSources[f]] = w.values[f]
           \/ FieldRecords[FieldSources[f]] # r /\ s1[FieldSources[f]] = w.values[f]
  BY CredentialAccepted
<1>4. r \in Keys!Records /\ w.level \in Nat
  BY <1>3 DEF Keys!Planned
<1>5. \A q \in Keys!Records : v1[q] = IF q = r THEN s2[r] + 1 ELSE v[q]
  BY <1>2, <1>3, <1>4
<1>6. \A q \in Keys!Records : s2'[q] = IF q = r THEN s2[r] + 1 ELSE s2[q]
  BY <1>2, <1>4
<1>7. \A f \in Keys!Fields : s1'[f] = IF FieldRecords[f] = r THEN w.values[f] ELSE s1[f]
  OBVIOUS
<1>8. ASSUME NEW u \in W \ {w}
      PROVE  /\ IsFiniteSet(Keys!Before(o, u)')
             /\ u.cas = v1[u.record] + Cardinality(Keys!Before(o, u)')
             /\ \A x \in W \ {w} : x.record = u.record /\ x.level = u.level => x = u
  <2>1. u.record \in Keys!Records /\ u.level \in Nat
    BY <1>2 DEF Keys!Planned
  <2>2. IsFiniteSet(Keys!Before(o, u)) /\ u.cas = v[u.record] + Cardinality(Keys!Before(o, u))
    BY <1>1, CredentialSizes DEF Keys!Chained
  <2>3. Keys!Before(o, u)' = Keys!Before(o, u) \ {w}
    BY DEF Keys!Before
  <2>4. Cardinality(Keys!Before(o, u)) \in Nat
    BY <2>2, FS_CardinalityType
  <2>5. CASE u.record = r
    <3>1. w \in Keys!Before(o, u)
      BY <1>3, <2>5 DEF Keys!Before
    <3>2. IsFiniteSet(Keys!Before(o, u)')
          /\ Cardinality(Keys!Before(o, u)') = Cardinality(Keys!Before(o, u)) - 1
      BY <2>2, <2>3, <3>1, FS_RemoveElement
    <3>3. v1[u.record] = v[u.record] + 1 /\ v[u.record] \in Nat
      BY <1>2, <1>3, <1>5, <2>1, <2>5
    <3>4. u.cas = v1[u.record] + Cardinality(Keys!Before(o, u)')
      BY <2>2, <2>4, <3>2, <3>3
    <3>. QED
      BY <1>1, <3>2, <3>4 DEF Keys!Chained
  <2>6. CASE u.record # r
    <3>1. Keys!Before(o, u)' = Keys!Before(o, u)
      BY <2>3, <2>6 DEF Keys!Before
    <3>2. v1[u.record] = v[u.record]
      BY <1>5, <2>1, <2>6
    <3>. QED
      BY <1>1, <2>2, <3>1, <3>2 DEF Keys!Chained
  <2>. QED
    BY <2>5, <2>6
<1>9. \A q \in Keys!Records : v1[q] <= s2'[q]
  <2>1. \A q \in Keys!Records : s2[q] \in Nat /\ v[q] <= s2[q]
    BY <1>1, <1>2 DEF Keys!Chained
  <2>. QED
    BY <1>4, <1>5, <1>6, <2>1
<1>10. Keys!Chained(o)'
  BY <1>8, <1>9, CredentialSizes DEF Keys!Chained
<1>11. Keys!KeysAgree(o)'
  <2>1. ASSUME NEW u \in W \ {w}, NEW f \in Keys!Fields, Keys!Made(f), FieldRecords[f] = u.record
        PROVE  /\ v1[u.record] = s2'[u.record] => s1'[f] \in {None, u.values[f]}
               /\ \A x \in W \ {w} : x.record = u.record => x.values[f] = u.values[f]
    <3>1. u.record \in Keys!Records
      BY <1>2 DEF Keys!Planned
    <3>2. \A x \in W : x.record = u.record => x.values[f] = u.values[f]
      BY <1>1, <2>1 DEF Keys!KeysAgree
    <3>3. CASE u.record = r
      BY <1>7, <2>1, <3>2, <3>3
    <3>4. CASE u.record # r
      <4>1. v1[u.record] = v[u.record] /\ s2'[u.record] = s2[u.record]
        BY <1>5, <1>6, <3>1, <3>4
      <4>2. s1'[f] = s1[f]
        BY <1>7, <2>1, <3>4
      <4>3. v[u.record] = s2[u.record] => s1[f] \in {None, u.values[f]}
        BY <1>1, <2>1 DEF Keys!KeysAgree
      <4>. QED
        BY <3>2, <4>1, <4>2, <4>3
    <3>. QED
      BY <3>3, <3>4
  <2>. QED
    BY <2>1 DEF Keys!KeysAgree
<1>12. Keys!CopiesFollow(o)'
  <2>1. ASSUME NEW u \in W \ {w}, NEW f \in Keys!Fields, Keys!CopyOfMade(f),
               FieldRecords[f] = u.record,
               u.values[f] # None
        PROVE  \/ FieldRecords[FieldSources[f]] = u.record
                  /\ u.values[FieldSources[f]] = u.values[f]
               \/ FieldRecords[FieldSources[f]] # u.record /\ s1'[FieldSources[f]] = u.values[f]
               \/ /\ FieldRecords[FieldSources[f]] # u.record
                  /\ \E x \in W \ {w} : /\ x.record = FieldRecords[FieldSources[f]]
                                        /\ x.level < u.level
                                        /\ x.values[FieldSources[f]] = u.values[f]
    <3>1. PICK s : s = FieldSources[f]
      OBVIOUS
    <3>2. s \in Keys!Fields /\ Keys!Made(s)
      BY <2>1, <3>1, CredentialAssumption
        DEF Keys!CopyOfMade, Keys!CredentialAssumption, Keys!OfKind
    <3>3. \/ FieldRecords[s] = u.record /\ u.values[s] = u.values[f]
          \/ FieldRecords[s] # u.record /\ s1[s] = u.values[f]
          \/ /\ FieldRecords[s] # u.record
             /\ \E x \in W : /\ x.record = FieldRecords[s] /\ x.level < u.level
                             /\ x.values[s] = u.values[f]
      BY <1>1, <2>1, <3>1 DEF Keys!CopiesFollow
    <3>4. s1[s] = u.values[f] => s1'[s] = u.values[f]
      BY <1>3, <2>1, <3>2 DEF Grown
    <3>5. ASSUME NEW x \in W, x.record = FieldRecords[s], x.level < u.level,
                 x.values[s] = u.values[f]
          PROVE  \/ s1'[s] = u.values[f]
                 \/ \E y \in W \ {w} : y.record = FieldRecords[s] /\ y.level < u.level
                    /\ y.values[s] = u.values[f]
      <4>1. CASE x = w
        BY <1>7, <3>2, <3>5, <4>1
      <4>2. CASE x # w
        BY <3>5, <4>2
      <4>. QED
        BY <4>1, <4>2
    <3>. QED
      BY <3>1, <3>3, <3>4, <3>5
  <2>. QED
    BY <2>1 DEF Keys!CopiesFollow
<1>. QED
  BY <1>10, <1>11, <1>12 DEF Keys!PlanStands

(* The next write of a plan, made or refused.                                *)
LEMMA CredentialWrite ==
  ASSUME Keys!IInv, NEW o \in Operators, Keys!Write(o)
  PROVE  Keys!IInv' /\ Keys!KeysStandStep
<1>1. PICK w \in s3[o].writes :
        /\ \A v \in s3[o].writes \ {w} : Keys!Earlier(w, v)
        /\ \/ /\ Keys!Accepted(w)
              /\ s1' = [f \in Keys!Fields |->
                   IF FieldRecords[f] = w.record THEN w.values[f] ELSE s1[f]]
              /\ s2' = [s2 EXCEPT ![w.record] = @ + 1]
              /\ \/ Keys!Become(o, [s3[o] EXCEPT !.writes = @ \ {w},
                                                 !.versions[w.record] = w.cas + 1])
                 \/ Keys!End(o, "failed")
           \/ ~Keys!Accepted(w) /\ Keys!End(o, "failed") /\ UNCHANGED <<s1, s2>>
  BY DEF Keys!Write
<1>2. UNCHANGED s4 /\ s3[o].step = "write"
  BY DEF Keys!Write
<1>3. CASE ~Keys!Accepted(w) /\ Keys!End(o, "failed") /\ UNCHANGED <<s1, s2>>
  <2>1. Keys!IInv'
    BY <1>2, <1>3, CredentialEnd DEF Keys!Told
  <2>. QED
    BY <1>3, <2>1, CredentialStill
<1>4. CASE /\ Keys!Accepted(w)
           /\ s1' = [f \in Keys!Fields |->
                IF FieldRecords[f] = w.record THEN w.values[f] ELSE s1[f]]
           /\ s2' = [s2 EXCEPT ![w.record] = @ + 1]
           /\ \/ Keys!Become(o, [s3[o] EXCEPT !.writes = @ \ {w},
                                              !.versions[w.record] = w.cas + 1])
              \/ Keys!End(o, "failed")
  <2>1. /\ w \in Keys!Planned /\ w.cas = s2[w.record]
        /\ s1' \in [Keys!Fields -> Keys!Values \cup {None}] /\ s2' \in [Keys!Records -> Nat]
        /\ Grown /\ Keys!Copies'
    BY <1>1, <1>2, <1>4, CredentialAccepted
  <2>2. s3[o] \in Keys!Session /\ s3 \in [Operators -> Keys!Session]
        /\ s4 \in [Operators -> 0..CredentialRuns]
    BY DEF Keys!IInv, Keys!TypeOK
  <2>3. Keys!KeysStandStep
    BY <2>1 DEF Keys!KeysStandStep, Grown, Keys!Copies, Keys!CopyOfMade, Keys!OfKind, Keys!Made
  <2>4. \A p \in Operators \ {o} : s4'[p] = s4[p]
    BY <1>2
  <2>5. CASE Keys!End(o, "failed")
    <3>1. PICK x \in Keys!Session : x = Keys!Idle("failed") /\ x.step = "idle"
      BY CredentialIdle DEF Keys!Told
    <3>2. s3' = [s3 EXCEPT ![o] = x]
      BY <2>5, <3>1 DEF Keys!End, Keys!Become
    <3>3. s3'[o] = x
      BY <2>2, <3>2
    <3>4. Keys!TypeOK'
      BY <1>2, <2>1, <2>2, <3>2 DEF Keys!TypeOK
    <3>5. Keys!ReadsStand(o)' /\ Keys!PlanStands(o)' /\ Keys!Begun(o)'
      BY <3>1, <3>3, CredentialOver DEF Keys!Begun
    <3>. QED
      BY <2>1, <2>3, <2>4, <3>2, <3>4, <3>5, CredentialKeeps
  <2>6. CASE Keys!Become(o, [s3[o] EXCEPT !.writes = @ \ {w}, !.versions[w.record] = w.cas + 1])
    <3>1. /\ s3[o].writes \in SUBSET Keys!Planned /\ s3[o].versions \in [Keys!Records -> Nat]
          /\ w.record \in Keys!Records /\ w.cas \in Nat
      BY <2>1, <2>2 DEF Keys!Session, Keys!Planned
    <3>2. PICK V \in [Keys!Records -> Nat] : V = [s3[o].versions EXCEPT ![w.record] = w.cas + 1]
      <4>1. w.cas + 1 \in Nat
        BY <3>1
      <4>2. [s3[o].versions EXCEPT ![w.record] = w.cas + 1] \in [Keys!Records -> Nat]
        BY <3>1, <4>1
      <4>. QED
        BY <4>2
    <3>3. PICK x : x = [s3[o] EXCEPT !.writes = s3[o].writes \ {w}, !.versions = V]
      OBVIOUS
    <3>4. x \in Keys!Session /\ x.step = "write" /\ x.writes = s3[o].writes \ {w}
          /\ x.versions = V
      BY <1>2, <2>2, <3>1, <3>3 DEF Keys!Session
    <3>5. s3' = [s3 EXCEPT ![o] = x]
      BY <2>6, <3>2, <3>3 DEF Keys!Become
    <3>6. s3'[o] = x
      BY <2>2, <3>5
    <3>7. Keys!TypeOK'
      BY <1>2, <2>1, <2>2, <3>4, <3>5 DEF Keys!TypeOK
    <3>8. Keys!PlanStands(o)'
      BY <1>1, <1>2, <1>4, <3>2, <3>4, <3>6, CredentialLeft
    <3>9. Keys!ReadsStand(o)'
      BY <3>4, <3>6 DEF Keys!ReadsStand
    <3>10. Keys!Begun(o)'
      BY <1>2, <3>4, <3>6 DEF Keys!Begun, Keys!IInv
    <3>. QED
      BY <2>1, <2>3, <2>4, <3>5, <3>7, <3>8, <3>9, <3>10, CredentialKeeps
  <2>. QED
    BY <1>4, <2>5, <2>6
<1>. QED
  BY <1>1, <1>3, <1>4

(* The invariant holds before anybody runs the setup.                        *)
LEMMA CredentialInit == ASSUME Keys!Init PROVE Keys!IInv
<1>1. CredentialRuns \in Nat
  BY CredentialAssumption DEF Keys!CredentialAssumption
<1>2. \A o \in Operators : s3[o].step = "idle"
  BY CredentialIdle DEF Keys!Init, Keys!Told
<1>3. Keys!TypeOK
  <2>1. s3 \in [Operators -> Keys!Session]
    BY CredentialIdle DEF Keys!Init, Keys!Told
  <2>2. s4 \in [Operators -> 0..CredentialRuns]
    <3>1. 0 \in 0..CredentialRuns
      BY <1>1
    <3>. QED
      BY <3>1 DEF Keys!Init
  <2>. QED
    BY <2>1, <2>2 DEF Keys!Init, Keys!TypeOK, Keys!Nothing, Keys!Unwritten
<1>4. Keys!Copies
  BY DEF Keys!Init, Keys!Copies, Keys!Nothing
<1>5. \A o \in Operators : Keys!Begun(o) /\ Keys!ReadsStand(o) /\ Keys!PlanStands(o)
  BY <1>2 DEF Keys!Begun, Keys!ReadsStand, Keys!PlanStands
<1>. QED
  BY <1>3, <1>4, <1>5 DEF Keys!IInv

(* It is kept by every step, and so are the keys.                            *)
LEMMA CredentialNext == ASSUME Keys!IInv, Keys!Next PROVE Keys!IInv' /\ Keys!KeysStandStep
<1>1. PICK o \in Operators : Keys!Act(o)
  BY DEF Keys!Next
<1>2. CASE Keys!Begin(o)
  BY <1>2, CredentialBegin, CredentialStill DEF Keys!Begin
<1>3. CASE Keys!Ask(o)
  BY <1>3, CredentialAsk, CredentialStill DEF Keys!Ask
<1>4. CASE Keys!Read(o)
  BY <1>4, CredentialRead, CredentialStill DEF Keys!Read
<1>5. CASE Keys!Plan(o)
  BY <1>5, CredentialPlan, CredentialStill DEF Keys!Plan
<1>6. CASE Keys!Check(o)
  BY <1>6, CredentialCheck, CredentialStill DEF Keys!Check
<1>7. CASE Keys!Checked(o)
  BY <1>7, CredentialChecked, CredentialStill DEF Keys!Checked
<1>8. CASE Keys!Write(o)
  BY <1>8, CredentialWrite
<1>9. CASE Keys!Written(o)
  BY <1>9, CredentialWritten, CredentialStill DEF Keys!Written
<1>10. CASE Keys!Fail(o)
  BY <1>10, CredentialFail, CredentialStill DEF Keys!Fail
<1>. QED
  BY <1>1, <1>2, <1>3, <1>4, <1>5, <1>6, <1>7, <1>8, <1>9, <1>10 DEF Keys!Act

(* So they are when nothing happens.                                         *)
LEMMA CredentialStays ==
  ASSUME Keys!IInv, UNCHANGED vars PROVE Keys!IInv' /\ Keys!KeysStandStep
<1>1. UNCHANGED <<s1, s2, s3, s4>>
  BY DEF vars
<1>2. Keys!IInv'
  <2>1. Keys!TypeOK' /\ Keys!Copies'
    BY <1>1 DEF Keys!IInv, Keys!TypeOK, Keys!Copies
  <2>2. ASSUME NEW o \in Operators
        PROVE  Keys!Begun(o)' /\ Keys!ReadsStand(o)' /\ Keys!PlanStands(o)'
    <3>1. Keys!Begun(o) /\ Keys!ReadsStand(o) /\ Keys!PlanStands(o)
      BY DEF Keys!IInv
    <3>2. Keys!Begun(o)'
      BY <1>1, <3>1 DEF Keys!Begun
    <3>3. Keys!ReadsStand(o)'
      BY <1>1, <3>1 DEF Keys!ReadsStand, Keys!HasRead
    <3>4. /\ Keys!Chained(o)' <=> Keys!Chained(o)
          /\ Keys!KeysAgree(o)' <=> Keys!KeysAgree(o)
          /\ Keys!CopiesFollow(o)' <=> Keys!CopiesFollow(o)
      <4>1. \A w : Keys!Before(o, w)' = Keys!Before(o, w)
        BY <1>1 DEF Keys!Before
      <4>2. Keys!Chained(o)' <=> Keys!Chained(o)
        BY <1>1, <4>1 DEF Keys!Chained
      <4>3. Keys!KeysAgree(o)' <=> Keys!KeysAgree(o)
        BY <1>1 DEF Keys!KeysAgree
      <4>4. Keys!CopiesFollow(o)' <=> Keys!CopiesFollow(o)
        BY <1>1 DEF Keys!CopiesFollow
      <4>. QED
        BY <4>2, <4>3, <4>4
    <3>5. Keys!PlanStands(o)'
      BY <1>1, <3>1, <3>4 DEF Keys!PlanStands
    <3>. QED
      BY <3>2, <3>3, <3>5
  <2>. QED
    BY <2>1, <2>2 DEF Keys!IInv
<1>. QED
  BY <1>1, <1>2, CredentialStill

-----------------------------------------------------------------------------
(* The five components side by side.                                        *)
IdentityIInv ==
  /\ part = "directory" => Directory!IInv
  /\ part = "onboarding" => Onboarding!IInv
  /\ part = "realm" => Realm!IInv
  /\ part = "scoped" => Scoped!IInv
  /\ part = "credentials" => Keys!IInv

(* Each component's invariant is about its own state: where that stays, so   *)
(* does what is said of it.                                                  *)
LEMMA DirectoryStays ==
  ASSUME Directory!IInv, UNCHANGED vars
  PROVE  Directory!IInv'
  BY DEF vars, Directory!IInv, Directory!TypeOK, Directory!AsRead, Directory!Gated,
     Directory!Caught, Directory!OnlyLegacy, Directory!Declared, Directory!At

(* The people's.                                                             *)
LEMMA OnboardingStays ==
  ASSUME Onboarding!IInv, UNCHANGED vars
  PROVE  Onboarding!IInv'
<1>1. UNCHANGED <<s1, s2, s3, s4, s5, s6, s7, s8, s9, s10, s11>>
  BY DEF vars
<1>2. /\ Onboarding!Made' = Onboarding!Made /\ Onboarding!Known' = Onboarding!Known
      /\ Onboarding!Doubtful' = Onboarding!Doubtful
  BY <1>1 DEF Onboarding!Made, Onboarding!Pending, Onboarding!Known, Onboarding!Doubtful
<1>3. Onboarding!TypeOK' /\ Onboarding!NoneAhead'
  BY <1>1 DEF Onboarding!IInv, Onboarding!TypeOK, Onboarding!NoneAhead
<1>4. Onboarding!NothingYet' /\ Onboarding!Underway' /\ Onboarding!Answered'
  BY <1>1, <1>2
     DEF Onboarding!IInv, Onboarding!NothingYet, Onboarding!Underway, Onboarding!Answered,
         Onboarding!At
<1>5. Onboarding!ReportIsTrue'
  BY <1>1, <1>2 DEF Onboarding!IInv, Onboarding!ReportIsTrue, Onboarding!At
<1> QED BY <1>3, <1>4, <1>5 DEF Onboarding!IInv

(* The realm's.                                                              *)
LEMMA RealmStays ==
  ASSUME Realm!IInv, UNCHANGED vars
  PROVE  Realm!IInv'
  BY DEF vars, Realm!IInv, Realm!TypeOK, Realm!WantsOwn, Realm!HoldersDone,
     Realm!HolderUnderway, Realm!AtHolder, Realm!OwnedStand, Realm!Untouched,
     Realm!Settled, Realm!Mine, Realm!At

(* The client's.                                                             *)
LEMMA ScopedStays ==
  ASSUME Scoped!IInv, UNCHANGED vars
  PROVE  Scoped!IInv'
<1>1. UNCHANGED <<s1, s2, s3, s4, s5, s6, s7, s8>>
  BY DEF vars
<1>2. Scoped!TypeOK'
  <2>1. Scoped!Runs' = Scoped!Runs /\ Scoped!Parts(s1)' = Scoped!Parts(s1)
    BY <1>1 DEF Scoped!Runs
  <2> QED BY <1>1, <2>1 DEF Scoped!IInv, Scoped!TypeOK
<1>3. Scoped!ReadsTell'
  BY <1>1
     DEF Scoped!IInv, Scoped!ReadsTell, Scoped!AllButListed, Scoped!AsApproved, Scoped!Opened,
         Scoped!Shut, Scoped!At
<1> QED BY <1>1, <1>2, <1>3
        DEF Scoped!IInv, Scoped!Continues, Scoped!ClientStands, Scoped!Stands, Scoped!At

(* Whichever component is at work begins with its invariant.                 *)
LEMMA IdentityInit == Init => IdentityIInv
  BY DirectoryInit, OnboardingInit, RealmInit, ScopedInit, CredentialInit DEF Init, IdentityIInv

(* A step is one of the component at work, which keeps its invariant.        *)
LEMMA IdentityNext == ASSUME IdentityIInv, Next PROVE IdentityIInv'
<1>1. part' = part
  BY DEF Next
<1>2. part = "directory" => Directory!Next
  BY DEF Next
<1>3. part = "onboarding" => Onboarding!Next
  BY DEF Next
<1>4. part = "realm" => Realm!Next
  BY DEF Next
<1>5. part = "scoped" => Scoped!Next
  BY DEF Next
<1>6. part = "credentials" => Keys!Next
  BY DEF Next
<1> QED BY <1>1, <1>2, <1>3, <1>4, <1>5, <1>6, DirectoryNext, OnboardingNext, RealmNext,
           ScopedNext, CredentialNext
        DEF IdentityIInv

(* No step at all keeps it, too.                                             *)
LEMMA IdentityStays == ASSUME IdentityIInv, UNCHANGED vars PROVE IdentityIInv'
<1>1. part' = part
  BY DEF vars
<1> QED BY <1>1, DirectoryStays, OnboardingStays, RealmStays, ScopedStays, CredentialStays
        DEF IdentityIInv

-----------------------------------------------------------------------------
(* The invariants of the five components hold of every behaviour.           *)
THEOREM IdentityInvariant == Spec => []IdentityIInv
<1>1. IdentityIInv /\ [Next]_vars => IdentityIInv'
  BY IdentityNext, IdentityStays
<1> QED BY IdentityInit, <1>1, PTL DEF Spec

(* An enabled provider has the mappers of one configuration or none, and     *)
(* those of the run that reported success, whatever runs failed or were      *)
(* killed, and at whatever step, unless administrators changed the mappers.  *)
THEOREM DirectoryGrants == Spec => []GrantsAreWhole
<1>1. IdentityIInv => GrantsAreWhole
  BY DirectoryHolds DEF IdentityIInv, GrantsAreWhole
<1> QED BY IdentityInvariant, <1>1, PTL

(* When a session has ended, its report bounds what it did in Keycloak: a    *)
(* write said to be accepted was made, one said to be not attempted, not     *)
(* submitted or rejected never will be, and the rest was not; only the write *)
(* it stopped at may be said to be unknown.                                  *)
THEOREM OnboardingReports == Spec => []ReportIsTrue
<1>1. IdentityIInv => ReportIsTrue
  BY DEF IdentityIInv, Onboarding!IInv, ReportIsTrue
<1> QED BY IdentityInvariant, <1>1, PTL

(* The links that a Job reported done stand as it wants them, whichever other *)
(* Jobs work on the same holders, fail half way or are still running, until  *)
(* an administrator changes them.                                            *)
THEOREM RealmLinks == Spec => []OwnedStand
<1>1. IdentityIInv => OwnedStand
  BY DEF IdentityIInv, Realm!IInv, OwnedStand
<1> QED BY IdentityInvariant, <1>1, PTL

(* A client is opened only with every part of its grant as approved, changed *)
(* only while it is disabled, left disabled by a run that ends on drift that *)
(* it carries, and said to be verified only when it is, but for what         *)
(* administrators have changed since the run began; and a machine identity   *)
(* of another owner is never written.                                        *)
THEOREM ClientFailsClosed == Spec => FailsClosed
<1>1. ASSUME IdentityIInv, Next PROVE part = "scoped" => Scoped!FailsClosedStep
  <2>1. part = "scoped" => Scoped!Next
    BY <1>1 DEF Next
  <2> QED BY <1>1, <2>1, ScopedIsClosed DEF IdentityIInv
<1>2. IdentityIInv /\ [Next]_vars => [part = "scoped" => Scoped!FailsClosedStep]_vars
  BY <1>1
<1> QED BY IdentityInvariant, <1>2, PTL DEF Spec, FailsClosed

(* A key that was once stored stands, and what is stored of it elsewhere is   *)
(* always that of the stored key: whatever operators plan at the same time,   *)
(* and wherever in its writes a run dies, for any catalog whose references    *)
(* are not cyclic.                                                            *)
THEOREM StoredKeysStand == Spec => KeysStand
<1>1. ASSUME IdentityIInv, Next PROVE part = "credentials" => Keys!KeysStandStep
  <2>1. part = "credentials" => Keys!Next
    BY <1>1 DEF Next
  <2> QED BY <1>1, <2>1, CredentialNext DEF IdentityIInv
<1>2. IdentityIInv /\ [Next]_vars => [part = "credentials" => Keys!KeysStandStep]_vars
  BY <1>1
<1> QED BY IdentityInvariant, <1>2, PTL DEF Spec, KeysStand

-----------------------------------------------------------------------------
(* The variables of every component keep their types.                         *)
THEOREM ClusterTypes == Spec => []TypeOK
<1>1. IInv /\ IdentityIInv => TypeOK
  BY DEF TypeOK, IInv, IdentityIInv, Job!IInv, Maintenance!IInv, Database!IInv, Native!IInv,
     Inspection!IInv, Rollout!IInv, Observe!IInv, Directory!IInv, Onboarding!IInv, Realm!IInv,
     Scoped!IInv, Keys!IInv
<1> QED BY ClusterInvariant, IdentityInvariant, <1>1, PTL
=============================================================================
