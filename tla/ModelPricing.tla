----------------------------- MODULE ModelPricing ------------------------------
(***************************************************************************)
(* What a model costs (cli_tools/openrouter_catalog_sync: _pricing,        *)
(* _rates and _pricing_schedule in sync.py).                               *)
(*                                                                         *)
(* The vendor lists a base price per kind of token and a sequence of       *)
(* overrides, each from some prompt size on; the gateway wants a complete  *)
(* set of rates for every size at which something changes.  The loops over *)
(* the overrides and over the thresholds are one step a round.  A schedule *)
(* the operator negotiated replaces the vendor's.  A price is counted in   *)
(* tenths of the last digit a rate keeps.                                  *)
(*                                                                         *)
(* Two things are not settled by the repository.  Whether a size that is   *)
(* itself a threshold belongs to its tier is the gateway's, and its        *)
(* "contextOver" is all that is known of it: such sizes are not billed     *)
(* here.  And where a lower threshold is listed after a higher one, the    *)
(* tests have the overrides applied in the order of the list (test_sync.py *)
(* 567-583), the README by their thresholds (README.md:129-131): the code  *)
(* does the former, and the latter too wherever the thresholds do not      *)
(* decrease.                                                               *)
(***************************************************************************)
EXTENDS Integers, SequencesExt

CONSTANTS
  Rates,        (* the gateway's rates                                      *)
  Sources,      (* TOKEN_FIELDS: the vendor's fields behind each rate       *)
  Prices,       (* prices that are listed                                   *)
  Thresholds,   (* prompt sizes from which overrides apply                  *)
  Sizes,        (* prompt sizes that are billed, none of them a threshold   *)
  MaxOverrides, (* bound: overrides listed                                  *)
  None

Fields == UNION {Sources[r] : r \in Rates}
PricingAssumption ==
  /\ Sources \in [Rates -> SUBSET Fields] /\ Prices \subseteq Int
  /\ Thresholds \subseteq Nat /\ Sizes \subseteq Nat \ Thresholds /\ MaxOverrides \in Nat
  /\ None \notin Prices /\ None \notin Seq(Thresholds)

VARIABLES
  base,       (* the vendor's price of each field                           *)
  request,    (* whether it asks a price for each request besides           *)
  overrides,  (* and its overrides, in the order listed                     *)
  schedule,   (* a negotiated schedule: its tiers, or None                  *)
  taken,      (* threshold_overrides                                        *)
  tiers,      (* the result so far: its base rates are the tier at 0        *)
  step, at

vars == <<base, request, overrides, schedule, taken, tiers, step, at>>

Listed == [Fields -> Prices \cup {None}]
(* plain: no condition other than the prompt size, and no price a request.  *)
Override == [from : Thresholds, set : Listed, plain : BOOLEAN]

TypeOK ==
  /\ base \in Listed /\ request \in BOOLEAN /\ {overrides, taken} \subseteq Seq(Override)
  /\ schedule = None \/ schedule \in Seq(Thresholds)
  /\ \A k \in DOMAIN tiers : tiers[k].over \in Thresholds \cup {0} /\ DOMAIN tiers[k].rates = Rates
  /\ step \in {"base", "override", "negotiated", "done", "refused"} /\ at \in 1..(MaxOverrides + 1)

-----------------------------------------------------------------------------
(* _rates: the highest of the fields behind a rate, rounded half up to the  *)
(* digits that are kept; no negative price, and at least one rate.           *)
Rounded(price) == (price + 5) \div 10
Candidates(listed, rate) == {listed[f] : f \in Sources[rate]} \ {None}
Priced(listed, rate) ==
  IF Candidates(listed, rate) = {} THEN None ELSE Rounded(Max(Candidates(listed, rate)))
RatesOf(listed) == [r \in Rates |-> Priced(listed, r)]
Refuses(listed) ==
  LET all == UNION {Candidates(listed, r) : r \in Rates}
  IN all = {} \/ \E p \in all : p < 0

Refuse == step' = "refused" /\ UNCHANGED <<taken, tiers, at>>
Listing == UNCHANGED <<base, request, overrides, schedule>>

(* The rates without an override; a price for each request has no place in  *)
(* the gateway's schedule and refuses the model.                             *)
Base ==
  /\ step = "base" /\ Listing
  /\ IF request \/ Refuses(base) THEN Refuse
     ELSE /\ tiers' = <<[over |-> 0, rates |-> RatesOf(base)]>> /\ step' = "override"
          /\ UNCHANGED <<taken, at>>

(* The loop over the overrides: one that cannot be represented refuses the  *)
(* model, one without a token price is passed over.                          *)
ReadOverride ==
  LET o == overrides[at]
  IN /\ step = "override" /\ at <= Len(overrides) /\ Listing
     /\ IF ~o.plain THEN Refuse
        ELSE /\ taken' = IF \A f \in Fields : o.set[f] = None THEN taken ELSE Append(taken, o)
             /\ at' = at + 1 /\ UNCHANGED <<tiers, step>>

Gathered == step = "override" /\ at = Len(overrides) + 1

(* The override's fields over what was in effect.                            *)
Updated(listed, o) == [f \in Fields |-> IF o.set[f] = None THEN listed[f] ELSE o.set[f]]

(* Only the overrides of this very size.                                     *)
EffectiveAlone(threshold) ==
  FoldLeft(LAMBDA listed, o : IF o.from = threshold THEN Updated(listed, o) ELSE listed,
           base, taken)

(* Every override from "threshold" or below, in the order of the listing.    *)
Effective(threshold) ==
  FoldLeft(LAMBDA listed, o : IF o.from <= threshold THEN Updated(listed, o) ELSE listed,
           base, taken)

(* The loop over the thresholds, in increasing order.                        *)
Left == {taken[k].from : k \in DOMAIN taken} \ {tiers[k].over : k \in 2..Len(tiers)}
BuildTier ==
  /\ Gathered /\ Left # {} /\ Listing
  /\ LET threshold == Min(Left)
     IN IF Refuses(Effective(threshold)) THEN Refuse
        ELSE /\ tiers' = Append(tiers, [over |-> threshold, rates |-> RatesOf(Effective(threshold))])
             /\ UNCHANGED <<taken, step, at>>

(* A negotiated schedule is taken as it is, if its thresholds increase.      *)
ReadTier ==
  /\ step = "negotiated" /\ at <= Len(schedule) /\ Listing
  /\ IF at > 1 /\ schedule[at] <= schedule[at - 1] THEN Refuse
     ELSE /\ tiers' = Append(tiers, [over |-> schedule[at], rates |-> RatesOf(base)])
          /\ at' = at + 1 /\ UNCHANGED <<taken, step>>

Finish ==
  /\ \/ Gathered /\ Left = {}
     \/ step = "negotiated" /\ at = Len(schedule) + 1
  /\ step' = "done" /\ UNCHANGED <<taken, tiers, at>> /\ Listing

Init ==
  /\ base \in Listed /\ request \in BOOLEAN /\ taken = <<>> /\ at = 1
  /\ \/ /\ \E n \in 0..MaxOverrides : overrides \in [1..n -> Override]
        /\ schedule = None /\ step = "base" /\ tiers = <<>>
     \/ /\ \E n \in 0..MaxOverrides : schedule \in [1..n -> Thresholds]
        /\ overrides = <<>> /\ ~Refuses(base)
        /\ step = "negotiated" /\ tiers = <<[over |-> 0, rates |-> RatesOf(base)]>>

Next == Base \/ ReadOverride \/ BuildTier \/ ReadTier \/ Finish

Spec == Init /\ [][Next]_vars

-----------------------------------------------------------------------------
(* What base b comes to for a prompt of n tokens under the overrides of q   *)
(* at the positions s: for each field, the price that the last of those      *)
(* which reach down to n gives it.                                           *)
Applies(o, n) == o.from <= n
Setters(q, s, n, f) == {k \in s : Applies(q[k], n) /\ q[k].set[f] # None}
Laid(b, q, s, n) ==
  [f \in Fields |->
     IF Setters(q, s, n, f) = {} THEN b[f] ELSE q[Max(Setters(q, s, n, f))].set[f]]

(* What the vendor asks for it.                                              *)
Asked(n) == Laid(base, overrides, DOMAIN overrides, n)
TierAt(n) == tiers[Max({k \in DOMAIN tiers : tiers[k].over <= n})]

(* The same as README.md:129-131 words it: what the highest threshold that  *)
(* reaches down to n gives counts, the order of the list among equal ones   *)
(* only.                                                                     *)
Highest(s) == {k \in s : \A j \in s : overrides[j].from <= overrides[k].from}
Inherited(n) ==
  [f \in Fields |->
     LET setters == Setters(overrides, DOMAIN overrides, n, f)
     IN IF setters = {} THEN base[f] ELSE overrides[Max(Highest(setters))].set[f]]
Ascending == \A j, k \in DOMAIN overrides : j < k => overrides[j].from <= overrides[k].from

Increasing == \A j, k \in 2..Len(tiers) : j < k => tiers[j].over < tiers[k].over

(* A finished schedule bills every prompt what the vendor's list, read in   *)
(* its order, asks for it, for each rate the dearest of its fields, which is *)
(* what the README has it ask where no threshold is listed after a higher   *)
(* one; and its thresholds increase.  What it cannot express was nowhere in  *)
(* the list, and a model is refused only for that, or for a price that is    *)
(* negative or missing for some prompt.                                      *)
Inexpressible == request \/ \E k \in DOMAIN overrides : ~overrides[k].plain
BilledAsListed ==
  /\ step = "done" =>
       /\ Increasing
       /\ schedule = None =>
            /\ ~Inexpressible
            /\ \A n \in Sizes : TierAt(n).rates = RatesOf(Asked(n))
            /\ Ascending => \A n \in Sizes : TierAt(n).rates = RatesOf(Inherited(n))
  /\ step = "refused" /\ schedule = None =>
       Inexpressible \/ \E n \in Thresholds \cup {0} : Refuses(base) \/ Refuses(Asked(n))

-----------------------------------------------------------------------------
(* The inductive invariant.                                                  *)
Tiers == Seq([over : Thresholds \cup {0}, rates : {RatesOf(l) : l \in Listed}])

(* The overrides taken come to what those that were read ask for.            *)
Reading ==
  step \in {"base", "override"} =>
    /\ schedule = None /\ Len(overrides) <= MaxOverrides /\ at <= Len(overrides) + 1
    /\ \A n \in Sizes \cup Thresholds :
         Laid(base, taken, DOMAIN taken, n) = Laid(base, overrides, 1..(at - 1), n)

(* Nothing that was read had to be refused.                                  *)
Expressible ==
  /\ step = "base" => at = 1
  /\ step = "override" => ~request /\ \A k \in 1..(at - 1) : overrides[k].plain

(* The tiers so far are of the lower thresholds, and each is right for its   *)
(* own.                                                                      *)
Building ==
  step = "override" =>
    /\ tiers # <<>> /\ tiers[1] = [over |-> 0, rates |-> RatesOf(base)]
    /\ at <= Len(overrides) => Len(tiers) = 1
    /\ Increasing
    /\ \A k \in 2..Len(tiers) :
         /\ tiers[k].over \in {taken[j].from : j \in DOMAIN taken}
         /\ tiers[k].rates = RatesOf(Laid(base, taken, DOMAIN taken, tiers[k].over))
         /\ \A t \in Left : tiers[k].over < t

Negotiating ==
  step = "negotiated" =>
    /\ schedule \in Seq(Thresholds) /\ Len(schedule) <= MaxOverrides
    /\ at <= Len(schedule) + 1 /\ Len(tiers) = at /\ Increasing
    /\ \A k \in 2..Len(tiers) : tiers[k].over = schedule[k - 1]

IInv ==
  /\ TypeOK /\ tiers \in Tiers
  /\ Reading /\ Expressible /\ Building /\ Negotiating /\ BilledAsListed
=============================================================================
