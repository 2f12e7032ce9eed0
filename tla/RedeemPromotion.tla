--------------------------- MODULE RedeemPromotion ---------------------------
(***************************************************************************)
(* pricing-engine-service: RedeemPromotion reads a promotion, checks       *)
(* canRedeem on what it read, inserts a redemption and increments the      *)
(* count of uses, three statements without a transaction or a condition.   *)
(* A promotion may be deleted, deactivated or given another maxUses        *)
(* meanwhile.  Only promotions with maxUses are modelled; without it       *)
(* nothing is limited.                                                     *)
(***************************************************************************)
EXTENDS Integers, FiniteSets

CONSTANTS
    Redeemer,       \* requests that may be at work at one time
    Limits,         \* the values maxUses is given
    MaxLost         \* bound: redemptions whose increment failed

ASSUME RedeemAssumption ==
    /\ IsFiniteSet(Redeemer) /\ Redeemer # {}
    /\ Limits \subseteq Nat \ {0} /\ MaxLost \in Nat

VARIABLES
    maxUses,
    granted,       \* the largest maxUses so far
    standing,      \* "active": isActive and between validFrom and validTo; "inactive"; "deleted"
    usedCount,
    redemptions,   \* the number of rows
    redeemAt,      \* [Redeemer -> where it is]
    lost           \* redemptions that were never counted

redeemVars == <<maxUses, granted, standing, usedCount, redemptions, redeemAt, lost>>

RedeemInit ==
    /\ maxUses \in Limits /\ granted = maxUses
    /\ standing = "active"
    /\ usedCount = 0 /\ redemptions = 0
    /\ redeemAt = [r \in Redeemer |-> "find"]
    /\ lost = 0

offer == <<maxUses, granted, standing>>

RedeemTo(r, stop) == redeemAt' = [redeemAt EXCEPT ![r] = stop]

(* MUTANT: off by one: a promotion at its limit is redeemed once more. *)
CanRedeemAtLimit == standing = "active" /\ usedCount <= maxUses

CanRedeem == standing = "active" /\ usedCount < maxUses

(* findByCode and canRedeem; a refused request may come again. *)
FindPromotion(r) ==
    /\ redeemAt[r] = "find"
    /\ CanRedeem
    /\ RedeemTo(r, "redeem")
    /\ UNCHANGED <<offer, usedCount, redemptions, lost>>

(* redeem: the insert; it may throw, with effect or without. *)
Redeem(r) ==
    /\ redeemAt[r] = "redeem"
    /\ \/ redemptions' = redemptions + 1 /\ RedeemTo(r, "increment") /\ UNCHANGED lost
       \/ RedeemTo(r, "find") /\ UNCHANGED <<redemptions, lost>>
       \/ lost < MaxLost /\ lost' = lost + 1 /\ redemptions' = redemptions + 1 /\ RedeemTo(r, "find")
    /\ UNCHANGED <<offer, usedCount>>

IncrementUsedCount(r) ==
    /\ redeemAt[r] = "increment"
    /\ usedCount' = usedCount + 1
    /\ RedeemTo(r, "find")
    /\ UNCHANGED <<offer, redemptions, lost>>

(* The increment throws, or the process dies before it. *)
IncrementLost(r) ==
    /\ redeemAt[r] = "increment" /\ lost < MaxLost
    /\ lost' = lost + 1
    /\ RedeemTo(r, "find")
    /\ UNCHANGED <<offer, usedCount, redemptions>>

(* DeletePromotion; or validTo passes. *)
Deactivate ==
    /\ standing # "deleted" /\ standing' \in {"inactive", "deleted"}
    /\ UNCHANGED <<maxUses, granted, usedCount, redemptions, redeemAt, lost>>

(* isActive, the dates and maxUses are set to anything, even below the     *)
(* uses there were.                                                        *)
UpdatePromotion ==
    /\ standing # "deleted" /\ standing' \in {"active", "inactive"}
    /\ maxUses' \in Limits
    /\ granted' = IF maxUses' > granted THEN maxUses' ELSE granted
    /\ UNCHANGED <<usedCount, redemptions, redeemAt, lost>>

RedeemNext ==
    \/ \E r \in Redeemer : FindPromotion(r) \/ Redeem(r) \/ IncrementUsedCount(r) \/ IncrementLost(r)
    \/ Deactivate \/ UpdatePromotion

RedeemSpec == RedeemInit /\ [][RedeemNext]_redeemVars

-----------------------------------------------------------------------------
RedeemTypeOK ==
    /\ maxUses \in Limits /\ granted \in Limits /\ maxUses <= granted
    /\ standing \in {"active", "inactive", "deleted"}
    /\ usedCount \in Nat /\ redemptions \in Nat
    /\ redeemAt \in [Redeemer -> {"find", "redeem", "increment"}]
    /\ lost \in 0 .. MaxLost

(* Requests that overlap may redeem a promotion beyond the largest maxUses *)
(* it had so far, by less than their number, and once more for every       *)
(* redemption whose increment was lost; the count falls behind the rows by *)
(* exactly the requests at work and those losses (RedeemPromotion.ts:23-44,*)
(* UpdatePromotion.ts:22).                                                 *)
RedemptionsBounded ==
    /\ redemptions < granted + Cardinality(Redeemer) + lost
    /\ redemptions = usedCount + lost + Cardinality({r \in Redeemer : redeemAt[r] = "increment"})
=============================================================================
