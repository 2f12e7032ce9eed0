----------------------------- MODULE FrontProofs -----------------------------
(***************************************************************************)
(* For any number of requests: how often the handler behind one            *)
(* idempotency key runs (IdempotencyStore), how far a promotion is         *)
(* redeemed beyond its limit (RedeemPromotion), what becomes of the owner  *)
(* and the members of an organization (Ownership), how many wrong          *)
(* passwords are verified (LoginUser), and how many replacements a refresh *)
(* token gets and how many sessions end unasked (RefreshTokens).  All are  *)
(* counted the same way: the requests that passed a check are reserved a   *)
(* place in the bound before they use it.                                  *)
(***************************************************************************)
EXTENDS IdempotencyStore, RedeemPromotion, Ownership, LoginUser, RefreshTokens,
        FiniteSetTheorems, TLAPS

(* The number of elements of a finite set grows and shrinks by one with    *)
(* its elements, and with the set.                                         *)
LEMMA Counting ==
    ASSUME NEW S, IsFiniteSet(S), NEW T \in SUBSET S, NEW x \in S
    PROVE  /\ IsFiniteSet(T) /\ Cardinality(T) \in Nat /\ Cardinality(S) \in Nat
           /\ Cardinality(T) <= Cardinality(S)
           /\ Cardinality(T \cup {x}) <= Cardinality(T) + 1
           /\ x \notin T => Cardinality(T \cup {x}) = Cardinality(T) + 1
           /\ x \in T => Cardinality(T \ {x}) = Cardinality(T) - 1
           /\ \A U \in SUBSET T : Cardinality(U) <= Cardinality(T)
<1>1. IsFiniteSet(T) /\ Cardinality(T) <= Cardinality(S)
    BY FS_Subset
<1>2. Cardinality(T) \in Nat /\ Cardinality(S) \in Nat
    BY <1>1, FS_CardinalityType
<1>3. /\ x \notin T => Cardinality(T \cup {x}) = Cardinality(T) + 1
      /\ x \in T => Cardinality(T \cup {x}) = Cardinality(T)
    BY <1>1, FS_AddElement
<1>4. x \in T => Cardinality(T \ {x}) = Cardinality(T) - 1
    BY <1>1, FS_RemoveElement
<1>5. \A U \in SUBSET T : Cardinality(U) <= Cardinality(T)
    BY <1>1, FS_Subset
<1>6. QED
    BY <1>1, <1>2, <1>3, <1>4, <1>5

-----------------------------------------------------------------------------
(* RedeemPromotion. *)

Busy == {r \in Redeemer : redeemAt[r] # "find"}
Incrementing == {r \in Redeemer : redeemAt[r] = "increment"}

(* Every request past the check keeps a use of its own free: they are at   *)
(* most Cardinality(Redeemer), and the last to be let through saw          *)
(* usedCount below maxUses, which was at most granted.                     *)
RedeemInv ==
    /\ RedeemTypeOK
    /\ usedCount + Cardinality(Busy) < granted + Cardinality(Redeemer)
    /\ redemptions = usedCount + lost + Cardinality(Incrementing)

LEMMA RedeemInitInv == RedeemInit => RedeemInv
<1>1. RedeemInit => Busy = {} /\ Incrementing = {}
    BY DEF RedeemInit, Busy, Incrementing
<1>2. Cardinality({}) = 0
    BY FS_EmptySet
<1>3. Cardinality(Redeemer) \in Nat
    BY RedeemAssumption, FS_CardinalityType
<1>4. QED
    BY <1>1, <1>2, <1>3, RedeemAssumption DEF RedeemInit, RedeemInv, RedeemTypeOK

LEMMA RedeemNextInv == RedeemInv /\ [RedeemNext]_redeemVars => RedeemInv'
<1> SUFFICES ASSUME RedeemInv, [RedeemNext]_redeemVars PROVE RedeemInv'
    OBVIOUS
<1> USE DEF RedeemInv, RedeemTypeOK
<1>0. /\ Busy \in SUBSET Redeemer /\ Incrementing \in SUBSET Redeemer
      /\ IsFiniteSet(Redeemer)
      /\ maxUses \in Nat \ {0} /\ granted \in Nat \ {0} /\ MaxLost \in Nat
    BY RedeemAssumption DEF Busy, Incrementing
<1>1. ASSUME NEW r \in Redeemer, FindPromotion(r) PROVE RedeemInv'
  <2>1. Busy' = Busy \cup {r} /\ Incrementing' = Incrementing /\ Busy' \in SUBSET Redeemer
      BY <1>1 DEF FindPromotion, RedeemTo, Busy, Incrementing
  <2>2. Cardinality(Busy') <= Cardinality(Redeemer) /\ Cardinality(Busy') \in Nat /\ Cardinality(Redeemer) \in Nat
      BY <2>1, <1>0, Counting
  <2>3. QED
      BY <1>0, <1>1, <2>1, <2>2 DEF FindPromotion, RedeemTo, CanRedeem, offer
<1>2. ASSUME NEW r \in Redeemer, Redeem(r) PROVE RedeemInv'
  <2>0. r \in Busy /\ r \notin Incrementing
      BY <1>2 DEF Redeem, Busy, Incrementing
  <2>1. /\ Cardinality(Busy) \in Nat /\ Cardinality(Redeemer) \in Nat
        /\ Cardinality(Incrementing) \in Nat
        /\ Cardinality(Busy \ {r}) = Cardinality(Busy) - 1
        /\ Cardinality(Incrementing \cup {r}) = Cardinality(Incrementing) + 1
      BY <1>0, <2>0, Counting
  <2>2. CASE redeemAt' = [redeemAt EXCEPT ![r] = "increment"]
    <3>1. Busy' = Busy /\ Incrementing' = Incrementing \cup {r}
        BY <1>2, <2>2 DEF Redeem, Busy, Incrementing
    <3>2. redemptions' = redemptions + 1 /\ UNCHANGED <<offer, usedCount, lost>>
      <4>1. "increment" # "find" /\ redeemAt'[r] = "increment"
          BY <2>2
      <4>2. QED
          BY <1>2, <2>2, <4>1 DEF Redeem, RedeemTo
    <3>3. QED
        BY <1>0, <2>1, <2>2, <3>1, <3>2 DEF offer
  <2>3. CASE redeemAt' = [redeemAt EXCEPT ![r] = "find"]
    <3>1. Busy' = Busy \ {r} /\ Incrementing' = Incrementing
        BY <2>3, <2>0 DEF Busy, Incrementing
    <3>2. /\ UNCHANGED <<offer, usedCount>>
          /\ \/ redemptions' = redemptions /\ lost' = lost
             \/ redemptions' = redemptions + 1 /\ lost < MaxLost /\ lost' = lost + 1
      <4>1. redeemAt'[r] = "find"
          BY <2>3
      <4>2. QED
          BY <1>2, <4>1 DEF Redeem, RedeemTo
    <3>3. QED
        BY <1>0, <2>1, <2>3, <3>1, <3>2 DEF offer
  <2>4. QED
      BY <1>2, <2>2, <2>3 DEF Redeem, RedeemTo
<1>3. ASSUME NEW r \in Redeemer, IncrementUsedCount(r) \/ IncrementLost(r) PROVE RedeemInv'
  <2>0. r \in Busy /\ r \in Incrementing
      BY <1>3 DEF IncrementUsedCount, IncrementLost, Busy, Incrementing
  <2>1. /\ Cardinality(Busy) \in Nat /\ Cardinality(Redeemer) \in Nat
        /\ Cardinality(Incrementing) \in Nat
        /\ Cardinality(Busy \ {r}) = Cardinality(Busy) - 1
        /\ Cardinality(Incrementing \ {r}) = Cardinality(Incrementing) - 1
      BY <1>0, <2>0, Counting
  <2>2. Busy' = Busy \ {r} /\ Incrementing' = Incrementing \ {r}
      BY <1>3 DEF IncrementUsedCount, IncrementLost, RedeemTo, Busy, Incrementing
  <2>3. QED
      BY <1>0, <1>3, <2>1, <2>2 DEF IncrementUsedCount, IncrementLost, RedeemTo, offer
<1>4. CASE Deactivate \/ UpdatePromotion
  <2>1. /\ maxUses' \in Limits /\ granted' \in Limits /\ maxUses' <= granted'
        /\ granted <= granted'
        /\ standing' \in {"active", "inactive", "deleted"}
        /\ UNCHANGED <<usedCount, redemptions, redeemAt, lost>>
    <3>1. CASE Deactivate
        BY <3>1, <1>0 DEF Deactivate
    <3>2. CASE UpdatePromotion
      <4>1. maxUses' \in Nat
          BY <3>2, RedeemAssumption DEF UpdatePromotion
      <4>2. QED
          BY <4>1, <3>2, <1>0 DEF UpdatePromotion
    <3>3. QED
        BY <1>4, <3>1, <3>2
  <2>2. Busy' = Busy /\ Incrementing' = Incrementing
      BY <2>1 DEF Busy, Incrementing
  <2>3. /\ granted' \in Nat /\ Cardinality(Busy) \in Nat /\ Cardinality(Redeemer) \in Nat
      BY <2>1, <1>0, RedeemAssumption, FS_Subset, FS_CardinalityType
  <2>4. QED
      BY <2>1, <2>2, <2>3, <1>0
<1>5. CASE UNCHANGED redeemVars
    BY <1>5 DEF redeemVars, Busy, Incrementing
<1>6. QED
    BY <1>1, <1>2, <1>3, <1>4, <1>5 DEF RedeemNext

LEMMA RedeemInvBounds == RedeemInv => RedemptionsBounded
<1> SUFFICES ASSUME RedeemInv PROVE RedemptionsBounded
    OBVIOUS
<1>1. Incrementing \in SUBSET Busy /\ Busy \in SUBSET Redeemer
    BY DEF Incrementing, Busy
<1>2. /\ Cardinality(Incrementing) <= Cardinality(Busy)
      /\ Cardinality(Incrementing) \in Nat /\ Cardinality(Busy) \in Nat
      /\ Cardinality(Redeemer) \in Nat
    BY <1>1, RedeemAssumption, FS_Subset, FS_CardinalityType
<1>3. QED
    BY <1>2, RedeemAssumption DEF RedeemInv, RedeemTypeOK, RedemptionsBounded, Incrementing

(* A promotion is redeemed less than the largest maxUses it was given plus *)
(* the number of requests at work plus the lost increments times, and its  *)
(* count lags behind its rows exactly by those (RedeemPromotion.execute,   *)
(* UpdatePromotion.execute).                                               *)
THEOREM RedemptionsAreBounded == RedeemSpec => [](RedeemTypeOK /\ RedemptionsBounded)
<1>1. RedeemInv => RedeemTypeOK /\ RedemptionsBounded
    BY RedeemInvBounds DEF RedeemInv
<1>2. QED
    BY <1>1, RedeemInitInv, RedeemNextInv, PTL DEF RedeemSpec

-----------------------------------------------------------------------------
(* IdempotencyStore. *)

Handling == {a \in Attempt : attemptAt[a] = "handle"}
Credit == IF keyEntry = Absent THEN 0 ELSE 1

(* A handler that runs or ran was let in by an entry that is still there,  *)
(* or by one that expired.                                                 *)
IdempotencyInv ==
    /\ IdempotencyTypeOK
    /\ \A a \in Attempt : attemptAt[a] = "store" => a \in handledBy
    /\ keyEntry \in handledBy \cup {Absent, Processing}
    /\ Cardinality(handledBy \cup Handling) <= lapses + Credit

LEMMA IdempotencyInitInv == IdempotencyInit => IdempotencyInv
<1> SUFFICES ASSUME IdempotencyInit PROVE IdempotencyInv
    OBVIOUS
<1>1. handledBy \cup Handling = {}
    BY DEF IdempotencyInit, Handling
<1>2. Cardinality({}) = 0
    BY FS_EmptySet
<1>3. QED
    BY <1>1, <1>2, IdempotencyAssumption
    DEF IdempotencyInit, IdempotencyInv, IdempotencyTypeOK, AttemptStop, Credit

LEMMA IdempotencyNextInv == IdempotencyInv /\ [IdempotencyNext]_idempotencyVars => IdempotencyInv'
<1> SUFFICES ASSUME IdempotencyInv, [IdempotencyNext]_idempotencyVars PROVE IdempotencyInv'
    OBVIOUS
<1> DEFINE Let == handledBy \cup Handling
<1> USE DEF IdempotencyInv, IdempotencyTypeOK, AttemptStop, Credit
<1>0. /\ Let \in SUBSET Attempt /\ IsFiniteSet(Attempt)
      /\ Absent # Processing /\ Absent \notin Attempt /\ Processing \notin Attempt
      /\ MaxLapses \in Nat /\ MaxMiddlewareFaults \in Nat
    BY IdempotencyAssumption DEF Handling
<1>00. IsFiniteSet(Let) /\ Cardinality(Let) \in Nat /\ \A U \in SUBSET Let : Cardinality(U) \in Nat /\ Cardinality(U) <= Cardinality(Let)
    BY <1>0, FS_Subset, FS_CardinalityType
<1>1. ASSUME NEW a \in Attempt, GetKey(a) PROVE IdempotencyInv'
  <2>1. Let' \in SUBSET Let
      BY <1>1 DEF GetKey, AttemptTo, Handling
  <2>2. Cardinality(Let') <= Cardinality(Let)
      BY <2>1, <1>00
  <2>3. QED
      BY <1>0, <1>1, <2>2, <1>00, <2>1 DEF GetKey, AttemptTo, MiddlewareFault
<1>2. ASSUME NEW a \in Attempt, MarkProcessing(a) PROVE IdempotencyInv'
  <2>1. CASE AttemptTo(a, "handle")
    <3>1. keyEntry = Absent /\ keyEntry' = Processing /\ UNCHANGED <<handledBy, lapses, middlewareFaults>>
      <4>1. attemptAt'[a] = "handle" /\ "handle" # "refused"
          BY <2>1 DEF AttemptTo
      <4>2. QED
          BY <1>2, <4>1 DEF MarkProcessing, AttemptTo
    <3>2. Let' = Let \cup {a}
        BY <2>1, <3>1 DEF AttemptTo, Handling
    <3>30. Cardinality(Let \cup {a}) <= Cardinality(Let) + 1
        BY <1>0, Counting
    <3>31. Let' \in SUBSET Attempt
        BY <3>2, <1>0
    <3>32. Cardinality(Let') \in Nat
        BY <3>31, <1>0, Counting
    <3>3. Cardinality(Let') <= Cardinality(Let) + 1 /\ Cardinality(Let') \in Nat
        BY <3>2, <3>30, <3>32
    <3>4. QED
        BY <1>0, <1>00, <2>1, <3>1, <3>3 DEF AttemptTo
  <2>2. CASE AttemptTo(a, "refused")
    <3>1. Let' \in SUBSET Let
        BY <1>2, <2>2 DEF MarkProcessing, AttemptTo, Handling
    <3>2. Cardinality(Let') <= Cardinality(Let) /\ Cardinality(Let') \in Nat
        BY <3>1, <1>00
    <3>3. QED
        BY <1>0, <1>2, <2>2, <3>2, <1>00 DEF MarkProcessing, AttemptTo, MiddlewareFault
  <2>3. QED
      BY <1>2, <2>1, <2>2 DEF MarkProcessing
<1>3. ASSUME NEW a \in Attempt, Handle(a) PROVE IdempotencyInv'
  <2>1. Let' = Let
      BY <1>3 DEF Handle, AttemptTo, Handling
  <2>2. QED
      BY <1>0, <1>00, <1>3, <2>1 DEF Handle, AttemptTo
<1>4. ASSUME NEW a \in Attempt, StoreResponse(a) PROVE IdempotencyInv'
  <2>1. Let' = Let
      BY <1>4 DEF StoreResponse, AttemptTo, Handling
  <2>2. QED
      BY <1>0, <1>00, <1>4, <2>1 DEF StoreResponse, AttemptTo
<1>5. ASSUME NEW a \in Attempt, BreaksOff(a) PROVE IdempotencyInv'
  <2>0. a \in Let
      BY <1>5 DEF BreaksOff, Handling
  <2>1. Let' \in SUBSET Let
      BY <1>5, <2>0 DEF BreaksOff, AttemptTo, Handling
  <2>2. Cardinality(Let') <= Cardinality(Let) /\ Cardinality(Let') \in Nat
      BY <2>1, <1>00
  <2>3. keyEntry' = keyEntry \/ (keyEntry' = a /\ a \in handledBy /\ keyEntry' # Absent)
      BY <1>0, <1>5 DEF BreaksOff
  <2>4. Credit <= Credit' /\ Credit \in Nat /\ Credit' \in Nat
      BY <2>3
  <2>5. lapses' = lapses /\ lapses \in Nat /\ handledBy \subseteq handledBy' /\ handledBy' \subseteq handledBy \cup {a}
      BY <1>5 DEF BreaksOff
  <2>6. Cardinality(Let') <= lapses' + Credit'
      BY <1>00, <2>2, <2>4, <2>5
  <2>7. keyEntry' \in handledBy' \cup {Absent, Processing}
      BY <2>3, <2>5
  <2>8. IdempotencyTypeOK'
      BY <1>0, <1>5, <2>3, <2>5 DEF BreaksOff, AttemptTo, MiddlewareFault
  <2>9. \A b \in Attempt : attemptAt'[b] = "store" => b \in handledBy'
      BY <1>5, <2>5 DEF BreaksOff, AttemptTo
  <2>10. QED
      BY <2>6, <2>7, <2>8, <2>9 DEF Handling
<1>6. CASE KeyExpires
  <2>1. Let' = Let
      BY <1>6 DEF KeyExpires, Handling
  <2>2. lapses' + Credit' = lapses + Credit
      BY <1>6 DEF KeyExpires
  <2>3. Cardinality(Let') <= lapses' + Credit'
      BY <2>1, <2>2
  <2>4. IdempotencyTypeOK'
      BY <1>0, <1>6 DEF KeyExpires
  <2>5. QED
      BY <1>6, <2>3, <2>4 DEF KeyExpires, Handling
<1>7. CASE UNCHANGED idempotencyVars
  <2>1. Let' = Let
      BY <1>7 DEF idempotencyVars, Handling
  <2>2. QED
      BY <1>7, <2>1 DEF idempotencyVars
<1>8. QED
    BY <1>1, <1>2, <1>3, <1>4, <1>5, <1>6, <1>7 DEF IdempotencyNext

LEMMA IdempotencyInvBounds == IdempotencyInv => HandlerRunsBounded
<1> SUFFICES ASSUME IdempotencyInv PROVE HandlerRunsBounded
    OBVIOUS
<1>1. handledBy \cup Handling \in SUBSET Attempt
    BY DEF IdempotencyInv, IdempotencyTypeOK, Handling
<1>2. IsFiniteSet(handledBy \cup Handling)
    BY <1>1, IdempotencyAssumption, FS_Subset
<1>3. /\ Cardinality(handledBy) <= Cardinality(handledBy \cup Handling)
      /\ Cardinality(handledBy \cup Handling) \in Nat /\ Cardinality(handledBy) \in Nat
    BY <1>2, FS_Subset, FS_CardinalityType
<1>4. QED
    BY <1>3, IdempotencyAssumption
    DEF IdempotencyInv, IdempotencyTypeOK, HandlerRunsBounded, Credit

(* The handler behind a key runs at most once more than the key's entry    *)
(* expired, and what is replayed is an answer it gave                      *)
(* (createIdempotencyMiddleware).                                          *)
THEOREM HandlerRunsAreBounded == IdempotencySpec => [](IdempotencyTypeOK /\ HandlerRunsBounded)
<1>1. IdempotencyInv => IdempotencyTypeOK /\ HandlerRunsBounded
    BY IdempotencyInvBounds DEF IdempotencyInv
<1>2. QED
    BY <1>1, IdempotencyInitInv, IdempotencyNextInv, PTL DEF IdempotencySpec

-----------------------------------------------------------------------------
(* Ownership. *)

LEMMA OwnershipTypeNext == OwnershipTypeOK /\ [OwnershipNext]_ownershipVars => OwnershipTypeOK'
<1> SUFFICES ASSUME OwnershipTypeOK, [OwnershipNext]_ownershipVars PROVE OwnershipTypeOK'
    OBVIOUS
<1> USE OwnershipAssumption DEF OwnershipTypeOK, MemberStop
<1>1. ASSUME NEW r \in MemberRequest, NEW u \in User, Begin(r, u) PROVE OwnershipTypeOK'
    BY <1>1 DEF Begin, MemberTo, AtWork, organization
<1>2. ASSUME NEW r \in MemberRequest, CountMembers(r) \/ CheckMember(r) PROVE OwnershipTypeOK'
    BY <1>2 DEF CountMembers, CheckMember, MemberTo, AtWork, organization
<1>3. ASSUME NEW r \in MemberRequest, AddMember(r) PROVE OwnershipTypeOK'
    BY <1>3 DEF AddMember, EndRequest, Forget, MemberTo, AtWork
<1>4. ASSUME NEW r \in MemberRequest, RemoveMember(r) PROVE OwnershipTypeOK'
    BY <1>4 DEF RemoveMember, EndRequest, Forget, MemberTo, AtWork
<1>5. ASSUME NEW r \in MemberRequest, SetOwner(r) PROVE OwnershipTypeOK'
    BY <1>5 DEF SetOwner, EndRequest, Forget, MemberTo, AtWork
<1>6. ASSUME NEW r \in MemberRequest, GiveUpRequest(r) PROVE OwnershipTypeOK'
    BY <1>6 DEF GiveUpRequest, Forget, MemberTo, AtWork, organization
<1>7. CASE FounderJoins
    BY <1>7 DEF FounderJoins, AtWork
<1>8. ASSUME NEW u \in User, AcceptInvite(u) PROVE OwnershipTypeOK'
    BY <1>8 DEF AcceptInvite, AtWork
<1>9. CASE UNCHANGED ownershipVars
    BY <1>9 DEF ownershipVars, organization, AtWork
<1>10. QED
    BY <1>1, <1>2, <1>3, <1>4, <1>5, <1>6, <1>7, <1>8, <1>9 DEF OwnershipNext, MemberStep

(* What a request found holds until it writes, unless another overtook it: *)
(* the one it removes or appoints is not the owner, and the one it         *)
(* appoints is a member.                                                   *)
Others == {"removable?", "remove", "eligible?", "transfer"}
ChecksHold ==
    \A r \in MemberRequest \ overtaken :
        /\ memberAt[r] \in Others => about[r] # owner
        /\ memberAt[r] = "transfer" => about[r] \in members

LEMMA ChecksKept ==
    OwnershipTypeOK /\ ChecksHold /\ [OwnershipNext]_ownershipVars
        => ChecksHold' /\ (Orphaned => ByOvertaken)
<1> SUFFICES ASSUME OwnershipTypeOK, ChecksHold, [OwnershipNext]_ownershipVars
             PROVE  ChecksHold' /\ (Orphaned => ByOvertaken)
    OBVIOUS
<1> USE DEF OwnershipTypeOK
(* Where the owner stays and no member is lost, only the mover is looked at. *)
<1>0. ASSUME UNCHANGED owner, members \subseteq members', NEW r \in MemberRequest,
             overtaken \ {r} \subseteq overtaken',
             \A q \in MemberRequest \ {r} : memberAt'[q] = memberAt[q] /\ about'[q] = about[q],
             /\ memberAt'[r] \in Others => about'[r] # owner \/ r \in overtaken'
             /\ memberAt'[r] = "transfer" => about'[r] \in members' \/ r \in overtaken'
      PROVE  ChecksHold' /\ (Orphaned => ByOvertaken)
  <2>1. ~Orphaned
      BY <1>0 DEF Orphaned
  <2>2. ASSUME NEW q \in MemberRequest \ overtaken'
        PROVE  /\ memberAt'[q] \in Others => about'[q] # owner'
               /\ memberAt'[q] = "transfer" => about'[q] \in members'
    <3>1. CASE q = r
        BY <1>0, <3>1
    <3>2. CASE q # r
      <4>1. q \in MemberRequest \ overtaken
          BY <1>0, <3>2
      <4>2. QED
          BY <1>0, <3>2, <4>1 DEF ChecksHold
    <3>3. QED
        BY <3>1, <3>2
  <2>3. QED
      BY <2>1, <2>2 DEF ChecksHold
<1>1. ASSUME NEW r \in MemberRequest, NEW u \in User, Begin(r, u)
      PROVE  ChecksHold' /\ (Orphaned => ByOvertaken)
  <2>1. \A q \in MemberRequest \ {r} : memberAt'[q] = memberAt[q] /\ about'[q] = about[q]
      BY <1>1 DEF Begin, MemberTo
  <2>2. /\ memberAt'[r] \in Others => about'[r] # owner
        /\ memberAt'[r] # "transfer"
      BY <1>1 DEF Begin, MemberTo, Others
  <2>3. UNCHANGED <<owner, members, overtaken>>
      BY <1>1 DEF Begin, organization
  <2>4. QED
      BY <1>0, <2>1, <2>2, <2>3
<1>2. ASSUME NEW r \in MemberRequest, CountMembers(r) \/ CheckMember(r)
      PROVE  ChecksHold' /\ (Orphaned => ByOvertaken)
  <2>1. \A q \in MemberRequest \ {r} : memberAt'[q] = memberAt[q] /\ about'[q] = about[q]
      BY <1>2 DEF CountMembers, CheckMember, MemberTo
  <2>2. UNCHANGED <<owner, members, overtaken, about>>
      BY <1>2 DEF CountMembers, CheckMember, organization
  <2>3. /\ memberAt'[r] \in Others => memberAt[r] \in Others
        /\ memberAt'[r] = "transfer" => about[r] \in members
      BY <1>2 DEF CountMembers, CheckMember, MemberTo, Others
  <2>4. /\ memberAt'[r] \in Others => about'[r] # owner \/ r \in overtaken'
        /\ memberAt'[r] = "transfer" => about'[r] \in members' \/ r \in overtaken'
      BY <2>2, <2>3 DEF ChecksHold
  <2>5. QED
      BY <1>0, <2>1, <2>2, <2>4
<1>3. ASSUME NEW r \in MemberRequest, AddMember(r) \/ GiveUpRequest(r)
      PROVE  ChecksHold' /\ (Orphaned => ByOvertaken)
  <2>1. \A q \in MemberRequest \ {r} : memberAt'[q] = memberAt[q] /\ about'[q] = about[q]
      BY <1>3 DEF AddMember, GiveUpRequest, EndRequest, Forget, MemberTo
  <2>2. memberAt'[r] = "start" /\ UNCHANGED owner /\ members \subseteq members'
      BY <1>3 DEF AddMember, GiveUpRequest, EndRequest, Forget, MemberTo, organization
  <2>3. overtaken' = overtaken \ {r}
      BY <1>3 DEF AddMember, GiveUpRequest
  <2>4. QED
      BY <1>0, <2>1, <2>2, <2>3 DEF Others
<1>4. ASSUME NEW r \in MemberRequest, RemoveMember(r) \/ SetOwner(r)
      PROVE  ChecksHold' /\ (Orphaned => ByOvertaken)
  <2>1. \A q \in MemberRequest \ overtaken' : memberAt'[q] = "start"
    <3>1. overtaken' = AtWork \ {r} /\ memberAt' = [memberAt EXCEPT ![r] = "start"]
        BY <1>4 DEF RemoveMember, SetOwner, EndRequest, Forget, MemberTo
    <3>2. QED
        BY <3>1 DEF AtWork
  <2>2. ChecksHold'
      BY <2>1 DEF ChecksHold, Others
  <2>3. /\ memberAt[r] \in {"remove", "transfer"} /\ memberAt'[r] = "start"
      BY <1>4 DEF RemoveMember, SetOwner, EndRequest, Forget, MemberTo
  <2>4. CASE r \in overtaken
      BY <2>2, <2>3, <2>4 DEF ByOvertaken
  <2>5. CASE r \notin overtaken
    <3>1. about[r] # owner /\ (memberAt[r] = "transfer" => about[r] \in members)
        BY <2>3, <2>5 DEF ChecksHold, Others
    <3>2. ~Orphaned
        BY <1>4, <3>1 DEF RemoveMember, SetOwner, Orphaned
    <3>3. QED
        BY <2>2, <3>2
  <2>6. QED
      BY <2>4, <2>5
<1>5. CASE FounderJoins \/ (\E u \in User : AcceptInvite(u)) \/ UNCHANGED ownershipVars
  <2>1. /\ UNCHANGED <<owner, memberAt, about, overtaken>>
        /\ members \subseteq members'
      BY <1>5 DEF FounderJoins, AcceptInvite, ownershipVars, organization
  <2>2. QED
      BY <2>1 DEF ChecksHold, Orphaned
<1>6. QED
    BY <1>1, <1>2, <1>3, <1>4, <1>5 DEF OwnershipNext, MemberStep

(* A request that counted the members, and the founder, have their places  *)
(* in the bound.                                                           *)
Adding == {r \in MemberRequest : memberAt[r] \in {"absent?", "add"}}
FoundersPlace == IF founding THEN 1 ELSE 0
PlacesKept ==
    Cardinality(members) + Cardinality(Adding) + FoundersPlace
        <= maxMembersPerOrg + Cardinality(MemberRequest) + invited

LEMMA PlacesNext == OwnershipTypeOK /\ PlacesKept /\ [OwnershipNext]_ownershipVars => PlacesKept'
<1> SUFFICES ASSUME OwnershipTypeOK, PlacesKept, [OwnershipNext]_ownershipVars PROVE PlacesKept'
    OBVIOUS
<1> USE OwnershipAssumption DEF OwnershipTypeOK, PlacesKept, FoundersPlace
<1>0. /\ Adding \in SUBSET MemberRequest /\ IsFiniteSet(MemberRequest)
      /\ members \in SUBSET User /\ IsFiniteSet(User)
      /\ Cardinality(MemberRequest) \in Nat /\ Cardinality(Adding) \in Nat
      /\ Cardinality(members) \in Nat
      /\ maxMembersPerOrg \in Nat /\ invited \in Nat
    BY FS_CardinalityType, FS_Subset DEF Adding
(* Where nobody joins, nobody may take a place. *)
<1>1. ASSUME members' \in SUBSET members, Adding' \in SUBSET Adding, UNCHANGED <<founding, invited>>
      PROVE  PlacesKept'
  <2>1. /\ IsFiniteSet(members) /\ IsFiniteSet(Adding)
      BY <1>0, FS_Subset
  <2>2. /\ Cardinality(members') <= Cardinality(members) /\ Cardinality(members') \in Nat
        /\ Cardinality(Adding') <= Cardinality(Adding) /\ Cardinality(Adding') \in Nat
      BY <1>1, <2>1, FS_Subset, FS_CardinalityType
  <2>3. QED
      BY <1>0, <1>1, <2>2
<1>2. ASSUME NEW r \in MemberRequest, NEW u \in User, Begin(r, u) PROVE PlacesKept'
    BY <1>1, <1>2 DEF Begin, MemberTo, organization, Adding
<1>3. ASSUME NEW r \in MemberRequest, CountMembers(r) PROVE PlacesKept'
  <2>1. Adding' \in SUBSET MemberRequest
      BY <1>3 DEF CountMembers, MemberTo, Adding
  <2>2. Cardinality(Adding') <= Cardinality(MemberRequest) /\ Cardinality(Adding') \in Nat
      BY <1>0, <2>1, FS_Subset, FS_CardinalityType
  <2>3. /\ UNCHANGED <<members, founding, invited>>
        /\ Cardinality(members) < maxMembersPerOrg
      BY <1>3 DEF CountMembers, organization
  <2>4. QED
      BY <1>0, <2>2, <2>3
<1>4. ASSUME NEW r \in MemberRequest, CheckMember(r) PROVE PlacesKept'
    BY <1>1, <1>4 DEF CheckMember, MemberTo, organization, Adding
<1>5. ASSUME NEW r \in MemberRequest, AddMember(r) PROVE PlacesKept'
  <2>1. r \in Adding /\ Adding' = Adding \ {r} /\ UNCHANGED <<founding, invited>>
      BY <1>5 DEF AddMember, EndRequest, Forget, MemberTo, Adding
  <2>2. Cardinality(Adding') = Cardinality(Adding) - 1
      BY <1>0, <2>1, Counting
  <2>3. members' = members \/ members' = members \cup {about[r]}
      BY <1>5 DEF AddMember
  <2>4. /\ Cardinality(members') <= Cardinality(members) + 1 /\ Cardinality(members') \in Nat
    <3>1. /\ Cardinality(members \cup {about[r]}) <= Cardinality(members) + 1
          /\ members \cup {about[r]} \in SUBSET User
        BY <1>0, Counting
    <3>2. Cardinality(members \cup {about[r]}) \in Nat
        BY <1>0, <3>1, FS_Subset, FS_CardinalityType
    <3>3. CASE members' = members
        BY <1>0, <3>3
    <3>4. CASE members' = members \cup {about[r]}
        BY <3>1, <3>2, <3>4
    <3>5. QED
        BY <2>3, <3>3, <3>4
  <2>5. QED
      BY <1>0, <2>1, <2>2, <2>4
<1>6. ASSUME NEW r \in MemberRequest, RemoveMember(r) \/ SetOwner(r) \/ GiveUpRequest(r)
      PROVE  PlacesKept'
  <2>1. UNCHANGED <<founding, invited>> /\ members' \in SUBSET members
      BY <1>6 DEF RemoveMember, SetOwner, GiveUpRequest, EndRequest, organization
  <2>2. memberAt' = [memberAt EXCEPT ![r] = "start"]
      BY <1>6 DEF RemoveMember, SetOwner, GiveUpRequest, EndRequest, Forget, MemberTo
  <2>3. Adding' \in SUBSET Adding
      BY <2>2 DEF Adding
  <2>4. QED
      BY <1>1, <2>1, <2>3
<1>7. ASSUME FounderJoins \/ (\E u \in User : AcceptInvite(u)) PROVE PlacesKept'
  <2>1. PICK u \in User : members' = members \/ members' = members \cup {u}
      BY <1>7 DEF FounderJoins, AcceptInvite
  <2>2. /\ Cardinality(members') <= Cardinality(members) + 1 /\ Cardinality(members') \in Nat
    <3>1. /\ Cardinality(members \cup {u}) <= Cardinality(members) + 1
          /\ members \cup {u} \in SUBSET User
        BY <1>0, Counting
    <3>2. Cardinality(members \cup {u}) \in Nat
        BY <1>0, <3>1, FS_Subset, FS_CardinalityType
    <3>3. CASE members' = members
        BY <1>0, <3>3
    <3>4. CASE members' = members \cup {u}
        BY <3>1, <3>2, <3>4
    <3>5. QED
        BY <2>1, <3>3, <3>4
  <2>3. UNCHANGED Adding
      BY <1>7 DEF FounderJoins, AcceptInvite, Adding
  <2>4. \/ founding /\ founding' = FALSE /\ invited' = invited
        \/ founding' = founding /\ invited' = invited + 1
      BY <1>7 DEF FounderJoins, AcceptInvite
  <2>5. QED
      BY <1>0, <2>2, <2>3, <2>4
<1>8. CASE UNCHANGED ownershipVars
    BY <1>1, <1>8 DEF ownershipVars, organization, Adding
<1>9. QED
    BY <1>2, <1>3, <1>4, <1>5, <1>6, <1>7, <1>8 DEF OwnershipNext, MemberStep

LEMMA PlacesBound == OwnershipTypeOK /\ PlacesKept => WithinLimit
<1> SUFFICES ASSUME OwnershipTypeOK, PlacesKept PROVE WithinLimit
    OBVIOUS
<1>1. Adding \in SUBSET MemberRequest /\ members \in SUBSET User
    BY DEF Adding, OwnershipTypeOK
<1>2. Cardinality(Adding) \in Nat /\ Cardinality(members) \in Nat /\ Cardinality(MemberRequest) \in Nat
    BY <1>1, OwnershipAssumption, FS_Subset, FS_CardinalityType
<1>3. QED
    BY <1>2, OwnershipAssumption DEF PlacesKept, FoundersPlace, WithinLimit, OwnershipTypeOK

OwnershipInv == OwnershipTypeOK /\ ChecksHold /\ PlacesKept

LEMMA OwnershipInitInv == OwnershipInit => OwnershipInv
<1> SUFFICES ASSUME OwnershipInit PROVE OwnershipInv
    OBVIOUS
<1>1. OwnershipTypeOK
    BY OwnershipAssumption DEF OwnershipInit, OwnershipTypeOK, MemberStop, AtWork
<1>2. ChecksHold
    BY DEF OwnershipInit, ChecksHold, Others
<1>3. PlacesKept
  <2>1. members = {} /\ Adding = {} /\ founding = TRUE /\ invited = 0
      BY DEF OwnershipInit, Adding
  <2>2. Cardinality({}) = 0 /\ Cardinality(MemberRequest) \in Nat
      BY OwnershipAssumption, FS_EmptySet, FS_CardinalityType
  <2>3. QED
      BY <2>1, <2>2, OwnershipAssumption DEF PlacesKept, FoundersPlace
<1>4. QED
    BY <1>1, <1>2, <1>3 DEF OwnershipInv

(* Whatever requests overlap, only one that was overtaken takes the owner  *)
(* away from the members or ownership to a user who is none, and members   *)
(* pass the limit by no more than those who overlap, the founder and       *)
(* invitations (AddMember, RemoveMember, TransferOwnership).               *)
THEOREM MembershipIsKept == OwnershipSpec => []OwnershipTypeOK /\ MembershipKept
<1>1. OwnershipInv /\ [OwnershipNext]_ownershipVars
          => OwnershipInv' /\ WithinLimit' /\ (Orphaned => ByOvertaken)
  <2> SUFFICES ASSUME OwnershipInv, [OwnershipNext]_ownershipVars
               PROVE  OwnershipInv' /\ WithinLimit' /\ (Orphaned => ByOvertaken)
      OBVIOUS
  <2>1. OwnershipTypeOK' /\ ChecksHold' /\ PlacesKept' /\ (Orphaned => ByOvertaken)
      BY OwnershipTypeNext, ChecksKept, PlacesNext DEF OwnershipInv
  <2>2. OwnershipTypeOK' /\ PlacesKept' => WithinLimit'
      BY PlacesBound, PTL
  <2>3. QED
      BY <2>1, <2>2 DEF OwnershipInv
<1>2. OwnershipInv => OwnershipTypeOK
    BY DEF OwnershipInv
<1>3. QED
    BY <1>1, <1>2, OwnershipInitInv, PTL DEF OwnershipSpec, MembershipKept

-----------------------------------------------------------------------------
(* Counting, for the two machines of auth-service. *)

LEMMA Counted ==
    ASSUME NEW S, IsFiniteSet(S), NEW T \in SUBSET S
    PROVE  Cardinality(T) \in Nat /\ Cardinality(S) \in Nat /\ Cardinality(T) <= Cardinality(S)
BY FS_Subset, FS_CardinalityType

LEMMA CountedWith ==
    ASSUME NEW S, IsFiniteSet(S), NEW T \in SUBSET S, NEW e
    PROVE  /\ Cardinality(T \cup {e}) \in Nat
           /\ Cardinality(T \cup {e}) <= Cardinality(T) + 1
<1>1. IsFiniteSet(T) /\ Cardinality(T) \in Nat
    BY FS_Subset, FS_CardinalityType
<1>2. IsFiniteSet(T \cup {e})
    BY <1>1, FS_AddElement
<1>3. \/ Cardinality(T \cup {e}) = Cardinality(T) + 1
      \/ Cardinality(T \cup {e}) = Cardinality(T)
    BY <1>1, FS_AddElement
<1>4. QED
    BY <1>1, <1>2, <1>3, FS_CardinalityType

LEMMA CountedWithout ==
    ASSUME NEW S, IsFiniteSet(S), NEW T \in SUBSET S, NEW e \in T
    PROVE  Cardinality(T \ {e}) \in Nat /\ Cardinality(T \ {e}) = Cardinality(T) - 1
<1>1. IsFiniteSet(T)
    BY FS_Subset
<1>2. Cardinality(T \ {e}) = Cardinality(T) - 1 /\ IsFiniteSet(T \ {e})
    BY <1>1, FS_RemoveElement
<1>3. QED
    BY <1>2, FS_CardinalityType

-----------------------------------------------------------------------------
(* LoginUser. *)

Window == maxAttempts - 1 + Cardinality(LoginRequest)
Trying == {l \in LoginRequest : loginAt[l] \in {"verify", "record"}}
Recording == {l \in LoginRequest : loginAt[l] = "record"}

(* A login past the check keeps a place of its own in the window: the last *)
(* one let through saw the counter below maxAttempts.  Every wrong         *)
(* password is in a window that is over, in the counter, about to be       *)
(* recorded, or lost with a fault.                                         *)
LoginInv ==
    /\ LoginTypeOK
    /\ failures + Cardinality(Trying) <= Window
    /\ wrong <= resets * Window + failures + Cardinality(Recording) + loginFaults

LEMMA OneWindowMore ==
    ASSUME NEW r \in Nat, NEW w \in Nat
    PROVE  /\ r * w \in Nat /\ 0 * w = 0
           /\ (r + 1) * w = r * w + w /\ (1 + r) * w = r * w + w
OBVIOUS

LEMMA LoginCounts ==
    ASSUME LoginTypeOK
    PROVE  /\ Window \in Nat /\ Cardinality(LoginRequest) \in Nat
           /\ Trying \in SUBSET LoginRequest /\ Recording \in SUBSET Trying
           /\ Cardinality(Trying) \in Nat /\ Cardinality(Recording) \in Nat
           /\ Cardinality(Trying) <= Cardinality(LoginRequest)
           /\ Cardinality(Recording) <= Cardinality(Trying)
<1>1. Trying \in SUBSET LoginRequest /\ Recording \in SUBSET Trying
    BY DEF Trying, Recording
<1>2. IsFiniteSet(LoginRequest) /\ IsFiniteSet(Trying)
    BY <1>1, LoginAssumption, FS_Subset
<1>3. QED
    BY <1>1, <1>2, LoginAssumption, Counted DEF Window

LEMMA LoginInitInv == LoginInit => LoginInv
<1> SUFFICES ASSUME LoginInit PROVE LoginInv
    OBVIOUS
<1>1. LoginTypeOK
    BY LoginAssumption DEF LoginInit, LoginTypeOK, LoginStop
<1>2. Trying = {} /\ Recording = {} /\ Cardinality({}) = 0
    BY FS_EmptySet DEF LoginInit, Trying, Recording
<1>3. Window \in Nat
    BY <1>1, LoginCounts
<1>4. QED
    BY <1>1, <1>2, <1>3, OneWindowMore DEF LoginInit, LoginInv

LEMMA LoginTypeNext == LoginTypeOK /\ [LoginNext]_loginVars => LoginTypeOK'
<1> SUFFICES ASSUME LoginTypeOK, [LoginNext]_loginVars PROVE LoginTypeOK'
    OBVIOUS
<1> USE LoginAssumption DEF LoginTypeOK, LoginStop, LoginTo, LoginFault, Reset
<1>1. ASSUME NEW l \in LoginRequest, CheckBlocked(l) PROVE LoginTypeOK'
    BY <1>1 DEF CheckBlocked
<1>2. ASSUME NEW l \in LoginRequest, Verify(l) PROVE LoginTypeOK'
    BY <1>2 DEF Verify
<1>3. ASSUME NEW l \in LoginRequest, RecordFailure(l) PROVE LoginTypeOK'
    BY <1>3 DEF RecordFailure
<1>4. ASSUME NEW l \in LoginRequest, ClearFailures(l) PROVE LoginTypeOK'
    BY <1>4 DEF ClearFailures
<1>5. ASSUME NEW l \in LoginRequest, UpdateLastLogin(l) PROVE LoginTypeOK'
    BY <1>5 DEF UpdateLastLogin
<1>6. ASSUME NEW l \in LoginRequest, LoginBreaksOff(l) PROVE LoginTypeOK'
    BY <1>6 DEF LoginBreaksOff
<1>7. CASE FailuresExpire
    BY <1>7 DEF FailuresExpire
<1>8. CASE UNCHANGED loginVars
    BY <1>8 DEF loginVars
<1>9. QED
    BY <1>1, <1>2, <1>3, <1>4, <1>5, <1>6, <1>7, <1>8 DEF LoginNext, LoginStep

(* What an action does to the two sets, by where the request goes. *)
LEMMA LoginMoves ==
    ASSUME LoginTypeOK, NEW l \in LoginRequest, NEW stop \in LoginStop, LoginTo(l, stop)
    PROVE  /\ stop \in {"verify", "record"} => Trying' = Trying \cup {l}
           /\ stop \notin {"verify", "record"} => Trying' = Trying \ {l}
           /\ stop = "record" => Recording' = Recording \cup {l}
           /\ stop # "record" => Recording' = Recording \ {l}
BY DEF LoginTypeOK, LoginTo, Trying, Recording

LEMMA LoginNextInv == LoginInv /\ [LoginNext]_loginVars => LoginInv'
<1> SUFFICES ASSUME LoginInv, [LoginNext]_loginVars PROVE LoginInv'
    OBVIOUS
<1>0. LoginTypeOK /\ LoginTypeOK'
    BY LoginTypeNext DEF LoginInv
<1>a. /\ Window \in Nat /\ Window' = Window /\ Cardinality(LoginRequest) \in Nat
      /\ Trying \in SUBSET LoginRequest /\ Recording \in SUBSET LoginRequest
      /\ Cardinality(Trying) \in Nat /\ Cardinality(Recording) \in Nat
      /\ Cardinality(Recording) <= Cardinality(Trying)
      /\ failures \in Nat /\ wrong \in Nat /\ resets \in Nat /\ loginFaults \in Nat
      /\ failures + Cardinality(Trying) <= Window
      /\ wrong <= resets * Window + failures + Cardinality(Recording) + loginFaults
      /\ resets * Window \in Nat /\ (resets + 1) * Window = resets * Window + Window
      /\ maxAttempts \in Nat \ {0}
    BY <1>0, LoginCounts, OneWindowMore, LoginAssumption DEF LoginInv, LoginTypeOK, Window
<1>b. IsFiniteSet(LoginRequest)
    BY LoginAssumption
<1>c. Cardinality(Trying') \in Nat /\ Cardinality(Recording') \in Nat
      /\ Cardinality(Trying') <= Cardinality(LoginRequest)
    BY <1>0, <1>b, Counted DEF Trying, Recording
<1>1. ASSUME NEW l \in LoginRequest, CheckBlocked(l) PROVE LoginInv'
  <2>1. Recording' = Recording
      BY <1>1, <1>0, LoginMoves DEF CheckBlocked, LoginStop, Recording
  <2>2. failures < maxAttempts /\ UNCHANGED <<failures, wrong, resets, loginFaults>>
      BY <1>1, <1>a DEF CheckBlocked, IsBlocked
  <2>3. failures' + Cardinality(Trying') <= Window
      BY <2>2, <1>a, <1>c DEF Window
  <2>4. QED
      BY <2>1, <2>2, <2>3, <1>0, <1>a DEF LoginInv
<1>2. ASSUME NEW l \in LoginRequest, Verify(l) PROVE LoginInv'
  <2>0. l \in Trying /\ l \notin Recording /\ UNCHANGED <<failures, resets, loginFaults>>
      BY <1>2 DEF Verify, Trying, Recording
  <2>1. CASE wrong' = wrong + 1 /\ LoginTo(l, "record")
    <3>1. Trying' = Trying /\ Recording' = Recording \cup {l}
        BY <2>0, <2>1, <1>0, LoginMoves DEF LoginStop
    <3>2. Cardinality(Recording \cup {l}) = Cardinality(Recording) + 1
        BY <2>0, <1>a, <1>b, FS_Subset, FS_AddElement
    <3>3. QED
        BY <3>1, <3>2, <2>0, <2>1, <1>0, <1>a DEF LoginInv
  <2>2. ASSUME NEW stop \in {"clear", "start"}, LoginTo(l, stop), UNCHANGED wrong PROVE LoginInv'
    <3>1. Trying' = Trying \ {l} /\ Recording' = Recording
        BY <2>0, <2>2, <1>0, LoginMoves DEF LoginStop
    <3>2. Cardinality(Trying \ {l}) = Cardinality(Trying) - 1
        BY <2>0, <1>a, <1>b, CountedWithout
    <3>3. QED
        BY <3>1, <3>2, <2>0, <2>2, <1>0, <1>a DEF LoginInv
  <2>3. QED
      BY <1>2, <2>1, <2>2 DEF Verify
<1>3. ASSUME NEW l \in LoginRequest, RecordFailure(l) PROVE LoginInv'
  <2>0. l \in Trying /\ l \in Recording /\ UNCHANGED <<wrong, resets>>
      BY <1>3 DEF RecordFailure, Trying, Recording
  <2>1. Trying' = Trying \ {l} /\ Recording' = Recording \ {l}
      BY <1>3, <1>0, LoginMoves DEF RecordFailure, LoginStop
  <2>2. /\ Cardinality(Trying \ {l}) = Cardinality(Trying) - 1
        /\ Cardinality(Recording \ {l}) = Cardinality(Recording) - 1
      BY <2>0, <1>a, <1>b, CountedWithout
  <2>3. \/ failures' = failures + 1 /\ loginFaults' = loginFaults
        \/ failures' \in {failures, failures + 1} /\ loginFaults' = loginFaults + 1
      BY <1>3 DEF RecordFailure, LoginFault
  <2>4. QED
      BY <2>0, <2>1, <2>2, <2>3, <1>0, <1>a DEF LoginInv
<1>4. ASSUME NEW l \in LoginRequest, ClearFailures(l) PROVE LoginInv'
  <2>1. l \notin Trying /\ l \notin Recording
      BY <1>4 DEF ClearFailures, Trying, Recording
  <2>2. Trying' = Trying /\ Recording' = Recording
      BY <2>1, <1>4, <1>0, LoginMoves DEF ClearFailures, LoginStop
  <2>3. /\ resets' = resets + 1 /\ failures' = 0 /\ wrong' = wrong
        /\ loginFaults' \in {loginFaults, loginFaults + 1}
      BY <1>4 DEF ClearFailures, Reset, LoginFault
  <2>4. QED
      BY <2>2, <2>3, <1>0, <1>a DEF LoginInv
<1>5. ASSUME NEW l \in LoginRequest, UpdateLastLogin(l) PROVE LoginInv'
  <2>1. l \notin Trying /\ l \notin Recording /\ UNCHANGED <<failures, wrong, resets, loginFaults>>
      BY <1>5 DEF UpdateLastLogin, Trying, Recording
  <2>2. Trying' = Trying /\ Recording' = Recording
      BY <2>1, <1>5, <1>0, LoginMoves DEF UpdateLastLogin, LoginStop
  <2>3. QED
      BY <2>1, <2>2, <1>0, <1>a DEF LoginInv
<1>6. ASSUME NEW l \in LoginRequest, LoginBreaksOff(l) PROVE LoginInv'
  <2>1. Trying' = Trying \ {l} /\ Recording' = Recording \ {l}
      BY <1>6, <1>0, LoginMoves DEF LoginBreaksOff, LoginStop
  <2>2. UNCHANGED <<failures, wrong, resets>> /\ loginFaults' = loginFaults + 1
      BY <1>6 DEF LoginBreaksOff, LoginFault
  <2>3. Cardinality(Trying') <= Cardinality(Trying)
    <3>1. Trying' \in SUBSET Trying /\ IsFiniteSet(Trying)
        BY <2>1, <1>a, <1>b, FS_Subset
    <3>2. QED
        BY <3>1, Counted
  <2>4. Cardinality(Recording) <= Cardinality(Recording') + 1
    <3>1. CASE l \in Recording
        BY <3>1, <2>1, <1>a, <1>b, <1>c, CountedWithout
    <3>2. CASE l \notin Recording
      <4>1. Recording' = Recording
          BY <3>2, <2>1
      <4>2. QED
          BY <4>1, <1>a
    <3>3. QED
        BY <3>1, <3>2
  <2>5. QED
      BY <2>2, <2>3, <2>4, <1>0, <1>a, <1>c DEF LoginInv
<1>7. CASE FailuresExpire
  <2>1. Trying' = Trying /\ Recording' = Recording
      BY <1>7 DEF FailuresExpire, Trying, Recording
  <2>2. resets' = resets + 1 /\ failures' = 0 /\ UNCHANGED <<wrong, loginFaults>>
      BY <1>7 DEF FailuresExpire, Reset
  <2>3. QED
      BY <2>1, <2>2, <1>0, <1>a DEF LoginInv
<1>8. CASE UNCHANGED loginVars
    BY <1>8, <1>0, <1>a DEF loginVars, LoginInv, Trying, Recording
<1>9. QED
    BY <1>1, <1>2, <1>3, <1>4, <1>5, <1>6, <1>7, <1>8 DEF LoginNext, LoginStep

LEMMA LoginInvBounds == LoginInv => AttemptsBounded
<1> SUFFICES ASSUME LoginInv PROVE AttemptsBounded
    OBVIOUS
<1>1. /\ Window \in Nat /\ Cardinality(Trying) \in Nat /\ Cardinality(Recording) \in Nat
      /\ Cardinality(Recording) <= Cardinality(Trying)
    BY LoginCounts DEF LoginInv
<1>2. resets \in Nat /\ failures \in Nat /\ wrong \in Nat /\ loginFaults \in Nat
    BY LoginAssumption DEF LoginInv, LoginTypeOK
<1>3. (1 + resets) * Window = resets * Window + Window /\ resets * Window \in Nat
    BY <1>1, <1>2, OneWindowMore
<1>4. wrong <= (1 + resets) * Window + loginFaults
    BY <1>1, <1>2, <1>3 DEF LoginInv
<1>5. QED
    BY <1>4 DEF AttemptsBounded, Window

(* In every window fewer wrong passwords are verified than maxAttempts     *)
(* plus the number of logins that may overlap, and one more for every      *)
(* fault (LoginUser.execute, BruteForceProtector).                         *)
THEOREM AttemptsAreBounded == LoginSpec => [](LoginTypeOK /\ AttemptsBounded)
<1>1. LoginInv => LoginTypeOK /\ AttemptsBounded
    BY LoginInvBounds DEF LoginInv
<1>2. QED
    BY <1>1, LoginInitInv, LoginNextInv, PTL DEF LoginSpec

-----------------------------------------------------------------------------
(* RefreshTokens. *)

Holding(t) == {r \in RefreshRequest : held[r] = t}
CutOff == {t \in revoked \ loggedOut : Replacements(t) \cup Rotating(t) = {}}

(* CutOff: revoked, with no successor and none to come.                    *)
(*                                                                         *)
(* A token that is not revoked has been rotated only where an error of     *)
(* revoke was swallowed.  Once it is revoked nobody matches it any more:   *)
(* what replaces it then comes from the requests that hold it.             *)
TokenInv ==
    /\ TokenTypeOK
    /\ \A b \in Bearer : bearerAt[b] # "match" => held[b] \in 1 .. issued
    /\ \A b \in LogoutRequest : bearerAt[b] # "issue"
    /\ \A t \in Token :
          /\ t \notin revoked =>
                Cardinality(Replacements(t)) + Cardinality(Rotating(t)) <= tokenFaults
          /\ t \in revoked =>
                Cardinality(Replacements(t)) + Cardinality(Holding(t))
                   <= Cardinality(RefreshRequest) + tokenFaults
    /\ Cardinality(CutOff) <= tokenFaults

LEMMA TokenCounts ==
    ASSUME TokenTypeOK, NEW t \in Token
    PROVE  /\ IsFiniteSet(RefreshRequest) /\ IsFiniteSet(Token)
           /\ Replacements(t) \in SUBSET Token /\ CutOff \in SUBSET Token
           /\ Rotating(t) \in SUBSET RefreshRequest /\ Holding(t) \in SUBSET RefreshRequest
           /\ Rotating(t) \in SUBSET Holding(t)
           /\ Cardinality(Replacements(t)) \in Nat /\ Cardinality(CutOff) \in Nat
           /\ Cardinality(Rotating(t)) \in Nat /\ Cardinality(Holding(t)) \in Nat
           /\ Cardinality(RefreshRequest) \in Nat
           /\ Cardinality(Rotating(t)) <= Cardinality(Holding(t))
           /\ Cardinality(Holding(t)) <= Cardinality(RefreshRequest)
           /\ tokenFaults \in Nat /\ issued \in Nat
<1>1. IsFiniteSet(RefreshRequest) /\ IsFiniteSet(Token)
    BY TokenAssumption, FS_Interval DEF Token
<1>2. 1 .. issued \in SUBSET Token /\ issued \in Nat /\ tokenFaults \in Nat
    BY TokenAssumption DEF TokenTypeOK, Token
<1>3. Replacements(t) \in SUBSET Token /\ CutOff \in SUBSET Token
    BY <1>2 DEF Replacements, CutOff, TokenTypeOK
<1>4. /\ Rotating(t) \in SUBSET RefreshRequest /\ Holding(t) \in SUBSET RefreshRequest
      /\ Rotating(t) \in SUBSET Holding(t)
    BY DEF Rotating, Holding
<1>5. IsFiniteSet(Holding(t))
    BY <1>1, <1>4, FS_Subset
<1>6. QED
    BY <1>1, <1>2, <1>3, <1>4, <1>5, Counted

LEMMA CutOffFinite ==
    ASSUME TokenTypeOK
    PROVE  IsFiniteSet(CutOff)
<1>1. issued \in Nat /\ revoked \subseteq 1 .. issued
    BY TokenAssumption DEF TokenTypeOK
<1>2. CutOff \subseteq revoked
    BY DEF CutOff
<1>3. 1 \in Int /\ issued \in Int
    BY <1>1
<1>4. IsFiniteSet(1 .. issued)
    BY <1>3, FS_Interval
<1>5. QED
    BY <1>1, <1>2, <1>4, FS_Subset

LEMMA TokenInitInv == TokenInit => TokenInv
<1> SUFFICES ASSUME TokenInit PROVE TokenInv
    OBVIOUS
<1>1. TokenTypeOK
    BY TokenAssumption DEF TokenInit, TokenTypeOK, Token, Bearer
<1>2. /\ \A t \in Token : Replacements(t) = {} /\ Rotating(t) = {} /\ t \notin revoked
      /\ CutOff = {} /\ Cardinality({}) = 0
  <2>1. 1 .. issued = {} /\ revoked = {} /\ \A r \in RefreshRequest : bearerAt[r] = "match"
      BY DEF TokenInit, Bearer
  <2>2. \A t \in Token : Replacements(t) = {} /\ Rotating(t) = {}
      BY <2>1 DEF Replacements, Rotating
  <2>3. QED
      BY <2>1, <2>2, FS_EmptySet DEF CutOff
<1>3. /\ \A b \in Bearer : bearerAt[b] = "match"
      /\ LogoutRequest \subseteq Bearer
    BY DEF TokenInit, Bearer
<1>4. QED
    BY <1>1, <1>2, <1>3 DEF TokenInit, TokenInv

LEMMA NewTokenType ==
    ASSUME TokenTypeOK, NEW from \in 0 .. issued, NewToken(from)
    PROVE  /\ issued' = issued + 1 /\ issued' \in Token /\ issued \in 0 .. MaxTokens
           /\ issued' \in 0 .. MaxTokens
           /\ rotatedFrom' \in [Token -> 0 .. MaxTokens]
           /\ rotatedFrom' = [rotatedFrom EXCEPT ![issued'] = from]
           /\ revoked' \subseteq 1 .. issued' /\ expired' \subseteq 1 .. issued'
           /\ loggedOut' \subseteq 1 .. issued'
<1>1. issued' = issued + 1 /\ issued < MaxTokens /\ issued \in Nat /\ MaxTokens \in Nat
    BY TokenAssumption DEF NewToken, TokenTypeOK
<1>2. from \in 0 .. MaxTokens /\ issued' \in Token /\ 1 .. issued \subseteq 1 .. issued'
    BY <1>1 DEF Token
<1>3. QED
    BY <1>1, <1>2 DEF NewToken, TokenTypeOK

(* The types, with where a request holds a token. *)
LEMMA TokenTypeNext ==
    ASSUME TokenInv, [TokenNext]_tokenVars
    PROVE  /\ TokenTypeOK'
           /\ \A b \in Bearer : bearerAt'[b] # "match" => held'[b] \in 1 .. issued'
           /\ \A b \in LogoutRequest : bearerAt'[b] # "issue"
<1> DEFINE Typed == /\ TokenTypeOK
                    /\ \A b \in Bearer : bearerAt[b] # "match" => held[b] \in 1 .. issued
                    /\ \A b \in LogoutRequest : bearerAt[b] # "issue"
<1>0. Typed /\ LogoutRequest \subseteq Bearer
    BY DEF TokenInv, Bearer
<1>a. issued \in Nat /\ tokenFaults \in Nat /\ MaxTokenFaults \in Nat /\ MaxTokens \in Nat
    BY TokenAssumption DEF TokenInv, TokenTypeOK
<1>1. CASE LogIn
  <2>1. NewToken(0) /\ UNCHANGED <<bearerAt, held, tokenFaults>> /\ 0 \in 0 .. issued
      BY <1>1, <1>a DEF LogIn
  <2>2. 0 .. issued \subseteq 0 .. issued' /\ 1 .. issued \subseteq 1 .. issued'
      BY <2>1, <1>0, <1>a, NewTokenType
  <2>3. QED
      BY <2>1, <2>2, <1>0, NewTokenType DEF TokenTypeOK
<1>2. ASSUME NEW b \in Bearer, NEW t \in Token, MatchToken(b, t) PROVE Typed'
  <2>1. t \in 1 .. issued
      BY <1>2 DEF MatchToken, Newest, Valid
  <2>2. QED
      BY <2>1, <1>2, <1>0 DEF MatchToken, BearerTo, TokenTypeOK, tokens
<1>3. ASSUME NEW b \in Bearer, Revoke(b) PROVE Typed'
  <2>1. held[b] \in 1 .. issued
      BY <1>3, <1>0 DEF Revoke
  <2>2. /\ revoked' \subseteq 1 .. issued /\ loggedOut' \subseteq 1 .. issued
        /\ UNCHANGED <<issued, rotatedFrom, expired>>
      BY <2>1, <1>3, <1>0 DEF Revoke, TokenTypeOK
  <2>3. tokenFaults' \in 0 .. MaxTokenFaults
      BY <1>3, <1>0, <1>a DEF Revoke, TokenFault, TokenTypeOK
  <2>4. /\ bearerAt' \in [Bearer -> {"match", "revoke", "issue"}]
        /\ held' \in [Bearer -> 0 .. issued]
        /\ \A c \in Bearer : bearerAt'[c] # "match" => held'[c] \in 1 .. issued
        /\ \A c \in LogoutRequest : bearerAt'[c] # "issue"
    <3>1. CASE b \in LogoutRequest
        BY <3>1, <1>3, <1>0, <1>a DEF Revoke, EndBearer, BearerTo, TokenTypeOK
    <3>2. CASE b \notin LogoutRequest
        BY <3>2, <2>1, <1>3, <1>0, <1>a DEF Revoke, BearerTo, TokenTypeOK
    <3>3. QED
        BY <3>1, <3>2
  <2>5. QED
      BY <2>2, <2>3, <2>4, <1>0 DEF TokenTypeOK
<1>4. ASSUME NEW b \in Bearer, EndBearer(b), tokenFaults' \in 0 .. MaxTokenFaults,
             bearerAt[b] # "match", UNCHANGED tokens \/ NewToken(held[b])
      PROVE  Typed'
  <2>1. held[b] \in 1 .. issued /\ held[b] \in 0 .. issued
      BY <1>4, <1>0, <1>a
  <2>2. /\ issued' \in Nat /\ issued <= issued' /\ issued' \in 0 .. MaxTokens
        /\ rotatedFrom' \in [Token -> 0 .. MaxTokens]
        /\ revoked' \subseteq 1 .. issued' /\ expired' \subseteq 1 .. issued'
        /\ loggedOut' \subseteq 1 .. issued'
    <3>1. CASE UNCHANGED tokens
        BY <3>1, <1>0, <1>a DEF tokens, TokenTypeOK
    <3>2. CASE NewToken(held[b])
        BY <3>2, <2>1, <1>0, <1>a, NewTokenType
    <3>3. QED
        BY <3>1, <3>2, <1>4
  <2>3. 1 .. issued \subseteq 1 .. issued' /\ 0 .. issued \subseteq 0 .. issued' /\ 0 \in 0 .. issued'
      BY <2>2, <1>a
  <2>4. /\ bearerAt' \in [Bearer -> {"match", "revoke", "issue"}]
        /\ held' \in [Bearer -> 0 .. issued']
        /\ \A c \in Bearer : bearerAt'[c] # "match" => held'[c] \in 1 .. issued'
        /\ \A c \in LogoutRequest : bearerAt'[c] # "issue"
      BY <2>3, <1>4, <1>0 DEF EndBearer, BearerTo, TokenTypeOK
  <2>5. QED
      BY <2>2, <2>4, <1>4 DEF TokenTypeOK
<1>5. ASSUME NEW b \in Bearer, IssuePair(b) \/ BearerBreaksOff(b) PROVE Typed'
  <2>1. tokenFaults' \in 0 .. MaxTokenFaults
      BY <1>5, <1>0, <1>a DEF IssuePair, BearerBreaksOff, TokenFault, TokenTypeOK
  <2>2. EndBearer(b) /\ bearerAt[b] # "match" /\ (UNCHANGED tokens \/ NewToken(held[b]))
      BY <1>5 DEF IssuePair, BearerBreaksOff
  <2>3. QED
      BY <2>1, <2>2, <1>4
<1>6. ASSUME NEW t \in Token, TokenExpires(t) PROVE Typed'
    BY <1>6, <1>0 DEF TokenExpires, Valid, TokenTypeOK
<1>7. CASE UNCHANGED tokenVars
    BY <1>7, <1>0 DEF tokenVars, tokens, TokenTypeOK
<1>8. QED
    BY <1>1, <1>2, <1>3, <1>5, <1>6, <1>7 DEF TokenNext, BearerStep

LEMMA SameTokens ==
    ASSUME UNCHANGED <<issued, rotatedFrom>>, NEW t
    PROVE  Replacements(t)' = Replacements(t)
BY DEF Replacements

LEMMA AnotherToken ==
    ASSUME TokenTypeOK, NEW from \in 0 .. issued, NewToken(from), NEW t \in Token
    PROVE  /\ t # from => Replacements(t)' = Replacements(t)
           /\ t = from => Replacements(t)' = Replacements(t) \cup {issued'}
<1>1. /\ issued' = issued + 1 /\ issued \in Nat /\ issued' \in Token
      /\ rotatedFrom \in [Token -> 0 .. MaxTokens]
      /\ rotatedFrom' = [rotatedFrom EXCEPT ![issued'] = from]
    BY NewTokenType DEF TokenTypeOK
<1>2. 1 .. issued' = (1 .. issued) \cup {issued'} /\ issued' \notin 1 .. issued
    BY <1>1
<1>3. \A u \in 1 .. issued : u \in Token /\ u # issued'
    BY <1>1, <1>2, TokenAssumption DEF Token, TokenTypeOK
<1>4. QED
    BY <1>1, <1>2, <1>3 DEF Replacements

(* A request that ends gives its token up. *)
LEMMA EndOfBearer ==
    ASSUME TokenTypeOK, NEW b \in RefreshRequest, EndBearer(b), NEW t \in Token
    PROVE  /\ Rotating(t)' = Rotating(t) \ {b}
           /\ Holding(t)' = Holding(t) \ {b}
BY TokenAssumption DEF TokenTypeOK, EndBearer, BearerTo, Rotating, Holding, Bearer, Token

(* What an action leaves alone or only makes smaller keeps the counts. *)
LEMMA TokenFrame ==
    ASSUME TokenInv, TokenTypeOK',
           \A b \in Bearer : bearerAt'[b] # "match" => held'[b] \in 1 .. issued',
           \A b \in LogoutRequest : bearerAt'[b] # "issue",
           tokenFaults' >= tokenFaults, revoked' = revoked, loggedOut \subseteq loggedOut',
           \A t \in Token : /\ Replacements(t)' = Replacements(t)
                            /\ Rotating(t)' = Rotating(t)
                            /\ t \in revoked => Holding(t)' \subseteq Holding(t)
    PROVE  TokenInv'
<1>1. ASSUME NEW t \in Token
      PROVE  /\ t \notin revoked' =>
                   Cardinality(Replacements(t)') + Cardinality(Rotating(t)') <= tokenFaults'
             /\ t \in revoked' =>
                   Cardinality(Replacements(t)') + Cardinality(Holding(t)')
                      <= Cardinality(RefreshRequest) + tokenFaults'
  <2>1. TokenTypeOK /\ tokenFaults' \in Nat
      BY TokenAssumption DEF TokenInv, TokenTypeOK
  <2>2. IsFiniteSet(Holding(t))
      BY <2>1, TokenCounts, FS_Subset
  <2>3. t \in revoked => /\ Cardinality(Holding(t)') <= Cardinality(Holding(t))
                         /\ Cardinality(Holding(t)') \in Nat
      BY <2>2, Counted
  <2>4. QED
      BY <2>1, <2>3, TokenCounts DEF TokenInv
<1>2. Cardinality(CutOff') <= tokenFaults'
  <2>1. CutOff' \subseteq CutOff
    <3>1. revoked \subseteq Token
        BY TokenAssumption DEF TokenInv, TokenTypeOK, Token
    <3>2. QED
        BY <3>1 DEF CutOff
  <2>2. IsFiniteSet(CutOff) /\ tokenFaults \in Nat /\ tokenFaults' \in Nat
    <3>1. TokenTypeOK
        BY DEF TokenInv
    <3>2. IsFiniteSet(CutOff)
        BY <3>1, CutOffFinite
    <3>3. QED
        BY <3>1, <3>2, TokenAssumption DEF TokenTypeOK
  <2>3. Cardinality(CutOff') <= Cardinality(CutOff) /\ Cardinality(CutOff') \in Nat
        /\ Cardinality(CutOff) \in Nat
      BY <2>1, <2>2, Counted
  <2>4. QED
      BY <2>2, <2>3 DEF TokenInv
<1>3. QED
    BY <1>1, <1>2 DEF TokenInv

LEMMA RevokeInv ==
    ASSUME TokenInv, TokenTypeOK', NEW b \in Bearer, NEW h, h = held[b], Revoke(b),
           \A c \in Bearer : bearerAt'[c] # "match" => held'[c] \in 1 .. issued',
           \A c \in LogoutRequest : bearerAt'[c] # "issue"
    PROVE  TokenInv'
<1>1. /\ TokenTypeOK /\ h \in 1 .. issued /\ h \in Token /\ bearerAt[b] = "revoke"
      /\ UNCHANGED <<issued, rotatedFrom>>
      /\ tokenFaults \in Nat /\ tokenFaults' \in Nat
  <2>1. /\ TokenTypeOK /\ TokenTypeOK' /\ bearerAt[b] = "revoke"
        /\ UNCHANGED <<issued, rotatedFrom>>
      BY DEF TokenInv, Revoke
  <2>2. h \in 1 .. issued
      BY <2>1 DEF TokenInv
  <2>3. h \in Token /\ tokenFaults \in Nat /\ tokenFaults' \in Nat
      BY <2>1, <2>2, TokenAssumption DEF TokenTypeOK, Token
  <2>4. QED
      BY <2>1, <2>2, <2>3
<1>2. \/ revoked' = revoked \cup {h} /\ tokenFaults' = tokenFaults
      \/ revoked' \in {revoked, revoked \cup {h}} /\ tokenFaults' = tokenFaults + 1
    BY DEF Revoke, TokenFault
<1>3. \A t \in Token : Replacements(t)' = Replacements(t)
    BY <1>1, SameTokens
<1>4. \A t \in Token : t # h => Rotating(t)' = Rotating(t)
    BY <1>1, TokenAssumption DEF Revoke, BearerTo, EndBearer, Rotating, Bearer, TokenTypeOK
<1>5. \A t \in Token : Holding(t)' = Holding(t)
    BY <1>1, TokenAssumption DEF Revoke, BearerTo, EndBearer, Holding, Bearer, TokenTypeOK
<1>6. \/ b \notin LogoutRequest /\ Rotating(h)' = Rotating(h) \cup {b} /\ loggedOut' = loggedOut
      \/ b \in LogoutRequest /\ Rotating(h)' = Rotating(h) /\ loggedOut' = loggedOut \cup {h}
    BY <1>1, TokenAssumption DEF Revoke, BearerTo, EndBearer, Rotating, Bearer, TokenTypeOK
<1>7. Cardinality(Rotating(h)') <= Cardinality(Rotating(h)) + 1 /\ Cardinality(Rotating(h)') \in Nat
  <2>1. /\ IsFiniteSet(RefreshRequest) /\ Rotating(h) \in SUBSET RefreshRequest
        /\ Cardinality(Rotating(h)) \in Nat
      BY <1>1, TokenCounts
  <2>2. Rotating(h)' = Rotating(h) \/ Rotating(h)' = Rotating(h) \cup {b}
      BY <1>6
  <2>3. /\ Cardinality(Rotating(h) \cup {b}) \in Nat
        /\ Cardinality(Rotating(h) \cup {b}) <= Cardinality(Rotating(h)) + 1
      BY <2>1, CountedWith
  <2>4. QED
      BY <2>1, <2>2, <2>3
<1>8. ASSUME NEW t \in Token
      PROVE  /\ t \notin revoked' =>
                   Cardinality(Replacements(t)') + Cardinality(Rotating(t)') <= tokenFaults'
             /\ t \in revoked' =>
                   Cardinality(Replacements(t)') + Cardinality(Holding(t)')
                      <= Cardinality(RefreshRequest) + tokenFaults'
  <2>0. /\ Cardinality(Replacements(t)) \in Nat /\ Cardinality(Rotating(t)) \in Nat
        /\ Cardinality(Holding(t)) \in Nat /\ Cardinality(RefreshRequest) \in Nat
        /\ Cardinality(Rotating(t)) <= Cardinality(Holding(t))
        /\ Cardinality(Holding(t)) <= Cardinality(RefreshRequest)
        /\ t \notin revoked =>
              Cardinality(Replacements(t)) + Cardinality(Rotating(t)) <= tokenFaults
        /\ t \in revoked =>
              Cardinality(Replacements(t)) + Cardinality(Holding(t))
                 <= Cardinality(RefreshRequest) + tokenFaults
      BY <1>1, TokenCounts DEF TokenInv
  <2>1. CASE t = h
    <3>1. CASE t \in revoked'
      <4>1. \/ t \in revoked /\ tokenFaults <= tokenFaults'
            \/ t \notin revoked /\ tokenFaults <= tokenFaults'
          BY <1>1, <1>2
      <4>2. Cardinality(Replacements(t)) + Cardinality(Holding(t))
              <= Cardinality(RefreshRequest) + tokenFaults
          BY <2>0, <4>1, <1>1
      <4>3. Cardinality(Replacements(t)) + Cardinality(Holding(t))
              <= Cardinality(RefreshRequest) + tokenFaults'
          BY <2>0, <4>1, <4>2, <1>1
      <4>4. Replacements(t)' = Replacements(t) /\ Holding(t)' = Holding(t)
          BY <1>3, <1>5
      <4>5. QED
          BY <3>1, <4>3, <4>4
    <3>2. CASE t \notin revoked'
      <4>1. t \notin revoked /\ tokenFaults' = tokenFaults + 1
          BY <2>1, <3>2, <1>2
      <4>2. /\ Cardinality(Rotating(t)') <= Cardinality(Rotating(t)) + 1
            /\ Cardinality(Rotating(t)') \in Nat
          BY <2>1, <1>7
      <4>3. Cardinality(Replacements(t)) + Cardinality(Rotating(t)') <= tokenFaults'
          BY <2>0, <4>1, <4>2, <1>1
      <4>4. QED
          BY <1>3, <3>2, <4>3
    <3>3. QED
        BY <3>1, <3>2
  <2>2. CASE t # h
    <3>1. /\ Replacements(t)' = Replacements(t) /\ Rotating(t)' = Rotating(t)
          /\ Holding(t)' = Holding(t)
        BY <2>2, <1>3, <1>4, <1>5
    <3>2. (t \in revoked' <=> t \in revoked) /\ tokenFaults <= tokenFaults'
        BY <2>2, <1>1, <1>2
    <3>3. /\ t \notin revoked =>
                Cardinality(Replacements(t)) + Cardinality(Rotating(t)) <= tokenFaults'
          /\ t \in revoked =>
                Cardinality(Replacements(t)) + Cardinality(Holding(t))
                   <= Cardinality(RefreshRequest) + tokenFaults'
        BY <2>0, <3>2, <1>1
    <3>4. QED
        BY <3>1, <3>2, <3>3
  <2>3. QED
      BY <2>1, <2>2
<1>9. Cardinality(CutOff') <= tokenFaults'
  <2>1. CutOff' \subseteq CutOff
    <3>1. revoked \subseteq Token
        BY <1>1, TokenAssumption DEF TokenTypeOK, Token
    <3>2. QED
        BY <3>1, <1>1, <1>2, <1>3, <1>4, <1>6 DEF CutOff
  <2>2. IsFiniteSet(CutOff)
      BY <1>1, TokenCounts, FS_Subset
  <2>3. Cardinality(CutOff') <= Cardinality(CutOff) /\ Cardinality(CutOff') \in Nat
        /\ Cardinality(CutOff) \in Nat
      BY <2>1, <2>2, Counted
  <2>4. QED
      BY <2>3, <1>1, <1>2 DEF TokenInv
<1>10. QED
    BY <1>8, <1>9 DEF TokenInv

LEMMA IssueInv ==
    ASSUME TokenInv, TokenTypeOK', NEW b \in Bearer, NEW h, h = held[b],
           bearerAt[b] = "issue", NewToken(held[b]), EndBearer(b), tokenFaults' \in {tokenFaults, tokenFaults + 1},
           \A c \in Bearer : bearerAt'[c] # "match" => held'[c] \in 1 .. issued',
           \A c \in LogoutRequest : bearerAt'[c] # "issue"
    PROVE  TokenInv'
<1>1. /\ TokenTypeOK /\ h \in 0 .. issued /\ h \in Token
      /\ b \in RefreshRequest /\ revoked' = revoked /\ loggedOut' = loggedOut
      /\ tokenFaults \in Nat /\ tokenFaults' \in Nat
  <2>1. TokenTypeOK /\ h \in 1 .. issued /\ b \in RefreshRequest
      BY DEF TokenInv, Bearer
  <2>2. h \in 0 .. issued /\ h \in Token
      BY <2>1, TokenAssumption DEF TokenTypeOK, Token
  <2>3. tokenFaults \in Nat /\ tokenFaults' \in Nat
      BY <2>1, TokenAssumption DEF TokenTypeOK
  <2>4. revoked' = revoked /\ loggedOut' = loggedOut
      BY DEF NewToken
  <2>5. QED
      BY <2>1, <2>2, <2>3, <2>4
<1>2. /\ \A t \in Token : t # h => Replacements(t)' = Replacements(t)
      /\ Replacements(h)' = Replacements(h) \cup {issued'}
    BY <1>1, AnotherToken
<1>3. \A t \in Token : Rotating(t)' = Rotating(t) \ {b} /\ Holding(t)' = Holding(t) \ {b}
    BY <1>1, EndOfBearer
<1>4. b \in Rotating(h) /\ b \in Holding(h)
    BY <1>1 DEF Rotating, Holding
<1>5. \A t \in Token : t # h => Rotating(t)' = Rotating(t) /\ Holding(t)' = Holding(t)
    BY <1>3 DEF Rotating, Holding
<1>6. /\ Cardinality(Replacements(h)') <= Cardinality(Replacements(h)) + 1
      /\ Cardinality(Replacements(h)') \in Nat
      /\ Cardinality(Rotating(h)') = Cardinality(Rotating(h)) - 1
      /\ Cardinality(Holding(h)') = Cardinality(Holding(h)) - 1
    BY <1>1, <1>2, <1>3, <1>4, TokenCounts, CountedWith, CountedWithout
<1>7. ASSUME NEW t \in Token
      PROVE  /\ t \notin revoked' =>
                   Cardinality(Replacements(t)') + Cardinality(Rotating(t)') <= tokenFaults'
             /\ t \in revoked' =>
                   Cardinality(Replacements(t)') + Cardinality(Holding(t)')
                      <= Cardinality(RefreshRequest) + tokenFaults'
  <2>0. /\ Cardinality(Replacements(t)) \in Nat /\ Cardinality(Rotating(t)) \in Nat
        /\ Cardinality(Holding(t)) \in Nat /\ Cardinality(RefreshRequest) \in Nat
        /\ t \notin revoked =>
              Cardinality(Replacements(t)) + Cardinality(Rotating(t)) <= tokenFaults
        /\ t \in revoked =>
              Cardinality(Replacements(t)) + Cardinality(Holding(t))
                 <= Cardinality(RefreshRequest) + tokenFaults
      BY <1>1, TokenCounts DEF TokenInv
  <2>1. CASE t = h
      BY <2>0, <2>1, <1>1, <1>6
  <2>2. CASE t # h
    <3>1. /\ Replacements(t)' = Replacements(t) /\ Rotating(t)' = Rotating(t)
          /\ Holding(t)' = Holding(t)
        BY <2>2, <1>2, <1>5
    <3>2. /\ t \notin revoked =>
                Cardinality(Replacements(t)) + Cardinality(Rotating(t)) <= tokenFaults'
          /\ t \in revoked =>
                Cardinality(Replacements(t)) + Cardinality(Holding(t))
                   <= Cardinality(RefreshRequest) + tokenFaults'
        BY <2>0, <1>1
    <3>3. QED
        BY <3>1, <3>2, <1>1
  <2>3. QED
      BY <2>1, <2>2
<1>8. Cardinality(CutOff') <= tokenFaults'
  <2>1. CutOff' \subseteq CutOff
    <3>1. revoked \subseteq Token
        BY <1>1, TokenAssumption DEF TokenTypeOK, Token
    <3>2. QED
        BY <3>1, <1>1, <1>2, <1>5 DEF CutOff
  <2>2. IsFiniteSet(CutOff)
      BY <1>1, TokenCounts, FS_Subset
  <2>3. Cardinality(CutOff') <= Cardinality(CutOff) /\ Cardinality(CutOff') \in Nat
        /\ Cardinality(CutOff) \in Nat
      BY <2>1, <2>2, Counted
  <2>4. QED
      BY <2>3, <1>1 DEF TokenInv
<1>9. QED
    BY <1>7, <1>8 DEF TokenInv

LEMMA BreakOffInv ==
    ASSUME TokenInv, TokenTypeOK', NEW b \in Bearer, NEW h, h = held[b],
           bearerAt[b] # "match", UNCHANGED tokens, EndBearer(b), tokenFaults' = tokenFaults + 1,
           \A c \in Bearer : bearerAt'[c] # "match" => held'[c] \in 1 .. issued',
           \A c \in LogoutRequest : bearerAt'[c] # "issue"
    PROVE  TokenInv'
<1>1. /\ TokenTypeOK /\ h \in Token /\ UNCHANGED <<issued, rotatedFrom, revoked, loggedOut>>
      /\ tokenFaults \in Nat
    BY TokenAssumption DEF TokenInv, TokenTypeOK, tokens, Token
<1>2. \A t \in Token : Replacements(t)' = Replacements(t)
    BY <1>1, SameTokens
<1>3. \A t \in Token : /\ Rotating(t)' \subseteq Rotating(t) /\ Holding(t)' \subseteq Holding(t)
                       /\ t # h => Rotating(t)' = Rotating(t)
    BY <1>1, TokenAssumption
       DEF TokenTypeOK, EndBearer, BearerTo, Rotating, Holding, Bearer, Token
<1>4. ASSUME NEW t \in Token
      PROVE  /\ t \notin revoked' =>
                   Cardinality(Replacements(t)') + Cardinality(Rotating(t)') <= tokenFaults'
             /\ t \in revoked' =>
                   Cardinality(Replacements(t)') + Cardinality(Holding(t)')
                      <= Cardinality(RefreshRequest) + tokenFaults'
  <2>1. IsFiniteSet(Rotating(t)) /\ IsFiniteSet(Holding(t))
      BY <1>1, TokenCounts, FS_Subset
  <2>2. /\ Cardinality(Rotating(t)') <= Cardinality(Rotating(t))
        /\ Cardinality(Holding(t)') <= Cardinality(Holding(t))
        /\ Cardinality(Rotating(t)') \in Nat /\ Cardinality(Holding(t)') \in Nat
      BY <2>1, <1>3, Counted
  <2>3. QED
      BY <2>2, <1>1, <1>2, TokenCounts DEF TokenInv
<1>5. Cardinality(CutOff') <= tokenFaults'
  <2>1. CutOff' \subseteq CutOff \cup {h}
    <3>1. revoked \subseteq Token
        BY <1>1, TokenAssumption DEF TokenTypeOK, Token
    <3>2. QED
        BY <3>1, <1>1, <1>2, <1>3 DEF CutOff
  <2>2. IsFiniteSet(CutOff) /\ IsFiniteSet(CutOff \cup {h}) /\ Cardinality(CutOff) \in Nat
        /\ Cardinality(CutOff \cup {h}) <= Cardinality(CutOff) + 1
    <3>1. IsFiniteSet(CutOff) /\ Cardinality(CutOff) \in Nat
        BY <1>1, TokenCounts, FS_Subset
    <3>2. QED
        BY <3>1, FS_AddElement, CountedWith
  <2>3. Cardinality(CutOff') <= Cardinality(CutOff \cup {h}) /\ Cardinality(CutOff') \in Nat
        /\ Cardinality(CutOff \cup {h}) \in Nat
      BY <2>1, <2>2, Counted
  <2>4. QED
      BY <2>2, <2>3, <1>1 DEF TokenInv
<1>6. QED
    BY <1>4, <1>5 DEF TokenInv

LEMMA TokenNextInv == TokenInv /\ [TokenNext]_tokenVars => TokenInv'
<1> SUFFICES ASSUME TokenInv, [TokenNext]_tokenVars PROVE TokenInv'
    OBVIOUS
<1>0. /\ TokenTypeOK /\ TokenTypeOK'
      /\ \A b \in Bearer : bearerAt'[b] # "match" => held'[b] \in 1 .. issued'
      /\ \A b \in LogoutRequest : bearerAt'[b] # "issue"
      /\ tokenFaults \in Nat
    BY TokenTypeNext, TokenAssumption DEF TokenInv, TokenTypeOK
<1>1. CASE LogIn
  <2>1. \A t \in Token : Replacements(t)' = Replacements(t)
    <3>1. NewToken(0) /\ 0 \in 0 .. issued /\ 0 \notin Token
        BY <1>1, <1>0 DEF LogIn, TokenTypeOK, Token
    <3>2. QED
        BY <3>1, <1>0, AnotherToken
  <2>2. /\ UNCHANGED <<bearerAt, held, tokenFaults, revoked, loggedOut>>
        /\ \A t \in Token : Rotating(t)' = Rotating(t) /\ Holding(t)' = Holding(t)
      BY <1>1 DEF LogIn, NewToken, Rotating, Holding
  <2>3. QED
      BY <2>1, <2>2, <1>0, TokenFrame
<1>2. ASSUME NEW b \in Bearer, NEW t \in Token, MatchToken(b, t) PROVE TokenInv'
  <2>1. /\ UNCHANGED <<issued, rotatedFrom, revoked, loggedOut, tokenFaults>>
        /\ t \notin revoked /\ bearerAt[b] = "match"
      BY <1>2 DEF MatchToken, tokens, Newest, Valid
  <2>2. \A u \in Token : Replacements(u)' = Replacements(u)
      BY <2>1, SameTokens
  <2>3. \A u \in Token : Rotating(u)' = Rotating(u)
      BY <2>1, <1>2, <1>0 DEF MatchToken, BearerTo, Rotating, Bearer, TokenTypeOK
  <2>4. \A u \in Token : u # t => Holding(u)' \subseteq Holding(u)
      BY <2>1, <1>2, <1>0 DEF MatchToken, Holding, Bearer, TokenTypeOK
  <2>5. QED
      BY <2>1, <2>2, <2>3, <2>4, <1>0, TokenFrame
<1>3. ASSUME NEW b \in Bearer, Revoke(b) PROVE TokenInv'
    BY <1>3, <1>0, RevokeInv
<1>4. ASSUME NEW b \in Bearer, IssuePair(b) PROVE TokenInv'
    BY <1>4, <1>0, IssueInv DEF IssuePair
<1>5. ASSUME NEW b \in Bearer, BearerBreaksOff(b) PROVE TokenInv'
  <2>1. EndBearer(b) /\ bearerAt[b] # "match" /\ tokenFaults' = tokenFaults + 1
      BY <1>5 DEF BearerBreaksOff, TokenFault
  <2>2. UNCHANGED tokens \/ (bearerAt[b] = "issue" /\ NewToken(held[b]))
      BY <1>5 DEF BearerBreaksOff
  <2>3. QED
      BY <2>1, <2>2, <1>0, IssueInv, BreakOffInv
<1>6. CASE \/ UNCHANGED tokenVars
           \/ \E t \in Token : TokenExpires(t)
  <2>1. UNCHANGED <<issued, rotatedFrom, revoked, loggedOut, bearerAt, held, tokenFaults>>
      BY <1>6 DEF TokenExpires, tokenVars, tokens
  <2>2. \A t \in Token : /\ Replacements(t)' = Replacements(t)
                         /\ Rotating(t)' = Rotating(t) /\ Holding(t)' = Holding(t)
      BY <2>1 DEF Replacements, Rotating, Holding
  <2>3. QED
      BY <2>1, <2>2, <1>0, TokenFrame
<1>7. QED
    BY <1>1, <1>2, <1>3, <1>4, <1>5, <1>6 DEF TokenNext, BearerStep

(* A finite set of integers that is not empty has a largest element: the   *)
(* one with which the set of those not below it is smallest.               *)
LEMMA Largest ==
    ASSUME NEW S, S \subseteq Int, IsFiniteSet(S), S # {}
    PROVE  \E t \in S : \A u \in S : u <= t
<1> DEFINE Above(t) == {u \in S : u >= t}
           Uppers == {Above(t) : t \in S}
<1>1. IsWellFoundedOn(StrictSubsetOrdering(S), FiniteSubsetsOf(S))
    BY FS_StrictSubsetOrderingWellFounded
<1>2. Uppers \subseteq FiniteSubsetsOf(S) /\ Uppers # {}
  <2>1. \A t \in S : Above(t) \in SUBSET S /\ IsFiniteSet(Above(t))
      BY FS_Subset
  <2>2. QED
      BY <2>1 DEF FiniteSubsetsOf
<1>3. PICK U \in Uppers : \A V \in Uppers : <<V, U>> \notin StrictSubsetOrdering(S)
  <2> HIDE DEF Uppers
  <2>1. QED
      BY <1>1, <1>2, WFMin
<1>4. PICK t \in S : U = Above(t)
    BY <1>3
<1>5. ASSUME NEW u \in S, ~(u <= t) PROVE FALSE
  <2>0. u \in Int /\ t \in Int /\ u > t /\ ~(t >= u) /\ \A v \in S : v \in Int
      BY <1>5
  <2>1. t \in Above(t) /\ t \notin Above(u)
      BY <2>0
  <2>2. ASSUME NEW v \in S, v >= u PROVE v >= t
      BY <2>0, <2>2
  <2>3. Above(u) \subseteq Above(t)
      BY <2>2
  <2>4. Above(u) \in SUBSET S /\ Above(t) \in SUBSET S /\ Above(u) # Above(t)
      BY <2>1
  <2>5. <<Above(u), U>> \in StrictSubsetOrdering(S)
    <3> HIDE DEF Above
    <3>1. QED
        BY <2>3, <2>4, <1>4 DEF StrictSubsetOrdering
  <2>6. QED
      BY <2>5, <1>3
<1>6. QED
    BY <1>5

(* The valid tokens that are not among the newest `limit` are those beyond *)
(* that number.                                                            *)
LEMMA CrowdedOut ==
    ASSUME TokenTypeOK
    PROVE  /\ IsFiniteSet(Valid \ Newest) /\ Cardinality(Valid \ Newest) \in Nat
           /\ Cardinality(Valid) \in Nat
           /\ \/ Cardinality(Valid \ Newest) = 0
              \/ Cardinality(Valid \ Newest) <= Cardinality(Valid) - limit
<1> DEFINE Crowded == Valid \ Newest
<1>1. /\ Valid \subseteq Int /\ IsFiniteSet(Valid) /\ Cardinality(Valid) \in Nat
      /\ limit \in Nat
  <2>1. issued \in Int /\ 1 \in Int /\ limit \in Nat
      BY TokenAssumption DEF TokenTypeOK
  <2>2. IsFiniteSet(1 .. issued) /\ Valid \subseteq 1 .. issued /\ 1 .. issued \subseteq Int
      BY <2>1, FS_Interval DEF Valid
  <2>3. IsFiniteSet(Valid)
      BY <2>2, FS_Subset
  <2>4. QED
      BY <2>1, <2>2, <2>3, FS_CardinalityType
<1>2. IsFiniteSet(Crowded) /\ Cardinality(Crowded) \in Nat
    BY <1>1, FS_Subset, FS_CardinalityType
<1>3. CASE Crowded = {}
    BY <1>3, <1>1, <1>2, FS_EmptySet
<1>4. CASE Crowded # {}
  <2>1. PICK t \in Crowded : \A u \in Crowded : u <= t
    <3>1. Crowded \subseteq Int
        BY <1>1
    <3>2. QED
        BY <3>1, <1>2, <1>4, Largest
  <2> DEFINE Newer == {u \in Valid : u > t}
  <2>2. IsFiniteSet(Newer) /\ Cardinality(Newer) \in Nat /\ Cardinality(Newer) >= limit
    <3>1. IsFiniteSet(Newer) /\ Cardinality(Newer) \in Nat
        BY <1>1, FS_Subset, FS_CardinalityType
    <3>2. ~(Cardinality(Newer) < limit)
        BY <2>1 DEF Newest
    <3>3. QED
        BY <3>1, <3>2, <1>1
  <2>3. Newer \cap Crowded = {} /\ Newer \cup Crowded \subseteq Valid
    <3>1. \A u \in Newer : u \in Int /\ t \in Int /\ u > t /\ ~(u <= t)
        BY <1>1
    <3>2. \A u \in Newer : u \notin Crowded
      <4> HIDE DEF Newer, Crowded
      <4>1. QED
          BY <3>1, <2>1
    <3>3. Newer \subseteq Valid /\ Crowded \subseteq Valid
        OBVIOUS
    <3> HIDE DEF Newer, Crowded
    <3>4. QED
        BY <3>2, <3>3
  <2>4. Cardinality(Newer \cup Crowded) = Cardinality(Newer) + Cardinality(Crowded)
    <3>1. Cardinality(Newer \cap Crowded) = 0
        BY <2>3, FS_EmptySet
    <3> HIDE DEF Newer, Crowded
    <3>2. Cardinality(Newer \cup Crowded)
             = Cardinality(Newer) + Cardinality(Crowded) - Cardinality(Newer \cap Crowded)
        BY <1>2, <2>2, FS_Union
    <3>3. QED
        BY <3>1, <3>2, <1>2, <2>2
  <2>5. Cardinality(Newer \cup Crowded) <= Cardinality(Valid)
    <3> HIDE DEF Newer, Crowded
    <3>1. QED
        BY <2>3, <1>1, FS_Subset
  <2>6. QED
      BY <1>1, <1>2, <2>2, <2>4, <2>5
<1>5. QED
    BY <1>3, <1>4

LEMMA TokenInvBounds == TokenInv => RotationBounded
<1> SUFFICES ASSUME TokenInv PROVE RotationBounded
    OBVIOUS
<1>1. TokenTypeOK /\ tokenFaults \in Nat /\ limit \in Nat
    BY TokenAssumption DEF TokenInv, TokenTypeOK
<1>2. ASSUME NEW t \in Token
      PROVE  Cardinality(Replacements(t)) <= Cardinality(RefreshRequest) + tokenFaults
    BY <1>1, TokenCounts DEF TokenInv
<1>3. Ended \subseteq CutOff \cup (Valid \ Newest)
    BY DEF Ended, CutOff
<1>4. /\ IsFiniteSet(CutOff) /\ Cardinality(CutOff) \in Nat
      /\ Cardinality(CutOff) <= tokenFaults
    BY <1>1, CutOffFinite, FS_CardinalityType DEF TokenInv
<1>5. /\ Cardinality(Ended) \in Nat
      /\ Cardinality(Ended) <= Cardinality(CutOff) + Cardinality(Valid \ Newest)
  <2> DEFINE Out == Valid \ Newest
  <2>0. IsFiniteSet(Out) /\ Cardinality(Out) \in Nat /\ Ended \subseteq CutOff \cup Out
      BY <1>1, <1>3, CrowdedOut
  <2> HIDE DEF Out
  <2>1. /\ IsFiniteSet(CutOff \cup Out)
        /\ Cardinality(CutOff \cup Out)
              = Cardinality(CutOff) + Cardinality(Out) - Cardinality(CutOff \cap Out)
      BY <1>4, <2>0, FS_Union
  <2>2. Cardinality(CutOff \cap Out) \in Nat
      BY <1>4, FS_Intersection, FS_CardinalityType
  <2>3. /\ Cardinality(Ended) <= Cardinality(CutOff \cup Out)
        /\ Cardinality(Ended) \in Nat
      BY <2>0, <2>1, FS_Subset, FS_CardinalityType
  <2>4. Cardinality(Ended) <= Cardinality(CutOff) + Cardinality(Out)
      BY <2>0, <2>1, <2>2, <2>3, <1>4
  <2>5. QED
      BY <2>3, <2>4 DEF Out
<1>6. \/ Cardinality(Ended) <= tokenFaults
      \/ Cardinality(Ended) <= tokenFaults + Cardinality(Valid) - limit
  <2>1. /\ Cardinality(Valid \ Newest) \in Nat /\ Cardinality(Valid) \in Nat
        /\ \/ Cardinality(Valid \ Newest) = 0
           \/ Cardinality(Valid \ Newest) <= Cardinality(Valid) - limit
      BY <1>1, CrowdedOut
  <2>2. QED
      BY <2>1, <1>1, <1>4, <1>5
<1>7. QED
    BY <1>2, <1>6 DEF RotationBounded

(* A refresh token has at most as many replacements as refreshes can       *)
(* overlap, and one more for every fault; and the sessions that end with   *)
(* neither a logout nor expiry are at most the faults and the valid tokens *)
(* beyond the newest `limit` (RefreshTokens.execute, findActiveTokens,     *)
(* LogoutUser.execute, PrismaRefreshTokenRepository).                      *)
THEOREM RotationIsBounded == TokenSpec => [](TokenTypeOK /\ RotationBounded)
<1>1. TokenInv => TokenTypeOK /\ RotationBounded
    BY TokenInvBounds DEF TokenInv
<1>2. QED
    BY <1>1, TokenInitInv, TokenNextInv, PTL DEF TokenSpec
=============================================================================
