------------------------------ MODULE MCEdges ------------------------------
(* Small instances of eight machines at the edges of the three cores: what *)
(* a request passes before it changes anything (idempotency keys, the read *)
(* cache, promotions, the counter of failed logins, refresh tokens, the    *)
(* members of an organization) and what carries its events afterwards (the *)
(* outbox, a consumer group of the event bus).  They share no state: a     *)
(* behaviour is about one of them, the others rest where they start.       *)
EXTENDS Outbox, EventBus, BookingCache, IdempotencyStore, RedeemPromotion,
        LoginUser, RefreshTokens, Ownership

CONSTANTS p1, p2

VARIABLE focus
edgesVars == <<outboxVars, busVars, cacheVars, idempotencyVars, redeemVars,
               loginVars, tokenVars, ownershipVars, focus>>

EdgesInit ==
    /\ OutboxInit /\ EventBusInit /\ BookingCacheInit /\ IdempotencyInit
    /\ RedeemInit /\ LoginInit /\ TokenInit /\ OwnershipInit
    /\ focus \in {"outbox", "bus", "cache", "idempotency", "promotion", "login", "tokens",
                 "ownership"}
    /\ focus # "promotion" => maxUses = 1

EdgesNext ==
    \/ focus = "outbox" /\ OutboxNext
       /\ UNCHANGED <<busVars, cacheVars, idempotencyVars, redeemVars, loginVars, tokenVars, ownershipVars, focus>>
    \/ focus = "bus" /\ EventBusNext
       /\ UNCHANGED <<outboxVars, cacheVars, idempotencyVars, redeemVars, loginVars, tokenVars, ownershipVars, focus>>
    \/ focus = "cache" /\ BookingCacheNext
       /\ UNCHANGED <<outboxVars, busVars, idempotencyVars, redeemVars, loginVars, tokenVars, ownershipVars, focus>>
    \/ focus = "idempotency" /\ IdempotencyNext
       /\ UNCHANGED <<outboxVars, busVars, cacheVars, redeemVars, loginVars, tokenVars, ownershipVars, focus>>
    \/ focus = "promotion" /\ RedeemNext
       /\ UNCHANGED <<outboxVars, busVars, cacheVars, idempotencyVars, loginVars, tokenVars, ownershipVars, focus>>
    \/ focus = "login" /\ LoginNext
       /\ UNCHANGED <<outboxVars, busVars, cacheVars, idempotencyVars, redeemVars, tokenVars, ownershipVars, focus>>
    \/ focus = "tokens" /\ TokenNext
       /\ UNCHANGED <<outboxVars, busVars, cacheVars, idempotencyVars, redeemVars, loginVars,
                      ownershipVars, focus>>
    \/ focus = "ownership" /\ OwnershipNext
       /\ UNCHANGED <<outboxVars, busVars, cacheVars, idempotencyVars, redeemVars, loginVars,
                      tokenVars, focus>>

(* The fairness of OutboxSpec and BookingCacheSpec. *)
EdgesFairness ==
    /\ \A w \in Worker : WF_outboxVars(focus = "outbox" /\ OutboxStep(w))
    /\ \A i \in Record : WF_outboxVars(focus = "outbox" /\ BackedOff(i))
    /\ \A r \in Reader : WF_cacheVars(focus = "cache" /\ (Load(r) \/ SetEntry(r)))
    /\ \A c \in Changer : WF_cacheVars(focus = "cache" /\ Invalidate(c))
    /\ WF_cacheVars(focus = "cache" /\ EntryExpires)

EdgesSpec == EdgesInit /\ [][EdgesNext]_edgesVars /\ EdgesFairness
=============================================================================
