----------------------------- MODULE MCPayment ----------------------------
(* Small instances of PaymentService: a payment of three cents that is     *)
(* there, some to be initiated, requests that share idempotency keys.      *)
EXTENDS PaymentService, TLC

CONSTANTS p0, p1, p2, p3, b, k0, k1, k2

MCBookingOf == [p \in Payment |-> b]
MCAmount == 3

J(op, p, amount, k) == [op |-> op, pay |-> p, amount |-> amount, key |-> k]

Confirm == J("confirm", p0, 0, None)
Cancel == J("cancel", p0, 0, None)
Hook(type) == J(type, p0, 0, k2)

(* What is asked of the payment that is there: refunds, one of them with a *)
(* key, of less and of more than its amount, the two other operations, and *)
(* webhooks ("voided" does what "failed" does).                            *)
OnP0 == << J("refund", p0, 2, k0), J("refund", p0, 1, None), J("refund", p0, 4, None),
           Confirm, Cancel, Hook("authorized"), Hook("captured"), Hook("failed") >>

(* Every event of the gateway has an id of its own, here the one k2. *)
OneEvent(w) == \A q, r \in Request : w[q].key = k2 /\ w[r].key = k2 => w[q] = w[r]

(* Requests differ in nothing but their jobs, so each choice of jobs is    *)
(* taken in one order; and an initiation shares neither rows nor keys with *)
(* a request on another payment, so the two are not mixed.                 *)
Ascending == {f \in [Request -> DOMAIN OnP0] : \A q, r \in Request : q < r => f[q] <= f[r]}
MCCore ==
    {w \in {[r \in Request |-> OnP0[f[r]]] : f \in Ascending} : OneEvent(w)}
    \cup {[r \in Request |-> J("initiate", <<p1, p2, p3>>[r], 0, k1)]}

Start(s) == [p \in Payment |-> IF p = p0 THEN s ELSE "none"]
Pending == {Start("PENDING")}
Collected == {Start("SUCCESS")}
Either == Pending \cup Collected

MCRetries == [Request -> {J("refund", p0, 1, k0)}]
MCCancel == [Request -> {Confirm, Cancel}]
=============================================================================
