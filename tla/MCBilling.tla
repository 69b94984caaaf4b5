------------------------------- MODULE MCBilling -------------------------------
\* Billing with one Stripe subscription and an event of each type about it.
EXTENDS Billing, TLC

CONSTANTS s1, checkout, paid, failed, deleted

MCSubject == [e \in Events |-> s1]
MCKind == checkout :> "checkout" @@ paid :> "paid" @@ failed :> "failed" @@ deleted :> "deleted"

Symmetry == Permutations(Deliveries)
===============================================================================
