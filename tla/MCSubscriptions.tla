---------------------------- MODULE MCSubscriptions ----------------------------
\* Subscriptions over small sets, and interchangeable processes and Stripe ids.
EXTENDS Subscriptions, TLC

Symmetry == Permutations(Procs) \cup Permutations(StripeIds)
===============================================================================
