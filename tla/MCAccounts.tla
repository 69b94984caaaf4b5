------------------------------- MODULE MCAccounts -------------------------------
\* Accounts with bounds for TLC.  Users and requests are interchangeable, but the
\* temporal property is checked without symmetry.
EXTENDS Accounts
===============================================================================
