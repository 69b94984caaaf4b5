----------------------------- MODULE MCInvitations -----------------------------
\* Invitations with bounds for TLC.
EXTENDS Invitations
===============================================================================
