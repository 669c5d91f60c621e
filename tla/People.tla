------------------------------- MODULE People -------------------------------
(***************************************************************************)
(* The people the control plane knows: the players of a server and the     *)
(* accounts of the dashboard.  They share no variable.                     *)
(***************************************************************************)
EXTENDS Players

CONSTANTS Users, Orgs, Default, Seeded, Requests, MaxRequests, MaxRestarts

VARIABLES accounts, password, orgs, role, keys, provider, session, request,
          raced, revived, crossed, requests, restarts

A == INSTANCE Accounts

ASSUME PeopleAssumption == PlayersAssumption /\ A!AccountsAssumption

\* An organisation keeps an administrator (Accounts).
AdministratorRemains == A!AdministratorRemains
\* Only a first account becomes administrator by registering (Accounts).
OneFirstAdministrator == A!OneFirstAdministrator
\* A removed account has no password (Accounts).
RemovedCannotSignIn == A!RemovedCannotSignIn
\* The Kimi editor is selected only with its key stored (Accounts).
KimiHasItsKey == A!KimiHasItsKey
=============================================================================
