------------------------------ MODULE MCPeople ------------------------------
(***************************************************************************)
(* The players of a server and the accounts of the dashboard for TLC.      *)
(* What holds while each changes alone holds while both do, so a behaviour *)
(* picks one.  One player, who may have played before.                     *)
(***************************************************************************)
EXTENDS People

CONSTANT Before   \* the row of a player who played before

VARIABLE part

PeopleInit ==
    /\ part \in {"players", "accounts"} /\ Init /\ A!Init
    /\ \A p \in Players : rowOf[<<p, "id">>] \in
                          IF part = "players" THEN {None, Before} ELSE {None}

accountVars == <<accounts, password, orgs, role, keys, provider, session, request,
                 raced, revived, crossed, requests, restarts>>
all  == <<part, vars, accountVars>>
Keep == part = "players" /\ UNCHANGED <<part, accountVars>>
InPlayers  == Keep /\ Next
InAccounts == part = "accounts" /\ A!Next /\ UNCHANGED <<part, vars>>

\* The fairness of Players!FairSpec, while the behaviour is about players.
PeopleSpec ==
    /\ PeopleInit /\ [][InPlayers \/ InAccounts]_all
    /\ WF_all(Keep /\ TakeList) /\ WF_all(Keep /\ Report) /\ WF_all(Keep /\ Upload)
    /\ WF_all(Keep /\ Answer) /\ WF_all(Keep /\ Step("log")) /\ WF_all(Keep /\ Step("list"))
=============================================================================
