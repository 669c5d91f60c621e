------------------------------ MODULE Accounts ------------------------------
(***************************************************************************)
(* Accounts, organisations and roles, and the keys of the mod editor.      *)
(*                                                                         *)
(* A request passes the guards, which read the role of the caller; the     *)
(* service then reads what its decision rests on and, a few awaits later,  *)
(* writes.  Requests overlap.  The seed script runs at every start of the  *)
(* control plane.  Roles below administrator behave alike here: "member"   *)
(* stands for operator and viewer, and "set" for any password hash.        *)
(***************************************************************************)
EXTENDS Integers

CONSTANTS
    Users,          \* e-mail addresses
    Orgs, Default,  \* slugs, and the one of the default organisation
    Seeded,         \* the user of the seed script
    Requests,       \* requests that may be in progress at once
    None,
    MaxRequests, MaxRestarts   \* bounds

AccountsAssumption ==
    /\ Default \in Orgs /\ Seeded \in Users /\ None \notin Users \cup Orgs \cup Requests
    /\ None \notin {"admin", "member", "set"}
    /\ MaxRequests \in Nat /\ MaxRestarts \in Nat

VARIABLES
    accounts,   \* rows of User
    password,   \* their password hash, None without one
    orgs,       \* rows of Org
    role,       \* rows of UserOrg
    keys,       \* the encrypted keys of an organisation
    provider,   \* and the mod editor it selected
    session,    \* the organisation in the token a browser holds
    request,    \* requests in progress
    raced,      \* organisations whose deletions overlapped
    revived,    \* users written to while they were being deleted
    crossed,    \* organisations that selected an editor while a key was cleared
    requests, restarts

rows == <<accounts, password, orgs, role>>
tools == <<keys, provider>>
marks == <<raced, revived, crossed>>
vars == <<accounts, password, orgs, role, keys, provider, session, request,
          raced, revived, crossed, requests, restarts>>

Editors == {"codex", "kimi"}
Guarded == {"createAccount", "deleteAccount", "resetPassword", "selectProvider", "saveKey", "clearKey"}

Admins(o)  == {u \in Users : role[<<u, o>>] = "admin"}
Members(o) == {u \in Users : role[<<u, o>>] # None}
OrgsOf(u)  == {o \in Orgs : role[<<u, o>>] # None}

\* The writes a request has overlapped, to its user or its organisation.
Saw(q, op, u, o) == <<op, u, o>> \in q.seen
SawUser(q, ops)  == \E op \in ops, o \in Orgs : Saw(q, op, q.user, o)
SawOrg(q, op)    == \E u \in Users : Saw(q, op, u, q.org)
Ends(r) == request' = [request EXCEPT ![r] = None]
\* r is over; the others have overlapped its write.
Wrote(r) ==
    request' = [q \in Requests |->
        IF q = r THEN None
        ELSE IF request[q] # None /\ (\/ request[q].user = request[r].user
                                      \/ request[q].org = request[r].org)
             THEN [request[q] EXCEPT !.seen =
                     @ \cup {<<request[r].op, request[r].user, request[r].org>>}]
             ELSE request[q]]

\* The seed makes its user an administrator of the default organisation, and
\* gives it a password only together with its row.
Seed ==
    /\ accounts' = accounts \cup {Seeded} /\ orgs' = orgs \cup {Default}
    /\ password' = IF Seeded \in accounts THEN password ELSE [password EXCEPT ![Seeded] = "set"]
    /\ role' = IF role[<<Seeded, Default>>] = None
               THEN [role EXCEPT ![<<Seeded, Default>>] = "admin"] ELSE role

Init ==
    /\ accounts = {} /\ orgs = {}
    /\ password = [u \in Users |-> None]
    /\ role = [m \in Users \X Orgs |-> None]
    /\ keys = [o \in Orgs |-> {}] /\ provider = [o \in Orgs |-> "codex"]
    /\ session = [u \in Users |-> None]
    /\ request = [r \in Requests |-> None]
    /\ raced = {} /\ revived = {} /\ crossed = {}
    /\ requests = 0 /\ restarts = 0

-----------------------------------------------------------------------------
(* Arrival: the guards.                                                    *)

Arrives(r, op, by, user, org, editor) ==
    /\ requests < MaxRequests /\ requests' = requests + 1
    /\ request[r] = None
    /\ request' = [request EXCEPT ![r] =
         [op |-> op, by |-> by, user |-> user, org |-> org, editor |-> editor,
          read |-> FALSE, only |-> FALSE, first |-> FALSE, seen |-> {}]]
    /\ UNCHANGED <<rows, tools, session, marks, restarts>>

\* JwtAuthGuard looks at the token only; the other guards at the role.
SignedIn(u) == session[u] # None
May(by, org)    == role[<<by, org>>] = "admin"

Manage(r, op, by, user, org) ==
    /\ op \in {"createAccount", "deleteAccount", "resetPassword"}
    /\ SignedIn(by) /\ May(by, org) /\ user # by
    /\ Arrives(r, op, by, user, org, "codex")
Configure(r, op, by, org, editor) ==
    /\ op \in {"selectProvider", "saveKey", "clearKey"}
    /\ SignedIn(by) /\ May(by, org)
    /\ Arrives(r, op, by, by, org, editor)
\* A token is enough to found an organisation or to change one's password.
Own(r, op, by, org) ==
    /\ SignedIn(by)
    /\ op = "createOrg" \/ (op = "changePassword" /\ org = Default)
    /\ Arrives(r, op, by, by, org, "codex")
SignUp(r, user, org) ==
    /\ org \in orgs \cup {Default}
    /\ Arrives(r, "register", user, user, org, "codex")

Login(u) ==
    /\ password[u] # None /\ ~SignedIn(u)
    /\ \E o \in (IF OrgsOf(u) # {} THEN OrgsOf(u) ELSE orgs) : session' = [session EXCEPT ![u] = o]
    /\ UNCHANGED <<rows, tools, request, marks, requests, restarts>>
SignOut(u) ==
    /\ SignedIn(u) /\ session' = [session EXCEPT ![u] = None]
    /\ UNCHANGED <<rows, tools, request, marks, requests, restarts>>

-----------------------------------------------------------------------------
(* What the services read.                                                 *)

Deletable(u, o) ==
    /\ role[<<u, o>>] # None
    /\ role[<<u, o>>] = "admin" => \E v, w \in Admins(o) : v # w
Resettable(by, u, o) == role[<<by, o>>] = "admin" /\ role[<<u, o>>] = "member"

Accepted(q) ==
    CASE q.op \in {"createAccount", "register"} -> q.user \notin accounts
      [] q.op = "deleteAccount"  -> Deletable(q.user, q.org)
      [] q.op = "resetPassword"  -> Resettable(q.by, q.user, q.org)
      [] q.op = "changePassword" -> password[q.user] # None
      [] q.op = "createOrg"      -> q.org \notin orgs
      [] q.op = "selectProvider" -> q.editor \in keys[q.org]
      [] OTHER                   -> TRUE

OnlyAfter(u, o)  == OrgsOf(u) \ {o} = {o}
Only(u, o)       == \E x \in Orgs : OrgsOf(u) = {x}
FirstAfter(u, o) == Members(o) \cup {u} = {}
FirstOfOwn(u, o) == OrgsOf(u) = {}
First(u, o)      == Members(o) = {}

WithDefault(q) == IF q.op = "register" /\ orgs = {} THEN {Default} ELSE orgs

Read(r) ==
    LET q == request[r]
    IN  /\ q # None /\ ~q.read /\ Accepted(q)
        /\ request' = [request EXCEPT ![r].read = TRUE,
                                      ![r].only = Only(q.user, q.org),
                                      ![r].first = First(q.user, q.org)]
        /\ orgs' = WithDefault(q)
        /\ UNCHANGED <<accounts, password, role, tools, session, marks, requests, restarts>>

Refuse(r) ==
    LET q == request[r]
    IN  /\ q # None /\ ~q.read /\ ~Accepted(q) /\ Ends(r)
        /\ UNCHANGED <<rows, tools, session, marks, requests, restarts>>

-----------------------------------------------------------------------------
(* What they write.  A write the database refuses leaves nothing behind.   *)

Ready(r, op) == request[r] # None /\ request[r].op = op /\ request[r].read

NewAccount(u, o, name) ==
    /\ u \notin accounts /\ accounts' = accounts \cup {u}
    /\ password' = [password EXCEPT ![u] = "set"]
    /\ role' = [role EXCEPT ![<<u, o>>] = name]
    /\ UNCHANGED <<orgs, tools, marks>>

CreateAccount(r) ==
    LET q == request[r]
    IN  /\ Ready(r, "createAccount") /\ NewAccount(q.user, q.org, "member") /\ Wrote(r)
        /\ UNCHANGED <<session, requests, restarts>>
Register(r) ==
    LET q == request[r]
    IN  /\ Ready(r, "register")
        /\ NewAccount(q.user, q.org, IF q.first THEN "admin" ELSE "member") /\ Wrote(r)
        /\ session' = [session EXCEPT ![q.user] = q.org]
        /\ UNCHANGED <<requests, restarts>>

DeleteAccount(r) ==
    LET q == request[r]
    IN  /\ Ready(r, "deleteAccount") /\ role[<<q.user, q.org>>] # None
        /\ role' = [role EXCEPT ![<<q.user, q.org>>] = None]
        /\ password' = IF q.only THEN [password EXCEPT ![q.user] = None] ELSE password
        /\ raced' = IF SawOrg(q, "deleteAccount") THEN raced \cup {q.org} ELSE raced
        /\ revived' = IF SawUser(q, {"deleteAccount", "createOrg"})
                      THEN revived \cup {q.user} ELSE revived
        /\ Wrote(r)
        /\ UNCHANGED <<accounts, orgs, tools, session, crossed, requests, restarts>>

WritePassword(r, op) ==
    LET q == request[r]
    IN  /\ Ready(r, op) /\ password' = [password EXCEPT ![q.user] = "set"] /\ Wrote(r)
        /\ revived' = IF SawUser(q, {"deleteAccount"}) THEN revived \cup {q.user} ELSE revived
        /\ UNCHANGED <<accounts, orgs, role, tools, session, raced, crossed, requests, restarts>>
ResetPassword(r)  == WritePassword(r, "resetPassword")
ChangePassword(r) == WritePassword(r, "changePassword")

CreateOrg(r) ==
    LET q == request[r]
    IN  /\ Ready(r, "createOrg") /\ q.org \notin orgs
        /\ orgs' = orgs \cup {q.org} /\ role' = [role EXCEPT ![<<q.user, q.org>>] = "admin"]
        /\ Wrote(r)
        /\ UNCHANGED <<accounts, password, tools, session, marks, requests, restarts>>

SelectProvider(r) ==
    LET q == request[r]
    IN  /\ Ready(r, "selectProvider") /\ provider' = [provider EXCEPT ![q.org] = q.editor]
        /\ crossed' = IF SawOrg(q, "clearKey") THEN crossed \cup {q.org} ELSE crossed
        /\ Wrote(r)
        /\ UNCHANGED <<rows, keys, session, raced, revived, requests, restarts>>
SaveKey(r) ==
    LET q == request[r]
    IN  /\ Ready(r, "saveKey") /\ keys' = [keys EXCEPT ![q.org] = @ \cup {q.editor}] /\ Wrote(r)
        /\ UNCHANGED <<rows, provider, session, marks, requests, restarts>>
\* Without the Kimi key the organisation falls back to the other editor.
FallbackNever(e, p) == p
Fallback(e, p)      == IF e = "kimi" THEN "codex" ELSE p
ClearKey(r) ==
    LET q == request[r]
    IN  /\ Ready(r, "clearKey") /\ keys' = [keys EXCEPT ![q.org] = @ \ {q.editor}]
        /\ provider' = [provider EXCEPT ![q.org] = Fallback(q.editor, @)] /\ Wrote(r)
        /\ UNCHANGED <<rows, session, marks, requests, restarts>>

\* A unique key or a missing row stops the write.
WriteFails(r) ==
    LET q == request[r]
    IN  /\ q # None /\ q.read /\ Ends(r)
        /\ \/ q.op \in {"createAccount", "register"} /\ q.user \in accounts
           \/ q.op = "deleteAccount" /\ role[<<q.user, q.org>>] = None
           \/ q.op = "createOrg" /\ q.org \in orgs
        /\ UNCHANGED <<rows, tools, session, marks, requests, restarts>>

\* The control plane starts again: requests are lost, the seed runs.
Restart ==
    /\ restarts < MaxRestarts /\ restarts' = restarts + 1
    /\ request' = [r \in Requests |-> None] /\ Seed
    /\ UNCHANGED <<tools, session, marks, requests>>

-----------------------------------------------------------------------------
Writes(r) ==
    \/ CreateAccount(r) \/ Register(r) \/ DeleteAccount(r) \/ ResetPassword(r)
    \/ ChangePassword(r) \/ CreateOrg(r) \/ SelectProvider(r) \/ SaveKey(r) \/ ClearKey(r)

Next ==
    \/ \E r \in Requests, by, user \in Users, org \in Orgs :
         \/ \E op \in Guarded : Manage(r, op, by, user, org)
         \/ user = by /\ \E op \in Guarded, editor \in Editors : Configure(r, op, by, org, editor)
         \/ user = by /\ \E op \in {"createOrg", "changePassword"} : Own(r, op, by, org)
         \/ user = by /\ SignUp(r, user, org)
    \/ \E r \in Requests : Read(r) \/ Refuse(r) \/ Writes(r) \/ WriteFails(r)
    \/ \E u \in Users : Login(u) \/ SignOut(u)
    \/ Restart

Spec == Init /\ [][Next]_vars

-----------------------------------------------------------------------------
\* docs/release-0.0.9-context.md:15, "Self-deletion and removal of the final
\* administrator are blocked": an organisation with members has one, unless
\* deletions in it overlapped, each counting the administrators of before.
AdministratorRemains ==
    \A o \in Orgs : Members(o) # {} => Admins(o) # {} \/ o \in raced

\* The first account registered in an organisation administers it, the others
\* do not, unless the registration of one overlapped that of another or the
\* creation of an account (register, the comment at :71).
OneFirstAdministrator ==
    [][\A u \in Users, o \in Orgs :
         role[<<u, o>>] = None /\ role'[<<u, o>>] = "admin" =>
           \/ Members(o) = {}
           \/ u = Seeded
           \/ \E r \in Requests : request[r] # None /\ request[r].user = u /\ request'[r] = None
                                  /\ \/ SawOrg(request[r], "register")
                                     \/ SawOrg(request[r], "createAccount")]_vars

\* Deleting an account from its last organisation disables its sign-in
\* (signInDisabled): without a membership it has no password, unless another
\* deletion, a reset or a change of password overlapped the deletion.
RemovedCannotSignIn ==
    \A u \in Users : OrgsOf(u) = {} /\ password[u] # None => u \in revived

\* Kimi is the selected editor only with its key stored, unless the key was
\* cleared between the check of selectModAiProvider and its update.
KimiHasItsKey ==
    \A o \in Orgs : provider[o] = "kimi" => "kimi" \in keys[o] \/ o \in crossed
=============================================================================
