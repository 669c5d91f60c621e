------------------------------ MODULE Pairing -------------------------------
(***************************************************************************)
(* How an agent becomes a host of an organisation and keeps its key.       *)
(*                                                                         *)
(* An administrator asks the Hosts page for a pairing token, an operator   *)
(* copies it from the page into the agent's configuration, and the agent   *)
(* trades it for a key on its first start.  The control plane's pair() and *)
(* rotateAgentKey() read, await and write; the agent writes its key and    *)
(* its host id to two files.                                               *)
(* A key is the host it names and the host's agentKeyVersion when it was   *)
(* signed.                                                                 *)
(***************************************************************************)
EXTENDS Integers, FiniteSets

CONSTANTS
    Agents, Hosts, Tokens,
    Asks,         \* requests for a token that may be in progress at once
    None,         \* no host, no token, no request
    Pairs,        \* pair requests that may be in progress at once
    Rotations,    \* rotate requests that may be in progress at once
    MaxVersion,   \* bound: agentKeyVersion
    MaxFaults     \* bound: crashes, timeouts, failed writes

ASSUME PairingAssumption ==
    /\ None \notin Agents \cup Hosts \cup Tokens \cup Pairs \cup Asks
    /\ "sent" \notin Tokens \cup {None}
    /\ MaxVersion \in Nat \ {0}
    /\ MaxFaults \in Nat

VARIABLES
    panel,       \* the pairing panel of the Hosts page is open
    loading,     \* its buttons are disabled
    asked,       \* its requests: None, "sent", or the token they created
    shown,       \* the token it shows
    latest,      \* the token created last
    token,       \* rows of PairingToken: "none", "open", "used", "expired"
    version,     \* rows of Host: agentKeyVersion, 0 without a row
    createdWith, \* the token a host was created with; None for an unused id
    pairing,     \* pair(): the await each request is at
    pairToken, pairHost,
    rotating,    \* rotateAgentKey(): the host of each request, or None
    newVersion,
    issued,      \* keys handed out
    retired,     \* keys handed out before a rotation of their host completed
    config,      \* the agent's pairing_token
    keyFile,     \* the file at agent_key_path
    idFile,      \* the agents with a host_id file
    agent,       \* where main() of the agent is
    key,         \* the key it holds
    waitsFor,    \* the pair request it waits for
    faults

panelVars  == <<panel, loading, asked, shown>>
pageVars   == <<panelVars, latest>>
tokenVars  == <<token, createdWith>>
pairVars   == <<pairing, pairToken, pairHost>>
rotateVars == <<rotating, newVersion>>
keyVars    == <<issued, retired>>
fileVars   == <<config, keyFile, idFile>>
agentVars  == <<agent, key, waitsFor>>
vars == <<panel, loading, asked, shown, latest, token, version, createdWith,
          pairing, pairToken, pairHost, rotating, newVersion, issued, retired,
          config, keyFile, idFile, agent, key, waitsFor, faults>>

\* The payload of the signed key; version 0 stands for no key.
Keys  == Hosts \X (1..MaxVersion)
NoKey == <<None, 0>>

Fault == faults < MaxFaults /\ faults' = faults + 1

Init ==
    /\ panel = FALSE
    /\ loading = FALSE
    /\ asked = [k \in Asks |-> None]
    /\ shown = None
    /\ latest = None
    /\ token = [t \in Tokens |-> "none"]
    /\ version = [h \in Hosts |-> 0]
    /\ createdWith = [h \in Hosts |-> None]
    /\ pairing = [p \in Pairs |-> "idle"]
    /\ pairToken = [p \in Pairs |-> None]
    /\ pairHost = [p \in Pairs |-> None]
    /\ rotating = [r \in Rotations |-> None]
    /\ newVersion = [r \in Rotations |-> 0]
    /\ issued = {}
    /\ retired = {}
    /\ config = [a \in Agents |-> None]
    /\ keyFile = [a \in Agents |-> NoKey]
    /\ idFile = {}
    /\ agent = [a \in Agents |-> "down"]
    /\ key = [a \in Agents |-> NoKey]
    /\ waitsFor = [a \in Agents |-> None]
    /\ faults = 0

-----------------------------------------------------------------------------
(* Administrators and operators                                            *)

Others == <<version, createdWith, pairVars, rotateVars, keyVars, fileVars, agentVars>>

\* "Pair New Host" and "Cancel", and the wizard, which opens the panel: each
\* forgets the token shown, not the request in progress.
TogglePanel ==
    /\ panel' = ~panel
    /\ shown' = None
    /\ UNCHANGED <<loading, asked, latest, token, Others, faults>>
WizardOpensPanel ==
    /\ panel' = TRUE
    /\ shown' = None
    /\ UNCHANGED <<loading, asked, latest, token, Others, faults>>

\* Before a token is shown the panel offers to generate one, with one shown to
\* regenerate it; both buttons are disabled while a request is in progress.
EnabledAlways == panel
Enabled       == panel /\ ~loading

GenerateToken(k) ==
    /\ Enabled
    /\ asked[k] = None
    /\ asked' = [asked EXCEPT ![k] = "sent"]
    /\ loading' = TRUE
    /\ shown' = None
    /\ UNCHANGED <<panel, latest, token, Others, faults>>

\* The control plane's createToken ...
CreateToken(k, t) ==
    /\ asked[k] = "sent"
    /\ token[t] = "none"
    /\ token' = [token EXCEPT ![t] = "open"]
    /\ asked' = [asked EXCEPT ![k] = t]
    /\ latest' = t
    /\ UNCHANGED <<panel, loading, shown, Others, faults>>

\* ... its answer, and a request or an answer that is lost.
ShowToken(k) ==
    /\ asked[k] \in Tokens
    /\ shown' = asked[k]
    /\ loading' = FALSE
    /\ asked' = [asked EXCEPT ![k] = None]
    /\ UNCHANGED <<panel, latest, token, Others, faults>>
AskFails(k) ==
    /\ Fault
    /\ asked[k] # None
    /\ loading' = FALSE
    /\ asked' = [asked EXCEPT ![k] = None]
    /\ UNCHANGED <<panel, shown, latest, token, Others>>

\* The token in the commands and in the configuration file the panel offers.
Offered == IF panel THEN shown ELSE None

\* expiresAt passes.
ExpireToken(t) ==
    /\ token[t] = "open"
    /\ token' = [token EXCEPT ![t] = "expired"]
    /\ UNCHANGED <<pageVars, version, createdWith, pairVars, rotateVars, keyVars, fileVars,
                   agentVars, faults>>

\* The operator runs one of the commands or writes the file of the panel's tabs;
\* to pair again, the key file is removed too.  The host_id file stays.
Configure(a) ==
    /\ agent[a] = "down"
    /\ Offered # None
    /\ config' = [config EXCEPT ![a] = Offered]
    /\ keyFile' = [keyFile EXCEPT ![a] = NoKey]
    /\ UNCHANGED <<pageVars, tokenVars, version, pairVars, rotateVars, keyVars, idFile,
                   agentVars, faults>>

\* A key that rotateKey displayed is put in the file of the agent it is for.
InstallKey(a, k) ==
    /\ agent[a] = "down"
    /\ k \in issued
    /\ keyFile[a][1] = k[1]
    /\ keyFile' = [keyFile EXCEPT ![a] = k]
    /\ UNCHANGED <<pageVars, tokenVars, version, pairVars, rotateVars, keyVars, config, idFile,
                   agentVars, faults>>

\* HostsService.remove deletes the row; its id is never used again.
RemoveHost(h) ==
    /\ version[h] # 0
    /\ version' = [version EXCEPT ![h] = 0]
    /\ UNCHANGED <<pageVars, tokenVars, pairVars, rotateVars, keyVars, fileVars, agentVars, faults>>

-----------------------------------------------------------------------------
(* The control plane: pair()                                               *)

\* Mutant of PairRead: usedAt is not looked at.
PairReadUsed(p) ==
    /\ pairing[p] = "read"
    /\ pairing' = [pairing EXCEPT ![p] = IF token[pairToken[p]] \in {"open", "used"}
                                         THEN "host" ELSE "refused"]
    /\ UNCHANGED <<pageVars, tokenVars, version, pairToken, pairHost, rotateVars, keyVars,
                   fileVars, agentVars, faults>>

\* The token is known, unused and not expired, or the request is refused.
PairRead(p) ==
    /\ pairing[p] = "read"
    /\ pairing' = [pairing EXCEPT ![p] = IF token[pairToken[p]] = "open"
                                         THEN "host" ELSE "refused"]
    /\ UNCHANGED <<pageVars, tokenVars, version, pairToken, pairHost, rotateVars, keyVars,
                   fileVars, agentVars, faults>>

\* host.create
PairHost(p) ==
    /\ pairing[p] = "host"
    /\ \E h \in Hosts :
          /\ createdWith[h] = None
          /\ createdWith' = [createdWith EXCEPT ![h] = pairToken[p]]
          /\ version' = [version EXCEPT ![h] = 1]
          /\ pairHost' = [pairHost EXCEPT ![p] = h]
    /\ pairing' = [pairing EXCEPT ![p] = "mark"]
    /\ UNCHANGED <<pageVars, token, pairToken, rotateVars, keyVars, fileVars, agentVars, faults>>

\* pairingToken.update, which needs the host's row (usedByHostId), and the key.
PairMark(p) ==
    /\ pairing[p] = "mark"
    /\ IF version[pairHost[p]] = 0
       THEN /\ pairing' = [pairing EXCEPT ![p] = "refused"]
            /\ UNCHANGED <<token, issued>>
       ELSE /\ pairing' = [pairing EXCEPT ![p] = "reply"]
            /\ token' = [token EXCEPT ![pairToken[p]] = "used"]
            /\ issued' = issued \cup {<<pairHost[p], 1>>}
    /\ UNCHANGED <<pageVars, version, createdWith, pairToken, pairHost, rotateVars, retired,
                   fileVars, agentVars, faults>>

\* The answer reaches the agent if that still waits for it; a refused agent exits.
PairReply(p) ==
    /\ pairing[p] \in {"reply", "refused"}
    /\ LET waiting == {a \in Agents : waitsFor[a] = p}
           ok      == pairing[p] = "reply"
       IN /\ agent' = [a \in Agents |-> IF a \notin waiting THEN agent[a]
                                        ELSE IF ok THEN "key" ELSE "down"]
          /\ key' = [a \in Agents |-> IF a \in waiting /\ ok
                                      THEN <<pairHost[p], 1>> ELSE key[a]]
          /\ waitsFor' = [a \in Agents |-> IF a \in waiting THEN None ELSE waitsFor[a]]
    /\ pairing' = [pairing EXCEPT ![p] = "idle"]
    /\ pairToken' = [pairToken EXCEPT ![p] = None]
    /\ pairHost' = [pairHost EXCEPT ![p] = None]
    /\ UNCHANGED <<pageVars, tokenVars, version, rotateVars, keyVars, fileVars, faults>>

-----------------------------------------------------------------------------
(* The control plane: keys                                                 *)

\* verifyAgentKey, called by the guard of every agent endpoint.
Accepted(k) == version[k[1]] # 0 /\ version[k[1]] = k[2]

\* Mutant of RotateRead: the key is signed for the version the host already has.
RotateReadSame(r, h) ==
    /\ rotating[r] = None
    /\ version[h] \in 1..(MaxVersion - 1)
    /\ rotating' = [rotating EXCEPT ![r] = h]
    /\ newVersion' = [newVersion EXCEPT ![r] = version[h]]
    /\ UNCHANGED <<pageVars, tokenVars, version, pairVars, keyVars, fileVars, agentVars, faults>>

\* rotateAgentKey reads the host ...
RotateRead(r, h) ==
    /\ rotating[r] = None
    /\ version[h] \in 1..(MaxVersion - 1)
    /\ rotating' = [rotating EXCEPT ![r] = h]
    /\ newVersion' = [newVersion EXCEPT ![r] = version[h] + 1]
    /\ UNCHANGED <<pageVars, tokenVars, version, pairVars, keyVars, fileVars, agentVars, faults>>

\* ... and writes the version it computed, unless the host was removed meanwhile.
RotateWrite(r) ==
    /\ rotating[r] # None
    /\ LET h == rotating[r]
       IN IF version[h] = 0
          THEN UNCHANGED <<version, issued, retired>>
          ELSE /\ version' = [version EXCEPT ![h] = newVersion[r]]
               /\ retired' = retired \cup {k \in issued : k[1] = h}
               /\ issued' = issued \cup {<<h, newVersion[r]>>}
    /\ rotating' = [rotating EXCEPT ![r] = None]
    /\ newVersion' = [newVersion EXCEPT ![r] = 0]
    /\ UNCHANGED <<pageVars, tokenVars, pairVars, fileVars, agentVars, faults>>

-----------------------------------------------------------------------------
(* The agent                                                               *)

Exits(a) ==
    /\ agent' = [agent EXCEPT ![a] = "down"]
    /\ key' = [key EXCEPT ![a] = NoKey]
    /\ waitsFor' = [waitsFor EXCEPT ![a] = None]

\* main() finds a key and a host id; with a key alone it exits.
Boot(a) ==
    /\ agent[a] = "down"
    /\ keyFile[a] # NoKey
    /\ a \in idFile
    /\ agent' = [agent EXCEPT ![a] = "running"]
    /\ key' = [key EXCEPT ![a] = keyFile[a]]
    /\ UNCHANGED <<pageVars, tokenVars, version, pairVars, rotateVars, keyVars, fileVars,
                   waitsFor, faults>>

\* main() finds no key but a token: pairing.Do
SendPair(a) ==
    /\ agent[a] = "down"
    /\ keyFile[a] = NoKey
    /\ config[a] # None
    /\ \E p \in Pairs :
          /\ pairing[p] = "idle"
          /\ pairing' = [pairing EXCEPT ![p] = "read"]
          /\ pairToken' = [pairToken EXCEPT ![p] = config[a]]
          /\ waitsFor' = [waitsFor EXCEPT ![a] = p]
    /\ agent' = [agent EXCEPT ![a] = "pairing"]
    /\ UNCHANGED <<pageVars, tokenVars, version, pairHost, rotateVars, keyVars, fileVars, key, faults>>

WriteKey(a) ==
    /\ agent[a] = "key"
    /\ keyFile' = [keyFile EXCEPT ![a] = key[a]]
    /\ agent' = [agent EXCEPT ![a] = "id"]
    /\ UNCHANGED <<pageVars, tokenVars, version, pairVars, rotateVars, keyVars, config, idFile,
                   key, waitsFor, faults>>

WriteId(a) ==
    /\ agent[a] = "id"
    /\ idFile' = idFile \cup {a}
    /\ agent' = [agent EXCEPT ![a] = "running"]
    /\ UNCHANGED <<pageVars, tokenVars, version, pairVars, rotateVars, keyVars, config, keyFile,
                   key, waitsFor, faults>>

\* A failed write of host_id is a warning.
WriteIdFails(a) ==
    /\ Fault
    /\ agent[a] = "id"
    /\ agent' = [agent EXCEPT ![a] = "running"]
    /\ UNCHANGED <<pageVars, tokenVars, version, pairVars, rotateVars, keyVars, fileVars,
                   key, waitsFor>>

\* The process dies, or the client's request timeout ends it while it pairs:
\* the control plane goes on with the request.
AgentStops(a) ==
    /\ Fault
    /\ agent[a] # "down"
    /\ Exits(a)
    /\ UNCHANGED <<pageVars, tokenVars, version, pairVars, rotateVars, keyVars, fileVars>>

\* deploy-agent.sh: as soon as the key file has content, the token is removed
\* from the configuration and the agent restarted.
DeployRestart(a) ==
    /\ keyFile[a] # NoKey
    /\ config[a] # None
    /\ config' = [config EXCEPT ![a] = None]
    /\ Exits(a)
    /\ UNCHANGED <<pageVars, tokenVars, version, pairVars, rotateVars, keyVars, keyFile, idFile, faults>>

\* The control plane restarts: its requests end, and agents that wait exit.
ControlPlaneRestart ==
    /\ Fault
    /\ pairing' = [p \in Pairs |-> "idle"]
    /\ pairToken' = [p \in Pairs |-> None]
    /\ pairHost' = [p \in Pairs |-> None]
    /\ rotating' = [r \in Rotations |-> None]
    /\ newVersion' = [r \in Rotations |-> 0]
    /\ agent' = [a \in Agents |-> IF agent[a] = "pairing" THEN "down" ELSE agent[a]]
    /\ waitsFor' = [a \in Agents |-> None]
    /\ UNCHANGED <<pageVars, tokenVars, version, keyVars, fileVars, key>>

-----------------------------------------------------------------------------
Next ==
    \/ TogglePanel \/ WizardOpensPanel
    \/ \E k \in Asks : \/ GenerateToken(k) \/ ShowToken(k) \/ AskFails(k)
                      \/ \E t \in Tokens : CreateToken(k, t)
    \/ \E t \in Tokens : ExpireToken(t)
    \/ \E a \in Agents, k \in issued : InstallKey(a, k)
    \/ \E h \in Hosts : RemoveHost(h)
    \/ \E p \in Pairs : PairRead(p) \/ PairHost(p) \/ PairMark(p) \/ PairReply(p)
    \/ \E r \in Rotations : RotateWrite(r) \/ \E h \in Hosts : RotateRead(r, h)
    \/ \E a \in Agents :
          \/ Configure(a) \/ Boot(a) \/ SendPair(a) \/ WriteKey(a) \/ WriteId(a) \/ WriteIdFails(a)
          \/ AgentStops(a) \/ DeployRestart(a)
    \/ ControlPlaneRestart

Spec == Init /\ [][Next]_vars

-----------------------------------------------------------------------------
(* Properties                                                              *)

\* "usedAt set on first successful pair; reject if already used": of the keys that
\* pair() hands out (version 1), two never stem from one token, whatever crashes
\* and is retried.
OneKeyPerToken ==
    \A j, k \in issued :
        j[2] = 1 /\ k[2] = 1 /\ createdWith[j[1]] = createdWith[k[1]] => j = k

\* "old key is invalidated via agentKeyVersion check": once a rotation is done,
\* no key that was handed out for the host before passes verifyAgentKey again.
RotatedKeyRefused == \A k \in retired : ~Accepted(k)

\* The panel shows the token of its last request and never an older one, which
\* the answers to two requests at once could put back.
ShownIsLatest == Offered # None => Offered = latest
=============================================================================
