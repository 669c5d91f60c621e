---------------------------- MODULE PairingProofs ---------------------------
(***************************************************************************)
(* Pairing, for every number of agents, hosts, tokens, requests and        *)
(* versions.  The page needs no more than that.  What pair() and           *)
(* rotateAgentKey() promise holds while the control plane handles one of   *)
(* each at a time, since they read, await and write.                       *)
(***************************************************************************)
EXTENDS Pairing, TLAPS

\* One request of each kind at a time.
OnePair     == \A p, q \in Pairs : p = q
OneRotation == \A r, s \in Rotations : r = s

-----------------------------------------------------------------------------
(* The panel                                                               *)

PanelTypes ==
    /\ asked \in [Asks -> Tokens \cup {None, "sent"}]
    /\ shown \in Tokens \cup {None} /\ latest \in Tokens \cup {None}

\* While a request is in progress the buttons are disabled and nothing is
\* shown; its token is the one created last.
OneAsk ==
    /\ \A k \in Asks : asked[k] # None => loading /\ shown = None
    /\ \A j, k \in Asks : asked[j] # None /\ asked[k] # None => j = k
    /\ \A k \in Asks : asked[k] \in Tokens => asked[k] = latest
    /\ shown # None => shown = latest

LEMMA PanelStep ==
    ASSUME PanelTypes, OneAsk, [Next]_vars
    PROVE  PanelTypes' /\ OneAsk'
  <1> DEFINE Goal == PanelTypes' /\ OneAsk'
  <1> USE PairingAssumption DEF PairingAssumption, PanelTypes, OneAsk, panelVars, pageVars
  <1>1. CASE TogglePanel \/ WizardOpensPanel
    BY <1>1 DEF TogglePanel, WizardOpensPanel
  <1>2. ASSUME NEW k \in Asks, GenerateToken(k) PROVE Goal
    BY <1>2 DEF GenerateToken, Enabled
  <1>3. ASSUME NEW k \in Asks, ShowToken(k) PROVE Goal
    BY <1>3 DEF ShowToken
  <1>4. ASSUME NEW k \in Asks, AskFails(k) PROVE Goal
    BY <1>4 DEF AskFails
  <1>5. ASSUME NEW k \in Asks, NEW t \in Tokens, CreateToken(k, t) PROVE Goal
    BY <1>5 DEF CreateToken
  <1>6. CASE UNCHANGED pageVars
    BY <1>6
  <1>7. ASSUME NEW p \in Pairs, PairRead(p) \/ PairHost(p) \/ PairMark(p) \/ PairReply(p)
        PROVE  UNCHANGED pageVars
    BY <1>7 DEF PairRead, PairHost, PairMark, PairReply
  <1>8. ASSUME NEW r \in Rotations, RotateWrite(r) \/ \E h \in Hosts : RotateRead(r, h)
        PROVE  UNCHANGED pageVars
    BY <1>8 DEF RotateWrite, RotateRead
  <1>9. ASSUME NEW a \in Agents, \/ Configure(a) \/ Boot(a) \/ SendPair(a) \/ WriteKey(a)
                                 \/ WriteId(a) \/ WriteIdFails(a) \/ AgentStops(a)
                                 \/ DeployRestart(a) \/ \E k \in issued : InstallKey(a, k)
        PROVE  UNCHANGED pageVars
    BY <1>9 DEF Configure, Boot, SendPair, WriteKey, WriteId, WriteIdFails, AgentStops,
                DeployRestart, InstallKey
  <1>10. CASE \/ \E t \in Tokens : ExpireToken(t)
              \/ \E h \in Hosts : RemoveHost(h)
              \/ ControlPlaneRestart \/ UNCHANGED vars
    BY <1>6, <1>10 DEF ExpireToken, RemoveHost, ControlPlaneRestart, vars
  <1> QED
    BY <1>1, <1>2, <1>3, <1>4, <1>5, <1>6, <1>7, <1>8, <1>9, <1>10 DEF Next

\* Pairing keeps ShownIsLatest: the panel offers the token created last
\* (the pairing panel of the Hosts page).
THEOREM PanelShowsLatest == Spec => []ShownIsLatest
  <1>1. Init => PanelTypes /\ OneAsk
    BY PairingAssumption DEF PairingAssumption, Init, PanelTypes, OneAsk
  <1>2. PanelTypes /\ OneAsk /\ [Next]_vars => PanelTypes' /\ OneAsk'
    BY PanelStep
  <1>3. OneAsk => ShownIsLatest
    BY DEF OneAsk, ShownIsLatest, Offered
  <1> QED
    BY <1>1, <1>2, <1>3, PTL DEF Spec

-----------------------------------------------------------------------------
(* Hosts and requests                                                      *)

States == {"idle", "read", "host", "mark", "reply", "refused"}
Types ==
    /\ PanelTypes
    /\ token \in [Tokens -> {"none", "open", "used", "expired"}]
    /\ version \in [Hosts -> 0..MaxVersion]
    /\ createdWith \in [Hosts -> Tokens \cup {None}]
    /\ pairing \in [Pairs -> States]
    /\ pairToken \in [Pairs -> Tokens \cup {None}]
    /\ pairHost \in [Pairs -> Hosts \cup {None}]
    /\ rotating \in [Rotations -> Hosts \cup {None}]
    /\ newVersion \in [Rotations -> 0..MaxVersion]
    /\ issued \subseteq Keys /\ retired \subseteq issued
    /\ config \in [Agents -> Tokens \cup {None}]

\* A host has a key, a version and a rotation only once it was created, and a
\* request carries its token and the host it created.
Created ==
    /\ \A h \in Hosts : createdWith[h] = None =>
         /\ version[h] = 0
         /\ \A k \in issued : k[1] # h
         /\ \A r \in Rotations : rotating[r] # h
    /\ \A p \in Pairs :
         /\ pairing[p] # "idle" => pairToken[p] \in Tokens
         /\ pairing[p] \in {"mark", "reply"} =>
              pairHost[p] \in Hosts /\ createdWith[pairHost[p]] = pairToken[p]
    /\ \A r \in Rotations : rotating[r] # None => newVersion[r] >= 2

\* The steps of the agent that the control plane does not see.
Unseen == UNCHANGED <<token, version, createdWith, pairing, pairToken, pairHost,
                      rotating, newVersion, issued, retired>>

LEMMA PairingSteps ==
    ASSUME [Next]_vars
    PROVE  \/ Unseen
           \/ \E k \in Asks, t \in Tokens : CreateToken(k, t)
           \/ \E t \in Tokens : ExpireToken(t)
           \/ \E h \in Hosts : RemoveHost(h)
           \/ \E p \in Pairs : PairRead(p) \/ PairHost(p) \/ PairMark(p) \/ PairReply(p)
           \/ \E r \in Rotations : RotateWrite(r) \/ \E h \in Hosts : RotateRead(r, h)
           \/ \E a \in Agents : SendPair(a)
           \/ ControlPlaneRestart
  <1> USE DEF Unseen, tokenVars, pairVars, rotateVars, keyVars, Others
  <1>1. CASE TogglePanel \/ WizardOpensPanel
    BY <1>1 DEF TogglePanel, WizardOpensPanel
  <1>2. ASSUME NEW k \in Asks, GenerateToken(k) \/ ShowToken(k) \/ AskFails(k) PROVE Unseen
    BY <1>2 DEF GenerateToken, ShowToken, AskFails
  <1>3. ASSUME NEW a \in Agents, \/ Configure(a) \/ Boot(a) \/ WriteKey(a)
                                 \/ WriteId(a) \/ WriteIdFails(a) \/ AgentStops(a)
                                 \/ DeployRestart(a) \/ \E k \in issued : InstallKey(a, k)
        PROVE  Unseen
    BY <1>3 DEF Configure, Boot, WriteKey, WriteId, WriteIdFails, AgentStops, DeployRestart,
                InstallKey
  <1>4. CASE UNCHANGED vars
    BY <1>4 DEF vars
  <1> QED
    BY <1>1, <1>2, <1>3, <1>4 DEF Next

LEMMA ConfigTypes ==
    ASSUME Types, [Next]_vars
    PROVE  config' \in [Agents -> Tokens \cup {None}]
  <1> USE DEF Types, PanelTypes, fileVars, Others
  <1>1. ASSUME NEW a \in Agents, Configure(a) PROVE config' \in [Agents -> Tokens \cup {None}]
    BY <1>1 DEF Configure, Offered
  <1>2. ASSUME NEW a \in Agents, DeployRestart(a)
        PROVE  config' \in [Agents -> Tokens \cup {None}]
    BY <1>2 DEF DeployRestart
  <1>3. ASSUME NEW a \in Agents, \/ Boot(a) \/ SendPair(a) \/ WriteKey(a) \/ WriteId(a)
                                 \/ WriteIdFails(a) \/ AgentStops(a)
                                 \/ \E k \in issued : InstallKey(a, k)
        PROVE  UNCHANGED config
    BY <1>3 DEF Boot, SendPair, WriteKey, WriteId, WriteIdFails, AgentStops, InstallKey
  <1>4. ASSUME NEW k \in Asks, \/ GenerateToken(k) \/ ShowToken(k) \/ AskFails(k)
                               \/ \E t \in Tokens : CreateToken(k, t)
        PROVE  UNCHANGED config
    BY <1>4 DEF GenerateToken, ShowToken, AskFails, CreateToken
  <1>5. ASSUME NEW p \in Pairs, PairRead(p) \/ PairHost(p) \/ PairMark(p) \/ PairReply(p)
        PROVE  UNCHANGED config
    BY <1>5 DEF PairRead, PairHost, PairMark, PairReply
  <1>6. ASSUME NEW r \in Rotations, RotateWrite(r) \/ \E h \in Hosts : RotateRead(r, h)
        PROVE  UNCHANGED config
    BY <1>6 DEF RotateWrite, RotateRead
  <1>7. CASE \/ TogglePanel \/ WizardOpensPanel \/ \E t \in Tokens : ExpireToken(t)
             \/ \E h \in Hosts : RemoveHost(h)
             \/ ControlPlaneRestart \/ UNCHANGED vars
    BY <1>7 DEF TogglePanel, WizardOpensPanel, ExpireToken, RemoveHost, ControlPlaneRestart, vars
  <1> QED
    BY <1>1, <1>2, <1>3, <1>4, <1>5, <1>6, <1>7 DEF Next

LEMMA CreatedStep ==
    ASSUME Types, OneAsk, Created, [Next]_vars
    PROVE  Types' /\ Created'
  <1> DEFINE Goal == Types' /\ Created'
  <1>0. PanelTypes' /\ config' \in [Agents -> Tokens \cup {None}]
    BY PanelStep, ConfigTypes DEF Types
  <1> USE <1>0, PairingAssumption
      DEF PairingAssumption, Types, Created, States, Keys,
          tokenVars, pairVars, rotateVars, keyVars, Others
  <1>1. CASE Unseen
    BY <1>1 DEF Unseen
  <1>2. ASSUME NEW k \in Asks, NEW t \in Tokens, CreateToken(k, t) PROVE Goal
    BY <1>2 DEF CreateToken
  <1>3. ASSUME NEW t \in Tokens, ExpireToken(t) PROVE Goal
    BY <1>3 DEF ExpireToken
  <1>4. ASSUME NEW h \in Hosts, RemoveHost(h) PROVE Goal
    BY <1>4 DEF RemoveHost
  <1>5. ASSUME NEW p \in Pairs, PairRead(p) PROVE Goal
    BY <1>5 DEF PairRead
  <1>6. ASSUME NEW p \in Pairs, PairHost(p) PROVE Goal
    <2>1. PICK h \in Hosts : /\ createdWith[h] = None
                             /\ createdWith' = [createdWith EXCEPT ![h] = pairToken[p]]
                             /\ version' = [version EXCEPT ![h] = 1]
                             /\ pairHost' = [pairHost EXCEPT ![p] = h]
      BY <1>6 DEF PairHost
    <2>2. /\ pairing[p] = "host" /\ pairing' = [pairing EXCEPT ![p] = "mark"]
          /\ pairToken[p] \in Tokens
          /\ UNCHANGED <<token, pairToken, rotating, newVersion, issued, retired>>
      BY <1>6 DEF PairHost
    <2>3. Types'
      BY <2>1, <2>2
    <2>4. (\A x \in Hosts : createdWith[x] = None =>
             /\ version[x] = 0
             /\ \A k \in issued : k[1] # x
             /\ \A r \in Rotations : rotating[r] # x)'
      BY <2>1, <2>2
    <2>5. (\A q \in Pairs :
             /\ pairing[q] # "idle" => pairToken[q] \in Tokens
             /\ pairing[q] \in {"mark", "reply"} =>
                  pairHost[q] \in Hosts /\ createdWith[pairHost[q]] = pairToken[q])'
      BY <2>1, <2>2
    <2> QED
      BY <2>2, <2>3, <2>4, <2>5
  <1>7. ASSUME NEW p \in Pairs, PairMark(p) PROVE Goal
    BY <1>7 DEF PairMark
  <1>8. ASSUME NEW p \in Pairs, PairReply(p) PROVE Goal
    BY <1>8 DEF PairReply
  <1>9. ASSUME NEW r \in Rotations, RotateWrite(r) PROVE Goal
    BY <1>9 DEF RotateWrite
  <1>10. ASSUME NEW r \in Rotations, NEW h \in Hosts, RotateRead(r, h) PROVE Goal
    BY <1>10 DEF RotateRead
  <1>11. ASSUME NEW a \in Agents, SendPair(a) PROVE Goal
    BY <1>11 DEF SendPair
  <1>12. CASE ControlPlaneRestart
    BY <1>12 DEF ControlPlaneRestart
  <1> QED
    BY <1>1, <1>2, <1>3, <1>4, <1>5, <1>6, <1>7, <1>8, <1>9, <1>10, <1>11, <1>12, PairingSteps

LEMMA HostsAndRequests == Spec => [](Types /\ Created)
  <1>1. Init => Types /\ Created
    BY PairingAssumption
       DEF PairingAssumption, Init, Types, PanelTypes, Created, States, Keys
  <1>2. Init => OneAsk
    BY PairingAssumption DEF PairingAssumption, Init, OneAsk
  <1>3. Types /\ Created /\ OneAsk /\ [Next]_vars => Types' /\ Created' /\ OneAsk'
    BY CreatedStep, PanelStep DEF Types
  <1> QED
    BY <1>1, <1>2, <1>3, PTL DEF Spec

-----------------------------------------------------------------------------
(* Rotation                                                                *)

\* No key is newer than its host, a retired one is older, and the rotation in
\* progress computes the next version.
Rotated ==
    /\ \A k \in issued : version[k[1]] = 0 \/ k[2] <= version[k[1]]
    /\ \A k \in retired : version[k[1]] = 0 \/ k[2] < version[k[1]]
    /\ \A r \in Rotations : rotating[r] # None =>
         version[rotating[r]] = 0 \/ newVersion[r] = version[rotating[r]] + 1

LEMMA RotatedStep ==
    ASSUME OneRotation, Types, Created, Rotated, [Next]_vars
    PROVE  Rotated'
  <1> USE PairingAssumption
      DEF PairingAssumption, Types, Created, Rotated, States, Keys,
          tokenVars, pairVars, rotateVars, keyVars, Others
  <1>1. CASE Unseen
    BY <1>1 DEF Unseen
  <1>2. ASSUME NEW k \in Asks, NEW t \in Tokens, CreateToken(k, t) PROVE Rotated'
    BY <1>2 DEF CreateToken
  <1>3. ASSUME NEW t \in Tokens, ExpireToken(t) PROVE Rotated'
    BY <1>3 DEF ExpireToken
  <1>4. ASSUME NEW h \in Hosts, RemoveHost(h) PROVE Rotated'
    BY <1>4 DEF RemoveHost
  <1>5. ASSUME NEW p \in Pairs, PairRead(p) \/ PairReply(p) PROVE Rotated'
    BY <1>5 DEF PairRead, PairReply
  <1>6. ASSUME NEW p \in Pairs, PairHost(p) PROVE Rotated'
    BY <1>6 DEF PairHost
  <1>7. ASSUME NEW p \in Pairs, PairMark(p) PROVE Rotated'
    BY <1>7 DEF PairMark
  <1>8. ASSUME NEW r \in Rotations, RotateWrite(r) PROVE Rotated'
    <2>1. \A s \in Rotations : rotating'[s] = None
      BY <1>8 DEF RotateWrite, OneRotation
    <2>2. rotating[r] \in Hosts /\ newVersion[r] \in Nat
      BY <1>8 DEF RotateWrite
    <2>3. CASE version[rotating[r]] = 0
      BY <1>8, <2>1, <2>2, <2>3 DEF RotateWrite
    <2>4. CASE version[rotating[r]] # 0
      <3> DEFINE h == rotating[r]
      <3>1. /\ newVersion[r] = version[h] + 1
            /\ version' = [version EXCEPT ![h] = newVersion[r]]
            /\ retired' = retired \cup {k \in issued : k[1] = h}
            /\ issued' = issued \cup {<<h, newVersion[r]>>}
        BY <1>8, <2>2, <2>4 DEF RotateWrite
      <3>2. \A k \in issued' : version'[k[1]] = 0 \/ k[2] <= version'[k[1]]
        BY <2>2, <3>1
      <3>3. \A k \in retired' : version'[k[1]] = 0 \/ k[2] < version'[k[1]]
        BY <2>2, <3>1
      <3> QED
        BY <2>1, <3>2, <3>3
    <2> QED
      BY <2>3, <2>4
  <1>9. ASSUME NEW r \in Rotations, NEW h \in Hosts, RotateRead(r, h) PROVE Rotated'
    BY <1>9 DEF RotateRead
  <1>10. ASSUME NEW a \in Agents, SendPair(a) PROVE Rotated'
    BY <1>10 DEF SendPair
  <1>11. CASE ControlPlaneRestart
    BY <1>11 DEF ControlPlaneRestart
  <1> QED
    BY <1>1, <1>2, <1>3, <1>4, <1>5, <1>6, <1>7, <1>8, <1>9, <1>10, <1>11, PairingSteps

\* Pairing keeps RotatedKeyRefused while rotations of keys come one at a time:
\* a key handed out before a rotation is not accepted after (verifyAgentKey).
THEOREM RotationRetires == ASSUME OneRotation PROVE Spec => []RotatedKeyRefused
  <1>1. Init => Rotated
    BY DEF Init, Rotated
  <1>2. Types /\ Created /\ Rotated /\ [Next]_vars => Rotated'
    BY RotatedStep
  <1>3. Types /\ Rotated => RotatedKeyRefused
    BY PairingAssumption
       DEF PairingAssumption, Types, Keys, Rotated, RotatedKeyRefused, Accepted
  <1> QED
    BY <1>1, <1>2, <1>3, HostsAndRequests, PTL DEF Spec

-----------------------------------------------------------------------------
(* One key for a token                                                     *)

\* The token of a request that is past its check is unused, and a key that was
\* paired for has used its token up.
UsedUp ==
    /\ \A p \in Pairs : pairing[p] \in {"host", "mark"} =>
         token[pairToken[p]] \in {"open", "expired"}
    /\ \A k \in issued : k[2] = 1 => token[createdWith[k[1]]] = "used"
    /\ OneKeyPerToken

LEMMA UsedUpStep ==
    ASSUME OnePair, Types, Created, UsedUp, [Next]_vars
    PROVE  UsedUp'
  <1> USE PairingAssumption
      DEF PairingAssumption, Types, Created, UsedUp, OneKeyPerToken, States, Keys,
          tokenVars, pairVars, rotateVars, keyVars, Others
  <1>1. CASE Unseen
    BY <1>1 DEF Unseen
  <1>2. ASSUME NEW k \in Asks, NEW t \in Tokens, CreateToken(k, t) PROVE UsedUp'
    BY <1>2 DEF CreateToken
  <1>3. ASSUME NEW t \in Tokens, ExpireToken(t) PROVE UsedUp'
    BY <1>3 DEF ExpireToken
  <1>4. ASSUME NEW h \in Hosts, RemoveHost(h) PROVE UsedUp'
    BY <1>4 DEF RemoveHost
  <1>5. ASSUME NEW p \in Pairs, PairRead(p) \/ PairReply(p) PROVE UsedUp'
    BY <1>5 DEF PairRead, PairReply
  <1>6. ASSUME NEW p \in Pairs, PairHost(p) PROVE UsedUp'
    <2>1. PICK h \in Hosts : /\ createdWith[h] = None
                             /\ createdWith' = [createdWith EXCEPT ![h] = pairToken[p]]
      BY <1>6 DEF PairHost
    <2>2. \A k \in issued : createdWith'[k[1]] = createdWith[k[1]]
      BY <2>1
    <2>3. /\ pairing[p] = "host" /\ pairing' = [pairing EXCEPT ![p] = "mark"]
          /\ UNCHANGED <<token, pairToken, issued>>
      BY <1>6 DEF PairHost
    <2> QED
      BY <2>2, <2>3
  <1>7. ASSUME NEW p \in Pairs, PairMark(p) PROVE UsedUp'
    <2> DEFINE t == pairToken[p]
               new == <<pairHost[p], 1>>
    <2>1. /\ t \in Tokens /\ pairHost[p] \in Hosts /\ createdWith[pairHost[p]] = t
          /\ token[t] # "used" /\ UNCHANGED <<createdWith, pairToken>>
          /\ \A q \in Pairs : pairing'[q] \notin {"host", "mark"}
      BY <1>7 DEF PairMark, OnePair
    <2>2. CASE version[pairHost[p]] = 0
      BY <1>7, <2>1, <2>2 DEF PairMark
    <2>3. CASE version[pairHost[p]] # 0
      <3>1. /\ token' = [token EXCEPT ![t] = "used"]
            /\ issued' = issued \cup {new}
        BY <1>7, <2>3 DEF PairMark
      <3>2. \A k \in issued : k[2] = 1 => createdWith[k[1]] # t
        BY <2>1
      <3>3. \A k \in issued' : k[2] = 1 => token'[createdWith[k[1]]] = "used"
        BY <2>1, <3>1
      <3>4. \A j, k \in issued' :
              j[2] = 1 /\ k[2] = 1 /\ createdWith[j[1]] = createdWith[k[1]] => j = k
        BY <2>1, <3>1, <3>2
      <3> QED
        BY <2>1, <3>3, <3>4
    <2> QED
      BY <2>2, <2>3
  <1>8. ASSUME NEW r \in Rotations, RotateWrite(r) PROVE UsedUp'
    <2>1. \A k \in issued' : k[2] = 1 => k \in issued
      BY <1>8 DEF RotateWrite
    <2>2. UNCHANGED <<token, createdWith, pairing, pairToken>>
      BY <1>8 DEF RotateWrite
    <2> QED
      BY <2>1, <2>2
  <1>9. ASSUME NEW r \in Rotations, NEW h \in Hosts, RotateRead(r, h) PROVE UsedUp'
    BY <1>9 DEF RotateRead
  <1>10. ASSUME NEW a \in Agents, SendPair(a) PROVE UsedUp'
    BY <1>10 DEF SendPair
  <1>11. CASE ControlPlaneRestart
    BY <1>11 DEF ControlPlaneRestart
  <1> QED
    BY <1>1, <1>2, <1>3, <1>4, <1>5, <1>6, <1>7, <1>8, <1>9, <1>10, <1>11, PairingSteps

\* Pairing keeps OneKeyPerToken while pair requests come one at a time: of the
\* keys that pair() hands out, no two stem from one token.
THEOREM TokenUsedOnce == ASSUME OnePair PROVE Spec => []OneKeyPerToken
  <1>1. Init => UsedUp
    BY DEF Init, UsedUp, OneKeyPerToken
  <1>2. Types /\ Created /\ UsedUp /\ [Next]_vars => UsedUp'
    BY UsedUpStep
  <1>3. UsedUp => OneKeyPerToken
    BY DEF UsedUp
  <1> QED
    BY <1>1, <1>2, <1>3, HostsAndRequests, PTL DEF Spec
=============================================================================
