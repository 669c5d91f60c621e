------------------------------ MODULE Registry ------------------------------
(***************************************************************************)
(* The rows of hosts and server instances, and who writes them.            *)
(*                                                                         *)
(* An agent reports the game server it finds each time it starts; the      *)
(* control plane looks for the row it means, awaits, and creates or        *)
(* updates one.  Operators register, edit and unregister rows through the  *)
(* Hosts page, which shows what its last fetch to arrive returned.  A row  *)
(* keeps what the properties tell apart: its host, its install path and    *)
(* who set it, who set its start command, and whether it is managed.       *)
(***************************************************************************)
EXTENDS Integers, FiniteSets, FiniteSetsExt

CONSTANTS
    Hosts, Paths, None,
    Discoveries,  \* discovery requests that may be in progress at once
    Fetches,      \* fetches of the page that may be in progress at once
    MaxServers, MaxOps, MaxFaults   \* bounds: rows, operations, failures

\* A row of ServerInstance, and what a discovery read.
ServerRows == [host: Hosts, path: Paths, command: {"agent", "op", "none"},
               managed: BOOLEAN, by: {"agent", "op"}, raced: BOOLEAN]
Reads == [host: Hosts, path: Paths, id: 0..MaxServers, stale: BOOLEAN,
          managed: BOOLEAN, open: BOOLEAN]

ASSUME RegistryAssumption ==
    /\ None \notin Hosts \cup Paths \cup Discoveries \cup Fetches
    /\ None \notin ServerRows /\ None \notin Reads
    /\ MaxServers \in Nat \ {0} /\ MaxOps \in Nat /\ MaxFaults \in Nat

VARIABLES
    hosts, status,  \* rows of Host and their status
    server,         \* rows of ServerInstance by creation; None without one
    created,        \* rows created so far
    running,        \* hosts whose agent runs
    found,          \* the install path the agent of a host finds
    discovery,      \* upsertDiscovered7DtdInstance: what it read
    removing,       \* HostsService.remove: hosts whose servers were counted
    posts, answers, \* the register form: requests and answers on their way
    shown,          \* the page: the hosts and servers it lists
    selected,       \* the page: the host of the detail panel
    fetch,          \* the page: the two answers of a fetch
    ops, faults

rowVars   == <<hosts, status, server, created>>
agentVars == <<running, found, discovery>>
formVars  == <<posts, answers>>
pageVars  == <<shown, selected, fetch>>
vars == <<hosts, status, server, created, running, found, discovery, removing,
          posts, answers, shown, selected, fetch, ops, faults>>

Ids == 1..MaxServers
Fault == faults < MaxFaults /\ faults' = faults + 1
Operation == ops < MaxOps /\ ops' = ops + 1

\* What the tables of the page list.
ListedHosts   == shown.hosts
ListedServers == shown.servers

Rows      == {id \in Ids : server[id] # None}
RowsOf(h) == {id \in Rows : server[id].host = h}

\* A write to a row of h makes what a discovery read of h stale.
Stale(h) == discovery' = [d \in Discoveries |->
    IF discovery[d] # None /\ discovery[d].host = h
    THEN [discovery[d] EXCEPT !.stale = TRUE] ELSE discovery[d]]

\* A new row; the host is a foreign key.
Create(h, row) ==
    /\ h \in hosts /\ created < MaxServers
    /\ created' = created + 1
    /\ server' = [server EXCEPT ![created + 1] = row]

Init ==
    /\ hosts = Hosts /\ status = [h \in Hosts |-> "unknown"]
    /\ server = [id \in Ids |-> None] /\ created = 0
    /\ running = Hosts /\ found \in [Hosts -> Paths]
    /\ discovery = [d \in Discoveries |-> None]
    /\ removing = {}
    /\ posts = 0 /\ answers = 0
    /\ shown = [hosts |-> {}, servers |-> {}] /\ selected = None
    /\ fetch = [f \in Fetches |-> None]
    /\ ops = 0 /\ faults = 0

-----------------------------------------------------------------------------
(* The agent.                                                              *)

AgentStops(h) ==
    /\ Fault /\ h \in running /\ running' = running \ {h}
    /\ UNCHANGED <<rowVars, found, discovery, removing, formVars, pageVars, ops>>

\* The agent starts again, perhaps with the game installed elsewhere.
AgentStarts(h) ==
    /\ h \notin running /\ running' = running \cup {h}
    /\ \E p \in Paths : found' = [found EXCEPT ![h] = p]
    /\ UNCHANGED <<rowVars, discovery, removing, formVars, pageVars, ops, faults>>

\* The row a report means: the oldest with its path, or the host's only row.
MatchOnlyRow(h, p) == IF Cardinality(RowsOf(h)) = 1 THEN Min(RowsOf(h)) ELSE 0
Match(h, p) ==
    LET same == {id \in RowsOf(h) : server[id].path = p}
    IN  IF same # {} THEN Min(same)
        ELSE IF Cardinality(RowsOf(h)) = 1 THEN Min(RowsOf(h)) ELSE 0

DiscoverRead(d) ==
    \E h \in running \cap hosts :
      LET id == Match(h, found[h])
      IN  /\ Operation /\ discovery[d] = None
          /\ discovery' = [discovery EXCEPT ![d] =
               [host |-> h, path |-> found[h], id |-> id, stale |-> FALSE,
                managed |-> id # 0 /\ server[id].managed,
                open |-> id # 0 /\ server[id].command = "none"]]
          /\ UNCHANGED <<rowVars, running, found, removing, formVars, pageVars, faults>>

\* The answer of a discovery whose row or host is gone is an error.
DiscoverEnds(d) ==
    discovery' = [e \in Discoveries |->
        IF e = d \/ discovery[e] = None \/ discovery[e].host # discovery[d].host
        THEN IF e = d THEN None ELSE discovery[e]
        ELSE [discovery[e] EXCEPT !.stale = TRUE]]

DiscoverCreate(d) ==
    LET r == discovery[d]
    IN  /\ r # None /\ r.id = 0
        /\ Create(r.host, [host |-> r.host, path |-> r.path, command |-> "agent",
                           managed |-> TRUE, by |-> "agent", raced |-> r.stale])
        /\ DiscoverEnds(d)
        /\ UNCHANGED <<hosts, status, running, found, removing, formVars, pageVars, ops, faults>>
UpdatedAlways(row, r) ==
    [row EXCEPT !.path = r.path, !.by = IF row.path = r.path THEN @ ELSE "agent",
               !.managed = TRUE, !.raced = @ \/ r.stale, !.command = "agent"]
Updated(row, r) ==
    [row EXCEPT !.path = r.path, !.by = IF row.path = r.path THEN @ ELSE "agent",
               !.managed = TRUE, !.raced = @ \/ r.stale,
               !.command = IF r.managed \/ r.open THEN "agent" ELSE @]
DiscoverUpdate(d) ==
    LET r == discovery[d]
    IN  /\ r # None /\ r.id \in Rows
        /\ server' = [server EXCEPT ![r.id] = Updated(@, r)]
        /\ DiscoverEnds(d)
        /\ UNCHANGED <<hosts, status, created, running, found, removing,
                       formVars, pageVars, ops, faults>>
DiscoverThrows(d) ==
    LET r == discovery[d]
    IN  /\ r # None
        /\ \/ r.id # 0 /\ r.id \notin Rows
           \/ r.id = 0 /\ r.host \notin hosts
        /\ discovery' = [discovery EXCEPT ![d] = None]
        /\ UNCHANGED <<rowVars, running, found, removing, formVars, pageVars, ops, faults>>

\* The update of a host that was removed since it was read fails.
Heartbeat(h) ==
    /\ h \in running \cap hosts /\ status' = [status EXCEPT ![h] = "online"]
    /\ UNCHANGED <<hosts, server, created, agentVars, removing, formVars, pageVars, ops, faults>>

-----------------------------------------------------------------------------
(* The operators' requests.                                                *)

Submit ==
    /\ Operation /\ ListedHosts # {} /\ posts + answers = 0 /\ posts' = 1
    /\ UNCHANGED <<rowVars, agentVars, removing, answers, pageVars, faults>>

\* The form's start command may be empty.
Commands == {"op", "none"}

CreateServer(h, p, c) ==
    /\ posts > 0 /\ posts' = posts - 1 /\ answers' = answers + 1
    /\ Create(h, [host |-> h, path |-> p, command |-> c, managed |-> FALSE,
                  by |-> "op", raced |-> FALSE])
    /\ Stale(h)
    /\ UNCHANGED <<hosts, status, running, found, removing, pageVars, ops, faults>>
CreateFails ==
    /\ posts > 0 /\ posts' = posts - 1
    /\ \/ Fault
       \/ hosts # Hosts /\ UNCHANGED faults  \* the host chosen is gone
    /\ UNCHANGED <<rowVars, agentVars, removing, answers, pageVars, ops>>

\* The answer clears the form; a lost one leaves it to be submitted again.
CreateAnswered ==
    /\ answers > 0 /\ answers' = answers - 1
    /\ UNCHANGED <<rowVars, agentVars, removing, posts, pageVars, ops, faults>>

\* An edit sets the fields it names: a start command or a path.
UpdateServer(id) ==
    /\ Operation /\ id \in Rows /\ Stale(server[id].host)
    /\ \/ server' = [server EXCEPT ![id].command = "op"]
       \/ \E p \in Paths \ {server[id].path} :
            server' = [server EXCEPT ![id].path = p, ![id].by = "op"]
    /\ UNCHANGED <<hosts, status, created, running, found, removing,
                   formVars, pageVars, faults>>

RemoveServer(id) ==
    /\ Operation /\ id \in ListedServers \cap Rows /\ Stale(server[id].host)
    /\ server' = [server EXCEPT ![id] = None]
    /\ UNCHANGED <<hosts, status, created, running, found, removing,
                   formVars, pageVars, faults>>

\* The servers are counted first; the transaction is held to the foreign key.
RemoveHostRead(h) ==
    /\ Operation /\ h \in (ListedHosts \cap hosts) \ removing
    /\ RowsOf(h) = {} /\ removing' = removing \cup {h}
    /\ UNCHANGED <<rowVars, agentVars, formVars, pageVars, faults>>
Delete(h) == IF RowsOf(h) = {} THEN hosts \ {h} ELSE hosts
RemoveHostWrite(h) ==
    /\ h \in removing /\ removing' = removing \ {h}
    /\ hosts' = Delete(h)
    /\ selected' = IF selected = h /\ h \notin hosts' THEN None ELSE selected
    /\ UNCHANGED <<status, server, created, agentVars, formVars, shown, fetch, ops, faults>>

-----------------------------------------------------------------------------
(* The page's lists: a fetch is two requests, applied when both are        *)
(* answered, in whatever order fetches end.                                *)

Unanswered == [hosts |-> None, servers |-> None]

\* The first fetch without the polls.
StartFirst(f) ==
    /\ shown.hosts = {} /\ \A g \in Fetches : fetch[g] = None
    /\ fetch' = [fetch EXCEPT ![f] = Unanswered]
    /\ UNCHANGED <<rowVars, agentVars, removing, formVars, shown, selected, ops, faults>>
\* A poll, or the fetch after a request of the operator; one beside another
\* counts as an operation.
StartFetch(f) ==
    /\ fetch[f] = None /\ fetch' = [fetch EXCEPT ![f] = Unanswered]
    /\ IF \A g \in Fetches : fetch[g] = None THEN UNCHANGED ops ELSE Operation
    /\ UNCHANGED <<rowVars, agentVars, removing, formVars, shown, selected, faults>>
AnswerHosts(f) ==
    /\ fetch[f] # None /\ fetch[f].hosts = None
    /\ fetch' = [fetch EXCEPT ![f].hosts = hosts]
    /\ UNCHANGED <<rowVars, agentVars, removing, formVars, shown, selected, ops, faults>>
AnswerServers(f) ==
    /\ fetch[f] # None /\ fetch[f].servers = None
    /\ fetch' = [fetch EXCEPT ![f].servers = Rows]
    /\ UNCHANGED <<rowVars, agentVars, removing, formVars, shown, selected, ops, faults>>
Apply(f) ==
    /\ fetch[f] # None /\ fetch[f].hosts # None /\ fetch[f].servers # None
    /\ shown' = fetch[f] /\ fetch' = [fetch EXCEPT ![f] = None]
    /\ UNCHANGED <<rowVars, agentVars, removing, formVars, selected, ops, faults>>
\* A failed poll is ignored.
FetchFails(f) ==
    /\ Fault /\ fetch[f] # None /\ fetch' = [fetch EXCEPT ![f] = None]
    /\ UNCHANGED <<rowVars, agentVars, removing, formVars, shown, selected, ops>>

Select(h) ==
    /\ h \in ListedHosts /\ Operation /\ selected' = IF selected = h THEN None ELSE h
    /\ UNCHANGED <<rowVars, agentVars, removing, formVars, shown, fetch, faults>>

-----------------------------------------------------------------------------
Next ==
    \/ \E h \in Hosts :
         \/ AgentStops(h) \/ AgentStarts(h) \/ Heartbeat(h)
         \/ RemoveHostRead(h) \/ RemoveHostWrite(h) \/ Select(h)
         \/ \E p \in Paths, c \in Commands : CreateServer(h, p, c)
    \/ \E d \in Discoveries :
         DiscoverRead(d) \/ DiscoverCreate(d) \/ DiscoverUpdate(d) \/ DiscoverThrows(d)
    \/ Submit \/ CreateFails \/ CreateAnswered
    \/ \E id \in Ids : UpdateServer(id) \/ RemoveServer(id)
    \/ \E f \in Fetches :
         \/ StartFetch(f) \/ AnswerHosts(f) \/ AnswerServers(f) \/ Apply(f)
         \/ FetchFails(f)

\* The page polls, its requests are answered, the agents beat.
FairSpec ==
    /\ Init /\ [][Next]_vars
    /\ \A f \in Fetches : WF_vars(StartFetch(f)) /\ WF_vars(AnswerHosts(f))
                          /\ WF_vars(AnswerServers(f)) /\ WF_vars(Apply(f))
    /\ \A h \in Hosts : WF_vars(RemoveHostWrite(h))
    /\ \A d \in Discoveries : WF_vars(DiscoverCreate(d) \/ DiscoverUpdate(d) \/ DiscoverThrows(d))

-----------------------------------------------------------------------------
\* Discovery keeps one row per installation.  Two rows of a host with the path
\* an agent reported need a discovery that decided on rows which changed while
\* it awaited: two starts of the agent, or one beside an operator's edit.
OneRowPerInstall ==
    \A i, j \in Rows :
      /\ i # j /\ server[i].host = server[j].host /\ server[i].path = server[j].path
      /\ server[i].by = "agent" /\ server[j].by = "agent"
      => server[i].raced \/ server[j].raced

\* The start command an operator gave is replaced only in a row which an
\* earlier discovery has made its own, or by a discovery that raced the edit.
OperatorCommandKept ==
    [][\A id \in Rows :
         server[id].command = "op" /\ server'[id] # None /\ server'[id].command = "agent"
         => server[id].managed \/ server'[id].raced]_vars

\* Once nothing changes any more, the page lists the rows there are, whatever
\* the order in which the answers of its fetches arrived.
PageCatchesUp == <>[](ListedHosts = hosts /\ ListedServers = Rows)

=============================================================================
