--------------------------- MODULE RegistryProofs ---------------------------
(***************************************************************************)
(* The safety properties of Registry for any number of hosts, paths, rows, *)
(* discoveries and operations.                                             *)
(*                                                                         *)
(* A discovery decides on the rows it read and writes after it awaited.    *)
(* The invariant says that what it read is still so, unless a write to a   *)
(* row of its host was made meanwhile.                                     *)
(***************************************************************************)
EXTENDS Registry, FiniteSetTheorems, WellFoundedInduction, TLAPS

Types ==
    /\ hosts \subseteq Hosts
    /\ created \in 0..MaxServers
    /\ server \in [Ids -> ServerRows \cup {None}]
    /\ \A id \in Ids : id > created => server[id] = None
    /\ found \in [Hosts -> Paths]
    /\ discovery \in [Discoveries -> Reads \cup {None}]

\* The row a discovery chose is of its host, as long as it exists.
ReadItsHost ==
    \A d \in Discoveries : discovery[d] # None =>
        /\ discovery[d].id =< created
        /\ discovery[d].id \in Rows => server[discovery[d].id].host = discovery[d].host

\* No row of the host has the path.
Unknown(h, p) == \A id \in RowsOf(h) : server[id].path # p

\* What a discovery decided on holds.
Sound(r) ==
    /\ r.id = 0 => Unknown(r.host, r.path)
    /\ r.id # 0 =>
         /\ r.id \in RowsOf(r.host)
         /\ server[r.id].path = r.path \/ Unknown(r.host, r.path)
         /\ r.managed => server[r.id].managed
         /\ r.open => server[r.id].command # "op"

ReadIsSound ==
    \A d \in Discoveries : discovery[d] # None /\ ~discovery[d].stale => Sound(discovery[d])

-----------------------------------------------------------------------------
(* The row a report means                                                  *)

LEMMA MinIsMember ==
    ASSUME NEW S, S \subseteq Nat, S # {}
    PROVE  Min(S) \in S
  <1>1. PICK x \in S : \A y \in S : ~(<<y, x>> \in OpToRel(<, Nat))
    BY NatLessThanWellFounded, WFMin
  <1>2. ASSUME NEW y \in S PROVE x =< y
    <2>1. <<y, x>> \notin OpToRel(<, Nat)
      BY <1>1
    <2>2. y \in Nat /\ x \in Nat
      OBVIOUS
    <2>3. <<y, x>> \in OpToRel(<, Nat) <=> y < x
      BY <2>2 DEF OpToRel
    <2>4. ~(y < x)
      BY <2>1, <2>3, Zenon
    <2> QED
      BY <2>2, <2>4
  <1> QED
    BY <1>2 DEF Min

\* Match returns the row with the path, or the only row, or 0 for neither.
LEMMA MatchIs ==
    ASSUME Types, NEW h \in Hosts, NEW p \in Paths
    PROVE  /\ Match(h, p) = 0 => Unknown(h, p)
           /\ Match(h, p) # 0 =>
                /\ Match(h, p) \in RowsOf(h)
                /\ server[Match(h, p)].path = p \/ Unknown(h, p)
  <1> DEFINE same == {id \in RowsOf(h) : server[id].path = p}
  <1>1. RowsOf(h) \subseteq Nat
    BY RegistryAssumption DEF RegistryAssumption, RowsOf, Rows, Ids
  <1>2. CASE same # {}
    <2>1. Min(same) \in same
      BY <1>1, <1>2, MinIsMember
    <2>2. Match(h, p) = Min(same)
      BY <1>2 DEF Match
    <2>3. 0 \notin RowsOf(h)
      BY RegistryAssumption DEF RegistryAssumption, RowsOf, Rows, Ids
    <2> QED
      BY <2>1, <2>2, <2>3
  <1>3. CASE same = {}
    <2>1. Unknown(h, p)
      BY <1>3 DEF Unknown
    <2>2. Cardinality(RowsOf(h)) = 1 => Min(RowsOf(h)) \in RowsOf(h)
      BY <1>1, MinIsMember, FS_EmptySet
    <2>3. Match(h, p) = IF Cardinality(RowsOf(h)) = 1 THEN Min(RowsOf(h)) ELSE 0
      BY <1>3 DEF Match
    <2> QED
      BY <2>1, <2>2, <2>3
  <1> QED
    BY <1>2, <1>3

-----------------------------------------------------------------------------
(* Steps                                                                   *)

Untouched == UNCHANGED <<hosts, created, server, found, discovery>>

LEMMA RegistrySteps ==
    ASSUME [Next]_vars
    PROVE  \/ Untouched
           \/ \E h \in Hosts : AgentStarts(h) \/ RemoveHostWrite(h)
           \/ \E h \in Hosts, p \in Paths, c \in Commands : CreateServer(h, p, c)
           \/ \E d \in Discoveries :
                DiscoverRead(d) \/ DiscoverCreate(d) \/ DiscoverUpdate(d) \/ DiscoverThrows(d)
           \/ \E id \in Ids : UpdateServer(id) \/ RemoveServer(id)
  <1> USE DEF Untouched, rowVars, agentVars
  <1>1. ASSUME NEW h \in Hosts, AgentStops(h) \/ Heartbeat(h) \/ RemoveHostRead(h) \/ Select(h)
        PROVE  Untouched
    BY <1>1 DEF AgentStops, Heartbeat, RemoveHostRead, Select
  <1>2. CASE Submit \/ CreateFails \/ CreateAnswered
    BY <1>2 DEF Submit, CreateFails, CreateAnswered
  <1>3. ASSUME NEW f \in Fetches,
               StartFetch(f) \/ AnswerHosts(f) \/ AnswerServers(f) \/ Apply(f) \/ FetchFails(f)
        PROVE  Untouched
    BY <1>3 DEF StartFetch, AnswerHosts, AnswerServers, Apply, FetchFails
  <1>4. CASE UNCHANGED vars
    BY <1>4 DEF vars
  <1> QED
    BY <1>1, <1>2, <1>3, <1>4 DEF Next

\* An edit sets the start command, or the path and who set it.
LEMMA UpdateIs ==
    ASSUME Types, NEW id \in Ids, UpdateServer(id)
    PROVE  \E row \in ServerRows :
             /\ server' = [server EXCEPT ![id] = row]
             /\ row.host = server[id].host /\ row.raced = server[id].raced
             /\ \/ row.command = "op" /\ row.path = server[id].path /\ row.by = server[id].by
                \/ row.command = server[id].command /\ row.by = "op"
  <1> DEFINE Goal == \E row \in ServerRows :
             /\ server' = [server EXCEPT ![id] = row]
             /\ row.host = server[id].host /\ row.raced = server[id].raced
             /\ \/ row.command = "op" /\ row.path = server[id].path /\ row.by = server[id].by
                \/ row.command = server[id].command /\ row.by = "op"
  <1>1. server[id] \in ServerRows
    BY DEF Types, UpdateServer, Rows
  <1>2. CASE server' = [server EXCEPT ![id].command = "op"]
    <2> DEFINE row == [server[id] EXCEPT !.command = "op"]
    <2>1. /\ row \in ServerRows /\ row.host = server[id].host /\ row.raced = server[id].raced
          /\ row.command = "op" /\ row.path = server[id].path /\ row.by = server[id].by
      BY <1>1 DEF ServerRows
    <2> QED
      BY <1>2, <2>1
  <1>3. ASSUME NEW p \in Paths, server' = [server EXCEPT ![id].path = p, ![id].by = "op"]
        PROVE  Goal
    <2> DEFINE row == [server[id] EXCEPT !.path = p, !.by = "op"]
    <2>1. /\ row \in ServerRows /\ row.host = server[id].host /\ row.raced = server[id].raced
          /\ row.command = server[id].command /\ row.by = "op"
      BY <1>1 DEF ServerRows
    <2>2. server' = [server EXCEPT ![id] = row]
      BY <1>3 DEF Types
    <2> HIDE DEF row
    <2> QED
      BY <2>1, <2>2
  <1> QED
    BY <1>2, <1>3 DEF UpdateServer

LEMMA TypesStep ==
    ASSUME Types, ReadItsHost, [Next]_vars
    PROVE  Types'
  <1> USE RegistryAssumption DEF RegistryAssumption, Types, Ids
  <1>1. CASE Untouched
    BY <1>1 DEF Untouched
  <1>2. ASSUME NEW h \in Hosts, AgentStarts(h) PROVE Types'
    BY <1>2 DEF AgentStarts, rowVars
  <1>3. ASSUME NEW h \in Hosts, RemoveHostWrite(h) PROVE Types'
    BY <1>3 DEF RemoveHostWrite, Delete, agentVars
  <1>4. ASSUME NEW h \in Hosts, Stale(h)
        PROVE  discovery' \in [Discoveries -> Reads \cup {None}]
    <2>1. ASSUME NEW d \in Discoveries, discovery[d] # None
          PROVE  [discovery[d] EXCEPT !.stale = TRUE] \in Reads
      BY <2>1 DEF Reads
    <2> QED
      BY <1>4, <2>1 DEF Stale
  <1>5. ASSUME NEW d \in Discoveries, DiscoverEnds(d)
        PROVE  discovery' \in [Discoveries -> Reads \cup {None}]
    BY <1>5, ZenonT(60) DEF DiscoverEnds, Reads
  <1>6. ASSUME NEW h \in hosts, NEW row \in ServerRows, Create(h, row)
        PROVE  /\ created' \in 0..MaxServers
               /\ server' \in [Ids -> ServerRows \cup {None}]
               /\ \A id \in Ids : id > created' => server'[id] = None
    BY <1>6 DEF Create
  <1>7. ASSUME NEW h \in Hosts, NEW p \in Paths, NEW c \in Commands, CreateServer(h, p, c)
        PROVE  Types'
    <2>1. [host |-> h, path |-> p, command |-> c, managed |-> FALSE, by |-> "op",
           raced |-> FALSE] \in ServerRows /\ h \in hosts
      BY <1>7 DEF ServerRows, Commands, CreateServer, Create
    <2> QED
      BY <1>4, <1>6, <1>7, <2>1 DEF CreateServer
  <1>8. ASSUME NEW d \in Discoveries, DiscoverRead(d) PROVE Types'
    <2>1. PICK h \in running \cap hosts : 
            discovery' = [discovery EXCEPT ![d] =
               [host |-> h, path |-> found[h], id |-> Match(h, found[h]), stale |-> FALSE,
                managed |-> Match(h, found[h]) # 0 /\ server[Match(h, found[h])].managed,
                open |-> Match(h, found[h]) # 0 /\ server[Match(h, found[h])].command = "none"]]
      BY <1>8 DEF DiscoverRead
    <2>2. Match(h, found[h]) # 0 => Match(h, found[h]) \in RowsOf(h)
      BY MatchIs
    <2>3. discovery'[d] \in Reads
      BY <2>1, <2>2 DEF Reads, RowsOf, Rows, ServerRows
    <2> QED
      BY <1>8, <2>1, <2>3 DEF DiscoverRead, rowVars
  <1>9. ASSUME NEW d \in Discoveries, DiscoverCreate(d) PROVE Types'
    <2> DEFINE r == discovery[d]
               row == [host |-> r.host, path |-> r.path, command |-> "agent",
                       managed |-> TRUE, by |-> "agent", raced |-> r.stale]
    <2>1. row \in ServerRows /\ r.host \in hosts
      BY <1>9 DEF ServerRows, Reads, DiscoverCreate, Create
    <2> QED
      BY <1>5, <1>6, <1>9, <2>1 DEF DiscoverCreate
  <1>10. ASSUME NEW d \in Discoveries, DiscoverUpdate(d) PROVE Types'
    <2> DEFINE r == discovery[d]
    <2>1. server[r.id] \in ServerRows /\ r \in Reads /\ r.id \in Ids
      BY <1>10 DEF DiscoverUpdate, Rows
    <2>2. Updated(server[r.id], r) \in ServerRows
      BY <2>1 DEF Updated, ServerRows, Reads
    <2>3. r.id =< created
      BY <1>10 DEF DiscoverUpdate, ReadItsHost
    <2> QED
      BY <1>5, <1>10, <2>1, <2>2, <2>3 DEF DiscoverUpdate, Reads
  <1>11. ASSUME NEW d \in Discoveries, DiscoverThrows(d) PROVE Types'
    BY <1>11 DEF DiscoverThrows, rowVars
  <1>12. ASSUME NEW id \in Ids, UpdateServer(id) PROVE Types'
    <2>1. server[id].host \in Hosts
      BY <1>12 DEF UpdateServer, Rows, ServerRows
    <2>2. PICK row \in ServerRows : server' = [server EXCEPT ![id] = row]
      BY <1>12, UpdateIs
    <2> QED
      BY <1>4, <1>12, <2>1, <2>2 DEF UpdateServer, Rows
  <1>13. ASSUME NEW id \in Ids, RemoveServer(id) PROVE Types'
    <2>1. server[id].host \in Hosts
      BY <1>13 DEF RemoveServer, Rows, ServerRows
    <2> QED
      BY <1>4, <1>13, <2>1 DEF RemoveServer
  <1> QED
    BY RegistrySteps, <1>1, <1>2, <1>3, <1>7, <1>8, <1>9, <1>10, <1>11, <1>12, <1>13

-----------------------------------------------------------------------------
(* What a step leaves of a discovery's read                                *)

\* The rows of h are as they were.
Kept(h) ==
    \A id \in Ids :
      /\ id \in RowsOf(h) <=> server'[id] # None /\ server'[id].host = h
      /\ id \in RowsOf(h) => server'[id] = server[id]

\* Only rows of h change.
WritesTo(h) ==
    \A id \in Ids : server'[id] # server[id] =>
      /\ server[id] = None \/ server[id].host = h
      /\ server'[id] = None \/ server'[id].host = h

\* A read of which nothing was changed, or which is known to be stale.
Survives(d) ==
    \/ discovery'[d] = None
    \/ discovery[d] # None /\ discovery'[d] = [discovery[d] EXCEPT !.stale = TRUE]
    \/ discovery'[d] = discovery[d] /\ Kept(discovery[d].host)

\* A write to rows of one host leaves the others' reads as they are and
\* makes the reads of that host stale.
LEMMA WriteSurvived ==
    ASSUME NEW h \in Hosts, WritesTo(h), NEW d \in Discoveries,
           IF discovery[d] = None \/ discovery[d].host # h
             THEN discovery'[d] = discovery[d]
             ELSE discovery'[d] = [discovery[d] EXCEPT !.stale = TRUE]
    PROVE  Survives(d)
  <1>1. ASSUME discovery[d] # None, discovery[d].host # h PROVE Kept(discovery[d].host)
    BY <1>1 DEF Kept, WritesTo, RowsOf, Rows
  <1> QED
    BY <1>1 DEF Survives

LEMMA ReadStep ==
    ASSUME Types, ReadItsHost, [Next]_vars, NEW d \in Discoveries
    PROVE  Survives(d) \/ DiscoverRead(d)
  <1> USE DEF Types, Ids
  <1>1. ASSUME UNCHANGED server, discovery'[d] \in {None, discovery[d]} PROVE Survives(d)
    BY <1>1 DEF Survives, Kept, RowsOf, Rows
  <1>2. CASE Untouched
    BY <1>1, <1>2 DEF Untouched
  <1>3. ASSUME NEW h \in Hosts, AgentStarts(h) \/ RemoveHostWrite(h) PROVE Survives(d)
    BY <1>1, <1>3 DEF AgentStarts, RemoveHostWrite, rowVars, agentVars
  <1>4. ASSUME NEW h \in Hosts, Stale(h), WritesTo(h) PROVE Survives(d)
    BY <1>4, WriteSurvived DEF Stale
  <1>5. ASSUME NEW e \in Discoveries, DiscoverEnds(e), discovery[e] \in Reads,
               WritesTo(discovery[e].host)
        PROVE  Survives(d)
    <2>1. discovery[e].host \in Hosts
      BY <1>5 DEF Reads
    <2>2. CASE d = e
      BY <1>5, <2>2 DEF DiscoverEnds, Survives
    <2>3. CASE d # e
      BY <1>5, <2>1, <2>3, WriteSurvived DEF DiscoverEnds
    <2> QED
      BY <2>2, <2>3
  <1>6. ASSUME NEW h \in Hosts, NEW row, row.host = h, Create(h, row) PROVE WritesTo(h)
    BY <1>6, RegistryAssumption DEF RegistryAssumption, Create, WritesTo
  <1>7. ASSUME NEW h \in Hosts, NEW p \in Paths, NEW c \in Commands, CreateServer(h, p, c)
        PROVE  Survives(d)
    BY <1>4, <1>6, <1>7 DEF CreateServer
  <1>8. ASSUME NEW e \in Discoveries, DiscoverRead(e) PROVE Survives(d) \/ DiscoverRead(d)
    BY <1>1, <1>8 DEF DiscoverRead, rowVars
  <1>9. ASSUME NEW e \in Discoveries, DiscoverCreate(e) PROVE Survives(d)
    <2>1. discovery[e] \in Reads /\ discovery[e].host \in Hosts
      BY <1>9 DEF DiscoverCreate, Reads
    <2> QED
      BY <1>5, <1>6, <1>9, <2>1 DEF DiscoverCreate
  <1>10. ASSUME NEW e \in Discoveries, DiscoverUpdate(e) PROVE Survives(d)
    <2>1. discovery[e] \in Reads /\ server[discovery[e].id].host = discovery[e].host
      BY <1>10 DEF DiscoverUpdate, ReadItsHost
    <2>2. server[discovery[e].id] \in ServerRows
      BY <1>10 DEF DiscoverUpdate, Rows
    <2>3. Updated(server[discovery[e].id], discovery[e]).host = discovery[e].host
      BY <2>1, <2>2 DEF Updated, ServerRows
    <2>4. WritesTo(discovery[e].host)
      BY <1>10, <2>1, <2>3 DEF DiscoverUpdate, WritesTo
    <2> QED
      BY <1>5, <1>10, <2>1, <2>4 DEF DiscoverUpdate
  <1>11. ASSUME NEW e \in Discoveries, DiscoverThrows(e) PROVE Survives(d)
    BY <1>1, <1>11 DEF DiscoverThrows, rowVars
  <1>12. ASSUME NEW id \in Ids, UpdateServer(id) PROVE Survives(d)
    <2>1. server[id] \in ServerRows /\ server[id].host \in Hosts
      BY <1>12 DEF UpdateServer, Rows, ServerRows
    <2>2. WritesTo(server[id].host)
      BY <1>12, <2>1, ZenonT(60) DEF UpdateServer, WritesTo, ServerRows
    <2> QED
      BY <1>4, <1>12, <2>1, <2>2 DEF UpdateServer
  <1>13. ASSUME NEW id \in Ids, RemoveServer(id) PROVE Survives(d)
    <2>1. server[id].host \in Hosts
      BY <1>13 DEF RemoveServer, Rows, ServerRows
    <2>2. WritesTo(server[id].host)
      BY <1>13 DEF RemoveServer, WritesTo
    <2> QED
      BY <1>4, <1>13, <2>1, <2>2 DEF RemoveServer
  <1> QED
    BY RegistrySteps, <1>2, <1>3, <1>7, <1>8, <1>9, <1>10, <1>11, <1>12, <1>13

-----------------------------------------------------------------------------
(* The invariant                                                           *)

\* Rows are created in order and stay with their host.
LEMMA RowsKeepHost ==
    ASSUME Types, ReadItsHost, [Next]_vars
    PROVE  /\ created =< created' /\ created' \in Nat
           /\ \A id \in Ids : id =< created /\ server'[id] # None =>
                server[id] # None /\ server'[id].host = server[id].host
  <1> DEFINE Goal == /\ created =< created' /\ created' \in Nat
                     /\ \A id \in Ids : id =< created /\ server'[id] # None =>
                          server[id] # None /\ server'[id].host = server[id].host
  <1> USE RegistryAssumption DEF RegistryAssumption, Types, Ids
  <1>1. CASE UNCHANGED <<created, server>>
    BY <1>1
  <1>2. ASSUME NEW h, NEW row, Create(h, row) PROVE Goal
    BY <1>2 DEF Create
  <1>3. ASSUME NEW h \in Hosts, NEW p \in Paths, NEW c \in Commands, CreateServer(h, p, c)
        PROVE  Goal
    BY <1>2, <1>3 DEF CreateServer
  <1>4. ASSUME NEW d \in Discoveries, DiscoverCreate(d) PROVE Goal
    BY <1>2, <1>4 DEF DiscoverCreate
  <1>5. ASSUME NEW d \in Discoveries, DiscoverUpdate(d) PROVE Goal
    <2>1. server[discovery[d].id] \in ServerRows /\ server[discovery[d].id] # None
      BY <1>5 DEF DiscoverUpdate, Rows
    <2>2. Updated(server[discovery[d].id], discovery[d]).host = server[discovery[d].id].host
      BY <2>1 DEF Updated, ServerRows
    <2> QED
      BY <1>5, <2>1, <2>2 DEF DiscoverUpdate
  <1>6. ASSUME NEW id \in Ids, UpdateServer(id) PROVE Goal
    <2>1. PICK row \in ServerRows :
            server' = [server EXCEPT ![id] = row] /\ row.host = server[id].host
      BY <1>6, UpdateIs
    <2>2. server[id] # None /\ created' = created
      BY <1>6 DEF UpdateServer, Rows
    <2> QED
      BY <2>1, <2>2
  <1>7. ASSUME NEW id \in Ids, RemoveServer(id) PROVE Goal
    BY <1>7 DEF RemoveServer
  <1>8. ASSUME NEW d \in Discoveries, DiscoverRead(d) \/ DiscoverThrows(d)
        PROVE  UNCHANGED <<created, server>>
    BY <1>8 DEF DiscoverRead, DiscoverThrows, rowVars
  <1>9. ASSUME NEW h \in Hosts, AgentStarts(h) \/ RemoveHostWrite(h)
        PROVE  UNCHANGED <<created, server>>
    BY <1>9 DEF AgentStarts, RemoveHostWrite, rowVars
  <1>10. CASE Untouched
    BY <1>1, <1>10 DEF Untouched
  <1> QED
    BY RegistrySteps, <1>1, <1>3, <1>4, <1>5, <1>6, <1>7, <1>8, <1>9, <1>10

\* What DiscoverRead returns with.
LEMMA ReadIs ==
    ASSUME Types, NEW d \in Discoveries, DiscoverRead(d)
    PROVE  \E h \in hosts :
             LET r == discovery'[d]
             IN  /\ UNCHANGED <<server, created>>
                 /\ r.host = h /\ r.path = found[h] /\ r.id = Match(h, found[h])
                 /\ r.managed = (r.id # 0 /\ server[r.id].managed)
                 /\ r.open = (r.id # 0 /\ server[r.id].command = "none")
  <1>1. PICK h \in running \cap hosts :
          discovery' = [discovery EXCEPT ![d] =
               [host |-> h, path |-> found[h], id |-> Match(h, found[h]), stale |-> FALSE,
                managed |-> Match(h, found[h]) # 0 /\ server[Match(h, found[h])].managed,
                open |-> Match(h, found[h]) # 0 /\ server[Match(h, found[h])].command = "none"]]
    BY DEF DiscoverRead
  <1>2. discovery'[d] =
               [host |-> h, path |-> found[h], id |-> Match(h, found[h]), stale |-> FALSE,
                managed |-> Match(h, found[h]) # 0 /\ server[Match(h, found[h])].managed,
                open |-> Match(h, found[h]) # 0 /\ server[Match(h, found[h])].command = "none"]
    BY <1>1 DEF Types
  <1>3. UNCHANGED <<server, created>>
    BY DEF DiscoverRead, rowVars
  <1>4. h \in hosts
    BY <1>1
  <1> WITNESS h \in hosts
  <1>5. discovery'[d].host = h /\ discovery'[d].path = found[h] /\ discovery'[d].id = Match(h, found[h])
    BY <1>2
  <1>6. /\ discovery'[d].managed = (Match(h, found[h]) # 0 /\ server[Match(h, found[h])].managed)
        /\ discovery'[d].open = (Match(h, found[h]) # 0 /\ server[Match(h, found[h])].command = "none")
    BY <1>2
  <1> QED
    BY <1>3, <1>5, <1>6

LEMMA ReadItsHostStep ==
    ASSUME Types, ReadItsHost, [Next]_vars
    PROVE  ReadItsHost'
  <1> SUFFICES ASSUME NEW d \in Discoveries, discovery'[d] # None
               PROVE  /\ discovery'[d].id =< created'
                      /\ discovery'[d].id \in Rows' =>
                           server'[discovery'[d].id].host = discovery'[d].host
    BY DEF ReadItsHost
  <1> USE RegistryAssumption DEF RegistryAssumption
  <1>1. CASE Survives(d)
    <2>1. discovery[d] \in Reads /\ discovery[d] # None
      BY <1>1 DEF Types, Survives
    <2>2. discovery'[d].id = discovery[d].id /\ discovery'[d].host = discovery[d].host
      BY <1>1, <2>1 DEF Survives, Reads
    <2>3. discovery[d].id =< created /\ discovery[d].id \in Nat /\ created \in Nat
      BY <2>1 DEF ReadItsHost, Reads, Types
    <2> QED
      BY <2>1, <2>2, <2>3, RowsKeepHost DEF ReadItsHost, Rows
  <1>2. CASE DiscoverRead(d)
    <2>1. PICK h \in hosts :
            /\ UNCHANGED <<server, created>>
            /\ discovery'[d].host = h /\ discovery'[d].id = Match(h, found[h])
      BY <1>2, ReadIs
    <2>2. h \in Hosts /\ found[h] \in Paths
      BY DEF Types
    <2>3. CASE Match(h, found[h]) = 0
      BY <2>1, <2>3 DEF Rows, Ids, Types
    <2>4. CASE Match(h, found[h]) \in RowsOf(h)
      BY <2>1, <2>4 DEF RowsOf, Rows, Ids, Types
    <2> QED
      BY <2>2, <2>3, <2>4, MatchIs
  <1> QED
    BY <1>1, <1>2, ReadStep

LEMMA ReadIsSoundStep ==
    ASSUME Types, ReadItsHost, ReadIsSound, [Next]_vars
    PROVE  ReadIsSound'
  <1> SUFFICES ASSUME NEW d \in Discoveries, discovery'[d] # None, ~discovery'[d].stale
               PROVE  Sound(discovery[d])'
    BY DEF ReadIsSound
  <1>1. CASE Survives(d)
    <2>1. discovery'[d] = discovery[d] /\ Kept(discovery[d].host)
      BY <1>1 DEF Survives, Types, Reads
    <2>2. Sound(discovery[d])
      BY <2>1 DEF ReadIsSound
    <2>3. discovery[d].id # 0 => discovery[d].id \in RowsOf(discovery[d].host)
      BY <2>2 DEF Sound
    <2> QED
      BY <2>1, <2>2, <2>3 DEF Sound, Unknown, Kept, RowsOf, Rows
  <1>2. CASE DiscoverRead(d)
    <2>1. PICK h \in hosts :
            LET r == discovery'[d]
            IN  /\ UNCHANGED <<server, created>>
                /\ r.host = h /\ r.path = found[h] /\ r.id = Match(h, found[h])
                /\ r.managed = (r.id # 0 /\ server[r.id].managed)
                /\ r.open = (r.id # 0 /\ server[r.id].command = "none")
      BY <1>2, ReadIs
    <2>2. h \in Hosts /\ found[h] \in Paths
      BY DEF Types
    <2> QED
      <3> DEFINE r == discovery'[d]
      <3>1. /\ r.id = 0 => Unknown(h, r.path)
            /\ r.id # 0 => r.id \in RowsOf(h) /\ (server[r.id].path = r.path \/ Unknown(h, r.path))
        BY <2>1, <2>2, MatchIs
      <3>2. r.id \in RowsOf(h) => server[r.id].managed \in BOOLEAN
        BY DEF RowsOf, Rows, Types, ServerRows
      <3>3. r.id # 0 => (r.managed => server[r.id].managed) /\ (r.open => server[r.id].command # "op")
        BY <2>1, <3>1, <3>2
      <3>4. server' = server /\ r.host = h
        BY <2>1
      <3> QED
        BY <3>1, <3>3, <3>4 DEF Sound, Unknown, RowsOf, Rows
  <1> QED
    BY <1>1, <1>2, ReadStep

LEMMA RegistryInvariant == FairSpec => [](Types /\ ReadItsHost /\ ReadIsSound)
  <1>1. Init => Types /\ ReadItsHost /\ ReadIsSound
    BY RegistryAssumption DEF RegistryAssumption, Init, Types, ReadItsHost, ReadIsSound
  <1>2. Types /\ ReadItsHost /\ ReadIsSound /\ [Next]_vars
          => Types' /\ ReadItsHost' /\ ReadIsSound'
    BY TypesStep, ReadItsHostStep, ReadIsSoundStep
  <1> QED
    BY <1>1, <1>2, PTL DEF FairSpec

-----------------------------------------------------------------------------
(* The properties                                                          *)

LEMMA OneRowStep ==
    ASSUME Types, ReadItsHost, ReadIsSound, OneRowPerInstall, [Next]_vars
    PROVE  OneRowPerInstall'
  <1> USE RegistryAssumption DEF RegistryAssumption, OneRowPerInstall, Rows
  <1>1. CASE UNCHANGED server
    BY <1>1
  <1>2. CASE Untouched
    BY <1>1, <1>2 DEF Untouched
  <1>3. ASSUME NEW h \in Hosts, AgentStarts(h) \/ RemoveHostWrite(h) PROVE UNCHANGED server
    BY <1>3 DEF AgentStarts, RemoveHostWrite, rowVars
  <1>4. ASSUME NEW d \in Discoveries, DiscoverRead(d) \/ DiscoverThrows(d)
        PROVE  UNCHANGED server
    BY <1>4 DEF DiscoverRead, DiscoverThrows, rowVars
  <1>5. ASSUME NEW h \in Hosts, NEW p \in Paths, NEW c \in Commands, CreateServer(h, p, c)
        PROVE  OneRowPerInstall'
    <2> DEFINE row == [host |-> h, path |-> p, command |-> c, managed |-> FALSE,
                       by |-> "op", raced |-> FALSE]
    <2>1. server' = [server EXCEPT ![created + 1] = row]
      BY <1>5 DEF CreateServer, Create
    <2> QED
      BY <2>1 DEF Types
  <1>6. ASSUME NEW id \in Ids, UpdateServer(id) PROVE OneRowPerInstall'
    <2>1. PICK row \in ServerRows :
             /\ server' = [server EXCEPT ![id] = row]
             /\ row.host = server[id].host /\ row.raced = server[id].raced
             /\ \/ row.path = server[id].path /\ row.by = server[id].by
                \/ row.by = "op"
      BY <1>6, UpdateIs
    <2>2. server[id] # None
      BY <1>6 DEF UpdateServer
    <2> QED
      BY <2>1, <2>2 DEF Types
  <1>7. ASSUME NEW id \in Ids, RemoveServer(id) PROVE OneRowPerInstall'
    BY <1>7 DEF RemoveServer, Types
  <1>8. ASSUME NEW d \in Discoveries, DiscoverCreate(d) PROVE OneRowPerInstall'
    <2> DEFINE r == discovery[d]
               row == [host |-> r.host, path |-> r.path, command |-> "agent",
                       managed |-> TRUE, by |-> "agent", raced |-> r.stale]
    <2>1. r # None /\ r.id = 0 /\ server' = [server EXCEPT ![created + 1] = row]
      BY <1>8 DEF DiscoverCreate, Create
    <2>2. r.stale \/ Unknown(r.host, r.path)
      BY <2>1 DEF ReadIsSound, Sound
    <2> QED
      BY <2>1, <2>2 DEF Types, Unknown, RowsOf
  <1>9. ASSUME NEW d \in Discoveries, DiscoverUpdate(d) PROVE OneRowPerInstall'
    <2> DEFINE r == discovery[d]
               row == server[r.id]
    <2>1. r # None /\ r \in Reads /\ r.id \in Ids /\ row # None /\ row \in ServerRows /\ r.id # 0
      BY <1>9 DEF DiscoverUpdate, Types, Ids
    <2>2. row.host = r.host /\ server' = [server EXCEPT ![r.id] = Updated(row, r)]
      BY <1>9, <2>1 DEF DiscoverUpdate, ReadItsHost
    <2>3. /\ Updated(row, r).host = row.host /\ Updated(row, r).path = r.path
          /\ Updated(row, r).raced = (row.raced \/ r.stale)
          /\ row.path = r.path => Updated(row, r).by = row.by
      BY <2>1 DEF Updated, ServerRows
    <2>4. r.stale \/ row.path = r.path \/ Unknown(r.host, r.path)
      BY <2>1 DEF ReadIsSound, Sound
    <2> QED
      <3> DEFINE new == Updated(row, r)
      <3>1. server'[r.id] = new /\ \A i \in Ids : i # r.id => server'[i] = server[i]
        BY <2>1, <2>2 DEF Types
      <3>2. \A i \in Ids : i # r.id /\ server[i] # None /\ server[i].host = r.host
                          /\ server[i].path = r.path /\ server[i].by = "agent" /\ new.by = "agent"
                          => server[i].raced \/ new.raced
        <4>1. CASE row.path = r.path
          BY <2>1, <2>2, <2>3, <4>1
        <4>2. CASE r.stale
          BY <2>3, <4>2
        <4>3. CASE Unknown(r.host, r.path)
          BY <4>3 DEF Unknown, RowsOf
        <4> QED
          BY <2>4, <4>1, <4>2, <4>3
      <3>3. new.host = r.host /\ new.path = r.path
        BY <2>2, <2>3
      <3> HIDE DEF new, row, r
      <3> QED
        BY <3>1, <3>2, <3>3
  <1> QED
    BY RegistrySteps, <1>1, <1>2, <1>3, <1>4, <1>5, <1>6, <1>7, <1>8, <1>9

\* Registry keeps OneRowPerInstall: discovery makes two rows of one
\* installation only when it raced another write to its host's rows
\* (upsertDiscovered7DtdInstance).
THEOREM OneRowEach == FairSpec => []OneRowPerInstall
  <1>1. Init => OneRowPerInstall
    BY DEF Init, OneRowPerInstall, Rows
  <1> QED
    BY <1>1, RegistryInvariant, OneRowStep, PTL DEF FairSpec

\* Registry keeps OperatorCommandKept: a report replaces an operator's start
\* command only in a row that is managed, or when it raced the edit
\* (upsertDiscovered7DtdInstance).
THEOREM CommandKept == FairSpec => OperatorCommandKept
  <1> DEFINE Keep(id) == server[id].command = "op" /\ server'[id] # None /\ server'[id].command = "agent"
                           => server[id].managed \/ server'[id].raced
  <1>1. ASSUME Types, ReadItsHost, ReadIsSound, [Next]_vars
        PROVE  \A id \in Rows : Keep(id)
    <2> SUFFICES ASSUME NEW id \in Rows PROVE Keep(id)
      OBVIOUS
    <2> USE <1>1, RegistryAssumption DEF RegistryAssumption, Rows
    <2>1. id \in Ids /\ server[id] # None
      OBVIOUS
    <2>11. server[id] \in ServerRows
      BY <2>1 DEF Types
    <2>12. id # created + 1 /\ id # 0
      BY <2>1 DEF Types, Ids
    <2>2. CASE UNCHANGED server
      BY <2>2
    <2>3. ASSUME NEW h \in Hosts, AgentStarts(h) \/ RemoveHostWrite(h) PROVE UNCHANGED server
      BY <2>3 DEF AgentStarts, RemoveHostWrite, rowVars
    <2>4. ASSUME NEW d \in Discoveries, DiscoverRead(d) \/ DiscoverThrows(d)
          PROVE  UNCHANGED server
      BY <2>4 DEF DiscoverRead, DiscoverThrows, rowVars
    <2>5. ASSUME NEW h \in Hosts, NEW p \in Paths, NEW c \in Commands, CreateServer(h, p, c)
          PROVE  Keep(id)
      BY <2>1, <2>12, <2>5 DEF CreateServer, Create, Types
    <2>6. ASSUME NEW d \in Discoveries, DiscoverCreate(d) PROVE Keep(id)
      BY <2>1, <2>12, <2>6 DEF DiscoverCreate, Create, Types
    <2>7. ASSUME NEW i \in Ids, UpdateServer(i) PROVE Keep(id)
      <3>1. PICK row \in ServerRows :
              /\ server' = [server EXCEPT ![i] = row]
              /\ row.command \in {"op", server[i].command}
        BY <2>7, UpdateIs
      <3> QED
        BY <2>1, <3>1 DEF Types
    <2>8. ASSUME NEW i \in Ids, RemoveServer(i) PROVE Keep(id)
      BY <2>1, <2>8 DEF RemoveServer, Types
    <2>9. ASSUME NEW d \in Discoveries, DiscoverUpdate(d) PROVE Keep(id)
      <3> DEFINE r == discovery[d]
      <3>1. CASE id # r.id
        BY <2>9, <3>1 DEF DiscoverUpdate, Types
      <3>2. CASE id = r.id
        <4>1. server'[id] = Updated(server[id], r) /\ r # None
          <5>1. r # None /\ server' = [server EXCEPT ![id] = Updated(@, r)]
            BY <2>9, <3>2 DEF DiscoverUpdate
          <5> QED
            BY <2>1, <5>1 DEF Types
        <4>2. r.stale \/ ((r.managed => server[id].managed) /\ (r.open => server[id].command # "op"))
          <5>1. r.stale \/ Sound(r)
            BY <4>1 DEF ReadIsSound
          <5> QED
            BY <2>12, <3>2, <5>1 DEF Sound
        <4>3. /\ server'[id].raced = (server[id].raced \/ r.stale)
              /\ server'[id].command = IF r.managed \/ r.open THEN "agent" ELSE server[id].command
          BY <2>11, <4>1 DEF Updated, ServerRows
        <4> QED
          BY <4>2, <4>3
      <3> QED
        BY <3>1, <3>2
    <2>10. CASE Untouched
      BY <2>2, <2>10 DEF Untouched
    <2> QED
      BY RegistrySteps, <2>2, <2>3, <2>4, <2>5, <2>6, <2>7, <2>8, <2>9, <2>10
  <1> QED
    BY <1>1, RegistryInvariant, PTL DEF FairSpec, OperatorCommandKept

=============================================================================
