---------------------------- MODULE PeopleProofs ----------------------------
(***************************************************************************)
(* The roster and the accounts, for every number of players, rows, users,  *)
(* organisations and requests.                                             *)
(*                                                                         *)
(* The roster first.  "Base" holds always: what each handler may be doing, *)
(* which line of the upload the log's handler is at, how the lines follow  *)
(* each other, and that no row has two keys.  The other parts hold until a *)
(* step disturbs the handlers, or a merge takes the row that another one   *)
(* has in hand: it is then "doomed", and its next query throws.  They say  *)
(* which line a row known by name waits for, what the values a handler     *)
(* read are still worth, where a session is still to be opened, and, while *)
(* no upload was repeated, that a row is online after a line that says so. *)
(*                                                                         *)
(* Then the accounts.  What a request read holds until it writes, unless a *)
(* request that overlapped it made it stale, and then "seen" says so.      *)
(***************************************************************************)
EXTENDS People, FiniteSetTheorems, SequenceTheorems, TLAPS

-----------------------------------------------------------------------------
(* The inductive invariant of the roster                                   *)

Stages == {"idle", "next", "canonical", "promote", "merge", "existing", "enter",
           "session", "close", "missing"}
LineSet == [p : Players, by : {"id", "name"}, kind : {"joined", "left"}]
WorkSet == [stage : Stages, todo : SUBSET (Nat \cup Players \cup Rows),
            p : Players \cup {None}, by : {"id", "name"}, kind : {"joined", "left"},
            row : Rows \cup {None}, on : BOOLEAN, into : Rows \cup {None},
            intoOn : BOOLEAN, seen : SUBSET Players]

TypeOK ==
    /\ inGame \subseteq Players /\ log \in Seq(LineSet)
    /\ acked \in 0..Len(log) /\ batch \in 0..Len(log)
    /\ listing \in {None} \cup SUBSET Players
    /\ rowOf \in [Keys -> Rows \cup {None}]
    /\ online \subseteq Rows /\ open \in [Rows -> Nat]
    /\ at \in [Handlers -> WorkSet]

Holding(h) == at[h].stage \in {"canonical", "promote", "merge"}
Working(h) == Holding(h) \/ at[h].stage \in {"existing", "enter", "session", "close"}

\* What each handler may be doing.
ControlOf(h) ==
    /\ Working(h) => at[h].p \in Players
    /\ Holding(h) \/ at[h].stage \in {"session", "close"} => at[h].row \in Rows
    /\ Is(h, "merge") => at[h].into \in Rows
    /\ IF h = "log" THEN at[h].stage # "missing" ELSE at[h].by = "id" /\ at[h].kind = "joined"
    /\ h = "page" => /\ at[h].stage \in {"idle", "next", "canonical", "promote", "merge"}
                     /\ at[h].todo \subseteq Players
    /\ h = "list" => /\ at[h].stage # "close"
                     /\ at[h].todo \subseteq IF Is(h, "missing") THEN Rows ELSE at[h].seen
Control == \A h \in Handlers : ControlOf(h)

\* The lines up to k are done, and line k if the handler has another one in hand.
Upto(k) == k \in acked..batch /\ at["log"].todo = (k + 1)..batch
LogTurn ==
    Is("log", "idle") \/ \E k \in acked..batch :
        /\ Upto(k)
        /\ Working("log") => /\ k > acked
                             /\ log[k] = [p |-> at["log"].p, by |-> at["log"].by,
                                          kind |-> at["log"].kind]

\* p is in the game after line k of s.
PresentIn(s, p, k) ==
    \E i \in 1..k : /\ s[i].p = p /\ s[i].kind = "joined"
                    /\ \A j \in i..k : s[j].p = p => s[j].kind = "joined"
Present(p, k) == PresentIn(log, p, k)
LogInv ==
    /\ \A p \in Players : p \in inGame <=> Present(p, Len(log))
    /\ \A k \in 1..Len(log) :
         IF log[k].by = "name" THEN ~Present(log[k].p, k - 1)
         ELSE log[k].kind = "joined" => Present(log[k].p, k - 1)
    /\ \A k \in 1..Len(log) :
         log[k].by = "name" /\ log[k].kind = "joined" =>
            /\ k < Len(log) /\ k # batch
            /\ log[k + 1] = [p |-> log[k].p, by |-> "id", kind |-> "joined"]
    /\ \A k \in 1..Len(log) :
         log[k].by = "id" /\ log[k].kind = "joined" =>
            /\ k > 1
            /\ log[k - 1] = [p |-> log[k].p, by |-> "name", kind |-> "joined"]

RowsInv ==
    /\ \A j, k \in Keys : rowOf[j] = rowOf[k] => j = k \/ rowOf[j] = None
    /\ \A r \in Rows : r \in online \/ open[r] > 0 => Stored(r)

Listed == listing # None => Is("list", "idle")

Base == TypeOK /\ Control /\ Listed /\ LogTurn /\ LogInv /\ RowsInv

-----------------------------------------------------------------------------
\* A merge has deleted the row that h is about to write: its query will throw.
Doomed(h) == (Holding(h) \/ Is(h, "session")) /\ ~Stored(at[h].row)
Smooth == "disturbed" \notin happened /\ \A h \in Handlers : ~Doomed(h)

ById(p)   == rowOf[<<p, "id">>]
ByName(p) == rowOf[<<p, "name">>]

\* A list under way names the players who are in the game, and the lines not yet
\* acknowledged only say that somebody left.
ListTurn ==
    /\ listing # None => listing = inGame /\ Is("list", "idle")
    /\ ~Is("list", "idle") =>
         /\ ~Holding("list")
         /\ \A i \in (acked + 1)..Len(log) : log[i].kind = "left"
         /\ ~Is("list", "missing") => at["list"].seen = inGame
         /\ Working("list") => at["list"].p \in inGame

\* A row known by name waits for the next line of the upload, which has the
\* identity, or the handler of that line has it in hand.
NameTurn ==
    \A p \in Players : ByName(p) # None =>
        /\ ByName(p) \in online
        /\ ~Is("log", "idle")
        /\ \E k \in acked..batch :
             /\ Upto(k)
             /\ \/ /\ at["log"].stage \in {"next", "session"}
                   /\ k < batch /\ log[k + 1] = [p |-> p, by |-> "id", kind |-> "joined"]
                \/ /\ Holding("log")
                   /\ at["log"].p = p

\* What h read of the row it promotes or merges still holds.
Hold(h) ==
    Holding(h) =>
        /\ at[h].by = "id" /\ at[h].kind = "joined"
        /\ at[h].row = ByName(at[h].p) /\ at[h].on = TRUE
        /\ Is(h, "promote") => ById(at[h].p) = None
        /\ Is(h, "merge") => at[h].into = ById(at[h].p)

\* The page has players in hand who have a row by identity.
PageWork ==
    /\ at["page"].todo \subseteq Stable
    /\ Holding("page") => at["page"].p \in Stable
    /\ Hold("page")

Key(h) == <<at[h].p, at[h].by>>
\* What h read of the row it writes still holds: no session is open where it is
\* about to open one.
Entering(h) ==
    /\ Is(h, "enter") => /\ at[h].kind = "joined"
                         /\ at[h].on = (rowOf[Key(h)] \in online)
    /\ Is(h, "session") => /\ at[h].kind = "joined"
                           /\ at[h].row = rowOf[Key(h)]
                           /\ at[h].row \in online /\ open[at[h].row] = 0
    /\ Is(h, "close") => at[h].kind = "left" /\ at[h].row = rowOf[Key(h)]

\* A row is online exactly while a session of it is open, or about to be.
Between(r) == \E h \in {"log", "list"} : Is(h, "session") /\ at[h].row = r
Balance == \A r \in Rows : Between(r) \/ (r \in online <=> open[r] > 0)

\* The last line that is handled, if the upload is done up to k.
DoneLine(k) == IF Working("log") THEN k - 1 ELSE k
\* The lines handled so far say that p is in the game.
Shows(p) == IF Is("log", "idle") THEN Present(p, acked)
            ELSE \A k \in acked..batch : Upto(k) => Present(p, DoneLine(k))
Acknowledged == Is("log", "idle") => batch = acked
AtMostOne    == \A r \in Rows : open[r] <= 1
NotTwice     == \A p \in Players : ByName(p) # None => ById(p) \notin online
AfterLines   == \A p \in Players : ById(p) \in online => Shows(p)
Once == "replay" \notin happened => Acknowledged /\ AtMostOne /\ NotTwice /\ AfterLines

Parts ==
    /\ ListTurn /\ NameTurn /\ PageWork /\ Hold("log")
    /\ Entering("log") /\ Entering("list") /\ Balance /\ Once
Undisturbed == Base /\ Smooth /\ Parts

IInv == Base /\ (Smooth => Parts)

-----------------------------------------------------------------------------
(* Steps                                                                   *)

Rests == UNCHANGED <<game, agent, faults>>
Pure  == UNCHANGED <<players, happened>>

LEMMA Steps ==
    ASSUME [Next]_vars
    PROVE  \/ UNCHANGED vars
           \/ \E p \in Players : Move(p)
           \/ TakeList \/ Upload \/ Answer \/ Report \/ OpenPage \/ Crash
           \/ \E h \in Handlers :
                /\ Rests
                /\ \/ Fallback(h) \/ Canonical(h) \/ Promote(h) \/ Merge(h)
                   \/ h # "page" /\ (Existing(h) \/ Enter(h) \/ Session(h))
                   \/ h = "log" /\ Close
                   \/ h = "list" /\ (FindMissing \/ CloseMissing \/ Reported)
  BY DEF Next, Step, Rests

LEMMA WorkIs ==
    ASSUME TypeOK, NEW h \in Handlers
    PROVE  /\ Idle \in WorkSet
           /\ \A todo \in SUBSET (Nat \cup Players \cup Rows) : Work(todo) \in WorkSet
           /\ Fresh(h) \in WorkSet /\ NextOf(h) \in WorkSet
           /\ at[h].p \in Players => Reconciled(h) \in WorkSet
  <1> USE DEF WorkSet, Stages, Work
  <1>1. at[h] \in WorkSet
    BY DEF TypeOK
  <1>2. Idle \in WorkSet
    BY DEF Idle
  <1>3. \A todo \in SUBSET (Nat \cup Players \cup Rows) : Work(todo) \in WorkSet
    OBVIOUS
  <1>4. Fresh(h) \in WorkSet
    BY <1>1 DEF Fresh
  <1>5. NextOf(h) \in WorkSet
    BY <1>2, <1>4 DEF NextOf
  <1>6. at[h].p \in Players => Reconciled(h) \in WorkSet
    BY <1>1, <1>5, ZenonT(60) DEF Reconciled, Fresh
  <1> QED
    BY <1>2, <1>3, <1>4, <1>5, <1>6

LEMMA LinesAre ==
    ASSUME NEW p \in Players
    PROVE  /\ Lines(p) \in Seq(LineSet) /\ Len(Lines(p)) = 2
           /\ IF p \in inGame
              THEN /\ Lines(p)[1] = [p |-> p, by |-> "id", kind |-> "left"]
                   /\ Lines(p)[2] = [p |-> p, by |-> "name", kind |-> "left"]
              ELSE /\ Lines(p)[1] = [p |-> p, by |-> "name", kind |-> "joined"]
                   /\ Lines(p)[2] = [p |-> p, by |-> "id", kind |-> "joined"]
  <1>1. Line(p, "id") \in LineSet /\ Line(p, "name") \in LineSet
    BY DEF Line, LineSet
  <1>2. ASSUME NEW a \in LineSet, NEW b \in LineSet
        PROVE  <<a, b>> \in Seq(LineSet) /\ Len(<<a, b>>) = 2
    OBVIOUS
  <1>3. CASE p \in inGame
    BY <1>1, <1>2, <1>3 DEF Lines, Line
  <1>4. CASE p \notin inGame
    BY <1>1, <1>2, <1>4 DEF Lines, Line
  <1> QED
    BY <1>3, <1>4

LEMMA LogGrows ==
    ASSUME TypeOK, NEW p \in Players, Move(p)
    PROVE  /\ log' \in Seq(LineSet) /\ Len(log') = Len(log) + 2
           /\ \A i \in 1..Len(log) : log'[i] = log[i]
           /\ log'[Len(log) + 1] = Lines(p)[1]
           /\ log'[Len(log) + 2] = Lines(p)[2]
  <1>1. Lines(p) \in Seq(LineSet) /\ Len(Lines(p)) = 2
    BY LinesAre
  <1>2. log \in Seq(LineSet) /\ log' = log \o Lines(p)
    BY DEF TypeOK, Move
  <1>3. ASSUME NEW s \in Seq(LineSet), NEW t \in Seq(LineSet), Len(t) = 2
        PROVE  /\ s \o t \in Seq(LineSet) /\ Len(s \o t) = Len(s) + 2
               /\ \A i \in 1..Len(s) : (s \o t)[i] = s[i]
               /\ (s \o t)[Len(s) + 1] = t[1] /\ (s \o t)[Len(s) + 2] = t[2]
    <2>1. \A i \in 1..(Len(s) + 2) :
             (s \o t)[i] = IF i <= Len(s) THEN s[i] ELSE t[i - Len(s)]
      <3>1. \A i \in 1..(Len(s) + Len(t)) :
               (s \o t)[i] = IF i <= Len(s) THEN s[i] ELSE t[i - Len(s)]
        BY ConcatProperties, Zenon
      <3>2. Len(s) + Len(t) = Len(s) + 2
        BY <1>3
      <3> QED
        BY <3>1, <3>2, Zenon
    <2>2. Len(s) \in Nat
      OBVIOUS
    <2>3. Len(s) + 1 - Len(s) = 1 /\ Len(s) + 2 - Len(s) = 2
      BY <2>2
    <2>4. s \o t \in Seq(LineSet) /\ Len(s \o t) = Len(s) + 2
      <3>1. s \o t \in Seq(LineSet) /\ Len(s \o t) = Len(s) + Len(t)
        BY ConcatProperties, Zenon
      <3> QED
        BY <3>1, <1>3
    <2>5. (s \o t)[Len(s) + 1] = t[1] /\ (s \o t)[Len(s) + 2] = t[2]
      <3>1. ASSUME NEW c, NEW n \in Nat,
                   \A i \in 1..(n + 2) : c[i] = IF i <= n THEN s[i] ELSE t[i - n]
            PROVE  c[n + 1] = t[1] /\ c[n + 2] = t[2]
        <4>1. n + 1 \in 1..(n + 2) /\ n + 2 \in 1..(n + 2) /\ n + 1 - n = 1 /\ n + 2 - n = 2
          OBVIOUS
        <4>2. ~(n + 1 <= n) /\ ~(n + 2 <= n)
          OBVIOUS
        <4> QED
          BY ONLY <3>1, <4>1, <4>2, SMT
      <3> QED
        BY <2>1, <2>2, <3>1
    <2> QED
      BY <2>1, <2>2, <2>4, <2>5
  <1> QED
    BY <1>1, <1>2, <1>3

\* What Fallback does with item x.
FallbackTo(h, x) ==
    LET item == Item(h, x)
        name == ByName(item.p)
        work == [Fresh(h) EXCEPT !.todo = @ \ {x},
                   !.p = item.p, !.by = item.by, !.kind = item.kind]
    IN  /\ First(h, x)
        /\ Goes(h, IF item.by = "id" /\ name # None
                   THEN [work EXCEPT !.stage = "canonical", !.row = name, !.on = name \in online]
                   ELSE IF h = "page" /\ at[h].todo = {x} THEN Idle
                   ELSE IF h = "page" THEN Work(at[h].todo \ {x})
                   ELSE [work EXCEPT !.stage = "existing"])

LEMMA FallbackIs ==
    ASSUME NEW h \in Handlers, Fallback(h)
    PROVE  /\ Is(h, "next") /\ Pure
           /\ \E x \in at[h].todo : FallbackTo(h, x)
  BY DEF Fallback, FallbackTo, ByName, Pure

\* What Enter does with its row.
EnterRow(h, row) ==
    /\ Is(h, "enter")
    /\ IF rowOf[Key(h)] = None THEN row \in Unused ELSE row = rowOf[Key(h)]
    /\ rowOf' = [rowOf EXCEPT ![Key(h)] = row]
    /\ online' = online \cup {row} /\ UNCHANGED open
    /\ Goes(h, IF at[h].on THEN NextOf(h)
               ELSE [at[h] EXCEPT !.stage = "session", !.row = row])
    /\ UNCHANGED happened

LEMMA EnterIs ==
    ASSUME NEW h \in Handlers, Enter(h)
    PROVE  \E row : EnterRow(h, row)
  <1> DEFINE row == IF rowOf[Key(h)] = None THEN CHOOSE r \in Unused : TRUE ELSE rowOf[Key(h)]
  <1>1. rowOf[Key(h)] = None => row \in Unused
    BY DEF Enter, Key
  <1>2. EnterRow(h, row)
    BY <1>1 DEF Enter, EnterRow, Key
  <1> QED
    BY <1>2

LEMMA ItemIs ==
    ASSUME Base, NEW h \in Handlers, Is(h, "next"), NEW x \in at[h].todo, First(h, x)
    PROVE  /\ Item(h, x) \in LineSet
           /\ h # "log" => /\ x \in Players
                           /\ Item(h, x) = [p |-> x, by |-> "id", kind |-> "joined"]
           /\ h = "log" => \E k \in acked..batch :
                /\ Upto(k) /\ x = k + 1 /\ k < batch /\ Item(h, x) = log[k + 1]
                /\ at[h].todo \ {x} = (k + 2)..batch
  <1>0. TypeOK /\ Control /\ LogTurn /\ h \in {"log", "list", "page"}
    BY DEF Base, Handlers
  <1>1. CASE h = "log"
    <2>1. PICK k \in acked..batch : Upto(k)
      BY <1>0, <1>1 DEF LogTurn, Is
    <2>2. k \in Nat /\ batch \in Nat /\ acked \in Nat /\ batch <= Len(log) /\ Len(log) \in Nat
      BY <1>0, <2>1 DEF TypeOK
    <2>3. at["log"].todo = (k + 1)..batch
      BY <2>1 DEF Upto
    <2>4. x \in (k + 1)..batch /\ \A y \in (k + 1)..batch : x <= y
      BY <1>1, <2>3 DEF First
    <2>5. x = k + 1 /\ k < batch
      BY <2>2, <2>4
    <2>6. log[x] \in LineSet
      BY <1>0, <2>2, <2>5 DEF TypeOK
    <2>7. ((k + 1)..batch) \ {k + 1} = (k + 2)..batch
      BY <2>2
    <2> QED
      BY <1>1, <2>1, <2>3, <2>5, <2>6, <2>7 DEF Item
  <1>2. CASE h # "log"
    <2>1. x \in Players
      <3>1. h = "list" => x \in at["list"].seen /\ at["list"].seen \subseteq Players
        BY <1>0, <1>2 DEF Control, ControlOf, TypeOK, WorkSet, Is, Handlers
      <3> QED
        BY <1>0, <1>2, <3>1 DEF Control, ControlOf
    <2> QED
      BY <1>2, <2>1 DEF Item, LineSet
  <1> QED
    BY <1>1, <1>2

LEMMA TypeStep ==
    ASSUME Base, [Next]_vars
    PROVE  TypeOK'
    <1>0. TypeOK /\ Control /\ Len(log) \in Nat
    BY DEF Base, TypeOK
  <1>1. CASE UNCHANGED vars
    BY <1>0, <1>1 DEF TypeOK, vars
  <1>2. ASSUME NEW p \in Players, Move(p) PROVE TypeOK'
    <2>1. log' \in Seq(LineSet) /\ Len(log') = Len(log) + 2
      BY <1>0, <1>2, LogGrows
    <2>2. inGame' \subseteq Players /\ UNCHANGED <<agent, players, at>>
      BY <1>0, <1>2 DEF Move, TypeOK
    <2> QED
      BY <1>0, <2>1, <2>2 DEF TypeOK, agent, players
  <1>3. CASE TakeList
    BY <1>0, <1>3 DEF TypeOK, TakeList, game, players
  <1>4. CASE Upload
    <2>1. batch' \in 0..Len(log) /\ acked' = acked
      BY <1>0, <1>4 DEF TypeOK, Upload
    <2>2. (acked + 1)..batch' \in SUBSET (Nat \cup Players \cup Rows)
      BY <1>0, <2>1 DEF TypeOK
    <2> QED
      BY <1>0, <1>4, <2>1, <2>2, WorkIs DEF TypeOK, Upload, Goes, game, players, Handlers
  <1>5. CASE Answer
    BY <1>0, <1>5, WorkIs DEF TypeOK, Answer, Goes, game, players, Handlers
  <1>6. CASE Report
    <2>1. listing \in SUBSET Players
      BY <1>0, <1>6 DEF TypeOK, Report
    <2>2. [Work(listing) EXCEPT !.seen = listing] \in WorkSet
      BY <2>1 DEF Work, WorkSet, Stages
    <2> QED
      BY <1>0, <1>6, <2>2 DEF TypeOK, Report, Goes, game, players, Handlers
  <1>7. CASE OpenPage
    <2>1. Stable \in SUBSET (Nat \cup Players \cup Rows)
      BY DEF Stable
    <2> QED
      BY <1>0, <1>7, <2>1, WorkIs DEF TypeOK, OpenPage, Goes, game, agent, players, Handlers
  <1>8. CASE Crash
    BY <1>0, <1>8, WorkIs DEF TypeOK, Crash, game, agent, players, Handlers
  <1>9. ASSUME NEW h \in Handlers, Rests
        PROVE  /\ Fallback(h) \/ Canonical(h) \/ Promote(h) \/ Merge(h) => TypeOK'
               /\ Existing(h) \/ Enter(h) \/ Session(h) => TypeOK'
               /\ h = "log" /\ Close => TypeOK'
               /\ h = "list" /\ (FindMissing \/ CloseMissing \/ Reported) => TypeOK'
    <2> USE <1>9
    <2>0. at[h] \in WorkSet /\ at[h].todo \in SUBSET (Nat \cup Players \cup Rows)
      BY <1>0 DEF TypeOK, WorkSet
    <2>1. UNCHANGED <<inGame, log, acked, batch, listing>>
      BY DEF Rests, game, agent
    <2>2. ASSUME UNCHANGED players, NEW new \in WorkSet, Goes(h, new)
          PROVE  TypeOK'
      BY <1>0, <2>1, <2>2 DEF TypeOK, players, Goes
    <2>3. ASSUME Throw(h) PROVE TypeOK'
      <3>1. (IF h = "log" THEN Work({}) ELSE Idle) \in WorkSet
        BY <1>0, WorkIs
      <3> QED
        BY <2>2, <2>3, <3>1 DEF Throw
    <2>4. CASE Fallback(h)
      <3>1. PICK x \in at[h].todo : FallbackTo(h, x)
        BY <2>4, FallbackIs
      <3>2. Is(h, "next")
        BY <2>4 DEF Fallback
      <3>3. Item(h, x) \in LineSet
        BY <1>0, <3>1, <3>2, ItemIs DEF Base, FallbackTo
      <3>4. PICK new \in WorkSet : Goes(h, new)
        <4> DEFINE item == Item(h, x)
                   work == [Fresh(h) EXCEPT !.todo = @ \ {x},
                              !.p = item.p, !.by = item.by, !.kind = item.kind]
        <4>1. Fresh(h) \in WorkSet /\ Idle \in WorkSet
          BY <1>0, WorkIs
        <4>2. Work(at[h].todo \ {x}) \in WorkSet
          BY <1>0, <2>0, WorkIs
        <4>3. item.p \in Players /\ item.by \in {"id", "name"} /\ item.kind \in {"joined", "left"}
          BY <3>3 DEF LineSet
        <4>4. work \in WorkSet
          BY <4>1, <4>3 DEF WorkSet
        <4>5. [work EXCEPT !.stage = "existing"] \in WorkSet
          BY <4>4 DEF WorkSet, Stages
        <4>6. ByName(item.p) \in Rows \cup {None}
          BY <1>0, <4>3 DEF TypeOK, Keys, ByName
        <4>7. [work EXCEPT !.stage = "canonical", !.row = ByName(item.p),
                           !.on = ByName(item.p) \in online] \in WorkSet
          <5>1. ASSUME NEW r \in Rows \cup {None}, NEW b \in BOOLEAN
                PROVE  [work EXCEPT !.stage = "canonical", !.row = r, !.on = b] \in WorkSet
            BY <4>4 DEF WorkSet, Stages
          <5>2. (ByName(item.p) \in online) \in BOOLEAN
            OBVIOUS
          <5> QED
            BY <4>6, <5>1, <5>2
        <4> QED
          BY <3>1, <4>1, <4>2, <4>5, <4>7 DEF FallbackTo
      <3> QED
        BY <2>2, <2>4, <3>4 DEF Fallback
    <2>5. CASE Canonical(h)
      <3>1. rowOf[<<at[h].p, "id">>] \in Rows \cup {None}
        BY <1>0, <2>5 DEF Canonical, TypeOK, Control, ControlOf, Working, Holding, Is, Keys
      <3>2. PICK new : new = [at[h] EXCEPT
                !.stage = IF rowOf[<<at[h].p, "id">>] = None THEN "promote" ELSE "merge",
                !.into = rowOf[<<at[h].p, "id">>],
                !.intoOn = rowOf[<<at[h].p, "id">>] \in online]
        OBVIOUS
      <3>3. new \in WorkSet
        <4>1. ASSUME NEW s \in Stages, NEW r \in Rows \cup {None}, NEW b \in BOOLEAN
              PROVE  [at[h] EXCEPT !.stage = s, !.into = r, !.intoOn = b] \in WorkSet
          BY <2>0 DEF WorkSet
        <4>2. (IF rowOf[<<at[h].p, "id">>] = None THEN "promote" ELSE "merge") \in Stages
          BY DEF Stages
        <4>3. (rowOf[<<at[h].p, "id">>] \in online) \in BOOLEAN
          OBVIOUS
        <4> QED
          BY <3>1, <3>2, <4>1, <4>2, <4>3
      <3> QED
        BY <2>2, <2>5, <3>2, <3>3 DEF Canonical
    <2>6. CASE Promote(h)
      <3> DEFINE row == at[h].row
                 key == <<at[h].p, "id">>
      <3>1. at[h].p \in Players /\ row \in Rows
        BY <1>0, <2>6 DEF Promote, Control, ControlOf, Working, Holding, Is
      <3>2. CASE Throw(h)
        BY <2>3, <3>2
      <3>3. CASE ~Throw(h)
        <4>1. /\ rowOf' = [k \in Keys |-> IF k = key THEN row
                                           ELSE IF rowOf[k] = row THEN None ELSE rowOf[k]]
              /\ Goes(h, Reconciled(h)) /\ UNCHANGED <<online, open>>
          BY <2>6, <3>3 DEF Promote
        <4>2. rowOf' \in [Keys -> Rows \cup {None}]
          BY <1>0, <3>1, <4>1 DEF TypeOK
        <4>3. at' \in [Handlers -> WorkSet]
          BY <1>0, <3>1, <4>1, WorkIs DEF TypeOK, Goes
        <4> QED
          BY <1>0, <2>1, <4>1, <4>2, <4>3 DEF TypeOK
      <3> QED
        BY <3>2, <3>3
    <2>7. CASE Merge(h)
      <3> DEFINE row == at[h].row
                 into == at[h].into
      <3>1. at[h].p \in Players /\ row \in Rows /\ into \in Rows
        BY <1>0, <2>7 DEF Merge, Control, ControlOf, Working, Holding, Is
      <3>2. CASE Throw(h)
        BY <2>3, <3>2
      <3>3. CASE ~Throw(h)
        <4>1. /\ rowOf' = [k \in Keys |-> IF rowOf[k] = row THEN None ELSE rowOf[k]]
              /\ online' = (IF at[h].on \/ at[h].intoOn THEN online \cup {into}
                            ELSE online \ {into}) \ {row}
              /\ open' = [open EXCEPT ![into] = @ + open[row], ![row] = 0]
              /\ Goes(h, Reconciled(h))
          BY <2>7, <3>3 DEF Merge, MergedOpen
        <4>2. rowOf' \in [Keys -> Rows \cup {None}]
          BY <1>0, <4>1 DEF TypeOK
        <4>3. at' \in [Handlers -> WorkSet]
          BY <1>0, <3>1, <4>1, WorkIs DEF TypeOK, Goes
        <4>4. online' \subseteq Rows
          BY <1>0, <3>1, <4>1 DEF TypeOK
        <4>5. open' \in [Rows -> Nat]
          <5>1. open[into] + open[row] \in Nat
            BY <1>0, <3>1 DEF TypeOK
          <5> QED
            BY <1>0, <3>1, <4>1, <5>1 DEF TypeOK
        <4> QED
          BY <1>0, <2>1, <4>1, <4>2, <4>3, <4>4, <4>5 DEF TypeOK
      <3> QED
        BY <3>2, <3>3
    <2>8. CASE Existing(h)
      <3> DEFINE row == rowOf[<<at[h].p, at[h].by>>]
                 was == row \in online
      <3>1. row \in Rows \cup {None} /\ was \in BOOLEAN
        BY <1>0, <2>0, <2>8 DEF Existing, TypeOK, Control, ControlOf, Working, Is, Keys, WorkSet
      <3>2. ASSUME NEW b \in BOOLEAN, NEW r \in Rows \cup {None}
            PROVE  /\ [at[h] EXCEPT !.stage = "enter", !.on = b] \in WorkSet
                   /\ [at[h] EXCEPT !.stage = "close", !.row = r] \in WorkSet
        BY <2>0 DEF WorkSet, Stages
      <3>3. PICK new \in WorkSet : Goes(h, new)
        BY <1>0, <2>8, <3>1, <3>2, WorkIs DEF Existing
      <3> QED
        BY <2>2, <2>8, <3>3 DEF Existing
    <2>9. CASE Enter(h)
      <3>1. PICK row : EnterRow(h, row)
        BY <2>9, EnterIs
      <3>2. at[h].p \in Players /\ <<at[h].p, at[h].by>> \in Keys
        BY <1>0, <2>0, <3>1 DEF EnterRow, Control, ControlOf, Working, Is, Keys, WorkSet
      <3>3. row \in Rows
        BY <1>0, <3>1, <3>2 DEF EnterRow, Unused, TypeOK, Key
      <3>4. at' \in [Handlers -> WorkSet]
        <4>1. [at[h] EXCEPT !.stage = "session", !.row = row] \in WorkSet
          BY <2>0, <3>3 DEF WorkSet, Stages
        <4> QED
          BY <1>0, <3>1, <4>1, WorkIs DEF EnterRow, TypeOK, Goes
      <3>5. rowOf' \in [Keys -> Rows \cup {None}] /\ online' \subseteq Rows /\ open' = open
        BY <1>0, <3>1, <3>2, <3>3 DEF EnterRow, TypeOK
      <3> QED
        BY <1>0, <2>1, <3>4, <3>5 DEF TypeOK
    <2>10. CASE Session(h)
      <3>1. at[h].row \in Rows
        BY <1>0, <2>10 DEF Session, Control, ControlOf, Is
      <3>2. CASE Throw(h)
        BY <2>3, <3>2
      <3>3. CASE ~Throw(h)
        <4>1. /\ open' = [open EXCEPT ![at[h].row] = @ + 1] /\ UNCHANGED <<rowOf, online>>
              /\ Goes(h, NextOf(h))
          BY <2>10, <3>3 DEF Session
        <4> QED
          BY <1>0, <2>1, <3>1, <4>1, WorkIs DEF TypeOK, Goes
      <3> QED
        BY <3>2, <3>3
    <2>11. ASSUME NEW row \in Rows, Closes(row), NEW new \in WorkSet, Goes(h, new)
           PROVE  TypeOK'
      BY <1>0, <2>1, <2>11 DEF TypeOK, Closes, Goes
    <2>12. CASE h = "log" /\ Close
      <3>1. at["log"].row \in Rows
        BY <1>0, <2>12 DEF Close, Control, ControlOf, Is, Handlers
      <3> QED
        BY <1>0, <2>3, <2>11, <2>12, <3>1, WorkIs DEF Close
    <2>13. CASE h = "list" /\ CloseMissing
      <3>1. PICK row \in at["list"].todo : \/ Throw("list")
                \/ (Closes(row) /\ Goes("list", [at["list"] EXCEPT !.todo = @ \ {row}]))
        BY <2>13 DEF CloseMissing
      <3>2. row \in Rows
        BY <1>0, <2>13 DEF CloseMissing, Control, ControlOf, Is
      <3>3. [at["list"] EXCEPT !.todo = @ \ {row}] \in WorkSet
        BY <2>0, <2>13 DEF WorkSet
      <3> QED
        BY <2>3, <2>11, <2>13, <3>1, <3>2, <3>3
    <2>14. CASE h = "list" /\ FindMissing
      <3>1. Missing(at["list"].seen) \in SUBSET (Nat \cup Players \cup Rows)
        BY <1>0 DEF Missing, TypeOK
      <3>2. [at["list"] EXCEPT !.stage = "missing", !.todo = Missing(at["list"].seen),
                               !.seen = {}] \in WorkSet
        BY <2>0, <2>14, <3>1 DEF WorkSet, Stages
      <3> QED
        BY <2>2, <2>14, <3>2 DEF FindMissing
    <2>15. CASE h = "list" /\ Reported
      BY <1>0, <2>2, <2>15, WorkIs DEF Reported
    <2> QED
      BY <2>4, <2>5, <2>6, <2>7, <2>8, <2>9, <2>10, <2>12, <2>13, <2>14, <2>15
  <1> QED
    BY <1>1, <1>2, <1>3, <1>4, <1>5, <1>6, <1>7, <1>8, <1>9, Steps

-----------------------------------------------------------------------------
(* What the steps of a handler leave in its hands                          *)

LEMMA GoesIs ==
    ASSUME TypeOK, NEW h \in Handlers, NEW new, Goes(h, new)
    PROVE  at'[h] = new /\ \A g \in Handlers : g # h => at'[g] = at[g]
  BY DEF TypeOK, Goes

\* The rest of a handler's work, when an item is done.
Continues(h) ==
    /\ \A g \in Handlers : g # h => at'[g] = at[g]
    /\ at'[h].by = "id" /\ at'[h].kind = "joined" /\ at'[h].todo = at[h].todo
    /\ IF h = "page" /\ at[h].todo = {} THEN at'[h].stage = "idle"
       ELSE at'[h].stage = "next" /\ at'[h].seen = at[h].seen
\* An item goes to another stage, and its handler keeps what it has in hand.
Turns(h, stage) ==
    /\ \A g \in Handlers : g # h => at'[g] = at[g]
    /\ at'[h].stage = stage /\ at'[h].todo = at[h].todo /\ at'[h].seen = at[h].seen
    /\ at'[h].p = at[h].p /\ at'[h].by = at[h].by /\ at'[h].kind = at[h].kind
\* A handler drops its work.
Stops(h) ==
    /\ \A g \in Handlers : g # h => at'[g] = at[g]
    /\ at'[h].todo = {} /\ at'[h].stage = (IF h = "log" THEN "next" ELSE "idle")
    /\ at'[h].by = "id" /\ at'[h].kind = "joined"

LEMMA NextOfIs ==
    ASSUME TypeOK, NEW h \in Handlers, Goes(h, NextOf(h))
    PROVE  Continues(h)
  BY GoesIs DEF Continues, NextOf, Fresh, Idle, Work

LEMMA ReconciledIs ==
    ASSUME TypeOK, NEW h \in Handlers, Goes(h, Reconciled(h))
    PROVE  IF h = "page" THEN Continues(h) ELSE Turns(h, "existing")
  <1>1. CASE h = "page"
    BY <1>1, NextOfIs DEF Reconciled
  <1>2. CASE h # "page"
    <2> DEFINE new == Reconciled(h)
    <2>1. at'[h] = new /\ \A g \in Handlers : g # h => at'[g] = at[g]
      BY GoesIs
    <2>2. new = [Fresh(h) EXCEPT !.stage = "existing", !.p = at[h].p,
                                 !.by = at[h].by, !.kind = at[h].kind]
      BY <1>2 DEF Reconciled
    <2>3. Fresh(h).todo = at[h].todo /\ Fresh(h).seen = at[h].seen /\ Fresh(h) \in WorkSet
      BY WorkIs DEF Fresh, Work
    <2>4. /\ new.stage = "existing" /\ new.todo = at[h].todo /\ new.seen = at[h].seen
          /\ new.p = at[h].p /\ new.by = at[h].by /\ new.kind = at[h].kind
      BY <2>2, <2>3 DEF WorkSet
    <2> QED
      BY <1>2, <2>1, <2>4 DEF Turns
  <1> QED
    BY <1>1, <1>2

LEMMA ThrowIs ==
    ASSUME TypeOK, NEW h \in Handlers, Throw(h)
    PROVE  Stops(h) /\ "disturbed" \in happened' /\ UNCHANGED players
  <1>1. Goes(h, IF h = "log" THEN Work({}) ELSE Idle) /\ UNCHANGED players
    BY DEF Throw
  <1>2. Stops(h)
    BY <1>1, GoesIs DEF Stops, Work, Idle
  <1> QED
    BY <1>1, <1>2 DEF Throw, Happens

Exited(h) == Stops(h) /\ "disturbed" \in happened' /\ UNCHANGED players

LEMMA CanonicalIs ==
    ASSUME TypeOK, NEW h \in Handlers, Canonical(h)
    PROVE  /\ Is(h, "canonical") /\ Pure
           /\ Turns(h, IF ById(at[h].p) = None THEN "promote" ELSE "merge")
           /\ at'[h].row = at[h].row /\ at'[h].on = at[h].on
           /\ at'[h].into = ById(at[h].p)
  <1> DEFINE new == [at[h] EXCEPT
                !.stage = IF ById(at[h].p) = None THEN "promote" ELSE "merge",
                !.into = ById(at[h].p), !.intoOn = ById(at[h].p) \in online]
  <1>1. Goes(h, new) /\ Is(h, "canonical") /\ Pure
    BY DEF Canonical, Pure, ById
  <1>2. at[h] \in WorkSet
    BY DEF TypeOK
  <1>3. at'[h] = new /\ \A g \in Handlers : g # h => at'[g] = at[g]
    BY <1>1, GoesIs
  <1>4. /\ new.stage = (IF ById(at[h].p) = None THEN "promote" ELSE "merge")
        /\ new.todo = at[h].todo /\ new.seen = at[h].seen
        /\ new.p = at[h].p /\ new.by = at[h].by /\ new.kind = at[h].kind
        /\ new.row = at[h].row /\ new.on = at[h].on /\ new.into = ById(at[h].p)
    BY <1>2 DEF WorkSet
  <1> QED
    BY <1>1, <1>3, <1>4 DEF Turns

LEMMA PromoteIs ==
    ASSUME TypeOK, NEW h \in Handlers, Promote(h)
    PROVE  /\ Is(h, "promote")
           /\ \/ Exited(h)
              \/ /\ Stored(at[h].row) /\ ById(at[h].p) \in {None, at[h].row}
                 /\ rowOf' = [k \in Keys |-> IF k = <<at[h].p, "id">> THEN at[h].row
                                             ELSE IF rowOf[k] = at[h].row THEN None
                                             ELSE rowOf[k]]
                 /\ IF h = "page" THEN Continues(h) ELSE Turns(h, "existing")
                 /\ UNCHANGED <<online, open, happened>>
  BY ThrowIs, ReconciledIs DEF Promote, Exited, ById

LEMMA MergeIs ==
    ASSUME TypeOK, NEW h \in Handlers, Merge(h)
    PROVE  /\ Is(h, "merge")
           /\ \/ Exited(h)
              \/ /\ Stored(at[h].row) /\ Stored(at[h].into)
                 /\ rowOf' = [k \in Keys |-> IF rowOf[k] = at[h].row THEN None ELSE rowOf[k]]
                 /\ online' = (IF at[h].on \/ at[h].intoOn THEN online \cup {at[h].into}
                               ELSE online \ {at[h].into}) \ {at[h].row}
                 /\ open' = [open EXCEPT ![at[h].into] = @ + open[at[h].row], ![at[h].row] = 0]
                 /\ IF h = "page" THEN Continues(h) ELSE Turns(h, "existing")
                 /\ UNCHANGED happened
  BY ThrowIs, ReconciledIs DEF Merge, MergedOpen, Exited

LEMMA ExistingIs ==
    ASSUME TypeOK, NEW h \in Handlers, Existing(h)
    PROVE  /\ Is(h, "existing") /\ Pure
           /\ IF at[h].kind = "joined"
              THEN Turns(h, "enter") /\ at'[h].on = (rowOf[Key(h)] \in online)
              ELSE IF rowOf[Key(h)] \in online
              THEN Turns(h, "close") /\ at'[h].row = rowOf[Key(h)]
              ELSE Continues(h)
  <1>0. at[h] \in WorkSet /\ Is(h, "existing") /\ Pure
    BY DEF TypeOK, Existing, Pure
  <1>1. CASE at[h].kind = "joined"
    <2> DEFINE was == rowOf[Key(h)] \in online
               new == [at[h] EXCEPT !.stage = "enter", !.on = was]
    <2>1. Goes(h, new)
      BY <1>1 DEF Existing, Key
    <2>2. at'[h] = new /\ \A g \in Handlers : g # h => at'[g] = at[g]
      BY <2>1, GoesIs
    <2>3. ASSUME NEW b
          PROVE  LET x == [at[h] EXCEPT !.stage = "enter", !.on = b]
                 IN  /\ x.stage = "enter" /\ x.todo = at[h].todo /\ x.seen = at[h].seen
                     /\ x.p = at[h].p /\ x.by = at[h].by /\ x.kind = at[h].kind /\ x.on = b
      BY <1>0 DEF WorkSet
    <2>4. Turns(h, "enter") /\ at'[h].on = was
      BY <2>2, <2>3 DEF Turns
    <2> QED
      BY <1>0, <1>1, <2>4
  <1>2. CASE at[h].kind # "joined" /\ rowOf[Key(h)] \in online
    <2> DEFINE new == [at[h] EXCEPT !.stage = "close", !.row = rowOf[Key(h)]]
    <2>1. Goes(h, new)
      BY <1>2 DEF Existing, Key
    <2>2. at'[h] = new /\ \A g \in Handlers : g # h => at'[g] = at[g]
      BY <2>1, GoesIs
    <2>3. /\ new.stage = "close" /\ new.todo = at[h].todo /\ new.seen = at[h].seen
          /\ new.p = at[h].p /\ new.by = at[h].by /\ new.kind = at[h].kind
          /\ new.row = rowOf[Key(h)]
      BY <1>0 DEF WorkSet
    <2> QED
      BY <1>0, <1>2, <2>2, <2>3 DEF Turns
  <1>3. CASE at[h].kind # "joined" /\ rowOf[Key(h)] \notin online
    BY <1>0, <1>3, NextOfIs DEF Existing, Key
  <1> QED
    BY <1>1, <1>2, <1>3

LEMMA EnterGoes ==
    ASSUME TypeOK, NEW h \in Handlers, NEW row, EnterRow(h, row)
    PROVE  IF at[h].on THEN Continues(h) ELSE Turns(h, "session") /\ at'[h].row = row
  <1>0. at[h] \in WorkSet
    BY DEF TypeOK
  <1>1. CASE at[h].on
    BY <1>1, NextOfIs DEF EnterRow
  <1>2. CASE ~at[h].on
    <2> DEFINE new == [at[h] EXCEPT !.stage = "session", !.row = row]
    <2>1. Goes(h, new)
      BY <1>2 DEF EnterRow
    <2>2. at'[h] = new /\ \A g \in Handlers : g # h => at'[g] = at[g]
      BY <2>1, GoesIs
    <2>3. /\ new.stage = "session" /\ new.todo = at[h].todo /\ new.seen = at[h].seen
          /\ new.p = at[h].p /\ new.by = at[h].by /\ new.kind = at[h].kind /\ new.row = row
      BY <1>0 DEF WorkSet
    <2> QED
      BY <1>2, <2>2, <2>3 DEF Turns
  <1> QED
    BY <1>1, <1>2

LEMMA SessionIs ==
    ASSUME TypeOK, NEW h \in Handlers, Session(h)
    PROVE  /\ Is(h, "session")
           /\ \/ Exited(h)
              \/ /\ Stored(at[h].row) /\ open' = [open EXCEPT ![at[h].row] = @ + 1]
                 /\ UNCHANGED <<rowOf, online, happened>> /\ Continues(h)
  BY ThrowIs, NextOfIs DEF Session, Exited

LEMMA CloseIs ==
    ASSUME TypeOK, Close
    PROVE  /\ Is("log", "close")
           /\ \/ Exited("log")
              \/ /\ Stored(at["log"].row) /\ Closes(at["log"].row)
                 /\ UNCHANGED happened /\ Continues("log")
  BY ThrowIs, NextOfIs DEF Close, Exited, Handlers

\* The list's own steps.
Lists(stage, todo) ==
    /\ \A g \in Handlers : g # "list" => at'[g] = at[g]
    /\ at'["list"].stage = stage /\ at'["list"].todo = todo
    /\ at'["list"].by = at["list"].by /\ at'["list"].kind = at["list"].kind

LEMMA CloseMissingIs ==
    ASSUME TypeOK, CloseMissing
    PROVE  /\ Is("list", "missing")
           /\ \/ Exited("list")
              \/ \E row \in at["list"].todo :
                   /\ Stored(row) /\ Closes(row) /\ UNCHANGED happened
                   /\ Lists("missing", at["list"].todo \ {row})
  <1>1. PICK row \in at["list"].todo : \/ Throw("list")
            \/ (/\ Stored(row) /\ Closes(row) /\ UNCHANGED happened
                /\ Goes("list", [at["list"] EXCEPT !.todo = @ \ {row}]))
    BY DEF CloseMissing
  <1>2. at["list"] \in WorkSet /\ Is("list", "missing") /\ "list" \in Handlers
    BY DEF TypeOK, CloseMissing, Handlers
  <1>3. ASSUME Goes("list", [at["list"] EXCEPT !.todo = @ \ {row}])
        PROVE  Lists("missing", at["list"].todo \ {row})
    BY <1>2, <1>3, GoesIs DEF Lists, WorkSet, Is
  <1> QED
    BY <1>1, <1>2, <1>3, ThrowIs DEF Exited

LEMMA FindMissingIs ==
    ASSUME TypeOK, FindMissing
    PROVE  /\ Is("list", "next") /\ Pure /\ Lists("missing", Missing(at["list"].seen))
  <1>1. at["list"] \in WorkSet /\ Is("list", "next") /\ "list" \in Handlers /\ Pure
    BY DEF TypeOK, FindMissing, Handlers, Pure
  <1>2. Lists("missing", Missing(at["list"].seen))
    <2> DEFINE new == [at["list"] EXCEPT !.stage = "missing",
                         !.todo = Missing(at["list"].seen), !.seen = {}]
    <2>1. at'["list"] = new /\ \A g \in Handlers : g # "list" => at'[g] = at[g]
      BY <1>1, GoesIs DEF FindMissing
    <2>2. /\ new.stage = "missing" /\ new.todo = Missing(at["list"].seen)
          /\ new.by = at["list"].by /\ new.kind = at["list"].kind
      BY <1>1 DEF WorkSet
    <2> QED
      BY <2>1, <2>2 DEF Lists
  <1> QED
    BY <1>1, <1>2

LEMMA ReportedIs ==
    ASSUME TypeOK, Reported
    PROVE  /\ Is("list", "missing") /\ Pure /\ Stops("list")
  BY GoesIs DEF Reported, Pure, Stops, Idle, Work, Handlers

\* The first step on an item x, by its outcome.
Falls(h, x) ==
    /\ First(h, x) /\ Item(h, x) \in LineSet
    /\ h # "log" => x \in Players /\ Item(h, x) = [p |-> x, by |-> "id", kind |-> "joined"]
    /\ \/ /\ at'[h].stage \in {"canonical", "existing"}
          /\ h = "page" => at'[h].stage = "canonical"
          /\ at'[h].todo = at[h].todo \ {x} /\ at'[h].seen = at[h].seen
          /\ at'[h].p = Item(h, x).p /\ at'[h].by = Item(h, x).by
          /\ at'[h].kind = Item(h, x).kind
          /\ IF at'[h].stage = "canonical"
             THEN /\ Item(h, x).by = "id" /\ ByName(Item(h, x).p) # None
                  /\ at'[h].row = ByName(Item(h, x).p)
                  /\ at'[h].on = (ByName(Item(h, x).p) \in online)
             ELSE Item(h, x).by = "id" => ByName(Item(h, x).p) = None
       \/ /\ h = "page"
          /\ at'[h].stage \in {"idle", "next"} /\ at'[h].todo = at[h].todo \ {x}
          /\ at'[h].by = "id" /\ at'[h].kind = "joined"

LEMMA FallbackGoes ==
    ASSUME Base, NEW h \in Handlers, Fallback(h)
    PROVE  /\ Is(h, "next") /\ Pure
           /\ \A g \in Handlers : g # h => at'[g] = at[g]
           /\ \E x \in at[h].todo : Falls(h, x)
  <1>0. TypeOK /\ Is(h, "next") /\ Pure
    BY FallbackIs DEF Base
  <1>1. PICK x \in at[h].todo : FallbackTo(h, x)
    BY FallbackIs
  <1> DEFINE item == Item(h, x)
             work == [Fresh(h) EXCEPT !.todo = @ \ {x},
                        !.p = item.p, !.by = item.by, !.kind = item.kind]
  <1>2. /\ First(h, x) /\ item \in LineSet
        /\ h # "log" => x \in Players /\ item = [p |-> x, by |-> "id", kind |-> "joined"]
    BY <1>0, <1>1, ItemIs DEF FallbackTo
  <1>3. Fresh(h).todo = at[h].todo /\ Fresh(h).seen = at[h].seen /\ Fresh(h) \in WorkSet
    BY <1>0, WorkIs DEF Fresh, Work
  <1>4. /\ work.todo = at[h].todo \ {x} /\ work.seen = at[h].seen
        /\ work.p = item.p /\ work.by = item.by /\ work.kind = item.kind
        /\ DOMAIN work = DOMAIN Fresh(h)
    BY <1>3 DEF WorkSet
  <1>5. CASE item.by = "id" /\ ByName(item.p) # None
    <2>1. ASSUME NEW r, NEW b
          PROVE  LET y == [work EXCEPT !.stage = "canonical", !.row = r, !.on = b]
                 IN  /\ y.stage = "canonical" /\ y.todo = work.todo /\ y.seen = work.seen
                     /\ y.p = work.p /\ y.by = work.by /\ y.kind = work.kind
                     /\ y.row = r /\ y.on = b
      BY <1>3 DEF WorkSet
    <2>2. Goes(h, [work EXCEPT !.stage = "canonical", !.row = ByName(item.p),
                               !.on = ByName(item.p) \in online])
      BY <1>1, <1>5 DEF FallbackTo
    <2>3. /\ \A g \in Handlers : g # h => at'[g] = at[g]
          /\ at'[h] = [work EXCEPT !.stage = "canonical", !.row = ByName(item.p),
                                  !.on = ByName(item.p) \in online]
      BY <1>0, <2>2, GoesIs
    <2>4. /\ at'[h].stage = "canonical" /\ at'[h].todo = at[h].todo \ {x}
          /\ at'[h].seen = at[h].seen /\ at'[h].p = item.p /\ at'[h].by = item.by
          /\ at'[h].kind = item.kind /\ at'[h].row = ByName(item.p)
          /\ at'[h].on = (ByName(item.p) \in online)
      BY <1>4, <2>1, <2>3
    <2> QED
      BY <1>0, <1>2, <1>5, <2>3, <2>4 DEF Falls
  <1>6. CASE ~(item.by = "id" /\ ByName(item.p) # None) /\ h = "page"
    <2>1. Goes(h, IF at[h].todo = {x} THEN Idle ELSE Work(at[h].todo \ {x}))
      BY <1>1, <1>6 DEF FallbackTo
    <2>2. at'[h] = (IF at[h].todo = {x} THEN Idle ELSE Work(at[h].todo \ {x}))
          /\ \A g \in Handlers : g # h => at'[g] = at[g]
      BY <1>0, <2>1, GoesIs
    <2>3. /\ at'[h].stage \in {"idle", "next"} /\ at'[h].todo = at[h].todo \ {x}
          /\ at'[h].by = "id" /\ at'[h].kind = "joined"
      BY <2>2 DEF Idle, Work
    <2> QED
      BY <1>0, <1>2, <1>6, <2>2, <2>3 DEF Falls
  <1>7. CASE ~(item.by = "id" /\ ByName(item.p) # None) /\ h # "page"
    <2>1. Goes(h, [work EXCEPT !.stage = "existing"])
      BY <1>1, <1>7 DEF FallbackTo
    <2>2. at'[h] = [work EXCEPT !.stage = "existing"]
          /\ \A g \in Handlers : g # h => at'[g] = at[g]
      BY <1>0, <2>1, GoesIs
    <2>3. LET y == [work EXCEPT !.stage = "existing"]
          IN  /\ y.stage = "existing" /\ y.todo = work.todo /\ y.seen = work.seen
              /\ y.p = work.p /\ y.by = work.by /\ y.kind = work.kind
      BY <1>3 DEF WorkSet
    <2>4. /\ at'[h].stage = "existing" /\ at'[h].todo = at[h].todo \ {x}
          /\ at'[h].seen = at[h].seen /\ at'[h].p = item.p /\ at'[h].by = item.by
          /\ at'[h].kind = item.kind
      BY <1>4, <2>2, <2>3
    <2> QED
      BY <1>0, <1>2, <1>7, <2>2, <2>4 DEF Falls
  <1> QED
    BY <1>5, <1>6, <1>7

\* The actions that are no step of a handler.
LEMMA OutsideIs ==
    ASSUME TypeOK
    PROVE  /\ \A p \in Players : Move(p) => UNCHANGED <<agent, players, at>>
           /\ TakeList => UNCHANGED <<game, acked, batch, players, at, happened>>
           /\ Upload => /\ Is("log", "idle") /\ acked < batch' /\ batch' \in {batch, Len(log)}
                        /\ \A g \in Handlers : g # "log" => at'[g] = at[g]
                        /\ at'["log"].stage = "next" /\ at'["log"].todo = (acked + 1)..batch'
                        /\ UNCHANGED <<game, acked, listing, players, happened>>
           /\ Answer => /\ Is("log", "next") /\ at["log"].todo = {}
                        /\ \A g \in Handlers : g # "log" => at'[g] = at[g]
                        /\ at'["log"].stage = "idle" /\ at'["log"].todo = {}
                        /\ \/ acked' = batch /\ UNCHANGED happened
                           \/ acked' = acked /\ happened' = happened \cup {"replay"}
                        /\ UNCHANGED <<game, batch, listing, players>>
           /\ Report => /\ listing # None /\ listing' = None
                        /\ \A g \in Handlers : g # "list" => at'[g] = at[g]
                        /\ at'["list"].stage = "next" /\ at'["list"].todo = listing
                        /\ at'["list"].seen = listing /\ at'["list"].by = "id"
                        /\ at'["list"].kind = "joined"
                        /\ "disturbed" \in happened' \/ UNCHANGED happened
                        /\ "disturbed" \notin happened' =>
                               \A i \in (acked + 1)..Len(log) : log[i].kind # "joined"
                        /\ UNCHANGED <<game, acked, batch, players>>
           /\ OpenPage => /\ Is("page", "idle")
                          /\ \A g \in Handlers : g # "page" => at'[g] = at[g]
                          /\ at'["page"].stage = "next" /\ at'["page"].todo = Stable
                          /\ at'["page"].by = "id" /\ at'["page"].kind = "joined"
                          /\ UNCHANGED <<game, agent, players, happened>>
           /\ Crash => /\ \A g \in Handlers : /\ at'[g].stage = "idle" /\ at'[g].todo = {}
                                                /\ at'[g].by = "id" /\ at'[g].kind = "joined"
                       /\ "disturbed" \in happened'
                       /\ UNCHANGED <<game, agent, players>>
  <1> USE DEF Handlers
  <1>1. \A p \in Players : Move(p) => UNCHANGED <<agent, players, at>>
    BY DEF Move
  <1>2. TakeList => UNCHANGED <<game, acked, batch, players, at, happened>>
    BY DEF TakeList
  <1>3. ASSUME Upload
        PROVE  /\ Is("log", "idle") /\ acked < batch' /\ batch' \in {batch, Len(log)}
               /\ \A g \in Handlers : g # "log" => at'[g] = at[g]
               /\ at'["log"].stage = "next" /\ at'["log"].todo = (acked + 1)..batch'
               /\ UNCHANGED <<game, acked, listing, players, happened>>
    <2>1. Goes("log", Work((acked + 1)..batch'))
      BY <1>3 DEF Upload
    <2>2. at'["log"] = Work((acked + 1)..batch')
          /\ \A g \in Handlers : g # "log" => at'[g] = at[g]
      BY <2>1, GoesIs
    <2> QED
      BY <1>3, <2>2 DEF Upload, Work
  <1>4. ASSUME Answer
        PROVE  /\ Is("log", "next") /\ at["log"].todo = {}
               /\ \A g \in Handlers : g # "log" => at'[g] = at[g]
               /\ at'["log"].stage = "idle" /\ at'["log"].todo = {}
               /\ \/ acked' = batch /\ UNCHANGED happened
                  \/ acked' = acked /\ happened' = happened \cup {"replay"}
               /\ UNCHANGED <<game, batch, listing, players>>
    <2>1. at'["log"] = Idle /\ \A g \in Handlers : g # "log" => at'[g] = at[g]
      BY <1>4, GoesIs DEF Answer
    <2> QED
      BY <1>4, <2>1 DEF Answer, Idle, Work, NoFault, Fault, Happens
  <1>5. ASSUME Report
        PROVE  /\ listing # None /\ listing' = None
               /\ \A g \in Handlers : g # "list" => at'[g] = at[g]
               /\ at'["list"].stage = "next" /\ at'["list"].todo = listing
               /\ at'["list"].seen = listing /\ at'["list"].by = "id"
               /\ at'["list"].kind = "joined"
               /\ "disturbed" \in happened' \/ UNCHANGED happened
               /\ "disturbed" \notin happened' =>
                      \A i \in (acked + 1)..Len(log) : log[i].kind # "joined"
               /\ UNCHANGED <<game, acked, batch, players>>
    <2>1. at'["list"] = [Work(listing) EXCEPT !.seen = listing]
          /\ \A g \in Handlers : g # "list" => at'[g] = at[g]
      BY <1>5, GoesIs DEF Report
    <2> QED
      BY <1>5, <2>1 DEF Report, Work, Happens
  <1>6. ASSUME OpenPage
        PROVE  /\ Is("page", "idle")
               /\ \A g \in Handlers : g # "page" => at'[g] = at[g]
               /\ at'["page"].stage = "next" /\ at'["page"].todo = Stable
               /\ at'["page"].by = "id" /\ at'["page"].kind = "joined"
               /\ UNCHANGED <<game, agent, players, happened>>
    <2>1. at'["page"] = Work(Stable) /\ \A g \in Handlers : g # "page" => at'[g] = at[g]
      BY <1>6, GoesIs DEF OpenPage
    <2> QED
      BY <1>6, <2>1 DEF OpenPage, Work
  <1>7. Crash => /\ \A g \in Handlers : /\ at'[g].stage = "idle" /\ at'[g].todo = {}
                                         /\ at'[g].by = "id" /\ at'[g].kind = "joined"
                 /\ "disturbed" \in happened'
                 /\ UNCHANGED <<game, agent, players>>
    BY DEF Crash, Idle, Work, Fault, Happens
  <1> QED
    BY <1>1, <1>2, <1>3, <1>4, <1>5, <1>6, <1>7

LEMMA ControlFrame ==
    ASSUME Control, NEW h \in Handlers, \A g \in Handlers : g # h => at'[g] = at[g],
           ControlOf(h)'
    PROVE  Control'
  BY DEF Control, ControlOf, Working, Holding, Is

LEMMA ControlStep ==
    ASSUME Base, [Next]_vars
    PROVE  Control'
  <1> USE DEF Is, Working, Holding
  <1>0. TypeOK /\ Control /\ TypeOK'
    BY TypeStep DEF Base
  <1>a. \A h \in Handlers : h \in {"log", "list", "page"} /\ at'[h] \in WorkSet
    BY <1>0 DEF TypeOK, Handlers
  <1>b. {"log", "list", "page"} \subseteq Handlers
    BY DEF Handlers
  <1>1. CASE UNCHANGED at
    BY <1>0, <1>1 DEF Control, ControlOf
  <1>2. CASE Upload \/ Answer
    <2>1. ControlOf("log")' /\ \A g \in Handlers : g # "log" => at'[g] = at[g]
      BY <1>0, <1>2, OutsideIs DEF ControlOf
    <2> QED
      BY <1>0, <1>b, <2>1, ControlFrame
  <1>4. CASE Report
    <2>1. ControlOf("list")' /\ \A g \in Handlers : g # "list" => at'[g] = at[g]
      BY <1>0, <1>4, OutsideIs DEF ControlOf
    <2> QED
      BY <1>0, <1>b, <2>1, ControlFrame
  <1>5. CASE OpenPage
    <2>1. ControlOf("page")' /\ \A g \in Handlers : g # "page" => at'[g] = at[g]
      BY <1>0, <1>5, OutsideIs DEF ControlOf, Stable
    <2> QED
      BY <1>0, <1>b, <2>1, ControlFrame
  <1>6. CASE Crash
    BY <1>0, <1>6, OutsideIs DEF Control, ControlOf
  <1>7. ASSUME NEW h \in Handlers, Stops(h) PROVE Control'
    <2>1. ControlOf(h)'
      BY <1>7, <1>a DEF Stops, ControlOf
    <2> QED
      BY <1>0, <1>7, <2>1, ControlFrame DEF Stops
  <1>8. ASSUME NEW h \in Handlers, Continues(h), ~Is(h, "missing") PROVE Control'
    <2>1. ControlOf(h)'
      BY <1>0, <1>7, <1>8, <1>a DEF Continues, ControlOf, Control
    <2> QED
      BY <1>0, <1>8, <2>1, ControlFrame DEF Continues
  <1>9. ASSUME NEW h \in Handlers, NEW s, Turns(h, s), Working(h),
               (s \in {"existing", "enter"} /\ h # "page") \/
               (s \in {"promote", "merge", "session", "close"} /\ at'[h].row \in Rows),
               s = "merge" => at'[h].into \in Rows,
               h = "page" => s \in {"promote", "merge"}, h = "list" => s # "close"
        PROVE  Control'
    <2>1. ControlOf(h)'
      BY <1>0, <1>9, <1>a DEF Turns, ControlOf, Control
    <2> QED
      BY <1>0, <1>9, <2>1, ControlFrame DEF Turns
  <1>10. ASSUME NEW h \in Handlers, Fallback(h) PROVE Control'
    <2>1. Is(h, "next") /\ \A g \in Handlers : g # h => at'[g] = at[g]
      BY <1>10, FallbackGoes
    <2>2. PICK x \in at[h].todo : Falls(h, x)
      BY <1>10, FallbackGoes
    <2>3. Item(h, x).p \in Players
      BY <2>2 DEF Falls, LineSet
    <2>4. ByName(Item(h, x).p) # None => ByName(Item(h, x).p) \in Rows
      BY <1>0, <2>3 DEF TypeOK, Keys, ByName
    <2>5. ControlOf(h)'
      BY <1>0, <1>a, <2>1, <2>2, <2>3, <2>4 DEF Falls, ControlOf, Control
    <2> QED
      BY <1>0, <2>1, <2>5, ControlFrame
  <1>11. ASSUME NEW h \in Handlers, Canonical(h) PROVE Control'
    <2>1. ControlOf(h) /\ Working(h)
      BY <1>0, <1>11, CanonicalIs DEF Control
    <2>2. ById(at[h].p) # None => ById(at[h].p) \in Rows
      BY <1>0, <2>1 DEF TypeOK, Keys, ById, ControlOf
    <2> QED
      BY <1>0, <1>9, <1>11, <2>1, <2>2, CanonicalIs DEF ControlOf
  <1>12. ASSUME NEW h \in Handlers, Promote(h) \/ Merge(h) PROVE Control'
    <2>1. Working(h)
      BY <1>0, <1>12, PromoteIs, MergeIs
    <2>2. ~Is(h, "missing") /\ (Exited(h) \/ Continues(h) \/ (Turns(h, "existing") /\ h # "page"))
      BY <1>0, <1>12, PromoteIs, MergeIs
    <2> QED
      BY <1>7, <1>8, <1>9, <2>1, <2>2 DEF Exited
  <1>13. ASSUME NEW h \in Handlers, h # "page", Existing(h) PROVE Control'
    <2>1. ControlOf(h) /\ Is(h, "existing")
      BY <1>0, <1>13, ExistingIs DEF Control
    <2>2. rowOf[Key(h)] \in online => rowOf[Key(h)] \in Rows
      BY <1>0 DEF TypeOK
    <2>3. CASE at[h].kind = "joined"
      <3>1. Turns(h, "enter")
        BY <1>0, <1>13, <2>3, ExistingIs
      <3> QED
        BY <1>9, <1>13, <2>1, <3>1
    <2>4. CASE at[h].kind # "joined" /\ rowOf[Key(h)] \in online
      <3>1. Turns(h, "close") /\ at'[h].row \in Rows /\ h = "log"
        BY <1>0, <1>13, <1>a, <2>1, <2>2, <2>4, ExistingIs DEF ControlOf
      <3> QED
        BY <1>9, <1>13, <2>1, <3>1
    <2>5. CASE at[h].kind # "joined" /\ rowOf[Key(h)] \notin online
      BY <1>0, <1>8, <1>13, <2>1, <2>5, ExistingIs
    <2> QED
      BY <2>3, <2>4, <2>5
  <1>14. ASSUME NEW h \in Handlers, h # "page", Enter(h) PROVE Control'
    <2>1. PICK row : EnterRow(h, row)
      BY <1>14, EnterIs
    <2>2. Is(h, "enter") /\ ControlOf(h)
      BY <1>0, <2>1 DEF EnterRow, Control
    <2>3. row \in Rows
      <3>1. Key(h) \in Keys
        BY <1>0, <2>2 DEF Key, Keys, ControlOf, TypeOK, WorkSet
      <3> QED
        BY <1>0, <2>1, <3>1 DEF EnterRow, Unused, TypeOK
    <2>4. CASE at[h].on
      BY <1>0, <1>8, <2>1, <2>2, <2>4, EnterGoes
    <2>5. CASE ~at[h].on
      <3>1. Turns(h, "session") /\ at'[h].row \in Rows
        BY <1>0, <2>1, <2>3, <2>5, EnterGoes
      <3> QED
        BY <1>9, <1>14, <2>2, <3>1
    <2> QED
      BY <2>4, <2>5
  <1>15. ASSUME NEW h \in Handlers, Session(h) PROVE Control'
    BY <1>0, <1>7, <1>8, <1>15, SessionIs DEF Exited
  <1>16. CASE Close
    BY <1>0, <1>7, <1>8, <1>16, <1>b, CloseIs DEF Exited
  <1>17. CASE CloseMissing
    <2>1. Is("list", "missing")
      BY <1>0, <1>17, CloseMissingIs
    <2>2. CASE Exited("list")
      BY <1>7, <1>b, <2>2 DEF Exited
    <2>3. ASSUME NEW row, Lists("missing", at["list"].todo \ {row}) PROVE Control'
      <3>1. ControlOf("list")'
        BY <1>0, <1>b, <2>1, <2>3 DEF Lists, ControlOf, Control
      <3> QED
        BY <1>0, <1>b, <2>3, <3>1, ControlFrame DEF Lists
    <2> QED
      BY <1>0, <1>17, <2>2, <2>3, CloseMissingIs
  <1>18. CASE FindMissing
    <2>1. Lists("missing", Missing(at["list"].seen))
      BY <1>0, <1>18, FindMissingIs
    <2>2. Missing(at["list"].seen) \subseteq Rows
      BY <1>0 DEF Missing, TypeOK
    <2>3. ControlOf("list")'
      BY <1>0, <1>b, <2>1, <2>2 DEF Lists, ControlOf, Control
    <2> QED
      BY <1>0, <1>b, <2>1, <2>3, ControlFrame DEF Lists
  <1>19. CASE Reported
    BY <1>0, <1>7, <1>b, <1>19, ReportedIs
  <1>20. UNCHANGED vars \/ TakeList \/ (\E p \in Players : Move(p)) => UNCHANGED at
    BY <1>0, OutsideIs DEF vars
  <1> QED
    BY <1>1, <1>2, <1>4, <1>5, <1>6, <1>10, <1>11, <1>12, <1>13, <1>14, <1>15, <1>16, <1>17,
       <1>18, <1>19, <1>20, Steps

-----------------------------------------------------------------------------
(* The lines and the rows                                                  *)

LEMMA PresentNext ==
    ASSUME NEW s, NEW p, NEW k \in Nat, NEW l, l = k + 1
    PROVE  IF s[l].p = p THEN PresentIn(s, p, l) <=> s[l].kind = "joined"
           ELSE PresentIn(s, p, l) <=> PresentIn(s, p, k)
  <1>1. CASE s[l].p = p
    <2>1. ASSUME s[l].kind = "joined" PROVE PresentIn(s, p, l)
      <3>1. l \in 1..l /\ \A j \in l..l : j = l
        OBVIOUS
      <3> QED
        BY <1>1, <2>1, <3>1 DEF PresentIn
    <2>2. ASSUME PresentIn(s, p, l) PROVE s[l].kind = "joined"
      <3>1. \A i \in 1..l : l \in i..l
        OBVIOUS
      <3> QED
        BY <1>1, <2>2, <3>1 DEF PresentIn
    <2> QED
      BY <1>1, <2>1, <2>2
  <1>2. CASE s[l].p # p
    <2>1. ASSUME PresentIn(s, p, l) PROVE PresentIn(s, p, k)
      <3>1. PICK i \in 1..l : /\ s[i].p = p /\ s[i].kind = "joined"
                              /\ \A j \in i..l : s[j].p = p => s[j].kind = "joined"
        BY <2>1 DEF PresentIn
      <3>2. i \in 1..k /\ \A j \in i..k : j \in i..l
        BY <1>2, <3>1
      <3> QED
        BY <3>1, <3>2 DEF PresentIn
    <2>2. ASSUME PresentIn(s, p, k) PROVE PresentIn(s, p, l)
      <3>1. PICK i \in 1..k : /\ s[i].p = p /\ s[i].kind = "joined"
                              /\ \A j \in i..k : s[j].p = p => s[j].kind = "joined"
        BY <2>2 DEF PresentIn
      <3>2. i \in 1..l /\ \A j \in i..l : j \in i..k \/ j = l
        OBVIOUS
      <3> QED
        BY <1>2, <3>1, <3>2 DEF PresentIn
    <2> QED
      BY <1>2, <2>1, <2>2
  <1> QED
    BY <1>1, <1>2

LEMMA PresentSame ==
    ASSUME NEW s, NEW t, NEW p, NEW k \in Nat, \A i \in 1..k : s[i] = t[i]
    PROVE  PresentIn(s, p, k) <=> PresentIn(t, p, k)
  <1>1. \A i \in 1..k : \A j \in i..k : j \in 1..k
    OBVIOUS
  <1> QED
    BY <1>1 DEF PresentIn

LEMMA LogStep ==
    ASSUME Base, [Next]_vars
    PROVE  LogInv'
  <1>0. TypeOK /\ LogInv /\ Len(log) \in Nat /\ batch \in Nat /\ batch <= Len(log)
    BY DEF Base, TypeOK
  <1> USE DEF Present
  <1>1. ASSUME NEW p \in Players, Move(p) PROVE LogInv'
    <2> DEFINE n == Len(log)
               a == n + 1
               b == n + 2
    <2>1. /\ Len(log') = b /\ \A i \in 1..n : log'[i] = log[i]
          /\ log'[a] = Lines(p)[1] /\ log'[b] = Lines(p)[2]
      BY <1>0, <1>1, LogGrows
    <2>2. batch' = batch /\ inGame' = (IF p \in inGame THEN inGame \ {p} ELSE inGame \cup {p})
      BY <1>0, <1>1, OutsideIs DEF Move, agent
    <2>3. a \in Nat /\ b \in Nat /\ b = a + 1 /\ n \in Nat /\ a - 1 = n /\ b - 1 = a
      BY <1>0
    <2>4. \A q \in Players : PresentIn(log', q, n) <=> q \in inGame
      BY <1>0, <2>1, PresentSame DEF LogInv
    <2>5. /\ log'[a].p = p /\ log'[b].p = p
          /\ IF p \in inGame
             THEN /\ log'[a] = [p |-> p, by |-> "id", kind |-> "left"]
                  /\ log'[b] = [p |-> p, by |-> "name", kind |-> "left"]
             ELSE /\ log'[a] = [p |-> p, by |-> "name", kind |-> "joined"]
                  /\ log'[b] = [p |-> p, by |-> "id", kind |-> "joined"]
      BY <2>1, LinesAre
    <2>6. \A q \in Players :
            /\ PresentIn(log', q, a) <=> IF q = p THEN log'[a].kind = "joined"
                                         ELSE PresentIn(log', q, n)
            /\ PresentIn(log', q, b) <=> IF q = p THEN log'[b].kind = "joined"
                                         ELSE PresentIn(log', q, a)
      <3>1. ASSUME NEW q \in Players
            PROVE  IF log'[a].p = q THEN PresentIn(log', q, a) <=> log'[a].kind = "joined"
                   ELSE PresentIn(log', q, a) <=> PresentIn(log', q, n)
        BY <2>3, PresentNext
      <3>2. ASSUME NEW q \in Players
            PROVE  IF log'[b].p = q THEN PresentIn(log', q, b) <=> log'[b].kind = "joined"
                   ELSE PresentIn(log', q, b) <=> PresentIn(log', q, a)
        BY <2>3, PresentNext
      <3> QED
        BY <2>5, <3>1, <3>2
    <2>7. \A q \in Players : q \in inGame' <=> PresentIn(log', q, Len(log'))
      BY <2>1, <2>2, <2>4, <2>5, <2>6
    <2>8. \A k \in 1..Len(log') : k \in 1..n \/ k = a \/ k = b
      BY <2>1, <2>3
    <2>9. ASSUME NEW k \in 1..n
          PROVE  /\ IF log'[k].by = "name" THEN ~PresentIn(log', log'[k].p, k - 1)
                    ELSE log'[k].kind = "joined" => PresentIn(log', log'[k].p, k - 1)
                 /\ log'[k].by = "name" /\ log'[k].kind = "joined" =>
                      /\ k < Len(log') /\ k # batch'
                      /\ log'[k + 1] = [p |-> log'[k].p, by |-> "id", kind |-> "joined"]
                 /\ log'[k].by = "id" /\ log'[k].kind = "joined" =>
                      /\ k > 1
                      /\ log'[k - 1] = [p |-> log'[k].p, by |-> "name", kind |-> "joined"]
      <3>1. k - 1 \in Nat /\ \A i \in 1..(k - 1) : i \in 1..n
        BY <2>3
      <3>2. PresentIn(log', log[k].p, k - 1) <=> PresentIn(log, log[k].p, k - 1)
        BY <2>1, <3>1, PresentSame
      <3>3. (k < n => k + 1 \in 1..n) /\ (k > 1 => k - 1 \in 1..n)
        BY <2>3
      <3> QED
        BY <1>0, <2>1, <2>2, <2>3, <3>2, <3>3 DEF LogInv
    <2>10. /\ a < Len(log') /\ a # batch' /\ b # batch' /\ b > 1
           /\ a + 1 = b
      BY <1>0, <2>1, <2>2, <2>3
    <2>11. ASSUME NEW k \in {a, b}
           PROVE  /\ IF log'[k].by = "name" THEN ~PresentIn(log', log'[k].p, k - 1)
                     ELSE log'[k].kind = "joined" => PresentIn(log', log'[k].p, k - 1)
                  /\ log'[k].by = "name" /\ log'[k].kind = "joined" =>
                       /\ k < Len(log') /\ k # batch'
                       /\ log'[k + 1] = [p |-> log'[k].p, by |-> "id", kind |-> "joined"]
                  /\ log'[k].by = "id" /\ log'[k].kind = "joined" =>
                       /\ k > 1
                       /\ log'[k - 1] = [p |-> log'[k].p, by |-> "name", kind |-> "joined"]
      <3>1. CASE k = a
        BY <2>3, <2>4, <2>5, <2>10, <3>1
      <3>2. CASE k = b
        BY <2>3, <2>5, <2>6, <2>10, <3>2
      <3> QED
        BY <3>1, <3>2
    <2> HIDE DEF a, b
    <2> QED
      BY <2>7, <2>8, <2>9, <2>11 DEF LogInv
  <1>2. CASE Upload
    BY <1>0, <1>2, OutsideIs DEF LogInv, game
  <1>3. CASE UNCHANGED <<inGame, log, batch>>
    BY <1>0, <1>3 DEF LogInv
  <1>4. \/ UNCHANGED <<inGame, log, batch>> \/ Upload \/ \E p \in Players : Move(p)
    BY <1>0, Steps, OutsideIs DEF vars, game, agent, Rests
  <1> QED
    BY <1>1, <1>2, <1>3, <1>4

LEMMA LogTurnStep ==
    ASSUME Base, [Next]_vars
    PROVE  LogTurn'
  <1>0. TypeOK /\ LogTurn /\ Len(log) \in Nat /\ batch \in Nat /\ batch <= Len(log) /\ acked \in Nat
        /\ (acked <= batch \/ Is("log", "idle"))
    BY DEF Base, TypeOK, LogTurn
  <1>b. {"log", "list", "page"} \subseteq Handlers
    BY DEF Handlers
  <1> USE DEF Is, Working, Holding
  <1>1. CASE UNCHANGED <<acked, batch>> /\ at'["log"] = at["log"]
             /\ \A k \in 1..Len(log) : log'[k] = log[k]
    <2>1. \A k \in acked..batch : k > acked => k \in 1..Len(log)
      BY <1>0
    <2> QED
      BY <1>0, <1>1, <2>1 DEF LogTurn, Upto
  <1>2. CASE Upload
    <2>1. /\ acked' = acked /\ acked <= batch' /\ batch' \in Nat /\ at'["log"].stage = "next"
          /\ at'["log"].todo = (acked + 1)..batch'
      BY <1>0, <1>2, OutsideIs DEF game
    <2>2. Upto(acked)'
      BY <1>0, <2>1 DEF Upto
    <2> QED
      BY <1>0, <2>1, <2>2 DEF LogTurn, Upto
  <1>3. CASE Answer \/ Crash
    <2>1. at'["log"].stage = "idle"
      BY <1>0, <1>b, <1>3, OutsideIs
    <2> QED
      BY <2>1 DEF LogTurn
  <1> DEFINE Same == UNCHANGED <<log, acked, batch>>
  <1>4. ASSUME Same, Stops("log"), ~Is("log", "idle") PROVE LogTurn'
    <2>1. (batch + 1)..batch = {} /\ batch \in acked..batch
      BY <1>0, <1>4
    <2>2. Upto(batch)' /\ at'["log"].stage = "next"
      BY <1>4, <2>1 DEF Upto, Stops
    <2> QED
      BY <1>4, <2>1, <2>2 DEF LogTurn
  <1>5. ASSUME Same, Continues("log"), ~Is("log", "idle") PROVE LogTurn'
    <2>1. PICK k \in acked..batch : Upto(k)
      BY <1>0, <1>5 DEF LogTurn
    <2>2. Upto(k)' /\ at'["log"].stage = "next"
      BY <1>5, <2>1 DEF Upto, Continues
    <2> QED
      BY <1>5, <2>1, <2>2 DEF LogTurn
  <1>6. ASSUME Same, NEW st, Turns("log", st), Working("log") PROVE LogTurn'
    <2>1. PICK k \in acked..batch :
            /\ Upto(k) /\ k > acked
            /\ log[k] = [p |-> at["log"].p, by |-> at["log"].by, kind |-> at["log"].kind]
      BY <1>0, <1>6 DEF LogTurn
    <2>2. Upto(k)'
      BY <1>6, <2>1 DEF Upto, Turns
    <2> QED
      BY <1>6, <2>1, <2>2 DEF LogTurn, Turns
  <1>7. ASSUME Same, Fallback("log") PROVE LogTurn'
    <2>1. PICK x \in at["log"].todo : Falls("log", x)
      BY <1>7, <1>b, FallbackGoes
    <2>2. Is("log", "next")
      BY <1>7, <1>b, FallbackGoes
    <2>3. PICK k \in acked..batch :
            /\ Upto(k) /\ x = k + 1 /\ k < batch /\ Item("log", x) = log[k + 1]
            /\ at["log"].todo \ {x} = (k + 2)..batch
      BY <1>b, <2>1, <2>2, ItemIs DEF Falls
    <2>4. k + 1 \in acked..batch /\ k + 1 > acked /\ (k + 1) + 1 = k + 2
      BY <1>0, <2>3
    <2>5. Upto(k + 1)'
      BY <1>7, <2>1, <2>3, <2>4 DEF Upto, Falls
    <2>6. log[k + 1] = [p |-> at'["log"].p, by |-> at'["log"].by, kind |-> at'["log"].kind]
      BY <2>1, <2>3 DEF Falls, LineSet
    <2> QED
      BY <1>7, <2>4, <2>5, <2>6 DEF LogTurn
  <1>8. ASSUME NEW h \in Handlers, Rests,
               \/ Fallback(h) \/ Canonical(h) \/ Promote(h) \/ Merge(h)
               \/ Existing(h) \/ Enter(h) \/ Session(h)
               \/ h = "log" /\ Close
               \/ h = "list" /\ (FindMissing \/ CloseMissing \/ Reported)
        PROVE  LogTurn'
    <2>1. Same
      BY <1>8 DEF Rests, game, agent
    <2>2. CASE Fallback(h)
      BY <1>1, <1>7, <1>8, <1>b, <2>1, <2>2, FallbackGoes
    <2>3. ASSUME \/ Exited(h) /\ ~Is(h, "idle")
                 \/ Continues(h) /\ ~Is(h, "idle")
                 \/ (\E st : Turns(h, st)) /\ Working(h)
          PROVE  LogTurn'
      <3>1. CASE h = "log"
        BY <1>4, <1>5, <1>6, <2>1, <2>3, <3>1 DEF Exited
      <3>2. CASE h # "log"
        <4>1. at'["log"] = at["log"]
          BY <1>8, <1>b, <2>3, <3>2 DEF Exited, Stops, Continues, Turns
        <4> QED
          BY <1>1, <2>1, <4>1
      <3> QED
        BY <3>1, <3>2
    <2>4. CASE Canonical(h)
      BY <1>0, <1>8, <2>3, <2>4, CanonicalIs
    <2>5. CASE Promote(h)
      BY <1>0, <1>8, <2>3, <2>5, PromoteIs
    <2>6. CASE Merge(h)
      BY <1>0, <1>8, <2>3, <2>6, MergeIs
    <2>7. CASE Existing(h)
      BY <1>0, <1>8, <2>3, <2>7, ExistingIs
    <2>8. CASE Enter(h)
      <3>1. PICK row : EnterRow(h, row)
        BY <2>8, EnterIs
      <3> QED
        BY <1>0, <1>8, <2>3, <3>1, EnterGoes DEF EnterRow
    <2>9. CASE Session(h)
      BY <1>0, <1>8, <2>3, <2>9, SessionIs
    <2>10. CASE h = "log" /\ Close
      BY <1>0, <1>8, <2>3, <2>10, CloseIs
    <2>11. CASE h = "list" /\ (FindMissing \/ CloseMissing \/ Reported)
      <3>1. at'["log"] = at["log"]
        BY <1>0, <1>b, <2>11, FindMissingIs, CloseMissingIs, ReportedIs DEF Lists, Stops, Exited
      <3> QED
        BY <1>1, <2>1, <3>1
    <2> QED
      BY <1>8, <2>2, <2>4, <2>5, <2>6, <2>7, <2>8, <2>9, <2>10, <2>11
  <1>9. CASE UNCHANGED vars \/ TakeList \/ Report \/ OpenPage
    <2>1. Same /\ at'["log"] = at["log"]
      BY <1>0, <1>b, <1>9, OutsideIs DEF vars, game, agent
    <2> QED
      BY <1>1, <2>1
  <1>10. ASSUME NEW p \in Players, Move(p) PROVE LogTurn'
    <2>1. UNCHANGED <<acked, batch>> /\ at'["log"] = at["log"]
      BY <1>0, <1>10, OutsideIs DEF agent
    <2> QED
      BY <1>0, <1>1, <1>10, <2>1, LogGrows
  <1> QED
    BY <1>2, <1>3, <1>8, <1>9, <1>10, Steps

LEMMA ListedStep ==
    ASSUME Base, [Next]_vars
    PROVE  Listed'
  <1>0. TypeOK /\ Listed /\ "list" \in Handlers
    BY DEF Base, Handlers
  <1> USE DEF Is, Working, Holding
  <1>1. CASE at'["list"] = at["list"] /\ listing' = listing
    BY <1>0, <1>1 DEF Listed
  <1>2. CASE TakeList
    BY <1>0, <1>2, OutsideIs DEF TakeList, Listed
  <1>3. ASSUME UNCHANGED vars \/ Upload \/ Answer \/ OpenPage \/ \E p \in Players : Move(p)
        PROVE  at'["list"] = at["list"] /\ listing' = listing
    BY <1>0, <1>3, OutsideIs DEF vars, agent
  <1>4. CASE Report \/ Crash
    BY <1>0, <1>4, OutsideIs DEF Listed
  <1>5. ASSUME NEW h \in Handlers, Rests,
               \/ Fallback(h) \/ Canonical(h) \/ Promote(h) \/ Merge(h)
               \/ Existing(h) \/ Enter(h) \/ Session(h)
               \/ h = "log" /\ Close
               \/ h = "list" /\ (FindMissing \/ CloseMissing \/ Reported)
        PROVE  Listed'
    <2>1. listing' = listing
      BY <1>5 DEF Rests, agent
    <2>2. ~Is(h, "idle") \/ h = "log"
      BY <1>5, FallbackIs, EnterIs DEF Canonical, Promote, Merge, Existing, Enter, Session,
         FindMissing, CloseMissing, Reported
    <2>3. CASE h = "list"
      BY <1>0, <2>1, <2>2, <2>3 DEF Listed
    <2>4. CASE h # "list"
      <3>1. PICK new : Goes(h, new)
        <4>1. \A g : Throw(g) => \E new : Goes(g, new)
          BY DEF Throw
        <4> QED
          BY <1>5, <2>4, <4>1 DEF Fallback, Canonical, Promote, Merge, Existing, Enter, Session, Close
      <3> QED
        BY <1>0, <1>1, <2>1, <2>4, <3>1, GoesIs
    <2> QED
      BY <2>3, <2>4
  <1> QED
    BY <1>1, <1>2, <1>3, <1>4, <1>5, Steps

\* Which steps touch the rows.
LEMMA RowSteps ==
    ASSUME Base, [Next]_vars
    PROVE  \/ UNCHANGED players
           \/ \E h \in Handlers : Promote(h) \/ Merge(h)
           \/ \E h \in {"log", "list"} : Enter(h) \/ Session(h)
           \/ Close \/ CloseMissing
  <1>0. TypeOK
    BY DEF Base
  <1>1. \A h \in Handlers : h # "page" => h \in {"log", "list"}
    BY DEF Handlers
  <1>2. ASSUME NEW h \in Handlers, Fallback(h) \/ Canonical(h) \/ Existing(h)
        PROVE  UNCHANGED players
    BY <1>0, <1>2, FallbackGoes, CanonicalIs, ExistingIs DEF Pure
  <1>3. FindMissing \/ Reported => UNCHANGED players
    BY <1>0, FindMissingIs, ReportedIs DEF Pure
  <1> QED
    BY <1>0, <1>1, <1>2, <1>3, Steps, OutsideIs DEF vars, players

LEMMA RowsStep ==
    ASSUME Base, [Next]_vars
    PROVE  RowsInv'
  <1>0. TypeOK /\ Control /\ RowsInv /\ None \notin Rows
    BY PeopleAssumption DEF Base, PlayersAssumption
  <1>1. CASE UNCHANGED players
    BY <1>0, <1>1 DEF RowsInv, players, Stored
  <1>2. ASSUME NEW h \in Handlers, Promote(h) PROVE RowsInv'
    <2>1. CASE Exited(h)
      BY <1>1, <2>1 DEF Exited
    <2>2. CASE ~Exited(h)
      <3> DEFINE row == at[h].row
                 key == <<at[h].p, "id">>
      <3>1. /\ Stored(row) /\ rowOf[key] \in {None, row}
            /\ rowOf' = [k \in Keys |-> IF k = key THEN row
                                        ELSE IF rowOf[k] = row THEN None ELSE rowOf[k]]
            /\ UNCHANGED <<online, open>>
        BY <1>0, <1>2, <2>2, PromoteIs DEF ById
      <3>2. row \in Rows /\ key \in Keys
        BY <1>0, <1>2, PromoteIs DEF Control, ControlOf, Working, Holding, Is, Keys
      <3>3. \A r \in Rows : Stored(r) => Stored(r)'
        BY <1>0, <3>1, <3>2 DEF Stored
      <3>4. \A j, k \in Keys : rowOf'[j] = rowOf'[k] => j = k \/ rowOf'[j] = None
        BY <1>0, <3>1, <3>2 DEF RowsInv
      <3> QED
        BY <1>0, <3>1, <3>3, <3>4 DEF RowsInv
    <2> QED
      BY <2>1, <2>2
  <1>3. ASSUME NEW h \in Handlers, Merge(h) PROVE RowsInv'
    <2>1. CASE Exited(h)
      BY <1>1, <2>1 DEF Exited
    <2>2. CASE ~Exited(h)
      <3> DEFINE row == at[h].row
                 into == at[h].into
      <3>1. /\ Stored(row) /\ Stored(into)
            /\ rowOf' = [k \in Keys |-> IF rowOf[k] = row THEN None ELSE rowOf[k]]
            /\ online' = (IF at[h].on \/ at[h].intoOn THEN online \cup {into}
                          ELSE online \ {into}) \ {row}
            /\ open' = [open EXCEPT ![into] = @ + open[row], ![row] = 0]
        BY <1>0, <1>3, <2>2, MergeIs
      <3>2. row \in Rows /\ into \in Rows
        BY <1>0, <1>3, MergeIs DEF Control, ControlOf, Working, Holding, Is
      <3>3. \A r \in Rows : Stored(r) /\ r # row => Stored(r)'
        BY <1>0, <3>1, <3>2 DEF Stored
      <3>4. \A j, k \in Keys : rowOf'[j] = rowOf'[k] => j = k \/ rowOf'[j] = None
        BY <1>0, <3>1, <3>2 DEF RowsInv
      <3>5. \A r \in Rows : r \in online' \/ open'[r] > 0 => Stored(r) /\ r # row
        <4>1. open'[row] = 0 /\ \A r \in Rows : r \notin {row, into} => open'[r] = open[r]
          BY <1>0, <3>1, <3>2 DEF TypeOK
        <4>2. \A r \in Rows : r \in online' => r # row /\ (r \in online \/ r = into)
          BY <3>1
        <4>3. \A r \in Rows : r \in online \/ open[r] > 0 => Stored(r)
          BY <1>0 DEF RowsInv
        <4> QED
          <5>1. ASSUME NEW r \in Rows, r \in online' PROVE Stored(r) /\ r # row
            BY <3>1, <4>2, <4>3, <5>1
          <5>2. ASSUME NEW r \in Rows, open'[r] > 0 PROVE Stored(r) /\ r # row
            <6>1. r # row
              BY <4>1, <5>2
            <6>2. r # into => open'[r] = open[r]
              BY <4>1, <6>1
            <6> QED
              BY <3>1, <4>3, <5>2, <6>1, <6>2
          <5> QED
            BY <5>1, <5>2
      <3> QED
        BY <3>3, <3>4, <3>5 DEF RowsInv
    <2> QED
      BY <2>1, <2>2
  <1>4. ASSUME NEW h \in {"log", "list"}, Enter(h) PROVE RowsInv'
    <2>0. h \in Handlers
      BY DEF Handlers
    <2>1. PICK row : EnterRow(h, row)
      BY <1>4, <2>0, EnterIs
    <2>2. Key(h) \in Keys
      BY <1>0, <2>0, <2>1 DEF EnterRow, Control, ControlOf, Working, Is, Key, Keys, TypeOK, WorkSet
    <2>3. row \in Rows /\ (rowOf[Key(h)] # row => rowOf[Key(h)] = None /\ ~Stored(row))
      BY <1>0, <2>1, <2>2 DEF EnterRow, Unused, TypeOK
    <2>4. rowOf' = [rowOf EXCEPT ![Key(h)] = row] /\ online' = online \cup {row} /\ open' = open
      BY <2>1 DEF EnterRow
    <2>5. \A r \in Rows : Stored(r) \/ r = row => Stored(r)'
      BY <1>0, <2>2, <2>3, <2>4 DEF Stored, TypeOK
    <2>6. \A j, k \in Keys : rowOf'[j] = rowOf'[k] => j = k \/ rowOf'[j] = None
      BY <1>0, <2>2, <2>3, <2>4 DEF RowsInv, Stored, TypeOK
    <2> QED
      BY <1>0, <2>4, <2>5, <2>6 DEF RowsInv
  <1>5. ASSUME NEW h \in {"log", "list"}, Session(h) PROVE RowsInv'
    <2>0. h \in Handlers
      BY DEF Handlers
    <2>1. CASE Exited(h)
      BY <1>1, <2>1 DEF Exited
    <2>2. CASE ~Exited(h)
      <3>1. /\ Stored(at[h].row) /\ open' = [open EXCEPT ![at[h].row] = @ + 1]
            /\ UNCHANGED <<rowOf, online>>
        BY <1>0, <1>5, <2>0, <2>2, SessionIs
      <3>2. \A r \in Rows : r # at[h].row => open'[r] = open[r]
        BY <1>0, <3>1 DEF TypeOK
      <3>3. \A r \in Rows : Stored(r)' = Stored(r)
        BY <3>1 DEF Stored
      <3> QED
        BY <1>0, <3>1, <3>2, <3>3 DEF RowsInv
    <2> QED
      BY <2>1, <2>2
  <1>6. ASSUME NEW row, Closes(row) PROVE RowsInv'
    <2>1. rowOf' = rowOf /\ online' = online \ {row} /\ open' = [open EXCEPT ![row] = 0]
      BY <1>6 DEF Closes
    <2>2. \A r \in Rows : open'[r] > 0 => open[r] > 0
      BY <1>0, <2>1 DEF TypeOK
    <2>3. \A r \in Rows : Stored(r)' = Stored(r)
      BY <2>1 DEF Stored
    <2> QED
      BY <1>0, <2>1, <2>2, <2>3 DEF RowsInv
  <1>7. CASE Close \/ CloseMissing
    BY <1>0, <1>1, <1>6, <1>7, CloseIs, CloseMissingIs DEF Exited
  <1> QED
    BY <1>1, <1>2, <1>3, <1>4, <1>5, <1>7, RowSteps

LEMMA BaseStep ==
    ASSUME Base, [Next]_vars
    PROVE  Base'
  BY TypeStep, ControlStep, ListedStep, LogTurnStep, LogStep, RowsStep DEF Base

LEMMA BaseInit ==
    ASSUME Init
    PROVE  Base
  <1>0. None \notin Rows
    BY PeopleAssumption DEF PlayersAssumption
  <1>1. PICK played \in [Players -> Rows \cup {None}] :
          /\ \A p, q \in Players : played[p] = played[q] => p = q \/ played[p] = None
          /\ rowOf = [k \in Keys |-> IF k[2] = "id" THEN played[k[1]] ELSE None]
    BY DEF Init
  <1>2. Idle \in WorkSet /\ Idle.stage = "idle" /\ Idle.by = "id" /\ Idle.kind = "joined"
        /\ Idle.todo = {}
    BY DEF Idle, Work, WorkSet, Stages
  <1>3. \A h \in Handlers : at[h] = Idle
    BY DEF Init
  <1>4. rowOf \in [Keys -> Rows \cup {None}]
    BY <1>1 DEF Keys
  <1>5. TypeOK
    BY <1>2, <1>4 DEF Init, TypeOK
  <1>6. Control /\ LogTurn /\ Listed
    BY <1>2, <1>3 DEF Listed, Control, ControlOf, LogTurn, Working, Holding, Is, Handlers
  <1>7. LogInv
    BY DEF Init, LogInv, Present, PresentIn
  <1>8. RowsInv
    <2>1. ASSUME NEW j \in Keys, NEW k \in Keys, rowOf[j] = rowOf[k] PROVE j = k \/ rowOf[j] = None
      <3>1. PICK a \in Players, b \in {"id", "name"} : j = <<a, b>>
        BY DEF Keys
      <3>2. PICK c \in Players, d \in {"id", "name"} : k = <<c, d>>
        BY DEF Keys
      <3>3. rowOf[j] = (IF b = "id" THEN played[a] ELSE None)
        BY <1>1, <3>1
      <3>4. rowOf[k] = (IF d = "id" THEN played[c] ELSE None)
        BY <1>1, <3>2
      <3> QED
        BY <1>1, <2>1, <3>1, <3>2, <3>3, <3>4
    <2> QED
      BY <2>1 DEF Init, RowsInv
  <1> QED
    BY <1>5, <1>6, <1>7, <1>8 DEF Base

-----------------------------------------------------------------------------
(* Undisturbed steps                                                       *)

Same == UNCHANGED <<inGame, log, acked, batch, listing, happened>>
OthersStay(h) == \A g \in Handlers : g # h => at'[g] = at[g]

Quiet ==
    /\ Same /\ UNCHANGED players /\ at'["log"] = at["log"] /\ at'["list"] = at["list"]
    /\ \/ at'["page"] = at["page"]
       \/ Is("page", "idle") /\ at'["page"].stage = "next" /\ at'["page"].todo = Stable
Plays(p) == Move(p) /\ listing = None /\ Is("list", "idle") /\ UNCHANGED <<agent, players, at, happened>>
Picks(h) ==
    /\ Same /\ UNCHANGED players /\ OthersStay(h) /\ Is(h, "next")
    /\ \E x \in at[h].todo : Falls(h, x)
Looks(h) ==
    /\ Same /\ UNCHANGED players /\ Is(h, "canonical")
    /\ Turns(h, IF ById(at[h].p) = None THEN "promote" ELSE "merge")
    /\ at'[h].row = at[h].row /\ at'[h].on = at[h].on /\ at'[h].into = ById(at[h].p)
Promotes(h) ==
    /\ Same /\ UNCHANGED <<online, open>> /\ Is(h, "promote") /\ Stored(at[h].row)
    /\ rowOf' = [k \in Keys |-> IF k = <<at[h].p, "id">> THEN at[h].row
                                ELSE IF rowOf[k] = at[h].row THEN None ELSE rowOf[k]]
    /\ IF h = "page" THEN Continues(h) ELSE Turns(h, "existing")
Merges(h) ==
    /\ Same /\ Is(h, "merge") /\ Stored(at[h].row) /\ Stored(at[h].into)
    /\ rowOf' = [k \in Keys |-> IF rowOf[k] = at[h].row THEN None ELSE rowOf[k]]
    /\ online' = (IF at[h].on \/ at[h].intoOn THEN online \cup {at[h].into}
                  ELSE online \ {at[h].into}) \ {at[h].row}
    /\ open' = [open EXCEPT ![at[h].into] = @ + open[at[h].row], ![at[h].row] = 0]
    /\ IF h = "page" THEN Continues(h) ELSE Turns(h, "existing")
Finds(h) ==
    /\ Same /\ UNCHANGED players /\ Is(h, "existing")
    /\ IF at[h].kind = "joined"
       THEN Turns(h, "enter") /\ at'[h].on = (rowOf[Key(h)] \in online)
       ELSE IF rowOf[Key(h)] \in online
       THEN Turns(h, "close") /\ at'[h].row = rowOf[Key(h)]
       ELSE Continues(h)
Enters(h, row) ==
    /\ Same /\ EnterRow(h, row)
    /\ IF at[h].on THEN Continues(h) ELSE Turns(h, "session") /\ at'[h].row = row
Starts(h) ==
    /\ Same /\ UNCHANGED <<rowOf, online>> /\ Is(h, "session") /\ Stored(at[h].row)
    /\ open' = [open EXCEPT ![at[h].row] = @ + 1] /\ Continues(h)
Leaves ==
    /\ Same /\ Is("log", "close") /\ Closes(at["log"].row) /\ Continues("log")
Drops ==
    /\ Same /\ Is("list", "missing") /\ OthersStay("list") /\ at'["list"].stage = "missing"
    /\ \E row \in at["list"].todo : Closes(row)
Winds ==
    /\ Same /\ UNCHANGED players /\ OthersStay("list")
    /\ \/ Is("list", "next") /\ at'["list"].stage = "missing"
       \/ Is("list", "missing") /\ at'["list"].stage = "idle"

LEMMA SmoothSteps ==
    ASSUME Base, "disturbed" \notin happened', [Next]_vars
    PROVE  \/ Quiet \/ TakeList \/ Upload \/ Answer \/ Report
           \/ \E p \in Players : Plays(p)
           \/ \E h \in Handlers : Picks(h) \/ Looks(h) \/ Promotes(h) \/ Merges(h)
           \/ \E h \in {"log", "list"} : Finds(h) \/ Starts(h) \/ \E row : Enters(h, row)
           \/ Leaves \/ Drops \/ Winds
  <1>0. TypeOK /\ {"log", "list", "page"} \subseteq Handlers
    BY DEF Base, Handlers
  <1>1. UNCHANGED vars => Quiet
    BY DEF vars, Quiet, Same, players
  <1>2. ASSUME NEW p \in Players, Move(p) PROVE Plays(p)
    BY <1>0, <1>2, OutsideIs DEF Move, Plays, Happens
  <1>3. OpenPage => Quiet
    BY <1>0, OutsideIs DEF Quiet, Same, game, agent
  <1>4. ~Crash
    BY <1>0, OutsideIs
  <1>5. ASSUME NEW h \in Handlers, Rests PROVE UNCHANGED <<inGame, log, acked, batch, listing>>
    BY <1>5 DEF Rests, game, agent
  <1>6. ASSUME NEW h \in Handlers, Rests,
               Fallback(h) \/ Canonical(h) \/ Promote(h) \/ Merge(h)
        PROVE  Picks(h) \/ Looks(h) \/ Promotes(h) \/ Merges(h)
    <2>1. Fallback(h) => Picks(h)
      BY <1>5, <1>6, FallbackGoes DEF Picks, Pure, Same, OthersStay
    <2>2. Canonical(h) => Looks(h)
      BY <1>0, <1>5, <1>6, CanonicalIs DEF Looks, Pure, Same
    <2>3. Promote(h) => Promotes(h)
      BY <1>0, <1>5, <1>6, PromoteIs DEF Promotes, Same, Exited
    <2>4. Merge(h) => Merges(h)
      BY <1>0, <1>5, <1>6, MergeIs DEF Merges, Same, Exited
    <2> QED
      BY <1>6, <2>1, <2>2, <2>3, <2>4
  <1>7. ASSUME NEW h \in Handlers, h # "page", Rests, Existing(h) \/ Enter(h) \/ Session(h)
        PROVE  h \in {"log", "list"} /\ (Finds(h) \/ Starts(h) \/ \E row : Enters(h, row))
    <2>1. Existing(h) => Finds(h)
      BY <1>0, <1>5, <1>7, ExistingIs DEF Finds, Pure, Same
    <2>2. Session(h) => Starts(h)
      BY <1>0, <1>5, <1>7, SessionIs DEF Starts, Same, Exited
    <2>3. ASSUME NEW row, EnterRow(h, row) PROVE Enters(h, row)
      <3>1. Same
        BY <1>5, <1>7, <2>3 DEF EnterRow, Same
      <3> QED
        BY <1>0, <2>3, <3>1, EnterGoes DEF Enters
    <2>4. Enter(h) => \E row : Enters(h, row)
      BY <2>3, EnterIs
    <2> QED
      BY <1>7, <2>1, <2>2, <2>4 DEF Handlers
  <1>8. Rests /\ Close => Leaves
    BY <1>0, <1>5, CloseIs DEF Leaves, Same, Exited
  <1>9. Rests /\ CloseMissing => Drops
    BY <1>0, <1>5, CloseMissingIs DEF Drops, Same, Exited, Lists, OthersStay
  <1>10. Rests /\ (FindMissing \/ Reported) => Winds
    BY <1>0, <1>5, FindMissingIs, ReportedIs DEF Winds, Same, Pure, Lists, Stops, OthersStay
  <1> QED
    BY <1>1, <1>2, <1>3, <1>4, <1>6, <1>7, <1>8, <1>9, <1>10, Steps

\* What is doomed stays so, until its query throws.
LEMMA StaysSmooth ==
    ASSUME Base, Smooth', [Next]_vars
    PROVE  Smooth
  <1>0. TypeOK /\ Control /\ {"log", "list", "page"} \subseteq Handlers
    BY DEF Base, Handlers
  <1>1. "disturbed" \notin happened'
    BY DEF Smooth
  <1> USE DEF Doomed, Holding, Is
  <1>2. "disturbed" \notin happened
    <2>1. Quiet \/ (\E p \in Players : Plays(p)) => happened' = happened
      BY DEF Quiet, Same, Plays
    <2>2. TakeList \/ Upload \/ Answer \/ Report => happened \subseteq happened' \/ "disturbed" \in happened'
      BY <1>0, OutsideIs
    <2>3. ASSUME NEW h \in Handlers, Picks(h) \/ Looks(h) \/ Promotes(h) \/ Merges(h)
          PROVE  happened' = happened
      BY <2>3 DEF Picks, Looks, Promotes, Merges, Same
    <2>4. ASSUME NEW h \in {"log", "list"}, Finds(h) \/ Starts(h) \/ \E row : Enters(h, row)
          PROVE  happened' = happened
      BY <2>4 DEF Finds, Starts, Enters, Same
    <2>5. Leaves \/ Drops \/ Winds => happened' = happened
      BY DEF Leaves, Drops, Winds, Same
    <2> QED
      BY <1>1, <2>1, <2>2, <2>3, <2>4, <2>5, SmoothSteps
  <1>3. ASSUME NEW d \in Handlers, Doomed(d) PROVE FALSE
    <2>1. PICK row \in Rows : row = at[d].row /\ \A k \in Keys : rowOf[k] # row
      BY <1>0, <1>3 DEF Control, ControlOf, Stored
    <2>2. \A k \in Keys : rowOf'[k] # row
      <3>1. CASE rowOf' = rowOf
        BY <2>1, <3>1
      <3>2. ASSUME NEW h \in Handlers, Promotes(h) \/ Merges(h) PROVE \A k \in Keys : rowOf'[k] # row
        <4>0. None \notin Rows
          BY PeopleAssumption DEF PlayersAssumption
        <4>1. at[h].row # row
          BY <2>1, <3>2 DEF Promotes, Merges, Stored
        <4> QED
          BY <2>1, <3>2, <4>0, <4>1 DEF Promotes, Merges
      <3>3. ASSUME NEW h \in {"log", "list"}, NEW r, Enters(h, r) PROVE \A k \in Keys : rowOf'[k] # row
        <4>1. \/ r \in Unused
              \/ r = rowOf[Key(h)] /\ r # None
          BY <3>3 DEF Enters, EnterRow
        <4>2. rowOf' = [rowOf EXCEPT ![Key(h)] = r]
          BY <3>3 DEF Enters, EnterRow
        <4>3. Key(h) \in Keys
          BY <1>0, <3>3 DEF Enters, EnterRow, Control, ControlOf, Working, Key, Keys, TypeOK, WorkSet
        <4>4. r # row
          BY <1>3, <2>1, <4>1, <4>3 DEF Unused
        <4> QED
          BY <1>0, <2>1, <4>2, <4>4 DEF TypeOK
      <3>4. TakeList \/ Upload \/ Answer \/ Report => rowOf' = rowOf
        BY <1>0, OutsideIs DEF players
      <3>5. Quiet \/ (\E p \in Players : Plays(p)) \/ Leaves \/ Drops \/ Winds => rowOf' = rowOf
        BY DEF Quiet, Plays, Leaves, Drops, Winds, players, Closes
      <3>6. ASSUME NEW h \in Handlers, Picks(h) \/ Looks(h) PROVE rowOf' = rowOf
        BY <3>6 DEF Picks, Looks, players
      <3>7. ASSUME NEW h \in {"log", "list"}, Finds(h) \/ Starts(h) PROVE rowOf' = rowOf
        BY <3>7 DEF Finds, Starts, players
      <3> QED
        BY <1>1, <3>1, <3>2, <3>3, <3>4, <3>5, <3>6, <3>7, SmoothSteps
    <2>3. at'[d].stage \in {"canonical", "promote", "merge", "session"} /\ at'[d].row = row
      <3>1. CASE at'[d] = at[d]
        BY <1>3, <2>1, <3>1
      <3>2. ASSUME NEW h \in Handlers, Looks(h) \/ Promotes(h) \/ Merges(h)
            PROVE  \/ at'[d] = at[d]
                   \/ at'[d].stage \in {"canonical", "promote", "merge", "session"} /\ at'[d].row = row
        BY <1>3, <2>1, <3>2 DEF Looks, Promotes, Merges, Turns, Continues, Stored, OthersStay
      <3>3. ASSUME NEW h \in Handlers, Picks(h) PROVE at'[d] = at[d]
        BY <1>3, <3>3 DEF Picks, OthersStay
      <3>4. ASSUME NEW h \in {"log", "list"}, Finds(h) \/ Starts(h) \/ \E r : Enters(h, r)
            PROVE  at'[d] = at[d]
        BY <1>3, <2>1, <3>4 DEF Finds, Starts, Enters, EnterRow, Turns, Continues
      <3>5. Leaves \/ Drops \/ Winds => at'[d] = at[d]
        BY <1>3 DEF Leaves, Drops, Winds, Continues, OthersStay
      <3>6. TakeList \/ Upload \/ Answer \/ Report => at'[d] = at[d]
        BY <1>0, <1>3, OutsideIs DEF Base, Listed
      <3>7. Quiet \/ (\E p \in Players : Plays(p)) => at'[d] = at[d]
        BY <1>3 DEF Quiet, Plays, Handlers
      <3> QED
        BY <1>1, <3>1, <3>2, <3>3, <3>4, <3>5, <3>6, <3>7, SmoothSteps
    <2> QED
      BY <2>2, <2>3 DEF Smooth, Stored
  <1> QED
    BY <1>2, <1>3 DEF Smooth

-----------------------------------------------------------------------------
(* What an undisturbed state says of its handlers                          *)

LEMMA UptoIs ==
    ASSUME TypeOK, NEW j \in acked..batch, NEW k \in acked..batch, Upto(j), Upto(k)
    PROVE  j = k
  <1>1. acked \in Nat /\ batch \in Nat
    BY DEF TypeOK
  <1>2. (j + 1)..batch = (k + 1)..batch
    BY DEF Upto
  <1>3. j < k => j + 1 \in (j + 1)..batch /\ j + 1 \notin (k + 1)..batch
    BY <1>1
  <1>4. k < j => k + 1 \in (k + 1)..batch /\ k + 1 \notin (j + 1)..batch
    BY <1>1
  <1> QED
    BY <1>1, <1>2, <1>3, <1>4

\* The line the log's handler has in hand.
LEMMA LineInHand ==
    ASSUME Base, Working("log")
    PROVE  \E k \in acked..batch :
             /\ Upto(k) /\ k > acked /\ k \in 1..Len(log) /\ k \in (acked + 1)..Len(log)
             /\ log[k] = [p |-> at["log"].p, by |-> at["log"].by, kind |-> at["log"].kind]
  <1>1. PICK k \in acked..batch :
          /\ Upto(k) /\ k > acked
          /\ log[k] = [p |-> at["log"].p, by |-> at["log"].by, kind |-> at["log"].kind]
    BY DEF Base, LogTurn, Working, Holding, Is
  <1>2. k \in 1..Len(log) /\ k \in (acked + 1)..Len(log)
    BY <1>1 DEF Base, TypeOK
  <1> QED
    BY <1>1, <1>2

\* A row known by name is there for the line that follows in the same upload.
LEMMA NamesFree ==
    ASSUME Undisturbed,
           \/ ~Is("list", "idle")
           \/ at["log"].stage \in {"idle", "existing", "enter", "close"}
           \/ Is("log", "next") /\ at["log"].todo = {},
           NEW p \in Players
    PROVE  ByName(p) = None
  <1> SUFFICES ASSUME ByName(p) # None PROVE FALSE
    OBVIOUS
  <1>1. PICK k \in acked..batch :
             /\ Upto(k)
             /\ \/ /\ at["log"].stage \in {"next", "session"}
                   /\ k < batch /\ log[k + 1] = [p |-> p, by |-> "id", kind |-> "joined"]
                \/ Holding("log")
    BY DEF Undisturbed, Parts, NameTurn
  <1>2. acked \in Nat /\ batch \in Nat /\ batch <= Len(log) /\ Len(log) \in Nat
    BY DEF Undisturbed, Base, TypeOK
  <1>3. at["log"].stage # "idle"
    BY DEF Undisturbed, Parts, NameTurn, Is
  <1>4. CASE Holding("log")
    <2>1. at["log"].kind = "joined"
      BY <1>4 DEF Undisturbed, Parts, Hold
    <2>2. PICK j \in (acked + 1)..Len(log) : log[j].kind = at["log"].kind
      BY <1>4, LineInHand DEF Undisturbed, Working
    <2>3. Is("list", "idle")
      BY <2>1, <2>2 DEF Undisturbed, Parts, ListTurn
    <2> QED
      BY <1>4, <2>3 DEF Holding, Is
  <1>5. CASE /\ at["log"].stage \in {"next", "session"}
             /\ k < batch /\ log[k + 1] = [p |-> p, by |-> "id", kind |-> "joined"]
    <2>1. k + 1 \in (acked + 1)..Len(log) /\ k + 1 \in (k + 1)..batch
      BY <1>2, <1>5
    <2>2. Is("list", "idle")
      BY <1>5, <2>1 DEF Undisturbed, Parts, ListTurn
    <2>3. at["log"].todo # {}
      BY <1>1, <2>1 DEF Upto
    <2> QED
      BY <1>5, <2>2, <2>3 DEF Is
  <1> QED
    BY <1>1, <1>4, <1>5

\* While a list is handled no line is that says who entered.
LEMMA JoinFree ==
    ASSUME Undisturbed, Working("log"), at["log"].kind = "joined"
    PROVE  Is("list", "idle")
  <1>1. PICK k \in (acked + 1)..Len(log) : log[k].kind = at["log"].kind
    BY LineInHand DEF Undisturbed
  <1> QED
    BY <1>1 DEF Undisturbed, Parts, ListTurn

LEMMA Held ==
    ASSUME Undisturbed, NEW h \in Handlers, Holding(h)
    PROVE  /\ h \in {"log", "page"} /\ Is("list", "idle")
           /\ at[h].p \in Players /\ at[h].row \in Rows
           /\ at[h].by = "id" /\ at[h].kind = "joined"
           /\ at[h].row = ByName(at[h].p) /\ at[h].row \in online /\ at[h].on = TRUE
           /\ Is(h, "promote") => h = "log" /\ ById(at[h].p) = None
           /\ Is(h, "merge") => at[h].into = ById(at[h].p) /\ at[h].into \in Rows
  <1>1. Control /\ ListTurn /\ NameTurn /\ PageWork /\ Hold("log") /\ None \notin Rows
    BY PeopleAssumption DEF Undisturbed, Base, Parts, PlayersAssumption
  <1>2. h \in {"log", "page"} /\ Hold(h)
    <2>1. h # "list"
      BY <1>1 DEF ListTurn, Holding, Is
    <2> QED
      BY <1>1, <2>1 DEF PageWork, Handlers
  <1>3. at[h].p \in Players /\ at[h].row \in Rows /\ (Is(h, "merge") => at[h].into \in Rows)
    BY <1>1 DEF Control, ControlOf, Working
  <1>4. /\ at[h].by = "id" /\ at[h].kind = "joined"
        /\ at[h].row = ByName(at[h].p) /\ at[h].on = TRUE
        /\ Is(h, "promote") => ById(at[h].p) = None
        /\ Is(h, "merge") => at[h].into = ById(at[h].p)
    BY <1>2 DEF Hold
  <1>5. ByName(at[h].p) # None
    BY <1>1, <1>3, <1>4
  <1>6. at[h].row \in online /\ Is("list", "idle")
    BY <1>1, <1>3, <1>4, <1>5, NamesFree DEF NameTurn
  <1>7. Is(h, "promote") => h = "log"
    BY <1>1, <1>2, <1>4 DEF PageWork, Stable, ById
  <1> QED
    BY <1>2, <1>3, <1>4, <1>6, <1>7

\* Whose name a row has, and what the log's handler does meanwhile.
LEMMA Named ==
    ASSUME Undisturbed, NEW p \in Players, ByName(p) # None
    PROVE  /\ ByName(p) \in online /\ Is("list", "idle")
           /\ \/ /\ Is("log", "next")
                 /\ \E k \in acked..batch :
                      Upto(k) /\ k < batch /\ log[k + 1] = [p |-> p, by |-> "id", kind |-> "joined"]
              \/ /\ Is("log", "session") /\ at["log"].p = p /\ at["log"].by = "name"
                 /\ at["log"].row = ByName(p)
              \/ Holding("log") /\ at["log"].p = p /\ at["log"].row = ByName(p)
  <1>1. PICK k \in acked..batch :
             /\ Upto(k)
             /\ \/ /\ at["log"].stage \in {"next", "session"}
                   /\ k < batch /\ log[k + 1] = [p |-> p, by |-> "id", kind |-> "joined"]
                \/ Holding("log") /\ at["log"].p = p
    BY DEF Undisturbed, Parts, NameTurn
  <1>2. ByName(p) \in online /\ Is("list", "idle")
    BY NamesFree DEF Undisturbed, Parts, NameTurn
  <1>3. CASE /\ Is("log", "session") /\ k < batch
             /\ log[k + 1] = [p |-> p, by |-> "id", kind |-> "joined"]
    <2>1. PICK j \in acked..batch :
            /\ Upto(j) /\ j \in 1..Len(log)
            /\ log[j] = [p |-> at["log"].p, by |-> at["log"].by, kind |-> at["log"].kind]
      BY <1>3, LineInHand DEF Undisturbed, Working, Is
    <2>2. j = k
      BY <1>1, <2>1, UptoIs DEF Undisturbed, Base
    <2>3. k + 1 \in 1..Len(log) /\ k + 1 - 1 = k
      BY <1>3, <2>1, <2>2 DEF Undisturbed, Base, TypeOK
    <2>4. log[k] = [p |-> p, by |-> "name", kind |-> "joined"]
      BY <1>3, <2>3 DEF Undisturbed, Base, LogInv
    <2>5. at["log"].p = p /\ at["log"].by = "name"
      BY <2>1, <2>2, <2>4
    <2>6. at["log"].row = ByName(p)
      BY <1>3, <2>5 DEF Undisturbed, Parts, Entering, Key, ByName
    <2> QED
      BY <1>2, <1>3, <2>5, <2>6
  <1>4. CASE Holding("log") /\ at["log"].p = p
    BY <1>2, <1>4 DEF Undisturbed, Parts, Hold
  <1> QED
    BY <1>1, <1>2, <1>3, <1>4 DEF Is

\* A player in the game is so after every line not yet acknowledged, while a list
\* is handled.
LEMMA ListedPresent ==
    ASSUME Undisturbed, ~Is("list", "idle"), NEW p \in inGame, NEW k \in acked..Len(log)
    PROVE  Present(p, k)
  <1>0. acked \in Nat /\ Len(log) \in Nat /\ p \in Players
    BY DEF Undisturbed, Base, TypeOK
  <1>1. \A i \in (acked + 1)..Len(log) : log[i].kind = "left"
    BY DEF Undisturbed, Parts, ListTurn
  <1>2. PICK i \in 1..Len(log) : /\ log[i].p = p /\ log[i].kind = "joined"
            /\ \A j \in i..Len(log) : log[j].p = p => log[j].kind = "joined"
    BY <1>0 DEF Undisturbed, Base, LogInv, Present, PresentIn
  <1>3. ~(i > acked)
    BY <1>0, <1>1, <1>2
  <1>4. i \in 1..k /\ i..k \subseteq i..Len(log)
    BY <1>0, <1>3
  <1> QED
    BY <1>2, <1>4 DEF Present, PresentIn

\* The line in hand while a list is handled is about someone who left.
LEMMA LineOfAnother ==
    ASSUME Undisturbed, ~Is("list", "idle"), NEW p \in inGame, Working("log")
    PROVE  at["log"].p # p
  <1>1. PICK k \in acked..Len(log) :
          /\ k \in 1..Len(log) /\ k \in (acked + 1)..Len(log)
          /\ log[k] = [p |-> at["log"].p, by |-> at["log"].by, kind |-> at["log"].kind]
    <2>1. acked..batch \subseteq acked..Len(log)
      BY DEF Undisturbed, Base, TypeOK
    <2> QED
      BY <2>1, LineInHand DEF Undisturbed
  <1>2. log[k].kind = "left"
    BY <1>1 DEF Undisturbed, Parts, ListTurn
  <1>3. Present(p, k) /\ p \in Players
    BY ListedPresent DEF Undisturbed, Base, TypeOK
  <1>4. PICK i \in 1..k : \A j \in i..k : log[j].p = p => log[j].kind = "joined"
    BY <1>3 DEF Present, PresentIn
  <1>5. k \in i..k
    BY <1>1, <1>4
  <1> QED
    BY <1>1, <1>2, <1>4, <1>5

\* The steps that change rows, undisturbed.
LEMMA Promoted ==
    ASSUME Undisturbed, Base', NEW h \in Handlers, Promotes(h)
    PROVE  /\ h = "log" /\ Turns(h, "existing") /\ UNCHANGED <<online, open>>
           /\ at[h].p \in Players /\ at[h].row \in Rows
           /\ at[h].row = ByName(at[h].p) /\ at[h].row \in online /\ ById(at[h].p) = None
           /\ \A p \in Players :
                /\ ByName(p)' = (IF p = at[h].p THEN None ELSE ByName(p))
                /\ ById(p)' = (IF p = at[h].p THEN at[h].row ELSE ById(p))
  <1>0. TypeOK /\ RowsInv /\ None \notin Rows
    BY PeopleAssumption DEF Undisturbed, Base, PlayersAssumption
  <1>1. Holding(h) /\ Is(h, "promote")
    BY DEF Promotes, Holding, Is
  <1>2. /\ h = "log" /\ at[h].p \in Players /\ at[h].row \in Rows
        /\ at[h].row = ByName(at[h].p) /\ at[h].row \in online /\ ById(at[h].p) = None
    BY <1>1, Held
  <1>3. Turns(h, "existing") /\ UNCHANGED <<online, open>>
    BY <1>2 DEF Promotes
  <1>4. ASSUME NEW p \in Players
        PROVE  /\ ByName(p)' = (IF p = at[h].p THEN None ELSE ByName(p))
               /\ ById(p)' = (IF p = at[h].p THEN at[h].row ELSE ById(p))
    <2>1. <<p, "name">> \in Keys /\ <<p, "id">> \in Keys /\ <<at[h].p, "name">> \in Keys
      BY <1>2 DEF Keys
    <2>2. /\ rowOf'[<<p, "name">>] = (IF rowOf[<<p, "name">>] = at[h].row THEN None
                                      ELSE rowOf[<<p, "name">>])
          /\ rowOf'[<<p, "id">>] = (IF p = at[h].p THEN at[h].row
                                    ELSE IF rowOf[<<p, "id">>] = at[h].row THEN None
                                    ELSE rowOf[<<p, "id">>])
      BY <2>1 DEF Promotes
    <2>3. rowOf[<<p, "name">>] = at[h].row <=> p = at[h].p
      BY <1>0, <1>2, <2>1 DEF RowsInv, ByName
    <2>4. rowOf[<<p, "id">>] # at[h].row
      BY <1>0, <1>2, <2>1 DEF RowsInv, ByName
    <2> QED
      BY <2>2, <2>3, <2>4 DEF ByName, ById
  <1> QED
    BY <1>2, <1>3, <1>4

LEMMA Merged ==
    ASSUME Undisturbed, NEW h \in Handlers, Merges(h)
    PROVE  /\ h \in {"log", "page"} /\ Is("list", "idle") /\ OthersStay(h)
           /\ at[h].p \in Players /\ at[h].row \in Rows /\ at[h].into \in Rows
           /\ at[h].row = ByName(at[h].p) /\ at[h].into = ById(at[h].p)
           /\ at[h].row # at[h].into /\ at[h].row \in online
           /\ \A p \in Players :
                /\ ByName(p)' = (IF p = at[h].p THEN None ELSE ByName(p))
                /\ ById(p)' = ById(p)
           /\ online' = (online \cup {at[h].into}) \ {at[h].row}
           /\ open'[at[h].row] = 0
           /\ open'[at[h].into] = open[at[h].into] + open[at[h].row]
           /\ \A r \in Rows : r \notin {at[h].row, at[h].into} => open'[r] = open[r]
           /\ \A k \in Keys : rowOf'[k] # at[h].row
  <1>0. TypeOK /\ RowsInv /\ None \notin Rows
    BY PeopleAssumption DEF Undisturbed, Base, PlayersAssumption
  <1>1. Holding(h) /\ Is(h, "merge")
    BY DEF Merges, Holding, Is
  <1>2. /\ h \in {"log", "page"} /\ Is("list", "idle")
        /\ at[h].p \in Players /\ at[h].row \in Rows /\ at[h].into \in Rows
        /\ at[h].row = ByName(at[h].p) /\ at[h].into = ById(at[h].p)
        /\ at[h].row \in online /\ at[h].on = TRUE
    BY <1>1, Held
  <1>3. <<at[h].p, "name">> \in Keys /\ <<at[h].p, "id">> \in Keys
    BY <1>2 DEF Keys
  <1>4. at[h].row # at[h].into
    BY <1>0, <1>2, <1>3 DEF RowsInv, ByName, ById
  <1>5. ASSUME NEW p \in Players
        PROVE  /\ ByName(p)' = (IF p = at[h].p THEN None ELSE ByName(p))
               /\ ById(p)' = ById(p)
    <2>1. <<p, "name">> \in Keys /\ <<p, "id">> \in Keys
      BY DEF Keys
    <2>2. /\ rowOf'[<<p, "name">>] = (IF rowOf[<<p, "name">>] = at[h].row THEN None
                                      ELSE rowOf[<<p, "name">>])
          /\ rowOf'[<<p, "id">>] = (IF rowOf[<<p, "id">>] = at[h].row THEN None
                                    ELSE rowOf[<<p, "id">>])
      BY <2>1 DEF Merges
    <2>3. rowOf[<<p, "name">>] = at[h].row <=> p = at[h].p
      BY <1>0, <1>2, <1>3, <2>1 DEF RowsInv, ByName
    <2>4. rowOf[<<p, "id">>] # at[h].row
      BY <1>0, <1>2, <1>3, <2>1 DEF RowsInv, ByName
    <2> QED
      BY <2>2, <2>3, <2>4 DEF ByName, ById
  <1>6. OthersStay(h)
    BY DEF Merges, OthersStay, Continues, Turns
  <1>7. online' = (online \cup {at[h].into}) \ {at[h].row}
    BY <1>2 DEF Merges
  <1>8. /\ open'[at[h].row] = 0
        /\ open'[at[h].into] = open[at[h].into] + open[at[h].row]
        /\ \A r \in Rows : r \notin {at[h].row, at[h].into} => open'[r] = open[r]
    BY <1>0, <1>2, <1>4 DEF Merges, TypeOK
  <1>9. \A k \in Keys : rowOf'[k] # at[h].row
    BY <1>0, <1>2 DEF Merges
  <1> QED
    BY <1>2, <1>4, <1>5, <1>6, <1>7, <1>8, <1>9

\* A merge of the row that another handler has in hand dooms it.
LEMMA MergeDooms ==
    ASSUME Undisturbed, Smooth', NEW h \in Handlers, Merges(h),
           NEW g \in Handlers, g # h, Holding(g) \/ Is(g, "session")
    PROVE  at[g].row # at[h].row
  <1>1. at'[g] = at[g] /\ \A k \in Keys : rowOf'[k] # at[h].row
    BY Merged DEF OthersStay
  <1>2. Holding(g)' \/ Is(g, "session")'
    BY <1>1 DEF Holding, Is
  <1>3. \E k \in Keys : rowOf'[k] = at'[g].row
    BY <1>2 DEF Smooth, Doomed, Stored
  <1> QED
    BY <1>1, <1>3

LEMMA Entered ==
    ASSUME Undisturbed, NEW h \in {"log", "list"}, NEW row, Enters(h, row)
    PROVE  /\ Is(h, "enter") /\ OthersStay(h) /\ at[h].kind = "joined"
           /\ at[h].p \in Players /\ at[h].by \in {"id", "name"} /\ row \in Rows
           /\ at[h].on = (rowOf[Key(h)] \in online)
           /\ at[h].on => row \in online
           /\ ~at[h].on => row \notin online
           /\ rowOf[Key(h)] # None => row = rowOf[Key(h)]
           /\ rowOf[Key(h)] = None => ~Stored(row)
           /\ \A p \in Players :
                /\ ById(p)' = (IF at[h].p = p /\ at[h].by = "id" THEN row ELSE ById(p))
                /\ ByName(p)' = (IF at[h].p = p /\ at[h].by = "name" THEN row ELSE ByName(p))
           /\ online' = online \cup {row} /\ open' = open
           /\ rowOf'[Key(h)] = row
           /\ h = "list" => at[h].by = "id" /\ at[h].p \in inGame
  <1>0. /\ TypeOK /\ Control /\ RowsInv /\ None \notin Rows /\ ListTurn
        /\ Entering(h) /\ h \in Handlers
    BY PeopleAssumption DEF Undisturbed, Base, PlayersAssumption, Parts, Handlers
  <1>1. EnterRow(h, row) /\ Is(h, "enter") /\ OthersStay(h)
    BY DEF Enters, EnterRow, OthersStay, Continues, Turns
  <1>2. at[h].p \in Players /\ at[h].by \in {"id", "name"} /\ Key(h) \in Keys
    BY <1>0, <1>1 DEF TypeOK, WorkSet, Control, ControlOf, Working, Is, Key, Keys
  <1>3. at[h].kind = "joined" /\ at[h].on = (rowOf[Key(h)] \in online)
    BY <1>0, <1>1 DEF Entering
  <1>4. /\ rowOf[Key(h)] # None => row = rowOf[Key(h)]
        /\ rowOf[Key(h)] = None => row \in Rows /\ ~Stored(row)
    BY <1>1 DEF EnterRow, Unused
  <1>5. row \in Rows /\ (at[h].on => row \in online) /\ (~at[h].on => row \notin online)
    <2>1. row \in Rows
      BY <1>0, <1>2, <1>4 DEF TypeOK
    <2>2. rowOf[Key(h)] = None => row \notin online /\ rowOf[Key(h)] \notin online
      BY <1>0, <1>4, <2>1 DEF RowsInv, TypeOK
    <2> QED
      BY <1>3, <1>4, <2>1, <2>2
  <1>6. ASSUME NEW p \in Players
        PROVE  /\ ById(p)' = (IF at[h].p = p /\ at[h].by = "id" THEN row ELSE ById(p))
               /\ ByName(p)' = (IF at[h].p = p /\ at[h].by = "name" THEN row ELSE ByName(p))
    <2>1. <<p, "name">> \in Keys /\ <<p, "id">> \in Keys
      BY DEF Keys
    <2>2. rowOf' = [rowOf EXCEPT ![Key(h)] = row]
      BY <1>1 DEF EnterRow
    <2>3. /\ Key(h) = <<p, "id">> <=> at[h].p = p /\ at[h].by = "id"
          /\ Key(h) = <<p, "name">> <=> at[h].p = p /\ at[h].by = "name"
      BY DEF Key
    <2> QED
      BY <1>0, <2>1, <2>2, <2>3 DEF TypeOK, ById, ByName
  <1>7. online' = online \cup {row} /\ open' = open /\ rowOf'[Key(h)] = row
    BY <1>0, <1>1, <1>2 DEF EnterRow, TypeOK
  <1>8. h = "list" => at[h].by = "id" /\ at[h].p \in inGame
    BY <1>0, <1>1 DEF Control, ControlOf, ListTurn, Working, Is
  <1> QED
    BY <1>1, <1>2, <1>3, <1>4, <1>5, <1>6, <1>7, <1>8

-----------------------------------------------------------------------------
(* Each part of the invariant is kept by an undisturbed step               *)

\* The parts of the state that most steps leave alone.
LEMMA Unmoved ==
    ASSUME Undisturbed, Smooth', [Next]_vars
    PROVE  /\ \A i \in 1..Len(log) : log'[i] = log[i]
           /\ acked' = acked \/ Answer
           /\ batch' = batch \/ Upload
  <1>0. TypeOK /\ Base /\ "disturbed" \notin happened'
    BY DEF Undisturbed, Base, Smooth
  <1>1. \/ \A i \in 1..Len(log) : log'[i] = log[i]
        \/ ~\E p \in Players : Move(p)
    BY <1>0, LogGrows
  <1>2. ASSUME NEW h \in Handlers, Picks(h) \/ Looks(h) \/ Promotes(h) \/ Merges(h)
        PROVE  Same
    BY <1>2 DEF Picks, Looks, Promotes, Merges
  <1>3. ASSUME NEW h \in {"log", "list"}, Finds(h) \/ Starts(h) \/ \E row : Enters(h, row)
        PROVE  Same
    BY <1>3 DEF Finds, Starts, Enters
  <1>4. Quiet \/ Leaves \/ Drops \/ Winds => Same
    BY DEF Quiet, Leaves, Drops, Winds
  <1>5. ASSUME NEW p \in Players, Plays(p) PROVE Move(p) /\ acked' = acked /\ batch' = batch
    BY <1>5 DEF Plays, agent
  <1>6. TakeList \/ Report \/ Upload \/ Answer => log' = log
    BY <1>0, OutsideIs DEF game
  <1>7. /\ TakeList \/ Report => acked' = acked /\ batch' = batch
        /\ Upload => acked' = acked
        /\ Answer => batch' = batch
    BY <1>0, OutsideIs
  <1> QED
    BY <1>0, <1>1, <1>2, <1>3, <1>4, <1>5, <1>6, <1>7, SmoothSteps DEF Same

LEMMA ListTurnStep ==
    ASSUME Undisturbed, Base', Smooth', [Next]_vars
    PROVE  ListTurn'
  <1> USE DEF Is, Working, Holding
  <1>0. /\ TypeOK /\ Base /\ Control /\ Listed /\ ListTurn /\ "disturbed" \notin happened'
        /\ {"log", "list", "page"} \subseteq Handlers
    BY DEF Undisturbed, Base, Smooth, Parts, Handlers
  <1>1. ASSUME at'["list"] = at["list"], UNCHANGED <<inGame, log, acked, listing>>
        PROVE  ListTurn'
    BY <1>0, <1>1 DEF ListTurn
  <1>2. ASSUME NEW p \in Players, Plays(p) PROVE ListTurn'
    BY <1>0, <1>2 DEF Plays, ListTurn, agent
  <1>3. CASE TakeList
    <2>1. /\ Is("list", "idle") /\ listing' = inGame
          /\ UNCHANGED <<game, acked, batch, players, at, happened>>
      BY <1>3 DEF TakeList
    <2> QED
      BY <2>1 DEF ListTurn, game
  <1>4. CASE Upload
    BY <1>0, <1>1, <1>4, OutsideIs DEF game
  <1>5. CASE Answer
    <2>1. /\ at'["list"] = at["list"] /\ UNCHANGED <<inGame, log, listing>>
          /\ acked' \in {acked, batch}
      BY <1>0, <1>5, OutsideIs DEF game
    <2>2. Is("log", "next") /\ at["log"].todo = {}
      BY <1>0, <1>5, OutsideIs
    <2>3. acked \in Nat /\ batch \in Nat /\ acked <= batch
      <3>1. PICK k \in acked..batch : TRUE
        BY <1>0, <2>2 DEF Base, LogTurn
      <3> QED
        BY <1>0, <3>1 DEF TypeOK
    <2>4. Len(log) \in Nat /\ (acked' + 1)..Len(log) \subseteq (acked + 1)..Len(log)
      BY <1>0, <2>1, <2>3 DEF TypeOK
    <2> QED
      BY <1>0, <2>1, <2>4 DEF ListTurn
  <1>6. CASE Report
    <2>1. /\ listing # None /\ listing' = None /\ UNCHANGED <<inGame, log, acked, batch>>
          /\ at'["list"].stage = "next" /\ at'["list"].seen = listing
          /\ \A i \in (acked + 1)..Len(log) : log[i].kind # "joined"
      BY <1>0, <1>6, OutsideIs DEF game
    <2>2. \A i \in (acked + 1)..Len(log) : log[i].kind \in {"joined", "left"}
      <3>1. ASSUME NEW i \in (acked + 1)..Len(log) PROVE log[i].kind \in {"joined", "left"}
        <4>1. i \in 1..Len(log)
          BY <1>0, <3>1 DEF TypeOK
        <4>2. log[i] \in LineSet
          BY <1>0, <4>1 DEF TypeOK
        <4> QED
          BY <4>2 DEF LineSet
      <3> QED
        BY <3>1
    <2> QED
      BY <1>0, <2>1, <2>2 DEF ListTurn
  <1>7. ASSUME NEW h \in Handlers, h # "list", Picks(h) \/ Looks(h) \/ Promotes(h) \/ Merges(h)
        PROVE  ListTurn'
    BY <1>0, <1>1, <1>7 DEF Picks, Looks, Promotes, Merges, Same, OthersStay, Turns, Continues
  <1>8. CASE Picks("list")
    <2>1. PICK x \in at["list"].todo : Falls("list", x)
      BY <1>8 DEF Picks
    <2>2. Same /\ at["list"].stage = "next"
      BY <1>8 DEF Picks
    <2>3. at["list"].todo \subseteq at["list"].seen
      BY <1>0, <2>2 DEF Control, ControlOf
    <2>4. at["list"].seen = inGame /\ listing = None
          /\ \A i \in (acked + 1)..Len(log) : log[i].kind = "left"
      BY <1>0, <2>2 DEF ListTurn
    <2>5. /\ at'["list"].stage \in {"canonical", "existing"}
          /\ at'["list"].seen = at["list"].seen /\ at'["list"].p = x
          /\ at'["list"].stage = "canonical" => ByName(x) # None
          /\ x \in Players
      BY <2>1 DEF Falls
    <2>6. ByName(x) = None
      BY <2>2, <2>5, NamesFree
    <2> QED
      BY <2>1, <2>2, <2>3, <2>4, <2>5, <2>6 DEF ListTurn, Same
  <1>9. ~(Looks("list") \/ Promotes("list") \/ Merges("list"))
    BY <1>0 DEF Looks, Promotes, Merges, ListTurn
  <1>10. CASE Finds("log") \/ Starts("log") \/ \E row : Enters("log", row)
    BY <1>0, <1>1, <1>10 DEF Finds, Starts, Enters, Same, OthersStay, Turns, Continues
  <1>11. CASE Finds("list") \/ Starts("list") \/ \E row : Enters("list", row)
    <2>1. Same /\ at["list"].stage \in {"existing", "enter", "session"}
      BY <1>11 DEF Finds, Starts, Enters, EnterRow
    <2>2. \/ Continues("list") \/ Turns("list", "enter") \/ Turns("list", "session")
      <3>1. Finds("list") => Continues("list") \/ Turns("list", "enter")
        <4>1. at["list"].kind = "joined"
          BY <1>0 DEF Control, ControlOf
        <4> QED
          BY <4>1 DEF Finds
      <3>2. Starts("list") => Continues("list")
        BY DEF Starts
      <3>3. (\E row : Enters("list", row)) => Continues("list") \/ Turns("list", "session")
        BY DEF Enters
      <3> QED
        BY <1>11, <3>1, <3>2, <3>3
    <2>3. /\ at["list"].seen = inGame /\ listing = None /\ at["list"].p \in inGame
          /\ \A i \in (acked + 1)..Len(log) : log[i].kind = "left"
      BY <1>0, <2>1 DEF ListTurn
    <2>4. CASE Continues("list")
      BY <2>1, <2>3, <2>4 DEF ListTurn, Continues, Same
    <2>5. CASE Turns("list", "enter") \/ Turns("list", "session")
      BY <2>1, <2>3, <2>5 DEF ListTurn, Turns, Same
    <2> QED
      BY <2>2, <2>4, <2>5
  <1>12. CASE Leaves
    BY <1>0, <1>1, <1>12 DEF Leaves, Same, Continues
  <1>13. CASE Drops \/ Winds
    <2>1. Same /\ at["list"].stage \in {"next", "missing"} /\ at'["list"].stage \in {"missing", "idle"}
      BY <1>13 DEF Drops, Winds
    <2> QED
      BY <1>0, <2>1 DEF ListTurn, Same
  <1>14. CASE Quiet
    BY <1>1, <1>14 DEF Quiet, Same
  <1> QED
    BY <1>0, <1>2, <1>3, <1>4, <1>5, <1>6, <1>7, <1>8, <1>9, <1>10, <1>11, <1>12, <1>13, <1>14,
       SmoothSteps DEF Handlers

LEMMA NameTurnStep ==
    ASSUME Undisturbed, Base', Smooth', [Next]_vars
    PROVE  NameTurn'
  <1> USE DEF Is
  <1>0. /\ TypeOK /\ Base /\ NameTurn /\ "disturbed" \notin happened' /\ None \notin Rows
        /\ {"log", "list", "page"} \subseteq Handlers
    BY PeopleAssumption DEF Undisturbed, Base, Smooth, Parts, Handlers, PlayersAssumption
  <1>1. ASSUME \A p \in Players : ByName(p)' = None PROVE NameTurn'
    BY <1>1 DEF NameTurn
  <1>2. ASSUME UNCHANGED <<acked, batch>>, \A i \in 1..Len(log) : log'[i] = log[i],
               \/ at'["log"] = at["log"]
               \/ /\ at["log"].stage \in {"canonical", "promote"}
                  /\ at'["log"].stage \in {"promote", "merge"}
                  /\ at'["log"].p = at["log"].p /\ at'["log"].todo = at["log"].todo
               \/ /\ at["log"].stage = "session"
                  /\ at'["log"].stage = "next" /\ at'["log"].todo = at["log"].todo,
               \A p \in Players : ByName(p)' # None => ByName(p)' = ByName(p) /\ ByName(p) \in online'
        PROVE  NameTurn'
    <2> SUFFICES ASSUME NEW p \in Players, ByName(p)' # None
                 PROVE  /\ ByName(p)' \in online' /\ at'["log"].stage # "idle"
                        /\ \E k \in acked'..batch' :
                             /\ Upto(k)'
                             /\ \/ /\ at'["log"].stage \in {"next", "session"} /\ k < batch'
                                   /\ log'[k + 1] = [p |-> p, by |-> "id", kind |-> "joined"]
                                \/ Holding("log")' /\ at'["log"].p = p
      BY DEF NameTurn
    <2>1. ByName(p) # None /\ ByName(p)' = ByName(p) /\ ByName(p) \in online'
      BY <1>2
    <2>2. PICK k \in acked..batch :
             /\ Upto(k)
             /\ \/ /\ at["log"].stage \in {"next", "session"}
                   /\ k < batch /\ log[k + 1] = [p |-> p, by |-> "id", kind |-> "joined"]
                \/ /\ Holding("log")
                   /\ at["log"].p = p
      BY <1>0, <2>1 DEF NameTurn
    <2>3. at'["log"].todo = at["log"].todo /\ at["log"].stage # "idle"
      BY <1>0, <1>2, <2>1 DEF NameTurn
    <2>4. Upto(k)' /\ k \in acked'..batch'
      BY <1>2, <2>2, <2>3 DEF Upto
    <2>5. k < batch => log'[k + 1] = log[k + 1]
      BY <1>0, <1>2 DEF TypeOK
    <2> QED
      BY <1>2, <2>1, <2>2, <2>3, <2>4, <2>5 DEF Holding
  <1>3. ASSUME rowOf' = rowOf, online \subseteq online'
        PROVE  \A p \in Players : ByName(p)' # None => ByName(p)' = ByName(p) /\ ByName(p) \in online'
    BY <1>0, <1>3 DEF NameTurn, ByName
  <1>4. CASE Quiet \/ Winds \/ TakeList \/ Report \/ \E p \in Players : Plays(p)
    <2>1. /\ UNCHANGED players /\ at'["log"] = at["log"]
      BY <1>0, <1>4, OutsideIs DEF Quiet, Winds, Plays, OthersStay
    <2>2. UNCHANGED <<acked, batch>>
      BY <1>0, <1>4, OutsideIs DEF Quiet, Winds, Plays, agent, Same
    <2> QED
      BY <1>2, <1>3, <2>1, <2>2, Unmoved DEF players
  <1>5. CASE Upload \/ Answer
    <2>1. UNCHANGED players
      BY <1>0, <1>5, OutsideIs
    <2>2. at["log"].stage = "idle" \/ (Is("log", "next") /\ at["log"].todo = {})
      BY <1>0, <1>5, OutsideIs
    <2> QED
      BY <1>1, <2>1, <2>2, NamesFree DEF ByName, players
  <1>6. ASSUME NEW h \in Handlers, h # "log", Picks(h) \/ Looks(h) PROVE NameTurn'
    <2>1. Same /\ UNCHANGED players /\ at'["log"] = at["log"]
      BY <1>0, <1>6 DEF Picks, Looks, OthersStay, Turns
    <2> QED
      BY <1>2, <1>3, <2>1, Unmoved DEF players, Same
  <1>7. CASE Picks("log")
    <2>1. PICK x \in at["log"].todo : Falls("log", x)
      BY <1>7 DEF Picks
    <2>2. Same /\ UNCHANGED players /\ at["log"].stage = "next"
      BY <1>7 DEF Picks
    <2>3. PICK k \in acked..batch :
            /\ Upto(k) /\ k < batch /\ Item("log", x) = log[k + 1]
            /\ at["log"].todo \ {x} = (k + 2)..batch
      BY <1>0, <2>1, <2>2, ItemIs DEF Falls
    <2> SUFFICES ASSUME NEW p \in Players, ByName(p) # None
                 PROVE  /\ ByName(p) \in online /\ at'["log"].stage = "canonical"
                        /\ at'["log"].p = p
                        /\ \E j \in acked..batch : at'["log"].todo = (j + 1)..batch
      BY <2>2 DEF NameTurn, Holding, Same, players, Upto, ByName
    <2>4. \E j \in acked..batch :
             Upto(j) /\ log[j + 1] = [p |-> p, by |-> "id", kind |-> "joined"]
      BY <2>2, Named DEF Holding
    <2>5. Item("log", x) = [p |-> p, by |-> "id", kind |-> "joined"]
      BY <1>0, <2>3, <2>4, UptoIs
    <2>6. /\ at'["log"].stage = "canonical" /\ at'["log"].p = p
          /\ at'["log"].todo = (k + 2)..batch
      <3> DEFINE item == Item("log", x)
      <3>1. item.p = p /\ item.by = "id" /\ ByName(item.p) # None
        BY <2>5
      <3>2. /\ at'["log"].stage \in {"canonical", "existing"}
            /\ at'["log"].todo = at["log"].todo \ {x} /\ at'["log"].p = item.p
            /\ at'["log"].stage # "canonical" => item.by # "id" \/ ByName(item.p) = None
        BY <2>1 DEF Falls
      <3> QED
        BY <2>3, <3>1, <3>2
    <2>7. k + 1 \in acked..batch /\ k + 1 + 1 = k + 2
      BY <1>0, <2>3 DEF TypeOK
    <2>8. at'["log"].todo = ((k + 1) + 1)..batch
      BY <2>6, <2>7
    <2> QED
      BY <2>6, <2>7, <2>8, Named
  <1>8. CASE Looks("log")
    <2>1. /\ Same /\ UNCHANGED players /\ at["log"].stage = "canonical"
          /\ at'["log"].stage \in {"promote", "merge"}
          /\ at'["log"].p = at["log"].p /\ at'["log"].todo = at["log"].todo
      BY <1>8 DEF Looks, Turns
    <2> QED
      BY <1>2, <1>3, <2>1, Unmoved DEF players, Same
  <1>9. ASSUME NEW h \in Handlers, Promotes(h) PROVE NameTurn'
    <2>1. h = "log" /\ Holding("log")
      BY <1>9, Promoted DEF Promotes, Holding
    <2>2. ASSUME NEW p \in Players, p # at[h].p PROVE ByName(p) = None
      BY <2>1, <2>2, Named DEF Holding
    <2> QED
      BY <1>1, <1>9, <2>1, <2>2, Promoted
  <1>10. ASSUME NEW h \in Handlers, Merges(h) PROVE NameTurn'
    <2>1. CASE h = "log"
      <3>1. Holding("log")
        BY <1>10, <2>1 DEF Merges, Holding
      <3>2. ASSUME NEW p \in Players, p # at[h].p PROVE ByName(p) = None
        BY <2>1, <3>1, <3>2, Named DEF Holding
      <3> QED
        BY <1>1, <1>10, <3>2, Merged
    <2>2. CASE h # "log"
      <3>1. at'["log"] = at["log"] /\ UNCHANGED <<acked, batch>>
        BY <1>0, <1>10, <2>2, Merged DEF OthersStay, Merges, Same
      <3>2. ASSUME NEW p \in Players, ByName(p)' # None
            PROVE  ByName(p)' = ByName(p) /\ ByName(p) \in online'
        <4>1. ByName(p)' = ByName(p) /\ ByName(p) # None /\ p # at[h].p /\ at[h].p \in Players
          BY <1>10, <3>2, Merged
        <4>2. ByName(p) # ByName(at[h].p)
          <5>1. <<p, "name">> \in Keys /\ <<at[h].p, "name">> \in Keys
            BY <4>1 DEF Keys
          <5> QED
            BY <1>0, <4>1, <5>1 DEF Base, RowsInv, ByName
        <4>3. ByName(p) \in online
          BY <4>1, Named
        <4> QED
          BY <1>10, <4>1, <4>2, <4>3, Merged
      <3> QED
        BY <1>2, <3>1, <3>2, Unmoved
    <2> QED
      BY <2>1, <2>2
  <1>11. CASE Finds("log") \/ Leaves
    <2>1. rowOf' = rowOf /\ at["log"].stage \in {"existing", "close"}
      BY <1>11 DEF Finds, Leaves, Closes, players
    <2> QED
      BY <1>1, <2>1, NamesFree DEF ByName
  <1>12. CASE Finds("list") \/ Starts("list")
    <2>1. /\ rowOf' = rowOf /\ online' = online /\ at'["log"] = at["log"]
          /\ UNCHANGED <<acked, batch>>
      BY <1>0, <1>12 DEF Finds, Starts, Same, players, Turns, Continues
    <2> QED
      BY <1>2, <1>3, <2>1, Unmoved
  <1>13. CASE Starts("log")
    <2>1. /\ rowOf' = rowOf /\ online' = online /\ UNCHANGED <<acked, batch>>
          /\ at["log"].stage = "session" /\ at'["log"].stage = "next"
          /\ at'["log"].todo = at["log"].todo
      BY <1>0, <1>13 DEF Starts, Same, players, Continues
    <2> QED
      BY <1>2, <1>3, <2>1, Unmoved
  <1>14. ASSUME NEW row, Enters("list", row) PROVE NameTurn'
    <2>1. /\ \A p \in Players : ByName(p)' = ByName(p)
          /\ online' = online \cup {row} /\ at'["log"] = at["log"]
      BY <1>0, <1>14, Entered DEF OthersStay
    <2>2. UNCHANGED <<acked, batch>>
      BY <1>14 DEF Enters, Same
    <2> QED
      BY <1>0, <1>2, <2>1, <2>2, Unmoved DEF NameTurn
  <1>15. ASSUME NEW row, Enters("log", row) PROVE NameTurn'
    <2>1. /\ at["log"].kind = "joined" /\ at["log"].by \in {"id", "name"}
          /\ at["log"].stage = "enter" /\ row \in online'
          /\ \A p \in Players :
                ByName(p)' = (IF at["log"].p = p /\ at["log"].by = "name" THEN row ELSE ByName(p))
      BY <1>15, Entered
    <2>2. \A p \in Players : ByName(p) = None
      BY <2>1, NamesFree
    <2>3. CASE at["log"].by = "id"
      BY <1>1, <2>1, <2>2, <2>3
    <2>4. CASE at["log"].by = "name"
      <3>1. PICK k \in acked..batch :
              /\ Upto(k) /\ k \in 1..Len(log)
              /\ log[k] = [p |-> at["log"].p, by |-> at["log"].by, kind |-> at["log"].kind]
        BY <1>0, <2>1, LineInHand DEF Working
      <3>2. /\ k # batch
            /\ log[k + 1] = [p |-> at["log"].p, by |-> "id", kind |-> "joined"]
        BY <1>0, <2>1, <2>4, <3>1 DEF Base, LogInv
      <3>3. k < batch
        BY <1>0, <3>2 DEF TypeOK
      <3>4. /\ at'["log"].stage \in {"next", "session"} /\ at'["log"].todo = at["log"].todo
            /\ Same
        BY <1>15 DEF Enters, Continues, Turns
      <3>5. Upto(k)' /\ k \in acked'..batch' /\ k < batch'
        BY <3>1, <3>3, <3>4 DEF Upto, Same
      <3>6. ASSUME NEW p \in Players, ByName(p)' # None
            PROVE  p = at["log"].p /\ ByName(p)' = row
        BY <2>1, <2>2, <3>6
      <3> QED
        BY <2>1, <3>2, <3>4, <3>5, <3>6 DEF NameTurn, Same
    <2> QED
      BY <2>1, <2>3, <2>4
  <1>16. CASE Drops
    <2>1. rowOf' = rowOf /\ at["list"].stage # "idle"
      BY <1>16 DEF Drops, Closes
    <2> QED
      BY <1>1, <2>1, NamesFree DEF ByName
  <1> QED
    BY <1>0, <1>4, <1>5, <1>6, <1>7, <1>8, <1>9, <1>10, <1>11, <1>12, <1>13, <1>14, <1>15, <1>16,
       SmoothSteps DEF Handlers

\* A known row stays the player's.
LEMMA IdStays ==
    ASSUME Undisturbed, Base', Smooth', [Next]_vars, NEW p \in Players, ById(p) # None
    PROVE  ById(p)' = ById(p)
  <1>0. TypeOK /\ Base /\ "disturbed" \notin happened'
    BY DEF Undisturbed, Base, Smooth
  <1>1. ASSUME NEW h \in Handlers, Promotes(h) \/ Merges(h) PROVE ById(p)' = ById(p)
    BY <1>1, Promoted, Merged
  <1>2. ASSUME NEW h \in {"log", "list"}, NEW row, Enters(h, row) PROVE ById(p)' = ById(p)
    BY <1>2, Entered DEF Key, ById
  <1>3. ASSUME NEW h \in Handlers, Picks(h) \/ Looks(h) PROVE rowOf' = rowOf
    BY <1>3 DEF Picks, Looks, players
  <1>4. ASSUME NEW h \in {"log", "list"}, Finds(h) \/ Starts(h) PROVE rowOf' = rowOf
    BY <1>4 DEF Finds, Starts, players
  <1>5. /\ Quiet \/ (\E q \in Players : Plays(q)) \/ Leaves \/ Drops \/ Winds => rowOf' = rowOf
        /\ TakeList \/ Upload \/ Answer \/ Report => rowOf' = rowOf
    BY <1>0, OutsideIs DEF Quiet, Plays, Leaves, Drops, Winds, players, Closes
  <1> QED
    BY <1>0, <1>1, <1>2, <1>3, <1>4, <1>5, SmoothSteps DEF ById

\* The fallback of an item whose player is known by name.
LEMMA PicksHold ==
    ASSUME Undisturbed, NEW h \in {"log", "page"}, Picks(h)
    PROVE  /\ at'[h].stage \notin {"promote", "merge"}
           /\ Holding(h)' =>
                /\ at'[h].by = "id" /\ at'[h].kind = "joined" /\ at'[h].on = TRUE
                /\ (at[h].row = ByName(at[h].p))'
                /\ h = "page" => at'[h].p \in at[h].todo
           /\ h = "page" => at'[h].todo \subseteq at[h].todo
  <1>0. Base /\ h \in Handlers
    BY DEF Undisturbed, Handlers
  <1>1. PICK x \in at[h].todo : Falls(h, x)
    BY DEF Picks
  <1> DEFINE item == Item(h, x)
  <1>2. /\ First(h, x) /\ item \in LineSet /\ Is(h, "next") /\ UNCHANGED players
        /\ h # "log" => x \in Players /\ item = [p |-> x, by |-> "id", kind |-> "joined"]
    BY <1>1 DEF Falls, Picks
  <1>3. at'[h].stage \notin {"promote", "merge"} /\ (h = "page" => at'[h].todo \subseteq at[h].todo)
    BY <1>1 DEF Falls
  <1>4. ASSUME Holding(h)' PROVE /\ at'[h].by = "id" /\ at'[h].kind = "joined" /\ at'[h].on = TRUE
                                 /\ (at[h].row = ByName(at[h].p))'
                                 /\ h = "page" => at'[h].p = x
    <2>1. at'[h].stage = "canonical"
      BY <1>3, <1>4 DEF Holding
    <2>2. /\ at'[h].p = item.p /\ at'[h].by = item.by /\ at'[h].kind = item.kind
          /\ item.by = "id" /\ ByName(item.p) # None
          /\ at'[h].row = ByName(item.p) /\ at'[h].on = (ByName(item.p) \in online)
      BY <1>1, <2>1 DEF Falls
    <2>3. item.p \in Players
      BY <1>2 DEF LineSet
    <2>4. ByName(item.p) \in online
      BY <2>2, <2>3, Named
    <2>5. item.kind = "joined"
      <3>1. CASE h = "page"
        BY <1>2, <3>1
      <3>2. CASE h = "log"
        <4>1. \E j \in acked..batch :
                 Upto(j) /\ log[j + 1] = [p |-> item.p, by |-> "id", kind |-> "joined"]
          BY <1>2, <2>2, <2>3, <3>2, Named DEF Is, Holding
        <4>2. PICK k \in acked..batch : Upto(k) /\ item = log[k + 1]
          BY <1>0, <1>2, <3>2, ItemIs
        <4> QED
          BY <1>0, <4>1, <4>2, UptoIs DEF Base
      <3> QED
        BY <3>1, <3>2
    <2>6. (at[h].row = ByName(at[h].p))'
      BY <1>2, <2>2 DEF ByName, players
    <2>7. h = "page" => item.p = x
      BY <1>2
    <2> QED
      BY <2>2, <2>4, <2>5, <2>6, <2>7
  <1> QED
    BY <1>3, <1>4

\* What a handler holds while another one steps.
LEMMA HoldFrame ==
    ASSUME Undisturbed, NEW h \in {"log", "page"}, at'[h] = at[h],
           Holding(h) => /\ ByName(at[h].p)' = ByName(at[h].p)
                         /\ ById(at[h].p)' = ById(at[h].p)
    PROVE  Hold(h)'
  BY DEF Undisturbed, Parts, PageWork, Hold, Holding, Is

LEMMA HoldLooks ==
    ASSUME Undisturbed, NEW h \in {"log", "page"}, Looks(h)
    PROVE  Hold(h)'
  <1>1. Hold(h) /\ Holding(h)
    BY DEF Undisturbed, Parts, PageWork, Looks, Holding, Is
  <1>2. /\ at'[h].stage = (IF ById(at[h].p) = None THEN "promote" ELSE "merge")
        /\ at'[h].p = at[h].p /\ at'[h].by = at[h].by /\ at'[h].kind = at[h].kind
        /\ at'[h].row = at[h].row /\ at'[h].on = at[h].on /\ at'[h].into = ById(at[h].p)
        /\ rowOf' = rowOf
    BY DEF Looks, Turns, players
  <1> QED
    BY <1>1, <1>2 DEF Hold, Is, ById, ByName

LEMMA HoldStep ==
    ASSUME Undisturbed, Base', Smooth', [Next]_vars, NEW h \in {"log", "page"}
    PROVE  Hold(h)'
  <1> USE DEF Is
  <1>0. /\ TypeOK /\ Base /\ "disturbed" \notin happened' /\ None \notin Rows
        /\ {"log", "list", "page"} \subseteq Handlers
    BY PeopleAssumption DEF Undisturbed, Base, Smooth, Handlers, PlayersAssumption
  <1>1. ASSUME at'[h] = at[h], rowOf' = rowOf PROVE Hold(h)'
    BY <1>1, HoldFrame DEF ByName, ById
  <1>2. ASSUME ~Holding(h)' PROVE Hold(h)'
    BY <1>2 DEF Hold
  <1>3. CASE Quiet
    BY <1>1, <1>2, <1>3 DEF Quiet, players, Holding
  <1>4. CASE TakeList \/ Upload \/ Answer \/ Report \/ \E p \in Players : Plays(p)
    <2>1. rowOf' = rowOf /\ (at'[h] = at[h] \/ at'[h].stage \in {"idle", "next"})
      BY <1>0, <1>4, OutsideIs DEF Plays, players
    <2> QED
      BY <1>1, <1>2, <2>1 DEF Holding
  <1>5. CASE Picks(h)
    <2>1. Holding(h)' =>
                /\ at'[h].by = "id" /\ at'[h].kind = "joined" /\ at'[h].on = TRUE
                /\ (at[h].row = ByName(at[h].p))'
      BY <1>5, PicksHold
    <2>2. at'[h].stage \notin {"promote", "merge"}
      BY <1>5, PicksHold
    <2> QED
      BY <2>1, <2>2 DEF Hold
  <1>6. CASE Looks(h)
    BY <1>6, HoldLooks
  <1>7. ASSUME NEW g \in Handlers, g # h, Picks(g) \/ Looks(g) PROVE Hold(h)'
    <2>1. at'[h] = at[h] /\ rowOf' = rowOf
      BY <1>0, <1>7 DEF Picks, Looks, OthersStay, Turns, players
    <2> QED
      BY <1>1, <2>1
  <1>8. CASE Promotes(h) \/ Merges(h)
    BY <1>2, <1>8 DEF Promotes, Merges, Turns, Continues, Holding
  <1>9. ASSUME NEW g \in Handlers, g # h, Promotes(g) PROVE Hold(h)'
    <2>1. /\ g = "log" /\ h = "page" /\ at'[h] = at[h]
          /\ ById(at[g].p) = None /\ at[g].p \in Players
          /\ \A p \in Players : p # at[g].p => ByName(p)' = ByName(p) /\ ById(p)' = ById(p)
      BY <1>0, <1>9, Promoted DEF Turns
    <2>2. Holding("page") => ById(at[h].p) # None /\ at[h].p \in Players
      BY <2>1 DEF Undisturbed, Parts, PageWork, Stable, ById
    <2> QED
      BY <2>1, <2>2, HoldFrame
  <1>10. ASSUME NEW g \in Handlers, g # h, Merges(g) PROVE Hold(h)'
    <2>1. /\ at'[h] = at[h] /\ at[g].row = ByName(at[g].p)
          /\ \A p \in Players : /\ p # at[g].p => ByName(p)' = ByName(p)
                                /\ ById(p)' = ById(p)
      BY <1>0, <1>10, Merged DEF OthersStay
    <2>2. ASSUME Holding(h) PROVE at[h].p \in Players /\ at[h].p # at[g].p
      <3>1. at[h].p \in Players /\ at[h].row = ByName(at[h].p)
        BY <1>0, <2>2, Held
      <3>2. at[h].row # at[g].row
        BY <1>0, <1>10, <2>2, MergeDooms
      <3> QED
        BY <2>1, <3>1, <3>2
    <2> QED
      BY <2>1, <2>2, HoldFrame
  <1>11. ASSUME NEW g \in {"log", "list"}, Finds(g) \/ Starts(g) PROVE Hold(h)'
    <2>1. rowOf' = rowOf /\ (at'[h] = at[h] \/ at'[h].stage \in {"enter", "close", "next", "idle"})
      BY <1>0, <1>11 DEF Finds, Starts, players, Turns, Continues
    <2> QED
      BY <1>1, <1>2, <2>1 DEF Holding
  <1>12. ASSUME NEW g \in {"log", "list"}, NEW row, Enters(g, row) PROVE Hold(h)'
    <2>1. CASE g = h
      BY <1>2, <1>12, <2>1 DEF Enters, Turns, Continues, Holding
    <2>2. CASE g # h
      <3>1. ASSUME Holding(h) PROVE FALSE
        <4>1. at[h].p \in Players /\ at[h].row = ByName(at[h].p) /\ at[h].row \in Rows
              /\ Is("list", "idle")
          BY <1>0, <3>1, Held
        <4>2. at[g].stage = "enter"
          BY <1>12, Entered
        <4>3. g = "log"
          BY <4>1, <4>2
        <4> QED
          BY <1>0, <4>1, <4>2, <4>3, NamesFree
      <3>2. at'[h] = at[h]
        BY <1>0, <1>12, <2>2, Entered DEF OthersStay
      <3> QED
        BY <3>1, <3>2, HoldFrame
    <2> QED
      BY <2>1, <2>2
  <1>13. CASE Leaves \/ Drops \/ Winds
    <2>1. rowOf' = rowOf /\ (at'[h] = at[h] \/ at'[h].stage \in {"next", "idle"})
      BY <1>0, <1>13 DEF Leaves, Drops, Winds, Closes, players, Continues, OthersStay
    <2> QED
      BY <1>1, <1>2, <2>1 DEF Holding
  <1> QED
    BY <1>0, <1>3, <1>4, <1>5, <1>6, <1>7, <1>8, <1>9, <1>10, <1>11, <1>12, <1>13, SmoothSteps

LEMMA PageWorkStep ==
    ASSUME Undisturbed, Base', Smooth', [Next]_vars
    PROVE  PageWork'
  <1>0. /\ TypeOK /\ Base /\ PageWork /\ "disturbed" \notin happened'
        /\ {"log", "list", "page"} \subseteq Handlers
    BY DEF Undisturbed, Base, Smooth, Parts, Handlers
  <1>1. Hold("page")'
    BY HoldStep
  <1>2. Stable \subseteq Stable'
    BY IdStays DEF Stable, ById
  <1>3. ASSUME at'["page"].todo \subseteq Stable, Holding("page")' => at'["page"].p \in Stable
        PROVE  PageWork'
    BY <1>1, <1>2, <1>3 DEF PageWork
  <1>4. CASE at'["page"] = at["page"]
    BY <1>0, <1>3, <1>4 DEF PageWork, Holding
  <1>5. CASE Quiet
    BY <1>3, <1>4, <1>5 DEF Quiet, Holding
  <1>6. TakeList \/ Upload \/ Answer \/ Report \/ (\E p \in Players : Plays(p))
        => at'["page"] = at["page"]
    BY <1>0, OutsideIs DEF Plays
  <1>7. CASE Picks("page")
    BY <1>0, <1>3, <1>7, PicksHold DEF PageWork
  <1>8. CASE Looks("page")
    BY <1>0, <1>3, <1>8 DEF PageWork, Looks, Turns, Holding, Is
  <1>9. CASE Promotes("page") \/ Merges("page")
    BY <1>0, <1>3, <1>9 DEF PageWork, Promotes, Merges, Continues, Holding
  <1>10. ASSUME NEW g \in Handlers, g # "page", Picks(g) \/ Looks(g) \/ Promotes(g) \/ Merges(g)
         PROVE  at'["page"] = at["page"]
    BY <1>0, <1>10 DEF Picks, Looks, Promotes, Merges, OthersStay, Turns, Continues
  <1>11. ASSUME NEW g \in {"log", "list"}, Finds(g) \/ Starts(g) \/ \E row : Enters(g, row)
         PROVE  at'["page"] = at["page"]
    BY <1>0, <1>11 DEF Finds, Starts, Enters, Turns, Continues
  <1>12. Leaves \/ Drops \/ Winds => at'["page"] = at["page"]
    BY <1>0 DEF Leaves, Drops, Winds, Continues, OthersStay
  <1> QED
    BY <1>0, <1>4, <1>5, <1>6, <1>7, <1>8, <1>9, <1>10, <1>11, <1>12, SmoothSteps

\* While the log's handler opens a session, no handler has the row by another way.
LEMMA OneSession ==
    ASSUME Undisturbed, NEW h \in {"log", "list"}, NEW g \in {"log", "list"}, g # h,
           Is(h, "enter") \/ Is(h, "session")
    PROVE  ~Is(g, "session")
  <1>1. Is("log", "enter") \/ Is("log", "session") => at["log"].kind = "joined"
    BY DEF Undisturbed, Parts, Entering
  <1>2. Is("log", "enter") \/ Is("log", "session") => Is("list", "idle")
    BY <1>1, JoinFree DEF Working, Is
  <1> QED
    BY <1>2 DEF Is

LEMMA EnteringFrame ==
    ASSUME Undisturbed, NEW h \in {"log", "list"}, at'[h] = at[h],
           at[h].stage \in {"enter", "session", "close"} => rowOf'[Key(h)] = rowOf[Key(h)],
           Is(h, "enter") => (rowOf[Key(h)] \in online' <=> rowOf[Key(h)] \in online),
           Is(h, "session") => at[h].row \in online' /\ open'[at[h].row] = open[at[h].row]
    PROVE  Entering(h)'
  <1>1. Entering(h)
    BY DEF Undisturbed, Parts
  <1>2. Key(h)' = Key(h)
    BY DEF Key
  <1> QED
    BY <1>1, <1>2 DEF Entering, Is

\* The row that the log's handler closes is not the one the list's handler opens.
LEMMA ClosedIsAnother ==
    ASSUME Undisturbed, at["log"].stage = "close", at["list"].stage \in {"enter", "session"}
    PROVE  /\ at["log"].p # at["list"].p
           /\ at["log"].row # rowOf[Key("list")]
  <1>0. TypeOK /\ Control /\ RowsInv /\ None \notin Rows /\ {"log", "list"} \subseteq Handlers
    BY PeopleAssumption DEF Undisturbed, Base, Handlers, PlayersAssumption
  <1>1. at["list"].p \in inGame
    BY DEF Undisturbed, Parts, ListTurn, Working, Is
  <1>2. at["log"].p # at["list"].p
    BY <1>1, LineOfAnother DEF Working, Is
  <1>3. at["log"].row = rowOf[Key("log")] /\ at["log"].row \in Rows
    BY <1>0 DEF Control, ControlOf, Undisturbed, Parts, Entering, Is
  <1>4. Key("log") \in Keys /\ Key("list") \in Keys
    BY <1>0 DEF Key, Keys, Control, ControlOf, Working, TypeOK, WorkSet, Is
  <1>5. Key("log") # Key("list")
    BY <1>2 DEF Key
  <1> QED
    BY <1>0, <1>2, <1>3, <1>4, <1>5 DEF RowsInv

LEMMA EnteringStep ==
    ASSUME Undisturbed, Base', Smooth', [Next]_vars, NEW h \in {"log", "list"}
    PROVE  Entering(h)'
  <1> USE DEF Is
  <1>0. /\ TypeOK /\ Base /\ Control /\ RowsInv /\ "disturbed" \notin happened' /\ None \notin Rows
        /\ {"log", "list", "page"} \subseteq Handlers /\ Entering(h)
    BY PeopleAssumption DEF Undisturbed, Base, Smooth, Handlers, PlayersAssumption, Parts
  <1>1. ASSUME at'[h] = at[h], UNCHANGED players PROVE Entering(h)'
    BY <1>1, EnteringFrame DEF players, Undisturbed, Parts, Entering
  <1>2. ASSUME at'[h].stage \notin {"enter", "session", "close"} PROVE Entering(h)'
    BY <1>2 DEF Entering
  <1>3. CASE Quiet
    BY <1>1, <1>3 DEF Quiet
  <1>4. CASE TakeList \/ Upload \/ Answer \/ Report \/ \E p \in Players : Plays(p)
    <2>1. UNCHANGED players /\ (at'[h] = at[h] \/ at'[h].stage \in {"idle", "next"})
      BY <1>0, <1>4, OutsideIs DEF Plays
    <2> QED
      BY <1>1, <1>2, <2>1
  <1>5. ASSUME NEW g \in Handlers, Picks(g) \/ Looks(g) PROVE Entering(h)'
    <2>1. UNCHANGED players
          /\ (at'[h] = at[h] \/ at'[h].stage \in {"idle", "next", "canonical", "promote", "merge", "existing"})
      BY <1>0, <1>5 DEF Picks, Looks, OthersStay, Turns, Falls
    <2> QED
      BY <1>1, <1>2, <2>1
  <1>6. ASSUME NEW g \in Handlers, Promotes(g) PROVE Entering(h)'
    <2>1. g = "log" /\ Holding("log") /\ Turns(g, "existing")
      BY <1>6, Promoted DEF Promotes, Holding
    <2>2. Is("list", "idle")
      BY <1>0, <2>1, Held
    <2>3. at'[h].stage \in {"existing", "idle"}
      BY <1>0, <2>1, <2>2 DEF Turns
    <2> QED
      BY <1>2, <2>3
  <1>7. ASSUME NEW g \in Handlers, Merges(g) PROVE Entering(h)'
    <2>1. /\ g \in {"log", "page"} /\ Is("list", "idle") /\ OthersStay(g)
          /\ at[g].p \in Players /\ at[g].row \in Rows /\ at[g].row = ByName(at[g].p)
      BY <1>7, Merged
    <2>2. CASE h = "list"
      BY <1>0, <1>2, <2>1, <2>2 DEF OthersStay
    <2>3. CASE h = "log" /\ g = "log"
      BY <1>2, <1>7, <2>3 DEF Merges, Turns
    <2>4. CASE h = "log" /\ g = "page"
      <3>1. at'["log"] = at["log"] /\ ByName(at[g].p) # None
        BY <1>0, <2>1, <2>4 DEF OthersStay
      <3>2. Is("log", "next") \/ Holding("log") \/ (Is("log", "session") /\ at["log"].row = ByName(at[g].p))
        BY <2>1, <3>1, Named
      <3>3. ~Is("log", "session")
        BY <1>0, <1>7, <2>1, <2>4, <3>2, MergeDooms DEF Holding
      <3> QED
        BY <1>2, <2>4, <3>1, <3>2, <3>3 DEF Holding
    <2> QED
      BY <2>1, <2>2, <2>3, <2>4
  <1>8. ASSUME NEW g \in {"log", "list"}, Finds(g) PROVE Entering(h)'
    <2>1. CASE g # h
      BY <1>0, <1>1, <1>8, <2>1 DEF Finds, Turns, Continues
    <2>2. CASE g = h
      <3>1. at[h] \in WorkSet /\ UNCHANGED players
        BY <1>0, <1>8, <2>2 DEF TypeOK, Finds
      <3>2. at[h].kind # "joined" => at[h].kind = "left"
        BY <3>1 DEF WorkSet
      <3>3. CASE Turns(h, "enter") /\ at[h].kind = "joined" /\ at'[h].on = (rowOf[Key(h)] \in online)
        <4>1. Key(h)' = Key(h) /\ at'[h].kind = "joined" /\ at'[h].stage = "enter"
          BY <3>3 DEF Key, Turns
        <4> QED
          BY <3>1, <3>3, <4>1 DEF Entering, players
      <3>4. CASE Turns(h, "close") /\ at[h].kind # "joined" /\ at'[h].row = rowOf[Key(h)]
        <4>1. Key(h)' = Key(h) /\ at'[h].kind = "left" /\ at'[h].stage = "close"
          BY <3>2, <3>4 DEF Key, Turns
        <4> QED
          BY <3>1, <3>4, <4>1 DEF Entering, players
      <3>5. CASE Continues(h)
        BY <1>2, <3>5 DEF Continues
      <3> QED
        BY <1>8, <2>2, <3>3, <3>4, <3>5 DEF Finds
    <2> QED
      BY <2>1, <2>2
  <1>9. ASSUME NEW row, Enters(h, row) PROVE Entering(h)'
    <2>1. CASE at[h].on
      BY <1>2, <1>9, <2>1 DEF Enters, Continues
    <2>2. CASE ~at[h].on
      <3>1. /\ Turns(h, "session") /\ at'[h].row = row
        BY <1>9, <2>2 DEF Enters
      <3>2. /\ at[h].kind = "joined" /\ row \in Rows /\ row \notin online
            /\ rowOf'[Key(h)] = row /\ row \in online' /\ open' = open /\ Is(h, "enter")
        BY <1>9, <2>2, Entered
      <3>3. ~Between(row)
        BY <3>2, OneSession DEF Between
      <3>4. open[row] = 0
        <4>1. ~(open[row] > 0)
          BY <3>2, <3>3 DEF Undisturbed, Parts, Balance
        <4>2. open[row] \in Nat
          BY <1>0, <3>2 DEF TypeOK
        <4> QED
          BY <4>1, <4>2
      <3>5. Key(h)' = Key(h) /\ at'[h].kind = "joined" /\ at'[h].stage = "session"
        BY <3>1, <3>2 DEF Turns, Key
      <3> QED
        BY <3>1, <3>2, <3>4, <3>5 DEF Entering
    <2> QED
      BY <2>1, <2>2
  <1>10. ASSUME Starts(h) PROVE Entering(h)'
    BY <1>2, <1>10 DEF Starts, Continues
  <1>11. ASSUME NEW g \in {"log", "list"}, g # h, Starts(g) \/ \E row : Enters(g, row)
         PROVE  Entering(h)'
    <2>0. at'[h] = at[h]
      BY <1>0, <1>11 DEF Starts, Enters, Turns, Continues
    <2>1. CASE h = "list"
      <3>1. g = "log" /\ at["log"].kind = "joined" /\ Working("log")
        BY <1>11, <2>1 DEF Starts, Enters, EnterRow, Working, Undisturbed, Parts, Entering
      <3>2. at["list"].stage = "idle"
        BY <3>1, JoinFree
      <3> QED
        BY <1>2, <2>0, <2>1, <3>2
    <2>2. CASE h = "log"
      <3>1. g = "list" /\ ~Is("list", "idle")
        BY <1>11, <2>2 DEF Starts, Enters, EnterRow
      <3>2. CASE at["log"].stage = "close"
        <4>1. at["log"].p # at["list"].p
          BY <1>11, <3>1, <3>2, ClosedIsAnother DEF Starts, Enters, EnterRow
        <4>2. Key("log") # Key("list")
          BY <4>1 DEF Key
        <4>3. Starts("list") => rowOf' = rowOf
          BY DEF Starts
        <4>4. ASSUME NEW row, Enters("list", row) PROVE rowOf'[Key("log")] = rowOf[Key("log")]
          BY <1>0, <4>2, <4>4 DEF Enters, EnterRow, TypeOK, Control, ControlOf, Working, Key, Keys, WorkSet
        <4> QED
          BY <1>11, <2>0, <2>2, <3>1, <3>2, <4>3, <4>4, EnteringFrame
      <3>3. CASE at["log"].stage \in {"enter", "session"}
        BY <3>1, <3>3, JoinFree DEF Undisturbed, Parts, Entering, Working
      <3> QED
        BY <1>2, <2>0, <2>2, <3>2, <3>3
    <2> QED
      BY <2>1, <2>2
  <1>12. CASE Leaves
    <2>1. /\ at["log"].stage = "close" /\ Continues("log") /\ rowOf' = rowOf
          /\ online' = online \ {at["log"].row} /\ open' = [open EXCEPT ![at["log"].row] = 0]
      BY <1>12 DEF Leaves, Closes
    <2>2. CASE h = "log"
      BY <1>2, <2>1, <2>2 DEF Continues
    <2>3. CASE h = "list"
      <3>1. at'["list"] = at["list"]
        BY <1>0, <2>1 DEF Continues
      <3>2. CASE at["list"].stage \in {"enter", "session"}
        <4>1. at["log"].row # rowOf[Key("list")]
          BY <2>1, <3>2, ClosedIsAnother
        <4>2. at["list"].stage = "session" =>
                at["list"].row = rowOf[Key("list")] /\ at["list"].row \in online
                /\ at["list"].row \in Rows
          BY <1>0, <2>3 DEF Entering, Control, ControlOf
        <4> QED
          BY <1>0, <2>1, <2>3, <3>1, <4>1, <4>2, EnteringFrame DEF TypeOK
      <3>3. at["list"].stage # "close"
        BY <1>0 DEF Control, ControlOf
      <3> QED
        BY <1>2, <2>3, <3>1, <3>2, <3>3
    <2> QED
      BY <2>2, <2>3
  <1>13. CASE Winds
    <2>1. UNCHANGED players /\ (at'[h] = at[h] \/ at'[h].stage \in {"missing", "idle"})
      BY <1>0, <1>13 DEF Winds, OthersStay
    <2> QED
      BY <1>1, <1>2, <2>1
  <1>14. CASE Drops
    <2>1. at["list"].stage = "missing" /\ at'["list"].stage = "missing" /\ rowOf' = rowOf
          /\ OthersStay("list")
      BY <1>14 DEF Drops, Closes
    <2>2. CASE h = "list"
      BY <1>2, <2>1, <2>2
    <2>3. CASE h = "log"
      <3>1. at'["log"] = at["log"]
        BY <1>0, <2>1 DEF OthersStay
      <3>2. at["log"].stage \notin {"enter", "session"}
        BY <2>1, JoinFree DEF Undisturbed, Parts, Entering, Working
      <3> QED
        BY <2>1, <2>3, <3>1, <3>2, EnteringFrame
    <2> QED
      BY <2>2, <2>3
  <1> QED
    BY <1>0, <1>3, <1>4, <1>5, <1>6, <1>7, <1>8, <1>9, <1>10, <1>11, <1>12, <1>13, <1>14, SmoothSteps

LEMMA BalanceStep ==
    ASSUME Undisturbed, Base', Smooth', [Next]_vars
    PROVE  Balance'
  <1> USE DEF Is
  <1>0. /\ TypeOK /\ Base /\ Control /\ RowsInv /\ Listed /\ "disturbed" \notin happened'
        /\ None \notin Rows /\ {"log", "list", "page"} \subseteq Handlers /\ Balance
    BY PeopleAssumption DEF Undisturbed, Base, Smooth, Handlers, PlayersAssumption, Parts
  <1>1. ASSUME NEW r \in Rows, Between(r)' \/ ~Between(r),
               r \in online' <=> r \in online, open'[r] = open[r]
        PROVE  Between(r)' \/ (r \in online' <=> open'[r] > 0)
    BY <1>0, <1>1 DEF Balance
  <1>2. ASSUME UNCHANGED <<online, open>>,
               \A g \in {"log", "list"} : at'[g] = at[g] \/ at[g].stage # "session"
        PROVE  Balance'
    <2>1. ASSUME NEW r \in Rows, Between(r) PROVE Between(r)'
      BY <1>2, <2>1 DEF Between
    <2> QED
      BY <1>1, <1>2, <2>1 DEF Balance
  <1>3. CASE Quiet
    BY <1>2, <1>3 DEF Quiet, players
  <1>4. CASE TakeList \/ Upload \/ Answer \/ Report \/ \E p \in Players : Plays(p)
    <2>1. UNCHANGED <<online, open>>
      BY <1>0, <1>4, OutsideIs DEF Plays, players
    <2>2. \A g \in {"log", "list"} : at'[g] = at[g] \/ at[g].stage # "session"
      BY <1>0, <1>4, OutsideIs DEF Plays, Listed
    <2> QED
      BY <1>2, <2>1, <2>2
  <1>5. ASSUME NEW g \in Handlers, Picks(g) \/ Looks(g) \/ Promotes(g) PROVE Balance'
    BY <1>0, <1>2, <1>5 DEF Picks, Looks, Promotes, OthersStay, Turns, Continues, players
  <1>6. ASSUME NEW g \in {"log", "list"}, Finds(g) PROVE Balance'
    BY <1>0, <1>2, <1>6 DEF Finds, Turns, Continues, players
  <1>7. CASE Winds
    BY <1>0, <1>2, <1>7 DEF Winds, OthersStay, players
  <1>8. ASSUME NEW h \in Handlers, Merges(h) PROVE Balance'
    <2>1. /\ OthersStay(h) /\ at[h].row \in Rows /\ at[h].into \in Rows
          /\ at[h].row # at[h].into /\ at[h].row \in online
          /\ online' = (online \cup {at[h].into}) \ {at[h].row}
          /\ open'[at[h].row] = 0
          /\ open'[at[h].into] = open[at[h].into] + open[at[h].row]
          /\ \A r \in Rows : r \notin {at[h].row, at[h].into} => open'[r] = open[r]
      BY <1>8, Merged
    <2>2. at[h].stage = "merge"
      BY <1>8 DEF Merges
    <2>3. ~Between(at[h].row)
      <3>1. ASSUME NEW g \in {"log", "list"}, Is(g, "session"), at[g].row = at[h].row PROVE FALSE
        BY <1>0, <1>8, <2>2, <3>1, MergeDooms
      <3> QED
        BY <3>1 DEF Between
    <2>4. open[at[h].row] > 0
      BY <2>1, <2>3 DEF Undisturbed, Parts, Balance
    <2>5. ASSUME NEW r \in Rows PROVE Between(r)' \/ (r \in online' <=> open'[r] > 0)
      <3>1. CASE r = at[h].row
        BY <2>1, <3>1
      <3>2. CASE r = at[h].into
        <4>1. open[at[h].into] \in Nat /\ open[at[h].row] \in Nat
          BY <1>0, <2>1 DEF TypeOK
        <4>2. open'[r] > 0
          BY <2>1, <2>4, <3>2, <4>1
        <4>3. r \in online'
          BY <2>1, <3>2
        <4> QED
          BY <4>2, <4>3
      <3>3. CASE r \notin {at[h].row, at[h].into}
        <4>1. Between(r) => Between(r)'
          BY <1>0, <2>1, <2>2 DEF Between, OthersStay
        <4>2. open'[r] = open[r] /\ (r \in online' <=> r \in online)
          BY <2>1, <3>3
        <4> QED
          BY <1>1, <4>1, <4>2
      <3> QED
        BY <3>1, <3>2, <3>3
    <2> QED
      BY <2>5 DEF Balance
  <1>9. ASSUME NEW h \in {"log", "list"}, NEW row, Enters(h, row) PROVE Balance'
    <2>1. /\ at[h].stage = "enter" /\ OthersStay(h) /\ row \in Rows
          /\ at[h].on => row \in online
          /\ online' = online \cup {row} /\ open' = open
      BY <1>9, Entered
    <2>2. ~at[h].on => at'[h].stage = "session" /\ at'[h].row = row
      BY <1>9 DEF Enters, Turns
    <2>3. ASSUME NEW r \in Rows, Between(r) PROVE Between(r)'
      BY <1>0, <2>1, <2>3 DEF Between, OthersStay
    <2>4. ~at[h].on => Between(row)'
      BY <2>2 DEF Between
    <2>5. ASSUME NEW r \in Rows PROVE Between(r)' \/ (r \in online' <=> open'[r] > 0)
      BY <1>1, <2>1, <2>3, <2>4
    <2> QED
      BY <2>5 DEF Balance
  <1>10. ASSUME NEW h \in {"log", "list"}, Starts(h) PROVE Balance'
    <2>1. /\ at[h].stage = "session" /\ OthersStay(h) /\ online' = online
          /\ open' = [open EXCEPT ![at[h].row] = @ + 1]
      BY <1>10 DEF Starts, Continues, OthersStay
    <2>2. at[h].row \in Rows /\ at[h].row \in online
      BY <1>0, <2>1 DEF Control, ControlOf, Undisturbed, Parts, Entering
    <2>3. ASSUME NEW r \in Rows, r # at[h].row, Between(r) PROVE Between(r)'
      BY <1>0, <2>1, <2>3 DEF Between, OthersStay
    <2>4. open'[at[h].row] > 0 /\ \A r \in Rows : r # at[h].row => open'[r] = open[r]
      BY <1>0, <2>1, <2>2 DEF TypeOK
    <2>5. ASSUME NEW r \in Rows PROVE Between(r)' \/ (r \in online' <=> open'[r] > 0)
      BY <1>1, <2>1, <2>2, <2>3, <2>4
    <2> QED
      BY <2>5 DEF Balance
  <1>11. ASSUME NEW row, Closes(row),
                \A g \in {"log", "list"} : at'[g] = at[g] \/ at[g].stage # "session"
         PROVE  Balance'
    <2>1. ASSUME NEW r \in Rows, Between(r) PROVE Between(r)'
      BY <1>11, <2>1 DEF Between
    <2>2. ASSUME NEW r \in Rows PROVE Between(r)' \/ (r \in online' <=> open'[r] > 0)
      <3>1. CASE r = row
        <4>1. r \notin online' /\ open'[r] = 0
          BY <1>0, <1>11, <3>1 DEF Closes, TypeOK
        <4> QED
          BY <4>1
      <3>2. CASE r # row
        <4>1. (r \in online' <=> r \in online) /\ open'[r] = open[r]
          BY <1>0, <1>11, <3>2 DEF Closes, TypeOK
        <4> QED
          BY <1>1, <2>1, <4>1
      <3> QED
        BY <3>1, <3>2
    <2> QED
      BY <2>2 DEF Balance
  <1>12. CASE Leaves
    BY <1>0, <1>11, <1>12 DEF Leaves, Continues
  <1>13. CASE Drops
    BY <1>0, <1>11, <1>13 DEF Drops, OthersStay
  <1> QED
    BY <1>0, <1>3, <1>4, <1>5, <1>6, <1>7, <1>8, <1>9, <1>10, <1>12, <1>13, SmoothSteps

\* While no upload was repeated.
LEMMA Unrepeated ==
    ASSUME Undisturbed, Base', Smooth', [Next]_vars, "replay" \notin happened'
    PROVE  /\ "replay" \notin happened
           /\ Acknowledged /\ AtMostOne /\ NotTwice /\ AfterLines
           /\ Answer => acked' = batch
  <1>0. TypeOK /\ Base /\ "disturbed" \notin happened'
    BY DEF Undisturbed, Base, Smooth
  <1>1. ASSUME NEW h \in Handlers, Picks(h) \/ Looks(h) \/ Promotes(h) \/ Merges(h)
        PROVE  happened' = happened
    BY <1>1 DEF Picks, Looks, Promotes, Merges, Same
  <1>2. ASSUME NEW h \in {"log", "list"}, Finds(h) \/ Starts(h) \/ \E row : Enters(h, row)
        PROVE  happened' = happened
    BY <1>2 DEF Finds, Starts, Enters, Same
  <1>3. Quiet \/ Leaves \/ Drops \/ Winds \/ (\E p \in Players : Plays(p)) => happened' = happened
    BY DEF Quiet, Leaves, Drops, Winds, Same, Plays
  <1>4. TakeList \/ Report \/ Upload \/ Answer => happened \subseteq happened' \/ UNCHANGED happened
    BY <1>0, OutsideIs
  <1>5. Answer => acked' = batch
    BY <1>0, OutsideIs
  <1>6. "replay" \notin happened
    BY <1>0, <1>1, <1>2, <1>3, <1>4, SmoothSteps
  <1> QED
    BY <1>5, <1>6 DEF Undisturbed, Parts, Once

LEMMA AcknowledgedStep ==
    ASSUME Undisturbed, Base', Smooth', [Next]_vars, "replay" \notin happened'
    PROVE  Acknowledged'
  <1> USE DEF Is
  <1>0. TypeOK /\ Base /\ "disturbed" \notin happened' /\ {"log", "list", "page"} \subseteq Handlers
    BY DEF Undisturbed, Base, Smooth, Handlers
  <1>1. ASSUME at'["log"] = at["log"] \/ at'["log"].stage # "idle", UNCHANGED <<acked, batch>>
        PROVE  Acknowledged'
    BY <1>1, Unrepeated DEF Acknowledged
  <1>2. CASE Quiet \/ Winds \/ Drops \/ Leaves \/ \E p \in Players : Plays(p)
    BY <1>0, <1>1, <1>2 DEF Quiet, Winds, Drops, Leaves, Plays, Same, OthersStay, Continues, agent
  <1>3. CASE TakeList \/ Report
    BY <1>0, <1>1, <1>3, OutsideIs
  <1>4. CASE Upload
    BY <1>0, <1>4, OutsideIs DEF Acknowledged
  <1>5. CASE Answer
    BY <1>0, <1>5, OutsideIs, Unrepeated DEF Acknowledged
  <1>6. ASSUME NEW h \in Handlers, Picks(h) PROVE Acknowledged'
    <2>1. at'["log"] = at["log"] \/ at'["log"].stage # "idle"
      BY <1>0, <1>6 DEF Picks, OthersStay, Falls
    <2> QED
      BY <1>1, <1>6, <2>1 DEF Picks, Same
  <1>7. ASSUME NEW h \in Handlers, Looks(h) \/ Promotes(h) \/ Merges(h) PROVE Acknowledged'
    BY <1>0, <1>1, <1>7 DEF Looks, Promotes, Merges, Same, Turns, Continues
  <1>8. ASSUME NEW h \in {"log", "list"}, Finds(h) \/ Starts(h) \/ \E row : Enters(h, row)
        PROVE  Acknowledged'
    BY <1>0, <1>1, <1>8 DEF Finds, Starts, Enters, Same, Turns, Continues
  <1> QED
    BY <1>0, <1>2, <1>3, <1>4, <1>5, <1>6, <1>7, <1>8, SmoothSteps

LEMMA AtMostOneStep ==
    ASSUME Undisturbed, Base', Smooth', [Next]_vars, "replay" \notin happened'
    PROVE  AtMostOne'
  <1>0. /\ TypeOK /\ Base /\ Control /\ "disturbed" \notin happened'
        /\ {"log", "list", "page"} \subseteq Handlers /\ None \notin Rows
    BY PeopleAssumption DEF Undisturbed, Base, Smooth, Handlers, PlayersAssumption
  <1>1. AtMostOne /\ NotTwice
    BY Unrepeated
  <1>2. ASSUME \A r \in Rows : open'[r] \in {0, open[r]} PROVE AtMostOne'
    BY <1>1, <1>2 DEF AtMostOne
  <1>3. open' = open => AtMostOne'
    BY <1>2
  <1>4. Quiet \/ Winds \/ TakeList \/ Upload \/ Answer \/ Report \/ (\E p \in Players : Plays(p))
        => open' = open
    BY <1>0, OutsideIs DEF Quiet, Winds, Plays, players
  <1>5. ASSUME NEW row, Closes(row) PROVE AtMostOne'
    BY <1>0, <1>2, <1>5 DEF Closes, TypeOK
  <1>6. ASSUME NEW h \in Handlers, Picks(h) \/ Looks(h) \/ Promotes(h) PROVE open' = open
    BY <1>6 DEF Picks, Looks, Promotes, players
  <1>7. ASSUME NEW h \in {"log", "list"}, Finds(h) \/ \E row : Enters(h, row) PROVE open' = open
    BY <1>7 DEF Finds, Enters, EnterRow, players
  <1>8. ASSUME NEW h \in {"log", "list"}, Starts(h) PROVE AtMostOne'
    <2>1. Is(h, "session") /\ open' = [open EXCEPT ![at[h].row] = @ + 1]
      BY <1>8 DEF Starts
    <2>2. at[h].row \in Rows /\ open[at[h].row] = 0
      BY <1>0, <2>1 DEF Control, ControlOf, Undisturbed, Parts, Entering, Is
    <2>3. open'[at[h].row] = 1 /\ \A r \in Rows : r # at[h].row => open'[r] = open[r]
      BY <1>0, <2>1, <2>2 DEF TypeOK
    <2> QED
      BY <1>1, <2>3 DEF AtMostOne
  <1>9. ASSUME NEW h \in Handlers, Merges(h) PROVE AtMostOne'
    <2>1. /\ at[h].row \in Rows /\ at[h].into \in Rows /\ Is("list", "idle") /\ at[h].p \in Players
          /\ at[h].row = ByName(at[h].p) /\ at[h].into = ById(at[h].p)
          /\ open'[at[h].row] = 0
          /\ open'[at[h].into] = open[at[h].into] + open[at[h].row]
          /\ \A r \in Rows : r \notin {at[h].row, at[h].into} => open'[r] = open[r]
      BY <1>9, Merged
    <2>2. at[h].into \notin online
      BY <1>0, <1>1, <2>1 DEF NotTwice
    <2>3. ~Between(at[h].into)
      BY <2>2 DEF Between, Undisturbed, Parts, Entering
    <2>4. open[at[h].into] = 0
      <3>1. ~(open[at[h].into] > 0)
        BY <2>1, <2>2, <2>3 DEF Undisturbed, Parts, Balance
      <3>2. open[at[h].into] \in Nat
        BY <1>0, <2>1 DEF TypeOK
      <3> QED
        BY <3>1, <3>2
    <2>5. open[at[h].row] \in Nat
      BY <1>0, <2>1 DEF TypeOK
    <2> QED
      BY <1>1, <2>1, <2>4, <2>5 DEF AtMostOne
  <1>10. Leaves \/ Drops => AtMostOne'
    BY <1>5 DEF Leaves, Drops
  <1> QED
    BY <1>0, <1>3, <1>4, <1>6, <1>7, <1>8, <1>9, <1>10, SmoothSteps

-----------------------------------------------------------------------------
(* The lines that were handled                                             *)

\* The line in hand is the first one that is not handled.
LEMMA ShowsLine ==
    ASSUME Undisturbed, Working("log")
    PROVE  \E k \in acked..batch :
             /\ Upto(k) /\ k > acked /\ k \in 1..Len(log) /\ k - 1 \in Nat
             /\ log[k] = [p |-> at["log"].p, by |-> at["log"].by, kind |-> at["log"].kind]
             /\ \A p \in Players : Shows(p) <=> Present(p, k - 1)
  <1>0. TypeOK /\ Base
    BY DEF Undisturbed, Base
  <1>1. PICK k \in acked..batch :
          /\ Upto(k) /\ k > acked /\ k \in 1..Len(log)
          /\ log[k] = [p |-> at["log"].p, by |-> at["log"].by, kind |-> at["log"].kind]
    BY <1>0, LineInHand
  <1>2. DoneLine(k) = k - 1 /\ ~Is("log", "idle") /\ k - 1 \in Nat
    BY <1>1 DEF DoneLine, Working, Holding, Is
  <1>3. ASSUME NEW j \in acked..batch, Upto(j) PROVE j = k
    BY <1>0, <1>1, <1>3, UptoIs
  <1>4. ASSUME NEW p \in Players PROVE Shows(p) <=> Present(p, k - 1)
    BY <1>1, <1>2, <1>3 DEF Shows
  <1> QED
    BY <1>1, <1>2, <1>4

LEMMA ShowsJoined ==
    ASSUME Undisturbed, Working("log"), at["log"].p \in Players,
           at["log"].by = "id", at["log"].kind = "joined"
    PROVE  Shows(at["log"].p)
  BY ShowsLine DEF Undisturbed, Base, LogInv

LEMMA ShowsNot ==
    ASSUME Undisturbed, Working("log"), at["log"].p \in Players, at["log"].by = "name"
    PROVE  ~Shows(at["log"].p)
  BY ShowsLine DEF Undisturbed, Base, LogInv

LEMMA ShowsFrame ==
    ASSUME Undisturbed, \A i \in 1..Len(log) : log'[i] = log[i], UNCHANGED <<acked, batch>>,
           \/ at'["log"] = at["log"]
           \/ Working("log") /\ Working("log")' /\ at'["log"].todo = at["log"].todo,
           NEW p \in Players, Shows(p)
    PROVE  Shows(p)'
  <1>0. TypeOK /\ acked \in Nat /\ batch \in Nat /\ batch <= Len(log) /\ acked <= Len(log) /\ Len(log) \in Nat
    BY DEF Undisturbed, Base, TypeOK
  <1>1. ASSUME NEW k \in Nat, k <= Len(log), Present(p, k) PROVE Present(p, k)'
    BY <1>0, <1>1, PresentSame DEF Present
  <1>2. /\ Is("log", "idle")' <=> Is("log", "idle")
        /\ Working("log")' <=> Working("log")
        /\ at'["log"].todo = at["log"].todo
    BY DEF Working, Holding, Is
  <1>3. CASE Is("log", "idle")
    BY <1>0, <1>1, <1>2, <1>3 DEF Shows
  <1>4. CASE ~Is("log", "idle")
    <2> SUFFICES ASSUME NEW k \in acked..batch, Upto(k) PROVE Present(p, DoneLine(k))'
      BY <1>2, <1>4 DEF Shows, Upto
    <2>1. Present(p, DoneLine(k)) /\ DoneLine(k)' = DoneLine(k)
      BY <1>2, <1>4 DEF Shows, DoneLine
    <2>2. DoneLine(k) \in Nat /\ DoneLine(k) <= Len(log)
      <3>1. Working("log") => k > acked
        <4>1. ASSUME Working("log") PROVE k > acked
          <5>1. PICK j \in acked..batch : Upto(j) /\ j > acked
            BY <4>1, LineInHand DEF Undisturbed
          <5> QED
            BY <1>0, <5>1, UptoIs
        <4> QED
          BY <4>1
      <3> QED
        BY <1>0, <3>1 DEF DoneLine
    <2> QED
      BY <1>1, <2>1, <2>2 DEF Present
  <1> QED
    BY <1>3, <1>4

\* The line in hand is handled.
LEMMA ShowsDone ==
    ASSUME Undisturbed, Working("log"), UNCHANGED <<log, acked, batch>>,
           Is("log", "next")', at'["log"].todo = at["log"].todo,
           NEW p \in Players, Shows(p), at["log"].p # p \/ at["log"].kind = "joined"
    PROVE  Shows(p)'
  <1>1. PICK k \in acked..batch :
             /\ Upto(k) /\ k \in 1..Len(log) /\ k - 1 \in Nat
             /\ log[k] = [p |-> at["log"].p, by |-> at["log"].by, kind |-> at["log"].kind]
             /\ Shows(p) <=> Present(p, k - 1)
    BY ShowsLine
  <1>2. Present(p, k)
    <2>1. k = (k - 1) + 1
      BY <1>1
    <2> QED
      BY <1>1, <2>1, PresentNext DEF Present
  <1>3. ASSUME NEW j \in acked..batch, Upto(j)' PROVE j = k /\ DoneLine(j)' = k
    <2>1. Upto(j)
      BY <1>3 DEF Upto
    <2>2. j = k
      BY <1>1, <2>1, UptoIs DEF Undisturbed, Base
    <2> QED
      BY <2>2 DEF DoneLine, Working, Holding, Is
  <1>4. ~Is("log", "idle")'
    BY DEF Is
  <1>5. ASSUME NEW j \in acked..batch, Upto(j)' PROVE Present(p, DoneLine(j))'
    BY <1>2, <1>3, <1>5 DEF Present
  <1> QED
    BY <1>4, <1>5 DEF Shows

LEMMA NotTwiceStep ==
    ASSUME Undisturbed, Base', Smooth', [Next]_vars, "replay" \notin happened'
    PROVE  NotTwice'
  <1> USE DEF Is
  <1>0. /\ TypeOK /\ Base /\ Control /\ RowsInv /\ "disturbed" \notin happened'
        /\ {"log", "list", "page"} \subseteq Handlers /\ None \notin Rows
    BY PeopleAssumption DEF Undisturbed, Base, Smooth, Handlers, PlayersAssumption
  <1>1. NotTwice /\ AfterLines
    BY Unrepeated
  <1>2. ASSUME rowOf' = rowOf, online' \subseteq online PROVE NotTwice'
    BY <1>1, <1>2 DEF NotTwice, ByName, ById
  <1>3. Quiet \/ Winds \/ TakeList \/ Upload \/ Answer \/ Report \/ (\E p \in Players : Plays(p))
        => rowOf' = rowOf /\ online' = online
    BY <1>0, OutsideIs DEF Quiet, Winds, Plays, players
  <1>4. Leaves \/ Drops => rowOf' = rowOf /\ online' \subseteq online
    BY DEF Leaves, Drops, Closes
  <1>5. ASSUME NEW h \in Handlers, Picks(h) \/ Looks(h) PROVE rowOf' = rowOf /\ online' = online
    BY <1>5 DEF Picks, Looks, players
  <1>6. ASSUME NEW h \in {"log", "list"}, Finds(h) \/ Starts(h) PROVE rowOf' = rowOf /\ online' = online
    BY <1>6 DEF Finds, Starts, players
  <1>7. ASSUME NEW h \in Handlers, Promotes(h) PROVE NotTwice'
    <2>1. \A p \in Players :
            /\ ByName(p)' = (IF p = at[h].p THEN None ELSE ByName(p))
            /\ ById(p)' = (IF p = at[h].p THEN at[h].row ELSE ById(p))
      BY <1>7, Promoted
    <2>2. online' = online
      BY <1>7 DEF Promotes
    <2> QED
      BY <1>1, <2>1, <2>2 DEF NotTwice
  <1>8. ASSUME NEW h \in Handlers, Merges(h) PROVE NotTwice'
    <2>1. /\ at[h].p \in Players /\ at[h].into = ById(at[h].p) /\ at[h].into \in Rows
          /\ \A p \in Players :
                /\ ByName(p)' = (IF p = at[h].p THEN None ELSE ByName(p))
                /\ ById(p)' = ById(p)
          /\ online' \subseteq online \cup {at[h].into}
      BY <1>8, Merged
    <2>2. ASSUME NEW p \in Players, p # at[h].p PROVE ById(p) # at[h].into
      <3>1. <<p, "id">> \in Keys /\ <<at[h].p, "id">> \in Keys
        BY <2>1 DEF Keys
      <3> QED
        BY <1>0, <2>1, <2>2, <3>1 DEF RowsInv, ById
    <2> QED
      BY <1>1, <2>1, <2>2 DEF NotTwice
  <1>9. ASSUME NEW row, Enters("list", row) PROVE NotTwice'
    <2>1. /\ at["list"].stage = "enter" /\ \A p \in Players : ByName(p)' = ByName(p)
      BY <1>9, Entered
    <2>2. \A p \in Players : ByName(p) = None
      BY <2>1, NamesFree
    <2> QED
      BY <2>1, <2>2 DEF NotTwice
  <1>10. ASSUME NEW row, Enters("log", row) PROVE NotTwice'
    <2> DEFINE q == at["log"].p
    <2>1. /\ at["log"].stage = "enter" /\ q \in Players /\ at["log"].by \in {"id", "name"}
          /\ rowOf[Key("log")] = None => ~Stored(row)
          /\ \A p \in Players :
               /\ ById(p)' = (IF q = p /\ at["log"].by = "id" THEN row ELSE ById(p))
               /\ ByName(p)' = (IF q = p /\ at["log"].by = "name" THEN row ELSE ByName(p))
          /\ online' = online \cup {row}
      BY <1>10, Entered
    <2>2. \A p \in Players : ByName(p) = None
      BY <2>1, NamesFree
    <2>3. CASE at["log"].by = "id"
      BY <2>1, <2>2, <2>3 DEF NotTwice
    <2>4. CASE at["log"].by = "name"
      <3>1. ById(q) \notin online
        BY <1>1, <2>1, <2>4, ShowsNot DEF AfterLines, Working
      <3>2. ById(q) # row
        <4>1. rowOf[Key("log")] = None
          BY <2>1, <2>2, <2>4 DEF Key, ByName
        <4>2. <<q, "id">> \in Keys
          BY <2>1 DEF Keys
        <4> QED
          BY <2>1, <4>1, <4>2 DEF Stored, ById
      <3> QED
        BY <2>1, <2>2, <2>4, <3>1, <3>2 DEF NotTwice
    <2> QED
      BY <2>1, <2>3, <2>4
  <1> QED
    BY <1>0, <1>2, <1>3, <1>4, <1>5, <1>6, <1>7, <1>8, <1>9, <1>10, SmoothSteps

LEMMA AfterLinesStep ==
    ASSUME Undisturbed, Base', Smooth', [Next]_vars, "replay" \notin happened'
    PROVE  AfterLines'
  <1> USE DEF Is
  <1>0. /\ TypeOK /\ Base /\ Control /\ RowsInv /\ "disturbed" \notin happened'
        /\ {"log", "list", "page"} \subseteq Handlers /\ None \notin Rows
    BY PeopleAssumption DEF Undisturbed, Base, Smooth, Handlers, PlayersAssumption
  <1>1. /\ AfterLines /\ (Answer => acked' = batch)
        /\ \A i \in 1..Len(log) : log'[i] = log[i]
    BY Unrepeated, Unmoved
  <1>2. ASSUME UNCHANGED <<acked, batch>>,
               \/ at'["log"] = at["log"]
               \/ Working("log") /\ Working("log")' /\ at'["log"].todo = at["log"].todo,
               \A p \in Players : ById(p)' \in online' => Shows(p)
        PROVE  AfterLines'
    BY <1>1, <1>2, ShowsFrame DEF AfterLines
  <1>3. ASSUME Working("log"), Same, Is("log", "next")', at'["log"].todo = at["log"].todo,
               \A p \in Players : ById(p)' \in online' =>
                                    Shows(p) /\ (at["log"].p # p \/ at["log"].kind = "joined")
        PROVE  AfterLines'
    BY <1>3, ShowsDone DEF AfterLines, Same
  <1>4. ASSUME rowOf' = rowOf, online' \subseteq online
        PROVE  \A p \in Players : ById(p)' \in online' => Shows(p)
    BY <1>1, <1>4 DEF AfterLines, ById
  <1>5. CASE Quiet \/ Winds \/ Drops \/ TakeList \/ Report \/ \E p \in Players : Plays(p)
    <2>1. UNCHANGED <<acked, batch>> /\ at'["log"] = at["log"]
      BY <1>0, <1>5, OutsideIs DEF Quiet, Winds, Drops, Plays, Same, OthersStay, agent
    <2>2. rowOf' = rowOf /\ online' \subseteq online
      BY <1>0, <1>5, OutsideIs DEF Quiet, Winds, Drops, Plays, players, Closes
    <2> QED
      BY <1>2, <1>4, <2>1, <2>2
  <1>6. CASE Upload
    <2>1. /\ at["log"].stage = "idle" /\ acked' = acked /\ log' = log /\ UNCHANGED players
          /\ at'["log"].stage = "next" /\ at'["log"].todo = (acked + 1)..batch'
          /\ acked < batch'
      BY <1>0, <1>6, OutsideIs DEF game
    <2>2. acked \in Nat /\ batch' \in Nat
      BY <2>1 DEF Base, TypeOK
    <2>3. ASSUME NEW k \in acked'..batch', Upto(k)' PROVE k = acked /\ DoneLine(k)' = acked
      <3>1. (k + 1)..batch' = (acked + 1)..batch' /\ k \in acked..batch'
        BY <2>1, <2>3 DEF Upto
      <3>2. k = acked
        <4>1. acked + 1 \in (acked + 1)..batch'
          BY <2>1, <2>2
        <4>2. acked + 1 \in (k + 1)..batch'
          BY <3>1, <4>1
        <4> QED
          BY <2>2, <3>1, <4>2
      <3> QED
        BY <2>1, <3>2 DEF DoneLine, Working, Holding
    <2>4. ASSUME NEW p \in Players, ById(p)' \in online' PROVE Shows(p)'
      <3>1. Present(p, acked)
        BY <1>1, <2>1, <2>4 DEF AfterLines, Shows, ById, players
      <3> QED
        BY <2>1, <2>3, <3>1 DEF Shows, Present
    <2> QED
      BY <2>4 DEF AfterLines
  <1>7. CASE Answer
    <2>1. /\ at["log"].stage = "next" /\ at["log"].todo = {} /\ acked' = batch /\ log' = log
          /\ UNCHANGED players /\ at'["log"].stage = "idle"
      BY <1>0, <1>1, <1>7, OutsideIs DEF game
    <2>2. PICK k \in acked..batch : Upto(k)
      BY <1>0, <2>1 DEF Base, LogTurn
    <2>3. acked \in Nat /\ batch \in Nat
      BY <1>0 DEF TypeOK
    <2>4. batch \in acked..batch /\ Upto(batch)
      <3>1. (batch + 1)..batch = {}
        BY <2>3
      <3> QED
        BY <2>1, <2>2, <2>3, <3>1 DEF Upto
    <2>5. DoneLine(batch) = batch
      BY <2>1 DEF DoneLine, Working, Holding
    <2>6. ASSUME NEW p \in Players, ById(p)' \in online' PROVE Shows(p)'
      <3>1. Present(p, batch)
        BY <1>1, <2>1, <2>4, <2>5, <2>6 DEF AfterLines, Shows, ById, players
      <3> QED
        BY <2>1, <3>1 DEF Shows, Present
    <2> QED
      BY <2>6 DEF AfterLines
  <1>8. ASSUME NEW h \in Handlers, Picks(h) \/ Looks(h), h # "log" \/ Looks(h) PROVE AfterLines'
    <2>1. UNCHANGED <<acked, batch>> /\ rowOf' = rowOf /\ online' = online
      BY <1>8 DEF Picks, Looks, Same, players
    <2>2. \/ at'["log"] = at["log"]
          \/ Working("log") /\ Working("log")' /\ at'["log"].todo = at["log"].todo
      BY <1>0, <1>8 DEF Picks, Looks, OthersStay, Turns, Working, Holding
    <2> QED
      BY <1>2, <1>4, <2>1, <2>2
  <1>9. CASE Picks("log")
    <2>1. PICK x \in at["log"].todo : Falls("log", x)
      BY <1>9 DEF Picks
    <2>2. Same /\ UNCHANGED players /\ at["log"].stage = "next"
      BY <1>9 DEF Picks
    <2>3. PICK k \in acked..batch : Upto(k) /\ at["log"].todo \ {x} = (k + 2)..batch /\ k < batch
      BY <1>0, <2>1, <2>2, ItemIs DEF Falls
    <2>4. /\ at'["log"].todo = (k + 2)..batch
          /\ at'["log"].stage \in {"canonical", "existing"}
      BY <2>1, <2>3 DEF Falls
    <2>5. acked \in Nat /\ batch \in Nat /\ k \in Nat
      BY <1>0, <2>3 DEF TypeOK
    <2>6. ASSUME NEW j \in acked..batch, Upto(j)' PROVE DoneLine(j)' = k
      <3>1. Upto(k + 1)' /\ k + 1 \in acked'..batch' /\ j \in acked'..batch'
        <4>1. (k + 1) + 1 = k + 2 /\ k + 1 \in acked..batch
          BY <2>3, <2>5
        <4> QED
          BY <2>2, <2>4, <4>1 DEF Upto, Same
      <3>2. j = k + 1
        BY <2>6, <3>1, <2>2, <2>4, <2>5 DEF Upto, Same
      <3> QED
        BY <2>4, <2>5, <3>2 DEF DoneLine, Working, Holding
    <2>7. DoneLine(k) = k
      BY <2>2 DEF DoneLine, Working, Holding
    <2>8. ASSUME NEW p \in Players, ById(p)' \in online' PROVE Shows(p)'
      <3>1. Present(p, k)
        BY <1>1, <2>2, <2>3, <2>7, <2>8 DEF AfterLines, Shows, ById, players
      <3> QED
        BY <2>2, <2>4, <2>6, <3>1 DEF Shows, Present, Same
    <2> QED
      BY <2>8 DEF AfterLines
  <1>10. ASSUME NEW h \in Handlers, Promotes(h) PROVE AfterLines'
    <2>1. /\ h = "log" /\ Turns(h, "existing") /\ online' = online /\ at[h].p \in Players
          /\ \A p \in Players : ById(p)' = (IF p = at[h].p THEN at[h].row ELSE ById(p))
      BY <1>10, Promoted
    <2>2. Holding(h) /\ Working(h) /\ Same
      BY <1>10 DEF Promotes, Working, Holding
    <2>3. Shows(at[h].p)
      BY <1>0, <2>1, <2>2, Held, ShowsJoined
    <2>4. Working("log")' /\ at'["log"].todo = at["log"].todo
      BY <2>1 DEF Turns, Working
    <2> QED
      BY <1>1, <1>2, <2>1, <2>2, <2>3, <2>4 DEF AfterLines, Same
  <1>11. ASSUME NEW h \in Handlers, Merges(h) PROVE AfterLines'
    <2>1. /\ h \in {"log", "page"} /\ OthersStay(h) /\ at[h].p \in Players
          /\ at[h].row = ByName(at[h].p) /\ at[h].row \in Rows
          /\ at[h].into = ById(at[h].p) /\ at[h].into \in Rows
          /\ \A p \in Players : ById(p)' = ById(p)
          /\ online' \subseteq online \cup {at[h].into}
      BY <1>11, Merged
    <2>2. Holding(h) /\ Working(h) /\ Same /\ at[h].stage = "merge"
      BY <1>11 DEF Merges, Working, Holding
    <2>3. Shows(at[h].p)
      <3>1. CASE h = "log"
        BY <1>0, <2>1, <2>2, <3>1, Held, ShowsJoined
      <3>2. CASE h = "page"
        <4>1. ByName(at[h].p) # None
          BY <1>0, <2>1
        <4>2. ~(Is("log", "session") /\ at["log"].row = at[h].row)
          BY <1>0, <1>11, <3>2, MergeDooms
        <4>3. ~(Holding("log") /\ at["log"].row = at[h].row)
          BY <1>0, <1>11, <3>2, MergeDooms
        <4>4. PICK k \in acked..batch :
                /\ Upto(k) /\ k < batch /\ at["log"].stage = "next"
                /\ log[k + 1] = [p |-> at[h].p, by |-> "id", kind |-> "joined"]
          BY <2>1, <4>1, <4>2, <4>3, Named
        <4>5. k + 1 \in 1..Len(log) /\ k + 1 - 1 = k
          BY <1>0, <4>4 DEF TypeOK
        <4>6. Present(at[h].p, k)
          BY <1>0, <4>4, <4>5 DEF Base, LogInv
        <4>7. \A j \in acked..batch : Upto(j) => j = k /\ DoneLine(j) = k
          BY <1>0, <4>4, UptoIs DEF DoneLine, Working, Holding
        <4> QED
          BY <4>4, <4>6, <4>7 DEF Shows
      <3> QED
        BY <2>1, <3>1, <3>2
    <2>4. ASSUME NEW p \in Players, ById(p)' \in online' PROVE Shows(p)
      <3>1. CASE ById(p) = at[h].into
        <4>1. <<p, "id">> \in Keys /\ <<at[h].p, "id">> \in Keys
          BY <2>1 DEF Keys
        <4>2. p = at[h].p
          BY <1>0, <2>1, <3>1, <4>1 DEF RowsInv, ById
        <4> QED
          BY <2>3, <4>2
      <3>2. CASE ById(p) # at[h].into
        BY <1>1, <2>1, <2>4, <3>2 DEF AfterLines
      <3> QED
        BY <3>1, <3>2
    <2>5. \/ at'["log"] = at["log"]
          \/ Working("log") /\ Working("log")' /\ at'["log"].todo = at["log"].todo
      BY <1>0, <1>11, <2>1, <2>2 DEF Merges, OthersStay, Turns, Working
    <2> QED
      BY <1>2, <2>2, <2>4, <2>5 DEF Same
  <1>12. CASE Finds("list") \/ Starts("list")
    <2>1. /\ rowOf' = rowOf /\ online' = online /\ at'["log"] = at["log"]
          /\ UNCHANGED <<acked, batch>>
      BY <1>0, <1>12 DEF Finds, Starts, Same, players, Turns, Continues
    <2> QED
      BY <1>2, <1>4, <2>1
  <1>13. CASE Starts("log")
    <2>1. /\ rowOf' = rowOf /\ online' = online /\ Same /\ at["log"].stage = "session"
          /\ Continues("log")
      BY <1>13 DEF Starts
    <2>2. at["log"].kind = "joined"
      BY <2>1 DEF Undisturbed, Parts, Entering
    <2> QED
      BY <1>3, <1>4, <2>1, <2>2 DEF Continues, Working
  <1>14. ASSUME Working("log"), at["log"].p \in Players, at["log"].by \in {"id", "name"},
                rowOf' = rowOf, online' \subseteq online, rowOf[Key("log")] \notin online',
                NEW p \in Players, ById(p)' \in online'
         PROVE  Shows(p) /\ at["log"].p # p
    <2>1. Shows(p)
      BY <1>4, <1>14
    <2>2. CASE at["log"].by = "id"
      BY <1>14, <2>1, <2>2 DEF Key, ById
    <2>3. CASE at["log"].by = "name"
      BY <1>14, <2>1, <2>3, ShowsNot
    <2> QED
      BY <1>14, <2>1, <2>2, <2>3
  <1>15. Working("log") => at["log"].p \in Players /\ at["log"].by \in {"id", "name"}
    BY <1>0 DEF Control, ControlOf, TypeOK, WorkSet
  <1>16. CASE Finds("log")
    <2>1. Same /\ rowOf' = rowOf /\ online' = online /\ Working("log")
      BY <1>16 DEF Finds, players, Working
    <2>2. CASE Turns("log", "enter") \/ Turns("log", "close")
      BY <1>2, <1>4, <2>1, <2>2 DEF Turns, Working, Same
    <2>3. CASE Continues("log") /\ rowOf[Key("log")] \notin online
      BY <1>3, <1>14, <1>15, <2>1, <2>3 DEF Continues
    <2> QED
      BY <1>16, <2>2, <2>3 DEF Finds
  <1>17. CASE Leaves
    <2>1. /\ Same /\ rowOf' = rowOf /\ online' = online \ {at["log"].row} /\ Working("log")
          /\ Continues("log") /\ at["log"].stage = "close"
      BY <1>17 DEF Leaves, Closes, Working
    <2>2. rowOf[Key("log")] \notin online'
      BY <2>1 DEF Undisturbed, Parts, Entering
    <2> QED
      BY <1>3, <1>14, <1>15, <2>1, <2>2 DEF Continues
  <1>18. ASSUME NEW h \in {"log", "list"}, NEW row, Enters(h, row),
                NEW p \in Players, ById(p)' \in online', at[h].p # p \/ at[h].by # "id"
         PROVE  Shows(p)
    <2>1. /\ Key(h) = <<at[h].p, at[h].by>> /\ row \in Rows
          /\ at[h].p \in Players /\ at[h].by \in {"id", "name"}
          /\ rowOf[Key(h)] # None => row = rowOf[Key(h)]
          /\ rowOf[Key(h)] = None => ~Stored(row)
          /\ ById(p)' = ById(p) /\ online' = online \cup {row}
      BY <1>18, Entered DEF Key
    <2>2. <<p, "id">> \in Keys /\ Key(h) \in Keys /\ Key(h) # <<p, "id">>
      BY <1>18, <2>1 DEF Keys
    <2>3. ById(p) # row
      BY <1>0, <2>1, <2>2 DEF RowsInv, Stored, ById
    <2> QED
      BY <1>1, <1>18, <2>1, <2>3 DEF AfterLines
  <1>19. ASSUME NEW row, Enters("log", row) PROVE AfterLines'
    <2>1. at["log"].kind = "joined" /\ at["log"].stage = "enter" /\ at["log"].p \in Players
      BY <1>19, Entered
    <2>2. Working("log") /\ Same
      BY <1>19, <2>1 DEF Enters, Working
    <2>3. ASSUME NEW p \in Players, ById(p)' \in online' PROVE Shows(p)
      <3>1. CASE at["log"].p = p /\ at["log"].by = "id"
        BY <2>1, <2>2, <3>1, ShowsJoined
      <3> QED
        BY <1>18, <1>19, <2>3, <3>1
    <2>4. Continues("log") \/ Turns("log", "session")
      BY <1>19 DEF Enters
    <2>5. CASE Continues("log")
      BY <1>3, <2>1, <2>2, <2>3, <2>5 DEF Continues
    <2>6. CASE Turns("log", "session")
      BY <1>2, <2>2, <2>3, <2>6 DEF Turns, Working, Same
    <2> QED
      BY <2>4, <2>5, <2>6
  <1>20. ASSUME NEW row, Enters("list", row) PROVE AfterLines'
    <2>1. /\ at["list"].stage = "enter" /\ at["list"].p \in inGame /\ at'["log"] = at["log"]
      BY <1>0, <1>19, <1>20, Entered DEF OthersStay
    <2>2. Same
      BY <1>20 DEF Enters
    <2>3. \A k \in acked..Len(log) : Present(at["list"].p, k)
      BY <2>1, ListedPresent
    <2>4. Shows(at["list"].p)
      <3>1. acked \in Nat /\ batch \in Nat /\ batch <= Len(log) /\ acked <= Len(log)
            /\ Len(log) \in Nat
        BY <1>0 DEF TypeOK
      <3>2. CASE Is("log", "idle")
        BY <2>3, <3>1, <3>2 DEF Shows
      <3>3. CASE Working("log")
        <4>1. at["list"].p \in Players
          BY <1>0, <2>1 DEF TypeOK
        <4>2. PICK k \in acked..batch :
                k > acked /\ (Shows(at["list"].p) <=> Present(at["list"].p, k - 1))
          BY <3>3, <4>1, ShowsLine
        <4>3. k - 1 \in acked..Len(log)
          BY <3>1, <4>2
        <4> QED
          BY <2>3, <4>2, <4>3
      <3>4. CASE ~Is("log", "idle") /\ ~Working("log")
        BY <2>3, <3>1, <3>4 DEF Shows, DoneLine
      <3> QED
        BY <3>2, <3>3, <3>4
    <2>5. ASSUME NEW p \in Players, ById(p)' \in online' PROVE Shows(p)
      BY <1>18, <1>20, <2>4, <2>5
    <2> QED
      BY <1>2, <2>1, <2>2, <2>5 DEF Same
  <1> QED
    BY <1>0, <1>5, <1>6, <1>7, <1>8, <1>9, <1>10, <1>11, <1>12, <1>13, <1>16, <1>17, <1>19, <1>20,
       SmoothSteps

-----------------------------------------------------------------------------
(* Theorems                                                                *)

LEMMA PartsStep ==
    ASSUME Undisturbed, Base', Smooth', [Next]_vars
    PROVE  Parts'
  <1>1. Once'
    BY AcknowledgedStep, AtMostOneStep, NotTwiceStep, AfterLinesStep DEF Once
  <1> QED
    BY <1>1, ListTurnStep, NameTurnStep, PageWorkStep, HoldStep, EnteringStep, BalanceStep DEF Parts

LEMMA PartsInit ==
    ASSUME Init
    PROVE  Parts
  <1>1. /\ \A h \in Handlers : at[h].stage = "idle" /\ at[h].todo = {}
        /\ {"log", "list", "page"} \subseteq Handlers
    BY DEF Init, Idle, Work, Handlers
  <1>2. \A p \in Players : ByName(p) = None
    <2> TAKE p \in Players
    <2>1. <<p, "name">> \in Keys /\ <<p, "name">>[2] = "name"
      BY DEF Keys
    <2> QED
      BY <2>1 DEF Init, ByName
  <1>3. ListTurn /\ NameTurn /\ PageWork /\ Hold("log") /\ Entering("log") /\ Entering("list")
    BY <1>1, <1>2 DEF Init, ListTurn, NameTurn, PageWork, Hold, Entering, Holding, Is
  <1>4. Balance /\ Once
    BY <1>1, <1>2 DEF Init, Balance, Between, Once, Acknowledged, AtMostOne, NotTwice, AfterLines, Is
  <1> QED
    BY <1>3, <1>4 DEF Parts

THEOREM PeopleInvariant == Spec => []IInv
  <1>1. Init => IInv
    BY BaseInit, PartsInit DEF IInv
  <1>2. IInv /\ [Next]_vars => IInv'
    <2> SUFFICES ASSUME IInv, [Next]_vars PROVE IInv'
      OBVIOUS
    <2>1. Base'
      BY BaseStep DEF IInv
    <2>2. ASSUME Smooth' PROVE Parts'
      BY <2>1, <2>2, StaysSmooth, PartsStep DEF IInv, Undisturbed
    <2> QED
      BY <2>1, <2>2 DEF IInv
  <1> QED
    BY <1>1, <1>2, PTL DEF Spec

THEOREM SessionsFollow == Spec => []SessionsFollowPresence
  <1>1. IInv => SessionsFollowPresence
    <2> SUFFICES ASSUME IInv, "disturbed" \notin happened, \A h \in Handlers : Is(h, "idle")
                 PROVE  \A r \in Rows : /\ r \in online <=> open[r] > 0
                                        /\ "replay" \notin happened => open[r] <= 1
      BY DEF SessionsFollowPresence
    <2>1. Smooth
      BY DEF Smooth, Doomed, Holding, Is
    <2>2. Parts
      BY <2>1 DEF IInv
    <2>3. \A r \in Rows : ~Between(r)
      BY DEF Between, Is, Handlers
    <2> QED
      BY <2>2, <2>3 DEF Parts, Balance, Once, AtMostOne
  <1> QED
    BY <1>1, PeopleInvariant, PTL

-----------------------------------------------------------------------------
(* The accounts                                                            *)

Ops == A!Guarded \cup {"createOrg", "changePassword", "register"}
Request ==
    [op : Ops, by : Users, user : Users, org : Orgs, editor : A!Editors,
     read : BOOLEAN, only : BOOLEAN, first : BOOLEAN, seen : SUBSET (Ops \X Users \X Orgs)]

AccountTypes ==
    /\ accounts \subseteq Users /\ orgs \subseteq Orgs
    /\ password \in [Users -> {None, "set"}]
    /\ role \in [Users \X Orgs -> {None, "admin", "member"}]
    /\ keys \in [Orgs -> SUBSET A!Editors] /\ provider \in [Orgs -> A!Editors]
    /\ session \in [Users -> Orgs \cup {None}]
    /\ request \in [Requests -> Request \cup {None}]

\* Rows refer to rows that exist, and so does what a request is about to write.
Refers(q) ==
    /\ q.op = "register" => /\ q.org \in orgs \cup {Default}
                            /\ q.read => q.org \in orgs
    /\ q.op = "createAccount" => q.org \in orgs
    /\ q.op = "createOrg" => q.user \in accounts /\ orgs # {}
    /\ q.read /\ q.op \in {"deleteAccount", "resetPassword", "changePassword"}
         => q.user \in accounts
Consistent ==
    /\ \A u \in Users, o \in Orgs : role[<<u, o>>] # None => u \in accounts /\ o \in orgs
    /\ \A u \in Users : password[u] # None => u \in accounts
    /\ \A u \in Users : session[u] # None => u \in accounts /\ orgs # {}
    /\ orgs # {} => Default \in orgs
    /\ \A r \in Requests : request[r] # None => Refers(request[r])

-----------------------------------------------------------------------------
(* Steps                                                                   *)

\* A request that has just passed the guards.
Arrived(r, q) ==
    /\ q \in Request /\ ~q.read /\ q.seen = {}
    /\ request[r] = None /\ request' = [request EXCEPT ![r] = q]
    /\ q.op = "createAccount" => role[<<q.by, q.org>>] = "admin"
    /\ q.op = "createOrg" => session[q.user] # None
    /\ q.op = "register" => q.org \in orgs \cup {Default}
    /\ UNCHANGED <<A!rows, A!tools, session, A!marks>>

\* The kinds of steps.
LEMMA AccountSteps ==
    ASSUME [A!Next]_(A!vars)
    PROVE  \/ \E r \in Requests, q \in Request : Arrived(r, q)
           \/ \E r \in Requests : A!Read(r) \/ A!Writes(r)
           \/ A!Restart
           \/ /\ UNCHANGED <<A!rows, A!tools, A!marks>>
              /\ \/ \E r \in Requests : A!Ends(r) /\ UNCHANGED session
                 \/ UNCHANGED request /\ \E u \in Users : A!Login(u) \/ A!SignOut(u)
                 \/ UNCHANGED <<request, session>>
  <1> DEFINE Rec(op, by, user, org, editor) ==
               [op |-> op, by |-> by, user |-> user, org |-> org, editor |-> editor,
                read |-> FALSE, only |-> FALSE, first |-> FALSE, seen |-> {}]
  <1>1. ASSUME NEW r \in Requests, NEW by \in Users, NEW user \in Users, NEW org \in Orgs,
               NEW op \in A!Guarded, A!Manage(r, op, by, user, org)
        PROVE  \E q \in Request : Arrived(r, q)
    <2>1. Rec(op, by, user, org, "codex") \in Request
      BY DEF Request, Ops, A!Editors
    <2>2. Arrived(r, Rec(op, by, user, org, "codex"))
      BY <1>1, <2>1 DEF A!Manage, A!Arrives, Arrived, A!May
    <2> QED
      BY <2>1, <2>2
  <1>2. ASSUME NEW r \in Requests, NEW by \in Users, NEW org \in Orgs,
               NEW op \in A!Guarded, NEW editor \in A!Editors, A!Configure(r, op, by, org, editor)
        PROVE  \E q \in Request : Arrived(r, q)
    <2>1. Rec(op, by, by, org, editor) \in Request
      BY DEF Request, Ops
    <2>2. Arrived(r, Rec(op, by, by, org, editor))
      BY <1>2, <2>1 DEF A!Configure, A!Arrives, Arrived
    <2> QED
      BY <2>1, <2>2
  <1>3. ASSUME NEW r \in Requests, NEW by \in Users, NEW org \in Orgs,
               NEW op \in {"createOrg", "changePassword"}, A!Own(r, op, by, org)
        PROVE  \E q \in Request : Arrived(r, q)
    <2>1. Rec(op, by, by, org, "codex") \in Request
      BY DEF Request, Ops, A!Editors
    <2>2. Arrived(r, Rec(op, by, by, org, "codex"))
      BY <1>3, <2>1 DEF A!Own, A!Arrives, Arrived, A!SignedIn
    <2> QED
      BY <2>1, <2>2
  <1>4. ASSUME NEW r \in Requests, NEW user \in Users, NEW org \in Orgs, A!SignUp(r, user, org)
        PROVE  \E q \in Request : Arrived(r, q)
    <2>1. Rec("register", user, user, org, "codex") \in Request
      BY DEF Request, Ops, A!Editors
    <2>2. Arrived(r, Rec("register", user, user, org, "codex"))
      BY <1>4, <2>1 DEF A!SignUp, A!Arrives, Arrived
    <2> QED
      BY <2>1, <2>2
  <1>5. ASSUME NEW r \in Requests, A!Refuse(r) \/ A!WriteFails(r)
        PROVE  A!Ends(r) /\ UNCHANGED <<A!rows, A!tools, A!marks, session>>
    BY <1>5 DEF A!Refuse, A!WriteFails
  <1>6. ASSUME NEW u \in Users, A!Login(u) \/ A!SignOut(u)
        PROVE  UNCHANGED <<A!rows, A!tools, A!marks, request>>
    BY <1>6 DEF A!Login, A!SignOut
  <1>7. CASE UNCHANGED A!vars
    BY <1>7 DEF A!vars, A!rows, A!tools, A!marks
  <1> QED
    BY <1>1, <1>2, <1>3, <1>4, <1>5, <1>6, <1>7 DEF A!Next

\* A write leaves the other requests as they were, but for what they have seen.
LEMMA WroteFacts ==
    ASSUME AccountTypes, NEW r \in Requests, request[r] # None, A!Wrote(r),
           NEW q \in Requests, request'[q] # None
    PROVE  /\ q # r /\ request[q] # None
           /\ request[q] \in Request /\ request'[q] \in Request
           /\ request'[q] = [request[q] EXCEPT !.seen = request'[q].seen]
           /\ request[q].seen \subseteq request'[q].seen
           /\ \/ request[q].user = request[r].user
              \/ request[q].org = request[r].org
              => <<request[r].op, request[r].user, request[r].org>> \in request'[q].seen
  <1>1. request[r] \in Request
    BY DEF AccountTypes
  <1>2. q # r /\ request[q] # None
    BY DEF A!Wrote
  <1>3. request[q] \in Request
    BY <1>2 DEF AccountTypes
  <1>4. <<request[r].op, request[r].user, request[r].org>> \in Ops \X Users \X Orgs
    BY <1>1 DEF Request
  <1>5. CASE \/ request[q].user = request[r].user
             \/ request[q].org = request[r].org
    <2>1. request'[q] = [request[q] EXCEPT !.seen =
              @ \cup {<<request[r].op, request[r].user, request[r].org>>}]
      BY <1>2, <1>5 DEF A!Wrote
    <2> QED
      BY <1>2, <1>3, <1>4, <2>1 DEF Request
  <1>6. CASE ~ (\/ request[q].user = request[r].user
                \/ request[q].org = request[r].org)
    <2>1. request'[q] = request[q]
      BY <1>2, <1>6 DEF A!Wrote
    <2> QED
      BY <1>2, <1>3, <1>6, <2>1 DEF Request
  <1> QED
    BY <1>5, <1>6

\* What a request has seen stays seen, and it sees the writes to its user and
\* its organisation.
LEMMA Kept ==
    ASSUME AccountTypes, NEW r \in Requests, request[r] # None, A!Wrote(r),
           NEW q \in Requests, request'[q] # None
    PROVE  /\ q # r /\ request[q] # None
           /\ request[q] \in Request /\ request'[q] \in Request
           /\ request'[q].op = request[q].op /\ request'[q].user = request[q].user
           /\ request'[q].org = request[q].org /\ request'[q].editor = request[q].editor
           /\ request'[q].read = request[q].read /\ request'[q].only = request[q].only
           /\ request'[q].first = request[q].first
           /\ \A op : A!SawOrg(request[q], op) => A!SawOrg(request'[q], op)
           /\ \A ops : A!SawUser(request[q], ops) => A!SawUser(request'[q], ops)
           /\ request[q].org = request[r].org => A!SawOrg(request'[q], request[r].op)
           /\ request[q].user = request[r].user =>
                \A ops : request[r].op \in ops => A!SawUser(request'[q], ops)
  <1>1. request[r] \in Request /\ request[r].user \in Users /\ request[r].org \in Orgs
    BY DEF AccountTypes, Request
  <1>2. /\ request'[q].op = request[q].op /\ request'[q].user = request[q].user
        /\ request'[q].org = request[q].org /\ request'[q].editor = request[q].editor
        /\ request'[q].read = request[q].read /\ request'[q].only = request[q].only
        /\ request'[q].first = request[q].first
    <2> DEFINE p == request[q]
               s == request'[q].seen
    <2>1. request'[q] = [p EXCEPT !.seen = s] /\ p \in Request
      BY WroteFacts
    <2> QED
      BY <2>1 DEF Request
  <1>3. \A op : A!SawOrg(request[q], op) => A!SawOrg(request'[q], op)
    BY <1>2, WroteFacts DEF A!SawOrg, A!Saw
  <1>4. \A ops : A!SawUser(request[q], ops) => A!SawUser(request'[q], ops)
    BY <1>2, WroteFacts DEF A!SawUser, A!Saw
  <1>5. request[q].org = request[r].org => A!SawOrg(request'[q], request[r].op)
    BY <1>1, <1>2, WroteFacts, ZenonT(60) DEF A!SawOrg, A!Saw
  <1>6. request[q].user = request[r].user =>
          \A ops : request[r].op \in ops => A!SawUser(request'[q], ops)
    BY <1>1, <1>2, WroteFacts, ZenonT(60) DEF A!SawUser, A!Saw
  <1> QED
    BY <1>2, <1>3, <1>4, <1>5, <1>6, WroteFacts

-----------------------------------------------------------------------------
(* Types and references                                                    *)

LEMMA TypeInit ==
    ASSUME A!Init
    PROVE  AccountTypes /\ Consistent
  BY PeopleAssumption DEF A!AccountsAssumption, A!Init, AccountTypes, Consistent, A!Editors

LEMMA AccountTypeStep ==
    ASSUME AccountTypes, [A!Next]_(A!vars)
    PROVE  AccountTypes'
  <1> USE PeopleAssumption DEF A!AccountsAssumption, AccountTypes, A!rows, A!tools, A!marks
  <1>1. ASSUME NEW r \in Requests, NEW q \in Request, Arrived(r, q) PROVE AccountTypes'
    BY <1>1 DEF Arrived
  <1>2. ASSUME NEW r \in Requests, A!Read(r) PROVE AccountTypes'
    <2>1. request[r] \in Request
      BY <1>2 DEF A!Read
    <2>2. /\ A!Only(request[r].user, request[r].org) \in BOOLEAN
          /\ A!First(request[r].user, request[r].org) \in BOOLEAN
      BY DEF A!Only, A!First
    <2>3. request'[r] \in Request
      BY <1>2, <2>1, <2>2 DEF A!Read, Request
    <2>4. \A q \in Requests : q # r => request'[q] = request[q]
      BY <1>2 DEF A!Read
    <2>5. request' \in [Requests -> Request \cup {None}]
      BY <1>2, <2>3, <2>4 DEF A!Read
    <2>6. orgs' \subseteq Orgs
      BY <1>2 DEF A!Read, A!WithDefault
    <2> QED
      BY <1>2, <2>5, <2>6 DEF A!Read
  <1>3. ASSUME NEW r \in Requests, A!Writes(r) PROVE AccountTypes'
    <2>1. request[r] \in Request /\ request[r] # None /\ A!Wrote(r)
      BY <1>3 DEF A!Writes, A!CreateAccount, A!Register, A!DeleteAccount, A!ResetPassword, A!ChangePassword,
                  A!WritePassword, A!CreateOrg, A!SelectProvider, A!SaveKey, A!ClearKey, A!Ready
    <2>2. request' \in [Requests -> Request \cup {None}]
      <3>1. \A q \in Requests : request'[q] # None => request'[q] \in Request
        BY <2>1, Kept
      <3>2. \E f : request' = [q \in Requests |-> f[q]]
        <4> DEFINE f == request'
        <4>1. request' = [q \in Requests |-> f[q]]
          BY <2>1 DEF A!Wrote
        <4> QED
          BY <4>1
      <3> QED
        BY <3>1, <3>2
    <2>3. /\ request[r].user \in Users /\ request[r].org \in Orgs
          /\ request[r].editor \in A!Editors
      BY <2>1 DEF Request
    <2>4. CASE A!CreateAccount(r)
      BY <2>2, <2>3, <2>4 DEF A!CreateAccount, A!NewAccount
    <2>5. CASE A!Register(r)
      BY <2>2, <2>3, <2>5 DEF A!Register, A!NewAccount
    <2>6. CASE A!DeleteAccount(r)
      BY <2>2, <2>3, <2>6 DEF A!DeleteAccount
    <2>7. CASE A!ResetPassword(r) \/ A!ChangePassword(r)
      BY <2>2, <2>3, <2>7 DEF A!ResetPassword, A!ChangePassword, A!WritePassword
    <2>8. CASE A!CreateOrg(r)
      BY <2>2, <2>3, <2>8 DEF A!CreateOrg
    <2>9. CASE A!SelectProvider(r)
      BY <2>2, <2>3, <2>9 DEF A!SelectProvider
    <2>10. CASE A!SaveKey(r)
      BY <2>2, <2>3, <2>10 DEF A!SaveKey
    <2>11. CASE A!ClearKey(r)
      BY <2>2, <2>3, <2>11 DEF A!ClearKey, A!Fallback, A!Editors
    <2> QED
      BY <1>3, <2>4, <2>5, <2>6, <2>7, <2>8, <2>9, <2>10, <2>11 DEF A!Writes
  <1>4. CASE A!Restart
    BY <1>4 DEF A!Restart, A!Seed
  <1>5. ASSUME NEW r \in Requests, A!Ends(r), UNCHANGED <<A!rows, A!tools, A!marks, session>> PROVE AccountTypes'
    BY <1>5 DEF A!Ends
  <1>6. ASSUME NEW u \in Users, A!Login(u) \/ A!SignOut(u) PROVE AccountTypes'
    <2>1. \E o \in Orgs \cup {None} : session' = [session EXCEPT ![u] = o]
      BY <1>6 DEF A!Login, A!SignOut, A!OrgsOf
    <2>2. session' \in [Users -> Orgs \cup {None}]
      BY <2>1
    <2> QED
      BY <1>6, <2>2 DEF A!Login, A!SignOut
  <1>7. CASE UNCHANGED <<A!rows, A!tools, A!marks, request, session>>
    BY <1>7
  <1> QED
    BY <1>1, <1>2, <1>3, <1>4, <1>5, <1>6, <1>7, AccountSteps

\* Rows of users and organisations are never deleted, and a request that was
\* let in refers to rows that stay.
LEMMA Grows ==
    ASSUME [A!Next]_(A!vars)
    PROVE  accounts \subseteq accounts' /\ orgs \subseteq orgs'
  <1> USE DEF A!rows, A!tools, A!marks
  <1>1. ASSUME NEW r \in Requests, A!Read(r)
        PROVE  accounts \subseteq accounts' /\ orgs \subseteq orgs'
    BY <1>1 DEF A!Read, A!WithDefault
  <1>2. ASSUME NEW r \in Requests, A!Writes(r)
        PROVE  accounts \subseteq accounts' /\ orgs \subseteq orgs'
    BY <1>2 DEF A!Writes, A!CreateAccount, A!Register, A!NewAccount, A!DeleteAccount, A!ResetPassword,
                A!ChangePassword, A!WritePassword, A!CreateOrg, A!SelectProvider, A!SaveKey, A!ClearKey
  <1>3. CASE A!Restart
    BY <1>3 DEF A!Restart, A!Seed
  <1> QED
    BY <1>1, <1>2, <1>3, AccountSteps DEF Arrived

LEMMA ConsistentStep ==
    ASSUME AccountTypes, Consistent, [A!Next]_(A!vars)
    PROVE  Consistent'
  <1> USE PeopleAssumption DEF A!AccountsAssumption, A!rows, A!tools, A!marks
  <1> DEFINE RequestsRefer == \A r \in Requests : request[r] # None => Refers(request[r])
  <1>1. accounts \subseteq accounts' /\ orgs \subseteq orgs'
    BY Grows
  <1>2. ASSUME NEW r \in Requests, NEW q \in Request, Arrived(r, q) PROVE Consistent'
    <2>1. q.user \in Users /\ q.by \in Users /\ q.org \in Orgs
      BY DEF Request
    <2>2. Refers(q)
      BY <1>2, <2>1 DEF Arrived, Refers, Consistent
    <2>3. \A p \in Requests : request'[p] = IF p = r THEN q ELSE request[p]
      BY <1>2 DEF Arrived, AccountTypes
    <2>4. RequestsRefer'
      BY <1>2, <2>2, <2>3 DEF Arrived, Refers, Consistent
    <2> QED
      BY <1>2, <2>4 DEF Arrived, Consistent
  <1>3. ASSUME NEW r \in Requests, A!Read(r) PROVE Consistent'
    <2> DEFINE q == request[r]
    <2>1. q \in Request /\ q # None /\ q.user \in Users /\ q.org \in Orgs /\ q.by \in Users
      BY <1>3 DEF A!Read, AccountTypes, Request
    <2>2. q.op = "register" => q.org \in orgs'
      BY <1>3, <2>1 DEF A!Read, A!WithDefault, Consistent, Refers
    <2>3. q.op \in {"deleteAccount", "resetPassword", "changePassword"} => q.user \in accounts
      BY <1>3, <2>1 DEF A!Read, A!Accepted, A!Deletable, A!Resettable, Consistent, AccountTypes
    <2>4. /\ request'[r].op = q.op /\ request'[r].user = q.user /\ request'[r].org = q.org
          /\ \A p \in Requests : p # r => request'[p] = request[p]
      BY <1>3, <2>1 DEF A!Read, AccountTypes, Request
    <2>5. RequestsRefer'
      <3> SUFFICES ASSUME NEW p \in Requests, request'[p] # None
                   PROVE  Refers(request[p])'
        OBVIOUS
      <3>1. CASE p = r
        BY <1>1, <1>3, <2>1, <2>2, <2>3, <2>4, <3>1 DEF Refers, Consistent
      <3>2. CASE p # r
        <4>1. request'[p] = request[p] /\ Refers(request[p]) /\ UNCHANGED accounts
          BY <1>3, <2>4, <3>2 DEF A!Read, Consistent
        <4> QED
          BY <1>1, <4>1 DEF Refers
      <3> QED
        BY <3>1, <3>2
    <2>6. (orgs # {} => Default \in orgs)'
      BY <1>3 DEF A!Read, A!WithDefault, Consistent
    <2> QED
      BY <1>1, <1>3, <2>5, <2>6 DEF A!Read, Consistent
  <1>4. ASSUME NEW r \in Requests, A!Writes(r) PROVE Consistent'
    <2> DEFINE q == request[r]
    <2>1. q \in Request /\ q # None /\ A!Wrote(r) /\ q.read
      BY <1>4 DEF A!Writes, A!CreateAccount, A!Register, A!DeleteAccount, A!ResetPassword, A!ChangePassword,
                  A!WritePassword, A!CreateOrg, A!SelectProvider, A!SaveKey, A!ClearKey, A!Ready, AccountTypes
    <2>2. q.user \in Users /\ q.org \in Orgs /\ Refers(q)
      BY <2>1 DEF Request, Consistent
    <2>3. RequestsRefer'
      <3> SUFFICES ASSUME NEW p \in Requests, request'[p] # None
                   PROVE  Refers(request[p])'
        OBVIOUS
      <3>1. Refers(request[p])
        BY <2>1, Kept DEF Consistent
      <3> QED
        BY <1>1, <2>1, <3>1, Kept DEF Refers
    <2>4. CASE A!CreateAccount(r)
      BY <1>1, <2>1, <2>2, <2>3, <2>4 DEF A!CreateAccount, A!NewAccount, A!Ready, Refers, Consistent,
                                             AccountTypes
    <2>5. CASE A!Register(r)
      BY <1>1, <2>1, <2>2, <2>3, <2>5 DEF A!Register, A!NewAccount, A!Ready, Refers, Consistent,
                                             AccountTypes
    <2>6. CASE A!DeleteAccount(r)
      BY <1>1, <2>1, <2>2, <2>3, <2>6 DEF A!DeleteAccount, A!Ready, Refers, Consistent, AccountTypes
    <2>7. CASE A!ResetPassword(r) \/ A!ChangePassword(r)
      BY <1>1, <2>1, <2>2, <2>3, <2>7
         DEF A!ResetPassword, A!ChangePassword, A!WritePassword, A!Ready, Refers, Consistent, AccountTypes
    <2>8. CASE A!CreateOrg(r)
      BY <1>1, <2>1, <2>2, <2>3, <2>8 DEF A!CreateOrg, A!Ready, Refers, Consistent, AccountTypes
    <2>9. CASE A!SelectProvider(r) \/ A!SaveKey(r) \/ A!ClearKey(r)
      BY <2>3, <2>9 DEF A!SelectProvider, A!SaveKey, A!ClearKey, Consistent
    <2> QED
      BY <1>4, <2>4, <2>5, <2>6, <2>7, <2>8, <2>9 DEF A!Writes
  <1>5. CASE A!Restart
    <2>1. \A u \in Users, o \in Orgs :
            role'[<<u, o>>] = role[<<u, o>>] \/ (u = Seeded /\ o = Default)
      BY <1>5 DEF A!Restart, A!Seed, AccountTypes
    <2>2. \A u \in Users : password'[u] = password[u] \/ u = Seeded
      BY <1>5 DEF A!Restart, A!Seed, AccountTypes
    <2> QED
      BY <1>1, <1>5, <2>1, <2>2 DEF A!Restart, A!Seed, Consistent
  <1>6. ASSUME NEW r \in Requests, A!Ends(r), UNCHANGED <<A!rows, A!tools, A!marks, session>>
        PROVE  Consistent'
    <2>1. \A p \in Requests : request'[p] # None => request'[p] = request[p]
      BY <1>6 DEF A!Ends, AccountTypes
    <2> QED
      BY <1>6, <2>1 DEF Refers, Consistent
  <1>7. ASSUME NEW u \in Users, A!Login(u) \/ A!SignOut(u) PROVE Consistent'
    <2>1. \A v \in Users : session'[v] # None =>
             \/ session[v] # None
             \/ v = u /\ password[u] # None /\ orgs # {}
      BY <1>7 DEF A!Login, A!SignOut, A!OrgsOf, Consistent, AccountTypes
    <2> QED
      BY <1>7, <2>1 DEF A!Login, A!SignOut, Refers, Consistent
  <1>8. CASE UNCHANGED <<A!rows, A!tools, A!marks, request, session>>
    BY <1>8 DEF Refers, Consistent
  <1> QED
    BY <1>2, <1>3, <1>4, <1>5, <1>6, <1>7, <1>8, AccountSteps

\* Every state has its types, and what a row, a session or a request in progress
\* refers to exists (the foreign keys of UserOrg).
THEOREM AccountRows == A!Spec => [](AccountTypes /\ Consistent)
  <1>1. A!Init => AccountTypes /\ Consistent
    BY TypeInit
  <1>2. AccountTypes /\ Consistent /\ [A!Next]_(A!vars) => AccountTypes' /\ Consistent'
    BY AccountTypeStep, ConsistentStep
  <1> QED
    BY <1>1, <1>2, PTL DEF A!Spec

-----------------------------------------------------------------------------
(* What a step does to the other requests and to the roles                 *)

\* p goes on, has seen what it had seen and sees the write of this step.
GoesOn(p) ==
    /\ request[p] # None /\ request[p] \in Request
    /\ request'[p].op = request[p].op /\ request'[p].user = request[p].user
    /\ request'[p].org = request[p].org /\ request'[p].editor = request[p].editor
    /\ request'[p].read = request[p].read /\ request'[p].only = request[p].only
    /\ request'[p].first = request[p].first
    /\ \A op : A!SawOrg(request[p], op) => A!SawOrg(request'[p], op)
    /\ \A ops : A!SawUser(request[p], ops) => A!SawUser(request'[p], ops)
    /\ \A r \in Requests : A!Writes(r) =>
         /\ request[p].org = request[r].org => A!SawOrg(request'[p], request[r].op)
         /\ request[p].user = request[r].user =>
              \A ops : request[r].op \in ops => A!SawUser(request'[p], ops)

LEMMA Writer ==
    ASSUME AccountTypes, NEW r \in Requests, A!Writes(r)
    PROVE  /\ request[r] # None /\ request[r] \in Request /\ request[r].read /\ A!Wrote(r)
           /\ request[r].user \in Users /\ request[r].org \in Orgs
           /\ request[r].editor \in A!Editors
  <1>1. request[r] # None /\ request[r].read /\ A!Wrote(r)
    BY DEF A!Writes, A!CreateAccount, A!Register, A!DeleteAccount, A!ResetPassword, A!ChangePassword,
           A!WritePassword, A!CreateOrg, A!SelectProvider, A!SaveKey, A!ClearKey, A!Ready
  <1>2. request[r] \in Request
    BY <1>1 DEF AccountTypes
  <1> QED
    BY <1>1, <1>2 DEF Request

LEMMA Others ==
    ASSUME AccountTypes, [A!Next]_(A!vars), NEW p \in Requests, request'[p] # None
    PROVE  \/ \E q \in Request : Arrived(p, q) /\ request'[p] = q
           \/ A!Read(p)
           \/ GoesOn(p)
  <1>1. ASSUME NEW r \in Requests, A!Writes(r) PROVE GoesOn(p)
    <2>1. request[p] # None /\ request[p] \in Request
      BY <1>1, Writer, Kept
    <2>2. \A s \in Requests : A!Writes(s) =>
            /\ request[p].org = request[s].org => A!SawOrg(request'[p], request[s].op)
            /\ request[p].user = request[s].user =>
                 \A ops : request[s].op \in ops => A!SawUser(request'[p], ops)
      BY Writer, Kept
    <2> QED
      BY <1>1, <2>1, <2>2, Writer, Kept DEF GoesOn
  <1>2. ASSUME request'[p] = request[p], \A r \in Requests : ~A!Writes(r) PROVE GoesOn(p)
    BY <1>2 DEF GoesOn, AccountTypes
  <1> SUFFICES ASSUME \A r \in Requests : ~A!Writes(r)
               PROVE  \/ \E q \in Request : Arrived(p, q) /\ request'[p] = q
                      \/ A!Read(p)
                      \/ request'[p] = request[p]
    BY <1>1, <1>2
  <1>3. ASSUME NEW r \in Requests, NEW q \in Request, Arrived(r, q)
        PROVE  request'[p] = request[p] \/ (p = r /\ request'[p] = q)
    BY <1>3 DEF Arrived, AccountTypes
  <1>4. ASSUME NEW r \in Requests, A!Read(r) PROVE request'[p] = request[p] \/ p = r
    BY <1>4 DEF A!Read, AccountTypes
  <1>5. CASE A!Restart
    BY <1>5 DEF A!Restart
  <1>6. ASSUME NEW r \in Requests, A!Ends(r) PROVE request'[p] = request[p]
    BY <1>6 DEF A!Ends, AccountTypes
  <1> QED
    BY <1>3, <1>4, <1>5, <1>6, AccountSteps

\* A role is given to an account that had none in the organisation.
Given(u, o, name) ==
    /\ role[<<u, o>>] = None /\ role' = [role EXCEPT ![<<u, o>>] = name]
    /\ UNCHANGED raced
    /\ \/ \E r \in Requests : /\ A!CreateAccount(r) \/ A!Register(r)
                              /\ u = request[r].user /\ o = request[r].org
                              /\ u \notin accounts
                              /\ name = "admin" <=> A!Register(r) /\ request[r].first
       \/ \E r \in Requests : A!CreateOrg(r) /\ u = request[r].user /\ o = request[r].org
                              /\ o \notin orgs /\ name = "admin"
       \/ A!Restart /\ u = Seeded /\ name = "admin"

LEMMA RoleWrite ==
    ASSUME AccountTypes, NEW u \in Users, NEW o \in Orgs, NEW name,
           role' = [role EXCEPT ![<<u, o>>] = name]
    PROVE  \A v \in Users, p \in Orgs :
             role'[<<v, p>>] = IF v = u /\ p = o THEN name ELSE role[<<v, p>>]
  BY DEF AccountTypes

LEMMA RoleSteps ==
    ASSUME AccountTypes, Consistent, [A!Next]_(A!vars)
    PROVE  \/ UNCHANGED <<role, raced>>
           \/ \E r \in Requests : A!DeleteAccount(r)
           \/ \E u \in Users, o \in Orgs, name \in {"admin", "member"} : Given(u, o, name)
  <1> DEFINE Gives == \E u \in Users, o \in Orgs, name \in {"admin", "member"} : Given(u, o, name)
  <1> USE DEF A!rows, A!tools, A!marks
  <1>1. ASSUME NEW r \in Requests, A!CreateAccount(r) PROVE Gives
    <2>1. ~A!Register(r)
      BY <1>1 DEF A!CreateAccount, A!Register, A!Ready
    <2>2. Given(request[r].user, request[r].org, "member")
      BY <1>1, <2>1, Writer DEF A!Writes, A!CreateAccount, A!NewAccount, Given, Consistent
    <2> QED
      BY <1>1, <2>2, Writer DEF A!Writes
  <1>2. ASSUME NEW r \in Requests, A!Register(r) PROVE Gives
    <2> DEFINE name == IF request[r].first THEN "admin" ELSE "member"
    <2>1. Given(request[r].user, request[r].org, name)
      BY <1>2, Writer DEF A!Writes, A!Register, A!NewAccount, Given, Consistent
    <2> QED
      BY <1>2, <2>1, Writer DEF A!Writes
  <1>3. ASSUME NEW r \in Requests, A!CreateOrg(r) PROVE Gives
    <2>1. Given(request[r].user, request[r].org, "admin")
      BY <1>3, Writer DEF A!Writes, A!CreateOrg, Given, Consistent
    <2> QED
      BY <1>3, <2>1, Writer DEF A!Writes
  <1>4. CASE A!Restart
    <2>1. CASE role[<<Seeded, Default>>] = None
      <3>1. Given(Seeded, Default, "admin")
        BY <1>4, <2>1 DEF A!Restart, A!Seed, Given
      <3> QED
        BY <3>1, PeopleAssumption DEF A!AccountsAssumption
    <2>2. CASE role[<<Seeded, Default>>] # None
      BY <1>4, <2>2 DEF A!Restart, A!Seed
    <2> QED
      BY <2>1, <2>2
  <1>5. ASSUME NEW r \in Requests, A!Read(r) PROVE UNCHANGED <<role, raced>>
    BY <1>5 DEF A!Read
  <1>6. ASSUME NEW r \in Requests, \/ A!ResetPassword(r) \/ A!ChangePassword(r)
                                   \/ A!SelectProvider(r) \/ A!SaveKey(r) \/ A!ClearKey(r)
        PROVE  UNCHANGED <<role, raced>>
    BY <1>6 DEF A!ResetPassword, A!ChangePassword, A!WritePassword, A!SelectProvider, A!SaveKey, A!ClearKey
  <1> QED
    BY <1>1, <1>2, <1>3, <1>4, <1>5, <1>6, AccountSteps DEF A!Writes, Arrived

-----------------------------------------------------------------------------
(* An organisation keeps an administrator                                  *)

Settled(o) == A!Admins(o) # {} \/ o \in raced

\* A deletion that overlapped no other leaves an administrator behind.
LeavesAdmin(q) ==
    q.read /\ q.op = "deleteAccount" =>
      \/ A!SawOrg(q, "deleteAccount")
      \/ /\ role[<<q.user, q.org>>] # None
         /\ role[<<q.user, q.org>>] = "admin" =>
              \E v \in Users \ {q.user} : role[<<v, q.org>>] = "admin"
\* Who joins without becoming an administrator joins an organisation that has one.
JoinsSettled(q) ==
    q.op = "createAccount" \/ (q.op = "register" /\ q.read /\ ~q.first) => Settled(q.org)
AdminInv ==
    /\ A!AdministratorRemains
    /\ \A r \in Requests : request[r] # None => LeavesAdmin(request[r]) /\ JoinsSettled(request[r])

LEMMA AnotherAdmin ==
    ASSUME AccountTypes, NEW u \in Users, NEW o \in Orgs,
           A!Deletable(u, o), role[<<u, o>>] = "admin"
    PROVE  \E v \in Users \ {u} : role[<<v, o>>] = "admin"
  BY DEF A!Deletable, A!Admins

LEMMA SettledKept ==
    ASSUME AccountTypes, Consistent, AdminInv, [A!Next]_(A!vars),
           NEW o \in Orgs, Settled(o)
    PROVE  Settled(o)'
  <1>1. ASSUME NEW r \in Requests, A!DeleteAccount(r) PROVE Settled(o)'
    <2> DEFINE q == request[r]
    <2>1. /\ q # None /\ q.read /\ q.op = "deleteAccount" /\ q.user \in Users /\ q.org \in Orgs
          /\ role' = [role EXCEPT ![<<q.user, q.org>>] = None]
          /\ raced' = IF A!SawOrg(q, "deleteAccount") THEN raced \cup {q.org} ELSE raced
      BY <1>1, Writer DEF A!Writes, A!DeleteAccount, A!Ready
    <2>2. CASE o \in raced \/ o # q.org
      BY <2>1, <2>2, ZenonT(60) DEF Settled, A!Admins, AccountTypes
    <2>3. CASE o = q.org /\ A!SawOrg(q, "deleteAccount")
      BY <2>1, <2>3 DEF Settled
    <2>4. CASE o = q.org /\ o \notin raced /\ ~A!SawOrg(q, "deleteAccount")
      <3>1. \E v \in Users \ {q.user} : role[<<v, o>>] = "admin"
        BY <2>1, <2>4 DEF AdminInv, LeavesAdmin, Settled, A!Admins, AccountTypes
      <3>2. \E v \in Users : role'[<<v, o>>] = "admin"
        BY <2>1, <3>1, RoleWrite
      <3> QED
        BY <3>2 DEF Settled, A!Admins
    <2> QED
      BY <2>2, <2>3, <2>4
  <1>2. ASSUME NEW u \in Users, NEW p \in Orgs, NEW name \in {"admin", "member"}, Given(u, p, name)
        PROVE  Settled(o)'
    <2>1. \A v \in Users : role[<<v, o>>] = "admin" => role'[<<v, o>>] = "admin"
      BY <1>2, RoleWrite, PeopleAssumption DEF Given, A!AccountsAssumption
    <2> QED
      BY <1>2, <2>1 DEF Given, Settled, A!Admins
  <1>3. CASE UNCHANGED <<role, raced>>
    BY <1>3 DEF Settled, A!Admins
  <1> QED
    BY <1>1, <1>2, <1>3, RoleSteps

LEMMA LeavesAdminKept ==
    ASSUME AccountTypes, Consistent, AdminInv, [A!Next]_(A!vars),
           NEW p \in Requests, GoesOn(p)
    PROVE  LeavesAdmin(request[p])'
  <1> DEFINE q == request[p]
  <1> SUFFICES ASSUME q.read, q.op = "deleteAccount", ~A!SawOrg(request'[p], "deleteAccount")
               PROVE  /\ role'[<<q.user, q.org>>] # None
                      /\ role'[<<q.user, q.org>>] = "admin" =>
                           \E v \in Users \ {q.user} : role'[<<v, q.org>>] = "admin"
    BY DEF GoesOn, LeavesAdmin
  <1>1. /\ q.user \in Users /\ q.org \in Orgs
        /\ role[<<q.user, q.org>>] # None
        /\ role[<<q.user, q.org>>] = "admin" =>
             \E v \in Users \ {q.user} : role[<<v, q.org>>] = "admin"
    BY DEF GoesOn, Request, AdminInv, LeavesAdmin
  <1>2. ASSUME NEW r \in Requests, A!DeleteAccount(r)
        PROVE  \A v \in Users : role'[<<v, q.org>>] = role[<<v, q.org>>]
    <2>1. request[r].org # q.org
      BY <1>2 DEF A!Writes, GoesOn, A!DeleteAccount, A!Ready
    <2> QED
      BY <1>1, <1>2, <2>1 DEF A!DeleteAccount, AccountTypes
  <1>3. ASSUME NEW u \in Users, NEW o \in Orgs, NEW name \in {"admin", "member"}, Given(u, o, name)
        PROVE  \A v \in Users :
                 role[<<v, q.org>>] # None => role'[<<v, q.org>>] = role[<<v, q.org>>]
    BY <1>1, <1>3 DEF Given, AccountTypes
  <1>4. \A v \in Users : role[<<v, q.org>>] # None => role'[<<v, q.org>>] = role[<<v, q.org>>]
    BY <1>2, <1>3, RoleSteps
  <1> QED
    BY <1>1, <1>4, PeopleAssumption DEF A!AccountsAssumption

LEMMA AdminStep ==
    ASSUME AccountTypes, Consistent, AdminInv, [A!Next]_(A!vars)
    PROVE  AdminInv'
  <1>1. ASSUME NEW p \in Requests, request'[p] # None PROVE LeavesAdmin(request[p])'
    <2>1. CASE \E q \in Request : Arrived(p, q) /\ request'[p] = q
      BY <2>1 DEF Arrived, LeavesAdmin
    <2>2. CASE A!Read(p)
      <3>1. /\ request[p] \in Request /\ request[p].user \in Users /\ request[p].org \in Orgs
            /\ request'[p].op = request[p].op /\ request'[p].user = request[p].user
            /\ request'[p].org = request[p].org /\ UNCHANGED role
        BY <2>2 DEF A!Read, AccountTypes, Request
      <3>2. request[p].op = "deleteAccount" => A!Deletable(request[p].user, request[p].org)
        BY <2>2, <3>1 DEF A!Read, A!Accepted
      <3>3. request[p].op = "deleteAccount" =>
              /\ role[<<request[p].user, request[p].org>>] # None
              /\ role[<<request[p].user, request[p].org>>] = "admin" =>
                   \E v \in Users \ {request[p].user} : role[<<v, request[p].org>>] = "admin"
        BY <3>1, <3>2, AnotherAdmin DEF A!Deletable
      <3> QED
        BY <3>1, <3>3 DEF LeavesAdmin
    <2>3. CASE GoesOn(p)
      BY <2>3, LeavesAdminKept
    <2> QED
      BY <1>1, <2>1, <2>2, <2>3, Others
  <1>2. ASSUME NEW p \in Requests, request'[p] # None PROVE JoinsSettled(request[p])'
    <2> SUFFICES ASSUME \/ request'[p].op = "createAccount"
                        \/ request'[p].op = "register" /\ request'[p].read /\ ~request'[p].first
                 PROVE  request'[p].org \in Orgs /\ Settled(request'[p].org)
      BY SettledKept DEF JoinsSettled, Settled, A!Admins
    <2>1. CASE \E q \in Request : Arrived(p, q) /\ request'[p] = q
      BY <2>1 DEF Arrived, Settled, A!Admins, Request
    <2>2. CASE A!Read(p)
      <3>1. /\ request[p] \in Request /\ request[p] # None /\ request[p].org \in Orgs
            /\ request'[p].op = request[p].op /\ request'[p].org = request[p].org
            /\ request'[p].first = A!First(request[p].user, request[p].org)
        BY <2>2 DEF A!Read, AccountTypes, Request
      <3>2. CASE request[p].op = "createAccount"
        BY <3>1, <3>2 DEF AdminInv, JoinsSettled
      <3>3. CASE request[p].op = "register" /\ ~request'[p].first
        BY <3>1, <3>3 DEF AdminInv, A!AdministratorRemains, A!First, Settled
      <3> QED
        BY <3>1, <3>2, <3>3
    <2>3. CASE GoesOn(p)
      BY <2>3 DEF GoesOn, Request, AdminInv, JoinsSettled
    <2> QED
      BY <1>2, <2>1, <2>2, <2>3, Others
  <1>3. ASSUME NEW o \in Orgs, A!Members(o)' # {} PROVE Settled(o)'
    <2>1. CASE A!Members(o) # {}
      BY <2>1, SettledKept DEF AdminInv, A!AdministratorRemains, Settled
    <2>2. CASE A!Members(o) = {}
      <3>1. ASSUME NEW r \in Requests, A!DeleteAccount(r) PROVE A!Members(o)' = {}
        BY <2>2, <3>1, Writer DEF A!Writes, A!DeleteAccount, A!Members, AccountTypes
      <3>2. ASSUME NEW u \in Users, NEW p \in Orgs, NEW name \in {"admin", "member"},
                   Given(u, p, name)
            PROVE  Settled(o)'
        <4>1. CASE name = "admin"
          BY <1>3, <2>2, <3>2, <4>1 DEF Given, A!Members, Settled, A!Admins, AccountTypes
        <4>2. CASE name = "member" /\ o = p
          <5>1. PICK r \in Requests : /\ A!CreateAccount(r) \/ (A!Register(r) /\ ~request[r].first)
                                      /\ o = request[r].org
            BY <3>2, <4>2 DEF Given
          <5>2. Settled(o)
            BY <5>1, Writer DEF A!Writes, A!CreateAccount, A!Register, A!Ready, AdminInv, JoinsSettled
          <5> QED
            BY <5>2, SettledKept
        <4>3. CASE o # p
          BY <1>3, <2>2, <3>2, <4>3 DEF Given, A!Members, AccountTypes
        <4> QED
          BY <4>1, <4>2, <4>3
      <3>3. CASE UNCHANGED <<role, raced>>
        BY <1>3, <2>2, <3>3 DEF A!Members
      <3> QED
        BY <1>3, <3>1, <3>2, <3>3, RoleSteps
    <2> QED
      BY <2>1, <2>2
  <1> QED
    BY <1>1, <1>2, <1>3 DEF AdminInv, A!AdministratorRemains, Settled

\* Accounts keeps AdministratorRemains: an organisation with members has an
\* administrator, unless deletions in it overlapped (deleteAccount).
THEOREM AdministratorStays == A!Spec => []AdministratorRemains
  <1>1. A!Init => AdminInv
    BY PeopleAssumption DEF A!AccountsAssumption, A!Init, AdminInv, A!AdministratorRemains, A!Members
  <1>2. AccountTypes /\ Consistent /\ AdminInv /\ [A!Next]_(A!vars) => AdminInv'
    BY AdminStep
  <1>3. AdminInv => AdministratorRemains
    BY DEF AdminInv, AdministratorRemains, A!AdministratorRemains
  <1> QED
    BY <1>1, <1>2, <1>3, AccountRows, PTL DEF A!Spec

-----------------------------------------------------------------------------
(* The first account of an organisation administers it                     *)

\* A registration that found no members is the first, unless another account
\* was written in between.
StillFirst(q) ==
    q.op = "register" /\ q.read /\ q.first =>
      A!Members(q.org) = {} \/ A!SawOrg(q, "register") \/ A!SawOrg(q, "createAccount")
FirstInv == \A r \in Requests : request[r] # None => StillFirst(request[r])

LEMMA FirstStep ==
    ASSUME AccountTypes, Consistent, FirstInv, [A!Next]_(A!vars)
    PROVE  FirstInv'
  <1> SUFFICES ASSUME NEW p \in Requests, request'[p] # None,
                      request'[p].op = "register", request'[p].read, request'[p].first,
                      ~A!SawOrg(request'[p], "register"), ~A!SawOrg(request'[p], "createAccount")
               PROVE  \A v \in Users : role'[<<v, request'[p].org>>] = None
    BY DEF FirstInv, StillFirst, A!Members
  <1>1. CASE \E q \in Request : Arrived(p, q) /\ request'[p] = q
    BY <1>1 DEF Arrived
  <1>2. CASE A!Read(p)
    BY <1>2 DEF A!Read, A!First, A!Members, AccountTypes, Request
  <1>3. CASE GoesOn(p)
    <2> DEFINE o == request[p].org
    <2>1. /\ o \in Orgs /\ o \in orgs /\ request'[p].org = o /\ request[p].op = "register"
          /\ \A v \in Users : role[<<v, o>>] = None
      BY <1>3 DEF GoesOn, Request, FirstInv, StillFirst, A!Members, Consistent, Refers
    <2>2. ASSUME NEW r \in Requests, A!DeleteAccount(r)
          PROVE  \A v \in Users : role'[<<v, o>>] = None
      BY <2>1, <2>2, Writer, RoleWrite DEF A!Writes, A!DeleteAccount
    <2>3. ASSUME NEW u \in Users, NEW q \in Orgs, NEW name \in {"admin", "member"},
                 Given(u, q, name)
          PROVE  \A v \in Users : role'[<<v, o>>] = None
      <3>1. ASSUME NEW r \in Requests, A!CreateAccount(r) \/ A!Register(r), request[r].org = o
            PROVE  FALSE
        <4>1. A!Writes(r) /\ request[r].op \in {"createAccount", "register"}
          BY <3>1 DEF A!Writes, A!CreateAccount, A!Register, A!Ready
        <4> QED
          BY <1>3, <3>1, <4>1 DEF GoesOn
      <3>2. ~A!Restart
        BY DEF A!Restart
      <3>3. q # o
        BY <2>1, <2>3, <3>1, <3>2 DEF Given
      <3> QED
        BY <2>1, <2>3, <3>3, RoleWrite DEF Given
    <2>4. \A v \in Users : role'[<<v, o>>] = None
      BY <2>1, <2>2, <2>3, RoleSteps
    <2> QED
      BY <2>1, <2>4
  <1> QED
    BY <1>1, <1>2, <1>3, Others

\* Accounts keeps OneFirstAdministrator: only the first account registered in
\* an organisation becomes its administrator by registering (register).
THEOREM FirstAdministers == A!Spec => OneFirstAdministrator
  <1> DEFINE Alone(u, o) ==
               \/ A!Members(o) = {}
               \/ u = Seeded
               \/ \E r \in Requests : request[r] # None /\ request[r].user = u /\ request'[r] = None
                                      /\ \/ A!SawOrg(request[r], "register")
                                         \/ A!SawOrg(request[r], "createAccount")
             OneFirst == \A u \in Users, o \in Orgs :
                           role[<<u, o>>] = None /\ role'[<<u, o>>] = "admin" => Alone(u, o)
  <1>1. A!Init => FirstInv
    BY DEF A!Init, FirstInv
  <1>2. AccountTypes /\ Consistent /\ FirstInv /\ [A!Next]_(A!vars) => FirstInv'
    BY FirstStep
  <1>3. AccountTypes /\ Consistent /\ FirstInv /\ [A!Next]_(A!vars) => OneFirst
    <2> SUFFICES ASSUME AccountTypes, Consistent, FirstInv, [A!Next]_(A!vars),
                        NEW u \in Users, NEW o \in Orgs,
                        role[<<u, o>>] = None, role'[<<u, o>>] = "admin"
                 PROVE  Alone(u, o)
      OBVIOUS
    <2>1. None # "admin"
      BY PeopleAssumption DEF A!AccountsAssumption
    <2>2. ASSUME NEW r \in Requests, A!DeleteAccount(r) PROVE FALSE
      BY <2>1, <2>2, Writer, RoleWrite DEF A!Writes, A!DeleteAccount
    <2>3. PICK v \in Users, q \in Orgs, name \in {"admin", "member"} : Given(v, q, name)
      BY <2>1, <2>2, RoleSteps
    <2>4. v = u /\ q = o /\ name = "admin"
      BY <2>1, <2>3, RoleWrite DEF Given
    <2>5. ASSUME NEW r \in Requests, A!Register(r), request[r].first,
                 u = request[r].user, o = request[r].org
          PROVE  Alone(u, o)
      <3>1. request[r] # None /\ request'[r] = None
        BY <2>5, Writer DEF A!Writes, A!Wrote
      <3>2. StillFirst(request[r]) /\ request[r].op = "register" /\ request[r].read
        BY <2>5, <3>1 DEF A!Register, A!Ready, FirstInv
      <3> QED
        BY <2>5, <3>1, <3>2 DEF StillFirst
    <2>6. ASSUME NEW r \in Requests, A!CreateOrg(r), o \notin orgs PROVE A!Members(o) = {}
      BY <2>6 DEF Consistent, A!Members
    <2> QED
      BY <2>3, <2>4, <2>5, <2>6 DEF Given
  <1> QED
    BY <1>1, <1>2, <1>3, AccountRows, PTL DEF A!Spec, OneFirstAdministrator, A!OneFirstAdministrator

-----------------------------------------------------------------------------
(* Who was removed cannot sign in                                          *)

\* A deletion that overlapped none and no new organisation of its user knows
\* whether it deletes from the last one.
KnowsLast(q) ==
    q.read /\ q.op = "deleteAccount" =>
      A!SawUser(q, {"deleteAccount", "createOrg"}) \/ (A!OrgsOf(q.user) = {q.org} => q.only)
\* A password is written for a member, unless the member was deleted meanwhile.
WritesMember(q) ==
    q.read /\ q.op \in {"resetPassword", "changePassword"} =>
      A!SawUser(q, {"deleteAccount"}) \/ A!OrgsOf(q.user) # {} \/ q.user \in revived
SignInInv ==
    /\ A!RemovedCannotSignIn
    /\ \A r \in Requests : request[r] # None => KnowsLast(request[r]) /\ WritesMember(request[r])

LEMMA RevivedGrows ==
    ASSUME [A!Next]_(A!vars) PROVE revived \subseteq revived'
  BY AccountSteps DEF A!rows, A!tools, A!marks, Arrived, A!Read, A!Restart, A!Writes, A!CreateAccount, A!Register,
     A!NewAccount, A!DeleteAccount, A!ResetPassword, A!ChangePassword, A!WritePassword, A!CreateOrg, A!SelectProvider,
     A!SaveKey, A!ClearKey

LEMMA KnowsLastKept ==
    ASSUME AccountTypes, Consistent, SignInInv, [A!Next]_(A!vars),
           NEW p \in Requests, request'[p] # None, GoesOn(p)
    PROVE  KnowsLast(request[p])'
  <1> DEFINE q == request[p]
  <1> SUFFICES ASSUME q.read, q.op = "deleteAccount",
                      ~A!SawUser(request'[p], {"deleteAccount", "createOrg"})
               PROVE  \A o \in Orgs : role'[<<q.user, o>>] = role[<<q.user, o>>]
    <2>1. (\A o \in Orgs : role'[<<q.user, o>>] = role[<<q.user, o>>])
            => A!OrgsOf(q.user)' = A!OrgsOf(q.user)
      BY DEF GoesOn, A!OrgsOf
    <2> QED
      BY <2>1 DEF GoesOn, SignInInv, KnowsLast, A!OrgsOf
  <1>1. q.user \in Users /\ q.user \in accounts
    BY DEF GoesOn, Request, Consistent, Refers
  <1>2. ASSUME NEW r \in Requests, A!Writes(r), request[r].op \in {"deleteAccount", "createOrg"}
        PROVE  request[r].user # q.user
    BY <1>2 DEF GoesOn
  <1>3. ASSUME NEW r \in Requests, A!DeleteAccount(r)
        PROVE  \A o \in Orgs : role'[<<q.user, o>>] = role[<<q.user, o>>]
    <2>1. A!Writes(r) /\ request[r].op = "deleteAccount"
      BY <1>3 DEF A!Writes, A!DeleteAccount, A!Ready
    <2> QED
      BY <1>1, <1>2, <1>3, <2>1, Writer, RoleWrite DEF A!DeleteAccount
  <1>4. ASSUME NEW u \in Users, NEW o \in Orgs, NEW name \in {"admin", "member"}, Given(u, o, name)
        PROVE  \A x \in Orgs : role'[<<q.user, x>>] = role[<<q.user, x>>]
    <2>1. ASSUME NEW r \in Requests, A!CreateOrg(r) PROVE request[r].user # q.user
      BY <1>2, <2>1 DEF A!Writes, A!CreateOrg, A!Ready
    <2>2. ~A!Restart
      BY DEF A!Restart
    <2>3. u # q.user
      BY <1>1, <1>4, <2>1, <2>2 DEF Given
    <2> QED
      BY <1>1, <1>4, <2>3, RoleWrite DEF Given
  <1> QED
    BY <1>3, <1>4, RoleSteps

LEMMA WritesMemberKept ==
    ASSUME AccountTypes, Consistent, SignInInv, [A!Next]_(A!vars),
           NEW p \in Requests, GoesOn(p)
    PROVE  WritesMember(request[p])'
  <1> DEFINE q == request[p]
  <1> SUFFICES ASSUME q.read, q.op \in {"resetPassword", "changePassword"},
                      ~A!SawUser(request'[p], {"deleteAccount"}), q.user \notin revived'
               PROVE  \E o \in Orgs : role'[<<q.user, o>>] # None
    BY DEF GoesOn, WritesMember, A!OrgsOf
  <1>1. q.user \in Users /\ q.user \notin revived
    BY RevivedGrows DEF GoesOn, Request
  <1>2. PICK o \in Orgs : role[<<q.user, o>>] # None
    BY <1>1 DEF GoesOn, SignInInv, WritesMember, A!OrgsOf
  <1>3. ASSUME NEW r \in Requests, A!DeleteAccount(r) PROVE role'[<<q.user, o>>] # None
    <2>1. A!Writes(r) /\ request[r].op = "deleteAccount"
      BY <1>3 DEF A!Writes, A!DeleteAccount, A!Ready
    <2>2. request[r].user # q.user
      BY <2>1 DEF GoesOn
    <2> QED
      BY <1>1, <1>2, <1>3, <2>1, <2>2, Writer, RoleWrite DEF A!DeleteAccount
  <1>4. ASSUME NEW u \in Users, NEW x \in Orgs, NEW name \in {"admin", "member"}, Given(u, x, name)
        PROVE  role'[<<q.user, o>>] # None
    BY <1>1, <1>2, <1>4, RoleWrite DEF Given
  <1> QED
    BY <1>2, <1>3, <1>4, RoleSteps

LEMMA SignInStep ==
    ASSUME AccountTypes, Consistent, SignInInv, [A!Next]_(A!vars)
    PROVE  SignInInv'
  <1>1. ASSUME NEW p \in Requests, request'[p] # None
        PROVE  KnowsLast(request[p])' /\ WritesMember(request[p])'
    <2>1. CASE \E q \in Request : Arrived(p, q) /\ request'[p] = q
      BY <2>1 DEF Arrived, KnowsLast, WritesMember
    <2>2. CASE A!Read(p)
      <3> DEFINE q == request[p]
      <3>1. /\ q \in Request /\ q.user \in Users /\ q.org \in Orgs
            /\ request'[p].op = q.op /\ request'[p].user = q.user /\ request'[p].org = q.org
            /\ request'[p].only = A!Only(q.user, q.org)
            /\ UNCHANGED <<role, revived>>
        BY <2>2 DEF A!Read, AccountTypes, Request, A!marks
      <3>2. A!OrgsOf(q.user) = {q.org} => A!Only(q.user, q.org)
        BY <3>1 DEF A!Only
      <3>3. A!OrgsOf(q.user)' = A!OrgsOf(q.user)
        BY <3>1 DEF A!OrgsOf
      <3>4. KnowsLast(request[p])'
        BY <3>1, <3>2, <3>3 DEF KnowsLast, A!OrgsOf
      <3>5. q.op \in {"resetPassword", "changePassword"} =>
              A!OrgsOf(q.user) # {} \/ q.user \in revived
        <4>1. q.op = "resetPassword" => role[<<q.user, q.org>>] = "member"
          BY <2>2 DEF A!Read, A!Accepted, A!Resettable
        <4>2. q.op = "changePassword" => password[q.user] # None
          BY <2>2 DEF A!Read, A!Accepted
        <4> QED
          BY <3>1, <4>1, <4>2, PeopleAssumption
             DEF SignInInv, A!RemovedCannotSignIn, A!OrgsOf, A!AccountsAssumption
      <3> QED
        BY <3>1, <3>3, <3>4, <3>5 DEF WritesMember, A!OrgsOf
    <2>3. CASE GoesOn(p)
      BY <1>1, <2>3, KnowsLastKept, WritesMemberKept
    <2> QED
      BY <1>1, <2>1, <2>2, <2>3, Others
  <1>2. ASSUME NEW u \in Users, \A o \in Orgs : role'[<<u, o>>] = None, password'[u] # None
        PROVE  u \in revived'
    <2>1. CASE password'[u] = password[u] /\ \A o \in Orgs : role[<<u, o>>] = None
      BY <1>2, <2>1, RevivedGrows DEF SignInInv, A!RemovedCannotSignIn, A!OrgsOf
    <2>2. ASSUME NEW r \in Requests, A!Writes(r), request[r].user = u PROVE u \in revived'
      <3>0. PICK o \in Orgs : o = request[r].org
        BY <2>2, Writer
      <3>1. request[r] # None /\ request[r].read
        BY <2>2, Writer
      <3>2. CASE A!CreateAccount(r) \/ A!Register(r)
        <4>1. \E name \in {"admin", "member"} : role' = [role EXCEPT ![<<u, o>>] = name]
          BY <2>2, <3>0, <3>2 DEF A!CreateAccount, A!Register, A!NewAccount
        <4>2. role'[<<u, o>>] \in {"admin", "member"}
          BY <1>2, <3>0, <4>1 DEF AccountTypes
        <4> QED
          BY <1>2, <3>1, <4>2, PeopleAssumption DEF A!AccountsAssumption
      <3>3. CASE A!DeleteAccount(r)
        <4>1. CASE A!SawUser(request[r], {"deleteAccount", "createOrg"})
          BY <2>2, <3>3, <4>1 DEF A!DeleteAccount
        <4>2. CASE ~A!SawUser(request[r], {"deleteAccount", "createOrg"})
          <5>0. role' = [role EXCEPT ![<<u, o>>] = None]
            BY <2>2, <3>0, <3>3 DEF A!DeleteAccount
          <5>1. \A x \in Orgs : role'[<<u, x>>] = IF x = o THEN None ELSE role[<<u, x>>]
            BY <1>2, <3>0, <5>0, RoleWrite
          <5>2. role[<<u, o>>] # None
            BY <2>2, <3>0, <3>3 DEF A!DeleteAccount
          <5>3. A!OrgsOf(u) = {o}
            BY <1>2, <3>1, <5>1, <5>2 DEF A!OrgsOf
          <5>4. request[r].only
            BY <2>2, <3>0, <3>1, <3>3, <4>2, <5>3 DEF SignInInv, KnowsLast, A!DeleteAccount, A!Ready
          <5> QED
            BY <1>2, <2>2, <3>3, <5>4 DEF A!DeleteAccount, AccountTypes
        <4> QED
          BY <4>1, <4>2
      <3>4. CASE A!ResetPassword(r) \/ A!ChangePassword(r)
        <4>1. /\ request[r].op \in {"resetPassword", "changePassword"}
              /\ UNCHANGED role
              /\ revived' = IF A!SawUser(request[r], {"deleteAccount"})
                            THEN revived \cup {u} ELSE revived
          BY <2>2, <3>4 DEF A!ResetPassword, A!ChangePassword, A!WritePassword, A!Ready
        <4> QED
          BY <1>2, <2>2, <3>1, <4>1 DEF SignInInv, WritesMember, A!OrgsOf
      <3>5. CASE A!CreateOrg(r)
        <4>1. role' = [role EXCEPT ![<<u, o>>] = "admin"]
          BY <2>2, <3>0, <3>5 DEF A!CreateOrg
        <4>2. role'[<<u, o>>] = "admin"
          BY <1>2, <3>0, <4>1 DEF AccountTypes
        <4> QED
          BY <1>2, <3>1, <4>2, PeopleAssumption DEF A!AccountsAssumption
      <3>6. CASE A!SelectProvider(r) \/ A!SaveKey(r) \/ A!ClearKey(r)
        BY <1>2, <2>1, <3>6 DEF A!SelectProvider, A!SaveKey, A!ClearKey, A!rows
      <3> QED
        BY <2>2, <3>2, <3>3, <3>4, <3>5, <3>6 DEF A!Writes
    <2>3. ASSUME NEW r \in Requests, A!Writes(r), request[r].user # u PROVE u \in revived'
      <3>1. UNCHANGED password \/ \E x : password' = [password EXCEPT ![request[r].user] = x]
        BY <2>3 DEF A!Writes, A!CreateAccount, A!Register, A!NewAccount, A!DeleteAccount, A!ResetPassword,
                    A!ChangePassword, A!WritePassword, A!CreateOrg, A!SelectProvider, A!SaveKey, A!ClearKey,
                    A!rows
      <3>2. \/ UNCHANGED role
            \/ \E x : role' = [role EXCEPT ![<<request[r].user, request[r].org>>] = x]
        BY <2>3 DEF A!Writes, A!CreateAccount, A!Register, A!NewAccount, A!DeleteAccount, A!ResetPassword,
                    A!ChangePassword, A!WritePassword, A!CreateOrg, A!SelectProvider, A!SaveKey, A!ClearKey,
                    A!rows
      <3>3. password'[u] = password[u]
        BY <2>3, <3>1 DEF AccountTypes
      <3>4. \A o \in Orgs : role'[<<u, o>>] = role[<<u, o>>]
        BY <2>3, <3>2, Writer, RoleWrite
      <3> QED
        BY <1>2, <2>1, <3>3, <3>4
    <2>4. CASE A!Restart
      <3>1. CASE u = Seeded
        BY <1>2, <2>4, <3>1, PeopleAssumption DEF A!Restart, A!Seed, AccountTypes, A!AccountsAssumption
      <3>2. CASE u # Seeded
        BY <1>2, <2>1, <2>4, <3>2 DEF A!Restart, A!Seed, AccountTypes
      <3> QED
        BY <3>1, <3>2
    <2>5. CASE UNCHANGED <<password, role>>
      BY <1>2, <2>1, <2>5
    <2> QED
      BY <2>2, <2>3, <2>4, <2>5, AccountSteps DEF Arrived, A!Read, A!rows
  <1> QED
    BY <1>1, <1>2 DEF SignInInv, A!RemovedCannotSignIn, A!OrgsOf

\* Accounts keeps RemovedCannotSignIn: a deleted account has no password,
\* unless its deletion overlapped a write to it (signInDisabled).
THEOREM RemovedStayOut == A!Spec => []RemovedCannotSignIn
  <1>1. A!Init => SignInInv
    BY DEF A!Init, SignInInv, A!RemovedCannotSignIn
  <1>2. AccountTypes /\ Consistent /\ SignInInv /\ [A!Next]_(A!vars) => SignInInv'
    BY SignInStep
  <1>3. SignInInv => RemovedCannotSignIn
    BY DEF SignInInv, RemovedCannotSignIn, A!RemovedCannotSignIn
  <1> QED
    BY <1>1, <1>2, <1>3, AccountRows, PTL DEF A!Spec

-----------------------------------------------------------------------------
(* Kimi is selected with its key                                           *)

KeyStored(q) ==
    q.read /\ q.op = "selectProvider" /\ q.editor = "kimi" =>
      "kimi" \in keys[q.org] \/ A!SawOrg(q, "clearKey")
KimiInv ==
    /\ A!KimiHasItsKey
    /\ \A r \in Requests : request[r] # None => KeyStored(request[r])

LEMMA KimiStep ==
    ASSUME AccountTypes, KimiInv, [A!Next]_(A!vars)
    PROVE  KimiInv'
  <1> USE DEF A!tools, A!marks
  <1>1. \/ UNCHANGED <<keys, provider, crossed>>
        \/ \E r \in Requests : A!SelectProvider(r) \/ A!SaveKey(r) \/ A!ClearKey(r)
    BY AccountSteps, ZenonT(60) DEF Arrived, A!Read, A!Restart, A!Writes, A!CreateAccount, A!Register, A!NewAccount, A!DeleteAccount,
                 A!ResetPassword, A!ChangePassword, A!WritePassword, A!CreateOrg
  <1>2. ASSUME NEW p \in Requests, request'[p] # None PROVE KeyStored(request[p])'
    <2>1. CASE \E q \in Request : Arrived(p, q) /\ request'[p] = q
      BY <2>1 DEF Arrived, KeyStored
    <2>2. CASE A!Read(p)
      <3>1. /\ request[p] \in Request /\ UNCHANGED keys
            /\ request'[p].op = request[p].op /\ request'[p].org = request[p].org
            /\ request'[p].editor = request[p].editor
        BY <2>2 DEF A!Read, AccountTypes, Request
      <3>2. request[p].op = "selectProvider" => request[p].editor \in keys[request[p].org]
        BY <2>2 DEF A!Read, A!Accepted
      <3> QED
        BY <3>1, <3>2 DEF KeyStored
    <2>3. CASE GoesOn(p)
      <3> DEFINE o == request[p].org
      <3> SUFFICES ASSUME o \in Orgs, "kimi" \in keys[o], ~A!SawOrg(request'[p], "clearKey")
                   PROVE  "kimi" \in keys'[o]
        BY <2>3 DEF GoesOn, Request, KimiInv, KeyStored
      <3>1. ASSUME NEW r \in Requests, A!ClearKey(r) PROVE "kimi" \in keys'[o]
        <4>1. A!Writes(r) /\ request[r].op = "clearKey"
          BY <3>1 DEF A!Writes, A!ClearKey, A!Ready
        <4>2. request[r].org # o
          BY <2>3, <4>1 DEF GoesOn
        <4> QED
          BY <3>1, <4>2 DEF A!ClearKey, AccountTypes
      <3>2. ASSUME NEW r \in Requests, A!SelectProvider(r) \/ A!SaveKey(r) PROVE "kimi" \in keys'[o]
        BY <3>2 DEF A!SelectProvider, A!SaveKey, AccountTypes
      <3> QED
        BY <1>1, <3>1, <3>2
    <2> QED
      BY <1>2, <2>1, <2>2, <2>3, Others
  <1>3. ASSUME NEW o \in Orgs, provider'[o] = "kimi" PROVE "kimi" \in keys'[o] \/ o \in crossed'
    <2>1. CASE UNCHANGED <<keys, provider, crossed>>
      BY <1>3, <2>1 DEF KimiInv, A!KimiHasItsKey
    <2>2. ASSUME NEW r \in Requests, A!SelectProvider(r)
          PROVE  "kimi" \in keys'[o] \/ o \in crossed'
      <3>1. request[r] # None /\ KeyStored(request[r])
        BY <2>2, Writer DEF A!Writes, KimiInv
      <3> QED
        BY <1>3, <2>2, <3>1 DEF A!SelectProvider, A!Ready, KeyStored, KimiInv, A!KimiHasItsKey, AccountTypes
    <2>3. ASSUME NEW r \in Requests, A!SaveKey(r) \/ A!ClearKey(r)
          PROVE  "kimi" \in keys'[o] \/ o \in crossed'
      BY <1>3, <2>3 DEF A!SaveKey, A!ClearKey, A!Fallback, KimiInv, A!KimiHasItsKey, AccountTypes
    <2> QED
      BY <1>1, <2>1, <2>2, <2>3
  <1> QED
    BY <1>2, <1>3 DEF KimiInv, A!KimiHasItsKey

\* Accounts keeps KimiHasItsKey: the Kimi editor is selected only with its key
\* stored, unless selectModAiProvider overlapped the removal of the key.
THEOREM KimiKeepsItsKey == A!Spec => []KimiHasItsKey
  <1>1. A!Init => KimiInv
    BY DEF A!Init, KimiInv, A!KimiHasItsKey
  <1>2. AccountTypes /\ KimiInv /\ [A!Next]_(A!vars) => KimiInv'
    BY KimiStep
  <1>3. KimiInv => KimiHasItsKey
    BY DEF KimiInv, KimiHasItsKey, A!KimiHasItsKey
  <1> QED
    BY <1>1, <1>2, <1>3, AccountRows, PTL DEF A!Spec
=============================================================================
