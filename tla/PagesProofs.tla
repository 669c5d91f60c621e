----------------------------- MODULE PagesProofs ----------------------------
(***************************************************************************)
(* The Live Map page for every log window, every number of visits, players *)
(* and answers under way, and every world of ten blocks a side or more:    *)
(* the division of the world, what the end of the log says of the visit,   *)
(* the guards of the page's buttons.  Then its history, and the Server     *)
(* Logs page, for all their sizes and times.                               *)
(***************************************************************************)
EXTENDS Pages, SequenceTheorems, WellFoundedInduction, TLAPS

-----------------------------------------------------------------------------
(* The sections of a world                                                 *)

\* The sixteen buttons cover every block once, and none is empty or reaches
\* beyond the world, for every side of ten blocks or more.
THEOREM SectionsDivideWorlds == \A n \in Nat : n >= 10 => SectionsTile(n)
  <1> SUFFICES ASSUME NEW n \in Nat, n >= 10 PROVE SectionsTile(n)
    OBVIOUS
  <1>1. PICK q \in Int : q = (n + 3) \div 4 /\ 4 * q <= n + 3 /\ n + 3 < 4 * q + 4
    OBVIOUS
  <1>2. PICK l \in Int : l = Low(n)
    BY DEF Low
  <1>3. PICK h \in Int : h = High(n) /\ h = l + n - 1
    BY <1>2 DEF High
  <1>4. q = Ceil4(n) /\ 3 * q < n /\ n <= 4 * q
    BY <1>1 DEF Ceil4
  <1>5. ASSUME NEW c \in 0..3
        PROVE  /\ ColumnSpan(n, c) = (l + c * q) .. (IF h < l + c * q + q - 1 THEN h ELSE l + c * q + q - 1)
               /\ RowSpan(n, c) = (IF l > h - c * q - q + 1 THEN l ELSE h - c * q - q + 1) .. (h - c * q)
    BY <1>2, <1>3, <1>4 DEF ColumnSpan, RowSpan
  <1> DEFINE Blocks == l .. h
  <1>6. ASSUME NEW b \in Blocks PROVE \E c, r \in 0..3 : b \in ColumnSpan(n, c) /\ b \in RowSpan(n, r)
    <2>1. \E c \in 0..3 : b \in (l + c * q) .. (IF h < l + c * q + q - 1 THEN h ELSE l + c * q + q - 1)
      <3>1. CASE b < l + q
        BY <1>1, <1>3, <1>4, <3>1
      <3>2. CASE l + q <= b /\ b < l + 2 * q
        BY <1>1, <1>3, <1>4, <3>2
      <3>3. CASE l + 2 * q <= b /\ b < l + 3 * q
        BY <1>1, <1>3, <1>4, <3>3
      <3>4. CASE l + 3 * q <= b
        BY <1>1, <1>3, <1>4, <3>4
      <3> QED
        BY <3>1, <3>2, <3>3, <3>4
    <2>2. \E r \in 0..3 : b \in (IF l > h - r * q - q + 1 THEN l ELSE h - r * q - q + 1) .. (h - r * q)
      <3>1. CASE b > h - q
        BY <1>1, <1>3, <1>4, <3>1
      <3>2. CASE h - q >= b /\ b > h - 2 * q
        BY <1>1, <1>3, <1>4, <3>2
      <3>3. CASE h - 2 * q >= b /\ b > h - 3 * q
        BY <1>1, <1>3, <1>4, <3>3
      <3>4. CASE h - 3 * q >= b
        BY <1>1, <1>3, <1>4, <3>4
      <3> QED
        BY <3>1, <3>2, <3>3, <3>4
    <2> QED
      BY <1>5, <2>1, <2>2
  <1>7. ASSUME NEW i \in 0..3, NEW j \in 0..3, i < j
        PROVE  ColumnSpan(n, i) \cap ColumnSpan(n, j) = {} /\ RowSpan(n, i) \cap RowSpan(n, j) = {}
    <2>1. PICK a \in Int, b \in Int : a = i * q /\ b = j * q /\ a + q <= b
      <3>1. i = 0 \/ i = 1 \/ i = 2
        BY <1>7
      <3>2. j = 1 \/ j = 2 \/ j = 3
        BY <1>7
      <3> QED
        BY <1>1, <1>4, <1>7, <3>1, <3>2
    <2>2. /\ ColumnSpan(n, i) = (l + a) .. (IF h < l + a + q - 1 THEN h ELSE l + a + q - 1)
          /\ RowSpan(n, i) = (IF l > h - a - q + 1 THEN l ELSE h - a - q + 1) .. (h - a)
      BY <1>5, <2>1
    <2>3. /\ ColumnSpan(n, j) = (l + b) .. (IF h < l + b + q - 1 THEN h ELSE l + b + q - 1)
          /\ RowSpan(n, j) = (IF l > h - b - q + 1 THEN l ELSE h - b - q + 1) .. (h - b)
      BY <1>5, <2>1
    <2> HIDE DEF Blocks
    <2> QED
      BY <2>1, <2>2, <2>3
  <1>8. ASSUME NEW i \in 0..3
        PROVE  /\ ColumnSpan(n, i) # {} /\ ColumnSpan(n, i) \subseteq Blocks
               /\ RowSpan(n, i) # {} /\ RowSpan(n, i) \subseteq Blocks
    <2>1. PICK a \in Int : a = i * q /\ 0 <= a /\ a < n
      <3>1. i = 0 \/ i = 1 \/ i = 2 \/ i = 3
        OBVIOUS
      <3> QED
        BY <1>1, <1>4, <3>1
    <2>2. /\ ColumnSpan(n, i) = (l + a) .. (IF h < l + a + q - 1 THEN h ELSE l + a + q - 1)
          /\ RowSpan(n, i) = (IF l > h - a - q + 1 THEN l ELSE h - a - q + 1) .. (h - a)
      BY <1>5, <2>1
    <2>3. 0 <= a /\ a < n /\ h = l + n - 1 /\ q >= 1
      BY <1>1, <1>3, <2>1
    <2>4. /\ l + a <= (IF h < l + a + q - 1 THEN h ELSE l + a + q - 1)
          /\ (IF l > h - a - q + 1 THEN l ELSE h - a - q + 1) <= h - a
      BY ONLY <2>3, l \in Int, h \in Int, q \in Int, a \in Int, n \in Nat
    <2>5. l + a \in ColumnSpan(n, i) /\ h - a \in RowSpan(n, i)
      BY <2>2, <2>4
    <2>6. /\ (l + a) .. (IF h < l + a + q - 1 THEN h ELSE l + a + q - 1) \subseteq l .. h
          /\ (IF l > h - a - q + 1 THEN l ELSE h - a - q + 1) .. (h - a) \subseteq l .. h
      BY ONLY <2>3, l \in Int, h \in Int, q \in Int, a \in Int, n \in Nat
    <2> QED
      BY <2>2, <2>5, <2>6
  <1>9. ASSUME NEW i \in 0..3, NEW j \in 0..3, i # j
        PROVE  ColumnSpan(n, i) \cap ColumnSpan(n, j) = {} /\ RowSpan(n, i) \cap RowSpan(n, j) = {}
    <2>1. i < j \/ j < i
      BY <1>9
    <2> QED
      BY <1>7, <2>1
  <1> QED
    BY <1>2, <1>3, <1>6, <1>8, <1>9 DEF SectionsTile

-----------------------------------------------------------------------------
(* The log                                                                 *)

LogLine == [kind : LineKinds, at : Nat \ {0}, done : Nat]

\* Lines in the order of their times, none of the future, and while the game
\* visits none that ends a visit since this one began.
Ordered(lines) == \A i, j \in 1 .. Len(lines) : i <= j => lines[i].at <= lines[j].at
LogInv ==
    /\ now \in Nat \ {0} /\ log \in Seq(LogLine) /\ Ordered(log)
    /\ \A i \in 1 .. Len(log) : log[i].at <= now
    /\ begun \in Nat /\ done \in Nat /\ visits \in Nat
    /\ visiting \in BOOLEAN
    /\ visiting => /\ begun >= 1 /\ begun <= now /\ done < Total /\ visits >= 1
                   /\ \A i \in 1 .. Len(log) : Over(log[i]) => log[i].at <= begun

LEMMA Greatest ==
    ASSUME NEW n \in Nat, NEW S, S \subseteq 1 .. n, S # {}
    PROVE  Max(S) \in S /\ \A y \in S : Max(S) >= y
  <1> DEFINE Mirror == {n - x : x \in S}
  <1>1. Mirror \in SUBSET Nat /\ Mirror # {}
    <2>1. \A x \in S : x \in Int /\ n - x \in Nat
      OBVIOUS
    <2>2. PICK x \in S : TRUE
      OBVIOUS
    <2> QED
      BY <2>1, <2>2
  <1>2. PICK m \in Mirror : \A y \in Mirror : ~(<<y, m>> \in OpToRel(<, Nat))
    <2> HIDE DEF Mirror
    <2> QED
      BY <1>1, NatLessThanWellFounded, WFMin
  <1>3. PICK x \in S : m = n - x
    BY <1>2
  <1>4. ASSUME NEW y \in S PROVE x >= y
    <2>1. n - y \in Mirror /\ n - y \in Nat /\ m \in Nat
      BY <1>1
    <2>2. <<n - y, m>> \notin OpToRel(<, Nat)
      BY <1>2, <2>1
    <2>3. <<n - y, m>> \in OpToRel(<, Nat) <=> n - y < m
      BY <2>1 DEF OpToRel
    <2>4. ~ (n - y < m)
      BY <2>2, <2>3, Zenon
    <2> QED
      BY <1>3, <2>1, <2>4
  <1> QED
    BY <1>3, <1>4 DEF Max

LEMMA GreaterOfTwo ==
    ASSUME NEW a \in Nat, NEW b \in Nat
    PROVE  Max({a, b}) \in {a, b} /\ Max({a, b}) >= a /\ Max({a, b}) >= b
  BY DEF Max

\* The last line of some kinds is the newest of them.
LEMMA LastIsNewest ==
    ASSUME LogInv, NEW kinds
    PROVE  \/ LastLine(kinds) = NoLine /\ \A i \in 1 .. Len(log) : log[i].kind \notin kinds
           \/ \E k \in 1 .. Len(log) :
                 /\ LastLine(kinds) = log[k] /\ log[k].kind \in kinds
                 /\ \A i \in 1 .. Len(log) : log[i].kind \in kinds => log[i].at <= log[k].at
  <1> DEFINE at == {i \in 1 .. Len(log) : log[i].kind \in kinds}
  <1>1. CASE at = {}
    BY <1>1 DEF LastLine
  <1>2. CASE at # {}
    <2>1. Max(at) \in at /\ \A i \in at : Max(at) >= i
      <3>1. Len(log) \in Nat /\ at \subseteq 1 .. Len(log)
        BY DEF LogInv
      <3> HIDE DEF at
      <3> QED
        BY <1>2, <3>1, Greatest
    <2>2. LastLine(kinds) = log[Max(at)]
      BY <1>2 DEF LastLine
    <2>3. \A i \in at : log[i].at <= log[Max(at)].at
      BY <2>1 DEF LogInv, Ordered
    <2> QED
      BY <2>1, <2>2, <2>3
  <1> QED
    BY <1>1, <1>2

\* What the web server reads from the log, while the game visits and the log
\* tells.
LEMMA StatusIsActive == LogInv => StatusTruthful
  <1> SUFFICES ASSUME LogInv, visiting, ~ Blind PROVE Status \in Active
    BY DEF StatusTruthful
  <1>1. PICK b \in Nat : b = begun /\ b >= 1
    BY DEF LogInv
  <1>2. PICK p : p = LastLine({"progress"})
    OBVIOUS
  <1>3. PICK s : s = LastLine({"start"})
    OBVIOUS
  <1>4. PICK e : e = LastLine({"stop"})
    OBVIOUS
  <1>5. PICK f : f = LastLine({"stopped", "complete"})
    OBVIOUS
  <1>6. \A i \in 1 .. Len(log) : log[i] \in LogLine /\ log[i].at \in Nat /\ log[i].at > 0
    <2> SUFFICES ASSUME NEW i \in 1 .. Len(log)
                 PROVE  log[i] \in LogLine /\ log[i].at \in Nat /\ log[i].at > 0
      OBVIOUS
    <2>1. log[i] \in LogLine
      BY DEF LogInv
    <2>2. PICK t \in Nat \ {0} : t = log[i].at
      BY <2>1 DEF LogLine
    <2> QED
      BY <2>1, <2>2
  <1>7. NoLine.at = 0 /\ NoLine.kind = "other"
    BY DEF NoLine
  <1>8. /\ p.at \in Nat /\ s.at \in Nat /\ e.at \in Nat /\ f.at \in Nat
        /\ \A i \in 1 .. Len(log) : /\ log[i].kind = "progress" => log[i].at <= p.at
                                    /\ log[i].kind = "start" => log[i].at <= s.at
        /\ p = NoLine \/ \E k \in 1 .. Len(log) : p = log[k] /\ p.kind = "progress"
        /\ s = NoLine \/ \E k \in 1 .. Len(log) : s = log[k] /\ s.kind = "start"
        /\ e = NoLine \/ \E k \in 1 .. Len(log) : e = log[k] /\ Over(e)
        /\ f = NoLine \/ \E k \in 1 .. Len(log) : f = log[k] /\ Over(f)
    <2>1. p.at \in Nat /\ (\A i \in 1 .. Len(log) : log[i].kind = "progress" => log[i].at <= p.at)
          /\ (p = NoLine \/ \E k \in 1 .. Len(log) : p = log[k] /\ p.kind = "progress")
      BY <1>2, <1>6, <1>7, LastIsNewest
    <2>2. s.at \in Nat /\ (\A i \in 1 .. Len(log) : log[i].kind = "start" => log[i].at <= s.at)
          /\ (s = NoLine \/ \E k \in 1 .. Len(log) : s = log[k] /\ s.kind = "start")
      BY <1>3, <1>6, <1>7, LastIsNewest
    <2>3. e.at \in Nat /\ (e = NoLine \/ \E k \in 1 .. Len(log) : e = log[k] /\ Over(e))
      BY <1>4, <1>6, <1>7, LastIsNewest DEF Over, Ends
    <2>4. f.at \in Nat /\ (f = NoLine \/ \E k \in 1 .. Len(log) : f = log[k] /\ Over(f))
      BY <1>5, <1>6, <1>7, LastIsNewest DEF Over, Ends
    <2> QED
      BY <2>1, <2>2, <2>3, <2>4
  <1>9. PICK m \in Nat : m = Newest /\ m \in {s.at, p.at} /\ m >= s.at /\ m >= p.at
    <2>1. Newest = Max({s.at, p.at})
      BY <1>2, <1>3 DEF Newest
    <2> QED
      BY <1>8, <2>1, GreaterOfTwo
  <1>10. \A k \in 1 .. Len(log) : Over(log[k]) => log[k].at < m
    <2> SUFFICES ASSUME NEW k \in 1 .. Len(log), Over(log[k]) PROVE log[k].at < m
      OBVIOUS
    <2>1. log[k].at <= b /\ log[k].at \in Nat
      BY <1>1, <1>6 DEF LogInv
    <2>2. PICK i \in 1 .. Len(log) :
              /\ log[i].kind \in {"start", "progress"}
              /\ \/ log[i].at > b
                 \/ log[i].at = b /\ ~ (log[k].at = b)
      <3>1. CASE \E i \in 1 .. Len(log) : log[i].kind \in {"start", "progress"} /\ ~ (log[i].at <= b)
        BY <1>6, <3>1
      <3>2. CASE \A i \in 1 .. Len(log) : log[i].kind \in {"start", "progress"} => log[i].at <= b
        BY <1>1, <3>2 DEF Blind
      <3> QED
        BY <3>1, <3>2
    <2>3. log[i].at <= m
      BY <1>6, <1>8, <1>9, <2>2
    <2> QED
      BY <1>6, <2>1, <2>2, <2>3
  <1>11. m > 0
    <2>1. PICK i \in 1 .. Len(log) : log[i].kind \in {"start", "progress"}
      BY <1>1, <1>6 DEF Blind
    <2>2. log[i].at <= m
      BY <1>6, <1>8, <1>9, <2>1, SMTT(30)
    <2> QED
      BY <1>6, <2>2
  <1>12. ~ (e.at >= m) /\ ~ (f.at >= m) /\ ~ (m = p.at /\ Over(p))
    <2>1. e.at < m
      BY <1>7, <1>8, <1>10, <1>11
    <2>2. f.at < m
      BY <1>7, <1>8, <1>10, <1>11
    <2>3. ~ (m = p.at /\ Over(p))
      BY <1>7, <1>8, <1>10, <1>11
    <2> QED
      BY <1>8, <2>1, <2>2, <2>3
  <1> QED
    BY <1>2, <1>4, <1>5, <1>9, <1>12 DEF Status, Active

LEMMA Suffix ==
    ASSUME NEW S, NEW s \in Seq(S), NEW k \in Nat, k <= Len(s)
    PROVE  /\ SubSeq(s, k + 1, Len(s)) \in Seq(S) /\ Len(SubSeq(s, k + 1, Len(s))) = Len(s) - k
           /\ \A i \in 1 .. Len(s) - k : SubSeq(s, k + 1, Len(s))[i] = s[i + k]
  <1>1. PICK a \in Int, b \in Int : a = k + 1 /\ b = Len(s)
    OBVIOUS
  <1>2. \A i \in a .. b : s[i] \in S
    BY <1>1
  <1>3. /\ SubSeq(s, a, b) \in Seq(S) /\ Len(SubSeq(s, a, b)) = IF a <= b THEN b - a + 1 ELSE 0
        /\ \A i \in 1 .. b - a + 1 : SubSeq(s, a, b)[i] = s[a + i - 1]
    BY ONLY <1>2, SubSeqProperties, a \in Int, b \in Int
  <1>4. ASSUME NEW i \in 1 .. Len(s) - k PROVE SubSeq(s, a, b)[i] = s[i + k]
    <2>1. i \in 1 .. b - a + 1 /\ a + i - 1 = i + k
      BY <1>1
    <2> QED
      BY <1>3, <2>1
  <1>5. Len(SubSeq(s, a, b)) = Len(s) - k
    BY <1>1, <1>3
  <1> QED
    BY <1>1, <1>3, <1>4, <1>5

\* A line of this second.
LEMMA NewLine ==
    ASSUME now \in Nat \ {0}, NEW kind \in LineKinds, NEW chunks \in Nat
    PROVE  \E x \in LogLine : /\ x = Line(kind, chunks)
                              /\ x.kind = kind /\ x.at = now /\ x.done = chunks
  <1>1. PICK t \in Nat \ {0} : t = now
    OBVIOUS
  <1>2. [kind |-> kind, at |-> t, done |-> chunks] \in [kind : LineKinds, at : Nat \ {0}, done : Nat]
    OBVIOUS
  <1> QED
    BY <1>1, <1>2 DEF Line, LogLine

LEMMA OneLine ==
    ASSUME NEW S, NEW x \in S
    PROVE  <<x>> \in Seq(S) /\ Len(<<x>>) = 1 /\ <<x>>[1] = x /\ <<x>> # <<>>
  <1>1. <<x>> \in Seq(S)
    OBVIOUS
  <1> QED
    BY <1>1

\* What a step logs: one line, and perhaps a report.
LEMMA LineAndReport ==
    ASSUME NEW x \in LogLine, NEW y \in LogLine, NEW report, report = <<>> \/ report = <<y>>
    PROVE  /\ <<x>> \o report \in Seq(LogLine)
           /\ \A i \in 1 .. Len(<<x>> \o report) :
                 (<<x>> \o report)[i] = x \/ (report # <<>> /\ (<<x>> \o report)[i] = y)
  <1>1. PICK first \in Seq(LogLine) : first = <<x>> /\ Len(first) = 1 /\ first[1] = x
    BY OneLine
  <1>2. PICK last \in Seq(LogLine) : /\ last = report /\ Len(last) \in Nat
                               /\ \A i \in 1 .. Len(last) : i = 1 /\ last[i] = y /\ report # <<>>
    <2>1. CASE report = <<>>
      <3>1. PICK none \in Seq(LogLine) : none = <<>> /\ Len(none) = 0
        BY EmptySeq
      <3>2. \A i \in 1 .. Len(none) : i = 1 /\ none[i] = y /\ report # <<>>
        BY <3>1
      <3> QED
        BY <2>1, <3>1, <3>2
    <2>2. CASE report = <<y>>
      <3>1. PICK one \in Seq(LogLine) : one = <<y>> /\ Len(one) = 1 /\ one[1] = y /\ one # <<>>
        BY OneLine
      <3>2. \A i \in 1 .. Len(one) : i = 1 /\ one[i] = y /\ one # <<>>
        BY <3>1
      <3> QED
        BY <2>2, <3>1, <3>2
    <2> QED
      BY <2>1, <2>2
  <1>3. /\ first \o last \in Seq(LogLine) /\ Len(first \o last) = 1 + Len(last)
        /\ \A i \in 1 .. 1 + Len(last) :
              (first \o last)[i] = IF i <= 1 THEN first[i] ELSE last[i - 1]
    BY <1>1, ConcatProperties
  <1>4. ASSUME NEW i \in 1 .. Len(first \o last)
        PROVE  (first \o last)[i] = x \/ (report # <<>> /\ (first \o last)[i] = y)
    <2>1. CASE i = 1
      BY <1>1, <1>3, <2>1
    <2>2. CASE i > 1
      <3>1. i - 1 \in 1 .. Len(last) /\ (first \o last)[i] = last[i - 1]
        BY <1>2, <1>3, <2>2
      <3> QED
        BY <1>2, <3>1
    <2> QED
      BY <1>2, <1>3, <2>1, <2>2
  <1> QED
    BY <1>1, <1>2, <1>3, <1>4

\* The log with lines of this second is in order, and its lines are old ones
\* or these.
LEMMA LoggedLines ==
    ASSUME LogInv, NEW new \in Seq(LogLine), \A i \in 1 .. Len(new) : new[i].at = now
    PROVE  /\ Logged(new) \in Seq(LogLine) /\ Ordered(Logged(new))
           /\ \A i \in 1 .. Len(Logged(new)) :
                 /\ Logged(new)[i].at <= now
                 /\ \/ \E j \in 1 .. Len(log) : Logged(new)[i] = log[j]
                    \/ \E j \in 1 .. Len(new) : Logged(new)[i] = new[j]
  <1> DEFINE all == log \o new
  <1>1. /\ all \in Seq(LogLine) /\ Len(all) = Len(log) + Len(new)
        /\ \A i \in 1 .. Len(all) : all[i] = IF i <= Len(log) THEN log[i] ELSE new[i - Len(log)]
    BY ConcatProperties DEF LogInv
  <1>2. Len(log) \in Nat /\ Len(new) \in Nat /\ now \in Nat /\ LogWindow \in Nat \ {0}
    BY LiveMapAssumption DEF LogInv, LiveMapAssumption
  <1>3. \A i \in 1 .. Len(log) : log[i].at <= now /\ log[i].at \in Nat
    <2>1. \A i \in 1 .. Len(log) : log[i] \in LogLine
      BY DEF LogInv
    <2> QED
      BY <2>1 DEF LogInv, LogLine
  <1>4. ASSUME NEW i \in 1 .. Len(all)
        PROVE  /\ all[i].at <= now
               /\ \/ \E j \in 1 .. Len(log) : all[i] = log[j]
                  \/ \E j \in 1 .. Len(new) : all[i] = new[j]
    <2>1. CASE i <= Len(log)
      BY <1>1, <1>2, <1>3, <2>1
    <2>2. CASE i > Len(log)
      <3>1. i - Len(log) \in 1 .. Len(new) /\ all[i] = new[i - Len(log)]
        BY <1>1, <1>2, <2>2
      <3> QED
        BY <1>2, <3>1
    <2> QED
      BY <1>2, <2>1, <2>2
  <1>5. ASSUME NEW i \in 1 .. Len(all), NEW j \in 1 .. Len(all), i <= j PROVE all[i].at <= all[j].at
    <2>1. CASE j <= Len(log)
      BY <1>1, <1>2, <1>5, <2>1 DEF LogInv, Ordered
    <2>2. CASE j > Len(log)
      <3>1. j - Len(log) \in 1 .. Len(new) /\ all[j] = new[j - Len(log)]
        BY <1>1, <1>2, <2>2
      <3>2. all[j].at = now
        BY <3>1
      <3> QED
        BY <1>4, <3>2
    <2> QED
      BY <1>2, <2>1, <2>2
  <1>6. PICK k \in Nat : /\ k <= Len(all) /\ Logged(new) \in Seq(LogLine)
                         /\ Len(Logged(new)) = Len(all) - k
                         /\ \A i \in 1 .. Len(all) - k : Logged(new)[i] = all[i + k]
    <2> DEFINE k == IF Len(all) > LogWindow THEN Len(all) - LogWindow ELSE 0
    <2>1. k \in Nat /\ k <= Len(all)
          /\ k + 1 = (IF Len(all) > LogWindow THEN Len(all) - LogWindow + 1 ELSE 1)
      BY <1>1, <1>2
    <2>2. Logged(new) = SubSeq(all, k + 1, Len(all))
      BY <2>1 DEF Logged
    <2> HIDE DEF all, k
    <2>3. /\ Logged(new) \in Seq(LogLine) /\ Len(Logged(new)) = Len(all) - k
          /\ \A i \in 1 .. Len(all) - k : Logged(new)[i] = all[i + k]
      <3>1. PICK s \in Seq(LogLine) : s = all
        BY <1>1
      <3>2. PICK n \in Nat : n = k /\ n <= Len(s)
        BY <2>1, <3>1
      <3>3. /\ SubSeq(s, n + 1, Len(s)) \in Seq(LogLine) /\ Len(SubSeq(s, n + 1, Len(s))) = Len(s) - n
            /\ \A i \in 1 .. Len(s) - n : SubSeq(s, n + 1, Len(s))[i] = s[i + n]
        BY ONLY <3>1, <3>2, Suffix
      <3> QED
        BY ONLY <2>2, <3>1, <3>2, <3>3
    <2> QED
      BY <2>1, <2>3
  <1>7. \A i \in 1 .. Len(Logged(new)) : i + k \in 1 .. Len(all) /\ Logged(new)[i] = all[i + k]
    BY <1>1, <1>2, <1>6
  <1> HIDE DEF all
  <1>8. Ordered(Logged(new))
    <2> SUFFICES ASSUME NEW i \in 1 .. Len(Logged(new)), NEW j \in 1 .. Len(Logged(new)), i <= j
                 PROVE  Logged(new)[i].at <= Logged(new)[j].at
      BY DEF Ordered
    <2>1. i + k <= j + k /\ i + k \in 1 .. Len(all) /\ j + k \in 1 .. Len(all)
      BY <1>7
    <2> QED
      BY <1>5, <1>7, <2>1
  <1> QED
    BY <1>4, <1>6, <1>7, <1>8, ZenonT(60)

-----------------------------------------------------------------------------
(* The commands, and the game's steps                                      *)

Commands == {"start", "stop"}

SendInv ==
    /\ sending # "no" => command \in Commands
    /\ run # "none" => sending = "poll"
    /\ late \subseteq Commands

LEMMA SendStep == SendInv /\ [Next]_vars => SendInv'
  <1> SUFFICES ASSUME SendInv, [Next]_vars PROVE SendInv'
    OBVIOUS
  <1> USE DEF SendInv, sendVars, Commands
  <1>1. CASE Tick \/ Visit \/ OtherLine \/ GameStops \/ PlayerJoins \/ PlayerLeaves
    BY <1>1 DEF Tick, Visit, OtherLine, GameStops, PlayerJoins, PlayerLeaves
  <1>2. CASE OpenSession \/ SessionExpires \/ Load \/ LoadFails
    BY <1>2 DEF OpenSession, SessionExpires, Load, LoadFails
  <1>3. CASE PollStatus \/ PollEntities \/ StatusArrives \/ EntitiesArrive
    BY <1>3 DEF PollStatus, PollEntities, Poll, StatusArrives, EntitiesArrive
  <1>4. CASE Generate \/ StopVisitMap \/ PostRun \/ PostFails
    BY <1>4 DEF Generate, StopVisitMap, CanStart, Send, PostRun, PostFails, SendEnds
  <1>5. CASE PollSucceeded \/ PollFailed \/ PollAgain \/ GiveUp
    BY <1>5 DEF PollSucceeded, PollFailed, PollAgain, GiveUp, SendEnds
  <1>6. CASE RunCommand \/ RunLate \/ RunFails \/ VerifyStop \/ UNCHANGED vars
    BY <1>6 DEF RunCommand, RunLate, RunFails, VerifyStop, vars
  <1> QED
    BY <1>1, <1>2, <1>3, <1>4, <1>5, <1>6 DEF Next

\* What a command does to the log and the visit.
LEMMA CommandLogged ==
    ASSUME LogInv, NEW c \in Commands, Execute(c)
    PROVE  LogInv' /\ visits' >= visits /\ (visits' = visits => (visiting' => visiting))
  <1>1. PICK report \in {<<>>, <<Line("stopped", 0)>>} :
            /\ report # <<>> => c = "stop" /\ visiting
            /\ log' = Logged(<<Line(c, 0)>> \o report)
    BY DEF Execute
  <1>2. now \in Nat \ {0} /\ now' = now /\ visits \in Nat /\ Total \in Nat \ {0}
    BY LiveMapAssumption DEF LogInv, Execute, LiveMapAssumption
  <1>3. c \in LineKinds /\ "stopped" \in LineKinds /\ (c = "start" \/ c = "stop")
    BY DEF Commands, LineKinds
  <1>4. PICK x \in LogLine : x = Line(c, 0) /\ x.at = now /\ x.kind = c
    BY <1>2, <1>3, NewLine
  <1>5. PICK y \in LogLine : y = Line("stopped", 0) /\ y.at = now
    BY <1>2, <1>3, NewLine
  <1>6. PICK new \in Seq(LogLine) : /\ log' = Logged(new)
                                    /\ \A i \in 1 .. Len(new) : new[i] = x \/ (c = "stop" /\ new[i] = y)
    <2>1. report = <<>> \/ report = <<y>>
      BY <1>1, <1>5
    <2>2. /\ <<x>> \o report \in Seq(LogLine)
          /\ \A i \in 1 .. Len(<<x>> \o report) :
                (<<x>> \o report)[i] = x \/ (report # <<>> /\ (<<x>> \o report)[i] = y)
      BY <2>1, LineAndReport
    <2> QED
      BY <1>1, <1>4, <2>2
  <1>7. \A i \in 1 .. Len(new) : new[i].at = now
    BY <1>4, <1>5, <1>6
  <1>8. /\ log' \in Seq(LogLine) /\ Ordered(log')
        /\ \A i \in 1 .. Len(log') :
              /\ log'[i].at <= now
              /\ \/ \E j \in 1 .. Len(log) : log'[i] = log[j]
                 \/ \E j \in 1 .. Len(new) : log'[i] = new[j]
    BY <1>6, <1>7, LoggedLines
  <1>9. CASE c = "stop"
    <2>1. visiting' = FALSE /\ done' = 0 /\ begun' = 0 /\ visits' = visits
      BY <1>9 DEF Execute, EndVisit
    <2>2. LogInv'
      BY <1>2, <1>8, <2>1 DEF LogInv, Ordered
    <2> QED
      BY <1>2, <2>1, <2>2
  <1>10. CASE c = "start" /\ visiting
    <2>1. UNCHANGED <<visiting, done, visits, begun>>
      BY <1>10 DEF Execute
    <2>2. \A i \in 1 .. Len(new) : ~ Over(new[i])
      BY <1>4, <1>6, <1>10 DEF Over, Ends
    <2>3. \A i \in 1 .. Len(log') : Over(log'[i]) => log'[i].at <= begun
      BY <1>8, <1>10, <2>2 DEF LogInv
    <2>4. visits' >= visits
      BY <1>2, <2>1
    <2> QED
      BY <1>2, <1>8, <2>1, <2>3, <2>4 DEF LogInv, Ordered, Over
  <1>11. CASE c = "start" /\ ~ visiting
    <2>1. visiting' = TRUE /\ done' = 0 /\ visits' = visits + 1 /\ begun' = now
      BY <1>11 DEF Execute
    <2> QED
      BY <1>2, <1>8, <2>1 DEF LogInv, Ordered
  <1> QED
    BY <1>3, <1>9, <1>10, <1>11

LEMMA VisitLogged ==
    ASSUME LogInv, Visit
    PROVE  LogInv' /\ visits' = visits /\ (visiting' => visiting)
  <1>1. PICK report \in {<<>>, <<Line("complete", 0)>>} :
            /\ report # <<>> => done + 1 = Total
            /\ log' = Logged(<<Line("progress", done + 1)>> \o report)
    BY DEF Visit
  <1>2. /\ now \in Nat \ {0} /\ now' = now /\ visits \in Nat /\ Total \in Nat \ {0}
        /\ visiting /\ done \in Nat /\ done < Total
    BY LiveMapAssumption DEF LogInv, Visit, LiveMapAssumption
  <1>3. "progress" \in LineKinds /\ "complete" \in LineKinds /\ done + 1 \in Nat
    BY <1>2 DEF LineKinds
  <1>4. PICK x \in LogLine : /\ x = Line("progress", done + 1) /\ x.at = now
                             /\ x.kind = "progress" /\ x.done = done + 1
    BY <1>2, <1>3, NewLine
  <1>5. PICK y \in LogLine : y = Line("complete", 0) /\ y.at = now
    BY <1>2, <1>3, NewLine
  <1>6. PICK new \in Seq(LogLine) :
            /\ log' = Logged(new)
            /\ \A i \in 1 .. Len(new) : new[i] = x \/ (done + 1 = Total /\ new[i] = y)
    <2>1. report = <<>> \/ report = <<y>>
      BY <1>1, <1>5
    <2>2. /\ <<x>> \o report \in Seq(LogLine)
          /\ \A i \in 1 .. Len(<<x>> \o report) :
                (<<x>> \o report)[i] = x \/ (report # <<>> /\ (<<x>> \o report)[i] = y)
      BY <2>1, LineAndReport
    <2> QED
      BY <1>1, <1>4, <2>2
  <1>7. \A i \in 1 .. Len(new) : new[i].at = now
    BY <1>4, <1>5, <1>6
  <1>8. /\ log' \in Seq(LogLine) /\ Ordered(log')
        /\ \A i \in 1 .. Len(log') :
              /\ log'[i].at <= now
              /\ \/ \E j \in 1 .. Len(log) : log'[i] = log[j]
                 \/ \E j \in 1 .. Len(new) : log'[i] = new[j]
    BY <1>6, <1>7, LoggedLines
  <1>9. CASE done + 1 = Total
    <2>1. visiting' = FALSE /\ done' = 0 /\ begun' = 0 /\ visits' = visits
      BY <1>9 DEF Visit, EndVisit
    <2> QED
      BY <1>2, <1>8, <2>1 DEF LogInv, Ordered
  <1>10. CASE done + 1 # Total
    <2>1. UNCHANGED <<visiting, visits, begun>> /\ done' = done + 1 /\ done + 1 < Total
      BY <1>2, <1>10 DEF Visit
    <2>2. \A i \in 1 .. Len(new) : ~ Over(new[i])
      <3>1. ~ Over(x)
        BY <1>2, <1>4, <2>1 DEF Over, Ends
      <3> QED
        BY <1>6, <1>10, <3>1
    <2>3. \A i \in 1 .. Len(log') : Over(log'[i]) => log'[i].at <= begun
      BY <1>2, <1>8, <2>2 DEF LogInv
    <2> QED
      BY <1>2, <1>3, <1>8, <2>1, <2>3 DEF LogInv, Ordered, Over
  <1> QED
    BY <1>9, <1>10

\* The game ends or goes on; only a new visit has a new number.
LEMMA LogStep ==
    ASSUME LogInv, SendInv, [Next]_vars
    PROVE  LogInv' /\ visits' >= visits /\ (visits' = visits => (visiting' => visiting))
  <1> USE DEF gameVars
  <1>1. visits \in Nat /\ visits >= visits /\ now \in Nat
    BY DEF LogInv
  <1>2. ASSUME UNCHANGED <<now, gameVars>>
        PROVE  LogInv' /\ visits' >= visits /\ (visits' = visits => (visiting' => visiting))
    BY <1>1, <1>2 DEF LogInv, Ordered
  <1>3. CASE Tick
    <2>1. now' = now + 1 /\ UNCHANGED gameVars
      BY <1>3 DEF Tick
    <2>2. \A i \in 1 .. Len(log) : log[i] \in LogLine
      BY DEF LogInv
    <2>3. \A i \in 1 .. Len(log) : log[i].at <= now + 1
      BY <1>1, <2>2 DEF LogInv, LogLine
    <2> QED
      BY <1>1, <2>1, <2>3 DEF LogInv, Ordered
  <1>4. CASE Visit
    BY <1>1, <1>4, VisitLogged
  <1>5. CASE OtherLine
    <2>1. PICK x \in LogLine : x = Line("other", 0) /\ x.at = now /\ x.kind = "other"
      <3>1. now \in Nat \ {0} /\ "other" \in LineKinds /\ 0 \in Nat
        BY DEF LogInv, LineKinds
      <3> QED
        BY <3>1, NewLine
    <2>2. PICK new \in Seq(LogLine) : new = <<x>> /\ Len(new) = 1 /\ new[1] = x
      BY OneLine
    <2>3. log' = Logged(new) /\ UNCHANGED <<now, visiting, done, visits, begun>>
      BY <1>5, <2>1, <2>2 DEF OtherLine
    <2>4. /\ log' \in Seq(LogLine) /\ Ordered(log')
          /\ \A i \in 1 .. Len(log') :
                /\ log'[i].at <= now
                /\ \/ \E j \in 1 .. Len(log) : log'[i] = log[j]
                   \/ \E j \in 1 .. Len(new) : log'[i] = new[j]
      <3>1. \A i \in 1 .. Len(new) : new[i].at = now
        BY <2>1, <2>2
      <3> QED
        BY <2>3, <3>1, LoggedLines
    <2>5. \A i \in 1 .. Len(new) : ~ Over(new[i])
      BY <2>1, <2>2 DEF Over, Ends
    <2>6. visiting => \A i \in 1 .. Len(log') : Over(log'[i]) => log'[i].at <= begun
      BY <2>4, <2>5 DEF LogInv
    <2> QED
      BY <1>1, <2>3, <2>4, <2>6 DEF LogInv, Ordered, Over
  <1>6. CASE GameStops
    BY <1>1, <1>6 DEF GameStops, EndVisit, LogInv, Ordered
  <1>7. CASE PlayerJoins \/ PlayerLeaves
    BY <1>1, <1>7 DEF PlayerJoins, PlayerLeaves, LogInv, Ordered
  <1>8. CASE RunCommand
    <2>1. command \in Commands /\ Execute(command)
      BY <1>8 DEF RunCommand, SendInv
    <2> QED
      BY <2>1, CommandLogged
  <1>9. CASE RunLate
    <2>1. PICK c \in Commands : Execute(c)
      BY <1>9 DEF RunLate, SendInv
    <2> QED
      BY <2>1, CommandLogged
  <1>10. CASE \/ OpenSession \/ SessionExpires \/ Load \/ LoadFails
             \/ PollStatus \/ PollEntities \/ StatusArrives \/ EntitiesArrive
    BY <1>2, <1>10 DEF OpenSession, SessionExpires, Load, LoadFails, PollStatus, PollEntities, Poll,
                      StatusArrives, EntitiesArrive
  <1>11. CASE Generate \/ StopVisitMap \/ PostRun \/ PostFails
    BY <1>2, <1>11 DEF Generate, StopVisitMap, Send, PostRun, PostFails
  <1>12. CASE PollSucceeded \/ PollFailed \/ PollAgain \/ GiveUp \/ RunFails \/ VerifyStop \/ UNCHANGED vars
    BY <1>2, <1>12 DEF PollSucceeded, PollFailed, PollAgain, GiveUp, RunFails, VerifyStop, vars
  <1> QED
    BY <1>3, <1>4, <1>5, <1>6, <1>7, <1>8, <1>9, <1>10, <1>11, <1>12 DEF Next

-----------------------------------------------------------------------------
(* What the page was told                                                  *)

\* A status read during the visit that is going on says that one goes on.
Truthful(state, visit) ==
    visit \in Nat /\ visit <= visits /\ (visiting /\ visit = visits => state \in Active)
StatusInv ==
    /\ Truthful(status.state, status.visit)
    /\ \A a \in answers : a.feed = "visitmap-status" => Truthful(a.state, a.visit)

\* An answer given since the connected player came lists a player.
Present(any, join) ==
    join \in Nat /\ join <= joins /\ (online /\ join = joins => any = TRUE)
PlayersInv ==
    /\ online \in BOOLEAN /\ joins \in Nat
    /\ Present(players.any, players.join)
    /\ \A a \in answers : a.feed = "entities-live" => Present(a.any, a.join)

\* What is read at one moment stays true however late it arrives: a visit that
\* begins later has another number.
LEMMA StatusStaysTrue ==
    ASSUME LogInv, LogInv', SendInv, [Next]_vars, NEW state, NEW visit, Truthful(state, visit)
    PROVE  Truthful(state, visit)'
  <1>1. visits' >= visits /\ (visits' = visits => (visiting' => visiting))
    BY LogStep
  <1>2. visits \in Nat /\ visits' \in Nat
    BY DEF LogInv
  <1> QED
    BY <1>1, <1>2 DEF Truthful

LEMMA AnswerIsTruthful == LogInv => Truthful(StatusAnswer.state, StatusAnswer.visit)
  <1> SUFFICES ASSUME LogInv PROVE Truthful(Status, IF Blind THEN 0 ELSE visits)
    BY DEF StatusAnswer
  <1>1. visits \in Nat /\ (visiting => visits >= 1)
    BY DEF LogInv
  <1>2. CASE Blind
    BY <1>1, <1>2 DEF Truthful
  <1>3. CASE ~ Blind
    <2>1. StatusTruthful
      BY StatusIsActive
    <2> QED
      BY <1>1, <1>3, <2>1 DEF Truthful, StatusTruthful
  <1> QED
    BY <1>2, <1>3

\* The page's status is replaced by an answer or, after a command that the
\* game took, by "running".
LEMMA StatusStep ==
    ASSUME LogInv, SendInv, StatusInv, [Next]_vars
    PROVE  StatusInv'
  <1>1. LogInv'
    BY LogStep
  <1>2. \A state, visit : Truthful(state, visit) => Truthful(state, visit)'
    BY <1>1, StatusStaysTrue
  <1>3. ASSUME status' = status \/ Truthful(status'.state, status'.visit),
               \A a \in answers' : a \in answers \/ a = StatusAnswer \/ a.feed # "visitmap-status"
        PROVE  StatusInv'
    <2>1. Truthful(status.state, status.visit)'
      BY <1>2, <1>3 DEF StatusInv
    <2>2. ASSUME NEW a \in answers', a.feed = "visitmap-status" PROVE Truthful(a.state, a.visit)'
      <3>1. CASE a \in answers
        BY <1>2, <2>2, <3>1 DEF StatusInv
      <3>2. CASE a = StatusAnswer
        BY <1>2, <3>2, AnswerIsTruthful
      <3> QED
        BY <1>3, <2>2, <3>1, <3>2
    <2> QED
      BY <2>1, <2>2 DEF StatusInv
  <1>4. CASE UNCHANGED <<status, answers>>
    BY <1>3, <1>4
  <1>5. CASE PollStatus \/ VerifyStop
    BY <1>3, <1>5 DEF PollStatus, Poll, VerifyStop
  <1>6. CASE PollEntities
    BY <1>3, <1>6 DEF PollEntities, Poll, EntitiesAnswer
  <1>7. CASE StatusArrives
    <2>1. PICK a \in answers : /\ a.feed = "visitmap-status" /\ answers' = answers \ {a}
                               /\ status' = [state |-> a.state, visit |-> a.visit]
      BY <1>7 DEF StatusArrives
    <2>2. status'.state = a.state /\ status'.visit = a.visit
      BY <2>1
    <2>3. Truthful(a.state, a.visit)
      BY <2>1 DEF StatusInv
    <2> QED
      BY <1>3, <2>1, <2>2, <2>3
  <1>8. CASE EntitiesArrive
    BY <1>3, <1>8 DEF EntitiesArrive
  <1>9. CASE PollSucceeded
    <2>1. answers' = answers
      BY <1>9 DEF PollSucceeded
    <2>2. status' = status \/ (status'.state = "running" /\ status'.visit = visits)
      BY <1>9 DEF PollSucceeded
    <2>3. Truthful("running", visits)
      BY DEF Truthful, LogInv, Active
    <2> QED
      BY <1>3, <2>1, <2>2, <2>3
  <1>10. CASE Tick \/ Visit \/ OtherLine \/ GameStops \/ PlayerJoins \/ PlayerLeaves
    BY <1>4, <1>10 DEF Tick, Visit, OtherLine, GameStops, PlayerJoins, PlayerLeaves, pageVars
  <1>11. CASE OpenSession \/ SessionExpires \/ Load \/ LoadFails
    BY <1>4, <1>11 DEF OpenSession, SessionExpires, Load, LoadFails
  <1>12. CASE Generate \/ StopVisitMap \/ PostRun \/ PostFails
    BY <1>4, <1>12 DEF Generate, StopVisitMap, Send, PostRun, PostFails, pageVars
  <1>13. CASE PollFailed \/ PollAgain \/ GiveUp \/ RunCommand \/ RunLate \/ RunFails \/ UNCHANGED vars
    BY <1>4, <1>13 DEF PollFailed, PollAgain, GiveUp, RunCommand, RunLate, RunFails, pageVars, vars
  <1> QED
    BY <1>5, <1>6, <1>7, <1>8, <1>9, <1>10, <1>11, <1>12, <1>13 DEF Next

LEMMA PlayersStep == PlayersInv /\ [Next]_vars => PlayersInv'
  <1> SUFFICES ASSUME PlayersInv, [Next]_vars PROVE PlayersInv'
    OBVIOUS
  <1>1. ASSUME UNCHANGED <<online, joins>>,
               \/ players' = players
               \/ Present(players'.any, players'.join),
               \A a \in answers' : a \in answers \/ a = EntitiesAnswer \/ a.feed # "entities-live"
        PROVE  PlayersInv'
    <2>1. \A any, join : Present(any, join) => Present(any, join)'
      BY <1>1 DEF Present
    <2>2. Present(EntitiesAnswer.any, EntitiesAnswer.join)
      <3>1. EntitiesAnswer.any = online /\ EntitiesAnswer.join = joins
        BY DEF EntitiesAnswer
      <3>2. online \in BOOLEAN /\ joins \in Nat /\ joins <= joins
        BY DEF PlayersInv
      <3> QED
        BY <3>1, <3>2, Zenon DEF Present
    <2>3. Present(players.any, players.join)'
      BY <1>1, <2>1 DEF PlayersInv
    <2>4. ASSUME NEW a \in answers', a.feed = "entities-live" PROVE Present(a.any, a.join)'
      <3>1. CASE a \in answers
        BY <2>1, <2>4, <3>1 DEF PlayersInv
      <3>2. CASE a = EntitiesAnswer
        BY <2>1, <2>2, <3>2
      <3> QED
        BY <1>1, <2>4, <3>1, <3>2
    <2> QED
      BY <1>1, <2>3, <2>4 DEF PlayersInv
  <1>2. CASE UNCHANGED <<online, joins, players, answers>>
    BY <1>1, <1>2
  <1>3. CASE PlayerJoins
    <2>1. joins \in Nat /\ joins' = joins + 1 /\ online' = TRUE /\ UNCHANGED <<players, answers>>
      BY <1>3 DEF PlayerJoins, PlayersInv, pageVars
    <2>2. \A any, join : Present(any, join) => Present(any, join)'
      BY <2>1 DEF Present
    <2> QED
      BY <2>1, <2>2 DEF PlayersInv
  <1>4. CASE PlayerLeaves
    <2>1. joins \in Nat /\ joins' = joins /\ online' = FALSE /\ UNCHANGED <<players, answers>>
      BY <1>4 DEF PlayerLeaves, PlayersInv, pageVars
    <2>2. \A any, join : Present(any, join) => Present(any, join)'
      BY <2>1 DEF Present
    <2> QED
      BY <2>1, <2>2 DEF PlayersInv
  <1>5. CASE PollEntities
    BY <1>1, <1>5 DEF PollEntities, Poll, gameVars
  <1>6. CASE PollStatus \/ VerifyStop
    BY <1>1, <1>6 DEF PollStatus, Poll, VerifyStop, StatusAnswer, gameVars
  <1>7. CASE EntitiesArrive
    <2>1. PICK a \in answers : /\ a.feed = "entities-live" /\ answers' = answers \ {a}
                               /\ players' = [any |-> a.any, join |-> a.join]
                               /\ UNCHANGED <<online, joins>>
      BY <1>7 DEF EntitiesArrive, gameVars
    <2>2. players'.any = a.any /\ players'.join = a.join
      BY <2>1
    <2>3. Present(a.any, a.join)
      BY <2>1 DEF PlayersInv
    <2> QED
      BY <1>1, <2>1, <2>2, <2>3
  <1>8. CASE StatusArrives
    BY <1>1, <1>8 DEF StatusArrives, gameVars
  <1>9. CASE Tick \/ Visit \/ OtherLine \/ GameStops
    BY <1>2, <1>9 DEF Tick, Visit, OtherLine, GameStops, pageVars, gameVars
  <1>10. CASE OpenSession \/ SessionExpires \/ Load \/ LoadFails
    BY <1>2, <1>10 DEF OpenSession, SessionExpires, Load, LoadFails, gameVars
  <1>11. CASE Generate \/ StopVisitMap \/ PostRun \/ PostFails
    BY <1>2, <1>11 DEF Generate, StopVisitMap, Send, PostRun, PostFails, pageVars, gameVars
  <1>12. CASE PollSucceeded \/ PollFailed \/ PollAgain \/ GiveUp \/ RunFails \/ UNCHANGED vars
    BY <1>2, <1>12 DEF PollSucceeded, PollFailed, PollAgain, GiveUp, RunFails, pageVars, gameVars, vars
  <1>13. CASE RunCommand \/ RunLate
    BY <1>2, <1>13 DEF RunCommand, RunLate, Execute, pageVars
  <1> QED
    BY <1>3, <1>4, <1>5, <1>6, <1>7, <1>8, <1>9, <1>10, <1>11, <1>12, <1>13 DEF Next

-----------------------------------------------------------------------------
(* The invariants                                                          *)

IInv == LogInv /\ SendInv /\ StatusInv /\ PlayersInv

LEMMA Start == Init => IInv
  <1> SUFFICES ASSUME Init PROVE IInv
    OBVIOUS
  <1> USE DEF Init
  <1>1. LogInv
    <2>1. log = <<>> /\ Len(log) = 0 /\ log \in Seq(LogLine)
      BY EmptySeq
    <2>2. \A i \in 1 .. Len(log) : FALSE
      BY <2>1
    <2>3. Ordered(log) /\ \A i \in 1 .. Len(log) : log[i].at <= now
      BY <2>2 DEF Ordered
    <2>4. now = 1 /\ begun = 0 /\ done = 0 /\ visits = 0 /\ visiting = FALSE
      OBVIOUS
    <2>5. now \in Nat \ {0} /\ log \in Seq(LogLine)
      BY ONLY <2>1, <2>4
    <2>6. begun \in Nat /\ done \in Nat /\ visits \in Nat
      BY ONLY <2>4
    <2>7. visiting \in BOOLEAN /\ ~ visiting
      BY ONLY <2>4
    <2> QED
      BY ONLY <2>3, <2>5, <2>6, <2>7 DEF LogInv
  <1>2. SendInv
    BY DEF SendInv
  <1>3. StatusInv
    BY DEF StatusInv, Truthful
  <1>4. PlayersInv
    <2>1. players.any = FALSE /\ players.join = 0 /\ online \in BOOLEAN /\ joins \in Nat
      OBVIOUS
    <2>2. online => joins = 1
      OBVIOUS
    <2> QED
      BY <2>1, <2>2 DEF PlayersInv, Present
  <1> QED
    BY <1>1, <1>2, <1>3, <1>4 DEF IInv

\* The log is in order, and no line since a visit began ends one; every status
\* and every list of players, shown or under way, is true of the visit and of
\* the connection it was read during.
THEOREM LiveMapInvariant == Spec => []IInv
  <1>1. IInv /\ [Next]_vars => IInv'
    BY LogStep, SendStep, StatusStep, PlayersStep DEF IInv
  <1> QED
    BY Start, <1>1, PTL DEF Spec

\* The status that route.ts derives from the end of the log never calls a
\* visit over that goes on, unless the log cannot tell.
THEOREM StatusIsTruthful == Spec => []StatusTruthful
  <1>1. IInv => StatusTruthful
    BY StatusIsActive DEF IInv
  <1> QED
    BY <1>1, LiveMapInvariant, PTL

\* The buttons of LiveMapClient.tsx never offer a second visit to a page whose
\* status was read during the visit, whatever answers are still under way.
THEOREM GuardHolds == Spec => []NoSecondVisit
  <1>1. IInv => NoSecondVisit
    BY DEF IInv, StatusInv, Truthful, NoSecondVisit, CanStart, visitBlocked, visitRunning
  <1> QED
    BY <1>1, LiveMapInvariant, PTL

\* Nor a visit with a player connected, once the entity feed has answered since
\* the player came.
THEOREM PlayersAreSpared == Spec => []PlayersHoldGeneration
  <1>1. IInv => PlayersHoldGeneration
    BY DEF IInv, PlayersInv, Present, PlayersHoldGeneration, CanStart, visitBlocked
  <1> QED
    BY <1>1, LiveMapInvariant, PTL

-----------------------------------------------------------------------------
(* The history of the map                                                  *)

Snapshot == [at : Int, seen : SUBSET Players]
TimeOrdered(h) == \A i, j \in 1 .. Len(h) : i < j => h[i].at < h[j].at
\* s is h without its first k snapshots.
IsSuffix(s, h, k) ==
    s \in Seq(Snapshot) /\ Len(s) = Len(h) - k /\ \A i \in 1 .. Len(s) : s[i] = h[i + k]

\* A history in the order of time, no newer than c.
InTime(h, c) == h \in Seq(Snapshot) /\ TimeOrdered(h) /\ \A i \in 1 .. Len(h) : h[i].at <= c

\* The history and its stored copy are in the order of time, and neither is
\* newer than the page as it was drawn.
PageTimes ==
    /\ hNow \in Nat /\ drawn \in Nat /\ cut \in Nat /\ cut <= drawn /\ drawn <= hNow
    /\ index \in Nat /\ window \in Windows
HistoryInv == PageTimes /\ InTime(history, cut) /\ InTime(hStored, cut)

LEMMA TimesAreNumbers ==
    ASSUME NEW h \in Seq(Snapshot)
    PROVE  Len(h) \in Nat /\ \A i \in 1 .. Len(h) : h[i].at \in Int
  <1>1. Len(h) \in Nat
    BY LenProperties
  <1>2. ASSUME NEW i \in 1 .. Len(h) PROVE h[i].at \in Int
    <2>1. h[i] \in Snapshot
      BY ElementOfSeq
    <2> QED
      BY <2>1 DEF Snapshot
  <1> QED
    BY <1>1, <1>2

\* What is older than a moment is the front of a history.
LEMMA OlderAreFirst ==
    ASSUME NEW h \in Seq(Snapshot), TimeOrdered(h), NEW t \in Int
    PROVE  \E n \in 0 .. Len(h) : /\ IsSuffix(H!Since(h, t), h, n)
                                  /\ \A i \in 1 .. Len(h) : i <= n <=> h[i].at < t
  <1> DEFINE Gone == {i \in 1 .. Len(h) : h[i].at < t}
             IsCut(n) == \A i \in 1 .. Len(h) : i <= n <=> h[i].at < t
  <1>1. Len(h) \in Nat /\ \A i \in 1 .. Len(h) : h[i].at \in Int
    BY TimesAreNumbers
  <1>2. \E n \in 0 .. Len(h) : IsCut(n)
    <2>1. CASE Gone = {}
      <3>1. IsCut(0)
        BY <1>1, <2>1
      <3> QED
        BY <1>1, <3>1
    <2>2. CASE Gone # {}
      <3>1. Max(Gone) \in Gone /\ \A y \in Gone : Max(Gone) >= y
        BY <1>1, <2>2, Greatest
      <3> DEFINE m == Max(Gone)
      <3>2. m \in 1 .. Len(h) /\ h[m].at < t
        BY <3>1
      <3>3. ASSUME NEW i \in 1 .. Len(h), i <= m PROVE h[i].at < t
        BY <1>1, <3>2, <3>3 DEF TimeOrdered
      <3>4. ASSUME NEW i \in 1 .. Len(h), h[i].at < t PROVE i <= m
        BY <3>1, <3>4
      <3> HIDE DEF m
      <3>5. m \in 0 .. Len(h) /\ IsCut(m)
        BY <1>1, <3>2, <3>3, <3>4
      <3> HIDE DEF IsCut
      <3> QED
        BY <3>5
    <2> QED
      BY <2>1, <2>2
  <1> DEFINE n == CHOOSE n \in 0 .. Len(h) : IsCut(n)
  <1>3. n \in 0 .. Len(h) /\ IsCut(n)
    BY <1>2
  <1>4. H!Since(h, t) = SubSeq(h, n + 1, Len(h))
    BY DEF H!Since
  <1> HIDE DEF n
  <1>5. IsSuffix(H!Since(h, t), h, n)
    BY <1>1, <1>3, <1>4, Suffix DEF IsSuffix
  <1> QED
    BY <1>3, <1>5

\* What is kept of a history is its end.
LEMMA KeptIsSuffix ==
    ASSUME NEW h \in Seq(Snapshot), TimeOrdered(h), NEW t \in Int
    PROVE  \E k \in 0 .. Len(h) : IsSuffix(H!Kept(h, t), h, k)
  <1>1. Retention \in Nat /\ MaxHistory \in Nat
    BY PagesAssumption DEF H!MapHistoryAssumption
  <1> DEFINE r == H!Recent(h, t)
  <1>2. PICK n \in 0 .. Len(h) : IsSuffix(r, h, n)
    BY <1>1, OlderAreFirst DEF H!Recent
  <1> DEFINE k == IF Len(r) > MaxHistory THEN Len(r) - MaxHistory ELSE 0
  <1>3. r \in Seq(Snapshot) /\ Len(r) \in Nat /\ Len(h) \in Nat
    BY <1>2 DEF IsSuffix
  <1>4. k \in 0 .. Len(r) /\ H!Kept(h, t) = SubSeq(r, k + 1, Len(r))
    BY <1>1, <1>3 DEF H!Kept, H!Last
  <1> HIDE DEF r, k
  <1>5. IsSuffix(H!Kept(h, t), r, k)
    BY <1>3, <1>4, Suffix DEF IsSuffix
  <1>6. IsSuffix(H!Kept(h, t), h, n + k) /\ n + k \in 0 .. Len(h)
    BY <1>2, <1>3, <1>4, <1>5 DEF IsSuffix
  <1> QED
    BY <1>6

LEMMA LaterInTime ==
    ASSUME NEW c \in Int, NEW d \in Int, c <= d, NEW h, InTime(h, c)
    PROVE  InTime(h, d)
  <1>1. \A i \in 1 .. Len(h) : h[i].at \in Int /\ h[i].at <= c
    BY TimesAreNumbers DEF InTime
  <1>2. \A i \in 1 .. Len(h) : h[i].at <= d
    BY <1>1
  <1> QED
    BY <1>2 DEF InTime

LEMMA KeptInTime ==
    ASSUME NEW h, NEW c \in Int, InTime(h, c), NEW t \in Int
    PROVE  InTime(H!Kept(h, t), c)
  <1> DEFINE s == H!Kept(h, t)
  <1>1. PICK k \in 0 .. Len(h) : IsSuffix(s, h, k)
    BY KeptIsSuffix DEF InTime
  <1> HIDE DEF s
  <1>2. /\ Len(h) \in Nat /\ Len(s) = Len(h) - k
        /\ \A i \in 1 .. Len(s) : i + k \in 1 .. Len(h) /\ s[i] = h[i + k]
    BY <1>1, LenProperties DEF IsSuffix, InTime
  <1>3. ASSUME NEW i \in 1 .. Len(s), NEW j \in 1 .. Len(s), i < j PROVE s[i].at < s[j].at
    <2>1. i + k \in 1 .. Len(h) /\ j + k \in 1 .. Len(h) /\ i + k < j + k
      BY <1>2, <1>3
    <2> QED
      BY <1>2, <2>1 DEF InTime, TimeOrdered
  <1>4. \A i \in 1 .. Len(s) : s[i].at <= c
    BY <1>2 DEF InTime
  <1> QED
    BY <1>1, <1>3, <1>4 DEF IsSuffix, InTime, TimeOrdered, s

\* The snapshot of a poll is the newest.
LEMMA NewSnapshot ==
    ASSUME HistoryInv, cut < hNow, NEW seen \in SUBSET Players
    PROVE  LET g == Append(history, [at |-> hNow, seen |-> seen])
           IN  /\ InTime(g, hNow) /\ Len(g) = Len(history) + 1
               /\ \A i \in 1 .. Len(history) : g[i] = history[i]
               /\ g[Len(history) + 1].at = hNow
  <1> DEFINE e == [at |-> hNow, seen |-> seen]
             g == Append(history, e)
  <1>1. hNow \in Int /\ cut \in Int /\ history \in Seq(Snapshot)
    BY DEF HistoryInv, PageTimes, InTime
  <1>2. e \in Snapshot /\ e.at = hNow
    BY <1>1 DEF Snapshot
  <1> HIDE DEF e
  <1>3. /\ g \in Seq(Snapshot) /\ Len(g) = Len(history) + 1
        /\ \A i \in 1 .. Len(history) : g[i] = history[i]
        /\ g[Len(history) + 1] = e
    BY <1>1, <1>2, AppendProperties
  <1> HIDE DEF g
  <1>4. /\ Len(history) \in Nat
        /\ \A i \in 1 .. Len(g) : i \in 1 .. Len(history) \/ i = Len(history) + 1
    BY <1>1, <1>3, LenProperties
  <1>5. \A i \in 1 .. Len(history) : history[i].at \in Int /\ history[i].at <= cut
    BY TimesAreNumbers DEF HistoryInv, InTime
  <1>6. \A i \in 1 .. Len(g) : g[i].at <= hNow
    BY <1>1, <1>2, <1>3, <1>4, <1>5
  <1>7. ASSUME NEW i \in 1 .. Len(g), NEW j \in 1 .. Len(g), i < j PROVE g[i].at < g[j].at
    <2>1. i \in 1 .. Len(history)
      BY <1>3, <1>4, <1>7
    <2>2. CASE j \in 1 .. Len(history)
      BY <1>3, <1>7, <2>1, <2>2 DEF HistoryInv, InTime, TimeOrdered
    <2>3. CASE j = Len(history) + 1
      BY <1>1, <1>2, <1>3, <1>5, <2>1, <2>3
    <2> QED
      BY <1>4, <2>2, <2>3
  <1> QED
    BY <1>2, <1>3, <1>6, <1>7 DEF e, g, InTime, TimeOrdered

LEMMA HistoryStart == H!Init => HistoryInv
  <1>1. DefaultWindow \in Windows
    BY PagesAssumption DEF H!MapHistoryAssumption
  <1>2. InTime(<<>>, 1)
    BY EmptySeq DEF InTime, TimeOrdered
  <1> QED
    BY <1>1, <1>2 DEF H!Init, H!Opens, H!Live, HistoryInv, PageTimes

LEMMA HistoryStep == HistoryInv /\ [H!Next]_(H!vars) => HistoryInv'
  <1> SUFFICES ASSUME HistoryInv, [H!Next]_(H!vars) PROVE HistoryInv'
    OBVIOUS
  <1>1. PageTimes /\ InTime(history, cut) /\ InTime(hStored, cut)
    BY DEF HistoryInv
  <1>2. CASE H!EntitiesArrive
    <2>1. PICK seen \in SUBSET Players :
            /\ cut < hNow /\ history' = H!Kept(Append(history, [at |-> hNow, seen |-> seen]), hNow)
            /\ hStored' \in {history', hStored} /\ drawn' = hNow /\ cut' = hNow
            /\ UNCHANGED <<hNow, index, window>>
      BY <1>2, Zenon DEF H!EntitiesArrive
    <2>2. InTime(Append(history, [at |-> hNow, seen |-> seen]), hNow)
      BY <2>1, NewSnapshot
    <2>3. hNow \in Int /\ cut \in Int /\ cut <= hNow
      BY <1>1, <2>1 DEF PageTimes
    <2>4. InTime(history', hNow)
      BY <2>1, <2>2, <2>3, KeptInTime
    <2>5. InTime(hStored, hNow)
      BY <1>1, <2>3, LaterInTime
    <2>6. InTime(hStored', hNow)
      BY <2>1, <2>4, <2>5
    <2>7. PageTimes'
      BY <1>1, <2>1 DEF PageTimes
    <2> QED
      BY <2>1, <2>4, <2>6, <2>7 DEF HistoryInv
  <1>3. CASE H!Reload
    <2>1. hNow \in Int /\ cut \in Int /\ cut <= hNow
      BY <1>1 DEF PageTimes
    <2>2. InTime(hStored, hNow)
      BY <1>1, <2>1, LaterInTime
    <2>3. /\ history' = H!Kept(hStored, hNow) /\ cut' = hNow /\ drawn' = hNow
          /\ index' = 0 /\ window' = DefaultWindow /\ UNCHANGED <<hNow, hStored>>
      BY <1>3 DEF H!Reload, H!Live
    <2>4. InTime(history', cut') /\ InTime(hStored', cut')
      BY <2>1, <2>2, <2>3, KeptInTime
    <2>5. PageTimes'
      BY <1>1, <2>3, PagesAssumption DEF PageTimes, H!MapHistoryAssumption
    <2> QED
      BY <2>4, <2>5 DEF HistoryInv
  <1>4. CASE H!Slide
    <2>1. PICK n \in 1 .. Len(H!Windowed) + 1 :
            index' = IF n = Len(H!Windowed) + 1 THEN H!Live ELSE n
      BY <1>4 DEF H!Slide
    <2>2. index' \in Nat
      BY <2>1 DEF H!Live
    <2> QED
      BY <1>1, <1>4, <2>2 DEF H!Slide, HistoryInv, PageTimes
  <1>5. CASE H!Tick \/ (\E w \in Windows : H!SelectWindow(w))
             \/ (\E p \in Players \cup {None} : H!Track(p)) \/ UNCHANGED H!vars
    BY <1>1, <1>5 DEF H!Tick, H!SelectWindow, H!Track, H!vars, H!Live, HistoryInv, PageTimes
  <1> QED
    BY <1>2, <1>3, <1>4, <1>5 DEF H!Next

\* A slider in the past that is not moved: what it shows is in the history, or
\* the page as it was drawn; either way the next is no older.
LEMMA ViewMovesForward ==
    ASSUME HistoryInv, HistoryInv', index # H!Live, index' = index, window' = window, drawn <= drawn',
           NEW g \in Seq(Snapshot), TimeOrdered(g), NEW b \in 0 .. Len(g), IsSuffix(history', g, b),
           Len(history) <= Len(g), \A i \in 1 .. Len(history) : g[i] = history[i],
           \A i \in 1 .. Len(g) : i > Len(history) => g[i].at >= drawn
    PROVE  H!Viewed'.at >= H!Viewed.at
  <1>1. /\ window \in Int /\ window' \in Int /\ drawn \in Int /\ drawn' \in Int /\ index \in Nat
        /\ history \in Seq(Snapshot) /\ TimeOrdered(history)
        /\ history' \in Seq(Snapshot) /\ TimeOrdered(history')
    BY PagesAssumption DEF H!MapHistoryAssumption, HistoryInv, PageTimes, InTime
  <1> DEFINE t == drawn - window
             tt == drawn' - window'
             W  == H!Since(history, t)
             WW == H!Since(history', tt)
  <1>2. t \in Int /\ tt \in Int /\ t <= tt
    BY <1>1
  <1>3. W = H!Windowed /\ WW = H!Windowed'
    BY DEF H!Windowed
  <1> HIDE DEF t, tt, W, WW
  <1>4. PICK n \in 0 .. Len(history) :
          /\ IsSuffix(W, history, n)
          /\ \A i \in 1 .. Len(history) : i <= n <=> history[i].at < t
    BY <1>1, <1>2, OlderAreFirst DEF W
  <1>5. PICK m \in 0 .. Len(history') :
          /\ IsSuffix(WW, history', m)
          /\ \A i \in 1 .. Len(history') : i <= m <=> history'[i].at < tt
    BY <1>1, <1>2, OlderAreFirst DEF WW
  <1>6. /\ Len(g) \in Nat /\ Len(history) \in Nat /\ Len(history') = Len(g) - b
        /\ Len(W) = Len(history) - n /\ Len(WW) = Len(history') - m
        /\ \A i \in 1 .. Len(g) : g[i].at \in Int
    BY <1>1, <1>4, <1>5, TimesAreNumbers, LenProperties DEF IsSuffix
  <1>7. n \in Nat /\ m \in Nat /\ b \in Nat /\ Len(history') \in Nat
    BY <1>6
  <1>8. n <= m + b
    <2> SUFFICES ASSUME n > b PROVE n - b <= m
      BY <1>7
    <2>1. n \in 1 .. Len(history) /\ n \in 1 .. Len(g) /\ n - b \in 1 .. Len(history')
      BY <1>6, <1>7
    <2>2. history'[n - b] = g[(n - b) + b] /\ (n - b) + b = n
      BY <1>7, <2>1 DEF IsSuffix
    <2>3. g[n].at < t
      BY <1>4, <2>1
    <2>4. history'[n - b].at < tt
      BY <1>2, <1>6, <2>1, <2>2, <2>3
    <2> QED
      BY <1>5, <2>1, <2>4
  <1>9. index \in Nat \ {0}
    BY <1>1 DEF H!Live
  <1>10. H!Viewed.at = IF index <= Len(W) THEN g[index + n].at ELSE drawn
    <2>1. CASE index <= Len(W)
      <3>1. index \in 1 .. Len(W) /\ index + n \in 1 .. Len(history)
        BY <1>6, <1>9, <2>1
      <3> QED
        BY <1>3, <1>4, <3>1, <2>1 DEF IsSuffix, H!Viewed, H!InPast
    <2>2. CASE ~ (index <= Len(W))
      <3>1. index \notin 1 .. Len(W)
        BY <1>6, <2>2
      <3> QED
        BY <1>3, <2>2, <3>1 DEF H!Viewed, H!InPast
    <2> QED
      BY <2>1, <2>2
  <1>11. H!Viewed'.at = IF index <= Len(WW) THEN g[index + m + b].at ELSE drawn'
    <2>1. CASE index <= Len(WW)
      <3>1. index \in 1 .. Len(WW) /\ index + m \in 1 .. Len(history')
        BY <1>6, <1>9, <2>1
      <3>2. WW[index] = history'[index + m] /\ history'[index + m] = g[(index + m) + b]
        BY <1>5, <3>1 DEF IsSuffix
      <3> QED
        BY <1>3, <1>6, <1>9, <3>1, <3>2, <2>1 DEF H!Viewed, H!InPast
    <2>2. CASE ~ (index <= Len(WW))
      <3>1. index \notin 1 .. Len(WW)
        BY <1>6, <2>2
      <3> QED
        BY <1>3, <2>2, <3>1 DEF H!Viewed, H!InPast
    <2> QED
      BY <2>1, <2>2
  <1>12. \A i \in 1 .. Len(history) : g[i].at <= drawn
    <2>1. drawn \in Int /\ cut \in Int /\ cut <= drawn /\ InTime(history, cut)
      BY DEF HistoryInv, PageTimes
    <2>2. InTime(history, drawn)
      BY <2>1, LaterInTime
    <2> QED
      BY <2>2 DEF InTime
  <1>13. CASE index <= Len(WW)
    <2>1. index + m + b \in 1 .. Len(g)
      BY <1>6, <1>7, <1>9, <1>13
    <2>2. CASE index <= Len(W)
      <3>1. index + n \in 1 .. Len(g) /\ index + n <= index + m + b
        BY <1>6, <1>7, <1>8, <1>9, <2>2
      <3>2. g[index + n].at <= g[index + m + b].at
        <4>1. CASE index + n = index + m + b
          BY <1>6, <3>1, <4>1
        <4>2. CASE index + n < index + m + b
          BY <1>6, <2>1, <3>1, <4>2 DEF TimeOrdered
        <4> QED
          BY <2>1, <3>1, <4>1, <4>2
      <3> QED
        BY <1>6, <1>10, <1>11, <1>13, <2>1, <2>2, <3>1, <3>2
    <2>3. CASE ~ (index <= Len(W))
      <3>1. index + m + b > Len(history)
        BY <1>6, <1>7, <1>8, <1>9, <2>3, SMTT(30)
      <3> QED
        BY <1>10, <1>11, <1>13, <2>1, <2>3, <3>1
    <2> QED
      BY <2>2, <2>3
  <1>14. CASE ~ (index <= Len(WW))
    <2>1. CASE index <= Len(W)
      <3>1. index + n \in 1 .. Len(history) /\ index + n \in 1 .. Len(g)
        BY <1>6, <1>9, <2>1
      <3>2. g[index + n].at <= drawn /\ g[index + n].at \in Int
        BY <1>6, <1>12, <3>1
      <3> QED
        BY <1>1, <1>10, <1>11, <1>14, <2>1, <3>2
    <2>2. CASE ~ (index <= Len(W))
      BY <1>1, <1>10, <1>11, <1>14, <2>2
    <2> QED
      BY <2>1, <2>2
  <1> QED
    BY <1>13, <1>14

LEMMA ForwardStep ==
    ASSUME HistoryInv, HistoryInv', [H!Next]_(H!vars), index # H!Live, index' = index
    PROVE  H!Viewed'.at >= H!Viewed.at
  <1>1. CASE H!EntitiesArrive
    <2>1. PICK seen \in SUBSET Players :
            /\ cut < hNow /\ history' = H!Kept(Append(history, [at |-> hNow, seen |-> seen]), hNow)
            /\ drawn' = hNow /\ UNCHANGED <<hNow, index, window>>
      BY <1>1, Zenon DEF H!EntitiesArrive
    <2> DEFINE g == Append(history, [at |-> hNow, seen |-> seen])
    <2>2. /\ InTime(g, hNow) /\ Len(g) = Len(history) + 1
          /\ \A i \in 1 .. Len(history) : g[i] = history[i]
          /\ g[Len(history) + 1].at = hNow
      BY <2>1, NewSnapshot
    <2> HIDE DEF g
    <2>3. hNow \in Int /\ drawn <= hNow /\ drawn \in Int /\ Len(history) \in Nat
      BY LenProperties DEF HistoryInv, PageTimes, InTime
    <2>4. PICK b \in 0 .. Len(g) : IsSuffix(history', g, b)
      BY <2>1, <2>2, <2>3, KeptIsSuffix DEF g, InTime
    <2>5. \A i \in 1 .. Len(g) : i > Len(history) => g[i].at >= drawn
      BY <2>2, <2>3
    <2>6. window' = window /\ drawn <= drawn' /\ Len(history) <= Len(g)
      BY <2>1, <2>2, <2>3
    <2> QED
      BY <2>2, <2>4, <2>5, <2>6, ViewMovesForward DEF InTime
  <1>2. CASE H!Tick \/ H!Slide \/ (\E p \in Players \cup {None} : H!Track(p)) \/ UNCHANGED H!vars
    <2>1. history' = history /\ window' = window /\ drawn' \in {drawn, hNow}
      BY <1>2 DEF H!Tick, H!Slide, H!Track, H!vars
    <2>2. history \in Seq(Snapshot) /\ TimeOrdered(history) /\ Len(history) \in Nat /\ drawn <= drawn'
      BY <2>1, LenProperties DEF HistoryInv, PageTimes, InTime
    <2>3. IsSuffix(history', history, 0) /\ 0 \in 0 .. Len(history)
      BY <2>1, <2>2 DEF IsSuffix
    <2>4. Len(history) <= Len(history) /\ \A i \in 1 .. Len(history) : i > Len(history) => history[i].at >= drawn
      BY <2>2
    <2> QED
      BY <2>1, <2>2, <2>3, <2>4, ViewMovesForward
  <1>3. CASE H!Reload \/ \E w \in Windows : H!SelectWindow(w)
    BY <1>3 DEF H!Reload, H!SelectWindow
  <1> QED
    BY <1>1, <1>2, <1>3 DEF H!Next

\* The times of the history grow from its front to its end, through polls,
\* a full storage and pages opened again.
THEOREM HistoryInvariant == H!Spec => []HistoryInv
  BY HistoryStart, HistoryStep, PTL DEF H!Spec

\* While the slider of the history stands still in the past, the moment it
\* shows moves forward only, for any timeframes, retention and length of the
\* history (LiveMapClient.tsx).
THEOREM SliderMovesForward == H!Spec => PausedNeverRewinds
  <1>1. ASSUME HistoryInv, HistoryInv', [H!Next]_(H!vars)
        PROVE  [index # H!Live /\ index' = index => H!Viewed'.at >= H!Viewed.at]_(H!vars)
    BY <1>1, ForwardStep
  <1> QED
    BY <1>1, HistoryInvariant, PTL DEF H!Spec, PausedNeverRewinds, H!PausedNeverRewinds

-----------------------------------------------------------------------------
(* The Server Logs page                                                    *)

LogRow == [server : Servers, at : Int]
Recorded == 1 .. Len(rows)

\* Rows of one server in the order of time; of those still stored none is
\* missing between one of them and the last.
Sequel(o, s) ==
    /\ o \in Seq(Recorded) /\ L!ByTime(o)
    /\ \A a \in 1 .. Len(o) : rows[o[a]].server = s
Whole(o, s) ==
    \A a \in 1 .. Len(o), j \in L!Kept(s) :
      L!At(o[a]) < L!At(j) /\ L!At(j) < L!At(o[Len(o)]) => j \in L!Ids(o)

\* An answer that goes on from row c: what is not older than c comes before
\* the answer's end.
Continues(o, c, s) ==
    /\ rows[c].server = s
    /\ \A a \in 1 .. Len(o) : L!At(c) <= L!At(o[a])
    /\ \A j \in L!Kept(s) \ {c} :
         L!At(c) <= L!At(j) /\ L!At(j) < L!At(o[Len(o)]) => j \in L!Ids(o)

\* Rows that end in the time of row m: none is missing before that time, and m
\* itself is among them if an older one is.
EndsIn(o, m) ==
    /\ Sequel(o, rows[m].server)
    /\ \A a \in 1 .. Len(o) : L!At(o[a]) <= L!At(m)
    /\ \A a \in 1 .. Len(o), j \in L!Kept(rows[m].server) :
         L!At(o[a]) < L!At(j) /\ (L!At(j) < L!At(m) \/ j = m) => j \in L!Ids(o)

TableInv ==
    /\ lNow \in Int /\ rows \in Seq(LogRow) /\ lStored \subseteq Recorded
    /\ \A i \in Recorded : rows[i].at <= lNow
\* What the page shows ends in the last row it received.
ShownInv ==
    /\ serverId \in Servers /\ view \in Seq(Recorded) /\ latest \in 0 .. Len(rows)
    /\ latest = 0 => view = <<>>
    /\ ShowsSelected
    /\ ~broken /\ latest # 0 => EndsIn(view, latest)
\* A fetch asks for what follows that row, or the page was emptied since.
Asked ==
    /\ fetch \in [of : Servers, initial : BOOLEAN, after : Nat, answer : {fetch.answer}]
    /\ fetch.initial => fetch.after = 0
    /\ \/ fetch.of = serverId /\ fetch.after = latest
       \/ latest = 0 /\ view = <<>>
Answered ==
    /\ Sequel(fetch.answer, fetch.of) /\ Whole(fetch.answer, fetch.of)
    /\ ~broken /\ latest # 0 /\ fetch.answer # <<>> => Continues(fetch.answer, latest, fetch.of)
FetchInv == fetch # None => Asked /\ (fetch.answer # None => Answered)
LogsInv == TableInv /\ ShownInv /\ FetchInv

LEMMA RowTypes ==
    ASSUME TableInv
    PROVE  /\ Len(rows) \in Nat
           /\ \A i \in Recorded : rows[i].server \in Servers /\ rows[i].at \in Int
  <1>1. rows \in Seq(LogRow) /\ Len(rows) \in Nat
    BY LenProperties DEF TableInv
  <1>2. ASSUME NEW i \in Recorded PROVE rows[i].server \in Servers /\ rows[i].at \in Int
    <2>1. rows[i] \in LogRow
      BY <1>1, ElementOfSeq DEF Recorded
    <2> QED
      BY <2>1 DEF LogRow
  <1> QED
    BY <1>1, <1>2

LEMMA IdTypes ==
    ASSUME TableInv, NEW o \in Seq(Recorded)
    PROVE  /\ Len(o) \in Nat
           /\ \A a \in 1 .. Len(o) : o[a] \in Recorded /\ L!At(o[a]) \in Int
  <1>1. Len(o) \in Nat /\ \A a \in 1 .. Len(o) : o[a] \in Recorded
    BY LenProperties, ElementOfSeq
  <1> QED
    BY <1>1, RowTypes DEF L!At

LEMMA KeptTypes ==
    ASSUME TableInv, NEW s, NEW j \in L!Kept(s)
    PROVE  j \in Recorded /\ L!At(j) \in Int /\ j \in lStored /\ rows[j].server = s
  <1>1. j \in Recorded /\ j \in lStored /\ rows[j].server = s
    BY DEF L!Kept, TableInv
  <1> QED
    BY <1>1, RowTypes DEF L!At

-----------------------------------------------------------------------------
(* What an answer holds                                                    *)

LEMMA OrderIsSeq ==
    ASSUME TableInv, NEW S \in SUBSET Recorded, NEW o \in L!Orders(S)
    PROVE  o \in Seq(Recorded) /\ L!Ids(o) = S
  <1>1. Len(rows) \in Nat
    BY RowTypes
  <1>2. PICK n \in 0 .. Len(rows) : o \in [1 .. n -> S]
    BY DEF L!Orders
  <1>3. o \in Seq(S)
    BY <1>1, <1>2, SeqDef
  <1>4. o \in Seq(Recorded)
    BY <1>3, SeqMonotonic
  <1> QED
    BY <1>4 DEF L!Orders

LEMMA LastPart ==
    ASSUME TableInv, NEW o \in Seq(Recorded), NEW n \in Nat \ {0}
    PROVE  \E k \in 0 .. Len(o) :
             /\ L!LastOf(o, n) \in Seq(Recorded) /\ Len(L!LastOf(o, n)) = Len(o) - k
             /\ \A a \in 1 .. Len(o) - k : L!LastOf(o, n)[a] = o[a + k]
             /\ Len(o) > 0 => k < Len(o)
  <1> DEFINE k == IF Len(o) > n THEN Len(o) - n ELSE 0
  <1>1. Len(o) \in Nat
    BY IdTypes
  <1>2. k \in Nat /\ k \in 0 .. Len(o) /\ k <= Len(o) /\ (Len(o) > 0 => k < Len(o))
    BY <1>1
  <1>3. L!LastOf(o, n) = SubSeq(o, k + 1, Len(o))
    BY <1>1 DEF L!LastOf
  <1> HIDE DEF k
  <1> QED
    BY <1>2, <1>3, Suffix

LEMMA FirstPart ==
    ASSUME TableInv, NEW o \in Seq(Recorded), NEW n \in Nat \ {0}
    PROVE  \E m \in 0 .. Len(o) :
             /\ L!FirstOf(o, n) \in Seq(Recorded) /\ Len(L!FirstOf(o, n)) = m
             /\ \A a \in 1 .. m : L!FirstOf(o, n)[a] = o[a]
  <1> DEFINE m == IF Len(o) > n THEN n ELSE Len(o)
  <1>1. Len(o) \in Nat /\ \A a \in 1 .. Len(o) : o[a] \in Recorded
    BY IdTypes
  <1>2. m \in Int /\ m \in 0 .. Len(o) /\ 1 \in Int /\ \A a \in 1 .. m : o[a] \in Recorded
    BY <1>1
  <1>3. L!FirstOf(o, n) = SubSeq(o, 1, m)
    BY DEF L!FirstOf
  <1> HIDE DEF m
  <1>4. /\ SubSeq(o, 1, m) \in Seq(Recorded) /\ Len(SubSeq(o, 1, m)) = IF 1 <= m THEN m - 1 + 1 ELSE 0
        /\ \A a \in 1 .. m - 1 + 1 : SubSeq(o, 1, m)[a] = o[1 + a - 1]
    BY ONLY <1>2, SubSeqProperties
  <1>5. Len(SubSeq(o, 1, m)) = m /\ \A a \in 1 .. m : SubSeq(o, 1, m)[a] = o[a]
    BY <1>1, <1>2, <1>4
  <1> QED
    BY <1>2, <1>3, <1>4, <1>5

\* Without a cursor the newest rows come, in the order of time.
LEMMA NewestAnswer ==
    ASSUME TableInv, NEW s, NEW n \in Nat \ {0}, NEW new \in L!Newest(L!Kept(s), n)
    PROVE  Sequel(new, s) /\ Whole(new, s)
  <1>1. PICK o \in L!Orders(L!Kept(s)) : L!ByTime(o) /\ new = L!LastOf(o, n)
    BY DEF L!Newest
  <1>2. L!Kept(s) \in SUBSET Recorded
    BY KeptTypes
  <1>3. o \in Seq(Recorded) /\ L!Ids(o) = L!Kept(s)
    BY <1>2, OrderIsSeq
  <1>4. PICK k \in 0 .. Len(o) :
          /\ new \in Seq(Recorded) /\ Len(new) = Len(o) - k
          /\ \A a \in 1 .. Len(o) - k : new[a] = o[a + k]
    BY <1>1, <1>3, LastPart
  <1>5. /\ Len(o) \in Nat /\ \A a \in 1 .. Len(o) : L!At(o[a]) \in Int
        /\ \A a \in 1 .. Len(new) : a + k \in 1 .. Len(o) /\ new[a] = o[a + k]
    BY <1>3, <1>4, IdTypes, SMTT(30)
  <1>6. ASSUME NEW a \in 1 .. Len(new), NEW b \in 1 .. Len(new), a < b
        PROVE  L!At(new[a]) <= L!At(new[b])
    <2>1. a + k \in 1 .. Len(o) /\ b + k \in 1 .. Len(o) /\ a + k < b + k
      BY <1>5, <1>6
    <2> QED
      BY <1>1, <1>5, <2>1 DEF L!ByTime
  <1>7. ASSUME NEW a \in 1 .. Len(new) PROVE rows[new[a]].server = s
    <2>1. new[a] \in L!Kept(s)
      BY <1>3, <1>5 DEF L!Ids
    <2> QED
      BY <2>1, KeptTypes
  <1>8. ASSUME NEW a \in 1 .. Len(new), NEW j \in L!Kept(s), L!At(new[a]) < L!At(j)
        PROVE  j \in L!Ids(new)
    <2>1. PICK b \in 1 .. Len(o) : o[b] = j
      BY <1>3 DEF L!Ids
    <2>2. a + k \in 1 .. Len(o) /\ new[a] = o[a + k]
      BY <1>5
    <2>3. ~ (b < a + k) /\ b # a + k
      BY <1>1, <1>5, <1>8, <2>1, <2>2 DEF L!ByTime
    <2>4. b - k \in 1 .. Len(new) /\ new[b - k] = o[(b - k) + k] /\ (b - k) + k = b
      BY <1>4, <1>5, <2>2, <2>3
    <2> QED
      BY <2>1, <2>4 DEF L!Ids
  <1> QED
    BY <1>4, <1>6, <1>7, <1>8 DEF Sequel, Whole, L!ByTime

\* After a cursor the rows come that are not older than it, the oldest first.
LEMMA OldestAnswer ==
    ASSUME TableInv, NEW s, NEW c \in L!Kept(s), NEW n \in Nat \ {0},
           NEW new \in L!Oldest(L!Following(s, c), n)
    PROVE  Sequel(new, s) /\ Whole(new, s) /\ (new # <<>> => Continues(new, c, s))
  <1>1. PICK o \in L!Orders(L!Following(s, c)) : L!OldestFirst(o) /\ new = L!FirstOf(o, n)
    BY DEF L!Oldest
  <1>2. L!Following(s, c) \in SUBSET Recorded
    BY KeptTypes DEF L!Following
  <1>3. o \in Seq(Recorded) /\ L!Ids(o) = L!Following(s, c)
    BY <1>2, OrderIsSeq
  <1>4. PICK m \in 0 .. Len(o) :
          new \in Seq(Recorded) /\ Len(new) = m /\ \A a \in 1 .. m : new[a] = o[a]
    BY <1>1, <1>3, FirstPart
  <1>5. /\ Len(o) \in Nat /\ \A a \in 1 .. Len(o) : L!At(o[a]) \in Int
        /\ \A a \in 1 .. Len(new) : a \in 1 .. Len(o) /\ new[a] = o[a]
    BY <1>3, <1>4, IdTypes
  <1>6. \A a, b \in 1 .. Len(o) : a < b => L!At(o[a]) <= L!At(o[b])
    BY <1>1, <1>5 DEF L!OldestFirst, L!Older
  <1>7. L!ByTime(new)
    BY <1>5, <1>6 DEF L!ByTime
  <1>8. L!At(c) \in Int /\ rows[c].server = s
    BY KeptTypes
  <1>9. ASSUME NEW a \in 1 .. Len(new) PROVE rows[new[a]].server = s /\ L!At(c) <= L!At(new[a])
    <2>1. new[a] \in L!Following(s, c)
      BY <1>3, <1>5 DEF L!Ids
    <2>2. new[a] \in L!Kept(s) /\ L!At(new[a]) >= L!At(c)
      BY <2>1 DEF L!Following
    <2> QED
      BY <1>8, <2>2, KeptTypes
  <1>10. ASSUME NEW j \in L!Kept(s) \ {c}, L!At(c) <= L!At(j), L!At(j) < L!At(new[Len(new)]),
                m >= 1
         PROVE  j \in L!Ids(new)
    <2>1. j \in L!Following(s, c)
      BY <1>8, <1>10, KeptTypes DEF L!Following
    <2>2. PICK b \in 1 .. Len(o) : o[b] = j
      BY <1>3, <2>1 DEF L!Ids
    <2>3. CASE b \in 1 .. m
      BY <1>4, <2>2, <2>3 DEF L!Ids
    <2>4. CASE b > m /\ m >= 1
      <3>1. m \in 1 .. Len(o) /\ new[Len(new)] = o[m]
        BY <1>4, <1>5, <2>4
      <3>2. L!At(o[m]) <= L!At(o[b]) /\ L!At(o[m]) \in Int /\ L!At(o[b]) \in Int
        BY <1>5, <1>6, <2>4, <3>1
      <3> QED
        BY <1>10, <2>2, <3>1, <3>2
    <2> QED
      BY <1>4, <1>5, <1>10, <2>3, <2>4
  <1>11. Whole(new, s)
    <2> SUFFICES ASSUME NEW a \in 1 .. Len(new), NEW j \in L!Kept(s),
                        L!At(new[a]) < L!At(j), L!At(j) < L!At(new[Len(new)])
                 PROVE  j \in L!Ids(new)
      BY DEF Whole
    <2>1. L!At(c) <= L!At(new[a]) /\ L!At(new[a]) \in Int /\ L!At(j) \in Int
      BY <1>5, <1>9, KeptTypes
    <2>2. L!At(c) <= L!At(j) /\ j # c
      BY <1>8, <2>1
    <2>3. m >= 1
      BY <1>4
    <2> QED
      BY <1>10, <2>2, <2>3
  <1>12. new # <<>> => m >= 1
    BY <1>4, <1>5, EmptySeq
  <1> QED
    BY <1>4, <1>7, <1>8, <1>9, <1>10, <1>11, <1>12 DEF Sequel, Continues

-----------------------------------------------------------------------------
(* What an answer adds to the page                                         *)

LEMMA CutFront ==
    ASSUME TableInv, NEW m \in Recorded, NEW o, EndsIn(o, m), NEW n \in Nat \ {0}
    PROVE  EndsIn(L!LastOf(o, n), m)
  <1> DEFINE v == L!LastOf(o, n)
             s == rows[m].server
  <1>1. o \in Seq(Recorded) /\ L!ByTime(o) /\ \A a \in 1 .. Len(o) : rows[o[a]].server = s
    BY DEF EndsIn, Sequel
  <1>2. PICK k \in 0 .. Len(o) :
          /\ v \in Seq(Recorded) /\ Len(v) = Len(o) - k
          /\ \A a \in 1 .. Len(o) - k : v[a] = o[a + k]
    BY <1>1, LastPart
  <1> HIDE DEF v
  <1>3. /\ Len(o) \in Nat /\ \A a \in 1 .. Len(o) : L!At(o[a]) \in Int
        /\ \A a \in 1 .. Len(v) : a + k \in 1 .. Len(o) /\ v[a] = o[a + k]
    BY <1>1, <1>2, IdTypes, SMTT(30)
  <1>4. ASSUME NEW a \in 1 .. Len(v), NEW b \in 1 .. Len(v), a < b
        PROVE  L!At(v[a]) <= L!At(v[b])
    <2>1. a + k \in 1 .. Len(o) /\ b + k \in 1 .. Len(o) /\ a + k < b + k
      BY <1>3, <1>4
    <2> QED
      BY <1>1, <1>3, <2>1 DEF L!ByTime
  <1>5. \A a \in 1 .. Len(v) : rows[v[a]].server = s /\ L!At(v[a]) <= L!At(m)
    BY <1>1, <1>3 DEF EndsIn
  <1>6. ASSUME NEW a \in 1 .. Len(v), NEW j \in L!Kept(s),
               L!At(v[a]) < L!At(j), L!At(j) < L!At(m) \/ j = m
        PROVE  j \in L!Ids(v)
    <2>1. j \in L!Ids(o)
      BY <1>3, <1>6 DEF EndsIn
    <2>2. PICK b \in 1 .. Len(o) : o[b] = j
      BY <2>1 DEF L!Ids
    <2>3. ~ (b < a + k) /\ b # a + k
      BY <1>1, <1>3, <1>6, <2>2 DEF L!ByTime
    <2>4. a + k \in 1 .. Len(o)
      BY <1>3
    <2>5. b - k \in 1 .. Len(v) /\ v[b - k] = o[(b - k) + k] /\ (b - k) + k = b
      BY <1>2, <1>3, <2>3, <2>4
    <2> QED
      BY <2>2, <2>5 DEF L!Ids
  <1> QED
    BY <1>2, <1>4, <1>5, <1>6 DEF v, EndsIn, Sequel, L!ByTime

\* The last row of an answer.
LEMMA LastRow ==
    ASSUME TableInv, NEW new, NEW s, Sequel(new, s), new # <<>>
    PROVE  LET m == new[Len(new)]
           IN  /\ Len(new) \in 1 .. Len(new) /\ m \in Recorded /\ rows[m].server = s /\ m \in L!Ids(new)
               /\ \A a \in 1 .. Len(new) : L!At(new[a]) <= L!At(m)
  <1>1. Len(new) \in Nat \ {0} /\ \A a \in 1 .. Len(new) : new[a] \in Recorded /\ L!At(new[a]) \in Int
    BY EmptySeq, IdTypes DEF Sequel
  <1>2. Len(new) \in 1 .. Len(new)
    BY <1>1
  <1>3. ASSUME NEW a \in 1 .. Len(new) PROVE L!At(new[a]) <= L!At(new[Len(new)])
    <2>1. CASE a < Len(new)
      BY <1>2, <2>1 DEF Sequel, L!ByTime
    <2>2. CASE a = Len(new)
      BY <1>1, <2>2
    <2> QED
      BY <1>1, <2>1, <2>2
  <1> QED
    BY <1>1, <1>2, <1>3 DEF Sequel, L!Ids

LEMMA FirstAnswerEnds ==
    ASSUME TableInv, NEW new, NEW s, Sequel(new, s), Whole(new, s), new # <<>>
    PROVE  EndsIn(new, new[Len(new)])
  <1> DEFINE m == new[Len(new)]
  <1>1. /\ m \in Recorded /\ rows[m].server = s /\ m \in L!Ids(new)
        /\ \A a \in 1 .. Len(new) : L!At(new[a]) <= L!At(m)
    BY LastRow
  <1> QED
    BY <1>1 DEF EndsIn, Whole

\* What is added is the answer without what is shown already.
LEMMA Added ==
    ASSUME TableInv, NEW new, NEW s, Sequel(new, s), NEW o \in L!NewRows(new)
    PROVE  Sequel(o, s) /\ L!Ids(o) = L!Ids(new) \ L!Ids(view)
  <1>1. new \in Seq(Recorded) /\ L!ByTime(new)
    BY DEF Sequel
  <1>2. \A a \in 1 .. Len(new) : new[a] \in Recorded
    BY <1>1, IdTypes
  <1>3. L!Ids(new) \ L!Ids(view) \in SUBSET Recorded
    BY <1>2 DEF L!Ids
  <1>4. o \in L!Orders(L!Ids(new) \ L!Ids(view))
    BY DEF L!NewRows
  <1>5. o \in Seq(Recorded) /\ L!Ids(o) = L!Ids(new) \ L!Ids(view)
    BY <1>3, <1>4, OrderIsSeq
  <1>6. L!ByTime(o)
    BY <1>1 DEF L!NewRows, L!ByTime
  <1>7. ASSUME NEW a \in 1 .. Len(o) PROVE rows[o[a]].server = s
    <2>1. o[a] \in L!Ids(new)
      BY <1>5 DEF L!Ids
    <2> QED
      BY <2>1 DEF L!Ids, Sequel
  <1> QED
    BY <1>5, <1>6, <1>7 DEF Sequel

\* An answer that goes on where the page ends, or the first of an empty page.
LEMMA JoinedRows ==
    ASSUME TableInv, NEW new, NEW s, Sequel(new, s), Whole(new, s), new # <<>>,
           view \in Seq(Recorded), NEW o \in L!NewRows(new),
           \/ view = <<>>
           \/ latest \in Recorded /\ EndsIn(view, latest) /\ Continues(new, latest, s)
    PROVE  EndsIn(view \o o, new[Len(new)])
  <1> DEFINE w == view \o o
             m == new[Len(new)]
  <1>1. Sequel(o, s) /\ L!Ids(o) = L!Ids(new) \ L!Ids(view)
    BY Added
  <1>2. /\ w \in Seq(Recorded) /\ Len(w) = Len(view) + Len(o)
        /\ \A a \in 1 .. Len(w) : w[a] = IF a <= Len(view) THEN view[a] ELSE o[a - Len(view)]
    BY <1>1, ConcatProperties DEF Sequel
  <1> HIDE DEF w
  <1>3. /\ Len(view) \in Nat /\ Len(o) \in Nat
        /\ \A a \in 1 .. Len(view) : L!At(view[a]) \in Int
        /\ \A a \in 1 .. Len(o) : L!At(o[a]) \in Int
    BY <1>1, IdTypes DEF Sequel
  <1>4. L!Ids(w) = L!Ids(view) \cup L!Ids(o)
    <2>1. \A a \in 1 .. Len(view) : a \in 1 .. Len(w) /\ w[a] = view[a]
      BY <1>2, <1>3
    <2>2. ASSUME NEW a \in 1 .. Len(o) PROVE Len(view) + a \in 1 .. Len(w) /\ w[Len(view) + a] = o[a]
      <3>1. Len(view) + a \in 1 .. Len(w) /\ ~ (Len(view) + a <= Len(view)) /\ (Len(view) + a) - Len(view) = a
        BY <1>2, <1>3
      <3> QED
        BY <1>2, <3>1
    <2>3. ASSUME NEW a \in 1 .. Len(w)
          PROVE  \/ a \in 1 .. Len(view) /\ w[a] = view[a]
                 \/ a - Len(view) \in 1 .. Len(o) /\ w[a] = o[a - Len(view)]
      BY <1>2, <1>3
    <2>4. ASSUME NEW i \in L!Ids(w) PROVE i \in L!Ids(view) \cup L!Ids(o)
      <3>1. PICK a \in 1 .. Len(w) : w[a] = i
        BY DEF L!Ids
      <3> QED
        BY <2>3, <3>1 DEF L!Ids
    <2>5. ASSUME NEW i \in L!Ids(view) \cup L!Ids(o) PROVE i \in L!Ids(w)
      <3>1. CASE i \in L!Ids(view)
        BY <2>1, <3>1 DEF L!Ids
      <3>2. CASE i \in L!Ids(o)
        BY <2>2, <3>2 DEF L!Ids
      <3> QED
        BY <3>1, <3>2
    <2> QED
      BY <2>4, <2>5
  <1>5. L!Ids(w) = L!Ids(view) \cup L!Ids(new)
    BY <1>1, <1>4
  <1>6. /\ m \in Recorded /\ L!At(m) \in Int /\ rows[m].server = s /\ m \in L!Ids(new)
        /\ \A i \in L!Ids(new) : L!At(i) <= L!At(m) /\ rows[i].server = s /\ L!At(i) \in Int
    BY LastRow, IdTypes DEF L!Ids, Sequel
  <1>7. \A i \in L!Ids(view), j \in L!Ids(new) : L!At(i) <= L!At(j) /\ rows[i].server = s /\ L!At(i) \in Int
    <2>1. CASE view = <<>>
      BY <2>1, EmptySeq DEF L!Ids
    <2>2. CASE latest \in Recorded /\ EndsIn(view, latest) /\ Continues(new, latest, s)
      <3> SUFFICES ASSUME NEW i \in L!Ids(view), NEW j \in L!Ids(new)
                   PROVE  L!At(i) <= L!At(j) /\ rows[i].server = s /\ L!At(i) \in Int
        OBVIOUS
      <3>1. L!At(latest) \in Int
        BY <2>2, RowTypes DEF L!At
      <3>2. L!At(i) <= L!At(latest) /\ L!At(latest) <= L!At(j) /\ L!At(i) \in Int /\ rows[i].server = s
        BY <1>3, <2>2 DEF EndsIn, Sequel, Continues, L!Ids
      <3> QED
        BY <1>6, <3>1, <3>2
    <2> QED
      BY <2>1, <2>2
  <1>8. ASSUME NEW a \in 1 .. Len(w), NEW b \in 1 .. Len(w), a < b
        PROVE  L!At(w[a]) <= L!At(w[b])
    <2>1. CASE b <= Len(view)
      <3>1. a \in 1 .. Len(view) /\ b \in 1 .. Len(view) /\ w[a] = view[a] /\ w[b] = view[b]
        BY <1>2, <1>3, <1>8, <2>1
      <3>2. L!ByTime(view)
        <4>1. CASE view = <<>>
          BY <3>1, <4>1, EmptySeq
        <4> QED
          BY <4>1 DEF EndsIn, Sequel
      <3> QED
        BY <1>8, <3>1, <3>2 DEF L!ByTime
    <2>2. CASE a > Len(view)
      <3>1. /\ a - Len(view) \in 1 .. Len(o) /\ b - Len(view) \in 1 .. Len(o)
            /\ a - Len(view) < b - Len(view) /\ w[a] = o[a - Len(view)] /\ w[b] = o[b - Len(view)]
        <4>1. ~ (a <= Len(view)) /\ ~ (b <= Len(view))
          BY <1>2, <1>3, <1>8, <2>2
        <4>2. w[a] = o[a - Len(view)] /\ w[b] = o[b - Len(view)]
          BY <1>2, <4>1
        <4>3. a - Len(view) \in 1 .. Len(o) /\ b - Len(view) \in 1 .. Len(o) /\ a - Len(view) < b - Len(view)
          BY <1>2, <1>3, <1>8, <2>2
        <4> QED
          BY <4>2, <4>3
      <3> QED
        BY <1>1, <3>1 DEF Sequel, L!ByTime
    <2>3. CASE a <= Len(view) /\ b > Len(view)
      <3>1. /\ a \in 1 .. Len(view) /\ b - Len(view) \in 1 .. Len(o)
            /\ w[a] = view[a] /\ w[b] = o[b - Len(view)]
        BY <1>2, <1>3, <2>3
      <3>2. w[a] \in L!Ids(view) /\ w[b] \in L!Ids(o)
        BY <3>1 DEF L!Ids
      <3> QED
        BY <1>1, <1>7, <3>2
    <2> QED
      BY <1>2, <1>3, <1>8, <2>1, <2>2, <2>3
  <1>9. ASSUME NEW a \in 1 .. Len(w)
        PROVE  rows[w[a]].server = s /\ L!At(w[a]) <= L!At(m)
    <2>1. w[a] \in L!Ids(view) \cup L!Ids(new)
      BY <1>5 DEF L!Ids
    <2> QED
      BY <1>6, <1>7, <2>1
  <1>10. ASSUME NEW i \in L!Ids(view) \cup L!Ids(new), NEW j \in L!Kept(s),
                L!At(i) < L!At(j), L!At(j) < L!At(m)
         PROVE  j \in L!Ids(view) \cup L!Ids(new)
    <2>1. L!At(j) \in Int
      BY KeptTypes
    <2>2. CASE i \in L!Ids(new)
      BY <1>10, <2>2 DEF Whole, L!Ids
    <2>3. CASE i \in L!Ids(view)
      <3>1. latest \in Recorded /\ EndsIn(view, latest) /\ Continues(new, latest, s)
        BY <2>3, EmptySeq DEF L!Ids
      <3>2. L!At(latest) \in Int /\ rows[latest].server = s
        BY <3>1, RowTypes DEF L!At, Continues
      <3>3. CASE L!At(j) < L!At(latest) \/ j = latest
        BY <1>10, <2>3, <3>1, <3>2, <3>3 DEF EndsIn, L!Ids
      <3>4. CASE L!At(latest) <= L!At(j) /\ j # latest
        BY <1>10, <3>1, <3>4 DEF Continues
      <3> QED
        BY <2>1, <3>2, <3>3, <3>4
    <2> QED
      BY <2>2, <2>3
  <1>11. ASSUME NEW a \in 1 .. Len(w), NEW j \in L!Kept(s),
                L!At(w[a]) < L!At(j), L!At(j) < L!At(m) \/ j = m
         PROVE  j \in L!Ids(w)
    <2>1. w[a] \in L!Ids(view) \cup L!Ids(new)
      BY <1>5 DEF L!Ids
    <2> QED
      BY <1>5, <1>6, <1>10, <1>11, <2>1
  <1> QED
    BY <1>2, <1>6, <1>8, <1>9, <1>11 DEF w, EndsIn, Sequel, L!ByTime

-----------------------------------------------------------------------------
(* The steps of the control plane and of the page                          *)

\* Rows are added at the end, with the present time, and removed.
Moved ==
    /\ Len(rows) <= Len(rows') /\ \A i \in Recorded : rows'[i] = rows[i]
    /\ \A j \in lStored' : \/ j \in lStored
                           \/ j \notin Recorded /\ \A i \in Recorded : rows[i].at <= rows'[j].at

LEMMA TableStep ==
    ASSUME TableInv, [L!Next]_(L!vars)
    PROVE  TableInv' /\ Moved
  <1>1. /\ lNow \in Int /\ rows \in Seq(LogRow) /\ Len(rows) \in Nat /\ lStored \subseteq Recorded
        /\ \A i \in Recorded : rows[i].at \in Int /\ rows[i].at <= lNow
    BY RowTypes DEF TableInv
  <1>2. ASSUME NEW s \in Servers, L!Record(s) PROVE TableInv' /\ Moved
    <2> DEFINE e == [server |-> s, at |-> lNow]
    <2>1. e \in LogRow /\ e.at = lNow
      BY <1>1 DEF LogRow
    <2>2. rows' = Append(rows, e) /\ lStored' = lStored \cup {Len(rows) + 1} /\ lNow' = lNow
      BY <1>2 DEF L!Record
    <2> HIDE DEF e
    <2>3. /\ rows' \in Seq(LogRow) /\ Len(rows') = Len(rows) + 1 /\ rows'[Len(rows) + 1] = e
          /\ \A i \in Recorded : rows'[i] = rows[i]
      BY <1>1, <2>1, <2>2, AppendProperties DEF Recorded
    <2>4. \A i \in 1 .. Len(rows) + 1 : i \in Recorded \/ i = Len(rows) + 1
      BY <1>1 DEF Recorded
    <2>5. \A i \in 1 .. Len(rows) + 1 : rows'[i].at <= lNow
      BY <1>1, <2>1, <2>3, <2>4
    <2>6. TableInv'
      <3>1. lStored' \subseteq 1 .. Len(rows) + 1
        <4> SUFFICES ASSUME NEW j \in lStored' PROVE j \in 1 .. Len(rows) + 1
          OBVIOUS
        <4>1. j \in Recorded \/ j = Len(rows) + 1
          BY <1>1, <2>2
        <4> QED
          BY <1>1, <4>1 DEF Recorded
      <3> QED
        BY <1>1, <2>2, <2>3, <2>5, <3>1 DEF TableInv, Recorded
    <2>7. Len(rows) + 1 \notin Recorded /\ \A i \in Recorded : rows[i].at <= rows'[Len(rows) + 1].at
      BY <1>1, <2>1, <2>3 DEF Recorded
    <2>8. Len(rows) <= Len(rows')
      BY <1>1, <2>3
    <2> QED
      BY <2>2, <2>3, <2>6, <2>7, <2>8 DEF Moved
  <1>3. CASE L!Tick
    BY <1>1, <1>3 DEF L!Tick, L!tableVars, TableInv, Moved, Recorded
  <1>4. CASE UNCHANGED <<lNow, rows>> /\ lStored' \subseteq lStored
    BY <1>1, <1>4 DEF TableInv, Moved, Recorded
  <1>5. \A r \in Retentions : L!SetRetention(r) => UNCHANGED <<lNow, rows>> /\ lStored' \subseteq lStored
    BY DEF L!SetRetention
  <1>6. L!Prune => UNCHANGED <<lNow, rows>> /\ lStored' \subseteq lStored
    BY DEF L!Prune
  <1>7. \/ L!List \/ L!Poll \/ L!TogglePaused \/ L!RowsArrive \/ L!FetchFails
        \/ (\E s \in Servers : L!SelectServer(s)) \/ UNCHANGED L!vars
        => UNCHANGED <<lNow, rows, lStored>>
    BY DEF L!List, L!Poll, L!TogglePaused, L!RowsArrive, L!FetchFails, L!SelectServer, L!vars, L!tableVars
  <1> QED
    BY <1>2, <1>3, <1>4, <1>5, <1>6, <1>7 DEF L!Next

\* What holds of rows goes on to hold when the table moves.
LEMMA TableMoves ==
    ASSUME TableInv, TableInv', Moved
    PROVE  /\ Recorded \subseteq Recorded'
           /\ \A i \in Recorded : L!At(i)' = L!At(i) /\ rows'[i] = rows[i]
           /\ \A s, j : j \in L!Kept(s)' =>
                /\ L!At(j)' \in Int
                /\ \/ j \in L!Kept(s)
                   \/ j \notin Recorded /\ \A i \in Recorded : L!At(i) <= L!At(j)'
  <1>1. Len(rows) \in Nat /\ Len(rows') \in Nat /\ Len(rows) <= Len(rows')
    BY RowTypes, LenProperties DEF TableInv, Moved
  <1>2. Recorded \subseteq Recorded'
    BY <1>1 DEF Recorded
  <1>3. \A i \in Recorded : L!At(i)' = L!At(i) /\ rows'[i] = rows[i]
    BY DEF Moved, L!At
  <1>4. ASSUME NEW s, NEW j, j \in L!Kept(s)'
        PROVE  /\ L!At(j)' \in Int
               /\ \/ j \in L!Kept(s)
                  \/ j \notin Recorded /\ \A i \in Recorded : L!At(i) <= L!At(j)'
    <2>1. j \in lStored' /\ rows'[j].server = s
      BY <1>4 DEF L!Kept
    <2>2. L!At(j)' \in Int
      <3>1. rows' \in Seq(LogRow) /\ j \in 1 .. Len(rows')
        BY <2>1 DEF TableInv, Recorded
      <3>2. rows'[j] \in LogRow
        BY <3>1, ElementOfSeq
      <3> QED
        BY <3>2 DEF LogRow, L!At
    <2>3. CASE j \in lStored
      BY <1>3, <2>2, <2>1, <2>3 DEF TableInv, L!Kept
    <2>4. CASE j \notin lStored
      BY <2>2, <2>1, <2>4 DEF Moved, L!At
    <2> QED
      BY <2>2, <2>3, <2>4
  <1> QED
    BY <1>2, <1>3, <1>4

LEMMA SequelMoves ==
    ASSUME TableInv, TableInv', Moved, NEW o, NEW s, Sequel(o, s)
    PROVE  Sequel(o, s)' /\ Sequel(o, s)
  <1>1. o \in Seq(Recorded) /\ \A a \in 1 .. Len(o) : o[a] \in Recorded
    BY IdTypes DEF Sequel
  <1>2. o \in Seq(Recorded')
    BY <1>1, TableMoves, SeqMonotonic
  <1>3. \A a \in 1 .. Len(o) : L!At(o[a])' = L!At(o[a]) /\ rows'[o[a]] = rows[o[a]]
    BY <1>1, TableMoves
  <1> QED
    BY <1>2, <1>3 DEF Sequel, L!ByTime

LEMMA WholeMoves ==
    ASSUME TableInv, TableInv', Moved, NEW o, NEW s, Sequel(o, s), Whole(o, s)
    PROVE  Whole(o, s)'
  <1>1. /\ Len(o) \in Nat
        /\ \A a \in 1 .. Len(o) : o[a] \in Recorded /\ L!At(o[a])' = L!At(o[a]) /\ L!At(o[a]) \in Int
    BY IdTypes, TableMoves DEF Sequel
  <1> SUFFICES ASSUME NEW a \in 1 .. Len(o), NEW j \in L!Kept(s)',
                      L!At(o[a])' < L!At(j)', L!At(j)' < L!At(o[Len(o)])'
               PROVE  j \in L!Ids(o)'
    BY DEF Whole
  <1>2. Len(o) \in 1 .. Len(o) /\ L!Ids(o)' = L!Ids(o)
    BY <1>1 DEF L!Ids
  <1>3. CASE j \in L!Kept(s)
    <2>1. j \in Recorded /\ L!At(j)' = L!At(j)
      BY <1>3, KeptTypes, TableMoves
    <2> QED
      BY <1>1, <1>2, <1>3, <2>1 DEF Whole
  <1>4. CASE j \notin Recorded /\ L!At(o[Len(o)]) <= L!At(j)'
    <2>1. L!At(j)' \in Int
      BY TableMoves
    <2> QED
      BY <1>1, <1>2, <1>4, <2>1
  <1> QED
    BY <1>1, <1>2, <1>3, <1>4, TableMoves

LEMMA ContinuesMoves ==
    ASSUME TableInv, TableInv', Moved, NEW o, NEW c \in Recorded, NEW s,
           Sequel(o, s), o # <<>>, Continues(o, c, s)
    PROVE  Continues(o, c, s)'
  <1>1. /\ Len(o) \in Nat \ {0}
        /\ \A a \in 1 .. Len(o) : o[a] \in Recorded /\ L!At(o[a])' = L!At(o[a]) /\ L!At(o[a]) \in Int
    BY EmptySeq, IdTypes, TableMoves DEF Sequel
  <1>2. /\ L!At(c)' = L!At(c) /\ rows'[c] = rows[c]
        /\ Len(o) \in 1 .. Len(o) /\ L!Ids(o)' = L!Ids(o)
    BY <1>1, TableMoves DEF L!Ids
  <1>3. ASSUME NEW j \in L!Kept(s)' \ {c}, L!At(c)' <= L!At(j)', L!At(j)' < L!At(o[Len(o)])'
        PROVE  j \in L!Ids(o)
    <2>1. CASE j \in L!Kept(s)
      <3>1. j \in Recorded /\ L!At(j)' = L!At(j)
        BY <2>1, KeptTypes, TableMoves
      <3> QED
        BY <1>1, <1>2, <1>3, <2>1, <3>1 DEF Continues
    <2>2. CASE j \notin Recorded /\ L!At(o[Len(o)]) <= L!At(j)'
      <3>1. L!At(j)' \in Int
        BY TableMoves
      <3> QED
        BY <1>1, <1>2, <1>3, <2>2, <3>1
    <2> QED
      BY <1>1, <1>2, <1>3, <2>1, <2>2, TableMoves
  <1> QED
    BY <1>1, <1>2, <1>3 DEF Continues

LEMMA EndMoves ==
    ASSUME TableInv, TableInv', Moved, NEW o, NEW m \in Recorded, EndsIn(o, m)
    PROVE  EndsIn(o, m)'
  <1>1. PICK s : s = rows[m].server
    OBVIOUS
  <1>2. Sequel(o, s) /\ Sequel(o, s)'
    BY <1>1, SequelMoves DEF EndsIn
  <1>3. /\ \A a \in 1 .. Len(o) : o[a] \in Recorded /\ L!At(o[a])' = L!At(o[a]) /\ L!At(o[a]) \in Int
        /\ L!At(m)' = L!At(m) /\ rows'[m] = rows[m] /\ L!Ids(o)' = L!Ids(o) /\ L!At(m) \in Int
    BY <1>2, IdTypes, RowTypes, TableMoves DEF Sequel, L!Ids, L!At
  <1>4. ASSUME NEW a \in 1 .. Len(o), NEW j, j \in L!Kept(s)',
               L!At(o[a])' < L!At(j)', L!At(j)' < L!At(m)' \/ j = m
        PROVE  j \in L!Ids(o)
    <2>1. CASE j \in L!Kept(s)
      <3>1. j \in Recorded /\ L!At(j)' = L!At(j)
        BY <2>1, KeptTypes, TableMoves
      <3> QED
        BY <1>1, <1>3, <1>4, <2>1, <3>1 DEF EndsIn
    <2>2. CASE j \notin Recorded /\ L!At(m) <= L!At(j)'
      <3>1. L!At(j)' \in Int
        BY <1>4, TableMoves
      <3> QED
        BY <1>3, <1>4, <2>2, <3>1
    <2> QED
      BY <1>3, <1>4, <2>1, <2>2, TableMoves
  <1> QED
    BY <1>1, <1>2, <1>3, <1>4 DEF EndsIn

LEMMA LogsStart == L!Init => LogsInv
  <1> SUFFICES ASSUME L!Init PROVE LogsInv
    OBVIOUS
  <1>1. /\ rows = <<>> /\ lStored = {} /\ lNow = 1 /\ serverId \in Servers /\ view = <<>>
        /\ latest = 0 /\ fetch = [of |-> serverId, initial |-> TRUE, after |-> 0, answer |-> None]
    BY DEF L!Init
  <1>2. TableInv
    BY <1>1, EmptySeq DEF TableInv, Recorded
  <1>3. ShownInv
    BY <1>1, EmptySeq DEF ShownInv, ShowsSelected, L!ShowsSelected, L!Ids
  <1>4. FetchInv
    BY <1>1 DEF FetchInv, Asked
  <1> QED
    BY <1>2, <1>3, <1>4 DEF LogsInv

\* What is shown, while the page does not change.
LEMMA ShownKept ==
    ASSUME LogsInv, TableInv', Moved, UNCHANGED <<serverId, view, latest>>,
           crossed => crossed', broken => broken'
    PROVE  ShownInv'
  <1>1. TableInv /\ ShownInv
    BY DEF LogsInv
  <1>2. PICK v, m : v = view /\ m = latest
    OBVIOUS
  <1>3. /\ Recorded \subseteq Recorded' /\ \A i \in Recorded : rows'[i] = rows[i]
        /\ Len(rows) \in Nat /\ Len(rows') \in Nat /\ Len(rows) <= Len(rows')
    BY <1>1, TableMoves, RowTypes, LenProperties DEF Moved, TableInv
  <1>4. v \in Seq(Recorded) /\ v \in Seq(Recorded')
    BY <1>1, <1>2, <1>3, SeqMonotonic DEF ShownInv
  <1>5. \A a \in 1 .. Len(v) : v[a] \in Recorded /\ rows'[v[a]] = rows[v[a]]
    BY <1>1, <1>3, <1>4, IdTypes
  <1>6. ShowsSelected'
    BY <1>1, <1>2, <1>5 DEF ShownInv, ShowsSelected, L!ShowsSelected, L!Ids
  <1>7. ASSUME ~broken', latest' # 0 PROVE EndsIn(view, latest)'
    <2>1. m \in Recorded /\ EndsIn(v, m)
      BY <1>1, <1>2, <1>7 DEF ShownInv, Recorded
    <2>2. EndsIn(v, m)'
      BY <1>1, <2>1, EndMoves
    <2> QED
      BY <1>2, <2>2 DEF EndsIn, Sequel
  <1>8. latest' \in 0 .. Len(rows')
    BY <1>1, <1>3 DEF ShownInv
  <1> QED
    BY <1>1, <1>2, <1>4, <1>6, <1>7, <1>8 DEF ShownInv

\* What was answered, while the fetch does not change.
LEMMA FetchKept ==
    ASSUME LogsInv, TableInv', Moved, fetch' = fetch, broken' = broken,
           UNCHANGED <<serverId, view, latest>>
    PROVE  FetchInv'
  <1> SUFFICES ASSUME fetch # None PROVE Asked' /\ (fetch.answer # None => Answered')
    BY DEF FetchInv
  <1>1. TableInv /\ ShownInv /\ Asked /\ (fetch.answer # None => Answered)
    BY DEF LogsInv, FetchInv
  <1>2. Asked'
    BY <1>1 DEF Asked
  <1>3. ASSUME fetch.answer # None PROVE Answered'
    <2>1. PICK o, s, c : o = fetch.answer /\ s = fetch.of /\ c = latest
      OBVIOUS
    <2>2. Sequel(o, s) /\ Whole(o, s)
      BY <1>1, <1>3, <2>1 DEF Answered
    <2>3. Sequel(o, s)' /\ Whole(o, s)'
      BY <1>1, <2>2, SequelMoves, WholeMoves
    <2>4. ASSUME ~broken', latest' # 0, o # <<>> PROVE Continues(o, c, s)'
      <3>1. c \in Recorded /\ Continues(o, c, s)
        BY <1>1, <1>3, <2>1, <2>4, RowTypes DEF Answered, ShownInv, Recorded
      <3> QED
        BY <1>1, <2>2, <2>4, <3>1, ContinuesMoves
    <2> QED
      BY <2>1, <2>3, <2>4 DEF Answered, Sequel, Whole, Continues
  <1> QED
    BY <1>2, <1>3

LEMMA ListStep == ASSUME LogsInv, TableInv', Moved, L!List PROVE FetchInv'
  <1>1. TableInv /\ ShownInv /\ Asked
    BY DEF LogsInv, FetchInv, L!List
  <1>2. {Initial, Take, Longest} \subseteq Nat \ {0}
    BY PagesAssumption DEF L!LogViewAssumption
  <1>3. PICK o \in (IF L!HasCursor THEN L!Oldest(L!Following(fetch.of, fetch.after), Take)
                    ELSE L!Newest(L!Kept(fetch.of), IF fetch.initial THEN Initial ELSE Take)) :
          /\ fetch' = [fetch EXCEPT !.answer = o]
          /\ broken' = (broken \/ (fetch.after # 0 /\ ~L!HasCursor))
          /\ UNCHANGED <<lNow, rows, lStored, serverId, view, latest>>
    BY DEF L!List, L!tableVars
  <1>4. /\ Sequel(o, fetch.of) /\ Whole(o, fetch.of)
        /\ L!HasCursor /\ o # <<>> => Continues(o, fetch.after, fetch.of)
    <2>1. CASE L!HasCursor
      <3>1. o \in L!Oldest(L!Following(fetch.of, fetch.after), Take) /\ fetch.after \in L!Kept(fetch.of)
        BY <1>3, <2>1 DEF L!HasCursor
      <3> QED
        BY <1>1, <1>2, <3>1, OldestAnswer
    <2>2. CASE ~L!HasCursor
      <3>1. \E n \in Nat \ {0} : o \in L!Newest(L!Kept(fetch.of), n)
        BY <1>2, <1>3, <2>2
      <3> QED
        BY <1>1, <2>2, <3>1, NewestAnswer
    <2> QED
      BY <2>1, <2>2
  <1>5. /\ fetch'.answer = o /\ fetch'.of = fetch.of /\ fetch'.after = fetch.after
        /\ fetch'.initial = fetch.initial
        /\ fetch' \in [of : Servers, initial : BOOLEAN, after : Nat, answer : {o}]
    BY <1>1, <1>3 DEF Asked
  <1>6. Asked'
    BY <1>1, <1>3, <1>5 DEF Asked
  <1>7. PICK s, c : s = fetch.of /\ c = latest
    OBVIOUS
  <1>8. Sequel(o, s)' /\ Whole(o, s)'
    BY <1>1, <1>4, <1>7, SequelMoves, WholeMoves
  <1>9. ASSUME ~broken', c # 0, o # <<>> PROVE Continues(o, c, s)'
    <2>1. fetch.after = c /\ c \in Recorded
      BY <1>1, <1>7, <1>9, RowTypes DEF Asked, ShownInv, Recorded
    <2>2. L!HasCursor
      BY <1>3, <1>9, <2>1
    <2> QED
      BY <1>1, <1>4, <1>7, <1>9, <2>1, <2>2, ContinuesMoves
  <1>10. Answered'
    BY <1>3, <1>5, <1>7, <1>8, <1>9 DEF Answered, Sequel, Whole, Continues
  <1> QED
    BY <1>6, <1>10 DEF FetchInv

\* An answer arrives.
LEMMA ArrivesStep == ASSUME LogsInv, TableInv', Moved, L!RowsArrive PROVE ShownInv'
  <1>1. /\ TableInv /\ ShownInv /\ Asked /\ Answered
        /\ {Initial, Take, Longest} \subseteq Nat \ {0}
    BY PagesAssumption DEF LogsInv, FetchInv, L!RowsArrive, L!LogViewAssumption
  <1>2. PICK new, s : new = fetch.answer /\ s = fetch.of
    OBVIOUS
  <1>3. /\ latest' = (IF new = <<>> THEN latest ELSE new[Len(new)])
        /\ view' \in IF new = <<>> /\ ~fetch.initial THEN {view} ELSE L!Shown(new)
        /\ crossed' = (crossed \/ (fetch.of # serverId /\ new # <<>>))
        /\ UNCHANGED <<rows, lStored, serverId, broken>>
    BY <1>2 DEF L!RowsArrive, L!tableVars
  <1>4. Sequel(new, s) /\ Whole(new, s) /\ new \in Seq(Recorded)
    BY <1>1, <1>2 DEF Answered, Sequel
  <1>5. CASE new = <<>>
    <2>1. latest' = latest /\ (view' = view \/ (view' = <<>> /\ latest = 0 /\ view = <<>>))
      <3>1. CASE ~fetch.initial
        BY <1>3, <1>5, <3>1
      <3>2. CASE fetch.initial
        <4>1. view' = <<>>
          BY <1>3, <1>5, <3>2 DEF L!Shown
        <4> QED
          BY <1>1, <1>3, <1>5, <3>2, <4>1 DEF Asked, ShownInv
      <3> QED
        BY <3>1, <3>2
    <2>2. UNCHANGED <<serverId, view, latest, broken>> /\ (crossed => crossed')
      BY <1>3, <1>5, <2>1
    <2> QED
      BY <2>2, ShownKept
  <1>6. CASE new # <<>>
    <2>1. PICK m : m = new[Len(new)]
      OBVIOUS
    <2>2. m \in Recorded /\ rows[m].server = s
      BY <1>1, <1>4, <1>6, <2>1, LastRow
    <2>3. latest' = m /\ m # 0 /\ m \in 0 .. Len(rows)
      BY <1>1, <1>3, <1>6, <2>1, <2>2, RowTypes DEF Recorded
    <2>4. PICK v : v = view'
      OBVIOUS
    \* Nothing was shown, or the answer was asked for by what is shown.
    <2>5. view = <<>> \/ (latest \in Recorded /\ s = serverId)
      BY <1>1, <1>2, RowTypes DEF Asked, ShownInv, Recorded
    <2>6. \/ v = new /\ fetch.initial
          \/ \E o \in L!NewRows(new) : v = L!LastOf(view \o o, Longest)
      BY <1>3, <1>6, <2>4 DEF L!Shown
    <2>7. v \in Seq(Recorded) /\ \A i \in L!Ids(v) : i \in L!Ids(view) \/ i \in L!Ids(new)
      <3>1. CASE v = new
        BY <1>4, <3>1
      <3>2. ASSUME NEW o \in L!NewRows(new), v = L!LastOf(view \o o, Longest)
            PROVE  v \in Seq(Recorded) /\ \A i \in L!Ids(v) : i \in L!Ids(view) \/ i \in L!Ids(new)
        <4>1. o \in Seq(Recorded) /\ view \in Seq(Recorded) /\ L!Ids(o) \subseteq L!Ids(new)
          BY <1>1, <1>4, Added, ZenonT(60) DEF Sequel, ShownInv
        <4> DEFINE w == view \o o
        <4>2. /\ w \in Seq(Recorded) /\ Len(w) = Len(view) + Len(o)
              /\ \A a \in 1 .. Len(w) : w[a] = IF a <= Len(view) THEN view[a] ELSE o[a - Len(view)]
          BY <4>1, ConcatProperties
        <4> HIDE DEF w
        <4>3. Len(view) \in Nat /\ Len(o) \in Nat
          BY <4>1, LenProperties
        <4>4. PICK k \in 0 .. Len(w) :
                /\ v \in Seq(Recorded) /\ Len(v) = Len(w) - k
                /\ \A a \in 1 .. Len(w) - k : v[a] = w[a + k]
          BY <1>1, <3>2, <4>2, LastPart, ZenonT(60) DEF w
        <4>5. ASSUME NEW a \in 1 .. Len(v) PROVE v[a] \in L!Ids(view) \cup L!Ids(o)
          <5>1. a + k \in 1 .. Len(w) /\ v[a] = w[a + k]
            BY <4>2, <4>3, <4>4
          <5>2. CASE a + k <= Len(view)
            <6>1. a + k \in 1 .. Len(view) /\ w[a + k] = view[a + k]
              BY <4>2, <4>3, <5>1, <5>2
            <6> QED
              BY <5>1, <6>1 DEF L!Ids
          <5>3. CASE ~ (a + k <= Len(view))
            <6>1. (a + k) - Len(view) \in 1 .. Len(o) /\ w[a + k] = o[(a + k) - Len(view)]
              BY <4>2, <4>3, <5>1, <5>3
            <6> QED
              BY <5>1, <6>1 DEF L!Ids
          <5> QED
            BY <5>2, <5>3
        <4> QED
          BY <4>1, <4>4, <4>5 DEF L!Ids
      <3> QED
        BY <2>6, <3>1, <3>2
    <2>8. ShowsSelected'
      <3>1. \A i \in L!Ids(new) : rows[i].server = s
        BY <1>4 DEF L!Ids, Sequel
      <3>2. \A i \in L!Ids(v) : rows[i].server = serverId \/ crossed \/ s # serverId
        BY <1>1, <2>7, <3>1 DEF ShownInv, ShowsSelected, L!ShowsSelected
      <3>3. L!Ids(view)' = L!Ids(v)
        BY <2>4 DEF L!Ids
      <3> QED
        BY <1>2, <1>3, <1>6, <3>2, <3>3 DEF ShowsSelected, L!ShowsSelected
    <2>9. ASSUME ~broken' PROVE EndsIn(view, latest)'
      <3>1. latest # 0 => Continues(new, latest, s) /\ EndsIn(view, latest)
        BY <1>1, <1>2, <1>3, <1>6, <2>9 DEF Answered, ShownInv
      <3>2. view = <<>> \/ (latest \in Recorded /\ EndsIn(view, latest) /\ Continues(new, latest, s))
        BY <1>1, <2>5, <3>1, RowTypes DEF ShownInv, Recorded
      <3>3. EndsIn(v, m)
        <4>1. CASE v = new
          BY <1>1, <1>4, <1>6, <2>1, <4>1, FirstAnswerEnds
        <4>2. ASSUME NEW o \in L!NewRows(new), v = L!LastOf(view \o o, Longest)
              PROVE  EndsIn(v, m)
          <5>1. EndsIn(view \o o, m)
            BY <1>1, <1>4, <1>6, <2>1, <3>2, JoinedRows DEF ShownInv
          <5> QED
            BY <1>1, <2>2, <4>2, <5>1, CutFront
        <4> QED
          BY <2>6, <4>1, <4>2
      <3>4. EndsIn(v, m)'
        BY <1>1, <2>2, <3>3, EndMoves
      <3> QED
        BY <2>3, <2>4, <3>4 DEF EndsIn, Sequel
    <2>10. view' \in Seq(Recorded)' /\ serverId' \in Servers /\ latest' \in 0 .. Len(rows')
      BY <1>1, <1>3, <2>3, <2>4, <2>7 DEF ShownInv, Recorded
    <2> QED
      BY <2>3, <2>8, <2>9, <2>10 DEF ShownInv
  <1> QED
    BY <1>5, <1>6

LEMMA SelectStep ==
    ASSUME LogsInv, TableInv', NEW s \in Servers, L!SelectServer(s)
    PROVE  ShownInv' /\ FetchInv'
  <1>1. /\ serverId' = s /\ latest' = 0 /\ view' = <<>> /\ broken' = FALSE
        /\ fetch' \in {fetch, [of |-> s, initial |-> TRUE, after |-> 0, answer |-> None]}
        /\ UNCHANGED <<rows, lStored>>
    BY DEF L!SelectServer, L!EmptiedView, L!Load, L!tableVars
  <1>2. ShownInv'
    <2>1. Len(rows') \in Nat
      BY LenProperties DEF TableInv
    <2> QED
      BY <1>1, <2>1, EmptySeq DEF ShownInv, ShowsSelected, L!ShowsSelected, L!Ids
  <1>3. CASE fetch' = fetch
    <2> SUFFICES ASSUME fetch # None PROVE Asked' /\ (fetch.answer # None => Answered')
      BY <1>2, <1>3 DEF FetchInv
    <2>1. Asked /\ (fetch.answer # None => Answered)
      BY DEF LogsInv, FetchInv
    <2>2. Asked'
      BY <1>1, <1>3, <2>1 DEF Asked
    <2>3. fetch.answer # None => Answered'
      BY <1>1, <1>3, <2>1 DEF Answered, Sequel, Whole, Recorded, L!ByTime, L!At, L!Kept, L!Ids
    <2> QED
      BY <2>2, <2>3
  <1>4. CASE fetch' = [of |-> s, initial |-> TRUE, after |-> 0, answer |-> None]
    <2>1. fetch'.answer = None /\ Asked'
      BY <1>1, <1>4 DEF Asked
    <2> QED
      BY <1>2, <2>1 DEF FetchInv
  <1> QED
    BY <1>1, <1>3, <1>4

LEMMA LogsStep == LogsInv /\ [L!Next]_(L!vars) => LogsInv'
  <1> SUFFICES ASSUME LogsInv, [L!Next]_(L!vars) PROVE LogsInv'
    OBVIOUS
  <1>1. TableInv' /\ Moved
    BY TableStep DEF LogsInv
  <1>2. CASE L!RowsArrive
    <2>1. FetchInv'
      BY <1>2 DEF L!RowsArrive, FetchInv
    <2> QED
      BY <1>1, <1>2, <2>1, ArrivesStep DEF LogsInv
  <1>3. CASE L!List
    <2>1. UNCHANGED <<serverId, view, latest, crossed>> /\ (broken => broken')
      BY <1>3 DEF L!List
    <2> QED
      BY <1>1, <1>3, <2>1, ListStep, ShownKept DEF LogsInv
  <1>4. ASSUME NEW s \in Servers, L!SelectServer(s) PROVE LogsInv'
    BY <1>1, <1>4, SelectStep DEF LogsInv
  <1>5. CASE L!Poll
    <2>1. UNCHANGED <<serverId, view, latest, crossed, broken>>
      BY <1>5 DEF L!Poll
    <2>2. fetch' = [of |-> serverId, initial |-> FALSE, after |-> latest, answer |-> None]
      BY <1>5 DEF L!Poll, L!Load
    <2>3. serverId \in Servers /\ latest \in Nat
      BY RowTypes DEF LogsInv, ShownInv
    <2>4. FetchInv'
      BY <2>1, <2>2, <2>3 DEF FetchInv, Asked
    <2> QED
      BY <1>1, <2>1, <2>4, ShownKept DEF LogsInv
  <1>6. CASE L!FetchFails
    <2>1. UNCHANGED <<serverId, view, latest, crossed, broken>> /\ fetch' = None
      BY <1>6 DEF L!FetchFails
    <2>2. FetchInv'
      BY <2>1 DEF FetchInv
    <2> QED
      BY <1>1, <2>1, <2>2, ShownKept DEF LogsInv
  <1>7. CASE UNCHANGED <<serverId, view, latest, crossed, broken, fetch>>
    BY <1>1, <1>7, ShownKept, FetchKept DEF LogsInv
  <1>8. \/ L!Tick \/ L!Prune \/ L!TogglePaused \/ (\E s \in Servers : L!Record(s))
        \/ (\E r \in Retentions : L!SetRetention(r)) \/ UNCHANGED L!vars
        => UNCHANGED <<serverId, view, latest, crossed, broken, fetch>>
    BY DEF L!Tick, L!Prune, L!TogglePaused, L!Record, L!SetRetention, L!vars, L!pageVars
  <1> QED
    BY <1>2, <1>3, <1>4, <1>5, <1>6, <1>7, <1>8 DEF L!Next

\* The rows a page shows end in the last it received; what a fetch brings goes
\* on from there, or the page was emptied since it was asked for.
THEOREM LogsInvariant == L!Spec => []LogsInv
  BY LogsStart, LogsStep, PTL DEF L!Spec

\* The Server Logs page shows another server's rows only when a fetch for that
\* one was in progress at the selection (logs/page.tsx).
THEOREM SelectedIsShown == L!Spec => []ShowsSelected
  <1>1. LogsInv => ShowsSelected
    BY DEF LogsInv, ShownInv
  <1> QED
    BY <1>1, LogsInvariant, PTL

\* No row is missing between two the page shows while its cursor is found, for
\* any sizes of an answer and of the page, any retention, and any rows that
\* share a time (logs.service.ts, list).
THEOREM NothingSkipped == L!Spec => []NoRowSkipped
  <1>1. ASSUME LogsInv PROVE NoRowSkipped
    <2> SUFFICES ASSUME ~broken, NEW i \in L!Ids(view), NEW k \in L!Ids(view), NEW j \in lStored,
                        rows[i].server = serverId, rows[j].server = serverId,
                        L!At(i) < L!At(j), L!At(j) < L!At(k)
                 PROVE  j \in L!Ids(view)
      BY DEF NoRowSkipped, L!NoRowSkipped
    <2>1. PICK a \in 1 .. Len(view), b \in 1 .. Len(view) : view[a] = i /\ view[b] = k
      BY DEF L!Ids
    <2>2. TableInv /\ ShownInv
      BY <1>1 DEF LogsInv
    <2>3. latest # 0
      BY <2>1, <2>2, EmptySeq DEF ShownInv
    <2>4. latest \in Recorded /\ EndsIn(view, latest)
      BY <2>2, <2>3, RowTypes DEF ShownInv, Recorded
    <2>5. rows[latest].server = serverId /\ L!At(k) <= L!At(latest)
      BY <2>1, <2>4 DEF EndsIn, Sequel
    <2>6. j \in L!Kept(serverId) /\ L!At(j) \in Int /\ L!At(k) \in Int /\ L!At(latest) \in Int
      BY <2>1, <2>2, <2>4, IdTypes, KeptTypes, RowTypes DEF L!Kept, L!At, ShownInv
    <2>7. L!At(j) < L!At(latest)
      BY <2>5, <2>6
    <2> QED
      BY <2>1, <2>4, <2>5, <2>6, <2>7 DEF EndsIn
  <1> QED
    BY <1>1, LogsInvariant, PTL

=============================================================================
