---------------------------- MODULE DiscordProofs ---------------------------
(***************************************************************************)
(* The way of a chat line, for every log, every number of uploads at once  *)
(* and every bound on failures.  First what cutting a text into lines      *)
(* yields, then the types, then one part of the invariant for each         *)
(* property.  At the end the alerts, for every number of rules and of      *)
(* handlers that notice an event.                                          *)
(***************************************************************************)
EXTENDS Discord, FiniteSetTheorems, SequenceTheorems, WellFoundedInduction, TLAPS

-----------------------------------------------------------------------------
(* Texts                                                                   *)

LEMMA MinIsLeast ==
    ASSUME NEW S, S \subseteq Nat, S # {}
    PROVE  Min(S) \in S /\ \A y \in S : Min(S) <= y
  <1>1. PICK x \in S : \A y \in S : ~(<<y, x>> \in OpToRel(<, Nat))
    BY NatLessThanWellFounded, WFMin
  <1>2. ASSUME NEW y \in S PROVE x <= y
    <2>1. <<y, x>> \notin OpToRel(<, Nat)
      BY <1>1
    <2>2. y \in Nat /\ x \in Nat
      OBVIOUS
    <2>3. <<y, x>> \in OpToRel(<, Nat) <=> y < x
      BY <2>2 DEF OpToRel
    <2>4. ~ (y < x)
      BY <2>1, <2>3, Zenon
    <2> QED
      BY <2>2, <2>4
  <1> QED
    BY <1>2 DEF Min

LEMMA MaxIsGreatest ==
    ASSUME NEW n \in Nat, NEW S, S \subseteq 0 .. n, S # {}
    PROVE  Max(S) \in S /\ \A y \in S : Max(S) >= y
  <1> DEFINE Mirror == {n - x : x \in S}
  <1>1. \A x \in S : x \in Int /\ n - x \in Nat
    OBVIOUS
  <1>2. Min(Mirror) \in Mirror /\ \A y \in Mirror : Min(Mirror) <= y
    <2>1. Mirror \subseteq Nat
      BY <1>1
    <2>2. Mirror # {}
      OBVIOUS
    <2> QED
      BY <2>1, <2>2, MinIsLeast
  <1>3. PICK x \in S : Min(Mirror) = n - x
    BY <1>2
  <1>4. \A y \in S : n - x <= n - y
    BY <1>2, <1>3
  <1>5. \A y \in S : x >= y
    BY <1>1, <1>4
  <1> QED
    BY <1>5 DEF Max

\* A text of whole lines ends with an end of line.
WholeText(s) == s \in Seq(Nat) /\ (s # <<>> => Ends(s[Len(s)]))

LEMMA CutText ==
    ASSUME NEW s \in Seq(Nat)
    PROVE  /\ LastEnd(s) \in 0 .. Len(s)
           /\ \A i \in LineEnds(s) : i <= LastEnd(s)
           /\ LastEnd(s) # 0 => LastEnd(s) \in LineEnds(s)
           /\ WholeText(Whole(s)) /\ Len(Whole(s)) = LastEnd(s)
           /\ \A i \in 1 .. LastEnd(s) : Whole(s)[i] = s[i]
           /\ Rest(s) \in Seq(Nat) /\ Len(Rest(s)) = Len(s) - LastEnd(s)
           /\ \A i \in 1 .. Len(s) - LastEnd(s) : Rest(s)[i] = s[LastEnd(s) + i]
  <1>1. /\ LastEnd(s) \in {0} \cup LineEnds(s)
        /\ \A i \in {0} \cup LineEnds(s) : LastEnd(s) >= i
    <2>1. {0} \cup LineEnds(s) \subseteq 0 .. Len(s) /\ Len(s) \in Nat
      BY DEF LineEnds
    <2> QED
      BY <2>1, MaxIsGreatest DEF LastEnd
  <1>2. LastEnd(s) \in 0 .. Len(s)
    BY <1>1 DEF LineEnds
  <1>3. /\ Whole(s) \in Seq(Nat) /\ Len(Whole(s)) = LastEnd(s)
        /\ \A i \in 1 .. LastEnd(s) : Whole(s)[i] = s[i]
    BY <1>2, SubSeqProperties DEF Whole
  <1>4. /\ Rest(s) \in Seq(Nat) /\ Len(Rest(s)) = Len(s) - LastEnd(s)
        /\ \A i \in 1 .. Len(s) - LastEnd(s) : Rest(s)[i] = s[LastEnd(s) + i]
    <2>1. \A i \in LastEnd(s) + 1 .. Len(s) : s[i] \in Nat
      BY <1>2
    <2>2. LastEnd(s) \in Nat /\ Len(s) \in Nat /\ LastEnd(s) <= Len(s)
      BY <1>2
    <2> DEFINE a == LastEnd(s) + 1
               b == Len(s)
    <2>3. a \in Int /\ b \in Int /\ \A i \in a .. b : s[i] \in Nat
      BY <2>1, <2>2
    <2> HIDE DEF a, b
    <2>4. /\ SubSeq(s, a, b) \in Seq(Nat) /\ Len(SubSeq(s, a, b)) = IF a <= b THEN b - a + 1 ELSE 0
          /\ \A i \in 1 .. b - a + 1 : SubSeq(s, a, b)[i] = s[a + i - 1]
      BY <2>3, SubSeqProperties
    <2> USE DEF a, b
    <2> QED
      BY <2>2, <2>4, SMTT(30) DEF Rest
  <1>5. WholeText(Whole(s))
    BY <1>1, <1>2, <1>3 DEF WholeText, LineEnds
  <1> QED
    BY <1>1, <1>2, <1>3, <1>4, <1>5 DEF LineEnds

LEMMA TakeLine ==
    ASSUME NEW s, WholeText(s), s # <<>>
    PROVE  /\ FirstEnd(s) \in LineEnds(s) /\ FirstEnd(s) \in 1 .. Len(s)
           /\ \A i \in LineEnds(s) : FirstEnd(s) <= i
           /\ FirstLine(s) \in Seq(Nat) /\ Len(FirstLine(s)) = FirstEnd(s)
           /\ \A i \in 1 .. FirstEnd(s) : FirstLine(s)[i] = s[i]
           /\ WholeText(OtherLines(s)) /\ Len(OtherLines(s)) = Len(s) - FirstEnd(s)
           /\ \A i \in 1 .. Len(s) - FirstEnd(s) : OtherLines(s)[i] = s[FirstEnd(s) + i]
  <1>1. Len(s) \in LineEnds(s) /\ LineEnds(s) \subseteq Nat
    BY DEF WholeText, LineEnds
  <1>2. FirstEnd(s) \in LineEnds(s) /\ \A i \in LineEnds(s) : FirstEnd(s) <= i
    BY <1>1, MinIsLeast DEF FirstEnd
  <1>3. FirstEnd(s) \in 1 .. Len(s)
    BY <1>2 DEF LineEnds
  <1>4. /\ FirstLine(s) \in Seq(Nat) /\ Len(FirstLine(s)) = FirstEnd(s)
        /\ \A i \in 1 .. FirstEnd(s) : FirstLine(s)[i] = s[i]
    BY <1>3, SubSeqProperties DEF FirstLine, WholeText
  <1>5. /\ OtherLines(s) \in Seq(Nat) /\ Len(OtherLines(s)) = Len(s) - FirstEnd(s)
        /\ \A i \in 1 .. Len(s) - FirstEnd(s) : OtherLines(s)[i] = s[FirstEnd(s) + i]
    BY <1>3, SubSeqProperties, SMTT(30) DEF OtherLines, WholeText
  <1>6. WholeText(OtherLines(s))
    BY <1>3, <1>5 DEF WholeText
  <1> QED
    BY <1>2, <1>3, <1>4, <1>5, <1>6

LEMMA TokensAre ==
    ASSUME NEW a \in Nat, NEW b \in Nat, a <= b + 1
    PROVE  /\ Tokens(a, b) \in Seq(Nat) /\ Len(Tokens(a, b)) = b - a + 1
           /\ \A i \in 1 .. b - a + 1 : Tokens(a, b)[i] = a + i - 1
  <1>1. Tokens(a, b) \in [1 .. b - a + 1 -> Nat] /\ b - a + 1 \in Nat
    BY DEF Tokens
  <1> QED
    BY <1>1 DEF Tokens

-----------------------------------------------------------------------------
(* Types                                                                   *)

Sane(c) ==
    /\ c \in Chunk /\ c.from <= c.to /\ WholeText(c.lines)
    /\ c.stage \in {"record", "moderate", "relay", "keep"} => c.lines # <<>>
    /\ c.stage \in {"moderate", "relay", "keep", "drop"} => c.id \in Ids
    /\ c.todo \subseteq Ids

ChatTypes ==
    /\ acked \in Nat /\ batch \in Nat
    /\ append \in [Appends -> {None} \cup Chunk]
    /\ \A q \in Appends : append[q] # None => Sane(append[q])
    /\ buffer \in Seq(Nat) /\ taken \in Nat
    /\ events \in Seq(Seq(Nat)) /\ posted \in Seq(Nat) /\ Len(posted) = Len(events)
    /\ waiting \subseteq Ids

\* The rows of the other chunks stay, and their ids stay valid.
LEMMA OneChunk ==
    ASSUME ChatTypes, Ids \subseteq Ids', NEW q \in Appends, NEW d,
           append' = [append EXCEPT ![q] = d],
           d = None \/ Sane(d)'
    PROVE  /\ append' \in [Appends -> {None} \cup Chunk]
           /\ \A p \in Appends : append'[p] # None => Sane(append[p])'
  <1>1. d \in {None} \cup Chunk
    BY DEF Sane
  <1>2. append' \in [Appends -> {None} \cup Chunk] /\ append'[q] = d
    BY <1>1 DEF ChatTypes
  <1>3. ASSUME NEW p \in Appends, append'[p] # None PROVE Sane(append[p])'
    <2>1. CASE p = q
      BY <1>2, <1>3, <2>1 DEF Sane
    <2>2. CASE p # q
      <3>1. append'[p] = append[p]
        BY <2>2 DEF ChatTypes
      <3> QED
        BY <1>3, <3>1 DEF ChatTypes, Sane
    <2> QED
      BY <2>1, <2>2
  <1> QED
    BY <1>2, <1>3

LEMMA NextLineSane ==
    ASSUME NEW q \in Appends, ChatTypes, append[q] # None, append[q].lines # <<>>, NextLine(q)
    PROVE  \E d : /\ append' = [append EXCEPT ![q] = d] /\ Sane(d) /\ d # None
                  /\ d.stage = "line" /\ d.lines = OtherLines(append[q].lines)
                  /\ d.id = append[q].id /\ d.todo = append[q].todo
                  /\ d.from = append[q].from /\ d.to = append[q].to
  <1> DEFINE d == [append[q] EXCEPT !.stage = "line", !.lines = OtherLines(append[q].lines)]
  <1>1. Sane(append[q])
    BY DEF ChatTypes
  <1>2. append' = [append EXCEPT ![q] = d]
    BY DEF NextLine, ChatTypes
  <1>3. WholeText(OtherLines(append[q].lines))
    BY <1>1, TakeLine DEF Sane
  <1>4. Sane(d)
    BY <1>1, <1>3 DEF Sane, Chunk, Stages, WholeText
  <1>5. d # None
    BY <1>4, ChatLogAssumption DEF ChatLogAssumption, Sane
  <1>6. /\ d.stage = "line" /\ d.lines = OtherLines(append[q].lines)
        /\ d.id = append[q].id /\ d.todo = append[q].todo
        /\ d.from = append[q].from /\ d.to = append[q].to
    BY <1>1 DEF Sane, Chunk
  <1> HIDE DEF d
  <1> QED
    BY <1>2, <1>4, <1>5, <1>6

LEMMA SetSane ==
    ASSUME NEW q \in Appends, ChatTypes, append[q] # None, NEW stage \in Stages, Set(q, stage),
           stage \in {"record", "moderate", "relay", "keep"} => append[q].lines # <<>>,
           stage \in {"moderate", "relay", "keep", "drop"} => append[q].id \in Ids
    PROVE  \E d : /\ append' = [append EXCEPT ![q] = d] /\ Sane(d) /\ d # None
                  /\ d.stage = stage /\ d.lines = append[q].lines
                  /\ d.id = append[q].id /\ d.todo = append[q].todo
                  /\ d.from = append[q].from /\ d.to = append[q].to
  <1> DEFINE d == [append[q] EXCEPT !.stage = stage]
  <1>1. Sane(append[q])
    BY DEF ChatTypes
  <1>2. append' = [append EXCEPT ![q] = d]
    BY DEF Set, ChatTypes
  <1>3. Sane(d)
    BY <1>1 DEF Sane, Chunk
  <1>4. d # None
    BY <1>3, ChatLogAssumption DEF ChatLogAssumption, Sane
  <1>5. /\ d.stage = stage /\ d.lines = append[q].lines
        /\ d.id = append[q].id /\ d.todo = append[q].todo
        /\ d.from = append[q].from /\ d.to = append[q].to
    BY <1>1 DEF Sane, Chunk
  <1> HIDE DEF d
  <1> QED
    BY <1>2, <1>3, <1>4, <1>5

LEMMA SameEvents ==
    ASSUME ChatTypes, UNCHANGED <<events, posted, waiting, buffer, taken>>, acked' \in Nat, batch' \in Nat,
           NEW q \in Appends, NEW d, append' = [append EXCEPT ![q] = d], d = None \/ Sane(d)
    PROVE  ChatTypes'
  <1>1. Ids' = Ids
    BY DEF Ids
  <1>2. d = None \/ Sane(d)'
    BY <1>1 DEF Sane
  <1>3. /\ append' \in [Appends -> {None} \cup Chunk]
        /\ \A p \in Appends : append'[p] # None => Sane(append[p])'
    BY <1>1, <1>2, OneChunk
  <1> QED
    BY <1>1, <1>3 DEF ChatTypes

LEMMA UploadStep ==
    ASSUME ChatTypes, NEW q \in Appends, Upload(q)
    PROVE  \E d : /\ append' = [append EXCEPT ![q] = d] /\ Sane(d) /\ d # None
                  /\ d.stage = "join" /\ d.from = acked + 1 /\ d.to = batch' /\ d.lines = <<>>
                  /\ d.todo = {} /\ d.id = 0
  <1> DEFINE d == [stage |-> "join", from |-> acked + 1, to |-> batch', lines |-> <<>>,
                   id |-> 0, todo |-> {}]
  <1>1. Written \in Nat
    BY ChatLogAssumption DEF ChatLogAssumption, Written
  <1>2. batch' \in Nat /\ acked + 1 <= batch'
    BY <1>1 DEF Upload, Batch, ChatTypes
  <1>3. Sane(d)
    BY <1>2 DEF ChatTypes, Sane, Chunk, Stages, WholeText
  <1>4. d # None
    BY <1>3, ChatLogAssumption DEF ChatLogAssumption, Sane
  <1>5. append' = [append EXCEPT ![q] = d]
    BY DEF Upload
  <1>6. d.stage = "join" /\ d.from = acked + 1 /\ d.to = batch' /\ d.lines = <<>> /\ d.todo = {} /\ d.id = 0
    OBVIOUS
  <1> HIDE DEF d
  <1> QED
    BY <1>3, <1>4, <1>5, <1>6

LEMMA JoinStep ==
    ASSUME ChatTypes, NEW q \in Appends, Join(q),
           NEW s, s = buffer \o Tokens(append[q].from, append[q].to)
    PROVE  /\ s \in Seq(Nat) /\ buffer' = Rest(s) /\ taken' = append[q].to
           /\ buffer' \in Seq(Nat) /\ taken' \in Nat
           /\ \E d : /\ append' = [append EXCEPT ![q] = d] /\ Sane(d) /\ d # None
                     /\ d.stage = "line" /\ d.lines = Whole(s)
                     /\ d.from = append[q].from /\ d.to = append[q].to
                     /\ d.todo = append[q].todo /\ d.id = append[q].id
  <1> DEFINE d == [append[q] EXCEPT !.stage = "line", !.lines = Whole(s)]
  <1>1. Sane(append[q]) /\ append[q] # None
    BY DEF ChatTypes, Join, At
  <1>2. /\ append[q].from \in Nat /\ append[q].to \in Nat /\ append[q].from <= append[q].to + 1
    BY <1>1 DEF Sane, Chunk
  <1>3. Tokens(append[q].from, append[q].to) \in Seq(Nat) /\ buffer \in Seq(Nat)
    BY <1>2, TokensAre DEF ChatTypes
  <1>4. s \in Seq(Nat)
    BY <1>3
  <1>5. WholeText(Whole(s)) /\ Rest(s) \in Seq(Nat)
    BY <1>4, CutText
  <1>6. append' = [append EXCEPT ![q] = d]
    BY DEF Join, ChatTypes
  <1>7. Sane(d)
    BY <1>1, <1>5 DEF Sane, Chunk, Stages, WholeText
  <1>8. d # None
    BY <1>7, ChatLogAssumption DEF ChatLogAssumption, Sane
  <1>9. /\ d.stage = "line" /\ d.lines = Whole(s)
        /\ d.from = append[q].from /\ d.to = append[q].to
        /\ d.todo = append[q].todo /\ d.id = append[q].id
    BY <1>1 DEF Sane, Chunk
  <1>10. buffer' = Rest(s) /\ taken' = append[q].to
    BY DEF Join
  <1> HIDE DEF d
  <1> QED
    BY <1>2, <1>4, <1>5, <1>6, <1>7, <1>8, <1>9, <1>10

LEMMA RecordStep ==
    ASSUME ChatTypes, NEW q \in Appends, Record(q)
    PROVE  /\ Line(q) \in Seq(Nat) /\ events' \in Seq(Seq(Nat)) /\ Len(events') = Len(events) + 1
           /\ \A i \in Ids : events'[i] = events[i] /\ posted'[i] = posted[i]
           /\ events'[Len(events) + 1] = Line(q) /\ posted'[Len(events) + 1] = 0
           /\ posted' \in Seq(Nat) /\ Len(posted') = Len(events')
           /\ \E d : /\ append' = [append EXCEPT ![q] = d] /\ Sane(d)' /\ d # None
                     /\ IF FromServer(Line(q))
                        THEN /\ d.stage = "line" /\ d.lines = OtherLines(append[q].lines)
                             /\ d.id = append[q].id
                        ELSE /\ d.stage = "moderate" /\ d.lines = append[q].lines
                             /\ d.id = Len(events) + 1
                     /\ d.todo = append[q].todo /\ d.from = append[q].from /\ d.to = append[q].to
  <1>1. Sane(append[q]) /\ append[q] # None /\ append[q].lines # <<>>
    BY DEF ChatTypes, Record, At, Sane
  <1>2. Line(q) \in Seq(Nat)
    BY <1>1, TakeLine DEF Line, Sane
  <1>3. /\ events' \in Seq(Seq(Nat)) /\ Len(events') = Len(events) + 1
        /\ events'[Len(events) + 1] = Line(q) /\ Len(events) \in Nat
        /\ \A i \in 1 .. Len(events) : events'[i] = events[i]
    BY <1>2, AppendProperties DEF ChatTypes, Record
  <1>4. /\ posted' \in Seq(Nat) /\ Len(posted') = Len(posted) + 1
        /\ posted'[Len(posted) + 1] = 0
        /\ \A i \in 1 .. Len(posted) : posted'[i] = posted[i]
    BY AppendProperties DEF ChatTypes, Record
  <1>5. Ids \subseteq Ids' /\ Len(events) + 1 \in Ids'
    BY <1>3 DEF Ids
  <1>6. CASE FromServer(Line(q))
    <2>1. NextLine(q)
      BY <1>6 DEF Record
    <2>2. PICK d : /\ append' = [append EXCEPT ![q] = d] /\ Sane(d) /\ d # None
                  /\ d.stage = "line" /\ d.lines = OtherLines(append[q].lines)
                  /\ d.id = append[q].id /\ d.todo = append[q].todo
                  /\ d.from = append[q].from /\ d.to = append[q].to
      BY <1>1, <2>1, NextLineSane
    <2>3. Sane(d)'
      BY <1>5, <2>2 DEF Sane
    <2> QED
      BY <1>2, <1>3, <1>4, <1>6, <2>2, <2>3 DEF Ids, ChatTypes
  <1>7. CASE ~ FromServer(Line(q))
    <2> DEFINE e == [append[q] EXCEPT !.stage = "moderate", !.id = Len(events) + 1]
    <2>1. append' = [append EXCEPT ![q] = e]
      BY <1>7 DEF Record, ChatTypes
    <2>2. append[q] \in Chunk /\ "moderate" \in Stages /\ Len(events) + 1 \in Nat
      BY <1>1, <1>3 DEF Sane, Stages
    <2>3. /\ e \in Chunk /\ e.stage = "moderate" /\ e.lines = append[q].lines /\ e.id = Len(events) + 1
          /\ e.todo = append[q].todo /\ e.from = append[q].from /\ e.to = append[q].to
      BY <2>2 DEF Chunk
    <2>4. /\ e \in Chunk /\ e.from <= e.to /\ WholeText(e.lines) /\ e.lines # <<>>
          /\ e.stage = "moderate" /\ e.lines = append[q].lines /\ e.id = Len(events) + 1
          /\ e.todo = append[q].todo /\ e.todo \subseteq Ids
          /\ e.from = append[q].from /\ e.to = append[q].to
      BY <1>1, <2>3 DEF Sane
    <2>5. e # None
      BY <2>4, ChatLogAssumption DEF ChatLogAssumption
    <2>6. PICK d : d = e
      OBVIOUS
    <2> HIDE DEF e
    <2>7. Sane(d)'
      BY <1>5, <2>4, <2>6 DEF Sane
    <2> QED
      BY <1>2, <1>3, <1>4, <1>7, <2>1, <2>4, <2>5, <2>6, <2>7 DEF Ids, ChatTypes
  <1> QED
    BY <1>6, <1>7

LEMMA PostStep ==
    ASSUME ChatTypes, NEW id \in Ids, Post(id)
    PROVE  /\ posted' \in Seq(Nat) /\ Len(posted') = Len(posted) /\ posted'[id] = posted[id] + 1
           /\ \A i \in Ids : i # id => posted'[i] = posted[i]
  <1>1. id \in 1 .. Len(posted) /\ posted[id] + 1 \in Nat
    BY ElementOfSeq DEF ChatTypes, Ids
  <1> QED
    BY <1>1, ExceptSeq DEF Post, ChatTypes, Ids

LEMMA RetryStep ==
    ASSUME ChatTypes, NEW q \in Appends, Retry(q)
    PROVE  \E id \in append[q].todo : \E d :
             /\ append' = [append EXCEPT ![q] = d] /\ Sane(d) /\ d # None
             /\ d.lines = append[q].lines /\ d.from = append[q].from /\ d.to = append[q].to
             /\ \/ /\ d.stage = "drop" /\ d.id = id /\ d.todo = append[q].todo
                   /\ \/ ~ relaying /\ UNCHANGED posted /\ NoFault
                      \/ Sent(id)
                \/ /\ d.stage = "retry" /\ d.todo = append[q].todo \ {id} /\ d.id = append[q].id
                   /\ PostFails(id)
  <1> DEFINE c == append[q]
             id == Min(c.todo)
             e == [c EXCEPT !.stage = "drop", !.id = id]
             f == [c EXCEPT !.todo = @ \ {id}]
  <1>1. Sane(c) /\ c # None /\ c.todo # {} /\ c.stage = "retry"
    BY DEF ChatTypes, Retry, At
  <1>2. id \in c.todo /\ id \in Ids /\ id \in Nat /\ c \in Chunk
    <2>1. c.todo \subseteq Nat /\ c.todo \subseteq Ids
      BY <1>1 DEF Sane, Ids
    <2> QED
      BY <1>1, <2>1, MinIsLeast DEF Sane
  <1>3. /\ e \in Chunk /\ e.stage = "drop" /\ e.id = id /\ e.todo = c.todo
        /\ e.lines = c.lines /\ e.from = c.from /\ e.to = c.to
    BY <1>2 DEF Chunk, Stages
  <1>4. /\ f \in Chunk /\ f.stage = "retry" /\ f.todo = c.todo \ {id} /\ f.id = c.id
        /\ f.lines = c.lines /\ f.from = c.from /\ f.to = c.to
    BY <1>1, <1>2 DEF Chunk
  <1>5. \/ append' = [append EXCEPT ![q] = e] /\ ((~ relaying /\ UNCHANGED posted /\ NoFault) \/ Sent(id))
        \/ append' = [append EXCEPT ![q] = f] /\ PostFails(id)
    BY DEF Retry, Min, ChatTypes
  <1> HIDE DEF id, e, f
  <1>6. Sane(e) /\ Sane(f)
    BY <1>1, <1>2, <1>3, <1>4 DEF Sane
  <1>7. e # None /\ f # None
    BY <1>3, <1>4, ChatLogAssumption DEF ChatLogAssumption
  <1>8. CASE append' = [append EXCEPT ![q] = e] /\ ((~ relaying /\ UNCHANGED posted /\ NoFault) \/ Sent(id))
    BY <1>2, <1>3, <1>6, <1>7, <1>8
  <1>9. CASE append' = [append EXCEPT ![q] = f] /\ PostFails(id)
    BY <1>2, <1>4, <1>6, <1>7, <1>9
  <1> QED
    BY <1>5, <1>8, <1>9

\* The other steps within a chunk: the rows it leaves alone, and its new state.
LEMMA LocalStep ==
    ASSUME ChatTypes, NEW q \in Appends,
           ReadWaiting(q) \/ Drop(q) \/ ParseFails(q)
    PROVE  \E d : /\ append' = [append EXCEPT ![q] = d] /\ Sane(d) /\ d # None
                  /\ d.from = append[q].from /\ d.to = append[q].to /\ d.id = append[q].id
                  /\ ReadWaiting(q) => d.stage = "retry" /\ d.lines = <<>> /\ d.todo = waiting
                  /\ Drop(q) => /\ d.stage = "retry" /\ d.lines = append[q].lines
                                /\ d.todo = IF append[q].id \in waiting
                                            THEN append[q].todo \ {append[q].id} ELSE {}
                  /\ ParseFails(q) => d.stage = "line" /\ d.lines = <<>> /\ d.todo = append[q].todo
  <1> DEFINE c == append[q]
  <1>1. Sane(c) /\ c # None /\ c \in Chunk
    BY DEF ChatTypes, ReadWaiting, Drop, ParseFails, At, Sane
  <1>2. waiting \subseteq Nat
    BY DEF ChatTypes, Ids
  <1>3. CASE ReadWaiting(q)
    <2> DEFINE e == [c EXCEPT !.stage = "retry", !.todo = waiting]
    <2>1. append' = [append EXCEPT ![q] = e] /\ c.stage = "line" /\ c.lines = <<>>
      BY <1>3 DEF ReadWaiting, ChatTypes, At
    <2>2. /\ e \in Chunk /\ e.stage = "retry" /\ e.lines = c.lines /\ e.todo = waiting
          /\ e.from = c.from /\ e.to = c.to /\ e.id = c.id
      BY <1>1, <1>2 DEF Chunk, Stages
    <2>3. e # None
      BY <2>2, ChatLogAssumption DEF ChatLogAssumption
    <2>4. ~ Drop(q) /\ ~ ParseFails(q)
      BY <2>1 DEF Drop, ParseFails, At
    <2> HIDE DEF e
    <2>5. Sane(e)
      BY <1>1, <2>2 DEF Sane, ChatTypes
    <2> QED
      BY <2>1, <2>2, <2>3, <2>4, <2>5
  <1>4. CASE Drop(q)
    <2>1. PICK td : td = IF c.id \in waiting THEN c.todo \ {c.id} ELSE {}
      OBVIOUS
    <2>2. td \subseteq c.todo /\ td \in SUBSET Nat
      BY <1>1, <2>1 DEF Chunk
    <2> DEFINE e == [c EXCEPT !.stage = "retry", !.todo = td]
    <2>3. append' = [append EXCEPT ![q] = e] /\ c.stage = "drop"
      BY <1>4, <2>1 DEF Drop, ChatTypes, At
    <2>4. /\ e \in Chunk /\ e.stage = "retry" /\ e.lines = c.lines /\ e.todo = td
          /\ e.from = c.from /\ e.to = c.to /\ e.id = c.id
      BY <1>1, <2>2 DEF Chunk, Stages
    <2>5. e # None
      BY <2>4, ChatLogAssumption DEF ChatLogAssumption
    <2>6. ~ ReadWaiting(q) /\ ~ ParseFails(q)
      BY <2>3 DEF ReadWaiting, ParseFails, At
    <2> HIDE DEF e
    <2>7. Sane(e)
      BY <1>1, <2>4, <2>2 DEF Sane
    <2> QED
      BY <2>3, <2>4, <2>5, <2>6, <2>7, <2>1
  <1>5. CASE ParseFails(q)
    <2> DEFINE e == [c EXCEPT !.stage = "line", !.lines = <<>>]
    <2>1. append' = [append EXCEPT ![q] = e] /\ c.lines # <<>> /\ c.stage # "drop"
      BY <1>5 DEF ParseFails, ChatTypes, At
    <2>2. /\ e \in Chunk /\ e.stage = "line" /\ e.lines = <<>> /\ e.todo = c.todo
          /\ e.from = c.from /\ e.to = c.to /\ e.id = c.id
      <3>1. <<>> \in Seq(Nat) /\ "line" \in Stages
        BY DEF Stages
      <3> QED
        BY <1>1, <3>1 DEF Chunk
    <2>3. e # None
      BY <2>2, ChatLogAssumption DEF ChatLogAssumption
    <2>4. ~ ReadWaiting(q) /\ ~ Drop(q)
      BY <2>1 DEF ReadWaiting, Drop, At
    <2> HIDE DEF e
    <2>5. Sane(e)
      BY <1>1, <2>2 DEF Sane, WholeText
    <2> QED
      BY <2>1, <2>2, <2>3, <2>4, <2>5
  <1> QED
    BY <1>3, <1>4, <1>5

LEMMA ChatTypesStep == ChatTypes /\ [Next]_vars => ChatTypes'
  <1> SUFFICES ASSUME ChatTypes, [Next]_vars PROVE ChatTypes'
    OBVIOUS
  <1> USE DEF agentVars, parser, rows
  <1>1. CASE AgentRestart \/ UpdateChatSettings \/ UNCHANGED vars
    <2>1. UNCHANGED <<append, buffer, taken, events, posted, waiting>> /\ Ids' = Ids
      BY <1>1 DEF AgentRestart, UpdateChatSettings, vars, Ids
    <2>2. acked' \in Nat /\ batch' \in Nat
      BY <1>1 DEF AgentRestart, UpdateChatSettings, vars, ChatTypes
    <2> QED
      BY <2>1, <2>2 DEF ChatTypes, Sane
  <1>2. CASE Crash
    <2>1. append' = [q \in Appends |-> None] /\ Ids' = Ids
      BY <1>2 DEF Crash, Ids
    <2> QED
      BY <1>2, <2>1 DEF Crash, ChatTypes
  <1>3. ASSUME NEW q \in Appends, Upload(q) PROVE ChatTypes'
    <2>1. batch' \in Nat /\ acked' \in Nat
      BY <1>3, ChatLogAssumption DEF ChatLogAssumption, Upload, Batch, Written, ChatTypes
    <2>2. UNCHANGED <<events, posted, waiting, buffer, taken>>
      BY <1>3 DEF Upload
    <2> QED
      BY <1>3, <2>1, <2>2, UploadStep, SameEvents
  <1>4. ASSUME NEW q \in Appends, Answer(q) \/ UploadFails(q) PROVE ChatTypes'
    <2>1. /\ append' = [append EXCEPT ![q] = None] /\ acked' \in Nat /\ batch' \in Nat
          /\ UNCHANGED <<events, posted, waiting, buffer, taken>>
      BY <1>4 DEF Answer, UploadFails, ChatTypes
    <2> QED
      BY <2>1, SameEvents
  <1>5. ASSUME NEW q \in Appends, Timeout(q) PROVE ChatTypes'
    BY <1>5 DEF Timeout, ChatTypes, Sane, Ids
  <1>6. ASSUME NEW q \in Appends, Join(q) PROVE ChatTypes'
    <2>1. PICK s : s = buffer \o Tokens(append[q].from, append[q].to)
      OBVIOUS
    <2>2. buffer' \in Seq(Nat) /\ taken' \in Nat
      BY <1>6, <2>1, JoinStep
    <2>3. PICK d : append' = [append EXCEPT ![q] = d] /\ Sane(d)
      BY <1>6, <2>1, JoinStep
    <2>4. UNCHANGED <<events, posted, waiting, acked, batch>> /\ Ids' = Ids
      BY <1>6 DEF Join, Ids
    <2>5. Sane(d)'
      BY <2>3, <2>4 DEF Sane
    <2> QED
      BY <2>2, <2>3, <2>4, <2>5, OneChunk DEF ChatTypes
  <1>7. ASSUME NEW q \in Appends, CheckLine(q) PROVE ChatTypes'
    <2>1. append[q] # None /\ append[q].lines # <<>> /\ (NextLine(q) \/ Set(q, "record"))
      BY <1>7 DEF CheckLine, At
    <2>2. PICK d : append' = [append EXCEPT ![q] = d] /\ Sane(d)
      BY <2>1, NextLineSane, SetSane DEF Stages
    <2> QED
      BY <1>7, <2>2, SameEvents DEF CheckLine, ChatTypes
  <1>8. ASSUME NEW q \in Appends, Record(q) PROVE ChatTypes'
    <2>1. /\ events' \in Seq(Seq(Nat)) /\ posted' \in Seq(Nat) /\ Len(posted') = Len(events')
          /\ Len(events') = Len(events) + 1
      BY <1>8, RecordStep
    <2>2. Ids \subseteq Ids'
      BY <2>1 DEF Ids, ChatTypes
    <2>3. PICK d : append' = [append EXCEPT ![q] = d] /\ Sane(d)'
      BY <1>8, RecordStep
    <2>4. UNCHANGED <<acked, batch, buffer, taken, waiting>>
      BY <1>8 DEF Record
    <2>5. /\ append' \in [Appends -> {None} \cup Chunk]
          /\ \A p \in Appends : append'[p] # None => Sane(append[p])'
      BY <2>2, <2>3, OneChunk
    <2> QED
      BY <2>1, <2>2, <2>4, <2>5 DEF ChatTypes
  <1>9. ASSUME NEW q \in Appends, Moderate(q) PROVE ChatTypes'
    <2>1. /\ append[q] # None /\ append[q].lines # <<>> /\ append[q].id \in Ids
          /\ NextLine(q) \/ Set(q, "relay")
      BY <1>9 DEF Moderate, At, ChatTypes, Sane
    <2>2. PICK d : append' = [append EXCEPT ![q] = d] /\ Sane(d)
      BY <2>1, NextLineSane, SetSane DEF Stages
    <2> QED
      BY <1>9, <2>2, SameEvents DEF Moderate, ChatTypes
  <1>10. ASSUME NEW q \in Appends, Relay(q) PROVE ChatTypes'
    <2>1. /\ append[q] # None /\ append[q].lines # <<>> /\ append[q].id \in Ids
          /\ NextLine(q) \/ Set(q, "keep")
      BY <1>10 DEF Relay, At, ChatTypes, Sane
    <2>2. PICK d : append' = [append EXCEPT ![q] = d] /\ Sane(d)
      BY <2>1, NextLineSane, SetSane DEF Stages
    <2>3. posted' \in Seq(Nat) /\ Len(posted') = Len(posted)
      BY <1>10, <2>1, PostStep DEF Relay, Sent, PostFails, ChatTypes
    <2>4. UNCHANGED <<events, waiting, acked, batch, buffer, taken>> /\ Ids' = Ids
      BY <1>10 DEF Relay, Ids
    <2>5. Sane(d)'
      BY <2>2, <2>4 DEF Sane
    <2> QED
      BY <2>2, <2>3, <2>4, <2>5, OneChunk DEF ChatTypes
  <1>11. ASSUME NEW q \in Appends, Keep(q) PROVE ChatTypes'
    <2>1. append[q] # None /\ append[q].lines # <<>> /\ append[q].id \in Ids /\ NextLine(q)
      BY <1>11 DEF Keep, At, ChatTypes, Sane
    <2>2. PICK d : append' = [append EXCEPT ![q] = d] /\ Sane(d)
      BY <2>1, NextLineSane
    <2>3. UNCHANGED <<events, posted, acked, batch, buffer, taken>> /\ Ids' = Ids /\ waiting' \subseteq Ids
      BY <1>11, <2>1 DEF Keep, Kept, Ids, ChatTypes
    <2>4. Sane(d)'
      BY <2>2, <2>3 DEF Sane
    <2> QED
      BY <2>2, <2>3, <2>4, OneChunk DEF ChatTypes
  <1>12. ASSUME NEW q \in Appends, Retry(q) PROVE ChatTypes'
    <2>1. PICK id \in append[q].todo : \E d :
            /\ append' = [append EXCEPT ![q] = d] /\ Sane(d)
            /\ UNCHANGED posted \/ Post(id)
      BY <1>12, RetryStep DEF Sent, PostFails
    <2>2. PICK d : append' = [append EXCEPT ![q] = d] /\ Sane(d)
      BY <2>1
    <2>3. id \in Ids
      BY <1>12, <2>1 DEF Retry, At, ChatTypes, Sane
    <2>4. posted' \in Seq(Nat) /\ Len(posted') = Len(posted)
      BY <2>1, <2>3, PostStep DEF ChatTypes
    <2>5. UNCHANGED <<events, waiting, acked, batch, buffer, taken>> /\ Ids' = Ids
      BY <1>12 DEF Retry, Ids
    <2>6. Sane(d)'
      BY <2>5, <2>2 DEF Sane
    <2> QED
      BY <2>4, <2>5, <2>6, <2>2, OneChunk DEF ChatTypes
  <1>13. ASSUME NEW q \in Appends, ReadWaiting(q) \/ Drop(q) \/ ParseFails(q) PROVE ChatTypes'
    <2>1. PICK d : append' = [append EXCEPT ![q] = d] /\ Sane(d)
      BY <1>13, LocalStep
    <2>2. UNCHANGED <<events, posted, acked, batch, buffer, taken>> /\ Ids' = Ids /\ waiting' \subseteq Ids
      BY <1>13 DEF ReadWaiting, Drop, Dropped, ParseFails, Ids, ChatTypes
    <2>3. Sane(d)'
      BY <2>1, <2>2 DEF Sane
    <2> QED
      BY <2>1, <2>2, <2>3, OneChunk DEF ChatTypes
  <1> QED
    BY <1>1, <1>2, <1>3, <1>4, <1>5, <1>6, <1>7, <1>8, <1>9, <1>10, <1>11, <1>12, <1>13 DEF Next

\* The steps of append() that leave its chunk in progress.
Work(q) == \/ Join(q) \/ CheckLine(q) \/ Record(q) \/ Moderate(q) \/ Relay(q) \/ Keep(q)
           \/ ParseFails(q) \/ ReadWaiting(q) \/ Retry(q) \/ Drop(q)

LEMMA WorkFrame ==
    ASSUME ChatTypes, NEW q \in Appends, Work(q)
    PROVE  /\ append[q] # None /\ append'[q] # None
           /\ \A p \in Appends : p # q => append'[p] = append[p]
           /\ append'[q].from = append[q].from /\ append'[q].to = append[q].to
           /\ UNCHANGED agentVars /\ happened \subseteq happened'
           /\ ~ Record(q) => UNCHANGED events
           /\ append'[q].stage = "record" =>
                /\ IsChat(Line(q)) /\ ~ Known(Line(q)) /\ append'[q].lines = append[q].lines
                /\ append[q].stage = "line"
  <1> USE DEF agentVars, Fault, NoFault
  <1>1. append[q] # None /\ Sane(append[q])
    BY DEF Work, Join, CheckLine, Record, Moderate, Relay, Keep, ParseFails, ReadWaiting, Retry, Drop,
           At, ChatTypes
  <1>2. UNCHANGED agentVars /\ happened \subseteq happened'
    BY DEF Work, Join, CheckLine, Record, Moderate, Relay, Keep, ParseFails, ReadWaiting, Retry, Drop,
           Sent, PostFails
  <1>3. ~ Record(q) => UNCHANGED events
    BY DEF Work, Join, CheckLine, Moderate, Relay, Keep, ParseFails, ReadWaiting, Retry, Drop, rows
  <1> DEFINE Becomes(d) ==
        /\ append' = [append EXCEPT ![q] = d] /\ d # None
        /\ d.from = append[q].from /\ d.to = append[q].to
        /\ d.stage = "record" => /\ IsChat(Line(q)) /\ ~ Known(Line(q)) /\ d.lines = append[q].lines
                                /\ append[q].stage = "line"
  <1>4. \E d : Becomes(d)
    <2>1. CASE Join(q)
      <3>1. PICK s : s = buffer \o Tokens(append[q].from, append[q].to)
        OBVIOUS
      <3> QED
        BY <2>1, <3>1, JoinStep
    <2>2. CASE Record(q)
      BY <2>2, RecordStep
    <2>3. CASE Retry(q)
      BY <2>3, RetryStep
    <2>4. CASE ReadWaiting(q) \/ Drop(q) \/ ParseFails(q)
      <3>1. PICK d : /\ append' = [append EXCEPT ![q] = d] /\ d # None
                     /\ d.from = append[q].from /\ d.to = append[q].to
                     /\ d.stage \in {"retry", "line"}
        BY <2>4, LocalStep
      <3> QED
        BY <3>1
    <2>5. CASE CheckLine(q) \/ Moderate(q) \/ Relay(q) \/ Keep(q)
      <3>1. CASE NextLine(q)
        <4>1. append[q].lines # <<>>
          BY <1>1, <2>5 DEF CheckLine, Moderate, Relay, Keep, At, Sane
        <4> QED
          BY <1>1, <3>1, <4>1, NextLineSane
      <3>2. CASE CheckLine(q) /\ Set(q, "record") /\ IsChat(Line(q)) /\ ~ Known(Line(q))
        <4>1. append[q].lines # <<>> /\ append[q].stage = "line" /\ "record" \in Stages
          BY <3>2 DEF CheckLine, At, Stages
        <4> QED
          BY <1>1, <3>2, <4>1, SetSane
      <3>3. ASSUME NEW stage \in {"relay", "keep"}, Set(q, stage), Moderate(q) \/ Relay(q)
            PROVE  \E d : Becomes(d)
        <4>1. append[q].lines # <<>> /\ append[q].id \in Ids /\ stage \in Stages
          BY <1>1, <3>3 DEF Moderate, Relay, At, Sane, Stages
        <4> QED
          BY <1>1, <3>3, <4>1, SetSane
      <3> QED
        BY <2>5, <3>1, <3>2, <3>3 DEF CheckLine, Moderate, Relay, Keep
    <2> HIDE DEF Becomes
    <2> QED
      BY <2>1, <2>2, <2>3, <2>4, <2>5 DEF Work
  <1>5. PICK d : Becomes(d)
    BY <1>4
  <1>6. append'[q] = d /\ \A p \in Appends : p # q => append'[p] = append[p]
    BY <1>5 DEF ChatTypes
  <1> QED
    BY <1>1, <1>2, <1>3, <1>5, <1>6

-----------------------------------------------------------------------------
(* Recorded once                                                           *)

\* Unless uploads overlapped there is one chunk at a time, and what it is about
\* to record is not recorded yet.
RecordInv ==
    /\ RecordedOnce
    /\ "overlap" \notin happened =>
         /\ \A p, q \in Appends : append[p] # None /\ append[q] # None => p = q
         /\ \A q \in Appends : append[q] # None /\ append[q].stage = "record" => ~ Known(Line(q))

LEMMA RecordInvStep == ChatTypes /\ RecordInv /\ [Next]_vars => RecordInv'
  <1> SUFFICES ASSUME ChatTypes, RecordInv, [Next]_vars, "overlap" \notin happened' PROVE RecordInv'
    BY DEF RecordInv, RecordedOnce
  <1>1. ASSUME UNCHANGED events, happened \subseteq happened',
               \A p \in Appends : append'[p] \in {None, append[p]}
        PROVE  RecordInv'
    BY <1>1 DEF RecordInv, RecordedOnce, Ids, Known, StampOf, Line
  <1>2. CASE AgentRestart \/ UpdateChatSettings \/ UNCHANGED vars \/ Crash
    <2>1. UNCHANGED events /\ happened \subseteq happened'
      BY <1>2 DEF AgentRestart, UpdateChatSettings, vars, Crash, Fault, rows
    <2>2. \A p \in Appends : append'[p] \in {None, append[p]}
      BY <1>2 DEF AgentRestart, UpdateChatSettings, vars, Crash
    <2> QED
      BY <1>1, <2>1, <2>2
  <1>3. ASSUME NEW q \in Appends, Answer(q) \/ UploadFails(q) \/ Timeout(q) PROVE RecordInv'
    <2>1. UNCHANGED events /\ happened \subseteq happened'
      BY <1>3 DEF Answer, UploadFails, Timeout, Fault, NoFault, rows
    <2>2. \A p \in Appends : append'[p] \in {None, append[p]}
      BY <1>3 DEF Answer, UploadFails, Timeout, ChatTypes
    <2> QED
      BY <1>1, <2>1, <2>2
  <1>4. ASSUME NEW q \in Appends, Upload(q) PROVE RecordInv'
    <2>1. UNCHANGED events /\ happened \subseteq happened' /\ \A p \in Appends : append[p] = None
      BY <1>4 DEF Upload, rows
    <2>2. PICK d : append' = [append EXCEPT ![q] = d] /\ d.stage = "join"
      BY <1>4, UploadStep
    <2>3. append'[q].stage = "join" /\ \A p \in Appends : p # q => append'[p] = None
      BY <2>1, <2>2 DEF ChatTypes
    <2> QED
      BY <2>1, <2>3 DEF RecordInv, RecordedOnce, Ids, StampOf
  <1>5. ASSUME NEW q \in Appends, Work(q) PROVE RecordInv'
    <2>1. /\ append[q] # None /\ append'[q] # None /\ happened \subseteq happened'
          /\ \A p \in Appends : p # q => append'[p] = append[p]
          /\ ~ Record(q) => UNCHANGED events
      BY <1>5, WorkFrame
    <2>2. \A p \in Appends : append'[p] # None => p = q
      BY <2>1 DEF RecordInv
    <2>3. CASE Record(q)
      <3>1. /\ Len(events') = Len(events) + 1 /\ events'[Len(events) + 1] = Line(q)
            /\ \A i \in Ids : events'[i] = events[i]
        BY <2>3, RecordStep
      <3>2. append'[q].stage # "record"
        <4>1. PICK d : append' = [append EXCEPT ![q] = d] /\ d.stage # "record"
          BY <2>3, RecordStep
        <4> QED
          BY <4>1 DEF ChatTypes
      <3>3. \A i \in Ids : StampOf(events[i]) # StampOf(Line(q))
        BY <2>1, <2>3 DEF RecordInv, Record, At, Known, Ids
      <3>4. Ids' = Ids \cup {Len(events) + 1}
        BY <3>1 DEF Ids, ChatTypes
      <3>5. RecordedOnce'
        BY <2>1, <3>1, <3>3, <3>4 DEF RecordInv, RecordedOnce, StampOf
      <3> QED
        BY <2>2, <3>2, <3>5 DEF RecordInv
    <2>4. CASE ~ Record(q)
      <3>1. append'[q].stage = "record" => ~ Known(Line(q)) /\ append'[q].lines = append[q].lines
        BY <1>5, WorkFrame
      <3>2. append'[q].stage = "record" => ~ Known(Line(q))'
        BY <2>1, <2>4, <3>1 DEF Known, StampOf, Line
      <3> QED
        BY <2>1, <2>2, <2>4, <3>2 DEF RecordInv, RecordedOnce, Ids, StampOf
    <2> QED
      BY <2>3, <2>4
  <1> QED
    BY <1>2, <1>3, <1>4, <1>5 DEF Next, Work

-----------------------------------------------------------------------------
(* The steps behind the record, one lemma for all properties of the relay   *)

LEMMA Remembered == ChatTypes /\ [Next]_vars => happened \subseteq happened'
  <1> SUFFICES ASSUME ChatTypes, [Next]_vars PROVE happened \subseteq happened'
    OBVIOUS
  <1>1. CASE AgentRestart \/ UpdateChatSettings \/ Crash \/ UNCHANGED vars
    BY <1>1 DEF AgentRestart, UpdateChatSettings, Crash, vars, Fault
  <1>2. ASSUME NEW q \in Appends, Upload(q) \/ Answer(q) \/ UploadFails(q) \/ Timeout(q)
        PROVE  happened \subseteq happened'
    BY <1>2 DEF Upload, Answer, UploadFails, Timeout, Fault, NoFault
  <1>3. ASSUME NEW q \in Appends, Work(q) PROVE happened \subseteq happened'
    BY <1>3, WorkFrame
  <1> QED
    BY <1>1, <1>2, <1>3 DEF Next, Work

\* The steps that touch no row of the transcript: chunks begin, or end with
\* nothing left to retry.
Outer(q) == Upload(q) \/ Answer(q) \/ UploadFails(q) \/ Timeout(q)

LEMMA OuterRows ==
    ASSUME ChatTypes, NEW q \in Appends, Outer(q)
    PROVE  /\ UNCHANGED <<events, posted, waiting, blocked, relaying>>
           /\ \A p \in Appends : p # q => append'[p] = append[p]
           /\ \/ append'[q] \in {None, append[q]}
              \/ append'[q].stage = "join" /\ append'[q].todo = {}
           /\ append'[q] # append[q] /\ append[q] # None =>
                append[q].stage = "join" \/ append[q].stage = "retry"
  <1>1. UNCHANGED <<events, posted, waiting, blocked, relaying>>
    BY DEF Outer, Upload, Answer, UploadFails, Timeout, rows
  <1>2. CASE Upload(q)
    <2>1. PICK d : append' = [append EXCEPT ![q] = d] /\ d.stage = "join" /\ d.todo = {}
      BY <1>2, UploadStep
    <2>2. append[q] = None
      BY <1>2 DEF Upload
    <2> QED
      BY <1>1, <2>1, <2>2 DEF ChatTypes
  <1>3. CASE Answer(q) \/ UploadFails(q) \/ Timeout(q)
    BY <1>1, <1>3 DEF Answer, UploadFails, Timeout, ChatTypes
  <1> QED
    BY <1>2, <1>3 DEF Outer

\* What the step of each stage does to the chunk's place in the rows (c before,
\* d after) and to what was posted.
LEMMA WorkPlace ==
    ASSUME ChatTypes, NEW q \in Appends, NEW c, NEW d, c = append[q], d = append'[q]
    PROVE  /\ Join(q) \/ CheckLine(q) \/ ParseFails(q) =>
                d.stage \in {"line", "record"} /\ d.todo = c.todo /\ d.id = c.id
           /\ ReadWaiting(q) => d.stage = "retry" /\ d.todo = waiting
           /\ Record(q) => /\ d.todo = c.todo
                          /\ \/ d.stage = "line" /\ FromServer(Line(q))
                             \/ d.stage = "moderate" /\ d.id = Len(events) + 1
           /\ Moderate(q) => /\ d.todo = c.todo /\ d.id = c.id
                            /\ \/ d.stage = "relay"
                               \/ d.stage = "line" /\ c.id \in blocked'
           /\ Relay(q) => /\ d.todo = c.todo /\ d.id = c.id
                         /\ \/ d.stage = "line" /\ (Post(c.id) \/ (~ relaying /\ UNCHANGED posted))
                            \/ d.stage = "keep" /\ PostFails(c.id)
           /\ Keep(q) => d.stage = "line" /\ d.todo = c.todo /\ d.id = c.id
           /\ Retry(q) => \E id \in c.todo :
                           \/ /\ d.stage = "drop" /\ d.id = id /\ d.todo = c.todo
                              /\ Post(id) \/ (~ relaying /\ UNCHANGED posted)
                           \/ d.stage = "retry" /\ d.todo = c.todo \ {id} /\ PostFails(id)
           /\ Drop(q) => d.stage = "retry" /\ d.todo \subseteq c.todo \ {c.id}
  <1> DEFINE Goes(e) == append' = [append EXCEPT ![q] = e]
  <1>1. ASSUME NEW e, Goes(e) PROVE d = e
    BY <1>1 DEF ChatTypes
  <1>2. append[q] # None => Sane(c)
    BY DEF ChatTypes
  <1>3. ASSUME NextLine(q), append[q] # None, append[q].lines # <<>>
        PROVE  d.stage = "line" /\ d.todo = c.todo /\ d.id = c.id
    <2>1. PICK e : Goes(e) /\ e.stage = "line" /\ e.todo = c.todo /\ e.id = c.id
      BY <1>3, NextLineSane
    <2> QED
      BY <1>1, <2>1
  <1>4. ASSUME NEW stage \in Stages, Set(q, stage), append[q] # None, append[q].lines # <<>>,
               stage # "record" => append[q].id \in Ids
        PROVE  d.stage = stage /\ d.todo = c.todo /\ d.id = c.id
    <2>1. PICK e : Goes(e) /\ e.stage = stage /\ e.todo = c.todo /\ e.id = c.id
      BY <1>4, SetSane
    <2> QED
      BY <1>1, <2>1
  <1>5. Join(q) => d.stage = "line" /\ d.todo = c.todo /\ d.id = c.id
    <2> SUFFICES ASSUME Join(q) PROVE d.stage = "line" /\ d.todo = c.todo /\ d.id = c.id
      OBVIOUS
    <2>1. PICK s : s = buffer \o Tokens(append[q].from, append[q].to)
      OBVIOUS
    <2>2. PICK e : Goes(e) /\ e.stage = "line" /\ e.todo = c.todo /\ e.id = c.id
      BY <2>1, JoinStep
    <2> QED
      BY <1>1, <2>2
  <1>6. CheckLine(q) => d.stage \in {"line", "record"} /\ d.todo = c.todo /\ d.id = c.id
    BY <1>3, <1>4 DEF CheckLine, At, Stages
  <1>7. ParseFails(q) => d.stage = "line" /\ d.todo = c.todo /\ d.id = c.id
    BY <1>1, LocalStep
  <1>8. ReadWaiting(q) => d.stage = "retry" /\ d.todo = waiting
    BY <1>1, LocalStep
  <1>9. Record(q) => /\ d.todo = c.todo
                     /\ \/ d.stage = "line" /\ FromServer(Line(q))
                        \/ d.stage = "moderate" /\ d.id = Len(events) + 1
    BY <1>1, RecordStep
  <1>10. Moderate(q) => /\ d.todo = c.todo /\ d.id = c.id
                        /\ \/ d.stage = "relay"
                           \/ d.stage = "line" /\ c.id \in blocked'
    BY <1>2, <1>3, <1>4 DEF Moderate, At, Stages, Sane
  <1>11. Relay(q) => /\ d.todo = c.todo /\ d.id = c.id
                     /\ \/ d.stage = "line" /\ (Post(c.id) \/ (~ relaying /\ UNCHANGED posted))
                        \/ d.stage = "keep" /\ PostFails(c.id)
    <2> SUFFICES ASSUME Relay(q)
                 PROVE  /\ d.todo = c.todo /\ d.id = c.id
                        /\ \/ d.stage = "line" /\ (Post(c.id) \/ (~ relaying /\ UNCHANGED posted))
                           \/ d.stage = "keep" /\ PostFails(c.id)
      OBVIOUS
    <2>1. append[q] # None /\ append[q].lines # <<>> /\ append[q].id \in Ids
      BY <1>2 DEF Relay, At, Sane
    <2>2. \/ NextLine(q) /\ (Post(append[q].id) \/ (~ relaying /\ UNCHANGED posted))
          \/ Set(q, "keep") /\ PostFails(append[q].id)
      BY Zenon DEF Relay, Sent
    <2>3. CASE NextLine(q) /\ (Post(append[q].id) \/ (~ relaying /\ UNCHANGED posted))
      BY <1>3, <2>1, <2>3 DEF Post
    <2>4. CASE Set(q, "keep") /\ PostFails(append[q].id)
      BY <1>4, <2>1, <2>4 DEF Stages, Post, PostFails
    <2> QED
      BY <2>2, <2>3, <2>4
  <1>12. Keep(q) => d.stage = "line" /\ d.todo = c.todo /\ d.id = c.id
    BY <1>2, <1>3 DEF Keep, At, Sane
  <1>13. Retry(q) => \E id \in c.todo :
                       \/ /\ d.stage = "drop" /\ d.id = id /\ d.todo = c.todo
                          /\ Post(id) \/ (~ relaying /\ UNCHANGED posted)
                       \/ d.stage = "retry" /\ d.todo = c.todo \ {id} /\ PostFails(id)
    <2> SUFFICES ASSUME Retry(q)
                 PROVE  \E id \in c.todo :
                          \/ /\ d.stage = "drop" /\ d.id = id /\ d.todo = c.todo
                             /\ Post(id) \/ (~ relaying /\ UNCHANGED posted)
                          \/ d.stage = "retry" /\ d.todo = c.todo \ {id} /\ PostFails(id)
      OBVIOUS
    <2>1. PICK id \in append[q].todo : \E e :
             /\ Goes(e)
             /\ \/ /\ e.stage = "drop" /\ e.id = id /\ e.todo = append[q].todo
                   /\ Post(id) \/ (~ relaying /\ UNCHANGED posted)
                \/ e.stage = "retry" /\ e.todo = append[q].todo \ {id} /\ PostFails(id)
      <3>1. PICK id \in append[q].todo : \E e :
             /\ append' = [append EXCEPT ![q] = e]
             /\ \/ /\ e.stage = "drop" /\ e.id = id /\ e.todo = append[q].todo
                   /\ \/ ~ relaying /\ UNCHANGED posted /\ NoFault
                      \/ Sent(id)
                \/ e.stage = "retry" /\ e.todo = append[q].todo \ {id} /\ PostFails(id)
        BY RetryStep
      <3> QED
        BY <3>1, Zenon DEF Sent
    <2> QED
      BY <1>1, <2>1
  <1>14. Drop(q) => d.stage = "retry" /\ d.todo \subseteq c.todo \ {c.id}
    BY <1>1, LocalStep
  <1> QED
    BY <1>5, <1>6, <1>7, <1>8, <1>9, <1>10, <1>11, <1>12, <1>13, <1>14

-----------------------------------------------------------------------------
(* Delivered once                                                          *)

Handled == {"moderate", "relay", "keep"}
NoRepost == {"unsure", "crash", "overlap"} \cap happened = {}

\* A message is posted while its chunk relays it or retries it, and what waits
\* for a retry was not posted, but for the row about to be dropped.
DeliveredInv ==
  NoRepost =>
    /\ \A i \in Ids : posted[i] <= 1
    /\ \A i \in waiting : posted[i] = 0 \/ \E q \in Appends : /\ append[q] # None
                                                          /\ append[q].stage = "drop" /\ append[q].id = i
    /\ \A q \in Appends : append[q] # None =>
         /\ append[q].stage \in Handled => posted[append[q].id] = 0 /\ append[q].id \notin waiting
         /\ append[q].stage \notin {"retry", "drop"} => append[q].todo = {}
         /\ \A i \in append[q].todo : posted[i] = 0 \/ (append[q].stage = "drop" /\ append[q].id = i)

LEMMA DeliveredStep == ChatTypes /\ RecordInv /\ DeliveredInv /\ [Next]_vars => DeliveredInv'
  <1> SUFFICES ASSUME ChatTypes, RecordInv, DeliveredInv, [Next]_vars, NoRepost' PROVE DeliveredInv'
    BY DEF DeliveredInv
  <1>1. NoRepost /\ happened \subseteq happened'
    BY Remembered DEF NoRepost
  <1>2. \A p, q \in Appends : append[p] # None /\ append[q] # None => p = q
    BY <1>1 DEF RecordInv, NoRepost
  <1>3. CASE AgentRestart \/ UpdateChatSettings \/ UNCHANGED vars
    <2>1. UNCHANGED <<append, events, posted, waiting>>
      BY <1>3 DEF AgentRestart, UpdateChatSettings, vars, rows
    <2> QED
      BY <1>1, <2>1 DEF DeliveredInv, Ids
  <1>4. CASE Crash
    BY <1>4 DEF Crash, Fault, NoRepost
  <1>5. ASSUME NEW q \in Appends, Outer(q) PROVE DeliveredInv'
    <2>1. /\ UNCHANGED <<events, posted, waiting>>
          /\ \A p \in Appends : p # q => append'[p] = append[p]
          /\ \/ append'[q] \in {None, append[q]}
             \/ append'[q].stage = "join" /\ append'[q].todo = {}
          /\ append'[q] # append[q] /\ append[q] # None => append[q].stage # "drop"
      BY <1>5, OuterRows
    <2>2. \A i \in waiting' : posted'[i] = 0 \/ \E p \in Appends : /\ append'[p] # None
                                                          /\ append'[p].stage = "drop" /\ append'[p].id = i
      BY <1>1, <2>1 DEF DeliveredInv
    <2> QED
      BY <1>1, <2>1, <2>2 DEF DeliveredInv, Ids, Handled
  <1>6. ASSUME NEW q \in Appends, Work(q) PROVE DeliveredInv'
    <2>1. /\ append[q] # None /\ append'[q] # None
          /\ \A p \in Appends : append'[p] # None => p = q
      BY <1>2, <1>6, WorkFrame
    <2>2. Sane(append[q])
      BY <2>1 DEF ChatTypes
    <2>3. PICK c : c = append[q]
      OBVIOUS
    <2>4. PICK d : d = append'[q]
      OBVIOUS
    \* What holds of the chunk before, and what must hold of it after.
    <2>5. /\ \A i \in Ids : posted[i] <= 1
          /\ \A i \in waiting : posted[i] = 0 \/ (c.stage = "drop" /\ c.id = i)
          /\ c.stage \in Handled => posted[c.id] = 0 /\ c.id \notin waiting
          /\ c.stage \notin {"retry", "drop"} => c.todo = {}
          /\ \A i \in c.todo : posted[i] = 0 \/ (c.stage = "drop" /\ c.id = i)
      BY <1>1, <1>2, <2>1, <2>3 DEF DeliveredInv
    <2> DEFINE Goal == /\ \A i \in Ids' : posted'[i] <= 1
                       /\ \A i \in waiting' : posted'[i] = 0 \/ (d.stage = "drop" /\ d.id = i)
                       /\ d.stage \in Handled => posted'[d.id] = 0 /\ d.id \notin waiting'
                       /\ d.stage \notin {"retry", "drop"} => d.todo = {}
                       /\ \A i \in d.todo : posted'[i] = 0 \/ (d.stage = "drop" /\ d.id = i)
    <2>6. SUFFICES Goal
      BY <2>1, <2>4 DEF DeliveredInv
    <2>7. /\ waiting \subseteq Ids /\ c.todo \subseteq Ids /\ posted \in Seq(Nat) /\ Len(posted) = Len(events)
          /\ c.stage \in Handled => c.id \in Ids
      BY <2>2, <2>3 DEF ChatTypes, Sane, Handled
    <2>8. ASSUME NEW i \in Ids, PostFails(i) PROVE UNCHANGED posted
      BY <2>8 DEF PostFails, Fault, NoRepost
    <2>9. CASE Join(q) \/ CheckLine(q) \/ ParseFails(q) \/ ReadWaiting(q)
      <3>1. UNCHANGED <<events, posted, waiting>>
        BY <2>9 DEF Join, CheckLine, ParseFails, ReadWaiting, rows
      <3>2. c.stage \notin {"retry", "drop"}
        BY <2>3, <2>9 DEF Join, CheckLine, ParseFails, ReadWaiting, At
      <3>3. \/ d.stage \in {"line", "record"} /\ d.todo = c.todo
            \/ d.stage = "retry" /\ d.todo = waiting
        BY <2>3, <2>4, <2>9, WorkPlace
      <3> QED
        BY <2>5, <3>1, <3>2, <3>3 DEF Ids, Handled
    <2>10. CASE Record(q)
      <3>1. /\ \A i \in Ids : posted'[i] = posted[i]
            /\ posted'[Len(events) + 1] = 0 /\ Len(events') = Len(events) + 1
        BY <2>10, RecordStep
      <3>2. Len(events) + 1 \notin waiting /\ Ids' = Ids \cup {Len(events) + 1}
        BY <2>7, <3>1 DEF Ids
      <3>3. c.stage = "record" /\ UNCHANGED waiting
        BY <2>3, <2>10 DEF Record, At
      <3>4. d.todo = c.todo /\ (d.stage = "line" \/ (d.stage = "moderate" /\ d.id = Len(events) + 1))
        BY <2>3, <2>4, <2>10, WorkPlace
      <3> QED
        BY <2>5, <2>7, <3>1, <3>2, <3>3, <3>4 DEF Handled
    <2>11. CASE Moderate(q)
      <3>1. UNCHANGED <<events, posted, waiting>> /\ c.stage = "moderate"
        BY <2>3, <2>11 DEF Moderate, At
      <3>2. d.todo = c.todo /\ d.id = c.id /\ d.stage \in {"relay", "line"}
        BY <2>3, <2>4, <2>11, WorkPlace
      <3> QED
        BY <2>5, <3>1, <3>2 DEF Handled, Ids
    <2>12. CASE Relay(q)
      <3>1. UNCHANGED <<events, waiting>> /\ c.stage = "relay"
        BY <2>3, <2>12 DEF Relay, At
      <3>2. /\ d.todo = c.todo /\ d.id = c.id
            /\ \/ d.stage = "line" /\ (Post(c.id) \/ UNCHANGED posted)
               \/ d.stage = "keep" /\ PostFails(c.id)
        BY <2>3, <2>4, <2>12, WorkPlace
      <3>3. CASE UNCHANGED posted
        BY <2>5, <3>1, <3>2, <3>3 DEF Handled, Ids
      <3>4. CASE d.stage = "line" /\ Post(c.id)
        <4>1. /\ posted'[c.id] = posted[c.id] + 1
              /\ \A i \in Ids : i # c.id => posted'[i] = posted[i]
          BY <2>7, <3>1, <3>4, PostStep DEF Handled
        <4> QED
          BY <2>5, <2>7, <3>1, <3>2, <3>4, <4>1 DEF Handled, Ids
      <3> QED
        BY <2>7, <2>8, <3>1, <3>2, <3>3, <3>4 DEF Handled
    <2>13. CASE Keep(q)
      <3>1. UNCHANGED <<events, posted>> /\ c.stage = "keep" /\ waiting' = waiting \cup {c.id}
        BY <2>3, <2>13 DEF Keep, Kept, At
      <3>2. d.todo = c.todo /\ d.stage = "line"
        BY <2>3, <2>4, <2>13, WorkPlace
      <3> QED
        BY <2>5, <3>1, <3>2 DEF Handled, Ids
    <2>14. CASE Retry(q)
      <3>1. UNCHANGED <<events, waiting>> /\ c.stage = "retry"
        BY <2>3, <2>14 DEF Retry, At
      <3>2. PICK id \in c.todo :
              \/ d.stage = "drop" /\ d.id = id /\ d.todo = c.todo /\ (Post(id) \/ UNCHANGED posted)
              \/ d.stage = "retry" /\ d.todo = c.todo \ {id} /\ PostFails(id)
        BY <2>3, <2>4, <2>14, WorkPlace
      <3>3. CASE UNCHANGED posted
        BY <2>5, <3>1, <3>2, <3>3 DEF Handled, Ids
      <3>4. CASE d.stage = "drop" /\ d.id = id /\ d.todo = c.todo /\ Post(id)
        <4>1. /\ posted'[id] = posted[id] + 1 /\ posted[id] = 0
              /\ \A i \in Ids : i # id => posted'[i] = posted[i]
          BY <2>5, <2>7, <3>1, <3>4, PostStep
        <4> QED
          BY <2>5, <2>7, <3>1, <3>4, <4>1, SMTT(30) DEF Handled, Ids
      <3> QED
        BY <2>7, <2>8, <3>2, <3>3, <3>4
    <2>15. CASE Drop(q)
      <3>1. UNCHANGED <<events, posted>> /\ c.stage = "drop" /\ waiting' = waiting \ {c.id}
        BY <2>3, <2>15 DEF Drop, Dropped, At
      <3>2. d.stage = "retry" /\ d.todo \subseteq c.todo \ {c.id}
        BY <2>3, <2>4, <2>15, WorkPlace
      <3> QED
        BY <2>5, <3>1, <3>2 DEF Handled, Ids
    <2> QED
      BY <1>6, <2>9, <2>10, <2>11, <2>12, <2>13, <2>14, <2>15 DEF Work
  <1> QED
    BY <1>3, <1>4, <1>5, <1>6 DEF Next, Work, Outer

-----------------------------------------------------------------------------
(* No message lost                                                         *)

NoLoss == {"crash", "parse", "settings"} \cap happened = {}

\* A message that is to be relayed is with its chunk until it is blocked,
\* posted or waiting, and a row is dropped after it was posted.
Cared(i) ==
    \/ FromServer(events[i]) \/ i \in blocked \/ posted[i] > 0 \/ i \in waiting
    \/ \E q \in Appends : append[q] # None /\ append[q].stage \in Handled /\ append[q].id = i

LossInv ==
  NoLoss =>
    /\ relaying
    /\ \A i \in Ids : Cared(i)
    /\ \A q \in Appends : append[q] # None /\ append[q].stage = "drop" => posted[append[q].id] > 0

LEMMA RowsStay ==
    ASSUME ChatTypes, [Next]_vars
    PROVE  /\ blocked \subseteq blocked' /\ Ids \subseteq Ids'
           /\ \A i \in Ids : events'[i] = events[i] /\ posted'[i] >= posted[i]
  <1>1. \A i \in Ids : posted[i] \in Nat
    BY DEF ChatTypes, Ids
  <1>2. ASSUME NEW q \in Appends, Record(q)
        PROVE  /\ blocked \subseteq blocked' /\ Ids \subseteq Ids'
               /\ \A i \in Ids : events'[i] = events[i] /\ posted'[i] >= posted[i]
    <2>1. /\ Len(events') = Len(events) + 1 /\ blocked' = blocked
          /\ \A i \in Ids : events'[i] = events[i] /\ posted'[i] = posted[i]
      BY <1>2, RecordStep DEF Record
    <2> QED
      BY <1>1, <2>1 DEF Ids, ChatTypes
  <1>3. ASSUME blocked \subseteq blocked', UNCHANGED events, UNCHANGED posted \/ \E id \in Ids : Post(id)
        PROVE  /\ blocked \subseteq blocked' /\ Ids \subseteq Ids'
               /\ \A i \in Ids : events'[i] = events[i] /\ posted'[i] >= posted[i]
    <2>1. ASSUME NEW id \in Ids, Post(id) PROVE \A i \in Ids : posted'[i] >= posted[i]
      BY <1>1, <2>1, PostStep
    <2> QED
      BY <1>1, <1>3, <2>1 DEF Ids
  <1>4. ASSUME NEW q \in Appends, Relay(q) PROVE UNCHANGED posted \/ \E id \in Ids : Post(id)
    <2>1. append[q].id \in Ids
      BY <1>4 DEF Relay, At, ChatTypes, Sane
    <2> QED
      BY <1>4, <2>1 DEF Relay, Sent, PostFails
  <1>5. ASSUME NEW q \in Appends, Retry(q) PROVE UNCHANGED posted \/ \E id \in Ids : Post(id)
    <2>1. PICK id \in append[q].todo : UNCHANGED posted \/ Post(id)
      BY <1>5, RetryStep DEF Sent, PostFails
    <2>2. id \in Ids
      BY <1>5 DEF Retry, At, ChatTypes, Sane
    <2> QED
      BY <2>1, <2>2
  <1>6. ASSUME NEW q \in Appends, Work(q), ~ Record(q)
        PROVE  /\ blocked \subseteq blocked' /\ UNCHANGED events
               /\ (UNCHANGED posted \/ \E id \in Ids : Post(id))
    BY <1>4, <1>5, <1>6
    DEF Work, Join, CheckLine, Moderate, Relay, Keep, ParseFails, ReadWaiting, Retry, Drop, rows
  <1>7. ASSUME NEW q \in Appends, Outer(q) PROVE UNCHANGED <<blocked, events, posted>>
    BY <1>7, OuterRows
  <1>8. CASE AgentRestart \/ UpdateChatSettings \/ Crash \/ UNCHANGED vars
    <2>1. UNCHANGED <<blocked, events, posted>>
      BY <1>8 DEF AgentRestart, UpdateChatSettings, Crash, vars, rows
    <2> QED
      BY <1>3, <2>1
  <1> QED
    BY <1>2, <1>3, <1>6, <1>7, <1>8 DEF Next, Work, Outer

LEMMA LossStep == ChatTypes /\ LossInv /\ [Next]_vars => LossInv'
  <1> SUFFICES ASSUME ChatTypes, LossInv, [Next]_vars, NoLoss' PROVE LossInv'
    BY DEF LossInv
  <1>1. NoLoss /\ happened \subseteq happened'
    BY Remembered DEF NoLoss
  <1>2. /\ relaying /\ \A i \in Ids : Cared(i)
        /\ \A q \in Appends : append[q] # None /\ append[q].stage = "drop" =>
                              posted[append[q].id] > 0 /\ append[q].id \in Ids
    BY <1>1 DEF LossInv, ChatTypes, Sane
  <1>3. /\ blocked \subseteq blocked' /\ Ids \subseteq Ids'
        /\ \A i \in Ids : events'[i] = events[i] /\ posted'[i] >= posted[i]
        /\ \A i \in Ids : posted[i] \in Nat /\ posted'[i] \in Nat
    <2>1. ChatTypes'
      BY ChatTypesStep
    <2>2. /\ blocked \subseteq blocked' /\ Ids \subseteq Ids'
          /\ \A i \in Ids : events'[i] = events[i] /\ posted'[i] >= posted[i]
      BY RowsStay
    <2>3. \A i \in Ids : posted[i] \in Nat
      BY DEF ChatTypes, Ids
    <2>4. \A i \in Ids' : posted'[i] \in Nat
      BY <2>1, SMTT(30) DEF ChatTypes, Ids
    <2> QED
      BY <2>2, <2>3, <2>4
  <1>4. CASE Crash
    BY <1>4 DEF Crash, Fault, NoLoss
  <1>5. CASE UpdateChatSettings
    BY <1>5 DEF UpdateChatSettings, NoLoss
  <1>6. CASE AgentRestart \/ UNCHANGED vars
    <2>1. UNCHANGED <<append, events, posted, waiting, blocked, relaying>>
      BY <1>6 DEF AgentRestart, vars, rows
    <2> QED
      BY <1>2, <2>1 DEF LossInv, Cared, Ids
  <1>7. ASSUME NEW q \in Appends, Outer(q) PROVE LossInv'
    <2>1. /\ UNCHANGED <<events, posted, waiting, blocked, relaying>>
          /\ \A p \in Appends : p # q => append'[p] = append[p]
          /\ append'[q] \in {None, append[q]} \/ append'[q].stage = "join"
          /\ append'[q] # append[q] /\ append[q] # None => append[q].stage \in {"join", "retry"}
      BY <1>7, OuterRows
    <2>2. \A i \in Ids' : Cared(i)'
      BY <1>2, <2>1 DEF Cared, Ids, Handled
    <2> QED
      BY <1>2, <2>1, <2>2 DEF LossInv
  <1>8. ASSUME NEW q \in Appends, Work(q) PROVE LossInv'
    <2>1. /\ append[q] # None /\ append'[q] # None
          /\ \A p \in Appends : p # q => append'[p] = append[p]
      BY <1>8, WorkFrame
    <2>2. Sane(append[q])
      BY <2>1 DEF ChatTypes
    <2>3. PICK c : c = append[q]
      OBVIOUS
    <2>4. PICK d : d = append'[q]
      OBVIOUS
    \* What remains to be shown of the message in hand, and of the other rows.
    <2> DEFINE Safe(i) == \/ FromServer(events'[i]) \/ i \in blocked' \/ posted'[i] > 0 \/ i \in waiting'
                          \/ d.stage \in Handled /\ d.id = i
    <2>5. ASSUME relaying' = relaying,
                 \A i \in Ids : i \in waiting => Safe(i),
                 c.stage \in Handled => Safe(c.id),
                 \A i \in Ids' \ Ids : Safe(i),
                 d.stage = "drop" => posted'[d.id] > 0
          PROVE  LossInv'
      <3>1. ASSUME NEW i \in Ids PROVE Cared(i)'
        <4>1. CASE FromServer(events[i]) \/ i \in blocked \/ posted[i] > 0
          BY <1>3, <4>1 DEF Cared, FromServer
        <4>2. CASE i \in waiting \/ (c.stage \in Handled /\ c.id = i)
          BY <2>1, <2>4, <2>5, <4>2 DEF Cared
        <4>3. ASSUME NEW p \in Appends, p # q, append[p] # None, append[p].stage \in Handled, append[p].id = i
              PROVE  Cared(i)'
          BY <2>1, <4>3 DEF Cared
        <4>4. Cared(i)
          BY <1>2
        <4> QED
          BY <2>3, <4>1, <4>2, <4>3, <4>4 DEF Cared
      <3>2. ASSUME NEW i \in Ids' \ Ids PROVE Cared(i)'
        BY <2>1, <2>4, <2>5, <3>2 DEF Cared
      <3>3. ASSUME NEW p \in Appends, append'[p] # None, append'[p].stage = "drop"
            PROVE  posted'[append'[p].id] > 0
        BY <1>2, <1>3, <2>1, <2>4, <2>5, <3>3
      <3> QED
        BY <1>2, <2>5, <3>1, <3>2, <3>3 DEF LossInv
    <2>6. c.stage \in Handled => c.id \in Ids
      BY <2>2, <2>3 DEF Sane, Handled
    <2>7. CASE Join(q) \/ CheckLine(q) \/ ReadWaiting(q)
      <3>1. UNCHANGED <<events, posted, waiting, relaying>>
        BY <2>7 DEF Join, CheckLine, ReadWaiting, rows
      <3>2. c.stage \notin Handled /\ d.stage # "drop"
        BY <2>3, <2>4, <2>7, WorkPlace DEF Join, CheckLine, ReadWaiting, At, Handled
      <3> QED
        BY <2>5, <3>1, <3>2 DEF Ids
    <2>8. CASE ParseFails(q)
      BY <2>8 DEF ParseFails, Fault, NoLoss
    <2>9. CASE Record(q)
      <3>1. /\ Len(events') = Len(events) + 1 /\ events'[Len(events) + 1] = Line(q)
            /\ UNCHANGED <<waiting, relaying>> /\ c.stage \notin Handled
        BY <2>3, <2>9, RecordStep DEF Record, At, Handled
      <3>2. (d.stage = "line" /\ FromServer(Line(q))) \/ (d.stage = "moderate" /\ d.id = Len(events) + 1)
        BY <2>3, <2>4, <2>9, WorkPlace
      <3>3. \A i \in Ids' \ Ids : i = Len(events) + 1
        BY <3>1 DEF Ids, ChatTypes
      <3> QED
        BY <2>5, <3>1, <3>2, <3>3 DEF Handled, FromServer
    <2>10. CASE Moderate(q)
      <3>1. UNCHANGED <<events, posted, waiting, relaying>>
        BY <2>10 DEF Moderate
      <3>2. d.id = c.id /\ (d.stage = "relay" \/ (d.stage = "line" /\ c.id \in blocked'))
        BY <2>3, <2>4, <2>10, WorkPlace
      <3> QED
        BY <2>5, <3>1, <3>2 DEF Ids, Handled
    <2>11. CASE Relay(q)
      <3>1. UNCHANGED <<events, waiting, relaying>> /\ c.stage = "relay"
        BY <2>3, <2>11 DEF Relay, At
      <3>2. /\ d.id = c.id
            /\ (d.stage = "line" /\ Post(c.id)) \/ d.stage = "keep"
        BY <1>2, <2>3, <2>4, <2>11, WorkPlace
      <3>3. Post(c.id) => posted'[c.id] > 0
        BY <1>3, <2>6, <3>1, PostStep DEF Handled
      <3> QED
        BY <2>5, <3>1, <3>2, <3>3 DEF Ids, Handled
    <2>12. CASE Keep(q)
      <3>1. UNCHANGED <<events, posted, relaying>> /\ waiting' = waiting \cup {c.id}
        BY <2>3, <2>12 DEF Keep, Kept
      <3>2. d.stage = "line"
        BY <2>4, <2>12, WorkPlace
      <3> QED
        BY <2>5, <3>1, <3>2 DEF Ids
    <2>13. CASE Retry(q)
      <3>1. UNCHANGED <<events, waiting, relaying>> /\ c.stage = "retry" /\ c.todo \subseteq Ids
        BY <2>2, <2>3, <2>13 DEF Retry, At, Sane
      <3>2. PICK id \in c.todo : (d.stage = "drop" /\ d.id = id /\ Post(id)) \/ d.stage = "retry"
        BY <1>2, <2>3, <2>4, <2>13, WorkPlace
      <3>3. Post(id) => posted'[id] > 0
        BY <1>3, <3>1, PostStep
      <3> QED
        BY <2>5, <3>1, <3>2, <3>3 DEF Ids, Handled
    <2>14. CASE Drop(q)
      <3>1. UNCHANGED <<events, posted, relaying>> /\ waiting' = waiting \ {c.id} /\ c.stage = "drop"
        BY <2>3, <2>14 DEF Drop, Dropped, At
      <3>2. d.stage = "retry" /\ posted[c.id] > 0
        BY <1>2, <2>1, <2>3, <2>4, <2>14, <3>1, WorkPlace
      <3> QED
        BY <2>5, <3>1, <3>2 DEF Ids, Handled
    <2> QED
      BY <1>8, <2>7, <2>8, <2>9, <2>10, <2>11, <2>12, <2>13, <2>14 DEF Work
  <1> QED
    BY <1>4, <1>5, <1>6, <1>7, <1>8 DEF Next, Work, Outer

-----------------------------------------------------------------------------
(* Uploaded is recorded                                                    *)

Undisturbed == {"replay", "crash", "parse", "timeout"} \cap happened = {}

Joined(q)      == append[q] # None /\ append[q].stage # "join"
Recorded(l)    == \E i \in Ids : StampOf(events[i]) = Stamps[l]
Holds(q, l)    == Joined(q) /\ \E i \in 1 .. Len(append[q].lines) : append[q].lines[i] = 2 * l
Consecutive(s) == \E a \in Nat : \A i \in 1 .. Len(s) : s[i] = 2 * a + i

\* A chunk holds lines of the log in their order and lets one go only when a
\* line with its time is recorded.
ChunkInv(q) ==
    /\ append[q].from \in 1 .. taken + 1
    /\ Joined(q) => append[q].to <= taken /\ Consecutive(append[q].lines)
    /\ upload # q => acked = 0 \/ (~ Joined(q) /\ append[q].from <= taken)
    /\ append[q].stage \in {"retry", "drop"} => append[q].lines = <<>>
    /\ append[q].stage \in Handled => Known(Line(q))

\* What went into the parser is recorded or held by the one chunk in hand; any
\* other chunk comes too late to be joined without a replay.
UploadInv ==
  Undisturbed =>
    /\ buffer = (IF Ends(taken) THEN <<>> ELSE <<taken>>)
    /\ upload # None => upload \in Appends /\ append[upload] # None /\ batch = append[upload].to
    /\ acked <= taken
    /\ \A q \in Appends : append[q] # None => ChunkInv(q)
    /\ \A p, q \in Appends : Joined(p) /\ append[q] # None /\ p # q => ~ Joined(q) /\ append[q].from <= taken
    /\ \A l \in Lines : 2 * l <= taken => Recorded(l) \/ \E q \in Appends : Holds(q, l)
    /\ \A l \in Lines : 2 * l <= acked => Recorded(l)

\* A text holds the end of every line that ends behind token a, up to b.
HoldsEnds(s, a, b) ==
    \A l \in Nat : a < 2 * l /\ 2 * l <= b => \E i \in 1 .. Len(s) : s[i] = 2 * l

LEMMA CutConsecutive ==
    ASSUME NEW s \in Seq(Nat), NEW a \in Nat, NEW n \in Nat, n = Len(s), n > 0,
           \A i \in 1 .. n : s[i] = 2 * a + i
    PROVE  /\ Rest(s) = (IF Ends(2 * a + n) THEN <<>> ELSE <<2 * a + n>>)
           /\ Consecutive(Whole(s))
           /\ \A i \in 1 .. n : i % 2 = 0 => i \in 1 .. Len(Whole(s)) /\ Whole(s)[i] = 2 * a + i
  <1>1. \A i \in 1 .. n : i \in LineEnds(s) <=> i % 2 = 0
    <2> SUFFICES ASSUME NEW i \in 1 .. n PROVE i \in LineEnds(s) <=> i % 2 = 0
      OBVIOUS
    <2>1. (2 * a + i) % 2 = 0 <=> i % 2 = 0
      OBVIOUS
    <2>2. s[i] = 2 * a + i
      OBVIOUS
    <2> QED
      BY <2>1, <2>2 DEF LineEnds, Ends
  <1>2. PICK e \in 0 .. n : e = LastEnd(s) /\ e % 2 = 0 /\ (n = e \/ n = e + 1)
    <2>1. /\ LastEnd(s) \in 0 .. n /\ \A i \in LineEnds(s) : i <= LastEnd(s)
          /\ LastEnd(s) # 0 => LastEnd(s) \in LineEnds(s)
      BY CutText
    <2>2. PICK e \in 0 .. n : e = LastEnd(s)
      BY <2>1
    <2>3. e # 0 => e \in 1 .. n /\ e \in LineEnds(s)
      BY <2>1, <2>2
    <2>4. e % 2 = 0
      BY <1>1, <2>3
    <2>5. \A i \in 1 .. n : i % 2 = 0 => i <= e
      BY <1>1, <2>1, <2>2
    <2>6. CASE n >= e + 2
      <3>1. (e + 2) % 2 = 0
        BY <2>4
      <3>2. e + 2 \in 1 .. n
        BY <2>6
      <3> QED
        BY <2>5, <3>1, <3>2
    <2>7. CASE n < e + 2
      BY <2>2, <2>4, <2>7
    <2> QED
      BY <2>6, <2>7
  <1>3. Rest(s) = (IF Ends(2 * a + n) THEN <<>> ELSE <<2 * a + n>>)
    <2>1. /\ Rest(s) \in Seq(Nat) /\ Len(Rest(s)) = n - e
          /\ \A i \in 1 .. n - e : Rest(s)[i] = s[e + i]
      BY <1>2, CutText
    <2>2. CASE n = e
      <3>1. Rest(s) = <<>>
        BY <2>1, <2>2
      <3>2. (2 * a + n) % 2 = 0
        BY <1>2, <2>2
      <3> QED
        BY <3>1, <3>2 DEF Ends
    <2>3. CASE n = e + 1
      <3>1. Len(Rest(s)) = 1 /\ Rest(s)[1] = s[n]
        BY <2>1, <2>3
      <3>2. s[n] = 2 * a + n
        OBVIOUS
      <3>3. Rest(s) = <<2 * a + n>>
        BY <2>1, <3>1, <3>2
      <3>4. (2 * a + n) % 2 = 1
        <4>1. e % 2 = 0
          BY <1>2
        <4>2. (e + 1) % 2 = 1
          BY <4>1
        <4> QED
          BY <2>3, <4>2
      <3> QED
        BY <3>3, <3>4 DEF Ends
    <2> QED
      BY <1>2, <2>2, <2>3
  <1>4. Len(Whole(s)) = e /\ \A i \in 1 .. e : Whole(s)[i] = 2 * a + i
    <2>1. Len(Whole(s)) = e /\ \A i \in 1 .. e : Whole(s)[i] = s[i]
      BY <1>2, CutText
    <2>2. \A i \in 1 .. e : i \in 1 .. n
      OBVIOUS
    <2> QED
      BY <2>1, <2>2
  <1>5. Consecutive(Whole(s))
    BY <1>4 DEF Consecutive
  <1>6. ASSUME NEW i \in 1 .. n, i % 2 = 0 PROVE i \in 1 .. e
    <2>1. e % 2 = 0 /\ (n = e \/ n = e + 1)
      BY <1>2
    <2>2. CASE i = e + 1
      BY <1>6, <2>1, <2>2
    <2> QED
      BY <2>1, <2>2
  <1> QED
    BY <1>3, <1>4, <1>5, <1>6

LEMMA JoinText ==
    ASSUME taken \in Nat, NEW to \in Nat, taken + 1 <= to,
           buffer = (IF Ends(taken) THEN <<>> ELSE <<taken>>),
           NEW s, s = buffer \o Tokens(taken + 1, to)
    PROVE  /\ Rest(s) = (IF Ends(to) THEN <<>> ELSE <<to>>)
           /\ Consecutive(Whole(s)) /\ HoldsEnds(Whole(s), taken, to)
  <1>1. PICK a \in Nat : taken = 2 * a \/ taken = 2 * a + 1
    <2>1. taken = 2 * (taken \div 2) \/ taken = 2 * (taken \div 2) + 1
      OBVIOUS
    <2>2. taken \div 2 \in Nat
      OBVIOUS
    <2> QED
      BY <2>1, <2>2
  <1>2. /\ Tokens(taken + 1, to) \in Seq(Nat) /\ Len(Tokens(taken + 1, to)) = to - taken
        /\ \A i \in 1 .. to - taken : Tokens(taken + 1, to)[i] = taken + i
    <2>1. PICK f \in Nat : f = taken + 1
      OBVIOUS
    <2>2. f <= to + 1
      BY <2>1
    <2>3. /\ Tokens(f, to) \in Seq(Nat) /\ Len(Tokens(f, to)) = to - f + 1
          /\ \A i \in 1 .. to - f + 1 : Tokens(f, to)[i] = f + i - 1
      BY <2>2, TokensAre
    <2>4. to - f + 1 = to - taken
      BY <2>1
    <2> QED
      BY <2>1, <2>4, <2>3
  <1>3. s \in Seq(Nat) /\ Len(s) = to - 2 * a /\ \A i \in 1 .. Len(s) : s[i] = 2 * a + i
    <2>1. CASE taken = 2 * a
      <3>1. buffer = <<>>
        BY <2>1 DEF Ends
      <3> QED
        BY <1>2, <2>1, <3>1
    <2>2. CASE taken = 2 * a + 1
      <3>1. buffer = <<taken>>
        BY <2>2 DEF Ends
      <3>2. <<taken>> \in Seq(Nat) /\ Len(<<taken>>) = 1
        OBVIOUS
      <3>3. s \in Seq(Nat) /\ Len(s) = 1 + (to - taken)
        <4>1. s = <<taken>> \o Tokens(taken + 1, to)
          BY <3>1, Zenon
        <4>2. Len(s) = Len(<<taken>>) + Len(Tokens(taken + 1, to))
          BY ONLY <1>2, <3>2, <4>1, ConcatProperties, SMT
        <4>3. s \in Seq(Nat)
          BY <1>2, <3>2, <4>1, ConcatProperties, Zenon
        <4> QED
          BY <1>2, <3>2, <4>2, <4>3, Zenon
      <3>4. ASSUME NEW i \in 1 .. Len(s) PROVE s[i] = 2 * a + i
        <4>1. CASE i = 1
          BY <1>2, <2>2, <3>1, <3>2, <3>3, <4>1
        <4>2. CASE i # 1
          <5>1. i - 1 \in 1 .. to - taken /\ s[i] = Tokens(taken + 1, to)[i - 1]
            BY <1>2, <3>1, <3>2, <3>3, <4>2
          <5> QED
            BY <1>2, <2>2, <5>1
        <4> QED
          BY <4>1, <4>2
      <3> QED
        BY <2>2, <3>3, <3>4
    <2> QED
      BY <1>1, <2>1, <2>2
  <1>4. PICK n \in Nat : n = Len(s) /\ n > 0 /\ to = 2 * a + n
    BY <1>1, <1>3
  <1>5. /\ Rest(s) = (IF Ends(2 * a + n) THEN <<>> ELSE <<2 * a + n>>)
        /\ Consecutive(Whole(s))
        /\ \A i \in 1 .. n : i % 2 = 0 => i \in 1 .. Len(Whole(s)) /\ Whole(s)[i] = 2 * a + i
    <2>1. s \in Seq(Nat) /\ \A i \in 1 .. n : s[i] = 2 * a + i
      BY <1>3, <1>4
    <2> QED
      BY ONLY <1>4, <2>1, CutConsecutive, SMTT(30)
  <1>6. ASSUME NEW l \in Nat, taken < 2 * l, 2 * l <= to
        PROVE  \E i \in 1 .. Len(Whole(s)) : Whole(s)[i] = 2 * l
    <2>1. 2 * l - 2 * a \in 1 .. n
      BY <1>1, <1>4, <1>6
    <2>2. (2 * l - 2 * a) % 2 = 0 /\ 2 * a + (2 * l - 2 * a) = 2 * l
      OBVIOUS
    <2> QED
      BY <1>5, <2>1, <2>2
  <1> QED
    BY <1>4, <1>5, <1>6 DEF HoldsEnds

\* The first of consecutive lines is one whole line, which has a time and a
\* speaker, and the others are again consecutive.
LEMMA ConsecutiveLines ==
    ASSUME NEW s, WholeText(s), s # <<>>, NEW a \in Nat, \A i \in 1 .. Len(s) : s[i] = 2 * a + i
    PROVE  /\ Len(s) \in Nat /\ IsChat(FirstLine(s)) /\ LineOf(FirstLine(s)[1]) = a + 1
           /\ Len(OtherLines(s)) = Len(s) - 2
           /\ \A i \in 1 .. Len(s) - 2 : OtherLines(s)[i] = s[2 + i]
           /\ Consecutive(OtherLines(s))
  <1>1. Len(s) \in Nat /\ Len(s) > 0 /\ Len(s) % 2 = 0
    <2>1. Len(s) \in Nat /\ Len(s) > 0 /\ Ends(2 * a + Len(s))
      BY DEF WholeText
    <2> QED
      BY <2>1 DEF Ends
  <1>2. 2 \in LineEnds(s) /\ 1 \notin LineEnds(s)
    BY <1>1 DEF LineEnds, Ends
  <1>3. FirstEnd(s) = 2
    <2>1. FirstEnd(s) \in 1 .. Len(s) /\ FirstEnd(s) \in LineEnds(s) /\ FirstEnd(s) <= 2
      BY <1>2, TakeLine
    <2>2. FirstEnd(s) \in Nat /\ FirstEnd(s) # 1 /\ FirstEnd(s) >= 1
      BY <1>1, <1>2, <2>1
    <2> QED
      BY <2>1, <2>2
  <1>4. Len(FirstLine(s)) = 2 /\ FirstLine(s)[1] = 2 * a + 1
    <2>1. Len(FirstLine(s)) = FirstEnd(s) /\ \A i \in 1 .. FirstEnd(s) : FirstLine(s)[i] = s[i]
      BY TakeLine
    <2> QED
      BY <1>1, <1>3, <2>1
  <1>5. Len(OtherLines(s)) = Len(s) - 2 /\ \A i \in 1 .. Len(s) - 2 : OtherLines(s)[i] = s[2 + i]
    <2>1. /\ Len(OtherLines(s)) = Len(s) - FirstEnd(s)
          /\ \A i \in 1 .. Len(s) - FirstEnd(s) : OtherLines(s)[i] = s[FirstEnd(s) + i]
      BY TakeLine
    <2> QED
      BY <1>3, <2>1
  <1>6. \A i \in 1 .. Len(s) - 2 : OtherLines(s)[i] = 2 * (a + 1) + i
    BY <1>1, <1>5
  <1>7. Consecutive(OtherLines(s))
    <2>1. a + 1 \in Nat
      OBVIOUS
    <2> QED
      BY <1>5, <1>6, <2>1 DEF Consecutive
  <1>8. LineOf(FirstLine(s)[1]) = a + 1
    BY <1>4 DEF LineOf
  <1> QED
    BY <1>1, <1>4, <1>5, <1>7, <1>8 DEF IsChat

\* A step of append() behind the join leaves the lines of its chunk alone, or
\* lets the first one go: after its record, behind its record, or because its
\* time is known already.
LEMMA WorkLines ==
    ASSUME ChatTypes, NEW q \in Appends, Work(q), ~ Join(q), ~ ParseFails(q),
           NEW c, NEW d, c = append[q], d = append'[q]
    PROVE  /\ UNCHANGED <<buffer, taken>> /\ c.stage # "join" /\ d.stage # "join"
           /\ \/ /\ d.lines = c.lines
                 /\ d.stage \in Handled => Record(q) \/ c.stage \in Handled
                 /\ d.stage \in {"retry", "drop"} => c.lines = <<>> \/ c.stage \in {"retry", "drop"}
              \/ /\ c.lines # <<>> /\ d.lines = OtherLines(c.lines) /\ d.stage = "line"
                 /\ Record(q) \/ c.stage \in Handled \/ ~ IsChat(Line(q)) \/ Known(Line(q))
  <1> DEFINE Goes(e) == append' = [append EXCEPT ![q] = e]
             Stays == /\ d.lines = c.lines /\ d.stage # "join"
                      /\ d.stage \in Handled => Record(q) \/ c.stage \in Handled
                      /\ d.stage \in {"retry", "drop"} => c.lines = <<>> \/ c.stage \in {"retry", "drop"}
             Loses == /\ c.lines # <<>> /\ d.lines = OtherLines(c.lines) /\ d.stage = "line"
                      /\ Record(q) \/ c.stage \in Handled \/ ~ IsChat(Line(q)) \/ Known(Line(q))
  <1>1. ASSUME NEW e, Goes(e) PROVE d = e
    BY <1>1 DEF ChatTypes
  <1>2. append[q] # None => Sane(c)
    BY DEF ChatTypes
  <1>3. ASSUME NextLine(q), append[q] # None, append[q].lines # <<>>
        PROVE  d.stage = "line" /\ d.lines = OtherLines(c.lines)
    <2>1. PICK e : Goes(e) /\ e.stage = "line" /\ e.lines = OtherLines(c.lines)
      BY <1>3, NextLineSane
    <2> QED
      BY <1>1, <2>1
  <1>4. ASSUME NEW stage \in Stages, Set(q, stage), append[q] # None, append[q].lines # <<>>,
               stage # "record" => append[q].id \in Ids
        PROVE  d.stage = stage /\ d.lines = c.lines
    <2>1. PICK e : Goes(e) /\ e.stage = stage /\ e.lines = c.lines
      BY <1>4, SetSane
    <2> QED
      BY <1>1, <2>1
  <1>5. UNCHANGED <<buffer, taken>> /\ c.stage # "join"
    BY DEF Work, CheckLine, Record, Moderate, Relay, Keep, ReadWaiting, Retry, Drop, At, parser
  <1>6. CASE CheckLine(q)
    <2>1. append[q] # None /\ append[q].lines # <<>> /\ c.stage = "line" /\ "record" \in Stages
      BY <1>6 DEF CheckLine, At, Stages
    <2>2. CASE IsChat(Line(q)) /\ ~ Known(Line(q))
      <3>1. d.stage = "record" /\ d.lines = c.lines
        BY <1>4, <1>6, <2>1, <2>2 DEF CheckLine
      <3> QED
        BY <1>5, <3>1 DEF Handled
    <2>3. CASE ~ (IsChat(Line(q)) /\ ~ Known(Line(q)))
      <3>1. d.stage = "line" /\ d.lines = OtherLines(c.lines)
        BY <1>3, <1>6, <2>1, <2>3 DEF CheckLine
      <3> QED
        BY <1>5, <2>1, <2>3, <3>1
    <2> QED
      BY <2>2, <2>3
  <1>7. CASE Record(q)
    <2>1. c.lines # <<>>
      BY <1>2, <1>7 DEF Record, At, Sane
    <2>2. PICK e : Goes(e) /\ (\/ e.stage = "line" /\ e.lines = OtherLines(c.lines)
                               \/ e.stage = "moderate" /\ e.lines = c.lines)
      BY <1>7, RecordStep
    <2>3. d = e
      BY <1>1, <2>2
    <2> QED
      BY <1>5, <1>7, <2>1, <2>2, <2>3
  <1>8. CASE Moderate(q) \/ Relay(q) \/ Keep(q)
    <2>1. c.stage \in Handled /\ append[q] # None /\ append[q].lines # <<>> /\ append[q].id \in Ids
      BY <1>2, <1>8 DEF Moderate, Relay, Keep, At, Sane, Handled
    <2>2. NextLine(q) \/ \E stage \in {"relay", "keep"} : Set(q, stage)
      BY <1>8 DEF Moderate, Relay, Keep
    <2>3. CASE NextLine(q)
      <3>1. d.stage = "line" /\ d.lines = OtherLines(c.lines)
        BY <1>3, <2>1, <2>3
      <3> QED
        BY <1>5, <2>1, <3>1
    <2>4. ASSUME NEW stage \in {"relay", "keep"}, Set(q, stage) PROVE d.stage = stage /\ d.lines = c.lines
      BY <1>4, <2>1, <2>4 DEF Stages
    <2> QED
      BY <1>5, <2>1, <2>2, <2>3, <2>4
  <1>9. CASE ReadWaiting(q)
    <2>1. c.lines = <<>>
      BY <1>9 DEF ReadWaiting
    <2>2. PICK e : Goes(e) /\ e.stage = "retry" /\ e.lines = <<>>
      BY <1>9, LocalStep
    <2>3. d = e
      BY <1>1, <2>2
    <2> QED
      BY <1>5, <2>1, <2>2, <2>3 DEF Handled
  <1>10. CASE Retry(q) \/ Drop(q)
    <2>1. c.stage \in {"retry", "drop"}
      BY <1>10 DEF Retry, Drop, At
    <2>2. \E e : Goes(e) /\ e.stage \in {"retry", "drop"} /\ e.lines = c.lines
      <3>1. CASE Retry(q)
        BY <3>1, RetryStep
      <3>2. CASE Drop(q)
        BY <3>2, LocalStep
      <3> QED
        BY <1>10, <3>1, <3>2
    <2>3. d.stage \in {"retry", "drop"} /\ d.lines = c.lines
      BY <1>1, <2>2
    <2> QED
      BY <1>5, <2>1, <2>3 DEF Handled
  <1> QED
    BY <1>6, <1>7, <1>8, <1>9, <1>10 DEF Work

\* What is recorded stays recorded, and what a chunk lets go is recorded.
LEMMA KnownStays ==
    ASSUME ChatTypes, [Next]_vars
    PROVE  /\ \A line : Known(line) => Known(line)'
           /\ \A l : Recorded(l) => Recorded(l)'
  <1>1. Ids \subseteq Ids' /\ \A i \in Ids : events'[i] = events[i]
    BY RowsStay
  <1>2. ASSUME NEW line, Known(line) PROVE Known(line)'
    <2>1. PICK i \in Ids : StampOf(events[i]) = StampOf(line)
      BY <1>2 DEF Known, Ids
    <2>2. i \in Ids' /\ StampOf(events'[i]) = StampOf(line)
      BY <1>1, <2>1 DEF StampOf
    <2> QED
      BY <2>2 DEF Known, Ids, StampOf
  <1>3. ASSUME NEW l, Recorded(l) PROVE Recorded(l)'
    <2>1. PICK i \in Ids : StampOf(events[i]) = Stamps[l]
      BY <1>3 DEF Recorded
    <2>2. i \in Ids' /\ StampOf(events'[i]) = Stamps[l]
      BY <1>1, <2>1 DEF StampOf
    <2> QED
      BY <2>2 DEF Recorded, StampOf
  <1> QED
    BY <1>2, <1>3

LEMMA WorkHolds ==
    ASSUME ChatTypes, NEW q \in Appends, Work(q), ~ Join(q), ~ ParseFails(q), ChunkInv(q)
    PROVE  /\ ChunkInv(q)' /\ Joined(q) /\ Joined(q)'
           /\ \A l \in Nat : Holds(q, l) => Recorded(l)' \/ Holds(q, l)'
  <1> USE DEF Joined
  <1>1. [Next]_vars
    BY DEF Next, Work
  <1>2. PICK c : c = append[q]
    OBVIOUS
  <1>3. PICK d : d = append'[q]
    OBVIOUS
  <1>4. /\ c # None /\ d # None /\ d.from = c.from /\ d.to = c.to /\ UNCHANGED <<acked, upload>>
    BY <1>2, <1>3, WorkFrame DEF agentVars
  <1>5. UNCHANGED <<buffer, taken>> /\ c.stage # "join" /\ d.stage # "join"
    BY <1>2, <1>3, WorkLines
  <1>6. Joined(q) /\ Joined(q)' /\ c.to <= taken /\ Consecutive(c.lines) /\ WholeText(c.lines)
    BY <1>2, <1>3, <1>4, <1>5 DEF ChunkInv, ChatTypes, Sane
  <1>7. ASSUME Record(q) \/ Known(Line(q))
        PROVE  \E i \in Ids' : StampOf(events'[i]) = StampOf(Line(q))
    <2>1. CASE Record(q)
      <3>1. Len(events) \in Nat /\ Len(events') = Len(events) + 1 /\ events'[Len(events) + 1] = Line(q)
        BY <2>1, RecordStep DEF ChatTypes
      <3>2. Len(events) + 1 \in Ids'
        BY <3>1 DEF Ids
      <3> QED
        BY <3>1, <3>2
    <2>2. CASE Known(Line(q))
      <3>1. PICK i \in Ids : StampOf(events[i]) = StampOf(Line(q))
        BY <2>2 DEF Known, Ids
      <3>2. i \in Ids' /\ events'[i] = events[i]
        BY <1>1, RowsStay
      <3> QED
        BY <3>1, <3>2
    <2> QED
      BY <1>7, <2>1, <2>2
  <1>8. CASE /\ d.lines = c.lines
             /\ d.stage \in Handled => Record(q) \/ c.stage \in Handled
             /\ d.stage \in {"retry", "drop"} => c.lines = <<>> \/ c.stage \in {"retry", "drop"}
    <2>1. d.stage \in {"retry", "drop"} => d.lines = <<>>
      BY <1>2, <1>8 DEF ChunkInv
    <2>2. ASSUME d.stage \in Handled PROVE Known(Line(q))'
      <3>1. \E i \in Ids' : StampOf(events'[i]) = StampOf(Line(q))
        BY <1>2, <1>7, <1>8, <2>2 DEF ChunkInv
      <3> QED
        BY <1>2, <1>3, <1>8, <3>1 DEF Known, Ids, Line, StampOf
    <2>3. ChunkInv(q)'
      BY <1>2, <1>3, <1>4, <1>5, <1>6, <1>8, <2>1, <2>2 DEF ChunkInv
    <2>4. \A l \in Nat : Holds(q, l) => Holds(q, l)'
      BY <1>2, <1>3, <1>6, <1>8 DEF Holds
    <2> QED
      BY <1>6, <2>3, <2>4
  <1>9. CASE /\ c.lines # <<>> /\ d.lines = OtherLines(c.lines) /\ d.stage = "line"
             /\ Record(q) \/ c.stage \in Handled \/ ~ IsChat(Line(q)) \/ Known(Line(q))
    <2>1. PICK s : s = c.lines
      OBVIOUS
    <2>2. PICK a \in Nat : \A i \in 1 .. Len(s) : s[i] = 2 * a + i
      BY <1>6, <2>1 DEF Consecutive
    <2>3. /\ Len(s) \in Nat /\ IsChat(FirstLine(s)) /\ LineOf(FirstLine(s)[1]) = a + 1
          /\ Len(OtherLines(s)) = Len(s) - 2
          /\ \A i \in 1 .. Len(s) - 2 : OtherLines(s)[i] = s[2 + i]
          /\ Consecutive(OtherLines(s))
      BY <1>6, <1>9, <2>1, <2>2, ConsecutiveLines
    <2>4. Line(q) = FirstLine(s)
      BY <1>2, <2>1 DEF Line
    <2>5. \E i \in Ids' : StampOf(events'[i]) = Stamps[a + 1]
      <3>1. Record(q) \/ Known(Line(q))
        BY <1>2, <1>9, <2>3, <2>4 DEF ChunkInv
      <3>2. StampOf(Line(q)) = Stamps[a + 1]
        BY <2>3, <2>4 DEF StampOf
      <3> QED
        BY <1>7, <3>1, <3>2
    <2>6. ChunkInv(q)'
      BY <1>2, <1>3, <1>4, <1>5, <1>6, <1>9, <2>1, <2>3 DEF ChunkInv, Handled
    <2>7. ASSUME NEW l \in Nat, Holds(q, l) PROVE Recorded(l)' \/ Holds(q, l)'
      <3>1. PICK i \in 1 .. Len(s) : s[i] = 2 * l
        BY <1>2, <2>1, <2>7 DEF Holds
      <3>2. CASE i <= 2
        <4>1. 2 * l = 2 * a + i /\ (i = 1 \/ i = 2)
          BY <2>2, <2>3, <3>1, <3>2
        <4>2. l = a + 1
          BY <4>1
        <4> QED
          BY <2>5, <4>2 DEF Recorded, StampOf
      <3>3. CASE i > 2
        <4>1. i - 2 \in 1 .. Len(s) - 2 /\ 2 + (i - 2) = i
          BY <2>3, <3>3
        <4>2. OtherLines(s)[i - 2] = 2 * l
          BY <2>3, <3>1, <4>1
        <4> QED
          BY <1>3, <1>6, <1>9, <2>1, <2>3, <4>1, <4>2 DEF Holds
      <3> QED
        BY <2>3, <3>2, <3>3
    <2> QED
      BY <1>6, <2>6, <2>7
  <1> QED
    BY <1>2, <1>3, <1>8, <1>9, WorkLines

LEMMA UploadInvStep == ChatTypes /\ UploadInv /\ [Next]_vars => UploadInv'
  <1> SUFFICES ASSUME ChatTypes, UploadInv, [Next]_vars, Undisturbed' PROVE UploadInv'
    BY DEF UploadInv
  <1> USE DEF Joined
  <1>1. Undisturbed /\ happened \subseteq happened'
    BY Remembered DEF Undisturbed
  <1>2. /\ buffer = (IF Ends(taken) THEN <<>> ELSE <<taken>>)
        /\ upload # None => upload \in Appends /\ append[upload] # None /\ batch = append[upload].to
        /\ acked <= taken /\ acked \in Nat /\ taken \in Nat
    BY <1>1 DEF UploadInv, ChatTypes
  <1>3. \A q \in Appends : append[q] # None =>
            ChunkInv(q) /\ append[q].from \in Nat /\ append[q].to \in Nat /\ append[q].from <= append[q].to
    BY <1>1 DEF UploadInv, ChatTypes, Sane, Chunk
  <1>4. \A p, q \in Appends : Joined(p) /\ append[q] # None /\ p # q => ~ Joined(q) /\ append[q].from <= taken
    BY <1>1 DEF UploadInv
  <1>5. \A l \in Lines : 2 * l <= taken => Recorded(l) \/ \E q \in Appends : Holds(q, l)
    BY <1>1 DEF UploadInv
  <1>6. \A l \in Lines : 2 * l <= acked => Recorded(l)
    BY <1>1 DEF UploadInv
  <1>7. /\ \A line : Known(line) => Known(line)'
        /\ \A l : Recorded(l) => Recorded(l)'
    BY KnownStays
  <1>8. Lines \subseteq Nat \ {0} /\ None \notin Appends
    <2>1. Stamps \in Seq(Nat)
      BY ChatLogAssumption DEF ChatLogAssumption
    <2>2. DOMAIN Stamps = 1 .. Len(Stamps) /\ Len(Stamps) \in Nat
      BY <2>1
    <2> QED
      BY <2>2, ChatLogAssumption DEF Lines, ChatLogAssumption
  <1>9. CASE Crash
    BY <1>9 DEF Crash, Fault, Undisturbed
  <1>10. CASE UpdateChatSettings \/ UNCHANGED vars
    <2>1. UNCHANGED <<acked, batch, upload, append, buffer, taken, events>>
      BY <1>10 DEF UpdateChatSettings, vars, agentVars, parser, rows
    <2> QED
      BY <1>1, <2>1
      DEF UploadInv, ChunkInv, Recorded, Holds, Known, Line, Ids, StampOf
  <1>11. CASE AgentRestart
    <2>1. UNCHANGED <<append, buffer, taken, events>> /\ acked' = 0 /\ upload' = None
      BY <1>11 DEF AgentRestart, parser, rows
    <2>2. \A q \in Appends : append'[q] # None => ChunkInv(q)'
      BY <1>3, <2>1 DEF ChunkInv, Known, Line, StampOf
    <2>3. \A l \in Lines : 2 * l <= taken' => Recorded(l)' \/ \E q \in Appends : Holds(q, l)'
      BY <1>5, <2>1 DEF Recorded, Holds, Ids, StampOf
    <2>4. \A l \in Lines : ~ (2 * l <= acked')
      BY <1>8, <2>1
    <2>5. \A p, q \in Appends : Joined(p)' /\ append'[q] # None /\ p # q =>
                ~ Joined(q)' /\ append'[q].from <= taken'
      BY <1>4, <2>1
    <2>6. acked' <= taken'
      BY <1>2, <2>1
    <2> QED
      BY <1>2, <2>1, <2>2, <2>3, <2>4, <2>5, <2>6 DEF UploadInv
  <1>12. ASSUME NEW q \in Appends, Timeout(q) PROVE UploadInv'
    BY <1>12 DEF Timeout, Fault, Undisturbed
  <1>13. ASSUME NEW q \in Appends, Upload(q) PROVE UploadInv'
    <2>1. UNCHANGED <<acked, buffer, taken, events>> /\ upload = None /\ upload' = q /\ append[q] = None
      BY <1>13 DEF Upload, parser, rows
    <2>2. PICK d : /\ append' = [append EXCEPT ![q] = d] /\ Sane(d) /\ d # None
                   /\ d.stage = "join" /\ d.from = acked + 1 /\ d.to = batch'
      BY <1>13, UploadStep
    <2>3. append'[q] = d /\ \A p \in Appends : p # q => append'[p] = append[p]
      BY <2>2 DEF ChatTypes
    <2>4. \A p \in Appends : append[p] # None => (acked = 0 \/ ~ Joined(p)) /\ ChunkInv(p)
      BY <1>3, <1>8, <2>1 DEF ChunkInv
    <2>5. ASSUME NEW p \in Appends, append'[p] # None PROVE ChunkInv(p)'
      <3>1. CASE p = q
        <4>1. d.from \in 1 .. taken + 1
          BY <1>2, <2>2
        <4> QED
          BY <2>1, <2>2, <2>3, <3>1, <4>1 DEF ChunkInv, Handled
      <3>2. CASE p # q
        <4>1. append'[p] = append[p] /\ ChunkInv(p)
          BY <2>3, <2>4, <2>5, <3>2
        <4>2. acked = 0 \/ (~ Joined(p) /\ append[p].from <= taken)
          BY <1>8, <2>1, <4>1 DEF ChunkInv
        <4> QED
          BY <2>1, <4>1, <4>2 DEF ChunkInv, Known, Line, StampOf
      <3> QED
        BY <3>1, <3>2
    <2>6. ASSUME NEW p \in Appends, NEW r \in Appends, Joined(p)', append'[r] # None, p # r
          PROVE  ~ Joined(r)' /\ append'[r].from <= taken'
      <3>1. p # q /\ Joined(p) /\ append'[p] = append[p]
        BY <2>2, <2>3, <2>6
      <3>2. CASE r = q
        <4>1. acked = 0 /\ append[p].from <= append[p].to /\ append[p].from >= 1 /\ append[p].to <= taken
          BY <1>3, <2>4, <3>1 DEF ChunkInv
        <4>2. 1 <= taken
          BY <1>2, <1>3, <3>1, <4>1
        <4> QED
          BY <2>1, <2>2, <2>3, <3>2, <4>1, <4>2
      <3>3. CASE r # q
        BY <1>4, <2>1, <2>3, <2>6, <3>1, <3>3
      <3> QED
        BY <3>2, <3>3
    <2>7. \A l \in Lines : 2 * l <= taken' => Recorded(l)' \/ \E p \in Appends : Holds(p, l)'
      <3>1. \A p \in Appends : \A l \in Lines : Holds(p, l) => Holds(p, l)'
        BY <2>1, <2>3 DEF Holds
      <3> QED
        BY <1>5, <1>7, <2>1, <3>1
    <2>8. \A l \in Lines : 2 * l <= acked' => Recorded(l)'
      BY <1>6, <1>7, <2>1
    <2> QED
      BY <1>2, <2>1, <2>2, <2>3, <2>5, <2>6, <2>7, <2>8 DEF UploadInv
  <1>14. ASSUME NEW q \in Appends, UploadFails(q) \/ Answer(q) PROVE UploadInv'
    <2>1. /\ UNCHANGED <<buffer, taken, events>> /\ append[q] # None
          /\ append'[q] = None /\ \A p \in Appends : p # q => append'[p] = append[p]
      BY <1>14 DEF UploadFails, Answer, parser, rows, ChatTypes
    <2>2. \/ ~ Joined(q) /\ upload = q /\ upload' = None /\ acked' = acked /\ batch' = batch
          \/ /\ append[q].stage = "retry" /\ Joined(q) /\ batch' = batch
             /\ \/ upload # q /\ upload' = upload /\ acked' = acked
                \/ upload = q /\ upload' = None /\ acked' \in {acked, batch}
      BY <1>14 DEF UploadFails, Answer
    <2>3. upload = q => batch = append[q].to
      BY <1>2, <1>8
    <2>4. ~ \E l \in Lines : Holds(q, l)
      <3>1. ASSUME NEW l \in Lines, Holds(q, l) PROVE FALSE
        <4>1. append[q].lines = <<>>
          BY <1>3, <2>1, <2>2, <3>1 DEF Holds, ChunkInv
        <4> QED
          BY <3>1, <4>1 DEF Holds
      <3> QED
        BY <3>1
    <2>5. \A l \in Lines : 2 * l <= taken' => Recorded(l)' \/ \E p \in Appends : Holds(p, l)'
      <3>1. \A p \in Appends : \A l \in Lines : Holds(p, l) => Holds(p, l)'
        BY <2>1, <2>4 DEF Holds
      <3> QED
        BY <1>5, <1>7, <2>1, <3>1
    <2>6. acked' = acked \/ (acked' = append[q].to /\ Joined(q) /\ upload = q /\ append[q].to <= taken)
      BY <1>3, <2>1, <2>2, <2>3 DEF ChunkInv
    <2>7. acked' <= taken'
      BY <1>2, <2>1, <2>6
    <2>8. \A l \in Lines : 2 * l <= acked' => Recorded(l)'
      <3>1. CASE acked' = acked
        BY <1>6, <1>7, <3>1
      <3>2. CASE acked' = append[q].to /\ Joined(q) /\ append[q].to <= taken
        <4>1. ASSUME NEW l \in Lines, 2 * l <= acked' PROVE Recorded(l)
          <5>1. 2 * l <= taken
            BY <1>2, <1>3, <1>8, <2>1, <3>2, <4>1
          <5>2. \A p \in Appends : ~ Holds(p, l)
            BY <1>4, <2>4, <3>2 DEF Holds
          <5> QED
            BY <1>5, <5>1, <5>2
        <4> QED
          BY <1>7, <4>1
      <3> QED
        BY <2>6, <3>1, <3>2
    <2>9. ASSUME NEW p \in Appends, append'[p] # None PROVE ChunkInv(p)'
      <3>1. p # q /\ append'[p] = append[p] /\ ChunkInv(p)
        BY <1>3, <2>1, <2>9
      <3>2. upload' # p => acked' = 0 \/ (~ Joined(p) /\ append[p].from <= taken)
        <4>1. CASE acked' = acked /\ (upload' # p => upload # p)
          BY <3>1, <4>1 DEF ChunkInv
        <4>2. CASE acked' # acked
          BY <1>4, <2>1, <2>6, <2>9, <3>1, <4>2
        <4>3. CASE upload = q
          BY <3>1, <4>1, <4>2, <4>3
        <4> QED
          BY <2>2, <4>1, <4>2, <4>3
      <3> QED
        BY <2>1, <3>1, <3>2 DEF ChunkInv, Known, Line, StampOf
    <2>10. \A p, r \in Appends : Joined(p)' /\ append'[r] # None /\ p # r =>
                ~ Joined(r)' /\ append'[r].from <= taken'
      BY <1>4, <2>1
    <2>11. upload' # None => upload' \in Appends /\ append'[upload'] # None /\ batch' = append'[upload'].to
      BY <1>2, <2>1, <2>2
    <2> QED
      BY <1>2, <2>1, <2>5, <2>7, <2>8, <2>9, <2>10, <2>11 DEF UploadInv
  <1>15. ASSUME NEW q \in Appends, Join(q) PROVE UploadInv'
    <2>1. PICK s : s = buffer \o Tokens(append[q].from, append[q].to)
      OBVIOUS
    <2>2. /\ ~ Joined(q) /\ append[q] # None /\ append[q].from = taken + 1
          /\ UNCHANGED <<acked, batch, upload, events>>
      BY <1>15 DEF Join, At, Undisturbed, agentVars, rows
    <2>3. PICK c : c = append[q]
      OBVIOUS
    <2>4. c.from = taken + 1 /\ c.to \in Nat /\ taken + 1 <= c.to
      BY <1>3, <2>2, <2>3
    <2>5. buffer' = Rest(s) /\ taken' = c.to
      BY <1>15, <2>1, <2>3 DEF Join
    <2>6. PICK d : d = append'[q]
      OBVIOUS
    <2>7. /\ append'[q] = d /\ \A p \in Appends : p # q => append'[p] = append[p]
          /\ d # None /\ d.stage = "line" /\ d.lines = Whole(s) /\ d.from = c.from /\ d.to = c.to
      <3>1. /\ append'[q] # None /\ \A p \in Appends : p # q => append'[p] = append[p]
            /\ append'[q].from = append[q].from /\ append'[q].to = append[q].to
        BY <1>15, WorkFrame DEF Work
      <3>2. append[q] \in Chunk /\ append \in [Appends -> {None} \cup Chunk]
        BY <2>2 DEF ChatTypes, Sane
      <3>3. append' = [append EXCEPT ![q].stage = "line", ![q].lines = Whole(s)]
        BY <1>15, <2>1 DEF Join
      <3>4. append'[q].stage = "line" /\ append'[q].lines = Whole(s)
        BY <3>2, <3>3 DEF Chunk
      <3> QED
        BY <2>3, <2>6, <3>1, <3>4
    <2>8. /\ Rest(s) = (IF Ends(c.to) THEN <<>> ELSE <<c.to>>)
          /\ Consecutive(Whole(s)) /\ HoldsEnds(Whole(s), taken, c.to)
      <3>1. s = buffer \o Tokens(taken + 1, c.to)
        BY <2>1, <2>3, <2>4
      <3>2. PICK to \in Nat : to = c.to
        BY <2>4
      <3>3. taken + 1 <= to /\ s = buffer \o Tokens(taken + 1, to)
        BY <2>4, <3>1, <3>2
      <3>4. Rest(s) = (IF Ends(to) THEN <<>> ELSE <<to>>)
        BY <1>2, <3>3, JoinText
      <3>5. Consecutive(Whole(s))
        BY <1>2, <3>3, JoinText
      <3>6. HoldsEnds(Whole(s), taken, to)
        BY <1>2, <3>3, JoinText
      <3> QED
        BY <3>2, <3>4, <3>5, <3>6
    <2>9. \A p \in Appends : ~ Joined(p)
      <3>1. ~ (taken + 1 <= taken)
        BY <1>2
      <3> QED
        BY <1>4, <2>2, <3>1
    <2>10. ASSUME NEW p \in Appends, append'[p] # None PROVE ChunkInv(p)'
      <3>1. CASE p = q
        <4>1. upload' # q => acked' = 0
          <5>1. ~ (taken + 1 <= taken)
            BY <1>2
          <5>2. ChunkInv(q)
            BY <1>3, <2>2
          <5> QED
            BY <2>2, <5>1, <5>2 DEF ChunkInv
        <4>2. c.from \in 1 .. c.to + 1 /\ c.to <= c.to
          BY <1>2, <2>4
        <4> QED
          BY <2>5, <2>7, <2>8, <3>1, <4>1, <4>2 DEF ChunkInv, Handled
      <3>2. CASE p # q
        <4>1. append'[p] = append[p] /\ append[p].stage = "join" /\ ChunkInv(p)
          BY <1>3, <2>7, <2>9, <2>10, <3>2
        <4>2. append[p].from \in 1 .. c.to + 1 /\ append[p].from <= c.to
          BY <1>2, <2>4, <4>1 DEF ChunkInv
        <4> QED
          BY <2>2, <2>5, <4>1, <4>2 DEF ChunkInv, Handled
      <3> QED
        BY <3>1, <3>2
    <2>11. ASSUME NEW p \in Appends, NEW r \in Appends, Joined(p)', append'[r] # None, p # r
           PROVE  ~ Joined(r)' /\ append'[r].from <= taken'
      <3>1. p = q /\ append'[r] = append[r] /\ append[r] # None
        BY <2>7, <2>9, <2>11
      <3>2. append[r].from \in 1 .. taken + 1
        BY <1>3, <3>1 DEF ChunkInv
      <3>3. append[r].from <= c.to
        BY <1>2, <2>4, <3>2
      <3> QED
        BY <2>5, <2>9, <3>1, <3>3
    <2>12. ASSUME NEW l \in Lines, 2 * l <= taken' PROVE Recorded(l)' \/ \E p \in Appends : Holds(p, l)'
      <3>1. CASE 2 * l <= taken
        BY <1>5, <1>7, <2>9, <3>1 DEF Holds
      <3>2. CASE ~ (2 * l <= taken)
        <4>1. l \in Nat /\ taken < 2 * l /\ 2 * l <= c.to
          BY <1>2, <1>8, <2>5, <2>12, <3>2
        <4>2. \E i \in 1 .. Len(d.lines) : d.lines[i] = 2 * l
          BY <2>7, <2>8, <4>1 DEF HoldsEnds
        <4> QED
          BY <2>7, <4>2 DEF Holds
      <3> QED
        BY <3>1, <3>2
    <2>13. \A l \in Lines : 2 * l <= acked' => Recorded(l)'
      BY <1>6, <1>7, <2>2
    <2>14. acked' <= taken'
      BY <1>2, <2>2, <2>4, <2>5
    <2>15. upload' # None => upload' \in Appends /\ append'[upload'] # None /\ batch' = append'[upload'].to
      BY <1>2, <2>2, <2>3, <2>7
    <2> QED
      BY <2>5, <2>8, <2>10, <2>11, <2>12, <2>13, <2>14, <2>15 DEF UploadInv
  <1>16. ASSUME NEW q \in Appends, ParseFails(q) PROVE UploadInv'
    BY <1>16 DEF ParseFails, Fault, Undisturbed
  <1>17. ASSUME NEW q \in Appends, Work(q), ~ Join(q), ~ ParseFails(q) PROVE UploadInv'
    <2>1. /\ append[q] # None /\ append'[q] # None /\ \A p \in Appends : p # q => append'[p] = append[p]
          /\ append'[q].from = append[q].from /\ append'[q].to = append[q].to
          /\ UNCHANGED <<acked, batch, upload>>
      BY <1>17, WorkFrame DEF agentVars
    <2>2. UNCHANGED <<buffer, taken>>
      BY <1>17, WorkLines
    <2>3. /\ ChunkInv(q)' /\ Joined(q) /\ Joined(q)'
          /\ \A l \in Nat : Holds(q, l) => Recorded(l)' \/ Holds(q, l)'
      BY <1>3, <1>17, <2>1, WorkHolds
    <2>4. ASSUME NEW p \in Appends, p # q, append'[p] # None PROVE ChunkInv(p)'
      <3>1. append'[p] = append[p] /\ ChunkInv(p) /\ append[p].stage = "join"
        BY <1>3, <1>4, <2>1, <2>3, <2>4
      <3> QED
        BY <2>1, <2>2, <3>1 DEF ChunkInv, Handled
    <2>5. \A p, r \in Appends : Joined(p)' /\ append'[r] # None /\ p # r =>
                ~ Joined(r)' /\ append'[r].from <= taken'
      BY <1>4, <2>1, <2>2, <2>3
    <2>6. ASSUME NEW l \in Lines, 2 * l <= taken' PROVE Recorded(l)' \/ \E p \in Appends : Holds(p, l)'
      <3>1. \A p \in Appends : p # q /\ Holds(p, l) => Holds(p, l)'
        BY <2>1 DEF Holds
      <3> QED
        BY <1>5, <1>7, <1>8, <2>2, <2>3, <2>6, <3>1
    <2>7. \A l \in Lines : 2 * l <= acked' => Recorded(l)'
      BY <1>6, <1>7, <2>1
    <2>8. upload' # None => upload' \in Appends /\ append'[upload'] # None /\ batch' = append'[upload'].to
      BY <1>2, <2>1
    <2> QED
      BY <1>2, <2>1, <2>2, <2>3, <2>4, <2>5, <2>6, <2>7, <2>8 DEF UploadInv
  <1> QED
    BY <1>9, <1>10, <1>11, <1>12, <1>13, <1>14, <1>15, <1>16, <1>17 DEF Next, Work

-----------------------------------------------------------------------------
(* The theorems                                                            *)

IInv == ChatTypes /\ RecordInv /\ DeliveredInv /\ LossInv /\ UploadInv

LEMMA InitIInv == Init => IInv
  <1> SUFFICES ASSUME Init PROVE IInv
    OBVIOUS
  <1>1. /\ acked = 0 /\ batch = 0 /\ upload = None /\ buffer = <<>> /\ taken = 0
        /\ events = <<>> /\ posted = <<>> /\ waiting = {} /\ relaying
        /\ \A q \in Appends : append[q] = None
    BY DEF Init
  <1>2. Ids = {} /\ <<>> \in Seq(Seq(Nat)) /\ <<>> \in Seq(Nat)
    BY <1>1 DEF Ids
  <1>3. append \in [Appends -> {None} \cup Chunk]
    BY DEF Init
  <1>4. ChatTypes
    BY <1>1, <1>2, <1>3 DEF ChatTypes
  <1>5. RecordInv /\ LossInv
    BY <1>1, <1>2 DEF RecordInv, RecordedOnce, LossInv
  <1>6. DeliveredInv
    BY <1>1, <1>2 DEF DeliveredInv
  <1>7. \A l \in Lines : ~ (2 * l <= 0)
    <2>1. Stamps \in Seq(Nat)
      BY ChatLogAssumption DEF ChatLogAssumption
    <2>2. DOMAIN Stamps = 1 .. Len(Stamps) /\ Len(Stamps) \in Nat
      BY <2>1
    <2> QED
      BY <2>2 DEF Lines
  <1>8. Ends(0)
    BY DEF Ends
  <1>9. UploadInv
    BY <1>1, <1>7, <1>8 DEF UploadInv, Joined
  <1> QED
    BY <1>4, <1>5, <1>6, <1>9 DEF IInv

\* The invariant of the way of a chat line, for every log and every number of
\* uploads that the control plane processes at once.
THEOREM ChatInvariant == Spec => []IInv
  <1>1. IInv /\ [Next]_vars => IInv'
    BY ChatTypesStep, RecordInvStep, DeliveredStep, LossStep, UploadInvStep DEF IInv
  <1> QED
    BY <1>1, InitIInv, PTL DEF Spec

\* The look-up of parseChat keeps a second row with one time out of the
\* transcript, as long as no two uploads are processed at once.
THEOREM NoTimeTwice == Spec => []RecordedOnce
  <1>1. IInv => RecordedOnce
    BY DEF IInv, RecordInv
  <1> QED
    BY <1>1, ChatInvariant, PTL

\* The relay and its retries give Discord a message twice only after a lost
\* answer, a crash between post and delete, or two uploads at once.
THEOREM NotRelayedTwice == Spec => []DeliveredOnce
  <1>1. IInv => DeliveredOnce
    BY DEF IInv, DeliveredInv, DeliveredOnce, NoRepost
  <1> QED
    BY <1>1, ChatInvariant, PTL

\* Whatever the webhook does, a message that moderation let pass is posted,
\* waits for a retry, or is still in the hands of append().
THEOREM NothingLost == Spec => []NoMessageLost
  <1>1. IInv => NoMessageLost
    BY DEF IInv, LossInv, NoMessageLost, NoLoss, Cared
  <1> QED
    BY <1>1, ChatInvariant, PTL

\* A line the tailer counts as uploaded is in the transcript, or one with its
\* time is, for every way the log is cut into chunks.
THEOREM UploadsAreRecorded == Spec => []UploadedIsRecorded
  <1>1. IInv => UploadedIsRecorded
    <2> SUFFICES ASSUME ChatTypes, UploadInv, Undisturbed, NEW l \in Lines, acked >= 2 * l
                 PROVE  \E i \in Ids : StampOf(events[i]) = Stamps[l]
      BY DEF IInv, UploadedIsRecorded, Undisturbed
    <2>1. Stamps \in Seq(Nat)
      BY ChatLogAssumption DEF ChatLogAssumption
    <2>2. l \in Nat /\ acked \in Nat
      BY <2>1 DEF Lines, ChatTypes
    <2>3. 2 * l <= acked
      BY <2>2
    <2> QED
      BY <2>3 DEF UploadInv, Recorded
  <1> QED
    BY <1>1, ChatInvariant, PTL

-----------------------------------------------------------------------------
(* The alerts                                                              *)

\* The seconds of a quiet time are counted in whole quiet times.
LEMMA WindowsPassed ==
    ASSUME NEW q \in Nat \ {0}, NEW a \in Nat, NEW b \in Nat, a <= b
    PROVE  /\ a \div q \in Nat /\ b \div q \in Nat
           /\ a \div q <= b \div q
           /\ b - a >= q => a \div q + 1 <= b \div q
  <1>1. PICK m \in Int, x \in Int : m = a \div q /\ a = q * m + x /\ 0 <= x /\ x < q
    OBVIOUS
  <1>2. PICK n \in Int, y \in Int : n = b \div q /\ b = q * n + y /\ 0 <= y /\ y < q
    OBVIOUS
  <1> QED
    BY <1>1, <1>2

LEMMA AlertConstants ==
    /\ IsFiniteSet(Sources) /\ None \notin Nat /\ Quiet \in Nat \ {0} /\ Attempts \in Nat \ {0}
  BY DiscordAssumption DEF DiscordAssumption, A!AlertsAssumption, A!IsFiniteSet, IsFiniteSet

\* A handler that may still post the event for a rule, and all of them.
Owes(o, r) == o.stage = "read" \/ r \in o.rules \/ (o.stage = "post" /\ o.rule = r)
Owed(r)    == {s \in Sources : Owes(sending[s], r)}

\* The announcements since the last restart, and what passed before it.
Windows == IF recent = None THEN now \div Quiet ELSE 1 + recent \div Quiet

Sending == [stage : {"idle", "read", "send", "post", "audit"}, rules : SUBSET Rules,
            rule : Rules \cup {None}, left : Nat]
Picked(o) == o.stage = "post" => o.rule \in Rules /\ o.rule \notin o.rules
AlertTypes ==
    /\ now \in Nat /\ restarts \in Nat /\ got \in [Rules -> Nat]
    /\ recent = None \/ (recent \in Nat /\ recent <= now)
    /\ sending \in [Sources -> Sending]
    /\ \A s \in Sources : Picked(sending[s])

\* A rule has posted, or may post, one message for each announcement.
OnePerAnnouncement ==
    \A r \in Rules : got[r] + Cardinality(Owed(r)) <= Windows + restarts

LEMMA Smaller ==
    ASSUME NEW S, NEW T, S \subseteq T, T \subseteq Sources
    PROVE  /\ Cardinality(S) \in Nat /\ Cardinality(T) \in Nat
           /\ Cardinality(S) <= Cardinality(T)
           /\ \A x \in T : S \subseteq T \ {x} => Cardinality(S) + 1 <= Cardinality(T)
  <1>1. IsFiniteSet(T) /\ IsFiniteSet(S)
    BY AlertConstants, FS_Subset
  <1>2. Cardinality(S) \in Nat /\ Cardinality(T) \in Nat /\ Cardinality(S) <= Cardinality(T)
    BY <1>1, FS_CardinalityType, FS_Subset
  <1>3. ASSUME NEW x \in T, S \subseteq T \ {x} PROVE Cardinality(S) + 1 <= Cardinality(T)
    <2>1. IsFiniteSet(T \ {x}) /\ Cardinality(T \ {x}) = Cardinality(T) - 1
      BY <1>1, FS_RemoveElement
    <2>2. Cardinality(S) <= Cardinality(T \ {x})
      BY <1>3, <2>1, FS_Subset
    <2> QED
      BY <1>2, <2>1, <2>2
  <1> QED
    BY <1>2, <1>3

LEMMA WindowsGrow ==
    ASSUME AlertTypes PROVE Windows \in Nat /\ Windows <= 1 + now \div Quiet
  BY AlertConstants, WindowsPassed DEF AlertTypes, Windows

\* What a handler becomes when it has read the rules, and when it turns to one.
LEMMA RulesRead ==
    ASSUME NEW matching \in SUBSET Rules, NEW new,
           new = [A!Idle EXCEPT !.stage = "send", !.rules = matching]
    PROVE  new \in Sending /\ Picked(new)
  <1>1. new = [stage |-> "send", rules |-> matching, rule |-> None, left |-> 0]
    BY DEF A!Idle
  <1> QED
    BY <1>1 DEF Sending, Picked

LEMMA NextRule ==
    ASSUME NEW o \in Sending, NEW r \in o.rules, NEW stage \in {"audit", "post"},
           NEW left \in Nat, NEW new,
           new = [stage |-> stage, rules |-> o.rules \ {r}, rule |-> r, left |-> left]
    PROVE  new \in Sending /\ Picked(new) /\ \A q \in Rules : Owes(new, q) => Owes(o, q)
  <1>1. r \in Rules /\ o.rules \ {r} \subseteq Rules
    BY DEF Sending
  <1> QED
    BY <1>1 DEF Sending, Picked, Owes

\* What it becomes after a request, an audit row or a query that failed.
LEMMA Edited ==
    ASSUME NEW o \in Sending, Picked(o), NEW new
    PROVE  /\ o.left > 1 /\ new = [o EXCEPT !.left = @ - 1] =>
                 new \in Sending /\ Picked(new) /\ \A r \in Rules : Owes(new, r) <=> Owes(o, r)
           /\ o.stage = "post" /\ new = [o EXCEPT !.stage = "audit", !.left = 0] =>
                 new \in Sending /\ Picked(new) /\ \A r \in Rules : Owes(new, r) <=> r \in o.rules
           /\ new = [o EXCEPT !.stage = "send", !.rule = None] =>
                 new \in Sending /\ Picked(new) /\ \A r \in Rules : Owes(new, r) <=> r \in o.rules
           /\ new = A!Idle => new \in Sending /\ Picked(new) /\ \A r \in Rules : ~ Owes(new, r)
  <1>1. PICK a \in {"idle", "read", "send", "post", "audit"}, b \in SUBSET Rules,
             c \in Rules \cup {None}, k \in Nat :
                o = [stage |-> a, rules |-> b, rule |-> c, left |-> k]
    BY DEF Sending
  <1>2. o.stage = a /\ o.rules = b /\ o.rule = c /\ o.left = k
    BY <1>1
  <1>3. ASSUME o.left > 1, new = [o EXCEPT !.left = @ - 1]
        PROVE  new \in Sending /\ Picked(new) /\ \A r \in Rules : Owes(new, r) <=> Owes(o, r)
    <2>1. new = [stage |-> a, rules |-> b, rule |-> c, left |-> k - 1]
      BY <1>1, <1>3
    <2>2. k - 1 \in Nat
      BY <1>2, <1>3
    <2>3. new \in Sending
      BY <2>1, <2>2 DEF Sending
    <2> QED
      BY <1>2, <2>1, <2>3 DEF Picked, Owes
  <1>4. ASSUME o.stage = "post", new = [o EXCEPT !.stage = "audit", !.left = 0]
        PROVE  new \in Sending /\ Picked(new) /\ \A r \in Rules : Owes(new, r) <=> r \in o.rules
    <2>1. new = [stage |-> "audit", rules |-> b, rule |-> c, left |-> 0]
      BY <1>1, <1>4
    <2> QED
      BY <1>2, <2>1 DEF Sending, Picked, Owes
  <1>5. ASSUME new = [o EXCEPT !.stage = "send", !.rule = None]
        PROVE  new \in Sending /\ Picked(new) /\ \A r \in Rules : Owes(new, r) <=> r \in o.rules
    <2>1. new = [stage |-> "send", rules |-> b, rule |-> None, left |-> k]
      BY <1>1, <1>5
    <2> QED
      BY <1>2, <2>1 DEF Sending, Picked, Owes
  <1>6. ASSUME new = A!Idle
        PROVE  new \in Sending /\ Picked(new) /\ \A r \in Rules : ~ Owes(new, r)
    BY <1>6 DEF Sending, Picked, Owes, A!Idle
  <1> QED
    BY <1>3, <1>4, <1>5, <1>6

\* A handler that goes on owes no more than it did, and a rule that it posts to
\* nothing any more.
LEMMA HandlerGoesOn ==
    ASSUME AlertTypes, NEW s \in Sources,
           A!ReadRules(s) \/ A!Send(s) \/ A!Post(s) \/ A!Audit(s) \/ A!QueryFails(s)
    PROVE  /\ UNCHANGED <<now, recent, restarts>>
           /\ \E new \in Sending :
                 /\ sending' = [sending EXCEPT ![s] = new] /\ Picked(new)
                 /\ \A r \in Rules : Owes(new, r) => Owes(sending[s], r)
                 /\ \/ got' = got
                    \/ /\ sending[s].stage = "post" /\ ~ Owes(new, sending[s].rule)
                       /\ got' = [got EXCEPT ![sending[s].rule] = @ + 1]
  <1>1. PICK o \in Sending : o = sending[s] /\ Picked(o)
    BY DEF AlertTypes
  <1>2. UNCHANGED <<now, recent, restarts>>
    BY DEF A!ReadRules, A!Send, A!Post, A!Audit, A!QueryFails
  <1>3. CASE A!ReadRules(s)
    <2>1. PICK matching \in SUBSET Rules :
              /\ sending' = [sending EXCEPT ![s] =
                    IF matching = {} THEN A!Idle
                    ELSE [A!Idle EXCEPT !.stage = "send", !.rules = matching]]
              /\ o.stage = "read" /\ got' = got
      BY <1>1, <1>3 DEF A!ReadRules, A!Becomes
    <2>2. PICK new : /\ sending' = [sending EXCEPT ![s] = new]
                     /\ \/ new = A!Idle
                        \/ new = [A!Idle EXCEPT !.stage = "send", !.rules = matching]
      BY <2>1
    <2>3. new \in Sending /\ Picked(new)
      BY <1>1, <2>2, RulesRead, Edited
    <2>4. \A r \in Rules : Owes(o, r)
      BY <2>1 DEF Owes
    <2> QED
      BY <1>1, <1>2, <2>1, <2>2, <2>3, <2>4
  <1>4. CASE A!Send(s)
    <2>1. PICK r \in o.rules, stage \in {"audit", "post"}, left \in Nat :
              sending' = [sending EXCEPT ![s] =
                 [A!Idle EXCEPT !.stage = stage, !.rules = o.rules \ {r}, !.rule = r, !.left = left]]
      <3>1. PICK r \in o.rules :
                A!Becomes(s, [A!Idle EXCEPT !.stage = IF A!Limited(bucket[r]) THEN "audit" ELSE "post",
                                !.rules = o.rules \ {r}, !.rule = r,
                                !.left = IF A!Limited(bucket[r]) THEN 0 ELSE Attempts])
        BY <1>1, <1>4 DEF A!Send
      <3>2. CASE A!Limited(bucket[r])
        BY <3>1, <3>2 DEF A!Becomes
      <3>3. CASE ~ A!Limited(bucket[r])
        BY <3>1, <3>3, AlertConstants DEF A!Becomes
      <3> QED
        BY <3>2, <3>3
    <2>2. got' = got
      BY <1>4 DEF A!Send
    <2>3. PICK new :
              new = [A!Idle EXCEPT !.stage = stage, !.rules = o.rules \ {r}, !.rule = r, !.left = left]
      OBVIOUS
    <2>4. new \in Sending /\ Picked(new) /\ \A q \in Rules : Owes(new, q) => Owes(o, q)
      <3>1. new = [stage |-> stage, rules |-> o.rules \ {r}, rule |-> r, left |-> left]
        BY <2>3 DEF A!Idle
      <3> QED
        BY <3>1, NextRule
    <2>5. sending' = [sending EXCEPT ![s] = new]
      BY <2>1, <2>3
    <2> QED
      BY <1>1, <1>2, <2>2, <2>4, <2>5
  <1>5. CASE A!Post(s)
    <2>1. o.stage = "post" /\ o.rule \in Rules /\ o.rule \notin o.rules
      BY <1>1, <1>5 DEF A!Post, Picked
    <2>2. PICK new :
              /\ sending' = [sending EXCEPT ![s] = new]
              /\ \/ o.left > 1 /\ new = [o EXCEPT !.left = @ - 1] /\ got' = got
                 \/ /\ new = [o EXCEPT !.stage = "audit", !.left = 0]
                    /\ got' = got \/ got' = [got EXCEPT ![o.rule] = @ + 1]
      <3>1. PICK outcome \in {"taken", "busy", "lost", "unanswered"} :
                /\ got' = IF outcome \in {"taken", "unanswered"}
                          THEN [got EXCEPT ![o.rule] = @ + 1] ELSE got
                /\ A!Becomes(s, IF A!Retried(outcome) /\ o.left > 1 THEN [o EXCEPT !.left = @ - 1]
                                ELSE [o EXCEPT !.stage = "audit", !.left = 0])
        BY <1>1, <1>5 DEF A!Post
      <3>2. CASE A!Retried(outcome) /\ o.left > 1
        BY <3>1, <3>2 DEF A!Becomes, A!Retried
      <3>3. CASE ~ (A!Retried(outcome) /\ o.left > 1)
        BY <3>1, <3>3 DEF A!Becomes
      <3> QED
        BY <3>2, <3>3
    <2>3. CASE o.left > 1 /\ new = [o EXCEPT !.left = @ - 1] /\ got' = got
      <3>1. new \in Sending /\ Picked(new) /\ \A r \in Rules : Owes(new, r) <=> Owes(o, r)
        BY <1>1, <2>3, Edited
      <3> QED
        BY <1>1, <1>2, <2>2, <2>3, <3>1
    <2>4. CASE /\ new = [o EXCEPT !.stage = "audit", !.left = 0]
               /\ got' = got \/ got' = [got EXCEPT ![o.rule] = @ + 1]
      <3>1. new \in Sending /\ Picked(new) /\ \A r \in Rules : Owes(new, r) <=> r \in o.rules
        BY <1>1, <2>1, <2>4, Edited, ZenonT(60)
      <3>2. \A r \in Rules : Owes(new, r) => Owes(o, r)
        BY <3>1 DEF Owes
      <3> QED
        BY <1>1, <1>2, <2>1, <2>2, <2>4, <3>1, <3>2
    <2> QED
      BY <2>2, <2>3, <2>4
  <1>6. CASE A!Audit(s) \/ A!QueryFails(s)
    <2>1. PICK new : /\ sending' = [sending EXCEPT ![s] = new] /\ got' = got
                     /\ new = A!Idle \/ new = [o EXCEPT !.stage = "send", !.rule = None]
      BY <1>1, <1>6 DEF A!Audit, A!QueryFails, A!Becomes
    <2>2. new \in Sending /\ Picked(new) /\ \A r \in Rules : Owes(new, r) => r \in o.rules
      BY <1>1, <2>1, Edited
    <2>3. \A r \in Rules : Owes(new, r) => Owes(o, r)
      BY <2>2 DEF Owes
    <2> QED
      BY <1>1, <1>2, <2>1, <2>2, <2>3
  <1> QED
    BY <1>3, <1>4, <1>5, <1>6

LEMMA HandlerStep ==
    ASSUME AlertTypes, OnePerAnnouncement, NEW s \in Sources,
           A!ReadRules(s) \/ A!Send(s) \/ A!Post(s) \/ A!Audit(s) \/ A!QueryFails(s)
    PROVE  AlertTypes' /\ OnePerAnnouncement'
  <1>1. UNCHANGED <<now, recent, restarts>>
    BY HandlerGoesOn
  <1>2. PICK new \in Sending :
            /\ sending' = [sending EXCEPT ![s] = new] /\ Picked(new)
            /\ \A r \in Rules : Owes(new, r) => Owes(sending[s], r)
            /\ \/ got' = got
               \/ /\ sending[s].stage = "post" /\ ~ Owes(new, sending[s].rule)
                  /\ got' = [got EXCEPT ![sending[s].rule] = @ + 1]
    BY HandlerGoesOn
  <1>3. AlertTypes'
    <2>1. sending' \in [Sources -> Sending] /\ \A x \in Sources : Picked(sending'[x])
      BY <1>2 DEF AlertTypes
    <2>2. got' \in [Rules -> Nat]
      BY <1>2 DEF AlertTypes, Picked
    <2> QED
      BY <1>1, <2>1, <2>2 DEF AlertTypes, Picked
  <1>4. ASSUME NEW r \in Rules PROVE (got[r] + Cardinality(Owed(r)) <= Windows + restarts)'
    <2>1. Owed(r)' \subseteq Owed(r) /\ Owed(r) \subseteq Sources
      BY <1>2 DEF Owed, AlertTypes
    <2>2. PICK S, T : S = Owed(r)' /\ T = Owed(r) /\ S \subseteq T /\ T \subseteq Sources
      BY <2>1
    <2>3. PICK k \in Nat, n \in Nat : k = Cardinality(S) /\ n = Cardinality(T) /\ k <= n
      BY <2>2, Smaller
    <2>4. got[r] + n <= Windows + restarts
      BY <2>2, <2>3 DEF OnePerAnnouncement
    <2>5. Windows' = Windows /\ Windows \in Nat /\ got[r] \in Nat /\ restarts \in Nat
      BY <1>1, WindowsGrow DEF Windows, AlertTypes
    <2>6. CASE got'[r] = got[r]
      BY <1>1, <2>2, <2>3, <2>4, <2>5, <2>6
    <2>7. CASE got'[r] # got[r]
      <3>1. /\ sending[s].stage = "post" /\ sending[s].rule = r /\ ~ Owes(new, r)
            /\ got'[r] = got[r] + 1
        BY <1>2, <2>7 DEF AlertTypes
      <3>2. s \in T /\ s \notin S
        BY <1>2, <2>2, <3>1 DEF Owed, Owes, AlertTypes
      <3>3. S \subseteq T \ {s}
        BY <2>2, <3>2
      <3>4. Cardinality(S) + 1 <= Cardinality(T)
        BY <2>2, <3>2, <3>3, Smaller
      <3> QED
        BY <1>1, <2>2, <2>3, <2>4, <2>5, <3>1, <3>4
    <2> QED
      BY <2>6, <2>7
  <1> QED
    BY <1>3, <1>4 DEF OnePerAnnouncement

\* An announcement is a quiet time after the last one, or after a restart.
LEMMA NoticeStep ==
    ASSUME AlertTypes, OnePerAnnouncement, NEW s \in Sources, A!Notice(s)
    PROVE  AlertTypes' /\ OnePerAnnouncement'
  <1> DEFINE new == [A!Idle EXCEPT !.stage = "read"]
  <1>1. /\ sending[s] = A!Idle /\ ~ A!Repeated /\ recent' = now /\ now' = now
        /\ sending' = [sending EXCEPT ![s] = new] /\ got' = got /\ restarts' = restarts
    BY DEF A!Notice, A!Becomes
  <1>2. new \in Sending /\ Picked(new)
    <2>1. new = [stage |-> "read", rules |-> {}, rule |-> None, left |-> 0]
      BY DEF A!Idle
    <2> QED
      BY <2>1 DEF Sending, Picked
  <1> HIDE DEF new
  <1>3. AlertTypes'
    BY <1>1, <1>2 DEF AlertTypes
  <1>4. Windows' = 1 + now \div Quiet /\ Windows + 1 <= Windows' /\ Windows \in Nat
    <2>1. recent = None \/ (recent \in Nat /\ recent <= now /\ now - recent >= Quiet)
      BY <1>1, AlertConstants DEF A!Repeated, AlertTypes
    <2>2. now \in Nat /\ recent' # None
      BY <1>1, AlertConstants DEF AlertTypes
    <2>3. now \div Quiet \in Nat /\ Windows' = 1 + now \div Quiet
      BY <1>1, <2>2, AlertConstants, WindowsPassed DEF Windows
    <2>4. CASE recent = None
      BY <2>3, <2>4 DEF Windows
    <2>5. CASE recent # None
      <3>1. recent \in Nat /\ recent <= now /\ now - recent >= Quiet
        BY <2>1, <2>5
      <3>2. recent \div Quiet \in Nat /\ recent \div Quiet + 1 <= now \div Quiet
        BY <2>2, <3>1, AlertConstants, WindowsPassed
      <3>3. Windows = 1 + recent \div Quiet
        BY <2>5 DEF Windows
      <3> QED
        BY <2>3, <3>2, <3>3
    <2> QED
      BY <2>4, <2>5
  <1>5. ASSUME NEW r \in Rules PROVE (got[r] + Cardinality(Owed(r)) <= Windows + restarts)'
    <2>1. Owed(r)' \ {s} \subseteq Owed(r) /\ Owed(r)' \subseteq Sources /\ Owed(r) \subseteq Sources
      BY <1>1 DEF Owed, AlertTypes
    <2>2. PICK S, T : S = Owed(r)' /\ T = Owed(r) /\ S \ {s} \subseteq T
                      /\ T \subseteq Sources /\ S \subseteq Sources
      BY <2>1
    <2>3. IsFiniteSet(T) /\ IsFiniteSet(S)
      BY <2>2, AlertConstants, FS_Subset
    <2>4. Cardinality(T) \in Nat /\ Cardinality(S) \in Nat /\ Cardinality(S) <= Cardinality(T) + 1
      <3>1. IsFiniteSet(S \ {s}) /\ Cardinality(S \ {s}) <= Cardinality(T)
        BY <2>2, <2>3, FS_Subset
      <3>2. Cardinality(S) <= Cardinality(S \ {s}) + 1
        <4>0. Cardinality(S) \in Nat
          BY <2>3, FS_CardinalityType
        <4>1. CASE s \in S
          <5>1. Cardinality(S \ {s}) = Cardinality(S) - 1
            BY <2>3, <4>1, FS_RemoveElement
          <5> QED
            BY <4>0, <5>1
        <4>2. CASE s \notin S
          <5>1. Cardinality(S \ {s}) = Cardinality(S)
            <6>1. S \ {s} = S
              BY <4>2
            <6> QED
              BY <6>1
          <5> QED
            BY <4>0, <5>1
        <4> QED
          BY <4>1, <4>2
      <3> QED
        BY <2>3, <3>1, <3>2, FS_CardinalityType
    <2>5. got[r] + Cardinality(T) <= Windows + restarts
      BY <2>2 DEF OnePerAnnouncement
    <2>6. got[r] \in Nat /\ restarts \in Nat /\ Windows' \in Nat
      BY <1>1, <1>3, WindowsPassed, AlertConstants, <1>4 DEF AlertTypes
    <2> QED
      BY <1>1, <1>4, <2>2, <2>4, <2>5, <2>6
  <1> QED
    BY <1>3, <1>5 DEF OnePerAnnouncement

LEMMA AlertStep ==
    ASSUME AlertTypes, OnePerAnnouncement, [A!Next]_(A!vars)
    PROVE  AlertTypes' /\ OnePerAnnouncement'
  <1>1. ASSUME UNCHANGED <<now, recent, sending, got, restarts>>
        PROVE  AlertTypes' /\ OnePerAnnouncement'
    <2>1. AlertTypes'
      BY <1>1 DEF AlertTypes
    <2>2. UNCHANGED Windows /\ \A r \in Rules : UNCHANGED Owed(r)
      BY <1>1 DEF Windows, Owed
    <2> QED
      BY <1>1, <2>1, <2>2 DEF OnePerAnnouncement
  <1>2. CASE A!Tick
    <2>1. now \in Nat /\ now' = now + 1 /\ UNCHANGED <<recent, sending, got, restarts>>
      BY <1>2 DEF A!Tick, AlertTypes
    <2>2. AlertTypes'
      BY <2>1 DEF AlertTypes
    <2>3. Windows <= Windows' /\ Windows \in Nat /\ Windows' \in Nat
      <3>1. now' \in Nat /\ now <= now'
        BY <2>1
      <3>2. recent = None \/ recent \in Nat
        BY DEF AlertTypes
      <3> QED
        BY <2>1, <3>1, <3>2, WindowsPassed, AlertConstants DEF Windows
    <2>4. ASSUME NEW r \in Rules PROVE (got[r] + Cardinality(Owed(r)) <= Windows + restarts)'
      <3>1. Owed(r)' = Owed(r) /\ Owed(r) \subseteq Sources
        BY <2>1 DEF Owed
      <3>2. Cardinality(Owed(r)) \in Nat
        BY <3>1, AlertConstants, FS_Subset, FS_CardinalityType
      <3>3. got[r] + Cardinality(Owed(r)) <= Windows + restarts /\ got[r] \in Nat /\ restarts \in Nat
        BY DEF OnePerAnnouncement, AlertTypes
      <3> QED
        BY <2>1, <2>3, <3>1, <3>2, <3>3
    <2> QED
      BY <2>2, <2>4 DEF OnePerAnnouncement
  <1>3. CASE A!Restart
    <2>1. /\ now' = now /\ restarts' = restarts + 1 /\ recent' = None /\ got' = got
          /\ sending' = [s \in Sources |-> A!Idle]
      BY <1>3 DEF A!Restart
    <2>2. A!Idle \in Sending /\ Picked(A!Idle) /\ \A r \in Rules : ~ Owes(A!Idle, r)
      BY DEF A!Idle, Sending, Picked, Owes
    <2>3. AlertTypes'
      BY <2>1, <2>2 DEF AlertTypes
    <2>4. ASSUME NEW r \in Rules PROVE (got[r] + Cardinality(Owed(r)) <= Windows + restarts)'
      <3>1. Owed(r)' = {}
        BY <2>1, <2>2 DEF Owed
      <3>2. Owed(r) \subseteq Sources /\ Cardinality(Owed(r)) \in Nat
        BY AlertConstants, FS_Subset, FS_CardinalityType DEF Owed
      <3>3. /\ got[r] + Cardinality(Owed(r)) <= Windows + restarts
            /\ got[r] \in Nat /\ restarts \in Nat
        BY DEF OnePerAnnouncement, AlertTypes
      <3>4. Windows \in Nat /\ Windows <= 1 + now \div Quiet
        BY WindowsGrow
      <3>5. Windows' = now \div Quiet /\ now \div Quiet \in Nat
        BY <2>1, WindowsPassed, AlertConstants DEF Windows, AlertTypes
      <3>6. Cardinality(Owed(r)') = 0
        BY <3>1, FS_EmptySet
      <3> QED
        BY <2>1, <3>2, <3>3, <3>4, <3>5, <3>6
    <2> QED
      BY <2>3, <2>4 DEF OnePerAnnouncement
  <1>4. CASE A!Poll \/ UNCHANGED A!vars
    BY <1>1, <1>4 DEF A!Poll, A!vars
  <1>5. ASSUME NEW r \in Rules, A!Create(r) \/ A!Toggle(r) \/ A!Delete(r)
        PROVE  AlertTypes' /\ OnePerAnnouncement'
    BY <1>1, <1>5 DEF A!Create, A!Toggle, A!Delete, A!Write, A!vars
  <1> QED
    BY <1>2, <1>3, <1>4, <1>5, HandlerStep, NoticeStep DEF A!Next

\* However many handlers of the control plane notice an event, whatever Discord
\* answers and whatever becomes of the rules meanwhile, sendMatchingRules posts
\* it once for a rule in a quiet time, but for restarts.
THEOREM PostsAreSpaced == A!Spec => []PostedOncePerWindow
  <1>1. A!Init => AlertTypes /\ OnePerAnnouncement
    <2> SUFFICES ASSUME A!Init PROVE AlertTypes /\ OnePerAnnouncement
      OBVIOUS
    <2>1. /\ now = 0 /\ recent = None /\ restarts = 0 /\ got = [r \in Rules |-> 0]
          /\ sending = [s \in Sources |-> A!Idle]
      BY DEF A!Init
    <2>2. A!Idle \in Sending /\ Picked(A!Idle) /\ \A r \in Rules : ~ Owes(A!Idle, r)
      BY DEF A!Idle, Sending, Picked, Owes
    <2>3. AlertTypes
      BY <2>1, <2>2 DEF AlertTypes
    <2>4. ASSUME NEW r \in Rules PROVE got[r] + Cardinality(Owed(r)) <= Windows + restarts
      <3>1. Owed(r) = {} /\ got[r] = 0
        BY <2>1, <2>2 DEF Owed
      <3>2. Windows \in Nat
        BY <2>3, WindowsGrow
      <3> QED
        BY <2>1, <3>1, <3>2, FS_EmptySet
    <2> QED
      BY <2>3, <2>4 DEF OnePerAnnouncement
  <1>2. AlertTypes /\ OnePerAnnouncement => PostedOncePerWindow
    <2> SUFFICES ASSUME AlertTypes, OnePerAnnouncement, NEW r \in Rules
                 PROVE  got[r] <= 1 + now \div Quiet + restarts
      BY DEF PostedOncePerWindow, A!PostedOncePerWindow
    <2>1. Cardinality(Owed(r)) \in Nat
      BY AlertConstants, FS_Subset, FS_CardinalityType DEF Owed
    <2>2. got[r] + Cardinality(Owed(r)) <= Windows + restarts /\ got[r] \in Nat /\ restarts \in Nat
      BY DEF OnePerAnnouncement, AlertTypes
    <2>3. Windows \in Nat /\ Windows <= 1 + now \div Quiet /\ now \div Quiet \in Nat
      BY WindowsGrow, WindowsPassed, AlertConstants DEF AlertTypes
    <2> QED
      BY <2>1, <2>2, <2>3
  <1> QED
    BY <1>1, <1>2, AlertStep, PTL DEF A!Spec

=============================================================================
