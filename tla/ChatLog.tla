------------------------------ MODULE ChatLog ------------------------------
(***************************************************************************)
(* From a line of the game's log to the chat transcript and to Discord.    *)
(*                                                                         *)
(* The agent uploads the log in chunks that end anywhere, also inside a    *)
(* line; each upload is repeated until it is answered, and goes on in the  *)
(* control plane when the agent has given up on it.  The control plane     *)
(* joins chunks to lines, records each chat line once, and relays it.      *)
(* Line i is two tokens, 2i-1 with its time and speaker and 2i with the    *)
(* rest and the end of line, so that a chunk may end between them.         *)
(***************************************************************************)
EXTENDS Integers, Sequences, FiniteSets, FiniteSetsExt

CONSTANTS
    Stamps,       \* the time of each line, in the seconds the log shows
    ServerLines,  \* lines of the server itself, which are not relayed
    BadLines,     \* lines the blocked words or a mute apply to
    Appends, None,
    MaxFaults, MaxEdits   \* bounds

\* The locals of append() for one chunk: the tokens it holds, its whole lines
\* that are left, the row of the message in hand, the messages to retry.
Stages == {"join", "line", "record", "moderate", "relay", "keep", "retry", "drop"}
Chunk  == [stage : Stages, from : Nat, to : Nat, lines : Seq(Nat), id : Nat, todo : SUBSET Nat]

ASSUME ChatLogAssumption ==
    /\ Stamps \in Seq(Nat) /\ ServerLines \cup BadLines \subseteq DOMAIN Stamps
    /\ None \notin Appends \cup Chunk /\ MaxFaults \in Nat /\ MaxEdits \in Nat

VARIABLES
    acked,     \* the tailer: tokens uploaded
    batch,     \*   the last token of the batch to upload
    upload,    \*   the upload it waits for
    append,    \* append(): the chunks being processed
    buffer,    \* chatLineBuffers: the unfinished line
    taken,     \*   the last token that went into it
    events,    \* rows player_chat, each with its line
    posted,    \* how often Discord got each
    waiting,   \* rows player_chat_relay_pending
    blocked,   \* messages moderation held back
    relaying,  \* whether the relay, once set up, is on
    faults, happened, edits

agentVars == <<acked, batch, upload>>
parser    == <<buffer, taken>>
rows      == <<events, posted, waiting, blocked>>
vars == <<acked, batch, upload, append, buffer, taken, events, posted, waiting,
          blocked, relaying, faults, happened, edits>>

Lines      == DOMAIN Stamps
LineOf(t)  == (t + 1) \div 2
Ends(t)    == t % 2 = 0
Tokens(a, b) == [i \in 1..(b - a + 1) |-> a + i - 1]

Fault(kind) == faults < MaxFaults /\ faults' = faults + 1 /\ happened' = happened \cup {kind}
NoFault == UNCHANGED <<faults, happened>>

Init ==
    /\ acked = 0 /\ batch = 0 /\ upload = None
    /\ append = [q \in Appends |-> None]
    /\ buffer = <<>> /\ taken = 0
    /\ events = <<>> /\ posted = <<>> /\ waiting = {} /\ blocked = {}
    /\ relaying = TRUE /\ faults = 0 /\ happened = {} /\ edits = 0

-----------------------------------------------------------------------------
(* The tailer.  A batch ends where the log ended when it was read.         *)

Written == 2 * Len(Stamps)
\* A batch that was not acknowledged is sent again as it was.
Batch == IF batch > acked THEN {batch} ELSE (acked + 1)..Written
Upload(q) ==
    /\ upload = None /\ append[q] = None /\ upload' = q
    /\ batch' \in Batch
    /\ append' = [append EXCEPT ![q] =
         [stage |-> "join", from |-> acked + 1, to |-> batch', lines |-> <<>>, id |-> 0, todo |-> {}]]
    /\ happened' = IF \E p \in Appends : append[p] # None
                   THEN happened \cup {"overlap"} ELSE happened
    /\ UNCHANGED <<acked, parser, rows, relaying, faults, edits>>

\* A chunk the control plane has processed is answered; it may be in vain.
Answer(q) ==
    /\ append[q] # None /\ append[q].stage = "retry" /\ append[q].todo = {}
    /\ append' = [append EXCEPT ![q] = None]
    /\ upload' = IF upload = q THEN None ELSE upload
    /\ \/ acked' = (IF upload = q THEN batch ELSE acked) /\ NoFault
       \/ upload = q /\ acked' = acked /\ Fault("answer")
    /\ UNCHANGED <<batch, parser, rows, relaying, edits>>
\* The upload fails before the chunk is stored.
UploadFails(q) ==
    /\ upload = q /\ append[q] # None /\ append[q].stage = "join"
    /\ append' = [append EXCEPT ![q] = None] /\ upload' = None /\ Fault("upload")
    /\ UNCHANGED <<acked, batch, parser, rows, relaying, edits>>
Timeout(q) ==
    /\ upload = q /\ append[q] # None /\ upload' = None /\ Fault("timeout")
    /\ UNCHANGED <<acked, batch, append, parser, rows, relaying, edits>>
\* The tail an agent starts with holds the whole log.
AgentRestart ==
    /\ batch > 0 /\ acked' = 0 /\ batch' = 0 /\ upload' = None /\ Fault("agent")
    /\ UNCHANGED <<append, parser, rows, relaying, edits>>

-----------------------------------------------------------------------------
(* parseChat().                                                            *)

\* The whole lines in a sequence of tokens, and what is left after them.
LineEnds(s) == {i \in 1..Len(s) : Ends(s[i])}
LastEnd(s)  == Max({0} \cup LineEnds(s))
Whole(s)    == SubSeq(s, 1, LastEnd(s))
RestLost(s) == <<>>
Rest(s)     == SubSeq(s, LastEnd(s) + 1, Len(s))
\* The first of them, and the others.
FirstEnd(s)   == Min(LineEnds(s))
FirstLine(s)  == SubSeq(s, 1, FirstEnd(s))
OtherLines(s) == SubSeq(s, FirstEnd(s) + 1, Len(s))

\* A line is a chat message if it starts with a time and a speaker.
IsChat(line)    == Len(line) > 1
StampOf(line)   == Stamps[LineOf(line[1])]
FromServer(line) == LineOf(line[1]) \in ServerLines
IsBad(line)     == \E i \in 1..Len(line) : LineOf(line[i]) \in BadLines
Set(q, stage)   == append' = [append EXCEPT ![q].stage = stage]
NextLine(q)     == append' = [append EXCEPT ![q].stage = "line", ![q].lines = OtherLines(@)]
At(q, stage)    == append[q] # None /\ append[q].stage = stage
Line(q)         == FirstLine(append[q].lines)

Join(q) ==
    LET s == buffer \o Tokens(append[q].from, append[q].to)
    IN  /\ At(q, "join")
        /\ buffer' = Rest(s) /\ taken' = append[q].to
        /\ append' = [append EXCEPT ![q].stage = "line", ![q].lines = Whole(s)]
        /\ happened' = IF append[q].from # taken + 1 THEN happened \cup {"replay"} ELSE happened
        /\ UNCHANGED <<agentVars, rows, relaying, faults, edits>>

KnownNever(line) == FALSE
Known(line) == \E i \in 1..Len(events) : StampOf(events[i]) = StampOf(line)
CheckLine(q) ==
    /\ At(q, "line") /\ append[q].lines # <<>>
    /\ IF IsChat(Line(q)) /\ ~Known(Line(q)) THEN Set(q, "record") ELSE NextLine(q)
    /\ UNCHANGED <<agentVars, parser, rows, relaying, faults, happened, edits>>

Record(q) ==
    /\ At(q, "record") /\ events' = Append(events, Line(q)) /\ posted' = Append(posted, 0)
    /\ IF FromServer(Line(q)) THEN NextLine(q)
       ELSE append' = [append EXCEPT ![q].stage = "moderate", ![q].id = Len(events) + 1]
    /\ UNCHANGED <<agentVars, parser, waiting, blocked, relaying, faults, happened, edits>>

\* Any message may be one of a flood; a failure lets the message pass.
Suppressed(q) == IsBad(Line(q))
Moderate(q) ==
    /\ At(q, "moderate")
    /\ \/ NextLine(q) /\ blocked' = blocked \cup {append[q].id} /\ NoFault
       \/ ~Suppressed(q) /\ Set(q, "relay") /\ UNCHANGED blocked /\ NoFault
       \/ Set(q, "relay") /\ UNCHANGED blocked /\ Fault("moderation")
    /\ UNCHANGED <<agentVars, parser, events, posted, waiting, relaying, edits>>

\* A webhook may get the message and its answer be lost.
Post(id)     == posted' = [posted EXCEPT ![id] = @ + 1]
Sent(id)     == Post(id) /\ NoFault
PostFails(id) ==
    \/ UNCHANGED posted /\ NoFault
    \/ Post(id) /\ Fault("unsure")

Relay(q) ==
    /\ At(q, "relay")
    /\ \/ ~relaying /\ NextLine(q) /\ UNCHANGED posted /\ NoFault
       \/ relaying /\ NextLine(q) /\ Sent(append[q].id)
       \/ relaying /\ Set(q, "keep") /\ PostFails(append[q].id)
    /\ UNCHANGED <<agentVars, parser, events, waiting, blocked, relaying, edits>>
KeptNever(id) == waiting
Kept(id)      == waiting \cup {id}
Keep(q) ==
    /\ At(q, "keep") /\ NextLine(q) /\ waiting' = Kept(append[q].id)
    /\ UNCHANGED <<agentVars, parser, events, posted, blocked, relaying, faults, happened, edits>>

\* A failure ends the parsing of the chunk; the upload is answered all the same.
ParseFails(q) ==
    /\ \E stage \in {"line", "record", "relay", "keep"} : At(q, stage)
    /\ append[q].lines # <<>> /\ append' = [append EXCEPT ![q].stage = "line", ![q].lines = <<>>]
    /\ Fault("parse")
    /\ UNCHANGED <<agentVars, parser, rows, relaying, edits>>

-----------------------------------------------------------------------------
(* retryChatRelays().                                                      *)

ReadWaiting(q) ==
    /\ At(q, "line") /\ append[q].lines = <<>>
    /\ append' = [append EXCEPT ![q].stage = "retry", ![q].todo = waiting]
    /\ UNCHANGED <<agentVars, parser, rows, relaying, faults, happened, edits>>
Retry(q) ==
    /\ At(q, "retry") /\ append[q].todo # {}
    /\ LET id == CHOOSE i \in append[q].todo : \A j \in append[q].todo : i <= j
       IN  \/ ~relaying /\ UNCHANGED posted /\ NoFault
              /\ append' = [append EXCEPT ![q].stage = "drop", ![q].id = id]
           \/ relaying /\ Sent(id)
              /\ append' = [append EXCEPT ![q].stage = "drop", ![q].id = id]
           \/ relaying /\ PostFails(id)
              /\ append' = [append EXCEPT ![q].todo = @ \ {id}]
    /\ UNCHANGED <<agentVars, parser, events, waiting, blocked, relaying, edits>>
\* The delete of a row that is gone throws, which ends the retries.
DroppedNever(id) == waiting
Dropped(id)      == waiting \ {id}
Drop(q) ==
    /\ At(q, "drop") /\ waiting' = Dropped(append[q].id)
    /\ append' = [append EXCEPT ![q].stage = "retry",
                     ![q].todo = IF append[q].id \in waiting THEN @ \ {append[q].id} ELSE {}]
    /\ UNCHANGED <<agentVars, parser, events, posted, blocked, relaying, faults, happened, edits>>
UpdateChatSettings ==
    /\ edits < MaxEdits /\ edits' = edits + 1 /\ relaying' = ~relaying
    /\ happened' = happened \cup {"settings"}
    /\ UNCHANGED <<agentVars, append, parser, rows, faults>>
Crash ==
    /\ Fault("crash") /\ append' = [q \in Appends |-> None] /\ upload' = None
    /\ buffer' = <<>> /\ taken' = acked
    /\ UNCHANGED <<acked, batch, rows, relaying, edits>>

-----------------------------------------------------------------------------
Next ==
    \/ AgentRestart \/ UpdateChatSettings \/ Crash
    \/ \E q \in Appends :
         \/ Upload(q) \/ Answer(q) \/ UploadFails(q) \/ Timeout(q)
         \/ Join(q) \/ CheckLine(q) \/ Record(q) \/ Moderate(q) \/ Relay(q) \/ Keep(q)
         \/ ParseFails(q) \/ ReadWaiting(q) \/ Retry(q) \/ Drop(q)

Spec == Init /\ [][Next]_vars

-----------------------------------------------------------------------------
Ids == 1..Len(events)

\* No time is recorded twice (the look-up of parseChat), unless the agent gave
\* up on an upload the control plane was still processing.
RecordedOnce ==
    \A i, j \in Ids : StampOf(events[i]) = StampOf(events[j]) /\ i # j => "overlap" \in happened

\* Every chat line the agent has uploaded is in the transcript, or one with its
\* time is; a replay, a crash and a failing query may cost a line.
UploadedIsRecorded ==
    happened \cap {"replay", "crash", "parse", "timeout"} = {} =>
        \A l \in Lines : acked >= 2 * l => \E i \in Ids : StampOf(events[i]) = Stamps[l]

\* CHANGELOG.md:116, "transient delivery failures no longer lose messages": a
\* message that moderation let pass was delivered or waits for a retry once its
\* chunk is processed, whatever webhook failures there were.
NoMessageLost ==
    happened \cap {"crash", "parse", "settings"} = {} /\ relaying =>
        \A i \in Ids :
            \/ FromServer(events[i]) \/ i \in blocked
            \/ posted[i] > 0 \/ i \in waiting
            \/ \E q \in Appends : append[q] # None /\ append[q].id = i

\* The same entry, "agent replays do not repost them": Discord gets a message
\* twice only if its first answer was lost, a crash kept the row of a delivered
\* message, or two uploads were processed at once.
DeliveredOnce ==
    happened \cap {"unsure", "crash", "overlap"} = {} => \A i \in Ids : posted[i] <= 1
=============================================================================
