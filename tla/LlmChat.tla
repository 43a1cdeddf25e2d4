---- MODULE LlmChat ----
(***************************************************************************)
(* A chat session: a question is stored, the gateway is asked and its      *)
(* stream of events passed on to the browser chunk by chunk, and the text  *)
(* of the events is stored as the answer when the stream ends, however it  *)
(* ends (llm/views/oj.py).  Chunks respect neither lines nor characters:   *)
(* an event arrives in two halves, the second with the end of its line,    *)
(* and a chunk may end between the bytes of a character.                   *)
(***************************************************************************)
EXTENDS Requests, Sequences

CONSTANTS NEvents    \* events of an answer

VARIABLES
  open,       \* the session exists
  messages,   \* its messages
  shown,      \* history: halves that each answer's browser was sent
  cut,        \* history: events of each answer that a chunk's end cut within a character
  unstored    \* history: answers that a death or a failed statement kept from being stored

chatVars == <<open, messages, shown, cut, unstored>>
vars == <<job, requests, overlapped, open, messages, shown, cut, unstored>>

Events == 1..NEvents
First(e) == 2 * e - 1
Second(e) == 2 * e
\* The text of an event, with all of its characters or without the one that was cut.
Text(e, whole) == [event |-> e, whole |-> whole]
AllEvents == [e \in Events |-> Text(e, TRUE)]
Question(id) == [id |-> id, role |-> "user", text |-> <<>>]
Answer(id, text) == [id |-> id, role |-> "assistant", text |-> text]

Init ==
  /\ RequestsInit
  /\ open = TRUE /\ messages = <<>>
  /\ shown = [id \in 1..MaxRequests |-> 0]
  /\ cut = [id \in 1..MaxRequests |-> {}]
  /\ unstored = {}

Doing(t, kind) == Busy(t) /\ job[t].kind = kind

-----------------------------------------------------------------------------
\* The session is found; a blank question or no model end here.
Post(t) ==
  /\ open
  /\ Begin(t, [kind |-> "question", id |-> requests'])
  /\ UNCHANGED chatVars

\* The question is stored and the session's title and model are set, or the
\* session is gone and the statement fails.
StoreQuestion(t) ==
  /\ Doing(t, "question")
  /\ IF open
     THEN /\ messages' = Append(messages, Question(job[t].id))
          /\ Continue(t, [kind |-> "gateway", id |-> job[t].id])
     ELSE Respond(t) /\ UNCHANGED messages
  /\ UNCHANGED <<open, shown, cut, unstored>>

\* The gateway streams, or answers at once, or fails: then the question stays
\* without an answer.
AskGateway(t) ==
  LET id == job[t].id IN
  /\ Doing(t, "gateway")
  /\ \/ /\ Continue(t, [kind |-> "stream", id |-> id,
                         at |-> 0, held |-> "nothing", text |-> <<>>])
        /\ UNCHANGED shown
     \/ /\ Continue(t, [kind |-> "store", id |-> id, text |-> AllEvents])
        /\ shown' = [shown EXCEPT ![id] = Second(NEvents)]
     \/ Respond(t) /\ UNCHANGED shown
  /\ UNCHANGED <<open, messages, cut, unstored>>

\* Mutant: what is left of the chunk before is not kept.
LinesOfChunk(held, from, to) ==
  SubSeq(AllEvents, (from \div 2) + 1 + (from % 2), to \div 2)

\* The events whose lines end in the chunk and are whole with what is left of
\* the chunk before.
Lines(held, from, to) ==
  LET current == (from \div 2) + 1 IN
  SubSeq([e \in Events |-> Text(e, ~(held = "damaged" /\ e = current))],
         IF from % 2 = 1 /\ held = "nothing" THEN current + 1 ELSE current, to \div 2)

\* What is left of a chunk: no line, the first half of one, or that half without
\* its last character, of which decode(errors="ignore") drops the bytes on both
\* sides of the cut.
Rest(to, within) ==
  IF to % 2 = 0 THEN "nothing" ELSE IF within THEN "damaged" ELSE "half"

\* The next chunk: its lines are parsed before it is passed on as it came, and
\* the rest is kept.
Chunk(t, to, within) ==
  LET work == job[t] IN
  /\ Doing(t, "stream") /\ to \in (work.at + 1)..Second(NEvents)
  /\ within => to % 2 = 1
  /\ Continue(t, [work EXCEPT !.at = to, !.held = Rest(to, within),
                              !.text = @ \o Lines(work.held, work.at, to)])
  /\ shown' = [shown EXCEPT ![work.id] = to]
  /\ cut' = [cut EXCEPT ![work.id] = @ \cup IF within THEN {(to \div 2) + 1} ELSE {}]
  /\ UNCHANGED <<open, messages, unstored>>

\* The stream is over, the gateway breaks it off, or the browser goes away:
\* the generator ends and an answer with text is stored.  A line that was not
\* ended is left.
EndStream(t) ==
  LET work == job[t] IN
  /\ Doing(t, "stream")
  /\ IF work.text # <<>>
     THEN Continue(t, [kind |-> "store", id |-> work.id, text |-> work.text])
     ELSE Respond(t)
  /\ UNCHANGED chatVars

\* A session that is gone, or another failure of the statement, is logged and
\* no more.
StoreAnswer(t) ==
  LET work == job[t] IN
  /\ Doing(t, "store")
  /\ \/ /\ messages' = IF open THEN Append(messages, Answer(work.id, work.text)) ELSE messages
        /\ UNCHANGED unstored
     \/ unstored' = unstored \cup {work.id} /\ UNCHANGED messages
  /\ Respond(t)
  /\ UNCHANGED <<open, shown, cut>>

Crash(t) ==
  /\ Busy(t)
  /\ unstored' = unstored \cup {job[t].id}
  /\ Respond(t)
  /\ UNCHANGED <<open, messages, shown, cut>>

DeleteSession ==
  /\ open /\ AtOnce
  /\ open' = FALSE /\ messages' = <<>>
  /\ UNCHANGED <<shown, cut, unstored>>

Next ==
  \/ \E t \in Threads :
       \/ Post(t) \/ StoreQuestion(t) \/ AskGateway(t)
       \/ \E to \in 1..Second(NEvents), within \in BOOLEAN : Chunk(t, to, within)
       \/ EndStream(t) \/ StoreAnswer(t) \/ Crash(t)
  \/ DeleteSession

Spec == Init /\ [][Next]_vars

-----------------------------------------------------------------------------
Streaming(id) == \E t \in Threads : Busy(t) /\ job[t].id = id
StoredFor(id) == {i \in DOMAIN messages : messages[i].id = id /\ messages[i].role = "assistant"}

\* The events of an answer without what chunks' ends have cut.
Seen(id) == [e \in Events |-> Text(e, e \notin cut[id])]

IsShown(id) ==
  LET lines == shown[id] \div 2 IN
  IF lines = 0 THEN StoredFor(id) = {}
  ELSE \E i \in DOMAIN messages :
         StoredFor(id) = {i} /\ messages[i].text = SubSeq(Seen(id), 1, lines)

\* The stored answer of a stream that has ended is what the browser was shown
\* up to the last whole line, wherever it was broken off: the history that the
\* next question sends to the gateway is the conversation that the student has
\* seen.  What a chunk's end cuts costs one character and no more: a chunk that
\* ends within a line costs nothing, one that ends within a character loses that
\* character of what is stored and keeps the rest of its event and all others.
\* An answer whose process died, or whose statement failed, is not stored at all.
StoredIsShown ==
  open => \A id \in 1..requests : ~Streaming(id) =>
            IF id \in unstored THEN StoredFor(id) = {} ELSE IsShown(id)
-----------------------------------------------------------------------------
(* What makes the property inductive.                                      *)

Texts == [event : Events, whole : BOOLEAN]
Message == [id : 1..requests, role : {"user", "assistant"}, text : Seq(Texts)]

\* A request has no answer yet, and the text it has is that of the whole lines
\* it has passed on; what is held is the half that was passed on last.
WorkOK(work) ==
  /\ work.id \in 1..requests /\ StoredFor(work.id) = {} /\ work.id \notin unstored
  /\ work.kind \in {"question", "gateway", "stream", "store"}
  /\ work.kind \in {"question", "gateway"} => shown[work.id] = 0 /\ cut[work.id] = {}
  /\ work.kind = "stream" =>
       /\ work \in [kind : {"stream"}, id : Nat, at : Nat,
                    held : {"nothing", "half", "damaged"}, text : Seq(Texts)]
       /\ work.at = shown[work.id]
       /\ work.held = Rest(work.at, (work.at \div 2) + 1 \in cut[work.id])
       /\ work.text = SubSeq(Seen(work.id), 1, work.at \div 2)
       /\ \A e \in cut[work.id] : 2 * e <= work.at + 1
  /\ work.kind = "store" =>
       /\ shown[work.id] \div 2 > 0
       /\ work.text = SubSeq(Seen(work.id), 1, shown[work.id] \div 2)

ChatInv ==
  /\ JobTable /\ requests \in 0..MaxRequests
  /\ messages \in Seq(Message)
  /\ shown \in [1..MaxRequests -> 0..Second(NEvents)]
  /\ cut \in [1..MaxRequests -> SUBSET Events] /\ unstored \subseteq 1..requests
  /\ \A id \in 1..MaxRequests : requests < id => shown[id] = 0 /\ cut[id] = {}
  /\ \A t \in Threads : Busy(t) => WorkOK(job[t])
  /\ \A t, u \in Threads : Busy(t) /\ Busy(u) /\ t # u => job[t].id # job[u].id
  /\ StoredIsShown
====
