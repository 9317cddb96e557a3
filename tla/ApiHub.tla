------------------------------- MODULE ApiHub -------------------------------
(* The OpenAI-compatible endpoint (plugin openai-api: hub.py, http.py,      *)
(* channel.py, usage.py).  A request is registered as a waiter and submitted *)
(* to the channel's pump; what the kernel delivers for its conversation goes *)
(* to the waiter that has learned the turn's id or, when none has, to the    *)
(* oldest one that has learned none.  Requests are numbered as they arrive,  *)
(* and the turn of a request, or the refusal of its input, has its number.   *)
(* External, from how the code uses them: the pump, which takes inputs in    *)
(* their order and refuses one when the conversation's lane is full, and the *)
(* lane, which runs the turns of a conversation one after the other.         *)
EXTENDS Naturals, Sequences, SequencesExt, FiniteSets, FiniteSetsExt

CONSTANTS
    Conversations,  \* each the set of its requests
    Streamed,       \* the requests with "stream": true
    LaneSize,       \* inputs that may wait in a lane
    MaxTracked,     \* UsageTracker.MAX_TRACKED
    MaxPieces,      \* bound of the model: text deltas of a turn
    MaxResponses    \* bound of the model: model responses of a turn

Requests == UNION Conversations     \* 1, 2, ...
Parties == Conversations
Conversation == [r \in Requests |-> CHOOSE c \in Conversations : r \in c]
NoTurn == 0
End == [turn |-> NoTurn, kind |-> "end"]
Terminal == {"final", "cancelled", "failed"}

VARIABLES
    posted,         \* how many requests have arrived
    http,           \* where the handler of each request is, or how it ended
    waiting,        \* conversation -> its registered waiters, oldest first
    learned, done,  \* of each waiter: its turn id, and whether it is finished
    mailbox,        \* of each waiter: what was pushed and not yet read
    inbound, closed,
    lane, running,  \* conversation -> inputs that wait, and the turn that runs
    cancelled,      \* the turns somebody asked to cancel
    usage,          \* UsageTracker: <<turn, responses>>, oldest first
    produced,       \* history: turn -> what it delivered
    got,            \* history: what the client of each request was shown
    billed,         \* history: request -> the responses it was told of, if any
    responses,      \* history: turn -> its model responses
    evicted,        \* history: the turns whose usage made room for another's
    astray          \* history: conversations whose requests may be mixed up, and why: one
                    \* "left" before its turn, was "refused", or had a "mute" turn
vars == <<posted, http, waiting, learned, done, mailbox, inbound, closed, lane, running, cancelled,
          usage, produced, got, billed, responses, evicted, astray>>
kernel == <<lane, running, produced, responses>>
hub == <<waiting, learned, done, mailbox>>
told == <<got, billed>>

Init ==
    /\ posted = 0 /\ http = [r \in Requests |-> "none"]
    /\ waiting = [c \in Parties |-> <<>>]
    /\ learned = [r \in Requests |-> NoTurn] /\ done = [r \in Requests |-> FALSE]
    /\ mailbox = [r \in Requests |-> <<>>]
    /\ inbound = <<>> /\ closed = FALSE
    /\ lane = [c \in Parties |-> <<>>] /\ running = [c \in Parties |-> NoTurn]
    /\ cancelled = {} /\ usage = <<>> /\ produced = [t \in Requests |-> <<>>]
    /\ got = [r \in Requests |-> <<>>] /\ billed = [r \in Requests |-> <<>>]
    /\ responses = [t \in Requests |-> 0] /\ evicted = {} /\ astray = {}
-----------------------------------------------------------------------------
(* The handler of a request: handle_chat_completions.                       *)

Post ==         \* open() before submit(), with no await between them
    /\ posted < Cardinality(Requests)
    /\ LET r == posted + 1
       IN  /\ posted' = r
           /\ waiting' = [waiting EXCEPT ![Conversation[r]] = Append(@, r)]
           /\ inbound' = Append(inbound, r)
           /\ http' = [http EXCEPT ![r] = IF r \in Streamed THEN "opening" ELSE "reading"]
    /\ UNCHANGED <<learned, done, mailbox, closed, kernel, cancelled, usage, told, evicted, astray>>

Discarded(r) == [waiting EXCEPT ![Conversation[r]] = SelectSeq(@, LAMBDA w : w # r)]
Entry(turn) == SelectSeq(usage, LAMBDA u : u[1] = turn)
TakeUsage(r) == usage' = SelectSeq(usage, LAMBDA u : u[1] # learned[r])
(* A request that ends before its turn has leaves a turn whose messages     *)
(* find another waiter.                                                     *)
Ended(t) == produced[t] # <<>> /\ Last(produced[t]).kind \in Terminal
GivesUp(r) == astray' = IF Ended(r) THEN astray ELSE astray \union {<<Conversation[r], "left">>}
(* The client is gone: a cancellation is asked of the turn the waiter knows.*)
Disconnect(r) ==
    /\ http' = [http EXCEPT ![r] = "gone"]
    /\ cancelled' = IF learned[r] = NoTurn THEN cancelled ELSE cancelled \union {learned[r]}
    /\ TakeUsage(r) /\ waiting' = Discarded(r) /\ GivesUp(r)

Open(r) ==      \* prepare() and the opening chunk
    /\ http[r] = "opening"
    /\ \/ http' = [http EXCEPT ![r] = "reading"] /\ UNCHANGED <<waiting, cancelled, usage, astray>>
       \/ Disconnect(r)
       \/ /\ http' = [http EXCEPT ![r] = "gone"]       \* prepare() raised: nothing is cancelled
          /\ waiting' = Discarded(r) /\ GivesUp(r) /\ UNCHANGED <<cancelled, usage>>
    /\ UNCHANGED <<posted, learned, done, mailbox, inbound, closed, kernel, told, evicted>>

Finish(r, how) ==
    /\ http' = [http EXCEPT ![r] = how]
    /\ billed' = [billed EXCEPT ![r] = Entry(learned[r])] /\ TakeUsage(r)
    /\ waiting' = Discarded(r)
Outcome(r) ==   \* a stream ends in [DONE] either way, a blocking request in 200, 500 or 504
    IF got[r] # <<>> /\ Last(got[r]).kind \in Terminal THEN "answered" ELSE "silent"
Read(r) ==
    /\ http[r] = "reading" /\ mailbox[r] # <<>>
    /\ LET m == Head(mailbox[r])
       IN  \/ /\ m # End
              /\ got' = [got EXCEPT ![r] = Append(@, m)]
              /\ mailbox' = [mailbox EXCEPT ![r] = Tail(@)]
              /\ IF r \in Streamed /\ m.kind # "delta"
                 THEN Finish(r, "answered")            \* the loop breaks
                 ELSE UNCHANGED <<http, billed, usage, waiting>>
              /\ UNCHANGED <<cancelled, astray>>
           \/ /\ m = End /\ Finish(r, Outcome(r)) /\ GivesUp(r)
              /\ UNCHANGED <<got, mailbox, cancelled>>
           \/ /\ m # End /\ r \in Streamed             \* the write fails
              /\ Disconnect(r) /\ mailbox' = [mailbox EXCEPT ![r] = Tail(@)] /\ UNCHANGED told
    /\ UNCHANGED <<posted, learned, done, inbound, closed, kernel, evicted>>
TimeOut(r) ==   \* abandon(), and the loop is over
    /\ http[r] = "reading" /\ mailbox[r] = <<>>
    /\ done' = [done EXCEPT ![r] = TRUE]
    /\ Finish(r, Outcome(r)) /\ GivesUp(r)
    /\ UNCHANGED <<posted, learned, mailbox, inbound, closed, kernel, cancelled, got, evicted>>

Stop ==         \* ApiChannel.stop: hub.close()
    /\ ~closed /\ closed' = TRUE
    /\ LET abandoned == {r \in Requests : r \in ToSet(waiting[Conversation[r]]) /\ ~done[r]}
       IN  /\ done' = [r \in Requests |-> done[r] \/ r \in abandoned]
           /\ mailbox' = [r \in Requests |-> IF r \in abandoned THEN Append(mailbox[r], End) ELSE mailbox[r]]
           /\ astray' = astray \union {<<Conversation[r], "left">> : r \in abandoned}
    /\ inbound' = Append(inbound, NoTurn)
    /\ UNCHANGED <<posted, http, waiting, learned, kernel, cancelled, usage, told, evicted>>
-----------------------------------------------------------------------------
(* What is delivered: ApiChannel.deliver and SessionHub.route.              *)

(* Mutant: only the end of an answer ends a request, not an error.          *)
PushUnended(r, m) ==
    /\ learned' = [learned EXCEPT ![r] = IF @ = NoTurn THEN m.turn ELSE @]
    /\ mailbox' = [mailbox EXCEPT ![r] = @ \o (IF m.kind = "final" THEN <<m, End>> ELSE <<m>>)]
    /\ done' = [done EXCEPT ![r] = @ \/ m.kind = "final"]
Push(r, m) ==
    /\ learned' = [learned EXCEPT ![r] = IF @ = NoTurn THEN m.turn ELSE @]
    /\ mailbox' = [mailbox EXCEPT ![r] = @ \o (IF m.kind \in Terminal THEN <<m, End>> ELSE <<m>>)]
    /\ done' = [done EXCEPT ![r] = @ \/ m.kind \in Terminal]
OldestOf(line, ok) ==
    LET places == {i \in DOMAIN line : line[i] \in ok}
    IN  IF places = {} THEN <<>> ELSE <<line[Min(places)]>>
(* Mutant: the messages of a turn go to the last request that came.         *)
RouteToLast(m) ==
    LET line == waiting[Conversation[m.turn]]
    IN  IF line # <<>> THEN Push(Last(line), m) ELSE UNCHANGED <<learned, mailbox, done>>
Route(m) ==
    LET line  == waiting[Conversation[m.turn]]
        known == OldestOf(line, {r \in Requests : learned[r] = m.turn})
        fresh == OldestOf(line, {r \in Requests : learned[r] = NoTurn /\ ~done[r]})
    IN  CASE known # <<>> -> Push(known[1], m)
          [] known = <<>> /\ fresh # <<>> -> Push(fresh[1], m)
          [] OTHER -> UNCHANGED <<learned, mailbox, done>>
Deliver(t, kind) ==
    /\ Route([turn |-> t, kind |-> kind])
    /\ produced' = [produced EXCEPT ![t] = Append(@, [turn |-> t, kind |-> kind])]

(* The pump and the lanes.                                                  *)
Pump ==
    /\ inbound # <<>> /\ Head(inbound) # NoTurn
    /\ inbound' = Tail(inbound)
    /\ LET r == Head(inbound)
           c == Conversation[r]
       IN  IF Len(lane[c]) < LaneSize
           THEN lane' = [lane EXCEPT ![c] = Append(@, r)] /\ UNCHANGED <<learned, mailbox, done, produced, astray>>
           ELSE Deliver(r, "failed") /\ astray' = astray \union {<<c, "refused">>} /\ UNCHANGED lane
    /\ UNCHANGED <<posted, http, waiting, closed, running, cancelled, usage, told, responses, evicted>>
TurnStarts(c) ==
    /\ running[c] = NoTurn /\ lane[c] # <<>>
    /\ running' = [running EXCEPT ![c] = Head(lane[c])] /\ lane' = [lane EXCEPT ![c] = Tail(@)]
    /\ UNCHANGED <<posted, http, hub, inbound, closed, cancelled, usage, told, produced, responses, evicted, astray>>
TurnSpeaks(c) ==
    /\ running[c] # NoTurn /\ Len(produced[running[c]]) < MaxPieces
    /\ Deliver(running[c], "delta")
    /\ UNCHANGED <<posted, http, waiting, inbound, closed, lane, running, cancelled, usage, told, responses, evicted, astray>>
(* Mutant: the last response of a turn takes the place of those before it.  *)
ObserveLast(t) ==
    LET others == SelectSeq(usage, LAMBDA u : u[1] # t)
        full == Entry(t) = <<>> /\ Len(usage) >= MaxTracked
    IN  /\ usage' = Append(IF full THEN Tail(others) ELSE others, <<t, 1>>)
        /\ evicted' = IF full THEN evicted \union {Head(usage)[1]} ELSE evicted
Observe(t) ==   \* UsageTracker.observe: a full table loses its oldest turn
    IF Entry(t) # <<>>
    THEN /\ usage' = [i \in DOMAIN usage |-> IF usage[i][1] = t THEN <<t, usage[i][2] + 1>> ELSE usage[i]]
         /\ UNCHANGED evicted
    ELSE LET full == Len(usage) >= MaxTracked
         IN  /\ usage' = Append(IF full THEN Tail(usage) ELSE usage, <<t, 1>>)
             /\ evicted' = IF full THEN evicted \union {Head(usage)[1]} ELSE evicted
ModelAnswers(c) ==
    /\ running[c] # NoTurn /\ responses[running[c]] < MaxResponses
    /\ responses' = [responses EXCEPT ![running[c]] = @ + 1]
    /\ Observe(running[c])
    /\ UNCHANGED <<posted, http, hub, inbound, closed, lane, running, cancelled, told, produced, astray>>
(* An answer without text, without attachments and without an error is not  *)
(* delivered at all (emit_outbound).                                        *)
TurnEnds(c) ==
    /\ running[c] # NoTurn
    /\ LET t == running[c]
       IN  \/ \E kind \in {"final", "failed"} : Deliver(t, kind) /\ UNCHANGED astray
           \/ t \in cancelled /\ Deliver(t, "cancelled") /\ UNCHANGED astray
           \/ /\ produced[t] = <<>> /\ astray' = astray \union {<<c, "mute">>}
              /\ UNCHANGED <<learned, mailbox, done, produced>>
    /\ running' = [running EXCEPT ![c] = NoTurn]
    /\ UNCHANGED <<posted, http, waiting, inbound, closed, lane, cancelled, usage, told, responses, evicted>>

Next ==
    \/ Post \/ Stop \/ Pump \/ \E r \in Requests : Open(r) \/ Read(r) \/ TimeOut(r)
    \/ \E c \in Parties : TurnStarts(c) \/ TurnSpeaks(c) \/ ModelAnswers(c) \/ TurnEnds(c)
(* The handlers go on, the pump takes what is there and turns end.  No      *)
(* timeout is needed, so none is fair.                                      *)
Fairness ==
    /\ WF_vars(Pump)
    /\ \A r \in Requests : WF_vars(Open(r)) /\ WF_vars(Read(r))
    /\ \A c \in Parties : WF_vars(TurnStarts(c)) /\ WF_vars(TurnEnds(c))
Spec == Init /\ [][Next]_vars /\ Fairness
-----------------------------------------------------------------------------
(* Properties                                                               *)

Own(r) == \A i \in DOMAIN got[r] : got[r][i].turn = r
(* hub.py:10-13, "the oldest one is certainly the one that runs": what a    *)
(* client is shown was said by the turn of its own request.                 *)
AnswerIsOwn == \A r \in Requests : Own(r)
(* The same, and that nothing is missing, as long as every request of the   *)
(* conversation waited for its turn, every turn said something and the pump *)
(* refused none; and a client that goes away cancels its own turn only.     *)
Orderly(c) == \A why \in {"left", "refused", "mute"} : <<c, why>> \notin astray
AnswerIsWhole ==
    /\ \A r \in Requests : Orderly(Conversation[r]) =>
          /\ Own(r) /\ learned[r] \in {NoTurn, r}
          /\ http[r] = "answered" => got[r] = produced[r]
    /\ \A t \in cancelled : Orderly(Conversation[t]) => http[t] = "gone"
(* usage.py:13-16: the usage an answer reports is the sum of all responses  *)
(* of its turn, unless the entry of the turn had to make room for another's.*)
UsageIsWhole ==
    \A r \in Requests :
        http[r] = "answered" /\ Orderly(Conversation[r]) /\ r \notin evicted =>
            billed[r] = IF responses[r] = 0 THEN <<>> ELSE <<<<r, responses[r]>>>>
(* hub.py:84-86: without the timeout, too, every request that arrived       *)
(* before the stop comes to an end, unless a turn of its conversation ended *)
(* without a word.                                                          *)
RequestsEnd ==
    \A r \in Requests :
        (posted >= r /\ ~closed) ~> (http[r] \in {"answered", "silent", "gone"} \/ <<Conversation[r], "mute">> \in astray)
=============================================================================
