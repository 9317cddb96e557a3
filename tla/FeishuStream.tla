----------------------------- MODULE FeishuStream -----------------------------
(***************************************************************************)
(* How the feishu channel shows an answer while it is written (stream.py,  *)
(* channel.py): a card in streaming mode that is edited as pieces arrive   *)
(* and closed at the end, with the tool hints that a pump of its own puts  *)
(* into the same card, and the channel's stop.  One conversation; each     *)
(* call to the platform is a request of its own, and the other task goes   *)
(* on while it is under way.                                               *)
(*                                                                         *)
(* A text is the number of its pieces; Whole is the body of the final      *)
(* message.  Tasks: "lane" delivers, "pump" renders hints, "stop" stops.   *)
(***************************************************************************)
EXTENDS Naturals, Sequences, FiniteSets

CONSTANTS
    Messages,       \* what the lane delivers: a sequence of [turn, state]
    Hints,          \* the turns whose tool calls are announced, a sequence
    Streaming,      \* the channel edits cards at all
    MaxFaults       \* bound of the model: calls the platform fails, cards it closes itself

Tasks == {"lane", "pump", "stop"}
NoCard == 0
None == 0
Whole == 100

VARIABLES
    todo,           \* messages not yet delivered
    hints,          \* hints in the queue
    buffers,        \* every _Card there was: [turn, text, card, seq, degraded]
    current,        \* the conversation's buffer, or None
    task,           \* task -> [at, buf, text, from, ok]: the await it is in, on which buffer,
                    \* with which content, for which operation, and what it knows
    request,        \* task -> the request under way: [card, kind, seq, text, answer]
    cards,          \* the platform: [sent, streaming, seq, text] of each card
    plain,          \* the turns whose body was sent as messages of its own
    faults, stopped,
    issued,         \* history: card -> the last number used for it
    handled,        \* history: the turns whose final message was handled: [turn, error]
    overlapped      \* history: two tasks worked on one buffer at a time, or a stop cut in
vars == <<todo, hints, buffers, current, task, request, cards, plain, faults, stopped, issued, handled, overlapped>>

NoTask == [at |-> "idle", buf |-> None, text |-> 0, from |-> "none", ok |-> FALSE]
NoRequest == [card |-> NoCard, kind |-> "none", seq |-> 0, text |-> 0, answer |-> "none"]
Init ==
    /\ todo = Messages /\ hints = Hints
    /\ buffers = <<>> /\ current = None
    /\ task = [t \in Tasks |-> NoTask] /\ request = [t \in Tasks |-> NoRequest]
    /\ cards = <<>> /\ plain = {} /\ faults = 0 /\ stopped = FALSE
    /\ issued = [c \in 1..(2 * Len(Messages)) |-> 0] /\ handled = {} /\ overlapped = FALSE

Buf(t) == buffers[task[t].buf]
Fresh(turn) == [turn |-> turn, text |-> 0, card |-> NoCard, seq |-> 0, degraded |-> FALSE]
Busy(b) == \E t \in Tasks : task[t].at # "idle" /\ task[t].buf = b
-------------------------------------------------------------------------------
(* A task asks the platform for something and waits.                       *)

Goto(t, at, buf, text, from, ok) ==
    task' = [task EXCEPT ![t] = [at |-> at, buf |-> buf, text |-> text, from |-> from, ok |-> ok]]
Rest(t) == task' = [task EXCEPT ![t] = NoTask] /\ request' = [request EXCEPT ![t] = NoRequest]
Ask(t, kind, card, seq, text) ==
    request' = [request EXCEPT ![t] = [card |-> card, kind |-> kind, seq |-> seq, text |-> text, answer |-> "open"]]
(* Mutant: a number is used for two calls. *)
NumberedAgain(t, b, bs, kind, text) ==
    LET seq == bs[b].seq + 1
    IN  /\ buffers' = bs
        /\ Ask(t, kind, bs[b].card, seq, text)
        /\ issued' = [issued EXCEPT ![bs[b].card] = seq]
(* A numbered call: the counter goes up before it, whatever becomes of it. *)
Numbered(t, b, bs, kind, text) ==
    LET seq == bs[b].seq + 1
    IN  /\ buffers' = [bs EXCEPT ![b].seq = seq]
        /\ Ask(t, kind, bs[b].card, seq, text)
        /\ issued' = [issued EXCEPT ![bs[b].card] = seq]

(* _pump: the buffer's text is put on its card, or a card is opened for    *)
(* it; an edit too soon after the last is left out.                        *)
Pump(t, b, bs) ==
    LET buf == bs[b]
    IN  \/ /\ ~Streaming \/ buf.degraded \/ buf.text = 0 \/ buf.card # NoCard
           /\ buffers' = bs /\ Rest(t) /\ UNCHANGED issued
        \/ /\ Streaming /\ ~buf.degraded /\ buf.text # 0 /\ buf.card = NoCard
           /\ buffers' = bs /\ Goto(t, "create", b, 0, "open", FALSE)
           /\ Ask(t, "create", NoCard, 0, 0) /\ UNCHANGED issued
        \/ /\ Streaming /\ ~buf.degraded /\ buf.card # NoCard
           /\ Goto(t, "update", b, buf.text, "pump", FALSE)
           /\ Numbered(t, b, bs, "update", buf.text)
(* The answer to a task's request has come.                                *)
Answered(t, at) == task[t].at = at /\ request[t].answer \in {"yes", "no"}
Yes(t) == request[t].answer = "yes"
Platform == <<cards, plain, faults>>

(* _open: the card is made, sent to the conversation and filled.           *)
Created(t) ==
    /\ Answered(t, "create")
    /\ IF Yes(t) THEN /\ Goto(t, "send", task[t].buf, 0, "open", FALSE)
                      /\ Ask(t, "send", request[t].card, 0, 0) /\ UNCHANGED buffers
       ELSE buffers' = [buffers EXCEPT ![task[t].buf].degraded = TRUE] /\ Rest(t)
    /\ UNCHANGED <<todo, hints, current, Platform, stopped, issued, handled, overlapped>>
Sent(t) ==
    /\ Answered(t, "send")
    /\ IF Yes(t)
       THEN LET bs == [buffers EXCEPT ![task[t].buf].card = request[t].card]
            IN  /\ Goto(t, "update", task[t].buf, Buf(t).text, "open", FALSE)
                /\ Numbered(t, task[t].buf, bs, "update", Buf(t).text)
       ELSE buffers' = [buffers EXCEPT ![task[t].buf].degraded = TRUE] /\ Rest(t) /\ UNCHANGED issued
    /\ UNCHANGED <<todo, hints, current, Platform, stopped, handled, overlapped>>

(* _update_with_reopen, and what each caller makes of its result.          *)
CloseCard(t, ok, bs) ==
    IF bs[task[t].buf].card = NoCard THEN FALSE
    ELSE Goto(t, "close", task[t].buf, 0, task[t].from, ok) /\ Numbered(t, task[t].buf, bs, "off", 0)
SendPlain(t) ==
    /\ Goto(t, "plain", task[t].buf, 0, "finish", FALSE)
    /\ Ask(t, "plain", NoCard, Buf(t).turn, 0) /\ UNCHANGED <<buffers, issued>>
Finished(error) == handled' = handled \union {[turn |-> Buf("lane").turn, error |-> error]}
UpdateEnds(t, ok) ==
    \/ ok /\ task[t].from # "finish" /\ Rest(t) /\ UNCHANGED <<buffers, issued, handled>>
    \/ (~ok \/ task[t].from = "finish") /\ CloseCard(t, ok, buffers) /\ UNCHANGED handled
    \/ /\ (~ok \/ task[t].from = "finish") /\ Buf(t).card = NoCard      \* the other task gave it up
       /\ \/ task[t].from # "finish" /\ Rest(t) /\ buffers' = [buffers EXCEPT ![task[t].buf].degraded = TRUE]
             /\ UNCHANGED <<issued, handled>>
          \/ task[t].from = "finish" /\ ok /\ Rest(t) /\ Finished(FALSE) /\ UNCHANGED <<buffers, issued>>
          \/ task[t].from = "finish" /\ ~ok /\ SendPlain(t) /\ UNCHANGED handled
(* Mutant: a refused update counts as done. *)
UpdatedOnce(t) ==
    /\ Answered(t, "update") /\ UpdateEnds(t, TRUE)
    /\ UNCHANGED <<todo, hints, current, Platform, stopped, overlapped>>
Updated(t) ==
    /\ Answered(t, "update")
    /\ IF Yes(t) THEN UpdateEnds(t, TRUE)
       ELSE LET seq == Buf(t).seq + 1
            IN  /\ Goto(t, "reopen", task[t].buf, task[t].text, task[t].from, FALSE)
                /\ buffers' = [buffers EXCEPT ![task[t].buf].seq = seq]
                /\ Ask(t, "on", request[t].card, seq, 0)
                /\ issued' = [issued EXCEPT ![request[t].card] = seq] /\ UNCHANGED handled
    /\ UNCHANGED <<todo, hints, current, Platform, stopped, overlapped>>
Reopened(t) ==
    /\ Answered(t, "reopen")
    /\ IF ~Yes(t) THEN UpdateEnds(t, FALSE)
       ELSE LET seq == Buf(t).seq + 1
            IN  /\ Goto(t, "again", task[t].buf, task[t].text, task[t].from, FALSE)
                /\ buffers' = [buffers EXCEPT ![task[t].buf].seq = seq]
                /\ Ask(t, "update", request[t].card, seq, task[t].text)
                /\ issued' = [issued EXCEPT ![request[t].card] = seq] /\ UNCHANGED handled
    /\ UNCHANGED <<todo, hints, current, Platform, stopped, overlapped>>
UpdatedAgain(t) ==
    /\ Answered(t, "again") /\ UpdateEnds(t, Yes(t))
    /\ UNCHANGED <<todo, hints, current, Platform, stopped, overlapped>>

(* _close_streaming: once, or twice at the end of the answer.              *)
Closed(t) ==
    /\ Answered(t, "close")
    /\ \/ task[t].from = "pump" /\ Rest(t) /\ UNCHANGED <<issued, handled>>
          /\ buffers' = [buffers EXCEPT ![task[t].buf].card = NoCard, ![task[t].buf].degraded = TRUE]
       \/ task[t].from = "open" /\ Rest(t) /\ UNCHANGED <<issued, handled>>
          /\ buffers' = [buffers EXCEPT ![task[t].buf].degraded = TRUE]
       \/ /\ task[t].from = "finish" /\ ~Yes(t) /\ Buf(t).card # NoCard
          /\ Goto(t, "closeAgain", task[t].buf, 0, "finish", task[t].ok)
          /\ Numbered(t, task[t].buf, buffers, "off", 0) /\ UNCHANGED handled
       \/ /\ task[t].from = "finish" /\ (Yes(t) \/ Buf(t).card = NoCard)
          /\ IF task[t].ok THEN Rest(t) /\ Finished(FALSE) /\ UNCHANGED <<buffers, issued>>
             ELSE SendPlain(t) /\ UNCHANGED handled
    /\ UNCHANGED <<todo, hints, current, Platform, stopped, overlapped>>
ClosedAgain(t) ==
    /\ Answered(t, "closeAgain")
    /\ IF task[t].ok THEN Rest(t) /\ Finished(FALSE) /\ UNCHANGED <<buffers, issued>>
       ELSE SendPlain(t) /\ UNCHANGED handled
    /\ UNCHANGED <<todo, hints, current, Platform, stopped, overlapped>>
PlainSent(t) ==
    /\ Answered(t, "plain") /\ Finished(~Yes(t)) /\ Rest(t)
    /\ UNCHANGED <<todo, hints, buffers, current, Platform, stopped, issued, overlapped>>
-------------------------------------------------------------------------------
(* deliver(): the lane takes the conversation's next message.              *)

LaneReady(state) ==
    /\ task["lane"].at = "idle" /\ todo # <<>> /\ Head(todo).state = state
    /\ todo' = Tail(todo)
Started ==
    /\ LaneReady("started")
    /\ buffers' = Append(buffers, Fresh(Head(todo).turn)) /\ current' = Len(buffers) + 1
    /\ UNCHANGED <<hints, task, request, Platform, stopped, issued, handled, overlapped>>
Delta ==
    /\ LaneReady("delta")
    /\ LET mine == current # None /\ buffers[current].turn = Head(todo).turn
           b    == IF mine THEN current ELSE Len(buffers) + 1
           bs   == IF mine THEN buffers ELSE Append(buffers, Fresh(Head(todo).turn))
       IN  /\ current' = b /\ Pump("lane", b, [bs EXCEPT ![b].text = @ + 1])
           /\ overlapped' = (overlapped \/ Busy(b))
    /\ UNCHANGED <<hints, Platform, stopped, handled>>
Final ==
    /\ LaneReady("final")
    /\ LET b  == IF current # None THEN current ELSE Len(buffers) + 1
           bs == IF current # None THEN buffers ELSE Append(buffers, Fresh(Head(todo).turn))
       IN  /\ overlapped' = (overlapped \/ Busy(b))
           /\ IF bs[b].card # NoCard
              THEN /\ Goto("lane", "update", b, Whole, "finish", FALSE)
                   /\ Numbered("lane", b, bs, "update", Whole)
              ELSE /\ Goto("lane", "plain", b, 0, "finish", FALSE) /\ buffers' = bs
                   /\ Ask("lane", "plain", NoCard, Head(todo).turn, 0) /\ UNCHANGED issued
    /\ current' = None
    /\ UNCHANGED <<hints, Platform, stopped, handled>>

(* _drain_hints: a hint of the answer that is being written goes into its  *)
(* text and onto its card.                                                 *)
Hint ==
    /\ hints # <<>> /\ task["pump"].at = "idle" /\ ~stopped
    /\ hints' = Tail(hints)
    /\ IF current # None /\ buffers[current].turn = Head(hints)
       THEN /\ Pump("pump", current, [buffers EXCEPT ![current].text = @ + 1])
            /\ overlapped' = (overlapped \/ Busy(current))
       ELSE UNCHANGED <<buffers, task, request, issued, overlapped>>
    /\ UNCHANGED <<todo, current, Platform, stopped, handled>>

(* stop(): the pump is cancelled, what it asked for may still happen; the  *)
(* open card is closed and the buffer forgotten.  Turns still run.         *)
Stop ==
    /\ ~stopped /\ stopped' = TRUE
    /\ overlapped' = (overlapped \/ todo # <<>> \/ \E t \in Tasks : task[t].at # "idle")
    /\ IF current # None /\ buffers[current].card # NoCard
       THEN /\ task' = [task EXCEPT !["pump"] = NoTask, !["stop"] =
                            [at |-> "stopping", buf |-> current, text |-> 0, from |-> "stop", ok |-> FALSE]]
            /\ Numbered("stop", current, buffers, "off", 0) /\ UNCHANGED current
       ELSE /\ task' = [task EXCEPT !["pump"] = NoTask] /\ current' = None
            /\ UNCHANGED <<buffers, request, issued>>
    /\ UNCHANGED <<todo, hints, Platform, handled>>
Stopped ==
    /\ Answered("stop", "stopping") /\ Rest("stop") /\ current' = None
    /\ UNCHANGED <<todo, hints, buffers, Platform, stopped, issued, handled, overlapped>>
-------------------------------------------------------------------------------
(* The platform.  A card takes only rising numbers, and content only in    *)
(* streaming mode.                                                         *)

Reply(t, answer) == request' = [request EXCEPT ![t].answer = answer]
Takes(r) == r.seq > cards[r.card].seq /\ (r.kind = "update" => cards[r.card].streaming)
Effect(t) ==
    LET r == request[t]
    IN  CASE r.kind = "create" -> cards' = Append(cards, [sent |-> FALSE, streaming |-> TRUE, seq |-> 0, text |-> 0])
                                  /\ UNCHANGED plain
          [] r.kind = "send"   -> cards' = [cards EXCEPT ![r.card].sent = TRUE] /\ UNCHANGED plain
          [] r.kind = "update" -> cards' = [cards EXCEPT ![r.card].seq = r.seq, ![r.card].text = r.text] /\ UNCHANGED plain
          [] r.kind = "plain"  -> plain' = plain \union {r.seq} /\ UNCHANGED cards
          [] OTHER -> cards' = [cards EXCEPT ![r.card].seq = r.seq, ![r.card].streaming = (r.kind = "on")] /\ UNCHANGED plain
Refused(r) == r.kind \in {"update", "on", "off"} /\ ~Takes(r)
Internal == <<todo, hints, buffers, current, task, stopped, issued, handled, overlapped>>
Apply(t) ==
    /\ request[t].answer = "open"
    /\ IF Refused(request[t]) THEN Reply(t, "no") /\ UNCHANGED <<cards, plain>>
       ELSE /\ Effect(t)
            /\ request' = [request EXCEPT ![t].answer = "yes",
                              ![t].card = IF @ = NoCard /\ request[t].kind = "create" THEN Len(cards) + 1 ELSE @]
    /\ UNCHANGED <<Internal, faults>>
(* It fails, before or after it took effect.                               *)
Fail(t) ==
    /\ request[t].answer = "open" /\ faults < MaxFaults /\ faults' = faults + 1
    /\ Reply(t, "no")
    /\ \/ UNCHANGED <<cards, plain>>
       \/ ~Refused(request[t]) /\ Effect(t)
    /\ UNCHANGED Internal
(* It ends a card's streaming mode by itself after a while.                *)
CloseBySelf ==
    /\ faults < MaxFaults /\ faults' = faults + 1
    /\ \E c \in 1..Len(cards) : cards[c].streaming /\ cards' = [cards EXCEPT ![c].streaming = FALSE]
    /\ UNCHANGED <<Internal, request, plain>>

Continue(t) ==
    \/ Created(t) \/ Sent(t) \/ Updated(t) \/ Reopened(t) \/ UpdatedAgain(t)
    \/ Closed(t) \/ ClosedAgain(t) \/ PlainSent(t)
Next ==
    \/ Started \/ Delta \/ Final \/ Hint \/ Stop \/ Stopped \/ CloseBySelf
    \/ \E t \in Tasks : Continue(t) \/ Apply(t) \/ Fail(t)
Spec == Init /\ [][Next]_vars
-------------------------------------------------------------------------------
(* stream.py:8-15.  Every numbered call carries a number above all that    *)
(* were used for its card before, also after calls that failed and when    *)
(* two tasks write on one card: the platform never refuses one for good.   *)
NumbersRise ==
    [][\A t \in Tasks :
          LET r == request'[t]
          IN  r # request[t] /\ r.answer = "open" /\ r.kind \in {"update", "on", "off"}
              => r.seq > issued[r.card]]_vars
Showing(turn) ==
    \/ turn \in plain
    \/ \E b \in 1..Len(buffers) : buffers[b].turn = turn /\ \E c \in 1..Len(cards) : cards[c].sent /\ cards[c].text = Whole
(* stream.py:200-215, channel.py:22-28.  A final message that was handled  *)
(* without an error is there to be read, whole, whatever failed on the     *)
(* way to it, if no other task worked on its card at the same time.        *)
AnswerIsShown == ~overlapped => \A h \in handled : ~h.error => Showing(h.turn)
Quiet == todo = <<>> /\ \A t \in Tasks : task[t].at = "idle" /\ request[t].answer # "open"
(* The cards it knows were sent: for one whose sending took effect and was *)
(* answered with an error it has forgotten the card.                       *)
NoneStreaming == \A c \in 1..Len(cards) : cards[c].sent /\ issued[c] > 0 => ~cards[c].streaming
(* stream.py:17-20, for the lane on its own: once the final message is     *)
(* handled no card of the conversation is in streaming mode, though a call *)
(* fails or the platform closed it before.                                 *)
AloneItCloses == Quiet /\ ~overlapped => NoneStreaming
(* The same whatever the pump of the hints does meanwhile (stream.py:17-20,*)
(* "all five exits").                                                      *)
StreamingIsClosed == Quiet => NoneStreaming
===============================================================================
