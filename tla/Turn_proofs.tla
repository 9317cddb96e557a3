---------------------------- MODULE Turn_proofs ----------------------------
(***************************************************************************)
(* One turn, for any limits and any lists of calls a response may ask for: *)
(* what runs is paid for and waits for its barrier, a request answers every *)
(* call before it, and what the user is told agrees with what is saved.    *)
(***************************************************************************)
EXTENDS Turn, FiniteSetTheorems, TLAPS

ToolStates == {"queued", "before", "running", "after", "executed", "raised",
               "unknown", "skipped", "blocked", "collected"}
TurnRecords == [role : {"user", "assistant", "tool"}, text : Seq(Nat),
                call : {<< >>} \cup (Nat \X Nat), interrupted : BOOLEAN]

(* Where the turn has not reached the model yet, where it works with it,    *)
(* and where it is over but for the report.                                *)
Early  == {"turn_start", "route", "load", "assemble"}
Live   == {"loop", "before_model", "model", "after_model", "tools", "wrap_up"}
Ending == {"finish", "append", "turn_end", "done", "escaped"}

TypesHold ==
  /\ TurnTypeOK
  /\ ledger \in [iterations : Nat, tool_calls : Nat]
  /\ state \in [text : Seq(Nat), pending : Seq(Nat), final : Seq(Nat),
                attached : BOOLEAN, truncated : BOOLEAN]
  /\ transcript \in [user : BOOLEAN, body : Seq(TurnRecords)]
  /\ request \in [messages : Seq({"assistant", "tool"} \X Nat \X Nat), recoveries : Nat,
                  answer : Seq(Nat), calls : Seq(ToolKinds),
                  stop : {"none", "end_turn", "max_tokens", "tool_calls"}]
  /\ tool \in Seq(ToolStates)
  /\ outcome \in [status : Statuses \cup {"none"}, reason : Reasons \cup {"none", "budget"}]
  /\ produced \in Nat
  /\ history \in Seq(TurnRecords)
  /\ events \in Seq(Statuses \cup {"none"})
  /\ frames \in Seq([text : Seq(Nat), stream_state : {"cancelled", "failed", "final"}])

(* What has run and what may still run of this response is paid for.        *)
Reserved == {<<ledger.iterations, i>> : i \in {j \in DOMAIN tool : tool[j] \in {"queued", "before"}}}
BudgetHolds ==
  /\ IsFiniteSet(executed \cup Reserved)
  /\ Cardinality(executed \cup Reserved) <= ledger.tool_calls

(* No tool is under way outside the tool phase, unless a failure ended it.  *)
Settled == \A i \in DOMAIN tool : tool[i] = "collected"
CalmHolds ==
  \/ Settled
  \/ turnPc \in {"tools", "killed"}
  \/ /\ turnPc \in Ending
     /\ outcome.status = "failed"
     /\ \A k \in DOMAIN events : events[k] = "failed"

(* The calls of the response that have their result, each once.             *)
PhaseHolds ==
  turnPc = "tools" =>
    /\ DOMAIN tool = 1..Len(request.calls)
    /\ \A k \in DOMAIN completed : tool[completed[k]] = "collected"
    /\ \A k, l \in DOMAIN completed : completed[k] = completed[l] => k = l

(* The batches go one by one: what has left the queue shares its batch with *)
(* every earlier call that has no result yet.                              *)
BarrierHolds ==
  turnPc = "tools" =>
    \A i, j \in DOMAIN tool :
      i < j /\ tool[j] # "queued" /\ tool[i] # "collected" =>
        \A k \in i..j : request.calls[k] = "parallel"

(* Every response but the one at work is followed by its results.           *)
Followed(m, p) ==
  m[p][1] = "assistant" =>
    \A i \in 1..m[p][3] : p + i \in DOMAIN m /\ m[p + i] = <<"tool", m[p][2], i>>
MessagesHold ==
  LET m == request.messages IN
  /\ turnPc \in Early \cup {"loop", "before_model", "model", "after_model"} =>
       \A p \in DOMAIN m : Followed(m, p)
  /\ turnPc = "tools" =>
       /\ m # << >>
       /\ m[Len(m)] = <<"assistant", ledger.iterations, Len(request.calls)>>
       /\ \A p \in 1..(Len(m) - 1) : Followed(m, p)

(* A call that was carried out is recorded, or still under way.             *)
Recording(call) == \E k \in DOMAIN transcript.body : transcript.body[k].call = call
Pursued(call) ==
  \E i \in DOMAIN tool : /\ call = <<ledger.iterations, i>>
                         /\ tool[i] \in {"running", "after", "executed", "raised"}
ExecutedHolds == \A call \in executed : Recording(call) \/ Pursued(call)

(* A record of a call belongs to an earlier response, or to a call of this  *)
(* one that has its result.                                                *)
CallsHold ==
  \A k \in DOMAIN transcript.body :
    LET call == transcript.body[k].call IN
    call # << >> =>
      /\ call[1] <= ledger.iterations
      /\ turnPc \in {"before_model", "model", "after_model"} => call[1] < ledger.iterations
      /\ turnPc = "tools" /\ call[1] = ledger.iterations =>
           call[2] \in DOMAIN tool /\ tool[call[2]] = "collected"

(* The pieces of the model's own text.                                      *)
Told(text) == Pieces(text) \ {0}
Kept == PiecesOf(transcript.body)
Apart(records) ==
  \A i, j \in DOMAIN records : i # j =>
    /\ (Pieces(records[i].text) \cap Pieces(records[j].text)) \ {0} = {}
    /\ records[i].call # << >> => records[i].call # records[j].call
Whole(records) == \A k \in DOMAIN records : ~records[k].interrupted

(* A piece is in one place at a time: in the answer under way, in the final *)
(* text or in a record; and whatever was shown is in one of them.          *)
PiecesBounded ==
  \A piece \in Pieces(state.text) \cup Pieces(state.pending) \cup Pieces(state.final)
                 \cup Pieces(request.answer) \cup Kept : piece <= produced
EarlyText ==
  turnPc \in Early =>
    /\ state.pending = << >> /\ state.final = << >> /\ Told(state.text) = {}
    /\ transcript.body = << >> /\ request.answer = << >>
LiveText ==
  turnPc \in Live =>
    /\ Whole(transcript.body) /\ Apart(transcript.body)
    /\ Told(state.final) \cap Kept = {}
    /\ request.recoveries = 0 => state.final = << >>
    /\ Told(state.text) \subseteq Kept \cup Pieces(state.final) \cup Pieces(state.pending)
    /\ turnPc \notin {"model", "after_model"} => state.pending = << >>
    /\ turnPc = "before_model" => request.answer = << >>
    /\ turnPc \in {"model", "after_model"} =>
         /\ Pieces(state.pending) \subseteq Pieces(request.answer)
         /\ Told(request.answer) \cap (Kept \cup Pieces(state.final)) = {}
    /\ turnPc = "wrap_up" => outcome.status = "stopped_by_limit"
FinishText ==
  turnPc = "finish" /\ events = << >> =>
    /\ Whole(transcript.body) /\ Apart(transcript.body)
    /\ Told(state.final) \cap Kept = {} /\ Told(state.pending) \cap Kept = {}
    /\ outcome.status = "cancelled" /\ request.recoveries = 0 =>
         state.final = << >> /\ Told(state.text) \subseteq Kept \cup Pieces(state.pending)
    /\ outcome.status \notin {"cancelled", "failed"} =>
         state.pending = << >> /\ (state.final # << >> \/ Told(state.text) \subseteq Kept)
TextHolds == PiecesBounded /\ EarlyText /\ LiveText /\ FinishText

(* What the records say of a turn reported with that status.                *)
EndsMarked(records) ==
  LET own == {i \in DOMAIN records : records[i].role = "assistant"} IN
  \A i \in own : (\A j \in own : j <= i) => records[i].interrupted
ShownText == IF state.final # << >> THEN state.final ELSE state.text
Tells(status, records) ==
  /\ Apart(records)
  /\ status # "failed" => \A call \in executed : \E i \in DOMAIN records : records[i].call = call
  /\ status = "cancelled" /\ request.recoveries = 0 => Told(state.text) \subseteq PiecesOf(records)
  /\ status = "cancelled" /\ ~state.attached => EndsMarked(records)
  /\ status \notin {"cancelled", "failed"} =>
       \A piece \in Told(ShownText) :
         \E i \in DOMAIN records : piece \in Pieces(records[i].text) /\ ~records[i].interrupted

EndHolds ==
  /\ turnPc \in Early \cup Live => events = << >>
  /\ events = << >> => history = << >> /\ frames = << >>
  /\ turnPc \in {"turn_end", "done"} => events # << >>
  /\ turnPc = "append" /\ events = << >> => Tells(outcome.status, transcript.body)
  /\ turnPc = "turn_end" /\ Len(events) = 1 =>
       Tells(events[1], history) /\ outcome.status = events[1] /\ frames = << >>
  /\ Closed => Tells(events[1], history) /\ AnnouncedIsSaved

IInv ==
  /\ TypesHold
  /\ BudgetHolds
  /\ CalmHolds
  /\ PhaseHolds
  /\ BarrierHolds
  /\ MessagesHold
  /\ ExecutedHolds
  /\ CallsHold
  /\ TextHolds
  /\ EndHolds
-----------------------------------------------------------------------------
(* Sequences and their pieces. *)

LEMMA AppendFacts ==
  ASSUME NEW T, NEW s \in Seq(T), NEW x \in T
  PROVE  /\ Append(s, x) \in Seq(T) /\ Append(s, x) # << >>
         /\ Len(s) \in Nat /\ Len(Append(s, x)) = Len(s) + 1
         /\ DOMAIN s = 1..Len(s) /\ DOMAIN Append(s, x) = DOMAIN s \cup {Len(s) + 1}
         /\ Len(s) + 1 \notin DOMAIN s
         /\ \A i \in DOMAIN s : Append(s, x)[i] = s[i]
         /\ Append(s, x)[Len(s) + 1] = x
         /\ s \o <<x>> = Append(s, x)
         /\ s = << >> => Len(s) = 0
<1>1. /\ Append(s, x) \in Seq(T) /\ Append(s, x) # << >>
      /\ Len(s) \in Nat /\ Len(Append(s, x)) = Len(s) + 1
      /\ DOMAIN s = 1..Len(s) /\ DOMAIN Append(s, x) = 1..(Len(s) + 1)
      /\ \A i \in DOMAIN s : Append(s, x)[i] = s[i]
      /\ Append(s, x)[Len(s) + 1] = x
  OBVIOUS
<1>2. \A n \in Nat : 1..(n + 1) = (1..n) \cup {n + 1} /\ n + 1 \notin 1..n OBVIOUS
<1>3. s \o <<x>> = Append(s, x) OBVIOUS
<1>4. s = << >> => Len(s) = 0 OBVIOUS
<1> QED BY <1>1, <1>2, <1>3, <1>4

LEMMA PiecesFacts ==
  ASSUME NEW s \in Seq(Nat), NEW t \in Seq(Nat), NEW x \in Nat
  PROVE  /\ Pieces(<< >>) = {} /\ Told(<< >>) = {}
         /\ Pieces(s) \subseteq Nat
         /\ (Pieces(s) = {} => s = << >>)
         /\ Pieces(Append(s, x)) = Pieces(s) \cup {x}
         /\ s \o t \in Seq(Nat) /\ Pieces(s \o t) = Pieces(s) \cup Pieces(t)
         /\ s \o << >> = s
         /\ <<x>> \in Seq(Nat) /\ Pieces(<<x>>) = {x}
<1>1. Pieces(<< >>) = {} /\ Told(<< >>) = {} BY DEF Pieces, Told
<1>2. Pieces(s) \subseteq Nat BY DEF Pieces
<1>3. Pieces(s) = {} => s = << >>
  <2>1. s # << >> => 1 \in DOMAIN s OBVIOUS
  <2> QED BY <2>1 DEF Pieces
<1>4. Pieces(Append(s, x)) = Pieces(s) \cup {x}
  <2> DEFINE u == Append(s, x)
  <2>1. /\ DOMAIN u = DOMAIN s \cup {Len(s) + 1}
        /\ \A i \in DOMAIN s : u[i] = s[i]
        /\ u[Len(s) + 1] = x
    BY AppendFacts
  <2> QED BY <2>1 DEF Pieces
<1>5. s \o t \in Seq(Nat) /\ Pieces(s \o t) = Pieces(s) \cup Pieces(t)
  <2> DEFINE u == s \o t
  <2>1. /\ u \in Seq(Nat) /\ DOMAIN u = 1..(Len(s) + Len(t)) /\ Len(s) \in Nat /\ Len(t) \in Nat
        /\ \A i \in 1..Len(s) : u[i] = s[i]
        /\ \A i \in 1..Len(t) : u[Len(s) + i] = t[i]
        /\ DOMAIN s = 1..Len(s) /\ DOMAIN t = 1..Len(t)
    OBVIOUS
  <2>2. \A n, m \in Nat : \A i \in 1..(n + m) : i \in 1..n \/ \E j \in 1..m : i = n + j
    <3> SUFFICES ASSUME NEW n \in Nat, NEW m \in Nat, NEW i \in 1..(n + m), i \notin 1..n
                 PROVE  \E j \in 1..m : i = n + j
      OBVIOUS
    <3>1. i - n \in 1..m /\ i = n + (i - n) OBVIOUS
    <3> QED BY <3>1
  <2>3. \A n, m \in Nat : (\A i \in 1..n : i \in 1..(n + m)) /\ (\A j \in 1..m : n + j \in 1..(n + m)) OBVIOUS
  <2>4. Pieces(u) \subseteq Pieces(s) \cup Pieces(t)
    <3> SUFFICES ASSUME NEW i \in DOMAIN u PROVE u[i] \in Pieces(s) \cup Pieces(t) BY DEF Pieces
    <3>0. Len(s) \in Nat /\ Len(t) \in Nat /\ i \in 1..(Len(s) + Len(t)) BY <2>1
    <3>1. i \in 1..Len(s) \/ \E j \in 1..Len(t) : i = Len(s) + j BY <3>0, <2>2, Zenon
    <3> QED BY <3>1, <2>1 DEF Pieces
  <2>5. Pieces(s) \subseteq Pieces(u)
    <3> SUFFICES ASSUME NEW i \in DOMAIN s PROVE s[i] \in Pieces(u) BY DEF Pieces
    <3>1. i \in DOMAIN u /\ u[i] = s[i] BY <2>1, <2>3
    <3> QED BY <3>1 DEF Pieces
  <2>6. Pieces(t) \subseteq Pieces(u)
    <3> SUFFICES ASSUME NEW j \in DOMAIN t PROVE t[j] \in Pieces(u) BY DEF Pieces
    <3>1. Len(s) + j \in DOMAIN u /\ u[Len(s) + j] = t[j] BY <2>1, <2>3
    <3> QED BY <3>1 DEF Pieces
  <2> QED BY <2>1, <2>4, <2>5, <2>6
<1>6. s \o << >> = s OBVIOUS
<1>7. <<x>> \in Seq(Nat) /\ Pieces(<<x>>) = {x} BY DEF Pieces
<1> QED BY <1>1, <1>2, <1>3, <1>4, <1>5, <1>6, <1>7

LEMMA RecordFacts ==
  /\ \A text \in Seq(Nat), cut \in BOOLEAN :
       /\ Assistant(text, cut) \in TurnRecords
       /\ Assistant(text, cut).text = text /\ Assistant(text, cut).call = << >>
       /\ Assistant(text, cut).role = "assistant" /\ Assistant(text, cut).interrupted = cut
  /\ \A call \in Nat \X Nat :
       /\ ToolResult(call) \in TurnRecords /\ call # << >>
       /\ ToolResult(call).text = << >> /\ ToolResult(call).call = call
       /\ ToolResult(call).role = "tool" /\ ToolResult(call).interrupted = FALSE
  /\ UserInput \in TurnRecords
  /\ UserInput.text = << >> /\ UserInput.call = << >> /\ UserInput.role = "user"
<1>1. << >> \in Seq(Nat) OBVIOUS
<1>2. \A call \in Nat \X Nat : call # << >> OBVIOUS
<1> QED BY <1>1, <1>2 DEF Assistant, ToolResult, UserInput, TurnRecords

LEMMA GrownRecords ==
  ASSUME NEW r \in Seq(TurnRecords), NEW x \in TurnRecords
  PROVE  /\ PiecesOf(<< >>) = {} /\ Apart(<< >>)
         /\ PiecesOf(Append(r, x)) = PiecesOf(r) \cup Pieces(x.text)
         /\ Apart(r) /\ Told(x.text) \cap PiecesOf(r) = {}
              /\ (x.call # << >> => \A i \in DOMAIN r : r[i].call # x.call)
              => Apart(Append(r, x))
<1> DEFINE u == Append(r, x)
           last == Len(r) + 1
<1>1. /\ DOMAIN u = DOMAIN r \cup {last} /\ last \notin DOMAIN r
      /\ \A i \in DOMAIN r : u[i] = r[i]
      /\ u[last] = x
  BY AppendFacts
<1>2. PiecesOf(<< >>) = {} /\ Apart(<< >>) BY DEF PiecesOf, Apart
<1> HIDE DEF u, last
<1>3. PiecesOf(u) = PiecesOf(r) \cup Pieces(x.text) BY <1>1 DEF PiecesOf
<1>4. ASSUME Apart(r), Told(x.text) \cap PiecesOf(r) = {},
             x.call # << >> => \A i \in DOMAIN r : r[i].call # x.call
      PROVE  Apart(u)
  <2>1. \A i \in DOMAIN r : (Pieces(r[i].text) \cap Pieces(x.text)) \ {0} = {}
    BY <1>4 DEF Told, PiecesOf
  <2>2. \A i \in DOMAIN r : r[i].call # << >> => r[i].call # x.call
    BY <1>4
  <2>3. ASSUME NEW i \in DOMAIN u, NEW j \in DOMAIN u, i # j
        PROVE  /\ (Pieces(u[i].text) \cap Pieces(u[j].text)) \ {0} = {}
               /\ u[i].call # << >> => u[i].call # u[j].call
    <3>1. CASE i \in DOMAIN r /\ j \in DOMAIN r BY <3>1, <2>3, <1>1, <1>4 DEF Apart
    <3>2. CASE i \in DOMAIN r /\ j = last BY <3>2, <1>1, <2>1, <2>2
    <3>3. CASE i = last /\ j \in DOMAIN r
      <4>1. u[i] = x /\ u[j] = r[j] BY <3>3, <1>1
      <4>2. (Pieces(x.text) \cap Pieces(r[j].text)) \ {0} = {} BY <3>3, <2>1
      <4>3. x.call # << >> => x.call # r[j].call BY <3>3, <1>4
      <4> QED BY <4>1, <4>2, <4>3
    <3> QED BY <3>1, <3>2, <3>3, <2>3, <1>1
  <2> QED BY <2>3 DEF Apart
<1> QED BY <1>2, <1>3, <1>4 DEF u

LEMMA MarkedFacts ==
  ASSUME NEW r \in Seq(TurnRecords)
  PROVE  /\ Marked(r) \in Seq(TurnRecords) /\ DOMAIN Marked(r) = DOMAIN r
         /\ (r = << >> => Marked(r) = << >>) /\ (r # << >> => Marked(r) # << >>)
         /\ \A i \in DOMAIN r : Marked(r)[i].text = r[i].text /\ Marked(r)[i].call = r[i].call
         /\ PiecesOf(Marked(r)) = PiecesOf(r)
         /\ Apart(r) => Apart(Marked(r))
         /\ EndsMarked(Marked(r))
<1> DEFINE own == {i \in DOMAIN r : r[i].role = "assistant"}
           newest(i) == i \in own /\ \A j \in own : j <= i
           u == Marked(r)
<1>1. u = [i \in DOMAIN r |-> IF newest(i) THEN [r[i] EXCEPT !.interrupted = TRUE] ELSE r[i]]
  BY DEF Marked
<1>2. \A x \in TurnRecords :
        LET y == [x EXCEPT !.interrupted = TRUE] IN
        /\ y \in TurnRecords /\ y.text = x.text /\ y.call = x.call /\ y.role = x.role
        /\ y.interrupted = TRUE
  BY DEF TurnRecords
<1>3. DOMAIN r = 1..Len(r) /\ Len(r) \in Nat /\ \A i \in DOMAIN r : r[i] \in TurnRecords
  OBVIOUS
<1> HIDE DEF u, newest
<1>4. \A i \in DOMAIN r :
        /\ u[i] \in TurnRecords /\ u[i].text = r[i].text /\ u[i].call = r[i].call
        /\ u[i].role = r[i].role /\ (newest(i) => u[i].interrupted = TRUE)
  <2> SUFFICES ASSUME NEW i \in DOMAIN r
               PROVE  /\ u[i] \in TurnRecords /\ u[i].text = r[i].text /\ u[i].call = r[i].call
                      /\ u[i].role = r[i].role /\ (newest(i) => u[i].interrupted = TRUE)
    OBVIOUS
  <2>1. u[i] = IF newest(i) THEN [r[i] EXCEPT !.interrupted = TRUE] ELSE r[i] BY <1>1
  <2>2. r[i] \in TurnRecords BY <1>3
  <2>3. CASE newest(i) BY <2>1, <2>2, <2>3, <1>2
  <2>4. CASE ~newest(i) BY <2>1, <2>2, <2>4
  <2> QED BY <2>3, <2>4
<1>5. DOMAIN u = DOMAIN r BY <1>1
<1>6. u \in Seq(TurnRecords)
  <2>1. u \in [1..Len(r) -> TurnRecords] BY <1>1, <1>3, <1>4
  <2> QED BY <2>1, <1>3
<1>7. r = << >> => u = << >>
  <2>1. r = << >> => DOMAIN u = {} BY <1>5
  <2>2. u # << >> => 1 \in DOMAIN u BY <1>6
  <2> QED BY <2>1, <2>2
<1>8. r # << >> => u # << >>
  <2>1. r # << >> => 1 \in DOMAIN u BY <1>5
  <2> QED BY <2>1
<1>9. PiecesOf(u) = PiecesOf(r) BY <1>4, <1>5 DEF PiecesOf
<1>10. Apart(r) => Apart(u) BY <1>4, <1>5 DEF Apart
<1>11. EndsMarked(u)
  <2>1. {i \in DOMAIN u : u[i].role = "assistant"} = own BY <1>4, <1>5
  <2>2. \A i \in own : (\A j \in own : j <= i) => u[i].interrupted
    <3> SUFFICES ASSUME NEW i \in own, \A j \in own : j <= i PROVE u[i].interrupted OBVIOUS
    <3>1. newest(i) BY DEF newest
    <3> QED BY <3>1, <1>4
  <2> QED BY <2>1, <2>2 DEF EndsMarked
<1> QED BY <1>4, <1>5, <1>6, <1>7, <1>8, <1>9, <1>10, <1>11 DEF u

(* What finish_turn adds does not touch the calls that are recorded.        *)
LEMMA FinishedShape ==
  ASSUME TypesHold, NEW cut \in BOOLEAN,
         NEW body, body = transcript.body, NEW new, new = FinishedBody(body, cut)
  PROVE  /\ new \in Seq(TurnRecords)
         /\ \A k \in DOMAIN body : k \in DOMAIN new /\ new[k].call = body[k].call
         /\ \A k \in DOMAIN new : new[k].call # << >> =>
              k \in DOMAIN body /\ new[k].call = body[k].call
         /\ PiecesOf(new) \subseteq Kept \cup Pieces(state.final) \cup Pieces(state.pending)
<1>1. /\ body \in Seq(TurnRecords) /\ state.final \in Seq(Nat) /\ state.pending \in Seq(Nat)
      /\ << >> \in Seq(Nat) /\ Kept = PiecesOf(body)
  BY DEF TypesHold, Kept
<1>2. ASSUME NEW text \in Seq(Nat), NEW c \in BOOLEAN, new = Append(body, Assistant(text, c)),
             Pieces(text) \subseteq Pieces(state.final) \cup Pieces(state.pending)
      PROVE  /\ new \in Seq(TurnRecords)
             /\ \A k \in DOMAIN body : k \in DOMAIN new /\ new[k].call = body[k].call
             /\ \A k \in DOMAIN new : new[k].call # << >> =>
                  k \in DOMAIN body /\ new[k].call = body[k].call
             /\ PiecesOf(new) \subseteq Kept \cup Pieces(state.final) \cup Pieces(state.pending)
  <2> DEFINE x == Assistant(text, c)
  <2>1. x \in TurnRecords /\ x.text = text /\ x.call = << >> BY RecordFacts
  <2> HIDE DEF x
  <2>2. new = Append(body, x) BY <1>2 DEF x
  <2>3. /\ new \in Seq(TurnRecords) /\ DOMAIN new = DOMAIN body \cup {Len(body) + 1}
        /\ \A i \in DOMAIN body : new[i] = body[i]
        /\ new[Len(body) + 1] = x
    BY <2>1, <2>2, <1>1, AppendFacts
  <2>4. PiecesOf(new) = PiecesOf(body) \cup Pieces(text) BY <2>1, <2>2, <1>1, GrownRecords
  <2> QED BY <2>1, <2>3, <2>4, <1>1, <1>2
<1>3. CASE state.final # << >> BY <1>1, <1>2, <1>3 DEF FinishedBody
<1>4. CASE state.final = << >> /\ state.pending # << >> BY <1>1, <1>2, <1>4 DEF FinishedBody
<1>5. CASE state.final = << >> /\ state.pending = << >> /\ state.attached
  <2>1. Pieces(<< >>) = {} BY DEF Pieces
  <2> QED BY <1>1, <1>2, <1>5, <2>1 DEF FinishedBody
<1>6. CASE state.final = << >> /\ state.pending = << >> /\ ~state.attached /\ cut
  <2>1. new = Marked(body) BY <1>6 DEF FinishedBody
  <2> QED BY <2>1, <1>1, MarkedFacts
<1>7. CASE state.final = << >> /\ state.pending = << >> /\ ~state.attached /\ ~cut
  <2>1. new = body BY <1>7 DEF FinishedBody
  <2> QED BY <2>1, <1>1
<1> QED BY <1>3, <1>4, <1>5, <1>6, <1>7

(* finish_turn, when the turn ends for the first time: the record it leaves *)
(* says what the turn's status promises.                                   *)
LEMMA FinishedTells ==
  ASSUME TypesHold, FinishText, turnPc = "finish", events = << >>,
         outcome.status # "failed" => \A call \in executed : Recording(call),
         NEW body, body = transcript.body,
         NEW cut \in BOOLEAN, cut <=> outcome.status = "cancelled",
         NEW new, new = FinishedBody(body, cut)
  PROVE  Tells(outcome.status, new)
<1>1. /\ body \in Seq(TurnRecords) /\ state.final \in Seq(Nat) /\ state.pending \in Seq(Nat)
      /\ state.text \in Seq(Nat) /\ Kept = PiecesOf(body) /\ << >> \in Seq(Nat)
  BY DEF TypesHold, Kept
<1>2. /\ Whole(body) /\ Apart(body)
      /\ Told(state.final) \cap PiecesOf(body) = {} /\ Told(state.pending) \cap PiecesOf(body) = {}
      /\ (outcome.status = "cancelled" /\ request.recoveries = 0 =>
            state.final = << >> /\ Told(state.text) \subseteq PiecesOf(body) \cup Pieces(state.pending))
      /\ (outcome.status \notin {"cancelled", "failed"} =>
            state.pending = << >> /\ (state.final # << >> \/ Told(state.text) \subseteq PiecesOf(body)))
  BY <1>1 DEF FinishText
<1>3. /\ \A k \in DOMAIN body : k \in DOMAIN new /\ new[k].call = body[k].call
  BY FinishedShape
<1>4. outcome.status # "failed" => \A call \in executed : \E i \in DOMAIN new : new[i].call = call
  BY <1>3 DEF Recording
<1>5. Pieces(<< >>) = {} /\ Told(<< >>) = {} BY DEF Pieces, Told
<1>6. ASSUME NEW text \in Seq(Nat), NEW c \in BOOLEAN, new = Append(body, Assistant(text, c)),
             Told(text) \cap PiecesOf(body) = {},
             outcome.status = "cancelled" /\ request.recoveries = 0 =>
               Told(state.text) \subseteq PiecesOf(body) \cup Pieces(text),
             outcome.status = "cancelled" /\ ~state.attached => c = TRUE,
             outcome.status \notin {"cancelled", "failed"} =>
               Told(ShownText) \subseteq PiecesOf(body) \/ (Told(ShownText) \subseteq Pieces(text) /\ c = FALSE)
      PROVE  Tells(outcome.status, new)
  <2> DEFINE x == Assistant(text, c)
             last == Len(body) + 1
  <2>1. /\ x \in TurnRecords /\ x.text = text /\ x.call = << >>
        /\ x.role = "assistant" /\ x.interrupted = c
    BY RecordFacts
  <2> HIDE DEF x
  <2>2. new = Append(body, x) BY <1>6 DEF x
  <2>3. /\ DOMAIN new = DOMAIN body \cup {last} /\ last \notin DOMAIN body
        /\ DOMAIN body = 1..Len(body) /\ Len(body) \in Nat
        /\ \A i \in DOMAIN body : new[i] = body[i]
        /\ new[last] = x
    BY <2>1, <2>2, <1>1, AppendFacts
  <2>4. PiecesOf(new) = PiecesOf(body) \cup Pieces(text) BY <2>1, <2>2, <1>1, GrownRecords
  <2>5. Apart(new) BY <2>1, <2>2, <1>1, <1>2, <1>6, GrownRecords
  <2>6. outcome.status = "cancelled" /\ ~state.attached => EndsMarked(new)
    <3> SUFFICES ASSUME outcome.status = "cancelled", ~state.attached,
                        NEW i \in DOMAIN new, new[i].role = "assistant",
                        \A j \in {j \in DOMAIN new : new[j].role = "assistant"} : j <= i
                 PROVE  new[i].interrupted
      BY DEF EndsMarked
    <3>1. last \in DOMAIN new /\ new[last].role = "assistant" BY <2>1, <2>3
    <3>2. last <= i BY <3>1
    <3>3. \A n \in Nat : \A k \in 1..n : ~(n + 1 <= k) OBVIOUS
    <3>4. i = last BY <3>2, <3>3, <2>3
    <3> QED BY <3>4, <2>1, <2>3, <1>6
  <2>7. ASSUME outcome.status \notin {"cancelled", "failed"}, NEW piece \in Told(ShownText)
        PROVE  \E i \in DOMAIN new : piece \in Pieces(new[i].text) /\ ~new[i].interrupted
    <3>1. CASE piece \in PiecesOf(body)
      <4>1. PICK i \in DOMAIN body : piece \in Pieces(body[i].text) BY <3>1 DEF PiecesOf
      <4>2. ~body[i].interrupted BY <1>2 DEF Whole
      <4> QED BY <4>1, <4>2, <2>3
    <3>2. CASE piece \in Pieces(text) /\ c = FALSE BY <3>2, <2>1, <2>3
    <3> QED BY <3>1, <3>2, <2>7, <1>6
  <2>8. outcome.status = "cancelled" /\ request.recoveries = 0 => Told(state.text) \subseteq PiecesOf(new)
    BY <2>4, <1>6
  <2> QED BY <1>4, <2>5, <2>6, <2>7, <2>8 DEF Tells
<1>7. CASE state.final # << >>
  <2>1. new = Append(body, Assistant(state.final, cut)) BY <1>7 DEF FinishedBody
  <2>2. ShownText = state.final BY <1>7 DEF ShownText
  <2>3. Told(ShownText) \subseteq Pieces(state.final) BY <2>2 DEF Told
  <2> QED BY <2>1, <2>3, <1>1, <1>2, <1>6, <1>7
<1>8. CASE state.final = << >> /\ state.pending # << >>
  <2>1. new = Append(body, Assistant(state.pending, TRUE)) BY <1>8 DEF FinishedBody
  <2> QED BY <2>1, <1>1, <1>2, <1>6, <1>8
<1>9. CASE state.final = << >> /\ state.pending = << >> /\ state.attached
  <2>1. new = Append(body, Assistant(<< >>, FALSE)) BY <1>9 DEF FinishedBody
  <2>2. ShownText = state.text BY <1>9 DEF ShownText
  <2> QED BY <2>1, <2>2, <1>1, <1>2, <1>5, <1>6, <1>9
<1>10. CASE state.final = << >> /\ state.pending = << >> /\ ~state.attached /\ cut
  <2>1. new = Marked(body) BY <1>10 DEF FinishedBody
  <2>2. Apart(new) /\ PiecesOf(new) = PiecesOf(body) /\ EndsMarked(new) BY <2>1, <1>1, <1>2, MarkedFacts
  <2>3. outcome.status = "cancelled" /\ request.recoveries = 0 => Told(state.text) \subseteq PiecesOf(new)
    BY <2>2, <1>2, <1>5, <1>10
  <2>4. outcome.status = "cancelled" BY <1>10
  <2> QED BY <2>2, <2>3, <2>4, <1>4 DEF Tells
<1>11. CASE state.final = << >> /\ state.pending = << >> /\ ~state.attached /\ ~cut
  <2>1. new = body BY <1>11 DEF FinishedBody
  <2>2. ShownText = state.text BY <1>11 DEF ShownText
  <2>3. ASSUME outcome.status \notin {"cancelled", "failed"}, NEW piece \in Told(ShownText)
        PROVE  \E i \in DOMAIN new : piece \in Pieces(new[i].text) /\ ~new[i].interrupted
    <3>1. piece \in PiecesOf(body) BY <2>2, <2>3, <1>2, <1>11
    <3>2. PICK i \in DOMAIN body : piece \in Pieces(body[i].text) BY <3>1 DEF PiecesOf
    <3> QED BY <3>2, <2>1, <1>2 DEF Whole
  <2>4. outcome.status # "cancelled" BY <1>11
  <2> QED BY <2>1, <2>3, <2>4, <1>2, <1>4 DEF Tells
<1> QED BY <1>7, <1>8, <1>9, <1>10, <1>11

(* The user's message in front of the records changes none of it.           *)
LEMMA SavedTells ==
  ASSUME NEW r \in Seq(TurnRecords), NEW status, Tells(status, r)
  PROVE  <<UserInput>> \o r \in Seq(TurnRecords) /\ Tells(status, <<UserInput>> \o r)
<1> DEFINE u == <<UserInput>> \o r
<1>1. /\ UserInput \in TurnRecords /\ UserInput.text = << >> /\ UserInput.call = << >>
      /\ UserInput.role = "user" /\ Pieces(<< >>) = {}
  BY RecordFacts DEF Pieces
<1>2. /\ u \in Seq(TurnRecords) /\ DOMAIN u = 1..(Len(r) + 1) /\ u[1] = UserInput
      /\ DOMAIN r = 1..Len(r) /\ Len(r) \in Nat
      /\ \A i \in DOMAIN r : u[i + 1] = r[i]
  BY <1>1
<1>3. \A n \in Nat : \A i \in 1..(n + 1) : i = 1 \/ (i - 1 \in 1..n /\ i = (i - 1) + 1)
  OBVIOUS
<1>4. \A n \in Nat : \A i \in 1..n : i + 1 \in 1..(n + 1) OBVIOUS
<1> HIDE DEF u
<1>5. \A k \in DOMAIN u : k = 1 \/ \E i \in DOMAIN r : k = i + 1 /\ u[k] = r[i]
  <2> SUFFICES ASSUME NEW k \in DOMAIN u, k # 1 PROVE \E i \in DOMAIN r : k = i + 1 /\ u[k] = r[i]
    OBVIOUS
  <2>1. k - 1 \in DOMAIN r /\ k = (k - 1) + 1 BY <1>2, <1>3
  <2> QED BY <2>1, <1>2
<1>6. \A i \in DOMAIN r : i + 1 \in DOMAIN u /\ u[i + 1] = r[i] BY <1>2, <1>4
<1>7. PiecesOf(u) = PiecesOf(r)
  <2>1. PiecesOf(u) \subseteq PiecesOf(r)
    <3> SUFFICES ASSUME NEW k \in DOMAIN u, NEW x \in Pieces(u[k].text) PROVE x \in PiecesOf(r)
      BY DEF PiecesOf
    <3>1. k # 1 BY <1>1, <1>2
    <3> QED BY <3>1, <1>5 DEF PiecesOf
  <2>2. PiecesOf(r) \subseteq PiecesOf(u) BY <1>6 DEF PiecesOf
  <2> QED BY <2>1, <2>2
<1>8. Apart(u)
  <2>0. Apart(r) BY DEF Tells
  <2> SUFFICES ASSUME NEW k \in DOMAIN u, NEW l \in DOMAIN u, k # l
               PROVE  /\ (Pieces(u[k].text) \cap Pieces(u[l].text)) \ {0} = {}
                      /\ u[k].call # << >> => u[k].call # u[l].call
    BY DEF Apart
  <2>1. CASE k = 1
    <3>1. Pieces(u[k].text) = {} /\ u[k].call = << >> BY <2>1, <1>1, <1>2
    <3> QED BY <3>1
  <2>2. CASE l = 1
    <3>1. Pieces(u[l].text) = {} /\ u[l].call = << >> BY <2>2, <1>1, <1>2
    <3> QED BY <3>1
  <2>3. CASE k # 1 /\ l # 1
    <3>1. PICK i \in DOMAIN r : k = i + 1 /\ u[k] = r[i] BY <2>3, <1>5
    <3>2. PICK j \in DOMAIN r : l = j + 1 /\ u[l] = r[j] BY <2>3, <1>5
    <3>3. i # j BY <3>1, <3>2
    <3> QED BY <3>1, <3>2, <3>3, <2>0 DEF Apart
  <2> QED BY <2>1, <2>2, <2>3
<1>9. EndsMarked(r) => EndsMarked(u)
  <2> SUFFICES ASSUME EndsMarked(r), NEW k \in DOMAIN u, u[k].role = "assistant",
                      \A l \in {l \in DOMAIN u : u[l].role = "assistant"} : l <= k
               PROVE  u[k].interrupted
    BY DEF EndsMarked
  <2>1. k # 1 BY <1>1, <1>2
  <2>2. PICK i \in DOMAIN r : k = i + 1 /\ u[k] = r[i] BY <2>1, <1>5
  <2>3. \A j \in DOMAIN r : r[j].role = "assistant" => j <= i
    <3> SUFFICES ASSUME NEW j \in DOMAIN r, r[j].role = "assistant" PROVE j <= i OBVIOUS
    <3>1. j + 1 <= i + 1 BY <1>6, <2>2
    <3> QED BY <3>1, <1>2
  <2> QED BY <2>2, <2>3 DEF EndsMarked
<1>10. (\A call \in executed : \E i \in DOMAIN r : r[i].call = call)
         => \A call \in executed : \E i \in DOMAIN u : u[i].call = call
  BY <1>6
<1>11. (\A piece \in Told(ShownText) : \E i \in DOMAIN r : piece \in Pieces(r[i].text) /\ ~r[i].interrupted)
         => \A piece \in Told(ShownText) : \E i \in DOMAIN u : piece \in Pieces(u[i].text) /\ ~u[i].interrupted
  BY <1>6
<1>12. Tells(status, u) BY <1>7, <1>8, <1>9, <1>10, <1>11 DEF Tells
<1> QED BY <1>2, <1>12 DEF u
-----------------------------------------------------------------------------
LEMMA InitHolds == TurnInit => IInv
<1> SUFFICES ASSUME TurnInit PROVE IInv OBVIOUS
<1> USE DEF TurnInit
<1>0. /\ turnPc = "turn_start" /\ tool = << >> /\ executed = {} /\ completed = << >>
      /\ events = << >> /\ history = << >> /\ frames = << >>
      /\ state.text = << >> /\ state.pending = << >> /\ state.final = << >>
      /\ request.messages = << >> /\ request.answer = << >> /\ transcript.body = << >>
      /\ ledger.tool_calls = 0 /\ produced = 0 /\ DOMAIN << >> = {}
      /\ Pieces(<< >>) = {} /\ PiecesOf(<< >>) = {}
  BY DEF Pieces, PiecesOf
<1>1. TypesHold
  <2>1. \A T : << >> \in Seq(T) OBVIOUS
  <2>2. /\ ledger.iterations \in 0..MaxIterations /\ ledger.tool_calls \in 0..MaxToolCalls
        /\ request.recoveries \in 0..MaxRecoveries
    BY TurnAssumption
  <2>3. completed \in Seq(DOMAIN tool) BY <2>1
  <2>4. turnPc \in Suspended BY DEF Suspended
  <2>5. stream \in BOOLEAN /\ expired \in BOOLEAN /\ handler \in BOOLEAN /\ turnToken = "none"
    OBVIOUS
  <2>6. outcome.status = "none" /\ outcome.reason = "none" OBVIOUS
  <2>7. TurnTypeOK
    <3> HIDE DEF TurnInit
    <3> QED BY <2>2, <2>3, <2>4, <2>5, <2>6 DEF TurnTypeOK
  <2> QED BY <2>1, <2>7 DEF TypesHold
<1>2. BudgetHolds
  <2>1. executed \cup Reserved = {} BY <1>0 DEF Reserved
  <2>2. IsFiniteSet({}) /\ Cardinality({}) = 0 BY FS_EmptySet
  <2>3. IsFiniteSet(executed \cup Reserved) /\ Cardinality(executed \cup Reserved) = 0 BY <2>1, <2>2
  <2> HIDE DEF TurnInit
  <2> QED BY <1>0, <2>3 DEF BudgetHolds
<1>3. CalmHolds BY <1>0 DEF CalmHolds, Settled
<1>4. PhaseHolds /\ BarrierHolds BY <1>0 DEF PhaseHolds, BarrierHolds
<1>5. MessagesHold BY <1>0 DEF MessagesHold
<1>6. ExecutedHolds /\ CallsHold BY <1>0 DEF ExecutedHolds, CallsHold
<1>7. TextHolds
  <2>1. Told(<< >>) = {} /\ Kept = {} BY <1>0 DEF Told, Kept
  <2>2. PiecesBounded BY <1>0, <2>1 DEF PiecesBounded
  <2>3. EarlyText BY <1>0, <2>1 DEF EarlyText
  <2>4. LiveText /\ FinishText BY <1>0 DEF LiveText, FinishText, Live
  <2> QED BY <2>2, <2>3, <2>4 DEF TextHolds
<1>8. EndHolds BY <1>0 DEF EndHolds, Closed
<1> QED BY <1>1, <1>2, <1>3, <1>4, <1>5, <1>6, <1>7, <1>8 DEF IInv

(* What stays as it is when a step leaves its variables alone.              *)

LEMMA BudgetKept ==
  ASSUME BudgetHolds, UNCHANGED <<ledger, tool, executed>> PROVE BudgetHolds'
BY DEF BudgetHolds, Reserved

LEMMA ExecutedKept ==
  ASSUME ExecutedHolds, UNCHANGED <<ledger, tool, executed>>,
         \A k \in DOMAIN transcript.body :
           k \in DOMAIN transcript.body' /\ transcript.body'[k].call = transcript.body[k].call
  PROVE  ExecutedHolds'
<1> SUFFICES ASSUME NEW call \in executed PROVE (Recording(call) \/ Pursued(call))'
  BY DEF ExecutedHolds
<1>1. Pursued(call) => Pursued(call)' BY DEF Pursued
<1>2. Recording(call) => Recording(call)' BY DEF Recording
<1> QED BY <1>1, <1>2 DEF ExecutedHolds

LEMMA EndQuiet ==
  ASSUME EndHolds, turnPc \in Early \cup Live, UNCHANGED publicVars,
         turnPc' \in Early \cup Live \cup {"finish"}
  PROVE  EndHolds' /\ events = << >> /\ events' = << >>
<1>1. events = << >> /\ events' = << >> /\ history' = << >> /\ frames' = << >>
  BY DEF EndHolds, publicVars
<1>2. turnPc' \notin {"turn_end", "done", "append"} BY DEF Early, Live
<1> QED BY <1>1, <1>2 DEF EndHolds, Closed

(* Before and between tool phases nothing is under way, and a step that     *)
(* touches neither the calls nor the messages leaves all about them as is. *)
LEMMA CalmMove ==
  ASSUME IInv, turnPc \in Early \cup Live, turnPc # "tools",
         turnPc' \in Early \cup Live \cup {"finish"}, turnPc' # "tools",
         UNCHANGED <<ledger, tool, executed, publicVars>>,
         transcript'.body = transcript.body, request'.messages = request.messages,
         turnPc' \in Early \cup {"loop"} => turnPc \in Early,
         turnPc' \in {"before_model", "model", "after_model"} =>
           turnPc \in {"before_model", "model", "after_model"}
  PROVE  /\ BudgetHolds' /\ CalmHolds' /\ PhaseHolds' /\ BarrierHolds' /\ MessagesHold'
         /\ ExecutedHolds' /\ CallsHold' /\ EndHolds'
         /\ events = << >> /\ events' = << >> /\ Settled
<1>1. BudgetHolds' BY BudgetKept DEF IInv
<1>2. Settled BY DEF IInv, CalmHolds, Early, Live, Ending
<1>3. CalmHolds' BY <1>2 DEF CalmHolds, Settled
<1>4. PhaseHolds' /\ BarrierHolds' BY DEF PhaseHolds, BarrierHolds
<1>5. MessagesHold'
  <2>1. turnPc' \in Early \cup {"loop", "before_model", "model", "after_model"} =>
          \A p \in DOMAIN request.messages : Followed(request.messages, p)
    BY DEF IInv, MessagesHold
  <2>2. ASSUME NEW p \in DOMAIN request.messages, Followed(request.messages, p)
        PROVE  Followed(request.messages, p)'
    BY <2>2 DEF Followed
  <2> QED BY <2>1, <2>2 DEF MessagesHold
<1>6. ExecutedHolds' BY ExecutedKept DEF IInv
<1>7. CallsHold'
  <2>1. CallsHold BY DEF IInv
  <2> QED BY <2>1 DEF CallsHold
<1>8. EndHolds' /\ events = << >> /\ events' = << >> BY EndQuiet DEF IInv
<1> QED BY <1>1, <1>2, <1>3, <1>4, <1>5, <1>6, <1>7, <1>8

(* A turn that fails or is cancelled before it has an answer.               *)
LEMMA TextEnds ==
  ASSUME TextHolds, turnPc \in Early \cup Live, turnPc # "wrap_up", turnPc' = "finish",
         outcome'.status \in {"failed", "cancelled"}, TypesHold,
         UNCHANGED <<state, transcript, request, produced>>
  PROVE  TextHolds'
<1>0. Kept' = Kept /\ \A s : Told(s)' = Told(s) BY DEF Kept, Told
<1>1. PiecesBounded' BY <1>0 DEF TextHolds, PiecesBounded
<1>2. EarlyText' /\ LiveText' BY DEF EarlyText, LiveText, Early, Live
<1>3. Told(<< >>) = {} /\ Pieces(<< >>) = {} /\ (transcript.body = << >> => Kept = {})
  BY DEF Told, Pieces, Kept, PiecesOf
<1>4. CASE turnPc \in Early
  <2>1. /\ state.pending = << >> /\ state.final = << >> /\ Told(state.text) = {}
        /\ transcript.body = << >>
    BY <1>4 DEF TextHolds, EarlyText
  <2>2. Whole(<< >>) /\ Apart(<< >>) BY DEF Whole, Apart
  <2> QED BY <1>0, <1>1, <1>2, <1>3, <2>1, <2>2 DEF TextHolds, FinishText
<1>5. CASE turnPc \in Live
  <2>1. /\ Whole(transcript.body) /\ Apart(transcript.body)
        /\ Told(state.final) \cap Kept = {}
        /\ (request.recoveries = 0 => state.final = << >>)
        /\ Told(state.text) \subseteq Kept \cup Pieces(state.final) \cup Pieces(state.pending)
        /\ (turnPc \notin {"model", "after_model"} => state.pending = << >>)
        /\ (turnPc \in {"model", "after_model"} =>
             /\ Pieces(state.pending) \subseteq Pieces(request.answer)
             /\ Told(request.answer) \cap (Kept \cup Pieces(state.final)) = {})
    BY <1>5 DEF TextHolds, LiveText
  <2>2. Told(state.pending) \cap Kept = {}
    <3>1. CASE turnPc \in {"model", "after_model"}
      <4>1. Told(state.pending) \subseteq Told(request.answer) BY <3>1, <2>1 DEF Told
      <4> QED BY <4>1, <3>1, <2>1
    <3>2. CASE turnPc \notin {"model", "after_model"} BY <3>2, <2>1, <1>3
    <3> QED BY <3>1, <3>2
  <2>3. request.recoveries = 0 => Told(state.text) \subseteq Kept \cup Pieces(state.pending)
    BY <2>1, <1>3
  <2> QED BY <1>0, <1>1, <1>2, <2>1, <2>2, <2>3 DEF TextHolds, FinishText
<1> QED BY <1>4, <1>5

(* The clock, a request to cancel and the end of a task by force.           *)
LEMMA PassiveStep ==
  ASSUME IInv, turnPc' = turnPc \/ turnPc' = "killed",
         turnToken' \in Reasons \cup {"none"}, expired' \in BOOLEAN,
         UNCHANGED <<stream, engineVars, state, transcript, outcome, handler, produced, publicVars>>
  PROVE  IInv'
<1>1. /\ UNCHANGED <<stream, ledger, request, tool, completed, executed, state, transcript>>
      /\ UNCHANGED <<outcome, handler, produced, history, events, frames>>
  BY DEF engineVars, publicVars
<1>2. TypesHold'
  <2>1. TypesHold BY DEF IInv
  <2>2. turnPc' \in Suspended \cup TurnOver \cup {"loop", "finish"}
    BY <2>1 DEF TypesHold, TurnTypeOK, TurnOver
  <2>3. TurnTypeOK' BY <1>1, <2>1, <2>2 DEF TypesHold, TurnTypeOK
  <2> QED BY <1>1, <2>1, <2>3 DEF TypesHold
<1>3. BudgetHolds' BY <1>1, BudgetKept DEF IInv
<1>4. CalmHolds'
  <2>1. CalmHolds BY DEF IInv
  <2> QED BY <1>1, <2>1 DEF CalmHolds, Settled
<1>5. PhaseHolds'
  <2>1. PhaseHolds BY DEF IInv
  <2> QED BY <1>1, <2>1 DEF PhaseHolds
<1>6. BarrierHolds'
  <2>1. BarrierHolds BY DEF IInv
  <2> QED BY <1>1, <2>1 DEF BarrierHolds
<1>7. MessagesHold'
  <2>1. MessagesHold BY DEF IInv
  <2> QED BY <1>1, <2>1 DEF MessagesHold, Followed, Early
<1>8. ExecutedHolds' BY <1>1, ExecutedKept DEF IInv
<1>9. CallsHold'
  <2>1. CallsHold BY DEF IInv
  <2> QED BY <1>1, <2>1 DEF CallsHold
<1>10. TextHolds'
  <2>1. TextHolds BY DEF IInv
  <2>2. Kept' = Kept /\ \A s : Told(s)' = Told(s) BY <1>1 DEF Kept, Told
  <2>3. PiecesBounded' BY <1>1, <2>1, <2>2 DEF TextHolds, PiecesBounded
  <2>4. EarlyText' BY <1>1, <2>1, <2>2 DEF TextHolds, EarlyText, Early
  <2>5. LiveText' BY <1>1, <2>1, <2>2 DEF TextHolds, LiveText, Live
  <2>6. FinishText' BY <1>1, <2>1, <2>2 DEF TextHolds, FinishText
  <2> QED BY <2>3, <2>4, <2>5, <2>6 DEF TextHolds
<1>11. EndHolds'
  <2>1. EndHolds BY DEF IInv
  <2>2. \A status, records : Tells(status, records)' <=> Tells(status, records)
    BY <1>1 DEF Tells, ShownText
  <2>3. CASE turnPc' = turnPc
    <3>1. Closed' = Closed /\ AnnouncedIsSaved' = AnnouncedIsSaved
      BY <1>1, <2>3 DEF Closed, AnnouncedIsSaved
    <3> QED BY <1>1, <2>1, <2>2, <2>3, <3>1 DEF EndHolds
  <2>4. CASE turnPc' = "killed"
    <3>1. ~Closed' /\ turnPc' \notin Early \cup Live BY <2>4 DEF Closed, Early, Live
    <3> QED BY <1>1, <2>1, <2>4, <3>1 DEF EndHolds
  <2> QED BY <2>3, <2>4
<1> QED BY <1>2, <1>3, <1>4, <1>5, <1>6, <1>7, <1>8, <1>9, <1>10, <1>11 DEF IInv

(* Types of a step that leaves most of the turn's state alone.              *)
LEMMA TypesMove ==
  ASSUME TypesHold, turnPc' \in Suspended \cup TurnOver \cup {"loop", "finish"},
         turnToken' \in Reasons \cup {"none"}, expired' \in BOOLEAN, handler' \in BOOLEAN,
         outcome' \in [status : Statuses \cup {"none"}, reason : Reasons \cup {"none", "budget"}],
         outcome'.status = "cancelled" <=> outcome'.reason # "none",
         UNCHANGED <<stream, ledger, tool, completed, history>>,
         events' \in Seq(Statuses \cup {"none"}),
         state' \in [text : Seq(Nat), pending : Seq(Nat), final : Seq(Nat),
                     attached : BOOLEAN, truncated : BOOLEAN],
         transcript' \in [user : BOOLEAN, body : Seq(TurnRecords)],
         request' \in [messages : Seq({"assistant", "tool"} \X Nat \X Nat), recoveries : Nat,
                       answer : Seq(Nat), calls : Seq(ToolKinds),
                       stop : {"none", "end_turn", "max_tokens", "tool_calls"}],
         request'.recoveries \in 0..MaxRecoveries,
         produced' \in Nat,
         frames' \in Seq([text : Seq(Nat), stream_state : {"cancelled", "failed", "final"}])
  PROVE  TypesHold'
<1>1. outcome'.status \in Statuses \cup {"none"} OBVIOUS
<1>2. TurnTypeOK' BY <1>1 DEF TypesHold, TurnTypeOK
<1> QED BY <1>2 DEF TypesHold

(* A turn that fails or is cancelled on its way.                            *)
LEMMA EndsStep ==
  ASSUME IInv, turnPc \in Early \cup {"loop", "before_model", "model", "after_model"},
         turnPc' = "finish", turnToken' \in Reasons \cup {"none"}, handler' \in BOOLEAN,
         NEW s \in {"failed", "cancelled"}, NEW r \in Reasons \cup {"none", "budget"},
         s = "cancelled" <=> r # "none", outcome' = [status |-> s, reason |-> r],
         UNCHANGED <<stream, expired, engineVars, state, transcript, produced, publicVars>>
  PROVE  IInv'
<1>0. /\ UNCHANGED <<stream, expired, ledger, request, tool, completed, executed, state, transcript>>
      /\ UNCHANGED <<produced, history, events, frames>>
  BY DEF engineVars, publicVars
<1>1. outcome'.status = s /\ outcome'.reason = r OBVIOUS
<1>2. TypesHold BY DEF IInv
<1>3. outcome' \in [status : Statuses \cup {"none"}, reason : Reasons \cup {"none", "budget"}]
  BY DEF Statuses
<1>4. TypesHold'
  BY <1>0, <1>1, <1>2, <1>3, TypesMove DEF TypesHold, TurnTypeOK
<1>5. turnPc \in Early \cup Live /\ turnPc # "tools" /\ turnPc # "wrap_up" BY DEF Early, Live
<1>6. /\ BudgetHolds' /\ CalmHolds' /\ PhaseHolds' /\ BarrierHolds' /\ MessagesHold'
      /\ ExecutedHolds' /\ CallsHold' /\ EndHolds'
  BY <1>0, <1>5, CalmMove DEF Early
<1>7. TextHolds'
  <2>1. TextHolds BY DEF IInv
  <2>2. UNCHANGED <<state, transcript, request, produced>> BY <1>0
  <2> QED BY <1>1, <1>2, <1>5, <2>1, <2>2, TextEnds
<1> QED BY <1>4, <1>6, <1>7 DEF IInv

(* Steps that only move on.                                                 *)
LEMMA MovesOn ==
  ASSUME IInv,
         \/ turnPc \in Early /\ turnPc' \in Early \cup {"loop"}
         \/ turnPc = "before_model" /\ turnPc' = "model",
         transcript'.body = transcript.body, transcript' \in [user : BOOLEAN, body : Seq(TurnRecords)],
         UNCHANGED <<stream, turnToken, expired, engineVars, outcome, handler, produced, publicVars>>,
         \/ state' = state
         \/ turnPc \in Early /\ \E text \in {<< >>, << 0 >>} : state' = [state EXCEPT !.text = text]
  PROVE  IInv'
<1>0. /\ UNCHANGED <<stream, turnToken, expired, ledger, request, tool, completed, executed>>
      /\ UNCHANGED <<outcome, handler, produced, history, events, frames>>
  BY DEF engineVars, publicVars
<1>1. TypesHold /\ TextHolds BY DEF IInv
<1>2. << >> \in Seq(Nat) /\ << 0 >> \in Seq(Nat) /\ Told(<< >>) = {} /\ Told(<< 0 >>) = {}
      /\ Pieces(<< >>) = {} /\ Pieces(<< 0 >>) = {0}
  BY DEF Told, Pieces
<1>3. /\ state' \in [text : Seq(Nat), pending : Seq(Nat), final : Seq(Nat),
                     attached : BOOLEAN, truncated : BOOLEAN]
      /\ state'.pending = state.pending /\ state'.final = state.final
      /\ state'.text = state.text \/ (turnPc \in Early /\ state'.text \in {<< >>, << 0 >>})
  <2>1. state \in [text : Seq(Nat), pending : Seq(Nat), final : Seq(Nat),
                   attached : BOOLEAN, truncated : BOOLEAN] BY <1>1 DEF TypesHold
  <2>2. CASE state' = state BY <2>1, <2>2
  <2>3. ASSUME NEW text \in {<< >>, << 0 >>}, state' = [state EXCEPT !.text = text], turnPc \in Early
        PROVE  <1>3
    <3>1. text \in Seq(Nat) BY <1>2, <2>3
    <3> QED BY <2>1, <2>3, <3>1
  <2> QED BY <2>2, <2>3
<1>4. turnPc' \in Suspended \cup TurnOver \cup {"loop", "finish"} BY DEF Early, Suspended, EngineWait
<1>5. TypesHold'
  BY <1>0, <1>1, <1>3, <1>4, TypesMove DEF TypesHold, TurnTypeOK
<1>6. /\ BudgetHolds' /\ CalmHolds' /\ PhaseHolds' /\ BarrierHolds' /\ MessagesHold'
      /\ ExecutedHolds' /\ CallsHold' /\ EndHolds'
  <2>1. turnPc \in Early \cup Live /\ turnPc # "tools" BY DEF Early, Live
  <2>2. turnPc' \in Early \cup Live \cup {"finish"} /\ turnPc' # "tools" BY DEF Early, Live
  <2> QED BY <1>0, <2>1, <2>2, CalmMove DEF Early
<1>7. TextHolds'
  <2>0. Kept' = Kept /\ \A s : Told(s)' = Told(s) BY DEF Kept, Told
  <2>1. PiecesBounded'
    <3>1. Pieces(state'.text) \subseteq Pieces(state.text) \cup {0} BY <1>2, <1>3
    <3>2. 0 <= produced BY <1>1 DEF TypesHold
    <3> QED BY <1>0, <1>1, <1>3, <2>0, <3>1, <3>2 DEF TextHolds, PiecesBounded
  <2>2. CASE turnPc \in Early
    <3>1. /\ state.pending = << >> /\ state.final = << >> /\ Told(state.text) = {}
          /\ transcript.body = << >> /\ request.answer = << >>
      BY <1>1, <2>2 DEF TextHolds, EarlyText
    <3>2. Told(state'.text) = {} BY <3>1, <1>2, <1>3
    <3>3. Whole(<< >>) /\ Apart(<< >>) BY DEF Whole, Apart
    <3>4. turnPc' \in Early \cup {"loop"} BY <2>2 DEF Early
    <3>5. EarlyText' BY <1>0, <1>3, <2>0, <3>1, <3>2 DEF EarlyText
    <3>6. LiveText' BY <1>0, <1>2, <1>3, <2>0, <3>1, <3>2, <3>3, <3>4 DEF LiveText, Early, Live
    <3>7. FinishText' BY <3>4 DEF FinishText, Early
    <3> QED BY <2>1, <3>5, <3>6, <3>7 DEF TextHolds
  <2>3. CASE turnPc = "before_model" /\ turnPc' = "model"
    <3>1. state' = state BY <2>3 DEF Early
    <3>2. LiveText BY <1>1 DEF TextHolds
    <3>3. LiveText' BY <1>0, <1>2, <2>0, <2>3, <3>1, <3>2 DEF LiveText, Live
    <3>4. EarlyText' /\ FinishText' BY <2>3 DEF EarlyText, FinishText, Early
    <3> QED BY <2>1, <3>3, <3>4 DEF TextHolds
  <2> QED BY <2>2, <2>3
<1> QED BY <1>5, <1>6, <1>7 DEF IInv

LEMMA TypeFacts ==
  ASSUME IInv
  PROVE  /\ turnToken \in Reasons \cup {"none"} /\ handler \in BOOLEAN
         /\ expired \in BOOLEAN
         /\ \A r : r \in Reasons => r # "none"
         /\ \A r \in Reasons : Requested(r) \in Reasons
         /\ turnToken # "none" => turnToken \in Reasons
BY DEF IInv, TypesHold, TurnTypeOK, Reasons, Requested

LEMMA TurnStartStep == \A rejects \in BOOLEAN : IInv /\ TurnStart(rejects) => IInv'
<1> SUFFICES ASSUME NEW rejects \in BOOLEAN, IInv, TurnStart(rejects) PROVE IInv' OBVIOUS
<1> USE DEF TurnStart
<1>1. CASE rejects
  <2>1. turnPc' = "finish" /\ outcome' = [status |-> "failed", reason |-> "none"] /\ handler' = handler
    BY <1>1 DEF EndWith
  <2> QED BY <2>1, TypeFacts, EndsStep DEF Early
<1>2. CASE ~rejects
  <2>1. turnPc' = "route" /\ outcome' = outcome /\ handler' = handler BY <1>2
  <2>2. transcript \in [user : BOOLEAN, body : Seq(TurnRecords)] BY DEF IInv, TypesHold
  <2> QED BY <2>1, <2>2, MovesOn DEF Early
<1> QED BY <1>1, <1>2

LEMMA RouteStep ==
  \A rejected, model_input \in BOOLEAN, text \in {<< >>, << 0 >>} :
    IInv /\ Route(rejected, text, model_input) => IInv'
<1> SUFFICES ASSUME NEW rejected \in BOOLEAN, NEW model_input \in BOOLEAN, NEW text \in {<< >>, << 0 >>},
                    IInv, Route(rejected, text, model_input)
             PROVE  IInv'
  OBVIOUS
<1>0. /\ turnPc = "route" /\ state' = [state EXCEPT !.text = text]
      /\ UNCHANGED <<stream, turnToken, expired, engineVars, transcript, produced, publicVars>>
      /\ UNCHANGED <<ledger, request, tool, completed, executed, history, events, frames>>
  BY DEF Route, engineVars, publicVars
<1>1. TypesHold /\ TextHolds BY DEF IInv
<1>2. CASE ~rejected /\ model_input
  <2>1. turnPc' = "load" /\ outcome' = outcome /\ handler' = handler BY <1>2 DEF Route
  <2>2. transcript \in [user : BOOLEAN, body : Seq(TurnRecords)] BY <1>1 DEF TypesHold
  <2> QED BY <1>0, <2>1, <2>2, MovesOn DEF Early
<1>3. CASE rejected \/ ~model_input
  <2>1. /\ turnPc' = "finish" /\ handler' = handler /\ outcome'.reason = "none"
        /\ outcome'.status \in {"failed", "completed"}
        /\ outcome' \in [status : Statuses \cup {"none"}, reason : Reasons \cup {"none", "budget"}]
    BY <1>3 DEF Route, EndWith, Statuses
  <2>2. /\ state.pending = << >> /\ state.final = << >>
        /\ transcript.body = << >> /\ request.answer = << >>
    BY <1>0, <1>1 DEF TextHolds, EarlyText, Early
  <2>3. /\ state' \in [text : Seq(Nat), pending : Seq(Nat), final : Seq(Nat),
                       attached : BOOLEAN, truncated : BOOLEAN]
        /\ state'.text = text /\ state'.pending = << >> /\ state'.final = << >>
    <3>1. << >> \in Seq(Nat) /\ << 0 >> \in Seq(Nat) OBVIOUS
    <3>2. text \in Seq(Nat) BY <3>1
    <3> QED BY <1>0, <1>1, <2>2, <3>2 DEF TypesHold
  <2>4. TypesHold' BY <1>0, <1>1, <2>1, <2>3, TypesMove DEF TypesHold, TurnTypeOK
  <2>5. /\ BudgetHolds' /\ CalmHolds' /\ PhaseHolds' /\ BarrierHolds' /\ MessagesHold'
        /\ ExecutedHolds' /\ CallsHold' /\ EndHolds'
    <3>1. turnPc \in Early \cup Live /\ turnPc # "tools" BY <1>0 DEF Early
    <3>2. turnPc' \in Early \cup Live \cup {"finish"} /\ turnPc' # "tools"
          /\ turnPc' \notin Early \cup {"loop"}
      BY <2>1 DEF Early
    <3> QED BY <1>0, <2>1, <3>1, <3>2, CalmMove
  <2>6. TextHolds'
    <3>0. Told(<< >>) = {} /\ Told(<< 0 >>) = {} /\ Pieces(<< >>) = {} /\ Pieces(<< 0 >>) = {0}
          /\ Whole(<< >>) /\ Apart(<< >>) /\ PiecesOf(<< >>) = {}
      BY DEF Told, Pieces, Whole, Apart, PiecesOf
    <3>1. Kept' = {} /\ \A s : Told(s)' = Told(s) BY <1>0, <2>2, <3>0 DEF Kept, Told
    <3>2. Pieces(state'.text) \subseteq {0} /\ Told(state'.text) = {} BY <2>3, <3>0
    <3>3. 0 <= produced BY <1>1 DEF TypesHold
    <3>4. PiecesBounded' BY <1>0, <2>2, <2>3, <3>0, <3>1, <3>2, <3>3 DEF PiecesBounded
    <3>5. FinishText' BY <1>0, <2>1, <2>2, <2>3, <3>0, <3>1, <3>2 DEF FinishText
    <3>6. EarlyText' /\ LiveText' BY <2>1 DEF EarlyText, LiveText, Early, Live
    <3> QED BY <3>4, <3>5, <3>6 DEF TextHolds
  <2> QED BY <2>4, <2>5, <2>6 DEF IInv
<1> QED BY <1>2, <1>3

LEMMA LoadStep == \A ok \in BOOLEAN : IInv /\ Load(ok) => IInv'
<1> SUFFICES ASSUME NEW ok \in BOOLEAN, IInv, Load(ok) PROVE IInv' OBVIOUS
<1> USE DEF Load
<1>1. CASE ~ok
  <2>1. turnPc' = "finish" /\ outcome' = [status |-> "failed", reason |-> "none"] /\ handler' = TRUE
    BY <1>1 DEF RaiseWith
  <2> QED BY <2>1, TypeFacts, EndsStep DEF Early
<1>2. CASE ok /\ turnToken # "none"
  <2>1. turnPc' = "finish" /\ handler' = TRUE
        /\ outcome' = [status |-> "cancelled",
                       reason |-> IF turnToken = "timeout" THEN "budget" ELSE turnToken]
    BY <1>2 DEF RaiseWith
  <2> DEFINE r == IF turnToken = "timeout" THEN "budget" ELSE turnToken
  <2>2. r \in Reasons \cup {"none", "budget"} /\ r # "none" BY <1>2, TypeFacts
  <2> HIDE DEF r
  <2>3. outcome' = [status |-> "cancelled", reason |-> r] BY <2>1 DEF r
  <2> QED BY <2>1, <2>2, <2>3, TypeFacts, EndsStep DEF Early
<1>3. CASE ok /\ turnToken = "none"
  <2>1. turnPc' = "assemble" /\ outcome' = outcome /\ handler' = handler BY <1>3
  <2>2. transcript \in [user : BOOLEAN, body : Seq(TurnRecords)] BY DEF IInv, TypesHold
  <2> QED BY <2>1, <2>2, MovesOn DEF Early
<1> QED BY <1>1, <1>2, <1>3

LEMMA AssembleStep ==
  \A result \in {"ok", "failed", "cancelled"} : IInv /\ Assemble(result) => IInv'
<1> SUFFICES ASSUME NEW result \in {"ok", "failed", "cancelled"}, IInv, Assemble(result) PROVE IInv'
  OBVIOUS
<1> USE DEF Assemble
<1>1. CASE result = "failed"
  <2>1. turnPc' = "finish" /\ outcome' = [status |-> "failed", reason |-> "none"] /\ handler' = TRUE
        /\ transcript' = transcript
    BY <1>1 DEF RaiseWith
  <2> QED BY <2>1, TypeFacts, EndsStep DEF Early
<1>2. CASE result = "cancelled"
  <2>1. turnPc' = "finish" /\ handler' = TRUE /\ turnToken # "none" /\ transcript' = transcript
        /\ outcome' = [status |-> "cancelled",
                       reason |-> IF turnToken = "timeout" THEN "budget" ELSE turnToken]
    BY <1>2 DEF RaiseWith
  <2> DEFINE r == IF turnToken = "timeout" THEN "budget" ELSE turnToken
  <2>2. r \in Reasons \cup {"none", "budget"} /\ r # "none" BY <2>1, TypeFacts
  <2> HIDE DEF r
  <2>3. outcome' = [status |-> "cancelled", reason |-> r] BY <2>1 DEF r
  <2> QED BY <2>1, <2>2, <2>3, TypeFacts, EndsStep DEF Early
<1>3. CASE result = "ok"
  <2>1. turnPc' = "loop" /\ outcome' = outcome /\ handler' = handler
        /\ transcript' = [transcript EXCEPT !.user = TRUE]
    BY <1>3
  <2>2. transcript \in [user : BOOLEAN, body : Seq(TurnRecords)] BY DEF IInv, TypesHold
  <2>3. transcript' \in [user : BOOLEAN, body : Seq(TurnRecords)] /\ transcript'.body = transcript.body
    BY <2>1, <2>2
  <2> QED BY <2>1, <2>3, MovesOn DEF Early
<1> QED BY <1>1, <1>2, <1>3

LEMMA PrepareRequestStep == \A ok \in BOOLEAN : IInv /\ PrepareRequest(ok) => IInv'
<1> SUFFICES ASSUME NEW ok \in BOOLEAN, IInv, PrepareRequest(ok) PROVE IInv' OBVIOUS
<1> USE DEF PrepareRequest
<1>1. CASE ~ok
  <2>1. turnPc' = "finish" /\ outcome' = [status |-> "failed", reason |-> "none"] /\ handler' = handler
    BY <1>1 DEF EndWith
  <2> QED BY <2>1, TypeFacts, EndsStep
<1>2. CASE ok
  <2>1. turnPc' = "model" /\ outcome' = outcome /\ handler' = handler BY <1>2
  <2>2. transcript \in [user : BOOLEAN, body : Seq(TurnRecords)] BY DEF IInv, TypesHold
  <2> QED BY <2>1, <2>2, MovesOn
<1> QED BY <1>1, <1>2

LEMMA ModelFailsStep == \A cancelled \in BOOLEAN : IInv /\ ModelFails(cancelled) => IInv'
<1> SUFFICES ASSUME NEW cancelled \in BOOLEAN, IInv, ModelFails(cancelled) PROVE IInv' OBVIOUS
<1> USE DEF ModelFails
<1>1. CASE ~cancelled
  <2>1. turnPc' = "finish" /\ outcome' = [status |-> "failed", reason |-> "none"] /\ handler' = handler
    BY <1>1 DEF EndWith
  <2> QED BY <2>1, TypeFacts, EndsStep
<1>2. CASE cancelled
  <2> DEFINE r == Requested("user")
  <2>1. r \in Reasons /\ r # "none" BY TypeFacts DEF Reasons
  <2>2. turnPc' = "finish" /\ outcome' = [status |-> "cancelled", reason |-> r] /\ handler' = handler
    BY <1>2 DEF EndWith
  <2> HIDE DEF r
  <2> QED BY <2>1, <2>2, TypeFacts, EndsStep
<1> QED BY <1>1, <1>2

LEMMA CancelledAfterModelStep == IInv /\ CancelledAfterModel => IInv'
<1> SUFFICES ASSUME IInv, CancelledAfterModel PROVE IInv' OBVIOUS
<1> USE DEF CancelledAfterModel
<1>1. turnPc' = "finish" /\ handler' = TRUE /\ turnToken # "none"
      /\ outcome' = [status |-> "cancelled",
                     reason |-> IF turnToken = "timeout" THEN "budget" ELSE turnToken]
  BY DEF RaiseWith
<1> DEFINE r == IF turnToken = "timeout" THEN "budget" ELSE turnToken
<1>2. r \in Reasons \cup {"none", "budget"} /\ r # "none" BY <1>1, TypeFacts
<1> HIDE DEF r
<1>3. outcome' = [status |-> "cancelled", reason |-> r] BY <1>1 DEF r
<1> QED BY <1>1, <1>2, <1>3, TypeFacts, EndsStep

LEMMA BodyFacts ==
  ASSUME TypesHold
  PROVE  /\ transcript.body \in Seq(TurnRecords)
         /\ \A k \in DOMAIN transcript.body :
              /\ transcript.body[k] \in TurnRecords
              /\ transcript.body[k].call # << >> => transcript.body[k].call \in Nat \X Nat
<1>1. transcript.body \in Seq(TurnRecords) BY DEF TypesHold
<1>2. \A k \in DOMAIN transcript.body : transcript.body[k] \in TurnRecords BY <1>1
<1>3. \A x \in TurnRecords : x.call # << >> => x.call \in Nat \X Nat BY DEF TurnRecords
<1> QED BY <1>1, <1>2, <1>3

LEMMA BreachFacts ==
  ASSUME IInv, NEW calls \in Nat
  PROVE  /\ Breach(calls) = "none" =>
              ledger.iterations < MaxIterations /\ ledger.tool_calls + calls <= MaxToolCalls
         /\ StopForBreach(Breach(calls)) =>
              \/ /\ turnPc' = "finish" /\ handler' = handler
                 /\ outcome' = [status |-> "cancelled", reason |-> "timeout"]
                 /\ turnToken' \in Reasons
              \/ /\ turnPc' = "wrap_up" /\ handler' = handler /\ turnToken' = turnToken
                 /\ outcome' = [status |-> "stopped_by_limit", reason |-> "none"]
<1>1. ledger.iterations \in 0..MaxIterations /\ ledger.tool_calls \in 0..MaxToolCalls
  BY DEF IInv, TypesHold, TurnTypeOK
<1>2. MaxIterations \in Nat /\ MaxToolCalls \in Nat BY TurnAssumption
<1>3. Requested("timeout") \in Reasons BY TypeFacts DEF Reasons
<1> QED BY <1>1, <1>2, <1>3 DEF Breach, StopForBreach, EndWith

LEMMA NextIterationStep == IInv /\ NextIteration => IInv'
<1> SUFFICES ASSUME IInv, NextIteration PROVE IInv' OBVIOUS
<1>0. /\ turnPc = "loop"
      /\ UNCHANGED <<stream, expired, state, transcript, tool, completed, produced, executed>>
      /\ UNCHANGED <<history, events, frames, publicVars>>
  BY DEF NextIteration, publicVars
<1>1. TypesHold /\ TextHolds /\ LiveText BY DEF IInv, TextHolds
<1>2. CASE Breach(0) # "none"
  <2>1. StopForBreach(Breach(0)) /\ UNCHANGED <<ledger, request, engineVars>>
    BY <1>0, <1>2 DEF NextIteration, engineVars
  <2>2. CASE turnPc' = "finish"
    <3>1. handler' = handler /\ outcome' = [status |-> "cancelled", reason |-> "timeout"]
          /\ turnToken' \in Reasons
      BY <2>1, <2>2, BreachFacts
    <3>2. "timeout" \in Reasons BY DEF Reasons
    <3> QED BY <1>0, <2>1, <2>2, <3>1, <3>2, TypeFacts, EndsStep
  <2>3. CASE turnPc' = "wrap_up"
    <3>1. handler' = handler /\ outcome' = [status |-> "stopped_by_limit", reason |-> "none"]
          /\ turnToken' = turnToken
      BY <2>1, <2>3, BreachFacts
    <3>2. outcome' \in [status : Statuses \cup {"none"}, reason : Reasons \cup {"none", "budget"}]
      BY <3>1 DEF Statuses
    <3>3. TypesHold'
      BY <1>0, <1>1, <2>1, <2>3, <3>1, <3>2, TypesMove DEF TypesHold, TurnTypeOK, Suspended
    <3>4. /\ BudgetHolds' /\ CalmHolds' /\ PhaseHolds' /\ BarrierHolds' /\ MessagesHold'
          /\ ExecutedHolds' /\ CallsHold' /\ EndHolds'
      BY <1>0, <2>1, <2>3, CalmMove DEF Early, Live
    <3>5. Kept' = Kept /\ \A s : Told(s)' = Told(s) BY <1>0 DEF Kept, Told
    <3>6. PiecesBounded' BY <1>0, <1>1, <2>1, <3>5 DEF TextHolds, PiecesBounded
    <3>7. LiveText' BY <1>0, <1>1, <2>1, <2>3, <3>1, <3>5 DEF LiveText, Live
    <3>8. EarlyText' /\ FinishText' BY <2>3 DEF EarlyText, FinishText, Early
    <3> QED BY <3>3, <3>4, <3>6, <3>7, <3>8 DEF IInv, TextHolds
  <2> QED BY <2>1, <2>2, <2>3, BreachFacts
<1>3. CASE Breach(0) = "none" /\ turnToken # "none"
  <2>1. /\ UNCHANGED <<ledger, request, engineVars>> /\ turnPc' = "finish" /\ handler' = handler
        /\ outcome' = [status |-> "cancelled", reason |-> turnToken] /\ turnToken' = turnToken
    BY <1>0, <1>3 DEF NextIteration, EndWith, engineVars
  <2> QED BY <1>0, <1>3, <2>1, TypeFacts, EndsStep
<1>4. CASE Breach(0) = "none" /\ turnToken = "none"
  <2>1. /\ turnPc' = "before_model" /\ UNCHANGED <<outcome, handler, turnToken>>
        /\ ledger' = [ledger EXCEPT !.iterations = @ + 1]
        /\ request' = [request EXCEPT !.answer = << >>, !.calls = << >>, !.stop = "none"]
    BY <1>4 DEF NextIteration
  <2>2. ledger.iterations < MaxIterations BY <1>4, BreachFacts
  <2>3. /\ ledger' \in [iterations : Nat, tool_calls : Nat]
        /\ ledger'.iterations = ledger.iterations + 1 /\ ledger'.tool_calls = ledger.tool_calls
        /\ ledger'.iterations \in 0..MaxIterations /\ ledger'.tool_calls \in 0..MaxToolCalls
    <3>1. ledger \in [iterations : Nat, tool_calls : Nat] /\ ledger.iterations \in 0..MaxIterations
          /\ ledger.tool_calls \in 0..MaxToolCalls /\ MaxIterations \in Nat
      BY <1>1, TurnAssumption DEF TypesHold, TurnTypeOK
    <3> QED BY <2>1, <2>2, <3>1
  <2>4. /\ request' \in [messages : Seq({"assistant", "tool"} \X Nat \X Nat), recoveries : Nat,
                         answer : Seq(Nat), calls : Seq(ToolKinds),
                         stop : {"none", "end_turn", "max_tokens", "tool_calls"}]
        /\ request'.messages = request.messages /\ request'.recoveries = request.recoveries
        /\ request'.answer = << >>
    <3>1. << >> \in Seq(Nat) /\ << >> \in Seq(ToolKinds) OBVIOUS
    <3>2. request \in [messages : Seq({"assistant", "tool"} \X Nat \X Nat), recoveries : Nat,
                       answer : Seq(Nat), calls : Seq(ToolKinds),
                       stop : {"none", "end_turn", "max_tokens", "tool_calls"}]
      BY <1>1 DEF TypesHold
    <3> QED BY <2>1, <3>1, <3>2
  <2>5. TypesHold'
    <3>1. TurnTypeOK' BY <1>0, <1>1, <2>1, <2>3, <2>4 DEF TypesHold, TurnTypeOK, Suspended, EngineWait
    <3> QED BY <1>0, <1>1, <2>1, <2>3, <2>4, <3>1 DEF TypesHold
  <2>6. Settled /\ Settled' BY <1>0 DEF IInv, CalmHolds, Ending, Settled
  <2>7. BudgetHolds'
    <3>1. Reserved = {} /\ Reserved' = {} BY <2>6 DEF Reserved, Settled
    <3>2. BudgetHolds BY DEF IInv
    <3> QED BY <1>0, <2>3, <3>1, <3>2 DEF BudgetHolds
  <2>8. CalmHolds' BY <2>6 DEF CalmHolds
  <2>9. PhaseHolds' /\ BarrierHolds' BY <2>1 DEF PhaseHolds, BarrierHolds
  <2>10. MessagesHold'
    <3>1. MessagesHold BY DEF IInv
    <3> QED BY <1>0, <2>1, <2>4, <3>1 DEF MessagesHold, Followed
  <2>11. ExecutedHolds'
    <3>1. \A call \in executed : Recording(call) BY <2>6 DEF IInv, ExecutedHolds, Pursued, Settled
    <3> QED BY <1>0, <3>1 DEF ExecutedHolds, Recording
  <2>12. CallsHold'
    <3>1. CallsHold BY DEF IInv
    <3>2. \A k \in DOMAIN transcript.body : transcript.body[k].call # << >> =>
            transcript.body[k].call[1] \in Nat
      BY <1>1, BodyFacts
    <3>3. ledger.iterations \in Nat BY <1>1 DEF TypesHold
    <3>4. \A a, b \in Nat : a <= b => a <= b + 1 /\ a < b + 1 OBVIOUS
    <3>5. SUFFICES ASSUME NEW k \in DOMAIN transcript.body, transcript.body[k].call # << >>
                   PROVE  /\ transcript.body[k].call[1] <= ledger.iterations + 1
                          /\ transcript.body[k].call[1] < ledger.iterations + 1
      BY <1>0, <2>1, <2>3 DEF CallsHold
    <3>6. transcript.body[k].call[1] <= ledger.iterations BY <3>1, <3>5 DEF CallsHold
    <3> QED BY <3>2, <3>3, <3>4, <3>5, <3>6
  <2>13. TextHolds'
    <3>1. Kept' = Kept /\ (\A s : Told(s)' = Told(s)) /\ Pieces(<< >>) = {} BY <1>0 DEF Kept, Told, Pieces
    <3>2. PiecesBounded' BY <1>0, <1>1, <2>4, <3>1 DEF TextHolds, PiecesBounded
    <3>3. LiveText' BY <1>0, <1>1, <2>1, <2>4, <3>1 DEF LiveText, Live
    <3>4. EarlyText' /\ FinishText' BY <2>1 DEF EarlyText, FinishText, Early
    <3> QED BY <3>2, <3>3, <3>4 DEF TextHolds
  <2>14. EndHolds' BY <1>0, <2>1, EndQuiet DEF IInv, Live
  <2> QED BY <2>5, <2>7, <2>8, <2>9, <2>10, <2>11, <2>12, <2>13, <2>14 DEF IInv
<1> QED BY <1>2, <1>3, <1>4

(* A new piece of text is nowhere yet.                                      *)
LEMMA FreshFacts ==
  ASSUME IInv
  PROVE  /\ New \in Nat /\ New # 0 /\ produced \in Nat /\ New = produced + 1
         /\ state.text \in Seq(Nat) /\ state.pending \in Seq(Nat) /\ state.final \in Seq(Nat)
         /\ request.answer \in Seq(Nat)
         /\ LET old == Pieces(state.text) \cup Pieces(state.pending) \cup Pieces(state.final)
                         \cup Pieces(request.answer) \cup Kept IN
            New \notin old /\ \A piece \in old : piece <= New
<1>1. /\ state.text \in Seq(Nat) /\ state.pending \in Seq(Nat) /\ state.final \in Seq(Nat)
      /\ request.answer \in Seq(Nat) /\ produced \in Nat /\ TypesHold
  BY DEF IInv, TypesHold
<1>2. Kept \subseteq Nat
  <2>1. \A x \in TurnRecords : Pieces(x.text) \subseteq Nat
    <3>1. \A x \in TurnRecords : x.text \in Seq(Nat) BY DEF TurnRecords
    <3> QED BY <3>1, PiecesFacts
  <2> QED BY <1>1, <2>1, BodyFacts DEF Kept, PiecesOf
<1> DEFINE old == Pieces(state.text) \cup Pieces(state.pending) \cup Pieces(state.final)
                    \cup Pieces(request.answer) \cup Kept
<1>3. old \subseteq Nat BY <1>1, <1>2, PiecesFacts
<1>4. \A piece \in old : piece <= produced BY DEF IInv, TextHolds, PiecesBounded
<1> HIDE DEF old
<1>5. New \in Nat /\ New # 0 /\ New = produced + 1 BY <1>1 DEF New
<1>6. New \notin old /\ \A piece \in old : piece <= New BY <1>1, <1>3, <1>4 DEF New
<1> QED BY <1>1, <1>5, <1>6 DEF old

LEMMA StreamPieceStep == IInv /\ StreamPiece => IInv'
<1> SUFFICES ASSUME IInv, StreamPiece PROVE IInv' OBVIOUS
<1>0. /\ turnPc = "model"
      /\ UNCHANGED <<stream, turnToken, expired, ledger, tool, completed, executed, transcript>>
      /\ UNCHANGED <<history, events, frames, publicVars>>
  BY DEF StreamPiece, publicVars
<1>1. TypesHold /\ TextHolds /\ LiveText BY DEF IInv, TextHolds
<1>2. CASE turnToken # "none"
  <2>1. /\ UNCHANGED <<engineVars, state, produced>> /\ turnPc' = "finish" /\ handler' = handler
        /\ outcome' = [status |-> "cancelled", reason |-> turnToken]
    BY <1>0, <1>2 DEF StreamPiece, EndWith, engineVars
  <2> QED BY <1>0, <1>2, <2>1, TypeFacts, EndsStep
<1>3. CASE turnToken = "none"
  <2>1. /\ request' = [request EXCEPT !.answer = Append(@, New)]
        /\ state' = [state EXCEPT !.text = Append(@, New), !.pending = Append(@, New)]
        /\ produced' = New /\ UNCHANGED <<turnPc, outcome, handler>>
    BY <1>3 DEF StreamPiece
  <2> DEFINE old == Pieces(state.text) \cup Pieces(state.pending) \cup Pieces(state.final)
                      \cup Pieces(request.answer) \cup Kept
  <2>2. /\ New \in Nat /\ New # 0
        /\ state.text \in Seq(Nat) /\ state.pending \in Seq(Nat) /\ state.final \in Seq(Nat)
        /\ request.answer \in Seq(Nat) /\ New \notin old /\ \A piece \in old : piece <= New
    BY FreshFacts
  <2>3. /\ Append(state.text, New) \in Seq(Nat) /\ Append(state.pending, New) \in Seq(Nat)
        /\ Append(request.answer, New) \in Seq(Nat)
        /\ Pieces(Append(state.text, New)) = Pieces(state.text) \cup {New}
        /\ Pieces(Append(state.pending, New)) = Pieces(state.pending) \cup {New}
        /\ Pieces(Append(request.answer, New)) = Pieces(request.answer) \cup {New}
    <3>1. \A s \in Seq(Nat), x \in Nat : Append(s, x) \in Seq(Nat) OBVIOUS
    <3>2. \A s \in Seq(Nat), x \in Nat : Pieces(Append(s, x)) = Pieces(s) \cup {x} BY PiecesFacts
    <3> QED BY <2>2, <3>1, <3>2
  <2>4. /\ state' \in [text : Seq(Nat), pending : Seq(Nat), final : Seq(Nat),
                       attached : BOOLEAN, truncated : BOOLEAN]
        /\ Pieces(state'.text) = Pieces(state.text) \cup {New}
        /\ Pieces(state'.pending) = Pieces(state.pending) \cup {New}
        /\ state'.final = state.final
    <3>1. state \in [text : Seq(Nat), pending : Seq(Nat), final : Seq(Nat),
                     attached : BOOLEAN, truncated : BOOLEAN] BY <1>1 DEF TypesHold
    <3> QED BY <2>1, <2>3, <3>1
  <2>5. /\ request' \in [messages : Seq({"assistant", "tool"} \X Nat \X Nat), recoveries : Nat,
                         answer : Seq(Nat), calls : Seq(ToolKinds),
                         stop : {"none", "end_turn", "max_tokens", "tool_calls"}]
        /\ request'.messages = request.messages /\ request'.recoveries = request.recoveries
        /\ Pieces(request'.answer) = Pieces(request.answer) \cup {New}
    <3>1. request \in [messages : Seq({"assistant", "tool"} \X Nat \X Nat), recoveries : Nat,
                       answer : Seq(Nat), calls : Seq(ToolKinds),
                       stop : {"none", "end_turn", "max_tokens", "tool_calls"}]
      BY <1>1 DEF TypesHold
    <3> QED BY <2>1, <2>3, <3>1
  <2>6. TypesHold'
    BY <1>0, <1>1, <2>1, <2>2, <2>4, <2>5, TypesMove DEF TypesHold, TurnTypeOK
  <2>7. /\ BudgetHolds' /\ CalmHolds' /\ PhaseHolds' /\ BarrierHolds' /\ MessagesHold'
        /\ ExecutedHolds' /\ CallsHold' /\ EndHolds'
    BY <1>0, <2>1, <2>5, CalmMove DEF Early, Live
  <2>8. TextHolds'
    <3>1. Kept' = Kept BY <1>0 DEF Kept
    <3>2. PiecesBounded'
      <4>1. New <= New BY <2>2
      <4> QED BY <2>1, <2>2, <2>4, <2>5, <3>1, <4>1 DEF PiecesBounded
    <3>3. LiveText'
      <4>1. /\ Told(state'.final) = Told(state.final)
            /\ Told(state'.text) = Told(state.text) \cup {New}
            /\ Told(request'.answer) = Told(request.answer) \cup {New}
        BY <2>2, <2>4, <2>5 DEF Told
      <4>2. /\ Told(state.text) \subseteq Kept \cup Pieces(state.final) \cup Pieces(state.pending)
            /\ Told(request.answer) \cap (Kept \cup Pieces(state.final)) = {}
            /\ Pieces(state.pending) \subseteq Pieces(request.answer)
            /\ Whole(transcript.body) /\ Apart(transcript.body)
            /\ Told(state.final) \cap Kept = {}
            /\ (request.recoveries = 0 => state.final = << >>)
        BY <1>0, <1>1 DEF LiveText, Live
      <4>3. /\ Told(state'.text) \subseteq Kept' \cup Pieces(state'.final) \cup Pieces(state'.pending)
            /\ Told(request'.answer) \cap (Kept' \cup Pieces(state'.final)) = {}
            /\ Pieces(state'.pending) \subseteq Pieces(request'.answer)
        BY <2>2, <2>4, <2>5, <3>1, <4>1, <4>2
      <4>4. turnPc' = "model" BY <1>0, <2>1
      <4>5. Told(state.final)' = Told(state'.final) /\ Told(state.text)' = Told(state'.text)
            /\ Told(request.answer)' = Told(request'.answer)
        OBVIOUS
      <4> QED BY <1>0, <2>4, <2>5, <3>1, <4>1, <4>2, <4>3, <4>4 DEF LiveText
    <3>4. EarlyText' /\ FinishText' BY <1>0, <2>1 DEF EarlyText, FinishText, Early
    <3> QED BY <3>2, <3>3, <3>4 DEF TextHolds
  <2> QED BY <2>6, <2>7, <2>8 DEF IInv
<1> QED BY <1>2, <1>3

LEMMA RespondStep ==
  \A written \in Written, calls \in CallLists \cup {<< >>}, stop \in {"end_turn", "max_tokens", "tool_calls"} :
    IInv /\ Respond(written, calls, stop) => IInv'
<1> SUFFICES ASSUME NEW written \in Written, NEW calls \in CallLists \cup {<< >>},
                    NEW stop \in {"end_turn", "max_tokens", "tool_calls"},
                    IInv, Respond(written, calls, stop)
             PROVE  IInv'
  OBVIOUS
<1>0. /\ turnPc = "model" /\ turnPc' = "after_model"
      /\ request' = [request EXCEPT !.answer = @ \o written, !.calls = calls, !.stop = stop]
      /\ produced' = produced + Len(written)
      /\ UNCHANGED <<stream, turnToken, expired, ledger, tool, completed, executed, state>>
      /\ UNCHANGED <<transcript, outcome, handler, history, events, frames, publicVars>>
  BY DEF Respond, publicVars
<1>1. TypesHold /\ TextHolds /\ LiveText BY DEF IInv, TextHolds
<1> DEFINE old == Pieces(state.text) \cup Pieces(state.pending) \cup Pieces(state.final)
                    \cup Pieces(request.answer) \cup Kept
<1>2. /\ New \in Nat /\ New # 0 /\ produced \in Nat /\ New = produced + 1
      /\ request.answer \in Seq(Nat) /\ New \notin old
      /\ \A piece \in old : piece <= produced
  BY FreshFacts, <1>1 DEF TextHolds, PiecesBounded
<1>3. /\ written \in Seq(Nat) /\ Pieces(written) \subseteq {New}
      /\ produced' \in Nat /\ produced <= produced'
      /\ \A piece \in Pieces(written) : piece <= produced'
  <2>1. CASE written = << >>
    <3>1. written \in Seq(Nat) /\ Len(written) = 0 /\ Pieces(written) = {} BY <2>1 DEF Pieces
    <3>2. produced' = produced BY <1>0, <1>2, <3>1
    <3> QED BY <1>2, <3>1, <3>2
  <2>2. CASE written = <<New>>
    <3>1. written \in Seq(Nat) /\ Len(written) = 1 /\ Pieces(written) = {New}
      BY <2>2, <1>2, PiecesFacts
    <3> QED BY <1>0, <1>2, <3>1
  <2> QED BY <2>1, <2>2 DEF Written
<1>4. calls \in Seq(ToolKinds)
  <2>1. << >> \in Seq(ToolKinds) OBVIOUS
  <2> QED BY <2>1, TurnAssumption
<1>5. /\ request' \in [messages : Seq({"assistant", "tool"} \X Nat \X Nat), recoveries : Nat,
                       answer : Seq(Nat), calls : Seq(ToolKinds),
                       stop : {"none", "end_turn", "max_tokens", "tool_calls"}]
      /\ request'.messages = request.messages /\ request'.recoveries = request.recoveries
      /\ Pieces(request'.answer) = Pieces(request.answer) \cup Pieces(written)
  <2>1. request \in [messages : Seq({"assistant", "tool"} \X Nat \X Nat), recoveries : Nat,
                     answer : Seq(Nat), calls : Seq(ToolKinds),
                     stop : {"none", "end_turn", "max_tokens", "tool_calls"}]
    BY <1>1 DEF TypesHold
  <2>2. request.answer \o written \in Seq(Nat)
        /\ Pieces(request.answer \o written) = Pieces(request.answer) \cup Pieces(written)
    BY <1>2, <1>3, PiecesFacts
  <2> QED BY <1>0, <1>4, <2>1, <2>2
<1>6. TypesHold'
  BY <1>0, <1>1, <1>3, <1>5, TypesMove DEF TypesHold, TurnTypeOK, Suspended, EngineWait
<1>7. /\ BudgetHolds' /\ CalmHolds' /\ PhaseHolds' /\ BarrierHolds' /\ MessagesHold'
      /\ ExecutedHolds' /\ CallsHold' /\ EndHolds'
  BY <1>0, <1>5, CalmMove DEF Early, Live
<1>8. TextHolds'
  <2>1. Kept' = Kept /\ \A s : Told(s)' = Told(s) BY <1>0 DEF Kept, Told
  <2>2. PiecesBounded'
    <3>1. old \subseteq Nat
      <4>1. Kept \subseteq Nat
        <5>1. \A x \in TurnRecords : x.text \in Seq(Nat) BY DEF TurnRecords
        <5>2. \A x \in TurnRecords : Pieces(x.text) \subseteq Nat BY <5>1, PiecesFacts
        <5> QED BY <1>1, <5>2, BodyFacts DEF Kept, PiecesOf
      <4>2. Pieces(state.text) \subseteq Nat /\ Pieces(state.pending) \subseteq Nat
            /\ Pieces(state.final) \subseteq Nat /\ Pieces(request.answer) \subseteq Nat
        BY FreshFacts, PiecesFacts
      <4> QED BY <4>1, <4>2
    <3> HIDE DEF old
    <3>2. \A piece \in old : piece <= produced' BY <1>2, <1>3, <3>1
    <3> USE DEF old
    <3> QED BY <1>0, <1>3, <1>5, <2>1, <3>2 DEF PiecesBounded
  <2>3. LiveText'
    <3>1. /\ Told(request.answer) \cap (Kept \cup Pieces(state.final)) = {}
          /\ Pieces(state.pending) \subseteq Pieces(request.answer)
      BY <1>0, <1>1 DEF LiveText, Live
    <3>2. Told(request'.answer) \cap (Kept \cup Pieces(state.final)) = {}
      BY <1>2, <1>3, <1>5, <3>1 DEF Told
    <3>3. Pieces(state.pending) \subseteq Pieces(request'.answer) BY <1>5, <3>1
    <3> QED BY <1>0, <1>1, <1>5, <2>1, <3>2, <3>3 DEF LiveText, Live
  <2>4. EarlyText' /\ FinishText' BY <1>0 DEF EarlyText, FinishText, Early
  <2> QED BY <2>2, <2>3, <2>4 DEF TextHolds
<1> QED BY <1>6, <1>7, <1>8 DEF IInv

LEMMA WrapUpStep == \A written \in Written : IInv /\ WrapUp(written) => IInv'
<1> SUFFICES ASSUME NEW written \in Written, IInv, WrapUp(written) PROVE IInv' OBVIOUS
<1>0. /\ turnPc = "wrap_up" /\ turnPc' = "finish"
      /\ state' = [state EXCEPT !.final = IF written # << >> THEN written
                                          ELSE IF @ = << >> /\ state.text = << >> THEN << 0 >> ELSE @]
      /\ produced' = produced + Len(written)
      /\ UNCHANGED <<stream, turnToken, expired, ledger, request, tool, completed, executed>>
      /\ UNCHANGED <<transcript, outcome, handler, history, events, frames, publicVars>>
  BY DEF WrapUp, publicVars, engineVars
<1>1. TypesHold /\ TextHolds /\ LiveText BY DEF IInv, TextHolds
<1> DEFINE old == Pieces(state.text) \cup Pieces(state.pending) \cup Pieces(state.final)
                    \cup Pieces(request.answer) \cup Kept
<1>2. /\ New \in Nat /\ New # 0 /\ produced \in Nat /\ New = produced + 1
      /\ New \notin old /\ \A piece \in old : piece <= New
      /\ state.text \in Seq(Nat) /\ state.pending \in Seq(Nat) /\ state.final \in Seq(Nat)
  BY FreshFacts
<1>3. \A piece \in old : piece <= produced BY <1>1 DEF TextHolds, PiecesBounded
<1>4. Pieces(<< >>) = {} /\ Pieces(<< 0 >>) = {0} /\ Pieces(<<New>>) = {New}
      /\ << >> \in Seq(Nat) /\ << 0 >> \in Seq(Nat) /\ <<New>> \in Seq(Nat)
      /\ Told(<< 0 >>) = {}
  BY <1>2, PiecesFacts DEF Told
<1>5. /\ state' \in [text : Seq(Nat), pending : Seq(Nat), final : Seq(Nat),
                     attached : BOOLEAN, truncated : BOOLEAN]
      /\ state'.text = state.text /\ state'.pending = state.pending
      /\ \/ state'.final = <<New>> /\ produced' = New
         \/ state'.final = << 0 >> /\ produced' = produced
         \/ state'.final = state.final /\ produced' = produced
  <2>1. state \in [text : Seq(Nat), pending : Seq(Nat), final : Seq(Nat),
                   attached : BOOLEAN, truncated : BOOLEAN] BY <1>1 DEF TypesHold
  <2>2. CASE written = << >>
    <3>1. produced' = produced BY <1>0, <1>2, <2>2
    <3>2. state' = [state EXCEPT !.final = << 0 >>] \/ state' = [state EXCEPT !.final = state.final]
      BY <1>0, <2>2
    <3> QED BY <1>4, <2>1, <3>1, <3>2
  <2>3. CASE written = <<New>>
    <3>1. Len(written) = 1 /\ written # << >> BY <2>3
    <3>2. produced' = New /\ state' = [state EXCEPT !.final = <<New>>] BY <1>0, <1>2, <2>3, <3>1
    <3> QED BY <1>4, <2>1, <3>2
  <2> QED BY <2>2, <2>3 DEF Written
<1>6. TypesHold'
  <2>1. produced' \in Nat BY <1>2, <1>5
  <2>2. turnPc' \in Suspended \cup TurnOver \cup {"loop", "finish"} BY <1>0
  <2> QED BY <1>0, <1>1, <1>5, <2>1, <2>2, TypesMove DEF TypesHold, TurnTypeOK
<1>7. /\ BudgetHolds' /\ CalmHolds' /\ PhaseHolds' /\ BarrierHolds' /\ MessagesHold'
      /\ ExecutedHolds' /\ CallsHold' /\ EndHolds'
  BY <1>0, CalmMove DEF Early, Live
<1>8. TextHolds'
  <2>1. Kept' = Kept /\ \A s : Told(s)' = Told(s) BY <1>0 DEF Kept, Told
  <2>2. PiecesBounded'
    <3>1. CASE state'.final = <<New>> /\ produced' = New
      <4>1. New <= New BY <1>2
      <4> QED BY <1>0, <1>2, <1>4, <1>5, <2>1, <3>1, <4>1 DEF PiecesBounded
    <3>2. CASE state'.final = << 0 >> /\ produced' = produced
      <4>1. 0 <= produced BY <1>2
      <4> QED BY <1>0, <1>3, <1>4, <1>5, <2>1, <3>2, <4>1 DEF PiecesBounded
    <3>3. CASE state'.final = state.final /\ produced' = produced
      BY <1>0, <1>3, <1>5, <2>1, <3>3 DEF PiecesBounded
    <3> QED BY <1>5, <3>1, <3>2, <3>3
  <2>3. /\ Whole(transcript.body) /\ Apart(transcript.body)
        /\ Told(state.final) \cap Kept = {} /\ state.pending = << >>
        /\ Told(state.text) \subseteq Kept \cup Pieces(state.final) \cup Pieces(state.pending)
        /\ outcome.status = "stopped_by_limit"
    BY <1>0, <1>1 DEF LiveText, Live
  <2>4. Told(state'.final) \cap Kept = {}
    <3>1. CASE state'.final = <<New>> BY <3>1, <1>2, <1>4 DEF Told
    <3>2. CASE state'.final = << 0 >> BY <3>2, <1>4
    <3>3. CASE state'.final = state.final BY <3>3, <2>3
    <3> QED BY <1>5, <3>1, <3>2, <3>3
  <2>5. state'.final # << >> \/ Told(state.text) \subseteq Kept
    <3>1. <<New>> # << >> /\ << 0 >> # << >> OBVIOUS
    <3> QED BY <1>4, <1>5, <2>3, <3>1
  <2>6. FinishText' BY <1>0, <1>4, <1>5, <2>1, <2>3, <2>4, <2>5 DEF FinishText, Told
  <2>7. EarlyText' /\ LiveText' BY <1>0 DEF EarlyText, LiveText, Early, Live
  <2> QED BY <2>2, <2>6, <2>7 DEF TextHolds
<1> QED BY <1>6, <1>7, <1>8 DEF IInv

(* A message behind the others changes nothing about them.                  *)
LEMMA MessageAdded ==
  ASSUME NEW m \in Seq({"assistant", "tool"} \X Nat \X Nat), \A p \in DOMAIN m : Followed(m, p),
         NEW n \in Nat, NEW it \in Nat
  PROVE  LET grown == Append(m, <<"assistant", it, n>>) IN
         /\ grown \in Seq({"assistant", "tool"} \X Nat \X Nat)
         /\ grown # << >> /\ grown[Len(grown)] = <<"assistant", it, n>>
         /\ \A p \in 1..(Len(grown) - 1) : Followed(grown, p)
         /\ n = 0 => \A p \in DOMAIN grown : Followed(grown, p)
<1> DEFINE x == <<"assistant", it, n>>
           u == Append(m, x)
<1>1. x \in {"assistant", "tool"} \X Nat \X Nat /\ x[3] = n OBVIOUS
<1> HIDE DEF x
<1>2. /\ u \in Seq({"assistant", "tool"} \X Nat \X Nat) /\ u # << >>
      /\ Len(m) \in Nat /\ Len(u) = Len(m) + 1
      /\ DOMAIN m = 1..Len(m) /\ DOMAIN u = DOMAIN m \cup {Len(m) + 1}
      /\ \A i \in DOMAIN m : u[i] = m[i]
      /\ u[Len(m) + 1] = x
  BY <1>1, AppendFacts
<1> HIDE DEF u
<1>3. ASSUME NEW p \in DOMAIN m PROVE Followed(u, p)
  <2>1. Followed(m, p) OBVIOUS
  <2> SUFFICES ASSUME u[p][1] = "assistant", NEW i \in 1..u[p][3]
               PROVE  p + i \in DOMAIN u /\ u[p + i] = <<"tool", u[p][2], i>>
    BY DEF Followed
  <2>2. u[p] = m[p] BY <1>2
  <2>3. p + i \in DOMAIN m /\ m[p + i] = <<"tool", m[p][2], i>> BY <2>1, <2>2 DEF Followed
  <2> QED BY <1>2, <2>2, <2>3
<1>4. Len(u) - 1 = Len(m)
  <2>1. \A k \in Nat : (k + 1) - 1 = k OBVIOUS
  <2> QED BY <1>2, <2>1
<1>5. \A p \in 1..(Len(u) - 1) : Followed(u, p) BY <1>2, <1>3, <1>4
<1>6. n = 0 => Followed(u, Len(m) + 1)
  <2>1. 1..0 = {} OBVIOUS
  <2> QED BY <1>1, <1>2, <2>1 DEF Followed
<1>7. n = 0 => \A p \in DOMAIN u : Followed(u, p) BY <1>2, <1>3, <1>6
<1> QED BY <1>2, <1>5, <1>7 DEF u, x

LEMMA PlainAnswerStep == IInv /\ PlainAnswer => IInv'
<1> SUFFICES ASSUME IInv, PlainAnswer PROVE IInv' OBVIOUS
<1> DEFINE final2 == state.final \o request.answer
           kept   == [state EXCEPT !.final = final2, !.pending = << >>]
           m2     == Append(request.messages, <<"assistant", ledger.iterations, 0>>)
<1>0. /\ turnPc = "after_model"
      /\ UNCHANGED <<stream, turnToken, expired, ledger, tool, completed, executed>>
      /\ UNCHANGED <<transcript, produced, history, events, frames, publicVars>>
  BY DEF PlainAnswer, publicVars
<1>1. TypesHold /\ TextHolds /\ LiveText BY DEF IInv, TextHolds
<1>2. /\ state \in [text : Seq(Nat), pending : Seq(Nat), final : Seq(Nat),
                    attached : BOOLEAN, truncated : BOOLEAN]
      /\ request \in [messages : Seq({"assistant", "tool"} \X Nat \X Nat), recoveries : Nat,
                      answer : Seq(Nat), calls : Seq(ToolKinds),
                      stop : {"none", "end_turn", "max_tokens", "tool_calls"}]
      /\ request.recoveries \in 0..MaxRecoveries /\ ledger.iterations \in Nat
  BY <1>1 DEF TypesHold, TurnTypeOK
<1>3. final2 \in Seq(Nat) /\ Pieces(final2) = Pieces(state.final) \cup Pieces(request.answer)
      /\ Pieces(<< >>) = {} /\ << >> \in Seq(Nat)
  <2>1. state.final \in Seq(Nat) /\ request.answer \in Seq(Nat) BY <1>2
  <2>2. << >> \in Seq(Nat) /\ 0 \in Nat OBVIOUS
  <2> QED BY <2>1, <2>2, PiecesFacts
<1>4. /\ Whole(transcript.body) /\ Apart(transcript.body)
      /\ Told(final2) \cap Kept = {}
      /\ Told(state.text) \subseteq Kept \cup Pieces(final2)
  <2>1. /\ Whole(transcript.body) /\ Apart(transcript.body)
        /\ Told(state.final) \cap Kept = {}
        /\ Told(state.text) \subseteq Kept \cup Pieces(state.final) \cup Pieces(state.pending)
        /\ Pieces(state.pending) \subseteq Pieces(request.answer)
        /\ Told(request.answer) \cap (Kept \cup Pieces(state.final)) = {}
    BY <1>0, <1>1 DEF LiveText, Live
  <2>2. Told(final2) = Told(state.final) \cup Told(request.answer) BY <1>3 DEF Told
  <2> HIDE DEF final2
  <2> QED BY <1>3, <2>1, <2>2
<1>5. final2 = << >> => Told(state.text) \subseteq Kept
  <2> HIDE DEF final2
  <2> QED BY <1>3, <1>4
<1> HIDE DEF final2
<1>6. \A s : Told(s)' = Told(s) BY DEF Told
<1>7. Kept' = Kept BY <1>0 DEF Kept
<1>8. ASSUME state'.text = state.text, state'.pending = << >>, state'.final = final2,
             request'.answer = request.answer
      PROVE  PiecesBounded'
  BY <1>0, <1>1, <1>3, <1>7, <1>8 DEF TextHolds, PiecesBounded
<1>9. CASE /\ request.recoveries < MaxRecoveries /\ turnPc' = "loop"
           /\ request' = [request EXCEPT !.recoveries = @ + 1, !.messages = m2]
           /\ state' = kept /\ UNCHANGED <<outcome, handler>>
  <2>1. /\ state' \in [text : Seq(Nat), pending : Seq(Nat), final : Seq(Nat),
                       attached : BOOLEAN, truncated : BOOLEAN]
        /\ state'.text = state.text /\ state'.pending = << >> /\ state'.final = final2
    BY <1>2, <1>3, <1>9
  <2>2. \A p \in DOMAIN request.messages : Followed(request.messages, p)
    BY <1>0 DEF IInv, MessagesHold
  <2>3. m2 \in Seq({"assistant", "tool"} \X Nat \X Nat) /\ \A p \in DOMAIN m2 : Followed(m2, p)
    BY <1>2, <2>2, MessageAdded
  <2> HIDE DEF m2
  <2>4. /\ request' \in [messages : Seq({"assistant", "tool"} \X Nat \X Nat), recoveries : Nat,
                         answer : Seq(Nat), calls : Seq(ToolKinds),
                         stop : {"none", "end_turn", "max_tokens", "tool_calls"}]
        /\ request'.messages = m2 /\ request'.recoveries = request.recoveries + 1
        /\ request'.answer = request.answer
    <3>1. request.recoveries + 1 \in Nat BY <1>2
    <3>2. request' = [request EXCEPT !.recoveries = request.recoveries + 1, !.messages = m2] BY <1>9
    <3> QED BY <1>2, <2>3, <3>1, <3>2
  <2>5. request'.recoveries \in 0..MaxRecoveries /\ request'.recoveries # 0
    <3>1. \A r, m \in Nat : r < m => r + 1 \in 0..m /\ r + 1 # 0 OBVIOUS
    <3>2. request.recoveries \in Nat /\ MaxRecoveries \in Nat BY <1>2, TurnAssumption
    <3> QED BY <1>9, <2>4, <3>1, <3>2
  <2>6. TypesHold' BY <1>0, <1>1, <1>9, <2>1, <2>4, <2>5, TypesMove DEF TypesHold, TurnTypeOK
  <2>7. BudgetHolds' BY <1>0, BudgetKept DEF IInv
  <2>8. CalmHolds' BY <1>0 DEF IInv, CalmHolds, Settled, Ending
  <2>9. PhaseHolds' /\ BarrierHolds' BY <1>9 DEF PhaseHolds, BarrierHolds
  <2>10. MessagesHold' BY <1>9, <2>3, <2>4 DEF MessagesHold, Followed
  <2>11. ExecutedHolds' BY <1>0, ExecutedKept DEF IInv
  <2>12. CallsHold'
    <3>1. CallsHold BY DEF IInv
    <3> QED BY <1>0, <1>9, <3>1 DEF CallsHold
  <2>13. LiveText' BY <1>0, <1>4, <1>6, <1>7, <1>9, <2>1, <2>5 DEF LiveText, Told
  <2>14. EarlyText' /\ FinishText' BY <1>9 DEF EarlyText, FinishText, Early
  <2>15. TextHolds' BY <1>8, <2>1, <2>4, <2>13, <2>14 DEF TextHolds
  <2>16. EndHolds' BY <1>0, <1>9, EndQuiet DEF IInv, Live
  <2> QED BY <2>6, <2>7, <2>8, <2>9, <2>10, <2>11, <2>12, <2>15, <2>16 DEF IInv
<1>10. CASE /\ turnPc' = "finish" /\ outcome' = [status |-> "completed", reason |-> "none"]
            /\ state' = [kept EXCEPT !.truncated = request.stop = "max_tokens"]
            /\ UNCHANGED <<request, handler>>
  <2>1. /\ state' \in [text : Seq(Nat), pending : Seq(Nat), final : Seq(Nat),
                       attached : BOOLEAN, truncated : BOOLEAN]
        /\ state'.text = state.text /\ state'.pending = << >> /\ state'.final = final2
    BY <1>2, <1>3, <1>10
  <2>2. outcome'.status = "completed" /\ outcome'.reason = "none"
        /\ outcome' \in [status : Statuses \cup {"none"}, reason : Reasons \cup {"none", "budget"}]
    BY <1>10 DEF Statuses
  <2>3. TypesHold' BY <1>0, <1>1, <1>10, <2>1, <2>2, TypesMove DEF TypesHold, TurnTypeOK
  <2>4. /\ BudgetHolds' /\ CalmHolds' /\ PhaseHolds' /\ BarrierHolds' /\ MessagesHold'
        /\ ExecutedHolds' /\ CallsHold' /\ EndHolds'
    BY <1>0, <1>10, CalmMove DEF Early, Live
  <2>5. FinishText'
    BY <1>0, <1>3, <1>4, <1>5, <1>6, <1>7, <1>10, <2>1, <2>2 DEF FinishText, Told
  <2>6. EarlyText' /\ LiveText' BY <1>10 DEF EarlyText, LiveText, Early, Live
  <2> QED BY <1>8, <1>10, <2>1, <2>3, <2>4, <2>5, <2>6 DEF IInv, TextHolds
<1> QED BY <1>9, <1>10 DEF PlainAnswer, EndWith, KeptAnswer, final2

(* The answer that comes with tool calls becomes a record of its own.       *)
LEMMA AnswerRecorded ==
  ASSUME IInv, turnPc = "after_model", NEW b,
         b = IF request.answer = << >> THEN transcript.body
             ELSE Append(transcript.body, Assistant(request.answer, FALSE))
  PROVE  /\ b \in Seq(TurnRecords) /\ Whole(b) /\ Apart(b)
         /\ PiecesOf(b) = Kept \cup Pieces(request.answer)
         /\ \A k \in DOMAIN transcript.body : k \in DOMAIN b /\ b[k] = transcript.body[k]
         /\ \A k \in DOMAIN b : b[k].call # << >> => k \in DOMAIN transcript.body /\ b[k] = transcript.body[k]
<1>1. TypesHold /\ LiveText BY DEF IInv, TextHolds
<1>2. transcript.body \in Seq(TurnRecords) /\ request.answer \in Seq(Nat) BY <1>1 DEF TypesHold
<1>3. /\ Whole(transcript.body) /\ Apart(transcript.body)
      /\ Told(request.answer) \cap Kept = {}
  BY <1>1 DEF LiveText, Live
<1>4. CASE request.answer = << >>
  <2>1. b = transcript.body /\ Pieces(request.answer) = {} BY <1>4 DEF Pieces
  <2> QED BY <1>2, <1>3, <2>1 DEF Kept
<1>5. CASE request.answer # << >>
  <2> DEFINE x == Assistant(request.answer, FALSE)
  <2>1. /\ x \in TurnRecords /\ x.text = request.answer /\ x.call = << >> /\ x.interrupted = FALSE
    BY <1>2, RecordFacts
  <2> HIDE DEF x
  <2>2. b = Append(transcript.body, x) BY <1>5 DEF x
  <2> DEFINE old == transcript.body
             new == Append(old, x)
  <2>a. old \in Seq(TurnRecords) /\ x \in TurnRecords BY <1>2, <2>1
  <2> HIDE DEF old
  <2>b. /\ new \in Seq(TurnRecords) /\ DOMAIN new = DOMAIN old \cup {Len(old) + 1}
        /\ \A i \in DOMAIN old : new[i] = old[i]
        /\ new[Len(old) + 1] = x
    BY <2>a, AppendFacts
  <2>c. b = new BY <2>2 DEF old
  <2> HIDE DEF new
  <2>3. /\ b \in Seq(TurnRecords) /\ DOMAIN b = DOMAIN transcript.body \cup {Len(transcript.body) + 1}
        /\ \A i \in DOMAIN transcript.body : b[i] = transcript.body[i]
        /\ b[Len(transcript.body) + 1] = x
    BY <2>b, <2>c DEF old
  <2>4. PiecesOf(b) = Kept \cup Pieces(request.answer) BY <1>2, <2>1, <2>2, GrownRecords DEF Kept
  <2>5. Apart(b) BY <1>2, <1>3, <2>1, <2>2, GrownRecords DEF Kept
  <2>6. Whole(b) BY <1>3, <2>1, <2>3 DEF Whole
  <2> QED BY <2>1, <2>3, <2>4, <2>5, <2>6
<1> QED BY <1>4, <1>5

(* The calls of a response that are let in are paid for before they run.    *)
LEMMA CallsPaid ==
  ASSUME NEW S, IsFiniteSet(S), NEW n \in Nat, NEW it
  PROVE  LET calls == {<<it, i>> : i \in 1..n} IN
         IsFiniteSet(S \cup calls) /\ Cardinality(S \cup calls) <= Cardinality(S) + n
<1> DEFINE calls == {<<it, i>> : i \in 1..n}
           f     == [i \in 1..n |-> <<it, i>>]
<1>1. IsFiniteSet(1..n) /\ Cardinality(1..n) = n
  <2>1. 1 \in Int /\ n \in Int OBVIOUS
  <2>2. IsFiniteSet(1..n) /\ Cardinality(1..n) = IF 1 > n THEN 0 ELSE n - 1 + 1 BY <2>1, FS_Interval
  <2>3. (IF 1 > n THEN 0 ELSE n - 1 + 1) = n OBVIOUS
  <2> QED BY <2>2, <2>3
<1>2. f \in Surjection(1..n, calls)
  <2>1. f \in [1..n -> calls] OBVIOUS
  <2>2. \A c \in calls : \E i \in 1..n : f[i] = c OBVIOUS
  <2> QED BY <2>1, <2>2 DEF Surjection
<1> HIDE DEF f, calls
<1>3. IsFiniteSet(calls) /\ Cardinality(calls) <= n BY <1>1, <1>2, FS_Surjection
<1>4. /\ IsFiniteSet(S \cup calls)
      /\ Cardinality(S \cup calls) = Cardinality(S) + Cardinality(calls) - Cardinality(S \cap calls)
  BY <1>3, FS_Union
<1>5. /\ Cardinality(S) \in Nat /\ Cardinality(calls) \in Nat /\ Cardinality(S \cap calls) \in Nat
  BY <1>3, FS_CardinalityType, FS_Intersection
<1>6. \A a, b, c, m \in Nat : b <= m => a + b - c <= a + m OBVIOUS
<1>7. Cardinality(S) + Cardinality(calls) - Cardinality(S \cap calls) <= Cardinality(S) + n
  BY <1>3, <1>5, <1>6
<1> QED BY <1>4, <1>7 DEF calls

LEMMA AskForToolsStep == IInv /\ AskForTools => IInv'
<1> SUFFICES ASSUME IInv, AskForTools PROVE IInv' OBVIOUS
<1> DEFINE n  == Len(request.calls)
           b  == IF request.answer = << >> THEN transcript.body
                 ELSE Append(transcript.body, Assistant(request.answer, FALSE))
           m2 == Append(request.messages, <<"assistant", ledger.iterations, n>>)
<1>0. /\ turnPc = "after_model" /\ n > 0 /\ AdmitTools(n)
      /\ state' = [state EXCEPT !.final = state.final, !.pending = << >>]
      /\ transcript' = [transcript EXCEPT !.body = b]
      /\ request' = [request EXCEPT !.messages = m2]
      /\ completed' = << >>
      /\ UNCHANGED <<stream, expired, produced, executed, history, events, frames, publicVars>>
  BY DEF AskForTools, KeptAnswer, publicVars
<1>1. TypesHold /\ TextHolds /\ LiveText BY DEF IInv, TextHolds
<1>2. /\ state \in [text : Seq(Nat), pending : Seq(Nat), final : Seq(Nat),
                    attached : BOOLEAN, truncated : BOOLEAN]
      /\ transcript \in [user : BOOLEAN, body : Seq(TurnRecords)]
      /\ request \in [messages : Seq({"assistant", "tool"} \X Nat \X Nat), recoveries : Nat,
                      answer : Seq(Nat), calls : Seq(ToolKinds),
                      stop : {"none", "end_turn", "max_tokens", "tool_calls"}]
      /\ ledger \in [iterations : Nat, tool_calls : Nat]
      /\ n \in Nat
  BY <1>1 DEF TypesHold
<1>3. /\ b \in Seq(TurnRecords) /\ Whole(b) /\ Apart(b)
      /\ PiecesOf(b) = Kept \cup Pieces(request.answer)
      /\ \A k \in DOMAIN transcript.body : k \in DOMAIN b /\ b[k] = transcript.body[k]
      /\ \A k \in DOMAIN b : b[k].call # << >> => k \in DOMAIN transcript.body /\ b[k] = transcript.body[k]
  <2>1. b = IF request.answer = << >> THEN transcript.body
            ELSE Append(transcript.body, Assistant(request.answer, FALSE))
    OBVIOUS
  <2> HIDE DEF b
  <2> QED BY <1>0, <2>1, AnswerRecorded
<1>4. \A p \in DOMAIN request.messages : Followed(request.messages, p)
  BY <1>0 DEF IInv, MessagesHold
<1>5. /\ m2 \in Seq({"assistant", "tool"} \X Nat \X Nat)
      /\ m2 # << >> /\ m2[Len(m2)] = <<"assistant", ledger.iterations, n>>
      /\ \A p \in 1..(Len(m2) - 1) : Followed(m2, p)
  <2> DEFINE m == request.messages
             it == ledger.iterations
  <2>1. m \in Seq({"assistant", "tool"} \X Nat \X Nat) /\ n \in Nat /\ it \in Nat BY <1>2
  <2> HIDE DEF n, m, it
  <2>2. \A p \in DOMAIN m : Followed(m, p) BY <1>4 DEF m
  <2>3. /\ Append(m, <<"assistant", it, n>>) \in Seq({"assistant", "tool"} \X Nat \X Nat)
        /\ Append(m, <<"assistant", it, n>>) # << >>
        /\ Append(m, <<"assistant", it, n>>)[Len(Append(m, <<"assistant", it, n>>))]
              = <<"assistant", it, n>>
        /\ \A p \in 1..(Len(Append(m, <<"assistant", it, n>>)) - 1) :
             Followed(Append(m, <<"assistant", it, n>>), p)
    BY <2>1, <2>2, MessageAdded
  <2>4. m2 = Append(m, <<"assistant", it, n>>) BY DEF m, it
  <2> HIDE DEF m2
  <2>5. it = ledger.iterations BY DEF it
  <2> QED BY <2>3, <2>4, <2>5
<1> HIDE DEF b, m2
<1>6. /\ state' \in [text : Seq(Nat), pending : Seq(Nat), final : Seq(Nat),
                     attached : BOOLEAN, truncated : BOOLEAN]
      /\ state'.text = state.text /\ state'.pending = << >> /\ state'.final = state.final
  <2>1. << >> \in Seq(Nat) OBVIOUS
  <2> QED BY <1>0, <1>2, <2>1
<1>7. transcript' \in [user : BOOLEAN, body : Seq(TurnRecords)] /\ transcript'.body = b
  BY <1>0, <1>2, <1>3
<1>8. /\ request' \in [messages : Seq({"assistant", "tool"} \X Nat \X Nat), recoveries : Nat,
                       answer : Seq(Nat), calls : Seq(ToolKinds),
                       stop : {"none", "end_turn", "max_tokens", "tool_calls"}]
      /\ request'.messages = m2 /\ request'.recoveries = request.recoveries
      /\ request'.answer = request.answer /\ request'.calls = request.calls
  BY <1>0, <1>2, <1>5
<1>9. request'.recoveries \in 0..MaxRecoveries BY <1>1, <1>8 DEF TypesHold, TurnTypeOK
<1>10. Settled BY <1>0 DEF IInv, CalmHolds, Ending
<1>11. \A call \in executed : Recording(call)
  BY <1>10 DEF IInv, ExecutedHolds, Pursued, Settled
<1>12. ExecutedHolds' BY <1>0, <1>3, <1>7, <1>11 DEF ExecutedHolds, Recording
<1>13. Kept' = Kept \cup Pieces(request.answer) /\ \A s : Told(s)' = Told(s)
  BY <1>3, <1>7 DEF Kept, Told
<1>14. PiecesBounded'
  <2>1. Pieces(<< >>) = {} BY DEF Pieces
  <2> QED BY <1>0, <1>1, <1>6, <1>8, <1>13, <2>1 DEF TextHolds, PiecesBounded
<1>15. /\ Told(state.final) \cap Kept' = {}
       /\ Told(state.text) \subseteq Kept' \cup Pieces(state.final)
       /\ (request.recoveries = 0 => state.final = << >>)
  <2>1. /\ Told(state.final) \cap Kept = {}
        /\ Told(state.text) \subseteq Kept \cup Pieces(state.final) \cup Pieces(state.pending)
        /\ Pieces(state.pending) \subseteq Pieces(request.answer)
        /\ Told(request.answer) \cap (Kept \cup Pieces(state.final)) = {}
        /\ (request.recoveries = 0 => state.final = << >>)
    BY <1>0, <1>1 DEF LiveText, Live
  <2> QED BY <1>13, <2>1 DEF Told
<1>16. \A k \in DOMAIN b : b[k].call # << >> =>
         b[k].call \in Nat \X Nat /\ b[k].call[1] < ledger.iterations
  <2>1. CallsHold BY DEF IInv
  <2> QED BY <1>0, <1>1, <1>3, <2>1, BodyFacts DEF CallsHold
<1>17. \A x, y \in Nat : x < y => x <= y /\ x # y OBVIOUS
<1>18. << >> \in Seq(DOMAIN tool') OBVIOUS
<1>19. CASE Breach(n) # "none" /\ StopForBreach(Breach(n)) /\ UNCHANGED <<ledger, tool>>
  <2>1. \/ /\ turnPc' = "finish" /\ handler' = handler
           /\ outcome' = [status |-> "cancelled", reason |-> "timeout"]
           /\ turnToken' \in Reasons
        \/ /\ turnPc' = "wrap_up" /\ handler' = handler /\ turnToken' = turnToken
           /\ outcome' = [status |-> "stopped_by_limit", reason |-> "none"]
    BY <1>2, <1>19, BreachFacts
  <2>2. TypesHold'
    <3>1. outcome' \in [status : Statuses \cup {"none"}, reason : Reasons \cup {"none", "budget"}]
          /\ (outcome'.status = "cancelled" <=> outcome'.reason # "none")
          /\ outcome'.status \in Statuses \cup {"none"}
      BY <2>1 DEF Statuses, Reasons
    <3>2. turnToken' \in Reasons \cup {"none"} /\ turnPc' \in Suspended \cup TurnOver \cup {"loop", "finish"}
      BY <2>1, TypeFacts DEF Suspended
    <3>3. TurnTypeOK' BY <1>0, <1>1, <1>9, <1>18, <1>19, <2>1, <3>1, <3>2 DEF TypesHold, TurnTypeOK
    <3> QED BY <1>0, <1>1, <1>6, <1>7, <1>8, <1>19, <3>1, <3>3 DEF TypesHold
  <2>3. BudgetHolds' BY <1>0, <1>19, BudgetKept DEF IInv
  <2>4. CalmHolds' BY <1>10, <1>19 DEF CalmHolds, Settled
  <2>5. turnPc' \notin Early \cup {"loop", "before_model", "model", "after_model", "tools"}
    BY <2>1 DEF Early
  <2>6. PhaseHolds' /\ BarrierHolds' /\ MessagesHold'
    BY <2>5 DEF PhaseHolds, BarrierHolds, MessagesHold
  <2>7. CallsHold'
    <3>1. SUFFICES ASSUME NEW k \in DOMAIN b, b[k].call # << >> PROVE b[k].call[1] <= ledger.iterations
      BY <1>7, <1>19, <2>5 DEF CallsHold
    <3>2. ledger.iterations \in Nat BY <1>2
    <3> QED BY <1>16, <1>17, <3>1, <3>2
  <2>8. LiveText'
    BY <1>3, <1>6, <1>7, <1>8, <1>13, <1>15, <2>1 DEF LiveText, Live
  <2>9. FinishText'
    <3>1. Told(<< >>) = {} BY DEF Told, Pieces
    <3>2. turnPc' = "finish" => outcome'.status = "cancelled" BY <2>1
    <3>3. state.final = << >> => Told(state.text) \subseteq Kept'
      BY <1>15 DEF Pieces
    <3> QED BY <1>3, <1>6, <1>7, <1>8, <1>13, <1>15, <3>1, <3>2, <3>3 DEF FinishText
  <2>10. EarlyText' BY <2>5 DEF EarlyText
  <2>11. EndHolds' BY <1>0, <2>1, EndQuiet DEF IInv, Live
  <2> QED BY <1>12, <1>14, <2>2, <2>3, <2>4, <2>6, <2>7, <2>8, <2>9, <2>10, <2>11 DEF IInv, TextHolds
<1>20. CASE /\ Breach(n) = "none" /\ turnPc' = "tools"
            /\ tool' = [i \in 1..n |-> "queued"]
            /\ ledger' = [ledger EXCEPT !.tool_calls = @ + n]
            /\ UNCHANGED <<turnToken, outcome, handler>>
  <2>1. /\ ledger' \in [iterations : Nat, tool_calls : Nat]
        /\ ledger'.iterations = ledger.iterations /\ ledger'.tool_calls = ledger.tool_calls + n
    <3>1. ledger \in [iterations : Nat, tool_calls : Nat] /\ n \in Nat BY <1>2
    <3> HIDE DEF n
    <3>2. ledger.tool_calls + n \in Nat BY <3>1
    <3>3. ledger' = [ledger EXCEPT !.tool_calls = ledger.tool_calls + n] BY <1>20
    <3> QED BY <3>1, <3>2, <3>3
  <2>2. ledger'.iterations \in 0..MaxIterations /\ ledger'.tool_calls \in 0..MaxToolCalls
    <3>1. ledger.iterations \in 0..MaxIterations BY <1>1 DEF TypesHold, TurnTypeOK
    <3>2. ledger.tool_calls + n <= MaxToolCalls BY <1>2, <1>20, BreachFacts
    <3>3. ledger'.tool_calls \in Nat /\ MaxToolCalls \in Nat BY <2>1, TurnAssumption
    <3> QED BY <2>1, <3>1, <3>2, <3>3
  <2>3. tool' \in Seq(ToolStates) /\ DOMAIN tool' = 1..n /\ \A i \in 1..n : tool'[i] = "queued"
    <3>1. tool' \in [1..n -> ToolStates] BY <1>20 DEF ToolStates
    <3> QED BY <1>2, <1>20, <3>1
  <2>4. TypesHold'
    <3>1. TurnTypeOK' BY <1>0, <1>1, <1>9, <1>18, <1>20, <2>2 DEF TypesHold, TurnTypeOK, Suspended, EngineWait
    <3> QED BY <1>0, <1>1, <1>6, <1>7, <1>8, <1>20, <2>1, <2>3, <3>1 DEF TypesHold
  <2>5. BudgetHolds'
    <3>1. Reserved = {} BY <1>10 DEF Reserved, Settled
    <3>2. Reserved' = {<<ledger.iterations, i>> : i \in 1..n} BY <2>1, <2>3 DEF Reserved
    <3>3. IsFiniteSet(executed) /\ Cardinality(executed) <= ledger.tool_calls
      BY <3>1 DEF IInv, BudgetHolds
    <3> DEFINE paid == executed \cup Reserved'
    <3>4. IsFiniteSet(paid) /\ Cardinality(paid) <= Cardinality(executed) + n
      <4>1. n \in Nat BY <1>2
      <4> HIDE DEF n, paid
      <4>2. /\ IsFiniteSet(executed \cup {<<ledger.iterations, i>> : i \in 1..n})
            /\ Cardinality(executed \cup {<<ledger.iterations, i>> : i \in 1..n})
                 <= Cardinality(executed) + n
        BY <4>1, <3>3, CallsPaid
      <4>3. paid = executed \cup {<<ledger.iterations, i>> : i \in 1..n} BY <3>2 DEF paid
      <4> QED BY <4>2, <4>3
    <3>5. Cardinality(executed) \in Nat /\ Cardinality(paid) \in Nat BY <3>3, <3>4, FS_CardinalityType
    <3> HIDE DEF paid
    <3>6. \A x, y, z, w \in Nat : x <= y + w /\ y <= z => x <= z + w OBVIOUS
    <3>7. ledger.tool_calls \in Nat BY <1>2
    <3>8. Cardinality(paid) <= ledger.tool_calls + n BY <1>2, <3>3, <3>4, <3>5, <3>6, <3>7
    <3> QED BY <1>0, <2>1, <3>4, <3>8 DEF BudgetHolds, paid
  <2>6. CalmHolds' BY <1>20 DEF CalmHolds
  <2>7. PhaseHolds'
    <3>1. DOMAIN << >> = {} OBVIOUS
    <3> QED BY <1>0, <1>8, <2>3, <3>1 DEF PhaseHolds
  <2>8. BarrierHolds' BY <2>3 DEF BarrierHolds
  <2>9. MessagesHold' BY <1>5, <1>8, <1>20, <2>1 DEF MessagesHold, Followed, Early
  <2>10. CallsHold'
    <3>1. SUFFICES ASSUME NEW k \in DOMAIN b, b[k].call # << >>
                   PROVE  b[k].call[1] <= ledger.iterations /\ b[k].call[1] # ledger.iterations
      BY <1>7, <1>20, <2>1 DEF CallsHold
    <3>2. ledger.iterations \in Nat BY <1>2
    <3> QED BY <1>16, <1>17, <3>1, <3>2
  <2>11. LiveText' BY <1>3, <1>6, <1>7, <1>8, <1>13, <1>15, <1>20 DEF LiveText, Live
  <2>12. EarlyText' /\ FinishText' BY <1>20 DEF EarlyText, FinishText, Early
  <2>13. EndHolds' BY <1>0, <1>20, EndQuiet DEF IInv, Live
  <2> QED BY <1>12, <1>14, <2>4, <2>5, <2>6, <2>7, <2>8, <2>9, <2>10, <2>11, <2>12, <2>13
      DEF IInv, TextHolds
<1> QED BY <1>0, <1>19, <1>20 DEF AdmitTools

(* What a step that leaves the text and the records alone keeps.            *)
LEMMA TextKept ==
  ASSUME TextHolds, UNCHANGED <<turnPc, state, transcript, request, outcome, produced, events>>
  PROVE  TextHolds'
<1>1. Kept' = Kept /\ \A s : Told(s)' = Told(s) BY DEF Kept, Told
<1>2. PiecesBounded' BY <1>1 DEF TextHolds, PiecesBounded
<1>3. EarlyText' BY <1>1 DEF TextHolds, EarlyText, Early
<1>4. LiveText' BY <1>1 DEF TextHolds, LiveText, Live
<1>5. FinishText' BY <1>1 DEF TextHolds, FinishText
<1> QED BY <1>2, <1>3, <1>4, <1>5 DEF TextHolds

(* One call moves: the others stay where they are.                          *)
LEMMA ToolFacts ==
  ASSUME TypesHold, NEW i \in DOMAIN tool, NEW to \in ToolStates,
         tool' = [tool EXCEPT ![i] = to]
  PROVE  /\ tool' \in Seq(ToolStates) /\ DOMAIN tool' = DOMAIN tool
         /\ DOMAIN tool = 1..Len(tool) /\ Len(tool) \in Nat
         /\ tool'[i] = to
         /\ \A j \in DOMAIN tool : j # i => tool'[j] = tool[j]
<1>1. tool \in Seq(ToolStates) BY DEF TypesHold
<1>2. DOMAIN tool = 1..Len(tool) /\ Len(tool) \in Nat /\ tool \in [1..Len(tool) -> ToolStates]
  BY <1>1
<1>3. tool' \in [1..Len(tool) -> ToolStates] BY <1>2
<1>4. tool' \in Seq(ToolStates) BY <1>2, <1>3
<1> QED BY <1>2, <1>4

(* What a call may still run is used up by running it, and what it no       *)
(* longer waits for is not paid for twice.                                 *)
LEMMA BudgetMoves ==
  ASSUME TypesHold, BudgetHolds, UNCHANGED ledger,
         executed' \cup Reserved' \subseteq executed \cup Reserved
  PROVE  BudgetHolds'
<1> DEFINE old == executed \cup Reserved
           new == executed' \cup Reserved'
<1>1. IsFiniteSet(old) /\ Cardinality(old) <= ledger.tool_calls BY DEF BudgetHolds
<1>2. new \subseteq old OBVIOUS
<1> HIDE DEF old, new
<1>3. IsFiniteSet(new) /\ Cardinality(new) <= Cardinality(old) BY <1>1, <1>2, FS_Subset
<1>4. \A x, y, z \in Nat : x <= y /\ y <= z => x <= z OBVIOUS
<1>5. Cardinality(new) \in Nat /\ Cardinality(old) \in Nat BY <1>1, <1>3, FS_CardinalityType
<1>6. ledger.tool_calls \in Nat BY DEF TypesHold
<1>7. Cardinality(new) <= ledger.tool_calls BY <1>1, <1>3, <1>4, <1>5, <1>6
<1> QED BY <1>3, <1>7 DEF BudgetHolds, new

(* A call makes a move of its own: its result is not collected yet.         *)
LEMMA CallMoves ==
  ASSUME IInv, turnPc \in Suspended \cup {"done", "escaped"},
         NEW i \in DOMAIN tool, NEW to \in ToolStates, to \notin {"queued", "collected"},
         tool' = [tool EXCEPT ![i] = to],
         tool[i] \in {"queued", "before", "running", "after"},
         tool[i] = "queued" => BatchStarted(i),
         to = "before" => tool[i] = "queued",
         tool[i] \in {"running", "after"} => to \in {"running", "after", "executed", "raised"},
         \/ executed' = executed
         \/ tool[i] = "before" /\ to = "running" /\ executed' = executed \cup {<<ledger.iterations, i>>},
         UNCHANGED <<stream, turnPc, turnToken, expired, ledger, request, completed, state,
                     transcript, outcome, handler, produced, publicVars>>
  PROVE  IInv'
<1>0. /\ UNCHANGED <<stream, turnPc, turnToken, expired, ledger, request, completed, state>>
      /\ UNCHANGED <<transcript, outcome, handler, produced, history, events, frames>>
  BY DEF publicVars
<1>1. TypesHold BY DEF IInv
<1>2. /\ tool' \in Seq(ToolStates) /\ DOMAIN tool' = DOMAIN tool
      /\ DOMAIN tool = 1..Len(tool) /\ Len(tool) \in Nat
      /\ tool'[i] = to
      /\ \A j \in DOMAIN tool : j # i => tool'[j] = tool[j]
  BY <1>1, ToolFacts
<1>3. TypesHold'
  <2>1. TurnTypeOK' BY <1>0, <1>1, <1>2 DEF TypesHold, TurnTypeOK
  <2> QED BY <1>0, <1>1, <1>2, <2>1 DEF TypesHold
<1>4. BudgetHolds'
  <2>1. Reserved' \subseteq Reserved
    <3>1. \A j \in DOMAIN tool : tool'[j] \in {"queued", "before"} => tool[j] \in {"queued", "before"}
      BY <1>2
    <3> QED BY <1>0, <1>2, <3>1 DEF Reserved
  <2>2. executed' \subseteq executed \cup Reserved BY DEF Reserved
  <2> QED BY <1>0, <1>1, <2>1, <2>2, BudgetMoves DEF IInv
<1>5. /\ ~Settled
      /\ \/ turnPc = "tools"
         \/ /\ turnPc \in Ending /\ outcome.status = "failed"
            /\ \A k \in DOMAIN events : events[k] = "failed"
  <2>1. ~Settled BY DEF Settled
  <2>2. turnPc # "killed" BY DEF Suspended, EngineWait
  <2> QED BY <2>1, <2>2 DEF IInv, CalmHolds
<1>6. CalmHolds' BY <1>0, <1>5 DEF CalmHolds
<1>7. PhaseHolds'
  <2> SUFFICES ASSUME turnPc = "tools" PROVE PhaseHolds' BY <1>0 DEF PhaseHolds
  <2>1. /\ DOMAIN tool = 1..Len(request.calls)
        /\ \A k \in DOMAIN completed : tool[completed[k]] = "collected"
        /\ \A k, l \in DOMAIN completed : completed[k] = completed[l] => k = l
    BY DEF IInv, PhaseHolds
  <2>2. \A k \in DOMAIN completed : completed[k] \in DOMAIN tool
    <3>1. completed \in Seq(DOMAIN tool) BY <1>1 DEF TypesHold, TurnTypeOK
    <3> QED BY <3>1
  <2>3. \A k \in DOMAIN completed : tool'[completed[k]] = "collected" BY <1>2, <2>1, <2>2
  <2> QED BY <1>0, <1>2, <2>1, <2>3 DEF PhaseHolds
<1>8. BarrierHolds'
  <2> SUFFICES ASSUME turnPc = "tools", NEW a \in DOMAIN tool, NEW b \in DOMAIN tool,
                      a < b, tool'[b] # "queued", tool'[a] # "collected"
               PROVE  \A k \in a..b : request.calls[k] = "parallel"
    BY <1>0, <1>2 DEF BarrierHolds
  <2>1. tool[a] # "collected" BY <1>2
  <2>2. CASE tool[b] # "queued" BY <2>1, <2>2 DEF IInv, BarrierHolds
  <2>3. CASE tool[b] = "queued"
    <3>1. b = i BY <1>2, <2>3
    <3>2. BatchStarted(b) BY <2>3, <3>1
    <3>3. a \in 1..(b - 1) /\ a # b BY <1>2
    <3>4. SameBatch(a, b) BY <2>1, <3>2, <3>3 DEF BatchStarted
    <3> QED BY <3>3, <3>4 DEF SameBatch
  <2> QED BY <2>2, <2>3
<1>9. MessagesHold'
  <2>1. MessagesHold BY DEF IInv
  <2> QED BY <1>0, <2>1 DEF MessagesHold, Followed, Early
<1>10. ExecutedHolds'
  <2> SUFFICES ASSUME NEW call \in executed' PROVE (Recording(call) \/ Pursued(call))'
    BY DEF ExecutedHolds
  <2>1. CASE call \in executed /\ Recording(call) BY <1>0, <2>1 DEF Recording
  <2>2. CASE call \in executed /\ Pursued(call)
    <3>1. PICK j \in DOMAIN tool : call = <<ledger.iterations, j>>
                                   /\ tool[j] \in {"running", "after", "executed", "raised"}
      BY <2>2 DEF Pursued
    <3>2. tool'[j] \in {"running", "after", "executed", "raised"} BY <1>2, <3>1
    <3> QED BY <1>0, <1>2, <3>1, <3>2 DEF Pursued
  <2>3. CASE call \notin executed
    <3>1. call = <<ledger.iterations, i>> /\ to = "running" BY <2>3
    <3> QED BY <1>0, <1>2, <3>1 DEF Pursued
  <2> QED BY <2>1, <2>2, <2>3 DEF IInv, ExecutedHolds
<1>11. CallsHold'
  <2>1. CallsHold BY DEF IInv
  <2> QED BY <1>0, <1>2, <2>1 DEF CallsHold
<1>12. TextHolds' BY <1>0, TextKept DEF IInv
<1>13. EndHolds'
  <2>1. CASE turnPc = "tools" BY <1>0, <2>1, EndQuiet DEF IInv, Live
  <2>2. CASE turnPc # "tools"
    <3>1. /\ turnPc \in Ending /\ outcome.status = "failed"
          /\ \A k \in DOMAIN events : events[k] = "failed"
      BY <1>5, <2>2
    <3>2. \A r : Tells("failed", r) => Tells("failed", r)' BY <1>0 DEF Tells
    <3>3. Len(events) = 1 => events[1] = "failed"
      <4>1. events \in Seq(Statuses \cup {"none"}) BY <1>1 DEF TypesHold
      <4>2. Len(events) = 1 => 1 \in DOMAIN events BY <4>1
      <4> QED BY <3>1, <4>2
    <3>4. EndHolds BY DEF IInv
    <3>5. Closed' = Closed /\ AnnouncedIsSaved' = AnnouncedIsSaved
      BY <1>0 DEF Closed, AnnouncedIsSaved
    <3>6. Closed => Len(events) = 1 BY DEF Closed
    <3> QED BY <1>0, <3>1, <3>2, <3>3, <3>4, <3>5, <3>6 DEF EndHolds
  <2> QED BY <2>1, <2>2
<1> QED BY <1>3, <1>4, <1>6, <1>7, <1>8, <1>9, <1>10, <1>11, <1>12, <1>13 DEF IInv

LEMMA ToolMayFacts ==
  ASSUME NEW i, NEW from, ToolMay(i, from)
  PROVE  turnPc \in Suspended \cup {"done", "escaped"} /\ i \in DOMAIN tool /\ tool[i] = from
BY DEF ToolMay

LEMMA BeginCallStep == \A i \in DOMAIN tool : IInv /\ BeginCall(i) => IInv'
<1> SUFFICES ASSUME NEW i \in DOMAIN tool, IInv, BeginCall(i) PROVE IInv' OBVIOUS
<1> DEFINE to == IF request.calls[i] = "unknown" THEN "unknown"
                 ELSE IF turnToken # "none" THEN "skipped" ELSE "before"
<1>1. turnPc \in Suspended \cup {"done", "escaped"} /\ tool[i] = "queued" /\ BatchStarted(i)
  BY ToolMayFacts DEF BeginCall
<1>2. tool' = [tool EXCEPT ![i] = to] /\ executed' = executed
      /\ UNCHANGED <<stream, turnPc, turnToken, expired, ledger, request, completed, state,
                     transcript, outcome, handler, produced, publicVars>>
  BY DEF BeginCall, ToolMoves
<1>3. to \in ToolStates /\ to \notin {"queued", "collected"} BY DEF ToolStates
<1> HIDE DEF to
<1> QED BY <1>1, <1>2, <1>3, CallMoves

LEMMA BeforeCallStep ==
  \A i \in DOMAIN tool, verdict \in {"invoke", "blocked", "raised"} :
    IInv /\ BeforeCall(i, verdict) => IInv'
<1> SUFFICES ASSUME NEW i \in DOMAIN tool, NEW verdict \in {"invoke", "blocked", "raised"},
                    IInv, BeforeCall(i, verdict)
             PROVE  IInv'
  OBVIOUS
<1> DEFINE to == IF verdict = "invoke" THEN "running" ELSE verdict
<1>1. turnPc \in Suspended \cup {"done", "escaped"} /\ tool[i] = "before"
  BY ToolMayFacts DEF BeforeCall
<1>2. /\ tool' = [tool EXCEPT ![i] = to]
      /\ \/ executed' = executed
         \/ to = "running" /\ executed' = executed \cup {<<ledger.iterations, i>>}
      /\ UNCHANGED <<stream, turnPc, turnToken, expired, ledger, request, completed, state,
                     transcript, outcome, handler, produced, publicVars>>
  BY DEF BeforeCall, ToolMoves
<1>3. to \in ToolStates /\ to \notin {"queued", "collected", "before"} BY DEF ToolStates
<1> HIDE DEF to
<1> QED BY <1>1, <1>2, <1>3, CallMoves

LEMMA CallReturnsStep == \A i \in DOMAIN tool : IInv /\ CallReturns(i) => IInv'
<1> SUFFICES ASSUME NEW i \in DOMAIN tool, IInv, CallReturns(i) PROVE IInv' OBVIOUS
<1>1. turnPc \in Suspended \cup {"done", "escaped"} /\ tool[i] = "running"
  BY ToolMayFacts DEF CallReturns
<1>2. tool' = [tool EXCEPT ![i] = "after"] /\ executed' = executed
      /\ UNCHANGED <<stream, turnPc, turnToken, expired, ledger, request, completed, state,
                     transcript, outcome, handler, produced, publicVars>>
  BY DEF CallReturns, ToolMoves
<1>3. "after" \in ToolStates BY DEF ToolStates
<1> QED BY <1>1, <1>2, <1>3, CallMoves

LEMMA AfterCallStep == \A i \in DOMAIN tool, ok \in BOOLEAN : IInv /\ AfterCall(i, ok) => IInv'
<1> SUFFICES ASSUME NEW i \in DOMAIN tool, NEW ok \in BOOLEAN, IInv, AfterCall(i, ok) PROVE IInv'
  OBVIOUS
<1> DEFINE to == IF ok THEN "executed" ELSE "raised"
<1>1. turnPc \in Suspended \cup {"done", "escaped"} /\ tool[i] = "after"
  BY ToolMayFacts DEF AfterCall
<1>2. tool' = [tool EXCEPT ![i] = to] /\ executed' = executed
      /\ UNCHANGED <<stream, turnPc, turnToken, expired, ledger, request, completed, state,
                     transcript, outcome, handler, produced, publicVars>>
  BY DEF AfterCall, ToolMoves
<1>3. to \in ToolStates /\ to \in {"executed", "raised"} BY DEF ToolStates
<1> HIDE DEF to
<1> QED BY <1>1, <1>2, <1>3, CallMoves

LEMMA CollectFailureStep == \A i \in DOMAIN tool : IInv /\ CollectFailure(i) => IInv'
<1> SUFFICES ASSUME NEW i \in DOMAIN tool, IInv, CollectFailure(i) PROVE IInv' OBVIOUS
<1>0. /\ turnPc = "tools" /\ turnPc' = "finish" /\ handler' = handler
      /\ outcome' = [status |-> "failed", reason |-> "none"]
      /\ UNCHANGED <<stream, turnToken, expired, ledger, request, tool, completed, executed>>
      /\ UNCHANGED <<state, transcript, produced, history, events, frames, publicVars>>
  BY DEF CollectFailure, EndWith, engineVars, publicVars
<1>1. TypesHold BY DEF IInv
<1>2. outcome' \in [status : Statuses \cup {"none"}, reason : Reasons \cup {"none", "budget"}]
      /\ outcome'.status = "failed" /\ outcome'.reason = "none"
  BY <1>0 DEF Statuses
<1>3. TypesHold' BY <1>0, <1>1, <1>2, TypesMove DEF TypesHold, TurnTypeOK
<1>4. BudgetHolds' BY <1>0, BudgetKept DEF IInv
<1>5. EndHolds' /\ events' = << >> BY <1>0, EndQuiet DEF IInv, Live
<1>6. CalmHolds' BY <1>0, <1>2, <1>5 DEF CalmHolds, Ending
<1>7. PhaseHolds' /\ BarrierHolds' /\ MessagesHold'
  BY <1>0 DEF PhaseHolds, BarrierHolds, MessagesHold, Early
<1>8. ExecutedHolds' BY <1>0, ExecutedKept DEF IInv
<1>9. CallsHold'
  <2>1. CallsHold BY DEF IInv
  <2> QED BY <1>0, <2>1 DEF CallsHold
<1>10. TextHolds' BY <1>0, <1>1, <1>2, TextEnds DEF IInv, Live
<1> QED BY <1>3, <1>4, <1>5, <1>6, <1>7, <1>8, <1>9, <1>10 DEF IInv

(* Whoever fills all the places, each once, has left none out.              *)
LEMMA EveryCallIsIn ==
  ASSUME NEW n \in Nat, NEW s \in Seq(1..n), Len(s) = n,
         \A k, l \in DOMAIN s : s[k] = s[l] => k = l
  PROVE  \A j \in 1..n : \E k \in DOMAIN s : s[k] = j
<1>1. DOMAIN s = 1..n /\ s \in [1..n -> 1..n] OBVIOUS
<1>2. s \in Injection(1..n, 1..n) BY <1>1 DEF Injection, IsInjective
<1>3. IsFiniteSet(1..n)
  <2>1. 1 \in Int /\ n \in Int OBVIOUS
  <2> QED BY <2>1, FS_Interval
<1>4. s \in Surjection(1..n, 1..n) BY <1>2, <1>3, FS_Injection
<1> QED BY <1>1, <1>4 DEF Surjection

LEMMA ConcatFacts ==
  ASSUME NEW T, NEW s \in Seq(T), NEW t \in Seq(T)
  PROVE  /\ s \o t \in Seq(T) /\ DOMAIN (s \o t) = 1..(Len(s) + Len(t))
         /\ Len(s) \in Nat /\ Len(t) \in Nat /\ DOMAIN s = 1..Len(s)
         /\ \A i \in 1..Len(s) : (s \o t)[i] = s[i]
         /\ \A i \in 1..Len(t) : (s \o t)[Len(s) + i] = t[i]
OBVIOUS

(* The results of a response behind the response itself.                    *)
LEMMA ResultsFollow ==
  ASSUME NEW M, NEW m \in Seq(M), m # << >>, NEW it, NEW n \in Nat,
         m[Len(m)] = <<"assistant", it, n>>, \A p \in 1..(Len(m) - 1) : Followed(m, p),
         NEW r \in Seq(M), Len(r) = n, \A i \in 1..n : r[i] = <<"tool", it, i>>,
         NEW u, u = m \o r
  PROVE  u \in Seq(M) /\ \A p \in DOMAIN u : Followed(u, p)
<1> DEFINE last == Len(m)
<1>1. /\ u \in Seq(M) /\ last \in Nat /\ last # 0
      /\ DOMAIN m = 1..last /\ DOMAIN u = 1..(last + n)
      /\ \A p \in 1..last : u[p] = m[p]
      /\ \A i \in 1..n : u[last + i] = r[i]
  <2> DEFINE w == m \o r
  <2>1. /\ w \in Seq(M) /\ DOMAIN w = 1..(Len(m) + Len(r)) /\ Len(m) \in Nat /\ Len(r) \in Nat
        /\ \A i \in 1..Len(m) : w[i] = m[i]
        /\ \A i \in 1..Len(r) : w[Len(m) + i] = r[i]
        /\ DOMAIN m = 1..Len(m)
    <3>1. \A s, t \in Seq(M) :
            /\ s \o t \in Seq(M) /\ DOMAIN (s \o t) = 1..(Len(s) + Len(t))
            /\ Len(s) \in Nat /\ Len(t) \in Nat /\ DOMAIN s = 1..Len(s)
            /\ \A i \in 1..Len(s) : (s \o t)[i] = s[i]
            /\ \A i \in 1..Len(t) : (s \o t)[Len(s) + i] = t[i]
      BY ConcatFacts
    <3>2. m \in Seq(M) /\ r \in Seq(M) OBVIOUS
    <3> QED BY ONLY <3>1, <3>2, Zenon
  <2>2. Len(m) # 0 OBVIOUS
  <2>3. u = w OBVIOUS
  <2> HIDE DEF w
  <2> QED BY <2>1, <2>2, <2>3
<1> HIDE DEF last
<1>2. \A a, b \in Nat : \A p \in 1..(a + b) :
        p \in 1..(a - 1) \/ p = a \/ \E i \in 1..b : p = a + i
  <2> SUFFICES ASSUME NEW a \in Nat, NEW b \in Nat, NEW p \in 1..(a + b), p \notin 1..(a - 1), p # a
               PROVE  \E i \in 1..b : p = a + i
    OBVIOUS
  <2>1. p - a \in 1..b /\ p = a + (p - a) OBVIOUS
  <2> QED BY <2>1
<1>3. \A a, b \in Nat : /\ \A i \in 1..b : a + i \in 1..(a + b)
                        /\ \A p \in 1..a : p \in 1..(a + b)
                        /\ \A p \in 1..(a - 1) : p \in 1..a
                        /\ (a # 0 => a \in 1..a)
  OBVIOUS
<1>4. ASSUME NEW p \in 1..(last - 1) PROVE Followed(u, p)
  <2>1. p \in 1..last /\ u[p] = m[p] /\ Followed(m, p) BY <1>1, <1>3 DEF last
  <2> SUFFICES ASSUME u[p][1] = "assistant", NEW i \in 1..u[p][3]
               PROVE  p + i \in DOMAIN u /\ u[p + i] = <<"tool", u[p][2], i>>
    BY DEF Followed
  <2>2. p + i \in DOMAIN m /\ m[p + i] = <<"tool", m[p][2], i>> BY <2>1 DEF Followed
  <2> QED BY <1>1, <1>3, <2>1, <2>2
<1>5. Followed(u, last)
  <2>1. last \in 1..last BY <1>1, <1>3
  <2>2. u[last] = <<"assistant", it, n>> BY <1>1, <2>1 DEF last
  <2>3. \A i \in 1..n : last + i \in DOMAIN u /\ u[last + i] = <<"tool", it, i>> BY <1>1, <1>3
  <2> QED BY <2>2, <2>3 DEF Followed
<1>6. ASSUME NEW i \in 1..n PROVE Followed(u, last + i)
  <2>1. u[last + i] = <<"tool", it, i>> BY <1>1
  <2>2. u[last + i][1] = "tool" BY <2>1
  <2> QED BY <2>2 DEF Followed
<1>7. ASSUME NEW p \in DOMAIN u PROVE Followed(u, p)
  <2>0. last \in Nat /\ p \in 1..(last + n) BY <1>1
  <2>1. p \in 1..(last - 1) \/ p = last \/ \E i \in 1..n : p = last + i BY <2>0, <1>2, Zenon
  <2> QED BY <2>1, <1>4, <1>5, <1>6
<1> QED BY <1>1, <1>7

(* The result of a call is recorded: it is the first record of that call.   *)
LEMMA ResultRecorded ==
  ASSUME IInv, turnPc = "tools", NEW i \in DOMAIN tool, tool[i] # "collected",
         NEW b, b = transcript.body \o Recorded(i)
  PROVE  /\ b \in Seq(TurnRecords) /\ Whole(b) /\ Apart(b) /\ PiecesOf(b) = Kept
         /\ \A k \in DOMAIN transcript.body : k \in DOMAIN b /\ b[k] = transcript.body[k]
         /\ \E k \in DOMAIN b : b[k].call = <<ledger.iterations, i>>
         /\ \A k \in DOMAIN b :
              \/ k \in DOMAIN transcript.body /\ b[k] = transcript.body[k]
              \/ b[k].call = <<ledger.iterations, i>>
<1> DEFINE call == <<ledger.iterations, i>>
           x == ToolResult(call)
           old == transcript.body
           last == Len(old) + 1
<1>1. TypesHold /\ LiveText BY DEF IInv, TextHolds
<1>2. call \in Nat \X Nat
  <2>1. ledger.iterations \in Nat /\ tool \in Seq(ToolStates) BY <1>1 DEF TypesHold
  <2>2. i \in Nat BY <2>1
  <2> QED BY <2>1, <2>2
<1> HIDE DEF call
<1>3. /\ x \in TurnRecords /\ x.text = << >> /\ x.call = call /\ x.interrupted = FALSE
      /\ call # << >>
  BY <1>2, RecordFacts
<1>4. old \in Seq(TurnRecords) BY <1>1 DEF TypesHold
<1>5. b = old \o <<x>> BY DEF Recorded, call
<1> HIDE DEF x, old, last
<1>6. /\ b \in Seq(TurnRecords) /\ DOMAIN b = DOMAIN old \cup {last}
      /\ \A k \in DOMAIN old : b[k] = old[k]
      /\ b[last] = x /\ b = Append(old, x)
  BY <1>3, <1>4, <1>5, AppendFacts DEF last
<1>7. Whole(old) /\ Apart(old) /\ Kept = PiecesOf(old) BY <1>1 DEF LiveText, Live, Kept, old
<1>8. \A k \in DOMAIN old : old[k].call # call
  <2> SUFFICES ASSUME NEW k \in DOMAIN old, old[k].call = call PROVE FALSE OBVIOUS
  <2>1. CallsHold BY DEF IInv
  <2>2. call[1] = ledger.iterations /\ call[2] = i BY DEF call
  <2>3. tool[call[2]] = "collected" BY <1>3, <2>1, <2>2 DEF CallsHold, old
  <2> QED BY <2>2, <2>3
<1>9. Pieces(x.text) = {} /\ Told(x.text) = {} BY <1>3 DEF Pieces, Told
<1>10. Apart(b) /\ PiecesOf(b) = PiecesOf(old) \cup Pieces(x.text)
  BY <1>3, <1>4, <1>6, <1>7, <1>8, <1>9, GrownRecords
<1>11. Whole(b) BY <1>3, <1>6, <1>7 DEF Whole
<1> QED BY <1>3, <1>6, <1>7, <1>9, <1>10, <1>11 DEF old, call

LEMMA CollectResultStep ==
  \A i \in DOMAIN tool, attachment \in BOOLEAN : IInv /\ CollectResult(i, attachment) => IInv'
<1> SUFFICES ASSUME NEW i \in DOMAIN tool, NEW attachment \in BOOLEAN, IInv, CollectResult(i, attachment)
             PROVE  IInv'
  OBVIOUS
<1> DEFINE order == Append(completed, i)
           b == transcript.body \o Recorded(i)
           n == Len(request.calls)
           it == ledger.iterations
<1>0. /\ turnPc = "tools" /\ tool[i] \in Attempted
      /\ tool' = [tool EXCEPT ![i] = "collected"] /\ completed' = order
      /\ transcript' = [transcript EXCEPT !.body = b]
      /\ state' = [state EXCEPT !.attached = @ \/ attachment]
      /\ UNCHANGED <<stream, turnToken, expired, ledger, produced, executed, history, events, frames>>
      /\ UNCHANGED publicVars
  BY DEF CollectResult, publicVars
<1>1. TypesHold /\ TextHolds /\ LiveText BY DEF IInv, TextHolds
<1>2. /\ state \in [text : Seq(Nat), pending : Seq(Nat), final : Seq(Nat),
                    attached : BOOLEAN, truncated : BOOLEAN]
      /\ transcript \in [user : BOOLEAN, body : Seq(TurnRecords)]
      /\ request \in [messages : Seq({"assistant", "tool"} \X Nat \X Nat), recoveries : Nat,
                      answer : Seq(Nat), calls : Seq(ToolKinds),
                      stop : {"none", "end_turn", "max_tokens", "tool_calls"}]
      /\ it \in Nat /\ n \in Nat /\ completed \in Seq(DOMAIN tool)
  BY <1>1 DEF TypesHold, TurnTypeOK
<1>3. tool[i] \notin {"queued", "before", "running", "after", "raised", "collected"}
  BY <1>0 DEF Attempted
<1>4. /\ tool' \in Seq(ToolStates) /\ DOMAIN tool' = DOMAIN tool
      /\ tool'[i] = "collected"
      /\ \A j \in DOMAIN tool : j # i => tool'[j] = tool[j]
  <2>1. "collected" \in ToolStates BY DEF ToolStates
  <2> QED BY <1>0, <1>1, <2>1, ToolFacts
<1>5. /\ order \in Seq(DOMAIN tool) /\ Len(order) = Len(completed) + 1 /\ Len(completed) \in Nat
      /\ DOMAIN order = DOMAIN completed \cup {Len(completed) + 1}
      /\ Len(completed) + 1 \notin DOMAIN completed
      /\ \A k \in DOMAIN completed : order[k] = completed[k]
      /\ order[Len(completed) + 1] = i
  BY <1>2, AppendFacts
<1>6. /\ b \in Seq(TurnRecords) /\ Whole(b) /\ Apart(b) /\ PiecesOf(b) = Kept
      /\ \A k \in DOMAIN transcript.body : k \in DOMAIN b /\ b[k] = transcript.body[k]
      /\ \E k \in DOMAIN b : b[k].call = <<it, i>>
      /\ \A k \in DOMAIN b :
           \/ k \in DOMAIN transcript.body /\ b[k] = transcript.body[k]
           \/ b[k].call = <<it, i>>
  <2>1. b = transcript.body \o Recorded(i) /\ tool[i] # "collected" BY <1>3
  <2> HIDE DEF b
  <2>2. IInv /\ turnPc = "tools" BY <1>0
  <2> QED BY <2>1, <2>2, ResultRecorded
<1>7. /\ DOMAIN tool = 1..n
      /\ \A k \in DOMAIN completed : tool[completed[k]] = "collected"
      /\ \A k, l \in DOMAIN completed : completed[k] = completed[l] => k = l
  BY <1>0 DEF IInv, PhaseHolds
<1> HIDE DEF order, b, n, it
<1>8. \A k \in DOMAIN completed : completed[k] \in DOMAIN tool /\ completed[k] # i
  <2>1. \A k \in DOMAIN completed : completed[k] \in DOMAIN tool BY <1>2
  <2> QED BY <1>3, <1>7, <2>1
<1>9. /\ \A k \in DOMAIN order : tool'[order[k]] = "collected"
      /\ \A k, l \in DOMAIN order : order[k] = order[l] => k = l
  BY <1>4, <1>5, <1>7, <1>8
<1>10. transcript' \in [user : BOOLEAN, body : Seq(TurnRecords)] /\ transcript'.body = b
  BY <1>0, <1>2, <1>6
<1>11. /\ state' \in [text : Seq(Nat), pending : Seq(Nat), final : Seq(Nat),
                      attached : BOOLEAN, truncated : BOOLEAN]
       /\ state'.text = state.text /\ state'.pending = state.pending /\ state'.final = state.final
  <2>1. state' = [state EXCEPT !.attached = state.attached \/ attachment]
        /\ (state.attached \/ attachment) \in BOOLEAN
    BY <1>0, <1>2
  <2> QED BY <1>2, <2>1
<1>12. /\ request' \in [messages : Seq({"assistant", "tool"} \X Nat \X Nat), recoveries : Nat,
                        answer : Seq(Nat), calls : Seq(ToolKinds),
                        stop : {"none", "end_turn", "max_tokens", "tool_calls"}]
       /\ request'.recoveries = request.recoveries /\ request'.answer = request.answer
       /\ request'.calls = request.calls
       /\ \/ /\ turnPc' = "tools" /\ request' = request /\ UNCHANGED <<outcome, handler>>
          \/ /\ Len(order) = n /\ turnPc' = "loop" /\ UNCHANGED <<outcome, handler>>
             /\ \A p \in DOMAIN request'.messages : Followed(request'.messages, p)
          \/ /\ Len(order) = n /\ turnPc' = "finish" /\ turnToken # "none" /\ handler' = handler
             /\ outcome' = [status |-> "cancelled", reason |-> turnToken]
  <2>1. CASE Len(order) # n
    <3>1. turnPc' = "tools" /\ request' = request /\ UNCHANGED <<outcome, handler>>
      BY <1>0, <2>1 DEF CollectResult, PhaseOver, order, n
    <3> QED BY <1>2, <3>1
  <2>2. CASE Len(order) = n
    <3> DEFINE r == ToolMessages(order)
               u == request.messages \o r
    <3>1. /\ request' = [request EXCEPT !.messages = u]
          /\ \/ turnPc' = "loop" /\ UNCHANGED <<outcome, handler>>
             \/ /\ turnPc' = "finish" /\ turnToken # "none" /\ handler' = handler
                /\ outcome' = [status |-> "cancelled", reason |-> turnToken]
      BY <2>2 DEF CollectResult, PhaseOver, EndWith, order, n
    <3>2. DOMAIN order = 1..n BY <1>5, <2>2
    <3>3. r = [k \in 1..n |-> <<"tool", it, k>>] BY <3>2 DEF ToolMessages, it
    <3> HIDE DEF r
    <3>4. r \in Seq({"assistant", "tool"} \X Nat \X Nat) /\ Len(r) = n
          /\ \A k \in 1..n : r[k] = <<"tool", it, k>>
      <4>1. \A k \in 1..n : <<"tool", it, k>> \in {"assistant", "tool"} \X Nat \X Nat BY <1>2
      <4> QED BY <1>2, <3>3, <4>1
    <3>5. /\ request.messages \in Seq({"assistant", "tool"} \X Nat \X Nat)
          /\ request.messages # << >>
          /\ request.messages[Len(request.messages)] = <<"assistant", it, n>>
          /\ \A p \in 1..(Len(request.messages) - 1) : Followed(request.messages, p)
      BY <1>0, <1>2 DEF IInv, MessagesHold, it, n
    <3>6. u \in Seq({"assistant", "tool"} \X Nat \X Nat) /\ \A p \in DOMAIN u : Followed(u, p)
      <4> DEFINE m == request.messages
      <4>1. m \in Seq({"assistant", "tool"} \X Nat \X Nat) /\ m # << >>
            /\ m[Len(m)] = <<"assistant", it, n>>
            /\ \A p \in 1..(Len(m) - 1) : Followed(m, p)
        BY <3>5
      <4>2. u = m \o r OBVIOUS
      <4> DEFINE M == {"assistant", "tool"} \X Nat \X Nat
      <4>3. /\ m \in Seq(M) /\ r \in Seq(M) /\ n \in Nat
            /\ Len(r) = n /\ \A k \in 1..n : r[k] = <<"tool", it, k>>
        BY <1>2, <3>4, <4>1
      <4> HIDE DEF m, u, M
      <4>4. u \in Seq(M) /\ \A p \in DOMAIN u : Followed(u, p)
        BY <4>1, <4>2, <4>3, ResultsFollow
      <4> QED BY <4>4 DEF M
    <3> HIDE DEF u
    <3>7. /\ request' \in [messages : Seq({"assistant", "tool"} \X Nat \X Nat), recoveries : Nat,
                           answer : Seq(Nat), calls : Seq(ToolKinds),
                           stop : {"none", "end_turn", "max_tokens", "tool_calls"}]
          /\ request'.recoveries = request.recoveries /\ request'.answer = request.answer
          /\ request'.calls = request.calls /\ request'.messages = u
      BY <1>2, <3>1, <3>6
    <3> QED BY <2>2, <3>1, <3>6, <3>7
  <2> QED BY <2>1, <2>2
<1>13. TypesHold'
  <2>1. outcome' \in [status : Statuses \cup {"none"}, reason : Reasons \cup {"none", "budget"}]
        /\ (outcome'.status = "cancelled" <=> outcome'.reason # "none")
        /\ outcome'.status \in Statuses \cup {"none"}
    <3>1. CASE UNCHANGED outcome BY <1>1, <3>1 DEF TypesHold, TurnTypeOK
    <3>2. CASE turnToken # "none" /\ outcome' = [status |-> "cancelled", reason |-> turnToken]
      BY <3>2, TypeFacts DEF Statuses
    <3> QED BY <1>12, <3>1, <3>2
  <2>2. handler' \in BOOLEAN BY <1>12, TypeFacts
  <2>3. turnPc' \in Suspended \cup TurnOver \cup {"loop", "finish"}
    BY <1>12 DEF Suspended, EngineWait
  <2>4. request'.recoveries \in 0..MaxRecoveries BY <1>1, <1>12 DEF TypesHold, TurnTypeOK
  <2>5. completed' \in Seq(DOMAIN tool') BY <1>0, <1>4, <1>5
  <2>6. TurnTypeOK' BY <1>0, <1>1, <2>1, <2>2, <2>3, <2>4, <2>5 DEF TypesHold, TurnTypeOK
  <2> QED BY <1>0, <1>1, <1>4, <1>10, <1>11, <1>12, <2>1, <2>6 DEF TypesHold
<1>14. BudgetHolds'
  <2>1. Reserved' \subseteq Reserved
    <3>1. \A j \in DOMAIN tool : tool'[j] \in {"queued", "before"} => tool[j] \in {"queued", "before"}
      BY <1>4
    <3> QED BY <1>0, <1>4, <3>1 DEF Reserved
  <2> QED BY <1>0, <1>1, <2>1, BudgetMoves DEF IInv
<1>15. CalmHolds'
  <2>1. CASE turnPc' = "tools" BY <2>1 DEF CalmHolds
  <2>2. CASE Len(order) = n
    <3>1. order \in Seq(1..n) BY <1>5, <1>7
    <3>2. \A j \in 1..n : \E k \in DOMAIN order : order[k] = j BY <1>2, <1>9, <2>2, <3>1, EveryCallIsIn
    <3>3. Settled' BY <1>4, <1>7, <1>9, <3>2 DEF Settled
    <3> QED BY <3>3 DEF CalmHolds
  <2> QED BY <1>12, <2>1, <2>2
<1>16. PhaseHolds' BY <1>0, <1>4, <1>7, <1>9, <1>12 DEF PhaseHolds, n
<1>17. BarrierHolds'
  <2> SUFFICES ASSUME NEW a \in DOMAIN tool, NEW c \in DOMAIN tool,
                      a < c, tool'[c] # "queued", tool'[a] # "collected"
               PROVE  \A k \in a..c : request.calls[k] = "parallel"
    BY <1>4, <1>12 DEF BarrierHolds
  <2>1. tool[a] # "collected" /\ tool[c] # "queued" BY <1>3, <1>4
  <2> QED BY <1>0, <2>1 DEF IInv, BarrierHolds
<1>18. MessagesHold'
  <2>1. CASE turnPc' = "tools" /\ request' = request
    <3>1. MessagesHold BY DEF IInv
    <3> QED BY <1>0, <2>1, <3>1 DEF MessagesHold, Followed, Early
  <2>2. CASE turnPc' = "loop" /\ \A p \in DOMAIN request'.messages : Followed(request'.messages, p)
    BY <2>2 DEF MessagesHold, Followed
  <2>3. CASE turnPc' = "finish" BY <2>3 DEF MessagesHold, Early
  <2> QED BY <1>12, <2>1, <2>2, <2>3
<1>19. ExecutedHolds'
  <2> SUFFICES ASSUME NEW call \in executed PROVE (Recording(call) \/ Pursued(call))'
    BY <1>0 DEF ExecutedHolds
  <2>1. CASE Recording(call) BY <1>6, <1>10, <2>1 DEF Recording
  <2>2. CASE Pursued(call)
    <3>1. PICK j \in DOMAIN tool : call = <<it, j>>
                                   /\ tool[j] \in {"running", "after", "executed", "raised"}
      BY <2>2 DEF Pursued, it
    <3>2. CASE j = i BY <1>6, <1>10, <3>1, <3>2 DEF Recording
    <3>3. CASE j # i
      <4>1. tool'[j] \in {"running", "after", "executed", "raised"} BY <1>4, <3>1, <3>3
      <4> QED BY <1>0, <1>4, <3>1, <4>1 DEF Pursued, it
    <3> QED BY <3>2, <3>3
  <2> QED BY <2>1, <2>2 DEF IInv, ExecutedHolds
<1>20. CallsHold'
  <2>1. CallsHold BY DEF IInv
  <2> SUFFICES ASSUME NEW k \in DOMAIN b, b[k].call # << >>
               PROVE  /\ b[k].call[1] <= it
                      /\ b[k].call[1] = it =>
                           b[k].call[2] \in DOMAIN tool /\ tool'[b[k].call[2]] = "collected"
    BY <1>0, <1>4, <1>10, <1>12 DEF CallsHold, it
  <2>2. CASE k \in DOMAIN transcript.body /\ b[k] = transcript.body[k]
    <3>1. b[k].call[1] <= it /\ (b[k].call[1] = it =>
             b[k].call[2] \in DOMAIN tool /\ tool[b[k].call[2]] = "collected")
      BY <1>0, <2>1, <2>2 DEF CallsHold, it
    <3> QED BY <1>4, <3>1
  <2>3. CASE b[k].call = <<it, i>>
    <3>1. b[k].call[1] = it /\ b[k].call[2] = i BY <2>3
    <3>2. it <= it BY <1>2
    <3> QED BY <1>4, <3>1, <3>2
  <2> QED BY <1>6, <2>2, <2>3
<1>21. TextHolds'
  <2>0. Kept' = Kept /\ (\A s : Told(s)' = Told(s)) /\ Told(<< >>) = {}
    BY <1>6, <1>10 DEF Kept, Told, Pieces
  <2>1. PiecesBounded' BY <1>0, <1>1, <1>11, <1>12, <2>0 DEF TextHolds, PiecesBounded
  <2>2. /\ Told(state.final) \cap Kept = {} /\ state.pending = << >>
        /\ (request.recoveries = 0 => state.final = << >>)
        /\ Told(state.text) \subseteq Kept \cup Pieces(state.final) \cup Pieces(state.pending)
    BY <1>0, <1>1 DEF LiveText, Live
  <2>3. LiveText' BY <1>6, <1>10, <1>11, <1>12, <2>0, <2>2 DEF LiveText, Live
  <2>4. EarlyText' BY <1>12 DEF EarlyText, Early
  <2>5. FinishText'
    <3>1. Pieces(<< >>) = {} BY DEF Pieces
    <3>2. turnPc' = "finish" => outcome'.status = "cancelled" BY <1>12
    <3> QED BY <1>6, <1>10, <1>11, <1>12, <2>0, <2>2, <3>1, <3>2 DEF FinishText
  <2> QED BY <2>1, <2>3, <2>4, <2>5 DEF TextHolds
<1>22. EndHolds' BY <1>0, <1>12, EndQuiet DEF IInv, Live
<1> QED BY <1>13, <1>14, <1>15, <1>16, <1>17, <1>18, <1>19, <1>20, <1>21, <1>22 DEF IInv
-----------------------------------------------------------------------------
(* The end of a turn: what is reported and what is saved.                   *)

(* Outside the text of the answer nothing is said once the turn is ending.  *)
LEMMA EndingText ==
  ASSUME PiecesBounded, turnPc' \in Ending \ {"finish"} \/ (turnPc' = "finish" /\ events' # << >>),
         UNCHANGED <<state, request, produced>>,
         Kept' \subseteq Kept \cup Pieces(state.final) \cup Pieces(state.pending)
  PROVE  TextHolds'
<1>1. PiecesBounded' BY DEF PiecesBounded
<1>2. EarlyText' /\ LiveText' BY DEF EarlyText, LiveText, Early, Live, Ending
<1>3. FinishText' BY DEF FinishText, Ending
<1> QED BY <1>1, <1>2, <1>3 DEF TextHolds

(* The calls, the messages and the calls' records once the turn is ending.  *)
LEMMA EndingCalls ==
  ASSUME IInv, turnPc \in Ending, turnPc' \in Ending,
         UNCHANGED <<ledger, tool, executed>>,
         outcome'.status = "failed" \/ outcome' = outcome,
         \/ events' = events
         \/ events' = Append(events, outcome'.status),
         \A k \in DOMAIN transcript.body :
           k \in DOMAIN transcript'.body /\ transcript'.body[k].call = transcript.body[k].call,
         \A k \in DOMAIN transcript'.body : transcript'.body[k].call # << >> =>
           k \in DOMAIN transcript.body /\ transcript'.body[k].call = transcript.body[k].call
  PROVE  /\ BudgetHolds' /\ CalmHolds' /\ PhaseHolds' /\ BarrierHolds' /\ MessagesHold'
         /\ ExecutedHolds' /\ CallsHold'
<1>0. turnPc' \notin Early \cup Live /\ turnPc \notin {"tools", "killed"}
  BY DEF Ending, Early, Live
<1>1. BudgetHolds' BY BudgetKept DEF IInv
<1>2. CalmHolds'
  <2>1. CASE Settled BY <2>1 DEF CalmHolds, Settled
  <2>2. CASE ~Settled
    <3>1. outcome.status = "failed" /\ \A k \in DOMAIN events : events[k] = "failed"
      BY <1>0, <2>2 DEF IInv, CalmHolds
    <3>2. outcome'.status = "failed" BY <3>1
    <3>3. \A k \in DOMAIN events' : events'[k] = "failed"
      <4>1. events \in Seq(Statuses \cup {"none"}) BY DEF IInv, TypesHold
      <4>2. "failed" \in Statuses \cup {"none"} BY DEF Statuses
      <4>3. /\ DOMAIN Append(events, "failed") = DOMAIN events \cup {Len(events) + 1}
            /\ \A i \in DOMAIN events : Append(events, "failed")[i] = events[i]
            /\ Append(events, "failed")[Len(events) + 1] = "failed"
        BY <4>1, <4>2, AppendFacts
      <4> QED BY <3>1, <3>2, <4>3
    <3> QED BY <3>2, <3>3 DEF CalmHolds
  <2> QED BY <2>1, <2>2
<1>3. PhaseHolds' /\ BarrierHolds' /\ MessagesHold'
  BY <1>0 DEF PhaseHolds, BarrierHolds, MessagesHold, Early, Live
<1>4. ExecutedHolds' BY ExecutedKept DEF IInv
<1>5. CallsHold'
  <2>1. CallsHold BY DEF IInv
  <2> QED BY <1>0, <2>1 DEF CallsHold, Live
<1> QED BY <1>1, <1>2, <1>3, <1>4, <1>5

LEMMA EventAdded ==
  ASSUME TypesHold, NEW s \in Statuses \cup {"none"}
  PROVE  /\ Append(events, s) \in Seq(Statuses \cup {"none"}) /\ Append(events, s) # << >>
         /\ Len(Append(events, s)) = 1 => events = << >> /\ Append(events, s)[1] = s
<1>1. events \in Seq(Statuses \cup {"none"}) BY DEF TypesHold
<1>2. \A T : \A r \in Seq(T), x \in T :
        /\ Append(r, x) \in Seq(T) /\ Append(r, x) # << >>
        /\ Len(Append(r, x)) = Len(r) + 1 /\ Len(r) \in Nat
        /\ Append(r, x)[Len(r) + 1] = x
  BY AppendFacts
<1>3. /\ Append(events, s) \in Seq(Statuses \cup {"none"}) /\ Append(events, s) # << >>
      /\ Len(Append(events, s)) = Len(events) + 1 /\ Len(events) \in Nat
      /\ Append(events, s)[Len(events) + 1] = s
  BY <1>1, <1>2, Zenon
<1>4. Len(events) = 0 => events = << >> BY <1>1
<1>5. \A k \in Nat : k + 1 = 1 => k = 0 OBVIOUS
<1> QED BY <1>3, <1>4, <1>5

LEMMA FinishTurnStep == IInv /\ FinishTurn => IInv'
<1> SUFFICES ASSUME IInv, FinishTurn PROVE IInv' OBVIOUS
<1> DEFINE cut == outcome.status = "cancelled"
           body == transcript.body
           new == FinishedBody(body, cut)
<1>0. /\ turnPc = "finish"
      /\ transcript' = [transcript EXCEPT !.body = new]
      /\ \/ turnPc' = "append" /\ events' = events
         \/ new = << >> /\ turnPc' = "turn_end" /\ events' = Append(events, outcome.status)
      /\ UNCHANGED <<stream, turnToken, expired, ledger, request, tool, completed, executed>>
      /\ UNCHANGED <<state, outcome, handler, produced, history, frames>>
  BY DEF FinishTurn, Publish, engineVars
<1>1. TypesHold /\ TextHolds /\ EndHolds BY DEF IInv
<1>2. cut \in BOOLEAN /\ new = FinishedBody(body, cut) /\ body = transcript.body
      /\ (cut <=> outcome.status = "cancelled")
  OBVIOUS
<1> HIDE DEF cut, body, new
<1>3. /\ new \in Seq(TurnRecords)
      /\ \A k \in DOMAIN body : k \in DOMAIN new /\ new[k].call = body[k].call
      /\ \A k \in DOMAIN new : new[k].call # << >> =>
           k \in DOMAIN body /\ new[k].call = body[k].call
      /\ PiecesOf(new) \subseteq Kept \cup Pieces(state.final) \cup Pieces(state.pending)
  BY <1>1, <1>2, FinishedShape
<1>4. /\ transcript' \in [user : BOOLEAN, body : Seq(TurnRecords)] /\ transcript'.body = new
  BY <1>0, <1>1, <1>3 DEF TypesHold
<1>5. events \in Seq(Statuses \cup {"none"}) /\ outcome.status \in Statuses \cup {"none"}
  BY <1>1 DEF TypesHold, TurnTypeOK
<1>6. /\ Append(events, outcome.status) \in Seq(Statuses \cup {"none"})
      /\ Append(events, outcome.status) # << >>
      /\ Len(Append(events, outcome.status)) = 1 =>
           events = << >> /\ Append(events, outcome.status)[1] = outcome.status
  <2> DEFINE s == outcome.status
  <2>1. s \in Statuses \cup {"none"} BY <1>5
  <2> HIDE DEF s
  <2>2. /\ Append(events, s) \in Seq(Statuses \cup {"none"}) /\ Append(events, s) # << >>
        /\ Len(Append(events, s)) = 1 => events = << >> /\ Append(events, s)[1] = s
    BY <1>1, <2>1, EventAdded
  <2> QED BY <2>2 DEF s
<1>7. TypesHold'
  <2>1. turnPc' \in Suspended BY <1>0 DEF Suspended
  <2>2. events' \in Seq(Statuses \cup {"none"}) BY <1>0, <1>5, <1>6
  <2> QED BY <1>0, <1>1, <1>4, <2>1, <2>2, TypesMove DEF TypesHold, TurnTypeOK
<1>8. /\ BudgetHolds' /\ CalmHolds' /\ PhaseHolds' /\ BarrierHolds' /\ MessagesHold'
      /\ ExecutedHolds' /\ CallsHold'
  <2>1. turnPc \in Ending /\ turnPc' \in Ending BY <1>0 DEF Ending
  <2>2. events' = events \/ events' = Append(events, outcome'.status) BY <1>0
  <2>3. /\ \A k \in DOMAIN transcript.body :
             k \in DOMAIN transcript'.body /\ transcript'.body[k].call = transcript.body[k].call
        /\ \A k \in DOMAIN transcript'.body : transcript'.body[k].call # << >> =>
             k \in DOMAIN transcript.body /\ transcript'.body[k].call = transcript.body[k].call
    BY <1>2, <1>3, <1>4
  <2> QED BY <1>0, <2>1, <2>2, <2>3, EndingCalls
<1>9. TextHolds'
  <2>1. Kept' \subseteq Kept \cup Pieces(state.final) \cup Pieces(state.pending)
    BY <1>3, <1>4 DEF Kept
  <2>2. turnPc' \in Ending \ {"finish"} BY <1>0 DEF Ending
  <2> QED BY <1>0, <1>1, <2>1, <2>2, EndingText DEF TextHolds
<1>10. events = << >> => Tells(outcome.status, new)
  <2> SUFFICES ASSUME events = << >> PROVE Tells(outcome.status, new) OBVIOUS
  <2>1. outcome.status # "failed" => Settled
    BY <1>0 DEF IInv, CalmHolds
  <2>2. outcome.status # "failed" => \A call \in executed : Recording(call)
    BY <2>1 DEF IInv, ExecutedHolds, Pursued, Settled
  <2> QED BY <1>0, <1>1, <1>2, <2>2, FinishedTells DEF TextHolds
<1>11. \A status, r : Tells(status, r)' <=> Tells(status, r) BY <1>0 DEF Tells, ShownText
<1>12. EndHolds'
  <2>1. turnPc' \notin Early \cup Live /\ turnPc' # "done" BY <1>0 DEF Early, Live
  <2>2. events = << >> => history = << >> /\ frames = << >> BY <1>1 DEF EndHolds
  <2>3. CASE turnPc' = "append" /\ events' = events
    BY <1>0, <1>4, <1>10, <1>11, <2>1, <2>2, <2>3 DEF EndHolds, Closed
  <2>4. CASE new = << >> /\ turnPc' = "turn_end" /\ events' = Append(events, outcome.status)
    <3>1. events' # << >> BY <1>6, <2>4
    <3>2. Len(events') = 1 => events = << >> /\ events'[1] = outcome.status
      BY <1>6, <2>4
    <3>3. Len(events') = 1 => Tells(events'[1], history') /\ frames' = << >>
      BY <1>0, <1>10, <2>2, <2>4, <3>2
    <3> QED BY <1>0, <1>11, <2>1, <2>4, <3>1, <3>2, <3>3 DEF EndHolds, Closed
  <2> QED BY <1>0, <2>3, <2>4
<1> QED BY <1>7, <1>8, <1>9, <1>12 DEF IInv

LEMMA PersistStep == \A ok \in BOOLEAN : IInv /\ Persist(ok) => IInv'
<1> SUFFICES ASSUME NEW ok \in BOOLEAN, IInv, Persist(ok) PROVE IInv' OBVIOUS
<1>0. /\ turnPc = "append" /\ turnPc' = "turn_end"
      /\ history' = IF ok THEN history \o Records ELSE history
      /\ outcome' = (IF ok THEN outcome ELSE [status |-> "failed", reason |-> "none"])
      /\ events' = Append(events, outcome'.status)
      /\ UNCHANGED <<stream, turnToken, expired, ledger, request, tool, completed, executed>>
      /\ UNCHANGED <<state, transcript, handler, produced, frames>>
  BY DEF Persist, AfterAppend, Publish, engineVars
<1>1. TypesHold /\ TextHolds /\ EndHolds BY DEF IInv
<1>2. /\ outcome' \in [status : Statuses \cup {"none"}, reason : Reasons \cup {"none", "budget"}]
      /\ outcome'.status \in Statuses \cup {"none"}
      /\ (outcome'.status = "cancelled" <=> outcome'.reason # "none")
      /\ (ok => outcome' = outcome) /\ (~ok => outcome'.status = "failed")
  <2>1. CASE ok BY <1>0, <1>1, <2>1 DEF TypesHold, TurnTypeOK
  <2>2. CASE ~ok BY <1>0, <2>2 DEF Statuses
  <2> QED BY <2>1, <2>2
<1>3. /\ events' \in Seq(Statuses \cup {"none"}) /\ events' # << >>
      /\ Len(events') = 1 => events = << >> /\ events'[1] = outcome'.status
  <2> DEFINE s == outcome'.status
  <2>1. s \in Statuses \cup {"none"} /\ events' = Append(events, s) BY <1>0, <1>2
  <2> HIDE DEF s
  <2>2. /\ events' \in Seq(Statuses \cup {"none"}) /\ events' # << >>
        /\ Len(events') = 1 => events = << >> /\ events'[1] = s
    BY <1>1, <2>1, EventAdded
  <2> QED BY <2>2 DEF s
<1>4. /\ transcript.body \in Seq(TurnRecords) /\ history \in Seq(TurnRecords)
      /\ << >> \in Seq(TurnRecords) /\ << >> \o transcript.body = transcript.body
      /\ Records = (IF transcript.user THEN <<UserInput>> \o transcript.body ELSE transcript.body)
  <2>1. transcript.body \in Seq(TurnRecords) /\ history \in Seq(TurnRecords) BY <1>1 DEF TypesHold
  <2>2. << >> \in Seq(TurnRecords) OBVIOUS
  <2>3. \A r \in Seq(TurnRecords) : << >> \o r = r OBVIOUS
  <2> QED BY <2>1, <2>2, <2>3 DEF Records
<1>5. Records \in Seq(TurnRecords)
  <2>1. UserInput \in TurnRecords BY RecordFacts
  <2>2. <<UserInput>> \in Seq(TurnRecords) BY <2>1
  <2>3. \A r, t \in Seq(TurnRecords) : r \o t \in Seq(TurnRecords) OBVIOUS
  <2>4. <<UserInput>> \o transcript.body \in Seq(TurnRecords) BY <1>4, <2>2, <2>3
  <2> QED BY <1>4, <2>4
<1>6. history' \in Seq(TurnRecords)
  <2>1. \A r, t \in Seq(TurnRecords) : r \o t \in Seq(TurnRecords) OBVIOUS
  <2> QED BY <1>0, <1>4, <1>5, <2>1
<1>7. TypesHold'
  <2>1. turnPc' \in Suspended BY <1>0 DEF Suspended
  <2>2. TurnTypeOK' BY <1>0, <1>1, <1>2, <2>1 DEF TypesHold, TurnTypeOK
  <2> QED BY <1>0, <1>1, <1>2, <1>3, <1>6, <2>2 DEF TypesHold
<1>8. /\ BudgetHolds' /\ CalmHolds' /\ PhaseHolds' /\ BarrierHolds' /\ MessagesHold'
      /\ ExecutedHolds' /\ CallsHold'
  <2>1. turnPc \in Ending /\ turnPc' \in Ending BY <1>0 DEF Ending
  <2> QED BY <1>0, <1>2, <2>1, EndingCalls
<1>9. TextHolds'
  <2>1. Kept' = Kept BY <1>0 DEF Kept
  <2>2. turnPc' \in Ending \ {"finish"} BY <1>0 DEF Ending
  <2> QED BY <1>0, <1>1, <2>1, <2>2, EndingText DEF TextHolds
<1>10. \A status, r : Tells(status, r)' <=> Tells(status, r) BY <1>0 DEF Tells, ShownText
<1>11. events = << >> => Tells(outcome'.status, history') /\ frames = << >>
  <2> SUFFICES ASSUME events = << >> PROVE Tells(outcome'.status, history') /\ frames = << >>
    OBVIOUS
  <2>1. history = << >> /\ frames = << >> /\ Tells(outcome.status, transcript.body)
    BY <1>0, <1>1 DEF EndHolds
  <2>2. CASE ok
    <3>1. \A r \in Seq(TurnRecords) : << >> \o r = r OBVIOUS
    <3>2. history' = Records BY <1>0, <1>5, <2>1, <2>2, <3>1
    <3>3. Tells(outcome.status, Records)
      <4>1. CASE transcript.user BY <1>4, <2>1, <4>1, SavedTells
      <4>2. CASE ~transcript.user BY <1>4, <2>1, <4>2
      <4> QED BY <4>1, <4>2
    <3> QED BY <1>2, <2>1, <2>2, <3>2, <3>3
  <2>3. CASE ~ok
    <3>1. Tells("failed", << >>)
      <4>1. Apart(<< >>) BY DEF Apart
      <4> QED BY <4>1 DEF Tells
    <3> QED BY <1>0, <1>2, <2>1, <2>3, <3>1
  <2> QED BY <2>2, <2>3
<1>12. EndHolds'
  <2>1. turnPc' \notin Early \cup Live /\ turnPc' # "done" /\ turnPc' # "append"
    BY <1>0 DEF Early, Live
  <2>2. Len(events') = 1 => Tells(events'[1], history')
    BY <1>3, <1>11
  <2>3. Len(events') = 1 => Tells(events[1], history)' BY <1>10, <2>2
  <2> QED BY <1>0, <1>3, <1>11, <2>1, <2>3 DEF EndHolds, Closed
<1> QED BY <1>7, <1>8, <1>9, <1>12 DEF IInv

LEMMA FrameFacts ==
  ASSUME TypesHold
  PROVE  /\ LastFrame \in [text : Seq(Nat), stream_state : {"cancelled", "failed", "final"}]
         /\ LastFrame.stream_state = "final" =>
              outcome.status \notin {"cancelled", "failed"} /\ LastFrame.text = ShownText
<1> DEFINE text == IF state.final # << >> THEN state.final ELSE state.text
           shown == IF text = << >> /\ outcome.status = "failed" THEN << 0 >> ELSE text
           how == IF state.truncated \/ outcome.status = "cancelled" THEN "cancelled"
                  ELSE IF outcome.status = "failed" THEN "failed" ELSE "final"
<1>1. state.final \in Seq(Nat) /\ state.text \in Seq(Nat) BY DEF TypesHold
<1>2. << 0 >> \in Seq(Nat) OBVIOUS
<1>3. shown \in Seq(Nat) /\ how \in {"cancelled", "failed", "final"} BY <1>1, <1>2
<1>4. /\ how = "final" => outcome.status \notin {"cancelled", "failed"}
      /\ outcome.status # "failed" => shown = ShownText
  BY DEF ShownText
<1>5. LastFrame = [text |-> shown, stream_state |-> how] BY DEF LastFrame
<1> HIDE DEF shown, how
<1>6. LastFrame.text = shown /\ LastFrame.stream_state = how BY <1>5
<1> QED BY <1>3, <1>4, <1>5, <1>6

LEMMA DeliverFrameStep == IInv /\ DeliverFrame => IInv'
<1> SUFFICES ASSUME IInv, DeliverFrame PROVE IInv' OBVIOUS
<1>0. /\ turnPc = "turn_end"
      /\ UNCHANGED <<stream, turnToken, expired, ledger, request, tool, completed, executed>>
      /\ UNCHANGED <<state, transcript, produced, history, events>>
      /\ \/ /\ turnPc' = "done" /\ UNCHANGED <<outcome, handler>>
            /\ (frames' = frames \/ frames' = Append(frames, LastFrame))
         \/ /\ turnPc' = "escaped" /\ UNCHANGED <<outcome, handler, frames>>
         \/ /\ turnPc' = "finish" /\ frames' = frames /\ handler' = TRUE
            /\ outcome' = [status |-> "failed", reason |-> "none"]
  BY DEF DeliverFrame, RaiseWith, engineVars
<1>1. TypesHold /\ TextHolds /\ EndHolds BY DEF IInv
<1>2. LastFrame \in [text : Seq(Nat), stream_state : {"cancelled", "failed", "final"}]
      /\ (LastFrame.stream_state = "final" =>
            outcome.status \notin {"cancelled", "failed"} /\ LastFrame.text = ShownText)
  BY <1>1, FrameFacts
<1> DEFINE Shapes == [text : Seq(Nat), stream_state : {"cancelled", "failed", "final"}]
           last == LastFrame
<1>3. last \in Shapes /\ frames \in Seq(Shapes) BY <1>1, <1>2 DEF TypesHold
<1>4. frames' \in Seq(Shapes)
  <2> HIDE DEF Shapes, last
  <2>1. \A T : \A s \in Seq(T), x \in T : Append(s, x) \in Seq(T) OBVIOUS
  <2>2. Append(frames, last) \in Seq(Shapes) BY <1>3, <2>1
  <2> QED BY <1>0, <1>3, <2>2 DEF last
<1>5. /\ outcome' \in [status : Statuses \cup {"none"}, reason : Reasons \cup {"none", "budget"}]
      /\ (outcome'.status = "cancelled" <=> outcome'.reason # "none")
      /\ outcome'.status \in Statuses \cup {"none"}
      /\ (outcome' = outcome \/ outcome'.status = "failed")
      /\ handler' \in BOOLEAN
  <2>1. CASE UNCHANGED <<outcome, handler>> BY <1>1, <2>1 DEF TypesHold, TurnTypeOK
  <2>2. CASE handler' = TRUE /\ outcome' = [status |-> "failed", reason |-> "none"]
    BY <2>2 DEF Statuses
  <2> QED BY <1>0, <2>1, <2>2
<1>6. TypesHold'
  <2>1. turnPc' \in Suspended \cup TurnOver \cup {"loop", "finish"} BY <1>0 DEF TurnOver
  <2>2. TurnTypeOK' BY <1>0, <1>1, <1>5, <2>1 DEF TypesHold, TurnTypeOK
  <2> QED BY <1>0, <1>1, <1>4, <1>5, <2>2 DEF TypesHold
<1>7. events # << >> BY <1>0, <1>1 DEF EndHolds
<1>8. /\ BudgetHolds' /\ CalmHolds' /\ PhaseHolds' /\ BarrierHolds' /\ MessagesHold'
      /\ ExecutedHolds' /\ CallsHold'
  <2>1. turnPc \in Ending /\ turnPc' \in Ending BY <1>0 DEF Ending
  <2> QED BY <1>0, <1>5, <2>1, EndingCalls
<1>9. TextHolds'
  <2>1. Kept' = Kept BY <1>0 DEF Kept
  <2>2. turnPc' \in Ending \ {"finish"} \/ (turnPc' = "finish" /\ events' # << >>)
    BY <1>0, <1>7 DEF Ending
  <2> QED BY <1>0, <1>1, <2>1, <2>2, EndingText DEF TextHolds
<1>10. \A status, r : Tells(status, r)' <=> Tells(status, r) BY <1>0 DEF Tells, ShownText
<1>11. turnPc' \notin Early \cup Live \cup {"append", "turn_end"} BY <1>0 DEF Early, Live
<1>12. EndHolds'
  <2>1. CASE turnPc' # "done" BY <1>0, <1>7, <1>11, <2>1 DEF EndHolds, Closed
  <2>2. CASE turnPc' = "done" /\ Len(events) # 1
    BY <1>0, <1>7, <1>11, <2>2 DEF EndHolds, Closed
  <2>3. CASE turnPc' = "done" /\ Len(events) = 1
    <3>1. Tells(events[1], history) /\ outcome.status = events[1] /\ frames = << >>
      BY <1>0, <1>1, <2>3 DEF EndHolds
    <3>2. \A f \in DOMAIN frames' : frames'[f] = LastFrame
      <4>1. CASE frames' = frames BY <3>1, <4>1
      <4>2. CASE frames' = Append(frames, LastFrame)
        <5>1. Append(<< >>, last) = <<last>> OBVIOUS
        <5>2. DOMAIN <<last>> = {1} /\ <<last>>[1] = last OBVIOUS
        <5> HIDE DEF last
        <5>3. frames' = <<last>> BY <3>1, <4>2, <5>1 DEF last
        <5> QED BY <5>2, <5>3 DEF last
      <4> QED BY <1>0, <2>3, <4>1, <4>2
    <3>3. ASSUME LastFrame.stream_state = "final", NEW piece \in Pieces(LastFrame.text) \ {0}
          PROVE  \E i \in DOMAIN history : piece \in Pieces(history[i].text) /\ ~history[i].interrupted
      <4>1. outcome.status \notin {"cancelled", "failed"} /\ LastFrame.text = ShownText BY <1>2, <3>3
      <4>2. piece \in Told(ShownText) BY <3>3, <4>1 DEF Told
      <4> QED BY <3>1, <4>1, <4>2 DEF Tells
    <3>4. AnnouncedIsSaved' BY <1>0, <3>2, <3>3 DEF AnnouncedIsSaved
    <3>5. Tells(events[1], history)' BY <1>0, <1>10, <3>1
    <3> QED BY <1>0, <1>7, <1>11, <2>3, <3>4, <3>5 DEF EndHolds
  <2> QED BY <2>1, <2>2, <2>3
<1> QED BY <1>6, <1>8, <1>9, <1>12 DEF IInv

(* Cancellation, the clock and the end by force.                            *)
LEMMA PassiveSteps ==
  ASSUME IInv,
         \/ \E reason \in {"user", "shutdown"} : RequestCancel(reason)
         \/ TimePasses \/ Watchdog \/ ForceCancel \/ TurnTerminated \/ UNCHANGED turnVars
  PROVE  IInv'
<1>1. turnToken \in Reasons \cup {"none"} /\ expired \in BOOLEAN BY TypeFacts
<1>2. ASSUME NEW reason \in {"user", "shutdown"}, RequestCancel(reason) PROVE IInv'
  <2>1. Requested(reason) \in Reasons BY TypeFacts DEF Reasons
  <2> QED BY <1>1, <1>2, <2>1, PassiveStep DEF RequestCancel
<1>3. CASE TimePasses BY <1>1, <1>3, PassiveStep DEF TimePasses
<1>4. CASE Watchdog
  <2>1. Requested("timeout") \in Reasons BY TypeFacts DEF Reasons
  <2> QED BY <1>1, <1>4, <2>1, PassiveStep DEF Watchdog
<1>5. CASE ForceCancel BY <1>1, <1>5, PassiveStep DEF ForceCancel
<1>6. CASE UNCHANGED turnVars BY <1>1, <1>6, PassiveStep DEF turnVars
<1> QED BY <1>2, <1>3, <1>4, <1>5, <1>6 DEF TurnTerminated

LEMMA ModelStepKeeps == IInv /\ ModelStep => IInv'
<1> SUFFICES ASSUME IInv, ModelStep PROVE IInv' OBVIOUS
<1>1. CASE NextIteration BY <1>1, NextIterationStep
<1>2. ASSUME NEW ok \in BOOLEAN, PrepareRequest(ok) PROVE IInv' BY <1>2, PrepareRequestStep
<1>3. CASE StreamPiece BY <1>3, StreamPieceStep
<1>4. ASSUME NEW written \in Written, NEW stop \in {"end_turn", "max_tokens"},
             Respond(written, << >>, stop)
      PROVE  IInv'
  BY <1>4, RespondStep
<1>5. ASSUME NEW written \in Written, NEW calls \in CallLists, Respond(written, calls, "tool_calls")
      PROVE  IInv'
  BY <1>5, RespondStep
<1>6. ASSUME NEW cancelled \in BOOLEAN, ModelFails(cancelled) PROVE IInv' BY <1>6, ModelFailsStep
<1>7. CASE CancelledAfterModel BY <1>7, CancelledAfterModelStep
<1>8. CASE PlainAnswer BY <1>8, PlainAnswerStep
<1>9. CASE AskForTools BY <1>9, AskForToolsStep
<1>10. ASSUME NEW written \in Written, WrapUp(written) PROVE IInv' BY <1>10, WrapUpStep
<1> QED BY <1>1, <1>2, <1>3, <1>4, <1>5, <1>6, <1>7, <1>8, <1>9, <1>10 DEF ModelStep

LEMMA ToolStepKeeps == IInv /\ ToolStep => IInv'
<1> SUFFICES ASSUME IInv, ToolStep PROVE IInv' OBVIOUS
<1>1. PICK i \in DOMAIN tool :
        \/ BeginCall(i)
        \/ \E verdict \in {"invoke", "blocked", "raised"} : BeforeCall(i, verdict)
        \/ CallReturns(i)
        \/ \E ok \in BOOLEAN : AfterCall(i, ok)
        \/ \E attachment \in BOOLEAN : CollectResult(i, attachment)
        \/ CollectFailure(i)
  BY DEF ToolStep
<1>2. CASE BeginCall(i) BY <1>2, BeginCallStep
<1>3. ASSUME NEW verdict \in {"invoke", "blocked", "raised"}, BeforeCall(i, verdict) PROVE IInv'
  BY <1>3, BeforeCallStep
<1>4. CASE CallReturns(i) BY <1>4, CallReturnsStep
<1>5. ASSUME NEW ok \in BOOLEAN, AfterCall(i, ok) PROVE IInv' BY <1>5, AfterCallStep
<1>6. ASSUME NEW attachment \in BOOLEAN, CollectResult(i, attachment) PROVE IInv'
  BY <1>6, CollectResultStep
<1>7. CASE CollectFailure(i) BY <1>7, CollectFailureStep
<1> QED BY <1>1, <1>2, <1>3, <1>4, <1>5, <1>6, <1>7

LEMMA TurnStepKeeps == IInv /\ TurnStep => IInv'
<1> SUFFICES ASSUME IInv, TurnStep PROVE IInv' OBVIOUS
<1>1. ASSUME NEW rejects \in BOOLEAN, TurnStart(rejects) PROVE IInv' BY <1>1, TurnStartStep
<1>2. ASSUME NEW rejected \in BOOLEAN, NEW model_input \in BOOLEAN, NEW text \in {<< >>, << 0 >>},
             Route(rejected, text, model_input)
      PROVE  IInv'
  BY <1>2, RouteStep
<1>3. ASSUME NEW ok \in BOOLEAN, Load(ok) PROVE IInv' BY <1>3, LoadStep
<1>4. ASSUME NEW result \in {"ok", "failed", "cancelled"}, Assemble(result) PROVE IInv'
  BY <1>4, AssembleStep
<1>5. CASE FinishTurn BY <1>5, FinishTurnStep
<1>6. ASSUME NEW ok \in BOOLEAN, Persist(ok) PROVE IInv' BY <1>6, PersistStep
<1>7. CASE DeliverFrame BY <1>7, DeliverFrameStep
<1> QED BY <1>1, <1>2, <1>3, <1>4, <1>5, <1>6, <1>7 DEF TurnStep

(* Whatever the model, the tools, the clock and the user do, the turn keeps *)
(* its books: every step of the turn preserves the invariant.              *)
THEOREM InductiveInvariant == TurnSpec => []IInv
<1>1. IInv /\ [TurnNext]_turnVars => IInv'
  BY ModelStepKeeps, ToolStepKeeps, TurnStepKeeps, PassiveSteps DEF TurnNext
<1> QED BY <1>1, InitHolds, PTL DEF TurnSpec
-----------------------------------------------------------------------------
(* What the invariant says of the requests and of the tools. *)

LEMMA BudgetIsKept == IInv => ToolBudgetKept
<1> SUFFICES ASSUME IInv PROVE Cardinality(executed) <= MaxToolCalls BY DEF ToolBudgetKept
<1> DEFINE paid == executed \cup Reserved
<1>1. IsFiniteSet(paid) /\ Cardinality(paid) <= ledger.tool_calls BY DEF IInv, BudgetHolds
<1>2. executed \subseteq paid OBVIOUS
<1>3. ledger.tool_calls \in 0..MaxToolCalls /\ MaxToolCalls \in Nat
  BY TurnAssumption DEF IInv, TypesHold, TurnTypeOK
<1> HIDE DEF paid
<1>4. IsFiniteSet(executed) /\ Cardinality(executed) <= Cardinality(paid) BY <1>1, <1>2, FS_Subset
<1>5. Cardinality(executed) \in Nat /\ Cardinality(paid) \in Nat BY <1>1, <1>4, FS_CardinalityType
<1>6. ledger.tool_calls \in Nat /\ ledger.tool_calls <= MaxToolCalls BY <1>3
<1>7. \A a, b, c, d \in Nat : a <= b /\ b <= c /\ c <= d => a <= d OBVIOUS
<1> QED BY <1>1, <1>3, <1>4, <1>5, <1>6, <1>7

(* In every turn, whatever the model asks for and in whatever order its     *)
(* tools end: no more tools run than max_tool_calls_per_turn allows, a      *)
(* barrier call runs alone (partition_tool_batches), and every request to   *)
(* the model answers each earlier call exactly once, in the calls' order.  *)
THEOREM AsksLawfully == TurnSpec => []TurnAsksLawfully
<1>1. IInv => TurnAsksLawfully
  <2> SUFFICES ASSUME IInv PROVE TurnAsksLawfully OBVIOUS
  <2>1. TurnTypeOK BY DEF IInv, TypesHold
  <2>2. BarrierKept BY DEF IInv, BarrierHolds, BarrierKept
  <2>3. RequestWellFormed BY DEF IInv, MessagesHold, Followed, RequestWellFormed
  <2> QED BY <2>1, <2>2, <2>3, BudgetIsKept DEF TurnAsksLawfully, ToolsAdmitted
<1> QED BY <1>1, InductiveInvariant, PTL

(* Every turn that ends tells the truth: a tool that ran is in the history  *)
(* unless the turn failed, no call and no piece of text is recorded twice,  *)
(* nothing is left running by a turn that ends in order, an answer shown as *)
(* whole was saved uninterrupted, and what a cancelled turn showed is kept  *)
(* and marked (finish_turn, Transcript, run_tools).                        *)
THEOREM TellsTheTruth == TurnSpec => []TurnTellsTheTruth
<1>1. IInv => TurnTellsTheTruth
  <2> SUFFICES ASSUME IInv PROVE TurnTellsTheTruth OBVIOUS
  <2>1. Closed => Tells(events[1], history) /\ AnnouncedIsSaved BY DEF IInv, EndHolds
  <2>2. ExecutedIsRecorded BY <2>1 DEF ExecutedIsRecorded, Tells
  <2>3. NothingRecordedTwice BY <2>1 DEF NothingRecordedTwice, Tells, Apart
  <2>4. NoToolLeftBehind
    <3> SUFFICES ASSUME turnPc = "done", events[1] # "failed", NEW i \in DOMAIN tool
                 PROVE  tool[i] \notin {"before", "running", "after"}
      BY DEF NoToolLeftBehind
    <3>1. events # << >> /\ events \in Seq(Statuses \cup {"none"})
      BY DEF IInv, EndHolds, TypesHold
    <3>2. 1 \in DOMAIN events BY <3>1
    <3>3. Settled BY <3>2 DEF IInv, CalmHolds
    <3> QED BY <3>3 DEF Settled
  <2>5. AnnouncedIsSaved BY <2>1 DEF AnnouncedIsSaved
  <2>6. ShownIsKept BY <2>1 DEF ShownIsKept, Tells, Told, Saved
  <2>7. CancelledIsMarked BY <2>1 DEF CancelledIsMarked, LastAssistantIsMarked, Tells, EndsMarked
  <2> QED BY <2>2, <2>3, <2>4, <2>5, <2>6, <2>7 DEF TurnTellsTheTruth, RecordedOnce, CutAnswerIsHonest
<1> QED BY <1>1, InductiveInvariant, PTL
=============================================================================
