------------------------------ MODULE StreamText ------------------------------
(***************************************************************************)
(* A streamed answer of POST /v1/responses as services/api/image.ts reads  *)
(* it: server-sent events whose bytes arrive in chunks cut anywhere, and a *)
(* stream that may end anywhere.  An event is two tokens (any cut inside   *)
(* its JSON), a line break one or two, and an "event:" line one.           *)
(*   "a", "b"  response.output_text.delta   "full"  response.output_text.done *)
(*   "whole"   response.completed           "fail"  an event with an error *)
(*   "done"    [DONE]                                                      *)
(***************************************************************************)
EXTENDS Naturals, SequencesExt

CR == <<"cr", 0>>
LF == <<"lf", 0>>
Label == <<"label", 0>>
Breaks == {CR, LF}
AllText == <<"a", "b">>     \* what "full" and "whole" carry

\* What the server writes; a script says how its events are written.
Break(s) == IF s.crlf THEN <<CR, LF>> ELSE <<LF>>
Written(s) ==
    LET Event(i) == (IF s.labels THEN <<Label>> \o Break(s) ELSE <<>>)
                      \o <<<<s.events[i], 1>>, <<s.events[i], 2>>>>
                      \o (IF i < Len(s.events) \/ s.closed THEN Break(s) \o Break(s) ELSE <<>>)
    IN  FlattenSeq([i \in DOMAIN s.events |-> Event(i)])

-----------------------------------------------------------------------------
(* The reader *)

Fresh == [buffer |-> <<>>, text |-> <<>>, payload |-> FALSE, error |-> FALSE, broken |-> FALSE]

\* /\r?\n\r?\n/ at position i: its length, 0 when it does not match there.
BreakAt(b, i) ==
    IF i <= Len(b) /\ b[i] = LF THEN 1
    ELSE IF i < Len(b) /\ b[i] = CR /\ b[i + 1] = LF THEN 2 ELSE 0
DelimiterAt(b, i) ==
    LET one == BreakAt(b, i)
        two == BreakAt(b, i + one)
    IN  IF one > 0 /\ two > 0 THEN one + two ELSE 0

\* consumeResponseStreamBlock: JSON.parse throws on half an event.
Event(st, e) ==
    CASE e \in {"a", "b"} -> [st EXCEPT !.text = Append(@, e)]
      [] e = "full"  -> [st EXCEPT !.text = IF @ = <<>> THEN AllText ELSE @]
      [] e = "whole" -> [st EXCEPT !.payload = TRUE]
      [] e = "fail"  -> [st EXCEPT !.error = TRUE]
      [] e = "done"  -> st
ConsumeBlock(st, block) ==
    LET data == SelectSeq(block, LAMBDA t : t \notin Breaks \cup {Label})
    IN  IF data = <<>> THEN st
        ELSE IF Len(data) = 2 /\ data[1][2] = 1 /\ data[2] = <<data[1][1], 2>> THEN Event(st, data[1][1])
        ELSE [st EXCEPT !.broken = TRUE]

\* consumeResponseStreamText: every block the buffer holds, in order.
ConsumeOne(st) ==
    LET found == {i \in DOMAIN st.buffer : DelimiterAt(st.buffer, i) > 0}
        i     == Min(found)
    IN  IF found = {} \/ st.broken THEN st
        ELSE [ConsumeBlock(st, SubSeq(st.buffer, 1, i - 1)) EXCEPT
                 !.buffer = SubSeq(@, i + DelimiterAt(@, i), Len(@))]
ConsumeBuffer(st) ==
    LET after[n \in 0..Len(st.buffer)] == IF n = 0 THEN st ELSE ConsumeOne(after[n - 1])
    IN  after[Len(st.buffer)]
Consume(st, chunk) == ConsumeBuffer([st EXCEPT !.buffer = @ \o chunk])

\* (A slip: what no break closed is dropped.)
FlushNothing(st) == st
\* flush: what is left in the buffer once the stream is done.
Flush(st) ==
    IF \E i \in DOMAIN st.buffer : st.buffer[i] \notin Breaks
    THEN [ConsumeBlock(st, st.buffer) EXCEPT !.buffer = <<>>] ELSE st

Failed(st) == st.error \/ st.broken
\* The streamed text, or that of the completed response.
Reply(st)  == IF st.text # <<>> THEN st.text ELSE IF st.payload THEN AllText ELSE <<>>

-----------------------------------------------------------------------------
(* What the answer should be, said of the events the first n tokens hold,   *)
(* whatever the chunks: an error or half an event fails it; otherwise the   *)
(* deltas in order, or the whole text when there are none.                  *)
Got(s, n) ==
    LET wrote == SubSeq(Written(s), 1, n)
        Halves(h) == SelectSeq(wrote, LAMBDA t : t[2] = h)
    IN  [events |-> [i \in DOMAIN Halves(2) |-> Halves(2)[i][1]], cut |-> Len(Halves(1)) # Len(Halves(2))]
Fails(s, n) == Got(s, n).cut \/ Contains(Got(s, n).events, "fail")
Answer(s, n) ==
    LET events == Got(s, n).events
        deltas == SelectSeq(events, LAMBDA e : e \in {"a", "b"})
    IN  IF deltas # <<>> THEN deltas
        ELSE IF Contains(events, "full") \/ Contains(events, "whole") THEN AllText ELSE <<>>
=============================================================================
