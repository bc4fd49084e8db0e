------------------------------ MODULE Assembly ------------------------------
(***************************************************************************)
(* How a provider adapter puts a streamed turn together: text, and tool    *)
(* calls whose arguments arrive in fragments.  Anthropic opens and closes  *)
(* each call's block; OpenAI (and OpenRouter, which inherits its loop)     *)
(* only ends the stream.  A fragment is the first or the second half of a  *)
(* JSON object; anything but nothing or both halves in order fails to      *)
(* parse.  Capabilities, request bodies and the SDK's errors are left out. *)
(***************************************************************************)
EXTENDS Naturals, Sequences, FiniteSets, Ordering

\* The turn so far: the calls still open by block index, whether any text came,
\* the calls delivered, and how it ended.
EmptyTurn == [pending |-> <<>>, text |-> FALSE, calls |-> <<>>, end |-> "open"]

Opened(id) == [id |-> id, parts |-> <<>>]
With(f, i, x) == [j \in DOMAIN f \union {i} |-> IF j = i THEN x ELSE f[j]]
Without(f, i) == [j \in DOMAIN f \ {i} |-> f[j]]

\* json.loads of the joined fragments, with no fragment at all read as {}.
Parses(parts) == parts \in {<<>>, <<"open", "close">>}
ToolUse(call) == [id |-> call.id, input |-> call.parts]

\* finish and stop reasons that end a turn without text legitimately.
NoTextExpected == {"tool_use", "max_tokens"}
Ending(t, reason) ==
    [t EXCEPT !.end = IF t.text \/ reason \in NoTextExpected THEN "message_end"
                                                            ELSE "empty_response"]

-----------------------------------------------------------------------------
(* Anthropic: content_block_start, input_json_delta, content_block_stop. *)

\* Mutant of BufferOf: every fragment goes to the first open call.
BufferOfFirst(t, e) ==
    IF DOMAIN t.pending = {} THEN e.index
    ELSE CHOOSE i \in DOMAIN t.pending : \A j \in DOMAIN t.pending : i <= j

\* Which open call a fragment belongs to: the one of its own block index.
BufferOf(t, e) == e.index

OnStart(t, e) ==
    [t EXCEPT !.pending = With(t.pending, e.index, Opened(e.id))]

\* A fragment of a block that never started or already stopped is dropped.
OnFragment(t, e) ==
    LET i == BufferOf(t, e)
    IN IF i \in DOMAIN t.pending
         THEN [t EXCEPT !.pending[i].parts = Append(t.pending[i].parts, e.part)]
         ELSE t

\* A call whose arguments do not parse is dropped; the others are not.
OnStop(t, e) ==
    IF e.index \in DOMAIN t.pending
      THEN LET call == t.pending[e.index]
           IN [t EXCEPT !.pending = Without(t.pending, e.index),
                        !.calls = IF Parses(call.parts)
                                    THEN Append(t.calls, ToolUse(call)) ELSE t.calls]
      ELSE t

OnText(t) == [t EXCEPT !.text = TRUE]

OnBlockEvent(t, e) ==
    CASE e.type = "start" -> OnStart(t, e)
      [] e.type = "json"  -> OnFragment(t, e)
      [] e.type = "stop"  -> OnStop(t, e)
      [] e.type = "text"  -> OnText(t)

AnthropicTurn(wire, reason) ==
    LET after[n \in 0..Len(wire)] ==
            IF n = 0 THEN EmptyTurn ELSE OnBlockEvent(after[n - 1], wire[n])
    IN Ending(after[Len(wire)], reason)

-----------------------------------------------------------------------------
(* OpenAI: deltas with an index and any of id and fragment; no block ends. *)

OnDelta(t, e) ==
    IF e.type = "text" THEN OnText(t)
    ELSE LET open == IF e.index \in DOMAIN t.pending THEN t.pending[e.index]
                                                    ELSE Opened(0)
             call == [id    |-> IF e.id = 0 THEN open.id ELSE e.id,
                      parts |-> IF e.part = "none" THEN open.parts
                                                   ELSE Append(open.parts, e.part)]
         IN [t EXCEPT !.pending = With(t.pending, e.index, call)]

\* The calls in index order, up to the first whose arguments do not parse:
\* json.loads raises there, and no except clause of the adapter catches it.
Finalized(t) ==
    LET order == Increasing(DOMAIN t.pending)
        bad == {n \in DOMAIN order : ~Parses(t.pending[order[n]].parts)}
        kept == IF bad = {} THEN Len(order)
                ELSE (CHOOSE n \in bad : \A m \in bad : n <= m) - 1
        calls == [n \in 1..kept |-> ToolUse(t.pending[order[n]])]
    IN [t EXCEPT !.calls = calls, !.end = IF bad = {} THEN "open" ELSE "raised"]

OpenAITurn(wire, reason) ==
    LET after[n \in 0..Len(wire)] ==
            IF n = 0 THEN EmptyTurn ELSE OnDelta(after[n - 1], wire[n])
        t == Finalized(after[Len(wire)])
    IN IF t.end = "raised" THEN t ELSE Ending(t, reason)

-----------------------------------------------------------------------------
(* The wires explored: two calls, two halves of arguments, text. *)

\* The id of a call is the place on the wire where it was opened.
BlockEvents(n) ==
    [type : {"start"}, index : 0..1, id : {n}]
      \union [type : {"json"}, index : 0..1, part : {"open", "close"}]
      \union [type : {"stop"}, index : 0..1]
      \union {[type |-> "text"]}

Deltas(n) ==
    {d \in [type : {"delta"}, index : 0..1, id : {0, n}, part : {"none", "open", "close"}] :
        d.id # 0 \/ d.part # "none"}
      \union {[type |-> "text"]}

StopReason == {"end_turn", "tool_use", "max_tokens", "refusal"}

-----------------------------------------------------------------------------
(* What the adapters promise, said of the wire as a whole. *)

SameBlock(e, type, i) == e.type = type /\ e.index = i

\* Block i was opened at m and closed at n, with nothing of the kind between.
Spans(wire, m, n) ==
    /\ m < n
    /\ wire[m].type = "start"
    /\ SameBlock(wire[n], "stop", wire[m].index)
    /\ \A k \in (m + 1)..(n - 1) :
         ~SameBlock(wire[k], "start", wire[m].index) /\ ~SameBlock(wire[k], "stop", wire[m].index)

\* The fragments at some places of the wire, in order.
PartsAt(wire, places) == KeptAt([n \in places |-> wire[n].part], places)

\* What a reader of the whole wire says block i's closing at n called.
CallClosedAt(wire, n) ==
    LET m == CHOOSE k \in 1..(n - 1) : Spans(wire, k, n)
        mine == {k \in (m + 1)..(n - 1) : SameBlock(wire[k], "json", wire[m].index)}
    IN [id |-> wire[m].id, input |-> PartsAt(wire, mine)]

AnthropicIsFaithful(wire) ==
    LET closed == {n \in DOMAIN wire : \E m \in 1..(n - 1) : Spans(wire, m, n)}
        call == [n \in closed |-> CallClosedAt(wire, n)]
        heard == \E n \in DOMAIN wire : wire[n].type = "text"
    IN \A reason \in StopReason :
         LET t == AnthropicTurn(wire, reason)
         IN /\ t.calls = KeptAt(call, {n \in closed : Parses(call[n].input)})
            /\ t.end = "empty_response" <=> ~heard /\ reason \in {"end_turn", "refusal"}

ArgumentsOf(wire, i) ==
    PartsAt(wire, {n \in DOMAIN wire :
                     SameBlock(wire[n], "delta", i) /\ wire[n].part # "none"})

\* The id a call was last given; a call with none is delivered without.
IdOf(wire, i) ==
    LET named == {n \in DOMAIN wire : SameBlock(wire[n], "delta", i) /\ wire[n].id # 0}
    IN IF named = {} THEN 0
       ELSE wire[CHOOSE n \in named : \A m \in named : m <= n].id

OpenAIIsFaithful(wire) ==
    LET indexes == {wire[n].index : n \in {m \in DOMAIN wire : wire[m].type = "delta"}}
        whole == \A i \in indexes : Parses(ArgumentsOf(wire, i))
        call == [i \in indexes |-> [id |-> IdOf(wire, i), input |-> ArgumentsOf(wire, i)]]
        heard == \E n \in DOMAIN wire : wire[n].type = "text"
    IN \A reason \in StopReason :
         LET t == OpenAITurn(wire, reason)
         IN /\ t.end = "raised" <=> ~whole
            /\ whole => t.calls = KeptAt(call, indexes)
            /\ t.end = "empty_response"
                 <=> whole /\ ~heard /\ reason \in {"end_turn", "refusal"}
            /\ \A n \in DOMAIN t.calls : Parses(t.calls[n].input)

=============================================================================
